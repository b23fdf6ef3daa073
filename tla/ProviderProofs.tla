--------------------------- MODULE ProviderProofs ---------------------------
(* Proofs about ProviderClient: the clients keep ProviderContract, for any *)
(* number of callers and sessions and any bounds on retries, polls and     *)
(* faults.                                                                 *)
EXTENDS ProviderClient, TLAPS

-----------------------------------------------------------------------------
(* The inductive invariant.  v is the vendor, i the instances, k a call.   *)

Existed == {"live", "gone"}
Launched == {"tasked", "live", "gone", "void"}

\* A call is idle or under way as a whole, it has an answer exactly when it
\* is done, and its stages belong to its vendor.
Shape(v, k) ==
  /\ k.pc = "idle" => k = Idle
  /\ k.op = "idle" => k.pc = "idle"
  /\ k.ans = "none" <=> k.pc # "done"
  /\ k.op \in {"create", "destroy", "status"} => k.s \in Sessions
  /\ k.op \in {"list"} \cup Reads => k.s = NoSession
  /\ k.op \in {"templates", "balance"} => v = "vastai"
  /\ k.stage # "main" => k.op = "create"
  /\ k.stage \in {"attach", "created"} => v = "vastai"
  /\ k.stage \in {"poll", "info"} => v = "bluelobster"
  /\ k.stage = "poll" /\ k.pc \in {"sent", "served"} => k.tries < MaxPolls

\* What the call saw when it began still bounds what there is.
Progress(i, k) ==
  \A s \in Sessions : /\ k.before[s] = "live" => i[s] \in Existed
                      /\ k.before[s] = "gone" => i[s] = "gone"

\* The request for the instance has not been served yet.
Unserved(k) == k.pc \in {"check", "sent"} \/ (k.pc = "served" /\ k.reply = "limited")

CreateInv(v, i, k) ==
  k.op = "create" =>
    /\ i[k.s] \in Launched \cup {"asked"}
    /\ k.stage = "main" =>
         /\ Unserved(k) => i[k.s] = "asked"
         /\ k.pc = "served" /\ k.reply = "ok" =>
              i[k.s] \in IF v = "bluelobster" THEN Launched ELSE Existed
         /\ k.pc = "served" /\ k.reply \in {"stale", "staleDown"} => i[k.s] = "void"
    /\ k.stage # "main" => k.reply \notin {"stale", "staleDown"}
    /\ k.stage \in {"attach", "created", "info"} => i[k.s] \in Existed
    /\ k.stage = "poll" =>
         /\ i[k.s] \in Launched
         /\ k.pc = "served" /\ k.reply \in {"ok", "empty"} =>
              k.seen \in {"tasked", "void"} \/ i[k.s] \in Existed

DestroyInv(i, k) ==
  k.op = "destroy" =>
    /\ i[k.s] \in Existed
    /\ k.pc = "served" /\ k.reply \in {"ok", "garbled", "missing", "empty"} => i[k.s] = "gone"

StatusInv(v, i, k) ==
  k.op = "status" =>
    /\ i[k.s] \in Existed /\ k.before[k.s] \in Existed
    /\ k.pc = "served" /\ k.reply = "ok" => k.before[k.s] = "live"
    /\ k.pc = "served" /\ k.reply \in {"missing", "empty"} => i[k.s] = "gone"
    /\ k.pc = "served" /\ k.reply = "empty" => v = "vastai"

ListInv(i, k) ==
  k.op = "list" =>
    /\ \A s \in k.listed : k.before[s] # "gone" /\ i[s] \in Existed
    /\ k.pc = "served" => k.reply # "empty"
    /\ k.pc = "served" /\ k.reply = "ok" =>
         \A s \in Sessions : k.before[s] = "live" /\ i[s] = "live" => s \in k.listed

CallInv(v, i, k) ==
  /\ Shape(v, k) /\ Progress(i, k)
  /\ CreateInv(v, i, k) /\ DestroyInv(i, k) /\ StatusInv(v, i, k) /\ ListInv(i, k)

\* An instance is asked for by one call only.
OneCreator ==
  \A c, d \in Callers :
    (c # d /\ call[c].op = "create" /\ call[d].op = "create") => call[c].s # call[d].s

Inv ==
  /\ TypeOK /\ OneCreator
  /\ \A c \in Callers : CallInv(vendor, inst, call[c])

-----------------------------------------------------------------------------
(* Types                                                                   *)

LEMMA TriesBound ==
  /\ MaxTries \in Nat /\ MaxPolls <= MaxTries /\ MaxRetries + 1 <= MaxTries
BY ProviderClientAssumption DEF MaxTries

LEMMA BreakerTypes ==
  ASSUME NEW b \in Breakers
  PROVE  /\ newCircuitBreaker \in Breakers
         /\ allowed(b) \in Breakers
         /\ \A e : recordAPIResult(b, e) \in Breakers
<1>1. /\ b.state \in {"closed", "open", "half"} /\ b.failures \in 0..Threshold
      /\ Threshold \in Nat /\ 0 \in 0..Threshold
  BY ThresholdAssumption DEF Breakers
<1>2. recordSuccess(b) \in Breakers
  BY <1>1 DEF recordSuccess, Breakers
<1>3. newCircuitBreaker \in Breakers
  BY <1>1 DEF newCircuitBreaker, Breakers
<1>4. allowed(b) \in Breakers
  <2>1. [b EXCEPT !.state = "half", !.aged = FALSE] \in Breakers
    BY DEF Breakers
  <2>. QED
    BY <2>1 DEF allowed
<1>5. recordFailure(b) \in Breakers
  <2> DEFINE n == IF b.failures < Threshold THEN b.failures + 1 ELSE Threshold
  <2>1. n \in 0..Threshold
    BY <1>1
  <2> HIDE DEF n
  <2>2. [state |-> "open", failures |-> n, aged |-> FALSE] \in Breakers
    BY <2>1 DEF Breakers
  <2>3. [b EXCEPT !.failures = n] \in Breakers
    BY <2>1 DEF Breakers
  <2>. QED
    BY <2>2, <2>3 DEF recordFailure, n
<1>. QED
  BY <1>2, <1>3, <1>4, <1>5 DEF recordAPIResult

LEMMA IdleFacts ==
  /\ Idle \in Calls
  /\ Idle.op = "idle" /\ Idle.s = NoSession /\ Idle.stage = "main" /\ Idle.pc = "idle"
  /\ Idle.tries = 0 /\ Idle.reply = "ok" /\ Idle.seen = "none" /\ Idle.listed = {}
  /\ Idle.before = [s \in Sessions |-> "none"] /\ Idle.ans = "none"
<1>1. 0 \in 0..MaxTries
  BY TriesBound
<1>2. [s \in Sessions |-> "none"] \in [Sessions -> Instances]
  BY DEF Instances
<1>3. "ok" \in Replies /\ "none" \in Instances
  BY DEF Replies, Instances
<1>. QED
  BY <1>1, <1>2, <1>3 DEF Idle, Calls

\* The fields of a call.
LEMMA CallFields ==
  ASSUME NEW k \in Calls
  PROVE  /\ k.op \in Operations \cup {"idle"} /\ k.s \in Sessions \cup {NoSession}
         /\ k.stage \in {"main", "attach", "created", "poll", "info"}
         /\ k.pc \in {"idle", "check", "sent", "served", "done"}
         /\ k.tries \in 0..MaxTries /\ k.reply \in Replies
         /\ k.seen \in Instances \cup {"cache"} /\ k.listed \subseteq Sessions
         /\ k.before \in [Sessions -> Instances]
         /\ k.ans \in {"none", "ok", "stale", "missing", "error"}
BY DEF Calls

-----------------------------------------------------------------------------
(* What the clients make of replies                                        *)

LEMMA VastFacts ==
  ASSUME NEW r \in Replies
  PROVE  /\ VastCreateInstance(r) = NoError => r = "ok"
         /\ VastDestroyInstance(r) = NoError => r \in {"ok", "garbled"}
         /\ VastGetInstanceStatus(r) = NoError => r = "ok"
         /\ VastListAllInstances(r) = NoError => r = "ok"
         /\ ShouldRetryWithDifferentOffer(VastCreateInstance(r)) => r = "stale"
         /\ IsNotFoundError(VastDestroyInstance(r)) => r = "missing"
         /\ IsNotFoundError(VastGetInstanceStatus(r)) => r \in {"missing", "empty"}
BY DEF Replies, Refusals, Faulty, VastCreateInstance, VastDestroyInstance,
       VastGetInstanceStatus, VastListAllInstances, VastHandleError, Interpret, Unread,
       Unanswered, NoError, Err, ShouldRetryWithDifferentOffer, IsNotFoundError

LEMMA TensorFacts ==
  ASSUME NEW r \in Replies
  PROVE  /\ TensorCreateInstance(r) = NoError => r = "ok"
         /\ TensorDestroyInstance(r) = NoError => r \in {"ok", "garbled", "missing"}
         /\ TensorGetInstanceStatus(r) = NoError => r = "ok"
         /\ ShouldRetryWithDifferentOffer(TensorCreateInstance(r))
              => r \in {"stale", "staleDown"}
         /\ IsNotFoundError(TensorDestroyInstance(r)) => r = "missing"
         /\ IsNotFoundError(TensorGetInstanceStatus(r)) => r = "missing"
BY DEF Replies, Refusals, Faulty, TensorCreateInstance, TensorDestroyInstance,
       TensorGetInstanceStatus, TensorHandleError, TensorCheckBodyForError,
       TensorParseCreateError, Interpret, Unread, Unanswered, NoError, Err,
       ShouldRetryWithDifferentOffer, IsNotFoundError

LEMMA BlueFacts ==
  ASSUME NEW r \in Replies
  PROVE  /\ BlueDoRequest(r) = NoError => r \in {"ok", "empty"}
         /\ BlueLaunch(r) = NoError => r = "ok"
         /\ BlueDestroyInstance(r) = NoError => r \in {"ok", "garbled", "missing", "empty"}
         /\ ShouldRetryWithDifferentOffer(BlueLaunch(r)) => r = "stale"
         /\ ShouldRetryWithDifferentOffer(BlueDoRequest(r)) => r = "stale"
         /\ IsNotFoundError(BlueDestroyInstance(r)) => r = "missing"
         /\ IsNotFoundError(BlueDoRequest(r)) => r = "missing"
BY DEF Replies, Refusals, Faulty, BlueDoRequest, BlueLaunch, BlueDestroyInstance,
       BlueMapHTTPError, Interpret, Unread, Unanswered, NoError, Err,
       ShouldRetryWithDifferentOffer, IsNotFoundError

\* What an answer that is not an error says of the last reply, whoever gives it.
LEMMA ResultFacts ==
  ASSUME vendor \in {"vastai", "tensordock", "bluelobster"},
         NEW k \in Calls, Shape(vendor, k)
  PROVE  /\ (k.op = "create" /\ k.stage = "main" /\ Result(k) = NoError) => k.reply = "ok"
         /\ (k.op = "create" /\ k.stage \in {"poll", "info"} /\ Result(k) = NoError)
              => k.reply \in {"ok", "empty"}
         /\ (k.op = "create" /\ k.stage \in {"main", "poll", "info"}
               /\ ShouldRetryWithDifferentOffer(Result(k)))
              => k.reply \in {"stale", "staleDown"}
         /\ (k.op = "destroy" /\ Result(k) = NoError)
              => k.reply \in {"ok", "garbled", "missing", "empty"}
         /\ (k.op = "destroy" /\ IsNotFoundError(Result(k))) => k.reply = "missing"
         /\ (k.op = "status" /\ Result(k) = NoError)
              => k.reply = "ok" \/ (k.reply = "empty" /\ vendor = "bluelobster")
         /\ (k.op = "status" /\ IsNotFoundError(Result(k)))
              => k.reply \in {"missing", "empty"}
         /\ (k.op = "list" /\ Result(k) = NoError /\ vendor # "tensordock")
              => k.reply \in {"ok", "empty"}
<1>1. k.reply \in Replies /\ k.op \in Operations \cup {"idle"}
      /\ k.stage \in {"main", "attach", "created", "poll", "info"}
  BY CallFields
<1>2. /\ k.stage # "main" => k.op = "create"
      /\ k.stage \in {"attach", "created"} => vendor = "vastai"
      /\ k.stage \in {"poll", "info"} => vendor = "bluelobster"
  BY DEF Shape
<1>3. CASE vendor = "vastai"
  BY <1>1, <1>2, <1>3, VastFacts DEF Result, VastResult
<1>4. CASE vendor = "tensordock"
  BY <1>1, <1>2, <1>4, TensorFacts DEF Result, TensorResult
<1>5. CASE vendor = "bluelobster"
  BY <1>1, <1>2, <1>5, BlueFacts
  DEF Result, BlueResult, BlueGetInstanceInfo, BlueGetInstanceStatus, BlueListAllInstances
<1>. QED
  BY <1>3, <1>4, <1>5

-----------------------------------------------------------------------------
(* The provider's instances move on                                        *)

Moves == {<<"none", "asked">>, <<"asked", "tasked">>, <<"asked", "live">>,
          <<"asked", "void">>, <<"tasked", "live">>, <<"tasked", "void">>,
          <<"live", "gone">>}

\* No call but the one that asks for an instance minds what becomes of it.
LEMMA CallKept ==
  ASSUME NEW v, NEW i \in [Sessions -> Instances], NEW k \in Calls, CallInv(v, i, k),
         NEW s \in Sessions, NEW t, <<i[s], t>> \in Moves,
         i[s] \in {"none", "asked"} => ~(k.op = "create" /\ k.s = s)
  PROVE  CallInv(v, [i EXCEPT ![s] = t], k)
<1> DEFINE j == [i EXCEPT ![s] = t]
<1>1. j[s] = t /\ \A p \in Sessions : p # s => j[p] = i[p]
  OBVIOUS
<1>2. /\ i[s] \in Existed => t = "gone"
      /\ i[s] = "tasked" => t \in {"live", "void"}
      /\ i[s] # "gone" /\ i[s] # "void"
      /\ t # "none"
      /\ t = "live" => i[s] \in {"asked", "tasked"}
  BY DEF Moves, Existed
<1> HIDE DEF j
<1>3. Progress(j, k)
  BY <1>1, <1>2 DEF CallInv, Progress, Existed
<1>4. CreateInv(v, j, k)
  <2>. SUFFICES ASSUME k.op = "create" PROVE CreateInv(v, j, k)
    BY DEF CreateInv
  <2>1. k.s \in Sessions
    BY DEF CallInv, Shape
  <2>2. CASE k.s # s
    BY <1>1, <2>1, <2>2 DEF CallInv, CreateInv
  <2>3. CASE k.s = s
    BY <1>1, <1>2, <2>3 DEF CallInv, CreateInv, Existed, Launched
  <2>. QED
    BY <2>2, <2>3
<1>5. DestroyInv(j, k)
  BY <1>1, <1>2 DEF CallInv, Shape, DestroyInv, Existed
<1>6. StatusInv(v, j, k)
  BY <1>1, <1>2 DEF CallInv, Shape, StatusInv, Existed
<1>7. ListInv(j, k)
  <2>1. k.listed \subseteq Sessions
    BY CallFields
  <2>. QED
    BY <1>1, <1>2, <2>1 DEF CallInv, Progress, ListInv, Existed
<1>. QED
  BY <1>3, <1>4, <1>5, <1>6, <1>7 DEF CallInv, j

-----------------------------------------------------------------------------
(* Steps of a call                                                         *)

Refines == [Contract!Next]_(Contract!vars)

\* The call of c becomes k.
Sets(c, k) == call' = [d \in Callers |-> IF d = c THEN k ELSE call[d]]

\* What the contract sees of a call that is not done.
Alike(k, m) ==
  /\ m.op = k.op /\ m.s = k.s /\ m.before = k.before /\ m.ans = k.ans
  /\ k.pc # "done" /\ m.pc # "done"

LEMMA Frame ==
  ASSUME Inv, NEW c \in Callers, NEW k \in Calls, Sets(c, k), vendor' = vendor,
         inst' \in [Sessions -> Instances], brk' \in Breakers, cached' \in BOOLEAN,
         faults' \in 0..MaxFaults, CallInv(vendor, inst', k),
         \A d \in Callers \ {c} : CallInv(vendor, inst', call[d]),
         k.op = "create" =>
           \A d \in Callers \ {c} : call[d].op = "create" => call[d].s # k.s
  PROVE  Inv'
<1>1. call \in [Callers -> Calls]
  BY DEF Inv, TypeOK
<1>2. /\ call' \in [Callers -> Calls] /\ call'[c] = k
      /\ \A d \in Callers \ {c} : call'[d] = call[d]
  BY <1>1 DEF Sets
<1>3. TypeOK'
  BY <1>2 DEF Inv, TypeOK
<1>4. OneCreator'
  BY <1>2 DEF Inv, OneCreator
<1>5. \A d \in Callers : CallInv(vendor', inst', call'[d])
  BY <1>2
<1>. QED
  BY <1>3, <1>4, <1>5 DEF Inv

\* A step of c that leaves the instances alone.
LEMMA FrameLocal ==
  ASSUME Inv, NEW c \in Callers, NEW k \in Calls, Sets(c, k), UNCHANGED <<vendor, inst>>,
         brk' \in Breakers, cached' \in BOOLEAN, faults' \in 0..MaxFaults,
         CallInv(vendor, inst, k), k.op = call[c].op, k.s = call[c].s
  PROVE  Inv'
<1>1. \A d \in Callers \ {c} : CallInv(vendor, inst', call[d])
  BY DEF Inv
<1>2. k.op = "create" =>
        \A d \in Callers \ {c} : call[d].op = "create" => call[d].s # k.s
  BY DEF Inv, OneCreator
<1>3. inst' \in [Sessions -> Instances]
  BY DEF Inv, TypeOK
<1>. QED
  BY <1>1, <1>2, <1>3, Frame

LEMMA AlikeAsked ==
  ASSUME NEW k, NEW m, Alike(k, m)
  PROVE  Asked(m) = Asked(k)
BY DEF Alike, Asked

LEMMA AsksKept ==
  ASSUME NEW c \in Callers, NEW k, Sets(c, k), Alike(call[c], k)
  PROVE  [d \in Callers |-> Asked(call[d])]' = [d \in Callers |-> Asked(call[d])]
<1>1. Asked(k) = Asked(call[c])
  BY AlikeAsked
<1>2. \A d \in Callers : Asked(call'[d]) = Asked(call[d])
  BY <1>1 DEF Sets
<1>. QED
  BY <1>2

\* The contract sees nothing.
LEMMA Hidden ==
  ASSUME NEW c \in Callers, NEW k, Sets(c, k), Alike(call[c], k), UNCHANGED <<vendor, inst>>
  PROVE  Refines
<1>1. [d \in Callers |-> Asked(call[d])]' = [d \in Callers |-> Asked(call[d])]
  BY AsksKept
<1>2. Abstracted(inst)' = Abstracted(inst)
  BY DEF Abstracted
<1>. QED
  BY <1>1, <1>2 DEF Refines, Contract!vars

-----------------------------------------------------------------------------
(* The breaker lets a request through, or not                              *)

LEMMA CheckStep ==
  ASSUME Inv, NEW c \in Callers, checkCircuitBreaker(c)
  PROVE  \E k \in Calls :
           /\ Sets(c, k) /\ Alike(call[c], k)
           /\ k.stage = call[c].stage /\ k.tries = call[c].tries
           /\ k.listed = call[c].listed
           /\ \/ k.pc = "served" /\ k.reply = "open"
              \/ k.pc = "served" /\ k.reply = "ok" /\ k.op = "templates"
              \/ k.pc = "sent" /\ k.reply = call[c].reply
<1> DEFINE k0 == call[c]
           m1 == [k0 EXCEPT !.pc = "served", !.reply = "open"]
           m2 == [k0 EXCEPT !.pc = "served", !.reply = "ok", !.seen = "cache"]
           m3 == [k0 EXCEPT !.pc = "sent"]
<1>1. k0 \in Calls /\ call \in [Callers -> Calls] /\ k0.pc = "check"
  BY DEF Inv, TypeOK, checkCircuitBreaker
<1>2. m1 \in Calls /\ m2 \in Calls /\ m3 \in Calls
  BY <1>1 DEF Calls, Replies
<1>3. \/ call' = [call EXCEPT ![c].pc = "served", ![c].reply = "open"]
      \/ k0.op = "templates" /\ call' = [call EXCEPT ![c].pc = "served",
            ![c].reply = "ok", ![c].seen = "cache"]
      \/ call' = [call EXCEPT ![c].pc = "sent"]
  BY DEF checkCircuitBreaker
<1>4. CASE call' = [call EXCEPT ![c].pc = "served", ![c].reply = "open"]
  <2>1. Sets(c, m1)
    BY <1>1, <1>4 DEF Sets
  <2>2. /\ Alike(k0, m1) /\ m1.stage = k0.stage /\ m1.tries = k0.tries
        /\ m1.listed = k0.listed /\ m1.pc = "served" /\ m1.reply = "open"
    BY <1>1 DEF Alike, Calls
  <2>. HIDE DEF m1
  <2>. QED
    BY <1>2, <2>1, <2>2
<1>5. CASE k0.op = "templates" /\ call' = [call EXCEPT ![c].pc = "served",
             ![c].reply = "ok", ![c].seen = "cache"]
  <2>1. Sets(c, m2)
    BY <1>1, <1>5 DEF Sets
  <2>2. /\ Alike(k0, m2) /\ m2.stage = k0.stage /\ m2.tries = k0.tries
        /\ m2.listed = k0.listed /\ m2.pc = "served" /\ m2.reply = "ok"
        /\ m2.op = "templates"
    BY <1>1, <1>5 DEF Alike, Calls
  <2>. HIDE DEF m2
  <2>. QED
    BY <1>2, <2>1, <2>2
<1>6. CASE call' = [call EXCEPT ![c].pc = "sent"]
  <2>1. Sets(c, m3)
    BY <1>1, <1>6 DEF Sets
  <2>2. /\ Alike(k0, m3) /\ m3.stage = k0.stage /\ m3.tries = k0.tries
        /\ m3.listed = k0.listed /\ m3.pc = "sent" /\ m3.reply = k0.reply
    BY <1>1 DEF Alike, Calls
  <2>. HIDE DEF m3
  <2>. QED
    BY <1>2, <2>1, <2>2
<1>. QED
  BY <1>3, <1>4, <1>5, <1>6

LEMMA Check ==
  ASSUME Inv, NEW c \in Callers, checkCircuitBreaker(c)
  PROVE  Inv' /\ Refines
<1>1. PICK k \in Calls :
           /\ Sets(c, k) /\ Alike(call[c], k)
           /\ k.stage = call[c].stage /\ k.tries = call[c].tries
           /\ k.listed = call[c].listed
           /\ \/ k.pc = "served" /\ k.reply = "open"
              \/ k.pc = "served" /\ k.reply = "ok" /\ k.op = "templates"
              \/ k.pc = "sent" /\ k.reply = call[c].reply
  BY CheckStep
<1>2. CallInv(vendor, inst, call[c]) /\ call[c].pc = "check" /\ call[c] \in Calls
  BY DEF Inv, TypeOK, checkCircuitBreaker
<1>3. k.stage = "poll" => k.tries < MaxPolls
  <2>1. call[c].tries \in Nat /\ MaxPolls \in Nat
    BY <1>2, CallFields, TriesBound, ProviderClientAssumption
  <2>. QED
    BY <1>1, <2>1 DEF checkCircuitBreaker, PollOver
<1>4. Shape(vendor, k) /\ Progress(inst, k)
  BY <1>1, <1>2, <1>3 DEF CallInv, Shape, Progress, Alike
<1>5. CreateInv(vendor, inst, k)
  BY <1>1, <1>2 DEF CallInv, CreateInv, Unserved, Alike
<1>6. DestroyInv(inst, k) /\ StatusInv(vendor, inst, k) /\ ListInv(inst, k)
  BY <1>1, <1>2 DEF CallInv, DestroyInv, StatusInv, ListInv, Alike
<1>7. /\ UNCHANGED <<vendor, inst, cached, faults>>
      /\ brk' = brk \/ brk' = allowed(brk)
  BY DEF checkCircuitBreaker
<1>8. brk' \in Breakers /\ cached' \in BOOLEAN /\ faults' \in 0..MaxFaults
  BY <1>7, BreakerTypes DEF Inv, TypeOK
<1>9. Inv'
  BY <1>1, <1>4, <1>5, <1>6, <1>7, <1>8, FrameLocal DEF CallInv, Alike
<1>. QED
  BY <1>1, <1>7, <1>9, Hidden

-----------------------------------------------------------------------------
(* A call begins                                                           *)

LEMMA InstTypes ==
  ASSUME Inv
  PROVE  /\ inst \in [Sessions -> Instances] /\ call \in [Callers -> Calls]
         /\ vendor \in {"vastai", "tensordock", "bluelobster"}
         /\ brk \in Breakers /\ cached \in BOOLEAN /\ faults \in 0..MaxFaults
         /\ \A c \in Callers : call[c] \in Calls /\ CallInv(vendor, inst, call[c])
BY ProviderClientAssumption DEF Inv, TypeOK

\* How a move of one instance looks to the contract.
LEMMA AbstractMove ==
  ASSUME NEW i \in [Sessions -> Instances], NEW s \in Sessions, NEW t
  PROVE  /\ t # "tasked" =>
              Abstracted([i EXCEPT ![s] = t]) = [Abstracted(i) EXCEPT ![s] = t]
         /\ (t = "tasked" /\ i[s] = "asked") => Abstracted([i EXCEPT ![s] = t]) = Abstracted(i)
         /\ Abstracted(i)[s] = IF i[s] = "tasked" THEN "asked" ELSE i[s]
BY DEF Abstracted

LEMMA BeginStep ==
  ASSUME Inv, NEW c \in Callers, NEW op \in Operations,
         NEW s \in Sessions \cup {NoSession}, Begin(c, op, s)
  PROVE  \E k \in Calls :
           /\ Sets(c, k)
           /\ k.op = op /\ k.s = s /\ k.pc = "check" /\ k.before = inst
           /\ k.stage = "main" /\ k.reply = "ok" /\ k.listed = {} /\ k.ans = "none"
<1> DEFINE k == [Idle EXCEPT !.op = op, !.s = s, !.pc = "check", !.before = inst]
<1>1. Idle \in Calls /\ inst \in [Sessions -> Instances]
  BY IdleFacts, InstTypes
<1>2. k \in Calls
  BY <1>1 DEF Calls
<1>3. /\ k.op = op /\ k.s = s /\ k.pc = "check" /\ k.before = inst
      /\ k.stage = Idle.stage /\ k.reply = Idle.reply /\ k.listed = Idle.listed
      /\ k.ans = Idle.ans
  BY <1>1 DEF Calls
<1>4. Sets(c, k)
  BY InstTypes DEF Begin, Sets
<1> HIDE DEF k
<1>. QED
  BY <1>2, <1>3, <1>4, IdleFacts

LEMMA BeginInv ==
  ASSUME Inv, NEW c \in Callers, NEW op \in Operations,
         NEW s \in Sessions \cup {NoSession}, Begin(c, op, s)
  PROVE  Inv'
<1>1. PICK k \in Calls :
        /\ Sets(c, k)
        /\ k.op = op /\ k.s = s /\ k.pc = "check" /\ k.before = inst
        /\ k.stage = "main" /\ k.reply = "ok" /\ k.listed = {} /\ k.ans = "none"
  BY BeginStep
<1>2. Sets(c, k)
  BY <1>1
<1>3. UNCHANGED <<vendor, brk, cached, faults>>
  BY DEF Begin
<1>4. /\ op \in {"templates", "balance"} => vendor = "vastai"
      /\ op \in {"destroy", "status"} => s \in Sessions /\ inst[s] \in Existed
      /\ op \in {"list"} \cup Reads => s = NoSession
      /\ op = "create" => s \in Sessions /\ inst[s] = "none"
  BY DEF Begin, Reads, Operations, Existed
<1>5. Shape(vendor, k)
  BY <1>1, <1>4 DEF Shape, Operations, Reads
<1>6. CASE op = "create"
  <2>1. inst' = [inst EXCEPT ![s] = "asked"] /\ <<inst[s], "asked">> \in Moves
    BY <1>4, <1>6 DEF Begin, Moves
  <2>2. /\ inst' \in [Sessions -> Instances] /\ inst'[s] = "asked"
        /\ \A p \in Sessions : p # s => inst'[p] = inst[p]
    BY <1>4, <1>6, <2>1, InstTypes DEF Instances
  <2>3. \A d \in Callers : call[d].op = "create" => call[d].s # s
    BY <1>4, <1>6, InstTypes DEF CallInv, CreateInv, Launched
  <2>4. \A d \in Callers \ {c} : CallInv(vendor, inst', call[d])
    BY <1>4, <1>6, <2>1, <2>3, InstTypes, CallKept
  <2>5. Progress(inst', k) /\ CreateInv(vendor, inst', k)
    BY <1>1, <1>4, <1>6, <2>2 DEF Progress, CreateInv, Existed, Unserved
  <2>6. DestroyInv(inst', k) /\ StatusInv(vendor, inst', k) /\ ListInv(inst', k)
    BY <1>1, <1>6 DEF DestroyInv, StatusInv, ListInv
  <2>7. CallInv(vendor, inst', k)
    BY <1>5, <2>5, <2>6 DEF CallInv
  <2>. QED
    BY <1>1, <1>2, <1>3, <2>2, <2>3, <2>4, <2>7, InstTypes, Frame
<1>7. CASE op # "create"
  <2>1. inst' = inst
    BY <1>7 DEF Begin
  <2>2. Progress(inst, k) /\ CreateInv(vendor, inst, k)
    BY <1>1, <1>7 DEF Progress, CreateInv, Existed
  <2>3. DestroyInv(inst, k) /\ StatusInv(vendor, inst, k) /\ ListInv(inst, k)
    BY <1>1, <1>4 DEF DestroyInv, StatusInv, ListInv
  <2>4. CallInv(vendor, inst', k)
    BY <1>5, <2>1, <2>2, <2>3 DEF CallInv
  <2>5. \A d \in Callers \ {c} : CallInv(vendor, inst', call[d])
    BY <2>1, InstTypes
  <2>. QED
    BY <1>1, <1>2, <1>3, <1>7, <2>1, <2>4, <2>5, InstTypes, Frame
<1>. QED
  BY <1>6, <1>7

LEMMA BeginRefines ==
  ASSUME Inv, NEW c \in Callers, NEW op \in Operations,
         NEW s \in Sessions \cup {NoSession}, Begin(c, op, s)
  PROVE  Refines
<1> DEFINE aop == IF op \in Reads THEN "read" ELSE op
           ask == [d \in Callers |-> Asked(call[d])]
<1>1. PICK k \in Calls :
        /\ Sets(c, k)
        /\ k.op = op /\ k.s = s /\ k.pc = "check" /\ k.before = inst
        /\ k.stage = "main" /\ k.reply = "ok" /\ k.listed = {} /\ k.ans = "none"
  BY BeginStep
<1>2. Sets(c, k)
  BY <1>1
<1>3. call[c] = Idle
  BY InstTypes DEF Begin, CallInv, Shape
<1>4. ask[c] = Contract!Idle
  <2>1. Abstracted([p \in Sessions |-> "none"]) = [p \in Sessions |-> "none"]
    BY DEF Abstracted
  <2>. QED
    BY <1>3, <2>1, IdleFacts DEF Asked, Contract!Idle, Reads
<1>5. Asked(k) = [Contract!Idle EXCEPT !.op = aop, !.s = s, !.before = Abstracted(inst)]
  <2>1. Asked(k) = [op |-> aop, s |-> s, before |-> Abstracted(inst), ans |-> "none",
                    listed |-> {}]
    BY <1>1 DEF Asked
  <2> DEFINE z == Abstracted(inst)
             I == Contract!Idle
             J == [I EXCEPT !.op = aop]
             K == [J EXCEPT !.s = s]
  <2> HIDE DEF aop, z
  <2>2. [I EXCEPT !.op = aop, !.s = s, !.before = z] = [K EXCEPT !.before = z]
    OBVIOUS
  <2>3. J = [op |-> aop, s |-> NoSession, before |-> [p \in Sessions |-> "none"],
             ans |-> "none", listed |-> {}]
    BY DEF Contract!Idle
  <2> HIDE DEF J
  <2>4. K = [op |-> aop, s |-> s, before |-> [p \in Sessions |-> "none"],
             ans |-> "none", listed |-> {}]
    BY <2>3
  <2> HIDE DEF K
  <2>5. [K EXCEPT !.before = z]
          = [op |-> aop, s |-> s, before |-> z, ans |-> "none", listed |-> {}]
    BY <2>4
  <2>. QED
    BY <2>1, <2>2, <2>5 DEF z
<1>6. ask' = [ask EXCEPT ![c] = Asked(k)]
  BY <1>2 DEF Sets
<1>7. /\ aop \in {"create", "destroy", "status", "list", "read"}
      /\ UNCHANGED vendor
  BY DEF Operations, Reads, Begin
<1>8. \/ /\ aop = "create" /\ s \in Sessions /\ Abstracted(inst)[s] = "none"
         /\ Abstracted(inst)' = [Abstracted(inst) EXCEPT ![s] = "asked"]
      \/ /\ aop \in {"destroy", "status"} /\ s \in Sessions
         /\ Abstracted(inst)[s] \in Contract!Existed
         /\ Abstracted(inst)' = Abstracted(inst)
      \/ /\ aop \in {"list", "read"} /\ s = NoSession
         /\ Abstracted(inst)' = Abstracted(inst)
  <2>1. CASE op = "create"
    <3>1. s \in Sessions /\ inst[s] = "none" /\ inst' = [inst EXCEPT ![s] = "asked"]
      BY <2>1 DEF Begin
    <3>2. Abstracted(inst') = [Abstracted(inst) EXCEPT ![s] = "asked"]
          /\ Abstracted(inst)[s] = "none"
      BY <3>1, InstTypes DEF Abstracted
    <3>3. aop = "create"
      BY <2>1 DEF Reads
    <3>. QED
      BY <3>1, <3>2, <3>3 DEF Abstracted
  <2>2. CASE op \in {"destroy", "status"}
    <3>1. s \in Sessions /\ inst[s] \in {"live", "gone"} /\ inst' = inst
      BY <2>2 DEF Begin
    <3>2. Abstracted(inst)[s] \in Contract!Existed
      BY <3>1, AbstractMove, InstTypes DEF Contract!Existed
    <3>. QED
      BY <2>2, <3>1, <3>2 DEF Abstracted, Reads
  <2>3. CASE op \in {"list"} \cup Reads
    BY <2>3 DEF Begin, Reads, Abstracted
  <2>. QED
    BY <2>1, <2>2, <2>3 DEF Operations
<1>9. Contract!Invoke(c, aop, s)
  BY <1>4, <1>5, <1>6, <1>7, <1>8 DEF Contract!Invoke
<1>. QED
  BY <1>7, <1>9 DEF Refines, Contract!Next

-----------------------------------------------------------------------------
(* The provider serves or fails a request                                  *)

\* An instance moves and the contract sees no call change.
LEMMA MoveRefines ==
  ASSUME Inv, NEW s \in Sessions, NEW t, <<inst[s], t>> \in Moves, inst[s] # "none",
         inst' = [inst EXCEPT ![s] = t], vendor' = vendor,
         [d \in Callers |-> Asked(call[d])]' = [d \in Callers |-> Asked(call[d])]
  PROVE  Refines
<1>1. inst \in [Sessions -> Instances]
  BY InstTypes
<1> DEFINE A == Abstracted(inst)
<1>2. CASE t = "tasked"
  <2>1. A' = A
    BY <1>1, <1>2 DEF Abstracted, Moves
  <2>. QED
    BY <2>1 DEF Refines, Contract!vars
<1>3. CASE t # "tasked"
  <2>1. A' = [A EXCEPT ![s] = t]
    BY <1>1, <1>3 DEF Abstracted
  <2>2. \/ t \in {"live", "void"} /\ A[s] = "asked"
        \/ t = "gone" /\ A[s] = "live"
    BY <1>1, <1>3 DEF Abstracted, Moves
  <2>3. Contract!Appear(s) \/ Contract!Refuse(s) \/ Contract!Vanish(s)
    BY <2>1, <2>2 DEF Contract!Appear, Contract!Refuse, Contract!Vanish
  <2>. QED
    BY <2>3 DEF Refines, Contract!Next
<1>. QED
  BY <1>2, <1>3

\* What a served request did to the session's instance and what it answers.
LEMMA EffectFacts ==
  ASSUME Inv, NEW c \in Callers, call[c].pc = "sent", call[c].s # NoSession,
         NEW f \in Effects(call[c])
  PROVE  LET k == call[c]
             i == inst[k.s]
         IN  /\ k.s \in Sessions /\ f.r \in Replies
             /\ (k.op = "create" /\ k.stage = "main") =>
                  /\ i = "asked" /\ f.to \in {"tasked", "live", "void"}
                  /\ f.r \in {"ok", "stale", "staleDown", "invalid", "empty"}
                  /\ (f.r = "ok" /\ vendor = "bluelobster") => f.to = "tasked"
                  /\ (f.r = "ok" /\ vendor # "bluelobster") => f.to = "live"
                  /\ f.r # "ok" => f.to = "void"
             /\ (k.op = "create" /\ k.stage # "main") =>
                  f.to = i /\ f.r \in {"ok", "missing"}
             /\ k.op = "destroy" => f.to = "gone" /\ f.r \in {"ok", "missing"}
             /\ k.op = "status" =>
                  /\ f.to = i
                  /\ IF i = "gone" THEN \/ f.r = "missing"
                                        \/ f.r = "empty" /\ vendor = "vastai"
                                   ELSE f.r = "ok"
             /\ k.op \in {"create", "destroy", "status"}
<1> DEFINE k == call[c]
<1>1. /\ k \in Calls /\ CallInv(vendor, inst, k)
      /\ vendor \in {"vastai", "tensordock", "bluelobster"}
  BY InstTypes
<1>2. k.op \in {"create", "destroy", "status"} /\ k.s \in Sessions
  BY <1>1, CallFields DEF CallInv, Shape, Operations
<1>3. Declines \subseteq {"stale", "staleDown", "invalid", "empty"}
  BY <1>1 DEF Declines
<1>4. (k.op = "create" /\ k.stage = "main") => inst[k.s] = "asked"
  BY <1>1 DEF CallInv, CreateInv, Unserved
<1> HIDE DEF k
<1>5. CASE k.op = "create" /\ k.stage = "main"
  <2>1. \/ /\ f = [to |-> IF vendor = "bluelobster" THEN "tasked" ELSE "live", r |-> "ok"]
        \/ \E r \in Declines : f = [to |-> "void", r |-> r]
    BY <1>4, <1>5 DEF Effects, k
  <2>2. \/ f.r = "ok" /\ f.to = (IF vendor = "bluelobster" THEN "tasked" ELSE "live")
        \/ f.r \in Declines /\ f.to = "void"
    BY <2>1
  <2>. QED
    BY <1>2, <1>3, <1>4, <1>5, <2>2 DEF k, Replies, Refusals
<1>6. CASE k.op = "create" /\ k.stage # "main"
  <2>1. f.to = inst[k.s] /\ f.r \in {"ok", "missing"}
    BY <1>6 DEF Effects, k
  <2>. QED
    BY <1>2, <1>6, <2>1 DEF k, Replies
<1>7. CASE k.op = "destroy"
  <2>1. f.to = "gone" /\ f.r \in {"ok", "missing"}
    BY <1>7 DEF Effects, k
  <2>. QED
    BY <1>2, <1>7, <2>1 DEF k, Replies
<1>8. CASE k.op = "status"
  <2>1. /\ f.to = inst[k.s]
        /\ IF inst[k.s] = "gone" THEN \/ f.r = "missing"
                                      \/ f.r = "empty" /\ vendor = "vastai"
                                 ELSE f.r = "ok"
    BY <1>8 DEF Effects, k
  <2>. QED
    BY <1>2, <1>8, <2>1 DEF k, Replies, Refusals
<1>. QED
  BY <1>2, <1>5, <1>6, <1>7, <1>8

\* The call that has been served, whatever is left of the answer.
Served(k, m) ==
  /\ Alike(k, m) /\ m.stage = k.stage /\ m.tries = k.tries /\ m.pc = "served"

LEMMA ServeStep ==
  ASSUME Inv, NEW c \in Callers, Serve(c)
  PROVE  \E m \in Calls :
           /\ Sets(c, m) /\ Served(call[c], m)
           /\ m.seen = IF call[c].stage = "poll" THEN inst[call[c].s] ELSE "none"
           /\ m.listed = IF call[c].op = "list" /\ m.reply = "ok"
                         THEN {s \in Sessions : inst[s] = "live"} ELSE {}
           /\ faults' \in 0..MaxFaults
           /\ \/ /\ call[c].s = NoSession /\ inst' = inst
                 /\ m.reply \in {"ok", "garbled", "broken", "expired"}
              \/ /\ call[c].s # NoSession
                 /\ \E f \in Effects(call[c]) :
                      /\ inst' = [inst EXCEPT ![call[c].s] = f.to]
                      /\ m.reply \in {f.r, "garbled", "broken", "expired"}
<1> DEFINE k == call[c]
           x == IF k.stage = "poll" THEN inst[k.s] ELSE "none"
           L(r) == IF k.op = "list" /\ r = "ok"
                   THEN {s \in Sessions : inst[s] = "live"} ELSE {}
<1>1. /\ k \in Calls /\ call \in [Callers -> Calls] /\ k.pc = "sent"
      /\ CallInv(vendor, inst, k) /\ inst \in [Sessions -> Instances]
      /\ faults \in 0..MaxFaults
  BY InstTypes DEF Serve
<1>2. PICK f \in IF k.s = NoSession THEN {[to |-> "none", r |-> "ok"]} ELSE Effects(k) :
        /\ inst' = IF k.s = NoSession THEN inst ELSE [inst EXCEPT ![k.s] = f.to]
        /\ \/ /\ call' = [call EXCEPT ![c].pc = "served", ![c].reply = f.r,
                                      ![c].seen = x, ![c].listed = L(f.r)]
              /\ UNCHANGED faults
           \/ /\ faults < MaxFaults
              /\ faults' = faults + 1
              /\ \E r \in {"garbled", "broken", "expired"} :
                   call' = [call EXCEPT ![c].pc = "served", ![c].reply = r,
                                        ![c].seen = x, ![c].listed = L(r)]
  BY DEF Serve
<1>3. f.r \in Replies
  BY <1>1, <1>2, EffectFacts DEF Replies
<1>4. PICK r \in {f.r, "garbled", "broken", "expired"} :
        call' = [call EXCEPT ![c].pc = "served", ![c].reply = r,
                             ![c].seen = x, ![c].listed = L(r)]
  BY <1>2
<1>5. r \in Replies
  BY <1>3, <1>4 DEF Replies, Faulty
<1>6. x \in Instances \cup {"cache"} /\ L(r) \subseteq Sessions
  <2>1. k.stage = "poll" => k.s \in Sessions
    BY <1>1 DEF CallInv, Shape
  <2>. QED
    BY <1>1, <2>1 DEF Instances
<1>7. faults' \in 0..MaxFaults
  BY <1>1, <1>2, ProviderClientAssumption
<1> DEFINE y == L(r)
           m == [k EXCEPT !.pc = "served", !.reply = r, !.seen = x, !.listed = y]
<1>8. Sets(c, m)
  <2>1. call' = [call EXCEPT ![c].pc = "served", ![c].reply = r, ![c].seen = x,
                             ![c].listed = y]
    BY <1>4
  <2> HIDE DEF x, y
  <2>. QED
    BY <1>1, <2>1 DEF Sets
<1>9. /\ m \in Calls /\ Served(k, m) /\ m.reply = r /\ m.seen = x /\ m.listed = y
  <2>1. y \subseteq Sessions
    BY <1>6
  <2> HIDE DEF x, y
  <2>. QED
    BY <1>1, <1>5, <1>6, <2>1 DEF Calls, Served, Alike
<1>10. m.listed = IF k.op = "list" /\ m.reply = "ok"
                  THEN {s \in Sessions : inst[s] = "live"} ELSE {}
  <2> HIDE DEF m
  <2>. QED
    BY <1>9
<1>11. CASE k.s = NoSession
  <2>1. r \in {"ok", "garbled", "broken", "expired"} /\ inst' = inst
    BY <1>2, <1>4, <1>11
  <2> HIDE DEF m
  <2>. QED
    BY <1>7, <1>8, <1>9, <1>10, <1>11, <2>1
<1>12. CASE k.s # NoSession
  <2>1. f \in Effects(k) /\ inst' = [inst EXCEPT ![k.s] = f.to]
    BY <1>2, <1>12
  <2> HIDE DEF m
  <2>. QED
    BY <1>4, <1>7, <1>8, <1>9, <1>10, <1>12, <2>1
<1>. QED
  BY <1>11, <1>12

\* The served call keeps its part of the invariant, given what the provider
\* did with the session's instance.
LEMMA ServedInv ==
  ASSUME Inv, NEW c \in Callers, call[c].pc = "sent", call[c].s # NoSession,
         NEW f \in Effects(call[c]), NEW m \in Calls, Served(call[c], m),
         m.seen = (IF call[c].stage = "poll" THEN inst[call[c].s] ELSE "none"),
         m.reply \in {f.r, "garbled", "broken", "expired"},
         NEW j, \A p \in Sessions : j[p] = IF p = call[c].s THEN f.to ELSE inst[p]
  PROVE  CallInv(vendor, j, m)
<1> DEFINE k == call[c]
           i == inst[k.s]
<1>1. /\ k \in Calls /\ CallInv(vendor, inst, k)
      /\ vendor \in {"vastai", "tensordock", "bluelobster"}
  BY InstTypes
<1>2. /\ k.s \in Sessions /\ f.r \in Replies
      /\ (k.op = "create" /\ k.stage = "main") =>
           /\ i = "asked" /\ f.to \in {"tasked", "live", "void"}
           /\ f.r \in {"ok", "stale", "staleDown", "invalid", "empty"}
           /\ (f.r = "ok" /\ vendor = "bluelobster") => f.to = "tasked"
           /\ (f.r = "ok" /\ vendor # "bluelobster") => f.to = "live"
           /\ f.r # "ok" => f.to = "void"
      /\ (k.op = "create" /\ k.stage # "main") => f.to = i /\ f.r \in {"ok", "missing"}
      /\ k.op = "destroy" => f.to = "gone" /\ f.r \in {"ok", "missing"}
      /\ k.op = "status" =>
           /\ f.to = i
           /\ IF i = "gone" THEN \/ f.r = "missing"
                                 \/ f.r = "empty" /\ vendor = "vastai"
                            ELSE f.r = "ok"
      /\ k.op \in {"create", "destroy", "status"}
  BY EffectFacts
<1>3. /\ m.op = k.op /\ m.s = k.s /\ m.before = k.before /\ m.ans = k.ans
      /\ m.stage = k.stage /\ m.tries = k.tries /\ m.pc = "served"
      /\ k.pc = "sent" /\ j[k.s] = f.to
  BY <1>2 DEF Served, Alike
<1>4. Shape(vendor, m)
  BY <1>1, <1>3 DEF CallInv, Shape
<1> HIDE DEF k, i
<1>5. CASE k.op = "create" /\ k.stage = "main"
  <2>1. i = "asked" /\ f.to \in {"tasked", "live", "void"}
    BY <1>2, <1>5
  <2>2. Progress(j, m)
    BY <1>1, <1>2, <1>3, <2>1 DEF CallInv, Progress, Existed, k, i
  <2>3. CreateInv(vendor, j, m)
    BY <1>2, <1>3, <1>5, <2>1 DEF CreateInv, Unserved, Launched, Existed
  <2>. QED
    BY <1>3, <1>4, <1>5, <2>2, <2>3
    DEF CallInv, DestroyInv, StatusInv, ListInv
<1>6. CASE k.op = "create" /\ k.stage # "main"
  <2>1. \A p \in Sessions : j[p] = inst[p]
    BY <1>2, <1>6 DEF k, i
  <2>2. Progress(j, m)
    BY <1>1, <1>3, <2>1 DEF CallInv, Progress
  <2>3. CreateInv(vendor, inst, k)
    BY <1>1 DEF CallInv
  <2>4. m.reply \notin {"stale", "staleDown"}
    BY <1>2, <1>6
  <2>5. (k.stage = "poll" /\ m.seen \notin {"tasked", "void"}) => i \in Existed
    BY <1>6, <2>3 DEF CreateInv, Launched, Existed, k, i
  <2>6. CreateInv(vendor, j, m)
    BY <1>2, <1>3, <1>6, <2>3, <2>4, <2>5 DEF CreateInv, i
  <2>. QED
    BY <1>3, <1>4, <1>6, <2>2, <2>6
    DEF CallInv, DestroyInv, StatusInv, ListInv
<1>7. CASE k.op = "destroy"
  <2>1. i \in Existed
    BY <1>1, <1>7 DEF CallInv, DestroyInv, i
  <2>2. Progress(j, m)
    BY <1>1, <1>2, <1>3, <1>7, <2>1 DEF CallInv, Progress, Existed, k, i
  <2>3. DestroyInv(j, m)
    BY <1>2, <1>3, <1>7 DEF DestroyInv, Existed
  <2>. QED
    BY <1>3, <1>4, <1>7, <2>2, <2>3
    DEF CallInv, CreateInv, StatusInv, ListInv
<1>8. CASE k.op = "status"
  <2>1. \A p \in Sessions : j[p] = inst[p]
    BY <1>2, <1>8 DEF k, i
  <2>2. Progress(j, m) /\ Progress(inst, k)
    BY <1>1, <1>3, <2>1 DEF CallInv, Progress
  <2>3. StatusInv(vendor, inst, k)
    BY <1>1 DEF CallInv
  <2>4. /\ i \in Existed /\ k.before[k.s] \in Existed
        /\ k.before[k.s] = "gone" => i = "gone"
    BY <1>2, <1>8, <2>2, <2>3 DEF StatusInv, Progress, i
  <2>5. StatusInv(vendor, j, m)
    BY <1>2, <1>3, <1>8, <2>4 DEF StatusInv, Existed
  <2>. QED
    BY <1>3, <1>4, <1>8, <2>2, <2>5
    DEF CallInv, CreateInv, DestroyInv, ListInv
<1>. QED
  BY <1>2, <1>5, <1>6, <1>7, <1>8

LEMMA ServeRight ==
  ASSUME Inv, NEW c \in Callers, Serve(c)
  PROVE  Inv' /\ Refines
<1> DEFINE k == call[c]
<1>1. PICK m \in Calls :
           /\ Sets(c, m) /\ Served(call[c], m)
           /\ m.seen = IF call[c].stage = "poll" THEN inst[call[c].s] ELSE "none"
           /\ m.listed = IF call[c].op = "list" /\ m.reply = "ok"
                         THEN {s \in Sessions : inst[s] = "live"} ELSE {}
           /\ faults' \in 0..MaxFaults
           /\ \/ /\ call[c].s = NoSession /\ inst' = inst
                 /\ m.reply \in {"ok", "garbled", "broken", "expired"}
              \/ /\ call[c].s # NoSession
                 /\ \E f \in Effects(call[c]) :
                      /\ inst' = [inst EXCEPT ![call[c].s] = f.to]
                      /\ m.reply \in {f.r, "garbled", "broken", "expired"}
  BY ServeStep
<1>2. /\ k \in Calls /\ CallInv(vendor, inst, k) /\ k.pc = "sent"
      /\ inst \in [Sessions -> Instances]
      /\ UNCHANGED <<vendor, brk, cached>> /\ brk' \in Breakers /\ cached' \in BOOLEAN
  BY InstTypes DEF Serve
<1>3. /\ m.op = k.op /\ m.s = k.s /\ m.before = k.before /\ m.ans = k.ans
      /\ m.stage = k.stage /\ m.tries = k.tries /\ m.pc = "served"
      /\ Alike(call[c], m)
  BY <1>1 DEF Served, Alike
<1>4. CASE k.s = NoSession
  <2>1. inst' = inst /\ m.reply \in {"ok", "garbled", "broken", "expired"}
    BY <1>1, <1>4
  <2>2. k.op \notin {"create", "destroy", "status"}
    BY <1>2, <1>4, ProviderClientAssumption DEF CallInv, Shape
  <2>3. Shape(vendor, m) /\ Progress(inst, m)
    BY <1>2, <1>3 DEF CallInv, Shape, Progress
  <2>4. ListInv(inst, m)
    BY <1>1, <1>2, <1>3, <2>1 DEF ListInv, CallInv, Progress, Existed
  <2>5. CallInv(vendor, inst, m)
    BY <1>3, <2>2, <2>3, <2>4 DEF CallInv, CreateInv, DestroyInv, StatusInv
  <2>. QED
    BY <1>1, <1>2, <1>3, <2>1, <2>5, FrameLocal, Hidden
<1>5. CASE k.s # NoSession
  <2>1. PICK f \in Effects(k) : /\ inst' = [inst EXCEPT ![k.s] = f.to]
                                /\ m.reply \in {f.r, "garbled", "broken", "expired"}
    BY <1>1, <1>5
  <2>2. k.s \in Sessions /\ k.op \in {"create", "destroy", "status"}
    BY <1>2, <1>5, EffectFacts
  <2>3. \A p \in Sessions : inst'[p] = IF p = k.s THEN f.to ELSE inst[p]
    BY <1>2, <2>1, <2>2
  <2>4. CallInv(vendor, inst', m)
    BY <1>1, <1>2, <1>5, <2>1, <2>3, ServedInv
  <2>5. f.to = inst[k.s] \/ <<inst[k.s], f.to>> \in Moves
    <3>1. k.op = "destroy" => inst[k.s] \in Existed
      BY <1>2 DEF CallInv, DestroyInv
    <3>2. CASE k.op = "create" /\ k.stage = "main"
      BY <1>2, <1>5, <3>2, EffectFacts DEF Moves
    <3>3. CASE k.op = "create" /\ k.stage # "main"
      BY <1>2, <1>5, <3>3, EffectFacts
    <3>4. CASE k.op = "destroy"
      BY <1>2, <1>5, <3>1, <3>4, EffectFacts DEF Moves, Existed
    <3>5. CASE k.op = "status"
      BY <1>2, <1>5, <3>5, EffectFacts
    <3>. QED
      BY <2>2, <3>2, <3>3, <3>4, <3>5
  <2>6. CASE f.to = inst[k.s]
    <3>1. inst' = inst
      BY <1>2, <2>1, <2>2, <2>6
    <3>. QED
      BY <1>1, <1>2, <1>3, <2>4, <3>1, FrameLocal, Hidden
  <2>7. CASE f.to # inst[k.s]
    <3>1. <<inst[k.s], f.to>> \in Moves
      BY <2>5, <2>7
    <3>2. inst' \in [Sessions -> Instances]
      BY <1>2, <2>1, <2>2, <3>1 DEF Moves, Instances
    <3>3. inst[k.s] # "none"
      BY <1>2, <2>2 DEF CallInv, CreateInv, DestroyInv, StatusInv, Launched, Existed
    <3>4. ASSUME NEW d \in Callers \ {c}
          PROVE  CallInv(vendor, inst', call[d])
      <4>1. inst[k.s] = "asked" => k.op = "create"
        BY <1>2, <2>2 DEF CallInv, DestroyInv, StatusInv, Existed
      <4>2. inst[k.s] \in {"none", "asked"} => ~(call[d].op = "create" /\ call[d].s = k.s)
        BY <3>3, <4>1 DEF Inv, OneCreator
      <4>3. call[d] \in Calls /\ CallInv(vendor, inst, call[d])
        BY InstTypes
      <4>4. CallInv(vendor, [inst EXCEPT ![k.s] = f.to], call[d])
        BY <1>2, <2>2, <3>1, <4>2, <4>3, CallKept
      <4>. QED
        BY <2>1, <4>4
    <3>5. m.op = "create" =>
            \A d \in Callers \ {c} : call[d].op = "create" => call[d].s # m.s
      BY <1>3 DEF Inv, OneCreator
    <3>6. Inv'
      BY <1>1, <1>2, <2>4, <3>2, <3>4, <3>5, Frame
    <3>7. [d \in Callers |-> Asked(call[d])]' = [d \in Callers |-> Asked(call[d])]
      BY <1>1, <1>3, AsksKept
    <3>8. Refines
      <4> HIDE DEF k
      <4>. QED
        BY <1>2, <2>1, <2>2, <3>1, <3>3, <3>7, MoveRefines
    <3>. QED
      BY <3>6, <3>8
  <2>. QED
    BY <2>6, <2>7
<1>. QED
  BY <1>4, <1>5

LEMMA FailRight ==
  ASSUME Inv, NEW c \in Callers, Fail(c)
  PROVE  Inv' /\ Refines
<1> DEFINE k == call[c]
<1>1. /\ k \in Calls /\ CallInv(vendor, inst, k) /\ k.pc = "sent"
      /\ call \in [Callers -> Calls]
      /\ UNCHANGED <<vendor, inst, brk, cached>> /\ brk' \in Breakers
      /\ cached' \in BOOLEAN
  BY InstTypes DEF Fail
<1>2. faults' \in 0..MaxFaults
  BY InstTypes, ProviderClientAssumption DEF Fail
<1>3. PICK r \in {"denied", "limited", "broken", "refused", "expired"} :
        call' = [call EXCEPT ![c].pc = "served", ![c].reply = r, ![c].listed = {}]
  BY DEF Fail
<1> DEFINE m == [k EXCEPT !.pc = "served", !.reply = r, !.listed = {}]
<1>4. Sets(c, m)
  BY <1>1, <1>3 DEF Sets
<1>5. /\ m \in Calls /\ Alike(k, m) /\ m.stage = k.stage /\ m.tries = k.tries
      /\ m.pc = "served" /\ m.reply = r /\ m.listed = {}
  <2>1. r \in Replies
    BY DEF Replies, Faulty
  <2>. QED
    BY <1>1, <2>1 DEF Calls, Alike
<1> HIDE DEF m
<1>6. Shape(vendor, m) /\ Progress(inst, m) /\ CreateInv(vendor, inst, m)
  BY <1>1, <1>5 DEF CallInv, Shape, Progress, CreateInv, Unserved, Alike
<1>7. DestroyInv(inst, m) /\ StatusInv(vendor, inst, m) /\ ListInv(inst, m)
  BY <1>1, <1>5 DEF CallInv, DestroyInv, StatusInv, ListInv, Alike
<1>8. Inv'
  BY <1>1, <1>2, <1>4, <1>5, <1>6, <1>7, FrameLocal DEF CallInv, Alike
<1>. QED
  BY <1>1, <1>4, <1>5, <1>8, Hidden

-----------------------------------------------------------------------------
(* The client goes on with its call                                        *)

LEMMA RetryRight ==
  ASSUME Inv, NEW c \in Callers, doWithRetry(c) \/ Abandon(c)
  PROVE  Inv' /\ Refines
<1> DEFINE k == call[c]
<1>1. /\ k \in Calls /\ CallInv(vendor, inst, k) /\ k.pc = "served"
      /\ call \in [Callers -> Calls]
      /\ UNCHANGED <<vendor, inst, brk, cached, faults>> /\ brk' \in Breakers
      /\ cached' \in BOOLEAN /\ faults' \in 0..MaxFaults
  BY InstTypes DEF doWithRetry, Abandon
<1>2. /\ vendor = "vastai" /\ k.reply = "limited" /\ k.tries <= MaxRetries
      /\ k.op \in {"offers", "create", "destroy"}
  BY DEF doWithRetry, Abandon, Retrying
<1>3. k.stage \notin {"poll", "info"}
  BY <1>1, <1>2 DEF CallInv, Shape
<1>4. CASE doWithRetry(c)
  <2> DEFINE n == k.tries + 1
             m == [k EXCEPT !.pc = "sent", !.tries = n]
  <2>1. n \in 0..MaxTries
    BY <1>1, <1>2, CallFields, TriesBound, ProviderClientAssumption
  <2>2. Sets(c, m)
    BY <1>1, <1>4 DEF Sets, doWithRetry
  <2> HIDE DEF n
  <2>3. /\ m \in Calls /\ Alike(k, m) /\ m.stage = k.stage
        /\ m.pc = "sent" /\ m.reply = k.reply /\ m.listed = k.listed
    BY <1>1, <2>1 DEF Calls, Alike
  <2> HIDE DEF m
  <2>4. Shape(vendor, m) /\ Progress(inst, m) /\ CreateInv(vendor, inst, m)
    BY <1>1, <1>2, <1>3, <2>3 DEF CallInv, Shape, Progress, CreateInv, Unserved, Alike
  <2>5. DestroyInv(inst, m) /\ StatusInv(vendor, inst, m) /\ ListInv(inst, m)
    BY <1>1, <1>2, <2>3 DEF CallInv, DestroyInv, StatusInv, ListInv, Alike
  <2>6. Inv'
    BY <1>1, <2>2, <2>3, <2>4, <2>5, FrameLocal DEF CallInv, Alike
  <2>. QED
    BY <1>1, <2>2, <2>3, <2>6, Hidden
<1>5. CASE Abandon(c)
  <2> DEFINE m == [k EXCEPT !.reply = "expired"]
  <2>1. Sets(c, m)
    BY <1>1, <1>5 DEF Sets, Abandon
  <2>2. "expired" \in Replies
    BY DEF Replies, Faulty
  <2>3. /\ m \in Calls /\ Alike(k, m) /\ m.stage = k.stage
        /\ m.pc = "served" /\ m.reply = "expired" /\ m.listed = k.listed
        /\ m.tries = k.tries
    BY <1>1, <2>2 DEF Calls, Alike
  <2> HIDE DEF m
  <2>4. Shape(vendor, m) /\ Progress(inst, m) /\ CreateInv(vendor, inst, m)
    BY <1>1, <1>2, <1>3, <2>3 DEF CallInv, Shape, Progress, CreateInv, Unserved, Alike
  <2>5. DestroyInv(inst, m) /\ StatusInv(vendor, inst, m) /\ ListInv(inst, m)
    BY <1>1, <1>2, <2>3 DEF CallInv, DestroyInv, StatusInv, ListInv, Alike
  <2>6. Inv'
    BY <1>1, <2>1, <2>3, <2>4, <2>5, FrameLocal DEF CallInv, Alike
  <2>. QED
    BY <1>1, <2>1, <2>3, <2>6, Hidden
<1>. QED
  BY <1>4, <1>5

\* The next request of a launch: what is known of the instance when the stage
\* begins stays known.
LEMMA OnwardRight ==
  ASSUME Inv, NEW c \in Callers, call[c].pc = "served", call[c].op = "create",
         NEW st \in {"attach", "poll", "info"}, Onward(c, st),
         st = "attach" => vendor = "vastai" /\ inst[call[c].s] \in Existed,
         st = "poll" => vendor = "bluelobster" /\ inst[call[c].s] \in Launched,
         st = "info" => vendor = "bluelobster" /\ inst[call[c].s] \in Existed,
         UNCHANGED <<vendor, inst, faults>>, brk' = brk, cached' \in BOOLEAN
  PROVE  Inv' /\ Refines
<1> DEFINE k == call[c]
           n == IF st = "poll" /\ k.stage = "poll" THEN k.tries + 1 ELSE 0
           m == [k EXCEPT !.stage = st, !.pc = "check", !.reply = "ok", !.tries = n,
                          !.seen = "none"]
<1>1. /\ k \in Calls /\ CallInv(vendor, inst, k) /\ call \in [Callers -> Calls]
      /\ brk' \in Breakers /\ faults' \in 0..MaxFaults
  BY InstTypes
<1>2. n \in 0..MaxTries
  <2>1. k.stage = "poll" => k.tries < MaxPolls
    BY <1>1 DEF CallInv, Shape
  <2>. QED
    BY <1>1, <2>1, CallFields, TriesBound, ProviderClientAssumption
<1>3. Sets(c, m)
  <2>1. call' = [call EXCEPT ![c].stage = st, ![c].pc = "check", ![c].reply = "ok",
                             ![c].tries = n, ![c].seen = "none"]
    BY DEF Onward
  <2> HIDE DEF n
  <2>. QED
    BY <1>1, <2>1 DEF Sets
<1> HIDE DEF n
<1>4. /\ m \in Calls /\ Alike(k, m) /\ m.stage = st /\ m.pc = "check" /\ m.reply = "ok"
      /\ m.listed = k.listed
  <2>1. "ok" \in Replies /\ "none" \in Instances
    BY DEF Replies, Instances
  <2>. QED
    BY <1>1, <1>2, <2>1 DEF Calls, Alike
<1> HIDE DEF m
<1>5. Shape(vendor, m) /\ Progress(inst, m)
  BY <1>1, <1>4 DEF CallInv, Shape, Progress, Alike
<1>6. CreateInv(vendor, inst, m)
  BY <1>1, <1>4 DEF CallInv, CreateInv, Alike
<1>7. DestroyInv(inst, m) /\ StatusInv(vendor, inst, m) /\ ListInv(inst, m)
  BY <1>4 DEF DestroyInv, StatusInv, ListInv, Alike
<1>8. Inv'
  BY <1>1, <1>3, <1>4, <1>5, <1>6, <1>7, FrameLocal DEF CallInv, Alike
<1>. QED
  BY <1>3, <1>4, <1>8, Hidden

-----------------------------------------------------------------------------
(* The call returns its answer                                             *)

LEMMA FinishStep ==
  ASSUME Inv, NEW c \in Callers, NEW e, Finish(c, e)
  PROVE  \E m \in Calls :
           /\ Sets(c, m)
           /\ m.op = call[c].op /\ m.s = call[c].s /\ m.before = call[c].before
           /\ m.listed = call[c].listed /\ m.pc = "done"
           /\ m.ans = Told(call[c].op, e) /\ m.ans # "none" /\ m.stage = "main"
<1> DEFINE k == call[c]
           a == Told(k.op, e)
           m == [Idle EXCEPT !.op = k.op, !.s = k.s, !.before = k.before,
                             !.listed = k.listed, !.pc = "done", !.ans = a]
<1>1. k \in Calls /\ call \in [Callers -> Calls] /\ Idle \in Calls
  BY InstTypes, IdleFacts
<1>2. a \in {"ok", "stale", "missing", "error"}
  BY DEF Told
<1>3. Sets(c, m)
  BY <1>1 DEF Sets, Finish
<1> HIDE DEF a
<1>4. /\ k.op \in Operations \cup {"idle"} /\ k.s \in Sessions \cup {NoSession}
      /\ k.listed \subseteq Sessions /\ k.before \in [Sessions -> Instances]
  BY <1>1, CallFields
<1>5. m \in Calls
  <2> DEFINE o == k.op
             s == k.s
             b == k.before
             l == k.listed
             J == [Idle EXCEPT !.op = o, !.s = s, !.before = b]
  <2>1. /\ o \in Operations \cup {"idle"} /\ s \in Sessions \cup {NoSession}
        /\ l \in SUBSET Sessions /\ b \in [Sessions -> Instances]
    BY <1>4
  <2> HIDE DEF k, o, s, b, l
  <2>2. J \in Calls
    BY <1>1, <2>1 DEF Calls
  <2>3. m = [J EXCEPT !.listed = l, !.pc = "done", !.ans = a]
    BY DEF o, s, b, l
  <2> HIDE DEF J, m
  <2>4. [J EXCEPT !.listed = l, !.pc = "done", !.ans = a] \in Calls
    BY <1>2, <2>1, <2>2 DEF Calls
  <2>. QED
    BY <2>3, <2>4
<1>6. /\ m.op = k.op /\ m.s = k.s /\ m.before = k.before /\ m.listed = k.listed
      /\ m.pc = "done" /\ m.ans = a /\ m.stage = Idle.stage
  <2> HIDE DEF k
  <2>. QED
    BY <1>1 DEF Calls
<1> HIDE DEF m
<1>. QED
  BY <1>2, <1>3, <1>5, <1>6, IdleFacts DEF a

\* An answer that the contract allows is an answer of the contract.
LEMMA FinishRight ==
  ASSUME Inv, NEW c \in Callers, NEW e, Finish(c, e),
         call[c].pc \in {"check", "served"},
         UNCHANGED <<vendor, inst, faults>>, cached' \in BOOLEAN,
         Contract!Justified(Asked(call[c]), Told(call[c].op, e), call[c].listed)
  PROVE  Inv' /\ Refines
<1> DEFINE k == call[c]
           ask == [d \in Callers |-> Asked(call[d])]
<1>1. PICK m \in Calls :
           /\ Sets(c, m)
           /\ m.op = call[c].op /\ m.s = call[c].s /\ m.before = call[c].before
           /\ m.listed = call[c].listed /\ m.pc = "done"
           /\ m.ans = Told(call[c].op, e) /\ m.ans # "none" /\ m.stage = "main"
  BY FinishStep
<1>2. k \in Calls /\ CallInv(vendor, inst, k) /\ faults' \in 0..MaxFaults
  BY InstTypes
<1>3. Shape(vendor, m) /\ Progress(inst, m)
  BY <1>1, <1>2 DEF CallInv, Shape, Progress
<1>4. CreateInv(vendor, inst, m)
  BY <1>1, <1>2 DEF CallInv, CreateInv, Unserved
<1>5. DestroyInv(inst, m) /\ StatusInv(vendor, inst, m) /\ ListInv(inst, m)
  BY <1>1, <1>2 DEF CallInv, DestroyInv, StatusInv, ListInv
<1>6. brk' \in Breakers
  BY BreakerTypes, InstTypes DEF Finish
<1>7. Inv'
  BY <1>1, <1>2, <1>3, <1>4, <1>5, <1>6, FrameLocal DEF CallInv
<1>8. ask[c].op # "idle" /\ ask[c].ans = "none"
  BY <1>2 DEF CallInv, Shape, Asked, Reads
<1> DEFINE a == Told(k.op, e)
           L == k.listed
<1>9. a \in {"ok", "stale", "missing", "error"} /\ L \in SUBSET Sessions
  BY <1>2, CallFields DEF Told
<1>10. ask' = [ask EXCEPT ![c].ans = a, ![c].listed = L]
  <2>1. /\ Asked(m).op = Asked(k).op /\ Asked(m).s = Asked(k).s
        /\ Asked(m).before = Asked(k).before /\ Asked(m).ans = a /\ Asked(m).listed = L
    BY <1>1 DEF Asked
  <2>2. Asked(m) = [Asked(k) EXCEPT !.ans = a, !.listed = L]
    <3> DEFINE o == Asked(k).op
               s == Asked(k).s
               b == Asked(k).before
               l == Asked(k).listed
               n == Asked(k).ans
               Q == Asked(k)
               J == [Q EXCEPT !.ans = a]
    <3>1. Asked(m) = [op |-> o, s |-> s, before |-> b, ans |-> a, listed |-> L]
      BY <1>1 DEF Asked
    <3>2. Q = [op |-> o, s |-> s, before |-> b, ans |-> n, listed |-> l]
      BY DEF Asked
    <3>3. [Q EXCEPT !.ans = a, !.listed = L] = [J EXCEPT !.listed = L]
      <4> HIDE DEF Q, a, L
      <4>. QED
        OBVIOUS
    <3> HIDE DEF o, s, b, l, n, Q, a, L
    <3>4. J = [op |-> o, s |-> s, before |-> b, ans |-> a, listed |-> l]
      BY <3>2
    <3> HIDE DEF J
    <3>5. [J EXCEPT !.listed = L] = [op |-> o, s |-> s, before |-> b, ans |-> a, listed |-> L]
      BY <3>4
    <3>6. Asked(m) = [Q EXCEPT !.ans = a, !.listed = L]
      BY <3>1, <3>3, <3>5
    <3>. QED
      BY <3>6 DEF Q
  <2>3. ask' = [ask EXCEPT ![c] = Asked(m)]
    BY <1>1 DEF Sets
  <2>4. [ask EXCEPT ![c].ans = a, ![c].listed = L]
          = [ask EXCEPT ![c] = [Asked(k) EXCEPT !.ans = a, !.listed = L]]
    <3> HIDE DEF a, L
    <3>. QED
      OBVIOUS
  <2>. QED
    BY <2>2, <2>3, <2>4
<1>11. Contract!Justified(ask[c], a, L)
  OBVIOUS
<1>12. Abstracted(inst)' = Abstracted(inst)
  BY DEF Abstracted
<1>13. Contract!Answer(c)
  <2> HIDE DEF a, L
  <2>. QED
    BY <1>8, <1>9, <1>10, <1>11, <1>12 DEF Contract!Answer
<1>. QED
  BY <1>7, <1>13 DEF Refines, Contract!Next

\* What a client answers at the end of a call is justified.
LEMMA Answers ==
  ASSUME Inv, NEW c \in Callers, call[c].pc = "served",
         call[c].op = "create" =>
           \/ call[c].stage = "info"
           \/ call[c].stage = "main" /\ (vendor = "tensordock" \/ Result(call[c]) # NoError)
  PROVE  Contract!Justified(Asked(call[c]), Told(call[c].op, Result(call[c])), call[c].listed)
<1> DEFINE k == call[c]
           e == Result(k)
           a == Told(k.op, e)
           A == Abstracted(inst)
           B == Abstracted(k.before)
<1>1. /\ inst \in [Sessions -> Instances] /\ k \in Calls /\ CallInv(vendor, inst, k)
      /\ vendor \in {"vastai", "tensordock", "bluelobster"}
  BY InstTypes
<1>2. /\ k.op \in Operations \cup {"idle"} /\ k.s \in Sessions \cup {NoSession}
      /\ k.listed \subseteq Sessions /\ k.before \in [Sessions -> Instances]
  BY <1>1, CallFields
<1>3. /\ Asked(k).op = IF k.op \in Reads THEN "read" ELSE k.op
      /\ Asked(k).s = k.s /\ Asked(k).before = B
  BY DEF Asked
<1>4. \A s \in Sessions : /\ inst[s] # "tasked" => A[s] = inst[s]
                          /\ A[s] = "live" => inst[s] = "live"
                          /\ k.before[s] # "tasked" => B[s] = k.before[s]
                          /\ B[s] = "live" => k.before[s] = "live"
                          /\ B[s] = "gone" => k.before[s] = "gone"
  BY DEF Abstracted
<1>5. k.op # "idle" /\ Shape(vendor, k)
  BY <1>1 DEF CallInv, Shape
<1> HIDE DEF k, A, B
<1>6. CASE k.op = "create"
  <2>1. k.s \in Sessions /\ k.op \notin Reads
    BY <1>1, <1>6 DEF CallInv, Shape, Reads
  <2>2. e = NoError => inst[k.s] \in Existed
    BY <1>1, <1>5, <1>6, ResultFacts DEF CallInv, CreateInv, Existed, k
  <2>3. ShouldRetryWithDifferentOffer(e) => inst[k.s] = "void"
    BY <1>1, <1>5, <1>6, ResultFacts DEF CallInv, CreateInv, k
  <2>4. \/ a = "ok" /\ A[k.s] \in Existed
        \/ a = "stale" /\ A[k.s] = "void"
        \/ a = "error"
    BY <1>4, <1>6, <2>1, <2>2, <2>3 DEF Told, Existed
  <2>. QED
    BY <1>3, <1>6, <2>1, <2>4 DEF Contract!Justified, Contract!Existed, Existed, A, k
<1>7. CASE k.op = "destroy"
  <2>1. k.s \in Sessions /\ k.op \notin Reads
    BY <1>1, <1>7 DEF CallInv, Shape, Reads
  <2>2. e = NoError \/ IsNotFoundError(e) => inst[k.s] = "gone"
    BY <1>1, <1>5, <1>7, ResultFacts DEF CallInv, DestroyInv, k
  <2>3. (a \in {"ok", "missing"} /\ A[k.s] = "gone") \/ a = "error"
    BY <1>4, <1>7, <2>1, <2>2 DEF Told
  <2>. QED
    BY <1>3, <1>7, <2>1, <2>3 DEF Contract!Justified, A, k
<1>8. CASE k.op = "status"
  <2>1. k.s \in Sessions /\ k.op \notin Reads
    BY <1>1, <1>8 DEF CallInv, Shape, Reads
  <2>2. e = NoError => k.before[k.s] = "live"
    BY <1>1, <1>5, <1>8, ResultFacts DEF CallInv, StatusInv, k
  <2>3. IsNotFoundError(e) => inst[k.s] = "gone"
    BY <1>1, <1>5, <1>8, ResultFacts DEF CallInv, StatusInv, k
  <2>4. \/ a = "ok" /\ B[k.s] = "live"
        \/ a = "missing" /\ A[k.s] = "gone"
        \/ a = "error"
    BY <1>4, <1>8, <2>1, <2>2, <2>3 DEF Told
  <2>. QED
    BY <1>3, <1>8, <2>1, <2>4 DEF Contract!Justified, A, k
<1>9. CASE k.op = "list"
  <2>1. k.op \notin Reads
    BY <1>9 DEF Reads
  <2>2. a \in {"ok", "error"}
    BY <1>9 DEF Told
  <2>3. \A s \in k.listed : B[s] # "gone" /\ A[s] \in Existed
    BY <1>1, <1>2, <1>4, <1>9 DEF CallInv, ListInv, Existed
  <2>4. (a = "ok" /\ vendor # "tensordock") =>
          \A s \in Sessions : B[s] = "live" /\ A[s] = "live" => s \in k.listed
    <3>. SUFFICES ASSUME a = "ok", vendor # "tensordock"
                 PROVE  \A s \in Sessions : B[s] = "live" /\ A[s] = "live" => s \in k.listed
      OBVIOUS
    <3>1. e = NoError
      BY <1>9 DEF Told
    <3>2. k.reply = "ok"
      BY <1>1, <1>5, <1>9, <3>1, ResultFacts DEF CallInv, ListInv, k
    <3>. QED
      BY <1>1, <1>4, <1>9, <3>2 DEF CallInv, ListInv, k
  <2>. QED
    BY <1>3, <1>9, <2>1, <2>2, <2>3, <2>4
    DEF Contract!Justified, Contract!Existed, Existed, A, k
<1>10. CASE k.op \in Reads
  <2>1. a \in {"ok", "error"}
    BY <1>10 DEF Told, Reads
  <2>. QED
    BY <1>3, <1>10, <2>1 DEF Contract!Justified, k
<1>. QED
  BY <1>2, <1>5, <1>6, <1>7, <1>8, <1>9, <1>10 DEF Operations

-----------------------------------------------------------------------------
(* The client receives a reply                                             *)

\* The key is attached, or not: the instance is there.
LEMMA AttachRight ==
  ASSUME Inv, NEW c \in Callers, call[c].pc = "served", call[c].stage = "attach",
         call' = [call EXCEPT ![c].stage = "created", ![c].tries = 0, ![c].reply = "ok"],
         UNCHANGED <<vendor, inst, faults>>, brk' \in Breakers, cached' \in BOOLEAN
  PROVE  Inv' /\ Refines
<1> DEFINE k == call[c]
           m == [k EXCEPT !.stage = "created", !.tries = 0, !.reply = "ok"]
<1>1. /\ k \in Calls /\ CallInv(vendor, inst, k) /\ call \in [Callers -> Calls]
      /\ faults' \in 0..MaxFaults
  BY InstTypes
<1>2. Sets(c, m)
  BY <1>1 DEF Sets
<1>3. /\ m \in Calls /\ Alike(k, m) /\ m.stage = "created" /\ m.pc = "served"
      /\ m.listed = k.listed /\ m.reply = "ok"
  <2>1. "ok" \in Replies /\ 0 \in 0..MaxTries
    BY TriesBound DEF Replies
  <2>. QED
    BY <1>1, <2>1 DEF Calls, Alike
<1> HIDE DEF m
<1>4. Shape(vendor, m) /\ Progress(inst, m)
  BY <1>1, <1>3 DEF CallInv, Shape, Progress, Alike
<1>5. CreateInv(vendor, inst, m)
  BY <1>1, <1>3 DEF CallInv, CreateInv, Alike
<1>6. k.op = "create"
  BY <1>1 DEF CallInv, Shape
<1>7. DestroyInv(inst, m) /\ StatusInv(vendor, inst, m) /\ ListInv(inst, m)
  BY <1>3, <1>6 DEF DestroyInv, StatusInv, ListInv, Alike
<1>8. Inv'
  BY <1>1, <1>2, <1>3, <1>4, <1>5, <1>7, FrameLocal DEF CallInv, Alike
<1>. QED
  BY <1>2, <1>3, <1>8, Hidden

LEMMA VastReceive ==
  ASSUME Inv, NEW c \in Callers, call[c].pc = "served", call[c].op = "create",
         vendor = "vastai", VastCreateStep(c),
         UNCHANGED <<vendor, inst, faults>>, cached' \in BOOLEAN
  PROVE  Inv' /\ Refines
<1> DEFINE k == call[c]
           e == Result(k)
<1>1. /\ k \in Calls /\ CallInv(vendor, inst, k) /\ Shape(vendor, k)
      /\ vendor \in {"vastai", "tensordock", "bluelobster"} /\ brk \in Breakers
      /\ inst \in [Sessions -> Instances]
  BY InstTypes DEF CallInv
<1>2. k.stage \in {"main", "attach", "created"}
  BY <1>1, CallFields DEF Shape
<1>3. CASE k.stage = "main" /\ e = NoError
  <2>1. Onward(c, "attach") /\ brk' = brk
    BY <1>3 DEF VastCreateStep
  <2>2. inst[k.s] \in Existed
    BY <1>1, <1>3, ResultFacts DEF CallInv, CreateInv
  <2>. QED
    BY <2>1, <2>2, OnwardRight
<1>4. CASE k.stage = "main" /\ e # NoError
  <2>1. Finish(c, e)
    BY <1>4 DEF VastCreateStep
  <2>. QED
    BY <1>4, <2>1, Answers, FinishRight
<1>5. CASE k.stage = "attach"
  <2>1. /\ brk' = recordAPIResult(brk, e)
        /\ call' = [call EXCEPT ![c].stage = "created", ![c].tries = 0, ![c].reply = "ok"]
    BY <1>5 DEF VastCreateStep
  <2>2. brk' \in Breakers
    BY <1>1, <2>1, BreakerTypes
  <2>. QED
    BY <1>5, <2>1, <2>2, AttachRight
<1>6. CASE k.stage = "created"
  <2>1. Finish(c, NoError)
    BY <1>6 DEF VastCreateStep
  <2>2. inst[k.s] \in Existed /\ k.s \in Sessions
    BY <1>1, <1>6 DEF CallInv, Shape, CreateInv
  <2>3. Contract!Justified(Asked(k), Told(k.op, NoError), k.listed)
    BY <2>2 DEF Contract!Justified, Contract!Existed, Existed, Asked, Told, Abstracted, Reads
  <2>. QED
    BY <2>1, <2>3, FinishRight
<1>. QED
  BY <1>2, <1>3, <1>4, <1>5, <1>6

LEMMA BlueReceive ==
  ASSUME Inv, NEW c \in Callers, call[c].pc = "served", call[c].op = "create",
         vendor = "bluelobster", BlueCreateStep(c),
         UNCHANGED <<vendor, inst, faults>>, cached' \in BOOLEAN
  PROVE  Inv' /\ Refines
<1> DEFINE k == call[c]
           e == Result(k)
<1>1. /\ k \in Calls /\ CallInv(vendor, inst, k) /\ Shape(vendor, k)
      /\ vendor \in {"vastai", "tensordock", "bluelobster"} /\ brk \in Breakers
  BY InstTypes DEF CallInv
<1>2. k.stage \in {"main", "poll", "info"}
  BY <1>1, CallFields DEF Shape
<1>3. CASE k.stage = "main" /\ e = NoError
  <2>1. Onward(c, "poll") /\ brk' = brk
    BY <1>3 DEF BlueCreateStep
  <2>2. inst[k.s] \in Launched
    BY <1>1, <1>3, ResultFacts DEF CallInv, CreateInv
  <2>. QED
    BY <2>1, <2>2, OnwardRight
<1>4. CASE k.stage = "main" /\ e # NoError
  <2>1. Finish(c, e)
    BY <1>4 DEF BlueCreateStep
  <2>. QED
    BY <1>4, <2>1, Answers, FinishRight
<1>5. CASE k.stage = "poll" /\ (e # NoError \/ k.seen = "tasked")
  <2>1. Onward(c, "poll") /\ brk' = brk
    BY <1>5 DEF BlueCreateStep
  <2>2. inst[k.s] \in Launched
    BY <1>1, <1>5 DEF CallInv, CreateInv
  <2>. QED
    BY <2>1, <2>2, OnwardRight
<1>6. CASE k.stage = "poll" /\ e = NoError /\ k.seen = "void"
  <2>1. Finish(c, BlueTaskFailed)
    BY <1>6 DEF BlueCreateStep
  <2>2. Told(k.op, BlueTaskFailed) = "error"
    BY DEF Told, BlueTaskFailed, NoError, Err, ShouldRetryWithDifferentOffer
  <2>3. Contract!Justified(Asked(k), Told(k.op, BlueTaskFailed), k.listed)
    BY <2>2 DEF Contract!Justified
  <2>. QED
    BY <2>1, <2>3, FinishRight
<1>7. CASE k.stage = "poll" /\ e = NoError /\ k.seen \notin {"tasked", "void"}
  <2>1. Onward(c, "info") /\ brk' = brk
    BY <1>7 DEF BlueCreateStep
  <2>2. k.reply \in {"ok", "empty"}
    BY <1>1, <1>7, ResultFacts
  <2>3. inst[k.s] \in Existed
    BY <1>1, <1>7, <2>2 DEF CallInv, CreateInv
  <2>. QED
    BY <2>1, <2>3, OnwardRight
<1>8. CASE k.stage = "info"
  <2>1. Finish(c, e)
    BY <1>8 DEF BlueCreateStep
  <2>. QED
    BY <1>8, <2>1, Answers, FinishRight
<1>. QED
  BY <1>2, <1>3, <1>4, <1>5, <1>6, <1>7, <1>8

LEMMA ReceiveRight ==
  ASSUME Inv, NEW c \in Callers, Receive(c)
  PROVE  Inv' /\ Refines
<1> DEFINE k == call[c]
<1>1. k.pc = "served" /\ UNCHANGED <<vendor, inst, faults>>
  BY DEF Receive
<1>2. cached' \in BOOLEAN
  BY InstTypes DEF Receive
<1>3. CASE k.op = "create" /\ vendor = "vastai"
  BY <1>1, <1>2, <1>3, VastReceive DEF Receive
<1>4. CASE k.op = "create" /\ vendor = "bluelobster"
  BY <1>1, <1>2, <1>4, BlueReceive DEF Receive
<1>5. CASE ~(k.op = "create" /\ vendor \in {"vastai", "bluelobster"})
  <2>1. Finish(c, Result(k))
    BY <1>5 DEF Receive
  <2>2. k.op = "create" => k.stage = "main" /\ vendor = "tensordock"
    <3>1. /\ Shape(vendor, k) /\ vendor \in {"vastai", "tensordock", "bluelobster"}
          /\ k.stage \in {"main", "attach", "created", "poll", "info"}
      BY InstTypes, CallFields DEF CallInv
    <3>. QED
      BY <1>5, <3>1 DEF Shape
  <2>. QED
    BY <1>1, <1>2, <2>1, <2>2, Answers, FinishRight
<1>. QED
  BY <1>3, <1>4, <1>5

\* The deadline is an error, whatever becomes of the launch.
LEMMA PollTimeoutRight ==
  ASSUME Inv, NEW c \in Callers, PollTimeout(c)
  PROVE  Inv' /\ Refines
<1> DEFINE k == call[c]
           e == Err("plain", "expired")
<1>1. Finish(c, e) /\ k.pc = "check" /\ UNCHANGED <<vendor, inst, cached, faults>>
      /\ k.stage = "poll"
  BY DEF PollTimeout
<1>2. cached' \in BOOLEAN /\ k.op = "create"
  BY <1>1, InstTypes DEF CallInv, Shape
<1>3. Told(k.op, e) = "error"
  BY <1>2 DEF Told, NoError, Err, ShouldRetryWithDifferentOffer
<1>4. Contract!Justified(Asked(k), Told(k.op, e), k.listed)
  BY <1>3 DEF Contract!Justified
<1>. QED
  BY <1>1, <1>2, <1>4, FinishRight

LEMMA ReturnRight ==
  ASSUME Inv, NEW c \in Callers, Return(c)
  PROVE  Inv' /\ Refines
<1> DEFINE k == call[c]
           ask == [d \in Callers |-> Asked(call[d])]
<1>1. /\ k \in Calls /\ CallInv(vendor, inst, k) /\ k.pc = "done"
      /\ call \in [Callers -> Calls] /\ call' = [call EXCEPT ![c] = Idle]
      /\ UNCHANGED <<vendor, inst, brk, cached, faults>>
      /\ inst' \in [Sessions -> Instances] /\ brk' \in Breakers
      /\ cached' \in BOOLEAN /\ faults' \in 0..MaxFaults
  BY InstTypes DEF Return
<1>2. Sets(c, Idle)
  BY <1>1 DEF Sets
<1>3. CallInv(vendor, inst, Idle)
  BY IdleFacts DEF CallInv, Shape, Progress, CreateInv, DestroyInv, StatusInv, ListInv, Reads
<1>4. \A d \in Callers \ {c} : CallInv(vendor, inst', call[d])
  BY <1>1, InstTypes
<1>5. Inv'
  BY <1>1, <1>2, <1>3, <1>4, IdleFacts, Frame
<1>6. Asked(Idle) = Contract!Idle
  <2>1. Abstracted([p \in Sessions |-> "none"]) = [p \in Sessions |-> "none"]
    BY DEF Abstracted
  <2>. QED
    BY <2>1, IdleFacts DEF Asked, Contract!Idle, Reads
<1>7. ask' = [ask EXCEPT ![c] = Contract!Idle]
  BY <1>2, <1>6 DEF Sets
<1>8. ask[c].ans # "none"
  BY <1>1 DEF CallInv, Shape, Asked
<1>9. Abstracted(inst)' = Abstracted(inst)
  BY <1>1 DEF Abstracted
<1>10. Contract!Return(c)
  BY <1>1, <1>7, <1>8, <1>9 DEF Contract!Return
<1>. QED
  BY <1>5, <1>10 DEF Refines, Contract!Next

-----------------------------------------------------------------------------
(* Steps of the provider and of time                                       *)

LEMMA ProviderMoves ==
  ASSUME Inv, NEW s \in Sessions, TaskEnds(s) \/ Vanish(s)
  PROVE  Inv' /\ Refines
<1>1. PICK t : /\ <<inst[s], t>> \in Moves /\ inst[s] \in {"tasked", "live"}
               /\ t \in Instances
               /\ inst' = [inst EXCEPT ![s] = t]
  <2>1. CASE Vanish(s)
    BY <2>1 DEF Vanish, Moves, Instances
  <2>2. CASE TaskEnds(s)
    <3>1. PICK i \in {"live", "void"} : inst' = [inst EXCEPT ![s] = i]
      BY <2>2 DEF TaskEnds
    <3>. QED
      BY <2>2, <3>1 DEF TaskEnds, Moves, Instances
  <2>. QED
    BY <2>1, <2>2
<1>2. UNCHANGED <<vendor, brk, call, cached, faults>>
  BY DEF TaskEnds, Vanish
<1>3. inst' \in [Sessions -> Instances]
  BY <1>1, InstTypes
<1>4. TypeOK' /\ OneCreator'
  BY <1>2, <1>3 DEF Inv, TypeOK, OneCreator
<1>5. \A c \in Callers : CallInv(vendor, inst', call[c])
  BY <1>1, InstTypes, CallKept
<1>6. Inv'
  BY <1>2, <1>4, <1>5 DEF Inv
<1>7. [d \in Callers |-> Asked(call[d])]' = [d \in Callers |-> Asked(call[d])]
  BY <1>2
<1>. QED
  BY <1>1, <1>2, <1>6, <1>7, MoveRefines

\* Neither a call nor an instance changes.
LEMMA Unseen ==
  ASSUME Inv, UNCHANGED <<vendor, inst, call, faults>>,
         brk' \in Breakers, cached' \in BOOLEAN
  PROVE  Inv' /\ Refines
<1>1. Inv'
  BY DEF Inv, TypeOK, OneCreator
<1>2. Abstracted(inst)' = Abstracted(inst)
  BY DEF Abstracted
<1>3. [d \in Callers |-> Asked(call[d])]' = [d \in Callers |-> Asked(call[d])]
  OBVIOUS
<1>. QED
  BY <1>1, <1>2, <1>3 DEF Refines, Contract!vars

-----------------------------------------------------------------------------
(* The results                                                             *)

LEMMA Initially ==
  ASSUME Init
  PROVE  Inv /\ Contract!Init
<1>1. TypeOK
  <2>1. faults \in 0..MaxFaults
    BY ProviderClientAssumption DEF Init
  <2>2. inst \in [Sessions -> Instances] /\ cached \in BOOLEAN
    BY DEF Init, Instances
  <2>3. brk \in Breakers
    BY ThresholdAssumption DEF Init, newCircuitBreaker, Breakers
  <2>4. call \in [Callers -> Calls]
    BY IdleFacts DEF Init
  <2>. QED
    BY <2>1, <2>2, <2>3, <2>4 DEF TypeOK, Init
<1>2. \A c \in Callers : call[c] = Idle
  BY DEF Init
<1>3. OneCreator
  BY <1>2, IdleFacts DEF OneCreator
<1>4. CallInv(vendor, inst, Idle)
  BY IdleFacts DEF CallInv, Shape, Progress, CreateInv, DestroyInv, StatusInv, ListInv, Reads
<1>5. Inv
  BY <1>1, <1>2, <1>3, <1>4 DEF Inv
<1>6. Abstracted([p \in Sessions |-> "none"]) = [p \in Sessions |-> "none"]
  BY DEF Abstracted
<1>7. Asked(Idle) = Contract!Idle
  BY <1>6, IdleFacts DEF Asked, Contract!Idle, Reads
<1>8. [d \in Callers |-> Asked(call[d])] = [d \in Callers |-> Contract!Idle]
  BY <1>2, <1>7
<1>. QED
  BY <1>5, <1>6, <1>8 DEF Init, Contract!Init

LEMMA NextRight ==
  ASSUME Inv, [Next]_vars
  PROVE  Inv' /\ Refines
<1>1. ASSUME NEW c \in Callers, NEW op \in Operations,
             NEW s \in Sessions \cup {NoSession}, Begin(c, op, s)
      PROVE  Inv' /\ Refines
  BY <1>1, BeginInv, BeginRefines
<1>2. ASSUME NEW c \in Callers, Step(c)
      PROVE  Inv' /\ Refines
  BY <1>2, Check, ServeRight, FailRight, RetryRight, ReceiveRight, PollTimeoutRight,
     ReturnRight
  DEF Step
<1>3. ASSUME NEW s \in Sessions, TaskEnds(s) \/ Vanish(s)
      PROVE  Inv' /\ Refines
  BY <1>3, ProviderMoves
<1>4. CASE Age
  <2>1. brk' \in Breakers
    BY <1>4, InstTypes DEF Age, Breakers
  <2>2. UNCHANGED <<vendor, inst, call, cached, faults>>
    BY <1>4 DEF Age
  <2>. QED
    BY <2>1, <2>2, InstTypes, Unseen
<1>5. CASE CacheExpires
  BY <1>5, InstTypes, Unseen DEF CacheExpires
<1>6. CASE UNCHANGED vars
  BY <1>6, InstTypes, Unseen DEF vars
<1>. QED
  BY <1>1, <1>2, <1>3, <1>4, <1>5, <1>6 DEF Next

\* Calls, replies, breaker and instances keep their shapes: in particular the
\* failure count of the shared breaker and the resends and polls of a call
\* stay within their limits, whoever else uses the client.
THEOREM ProviderTypeCorrect == Spec => []TypeOK
<1>1. Init => Inv
  BY Initially
<1>2. Inv /\ [Next]_vars => Inv'
  BY NextRight
<1>3. Inv => TypeOK
  BY DEF Inv
<1>. QED
  BY <1>1, <1>2, <1>3, PTL DEF Spec

\* The clients implement the contract the service relies on: every answer of
\* CreateInstance, DestroyInstance, GetInstanceStatus and ListAllInstances
\* that is not an error is justified by the provider's instances, however
\* many callers share the client and whatever is lost, resent or refused.
THEOREM KeepsContractAlways == Spec => KeepsContract
<1>1. Init => Inv /\ Contract!Init
  BY Initially
<1>2. Inv /\ [Next]_vars => Inv' /\ [Contract!Next]_(Contract!vars)
  BY NextRight DEF Refines
<1>. QED
  BY <1>1, <1>2, PTL DEF Spec, KeepsContract, Contract!Spec

=============================================================================
