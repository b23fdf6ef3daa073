--------------------------- MODULE ProviderClient ---------------------------
(***************************************************************************)
(* The provider clients at work: callers use one client at the same time,  *)
(* each call sends its requests, one at a time, past the circuit breaker   *)
(* all calls share, and the provider serves, loses or refuses them.        *)
(*                                                                         *)
(*   vendor   which of the three clients this is                           *)
(*   inst[s]  the instance of session s at the provider: none, asked for,  *)
(*            tasked (Blue Lobster has taken the launch on), live, gone,   *)
(*            void (refused) or twin (created twice)                       *)
(*   brk      the circuit breaker                                          *)
(*   call[c]  the call of c: the operation and its stage, where it stands  *)
(*            (idle, check: at the breaker, sent, served, done), the       *)
(*            resends made, the last reply, what the reply shows of the    *)
(*            session's instance (seen) or of all of them (listed), the    *)
(*            instances when the call began, and the answer returned       *)
(*   cached   the Vast.ai client holds fresh templates                     *)
(*   faults   how often the network or the provider has failed             *)
(* Rate limiters only delay.  The caller of CreateInstance always gives an *)
(* SSH key.  Ids and keys that the clients refuse are not modelled: the    *)
(* provisioner passes none.                                                *)
(***************************************************************************)
EXTENDS ProviderAdapters, FiniteSets

CONSTANTS
  Vendors,        \* the clients to look at
  Callers,        \* goroutines of the service
  Reconciler,     \* the one that only lists instances, again and again
  Sessions, NoSession,
  MaxRetries,     \* doWithRetry's maxRetries
  MaxPolls,       \* polls of a Blue Lobster task until taskPollTimeout
  MaxFaults       \* bound: failures of the network or the provider

ASSUME ProviderClientAssumption ==
  /\ Vendors \subseteq {"vastai", "tensordock", "bluelobster"}
  /\ Reconciler \in Callers
  /\ NoSession \notin Sessions
  /\ MaxRetries \in Nat /\ MaxPolls \in Nat /\ MaxFaults \in Nat

VARIABLES vendor, inst, brk, call, cached, faults

vars == <<vendor, inst, brk, call, cached, faults>>

Instances == {"none", "asked", "tasked", "live", "gone", "void", "twin"}
Reads == {"offers", "templates", "balance"}
Operations == {"create", "destroy", "status", "list"} \cup Reads

Idle == [op |-> "idle", s |-> NoSession, stage |-> "main", pc |-> "idle",
         tries |-> 0, reply |-> "ok", seen |-> "none", listed |-> {},
         before |-> [s \in Sessions |-> "none"], ans |-> "none"]

MaxTries == IF MaxPolls > MaxRetries THEN MaxPolls ELSE MaxRetries + 1

Calls == [op : Operations \cup {"idle"}, s : Sessions \cup {NoSession},
          stage : {"main", "attach", "created", "poll", "info"},
          pc : {"idle", "check", "sent", "served", "done"},
          tries : 0..MaxTries,
          reply : Replies,
          seen : Instances \cup {"cache"}, listed : SUBSET Sessions,
          before : [Sessions -> Instances],
          ans : {"none", "ok", "stale", "missing", "error"}]

TypeOK ==
  /\ vendor \in Vendors
  /\ inst \in [Sessions -> Instances]
  /\ brk \in Breakers
  /\ cached \in BOOLEAN
  /\ faults \in 0..MaxFaults
  /\ call \in [Callers -> Calls]

Init ==
  /\ vendor \in Vendors
  /\ inst = [s \in Sessions |-> "none"]
  /\ brk = newCircuitBreaker
  /\ call = [c \in Callers |-> Idle]
  /\ cached = FALSE
  /\ faults = 0

-----------------------------------------------------------------------------
(* A call begins, and passes the breaker before each of its requests.      *)

Begin(c, op, s) ==
  /\ call[c].pc = "idle"
  /\ c = Reconciler => op = "list"
  /\ op \in {"templates", "balance"} => vendor = "vastai"
  /\ CASE op = "create" -> s \in Sessions /\ inst[s] = "none"
       [] op \in {"destroy", "status"} -> s \in Sessions /\ inst[s] \in {"live", "gone"}
       [] OTHER -> s = NoSession
  /\ inst' = IF op = "create" THEN [inst EXCEPT ![s] = "asked"] ELSE inst
  /\ call' = [call EXCEPT ![c] =
                [Idle EXCEPT !.op = op, !.s = s, !.pc = "check", !.before = inst]]
  /\ UNCHANGED <<vendor, brk, cached, faults>>

\* Mutant: the deadline of a poll is not looked at.
OverLooked(k) == FALSE

\* The poll of a task has come to its deadline.
PollOver(k) == k.stage = "poll" /\ k.tries >= MaxPolls

\* checkCircuitBreaker, and the request leaves.  GetAccountBalance does not
\* ask the breaker; ListTemplates does, even when its cache has the answer.
checkCircuitBreaker(c) ==
  /\ call[c].pc = "check"
  /\ ~PollOver(call[c])
  /\ IF call[c].op # "balance" /\ ~allow(brk)
     THEN /\ call' = [call EXCEPT ![c].pc = "served", ![c].reply = "open"]
          /\ UNCHANGED brk
     ELSE /\ brk' = IF call[c].op = "balance" THEN brk ELSE allowed(brk)
          /\ call' = IF call[c].op = "templates" /\ cached
                     THEN [call EXCEPT ![c].pc = "served", ![c].reply = "ok",
                                       ![c].seen = "cache"]
                     ELSE [call EXCEPT ![c].pc = "sent"]
  /\ UNCHANGED <<vendor, inst, cached, faults>>

-----------------------------------------------------------------------------
(* The provider: what a request changes and what it answers.               *)

Declines == CASE vendor = "vastai"      -> {"stale", "invalid", "empty"}
              [] vendor = "tensordock"  -> {"stale", "staleDown", "invalid", "empty"}
              [] vendor = "bluelobster" -> {"stale", "invalid", "empty"}

\* The session's instance after the request, and the reply.  A create
\* request that arrives a second time makes a second instance.
Effects(k) ==
  LET i == inst[k.s]
      is(r) == [to |-> i, r |-> r]
  IN  CASE k.op = "create" /\ k.stage = "main" ->
             {[to |-> IF i # "asked" THEN "twin"
                      ELSE IF vendor = "bluelobster" THEN "tasked" ELSE "live",
               r |-> "ok"]}
             \cup {[to |-> IF i = "asked" THEN "void" ELSE i, r |-> r] : r \in Declines}
        [] k.op = "create" /\ k.stage = "poll" -> {is("ok")}
        [] k.op = "destroy" ->
             {[to |-> "gone", r |-> IF i = "gone" THEN "missing" ELSE "ok"]}
        [] k.op = "status" /\ vendor = "vastai" /\ i = "gone" ->
             {is("missing"), is("empty")}
        [] OTHER -> {is(IF i = "gone" THEN "missing" ELSE "ok")}

\* The request reaches the provider.  The answer may be lost or damaged.
Serve(c) ==
  LET k == call[c]
      got(r) == call' = [call EXCEPT
                  ![c].pc = "served", ![c].reply = r,
                  ![c].seen = IF k.stage = "poll" THEN inst[k.s] ELSE "none",
                  ![c].listed = IF k.op = "list" /\ r = "ok"
                                THEN {s \in Sessions : inst[s] = "live"} ELSE {}]
  IN  /\ k.pc = "sent"
      /\ \E f \in IF k.s = NoSession THEN {[to |-> "none", r |-> "ok"]} ELSE Effects(k) :
           /\ inst' = IF k.s = NoSession THEN inst ELSE [inst EXCEPT ![k.s] = f.to]
           /\ \/ got(f.r) /\ UNCHANGED faults
              \/ /\ faults < MaxFaults
                 /\ faults' = faults + 1
                 /\ \E r \in {"garbled", "broken", "expired"} : got(r)
      /\ UNCHANGED <<vendor, brk, cached>>

\* The request changes nothing at the provider.
Fail(c) ==
  /\ call[c].pc = "sent"
  /\ faults < MaxFaults
  /\ faults' = faults + 1
  /\ \E r \in {"denied", "limited", "broken", "refused", "expired"} :
       call' = [call EXCEPT ![c].pc = "served", ![c].reply = r, ![c].listed = {}]
  /\ UNCHANGED <<vendor, inst, brk, cached>>

\* Blue Lobster works on a launch.
TaskEnds(s) ==
  /\ inst[s] = "tasked"
  /\ \E i \in {"live", "void"} : inst' = [inst EXCEPT ![s] = i]
  /\ UNCHANGED <<vendor, brk, call, cached, faults>>

\* An instance ends by itself (outbid, out of credit, host lost).
Vanish(s) ==
  /\ inst[s] = "live"
  /\ inst' = [inst EXCEPT ![s] = "gone"]
  /\ UNCHANGED <<vendor, brk, call, cached, faults>>

-----------------------------------------------------------------------------
(* The client, with a reply.                                               *)

VastResult(k) ==
  CASE k.stage = "attach"   -> VastAttachSSHKey(k.reply)
    [] k.op = "create"      -> VastCreateInstance(k.reply)
    [] k.op = "destroy"     -> VastDestroyInstance(k.reply)
    [] k.op = "status"      -> VastGetInstanceStatus(k.reply)
    [] k.op = "list"        -> VastListAllInstances(k.reply)
    [] k.op = "offers"      -> VastListOffers(k.reply)
    [] k.op = "templates"   -> VastListTemplates(k.reply)
    [] k.op = "balance"     -> VastGetAccountBalance(k.reply)

TensorResult(k) ==
  CASE k.op = "create"      -> TensorCreateInstance(k.reply)
    [] k.op = "destroy"     -> TensorDestroyInstance(k.reply)
    [] k.op = "status"      -> TensorGetInstanceStatus(k.reply)
    [] k.op = "list"        -> TensorListAllInstances(k.reply)
    [] k.op = "offers"      -> TensorListOffers(k.reply)

BlueResult(k) ==
  CASE k.stage = "poll"     -> BlueDoRequest(k.reply)
    [] k.stage = "info"     -> BlueGetInstanceInfo(k.reply)
    [] k.op = "create"      -> BlueLaunch(k.reply)
    [] k.op = "destroy"     -> BlueDestroyInstance(k.reply)
    [] k.op = "status"      -> BlueGetInstanceStatus(k.reply)
    [] k.op = "list"        -> BlueListAllInstances(k.reply)
    [] k.op = "offers"      -> BlueListOffers(k.reply)

Result(k) == CASE vendor = "vastai"      -> VastResult(k)
               [] vendor = "tensordock"  -> TensorResult(k)
               [] vendor = "bluelobster" -> BlueResult(k)

\* Mutant: what timed out is sent again too.
RetryingLost(k) ==
  /\ vendor = "vastai"
  /\ k.reply \in {"limited", "expired"}
  /\ k.op \in {"offers", "create", "destroy"}
  /\ k.tries <= MaxRetries

\* doWithRetry: only a 429 is sent again, at most MaxRetries + 1 times, and
\* without asking the breaker.
Retrying(k) ==
  /\ vendor = "vastai"
  /\ k.reply = "limited"
  /\ k.op \in {"offers", "create", "destroy"}
  /\ k.tries <= MaxRetries

\* The request goes out again, or the context ends during the wait.
doWithRetry(c) ==
  /\ call[c].pc = "served"
  /\ Retrying(call[c])
  /\ call' = [call EXCEPT ![c].pc = "sent", ![c].tries = @ + 1]
  /\ UNCHANGED <<vendor, inst, brk, cached, faults>>

Abandon(c) ==
  /\ call[c].pc = "served"
  /\ Retrying(call[c])
  /\ call[c].tries < MaxRetries
  /\ call' = [call EXCEPT ![c].reply = "expired"]
  /\ UNCHANGED <<vendor, inst, brk, cached, faults>>

\* Mutant: the deadline of the poll is set anew by every poll.
OnwardAnew(c, stage) ==
  call' = [call EXCEPT ![c].stage = stage, ![c].pc = "check", ![c].reply = "ok",
                       ![c].tries = 0, ![c].seen = "none"]

\* The next request of the same call.
Onward(c, stage) ==
  call' = [call EXCEPT ![c].stage = stage, ![c].pc = "check", ![c].reply = "ok",
             ![c].tries = IF stage = "poll" /\ call[c].stage = "poll" THEN @ + 1 ELSE 0,
             ![c].seen = "none"]

\* What an error tells the caller of an operation: the provisioner tries
\* another offer, the callers of destroy and status take the instance for
\* gone.
Told(op, e) ==
  IF e = NoError THEN "ok"
  ELSE IF op = "create" /\ ShouldRetryWithDifferentOffer(e) THEN "stale"
  ELSE IF op \in {"destroy", "status"} /\ IsNotFoundError(e) THEN "missing"
  ELSE "error"

\* The operation returns e, and its deferred recordAPIResult has run.
Finish(c, e) ==
  /\ brk' = IF call[c].op = "balance" THEN brk ELSE recordAPIResult(brk, e)
  /\ call' = [call EXCEPT ![c] = [Idle EXCEPT
                !.op = call[c].op, !.s = call[c].s, !.before = call[c].before,
                !.listed = call[c].listed, !.pc = "done",
                !.ans = Told(call[c].op, e)]]

\* Vast.ai: once the contract exists the SSH key is attached.  AttachSSHKey
\* keeps the breaker's book for itself, and its failure is only logged.
VastCreateStep(c) ==
  LET k == call[c]
      e == Result(k)
  IN  CASE k.stage = "main" /\ e = NoError -> Onward(c, "attach") /\ UNCHANGED brk
        [] k.stage = "main" /\ e # NoError -> Finish(c, e)
        [] k.stage = "attach" ->
             /\ brk' = recordAPIResult(brk, e)
             /\ call' = [call EXCEPT ![c].stage = "created", ![c].tries = 0,
                                     ![c].reply = "ok"]
        [] k.stage = "created" -> Finish(c, NoError)

\* Blue Lobster: the launch is a task that is polled.  Errors of a poll are
\* logged and not recorded, an open circuit included.
BlueCreateStep(c) ==
  LET k == call[c]
      e == Result(k)
  IN  CASE k.stage = "main" /\ e = NoError -> Onward(c, "poll") /\ UNCHANGED brk
        [] k.stage = "main" /\ e # NoError -> Finish(c, e)
        [] k.stage = "poll" /\ (e # NoError \/ k.seen = "tasked") ->
             Onward(c, "poll") /\ UNCHANGED brk
        [] k.stage = "poll" /\ e = NoError /\ k.seen = "void" -> Finish(c, BlueTaskFailed)
        [] k.stage = "poll" /\ e = NoError /\ k.seen \notin {"tasked", "void"} ->
             Onward(c, "info") /\ UNCHANGED brk
        [] k.stage = "info" -> Finish(c, e)

Receive(c) ==
  LET k == call[c]
  IN  /\ k.pc = "served"
      /\ ~Retrying(k)
      /\ IF k.op = "create" /\ vendor = "vastai" THEN VastCreateStep(c)
         ELSE IF k.op = "create" /\ vendor = "bluelobster" THEN BlueCreateStep(c)
         ELSE Finish(c, Result(k))
      /\ cached' = (cached \/ (/\ k.op = "templates" /\ k.seen # "cache"
                               /\ Result(k) = NoError))
      /\ UNCHANGED <<vendor, inst, faults>>

\* taskPollTimeout or the context ends the poll: the launch goes on.
PollTimeout(c) ==
  /\ call[c].pc = "check" /\ call[c].stage = "poll"
  /\ Finish(c, Err("plain", "expired"))
  /\ UNCHANGED <<vendor, inst, cached, faults>>

Return(c) ==
  /\ call[c].pc = "done"
  /\ call' = [call EXCEPT ![c] = Idle]
  /\ UNCHANGED <<vendor, inst, brk, cached, faults>>

\* ResetTimeout passes.
Age ==
  /\ brk.state = "open" /\ ~brk.aged
  /\ brk' = [brk EXCEPT !.aged = TRUE]
  /\ UNCHANGED <<vendor, inst, call, cached, faults>>

\* templateCacheTTL passes.
CacheExpires ==
  /\ cached
  /\ cached' = FALSE
  /\ UNCHANGED <<vendor, inst, brk, call, faults>>

Step(c) ==
  \/ checkCircuitBreaker(c) \/ Serve(c) \/ Fail(c) \/ doWithRetry(c) \/ Abandon(c)
  \/ Receive(c) \/ PollTimeout(c) \/ Return(c)

Next ==
  \/ \E c \in Callers :
       \/ \E op \in Operations, s \in Sessions \cup {NoSession} : Begin(c, op, s)
       \/ Step(c)
  \/ \E s \in Sessions : TaskEnds(s) \/ Vanish(s)
  \/ Age \/ CacheExpires

\* The goroutine of a call runs on, every request is answered or times out,
\* time passes, and the reconciler's ticker never stops.
Fairness ==
  /\ \A c \in Callers : WF_vars(Step(c))
  /\ WF_vars(Begin(Reconciler, "list", NoSession))
  /\ WF_vars(Age)

Spec == Init /\ [][Next]_vars /\ Fairness

-----------------------------------------------------------------------------
(* Properties                                                              *)

Abstracted(i) == [s \in Sessions |-> IF i[s] = "tasked" THEN "asked" ELSE i[s]]

Asked(k) ==
  [op     |-> IF k.op \in Reads THEN "read" ELSE k.op,
   s      |-> k.s,
   before |-> Abstracted(k.before),
   ans    |-> k.ans,
   listed |-> IF k.pc = "done" THEN k.listed ELSE {}]

Contract == INSTANCE ProviderContract
  WITH inst <- Abstracted(inst),
       ask <- [c \in Callers |-> Asked(call[c])],
       Lossy <- {"tensordock"}

\* Every client keeps the contract: its answers are justified by the
\* provider's instances at some moment of the call, whatever is lost, resent,
\* polled or refused on the way, and no call creates two instances.
\* TensorDock's client may leave instances out of a list.
KeepsContract == Contract!Spec

\* A list that a client returns without an error holds every instance that
\* lived throughout the call.
ListShowsOurs ==
  \A c \in Callers :
    (call[c].op = "list" /\ call[c].ans = "ok")
      => \A s \in Sessions :
           (call[c].before[s] = "live" /\ inst[s] = "live") => s \in call[c].listed

\* Every call returns, also one that polls a launch that never ends.
CallsReturn ==
  \A c \in Callers \ {Reconciler} : (call[c].pc # "idle") ~> (call[c].pc = "idle")

\* Once the failures end, the circuit closes and stays closed: the requests
\* that are let through half open are enough to close it.
BreakerRecovers == <>[](brk.state = "closed")

=============================================================================
