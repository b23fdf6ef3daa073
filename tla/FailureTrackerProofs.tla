------------------------ MODULE FailureTrackerProofs ------------------------
(* Proofs about FailureTracker, for any set of offers, any thresholds and  *)
(* periods and any number of failures and crashes.                         *)
EXTENDS FailureTracker, FiniteSetTheorems, TLAPS

-----------------------------------------------------------------------------
(* The inductive invariants                                                *)

\* The goroutines under way when the process is down, and the times of what
\* has been recorded.
JobsUp == ~up => jobs = {}
LogFinite == IsFiniteSet(log)
LogPast == \A f \in log : f.t <= now
CleanPast == \A j \in jobs : j.kind = "clean" => j.at <= now
RecordYoung == \A j \in jobs : j.kind = "record" => now <= j.f.t + StoreDelay

\* Whatever the tracker, the table or a goroutine holds has been recorded, at
\* most StoreDelay earlier than it says.
Echoes(g, f) == g.id = f.id /\ g.o = f.o /\ f.t <= g.t /\ g.t <= f.t + StoreDelay

Recorded ==
  /\ \A g \in mem \cup db : \E f \in log : Echoes(g, f)
  /\ \A j \in jobs : j.kind = "record" => j.f \in log

Base == TypeOK /\ JobsUp /\ LogFinite /\ LogPast /\ CleanPast /\ RecordYoung /\ Recorded

\* Every failure is counted once: its id is in the tracker once, in the table once,
\* and not in the table while a goroutine has still to store it.
OneEach(fs) == \A f, g \in fs : f.id = g.id => f = g

Ids ==
  /\ \A f \in log : f.id <= Cardinality(log)
  /\ OneEach(mem) /\ OneEach(db)
  /\ \A j \in jobs : j.kind = "record" =>
       /\ \A g \in db : g.id # j.f.id
       /\ \A k \in jobs : k.kind = "record" /\ k.f.id = j.f.id => k = j

\* A failure that counts and is not lost is in the table or on its way there.
Counts(f) == Within(f.t, FailureDecayPeriod) /\ f.id \notin lost

OnDisk ==
  \A f \in log :
    Counts(f) => \/ Holds(db, f)
                 \/ \E j \in jobs : j.kind = "record" /\ j.f = f

\* Every suppression there is anywhere has its failures.
JobsEarned ==
  \A j \in jobs :
    /\ j.kind = "record" => j.s = 0 \/ Earned(log, j.f.o, j.s)
    /\ j.kind = "suppress" => Earned(log, j.f.o, j.s)

AllEarned ==
  /\ \A o \in Offers : supp[o] # 0 => Earned(log, o, supp[o])
  /\ \A o \in Offers : dbSupp[o] # 0 => Earned(log, o, dbSupp[o])
  /\ JobsEarned

-----------------------------------------------------------------------------
(* Types                                                                   *)

\* The fields of a goroutine, by its kind.
LEMMA JobTypes ==
  ASSUME jobs \subseteq Jobs, NEW j \in jobs
  PROVE  /\ j.kind \in {"record", "suppress", "clean"}
         /\ j.kind = "record" => j.f \in Events /\ j.s \in 0..MaxTime
         /\ j.kind = "suppress" => j.f \in Events /\ j.s \in Times
         /\ j.kind = "clean" =>
              /\ j.expired \subseteq Offers
              /\ j.at \in Times
              /\ j = [kind |-> "clean", expired |-> j.expired, at |-> j.at]
BY DEF Jobs

LEMMA EventTypes ==
  ASSUME NEW f \in Events
  PROVE  f.id \in 1..MaxFailures /\ f.o \in Offers /\ f.t \in Times /\ f.t \in Nat
BY FailureTrackerAssumption DEF Events, Times

\* What cleanupLocked leaves and the goroutine it starts.
LEMMA CleanTypes ==
  ASSUME now \in Times, NEW su \in [Offers -> 0..MaxTime]
  PROVE  /\ Cleared(su) \in [Offers -> 0..MaxTime]
         /\ cleanJob(su) \in Jobs
         /\ cleanJob(su).kind = "clean"
         /\ cleanJob(su).at = now
<1>1. Expired(su) \subseteq Offers
  BY DEF Expired
<1>2. cleanJob(su) \in Jobs
  BY <1>1 DEF cleanJob, Jobs
<1>3. 0 \in 0..MaxTime
  BY FailureTrackerAssumption
<1>4. Cleared(su) \in [Offers -> 0..MaxTime]
  BY <1>3 DEF Cleared
<1>. QED
  BY <1>2, <1>4 DEF cleanJob

\* The event a RecordFailure adds: its id is within the bound.
LEMMA NewEvent ==
  ASSUME TypeOK, LogFinite, Cardinality(log) < MaxFailures, NEW o \in Offers
  PROVE  [id |-> Cardinality(log) + 1, o |-> o, t |-> now] \in Events
<1>1. Cardinality(log) \in Nat
  BY FS_CardinalityType DEF LogFinite
<1>2. Cardinality(log) + 1 \in 1..MaxFailures
  BY <1>1, FailureTrackerAssumption
<1>. QED
  BY <1>2 DEF TypeOK, Events

\* What a step of RecordFailure does, with its local names as witnesses.
LEMMA RecordStep ==
  ASSUME TypeOK, LogFinite, NEW o \in Offers, RecordFailure(o)
  PROVE  \E f \in Events, s \in 0..MaxTime, su \in [Offers -> 0..MaxTime] :
           /\ f.id = Cardinality(log) + 1 /\ f.o = o /\ f.t = now
           /\ log' = log \cup {f}
           /\ mem' = Kept(mem \cup {f})
           /\ supp' = Cleared(su)
           /\ jobs' = jobs \cup {cleanJob(su), [kind |-> "record", f |-> f, s |-> s]}
           /\ \/ su = supp /\ s = 0
              \/ /\ Cardinality(Recent(mem \cup {f}, o)) >= SuppressionThreshold
                 /\ su = [supp EXCEPT ![o] = now]
                 /\ s = now
<1> DEFINE f == [id |-> Cardinality(log) + 1, o |-> o, t |-> now]
           new == /\ Cardinality(Recent(mem \cup {f}, o)) >= SuppressionThreshold
                  /\ supp[o] = 0
           su == IF new THEN [supp EXCEPT ![o] = now] ELSE supp
           s == IF new THEN now ELSE 0
<1>1. f \in Events /\ f.id = Cardinality(log) + 1 /\ f.o = o /\ f.t = now
  BY NewEvent DEF RecordFailure
<1>2. now \in 0..MaxTime /\ 0 \in 0..MaxTime /\ supp \in [Offers -> 0..MaxTime]
  BY FailureTrackerAssumption DEF TypeOK, Times
<1>3. s \in 0..MaxTime /\ su \in [Offers -> 0..MaxTime]
  BY <1>2
<1>4. /\ log' = log \cup {f}
      /\ mem' = Kept(mem \cup {f})
      /\ supp' = Cleared(su)
      /\ jobs' = jobs \cup {cleanJob(su), [kind |-> "record", f |-> f, s |-> s]}
  BY DEF RecordFailure
<1>5. \/ su = supp /\ s = 0
      \/ /\ Cardinality(Recent(mem \cup {f}, o)) >= SuppressionThreshold
         /\ su = [supp EXCEPT ![o] = now]
         /\ s = now
  OBVIOUS
<1> HIDE DEF f, new, su, s
<1>. QED
  BY <1>1, <1>3, <1>4, <1>5

LEMMA TypeRecord ==
  ASSUME TypeOK, LogFinite, NEW o \in Offers, RecordFailure(o)
  PROVE  TypeOK'
<1>1. PICK f \in Events, s \in 0..MaxTime, su \in [Offers -> 0..MaxTime] :
        /\ log' = log \cup {f}
        /\ mem' = Kept(mem \cup {f})
        /\ supp' = Cleared(su)
        /\ jobs' = jobs \cup {cleanJob(su), [kind |-> "record", f |-> f, s |-> s]}
  BY RecordStep
<1>2. supp' \in [Offers -> 0..MaxTime] /\ cleanJob(su) \in Jobs
  BY <1>1, CleanTypes DEF TypeOK
<1>3. [kind |-> "record", f |-> f, s |-> s] \in Jobs
  BY DEF Jobs
<1>4. mem' \subseteq Events /\ log' \subseteq Events
  BY <1>1 DEF TypeOK, Kept
<1>. QED
  BY <1>1, <1>2, <1>3, <1>4 DEF TypeOK, RecordFailure

LEMMA TypeJob ==
  ASSUME TypeOK, NEW j \in jobs,
         \/ storeFailure(j) \/ SetSuppression(j)
         \/ ClearSuppression(j) \/ CleanupOldFailures(j)
  PROVE  TypeOK'
<1>0. MaxErrors \in Nat /\ 0 \in 0..MaxTime /\ Times \subseteq 0..MaxTime
  BY FailureTrackerAssumption DEF Times
<1>1. Failed => errors' \in 0..MaxErrors
  BY <1>0 DEF Failed, TypeOK
<1>2. CASE storeFailure(j)
  <2>1. j.f \in Events /\ j.s \in 0..MaxTime /\ j.f.id \in 1..MaxFailures
    BY <1>2, JobTypes, EventTypes DEF storeFailure, TypeOK
  <2>2. j.s # 0 => [kind |-> "suppress", f |-> j.f, s |-> j.s] \in Jobs
    BY <2>1, FailureTrackerAssumption DEF Jobs, Times
  <2>3. jobs' \subseteq Jobs
    BY <1>2, <2>2 DEF storeFailure, TypeOK
  <2>4. \A t \in j.f.t..now : [j.f EXCEPT !.t = t] \in Events
    BY <2>1, EventTypes, FailureTrackerAssumption DEF Events, Times, TypeOK
  <2>5. db' \subseteq Events
    BY <1>2, <2>4 DEF storeFailure, TypeOK
  <2>. QED
    BY <1>1, <1>2, <2>1, <2>3, <2>5 DEF storeFailure, TypeOK
<1>3. CASE SetSuppression(j)
  <2>1. j.f.o \in Offers /\ j.s \in 0..MaxTime
    BY <1>0, <1>3, JobTypes, EventTypes DEF SetSuppression, TypeOK
  <2>2. [dbSupp EXCEPT ![j.f.o] = j.s] \in [Offers -> 0..MaxTime]
    BY <2>1 DEF TypeOK
  <2>. QED
    BY <1>1, <1>3, <2>2 DEF SetSuppression, TypeOK
<1>4. CASE ClearSuppression(j)
  <2>1. PICK o \in j.expired :
          /\ \/ dbSupp' = [dbSupp EXCEPT ![o] = 0] /\ UNCHANGED errors
             \/ Failed /\ UNCHANGED dbSupp
          /\ jobs' = (jobs \ {j}) \cup {[j EXCEPT !.expired = @ \ {o}]}
    BY <1>4 DEF ClearSuppression
  <2>2. /\ j.expired \subseteq Offers /\ j.at \in Times
        /\ j = [kind |-> "clean", expired |-> j.expired, at |-> j.at]
    BY <1>4, JobTypes DEF ClearSuppression, TypeOK
  <2>3. [j EXCEPT !.expired = @ \ {o}]
          = [kind |-> "clean", expired |-> j.expired \ {o}, at |-> j.at]
    BY <2>2
  <2>4. [j EXCEPT !.expired = @ \ {o}] \in Jobs
    BY <2>2, <2>3 DEF Jobs
  <2>5. [dbSupp EXCEPT ![o] = 0] \in [Offers -> 0..MaxTime]
    BY <1>0 DEF TypeOK
  <2>6. jobs' \subseteq Jobs
    BY <2>1, <2>4 DEF TypeOK
  <2>. QED
    BY <1>1, <1>4, <2>1, <2>5, <2>6 DEF ClearSuppression, TypeOK
<1>5. CASE CleanupOldFailures(j)
  BY <1>1, <1>5 DEF CleanupOldFailures, TypeOK
<1>. QED
  BY <1>2, <1>3, <1>4, <1>5

LEMMA RowTypes ==
  ASSUME TypeOK
  PROVE  recentRows \subseteq Events /\ activeRows \in [Offers -> 0..MaxTime]
<1>1. 0 \in 0..MaxTime
  BY FailureTrackerAssumption
<1>. QED
  BY <1>1 DEF recentRows, activeRows, TypeOK

LEMMA TypeProcess ==
  ASSUME TypeOK, Crash \/ loadFailureData \/ Tick
  PROVE  TypeOK'
<1>0. MaxErrors \in Nat /\ 0 \in 0..MaxTime
  BY FailureTrackerAssumption
<1>1. Failed => errors' \in 0..MaxErrors
  BY <1>0 DEF Failed, TypeOK
<1>2. CASE Crash
  <2>1. \A j \in jobs : j.kind = "record" => j.f.id \in 1..MaxFailures
    BY JobTypes, EventTypes DEF TypeOK
  <2>2. lost' \subseteq 1..MaxFailures
    BY <1>2, <2>1 DEF Crash, TypeOK
  <2>. QED
    BY <1>0, <1>2, <2>2 DEF Crash, TypeOK
<1>3. CASE loadFailureData
  <2>1. ASSUME NEW su \in [Offers -> 0..MaxTime], LoadFromStore(recentRows, su)
        PROVE  /\ mem' \subseteq Events /\ jobs' \subseteq Jobs
               /\ supp' \in [Offers -> 0..MaxTime]
    BY <2>1, RowTypes, CleanTypes DEF LoadFromStore, Kept, TypeOK
  <2>2. {f.id : f \in recentRows} \subseteq 1..MaxFailures
    BY RowTypes, EventTypes
  <2>3. CASE LoadFromStore(recentRows, activeRows) /\ UNCHANGED <<lost, errors>>
    BY <1>3, <2>1, <2>3, RowTypes DEF loadFailureData, TypeOK
  <2>4. CASE Failed /\ LoadFromStore(recentRows, supp) /\ UNCHANGED lost
    BY <1>1, <1>3, <2>1, <2>4 DEF loadFailureData, TypeOK
  <2>5. CASE /\ Failed
             /\ lost' = lost \cup {f.id : f \in recentRows}
             /\ UNCHANGED <<mem, supp, jobs>>
    BY <1>1, <1>3, <2>2, <2>5 DEF loadFailureData, TypeOK
  <2>. QED
    BY <1>3, <2>3, <2>4, <2>5 DEF loadFailureData
<1>4. CASE Tick
  BY <1>4, FailureTrackerAssumption DEF Tick, TypeOK, Times
<1>. QED
  BY <1>2, <1>3, <1>4

-----------------------------------------------------------------------------
(* What is recorded, and when                                              *)

LEMMA BaseInit == Init => Base
<1>1. IsFiniteSet({})
  BY FS_EmptySet
<1>2. Init => TypeOK
  BY FailureTrackerAssumption DEF Init, TypeOK, Times
<1>. QED
  BY <1>1, <1>2 DEF Init, Base, JobsUp, LogFinite, LogPast, CleanPast, RecordYoung, Recorded

LEMMA BaseRecord ==
  ASSUME Base, NEW o \in Offers, RecordFailure(o)
  PROVE  Base'
<1>1. PICK f \in Events, s \in 0..MaxTime, su \in [Offers -> 0..MaxTime] :
        /\ f.o = o /\ f.t = now
        /\ log' = log \cup {f}
        /\ mem' = Kept(mem \cup {f})
        /\ supp' = Cleared(su)
        /\ jobs' = jobs \cup {cleanJob(su), [kind |-> "record", f |-> f, s |-> s]}
  BY RecordStep DEF Base
<1>2. TypeOK'
  BY TypeRecord DEF Base
<1>3. now \in Nat /\ now' = now /\ up /\ up' = up /\ db' = db
  BY FailureTrackerAssumption DEF Base, TypeOK, Times, RecordFailure
<1>4. LogFinite'
  BY <1>1, FS_AddElement DEF Base, LogFinite
<1>5. LogPast'
  BY <1>1, <1>3 DEF Base, LogPast
<1>6. cleanJob(su).kind = "clean" /\ cleanJob(su).at = now
  BY CleanTypes DEF Base, TypeOK
<1>7. CleanPast'
  BY <1>1, <1>3, <1>6 DEF Base, CleanPast
<1>8. Recorded'
  <2>1. Echoes(f, f)
    BY <1>1, <1>3, FailureTrackerAssumption DEF Echoes
  <2>. QED
    BY <1>1, <1>3, <1>6, <2>1 DEF Base, Recorded, Kept
<1>9. RecordYoung'
  BY <1>1, <1>3, <1>6, FailureTrackerAssumption DEF Base, RecordYoung
<1>. QED
  BY <1>2, <1>3, <1>4, <1>5, <1>7, <1>8, <1>9 DEF Base, JobsUp

LEMMA BaseJob ==
  ASSUME Base, NEW j \in jobs,
         \/ storeFailure(j) \/ SetSuppression(j)
         \/ ClearSuppression(j) \/ CleanupOldFailures(j)
  PROVE  Base'
<1>1. TypeOK'
  BY TypeJob DEF Base
<1>2. up' = up /\ now' = now /\ log' = log /\ mem' = mem /\ up
  BY DEF Base, JobsUp, storeFailure, SetSuppression, ClearSuppression, CleanupOldFailures
<1>3. JobsUp' /\ LogFinite' /\ LogPast'
  BY <1>2 DEF Base, JobsUp, LogFinite, LogPast
<1>4. CASE storeFailure(j)
  <2>1. CleanPast' /\ RecordYoung'
    BY <1>2, <1>4 DEF Base, storeFailure, CleanPast, RecordYoung
  <2>2. db' = db \/ \E t \in j.f.t..now : db' = db \cup {[j.f EXCEPT !.t = t]}
    BY <1>4 DEF storeFailure
  <2>3. j.f \in log /\ j.f \in Events /\ now <= j.f.t + StoreDelay /\ now \in Nat
    BY <1>4, JobTypes, FailureTrackerAssumption
    DEF Base, storeFailure, Recorded, RecordYoung, TypeOK, Times
  <2>4. \A t \in j.f.t..now : Echoes([j.f EXCEPT !.t = t], j.f)
    BY <2>3, EventTypes, FailureTrackerAssumption DEF Echoes, Events
  <2>5. Recorded'
    BY <1>2, <1>4, <2>2, <2>3, <2>4 DEF Base, storeFailure, Recorded
  <2>. QED
    BY <1>1, <1>3, <2>1, <2>5 DEF Base
<1>5. CASE SetSuppression(j)
  BY <1>1, <1>2, <1>3, <1>5 DEF Base, SetSuppression, CleanPast, RecordYoung, Recorded
<1>6. CASE ClearSuppression(j)
  <2>1. PICK o \in j.expired :
          jobs' = (jobs \ {j}) \cup {[j EXCEPT !.expired = @ \ {o}]}
    BY <1>6 DEF ClearSuppression
  <2>2. j = [kind |-> "clean", expired |-> j.expired, at |-> j.at] /\ j.at <= now
    BY <1>6, JobTypes DEF ClearSuppression, Base, TypeOK, CleanPast
  <2>3. [j EXCEPT !.expired = @ \ {o}]
          = [kind |-> "clean", expired |-> j.expired \ {o}, at |-> j.at]
    BY <2>2
  <2>4. CleanPast' /\ RecordYoung' /\ Recorded'
    BY <1>2, <1>6, <2>1, <2>2, <2>3 DEF Base, CleanPast, RecordYoung, Recorded, ClearSuppression
  <2>. QED
    BY <1>1, <1>3, <2>4 DEF Base
<1>7. CASE CleanupOldFailures(j)
  BY <1>1, <1>2, <1>3, <1>7 DEF Base, CleanupOldFailures, CleanPast, RecordYoung, Recorded
<1>. QED
  BY <1>4, <1>5, <1>6, <1>7

LEMMA BaseProcess ==
  ASSUME Base, Crash \/ loadFailureData \/ Tick
  PROVE  Base'
<1>1. TypeOK'
  BY TypeProcess DEF Base
<1>2. now \in Nat /\ now <= now' /\ log' = log /\ db' = db
  BY FailureTrackerAssumption DEF Base, TypeOK, Times, Crash, loadFailureData, Tick
<1>3. LogFinite'
  BY <1>2 DEF Base, LogFinite
<1>4. \A f \in log : f.t \in Nat
  BY EventTypes DEF Base, TypeOK
<1>5. now' \in Nat
  BY <1>1, FailureTrackerAssumption DEF TypeOK, Times
<1>6. LogPast'
  BY <1>2, <1>4, <1>5 DEF Base, LogPast
<1>7. CASE Crash
  BY <1>1, <1>2, <1>3, <1>6, <1>7 DEF Base, Crash, JobsUp, CleanPast, RecordYoung, Recorded
<1>8. CASE loadFailureData
  <2>1. ASSUME NEW su \in [Offers -> 0..MaxTime], LoadFromStore(recentRows, su)
        PROVE  CleanPast' /\ RecordYoung' /\ Recorded'
    <3>1. cleanJob(su).kind = "clean" /\ cleanJob(su).at = now
      BY CleanTypes DEF Base, TypeOK
    <3>. QED
      BY <1>2, <1>8, <2>1, <3>1
      DEF Base, LoadFromStore, loadFailureData, CleanPast, RecordYoung, Recorded, Kept, recentRows
  <2>2. activeRows \in [Offers -> 0..MaxTime] /\ supp \in [Offers -> 0..MaxTime]
    BY RowTypes DEF Base, TypeOK
  <2>3. ASSUME UNCHANGED <<mem, supp, jobs>>
        PROVE  CleanPast' /\ RecordYoung' /\ Recorded'
    BY <1>2, <1>8, <2>3 DEF Base, loadFailureData, CleanPast, RecordYoung, Recorded
  <2>4. CleanPast' /\ RecordYoung' /\ Recorded'
    BY <1>8, <2>1, <2>2, <2>3 DEF loadFailureData
  <2>5. JobsUp'
    BY <1>8 DEF loadFailureData, JobsUp
  <2>. QED
    BY <1>1, <1>3, <1>6, <2>4, <2>5 DEF Base
<1>9. CASE Tick
  <2>1. now' = now + 1 /\ jobs' = jobs /\ mem' = mem /\ up' = up
    BY <1>9 DEF Tick
  <2>2. RecordYoung'
    <3>1. \A j \in jobs : j.kind = "record" => j.f.t \in Nat /\ now < j.f.t + StoreDelay
      BY <1>9, JobTypes, EventTypes DEF Base, TypeOK, Tick, Born
    <3>. QED
      BY <1>2, <2>1, <3>1, FailureTrackerAssumption DEF RecordYoung
  <2>3. CleanPast'
    <3>1. \A j \in jobs : j.kind = "clean" => j.at \in Nat /\ j.at <= now
      BY JobTypes, FailureTrackerAssumption DEF Base, TypeOK, CleanPast, Times
    <3>. QED
      BY <1>2, <2>1, <3>1 DEF CleanPast
  <2>4. JobsUp' /\ Recorded'
    BY <1>2, <2>1 DEF Base, JobsUp, Recorded
  <2>. QED
    BY <1>1, <1>3, <1>6, <2>2, <2>3, <2>4 DEF Base
<1>. QED
  BY <1>7, <1>8, <1>9

LEMMA BaseStep == Base /\ [Next]_vars => Base'
<1>. SUFFICES ASSUME Base, [Next]_vars PROVE Base'
  OBVIOUS
<1>1. CASE UNCHANGED vars
  BY <1>1 DEF vars, Base, TypeOK, JobsUp, LogFinite, LogPast, CleanPast, RecordYoung, Recorded
<1>2. CASE Next
  BY <1>2, BaseRecord, BaseJob, BaseProcess DEF Next
<1>. QED
  BY <1>1, <1>2

\* The failure tracker's state has its type: a running process never holds
\* goroutines or events the tables' columns could not carry.
THEOREM FailureTrackerTypeCorrect == Spec => []TypeOK
<1>1. Base => TypeOK
  BY DEF Base
<1>. QED
  BY <1>1, BaseInit, BaseStep, PTL DEF Spec

-----------------------------------------------------------------------------
(* The history is kept                                                     *)

History == Base /\ OnDisk /\ HistoryKept

\* The window the code counts in is positive, so a failure counts when it is
\* recorded.
LEMMA FreshCounts ==
  ASSUME Base, NEW f, f.t = now
  PROVE  Within(f.t, FailureDecayPeriod)
BY FailureTrackerAssumption DEF Base, TypeOK, Times, Within

\* What is not dated earlier than a failure that counts does not decay earlier.
LEMMA HoldsRecent ==
  ASSUME Base, NEW fs, fs \subseteq Events, NEW f \in Events, Within(f.t, FailureDecayPeriod),
         Holds(fs, f)
  PROVE  Holds(Kept(fs), f)
<1>1. PICK g \in fs : g.id = f.id /\ g.o = f.o /\ g.t >= f.t
  BY DEF Holds
<1>2. g.t \in Nat /\ f.t \in Nat /\ now \in Nat
  BY EventTypes, FailureTrackerAssumption DEF Base, TypeOK, Times
<1>3. g \in Kept(fs)
  BY <1>1, <1>2, FailureTrackerAssumption DEF Kept, Within
<1>. QED
  BY <1>1, <1>3 DEF Holds

LEMMA HistoryRecord ==
  ASSUME History, NEW o \in Offers, RecordFailure(o)
  PROVE  OnDisk' /\ HistoryKept'
<1>1. PICK f \in Events, s \in 0..MaxTime, su \in [Offers -> 0..MaxTime] :
        /\ f.o = o /\ f.t = now
        /\ log' = log \cup {f}
        /\ mem' = Kept(mem \cup {f})
        /\ supp' = Cleared(su)
        /\ jobs' = jobs \cup {cleanJob(su), [kind |-> "record", f |-> f, s |-> s]}
  BY RecordStep DEF History, Base
<1>2. now' = now /\ up /\ up' = up /\ db' = db /\ lost' = lost
  BY DEF RecordFailure
<1>3. Within(f.t, FailureDecayPeriod)
  BY <1>1, FreshCounts DEF History
<1>4. HistoryKept'
  <2>1. mem \cup {f} \subseteq Events /\ log \cup {f} \subseteq Events
    BY DEF History, Base, TypeOK
  <2>2. Holds(mem \cup {f}, f)
    <3>1. f.t >= f.t
      BY EventTypes
    <3>. QED
      BY <3>1 DEF Holds
  <2>3. \A e \in log : Counts(e) => Holds(mem \cup {f}, e)
    BY <1>2 DEF History, HistoryKept, Counts, Holds
  <2>4. \A e \in log \cup {f} : Counts(e) => Holds(mem', e)
    BY <1>1, <2>1, <2>2, <2>3, HoldsRecent DEF History, Counts
  <2>. QED
    BY <1>1, <1>2, <2>4 DEF HistoryKept, Counts, Within
<1>5. \E j \in jobs' : j.kind = "record" /\ j.f = f
  <2> DEFINE j == [kind |-> "record", f |-> f, s |-> s]
  <2>1. j \in jobs' /\ j.kind = "record" /\ j.f = f
    BY <1>1
  <2> HIDE DEF j
  <2>. QED
    BY <2>1
<1>6. \A j \in jobs : j \in jobs'
  BY <1>1
<1>7. OnDisk'
  BY <1>1, <1>2, <1>5, <1>6 DEF History, OnDisk, Counts, Within, Holds
<1>. QED
  BY <1>4, <1>7

LEMMA HistoryJob ==
  ASSUME History, NEW j \in jobs,
         \/ storeFailure(j) \/ SetSuppression(j)
         \/ ClearSuppression(j) \/ CleanupOldFailures(j)
  PROVE  OnDisk' /\ HistoryKept'
<1>1. up' = up /\ now' = now /\ log' = log /\ mem' = mem /\ lost \subseteq lost'
  BY DEF storeFailure, SetSuppression, ClearSuppression, CleanupOldFailures
<1>2. HistoryKept'
  BY <1>1 DEF History, HistoryKept, Within, Holds
<1>3. \A k \in jobs : k = j \/ k \in jobs'
  BY DEF storeFailure, SetSuppression, ClearSuppression, CleanupOldFailures
<1>4. CASE storeFailure(j)
  <2>0. j.f \in Events /\ now \in Nat
    BY <1>4, JobTypes, FailureTrackerAssumption DEF storeFailure, History, Base, TypeOK, Times
  <2>1. Holds(db', j.f) \/ j.f.id \in lost'
    <3>1. ASSUME NEW t \in j.f.t..now, db' = db \cup {[j.f EXCEPT !.t = t]}
          PROVE  Holds(db', j.f)
      <4>1. /\ [j.f EXCEPT !.t = t] \in db' /\ [j.f EXCEPT !.t = t].id = j.f.id
            /\ [j.f EXCEPT !.t = t].o = j.f.o /\ [j.f EXCEPT !.t = t].t >= j.f.t
        BY <2>0, <3>1, EventTypes DEF Events
      <4>. QED
        BY <4>1 DEF Holds
    <3>. QED
      BY <1>4, <3>1 DEF storeFailure
  <2>2. db \subseteq db'
    BY <1>4 DEF storeFailure
  <2>3. OnDisk'
    BY <1>1, <1>3, <2>1, <2>2 DEF History, OnDisk, Counts, Within, Holds
  <2>. QED
    BY <1>2, <2>3
<1>5. CASE SetSuppression(j) \/ ClearSuppression(j)
  <2>1. db' = db /\ lost' = lost /\ j.kind # "record"
    BY <1>5 DEF SetSuppression, ClearSuppression
  <2>2. OnDisk'
    BY <1>1, <1>3, <2>1 DEF History, OnDisk, Counts, Within, Holds
  <2>. QED
    BY <1>2, <2>2
<1>6. CASE CleanupOldFailures(j)
  <2>1. lost' = lost /\ j.kind = "clean"
    BY <1>6 DEF CleanupOldFailures
  <2>2. j.at \in Nat /\ now \in Nat /\ j.at <= now /\ FailureDecayPeriod \in Nat
    BY <2>1, JobTypes, FailureTrackerAssumption DEF History, Base, TypeOK, CleanPast, Times
  <2>3. ASSUME NEW f \in db, Within(f.t, FailureDecayPeriod)
        PROVE  f \in db'
    <3>1. f.t \in Nat
      BY EventTypes DEF History, Base, TypeOK
    <3>2. ~Old(f, j.at)
      BY <2>2, <2>3, <3>1 DEF Old, Within
    <3>. QED
      BY <1>6, <3>2 DEF CleanupOldFailures
  <2>4. Kept(db) \subseteq db'
    BY <2>3 DEF Kept
  <2>5. \A f \in log : Counts(f) /\ Holds(db, f) => Holds(db', f)
    <3>1. \A f \in log : Counts(f) /\ Holds(db, f) => Holds(Kept(db), f)
      BY HoldsRecent DEF History, Base, TypeOK, Counts
    <3>. QED
      BY <2>4, <3>1 DEF Holds
  <2>6. OnDisk'
    BY <1>1, <1>3, <2>1, <2>5 DEF History, OnDisk, Counts, Within
  <2>. QED
    BY <1>2, <2>6
<1>. QED
  BY <1>4, <1>5, <1>6

LEMMA HistoryProcess ==
  ASSUME History, Crash \/ loadFailureData \/ Tick
  PROVE  OnDisk' /\ HistoryKept'
<1>1. log' = log /\ db' = db
  BY DEF Crash, loadFailureData, Tick
<1>2. CASE Crash
  <2>1. \A j \in jobs : j.kind = "record" => j.f.id \in lost'
    BY <1>2 DEF Crash
  <2>2. now' = now /\ lost \subseteq lost' /\ ~up'
    BY <1>2 DEF Crash
  <2>. QED
    BY <1>1, <2>1, <2>2 DEF History, OnDisk, HistoryKept, Counts, Within, Holds
<1>3. CASE loadFailureData
  <2>1. jobs = {} /\ now' = now /\ lost \subseteq lost'
    BY <1>3 DEF loadFailureData, History, Base, JobsUp
  <2>2. \A f \in log : Counts(f) => Holds(recentRows, f)
    <3>1. recentRows = Kept(db)
      BY DEF recentRows, Kept
    <3>. QED
      BY <2>1, <3>1, HoldsRecent DEF History, Base, TypeOK, OnDisk, Counts
  <2>3. OnDisk'
    BY <1>1, <2>1, <2>2 DEF OnDisk, Counts, Within, recentRows, Holds
  <2>4. \A su : LoadFromStore(recentRows, su) => HistoryKept'
    <3>1. recentRows = Kept(recentRows)
      BY DEF recentRows, Kept
    <3>. QED
      BY <1>1, <2>1, <2>2, <3>1 DEF LoadFromStore, HistoryKept, Counts, Within
  <2>5. lost' = lost \cup {f.id : f \in recentRows} => HistoryKept'
    BY <1>1, <2>1, <2>2 DEF HistoryKept, Counts, Within, Holds
  <2>. QED
    BY <1>3, <2>3, <2>4, <2>5 DEF loadFailureData
<1>4. CASE Tick
  <2>1. /\ now \in Nat /\ now' = now + 1 /\ lost' = lost /\ mem' = mem
        /\ up' = up /\ jobs' = jobs
    BY <1>4, FailureTrackerAssumption DEF Tick, History, Base, TypeOK, Times
  <2>2. ASSUME NEW f \in log, f.t + FailureDecayPeriod > now'
        PROVE  Within(f.t, FailureDecayPeriod)
    <3>1. f.t \in Nat
      BY EventTypes DEF History, Base, TypeOK
    <3>. QED
      BY <2>1, <2>2, <3>1, FailureTrackerAssumption DEF Within
  <2>. QED
    BY <1>1, <2>1, <2>2 DEF History, OnDisk, HistoryKept, Counts, Within, Holds
<1>. QED
  BY <1>2, <1>3, <1>4

\* The tracker of a running process holds every failure that still counts and
\* that no store error and no crash lost, whatever the goroutines of
\* RecordFailure and cleanupLocked do to the tables meanwhile.
THEOREM HistoryKeptAlways == Spec => []HistoryKept
<1>1. Init => History
  BY BaseInit DEF Init, History, OnDisk, HistoryKept
<1>2. History /\ [Next]_vars => History'
  <2>. SUFFICES ASSUME History, [Next]_vars PROVE OnDisk' /\ HistoryKept'
    BY BaseStep DEF History
  <2>1. CASE UNCHANGED vars
    BY <2>1 DEF vars, History, OnDisk, HistoryKept, Counts, Within, Holds
  <2>2. CASE Next
    BY <2>2, HistoryRecord, HistoryJob, HistoryProcess DEF Next
  <2>. QED
    BY <2>1, <2>2
<1>3. History => HistoryKept
  BY DEF History
<1>. QED
  BY <1>1, <1>2, <1>3, PTL DEF Spec

-----------------------------------------------------------------------------
(* Suppressions are earned                                                 *)

\* More failures cannot undo a suppression's grounds.
LEMMA EarnedMono ==
  ASSUME NEW A, NEW B, A \subseteq B, IsFiniteSet(B), NEW o, NEW s, Earned(A, o, s)
  PROVE  Earned(B, o, s)
<1>1. InWindow(A, o, s) \subseteq InWindow(B, o, s)
  BY DEF InWindow
<1>2. InWindow(B, o, s) \subseteq B
  BY DEF InWindow
<1>3. IsFiniteSet(InWindow(B, o, s))
  BY <1>2, FS_Subset
<1>4. /\ Cardinality(InWindow(A, o, s)) <= Cardinality(InWindow(B, o, s))
      /\ IsFiniteSet(InWindow(A, o, s))
  BY <1>1, <1>3, FS_Subset
<1>5. /\ Cardinality(InWindow(A, o, s)) \in Nat
      /\ Cardinality(InWindow(B, o, s)) \in Nat
  BY <1>3, <1>4, FS_CardinalityType
<1>. QED
  BY <1>4, <1>5, FailureTrackerAssumption DEF Earned

\* A new failure gets an id no other one has.
LEMMA IdsRecord ==
  ASSUME Base, Ids, NEW o \in Offers, RecordFailure(o)
  PROVE  Ids' /\ \A f : log' = log \cup {f} /\ f.id = Cardinality(log) + 1 => OneEach(mem \cup {f})
<1>1. PICK f \in Events, s \in 0..MaxTime, su \in [Offers -> 0..MaxTime] :
        /\ f.id = Cardinality(log) + 1
        /\ log' = log \cup {f}
        /\ mem' = Kept(mem \cup {f})
        /\ jobs' = jobs \cup {cleanJob(su), [kind |-> "record", f |-> f, s |-> s]}
  BY RecordStep DEF Base
<1>2. db' = db
  BY DEF RecordFailure
<1>3. Cardinality(log) \in Nat
  BY FS_CardinalityType DEF Base, LogFinite
<1>4. \A e \in log : e.id \in Nat /\ e.id < f.id
  BY <1>1, <1>3, EventTypes, FailureTrackerAssumption DEF Base, TypeOK, Ids
<1>5. f \notin log
  BY <1>4
<1>6. Cardinality(log') = Cardinality(log) + 1
  BY <1>1, <1>5, FS_AddElement DEF Base, LogFinite
<1>7. \A e \in log' : e.id <= Cardinality(log')
  BY <1>1, <1>3, <1>4, <1>6
<1>8. \A g \in mem \cup db : g.id # f.id
  BY <1>4 DEF Base, Recorded, Echoes
<1>9. ASSUME NEW e, e.id = f.id
      PROVE  OneEach(mem \cup {e})
  BY <1>8, <1>9 DEF Ids, OneEach
<1>10. OneEach(mem')
  BY <1>1, <1>9 DEF OneEach, Kept
<1>11. \A j \in jobs : j.kind = "record" => j.f.id # f.id
  BY <1>4 DEF Base, Recorded
<1>12. cleanJob(su).kind = "clean"
  BY CleanTypes DEF Base, TypeOK
<1>13. \A j \in jobs' : j.kind = "record" =>
         /\ \A g \in db' : g.id # j.f.id
         /\ \A k \in jobs' : k.kind = "record" /\ k.f.id = j.f.id => k = j
  <2> DEFINE r == [kind |-> "record", f |-> f, s |-> s]
  <2>1. r.kind = "record" /\ r.f = f /\ jobs' = jobs \cup {cleanJob(su), r}
    BY <1>1
  <2> HIDE DEF r
  <2>. QED
    BY <1>2, <1>8, <1>11, <1>12, <2>1 DEF Ids
<1>14. Ids'
  BY <1>2, <1>7, <1>10, <1>13 DEF Ids, OneEach
<1>. QED
  BY <1>1, <1>9, <1>14

\* The goroutine that stores a failure is the only one that does.
LEMMA IdsJob ==
  ASSUME Base, Ids, NEW j \in jobs,
         \/ storeFailure(j) \/ SetSuppression(j)
         \/ ClearSuppression(j) \/ CleanupOldFailures(j)
  PROVE  Ids'
<1>1. log' = log /\ mem' = mem
  BY DEF storeFailure, SetSuppression, ClearSuppression, CleanupOldFailures
<1>2. \A k \in jobs' : k.kind = "record" => k \in jobs /\ (storeFailure(j) => k # j)
  <2>1. CASE storeFailure(j) \/ SetSuppression(j) \/ CleanupOldFailures(j)
    BY <2>1 DEF storeFailure, SetSuppression, CleanupOldFailures
  <2>2. CASE ClearSuppression(j)
    <3>1. PICK o \in j.expired :
            jobs' = (jobs \ {j}) \cup {[j EXCEPT !.expired = @ \ {o}]}
      BY <2>2 DEF ClearSuppression
    <3>2. j = [kind |-> "clean", expired |-> j.expired, at |-> j.at]
      BY <2>2, JobTypes DEF ClearSuppression, Base, TypeOK
    <3>3. [j EXCEPT !.expired = @ \ {o}]
            = [kind |-> "clean", expired |-> j.expired \ {o}, at |-> j.at]
      BY <3>2
    <3>4. ~storeFailure(j)
      BY <3>2 DEF storeFailure
    <3>. QED
      BY <3>1, <3>3, <3>4
  <2>. QED
    BY <2>1, <2>2
<1>3. CASE db' \subseteq db
  BY <1>1, <1>2, <1>3 DEF Ids, OneEach
<1>4. ASSUME NEW t \in j.f.t..now, storeFailure(j), db' = db \cup {[j.f EXCEPT !.t = t]}
      PROVE  Ids'
  <2> DEFINE g == [j.f EXCEPT !.t = t]
  <2>1. j.kind = "record"
    BY <1>4 DEF storeFailure
  <2>2. g.id = j.f.id
    BY <2>1, JobTypes DEF Base, TypeOK, Events
  <2>3. db' = db \cup {g}
    BY <1>4
  <2>4. \A e \in db : e.id # g.id
    BY <2>1, <2>2 DEF Ids
  <2> HIDE DEF g
  <2>5. OneEach(db')
    BY <2>3, <2>4 DEF Ids, OneEach
  <2>6. \A k \in jobs' : k.kind = "record" =>
          /\ \A e \in db' : e.id # k.f.id
          /\ \A l \in jobs' : l.kind = "record" /\ l.f.id = k.f.id => l = k
    BY <1>2, <1>4, <2>1, <2>2, <2>3 DEF Ids
  <2>. QED
    BY <1>1, <2>5, <2>6 DEF Ids
<1>. QED
  BY <1>3, <1>4 DEF storeFailure, SetSuppression, ClearSuppression, CleanupOldFailures

\* A restart brings back every row once.
LEMMA IdsProcess ==
  ASSUME Base, Ids, Crash \/ loadFailureData \/ Tick
  PROVE  Ids'
<1>1. log' = log /\ db' = db
  BY DEF Crash, loadFailureData, Tick
<1>2. CASE Crash
  BY <1>1, <1>2 DEF Ids, OneEach, Crash
<1>3. CASE loadFailureData
  <2>1. ASSUME NEW su \in [Offers -> 0..MaxTime], LoadFromStore(recentRows, su)
        PROVE  Ids'
    <3>1. cleanJob(su).kind = "clean"
      BY CleanTypes DEF Base, TypeOK
    <3>2. mem' \subseteq db /\ jobs' = {cleanJob(su)}
      BY <2>1 DEF LoadFromStore, recentRows, Kept
    <3>. QED
      BY <1>1, <3>1, <3>2 DEF Ids, OneEach
  <2>2. activeRows \in [Offers -> 0..MaxTime] /\ supp \in [Offers -> 0..MaxTime]
    BY RowTypes DEF Base, TypeOK
  <2>3. CASE UNCHANGED <<mem, supp, jobs>>
    BY <1>1, <2>3 DEF Ids, OneEach
  <2>. QED
    BY <1>3, <2>1, <2>2, <2>3 DEF loadFailureData
<1>4. CASE Tick
  BY <1>1, <1>4 DEF Ids, OneEach, Tick
<1>. QED
  BY <1>2, <1>3, <1>4

\* The failures RecordFailure counts are grounds for a suppression that
\* begins now: each of them stands for another one of the log, at most StoreDelay
\* older than the tracker has it, and none is in the future.
LEMMA RecentEarned ==
  ASSUME Base, NEW f \in Events, f.t = now, NEW o, OneEach(mem \cup {f}),
         Cardinality(Recent(mem \cup {f}, o)) >= SuppressionThreshold
  PROVE  Earned(log \cup {f}, o, now)
<1> DEFINE R == Recent(mem \cup {f}, o)
           L == log \cup {f}
           W == InWindow(L, o, now)
           h == [g \in R |-> CHOOSE e \in L : Echoes(g, e)]
<1>1. IsFiniteSet(L)
  BY FS_AddElement DEF Base, LogFinite
<1>2. now \in Nat /\ StoreDelay \in Nat /\ SuppressionWindow \in Nat
  BY FailureTrackerAssumption DEF Base, TypeOK, Times
<1>3. \A g \in R : \E e \in L : Echoes(g, e)
  <2>1. Echoes(f, f)
    BY <1>2 DEF Echoes
  <2>. QED
    BY <2>1 DEF Recent, Base, Recorded
<1>4. \A g \in R : h[g] \in L /\ Echoes(g, h[g])
  BY <1>3
<1> HIDE DEF h
<1>5. \A g \in R : h[g] \in W
  <2>1. TAKE g \in R
  <2>2. /\ g.t \in Nat /\ g.o = o /\ g.t + SuppressionWindow > now
        /\ h[g].t \in Nat /\ h[g].t <= now
    <3>1. g \in Events /\ h[g] \in Events /\ h[g].t <= now
      BY <1>2, <1>4 DEF Recent, Base, TypeOK, LogPast
    <3>. QED
      BY <3>1, EventTypes DEF Recent, Within
  <2>3. h[g].o = o /\ g.t <= h[g].t + StoreDelay
    BY <1>4, <2>2 DEF Echoes
  <2>4. h[g].t + SuppressionWindow + StoreDelay > now
    BY <1>2, <2>2, <2>3
  <2>. QED
    BY <1>4, <2>2, <2>3, <2>4 DEF InWindow
<1>6. \A g1, g2 \in R : h[g1] = h[g2] => g1 = g2
  BY <1>4 DEF Echoes, OneEach, Recent
<1>7. h \in Injection(R, W)
  <2>1. h \in [R -> W]
    BY <1>5 DEF h
  <2>. QED
    BY <1>6, <2>1 DEF Injection, IsInjective
<1>8. IsFiniteSet(W)
  BY <1>1, FS_Subset DEF InWindow
<1>9. IsFiniteSet(R) /\ Cardinality(R) <= Cardinality(W)
  BY <1>7, <1>8, FS_Injection
<1>10. Cardinality(R) \in Nat /\ Cardinality(W) \in Nat
  BY <1>8, <1>9, FS_CardinalityType
<1>. QED
  BY <1>9, <1>10, FailureTrackerAssumption DEF Earned

LEMMA EarnedRecord ==
  ASSUME Base, Ids, AllEarned, NEW o \in Offers, RecordFailure(o)
  PROVE  AllEarned'
<1>1. PICK f \in Events, s \in 0..MaxTime, su \in [Offers -> 0..MaxTime] :
        /\ f.id = Cardinality(log) + 1 /\ f.o = o /\ f.t = now
        /\ log' = log \cup {f}
        /\ mem' = Kept(mem \cup {f})
        /\ supp' = Cleared(su)
        /\ jobs' = jobs \cup {cleanJob(su), [kind |-> "record", f |-> f, s |-> s]}
        /\ \/ su = supp /\ s = 0
           \/ /\ Cardinality(Recent(mem \cup {f}, o)) >= SuppressionThreshold
              /\ su = [supp EXCEPT ![o] = now]
              /\ s = now
  BY RecordStep DEF Base
<1>2. dbSupp' = dbSupp
  BY DEF RecordFailure
<1>3. IsFiniteSet(log')
  BY BaseRecord DEF Base, LogFinite
<1>4. \A p, t : Earned(log, p, t) => Earned(log', p, t)
  BY <1>1, <1>3, EarnedMono
<1>5. s # 0 => Earned(log', o, s)
  BY <1>1, IdsRecord, RecentEarned
<1>6. \A p \in Offers : su[p] # 0 => Earned(log', p, su[p])
  BY <1>1, <1>4, <1>5 DEF AllEarned, Base, TypeOK
<1>7. \A p \in Offers : supp'[p] # 0 => Earned(log', p, supp'[p])
  BY <1>1, <1>6 DEF Cleared
<1>8. \A p \in Offers : dbSupp'[p] # 0 => Earned(log', p, dbSupp'[p])
  BY <1>2, <1>4 DEF AllEarned
<1>9. JobsEarned'
  <2>1. cleanJob(su).kind = "clean"
    BY CleanTypes DEF Base, TypeOK
  <2> DEFINE r == [kind |-> "record", f |-> f, s |-> s]
  <2>2. r.kind = "record" /\ (r.s = 0 \/ Earned(log', r.f.o, r.s))
    BY <1>1, <1>5
  <2>3. jobs' = jobs \cup {cleanJob(su), r}
    BY <1>1
  <2> HIDE DEF r
  <2>. QED
    BY <1>4, <2>1, <2>2, <2>3 DEF AllEarned, JobsEarned
<1>. QED
  BY <1>7, <1>8, <1>9 DEF AllEarned

LEMMA EarnedJob ==
  ASSUME Base, AllEarned, NEW j \in jobs,
         \/ storeFailure(j) \/ SetSuppression(j)
         \/ ClearSuppression(j) \/ CleanupOldFailures(j)
  PROVE  AllEarned'
<1>1. log' = log /\ supp' = supp
  BY DEF storeFailure, SetSuppression, ClearSuppression, CleanupOldFailures
<1>2. CASE storeFailure(j)
  BY <1>1, <1>2 DEF AllEarned, JobsEarned, storeFailure
<1>3. CASE SetSuppression(j)
  <2>1. j.f.o \in Offers /\ Earned(log, j.f.o, j.s)
    BY <1>3, JobTypes, EventTypes DEF SetSuppression, Base, TypeOK, AllEarned, JobsEarned
  <2>2. \A p \in Offers : dbSupp'[p] # 0 => Earned(log, p, dbSupp'[p])
    BY <1>3, <2>1 DEF SetSuppression, AllEarned, Base, TypeOK
  <2>. QED
    BY <1>1, <1>3, <2>2 DEF AllEarned, JobsEarned, SetSuppression
<1>4. CASE ClearSuppression(j)
  <2>1. PICK o \in j.expired :
          /\ \/ dbSupp' = [dbSupp EXCEPT ![o] = 0] /\ UNCHANGED errors
             \/ Failed /\ UNCHANGED dbSupp
          /\ jobs' = (jobs \ {j}) \cup {[j EXCEPT !.expired = @ \ {o}]}
    BY <1>4 DEF ClearSuppression
  <2>2. j = [kind |-> "clean", expired |-> j.expired, at |-> j.at]
    BY <1>4, JobTypes DEF ClearSuppression, Base, TypeOK
  <2>3. [j EXCEPT !.expired = @ \ {o}]
          = [kind |-> "clean", expired |-> j.expired \ {o}, at |-> j.at]
    BY <2>2
  <2>4. \A p \in Offers : dbSupp'[p] # 0 => Earned(log, p, dbSupp'[p])
    BY <2>1 DEF AllEarned, Base, TypeOK
  <2>5. JobsEarned'
    BY <1>1, <2>1, <2>3 DEF AllEarned, JobsEarned
  <2>. QED
    BY <1>1, <2>4, <2>5 DEF AllEarned
<1>5. CASE CleanupOldFailures(j)
  BY <1>1, <1>5 DEF AllEarned, JobsEarned, CleanupOldFailures
<1>. QED
  BY <1>2, <1>3, <1>4, <1>5

LEMMA EarnedProcess ==
  ASSUME Base, AllEarned, Crash \/ loadFailureData \/ Tick
  PROVE  AllEarned'
<1>1. log' = log /\ dbSupp' = dbSupp
  BY DEF Crash, loadFailureData, Tick
<1>2. CASE Crash
  BY <1>1, <1>2 DEF AllEarned, JobsEarned, Crash
<1>3. CASE loadFailureData
  <2>1. ASSUME NEW su \in [Offers -> 0..MaxTime], LoadFromStore(recentRows, su),
               \A p \in Offers : su[p] # 0 => Earned(log, p, su[p])
        PROVE  AllEarned'
    <3>1. cleanJob(su).kind = "clean"
      BY CleanTypes DEF Base, TypeOK
    <3>2. JobsEarned'
      BY <2>1, <3>1 DEF LoadFromStore, JobsEarned
    <3>3. \A p \in Offers : supp'[p] # 0 => Earned(log, p, supp'[p])
      BY <2>1 DEF LoadFromStore, Cleared
    <3>. QED
      BY <1>1, <3>2, <3>3 DEF AllEarned
  <2>2. \A p \in Offers : activeRows[p] # 0 => Earned(log, p, activeRows[p])
    BY DEF activeRows, AllEarned
  <2>3. activeRows \in [Offers -> 0..MaxTime] /\ supp \in [Offers -> 0..MaxTime]
    BY RowTypes DEF Base, TypeOK
  <2>4. CASE UNCHANGED <<mem, supp, jobs>>
    BY <1>1, <2>4 DEF AllEarned, JobsEarned
  <2>. QED
    BY <1>3, <2>1, <2>2, <2>3, <2>4 DEF loadFailureData, AllEarned
<1>4. CASE Tick
  BY <1>1, <1>4 DEF AllEarned, JobsEarned, Tick
<1>. QED
  BY <1>2, <1>3, <1>4

\* An offer is hidden, in memory and over a restart, only for
\* SuppressionThreshold different failures within one SuppressionWindow and the
\* delay of the store: no goroutine that arrives late, no row that is dated late
\* and no replay at startup hides one that has fewer.
THEOREM SuppressionEarnedAlways == Spec => []SuppressionEarned
<1> DEFINE Inv == Base /\ Ids /\ AllEarned
<1>1. Init => Inv
  BY BaseInit DEF Init, Ids, OneEach, AllEarned, JobsEarned
<1>2. Inv /\ [Next]_vars => Inv'
  <2>. SUFFICES ASSUME Inv, [Next]_vars PROVE Ids' /\ AllEarned'
    BY BaseStep
  <2>1. CASE UNCHANGED vars
    BY <2>1 DEF vars, Ids, OneEach, AllEarned, JobsEarned
  <2>2. CASE Next
    BY <2>2, IdsRecord, IdsJob, IdsProcess, EarnedRecord, EarnedJob, EarnedProcess DEF Next
  <2>. QED
    BY <2>1, <2>2
<1>3. Inv => SuppressionEarned
  BY DEF AllEarned, SuppressionEarned, IsSuppressed
<1>. QED
  BY <1>1, <1>2, <1>3, PTL DEF Spec

=============================================================================
