--------------------------- MODULE BenchmarkRunner ---------------------------
(***************************************************************************)
(* internal/service/benchmark/runner.go with the manifest table of         *)
(* internal/benchmark/manifest.go: one benchmark run.                      *)
(*                                                                         *)
(* StartRun writes one manifest row per entry and starts processRun, which *)
(* claims pending rows and starts one worker (processEntry) for each. A    *)
(* worker makes up to MaxAttempts attempts, each with a session of its     *)
(* own; the provisioning part of an attempt runs under a semaphore, the    *)
(* gate. CancelRun cancels the context of the run at any moment: from then *)
(* on every call that uses this context fails.                             *)
(***************************************************************************)
EXTENDS Integers, FiniteSets

CONSTANTS
  Entries,      \* the manifest entries of the run
  MaxAttempts,  \* maxAttempts of processEntry
  MaxBudget,    \* MaxBudget in units of one successful entry; 0 is no budget
  FetchLimits,  \* the LIMIT of the query for pending rows is one of these (it is 1000)
  MaxFaults     \* bound: database calls and destroy calls that fail

ASSUME EntriesAssumption == IsFiniteSet(Entries)
ASSUME AttemptsAssumption == MaxAttempts \in Nat \ {0}
ASSUME BudgetAssumption == MaxBudget \in Nat
ASSUME LimitAssumption == FetchLimits \subseteq Nat \ {0}
ASSUME BenchFaultsAssumption == MaxFaults \in Nat

VARIABLES
  run,        \* BenchmarkRun.Status, "none" while r.runs has no such run
  ctx,        \* the context of the run, "done" once it is cancelled
  man,        \* man[e]: the manifest row
  sess,       \* sess[e][a]: the session CreateSession returned to attempt a at e
  stray,      \* a session was made for the run that it has no id of
  prPc, prTodo, prCur,   \* processRun; prCur is the claimed entry
  wPc, wTry, wSess,      \* processEntry; wSess is entry.SessionID
  gate,       \* the tokens in the channel provisionSem, which holds one
  cnPc,       \* CancelRun
  faults

runVars == <<run, ctx>>
prVars == <<prPc, prTodo, prCur>>
wVars == <<wPc, wTry, wSess>>
benchVars == <<runVars, man, sess, stray, prVars, wVars, gate, cnPc, faults>>

-----------------------------------------------------------------------------
(* Data                                                                    *)

RunEnded == {"completed", "cancelled", "failed"}
RunStatuses == {"none", "pending", "running"} \cup RunEnded

\* "failed" stands for timeout too: nothing in a run tells them apart.
Ended == {"success", "failed"}
ManStatuses == {"absent", "pending", "running"} \cup Ended

Attempts == 1 .. MaxAttempts
NoAttempt == 0

\* sid: the attempt whose session id is in the row; cost: total_cost > 0.
ManRow == [status: ManStatuses, sid: Attempts \cup {NoAttempt}, cost: BOOLEAN]
NoEntryRow == [status |-> "absent", sid |-> NoAttempt, cost |-> FALSE]
PendingRow == [NoEntryRow EXCEPT !.status = "pending"]

\* A session as the runner sees it through the provisioner: "over" stands for
\* failed, stopping and stopped.
Alive == {"provisioning", "running"}
SessStates == {"none", "over"} \cup Alive

Fault == faults < MaxFaults /\ faults' = faults + 1
NoFault == UNCHANGED faults

Cancelled == ctx = "done"

InStatus(st) == {e \in Entries : man[e].status = st}

\* GetTotalCost: only successful entries have a cost.
TotalCost == Cardinality({e \in Entries : man[e].cost})

\* A statement with the context of the run: it fails once that is cancelled.
ManSet(e, r) ==
  \/ ~Cancelled /\ man' = [man EXCEPT ![e] = r] /\ NoFault
  \/ Cancelled /\ UNCHANGED man /\ NoFault
  \/ UNCHANGED man /\ Fault

\* A statement with context.Background().
ManSetAlways(e, r) ==
  \/ man' = [man EXCEPT ![e] = r] /\ NoFault
  \/ UNCHANGED man /\ Fault

Marked(e, st) == [man[e] EXCEPT !.status = st]

\* cleanupSession: DestroySession with a context of its own.
Destroyed(e, a) ==
  \/ sess' = [sess EXCEPT ![e][a] = "over"] /\ NoFault
  \/ UNCHANGED sess /\ Fault

-----------------------------------------------------------------------------
(* StartRun and CancelRun                                                  *)

\* An error of ListOffers or manifest.Create ends the request: the rows made so
\* far stay, and there is no processRun.
StartRun ==
  /\ run = "none" /\ prPc = "off"
  /\ \A e \in Entries : man[e] = NoEntryRow
  /\ \/ /\ man' = [e \in Entries |-> PendingRow]
        /\ run' = "pending"
        /\ prPc' = "start"
        /\ NoFault
     \/ /\ \E some \in SUBSET Entries :
             man' = [e \in Entries |-> IF e \in some THEN PendingRow ELSE NoEntryRow]
        /\ prPc' = "over"
        /\ Fault
        /\ UNCHANGED run
  /\ UNCHANGED <<ctx, sess, prTodo, prCur, wVars, gate, cnPc, stray>>

\* r.cancels has an entry from StartRun until processRun returns: cancel() ...
CancelContext ==
  /\ cnPc = "idle"
  /\ run # "none" /\ prPc \notin {"off", "sweep", "over"}
  /\ ctx' = "done"
  /\ cnPc' = "mark"
  /\ UNCHANGED <<run, man, sess, stray, prVars, wVars, gate, faults>>

\* ... and the status is set, without the mutex.
CancelMark ==
  /\ cnPc = "mark"
  /\ run' = "cancelled"
  /\ cnPc' = "returned"
  /\ UNCHANGED <<ctx, man, sess, stray, prVars, wVars, gate, faults>>

-----------------------------------------------------------------------------
(* processRun                                                              *)

\* Steps of a worker: its program counter, its attempt and entry.SessionID.
WGo(e, pc) == wPc' = [wPc EXCEPT ![e] = pc]
WAttempt(e, a, s) == wTry' = [wTry EXCEPT ![e] = a] /\ wSess' = [wSess EXCEPT ![e] = s]
WEnd(e) == WGo(e, "off") /\ WAttempt(e, 1, NoAttempt)

WorkersDone == \A e \in Entries : wPc[e] = "off"

RunBegin ==
  /\ prPc = "start"
  /\ run' = "running"
  /\ prPc' = "loop"
  /\ UNCHANGED <<ctx, man, sess, prTodo, prCur, wVars, gate, cnPc, stray, faults>>

\* The select at the head of the loop.
RunLoop ==
  /\ prPc = "loop"
  /\ prPc' = IF Cancelled THEN "ctxwait" ELSE "fetch"
  /\ UNCHANGED <<runVars, man, sess, prTodo, prCur, wVars, gate, cnPc, stray, faults>>

BudgetSpent == MaxBudget > 0 /\ TotalCost >= MaxBudget

\* GetPendingByPriority: all that is pending, or as much as the limit allows.
\* Which entries these are (the priorities), and which limit, is left open.
Batch(es) ==
  /\ es # {} /\ es \subseteq InStatus("pending")
  /\ \E limit \in FetchLimits :
       \/ es = InStatus("pending") /\ Cardinality(es) <= limit
       \/ Cardinality(es) = limit

\* An error of GetPendingByPriority ends the loop; one of GetTotalCost counts as
\* no cost. "wait" is what follows a break.
RunFetch ==
  /\ prPc = "fetch"
  /\ \/ /\ prPc' = "wait" /\ UNCHANGED prTodo
        /\ \/ Cancelled /\ NoFault
           \/ Fault
           \/ InStatus("pending") # {} /\ BudgetSpent /\ NoFault
     \/ /\ ~Cancelled /\ InStatus("pending") = {}
        /\ prPc' = "idlewait" /\ UNCHANGED prTodo /\ NoFault
     \/ /\ ~Cancelled
        /\ \E es \in SUBSET Entries : Batch(es) /\ prTodo' = es
        /\ prPc' = "claim"
        /\ Fault \/ (~BudgetSpent /\ NoFault)
  /\ UNCHANGED <<runVars, man, sess, prCur, wVars, gate, cnPc, stray>>

\* Nothing is pending: wait for the workers and look again (an error counts
\* as nothing).
RunIdle ==
  /\ prPc = "idlewait"
  /\ WorkersDone
  /\ \/ prPc' = "wait" /\ Fault
     \/ prPc' = (IF Cancelled \/ InStatus("pending") = {} THEN "wait" ELSE "loop") /\ NoFault
  /\ UNCHANGED <<runVars, man, sess, prTodo, prCur, wVars, gate, cnPc, stray>>

\* MarkRunning, which claims a row only while it is pending.
RunClaim(e) ==
  /\ prPc = "claim"
  /\ e \in prTodo
  /\ \/ /\ ~Cancelled /\ man[e].status = "pending"
        /\ man' = [man EXCEPT ![e] = Marked(e, "running")]
        /\ prPc' = "dispatch" /\ prCur' = {e}
        /\ NoFault
        /\ UNCHANGED prTodo
     \/ /\ prTodo' = prTodo \ {e}
        /\ prPc' = IF prTodo = {e} THEN "loop" ELSE "claim"
        /\ ((Cancelled \/ man[e].status # "pending") /\ NoFault) \/ Fault
        /\ UNCHANGED <<man, prCur>>
  /\ UNCHANGED <<runVars, sess, wVars, gate, cnPc, stray>>

\* Start the worker, unless the run was cancelled meanwhile.
RunDispatch(e) ==
  /\ prPc = "dispatch"
  /\ e \in prCur
  /\ \/ /\ Cancelled
        /\ prPc' = "wait" /\ prTodo' = {} /\ prCur' = {}
        /\ UNCHANGED wVars
     \/ /\ ~Cancelled
        /\ WGo(e, "gate") /\ WAttempt(e, 1, NoAttempt)
        /\ prPc' = (IF prTodo = {e} THEN "loop" ELSE "pause")
        /\ prTodo' = prTodo \ {e} /\ prCur' = {}
  /\ UNCHANGED <<runVars, man, sess, gate, cnPc, stray, faults>>

\* Between two entries there is a pause, which a cancellation may end.
RunPause ==
  /\ prPc = "pause"
  /\ \/ prPc' = "claim" /\ UNCHANGED prTodo
     \/ Cancelled /\ prPc' = "wait" /\ prTodo' = {}
  /\ UNCHANGED <<runVars, man, sess, prCur, wVars, gate, cnPc, stray, faults>>

\* Mutant: entries that are still running do not count.
FinalStatusIgnoresRunning ==
  IF InStatus("pending") # {} THEN run
  ELSE IF InStatus("failed") # {} /\ InStatus("success") = {}
  THEN "failed" ELSE "completed"

\* updateRunStatus: what it makes of the summary of the manifest. The status
\* stays while something is pending or running.
FinalStatus ==
  IF InStatus("pending") \cup InStatus("running") # {} THEN run
  ELSE IF InStatus("failed") # {} /\ InStatus("success") = {}
  THEN "failed" ELSE "completed"

\* wg.Wait and updateRunStatus. An error of GetSummary is ignored: the counts
\* are all zero then.
RunFinish ==
  /\ prPc = "wait"
  /\ WorkersDone
  /\ \/ run = "cancelled" /\ UNCHANGED run /\ NoFault
     \/ run # "cancelled" /\ run' = FinalStatus /\ NoFault
     \/ run # "cancelled" /\ run' = "completed" /\ Fault
  /\ prPc' = "list"
  /\ UNCHANGED <<ctx, man, sess, prTodo, prCur, wVars, gate, cnPc, stray>>

\* The return of the select at the head of the loop: no updateRunStatus.
RunCancelled ==
  /\ prPc = "ctxwait"
  /\ WorkersDone
  /\ prPc' = "list"
  /\ UNCHANGED <<runVars, man, sess, prTodo, prCur, wVars, gate, cnPc, stray, faults>>

\* Mutant: only rows that are still running are looked at.
RunListRunning ==
  /\ prPc = "list"
  /\ \/ /\ prTodo' = {e \in Entries : man[e].sid # NoAttempt /\ man[e].status = "running"}
        /\ prPc' = "sweep" /\ NoFault
     \/ prTodo' = {} /\ prPc' = "over" /\ Fault
  /\ UNCHANGED <<runVars, man, sess, prCur, wVars, gate, cnPc, stray>>

\* The deferred function: drop the cancel function (and call it, although no
\* one uses the context any more), then cleanupRunSessions lists the rows with
\* a session ...
RunList ==
  /\ prPc = "list"
  /\ \/ prTodo' = {e \in Entries : man[e].sid # NoAttempt} /\ prPc' = "sweep" /\ NoFault
     \/ prTodo' = {} /\ prPc' = "over" /\ Fault
  /\ UNCHANGED <<runVars, man, sess, prCur, wVars, gate, cnPc, stray>>

\* ... and destroys those that are still alive.
RunSweep(e) ==
  /\ prPc = "sweep"
  /\ e \in prTodo
  /\ prTodo' = prTodo \ {e}
  /\ IF sess[e][man[e].sid] \in Alive THEN Destroyed(e, man[e].sid) ELSE UNCHANGED <<sess, faults>>
  /\ UNCHANGED <<runVars, man, prPc, prCur, wVars, gate, cnPc, stray>>

RunOver ==
  /\ prPc = "sweep"
  /\ prTodo = {}
  /\ prPc' = "over"
  /\ UNCHANGED <<runVars, man, sess, prTodo, prCur, wVars, gate, cnPc, stray, faults>>

RunStep ==
  \/ RunBegin \/ RunLoop \/ RunFetch \/ RunIdle \/ RunPause \/ RunFinish
  \/ RunCancelled \/ RunList \/ RunOver
  \/ \E e \in Entries : RunClaim(e) \/ RunDispatch(e) \/ RunSweep(e)

-----------------------------------------------------------------------------
(* processEntry and processEntryOnce                                       *)

GatePcs == {"provision", "record"}
WorkerPcs == {"off", "gate", "poll", "bench", "save", "cleanup", "finish", "failed"} \cup GatePcs

\* Mutant: the return for want of an offer forgets the gate.
NoOfferKeepsGate(e) == ManSet(e, Marked(e, "failed")) /\ WEnd(e) /\ gate' = 1

\* ListOffers, the exclusions and the choice of an offer: without one the entry
\* fails, is not tried again, and the gate is free.
NoOffer(e) == ManSet(e, Marked(e, "failed")) /\ WEnd(e) /\ gate' = 0

\* Mutant: the attempt goes on when the gate is taken.
AttemptGateOpen(e) ==
  /\ wPc[e] = "gate"
  /\ \/ gate' = 1 /\ WGo(e, "provision") /\ UNCHANGED <<man, wTry, wSess, faults>>
     \/ NoOffer(e)
     \/ Cancelled /\ WEnd(e) /\ UNCHANGED <<man, gate, faults>>
  /\ UNCHANGED <<runVars, sess, prVars, cnPc, stray>>

\* Take the gate and find an offer, or return without a word to the manifest.
AttemptGate(e) ==
  /\ wPc[e] = "gate"
  /\ \/ gate = 0 /\ gate' = 1 /\ WGo(e, "provision") /\ UNCHANGED <<man, wTry, wSess, faults>>
     \/ gate = 0 /\ NoOffer(e)
     \/ Cancelled /\ WEnd(e) /\ UNCHANGED <<man, gate, faults>>
  /\ UNCHANGED <<runVars, sess, prVars, cnPc, stray>>

\* provisioner.CreateSession, with the context of the run, retries within the
\* call included. (Each attempt has a consumer of its own: none is a duplicate.)
AttemptProvision(e) ==
  /\ wPc[e] = "provision"
  /\ \/ /\ ManSet(e, Marked(e, "failed"))
        /\ WGo(e, "failed")
        /\ gate' = 0
        /\ UNCHANGED <<sess, wTry, wSess>>
     \/ /\ sess' = [sess EXCEPT ![e][wTry[e]] = "provisioning"]
        /\ WGo(e, "record") /\ WAttempt(e, wTry[e], wTry[e])
        /\ UNCHANGED <<man, gate, faults>>
  /\ UNCHANGED <<runVars, prVars, cnPc, stray>>

\* In the course of CreateSession: a session it has made is given up, and the
\* statement that says so fails. The row stays behind as pending or provisioning.
SessionLost(e) ==
  /\ wPc[e] = "provision"
  /\ ~stray /\ stray' = TRUE
  /\ (Cancelled /\ NoFault) \/ Fault
  /\ UNCHANGED <<runVars, man, sess, prVars, wVars, gate, cnPc>>

\* manifest.Update of the copy fetched by processRun: running again, with the
\* session and without a cost. Then the gate is released.
AttemptRecord(e) ==
  /\ wPc[e] = "record"
  /\ ManSet(e, [status |-> "running", sid |-> wSess[e], cost |-> FALSE])
  /\ gate' = 0
  /\ WGo(e, "poll")
  /\ UNCHANGED <<runVars, sess, prVars, wTry, wSess, cnPc, stray>>

\* A failure after provisioning is marked; the session is destroyed next.
AttemptFails(e) == ManSet(e, Marked(e, "failed")) /\ WGo(e, "cleanup")

\* Wait for the session: it runs, it failed, or the wait timed out (as it does
\* for a stopped session) or was cancelled.
AttemptPoll(e) ==
  /\ wPc[e] = "poll"
  /\ \/ sess[e][wSess[e]] = "running" /\ WGo(e, "bench") /\ UNCHANGED <<man, faults>>
     \/ AttemptFails(e)
  /\ UNCHANGED <<runVars, sess, prVars, wTry, wSess, gate, cnPc, stray>>

\* Readiness, upload and start of the script, and the wait for its result: it
\* is collected, a step fails, the script crashed or the wait timed out.
AttemptBench(e) ==
  /\ wPc[e] = "bench"
  /\ \/ ~Cancelled /\ WGo(e, "save") /\ UNCHANGED <<man, faults>>
     \/ AttemptFails(e)
  /\ UNCHANGED <<runVars, sess, prVars, wTry, wSess, gate, cnPc, stray>>

\* Mutant: an attempt that succeeded goes on like one that failed.
AttemptSaveThenRetry(e) ==
  /\ wPc[e] = "save"
  /\ \/ /\ ManSet(e, [man[e] EXCEPT !.status = "success", !.cost = TRUE])
        /\ WGo(e, "cleanup")
     \/ AttemptFails(e)
  /\ UNCHANGED <<runVars, sess, prVars, wTry, wSess, gate, cnPc, stray>>

\* Parse and save the result, then MarkSuccess, whose error is only logged.
AttemptSave(e) ==
  /\ wPc[e] = "save"
  /\ \/ /\ ManSet(e, [man[e] EXCEPT !.status = "success", !.cost = TRUE])
        /\ WGo(e, "finish")
     \/ AttemptFails(e)
  /\ UNCHANGED <<runVars, sess, prVars, wTry, wSess, gate, cnPc, stray>>

\* cleanupSession after an attempt that failed or succeeded.
AttemptCleanup(e) ==
  /\ wPc[e] \in {"cleanup", "finish"}
  /\ Destroyed(e, wSess[e])
  /\ IF wPc[e] = "cleanup" THEN WGo(e, "failed") /\ UNCHANGED <<wTry, wSess>> ELSE WEnd(e)
  /\ UNCHANGED <<runVars, man, prVars, gate, cnPc, stray>>

\* Mutant: one attempt too many.
EntryFailedOnceMore(e) ==
  /\ wPc[e] = "failed"
  /\ \/ /\ Cancelled \/ wTry[e] > MaxAttempts
        /\ ManSetAlways(e, Marked(e, "failed"))
        /\ WEnd(e)
        /\ UNCHANGED sess
     \/ /\ ~Cancelled /\ wTry[e] <= MaxAttempts
        /\ IF wSess[e] # NoAttempt THEN Destroyed(e, wSess[e]) ELSE UNCHANGED <<sess, faults>>
        /\ WGo(e, "gate") /\ WAttempt(e, wTry[e] + 1, NoAttempt)
        /\ UNCHANGED man
  /\ UNCHANGED <<runVars, prVars, gate, cnPc, stray>>

\* processEntry after a failed attempt: the run is cancelled, the attempts are
\* exhausted, or the next one starts with one more cleanupSession.
EntryFailed(e) ==
  /\ wPc[e] = "failed"
  /\ \/ /\ Cancelled \/ wTry[e] = MaxAttempts
        /\ ManSetAlways(e, Marked(e, "failed"))
        /\ WEnd(e)
        /\ UNCHANGED sess
     \/ /\ ~Cancelled /\ wTry[e] < MaxAttempts
        /\ IF wSess[e] # NoAttempt THEN Destroyed(e, wSess[e]) ELSE UNCHANGED <<sess, faults>>
        /\ WGo(e, "gate") /\ WAttempt(e, wTry[e] + 1, NoAttempt)
        /\ UNCHANGED man
  /\ UNCHANGED <<runVars, prVars, gate, cnPc, stray>>

WorkerStep(e) ==
  \/ AttemptGate(e) \/ AttemptProvision(e) \/ AttemptRecord(e) \/ AttemptPoll(e)
  \/ AttemptBench(e) \/ AttemptSave(e) \/ AttemptCleanup(e) \/ EntryFailed(e)

-----------------------------------------------------------------------------
(* The provisioner and the lifecycle manager, which the runner does not see *)

\* Verification succeeds ...
SessionVerified(e, a) ==
  /\ sess[e][a] = "provisioning"
  /\ sess' = [sess EXCEPT ![e][a] = "running"]
  /\ UNCHANGED <<runVars, man, prVars, wVars, gate, cnPc, stray, faults>>

\* Mutant: a session that was running is retried as well.
SessionFailsAnyTime(e, a) ==
  /\ sess[e][a] \in Alive
  /\ sess' = [sess EXCEPT ![e][a] = "over"]
  /\ stray' \in {stray, TRUE}
  /\ UNCHANGED <<runVars, man, prVars, wVars, gate, cnPc, faults>>

\* ... or fails: the runner asks for AutoRetry, so that the provisioner may make
\* another session (and others after it), whose id the run never learns.
SessionFails(e, a) ==
  /\ sess[e][a] = "provisioning"
  /\ sess' = [sess EXCEPT ![e][a] = "over"]
  /\ stray' \in {stray, TRUE}
  /\ UNCHANGED <<runVars, man, prVars, wVars, gate, cnPc, faults>>

\* The reservation is over or the host is lost.
SessionEnds(e, a) ==
  /\ sess[e][a] = "running"
  /\ sess' = [sess EXCEPT ![e][a] = "over"]
  /\ UNCHANGED <<runVars, man, prVars, wVars, gate, cnPc, stray, faults>>

SessionStep(e) ==
  \/ SessionLost(e)
  \/ \E a \in Attempts : SessionVerified(e, a) \/ SessionFails(e, a) \/ SessionEnds(e, a)

Init ==
  /\ run = "none" /\ ctx = "open"
  /\ man = [e \in Entries |-> NoEntryRow]
  /\ sess = [e \in Entries |-> [a \in Attempts |-> "none"]]
  /\ prPc = "off" /\ prTodo = {} /\ prCur = {}
  /\ wPc = [e \in Entries |-> "off"]
  /\ wTry = [e \in Entries |-> 1]
  /\ wSess = [e \in Entries |-> NoAttempt]
  /\ gate = 0
  /\ cnPc = "idle"
  /\ stray = FALSE
  /\ faults = 0

Next ==
  \/ StartRun
  \/ CancelContext
  \/ CancelMark
  \/ RunStep
  \/ \E e \in Entries : WorkerStep(e) \/ SessionStep(e)

Spec == Init /\ [][Next]_benchVars

\* Goroutines go on; one that waits for the gate gets it in the end. (A wait
\* for a session or for a result ends with its timeout.)
Fairness ==
  /\ WF_benchVars(RunStep)
  /\ \A e \in Entries : SF_benchVars(WorkerStep(e))

LiveSpec == Spec /\ Fairness

-----------------------------------------------------------------------------
PrPcs == {"off", "start", "loop", "fetch", "idlewait", "claim", "dispatch", "pause", "wait",
          "ctxwait", "list", "sweep", "over"}

\* Every variable keeps its type.
TypeOK ==
  /\ run \in RunStatuses
  /\ ctx \in {"open", "done"}
  /\ man \in [Entries -> ManRow]
  /\ sess \in [Entries -> [Attempts -> SessStates]]
  /\ stray \in BOOLEAN
  /\ prPc \in PrPcs
  /\ prTodo \subseteq Entries
  /\ prCur \subseteq Entries
  /\ wPc \in [Entries -> WorkerPcs]
  /\ wTry \in [Entries -> Attempts]
  /\ wSess \in [Entries -> Attempts \cup {NoAttempt}]
  /\ gate \in {0, 1}
  /\ cnPc \in {"idle", "mark", "returned"}
  /\ faults \in Nat

\* "Only one entry provisions at a time", and the gate is not lost: it is taken
\* exactly while some worker is provisioning, whichever way that worker leaves.
GateExclusive ==
  /\ \A e, f \in Entries : wPc[e] \in GatePcs /\ wPc[f] \in GatePcs => e = f
  /\ gate = 1 <=> \E e \in Entries : wPc[e] \in GatePcs

\* When processRun is over, no session that CreateSession returned to the run is
\* alive, even if one call failed: a destroy call that failed is made good by the
\* next attempt or by cleanupRunSessions. (That goes by the manifest, in which a
\* cancelled run cannot record its sessions: there, one failure may leave a
\* session.)
NoSessionLeft ==
  prPc = "over" /\ faults <= (IF Cancelled THEN 0 ELSE 1)
    => \A e \in Entries, a \in Attempts : sess[e][a] \notin Alive

\* The sessions that the run has no id of, and so cannot clean up, are automatic
\* retries of sessions that failed: a run whose entries all succeeded at the first
\* attempt leaves none, unless it was cancelled or a call failed.
StraysAreRetries ==
  prPc = "over" /\ faults = 0 /\ ~Cancelled /\ stray
    => \E e \in Entries : man[e].status # "success" \/ man[e].sid # 1

\* cleanupRunSessions "destroys any sessions still active from a
\* completed/cancelled run".
RunSessionsGone == prPc = "over" /\ faults = 0 => ~stray

\* A run that is shown as completed or failed has nothing pending or running,
\* although a second attempt sets failed rows back to running.
EndedMeansDone ==
  run \in {"completed", "failed"} /\ faults = 0
    => InStatus("pending") \cup InStatus("running") = {}

\* A successful entry stays successful: no later attempt, timeout or
\* cancellation overwrites its row.
SuccessIsFinal ==
  [][\A e \in Entries : man[e].status = "success" => man'[e].status = "success"]_benchVars

\* Unless it is cancelled or a call fails, a run ends: it stays "running" only
\* when processRun stops at the budget with rows beyond the limit still pending.
RunEnds ==
  run \in {"pending", "running"} ~>
    \/ run \in RunEnded \/ Cancelled \/ faults > 0
    \/ prPc = "over" /\ BudgetSpent /\ InStatus("pending") # {}

\* MaxBudget is the "Total $ budget for the run": once it is spent, no further
\* session is created.
BudgetRespected ==
  [][\A e \in Entries, a \in Attempts :
       sess[e][a] = "none" /\ sess'[e][a] # "none"
         => MaxBudget = 0 \/ TotalCost < MaxBudget]_benchVars

=============================================================================
