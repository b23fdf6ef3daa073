--------------------------- MODULE BenchmarkProofs ---------------------------
(* Proofs about BenchmarkRunner, for any number of entries and attempts.   *)
EXTENDS BenchmarkRunner, TLAPS

-----------------------------------------------------------------------------
(* Types                                                                   *)

LEMMA RowTypes ==
  ASSUME TypeOK, NEW e \in Entries
  PROVE  /\ \A st \in ManStatuses : Marked(e, st) \in ManRow
         /\ [man[e] EXCEPT !.status = "success", !.cost = TRUE] \in ManRow
         /\ [status |-> "running", sid |-> wSess[e], cost |-> FALSE] \in ManRow
         /\ NoEntryRow \in ManRow
         /\ PendingRow \in ManRow
BY DEF TypeOK, Marked, ManRow, ManStatuses, Ended, NoEntryRow, PendingRow

LEMMA SetTypes ==
  ASSUME TypeOK, NEW e \in Entries, NEW r \in ManRow
  PROVE  /\ ManSet(e, r) => man' \in [Entries -> ManRow] /\ faults' \in Nat
         /\ ManSetAlways(e, r) => man' \in [Entries -> ManRow] /\ faults' \in Nat
BY DEF TypeOK, ManSet, ManSetAlways, Cancelled, Fault, NoFault

LEMMA DestroyedTypes ==
  ASSUME TypeOK, NEW e \in Entries, NEW a \in Attempts \cup {NoAttempt}, Destroyed(e, a)
  PROVE  sess' \in [Entries -> [Attempts -> SessStates]] /\ faults' \in Nat
<1>1. ASSUME sess' = [sess EXCEPT ![e][a] = "over"]
      PROVE  sess' \in [Entries -> [Attempts -> SessStates]]
  <2>1. "over" \in SessStates
    BY DEF SessStates
  <2>. QED
    BY <1>1, <2>1 DEF TypeOK
<1>2. faults' \in Nat
  BY DEF TypeOK, Destroyed, Fault, NoFault
<1>. QED
  BY <1>1, <1>2 DEF TypeOK, Destroyed

LEMMA WorkerTypes ==
  ASSUME TypeOK, NEW e \in Entries
  PROVE  /\ \A pc \in WorkerPcs : WGo(e, pc) => wPc' \in [Entries -> WorkerPcs]
         /\ \A a \in Attempts, s \in Attempts \cup {NoAttempt} :
              WAttempt(e, a, s) => /\ wTry' \in [Entries -> Attempts]
                                   /\ wSess' \in [Entries -> Attempts \cup {NoAttempt}]
         /\ WEnd(e) => /\ wPc' \in [Entries -> WorkerPcs]
                       /\ wTry' \in [Entries -> Attempts]
                       /\ wSess' \in [Entries -> Attempts \cup {NoAttempt}]
<1>1. /\ \A pc \in WorkerPcs : WGo(e, pc) => wPc' \in [Entries -> WorkerPcs]
      /\ \A a \in Attempts, s \in Attempts \cup {NoAttempt} :
           WAttempt(e, a, s) => /\ wTry' \in [Entries -> Attempts]
                                /\ wSess' \in [Entries -> Attempts \cup {NoAttempt}]
  BY DEF TypeOK, WGo, WAttempt
<1>2. "off" \in WorkerPcs /\ 1 \in Attempts
  BY AttemptsAssumption DEF WorkerPcs, Attempts
<1>. QED
  BY <1>1, <1>2 DEF WEnd

LEMMA TypeRun ==
  ASSUME TypeOK, StartRun \/ CancelContext \/ CancelMark \/ RunStep
  PROVE  TypeOK'
<1>1. CASE StartRun
  <2>1. PendingRow \in ManRow /\ NoEntryRow \in ManRow
    BY DEF ManRow, ManStatuses, PendingRow, NoEntryRow
  <2>. QED
    BY <1>1, <2>1 DEF TypeOK, StartRun, PrPcs, RunStatuses, Fault, NoFault, wVars
<1>2. CASE CancelContext \/ CancelMark
  BY <1>2 DEF TypeOK, CancelContext, CancelMark, RunStatuses, RunEnded, prVars, wVars
<1>3. CASE RunBegin \/ RunLoop \/ RunFetch \/ RunIdle \/ RunPause
  BY <1>3 DEF TypeOK, RunBegin, RunLoop, RunFetch, RunIdle, RunPause, RunStatuses, PrPcs, InStatus,
              Fault, NoFault, runVars, wVars
<1>4. CASE RunFinish \/ RunCancelled \/ RunList \/ RunOver
  BY <1>4 DEF TypeOK, RunFinish, RunCancelled, RunList, RunOver, FinalStatus, RunStatuses, RunEnded,
              PrPcs, Fault, NoFault, runVars, wVars
<1>5. ASSUME NEW e \in Entries, RunClaim(e)
      PROVE  TypeOK'
  <2>1. Marked(e, "running") \in ManRow
    BY RowTypes DEF ManStatuses
  <2>2. man' \in [Entries -> ManRow] /\ faults' \in Nat
    BY <1>5, <2>1 DEF TypeOK, RunClaim, Fault, NoFault
  <2>. QED
    BY <1>5, <2>2 DEF TypeOK, RunClaim, PrPcs, runVars, wVars
<1>6. ASSUME NEW e \in Entries, RunDispatch(e)
      PROVE  TypeOK'
  <2>1. "gate" \in WorkerPcs /\ 1 \in Attempts
    BY AttemptsAssumption DEF WorkerPcs, Attempts
  <2>2. wPc' \in [Entries -> WorkerPcs] /\ wTry' \in [Entries -> Attempts]
        /\ wSess' \in [Entries -> Attempts \cup {NoAttempt}]
    BY <1>6, <2>1, WorkerTypes DEF TypeOK, RunDispatch, wVars
  <2>. QED
    BY <1>6, <2>2 DEF TypeOK, RunDispatch, PrPcs, runVars
<1>7. ASSUME NEW e \in Entries, RunSweep(e)
      PROVE  TypeOK'
  <2>1. man[e].sid \in Attempts \cup {NoAttempt}
    BY DEF TypeOK, ManRow
  <2>2. sess' \in [Entries -> [Attempts -> SessStates]] /\ faults' \in Nat
    BY <1>7, <2>1, DestroyedTypes DEF RunSweep, TypeOK
  <2>. QED
    BY <1>7, <2>2 DEF TypeOK, RunSweep, runVars, wVars
<1>. QED
  BY <1>1, <1>2, <1>3, <1>4, <1>5, <1>6, <1>7 DEF RunStep

LEMMA TypeWorker ==
  ASSUME TypeOK, NEW e \in Entries, WorkerStep(e) \/ SessionStep(e)
  PROVE  TypeOK'
<1>. USE RowTypes, SetTypes, WorkerTypes DEF ManStatuses, Ended, WorkerPcs, GatePcs, runVars, prVars
<1>1. CASE AttemptGate(e)
  BY <1>1 DEF TypeOK, AttemptGate, NoOffer
<1>2. CASE AttemptProvision(e)
  <2>1. wTry[e] \in Attempts
    BY DEF TypeOK
  <2>2. CASE sess' = [sess EXCEPT ![e][wTry[e]] = "provisioning"]
    <3>1. sess' \in [Entries -> [Attempts -> SessStates]]
      BY <2>1, <2>2 DEF TypeOK, SessStates, Alive
    <3>2. /\ wPc' \in [Entries -> WorkerPcs]
          /\ wTry' \in [Entries -> Attempts]
          /\ wSess' \in [Entries -> Attempts \cup {NoAttempt}]
      BY <1>2, <2>1 DEF TypeOK, AttemptProvision
    <3>3. man' \in [Entries -> ManRow] /\ faults' \in Nat
      BY <1>2 DEF TypeOK, AttemptProvision
    <3>. QED
      BY <1>2, <3>1, <3>2, <3>3 DEF TypeOK, AttemptProvision
  <2>3. CASE UNCHANGED sess
    <3>1. /\ wPc' \in [Entries -> WorkerPcs]
          /\ wTry' \in [Entries -> Attempts]
          /\ wSess' \in [Entries -> Attempts \cup {NoAttempt}]
      BY <1>2, <2>1 DEF TypeOK, AttemptProvision
    <3>2. man' \in [Entries -> ManRow] /\ faults' \in Nat
      BY <1>2 DEF TypeOK, AttemptProvision
    <3>. QED
      BY <1>2, <2>3, <3>1, <3>2 DEF TypeOK, AttemptProvision
  <2>. QED
    BY <1>2, <2>2, <2>3 DEF AttemptProvision
<1>3. CASE AttemptRecord(e)
  BY <1>3 DEF TypeOK, AttemptRecord
<1>4. CASE AttemptPoll(e)
  BY <1>4 DEF TypeOK, AttemptPoll, AttemptFails
<1>5. CASE AttemptBench(e)
  BY <1>5 DEF TypeOK, AttemptBench, AttemptFails
<1>6. CASE AttemptSave(e)
  BY <1>6 DEF TypeOK, AttemptSave, AttemptFails
<1>7. CASE AttemptCleanup(e)
  <2>1. sess' \in [Entries -> [Attempts -> SessStates]] /\ faults' \in Nat
    BY <1>7, DestroyedTypes DEF AttemptCleanup, TypeOK
  <2>. QED
    BY <1>7, <2>1 DEF TypeOK, AttemptCleanup
<1>8. CASE EntryFailed(e)
  <2>1. sess' \in [Entries -> [Attempts -> SessStates]] /\ faults' \in Nat
    <3>1. CASE UNCHANGED sess
      BY <1>8, <3>1, DestroyedTypes DEF EntryFailed, TypeOK
    <3>2. CASE Destroyed(e, wSess[e])
      BY <3>2, DestroyedTypes DEF TypeOK
    <3>. QED
      BY <1>8, <3>1, <3>2 DEF EntryFailed
  <2>2. wTry[e] < MaxAttempts => wTry[e] + 1 \in Attempts
    <3>1. wTry[e] \in Attempts
      BY DEF TypeOK
    <3>. QED
      BY ONLY <3>1, AttemptsAssumption DEF Attempts
  <2>. QED
    BY <1>8, <2>1, <2>2 DEF TypeOK, EntryFailed
<1>9. CASE SessionStep(e)
  <2>1. CASE SessionLost(e)
    <3>1. stray' \in BOOLEAN
      BY <2>1 DEF SessionLost
    <3>2. faults' \in Nat
      <4>1. faults \in Nat /\ (faults' = faults \/ faults' = faults + 1)
        BY ONLY TypeOK, <2>1 DEF TypeOK, SessionLost, Fault, NoFault
      <4>. QED
        BY ONLY <4>1
    <3>. QED
      BY <2>1, <3>1, <3>2 DEF TypeOK, SessionLost, wVars
  <2>2. ASSUME NEW a \in Attempts, SessionVerified(e, a) \/ SessionFails(e, a) \/ SessionEnds(e, a)
        PROVE  TypeOK'
    <3>1. sess' \in [Entries -> [Attempts -> SessStates]]
      <4>1. PICK v \in SessStates : sess' = [sess EXCEPT ![e][a] = v]
        BY <2>2 DEF SessionVerified, SessionFails, SessionEnds, SessStates, Alive
      <4>. QED
        BY <4>1 DEF TypeOK
    <3>2. stray' \in BOOLEAN
      BY <2>2 DEF TypeOK, SessionVerified, SessionFails, SessionEnds
    <3>. QED
      BY <2>2, <3>1, <3>2 DEF TypeOK, SessionVerified, SessionFails, SessionEnds, wVars
  <2>. QED
    BY <1>9, <2>1, <2>2 DEF SessionStep
<1>. QED
  BY <1>1, <1>2, <1>3, <1>4, <1>5, <1>6, <1>7, <1>8, <1>9 DEF WorkerStep

LEMMA TypeInit == Init => TypeOK
<1> SUFFICES ASSUME Init PROVE TypeOK
  OBVIOUS
<1>1. stray \in BOOLEAN
  BY DEF Init
<1>. QED
  BY <1>1, AttemptsAssumption
     DEF Init, TypeOK, RunStatuses, ManRow, ManStatuses, NoEntryRow, SessStates, PrPcs, WorkerPcs, Attempts

\* Every variable of a benchmark run keeps its type.
THEOREM BenchmarkTypeCorrect == Spec => []TypeOK
<1>1. Init => TypeOK
  BY TypeInit
<1>2. TypeOK /\ [Next]_benchVars => TypeOK'
  <2>1. CASE UNCHANGED benchVars
    BY <2>1 DEF TypeOK, benchVars, runVars, prVars, wVars
  <2>. QED
    BY <2>1, TypeRun, TypeWorker DEF Next
<1>. QED
  BY <1>1, <1>2, PTL DEF Spec

-----------------------------------------------------------------------------
(* The inductive invariant: who may change which row                       *)

AfterWait == {"list", "sweep", "over"}

\* A row that nobody claimed has no worker.
UnclaimedIdle ==
  \A e \in Entries : man[e].status \in {"absent", "pending"} => wPc[e] = "off"

\* A claimed row that waits for its worker is running and has none yet.
ClaimedIdle == \A e \in prCur : man[e].status = "running" /\ wPc[e] = "off"

\* The worker of a successful row has nothing left to do but to clean up.
SuccessIdle == \A e \in Entries : man[e].status = "success" => wPc[e] \in {"off", "finish"}

\* The workers have returned when processRun has waited for them, and only
\* then is the final status set.
EndedIdle ==
  /\ prPc \in AfterWait => WorkersDone
  /\ run \in {"completed", "failed"} => prPc \in AfterWait

BenchInv == TypeOK /\ UnclaimedIdle /\ ClaimedIdle /\ SuccessIdle /\ EndedIdle

\* A worker's step changes its own row and program counter only, never takes a
\* row back to pending, and reports success only on its way out.
LEMMA WorkerFrame ==
  ASSUME TypeOK, NEW e \in Entries, WorkerStep(e)
  PROVE  /\ wPc[e] # "off"
         /\ UNCHANGED <<run, prPc, prCur>>
         /\ \A f \in Entries \ {e} : wPc'[f] = wPc[f] /\ man'[f] = man[f]
         /\ \/ man'[e].status = man[e].status
            \/ man'[e].status \in {"running", "failed"} /\ wPc[e] \notin {"off", "finish"}
            \/ man'[e].status = "success" /\ wPc'[e] = "finish"
         /\ wPc[e] = "finish" => wPc'[e] = "off"
<1>. DEFINE Frame == \A f \in Entries \ {e} : wPc'[f] = wPc[f] /\ man'[f] = man[f]
<1>1. ASSUME NEW r \in ManRow, ManSet(e, r) \/ ManSetAlways(e, r)
      PROVE  /\ \A f \in Entries \ {e} : man'[f] = man[f]
             /\ man'[e] \in {man[e], r}
  BY <1>1 DEF TypeOK, ManSet, ManSetAlways
<1>2. ASSUME NEW pc, WGo(e, pc)
      PROVE  wPc'[e] = pc /\ \A f \in Entries \ {e} : wPc'[f] = wPc[f]
  BY <1>2 DEF TypeOK, WGo
<1>3. \A st \in ManStatuses : Marked(e, st) \in ManRow /\ Marked(e, st).status = st
  BY DEF TypeOK, Marked, ManRow
<1>4. CASE AttemptGate(e)
  <2>1. "failed" \in ManStatuses
    BY DEF ManStatuses, Ended
  <2>. QED
    BY <1>4, <1>1, <1>2, <1>3, <2>1 DEF AttemptGate, NoOffer, WEnd, runVars, prVars
<1>5. CASE AttemptProvision(e)
  <2>1. "failed" \in ManStatuses
    BY DEF ManStatuses, Ended
  <2>. QED
    BY <1>5, <1>1, <1>2, <1>3, <2>1 DEF AttemptProvision, WEnd, runVars, prVars
<1>6. CASE AttemptRecord(e)
  <2>. DEFINE r == [status |-> "running", sid |-> wSess[e], cost |-> FALSE]
  <2>1. r \in ManRow /\ r.status = "running"
    BY RowTypes
  <2>2. ManSet(e, r) /\ wPc[e] = "record" /\ WGo(e, "poll") /\ UNCHANGED <<run, prPc, prCur>>
    BY <1>6 DEF AttemptRecord, runVars, prVars
  <2>. HIDE DEF r
  <2>. QED
    BY <1>1, <1>2, <2>1, <2>2
<1>7. ASSUME AttemptFails(e)
      PROVE  Frame /\ man'[e].status \in {man[e].status, "failed"} /\ wPc'[e] = "cleanup"
  <2>1. "failed" \in ManStatuses
    BY DEF ManStatuses, Ended
  <2>. QED
    BY <1>7, <1>1, <1>2, <1>3, <2>1 DEF AttemptFails
<1>8. CASE AttemptPoll(e)
  BY <1>8, <1>2, <1>7 DEF AttemptPoll, runVars, prVars
<1>9. CASE AttemptBench(e)
  BY <1>9, <1>2, <1>7 DEF AttemptBench, runVars, prVars
<1>10. CASE AttemptSave(e)
  <2>1. [man[e] EXCEPT !.status = "success", !.cost = TRUE].status = "success"
    BY DEF TypeOK, ManRow
  <2>. QED
    BY <1>10, <1>1, <1>2, <1>7, <2>1, RowTypes DEF AttemptSave, runVars, prVars
<1>11. CASE AttemptCleanup(e)
  BY <1>11, <1>2 DEF AttemptCleanup, WEnd, runVars, prVars
<1>12. CASE EntryFailed(e)
  <2>1. "failed" \in ManStatuses
    BY DEF ManStatuses, Ended
  <2>. QED
    BY <1>12, <1>1, <1>2, <1>3, <2>1 DEF EntryFailed, WEnd, runVars, prVars
<1>. QED
  BY <1>4, <1>5, <1>6, <1>8, <1>9, <1>10, <1>11, <1>12 DEF WorkerStep

\* A step of StartRun, CancelRun or processRun starts at most one worker, that
\* of the claimed row, and changes a row only by creating or claiming it.
LEMMA RunFrame ==
  ASSUME BenchInv, StartRun \/ CancelContext \/ CancelMark \/ RunStep
  PROVE  /\ gate' = gate
         /\ \A e \in Entries : \/ wPc'[e] = wPc[e]
                               \/ e \in prCur /\ wPc'[e] = "gate" /\ prPc = "dispatch"
         /\ \A e \in Entries : \/ man'[e] = man[e]
                               \/ /\ man[e].status = "absent" /\ prCur = {}
                                  /\ man'[e].status \in {"absent", "pending"}
                               \/ man[e].status = "pending" /\ man'[e].status = "running" /\ prPc = "claim"
<1>1. CASE StartRun
  <2>1. prCur = {}
    BY <1>1 DEF StartRun, BenchInv, ClaimedIdle, NoEntryRow, TypeOK
  <2>. QED
    BY <1>1, <2>1 DEF StartRun, NoEntryRow, PendingRow, wVars
<1>2. ASSUME NEW e \in Entries, RunClaim(e)
      PROVE  /\ UNCHANGED <<gate, wPc>>
             /\ \A f \in Entries : \/ man'[f] = man[f]
                                   \/ /\ man[f].status = "pending" /\ man'[f].status = "running"
                                      /\ prPc = "claim"
  <2>1. Marked(e, "running").status = "running"
    BY DEF BenchInv, TypeOK, Marked, ManRow
  <2>. QED
    BY <1>2, <2>1 DEF RunClaim, BenchInv, TypeOK, wVars
<1>3. ASSUME NEW e \in Entries, RunDispatch(e)
      PROVE  /\ UNCHANGED <<gate, man>>
             /\ \A f \in Entries : \/ wPc'[f] = wPc[f]
                                   \/ f \in prCur /\ wPc'[f] = "gate" /\ prPc = "dispatch"
  BY <1>3 DEF RunDispatch, BenchInv, TypeOK, WGo, wVars
<1>4. CASE UNCHANGED <<wVars, gate, man>>
  BY <1>4 DEF wVars
<1>. QED
  BY <1>1, <1>2, <1>3, <1>4 DEF CancelContext, CancelMark, RunStep, RunBegin, RunLoop, RunFetch,
     RunIdle, RunPause, RunFinish, RunCancelled, RunList, RunOver, RunSweep

\* A step of processRun keeps the part of EndedIdle about processRun itself.
LEMMA EndedRun ==
  ASSUME BenchInv, StartRun \/ CancelContext \/ CancelMark \/ RunStep
  PROVE  EndedIdle'
<1>1. CASE \E e \in Entries : RunDispatch(e)
  BY <1>1 DEF BenchInv, EndedIdle, AfterWait, RunDispatch, runVars
<1>2. CASE UNCHANGED wPc
  <2>1. WorkersDone => WorkersDone'
    BY <1>2 DEF WorkersDone
  <2>2. prPc' \in AfterWait => WorkersDone \/ prPc \in AfterWait \/ StartRun
    BY <1>2 DEF StartRun, CancelContext, CancelMark, RunStep, RunBegin, RunLoop, RunFetch, RunIdle,
       RunPause, RunFinish, RunCancelled, RunList, RunOver, RunClaim, RunDispatch, RunSweep, AfterWait, prVars
  <2>3. StartRun => WorkersDone
    BY DEF StartRun, BenchInv, UnclaimedIdle, NoEntryRow, WorkersDone
  <2>4. run' \in {"completed", "failed"} => prPc' \in AfterWait
    BY DEF BenchInv, EndedIdle, StartRun, CancelContext, CancelMark, RunStep, RunBegin, RunLoop,
       RunFetch, RunIdle, RunPause, RunFinish, RunCancelled, RunList, RunOver, RunClaim, RunDispatch,
       RunSweep, AfterWait, runVars, prVars
  <2>. QED
    BY <2>1, <2>2, <2>3, <2>4 DEF BenchInv, EndedIdle
<1>. QED
  BY <1>1, <1>2 DEF StartRun, CancelContext, CancelMark, RunStep, RunBegin, RunLoop, RunFetch, RunIdle,
     RunPause, RunFinish, RunCancelled, RunList, RunOver, RunClaim, RunSweep, wVars

LEMMA InvRun ==
  ASSUME BenchInv, StartRun \/ CancelContext \/ CancelMark \/ RunStep
  PROVE  BenchInv'
<1>1. TypeOK'
  BY TypeRun DEF BenchInv
<1>2. prCur' \subseteq prCur \/ \E e \in Entries : RunClaim(e)
  BY DEF StartRun, CancelContext, CancelMark, RunStep, RunBegin, RunLoop, RunFetch, RunIdle,
     RunPause, RunFinish, RunCancelled, RunList, RunOver, RunDispatch, RunSweep, prVars
<1>3. UnclaimedIdle'
  BY RunFrame DEF BenchInv, UnclaimedIdle, ClaimedIdle
<1>4. ClaimedIdle'
  <2>1. ASSUME NEW e \in Entries, RunClaim(e)
        PROVE  ClaimedIdle'
    <3>1. UNCHANGED wPc
      BY <2>1 DEF RunClaim, wVars
    <3>2. CASE prCur' = {e} /\ man[e].status = "pending" /\ man' = [man EXCEPT ![e] = Marked(e, "running")]
      <4>1. Marked(e, "running").status = "running"
        BY DEF BenchInv, TypeOK, Marked, ManRow
      <4>2. man'[e].status = "running"
        BY <3>2, <4>1 DEF BenchInv, TypeOK
      <4>. QED
        BY <3>1, <3>2, <4>2 DEF BenchInv, UnclaimedIdle, ClaimedIdle
    <3>3. CASE UNCHANGED <<man, prCur>>
      BY <3>1, <3>3 DEF BenchInv, ClaimedIdle
    <3>. QED
      BY <2>1, <3>2, <3>3 DEF RunClaim
  <2>2. ASSUME NEW e \in Entries, RunDispatch(e)
        PROVE  ClaimedIdle'
    BY <2>2 DEF RunDispatch, ClaimedIdle
  <2>3. CASE prCur' \subseteq prCur /\ UNCHANGED wPc /\ \A e \in Entries : ~RunClaim(e)
    <3>1. \A e \in prCur : e \in Entries /\ man[e].status = "running"
      BY DEF BenchInv, TypeOK, ClaimedIdle
    <3>2. \A e \in prCur : man'[e] = man[e]
      BY <3>1, RunFrame
    <3>. QED
      BY <2>3, <3>2 DEF BenchInv, ClaimedIdle
  <2>4. UNCHANGED wPc \/ \E e \in Entries : RunDispatch(e)
    BY DEF StartRun, CancelContext, CancelMark, RunStep, RunBegin, RunLoop, RunFetch, RunIdle,
       RunPause, RunFinish, RunCancelled, RunList, RunOver, RunClaim, RunSweep, wVars
  <2>. QED
    BY <1>2, <2>1, <2>2, <2>3, <2>4
<1>5. SuccessIdle'
  BY RunFrame DEF BenchInv, SuccessIdle, ClaimedIdle
<1>. QED
  BY <1>1, <1>3, <1>4, <1>5, EndedRun DEF BenchInv

LEMMA InvWorker ==
  ASSUME BenchInv, NEW e \in Entries, WorkerStep(e)
  PROVE  BenchInv'
<1>1. TypeOK'
  BY TypeWorker DEF BenchInv
<1>2. /\ wPc[e] # "off"
      /\ UNCHANGED <<run, prPc, prCur>>
      /\ \A f \in Entries \ {e} : wPc'[f] = wPc[f] /\ man'[f] = man[f]
      /\ \/ man'[e].status = man[e].status
         \/ man'[e].status \in {"running", "failed"} /\ wPc[e] \notin {"off", "finish"}
         \/ man'[e].status = "success" /\ wPc'[e] = "finish"
      /\ wPc[e] = "finish" => wPc'[e] = "off"
  BY WorkerFrame DEF BenchInv
<1>3. UnclaimedIdle'
  BY <1>2 DEF BenchInv, UnclaimedIdle
<1>4. ClaimedIdle'
  BY <1>2 DEF BenchInv, ClaimedIdle, TypeOK
<1>5. SuccessIdle'
  BY <1>2 DEF BenchInv, SuccessIdle
<1>6. EndedIdle'
  BY <1>2 DEF BenchInv, EndedIdle, WorkersDone
<1>. QED
  BY <1>1, <1>3, <1>4, <1>5, <1>6 DEF BenchInv

LEMMA InvSession ==
  ASSUME BenchInv, NEW e \in Entries, SessionStep(e)
  PROVE  BenchInv'
<1>1. TypeOK'
  BY TypeWorker DEF BenchInv
<1>. QED
  BY <1>1 DEF SessionStep, SessionLost, SessionVerified, SessionFails, SessionEnds, BenchInv, UnclaimedIdle, ClaimedIdle, SuccessIdle, EndedIdle, WorkersDone,
     runVars, prVars, wVars

LEMMA InvNext ==
  ASSUME BenchInv, [Next]_benchVars
  PROVE  BenchInv'
<1>1. CASE UNCHANGED benchVars
  BY <1>1 DEF BenchInv, TypeOK, UnclaimedIdle, ClaimedIdle, SuccessIdle, EndedIdle, WorkersDone,
     benchVars, runVars, prVars, wVars
<1>. QED
  BY <1>1, InvRun, InvWorker, InvSession DEF Next

LEMMA InitInv == Init => BenchInv
<1>1. Init => TypeOK
  BY TypeInit
<1>. QED
  BY <1>1 DEF Init, BenchInv, UnclaimedIdle, ClaimedIdle, SuccessIdle, EndedIdle, AfterWait, NoEntryRow

\* The inductive invariant holds in every state of a run.
THEOREM BenchInvAlways == Spec => []BenchInv
BY InitInv, InvNext, PTL DEF Spec

-----------------------------------------------------------------------------
(* The gate                                                                *)

\* A step of the worker of e that stays on its side of the gate, enters a gate
\* that was free, or leaves and frees it.
LEMMA GateMoves ==
  ASSUME TypeOK, NEW e \in Entries, WorkerStep(e)
  PROVE  \/ gate' = gate /\ (wPc'[e] \in GatePcs <=> wPc[e] \in GatePcs)
         \/ gate = 0 /\ gate' = 1 /\ wPc[e] \notin GatePcs /\ wPc'[e] \in GatePcs
         \/ gate' = 0 /\ wPc[e] \in GatePcs /\ wPc'[e] \notin GatePcs
<1>1. ASSUME NEW pc, WGo(e, pc)
      PROVE  wPc'[e] = pc
  BY <1>1 DEF TypeOK, WGo
<1>2. CASE AttemptGate(e) \/ AttemptProvision(e) \/ AttemptRecord(e)
  BY <1>1, <1>2 DEF AttemptGate, NoOffer, AttemptProvision, AttemptRecord, WEnd, GatePcs
<1>3. CASE AttemptPoll(e) \/ AttemptBench(e) \/ AttemptSave(e)
  BY <1>1, <1>3 DEF AttemptPoll, AttemptBench, AttemptSave, AttemptFails, GatePcs
<1>4. CASE AttemptCleanup(e) \/ EntryFailed(e)
  BY <1>1, <1>4 DEF AttemptCleanup, EntryFailed, WEnd, GatePcs
<1>. QED
  BY <1>2, <1>3, <1>4 DEF WorkerStep

\* At any number of entries, at most one worker is provisioning, and the gate
\* is taken exactly while one is: no path of an attempt loses it.
THEOREM GateExclusiveAlways == Spec => []GateExclusive
<1>1. Init => GateExclusive
  BY DEF Init, GateExclusive, GatePcs
<1>2. BenchInv /\ GateExclusive /\ [Next]_benchVars => GateExclusive'
  <2>. SUFFICES ASSUME BenchInv, GateExclusive, [Next]_benchVars
                PROVE  GateExclusive'
    OBVIOUS
  <2>1. CASE StartRun \/ CancelContext \/ CancelMark \/ RunStep
    <3>1. gate' = gate /\ \A e \in Entries : wPc'[e] \in GatePcs <=> wPc[e] \in GatePcs
      BY <2>1, RunFrame DEF BenchInv, ClaimedIdle, GatePcs
    <3>. QED
      BY <3>1 DEF GateExclusive
  <2>2. ASSUME NEW e \in Entries, WorkerStep(e)
        PROVE  GateExclusive'
    <3>1. \A f \in Entries \ {e} : wPc'[f] = wPc[f]
      BY <2>2, WorkerFrame DEF BenchInv
    <3>. QED
      BY <2>2, <3>1, GateMoves DEF BenchInv, GateExclusive
  <2>3. CASE UNCHANGED <<wPc, gate>>
    BY <2>3 DEF GateExclusive
  <2>. QED
    BY <2>1, <2>2, <2>3 DEF Next, SessionStep, SessionLost, SessionVerified, SessionFails, SessionEnds, benchVars, wVars
<1>. QED
  BY <1>1, <1>2, BenchInvAlways, PTL DEF Spec

-----------------------------------------------------------------------------
(* What the manifest and the status of the run say                         *)

\* A run shown as completed or failed, no call having failed, has nothing
\* pending or running.
THEOREM EndedMeansDoneAlways == Spec => []EndedMeansDone
<1>1. Init => EndedMeansDone
  BY DEF Init, EndedMeansDone
<1>2. BenchInv /\ EndedMeansDone /\ [Next]_benchVars => EndedMeansDone'
  <2>. SUFFICES ASSUME BenchInv, EndedMeansDone, [Next]_benchVars,
                       run' \in {"completed", "failed"}, faults' = 0
                PROVE  \A e \in Entries : man'[e].status \notin {"pending", "running"}
    BY DEF EndedMeansDone, InStatus
  <2>1. ~Fault
    BY DEF Fault, BenchInv, TypeOK
  <2>2. CASE RunFinish
    BY <2>1, <2>2 DEF RunFinish, FinalStatus, InStatus, EndedMeansDone, NoFault
  <2>3. faults' = faults
    <3>1. CASE StartRun \/ CancelContext \/ CancelMark \/ RunStep
      BY <2>1, <3>1 DEF StartRun, CancelContext, CancelMark, RunStep, RunBegin, RunLoop, RunFetch,
         RunIdle, RunPause, RunFinish, RunCancelled, RunList, RunOver, RunClaim, RunDispatch, RunSweep,
         Destroyed, NoFault
    <3>2. ASSUME NEW e \in Entries, WorkerStep(e)
          PROVE  faults' = faults
      BY <2>1, <3>2 DEF WorkerStep, AttemptGate, NoOffer, AttemptProvision, AttemptRecord, AttemptPoll,
         AttemptBench, AttemptSave, AttemptFails, AttemptCleanup, EntryFailed, ManSet, ManSetAlways,
         Destroyed, NoFault
    <3>3. ASSUME NEW e \in Entries, SessionStep(e)
          PROVE  faults' = faults
      BY <2>1, <3>3 DEF SessionStep, SessionLost, SessionVerified, SessionFails, SessionEnds, NoFault
    <3>. QED
      BY <3>1, <3>2, <3>3 DEF Next, benchVars
  <2>4. CASE run' = run
    <3>1. /\ prPc \in AfterWait
          /\ \A e \in Entries : wPc[e] = "off" /\ man[e].status \notin {"pending", "running"}
      BY <2>3, <2>4 DEF BenchInv, EndedIdle, WorkersDone, EndedMeansDone, InStatus
    <3>2. \A e \in Entries : ~WorkerStep(e)
      BY <3>1, WorkerFrame DEF BenchInv
    <3>3. UNCHANGED man
      <4>1. CASE StartRun \/ CancelContext \/ CancelMark \/ RunStep
        BY <3>1, <4>1 DEF AfterWait, StartRun, CancelContext, CancelMark, RunStep, RunBegin, RunLoop,
           RunFetch, RunIdle, RunPause, RunFinish, RunCancelled, RunList, RunOver, RunClaim,
           RunDispatch, RunSweep
      <4>. QED
        BY <3>2, <4>1 DEF Next, SessionStep, SessionLost, SessionVerified, SessionFails, SessionEnds, benchVars
    <3>. QED
      BY <3>1, <3>3
  <2>5. run' = run \/ RunFinish
    <3>1. CASE StartRun \/ CancelContext \/ CancelMark \/ RunStep
      BY <2>1, <3>1 DEF StartRun, CancelContext, CancelMark, RunStep, RunBegin, RunLoop, RunFetch,
         RunIdle, RunPause, RunCancelled, RunList, RunOver, RunClaim, RunDispatch, RunSweep, runVars
    <3>. QED
      BY <3>1, WorkerFrame DEF Next, SessionStep, SessionLost, SessionVerified, SessionFails, SessionEnds, benchVars, runVars, BenchInv
  <2>. QED
    BY <2>2, <2>4, <2>5
<1>. QED
  BY <1>1, <1>2, BenchInvAlways, PTL DEF Spec

\* A successful row is never overwritten.
THEOREM SuccessIsFinalAlways == Spec => SuccessIsFinal
<1>1. BenchInv /\ [Next]_benchVars
        => \A e \in Entries : man[e].status = "success" => man'[e].status = "success"
  <2>. SUFFICES ASSUME BenchInv, [Next]_benchVars, NEW e \in Entries, man[e].status = "success"
                PROVE  man'[e].status = "success"
    OBVIOUS
  <2>1. CASE StartRun \/ CancelContext \/ CancelMark \/ RunStep
    BY <2>1, RunFrame
  <2>2. ASSUME NEW f \in Entries, WorkerStep(f)
        PROVE  man'[e].status = "success"
    BY <2>2, WorkerFrame DEF BenchInv, SuccessIdle
  <2>3. CASE UNCHANGED man
    BY <2>3
  <2>. QED
    BY <2>1, <2>2, <2>3 DEF Next, SessionStep, SessionLost, SessionVerified, SessionFails, SessionEnds, benchVars
<1>. QED
  BY <1>1, BenchInvAlways, PTL DEF Spec, SuccessIsFinal

-----------------------------------------------------------------------------
(* No session is left behind                                               *)

InHand == {"record", "poll", "bench", "save", "cleanup", "finish"}

\* The failures after which nothing is promised any more.
TooMany == faults > IF Cancelled THEN 0 ELSE 1

\* The worker of e has the session of attempt a in hand.
Held(e, a) == wPc[e] \in InHand /\ wSess[e] = a

\* Its destroy call was the one that failed, and the worker's next attempt or
\* cleanupRunSessions, by way of the manifest, will call again.
Owed(e, a) ==
  /\ faults = 1 /\ man[e].sid = a
  /\ wPc[e] = "off" \/ (wPc[e] = "failed" /\ wSess[e] = a)
  /\ prPc = "sweep" => e \in prTodo
  /\ prPc # "over"

Accounted ==
  ~TooMany => \A e \in Entries, a \in Attempts :
                sess[e][a] \in Alive => Held(e, a) \/ Owed(e, a)

\* Unless a call failed, the manifest has the session that is in hand.
Recorded ==
  faults = 0 /\ ~Cancelled =>
    \A e \in Entries : wPc[e] \in InHand \ {"record"} => man[e].sid = wSess[e]

\* A row without a worker so far has no session.
Fresh ==
  \A e \in Entries :
    man[e].status \in {"absent", "pending"} \/ e \in prCur => man[e].sid = NoAttempt

LeftInv == BenchInv /\ Fresh /\ Recorded /\ Accounted

\* Failures are counted, and a context stays cancelled.
LEMMA Counted ==
  ASSUME TypeOK, [Next]_benchVars
  PROVE  /\ faults' = faults \/ faults' = faults + 1
         /\ Cancelled => Cancelled'
         /\ ~TooMany' => ~TooMany
<1>1. faults \in Nat
  BY DEF TypeOK
<1>2. faults' = faults \/ Fault
  <2>1. CASE StartRun \/ CancelContext \/ CancelMark \/ RunStep
    BY <2>1 DEF StartRun, CancelContext, CancelMark, RunStep, RunBegin, RunLoop, RunFetch,
       RunIdle, RunPause, RunFinish, RunCancelled, RunList, RunOver, RunClaim, RunDispatch,
       RunSweep, Destroyed, NoFault
  <2>2. ASSUME NEW e \in Entries, WorkerStep(e)
        PROVE  faults' = faults \/ Fault
    BY <2>2 DEF WorkerStep, AttemptGate, NoOffer, AttemptProvision, AttemptRecord, AttemptPoll,
       AttemptBench, AttemptSave, AttemptFails, AttemptCleanup, EntryFailed, ManSet,
       ManSetAlways, Destroyed, NoFault
  <2>3. ASSUME NEW e \in Entries, SessionStep(e)
        PROVE  faults' = faults \/ Fault
    BY <2>3 DEF SessionStep, SessionLost, SessionVerified, SessionFails, SessionEnds, NoFault
  <2>. QED
    BY <2>1, <2>2, <2>3 DEF Next, benchVars
<1>3. ctx' = ctx \/ ctx' = "done"
  <2>1. CASE StartRun \/ CancelContext \/ CancelMark \/ RunStep
    BY <2>1 DEF StartRun, CancelContext, CancelMark, RunStep, RunBegin, RunLoop, RunFetch,
       RunIdle, RunPause, RunFinish, RunCancelled, RunList, RunOver, RunClaim, RunDispatch,
       RunSweep, runVars
  <2>2. ASSUME NEW e \in Entries, WorkerStep(e)
        PROVE  ctx' = ctx
    BY <2>2 DEF WorkerStep, AttemptGate, NoOffer, AttemptProvision, AttemptRecord, AttemptPoll,
       AttemptBench, AttemptSave, AttemptCleanup, EntryFailed, runVars
  <2>. QED
    BY <2>1, <2>2 DEF Next, SessionStep, SessionLost, SessionVerified, SessionFails, SessionEnds, benchVars, runVars
<1>4. faults' = faults \/ faults' = faults + 1
  BY <1>2 DEF Fault
<1>5. Cancelled => Cancelled'
  BY <1>3 DEF Cancelled
<1>. QED
  BY <1>1, <1>4, <1>5 DEF TooMany

\* The session of e that is destroyed, or a failure.
Ends(e, a) ==
  \/ /\ a \in Attempts => sess'[e][a] = "over"
     /\ \A b \in Attempts \ {a} : sess'[e][b] = sess[e][b]
     /\ \A f \in Entries \ {e} : sess'[f] = sess[f]
     /\ faults' = faults
  \/ sess' = sess /\ faults' = faults + 1

LEMMA DestroyedEnds ==
  ASSUME TypeOK, NEW e \in Entries, NEW a, Destroyed(e, a)
  PROVE  Ends(e, a)
<1>1. CASE sess' = [sess EXCEPT ![e][a] = "over"] /\ NoFault
  BY <1>1 DEF TypeOK, Ends, NoFault
<1>2. CASE UNCHANGED sess /\ Fault
  BY <1>2 DEF Ends, Fault
<1>. QED
  BY <1>1, <1>2 DEF Destroyed

\* What a step of the worker of e does to its sessions.
Looks(e) ==
  /\ wPc[e] \in {"gate", "provision"} /\ wPc'[e] \in {"provision", "off", "failed"}
  /\ sess' = sess
Creates(e) ==
  /\ wPc[e] = "provision" /\ wPc'[e] = "record"
  /\ wSess'[e] = wTry[e] /\ faults' = faults /\ man' = man
  /\ \A b \in Attempts \ {wTry[e]} : sess'[e][b] = sess[e][b]
  /\ \A f \in Entries \ {e} : sess'[f] = sess[f]
Works(e) ==
  /\ wPc[e] \in InHand \ {"cleanup", "finish"} /\ wPc'[e] \in InHand \ {"record"}
  /\ sess' = sess /\ wSess'[e] = wSess[e]
  /\ \/ wPc[e] # "record" /\ man'[e].sid = man[e].sid
     \/ man'[e].sid = wSess[e] \/ Cancelled \/ faults' = faults + 1
CleansUp(e) ==
  /\ wPc[e] \in {"cleanup", "finish"} /\ man' = man
  /\ wPc'[e] = "off" \/ (wPc'[e] = "failed" /\ wSess'[e] = wSess[e])
  /\ Ends(e, wSess[e])
GivesUp(e) ==
  /\ wPc[e] = "failed" /\ wPc'[e] = "off" /\ sess' = sess
  /\ man'[e].sid = man[e].sid
Retries(e) ==
  /\ wPc[e] = "failed" /\ wPc'[e] = "gate" /\ man' = man
  /\ Ends(e, wSess[e]) \/ (wSess[e] = NoAttempt /\ sess' = sess)

LEMMA WorkerMoves ==
  ASSUME TypeOK, NEW e \in Entries, WorkerStep(e)
  PROVE  /\ Looks(e) \/ Creates(e) \/ Works(e) \/ CleansUp(e) \/ GivesUp(e) \/ Retries(e)
         /\ \A f \in Entries \ {e} : wSess'[f] = wSess[f] /\ sess'[f] = sess[f]
         /\ UNCHANGED <<ctx, prTodo>>
<1>1. ASSUME NEW pc, WGo(e, pc) PROVE wPc'[e] = pc
  BY <1>1 DEF TypeOK, WGo
<1>2. ASSUME NEW a, NEW b, WAttempt(e, a, b)
      PROVE  wSess'[e] = b /\ \A f \in Entries \ {e} : wSess'[f] = wSess[f]
  BY <1>2 DEF TypeOK, WAttempt
<1>3. \A st : Marked(e, st).sid = man[e].sid
  BY DEF TypeOK, Marked, ManRow
<1>4. ASSUME NEW r, ManSet(e, r)
      PROVE  \/ man'[e] = r
             \/ man' = man /\ (Cancelled \/ faults' = faults + 1)
  BY <1>4 DEF TypeOK, ManSet, Fault
<1>5. ASSUME NEW st, ManSet(e, Marked(e, st)) \/ ManSetAlways(e, Marked(e, st))
      PROVE  man'[e].sid = man[e].sid
  <2> DEFINE r == Marked(e, st)
  <2>1. man'[e] = man[e] \/ man'[e] = r
    <3> HIDE DEF r
    <3>1. ManSet(e, r) \/ ManSetAlways(e, r)
      BY <1>5 DEF r
    <3>. QED
      BY <3>1 DEF TypeOK, ManSet, ManSetAlways
  <2>. QED
    BY <1>3, <2>1
<1>6. CASE AttemptGate(e)
  BY <1>1, <1>2, <1>6 DEF AttemptGate, NoOffer, WEnd, Looks, runVars, prVars
<1>7. CASE AttemptProvision(e)
  <2>1. UNCHANGED <<ctx, prTodo>> /\ wPc[e] = "provision"
    BY <1>7 DEF AttemptProvision, runVars, prVars
  <2>2. CASE WGo(e, "failed") /\ UNCHANGED <<wTry, wSess, sess>>
    BY <1>1, <2>1, <2>2 DEF Looks
  <2>3. CASE /\ sess' = [sess EXCEPT ![e][wTry[e]] = "provisioning"]
             /\ WGo(e, "record") /\ WAttempt(e, wTry[e], wTry[e])
             /\ UNCHANGED <<man, gate, faults>>
    <3>1. /\ \A b \in Attempts \ {wTry[e]} : sess'[e][b] = sess[e][b]
          /\ \A f \in Entries \ {e} : sess'[f] = sess[f]
      BY <2>3 DEF TypeOK
    <3>. QED
      BY <1>1, <1>2, <2>1, <2>3, <3>1 DEF Creates
  <2>. QED
    BY <1>7, <2>2, <2>3 DEF AttemptProvision
<1>8. CASE AttemptRecord(e)
  <2> DEFINE r == [status |-> "running", sid |-> wSess[e], cost |-> FALSE]
  <2>1. /\ ManSet(e, r) /\ wPc[e] = "record" /\ WGo(e, "poll")
        /\ UNCHANGED <<sess, wSess, ctx, prTodo>>
    BY <1>8 DEF AttemptRecord, runVars, prVars
  <2>2. r.sid = wSess[e]
    OBVIOUS
  <2> HIDE DEF r
  <2>3. wPc'[e] = "poll"
    BY <1>1, <2>1
  <2>4. man'[e].sid = wSess[e] \/ Cancelled \/ faults' = faults + 1
    BY <1>4, <2>1, <2>2
  <2>. QED
    BY <2>1, <2>3, <2>4 DEF Works, InHand
<1>9. ASSUME AttemptFails(e)
      PROVE  man'[e].sid = man[e].sid /\ wPc'[e] = "cleanup"
  BY <1>1, <1>5, <1>9 DEF AttemptFails
<1>10. CASE AttemptPoll(e) \/ AttemptBench(e)
  <2>1. /\ wPc[e] \in {"poll", "bench"} /\ UNCHANGED <<sess, wSess, ctx, prTodo>>
        /\ \/ AttemptFails(e)
           \/ WGo(e, "bench") /\ man' = man
           \/ WGo(e, "save") /\ man' = man
    BY <1>10 DEF AttemptPoll, AttemptBench, runVars, prVars
  <2>2. man'[e].sid = man[e].sid /\ wPc'[e] \in {"cleanup", "bench", "save"}
    BY <1>1, <1>9, <2>1
  <2>. QED
    BY <2>1, <2>2 DEF Works, InHand
<1>11. CASE AttemptSave(e)
  <2> DEFINE r == [man[e] EXCEPT !.status = "success", !.cost = TRUE]
  <2>1. /\ wPc[e] = "save" /\ UNCHANGED <<sess, wSess, ctx, prTodo>>
        /\ \/ AttemptFails(e)
           \/ ManSet(e, r) /\ WGo(e, "finish")
    BY <1>11 DEF AttemptSave, runVars, prVars
  <2>2. r.sid = man[e].sid
    BY DEF TypeOK, ManRow
  <2> HIDE DEF r
  <2>3. ManSet(e, r) => man'[e] = r \/ man'[e] = man[e]
    BY <1>4
  <2>4. man'[e].sid = man[e].sid /\ wPc'[e] \in {"cleanup", "finish"}
    BY <1>1, <1>9, <2>1, <2>2, <2>3
  <2>. QED
    BY <2>1, <2>4 DEF Works, InHand
<1>12. CASE AttemptCleanup(e)
  <2>1. /\ wPc[e] \in {"cleanup", "finish"} /\ Destroyed(e, wSess[e])
        /\ UNCHANGED <<man, ctx, prTodo>>
        /\ (WGo(e, "failed") /\ UNCHANGED <<wTry, wSess>>) \/ WEnd(e)
    BY <1>12 DEF AttemptCleanup, runVars, prVars
  <2>2. Ends(e, wSess[e])
    BY <2>1, DestroyedEnds
  <2>3. \A f \in Entries \ {e} : wSess'[f] = wSess[f] /\ sess'[f] = sess[f]
    BY <1>2, <2>1, <2>2 DEF WEnd, Ends
  <2>. QED
    BY <1>1, <2>1, <2>2, <2>3 DEF CleansUp, WEnd
<1>13. CASE EntryFailed(e)
  <2>1. wPc[e] = "failed" /\ UNCHANGED <<ctx, prTodo>>
    BY <1>13 DEF EntryFailed, runVars, prVars
  <2>2. CASE ManSetAlways(e, Marked(e, "failed")) /\ WEnd(e) /\ UNCHANGED sess
    BY <1>1, <1>2, <1>5, <2>1, <2>2 DEF WEnd, GivesUp
  <2>3. CASE /\ IF wSess[e] # NoAttempt THEN Destroyed(e, wSess[e])
                ELSE UNCHANGED <<sess, faults>>
             /\ WGo(e, "gate") /\ WAttempt(e, wTry[e] + 1, NoAttempt)
             /\ UNCHANGED man
    <3>1. Ends(e, wSess[e]) \/ (wSess[e] = NoAttempt /\ sess' = sess)
      BY <2>3, DestroyedEnds
    <3>2. \A f \in Entries \ {e} : wSess'[f] = wSess[f] /\ sess'[f] = sess[f]
      BY <1>2, <2>3, <3>1 DEF Ends
    <3>. QED
      BY <1>1, <2>1, <2>3, <3>1, <3>2 DEF Retries
  <2>. QED
    BY <1>13, <2>2, <2>3 DEF EntryFailed
<1>. QED
  BY <1>6, <1>7, <1>8, <1>10, <1>11, <1>12, <1>13 DEF WorkerStep

\* A step of StartRun, CancelRun or processRun never changes the session id of
\* a row, and the rows it creates or claims have none.
LEMMA RunRows ==
  ASSUME BenchInv, Fresh, StartRun \/ CancelContext \/ CancelMark \/ RunStep
  PROVE  /\ \A e \in Entries : man'[e].sid = man[e].sid
         /\ Fresh'
         /\ \A e \in Entries : wSess'[e] = wSess[e] \/ wPc'[e] = "gate"
<1>1. /\ man \in [Entries -> ManRow] /\ prCur \subseteq Entries
      /\ wPc \in [Entries -> WorkerPcs]
      /\ wSess \in [Entries -> Attempts \cup {NoAttempt}]
  BY DEF BenchInv, TypeOK
<1>2. CASE StartRun
  <2>1. prCur' = prCur /\ wSess' = wSess /\ \A e \in Entries : man[e].sid = NoAttempt
    BY <1>2 DEF StartRun, NoEntryRow, wVars
  <2>2. \A e \in Entries : man'[e] \in {PendingRow, NoEntryRow}
    BY <1>2 DEF StartRun
  <2>3. PendingRow.sid = NoAttempt /\ NoEntryRow.sid = NoAttempt
    BY DEF PendingRow, NoEntryRow
  <2>4. \A e \in Entries : man'[e].sid = NoAttempt
    BY <2>2, <2>3
  <2>. QED
    BY <2>1, <2>4 DEF Fresh
<1>3. ASSUME NEW e \in Entries, RunClaim(e)
      PROVE  /\ \A f \in Entries : man'[f].sid = man[f].sid
             /\ Fresh' /\ wSess' = wSess
  <2>1. CASE /\ man[e].status = "pending"
             /\ man' = [man EXCEPT ![e] = Marked(e, "running")]
             /\ prCur' = {e}
    <3> DEFINE r == Marked(e, "running")
    <3>1. r.sid = man[e].sid /\ r.status = "running"
      BY <1>1 DEF Marked, ManRow
    <3> HIDE DEF r
    <3>2. man' = [man EXCEPT ![e] = r]
      BY <2>1 DEF r
    <3>3. \A f \in Entries : man'[f].sid = man[f].sid
      BY <1>1, <3>1, <3>2
    <3>4. \A f \in Entries \ {e} : man'[f] = man[f]
      BY <1>1, <3>2
    <3>5. man'[e].sid = NoAttempt
      BY <2>1, <3>3 DEF Fresh
    <3>6. Fresh'
      BY <2>1, <3>4, <3>5 DEF Fresh
    <3>. QED
      BY <1>3, <3>3, <3>6 DEF RunClaim, wVars
  <2>2. CASE UNCHANGED <<man, prCur>>
    BY <1>3, <2>2 DEF RunClaim, wVars, Fresh
  <2>. QED
    BY <1>3, <2>1, <2>2 DEF RunClaim
<1>4. ASSUME NEW e \in Entries, RunDispatch(e)
      PROVE  /\ man' = man /\ Fresh'
             /\ \A f \in Entries : wSess'[f] = wSess[f] \/ wPc'[f] = "gate"
  <2>1. man' = man /\ prCur' = {}
    BY <1>4 DEF RunDispatch
  <2>2. \A f \in Entries : wSess'[f] = wSess[f] \/ wPc'[f] = "gate"
    BY <1>1, <1>4 DEF RunDispatch, WGo, WAttempt, wVars
  <2>. QED
    BY <2>1, <2>2 DEF Fresh
<1>5. CASE UNCHANGED <<man, prCur, wSess>>
  BY <1>5 DEF Fresh
<1>. QED
  BY <1>2, <1>3, <1>4, <1>5
  DEF CancelContext, CancelMark, RunStep, RunBegin, RunLoop, RunFetch, RunIdle, RunPause,
      RunFinish, RunCancelled, RunList, RunOver, RunSweep, prVars, wVars

LEMMA FreshStep ==
  ASSUME BenchInv, Fresh, [Next]_benchVars
  PROVE  Fresh'
<1>1. CASE StartRun \/ CancelContext \/ CancelMark \/ RunStep
  BY <1>1, RunRows
<1>2. ASSUME NEW e \in Entries, WorkerStep(e)
      PROVE  Fresh'
  <2>1. /\ wPc[e] # "off" /\ prCur' = prCur
        /\ \A f \in Entries \ {e} : man'[f] = man[f]
        /\ \/ man'[e].status = man[e].status
           \/ man'[e].status \in {"running", "failed", "success"}
    BY <1>2, WorkerFrame DEF BenchInv
  <2>2. e \notin prCur /\ man'[e].status \notin {"absent", "pending"}
    BY <2>1 DEF BenchInv, UnclaimedIdle, ClaimedIdle
  <2>. QED
    BY <2>1, <2>2 DEF Fresh
<1>3. CASE UNCHANGED <<man, prCur>>
  BY <1>3 DEF Fresh
<1>. QED
  BY <1>1, <1>2, <1>3 DEF Next, SessionStep, SessionLost, SessionVerified, SessionFails, SessionEnds, benchVars, prVars

LEMMA RecordedStep ==
  ASSUME BenchInv, Fresh, Recorded, [Next]_benchVars
  PROVE  Recorded'
<1>1. SUFFICES ASSUME faults' = 0, ~Cancelled', NEW f \in Entries,
                      wPc'[f] \in InHand \ {"record"}
               PROVE  man'[f].sid = wSess'[f]
  BY DEF Recorded
<1>2. faults = 0 /\ ~Cancelled /\ faults' # faults + 1
  BY <1>1, Counted DEF BenchInv, TypeOK
<1>3. wPc[f] \in InHand \ {"record"} => man[f].sid = wSess[f]
  BY <1>2 DEF Recorded
<1>4. CASE StartRun \/ CancelContext \/ CancelMark \/ RunStep
  <2>1. wPc'[f] = wPc[f] /\ wSess'[f] = wSess[f] /\ man'[f].sid = man[f].sid
    BY <1>1, <1>4, RunFrame, RunRows DEF InHand
  <2>. QED
    BY <1>1, <1>3, <2>1
<1>5. ASSUME NEW e \in Entries, WorkerStep(e)
      PROVE  man'[f].sid = wSess'[f]
  <2>1. CASE f # e
    <3>1. wPc'[f] = wPc[f] /\ man'[f] = man[f] /\ wSess'[f] = wSess[f]
      BY <1>5, <2>1, WorkerFrame, WorkerMoves DEF BenchInv
    <3>. QED
      BY <1>1, <1>3, <3>1
  <2>2. CASE f = e
    <3>1. Works(e)
      BY <1>1, <1>5, <2>2, WorkerMoves
      DEF BenchInv, Looks, Creates, CleansUp, GivesUp, Retries, InHand
    <3>. QED
      BY <1>2, <1>3, <2>2, <3>1 DEF Works
  <2>. QED
    BY <2>1, <2>2
<1>6. CASE UNCHANGED <<man, wPc, wSess>>
  BY <1>1, <1>3, <1>6
<1>. QED
  BY <1>4, <1>5, <1>6 DEF Next, SessionStep, SessionLost, SessionVerified, SessionFails, SessionEnds, benchVars, wVars

LEMMA AccountedWorker ==
  ASSUME LeftInv, NEW e \in Entries, WorkerStep(e), ~TooMany', ~TooMany,
         faults' = faults \/ faults' = faults + 1,
         NEW f \in Entries, NEW a \in Attempts, sess'[f][a] \in Alive
  PROVE  Held(f, a)' \/ Owed(f, a)'
<1>1. /\ faults \in Nat /\ wTry[e] \in Attempts /\ NoAttempt \notin Attempts
      /\ prPc \notin AfterWait /\ wPc[e] # "off" /\ prPc' = prPc
      /\ prTodo' = prTodo /\ ctx' = ctx
  <2>1. wPc[e] # "off" /\ prPc' = prPc
    BY WorkerFrame DEF LeftInv, BenchInv
  <2>2. prPc \notin AfterWait
    BY <2>1 DEF LeftInv, BenchInv, EndedIdle, WorkersDone
  <2>3. NoAttempt \notin Attempts /\ faults \in Nat /\ wTry[e] \in Attempts
    BY AttemptsAssumption DEF LeftInv, BenchInv, TypeOK, NoAttempt, Attempts
  <2>. QED
    BY <2>1, <2>2, <2>3, WorkerMoves DEF LeftInv, BenchInv
<1>2. sess[f][a] \in Alive => Held(f, a) \/ Owed(f, a)
  BY DEF LeftInv, Accounted
<1>3. faults = 1 => faults' = 1
  BY <1>1 DEF TooMany
<1>4. CASE f # e
  <2>1. wPc'[f] = wPc[f] /\ man'[f] = man[f]
    BY <1>4, WorkerFrame DEF LeftInv, BenchInv
  <2>2. wSess'[f] = wSess[f] /\ sess'[f] = sess[f]
    BY <1>4, WorkerMoves DEF LeftInv, BenchInv
  <2>. QED
    BY <1>1, <1>2, <1>3, <2>1, <2>2 DEF Held, Owed
<1>5. CASE f = e
  <2>1. CASE Looks(e)
    BY <1>2, <1>5, <2>1 DEF Looks, Held, Owed, InHand
  <2>2. CASE Creates(e)
    <3>1. a = wTry[e]
      BY <1>2, <1>5, <2>2 DEF Creates, Held, Owed, InHand
    <3>. QED
      BY <1>5, <2>2, <3>1 DEF Creates, Held, InHand
  <2>3. CASE Works(e)
    <3>1. Held(e, a)
      BY <1>2, <1>5, <2>3 DEF Works, Owed, InHand
    <3>. QED
      BY <1>5, <2>3, <3>1 DEF Works, Held
  <2>4. CASE CleansUp(e)
    <3>1. ~(sess'[e][a] = "over")
      BY <1>5 DEF Alive
    <3>2. sess[e][a] \in Alive
      BY <1>5, <2>4, <3>1 DEF CleansUp, Ends
    <3>3. Held(e, a)
      BY <1>2, <1>5, <2>4, <3>2 DEF CleansUp, Owed
    <3>4. faults' = faults + 1
      BY <2>4, <3>1, <3>3 DEF CleansUp, Ends, Held
    <3>5. faults' = 1 /\ faults = 0 /\ ~Cancelled
      BY <1>1, <3>4 DEF TooMany, Cancelled
    <3>6. man[e].sid = a
      BY <2>4, <3>3, <3>5 DEF LeftInv, Recorded, CleansUp, Held, InHand
    <3>. QED
      BY <1>1, <1>5, <2>4, <3>3, <3>5, <3>6 DEF CleansUp, Held, Owed, AfterWait
  <2>5. CASE GivesUp(e)
    <3>1. Owed(e, a)
      BY <1>2, <1>5, <2>5 DEF GivesUp, Held, InHand
    <3>. QED
      BY <1>1, <1>3, <1>5, <2>5, <3>1 DEF GivesUp, Owed
  <2>6. CASE Retries(e)
    <3>1. ~(sess'[e][a] = "over")
      BY <1>5 DEF Alive
    <3>2. sess[e][a] \in Alive
      BY <1>5, <2>6, <3>1 DEF Retries, Ends
    <3>3. Owed(e, a)
      BY <1>2, <1>5, <2>6, <3>2 DEF Retries, Held, InHand
    <3>4. wSess[e] = a /\ wSess[e] # NoAttempt /\ faults' = faults
      BY <1>1, <1>3, <2>6, <3>3 DEF Retries, Owed
    <3>. QED
      BY <1>1, <2>6, <3>1, <3>4 DEF Retries, Ends
  <2>. QED
    BY <1>5, <2>1, <2>2, <2>3, <2>4, <2>5, <2>6, WorkerMoves DEF LeftInv, BenchInv
<1>. QED
  BY <1>4, <1>5

LEMMA AccountedRun ==
  ASSUME LeftInv, StartRun \/ CancelContext \/ CancelMark \/ RunStep, ~TooMany', ~TooMany,
         faults' = faults \/ faults' = faults + 1,
         NEW f \in Entries, NEW a \in Attempts, sess'[f][a] \in Alive
  PROVE  Held(f, a)' \/ Owed(f, a)'
<1>1. BenchInv /\ Fresh /\ TypeOK /\ faults \in Nat /\ a # NoAttempt
  BY AttemptsAssumption DEF LeftInv, BenchInv, TypeOK, NoAttempt, Attempts
<1>2. man'[f].sid = man[f].sid /\ (wSess'[f] = wSess[f] \/ wPc'[f] = "gate")
  BY <1>1, RunRows
<1>3. wPc'[f] = wPc[f] \/ (f \in prCur /\ wPc'[f] = "gate")
  BY <1>1, RunFrame
<1>4. sess[f][a] \in Alive => Held(f, a) \/ Owed(f, a)
  BY DEF LeftInv, Accounted
<1>5. faults = 1 => faults' = 1
  BY <1>1 DEF TooMany
<1>6. (wPc[f] = wPc'[f] /\ wSess'[f] = wSess[f]) \/ sess[f][a] \notin Alive
  <2>1. f \in prCur => man[f].sid = NoAttempt /\ wPc[f] = "off"
    BY <1>1 DEF Fresh, BenchInv, ClaimedIdle
  <2>. QED
    BY <1>1, <1>2, <1>3, <1>4, <2>1 DEF Held, Owed, InHand
<1>7. ASSUME sess' = sess, prPc' \notin {"sweep", "over"}
      PROVE  Held(f, a)' \/ Owed(f, a)'
  BY <1>2, <1>4, <1>5, <1>6, <1>7 DEF Held, Owed
<1>8. ASSUME prPc \in AfterWait, sess[f][a] \in Alive
      PROVE  Owed(f, a) /\ faults' = faults
  <2>1. wPc[f] = "off"
    BY <1>1, <1>8 DEF BenchInv, EndedIdle, WorkersDone
  <2>2. Owed(f, a)
    BY <1>4, <1>8, <2>1 DEF Held, InHand
  <2>. QED
    BY <1>1, <1>5, <2>2 DEF Owed
<1>9. CASE StartRun
  <2>1. sess' = sess /\ man[f] = NoEntryRow
    BY <1>9 DEF StartRun
  <2>2. wPc[f] = "off" /\ man[f].sid = NoAttempt
    BY <1>1, <2>1 DEF BenchInv, UnclaimedIdle, NoEntryRow
  <2>. QED
    BY <1>1, <1>4, <2>1, <2>2 DEF Held, Owed, InHand
<1>10. CASE CancelContext \/ CancelMark
  <2>1. sess' = sess /\ wPc' = wPc /\ wSess' = wSess /\ UNCHANGED <<prPc, prTodo, faults>>
    BY <1>10 DEF CancelContext, CancelMark, wVars, prVars
  <2>. QED
    BY <1>2, <1>4, <2>1 DEF Held, Owed
<1>11. CASE RunList
  <2>1. sess' = sess /\ prPc \in AfterWait
    BY <1>11 DEF RunList, AfterWait
  <2>2. Owed(f, a) /\ faults' = faults
    BY <1>8, <2>1
  <2>3. prTodo' = {e \in Entries : man[e].sid # NoAttempt} /\ prPc' = "sweep"
    BY <1>1, <1>11, <2>2 DEF RunList, Fault
  <2>. QED
    BY <1>1, <1>2, <1>6, <2>1, <2>2, <2>3 DEF Owed
<1>12. CASE RunOver
  <2>1. sess' = sess /\ prPc \in AfterWait /\ prPc = "sweep" /\ prTodo = {}
    BY <1>12 DEF RunOver, AfterWait
  <2>. QED
    BY <1>8, <2>1 DEF Owed
<1>13. ASSUME NEW e \in Entries, RunSweep(e)
       PROVE  Held(f, a)' \/ Owed(f, a)'
  <2>1. /\ prPc = "sweep" /\ prPc' = "sweep" /\ e \in prTodo /\ prTodo' = prTodo \ {e}
        /\ prPc \in AfterWait /\ wPc' = wPc
        /\ IF sess[e][man[e].sid] \in Alive THEN Destroyed(e, man[e].sid)
           ELSE sess' = sess
    BY <1>13 DEF RunSweep, AfterWait, wVars
  <2>2. sess[f][a] \in Alive /\ (f = e /\ a = man[e].sid => sess' = sess)
    <3>1. CASE sess' = sess
      BY <3>1
    <3>2. CASE sess' # sess
      <4>1. Ends(e, man[e].sid)
        BY <1>1, <2>1, <3>2, DestroyedEnds
      <4>. QED
        BY <3>2, <4>1 DEF Ends, Alive
    <3>. QED
      BY <3>1, <3>2
  <2>3. Owed(f, a) /\ faults' = faults
    BY <1>8, <2>1, <2>2
  <2>4. f # e
    <3>1. SUFFICES ASSUME f = e PROVE FALSE
      OBVIOUS
    <3>2. a = man[e].sid /\ sess[e][man[e].sid] \in Alive /\ sess' = sess
      BY <2>2, <2>3, <3>1 DEF Owed
    <3>3. Ends(e, a)
      BY <1>1, <2>1, <3>2, DestroyedEnds
    <3>. QED
      BY <1>1, <2>3, <3>1, <3>2, <3>3 DEF Ends, Alive
  <2>. QED
    BY <1>2, <2>1, <2>3, <2>4 DEF Owed
<1>14. CASE \/ RunBegin \/ RunLoop \/ RunFetch \/ RunIdle \/ RunPause \/ RunFinish
            \/ RunCancelled
  BY <1>7, <1>14 DEF RunBegin, RunLoop, RunFetch, RunIdle, RunPause, RunFinish, RunCancelled
<1>15. ASSUME NEW e \in Entries, RunClaim(e) \/ RunDispatch(e)
       PROVE  Held(f, a)' \/ Owed(f, a)'
  BY <1>7, <1>15 DEF RunClaim, RunDispatch
<1>. QED
  BY <1>9, <1>10, <1>11, <1>12, <1>13, <1>14, <1>15 DEF RunStep

LEMMA LeftStep ==
  ASSUME LeftInv, [Next]_benchVars
  PROVE  LeftInv'
<1>1. BenchInv /\ Fresh /\ Recorded /\ TypeOK
  BY DEF LeftInv, BenchInv
<1>2. BenchInv' /\ Fresh' /\ Recorded'
  BY <1>1, InvNext, FreshStep, RecordedStep
<1>3. SUFFICES ASSUME ~TooMany', NEW f \in Entries, NEW a \in Attempts,
                      sess'[f][a] \in Alive
               PROVE  Held(f, a)' \/ Owed(f, a)'
  BY <1>2 DEF LeftInv, Accounted
<1>4. ~TooMany /\ (faults' = faults \/ faults' = faults + 1)
  BY <1>1, <1>3, Counted
<1>5. CASE StartRun \/ CancelContext \/ CancelMark \/ RunStep
  BY <1>3, <1>4, <1>5, AccountedRun
<1>6. ASSUME NEW e \in Entries, WorkerStep(e)
      PROVE  Held(f, a)' \/ Owed(f, a)'
  BY <1>3, <1>4, <1>6, AccountedWorker
<1>7. ASSUME sess[f][a] \in Alive, UNCHANGED <<man, wPc, wSess, prPc, prTodo, faults>>
      PROVE  Held(f, a)' \/ Owed(f, a)'
  BY <1>4, <1>7 DEF LeftInv, Accounted, Held, Owed
<1>8. ASSUME NEW e \in Entries, SessionStep(e)
      PROVE  Held(f, a)' \/ Owed(f, a)'
  <2>1. sess[f][a] \in Alive
    <3>1. CASE sess' = sess
      BY <1>3, <3>1
    <3>2. ASSUME NEW b \in Attempts, SessionVerified(e, b) \/ SessionFails(e, b) \/ SessionEnds(e, b)
          PROVE  sess[f][a] \in Alive
      <4>1. sess[e][b] \in Alive
        BY <3>2 DEF SessionVerified, SessionFails, SessionEnds, Alive
      <4>2. PICK v : sess' = [sess EXCEPT ![e][b] = v]
        BY <3>2 DEF SessionVerified, SessionFails, SessionEnds
      <4>3. (f = e /\ a = b) \/ sess'[f][a] = sess[f][a]
        BY <1>1, <4>2 DEF TypeOK
      <4>. QED
        BY <1>3, <4>1, <4>3
    <3>. QED
      BY <1>8, <3>1, <3>2 DEF SessionStep, SessionLost
  <2>2. UNCHANGED <<man, wPc, wSess, prPc, prTodo>> /\ (faults' = faults \/ Fault)
    BY <1>8 DEF SessionStep, SessionLost, SessionVerified, SessionFails, SessionEnds, NoFault, prVars, wVars
  <2>. QED
    BY <1>1, <1>3, <1>4, <2>1, <2>2 DEF LeftInv, Accounted, Held, Owed, TooMany, Fault, TypeOK
<1>9. CASE UNCHANGED benchVars
  BY <1>3, <1>7, <1>9 DEF benchVars, prVars, wVars
<1>. QED
  BY <1>5, <1>6, <1>8, <1>9 DEF Next

LEMMA LeftInit == Init => LeftInv
<1>. SUFFICES ASSUME Init PROVE LeftInv
  OBVIOUS
<1>1. BenchInv
  BY InitInv
<1>2. Fresh
  BY DEF Init, Fresh, NoEntryRow
<1>3. Recorded
  BY DEF Init, Recorded, InHand
<1>4. Accounted
  BY DEF Init, Accounted, Alive
<1>. QED
  BY <1>1, <1>2, <1>3, <1>4 DEF LeftInv

\* When processRun is over, no session that CreateSession returned to the run
\* is alive: with one failed call, or with none when the run was cancelled,
\* however many entries and attempts there are.  A destroy call that failed is
\* always followed by another, from the worker or from cleanupRunSessions.
THEOREM NoSessionLeftAlways == Spec => []NoSessionLeft
<1>1. Init => LeftInv
  BY LeftInit
<1>2. LeftInv /\ [Next]_benchVars => LeftInv'
  BY LeftStep
<1>3. LeftInv => NoSessionLeft
  <2>. SUFFICES ASSUME LeftInv, prPc = "over", faults <= (IF Cancelled THEN 0 ELSE 1),
                       NEW e \in Entries, NEW a \in Attempts, sess[e][a] \in Alive
                PROVE  FALSE
    BY DEF NoSessionLeft
  <2>1. ~TooMany
    BY DEF TooMany, LeftInv, BenchInv, TypeOK
  <2>2. wPc[e] = "off"
    BY DEF LeftInv, BenchInv, EndedIdle, AfterWait, WorkersDone
  <2>. QED
    BY <2>1, <2>2 DEF LeftInv, Accounted, Held, Owed, InHand
<1>. QED
  BY <1>1, <1>2, <1>3, PTL DEF Spec

-----------------------------------------------------------------------------
(* Sessions the run has no id of                                           *)

Clean == faults = 0 /\ ~Cancelled

\* The session in hand is the one of this attempt.
Aligned(e) == wPc[e] \in InHand => wSess[e] = wTry[e]

\* A session that was waited for has been verified: it is not retried any more.
Started(e) == wPc[e] \in {"bench", "save", "finish"} => sess[e][wSess[e]] # "provisioning"

\* Entry e did not, or will not, succeed at its first attempt.
Untidy(e) ==
  \/ wPc[e] = "off" /\ (man[e].status = "failed" \/ man[e].sid > 1)
  \/ wPc[e] = "finish" /\ man[e].sid > 1
  \/ wPc[e] \in {"gate", "provision", "record", "poll", "bench", "save"} /\ wTry[e] > 1
  \/ wPc[e] \in {"record", "poll"} /\ sess[e][1] = "over"
  \/ wPc[e] \in {"cleanup", "failed"}

StrayInv ==
  Clean => /\ \A e \in Entries : Aligned(e) /\ Started(e)
           /\ stray => \E e \in Entries : Untidy(e)

\* What a worker's step makes of its own entry.
LEMMA StrayWorker ==
  ASSUME LeftInv, Clean, Clean', NEW e \in Entries, Aligned(e), Started(e), WorkerStep(e)
  PROVE  Aligned(e)' /\ Started(e)' /\ (Untidy(e) => Untidy(e)')
<1>1. TypeOK /\ wTry[e] \in Attempts /\ faults' # faults + 1 /\ ~Cancelled
  BY DEF LeftInv, BenchInv, TypeOK, Clean
<1>2. wPc[e] \in InHand \ {"record"} => man[e].sid = wSess[e]
  BY DEF LeftInv, Recorded, Clean
<1>3. ASSUME NEW pc, WGo(e, pc) PROVE wPc'[e] = pc
  BY <1>1, <1>3 DEF TypeOK, WGo
<1>4. ASSUME NEW a, NEW b, WAttempt(e, a, b) PROVE wTry'[e] = a /\ wSess'[e] = b
  BY <1>1, <1>4 DEF TypeOK, WAttempt
<1>5. ASSUME NEW r, ManSet(e, r) \/ ManSetAlways(e, r) PROVE man'[e] = r
  BY <1>1, <1>5 DEF TypeOK, ManSet, ManSetAlways, Fault
<1>6. \A st : Marked(e, st).status = st
  BY <1>1 DEF TypeOK, Marked, ManRow
<1>7. ASSUME ManSet(e, Marked(e, "failed")) \/ ManSetAlways(e, Marked(e, "failed")), WEnd(e)
      PROVE  Aligned(e)' /\ Started(e)' /\ Untidy(e)'
  <2>1. man'[e].status = "failed" /\ wPc'[e] = "off"
    BY <1>3, <1>5, <1>6, <1>7 DEF WEnd
  <2>. QED
    BY <2>1 DEF Aligned, Started, Untidy, InHand
<1>8. CASE AttemptGate(e)
  <2>1. CASE NoOffer(e)
    BY <1>7, <2>1 DEF NoOffer
  <2>2. CASE WGo(e, "provision") /\ UNCHANGED <<wTry, wSess>> /\ wPc[e] = "gate"
    BY <1>3, <2>2 DEF Aligned, Started, Untidy, InHand
  <2>. QED
    BY <1>1, <1>8, <2>1, <2>2 DEF AttemptGate
<1>9. CASE AttemptProvision(e)
  <2>1. CASE WGo(e, "failed")
    BY <1>3, <2>1 DEF Aligned, Started, Untidy, InHand
  <2>2. CASE WGo(e, "record") /\ WAttempt(e, wTry[e], wTry[e]) /\ wPc[e] = "provision"
    BY <1>3, <1>4, <2>2 DEF Aligned, Started, Untidy, InHand
  <2>. QED
    BY <1>9, <2>1, <2>2 DEF AttemptProvision
<1>10. CASE AttemptRecord(e)
  <2>1. wPc[e] = "record" /\ wPc'[e] = "poll" /\ UNCHANGED <<sess, wTry, wSess>>
    BY <1>3, <1>10 DEF AttemptRecord
  <2>. QED
    BY <2>1 DEF Aligned, Started, Untidy, InHand
<1>11. ASSUME AttemptFails(e), UNCHANGED <<wTry, wSess>>, wPc[e] \in InHand
       PROVE  Aligned(e)' /\ Started(e)' /\ Untidy(e)'
  BY <1>3, <1>11 DEF AttemptFails, Aligned, Started, Untidy, InHand
<1>12. CASE AttemptPoll(e)
  <2>1. CASE sess[e][wSess[e]] = "running" /\ WGo(e, "bench")
    <3>1. /\ wPc[e] = "poll" /\ wPc'[e] = "bench" /\ UNCHANGED <<sess, wTry, wSess>>
          /\ sess[e][wTry[e]] = "running"
      BY <1>3, <1>12, <2>1 DEF AttemptPoll, Aligned, InHand
    <3>2. sess[e][1] = "over" => wTry[e] > 1
      BY <1>1, <3>1, AttemptsAssumption DEF Attempts
    <3>. QED
      BY <2>1, <3>1, <3>2 DEF Aligned, Started, Untidy, InHand
  <2>. QED
    BY <1>11, <1>12, <2>1 DEF AttemptPoll, InHand
<1>13. CASE AttemptBench(e)
  <2>1. CASE WGo(e, "save")
    BY <1>3, <1>13, <2>1 DEF AttemptBench, Aligned, Started, Untidy, InHand
  <2>. QED
    BY <1>11, <1>13, <2>1 DEF AttemptBench, InHand
<1>14. CASE AttemptSave(e)
  <2> DEFINE r == [man[e] EXCEPT !.status = "success", !.cost = TRUE]
  <2>1. CASE ManSet(e, r) /\ WGo(e, "finish")
    <3>1. r.sid = man[e].sid
      BY <1>1 DEF TypeOK, ManRow
    <3> HIDE DEF r
    <3>2. man'[e].sid = man[e].sid /\ wPc'[e] = "finish"
      BY <1>3, <1>5, <2>1, <3>1
    <3>3. wPc[e] = "save" /\ UNCHANGED <<sess, wTry, wSess>>
      BY <1>14 DEF AttemptSave
    <3>. QED
      BY <1>2, <3>2, <3>3 DEF Aligned, Started, Untidy, InHand
  <2>. QED
    BY <1>11, <1>14, <2>1 DEF AttemptSave, InHand
<1>15. CASE AttemptCleanup(e)
  <2>1. man' = man /\ (wPc[e] = "cleanup" \/ wPc[e] = "finish")
    BY <1>15 DEF AttemptCleanup
  <2>2. CASE wPc[e] = "cleanup"
    BY <1>3, <1>15, <2>2 DEF AttemptCleanup, Aligned, Started, Untidy, InHand
  <2>3. CASE wPc[e] = "finish"
    BY <1>3, <1>15, <2>1, <2>3 DEF AttemptCleanup, WEnd, Aligned, Started, Untidy, InHand
  <2>. QED
    BY <2>1, <2>2, <2>3
<1>16. CASE EntryFailed(e)
  <2>1. CASE ManSetAlways(e, Marked(e, "failed")) /\ WEnd(e)
    BY <1>7, <2>1
  <2>2. CASE WGo(e, "gate") /\ WAttempt(e, wTry[e] + 1, NoAttempt)
    <3>1. wPc'[e] = "gate" /\ wTry'[e] > 1
      BY <1>1, <1>3, <1>4, <2>2 DEF Attempts
    <3>. QED
      BY <3>1 DEF Aligned, Started, Untidy, InHand
  <2>. QED
    BY <1>16, <2>1, <2>2 DEF EntryFailed
<1>. QED
  BY <1>8, <1>9, <1>10, <1>12, <1>13, <1>14, <1>15, <1>16 DEF WorkerStep

\* A worker's step leaves the other entries alone, and makes no stray session.
LEMMA StrayOthers ==
  ASSUME LeftInv, NEW e \in Entries, WorkerStep(e), NEW f \in Entries \ {e}
  PROVE  /\ Aligned(f)' = Aligned(f) /\ Started(f)' = Started(f) /\ Untidy(f)' = Untidy(f)
         /\ stray' = stray
<1>1. TypeOK
  BY DEF LeftInv, BenchInv
<1>2. wPc'[f] = wPc[f] /\ man'[f] = man[f] /\ wSess'[f] = wSess[f] /\ sess'[f] = sess[f]
  BY <1>1, WorkerFrame, WorkerMoves
<1>3. ASSUME NEW a, NEW b, WAttempt(e, a, b) PROVE wTry'[f] = wTry[f]
  BY <1>1, <1>3 DEF TypeOK, WAttempt
<1>4. wTry'[f] = wTry[f]
  BY <1>3 DEF WorkerStep, AttemptGate, NoOffer, AttemptProvision, AttemptRecord, AttemptPoll,
     AttemptBench, AttemptSave, AttemptCleanup, EntryFailed, WEnd
<1>5. stray' = stray
  BY DEF WorkerStep, AttemptGate, AttemptProvision, AttemptRecord, AttemptPoll,
     AttemptBench, AttemptSave, AttemptCleanup, EntryFailed
<1>. QED
  BY <1>2, <1>4, <1>5 DEF Aligned, Started, Untidy

\* Neither do StartRun, CancelRun and processRun make one.
LEMMA StrayRun ==
  ASSUME LeftInv, StartRun \/ CancelContext \/ CancelMark \/ RunStep,
         NEW f \in Entries, Aligned(f), Started(f), wPc[f] \in InHand => wSess[f] \in Attempts
  PROVE  Aligned(f)' /\ Started(f)' /\ (Untidy(f) => Untidy(f)') /\ stray' = stray
<1>1. TypeOK /\ BenchInv /\ Fresh
  BY DEF LeftInv, BenchInv
<1>2. stray' = stray
  BY DEF StartRun, CancelContext, CancelMark, RunStep, RunBegin, RunLoop, RunFetch,
     RunIdle, RunPause, RunFinish, RunCancelled, RunList, RunOver, RunClaim, RunDispatch, RunSweep
<1>3. \A a \in Attempts : sess'[f][a] = sess[f][a] \/ sess'[f][a] = "over"
  <2>1. CASE sess' = sess
    BY <2>1
  <2>2. ASSUME NEW e \in Entries, Destroyed(e, man[e].sid)
        PROVE  \A a \in Attempts : sess'[f][a] = sess[f][a] \/ sess'[f][a] = "over"
    BY <1>1, <2>2, DestroyedEnds DEF Ends
  <2>. QED
    BY <2>1, <2>2 DEF StartRun, CancelContext, CancelMark, RunStep, RunBegin, RunLoop, RunFetch,
       RunIdle, RunPause, RunFinish, RunCancelled, RunList, RunOver, RunClaim, RunDispatch, RunSweep
<1>4. 1 \in Attempts
  BY AttemptsAssumption DEF Attempts
<1>5. f \in prCur => ~Untidy(f)
  BY <1>1 DEF Untidy, Fresh, BenchInv, ClaimedIdle, NoAttempt
<1>6. CASE wPc'[f] # wPc[f]
  <2>1. f \in prCur /\ wPc'[f] = "gate"
    BY <1>1, <1>6, RunFrame
  <2>. QED
    BY <1>2, <1>5, <2>1 DEF Aligned, Started, InHand
<1>7. CASE wPc'[f] = wPc[f]
  <2>1. UNCHANGED <<wTry, wSess>> \/ \E e \in prCur : RunDispatch(e)
    BY DEF StartRun, CancelContext, CancelMark, RunStep, RunBegin, RunLoop, RunFetch,
       RunIdle, RunPause, RunFinish, RunCancelled, RunList, RunOver, RunClaim, RunSweep,
       RunDispatch, wVars
  <2>2. f \in prCur => wPc[f] = "off"
    BY <1>1 DEF BenchInv, ClaimedIdle
  <2>3. ASSUME NEW e \in prCur, RunDispatch(e)
        PROVE  wTry'[f] = wTry[f] /\ wSess'[f] = wSess[f]
    <3>1. e \in Entries
      BY <1>1 DEF TypeOK
    <3>2. CASE UNCHANGED wVars
      BY <3>2 DEF wVars
    <3>3. CASE WGo(e, "gate") /\ WAttempt(e, 1, NoAttempt)
      <4>1. e # f
        BY <1>1, <1>7, <2>2, <3>1, <3>3 DEF WGo, TypeOK
      <4>. QED
        BY <1>1, <3>1, <3>3, <4>1 DEF WAttempt, TypeOK
    <3>. QED
      BY <2>3, <3>2, <3>3 DEF RunDispatch
  <2>4. wTry'[f] = wTry[f] /\ wSess'[f] = wSess[f]
    BY <2>1, <2>3
  <2>5. man'[f].sid = man[f].sid
    BY <1>1, RunRows
  <2>6. man[f].status = "failed" => man'[f] = man[f]
    BY <1>1, RunFrame
  <2>7. Aligned(f)' /\ Started(f)'
    BY <1>3, <1>7, <2>4 DEF Aligned, Started, InHand
  <2>8. Untidy(f) => Untidy(f)'
    BY <1>3, <1>4, <1>7, <2>4, <2>5, <2>6 DEF Untidy
  <2>. QED
    BY <1>2, <2>7, <2>8
<1>. QED
  BY <1>6, <1>7

\* A session that fails its verification is in the hands of a worker that waits for it.
LEMMA StraySession ==
  ASSUME LeftInv, Clean, Clean', NEW e \in Entries, SessionStep(e),
         \A f \in Entries : Aligned(f) /\ Started(f),
         stray => \E f \in Entries : Untidy(f)
  PROVE  /\ \A f \in Entries : Aligned(f)' /\ Started(f)'
         /\ stray' => \E f \in Entries : Untidy(f)'
<1>1. /\ TypeOK /\ faults' = faults /\ ~Cancelled /\ ~TooMany /\ 1 \in Attempts
      /\ \A f \in Entries : wTry[f] \in Attempts
  BY AttemptsAssumption DEF LeftInv, BenchInv, TypeOK, Clean, TooMany, Attempts
<1>2. UNCHANGED <<man, wPc, wTry, wSess>> /\ ~SessionLost(e)
  <2>1. UNCHANGED <<man, wPc, wTry, wSess>>
    BY DEF SessionStep, SessionLost, SessionVerified, SessionFails, SessionEnds, wVars
  <2>2. ~Fault
    BY <1>1 DEF Fault, Clean
  <2>. QED
    BY <1>1, <2>1, <2>2 DEF SessionLost
<1>3. PICK a \in Attempts : SessionVerified(e, a) \/ SessionFails(e, a) \/ SessionEnds(e, a)
  BY <1>2 DEF SessionStep
<1>4. PICK v : sess' = [sess EXCEPT ![e][a] = v] /\ v \in {"running", "over"}
  BY <1>3 DEF SessionVerified, SessionFails, SessionEnds
<1>5. \A f \in Entries, b \in Attempts :
        \/ sess'[f][b] = sess[f][b]
        \/ f = e /\ b = a /\ sess'[f][b] = v
  BY <1>1, <1>4 DEF TypeOK
<1>6. sess'[e][a] = v /\ sess[e][a] \in Alive
  BY <1>1, <1>3, <1>4 DEF TypeOK, SessionVerified, SessionFails, SessionEnds, Alive
<1>7. ASSUME NEW f \in Entries PROVE Aligned(f)' /\ Started(f)'
  <2>1. Aligned(f)'
    BY <1>2 DEF Aligned
  <2>2. wPc[f] \in {"bench", "save", "finish"} => wSess[f] \in Attempts
    BY <1>1 DEF Aligned, InHand
  <2>3. Started(f)'
    BY <1>2, <1>4, <1>5, <2>2 DEF Started
  <2>. QED
    BY <2>1, <2>3
<1>8. Held(e, a)
  BY <1>1, <1>6 DEF LeftInv, Accounted, Owed, Clean
<1>9. ASSUME NEW f \in Entries, Untidy(f) PROVE Untidy(f)'
  <2>1. CASE sess'[f][1] = sess[f][1] \/ sess'[f][1] = "over"
    BY <1>2, <1>9, <2>1 DEF Untidy
  <2>2. CASE f = e /\ a = 1 /\ sess[f][1] \in Alive
    BY <1>2, <1>9, <2>2 DEF Untidy, Alive
  <2>. QED
    BY <1>1, <1>5, <1>6, <2>1, <2>2
<1>10. CASE stray' = stray
  BY <1>7, <1>9, <1>10
<1>11. CASE SessionFails(e, a)
  <2>1. sess'[e][a] = "over" /\ sess[e][a] = "provisioning"
    BY <1>1, <1>11 DEF SessionFails, TypeOK
  <2>2. wPc[e] \in {"record", "poll", "cleanup"} /\ wTry[e] = a
    BY <1>8, <2>1 DEF Held, Started, Aligned, InHand
  <2>3. a = 1 \/ a > 1
    BY DEF Attempts
  <2>4. Untidy(e)'
    BY <1>2, <2>1, <2>2, <2>3 DEF Untidy
  <2>. QED
    BY <1>7, <2>4
<1>. QED
  BY <1>3, <1>7, <1>10, <1>11 DEF SessionVerified, SessionEnds

LEMMA StrayStep ==
  ASSUME LeftInv, StrayInv, [Next]_benchVars
  PROVE  StrayInv'
<1>. SUFFICES ASSUME Clean'
              PROVE  /\ \A f \in Entries : Aligned(f)' /\ Started(f)'
                     /\ stray' => \E f \in Entries : Untidy(f)'
  BY DEF StrayInv
<1>1. TypeOK /\ Clean
  <2>1. TypeOK
    BY DEF LeftInv, BenchInv
  <2>. QED
    BY <2>1, Counted DEF Clean, TypeOK
<1>2. /\ \A f \in Entries : Aligned(f) /\ Started(f)
      /\ stray => \E f \in Entries : Untidy(f)
  BY <1>1 DEF StrayInv
<1>3. CASE StartRun \/ CancelContext \/ CancelMark \/ RunStep
  <2>1. \A f \in Entries : wPc[f] \in InHand => wSess[f] \in Attempts
    BY <1>1, <1>2 DEF Aligned, TypeOK
  <2>2. \A f \in Entries : Aligned(f)' /\ Started(f)' /\ (Untidy(f) => Untidy(f)') /\ stray' = stray
    BY <1>2, <1>3, <2>1, StrayRun
  <2>3. CASE stray
    BY <1>2, <2>2, <2>3
  <2>4. CASE ~stray
    <3>1. stray' = stray
      BY <1>3 DEF StartRun, CancelContext, CancelMark, RunStep, RunBegin, RunLoop, RunFetch,
         RunIdle, RunPause, RunFinish, RunCancelled, RunList, RunOver, RunClaim, RunDispatch, RunSweep
    <3>. QED
      BY <2>2, <2>4, <3>1
  <2>. QED
    BY <2>3, <2>4
<1>4. ASSUME NEW e \in Entries, WorkerStep(e)
      PROVE  /\ \A f \in Entries : Aligned(f)' /\ Started(f)'
             /\ stray' => \E f \in Entries : Untidy(f)'
  <2>1. Aligned(e)' /\ Started(e)' /\ (Untidy(e) => Untidy(e)')
    BY <1>1, <1>2, <1>4, StrayWorker
  <2>2. \A f \in Entries \ {e} :
          /\ Aligned(f)' = Aligned(f) /\ Started(f)' = Started(f) /\ Untidy(f)' = Untidy(f)
          /\ stray' = stray
    BY <1>4, StrayOthers
  <2>3. stray' = stray
    BY <1>4 DEF WorkerStep, AttemptGate, AttemptProvision, AttemptRecord, AttemptPoll,
       AttemptBench, AttemptSave, AttemptCleanup, EntryFailed
  <2>. QED
    BY <1>2, <2>1, <2>2, <2>3
<1>5. ASSUME NEW e \in Entries, SessionStep(e)
      PROVE  /\ \A f \in Entries : Aligned(f)' /\ Started(f)'
             /\ stray' => \E f \in Entries : Untidy(f)'
  BY <1>1, <1>2, <1>5, StraySession
<1>6. CASE UNCHANGED benchVars
  BY <1>2, <1>6 DEF benchVars, wVars, Aligned, Started, Untidy
<1>. QED
  BY <1>3, <1>4, <1>5, <1>6 DEF Next

\* A run that was not cancelled and met no failing call leaves a session behind
\* that it has no id of only if some entry did not succeed at its first attempt:
\* those sessions are the automatic retries of sessions that were never verified.
THEOREM StraysAreRetriesAlways == Spec => []StraysAreRetries
<1>1. Init => LeftInv /\ StrayInv
  BY LeftInit DEF Init, StrayInv, Aligned, Started, InHand
<1>2. LeftInv /\ StrayInv /\ [Next]_benchVars => LeftInv' /\ StrayInv'
  BY LeftStep, StrayStep
<1>3. LeftInv /\ StrayInv => StraysAreRetries
  <2>. SUFFICES ASSUME LeftInv, StrayInv, prPc = "over", Clean, stray
                PROVE  \E e \in Entries : man[e].status # "success" \/ man[e].sid # 1
    BY DEF StraysAreRetries, Clean
  <2>1. PICK e \in Entries : Untidy(e)
    BY DEF StrayInv
  <2>2. wPc[e] = "off"
    BY DEF LeftInv, BenchInv, EndedIdle, AfterWait, WorkersDone
  <2>3. man[e].status # "success" \/ man[e].sid # 1
    BY <2>1, <2>2 DEF Untidy
  <2>. QED
    BY <2>3
<1>. QED
  BY <1>1, <1>2, <1>3, PTL DEF Spec

=============================================================================
