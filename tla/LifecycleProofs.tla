-------------------------- MODULE LifecycleProofs --------------------------
(* The safety properties of Lifecycle, for every value of the constants.   *)
EXTENDS LifecycleTypes

-----------------------------------------------------------------------------
(* RunningHasInstanceID. A row is stored from a copy, so every copy that   *)
(* may be stored as it is has to satisfy what the property says of a row;  *)
(* and since a poll of the verifier goes on when the SSH host is known, a  *)
(* row with a host has to have the instance id, unless it is terminal.     *)

RowOK(r) ==
  /\ r.status = "running" => r.pid
  /\ r.ssh /\ ~IsTerminal(r) => r.pid

RowsOK == \A s \in Sessions : RowOK(row[s])
CrOK == \A s \in Sessions : RowOK(crRow[s]) /\ ~IsTerminal(crRow[s])
VfOK == \A s \in Sessions : vfPc[s] \in {"status", "sshinfo", "ssh", "running"} => vfRow[s].pid
MgOK == \A s \in Sessions : RowOK(mgRow[s])
DcOK == \A c \in Calls : RowOK(dcRow[c])
EdOK == \A e \in Editors : RowOK(edRow[e])

CopiesOK == RowsOK /\ CrOK /\ VfOK /\ MgOK /\ DcOK /\ EdOK

\* Which rows are good.
LEMMA GoodRows ==
  /\ RowOK(NoRow) /\ ~IsTerminal(NoRow)
  /\ RowOK(NewRow) /\ ~IsTerminal(NewRow)
  /\ \A r \in Row, st \in Terminal : RowOK(With(r, st))
  /\ \A r \in Row, st \in {"stopping", "provisioning"} :
       RowOK(r) /\ ~IsTerminal(r) => RowOK(With(r, st)) /\ ~IsTerminal(With(r, st))
  /\ \A r \in Row : r.pid => RowOK(WithSSH(r)) /\ WithSSH(r).pid
  /\ \A r \in Row : r.pid => RowOK(With(r, "running")) /\ RowOK(With(WithSSH(r), "running"))
  /\ \A r \in Row : ~IsTerminal(r) => /\ RowOK(WithID(r)) /\ ~IsTerminal(WithID(r))
                                      /\ RowOK(WithID(WithSSH(r))) /\ ~IsTerminal(WithID(WithSSH(r)))
  /\ \A r \in Row : RowOK(r) => RowOK(Extended(r))
<1> USE DEF RowOK, IsTerminal, Terminal, Row
<1>1. RowOK(NoRow) /\ ~IsTerminal(NoRow) /\ RowOK(NewRow) /\ ~IsTerminal(NewRow)
  BY DEF NoRow, NewRow
<1>2. ASSUME NEW r \in Row, NEW st \in Terminal
      PROVE  RowOK(With(r, st))
  BY DEF With
<1>3. ASSUME NEW r \in Row, NEW st \in {"stopping", "provisioning"}, RowOK(r), ~IsTerminal(r)
      PROVE  RowOK(With(r, st)) /\ ~IsTerminal(With(r, st))
  BY <1>3 DEF With
<1>4. ASSUME NEW r \in Row, r.pid
      PROVE  /\ RowOK(WithSSH(r)) /\ WithSSH(r).pid
             /\ RowOK(With(r, "running")) /\ RowOK(With(WithSSH(r), "running"))
  BY <1>4 DEF With, WithSSH
<1>5. ASSUME NEW r \in Row, ~IsTerminal(r)
      PROVE  /\ RowOK(WithID(r)) /\ ~IsTerminal(WithID(r))
             /\ RowOK(WithID(WithSSH(r))) /\ ~IsTerminal(WithID(WithSSH(r)))
  BY <1>5 DEF WithID, WithSSH
<1>6. ASSUME NEW r \in Row, RowOK(r)
      PROVE  RowOK(Extended(r))
  BY <1>6 DEF Extended
<1>7. QED BY <1>1, <1>2, <1>3, <1>4, <1>5, <1>6

\* An Update with a good row keeps the table good.
LEMMA UpdateGood ==
  ASSUME row \in [Sessions -> Row], RowsOK,
         NEW s \in Sessions, NEW r, RowOK(r), Update(s, r)
  PROVE  RowsOK'
BY UpdateEffect DEF RowsOK

\* What does not touch the row of a component keeps its part of the invariant.
LEMMA CopiesUnchanged ==
  ASSUME CopiesOK
  PROVE  /\ UNCHANGED row => RowsOK'
         /\ UNCHANGED crVars => CrOK'
         /\ UNCHANGED vfVars => VfOK'
         /\ UNCHANGED mgVars => MgOK'
         /\ UNCHANGED dcVars => DcOK'
         /\ UNCHANGED edVars => EdOK'
BY DEF CopiesOK, RowsOK, CrOK, VfOK, MgOK, DcOK, EdOK, crVars, vfVars, mgVars, dcVars, edVars

\* One step of CreateSession.
LEMMA CreateStepCopies ==
  ASSUME TypeInv, CopiesOK, NEW s \in Sessions, CreateCheck(s) \/ CreateStep(s)
  PROVE  RowsOK' /\ CrOK' /\ VfOK' /\ UNCHANGED dcVars
<1> USE GoodRows, CopiesUnchanged DEF CrGo
<1>0. /\ row \in [Sessions -> Row] /\ RowsOK /\ RowOK(crRow[s]) /\ ~IsTerminal(crRow[s]) /\ crRow[s] \in Row
      /\ crRow \in [Sessions -> Row] /\ vfPc \in [Sessions -> VfPcs] /\ CrOK
  BY DEF TypeInv, TypeOK, ProvTypeOK, StoreTypeOK, CopiesOK, CrOK
<1>1. CASE CreateCheck(s) \/ CreateProviderMissing(s)
  BY <1>1 DEF CreateCheck, CreateProviderMissing, CopiesOK, CrOK, storeVars
<1>2. CASE CreateInsert(s)
  <2>1. RowsOK'
    BY <1>0, <1>2, UpdateGood DEF CreateInsert, Update
  <2>2. CrOK'
    BY <1>0, <1>2 DEF CreateInsert, CrOK
  <2>3. QED BY <1>2, <2>1, <2>2 DEF CreateInsert
<1>3. CASE CreateDiskRejected(s)
  <2>1. CrOK'
    BY <1>0, <1>3 DEF CreateDiskRejected, CrOK
  <2>2. QED BY <1>3, <2>1 DEF CreateDiskRejected, storeVars
<1>4. CASE CreateProvisioning(s)
  <2>1. RowsOK'
    BY <1>0, <1>4, UpdateGood DEF CreateProvisioning
  <2>2. CrOK'
    BY <1>0, <1>4 DEF CreateProvisioning, CrOK
  <2>3. QED BY <1>4, <2>1, <2>2 DEF CreateProvisioning
<1>5. CASE CreateInstance(s)
  <2>1. CrOK'
    BY <1>0, <1>5 DEF CreateInstance, CrOK
  <2>2. QED BY <1>5, <2>1 DEF CreateInstance
<1>6. CASE CreateFail(s)
  <2>1. RowsOK'
    BY <1>0, <1>6, UpdateGood DEF CreateFail, Terminal
  <2>2. CrOK'
    BY <1>0, <1>6 DEF CreateFail, CrOK
  <2>3. QED BY <1>6, <2>1, <2>2 DEF CreateFail
<1>7. CASE CreateRecord(s)
  <2>1. RowsOK'
    BY <1>0, <1>7, UpdateGood DEF CreateRecord, Update
  <2>2. CrOK'
    BY <1>0, <1>7 DEF CreateRecord, CrOK
  <2>3. VfOK'
    BY <1>0, <1>7 DEF CreateRecord, VfOK, CopiesOK
  <2>4. QED BY <1>7, <2>1, <2>2, <2>3 DEF CreateRecord
<1>8. CASE CreateCleanup(s)
  <2>1. CrOK'
    BY <1>0, <1>8 DEF CreateCleanup, CrOK
  <2>2. QED BY <1>8, <2>1 DEF CreateCleanup
<1>9. QED BY <1>1, <1>2, <1>3, <1>4, <1>5, <1>6, <1>7, <1>8 DEF CreateStep

\* One step of the verification goroutine: it gets past a poll only with a row
\* that has the instance id.
LEMMA VerifyStepCopies ==
  ASSUME TypeInv, CopiesOK, NEW s \in Sessions, VerifyStep(s)
  PROVE  RowsOK' /\ CrOK' /\ VfOK' /\ UNCHANGED dcVars
<1> USE GoodRows, CopiesUnchanged DEF VfGo, VfEnd, VfAgain
<1>0. /\ row \in [Sessions -> Row] /\ RowsOK /\ RowOK(row[s]) /\ row[s] \in Row
      /\ vfPc \in [Sessions -> VfPcs] /\ vfRow \in [Sessions -> Row] /\ VfOK
  BY DEF TypeInv, TypeOK, ProvTypeOK, StoreTypeOK, CopiesOK, RowsOK
<1>1. CASE VerifyPoll(s)
  <2>1. VfOK'
    BY <1>0, <1>1 DEF VerifyPoll, VfProceed, SshOrWait, NeedStatus, RowOK, VfOK
  <2>2. QED BY <1>1, <2>1 DEF VerifyPoll, storeVars
<1>2. CASE VerifyStatus(s)
  <2>1. VfOK'
    BY <1>0, <1>2 DEF VerifyStatus, VfOK
  <2>2. QED BY <1>2, <2>1 DEF VerifyStatus
<1>3. CASE VerifySSHInfo(s)
  <2>1. vfRow[s] \in Row /\ vfRow[s].pid
    BY <1>0, <1>3 DEF VerifySSHInfo, VfOK
  <2>2. RowsOK'
    BY <1>0, <1>3, <2>1, UpdateGood DEF VerifySSHInfo
  <2>3. VfOK'
    BY <1>0, <1>3, <2>1 DEF VerifySSHInfo, VfOK
  <2>4. QED BY <1>3, <2>2, <2>3 DEF VerifySSHInfo
<1>4. CASE VerifySSH(s)
  <2>1. VfOK'
    BY <1>0, <1>4 DEF VerifySSH, VfOK
  <2>2. QED BY <1>4, <2>1 DEF VerifySSH, storeVars
<1>5. CASE VerifyRunning(s)
  <2>1. vfRow[s] \in Row /\ vfRow[s].pid
    BY <1>0, <1>5 DEF VerifyRunning, VfOK
  <2>2. RowsOK'
    BY <1>0, <1>5, <2>1, UpdateGood DEF VerifyRunning
  <2>3. VfOK'
    BY <1>0, <1>5 DEF VerifyRunning, VfOK
  <2>4. QED BY <1>5, <2>2, <2>3 DEF VerifyRunning
<1>6. CASE VerifyTimeout(s) \/ VerifyCtxDone(s) \/ VerifyFail(s)
  <2>1. VfOK'
    BY <1>0, <1>6 DEF VerifyTimeout, VerifyCtxDone, VerifyFail, VfOK
  <2>2. QED BY <1>6, <2>1 DEF VerifyTimeout, VerifyCtxDone, VerifyFail, storeVars
<1>7. CASE VerifyFailStore(s)
  <2>1. RowsOK'
    BY <1>0, <1>7, UpdateGood DEF VerifyFailStore, Terminal
  <2>2. VfOK'
    BY <1>0, <1>7 DEF VerifyFailStore, VfOK
  <2>3. QED BY <1>7, <2>1, <2>2 DEF VerifyFailStore
<1>8. QED BY <1>1, <1>2, <1>3, <1>4, <1>5, <1>6, <1>7 DEF VerifyStep

\* One step of DestroySession.
LEMMA DestroyStepCopies ==
  ASSUME TypeInv, CopiesOK, NEW c \in Calls, DestroyStep(c)
  PROVE  RowsOK' /\ DcOK' /\ UNCHANGED <<crVars, vfVars>>
<1> USE GoodRows, CopiesUnchanged DEF DcGo
<1>0. /\ row \in [Sessions -> Row] /\ RowsOK /\ dcRow \in [Calls -> Row] /\ DcOK /\ RowOK(dcRow[c])
      /\ dcRow[c] \in Row /\ WithoutID(dcRow[c]) \in Row /\ dcPc \in [Calls -> DcPcs]
  BY RowTypes DEF TypeInv, TypeOK, ProvTypeOK, StoreTypeOK, CopiesOK, DcOK
<1>1. dcSess[c] \in Sessions
  BY <1>0 DEF DestroyStep, DestroyRead, DestroyMark, DestroyAttempt, DestroyVerify, DestroyFinal,
     DestroyCleanup, DestroyForget, TypeInv, TargetsOK, DcReturned
<1>2. ASSUME NEW res, DcReturn(c, res)
      PROVE  DcOK'
  BY <1>0, <1>2 DEF DcReturn, DcOK
<1>3. CASE DestroyRead(c)
  <2>1. RowOK(row[dcSess[c]]) /\ row[dcSess[c]] \in Row
    BY <1>0, <1>1 DEF RowsOK
  <2>2. IsActive(row[dcSess[c]]) => RowOK(With(row[dcSess[c]], "stopping"))
    BY <2>1 DEF IsActive, IsTerminal, Active, Terminal
  <2>3. DcOK'
    BY <1>0, <1>2, <1>3, <2>1, <2>2 DEF DestroyRead, DcOK
  <2>4. QED BY <1>3, <2>3 DEF DestroyRead
<1>4. CASE DestroyMark(c)
  <2>1. RowsOK'
    BY <1>0, <1>1, <1>4, UpdateGood DEF DestroyMark
  <2>2. DcOK'
    BY <1>0, <1>2, <1>4 DEF DestroyMark, DcOK
  <2>3. QED BY <1>4, <2>1, <2>2 DEF DestroyMark
<1>5. CASE DestroyAttempt(c) \/ DestroyCleanup(c)
  BY <1>0, <1>5 DEF DestroyAttempt, DestroyCleanup, DcOK
<1>6. CASE DestroyVerify(c)
  <2>1. DcOK'
    BY <1>0, <1>2, <1>6 DEF DestroyVerify, DcRetry, DcOK
  <2>2. QED BY <1>6, <2>1 DEF DestroyVerify
<1>7. CASE DestroyFinal(c)
  <2>1. RowsOK'
    BY <1>0, <1>1, <1>7, UpdateGood DEF DestroyFinal, Terminal
  <2>2. QED BY <1>2, <1>7, <2>1 DEF DestroyFinal
<1>8. CASE DestroyForget(c)
  <2>1. RowsOK'
    BY <1>0, <1>1, <1>8, UpdateGood DEF DestroyForget, Terminal
  <2>2. QED BY <1>2, <1>8, <2>1 DEF DestroyForget
<1>9. QED BY <1>3, <1>4, <1>5, <1>6, <1>7, <1>8 DEF DestroyStep

\* The steps of the lifecycle manager.
LEMMA MgrStepCopies ==
  ASSUME TypeInv, CopiesOK, MgrStep
  PROVE  CopiesOK'
<1> USE GoodRows, CopiesUnchanged
<1>0. /\ row \in [Sessions -> Row] /\ RowsOK /\ mgRow \in [Sessions -> Row] /\ MgOK /\ DcOK
      /\ mgCur \in Sessions \cup {NoSession}
  BY DEF TypeInv, TypeOK, ProvTypeOK, StoreTypeOK, CopiesOK
<1>1. CASE MgrList
  <2>1. MgOK'
    BY <1>0, <1>1 DEF MgrList, MgOK, RowsOK
  <2>2. QED BY <1>1, <2>1 DEF MgrList, CopiesOK
<1>2. CASE MgrReturned
  <2>1. mgCur \in Sessions /\ RowOK(mgRow[mgCur])
    BY <1>0, <1>2 DEF MgrReturned, MgOK
  <2>2. RowsOK'
    BY <1>0, <1>2, <2>1, UpdateGood DEF MgrReturned
  <2>3. MgOK' /\ DcOK'
    BY <1>0, <1>2 DEF MgrReturned, MgOK, DcOK
  <2>4. QED BY <1>2, <2>2, <2>3 DEF MgrReturned, CopiesOK
<1>3. ASSUME NEW s \in Sessions, MgrDestroy(s)
      PROVE  CopiesOK'
  <2>1. MgOK' /\ DcOK' /\ UNCHANGED <<row, crVars, vfVars, edVars>>
    BY <1>0, <1>3 DEF MgrDestroy, DestroyBegin, MgOK, DcOK, storeVars
  <2>2. QED BY <2>1 DEF CopiesOK
<1>4. ASSUME NEW s \in Sessions, MgrStuck(s)
      PROVE  CopiesOK'
  <2>1. RowsOK'
    BY <1>0, <1>4, UpdateGood DEF MgrStuck, Terminal
  <2>2. MgOK'
    BY <1>0, <1>4 DEF MgrStuck, MgOK
  <2>3. QED BY <1>4, <2>1, <2>2 DEF MgrStuck, CopiesOK
<1>5. QED BY <1>1, <1>2, <1>3, <1>4 DEF MgrStep

\* The steps of the reconciler only ever store stopped rows.
LEMMA RcStepCopies ==
  ASSUME TypeInv, CopiesOK, RcStep
  PROVE  CopiesOK'
<1> USE GoodRows, CopiesUnchanged
<1>0. row \in [Sessions -> Row] /\ RowsOK /\ rcRow \in [Sessions -> Row]
  BY DEF TypeInv, TypeOK, ProvTypeOK, StoreTypeOK, CopiesOK
<1>1. CASE RcList \/ RcRead
  BY <1>1 DEF RcList, RcRead, CopiesOK
<1>2. ASSUME NEW s \in Sessions, RcOrphan(s)
      PROVE  CopiesOK'
  BY <1>2 DEF RcOrphan, CopiesOK
<1>3. ASSUME NEW s \in Sessions, RcGhost(s)
      PROVE  CopiesOK'
  <2>1. RowsOK'
    BY <1>0, <1>3, UpdateGood DEF RcGhost, Terminal
  <2>2. QED BY <1>3, <2>1 DEF RcGhost, CopiesOK
<1>4. QED BY <1>1, <1>2, <1>3 DEF RcStep

\* RecoverStuckSessions marks a session as running only if its row has the id.
LEMMA RecoverCopies ==
  ASSUME TypeInv, CopiesOK, NEW s \in Sessions, RecoverStuck(s) \/ RecoverFailed(s)
  PROVE  RowsOK'
<1> USE GoodRows
<1>0. /\ row \in [Sessions -> Row] /\ row[s] \in Row /\ RowsOK
      /\ WithoutID(row[s]) \in Row /\ With(WithoutID(row[s]), "failed") \in Row
  BY RowTypes DEF TypeInv, TypeOK, ProvTypeOK, StoreTypeOK, CopiesOK, Statuses, Terminal
<1>1. \A r \in Row : RowOK(With(r, "failed")) /\ RowOK(With(r, "stopped"))
  BY DEF Terminal
<1>2. CASE RecoverStuck(s)
  <2> DEFINE over == With(row[s], IF row[s].status = "provisioning" THEN "failed" ELSE "stopped")
  <2>1. RowOK(over)
    BY <1>0, <1>1
  <2>2. CASE UNCHANGED row
    BY <1>0, <2>2 DEF RowsOK
  <2>3. CASE \E r : RowOK(r) /\ Update(s, r)
    BY <1>0, <2>3, UpdateGood
  <2>4. CASE row' = [row EXCEPT ![s] = over]
    BY <1>0, <2>1, <2>4 DEF RowsOK
  <2>5. QED BY <1>0, <1>1, <1>2, <2>1, <2>2, <2>3, <2>4 DEF RecoverStuck
<1>3. CASE RecoverFailed(s)
  <2> DEFINE forgotten == With(WithoutID(row[s]), "failed")
  <2>1. RowOK(forgotten) /\ RowOK(With(forgotten, "stopped"))
    BY <1>0, <1>1
  <2>2. CASE row' = row
    BY <1>0, <2>2 DEF RowsOK
  <2>3. CASE \E r : RowOK(r) /\ Update(s, r)
    BY <1>0, <2>3, UpdateGood
  <2>4. CASE row' = [row EXCEPT ![s] = forgotten]
    BY <1>0, <2>1, <2>4 DEF RowsOK
  <2>5. QED BY <1>3, <2>1, <2>2, <2>3, <2>4 DEF RecoverFailed
<1>4. QED BY <1>2, <1>3

\* Startup, shutdown and the crash.
LEMMA MainStepCopies ==
  ASSUME TypeInv, CopiesOK, MainStep \/ Crash \/ ShutdownBegin
  PROVE  CopiesOK'
<1> USE CopiesUnchanged
<1>1. CASE Crash \/ ShutdownExit
  <2>1. ProcessLost /\ UNCHANGED row
    BY <1>1 DEF Crash, ShutdownExit
  <2>2. CrOK' /\ VfOK' /\ MgOK' /\ DcOK' /\ EdOK'
    BY <2>1, GoodRows DEF ProcessLost, NoRows, CrOK, VfOK, MgOK, DcOK, EdOK
  <2>3. QED BY <2>1, <2>2 DEF CopiesOK
<1>2. CASE ShutdownBegin \/ Restart \/ RecoverFailedBegin \/ RecoverDone
  BY <1>2 DEF ShutdownBegin, Restart, RecoverFailedBegin, RecoverDone, CopiesOK, storeVars
<1>3. ASSUME NEW s \in Sessions, ShutdownDestroy(s)
      PROVE  CopiesOK'
  BY <1>3 DEF ShutdownDestroy, CopiesOK
<1>4. ASSUME NEW s \in Sessions, RecoverStuck(s) \/ RecoverFailed(s)
      PROVE  CopiesOK'
  <2>1. RowsOK'
    BY <1>4, RecoverCopies
  <2>2. UNCHANGED <<crVars, vfVars, dcVars, mgVars, edVars>>
    BY <1>4 DEF RecoverStuck, RecoverFailed
  <2>3. QED BY <2>1, <2>2 DEF CopiesOK
<1>5. QED BY <1>1, <1>2, <1>3, <1>4 DEF MainStep

\* ExtendSession stores a copy that was good when it was read.
LEMMA ExtendCopies ==
  ASSUME TypeInv, CopiesOK, NEW e \in Editors,
         ExtendStore(e) \/ \E s \in Sessions : ExtendRead(e, s)
  PROVE  CopiesOK'
<1> USE GoodRows, CopiesUnchanged
<1>0. row \in [Sessions -> Row] /\ RowsOK /\ edRow \in [Editors -> Row] /\ EdOK
  BY DEF TypeInv, TypeOK, ProvTypeOK, StoreTypeOK, CopiesOK
<1>1. CASE ExtendStore(e)
  <2>1. edSess[e] \in Sessions /\ RowOK(edRow[e])
    BY <1>0, <1>1 DEF ExtendStore, EdOK, TypeInv, TargetsOK
  <2>2. RowsOK'
    BY <1>0, <1>1, <2>1, UpdateGood DEF ExtendStore
  <2>3. EdOK'
    BY <1>0, <1>1 DEF ExtendStore, EdOK
  <2>4. QED BY <1>1, <2>2, <2>3 DEF ExtendStore, CopiesOK
<1>2. ASSUME NEW s \in Sessions, ExtendRead(e, s)
      PROVE  CopiesOK'
  <2>1. RowOK(Extended(row[s]))
    BY <1>0 DEF RowsOK
  <2>2. EdOK'
    BY <1>0, <1>2, <2>1 DEF ExtendRead, EdOK
  <2>3. QED BY <1>2, <2>2 DEF ExtendRead, provVars, storeVars, CopiesOK
<1>3. QED BY <1>1, <1>2

\* The invariant of the copies is inductive.
LEMMA CopiesStep ==
  ASSUME TypeInv, CopiesOK, [Next]_vars
  PROVE  CopiesOK'
<1> USE CopiesUnchanged
<1>1. ASSUME NEW s \in Sessions, Creating(s) \/ Verifying(s) \/ ApiCreate(s)
      PROVE  CopiesOK'
  <2>1. RowsOK' /\ CrOK' /\ VfOK' /\ UNCHANGED dcVars
    BY <1>1, CreateStepCopies, VerifyStepCopies DEF Creating, Verifying, ApiCreate
  <2>2. UNCHANGED <<mgVars, edVars>>
    BY <1>1 DEF Creating, Verifying, ApiCreate
  <2>3. QED BY <2>1, <2>2 DEF CopiesOK
<1>2. ASSUME NEW s \in Sessions, Hosting(s)
      PROVE  CopiesOK'
  BY <1>2 DEF Hosting, InstanceStep, InstanceBoots, InstanceLost, CopiesOK
<1>3. ASSUME NEW c \in Calls, Destroying(c)
      PROVE  CopiesOK'
  BY <1>3, DestroyStepCopies DEF Destroying, CopiesOK
<1>4. ASSUME NEW c \in Calls, NEW s \in Sessions, ApiDestroy(c, s)
      PROVE  CopiesOK'
  <2>1. DcOK'
    BY <1>4 DEF ApiDestroy, DestroyBegin, CopiesOK, DcOK
  <2>2. QED BY <1>4, <2>1 DEF ApiDestroy, DestroyBegin, storeVars, CopiesOK
<1>5. CASE Tick \/ UNCHANGED vars
  BY <1>5 DEF Tick, vars, provVars, storeVars, CopiesOK
<1>6. QED
  BY <1>1, <1>2, <1>3, <1>4, <1>5, MgrStepCopies, RcStepCopies, MainStepCopies, ExtendCopies DEF Next

\* A running session has its instance id, whatever copies the creator, the
\* verifier, the manager, the reconciler, ExtendSession and the recovery store.
THEOREM RunningHasInstanceIDAlways == Spec => []RunningHasInstanceID
<1>1. Init => TypeInv /\ CopiesOK
  BY TypeInit, GoodRows
     DEF Init, ProvInit, StoreInit, NoRows, CopiesOK, RowsOK, CrOK, VfOK, MgOK, DcOK, EdOK
<1>2. TypeInv /\ CopiesOK /\ [Next]_vars => TypeInv' /\ CopiesOK'
  BY TypeStep, CopiesStep
<1>3. CopiesOK => RunningHasInstanceID
  BY DEF CopiesOK, RowsOK, RowOK, RunningHasInstanceID
<1>4. QED BY <1>1, <1>2, <1>3, PTL DEF Spec

-----------------------------------------------------------------------------
(* InstanceHasRecord. Rows are never deleted, but a copy that was never    *)
(* filled would delete one when it is stored: every copy that is about to  *)
(* be stored as it is holds a row. And every process that may change an    *)
(* instance works on a session that has a row.                             *)

Present(r) == r.status # "absent"

InstRec == \A s \in Sessions : inst[s] # "none" => Present(row[s])
CrRec == \A s \in Sessions :
           /\ crPc[s] \in {"inserted", "create", "record"} => Present(crRow[s])
           /\ crPc[s] \in {"inserted", "create", "record", "cleanup"} => Present(row[s])
VfRec == \A s \in Sessions :
           /\ vfPc[s] # "off" => Present(row[s])
           /\ vfPc[s] \in {"status", "sshinfo"} => Present(vfRow[s])
DcRec == \A c \in Calls :
           /\ dcPc[c] \notin DcReturned => Present(row[dcSess[c]])
           /\ dcPc[c] = "stopping" => Present(dcRow[c])
MgRec == /\ \A s \in mgTodo : Present(mgRow[s])
         /\ mgCur # NoSession => mgCur \in mgTodo /\ mgStage # "stuck"
RcRec == \A s \in rcSeen : Present(row[s])
EdRec == \A e \in Editors : edPc[e] = "store" => Present(edRow[e])
SdRec == \A s \in sdTodo : Present(row[s])

RecordInv == InstRec /\ CrRec /\ VfRec /\ DcRec /\ MgRec /\ RcRec /\ EdRec /\ SdRec

\* No row disappears in this step.
RowsStay == \A s \in Sessions : Present(row[s]) => Present(row'[s])

\* Which rows are rows of the table.
LEMMA PresentRows ==
  /\ Present(NewRow)
  /\ \A r \in Row, st \in Statuses : Present(With(r, st))
  /\ \A r \in Row : Present(r) => Present(WithID(r)) /\ Present(WithSSH(r)) /\ Present(Extended(r))
  /\ \A r \in Row : Present(r) => Present(WithID(WithSSH(r)))
BY DEF Present, NewRow, With, WithID, WithSSH, Extended, Row, Statuses, Active, Terminal

\* An Update with such a row deletes nothing.
LEMMA UpdateStays ==
  ASSUME row \in [Sessions -> Row], NEW s \in Sessions, NEW r, Present(r), Update(s, r)
  PROVE  RowsStay
BY UpdateEffect DEF RowsStay

\* The parts of the invariant whose variables a step leaves alone.
LEMMA RecordUnchanged ==
  ASSUME TypeInv, RecordInv, RowsStay
  PROVE  /\ UNCHANGED inst => InstRec'
         /\ UNCHANGED crVars => CrRec'
         /\ UNCHANGED vfVars => VfRec'
         /\ UNCHANGED dcVars => DcRec'
         /\ UNCHANGED mgVars => MgRec'
         /\ UNCHANGED rcVars => RcRec'
         /\ UNCHANGED edVars => EdRec'
         /\ UNCHANGED mainVars => SdRec'
<1> USE DEF RecordInv, RowsStay, TypeInv, TypeOK
<1>1. UNCHANGED inst => InstRec'
  BY DEF InstRec
<1>2. UNCHANGED crVars => CrRec'
  BY DEF CrRec, crVars
<1>3. UNCHANGED vfVars => VfRec'
  BY DEF VfRec, vfVars
<1>4. UNCHANGED dcVars => DcRec'
  BY DEF DcRec, dcVars, TargetsOK
<1>5. UNCHANGED mgVars => MgRec'
  BY DEF MgRec, mgVars
<1>6. UNCHANGED rcVars => RcRec'
  BY DEF RcRec, rcVars
<1>7. UNCHANGED edVars => EdRec'
  BY DEF EdRec, edVars
<1>8. UNCHANGED mainVars => SdRec'
  BY DEF SdRec, mainVars
<1>9. QED BY <1>1, <1>2, <1>3, <1>4, <1>5, <1>6, <1>7, <1>8

\* DestroyInstance on a session that has a row.
LEMMA DestroyInstanceRecord ==
  ASSUME TypeInv, RecordInv, RowsStay, NEW s \in Sessions, Present(row[s]), DestroyInstance(s)
  PROVE  InstRec'
BY DEF DestroyInstance, InstRec, RecordInv, RowsStay, TypeInv, TypeOK, ProvTypeOK, StoreTypeOK

\* One step of CreateSession: CreateInstance is only called once the row is there.
LEMMA CreateStepRecord ==
  ASSUME TypeInv, RecordInv, NEW s \in Sessions, CreateCheck(s) \/ CreateStep(s)
  PROVE  RowsStay /\ InstRec' /\ CrRec' /\ VfRec' /\ UNCHANGED dcVars
<1> USE PresentRows, RecordUnchanged DEF CrGo
<1>0. /\ row \in [Sessions -> Row] /\ inst \in [Sessions -> InstStates] /\ row[s] \in Row
      /\ crRow[s] \in Row /\ crRow \in [Sessions -> Row] /\ vfPc \in [Sessions -> VfPcs]
      /\ crPc \in [Sessions -> CrPcs] /\ CrRec /\ InstRec /\ VfRec
  BY DEF TypeInv, TypeOK, ProvTypeOK, StoreTypeOK, RecordInv
<1>1. UNCHANGED row => RowsStay
  BY DEF RowsStay
<1>2. CASE CreateCheck(s) \/ CreateProviderMissing(s) \/ CreateDiskRejected(s)
  <2>1. RowsStay /\ UNCHANGED <<inst, vfVars, dcVars>>
    BY <1>1, <1>2 DEF CreateCheck, CreateProviderMissing, CreateDiskRejected, storeVars
  <2>2. CrRec'
    BY <1>0, <1>2 DEF CreateCheck, CreateProviderMissing, CreateDiskRejected, CrRec, storeVars
  <2>3. QED BY <2>1, <2>2
<1>3. CASE CreateInsert(s)
  <2>1. RowsStay
    BY <1>0, <1>3, UpdateStays DEF CreateInsert, Update
  <2>2. CrRec'
    BY <1>0, <1>3, <2>1 DEF CreateInsert, CrRec, Stored, RowsStay
  <2>3. QED BY <1>3, <2>1, <2>2 DEF CreateInsert
<1>4. CASE CreateProvisioning(s)
  <2>1. Present(With(crRow[s], "provisioning"))
    BY <1>0 DEF Statuses, Active
  <2>2. RowsStay
    BY <1>0, <1>4, <2>1, UpdateStays DEF CreateProvisioning
  <2>3. CrRec'
    BY <1>0, <1>4, <2>1, <2>2 DEF CreateProvisioning, CrRec, RowsStay
  <2>4. QED BY <1>4, <2>2, <2>3 DEF CreateProvisioning
<1>5. CASE CreateInstance(s)
  <2>1. RowsStay
    BY <1>1, <1>5 DEF CreateInstance
  <2>2. CrRec'
    BY <1>0, <1>5 DEF CreateInstance, CrRec
  <2>3. InstRec'
    BY <1>0, <1>5 DEF CreateInstance, CrRec, InstRec
  <2>4. QED BY <1>5, <2>1, <2>2, <2>3 DEF CreateInstance
<1>6. CASE CreateFail(s)
  <2>1. RowsStay
    BY <1>0, <1>6, UpdateStays DEF CreateFail, Statuses, Terminal
  <2>2. CrRec'
    BY <1>0, <1>6, <2>1 DEF CreateFail, CrRec, RowsStay
  <2>3. QED BY <1>6, <2>1, <2>2 DEF CreateFail
<1>7. CASE CreateRecord(s)
  <2>1. Present(crRow[s]) /\ Present(row[s])
    BY <1>0, <1>7 DEF CreateRecord, CrRec
  <2>2. RowsStay
    BY <1>0, <1>7, <2>1, UpdateStays DEF CreateRecord, Update
  <2>3. CrRec'
    BY <1>0, <1>7, <2>1, <2>2 DEF CreateRecord, CrRec, RowsStay
  <2>4. VfRec'
    BY <1>0, <1>7, <2>1, <2>2 DEF CreateRecord, VfRec, RowsStay
  <2>5. QED BY <1>7, <2>2, <2>3, <2>4 DEF CreateRecord
<1>8. CASE CreateCleanup(s)
  <2>1. RowsStay /\ Present(row[s])
    BY <1>0, <1>1, <1>8 DEF CreateCleanup, CrRec
  <2>2. CrRec'
    BY <1>0, <1>8 DEF CreateCleanup, CrRec
  <2>3. InstRec'
    BY <1>8, <2>1, DestroyInstanceRecord DEF CreateCleanup
  <2>4. QED BY <1>8, <2>1, <2>2, <2>3 DEF CreateCleanup
<1>9. QED BY <1>2, <1>3, <1>4, <1>5, <1>6, <1>7, <1>8 DEF CreateStep

\* One step of the verification goroutine.
LEMMA VerifyStepRecord ==
  ASSUME TypeInv, RecordInv, NEW s \in Sessions, VerifyStep(s)
  PROVE  RowsStay /\ InstRec' /\ CrRec' /\ VfRec' /\ UNCHANGED dcVars
<1> USE PresentRows, RecordUnchanged DEF VfGo, VfEnd, VfAgain
<1>0. /\ row \in [Sessions -> Row] /\ vfPc \in [Sessions -> VfPcs] /\ vfRow \in [Sessions -> Row]
      /\ vfRow[s] \in Row /\ VfRec
  BY DEF TypeInv, TypeOK, ProvTypeOK, StoreTypeOK, RecordInv
<1>1. UNCHANGED row => RowsStay
  BY DEF RowsStay
<1>2. CASE VerifyPoll(s) \/ VerifyStatus(s) \/ VerifySSH(s) \/ VerifyTimeout(s) \/ VerifyCtxDone(s)
  <2>1. UNCHANGED <<row, inst, crVars, dcVars>>
    BY <1>2 DEF VerifyPoll, VerifyStatus, VerifySSH, VerifyTimeout, VerifyCtxDone, storeVars
  <2>2. VfRec'
    <3>1. CASE VerifyPoll(s)
      BY <1>0, <2>1, <3>1 DEF VerifyPoll, VfProceed, VfRec
    <3>2. CASE VerifyStatus(s)
      BY <1>0, <2>1, <3>2 DEF VerifyStatus, VfRec
    <3>3. CASE VerifySSH(s)
      BY <1>0, <2>1, <3>3 DEF VerifySSH, VfRec
    <3>4. CASE VerifyTimeout(s) \/ VerifyCtxDone(s)
      BY <1>0, <2>1, <3>4 DEF VerifyTimeout, VerifyCtxDone, VfRec
    <3>5. QED BY <1>2, <3>1, <3>2, <3>3, <3>4
  <2>3. QED BY <1>1, <2>1, <2>2
<1>3. CASE VerifySSHInfo(s)
  <2>1. Present(WithSSH(vfRow[s]))
    BY <1>0, <1>3 DEF VerifySSHInfo, VfRec
  <2>2. RowsStay
    BY <1>0, <1>3, <2>1, UpdateStays DEF VerifySSHInfo
  <2>3. VfRec'
    BY <1>0, <1>3, <2>1, <2>2 DEF VerifySSHInfo, VfRec, RowsStay
  <2>4. QED BY <1>3, <2>2, <2>3 DEF VerifySSHInfo
<1>4. CASE VerifyRunning(s) \/ VerifyFailStore(s)
  <2>1. RowsStay
    BY <1>0, <1>4, UpdateStays DEF VerifyRunning, VerifyFailStore, Statuses, Active, Terminal
  <2>2. VfRec'
    BY <1>0, <1>4, <2>1 DEF VerifyRunning, VerifyFailStore, VfRec, RowsStay
  <2>3. QED BY <1>4, <2>1, <2>2 DEF VerifyRunning, VerifyFailStore
<1>5. CASE VerifyFail(s)
  <2>1. RowsStay /\ Present(row[s])
    BY <1>0, <1>1, <1>5 DEF VerifyFail, VfRec
  <2>2. InstRec'
    BY <1>5, <2>1, DestroyInstanceRecord DEF VerifyFail
  <2>3. VfRec'
    BY <1>0, <1>5, <2>1 DEF VerifyFail, VfRec, RowsStay
  <2>4. QED BY <1>5, <2>1, <2>2, <2>3 DEF VerifyFail
<1>6. QED BY <1>2, <1>3, <1>4, <1>5 DEF VerifyStep

\* One step of DestroySession.
LEMMA DestroyStepRecord ==
  ASSUME TypeInv, RecordInv, NEW c \in Calls, DestroyStep(c)
  PROVE  RowsStay /\ InstRec' /\ DcRec' /\ UNCHANGED <<crVars, vfVars>>
<1> USE PresentRows, RecordUnchanged DEF DcGo, DcReturned
<1>0. /\ row \in [Sessions -> Row] /\ dcRow \in [Calls -> Row] /\ dcRow[c] \in Row
      /\ dcPc \in [Calls -> DcPcs] /\ dcSess \in [Calls -> Sessions \cup {NoSession}]
      /\ DcRec /\ WithoutID(dcRow[c]) \in Row
      /\ \A d \in Calls : dcPc[d] \notin DcReturned => dcSess[d] \in Sessions
  BY RowTypes DEF TypeInv, TargetsOK, TypeOK, ProvTypeOK, StoreTypeOK, RecordInv
<1>1. dcSess[c] \in Sessions /\ Present(row[dcSess[c]])
  BY <1>0 DEF DestroyStep, DestroyRead, DestroyMark, DestroyAttempt, DestroyVerify, DestroyFinal,
     DestroyCleanup, DestroyForget, DcRec
<1>2. UNCHANGED row => RowsStay
  BY DEF RowsStay
<1>3. ASSUME RowsStay, NEW res \in {"ok", "err"}, DcReturn(c, res)
      PROVE  DcRec'
  BY <1>0, <1>3 DEF DcReturn, DcRec, RowsStay
<1>4. ASSUME RowsStay, NEW pc \in DcPcs \ {"stopping"}, DcGo(c, pc), UNCHANGED dcSess,
             \A d \in Calls \ {c} : dcRow'[d] = dcRow[d]
      PROVE  DcRec'
  BY <1>0, <1>1, <1>4 DEF DcRec, RowsStay
<1>5. CASE DestroyRead(c)
  <2>1. RowsStay /\ UNCHANGED <<inst, crVars, vfVars>>
    BY <1>2, <1>5 DEF DestroyRead
  <2>2. DcRec'
    <3>1. CASE \E res \in {"ok", "err"} : DcReturn(c, res)
      BY <1>3, <2>1, <3>1
    <3>2. CASE /\ DcGo(c, "cleanup") /\ UNCHANGED dcSess
               /\ dcRow' = [dcRow EXCEPT ![c] = row[dcSess[c]]]
      BY <1>0, <1>1, <2>1, <3>2 DEF DcRec, RowsStay
    <3>3. CASE /\ DcGo(c, "stopping") /\ UNCHANGED dcSess
               /\ dcRow' = [dcRow EXCEPT ![c] = With(row[dcSess[c]], "stopping")]
      <4>1. Present(With(row[dcSess[c]], "stopping"))
        BY <1>0, <1>1 DEF Statuses
      <4>2. QED BY <1>0, <1>1, <2>1, <3>3, <4>1 DEF DcRec, RowsStay
    <3>4. QED BY <1>5, <3>1, <3>2, <3>3 DEF DestroyRead
  <2>3. QED BY <2>1, <2>2
<1>6. CASE DestroyMark(c)
  <2>1. Present(dcRow[c])
    BY <1>0, <1>6 DEF DestroyMark, DcRec
  <2>2. RowsStay
    BY <1>0, <1>1, <1>6, <2>1, UpdateStays DEF DestroyMark
  <2>3. DcRec'
    <3>1. CASE DcReturn(c, "err")
      BY <1>3, <2>2, <3>1
    <3>2. CASE ~DcReturn(c, "err")
      BY <1>0, <1>1, <1>6, <2>2, <3>2 DEF DestroyMark, DcRec, RowsStay
    <3>3. QED BY <3>1, <3>2
  <2>4. QED BY <1>6, <2>2, <2>3 DEF DestroyMark
<1>7. CASE DestroyAttempt(c) \/ DestroyCleanup(c)
  <2>1. RowsStay /\ UNCHANGED <<crVars, vfVars>>
    BY <1>2, <1>7 DEF DestroyAttempt, DestroyCleanup
  <2>2. InstRec'
    BY <1>1, <1>7, <2>1, DestroyInstanceRecord DEF DestroyAttempt, DestroyCleanup
  <2>3. DcRec'
    BY <1>0, <1>1, <1>7, <2>1 DEF DestroyAttempt, DestroyCleanup, DcRec, RowsStay
  <2>4. QED BY <2>1, <2>2, <2>3
<1>8. CASE DestroyVerify(c)
  <2>1. RowsStay /\ UNCHANGED <<inst, crVars, vfVars>>
    BY <1>2, <1>8 DEF DestroyVerify
  <2>2. DcRec'
    <3>1. CASE DcReturn(c, "err")
      BY <1>3, <2>1, <3>1
    <3>2. CASE ~DcReturn(c, "err")
      BY <1>0, <1>1, <1>8, <2>1, <3>2 DEF DestroyVerify, DcRetry, DcRec, RowsStay
    <3>3. QED BY <3>1, <3>2
  <2>3. QED BY <2>1, <2>2
<1>9. CASE DestroyFinal(c) \/ DestroyForget(c)
  <2>1. Present(With(dcRow[c], "stopped")) /\ Present(With(WithoutID(dcRow[c]), "stopped"))
    BY <1>0 DEF Statuses, Terminal
  <2>2. RowsStay
    BY <1>0, <1>1, <1>9, <2>1, UpdateStays DEF DestroyFinal, DestroyForget
  <2>3. DcRec'
    BY <1>3, <1>9, <2>2 DEF DestroyFinal, DestroyForget
  <2>4. QED BY <1>9, <2>2, <2>3 DEF DestroyFinal, DestroyForget
<1>10. QED BY <1>5, <1>6, <1>7, <1>8, <1>9 DEF DestroyStep

\* DestroySession is only called for sessions that have a row.
LEMMA DestroyBeginRecord ==
  ASSUME TypeInv, RecordInv, NEW c \in Calls, NEW s \in Sessions, DestroyBegin(c, s)
  PROVE  RowsStay /\ InstRec' /\ DcRec' /\ UNCHANGED <<crVars, vfVars>>
<1>1. RowsStay /\ UNCHANGED <<inst, crVars, vfVars>>
  BY DEF DestroyBegin, RowsStay, storeVars
<1>2. DcRec'
  BY <1>1 DEF DestroyBegin, DcGo, DcRec, RowsStay, Present, RecordInv, DcReturned, TypeInv, TargetsOK,
     TypeOK, ProvTypeOK
<1>3. QED BY <1>1, <1>2, RecordUnchanged

\* The steps of the lifecycle manager.
LEMMA MgrStepRecord ==
  ASSUME TypeInv, RecordInv, MgrStep
  PROVE  RecordInv'
<1> USE PresentRows, RecordUnchanged
<1>0. /\ row \in [Sessions -> Row] /\ mgRow \in [Sessions -> Row] /\ MgRec /\ mgTodo \subseteq Sessions
      /\ mgCur \in Sessions \cup {NoSession} /\ dcPc \in [Calls -> DcPcs] /\ DcRec
      /\ \A d \in Calls : dcPc[d] \notin DcReturned => dcSess[d] \in Sessions
  BY DEF TypeInv, TargetsOK, TypeOK, ProvTypeOK, StoreTypeOK, RecordInv
<1>1. UNCHANGED row => RowsStay
  BY DEF RowsStay
<1>2. CASE MgrList
  <2>1. MgRec'
    BY <1>0, <1>2 DEF MgrList, MgRec, Selected, PastHardMax, IsExpired, IsStuck, IsLeaked, Present
  <2>2. QED BY <1>1, <1>2, <2>1 DEF MgrList, RecordInv
<1>3. CASE MgrReturned
  <2>1. mgCur \in Sessions /\ Present(mgRow[mgCur])
    BY <1>0, <1>3 DEF MgrReturned, MgRec
  <2>2. RowsStay
    BY <1>0, <1>1, <1>3, <2>1, UpdateStays DEF MgrReturned
  <2>3. MgRec'
    BY <1>0, <1>3 DEF MgrReturned, MgRec
  <2>4. DcRec'
    BY <1>0, <1>3, <2>2, MgrAssumption DEF MgrReturned, DcRec, RowsStay, DcReturned
  <2>5. QED BY <1>3, <2>2, <2>3, <2>4 DEF MgrReturned, RecordInv
<1>4. ASSUME NEW s \in Sessions, MgrDestroy(s)
      PROVE  RecordInv'
  <2>1. RowsStay /\ InstRec' /\ DcRec' /\ UNCHANGED <<crVars, vfVars>>
    BY <1>4, DestroyBeginRecord, MgrAssumption DEF MgrDestroy
  <2>2. MgRec'
    BY <1>0, <1>4 DEF MgrDestroy, MgRec
  <2>3. QED BY <1>4, <2>1, <2>2 DEF MgrDestroy, RecordInv
<1>5. ASSUME NEW s \in Sessions, MgrStuck(s)
      PROVE  RecordInv'
  <2>1. RowsStay
    BY <1>0, <1>5, UpdateStays DEF MgrStuck, Statuses, Terminal
  <2>2. MgRec'
    BY <1>0, <1>5 DEF MgrStuck, MgRec
  <2>3. QED BY <1>5, <2>1, <2>2 DEF MgrStuck, RecordInv
<1>6. QED BY <1>2, <1>3, <1>4, <1>5 DEF MgrStep

\* The steps of the reconciler: what it saw at the provider has a row.
LEMMA RcStepRecord ==
  ASSUME TypeInv, RecordInv, RcStep
  PROVE  RecordInv'
<1> USE PresentRows, RecordUnchanged
<1>0. /\ row \in [Sessions -> Row] /\ rcRow \in [Sessions -> Row] /\ RcRec /\ SdRec /\ InstRec
      /\ sdTodo \subseteq Sessions /\ rcSeen \subseteq Sessions
  BY DEF TypeInv, TypeOK, ProvTypeOK, StoreTypeOK, RecordInv
<1>1. UNCHANGED row => RowsStay
  BY DEF RowsStay
<1>2. ASSUME RowsStay, UNCHANGED sdTodo PROVE SdRec'
  BY <1>0, <1>2 DEF SdRec, RowsStay
<1>3. ASSUME RowsStay, rcSeen' \subseteq rcSeen PROVE RcRec'
  BY <1>0, <1>3 DEF RcRec, RowsStay
<1>4. CASE RcList
  <2>1. RcRec'
    BY <1>0, <1>4 DEF RcList, RcEnd, RcRec, InstRec, Exists
  <2>2. UNCHANGED sdTodo
    BY <1>4 DEF RcList, RcEnd, mainVars
  <2>3. QED BY <1>1, <1>2, <1>4, <2>1, <2>2 DEF RcList, RecordInv
<1>5. CASE RcRead
  <2>1. rcSeen' \subseteq rcSeen /\ UNCHANGED sdTodo
    BY <1>5 DEF RcRead, RcEnd, mainVars
  <2>2. QED BY <1>1, <1>2, <1>3, <1>5, <2>1 DEF RcRead, RecordInv
<1>6. ASSUME NEW s \in Sessions, RcHandled(s)
      PROVE  rcSeen' \subseteq rcSeen /\ UNCHANGED sdTodo
  BY <1>6 DEF RcHandled, RcEnd, mainVars
<1>7. ASSUME NEW s \in Sessions, RcOrphan(s)
      PROVE  RecordInv'
  <2>1. RowsStay /\ Present(row[s])
    BY <1>0, <1>1, <1>7 DEF RcOrphan, RcRec
  <2>2. InstRec'
    BY <1>7, <2>1, DestroyInstanceRecord DEF RcOrphan
  <2>3. RcRec' /\ SdRec'
    BY <1>2, <1>3, <1>6, <1>7, <2>1 DEF RcOrphan
  <2>4. QED BY <1>7, <2>1, <2>2, <2>3 DEF RcOrphan, RecordInv
<1>8. ASSUME NEW s \in Sessions, RcGhost(s)
      PROVE  RecordInv'
  <2>1. Present(With(rcRow[s], "stopped"))
    BY <1>0 DEF Statuses, Terminal
  <2>2. RowsStay
    BY <1>0, <1>1, <1>8, <2>1, UpdateStays DEF RcGhost
  <2>3. RcRec' /\ SdRec'
    BY <1>2, <1>3, <1>6, <1>8, <2>2 DEF RcGhost
  <2>4. QED BY <1>8, <2>2, <2>3 DEF RcGhost, RecordInv
<1>9. QED BY <1>4, <1>5, <1>7, <1>8 DEF RcStep

\* RecoverStuckSessions.
LEMMA RecoverRecord ==
  ASSUME TypeInv, RecordInv, NEW s \in Sessions, RecoverStuck(s) \/ RecoverFailed(s)
  PROVE  RowsStay /\ InstRec'
<1> USE PresentRows
<1>0. /\ row \in [Sessions -> Row] /\ row[s] \in Row /\ inst \in [Sessions -> InstStates] /\ InstRec
      /\ WithSSH(row[s]) \in Row
      /\ WithoutID(row[s]) \in Row /\ With(WithoutID(row[s]), "failed") \in Row
  BY RowTypes DEF TypeInv, TypeOK, ProvTypeOK, StoreTypeOK, RecordInv, Statuses, Terminal
<1>1. \A r \in Row : Present(With(r, "failed")) /\ Present(With(r, "stopped")) /\ Present(With(r, "running"))
  BY DEF Statuses, Active, Terminal
<1>2. UNCHANGED row => RowsStay
  BY DEF RowsStay
<1>3. ASSUME NEW r, Present(r), row' = [row EXCEPT ![s] = r] PROVE RowsStay
  BY <1>0, <1>3 DEF RowsStay
<1>4. ASSUME NEW r, Present(r), Update(s, r) PROVE RowsStay
  BY <1>0, <1>4, UpdateStays
<1>5. CASE RecoverStuck(s)
  <2> DEFINE over == With(row[s], IF row[s].status = "provisioning" THEN "failed" ELSE "stopped")
  <2>1. Present(over)
    BY <1>0, <1>1
  <2>2. RowsStay
    <3>1. CASE UNCHANGED row
      BY <1>2, <3>1
    <3>2. CASE row' = [row EXCEPT ![s] = over]
      BY <1>3, <2>1, <3>2
    <3>3. CASE \E r : Present(r) /\ Update(s, r)
      BY <1>4, <3>3
    <3>4. QED BY <1>0, <1>1, <1>5, <2>1, <3>1, <3>2, <3>3 DEF RecoverStuck
  <2>3. InstRec'
    <3>1. CASE UNCHANGED inst
      BY <2>2, <3>1, RecordUnchanged
    <3>2. CASE DestroyInstance(s) /\ row[s].status = "stopping"
      BY <2>2, <3>2, DestroyInstanceRecord DEF Present
    <3>3. QED BY <1>5, <3>1, <3>2 DEF RecoverStuck
  <2>4. QED BY <2>2, <2>3
<1>6. CASE RecoverFailed(s)
  <2> DEFINE forgotten == With(WithoutID(row[s]), "failed")
  <2>1. Present(forgotten) /\ Present(With(forgotten, "stopped"))
    BY <1>0, <1>1
  <2>2. RowsStay
    <3>1. CASE row' = row
      BY <1>2, <3>1
    <3>2. CASE row' = [row EXCEPT ![s] = forgotten]
      BY <1>3, <2>1, <3>2
    <3>3. CASE \E r : Present(r) /\ Update(s, r)
      BY <1>4, <3>3
    <3>4. QED BY <1>6, <2>1, <3>1, <3>2, <3>3 DEF RecoverFailed
  <2>3. InstRec'
    <3>1. CASE UNCHANGED inst
      BY <2>2, <3>1, RecordUnchanged
    <3>2. CASE inst[s] = "up" /\ inst' = [inst EXCEPT ![s] = "gone"]
      BY <1>0, <2>2, <3>2 DEF InstRec, RowsStay
    <3>3. QED BY <1>6, <3>1, <3>2 DEF RecoverFailed
  <2>4. QED BY <2>2, <2>3
<1>7. QED BY <1>5, <1>6

\* Startup, shutdown and the crash: what a lost request still makes has a row.
LEMMA MainStepRecord ==
  ASSUME TypeInv, RecordInv, MainStep \/ Crash \/ ShutdownBegin
  PROVE  RecordInv'
<1> USE RecordUnchanged
<1>0. /\ row \in [Sessions -> Row] /\ inst \in [Sessions -> InstStates] /\ InstRec /\ CrRec /\ SdRec
      /\ sdTodo \subseteq Sessions
  BY DEF TypeInv, TypeOK, ProvTypeOK, StoreTypeOK, RecordInv
<1>1. UNCHANGED row => RowsStay
  BY DEF RowsStay
<1>2. ASSUME RowsStay, sdTodo' \subseteq sdTodo PROVE SdRec'
  BY <1>0, <1>2 DEF SdRec, RowsStay
<1>3. CASE Crash \/ ShutdownExit
  <2>1. ProcessLost /\ UNCHANGED row
    BY <1>3 DEF Crash, ShutdownExit
  <2>2. InstRec'
    BY <1>0, <2>1 DEF ProcessLost, InstRec, CrRec
  <2>3. CrRec' /\ VfRec'
    BY <1>0, <2>1 DEF ProcessLost, CrRec, VfRec, CrBusy
  <2>4. DcRec' /\ MgRec' /\ RcRec' /\ EdRec' /\ SdRec'
    BY <2>1 DEF ProcessLost, DcRec, MgRec, RcRec, EdRec, SdRec, DcReturned
  <2>5. QED BY <2>2, <2>3, <2>4 DEF RecordInv
<1>4. CASE ShutdownBegin
  <2>1. SdRec'
    BY <1>4 DEF ShutdownBegin, SdRec, Local, IsActive, Active, Present
  <2>2. QED BY <1>1, <1>4, <2>1 DEF ShutdownBegin, RecordInv
<1>5. CASE Restart \/ RecoverFailedBegin \/ RecoverDone
  <2>1. /\ RowsStay /\ sdTodo' \subseteq sdTodo
        /\ UNCHANGED <<inst, crVars, vfVars, dcVars, mgVars, rcVars, edVars>>
    BY <1>1, <1>5 DEF Restart, RecoverFailedBegin, RecoverDone, storeVars
  <2>2. QED BY <1>2, <2>1 DEF RecordInv
<1>6. ASSUME NEW s \in Sessions, ShutdownDestroy(s)
      PROVE  RecordInv'
  <2>1. /\ RowsStay /\ Present(row[s]) /\ sdTodo' \subseteq sdTodo
        /\ UNCHANGED <<crVars, vfVars, dcVars, mgVars, rcVars, edVars>>
    BY <1>0, <1>1, <1>6 DEF ShutdownDestroy, SdRec
  <2>2. InstRec'
    BY <1>6, <2>1, DestroyInstanceRecord DEF ShutdownDestroy
  <2>3. QED BY <1>2, <2>1, <2>2 DEF RecordInv
<1>7. ASSUME NEW s \in Sessions, RecoverStuck(s) \/ RecoverFailed(s)
      PROVE  RecordInv'
  <2>1. RowsStay /\ InstRec'
    BY <1>7, RecoverRecord
  <2>2. /\ sdTodo' \subseteq sdTodo
        /\ UNCHANGED <<crVars, vfVars, dcVars, mgVars, rcVars, edVars>>
    BY <1>7 DEF RecoverStuck, RecoverFailed
  <2>3. QED BY <1>2, <2>1, <2>2 DEF RecordInv
<1>8. QED BY <1>3, <1>4, <1>5, <1>6, <1>7 DEF MainStep

\* ExtendSession.
LEMMA ExtendRecord ==
  ASSUME TypeInv, RecordInv, NEW e \in Editors,
         ExtendStore(e) \/ \E s \in Sessions : ExtendRead(e, s)
  PROVE  RecordInv'
<1> USE PresentRows, RecordUnchanged
<1>0. row \in [Sessions -> Row] /\ edRow \in [Editors -> Row] /\ EdRec /\ edPc \in [Editors -> {"idle", "store"}]
  BY DEF TypeInv, TypeOK, ProvTypeOK, StoreTypeOK, RecordInv
<1>1. CASE ExtendStore(e)
  <2>1. edSess[e] \in Sessions /\ Present(edRow[e])
    BY <1>0, <1>1 DEF ExtendStore, EdRec, TypeInv, TargetsOK
  <2>2. RowsStay
    BY <1>0, <1>1, <2>1, UpdateStays DEF ExtendStore
  <2>3. EdRec'
    BY <1>0, <1>1 DEF ExtendStore, EdRec
  <2>4. QED BY <1>1, <2>2, <2>3 DEF ExtendStore, RecordInv
<1>2. ASSUME NEW s \in Sessions, ExtendRead(e, s)
      PROVE  RecordInv'
  <2>1. Present(Extended(row[s]))
    BY <1>0, <1>2 DEF ExtendRead, IsActive, Active, Present
  <2>2. EdRec'
    BY <1>0, <1>2, <2>1 DEF ExtendRead, EdRec
  <2>3. RowsStay
    BY <1>2 DEF ExtendRead, provVars, storeVars, RowsStay
  <2>4. QED BY <1>2, <2>2, <2>3 DEF ExtendRead, provVars, storeVars, RecordInv
<1>3. QED BY <1>1, <1>2

\* The invariant of the records is inductive.
LEMMA RecordStep ==
  ASSUME TypeInv, RecordInv, [Next]_vars
  PROVE  RecordInv'
<1> USE RecordUnchanged
<1>1. ASSUME NEW s \in Sessions, Creating(s) \/ Verifying(s) \/ ApiCreate(s)
      PROVE  RecordInv'
  <2>1. RowsStay /\ InstRec' /\ CrRec' /\ VfRec' /\ UNCHANGED dcVars
    BY <1>1, CreateStepRecord, VerifyStepRecord DEF Creating, Verifying, ApiCreate
  <2>2. UNCHANGED <<mgVars, rcVars, edVars, mainVars>>
    BY <1>1 DEF Creating, Verifying, ApiCreate
  <2>3. QED BY <2>1, <2>2 DEF RecordInv
<1>2. ASSUME NEW s \in Sessions, Hosting(s)
      PROVE  RecordInv'
  <2>1. RowsStay
    BY <1>2 DEF Hosting, InstanceStep, InstanceBoots, InstanceLost, RowsStay
  <2>2. InstRec'
    BY <1>2 DEF Hosting, InstanceStep, InstanceBoots, InstanceLost, InstRec, Exists, RecordInv,
       TypeInv, TypeOK, ProvTypeOK, StoreTypeOK
  <2>3. QED BY <1>2, <2>1, <2>2 DEF Hosting, InstanceStep, RecordInv
<1>3. ASSUME NEW c \in Calls, Destroying(c)
      PROVE  RecordInv'
  BY <1>3, DestroyStepRecord DEF Destroying, RecordInv
<1>4. ASSUME NEW c \in Calls, NEW s \in Sessions, ApiDestroy(c, s)
      PROVE  RecordInv'
  BY <1>4, DestroyBeginRecord DEF ApiDestroy, RecordInv
<1>5. CASE Tick
  <2>1. RowsStay /\ RcRec'
    BY <1>5 DEF Tick, RowsStay, RcRec, RecordInv
  <2>2. QED BY <1>5, <2>1 DEF Tick, RecordInv
<1>6. CASE UNCHANGED vars
  <2>1. RowsStay
    BY <1>6 DEF vars, provVars, storeVars, RowsStay
  <2>2. QED BY <1>6, <2>1 DEF vars, provVars, storeVars, RecordInv
<1>7. QED
  BY <1>1, <1>2, <1>3, <1>4, <1>5, <1>6, MgrStepRecord, RcStepRecord, MainStepRecord, ExtendRecord DEF Next

\* Every instance at the provider belongs to a session the table knows, whatever
\* crashes, fails or is lost (the point of two-phase provisioning).
THEOREM InstanceHasRecordAlways == Spec => []InstanceHasRecord
<1>1. Init => TypeInv /\ RecordInv
  BY TypeInit
     DEF Init, ProvInit, StoreInit, RecordInv, InstRec, CrRec, VfRec, DcRec, MgRec, RcRec, EdRec, SdRec,
         DcReturned
<1>2. TypeInv /\ RecordInv /\ [Next]_vars => TypeInv' /\ RecordInv'
  BY TypeStep, RecordStep
<1>3. RecordInv => InstanceHasRecord
  BY DEF RecordInv, InstRec, Present, InstanceHasRecord
<1>4. QED BY <1>1, <1>2, <1>3, PTL DEF Spec

-----------------------------------------------------------------------------
(* GhostsAreGone. An instance that a reliable list did not show was        *)
(* created after the provider was asked, by a request that was not older   *)
(* than CreateMax; the pass has taken rcAge since, so the session is       *)
(* younger than GhostGrace.                                                *)

\* Faults are counted up.
FaultsGrow == faults' = 0 => faults = 0

\* Every step counts its fault or has none.
LEMMA EveryFault ==
  ASSUME TypeInv, [Next]_vars
  PROVE  FaultsGrow
<1> USE DEF Fault, NoFault
<1>0. SUFFICES faults' = faults \/ faults' = faults + 1
  BY DEF FaultsGrow, TypeInv, TypeOK, ProvTypeOK, StoreTypeOK
<1> USE DEF Update, Stored, NotStored, DestroyInstance, storeVars
<1>1. ASSUME NEW s \in Sessions, Creating(s) \/ ApiCreate(s)
      PROVE  faults' = faults \/ faults' = faults + 1
  BY <1>1 DEF Creating, ApiCreate, CreateStep, CreateCheck, CreateInsert, CreateProviderMissing,
     CreateDiskRejected, CreateProvisioning, CreateInstance, CreateFail, CreateRecord, CreateCleanup
<1>2. ASSUME NEW s \in Sessions, Verifying(s) \/ Hosting(s)
      PROVE  faults' = faults \/ faults' = faults + 1
  BY <1>2 DEF Verifying, VerifyStep, VerifyPoll, VerifyStatus, VerifySSHInfo, VerifySSH, VerifyRunning,
     VerifyTimeout, VerifyCtxDone, VerifyFail, VerifyFailStore, Hosting, InstanceStep, InstanceBoots,
     InstanceLost
<1>3. ASSUME NEW c \in Calls, Destroying(c)
      PROVE  faults' = faults \/ faults' = faults + 1
  BY <1>3 DEF Destroying, DestroyStep, DestroyRead, DestroyMark, DestroyAttempt, DestroyVerify,
     DestroyFinal, DestroyCleanup, DestroyForget
<1>4. CASE MgrStep
  BY <1>4 DEF MgrStep, MgrList, MgrReturned, MgrDestroy, MgrStuck, DestroyBegin
<1>5. CASE RcStep
  BY <1>5 DEF RcStep, RcList, RcRead, RcOrphan, RcGhost
<1>6. CASE MainStep \/ Crash \/ ShutdownBegin
  BY <1>6 DEF MainStep, Crash, ShutdownBegin, ShutdownExit, ShutdownDestroy, Restart, RecoverStuck,
     RecoverFailedBegin, RecoverFailed, RecoverDone
<1>7. ASSUME NEW e \in Editors, ExtendStore(e) \/ \E s \in Sessions : ExtendRead(e, s)
      PROVE  faults' = faults \/ faults' = faults + 1
  BY <1>7 DEF ExtendStore, ExtendRead, provVars
<1>8. ASSUME NEW c \in Calls, NEW s \in Sessions, ApiDestroy(c, s)
      PROVE  faults' = faults
  BY <1>8 DEF ApiDestroy, DestroyBegin
<1>9. CASE Tick \/ UNCHANGED vars
  BY <1>9 DEF Tick, vars, provVars
<1>10. QED BY <1>1, <1>2, <1>3, <1>4, <1>5, <1>6, <1>7, <1>8, <1>9 DEF Next

CrAge == \A s \in Sessions : crPc[s] \in {"inserted", "create", "record"} => age[s] <= CreateMax
PassAge == (faults = 0 => rcAge <= PassMax) /\ (rcPc = "idle" => rcAge = 0)

\* The sessions of which GhostsAreGone speaks.
Reliable(s) == faults = 0 \/ (s \notin HidesErrors /\ rcAge <= PassMax)

UnseenAge == \A s \in Sessions :
               (rcPc # "idle" /\ s \notin rcSeen /\ inst[s] \in Exists /\ Reliable(s))
                 => age[s] <= CreateMax + rcAge

GhostInv == CrAge /\ PassAge /\ UnseenAge

\* No instance comes into being in this step.
NoNewInstance == \A s \in Sessions : inst'[s] \in Exists => inst[s] \in Exists

\* A step that creates no instance and leaves the clock, the creators and the
\* reconciler alone keeps the invariant.
LEMMA GhostUnchanged ==
  ASSUME GhostInv, FaultsGrow, NoNewInstance, UNCHANGED <<age, crVars, rcVars>>
  PROVE  GhostInv'
BY DEF GhostInv, FaultsGrow, CrAge, PassAge, UnseenAge, Reliable, FaultsGrow, Reliable, NoNewInstance, crVars, rcVars

\* DestroyInstance creates nothing.
LEMMA DestroyNoNew ==
  ASSUME TypeInv, NEW s \in Sessions, DestroyInstance(s) \/ UNCHANGED inst
  PROVE  NoNewInstance
BY DEF DestroyInstance, NoNewInstance, Exists, TypeInv, TypeOK, ProvTypeOK, StoreTypeOK

\* One step of CreateSession: the instance it creates is young.
LEMMA CreateStepGhost ==
  ASSUME TypeInv, GhostInv, FaultsGrow, NEW s \in Sessions, CreateCheck(s) \/ CreateStep(s), UNCHANGED rcVars
  PROVE  GhostInv'
<1> USE TimesAssumption DEF CrGo
<1>0. /\ crPc \in [Sessions -> CrPcs] /\ age \in [Sessions -> Nat] /\ inst \in [Sessions -> InstStates]
      /\ rcAge \in Nat /\ CreateMax \in Nat /\ CrAge /\ PassAge /\ UnseenAge
  BY DEF TypeInv, TypeOK, ProvTypeOK, StoreTypeOK, GhostInv
<1>1. PassAge'
  BY <1>0 DEF PassAge, FaultsGrow, rcVars
<1>2. CASE CreateInstance(s)
  <2>1. age[s] <= CreateMax /\ UNCHANGED age
    BY <1>0, <1>2 DEF CreateInstance, CrAge
  <2>2. CrAge'
    BY <1>0, <1>2, <2>1 DEF CreateInstance, CrAge
  <2>3. UnseenAge'
    BY <1>0, <1>2, <2>1 DEF CreateInstance, UnseenAge, Reliable, FaultsGrow, rcVars
  <2>4. QED BY <1>1, <2>2, <2>3 DEF GhostInv
<1>3. CASE CreateInsert(s)
  <2>1. CrAge'
    BY <1>0, <1>3 DEF CreateInsert, CrAge
  <2>2. UnseenAge'
    BY <1>0, <1>3 DEF CreateInsert, UnseenAge, Reliable, FaultsGrow, rcVars
  <2>3. QED BY <1>1, <2>1, <2>2 DEF GhostInv
<1>4. CASE \/ CreateCheck(s) \/ CreateProviderMissing(s) \/ CreateDiskRejected(s)
           \/ CreateProvisioning(s) \/ CreateFail(s) \/ CreateRecord(s) \/ CreateCleanup(s)
  <2>1. UNCHANGED age /\ (DestroyInstance(s) \/ UNCHANGED inst)
    BY <1>4 DEF CreateCheck, CreateProviderMissing, CreateDiskRejected, CreateProvisioning, CreateFail,
       CreateRecord, CreateCleanup, storeVars
  <2>2. NoNewInstance
    BY <2>1, DestroyNoNew
  <2>3. CrAge'
    BY <1>0, <1>4, <2>1 DEF CreateCheck, CreateProviderMissing, CreateDiskRejected, CreateProvisioning,
       CreateFail, CreateRecord, CreateCleanup, CrAge
  <2>4. UnseenAge'
    BY <1>0, <2>1, <2>2 DEF UnseenAge, Reliable, FaultsGrow, NoNewInstance, rcVars
  <2>5. QED BY <1>1, <2>3, <2>4 DEF GhostInv
<1>5. QED BY <1>2, <1>3, <1>4 DEF CreateStep

\* The steps of the reconciler: the list is complete when it is made.
LEMMA RcStepGhost ==
  ASSUME TypeInv, GhostInv, FaultsGrow, RcStep
  PROVE  GhostInv'
<1> USE TimesAssumption
<1>0. rcAge \in Nat /\ CreateMax \in Nat /\ PassMax \in Nat /\ CrAge /\ PassAge /\ UnseenAge
  BY DEF TypeInv, TypeOK, GhostInv
<1>1. UNCHANGED <<age, crVars>> => CrAge'
  BY <1>0 DEF CrAge, crVars
<1>2. ASSUME RcEnd PROVE PassAge' /\ UnseenAge'
  BY <1>0, <1>2 DEF RcEnd, PassAge, UnseenAge, Reliable, FaultsGrow
<1>3. CASE RcList
  <2>1. CASE RcEnd
    BY <1>1, <1>2, <1>3, <2>1 DEF RcList, GhostInv
  <2>2. CASE ~RcEnd
    <3>1. PassAge' /\ UnseenAge'
      BY <1>0, <1>3, <2>2 DEF RcList, RcPass, PassAge, UnseenAge, Reliable, FaultsGrow, Fault, NoFault
    <3>2. QED BY <1>1, <1>3, <3>1 DEF RcList, GhostInv
  <2>3. QED BY <2>1, <2>2
<1>4. CASE RcRead
  <2>1. CASE RcEnd
    BY <1>1, <1>2, <1>4, <2>1 DEF RcRead, GhostInv
  <2>2. CASE ~RcEnd
    <3>1. PassAge' /\ UnseenAge'
      BY <1>0, <1>4, <2>2 DEF RcRead, RcPass, PassAge, UnseenAge, Reliable, FaultsGrow
    <3>2. QED BY <1>1, <1>4, <3>1 DEF RcRead, GhostInv
  <2>3. QED BY <2>1, <2>2
<1>5. ASSUME NEW s \in Sessions, RcOrphan(s) \/ RcGhost(s)
      PROVE  GhostInv'
  <2>1. RcHandled(s) /\ UNCHANGED <<age, crVars>> /\ (DestroyInstance(s) \/ UNCHANGED inst)
    BY <1>5 DEF RcOrphan, RcGhost
  <2>2. NoNewInstance
    BY <2>1, DestroyNoNew
  <2>3. CASE RcEnd
    BY <1>1, <1>2, <2>1, <2>3 DEF GhostInv
  <2>4. CASE ~RcEnd
    <3>1. UNCHANGED <<rcPc, rcSeen, rcAge>>
      BY <2>1, <2>4 DEF RcHandled
    <3>2. PassAge' /\ UnseenAge'
      BY <1>0, <2>1, <2>2, <3>1 DEF PassAge, UnseenAge, Reliable, FaultsGrow, NoNewInstance
    <3>3. QED BY <1>1, <2>1, <3>2 DEF GhostInv
  <2>5. QED BY <2>3, <2>4
<1>6. QED BY <1>3, <1>4, <1>5 DEF RcStep

\* Startup, shutdown and the crash: no pass survives the process.
LEMMA MainStepGhost ==
  ASSUME TypeInv, GhostInv, FaultsGrow, MainStep \/ Crash \/ ShutdownBegin
  PROVE  GhostInv'
<1>1. CASE Crash \/ ShutdownExit
  <2>1. ProcessLost /\ UNCHANGED age
    BY <1>1 DEF Crash, ShutdownExit
  <2>2. CrAge'
    BY <2>1 DEF ProcessLost, CrAge, CrBusy, GhostInv, TypeInv, TypeOK, ProvTypeOK
  <2>3. PassAge' /\ UnseenAge'
    BY <2>1, TimesAssumption DEF ProcessLost, PassAge, UnseenAge, Reliable, FaultsGrow
  <2>4. QED BY <2>2, <2>3 DEF GhostInv
<1>2. CASE ShutdownBegin \/ Restart \/ RecoverFailedBegin \/ RecoverDone
  <2>1. UNCHANGED <<inst, age, crVars, rcVars>>
    BY <1>2 DEF ShutdownBegin, Restart, RecoverFailedBegin, RecoverDone, storeVars
  <2>2. QED BY <2>1, GhostUnchanged DEF NoNewInstance
<1>3. ASSUME NEW s \in Sessions, ShutdownDestroy(s) \/ RecoverStuck(s) \/ RecoverFailed(s)
      PROVE  GhostInv'
  <2>1. /\ UNCHANGED <<age, crVars, rcVars>>
        /\ DestroyInstance(s) \/ UNCHANGED inst \/ inst' = [inst EXCEPT ![s] = "gone"]
    BY <1>3 DEF ShutdownDestroy, RecoverStuck, RecoverFailed
  <2>2. NoNewInstance
    BY <2>1, DestroyNoNew DEF NoNewInstance, Exists, TypeInv, TypeOK, ProvTypeOK, StoreTypeOK
  <2>3. QED BY <2>1, <2>2, GhostUnchanged
<1>4. QED BY <1>1, <1>2, <1>3 DEF MainStep

\* The clock: it does not run ahead of creators and passes.
LEMMA TickGhost ==
  ASSUME TypeInv, GhostInv, FaultsGrow, Tick
  PROVE  GhostInv'
<1> USE TimesAssumption
<1>0. rcAge \in Nat /\ CreateMax \in Nat /\ PassMax \in Nat /\ CrAge /\ PassAge /\ UnseenAge
      /\ age \in [Sessions -> Nat]
  BY DEF TypeInv, TypeOK, ProvTypeOK, StoreTypeOK, GhostInv
<1>1. \A s \in Sessions : age'[s] \in Nat /\ age'[s] <= age[s] + 1
  BY <1>0 DEF Tick, Aged
<1>2. CrAge'
  BY <1>0, <1>1 DEF Tick, CrAge, crVars
<1>3. PassAge'
  BY <1>0 DEF Tick, PassAge, FaultsGrow, Fault, NoFault
<1>4. UnseenAge'
  BY <1>0, <1>1 DEF Tick, UnseenAge, Reliable, FaultsGrow, PassAge, Fault, NoFault
<1>5. QED BY <1>2, <1>3, <1>4 DEF GhostInv

\* The invariant of the ages is inductive.
LEMMA GhostStep ==
  ASSUME TypeInv, GhostInv, [Next]_vars
  PROVE  GhostInv'
<1>0. FaultsGrow
  BY EveryFault
<1> USE <1>0
<1>1. ASSUME NEW s \in Sessions, Creating(s) \/ ApiCreate(s)
      PROVE  GhostInv'
  BY <1>1, CreateStepGhost DEF Creating, ApiCreate
<1>2. ASSUME NEW s \in Sessions, Verifying(s)
      PROVE  GhostInv'
  <2>1. UNCHANGED <<age, crVars, rcVars>> /\ (DestroyInstance(s) \/ UNCHANGED inst)
    BY <1>2 DEF Verifying, VerifyStep, VerifyPoll, VerifyStatus, VerifySSHInfo, VerifySSH, VerifyRunning,
       VerifyTimeout, VerifyCtxDone, VerifyFail, VerifyFailStore, storeVars
  <2>2. QED BY <2>1, DestroyNoNew, GhostUnchanged
<1>3. ASSUME NEW s \in Sessions, Hosting(s)
      PROVE  GhostInv'
  <2>1. NoNewInstance
    BY <1>3 DEF Hosting, InstanceStep, InstanceBoots, InstanceLost, NoNewInstance, Exists,
       TypeInv, TypeOK, ProvTypeOK, StoreTypeOK
  <2>2. UNCHANGED <<age, crVars, rcVars>>
    BY <1>3 DEF Hosting, InstanceStep, InstanceBoots, InstanceLost
  <2>3. QED BY <2>1, <2>2, GhostUnchanged
<1>4. ASSUME NEW c \in Calls, Destroying(c)
      PROVE  GhostInv'
  <2>1. UNCHANGED <<age, crVars, rcVars>> /\ (UNCHANGED inst \/ DestroyInstance(dcSess[c]))
    BY <1>4 DEF Destroying, DestroyStep, DestroyRead, DestroyMark, DestroyAttempt, DestroyVerify,
       DestroyFinal, DestroyCleanup, DestroyForget
  <2>2. NoNewInstance
    BY <2>1 DEF DestroyInstance, NoNewInstance, Exists, TypeInv, TypeOK, ProvTypeOK, StoreTypeOK
  <2>3. QED BY <2>1, <2>2, GhostUnchanged
<1>5. ASSUME UNCHANGED <<inst, age, crVars, rcVars>>
      PROVE  GhostInv'
  BY <1>5, GhostUnchanged DEF NoNewInstance
<1>6. ASSUME NEW c \in Calls, NEW s \in Sessions, ApiDestroy(c, s)
      PROVE  GhostInv'
  BY <1>5, <1>6 DEF ApiDestroy, DestroyBegin, storeVars
<1>7. CASE MgrStep
  BY <1>5, <1>7 DEF MgrStep, MgrList, MgrReturned, MgrDestroy, MgrStuck, DestroyBegin, storeVars
<1>8. ASSUME NEW e \in Editors, ExtendStore(e) \/ \E s \in Sessions : ExtendRead(e, s)
      PROVE  GhostInv'
  BY <1>5, <1>8 DEF ExtendStore, ExtendRead, provVars, storeVars
<1>9. CASE UNCHANGED vars
  BY <1>5, <1>9 DEF vars, provVars, storeVars
<1>10. QED
  BY <1>1, <1>2, <1>3, <1>4, <1>6, <1>7, <1>8, <1>9, RcStepGhost, MainStepGhost, TickGhost DEF Next

\* handleGhost never gives up a session whose instance is at the provider, for any
\* number of sessions, crashes and failures, in a pass that is not slow and of a
\* provider whose failed list is an error: the request that creates an instance and
\* such a pass together take less than ghostGracePeriod.
THEOREM GhostsAreGoneAlways == Spec => []GhostsAreGone
<1>1. Init => TypeInv /\ GhostInv
  BY TypeInit, TimesAssumption DEF Init, ProvInit, StoreInit, GhostInv, CrAge, PassAge, UnseenAge, Reliable, FaultsGrow, Exists
<1>2. TypeInv /\ GhostInv /\ [Next]_vars => TypeInv' /\ GhostInv'
  BY TypeStep, GhostStep
<1>3. TypeInv /\ GhostInv => GhostsAreGone
  BY TimesAssumption
     DEF GhostInv, PassAge, UnseenAge, Reliable, FaultsGrow, GhostsAreGone, IsGhost, TypeInv, TypeOK, ProvTypeOK, StoreTypeOK
<1>4. QED BY <1>1, <1>2, <1>3, PTL DEF Spec

-----------------------------------------------------------------------------
(* UniqueActive. Every write of an active row is an INSERT or an UPDATE    *)
(* that the partial index may refuse.                                      *)

\* The step stores a row through the index, a row that is not active, or none.
RowWrite ==
  \/ UNCHANGED row
  \/ \E s \in Sessions : \E r : Update(s, r)
  \/ \E s \in Sessions : \E r : ~IsActive(r) /\ row' = [row EXCEPT ![s] = r]

\* The startup recovery, whose fault branch stores without asking the index.
LEMMA RecoverWrite ==
  ASSUME TypeInv, NEW s \in Sessions, RecoverStuck(s) \/ RecoverFailed(s)
  PROVE  RowWrite
<1>1. \A r \in Row : ~IsActive(With(r, "failed")) /\ ~IsActive(With(r, "stopped"))
  BY DEF With, Row, IsActive, Active
<1>2. row[s] \in Row /\ WithoutID(row[s]) \in Row
  BY RowTypes DEF TypeInv, TypeOK, ProvTypeOK, StoreTypeOK
<1>3. CASE RecoverStuck(s)
  <2> DEFINE over == With(row[s], IF row[s].status = "provisioning" THEN "failed" ELSE "stopped")
  <2>1. ~IsActive(over)
    BY <1>1, <1>2
  <2>2. \/ UNCHANGED row \/ \E r : Update(s, r) \/ row' = [row EXCEPT ![s] = over]
    BY <1>3 DEF RecoverStuck
  <2>3. QED BY <2>1, <2>2 DEF RowWrite
<1>4. CASE RecoverFailed(s)
  <2> DEFINE forgotten == With(WithoutID(row[s]), "failed")
  <2>1. ~IsActive(forgotten)
    BY <1>1, <1>2
  <2>2. \/ row' = row \/ \E r : Update(s, r) \/ row' = [row EXCEPT ![s] = forgotten]
    BY <1>4 DEF RecoverFailed
  <2>3. QED BY <2>1, <2>2 DEF RowWrite
<1>5. QED BY <1>3, <1>4

\* All steps.
LEMMA EveryWrite ==
  ASSUME TypeInv, [Next]_vars
  PROVE  RowWrite
<1>1. ASSUME NEW s \in Sessions, Creating(s) \/ ApiCreate(s)
      PROVE  UNCHANGED row \/ \E r : Update(s, r)
  BY <1>1 DEF Creating, ApiCreate, CreateStep, CreateCheck, CreateInsert, CreateProviderMissing,
     CreateDiskRejected, CreateProvisioning, CreateInstance, CreateFail, CreateRecord, CreateCleanup,
     Update, storeVars
<1>2. ASSUME NEW s \in Sessions, Verifying(s) \/ Hosting(s)
      PROVE  UNCHANGED row \/ \E r : Update(s, r)
  BY <1>2 DEF Verifying, VerifyStep, VerifyPoll, VerifyStatus, VerifySSHInfo, VerifySSH, VerifyRunning,
     VerifyTimeout, VerifyCtxDone, VerifyFail, VerifyFailStore, Hosting, InstanceStep, InstanceBoots,
     InstanceLost, storeVars
<1>3. ASSUME NEW c \in Calls, Destroying(c)
      PROVE  RowWrite
  <2>1. UNCHANGED row \/ (dcPc[c] \in DcBody /\ \E r : Update(dcSess[c], r))
    BY <1>3 DEF Destroying, DestroyStep, DestroyRead, DestroyMark, DestroyAttempt, DestroyVerify,
       DestroyFinal, DestroyCleanup, DestroyForget, DcBody
  <2>2. dcPc[c] \in DcBody => dcSess[c] \in Sessions
    BY DEF TypeInv, TargetsOK, DcBody, DcReturned
  <2>3. QED BY <2>1, <2>2 DEF RowWrite
<1>4. CASE MgrStep
  <2>1. UNCHANGED row \/ (mgCur # NoSession /\ Update(mgCur, mgRow[mgCur]))
          \/ \E s \in Sessions : \E r : Update(s, r)
    BY <1>4 DEF MgrStep, MgrList, MgrReturned, MgrDestroy, MgrStuck, DestroyBegin, storeVars
  <2>2. QED BY <2>1 DEF RowWrite, TypeInv, TypeOK
<1>5. CASE RcStep
  BY <1>5 DEF RcStep, RcList, RcRead, RcOrphan, RcGhost, RowWrite
<1>6. CASE MainStep \/ Crash \/ ShutdownBegin
  <2>1. ASSUME NEW s \in Sessions, RecoverStuck(s) \/ RecoverFailed(s)
        PROVE  RowWrite
    BY <2>1, RecoverWrite
  <2>2. QED
    BY <1>6, <2>1 DEF MainStep, Crash, ShutdownBegin, ShutdownExit, ShutdownDestroy, Restart,
       RecoverFailedBegin, RecoverDone, RowWrite, storeVars
<1>7. ASSUME NEW e \in Editors, ExtendStore(e) \/ \E s \in Sessions : ExtendRead(e, s)
      PROVE  RowWrite
  <2>1. UNCHANGED row \/ (edSess[e] \in Sessions /\ Update(edSess[e], edRow[e]))
    BY <1>7 DEF ExtendStore, ExtendRead, provVars, storeVars, TypeInv, TargetsOK
  <2>2. QED BY <2>1 DEF RowWrite
<1>8. ASSUME NEW c \in Calls, NEW s \in Sessions, ApiDestroy(c, s)
      PROVE  UNCHANGED row
  BY <1>8 DEF ApiDestroy, DestroyBegin, storeVars
<1>9. CASE Tick \/ UNCHANGED vars
  BY <1>9 DEF Tick, vars, provVars, storeVars, RowWrite
<1>10. QED
  BY <1>1, <1>2, <1>3, <1>4, <1>5, <1>6, <1>7, <1>8, <1>9 DEF Next, RowWrite

\* At most one active session per consumer and offer, however late the stale
\* copies of six components are stored.
THEOREM UniqueActiveAlways == Spec => []UniqueActive
<1>1. Init => TypeInv /\ UniqueActive
  BY TypeInit DEF Init, ProvInit, StoreInit, UniqueActive, IsActive, Active, NoRow
<1>2. ASSUME TypeInv, UniqueActive, [Next]_vars
      PROVE  UniqueActive'
  <2>1. row \in [Sessions -> Row] /\ RowWrite
    BY <1>2, EveryWrite DEF TypeInv, TypeOK, ProvTypeOK, StoreTypeOK
  <2>2. CASE UNCHANGED row
    BY <1>2, <2>2 DEF UniqueActive
  <2>3. ASSUME NEW s \in Sessions, NEW r, row' = [row EXCEPT ![s] = r], IndexAllows(s, r)
        PROVE  UniqueActive'
    BY <1>2, <2>1, <2>3 DEF UniqueActive, IndexAllows, HasActiveTwin
  <2>4. ASSUME NEW s \in Sessions, NEW r, Update(s, r)
        PROVE  UniqueActive'
    BY <2>2, <2>3, <2>4 DEF Update, Stored, NotStored
  <2>5. ASSUME NEW s \in Sessions, NEW r, ~IsActive(r), row' = [row EXCEPT ![s] = r]
        PROVE  UniqueActive'
    BY <2>3, <2>5 DEF IndexAllows
  <2>6. QED BY <2>1, <2>2, <2>4, <2>5 DEF RowWrite
<1>3. QED BY <1>1, <1>2, TypeStep, PTL DEF Spec

-----------------------------------------------------------------------------
(* InstanceOnce. A session makes one CreateInstance call, before which     *)
(* nobody can know an instance id; so every id in a row or a copy is the   *)
(* id of an instance that was made, and only those are ever destroyed.     *)

\* The request has not called CreateInstance yet.
BeforeCall == {"off", "checked", "inserted", "create"}

Made(s) == inst[s] # "none"

OnceInv == \A s \in Sessions : crPc[s] \in BeforeCall => ~Made(s)
RowId == \A s \in Sessions : row[s].pid => Made(s)
CrId == \A s \in Sessions : crRow[s].pid => Made(s)
VfId == \A s \in Sessions : vfRow[s].pid => Made(s)
DcId == \A c \in Calls : /\ dcRow[c].pid => dcSess[c] \in Sessions /\ Made(dcSess[c])
                         /\ dcPc[c] \in {"destroy", "verify", "cleanup"} => dcRow[c].pid
                         /\ dcPc[c] \in DcReturned => ~dcRow[c].pid
MgId == \A s \in Sessions : mgRow[s].pid => Made(s)
RcId == /\ \A s \in Sessions : rcRow[s].pid => Made(s)
        /\ \A s \in rcSeen : Made(s)
EdId == \A e \in Editors : edRow[e].pid => edSess[e] \in Sessions /\ Made(edSess[e])
SdId == \A s \in sdTodo : Made(s)

IdInv == OnceInv /\ RowId /\ CrId /\ VfId /\ DcId /\ MgId /\ RcId /\ EdId /\ SdId

\* What a step may do to an instance: it is made once and stays gone.
Forward == \A s \in Sessions : /\ Made(s) => inst'[s] # "none"
                               /\ inst[s] = "gone" => inst'[s] = "gone"

\* Once a session's instance is gone it never exists again, and no other is made.
InstanceOnce == [][Forward]_vars

\* The id in the rows that are made of rows.
LEMMA PidRows ==
  /\ ~NoRow.pid /\ ~NewRow.pid
  /\ \A r \in Row : /\ WithSSH(r).pid = r.pid /\ Extended(r).pid = r.pid /\ ~WithoutID(r).pid
                    /\ \A st \in Statuses : With(r, st).pid = r.pid
BY DEF NoRow, NewRow, Row, With, WithSSH, WithoutID, Extended

\* A row that forgot its instance id has none, whatever its status.
LEMMA ForgottenRows == \A r \in Row : \A st \in Statuses : ~With(WithoutID(r), st).pid
BY DEF Row, With, WithoutID

\* The status of the rows that are made of rows.
LEMMA StatusRows ==
  /\ NoRow.status = "absent" /\ NewRow.status = "pending"
  /\ \A r \in Row : /\ WithSSH(r).status = r.status /\ WithoutID(r).status = r.status
                    /\ WithID(r).status = r.status /\ Extended(r).status = r.status
                    /\ \A st \in Statuses : With(r, st).status = st
BY DEF NoRow, NewRow, Row, With, WithID, WithSSH, WithoutID, Extended

\* The names of the statuses that are written.
LEMMA StatusNames ==
  {"pending", "provisioning", "running", "stopping", "stopped", "failed"} \subseteq Statuses
BY DEF Statuses, Active, Terminal

\* An Update stores no id of an instance that was not made.
LEMMA UpdateId ==
  ASSUME row \in [Sessions -> Row], RowId, Forward,
         NEW s \in Sessions, NEW r, r.pid => Made(s), Update(s, r)
  PROVE  RowId'
BY UpdateEffect DEF RowId, Forward, Made

\* The parts of the invariant whose variables a step leaves alone.
LEMMA IdUnchanged ==
  ASSUME TypeInv, IdInv, Forward
  PROVE  /\ UNCHANGED <<inst, crVars>> => OnceInv'
         /\ UNCHANGED row => RowId'
         /\ UNCHANGED crVars => CrId'
         /\ UNCHANGED vfVars => VfId'
         /\ UNCHANGED dcVars => DcId'
         /\ UNCHANGED mgVars => MgId'
         /\ UNCHANGED rcVars => RcId'
         /\ UNCHANGED edVars => EdId'
         /\ UNCHANGED mainVars => SdId'
<1> USE DEF IdInv, Forward, Made, TypeInv, TypeOK
<1>1. UNCHANGED <<inst, crVars>> => OnceInv'
  BY DEF OnceInv, crVars
<1>2. UNCHANGED row => RowId'
  BY DEF RowId
<1>3. UNCHANGED crVars => CrId'
  BY DEF CrId, crVars
<1>4. UNCHANGED vfVars => VfId'
  BY DEF VfId, vfVars
<1>5. UNCHANGED dcVars => DcId'
  BY DEF DcId, dcVars
<1>6. UNCHANGED mgVars => MgId'
  BY DEF MgId, mgVars
<1>7. UNCHANGED rcVars => RcId'
  BY DEF RcId, rcVars
<1>8. UNCHANGED edVars => EdId'
  BY DEF EdId, edVars
<1>9. UNCHANGED mainVars => SdId'
  BY DEF SdId, mainVars
<1>10. QED BY <1>1, <1>2, <1>3, <1>4, <1>5, <1>6, <1>7, <1>8, <1>9

\* Destroying an instance that was made makes none.
LEMMA DestroyForward ==
  ASSUME TypeInv, IdInv, NEW s \in Sessions, Made(s),
         DestroyInstance(s) \/ inst' = [inst EXCEPT ![s] = "gone"] \/ UNCHANGED inst
  PROVE  Forward /\ (UNCHANGED crVars => OnceInv')
<1>1. Forward
  BY DEF DestroyInstance, Forward, Made, TypeInv, TypeOK, ProvTypeOK, StoreTypeOK
<1>2. \A t \in Sessions : inst'[t] # "none" => Made(t)
  BY DEF DestroyInstance, Made, TypeInv, TypeOK, ProvTypeOK, StoreTypeOK
<1>3. UNCHANGED crVars => OnceInv'
  BY <1>2 DEF OnceInv, IdInv, Made, crVars
<1>4. QED BY <1>1, <1>3

\* A step that leaves the instances alone.
LEMMA StillForward == UNCHANGED inst => Forward
BY DEF Forward, Made

\* One step of CreateSession: the id appears with the instance.
LEMMA CreateStepId ==
  ASSUME TypeInv, IdInv, NEW s \in Sessions, CreateCheck(s) \/ CreateStep(s)
  PROVE  Forward /\ OnceInv' /\ RowId' /\ CrId' /\ VfId' /\ UNCHANGED dcVars
<1> USE PidRows, StatusNames DEF CrGo
<1>0. /\ row \in [Sessions -> Row] /\ inst \in [Sessions -> InstStates] /\ crRow[s] \in Row
      /\ crRow \in [Sessions -> Row] /\ crPc \in [Sessions -> CrPcs]
      /\ OnceInv /\ RowId /\ CrId /\ VfId
  BY DEF TypeInv, TypeOK, ProvTypeOK, StoreTypeOK, IdInv
<1>1. ASSUME UNCHANGED vfRow, Forward PROVE VfId'
  BY <1>0, <1>1 DEF VfId, Forward, Made
<1>2. CASE \/ CreateCheck(s) \/ CreateProviderMissing(s) \/ CreateDiskRejected(s) \/ CreateFail(s)
  <2>1. Forward /\ UNCHANGED <<inst, vfRow, dcVars>>
    BY <1>2, StillForward
       DEF CreateCheck, CreateProviderMissing, CreateDiskRejected, CreateFail, storeVars, vfVars
  <2>2. OnceInv' /\ CrId'
    BY <1>0, <1>2, <2>1 DEF CreateCheck, CreateProviderMissing, CreateDiskRejected, CreateFail,
       OnceInv, CrId, Made, BeforeCall
  <2>3. RowId'
    <3>1. CASE UNCHANGED row
      BY <2>1, <3>1, IdUnchanged
    <3>2. CASE Update(s, With(crRow[s], "failed"))
      <4>1. With(crRow[s], "failed").pid => Made(s)
        BY <1>0 DEF CrId
      <4>2. QED BY <1>0, <2>1, <3>2, <4>1, UpdateId
    <3>3. QED BY <1>2, <3>1, <3>2
              DEF CreateCheck, CreateProviderMissing, CreateDiskRejected, CreateFail, storeVars
  <2>4. QED BY <1>1, <2>1, <2>2, <2>3
<1>3. CASE CreateInsert(s)
  <2>1. Forward /\ UNCHANGED <<inst, vfRow, dcVars>>
    BY <1>3, StillForward DEF CreateInsert, vfVars
  <2>2. OnceInv' /\ CrId'
    BY <1>0, <1>3, <2>1 DEF CreateInsert, OnceInv, CrId, Made, BeforeCall
  <2>3. RowId'
    BY <1>0, <1>3, <2>1, UpdateId DEF CreateInsert, Update
  <2>4. QED BY <1>1, <2>1, <2>2, <2>3
<1>4. CASE CreateProvisioning(s)
  <2>1. Forward /\ UNCHANGED <<inst, vfRow, dcVars>>
    BY <1>4, StillForward DEF CreateProvisioning, vfVars
  <2>2. With(crRow[s], "provisioning").pid => Made(s)
    BY <1>0 DEF CrId
  <2>3. OnceInv' /\ CrId'
    BY <1>0, <1>4, <2>1, <2>2 DEF CreateProvisioning, OnceInv, CrId, Made, BeforeCall
  <2>4. RowId'
    BY <1>0, <1>4, <2>1, <2>2, UpdateId DEF CreateProvisioning
  <2>5. QED BY <1>1, <2>1, <2>3, <2>4
<1>5. CASE CreateInstance(s)
  <2>1. ~Made(s) /\ ~crRow[s].pid
    BY <1>0, <1>5 DEF CreateInstance, OnceInv, CrId, BeforeCall
  <2>2. Forward /\ UNCHANGED <<row, vfRow, dcVars>>
    BY <1>0, <1>5, <2>1 DEF CreateInstance, Forward, Made, vfVars
  <2>3. OnceInv'
    BY <1>0, <1>5 DEF CreateInstance, OnceInv, Made, BeforeCall
  <2>4. CrId'
    BY <1>0, <1>5, <2>1 DEF CreateInstance, CrId, Made
  <2>5. RowId'
    BY <2>2, IdUnchanged
  <2>6. QED BY <1>1, <2>2, <2>3, <2>4, <2>5
<1>6. CASE CreateRecord(s)
  <2>1. Forward /\ UNCHANGED <<inst, vfRow, dcVars>>
    BY <1>6, StillForward DEF CreateRecord
  <2>2. OnceInv' /\ CrId'
    BY <1>0, <1>6, <2>1 DEF CreateRecord, OnceInv, CrId, Made, BeforeCall
  <2>3. RowId'
    BY <1>0, <1>6, <2>1, UpdateId DEF CreateRecord, Update, CrId
  <2>4. QED BY <1>1, <2>1, <2>2, <2>3
<1>7. CASE CreateCleanup(s)
  <2>1. Forward /\ UNCHANGED <<row, vfRow, crRow, dcVars>>
    BY <1>0, <1>7 DEF CreateCleanup, DestroyInstance, Forward, Made, vfVars
  <2>2. OnceInv' /\ CrId'
    BY <1>0, <1>7, <2>1 DEF CreateCleanup, DestroyInstance, OnceInv, CrId, Forward, Made, BeforeCall
  <2>3. RowId'
    BY <2>1, IdUnchanged
  <2>4. QED BY <1>1, <2>1, <2>2, <2>3
<1>8. QED BY <1>2, <1>3, <1>4, <1>5, <1>6, <1>7 DEF CreateStep

\* One step of the verification goroutine: it destroys what its row names.
LEMMA VerifyStepId ==
  ASSUME TypeInv, IdInv, NEW s \in Sessions, VerifyStep(s)
  PROVE  Forward /\ OnceInv' /\ RowId' /\ CrId' /\ VfId' /\ UNCHANGED dcVars
<1> USE PidRows, StatusNames, IdUnchanged DEF VfGo, VfEnd, VfAgain
<1>0. /\ row \in [Sessions -> Row] /\ vfRow \in [Sessions -> Row] /\ vfRow[s] \in Row /\ VfId /\ RowId
      /\ inst \in [Sessions -> InstStates]
  BY DEF TypeInv, TypeOK, ProvTypeOK, StoreTypeOK, IdInv
<1>1. CASE VerifyPoll(s) \/ VerifyStatus(s) \/ VerifySSH(s) \/ VerifyTimeout(s) \/ VerifyCtxDone(s)
  <2>1. Forward /\ UNCHANGED <<row, inst, crVars, dcVars>>
    BY <1>1, StillForward DEF VerifyPoll, VerifyStatus, VerifySSH, VerifyTimeout, VerifyCtxDone, storeVars
  <2>2. \A t \in Sessions : vfRow'[t] \in {NoRow, vfRow[t], row[t]}
    <3>1. CASE VerifyPoll(s)
      BY <1>0, <3>1 DEF VerifyPoll, VfProceed
    <3>2. CASE VerifyStatus(s)
      BY <1>0, <3>2 DEF VerifyStatus
    <3>3. CASE VerifySSH(s)
      BY <1>0, <3>3 DEF VerifySSH
    <3>4. CASE VerifyTimeout(s) \/ VerifyCtxDone(s)
      BY <1>0, <3>4 DEF VerifyTimeout, VerifyCtxDone
    <3>5. QED BY <1>1, <3>1, <3>2, <3>3, <3>4
  <2>3. VfId'
    BY <1>0, <2>1, <2>2 DEF VfId, RowId, Made
  <2>4. QED BY <2>1, <2>3
<1>2. CASE VerifySSHInfo(s)
  <2>1. Forward /\ UNCHANGED <<inst, crVars, dcVars>>
    BY <1>2, StillForward DEF VerifySSHInfo
  <2>2. WithSSH(vfRow[s]).pid => Made(s)
    BY <1>0 DEF VfId
  <2>3. RowId'
    BY <1>0, <1>2, <2>1, <2>2, UpdateId DEF VerifySSHInfo
  <2>4. VfId'
    <3>1. CASE s \in Entrypoint
      BY <1>0, <1>2, <2>1, <3>1 DEF VerifySSHInfo, VfId, Made
    <3>2. CASE s \notin Entrypoint
      BY <1>0, <1>2, <2>1, <2>2, <3>2 DEF VerifySSHInfo, VfId, Made
    <3>3. QED BY <3>1, <3>2
  <2>5. QED BY <2>1, <2>3, <2>4
<1>3. CASE VerifyRunning(s) \/ VerifyFailStore(s)
  <2>1. Forward /\ UNCHANGED <<inst, crVars, dcVars>>
    BY <1>3, StillForward DEF VerifyRunning, VerifyFailStore
  <2>2. \A st \in Statuses : With(vfRow[s], st).pid => Made(s)
    BY <1>0 DEF VfId
  <2>3. RowId'
    BY <1>0, <1>3, <2>1, <2>2, UpdateId DEF VerifyRunning, VerifyFailStore
  <2>4. VfId'
    BY <1>0, <1>3, <2>1 DEF VerifyRunning, VerifyFailStore, VfId, Made
  <2>5. QED BY <2>1, <2>3, <2>4
<1>4. CASE VerifyFail(s)
  <2>1. UNCHANGED <<row, vfRow, crVars, dcVars>>
    BY <1>4 DEF VerifyFail
  <2>2. Forward /\ OnceInv'
    <3>1. CASE vfRow[s].pid
      BY <1>0, <1>4, <2>1, <3>1, DestroyForward DEF VerifyFail, VfId
    <3>2. CASE ~vfRow[s].pid
      BY <1>4, <2>1, <3>2, StillForward DEF VerifyFail
    <3>3. QED BY <3>1, <3>2
  <2>3. VfId'
    BY <1>0, <2>1, <2>2 DEF VfId, Forward, Made
  <2>4. QED BY <2>1, <2>2, <2>3
<1>5. QED BY <1>1, <1>2, <1>3, <1>4 DEF VerifyStep

\* One step of DestroySession: it calls DestroyInstance only with an id.
LEMMA DestroyStepId ==
  ASSUME TypeInv, IdInv, NEW c \in Calls, DestroyStep(c)
  PROVE  Forward /\ OnceInv' /\ RowId' /\ DcId' /\ UNCHANGED <<crVars, vfVars>>
<1> USE PidRows, StatusNames, IdUnchanged DEF DcGo, DcReturned
<1>0. /\ row \in [Sessions -> Row] /\ dcRow \in [Calls -> Row] /\ dcRow[c] \in Row
      /\ dcPc \in [Calls -> DcPcs] /\ dcSess \in [Calls -> Sessions \cup {NoSession}]
      /\ inst \in [Sessions -> InstStates] /\ DcId /\ RowId /\ WithoutID(dcRow[c]) \in Row
  BY RowTypes DEF TypeInv, TypeOK, ProvTypeOK, StoreTypeOK, IdInv
<1>1. dcSess[c] \in Sessions
  BY <1>0 DEF DestroyStep, DestroyRead, DestroyMark, DestroyAttempt, DestroyVerify, DestroyFinal,
     DestroyCleanup, DestroyForget, TypeInv, TargetsOK, DcReturned
<1>2. ASSUME Forward, NEW res \in {"ok", "err"}, DcReturn(c, res)
      PROVE  DcId'
  BY <1>0, <1>2 DEF DcReturn, DcId, Forward, Made
<1>3. ASSUME Forward, NEW pc, DcGo(c, pc), UNCHANGED <<dcSess, dcRow>>,
             pc \notin DcReturned, pc \in {"destroy", "verify", "cleanup"} => dcRow[c].pid
      PROVE  DcId'
  BY <1>0, <1>3 DEF DcId, Forward, Made
<1>4. CASE DestroyRead(c)
  <2>1. Forward /\ UNCHANGED <<row, inst, crVars, vfVars>>
    BY <1>4, StillForward DEF DestroyRead
  <2>2. row[dcSess[c]] \in Row /\ (row[dcSess[c]].pid => Made(dcSess[c]))
    BY <1>0, <1>1 DEF RowId
  <2>3. With(row[dcSess[c]], "stopping").pid = row[dcSess[c]].pid
    BY <2>2
  <2>4. DcId'
    <3>1. CASE \E res \in {"ok", "err"} : DcReturn(c, res)
      BY <1>2, <2>1, <3>1
    <3>2. CASE /\ DcGo(c, "cleanup") /\ UNCHANGED dcSess /\ row[dcSess[c]].pid
               /\ dcRow' = [dcRow EXCEPT ![c] = row[dcSess[c]]]
      BY <1>0, <1>1, <2>1, <2>2, <3>2 DEF DcId, Made
    <3>3. CASE /\ DcGo(c, "stopping") /\ UNCHANGED dcSess
               /\ dcRow' = [dcRow EXCEPT ![c] = With(row[dcSess[c]], "stopping")]
      BY <1>0, <1>1, <2>1, <2>2, <2>3, <3>3 DEF DcId, Made
    <3>4. QED BY <1>4, <3>1, <3>2, <3>3 DEF DestroyRead
  <2>5. QED BY <2>1, <2>4
<1>5. CASE DestroyMark(c)
  <2>1. Forward /\ UNCHANGED <<inst, crVars, vfVars>>
    BY <1>5, StillForward DEF DestroyMark
  <2>2. RowId'
    BY <1>0, <1>1, <1>5, <2>1, UpdateId DEF DestroyMark, DcId
  <2>3. DcId'
    <3>1. CASE dcSess[c] \in Unregistered
      BY <1>2, <1>5, <2>1, <3>1 DEF DestroyMark
    <3>2. CASE dcSess[c] \notin Unregistered
      BY <1>3, <1>5, <2>1, <3>2 DEF DestroyMark
    <3>3. QED BY <3>1, <3>2
  <2>4. QED BY <2>1, <2>2, <2>3
<1>6. CASE DestroyAttempt(c) \/ DestroyCleanup(c)
  <2>1. UNCHANGED <<row, crVars, vfVars>> /\ dcRow[c].pid /\ Made(dcSess[c])
    BY <1>0, <1>6 DEF DestroyAttempt, DestroyCleanup, DcId
  <2>2. Forward /\ OnceInv'
    BY <1>1, <1>6, <2>1, DestroyForward DEF DestroyAttempt, DestroyCleanup
  <2>3. DcId'
    BY <1>3, <1>6, <2>1, <2>2 DEF DestroyAttempt, DestroyCleanup
  <2>4. QED BY <2>1, <2>2, <2>3
<1>7. CASE DestroyVerify(c)
  <2>1. Forward /\ UNCHANGED <<row, inst, crVars, vfVars>> /\ dcRow[c].pid
    BY <1>0, <1>7, StillForward DEF DestroyVerify, DcId
  <2>2. DcId'
    <3>1. CASE DcReturn(c, "err")
      BY <1>2, <2>1, <3>1
    <3>2. CASE ~DcReturn(c, "err")
      BY <1>3, <1>7, <2>1, <3>2 DEF DestroyVerify, DcRetry
    <3>3. QED BY <3>1, <3>2
  <2>3. QED BY <2>1, <2>2
<1>8. CASE DestroyFinal(c) \/ DestroyForget(c)
  <2>1. Forward /\ UNCHANGED <<inst, crVars, vfVars>>
    BY <1>8, StillForward DEF DestroyFinal, DestroyForget
  <2>2. /\ With(dcRow[c], "stopped").pid => Made(dcSess[c])
        /\ ~With(WithoutID(dcRow[c]), "stopped").pid
    BY <1>0, ForgottenRows DEF DcId
  <2>3. RowId'
    BY <1>0, <1>1, <1>8, <2>1, <2>2, UpdateId DEF DestroyFinal, DestroyForget
  <2>4. DcId'
    BY <1>2, <1>8, <2>1 DEF DestroyFinal, DestroyForget
  <2>5. QED BY <2>1, <2>3, <2>4
<1>9. QED BY <1>4, <1>5, <1>6, <1>7, <1>8 DEF DestroyStep

\* A new call of DestroySession holds no row.
LEMMA DestroyBeginId ==
  ASSUME TypeInv, IdInv, NEW c \in Calls, NEW s \in Sessions, DestroyBegin(c, s)
  PROVE  Forward /\ OnceInv' /\ RowId' /\ DcId' /\ UNCHANGED <<crVars, vfVars>>
<1>1. Forward /\ UNCHANGED <<row, inst, crVars, vfVars>>
  BY StillForward DEF DestroyBegin, storeVars
<1>2. DcId'
  BY <1>1 DEF DestroyBegin, DcGo, DcId, Made, IdInv, DcReturned, TypeInv, TypeOK, ProvTypeOK
<1>3. QED BY <1>1, <1>2, IdUnchanged

\* The steps of the lifecycle manager.
LEMMA MgrStepId ==
  ASSUME TypeInv, IdInv, MgrStep
  PROVE  Forward /\ IdInv'
<1> USE PidRows, StatusNames, IdUnchanged
<1>0. /\ row \in [Sessions -> Row] /\ mgRow \in [Sessions -> Row] /\ MgId /\ RowId /\ DcId
      /\ mgCur \in Sessions \cup {NoSession} /\ dcPc \in [Calls -> DcPcs]
  BY DEF TypeInv, TypeOK, ProvTypeOK, StoreTypeOK, IdInv
<1>1. CASE MgrList
  <2>1. Forward
    BY <1>1, StillForward DEF MgrList
  <2>2. MgId'
    BY <1>0, <1>1 DEF MgrList, MgId, RowId, Made
  <2>3. QED BY <1>1, <2>1, <2>2 DEF MgrList, IdInv
<1>2. CASE MgrReturned
  <2>1. Forward /\ mgCur \in Sessions /\ (mgRow[mgCur].pid => Made(mgCur))
    BY <1>0, <1>2, StillForward DEF MgrReturned, MgId
  <2>2. RowId'
    BY <1>0, <1>2, <2>1, UpdateId DEF MgrReturned
  <2>3. MgId'
    BY <1>0, <1>2 DEF MgrReturned, MgId, Made
  <2>4. DcId'
    BY <1>0, <1>2, MgrAssumption DEF MgrReturned, DcId, Made, DcReturned
  <2>5. QED BY <1>2, <2>1, <2>2, <2>3, <2>4 DEF MgrReturned, IdInv
<1>3. ASSUME NEW s \in Sessions, MgrDestroy(s)
      PROVE  Forward /\ IdInv'
  <2>1. Forward /\ OnceInv' /\ RowId' /\ DcId' /\ UNCHANGED <<crVars, vfVars>>
    BY <1>3, DestroyBeginId, MgrAssumption DEF MgrDestroy
  <2>2. MgId'
    BY <1>0, <1>3, <2>1 DEF MgrDestroy, MgId, Forward, Made
  <2>3. QED BY <1>3, <2>1, <2>2 DEF MgrDestroy, IdInv
<1>4. ASSUME NEW s \in Sessions, MgrStuck(s)
      PROVE  Forward /\ IdInv'
  <2>1. Forward /\ (With(mgRow[s], "failed").pid => Made(s))
    BY <1>0, <1>4, StillForward DEF MgrStuck, MgId
  <2>2. RowId'
    BY <1>0, <1>4, <2>1, UpdateId DEF MgrStuck
  <2>3. MgId'
    BY <1>0, <1>4 DEF MgrStuck, MgId, Made
  <2>4. QED BY <1>4, <2>1, <2>2, <2>3 DEF MgrStuck, IdInv
<1>5. QED BY <1>1, <1>2, <1>3, <1>4 DEF MgrStep

\* The steps of the reconciler: an orphan is an instance it saw.
LEMMA RcStepId ==
  ASSUME TypeInv, IdInv, RcStep
  PROVE  Forward /\ IdInv'
<1> USE PidRows, StatusNames, IdUnchanged
<1>0. /\ row \in [Sessions -> Row] /\ rcRow \in [Sessions -> Row] /\ RcId /\ RowId /\ SdId
      /\ rcSeen \subseteq Sessions /\ sdTodo \subseteq Sessions /\ inst \in [Sessions -> InstStates]
  BY DEF TypeInv, TypeOK, ProvTypeOK, StoreTypeOK, IdInv
<1>1. ASSUME Forward, RcEnd PROVE RcId' /\ SdId'
  BY <1>0, <1>1 DEF RcEnd, NoRows, RcId, SdId, Forward, Made
<1>2. CASE RcList
  <2>1. Forward
    BY <1>2, StillForward DEF RcList
  <2>2. RcId' /\ SdId'
    <3>1. CASE RcEnd
      BY <1>1, <2>1, <3>1
    <3>2. CASE ~RcEnd
      BY <1>0, <1>2, <3>2 DEF RcList, RcId, SdId, Made, Exists, mainVars
    <3>3. QED BY <3>1, <3>2
  <2>3. QED BY <1>2, <2>1, <2>2 DEF RcList, IdInv
<1>3. CASE RcRead
  <2>1. Forward
    BY <1>3, StillForward DEF RcRead
  <2>2. RcId' /\ SdId'
    <3>1. CASE RcEnd
      BY <1>1, <2>1, <3>1
    <3>2. CASE ~RcEnd
      BY <1>0, <1>3, <3>2 DEF RcRead, RcId, RowId, SdId, Made, mainVars
    <3>3. QED BY <3>1, <3>2
  <2>3. QED BY <1>3, <2>1, <2>2 DEF RcRead, IdInv
<1>4. ASSUME NEW s \in Sessions, Forward, RcHandled(s)
      PROVE  RcId' /\ SdId'
  <2>1. CASE RcEnd
    BY <1>1, <1>4, <2>1
  <2>2. CASE ~RcEnd
    <3>1. UNCHANGED <<rcSeen, sdTodo>> /\ rcRow' = [rcRow EXCEPT ![s] = NoRow]
      BY <1>4, <2>2 DEF RcHandled, mainVars
    <3>2. QED BY <1>0, <1>4, <3>1 DEF RcId, SdId, Forward, Made
  <2>3. QED BY <2>1, <2>2
<1>5. ASSUME NEW s \in Sessions, RcOrphan(s)
      PROVE  Forward /\ IdInv'
  <2>1. Forward /\ OnceInv'
    BY <1>0, <1>5, DestroyForward DEF RcOrphan, RcId
  <2>2. RcId' /\ SdId'
    BY <1>4, <1>5, <2>1 DEF RcOrphan
  <2>3. QED BY <1>5, <2>1, <2>2 DEF RcOrphan, IdInv
<1>6. ASSUME NEW s \in Sessions, RcGhost(s)
      PROVE  Forward /\ IdInv'
  <2>1. Forward /\ (With(rcRow[s], "stopped").pid => Made(s))
    BY <1>0, <1>6, StillForward DEF RcGhost, RcId
  <2>2. RowId'
    BY <1>0, <1>6, <2>1, UpdateId DEF RcGhost
  <2>3. RcId' /\ SdId'
    BY <1>4, <1>6, <2>1 DEF RcGhost
  <2>4. QED BY <1>6, <2>1, <2>2, <2>3 DEF RcGhost, IdInv
<1>7. QED BY <1>2, <1>3, <1>5, <1>6 DEF RcStep

\* RecoverStuckSessions works with the ids in the rows.
LEMMA RecoverId ==
  ASSUME TypeInv, IdInv, NEW s \in Sessions, RecoverStuck(s) \/ RecoverFailed(s)
  PROVE  Forward /\ OnceInv' /\ RowId'
<1> USE PidRows, StatusNames
<1>0. /\ row \in [Sessions -> Row] /\ row[s] \in Row /\ RowId /\ WithSSH(row[s]) \in Row
      /\ WithoutID(row[s]) \in Row /\ With(WithoutID(row[s]), "failed") \in Row
      /\ UNCHANGED crVars
  BY RowTypes DEF TypeInv, TypeOK, ProvTypeOK, StoreTypeOK, IdInv, RecoverStuck, RecoverFailed
<1>1. ASSUME Forward, NEW r, r.pid => Made(s), row' = [row EXCEPT ![s] = r]
      PROVE  RowId'
  BY <1>0, <1>1 DEF RowId, Forward, Made
<1>2. ASSUME Forward, NEW r, r.pid => Made(s), Update(s, r)
      PROVE  RowId'
  BY <1>0, <1>2, UpdateId
<1>3. CASE RecoverStuck(s)
  <2> DEFINE over == With(row[s], IF row[s].status = "provisioning" THEN "failed" ELSE "stopped")
  <2>1. Forward /\ OnceInv'
    <3>1. CASE UNCHANGED inst
      BY <1>0, <3>1, StillForward, IdUnchanged
    <3>2. CASE row[s].pid /\ DestroyInstance(s)
      BY <1>0, <3>2, DestroyForward DEF RowId
    <3>3. QED BY <1>3, <3>1, <3>2 DEF RecoverStuck
  <2>2. /\ \A st \in Statuses : /\ With(row[s], st).pid => Made(s)
                                /\ With(WithSSH(row[s]), st).pid => Made(s)
        /\ over.pid => Made(s)
    BY <1>0 DEF RowId
  <2>3. RowId'
    <3>1. CASE UNCHANGED row
      BY <2>1, <3>1, IdUnchanged
    <3>2. CASE row' = [row EXCEPT ![s] = over]
      BY <1>1, <2>1, <2>2, <3>2
    <3>3. CASE \E r : (r.pid => Made(s)) /\ Update(s, r)
      BY <1>2, <2>1, <3>3
    <3>4. QED BY <1>3, <2>2, <3>1, <3>2, <3>3 DEF RecoverStuck
  <2>4. QED BY <2>1, <2>3
<1>4. CASE RecoverFailed(s)
  <2> DEFINE forgotten == With(WithoutID(row[s]), "failed")
  <2>1. Forward /\ OnceInv'
    <3>1. CASE UNCHANGED inst
      BY <1>0, <3>1, StillForward, IdUnchanged
    <3>2. CASE inst[s] = "up" /\ inst' = [inst EXCEPT ![s] = "gone"]
      BY <1>0, <3>2, DestroyForward DEF Made
    <3>3. QED BY <1>4, <3>1, <3>2 DEF RecoverFailed
  <2>2. ~forgotten.pid /\ With(forgotten, "stopped").pid = forgotten.pid
    BY <1>0
  <2>3. RowId'
    <3>1. CASE row' = row
      BY <2>1, <3>1, IdUnchanged
    <3>2. CASE row' = [row EXCEPT ![s] = forgotten]
      BY <1>1, <2>1, <2>2, <3>2
    <3>3. CASE \E r : (r.pid => Made(s)) /\ Update(s, r)
      BY <1>2, <2>1, <3>3
    <3>4. QED BY <1>4, <2>2, <3>1, <3>2, <3>3 DEF RecoverFailed
  <2>4. QED BY <2>1, <2>3
<1>5. QED BY <1>3, <1>4

\* Startup, shutdown and the crash: a lost request may still make its instance,
\* and is over then.
LEMMA MainStepId ==
  ASSUME TypeInv, IdInv, MainStep \/ Crash \/ ShutdownBegin
  PROVE  Forward /\ IdInv'
<1> USE PidRows, IdUnchanged
<1>0. /\ inst \in [Sessions -> InstStates] /\ crPc \in [Sessions -> CrPcs] /\ OnceInv /\ RowId /\ SdId
      /\ sdTodo \subseteq Sessions
  BY DEF TypeInv, TypeOK, ProvTypeOK, StoreTypeOK, IdInv
<1>1. ASSUME Forward, sdTodo' \subseteq sdTodo PROVE SdId'
  BY <1>0, <1>1 DEF SdId, Forward, Made
<1>2. CASE Crash \/ ShutdownExit
  <2>1. ProcessLost /\ UNCHANGED row
    BY <1>2 DEF Crash, ShutdownExit
  <2>2. Forward
    BY <1>0, <2>1 DEF ProcessLost, Forward, OnceInv, Made, BeforeCall
  <2>3. OnceInv'
    BY <1>0, <2>1 DEF ProcessLost, OnceInv, Made, BeforeCall, CrBusy
  <2>4. CrId' /\ VfId' /\ DcId'
    BY <2>1 DEF ProcessLost, NoRows, CrId, VfId, DcId
  <2>5. MgId' /\ RcId' /\ EdId' /\ SdId'
    BY <2>1 DEF ProcessLost, NoRows, MgId, RcId, EdId, SdId
  <2>6. QED BY <2>1, <2>2, <2>3, <2>4, <2>5 DEF IdInv
<1>3. CASE ShutdownBegin
  <2>1. Forward
    BY <1>3, StillForward DEF ShutdownBegin
  <2>2. SdId'
    BY <1>0, <1>3 DEF ShutdownBegin, SdId, RowId, Local, Made
  <2>3. QED BY <1>3, <2>1, <2>2 DEF ShutdownBegin, IdInv
<1>4. CASE Restart \/ RecoverFailedBegin \/ RecoverDone
  <2>1. /\ UNCHANGED <<row, inst, crVars, vfVars, dcVars, mgVars, rcVars, edVars>>
        /\ sdTodo' \subseteq sdTodo
    BY <1>4 DEF Restart, RecoverFailedBegin, RecoverDone, storeVars
  <2>2. Forward /\ SdId'
    BY <1>1, <2>1, StillForward
  <2>3. QED BY <2>1, <2>2 DEF IdInv
<1>5. ASSUME NEW s \in Sessions, ShutdownDestroy(s)
      PROVE  Forward /\ IdInv'
  <2>1. /\ UNCHANGED <<row, crVars, vfVars, dcVars, mgVars, rcVars, edVars>>
        /\ sdTodo' \subseteq sdTodo /\ Made(s)
    BY <1>0, <1>5 DEF ShutdownDestroy, SdId
  <2>2. Forward /\ OnceInv'
    BY <1>5, <2>1, DestroyForward DEF ShutdownDestroy
  <2>3. QED BY <1>1, <2>1, <2>2 DEF IdInv
<1>6. ASSUME NEW s \in Sessions, RecoverStuck(s) \/ RecoverFailed(s)
      PROVE  Forward /\ IdInv'
  <2>1. Forward /\ OnceInv' /\ RowId'
    BY <1>6, RecoverId
  <2>2. UNCHANGED <<crVars, vfVars, dcVars, mgVars, rcVars, edVars>> /\ sdTodo' \subseteq sdTodo
    BY <1>6 DEF RecoverStuck, RecoverFailed
  <2>3. QED BY <1>1, <2>1, <2>2 DEF IdInv
<1>7. QED BY <1>2, <1>3, <1>4, <1>5, <1>6 DEF MainStep

\* ExtendSession.
LEMMA ExtendId ==
  ASSUME TypeInv, IdInv, NEW e \in Editors,
         ExtendStore(e) \/ \E s \in Sessions : ExtendRead(e, s)
  PROVE  Forward /\ IdInv'
<1> USE PidRows, IdUnchanged
<1>0. row \in [Sessions -> Row] /\ edRow \in [Editors -> Row] /\ EdId /\ RowId
      /\ edSess \in [Editors -> Sessions \cup {NoSession}]
  BY DEF TypeInv, TypeOK, ProvTypeOK, StoreTypeOK, IdInv
<1>1. CASE ExtendStore(e)
  <2>1. Forward /\ edSess[e] \in Sessions /\ (edRow[e].pid => Made(edSess[e]))
    BY <1>0, <1>1, StillForward DEF ExtendStore, EdId, TypeInv, TargetsOK
  <2>2. RowId'
    BY <1>0, <1>1, <2>1, UpdateId DEF ExtendStore
  <2>3. EdId'
    BY <1>0, <1>1 DEF ExtendStore, EdId, Made
  <2>4. QED BY <1>1, <2>1, <2>2, <2>3 DEF ExtendStore, IdInv
<1>2. ASSUME NEW s \in Sessions, ExtendRead(e, s)
      PROVE  Forward /\ IdInv'
  <2>1. Extended(row[s]).pid => Made(s)
    BY <1>0 DEF RowId
  <2>2. UNCHANGED <<row, inst, crVars, vfVars, dcVars, mgVars, rcVars, mainVars>>
    BY <1>2 DEF ExtendRead, provVars, storeVars
  <2>3. EdId'
    BY <1>0, <1>2, <2>1, <2>2 DEF ExtendRead, EdId, Made
  <2>4. QED BY <2>2, <2>3, StillForward DEF IdInv
<1>3. QED BY <1>1, <1>2

\* The invariant of the ids is inductive, and no step makes an instance again.
LEMMA IdStep ==
  ASSUME TypeInv, IdInv, [Next]_vars
  PROVE  Forward /\ IdInv'
<1> USE IdUnchanged
<1>1. ASSUME NEW s \in Sessions, Creating(s) \/ Verifying(s) \/ ApiCreate(s)
      PROVE  Forward /\ IdInv'
  <2>1. Forward /\ OnceInv' /\ RowId' /\ CrId' /\ VfId' /\ UNCHANGED dcVars
    BY <1>1, CreateStepId, VerifyStepId DEF Creating, Verifying, ApiCreate
  <2>2. UNCHANGED <<mgVars, rcVars, edVars, mainVars>>
    BY <1>1 DEF Creating, Verifying, ApiCreate
  <2>3. QED BY <2>1, <2>2 DEF IdInv
<1>2. ASSUME NEW s \in Sessions, Hosting(s)
      PROVE  Forward /\ IdInv'
  <2>1. UNCHANGED <<row, crVars, vfVars, dcVars, mgVars, rcVars, edVars, mainVars>>
    BY <1>2 DEF Hosting, InstanceStep, InstanceBoots, InstanceLost
  <2>2. \A t \in Sessions : (Made(t) <=> inst'[t] # "none") /\ (inst[t] = "gone" => inst'[t] = "gone")
    BY <1>2 DEF Hosting, InstanceStep, InstanceBoots, InstanceLost, Made, Exists,
       TypeInv, TypeOK, ProvTypeOK, StoreTypeOK
  <2>3. Forward /\ OnceInv'
    BY <2>1, <2>2 DEF Forward, OnceInv, IdInv, Made, crVars
  <2>4. QED BY <2>1, <2>3 DEF IdInv
<1>3. ASSUME NEW c \in Calls, Destroying(c)
      PROVE  Forward /\ IdInv'
  BY <1>3, DestroyStepId DEF Destroying, IdInv
<1>4. ASSUME NEW c \in Calls, NEW s \in Sessions, ApiDestroy(c, s)
      PROVE  Forward /\ IdInv'
  BY <1>4, DestroyBeginId DEF ApiDestroy, IdInv
<1>5. CASE Tick
  <2>1. Forward /\ RcId'
    BY <1>5, StillForward DEF Tick, RcId, IdInv, Made
  <2>2. QED BY <1>5, <2>1 DEF Tick, IdInv
<1>6. CASE UNCHANGED vars
  BY <1>6, StillForward DEF vars, provVars, storeVars, IdInv
<1>7. QED
  BY <1>1, <1>2, <1>3, <1>4, <1>5, <1>6, MgrStepId, RcStepId, MainStepId, ExtendId DEF Next

\* It holds at the start.
LEMMA IdInit == Init => IdInv
BY PidRows
   DEF Init, ProvInit, StoreInit, NoRows, IdInv, OnceInv, RowId, CrId, VfId, DcId, MgId, RcId, EdId, SdId, Made

\* A session makes at most one instance, and one that is gone stays gone, whatever
\* replies are lost and however often the process is restarted.
THEOREM InstanceOnceAlways == Spec => InstanceOnce
<1>1. Init => TypeInv /\ IdInv
  BY TypeInit, IdInit
<1>2. TypeInv /\ IdInv /\ [Next]_vars => TypeInv' /\ IdInv'
  BY TypeStep, IdStep
<1>3. TypeInv /\ IdInv /\ [Next]_vars => [Forward]_vars
  BY IdStep
<1>4. QED BY <1>1, <1>2, <1>3, PTL DEF Spec, InstanceOnce

-----------------------------------------------------------------------------
(* StoppedIsGone. As long as nothing failed the process is up, so stopped  *)
(* rows that name an instance come from two places only: DestroySession,   *)
(* after its DestroyInstance call, and handleGhost, whose ghosts are gone  *)
(* (GhostInv). No copy that is stored as it is, is a stopped row.          *)

\* A copy of a row that is stored later does not say stopped.
CrSt == \A s \in Sessions : crRow[s].status # "stopped"
VfSt == \A s \in Sessions :
          vfPc[s] \in {"status", "sshinfo", "ssh", "running"} => vfRow[s].status # "stopped"
DcSt == \A c \in Calls : dcRow[c].status # "stopped"
MgSt == \A s \in Sessions : mgRow[s].status # "stopped"
EdSt == \A e \in Editors : edRow[e].status # "stopped"

UpInv == faults = 0 => phase = "up"
RowGone == faults = 0 =>
             \A s \in Sessions : row[s].status = "stopped" /\ row[s].pid => inst[s] = "gone"
DcGone == faults = 0 =>
            \A c \in Calls : dcPc[c] \in {"verify", "final"} /\ dcRow[c].pid => inst[dcSess[c]] = "gone"

StopInv == CrSt /\ VfSt /\ DcSt /\ MgSt /\ EdSt /\ UpInv /\ RowGone /\ DcGone

\* What the step stores as stopped is gone.
StopsGone ==
  faults' = 0 => \A s \in Sessions : row'[s].status = "stopped" /\ row'[s].pid
                                       => row'[s] = row[s] \/ inst'[s] = "gone"

\* An Update of a row that is not stopped, or names no instance, or whose
\* instance is gone.
LEMMA UpdateStops ==
  ASSUME row \in [Sessions -> Row], NEW s \in Sessions, NEW r, Update(s, r),
         r.status = "stopped" /\ r.pid /\ faults' = 0 => inst'[s] = "gone"
  PROVE  StopsGone
BY UpdateEffect DEF StopsGone

\* A step that stores nothing.
LEMMA NothingStops == UNCHANGED row => StopsGone
BY DEF StopsGone

\* The table after such a step.
LEMMA RowGoneStep ==
  ASSUME StopInv, Forward, FaultsGrow, StopsGone
  PROVE  RowGone'
BY DEF StopInv, Forward, FaultsGrow, StopsGone, RowGone

\* The parts of the invariant whose variables a step leaves alone.
LEMMA StopUnchanged ==
  ASSUME TypeInv, IdInv, StopInv, Forward, FaultsGrow
  PROVE  /\ UNCHANGED crVars => CrSt'
         /\ UNCHANGED vfVars => VfSt'
         /\ UNCHANGED dcVars => DcSt' /\ DcGone'
         /\ UNCHANGED mgVars => MgSt'
         /\ UNCHANGED edVars => EdSt'
         /\ UNCHANGED mainVars => UpInv'
<1> USE DEF StopInv
<1>1. UNCHANGED crVars => CrSt'
  BY DEF CrSt, crVars
<1>2. UNCHANGED vfVars => VfSt'
  BY DEF VfSt, vfVars
<1>3. UNCHANGED dcVars => DcSt'
  BY DEF DcSt, dcVars
<1>4. UNCHANGED dcVars => DcGone'
  BY DEF DcGone, dcVars, Forward, FaultsGrow, IdInv, DcId
<1>5. UNCHANGED mgVars => MgSt'
  BY DEF MgSt, mgVars
<1>6. UNCHANGED edVars => EdSt'
  BY DEF EdSt, edVars
<1>7. UNCHANGED mainVars => UpInv'
  BY DEF UpInv, mainVars, FaultsGrow
<1>8. QED BY <1>1, <1>2, <1>3, <1>4, <1>5, <1>6, <1>7

\* One step of CreateSession.
LEMMA CreateStepStop ==
  ASSUME TypeInv, StopInv, NEW s \in Sessions, CreateCheck(s) \/ CreateStep(s)
  PROVE  StopsGone /\ CrSt' /\ UNCHANGED <<dcVars, vfRow>> /\ VfSt'
<1> USE StatusRows, StatusNames DEF CrGo
<1>0. /\ row \in [Sessions -> Row] /\ crRow \in [Sessions -> Row] /\ crRow[s] \in Row
      /\ WithSSH(crRow[s]) \in Row
      /\ vfPc \in [Sessions -> VfPcs] /\ CrSt /\ VfSt
  BY RowTypes DEF TypeInv, TypeOK, ProvTypeOK, StoreTypeOK, StopInv
<1>1. UNCHANGED vfVars => VfSt' /\ UNCHANGED vfRow
  BY <1>0 DEF VfSt, vfVars
<1>2. CASE CreateCheck(s) \/ CreateProviderMissing(s) \/ CreateDiskRejected(s) \/ CreateCleanup(s)
  <2>1. UNCHANGED <<row, vfVars, dcVars>>
    BY <1>2 DEF CreateCheck, CreateProviderMissing, CreateDiskRejected, CreateCleanup, storeVars
  <2>2. CrSt'
    BY <1>0, <1>2 DEF CreateCheck, CreateProviderMissing, CreateDiskRejected, CreateCleanup, CrSt
  <2>3. QED BY <1>1, <2>1, <2>2, NothingStops
<1>3. CASE CreateInsert(s)
  <2>1. StopsGone
    BY <1>0, <1>3, UpdateStops DEF CreateInsert, Update
  <2>2. CrSt'
    BY <1>0, <1>3 DEF CreateInsert, CrSt
  <2>3. QED BY <1>1, <1>3, <2>1, <2>2 DEF CreateInsert
<1>4. CASE CreateProvisioning(s)
  <2>1. With(crRow[s], "provisioning").status # "stopped"
    BY <1>0
  <2>2. StopsGone
    BY <1>0, <1>4, <2>1, UpdateStops DEF CreateProvisioning
  <2>3. CrSt'
    BY <1>0, <1>4, <2>1 DEF CreateProvisioning, CrSt
  <2>4. QED BY <1>1, <1>4, <2>2, <2>3 DEF CreateProvisioning
<1>5. CASE CreateInstance(s)
  <2>1. WithID(crRow[s]).status # "stopped" /\ WithID(WithSSH(crRow[s])).status # "stopped"
    BY <1>0 DEF CrSt
  <2>2. CrSt'
    <3>1. \/ UNCHANGED crRow
          \/ crRow' = [crRow EXCEPT ![s] = WithID(crRow[s])]
          \/ crRow' = [crRow EXCEPT ![s] = WithID(WithSSH(crRow[s]))]
      BY <1>5 DEF CreateInstance
    <3>2. QED BY <1>0, <2>1, <3>1 DEF CrSt
  <2>3. QED BY <1>1, <1>5, <2>2, NothingStops DEF CreateInstance
<1>6. CASE CreateFail(s)
  <2>1. With(crRow[s], "failed").status # "stopped"
    BY <1>0
  <2>2. StopsGone
    BY <1>0, <1>6, <2>1, UpdateStops DEF CreateFail
  <2>3. CrSt'
    BY <1>0, <1>6 DEF CreateFail, CrSt
  <2>4. QED BY <1>1, <1>6, <2>2, <2>3 DEF CreateFail
<1>7. CASE CreateRecord(s)
  <2>1. StopsGone
    BY <1>0, <1>7, UpdateStops DEF CreateRecord, Update, CrSt
  <2>2. CrSt'
    BY <1>0, <1>7 DEF CreateRecord, CrSt
  <2>3. VfSt'
    BY <1>0, <1>7 DEF CreateRecord, VfSt
  <2>4. QED BY <1>7, <2>1, <2>2, <2>3 DEF CreateRecord
<1>8. QED BY <1>2, <1>3, <1>4, <1>5, <1>6, <1>7 DEF CreateStep

\* One step of the verification goroutine: it goes on only with rows that were
\* not terminal when it read them, and its timeout stores failed.
LEMMA VerifyStepStop ==
  ASSUME TypeInv, StopInv, NEW s \in Sessions, VerifyStep(s)
  PROVE  StopsGone /\ UNCHANGED <<crVars, dcVars>> /\ VfSt'
<1> USE StatusRows, StatusNames DEF VfGo, VfEnd, VfAgain
<1>0. /\ row \in [Sessions -> Row] /\ vfRow \in [Sessions -> Row] /\ vfRow[s] \in Row
      /\ vfPc \in [Sessions -> VfPcs] /\ VfSt
  BY DEF TypeInv, TypeOK, ProvTypeOK, StoreTypeOK, StopInv
<1>1. CASE VerifyPoll(s)
  <2>1. VfSt'
    BY <1>0, <1>1 DEF VerifyPoll, VfProceed, VfSt, IsTerminal, Terminal
  <2>2. QED BY <1>1, <2>1, NothingStops DEF VerifyPoll, storeVars
<1>2. CASE VerifyStatus(s)
  <2>1. VfSt'
    BY <1>0, <1>2 DEF VerifyStatus, VfSt
  <2>2. QED BY <1>2, <2>1, NothingStops DEF VerifyStatus
<1>3. CASE VerifySSHInfo(s)
  <2>1. WithSSH(vfRow[s]).status # "stopped"
    BY <1>0, <1>3 DEF VerifySSHInfo, VfSt
  <2>2. StopsGone
    BY <1>0, <1>3, <2>1, UpdateStops DEF VerifySSHInfo
  <2>3. VfSt'
    <3>1. CASE s \in Entrypoint
      BY <1>0, <1>3, <3>1 DEF VerifySSHInfo, VfSt
    <3>2. CASE s \notin Entrypoint
      BY <1>0, <1>3, <2>1, <3>2 DEF VerifySSHInfo, VfSt
    <3>3. QED BY <3>1, <3>2
  <2>4. QED BY <1>3, <2>2, <2>3 DEF VerifySSHInfo
<1>4. CASE VerifySSH(s)
  <2>1. VfSt'
    BY <1>0, <1>4 DEF VerifySSH, VfSt
  <2>2. QED BY <1>4, <2>1, NothingStops DEF VerifySSH, storeVars
<1>5. CASE VerifyRunning(s) \/ VerifyFailStore(s)
  <2>1. With(vfRow[s], "running").status # "stopped" /\ With(vfRow[s], "failed").status # "stopped"
    BY <1>0
  <2>2. StopsGone
    BY <1>0, <1>5, <2>1, UpdateStops DEF VerifyRunning, VerifyFailStore
  <2>3. VfSt'
    BY <1>0, <1>5 DEF VerifyRunning, VerifyFailStore, VfSt
  <2>4. QED BY <1>5, <2>2, <2>3 DEF VerifyRunning, VerifyFailStore
<1>6. CASE VerifyTimeout(s) \/ VerifyCtxDone(s) \/ VerifyFail(s)
  <2>1. VfSt'
    BY <1>0, <1>6 DEF VerifyTimeout, VerifyCtxDone, VerifyFail, VfSt
  <2>2. QED BY <1>6, <2>1, NothingStops DEF VerifyTimeout, VerifyCtxDone, VerifyFail, storeVars
<1>7. QED BY <1>1, <1>2, <1>3, <1>4, <1>5, <1>6 DEF VerifyStep

\* One step of DestroySession: without faults it stores stopped only after a
\* DestroyInstance call that was served, unless the row names no instance.
LEMMA DestroyStepStop ==
  ASSUME TypeInv, IdInv, StopInv, Forward, FaultsGrow, NEW c \in Calls, DestroyStep(c)
  PROVE  StopsGone /\ UNCHANGED <<crVars, vfVars>> /\ DcSt' /\ DcGone'
<1> USE StatusRows, StatusNames DEF DcGo
<1>0. /\ row \in [Sessions -> Row] /\ dcRow \in [Calls -> Row] /\ dcRow[c] \in Row
      /\ dcPc \in [Calls -> DcPcs] /\ dcSess \in [Calls -> Sessions \cup {NoSession}]
      /\ inst \in [Sessions -> InstStates] /\ faults \in Nat
      /\ DcSt /\ DcGone /\ DcId
  BY DEF TypeInv, TypeOK, ProvTypeOK, StoreTypeOK, IdInv, StopInv
<1>1. dcSess[c] \in Sessions
  BY <1>0 DEF DestroyStep, DestroyRead, DestroyMark, DestroyAttempt, DestroyVerify, DestroyFinal,
     DestroyCleanup, DestroyForget, TypeInv, TargetsOK, DcReturned
<1>2. ASSUME NEW res \in {"ok", "err"}, DcReturn(c, res)
      PROVE  DcSt' /\ DcGone'
  <2>1. DcSt'
    BY <1>0, <1>2 DEF DcReturn, DcSt
  <2>2. DcGone'
    BY <1>0, <1>2 DEF DcReturn, DcGone, DcId, Forward, FaultsGrow
  <2>3. QED BY <2>1, <2>2
<1>3. ASSUME NEW pc, DcGo(c, pc), UNCHANGED <<dcSess, dcRow>>,
             pc \in {"verify", "final"} /\ dcRow[c].pid /\ faults' = 0 => inst'[dcSess[c]] = "gone"
      PROVE  DcSt' /\ DcGone'
  <2>1. DcSt'
    BY <1>0, <1>3 DEF DcSt
  <2>2. DcGone'
    BY <1>0, <1>3 DEF DcGone, DcId, Forward, FaultsGrow
  <2>3. QED BY <2>1, <2>2
<1>4. CASE DestroyRead(c)
  <2>1. row[dcSess[c]] \in Row
    BY <1>0, <1>1
  <2>2. ASSUME NEW pc \in {"cleanup", "stopping"}, NEW r, r.status # "stopped", DcGo(c, pc),
               UNCHANGED dcSess, dcRow' = [dcRow EXCEPT ![c] = r]
        PROVE  DcSt' /\ DcGone'
    <3>1. DcSt'
      BY <1>0, <2>2 DEF DcSt
    <3>2. DcGone'
      BY <1>0, <2>2 DEF DcGone, DcId, Forward, FaultsGrow
    <3>3. QED BY <3>1, <3>2
  <2>3. DcSt' /\ DcGone'
    <3>1. CASE \E res \in {"ok", "err"} : DcReturn(c, res)
      BY <1>2, <3>1
    <3>2. CASE /\ DcGo(c, "cleanup") /\ UNCHANGED dcSess /\ row[dcSess[c]].status = "failed"
               /\ dcRow' = [dcRow EXCEPT ![c] = row[dcSess[c]]]
      BY <2>2, <3>2
    <3>3. CASE /\ DcGo(c, "stopping") /\ UNCHANGED dcSess
               /\ dcRow' = [dcRow EXCEPT ![c] = With(row[dcSess[c]], "stopping")]
      BY <2>1, <2>2, <3>3
    <3>4. QED BY <1>4, <3>1, <3>2, <3>3 DEF DestroyRead
  <2>4. QED BY <1>4, <2>3, NothingStops DEF DestroyRead
<1>5. CASE DestroyMark(c)
  <2>1. StopsGone
    BY <1>0, <1>1, <1>5, UpdateStops DEF DestroyMark, DcSt
  <2>2. DcSt' /\ DcGone'
    <3>1. CASE dcSess[c] \in Unregistered
      BY <1>2, <1>5, <3>1 DEF DestroyMark
    <3>2. CASE dcSess[c] \notin Unregistered
      BY <1>3, <1>5, <3>2 DEF DestroyMark
    <3>3. QED BY <3>1, <3>2
  <2>3. QED BY <1>5, <2>1, <2>2 DEF DestroyMark
<1>6. CASE DestroyAttempt(c)
  <2>1. faults' = 0 => inst'[dcSess[c]] = "gone"
    BY <1>0, <1>1, <1>6 DEF DestroyAttempt, DestroyInstance, Fault
  <2>2. DcSt' /\ DcGone'
    BY <1>3, <1>6, <2>1 DEF DestroyAttempt
  <2>3. QED BY <1>6, <2>2, NothingStops DEF DestroyAttempt
<1>7. CASE DestroyCleanup(c)
  <2>1. DcSt' /\ DcGone'
    BY <1>3, <1>7 DEF DestroyCleanup
  <2>2. QED BY <1>7, <2>1, NothingStops DEF DestroyCleanup
<1>8. CASE DestroyVerify(c)
  <2>1. dcRow[c].pid /\ faults' = 0 => inst'[dcSess[c]] = "gone"
    BY <1>0, <1>1, <1>8 DEF DestroyVerify, DcGone, Forward, FaultsGrow
  <2>2. DcSt' /\ DcGone'
    <3>1. CASE DcReturn(c, "err")
      BY <1>2, <3>1
    <3>2. CASE ~DcReturn(c, "err")
      BY <1>3, <1>8, <2>1, <3>2 DEF DestroyVerify, DcRetry
    <3>3. QED BY <3>1, <3>2
  <2>3. QED BY <1>8, <2>2, NothingStops DEF DestroyVerify
<1>9. CASE DestroyFinal(c)
  <2>1. With(dcRow[c], "stopped").pid /\ faults' = 0 => inst'[dcSess[c]] = "gone"
    BY <1>0, <1>1, <1>9, PidRows DEF DestroyFinal, DcGone, Forward, FaultsGrow
  <2>2. StopsGone
    BY <1>0, <1>1, <1>9, <2>1, UpdateStops DEF DestroyFinal
  <2>3. QED BY <1>2, <1>9, <2>2 DEF DestroyFinal
<1>10. CASE DestroyForget(c)
  <2>1. ~With(WithoutID(dcRow[c]), "stopped").pid
    BY <1>0, ForgottenRows
  <2>2. StopsGone
    BY <1>0, <1>1, <1>10, <2>1, UpdateStops DEF DestroyForget
  <2>3. QED BY <1>2, <1>10, <2>2 DEF DestroyForget
<1>11. QED BY <1>4, <1>5, <1>6, <1>7, <1>8, <1>9, <1>10 DEF DestroyStep

\* A new call of DestroySession.
LEMMA DestroyBeginStop ==
  ASSUME TypeInv, IdInv, StopInv, Forward, FaultsGrow, NEW c \in Calls, NEW s \in Sessions,
         DestroyBegin(c, s)
  PROVE  StopsGone /\ UNCHANGED <<crVars, vfVars>> /\ DcSt' /\ DcGone'
<1>1. DcSt' /\ StopsGone /\ UNCHANGED <<crVars, vfVars>>
  BY NothingStops DEF DestroyBegin, DcSt, StopInv, storeVars
<1>2. DcGone'
  BY DEF DestroyBegin, DcGo, DcGone, DcId, IdInv, StopInv, Forward, FaultsGrow,
     TypeInv, TypeOK, ProvTypeOK
<1>3. QED BY <1>1, <1>2

\* The steps of the lifecycle manager: it lists no stopped session.
LEMMA MgrStepStop ==
  ASSUME TypeInv, IdInv, StopInv, Forward, FaultsGrow, MgrStep
  PROVE  StopInv'
<1> USE StatusRows, StatusNames, StopUnchanged, RowGoneStep, NothingStops
<1>0. /\ row \in [Sessions -> Row] /\ mgRow \in [Sessions -> Row] /\ MgSt /\ DcSt /\ DcGone /\ DcId
      /\ mgCur \in Sessions \cup {NoSession} /\ dcPc \in [Calls -> DcPcs]
  BY DEF TypeInv, TypeOK, ProvTypeOK, StoreTypeOK, StopInv, IdInv
<1>1. CASE MgrList
  <2>1. MgSt'
    BY <1>0, <1>1 DEF MgrList, MgSt, Selected, PastHardMax, IsExpired, IsStuck, IsLeaked
  <2>2. QED BY <1>1, <2>1 DEF MgrList, StopInv
<1>2. CASE MgrReturned
  <2>1. mgCur \in Sessions /\ mgRow[mgCur].status # "stopped"
    BY <1>0, <1>2 DEF MgrReturned, MgSt
  <2>2. StopsGone
    BY <1>0, <1>2, <2>1, UpdateStops DEF MgrReturned
  <2>3. MgSt'
    BY <1>0, <1>2 DEF MgrReturned, MgSt
  <2>4. DcSt' /\ DcGone'
    BY <1>0, <1>2, MgrAssumption DEF MgrReturned, DcSt, DcGone, DcId, Forward, FaultsGrow
  <2>5. QED BY <1>2, <2>2, <2>3, <2>4 DEF MgrReturned, StopInv
<1>3. ASSUME NEW s \in Sessions, MgrDestroy(s)
      PROVE  StopInv'
  <2>1. StopsGone /\ UNCHANGED <<crVars, vfVars>> /\ DcSt' /\ DcGone'
    BY <1>3, DestroyBeginStop, MgrAssumption DEF MgrDestroy
  <2>2. MgSt'
    BY <1>0, <1>3 DEF MgrDestroy, MgSt
  <2>3. QED BY <1>3, <2>1, <2>2 DEF MgrDestroy, StopInv
<1>4. ASSUME NEW s \in Sessions, MgrStuck(s)
      PROVE  StopInv'
  <2>1. With(mgRow[s], "failed").status # "stopped"
    BY <1>0
  <2>2. StopsGone
    BY <1>0, <1>4, <2>1, UpdateStops DEF MgrStuck
  <2>3. MgSt'
    BY <1>0, <1>4 DEF MgrStuck, MgSt
  <2>4. QED BY <1>4, <2>2, <2>3 DEF MgrStuck, StopInv
<1>5. QED BY <1>1, <1>2, <1>3, <1>4 DEF MgrStep

\* The steps of the reconciler: what it stops as a ghost was made and is gone.
LEMMA RcStepStop ==
  ASSUME TypeInv, GhostInv, IdInv, StopInv, Forward, FaultsGrow, RcStep
  PROVE  StopInv'
<1> USE StopUnchanged, RowGoneStep, NothingStops
<1>0. /\ row \in [Sessions -> Row] /\ rcRow \in [Sessions -> Row] /\ RcId /\ UpInv
      /\ inst \in [Sessions -> InstStates]
  BY DEF TypeInv, TypeOK, ProvTypeOK, StoreTypeOK, IdInv, StopInv
<1>1. UpInv'
  <2>1. phase = "up" => phase' = "up"
    BY DEF RcStep, RcList, RcRead, RcOrphan, RcGhost, RcHandled, RcEnd, mainVars
  <2>2. QED BY <1>0, <2>1 DEF UpInv, FaultsGrow
<1>2. CASE RcList \/ RcRead
  BY <1>1, <1>2 DEF RcList, RcRead, StopInv
<1>3. ASSUME NEW s \in Sessions, RcOrphan(s)
      PROVE  StopInv'
  BY <1>1, <1>3 DEF RcOrphan, StopInv
<1>4. ASSUME NEW s \in Sessions, RcGhost(s)
      PROVE  StopInv'
  <2>1. IsGhost(s) /\ faults = 0 => inst[s] \notin Exists
    BY <1>4, TimesAssumption DEF RcGhost, IsGhost, GhostInv, PassAge, UnseenAge, Reliable, TypeInv, TypeOK,
       ProvTypeOK, StoreTypeOK
  <2>2. With(rcRow[s], "stopped").pid => Made(s)
    BY <1>0, PidRows, StatusNames DEF RcId
  <2>3. IsGhost(s) /\ With(rcRow[s], "stopped").pid /\ faults' = 0 => inst'[s] = "gone"
    BY <1>0, <1>4, <2>1, <2>2 DEF RcGhost, Made, Exists, InstStates, FaultsGrow
  <2>4. StopsGone
    BY <1>0, <1>4, <2>3, UpdateStops DEF RcGhost
  <2>5. QED BY <1>1, <1>4, <2>4 DEF RcGhost, StopInv
<1>5. QED BY <1>2, <1>3, <1>4 DEF RcStep

\* Startup, shutdown and the crash: all of them mean a fault.
LEMMA MainStepStop ==
  ASSUME TypeInv, IdInv, StopInv, Forward, FaultsGrow, MainStep \/ Crash \/ ShutdownBegin
  PROVE  StopInv'
<1> USE StopUnchanged
<1>1. faults' # 0
  <2>1. faults \in Nat /\ UpInv
    BY DEF TypeInv, TypeOK, ProvTypeOK, StoreTypeOK, StopInv
  <2>2. CASE Crash \/ ShutdownBegin
    BY <2>1, <2>2 DEF Crash, ShutdownBegin, Fault
  <2>3. CASE MainStep
    <3>1. phase # "up"
      BY <2>3 DEF MainStep, ShutdownExit, ShutdownDestroy, Restart, RecoverStuck, RecoverFailedBegin,
         RecoverFailed, RecoverDone
    <3>2. QED BY <2>1, <3>1 DEF UpInv, FaultsGrow
  <2>4. QED BY <2>2, <2>3
<1>2. UpInv' /\ RowGone' /\ DcGone'
  BY <1>1 DEF UpInv, RowGone, DcGone
<1>3. CASE Crash \/ ShutdownExit
  <2>1. ProcessLost
    BY <1>3 DEF Crash, ShutdownExit
  <2>2. CrSt' /\ VfSt' /\ DcSt' /\ MgSt' /\ EdSt'
    BY <2>1, StatusRows DEF ProcessLost, NoRows, CrSt, VfSt, DcSt, MgSt, EdSt
  <2>3. QED BY <1>2, <2>2 DEF StopInv
<1>4. CASE ~(Crash \/ ShutdownExit)
  <2>1. UNCHANGED <<crVars, vfVars, dcVars, mgVars, edVars>>
    BY <1>4 DEF MainStep, ShutdownBegin, ShutdownDestroy, Restart, RecoverStuck, RecoverFailedBegin,
       RecoverFailed, RecoverDone
  <2>2. QED BY <1>2, <2>1 DEF StopInv
<1>5. QED BY <1>3, <1>4

\* ExtendSession only reads active rows.
LEMMA ExtendStop ==
  ASSUME TypeInv, IdInv, StopInv, Forward, FaultsGrow, NEW e \in Editors,
         ExtendStore(e) \/ \E s \in Sessions : ExtendRead(e, s)
  PROVE  StopInv'
<1> USE StatusRows, StopUnchanged, RowGoneStep, NothingStops
<1>0. row \in [Sessions -> Row] /\ edRow \in [Editors -> Row] /\ EdSt
  BY DEF TypeInv, TypeOK, ProvTypeOK, StoreTypeOK, StopInv
<1>1. CASE ExtendStore(e)
  <2>1. edSess[e] \in Sessions /\ edRow[e].status # "stopped"
    BY <1>0, <1>1 DEF ExtendStore, EdSt, TypeInv, TargetsOK
  <2>2. StopsGone
    BY <1>0, <1>1, <2>1, UpdateStops DEF ExtendStore
  <2>3. EdSt'
    BY <1>0, <1>1 DEF ExtendStore, EdSt
  <2>4. QED BY <1>1, <2>2, <2>3 DEF ExtendStore, StopInv
<1>2. ASSUME NEW s \in Sessions, ExtendRead(e, s)
      PROVE  StopInv'
  <2>1. Extended(row[s]).status # "stopped"
    BY <1>0, <1>2 DEF ExtendRead, IsActive, Active
  <2>2. UNCHANGED <<row, crVars, vfVars, dcVars, mgVars, mainVars>>
    BY <1>2 DEF ExtendRead, provVars, storeVars
  <2>3. EdSt'
    BY <1>0, <1>2, <2>1 DEF ExtendRead, EdSt
  <2>4. QED BY <2>2, <2>3 DEF StopInv
<1>3. QED BY <1>1, <1>2

\* The invariant of the stopped sessions is inductive.
LEMMA StopStep ==
  ASSUME TypeInv, GhostInv, IdInv, StopInv, [Next]_vars
  PROVE  StopInv'
<1>0. Forward /\ FaultsGrow
  BY IdStep, EveryFault
<1> USE <1>0, StopUnchanged, RowGoneStep, NothingStops
<1>1. ASSUME NEW s \in Sessions, Creating(s) \/ Verifying(s) \/ ApiCreate(s)
      PROVE  StopInv'
  <2>1. StopsGone /\ CrSt' /\ VfSt' /\ UNCHANGED dcVars
    BY <1>1, CreateStepStop, VerifyStepStop DEF Creating, Verifying, ApiCreate
  <2>2. UNCHANGED <<mgVars, edVars, mainVars>>
    BY <1>1 DEF Creating, Verifying, ApiCreate
  <2>3. QED BY <2>1, <2>2 DEF StopInv
<1>2. ASSUME NEW s \in Sessions, Hosting(s)
      PROVE  StopInv'
  BY <1>2 DEF Hosting, InstanceStep, InstanceBoots, InstanceLost, StopInv
<1>3. ASSUME NEW c \in Calls, Destroying(c)
      PROVE  StopInv'
  BY <1>3, DestroyStepStop DEF Destroying, StopInv
<1>4. ASSUME NEW c \in Calls, NEW s \in Sessions, ApiDestroy(c, s)
      PROVE  StopInv'
  BY <1>4, DestroyBeginStop DEF ApiDestroy, StopInv
<1>5. CASE Tick \/ UNCHANGED vars
  BY <1>5 DEF Tick, vars, provVars, storeVars, StopInv
<1>6. QED
  BY <1>1, <1>2, <1>3, <1>4, <1>5, MgrStepStop, RcStepStop, MainStepStop, ExtendStop DEF Next

\* Without failures and slow passes nothing is left at the provider of a session
\* that is stopped and names its instance, for any number of sessions, of destroy
\* calls and of extensions.
THEOREM StoppedIsGoneAlways == Spec => []StoppedIsGone
<1> DEFINE Inv == TypeInv /\ GhostInv /\ IdInv /\ StopInv
<1>1. Init => Inv
  <2> SUFFICES ASSUME Init PROVE Inv
    OBVIOUS
  <2>1. GhostInv
    BY TimesAssumption DEF Init, ProvInit, StoreInit, GhostInv, CrAge, PassAge, UnseenAge, Exists
  <2>2. StopInv
    BY StatusRows DEF Init, ProvInit, StoreInit, NoRows, StopInv, CrSt, VfSt, DcSt, MgSt, EdSt, UpInv,
       RowGone, DcGone
  <2>3. QED BY <2>1, <2>2, TypeInit, IdInit
<1>2. Inv /\ [Next]_vars => Inv'
  BY TypeStep, GhostStep, IdStep, StopStep
<1>3. Inv => StoppedIsGone
  BY DEF StopInv, RowGone, StoppedIsGone, Exists
<1>4. QED BY <1>1, <1>2, <1>3, PTL DEF Spec

-----------------------------------------------------------------------------
(* RecoverySelects. Until the recovery is over nothing else is under way   *)
(* that could write a row: the crash ended it and nothing is started yet.  *)

Recovering == phase \in {"down", "recover", "recoverFailed"}

Alone ==
  Recovering =>
    /\ \A s \in Sessions : crPc[s] \notin CrBusy /\ vfPc[s] = "off"
    /\ \A c \in Calls : dcPc[c] \in DcReturned
    /\ mgTodo = {} /\ mgCur = NoSession /\ rcPc = "idle"
    /\ \A e \in Editors : edPc[e] = "idle"

\* Nobody else acts during the recovery.
LEMMA NobodyElse ==
  ASSUME TypeInv, Alone, Recovering
  PROVE  /\ \A s \in Sessions : ~Creating(s) /\ ~Verifying(s) /\ ~ApiCreate(s)
         /\ \A c \in Calls : ~Destroying(c) /\ \A s \in Sessions : ~ApiDestroy(c, s)
         /\ ~MgrStep /\ ~RcStep /\ ~ShutdownBegin
         /\ \A e \in Editors : ~ExtendStore(e) /\ \A s \in Sessions : ~ExtendRead(e, s)
<1> USE DEF Recovering
<1>0. /\ ~Serving /\ phase \notin {"up", "shutdown", "sweep"}
  BY DEF Serving
<1>1. \A s \in Sessions : ~Creating(s) /\ ~ApiCreate(s)
  BY <1>0 DEF Alone, CrBusy, Creating, ApiCreate, CreateStep, CreateInsert, CreateProviderMissing,
     CreateDiskRejected, CreateProvisioning, CreateInstance, CreateFail, CreateRecord, CreateCleanup
<1>2. \A s \in Sessions : ~Verifying(s)
  BY DEF Alone, Verifying, VerifyStep, VerifyPoll, VerifyStatus, VerifySSHInfo, VerifySSH, VerifyRunning,
     VerifyTimeout, VerifyCtxDone, VerifyFail, VerifyFailStore
<1>3. \A c \in Calls : ~Destroying(c) /\ \A s \in Sessions : ~ApiDestroy(c, s)
  BY <1>0 DEF Alone, DcReturned, Destroying, DestroyStep, DestroyRead, DestroyMark, DestroyAttempt,
     DestroyVerify, DestroyFinal, DestroyCleanup, DestroyForget, ApiDestroy
<1>4. ~MgrStep
  BY <1>0 DEF Alone, MgrStep, MgrList, MgrReturned, MgrDestroy, MgrStuck
<1>5. ~RcStep
  BY <1>0 DEF Alone, RcStep, RcList, RcRead, RcOrphan, RcGhost
<1>6. \A e \in Editors : ~ExtendStore(e) /\ \A s \in Sessions : ~ExtendRead(e, s)
  BY <1>0 DEF Alone, ExtendStore, ExtendRead
<1>7. QED BY <1>0, <1>1, <1>2, <1>3, <1>4, <1>5, <1>6 DEF ShutdownBegin

\* So during the recovery the next step is one of main, the host's or the clock's.
LEMMA RecoveryStep ==
  ASSUME TypeInv, Alone, Recovering, [Next]_vars
  PROVE  \/ MainStep \/ Crash \/ Tick \/ UNCHANGED vars
         \/ \E s \in Sessions : Hosting(s)
BY NobodyElse DEF Next

\* Only the crash and the exit of the process lead into the recovery.
LEMMA EntersDown ==
  ASSUME ~Recovering, Recovering', [Next]_vars
  PROVE  ProcessLost
<1> USE DEF Recovering
<1>1. CASE Crash \/ ShutdownExit
  BY <1>1 DEF Crash, ShutdownExit
<1>2. phase' = phase \/ phase' \in {"up", "shutdown"} \/ Crash \/ MainStep
  BY DEF Next, Creating, Verifying, Hosting, Destroying, MgrStep, MgrList, MgrReturned, MgrDestroy, MgrStuck,
     RcStep, RcList, RcRead, RcOrphan, RcGhost, RcHandled, RcEnd, ApiCreate, ApiDestroy, ExtendStore,
     ExtendRead, ShutdownBegin, Tick, vars, mainVars
<1>3. CASE MainStep /\ ~ShutdownExit
  BY <1>3 DEF MainStep, ShutdownDestroy, Restart, RecoverStuck, RecoverFailedBegin, RecoverFailed, RecoverDone
<1>4. QED BY <1>1, <1>2, <1>3

\* The processes of a lost process are all over.
LEMMA LostAlone ==
  ASSUME ProcessLost
  PROVE  Alone'
BY DEF ProcessLost, Alone, CrBusy, DcReturned

\* The recovery stays alone.
LEMMA AloneStep ==
  ASSUME TypeInv, Alone, [Next]_vars
  PROVE  Alone'
<1>1. CASE ~Recovering'
  BY <1>1 DEF Alone, Recovering
<1>2. CASE ~Recovering /\ Recovering'
  BY <1>2, EntersDown, LostAlone
<1>3. CASE Recovering /\ Recovering'
  <2>1. CASE ProcessLost
    BY <2>1, LostAlone
  <2>2. CASE ~ProcessLost
    <3>1. UNCHANGED <<crPc, vfPc, dcPc, mgTodo, mgCur, rcPc, edPc>>
      BY <1>3, <2>2, RecoveryStep
         DEF MainStep, Crash, ShutdownExit, ShutdownDestroy, Restart, RecoverStuck, RecoverFailedBegin,
             RecoverFailed, RecoverDone, Tick, Hosting, InstanceStep, vars, provVars,
             crVars, vfVars, dcVars, mgVars, rcVars, edVars
    <3>2. QED BY <1>3, <3>1 DEF Alone
  <2>3. QED BY <2>1, <2>2
<1>4. QED BY <1>1, <1>2, <1>3

\* What the recovery selected is as it was selected.
LEMMA SelectsStep ==
  ASSUME TypeInv, Alone, RecoverySelects, [Next]_vars
  PROVE  RecoverySelects'
<1>0. row \in [Sessions -> Row] /\ bootTodo \subseteq Sessions
  BY DEF TypeInv, TypeOK, ProvTypeOK, StoreTypeOK
<1>1. CASE ~Recovering'
  BY <1>1 DEF RecoverySelects, Recovering
<1>2. CASE ProcessLost
  BY <1>2 DEF ProcessLost, RecoverySelects
<1>3. CASE Recovering /\ ~ProcessLost
  <2>1. CASE UNCHANGED <<row, phase, bootTodo>>
    BY <2>1 DEF RecoverySelects, IsLeaked
  <2>2. CASE Restart \/ RecoverFailedBegin \/ RecoverDone
    BY <2>2 DEF Restart, RecoverFailedBegin, RecoverDone, RecoverySelects, IsLeaked
  <2>3. ASSUME NEW s \in Sessions, RecoverStuck(s) \/ RecoverFailed(s)
        PROVE  RecoverySelects'
    <3>1. bootTodo' = bootTodo \ {s} /\ UNCHANGED phase
      BY <2>3 DEF RecoverStuck, RecoverFailed
    <3>2. \A t \in Sessions \ {s} : row'[t] = row[t]
      BY <1>0, <2>3, UpdateEffect DEF RecoverStuck, RecoverFailed
    <3>3. QED BY <1>0, <3>1, <3>2 DEF RecoverySelects, IsLeaked
  <2>4. ASSUME NEW s \in Sessions, ShutdownDestroy(s) PROVE FALSE
    BY <1>3, <2>4 DEF ShutdownDestroy, Recovering
  <2>5. ASSUME NEW s \in Sessions, Hosting(s) PROVE UNCHANGED <<row, phase, bootTodo>>
    BY <2>5 DEF Hosting, InstanceStep, InstanceBoots, InstanceLost, mainVars
  <2>6. CASE Tick \/ UNCHANGED vars
    BY <2>1, <2>6 DEF Tick, vars, provVars, storeVars, mainVars
  <2>7. QED
    BY <1>3, <2>1, <2>2, <2>3, <2>4, <2>5, <2>6, RecoveryStep DEF MainStep, Crash, ShutdownExit
<1>4. QED BY <1>1, <1>2, <1>3, EntersDown

\* A session RecoverStuckSessions has listed is in the state it was selected for
\* when its turn comes, for any number of sessions, crashes and failures: the
\* copies it stores are not stale.
THEOREM RecoverySelectsAlways == Spec => []RecoverySelects
<1>1. Init => TypeInv /\ Alone /\ RecoverySelects
  BY TypeInit DEF Init, Alone, Recovering, RecoverySelects
<1>2. TypeInv /\ Alone /\ RecoverySelects /\ [Next]_vars => TypeInv' /\ Alone' /\ RecoverySelects'
  BY TypeStep, AloneStep, SelectsStep
<1>3. QED BY <1>1, <1>2, PTL DEF Spec

=============================================================================
