--------------------------- MODULE LifecycleTypes ---------------------------
(* Type correctness of Lifecycle: the theorem TypeCorrect and its lemmas.  *)
EXTENDS Lifecycle, TLAPS

\* What a busy process acts on is a session.
TargetsOK ==
  /\ \A c \in Calls : dcPc[c] \notin DcReturned => dcSess[c] \in Sessions
  /\ \A e \in Editors : edPc[e] = "store" => edSess[e] \in Sessions

TypeInv == TypeOK /\ TargetsOK

-----------------------------------------------------------------------------
(* The operators of SessionStore                                           *)

\* What an Update may do to the table: nothing, or store the row.
LEMMA UpdateEffect ==
  ASSUME NEW s \in Sessions, NEW r, Update(s, r)
  PROVE  /\ row' = row \/ row' = [row EXCEPT ![s] = r]
         /\ faults' = faults \/ faults' = faults + 1
BY DEF Update, Stored, NotStored, Fault, NoFault

\* An Update with a proper row keeps the table and the fault counter typed.
LEMMA UpdateType ==
  ASSUME row \in [Sessions -> Row], faults \in Nat,
         NEW s \in Sessions, NEW r \in Row, Update(s, r)
  PROVE  row' \in [Sessions -> Row] /\ faults' \in Nat
BY UpdateEffect

\* DestroyInstance only changes the one instance.
LEMMA DestroyInstanceType ==
  ASSUME inst \in [Sessions -> InstStates], faults \in Nat,
         NEW s \in Sessions, DestroyInstance(s)
  PROVE  inst' \in [Sessions -> InstStates] /\ faults' \in Nat
BY DEF DestroyInstance, Fault, NoFault, InstStates

\* The constant rows, and rows made of rows, are rows.
LEMMA RowTypes ==
  /\ NoRow \in Row
  /\ NewRow \in Row
  /\ \A r \in Row, st \in Statuses : With(r, st) \in Row
  /\ \A r \in Row : WithID(r) \in Row /\ WithoutID(r) \in Row /\ WithSSH(r) \in Row
BY ReservationAssumption
   DEF NoRow, NewRow, Row, With, WithID, WithoutID, WithSSH, Statuses, Active, Terminal

\* One step of DestroySession keeps its types.
LEMMA DestroyStepType ==
  ASSUME TypeInv, NEW c \in Calls, DestroyStep(c)
  PROVE  ProvTypeOK' /\ (\A d \in Calls : dcPc'[d] \notin DcReturned => dcSess'[d] \in Sessions)
<1> USE RowTypes, NoLockAssumption, NoSessionAssumption
    DEF TypeInv, TargetsOK, TypeOK, ProvTypeOK, StoreTypeOK, DcPcs, DcReturned, DcBody,
        storeVars, crVars, vfVars
<1>1. CASE DestroyRead(c)
  BY <1>1 DEF DestroyRead, DcReturn, DcGo, Fault, NoFault, Statuses, Active, Terminal
<1>2. CASE DestroyMark(c)
  <2>1. row' \in [Sessions -> Row] /\ faults' \in Nat
    BY <1>2, UpdateType DEF DestroyMark
  <2>2. CASE dcSess[c] \in Unregistered
    <3>1. DcReturn(c, "err") /\ UNCHANGED <<inst, age, crVars, vfVars>>
      BY <1>2, <2>2 DEF DestroyMark
    <3>2. QED BY <2>1, <3>1 DEF DcReturn, DcGo
  <2>3. CASE dcSess[c] \notin Unregistered
    BY <1>2, <2>1, <2>3 DEF DestroyMark, DcGo
  <2>4. QED BY <2>2, <2>3
<1>3. CASE DestroyAttempt(c)
  BY <1>3, DestroyInstanceType DEF DestroyAttempt, DcGo
<1>4. CASE DestroyVerify(c)
  BY <1>4 DEF DestroyVerify, DcReturn, DcRetry, DcGo, Fault, NoFault
<1>5. CASE DestroyFinal(c)
  BY <1>5, UpdateType DEF DestroyFinal, DcReturn, DcGo, Statuses, Terminal
<1>6. CASE DestroyCleanup(c)
  BY <1>6, DestroyInstanceType DEF DestroyCleanup, DcGo
<1>7. CASE DestroyForget(c)
  <2>1. With(WithoutID(dcRow[c]), "stopped") \in Row
    BY DEF Statuses, Terminal
  <2>2. row' \in [Sessions -> Row] /\ faults' \in Nat
    BY <1>7, <2>1, UpdateType DEF DestroyForget
  <2>3. QED BY <1>7, <2>2 DEF DestroyForget, DcReturn, DcGo
<1>8. QED BY <1>1, <1>2, <1>3, <1>4, <1>5, <1>6, <1>7 DEF DestroyStep

\* One step of CreateSession keeps the types.
LEMMA CreateStepType ==
  ASSUME TypeInv, NEW s \in Sessions, CreateCheck(s) \/ CreateStep(s)
  PROVE  ProvTypeOK' /\ UNCHANGED dcVars
<1> USE RowTypes
    DEF TypeInv, TypeOK, ProvTypeOK, StoreTypeOK, CrPcs, CrBusy, VfPcs, CrGo,
        storeVars, crVars, vfVars, dcVars
<1>1. CASE CreateCheck(s)
  BY <1>1 DEF CreateCheck
<1>2. CASE CreateInsert(s)
  BY <1>2 DEF CreateInsert, Stored, NotStored, Fault, NoFault
<1>3. CASE CreateProviderMissing(s) \/ CreateDiskRejected(s)
  BY <1>3 DEF CreateProviderMissing, CreateDiskRejected
<1>4. CASE CreateProvisioning(s)
  <2>1. With(crRow[s], "provisioning") \in Row
    BY DEF Statuses, Active
  <2>2. row' \in [Sessions -> Row] /\ faults' \in Nat
    BY <1>4, <2>1, UpdateType DEF CreateProvisioning
  <2>3. QED BY <1>4, <2>1, <2>2 DEF CreateProvisioning
<1>5. CASE CreateInstance(s)
  <2>1. crRow' \in [Sessions -> Row]
    BY <1>5 DEF CreateInstance
  <2>2. inst' \in [Sessions -> InstStates] /\ faults' \in Nat
    BY <1>5 DEF CreateInstance, InstStates, Fault, NoFault
  <2>3. QED BY <1>5, <2>1, <2>2 DEF CreateInstance
<1>6. CASE CreateFail(s)
  <2>1. row' \in [Sessions -> Row] /\ faults' \in Nat
    BY <1>6, UpdateType DEF CreateFail, Statuses, Terminal
  <2>2. QED BY <1>6, <2>1 DEF CreateFail
<1>7. CASE CreateRecord(s)
  BY <1>7 DEF CreateRecord, Stored, NotStored, Fault, NoFault
<1>8. CASE CreateCleanup(s)
  BY <1>8, DestroyInstanceType DEF CreateCleanup
<1>9. QED BY <1>1, <1>2, <1>3, <1>4, <1>5, <1>6, <1>7, <1>8 DEF CreateStep

\* One step of the verification goroutine keeps the types.
LEMMA VerifyStepType ==
  ASSUME TypeInv, NEW s \in Sessions, VerifyStep(s)
  PROVE  ProvTypeOK' /\ UNCHANGED dcVars
<1> USE RowTypes
    DEF TypeInv, TypeOK, ProvTypeOK, StoreTypeOK, VfPcs, VfGo, VfEnd, VfAgain,
        storeVars, crVars, vfVars, dcVars
<1>1. CASE VerifyPoll(s)
  <2>1. vfPc' \in [Sessions -> VfPcs]
    BY <1>1 DEF VerifyPoll, VfProceed, SshOrWait
  <2>2. vfRow' \in [Sessions -> Row]
    BY <1>1 DEF VerifyPoll, VfProceed, SshOrWait
  <2>3. vfErr' \in [Sessions -> BOOLEAN]
    BY <1>1 DEF VerifyPoll, VfProceed, SshOrWait
  <2>4. faults' \in Nat /\ UNCHANGED <<row, inst, age, crVars, dcVars>>
    BY <1>1 DEF VerifyPoll, VfProceed, SshOrWait
  <2>5. QED BY <2>1, <2>2, <2>3, <2>4
<1>2. CASE VerifyStatus(s)
  BY <1>2 DEF VerifyStatus, Fault, NoFault
<1>3. CASE VerifySSHInfo(s)
  <2>1. WithSSH(vfRow[s]) \in Row
    OBVIOUS
  <2>2. row' \in [Sessions -> Row] /\ faults' \in Nat
    BY <1>3, <2>1, UpdateType DEF VerifySSHInfo
  <2>3. QED BY <1>3, <2>1, <2>2 DEF VerifySSHInfo
<1>4. CASE VerifySSH(s)
  <2>1. vfPc' \in [Sessions -> VfPcs]
    BY <1>4 DEF VerifySSH
  <2>2. vfRow' \in [Sessions -> Row]
    BY <1>4 DEF VerifySSH
  <2>3. vfErr' \in [Sessions -> BOOLEAN]
    BY <1>4 DEF VerifySSH
  <2>4. faults' \in Nat /\ UNCHANGED <<row, inst, age, crVars, dcVars>>
    BY <1>4 DEF VerifySSH
  <2>5. QED BY <2>1, <2>2, <2>3, <2>4
<1>5. CASE VerifyRunning(s)
  <2>1. row' \in [Sessions -> Row] /\ faults' \in Nat
    BY <1>5, UpdateType DEF VerifyRunning, Statuses, Active
  <2>2. QED BY <1>5, <2>1 DEF VerifyRunning
<1>6. CASE VerifyTimeout(s) \/ VerifyCtxDone(s)
  <2>1. vfPc' \in [Sessions -> VfPcs]
    BY <1>6 DEF VerifyTimeout, VerifyCtxDone, Fault, NoFault
  <2>2. vfRow' \in [Sessions -> Row]
    BY <1>6 DEF VerifyTimeout, VerifyCtxDone, Fault, NoFault
  <2>3. vfErr' \in [Sessions -> BOOLEAN]
    BY <1>6 DEF VerifyTimeout, VerifyCtxDone, Fault, NoFault
  <2>4. faults' \in Nat /\ UNCHANGED <<row, inst, age, crVars, dcVars>>
    BY <1>6 DEF VerifyTimeout, VerifyCtxDone, Fault, NoFault
  <2>5. QED BY <2>1, <2>2, <2>3, <2>4
<1>7. CASE VerifyFail(s)
  <2>1. inst' \in [Sessions -> InstStates] /\ faults' \in Nat
    BY <1>7, DestroyInstanceType DEF VerifyFail
  <2>2. QED BY <1>7, <2>1 DEF VerifyFail
<1>8. CASE VerifyFailStore(s)
  <2>1. row' \in [Sessions -> Row] /\ faults' \in Nat
    BY <1>8, UpdateType DEF VerifyFailStore, Statuses, Terminal
  <2>2. QED BY <1>8, <2>1 DEF VerifyFailStore
<1>9. QED BY <1>1, <1>2, <1>3, <1>4, <1>5, <1>6, <1>7, <1>8 DEF VerifyStep

\* DestroySession is called on a session.
LEMMA DestroyBeginType ==
  ASSUME TypeInv, NEW c \in Calls, NEW s \in Sessions, DestroyBegin(c, s)
  PROVE  ProvTypeOK' /\ (\A d \in Calls : dcPc'[d] \notin DcReturned => dcSess'[d] \in Sessions)
<1>1. LockFor(s) \subseteq Locks \cup {NoLock}
  BY DEF LockFor, TypeInv, TypeOK, ProvTypeOK
<1>2. QED
  BY <1>1 DEF DestroyBegin, DcGo, TypeInv, TargetsOK, TypeOK, ProvTypeOK, StoreTypeOK,
              DcPcs, DcReturned, DcBody, storeVars, crVars, vfVars

\* The provider's steps keep the types.
LEMMA InstanceStepType ==
  ASSUME TypeInv, NEW s \in Sessions, InstanceStep(s)
  PROVE  ProvTypeOK' /\ UNCHANGED dcVars
BY DEF InstanceStep, InstanceBoots, InstanceLost, Fault, InstStates, TypeInv, TypeOK,
       ProvTypeOK, StoreTypeOK, crVars, vfVars, dcVars

-----------------------------------------------------------------------------
(* Types of the other components                                           *)

\* The steps of the lifecycle manager keep the types.
LEMMA MgrStepType ==
  ASSUME TypeInv, MgrStep
  PROVE  TypeInv'
<1> USE RowTypes, MgrAssumption
<1>1. CASE MgrList
  <2>1. mgTodo' \subseteq Sessions /\ faults' \in Nat
    BY <1>1 DEF MgrList, Selected, Fault, NoFault, TypeInv, TypeOK, ProvTypeOK, StoreTypeOK
  <2>2. mgStage' \in Stages
    BY <1>1 DEF MgrList, NextStage, Stages, TypeInv, TypeOK
  <2>3. mgRow' \in [Sessions -> Row]
    BY <1>1 DEF MgrList, TypeInv, TypeOK, ProvTypeOK, StoreTypeOK
  <2>4. QED
    BY <1>1, <2>1, <2>2, <2>3 DEF MgrList, TypeInv, TargetsOK, TypeOK, ProvTypeOK, StoreTypeOK,
       crVars, vfVars, dcVars, rcVars, edVars, mainVars
<1>2. CASE MgrReturned
  <2>1. mgCur \in Sessions /\ mgRow[mgCur] \in Row
    BY <1>2 DEF MgrReturned, TypeInv, TypeOK
  <2>2. row' \in [Sessions -> Row] /\ faults' \in Nat
    BY <1>2, <2>1, UpdateType DEF MgrReturned, TypeInv, TypeOK, ProvTypeOK, StoreTypeOK
  <2>3. dcPc' \in [Calls -> DcPcs] /\ (\A c \in Calls : dcPc'[c] \notin DcReturned => dcPc'[c] = dcPc[c])
    BY <1>2 DEF MgrReturned, DcPcs, DcReturned, TypeInv, TypeOK, ProvTypeOK
  <2>4. mgTodo' \subseteq Sessions /\ mgRow' \in [Sessions -> Row] /\ mgCur' \in Sessions \cup {NoSession}
    BY <1>2 DEF MgrReturned, TypeInv, TypeOK
  <2>5. QED
    BY <1>2, <2>2, <2>3, <2>4 DEF MgrReturned, TypeInv, TargetsOK, TypeOK, ProvTypeOK, StoreTypeOK,
       crVars, vfVars, rcVars, edVars, mainVars
<1>3. ASSUME NEW s \in Sessions, MgrDestroy(s)
      PROVE  TypeInv'
  <2>1. ProvTypeOK' /\ (\A d \in Calls : dcPc'[d] \notin DcReturned => dcSess'[d] \in Sessions)
    BY <1>3, DestroyBeginType DEF MgrDestroy
  <2>2. QED
    BY <1>3, <2>1 DEF MgrDestroy, TypeInv, TargetsOK, TypeOK, rcVars, edVars, mainVars
<1>4. ASSUME NEW s \in Sessions, MgrStuck(s)
      PROVE  TypeInv'
  <2>1. With(mgRow[s], "failed") \in Row
    BY DEF Statuses, Terminal, TypeInv, TypeOK
  <2>2. row' \in [Sessions -> Row] /\ faults' \in Nat
    BY <1>4, <2>1, UpdateType DEF MgrStuck, TypeInv, TypeOK, ProvTypeOK, StoreTypeOK
  <2>3. mgTodo' \subseteq Sessions /\ mgRow' \in [Sessions -> Row]
    BY <1>4 DEF MgrStuck, TypeInv, TypeOK
  <2>4. QED
    BY <1>4, <2>2, <2>3 DEF MgrStuck, TypeInv, TargetsOK, TypeOK, ProvTypeOK, StoreTypeOK,
       crVars, vfVars, dcVars, rcVars, edVars, mainVars
<1>5. QED BY <1>1, <1>2, <1>3, <1>4 DEF MgrStep

\* The end of a reconciliation pass, and of the work on one session of it.
LEMMA RcHandledType ==
  ASSUME TypeInv, NEW s \in Sessions, RcEnd \/ RcHandled(s)
  PROVE  /\ rcPc' \in RcPcs /\ rcSeen' \subseteq Sessions /\ rcTodo' \subseteq Sessions
         /\ rcRow' \in [Sessions -> Row] /\ rcAge' \in Nat
         /\ phase' \in Phases /\ bootTodo' \subseteq Sessions /\ sdTodo' \subseteq Sessions
BY RowTypes DEF RcHandled, RcEnd, NoRows, RcPcs, Phases, TypeInv, TypeOK, mainVars

\* The steps of the reconciler keep the types.
LEMMA RcStepType ==
  ASSUME TypeInv, RcStep
  PROVE  TypeInv'
<1> DEFINE RcTypes == /\ rcPc' \in RcPcs /\ rcSeen' \subseteq Sessions /\ rcTodo' \subseteq Sessions
                      /\ rcRow' \in [Sessions -> Row] /\ rcAge' \in Nat
                      /\ phase' \in Phases /\ bootTodo' \subseteq Sessions /\ sdTodo' \subseteq Sessions
<1> USE DEF TypeInv, TypeOK, ProvTypeOK, StoreTypeOK
<1>1. ASSUME RcEnd PROVE RcTypes
  BY <1>1, RowTypes DEF RcEnd, NoRows, RcPcs, Phases
<1>2. ASSUME RcTypes, row' \in [Sessions -> Row], inst' \in [Sessions -> InstStates], faults' \in Nat,
             UNCHANGED <<age, crVars, vfVars, dcVars, mgVars, edVars>>
      PROVE  TypeInv'
  BY <1>2 DEF TargetsOK, crVars, vfVars, dcVars, mgVars, edVars
<1>3. CASE RcList
  <2>1. RcTypes
    BY <1>1, <1>3 DEF RcList, RcPass, RcPcs, mainVars
  <2>2. faults' \in Nat /\ UNCHANGED <<row, inst, age, crVars, vfVars, dcVars, mgVars, edVars>>
    BY <1>3 DEF RcList, Fault, NoFault
  <2>3. QED BY <1>2, <2>1, <2>2
<1>4. CASE RcRead
  <2>1. Local \subseteq Sessions
    BY DEF Local
  <2>2. [s \in Sessions |-> IF s \in Local THEN row[s] ELSE NoRow] \in [Sessions -> Row]
    BY RowTypes
  <2>3. RcTypes
    BY <1>1, <1>4, <2>1, <2>2 DEF RcRead, RcPass, RcPcs, mainVars
  <2>4. faults' \in Nat /\ UNCHANGED <<row, inst, age, crVars, vfVars, dcVars, mgVars, edVars>>
    BY <1>4 DEF RcRead, Fault, NoFault
  <2>5. QED BY <1>2, <2>3, <2>4
<1>5. ASSUME NEW s \in Sessions, RcOrphan(s)
      PROVE  TypeInv'
  <2>1. RcTypes
    BY <1>5, RcHandledType DEF RcOrphan
  <2>2. inst' \in [Sessions -> InstStates] /\ faults' \in Nat
    BY <1>5, DestroyInstanceType DEF RcOrphan
  <2>3. row' = row /\ UNCHANGED <<age, crVars, vfVars, dcVars, mgVars, edVars>>
    BY <1>5 DEF RcOrphan
  <2>4. QED BY <1>2, <2>1, <2>2, <2>3
<1>6. ASSUME NEW s \in Sessions, RcGhost(s)
      PROVE  TypeInv'
  <2>1. RcTypes
    BY <1>6, RcHandledType DEF RcGhost
  <2>2. With(rcRow[s], "stopped") \in Row
    BY RowTypes DEF Statuses, Terminal
  <2>3. row' \in [Sessions -> Row] /\ faults' \in Nat
    BY <1>6, <2>2, UpdateType DEF RcGhost
  <2>4. inst' = inst /\ UNCHANGED <<age, crVars, vfVars, dcVars, mgVars, edVars>>
    BY <1>6 DEF RcGhost
  <2>5. QED BY <1>2, <2>1, <2>3, <2>4
<1>7. QED BY <1>3, <1>4, <1>5, <1>6 DEF RcStep

\* The end of the process keeps the types.
LEMMA ProcessLostType ==
  ASSUME TypeInv, ProcessLost, row' = row, age' = age, faults' \in Nat
  PROVE  TypeInv'
<1>1. inst' \in [Sessions -> InstStates] /\ crPc' \in [Sessions -> CrPcs]
  BY DEF ProcessLost, TypeInv, TypeOK, ProvTypeOK, StoreTypeOK, InstStates, CrPcs
<1>2. /\ crRow' \in [Sessions -> Row] /\ vfPc' \in [Sessions -> VfPcs] /\ vfRow' \in [Sessions -> Row]
      /\ vfErr' \in [Sessions -> BOOLEAN] /\ lockMap' \in [Sessions -> Locks \cup {NoLock}]
  BY RowTypes DEF ProcessLost, NoRows, VfPcs
<1>3. /\ dcPc' \in [Calls -> DcPcs] /\ dcSess' \in [Calls -> Sessions \cup {NoSession}]
      /\ dcRow' \in [Calls -> Row] /\ dcLock' \in [Calls -> Locks \cup {NoLock}]
      /\ dcTry' \in [Calls -> Nat] /\ \A c \in Calls : dcPc'[c] \in DcReturned
  BY RowTypes DEF ProcessLost, DcPcs, DcReturned
<1>4. /\ mgStage' \in Stages /\ mgTodo' \subseteq Sessions /\ mgRow' \in [Sessions -> Row]
      /\ mgCur' \in Sessions \cup {NoSession}
  BY RowTypes DEF ProcessLost, NoRows, Stages
<1>5. /\ rcPc' \in RcPcs /\ rcSeen' \subseteq Sessions /\ rcRow' \in [Sessions -> Row]
      /\ rcTodo' \subseteq Sessions /\ rcAge' \in Nat
  BY RowTypes DEF ProcessLost, NoRows, RcPcs
<1>6. /\ edPc' \in [Editors -> {"idle", "store"}] /\ edSess' \in [Editors -> Sessions \cup {NoSession}]
      /\ edRow' \in [Editors -> Row] /\ \A e \in Editors : edPc'[e] # "store"
  BY RowTypes DEF ProcessLost
<1>7. phase' \in Phases /\ bootTodo' \subseteq Sessions /\ sdTodo' \subseteq Sessions
  BY DEF ProcessLost, Phases
<1>8. row' \in [Sessions -> Row] /\ age' \in [Sessions -> Nat] /\ faults' \in Nat
  BY DEF TypeInv, TypeOK, ProvTypeOK, StoreTypeOK
<1>9. QED
  BY <1>1, <1>2, <1>3, <1>4, <1>5, <1>6, <1>7, <1>8 DEF TypeInv, TargetsOK, TypeOK, ProvTypeOK, StoreTypeOK

\* The rows of RecoverStuckSessions are rows.
LEMMA RecoverType ==
  ASSUME TypeInv, NEW s \in Sessions, RecoverStuck(s) \/ RecoverFailed(s)
  PROVE  row' \in [Sessions -> Row] /\ inst' \in [Sessions -> InstStates] /\ faults' \in Nat
<1> USE RowTypes DEF TypeInv, TypeOK, ProvTypeOK, StoreTypeOK
<1>1. /\ row[s] \in Row /\ WithSSH(row[s]) \in Row
      /\ \A r \in Row, st \in {"running", "failed", "stopped"} : With(r, st) \in Row
  BY DEF Statuses, Active, Terminal
<1>2. CASE RecoverStuck(s)
  <2> DEFINE over == With(row[s], IF row[s].status = "provisioning" THEN "failed" ELSE "stopped")
  <2>1. over \in Row
    BY <1>1
  <2>2. row' \in [Sessions -> Row] /\ faults' \in Nat
    <3>1. CASE UNCHANGED <<row, faults>>
      BY <3>1
    <3>2. CASE \E q \in Row : Update(s, q)
      BY <3>2, UpdateType
    <3>3. CASE row' \in {row, [row EXCEPT ![s] = over]} /\ Fault
      BY <2>1, <3>3 DEF Fault
    <3>4. CASE DestroyInstance(s) /\ UNCHANGED row
      BY <3>4, DestroyInstanceType
    <3>5. QED BY <1>1, <1>2, <2>1, <3>1, <3>2, <3>3, <3>4 DEF RecoverStuck
  <2>3. inst' \in [Sessions -> InstStates]
    BY <1>2, DestroyInstanceType DEF RecoverStuck
  <2>4. QED BY <2>2, <2>3
<1>3. CASE RecoverFailed(s)
  <2>1. With(WithoutID(row[s]), "failed") \in Row
    BY <1>1
  <2>2. With(With(WithoutID(row[s]), "failed"), "stopped") \in Row
    BY <1>1, <2>1
  <2>3. row' \in [Sessions -> Row] /\ faults' \in Nat
    BY <1>3, <2>1, <2>2, UpdateType DEF RecoverFailed, Fault
  <2>4. inst' \in [Sessions -> InstStates]
    BY <1>3 DEF RecoverFailed, InstStates
  <2>5. QED BY <2>3, <2>4
<1>4. QED BY <1>2, <1>3

\* Startup, shutdown and the crash keep the types.
LEMMA MainStepType ==
  ASSUME TypeInv, MainStep \/ Crash \/ ShutdownBegin
  PROVE  TypeInv'
<1> USE DEF TypeInv, TypeOK, ProvTypeOK, StoreTypeOK
<1>1. ASSUME phase' \in Phases, bootTodo' \subseteq Sessions, sdTodo' \subseteq Sessions,
             row' \in [Sessions -> Row], inst' \in [Sessions -> InstStates], faults' \in Nat,
             UNCHANGED <<age, crVars, vfVars, dcVars, mgVars, rcVars, edVars>>
      PROVE  TypeInv'
  BY <1>1 DEF TargetsOK, crVars, vfVars, dcVars, mgVars, rcVars, edVars
<1>2. CASE Crash \/ ShutdownExit
  BY <1>2, ProcessLostType DEF Crash, ShutdownExit, Fault
<1>3. CASE ShutdownBegin
  <2>1. Local \subseteq Sessions
    BY DEF Local
  <2>2. phase' \in Phases /\ sdTodo' \subseteq Sessions /\ faults' \in Nat
    BY <1>3, <2>1 DEF ShutdownBegin, Phases, Fault
  <2>3. QED BY <1>1, <1>3, <2>2 DEF ShutdownBegin
<1>4. CASE Restart \/ RecoverFailedBegin \/ RecoverDone
  <2>1. /\ phase' \in Phases /\ bootTodo' \subseteq Sessions /\ faults' \in Nat
        /\ UNCHANGED <<row, inst, sdTodo, age, crVars, vfVars, dcVars, mgVars, rcVars, edVars>>
    BY <1>4 DEF Restart, RecoverFailedBegin, RecoverDone, Phases, Fault, NoFault, storeVars
  <2>2. QED BY <1>1, <2>1
<1>5. ASSUME NEW s \in Sessions, ShutdownDestroy(s)
      PROVE  TypeInv'
  <2>1. inst' \in [Sessions -> InstStates] /\ faults' \in Nat
    BY <1>5, DestroyInstanceType DEF ShutdownDestroy
  <2>2. QED BY <1>1, <1>5, <2>1 DEF ShutdownDestroy
<1>6. ASSUME NEW s \in Sessions, RecoverStuck(s) \/ RecoverFailed(s)
      PROVE  TypeInv'
  <2>1. row' \in [Sessions -> Row] /\ inst' \in [Sessions -> InstStates] /\ faults' \in Nat
    BY <1>6, RecoverType
  <2>2. /\ bootTodo' \subseteq Sessions
        /\ UNCHANGED <<age, crVars, vfVars, dcVars, mgVars, rcVars, edVars, phase, sdTodo>>
    BY <1>6 DEF RecoverStuck, RecoverFailed
  <2>3. QED BY <1>1, <2>1, <2>2
<1>7. QED BY <1>2, <1>3, <1>4, <1>5, <1>6 DEF MainStep

\* An extended row is a row.
LEMMA ExtendedType == \A r \in Row : Extended(r) \in Row
BY DEF Extended, Row

\* ExtendSession keeps the types.
LEMMA ExtendType ==
  ASSUME TypeInv, NEW e \in Editors,
         ExtendStore(e) \/ \E s \in Sessions : ExtendRead(e, s)
  PROVE  TypeInv'
<1> USE RowTypes, NoSessionAssumption DEF TypeInv, TypeOK, ProvTypeOK, StoreTypeOK, TargetsOK
<1>1. CASE ExtendStore(e)
  <2>1. edSess[e] \in Sessions /\ edRow[e] \in Row
    BY <1>1 DEF ExtendStore
  <2>2. row' \in [Sessions -> Row] /\ faults' \in Nat
    BY <1>1, <2>1, UpdateType DEF ExtendStore
  <2>3. QED
    BY <1>1, <2>2 DEF ExtendStore, crVars, vfVars, dcVars, mgVars, rcVars, mainVars
<1>2. ASSUME NEW s \in Sessions, ExtendRead(e, s)
      PROVE  TypeInv'
  <2>1. Extended(row[s]) \in Row
    BY ExtendedType
  <2>2. edRow' \in [Editors -> Row]
    BY <1>2, <2>1 DEF ExtendRead
  <2>3. /\ edPc' \in [Editors -> {"idle", "store"}] /\ edSess' \in [Editors -> Sessions \cup {NoSession}]
        /\ \A d \in Editors : edPc'[d] = "store" => edSess'[d] \in Sessions
    BY <1>2 DEF ExtendRead
  <2>4. QED
    BY <1>2, <2>2, <2>3 DEF ExtendRead, provVars, storeVars, crVars, vfVars, dcVars, mgVars, rcVars, mainVars
<1>3. QED BY <1>1, <1>2

\* The clock keeps the types.
LEMMA TickType ==
  ASSUME TypeInv, Tick
  PROVE  TypeInv'
<1> USE DEF TypeInv, TypeOK, ProvTypeOK, StoreTypeOK, TargetsOK
<1>1. age' \in [Sessions -> Nat] /\ rcAge' \in Nat /\ faults' \in Nat
  BY DEF Tick, Aged, Fault, NoFault
<1>2. QED
  BY <1>1 DEF Tick, crVars, vfVars, dcVars, mgVars, edVars, mainVars

\* The types are inductive.
LEMMA TypeStep ==
  ASSUME TypeInv, [Next]_vars
  PROVE  TypeInv'
<1>1. ASSUME ProvTypeOK', UNCHANGED <<mgVars, rcVars, edVars, mainVars>>,
             \A d \in Calls : dcPc'[d] \notin DcReturned => dcSess'[d] \in Sessions
      PROVE  TypeInv'
  BY <1>1 DEF TypeInv, TypeOK, TargetsOK, mgVars, rcVars, edVars, mainVars
<1>2. ASSUME UNCHANGED dcVars
      PROVE  \A d \in Calls : dcPc'[d] \notin DcReturned => dcSess'[d] \in Sessions
  BY <1>2 DEF dcVars, TypeInv, TargetsOK
<1>3. ASSUME NEW s \in Sessions, Creating(s) \/ Verifying(s) \/ Hosting(s) \/ ApiCreate(s)
      PROVE  TypeInv'
  <2>1. ProvTypeOK' /\ UNCHANGED dcVars
    BY <1>3, CreateStepType, VerifyStepType, InstanceStepType
       DEF Creating, Verifying, Hosting, ApiCreate
  <2>2. UNCHANGED <<mgVars, rcVars, edVars, mainVars>>
    BY <1>3 DEF Creating, Verifying, Hosting, ApiCreate
  <2>3. QED BY <1>1, <1>2, <2>1, <2>2
<1>4. ASSUME NEW c \in Calls, Destroying(c)
      PROVE  TypeInv'
  BY <1>1, <1>4, DestroyStepType DEF Destroying
<1>5. ASSUME NEW c \in Calls, NEW s \in Sessions, ApiDestroy(c, s)
      PROVE  TypeInv'
  BY <1>1, <1>5, DestroyBeginType DEF ApiDestroy
<1>6. CASE UNCHANGED vars
  BY <1>6 DEF TypeInv, TypeOK, ProvTypeOK, StoreTypeOK, TargetsOK, vars, provVars, storeVars,
     crVars, vfVars, dcVars, mgVars, rcVars, edVars, mainVars
<1>7. QED
  BY <1>3, <1>4, <1>5, <1>6, MgrStepType, RcStepType, MainStepType, ExtendType, TickType DEF Next

\* The initial state is typed.
LEMMA TypeInit == Init => TypeInv
BY RowTypes
   DEF Init, ProvInit, StoreInit, NoRows, TypeInv, TypeOK, ProvTypeOK, StoreTypeOK, TargetsOK,
       InstStates, CrPcs, VfPcs, DcPcs, DcReturned, Stages, RcPcs, Phases

\* Every behaviour of the service is typed: none of the copies of rows that the
\* components keep, store and drop in any order is ever malformed.
THEOREM TypeCorrect == Spec => []TypeOK
<1>1. Init => TypeInv
  BY TypeInit
<1>2. TypeInv /\ [Next]_vars => TypeInv'
  BY TypeStep
<1>3. TypeInv => TypeOK
  BY DEF TypeInv
<1>4. QED BY <1>1, <1>2, <1>3, PTL DEF Spec

=============================================================================
