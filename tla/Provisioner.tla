---------------------------- MODULE Provisioner ----------------------------
(***************************************************************************)
(* internal/service/provisioner/service.go: two-phase provisioning, the    *)
(* verification goroutine and verified destruction.                        *)
(*                                                                         *)
(* Three kinds of process share the sessions table and the provider:       *)
(*   - the request that creates session s (crPc, crRow);                   *)
(*   - the goroutine that verifies s (vfPc, vfRow, vfErr);                 *)
(*   - the calls of DestroySession (dcPc, ...), each on one session,       *)
(*     serialised by the per-session mutexes of the map destroyLocks.      *)
(* A step is one database or one provider call with the computation around *)
(* it; between two steps of a process every other process may run.         *)
(***************************************************************************)
EXTENDS SessionStore

CONSTANTS
  Unregistered,   \* sessions whose provider is not in the registry
  Entrypoint,     \* sessions with LaunchMode entrypoint (API verification)
  Calls,          \* concurrent callers of DestroySession
  Locks,          \* mutex identities; an unreferenced one can be allocated
  NoLock,         \* "no entry in the map"
  NoSession,      \* "no session"
  DestroyRetries  \* destroyRetries

ASSUME RegistryAssumption == Unregistered \subseteq Sessions /\ Entrypoint \subseteq Sessions
ASSUME NoLockAssumption == NoLock \notin Locks
ASSUME NoSessionAssumption == NoSession \notin Sessions
ASSUME RetriesAssumption == DestroyRetries \in Nat \ {0}

VARIABLES
  crPc, crRow,                            \* createSessionWithRetry
  vfPc, vfRow, vfErr,                     \* waitFor{SSH,API}VerifyAsync
  dcPc, dcSess, dcRow, dcLock, dcTry,     \* DestroySession
  lockMap                                 \* s.destroyLocks

crVars == <<crPc, crRow>>
vfVars == <<vfPc, vfRow, vfErr>>
dcVars == <<dcPc, dcSess, dcRow, dcLock, dcTry, lockMap>>
provVars == <<storeVars, crVars, vfVars, dcVars>>

-----------------------------------------------------------------------------
(* CreateSession                                                           *)

CrBusy == {"checked", "inserted", "create", "record", "cleanup", "fail"}
CrPcs == {"off", "returned"} \cup CrBusy

CrGo(s, pc) == crPc' = [crPc EXCEPT ![s] = pc]

\* Mutant: the provider is called before there is a row.
CreateCheckThenCall(s) ==
  /\ crPc[s] = "off"
  /\ CrGo(s, IF HasActiveTwin(s) THEN "returned" ELSE "create")
  /\ UNCHANGED <<storeVars, crRow, vfVars, dcVars>>

\* The check for an active session of the same consumer and offer.
CreateCheck(s) ==
  /\ crPc[s] = "off"
  /\ CrGo(s, IF HasActiveTwin(s) THEN "returned" ELSE "checked")
  /\ UNCHANGED <<storeVars, crRow, vfVars, dcVars>>

\* PHASE 1: store.Create, with CreatedAt = now. A duplicate that slipped past
\* the check is refused by the index; any other error is returned too.
CreateInsert(s) ==
  /\ crPc[s] = "checked"
  /\ \/ /\ Stored(s, NewRow)
        /\ age' = [age EXCEPT ![s] = 0]
        /\ crRow' = [crRow EXCEPT ![s] = NewRow]
        /\ CrGo(s, "inserted")
     \/ NotStored(s, NewRow) /\ CrGo(s, "returned") /\ UNCHANGED <<age, crRow>>
  /\ UNCHANGED <<inst, vfVars, dcVars>>

\* PHASE 2, before the provider call: an unknown provider fails the session;
\* ValidateDiskSpace may refuse the request and returns at once; otherwise the
\* row becomes provisioning (an error of this Update is only logged).
CreateProviderMissing(s) ==
  /\ crPc[s] = "inserted"
  /\ s \in Unregistered
  /\ CrGo(s, "fail")
  /\ UNCHANGED <<storeVars, crRow, vfVars, dcVars>>

CreateDiskRejected(s) ==
  /\ crPc[s] = "inserted"
  /\ s \notin Unregistered
  /\ CrGo(s, "returned")
  /\ crRow' = [crRow EXCEPT ![s] = NoRow]
  /\ UNCHANGED <<storeVars, vfVars, dcVars>>

CreateProvisioning(s) ==
  /\ crPc[s] = "inserted"
  /\ s \notin Unregistered
  /\ LET r == With(crRow[s], "provisioning")
     IN  crRow' = [crRow EXCEPT ![s] = r] /\ Update(s, r)
  /\ CrGo(s, "create")
  /\ UNCHANGED <<inst, age, vfVars, dcVars>>

\* prov.CreateInstance. An error need not mean that nothing was created: the
\* reply may be lost, or the provider task may outlive the poll deadline.
CreateInstance(s) ==
  /\ crPc[s] = "create"
  /\ \/ /\ inst' = [inst EXCEPT ![s] = "boot"]
        /\ \E r \in {crRow[s], WithSSH(crRow[s])} : crRow' = [crRow EXCEPT ![s] = WithID(r)]
        /\ CrGo(s, "record")
        /\ NoFault
     \/ /\ \E st \in {"none", "boot"} : inst' = [inst EXCEPT ![s] = st]
        /\ CrGo(s, "fail")
        /\ Fault
        /\ UNCHANGED crRow
  /\ UNCHANGED <<row, age, vfVars, dcVars>>

\* failSession of the creator; no provider id is known yet, so there is no
\* DestroyInstance call.
CreateFail(s) ==
  /\ crPc[s] = "fail"
  /\ Update(s, With(crRow[s], "failed"))
  /\ CrGo(s, "returned")
  /\ crRow' = [crRow EXCEPT ![s] = NoRow]
  /\ UNCHANGED <<inst, age, vfVars, dcVars>>

\* PHASE 3 records the provider id; PHASE 4 starts the verification goroutine.
CreateRecord(s) ==
  /\ crPc[s] = "record"
  /\ \/ /\ Stored(s, crRow[s])
        /\ CrGo(s, "returned")
        /\ vfPc' = [vfPc EXCEPT ![s] = "wait"]
     \/ NotStored(s, crRow[s]) /\ CrGo(s, "cleanup") /\ UNCHANGED vfPc
  /\ crRow' = [crRow EXCEPT ![s] = NoRow]
  /\ UNCHANGED <<inst, age, vfRow, vfErr, dcVars>>

\* The instance exists but could not be recorded: destroy it, return the error.
CreateCleanup(s) ==
  /\ crPc[s] = "cleanup"
  /\ DestroyInstance(s)
  /\ CrGo(s, "returned")
  /\ UNCHANGED <<row, age, crRow, vfVars, dcVars>>

CreateStep(s) ==
  \/ CreateInsert(s)
  \/ CreateProviderMissing(s)
  \/ CreateDiskRejected(s)
  \/ CreateProvisioning(s)
  \/ CreateInstance(s)
  \/ CreateFail(s)
  \/ CreateRecord(s)
  \/ CreateCleanup(s)

-----------------------------------------------------------------------------
(* Verification                                                            *)

VfPcs == {"off", "wait", "status", "sshinfo", "ssh", "running", "fail", "failw"}

VfGo(s, pc) == vfPc' = [vfPc EXCEPT ![s] = pc]
VfEnd(s) == VfGo(s, "off") /\ vfRow' = [vfRow EXCEPT ![s] = NoRow]
                           /\ vfErr' = [vfErr EXCEPT ![s] = FALSE]
VfAgain(s) == VfGo(s, "wait") /\ vfRow' = [vfRow EXCEPT ![s] = NoRow]

\* The status of the instance is asked for when its SSH host is unknown or,
\* in SSH mode, when the last attempt failed.
NeedStatus(s, r) == r.pid /\ (~r.ssh \/ (s \notin Entrypoint /\ vfErr[s]))

\* Where a poll goes on once r.ssh is settled. Entrypoint sessions wait for an
\* APIPort, a field that is neither assigned nor stored.
SshOrWait(s, r) == IF r.ssh /\ s \notin Entrypoint THEN "ssh" ELSE "wait"

\* What a poll does with the row it read. (A poll with nothing to do and one
\* that could not read the row leave everything as it was.)
VfProceed(s) ==
  LET next == IF NeedStatus(s, row[s]) THEN "status" ELSE SshOrWait(s, row[s])
  IN  /\ next # "wait"
      /\ VfGo(s, next)
      /\ vfRow' = [vfRow EXCEPT ![s] = row[s]]
      /\ UNCHANGED vfErr

\* Mutant: the poll does not look at the status.
VerifyPollBlind(s) ==
  /\ vfPc[s] = "wait"
  /\ VfProceed(s)
  /\ UNCHANGED <<storeVars, crVars, dcVars>>

\* pollTimer: read the row, stop if it is terminal.
VerifyPoll(s) ==
  /\ vfPc[s] = "wait"
  /\ \/ IsTerminal(row[s]) /\ VfEnd(s)
     \/ ~IsTerminal(row[s]) /\ VfProceed(s)
  /\ UNCHANGED <<storeVars, crVars, dcVars>>

\* prov.GetInstanceStatus and what the loop makes of it. In SSH mode an instance
\* that stopped or vanished fails the session (a stopped one is destroyed here
\* and once more by failSession: the two calls are one step). The loop for
\* entrypoint sessions ignores errors and does not ask whether it is running.
VerifyStatus(s) ==
  /\ vfPc[s] = "status"
  /\ \/ VfAgain(s) /\ Fault
     \/ /\ inst[s] \in {"down", "gone"} /\ s \notin Entrypoint
        /\ VfGo(s, "fail") /\ UNCHANGED vfRow
        /\ NoFault
     \/ inst[s] = "gone" /\ s \in Entrypoint /\ VfAgain(s) /\ NoFault
     \/ /\ inst[s] \in Billed \/ (inst[s] = "down" /\ s \in Entrypoint)
        /\ \/ vfRow[s].ssh /\ VfGo(s, "ssh") /\ UNCHANGED vfRow
           \/ ~vfRow[s].ssh /\ VfGo(s, "sshinfo") /\ UNCHANGED vfRow
           \/ ~vfRow[s].ssh /\ VfAgain(s)
        /\ NoFault
  /\ UNCHANGED <<row, inst, age, vfErr, crVars, dcVars>>

\* The SSH host is known now: store the copy read at the start of the poll.
VerifySSHInfo(s) ==
  /\ vfPc[s] = "sshinfo"
  /\ LET r == WithSSH(vfRow[s])
     IN  /\ Update(s, r)
         /\ IF s \in Entrypoint THEN VfAgain(s)
            ELSE VfGo(s, "ssh") /\ vfRow' = [vfRow EXCEPT ![s] = r]
  /\ UNCHANGED <<inst, age, vfErr, crVars, dcVars>>

\* VerifyOnce: it connects (perhaps a second success is needed), fails, or
\* fails with the third permanent error in a row.
VerifySSH(s) ==
  /\ vfPc[s] = "ssh"
  /\ \/ inst[s] = "up" /\ VfGo(s, "running") /\ UNCHANGED <<vfRow, vfErr>>
     \/ inst[s] = "up" /\ VfAgain(s) /\ vfErr' = [vfErr EXCEPT ![s] = FALSE]
     \/ VfAgain(s) /\ vfErr' = [vfErr EXCEPT ![s] = TRUE]
     \/ vfErr[s] /\ VfGo(s, "fail") /\ UNCHANGED <<vfRow, vfErr>>
  /\ UNCHANGED <<storeVars, crVars, dcVars>>

\* The session is running: store the copy read at the start of the poll.
VerifyRunning(s) ==
  /\ vfPc[s] = "running"
  /\ Update(s, With(vfRow[s], "running"))
  /\ VfEnd(s)
  /\ UNCHANGED <<inst, age, crVars, dcVars>>

\* timeout.C: read the row again, whatever its status, and fail the session.
VerifyTimeout(s) ==
  /\ vfPc[s] = "wait"
  /\ \/ VfGo(s, "fail") /\ vfRow' = [vfRow EXCEPT ![s] = row[s]] /\ UNCHANGED vfErr /\ NoFault
     \/ VfEnd(s) /\ Fault
  /\ UNCHANGED <<row, inst, age, crVars, dcVars>>

\* ctx.Done: give up without touching row or instance.
VerifyCtxDone(s) ==
  /\ vfPc[s] = "wait"
  /\ VfEnd(s)
  /\ UNCHANGED <<storeVars, crVars, dcVars>>

\* failSession: destroy the instance (errors are logged) ...
VerifyFail(s) ==
  /\ vfPc[s] = "fail"
  /\ VfGo(s, "failw")
  /\ IF vfRow[s].pid THEN DestroyInstance(s) ELSE UNCHANGED <<inst, faults>>
  /\ UNCHANGED <<row, age, vfRow, vfErr, crVars, dcVars>>

\* ... and store the row as failed; the provider id stays in it.
VerifyFailStore(s) ==
  /\ vfPc[s] = "failw"
  /\ Update(s, With(vfRow[s], "failed"))
  /\ VfEnd(s)
  /\ UNCHANGED <<inst, age, crVars, dcVars>>

VerifyStep(s) ==
  \/ VerifyPoll(s)
  \/ VerifyStatus(s)
  \/ VerifySSHInfo(s)
  \/ VerifySSH(s)
  \/ VerifyRunning(s)
  \/ VerifyTimeout(s)
  \/ VerifyCtxDone(s)
  \/ VerifyFail(s)
  \/ VerifyFailStore(s)

-----------------------------------------------------------------------------
(* DestroySession                                                          *)

DcBody == {"stopping", "destroy", "verify", "final", "cleanup", "cleared"}
DcReturned == {"idle", "ok", "err"}
DcPcs == DcReturned \cup {"lock"} \cup DcBody

DcGo(c, pc) == dcPc' = [dcPc EXCEPT ![c] = pc]

\* The deferred calls: cleanupDestroyLock takes the mutex out of the map, then
\* it is unlocked. Callers that already hold a reference go on using it.
DcReturn(c, res) ==
  /\ DcGo(c, res)
  /\ lockMap' = [lockMap EXCEPT ![dcSess[c]] = NoLock]
  /\ dcSess' = [dcSess EXCEPT ![c] = NoSession]
  /\ dcRow' = [dcRow EXCEPT ![c] = NoRow]
  /\ dcLock' = [dcLock EXCEPT ![c] = NoLock]
  /\ dcTry' = [dcTry EXCEPT ![c] = 0]

\* getDestroyLock: the mutex in the map, or a new one.
LockFor(s) ==
  IF lockMap[s] # NoLock THEN {lockMap[s]}
  ELSE {l \in Locks : /\ \A t \in Sessions : lockMap[t] # l
                      /\ \A c \in Calls : dcLock[c] # l}

DestroyBegin(c, s) ==
  /\ dcPc[c] \in DcReturned
  /\ row[s].status # "absent"
  /\ \E l \in LockFor(s) :
       /\ lockMap' = [lockMap EXCEPT ![s] = l]
       /\ dcLock' = [dcLock EXCEPT ![c] = l]
  /\ DcGo(c, "lock")
  /\ dcSess' = [dcSess EXCEPT ![c] = s]
  /\ UNCHANGED <<storeVars, crVars, vfVars, dcRow, dcTry>>

Unlocked(c) == \A d \in Calls \ {c} : dcLock[d] = dcLock[c] => dcPc[d] \notin DcBody

\* lock.Lock, then store.Get and the checks on the status.
DestroyRead(c) ==
  LET r == row[dcSess[c]]
  IN  /\ dcPc[c] = "lock"
      /\ Unlocked(c)
      /\ \/ DcReturn(c, "err") /\ Fault
         \/ /\ r.status \in Terminal \cup {"stopping"}
            /\ ~(r.status = "failed" /\ r.pid)
            /\ DcReturn(c, "ok")
            /\ NoFault
         \/ /\ r.status = "failed" /\ r.pid
            /\ DcGo(c, "cleanup")
            /\ dcRow' = [dcRow EXCEPT ![c] = r]
            /\ UNCHANGED <<dcSess, dcLock, dcTry, lockMap>>
            /\ NoFault
         \/ /\ IsActive(r)
            /\ DcGo(c, "stopping")
            /\ dcRow' = [dcRow EXCEPT ![c] = With(r, "stopping")]
            /\ UNCHANGED <<dcSess, dcLock, dcTry, lockMap>>
            /\ NoFault
      /\ UNCHANGED <<row, inst, age, crVars, vfVars>>

\* Mutant: the final status is stored before the instance is destroyed.
DestroyMarkStopped(c) ==
  /\ dcPc[c] = "stopping"
  /\ Update(dcSess[c], With(dcRow[c], "stopped"))
  /\ IF dcSess[c] \in Unregistered THEN DcReturn(c, "err")
     ELSE /\ DcGo(c, IF dcRow[c].pid THEN "destroy" ELSE "final")
          /\ UNCHANGED <<dcSess, dcRow, dcLock, dcTry, lockMap>>
  /\ UNCHANGED <<inst, age, crVars, vfVars>>

\* Store stopping; without a provider the call ends here, without an instance
\* id there is nothing to destroy.
DestroyMark(c) ==
  /\ dcPc[c] = "stopping"
  /\ Update(dcSess[c], dcRow[c])
  /\ IF dcSess[c] \in Unregistered THEN DcReturn(c, "err")
     ELSE /\ DcGo(c, IF dcRow[c].pid THEN "destroy" ELSE "final")
          /\ UNCHANGED <<dcSess, dcRow, dcLock, dcTry, lockMap>>
  /\ UNCHANGED <<inst, age, crVars, vfVars>>

\* destroyWithVerification, one attempt: DestroyInstance (errors are logged) ...
DestroyAttempt(c) ==
  /\ dcPc[c] = "destroy"
  /\ DestroyInstance(dcSess[c])
  /\ DcGo(c, "verify")
  /\ UNCHANGED <<row, age, crVars, vfVars, dcSess, dcRow, dcLock, dcTry, lockMap>>

\* Mutant: the attempts are counted down.
DcRetryDown(c) ==
  IF dcTry[c] + 1 < DestroyRetries
  THEN /\ DcGo(c, "destroy")
       /\ dcTry' = [dcTry EXCEPT ![c] = @ - 1]
       /\ UNCHANGED <<dcSess, dcRow, dcLock, lockMap>>
  ELSE DcReturn(c, "err")

\* The retries after a failed status check or a Running answer.
DcRetry(c) ==
  IF dcTry[c] + 1 < DestroyRetries
  THEN /\ DcGo(c, "destroy")
       /\ dcTry' = [dcTry EXCEPT ![c] = @ + 1]
       /\ UNCHANGED <<dcSess, dcRow, dcLock, lockMap>>
  ELSE DcReturn(c, "err")

\* What counts as verified: not found, or any status that is not Running.
VerifiedGone(s) == inst[s] # "up"

\* ... then, unless the caller's context is cancelled, GetInstanceStatus.
DestroyVerify(c) ==
  /\ dcPc[c] = "verify"
  /\ \/ DcReturn(c, "err") /\ Fault
     \/ DcRetry(c) /\ Fault
     \/ ~VerifiedGone(dcSess[c]) /\ DcRetry(c) /\ NoFault
     \/ /\ VerifiedGone(dcSess[c])
        /\ DcGo(c, "final")
        /\ UNCHANGED <<dcSess, dcRow, dcLock, dcTry, lockMap>>
        /\ NoFault
  /\ UNCHANGED <<row, inst, age, crVars, vfVars>>

DestroyFinal(c) ==
  /\ dcPc[c] = "final"
  /\ Update(dcSess[c], With(dcRow[c], "stopped"))
  /\ DcReturn(c, "ok")
  /\ UNCHANGED <<inst, age, crVars, vfVars>>

\* A failed session that still has an instance id: one DestroyInstance call,
\* whatever its outcome ...
DestroyCleanup(c) ==
  /\ dcPc[c] = "cleanup"
  /\ IF dcSess[c] \in Unregistered THEN UNCHANGED <<inst, faults>>
                                   ELSE DestroyInstance(dcSess[c])
  /\ DcGo(c, "cleared")
  /\ UNCHANGED <<row, age, crVars, vfVars, dcSess, dcRow, dcLock, dcTry, lockMap>>

\* ... and the row forgets the instance.
DestroyForget(c) ==
  /\ dcPc[c] = "cleared"
  /\ Update(dcSess[c], With(WithoutID(dcRow[c]), "stopped"))
  /\ DcReturn(c, "ok")
  /\ UNCHANGED <<inst, age, crVars, vfVars>>

DestroyStep(c) ==
  \/ DestroyRead(c)
  \/ DestroyMark(c)
  \/ DestroyAttempt(c)
  \/ DestroyVerify(c)
  \/ DestroyFinal(c)
  \/ DestroyCleanup(c)
  \/ DestroyForget(c)

-----------------------------------------------------------------------------
ProvInit ==
  /\ StoreInit
  /\ crPc = [s \in Sessions |-> "off"]
  /\ crRow = [s \in Sessions |-> NoRow]
  /\ vfPc = [s \in Sessions |-> "off"]
  /\ vfRow = [s \in Sessions |-> NoRow]
  /\ vfErr = [s \in Sessions |-> FALSE]
  /\ dcPc = [c \in Calls |-> "idle"]
  /\ dcSess = [c \in Calls |-> NoSession]
  /\ dcRow = [c \in Calls |-> NoRow]
  /\ dcLock = [c \in Calls |-> NoLock]
  /\ dcTry = [c \in Calls |-> 0]
  /\ lockMap = [s \in Sessions |-> NoLock]

\* The provider and the clock, as seen by this module.
InstanceStep(s) ==
  /\ InstanceBoots(s) \/ InstanceLost(s)
  /\ UNCHANGED <<crVars, vfVars, dcVars>>

ProvNext ==
  \/ \E s \in Sessions : CreateCheck(s) \/ CreateStep(s) \/ VerifyStep(s) \/ InstanceStep(s)
  \/ \E c \in Calls, s \in Sessions : DestroyBegin(c, s)
  \/ \E c \in Calls : DestroyStep(c)

ProvSpec == ProvInit /\ [][ProvNext]_provVars

-----------------------------------------------------------------------------
ProvTypeOK ==
  /\ StoreTypeOK
  /\ crPc \in [Sessions -> CrPcs]
  /\ crRow \in [Sessions -> Row]
  /\ vfPc \in [Sessions -> VfPcs]
  /\ vfRow \in [Sessions -> Row]
  /\ vfErr \in [Sessions -> BOOLEAN]
  /\ dcPc \in [Calls -> DcPcs]
  /\ dcSess \in [Calls -> Sessions \cup {NoSession}]
  /\ dcRow \in [Calls -> Row]
  /\ dcLock \in [Calls -> Locks \cup {NoLock}]
  /\ dcTry \in [Calls -> Nat]
  /\ lockMap \in [Sessions -> Locks \cup {NoLock}]

-----------------------------------------------------------------------------
\* At most one active session per consumer and offer, although a copy of a row
\* that was active when it was read may be stored long after the row was
\* stopped and its offer given to another session.
UniqueActive ==
  \A s, t \in Sessions :
    s # t /\ Key[s] = Key[t] => ~(IsActive(row[s]) /\ IsActive(row[t]))

\* "Ensures only one destroy operation runs per session".
OneDestroyPerSession ==
  \A c, d \in Calls :
    c # d /\ dcPc[c] \in DcBody /\ dcPc[d] \in DcBody => dcSess[c] # dcSess[d]

\* "Verified Destruction: Retries and confirms instance is gone": DestroySession
\* stores stopped only when the instance it was to destroy does not exist.
DestructionVerified ==
  \A c \in Calls :
    dcPc[c] = "final" /\ dcRow[c].pid => inst[dcSess[c]] \notin Exists

=============================================================================
