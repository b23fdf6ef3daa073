----------------------------- MODULE Lifecycle -----------------------------
(***************************************************************************)
(* The whole service around a session: the provisioner composed with the   *)
(* lifecycle manager (lifecycle/manager.go), the reconciler                *)
(* (lifecycle/reconciler.go), startup recovery and graceful shutdown       *)
(* (lifecycle/startup.go, cmd/server/main.go) and the API operations that  *)
(* change a session. A crash loses every goroutine and keeps the table and *)
(* the provider's instances.                                               *)
(***************************************************************************)
EXTENDS Provisioner

CONSTANTS
  Mgr,            \* the lifecycle manager, as a caller of DestroySession
  Editors,        \* concurrent ExtendSession requests
  StuckTimeout,   \* stuckSessionTimeout
  GhostGrace,     \* ghostGracePeriod
  HardMax,        \* hardMaxHours
  CreateMax,      \* age by which the creating request is past the provider call
  PassMax,        \* a reconciliation pass that takes more ticks is a slow one
  HidesErrors,    \* sessions of a provider whose client lists nothing when the list fails
  MaxExp          \* bound: expires_at is not extended beyond this

ASSUME MgrAssumption == Mgr \in Calls
ASSUME TimesAssumption ==
  /\ {StuckTimeout, GhostGrace, HardMax, CreateMax, PassMax, MaxExp} \subseteq Nat
  /\ CreateMax + PassMax < GhostGrace
ASSUME HidesErrorsAssumption == HidesErrors \subseteq Sessions

VARIABLES
  mgStage, mgTodo, mgRow, mgCur,    \* Manager.runChecks
  rcPc, rcSeen, rcRow, rcTodo, rcAge,  \* Reconciler.reconcileProvider
  edPc, edSess, edRow,              \* ExtendSession
  phase, bootTodo, sdTodo           \* cmd/server/main.go

mgVars == <<mgStage, mgTodo, mgRow, mgCur>>
rcVars == <<rcPc, rcSeen, rcRow, rcTodo, rcAge>>
edVars == <<edPc, edSess, edRow>>
mainVars == <<phase, bootTodo, sdTodo>>
vars == <<provVars, mgVars, rcVars, edVars, mainVars>>

NoRows == [s \in Sessions |-> NoRow]

\* Mutant: the server is ready before the startup sweep is over.
ServingDuringSweep == phase # "down"

\* Requests and background services run once the startup sweep is over;
\* shutdown is a phase in which all of them still do.
Serving == phase \in {"up", "shutdown"}

-----------------------------------------------------------------------------
(* Manager.runChecks: four passes over the sessions, in this order. A pass *)
(* lists its sessions once and then acts on the copies (checkOrphans, the  *)
(* third check of the code, only counts and alerts).                       *)

Stages == {"off", "hardmax", "expiry", "stuck", "failed"}

NextStage == [off |-> "hardmax", hardmax |-> "expiry", expiry |-> "stuck",
              stuck |-> "failed", failed |-> "off"]

\* Mutant: the maximum counts from the end of the reservation.
PastHardMaxFromExpiry(s) == row[s].status = "running" /\ age[s] > row[s].exp + HardMax

\* checkHardMax. The age of a session counts from its creation.
PastHardMax(s) == row[s].status = "running" /\ age[s] > HardMax

\* checkReservationExpiry: GetExpiredSessions.
IsExpired(s) == row[s].status = "running" /\ age[s] > row[s].exp

\* Mutant: only provisioning counts as a transitional state.
IsStuckProvisioning(s) == row[s].status = "provisioning" /\ age[s] > StuckTimeout

\* checkStuckSessions. The time in the transitional state is taken to be the age.
IsStuck(s) == row[s].status \in {"stopping", "provisioning"} /\ age[s] > StuckTimeout

\* Mutant: a session that still has its SSH host is left alone.
IsLeakedUnreachable(s) == row[s].status = "failed" /\ row[s].pid /\ ~row[s].ssh

\* checkFailedDestroys: GetFailedSessionsWithInstances.
IsLeaked(s) == row[s].status = "failed" /\ row[s].pid

\* The sessions a stage acts on, as selected by its query and its conditions.
Selected(stage) ==
  {s \in Sessions : \/ stage = "hardmax" /\ PastHardMax(s)
                    \/ stage = "expiry" /\ IsExpired(s)
                    \/ stage = "stuck" /\ IsStuck(s)
                    \/ stage = "failed" /\ IsLeaked(s)}

\* The stage is over: list the sessions of the next one, or fail to.
MgrList ==
  /\ Serving
  /\ mgTodo = {} /\ mgCur = NoSession
  /\ mgStage' = NextStage[mgStage]
  /\ \/ mgTodo' = Selected(NextStage[mgStage]) /\ NoFault
     \/ NextStage[mgStage] # "off" /\ mgTodo' = {} /\ Fault
  /\ mgRow' = [s \in Sessions |-> IF s \in mgTodo' THEN row[s] ELSE NoRow]
  /\ UNCHANGED <<row, inst, age, crVars, vfVars, dcVars, mgCur, rcVars, edVars, mainVars>>

\* checkHardMax, checkReservationExpiry and checkFailedDestroys call DestroySession.
MgrDestroy(s) ==
  /\ Serving
  /\ mgStage \in {"hardmax", "expiry", "failed"}
  /\ s \in mgTodo
  /\ mgCur = NoSession
  /\ DestroyBegin(Mgr, s)
  /\ mgCur' = s
  /\ UNCHANGED <<mgStage, mgTodo, mgRow, rcVars, edVars, mainVars>>

\* DestroySession returned. m.destroySession answers an error by storing the
\* copy it listed, with the error message; checkFailedDestroys only logs it.
MgrReturned ==
  /\ mgCur # NoSession
  /\ dcPc[Mgr] \in {"ok", "err"}
  /\ IF dcPc[Mgr] = "err" /\ mgStage # "failed"
     THEN Update(mgCur, mgRow[mgCur])
     ELSE UNCHANGED <<row, faults>>
  /\ dcPc' = [dcPc EXCEPT ![Mgr] = "idle"]
  /\ mgTodo' = mgTodo \ {mgCur}
  /\ mgRow' = [mgRow EXCEPT ![mgCur] = NoRow]
  /\ mgCur' = NoSession
  /\ UNCHANGED <<inst, age, crVars, vfVars, dcSess, dcRow, dcLock, dcTry, lockMap,
                 mgStage, rcVars, edVars, mainVars>>

\* checkStuckSessions stores the listed copy as failed.
MgrStuck(s) ==
  /\ mgStage = "stuck"
  /\ s \in mgTodo
  /\ Update(s, With(mgRow[s], "failed"))
  /\ mgTodo' = mgTodo \ {s}
  /\ mgRow' = [mgRow EXCEPT ![s] = NoRow]
  /\ UNCHANGED <<inst, age, crVars, vfVars, dcVars, mgStage, mgCur, rcVars, edVars, mainVars>>

MgrStep == MgrList \/ MgrReturned \/ \E s \in Sessions : MgrDestroy(s) \/ MgrStuck(s)

-----------------------------------------------------------------------------
(* Reconciler.reconcileProvider. Startup runs one pass before it serves.   *)

RcPass(pc) == rcPc' = pc /\ UNCHANGED rcAge

\* The pass is over. The one of RunStartupSweep makes the server ready.
RcEnd ==
  /\ rcPc' = "idle" /\ rcSeen' = {} /\ rcRow' = NoRows /\ rcTodo' = {} /\ rcAge' = 0
  /\ phase' = IF phase = "sweep" THEN "up" ELSE phase
  /\ UNCHANGED <<bootTodo, sdTodo>>

\* ListAllInstances, filtered to our deployment. When the call fails the pass of
\* that provider ends; TensorDock's client makes an empty list of most failures,
\* and the pass goes on with it.
RcList ==
  /\ phase \in {"up", "shutdown", "sweep"}
  /\ rcPc = "idle"
  /\ \/ /\ rcSeen' = {s \in Sessions : inst[s] \in Exists}
        /\ RcPass("listed")
        /\ NoFault
        /\ UNCHANGED <<rcRow, rcTodo, mainVars>>
     \/ /\ HidesErrors # {}
        /\ rcSeen' = {s \in Sessions \ HidesErrors : inst[s] \in Exists}
        /\ RcPass("listed")
        /\ Fault
        /\ UNCHANGED <<rcRow, rcTodo, mainVars>>
     \/ RcEnd /\ Fault
  /\ UNCHANGED <<row, inst, age, crVars, vfVars, dcVars, mgVars, edVars>>

\* Mutant: the query forgets the filter on the status.
LocalAnyStatus == {s \in Sessions : row[s].pid}

\* GetActiveSessionsByProvider, and of those the ones with an instance id.
Local == {s \in Sessions : IsActive(row[s]) /\ row[s].pid}

\* The comparison of the two maps.
RcRead ==
  /\ rcPc = "listed"
  /\ LET todo == (rcSeen \ Local) \cup (Local \ rcSeen)
     IN  \/ /\ todo # {}
            /\ rcTodo' = todo
            /\ rcRow' = [s \in Sessions |-> IF s \in Local THEN row[s] ELSE NoRow]
            /\ RcPass("sweep")
            /\ NoFault
            /\ UNCHANGED <<rcSeen, mainVars>>
         \/ todo = {} /\ RcEnd /\ NoFault
         \/ RcEnd /\ Fault
  /\ UNCHANGED <<row, inst, age, crVars, vfVars, dcVars, mgVars, edVars>>

RcHandled(s) ==
  IF rcTodo = {s} THEN RcEnd
  ELSE /\ rcTodo' = rcTodo \ {s}
       /\ rcRow' = [rcRow EXCEPT ![s] = NoRow]
       /\ UNCHANGED <<rcPc, rcSeen, rcAge, mainVars>>

\* handleOrphan: on the provider, not among the active rows.
RcOrphan(s) ==
  /\ rcPc = "sweep"
  /\ s \in rcTodo \cap rcSeen
  /\ DestroyInstance(s)
  /\ RcHandled(s)
  /\ UNCHANGED <<row, age, crVars, vfVars, dcVars, mgVars, edVars>>

\* Mutant: no grace period for young sessions.
IsGhostAtAnyAge(s) == rcRow[s].status \in {"running", "provisioning"}

\* handleGhost is only interested in sessions of a certain age.
IsGhost(s) == rcRow[s].status \in {"running", "provisioning"} /\ age[s] >= GhostGrace

\* handleGhost: among the active rows, not on the provider.
RcGhost(s) ==
  /\ rcPc = "sweep"
  /\ rcTodo \cap rcSeen = {}
  /\ s \in rcTodo
  /\ IF IsGhost(s) THEN Update(s, With(rcRow[s], "stopped")) ELSE UNCHANGED <<row, faults>>
  /\ RcHandled(s)
  /\ UNCHANGED <<inst, age, crVars, vfVars, dcVars, mgVars, edVars>>

RcStep == RcList \/ RcRead \/ \E s \in Sessions : RcOrphan(s) \/ RcGhost(s)

-----------------------------------------------------------------------------
(* API operations                                                          *)

\* DELETE /sessions/:id and POST /sessions/:id/done. SignalDone first refuses a
\* terminal session; DestroySession checks again.
ApiDestroy(c, s) ==
  /\ Serving
  /\ c # Mgr
  /\ DestroyBegin(c, s)
  /\ UNCHANGED <<mgVars, rcVars, edVars, mainVars>>

ApiCreate(s) ==
  /\ Serving
  /\ CreateCheck(s)
  /\ UNCHANGED <<mgVars, rcVars, edVars, mainVars>>

Extended(r) == [r EXCEPT !.exp = @ + 1]

\* ExtendSession by one tick: the checks and the new expiry use the row just read ...
ExtendRead(e, s) ==
  /\ Serving
  /\ edPc[e] = "idle"
  /\ IsActive(row[s])
  /\ age[s] + 1 <= HardMax
  /\ row[s].exp < MaxExp
  /\ edPc' = [edPc EXCEPT ![e] = "store"]
  /\ edSess' = [edSess EXCEPT ![e] = s]
  /\ edRow' = [edRow EXCEPT ![e] = Extended(row[s])]
  /\ UNCHANGED <<provVars, mgVars, rcVars, mainVars>>

\* ... and the copy is stored, whatever happened to the row in between.
ExtendStore(e) ==
  /\ edPc[e] = "store"
  /\ Update(edSess[e], edRow[e])
  /\ edPc' = [edPc EXCEPT ![e] = "idle"]
  /\ edSess' = [edSess EXCEPT ![e] = NoSession]
  /\ edRow' = [edRow EXCEPT ![e] = NoRow]
  /\ UNCHANGED <<inst, age, crVars, vfVars, dcVars, mgVars, rcVars, mainVars>>

-----------------------------------------------------------------------------
(* Process life cycle                                                      *)

\* All goroutines are gone. A request that was creating a session is over; if it
\* was waiting for the provider, the instance may come into being all the same.
ProcessLost ==
  /\ \E made \in SUBSET {s \in Sessions : crPc[s] = "create"} :
       inst' = [s \in Sessions |-> IF s \in made THEN "boot" ELSE inst[s]]
  /\ crPc' = [s \in Sessions |-> IF crPc[s] \in CrBusy THEN "returned" ELSE crPc[s]]
  /\ crRow' = NoRows
  /\ vfPc' = [s \in Sessions |-> "off"]
  /\ vfRow' = NoRows
  /\ vfErr' = [s \in Sessions |-> FALSE]
  /\ dcPc' = [c \in Calls |-> "idle"]
  /\ dcSess' = [c \in Calls |-> NoSession]
  /\ dcRow' = [c \in Calls |-> NoRow]
  /\ dcLock' = [c \in Calls |-> NoLock]
  /\ dcTry' = [c \in Calls |-> 0]
  /\ lockMap' = [s \in Sessions |-> NoLock]
  /\ mgStage' = "off" /\ mgTodo' = {} /\ mgRow' = NoRows /\ mgCur' = NoSession
  /\ rcPc' = "idle" /\ rcSeen' = {} /\ rcRow' = NoRows /\ rcTodo' = {} /\ rcAge' = 0
  /\ edPc' = [e \in Editors |-> "idle"]
  /\ edSess' = [e \in Editors |-> NoSession]
  /\ edRow' = [e \in Editors |-> NoRow]
  /\ phase' = "down" /\ bootTodo' = {} /\ sdTodo' = {}

Crash ==
  /\ phase # "down"
  /\ ProcessLost
  /\ Fault
  /\ UNCHANGED <<row, age>>

\* SIGTERM: GracefulShutdown lists the active sessions, or fails to ...
ShutdownBegin ==
  /\ phase = "up"
  /\ phase' = "shutdown"
  /\ sdTodo' \in {Local, {}}
  /\ Fault
  /\ UNCHANGED <<row, inst, age, crVars, vfVars, dcVars, mgVars, rcVars, edVars, bootTodo>>

\* ... destroys their instances, leaving the rows alone ...
ShutdownDestroy(s) ==
  /\ phase = "shutdown"
  /\ s \in sdTodo
  /\ DestroyInstance(s)
  /\ sdTodo' = sdTodo \ {s}
  /\ UNCHANGED <<row, age, crVars, vfVars, dcVars, mgVars, rcVars, edVars, phase, bootTodo>>

\* ... and the process exits.
ShutdownExit ==
  /\ phase = "shutdown"
  /\ sdTodo = {}
  /\ ProcessLost
  /\ UNCHANGED <<row, age, faults>>

\* RunStartupSweep: RecoverStuckSessions, first over the transitional rows. An
\* error of the query ends the recovery; the reconciliation pass follows anyway.
Restart ==
  /\ phase = "down"
  /\ \/ /\ phase' = "recover"
        /\ bootTodo' = {s \in Sessions : row[s].status \in {"provisioning", "stopping"}}
        /\ NoFault
     \/ phase' = "sweep" /\ UNCHANGED bootTodo /\ Fault
  /\ UNCHANGED <<row, inst, age, crVars, vfVars, dcVars, mgVars, rcVars, edVars, sdTodo>>

\* The row a stuck session gets: without an instance id it failed; if the
\* status call returns an error (any error) or the instance is not Running the
\* instance is taken to be over; a running one is adopted or destroyed again.
RecoverStuck(s) ==
  /\ phase = "recover"
  /\ s \in bootTodo
  /\ bootTodo' = bootTodo \ {s}
  /\ LET r == row[s]
         over == With(r, IF r.status = "provisioning" THEN "failed" ELSE "stopped")
     IN  \/ s \in Unregistered /\ UNCHANGED <<row, inst, faults>>
         \/ /\ s \notin Unregistered /\ ~r.pid
            /\ Update(s, With(r, "failed"))
            /\ UNCHANGED inst
         \/ /\ s \notin Unregistered /\ r.pid
            /\ \/ inst[s] \in {"none", "gone"} /\ Update(s, over) /\ UNCHANGED inst
               \/ row' \in {row, [row EXCEPT ![s] = over]} /\ Fault /\ UNCHANGED inst
               \/ inst[s] \in {"boot", "down"} /\ Update(s, With(r, "stopped")) /\ UNCHANGED inst
               \/ /\ inst[s] = "up" /\ r.status = "provisioning"
                  /\ \E q \in {r, WithSSH(r)} : Update(s, With(q, "running"))
                  /\ UNCHANGED inst
               \/ /\ inst[s] = "up" /\ r.status = "stopping"
                  /\ DestroyInstance(s)
                  /\ UNCHANGED row
  /\ UNCHANGED <<age, crVars, vfVars, dcVars, mgVars, rcVars, edVars, phase, sdTodo>>

\* Then over the failed rows that still have an instance id.
RecoverFailedBegin ==
  /\ phase = "recover"
  /\ bootTodo = {}
  /\ phase' = "recoverFailed"
  /\ \/ /\ bootTodo' = {s \in Sessions : IsLeaked(s)} \ Unregistered
        /\ NoFault
     \/ UNCHANGED bootTodo /\ Fault
  /\ UNCHANGED <<row, inst, age, crVars, vfVars, dcVars, mgVars, rcVars, edVars, sdTodo>>

RecoverFailed(s) ==
  /\ phase = "recoverFailed"
  /\ s \in bootTodo
  /\ bootTodo' = bootTodo \ {s}
  /\ LET forgotten == With(WithoutID(row[s]), "failed")
     IN  \/ inst[s] # "up" /\ Update(s, forgotten) /\ UNCHANGED inst
         \/ row' \in {row, [row EXCEPT ![s] = forgotten]} /\ Fault /\ UNCHANGED inst
         \/ /\ inst[s] = "up"
            /\ inst' = [inst EXCEPT ![s] = "gone"]
            /\ Update(s, With(forgotten, "stopped"))
  /\ UNCHANGED <<age, crVars, vfVars, dcVars, mgVars, rcVars, edVars, phase, sdTodo>>

RecoverDone ==
  /\ phase = "recoverFailed"
  /\ bootTodo = {}
  /\ phase' = "sweep"
  /\ UNCHANGED <<storeVars, crVars, vfVars, dcVars, mgVars, rcVars, edVars, bootTodo, sdTodo>>

MainStep ==
  \/ ShutdownExit \/ Restart \/ RecoverFailedBegin \/ RecoverDone
  \/ \E s \in Sessions : ShutdownDestroy(s) \/ RecoverStuck(s) \/ RecoverFailed(s)

-----------------------------------------------------------------------------
\* Time passes, but no further than the timeouts of the creating request allow.
\* Nothing bounds a reconciliation pass: a pass that becomes slow is one of the
\* faults, and once it is slow its age no longer matters.
Tick ==
  /\ \A s \in Sessions :
       crPc[s] \in {"inserted", "create", "record"} => age[s] < CreateMax
  /\ Aged # age
  /\ age' = Aged
  /\ \/ rcPc = "idle" /\ UNCHANGED rcAge /\ NoFault
     \/ rcPc # "idle" /\ rcAge < PassMax /\ rcAge' = rcAge + 1 /\ NoFault
     \/ rcPc # "idle" /\ rcAge = PassMax /\ rcAge' = rcAge + 1 /\ Fault
     \/ rcPc # "idle" /\ rcAge > PassMax /\ UNCHANGED rcAge /\ NoFault
  /\ UNCHANGED <<row, inst, crVars, vfVars, dcVars, mgVars,
                 rcPc, rcSeen, rcRow, rcTodo, edVars, mainVars>>

\* The processes of Provisioner, with everything else standing still.
Creating(s) == CreateStep(s) /\ UNCHANGED <<mgVars, rcVars, edVars, mainVars>>
Verifying(s) == VerifyStep(s) /\ UNCHANGED <<mgVars, rcVars, edVars, mainVars>>
GivingUp(s) == (VerifyTimeout(s) \/ VerifyCtxDone(s)) /\ UNCHANGED <<mgVars, rcVars, edVars, mainVars>>
Destroying(c) == DestroyStep(c) /\ UNCHANGED <<mgVars, rcVars, edVars, mainVars>>
Hosting(s) == InstanceStep(s) /\ UNCHANGED <<mgVars, rcVars, edVars, mainVars>>

Init ==
  /\ ProvInit
  /\ mgStage = "off" /\ mgTodo = {} /\ mgRow = NoRows /\ mgCur = NoSession
  /\ rcPc = "idle" /\ rcSeen = {} /\ rcRow = NoRows /\ rcTodo = {} /\ rcAge = 0
  /\ edPc = [e \in Editors |-> "idle"]
  /\ edSess = [e \in Editors |-> NoSession]
  /\ edRow = [e \in Editors |-> NoRow]
  /\ phase = "up" /\ bootTodo = {} /\ sdTodo = {}

Next ==
  \/ \E s \in Sessions : Creating(s) \/ Verifying(s) \/ Hosting(s)
  \/ \E c \in Calls : Destroying(c)
  \/ MgrStep
  \/ RcStep
  \/ MainStep
  \/ \E s \in Sessions : ApiCreate(s) \/ \E c \in Calls : ApiDestroy(c, s)
  \/ \E e \in Editors : ExtendStore(e) \/ \E s \in Sessions : ExtendRead(e, s)
  \/ Crash
  \/ ShutdownBegin
  \/ Tick

Spec == Init /\ [][Next]_vars

\* Goroutines that can go on do; timers of the verification loop fire in the
\* end, however often it polls; a waiter of a mutex gets it in the end; the
\* manager's and the reconciler's tickers never stop; a process that went down
\* is started again; and time passes. Nothing makes users, the provider's hosts
\* or failures act.
Fairness ==
  /\ \A s \in Sessions : WF_vars(Creating(s)) /\ WF_vars(Verifying(s)) /\ SF_vars(GivingUp(s))
  /\ \A c \in Calls : SF_vars(Destroying(c))
  /\ \A e \in Editors : WF_vars(ExtendStore(e))
  /\ WF_vars(MgrStep)
  /\ WF_vars(RcStep)
  /\ WF_vars(MainStep)
  /\ SF_vars(Tick)

LiveSpec == Spec /\ Fairness

-----------------------------------------------------------------------------
RcPcs == {"idle", "listed", "sweep"}
Phases == {"up", "shutdown", "down", "recover", "recoverFailed", "sweep"}

\* Every variable keeps its type.
TypeOK ==
  /\ ProvTypeOK
  /\ mgStage \in Stages
  /\ mgTodo \subseteq Sessions
  /\ mgRow \in [Sessions -> Row]
  /\ mgCur \in Sessions \cup {NoSession}
  /\ rcPc \in RcPcs
  /\ rcSeen \subseteq Sessions
  /\ rcRow \in [Sessions -> Row]
  /\ rcTodo \subseteq Sessions
  /\ rcAge \in Nat
  /\ edPc \in [Editors -> {"idle", "store"}]
  /\ edSess \in [Editors -> Sessions \cup {NoSession}]
  /\ edRow \in [Editors -> Row]
  /\ phase \in Phases
  /\ bootTodo \subseteq Sessions
  /\ sdTodo \subseteq Sessions

-----------------------------------------------------------------------------
(* Safety                                                                  *)

\* Two-phase provisioning: whatever crashes or fails, an instance at the
\* provider belongs to a session the table knows (createSessionWithRetry
\* inserts the row before it calls CreateInstance).
InstanceHasRecord == \A s \in Sessions : inst[s] # "none" => row[s].status # "absent"

\* A session that is shown as running can be destroyed: its row has the id of
\* its instance, although six components store whole copies of rows they read
\* earlier, and some of them clear the id.
RunningHasInstanceID == \A s \in Sessions : row[s].status = "running" => row[s].pid

\* When handleGhost is about to stop a session as "Instance not found on provider",
\* the provider has no such instance: not even one that was created after the
\* provider was asked for its list and recorded before the rows were read. That is
\* so after any crashes and failed calls, of a provider whose failed list is an
\* error and a pass that is not a slow one; and, as long as nothing failed and no
\* pass was slow, of the other providers, too.
GhostsAreGone ==
  \A s \in Sessions :
    /\ rcPc = "sweep" /\ s \in rcTodo \ rcSeen /\ IsGhost(s)
    /\ faults = 0 \/ (s \notin HidesErrors /\ rcAge <= PassMax)
    => inst[s] \notin Exists

\* Without failures and slow passes a session that is shown as stopped and names
\* its instance left nothing at the provider, however the calls of DestroySession, the
\* reconciler and the late copies of the verifier, the manager and
\* ExtendSession overlap. (One failed call is enough to break it:
\* destroyWithVerification takes a booting instance to be destroyed. A DELETE
\* during the provisioning stores a stopped row without the id while the instance
\* comes into being; of such rows InstancesReclaimed speaks.)
StoppedIsGone ==
  faults = 0 =>
    \A s \in Sessions : row[s].status = "stopped" /\ row[s].pid => inst[s] \notin Exists

\* RecoverStuckSessions lists the sessions once and then, after as many provider
\* calls as it takes, stores the copies: a session whose turn comes is still in
\* the state it was selected for, because main runs the sweep before anything
\* else that writes rows.
RecoverySelects ==
  /\ phase = "recover" => \A s \in bootTodo : row[s].status \in {"provisioning", "stopping"}
  /\ phase = "recoverFailed" => \A s \in bootTodo : IsLeaked(s)

\* A session the reconciler treats as an orphan is not one whose instance is
\* recorded in an active row ("legitimate sessions are not treated as orphans").
LegitimateNotOrphan ==
  [][\A s \in Sessions : RcOrphan(s) => ~(IsActive(row[s]) /\ row[s].pid)]_vars

-----------------------------------------------------------------------------
(* Liveness, under Fairness                                                *)

\* "Zero orphaned instances": no instance is billed for ever, neither one whose
\* reply was lost nor one whose DestroyInstance call failed nor one that a crash
\* left behind.
InstancesReclaimed ==
  \A s \in Sessions : inst[s] \in Billed ~> inst[s] \notin Billed

\* A session that got as far as provisioning ends (checkStuckSessions,
\* checkReservationExpiry, RecoverStuckSessions), whoever loses its error, unless
\* an extension stores the copy it read while the session was still pending:
\* pending rows are nobody's concern (PendingEnds).
SessionsEnd ==
  \A s \in Sessions :
    row[s].status \in {"provisioning", "running", "stopping"}
      ~> (IsTerminal(row[s]) \/ row[s].status = "pending")

\* A failed session does not keep the id of an instance for ever
\* (checkFailedDestroys, RecoverStuckSessions).
FailedIdCleared ==
  \A s \in Sessions :
    (row[s].status = "failed" /\ row[s].pid) ~> ~(row[s].status = "failed" /\ row[s].pid)

\* The hard maximum: a session older than HardMax stops running, whatever its
\* expires_at has been extended to (checkHardMax).
HardMaxEnforced ==
  \A s \in Sessions :
    (row[s].status = "running" /\ age[s] > HardMax) ~> row[s].status # "running"

\* A request that is over does not leave its session pending for ever: sessions
\* go "pending -> provisioning -> running (success path)" or to "failed (if
\* provisioning fails)".
PendingEnds ==
  \A s \in Sessions :
    (row[s].status = "pending" /\ crPc[s] = "returned") ~> row[s].status # "pending"

=============================================================================
