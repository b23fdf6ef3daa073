---------------------------- MODULE SessionStore ----------------------------
(***************************************************************************)
(* The sessions table (internal/storage/sessions.go, db.go) and the two    *)
(* things every component of the service shares: the provider's instances  *)
(* and the clock.                                                          *)
(*                                                                         *)
(* A session makes at most one CreateInstance call, so the instance of a   *)
(* session is named by the session, and the column provider_instance_id is *)
(* the Boolean "it holds the id of the session's instance".                *)
(*                                                                         *)
(* Update is a blind write of every mutable column: it neither looks at    *)
(* the stored status nor at when the caller's copy was read. Components    *)
(* therefore keep the copy they read (xxRow) and later store it whole.     *)
(***************************************************************************)
EXTENDS Integers

CONSTANTS
  Sessions,     \* session ids
  Key,          \* Key[s]: the (consumer_id, offer_id) pair of session s
  Reservation,  \* ExpiresAt - CreatedAt of a new session, in clock ticks
  MaxAge,       \* bound: ages are not counted beyond this
  MaxFaults     \* bound: failed calls, lost replies, crashes and shutdowns together

ASSUME ReservationAssumption == Reservation \in Nat
ASSUME MaxAgeAssumption == MaxAge \in Nat
ASSUME MaxFaultsAssumption == MaxFaults \in Nat

VARIABLES
  row,     \* row[s]: the stored row, NoRow before the INSERT
  inst,    \* inst[s]: the provider's view of the instance of s
  age,     \* age[s]: now - CreatedAt
  faults   \* faults that have happened so far

storeVars == <<row, inst, age, faults>>

-----------------------------------------------------------------------------
Active == {"pending", "provisioning", "running"}
Terminal == {"stopped", "failed"}
Statuses == Active \cup {"stopping"} \cup Terminal

\* The columns that the control flow looks at: pid is provider_instance_id,
\* ssh is "ssh_host is known", exp is expires_at counted from created_at. (No
\* caller ever sets hard_max_override, so the column is always false.)
Row == [status: Statuses \cup {"absent"}, pid: BOOLEAN, ssh: BOOLEAN, exp: Nat]

NoRow == [status |-> "absent", pid |-> FALSE, ssh |-> FALSE, exp |-> 0]

NewRow == [status |-> "pending", pid |-> FALSE, ssh |-> FALSE, exp |-> Reservation]

With(r, st) == [r EXCEPT !.status = st]
WithID(r) == [r EXCEPT !.pid = TRUE]
WithoutID(r) == [r EXCEPT !.pid = FALSE]
WithSSH(r) == [r EXCEPT !.ssh = TRUE]

IsActive(r) == r.status \in Active
IsTerminal(r) == r.status \in Terminal

\* GetActiveSessionByConsumerAndOffer: an active row with the key of s.
HasActiveTwin(s) ==
  \E t \in Sessions \ {s} : Key[t] = Key[s] /\ IsActive(row[t])

\* Mutant: duplicates are only refused when a session is created.
IndexOnInsertOnly(s, r) == r.status = "pending" => ~HasActiveTwin(s)

\* The partial UNIQUE index idx_sessions_consumer_offer_active: an INSERT or an
\* UPDATE that would make a second active row for one key fails.
IndexAllows(s, r) == IsActive(r) => ~HasActiveTwin(s)

\* One call fails: the provider answers with an error, SQLite does, or the
\* context of the call is cancelled.
Fault == faults < MaxFaults /\ faults' = faults + 1
NoFault == UNCHANGED faults

\* Update succeeds.
Stored(s, r) == IndexAllows(s, r) /\ row' = [row EXCEPT ![s] = r] /\ NoFault

\* Update returns an error and the row stays as it was.
NotStored(s, r) ==
  \/ ~IndexAllows(s, r) /\ UNCHANGED row /\ NoFault
  \/ UNCHANGED row /\ Fault

\* Update by a caller that only logs the error.
Update(s, r) == Stored(s, r) \/ NotStored(s, r)

-----------------------------------------------------------------------------
(* The provider. "boot": created, not reported as Running yet; "up":       *)
(* Running; "down": exists but stopped; "gone": ErrInstanceNotFound.       *)

InstStates == {"none", "boot", "up", "down", "gone"}
Exists == {"boot", "up", "down"}
Billed == {"boot", "up"}

\* DestroyInstance for a recorded id: done, or an error that left it running.
DestroyInstance(s) ==
  \/ inst' = [inst EXCEPT ![s] = "gone"] /\ NoFault
  \/ UNCHANGED inst /\ Fault

\* The instance finishes booting.
InstanceBoots(s) ==
  /\ inst[s] = "boot"
  /\ inst' = [inst EXCEPT ![s] = "up"]
  /\ UNCHANGED <<row, age, faults>>

\* The host stops the instance, or reclaims it altogether.
InstanceLost(s) ==
  /\ inst[s] \in Exists
  /\ \E st \in {"down", "gone"} : inst' = [inst EXCEPT ![s] = st]
  /\ Fault
  /\ UNCHANGED <<row, age>>

\* Time passes for every session that has a row.
Aged == [s \in Sessions |->
           IF row[s].status # "absent" /\ age[s] < MaxAge THEN age[s] + 1 ELSE age[s]]

StoreInit ==
  /\ row = [s \in Sessions |-> NoRow]
  /\ inst = [s \in Sessions |-> "none"]
  /\ age = [s \in Sessions |-> 0]
  /\ faults = 0

StoreTypeOK ==
  /\ row \in [Sessions -> Row]
  /\ inst \in [Sessions -> InstStates]
  /\ age \in [Sessions -> Nat]
  /\ faults \in Nat

=============================================================================
