-------------------------- MODULE ProviderContract --------------------------
(***************************************************************************)
(* What the service relies on from a provider client (provider.Provider):  *)
(* every answer but an error is justified by the provider's instances at   *)
(* some moment between the call and its return.  Nothing is said of how    *)
(* requests, retries, polls and the circuit breaker get there.             *)
(*                                                                         *)
(*   inst[s]  the instance of session s: none, asked for, live, gone, or   *)
(*            void (refused: there will never be one)                      *)
(*   ask[c]   the call of c: what it is about, the instances when it began *)
(*            ("before"), and once answered the answer                     *)
(* Every provider in Lossy may leave instances out of a listing.           *)
(***************************************************************************)
EXTENDS Naturals

CONSTANTS Callers, Sessions, NoSession, Lossy

VARIABLES vendor, inst, ask

vars == <<vendor, inst, ask>>

Existed == {"live", "gone"}

Idle == [op |-> "idle", s |-> NoSession, before |-> [s \in Sessions |-> "none"],
         ans |-> "none", listed |-> {}]

Init ==
  /\ inst = [s \in Sessions |-> "none"]
  /\ ask = [c \in Callers |-> Idle]

\* An instance is asked for once, and only one that has existed has an id
\* that can be destroyed or looked at.
Invoke(c, op, s) ==
  /\ ask[c] = Idle
  /\ \/ /\ op = "create"
        /\ s \in Sessions /\ inst[s] = "none"
        /\ inst' = [inst EXCEPT ![s] = "asked"]
     \/ /\ op \in {"destroy", "status"}
        /\ s \in Sessions /\ inst[s] \in Existed
        /\ UNCHANGED inst
     \/ /\ op \in {"list", "read"}
        /\ s = NoSession
        /\ UNCHANGED inst
  /\ ask' = [ask EXCEPT ![c] = [Idle EXCEPT !.op = op, !.s = s, !.before = inst]]
  /\ UNCHANGED vendor

\* An instance that was asked for appears, even when the caller has long been
\* told that the call failed.
Appear(s) ==
  /\ inst[s] = "asked"
  /\ inst' = [inst EXCEPT ![s] = "live"]
  /\ UNCHANGED <<vendor, ask>>

Refuse(s) ==
  /\ inst[s] = "asked"
  /\ inst' = [inst EXCEPT ![s] = "void"]
  /\ UNCHANGED <<vendor, ask>>

\* An instance ends, at our request or not, and never comes back.
Vanish(s) ==
  /\ inst[s] = "live"
  /\ inst' = [inst EXCEPT ![s] = "gone"]
  /\ UNCHANGED <<vendor, ask>>

\* When an answer to call k is justified.
Justified(k, a, L) ==
  \/ a = "error"
  \/ a = "ok" /\ k.op = "read"
  \/ a = "ok" /\ k.op = "create" /\ inst[k.s] \in Existed
  \/ a = "stale" /\ k.op = "create" /\ inst[k.s] = "void"
  \/ a = "ok" /\ k.op = "destroy" /\ inst[k.s] = "gone"
  \/ a = "ok" /\ k.op = "status" /\ k.before[k.s] = "live"
  \/ a = "missing" /\ k.op \in {"destroy", "status"} /\ inst[k.s] = "gone"
  \/ /\ a = "ok" /\ k.op = "list"
     /\ \A s \in L : k.before[s] # "gone" /\ inst[s] \in Existed
     /\ \A s \in Sessions :
          (k.before[s] = "live" /\ inst[s] = "live" /\ vendor \notin Lossy)
            => s \in L

Answer(c) ==
  /\ ask[c].op # "idle" /\ ask[c].ans = "none"
  /\ \E a \in {"ok", "stale", "missing", "error"}, L \in SUBSET Sessions :
       /\ Justified(ask[c], a, L)
       /\ ask' = [ask EXCEPT ![c].ans = a, ![c].listed = L]
  /\ UNCHANGED <<vendor, inst>>

Return(c) ==
  /\ ask[c].ans # "none"
  /\ ask' = [ask EXCEPT ![c] = Idle]
  /\ UNCHANGED <<vendor, inst>>

Next ==
  \/ \E c \in Callers, s \in Sessions \cup {NoSession},
        op \in {"create", "destroy", "status", "list", "read"} : Invoke(c, op, s)
  \/ \E s \in Sessions : Appear(s) \/ Refuse(s) \/ Vanish(s)
  \/ \E c \in Callers : Answer(c) \/ Return(c)

Spec == Init /\ [][Next]_vars

=============================================================================
