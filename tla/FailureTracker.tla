--------------------------- MODULE FailureTracker ---------------------------
(***************************************************************************)
(* OfferFailureTracker: failures of offers in memory, written through to   *)
(* the database by goroutines of their own, replayed at startup.           *)
(*                                                                         *)
(*   now       the time, in ticks                                          *)
(*   up        the process runs                                            *)
(*   mem       the failure events in memory, [id, o, t]                    *)
(*   supp[o]   SuppressedAt in memory, 0 when zero                         *)
(*   db        the rows of offer_failures                                  *)
(*   dbSupp[o] the row of offer_suppressions, 0 when there is none         *)
(*   jobs      the goroutines under way to the store                       *)
(*   log       every failure ever recorded                                 *)
(*   lost      the ids of failures that a store error or a crash lost      *)
(*   errors    failed store calls so far                                   *)
(* A tick is a quarter of an hour and the goroutines have 5 and 10 seconds *)
(* (StoreDelay, rounded up to whole ticks): one may see the next tick.     *)
(* gpuTypes and the multipliers only order offers and are not modelled.    *)
(***************************************************************************)
EXTENDS Naturals, FiniteSets

CONSTANTS
  Offers,
  SuppressionThreshold, SuppressionWindow, SuppressionCooldown,
  FailureDecayPeriod,
  StoreDelay,                         \* the time a goroutine has at most
  MaxTime, MaxFailures, MaxErrors     \* bounds

ASSUME FailureTrackerAssumption ==
  /\ SuppressionThreshold \in Nat \ {0}
  /\ SuppressionWindow \in Nat \ {0}
  /\ SuppressionCooldown \in Nat \ {0}
  /\ FailureDecayPeriod \in Nat
  /\ SuppressionWindow <= FailureDecayPeriod
  /\ StoreDelay \in Nat
  /\ MaxTime \in Nat \ {0} /\ MaxFailures \in Nat /\ MaxErrors \in Nat

VARIABLES now, up, mem, supp, db, dbSupp, jobs, log, lost, errors

vars == <<now, up, mem, supp, db, dbSupp, jobs, log, lost, errors>>

Times == 1..MaxTime
Events == [id : 1..MaxFailures, o : Offers, t : Times]
Jobs == [kind : {"record"}, f : Events, s : 0..MaxTime]
          \cup [kind : {"suppress"}, f : Events, s : Times]
          \cup [kind : {"clean"}, expired : SUBSET Offers, at : Times]

TypeOK ==
  /\ now \in Times /\ up \in BOOLEAN
  /\ mem \subseteq Events /\ db \subseteq Events /\ log \subseteq Events
  /\ supp \in [Offers -> 0..MaxTime] /\ dbSupp \in [Offers -> 0..MaxTime]
  /\ jobs \subseteq Jobs
  /\ lost \subseteq 1..MaxFailures
  /\ errors \in 0..MaxErrors

Init ==
  /\ now = 1 /\ up = TRUE
  /\ mem = {} /\ db = {} /\ log = {} /\ lost = {}
  /\ supp = [o \in Offers |-> 0] /\ dbSupp = [o \in Offers |-> 0]
  /\ jobs = {}
  /\ errors = 0

-----------------------------------------------------------------------------
(* In memory, under the lock                                               *)

\* Timestamp.After(now - period)
Within(t, period) == t + period > now

\* Mutant: all failures count, however old.
RecentAll(fs, o) == {f \in fs : f.o = o}

Recent(fs, o) == {f \in fs : f.o = o /\ Within(f.t, SuppressionWindow)}

IsSuppressed(o) == supp[o] # 0 /\ now < supp[o] + SuppressionCooldown

\* cleanupLocked: what it leaves of the events and of the suppressions, and
\* the suppressions it finds expired.
Kept(fs) == {f \in fs : Within(f.t, FailureDecayPeriod)}
Expired(su) == {o \in Offers : su[o] # 0 /\ now > su[o] + SuppressionCooldown}
Cleared(su) == [o \in Offers |-> IF o \in Expired(su) THEN 0 ELSE su[o]]
cleanJob(su) == [kind |-> "clean", expired |-> Expired(su), at |-> now]

\* RecordFailure: the threshold is looked at before expired suppressions are
\* cleared.
RecordFailure(o) ==
  LET f    == [id |-> Cardinality(log) + 1, o |-> o, t |-> now]
      fs   == mem \cup {f}
      new  == Cardinality(Recent(fs, o)) >= SuppressionThreshold /\ supp[o] = 0
      su   == IF new THEN [supp EXCEPT ![o] = now] ELSE supp
  IN  /\ up
      /\ Cardinality(log) < MaxFailures
      /\ log' = log \cup {f}
      /\ mem' = Kept(fs)
      /\ supp' = Cleared(su)
      /\ jobs' = jobs \cup {cleanJob(su),
                            [kind |-> "record", f |-> f, s |-> IF new THEN now ELSE 0]}
      /\ UNCHANGED <<now, up, db, dbSupp, lost, errors>>

-----------------------------------------------------------------------------
(* The goroutines.  An error is logged and the next statement follows.     *)

Failed == errors < MaxErrors /\ errors' = errors + 1

\* OfferFailureStore.RecordFailure, then SetSuppression if there is one.  The row
\* does not have the time of the event: the statement takes its own.
storeFailure(j) ==
  /\ j.kind = "record"
  /\ \/ /\ \E t \in j.f.t..now : db' = db \cup {[j.f EXCEPT !.t = t]}
        /\ UNCHANGED <<errors, lost>>
     \/ Failed /\ lost' = lost \cup {j.f.id} /\ UNCHANGED db
  /\ jobs' = (jobs \ {j}) \cup
             IF j.s = 0 THEN {} ELSE {[kind |-> "suppress", f |-> j.f, s |-> j.s]}
  /\ UNCHANGED <<now, up, mem, supp, dbSupp, log>>

SetSuppression(j) ==
  /\ j.kind = "suppress"
  /\ \/ dbSupp' = [dbSupp EXCEPT ![j.f.o] = j.s] /\ UNCHANGED errors
     \/ Failed /\ UNCHANGED dbSupp
  /\ jobs' = jobs \ {j}
  /\ UNCHANGED <<now, up, mem, supp, db, log, lost>>

ClearSuppression(j) ==
  /\ j.kind = "clean"
  /\ \E o \in j.expired :
       /\ \/ dbSupp' = [dbSupp EXCEPT ![o] = 0] /\ UNCHANGED errors
          \/ Failed /\ UNCHANGED dbSupp
       /\ jobs' = (jobs \ {j}) \cup {[j EXCEPT !.expired = @ \ {o}]}
  /\ UNCHANGED <<now, up, mem, supp, db, log, lost>>

\* Mutant: rows as old as the window are deleted.
OldAsWindow(f, at) == f.t + SuppressionWindow <= at

\* created_at < decayCutoff
Old(f, at) == f.t + FailureDecayPeriod < at

CleanupOldFailures(j) ==
  /\ j.kind = "clean" /\ j.expired = {}
  /\ \/ db' = {f \in db : ~Old(f, j.at)} /\ UNCHANGED errors
     \/ Failed /\ UNCHANGED db
  /\ jobs' = jobs \ {j}
  /\ UNCHANGED <<now, up, mem, supp, dbSupp, log, lost>>

-----------------------------------------------------------------------------
(* The process ends and starts again                                       *)

Crash ==
  /\ up
  /\ up' = FALSE
  /\ mem' = {} /\ supp' = [o \in Offers |-> 0]
  /\ lost' = lost \cup {j.f.id : j \in {k \in jobs : k.kind = "record"}}
  /\ jobs' = {}
  /\ UNCHANGED <<now, db, dbSupp, log, errors>>

\* LoadRecentFailures
recentRows == {f \in db : Within(f.t, FailureDecayPeriod)}

\* Mutant: the end of a suppression is taken for its beginning.
activeRowsEnd == [o \in Offers |-> IF Within(dbSupp[o], SuppressionCooldown) /\ dbSupp[o] # 0
                                   THEN dbSupp[o] + SuppressionCooldown ELSE 0]

\* LoadActiveSuppressions
activeRows == [o \in Offers |-> IF Within(dbSupp[o], SuppressionCooldown)
                                THEN dbSupp[o] ELSE 0]

\* LoadFromStore replays the events and suppressions it is given.
LoadFromStore(fs, su) ==
  /\ mem' = Kept(fs)
  /\ supp' = Cleared(su)
  /\ jobs' = {cleanJob(su)}

\* main loads the rows before it serves.  When the failures cannot be read
\* the suppressions are not read either and nothing is loaded.
loadFailureData ==
  /\ ~up
  /\ up' = TRUE
  /\ \/ LoadFromStore(recentRows, activeRows) /\ UNCHANGED <<lost, errors>>
     \/ Failed /\ LoadFromStore(recentRows, supp) /\ UNCHANGED lost
     \/ /\ Failed
        /\ lost' = lost \cup {f.id : f \in recentRows}
        /\ UNCHANGED <<mem, supp, jobs>>
  /\ UNCHANGED <<now, db, dbSupp, log>>

\* When a goroutine was started.
Born(j) == IF j.kind = "clean" THEN j.at ELSE j.f.t

\* Time passes; a goroutine past its timeout is over.
Tick ==
  /\ now < MaxTime
  /\ \A j \in jobs : now < Born(j) + StoreDelay
  /\ now' = now + 1
  /\ UNCHANGED <<up, mem, supp, db, dbSupp, jobs, log, lost, errors>>

Next ==
  \/ \E o \in Offers : RecordFailure(o)
  \/ \E j \in jobs : \/ storeFailure(j) \/ SetSuppression(j)
                     \/ ClearSuppression(j) \/ CleanupOldFailures(j)
  \/ Crash \/ loadFailureData \/ Tick

Spec == Init /\ [][Next]_vars

-----------------------------------------------------------------------------
(* Properties                                                              *)

Holds(fs, f) == \E g \in fs : g.id = f.id /\ g.o = f.o /\ g.t >= f.t

\* A failure counts for FailureDecayPeriod, over crashes and restarts: the
\* tracker of a running process holds every one that no store error and no
\* crash has lost, whatever the goroutines of the store delete meanwhile. (From
\* the table it comes back with the time of its row, which is not earlier.)
HistoryKept ==
  up => \A f \in log :
          (Within(f.t, FailureDecayPeriod) /\ f.id \notin lost) => Holds(mem, f)

\* An offer is hidden, and stays hidden over a restart, only for
\* SuppressionThreshold different failures within one SuppressionWindow, give or
\* take the time the store may have taken to date them.
InWindow(fs, o, s) ==
  {f \in fs : f.o = o /\ f.t <= s /\ f.t + SuppressionWindow + StoreDelay > s}
Earned(fs, o, s) == Cardinality(InWindow(fs, o, s)) >= SuppressionThreshold

SuppressionEarned ==
  \A o \in Offers : /\ IsSuppressed(o) => Earned(log, o, supp[o])
                    /\ dbSupp[o] # 0 => Earned(log, o, dbSupp[o])

=============================================================================
