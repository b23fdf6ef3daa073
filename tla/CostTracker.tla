---------------------------- MODULE CostTracker ----------------------------
(***************************************************************************)
(* Billing: the cost tracker's hourly pass over the running sessions, the  *)
(* final cost of a session that fails, the costs table they both write,    *)
(* and the queries behind /costs.                                          *)
(*                                                                         *)
(*   now       the clock, in fractions of an hour                          *)
(*   ses[s]    the columns of a session that billing looks at, and whether *)
(*             it has ever been running                                    *)
(*   vf[s]     the goroutine that provisions and verifies s: it polls, or  *)
(*             failSession is calling the provider                         *)
(*   stopping  sessions whose instance a DestroySession is destroying      *)
(*   recovering  what RecoverStuckSessions has yet to look at              *)
(*   costs     costs[s, h]: how many rows the table has for the hour h     *)
(*   pass      the aggregation goroutine: the sessions it has listed as    *)
(*             running and has yet to bill                                 *)
(*   final[s]  RecordFinalCost: the hours it still has to record           *)
(*   faults    failed statements and provider calls so far                 *)
(*   crashed   the server has crashed                                      *)
(* Amounts are counted in hours of a session's price; every session has a  *)
(* price.  Hours are stored as text in the server's zone, which is taken   *)
(* not to change.  The sessions' own races are the matter of Lifecycle:    *)
(* here a row is read and written in one step, unless a provider call lies *)
(* in between that a bill depends on.  main.go gives the tracker no        *)
(* ConsumerStore, so checkBudgetThresholds returns at once and is not      *)
(* modelled.                                                               *)
(***************************************************************************)
EXTENDS Naturals, FiniteSets, Functions

CONSTANTS
  Sessions,
  Consumers, Consumer,    \* Consumer[s]: who pays for session s
  PerHour,                \* clock ticks in an hour
  PerMonth,               \* hours in a month
  Grace,                  \* stuckSessionTimeout and ghostGracePeriod, in ticks
  MaxTime,                \* bound: the clock
  MaxFaults               \* bound: failed statements

ASSUME CostAssumption ==
  /\ IsFiniteSet(Sessions)
  /\ Consumer \in [Sessions -> Consumers]
  /\ PerHour \in Nat \ {0} /\ PerMonth \in Nat \ {0}
  /\ Grace \in Nat /\ MaxTime \in Nat /\ MaxFaults \in Nat

VARIABLES now, ses, vf, stopping, recovering, costs, pass, final, faults, crashed

sesVars == <<ses, vf, stopping, recovering>>
billVars == <<costs, pass, final>>
vars == <<now, ses, vf, stopping, recovering, costs, pass, final, faults, crashed>>

HourOf(t) == t \div PerHour
Hours == 0..HourOf(MaxTime)
Months == 0..(HourOf(MaxTime) \div PerMonth)

NoSession ==
  [status |-> "absent", error |-> "none", created |-> 0, stopped |-> 0, ran |-> FALSE]

Transitional == {"provisioning", "stopping"}
Terminal == {"stopped", "failed"}

Rows == [status : {"absent", "running"} \cup Transitional \cup Terminal,
         error : {"none", "fail", "stuck"},
         created : 0..MaxTime, stopped : 0..MaxTime, ran : BOOLEAN]

Existing == {s \in Sessions : ses[s].status # "absent"}

TypeOK ==
  /\ now \in 0..MaxTime
  /\ ses \in [Sessions -> Rows]
  /\ vf \in [Sessions -> {"none", "poll", "failing"}]
  /\ stopping \subseteq Existing
  /\ recovering \subseteq Existing
  /\ costs \in [Sessions \X Hours -> Nat]
  /\ pass \subseteq Sessions
  /\ final \in [Sessions -> SUBSET Hours]
  /\ faults \in 0..MaxFaults
  /\ crashed \in BOOLEAN

Init ==
  /\ now = 0
  /\ ses = [s \in Sessions |-> NoSession]
  /\ vf = [s \in Sessions |-> "none"]
  /\ stopping = {} /\ recovering = {}
  /\ costs = [x \in Sessions \X Hours |-> 0]
  /\ pass = {}
  /\ final = [s \in Sessions |-> {}]
  /\ faults = 0
  /\ crashed = FALSE

Fault == faults < MaxFaults /\ faults' = faults + 1

-----------------------------------------------------------------------------
(* The costs table                                                         *)

\* Mutant: a plain INSERT.
RecordAgain(t, s, h) == [t EXCEPT ![<<s, h>>] = @ + 1]

\* Record: ON CONFLICT(session_id, hour) DO UPDATE.
Record(t, s, h) == [t EXCEPT ![<<s, h>>] = 1]

\* SELECT SUM(amount): the rows that match, counted.
Total(xs) == Cardinality(UNION {{x} \X (1..costs[x]) : x \in xs})

GetSessionCost(s) == Total({s} \X Hours)

\* Mutant: the last hour of a period counts in both periods.
InclusivePeriod(c, from, to) ==
  {x \in Sessions \X Hours : Consumer[x[1]] = c /\ from <= x[2] /\ x[2] <= to}

\* hour >= start AND hour < end, for one consumer: the query that every caller
\* of GetSummary makes, none of which asks for a session or a provider.
InPeriod(c, from, to) ==
  {x \in Sessions \X Hours : Consumer[x[1]] = c /\ from <= x[2] /\ x[2] < to}

GetConsumerCost(c, from, to) == Total(InPeriod(c, from, to))

\* GetSummary's first statement, the total. The breakdowns are statements of
\* their own.
GetSummary(c, from, to) == Total(InPeriod(c, from, to))

\* GetMonthlySummary, for the month that begins with hour m * PerMonth.
\* (GetDailySummary is the same with 24 hours.)
GetMonthlySummary(c, m) == GetSummary(c, m * PerMonth, (m + 1) * PerMonth)

-----------------------------------------------------------------------------
(* Sessions                                                                *)

End(r, t, e) == [r EXCEPT !.status = t, !.error = e, !.stopped = now]

\* Update: the row is stored, or the statement fails and the caller goes on.
Update(s, r) ==
  \/ ses' = [ses EXCEPT ![s] = r] /\ UNCHANGED faults
  \/ Fault /\ UNCHANGED ses

CreateSession(s) ==
  /\ ses[s].status = "absent"
  /\ ses' = [ses EXCEPT ![s] = [@ EXCEPT !.status = "provisioning", !.created = now]]
  /\ vf' = [vf EXCEPT ![s] = "poll"]
  /\ UNCHANGED <<now, stopping, recovering, billVars, faults, crashed>>

\* The instance answers SSH: also a session that is being stopped runs again.
VerifySucceeds(s) ==
  /\ vf[s] = "poll" /\ ses[s].status \notin Terminal
  /\ Update(s, [ses[s] EXCEPT !.status = "running", !.ran = TRUE])
  /\ vf' = [vf EXCEPT ![s] = "none"]
  /\ UNCHANGED <<now, stopping, recovering, billVars, crashed>>

\* DestroySession, for a client or for the manager: the session is stopping
\* while the provider is called ...
DestroySession(s) ==
  /\ s \notin stopping /\ ses[s].status \in {"provisioning", "running"}
  /\ Update(s, [ses[s] EXCEPT !.status = "stopping"])
  /\ stopping' = stopping \cup {s}
  /\ UNCHANGED <<now, vf, recovering, billVars, crashed>>

\* ... then it is stopped, and no cost is recorded. When the instance could
\* not be destroyed the session stays as it is.
DestroyFinishes(s) ==
  /\ s \in stopping
  /\ stopping' = stopping \ {s}
  /\ Update(s, End(ses[s], "stopped", ses[s].error))
  /\ UNCHANGED <<now, vf, recovering, billVars, crashed>>

\* DestroySession of a failed session that still names its instance.
DestroyFailed(s) ==
  /\ s \notin stopping /\ ses[s].status = "failed"
  /\ ses' = [ses EXCEPT ![s] = End(@, "stopped", @.error)]
  /\ UNCHANGED <<now, vf, stopping, recovering, billVars, faults, crashed>>

\* The reconciler finds that the instance is gone.
handleGhost(s) ==
  /\ ses[s].status \in {"provisioning", "running"} /\ now - ses[s].created >= Grace
  /\ ses' = [ses EXCEPT ![s] = End(@, "stopped", "none")]
  /\ UNCHANGED <<now, vf, stopping, recovering, billVars, faults, crashed>>

\* The manager gives up a session that has been on its way for too long, since
\* its creation: no cost is recorded.
checkStuckSessions(s) ==
  /\ ses[s].status \in Transitional /\ now - ses[s].created > Grace
  /\ ses' = [ses EXCEPT ![s] = End(@, "failed", "stuck")]
  /\ UNCHANGED <<now, vf, stopping, recovering, billVars, faults, crashed>>

\* failSession: the provider is called ... A verification that times out does
\* not look at the status first.
failSession(s) ==
  /\ vf[s] = "poll"
  /\ vf' = [vf EXCEPT ![s] = "failing"]
  /\ UNCHANGED <<now, ses, stopping, recovering, billVars, faults, crashed>>

\* Mutant: only the last hour is recorded.
HoursOfEnd(from, to) == {HourOf(to)}

\* Mutant: the loop runs one hour too far.
HoursPast(from, to) == IF to > from THEN HourOf(from)..(HourOf(to) + 1) ELSE {}

\* The hours that RecordFinalCost goes through.
HoursOf(from, to) == IF to > from THEN HourOf(from)..HourOf(to) ELSE {}

\* ... then the session is stored as failed, also when it has ended in the
\* meantime, and RecordFinalCost starts.
storeFailed(s) ==
  /\ vf[s] = "failing"
  /\ vf' = [vf EXCEPT ![s] = "none"]
  /\ Update(s, End(ses[s], "failed", "fail"))
  /\ final' = [final EXCEPT ![s] = HoursOf(ses[s].created, now)]
  /\ UNCHANGED <<now, stopping, recovering, costs, pass, crashed>>

\* RecordFinalCost records hour by hour and stops at the first error.
RecordFinalCost(s) ==
  /\ final[s] # {}
  /\ \/ \E h \in final[s] :
          /\ \A g \in final[s] : h <= g
          /\ costs' = Record(costs, s, h)
          /\ final' = [final EXCEPT ![s] = @ \ {h}]
          /\ UNCHANGED faults
     \/ /\ Fault
        /\ final' = [final EXCEPT ![s] = {}]
        /\ UNCHANGED costs
  /\ UNCHANGED <<now, sesVars, pass, crashed>>

-----------------------------------------------------------------------------
(* The aggregation goroutine                                               *)

\* The ticker fires: the running sessions are listed.
runAggregation ==
  /\ pass = {}
  /\ pass' = {s \in Sessions : ses[s].status = "running"}
  /\ UNCHANGED <<now, sesVars, costs, final, faults, crashed>>

\* RecordHourlyForSession: the hour is the one of this moment, the session as
\* it was listed.  An error skips the session.
RecordHourlyForSession(s) ==
  /\ s \in pass
  /\ pass' = pass \ {s}
  /\ \/ costs' = Record(costs, s, HourOf(now)) /\ UNCHANGED faults
     \/ Fault /\ UNCHANGED costs
  /\ UNCHANGED <<now, sesVars, final, crashed>>

-----------------------------------------------------------------------------
(* Crash and recovery                                                      *)

\* Memory is lost, the tables are not.
Crash ==
  /\ ~crashed /\ crashed' = TRUE    \* bound: one crash
  /\ vf' = [s \in Sessions |-> "none"] /\ stopping' = {}
  /\ recovering' = {s \in Sessions : ses[s].status \in Transitional}
  /\ pass' = {} /\ final' = [s \in Sessions |-> {}]
  /\ UNCHANGED <<now, ses, costs, faults>>

\* What the provider's answer makes of a session that was on its way.
Recovered(r) ==
  {End(r, "failed", "stuck"), End(r, "stopped", r.error),
   IF r.status = "provisioning" THEN [r EXCEPT !.status = "running", !.ran = TRUE] ELSE r}

\* At the start, before anything else runs; no cost is recorded.
RecoverStuckSessions(s) ==
  /\ s \in recovering
  /\ recovering' = recovering \ {s}
  /\ \E r \in Recovered(ses[s]) : Update(s, r)
  /\ UNCHANGED <<now, vf, stopping, billVars, crashed>>

-----------------------------------------------------------------------------

Tick ==
  /\ now < MaxTime
  /\ now' = now + 1
  /\ UNCHANGED <<sesVars, billVars, faults, crashed>>

Session(s) ==
  \/ CreateSession(s) \/ VerifySucceeds(s) \/ failSession(s) \/ storeFailed(s)
  \/ DestroySession(s) \/ DestroyFinishes(s) \/ DestroyFailed(s)
  \/ handleGhost(s) \/ checkStuckSessions(s) \/ RecordFinalCost(s)

Bill == runAggregation \/ \E s \in Sessions : RecordHourlyForSession(s)

Next ==
  \/ recovering = {} /\ ((\E s \in Sessions : Session(s)) \/ Bill \/ Crash)
  \/ \E s \in Sessions : RecoverStuckSessions(s)
  \/ Tick

Spec == Init /\ [][Next]_vars

-----------------------------------------------------------------------------
(* Properties                                                              *)

\* The hours that have begun in the life of a session.
LivedHours(s) ==
  LET e == IF ses[s].status \in Terminal THEN ses[s].stopped ELSE now
  IN  HourOf(e) - HourOf(ses[s].created) + 1

\* As long as no statement fails, a session never costs more than the hours
\* that have begun in its life and one more: the hourly pass and the final
\* cost may meet at the same hours, and a pass that listed the session before
\* it ended may bill it later.
NeverOverbilled ==
  faults = 0 => \A s \in Sessions : GetSessionCost(s) <= LivedHours(s) + 1

\* A session that failSession has failed is billed for every hour of its life
\* once RecordFinalCost is through, as long as nothing has gone wrong on the way.
\* (One that checkStuckSessions or the recovery has failed is not billed.)
FailedSessionBilled ==
  \A s \in Sessions :
    (/\ ses[s].status = "failed" /\ ses[s].error = "fail"
     /\ final[s] = {} /\ faults = 0 /\ ~crashed)
      => \/ ses[s].stopped = ses[s].created
         \/ \A h \in HourOf(ses[s].created)..HourOf(ses[s].stopped) : costs[<<s, h>>] > 0

\* Every recorded hour is in exactly one month: what a consumer's monthly
\* summaries show adds up to what the consumer's sessions show.
MonthsAddUp ==
  \A c \in Consumers :
    SumFunction([m \in Months |-> GetMonthlySummary(c, m)])
      = SumFunction([s \in {t \in Sessions : Consumer[t] = c} |-> GetSessionCost(s)])

\* What the comment on WithCostRecorder and RecordFinalCost says: a session
\* that ran and has ended is billed, however short it was.
EndedSessionBilled ==
  \A s \in Sessions :
    (ses[s].status = "stopped" /\ ses[s].ran /\ faults = 0 /\ ~crashed)
      => GetSessionCost(s) > 0

=============================================================================
