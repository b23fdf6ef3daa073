-------------------------- MODULE CostTrackerProofs --------------------------
(* Proofs about CostTracker, for any number of sessions and any length of  *)
(* the hour, the month and the run.                                        *)
EXTENDS CostTracker, FiniteSetTheorems, TLAPS

-----------------------------------------------------------------------------
(* The inductive invariant                                                 *)

Ended(r) == r.status \in Terminal

\* The hours of a row's life, up to t while it lasts.
Life(r, t) == HourOf(r.created)..HourOf(IF Ended(r) THEN r.stopped ELSE t)

\* A row in time; the goroutine that provisions a session lives no longer than
\* until it runs, only one that ran can be in a pass, and the recovery has only
\* sessions on their way.
RowInv(s) ==
  /\ ses[s].created <= now
  /\ Ended(ses[s]) => ses[s].created <= ses[s].stopped /\ ses[s].stopped <= now
  /\ vf[s] # "none" => ~ses[s].ran
  /\ s \in pass => ses[s].ran
  /\ ses[s].status = "running" => ses[s].ran
  /\ ses[s].status = "absent" => ~ses[s].ran /\ vf[s] = "none"
  /\ s \in recovering => ses[s].status \in Transitional /\ vf[s] = "none"

\* The hours billed are hours of the session's life, but for one hour that a
\* pass which listed the session while it ran bills after its end.
BillInv(s) ==
  /\ \A h \in Hours : costs[<<s, h>>] \in {0, 1}
  /\ final[s] \subseteq Life(ses[s], now)
  /\ ses[s].status = "absent" => final[s] = {} /\ \A h \in Hours : costs[<<s, h>>] = 0
  /\ \E late \in Hours : \A h \in Hours :
       costs[<<s, h>>] = 1 => \/ h \in Life(ses[s], now)
                              \/ Ended(ses[s]) /\ s \notin pass /\ h = late

\* What of the life of a session that failSession failed is not billed is yet
\* to be recorded.
PaidInv(s) ==
  ses[s].status = "failed" /\ ses[s].error = "fail" =>
    \/ ses[s].stopped = ses[s].created
    \/ \A h \in Life(ses[s], now) : costs[<<s, h>>] > 0 \/ h \in final[s]

Base == TypeOK /\ \A s \in Sessions : RowInv(s)
Bounded == faults = 0 => \A s \in Sessions : BillInv(s)
Paid == faults = 0 /\ ~crashed => \A s \in Sessions : PaidInv(s)

-----------------------------------------------------------------------------
(* Hours                                                                   *)

LEMMA DivFacts ==
  ASSUME NEW p \in Nat \ {0}, NEW t \in Nat
  PROVE  /\ t \div p \in Nat
         /\ p * (t \div p) <= t
         /\ t < p * ((t \div p) + 1)
OBVIOUS

LEMMA DivMonotone ==
  ASSUME NEW p \in Nat \ {0}, NEW t \in Nat, NEW u \in Nat, t <= u
  PROVE  t \div p <= u \div p
<1> DEFINE a == t \div p
           b == u \div p
<1>1. a \in Nat /\ b \in Nat /\ p * a <= t /\ u < p * (b + 1)
  BY DivFacts
<1> HIDE DEF a, b
<1>2. SUFFICES ASSUME b + 1 <= a PROVE FALSE
  BY <1>1 DEF a, b
<1>3. p * (b + 1) <= p * a
  BY <1>1, <1>2
<1>. QED
  BY <1>1, <1>3

LEMMA HourFacts ==
  /\ Hours \subseteq Nat
  /\ \A t \in 0..MaxTime : HourOf(t) \in Hours
  /\ \A t, u \in 0..MaxTime : t <= u => HourOf(t) <= HourOf(u)
<1>1. PerHour \in Nat \ {0} /\ MaxTime \in Nat /\ MaxTime \in 0..MaxTime
  BY CostAssumption
<1>2. \A t \in 0..MaxTime : HourOf(t) \in Nat
  BY <1>1, DivFacts DEF HourOf
<1>3. \A t, u \in 0..MaxTime : t <= u => HourOf(t) <= HourOf(u)
  BY <1>1, DivMonotone DEF HourOf
<1>4. \A t \in 0..MaxTime : HourOf(t) <= HourOf(MaxTime)
  BY <1>1, <1>3
<1> HIDE DEF HourOf
<1>. QED
  BY <1>1, <1>2, <1>3, <1>4 DEF Hours

LEMMA RowFields ==
  ASSUME NEW r \in Rows
  PROVE  /\ r.status \in {"absent", "running"} \cup Transitional \cup Terminal
         /\ r.error \in {"none", "fail", "stuck"}
         /\ r.created \in 0..MaxTime /\ r.stopped \in 0..MaxTime /\ r.ran \in BOOLEAN
BY DEF Rows

\* A life lies within the hours of the run, and grows with the clock.
LEMMA LifeFacts ==
  ASSUME NEW r \in Rows, NEW t \in 0..MaxTime, NEW u \in 0..MaxTime, t <= u
  PROVE  Life(r, t) \subseteq Life(r, u) /\ Life(r, t) \subseteq Hours
<1>1. r.created \in 0..MaxTime /\ r.stopped \in 0..MaxTime
  BY RowFields
<1> DEFINE e(x) == IF Ended(r) THEN r.stopped ELSE x
<1>2. e(t) \in 0..MaxTime /\ e(u) \in 0..MaxTime /\ e(t) <= e(u)
  BY <1>1, CostAssumption
<1>3. /\ HourOf(r.created) \in Nat /\ HourOf(e(t)) \in Nat /\ HourOf(e(u)) \in Nat
      /\ HourOf(e(t)) <= HourOf(e(u)) /\ HourOf(e(t)) \in Hours
  BY <1>1, <1>2, HourFacts
<1>4. HourOf(MaxTime) \in Nat
  <2>1. MaxTime \in 0..MaxTime
    BY CostAssumption
  <2>. QED
    BY <2>1, HourFacts
<1> HIDE DEF e
<1>5. HourOf(r.created)..HourOf(e(t)) \subseteq HourOf(r.created)..HourOf(e(u))
  BY <1>3
<1>6. HourOf(r.created)..HourOf(e(t)) \subseteq Hours
  BY <1>3, <1>4 DEF Hours
<1>. QED
  BY <1>5, <1>6 DEF Life, e

-----------------------------------------------------------------------------
(* Types                                                                   *)

LEMMA Types ==
  ASSUME TypeOK
  PROVE  /\ now \in 0..MaxTime /\ ses \in [Sessions -> Rows]
         /\ vf \in [Sessions -> {"none", "poll", "failing"}]
         /\ stopping \subseteq Existing /\ recovering \subseteq Existing
         /\ costs \in [Sessions \X Hours -> Nat] /\ pass \subseteq Sessions
         /\ final \in [Sessions -> SUBSET Hours] /\ faults \in 0..MaxFaults
         /\ crashed \in BOOLEAN
         /\ MaxTime \in Nat /\ MaxFaults \in Nat
BY CostAssumption DEF TypeOK

-----------------------------------------------------------------------------
(* What the operations make of a row                                       *)

\* The operations that write the row of a session that exists.
RowAction(s) ==
  \/ /\ recovering = {}
     /\ \/ VerifySucceeds(s) \/ storeFailed(s) \/ DestroySession(s) \/ DestroyFinishes(s)
        \/ DestroyFailed(s) \/ handleGhost(s) \/ checkStuckSessions(s)
  \/ RecoverStuckSessions(s)

\* A row only moves on: an end stays one, and is of this moment.
Forward(s, r) ==
  /\ r.status # "absent" /\ r.created = ses[s].created
  /\ Ended(ses[s]) => Ended(r)
  /\ Ended(r) => r.stopped = now
  /\ r.status = "running" => r.ran
  /\ ses[s].ran => r.ran
  /\ r.ran => ses[s].ran \/ vf'[s] = "none"
  /\ s \notin recovering'

LEMMA EndFacts ==
  ASSUME TypeOK, NEW s \in Sessions, ses[s].status # "absent", NEW t \in Terminal,
         NEW e \in {"none", "fail", "stuck"}, s \notin recovering'
  PROVE  End(ses[s], t, e) \in Rows /\ Forward(s, End(ses[s], t, e))
<1>1. ses[s] \in Rows /\ now \in 0..MaxTime
  BY Types
<1>2. t # "absent" /\ t # "running"
  BY DEF Terminal
<1>. QED
  BY <1>1, <1>2 DEF End, Rows, Forward, Ended

\* The session verified, being stopped, or found as it was.
LEMMA StatusFacts ==
  ASSUME Base, NEW s \in Sessions, ses[s].status \notin Terminal,
         s \notin recovering'
  PROVE  /\ vf'[s] = "none" =>
              LET r == [ses[s] EXCEPT !.status = "running", !.ran = TRUE]
              IN  r \in Rows /\ Forward(s, r)
         /\ LET r == [ses[s] EXCEPT !.status = "stopping"]
            IN  r \in Rows /\ Forward(s, r)
         /\ ses[s].status \in Transitional => Forward(s, ses[s])
<1>1. ses[s] \in Rows
  BY Types DEF Base
<1>. QED
  BY <1>1 DEF Rows, Forward, Ended, Terminal, Transitional

LEMMA RowMoves ==
  ASSUME Base, NEW s \in Sessions, RowAction(s)
  PROVE  /\ UNCHANGED <<now, costs, pass, crashed>>
         /\ stopping' \subseteq stopping \cup {s} /\ recovering' \subseteq recovering
         /\ vf' = vf \/ vf' = [vf EXCEPT ![s] = "none"]
         /\ storeFailed(s) \/ final' = final
         /\ ses[s].status # "absent"
         /\ \/ Fault /\ ses' = ses
            \/ /\ faults' = faults
               /\ \E r \in Rows : ses' = [ses EXCEPT ![s] = r] /\ Forward(s, r)
<1> DEFINE Kept == /\ UNCHANGED <<now, costs, pass, crashed>>
                   /\ stopping' \subseteq stopping \cup {s} /\ recovering' \subseteq recovering
                   /\ vf' = vf \/ vf' = [vf EXCEPT ![s] = "none"]
                   /\ storeFailed(s) \/ final' = final
           Moved == \/ Fault /\ ses' = ses
                    \/ /\ faults' = faults
                       /\ \E r \in Rows : ses' = [ses EXCEPT ![s] = r] /\ Forward(s, r)
<1>1. /\ TypeOK /\ RowInv(s) /\ ses[s] \in Rows /\ ses \in [Sessions -> Rows]
      /\ vf \in [Sessions -> {"none", "poll", "failing"}]
      /\ ses[s].error \in {"none", "fail", "stuck"}
  BY Types, RowFields DEF Base
<1>2. /\ s \in stopping \/ s \in recovering => ses[s].status # "absent"
      /\ vf[s] # "none" => ses[s].status # "absent"
  BY <1>1, Types DEF Existing, RowInv
<1>3. ASSUME NEW r \in Rows, Forward(s, r), Update(s, r) PROVE Moved
  BY <1>3 DEF Update
<1>4. CASE recovering = {} /\ VerifySucceeds(s)
  <2>1. /\ vf[s] = "poll" /\ ses[s].status \notin Terminal
        /\ Update(s, [ses[s] EXCEPT !.status = "running", !.ran = TRUE])
        /\ vf' = [vf EXCEPT ![s] = "none"] /\ Kept /\ s \notin recovering'
    BY <1>4 DEF VerifySucceeds, billVars
  <2>2. vf'[s] = "none"
    BY <1>1, <2>1
  <2> HIDE DEF Kept, Moved
  <2>3. Moved
    BY <1>3, <2>1, <2>2, StatusFacts
  <2>. QED
    BY <1>2, <2>1, <2>3 DEF Kept, Moved
<1>5. CASE recovering = {} /\ storeFailed(s)
  <2>1. /\ vf[s] = "failing" /\ Update(s, End(ses[s], "failed", "fail"))
        /\ Kept /\ s \notin recovering'
    BY <1>5 DEF storeFailed
  <2> HIDE DEF Kept, Moved
  <2>2. "failed" \in Terminal /\ ses[s].status # "absent"
    BY <1>2, <2>1 DEF Terminal
  <2>3. Moved
    BY <1>1, <1>3, <2>1, <2>2, EndFacts
  <2>. QED
    BY <2>1, <2>2, <2>3 DEF Kept, Moved
<1>6. CASE recovering = {} /\ DestroySession(s)
  <2>1. /\ ses[s].status \in {"provisioning", "running"}
        /\ Update(s, [ses[s] EXCEPT !.status = "stopping"]) /\ Kept /\ s \notin recovering'
    BY <1>6 DEF DestroySession, billVars
  <2> HIDE DEF Kept, Moved
  <2>2. ses[s].status \notin Terminal /\ ses[s].status # "absent"
    BY <2>1 DEF Terminal
  <2>3. Moved
    BY <1>3, <2>1, <2>2, StatusFacts
  <2>. QED
    BY <2>1, <2>2, <2>3 DEF Kept, Moved
<1>7. CASE recovering = {} /\ DestroyFinishes(s)
  <2>1. /\ s \in stopping /\ Update(s, End(ses[s], "stopped", ses[s].error))
        /\ Kept /\ s \notin recovering'
    BY <1>7 DEF DestroyFinishes, billVars
  <2> HIDE DEF Kept, Moved
  <2>2. "stopped" \in Terminal /\ ses[s].status # "absent"
    BY <1>2, <2>1 DEF Terminal
  <2>3. Moved
    BY <1>1, <1>3, <2>1, <2>2, EndFacts
  <2>. QED
    BY <2>1, <2>2, <2>3 DEF Kept, Moved
<1>8. CASE recovering = {} /\ (DestroyFailed(s) \/ handleGhost(s) \/ checkStuckSessions(s))
  <2>1. /\ ses[s].status # "absent" /\ Kept /\ s \notin recovering' /\ faults' = faults
        /\ \E t \in Terminal, e \in {"none", "fail", "stuck"} :
             ses' = [ses EXCEPT ![s] = End(ses[s], t, e)]
    BY <1>1, <1>8 DEF DestroyFailed, handleGhost, checkStuckSessions, billVars, Terminal,
       Transitional
  <2> HIDE DEF Kept
  <2>2. Moved
    BY <1>1, <2>1, EndFacts
  <2> HIDE DEF Moved
  <2>. QED
    BY <2>1, <2>2 DEF Kept, Moved
<1>9. CASE RecoverStuckSessions(s)
  <2>1. /\ s \in recovering /\ s \notin recovering' /\ Kept
        /\ \E r \in Recovered(ses[s]) : Update(s, r)
    BY <1>9 DEF RecoverStuckSessions, billVars
  <2>2. vf' = vf
    BY <1>9 DEF RecoverStuckSessions
  <2> HIDE DEF Kept, Moved
  <2>3. PICK r \in Recovered(ses[s]) : Update(s, r)
    BY <2>1
  <2>4. /\ ses[s].status \in Transitional /\ vf'[s] = "none"
        /\ ses[s].status \notin Terminal /\ ses[s].status # "absent"
        /\ "failed" \in Terminal /\ "stopped" \in Terminal
    BY <1>1, <2>1, <2>2 DEF RowInv, Transitional, Terminal
  <2>5. r \in Rows /\ Forward(s, r)
    <3>1. CASE r = End(ses[s], "failed", "stuck") \/ r = End(ses[s], "stopped", ses[s].error)
      BY <1>1, <2>1, <2>4, <3>1, EndFacts
    <3>2. CASE r = [ses[s] EXCEPT !.status = "running", !.ran = TRUE]
      BY <2>1, <2>4, <3>2, StatusFacts
    <3>3. CASE r = ses[s]
      <4>1. Forward(s, ses[s])
        BY <2>1, <2>4, StatusFacts
      <4>. QED
        BY <1>1, <3>3, <4>1
    <3>. QED
      BY <2>3, <3>1, <3>2, <3>3 DEF Recovered
  <2>6. Moved
    BY <1>3, <2>3, <2>5
  <2>. QED
    BY <2>1, <2>4, <2>6 DEF Kept, Moved
<1>. QED
  BY <1>4, <1>5, <1>6, <1>7, <1>8, <1>9 DEF RowAction

\* The steps of the specification.
LEMMA Steps ==
  ASSUME [Next]_vars
  PROVE  \/ \E s \in Sessions :
              \/ RowAction(s)
              \/ recovering = {} /\ (CreateSession(s) \/ failSession(s) \/ RecordFinalCost(s))
              \/ RecordHourlyForSession(s)
         \/ runAggregation \/ (Crash /\ recovering = {}) \/ Tick \/ UNCHANGED vars
BY DEF Next, Session, Bill, RowAction

-----------------------------------------------------------------------------
(* Types and rows                                                          *)

\* A row moved on keeps the rows in time.
LEMMA RowForward ==
  ASSUME Base, NEW s \in Sessions, NEW r \in Rows, Forward(s, r), ses'[s] = r,
         UNCHANGED <<now, pass>>, vf'[s] = vf[s] \/ vf'[s] = "none"
  PROVE  RowInv(s)'
<1>1. /\ RowInv(s) /\ now \in Nat /\ ses[s].created \in Nat /\ ses[s].ran \in BOOLEAN
      /\ r.ran \in BOOLEAN
  BY Types, RowFields DEF Base
<1>2. r.created <= now /\ (Ended(r) => r.created <= r.stopped /\ r.stopped <= now)
  BY <1>1 DEF RowInv, Forward
<1>3. vf'[s] # "none" => ~r.ran
  BY <1>1 DEF RowInv, Forward
<1>. QED
  BY <1>1, <1>2, <1>3 DEF RowInv, Forward

\* A row that is left alone stays in time.
LEMMA RowKept ==
  ASSUME Base, TypeOK', NEW d \in Sessions, ses'[d] = ses[d], now <= now',
         vf'[d] = vf[d] \/ vf'[d] = "none", d \in pass' => ses[d].ran,
         d \in recovering' => d \in recovering
  PROVE  RowInv(d)'
<1>1. /\ RowInv(d) /\ now \in Nat /\ now' \in Nat
      /\ ses[d].created \in Nat /\ ses[d].stopped \in Nat
  BY Types, RowFields DEF Base, TypeOK
<1>. QED
  BY <1>1 DEF RowInv, Ended

LEMMA BaseStep ==
  ASSUME Base, [Next]_vars
  PROVE  Base'
<1>1. /\ TypeOK /\ now \in 0..MaxTime /\ now \in Nat /\ ses \in [Sessions -> Rows]
      /\ vf \in [Sessions -> {"none", "poll", "failing"}]
      /\ stopping \subseteq Existing /\ recovering \subseteq Existing
      /\ costs \in [Sessions \X Hours -> Nat] /\ pass \subseteq Sessions
      /\ final \in [Sessions -> SUBSET Hours] /\ faults \in 0..MaxFaults
      /\ crashed \in BOOLEAN /\ MaxTime \in Nat /\ MaxFaults \in Nat
      /\ \A d \in Sessions : RowInv(d)
  BY Types DEF Base
<1>2. Fault => faults' \in 0..MaxFaults
  BY <1>1 DEF Fault
<1>3. \A d \in Sessions, h \in Hours : Record(costs, d, h) \in [Sessions \X Hours -> Nat]
  BY <1>1 DEF Record
<1>4. \A d \in pass : ses[d].ran
  BY <1>1 DEF RowInv
<1>5. ASSUME NEW s \in Sessions, RowAction(s)
      PROVE  Base'
  <2>1. /\ UNCHANGED <<now, costs, pass, crashed>>
        /\ stopping' \subseteq stopping \cup {s} /\ recovering' \subseteq recovering
        /\ vf' = vf \/ vf' = [vf EXCEPT ![s] = "none"]
        /\ storeFailed(s) \/ final' = final
        /\ ses[s].status # "absent"
        /\ \/ Fault /\ ses' = ses
           \/ /\ faults' = faults
              /\ \E r \in Rows : ses' = [ses EXCEPT ![s] = r] /\ Forward(s, r)
    BY <1>5, RowMoves
  <2>2. final' \in [Sessions -> SUBSET Hours]
    <3>1. CASE final' = final
      BY <1>1, <3>1
    <3>2. CASE storeFailed(s)
      <4> DEFINE H == HoursOf(ses[s].created, now)
      <4>1. H \in SUBSET Hours
        <5>1. ses[s].created \in 0..MaxTime /\ MaxTime \in 0..MaxTime
          BY <1>1, RowFields
        <5>2. HourOf(ses[s].created) \in Nat /\ HourOf(now) \in Hours /\ HourOf(MaxTime) \in Nat
          BY <1>1, <5>1, HourFacts
        <5>. QED
          BY <5>2 DEF HoursOf, Hours
      <4>2. final' = [final EXCEPT ![s] = H]
        BY <3>2 DEF storeFailed
      <4> HIDE DEF H
      <4>. QED
        BY <1>1, <4>1, <4>2
    <3>. QED
      BY <2>1, <3>1, <3>2
  <2>3. /\ vf' \in [Sessions -> {"none", "poll", "failing"}]
        /\ \A d \in Sessions : vf'[d] = vf[d] \/ vf'[d] = "none"
    BY <1>1, <2>1
  <2>4. CASE Fault /\ ses' = ses
    <3>1. Existing' = Existing /\ s \in Existing
      BY <2>1, <2>4 DEF Existing
    <3>2. TypeOK'
      BY <1>1, <1>2, <2>1, <2>2, <2>3, <2>4, <3>1 DEF TypeOK
    <3>3. ASSUME NEW d \in Sessions PROVE RowInv(d)'
      BY <1>1, <1>4, <2>1, <2>3, <2>4, <3>2, RowKept
    <3>. QED
      BY <3>2, <3>3 DEF Base
  <2>5. CASE faults' = faults /\ \E r \in Rows : ses' = [ses EXCEPT ![s] = r] /\ Forward(s, r)
    <3>1. PICK r \in Rows : ses' = [ses EXCEPT ![s] = r] /\ Forward(s, r)
      BY <2>5
    <3>2. /\ ses' \in [Sessions -> Rows] /\ ses'[s] = r
          /\ \A d \in Sessions \ {s} : ses'[d] = ses[d]
      BY <1>1, <3>1
    <3>3. Existing' = Existing /\ s \in Existing
      BY <2>1, <3>1, <3>2 DEF Existing, Forward
    <3>4. TypeOK'
      BY <1>1, <2>1, <2>2, <2>3, <2>5, <3>2, <3>3 DEF TypeOK
    <3>5. RowInv(s)'
      BY <2>1, <2>3, <3>1, <3>2, RowForward
    <3>6. ASSUME NEW d \in Sessions \ {s} PROVE RowInv(d)'
      BY <1>1, <1>4, <2>1, <2>3, <3>2, <3>4, <3>6, RowKept
    <3>. QED
      BY <3>4, <3>5, <3>6 DEF Base
  <2>. QED
    BY <2>1, <2>4, <2>5
<1>6. ASSUME NEW s \in Sessions, CreateSession(s), recovering = {}
      PROVE  Base'
  <2> DEFINE r == [ses[s] EXCEPT !.status = "provisioning", !.created = now]
  <2>1. /\ ses[s].status = "absent" /\ ses' = [ses EXCEPT ![s] = r]
        /\ vf' = [vf EXCEPT ![s] = "poll"]
        /\ UNCHANGED <<now, stopping, recovering, costs, pass, final, faults, crashed>>
    BY <1>6 DEF CreateSession, billVars
  <2>2. /\ r \in Rows /\ r.status = "provisioning" /\ r.created = now
        /\ r.ran = ses[s].ran
    BY <1>1 DEF Rows, Transitional
  <2> HIDE DEF r
  <2>3. /\ ses' \in [Sessions -> Rows] /\ ses'[s] = r
        /\ vf' \in [Sessions -> {"none", "poll", "failing"}]
        /\ \A d \in Sessions \ {s} : ses'[d] = ses[d] /\ vf'[d] = vf[d]
    BY <1>1, <2>1, <2>2
  <2>4. Existing \subseteq Existing'
    BY <2>2, <2>3 DEF Existing
  <2>5. TypeOK'
    BY <1>1, <2>1, <2>3, <2>4 DEF TypeOK
  <2>6. RowInv(s)'
    <3>1. ~ses[s].ran
      BY <1>1, <2>1 DEF RowInv
    <3>2. s \notin pass
      BY <1>4, <3>1
    <3>. QED
      BY <1>1, <1>6, <2>1, <2>2, <2>3, <3>1, <3>2 DEF RowInv, Ended, Terminal
  <2>7. ASSUME NEW d \in Sessions \ {s} PROVE RowInv(d)'
    BY <1>1, <1>4, <2>1, <2>3, <2>5, <2>7, RowKept
  <2>. QED
    BY <2>5, <2>6, <2>7 DEF Base
<1>7. ASSUME NEW s \in Sessions, failSession(s)
      PROVE  Base'
  <2>1. /\ vf[s] = "poll" /\ vf' = [vf EXCEPT ![s] = "failing"]
        /\ UNCHANGED <<now, ses, stopping, recovering, costs, pass, final, faults, crashed>>
    BY <1>7 DEF failSession, billVars
  <2>2. TypeOK'
    BY <1>1, <2>1 DEF TypeOK, Existing
  <2>3. RowInv(s)'
    BY <1>1, <2>1 DEF RowInv, Ended
  <2>4. ASSUME NEW d \in Sessions \ {s} PROVE RowInv(d)'
    BY <1>1, <1>4, <2>1, <2>2, <2>4, RowKept
  <2>. QED
    BY <2>2, <2>3, <2>4 DEF Base
<1>8. ASSUME UNCHANGED <<ses, vf, stopping, recovering>>, TypeOK', now <= now',
             \A d \in Sessions : d \in pass' => ses[d].ran
      PROVE  Base'
  BY <1>1, <1>8, RowKept DEF Base
<1>9. ASSUME NEW s \in Sessions, RecordFinalCost(s)
      PROVE  Base'
  <2>1. UNCHANGED <<now, ses, vf, stopping, recovering, pass, crashed>> /\ Existing' = Existing
    BY <1>9 DEF RecordFinalCost, sesVars, Existing
  <2>2. CASE \E h \in final[s] : /\ costs' = Record(costs, s, h)
                                 /\ final' = [final EXCEPT ![s] = @ \ {h}]
                                 /\ UNCHANGED faults
    <3>1. PICK h \in final[s] : /\ costs' = Record(costs, s, h)
                                /\ final' = [final EXCEPT ![s] = @ \ {h}]
                                /\ UNCHANGED faults
      BY <2>2
    <3>2. h \in Hours /\ final' \in [Sessions -> SUBSET Hours]
      BY <1>1, <3>1
    <3>3. TypeOK'
      BY <1>1, <1>3, <2>1, <3>1, <3>2 DEF TypeOK
    <3>. QED
      BY <1>1, <1>4, <1>8, <2>1, <3>3
  <2>3. CASE Fault /\ final' = [final EXCEPT ![s] = {}] /\ UNCHANGED costs
    <3>1. TypeOK'
      BY <1>1, <1>2, <2>1, <2>3 DEF TypeOK
    <3>. QED
      BY <1>1, <1>4, <1>8, <2>1, <3>1
  <2>. QED
    BY <1>9, <2>2, <2>3 DEF RecordFinalCost
<1>10. ASSUME NEW s \in Sessions, RecordHourlyForSession(s)
       PROVE  Base'
  <2>1. /\ UNCHANGED <<now, ses, vf, stopping, recovering, final, crashed>>
        /\ pass' \subseteq pass /\ Existing' = Existing
    BY <1>10 DEF RecordHourlyForSession, sesVars, Existing
  <2>2. HourOf(now) \in Hours
    BY <1>1, HourFacts
  <2>3. costs' \in [Sessions \X Hours -> Nat] /\ faults' \in 0..MaxFaults
    BY <1>1, <1>2, <1>3, <1>10, <2>2 DEF RecordHourlyForSession
  <2>4. TypeOK'
    BY <1>1, <2>1, <2>3 DEF TypeOK
  <2>. QED
    BY <1>1, <1>4, <1>8, <2>1, <2>4
<1>11. CASE runAggregation
  <2>1. /\ UNCHANGED <<now, ses, vf, stopping, recovering, costs, final, faults, crashed>>
        /\ pass' = {s \in Sessions : ses[s].status = "running"} /\ Existing' = Existing
    BY <1>11 DEF runAggregation, sesVars, Existing
  <2>2. TypeOK'
    BY <1>1, <2>1 DEF TypeOK
  <2>3. \A d \in Sessions : d \in pass' => ses[d].ran
    BY <1>1, <2>1 DEF RowInv
  <2>. QED
    BY <1>1, <1>8, <2>1, <2>2, <2>3
<1>12. CASE Crash /\ recovering = {}
  <2>1. /\ vf' = [s \in Sessions |-> "none"] /\ stopping' = {} /\ pass' = {}
        /\ recovering' = {s \in Sessions : ses[s].status \in Transitional}
        /\ final' = [s \in Sessions |-> {}] /\ crashed' = TRUE
        /\ UNCHANGED <<now, ses, costs, faults>> /\ Existing' = Existing
    BY <1>12 DEF Crash, Existing
  <2>2. recovering' \subseteq Existing
    BY <2>1 DEF Existing, Transitional
  <2>3. TypeOK'
    <3>1. /\ final' \in [Sessions -> SUBSET Hours]
          /\ vf' \in [Sessions -> {"none", "poll", "failing"}]
      BY <2>1
    <3>. QED
      BY <1>1, <2>1, <2>2, <3>1 DEF TypeOK
  <2>4. ASSUME NEW d \in Sessions PROVE RowInv(d)'
    BY <1>1, <2>1, <2>4 DEF RowInv, Ended
  <2>. QED
    BY <2>3, <2>4 DEF Base
<1>13. CASE Tick
  <2>1. /\ UNCHANGED <<ses, vf, stopping, recovering, costs, pass, final, faults, crashed>>
        /\ now' \in 0..MaxTime /\ now <= now' /\ Existing' = Existing
    BY <1>1, <1>13 DEF Tick, sesVars, billVars, Existing
  <2>2. TypeOK'
    BY <1>1, <2>1 DEF TypeOK
  <2>. QED
    BY <1>4, <1>8, <2>1, <2>2
<1>14. CASE UNCHANGED vars
  <2>1. TypeOK' /\ UNCHANGED <<now, ses, vf, stopping, recovering, pass>>
    BY <1>1, <1>14 DEF vars, TypeOK, Existing
  <2>. QED
    BY <1>1, <1>4, <1>8, <2>1
<1>. QED
  BY <1>5, <1>6, <1>7, <1>9, <1>10, <1>11, <1>12, <1>13, <1>14, Steps

-----------------------------------------------------------------------------
(* The bill                                                                *)

LEMMA BillKept ==
  ASSUME TypeOK, TypeOK', NEW d \in Sessions, BillInv(d), ses'[d] = ses[d], now <= now',
         \A h \in Hours : costs'[<<d, h>>] = costs[<<d, h>>], final'[d] \subseteq final[d],
         Ended(ses[d]) /\ d \notin pass => d \notin pass'
  PROVE  BillInv(d)'
<1>1. now \in 0..MaxTime /\ now' \in 0..MaxTime /\ ses[d] \in Rows
  BY Types DEF TypeOK
<1>2. Life(ses[d], now) \subseteq Life(ses'[d], now')
  BY <1>1, LifeFacts
<1>3. PICK late \in Hours : \A h \in Hours :
        costs[<<d, h>>] = 1 => \/ h \in Life(ses[d], now)
                               \/ Ended(ses[d]) /\ d \notin pass /\ h = late
  BY DEF BillInv
<1>4. \A h \in Hours :
        costs'[<<d, h>>] = 1 => \/ h \in Life(ses'[d], now')
                                \/ Ended(ses'[d]) /\ d \notin pass' /\ h = late
  <2>1. SUFFICES ASSUME NEW h \in Hours, costs'[<<d, h>>] = 1
                 PROVE  \/ h \in Life(ses'[d], now')
                        \/ Ended(ses'[d]) /\ d \notin pass' /\ h = late
    OBVIOUS
  <2>2. costs[<<d, h>>] = 1
    BY <2>1
  <2>. QED
    BY <1>2, <1>3, <2>2
<1>. QED
  BY <1>2, <1>4 DEF BillInv

LEMMA PaidKept ==
  ASSUME NEW d \in Sessions, PaidInv(d), ses'[d] = ses[d],
         \A h \in Hours : (costs[<<d, h>>] > 0 \/ h \in final[d]) =>
                            (costs'[<<d, h>>] > 0 \/ h \in final'[d]),
         TypeOK, TypeOK'
  PROVE  PaidInv(d)'
<1>1. SUFFICES ASSUME ses[d].status = "failed" PROVE PaidInv(d)'
  BY DEF PaidInv
<1>2. now \in 0..MaxTime /\ ses[d] \in Rows /\ now \in Nat
  BY Types DEF TypeOK
<1>3. Life(ses'[d], now') = Life(ses[d], now)
  BY <1>1 DEF Life, Ended, Terminal
<1>4. Life(ses[d], now) \subseteq Hours
  BY <1>2, LifeFacts
<1>. QED
  BY <1>1, <1>3, <1>4 DEF PaidInv

\* A row moved on lives as long as before, at least.
LEMMA LifeForward ==
  ASSUME Base, NEW s \in Sessions, NEW r \in Rows, Forward(s, r)
  PROVE  Life(ses[s], now) \subseteq Life(r, now)
<1>1. /\ RowInv(s) /\ ses[s] \in Rows /\ now \in 0..MaxTime
      /\ ses[s].created \in 0..MaxTime /\ ses[s].stopped \in 0..MaxTime
  BY Types, RowFields DEF Base
<1>2. CASE ~Ended(r)
  BY <1>2 DEF Life, Forward
<1>3. CASE Ended(r)
  <2> DEFINE e == IF Ended(ses[s]) THEN ses[s].stopped ELSE now
  <2>1. e \in 0..MaxTime /\ e <= now
    BY <1>1 DEF RowInv
  <2>2. /\ HourOf(e) \in Nat /\ HourOf(now) \in Nat /\ HourOf(e) <= HourOf(now)
        /\ HourOf(ses[s].created) \in Nat
    BY <1>1, <2>1, HourFacts
  <2>3. Life(r, now) = HourOf(ses[s].created)..HourOf(now)
    BY <1>3 DEF Life, Forward
  <2>4. Life(ses[s], now) = HourOf(ses[s].created)..HourOf(e)
    BY DEF Life
  <2> HIDE DEF e
  <2>. QED
    BY <2>2, <2>3, <2>4
<1>. QED
  BY <1>2, <1>3

LEMMA RecordFacts ==
  ASSUME NEW s \in Sessions, NEW h \in Hours, TypeOK, costs' = Record(costs, s, h)
  PROVE  /\ costs'[<<s, h>>] = 1
         /\ \A g \in Hours : g # h => costs'[<<s, g>>] = costs[<<s, g>>]
         /\ \A d \in Sessions \ {s}, g \in Hours : costs'[<<d, g>>] = costs[<<d, g>>]
<1>1. costs \in [Sessions \X Hours -> Nat]
  BY Types
<1>. QED
  BY <1>1 DEF Record

\* A statement that fails is counted.
LEMMA NoFaults ==
  ASSUME Base, [Next]_vars, faults' = 0
  PROVE  faults = 0 /\ ~Fault
<1>1. faults \in Nat
  BY Types DEF Base
<1>2. ~Fault
  BY <1>1 DEF Fault
<1>3. ASSUME NEW s \in Sessions, RowAction(s) PROVE faults' = faults
  BY <1>2, <1>3, RowMoves
<1>4. faults' = faults
  BY <1>2, <1>3, Steps DEF vars, CreateSession, failSession, RecordFinalCost, runAggregation,
     RecordHourlyForSession, Crash, Tick
<1>. QED
  BY <1>2, <1>4

LEMMA BoundedStep ==
  ASSUME Base, Bounded, [Next]_vars
  PROVE  Bounded'
<1>1. SUFFICES ASSUME faults' = 0 PROVE \A d \in Sessions : BillInv(d)'
  BY DEF Bounded
<1>2. TypeOK /\ TypeOK'
  BY BaseStep DEF Base
<1>3. faults = 0 /\ ~Fault
  BY <1>1, NoFaults
<1>4. /\ now \in 0..MaxTime /\ now' \in 0..MaxTime /\ now \in Nat
      /\ ses \in [Sessions -> Rows] /\ final \in [Sessions -> SUBSET Hours]
      /\ \A d \in Sessions : BillInv(d) /\ RowInv(d) /\ ses[d] \in Rows
      /\ HourOf(now) \in Hours
  BY <1>2, <1>3, Types, HourFacts DEF Base, Bounded, TypeOK
<1>5. ASSUME NEW s \in Sessions, NEW r \in Rows, ses' = [ses EXCEPT ![s] = r],
             UNCHANGED <<now, costs, pass>>,
             \A d \in Sessions \ {s} : final'[d] = final[d],
             BillInv(s)'
      PROVE  \A d \in Sessions : BillInv(d)'
  <2>1. ASSUME NEW d \in Sessions \ {s} PROVE BillInv(d)'
    BY <1>2, <1>4, <1>5, <2>1, BillKept
  <2>. QED
    BY <1>5, <2>1
<1>6. ASSUME ses' = ses, now <= now', costs' = costs,
             \A d \in Sessions : final'[d] \subseteq final[d],
             \A d \in Sessions : Ended(ses[d]) /\ d \notin pass => d \notin pass'
      PROVE  \A d \in Sessions : BillInv(d)'
  <2>1. ASSUME NEW d \in Sessions PROVE BillInv(d)'
    BY <1>2, <1>4, <1>6, <2>1, BillKept
  <2>. QED
    BY <2>1
<1>7. ASSUME NEW s \in Sessions, CreateSession(s)
      PROVE  \A d \in Sessions : BillInv(d)'
  <2> DEFINE r == [ses[s] EXCEPT !.status = "provisioning", !.created = now]
  <2>1. /\ ses[s].status = "absent" /\ ses' = [ses EXCEPT ![s] = r]
        /\ UNCHANGED <<now, costs, pass, final>>
    BY <1>7 DEF CreateSession, billVars
  <2>2. r \in Rows /\ r.status = "provisioning"
    BY <1>4 DEF Rows, Transitional
  <2> HIDE DEF r
  <2>3. final[s] = {} /\ \A h \in Hours : costs[<<s, h>>] = 0
    BY <1>4, <2>1 DEF BillInv
  <2>4. BillInv(s)'
    BY <1>4, <2>1, <2>2, <2>3 DEF BillInv
  <2>. QED
    BY <1>5, <2>1, <2>2, <2>4
<1>8. ASSUME NEW s \in Sessions, RowAction(s)
      PROVE  \A d \in Sessions : BillInv(d)'
  <2>1. /\ UNCHANGED <<now, costs, pass>> /\ (storeFailed(s) \/ final' = final)
        /\ \E r \in Rows : ses' = [ses EXCEPT ![s] = r] /\ Forward(s, r)
    BY <1>3, <1>8, RowMoves
  <2>2. PICK r \in Rows : ses' = [ses EXCEPT ![s] = r] /\ Forward(s, r)
    BY <2>1
  <2>3. ses'[s] = r /\ Life(ses[s], now) \subseteq Life(r, now)
    BY <1>4, <2>2, LifeForward
  <2>4. /\ final'[s] \subseteq Life(r, now)
        /\ \A d \in Sessions \ {s} : final'[d] = final[d]
    <3>1. CASE final' = final
      BY <1>4, <2>3, <3>1 DEF BillInv
    <3>2. CASE storeFailed(s)
      <4>1. /\ final' = [final EXCEPT ![s] = HoursOf(ses[s].created, now)]
            /\ Update(s, End(ses[s], "failed", "fail"))
        BY <3>2 DEF storeFailed
      <4>2. r = End(ses[s], "failed", "fail")
        BY <1>3, <1>4, <2>2, <4>1 DEF Update
      <4>3. HoursOf(ses[s].created, now) \subseteq Life(r, now)
        <5>1. r.created = ses[s].created /\ Ended(r) /\ r.stopped = now
          BY <1>4, <4>2 DEF End, Ended, Terminal, Rows
        <5>. QED
          BY <5>1 DEF HoursOf, Life
      <4>. QED
        BY <1>4, <4>1, <4>3
    <3>. QED
      BY <2>1, <3>1, <3>2
  <2>5. PICK late \in Hours : \A h \in Hours :
          costs[<<s, h>>] = 1 => \/ h \in Life(ses[s], now)
                                 \/ Ended(ses[s]) /\ s \notin pass /\ h = late
    BY <1>4 DEF BillInv
  <2>6. \A h \in Hours :
          costs'[<<s, h>>] = 1 => \/ h \in Life(r, now)
                                  \/ Ended(r) /\ s \notin pass' /\ h = late
    BY <2>1, <2>2, <2>3, <2>5 DEF Forward
  <2>7. BillInv(s)'
    <3>1. r.status # "absent" /\ now' = now /\ costs' = costs
      BY <2>1, <2>2 DEF Forward
    <3>2. \A h \in Hours : costs'[<<s, h>>] \in {0, 1}
      BY <1>4, <3>1 DEF BillInv
    <3>. QED
      BY <2>3, <2>4, <2>6, <3>1, <3>2 DEF BillInv
  <2>. QED
    BY <1>5, <2>1, <2>2, <2>4, <2>7
<1>10. ASSUME NEW s \in Sessions, RecordFinalCost(s)
       PROVE  \A d \in Sessions : BillInv(d)'
  <2>1. PICK h \in final[s] : /\ costs' = Record(costs, s, h)
                              /\ final' = [final EXCEPT ![s] = @ \ {h}]
    BY <1>3, <1>10 DEF RecordFinalCost
  <2>2. UNCHANGED <<now, ses, pass>>
    BY <1>10 DEF RecordFinalCost, sesVars
  <2>3. /\ h \in Hours /\ final'[s] \subseteq final[s]
        /\ \A d \in Sessions \ {s} : final'[d] = final[d]
    BY <1>4, <2>1
  <2>4. ses[s].status # "absent" /\ h \in Life(ses[s], now)
    BY <1>4, <2>1 DEF BillInv
  <2>5. /\ costs'[<<s, h>>] = 1
        /\ \A g \in Hours : g # h => costs'[<<s, g>>] = costs[<<s, g>>]
        /\ \A d \in Sessions \ {s}, g \in Hours : costs'[<<d, g>>] = costs[<<d, g>>]
    BY <1>2, <2>1, <2>3, RecordFacts
  <2>6. BillInv(s)'
    <3>1. \A g \in Hours : costs'[<<s, g>>] \in {0, 1}
      BY <1>4, <2>5 DEF BillInv
    <3>2. PICK late \in Hours : \A g \in Hours :
            costs[<<s, g>>] = 1 => \/ g \in Life(ses[s], now)
                                   \/ Ended(ses[s]) /\ s \notin pass /\ g = late
      BY <1>4 DEF BillInv
    <3>3. \A g \in Hours :
            costs'[<<s, g>>] = 1 => \/ g \in Life(ses[s], now)
                                    \/ Ended(ses[s]) /\ s \notin pass /\ g = late
      BY <2>4, <2>5, <3>2
    <3>4. final'[s] \subseteq Life(ses[s], now)
      BY <1>4, <2>3 DEF BillInv
    <3>. QED
      BY <1>4, <2>2, <2>4, <3>1, <3>3, <3>4 DEF BillInv
  <2>7. ASSUME NEW d \in Sessions \ {s} PROVE BillInv(d)'
    BY <1>2, <1>4, <2>2, <2>3, <2>5, <2>7, BillKept
  <2>. QED
    BY <2>6, <2>7
<1>11. ASSUME NEW s \in Sessions, RecordHourlyForSession(s)
       PROVE  \A d \in Sessions : BillInv(d)'
  <2> DEFINE h == HourOf(now)
  <2>1. /\ s \in pass /\ pass' = pass \ {s} /\ UNCHANGED <<now, ses, final>>
        /\ costs' = Record(costs, s, h)
    BY <1>3, <1>11 DEF RecordHourlyForSession, sesVars
  <2>2. h \in Hours
    BY <1>4
  <2> HIDE DEF h
  <2>3. /\ costs'[<<s, h>>] = 1
        /\ \A g \in Hours : g # h => costs'[<<s, g>>] = costs[<<s, g>>]
        /\ \A d \in Sessions \ {s}, g \in Hours : costs'[<<d, g>>] = costs[<<d, g>>]
    BY <1>2, <2>1, <2>2, RecordFacts
  <2>4. ses[s].status # "absent" /\ ses[s].created <= now
    BY <1>4, <2>1 DEF RowInv
  <2>5. \A g \in Hours : costs[<<s, g>>] = 1 => g \in Life(ses[s], now)
    BY <1>4, <2>1 DEF BillInv
  <2>6. ~Ended(ses[s]) => h \in Life(ses[s], now)
    <3>1. ses[s].created \in 0..MaxTime
      BY <1>4, RowFields
    <3>2. HourOf(ses[s].created) \in Nat /\ h \in Nat /\ HourOf(ses[s].created) <= h
      BY <1>4, <2>4, <3>1, HourFacts DEF h
    <3>. QED
      BY <3>2 DEF Life, h
  <2>7. BillInv(s)'
    <3>1. \A g \in Hours : costs'[<<s, g>>] \in {0, 1}
      BY <1>4, <2>3 DEF BillInv
    <3>2. s \notin pass'
      BY <2>1
    <3>3. \A g \in Hours : costs'[<<s, g>>] = 1 =>
            \/ g \in Life(ses[s], now)
            \/ Ended(ses[s]) /\ s \notin pass' /\ g = h
      BY <2>3, <2>4, <2>5, <2>6, <3>2
    <3>. QED
      BY <1>4, <2>1, <2>2, <2>4, <3>1, <3>3 DEF BillInv
  <2>8. ASSUME NEW d \in Sessions \ {s} PROVE BillInv(d)'
    BY <1>2, <1>4, <2>1, <2>3, <2>8, BillKept
  <2>. QED
    BY <2>7, <2>8
<1>12. CASE runAggregation
  <2>1. \A d \in Sessions : Ended(ses[d]) => d \notin pass'
    BY <1>12 DEF runAggregation, Ended, Terminal
  <2>2. ses' = ses /\ now' = now /\ costs' = costs /\ final' = final
    BY <1>12 DEF runAggregation, sesVars
  <2>. QED
    BY <1>4, <1>6, <2>1, <2>2
<1>13. ASSUME NEW s \in Sessions, failSession(s)
       PROVE  \A d \in Sessions : BillInv(d)'
  BY <1>4, <1>6, <1>13 DEF failSession, billVars
<1>14. CASE Crash
  BY <1>4, <1>6, <1>14 DEF Crash
<1>15. CASE Tick \/ UNCHANGED vars
  <2>1. /\ ses' = ses /\ now <= now' /\ costs' = costs /\ final' = final /\ pass' = pass
    BY <1>4, <1>15 DEF Tick, vars, sesVars, billVars
  <2>. QED
    BY <1>6, <2>1
<1>. QED
  BY <1>7, <1>8, <1>10, <1>11, <1>12, <1>13, <1>14, <1>15, Steps

LEMMA PaidStep ==
  ASSUME Base, Paid, [Next]_vars
  PROVE  Paid'
<1>1. SUFFICES ASSUME faults' = 0, ~crashed' PROVE \A d \in Sessions : PaidInv(d)'
  BY DEF Paid
<1>2. TypeOK /\ TypeOK'
  BY BaseStep DEF Base
<1>3. faults = 0 /\ ~Fault
  BY <1>1, NoFaults
<1>4. ~crashed /\ ~Crash
  <2>1. ~Crash
    BY <1>1 DEF Crash
  <2>2. ASSUME NEW s \in Sessions, RowAction(s) PROVE crashed' = crashed
    BY <2>2, RowMoves
  <2>3. crashed' = crashed
    BY <2>1, <2>2, Steps DEF vars, CreateSession, failSession, RecordFinalCost, runAggregation,
       RecordHourlyForSession, Tick
  <2>. QED
    BY <1>1, <2>1, <2>3
<1>5. /\ ses \in [Sessions -> Rows] /\ final \in [Sessions -> SUBSET Hours]
      /\ now \in 0..MaxTime /\ now \in Nat
      /\ \A d \in Sessions : PaidInv(d) /\ RowInv(d) /\ ses[d] \in Rows
      /\ HourOf(now) \in Hours
  BY <1>2, <1>3, <1>4, Types, HourFacts DEF Base, Paid
<1>6. ASSUME NEW s \in Sessions, NEW r \in Rows, ses' = [ses EXCEPT ![s] = r],
             UNCHANGED costs, \A d \in Sessions \ {s} : final'[d] = final[d], PaidInv(s)'
      PROVE  \A d \in Sessions : PaidInv(d)'
  <2>1. ASSUME NEW d \in Sessions \ {s} PROVE PaidInv(d)'
    BY <1>2, <1>5, <1>6, <2>1, PaidKept
  <2>. QED
    BY <1>6, <2>1
<1>7. ASSUME UNCHANGED <<ses, costs, final>>
      PROVE  \A d \in Sessions : PaidInv(d)'
  <2>1. ASSUME NEW d \in Sessions PROVE PaidInv(d)'
    BY <1>2, <1>5, <1>7, <2>1, PaidKept
  <2>. QED
    BY <2>1
<1>8. ASSUME NEW s \in Sessions, NEW r \in Rows, ses' = [ses EXCEPT ![s] = r],
             UNCHANGED <<costs, final>>, r.status # "failed" \/ r.error # "fail"
      PROVE  \A d \in Sessions : PaidInv(d)'
  <2>1. PaidInv(s)'
    BY <1>5, <1>8 DEF PaidInv
  <2>. QED
    BY <1>6, <1>8, <2>1
<1>9. ASSUME NEW s \in Sessions, RowAction(s)
      PROVE  \A d \in Sessions : PaidInv(d)'
  <2>1. /\ UNCHANGED <<now, costs>> /\ (storeFailed(s) \/ final' = final)
        /\ \E r \in Rows : ses' = [ses EXCEPT ![s] = r] /\ Forward(s, r)
    BY <1>3, <1>9, RowMoves
  <2>2. PICK r \in Rows : ses' = [ses EXCEPT ![s] = r] /\ Forward(s, r)
    BY <2>1
  <2>3. ses'[s] = r
    BY <1>5, <2>2
  <2>4. CASE storeFailed(s)
    <3>1. /\ final' = [final EXCEPT ![s] = HoursOf(ses[s].created, now)]
          /\ Update(s, End(ses[s], "failed", "fail"))
      BY <2>4 DEF storeFailed
    <3>2. r = End(ses[s], "failed", "fail")
      BY <1>3, <1>5, <2>2, <3>1 DEF Update
    <3>3. /\ final'[s] = HoursOf(ses[s].created, now)
          /\ \A d \in Sessions \ {s} : final'[d] = final[d]
      BY <1>5, <3>1
    <3>4. ses[s].created \in Nat /\ ses[s].created <= now
      BY <1>5, RowFields DEF RowInv
    <3>5. r.created = ses[s].created /\ Ended(r) /\ r.stopped = now
      BY <1>5, <3>2 DEF End, Ended, Terminal, Rows
    <3>6. r.stopped = r.created \/ \A h \in Life(r, now') : h \in final'[s]
      BY <1>5, <3>3, <3>4, <3>5 DEF Life, HoursOf
    <3>7. PaidInv(s)'
      BY <2>3, <3>6 DEF PaidInv
    <3>. QED
      BY <1>6, <2>1, <2>2, <3>3, <3>7
  <2>5. CASE ~storeFailed(s)
    <3>1. final' = final
      BY <2>1, <2>5
    <3>2. r.status # "failed" \/ r.error # "fail"
      <4>1. ses[s] \in Rows /\ ~Fault /\ RowInv(s)
        BY <1>3, <1>5
      <4>2. CASE VerifySucceeds(s)
        <5>1. ses' = [ses EXCEPT ![s] = [ses[s] EXCEPT !.status = "running", !.ran = TRUE]]
          BY <4>1, <4>2 DEF VerifySucceeds, Update
        <5>2. r = [ses[s] EXCEPT !.status = "running", !.ran = TRUE]
          BY <1>5, <2>3, <5>1
        <5>. QED
          BY <4>1, <5>2 DEF Rows
      <4>3. CASE DestroySession(s)
        BY <2>3, <4>1, <4>3, <1>5 DEF DestroySession, Update, Rows
      <4>4. CASE DestroyFinishes(s)
        BY <2>3, <4>1, <4>4, <1>5 DEF DestroyFinishes, Update, End, Rows
      <4>5. CASE DestroyFailed(s) \/ handleGhost(s) \/ checkStuckSessions(s)
        <5>1. \E e \in {"none", ses[s].error} :
                \/ ses' = [ses EXCEPT ![s] = End(ses[s], "stopped", e)]
                \/ ses' = [ses EXCEPT ![s] = End(ses[s], "failed", "stuck")]
          BY <4>5 DEF DestroyFailed, handleGhost, checkStuckSessions
        <5>2. \E e \in {"none", ses[s].error} :
                \/ r = End(ses[s], "stopped", e)
                \/ r = End(ses[s], "failed", "stuck")
          BY <1>5, <2>3, <5>1
        <5>. QED
          BY <4>1, <5>2 DEF End, Rows
      <4>6. CASE RecoverStuckSessions(s)
        <5>1. \E q \in Recovered(ses[s]) : ses' = [ses EXCEPT ![s] = q]
          BY <4>1, <4>6 DEF RecoverStuckSessions, Update
        <5>2. r \in Recovered(ses[s])
          BY <1>5, <2>3, <5>1
        <5>3. ses[s].status \in Transitional
          BY <4>1, <4>6 DEF RecoverStuckSessions, RowInv
        <5>. QED
          BY <4>1, <5>2, <5>3 DEF Recovered, End, Rows, Transitional
      <4>. QED
        BY <1>9, <2>5, <4>2, <4>3, <4>4, <4>5, <4>6 DEF RowAction
    <3>. QED
      BY <1>8, <2>1, <2>2, <3>1, <3>2
  <2>. QED
    BY <2>4, <2>5
<1>10. ASSUME NEW s \in Sessions, NEW h \in Hours, costs' = Record(costs, s, h),
              ses' = ses,
              final' = final \/ final' = [final EXCEPT ![s] = @ \ {h}]
       PROVE  \A d \in Sessions : PaidInv(d)'
  <2>1. /\ costs'[<<s, h>>] = 1
        /\ \A g \in Hours : g # h => costs'[<<s, g>>] = costs[<<s, g>>]
        /\ \A d \in Sessions \ {s}, g \in Hours : costs'[<<d, g>>] = costs[<<d, g>>]
    BY <1>2, <1>10, RecordFacts
  <2>2. /\ final[s] \ {h} \subseteq final'[s]
        /\ \A d \in Sessions \ {s} : final'[d] = final[d]
    BY <1>5, <1>10
  <2>3. ASSUME NEW d \in Sessions, NEW g \in Hours, costs[<<d, g>>] > 0 \/ g \in final[d]
        PROVE  costs'[<<d, g>>] > 0 \/ g \in final'[d]
    <3>1. CASE d = s /\ g = h
      BY <2>1, <3>1
    <3>2. CASE d = s /\ g # h
      BY <2>1, <2>2, <2>3, <3>2
    <3>3. CASE d # s
      BY <2>1, <2>2, <2>3, <3>3
    <3>. QED
      BY <3>1, <3>2, <3>3
  <2>4. ASSUME NEW d \in Sessions PROVE PaidInv(d)'
    BY <1>2, <1>5, <1>10, <2>3, <2>4, PaidKept
  <2>. QED
    BY <2>4
<1>11. ASSUME NEW s \in Sessions, RecordFinalCost(s)
       PROVE  \A d \in Sessions : PaidInv(d)'
  <2>1. PICK h \in final[s] : /\ costs' = Record(costs, s, h)
                              /\ final' = [final EXCEPT ![s] = @ \ {h}]
    BY <1>3, <1>11 DEF RecordFinalCost
  <2>2. ses' = ses /\ h \in Hours
    BY <1>5, <1>11, <2>1 DEF RecordFinalCost, sesVars
  <2>. QED
    BY <1>10, <2>1, <2>2
<1>12. ASSUME NEW s \in Sessions, RecordHourlyForSession(s)
       PROVE  \A d \in Sessions : PaidInv(d)'
  <2>1. /\ UNCHANGED <<ses, final>> /\ costs' = Record(costs, s, HourOf(now))
    BY <1>3, <1>12 DEF RecordHourlyForSession, sesVars
  <2>. QED
    BY <1>5, <1>10, <2>1
<1>13. ASSUME NEW s \in Sessions, CreateSession(s)
       PROVE  \A d \in Sessions : PaidInv(d)'
  <2> DEFINE r == [ses[s] EXCEPT !.status = "provisioning", !.created = now]
  <2>1. ses' = [ses EXCEPT ![s] = r] /\ UNCHANGED <<costs, final>>
    BY <1>13 DEF CreateSession, billVars
  <2>2. r \in Rows /\ r.status # "failed"
    BY <1>5 DEF Rows, Transitional
  <2> HIDE DEF r
  <2>. QED
    BY <1>8, <2>1, <2>2
<1>14. ASSUME NEW s \in Sessions, failSession(s)
       PROVE  \A d \in Sessions : PaidInv(d)'
  BY <1>7, <1>14 DEF failSession, billVars
<1>15. CASE runAggregation \/ Tick \/ UNCHANGED vars
  BY <1>7, <1>15 DEF runAggregation, Tick, vars, sesVars, billVars
<1>. QED
  BY <1>4, <1>9, <1>11, <1>12, <1>13, <1>14, <1>15, Steps

-----------------------------------------------------------------------------
(* From rows to amounts                                                    *)

\* With at most one row per hour, a session costs no more than the hours of a
\* set that holds all its rows.
LEMMA CostBound ==
  ASSUME TypeOK, NEW s \in Sessions, \A h \in Hours : costs[<<s, h>>] \in {0, 1},
         NEW S, IsFiniteSet(S), \A h \in Hours : costs[<<s, h>>] = 1 => h \in S
  PROVE  GetSessionCost(s) \in Nat /\ GetSessionCost(s) <= Cardinality(S)
<1> DEFINE U == UNION {{x} \X (1..costs[x]) : x \in {s} \X Hours}
           f == [u \in U |-> u[1][2]]
<1>1. ASSUME NEW u \in U
      PROVE  \E h \in S : u = <<<<s, h>>, 1>>
  <2>1. PICK x \in {s} \X Hours : u \in {x} \X (1..costs[x])
    BY <1>1
  <2>2. PICK h \in Hours : x = <<s, h>>
    BY <2>1
  <2>3. PICK n \in 1..costs[<<s, h>>] : u = <<<<s, h>>, n>>
    BY <2>1, <2>2
  <2>4. costs[<<s, h>>] = 1 /\ n = 1
    BY <2>3
  <2>. QED
    BY <2>3, <2>4
<1> HIDE DEF U
<1>2. f \in [U -> S] /\ \A u, v \in U : f[u] = f[v] => u = v
  BY <1>1
<1>3. f \in Injection(U, S)
  BY <1>2 DEF Injection, IsInjective
<1>4. IsFiniteSet(U) /\ Cardinality(U) <= Cardinality(S)
  BY <1>3, FS_Injection
<1>5. Cardinality(U) \in Nat
  BY <1>4, FS_CardinalityType
<1>. QED
  BY <1>4, <1>5 DEF GetSessionCost, Total, U

LEMMA BoundedMeans ==
  ASSUME Base, Bounded
  PROVE  NeverOverbilled
<1>1. SUFFICES ASSUME faults = 0, NEW s \in Sessions
               PROVE  GetSessionCost(s) <= LivedHours(s) + 1
  BY DEF NeverOverbilled
<1>2. TypeOK /\ BillInv(s) /\ RowInv(s)
  BY <1>1 DEF Base, Bounded
<1> DEFINE r == ses[s]
           e == IF Ended(r) THEN r.stopped ELSE now
           a == HourOf(r.created)
           b == HourOf(e)
<1>3. r \in Rows /\ r.created \in 0..MaxTime /\ r.stopped \in 0..MaxTime /\ now \in 0..MaxTime
  BY <1>2, Types, RowFields
<1>4. e \in 0..MaxTime /\ r.created <= e
  BY <1>2, <1>3 DEF RowInv
<1>5. a \in Nat /\ b \in Nat /\ a <= b
  BY <1>3, <1>4, HourFacts
<1>6. Life(r, now) = a..b /\ LivedHours(s) = b - a + 1
  BY DEF Life, LivedHours, Ended
<1>7. PICK late \in Hours : \A h \in Hours :
        costs[<<s, h>>] = 1 => h \in Life(r, now) \/ h = late
  BY <1>2 DEF BillInv
<1> HIDE DEF a, b
<1>8. IsFiniteSet(a..b) /\ Cardinality(a..b) = b - a + 1
  BY <1>5, FS_Interval
<1> DEFINE S == (a..b) \cup {late}
<1>9. IsFiniteSet(S) /\ Cardinality(S) \in Nat /\ Cardinality(S) <= b - a + 1 + 1
  <2> DEFINE L == a..b
  <2>1. IsFiniteSet(L) /\ Cardinality(L) = b - a + 1
    BY <1>8
  <2> HIDE DEF L
  <2>2. /\ IsFiniteSet(L \cup {late})
        /\ Cardinality(L \cup {late}) = IF late \in L THEN Cardinality(L)
                                        ELSE Cardinality(L) + 1
    BY <2>1, FS_AddElement
  <2>3. Cardinality(L \cup {late}) \in Nat /\ Cardinality(L \cup {late}) <= b - a + 1 + 1
    BY <1>5, <2>1, <2>2
  <2>. QED
    BY <2>2, <2>3 DEF L
<1>10. GetSessionCost(s) \in Nat /\ GetSessionCost(s) <= Cardinality(S)
  <2>1. \A h \in Hours : costs[<<s, h>>] = 1 => h \in S
    BY <1>6, <1>7
  <2>2. \A h \in Hours : costs[<<s, h>>] \in {0, 1}
    BY <1>2 DEF BillInv
  <2> HIDE DEF S
  <2>. QED
    BY <1>2, <1>9, <2>1, <2>2, CostBound
<1> HIDE DEF S
<1>. QED
  BY <1>5, <1>6, <1>9, <1>10

LEMMA PaidMeans ==
  ASSUME Base, Paid
  PROVE  FailedSessionBilled
<1>1. SUFFICES ASSUME NEW s \in Sessions, ses[s].status = "failed",
                      ses[s].error = "fail", final[s] = {}, faults = 0, ~crashed,
                      ses[s].stopped # ses[s].created
               PROVE  \A h \in HourOf(ses[s].created)..HourOf(ses[s].stopped) :
                        costs[<<s, h>>] > 0
  BY DEF FailedSessionBilled
<1>2. PaidInv(s)
  BY <1>1 DEF Paid
<1>3. Life(ses[s], now) = HourOf(ses[s].created)..HourOf(ses[s].stopped)
  BY <1>1 DEF Life, Ended, Terminal
<1>. QED
  BY <1>1, <1>2, <1>3 DEF PaidInv

-----------------------------------------------------------------------------
(* The results                                                             *)

LEMMA Initially ==
  ASSUME Init
  PROVE  Base /\ Bounded /\ Paid
<1>1. TypeOK
  <2>1. 0 \in 0..MaxTime /\ 0 \in 0..MaxFaults
    BY CostAssumption
  <2>2. NoSession \in Rows
    BY <2>1 DEF NoSession, Rows
  <2>3. now \in 0..MaxTime /\ faults \in 0..MaxFaults
    BY <2>1 DEF Init
  <2>4. ses \in [Sessions -> Rows]
    BY <2>2 DEF Init
  <2>5. /\ stopping \subseteq Existing /\ recovering \subseteq Existing
        /\ vf \in [Sessions -> {"none", "poll", "failing"}]
        /\ pass \subseteq Sessions
        /\ final \in [Sessions -> SUBSET Hours]
        /\ crashed \in BOOLEAN
    BY DEF Init
  <2>6. costs \in [Sessions \X Hours -> Nat]
    BY DEF Init
  <2>. QED
    BY <2>3, <2>4, <2>5, <2>6 DEF TypeOK
<1>2. \A s \in Sessions : /\ ses[s].status = "absent" /\ ses[s].created = 0
                          /\ ses[s].ran = FALSE /\ s \notin pass /\ vf[s] = "none"
                          /\ s \notin recovering
  BY DEF Init, NoSession
<1>3. \A s \in Sessions : /\ final[s] = {}
                          /\ \A h \in Hours : costs[<<s, h>>] = 0
  BY DEF Init
<1>4. now = 0 /\ 0 \in Hours
  <2>1. now = 0 /\ now \in 0..MaxTime
    BY <1>1 DEF Init, TypeOK
  <2>2. HourOf(now) \in Hours
    BY <2>1, HourFacts
  <2>3. HourOf(MaxTime) \in Nat
    <3>1. MaxTime \in 0..MaxTime
      BY CostAssumption
    <3>. QED
      BY <3>1, HourFacts
  <2>. QED
    BY <2>1, <2>3 DEF Hours
<1>5. \A s \in Sessions : RowInv(s)
  BY <1>2, <1>4 DEF RowInv, Ended, Terminal
<1>6. \A s \in Sessions : BillInv(s)
  BY <1>3, <1>4 DEF BillInv
<1>7. \A s \in Sessions : PaidInv(s)
  BY <1>2 DEF PaidInv
<1>. QED
  BY <1>1, <1>5, <1>6, <1>7 DEF Base, Bounded, Paid

\* Rows, passes and bills keep their shapes: no hour outside the table is
\* written, and only sessions that exist are stopped or recovered.
THEOREM CostTrackerTypeCorrect == Spec => []TypeOK
<1>1. Init => Base
  BY Initially
<1>2. Base /\ [Next]_vars => Base'
  BY BaseStep
<1>3. Base => TypeOK
  BY DEF Base
<1>. QED
  BY <1>1, <1>2, <1>3, PTL DEF Spec

\* The hourly pass and RecordFinalCost together never bill a session for more
\* than the hours begun in its life and one: they may meet at the same hour,
\* and the one extra hour is that of a pass which had listed the session when
\* it was still running.
THEOREM NeverOverbilledAlways == Spec => []NeverOverbilled
<1>1. Init => Base /\ Bounded
  BY Initially
<1>2. Base /\ Bounded /\ [Next]_vars => Base' /\ Bounded'
  BY BaseStep, BoundedStep
<1>3. Base /\ Bounded => NeverOverbilled
  BY BoundedMeans
<1>. QED
  BY <1>1, <1>2, <1>3, PTL DEF Spec

\* Without faults RecordFinalCost leaves no hour unbilled of a session that
\* failSession failed, also when the session was stopped, or given up as stuck,
\* while failSession called the provider.
THEOREM FailedSessionBilledAlways == Spec => []FailedSessionBilled
<1>1. Init => Base /\ Paid
  BY Initially
<1>2. Base /\ Paid /\ [Next]_vars => Base' /\ Paid'
  BY BaseStep, PaidStep
<1>3. Base /\ Paid => FailedSessionBilled
  BY PaidMeans
<1>. QED
  BY <1>1, <1>2, <1>3, PTL DEF Spec

\* The periods of GetMonthlySummary split a consumer's rows: every row falls
\* in exactly one month.
THEOREM MonthsSplitRows ==
  ASSUME NEW c \in Consumers, NEW x \in Sessions \X Hours, Consumer[x[1]] = c
  PROVE  /\ \E m \in Months : x \in InPeriod(c, m * PerMonth, (m + 1) * PerMonth)
         /\ \A m, n \in Months :
              (/\ x \in InPeriod(c, m * PerMonth, (m + 1) * PerMonth)
               /\ x \in InPeriod(c, n * PerMonth, (n + 1) * PerMonth)) => m = n
<1> DEFINE h == x[2]
           p == PerMonth
           last == HourOf(MaxTime)
<1>1. h \in Hours /\ h \in Nat /\ p \in Nat \ {0}
  BY HourFacts, CostAssumption
<1>2. last \in Nat /\ h <= last
  <2>1. MaxTime \in 0..MaxTime
    BY CostAssumption
  <2>2. last \in Nat
    BY <2>1, HourFacts
  <2>. QED
    BY <1>1, <2>2 DEF Hours
<1> HIDE DEF h, last
<1>3. Months = 0..(last \div p)
  BY DEF Months, last
<1> HIDE DEF p
<1>4. \E m \in Months : m * p <= h /\ h < (m + 1) * p
  <2> DEFINE m == h \div p
             k == last \div p
  <2>1. m \in Nat /\ p * m <= h /\ h < p * (m + 1) /\ k \in Nat /\ m <= k
    BY <1>1, <1>2, DivFacts, DivMonotone
  <2>2. Months = 0..k
    BY <1>3
  <2> HIDE DEF m, k
  <2>3. m \in Months
    BY <2>1, <2>2
  <2>4. m * p <= h /\ h < (m + 1) * p
    BY <1>1, <2>1
  <2>. QED
    BY <2>3, <2>4
<1>5. ASSUME NEW m \in Nat, NEW n \in Nat, m * p <= h, h < (m + 1) * p,
             n * p <= h, h < (n + 1) * p
      PROVE  m = n
  <2>1. ASSUME m + 1 <= n PROVE FALSE
    <3>1. (m + 1) * p <= n * p
      BY <1>1, <2>1
    <3>. QED
      BY <1>1, <1>5, <3>1
  <2>2. ASSUME n + 1 <= m PROVE FALSE
    <3>1. (n + 1) * p <= m * p
      BY <1>1, <2>2
    <3>. QED
      BY <1>1, <1>5, <3>1
  <2>. QED
    BY <2>1, <2>2
<1>6. Months \subseteq Nat
  <2> DEFINE k == last \div p
  <2>1. k \in Nat
    BY <1>1, <1>2, DivFacts
  <2> HIDE DEF k
  <2>. QED
    BY <1>3, <2>1 DEF k
<1>. QED
  BY <1>4, <1>5, <1>6 DEF InPeriod, h, p

-----------------------------------------------------------------------------
(* Sums                                                                    *)

\* The recursion that SumFunction(v) folds by.
Pick(T) == CHOOSE x \in T : TRUE
Folds(v, g) ==
  g = [T \in SUBSET DOMAIN v |->
         IF T = {} THEN 0 ELSE v[Pick(T)] + g[T \ {Pick(T)}]]

\* Any solution of the recursion computes the sum: where two solutions
\* differed first, in a smallest set, they would agree on the set less one.
LEMMA SumByFold ==
  ASSUME NEW v, IsFiniteSet(DOMAIN v), NEW g, Folds(v, g)
  PROVE  SumFunction(v) = g[DOMAIN v]
<1> DEFINE f == CHOOSE h : Folds(v, h)
           Wrong == {T \in SUBSET DOMAIN v : f[T] # g[T]}
<1>1. SumFunction(v) = f[DOMAIN v]
  BY DEF SumFunction, SumFunctionOnSet, FoldFunctionOnSet, MapThenFoldSet, Folds, Pick
<1>2. Folds(v, f)
  BY Zenon
<1> HIDE DEF f
<1>3. ASSUME Wrong # {} PROVE FALSE
  <2>1. FiniteSubsetsOf(DOMAIN v) = SUBSET DOMAIN v
    BY FS_FiniteSubsetsOfFinite
  <2>2. IsWellFoundedOn(StrictSubsetOrdering(DOMAIN v), SUBSET DOMAIN v)
    BY <2>1, FS_StrictSubsetOrderingWellFounded
  <2>3. Wrong \subseteq SUBSET DOMAIN v
    OBVIOUS
  <2> HIDE DEF Wrong
  <2>4. PICK T \in Wrong :
          \A U \in Wrong : ~ (<<U, T>> \in StrictSubsetOrdering(DOMAIN v))
    BY <1>3, <2>2, <2>3, WFMin
  <2> DEFINE U == T \ {Pick(T)}
  <2>5. T \subseteq DOMAIN v /\ f[T] # g[T]
    BY DEF Wrong
  <2>6. T # {}
    BY <1>2, <2>5 DEF Folds
  <2>7. Pick(T) \in T
    BY <2>6 DEF Pick
  <2>8. U \in SUBSET DOMAIN v /\ <<U, T>> \in StrictSubsetOrdering(DOMAIN v)
    BY <2>5, <2>7 DEF StrictSubsetOrdering
  <2>9. f[U] = g[U]
    BY <2>4, <2>8 DEF Wrong
  <2>10. f[T] = v[Pick(T)] + f[U] /\ g[T] = v[Pick(T)] + g[U]
    BY <1>2, <2>5, <2>6 DEF Folds
  <2>. QED
    BY <2>5, <2>9, <2>10
<1>. QED
  BY <1>1, <1>3

\* Counting part by part.
LEMMA SumOfParts ==
  ASSUME NEW I, IsFiniteSet(I), NEW F,
         \A i \in I : IsFiniteSet(F[i]),
         \A i, j \in I : i # j => F[i] \cap F[j] = {},
         NEW v, v = [i \in I |-> Cardinality(F[i])]
  PROVE  SumFunction(v) = Cardinality(UNION {F[i] : i \in I})
<1> DEFINE All(T) == UNION {F[i] : i \in T}
           g == [T \in SUBSET I |-> Cardinality(All(T))]
<1>1. ASSUME NEW T \in SUBSET I PROVE IsFiniteSet(All(T))
  <2> DEFINE f == [i \in T |-> F[i]]
             R == {F[i] : i \in T}
  <2>1. IsFiniteSet(T)
    BY FS_Subset
  <2>2. f \in Surjection(T, R)
    BY DEF Surjection
  <2>3. IsFiniteSet(R)
    <3> HIDE DEF f, R
    <3>. QED
      BY <2>1, <2>2, FS_Surjection
  <2>4. \A r \in R : IsFiniteSet(r)
    OBVIOUS
  <2> HIDE DEF R
  <2>5. IsFiniteSet(UNION R)
    BY <2>3, <2>4, FS_UNION
  <2>. QED
    BY <2>5 DEF R
<1>2. ASSUME NEW T \in SUBSET I, T # {}
      PROVE  Cardinality(All(T)) = v[Pick(T)] + Cardinality(All(T \ {Pick(T)}))
  <2> DEFINE i == Pick(T)
             A == F[i]
             B == All(T \ {i})
  <2>1. i \in T /\ i \in I
    BY <1>2 DEF Pick
  <2> HIDE DEF i
  <2>2. All(T) = A \cup B
    BY <2>1
  <2>3. A \cap B = {}
    BY <2>1
  <2>4. IsFiniteSet(A) /\ IsFiniteSet(B)
    BY <1>1, <2>1
  <2>5. v[i] = Cardinality(A)
    BY <2>1
  <2> HIDE DEF A, B
  <2>6. Cardinality(A \cup B) = Cardinality(A) + Cardinality(B) - Cardinality(A \cap B)
    BY <2>4, FS_Union
  <2>7. Cardinality(A) \in Nat /\ Cardinality(B) \in Nat /\ Cardinality(A \cap B) = 0
    BY <2>3, <2>4, FS_CardinalityType, FS_EmptySet
  <2>8. Cardinality(A \cup B) = v[i] + Cardinality(B)
    BY <2>5, <2>6, <2>7
  <2>. QED
    BY <2>2, <2>8 DEF B, i
<1>3. Cardinality(All({})) = 0
  <2>1. All({}) = {}
    OBVIOUS
  <2>. QED
    BY <2>1, FS_EmptySet
<1>4. DOMAIN v = I
  OBVIOUS
<1>5. Folds(v, g)
  <2>1. ASSUME NEW T \in SUBSET I
        PROVE  g[T] = IF T = {} THEN 0 ELSE v[Pick(T)] + g[T \ {Pick(T)}]
    <3>1. T \ {Pick(T)} \in SUBSET I
      OBVIOUS
    <3> HIDE DEF All
    <3>. QED
      BY <1>2, <1>3, <3>1
  <2>2. g = [T \in SUBSET I |-> g[T]]
    OBVIOUS
  <2> HIDE DEF g
  <2>. QED
    BY <1>4, <2>1, <2>2 DEF Folds
<1>6. g[I] = Cardinality(All(I))
  OBVIOUS
<1> HIDE DEF g, All
<1>7. SumFunction(v) = g[I]
  BY <1>4, <1>5, SumByFold
<1>. QED
  BY <1>6, <1>7 DEF All

\* The rows that Total counts.
Items(xs) == UNION {{x} \X (1..costs[x]) : x \in xs}

LEMMA ItemsFinite ==
  ASSUME TypeOK, NEW xs \in SUBSET (Sessions \X Hours)
  PROVE  IsFiniteSet(Items(xs))
<1> DEFINE f == [x \in xs |-> {x} \X (1..costs[x])]
           R == {{x} \X (1..costs[x]) : x \in xs}
<1>1. IsFiniteSet(Hours)
  <2>1. MaxTime \in 0..MaxTime
    BY CostAssumption
  <2>2. HourOf(MaxTime) \in Nat
    BY <2>1, HourFacts
  <2>3. 0 \in Int /\ HourOf(MaxTime) \in Int
    BY <2>2
  <2>. QED
    BY <2>3, FS_Interval DEF Hours
<1>2. IsFiniteSet(Sessions \X Hours)
  BY <1>1, CostAssumption, FS_Product
<1>3. IsFiniteSet(xs)
  BY <1>2, FS_Subset
<1>4. f \in Surjection(xs, R)
  BY DEF Surjection
<1>5. ASSUME NEW x \in xs PROVE IsFiniteSet({x} \X (1..costs[x]))
  <2>1. costs[x] \in Int /\ 1 \in Int
    BY DEF TypeOK
  <2>2. IsFiniteSet(1..costs[x])
    BY <2>1, FS_Interval
  <2>3. IsFiniteSet({x})
    BY FS_Singleton
  <2>. QED
    BY <2>2, <2>3, FS_Product
<1>6. \A r \in R : IsFiniteSet(r)
  BY <1>5
<1> HIDE DEF f, R
<1>7. IsFiniteSet(UNION R)
  BY <1>3, <1>4, <1>6, FS_Surjection, FS_UNION
<1>. QED
  BY <1>7 DEF Items, R

\* Totals of disjoint selections add up to the total of all that is selected.
LEMMA SumOfTotals ==
  ASSUME TypeOK, NEW I, IsFiniteSet(I),
         NEW P \in [I -> SUBSET (Sessions \X Hours)],
         \A i, j \in I : i # j => P[i] \cap P[j] = {},
         NEW v, v = [i \in I |-> Total(P[i])]
  PROVE  SumFunction(v) = Total(UNION {P[i] : i \in I})
<1> DEFINE F == [i \in I |-> Items(P[i])]
<1>1. \A i \in I : IsFiniteSet(F[i])
  BY ItemsFinite
<1>2. \A i, j \in I : i # j => F[i] \cap F[j] = {}
  BY DEF Items
<1>3. v = [i \in I |-> Cardinality(F[i])]
  BY DEF Total, Items
<1>4. UNION {F[i] : i \in I} = Items(UNION {P[i] : i \in I})
  BY DEF Items
<1> HIDE DEF F
<1>5. SumFunction(v) = Cardinality(UNION {F[i] : i \in I})
  BY <1>1, <1>2, <1>3, SumOfParts
<1>. QED
  BY <1>4, <1>5 DEF Total, Items

LEMMA AllAddUp ==
  ASSUME TypeOK
  PROVE  MonthsAddUp
<1>1. ASSUME NEW c \in Consumers
      PROVE  SumFunction([m \in Months |-> GetMonthlySummary(c, m)])
               = SumFunction([s \in {t \in Sessions : Consumer[t] = c} |-> GetSessionCost(s)])
  <2> DEFINE Mine == {t \in Sessions : Consumer[t] = c}
             Table == {x \in Sessions \X Hours : Consumer[x[1]] = c}
             P == [m \in Months |-> InPeriod(c, m * PerMonth, (m + 1) * PerMonth)]
             Q == [s \in Mine |-> {s} \X Hours]
  <2>1. IsFiniteSet(Months) /\ IsFiniteSet(Mine)
    <3>1. MaxTime \in 0..MaxTime /\ PerMonth \in Nat \ {0}
      BY CostAssumption
    <3>2. 0 \in Int /\ HourOf(MaxTime) \div PerMonth \in Int
      <4>1. HourOf(MaxTime) \in Nat
        BY <3>1, HourFacts
      <4>. QED
        BY <3>1, <4>1, DivFacts
    <3>3. IsFiniteSet(Months)
      BY <3>2, FS_Interval DEF Months
    <3>4. IsFiniteSet(Mine)
      BY CostAssumption, FS_Subset
    <3>. QED
      BY <3>3, <3>4
  <2>2. P \in [Months -> SUBSET (Sessions \X Hours)]
    BY DEF InPeriod
  <2>3. \A m, n \in Months : m # n => P[m] \cap P[n] = {}
    <3>1. ASSUME NEW m \in Months, NEW n \in Months, NEW x \in P[m], x \in P[n]
          PROVE  m = n
      <4>1. x \in Sessions \X Hours /\ Consumer[x[1]] = c
        BY DEF InPeriod
      <4>2. /\ x \in InPeriod(c, m * PerMonth, (m + 1) * PerMonth)
            /\ x \in InPeriod(c, n * PerMonth, (n + 1) * PerMonth)
        BY <3>1
      <4>. QED
        BY <4>1, <4>2, MonthsSplitRows
    <3>. QED
      BY <3>1
  <2>4. UNION {P[m] : m \in Months} = Table
    <3>1. ASSUME NEW x \in Table
          PROVE  \E m \in Months : x \in P[m]
      BY MonthsSplitRows
    <3>2. \A m \in Months : P[m] \subseteq Table
      BY DEF InPeriod
    <3> HIDE DEF P, Table
    <3>. QED
      BY <3>1, <3>2
  <2>5. SumFunction([m \in Months |-> Total(P[m])]) = Total(UNION {P[m] : m \in Months})
    <3> HIDE DEF P
    <3>. QED
      BY <2>1, <2>2, <2>3, SumOfTotals
  <2>6. [m \in Months |-> GetMonthlySummary(c, m)] = [m \in Months |-> Total(P[m])]
    BY DEF GetMonthlySummary, GetSummary
  <2>7. Q \in [Mine -> SUBSET (Sessions \X Hours)]
    OBVIOUS
  <2>8. \A s, t \in Mine : s # t => Q[s] \cap Q[t] = {}
    OBVIOUS
  <2>9. UNION {Q[s] : s \in Mine} = Table
    <3>1. \A s \in Mine : Q[s] \subseteq Table
      OBVIOUS
    <3>2. \A x \in Table : x[1] \in Mine /\ x \in Q[x[1]]
      OBVIOUS
    <3> HIDE DEF Q, Table, Mine
    <3>. QED
      BY <3>1, <3>2
  <2>10. SumFunction([s \in Mine |-> Total(Q[s])]) = Total(UNION {Q[s] : s \in Mine})
    <3> HIDE DEF Q, Mine
    <3>. QED
      BY <2>1, <2>7, <2>8, SumOfTotals
  <2>11. [s \in Mine |-> GetSessionCost(s)] = [s \in Mine |-> Total(Q[s])]
    BY DEF GetSessionCost
  <2> HIDE DEF P, Q, Table
  <2>. QED
    BY <2>4, <2>5, <2>6, <2>9, <2>10, <2>11
<1>. QED
  BY <1>1 DEF MonthsAddUp

\* The monthly summaries of a consumer add up to the costs of the
\* consumer's sessions, whatever the passes and final costs have recorded: no
\* hour is left between two months or counted in both (GetMonthlySummary).
THEOREM MonthsAddUpAlways == Spec => []MonthsAddUp
<1>1. TypeOK => MonthsAddUp
  BY AllAddUp
<1>. QED
  BY <1>1, CostTrackerTypeCorrect, PTL

=============================================================================
