--------------------------- MODULE AutoRetryProofs ---------------------------
(* Proofs about AutoRetry, for any set of offers and machines, any limits   *)
(* and any number of failed calls.                                          *)
EXTENDS AutoRetry, SequenceTheorems, TLAPS

-----------------------------------------------------------------------------
(* The inductive invariant                                                 *)

\* A row for place ix of the chain rs: it has that session's offer, and its
\* failed_offers holds every offer tried before.
Traces(rs, ix, row) ==
  /\ row.offer = rs[ix].offer
  /\ \A j \in 1..(ix - 1) : rs[j].offer \in row.failed

RowsInv ==
  /\ rows \in Seq(Row)
  /\ \A i \in 1..Len(rows) : Traces(rows, i, rows[i])
  /\ OfferOnce

\* The copies of sessions that may still be stored, each in the place it was
\* taken from.
Older(rs, c) == c \in Copy /\ c.ix \in 1..Len(rs) /\ Traces(rs, c.ix, c.row)

StackInv ==
  /\ stack \in Seq(Copy)
  /\ \A i \in 1..Len(stack) : Older(rows, stack[i]) /\ stack[i].row.status = "failed"
LinksInv == \A l \in links : Older(rows, l) /\ l.row.status = "failed"
DelInv == del \in Copy /\ (del.ix # 0 => Older(rows, del))

\* Where the goroutine is says whether there is a session.
Placed ==
  /\ chain.at = "idle" => Len(rows) = 0
  /\ chain.at \in {"provision", "create", "find", "verify", "polled", "failing", "after"}
       => Len(rows) > 0

\* The goroutine's own copy, and what it will exclude from the search.
ChainTraces ==
  /\ chain.at \in {"provision", "create", "polled", "failing"}
       => Traces(rows, Len(rows), chain.row)
  /\ chain.at \in {"provision", "create"} =>
       /\ chain.offer = rows[Len(rows)].offer
       /\ \A j \in 1..(Len(rows) - 1) : rows[j].offer \in chain.failed
       /\ chain.row.status \in {"pending", "provisioning"}

\* What the search excludes, and that there is room for one more session when
\* one is looked for.
Excludes ==
  /\ chain.at \in {"insert", "find"} =>
       /\ \A j \in 1..Len(rows) : rows[j].offer \in chain.failed
       /\ Len(rows) <= chain.max
  /\ chain.at = "insert" => chain.offer \notin chain.failed

ChainInv == chain \in Chain /\ Placed /\ ChainTraces /\ Excludes /\ RetryLimit

\* A session runs only when the goroutine has nothing more to try but what
\* the row, read again, allows.
OnlyLastRuns ==
  \A i \in 1..Len(rows) :
    rows[i].status = "running" => i = Len(rows) /\ chain.at \in {"after", "end"}

Bounded == other \subseteq Offers /\ errors \in 0..MaxErrors

Inv == RowsInv /\ StackInv /\ LinksInv /\ DelInv /\ ChainInv /\ OnlyLastRuns /\ Bounded

-----------------------------------------------------------------------------
(* Rows and copies                                                         *)

Places == {"idle", "insert", "provision", "create", "find", "verify", "polled",
           "failing", "after", "end"}

LEMMA RowFields ==
  ASSUME NEW row \in Row
  PROVE  row.offer \in Offers /\ row.failed \subseteq Offers
BY DEF Row

LEMMA ChainFields ==
  ASSUME NEW c \in Chain
  PROVE  /\ c.at \in Places /\ c.max \in 0..Most /\ c.offer \in Offers /\ c.row \in Row
         /\ c.failed \subseteq Offers /\ c.machines \subseteq Machines
BY DEF Chain, Places

LEMMA IdleTypes ==
  /\ Idle \in Chain /\ Idle.at = "idle" /\ Idle.max = 0 /\ Idle.failed = {}
  /\ NoDelete \in Copy /\ NoDelete.ix = 0
<1>1. (CHOOSE o \in Offers : TRUE) \in Offers
  BY AutoRetryAssumption
<1>2. AnyRow \in Row /\ AnyRow.offer \in Offers
  BY <1>1 DEF AnyRow, NewRow, Row, Active
<1>3. 0 \in 0..Most
  BY AutoRetryAssumption
<1>. QED
  BY <1>2, <1>3 DEF Idle, Chain, NoDelete, Copy

\* Go and GiveUp leave nothing but the place and the limit.
LEMMA GoTypes ==
  ASSUME chain \in Chain, NEW a \in Places, Go(a)
  PROVE  chain' \in Chain /\ chain'.at = a /\ chain'.max = chain.max
<1>1. Idle \in Chain /\ chain.max \in 0..Most
  BY IdleTypes, ChainFields
<1>2. chain' = [Idle EXCEPT !.at = a, !.max = chain.max]
  BY DEF Go
<1>. QED
  BY <1>1, <1>2 DEF Chain, Places

LEMMA Lengths ==
  ASSUME RowsInv
  PROVE  /\ Len(rows) \in Nat
         /\ Len(rows) > 0 => /\ Len(rows) \in 1..Len(rows)
                             /\ rows[Len(rows)] \in Row
<1>1. Len(rows) \in Nat
  BY LenProperties DEF RowsInv
<1>2. Len(rows) > 0 => Len(rows) \in 1..Len(rows)
  BY <1>1
<1>. QED
  BY <1>1, <1>2, ElementOfSeq DEF RowsInv

-----------------------------------------------------------------------------
(* Writes of the sessions table                                            *)

\* The sessions stay, each with its offer.
Extends ==
  /\ rows' \in Seq(Row)
  /\ Len(rows) <= Len(rows')
  /\ \A j \in 1..Len(rows) : rows'[j].offer = rows[j].offer

LEMMA TracesKept ==
  ASSUME RowsInv, Extends, NEW ix \in 1..Len(rows), NEW row, Traces(rows, ix, row)
  PROVE  Traces(rows', ix, row)
<1>1. Len(rows) \in Nat
  BY Lengths
<1>. QED
  BY <1>1 DEF Traces, Extends

LEMMA OlderKept ==
  ASSUME RowsInv, Extends, NEW c, Older(rows, c)
  PROVE  Older(rows', c)
<1>1. Len(rows) \in Nat /\ Len(rows') \in Nat
  BY Lengths, LenProperties DEF Extends
<1>2. c.ix \in 1..Len(rows')
  BY <1>1 DEF Older, Extends
<1>. QED
  BY <1>2, TracesKept DEF Older

\* The copies nobody touches stay good.
LEMMA CopiesKept ==
  ASSUME Inv, Extends
  PROVE  /\ UNCHANGED stack => StackInv'
         /\ UNCHANGED links => LinksInv'
         /\ UNCHANGED del => DelInv'
         /\ stack' = <<>> => StackInv'
         /\ del' = NoDelete => DelInv'
<1>1. UNCHANGED stack => StackInv'
  BY OlderKept DEF Inv, StackInv
<1>2. UNCHANGED links => LinksInv'
  BY OlderKept DEF Inv, LinksInv
<1>3. UNCHANGED del => DelInv'
  BY OlderKept DEF Inv, DelInv
<1>4. stack' = <<>> => StackInv'
  BY DEF StackInv
<1>5. del' = NoDelete => DelInv'
  BY IdleTypes DEF DelInv
<1>. QED
  BY <1>1, <1>2, <1>3, <1>4, <1>5

LEMMA NoWrite ==
  ASSUME Inv, UNCHANGED rows
  PROVE  Extends /\ RowsInv'
<1>1. RowsInv'
  BY DEF Inv, RowsInv, OfferOnce
<1>2. Extends
  BY Lengths DEF Inv, RowsInv, Extends
<1>. QED
  BY <1>1, <1>2

\* A write of a row that traces its place changes nothing that matters, and
\* makes no session run but its own.
LEMMA Writes ==
  ASSUME Inv, NEW i \in 1..Len(rows), NEW row \in Row, Update(i, row),
         Traces(rows, i, row)
  PROVE  /\ Extends /\ RowsInv' /\ Len(rows') = Len(rows)
         /\ errors' \in 0..MaxErrors
         /\ \A j \in 1..Len(rows) : rows'[j] = rows[j] \/ (j = i /\ rows'[j] = row)
<1>1. errors' \in 0..MaxErrors
  BY AutoRetryAssumption DEF Inv, Bounded, Update, Stored, NotStored, Error
<1>2. CASE rows' = rows
  BY <1>1, <1>2, NoWrite
<1>3. CASE rows' = [rows EXCEPT ![i] = row]
  <2>1. /\ rows' \in Seq(Row) /\ Len(rows') = Len(rows)
        /\ \A j \in 1..Len(rows) : rows'[j] = IF j = i THEN row ELSE rows[j]
    BY <1>3, ExceptSeq DEF Inv, RowsInv
  <2>2. Len(rows) \in Nat
    BY Lengths DEF Inv
  <2>3. Extends
    BY <2>1, <2>2 DEF Extends, Traces
  <2>4. \A j \in 1..Len(rows) : Traces(rows, j, rows'[j])
    BY <2>1 DEF Inv, RowsInv
  <2>5. \A j \in 1..Len(rows') : Traces(rows', j, rows'[j])
    BY <2>1, <2>3, <2>4, TracesKept DEF Inv
  <2>6. OfferOnce'
    BY <2>1, <2>3 DEF Inv, RowsInv, OfferOnce, Extends
  <2>. QED
    BY <1>1, <2>1, <2>3, <2>5, <2>6 DEF RowsInv
<1>. QED
  BY <1>2, <1>3 DEF Update, Stored, NotStored

-----------------------------------------------------------------------------
(* What several actions do to the goroutine                                *)

SameLength == Extends /\ Len(rows') = Len(rows)

\* No session starts to run.
NoneNew ==
  \A j \in 1..Len(rows) : rows'[j].status = "running" => rows[j].status = "running"

\* A row that traces its place, of another status or instance.
SameLine(row, r) == r \in Row /\ r.offer = row.offer /\ row.failed \subseteq r.failed

LEMMA LineTraces ==
  ASSUME NEW rs, NEW ix, NEW row, NEW r, Traces(rs, ix, row), SameLine(row, r)
  PROVE  Traces(rs, ix, r)
BY DEF Traces, SameLine

LEMMA Held ==
  ASSUME Inv, chain.at \in {"provision", "create", "polled", "failing"}
  PROVE  /\ Len(rows) \in 1..Len(rows) /\ chain.row \in Row
         /\ Traces(rows, Len(rows), chain.row)
BY Lengths, ChainFields DEF Inv, ChainInv, Placed, ChainTraces

\* The goroutine stores a version of its copy in the newest row.
LEMMA LastWritten ==
  ASSUME Inv, chain.at \in {"provision", "create", "polled", "failing"},
         NEW r, SameLine(chain.row, r), Update(Len(rows), r)
  PROVE  /\ SameLength /\ RowsInv' /\ errors' \in 0..MaxErrors
         /\ r.status # "running" => NoneNew
         /\ \A j \in 1..Len(rows) :
              rows'[j].status = "running" => rows[j].status = "running" \/ j = Len(rows)
         /\ Traces(rows', Len(rows'), r)
<1>1. /\ Len(rows) \in 1..Len(rows) /\ r \in Row
      /\ Traces(rows, Len(rows), r)
  BY Held, LineTraces DEF SameLine
<1>2. /\ Extends /\ RowsInv' /\ Len(rows') = Len(rows)
      /\ errors' \in 0..MaxErrors
      /\ \A j \in 1..Len(rows) : rows'[j] = rows[j] \/ (j = Len(rows) /\ rows'[j] = r)
  BY <1>1, Writes
<1>3. Traces(rows', Len(rows'), r)
  BY <1>1, <1>2, TracesKept DEF Inv
<1>. QED
  BY <1>2, <1>3 DEF SameLength, NoneNew

LEMMA SameRuns ==
  ASSUME Inv, SameLength, NoneNew,
         chain.at \in {"after", "end"} => chain'.at \in {"after", "end"}
  PROVE  OnlyLastRuns'
BY DEF Inv, OnlyLastRuns, SameLength, NoneNew

LEMMA ChainKept ==
  ASSUME Inv, SameLength, UNCHANGED chain
  PROVE  ChainInv'
<1>1. Len(rows) \in Nat /\ (Len(rows) > 0 => Len(rows) \in 1..Len(rows))
  BY Lengths DEF Inv
<1>2. ChainTraces'
  <2>1. chain.at \in {"provision", "create", "polled", "failing"}
          => Traces(rows', Len(rows'), chain.row)
    BY Held, TracesKept DEF Inv, SameLength
  <2>2. chain.at \in {"provision", "create"} =>
          /\ chain.offer = rows'[Len(rows')].offer
          /\ \A j \in 1..(Len(rows') - 1) : rows'[j].offer \in chain.failed
    BY <1>1 DEF Inv, ChainInv, Placed, ChainTraces, SameLength, Extends
  <2>. QED
    BY <2>1, <2>2 DEF Inv, ChainInv, ChainTraces
<1>3. Excludes'
  BY DEF Inv, ChainInv, Excludes, SameLength, Extends
<1>. QED
  BY <1>2, <1>3 DEF Inv, ChainInv, Placed, RetryLimit, SameLength

LEMMA ChainGoes ==
  ASSUME Inv, SameLength, NEW a \in {"end", "after", "verify"}, Go(a),
         a # "end" => Len(rows) > 0
  PROVE  ChainInv' /\ chain'.at = a
<1>1. chain' \in Chain /\ chain'.at = a /\ chain'.max = chain.max
  BY GoTypes DEF Inv, ChainInv, Places
<1>. QED
  BY <1>1 DEF Inv, ChainInv, Placed, ChainTraces, Excludes, RetryLimit, SameLength

LEMMA SameRows ==
  ASSUME Inv, UNCHANGED rows
  PROVE  SameLength /\ NoneNew /\ RowsInv'
BY NoWrite DEF SameLength, NoneNew

LEMMA ErrorBound ==
  ASSUME Inv, Error
  PROVE  errors' \in 0..MaxErrors
BY AutoRetryAssumption DEF Inv, Bounded, Error

-----------------------------------------------------------------------------
(* The request                                                             *)

LEMMA InvCreateSession ==
  ASSUME Inv, NEW o \in Offers, NEW m \in Wanted, CreateSession(o, m)
  PROVE  Inv'
<1>1. SameLength /\ RowsInv' /\ NoneNew
  BY SameRows DEF CreateSession
<1>2. StackInv' /\ LinksInv' /\ DelInv' /\ Bounded'
  BY <1>1, CopiesKept DEF CreateSession, SameLength, Inv, Bounded
<1>3. Len(rows) = 0 /\ Len(rows') = 0
  BY <1>1 DEF CreateSession, Inv, ChainInv, Placed, SameLength
<1>4. Capped(m) \in 0..Most
  BY AutoRetryAssumption DEF Capped
<1>5. PICK a \in {"insert", "end"} :
        chain' = [Idle EXCEPT !.at = a, !.max = Capped(m), !.offer = o]
  BY DEF CreateSession
<1>6. chain' \in Chain /\ chain'.at = a /\ chain'.max \in Nat /\ chain'.failed = {}
  <2>1. Idle \in Chain /\ Idle.failed = {}
    BY IdleTypes
  <2>2. chain' \in Chain /\ chain'.at = a /\ chain'.failed = {}
    BY <1>4, <1>5, <2>1 DEF Chain
  <2>. QED
    BY <2>2, ChainFields, AutoRetryAssumption
<1>7. ChainInv'
  BY <1>3, <1>6 DEF ChainInv, Placed, ChainTraces, Excludes, RetryLimit
<1>8. OnlyLastRuns'
  BY <1>3 DEF OnlyLastRuns
<1>. QED
  BY <1>1, <1>2, <1>7, <1>8 DEF Inv

\* The new session: its offer is in nobody's failed_offers but will be in
\* everybody's after it.
LEMMA InvInsertSession ==
  ASSUME Inv, InsertSession
  PROVE  Inv'
<1> DEFINE row == NewRow(chain.offer, chain.failed)
<1>0. chain \in Chain /\ chain.at = "insert"
  BY DEF Inv, ChainInv, InsertSession
<1>1. CASE /\ rows' = Append(rows, row)
           /\ chain' = [chain EXCEPT !.at = "provision", !.row = row]
           /\ UNCHANGED <<stack, errors>>
  <2>1. /\ row \in Row /\ row.offer = chain.offer /\ row.failed = chain.failed
        /\ row.status = "pending"
    BY <1>0, ChainFields DEF NewRow, Row, Active
  <2> HIDE DEF row
  <2>2. /\ rows' \in Seq(Row) /\ Len(rows') = Len(rows) + 1
        /\ \A j \in 1..Len(rows) : rows'[j] = rows[j]
        /\ rows'[Len(rows')] = row
    BY <1>1, <2>1, AppendProperties DEF Inv, RowsInv
  <2>3. Len(rows) \in Nat
    BY Lengths DEF Inv
  <2>4. Extends
    BY <2>2, <2>3 DEF Extends
  <2>5. \A j \in 1..Len(rows) : rows[j].offer \in chain.failed
    BY <1>0 DEF Inv, ChainInv, Excludes
  <2>6. Traces(rows', Len(rows'), row)
    BY <2>1, <2>2, <2>3, <2>5 DEF Traces
  <2>7. \A j \in 1..Len(rows') : Traces(rows', j, rows'[j])
    <3>1. \A j \in 1..Len(rows) : Traces(rows', j, rows[j])
      BY <2>4, TracesKept DEF Inv, RowsInv
    <3>. QED
      BY <2>2, <2>3, <2>6, <3>1
  <2>8. chain.offer \notin chain.failed /\ Len(rows) <= chain.max
    BY <1>0 DEF Inv, ChainInv, Excludes
  <2>9. OfferOnce'
    BY <2>1, <2>2, <2>3, <2>5, <2>8 DEF Inv, RowsInv, OfferOnce
  <2>10. RowsInv'
    BY <2>2, <2>7, <2>9 DEF RowsInv
  <2>11. /\ chain' \in Chain /\ chain'.at = "provision" /\ chain'.row = row
         /\ chain'.max = chain.max /\ chain'.offer = chain.offer
         /\ chain'.failed = chain.failed
    BY <1>0, <1>1, <2>1 DEF Chain
  <2>12. ChainTraces'
    BY <2>1, <2>2, <2>3, <2>5, <2>6, <2>11 DEF ChainTraces
  <2>13. chain.max \in Nat
    BY <1>0, ChainFields, AutoRetryAssumption
  <2>14. ChainInv'
    BY <2>2, <2>3, <2>8, <2>11, <2>12, <2>13 DEF ChainInv, Placed, Excludes, RetryLimit
  <2>15. OnlyLastRuns'
    BY <1>0, <2>1, <2>2, <2>3 DEF Inv, OnlyLastRuns
  <2>16. StackInv' /\ LinksInv' /\ DelInv' /\ Bounded'
    BY <1>1, <2>4, CopiesKept DEF InsertSession, Inv, Bounded
  <2>. QED
    BY <2>10, <2>14, <2>15, <2>16 DEF Inv
<1>2. CASE GiveUp /\ UNCHANGED rows /\ (UNCHANGED errors \/ Error)
  <2>1. SameLength /\ RowsInv' /\ NoneNew
    BY <1>2, SameRows
  <2>2. StackInv' /\ LinksInv' /\ DelInv'
    BY <1>2, <2>1, CopiesKept DEF InsertSession, GiveUp, SameLength
  <2>3. ChainInv' /\ chain'.at = "end"
    BY <1>2, <2>1, ChainGoes DEF GiveUp
  <2>4. OnlyLastRuns'
    BY <2>1, <2>3, SameRuns
  <2>5. Bounded'
    BY <1>2, ErrorBound DEF InsertSession, Inv, Bounded
  <2>. QED
    BY <2>1, <2>2, <2>3, <2>4, <2>5 DEF Inv
<1>. QED
  BY <1>1, <1>2 DEF InsertSession

LEMMA InvProvisionSession ==
  ASSUME Inv, ProvisionSession
  PROVE  Inv'
<1> DEFINE r == [chain.row EXCEPT !.status = "provisioning"]
<1>0. chain \in Chain /\ chain.at = "provision"
  BY DEF Inv, ChainInv, ProvisionSession
<1>1. Update(Len(rows), r) /\ chain' = [chain EXCEPT !.at = "create", !.row = r]
  BY DEF ProvisionSession
<1>2. SameLine(chain.row, r) /\ r.status = "provisioning"
  BY <1>0, ChainFields DEF SameLine, Row, Active
<1> HIDE DEF r
<1>3. /\ SameLength /\ RowsInv' /\ errors' \in 0..MaxErrors /\ NoneNew
      /\ Traces(rows', Len(rows'), r)
  BY <1>0, <1>1, <1>2, LastWritten
<1>4. StackInv' /\ LinksInv' /\ DelInv' /\ Bounded'
  BY <1>3, CopiesKept DEF ProvisionSession, SameLength, Inv, Bounded
<1>5. /\ chain' \in Chain /\ chain'.at = "create" /\ chain'.row = r
      /\ chain'.max = chain.max /\ chain'.offer = chain.offer
      /\ chain'.failed = chain.failed
  BY <1>0, <1>1, <1>2 DEF Chain, SameLine
<1>6. ChainTraces'
  BY <1>0, <1>2, <1>3, <1>5, Lengths
  DEF Inv, ChainInv, Placed, ChainTraces, SameLength, Extends
<1>7. ChainInv'
  BY <1>0, <1>3, <1>5, <1>6 DEF Inv, ChainInv, Placed, Excludes, RetryLimit, SameLength
<1>8. OnlyLastRuns'
  BY <1>0, <1>3, SameRuns
<1>. QED
  BY <1>3, <1>4, <1>7, <1>8 DEF Inv

LEMMA InvCreateSucceeds ==
  ASSUME Inv, CreateSucceeds
  PROVE  Inv'
<1> DEFINE r == [chain.row EXCEPT !.inst = TRUE]
<1>0. chain \in Chain /\ chain.at = "create" /\ Len(rows) > 0
  BY DEF Inv, ChainInv, Placed, CreateSucceeds
<1>1. SameLine(chain.row, r) /\ r.status # "running"
  BY <1>0, ChainFields DEF SameLine, Row, Inv, ChainInv, ChainTraces
<1>2. Update(Len(rows), r)
  BY DEF CreateSucceeds, Update
<1>3. SameLength /\ RowsInv' /\ errors' \in 0..MaxErrors /\ NoneNew
  <2> HIDE DEF r
  <2>. QED
    BY <1>0, <1>1, <1>2, LastWritten
<1>4. DelInv' /\ Bounded'
  BY <1>3, CopiesKept DEF CreateSucceeds, SameLength, Inv, Bounded
<1>5. stack' = <<>> /\ (Go("verify") \/ Go("end"))
  BY DEF CreateSucceeds, GiveUp
<1>6. StackInv'
  BY <1>3, <1>5, CopiesKept DEF SameLength
<1>7. LinksInv'
  <2>1. CASE UNCHANGED links
    BY <1>3, <2>1, CopiesKept DEF SameLength
  <2>2. CASE links' = links \cup
               {[stack[i] EXCEPT !.row.child = Len(rows)] : i \in 1..Len(stack)}
    <3>1. \A l \in links : Older(rows', l) /\ l.row.status = "failed"
      BY <1>3, OlderKept DEF Inv, LinksInv, SameLength
    <3>2. ASSUME NEW i \in 1..Len(stack)
          PROVE  /\ Older(rows', [stack[i] EXCEPT !.row.child = Len(rows)])
                 /\ [stack[i] EXCEPT !.row.child = Len(rows)].row.status = "failed"
      <4> DEFINE c == stack[i]
                 d == [c EXCEPT !.row.child = Len(rows)]
      <4>1. c \in Copy /\ Older(rows', c) /\ c.row.status = "failed"
        BY <1>3, OlderKept DEF Inv, StackInv, SameLength, Older
      <4>2. Len(rows) \in Nat
        BY Lengths DEF Inv
      <4> HIDE DEF c
      <4>3. /\ d \in Copy /\ d.ix = c.ix /\ d.row.offer = c.row.offer
            /\ d.row.failed = c.row.failed /\ d.row.status = c.row.status
        BY <4>1, <4>2 DEF Copy, Row
      <4> HIDE DEF d
      <4>4. Older(rows', d)
        BY <4>1, <4>3 DEF Older, Traces
      <4>. QED
        BY <4>1, <4>3, <4>4 DEF d, c
    <3>. QED
      BY <2>2, <3>1, <3>2 DEF LinksInv
  <2>. QED
    BY <2>1, <2>2 DEF CreateSucceeds
<1>8. ChainInv' /\ chain'.at \in {"verify", "end"}
  BY <1>0, <1>3, <1>5, ChainGoes
<1>9. OnlyLastRuns'
  BY <1>0, <1>3, SameRuns
<1>. QED
  BY <1>3, <1>4, <1>6, <1>7, <1>8, <1>9 DEF Inv

LEMMA InvCreateFails ==
  ASSUME Inv, CreateFails
  PROVE  Inv'
<1> DEFINE r == [chain.row EXCEPT !.status = "failed"]
           failed == chain.failed \cup {chain.offer}
           e == [ix |-> Len(rows), row |-> [r EXCEPT !.failed = failed]]
<1>0. chain \in Chain /\ chain.at = "create" /\ Len(rows) > 0
  BY DEF Inv, ChainInv, Placed, CreateFails
<1>1. SameLine(chain.row, r) /\ r.status = "failed"
  BY <1>0, ChainFields DEF SameLine, Row, Terminal
<1>2. Update(Len(rows), r)
  BY DEF CreateFails
<1>3. SameLength /\ RowsInv' /\ errors' \in 0..MaxErrors /\ NoneNew
  <2> HIDE DEF r
  <2>. QED
    BY <1>0, <1>1, <1>2, LastWritten
<1>4. LinksInv' /\ DelInv' /\ Bounded'
  BY <1>3, CopiesKept DEF CreateFails, SameLength, Inv, Bounded
<1>5. CASE GiveUp
  <2>1. ChainInv' /\ chain'.at = "end" /\ StackInv'
    BY <1>3, <1>5, ChainGoes, CopiesKept DEF GiveUp, SameLength
  <2>2. OnlyLastRuns'
    BY <1>3, <2>1, SameRuns
  <2>. QED
    BY <1>3, <1>4, <2>1, <2>2 DEF Inv
<1>6. CASE /\ MayRetry(Len(rows), chain.max)
           /\ chain' = [chain EXCEPT !.at = "find", !.failed = failed,
                          !.machines = @ \cup {Machine[chain.offer]}]
           /\ stack' = Append(stack, e)
  <2>1. /\ failed \subseteq Offers /\ {Machine[chain.offer]} \subseteq Machines
        /\ chain.max \in Nat
    BY <1>0, ChainFields, AutoRetryAssumption
  <2>2. Len(rows) \in Nat /\ Len(rows) \in 1..Len(rows)
    BY <1>0, Lengths DEF Inv
  <2>3. \A j \in 1..Len(rows) : rows[j].offer \in failed
    <3>1. /\ chain.offer = rows[Len(rows)].offer
          /\ \A j \in 1..(Len(rows) - 1) : rows[j].offer \in chain.failed
      BY <1>0 DEF Inv, ChainInv, ChainTraces
    <3>. QED
      BY <2>2, <3>1
  <2>4. /\ e \in Copy /\ e.ix = Len(rows) /\ e.row.offer = chain.row.offer
        /\ e.row.failed = failed /\ e.row.status = "failed"
    <3> HIDE DEF r, failed
    <3>1. [r EXCEPT !.failed = failed] \in Row
      BY <1>1, <2>1 DEF SameLine, Row
    <3>. QED
      BY <1>1, <2>1, <2>2, <3>1 DEF SameLine, Row, Copy
  <2> HIDE DEF r, failed, e
  <2>5. Older(rows, e)
    <3>1. e.row.offer = rows[Len(rows)].offer
      BY <1>0, <2>4, Held DEF Traces
    <3>. QED
      BY <2>2, <2>3, <2>4, <3>1 DEF Older, Traces
  <2>6. StackInv'
    <3>1. Older(rows', e)
      BY <1>3, <2>5, OlderKept DEF Inv, SameLength
    <3>2. \A i \in 1..Len(stack) : Older(rows', stack[i]) /\ stack[i].row.status = "failed"
      BY <1>3, OlderKept DEF Inv, StackInv, SameLength
    <3>3. stack \in Seq(Copy) /\ Len(stack) \in Nat
      BY LenProperties DEF Inv, StackInv
    <3>4. /\ stack' \in Seq(Copy) /\ Len(stack') = Len(stack) + 1
          /\ \A i \in 1..Len(stack) : stack'[i] = stack[i]
          /\ stack'[Len(stack')] = e
      BY <1>6, <2>4, <3>3, AppendProperties
    <3>. QED
      BY <2>4, <3>1, <3>2, <3>3, <3>4 DEF StackInv
  <2>7. /\ chain' \in Chain /\ chain'.at = "find" /\ chain'.failed = failed
        /\ chain'.max = chain.max
    BY <1>0, <1>6, <2>1 DEF Chain
  <2>8. Len(rows) <= chain.max
    BY <1>6, <2>1, <2>2 DEF MayRetry
  <2>9. ChainInv'
    BY <1>0, <1>3, <2>2, <2>3, <2>7, <2>8, <2>1
    DEF ChainInv, Placed, ChainTraces, Excludes, RetryLimit, SameLength, Extends
  <2>10. OnlyLastRuns'
    BY <1>0, <1>3, SameRuns
  <2>. QED
    BY <1>3, <1>4, <2>6, <2>9, <2>10 DEF Inv
<1>. QED
  BY <1>5, <1>6 DEF CreateFails

LEMMA InvSelectFromTopN ==
  ASSUME Inv, SelectFromTopN
  PROVE  Inv'
<1>1. SameLength /\ RowsInv' /\ NoneNew
  BY SameRows DEF SelectFromTopN
<1>2. StackInv' /\ LinksInv' /\ DelInv' /\ Bounded'
  BY <1>1, CopiesKept DEF SelectFromTopN, GiveUp, SameLength, Inv, Bounded
<1>3. ChainInv' /\ chain'.at \in {"insert", "end"}
  <2>1. CASE GiveUp
    BY <1>1, <2>1, ChainGoes DEF GiveUp
  <2>2. ASSUME NEW o \in FindComparableOffers(chain.failed, chain.machines),
               chain' = [chain EXCEPT !.at = "insert", !.offer = o]
        PROVE  ChainInv' /\ chain'.at = "insert"
    <3>1. o \in Offers /\ o \notin chain.failed
      BY DEF FindComparableOffers
    <3>2. /\ chain' \in Chain /\ chain'.at = "insert" /\ chain'.offer = o
          /\ chain'.failed = chain.failed /\ chain'.max = chain.max
      BY <2>2, <3>1 DEF Chain, Inv, ChainInv
    <3>3. chain.at = "find"
      BY DEF SelectFromTopN
    <3>. QED
      BY <1>1, <3>1, <3>2, <3>3
      DEF Inv, ChainInv, Placed, ChainTraces, Excludes, RetryLimit, SameLength, Extends
  <2>. QED
    BY <2>1, <2>2 DEF SelectFromTopN
<1>4. OnlyLastRuns'
  BY <1>1, SameRuns DEF SelectFromTopN
<1>. QED
  BY <1>1, <1>2, <1>3, <1>4 DEF Inv

LEMMA InvLinkParent ==
  ASSUME Inv, LinkParent
  PROVE  Inv'
<1>1. PICK l \in links : Update(l.ix, l.row) /\ links' = links \ {l}
  BY DEF LinkParent
<1>2. Older(rows, l) /\ l.row.status = "failed"
  BY DEF Inv, LinksInv
<1>3. l.ix \in 1..Len(rows) /\ l.row \in Row /\ Traces(rows, l.ix, l.row)
  BY <1>2 DEF Older, Copy
<1>4. SameLength /\ RowsInv' /\ NoneNew /\ errors' \in 0..MaxErrors
  BY <1>1, <1>2, <1>3, Writes DEF SameLength, NoneNew
<1>5. StackInv' /\ DelInv' /\ Bounded'
  BY <1>4, CopiesKept DEF LinkParent, SameLength, Inv, Bounded
<1>6. LinksInv'
  BY <1>1, <1>4, OlderKept DEF Inv, LinksInv, SameLength
<1>7. ChainInv' /\ OnlyLastRuns'
  BY <1>4, ChainKept, SameRuns DEF LinkParent
<1>. QED
  BY <1>4, <1>5, <1>6, <1>7 DEF Inv

-----------------------------------------------------------------------------
(* The verification goroutine                                              *)

\* It reads the newest row, or goes on from what it read.
LEMMA InvVerifyReads ==
  ASSUME Inv, VerifyPolls \/ VerifyTimesOut \/ VerifyStops
  PROVE  Inv'
<1>0. chain \in Chain /\ chain.at = "verify" /\ Len(rows) > 0
  BY DEF Inv, ChainInv, Placed, VerifyPolls, VerifyTimesOut, VerifyStops
<1>1. SameLength /\ RowsInv' /\ NoneNew
  BY SameRows DEF VerifyPolls, VerifyTimesOut, VerifyStops
<1>2. StackInv' /\ LinksInv' /\ DelInv'
  BY <1>1, CopiesKept DEF VerifyPolls, VerifyTimesOut, VerifyStops, SameLength
<1>3. Bounded'
  BY ErrorBound DEF VerifyPolls, VerifyTimesOut, VerifyStops, Inv, Bounded
<1>4. rows[Len(rows)] \in Row /\ Traces(rows, Len(rows), rows[Len(rows)])
  BY <1>0, Lengths DEF Inv, RowsInv
<1>5. ASSUME NEW a \in {"polled", "failing"},
             chain' = [chain EXCEPT !.at = a, !.row = rows[Len(rows)]]
      PROVE  ChainInv'
  <2>1. /\ chain' \in Chain /\ chain'.at = a /\ chain'.row = rows[Len(rows)]
        /\ chain'.max = chain.max
    BY <1>0, <1>4, <1>5 DEF Chain
  <2>2. Traces(rows', Len(rows'), chain'.row)
    BY <1>4, <2>1 DEF VerifyPolls, VerifyTimesOut, VerifyStops
  <2>. QED
    BY <1>0, <1>1, <2>1, <2>2
    DEF Inv, ChainInv, Placed, ChainTraces, Excludes, RetryLimit, SameLength
<1>6. Go("after") => ChainInv'
  BY <1>0, <1>1, ChainGoes
<1>7. ChainInv'
  BY <1>5, <1>6 DEF VerifyPolls, VerifyTimesOut, VerifyStops
<1>8. OnlyLastRuns'
  BY <1>0, <1>1, SameRuns
<1>. QED
  BY <1>1, <1>2, <1>3, <1>7, <1>8 DEF Inv

LEMMA InvVerifyFails ==
  ASSUME Inv, VerifyFails
  PROVE  Inv'
<1>0. chain \in Chain /\ chain.at = "polled" /\ Len(rows) > 0
  BY DEF Inv, ChainInv, Placed, VerifyFails
<1>1. SameLength /\ RowsInv' /\ NoneNew
  BY SameRows DEF VerifyFails
<1>2. StackInv' /\ LinksInv' /\ DelInv' /\ Bounded'
  BY <1>1, CopiesKept DEF VerifyFails, SameLength, Inv, Bounded
<1>3. /\ chain' \in Chain /\ chain'.at = "failing" /\ chain'.max = chain.max
      /\ SameLine(chain.row, chain'.row)
  <2>1. CASE chain' = [chain EXCEPT !.at = "failing"]
    BY <1>0, <2>1 DEF Chain, SameLine
  <2>2. CASE chain' = [chain EXCEPT !.at = "failing", !.row.failed = @ \cup {chain.row.offer}]
    <3> DEFINE q == [chain.row EXCEPT !.failed = @ \cup {chain.row.offer}]
    <3>1. SameLine(chain.row, q)
      BY <1>0, ChainFields, RowFields DEF SameLine, Row
    <3>2. chain' = [[chain EXCEPT !.at = "failing"] EXCEPT !.row = q]
      BY <1>0, <2>2 DEF Chain
    <3> HIDE DEF q
    <3>. QED
      BY <1>0, <3>1, <3>2 DEF Chain, SameLine
  <2>. QED
    BY <2>1, <2>2 DEF VerifyFails
<1>4. Traces(rows', Len(rows'), chain'.row)
  <2>1. rows' = rows
    BY DEF VerifyFails
  <2>. QED
    BY <1>0, <1>3, <2>1, Held, LineTraces
<1>5. ChainInv'
  BY <1>0, <1>1, <1>3, <1>4
  DEF Inv, ChainInv, Placed, ChainTraces, Excludes, RetryLimit, SameLength
<1>6. OnlyLastRuns'
  BY <1>0, <1>1, SameRuns
<1>. QED
  BY <1>1, <1>2, <1>5, <1>6 DEF Inv

\* It stores its copy: the only write that makes a session run is to the
\* newest one, and nothing but the row read again can go on from there.
LEMMA InvVerifyWrites ==
  ASSUME Inv, VerifySucceeds \/ failSession
  PROVE  Inv'
<1>0. chain \in Chain /\ chain.at \in {"polled", "failing"} /\ Len(rows) > 0
  BY DEF Inv, ChainInv, Placed, VerifySucceeds, failSession
<1>1. PICK s \in {"running", "failed"} :
        Update(Len(rows), [chain.row EXCEPT !.status = s])
  BY DEF VerifySucceeds, failSession
<1> DEFINE r == [chain.row EXCEPT !.status = s]
<1>2. SameLine(chain.row, r)
  BY <1>0, ChainFields DEF SameLine, Row, Active, Terminal
<1>3. /\ SameLength /\ RowsInv' /\ errors' \in 0..MaxErrors
      /\ \A j \in 1..Len(rows) :
           rows'[j].status = "running" => rows[j].status = "running" \/ j = Len(rows)
  <2>1. Update(Len(rows), r)
    BY <1>1
  <2> HIDE DEF r
  <2>. QED
    BY <1>0, <1>2, <2>1, LastWritten
<1>4. StackInv' /\ LinksInv' /\ DelInv' /\ Bounded'
  BY <1>3, CopiesKept DEF VerifySucceeds, failSession, SameLength, Inv, Bounded
<1>5. ChainInv' /\ chain'.at = "after"
  BY <1>0, <1>3, ChainGoes DEF VerifySucceeds, failSession
<1>6. OnlyLastRuns'
  BY <1>0, <1>3, <1>5 DEF Inv, OnlyLastRuns, SameLength
<1>. QED
  BY <1>3, <1>4, <1>5, <1>6 DEF Inv

LEMMA InvTriggerAsyncRetry ==
  ASSUME Inv, triggerAsyncRetry
  PROVE  Inv'
<1> DEFINE row == rows[Len(rows)]
           failed == FailedOffers(row)
           e == [ix |-> Len(rows), row |-> [row EXCEPT !.failed = failed]]
<1>0. chain \in Chain /\ chain.at = "after" /\ Len(rows) > 0
  BY DEF Inv, ChainInv, Placed, triggerAsyncRetry
<1>1. SameLength /\ RowsInv' /\ NoneNew /\ rows' = rows
  BY SameRows DEF triggerAsyncRetry
<1>2. LinksInv' /\ DelInv' /\ Bounded'
  BY <1>1, CopiesKept DEF triggerAsyncRetry, SameLength, Inv, Bounded
<1>3. CASE GiveUp
  <2>1. ChainInv' /\ chain'.at = "end" /\ StackInv'
    BY <1>1, <1>3, ChainGoes, CopiesKept DEF GiveUp, SameLength
  <2>2. OnlyLastRuns'
    BY <1>1, <2>1, SameRuns
  <2>. QED
    BY <1>1, <1>2, <2>1, <2>2 DEF Inv
<1>4. ASSUME ToRetry, stack' = <<e>>,
             NEW ms \in {{}, {Machine[row.offer]}},
             chain' = [chain EXCEPT !.at = "find", !.failed = failed, !.machines = ms]
      PROVE  Inv'
  <2>1. Len(rows) \in Nat /\ Len(rows) \in 1..Len(rows) /\ row \in Row
    BY <1>0, Lengths DEF Inv
  <2>2. failed \subseteq Offers /\ row.offer \in failed /\ row.offer \in Offers
    BY <2>1, RowFields DEF FailedOffers
  <2>3. ms \subseteq Machines /\ chain.max \in Nat
    BY <1>0, <2>2, ChainFields, AutoRetryAssumption
  <2>4. \A j \in 1..Len(rows) : rows[j].offer \in failed
    <3>1. Traces(rows, Len(rows), row)
      BY <2>1 DEF Inv, RowsInv
    <3>. QED
      BY <2>1, <3>1 DEF Traces, FailedOffers
  <2>5. row.status = "failed" /\ Len(rows) <= chain.max
    BY <1>4, <2>1, <2>3 DEF ToRetry, MayRetry
  <2> HIDE DEF failed, row
  <2>6. /\ e \in Copy /\ e.ix = Len(rows) /\ e.row.offer = row.offer
        /\ e.row.failed = failed /\ e.row.status = "failed"
    <3>1. [row EXCEPT !.failed = failed] \in Row
      BY <2>1, <2>2 DEF Row
    <3>. QED
      BY <2>1, <2>2, <2>5, <3>1 DEF Row, Copy
  <2> HIDE DEF e
  <2>7. Older(rows, e)
    BY <2>1, <2>4, <2>6 DEF Older, Traces, row
  <2>8. StackInv'
    BY <1>1, <1>4, <2>6, <2>7 DEF StackInv
  <2>9. /\ chain' \in Chain /\ chain'.at = "find" /\ chain'.failed = failed
        /\ chain'.max = chain.max
    BY <1>0, <1>4, <2>2, <2>3 DEF Chain
  <2>10. ChainInv'
    BY <1>0, <1>1, <2>1, <2>3, <2>4, <2>5, <2>9
    DEF ChainInv, Placed, ChainTraces, Excludes, RetryLimit
  <2>11. OnlyLastRuns'
    BY <1>1, <2>1, <2>5 DEF Inv, OnlyLastRuns, row
  <2>. QED
    BY <1>1, <1>2, <2>8, <2>10, <2>11 DEF Inv
<1>. QED
  BY <1>3, <1>4 DEF triggerAsyncRetry

-----------------------------------------------------------------------------
(* A DELETE, and other requests                                            *)

LEMMA InvDestroySession ==
  ASSUME Inv, NEW i \in 1..Len(rows), DestroySession(i)
  PROVE  Inv'
<1>1. rows[i] \in Row /\ Traces(rows, i, rows[i]) /\ Len(rows) \in Nat
  BY ElementOfSeq, Lengths DEF Inv, RowsInv
<1> DEFINE q == [rows[i] EXCEPT !.status = "stopping"]
           p == [rows[i] EXCEPT !.inst = FALSE]
<1>2. SameLine(rows[i], q) /\ q.status = "stopping"
  BY <1>1 DEF SameLine, Row
<1>3. SameLine(rows[i], p)
  BY <1>1 DEF SameLine, Row
<1>4. \/ Update(i, q) /\ del' = [ix |-> i, row |-> q]
      \/ UNCHANGED <<rows, errors>> /\ del' = [ix |-> i, row |-> p]
  BY DEF DestroySession
<1> HIDE DEF p, q
<1>5. /\ SameLength /\ RowsInv' /\ NoneNew /\ errors' \in 0..MaxErrors
  <2>1. CASE Update(i, q)
    BY <1>1, <1>2, <2>1, Writes, LineTraces DEF SameLength, NoneNew, SameLine
  <2>2. CASE UNCHANGED <<rows, errors>>
    BY <2>2, SameRows DEF Inv, Bounded
  <2>. QED
    BY <1>4, <2>1, <2>2
<1>6. DelInv'
  <2>1. Older(rows, [ix |-> i, row |-> q]) /\ Older(rows, [ix |-> i, row |-> p])
    BY <1>1, <1>2, <1>3, LineTraces DEF Older, Copy, SameLine
  <2>2. Older(rows, del')
    BY <1>4, <2>1
  <2>3. Older(rows', del')
    BY <1>5, <2>2, OlderKept DEF Inv, SameLength
  <2>. QED
    BY <2>3 DEF DelInv, Older
<1>7. StackInv' /\ LinksInv' /\ Bounded'
  BY <1>5, CopiesKept DEF DestroySession, SameLength, Inv, Bounded
<1>8. ChainInv' /\ OnlyLastRuns'
  BY <1>5, ChainKept, SameRuns DEF DestroySession
<1>. QED
  BY <1>5, <1>6, <1>7, <1>8 DEF Inv

LEMMA InvDestroyFinishes ==
  ASSUME Inv, DestroyFinishes
  PROVE  Inv'
<1> DEFINE r == [del.row EXCEPT !.status = "stopped"]
<1>1. del.ix \in 1..Len(rows) /\ del.row \in Row /\ Traces(rows, del.ix, del.row)
  BY DEF Inv, DelInv, Older, Copy, DestroyFinishes
<1>2. SameLine(del.row, r) /\ r.status = "stopped"
  BY <1>1 DEF SameLine, Row, Terminal
<1>3. Update(del.ix, r) \/ (Error /\ UNCHANGED rows)
  BY DEF DestroyFinishes
<1> HIDE DEF r
<1>4. SameLength /\ RowsInv' /\ NoneNew /\ errors' \in 0..MaxErrors
  <2>1. CASE Update(del.ix, r)
    BY <1>1, <1>2, <2>1, Writes, LineTraces DEF SameLength, NoneNew, SameLine
  <2>2. CASE Error /\ UNCHANGED rows
    BY <2>2, SameRows, ErrorBound
  <2>. QED
    BY <1>3, <2>1, <2>2
<1>5. StackInv' /\ LinksInv' /\ DelInv' /\ Bounded'
  BY <1>4, CopiesKept DEF DestroyFinishes, SameLength, Inv, Bounded
<1>6. ChainInv' /\ OnlyLastRuns'
  BY <1>4, ChainKept, SameRuns DEF DestroyFinishes
<1>. QED
  BY <1>4, <1>5, <1>6 DEF Inv

LEMMA InvOtherRequest ==
  ASSUME Inv, NEW o \in Offers, OtherRequest(o)
  PROVE  Inv'
<1>1. SameLength /\ RowsInv' /\ NoneNew
  BY SameRows DEF OtherRequest
<1>2. StackInv' /\ LinksInv' /\ DelInv' /\ Bounded'
  BY <1>1, CopiesKept DEF OtherRequest, SameLength, Inv, Bounded
<1>3. ChainInv' /\ OnlyLastRuns'
  BY <1>1, ChainKept, SameRuns DEF OtherRequest
<1>. QED
  BY <1>1, <1>2, <1>3 DEF Inv

-----------------------------------------------------------------------------
(* The theorems                                                            *)

LEMMA InvInit == Init => Inv
<1>. SUFFICES ASSUME Init PROVE Inv
  OBVIOUS
<1>1. chain \in Chain /\ chain.at = "idle" /\ chain.max = 0 /\ del \in Copy /\ del.ix = 0
  BY IdleTypes DEF Init
<1>2. rows = <<>> /\ Len(rows) = 0 /\ rows \in Seq(Row)
  BY DEF Init
<1>3. stack = <<>> /\ Len(stack) = 0 /\ stack \in Seq(Copy) /\ links = {}
  BY DEF Init
<1>4. RowsInv
  BY <1>2 DEF RowsInv, OfferOnce
<1>5. ChainInv
  BY <1>1, <1>2 DEF ChainInv, Placed, ChainTraces, Excludes, RetryLimit
<1>6. StackInv /\ LinksInv /\ DelInv /\ OnlyLastRuns
  BY <1>1, <1>2, <1>3 DEF StackInv, LinksInv, DelInv, OnlyLastRuns
<1>7. Bounded
  BY AutoRetryAssumption DEF Init, Bounded
<1>. QED
  BY <1>4, <1>5, <1>6, <1>7 DEF Inv

LEMMA InvStep == Inv /\ [Next]_vars => Inv'
<1>. SUFFICES ASSUME Inv, [Next]_vars PROVE Inv'
  OBVIOUS
<1>1. CASE UNCHANGED vars
  <2>1. SameLength /\ RowsInv' /\ NoneNew
    BY <1>1, SameRows DEF vars
  <2>2. StackInv' /\ LinksInv' /\ DelInv' /\ Bounded'
    BY <1>1, <2>1, CopiesKept DEF vars, SameLength, Inv, Bounded
  <2>3. ChainInv' /\ OnlyLastRuns'
    BY <1>1, <2>1, ChainKept, SameRuns DEF vars
  <2>. QED
    BY <2>1, <2>2, <2>3 DEF Inv
<1>2. CASE Work
  BY <1>2, InvInsertSession, InvProvisionSession, InvCreateSucceeds, InvCreateFails,
     InvSelectFromTopN, InvVerifyReads, InvVerifyFails, InvVerifyWrites,
     InvTriggerAsyncRetry
  DEF Work
<1>3. CASE Next
  BY <1>2, <1>3, InvCreateSession, InvLinkParent, InvDestroySession, InvDestroyFinishes,
     InvOtherRequest
  DEF Next
<1>. QED
  BY <1>1, <1>3

LEMMA InvAlways == Spec => []Inv
BY InvInit, InvStep, PTL DEF Spec

\* The retry chain's state has its type: every copy of a session that a
\* goroutine or a returning frame still holds is a copy of one of the sessions.
THEOREM AutoRetryTypeCorrect == Spec => []TypeOK
<1>1. Inv => TypeOK
  <2>. SUFFICES ASSUME Inv PROVE TypeOK
    OBVIOUS
  <2>1. Len(rows) \in Nat
    BY Lengths DEF Inv
  <2>2. del \in Copy /\ del.ix \in 0..Len(rows)
    BY <2>1 DEF Inv, DelInv, Older
  <2>3. links \subseteq Copy /\ \A l \in links : l.ix \in 1..Len(rows)
    BY DEF Inv, LinksInv, Older
  <2>. QED
    BY <2>2, <2>3 DEF Inv, RowsInv, StackInv, Older, ChainInv, Bounded, TypeOK
<1>. QED
  BY <1>1, InvAlways, PTL

\* No offer is tried twice for one request, wherever its attempts fail: every
\* row and every copy carries the offers tried before it in failed_offers.
THEOREM OfferOnceAlways == Spec => []OfferOnce
<1>1. Inv => OfferOnce
  BY DEF Inv, RowsInv
<1>. QED
  BY <1>1, InvAlways, PTL

\* A request makes at most max_retries sessions after its first one.
THEOREM RetryLimitAlways == Spec => []RetryLimit
<1>1. Inv => RetryLimit
  BY DEF Inv, ChainInv
<1>. QED
  BY <1>1, InvAlways, PTL

\* Only the newest session of a request can run: no late write of an older
\* copy makes another one run.
THEOREM RunningIsLastAlways == Spec => []RunningIsLast
<1>1. Inv => RunningIsLast
  BY DEF Inv, OnlyLastRuns, RunningIsLast
<1>. QED
  BY <1>1, InvAlways, PTL

=============================================================================
