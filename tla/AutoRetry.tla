------------------------------ MODULE AutoRetry ------------------------------
(***************************************************************************)
(* auto_retry: when an offer turns out to be stale, or its instance never  *)
(* becomes usable, the provisioner goes on with a comparable offer, first  *)
(* inside the request (createSessionWithRetry calls itself) and then in    *)
(* the verification goroutine (triggerAsyncRetry).                         *)
(*                                                                         *)
(*   rows   the sessions made for one request, oldest first: the chain.   *)
(*          failed is the column failed_offers, child retry_child_id (0:   *)
(*          none), inst "the row has a provider instance id"; the column   *)
(*          retry_count is the place in the chain less one                 *)
(*   chain  the goroutine that works for the request: its own first, then  *)
(*          the verification's.  row is its copy of the newest session,    *)
(*          failed and machines are what it excludes from the search       *)
(*   stack  the copies of older sessions that wait for a child             *)
(*   links  links to be stored by frames that are returning                *)
(*   del    a DELETE of one of the sessions: its place, and the copy       *)
(*   other  the offers for which the consumer has active sessions that     *)
(*          other requests made                                            *)
(*                                                                         *)
(* What the inventory lists at a given moment, and what is suppressed,     *)
(* comparable and within the price limit of it, is any set of offers       *)
(* (OfferCache and FailureTracker say how it comes about).                 *)
(***************************************************************************)
EXTENDS Naturals, Sequences, FiniteSets

CONSTANTS
  Offers,
  Machines,
  Machine,        \* Machine[o]: the host of offer o
  Wanted,         \* the values of max_retries that requests ask for
  Default, Most,  \* max_retries: 3 unless given, never more than 5
  MaxOther,       \* bound: sessions of the consumer's other requests
  MaxErrors       \* bound: failed calls of the store and of the providers

ASSUME AutoRetryAssumption ==
  /\ Offers # {} /\ Machine \in [Offers -> Machines]
  /\ Wanted \subseteq Nat
  /\ Default \in Nat /\ Most \in Nat /\ Default <= Most
  /\ MaxOther \in Nat /\ MaxErrors \in Nat

VARIABLES rows, chain, stack, links, del, other, errors

vars == <<rows, chain, stack, links, del, other, errors>>

Active == {"pending", "provisioning", "running"}
Terminal == {"stopped", "failed"}

Row == [offer : Offers, status : Active \cup {"stopping"} \cup Terminal,
        failed : SUBSET Offers, child : Nat, inst : BOOLEAN]

NewRow(o, failed) ==
  [offer |-> o, status |-> "pending", failed |-> failed, child |-> 0, inst |-> FALSE]

AnyRow == NewRow(CHOOSE o \in Offers : TRUE, {})

Idle == [at |-> "idle", max |-> 0, offer |-> AnyRow.offer, row |-> AnyRow,
         failed |-> {}, machines |-> {}]

NoDelete == [ix |-> 0, row |-> AnyRow]

Chain == [at : {"idle", "insert", "provision", "create", "find", "verify", "polled",
                "failing", "after", "end"},
          max : 0..Most, offer : Offers, row : Row,
          failed : SUBSET Offers, machines : SUBSET Machines]

\* A copy of a session, and which one it is of.
Copy == [ix : Nat, row : Row]

TypeOK ==
  /\ rows \in Seq(Row)
  /\ chain \in Chain
  /\ stack \in Seq(Copy) /\ \A i \in 1..Len(stack) : stack[i].ix \in 1..Len(rows)
  /\ links \subseteq Copy /\ \A l \in links : l.ix \in 1..Len(rows)
  /\ del \in Copy /\ del.ix \in 0..Len(rows)
  /\ other \subseteq Offers
  /\ errors \in 0..MaxErrors

Init ==
  /\ rows = <<>>
  /\ chain = Idle
  /\ stack = <<>>
  /\ links = {}
  /\ del = NoDelete
  /\ other = {}
  /\ errors = 0

-----------------------------------------------------------------------------
(* The sessions table                                                      *)

\* GetActiveSessionByConsumerAndOffer; also what the unique index looks at.
Taken(o, i) ==
  \/ o \in other
  \/ \E j \in 1..Len(rows) \ {i} : rows[j].offer = o /\ rows[j].status \in Active

Error == errors < MaxErrors /\ errors' = errors + 1

Allowed(i, row) == row.status \in Active => ~Taken(row.offer, i)

Stored(i, row) ==
  Allowed(i, row) /\ rows' = [rows EXCEPT ![i] = row] /\ UNCHANGED errors

NotStored(i, row) ==
  UNCHANGED rows /\ (Error \/ (~Allowed(i, row) /\ UNCHANGED errors))

\* Update by a caller that only logs an error.
Update(i, row) == Stored(i, row) \/ NotStored(i, row)

\* The goroutine goes on and needs nothing of what it holds.
Go(at) == chain' = [Idle EXCEPT !.at = at, !.max = chain.max]

\* The chain has come to its end: no frame links anything any more.
GiveUp == Go("end") /\ stack' = <<>>

-----------------------------------------------------------------------------
(* createSessionWithRetry                                                  *)

\* Mutant: no upper limit.
Uncapped(m) == IF m = 0 THEN Default ELSE m

Capped(m) == IF m = 0 THEN Default ELSE IF m > Most THEN Most ELSE m

\* CreateSession caps max_retries, and the first attempt looks for a twin.
CreateSession(o, m) ==
  /\ chain.at = "idle"
  /\ chain' = [Idle EXCEPT !.at = IF Taken(o, 0) THEN "end" ELSE "insert",
                           !.max = Capped(m), !.offer = o]
  /\ UNCHANGED <<rows, stack, links, del, other, errors>>

\* Create: the index refuses a twin that came in between, for a retry too.
InsertSession ==
  /\ chain.at = "insert"
  /\ LET row == NewRow(chain.offer, chain.failed)
     IN  \/ /\ ~Taken(row.offer, 0)
            /\ rows' = Append(rows, row)
            /\ chain' = [chain EXCEPT !.at = "provision", !.row = row]
            /\ UNCHANGED <<stack, errors>>
         \/ /\ Taken(row.offer, 0)
            /\ GiveUp
            /\ UNCHANGED <<rows, errors>>
         \/ /\ Error
            /\ GiveUp
            /\ UNCHANGED rows
  /\ UNCHANGED <<links, del, other>>

ProvisionSession ==
  /\ chain.at = "provision"
  /\ LET row == [chain.row EXCEPT !.status = "provisioning"]
     IN  /\ Update(Len(rows), row)
         /\ chain' = [chain EXCEPT !.at = "create", !.row = row]
  /\ UNCHANGED <<stack, links, del, other>>

\* CreateInstance succeeds.  The waiting frames return one after the other,
\* each storing its link, while the verification goroutine has started.
CreateSucceeds ==
  /\ chain.at = "create"
  /\ LET row == [chain.row EXCEPT !.inst = TRUE]
     IN  \/ /\ Stored(Len(rows), row)
            /\ Go("verify")
            /\ links' = links \cup
                 {[stack[i] EXCEPT !.row.child = Len(rows)] : i \in 1..Len(stack)}
            /\ stack' = <<>>
         \/ /\ NotStored(Len(rows), row)
            /\ GiveUp
            /\ UNCHANGED links
  /\ UNCHANGED <<del, other>>

\* Mutant: one retry too many.
MayRetryMore(n, max) == n <= max + 1

\* retryCount < MaxRetries, for the n-th session of a chain.
MayRetry(n, max) == n - 1 < max

\* CreateInstance fails: failSession, then, when the offer was stale, the
\* search for another one.
CreateFails ==
  /\ chain.at = "create"
  /\ LET c == chain
         row == [c.row EXCEPT !.status = "failed"]
         failed == c.failed \cup {c.offer}
     IN  /\ Update(Len(rows), row)
         /\ \/ GiveUp    \* not stale
            \/ /\ ~MayRetry(Len(rows), c.max)
               /\ GiveUp
            \/ /\ MayRetry(Len(rows), c.max)
               /\ chain' = [chain EXCEPT !.at = "find", !.failed = failed,
                              !.machines = @ \cup {Machine[c.offer]}]
               /\ stack' = Append(stack, [ix |-> Len(rows), row |-> [row EXCEPT !.failed = failed]])
  /\ UNCHANGED <<links, del, other>>

\* FindComparableOffers: the offers that may be tried, of all that the
\* inventory can ever list.
FindComparableOffers(failed, machines) ==
  {o \in Offers \ failed : Machine[o] \notin machines}

\* SelectFromTopN takes one of those that are listed and within the price
\* limits now; there may be none.
SelectFromTopN ==
  /\ chain.at = "find"
  /\ \/ GiveUp
     \/ /\ \E o \in FindComparableOffers(chain.failed, chain.machines) :
             chain' = [chain EXCEPT !.at = "insert", !.offer = o]
        /\ UNCHANGED stack
  /\ UNCHANGED <<rows, links, del, other, errors>>

\* RetryChildID is stored with a copy of the parent, whatever has become of
\* the parent since.
LinkParent ==
  /\ \E l \in links :
       /\ Update(l.ix, l.row)
       /\ links' = links \ {l}
  /\ UNCHANGED <<chain, stack, del, other>>

-----------------------------------------------------------------------------
(* waitForSSHVerifyAsyncWithRetry                                          *)

\* A poll reads the row and gives up on a terminal one; the timeout reads it
\* and does not look at the status.
VerifyPolls ==
  /\ chain.at = "verify"
  /\ LET row == rows[Len(rows)]
     IN  IF row.status \in Terminal THEN Go("after")
         ELSE chain' = [chain EXCEPT !.at = "polled", !.row = row]
  /\ UNCHANGED <<rows, stack, links, del, other, errors>>

VerifyTimesOut ==
  /\ chain.at = "verify"
  /\ chain' = [chain EXCEPT !.at = "failing", !.row = rows[Len(rows)]]
  /\ UNCHANGED <<rows, stack, links, del, other, errors>>

\* The context ends, or the timeout cannot read the row.
VerifyStops ==
  /\ chain.at = "verify"
  /\ Error
  /\ Go("after")
  /\ UNCHANGED <<rows, stack, links, del, other>>

\* After the poll: SSH works, or the instance has stopped, vanished or refuses
\* the key for good.  The last of these adds the offer to failed_offers itself.
VerifySucceeds ==
  /\ chain.at = "polled"
  /\ Update(Len(rows), [chain.row EXCEPT !.status = "running"])
  /\ Go("after")
  /\ UNCHANGED <<stack, links, del, other>>

VerifyFails ==
  /\ chain.at = "polled"
  /\ \/ chain' = [chain EXCEPT !.at = "failing"]
     \/ chain' = [chain EXCEPT !.at = "failing", !.row.failed = @ \cup {chain.row.offer}]
  /\ UNCHANGED <<rows, stack, links, del, other, errors>>

\* failSession: the provider is called, then the copy is stored as failed.
failSession ==
  /\ chain.at = "failing"
  /\ Update(Len(rows), [chain.row EXCEPT !.status = "failed"])
  /\ Go("after")
  /\ UNCHANGED <<stack, links, del, other>>

\* Mutant: the session's status is not looked at.
ToRetryBlind == MayRetry(Len(rows), chain.max)

\* The row is read again: has the session failed, and may it be retried?
ToRetry ==
  rows[Len(rows)].status = "failed" /\ MayRetry(Len(rows), chain.max)

\* Mutant: only the offer that failed last is excluded.
FailedOffersLast(row) == {row.offer}

FailedOffers(row) == row.failed \cup {row.offer}

\* triggerAsyncRetry.  The failed offer was evicted: GetOffer finds it again
\* or the stand-in has no machine id.  Earlier machines are not remembered.
triggerAsyncRetry ==
  /\ chain.at = "after"
  /\ LET row == rows[Len(rows)]
         failed == FailedOffers(row)
     IN  IF ~ToRetry
         THEN GiveUp
         ELSE /\ \E ms \in {{}, {Machine[row.offer]}} :
                   chain' = [chain EXCEPT !.at = "find", !.failed = failed,
                                          !.machines = ms]
              /\ stack' = <<[ix |-> Len(rows), row |-> [row EXCEPT !.failed = failed]]>>
  /\ UNCHANGED <<rows, links, del, other, errors>>

-----------------------------------------------------------------------------
(* DELETE of a session while its chain goes on: DestroySession             *)

DestroySession(i) ==
  /\ del.ix = 0 /\ i \in 1..Len(rows)
  /\ LET row == rows[i]
         copy == [row EXCEPT !.status = "stopping"]
     IN  \/ /\ row.status \in Active
            /\ Update(i, copy)
            /\ del' = [ix |-> i, row |-> copy]
         \/ /\ row.status = "failed" /\ row.inst
            /\ del' = [ix |-> i, row |-> [row EXCEPT !.inst = FALSE]]
            /\ UNCHANGED <<rows, errors>>
  /\ UNCHANGED <<chain, stack, links, other>>

DestroyFinishes ==
  /\ del.ix # 0
  /\ \/ Update(del.ix, [del.row EXCEPT !.status = "stopped"])
     \/ /\ del.row.status = "stopping"    \* destroyWithVerification fails
        /\ Error
        /\ UNCHANGED rows
  /\ del' = NoDelete
  /\ UNCHANGED <<chain, stack, links, other>>

\* Another request of the consumer gets a session on an offer.
OtherRequest(o) ==
  /\ Cardinality(other) < MaxOther
  /\ ~Taken(o, 0)
  /\ other' = other \cup {o}
  /\ UNCHANGED <<rows, chain, stack, links, del, errors>>

-----------------------------------------------------------------------------
Work ==
  \/ InsertSession \/ ProvisionSession \/ CreateSucceeds \/ CreateFails
  \/ SelectFromTopN
  \/ VerifyPolls \/ VerifyTimesOut \/ VerifyStops
  \/ VerifySucceeds \/ VerifyFails \/ failSession \/ triggerAsyncRetry

Next ==
  \/ \E o \in Offers, m \in Wanted : CreateSession(o, m)
  \/ Work
  \/ LinkParent
  \/ \E i \in 1..Len(rows) : DestroySession(i)
  \/ DestroyFinishes
  \/ \E o \in Offers : OtherRequest(o)

Spec == Init /\ [][Next]_vars

-----------------------------------------------------------------------------
(* Properties                                                              *)

\* No offer is tried twice for one request, however its failures are spread
\* over the request and the verification goroutines: what the one excluded
\* reaches the other through the column failed_offers.
OfferOnce ==
  \A i, j \in 1..Len(rows) :
    i # j => rows[i].offer # rows[j].offer

\* A request makes one session and at most max_retries more, sessions made in
\* the request and after it counted together.
RetryLimit == Len(rows) <= chain.max + 1

\* Nothing is tried after a session that runs: the consumer would pay for two.
\* A DELETE and the links are stored late and from copies, and still none of
\* them makes an older session run.
RunningIsLast ==
  \A i \in 1..Len(rows) :
    rows[i].status = "running" => i = Len(rows)

=============================================================================
