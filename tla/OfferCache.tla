----------------------------- MODULE OfferCache -----------------------------
(***************************************************************************)
(* The inventory service: offers of the providers, cached per provider and *)
(* filter, served stale while a background goroutine refreshes them.       *)
(*                                                                         *)
(*   market   the offers the providers really have                         *)
(*   cache[k] the entry of key k, or None.  age is "fresh" until           *)
(*            softExpiry, "stale" until expiresAt, then "expired"; an      *)
(*            entry in backoff holds an error and is never stale           *)
(*   call[c]  a client's ListOffers or GetOffer: at[k] is where the        *)
(*            goroutine for key k stands, got[k] the offers it holds       *)
(*   refr[g]  a background refresh                                         *)
(*   errors   failed provider calls so far                                 *)
(* Every step between two uses of the mutex, and every call of a provider, *)
(* is an action.  Suppressed offers are left out by filterAndSort; that is *)
(* FailureTracker's and AutoRetry's subject.  Nothing calls Shutdown, so   *)
(* shutdownCh is never closed and the looks at it are not modelled: a      *)
(* refresh that is under way when the server exits is just lost.           *)
(***************************************************************************)
EXTENDS Naturals

CONSTANTS
  Clients,        \* goroutines of the API and of the provisioner
  Refreshers,     \* bound: background refreshes at the same time
  Offers, NoOffer,
  Keys,           \* cache keys: provider and filter
  Listings,       \* for each filter, the keys of all providers with it
  Unfiltered,     \* the keys without a filter, one for each provider
  Admits,         \* Admits[k]: the offers that match the key's filter
  None,           \* no cache entry
  MaxErrors       \* bound: failed provider calls

ASSUME OfferCacheAssumption ==
  /\ Listings \subseteq SUBSET Keys
  /\ Unfiltered \in Listings
  /\ Admits \in [Keys -> SUBSET Offers]
  /\ NoOffer \notin Offers
  /\ MaxErrors \in Nat

VARIABLES market, cache, call, refr, errors

vars == <<market, cache, call, refr, errors>>

Entries ==
  {e \in [offers : SUBSET Offers, age : {"fresh", "stale", "expired"},
          err : BOOLEAN, refreshing : BOOLEAN] :
     e.err => e.offers = {} /\ e.age # "stale"}

ASSUME KeysAssumption == Keys # {} /\ None \notin Entries

Filled(os) == [offers |-> os, age |-> "fresh", err |-> FALSE, refreshing |-> FALSE]
Backoff == [offers |-> {}, age |-> "fresh", err |-> TRUE, refreshing |-> FALSE]

Idle == [op |-> "idle", want |-> NoOffer, at |-> [k \in Keys |-> "off"],
         got |-> [k \in Keys |-> {}]]
Free == [at |-> "free", key |-> CHOOSE k \in Keys : TRUE, got |-> {}]

Calls == [op : {"idle", "list", "get"}, want : Offers \cup {NoOffer},
          at : [Keys -> {"off", "look", "trigger", "fetch", "fetched", "failed",
                         "ok", "err"}],
          got : [Keys -> SUBSET Offers]]

Refreshes == [at : {"free", "call", "fetched", "failed"},
              key : Keys, got : SUBSET Offers]

TypeOK ==
  /\ market \subseteq Offers
  /\ cache \in [Keys -> Entries \cup {None}]
  /\ call \in [Clients -> Calls]
  /\ refr \in [Refreshers -> Refreshes]
  /\ errors \in 0..MaxErrors

Init ==
  /\ market \in SUBSET Offers
  /\ cache = [k \in Keys |-> None]
  /\ call = [c \in Clients |-> Idle]
  /\ refr = [g \in Refreshers |-> Free]
  /\ errors = 0

-----------------------------------------------------------------------------
(* A client                                                                *)

Start(c, op, o, ks) ==
  call' = [call EXCEPT ![c] = [Idle EXCEPT !.op = op, !.want = o,
             !.at = [k \in Keys |-> IF k \in ks THEN "look" ELSE "off"]]]

\* ListOffers with a filter: of one provider, or of all of them, each in a
\* goroutine of its own.
ListOffers(c) ==
  /\ call[c].op = "idle"
  /\ \E ks \in {{k} : k \in Keys} \cup Listings : Start(c, "list", NoOffer, ks)
  /\ UNCHANGED <<market, cache, refr, errors>>

\* GetOffer: an offer that some entry holds is returned at once, otherwise
\* all providers are listed.
GetOffer(c, o) ==
  /\ call[c].op = "idle"
  /\ ~\E k \in Keys : cache[k] # None /\ ~cache[k].err /\ o \in cache[k].offers
  /\ Start(c, "get", o, Unfiltered)
  /\ UNCHANGED <<market, cache, refr, errors>>

\* getOffersWithCache
getOffersWithCache(c, k) ==
  /\ call[c].at[k] = "look"
  /\ LET e == cache[k]
         go(at, os) == call' = [call EXCEPT ![c].at[k] = at, ![c].got[k] = os]
     IN  \/ e # None /\ e.age = "fresh" /\ e.err /\ go("err", {})
         \/ e # None /\ e.age = "fresh" /\ ~e.err /\ go("ok", e.offers)
         \/ /\ e # None /\ e.age = "stale" /\ ~e.err /\ e.offers # {}
            /\ go("trigger", e.offers)
         \/ /\ \/ e = None
               \/ e # None /\ (e.age = "expired" \/ (e.age = "stale" /\ e.offers = {}))
            /\ go("fetch", {})
  /\ UNCHANGED <<market, cache, refr, errors>>

\* triggerBackgroundRefresh looks at the flag under the lock.  The entry may be
\* another one by now, or none: then the refresh starts without a flag.
triggerBackgroundRefresh(c, k) ==
  /\ call[c].at[k] = "trigger"
  /\ call' = [call EXCEPT ![c].at[k] = "ok"]
  /\ IF cache[k] # None /\ cache[k].refreshing
     THEN UNCHANGED <<cache, refr>>
     ELSE /\ cache' = IF cache[k] = None THEN cache
                      ELSE [cache EXCEPT ![k].refreshing = TRUE]
          /\ \E g \in Refreshers :
               /\ refr[g].at = "free"
               /\ refr' = [refr EXCEPT ![g] = [Free EXCEPT !.at = "call", !.key = k]]
  /\ UNCHANGED <<market, errors>>

\* fetchOffersSync: the provider answers, or the call fails (the client's own
\* cancellation included), and then the entry is replaced.
fetchOffersSync(c, k) ==
  /\ call[c].at[k] = "fetch"
  /\ \/ /\ call' = [call EXCEPT ![c].at[k] = "fetched",
                                ![c].got[k] = market \cap Admits[k]]
        /\ UNCHANGED errors
     \/ /\ errors < MaxErrors
        /\ errors' = errors + 1
        /\ call' = [call EXCEPT ![c].at[k] = "failed"]
  /\ UNCHANGED <<market, cache, refr>>

storeFetched(c, k) ==
  /\ call[c].at[k] \in {"fetched", "failed"}
  /\ LET ok == call[c].at[k] = "fetched"
     IN  /\ cache' = [cache EXCEPT ![k] = IF ok THEN Filled(call[c].got[k]) ELSE Backoff]
         /\ call' = [call EXCEPT ![c].at[k] = IF ok THEN "ok" ELSE "err"]
  /\ UNCHANGED <<market, refr, errors>>

\* The call returns once every goroutine is through: with an error only when
\* all of them failed.
Return(c) ==
  /\ call[c].op # "idle"
  /\ \A k \in Keys : call[c].at[k] \in {"off", "ok", "err"}
  /\ call' = [call EXCEPT ![c] = Idle]
  /\ UNCHANGED <<market, cache, refr, errors>>

\* EvictOffer: the first entry found that holds the offer loses it.
EvictOffer(o) ==
  /\ \E k \in Keys :
       /\ cache[k] # None /\ o \in cache[k].offers
       /\ cache' = [cache EXCEPT ![k].offers = @ \ {o}]
  /\ UNCHANGED <<market, call, refr, errors>>

\* InvalidateCache of one provider, or of all.
InvalidateCache(ks) ==
  /\ cache' = [k \in Keys |-> IF k \in ks THEN None ELSE cache[k]]
  /\ UNCHANGED <<market, call, refr, errors>>

-----------------------------------------------------------------------------
(* A background refresh                                                    *)

\* Mutant: a failed refresh keeps its flag.
KeptFlag(ca, k) == ca

\* The flag of whatever entry there is now is taken down.
Unflagged(ca, k) ==
  IF ca[k] = None THEN ca ELSE [ca EXCEPT ![k].refreshing = FALSE]

\* The goroutine asks the provider.
refreshFetches(g) ==
  /\ refr[g].at = "call"
  /\ \/ /\ refr' = [refr EXCEPT ![g].at = "fetched",
                                ![g].got = market \cap Admits[refr[g].key]]
        /\ UNCHANGED errors
     \/ /\ errors < MaxErrors
        /\ errors' = errors + 1
        /\ refr' = [refr EXCEPT ![g].at = "failed"]
  /\ UNCHANGED <<market, cache, call>>

\* An error keeps the old entry, a success replaces it, whatever has become
\* of it since.
refreshStores(g) ==
  /\ refr[g].at \in {"fetched", "failed"}
  /\ cache' = IF refr[g].at = "failed" THEN Unflagged(cache, refr[g].key)
              ELSE [cache EXCEPT ![refr[g].key] = Filled(refr[g].got)]
  /\ refr' = [refr EXCEPT ![g] = Free]
  /\ UNCHANGED <<market, call, errors>>

-----------------------------------------------------------------------------
\* Mutant: an entry in backoff has a softExpiry too.
AgeInBackoff(k) ==
  /\ cache[k] # None /\ cache[k].age # "expired"
  /\ cache' = [cache EXCEPT ![k].age = IF @ = "fresh" THEN "stale" ELSE "expired"]
  /\ UNCHANGED <<market, call, refr, errors>>

\* Time: softExpiry and expiresAt pass.
Age(k) ==
  /\ cache[k] # None /\ cache[k].age # "expired"
  /\ cache' = [cache EXCEPT ![k].age =
                 IF @ = "fresh" /\ ~cache[k].err THEN "stale" ELSE "expired"]
  /\ UNCHANGED <<market, call, refr, errors>>

\* An offer is rented by somebody, or comes back.
Market(o) ==
  /\ market' = IF o \in market THEN market \ {o} ELSE market \cup {o}
  /\ UNCHANGED <<cache, call, refr, errors>>

Work(c) ==
  \/ \E k \in Keys :
       \/ getOffersWithCache(c, k) \/ triggerBackgroundRefresh(c, k)
       \/ fetchOffersSync(c, k) \/ storeFetched(c, k)
  \/ Return(c)

Refresh(g) == refreshFetches(g) \/ refreshStores(g)

Next ==
  \/ \E c \in Clients : ListOffers(c) \/ Work(c) \/ \E o \in Offers : GetOffer(c, o)
  \/ \E g \in Refreshers : Refresh(g)
  \/ \E o \in Offers : EvictOffer(o) \/ Market(o)
  \/ \E ks \in {{k} : k \in Keys} \cup {Keys} : InvalidateCache(ks)
  \/ \E k \in Keys : Age(k)

Spec == Init /\ [][Next]_vars

-----------------------------------------------------------------------------
(* Properties                                                              *)

\* An entry that says it is being refreshed is: some goroutine is at it and
\* will take the flag down.  A flag left behind would stop refreshes for as
\* long as the entry lives.
FlagHasRefresh ==
  \A k \in Keys :
    (cache[k] # None /\ cache[k].refreshing)
      => \E g \in Refreshers : refr[g].at # "free" /\ refr[g].key = k

=============================================================================
