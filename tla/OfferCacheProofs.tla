-------------------------- MODULE OfferCacheProofs --------------------------
(* Proofs about OfferCache, for any number of clients, refreshes and keys. *)
EXTENDS OfferCache, TLAPS

-----------------------------------------------------------------------------
(* Types                                                                   *)

LEMMA Constants ==
  /\ Idle \in Calls
  /\ Free \in Refreshes
  /\ Backoff \in Entries
  /\ \A os \in SUBSET Offers : Filled(os) \in Entries
BY KeysAssumption DEF Idle, Calls, Free, Refreshes, Backoff, Filled, Entries

LEMMA CallTypes ==
  ASSUME TypeOK, NEW c \in Clients, NEW k \in Keys,
         NEW a \in {"off", "look", "trigger", "fetch", "fetched", "failed",
                    "ok", "err"}
  PROVE  /\ [call EXCEPT ![c].at[k] = a] \in [Clients -> Calls]
         /\ \A os \in SUBSET Offers :
              [call EXCEPT ![c].at[k] = a, ![c].got[k] = os] \in [Clients -> Calls]
         /\ call[c].got[k] \in SUBSET Offers
<1>1. call[c] \in Calls
  BY DEF TypeOK
<1>2. [call[c] EXCEPT !.at[k] = a] \in Calls
  BY <1>1 DEF Calls
<1>3. \A os \in SUBSET Offers :
        [[call[c] EXCEPT !.at[k] = a] EXCEPT !.got[k] = os] \in Calls
  BY <1>2 DEF Calls
<1>4. call[c].got[k] \in SUBSET Offers
  BY <1>1 DEF Calls
<1>5. [call EXCEPT ![c].at[k] = a] \in [Clients -> Calls]
  BY <1>2 DEF TypeOK
<1>6. ASSUME NEW os \in SUBSET Offers
      PROVE  [call EXCEPT ![c].at[k] = a, ![c].got[k] = os] \in [Clients -> Calls]
  BY <1>3 DEF TypeOK
<1>. QED
  BY <1>4, <1>5, <1>6

LEMMA TypeClient ==
  ASSUME TypeOK, NEW c \in Clients,
         ListOffers(c) \/ Work(c) \/ \E o \in Offers : GetOffer(c, o)
  PROVE  TypeOK'
<1>1. ASSUME NEW o \in Offers \cup {NoOffer}, NEW op \in {"list", "get"}, NEW ks,
             Start(c, op, o, ks)
      PROVE  call' \in [Clients -> Calls]
  BY <1>1 DEF TypeOK, Start, Idle, Calls
<1>2. CASE ListOffers(c)
  BY <1>1, <1>2 DEF TypeOK, ListOffers
<1>3. ASSUME NEW o \in Offers, GetOffer(c, o)
      PROVE  TypeOK'
  BY <1>1, <1>3 DEF TypeOK, GetOffer
<1>4. ASSUME NEW k \in Keys, getOffersWithCache(c, k)
      PROVE  TypeOK'
  <2>1. cache[k] # None => cache[k].offers \in SUBSET Offers
    BY DEF TypeOK, Entries
  <2>2. PICK a \in {"err", "ok", "trigger", "fetch"}, os \in SUBSET Offers :
          call' = [call EXCEPT ![c].at[k] = a, ![c].got[k] = os]
    BY <1>4, <2>1 DEF getOffersWithCache
  <2>3. call' \in [Clients -> Calls]
    BY <2>2, CallTypes
  <2>. QED
    BY <1>4, <2>3 DEF TypeOK, getOffersWithCache
<1>5. ASSUME NEW k \in Keys, triggerBackgroundRefresh(c, k)
      PROVE  TypeOK'
  <2>1. call' \in [Clients -> Calls]
    BY <1>5, CallTypes DEF triggerBackgroundRefresh
  <2>2. cache' \in [Keys -> Entries \cup {None}]
    <3>1. cache[k] # None => [cache[k] EXCEPT !.refreshing = TRUE] \in Entries
      BY DEF TypeOK, Entries
    <3>. QED
      BY <1>5, <3>1 DEF TypeOK, triggerBackgroundRefresh
  <2>3. [Free EXCEPT !.at = "call", !.key = k] \in Refreshes
    BY Constants DEF Refreshes
  <2>4. refr' \in [Refreshers -> Refreshes]
    BY <1>5, <2>3 DEF TypeOK, triggerBackgroundRefresh
  <2>. QED
    BY <1>5, <2>1, <2>2, <2>4 DEF TypeOK, triggerBackgroundRefresh
<1>6. ASSUME NEW k \in Keys, fetchOffersSync(c, k)
      PROVE  TypeOK'
  <2>1. market \cap Admits[k] \in SUBSET Offers
    BY DEF TypeOK
  <2>2. call' \in [Clients -> Calls]
    <3>1. CASE call' = [call EXCEPT ![c].at[k] = "fetched", ![c].got[k] = market \cap Admits[k]]
      BY <2>1, <3>1, CallTypes
    <3>2. CASE call' = [call EXCEPT ![c].at[k] = "failed"]
      BY <3>2, CallTypes
    <3>. QED
      BY <1>6, <3>1, <3>2 DEF fetchOffersSync
  <2>3. errors' \in 0..MaxErrors
    BY <1>6, OfferCacheAssumption DEF TypeOK, fetchOffersSync
  <2>. QED
    BY <1>6, <2>2, <2>3 DEF TypeOK, fetchOffersSync
<1>7. ASSUME NEW k \in Keys, storeFetched(c, k)
      PROVE  TypeOK'
  <2>1. cache' \in [Keys -> Entries \cup {None}]
    BY <1>7, Constants, CallTypes DEF TypeOK, storeFetched
  <2>2. call' \in [Clients -> Calls]
    BY <1>7, CallTypes DEF storeFetched
  <2>. QED
    BY <1>7, <2>1, <2>2 DEF TypeOK, storeFetched
<1>8. CASE Return(c)
  BY <1>8, Constants DEF TypeOK, Return
<1>. QED
  BY <1>2, <1>3, <1>4, <1>5, <1>6, <1>7, <1>8 DEF Work

LEMMA RefreshTypes ==
  ASSUME TypeOK, NEW g \in Refreshers
  PROVE  /\ refr[g].key \in Keys /\ refr[g].got \in SUBSET Offers
         /\ [refr EXCEPT ![g] = Free] \in [Refreshers -> Refreshes]
         /\ \A a \in {"call", "fetched", "failed"} :
              [refr EXCEPT ![g].at = a] \in [Refreshers -> Refreshes]
         /\ \A a \in {"call", "fetched", "failed"}, os \in SUBSET Offers :
              [refr EXCEPT ![g].at = a, ![g].got = os] \in [Refreshers -> Refreshes]
         /\ \A k \in Keys : Unflagged(cache, k) \in [Keys -> Entries \cup {None}]
<1>1. /\ refr[g].key \in Keys /\ refr[g].got \in SUBSET Offers
      /\ [refr EXCEPT ![g] = Free] \in [Refreshers -> Refreshes]
      /\ \A a \in {"call", "fetched", "failed"} :
           [refr EXCEPT ![g].at = a] \in [Refreshers -> Refreshes]
  BY Constants DEF TypeOK, Refreshes
<1>2. ASSUME NEW a \in {"call", "fetched", "failed"}, NEW os \in SUBSET Offers
      PROVE  [refr EXCEPT ![g].at = a, ![g].got = os] \in [Refreshers -> Refreshes]
  BY DEF TypeOK, Refreshes
<1>3. ASSUME NEW k \in Keys
      PROVE  Unflagged(cache, k) \in [Keys -> Entries \cup {None}]
  <2>1. cache[k] # None => [cache[k] EXCEPT !.refreshing = FALSE] \in Entries
    BY DEF TypeOK, Entries
  <2>. QED
    BY <2>1 DEF TypeOK, Unflagged
<1>. QED
  BY <1>1, <1>2, <1>3

LEMMA TypeRefresh ==
  ASSUME TypeOK, NEW g \in Refreshers, Refresh(g)
  PROVE  TypeOK'
<1>1. CASE refreshFetches(g)
  <2>1. market \cap Admits[refr[g].key] \in SUBSET Offers
    BY DEF TypeOK
  <2>2. refr' \in [Refreshers -> Refreshes]
    <3>1. CASE refr' = [refr EXCEPT ![g].at = "fetched",
                                    ![g].got = market \cap Admits[refr[g].key]]
      BY <2>1, <3>1, RefreshTypes
    <3>2. CASE refr' = [refr EXCEPT ![g].at = "failed"]
      BY <3>2, RefreshTypes
    <3>. QED
      BY <1>1, <3>1, <3>2 DEF refreshFetches
  <2>3. errors' \in 0..MaxErrors
    BY <1>1, OfferCacheAssumption DEF TypeOK, refreshFetches
  <2>. QED
    BY <1>1, <2>2, <2>3 DEF TypeOK, refreshFetches
<1>2. CASE refreshStores(g)
  <2>1. cache' \in [Keys -> Entries \cup {None}]
    BY <1>2, Constants, RefreshTypes DEF TypeOK, refreshStores
  <2>. QED
    BY <1>2, <2>1, RefreshTypes DEF TypeOK, refreshStores
<1>. QED
  BY <1>1, <1>2 DEF Refresh

LEMMA TypeRest ==
  ASSUME TypeOK,
         \/ \E o \in Offers : EvictOffer(o) \/ Market(o)
         \/ \E ks \in {{k} : k \in Keys} \cup {Keys} : InvalidateCache(ks)
         \/ \E k \in Keys : Age(k)
         \/ UNCHANGED vars
  PROVE  TypeOK'
<1>1. ASSUME NEW o \in Offers, EvictOffer(o)
      PROVE  TypeOK'
  BY <1>1 DEF TypeOK, EvictOffer, Entries
<1>2. ASSUME NEW o \in Offers, Market(o)
      PROVE  TypeOK'
  BY <1>2 DEF TypeOK, Market
<1>3. ASSUME NEW ks, InvalidateCache(ks)
      PROVE  TypeOK'
  BY <1>3 DEF TypeOK, InvalidateCache
<1>4. ASSUME NEW k \in Keys, Age(k)
      PROVE  TypeOK'
  BY <1>4 DEF TypeOK, Age, Entries
<1>5. CASE UNCHANGED vars
  BY <1>5 DEF TypeOK, vars
<1>. QED
  BY <1>1, <1>2, <1>3, <1>4, <1>5

\* Every variable of the offer cache keeps its type; in particular an entry in
\* backoff holds no offers and never turns stale (fetchOffersSync).
THEOREM OfferCacheTypeCorrect == Spec => []TypeOK
<1>1. Init => TypeOK
  BY Constants, OfferCacheAssumption DEF Init, TypeOK
<1>2. TypeOK /\ [Next]_vars => TypeOK'
  BY TypeClient, TypeRefresh, TypeRest DEF Next
<1>. QED
  BY <1>1, <1>2, PTL DEF Spec

-----------------------------------------------------------------------------
(* Flags                                                                   *)

LEMMA FlagClient ==
  ASSUME TypeOK, FlagHasRefresh, NEW c \in Clients, Work(c)
  PROVE  FlagHasRefresh'
<1>1. ASSUME NEW k \in Keys, triggerBackgroundRefresh(c, k)
      PROVE  FlagHasRefresh'
  <2>1. CASE UNCHANGED <<cache, refr>>
    BY <2>1 DEF FlagHasRefresh
  <2>2. CASE ~(cache[k] # None /\ cache[k].refreshing)
    <3>1. PICK g \in Refreshers :
            /\ refr[g].at = "free"
            /\ refr' = [refr EXCEPT ![g] = [Free EXCEPT !.at = "call", !.key = k]]
      BY <1>1, <2>2 DEF triggerBackgroundRefresh
    <3>2. refr'[g].at = "call" /\ refr'[g].key = k
      BY <3>1 DEF TypeOK, Refreshes, Free
    <3>3. \A h \in Refreshers : h # g => refr'[h] = refr[h]
      BY <3>1 DEF TypeOK
    <3>4. \A j \in Keys : j # k => cache'[j] = cache[j]
      BY <1>1, <2>2 DEF triggerBackgroundRefresh, TypeOK
    <3>. QED
      BY <3>1, <3>2, <3>3, <3>4 DEF FlagHasRefresh
  <2>. QED
    BY <1>1, <2>1, <2>2 DEF triggerBackgroundRefresh
<1>2. ASSUME NEW k \in Keys, storeFetched(c, k)
      PROVE  FlagHasRefresh'
  BY <1>2 DEF FlagHasRefresh, storeFetched, TypeOK, Filled, Backoff
<1>3. ASSUME NEW k \in Keys,
             getOffersWithCache(c, k) \/ fetchOffersSync(c, k)
      PROVE  FlagHasRefresh'
  BY <1>3 DEF FlagHasRefresh, getOffersWithCache, fetchOffersSync
<1>4. CASE Return(c)
  BY <1>4 DEF FlagHasRefresh, Return
<1>. QED
  BY <1>1, <1>2, <1>3, <1>4 DEF Work

\* A refresh that ends takes the flag of its key down with it, whether it or
\* another refresh of that key has put it up.
LEMMA FlagRefresh ==
  ASSUME TypeOK, FlagHasRefresh, NEW g \in Refreshers, Refresh(g)
  PROVE  FlagHasRefresh'
<1>. DEFINE k == refr[g].key
<1>0. k \in Keys
  BY RefreshTypes
<1>1. \A j \in Keys : /\ j # k => Unflagged(cache, k)[j] = cache[j]
                      /\ Unflagged(cache, k)[k] # None => ~Unflagged(cache, k)[k].refreshing
  BY <1>0 DEF TypeOK, Unflagged, Entries
<1>2. ASSUME refr' = [refr EXCEPT ![g] = Free],
             \A j \in Keys : j # k => cache'[j] = cache[j],
             cache'[k] # None => ~cache'[k].refreshing
      PROVE  FlagHasRefresh'
  <2>1. \A h \in Refreshers : h # g => refr'[h] = refr[h]
    BY <1>2 DEF TypeOK
  <2>. QED
    BY <1>0, <1>2, <2>1 DEF FlagHasRefresh
<1>3. ASSUME UNCHANGED cache,
             \A h \in Refreshers : refr'[h].key = refr[h].key
                                   /\ (refr[h].at # "free" => refr'[h].at # "free")
      PROVE  FlagHasRefresh'
  BY <1>3 DEF FlagHasRefresh
<1>4. CASE refreshFetches(g)
  BY <1>3, <1>4 DEF refreshFetches, TypeOK, Refreshes
<1>5. CASE refreshStores(g)
  <2>1. \A j \in Keys : j # k => cache'[j] = cache[j]
    BY <1>0, <1>1, <1>5 DEF refreshStores, TypeOK
  <2>2. cache'[k] # None => ~cache'[k].refreshing
    BY <1>0, <1>1, <1>5 DEF refreshStores, TypeOK, Filled
  <2>. QED
    BY <1>2, <1>5, <2>1, <2>2 DEF refreshStores
<1>. QED
  BY <1>4, <1>5 DEF Refresh

\* Time and evictions leave the flag of an entry as it is, an invalidation
\* throws it away with the entry.
LEMMA FlagRest ==
  ASSUME TypeOK, FlagHasRefresh,
         \/ \E o \in Offers : EvictOffer(o) \/ Market(o)
         \/ \E ks \in {{k} : k \in Keys} \cup {Keys} : InvalidateCache(ks)
         \/ \E k \in Keys : Age(k)
         \/ \E c \in Clients : ListOffers(c) \/ \E o \in Offers : GetOffer(c, o)
         \/ UNCHANGED vars
  PROVE  FlagHasRefresh'
<1>1. ASSUME UNCHANGED refr,
             \A k \in Keys : (cache'[k] # None /\ cache'[k].refreshing)
                               => (cache[k] # None /\ cache[k].refreshing)
      PROVE  FlagHasRefresh'
  BY <1>1 DEF FlagHasRefresh
<1>2. ASSUME NEW o \in Offers, EvictOffer(o)
      PROVE  FlagHasRefresh'
  <2>1. PICK k \in Keys : cache[k] # None /\ cache' = [cache EXCEPT ![k].offers = @ \ {o}]
    BY <1>2 DEF EvictOffer
  <2>2. cache'[k].refreshing = cache[k].refreshing
    BY <2>1 DEF TypeOK, Entries
  <2>. QED
    BY <1>1, <1>2, <2>1, <2>2 DEF EvictOffer, TypeOK
<1>3. ASSUME NEW k \in Keys, Age(k)
      PROVE  FlagHasRefresh'
  <2>1. cache'[k].refreshing = cache[k].refreshing
    BY <1>3 DEF Age, TypeOK, Entries
  <2>. QED
    BY <1>1, <1>3, <2>1 DEF Age, TypeOK
<1>4. ASSUME NEW ks, InvalidateCache(ks)
      PROVE  FlagHasRefresh'
  BY <1>1, <1>4 DEF InvalidateCache, TypeOK
<1>5. ASSUME UNCHANGED <<cache, refr>>
      PROVE  FlagHasRefresh'
  BY <1>5 DEF FlagHasRefresh
<1>. QED
  BY <1>2, <1>3, <1>4, <1>5 DEF Market, ListOffers, GetOffer, Start, vars

\* Whatever replaces, evicts, ages or invalidates an entry, and however many
\* refreshes of one key overlap, a flag that is up has a goroutine that will
\* take it down (triggerBackgroundRefresh).
THEOREM FlagHasRefreshAlways == Spec => []FlagHasRefresh
<1>1. Init => FlagHasRefresh
  BY DEF Init, FlagHasRefresh
<1>2. TypeOK /\ FlagHasRefresh /\ [Next]_vars => FlagHasRefresh'
  BY FlagClient, FlagRefresh, FlagRest DEF Next
<1>. QED
  BY <1>1, <1>2, OfferCacheTypeCorrect, PTL DEF Spec

=============================================================================
