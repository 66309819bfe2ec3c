------------------------- MODULE CacheStoreProofs -------------------------
(***************************************************************************)
(* For every set of keys, every limit and every pair of windows, the       *)
(* response cache keeps its types, its capacity, its LRU order, its byte   *)
(* counter and its refresh slots, and implements SwrProtocol.              *)
(***************************************************************************)
EXTENDS CacheStore, StoreLemmas

\* The inductive invariant.  The capacity is kept only because the LRU order
\* is total (evicting down to n keys leaves n keys).
IInv == TypeOK /\ RankIsAnOrder /\ CountedWithinLimit /\ SlotWithinWindow

\* saturating_sub stays between zero and what it subtracts from.
LEMMA SaturatingSubRange ==
  ASSUME NEW a \in Nat, NEW b
  PROVE  SaturatingSub(a, b) \in 0..a
BY DEF SaturatingSub

\* The orders the store builds map the keys they hold to numbers.
LEMMA OrderTypes ==
  ASSUME NEW order, IsOrder(order), NEW k
  PROVE  /\ Promoted(order, k) \in [DOMAIN order \cup {k} -> Nat]
         /\ k \in DOMAIN order => Removed(order, k) \in [DOMAIN order \ {k} -> Nat]
<1>1. DOMAIN Promoted(order, k) = DOMAIN order \cup {k}
  BY DEF Promoted
<1>2. IsOrder(Promoted(order, k))
  BY PromotedIsOrder
<1>3. Promoted(order, k) \in [DOMAIN order \cup {k} -> Nat]
  <2>1. Cardinality(DOMAIN Promoted(order, k)) \in Nat
    BY <1>2, FS_CardinalityType DEF IsOrder
  <2>2. \A j \in DOMAIN order \cup {k} : Promoted(order, k)[j] \in Nat
    BY <1>1, <1>2, <2>1 DEF IsOrder
  <2> QED  BY <2>2 DEF Promoted
<1>4. ASSUME k \in DOMAIN order
      PROVE  Removed(order, k) \in [DOMAIN order \ {k} -> Nat]
  <2>1. IsOrder(Removed(order, k))
    BY <1>4, RemovedIsOrder
  <2>2. Cardinality(DOMAIN Removed(order, k)) \in Nat
    BY <2>1, FS_CardinalityType DEF IsOrder
  <2>3. DOMAIN Removed(order, k) = DOMAIN order \ {k}
    BY DEF Removed
  <2>4. \A j \in DOMAIN order \ {k} : Removed(order, k)[j] \in Nat
    BY <2>1, <2>2, <2>3 DEF IsOrder
  <2> QED  BY <2>4 DEF Removed
<1> QED
  BY <1>3, <1>4

\* Pushing onto the n newest keys keeps the order, and never makes the map
\* larger than its capacity.
LEMMA PushKeepsCapacity ==
  ASSUME RankIsAnOrder, Cardinality(Cached) <= MaxEntries,
         NEW k, NEW n \in 0..Cardinality(Cached)
  PROVE  LET D == DOMAIN OrderAfterPush(k, n)
         IN /\ OrderAfterPush(k, n) \in [D -> Nat]
            /\ IsOrder(OrderAfterPush(k, n))
            /\ k \in D
            /\ D \subseteq Cached \cup {k}
            /\ Cardinality(D) <= MaxEntries
<1> USE CacheStoreAssumption
<1>1. Cardinality(Cached) \in Nat /\ IsOrder(rank) /\ DOMAIN rank = Cached
  BY FS_CardinalityType DEF RankIsAnOrder, IsOrder
<1>2. ASSUME NEW m \in 0..Cardinality(Cached),
             k \in Newest(rank, m) \/ m < MaxEntries
      PROVE  LET order == Promoted(Truncated(rank, m), k)
                 D == DOMAIN order
             IN /\ order \in [D -> Nat]
                /\ IsOrder(order)
                /\ k \in D
                /\ D \subseteq Cached \cup {k}
                /\ Cardinality(D) <= MaxEntries
  <2> DEFINE K == Newest(rank, m)
             order == Promoted(Truncated(rank, m), k)
  <2>1. IsOrder(Truncated(rank, m)) /\ IsFiniteSet(K) /\ Cardinality(K) = m
    BY <1>1, TruncatedIsOrder
  <2>2. DOMAIN Truncated(rank, m) = K /\ K \subseteq Cached
    BY <1>1 DEF Truncated, Newest
  <2>3. IsOrder(order) /\ order \in [K \cup {k} -> Nat]
    BY <2>1, <2>2, PromotedIsOrder, OrderTypes
  <2>4. DOMAIN order = K \cup {k}
    BY <2>3
  <2>5. Cardinality(K \cup {k}) = IF k \in K THEN m ELSE m + 1
    BY <2>1, FS_AddElement
  <2>6. Cardinality(K \cup {k}) <= MaxEntries
    BY <1>1, <1>2, <2>5
  <2> QED  BY <2>2, <2>3, <2>4, <2>6
<1>3. CASE k \in Newest(rank, n) \/ n < MaxEntries
  BY <1>2, <1>3 DEF OrderAfterPush
<1>4. CASE ~(k \in Newest(rank, n) \/ n < MaxEntries)
  <2>1. n - 1 \in 0..Cardinality(Cached) /\ n - 1 < MaxEntries
    BY <1>1, <1>4
  <2> QED  BY <1>2, <1>4, <2>1 DEF OrderAfterPush
<1> QED
  BY <1>3, <1>4

---------------------------------------------------------------------------
\* The new cache is empty.
LEMMA InitIInv == Init => IInv
<1> SUFFICES ASSUME Init PROVE IInv
  OBVIOUS
<1> USE CacheStoreAssumption
<1>1. Cached = {} /\ Cardinality(Cached) = 0 /\ IsOrder(rank) /\ DOMAIN rank = {}
  BY EmptyIsOrder, FS_EmptySet DEF Init, Cached
<1>2. entries \in [Cached -> Entry] /\ rank \in [Cached -> Nat]
  BY <1>1 DEF Init, EmptyOrder
<1>3. TypeOK
  BY <1>1, <1>2 DEF Init, TypeOK
<1> QED
  BY <1>1, <1>3 DEF Init, IInv, RankIsAnOrder, CountedWithinLimit, SlotWithinWindow

\* Operations that keep the keys: they move one to the front, and may change
\* its refresh slot.
LEMMA ServedKeyKeepsOrder ==
  ASSUME IInv, NEW k \in Cached, rank' = Promoted(rank, k),
         Cached' = Cached
  PROVE  RankIsAnOrder' /\ rank' \in [Cached' -> Nat]
<1>1. DOMAIN rank = Cached /\ IsOrder(rank)
  BY DEF IInv, RankIsAnOrder
<1>2. rank' \in [Cached -> Nat] /\ IsOrder(rank')
  <2>1. IsOrder(Promoted(rank, k))
    BY <1>1, PromotedIsOrder
  <2>2. Promoted(rank, k) \in [DOMAIN rank \cup {k} -> Nat]
    BY <1>1, OrderTypes
  <2>3. DOMAIN rank \cup {k} = Cached
    BY <1>1
  <2> QED  BY <2>1, <2>2, <2>3
<1>3. DOMAIN rank' = Cached'
  BY <1>2
<1> QED
  BY <1>2, <1>3 DEF RankIsAnOrder

\* A lookup that serves an entry, fresh or stale.
LEMMA ServeIInv == ASSUME IInv, NEW k, Serve(k) PROVE IInv'
<1>1. k \in Cached
  BY DEF Serve, LookupResult, IsFresh, InGrace
<1>2. Cached' = Cached
  BY DEF Serve, Cached
<1>3. RankIsAnOrder' /\ rank' \in [Cached' -> Nat]
  BY <1>1, <1>2, ServedKeyKeepsOrder DEF Serve
<1>4. TypeOK'
  BY <1>2, <1>3 DEF Serve, IInv, TypeOK
<1>5. CountedWithinLimit' /\ SlotWithinWindow'
  BY <1>2 DEF Serve, IInv, CountedWithinLimit, SlotWithinWindow
<1> QED
  BY <1>3, <1>4, <1>5 DEF IInv

\* A lookup that elects its caller to refresh a stale entry.
LEMMA ElectIInv == ASSUME IInv, NEW k, Elect(k) PROVE IInv'
<1> USE CacheStoreAssumption
<1>1. k \in Cached /\ InGrace(k)
  BY DEF Elect, LookupResult, InGrace
<1>2. Cached' = Cached
  BY DEF Elect, Cached
<1>3. RankIsAnOrder' /\ rank' \in [Cached' -> Nat]
  BY <1>1, <1>2, ServedKeyKeepsOrder DEF Elect
<1>4. /\ now \in Int /\ entries \in [Cached -> Entry]
      /\ entries' = [entries EXCEPT ![k].refresh_started = now]
  BY DEF Elect, IInv, TypeOK
<1>5. entries' \in [Cached -> Entry]
  BY <1>1, <1>4 DEF Entry
<1>6. TypeOK'
  BY <1>2, <1>3, <1>5 DEF Elect, IInv, TypeOK
<1>7. SlotWithinWindow'
  <2> SUFFICES ASSUME NEW j \in Cached
               PROVE  LET e == entries'[j]
                      IN /\ e.stale_until = e.fresh_until + Grace
                         /\ e.refresh_started # None =>
                              /\ e.fresh_until <= e.refresh_started
                              /\ e.refresh_started < e.stale_until
                              /\ e.refresh_started <= now
    BY <1>2 DEF SlotWithinWindow, Elect
  <2>1. CASE j = k
    BY <1>1, <1>4, <2>1 DEF Entry, InGrace, IsFresh, IInv, SlotWithinWindow
  <2>2. CASE j # k
    BY <1>4, <2>2 DEF IInv, SlotWithinWindow
  <2> QED  BY <2>1, <2>2
<1>8. CountedWithinLimit'
  BY DEF Elect, IInv, CountedWithinLimit
<1> QED
  BY <1>3, <1>6, <1>7, <1>8 DEF IInv

\* A lookup that drops an expired entry.
LEMMA ExpireIInv == ASSUME IInv, NEW k, Expire(k) PROVE IInv'
<1> USE CacheStoreAssumption
<1>1. DOMAIN rank = Cached /\ IsOrder(rank) /\ k \in Cached
  BY DEF IInv, RankIsAnOrder, Expire
<1>2. /\ Cached' = Cached \ {k}
      /\ \A j \in Cached' : entries'[j] = entries[j]
      /\ entries' = [j \in Cached' |-> entries[j]]
  BY DEF Expire, Restrict, Cached
<1>3. IsOrder(rank') /\ rank' \in [Cached' -> Nat]
  BY <1>1, <1>2, RemovedIsOrder, OrderTypes DEF Expire
<1>4. RankIsAnOrder'
  BY <1>3 DEF RankIsAnOrder
<1>5. Cardinality(Cached') <= MaxEntries
  <2>1. IsFiniteSet(Cached) /\ Cardinality(Cached) <= MaxEntries
    BY <1>1 DEF IsOrder, IInv, TypeOK
  <2>2. Cardinality(Cached) \in Nat /\ Cardinality(Cached \ {k}) = Cardinality(Cached) - 1
    BY <1>1, <2>1, FS_CardinalityType, FS_RemoveElement
  <2> QED  BY <1>2, <2>1, <2>2
<1>6. current_size' \in Nat /\ current_size' <= current_size
  BY SaturatingSubRange DEF Expire, IInv, TypeOK
<1>7. entries' \in [Cached' -> Entry]
  BY <1>2 DEF IInv, TypeOK
<1>8. TypeOK'
  BY <1>2, <1>3, <1>5, <1>6, <1>7 DEF Expire, IInv, TypeOK
<1>9. CountedWithinLimit'
  BY <1>6 DEF IInv, TypeOK, CountedWithinLimit
<1>10. SlotWithinWindow'
  BY <1>2 DEF Expire, IInv, SlotWithinWindow
<1> QED
  BY <1>4, <1>8, <1>9, <1>10 DEF IInv

\* A refresher, or anybody else, frees the refresh slot.
LEMMA ClearRefreshIInv == ASSUME IInv, NEW k, ClearRefresh(k) PROVE IInv'
<1> USE CacheStoreAssumption
<1>1. CASE k \notin Cached
  BY <1>1 DEF ClearRefresh, IInv, TypeOK, RankIsAnOrder, CountedWithinLimit,
              SlotWithinWindow, Cached, vars
<1>2. CASE k \in Cached
  <2>1. /\ entries \in [Cached -> Entry]
        /\ entries' = [entries EXCEPT ![k].refresh_started = None]
        /\ rank' = Promoted(rank, k)
        /\ UNCHANGED <<current_size, now>>
    BY <1>2 DEF ClearRefresh, IInv, TypeOK
  <2>2. Cached' = Cached
    BY <2>1 DEF Cached
  <2>3. RankIsAnOrder' /\ rank' \in [Cached' -> Nat]
    BY <1>2, <2>1, <2>2, ServedKeyKeepsOrder
  <2>4. entries' \in [Cached -> Entry]
    BY <1>2, <2>1 DEF Entry
  <2>5. TypeOK'
    BY <2>1, <2>2, <2>3, <2>4 DEF IInv, TypeOK
  <2>6. CountedWithinLimit'
    BY <2>1 DEF IInv, CountedWithinLimit
  <2>7. SlotWithinWindow'
    <3> SUFFICES ASSUME NEW j \in Cached
                 PROVE  LET e == entries'[j]
                        IN /\ e.stale_until = e.fresh_until + Grace
                           /\ e.refresh_started # None =>
                                /\ e.fresh_until <= e.refresh_started
                                /\ e.refresh_started < e.stale_until
                                /\ e.refresh_started <= now
      BY <2>1, <2>2 DEF SlotWithinWindow
    <3>1. CASE j = k
      BY <1>2, <2>1, <3>1 DEF Entry, IInv, SlotWithinWindow
    <3>2. CASE j # k
      BY <2>1, <3>2 DEF IInv, SlotWithinWindow
    <3> QED  BY <3>1, <3>2
  <2> QED  BY <2>3, <2>5, <2>6, <2>7 DEF IInv
<1> QED
  BY <1>1, <1>2

\* What eviction leaves on the counter is a number.
LEMMA CountAfterEvictionType ==
  ASSUME IInv, NEW k, NEW n
  PROVE  CountAfterEviction(k, n) \in Nat
<1>1. current_size \in Nat
  BY DEF IInv, TypeOK
<1>2. SaturatingSub(current_size, OldSize(k)) \in Nat
  BY <1>1, SaturatingSubRange
<1> QED
  BY <1>2, SaturatingSubRange DEF CountAfterEviction

\* A write that finds room.
LEMMA InsertIInv ==
  ASSUME IInv, NEW k \in Keys, NEW body \in Bodies, NEW size \in Sizes, NEW ttl \in Ttls,
         Insert(k, body, size, ttl)
  PROVE  IInv'
<1> USE CacheStoreAssumption
<1>1. PICK n \in 0..Cardinality(Cached) :
        /\ EvictionStopsAt(k, n, size)
        /\ entries' = [j \in DOMAIN OrderAfterPush(k, n) |->
                         IF j = k THEN NewEntry(body, size, ttl) ELSE entries[j]]
        /\ rank' = OrderAfterPush(k, n)
        /\ current_size' =
             SaturatingSub(CountAfterEviction(k, n), SizeOf(PushedOut(k, n))) + size
        /\ UNCHANGED now
  BY DEF Insert
<1>2. Cached' = DOMAIN OrderAfterPush(k, n)
  BY <1>1 DEF Cached
<1>3. /\ rank' \in [Cached' -> Nat]
      /\ IsOrder(rank')
      /\ Cached' \subseteq Cached \cup {k}
      /\ Cardinality(Cached') <= MaxEntries
  BY <1>1, <1>2, PushKeepsCapacity DEF IInv, TypeOK
<1>4. RankIsAnOrder'
  BY <1>3 DEF RankIsAnOrder
<1>5. \A j \in Cached' : entries'[j] = IF j = k THEN NewEntry(body, size, ttl) ELSE entries[j]
  BY <1>1, <1>2
<1>6. now \in Nat /\ size \in Nat /\ ttl \in Nat
  BY DEF IInv, TypeOK
<1>7. NewEntry(body, size, ttl) \in Entry
  BY <1>6 DEF NewEntry, Entry
<1>8. entries' \in [Cached' -> Entry]
  <2>1. \A j \in Cached' : j # k => entries[j] \in Entry
    BY <1>3 DEF IInv, TypeOK
  <2> QED  BY <1>1, <1>2, <1>5, <1>7, <2>1
<1>9. current_size' \in Nat /\ current_size' <= MaxTotalSize
  <2>1. CountAfterEviction(k, n) \in Nat
    BY CountAfterEvictionType
  <2>2. CountAfterEviction(k, n) + size <= MaxTotalSize
    BY <1>1 DEF EvictionStopsAt, Fits
  <2>3. SaturatingSub(CountAfterEviction(k, n), SizeOf(PushedOut(k, n)))
          \in 0..CountAfterEviction(k, n)
    BY <2>1, SaturatingSubRange
  <2> QED  BY <1>1, <1>6, <2>1, <2>2, <2>3
<1>10. TypeOK'
  BY <1>1, <1>3, <1>8, <1>9 DEF IInv, TypeOK
<1>11. CountedWithinLimit'
  BY <1>9 DEF CountedWithinLimit
<1>12. SlotWithinWindow'
  <2> SUFFICES ASSUME NEW j \in Cached'
               PROVE  LET e == entries'[j]
                      IN /\ e.stale_until = e.fresh_until + Grace
                         /\ e.refresh_started # None =>
                              /\ e.fresh_until <= e.refresh_started
                              /\ e.refresh_started < e.stale_until
                              /\ e.refresh_started <= now
    BY <1>1 DEF SlotWithinWindow
  <2>1. CASE j = k
    BY <1>5, <1>6, <2>1 DEF NewEntry
  <2>2. CASE j # k
    BY <1>3, <1>5, <2>2 DEF IInv, SlotWithinWindow
  <2> QED  BY <2>1, <2>2
<1> QED
  BY <1>4, <1>10, <1>11, <1>12 DEF IInv

\* A write that finds no room even in an empty map.
LEMMA EvictAllIInv ==
  ASSUME IInv, NEW k, NEW size, EvictAllAndReject(k, size)
  PROVE  IInv'
<1> USE CacheStoreAssumption
<1>1. /\ entries' = [j \in {} |-> None]
      /\ rank' = EmptyOrder
      /\ current_size' = CountAfterEviction(k, 0)
      /\ UNCHANGED now
  BY DEF EvictAllAndReject
<1>2. Cached' = {} /\ Cardinality(Cached') = 0
  BY <1>1, FS_EmptySet DEF Cached
<1>3. IsOrder(rank') /\ DOMAIN rank' = {}
  BY <1>1, EmptyIsOrder
<1>4. rank' \in [Cached' -> Nat] /\ entries' \in [Cached' -> Entry]
  BY <1>1, <1>2 DEF EmptyOrder
<1>5. RankIsAnOrder'
  BY <1>2, <1>3 DEF RankIsAnOrder
<1>6. current_size' \in Nat /\ current_size' <= MaxTotalSize
  <2>1. current_size \in Nat /\ current_size <= MaxTotalSize
    BY DEF IInv, TypeOK, CountedWithinLimit
  <2> DEFINE rest == SaturatingSub(current_size, OldSize(k))
  <2>2. rest \in 0..current_size
    BY <2>1, SaturatingSubRange
  <2>3. current_size' \in 0..rest
    <3>1. rest \in Nat
      BY <2>1, <2>2
    <3> HIDE DEF rest
    <3>2. CountAfterEviction(k, 0) = SaturatingSub(rest, SizeOf(Cached \ Newest(rank, 0)))
      BY DEF CountAfterEviction, rest
    <3> QED  BY <1>1, <3>1, <3>2, SaturatingSubRange
  <2> QED  BY <2>1, <2>2, <2>3
<1>7. TypeOK'
  BY <1>1, <1>2, <1>4, <1>6 DEF IInv, TypeOK
<1>8. CountedWithinLimit' /\ SlotWithinWindow'
  BY <1>2, <1>6 DEF CountedWithinLimit, SlotWithinWindow
<1> QED
  BY <1>5, <1>7, <1>8 DEF IInv

\* Every step of the store keeps the invariant.
LEMMA NextIInv == IInv /\ [Next]_vars => IInv'
<1> SUFFICES ASSUME IInv, [Next]_vars PROVE IInv'
  OBVIOUS
<1>1. ASSUME UNCHANGED vars PROVE IInv'
  BY <1>1 DEF IInv, TypeOK, RankIsAnOrder, CountedWithinLimit, SlotWithinWindow,
              Cached, vars
<1>2. ASSUME NEW k \in Keys, Lookup(k) PROVE IInv'
  BY <1>1, <1>2, ServeIInv, ElectIInv, ExpireIInv DEF Lookup, MissAbsent
<1>3. ASSUME NEW k \in Keys, ClearRefresh(k) PROVE IInv'
  BY <1>3, ClearRefreshIInv
<1>4. ASSUME NEW k \in Keys, NEW b \in Bodies, NEW s \in Sizes, NEW t \in Ttls,
             PutResponse(k, b, s, t)
      PROVE  IInv'
  BY <1>1, <1>4, InsertIInv, EvictAllIInv DEF PutResponse
<1>5. ASSUME Tick PROVE IInv'
  <2>1. TypeOK' /\ RankIsAnOrder' /\ CountedWithinLimit'
    BY <1>5, CacheStoreAssumption
       DEF Tick, IInv, TypeOK, RankIsAnOrder, CountedWithinLimit, Cached
  <2>2. SlotWithinWindow'
    <3> SUFFICES ASSUME NEW j \in Cached
                 PROVE  LET e == entries[j]
                        IN /\ e.stale_until = e.fresh_until + Grace
                           /\ e.refresh_started # None =>
                                /\ e.fresh_until <= e.refresh_started
                                /\ e.refresh_started < e.stale_until
                                /\ e.refresh_started <= now'
      BY <1>5 DEF Tick, SlotWithinWindow, Cached
    <3>1. now' = now + 1 /\ now \in Int /\ entries[j] \in Entry
      BY <1>5 DEF Tick, IInv, TypeOK
    <3> QED  BY <3>1 DEF Entry, IInv, SlotWithinWindow
  <2> QED  BY <2>1, <2>2 DEF IInv
<1> QED
  BY <1>1, <1>2, <1>3, <1>4, <1>5 DEF Next

---------------------------------------------------------------------------
\* The inductive invariant holds of every reachable store.
THEOREM Invariance == Spec => []IInv
BY InitIInv, NextIInv, PTL DEF Spec

\* The store keeps its types, and the LruCache its capacity: put_response
\* never leaves more than MaxEntries entries.
THEOREM TypeCorrect == Spec => []TypeOK
<1>1. IInv => TypeOK
  BY DEF IInv
<1> QED
  BY <1>1, Invariance, PTL

\* The LRU order stays a total order of the cached keys.
THEOREM OrderCorrect == Spec => []RankIsAnOrder
<1>1. IInv => RankIsAnOrder
  BY DEF IInv
<1> QED
  BY <1>1, Invariance, PTL

\* The byte counter never passes max_total_size, even though it miscounts.
THEOREM CounterBounded == Spec => []CountedWithinLimit
<1>1. IInv => CountedWithinLimit
  BY DEF IInv
<1> QED
  BY <1>1, Invariance, PTL

\* A refresh slot is only ever held within the stale window of its entry.
THEOREM SlotsWithinWindow == Spec => []SlotWithinWindow
<1>1. IInv => SlotWithinWindow
  BY DEF IInv
<1> QED
  BY <1>1, Invariance, PTL

\* With refresh_takeover_secs >= swr_grace_secs no caller takes over a slot
\* another one holds: the entry leaves its stale window before.
THEOREM NoTakeover == Spec => NoTakeoverWithinGrace
<1>1. IInv /\ [Next]_vars => [Grace <= Takeover => \A k \in Keys : ~Retaken(k)]_vars
  <2> SUFFICES ASSUME IInv, Next, Grace <= Takeover, NEW k \in Keys, Retaken(k)
               PROVE  FALSE
    BY DEF vars
  <2> USE CacheStoreAssumption
  <2>1. /\ k \in Cached /\ k \in Cached'
        /\ entries[k].refresh_started # None
        /\ entries'[k].refresh_started # None
        /\ entries'[k].refresh_started # entries[k].refresh_started
    BY DEF Retaken
  <2>2. ASSUME NEW j \in Keys, Lookup(j) PROVE FALSE
    <3>1. CASE Elect(j)
      <4>1. j = k
        BY <2>1, <3>1 DEF Elect, IInv, TypeOK
      <4>2. InGrace(k) /\ CanTakeOver(k)
        BY <3>1, <4>1 DEF Elect, LookupResult
      <4>3. /\ now \in Int /\ entries[k] \in Entry
            /\ entries[k].stale_until = entries[k].fresh_until + Grace
            /\ entries[k].fresh_until <= entries[k].refresh_started
        BY <2>1 DEF IInv, TypeOK, SlotWithinWindow
      <4>4. now < entries[k].stale_until /\ now - entries[k].refresh_started >= Takeover
        BY <2>1, <4>2 DEF InGrace, CanTakeOver
      <4> QED  BY <2>1, <4>3, <4>4 DEF Entry
    <3>2. CASE Expire(j)
      BY <2>1, <3>2 DEF Expire, Restrict, Cached
    <3>3. CASE Serve(j) \/ MissAbsent(j)
      BY <2>1, <3>3 DEF Serve, MissAbsent, vars
    <3> QED  BY <2>2, <3>1, <3>2, <3>3 DEF Lookup
  <2>3. ASSUME NEW j \in Keys, ClearRefresh(j) PROVE FALSE
    <3>1. CASE j \notin Cached
      BY <2>1, <2>3, <3>1 DEF ClearRefresh, vars
    <3>2. CASE j \in Cached
      <4>1. /\ entries' = [entries EXCEPT ![j].refresh_started = None]
            /\ entries \in [Cached -> Entry]
        BY <2>3, <3>2 DEF ClearRefresh, IInv, TypeOK
      <4>2. CASE j = k
        BY <2>1, <4>1, <4>2 DEF Entry
      <4>3. CASE j # k
        BY <2>1, <4>1, <4>3
      <4> QED  BY <4>2, <4>3
    <3> QED  BY <3>1, <3>2
  <2>4. ASSUME NEW j \in Keys, NEW b \in Bodies, NEW s \in Sizes, NEW t \in Ttls,
               PutResponse(j, b, s, t)
        PROVE  FALSE
    <3>1. CASE UNCHANGED vars
      BY <2>1, <3>1 DEF vars
    <3>2. CASE Insert(j, b, s, t)
      BY <2>1, <3>2 DEF Insert, NewEntry, Cached
    <3>3. CASE EvictAllAndReject(j, s)
      BY <2>1, <3>3 DEF EvictAllAndReject, Cached
    <3> QED  BY <2>4, <3>1, <3>2, <3>3 DEF PutResponse
  <2>5. ASSUME Tick PROVE FALSE
    BY <2>1, <2>5 DEF Tick
  <2> QED  BY <2>2, <2>3, <2>4, <2>5 DEF Next
<1> QED
  BY <1>1, Invariance, PTL DEF Spec, NoTakeoverWithinGrace

---------------------------------------------------------------------------
(***************************************************************************)
(* What the byte counter has to do with the bytes that are cached.         *)
(***************************************************************************)
EntrySizes == [k \in Cached |-> entries[k].size_bytes]

\* Keys that are cached have finitely many bytes, and their parts add up.
LEMMA PartsAddUp ==
  ASSUME IInv, NEW K, K \subseteq Cached, NEW L, L \subseteq K
  PROVE  /\ SizeOf(K) \in Nat /\ SizeOf(L) \in Nat /\ SizeOf(K \ L) \in Nat
         /\ SizeOf(K) = SizeOf(L) + SizeOf(K \ L)
<1>1. IsFiniteSet(Cached)
  BY DEF IInv, RankIsAnOrder, IsOrder
<1>2. IsFiniteSet(K) /\ IsFiniteSet(L) /\ IsFiniteSet(K \ L)
  BY <1>1, FS_Subset
<1>3. \A j \in K : EntrySizes[j] \in Nat
  BY DEF EntrySizes, IInv, TypeOK, Entry
<1>4. K = L \cup (K \ L) /\ L \cap (K \ L) = {}
  OBVIOUS
<1>5. /\ Total(EntrySizes, K) \in Nat
      /\ Total(EntrySizes, L) \in Nat
      /\ Total(EntrySizes, K \ L) \in Nat
  BY <1>2, <1>3, TotalType
<1>6. Total(EntrySizes, L \cup (K \ L)) = Total(EntrySizes, L) + Total(EntrySizes, K \ L)
  BY <1>2, <1>3, <1>4, TotalOfUnion
<1> QED
  BY <1>4, <1>5, <1>6 DEF SizeOf, EntrySizes

\* The bytes of one key.
LEMMA SizeOfKey ==
  ASSUME IInv, NEW k \in Cached
  PROVE  SizeOf({k}) = entries[k].size_bytes /\ entries[k].size_bytes \in Nat
<1>1. EntrySizes[k] = entries[k].size_bytes /\ entries[k].size_bytes \in Nat
  BY DEF EntrySizes, IInv, TypeOK, Entry
<1> QED
  BY <1>1, TotalOfOne DEF SizeOf, EntrySizes

\* Operations that keep the keys and what is cached under them.
LEMMA KeepsSize ==
  ASSUME Cached' = Cached,
         \A j \in Cached : entries'[j].size_bytes = entries[j].size_bytes
  PROVE  SizeOf(Cached)' = SizeOf(Cached)
<1>1. \A j \in Cached : EntrySizes'[j] = EntrySizes[j]
  BY DEF EntrySizes
<1>2. Total(EntrySizes', Cached) = Total(EntrySizes, Cached)
  BY <1>1, TotalAgrees
<1> QED
  BY <1>2 DEF SizeOf, EntrySizes

\* saturating_sub of a part leaves no more than the rest; if it saturates, less.
LEMMA SaturatingSubRest ==
  ASSUME NEW a \in Nat, NEW b \in Nat, NEW x \in Nat
  PROVE  /\ a <= x + b => SaturatingSub(a, b) <= x
         /\ a = x + b => SaturatingSub(a, b) = x
BY DEF SaturatingSub

\* What the eviction loop leaves on the counter is no more than the bytes of
\* the keys that stay, and no less unless the key had an entry.
LEMMA EvictionCounts ==
  ASSUME IInv, NeverOvercounts, NEW k, NEW n
  PROVE  /\ CountAfterEviction(k, n) <= SizeOf(Newest(rank, n))
         /\ k \notin Cached /\ current_size = SizeOf(Cached)
              => CountAfterEviction(k, n) = SizeOf(Newest(rank, n))
<1> DEFINE stay == SizeOf(Newest(rank, n))
           go == SizeOf(Cached \ Newest(rank, n))
           rest == SaturatingSub(current_size, OldSize(k))
<1>1. Newest(rank, n) \subseteq Cached
  BY DEF Newest, IInv, RankIsAnOrder
<1>2. stay \in Nat /\ go \in Nat /\ SizeOf(Cached) = stay + go
  BY <1>1, PartsAddUp
<1>3. current_size \in Nat /\ current_size <= SizeOf(Cached)
  BY DEF IInv, TypeOK, NeverOvercounts
<1>4. rest \in Nat /\ rest <= current_size
  <2>1. rest \in 0..current_size
    BY <1>3, SaturatingSubRange
  <2> QED
    BY <1>3, <2>1
<1>5. k \notin Cached => rest = current_size
  BY <1>3 DEF OldSize, SaturatingSub
<1>6. CountAfterEviction(k, n) = SaturatingSub(rest, go)
  BY DEF CountAfterEviction
<1> HIDE DEF stay, go, rest
<1>7. CountAfterEviction(k, n) <= stay
  BY <1>2, <1>3, <1>4, <1>6, SaturatingSubRest
<1>8. k \notin Cached /\ current_size = SizeOf(Cached) => CountAfterEviction(k, n) = stay
  BY <1>2, <1>4, <1>5, <1>6, SaturatingSubRest
<1> QED
  BY <1>7, <1>8 DEF stay

\* A lookup that drops an expired entry gives its bytes back.
LEMMA ExpireCounts ==
  ASSUME IInv, NeverOvercounts, NEW k, Expire(k)
  PROVE  /\ NeverOvercounts'
         /\ current_size = SizeOf(Cached) => current_size' = SizeOf(Cached)'
<1> DEFINE left == SizeOf(Cached \ {k})
           size == entries[k].size_bytes
<1>1. /\ k \in Cached
      /\ Cached' = Cached \ {k}
      /\ \A j \in Cached \ {k} : entries'[j] = entries[j]
      /\ current_size' = SaturatingSub(current_size, size)
  BY DEF Expire, Restrict, Cached
<1>2. \A j \in Cached \ {k} : EntrySizes'[j] = EntrySizes[j]
  BY <1>1 DEF EntrySizes
<1>3. Total(EntrySizes', Cached \ {k}) = Total(EntrySizes, Cached \ {k})
  BY <1>2, TotalAgrees
<1>4. SizeOf(Cached)' = left
  BY <1>1, <1>3 DEF SizeOf, EntrySizes
<1>5. left \in Nat /\ size \in Nat /\ SizeOf(Cached) = size + left
  BY <1>1, PartsAddUp, SizeOfKey
<1>6. current_size \in Nat /\ current_size <= SizeOf(Cached)
  BY DEF IInv, TypeOK, NeverOvercounts
<1> HIDE DEF left, size
<1> QED
  BY <1>1, <1>4, <1>5, <1>6, SaturatingSubRest DEF NeverOvercounts

\* A write: the keys that stay, less the pair that push hands back, and the new
\* entry.
LEMMA InsertCounts ==
  ASSUME IInv, NeverOvercounts, NEW k, NEW body, NEW size \in Sizes, NEW ttl,
         Insert(k, body, size, ttl)
  PROVE  /\ NeverOvercounts'
         /\ k \notin Cached /\ current_size = SizeOf(Cached)
              => current_size' = SizeOf(Cached)'
<1>1. PICK n \in 0..Cardinality(Cached) :
        /\ entries' = [j \in DOMAIN OrderAfterPush(k, n) |->
                         IF j = k THEN NewEntry(body, size, ttl) ELSE entries[j]]
        /\ current_size' =
             SaturatingSub(CountAfterEviction(k, n), SizeOf(PushedOut(k, n))) + size
  BY DEF Insert
<1> DEFINE N == Newest(rank, n)
           P == PushedOut(k, n)
           kept == SizeOf(N \ P)
           out == SizeOf(P)
           count == CountAfterEviction(k, n)
<1>2. DOMAIN rank = Cached /\ \A j \in Cached : rank[j] \in Nat
  BY DEF IInv, RankIsAnOrder, TypeOK
<1>3. N \subseteq Cached /\ P \subseteq N
  BY <1>2 DEF Newest, PushedOut
<1>4. k \notin N \ P /\ DOMAIN OrderAfterPush(k, n) = (N \ P) \cup {k}
  <2>1. n \in Int
    OBVIOUS
  <2>2. CASE k \in N
    BY <2>2 DEF PushedOut, OrderAfterPush, Promoted, Truncated
  <2>3. CASE k \notin N /\ n < MaxEntries
    <3>1. P = {}
      BY <2>1, <2>3, CacheStoreAssumption DEF PushedOut, CacheStoreAssumption
    <3> QED
      BY <2>3, <3>1 DEF OrderAfterPush, Promoted, Truncated
  <2>4. CASE k \notin N /\ ~(n < MaxEntries)
    <3>1. P = {j \in N : rank[j] = n}
      BY <2>1, <2>4, CacheStoreAssumption DEF PushedOut, CacheStoreAssumption
    <3>2. N \ P = Newest(rank, n - 1)
      BY <1>2, <2>1, <3>1 DEF Newest
    <3> QED
      BY <2>4, <3>2 DEF OrderAfterPush, Promoted, Truncated
  <2> QED
    BY <2>2, <2>3, <2>4
<1>5. Cached' = (N \ P) \cup {k}
  BY <1>1, <1>4 DEF Cached
<1>6. /\ \A j \in N \ P : EntrySizes'[j] = EntrySizes[j]
      /\ EntrySizes'[k] = size
  BY <1>1, <1>3, <1>4, <1>5 DEF EntrySizes, NewEntry
<1>7. size \in Nat
  BY CacheStoreAssumption DEF CacheStoreAssumption
<1>8. SizeOf(Cached)' = kept + size
  <2>1. Total(EntrySizes', N \ P) = Total(EntrySizes, N \ P)
    BY <1>6, TotalAgrees
  <2>2. Total(EntrySizes', {k}) = size
    BY <1>6, <1>7, TotalOfOne
  <2>3. IsFiniteSet(N \ P) /\ IsFiniteSet({k})
    <3>1. IsFiniteSet(Cached) /\ N \ P \in SUBSET Cached
      BY <1>3 DEF IInv, RankIsAnOrder, IsOrder
    <3> QED
      BY <3>1, FS_Subset, FS_Singleton
  <2>4. \A j \in (N \ P) \cup {k} : EntrySizes'[j] \in Nat
    BY <1>3, <1>6, <1>7 DEF EntrySizes, IInv, TypeOK, Entry
  <2>5. Total(EntrySizes', (N \ P) \cup {k})
          = Total(EntrySizes', N \ P) + Total(EntrySizes', {k})
    BY <1>4, <2>3, <2>4, TotalOfUnion
  <2> QED
    BY <1>5, <2>1, <2>2, <2>5 DEF SizeOf, EntrySizes
<1>9. kept \in Nat /\ out \in Nat /\ SizeOf(N) = kept + out
  <2> HIDE DEF N, P
  <2>1. kept \in Nat /\ out \in Nat /\ SizeOf(N) = out + kept
    BY <1>3, PartsAddUp
  <2> HIDE DEF kept, out
  <2> QED
    BY <2>1
<1>10. /\ count \in Nat /\ count <= SizeOf(N)
       /\ k \notin Cached /\ current_size = SizeOf(Cached) => count = SizeOf(N)
  BY CountAfterEvictionType, EvictionCounts
<1>11. current_size' = SaturatingSub(count, out) + size
  BY <1>1
<1>12. SaturatingSub(count, out) \in 0..count
  BY <1>10, SaturatingSubRange
<1> HIDE DEF N, P, kept, out, count
<1>13. /\ SaturatingSub(count, out) <= kept
       /\ count = SizeOf(N) => SaturatingSub(count, out) = kept
  BY <1>9, <1>10, SaturatingSubRest
<1> QED
  BY <1>7, <1>8, <1>9, <1>10, <1>11, <1>12, <1>13 DEF NeverOvercounts

\* A write that empties the store.
LEMMA EvictAllCounts ==
  ASSUME IInv, NeverOvercounts, NEW k, NEW size, EvictAllAndReject(k, size)
  PROVE  NeverOvercounts' /\ current_size' = SizeOf(Cached)'
<1>1. Cached' = {} /\ current_size' = CountAfterEviction(k, 0)
  BY DEF EvictAllAndReject, Cached
<1>2. Newest(rank, 0) = {}
  <2>1. \A j \in DOMAIN rank : rank[j] \in Nat \ {0}
    BY FS_CardinalityType DEF IInv, RankIsAnOrder, IsOrder
  <2> QED
    BY <2>1 DEF Newest
<1>3. SizeOf({}) = 0
  BY TotalOfNone DEF SizeOf
<1>4. SizeOf(Cached)' = 0
  BY <1>1, TotalOfNone DEF SizeOf
<1>5. CountAfterEviction(k, 0) \in Nat /\ CountAfterEviction(k, 0) <= SizeOf({})
  BY <1>2, CountAfterEvictionType, EvictionCounts
<1>6. CountAfterEviction(k, 0) = 0
  BY <1>3, <1>5
<1> QED
  BY <1>1, <1>4, <1>6 DEF NeverOvercounts

\* No step makes the counter pass the bytes cached; and none but a write of a
\* cached key makes it miss them.
LEMMA NextCounts ==
  ASSUME IInv, NeverOvercounts, [Next]_vars
  PROVE  /\ NeverOvercounts'
         /\ current_size = SizeOf(Cached) /\ ~Overwrites => current_size' = SizeOf(Cached)'
<1>1. ASSUME current_size' = current_size, Cached' = Cached,
             \A j \in Cached : entries'[j].size_bytes = entries[j].size_bytes
      PROVE  NeverOvercounts' /\ (current_size = SizeOf(Cached) => current_size' = SizeOf(Cached)')
  <2>1. SizeOf(Cached)' = SizeOf(Cached)
    BY <1>1, KeepsSize
  <2> QED
    BY <1>1, <2>1 DEF NeverOvercounts
<1>2. entries \in [Cached -> Entry] /\ \A e \in Entry : e.size_bytes \in Nat
  BY DEF IInv, TypeOK, Entry
<1>3. CASE UNCHANGED vars
  BY <1>1, <1>3 DEF vars, Cached
<1>4. ASSUME NEW k \in Keys, Lookup(k)
      PROVE  NeverOvercounts' /\ (current_size = SizeOf(Cached) => current_size' = SizeOf(Cached)')
  <2>1. CASE Serve(k)
    BY <1>1, <2>1 DEF Serve, Cached
  <2>2. CASE Elect(k)
    <3>1. entries' = [entries EXCEPT ![k].refresh_started = now] /\ current_size' = current_size
      BY <2>2 DEF Elect
    <3>2. Cached' = Cached
      BY <3>1 DEF Cached
    <3>3. \A j \in Cached : entries'[j].size_bytes = entries[j].size_bytes
      BY <1>2, <3>1 DEF Entry
    <3> QED
      BY <1>1, <3>1, <3>2, <3>3
  <2>3. CASE Expire(k)
    BY <2>3, ExpireCounts
  <2>4. CASE MissAbsent(k)
    BY <1>1, <2>4 DEF MissAbsent, vars, Cached
  <2> QED
    BY <1>4, <2>1, <2>2, <2>3, <2>4 DEF Lookup
<1>5. ASSUME NEW k \in Keys, ClearRefresh(k)
      PROVE  NeverOvercounts' /\ (current_size = SizeOf(Cached) => current_size' = SizeOf(Cached)')
  <2>1. CASE k \in Cached
    <3>1. entries' = [entries EXCEPT ![k].refresh_started = None] /\ current_size' = current_size
      BY <1>5, <2>1 DEF ClearRefresh
    <3>2. Cached' = Cached
      BY <3>1 DEF Cached
    <3>3. \A j \in Cached : entries'[j].size_bytes = entries[j].size_bytes
      BY <1>2, <3>1 DEF Entry
    <3> QED
      BY <1>1, <3>1, <3>2, <3>3
  <2>2. CASE k \notin Cached
    BY <1>1, <1>5, <2>2 DEF ClearRefresh, vars, Cached
  <2> QED
    BY <2>1, <2>2
<1>6. ASSUME NEW k \in Keys, NEW b \in Bodies, NEW s \in Sizes, NEW t \in Ttls,
             PutResponse(k, b, s, t)
      PROVE  /\ NeverOvercounts'
             /\ current_size = SizeOf(Cached) /\ ~Overwrites
                  => current_size' = SizeOf(Cached)'
  <2>1. CASE UNCHANGED vars
    BY <1>1, <2>1 DEF vars, Cached
  <2>2. CASE ~Rejected(s, t) /\ Insert(k, b, s, t)
    <3>1. k \in Cached => Overwrites
      BY <1>6, <2>2 DEF Overwrites
    <3> QED
      BY <2>2, <3>1, InsertCounts
  <2>3. CASE EvictAllAndReject(k, s)
    BY <2>3, EvictAllCounts
  <2> QED
    BY <1>6, <2>1, <2>2, <2>3 DEF PutResponse
<1>7. CASE Tick
  BY <1>1, <1>7 DEF Tick, Cached
<1> QED
  BY <1>3, <1>4, <1>5, <1>6, <1>7 DEF Next

\* The counter never claims more bytes than are cached, whatever is evicted,
\* dropped and overwritten.
THEOREM CounterClaimsNoMore == Spec => []NeverOvercounts
<1>1. Init => NeverOvercounts
  <2> SUFFICES ASSUME Init PROVE NeverOvercounts
    OBVIOUS
  <2>1. Cached = {} /\ current_size = 0
    BY DEF Init, Cached
  <2> QED
    BY <2>1, TotalOfNone DEF NeverOvercounts, SizeOf
<1>2. IInv /\ NeverOvercounts /\ [Next]_vars => NeverOvercounts'
  BY NextCounts
<1> QED
  BY <1>1, <1>2, Invariance, PTL DEF Spec

\* A counter that is right stays right but for a write of a cached key.
THEOREM CounterExact == Spec => ExactUntilOverwrite
<1>1. IInv /\ NeverOvercounts /\ [Next]_vars
        => [current_size = SizeOf(Cached) /\ ~Overwrites
              => current_size' = SizeOf(Cached)']_vars
  BY NextCounts
<1> QED
  BY <1>1, Invariance, CounterClaimsNoMore, PTL DEF Spec, ExactUntilOverwrite

---------------------------------------------------------------------------
(***************************************************************************)
(* Refinement: with items as the abstract state, every step of the store   *)
(* is a step of SwrProtocol or leaves items alone.                         *)
(***************************************************************************)
\* An entry that stays as it is, at the same time, is the same item.
LEMMA SameItem ==
  ASSUME NEW k, UNCHANGED now, k \in Cached <=> k \in Cached',
         k \in Cached => entries'[k] = entries[k]
  PROVE  ItemOf(k)' = ItemOf(k)
BY DEF ItemOf, PhaseOf, IsFresh, InGrace

\* What is not cached is an absent item.
LEMMA AbsentItem ==
  ASSUME NEW k, k \notin Cached
  PROVE  ItemOf(k) = Swr!Absent
BY DEF ItemOf, PhaseOf, IsFresh, InGrace, Swr!Absent

\* A write leaves a fresh item, and drops the evicted ones.
LEMMA InsertWrites ==
  ASSUME IInv, NEW k \in Keys, NEW body \in Bodies, NEW size \in Sizes, NEW ttl \in Ttls,
         ttl # 0, Insert(k, body, size, ttl)
  PROVE  Swr!Write(k, body)
<1> USE CacheStoreAssumption
<1>1. PICK n \in 0..Cardinality(Cached) :
        /\ entries' = [j \in DOMAIN OrderAfterPush(k, n) |->
                         IF j = k THEN NewEntry(body, size, ttl) ELSE entries[j]]
        /\ UNCHANGED now
  BY DEF Insert
<1>2. Cached' = DOMAIN OrderAfterPush(k, n)
  BY <1>1 DEF Cached
<1>3. k \in Cached' /\ Cached' \subseteq Cached \cup {k}
  BY <1>2, PushKeepsCapacity DEF IInv, TypeOK
<1>4. ItemOf(k)' = [phase |-> "fresh", body |-> body]
  <2>1. entries'[k] = NewEntry(body, size, ttl)
    BY <1>1, <1>2, <1>3
  <2>2. now' = now /\ now \in Nat /\ ttl \in Nat /\ ttl > 0
    BY <1>1 DEF IInv, TypeOK
  <2>3. IsFresh(k)'
    BY <1>3, <2>1, <2>2 DEF IsFresh, NewEntry
  <2> QED  BY <2>1, <2>3 DEF ItemOf, PhaseOf, NewEntry
<1> DEFINE S == Keys \ Cached'
<1>5. \A j \in Keys \ {k} : ItemOf(j)' = IF j \in S THEN Swr!Absent ELSE ItemOf(j)
  <2> SUFFICES ASSUME NEW j \in Keys, j # k
               PROVE  ItemOf(j)' = IF j \in S THEN Swr!Absent ELSE ItemOf(j)
    OBVIOUS
  <2>1. CASE j \in S
    BY <2>1 DEF ItemOf, PhaseOf, IsFresh, InGrace, Swr!Absent
  <2>2. CASE j \notin S
    <3>1. j \in Cached' /\ j \in Cached /\ entries'[j] = entries[j]
      BY <1>1, <1>2, <1>3, <2>2
    <3> QED  BY <1>1, <2>2, <3>1, SameItem
  <2> QED  BY <2>1, <2>2
<1>6. items' = [Swr!Gone(S) EXCEPT ![k] = [phase |-> "fresh", body |-> body]]
  BY <1>4, <1>5 DEF items, Swr!Gone
<1>7. S \in SUBSET Keys
  OBVIOUS
<1> QED
  BY <1>6, <1>7 DEF Swr!Write

\* A lookup is an election, or goes unnoticed.
LEMMA LookupElects ==
  ASSUME IInv, NEW k \in Keys, Lookup(k)
  PROVE  Swr!Elect(k) \/ UNCHANGED items
<1>1. CASE Serve(k) \/ MissAbsent(k)
  <2>1. \A j \in Keys : ItemOf(j)' = ItemOf(j)
    BY <1>1, SameItem DEF Serve, MissAbsent, vars, Cached
  <2> QED  BY <2>1 DEF items
<1>2. CASE Expire(k)
  <2>1. /\ UNCHANGED now
        /\ Cached' = Cached \ {k}
        /\ \A j \in Cached' : entries'[j] = entries[j]
    BY <1>2 DEF Expire, Restrict, Cached
  <2>2. \A j \in Keys \ {k} : ItemOf(j)' = ItemOf(j)
    BY <2>1, SameItem
  <2>3. ItemOf(k)' = ItemOf(k)
    BY <1>2, <2>1 DEF Expire, LookupResult, ItemOf, PhaseOf, IsFresh, InGrace
  <2> QED  BY <2>2, <2>3 DEF items
<1>3. CASE Elect(k)
  <2>1. /\ k \in Cached /\ InGrace(k) /\ ~IsFresh(k)
        /\ entries \in [Cached -> Entry] /\ now \in Int
        /\ entries' = [entries EXCEPT ![k].refresh_started = now]
        /\ UNCHANGED now
    BY <1>3 DEF Elect, LookupResult, InGrace, IInv, TypeOK
  <2>2. Cached' = Cached /\ \A j \in Cached \ {k} : entries'[j] = entries[j]
    BY <2>1 DEF Cached
  <2>3. \A j \in Keys \ {k} : ItemOf(j)' = ItemOf(j)
    BY <2>1, <2>2, SameItem
  <2>4. /\ entries'[k].fresh_until = entries[k].fresh_until
        /\ entries'[k].stale_until = entries[k].stale_until
        /\ entries'[k].body = entries[k].body
        /\ entries'[k].refresh_started # None
    BY <2>1, CacheStoreAssumption DEF Entry
  <2>5. ItemOf(k)' = [phase |-> "refreshing", body |-> entries[k].body]
    BY <2>1, <2>2, <2>4 DEF ItemOf, PhaseOf, IsFresh, InGrace
  <2>6. ItemOf(k) \in {[phase |-> "stale", body |-> entries[k].body],
                       [phase |-> "refreshing", body |-> entries[k].body]}
    BY <2>1 DEF ItemOf, PhaseOf
  <2>7. CASE ItemOf(k) = [phase |-> "refreshing", body |-> entries[k].body]
    BY <2>3, <2>5, <2>7 DEF items
  <2>8. CASE ItemOf(k) = [phase |-> "stale", body |-> entries[k].body]
    <3>1. items[k] = [phase |-> "stale", body |-> entries[k].body]
      BY <2>8 DEF items
    <3>2. items' = [items EXCEPT ![k] = ItemOf(k)']
      BY <2>3 DEF items
    <3> QED  BY <2>5, <3>1, <3>2 DEF Swr!Elect, Swr!InPhase
  <2> QED  BY <2>6, <2>7, <2>8
<1> QED
  BY <1>1, <1>2, <1>3 DEF Lookup

\* Clearing a slot releases it, or goes unnoticed.
LEMMA ClearRefreshReleases ==
  ASSUME IInv, NEW k \in Keys, ClearRefresh(k)
  PROVE  Swr!Release(k) \/ UNCHANGED items
<1>1. CASE k \notin Cached
  <2>1. \A j \in Keys : ItemOf(j)' = ItemOf(j)
    BY <1>1, SameItem DEF ClearRefresh, vars, Cached
  <2> QED  BY <2>1 DEF items
<1>2. CASE k \in Cached
  <2>1. /\ entries \in [Cached -> Entry]
        /\ entries' = [entries EXCEPT ![k].refresh_started = None]
        /\ UNCHANGED now
    BY <1>2 DEF ClearRefresh, IInv, TypeOK
  <2>2. Cached' = Cached /\ \A j \in Cached \ {k} : entries'[j] = entries[j]
    BY <2>1 DEF Cached
  <2>3. \A j \in Keys \ {k} : ItemOf(j)' = ItemOf(j)
    BY <2>1, <2>2, SameItem
  <2>4. /\ entries'[k].fresh_until = entries[k].fresh_until
        /\ entries'[k].stale_until = entries[k].stale_until
        /\ entries'[k].body = entries[k].body
        /\ entries'[k].refresh_started = None
    BY <1>2, <2>1 DEF Entry
  <2>5. CASE PhaseOf(k) = "refreshing"
    <3>1. items[k] = [phase |-> "refreshing", body |-> entries[k].body]
      BY <2>5 DEF items, ItemOf
    <3>2. ItemOf(k)' = [phase |-> "stale", body |-> entries[k].body]
      BY <1>2, <2>1, <2>2, <2>4, <2>5 DEF ItemOf, PhaseOf, IsFresh, InGrace
    <3>3. items' = [items EXCEPT ![k] = ItemOf(k)']
      BY <2>3 DEF items
    <3> QED  BY <3>1, <3>2, <3>3 DEF Swr!Release, Swr!InPhase
  <2>6. CASE PhaseOf(k) # "refreshing"
    <3>1. ItemOf(k)' = ItemOf(k)
      BY <1>2, <2>1, <2>2, <2>4, <2>6 DEF ItemOf, PhaseOf, IsFresh, InGrace
    <3> QED  BY <2>3, <3>1 DEF items
  <2> QED  BY <2>5, <2>6
<1> QED
  BY <1>1, <1>2

\* A write that is refused after evicting everything makes all items vanish.
LEMMA EvictAllVanishes ==
  ASSUME NEW k, NEW size, EvictAllAndReject(k, size)
  PROVE  Swr!Vanish
<1>1. Cached' = {}
  BY DEF EvictAllAndReject, Cached
<1>2. \A j \in Keys : ItemOf(j)' = Swr!Absent
  BY <1>1 DEF ItemOf, PhaseOf, IsFresh, InGrace, Swr!Absent
<1>3. items' = Swr!Gone(Keys)
  BY <1>2 DEF items, Swr!Gone
<1> QED
  BY <1>3 DEF Swr!Vanish

\* Time only makes items older.
LEMMA TickAges ==
  ASSUME IInv, Tick
  PROVE  Swr!Age
<1> USE CacheStoreAssumption
<1>1. /\ entries' = entries /\ now' = now + 1 /\ now \in Int
      /\ entries \in [Cached -> Entry] /\ Cached' = Cached
  BY DEF Tick, IInv, TypeOK, Cached
<1>2. ASSUME NEW k \in Keys
      PROVE  ItemOf(k)' \in Swr!Older(ItemOf(k))
  <2>1. CASE PhaseOf(k) = "absent"
    <3>1. PhaseOf(k)' = "absent"
      <4>1. ~IsFresh(k) /\ ~InGrace(k)
        BY <2>1 DEF PhaseOf
      <4>2. CASE k \notin Cached
        BY <1>1, <4>2 DEF PhaseOf, IsFresh, InGrace
      <4>3. CASE k \in Cached
        <5>1. entries[k].fresh_until \in Int /\ entries[k].stale_until \in Int
          BY <1>1, <4>3 DEF Entry
        <5>2. ~(now < entries[k].fresh_until) /\ ~(now < entries[k].stale_until)
          BY <4>1, <4>3 DEF IsFresh, InGrace
        <5> QED  BY <1>1, <4>3, <5>1, <5>2 DEF PhaseOf, IsFresh, InGrace
      <4> QED  BY <4>2, <4>3
    <3> QED  BY <2>1, <3>1 DEF ItemOf, Swr!Older
  <2>2. CASE PhaseOf(k) # "absent"
    <3>1. k \in Cached
      BY <2>2 DEF PhaseOf, IsFresh, InGrace
    <3>2. /\ entries[k].fresh_until \in Int /\ entries[k].stale_until \in Int
          /\ entries[k].refresh_started \in Int \cup {None}
          /\ entries[k].refresh_started # None => entries[k].fresh_until <= now
      BY <1>1, <3>1 DEF Entry, IInv, SlotWithinWindow
    <3>3. ItemOf(k) = [phase |-> PhaseOf(k), body |-> entries[k].body]
      BY <2>2 DEF ItemOf
    <3>4. ItemOf(k)' \in {Swr!Absent, [phase |-> PhaseOf(k)', body |-> entries[k].body]}
      BY <1>1 DEF ItemOf, Swr!Absent
    <3>5. \/ PhaseOf(k)' \in {"absent", PhaseOf(k)}
          \/ PhaseOf(k) = "fresh" /\ PhaseOf(k)' = "stale"
      <4>1. CASE IsFresh(k)
        <5>1. entries[k].refresh_started = None
          BY <1>1, <3>2, <4>1 DEF IsFresh
        <5> QED  BY <1>1, <3>1, <4>1, <5>1 DEF PhaseOf, IsFresh, InGrace
      <4>2. CASE ~IsFresh(k)
        <5>1. ~IsFresh(k)' /\ InGrace(k)
          BY <1>1, <2>2, <3>1, <3>2, <4>2 DEF IsFresh, PhaseOf
        <5> QED  BY <1>1, <4>2, <5>1 DEF PhaseOf
      <4> QED  BY <4>1, <4>2
    <3>6. PhaseOf(k)' = "absent" => ItemOf(k)' = Swr!Absent
      BY DEF ItemOf, Swr!Absent
    <3>7. Swr!InPhase(ItemOf(k), "stale") = [phase |-> "stale", body |-> entries[k].body]
      BY <3>3 DEF Swr!InPhase
    <3> QED  BY <3>3, <3>4, <3>5, <3>6, <3>7 DEF Swr!Older
  <2> QED  BY <2>1, <2>2
<1> QED
  BY <1>2 DEF items, Swr!Age

\* The response cache implements the stale-while-revalidate protocol.
THEOREM Refinement == Spec => ImplementsSwr
<1>1. Init => Swr!Init
  <2> SUFFICES ASSUME Init PROVE \A k \in Keys : ItemOf(k) = Swr!Absent
    BY DEF Swr!Init, items
  <2> QED  BY AbsentItem DEF Init, Cached
<1>2. IInv /\ [Next]_vars => [Swr!Next]_items
  <2> SUFFICES ASSUME IInv, [Next]_vars PROVE [Swr!Next]_items
    OBVIOUS
  <2>1. CASE UNCHANGED vars
    <3>1. \A j \in Keys : ItemOf(j)' = ItemOf(j)
      BY <2>1, SameItem DEF vars, Cached
    <3> QED  BY <3>1 DEF items
  <2>2. ASSUME NEW k \in Keys, Lookup(k) PROVE [Swr!Next]_items
    BY <2>2, LookupElects DEF Swr!Next
  <2>3. ASSUME NEW k \in Keys, ClearRefresh(k) PROVE [Swr!Next]_items
    BY <2>3, ClearRefreshReleases DEF Swr!Next
  <2>4. ASSUME NEW k \in Keys, NEW b \in Bodies, NEW s \in Sizes, NEW t \in Ttls,
               PutResponse(k, b, s, t)
        PROVE  [Swr!Next]_items
    BY <2>1, <2>4, InsertWrites, EvictAllVanishes DEF PutResponse, Rejected, Swr!Next
  <2>5. ASSUME Tick PROVE [Swr!Next]_items
    BY <2>5, TickAges DEF Swr!Next
  <2> QED  BY <2>1, <2>2, <2>3, <2>4, <2>5 DEF Next
<1> QED
  BY <1>1, <1>2, Invariance, PTL DEF Spec, Swr!Spec, ImplementsSwr
===========================================================================
