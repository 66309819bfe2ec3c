---------------------------- MODULE CacheStore ----------------------------
(***************************************************************************)
(* The shared response cache (CacheStore in src/src/runtime/context.rs):   *)
(* an LRU map with a time to live, a stale-while-revalidate window, one    *)
(* refresh slot per entry, and a byte counter kept beside the map.         *)
(*                                                                         *)
(* Every operation takes the `inner' mutex for its whole body, so each is  *)
(* one action.  The callers here are the most general ones: any thread may *)
(* look up, clear or write any key at any moment.                          *)
(*                                                                         *)
(* LruCache::push hands back the PREVIOUS pair of an existing key, as well *)
(* as an entry it evicts for lack of capacity.                             *)
(***************************************************************************)
EXTENDS LruOrder, Totals, Functions

CONSTANTS
  Keys,          \* cache keys
  Bodies,        \* what is cached: state, content type and status
  Sizes,         \* estimated byte sizes a response may have
  Ttls,          \* times to live the cache steps ask for, in seconds
  MaxEntries,    \* capacity of the LruCache
  MaxEntrySize,  \* max_entry_size
  MaxTotalSize,  \* max_total_size
  Grace,         \* swr_grace_secs
  Takeover,      \* refresh_takeover_secs
  MaxTime,       \* bound of the clock
  None           \* refresh_started of an entry nobody refreshes

ASSUME CacheStoreAssumption ==
  /\ Sizes \subseteq Nat
  /\ Ttls \subseteq Nat
  /\ MaxEntries \in Nat \ {0}
  /\ MaxEntrySize \in Nat
  /\ MaxTotalSize \in Nat
  /\ Grace \in Nat
  /\ Takeover \in Nat
  /\ MaxTime \in Nat
  /\ None \notin Int

VARIABLES
  entries,       \* the cached entries, by key
  rank,          \* place of each cached key in the LRU order, 1 = newest
  current_size,  \* the byte counter
  now            \* Instant::now, in whole seconds

vars == <<entries, rank, current_size, now>>

Cached == DOMAIN entries

Entry ==
  [body: Bodies, size_bytes: Nat, fresh_until: Int, stale_until: Int,
   refresh_started: Int \cup {None}]

Init ==
  /\ entries = [k \in {} |-> None]
  /\ rank = EmptyOrder
  /\ current_size = 0
  /\ now = 0

(***************************************************************************)
(* usize::saturating_sub and the bytes really cached.                      *)
(***************************************************************************)
SaturatingSub(a, b) == IF b \in 0..a THEN a - b ELSE 0

SizeOf(K) == Total([k \in Cached |-> entries[k].size_bytes], K)

(***************************************************************************)
(* lookup: what the caller is told, and what it does to the store.         *)
(***************************************************************************)
IsFresh(k) == k \in Cached /\ now < entries[k].fresh_until

\* Mutant: the stale window has no end.
InEndlessGrace(k) == k \in Cached /\ ~IsFresh(k)

InGrace(k) == k \in Cached /\ ~IsFresh(k) /\ now < entries[k].stale_until

\* Mutant: every caller in the stale window is elected.
AlwaysTakeOver(k) == TRUE

CanTakeOver(k) ==
  \/ entries[k].refresh_started = None
  \/ /\ entries[k].refresh_started # None
     /\ now - entries[k].refresh_started >= Takeover

LookupResult(k) ==
  IF IsFresh(k) THEN "Fresh"
  ELSE IF InGrace(k) THEN IF CanTakeOver(k) THEN "Refresh" ELSE "Stale"
  ELSE "Miss"

\* A served entry becomes the most recently used one (get_mut).
Serve(k) ==
  /\ LookupResult(k) \in {"Fresh", "Stale"}
  /\ rank' = Promoted(rank, k)
  /\ UNCHANGED <<entries, current_size, now>>

\* The caller takes the refresh slot of a stale entry.
Elect(k) ==
  /\ LookupResult(k) = "Refresh"
  /\ entries' = [entries EXCEPT ![k].refresh_started = now]
  /\ rank' = Promoted(rank, k)
  /\ UNCHANGED <<current_size, now>>

\* Mutant: the size of an expired entry is not given back.
ExpireKeepingSize(k) ==
  /\ k \in Cached
  /\ LookupResult(k) = "Miss"
  /\ entries' = Restrict(entries, Cached \ {k})
  /\ rank' = Removed(rank, k)
  /\ UNCHANGED <<current_size, now>>

\* An entry past its stale window is popped and its size given back.
Expire(k) ==
  /\ k \in Cached
  /\ LookupResult(k) = "Miss"
  /\ entries' = Restrict(entries, Cached \ {k})
  /\ rank' = Removed(rank, k)
  /\ current_size' = SaturatingSub(current_size, entries[k].size_bytes)
  /\ UNCHANGED now

MissAbsent(k) == k \notin Cached /\ UNCHANGED vars

Lookup(k) == Serve(k) \/ Elect(k) \/ Expire(k) \/ MissAbsent(k)

(***************************************************************************)
(* clear_refresh: whoever calls it, the slot of the key becomes free.      *)
(***************************************************************************)
ClearRefresh(k) ==
  IF k \in Cached
  THEN /\ entries' = [entries EXCEPT ![k].refresh_started = None]
       /\ rank' = Promoted(rank, k)
       /\ UNCHANGED <<current_size, now>>
  ELSE UNCHANGED vars

(***************************************************************************)
(* put_response.                                                           *)
(***************************************************************************)
OldSize(k) == IF k \in Cached THEN entries[k].size_bytes ELSE 0

\* The counter once the old size of k is subtracted, then those of all but
\* the n newest keys (saturation makes the order immaterial).
CountAfterEviction(k, n) ==
  SaturatingSub(SaturatingSub(current_size, OldSize(k)),
                SizeOf(Cached \ Newest(rank, n)))

\* Mutant: room is made for the old entries only.
FitsWithoutNew(k, n, size) == CountAfterEviction(k, n) <= MaxTotalSize

Fits(k, n, size) == CountAfterEviction(k, n) + size <= MaxTotalSize

\* pop_lru runs until the entry fits: as many keys stay as can.
EvictionStopsAt(k, n, size) ==
  /\ n \in 0..Cardinality(Cached)
  /\ Fits(k, n, size)
  /\ \A m \in (n + 1)..Cardinality(Cached) : ~Fits(k, m, size)

\* Mutant: push's return value is ignored.
PushedOutIgnored(k, n) == {}

\* `push' onto the n newest keys: the keys whose pair it hands back (the
\* previous pair of k, or the oldest pair of a full map), and those it keeps.
PushedOut(k, n) ==
  LET K == Newest(rank, n)
  IN IF k \in K THEN {k} ELSE IF n >= MaxEntries THEN {j \in K : rank[j] = n} ELSE {}

OrderAfterPush(k, n) ==
  IF k \in Newest(rank, n) \/ n < MaxEntries THEN Promoted(Truncated(rank, n), k)
  ELSE Promoted(Truncated(rank, n - 1), k)

\* Mutant: a new entry starts with its refresh slot taken.
NewEntrySlotTaken(body, size, ttl) ==
  [body |-> body, size_bytes |-> size, fresh_until |-> now + ttl,
   stale_until |-> now + ttl + Grace, refresh_started |-> now]

NewEntry(body, size, ttl) ==
  [body |-> body, size_bytes |-> size, fresh_until |-> now + ttl,
   stale_until |-> now + ttl + Grace, refresh_started |-> None]

\* The new entry; then the sizes, push's return value subtracted as well.
Insert(k, body, size, ttl) ==
  \E n \in 0..Cardinality(Cached) :
    /\ EvictionStopsAt(k, n, size)
    /\ entries' = [j \in DOMAIN OrderAfterPush(k, n) |->
                     IF j = k THEN NewEntry(body, size, ttl) ELSE entries[j]]
    /\ rank' = OrderAfterPush(k, n)
    /\ current_size' =
         SaturatingSub(CountAfterEviction(k, n), SizeOf(PushedOut(k, n))) + size
    /\ UNCHANGED now

\* Everything was evicted and the entry still does not fit.
EvictAllAndReject(k, size) ==
  /\ \A n \in 0..Cardinality(Cached) : ~Fits(k, n, size)
  /\ entries' = [j \in {} |-> None]
  /\ rank' = EmptyOrder
  /\ current_size' = CountAfterEviction(k, 0)
  /\ UNCHANGED now

Rejected(size, ttl) == ttl = 0 \/ size > MaxEntrySize

PutResponse(k, body, size, ttl) ==
  \/ Rejected(size, ttl) /\ UNCHANGED vars
  \/ ~Rejected(size, ttl) /\ Insert(k, body, size, ttl)
  \/ ~Rejected(size, ttl) /\ EvictAllAndReject(k, size)

Tick ==
  /\ now < MaxTime
  /\ now' = now + 1
  /\ UNCHANGED <<entries, rank, current_size>>

Next ==
  \/ \E k \in Keys : Lookup(k) \/ ClearRefresh(k)
  \/ \E k \in Keys, b \in Bodies, s \in Sizes, t \in Ttls : PutResponse(k, b, s, t)
  \/ Tick

Spec == Init /\ [][Next]_vars

---------------------------------------------------------------------------
(***************************************************************************)
(* Properties.                                                             *)
(***************************************************************************)

\* The variables have their types, the LRU order covers the cached keys and
\* the map never holds more than its capacity.
TypeOK ==
  /\ entries \in [Cached -> Entry]
  /\ Cached \subseteq Keys
  /\ Cardinality(Cached) <= MaxEntries
  /\ rank \in [Cached -> Nat]
  /\ current_size \in Nat
  /\ now \in 0..MaxTime

\* The LRU order is a total order: get_mut, push, pop and the eviction loop
\* of put_response never leave two keys in one place, or a gap.
RankIsAnOrder == DOMAIN rank = Cached /\ IsOrder(rank)

\* The eviction loop of put_response keeps the byte COUNTER within
\* max_total_size, whatever it miscounts.
CountedWithinLimit == current_size <= MaxTotalSize

\* The counter never claims more bytes than are cached: saturating_sub and
\* the double subtraction of an overwrite can only lose bytes, so no entry is
\* ever evicted for room that is really there.
NeverOvercounts == current_size <= SizeOf(Cached)

\* put_response of a live key is the only operation that makes the counter
\* disagree with the bytes cached.
Overwrites ==
  \E k \in Cached, b \in Bodies, s \in Sizes, t \in Ttls :
    PutResponse(k, b, s, t) /\ ~Rejected(s, t)

ExactUntilOverwrite ==
  [][current_size = SizeOf(Cached) /\ ~Overwrites
       => current_size' = SizeOf(Cached)']_vars

\* A refresh slot is held only within the stale window of the entry it
\* belongs to: put_response starts every generation with a free slot, and
\* lookup elects only between fresh_until and stale_until.
SlotWithinWindow ==
  \A k \in Cached :
    LET e == entries[k]
    IN /\ e.stale_until = e.fresh_until + Grace
       /\ e.refresh_started # None =>
            /\ e.fresh_until <= e.refresh_started
            /\ e.refresh_started < e.stale_until
            /\ e.refresh_started <= now

\* With a takeover time no shorter than the grace window (the defaults: 30
\* and 30), a held slot is never handed to a second caller: the entry expires
\* first, so a crashed refresher is never taken over.
Retaken(k) ==
  /\ k \in Cached /\ k \in Cached'
  /\ entries[k].refresh_started # None
  /\ entries'[k].refresh_started \notin {None, entries[k].refresh_started}

NoTakeoverWithinGrace ==
  [][Grace <= Takeover => \A k \in Keys : ~Retaken(k)]_vars

\* The cache implements the stale-while-revalidate protocol.
PhaseOf(k) ==
  IF IsFresh(k) THEN "fresh"
  ELSE IF InGrace(k)
       THEN IF entries[k].refresh_started = None THEN "stale" ELSE "refreshing"
       ELSE "absent"

ItemOf(k) ==
  IF PhaseOf(k) = "absent" THEN [phase |-> "absent", body |-> None]
  ELSE [phase |-> PhaseOf(k), body |-> entries[k].body]

items == [k \in Keys |-> ItemOf(k)]

Swr == INSTANCE SwrProtocol WITH item <- items

ImplementsSwr == Swr!Spec
===========================================================================
