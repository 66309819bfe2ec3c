----------------------------- MODULE RateLimit ----------------------------
(***************************************************************************)
(* The shared rate limiter: RateLimitStore in src/src/runtime/context.rs   *)
(* as the `rateLimit' step calls it (src/src/middleware/rate_limit.rs).    *)
(*                                                                         *)
(* Each key has a counter and a window that starts with the key's first    *)
(* request; a full LRU map forgets the key used least recently.  Every     *)
(* call holds the `inner' mutex for its whole body and is one action.  Of  *)
(* the clock the model keeps what the code looks at: how many ticks (of    *)
(* 1/Tps second) ago each window started, up to the end of the window.     *)
(***************************************************************************)
EXTENDS LruOrder

CONSTANTS
  Keys,         \* interpolated keys
  Configs,      \* what the rateLimit steps ask for
  MaxEntries,   \* capacity of the LruCache
  Tps,          \* ticks per second
  Word          \* 2^64: limit + burst wraps (in a release build)

ASSUME RateLimitAssumption ==
  /\ Configs \subseteq [limit: Nat, window: Nat, burst: Nat]
  /\ MaxEntries \in Nat \ {0}
  /\ Tps \in Nat \ {0}
  /\ Word \in Nat \ {0}

VARIABLES
  entries,   \* RateLimitEntry by key: count, window_secs, and the age of
             \* window_start in ticks
  rank       \* place of each key in the LRU order, 1 = newest

limitVars == <<entries, rank>>

Held == DOMAIN entries

Entry == [count: Nat, age: Nat, window_secs: Nat]

Init ==
  /\ entries = [k \in {} |-> 0]
  /\ rank = EmptyOrder

EffectiveLimit(c) == (c.limit + c.burst) % Word

\* The step asks for a window of at least a second.
WindowSecs(c) == IF c.window = 0 THEN 1 ELSE c.window

\* elapsed >= window_duration, for the window the entry was opened with.
Expired(k) == entries[k].age >= Tps * entries[k].window_secs

Opened(c) == [count |-> 1, age |-> 0, window_secs |-> WindowSecs(c)]

---------------------------------------------------------------------------
(***************************************************************************)
(* check_and_increment.                                                    *)
(***************************************************************************)
\* Mutant: the comparison admits one request too many.
HasRoomInclusive(k, c) == entries[k].count <= EffectiveLimit(c)

HasRoom(k, c) == entries[k].count < EffectiveLimit(c)

Admits(k, c) == k \notin Held \/ Expired(k) \/ HasRoom(k, c)

\* Mutant: a new window goes on counting where the old one stopped.
ResetKeepingCount(k, c) ==
  /\ k \in Held /\ Expired(k)
  /\ entries' = [entries EXCEPT ![k] = [Opened(c) EXCEPT !.count = entries[k].count + 1]]
  /\ rank' = Promoted(rank, k)

\* The window is over: a new one starts with this request.
Reset(k, c) ==
  /\ k \in Held /\ Expired(k)
  /\ entries' = [entries EXCEPT ![k] = Opened(c)]
  /\ rank' = Promoted(rank, k)

Increment(k, c) ==
  /\ k \in Held /\ ~Expired(k) /\ HasRoom(k, c)
  /\ entries' = [entries EXCEPT ![k].count = @ + 1]
  /\ rank' = Promoted(rank, k)

\* Mutant: a denied request starts the window again.
DenyRestarting(k, c) ==
  /\ k \in Held /\ ~Admits(k, c)
  /\ entries' = [entries EXCEPT ![k].age = 0]
  /\ rank' = Promoted(rank, k)

Deny(k, c) ==
  /\ k \in Held /\ ~Admits(k, c)
  /\ UNCHANGED entries
  /\ rank' = Promoted(rank, k)

\* LruCache::put of a key that is not held drops the oldest of a full map.
Kept == IF Cardinality(Held) < MaxEntries THEN Cardinality(Held) ELSE MaxEntries - 1

Open(k, c) ==
  /\ k \notin Held
  /\ entries' = [j \in Newest(rank, Kept) \cup {k} |->
                   IF j = k THEN Opened(c) ELSE entries[j]]
  /\ rank' = Promoted(Truncated(rank, Kept), k)

CheckAndIncrement(k, c) ==
  Reset(k, c) \/ Increment(k, c) \/ Deny(k, c) \/ Open(k, c)

\* get_count: a look at a counter is a use of its key.
GetCount(k) ==
  /\ k \in Held
  /\ rank' = Promoted(rank, k)
  /\ UNCHANGED entries

---------------------------------------------------------------------------
\* A tick of the clock; a window that is over grows no older.
Older(e) == IF e.age >= Tps * e.window_secs THEN e ELSE [e EXCEPT !.age = @ + 1]

Tick ==
  /\ entries' = [k \in Held |-> Older(entries[k])]
  /\ UNCHANGED rank

Next ==
  \/ Tick
  \/ \E k \in Keys : GetCount(k) \/ \E c \in Configs : CheckAndIncrement(k, c)

Spec == Init /\ [][Next]_limitVars

---------------------------------------------------------------------------
(***************************************************************************)
(* Properties.                                                             *)
(***************************************************************************)

\* The variables have their types, the LRU order covers the keys held, and
\* the map never holds more than its capacity.
TypeOK ==
  /\ entries \in [Held -> Entry]
  /\ Held \subseteq Keys
  /\ Cardinality(Held) <= MaxEntries
  /\ DOMAIN rank = Held /\ IsOrder(rank)

\* check_and_increment never counts a window beyond the highest effective
\* limit its callers ask for; the first request of a window is let through
\* whatever the limit is.
CountWithinLimit ==
  \A k \in Held : \/ entries[k].count = 1
                  \/ \E c \in Configs : entries[k].count <= EffectiveLimit(c)
===========================================================================
