-------------------------- MODULE RateLimitProofs -------------------------
(***************************************************************************)
(* For every set of keys and configurations, the rate limiter keeps its    *)
(* types and capacity, and counts no window beyond the highest limit.      *)
(***************************************************************************)
EXTENDS RateLimitClients, StoreLemmas

\* The inductive invariant.
IInv == TypeOK /\ CountWithinLimit

\* What a caller asks for is a number.
LEMMA ConfigTypes ==
  ASSUME NEW c \in Configs
  PROVE  EffectiveLimit(c) \in Nat /\ Opened(c) \in Entry
<1> USE RateLimitAssumption
<1>1. c.limit \in Nat /\ c.burst \in Nat /\ c.window \in Nat
  OBVIOUS
<1>2. EffectiveLimit(c) \in Nat
  BY <1>1 DEF EffectiveLimit
<1>3. Opened(c) \in Entry
  BY <1>1 DEF Opened, WindowSecs, Entry
<1> QED
  BY <1>2, <1>3

\* A call that finds the key held moves it to the front and changes at most
\* its entry, to one that is counted within the limits.
LEMMA HeldKeyIInv ==
  ASSUME IInv, NEW k \in Held, rank' = Promoted(rank, k),
         Held' = Held,
         \A j \in Held \ {k} : entries'[j] = entries[j],
         entries' = [j \in Held |-> entries'[j]],
         entries'[k] \in Entry,
         \/ entries'[k].count = 1
         \/ \E c \in Configs : entries'[k].count <= EffectiveLimit(c)
  PROVE  IInv'
<1>1. IsOrder(rank) /\ DOMAIN rank = Held
  BY DEF IInv, TypeOK
<1>2. IsOrder(Promoted(rank, k))
  BY <1>1, PromotedIsOrder
<1>3. DOMAIN Promoted(rank, k) = Held
  BY <1>1 DEF Promoted
<1>4. \A j \in Held : entries'[j] \in Entry
  BY DEF IInv, TypeOK
<1>5. entries' \in [Held -> Entry]
  BY <1>4
<1>6. TypeOK'
  BY <1>2, <1>3, <1>5 DEF IInv, TypeOK
<1>7. CountWithinLimit'
  <2> SUFFICES ASSUME NEW j \in Held
               PROVE  \/ entries'[j].count = 1
                      \/ \E c \in Configs : entries'[j].count <= EffectiveLimit(c)
    BY DEF CountWithinLimit, EffectiveLimit
  <2> QED  BY DEF IInv, CountWithinLimit
<1> QED
  BY <1>6, <1>7 DEF IInv

\* The first request of a window that follows another.
LEMMA ResetIInv == ASSUME IInv, NEW k, NEW c \in Configs, Reset(k, c) PROVE IInv'
<1>1. /\ k \in Held /\ rank' = Promoted(rank, k)
      /\ entries' = [entries EXCEPT ![k] = Opened(c)]
      /\ entries \in [Held -> Entry]
  BY DEF Reset, IInv, TypeOK
<1>2. Held' = Held
  BY <1>1 DEF Held
<1>3. entries'[k] = Opened(c) /\ Opened(c).count = 1
  BY <1>1 DEF Opened
<1> QED
  BY <1>1, <1>2, <1>3, ConfigTypes, HeldKeyIInv

\* A further request of a window that has room.
LEMMA IncrementIInv == ASSUME IInv, NEW k, NEW c \in Configs, Increment(k, c) PROVE IInv'
<1>1. /\ k \in Held /\ rank' = Promoted(rank, k)
      /\ entries' = [entries EXCEPT ![k].count = @ + 1]
      /\ entries \in [Held -> Entry]
      /\ entries[k].count < EffectiveLimit(c)
  BY DEF Increment, HasRoom, IInv, TypeOK
<1>2. Held' = Held
  BY <1>1 DEF Held
<1>3. /\ entries'[k] \in Entry
      /\ entries'[k].count = entries[k].count + 1
      /\ entries[k].count \in Nat
  BY <1>1 DEF Entry
<1>4. entries'[k].count <= EffectiveLimit(c)
  BY <1>1, <1>3, ConfigTypes
<1> QED
  BY <1>1, <1>2, <1>3, <1>4, HeldKeyIInv

\* A denied request, or a look at the counter.
LEMMA TouchIInv ==
  ASSUME IInv, NEW k \in Held, rank' = Promoted(rank, k), UNCHANGED entries
  PROVE  IInv'
<1>1. Held' = Held /\ entries \in [Held -> Entry]
  BY DEF IInv, TypeOK, Held
<1>2. \/ entries[k].count = 1
      \/ \E c \in Configs : entries[k].count <= EffectiveLimit(c)
  BY DEF IInv, CountWithinLimit
<1> QED
  BY <1>1, <1>2, HeldKeyIInv

\* The first request of a key, into a map that may be full.
LEMMA OpenIInv == ASSUME IInv, NEW k \in Keys, NEW c \in Configs, Open(k, c) PROVE IInv'
<1> USE RateLimitAssumption
<1> DEFINE K == Newest(rank, Kept)
           old == Truncated(rank, Kept)
<1>1. IsOrder(rank) /\ DOMAIN rank = Held /\ Cardinality(Held) <= MaxEntries
  BY DEF IInv, TypeOK
<1>2. Cardinality(Held) \in Nat
  BY <1>1, FS_CardinalityType DEF IsOrder
<1>3. Kept \in 0..Cardinality(Held) /\ Kept + 1 <= MaxEntries
  BY <1>1, <1>2 DEF Kept
<1>4. IsOrder(old) /\ IsFiniteSet(K) /\ Cardinality(K) = Kept
  BY <1>1, <1>3, TruncatedIsOrder
<1>5. DOMAIN old = K /\ K \subseteq Held
  BY <1>1 DEF Truncated, Newest
<1>6. Held' = K \cup {k} /\ k \notin Held
  BY DEF Open, Held
<1>7. IsOrder(rank') /\ DOMAIN rank' = Held'
  BY <1>4, <1>5, <1>6, PromotedIsOrder DEF Open, Promoted
<1>8. Cardinality(Held') <= MaxEntries
  <2>1. Cardinality(K \cup {k}) = Kept + 1
    BY <1>4, <1>5, <1>6, FS_AddElement
  <2> QED  BY <1>3, <1>6, <2>1
<1>9. \A j \in Held' : entries'[j] = IF j = k THEN Opened(c) ELSE entries[j]
  BY <1>6 DEF Open
<1>10. entries' \in [Held' -> Entry]
  <2>1. \A j \in Held' : entries'[j] \in Entry
    BY <1>5, <1>6, <1>9, ConfigTypes DEF IInv, TypeOK
  <2> QED  BY <1>6, <2>1 DEF Open
<1>11. TypeOK'
  BY <1>5, <1>6, <1>7, <1>8, <1>10 DEF IInv, TypeOK
<1>12. CountWithinLimit'
  <2> SUFFICES ASSUME NEW j \in Held'
               PROVE  \/ entries'[j].count = 1
                      \/ \E d \in Configs : entries'[j].count <= EffectiveLimit(d)
    BY DEF CountWithinLimit, EffectiveLimit
  <2>1. CASE j = k
    BY <1>9, <2>1 DEF Opened
  <2>2. CASE j # k
    BY <1>5, <1>6, <1>9, <2>2 DEF IInv, CountWithinLimit
  <2> QED  BY <2>1, <2>2
<1> QED
  BY <1>11, <1>12 DEF IInv

\* Time leaves the counters alone.
LEMMA TickIInv == ASSUME IInv, Tick PROVE IInv'
<1>1. Held' = Held /\ rank' = rank
  BY DEF Tick, Held
<1>2. \A j \in Held : entries'[j] \in Entry /\ entries'[j].count = entries[j].count
  BY <1>1 DEF Tick, Older, Entry, IInv, TypeOK
<1>3. entries' \in [Held -> Entry]
  BY <1>1, <1>2 DEF Tick
<1>4. TypeOK'
  BY <1>1, <1>3 DEF IInv, TypeOK
<1>5. CountWithinLimit'
  BY <1>1, <1>2 DEF IInv, CountWithinLimit, EffectiveLimit
<1> QED
  BY <1>4, <1>5 DEF IInv

---------------------------------------------------------------------------
\* The store starts empty and every call keeps the invariant.
LEMMA Invariance == Spec => []IInv
<1>1. Init => IInv
  <2> SUFFICES ASSUME Init PROVE IInv
    OBVIOUS
  <2>1. Held = {} /\ Cardinality(Held) = 0 /\ entries \in [Held -> Entry]
    BY FS_EmptySet DEF Init, Held
  <2>2. IsOrder(rank) /\ DOMAIN rank = {}
    BY EmptyIsOrder DEF Init
  <2>3. TypeOK
    BY <2>1, <2>2, RateLimitAssumption DEF TypeOK
  <2> QED  BY <2>1, <2>3 DEF IInv, CountWithinLimit
<1>2. IInv /\ [Next]_limitVars => IInv'
  <2> SUFFICES ASSUME IInv, [Next]_limitVars PROVE IInv'
    OBVIOUS
  <2>1. CASE Tick
    BY <2>1, TickIInv
  <2>2. ASSUME NEW k \in Keys, GetCount(k) PROVE IInv'
    BY <2>2, TouchIInv DEF GetCount
  <2>3. ASSUME NEW k \in Keys, NEW c \in Configs, CheckAndIncrement(k, c) PROVE IInv'
    <3>1. CASE Deny(k, c)
      BY <3>1, TouchIInv DEF Deny
    <3> QED  BY <2>3, <3>1, ResetIInv, IncrementIInv, OpenIInv DEF CheckAndIncrement
  <2>4. CASE UNCHANGED limitVars
    BY <2>4 DEF limitVars, IInv, TypeOK, CountWithinLimit, Held
  <2> QED  BY <2>1, <2>2, <2>3, <2>4 DEF Next
<1> QED
  BY <1>1, <1>2, PTL DEF Spec

\* The clients do nothing to the store but call its operations.
LEMMA ClientsUseStore == ClientsSpec => Spec
<1>1. ClientsInit => Init
  BY DEF ClientsInit
<1>2. [ClientsNext]_vars => [Next]_limitVars
  BY DEF ClientsNext, Elapse, Peek, Request, Next, vars, limitVars
<1> QED
  BY <1>1, <1>2, PTL DEF ClientsSpec, Spec

\* Whatever the clients ask, the limiter keeps its types, its LRU order and
\* the capacity of its map.
THEOREM TypeCorrect == ClientsSpec => []TypeOK
<1>1. IInv => TypeOK
  BY DEF IInv
<1> QED
  BY <1>1, Invariance, ClientsUseStore, PTL

\* Whatever the clients ask, check_and_increment counts no window beyond the
\* highest effective limit (or beyond the one request that opens it).
THEOREM CountsWithinLimit == ClientsSpec => []CountWithinLimit
<1>1. IInv => CountWithinLimit
  BY DEF IInv
<1> QED
  BY <1>1, Invariance, ClientsUseStore, PTL

---------------------------------------------------------------------------
(***************************************************************************)
(* Two windows at most.  The requests of the present window are counted,   *)
(* and the window before it began a shortest window earlier at least; once *)
(* a window is over, its requests are all that were admitted lately.       *)
(***************************************************************************)
Highest == IF MaxLimit = 0 THEN 1 ELSE MaxLimit

InWindow(k) == Ages \cap 0..entries[k].age

Earlier(k) ==
  {a \in Ages : entries[k].age < a /\ a < entries[k].age + ShortestWindow}

Lately == Ages \cap 0..(ShortestWindow - 1)

WindowCounted(k) ==
  /\ recent[k] \in [Ages -> Nat]
  /\ k \notin Held => recent[k] = Nothing
  /\ k \in Held => ShortestWindow <= Tps * entries[k].window_secs
  /\ k \in Held /\ ~Expired(k) =>
       /\ Total(recent[k], InWindow(k)) <= entries[k].count
       /\ Total(recent[k], Earlier(k)) <= Highest
  /\ k \in Held /\ Expired(k) =>
       /\ recent[k][0] = 0
       /\ Total(recent[k], Lately) <= Highest

WindowsCounted == \A k \in Keys : WindowCounted(k)

\* There is a shortest window, of a tick at least.
LEMMA ShortestIsLeast ==
  /\ ShortestWindow \in Nat \ {0}
  /\ \A c \in Configs : ShortestWindow <= Tps * WindowSecs(c)
<1> DEFINE windows == {Tps * WindowSecs(c) : c \in Configs}
<1>1. \A c \in Configs : WindowSecs(c) \in Nat \ {0}
  BY RateLimitAssumption DEF RateLimitAssumption, WindowSecs
<1>2. \A m, n \in Nat \ {0} : m * n \in Nat \ {0}
  OBVIOUS
<1>3. \A c \in Configs : Tps * WindowSecs(c) \in Nat \ {0}
  BY <1>1, <1>2, RateLimitAssumption DEF RateLimitAssumption
<1>4. windows \subseteq Nat /\ windows # {}
  BY <1>3, ClientsAssumption DEF ClientsAssumption
<1>5. \E m \in windows : \A n \in windows : m <= n
  <2> HIDE DEF windows
  <2> QED
    BY <1>4, LeastNatural
<1>6. \E t \in windows : \A c \in Configs : t <= Tps * WindowSecs(c)
  BY <1>5
<1>7. /\ ShortestWindow \in windows
      /\ \A c \in Configs : ShortestWindow <= Tps * WindowSecs(c)
  BY <1>6 DEF ShortestWindow
<1> QED
  BY <1>3, <1>7

\* There is a highest limit: the sum of limit and burst wraps.
LEMMA MaxLimitIsGreatest ==
  /\ MaxLimit \in Nat
  /\ \A c \in Configs : EffectiveLimit(c) <= MaxLimit
<1> DEFINE limits == {EffectiveLimit(c) : c \in Configs}
           room == {Word - l : l \in limits}
<1>1. \A c \in Configs : EffectiveLimit(c) \in Nat /\ EffectiveLimit(c) < Word
  BY RateLimitAssumption DEF RateLimitAssumption, EffectiveLimit
<1>2. Word \in Nat /\ \A l \in limits : l \in Nat /\ l < Word
  BY <1>1, RateLimitAssumption DEF RateLimitAssumption
<1>3. limits # {}
  BY ClientsAssumption DEF ClientsAssumption
<1>4. \E l \in limits : \A m \in limits : m <= l
  <2> HIDE DEF limits
  <2>1. room \subseteq Nat /\ room # {}
    BY <1>2, <1>3
  <2>2. \E r \in room : \A s \in room : r <= s
    <3> HIDE DEF room
    <3> QED
      BY <2>1, LeastNatural
  <2>3. PICK l \in limits : \A m \in limits : Word - l <= Word - m
    BY <2>2
  <2>4. \A m \in limits : m <= l
    BY <1>2, <2>3
  <2> QED
    BY <2>4
<1>5. \E n \in limits : \A c \in Configs : EffectiveLimit(c) <= n
  BY <1>4
<1>6. MaxLimit \in limits /\ \A c \in Configs : EffectiveLimit(c) <= MaxLimit
  BY <1>5 DEF MaxLimit
<1> QED
  BY <1>1, <1>6

\* No counter passes the highest limit, or one.
LEMMA CountBelowHighest ==
  ASSUME IInv, NEW k \in Held
  PROVE  entries[k].count \in Nat /\ Highest \in Nat /\ entries[k].count <= Highest
<1>1. entries[k].count \in Nat
  BY DEF IInv, TypeOK, Entry
<1>2. entries[k].count = 1 \/ \E c \in Configs : entries[k].count <= EffectiveLimit(c)
  BY DEF IInv, CountWithinLimit
<1>3. \A c \in Configs : EffectiveLimit(c) \in Nat
  BY ConfigTypes
<1> QED
  BY <1>1, <1>2, <1>3, MaxLimitIsGreatest DEF Highest

\* The ticks looked at are finitely many.
LEMMA AgesFinite ==
  /\ 0 \in Ages /\ Ages \subseteq Nat
  /\ \A S \in SUBSET Ages : IsFiniteSet(S)
<1>1. Horizon - 1 \in Int /\ Horizon - 1 >= 0
  BY ClientsAssumption DEF ClientsAssumption
<1>2. IsFiniteSet(Ages)
  BY <1>1, FS_Interval DEF Ages
<1>3. 0 \in Ages /\ Ages \subseteq Nat
  BY <1>1 DEF Ages
<1> QED
  BY <1>2, <1>3, FS_Subset

\* After a tick, what was admitted is a tick older.
LEMMA TotalAged ==
  ASSUME NEW f \in [Ages -> Nat], NEW S \in SUBSET Ages, NEW T \in SUBSET Ages,
         \A a \in T : a # 0 => a - 1 \in S
  PROVE  Total([a \in Ages |-> IF a = 0 THEN 0 ELSE f[a - 1]], T) <= Total(f, S)
<1> DEFINE g == [a \in Ages |-> IF a = 0 THEN 0 ELSE f[a - 1]]
           U == T \ {0}
           V == T \cap {0}
           h == [a \in U |-> a - 1]
<1>1. /\ T = U \cup V /\ U \cap V = {}
      /\ IsFiniteSet(U) /\ IsFiniteSet(V) /\ IsFiniteSet(S)
  BY AgesFinite
<1>2. \A a \in U : h[a] \in S /\ g[a] = f[h[a]]
  OBVIOUS
<1>3. \A a, b \in U : h[a] = h[b] => a = b
  BY AgesFinite
<1>4. \A a \in S : f[a] \in Nat
  OBVIOUS
<1>5. \A a \in V : g[a] = 0
  BY AgesFinite
<1>6. \A a \in U \cup V : g[a] \in Nat
  BY <1>2, <1>4, <1>5
<1> HIDE DEF g, h, U, V
<1>7. Total(g, U) <= Total(f, S)
  BY <1>1, <1>2, <1>3, <1>4, TotalInto
<1>8. Total(g, V) = 0
  BY <1>5, TotalOfZeros
<1>9. Total(g, U \cup V) = Total(g, U) + Total(g, V)
  BY <1>1, <1>6, TotalOfUnion
<1>10. Total(g, U) \in Nat
  BY <1>1, <1>6, TotalType
<1>11. Total(g, T) <= Total(f, S)
  BY <1>1, <1>7, <1>8, <1>9, <1>10
<1> QED
  BY <1>11 DEF g

\* Time: a window grows older, or is over.
LEMMA ElapseCounted ==
  ASSUME IInv, WindowsCounted, Elapse, NEW k \in Keys
  PROVE  WindowCounted(k)'
<1> DEFINE W == Tps * entries[k].window_secs
           T == ShortestWindow
<1>1. /\ Held' = Held /\ entries' = [j \in Held |-> Older(entries[j])]
      /\ recent'[k] = [a \in Ages |-> IF a = 0 THEN 0 ELSE recent[k][a - 1]]
  BY DEF Elapse, Tick, Held
<1>2. recent[k] \in [Ages -> Nat] /\ 0 \in Ages /\ Ages \subseteq Nat
  BY AgesFinite DEF WindowsCounted, WindowCounted
<1>3. recent'[k] \in [Ages -> Nat] /\ recent'[k][0] = 0
  <2>1. \A a \in Ages : a # 0 => a - 1 \in Ages
    BY ClientsAssumption DEF Ages, ClientsAssumption
  <2> QED
    BY <1>1, <1>2, <2>1
<1>4. T \in Nat \ {0} /\ Highest \in Nat
  BY ShortestIsLeast, MaxLimitIsGreatest DEF Highest
<1>5. CASE k \notin Held
  <2>1. recent[k] = Nothing
    BY <1>5 DEF WindowsCounted, WindowCounted
  <2>2. \A a \in Ages : a # 0 => a - 1 \in Ages
    BY ClientsAssumption DEF Ages, ClientsAssumption
  <2>3. recent'[k] = Nothing
    BY <1>1, <2>1, <2>2 DEF Nothing
  <2> QED
    BY <1>1, <1>3, <1>5, <2>3 DEF WindowCounted
<1>6. CASE k \in Held
  <2>1. /\ entries[k] \in Entry /\ entries'[k] = Older(entries[k])
        /\ entries[k].age \in Nat /\ entries[k].count \in Nat /\ W \in Nat
    <3>1. entries[k] \in Entry
      BY <1>6 DEF IInv, TypeOK
    <3>2. \A m, n \in Nat : m * n \in Nat
      OBVIOUS
    <3> QED
      BY <1>1, <1>6, <3>1, <3>2, RateLimitAssumption DEF Entry, RateLimitAssumption
  <2>2. /\ T <= W
        /\ entries'[k].count = entries[k].count
        /\ entries'[k].window_secs = entries[k].window_secs
        /\ entries[k].age >= W => entries'[k] = entries[k]
        /\ ~(entries[k].age >= W) => entries'[k].age = entries[k].age + 1
    BY <1>6, <2>1 DEF Older, Entry, WindowsCounted, WindowCounted
  <2>3. /\ Expired(k) <=> entries[k].age >= W
        /\ Expired(k)' <=> entries'[k].age >= W
    BY <2>2 DEF Expired
  <2>4. CASE Expired(k)
    <3>1. Total(recent[k], Lately) <= Highest /\ Total(recent[k], Lately) \in Nat
      BY <1>2, <1>6, <2>4, AgesFinite, TotalType DEF WindowsCounted, WindowCounted, Lately
    <3>2. \A a \in Lately : a # 0 => a - 1 \in Lately
      BY <1>2, <1>4, ClientsAssumption DEF Lately, Ages, ClientsAssumption
    <3>3. Total(recent'[k], Lately) <= Total(recent[k], Lately)
      BY <1>1, <1>2, <3>2, TotalAged DEF Lately
    <3>4. Total(recent'[k], Lately) \in Nat
      BY <1>3, AgesFinite, TotalType DEF Lately
    <3>5. Total(recent'[k], Lately) <= Highest
      BY <1>4, <3>1, <3>3, <3>4
    <3>6. Expired(k)' /\ T <= Tps * entries'[k].window_secs
      BY <2>2, <2>3, <2>4
    <3>7. Lately' = Lately
      BY DEF Lately, Ages, ShortestWindow
    <3> QED
      BY <1>1, <1>3, <1>6, <3>5, <3>6, <3>7 DEF WindowCounted, Highest, MaxLimit
  <2>5. CASE ~Expired(k)
    <3> DEFINE In == InWindow(k)
               Ea == Earlier(k)
    <3>1. /\ Total(recent[k], In) <= entries[k].count /\ Total(recent[k], In) \in Nat
          /\ Total(recent[k], Ea) <= Highest /\ Total(recent[k], Ea) \in Nat
      BY <1>2, <1>6, <2>5, AgesFinite, TotalType
         DEF WindowsCounted, WindowCounted, InWindow, Earlier
    <3>2. entries'[k].age = entries[k].age + 1 /\ entries[k].age < W
      BY <2>1, <2>2, <2>3, <2>5
    <3>3. T <= Tps * entries'[k].window_secs
      BY <2>2
    <3>4. CASE Expired(k)'
      <4>1. \A a \in Lately : a # 0 => a - 1 \in In
        <5>1. T <= entries[k].age + 1
          BY <1>4, <2>1, <2>2, <2>3, <3>2, <3>4
        <5> QED
          BY <1>2, <1>4, <2>1, <5>1, ClientsAssumption
             DEF Lately, InWindow, Ages, ClientsAssumption
      <4>2. Total(recent'[k], Lately) <= Total(recent[k], In)
        BY <1>1, <1>2, <4>1, TotalAged DEF Lately, InWindow
      <4>3. Total(recent'[k], Lately) \in Nat
        BY <1>3, AgesFinite, TotalType DEF Lately
      <4>4. entries[k].count <= Highest
        BY <1>6, CountBelowHighest
      <4>5. Total(recent'[k], Lately) <= Highest
        BY <1>4, <2>1, <3>1, <4>2, <4>3, <4>4
      <4>6. Lately' = Lately
        BY DEF Lately, Ages, ShortestWindow
      <4> QED
        BY <1>1, <1>3, <1>6, <3>3, <3>4, <4>5, <4>6 DEF WindowCounted, Highest, MaxLimit
    <3>5. CASE ~Expired(k)'
      <4> DEFINE In2 == Ages \cap 0..entries'[k].age
                 Ea2 == {a \in Ages : entries'[k].age < a /\ a < entries'[k].age + T}
      <4>1. \A a \in In2 : a # 0 => a - 1 \in In
        BY <1>2, <2>1, <3>2, ClientsAssumption DEF InWindow, Ages, ClientsAssumption
      <4>2. \A a \in Ea2 : a # 0 => a - 1 \in Ea
        BY <1>2, <1>4, <2>1, <3>2, ClientsAssumption DEF Earlier, Ages, ClientsAssumption
      <4>3. Total(recent'[k], In2) <= Total(recent[k], In)
        BY <1>1, <1>2, <4>1, TotalAged DEF InWindow
      <4>4. Total(recent'[k], Ea2) <= Total(recent[k], Ea)
        BY <1>1, <1>2, <4>2, TotalAged DEF Earlier
      <4>5. Total(recent'[k], In2) \in Nat /\ Total(recent'[k], Ea2) \in Nat
        BY <1>3, AgesFinite, TotalType
      <4>6. Total(recent'[k], In2) <= entries'[k].count /\ Total(recent'[k], Ea2) <= Highest
        BY <1>4, <2>1, <2>2, <3>1, <4>3, <4>4, <4>5
      <4>7. InWindow(k)' = In2 /\ Earlier(k)' = Ea2
        BY DEF InWindow, Earlier, Ages, ShortestWindow
      <4> QED
        BY <1>1, <1>3, <1>6, <3>3, <3>5, <4>6, <4>7 DEF WindowCounted, Highest, MaxLimit
    <3> QED
      BY <3>4, <3>5
  <2> QED
    BY <2>4, <2>5
<1> QED
  BY <1>5, <1>6

\* The first request of a window leaves what was admitted lately behind.
LEMMA StartCounted ==
  ASSUME IInv, NEW k, NEW c \in Configs, k \in Held', entries'[k] = Opened(c),
         recent[k] \in [Ages -> Nat], recent[k][0] = 0,
         Total(recent[k], Lately) <= Highest,
         recent'[k] = [recent[k] EXCEPT ![0] = @ + 1]
  PROVE  WindowCounted(k)'
<1> DEFINE T == ShortestWindow
           In2 == Ages \cap 0..0
           Ea2 == {a \in Ages : 0 < a /\ a < 0 + T}
<1>1. T \in Nat \ {0} /\ T <= Tps * WindowSecs(c) /\ Highest \in Nat
  BY ShortestIsLeast, MaxLimitIsGreatest DEF Highest
<1>2. 0 \in Ages /\ Ages \subseteq Nat /\ recent'[k] \in [Ages -> Nat]
  BY AgesFinite
<1>3. /\ entries'[k].count = 1 /\ entries'[k].age = 0
      /\ entries'[k].window_secs = WindowSecs(c)
  BY DEF Opened
<1>4. ~Expired(k)'
  <2>1. Tps * WindowSecs(c) \in Int
    <3>1. WindowSecs(c) \in Nat
      BY RateLimitAssumption DEF RateLimitAssumption, WindowSecs
    <3> QED
      BY <3>1, RateLimitAssumption DEF RateLimitAssumption
  <2>2. ~(0 >= Tps * WindowSecs(c))
    BY <1>1, <2>1
  <2> QED
    BY <1>3, <2>2 DEF Expired
<1>5. InWindow(k)' = In2 /\ Earlier(k)' = Ea2
  BY <1>3 DEF InWindow, Earlier, Ages, ShortestWindow
<1>6. In2 = {0} /\ IsFiniteSet(In2) /\ IsFiniteSet(Ea2) /\ 0 \notin Ea2
  BY <1>2, AgesFinite
<1>7. Total(recent'[k], In2) = 1
  <2>1. recent'[k][0] = 1
    BY <1>2
  <2> QED
    BY <1>6, <2>1, TotalOfOne
<1>8. Total(recent'[k], Ea2) <= Highest
  <2>1. Ea2 \in SUBSET Lately /\ Lately \in SUBSET Ages /\ IsFiniteSet(Lately)
    <3>1. \A a \in Ea2 : a \in Ages /\ a \in Nat /\ 0 <= a /\ a <= T - 1
      BY <1>1, <1>2
    <3>2. Ea2 \in SUBSET Lately /\ Lately \in SUBSET Ages
      BY <1>1, <3>1 DEF Lately
    <3> QED
      BY <3>2, AgesFinite
  <2>2. /\ Total(recent[k], Ea2) <= Total(recent[k], Lately)
        /\ Total(recent[k], Ea2) \in Nat /\ Total(recent[k], Lately) \in Nat
    BY <1>6, <2>1, TotalOfSubset, TotalType
  <2>3. \A a \in Ea2 : recent'[k][a] = recent[k][a]
    BY <1>2
  <2>4. Total(recent'[k], Ea2) = Total(recent[k], Ea2)
    BY <2>3, TotalAgrees
  <2> QED
    BY <1>1, <2>2, <2>4
<1>9. Highest' = Highest
  BY DEF Highest, MaxLimit
<1> QED
  BY <1>1, <1>2, <1>3, <1>4, <1>5, <1>7, <1>8, <1>9 DEF WindowCounted, ShortestWindow

\* A request that is counted in a window that is not over.
LEMMA IncrementCounted ==
  ASSUME IInv, WindowsCounted, NEW k \in Keys, NEW c \in Configs, Increment(k, c),
         recent'[k] = [recent[k] EXCEPT ![0] = @ + 1]
  PROVE  WindowCounted(k)'
<1> DEFINE In == InWindow(k)
           Ea == Earlier(k)
<1>1. /\ k \in Held /\ ~Expired(k) /\ entries[k] \in Entry
      /\ entries' = [entries EXCEPT ![k].count = @ + 1]
  BY DEF Increment, IInv, TypeOK
<1>2. /\ Held' = Held /\ entries'[k].age = entries[k].age
      /\ entries'[k].count = entries[k].count + 1
      /\ entries'[k].window_secs = entries[k].window_secs
  BY <1>1 DEF Held, Entry
<1>3. entries[k].age \in Nat /\ entries[k].count \in Nat
  BY <1>1 DEF Entry
<1>4. 0 \in Ages /\ Ages \subseteq Nat /\ recent[k] \in [Ages -> Nat]
  BY AgesFinite DEF WindowsCounted, WindowCounted
<1>5. /\ InWindow(k)' = In /\ Earlier(k)' = Ea /\ Highest' = Highest
      /\ ~Expired(k)'
  BY <1>1, <1>2 DEF InWindow, Earlier, Ages, ShortestWindow, Highest, MaxLimit, Expired
<1>6. /\ In \in SUBSET Ages /\ Ea \in SUBSET Ages
      /\ IsFiniteSet(In) /\ IsFiniteSet(Ea) /\ 0 \in In /\ 0 \notin Ea
  BY <1>3, <1>4, AgesFinite DEF InWindow, Earlier
<1>7. /\ Total(recent[k], In) <= entries[k].count /\ Total(recent[k], In) \in Nat
      /\ Total(recent[k], Ea) <= Highest
      /\ ShortestWindow <= Tps * entries[k].window_secs
  BY <1>1, <1>4, <1>6, TotalType DEF WindowsCounted, WindowCounted
<1> HIDE DEF In, Ea
<1>8. /\ Total(recent'[k], In) = Total(recent[k], In) + 1
      /\ Total(recent'[k], Ea) = Total(recent[k], Ea)
  <2> DEFINE f == recent[k]
             g == recent'[k]
  <2>1. /\ g[0] = f[0] + 1
        /\ \A a \in Ages \ {0} : g[a] = f[a]
        /\ \A a \in Ages : f[a] \in Nat
    BY <1>4
  <2> HIDE DEF f, g
  <2>2. /\ \A a \in In \cup {0} : f[a] \in Nat
        /\ \A a \in Ea \cup {0} : f[a] \in Nat
        /\ \A a \in In \ {0} : g[a] = f[a]
        /\ \A a \in Ea \ {0} : g[a] = f[a]
    BY <1>4, <1>6, <2>1
  <2>3. Total(g, In) = Total(f, In) + 1
    BY <1>6, <2>1, <2>2, TotalBumped
  <2>4. Total(g, Ea) = Total(f, Ea)
    BY <1>6, <2>1, <2>2, TotalBumped
  <2> QED
    BY <2>3, <2>4 DEF f, g
<1>9. Total(recent'[k], In) <= entries'[k].count
  BY <1>2, <1>3, <1>7, <1>8
<1>10. recent'[k] \in [Ages -> Nat]
  BY <1>4
<1> QED
  BY <1>1, <1>2, <1>5, <1>7, <1>8, <1>9, <1>10 DEF WindowCounted, ShortestWindow

\* Steps that leave a key's window, and what was admitted for it, as they are.
LEMMA SameCounted ==
  ASSUME NEW k, WindowCounted(k), recent'[k] = recent[k],
         k \in Held' <=> k \in Held, k \in Held => entries'[k] = entries[k]
  PROVE  WindowCounted(k)'
<1>1. Nothing' = Nothing /\ Lately' = Lately /\ Highest' = Highest /\ Ages' = Ages
  BY DEF Nothing, Lately, Highest, MaxLimit, Ages, ShortestWindow
<1>2. k \in Held => /\ InWindow(k)' = InWindow(k) /\ Earlier(k)' = Earlier(k)
                    /\ Expired(k)' = Expired(k)
  BY DEF InWindow, Earlier, Ages, ShortestWindow, Expired
<1> QED
  BY <1>1, <1>2 DEF WindowCounted, ShortestWindow

\* A request: its own key, the keys the map drops for it, and the others.
LEMMA RequestCounted ==
  ASSUME IInv, WindowsCounted, NEW k \in Keys, NEW c \in Configs, Request(k, c)
  PROVE  WindowsCounted'
<1>1. ASSUME NEW j \in Keys PROVE WindowCounted(j)
  BY DEF WindowsCounted
<1>2. \A j \in Keys : recent'[j] = IF j = k THEN IF Admits(k, c)
                                                 THEN [recent[k] EXCEPT ![0] = @ + 1]
                                                 ELSE recent[k]
                                   ELSE IF j \in Held \ Held' THEN Nothing
                                   ELSE recent[j]
  BY DEF Request
<1>3. /\ entries \in [Held -> Entry]
      /\ Reset(k, c) \/ Increment(k, c) \/ Deny(k, c) \/ Open(k, c)
  BY DEF Request, CheckAndIncrement, IInv, TypeOK
<1>4. WindowCounted(k)'
  <2>1. recent[k] \in [Ages -> Nat] /\ Highest \in Nat /\ Lately \in SUBSET Ages
    BY <1>1, MaxLimitIsGreatest DEF WindowCounted, Highest, Lately
  <2>2. CASE Reset(k, c)
    <3>1. k \in Held /\ Expired(k) /\ entries' = [entries EXCEPT ![k] = Opened(c)]
      BY <2>2 DEF Reset
    <3>2. k \in Held' /\ entries'[k] = Opened(c)
      BY <1>3, <3>1 DEF Held
    <3>3. recent[k][0] = 0 /\ Total(recent[k], Lately) <= Highest
      BY <1>1, <3>1 DEF WindowCounted
    <3>4. recent'[k] = [recent[k] EXCEPT ![0] = @ + 1]
      BY <1>2, <3>1 DEF Admits
    <3> QED
      BY <2>1, <3>2, <3>3, <3>4, StartCounted
  <2>3. CASE Open(k, c)
    <3>1. k \notin Held /\ k \in Held' /\ entries'[k] = Opened(c)
      BY <2>3 DEF Open, Held
    <3>2. recent[k] = Nothing
      BY <1>1, <3>1 DEF WindowCounted
    <3>3. recent[k][0] = 0 /\ \A a \in Lately : recent[k][a] = 0
      BY <2>1, <3>2, AgesFinite DEF Nothing
    <3>4. Total(recent[k], Lately) <= Highest
      BY <2>1, <3>3, TotalOfZeros
    <3>5. recent'[k] = [recent[k] EXCEPT ![0] = @ + 1]
      BY <1>2, <3>1 DEF Admits
    <3> QED
      BY <2>1, <3>1, <3>3, <3>4, <3>5, StartCounted
  <2>4. CASE Increment(k, c)
    <3>1. recent'[k] = [recent[k] EXCEPT ![0] = @ + 1]
      BY <1>2, <2>4 DEF Admits, Increment
    <3> QED
      BY <2>4, <3>1, IncrementCounted
  <2>5. CASE Deny(k, c)
    BY <1>1, <1>2, <2>5, SameCounted DEF Deny, Held
  <2> QED
    BY <1>3, <2>2, <2>3, <2>4, <2>5
<1>5. ASSUME NEW j \in Keys, j # k PROVE WindowCounted(j)'
  <2>1. j \in Held' => j \in Held /\ entries'[j] = entries[j]
    <3>1. CASE Open(k, c)
      <4>1. Newest(rank, Kept) \subseteq Held
        BY DEF Newest, IInv, TypeOK
      <4> QED
        BY <1>5, <3>1, <4>1 DEF Open, Held
    <3> QED
      BY <1>3, <1>5, <3>1 DEF Reset, Increment, Deny, Held
  <2>2. CASE j \in Held \ Held'
    <3>1. recent'[j] = Nothing /\ Nothing' = Nothing /\ Ages' = Ages
      BY <1>2, <1>5, <2>2 DEF Nothing, Ages
    <3>2. Nothing \in [Ages -> Nat]
      BY DEF Nothing
    <3> QED
      BY <2>2, <3>1, <3>2 DEF WindowCounted
  <2>3. CASE j \notin Held \ Held'
    BY <1>1, <1>2, <1>5, <2>1, <2>3, SameCounted
  <2> QED
    BY <2>2, <2>3
<1> QED
  BY <1>4, <1>5 DEF WindowsCounted

\* The clients start with nothing admitted, and every step counts.
LEMMA CountedInvariant == ClientsSpec => []WindowsCounted
<1>1. ClientsInit => WindowsCounted
  <2> SUFFICES ASSUME ClientsInit, NEW k \in Keys PROVE WindowCounted(k)
    BY DEF WindowsCounted
  <2>1. Held = {} /\ recent[k] = Nothing
    BY DEF ClientsInit, Init, Held
  <2>2. Nothing \in [Ages -> Nat]
    BY DEF Nothing
  <2> QED
    BY <2>1, <2>2 DEF WindowCounted
<1>2. IInv /\ WindowsCounted /\ [ClientsNext]_vars => WindowsCounted'
  <2> SUFFICES ASSUME IInv, WindowsCounted, [ClientsNext]_vars PROVE WindowsCounted'
    OBVIOUS
  <2>1. CASE Elapse
    BY <2>1, ElapseCounted DEF WindowsCounted
  <2>2. ASSUME NEW k \in Keys, NEW c \in Configs, Request(k, c) PROVE WindowsCounted'
    BY <2>2, RequestCounted
  <2>3. ASSUME UNCHANGED <<entries, recent>> PROVE WindowsCounted'
    BY <2>3, SameCounted DEF WindowsCounted, Held
  <2>4. ASSUME NEW k \in Keys, Peek(k) PROVE WindowsCounted'
    BY <2>3, <2>4 DEF Peek, GetCount
  <2>5. CASE UNCHANGED vars
    BY <2>3, <2>5 DEF vars
  <2> QED
    BY <2>1, <2>2, <2>4, <2>5 DEF ClientsNext
<1> QED
  BY <1>1, <1>2, Invariance, ClientsUseStore, PTL DEF ClientsSpec

\* In a stretch as long as the shortest window no more than twice the highest
\* limit is admitted for a key, whatever configurations share it and whatever
\* the map forgets.
THEOREM TwoWindowsAtMost == ClientsSpec => []AtMostTwoWindows
<1>1. ASSUME IInv, WindowsCounted, NEW k \in Keys
      PROVE  Recently(k, ShortestWindow) <= 2 * Highest
  <2>1. /\ WindowCounted(k) /\ recent[k] \in [Ages -> Nat]
        /\ Recently(k, ShortestWindow) = Total(recent[k], Lately)
        /\ ShortestWindow \in Nat \ {0} /\ Highest \in Nat
        /\ Ages \subseteq Nat
    BY <1>1, ShortestIsLeast, MaxLimitIsGreatest, AgesFinite
       DEF WindowsCounted, WindowCounted, Recently, Lately, Highest
  <2>2. Total(recent[k], Lately) \in Nat
    BY <2>1, AgesFinite, TotalType DEF Lately
  <2>3. CASE k \notin Held
    <3>1. \A a \in Lately : recent[k][a] = 0
      BY <2>1, <2>3 DEF WindowCounted, Nothing, Lately
    <3>2. Total(recent[k], Lately) = 0
      BY <3>1, TotalOfZeros
    <3> QED
      BY <2>1, <3>2
  <2>4. CASE k \in Held /\ Expired(k)
    <3>1. Total(recent[k], Lately) <= Highest
      BY <2>1, <2>4 DEF WindowCounted
    <3> QED
      BY <2>1, <2>2, <3>1
  <2>5. CASE k \in Held /\ ~Expired(k)
    <3> DEFINE In == InWindow(k)
               Ea == Earlier(k)
    <3>1. entries[k].age \in Nat
      BY <1>1, <2>5 DEF IInv, TypeOK, Entry
    <3>2. /\ IsFiniteSet(In) /\ IsFiniteSet(Ea) /\ In \cap Ea = {}
          /\ In \cup Ea \in SUBSET Ages /\ IsFiniteSet(In \cup Ea)
      BY <2>1, <3>1, AgesFinite DEF InWindow, Earlier
    <3>3. Lately \in SUBSET (In \cup Ea)
      BY <2>1, <3>1 DEF InWindow, Earlier, Lately
    <3>4. /\ Total(recent[k], In) <= entries[k].count
          /\ Total(recent[k], Ea) <= Highest
      BY <2>1, <2>5 DEF WindowCounted
    <3>5. entries[k].count \in Nat /\ entries[k].count <= Highest
      BY <1>1, <2>5, CountBelowHighest
    <3> HIDE DEF In, Ea
    <3>6. \A a \in In \cup Ea : recent[k][a] \in Nat
      BY <2>1, <3>2
    <3>7. Total(recent[k], In \cup Ea) = Total(recent[k], In) + Total(recent[k], Ea)
      BY <3>2, <3>6, TotalOfUnion
    <3>8. Total(recent[k], In) \in Nat /\ Total(recent[k], Ea) \in Nat
      BY <3>2, <3>6, TotalType
    <3>9. Total(recent[k], Lately) <= Total(recent[k], In \cup Ea)
      BY <3>2, <3>3, <3>6, TotalOfSubset
    <3> QED
      BY <2>1, <2>2, <3>4, <3>5, <3>7, <3>8, <3>9
  <2> QED
    BY <2>3, <2>4, <2>5
<1>2. IInv /\ WindowsCounted => AtMostTwoWindows
  BY <1>1 DEF AtMostTwoWindows, Highest
<1> QED
  BY <1>2, CountedInvariant, Invariance, ClientsUseStore, PTL
===========================================================================
