---------------------------- MODULE StoreLemmas ----------------------------
(***************************************************************************)
(* What the two stores rest on.  Every operation of an LRU map leaves its  *)
(* keys in a total order without gaps: the places are exactly 1..n for n   *)
(* keys.  Totals over their keys and ticks add up.                         *)
(***************************************************************************)
EXTENDS LruOrder, Totals, FiniteSetTheorems, TLAPS

\* Every place of an order is taken: the oldest of n keys is at place n.
LEMMA PlacesTaken ==
  ASSUME NEW order, IsOrder(order),
         NEW n \in 1..Cardinality(DOMAIN order)
  PROVE  \E k \in DOMAIN order : order[k] = n
<1> DEFINE D == DOMAIN order
           C == Cardinality(D)
           f == [k \in D |-> order[k]]
<1>1. C \in Nat
  BY FS_CardinalityType DEF IsOrder
<1>2. IsFiniteSet(1..C) /\ Cardinality(1..C) = C
  BY <1>1, FS_Interval
<1>3. f \in Injection(D, 1..C)
  BY DEF IsOrder, Injection, IsInjective
<1>4. f \in Surjection(D, 1..C)
  BY <1>2, <1>3, FS_Injection
<1> QED
  BY <1>4 DEF Surjection

\* Using or inserting a key keeps the order total.
LEMMA PromotedIsOrder ==
  ASSUME NEW order, IsOrder(order), NEW k
  PROVE  IsOrder(Promoted(order, k))
<1> DEFINE D == DOMAIN order
           C == Cardinality(D)
           new == Promoted(order, k)
<1>1. C \in Nat
  BY FS_CardinalityType DEF IsOrder
<1>2. DOMAIN new = D \cup {k}
  BY DEF Promoted
<1>3. /\ IsFiniteSet(DOMAIN new)
      /\ Cardinality(DOMAIN new) = IF k \in D THEN C ELSE C + 1
  BY <1>2, FS_AddElement DEF IsOrder
<1>4. \A j \in D : order[j] \in 1..C
  BY DEF IsOrder
<1>5. \A j \in DOMAIN new : new[j] \in 1..Cardinality(DOMAIN new)
  <2> SUFFICES ASSUME NEW j \in DOMAIN new
               PROVE  new[j] \in 1..Cardinality(DOMAIN new)
    OBVIOUS
  <2>1. CASE j = k
    <3>1. new[j] = 1
      BY <2>1 DEF Promoted
    <3>2. k \in D => C >= 1
      BY <1>1, <1>4
    <3> QED  BY <1>1, <1>3, <3>1, <3>2
  <2>2. CASE j # k /\ k \in D
    <3>1. new[j] = IF order[j] > order[k] THEN order[j] ELSE order[j] + 1
      BY <1>2, <2>2 DEF Promoted
    <3>2. order[j] # order[k] /\ order[j] \in 1..C /\ order[k] \in 1..C
      BY <1>2, <1>4, <2>2 DEF IsOrder
    <3> QED  BY <1>1, <1>3, <2>2, <3>1, <3>2
  <2>3. CASE j # k /\ k \notin D
    <3>1. new[j] = order[j] + 1 /\ order[j] \in 1..C
      BY <1>2, <1>4, <2>3 DEF Promoted
    <3> QED  BY <1>1, <1>3, <2>3, <3>1
  <2> QED  BY <2>1, <2>2, <2>3
<1>6. \A i, j \in DOMAIN new : new[i] = new[j] => i = j
  <2> SUFFICES ASSUME NEW i \in DOMAIN new, NEW j \in DOMAIN new, i # j
               PROVE  new[i] # new[j]
    OBVIOUS
  <2>1. \A m \in D : m # k => new[m] > 1
    BY <1>1, <1>4 DEF Promoted, IsOrder
  <2>2. CASE i = k \/ j = k
    BY <1>2, <2>1, <2>2 DEF Promoted
  <2>3. CASE i # k /\ j # k
    <3>1. i \in D /\ j \in D /\ order[i] # order[j]
      BY <1>2, <2>3 DEF IsOrder
    <3>2. order[i] \in 1..C /\ order[j] \in 1..C
      BY <1>4, <3>1
    <3>3. k \in D => order[k] \in 1..C /\ order[i] # order[k] /\ order[j] # order[k]
      BY <1>4, <2>3, <3>1 DEF IsOrder
    <3> QED  BY <1>1, <2>3, <3>1, <3>2, <3>3 DEF Promoted
  <2> QED  BY <2>2, <2>3
<1> QED
  BY <1>3, <1>5, <1>6 DEF IsOrder

\* Removing a key keeps the order total.
LEMMA RemovedIsOrder ==
  ASSUME NEW order, IsOrder(order), NEW k \in DOMAIN order
  PROVE  IsOrder(Removed(order, k))
<1> DEFINE D == DOMAIN order
           C == Cardinality(D)
           new == Removed(order, k)
<1>1. C \in Nat
  BY FS_CardinalityType DEF IsOrder
<1>2. DOMAIN new = D \ {k}
  BY DEF Removed
<1>3. IsFiniteSet(DOMAIN new) /\ Cardinality(DOMAIN new) = C - 1
  BY <1>2, FS_RemoveElement DEF IsOrder
<1>4. \A j \in DOMAIN new :
        /\ order[j] \in 1..C /\ order[k] \in 1..C /\ order[j] # order[k]
        /\ new[j] = IF order[j] > order[k] THEN order[j] - 1 ELSE order[j]
  BY <1>2 DEF IsOrder, Removed
<1>5. \A j \in DOMAIN new : new[j] \in 1..Cardinality(DOMAIN new)
  BY <1>1, <1>3, <1>4
<1>6. \A i, j \in DOMAIN new : new[i] = new[j] => i = j
  <2> SUFFICES ASSUME NEW i \in DOMAIN new, NEW j \in DOMAIN new, i # j
               PROVE  new[i] # new[j]
    OBVIOUS
  <2>1. order[i] # order[j]
    BY <1>2 DEF IsOrder
  <2> QED  BY <1>1, <1>4, <2>1
<1> QED
  BY <1>3, <1>5, <1>6 DEF IsOrder

\* The n newest keys are n in number and keep their places.
LEMMA TruncatedIsOrder ==
  ASSUME NEW order, IsOrder(order),
         NEW n \in 0..Cardinality(DOMAIN order)
  PROVE  /\ IsOrder(Truncated(order, n))
         /\ IsFiniteSet(Newest(order, n))
         /\ Cardinality(Newest(order, n)) = n
<1> DEFINE D == DOMAIN order
           N == Newest(order, n)
           f == [k \in N |-> order[k]]
<1>1. Cardinality(D) \in Nat /\ n \in Nat
  BY FS_CardinalityType DEF IsOrder
<1>2. N \subseteq D /\ DOMAIN Truncated(order, n) = N
  BY DEF Newest, Truncated
<1>3. f \in Injection(N, 1..n)
  BY <1>1, <1>2 DEF Newest, IsOrder, Injection, IsInjective
<1>4. \A m \in 1..n : \E k \in N : f[k] = m
  BY <1>1, PlacesTaken DEF Newest
<1>5. f \in Surjection(N, 1..n)
  BY <1>3, <1>4 DEF Surjection, Injection
<1>6. IsFiniteSet(1..n) /\ Cardinality(1..n) = n
  BY <1>1, FS_Interval
<1>7. IsFiniteSet(N) /\ Cardinality(N) = n
  BY <1>3, <1>5, <1>6, FS_Injection
<1>8. \A k \in N : Truncated(order, n)[k] = order[k] /\ order[k] \in 1..n
  BY <1>1, <1>2 DEF Truncated, Newest, IsOrder
<1> QED
  BY <1>2, <1>7, <1>8 DEF IsOrder

\* The empty order is one.
LEMMA EmptyIsOrder == IsOrder(EmptyOrder) /\ DOMAIN EmptyOrder = {}
BY FS_EmptySet DEF EmptyOrder, IsOrder

---------------------------------------------------------------------------
(***************************************************************************)
(* Totals.                                                                 *)
(***************************************************************************)

\* The units are the pairs that their definition says.
LEMMA UnitsAre ==
  ASSUME NEW f, NEW S, NEW u
  PROVE  u \in Units(f, S) <=> \E x \in S : \E i \in 1..f[x] : u = <<x, i>>
BY DEF Units

\* A sum of naturals is one.
LEMMA TotalType ==
  ASSUME NEW f, NEW S, IsFiniteSet(S), \A x \in S : f[x] \in Nat
  PROVE  IsFiniteSet(Units(f, S)) /\ Total(f, S) \in Nat
<1> DEFINE each == {{x} \X (1..f[x]) : x \in S}
           h == [x \in S |-> {x} \X (1..f[x])]
<1>1. h \in Surjection(S, each)
  BY DEF Surjection
<1>2. IsFiniteSet(each)
  BY <1>1, FS_Surjection
<1>3. ASSUME NEW x \in S PROVE IsFiniteSet({x} \X (1..f[x]))
  <2>1. f[x] \in Int /\ 1 \in Int
    OBVIOUS
  <2>2. IsFiniteSet({x}) /\ IsFiniteSet(1..f[x])
    BY <2>1, FS_Singleton, FS_Interval
  <2> QED
    BY <2>2, FS_Product
<1>4. IsFiniteSet(UNION each)
  BY <1>2, <1>3, FS_UNION
<1> QED
  BY <1>4, FS_CardinalityType DEF Units, Total

\* The sum over no member.
LEMMA TotalOfNone == ASSUME NEW f PROVE Total(f, {}) = 0
<1>1. Units(f, {}) = {}
  BY DEF Units
<1> QED
  BY <1>1, FS_EmptySet DEF Total

\* The sum over one member.
LEMMA TotalOfOne ==
  ASSUME NEW f, NEW x, f[x] \in Nat
  PROVE  Total(f, {x}) = f[x]
<1> DEFINE I == 1..f[x]
           U == Units(f, {x})
           h == [i \in I |-> <<x, i>>]
<1>1. \A u : u \in U <=> \E i \in I : u = <<x, i>>
  BY UnitsAre
<1>2. h \in Bijection(I, U)
  BY <1>1 DEF Bijection, Injection, Surjection, IsInjective
<1>3. IsFiniteSet(I) /\ Cardinality(I) = f[x]
  BY FS_Interval
<1> HIDE DEF I, U, h
<1>4. Cardinality(U) = Cardinality(I)
  BY <1>2, <1>3, FS_Bijection DEF ExistsBijection
<1> QED
  BY <1>3, <1>4 DEF Total, U

\* Two parts add up.
LEMMA TotalOfUnion ==
  ASSUME NEW f, NEW S, NEW T, IsFiniteSet(S), IsFiniteSet(T), S \cap T = {},
         \A x \in S \cup T : f[x] \in Nat
  PROVE  Total(f, S \cup T) = Total(f, S) + Total(f, T)
<1> DEFINE A == Units(f, S)
           B == Units(f, T)
<1>1. Units(f, S \cup T) = A \cup B
  BY DEF Units
<1>2. A \cap B = {}
  BY DEF Units
<1>3. /\ IsFiniteSet(A) /\ Total(f, S) \in Nat
      /\ IsFiniteSet(B) /\ Total(f, T) \in Nat
  BY TotalType
<1>4. /\ Total(f, S) = Cardinality(A) /\ Total(f, T) = Cardinality(B)
      /\ Total(f, S \cup T) = Cardinality(A \cup B)
  BY <1>1 DEF Total
<1> HIDE DEF A, B
<1>5. Cardinality(A \cup B) = Cardinality(A) + Cardinality(B) - Cardinality({})
  BY <1>2, <1>3, FS_Union
<1>6. Cardinality({}) = 0
  BY FS_EmptySet
<1> QED
  BY <1>3, <1>4, <1>5, <1>6

\* The sum looks at the members only.
LEMMA TotalAgrees ==
  ASSUME NEW f, NEW g, NEW S, \A x \in S : f[x] = g[x]
  PROVE  Total(f, S) = Total(g, S)
<1>1. \A u : u \in Units(f, S) <=> u \in Units(g, S)
  BY UnitsAre
<1>2. Units(f, S) = Units(g, S)
  BY <1>1
<1> QED
  BY <1>2 DEF Total

\* Where each member has one of its own that counts for as much, the sum is
\* no greater.
LEMMA TotalInto ==
  ASSUME NEW f, NEW S, NEW g, NEW T, NEW h,
         IsFiniteSet(T), \A x \in T : g[x] \in Nat,
         \A x \in S : h[x] \in T /\ f[x] = g[h[x]],
         \A x, y \in S : h[x] = h[y] => x = y
  PROVE  Total(f, S) <= Total(g, T)
<1> DEFINE into == [u \in Units(f, S) |-> <<h[u[1]], u[2]>>]
<1>1. \A u \in Units(f, S) :
        \E x \in S : \E i \in 1..f[x] : u = <<x, i>> /\ into[u] = <<h[x], i>>
  BY UnitsAre
<1>2. \A u \in Units(f, S) : into[u] \in Units(g, T)
  BY <1>1, UnitsAre
<1>3. into \in Injection(Units(f, S), Units(g, T))
  <2>1. into \in [Units(f, S) -> Units(g, T)]
    BY <1>2
  <2>2. \A u, v \in Units(f, S) : into[u] = into[v] => u = v
    BY <1>1
  <2> HIDE DEF into
  <2> QED
    BY <2>1, <2>2 DEF Injection, IsInjective
<1> QED
  BY <1>3, TotalType, FS_Injection DEF Total

\* A part is no greater than the whole.
LEMMA TotalOfSubset ==
  ASSUME NEW f, NEW T, IsFiniteSet(T), \A x \in T : f[x] \in Nat, NEW S \in SUBSET T
  PROVE  Total(f, S) <= Total(f, T)
<1> DEFINE h == [x \in S |-> x]
<1>1. \A x \in S : h[x] \in T /\ f[x] = f[h[x]]
  OBVIOUS
<1>2. \A x, y \in S : h[x] = h[y] => x = y
  OBVIOUS
<1> HIDE DEF h
<1> QED
  BY <1>1, <1>2, TotalInto

\* A sum of zeros is zero.
LEMMA TotalOfZeros ==
  ASSUME NEW f, NEW S, \A x \in S : f[x] = 0
  PROVE  Total(f, S) = 0
<1>1. \A u : u \notin Units(f, S)
  BY UnitsAre
<1>2. Units(f, S) = {}
  BY <1>1
<1> QED
  BY <1>2, FS_EmptySet DEF Total

\* One more for a member is one more in all, if it is counted.
LEMMA TotalBumped ==
  ASSUME NEW f, NEW g, NEW x, NEW S, IsFiniteSet(S), \A y \in S \cup {x} : f[y] \in Nat,
         g[x] = f[x] + 1, \A y \in S \ {x} : g[y] = f[y]
  PROVE  /\ x \in S => Total(g, S) = Total(f, S) + 1
         /\ x \notin S => Total(g, S) = Total(f, S)
<1>1. /\ f[x] \in Nat /\ g[x] \in Nat
      /\ \A y \in S : f[y] \in Nat /\ (y # x => g[y] = f[y])
  OBVIOUS
<1>2. CASE x \notin S
  <2>1. \A y \in S : g[y] = f[y]
    BY <1>1, <1>2
  <2> QED
    BY <1>2, <2>1, TotalAgrees
<1>3. CASE x \in S
  <2> DEFINE R == S \ {x}
  <2>1. S = R \cup {x} /\ R \cap {x} = {} /\ IsFiniteSet(R) /\ IsFiniteSet({x})
    <3>1. S = R \cup {x} /\ R \cap {x} = {}
      BY <1>3
    <3> QED
      BY <3>1, FS_RemoveElement, FS_Singleton
  <2>2. \A y \in R \cup {x} : f[y] \in Nat /\ g[y] \in Nat
    BY <1>1, <1>3
  <2>3. \A y \in R : g[y] = f[y]
    BY <1>1
  <2> HIDE DEF R
  <2>4. Total(g, R) = Total(f, R) /\ Total(f, R) \in Nat
    BY <2>1, <2>2, <2>3, TotalAgrees, TotalType
  <2>5. Total(g, {x}) = f[x] + 1 /\ Total(f, {x}) = f[x] /\ f[x] \in Nat
    BY <1>1, TotalOfOne
  <2>6. /\ Total(g, R \cup {x}) = Total(g, R) + Total(g, {x})
        /\ Total(f, R \cup {x}) = Total(f, R) + Total(f, {x})
    BY <2>1, <2>2, TotalOfUnion
  <2>7. Total(g, S) = Total(f, S) + 1
    BY <2>1, <2>4, <2>5, <2>6
  <2> QED
    BY <1>3, <2>7
<1> QED
  BY <1>2, <1>3

\* A set of naturals that is not empty has a least member.
LEMMA LeastNatural ==
  ASSUME NEW S, S \subseteq Nat, S # {}
  PROVE  \E m \in S : \A n \in S : m <= n
<1> DEFINE T == {1..n : n \in S}
           R == StrictSubsetOrdering(Nat)
<1>1. T \subseteq FiniteSubsetsOf(Nat)
  BY FS_Interval DEF FiniteSubsetsOf
<1>2. IsWellFoundedOn(R, FiniteSubsetsOf(Nat))
  BY FS_StrictSubsetOrderingWellFounded
<1>3. T # {}
  OBVIOUS
<1>4. \E x \in T : \A y \in T : <<y, x>> \notin R
  <2> HIDE DEF T, R
  <2> QED
    BY <1>1, <1>2, <1>3, WFMin
<1>5. PICK m \in S : \A n \in S : <<1..n, 1..m>> \notin R
  BY <1>4
<1>6. ASSUME NEW n \in S, n < m PROVE <<1..n, 1..m>> \in R
  <2>1. m \in Nat /\ n \in Nat
    OBVIOUS
  <2>2. 1..n \subseteq 1..m /\ m \in 1..m /\ m \notin 1..n
    BY <1>6, <2>1
  <2>3. 1..n \in SUBSET Nat /\ 1..m \in SUBSET Nat /\ 1..n # 1..m
    BY <2>1, <2>2
  <2> QED
    BY <2>2, <2>3 DEF StrictSubsetOrdering
<1>7. \A n \in S : ~(n < m)
  BY <1>5, <1>6
<1>8. \A n \in S : m \in Nat /\ n \in Nat
  OBVIOUS
<1> QED
  BY <1>7, <1>8
===========================================================================
