---------------------------- MODULE ServerProofs ----------------------------
(***************************************************************************)
(* Proofs about the two long-running modes: the server that reloads what   *)
(* has been edited (DevServer), and the debugging session (DebugSession).  *)
(***************************************************************************)
EXTENDS DevServer, DebugSession, SequenceTheorems, TLAPS

---------------------------------------------------------------------------
(***************************************************************************)
(* The module loader.                                                      *)
(***************************************************************************)
\* What is left of a file that was parsed: its imports are paths.
Parsed(c) == IsProgram(c) /\ c.imports \in Seq(Files)

\* Programs by path, with all that they import among them.
Programs(progs) ==
  /\ progs = [f \in DOMAIN progs |-> progs[f]]
  /\ DOMAIN progs \subseteq Files
  /\ \A f \in DOMAIN progs :
       Parsed(progs[f]) /\ ToSet(progs[f].imports) \subseteq DOMAIN progs

\* Of some files there is always one that imports none of them.
Acyclic(progs) ==
  \A S \in SUBSET DOMAIN progs :
    S # {} => \E g \in S : ToSet(progs[g].imports) \cap S = {}

\* All of these are reached from the root.
AllReached(S, progs) ==
  \A T \in SUBSET Files : Root \in T /\ Closed(T, progs) => S \subseteq T

\* s is a stack of frames.
IsFrame(c) ==
  /\ c = [fn |-> c.fn, file |-> c.file, prog |-> c.prog, next |-> c.next]
  /\ c.next \in Nat
IsStack(s) == s \in Seq(ToSet(s)) /\ \A i \in 1..Len(s) : IsFrame(s[i])

\* The imports that frame i of s has passed are all in S, but for the last one
\* while the frame above is at it.
Visited(s, i, imports, S) ==
  /\ s[i].next \in 1..(Len(imports) + 1)
  /\ \A j \in 1..(s[i].next - 1) :
       imports[j] \in S \/ (i < Len(s) /\ j = s[i].next - 1)
  /\ i < Len(s) => s[i].next > 1 /\ imports[s[i].next - 1] = s[i + 1].file

\* While the root is being loaded: load_module's frames, above the one of
\* load_recursive, are the loading stack, and no file is on it twice.
Descending(s, stack, progs) ==
  /\ s # <<>> /\ s[1] = Frame("tree", Root, Missing)
  /\ stack \in Seq(Files) /\ Len(stack) = Len(s) - 1
  /\ Len(s) > 1 => s[2].file = Root
  /\ \A i \in 2..Len(s) :
       /\ s[i].fn = "module" /\ s[i].file = stack[i - 1]
       /\ s[i].file \in Files \ DOMAIN progs /\ Parsed(s[i].prog)
       /\ Visited(s, i, s[i].prog.imports, DOMAIN progs)
  /\ \A i, j \in 2..Len(s) : s[i].file = s[j].file => i = j

\* Then load_recursive walks what is in the cache.
Registering(s, reg, progs) ==
  /\ reg \subseteq DOMAIN progs
  /\ \A g \in reg : ToSet(progs[g].imports) \subseteq reg
  /\ AllReached(reg, progs)
  /\ IF s = <<>> THEN Root \in reg ELSE s[1].file = Root
  /\ \A i \in 1..Len(s) :
       /\ s[i].fn = "tree" /\ s[i].file \in DOMAIN progs
       /\ AllReached({s[i].file}, progs)
       /\ Visited(s, i, progs[s[i].file].imports, reg)

\* What the loader holds while it walks a tree.
LoaderSound ==
  /\ Programs(cache) /\ Acyclic(cache) /\ IsStack(calls)
  /\ outcome = "ok" <=> calls = <<>>
  /\ outcome \in {"busy", "ok", "circular"} =>
       IF Root \in DOMAIN cache
         THEN loading = <<>> /\ Registering(calls, registry, cache)
         ELSE registry = {} /\ Descending(calls, loading, cache)
  /\ outcome = "circular" =>
       /\ Root \notin DOMAIN cache /\ Len(calls) > 1
       /\ Top.next <= Len(Top.prog.imports)
       /\ Top.prog.imports[Top.next] \in ToSet(loading)

---------------------------------------------------------------------------
\* A sequence is one over its own members.
LEMMA OwnMembers ==
  ASSUME NEW S, NEW s \in Seq(S)
  PROVE  /\ s \in Seq(ToSet(s)) /\ Len(s) \in Nat /\ DOMAIN s = 1..Len(s)
         /\ ToSet(s) = {s[i] : i \in 1..Len(s)}
<1>1. Len(s) \in Nat /\ DOMAIN s = 1..Len(s) /\ s \in [1..Len(s) -> S]
  BY LenProperties
<1>2. ToSet(s) = {s[i] : i \in 1..Len(s)}
  BY <1>1 DEF ToSet
<1>3. s \in [1..Len(s) -> ToSet(s)]
  BY <1>1, <1>2
<1>4. s \in Seq(ToSet(s))
  BY <1>1, <1>3, SeqDef
<1> QED  BY <1>1, <1>2, <1>4

\* The frames of a stack by their places.
LEMMA StackFacts ==
  ASSUME NEW s, IsStack(s)
  PROVE  /\ Len(s) \in Nat /\ DOMAIN s = 1..Len(s)
         /\ ToSet(s) = {s[i] : i \in 1..Len(s)}
         /\ s = <<>> <=> Len(s) = 0
         /\ s # <<>> => Last(s) = s[Len(s)]
BY OwnMembers DEF IsStack, Last

\* Pushing a frame, popping one, and moving the top one to its next import.
LEMMA PushedStack ==
  ASSUME NEW s, IsStack(s), NEW c, IsFrame(c)
  PROVE  /\ IsStack(Append(s, c)) /\ Len(Append(s, c)) = Len(s) + 1
         /\ \A i \in 1..Len(s) : Append(s, c)[i] = s[i]
         /\ Append(s, c)[Len(s) + 1] = c
<1> DEFINE u == Append(s, c)
           S == ToSet(s) \cup {c}
<1>1. s \in Seq(S)
  BY SeqMonotonic, S \in {S}, ToSet(s) \subseteq S DEF IsStack
<1>2. u \in Seq(S) /\ Len(u) = Len(s) + 1
      /\ \A i \in 1..Len(s) : u[i] = s[i]
  BY <1>1
<1>3. u[Len(s) + 1] = c /\ Len(s) \in Nat
  BY <1>1
<1>4. \A i \in 1..Len(u) : IsFrame(u[i])
  BY <1>2, <1>3 DEF IsStack
<1>5. u \in Seq(ToSet(u))
  BY <1>2, OwnMembers
<1> QED  BY <1>2, <1>3, <1>4, <1>5 DEF IsStack

\* The top frame popped.
LEMMA PoppedStack ==
  ASSUME NEW s, IsStack(s), s # <<>>
  PROVE  /\ IsStack(Front(s)) /\ Len(Front(s)) = Len(s) - 1
         /\ \A i \in 1..(Len(s) - 1) : Front(s)[i] = s[i]
<1> DEFINE u == Front(s)
<1>1. Len(s) \in Nat \ {0}
  BY StackFacts
<1>2. s \in Seq(ToSet(s))
  BY DEF IsStack
<1>3. u = [i \in 1..(Len(s) - 1) |-> s[i]]
  BY <1>1, <1>2 DEF Front
<1>4. \A i \in 1..(Len(s) - 1) : s[i] \in ToSet(s)
  BY <1>1, StackFacts
<1>5. u \in [1..(Len(s) - 1) -> ToSet(s)]
  BY <1>3, <1>4
<1>6. u \in Seq(ToSet(s)) /\ Len(u) = Len(s) - 1
  BY <1>1, <1>5, SeqDef
<1>7. u \in Seq(ToSet(u))
  BY <1>6, OwnMembers
<1> QED  BY <1>1, <1>3, <1>6, <1>7 DEF IsStack

AdvancedOf(s) == [s EXCEPT ![Len(s)].next = @ + 1]

\* The top frame moved to its next import.
LEMMA AdvancedStack ==
  ASSUME NEW s, IsStack(s), s # <<>>
  PROVE  /\ IsStack(AdvancedOf(s)) /\ Len(AdvancedOf(s)) = Len(s)
         /\ \A i \in 1..(Len(s) - 1) : AdvancedOf(s)[i] = s[i]
         /\ AdvancedOf(s)[Len(s)] =
              [fn |-> s[Len(s)].fn, file |-> s[Len(s)].file, prog |-> s[Len(s)].prog,
               next |-> s[Len(s)].next + 1]
<1> DEFINE n == Len(s)
           u == AdvancedOf(s)
           c == s[n]
           d == [fn |-> c.fn, file |-> c.file, prog |-> c.prog, next |-> c.next + 1]
<1>1. n \in Nat \ {0} /\ DOMAIN s = 1..n
  BY StackFacts
<1>2. c = [fn |-> c.fn, file |-> c.file, prog |-> c.prog, next |-> c.next] /\ c.next \in Nat
  BY <1>1 DEF IsStack, IsFrame
<1>3. [c EXCEPT !.next = @ + 1] = d
  BY <1>2
<1>4. u = [s EXCEPT ![n] = d]
  BY <1>1, <1>3 DEF AdvancedOf
<1>5. IsFrame(d)
  BY <1>2 DEF IsFrame
<1>6. s \in Seq(ToSet(s) \cup {d})
  BY SeqMonotonic, ToSet(s) \subseteq ToSet(s) \cup {d} DEF IsStack
<1>7. u \in Seq(ToSet(s) \cup {d}) /\ Len(u) = n
      /\ \A j \in 1..n : u[j] = IF j = n THEN d ELSE s[j]
  BY <1>1, <1>4, <1>6, ExceptSeq
<1>8. u \in Seq(ToSet(u))
  BY <1>7, OwnMembers
<1>9. \A i \in 1..n : IsFrame(s[i])
  BY DEF IsStack
<1>10. \A i \in 1..n : IsFrame(u[i])
  <2> HIDE DEF u, d
  <2> QED  BY <1>5, <1>7, <1>9
<1>11. IsStack(u)
  <2> HIDE DEF u, d
  <2> QED  BY <1>7, <1>8, <1>10 DEF IsStack
<1>12. n \in 1..n /\ \A i \in 1..(n - 1) : i \in 1..n /\ i # n
  <2>1. n \in Nat \ {0}
    BY <1>1
  <2> HIDE DEF n
  <2>2. n \in 1..n
    BY <2>1
  <2>3. ASSUME NEW i \in 1..(n - 1) PROVE i \in 1..n /\ i # n
    BY <2>1
  <2> QED  BY <2>2, <2>3
<1> QED
  <2> HIDE DEF u, d
  <2>1. u[n] = d /\ \A i \in 1..(n - 1) : u[i] = s[i]
    BY <1>7, <1>12
  <2> USE DEF u, d
  <2> QED  BY <1>7, <1>11, <2>1
---------------------------------------------------------------------------
\* load_module opens a file that is neither loaded nor being loaded.
LEMMA DescentOpens ==
  ASSUME NEW s, IsStack(s), NEW stack, NEW progs, Descending(s, stack, progs),
         NEW f \in Files, f \notin DOMAIN progs, f \notin ToSet(stack),
         NEW p, Parsed(p), NEW t,
         \/ Len(s) = 1 /\ f = Root /\ t = s
         \/ /\ Len(s) > 1 /\ s[Len(s)].next <= Len(s[Len(s)].prog.imports)
            /\ f = s[Len(s)].prog.imports[s[Len(s)].next] /\ t = AdvancedOf(s)
  PROVE  /\ IsStack(Append(t, Frame("module", f, p)))
         /\ Descending(Append(t, Frame("module", f, p)), Append(stack, f), progs)
<1> DEFINE n == Len(s)
           c == Frame("module", f, p)
           u == Append(t, c)
           l == Append(stack, f)
<1>1. n \in Nat \ {0} /\ s[1] = Frame("tree", Root, Missing)
  BY StackFacts DEF Descending
<1>f. (n = 1 /\ t = s) \/ (n > 1 /\ t = AdvancedOf(s))
  OBVIOUS
<1>g. s # <<>>
  BY <1>1, StackFacts
<1>h. /\ IsStack(AdvancedOf(s)) /\ Len(AdvancedOf(s)) = n
      /\ \A i \in 1..(n - 1) : AdvancedOf(s)[i] = s[i]
      /\ AdvancedOf(s)[n] = [fn |-> s[n].fn, file |-> s[n].file, prog |-> s[n].prog,
                             next |-> s[n].next + 1]
  BY <1>g, AdvancedStack
<1>2. IsStack(t) /\ Len(t) = n /\ t[1] = s[1]
  <2> HIDE DEF n
  <2>1. n > 1 => 1 \in 1..(n - 1)
    BY <1>1
  <2>2. n = Len(s)
    BY DEF n
  <2> QED  BY <1>f, <1>h, <2>1, <2>2
<1>3. \A i \in 2..n : /\ t[i].fn = s[i].fn /\ t[i].file = s[i].file /\ t[i].prog = s[i].prog
                      /\ t[i].next = IF i = n THEN s[n].next + 1 ELSE s[i].next
  <2> HIDE DEF n
  <2> SUFFICES ASSUME NEW i \in 2..n
               PROVE  /\ t[i].fn = s[i].fn /\ t[i].file = s[i].file /\ t[i].prog = s[i].prog
                      /\ t[i].next = IF i = n THEN s[n].next + 1 ELSE s[i].next
    OBVIOUS
  <2>1. n > 1 /\ t = AdvancedOf(s)
    BY <1>1, <1>f
  <2>2. CASE i = n
    BY <1>h, <2>1, <2>2
  <2>3. CASE i # n
    <3>1. i \in 1..(n - 1)
      BY <1>1, <2>3
    <3> QED  BY <1>h, <2>1, <2>3, <3>1
  <2> QED  BY <2>2, <2>3
<1>4. IsFrame(c) /\ c.fn = "module" /\ c.file = f /\ c.prog = p /\ c.next = 1
  BY DEF IsFrame, Frame
<1>5. IsStack(u) /\ Len(u) = n + 1 /\ u[n + 1] = c
  BY <1>2, <1>4, PushedStack
<1>6. \A i \in 1..n : u[i] = t[i]
  BY <1>2, <1>4, PushedStack
<1>7. stack \in Seq(Files) /\ Len(stack) = n - 1
  BY DEF Descending
<1>8. l \in Seq(Files) /\ Len(l) = n /\ l[n] = f
  BY <1>1, <1>7
<1>9. \A i \in 1..(n - 1) : l[i] = stack[i] /\ stack[i] # f
  BY <1>1, <1>7, OwnMembers
<1>a. \A i \in 2..n : s[i].fn = "module" /\ s[i].file = stack[i - 1]
  BY DEF Descending
<1>b. \A i \in 2..n : s[i].file \in Files \ DOMAIN progs /\ Parsed(s[i].prog)
  BY DEF Descending
<1>c. \A i \in 2..n : Visited(s, i, s[i].prog.imports, DOMAIN progs)
  BY DEF Descending
<1>d. \A i, j \in 2..n : s[i].file = s[j].file => i = j
  BY DEF Descending
<1>e. n > 1 => s[2].file = Root
  BY DEF Descending
<1> HIDE DEF n, c, u, l
<1>10. \A i \in 2..n : /\ u[i].fn = s[i].fn /\ u[i].file = s[i].file /\ u[i].prog = s[i].prog
                       /\ u[i].next = IF i = n THEN s[n].next + 1 ELSE s[i].next
  BY <1>1, <1>3, <1>6
<1>11. u[1] = s[1] /\ u # <<>>
  BY <1>1, <1>2, <1>5, <1>6, StackFacts
<1>12. u[2].file = Root
  <2>1. CASE n = 1
    BY <1>4, <1>5, <2>1 DEF n
  <2>2. CASE n # 1
    BY <1>1, <1>10, <1>e, <2>2
  <2> QED  BY <2>1, <2>2
<1>13. ASSUME NEW i \in 2..(n + 1)
       PROVE  /\ u[i].fn = "module" /\ u[i].file = l[i - 1]
              /\ u[i].file \in Files \ DOMAIN progs /\ Parsed(u[i].prog)
              /\ Visited(u, i, u[i].prog.imports, DOMAIN progs)
  <2>1. CASE i = n + 1
    <3>1. u[i] = c /\ l[i - 1] = f
      BY <1>1, <1>5, <1>8, <2>1
    <3>2. Len(p.imports) \in Nat
      BY DEF Parsed
    <3>3. Visited(u, i, p.imports, DOMAIN progs)
      BY <1>1, <1>4, <1>5, <2>1, <3>1, <3>2 DEF Visited
    <3> QED  BY <1>4, <3>1, <3>3
  <2>2. CASE i # n + 1
    <3>1. i \in 2..n /\ i - 1 \in 1..(n - 1)
      BY <1>1, <2>2
    <3>2. u[i].fn = "module" /\ u[i].file = l[i - 1] /\ u[i].file \in Files \ DOMAIN progs
          /\ Parsed(u[i].prog)
      BY <1>9, <1>10, <1>a, <1>b, <3>1
    <3> DEFINE m == s[i].prog.imports
    <3>3. Len(m) \in Nat /\ u[i].prog.imports = m
      BY <1>10, <1>b, <3>1 DEF Parsed
    <3>4. Visited(s, i, m, DOMAIN progs)
      BY <1>c, <3>1
    <3> HIDE DEF m
    <3>5. Visited(u, i, m, DOMAIN progs)
      <4>1. CASE i < n
        <5>1. i + 1 \in 2..n
          BY <1>1, <3>1, <4>1
        <5>2. u[i].next = s[i].next /\ u[i + 1].file = s[i + 1].file
          BY <1>1, <1>10, <3>1, <4>1, <5>1
        <5> QED  BY <1>1, <1>5, <3>1, <3>4, <4>1, <5>2 DEF Visited, n
      <4>2. CASE i = n
        <5>1. u[i].next = s[i].next + 1 /\ u[i + 1].file = f
          BY <1>1, <1>4, <1>5, <1>10, <3>1, <4>2
        <5>2. s[i].next <= Len(m) /\ f = m[s[i].next]
          BY <1>1, <3>1, <4>2 DEF n, m
        <5>3. s[i].next \in 1..(Len(m) + 1)
              /\ \A j \in 1..(s[i].next - 1) : m[j] \in DOMAIN progs
          BY <1>1, <3>4, <4>2 DEF Visited, n
        <5>4. u[i].next \in 1..(Len(m) + 1) /\ u[i].next > 1 /\ m[u[i].next - 1] = f
          <6>1. Len(m) \in Nat /\ s[i].next \in 1..Len(m)
            BY <3>3, <5>2, <5>3
          <6>2. u[i].next \in 1..(Len(m) + 1) /\ u[i].next > 1 /\ u[i].next - 1 = s[i].next
            BY <5>1, <6>1
          <6> QED  BY <5>2, <6>2
        <5>5. \A j \in 1..(u[i].next - 1) : j \in 1..(s[i].next - 1) \/ j = u[i].next - 1
          BY <5>1, <5>3, <3>3
        <5>6. i < Len(u)
          BY <1>1, <1>5, <4>2
        <5> QED  BY <5>1, <5>3, <5>4, <5>5, <5>6 DEF Visited
      <4> QED  BY <1>1, <3>1, <4>1, <4>2
    <3> QED  BY <3>2, <3>3, <3>5
  <2> QED  BY <2>1, <2>2
<1>14. ASSUME NEW i \in 2..(n + 1), NEW j \in 2..(n + 1), u[i].file = u[j].file
       PROVE  i = j
  <2>1. u[n + 1].file = f
    BY <1>4, <1>5
  <2>2. \A k \in 2..n : u[k].file # f
    <3> SUFFICES ASSUME NEW k \in 2..n PROVE u[k].file # f
      OBVIOUS
    <3>1. k - 1 \in 1..(n - 1)
      BY <1>1
    <3> QED  BY <1>9, <1>10, <1>a, <3>1
  <2>3. \A k \in 2..(n + 1) : k \in 2..n \/ k = n + 1
    BY <1>1
  <2>4. \A h, k \in 2..n : u[h].file = u[k].file => h = k
    BY <1>10, <1>d
  <2> QED  BY <1>14, <2>1, <2>2, <2>3, <2>4
<1>15. Len(u) = n + 1 /\ Len(l) = Len(u) - 1
  BY <1>1, <1>5, <1>8
<1>16. Descending(u, l, progs)
  <2>1. \A i \in 2..Len(u) : /\ u[i].fn = "module" /\ u[i].file = l[i - 1]
                             /\ u[i].file \in Files \ DOMAIN progs /\ Parsed(u[i].prog)
                             /\ Visited(u, i, u[i].prog.imports, DOMAIN progs)
    BY <1>13, <1>15
  <2>2. \A i, j \in 2..Len(u) : u[i].file = u[j].file => i = j
    BY <1>14, <1>15
  <2> QED  BY <1>1, <1>8, <1>11, <1>12, <1>15, <2>1, <2>2 DEF Descending
<1> QED  BY <1>5, <1>16 DEF u, l, c

\* load_module skips an import that is in the cache.
LEMMA DescentSkips ==
  ASSUME NEW s, IsStack(s), NEW stack, NEW progs, Descending(s, stack, progs), Len(s) > 1,
         s[Len(s)].next <= Len(s[Len(s)].prog.imports),
         s[Len(s)].prog.imports[s[Len(s)].next] \in DOMAIN progs
  PROVE  Descending(AdvancedOf(s), stack, progs)
<1> DEFINE n == Len(s)
           u == AdvancedOf(s)
<1>1. n \in Nat /\ n > 1 /\ s # <<>>
  BY StackFacts DEF Descending
<1>2. IsStack(u) /\ Len(u) = n /\ \A i \in 1..(n - 1) : u[i] = s[i]
  BY <1>1, AdvancedStack
<1>3. u[n] = [fn |-> s[n].fn, file |-> s[n].file, prog |-> s[n].prog, next |-> s[n].next + 1]
  BY <1>1, AdvancedStack
<1>a. \A i \in 2..n : /\ s[i].fn = "module" /\ s[i].file = stack[i - 1]
                      /\ s[i].file \in Files \ DOMAIN progs /\ Parsed(s[i].prog)
                      /\ Visited(s, i, s[i].prog.imports, DOMAIN progs)
  BY DEF Descending
<1>b. \A i, j \in 2..n : s[i].file = s[j].file => i = j
  BY DEF Descending
<1>c. stack \in Seq(Files) /\ Len(stack) = n - 1 /\ s[1] = Frame("tree", Root, Missing)
      /\ s[2].file = Root
  BY <1>1 DEF Descending
<1>d. s[n].next <= Len(s[n].prog.imports) /\ s[n].prog.imports[s[n].next] \in DOMAIN progs
      /\ n = Len(s)
  OBVIOUS
<1> HIDE DEF n, u
<1>4. \A i \in 2..n : /\ u[i].fn = s[i].fn /\ u[i].file = s[i].file /\ u[i].prog = s[i].prog
                      /\ u[i].next = IF i = n THEN s[n].next + 1 ELSE s[i].next
  <2> SUFFICES ASSUME NEW i \in 2..n
               PROVE  /\ u[i].fn = s[i].fn /\ u[i].file = s[i].file /\ u[i].prog = s[i].prog
                      /\ u[i].next = IF i = n THEN s[n].next + 1 ELSE s[i].next
    OBVIOUS
  <2>1. CASE i = n
    BY <1>3, <2>1
  <2>2. CASE i # n
    <3>1. i \in 1..(n - 1)
      BY <1>1, <2>2
    <3> QED  BY <1>2, <2>2, <3>1
  <2> QED  BY <2>1, <2>2
<1>5. u[1] = s[1] /\ u # <<>> /\ u[2].file = Root
  <2>1. 1 \in 1..(n - 1) /\ 2 \in 2..n
    BY <1>1
  <2>2. u # <<>>
    BY <1>1, <1>2, StackFacts
  <2> QED  BY <1>2, <1>4, <1>c, <2>1, <2>2
<1>6. ASSUME NEW i \in 2..n PROVE Visited(u, i, u[i].prog.imports, DOMAIN progs)
  <2> DEFINE m == s[i].prog.imports
  <2>1. Len(m) \in Nat /\ u[i].prog.imports = m /\ Visited(s, i, m, DOMAIN progs)
    BY <1>4, <1>a DEF Parsed
  <2>2. i = n => s[i].next <= Len(m) /\ m[s[i].next] \in DOMAIN progs
    BY <1>d
  <2> HIDE DEF m
  <2>3. CASE i < n
    <3>1. i + 1 \in 2..n
      BY <1>1, <2>3
    <3>2. u[i].next = s[i].next /\ u[i + 1].file = s[i + 1].file
      BY <1>1, <1>4, <2>3, <3>1
    <3> QED  BY <1>1, <1>2, <1>d, <2>1, <2>3, <3>2 DEF Visited
  <2>4. CASE i = n
    <3>1. u[i].next = s[i].next + 1
      BY <1>4, <2>4
    <3>2. s[i].next \in 1..(Len(m) + 1)
          /\ \A j \in 1..(s[i].next - 1) : m[j] \in DOMAIN progs
      BY <1>1, <1>d, <2>1, <2>4 DEF Visited
    <3>3. u[i].next \in 1..(Len(m) + 1)
      BY <2>1, <2>2, <2>4, <3>1, <3>2
    <3>4. \A j \in 1..(u[i].next - 1) : j \in 1..(s[i].next - 1) \/ j = s[i].next
      BY <2>1, <3>1, <3>2
    <3> QED  BY <1>1, <1>2, <2>1, <2>2, <2>4, <3>2, <3>3, <3>4 DEF Visited
  <2> QED  BY <1>1, <2>3, <2>4
<1>7. \A i, j \in 2..n : u[i].file = u[j].file => i = j
  BY <1>4, <1>b
<1>8. \A i \in 2..n : /\ u[i].fn = "module" /\ u[i].file = stack[i - 1]
                      /\ u[i].file \in Files \ DOMAIN progs /\ Parsed(u[i].prog)
                      /\ Visited(u, i, u[i].prog.imports, DOMAIN progs)
  BY <1>4, <1>6, <1>a
<1> QED  BY <1>2, <1>5, <1>7, <1>8, <1>c DEF Descending, u

\* A program all of whose imports are loaded joins the cache.
LEMMA CacheGrows ==
  ASSUME NEW progs, Programs(progs), Acyclic(progs),
         NEW f \in Files, f \notin DOMAIN progs,
         NEW p, Parsed(p), ToSet(p.imports) \subseteq DOMAIN progs,
         NEW new, new = [g \in DOMAIN progs \cup {f} |-> IF g = f THEN p ELSE progs[g]]
  PROVE  Programs(new) /\ Acyclic(new)
<1>1. DOMAIN new = DOMAIN progs \cup {f} /\ new[f] = p
  OBVIOUS
<1>2. \A g \in DOMAIN progs : new[g] = progs[g]
  OBVIOUS
<1>3. Programs(new)
  BY <1>1, <1>2 DEF Programs
<1>4. Acyclic(new)
  <2> SUFFICES ASSUME NEW S \in SUBSET DOMAIN new, S # {}
               PROVE  \E g \in S : ToSet(new[g].imports) \cap S = {}
    BY DEF Acyclic
  <2> DEFINE T == S \cap DOMAIN progs
  <2>1. CASE T = {}
    BY <1>1, <2>1
  <2>2. CASE T # {}
    <3>1. PICK g \in T : ToSet(progs[g].imports) \cap T = {}
      BY <2>2, T \in SUBSET DOMAIN progs DEF Acyclic
    <3>2. ToSet(progs[g].imports) \subseteq DOMAIN progs
      BY <3>1 DEF Programs
    <3> QED  BY <1>2, <3>1, <3>2
  <2> QED  BY <2>1, <2>2
<1> QED  BY <1>3, <1>4

\* load_module returns to load_module: the program it has loaded is in the
\* cache, and its caller is past that import.
LEMMA DescentReturns ==
  ASSUME NEW s, IsStack(s), NEW stack, NEW progs, Descending(s, stack, progs), Len(s) > 2,
         NEW new, DOMAIN new = DOMAIN progs \cup {s[Len(s)].file}
  PROVE  Descending(Front(s), Front(stack), new) /\ Root \notin DOMAIN new \ DOMAIN progs
<1> DEFINE n == Len(s)
           u == Front(s)
           l == Front(stack)
<1>1. n \in Nat /\ n > 2 /\ s # <<>>
  BY StackFacts DEF Descending
<1>2. IsStack(u) /\ Len(u) = n - 1 /\ \A i \in 1..(n - 1) : u[i] = s[i]
  BY <1>1, PoppedStack
<1>a. \A i \in 2..n : /\ s[i].fn = "module" /\ s[i].file = stack[i - 1]
                      /\ s[i].file \in Files \ DOMAIN progs /\ Parsed(s[i].prog)
                      /\ Visited(s, i, s[i].prog.imports, DOMAIN progs)
  BY DEF Descending
<1>b. \A i, j \in 2..n : s[i].file = s[j].file => i = j
  BY DEF Descending
<1>c. stack \in Seq(Files) /\ Len(stack) = n - 1 /\ s[1] = Frame("tree", Root, Missing)
      /\ s[2].file = Root
  BY <1>1 DEF Descending
<1>d. n = Len(s)
  OBVIOUS
<1>3. l \in Seq(Files) /\ Len(l) = n - 2 /\ \A i \in 1..(n - 2) : l[i] = stack[i]
  <2>1. l = SubSeq(stack, 1, n - 2)
    BY <1>1, <1>c DEF Front
  <2> HIDE DEF l, n
  <2>2. 1 \in 1..(n - 1) /\ n - 2 \in 1..(n - 1)
    BY <1>1
  <2> QED  BY <1>1, <1>c, <2>1, <2>2
<1> HIDE DEF n, u, l
<1>4. u[1] = s[1] /\ u # <<>> /\ u[2].file = Root
  <2>1. 1 \in 1..(n - 1) /\ 2 \in 1..(n - 1)
    BY <1>1
  <2>2. u # <<>>
    BY <1>1, <1>2, StackFacts
  <2> QED  BY <1>2, <1>c, <2>1, <2>2
<1>5. ASSUME NEW i \in 2..(n - 1)
      PROVE  /\ u[i].fn = "module" /\ u[i].file = l[i - 1]
             /\ u[i].file \in Files \ DOMAIN new /\ Parsed(u[i].prog)
             /\ Visited(u, i, u[i].prog.imports, DOMAIN new)
  <2> DEFINE m == s[i].prog.imports
  <2>1. i \in 2..n /\ i \in 1..(n - 1) /\ i - 1 \in 1..(n - 2) /\ i # n /\ n \in 2..n
    BY <1>1
  <2>2. u[i] = s[i] /\ l[i - 1] = stack[i - 1]
    BY <1>2, <1>3, <2>1
  <2>3. s[i].file # s[n].file
    BY <1>b, <2>1
  <2>4. Len(m) \in Nat /\ Visited(s, i, m, DOMAIN progs)
    BY <1>a, <2>1 DEF Parsed
  <2> HIDE DEF m
  <2>5. Visited(u, i, m, DOMAIN new)
    <3>1. CASE i < n - 1
      <4>1. i + 1 \in 1..(n - 1)
        BY <1>1, <3>1
      <4>2. u[i + 1] = s[i + 1]
        BY <1>2, <4>1
      <4> QED  BY <1>1, <1>2, <1>d, <2>2, <2>4, <3>1, <4>2 DEF Visited
    <3>2. CASE i = n - 1
      <4>1. s[i].next > 1 /\ m[s[i].next - 1] = s[n].file
        BY <1>1, <1>d, <2>4, <3>2 DEF Visited
      <4>2. s[i].next \in 1..(Len(m) + 1)
            /\ \A j \in 1..(s[i].next - 1) : m[j] \in DOMAIN progs \/ j = s[i].next - 1
        BY <2>4 DEF Visited
      <4>3. \A j \in 1..(s[i].next - 1) : m[j] \in DOMAIN new
        BY <4>1, <4>2, <1>d
      <4> QED  BY <1>1, <1>2, <2>2, <3>2, <4>2, <4>3 DEF Visited
    <3> QED  BY <1>1, <3>1, <3>2
  <2>6. u[i].prog.imports = m
    BY <2>2 DEF m
  <2> QED  BY <1>a, <1>d, <2>1, <2>2, <2>3, <2>5, <2>6
<1>6. \A i, j \in 2..(n - 1) : u[i].file = u[j].file => i = j
  <2> SUFFICES ASSUME NEW i \in 2..(n - 1), NEW j \in 2..(n - 1), u[i].file = u[j].file
               PROVE  i = j
    OBVIOUS
  <2>1. i \in 2..n /\ j \in 2..n /\ i \in 1..(n - 1) /\ j \in 1..(n - 1)
    BY <1>1
  <2> QED  BY <1>2, <1>b, <2>1
<1>7. Len(u) = n - 1 /\ Len(l) = Len(u) - 1
  BY <1>1, <1>2, <1>3
<1>8. Descending(u, l, new)
  <2>1. \A i \in 2..Len(u) : /\ u[i].fn = "module" /\ u[i].file = l[i - 1]
                             /\ u[i].file \in Files \ DOMAIN new /\ Parsed(u[i].prog)
                             /\ Visited(u, i, u[i].prog.imports, DOMAIN new)
    BY <1>5, <1>7
  <2>2. \A i, j \in 2..Len(u) : u[i].file = u[j].file => i = j
    BY <1>6, <1>7
  <2> QED  BY <1>3, <1>4, <1>7, <1>c, <2>1, <2>2 DEF Descending
<1>9. Root # s[Len(s)].file
  <2>1. 2 \in 2..n /\ n \in 2..n /\ n # 2
    BY <1>1
  <2> QED  BY <1>b, <1>c, <1>d, <2>1
<1> QED  BY <1>8, <1>9 DEF u, l

\* A frame past its last import has seen them all.
LEMMA AllVisited ==
  ASSUME NEW s, NEW m \in Seq(Files), NEW S, Visited(s, Len(s), m, S), Len(s) \in Nat,
         s[Len(s)].next > Len(m)
  PROVE  ToSet(m) \subseteq S
<1>1. Len(m) \in Nat /\ ToSet(m) = {m[i] : i \in 1..Len(m)}
  BY OwnMembers
<1>2. s[Len(s)].next \in 1..(Len(m) + 1)
      /\ \A j \in 1..(s[Len(s)].next - 1) : m[j] \in S
  BY DEF Visited
<1>3. s[Len(s)].next - 1 = Len(m)
  BY <1>1, <1>2
<1> QED  BY <1>1, <1>2, <1>3

\* load_module returns to load_recursive: the root is loaded with all it imports.
LEMMA DescentEnds ==
  ASSUME NEW s, IsStack(s), NEW stack, NEW progs, Descending(s, stack, progs), Len(s) = 2,
         NEW new, Programs(new), DOMAIN new = DOMAIN progs \cup {s[Len(s)].file}
  PROVE  /\ Registering(Front(s), {}, new) /\ Root \in DOMAIN new
         /\ Front(s) # <<>> /\ Front(stack) = <<>>
<1>1. s # <<>>
  BY StackFacts
<1>2. /\ IsStack(Front(s)) /\ Len(Front(s)) = 1 /\ Front(s)[1] = s[1] /\ Front(s) # <<>>
  <2>1. /\ IsStack(Front(s)) /\ Len(Front(s)) = Len(s) - 1
        /\ \A i \in 1..(Len(s) - 1) : Front(s)[i] = s[i]
    BY <1>1, PoppedStack
  <2>2. Len(Front(s)) = 1 /\ Front(s)[1] = s[1]
    BY <2>1
  <2>3. Front(s) # <<>>
    BY <2>1, <2>2, StackFacts
  <2> QED  BY <2>1, <2>2, <2>3
<1>3. stack \in Seq(Files) /\ Len(stack) = 1 /\ s[1] = Frame("tree", Root, Missing)
      /\ s[2].file = Root
  BY DEF Descending
<1>4. Front(stack) = <<>>
  BY <1>3 DEF Front
<1>5. Root \in DOMAIN new
  BY <1>3
<1>6. s[1].fn = "tree" /\ s[1].file = Root /\ s[1].next = 1
  BY <1>3 DEF Frame
<1>7. Len(new[Root].imports) \in Nat
  BY <1>5 DEF Programs, Parsed
<1>8. Visited(Front(s), 1, new[Root].imports, {})
  BY <1>2, <1>6, <1>7 DEF Visited
<1>9. AllReached({}, new) /\ AllReached({Root}, new)
  BY DEF AllReached
<1>10. \A i \in 1..Len(Front(s)) : i = 1
  BY <1>2
<1>11. Registering(Front(s), {}, new)
  BY <1>2, <1>5, <1>6, <1>8, <1>9, <1>10 DEF Registering
<1> QED  BY <1>2, <1>4, <1>5, <1>11

\* load_recursive passes an import that is registered, or walks into it.
LEMMA RegisteringImports ==
  ASSUME NEW s, IsStack(s), s # <<>>, NEW reg, NEW progs, Programs(progs),
         Registering(s, reg, progs),
         s[Len(s)].next <= Len(progs[s[Len(s)].file].imports), NEW f,
         f = progs[s[Len(s)].file].imports[s[Len(s)].next], NEW u,
         \/ f \in reg /\ u = AdvancedOf(s)
         \/ f \notin reg /\ u = Append(AdvancedOf(s), Frame("tree", f, Missing))
  PROVE  IsStack(u) /\ u # <<>> /\ Registering(u, reg, progs)
<1> DEFINE n == Len(s)
           t == AdvancedOf(s)
           c == Frame("tree", f, Missing)
           m == progs[s[n].file].imports
<1>1. n \in Nat \ {0}
  BY StackFacts
<1>2. IsStack(t) /\ Len(t) = n /\ \A i \in 1..(n - 1) : t[i] = s[i]
  BY AdvancedStack
<1>3. t[n] = [fn |-> s[n].fn, file |-> s[n].file, prog |-> s[n].prog, next |-> s[n].next + 1]
  BY AdvancedStack
<1>4. IsFrame(c) /\ c.fn = "tree" /\ c.file = f /\ c.next = 1
  BY DEF IsFrame, Frame
<1>5. /\ IsStack(Append(t, c)) /\ Len(Append(t, c)) = n + 1 /\ Append(t, c)[n + 1] = c
      /\ \A i \in 1..n : Append(t, c)[i] = t[i]
  <2> HIDE DEF n, t, c
  <2> QED  BY <1>2, <1>4, PushedStack
<1>6. s[1].file = Root
  BY DEF Registering
<1>a. \A i \in 1..n : /\ s[i].fn = "tree" /\ s[i].file \in DOMAIN progs
                      /\ AllReached({s[i].file}, progs)
                      /\ Visited(s, i, progs[s[i].file].imports, reg)
  BY DEF Registering
<1>b. n = Len(s) /\ m = progs[s[n].file].imports /\ s[n].next <= Len(m) /\ f = m[s[n].next]
  OBVIOUS
<1> HIDE DEF n, t, c, m
<1>7. \A i \in 1..n : /\ t[i].fn = s[i].fn /\ t[i].file = s[i].file
                      /\ t[i].next = IF i = n THEN s[n].next + 1 ELSE s[i].next
  <2> SUFFICES ASSUME NEW i \in 1..n
               PROVE  /\ t[i].fn = s[i].fn /\ t[i].file = s[i].file
                      /\ t[i].next = IF i = n THEN s[n].next + 1 ELSE s[i].next
    OBVIOUS
  <2>1. CASE i = n
    BY <1>3, <2>1
  <2>2. CASE i # n
    <3>1. i \in 1..(n - 1)
      BY <1>1, <2>2
    <3> QED  BY <1>2, <2>2, <3>1
  <2> QED  BY <2>1, <2>2
<1>8. /\ IsStack(u) /\ Len(u) \in {n, n + 1} /\ \A i \in 1..n : u[i] = t[i]
      /\ f \notin reg => Len(u) = n + 1 /\ u[n + 1] = c
      /\ f \in reg => Len(u) = n
  BY <1>1, <1>2, <1>5 DEF t, c
<1>9. u # <<>>
  BY <1>1, <1>8, StackFacts
<1>10. /\ n \in 1..n /\ s[n].file \in DOMAIN progs
       /\ AllReached({s[n].file}, progs) /\ Visited(s, n, m, reg)
  <2>1. n \in 1..n
    BY <1>1
  <2> QED  BY <1>a, <1>b, <2>1
<1>11. /\ m \in Seq(Files) /\ Len(m) \in Nat /\ ToSet(m) \subseteq DOMAIN progs
       /\ ToSet(m) = {m[i] : i \in 1..Len(m)}
  BY <1>10, <1>b, OwnMembers DEF Programs, Parsed
<1>12. s[n].next \in 1..Len(m) /\ f \in ToSet(m) /\ f \in DOMAIN progs
  <2>1. s[n].next \in 1..(Len(m) + 1)
    BY <1>10 DEF Visited
  <2>2. s[n].next \in 1..Len(m)
    <3>1. Len(m) \in Nat /\ s[n].next <= Len(m)
      BY <1>11, <1>b
    <3> QED  BY <2>1, <3>1
  <2> QED  BY <1>11, <1>b, <2>2
<1>13. AllReached({f}, progs)
  BY <1>10, <1>12, <1>b DEF AllReached, Closed
<1>14. \A j \in 1..(s[n].next - 1) : m[j] \in reg
  BY <1>1, <1>10, <1>b DEF Visited
<1>15. ASSUME NEW i \in 1..n PROVE Visited(u, i, progs[u[i].file].imports, reg)
  <2> DEFINE w == progs[s[i].file].imports
  <2>1. u[i].file = s[i].file /\ Visited(s, i, w, reg)
    BY <1>7, <1>8, <1>a
  <2>2. i = n => w = m
    BY <1>b
  <2> HIDE DEF w
  <2>3. CASE i < n
    <3>1. i + 1 \in 1..n
      BY <1>1, <2>3
    <3>2. u[i].next = s[i].next /\ u[i + 1].file = s[i + 1].file
      BY <1>1, <1>7, <1>8, <2>3, <3>1
    <3>3. i < Len(u)
      BY <1>1, <1>8, <2>3
    <3>4. Visited(u, i, w, reg)
      BY <1>b, <2>1, <2>3, <3>2, <3>3 DEF Visited
    <3> QED  BY <2>1, <3>4 DEF w
  <2>4. CASE i = n
    <3>1. u[n].next = s[n].next + 1
      BY <1>7, <1>8, <1>10
    <3>2. u[n].next \in 1..(Len(m) + 1)
      <4>1. Len(m) \in Nat /\ s[n].next \in 1..Len(m)
        BY <1>11, <1>12
      <4> QED  BY <3>1, <4>1
    <3>3. \A j \in 1..(u[n].next - 1) : j \in 1..(s[n].next - 1) \/ j = s[n].next
      BY <1>12, <3>1
    <3>4. u[n].next > 1 /\ u[n].next - 1 = s[n].next
      BY <1>12, <3>1
    <3>5. CASE f \in reg
      <4>1. Len(u) = n /\ \A j \in 1..(u[n].next - 1) : m[j] \in reg
        BY <1>8, <1>14, <1>b, <3>3, <3>5
      <4>2. Visited(u, n, m, reg)
        BY <1>1, <3>2, <4>1 DEF Visited
      <4> QED  BY <2>1, <2>2, <2>4, <4>2 DEF w
    <3>6. CASE f \notin reg
      <4>1. Len(u) = n + 1 /\ u[n + 1].file = f
        BY <1>4, <1>8, <3>6
      <4>2. \A j \in 1..(u[n].next - 1) : m[j] \in reg \/ j = u[n].next - 1
        BY <1>14, <3>3, <3>4
      <4>3. Visited(u, n, m, reg)
        <5>1. n < Len(u) /\ m[u[n].next - 1] = u[n + 1].file
          BY <1>1, <1>b, <3>4, <4>1
        <5> QED  BY <3>2, <3>4, <4>2, <5>1 DEF Visited
      <4> QED  BY <2>1, <2>2, <2>4, <4>3 DEF w
    <3> QED  BY <3>5, <3>6
  <2> QED  BY <1>1, <2>3, <2>4
<1>16. ASSUME NEW i \in 1..Len(u)
       PROVE  /\ u[i].fn = "tree" /\ u[i].file \in DOMAIN progs
              /\ AllReached({u[i].file}, progs)
              /\ Visited(u, i, progs[u[i].file].imports, reg)
  <2>1. CASE i \in 1..n
    BY <1>7, <1>8, <1>15, <1>a, <2>1
  <2>2. CASE i \notin 1..n
    <3>1. i = n + 1 /\ f \notin reg /\ Len(u) = n + 1 /\ u[i] = c
      BY <1>1, <1>8, <2>2
    <3> DEFINE w == progs[f].imports
    <3>2. w \in Seq(Files)
      BY <1>12 DEF Programs, Parsed
    <3> HIDE DEF w
    <3>3. Visited(u, n + 1, w, reg)
      BY <1>1, <1>4, <3>1, <3>2 DEF Visited
    <3> QED  BY <1>4, <1>12, <1>13, <3>1, <3>3 DEF w
  <2> QED  BY <2>1, <2>2
<1>17. u[1].file = Root
  <2>1. 1 \in 1..n
    BY <1>1
  <2> QED  BY <1>6, <1>7, <1>8, <2>1
<1> QED
  <2>1. reg \subseteq DOMAIN progs /\ AllReached(reg, progs)
        /\ \A g \in reg : ToSet(progs[g].imports) \subseteq reg
    BY DEF Registering
  <2> QED  BY <1>8, <1>9, <1>16, <1>17, <2>1 DEF Registering

\* load_recursive registers a file all of whose imports are registered.
LEMMA RegisteringReturns ==
  ASSUME NEW s, IsStack(s), s # <<>>, NEW reg, NEW progs, Programs(progs),
         Registering(s, reg, progs),
         s[Len(s)].next > Len(progs[s[Len(s)].file].imports)
  PROVE  /\ IsStack(Front(s))
         /\ Registering(Front(s), reg \cup {s[Len(s)].file}, progs)
<1> DEFINE n == Len(s)
           u == Front(s)
           f == s[n].file
           new == reg \cup {f}
<1>1. n \in Nat \ {0} /\ n \in 1..n
  BY StackFacts
<1>2. IsStack(u) /\ Len(u) = n - 1 /\ \A i \in 1..(n - 1) : u[i] = s[i]
  BY PoppedStack
<1>3. s[1].file = Root
  BY DEF Registering
<1>a. \A i \in 1..n : /\ s[i].fn = "tree" /\ s[i].file \in DOMAIN progs
                      /\ AllReached({s[i].file}, progs)
                      /\ Visited(s, i, progs[s[i].file].imports, reg)
  BY DEF Registering
<1>b. n = Len(s) /\ f = s[n].file
  OBVIOUS
<1>c. reg \subseteq DOMAIN progs /\ AllReached(reg, progs)
      /\ \A g \in reg : ToSet(progs[g].imports) \subseteq reg
  BY DEF Registering
<1>4. f \in DOMAIN progs /\ progs[f].imports \in Seq(Files)
  BY <1>1, <1>a DEF Programs, Parsed
<1>5. ToSet(progs[f].imports) \subseteq reg
  BY <1>1, <1>4, <1>a, AllVisited
<1> HIDE DEF n, u, f, new
<1>6. new \subseteq DOMAIN progs /\ AllReached(new, progs)
      /\ \A g \in new : ToSet(progs[g].imports) \subseteq new
  <2>1. AllReached({f}, progs)
    BY <1>1, <1>a, <1>b
  <2> QED  BY <1>4, <1>5, <1>c, <2>1 DEF new, AllReached
<1>7. IF u = <<>> THEN Root \in new ELSE u[1].file = Root
  <2>1. CASE n = 1
    BY <1>1, <1>3, <1>b, <2>1, <1>2, StackFacts DEF new
  <2>2. CASE n # 1
    <3>1. 1 \in 1..(n - 1) /\ Len(u) # 0
      BY <1>1, <1>2, <2>2
    <3> QED  BY <1>2, <1>3, <3>1, StackFacts
  <2> QED  BY <2>1, <2>2
<1>8. ASSUME NEW i \in 1..(n - 1) PROVE Visited(u, i, progs[s[i].file].imports, new)
  <2> DEFINE w == progs[s[i].file].imports
  <2>1. i \in 1..n /\ u[i] = s[i]
    BY <1>1, <1>2
  <2>2. Visited(s, i, w, reg) /\ s[i].file \in DOMAIN progs
    BY <1>a, <2>1
  <2>5. w \in Seq(Files)
    BY <2>2 DEF Programs, Parsed
  <2> HIDE DEF w
  <2>6. Len(w) \in Nat
    BY <2>5
  <2>3. CASE i < n - 1
    <3>1. i + 1 \in 1..(n - 1)
      BY <1>1, <2>3
    <3>2. u[i + 1] = s[i + 1]
      BY <1>2, <3>1
    <3>3. Visited(u, i, w, new)
      BY <1>1, <1>2, <1>b, <2>1, <2>2, <2>6, <2>3, <3>2 DEF Visited, new
    <3> QED  BY <3>3 DEF w
  <2>4. CASE i = n - 1
    <3>1. w[s[i].next - 1] = f
      BY <1>1, <1>b, <2>2, <2>4 DEF Visited
    <3>2. s[i].next \in 1..(Len(w) + 1)
          /\ \A j \in 1..(s[i].next - 1) : w[j] \in reg \/ j = s[i].next - 1
      BY <2>2 DEF Visited
    <3>3. \A j \in 1..(s[i].next - 1) : w[j] \in new
      BY <3>1, <3>2 DEF new
    <3>4. Visited(u, i, w, new)
      BY <1>1, <1>2, <2>1, <2>4, <3>2, <3>3 DEF Visited
    <3> QED  BY <3>4 DEF w
  <2> QED  BY <1>1, <2>3, <2>4
<1>9. \A i \in 1..Len(u) : /\ u[i].fn = "tree" /\ u[i].file \in DOMAIN progs
                           /\ AllReached({u[i].file}, progs)
                           /\ Visited(u, i, progs[u[i].file].imports, new)
  <2> SUFFICES ASSUME NEW i \in 1..Len(u)
               PROVE  /\ u[i].fn = "tree" /\ u[i].file \in DOMAIN progs
                      /\ AllReached({u[i].file}, progs)
                      /\ Visited(u, i, progs[u[i].file].imports, new)
    OBVIOUS
  <2>1. i \in 1..(n - 1) /\ i \in 1..n /\ u[i] = s[i]
    BY <1>1, <1>2
  <2> QED  BY <1>8, <1>a, <2>1
<1> QED
  <2>1. Registering(u, new, progs)
    BY <1>6, <1>7, <1>9 DEF Registering
  <2> QED  BY <1>2, <2>1 DEF u, new, f, n

---------------------------------------------------------------------------
\* Files have contents, programs among them have paths for imports, and what is
\* counted is counted.
DiskTyped ==
  DOMAIN disk = Files /\ \A f \in Files : IsProgram(disk[f]) => Parsed(disk[f])

\* The loader is about to open f, to return to the frames `stack'.
Opening(f, stack) ==
  \/ Len(calls) = 1 /\ f = Root /\ stack = calls
  \/ /\ Len(calls) > 1
     /\ calls[Len(calls)].next <= Len(calls[Len(calls)].prog.imports)
     /\ f = calls[Len(calls)].prog.imports[calls[Len(calls)].next]
     /\ stack = AdvancedOf(calls)

\* A loader at work has frames, and is in one of the two parts of its walk.
LEMMA AtWork ==
  ASSUME LoaderSound, outcome = "busy"
  PROVE  /\ calls # <<>> /\ IsStack(calls) /\ Len(calls) \in Nat \ {0}
         /\ Top = calls[Len(calls)] /\ Len(calls) \in 1..Len(calls)
         /\ Programs(cache) /\ Acyclic(cache)
         /\ Root \in DOMAIN cache => loading = <<>> /\ Registering(calls, registry, cache)
         /\ Root \notin DOMAIN cache => registry = {} /\ Descending(calls, loading, cache)
<1>1. calls # <<>> /\ IsStack(calls)
  BY DEF LoaderSound
<1>2. Len(calls) \in Nat \ {0} /\ Top = calls[Len(calls)]
  BY <1>1, StackFacts DEF Top
<1> QED  BY <1>1, <1>2 DEF LoaderSound

\* What a step of the loader is, in each part of the walk.
LEMMA DescentMoves ==
  ASSUME LoaderSound, LoaderStep, Root \notin DOMAIN cache
  PROVE  \/ \E f \in Files : \E stack : Opening(f, stack) /\ OpenModule(f, stack)
         \/ ModuleReturns /\ Len(calls) > 1
<1> DEFINE n == Len(calls)
           c == calls[n]
<1>1. outcome = "busy" /\ Top = c /\ n \in Nat \ {0} /\ Descending(calls, loading, cache)
  BY AtWork DEF LoaderStep
<1>0. n = 1 \/ n > 1
  <2>1. n \in Nat \ {0}
    BY <1>1
  <2> HIDE DEF n
  <2> QED  BY <2>1
<1>2. n = 1 => c.fn = "tree" /\ c.file = Root
  BY <1>1 DEF Descending, Frame
<1>3. n > 1 => c.fn = "module" /\ Parsed(c.prog) /\ c.next \in 1..(Len(c.prog.imports) + 1)
  <2>1. n > 1 => n \in 2..n
    BY <1>1
  <2> QED  BY <2>1, <1>1 DEF Descending, Visited
<1>4. CASE ModuleImports
  <2>1. n > 1
    BY <1>1, <1>2, <1>4, <1>0 DEF ModuleImports
  <2> DEFINE m == c.prog.imports
             f == m[c.next]
  <2>2. c.next <= Len(m) /\ OpenModule(f, Advanced) /\ Advanced = AdvancedOf(calls)
    BY <1>1, <1>4 DEF ModuleImports, Advanced, AdvancedOf
  <2>3. m \in Seq(Files) /\ c.next \in 1..(Len(m) + 1)
    BY <1>3, <2>1 DEF Parsed
  <2>4. f \in Files
    BY <2>2, <2>3
  <2>5. Opening(f, Advanced)
    BY <2>1, <2>2 DEF Opening
  <2> QED  BY <2>2, <2>4, <2>5
<1>5. CASE ModuleReturns
  BY <1>1, <1>2, <1>5, <1>0 DEF ModuleReturns
<1>6. CASE TreeLoads
  <2>1. n = 1
    BY <1>1, <1>3, <1>6, <1>0 DEF TreeLoads
  <2>2. OpenModule(Root, calls)
    BY <1>1, <1>2, <1>6, <2>1 DEF TreeLoads
  <2>3. Opening(Root, calls)
    BY <2>1 DEF Opening
  <2> QED  BY <2>2, <2>3, DevServerAssumption DEF DevServerAssumption
<1>7. CASE TreeImports \/ TreeReturns
  <2>1. c.fn = "tree" /\ c.file \in DOMAIN cache
    BY <1>1, <1>7 DEF TreeImports, TreeReturns
  <2> QED  BY <1>1, <1>2, <1>3, <1>0, <2>1
<1> QED  BY <1>4, <1>5, <1>6, <1>7 DEF LoaderStep

\* Once the root is loaded only load_recursive moves.
LEMMA RegisteringMoves ==
  ASSUME LoaderSound, LoaderStep, Root \in DOMAIN cache
  PROVE  TreeImports \/ TreeReturns
<1> DEFINE n == Len(calls)
           c == calls[n]
<1>1. outcome = "busy" /\ Top = c /\ n \in 1..n /\ Registering(calls, registry, cache)
  BY AtWork DEF LoaderStep
<1>2. c.fn = "tree" /\ c.file \in DOMAIN cache
  BY <1>1 DEF Registering
<1> QED  BY <1>1, <1>2 DEF LoaderStep, ModuleImports, ModuleReturns, TreeLoads

\* load_module is called, on whatever there is on the disk by then.
LEMMA OpenSound ==
  ASSUME LoaderSound, DiskTyped, outcome = "busy", Root \notin DOMAIN cache,
         NEW f \in Files, NEW stack, Opening(f, stack), OpenModule(f, stack)
  PROVE  LoaderSound'
<1> DEFINE n == Len(calls)
<1>1. /\ calls # <<>> /\ IsStack(calls) /\ n \in Nat \ {0} /\ Top = calls[n]
      /\ Programs(cache) /\ Acyclic(cache)
      /\ registry = {} /\ Descending(calls, loading, cache)
  BY AtWork
<1>2. loading \in Seq(Files) /\ Len(loading) = n - 1
  BY <1>1 DEF Descending
<1>3. CASE disk[f] = Missing /\ Fail("notfound") /\ UNCHANGED loading
  BY <1>1, <1>3 DEF LoaderSound, Fail
<1>4. CASE /\ disk[f] # Missing /\ f \in DOMAIN cache
           /\ Return(stack) /\ UNCHANGED <<cache, loading, registry>>
  <2>1. n > 1 /\ stack = AdvancedOf(calls) /\ calls[n].next <= Len(calls[n].prog.imports)
        /\ calls[n].prog.imports[calls[n].next] \in DOMAIN cache
    BY <1>4 DEF Opening
  <2>2. Descending(stack, loading, cache)
    BY <1>1, <2>1, DescentSkips
  <2>3. IsStack(stack) /\ stack # <<>>
    BY <1>1, <2>1, <2>2, AdvancedStack DEF Descending
  <2>4. calls' = stack /\ outcome' = "busy"
    BY <1>4, <2>3 DEF Return
  <2> QED  BY <1>1, <1>4, <2>2, <2>3, <2>4 DEF LoaderSound
<1>5. CASE /\ f \in ToSet(loading) /\ Fail("circular") /\ UNCHANGED loading
  <2>1. n > 1
    <3>1. n = 1 => loading = <<>>
      BY <1>2
    <3>2. loading = <<>> => ToSet(loading) = {}
      BY DEF ToSet
    <3>3. n # 1 /\ n \in Nat \ {0}
      BY <1>1, <1>5, <3>1, <3>2
    <3> HIDE DEF n
    <3> QED  BY <3>3
  <2>2. calls[n].next <= Len(calls[n].prog.imports)
        /\ calls[n].prog.imports[calls[n].next] \in ToSet(loading)
    BY <1>5, <2>1 DEF Opening
  <2>3. Top' = Top /\ outcome' = "circular" /\ UNCHANGED <<cache, calls, registry, loading>>
    BY <1>5 DEF Top, Fail
  <2> QED  BY <1>1, <2>1, <2>2, <2>3 DEF LoaderSound
<1>6. CASE Fail("parse")
  BY <1>1, <1>6 DEF LoaderSound, Fail
<1>7. CASE /\ IsProgram(disk[f]) /\ f \notin DOMAIN cache \cup ToSet(loading)
           /\ loading' = Append(loading, f)
           /\ calls' = Append(stack, Frame("module", f, disk[f]))
           /\ outcome' = "busy"
           /\ UNCHANGED <<cache, registry>>
  <2>1. Parsed(disk[f])
    BY <1>7 DEF DiskTyped
  <2>2. \/ Len(calls) = 1 /\ f = Root /\ stack = calls
        \/ /\ Len(calls) > 1 /\ calls[Len(calls)].next <= Len(calls[Len(calls)].prog.imports)
           /\ f = calls[Len(calls)].prog.imports[calls[Len(calls)].next]
           /\ stack = AdvancedOf(calls)
    BY DEF Opening
  <2>3. IsStack(calls') /\ Descending(calls', loading', cache)
    BY <1>1, <1>7, <2>1, <2>2, DescentOpens
  <2>4. calls' # <<>>
    BY <2>3 DEF Descending
  <2> QED  BY <1>1, <1>7, <2>3, <2>4 DEF LoaderSound
<1> QED  BY <1>3, <1>4, <1>5, <1>6, <1>7 DEF OpenModule

\* load_module returns: its program, with all its imports loaded, joins the cache.
LEMMA ModuleReturnsFacts ==
  ASSUME LoaderSound, LoaderStep, Root \notin DOMAIN cache, ModuleReturns, Len(calls) > 1
  PROVE  LET c == calls[Len(calls)]
         IN  /\ c \in ToSet(calls) /\ c.fn = "module" /\ c.file \in Files \ DOMAIN cache
             /\ Parsed(c.prog) /\ ToSet(c.prog.imports) \subseteq DOMAIN cache
             /\ DOMAIN cache' = DOMAIN cache \cup {c.file}
             /\ cache'[c.file] = c.prog /\ \A g \in DOMAIN cache : cache'[g] = cache[g]
             /\ Programs(cache') /\ Acyclic(cache')
             /\ calls' = Front(calls) /\ loading' = Front(loading) /\ registry' = {}
<1> DEFINE n == Len(calls)
           c == calls[n]
<1>1. /\ IsStack(calls) /\ n \in Nat /\ n > 1 /\ Top = c /\ registry = {}
      /\ Programs(cache) /\ Acyclic(cache) /\ Descending(calls, loading, cache)
  BY AtWork DEF LoaderStep
<1>2. n \in 2..n /\ c \in ToSet(calls)
  <2>1. n \in 1..n /\ n \in 2..n
    BY <1>1
  <2> QED  BY <1>1, <2>1, StackFacts
<1>3. /\ c.fn = "module" /\ c.file \in Files \ DOMAIN cache /\ Parsed(c.prog)
      /\ Visited(calls, n, c.prog.imports, DOMAIN cache)
  BY <1>1, <1>2 DEF Descending
<1>4. c.next > Len(c.prog.imports) /\ c.prog.imports \in Seq(Files)
  BY <1>1, <1>3 DEF ModuleReturns, Parsed
<1>5. ToSet(c.prog.imports) \subseteq DOMAIN cache
  BY <1>1, <1>3, <1>4, AllVisited
<1>6. cache' = [g \in DOMAIN cache \cup {c.file} |-> IF g = c.file THEN c.prog ELSE cache[g]]
  BY <1>1 DEF ModuleReturns
<1>7. Programs(cache') /\ Acyclic(cache')
  <2> DEFINE p == c.prog
             f == c.file
  <2>1. f \in Files /\ f \notin DOMAIN cache
    BY <1>3
  <2>2. Parsed(p) /\ ToSet(p.imports) \subseteq DOMAIN cache
    BY <1>3, <1>5
  <2>3. cache' = [g \in DOMAIN cache \cup {f} |-> IF g = f THEN p ELSE cache[g]]
    BY <1>6
  <2> HIDE DEF c, p, f
  <2> QED  BY <1>1, <2>1, <2>2, <2>3, CacheGrows
<1>8. calls' = Front(calls) /\ loading' = Front(loading) /\ registry' = {}
  BY <1>1 DEF ModuleReturns, Return
<1>9. /\ DOMAIN cache' = DOMAIN cache \cup {c.file}
      /\ cache'[c.file] = c.prog /\ \A g \in DOMAIN cache : cache'[g] = cache[g]
  BY <1>3, <1>6
<1> QED  BY <1>2, <1>3, <1>5, <1>7, <1>8, <1>9

\* A module that returns goes into the cache with all that it imports there.
LEMMA ModuleReturnsSound ==
  ASSUME LoaderSound, LoaderStep, Root \notin DOMAIN cache, ModuleReturns, Len(calls) > 1
  PROVE  LoaderSound'
<1> DEFINE n == Len(calls)
           c == calls[n]
<1>1. /\ IsStack(calls) /\ n \in Nat /\ n > 1 /\ calls # <<>>
      /\ Descending(calls, loading, cache)
  BY AtWork DEF LoaderStep
<1>2. /\ Programs(cache') /\ Acyclic(cache') /\ DOMAIN cache' = DOMAIN cache \cup {c.file}
      /\ calls' = Front(calls) /\ loading' = Front(loading) /\ registry' = {}
  BY ModuleReturnsFacts
<1>3. outcome' = IF calls' = <<>> THEN "ok" ELSE "busy"
  BY DEF ModuleReturns, Return
<1>4. IsStack(calls') /\ Len(calls') = n - 1
  BY <1>1, <1>2, PoppedStack
<1>5. calls' # <<>>
  <2>1. Len(calls') # 0
    BY <1>1, <1>4
  <2> QED  BY <1>4, <2>1, StackFacts
<1>6. CASE n = 2
  <2>1. Registering(calls', {}, cache') /\ Root \in DOMAIN cache' /\ loading' = <<>>
    BY <1>1, <1>2, <1>6, DescentEnds
  <2> QED  BY <1>2, <1>3, <1>4, <1>5, <2>1 DEF LoaderSound
<1>7. CASE n > 2
  <2>1. Descending(calls', loading', cache') /\ Root \notin DOMAIN cache'
    BY <1>1, <1>2, <1>7, DescentReturns
  <2> QED  BY <1>2, <1>3, <1>4, <1>5, <2>1 DEF LoaderSound
<1>8. n = 2 \/ n > 2
  <2> HIDE DEF n
  <2> QED  BY <1>1
<1> QED  BY <1>6, <1>7, <1>8

\* load_recursive walks the cache.
LEMMA RegisteringSound ==
  ASSUME LoaderSound, LoaderStep, Root \in DOMAIN cache
  PROVE  LoaderSound'
<1> DEFINE n == Len(calls)
           c == calls[n]
           m == cache[c.file].imports
           f == m[c.next]
<1>1. /\ calls # <<>> /\ IsStack(calls) /\ n \in Nat \ {0} /\ Top = c /\ outcome = "busy"
      /\ Programs(cache) /\ Acyclic(cache) /\ loading = <<>>
      /\ Registering(calls, registry, cache)
  BY AtWork DEF LoaderStep
<1>2. CASE TreeImports
  <2>1. c.next <= Len(m)
    BY <1>1, <1>2 DEF TreeImports
  <2>2. CASE Fail("notfound") /\ UNCHANGED loading
    BY <1>1, <2>2 DEF LoaderSound, Fail
  <2>3. CASE /\ calls' = IF f \in registry
                           THEN Advanced ELSE Append(Advanced, Frame("tree", f, Missing))
             /\ UNCHANGED <<cache, loading, registry, outcome>>
    <3>1. \/ f \in registry /\ calls' = AdvancedOf(calls)
          \/ f \notin registry /\ calls' = Append(AdvancedOf(calls), Frame("tree", f, Missing))
      BY <2>3 DEF Advanced, AdvancedOf
    <3>2. IsStack(calls') /\ calls' # <<>> /\ Registering(calls', registry, cache)
      BY <1>1, <2>1, <3>1, RegisteringImports
    <3> QED  BY <1>1, <2>3, <3>2 DEF LoaderSound
  <2> QED  BY <1>1, <1>2, <2>2, <2>3 DEF TreeImports
<1>3. CASE TreeReturns
  <2>1. c.next > Len(m)
    BY <1>1, <1>3 DEF TreeReturns
  <2>2. /\ registry' = registry \cup {c.file} /\ calls' = Front(calls)
        /\ outcome' = (IF calls' = <<>> THEN "ok" ELSE "busy")
        /\ UNCHANGED <<cache, loading>>
    BY <1>1, <1>3 DEF TreeReturns, Return
  <2>3. IsStack(calls') /\ Registering(calls', registry', cache)
    BY <1>1, <2>1, <2>2, RegisteringReturns
  <2> QED  BY <1>1, <2>2, <2>3 DEF LoaderSound
<1> QED  BY <1>2, <1>3, RegisteringMoves

\* Every step of the loader keeps what it holds sound.
LEMMA LoaderStepSound ==
  ASSUME LoaderSound, DiskTyped, LoaderStep
  PROVE  LoaderSound'
<1>1. CASE Root \notin DOMAIN cache
  <2>1. outcome = "busy"
    BY DEF LoaderStep
  <2> QED  BY <1>1, <2>1, DescentMoves, OpenSound, ModuleReturnsSound
<1> QED  BY <1>1, RegisteringSound

\* A loader that begins holds nothing but the root to load.
LEMMA NewTreeLoaderSound ==
  ASSUME NewTreeLoader(Root)
  PROVE  LoaderSound'
<1> DEFINE s == <<Frame("tree", Root, Missing)>>
<1>1. calls' = s /\ loading' = <<>> /\ registry' = {} /\ outcome' = "busy"
      /\ cache' = NoPrograms
  BY DEF NewTreeLoader
<1>2. Programs(NoPrograms) /\ Acyclic(NoPrograms) /\ DOMAIN NoPrograms = {}
  BY DEF Programs, Acyclic, NoPrograms
<1>3. IsStack(s) /\ Len(s) = 1 /\ s[1] = Frame("tree", Root, Missing) /\ s # <<>>
  <2>1. s \in Seq({s[1]}) /\ Len(s) = 1 /\ s[1] = Frame("tree", Root, Missing) /\ s # <<>>
    OBVIOUS
  <2>2. IsFrame(s[1])
    BY <2>1 DEF IsFrame, Frame
  <2> HIDE DEF s
  <2>3. s \in Seq(ToSet(s))
    BY <2>1, OwnMembers
  <2>4. \A i \in 1..Len(s) : i = 1
    BY <2>1
  <2> QED  BY <2>1, <2>2, <2>3, <2>4 DEF IsStack
<1> HIDE DEF s
<1>4. Descending(s, <<>>, NoPrograms)
  <2>1. <<>> \in Seq(Files) /\ Len(<<>>) = 0
    OBVIOUS
  <2>2. 2..Len(s) = {}
    BY <1>3
  <2> QED  BY <1>3, <2>1, <2>2 DEF Descending
<1> QED  BY <1>1, <1>2, <1>3, <1>4 DEF LoaderSound

---------------------------------------------------------------------------
\* A tree that is handed out is complete, closed and without cycles.
TreeSound(t) ==
  /\ Programs(t) /\ Acyclic(t) /\ Root \in DOMAIN t
  /\ AllReached(DOMAIN t, t)

\* The tree of a loader that is done: the root, and all that it imports.
LEMMA TreeIsWhole ==
  ASSUME LoaderSound, outcome = "ok"
  PROVE  /\ registry = Reachable(Root, cache)
         /\ TreeSound(Tree) /\ DOMAIN Tree = registry /\ registry \subseteq DOMAIN cache
         /\ \A f \in registry : Tree[f] = cache[f]
<1>1. calls = <<>> /\ Programs(cache) /\ Acyclic(cache)
  BY DEF LoaderSound
<1>2. Root \in DOMAIN cache
  BY <1>1 DEF LoaderSound, Descending
<1>3. Registering(calls, registry, cache)
  BY <1>2 DEF LoaderSound
<1>4. /\ registry \subseteq DOMAIN cache /\ Root \in registry
      /\ AllReached(registry, cache)
      /\ \A g \in registry : ToSet(cache[g].imports) \subseteq registry
  BY <1>1, <1>3 DEF Registering
<1>5. registry \in SUBSET Files /\ Closed(registry, cache)
  BY <1>1, <1>4 DEF Programs, Closed
<1>6. registry = Reachable(Root, cache)
  BY <1>4, <1>5 DEF Reachable, AllReached
<1>7. /\ Tree = [f \in registry |-> cache[f]] /\ DOMAIN Tree = registry
      /\ \A f \in registry : Tree[f] = cache[f]
  BY DEF Tree, Restrict
<1>8. Programs(Tree)
  BY <1>1, <1>4, <1>7 DEF Programs
<1>9. Acyclic(Tree)
  <2> SUFFICES ASSUME NEW S \in SUBSET registry, S # {}
               PROVE  \E g \in S : ToSet(Tree[g].imports) \cap S = {}
    BY <1>7 DEF Acyclic
  <2>1. PICK g \in S : ToSet(cache[g].imports) \cap S = {}
    BY <1>1, <1>4 DEF Acyclic
  <2> QED  BY <1>7, <2>1
<1>10. AllReached(registry, Tree)
  <2> SUFFICES ASSUME NEW T \in SUBSET Files, Root \in T, Closed(T, Tree)
               PROVE  registry \subseteq T
    BY DEF AllReached
  <2> DEFINE U == T \cap registry
  <2>1. U \in SUBSET Files /\ Root \in U
    BY <1>4
  <2>2. Closed(U, cache)
    BY <1>4, <1>7 DEF Closed
  <2>3. registry \subseteq U
    BY <1>4, <2>1, <2>2 DEF AllReached
  <2> QED  BY <2>3
<1> QED  BY <1>4, <1>6, <1>7, <1>8, <1>9, <1>10 DEF TreeSound

\* While the root is being loaded each module's frame has, as the import it is
\* at, the file of the frame above.
LEMMA ImportsNext ==
  ASSUME NEW s, IsStack(s), NEW stack, NEW progs, Descending(s, stack, progs),
         NEW i \in 2..(Len(s) - 1)
  PROVE  s[i + 1].file \in ToSet(s[i].prog.imports)
<1> DEFINE m == s[i].prog.imports
           n == Len(s)
<1>1. n \in Nat
  BY StackFacts
<1>2. i \in 2..n /\ i < n
  BY <1>1
<1>3. Parsed(s[i].prog) /\ Visited(s, i, m, DOMAIN progs)
  BY <1>2 DEF Descending
<1>4. m \in Seq(Files) /\ Len(m) \in Nat /\ ToSet(m) = {m[j] : j \in 1..Len(m)}
  BY <1>3, OwnMembers DEF Parsed
<1>5. s[i].next \in 1..(Len(m) + 1) /\ s[i].next > 1 /\ m[s[i].next - 1] = s[i + 1].file
  BY <1>2, <1>3 DEF Visited
<1>6. s[i].next - 1 \in 1..Len(m)
  BY <1>4, <1>5
<1> QED  BY <1>4, <1>5, <1>6

\* The cycle that is reported is one of the programs on the stack.
LEMMA CycleIsReal ==
  ASSUME LoaderSound, outcome = "circular"
  PROVE  LET cycle == Cycle(Reported)
         IN  \A i \in 1..(Len(cycle) - 1) :
               \E c \in ToSet(calls) :
                 /\ c.fn = "module" /\ c.file = cycle[i]
                 /\ cycle[i + 1] \in ToSet(c.prog.imports)
<1> DEFINE n == Len(calls)
           f == calls[n].prog.imports[calls[n].next]
           at == CHOOSE i \in DOMAIN loading :
                   loading[i] = f /\ \A j \in 1..(i - 1) : loading[j] # f
           tail == SubSeq(loading, at, Len(loading))
           cycle == Append(tail, f)
<1>1. /\ IsStack(calls) /\ n \in Nat /\ n > 1 /\ calls # <<>> /\ Top = calls[n]
      /\ Descending(calls, loading, cache)
      /\ Top.next <= Len(Top.prog.imports) /\ Top.prog.imports[Top.next] \in ToSet(loading)
  BY StackFacts DEF LoaderSound, Top
<1>2. \A i \in 2..n : calls[i].fn = "module" /\ calls[i].file = loading[i - 1]
                      /\ Parsed(calls[i].prog) /\ calls[i].next \in 1..(Len(calls[i].prog.imports) + 1)
  BY <1>1 DEF Descending, Visited
<1>3. \A i, j \in 2..n : calls[i].file = calls[j].file => i = j
  BY <1>1 DEF Descending
<1>4. loading \in Seq(Files) /\ Len(loading) = n - 1 /\ DOMAIN loading = 1..(n - 1)
      /\ ToSet(loading) = {loading[i] : i \in 1..(n - 1)}
  <2>1. loading \in Seq(Files) /\ Len(loading) = n - 1
    BY <1>1 DEF Descending
  <2> HIDE DEF n
  <2> QED  BY <2>1, OwnMembers
<1>5. n \in 2..n /\ Reported = f /\ f \in ToSet(loading)
  <2>1. n \in 2..n
    BY <1>1
  <2> QED  BY <1>1, <1>2, <2>1 DEF Reported
<1>6. calls[n].next \in 1..Len(calls[n].prog.imports) /\ f \in ToSet(calls[n].prog.imports)
  <2> DEFINE m == calls[n].prog.imports
  <2>1. m \in Seq(Files) /\ calls[n].next \in 1..(Len(m) + 1) /\ calls[n].next <= Len(m)
    BY <1>1, <1>2, <1>5 DEF Parsed
  <2>2. Len(m) \in Nat /\ ToSet(m) = {m[j] : j \in 1..Len(m)}
    BY <2>1, OwnMembers
  <2> HIDE DEF m
  <2>3. calls[n].next \in 1..Len(m)
    BY <2>1, <2>2
  <2>4. f = m[calls[n].next]
    BY DEF m
  <2>5. f \in ToSet(m)
    BY <2>2, <2>3, <2>4
  <2> QED  BY <2>3, <2>5 DEF m
<1>7. Cycle(Reported) = cycle
  BY <1>5 DEF Cycle
<1> HIDE DEF n, f
<1>8. at \in 1..(n - 1) /\ loading[at] = f
  <2>1. PICK k \in 1..(n - 1) : loading[k] = f
    BY <1>4, <1>5
  <2>2. ASSUME NEW j \in 1..(k - 1) PROVE loading[j] # f
    <3>1. j \in 1..(n - 1) /\ j + 1 \in 2..n /\ k + 1 \in 2..n /\ j + 1 # k + 1
      BY <1>1, <2>1
    <3>2. calls[j + 1].file = loading[j] /\ calls[k + 1].file = loading[k]
      BY <1>2, <3>1, <2>1
    <3> QED  BY <1>3, <2>1, <3>1, <3>2
  <2>3. k \in DOMAIN loading /\ loading[k] = f /\ \A j \in 1..(k - 1) : loading[j] # f
    BY <1>4, <2>1, <2>2
  <2>4. at \in DOMAIN loading /\ loading[at] = f
    BY <2>3
  <2> QED  BY <1>4, <2>4
<1> HIDE DEF at
<1>9. /\ tail \in Seq(Files) /\ Len(tail) = n - at
      /\ \A i \in 1..(n - at) : tail[i] = loading[at + i - 1]
  BY <1>1, <1>4, <1>8
<1> HIDE DEF tail
<1>10. f \in Files /\ n - at \in Nat
  BY <1>1, <1>4, <1>8
<1>11. /\ Len(cycle) = n - at + 1 /\ cycle[n - at + 1] = f
       /\ \A i \in 1..(n - at) : cycle[i] = tail[i]
  BY <1>9, <1>10
<1> HIDE DEF cycle
<1>12. ASSUME NEW i \in 1..(n - at)
       PROVE  \E c \in ToSet(calls) :
                 /\ c.fn = "module" /\ c.file = cycle[i]
                 /\ cycle[i + 1] \in ToSet(c.prog.imports)
  <2> DEFINE c == calls[at + i]
  <2>1. at + i \in 2..n /\ at + i - 1 = (at + i) - 1 /\ at + i \in 1..n
    BY <1>1, <1>8
  <2>2. c.fn = "module" /\ c.file = cycle[i]
    BY <1>2, <1>9, <1>11, <2>1
  <2>3. c \in ToSet(calls)
    BY <1>1, <2>1, StackFacts DEF n
  <2>4. CASE i = n - at
    <3>1. at + i = n /\ cycle[i + 1] = f
      BY <1>1, <1>8, <1>11, <2>4
    <3>2. f \in ToSet(c.prog.imports)
      BY <1>6, <3>1
    <3> QED  BY <2>2, <2>3, <3>1, <3>2
  <2>5. CASE i # n - at
    <3>1. i + 1 \in 1..(n - at) /\ at + i \in 2..(n - 1) /\ at + (i + 1) - 1 = at + i
          /\ at + i + 1 \in 2..n /\ (at + i + 1) - 1 = at + i
      BY <1>1, <1>8, <2>5
    <3>2. cycle[i + 1] = loading[at + i] /\ calls[at + i + 1].file = loading[at + i]
      BY <1>2, <1>9, <1>11, <3>1
    <3>3. calls[at + i + 1].file \in ToSet(c.prog.imports)
      BY <1>1, <3>1, ImportsNext DEF n
    <3> QED  BY <2>2, <2>3, <3>2, <3>3
  <2> QED  BY <2>4, <2>5
<1>13. Len(cycle) - 1 = n - at
  BY <1>10, <1>11
<1> QED  BY <1>7, <1>12, <1>13

\* No file on the stack imports one below it when all of them are in a tree
\* without cycles.
LEMMA NoCycleIn ==
  ASSUME NEW t, Programs(t), Acyclic(t),
         NEW s, IsStack(s), NEW stack, NEW progs, Descending(s, stack, progs), Len(s) > 1,
         \A i \in 2..Len(s) : s[i].file \in DOMAIN t /\ s[i].prog = t[s[i].file],
         NEW f \in ToSet(s[Len(s)].prog.imports)
  PROVE  f \notin ToSet(stack)
<1> DEFINE n == Len(s)
<1> SUFFICES ASSUME f \in ToSet(stack) PROVE FALSE
  OBVIOUS
<1>1. n \in Nat /\ n > 1 /\ n = Len(s)
  BY StackFacts
<1>2. stack \in Seq(Files) /\ Len(stack) = n - 1 /\ ToSet(stack) = {stack[i] : i \in 1..(n - 1)}
  BY OwnMembers DEF Descending
<1>3. \A i \in 2..n : s[i].file = stack[i - 1] /\ s[i].file \in DOMAIN t /\ s[i].prog = t[s[i].file]
  BY DEF Descending
<1> HIDE DEF n
<1>4. PICK k \in 1..(n - 1) : stack[k] = f
  BY <1>2
<1> DEFINE S == {s[i].file : i \in (k + 1)..n}
<1>5. \A i \in (k + 1)..n : i \in 2..n
  BY <1>1, <1>4
<1>6. S \in SUBSET DOMAIN t
  BY <1>3, <1>5
<1>7. f \in S
  <2>1. k + 1 \in (k + 1)..n /\ k + 1 \in 2..n /\ (k + 1) - 1 = k
    BY <1>1, <1>4
  <2>2. s[k + 1].file = f
    BY <1>3, <1>4, <2>1
  <2> QED  BY <2>1, <2>2
<1>8. PICK g \in S : ToSet(t[g].imports) \cap S = {}
  BY <1>6, <1>7 DEF Acyclic
<1>9. PICK i \in (k + 1)..n : g = s[i].file
  BY <1>8
<1>10. t[g].imports = s[i].prog.imports
  BY <1>3, <1>5, <1>9
<1>11. CASE i = n
  BY <1>1, <1>7, <1>8, <1>10, <1>11
<1>12. CASE i # n
  <2>1. i \in 2..(n - 1) /\ i + 1 \in (k + 1)..n
    BY <1>1, <1>4, <1>9, <1>12
  <2>2. s[i + 1].file \in ToSet(s[i].prog.imports)
    BY <1>1, <2>1, ImportsNext
  <2> QED  BY <1>8, <1>10, <2>1, <2>2
<1> QED  BY <1>11, <1>12

---------------------------------------------------------------------------
\* d is a frame of s, at whatever import.
From(s, d) ==
  \E c \in ToSet(s) : c.fn = d.fn /\ c.file = d.file /\ c.prog = d.prog

\* The frames of a changed stack are of the old ones, or the one pushed.
LEMMA FrameOrigins ==
  ASSUME NEW s, IsStack(s)
  PROVE  /\ \A d \in ToSet(s) : From(s, d)
         /\ s # <<>> => \A d \in ToSet(AdvancedOf(s)) : From(s, d)
         /\ s # <<>> => \A d \in ToSet(Front(s)) : From(s, d)
         /\ \A c : IsFrame(c) => \A d \in ToSet(Append(s, c)) : d \in ToSet(s) \/ d = c
<1>1. /\ Len(s) \in Nat /\ ToSet(s) = {s[i] : i \in 1..Len(s)}
      /\ s # <<>> => Len(s) # 0
  BY StackFacts
<1>2. \A d \in ToSet(s) : From(s, d)
  BY DEF From
<1>3. ASSUME s # <<>>, NEW d \in ToSet(AdvancedOf(s)) PROVE From(s, d)
  <2>1. IsStack(AdvancedOf(s)) /\ Len(AdvancedOf(s)) = Len(s)
    BY <1>3, AdvancedStack
  <2>2. PICK i \in 1..Len(s) : d = AdvancedOf(s)[i]
    BY <1>3, <2>1, StackFacts
  <2>3. s[i] \in ToSet(s)
    BY <1>1
  <2>4. CASE i = Len(s)
    <3>1. d = [fn |-> s[i].fn, file |-> s[i].file, prog |-> s[i].prog, next |-> s[i].next + 1]
      BY <1>3, <2>2, <2>4, AdvancedStack
    <3> QED  BY <2>3, <3>1 DEF From
  <2>5. CASE i # Len(s)
    <3>1. i \in 1..(Len(s) - 1)
      BY <1>1, <2>5
    <3>2. d = s[i]
      BY <1>3, <2>2, <3>1, AdvancedStack
    <3> QED  BY <2>3, <3>2 DEF From
  <2> QED  BY <2>4, <2>5
<1>4. ASSUME s # <<>>, NEW d \in ToSet(Front(s)) PROVE From(s, d)
  <2>1. IsStack(Front(s)) /\ Len(Front(s)) = Len(s) - 1
    BY <1>4, PoppedStack
  <2>2. PICK i \in 1..(Len(s) - 1) : d = Front(s)[i]
    BY <1>4, <2>1, StackFacts
  <2>3. d = s[i] /\ i \in 1..Len(s)
    BY <1>1, <1>4, <2>2, PoppedStack
  <2> QED  BY <1>1, <2>3 DEF From
<1>5. ASSUME NEW c, IsFrame(c), NEW d \in ToSet(Append(s, c)) PROVE d \in ToSet(s) \/ d = c
  <2>1. /\ IsStack(Append(s, c)) /\ Len(Append(s, c)) = Len(s) + 1
        /\ Append(s, c)[Len(s) + 1] = c
        /\ \A i \in 1..Len(s) : Append(s, c)[i] = s[i]
    BY <1>5, PushedStack
  <2>2. PICK i \in 1..(Len(s) + 1) : d = Append(s, c)[i]
    <3> DEFINE u == Append(s, c)
    <3>1. IsStack(u) /\ d \in ToSet(u) /\ Len(u) = Len(s) + 1
      BY <1>5, <2>1
    <3> HIDE DEF u
    <3>2. ToSet(u) = {u[j] : j \in 1..Len(u)}
      BY <3>1, StackFacts
    <3>3. PICK i \in 1..Len(u) : d = u[i]
      BY <3>1, <3>2
    <3> QED  BY <3>1, <3>3 DEF u
  <2>3. i = Len(s) + 1 \/ i \in 1..Len(s)
    BY <1>1
  <2> QED  BY <1>1, <2>1, <2>2, <2>3
<1> QED  BY <1>2, <1>3, <1>4, <1>5

\* d is on the stack, or has just been read for the root or for an import of a
\* program on the stack.
JustRead(d) ==
  /\ d.prog = disk[d.file]
  /\ d.file = Root
       \/ \E c \in ToSet(calls) : c.fn = "module" /\ d.file \in ToSet(c.prog.imports)

\* A program gets into the cache from the stack, and on the stack from the disk.
LEMMA WhatIsLoaded ==
  ASSUME LoaderSound, LoaderStep
  PROVE  /\ \A f \in DOMAIN cache' :
              \/ f \in DOMAIN cache /\ cache'[f] = cache[f]
              \/ \E c \in ToSet(calls) : c.fn = "module" /\ f = c.file /\ cache'[f] = c.prog
         /\ \A d \in ToSet(calls') : d.fn = "module" => From(calls, d) \/ JustRead(d)
<1> DEFINE n == Len(calls)
           c == calls[n]
<1>1. /\ calls # <<>> /\ IsStack(calls) /\ n \in Nat \ {0} /\ Top = c /\ n \in 1..n
  BY AtWork DEF LoaderStep
<1>2. c \in ToSet(calls) /\ IsStack(AdvancedOf(calls)) /\ Advanced = AdvancedOf(calls)
  <2>1. c \in ToSet(calls)
    BY <1>1, StackFacts
  <2>2. IsStack(AdvancedOf(calls))
    BY <1>1, AdvancedStack
  <2>3. Advanced = AdvancedOf(calls)
    BY DEF Advanced, AdvancedOf
  <2> QED  BY <2>1, <2>2, <2>3
<1>3. ASSUME UNCHANGED <<cache, calls>>
      PROVE  /\ \A f \in DOMAIN cache' : f \in DOMAIN cache /\ cache'[f] = cache[f]
             /\ \A d \in ToSet(calls') : d.fn = "module" => From(calls, d)
  BY <1>1, <1>3, FrameOrigins
<1>4. ASSUME NEW f \in Files, NEW stack, Opening(f, stack), OpenModule(f, stack),
             Root \notin DOMAIN cache
      PROVE  /\ cache' = cache
             /\ \A d \in ToSet(calls') : d.fn = "module" => From(calls, d) \/ JustRead(d)
  <2>1. cache' = cache /\ (calls' = calls \/ calls' = stack
                           \/ calls' = Append(stack, Frame("module", f, disk[f])))
    BY <1>4 DEF OpenModule, Fail, Return
  <2>2. IsStack(stack) /\ \A d \in ToSet(stack) : From(calls, d)
    BY <1>1, <1>2, <1>4, FrameOrigins DEF Opening
  <2>3. f = Root \/ \E e \in ToSet(calls) : e.fn = "module" /\ f \in ToSet(e.prog.imports)
    <3>1. CASE n > 1 /\ c.next <= Len(c.prog.imports) /\ f = c.prog.imports[c.next]
      <4> DEFINE m == c.prog.imports
      <4>1. n \in 2..n /\ Descending(calls, loading, cache)
        BY <1>1, <1>4, <3>1, AtWork DEF LoaderStep
      <4>2. c.fn = "module" /\ m \in Seq(Files) /\ c.next \in 1..(Len(m) + 1)
        BY <4>1 DEF Descending, Visited, Parsed
      <4>3. ToSet(m) = {m[j] : j \in 1..Len(m)} /\ Len(m) \in Nat
        BY <4>2, OwnMembers
      <4>4. c.next <= Len(m) /\ f = m[c.next]
        BY <3>1
      <4> HIDE DEF m
      <4>5. c.next \in 1..Len(m)
        BY <4>2, <4>3, <4>4
      <4>6. f \in ToSet(m)
        BY <4>3, <4>4, <4>5
      <4> QED  BY <1>2, <4>2, <4>6 DEF m
    <3> QED  BY <1>4, <3>1 DEF Opening
  <2>4. CASE calls' = calls \/ calls' = stack
    BY <1>1, <2>1, <2>2, <2>4, FrameOrigins
  <2>5. CASE calls' = Append(stack, Frame("module", f, disk[f]))
    <3> DEFINE e == Frame("module", f, disk[f])
    <3>1. IsFrame(e) /\ e.prog = disk[e.file] /\ e.file = f
      BY DEF IsFrame, Frame
    <3>2. JustRead(e)
      BY <2>3, <3>1 DEF JustRead
    <3> HIDE DEF e
    <3>3. \A d \in ToSet(Append(stack, e)) : d \in ToSet(stack) \/ d = e
      BY <2>2, <3>1, FrameOrigins
    <3>4. calls' = Append(stack, e)
      BY <2>5 DEF e
    <3> QED  BY <2>1, <2>2, <3>2, <3>3, <3>4
  <2> QED  BY <2>1, <2>4, <2>5
<1>5. CASE Root \notin DOMAIN cache /\ ModuleReturns /\ n > 1
  <2>1. /\ c.fn = "module" /\ DOMAIN cache' = DOMAIN cache \cup {c.file}
        /\ cache'[c.file] = c.prog /\ \A g \in DOMAIN cache : cache'[g] = cache[g]
        /\ calls' = Front(calls)
    BY <1>5, ModuleReturnsFacts
  <2> QED  BY <1>1, <1>2, <2>1, FrameOrigins
<1>6. CASE TreeImports
  <2> DEFINE f == cache[c.file].imports[c.next]
             e == Frame("tree", f, Missing)
  <2>1. cache' = cache /\ (calls' = calls \/ calls' = Advanced \/ calls' = Append(Advanced, e))
    BY <1>1, <1>6 DEF TreeImports, Fail
  <2>2. IsFrame(e) /\ e.fn # "module"
    BY DEF IsFrame, Frame
  <2> HIDE DEF e
  <2>3. \A d \in ToSet(Append(Advanced, e)) : d \in ToSet(Advanced) \/ d = e
    BY <1>2, <2>2, FrameOrigins
  <2> QED  BY <1>1, <1>2, <2>1, <2>2, <2>3, FrameOrigins
<1>7. CASE TreeReturns
  <2>1. cache' = cache /\ calls' = Front(calls)
    BY <1>7 DEF TreeReturns, Return
  <2> QED  BY <1>1, <2>1, FrameOrigins
<1> QED
  <2>1. CASE Root \notin DOMAIN cache
    BY <1>4, <1>5, <2>1, DescentMoves
  <2>2. CASE Root \in DOMAIN cache
    BY <1>6, <1>7, <2>2, RegisteringMoves
  <2> QED  BY <2>1, <2>2

---------------------------------------------------------------------------
(***************************************************************************)
(* The rounds of the server.                                               *)
(***************************************************************************)
\* The phases in which the loader walks a tree, and those in which a build is
\* under way or served.
Walking == phase \in {"tree", "link"}
Served == phase \in {"configs", "config", "watch", "link", "select"}
InRound == phase = "tree" \/ Served

Counted == inflight \in Nat /\ queued \in Nat /\ reloads \in Nat

\* An event is on its way, and what an edit of f leaves of itself.
OnItsWay == inflight + queued > 0
Noticed(f) == f \in missed \/ OnItsWay
Unnoticed == missed = {} /\ ~OnItsWay

\* Each reading of the build agrees with the disk, but for noticed edits.
RootAgrees == InRound => disk[Root] = program \/ Noticed(Root)

CacheAgrees ==
  phase = "tree" =>
    /\ \A f \in DOMAIN cache : disk[f] = cache[f] \/ Noticed(f)
    /\ \A c \in ToSet(calls) :
         c.fn = "module" => disk[c.file] = c.prog \/ Noticed(c.file)

TreeAgrees ==
  Served => \A f \in DOMAIN tree : disk[f] = tree[f] \/ Noticed(f)

\* From the select on everything that is served is watched.
TreeWatched ==
  phase \in {"link", "select"} => \A f \in DOMAIN tree : f \in watched \/ Noticed(f)

DirWatched ==
  /\ reloads > 0 \/ phase \in {"link", "select", "debounce", "closing"} =>
       {Root} \cup EnvDir \subseteq watched
  /\ reloads > 0 /\ InRound => missed \cap ({Root} \cup EnvDir) = {}

\* The router finds what from_program has found, unless something was edited.
RouterAgrees ==
  phase = "link" /\ Unnoticed =>
    /\ \A f \in DOMAIN cache : f \in DOMAIN tree /\ cache[f] = tree[f]
    /\ \A c \in ToSet(calls) :
         c.fn = "module" => c.file \in DOMAIN tree /\ c.prog = tree[c.file]
    /\ outcome \in {"busy", "ok"}

LinkAgrees == phase = "select" /\ started => linked = tree \/ ~Unnoticed

RoundInv ==
  /\ DiskTyped /\ Counted
  /\ Walking => LoaderSound
  /\ Served => TreeSound(tree)
  /\ RootAgrees /\ CacheAgrees /\ TreeAgrees
  /\ TreeWatched /\ DirWatched /\ RouterAgrees /\ LinkAgrees

\* Before the first reading there is nothing to agree with.
LEMMA InitRoundInv == Init => RoundInv
BY DevServerAssumption
DEF DevServerAssumption, Init, RoundInv, DiskTyped, Parsed, Counted, Walking, Served, InRound,
    RootAgrees, CacheAgrees, TreeAgrees, TreeWatched, DirWatched, RouterAgrees, LinkAgrees

\* With all that has been read noticed or on the disk, the router's loader
\* meets what the tree has.
LEMMA RouterLoads ==
  ASSUME RoundInv, phase = "link", Unnoticed, LoaderStep
  PROVE  /\ \A f \in DOMAIN cache' : f \in DOMAIN tree /\ cache'[f] = tree[f]
         /\ \A c \in ToSet(calls') :
              c.fn = "module" => c.file \in DOMAIN tree /\ c.prog = tree[c.file]
         /\ outcome' \in {"busy", "ok"}
<1> DEFINE n == Len(calls)
           c == calls[n]
<1>1. /\ LoaderSound /\ DiskTyped /\ TreeSound(tree)
      /\ \A f \in DOMAIN tree : disk[f] = tree[f]
      /\ \A f \in DOMAIN cache : f \in DOMAIN tree /\ cache[f] = tree[f]
      /\ \A e \in ToSet(calls) :
           e.fn = "module" => e.file \in DOMAIN tree /\ e.prog = tree[e.file]
  BY DEF RoundInv, Walking, Served, TreeAgrees, RouterAgrees, Noticed, Unnoticed
<1>2. /\ Programs(tree) /\ Acyclic(tree) /\ Root \in DOMAIN tree
      /\ \A f \in DOMAIN tree : ToSet(tree[f].imports) \subseteq DOMAIN tree
      /\ \A f \in DOMAIN tree : disk[f] \notin {Missing, Bad}
  BY <1>1 DEF TreeSound, Programs, Parsed, IsProgram
<1>3. \A f \in DOMAIN cache' : f \in DOMAIN tree /\ cache'[f] = tree[f]
  BY <1>1, WhatIsLoaded
<1>4. \A d \in ToSet(calls') :
        d.fn = "module" => d.file \in DOMAIN tree /\ d.prog = tree[d.file]
  <2> SUFFICES ASSUME NEW d \in ToSet(calls'), d.fn = "module"
               PROVE  d.file \in DOMAIN tree /\ d.prog = tree[d.file]
    OBVIOUS
  <2>1. From(calls, d) \/ JustRead(d)
    BY <1>1, WhatIsLoaded
  <2>2. CASE From(calls, d)
    BY <1>1, <2>2 DEF From
  <2>3. CASE JustRead(d)
    BY <1>1, <1>2, <2>3 DEF JustRead
  <2> QED  BY <2>1, <2>2, <2>3
<1>5. outcome' \in {"busy", "ok"}
  <2>1. /\ IsStack(calls) /\ n \in Nat \ {0} /\ Top = c /\ outcome = "busy"
        /\ Root \in DOMAIN cache => Registering(calls, registry, cache)
        /\ Root \notin DOMAIN cache => Descending(calls, loading, cache)
    BY <1>1, AtWork DEF LoaderStep
  <2>2. ASSUME NEW f \in Files, NEW stack, Opening(f, stack), OpenModule(f, stack),
               Root \notin DOMAIN cache
        PROVE  outcome' \in {"busy", "ok"}
    <3>1. f \in DOMAIN tree /\ f \notin ToSet(loading)
      <4>1. CASE n = 1 /\ f = Root
        <5>1. loading = <<>>
          BY <2>1, <2>2, <4>1 DEF Descending
        <5> QED  BY <1>2, <4>1, <5>1 DEF ToSet
      <4>2. CASE n > 1 /\ c.next <= Len(c.prog.imports) /\ f = c.prog.imports[c.next]
        <5> DEFINE m == c.prog.imports
        <5>1. n \in 2..n /\ Descending(calls, loading, cache)
          BY <2>1, <2>2, <4>2
        <5>2. /\ \A i \in 2..n : calls[i].fn = "module"
              /\ m \in Seq(Files) /\ c.next \in 1..(Len(m) + 1)
          BY <5>1 DEF Descending, Visited, Parsed
        <5>3. \A i \in 2..n : calls[i] \in ToSet(calls)
          BY <2>1, StackFacts
        <5>4. \A i \in 2..n : calls[i].file \in DOMAIN tree /\ calls[i].prog = tree[calls[i].file]
          BY <1>1, <5>2, <5>3
        <5>5. f \in ToSet(m)
          <6>1. ToSet(m) = {m[j] : j \in 1..Len(m)} /\ Len(m) \in Nat
            BY <5>2, OwnMembers
          <6>2. c.next <= Len(m) /\ f = m[c.next]
            BY <4>2
          <6> HIDE DEF m
          <6>3. c.next \in 1..Len(m)
            BY <5>2, <6>1, <6>2
          <6> QED  BY <6>1, <6>2, <6>3
        <5>6. f \notin ToSet(loading)
          BY <1>2, <2>1, <4>2, <5>1, <5>4, <5>5, NoCycleIn
        <5>7. f \in DOMAIN tree
          BY <1>2, <5>1, <5>4, <5>5
        <5> QED  BY <5>6, <5>7
      <4> QED  BY <2>2, <4>1, <4>2 DEF Opening
    <3>2. disk[f] # Missing /\ disk[f] # Bad
      BY <1>2, <3>1
    <3> QED  BY <2>2, <3>1, <3>2 DEF OpenModule, Return
  <2>3. CASE ModuleReturns \/ TreeReturns
    BY <2>3 DEF ModuleReturns, TreeReturns, Return
  <2>4. CASE TreeImports /\ Root \in DOMAIN cache
    <3> DEFINE m == cache[c.file].imports
               f == m[c.next]
    <3>1. n \in 1..n /\ c.file \in DOMAIN cache /\ c.next \in 1..(Len(m) + 1) /\ c.next <= Len(m)
      <4>1. n \in 1..n /\ Registering(calls, registry, cache)
        BY <2>1, <2>4
      <4>2. c.file \in DOMAIN cache /\ Visited(calls, n, m, registry)
        BY <4>1 DEF Registering
      <4>3. c.next <= Len(m)
        BY <2>1, <2>4 DEF TreeImports
      <4> QED  BY <4>1, <4>2, <4>3 DEF Visited
    <3>2. m = tree[c.file].imports /\ c.file \in DOMAIN tree /\ m \in Seq(Files)
      BY <1>1, <1>2, <3>1 DEF Programs, Parsed
    <3>3. ToSet(m) = {m[j] : j \in 1..Len(m)} /\ Len(m) \in Nat
      BY <3>2, OwnMembers
    <3>4. f \in ToSet(m)
      <4> HIDE DEF m
      <4>1. c.next \in 1..Len(m)
        BY <3>1, <3>3
      <4> QED  BY <3>3, <4>1
    <3>5. f \in DOMAIN tree
      BY <1>2, <3>2, <3>4
    <3>6. disk[f] # Missing
      BY <1>2, <3>5
    <3> QED  BY <2>1, <2>4, <3>6 DEF TreeImports
  <2> QED  BY <1>1, <2>2, <2>3, <2>4, DescentMoves, RegisteringMoves
<1> QED  BY <1>3, <1>4, <1>5

\* A step of the loader.
LEMMA LoadRoundInv == ASSUME RoundInv, Load PROVE RoundInv'
<1>1. /\ phase \in {"tree", "config", "link"} /\ LoaderStep
      /\ UNCHANGED <<disk, phase, program, tree, linked, watched, inflight, queued,
                     started, reloads, missed>>
  BY DEF Load, build, notices, server, history
<1>2. /\ DiskTyped' /\ Counted' /\ (Served => TreeSound(tree))'
      /\ RootAgrees' /\ TreeAgrees' /\ TreeWatched' /\ DirWatched' /\ LinkAgrees'
  BY <1>1 DEF RoundInv, DiskTyped, Counted, Served, InRound, Noticed, Unnoticed, OnItsWay,
              RootAgrees, TreeAgrees, TreeWatched, DirWatched, LinkAgrees
<1>3. (Walking => LoaderSound)'
  BY <1>1, LoaderStepSound DEF RoundInv, Walking
<1>4. CacheAgrees'
  <2> SUFFICES ASSUME phase = "tree" PROVE CacheAgrees'
    BY <1>1 DEF CacheAgrees
  <2>1. LoaderSound /\ CacheAgrees
    BY DEF RoundInv, Walking
  <2>2. \A f : Noticed(f)' <=> Noticed(f)
    BY <1>1 DEF Noticed, OnItsWay
  <2>3. \A c \in ToSet(calls) : c.fn = "module" => disk[c.file] = c.prog \/ Noticed(c.file)
    BY <2>1 DEF CacheAgrees
  <2>4. ASSUME NEW f \in DOMAIN cache' PROVE disk'[f] = cache'[f] \/ Noticed(f)'
    BY <1>1, <2>1, <2>2, <2>3, WhatIsLoaded DEF CacheAgrees
  <2>5. ASSUME NEW d \in ToSet(calls'), d.fn = "module"
        PROVE  disk'[d.file] = d.prog \/ Noticed(d.file)'
    <3>1. From(calls, d) \/ JustRead(d)
      BY <1>1, <2>1, <2>5, WhatIsLoaded
    <3> QED  BY <1>1, <2>2, <2>3, <2>5, <3>1 DEF From, JustRead
  <2> QED  BY <2>4, <2>5 DEF CacheAgrees
<1>5. RouterAgrees'
  <2> SUFFICES ASSUME phase = "link", Unnoticed PROVE RouterAgrees'
    BY <1>1 DEF RouterAgrees, Unnoticed, OnItsWay
  <2> QED  BY <1>1, RouterLoads DEF RouterAgrees
<1> QED  BY <1>2, <1>3, <1>4, <1>5 DEF RoundInv

\* Reading the main file begins a round.
LEMMA ReadMainRoundInv == ASSUME RoundInv, ReadMain PROVE RoundInv'
<1>1. /\ phase = "read" /\ missed' = {}
      /\ UNCHANGED <<disk, tree, linked, watched, inflight, queued, started, reloads>>
  BY DEF ReadMain, notices, server
<1>2. \/ program' = disk[Root] /\ phase' = "tree" /\ NewTreeLoader(Root)
      \/ phase' = "exited"
  BY DEF ReadMain
<1>3. DiskTyped' /\ Counted' /\ (Served => TreeSound(tree))' /\ TreeAgrees' /\ TreeWatched'
      /\ RouterAgrees' /\ LinkAgrees'
  BY <1>1, <1>2 DEF RoundInv, DiskTyped, Counted, Served, TreeAgrees, TreeWatched, RouterAgrees,
                    LinkAgrees
<1>4. (Walking => LoaderSound)'
  BY <1>2, NewTreeLoaderSound DEF Walking
<1>5. RootAgrees' /\ DirWatched'
  BY <1>1, <1>2 DEF RoundInv, RootAgrees, DirWatched, InRound, Served
<1>6. CacheAgrees'
  <2>1. CASE phase' = "tree" /\ NewTreeLoader(Root)
    <3>1. cache' = NoPrograms /\ DOMAIN NoPrograms = {}
      BY <2>1 DEF NewTreeLoader, NoPrograms
    <3>2. \A c \in ToSet(calls') : c.fn = "tree"
      BY <2>1 DEF NewTreeLoader, Frame, ToSet
    <3> QED  BY <3>1, <3>2 DEF CacheAgrees
  <2> QED  BY <1>2, <2>1 DEF CacheAgrees
<1> QED  BY <1>3, <1>4, <1>5, <1>6 DEF RoundInv

\* What from_program keeps of the loader is a whole tree that agrees with the
\* files as far as the cache did.
LEMMA TreeLoadedRoundInv == ASSUME RoundInv, TreeLoaded PROVE RoundInv'
<1>1. /\ phase = "tree" /\ outcome # "busy"
      /\ UNCHANGED <<disk, program, linked, watched, inflight, queued, started, reloads, missed>>
  BY DEF TreeLoaded, notices, server, history
<1>2. \/ outcome = "ok" /\ tree' = Tree /\ phase' = "configs"
      \/ phase' = "exited"
  BY DEF TreeLoaded
<1>3. \A f : Noticed(f)' <=> Noticed(f)
  BY <1>1 DEF Noticed, OnItsWay
<1>4. LoaderSound
  BY <1>1 DEF RoundInv, Walking
<1>5. DiskTyped' /\ Counted' /\ (Walking => LoaderSound)' /\ CacheAgrees' /\ TreeWatched'
      /\ RouterAgrees' /\ LinkAgrees'
  BY <1>1, <1>2 DEF RoundInv, DiskTyped, Counted, Walking, CacheAgrees, TreeWatched, RouterAgrees,
                    LinkAgrees
<1>6. RootAgrees' /\ DirWatched'
  BY <1>1, <1>2, <1>3 DEF RoundInv, RootAgrees, DirWatched, InRound, Served
<1>7. CASE outcome = "ok" /\ tree' = Tree /\ phase' = "configs"
  <2>1. TreeSound(tree')
    BY <1>4, <1>7, TreeIsWhole
  <2>2. \A f \in DOMAIN tree' : f \in DOMAIN cache /\ tree'[f] = cache[f]
    BY <1>4, <1>7, TreeIsWhole
  <2>3. TreeAgrees'
    BY <1>1, <1>3, <2>2 DEF RoundInv, CacheAgrees, TreeAgrees
  <2> QED  BY <1>5, <1>6, <2>1, <2>3 DEF RoundInv
<1>8. CASE phase' = "exited"
  BY <1>5, <1>6, <1>8 DEF RoundInv, Served, TreeAgrees
<1> QED  BY <1>2, <1>7, <1>8

\* Reading the configuration of the imports leaves the tree alone.
LEMMA ConfigRoundInv ==
  ASSUME RoundInv, ConfigSkipped \/ ConfigOpened \/ ConfigLoaded \/ ContextBuilt
  PROVE  RoundInv'
<1>1. /\ phase \in {"configs", "config"} /\ phase' \in {"configs", "config", "watch", "exited"}
      /\ UNCHANGED <<disk, program, tree, linked, watched, inflight, queued, started, reloads,
                     missed>>
  BY DEF ConfigSkipped, ConfigOpened, ConfigLoaded, ContextBuilt, build, notices, server, history
<1> QED
  BY <1>1 DEF RoundInv, DiskTyped, Counted, Walking, Served, InRound, Noticed, Unnoticed, OnItsWay,
              RootAgrees, CacheAgrees, TreeAgrees, TreeWatched, DirWatched, RouterAgrees, LinkAgrees

\* What is served is watched from now on, unless it has just been removed.
LEMMA WatchRoundInv == ASSUME RoundInv, Watch PROVE RoundInv'
<1>1. /\ phase = "watch" /\ started' = FALSE
      /\ UNCHANGED <<disk, program, tree, linked, inflight, queued, reloads, missed>>
  BY DEF Watch, build, notices, history
<1>2. \/ phase' = "exited" /\ watched' = watched
      \/ /\ phase' = "select"
         /\ watched' = {Root} \cup EnvDir \cup {f \in DOMAIN tree : disk[f] # Missing}
  BY DEF Watch
<1>3. \A f : Noticed(f)' <=> Noticed(f)
  BY <1>1 DEF Noticed, OnItsWay
<1>4. TreeSound(tree) /\ \A f \in DOMAIN tree : disk[f] = tree[f] \/ Noticed(f)
  BY <1>1 DEF RoundInv, Served, TreeAgrees
<1>5. TreeWatched'
  <2> SUFFICES ASSUME phase' = "select", NEW f \in DOMAIN tree PROVE f \in watched' \/ Noticed(f)
    BY <1>1, <1>2, <1>3 DEF TreeWatched
  <2>1. tree[f] # Missing
    BY <1>4 DEF TreeSound, Programs, Parsed, IsProgram
  <2> QED  BY <1>2, <1>4, <2>1
<1>6. DiskTyped' /\ Counted' /\ (Walking => LoaderSound)' /\ (Served => TreeSound(tree))'
      /\ CacheAgrees' /\ RouterAgrees' /\ LinkAgrees'
  BY <1>1, <1>2, <1>4 DEF RoundInv, DiskTyped, Counted, Walking, CacheAgrees, RouterAgrees, LinkAgrees
<1>7. RootAgrees' /\ TreeAgrees'
  BY <1>1, <1>2, <1>3, <1>4 DEF RoundInv, RootAgrees, TreeAgrees, InRound, Served
<1>8. DirWatched'
  BY <1>1, <1>2 DEF RoundInv, DirWatched, InRound, Served
<1> QED  BY <1>5, <1>6, <1>7, <1>8 DEF RoundInv

\* The router starts a walk of its own.
LEMMA BindRoundInv == ASSUME RoundInv, Bind PROVE RoundInv'
<1>1. /\ phase = "select" /\ UNCHANGED <<disk, program, tree, linked, watched, inflight, queued,
                                         started, reloads, missed>>
      /\ (phase' = "link" /\ NewTreeLoader(Root)) \/ phase' = "exited"
  BY DEF Bind, build, notices, server, history
<1>2. \A f : Noticed(f)' <=> Noticed(f)
  BY <1>1 DEF Noticed, OnItsWay
<1>3. (Walking => LoaderSound)'
  BY <1>1, NewTreeLoaderSound DEF Walking
<1>4. RouterAgrees'
  <2>1. CASE NewTreeLoader(Root)
    <3>1. cache' = NoPrograms /\ DOMAIN NoPrograms = {} /\ outcome' = "busy"
      BY <2>1 DEF NewTreeLoader, NoPrograms
    <3>2. \A c \in ToSet(calls') : c.fn = "tree"
      BY <2>1 DEF NewTreeLoader, Frame, ToSet
    <3> QED  BY <3>1, <3>2 DEF RouterAgrees
  <2>2. CASE phase' = "exited"
    BY <2>2 DEF RouterAgrees
  <2> QED  BY <1>1, <2>1, <2>2
<1>5. DiskTyped' /\ Counted' /\ (Served => TreeSound(tree))' /\ CacheAgrees' /\ LinkAgrees'
  BY <1>1 DEF RoundInv, DiskTyped, Counted, Served, CacheAgrees, LinkAgrees
<1>6. RootAgrees' /\ TreeAgrees' /\ TreeWatched'
  BY <1>1, <1>2 DEF RoundInv, RootAgrees, TreeAgrees, TreeWatched, InRound, Served
<1>7. DirWatched'
  BY <1>1 DEF RoundInv, DirWatched, InRound, Served
<1> QED  BY <1>3, <1>4, <1>5, <1>6, <1>7 DEF RoundInv

\* Two trees of the root are one when the second has nothing but what the first
\* has: each reaches all of itself.
LEMMA SameTree ==
  ASSUME NEW t, TreeSound(t), NEW u, TreeSound(u),
         \A f \in DOMAIN u : f \in DOMAIN t /\ u[f] = t[f]
  PROVE  u = t
<1>1. /\ Root \in DOMAIN u /\ DOMAIN u \in SUBSET Files
      /\ \A f \in DOMAIN u : ToSet(u[f].imports) \subseteq DOMAIN u
  BY DEF TreeSound, Programs
<1>2. Closed(DOMAIN u, t)
  BY <1>1 DEF Closed
<1>3. DOMAIN t \subseteq DOMAIN u
  BY <1>1, <1>2 DEF TreeSound, AllReached
<1>4. t = [f \in DOMAIN t |-> t[f]] /\ u = [f \in DOMAIN u |-> u[f]]
  BY DEF TreeSound, Programs
<1>5. DOMAIN t = DOMAIN u /\ \A f \in DOMAIN t : t[f] = u[f]
  BY <1>3
<1> QED  BY <1>4, <1>5

\* What the router has loaded is the tree, or something was noticed.
LEMMA LinkedRoundInv == ASSUME RoundInv, Linked PROVE RoundInv'
<1>1. /\ phase = "link" /\ outcome # "busy" /\ phase' = "select"
      /\ linked' = (IF outcome = "ok" THEN Tree ELSE None)
      /\ UNCHANGED <<disk, program, tree, watched, inflight, queued, reloads, missed>>
  BY DEF Linked, notices, history
<1>2. /\ \A f : Noticed(f)' <=> Noticed(f)
      /\ Unnoticed' <=> Unnoticed
  BY <1>1 DEF Noticed, Unnoticed, OnItsWay
<1>3. LoaderSound /\ TreeSound(tree)
  BY <1>1 DEF RoundInv, Walking, Served
<1>4. LinkAgrees'
  <2> SUFFICES ASSUME Unnoticed PROVE linked' = tree
    BY <1>1, <1>2 DEF LinkAgrees
  <2>1. outcome = "ok" /\ \A f \in DOMAIN cache : f \in DOMAIN tree /\ cache[f] = tree[f]
    BY <1>1 DEF RoundInv, RouterAgrees
  <2>2. TreeSound(Tree) /\ \A f \in DOMAIN Tree : f \in DOMAIN tree /\ Tree[f] = tree[f]
    BY <1>3, <2>1, TreeIsWhole
  <2>3. Tree = tree
    BY <1>3, <2>2, SameTree
  <2> QED  BY <1>1, <2>1, <2>3
<1>5. DiskTyped' /\ Counted' /\ (Walking => LoaderSound)' /\ (Served => TreeSound(tree))'
      /\ CacheAgrees' /\ RouterAgrees'
  BY <1>1, <1>3 DEF RoundInv, DiskTyped, Counted, Walking, CacheAgrees, RouterAgrees
<1>6. RootAgrees' /\ TreeAgrees' /\ TreeWatched'
  BY <1>1, <1>2 DEF RoundInv, RootAgrees, TreeAgrees, TreeWatched, InRound, Served
<1>7. DirWatched'
  BY <1>1 DEF RoundInv, DirWatched, InRound, Served
<1> QED  BY <1>4, <1>5, <1>6, <1>7 DEF RoundInv

\* Between two rounds nothing is claimed of what was read.
LEMMA CloseRoundInv ==
  ASSUME RoundInv, Changed \/ Drain \/ Close \/ CloseForGood
  PROVE  RoundInv'
<1>1. /\ phase \in {"select", "debounce", "closing"}
      /\ phase' \in {"debounce", "closing", "read", "stopped"}
      /\ phase' \in {"debounce", "closing"} => reloads' = reloads
      /\ UNCHANGED <<disk, watched>>
  BY DEF Changed, Drain, Close, CloseForGood, notices, server, history
<1>2. Counted'
  <2>1. CASE Changed
    BY <2>1 DEF Changed, RoundInv, Counted, history
  <2>2. CASE Drain
    BY <2>2 DEF Drain, RoundInv, Counted, history
  <2>3. CASE Close \/ CloseForGood
    BY <2>3 DEF Close, CloseForGood, RoundInv, Counted, notices, history
  <2> QED  BY <2>1, <2>2, <2>3
<1>3. DirWatched'
  BY <1>1 DEF RoundInv, DirWatched, InRound, Served
<1> QED
  BY <1>1, <1>2, <1>3 DEF RoundInv, DiskTyped, Walking, Served, InRound, RootAgrees, CacheAgrees,
                          TreeAgrees, TreeWatched, RouterAgrees, LinkAgrees

\* Clients, Ctrl-C and the bridge of the watcher.
LEMMA QuietRoundInv ==
  ASSUME RoundInv, Accept \/ Answer \/ Interrupt \/ Touch \/ Forward \/ UNCHANGED vars
  PROVE  RoundInv'
<1>1. /\ UNCHANGED <<disk, loader, build, watched, started, reloads, missed>>
      /\ \/ phase' = phase
         \/ phase = "select" /\ phase' = "closing"
         \/ phase' = "exited" /\ watched = {}
  BY DEF Accept, Answer, Interrupt, Touch, Forward, build, notices, server, history, vars
<1>2. Counted' /\ (OnItsWay => OnItsWay')
  <2>1. CASE Touch
    BY <2>1 DEF Touch, RoundInv, Counted, OnItsWay
  <2>2. CASE Forward
    BY <2>2 DEF Forward, RoundInv, Counted, OnItsWay, history
  <2>3. CASE Accept \/ Answer \/ Interrupt \/ UNCHANGED vars
    BY <2>3 DEF Accept, Answer, Interrupt, vars, RoundInv, Counted, OnItsWay, notices, history
  <2> QED  BY <2>1, <2>2, <2>3
<1>3. (\A f : Noticed(f) => Noticed(f)') /\ (Unnoticed' => Unnoticed)
  BY <1>1, <1>2 DEF Noticed, Unnoticed
<1>4. DiskTyped' /\ (Walking => LoaderSound)' /\ (Served => TreeSound(tree))'
  BY <1>1 DEF RoundInv, DiskTyped, Walking, Served, LoaderSound, Top, loader, build
<1>5. RootAgrees' /\ CacheAgrees'
  BY <1>1, <1>3 DEF RoundInv, RootAgrees, CacheAgrees, InRound, Served, loader, build
<1>6. TreeAgrees' /\ TreeWatched'
  BY <1>1, <1>3 DEF RoundInv, TreeAgrees, TreeWatched, Served, build
<1>7. DirWatched'
  BY <1>1 DEF RoundInv, DirWatched, InRound, Served
<1>8. RouterAgrees' /\ LinkAgrees'
  BY <1>1, <1>3 DEF RoundInv, RouterAgrees, LinkAgrees, loader, build
<1> QED  BY <1>2, <1>4, <1>5, <1>6, <1>7, <1>8 DEF RoundInv

\* An edit of a file that has been read is an event, or is missed by a build.
LEMMA EditRoundInv ==
  ASSUME RoundInv, NEW f \in Files, NEW c \in Contents[f], Edit(f, c)
  PROVE  RoundInv'
<1>1. /\ disk' = [disk EXCEPT ![f] = c]
      /\ inflight' = (IF f \in watched THEN inflight + 1 ELSE inflight)
      /\ missed' = (IF Building /\ f \notin watched THEN missed \cup {f} ELSE missed)
      /\ UNCHANGED <<loader, phase, build, watched, queued, started, reloads>>
  BY DEF Edit, server
<1>2. Counted /\ Counted' /\ (OnItsWay => OnItsWay') /\ (f \in watched => OnItsWay')
  BY <1>1 DEF RoundInv, Counted, OnItsWay
<1>3. /\ DiskTyped'
      /\ \A g \in Files : g # f => disk'[g] = disk[g]
  BY <1>1, DevServerAssumption DEF RoundInv, DiskTyped, Parsed, DevServerAssumption
<1>4. (\A g : Noticed(g) => Noticed(g)') /\ (Unnoticed' => Unnoticed)
  BY <1>1, <1>2 DEF Noticed, Unnoticed
<1>5. Building \/ f \in watched => Noticed(f)'
  BY <1>1, <1>2 DEF Noticed
<1>6. (Walking => LoaderSound)' /\ (Served => TreeSound(tree))'
  BY <1>1 DEF RoundInv, Walking, Served, LoaderSound, Top, loader, build
<1>7. RootAgrees'
  <2> SUFFICES ASSUME InRound PROVE disk'[Root] = program \/ Noticed(Root)'
    BY <1>1 DEF RootAgrees, InRound, Served, build
  <2>1. Building \/ Root \in watched
    BY DEF RoundInv, DirWatched, InRound, Served, Building
  <2>2. disk[Root] = program \/ Noticed(Root)
    BY DEF RoundInv, RootAgrees
  <2> QED  BY <1>3, <1>4, <1>5, <2>1, <2>2, DevServerAssumption DEF DevServerAssumption
<1>8. CacheAgrees'
  <2> SUFFICES ASSUME phase = "tree" PROVE CacheAgrees'
    BY <1>1 DEF CacheAgrees
  <2>1. Noticed(f)'
    BY <1>5 DEF Building
  <2>2. \A g \in DOMAIN cache : g \in Files /\ (disk[g] = cache[g] \/ Noticed(g))
    BY DEF RoundInv, CacheAgrees, Walking, LoaderSound, Programs
  <2>3. \A e \in ToSet(calls) : e.fn = "module" => disk[e.file] = e.prog \/ Noticed(e.file)
    BY DEF RoundInv, CacheAgrees
  <2>4. \A g : g # f => disk'[g] = disk[g]
    BY <1>1
  <2> QED  BY <1>1, <1>4, <2>1, <2>2, <2>3, <2>4 DEF CacheAgrees, loader
<1>9. /\ Served => \A g \in DOMAIN tree : g \in Files /\ (disk[g] = tree[g] \/ Noticed(g))
      /\ Served' <=> Served
  BY <1>1 DEF RoundInv, TreeAgrees, TreeSound, Programs, Served
<1>10. TreeWatched'
  BY <1>1, <1>4 DEF RoundInv, TreeWatched, build
<1>11. TreeAgrees'
  <2> SUFFICES ASSUME Served, NEW g \in DOMAIN tree PROVE disk'[g] = tree[g] \/ Noticed(g)'
    BY <1>1, <1>9 DEF TreeAgrees, build
  <2>1. CASE g # f
    BY <1>3, <1>4, <1>9, <2>1
  <2>2. CASE g = f
    <3>1. Building \/ phase \in {"link", "select"}
      BY DEF Served, Building
    <3>2. phase \in {"link", "select"} => g \in watched \/ Noticed(g)
      BY DEF RoundInv, TreeWatched
    <3> QED  BY <1>4, <1>5, <2>2, <3>1, <3>2
  <2> QED  BY <2>1, <2>2
<1>12. DirWatched'
  BY <1>1 DEF RoundInv, DirWatched, InRound, Served
<1>13. RouterAgrees' /\ LinkAgrees'
  BY <1>1, <1>4 DEF RoundInv, RouterAgrees, LinkAgrees, loader, build
<1> QED  BY <1>2, <1>3, <1>6, <1>7, <1>8, <1>10, <1>11, <1>12, <1>13 DEF RoundInv

\* Every step of the loop, the loader, the watcher and the editors keeps it.
LEMMA NextRoundInv == RoundInv /\ [Next]_vars => RoundInv'
<1> SUFFICES ASSUME RoundInv, [Next]_vars PROVE RoundInv'
  OBVIOUS
<1>1. CASE Main
  BY <1>1, LoadRoundInv, ReadMainRoundInv, TreeLoadedRoundInv, ConfigRoundInv, WatchRoundInv,
     BindRoundInv, LinkedRoundInv, CloseRoundInv DEF Main
<1>2. CASE Accept \/ Answer \/ Interrupt \/ Touch \/ Forward \/ UNCHANGED vars
  BY <1>2, QuietRoundInv
<1>3. CASE \E f \in Files : \E c \in Contents[f] : Edit(f, c)
  BY <1>3, EditRoundInv
<1> QED  BY <1>1, <1>2, <1>3 DEF Next

\* The invariant of the rounds holds in every reachable state.
THEOREM RoundInvariance == Spec => []RoundInv
BY InitRoundInv, NextRoundInv, PTL DEF Spec

\* Whatever is edited while the loader walks, a tree it hands out is the root
\* with all that it imports, and a cycle it reports is one of the programs read.
THEOREM TreesAreWhole == Spec => []LoadIsWhole
<1>1. RoundInv => LoadIsWhole
  <2> SUFFICES ASSUME RoundInv, phase \in {"tree", "link"} PROVE LoadIsWhole
    BY DEF LoadIsWhole
  <2>1. LoaderSound
    BY DEF RoundInv, Walking
  <2> QED  BY <2>1, TreeIsWhole, CycleIsReal DEF LoadIsWhole
<1> QED  BY <1>1, RoundInvariance, PTL

\* No edit is forgotten: a server with no event left serves what is on the disk,
\* but for files edited while it was built and nobody watched them.
THEOREM EditsAreNoticed == Spec => []NothingForgotten
<1>1. RoundInv => NothingForgotten
  <2> SUFFICES ASSUME RoundInv, Quiet PROVE NothingForgotten
    BY DEF NothingForgotten
  <2>1. phase = "select" /\ started /\ ~OnItsWay
    BY DEF Quiet, OnItsWay
  <2>2. \A f \in Files : Stale(f) => f \in missed
    BY <2>1 DEF RoundInv, RootAgrees, TreeAgrees, InRound, Served, Noticed, Stale
  <2>3. linked # tree => missed # {}
    BY <2>1 DEF RoundInv, LinkAgrees, Unnoticed
  <2>4. reloads > 0 => missed \cap ({Root} \cup EnvDir) = {}
    BY <2>1 DEF RoundInv, DirWatched, InRound, Served
  <2> QED  BY <2>2, <2>3, <2>4 DEF NothingForgotten
<1> QED  BY <1>1, RoundInvariance, PTL

---------------------------------------------------------------------------
(***************************************************************************)
(* The debugging session.                                                  *)
(***************************************************************************)
Labels == {"idle", "hook", "announce", "disarm", "park", "tell", "wait", "run",
           "done", "failed"}

Stages == {"read", "notify", "resume", "respond", "ended"}

DebugTyped ==
  /\ pc \in [Threads -> Labels]
  /\ paused \subseteq Threads
  /\ inbox \in [Threads -> Resumes \cup {"none"}]
  /\ queue \in Seq(Message)
  /\ handler \in [stage: Stages, msg: Message \cup {NoMessage}]

\* What the handler holds of the message it is at.
HandlerHolds ==
  /\ handler.stage \in {"read", "ended"} => handler.msg.op = "none"
  /\ handler.stage = "resume" => /\ handler.msg.op \in Resumes
                                 /\ handler.msg.thread \in Threads
  /\ handler.stage = "notify" => configured

\* Nothing runs before the main task has let it, and in a one-shot mode that
\* takes the client's configurationDone.
RunsLate ==
  /\ mode = "oneshot" /\ main = "go" => configured
  /\ \A t \in Threads : pc[t] # "idle" => main = "go"

DebugInv == DebugTyped /\ HandlerHolds /\ RunsLate /\ PausedIsAwaited

\* The messages, by what they carry.
LEMMA MessageFacts ==
  ASSUME NEW m \in Message
  PROVE  /\ m.op \in Resumes \cup {"setBreakpoints", "configurationDone", "disconnect"}
         /\ m.op \in Resumes => m.thread \in Threads
BY DEF Message, Resumes, Steps

\* The message at the head of a queue.
LEMMA HeadFacts ==
  ASSUME DebugTyped, queue # <<>>
  PROVE  Head(queue) \in Message /\ Tail(queue) \in Seq(Message)
BY DEF DebugTyped

---------------------------------------------------------------------------
\* Nothing is paused and nothing runs at first.
LEMMA InitDebugInv == DebugInit => DebugInv
<1> SUFFICES ASSUME DebugInit PROVE DebugInv
  OBVIOUS
<1>1. DebugTyped
  BY DEF DebugInit, DebugTyped, Labels, Stages
<1>2. HandlerHolds
  BY DEF DebugInit, HandlerHolds, NoMessage
<1>3. RunsLate /\ PausedIsAwaited
  BY DEF DebugInit, RunsLate, PausedIsAwaited
<1> QED
  BY <1>1, <1>2, <1>3 DEF DebugInv

\* The steps of a thread before it parks, and those that only leave.
LEMMA PlainThreadStep ==
  ASSUME DebugInv, NEW t \in Threads,
         NEW label \in Labels, Goto(t, label),
         pc[t] \in {"idle", "hook", "announce", "disarm", "run"},
         label \in {"hook", "run", "announce", "disarm", "park", "done", "failed"},
         main = "go",
         UNCHANGED <<paused, inbox, queue, handler, process>>
  PROVE  DebugInv'
<1>1. /\ pc' = [pc EXCEPT ![t] = label] /\ pc \in [Threads -> Labels]
      /\ UNCHANGED <<mode, configured, main>>
  BY DEF DebugInv, DebugTyped, Goto, process
<1>2. DebugTyped'
  BY <1>1 DEF DebugInv, DebugTyped
<1>3. HandlerHolds' /\ RunsLate'
  BY <1>1 DEF DebugInv, HandlerHolds, RunsLate
<1>4. PausedIsAwaited'
  BY <1>1 DEF DebugInv, PausedIsAwaited
<1> QED
  BY <1>2, <1>3, <1>4 DEF DebugInv
\* A thread step, whole.
LEMMA ThreadDebugInv ==
  ASSUME DebugInv, NEW t \in Threads, ThreadStep(t) \/ Drop(t) PROVE DebugInv'
<1>0. /\ pc \in [Threads -> Labels] /\ paused \subseteq Threads
      /\ inbox \in [Threads -> Resumes \cup {"none"}]
      /\ pc[t] # "idle" => main = "go"
  BY DEF DebugInv, DebugTyped, RunsLate
<1> USE DEF client, process, maps, Labels
<1>1. CASE Arrive(t)
  BY <1>1, PlainThreadStep DEF Arrive
<1>2. CASE Decide(t)
  <2>1. ASSUME NEW label \in {"run", "disarm", "announce"}, Goto(t, label) PROVE DebugInv'
    BY <1>0, <1>2, <2>1, PlainThreadStep DEF Decide
  <2> QED  BY <1>2, <2>1 DEF Decide
<1>3. CASE Announce(t)
  <2>1. ASSUME NEW label \in {"disarm", "failed"}, Goto(t, label) PROVE DebugInv'
    BY <1>0, <1>3, <2>1, PlainThreadStep DEF Announce
  <2> QED  BY <1>3, <2>1 DEF Announce
<1>4. CASE Disarm(t)
  BY <1>0, <1>4, PlainThreadStep DEF Disarm
<1>5. CASE Park(t)
  <2>1. /\ pc[t] = "park" /\ pc' = [pc EXCEPT ![t] = "tell"] /\ paused' = paused \cup {t}
        /\ inbox' = [inbox EXCEPT ![t] = "none"]
        /\ UNCHANGED <<queue, handler, mode, configured, main>>
    BY <1>5 DEF Park, Goto
  <2>2. DebugTyped'
    BY <2>1 DEF DebugInv, DebugTyped
  <2>3. HandlerHolds' /\ RunsLate'
    BY <1>0, <2>1 DEF DebugInv, HandlerHolds, RunsLate
  <2>4. PausedIsAwaited'
    BY <1>0, <2>1 DEF DebugInv, PausedIsAwaited
  <2> QED  BY <2>2, <2>3, <2>4 DEF DebugInv
<1>6. CASE Tell(t)
  <2>1. PICK label \in {"wait", "failed"} : pc' = [pc EXCEPT ![t] = label]
    BY <1>6 DEF Tell, Goto
  <2>2. pc[t] = "tell" /\ UNCHANGED <<paused, inbox, queue, handler, mode, configured, main>>
    BY <1>6 DEF Tell
  <2>3. DebugTyped'
    BY <2>1, <2>2 DEF DebugInv, DebugTyped
  <2>4. HandlerHolds' /\ RunsLate'
    BY <1>0, <2>1, <2>2 DEF DebugInv, HandlerHolds, RunsLate
  <2>5. PausedIsAwaited'
    BY <1>0, <2>1, <2>2 DEF DebugInv, PausedIsAwaited
  <2> QED  BY <2>3, <2>4, <2>5 DEF DebugInv
<1>7. CASE Wake(t)
  <2>1. /\ pc[t] = "wait" /\ inbox[t] # "none" /\ pc' = [pc EXCEPT ![t] = "run"]
        /\ inbox' = [inbox EXCEPT ![t] = "none"]
        /\ UNCHANGED <<paused, queue, handler, mode, configured, main>>
    BY <1>7 DEF Wake, Goto
  <2>2. DebugTyped'
    BY <2>1 DEF DebugInv, DebugTyped
  <2>3. HandlerHolds' /\ RunsLate'
    BY <1>0, <2>1 DEF DebugInv, HandlerHolds, RunsLate
  <2>4. PausedIsAwaited'
    BY <1>0, <2>1 DEF DebugInv, PausedIsAwaited
  <2> QED  BY <2>2, <2>3, <2>4 DEF DebugInv
<1>8. CASE RunStep(t)
  <2>1. ASSUME NEW label \in {"hook", "done"}, Goto(t, label) PROVE DebugInv'
    BY <1>0, <1>8, <2>1, PlainThreadStep DEF RunStep
  <2> QED  BY <1>8, <2>1 DEF RunStep
<1>9. CASE Drop(t)
  <2>1. /\ pc[t] \in {"announce", "tell", "wait", "run"} /\ pc' = [pc EXCEPT ![t] = "failed"]
        /\ UNCHANGED <<paused, inbox, queue, handler, mode, configured, main>>
    BY <1>9 DEF Drop, Goto
  <2>2. DebugTyped'
    BY <2>1 DEF DebugInv, DebugTyped
  <2>3. HandlerHolds' /\ RunsLate'
    BY <1>0, <2>1 DEF DebugInv, HandlerHolds, RunsLate
  <2>4. PausedIsAwaited'
    BY <1>0, <2>1 DEF DebugInv, PausedIsAwaited
  <2> QED  BY <2>2, <2>3, <2>4 DEF DebugInv
<1> QED
  BY <1>1, <1>2, <1>3, <1>4, <1>5, <1>6, <1>7, <1>8, <1>9 DEF ThreadStep

---------------------------------------------------------------------------
\* Steps that leave the threads and their channels alone.
LEMMA QuietStep ==
  ASSUME DebugInv, UNCHANGED <<pc, paused, inbox>>,
         queue' \in Seq(Message),
         handler' \in [stage: Stages, msg: Message \cup {NoMessage}],
         HandlerHolds', configured => configured', UNCHANGED mode,
         main' = "go" => main = "go" \/ mode = "serve" \/ configured',
         main = "go" => main' = "go"
  PROVE  DebugInv'
<1>1. DebugTyped'
  BY DEF DebugInv, DebugTyped
<1>2. RunsLate' /\ PausedIsAwaited'
  BY DEF DebugInv, RunsLate, PausedIsAwaited
<1> QED
  BY <1>1, <1>2 DEF DebugInv

\* The main task; it takes note of the client before a one-shot run.
LEMMA MainDebugInv ==
  ASSUME DebugInv, MainLoad \/ MainSubscribe \/ Exit \/ Vanish PROVE DebugInv'
<1>1. /\ UNCHANGED <<pc, paused, inbox, queue, handler, configured, mode>>
      /\ main' = "go" => main = "go" \/ mode = "serve" \/ configured
      /\ main = "go" => main' = "go"
  BY DEF MainLoad, MainSubscribe, Exit, Vanish, maps, threads, client, process
<1>2. HandlerHolds'
  BY <1>1 DEF DebugInv, HandlerHolds
<1> QED
  BY <1>1, <1>2, QuietStep DEF DebugInv, DebugTyped

\* The client sends.
LEMMA ClientDebugInv == ASSUME DebugInv, NEW m \in Message, ClientSends(m) PROVE DebugInv'
<1>1. UNCHANGED <<pc, paused, inbox, handler, configured, mode, main>> /\ queue' = Append(queue, m)
  BY DEF ClientSends, maps, threads, process
<1>2. HandlerHolds'
  BY <1>1 DEF DebugInv, HandlerHolds
<1>3. queue' \in Seq(Message)
  BY <1>1 DEF DebugInv, DebugTyped
<1> QED
  BY <1>1, <1>2, <1>3, QuietStep DEF DebugInv, DebugTyped

\* The commands of T's threads that are paused go out on their channels.
LEMMA ReleaseKeeps ==
  ASSUME DebugTyped, PausedIsAwaited, NEW T, NEW op \in Resumes, Release(T, op), UNCHANGED pc
  PROVE  /\ PausedIsAwaited' /\ paused' \subseteq Threads
         /\ inbox' \in [Threads -> Resumes \cup {"none"}]
<1>1. /\ paused' = paused \ T /\ op # "none" /\ op \in Resumes /\ pc' = pc
      /\ inbox' = [t \in Threads |-> IF t \in paused \cap T THEN op ELSE inbox[t]]
  BY DEF Release, Resumes, Steps
<1>2. inbox' \in [Threads -> Resumes \cup {"none"}]
  BY <1>1 DEF DebugTyped
<1>3. PausedIsAwaited'
  BY <1>1 DEF PausedIsAwaited
<1> QED
  BY <1>1, <1>2, <1>3 DEF DebugTyped
\* What the handler does with the message it takes.
LEMMA TakeFacts ==
  ASSUME DebugTyped, NEW op, Got(op), NEW stage \in Stages, Take(stage)
  PROVE  /\ Head(queue) \in Message /\ Head(queue).op = op
         /\ queue' \in Seq(Message)
         /\ handler' \in [stage: Stages, msg: Message \cup {NoMessage}]
         /\ handler'.stage = stage /\ handler'.msg = Head(queue)
<1>1. Head(queue) \in Message /\ Tail(queue) \in Seq(Message) /\ Head(queue).op = op
  BY HeadFacts DEF Got
<1> QED
  BY <1>1 DEF Take, Then

\* The handler goes on with the message it has, or is done with it.
LEMMA ThenFacts ==
  ASSUME DebugTyped, NEW stage \in Stages, NEW msg \in {handler.msg, NoMessage}, Then(stage, msg)
  PROVE  /\ handler' \in [stage: Stages, msg: Message \cup {NoMessage}]
         /\ handler'.stage = stage /\ handler'.msg = msg
BY DEF DebugTyped, Then

\* A step of the message handler.
LEMMA HandlerDebugInv == ASSUME DebugInv, HandlerStep PROVE DebugInv'
<1>0. /\ DebugTyped /\ PausedIsAwaited /\ HandlerHolds
      /\ NoMessage.op = "none"
      /\ "read" \in Stages /\ "notify" \in Stages /\ "resume" \in Stages
      /\ "respond" \in Stages /\ "ended" \in Stages
  BY DEF DebugInv, Stages, NoMessage
<1> USE DEF maps, threads, client, process
<1>1. CASE HandleSetBreakpoints
  <2>1. /\ Got("setBreakpoints") /\ Take("respond")
        /\ UNCHANGED <<pc, paused, inbox, configured, mode, main>>
    BY <1>1 DEF HandleSetBreakpoints
  <2>2. /\ queue' \in Seq(Message) /\ handler'.stage = "respond"
        /\ handler' \in [stage: Stages, msg: Message \cup {NoMessage}]
    BY <1>0, <2>1, TakeFacts
  <2>3. HandlerHolds'
    BY <2>2 DEF HandlerHolds
  <2> QED  BY <2>1, <2>2, <2>3, QuietStep
<1>2. CASE HandleConfigurationDone
  <2>1. /\ Got("configurationDone") /\ Take("notify") /\ configured'
        /\ UNCHANGED <<pc, paused, inbox, mode, main>>
    BY <1>2 DEF HandleConfigurationDone
  <2>2. /\ queue' \in Seq(Message) /\ handler'.stage = "notify"
        /\ handler' \in [stage: Stages, msg: Message \cup {NoMessage}]
    BY <1>0, <2>1, TakeFacts
  <2>3. HandlerHolds'
    BY <2>1, <2>2 DEF HandlerHolds
  <2> QED  BY <2>1, <2>2, <2>3, QuietStep
<1>3. CASE NotifyWaiters
  <2>1. /\ handler.stage = "notify" /\ Then("respond", handler.msg)
        /\ main' = IF main = "wait" THEN "go" ELSE main
        /\ UNCHANGED <<pc, paused, inbox, queue, configured, mode>>
    BY <1>3 DEF NotifyWaiters, At
  <2>2. /\ handler'.stage = "respond"
        /\ handler' \in [stage: Stages, msg: Message \cup {NoMessage}]
    BY <1>0, <2>1, ThenFacts
  <2>3. HandlerHolds' /\ configured'
    BY <1>0, <2>1, <2>2 DEF HandlerHolds
  <2> QED  BY <1>0, <2>1, <2>2, <2>3, QuietStep DEF DebugTyped
<1>4. CASE HandleResume
  <2>1. PICK op \in Resumes : Got(op)
    BY <1>4 DEF HandleResume, GotResume
  <2>2. Take("resume") /\ UNCHANGED <<pc, paused, inbox, configured, mode, main>>
    BY <1>4 DEF HandleResume
  <2>3. /\ Head(queue) \in Message /\ Head(queue).op \in Resumes
        /\ queue' \in Seq(Message)
        /\ handler'.stage = "resume" /\ handler'.msg = Head(queue)
        /\ handler' \in [stage: Stages, msg: Message \cup {NoMessage}]
    BY <1>0, <2>1, <2>2, TakeFacts
  <2>4. HandlerHolds'
    BY <2>3, MessageFacts DEF HandlerHolds
  <2> QED  BY <2>2, <2>3, <2>4, QuietStep
<1>5. CASE Resume
  <2>1. /\ handler.stage = "resume" /\ Then("respond", handler.msg)
        /\ Release({handler.msg.thread}, handler.msg.op)
        /\ UNCHANGED <<pc, queue, configured, mode, main>>
    BY <1>5 DEF Resume, At
  <2>2. /\ handler'.stage = "respond"
        /\ handler' \in [stage: Stages, msg: Message \cup {NoMessage}]
    BY <1>0, <2>1, ThenFacts
  <2>3. handler.msg.op \in Resumes
    BY <1>0, <2>1 DEF HandlerHolds
  <2>4. /\ PausedIsAwaited' /\ paused' \subseteq Threads
        /\ inbox' \in [Threads -> Resumes \cup {"none"}]
    BY <1>0, <2>1, <2>3, ReleaseKeeps
  <2>5. DebugTyped' /\ HandlerHolds' /\ RunsLate'
    BY <1>0, <2>1, <2>2, <2>4 DEF DebugTyped, HandlerHolds, RunsLate, DebugInv
  <2> QED  BY <2>4, <2>5 DEF DebugInv
<1>6. CASE HandleDisconnect
  <2>1. /\ Got("disconnect") /\ Take("respond") /\ Release(Threads, "continue")
        /\ UNCHANGED <<pc, configured, mode, main>>
    BY <1>6 DEF HandleDisconnect
  <2>2. /\ queue' \in Seq(Message) /\ handler'.stage = "respond"
        /\ handler' \in [stage: Stages, msg: Message \cup {NoMessage}]
    BY <1>0, <2>1, TakeFacts
  <2>3. "continue" \in Resumes
    BY DEF Resumes
  <2>4. /\ PausedIsAwaited' /\ paused' \subseteq Threads
        /\ inbox' \in [Threads -> Resumes \cup {"none"}]
    BY <1>0, <2>1, <2>3, ReleaseKeeps
  <2>5. DebugTyped' /\ HandlerHolds' /\ RunsLate'
    BY <1>0, <2>1, <2>2, <2>4 DEF DebugTyped, HandlerHolds, RunsLate, DebugInv
  <2> QED  BY <2>4, <2>5 DEF DebugInv
<1>7. ASSUME Then("ended", NoMessage) \/ Then("read", NoMessage),
             UNCHANGED <<pc, paused, inbox, configured, mode, main>>,
             queue' \in Seq(Message)
      PROVE  DebugInv'
  <2>1. PICK stage \in {"ended", "read"} : Then(stage, NoMessage)
    BY <1>7
  <2>2. /\ handler'.stage \in {"ended", "read"} /\ handler'.msg.op = "none"
        /\ handler' \in [stage: Stages, msg: Message \cup {NoMessage}]
    BY <1>0, <2>1, ThenFacts
  <2>3. HandlerHolds'
    BY <2>2 DEF HandlerHolds
  <2> QED  BY <1>7, <2>2, <2>3, QuietStep
<1>8. CASE Respond
  <2>1. UNCHANGED <<pc, paused, inbox, queue, configured, mode, main>>
    BY <1>8 DEF Respond
  <2>2. Then("ended", NoMessage) \/ Then("read", NoMessage)
    BY <1>8 DEF Respond, End
  <2> QED  BY <1>0, <1>7, <2>1, <2>2 DEF DebugTyped
<1>9. CASE Lose
  <2>1. UNCHANGED <<pc, paused, inbox, configured, mode, main>> /\ queue' = <<>>
    BY <1>9 DEF Lose
  <2>2. Then("ended", NoMessage)
    BY <1>9 DEF Lose, End
  <2>3. queue' \in Seq(Message)
    BY <2>1
  <2> QED  BY <1>7, <2>1, <2>2, <2>3
<1> QED
  BY <1>1, <1>2, <1>3, <1>4, <1>5, <1>6, <1>8, <1>9 DEF HandlerStep

---------------------------------------------------------------------------
\* No step breaks the invariant.
LEMMA NextDebugInv == DebugInv /\ [DebugNext]_(debugVars) => DebugInv'
<1> SUFFICES ASSUME DebugInv, [DebugNext]_(debugVars) PROVE DebugInv'
  OBVIOUS
<1>1. ASSUME NEW t \in Threads, ThreadStep(t) \/ Drop(t) PROVE DebugInv'
  BY <1>1, ThreadDebugInv
<1>2. CASE HandlerStep
  BY <1>2, HandlerDebugInv
<1>3. ASSUME NEW m \in Message, ClientSends(m) PROVE DebugInv'
  BY <1>3, ClientDebugInv
<1>4. CASE MainLoad \/ MainSubscribe \/ Exit \/ Vanish
  BY <1>4, MainDebugInv
<1>5. CASE UNCHANGED debugVars
  BY <1>5 DEF debugVars, maps, threads, client, process, DebugInv, DebugTyped, HandlerHolds, RunsLate,
              PausedIsAwaited
<1> QED
  BY <1>1, <1>2, <1>3, <1>4, <1>5 DEF DebugNext

\* The messages and the handler are typed, and threads and channels agree.
THEOREM DebugInvariance == DebugSpec => []DebugInv
BY InitDebugInv, NextDebugInv, PTL DEF DebugSpec

\* A thread waits at a breakpoint as long as its entry of paused_threads, or
\* a command on its channel, is there to wake it (dap_server.rs).
THEOREM WaitersCanWake == DebugSpec => []PausedIsAwaited
<1>1. DebugInv => PausedIsAwaited
  BY DEF DebugInv
<1> QED
  BY DebugInvariance, <1>1, PTL

\* The one-shot modes run nothing before configurationDone (main.rs).
THEOREM OneShotWaits == DebugSpec => []RunsConfigured
<1>1. DebugInv => RunsConfigured
  BY DEF DebugInv, RunsLate, RunsConfigured
<1> QED
  BY DebugInvariance, <1>1, PTL

---------------------------------------------------------------------------
(***************************************************************************)
(* No overshoot.  A client that waits for the answer to a command before   *)
(* it sends another one for the same thread aims every command at a thread *)
(* that waits, so the stepping mode made for a thread is still there, and  *)
(* still the one it was resumed by, when it comes to its next step.        *)
(***************************************************************************)
ResumeOf(m, t) == m.op \in Resumes /\ m.thread = t
Awaiting(t) == t \in paused /\ pc[t] \in {"wait", "failed"}
Leaving == handler.msg.op = "disconnect" \/ handler.stage = "ended"

\* At most one command for a thread is on the way, and nothing comes after
\* the client's disconnect.
OneAtATime ==
  /\ \A i, j \in 1..Len(queue), t \in Threads :
       ResumeOf(queue[i], t) /\ ResumeOf(queue[j], t) => i = j
  /\ \A i \in 1..Len(queue), t \in Threads :
       ResumeOf(queue[i], t) => ~ResumeOf(handler.msg, t)
  /\ \A i \in 1..Len(queue) : queue[i].op = "disconnect" => i = Len(queue)
  /\ handler.msg.op = "disconnect" => queue = <<>>

ModeSet(m) ==
  m.op \in Steps => /\ m.thread \in DOMAIN stepping
                    /\ stepping[m.thread] = [op |-> m.op, depth |-> depth[m.thread]]

Aimed ==
  /\ \A i \in 1..Len(queue), t \in Threads : ResumeOf(queue[i], t) => Awaiting(t)
  /\ handler.stage = "resume" => Awaiting(handler.msg.thread) /\ ModeSet(handler.msg)

\* What a thread is shown as, and what it was promised.
Consistent(t) ==
  /\ t \in view => Awaiting(t) \/ ResumeOf(handler.msg, t) \/ Leaving
  /\ pc[t] = "tell" => t \in paused \/ Leaving
  /\ t \in paused => promise[t].op = "continue"
  /\ promise[t].op \in Steps /\ pc[t] \in {"idle", "tell", "wait", "run", "hook"} =>
       t \in DOMAIN stepping /\ stepping[t] = promise[t]

StepInv ==
  /\ DOMAIN depth = Threads /\ DOMAIN promise = Threads
  /\ OneAtATime /\ Aimed
  /\ \A t \in Threads : Consistent(t)

SameMode(t) ==
  /\ t \in DOMAIN stepping' <=> t \in DOMAIN stepping
  /\ t \in DOMAIN stepping => stepping'[t] = stepping[t]

Untouched(t) ==
  /\ pc'[t] = pc[t] /\ depth'[t] = depth[t] /\ promise'[t] = promise[t]
  /\ t \in paused' <=> t \in paused
  /\ SameMode(t)

\* A continue is no step.
LEMMA ContinueIsNoStep == "continue" \notin Steps /\ Steps \subseteq Resumes /\ "none" \notin Resumes
BY DEF Steps, Resumes

\* A step of t has to answer for t alone.
LEMMA LocalStep ==
  ASSUME DebugInv, StepInv, NEW t \in Threads,
         UNCHANGED <<queue, handler>>,
         DOMAIN depth' = Threads, DOMAIN promise' = Threads,
         \A u \in Threads \ {t} : Untouched(u) /\ (u \in view' => u \in view),
         Awaiting(t) => Awaiting(t)' /\ depth'[t] = depth[t] /\ SameMode(t),
         Consistent(t)'
  PROVE  StepInv'
<1>1. \A u \in Threads : Awaiting(u) => Awaiting(u)' /\ depth'[u] = depth[u] /\ SameMode(u)
  BY DEF Untouched, Awaiting
<1>2. OneAtATime'
  BY DEF StepInv, OneAtATime, ResumeOf
<1>3. Aimed'
  <2>1. \A i \in 1..Len(queue), u \in Threads : ResumeOf(queue[i], u) => Awaiting(u)'
    BY <1>1 DEF StepInv, Aimed
  <2>2. handler.stage = "resume" => Awaiting(handler.msg.thread)' /\ ModeSet(handler.msg)'
    <3> SUFFICES ASSUME handler.stage = "resume"
                 PROVE  Awaiting(handler.msg.thread)' /\ ModeSet(handler.msg)'
      OBVIOUS
    <3>1. handler.msg.thread \in Threads
      BY DEF DebugInv, HandlerHolds
    <3>2. Awaiting(handler.msg.thread) /\ ModeSet(handler.msg)
      BY DEF StepInv, Aimed
    <3> QED  BY <1>1, <3>1, <3>2 DEF ModeSet, SameMode, Awaiting
  <2> QED  BY <2>1, <2>2 DEF Aimed, ResumeOf, Awaiting, ModeSet
<1>4. ASSUME NEW u \in Threads PROVE Consistent(u)'
  <2>1. CASE u = t
    BY <2>1
  <2>2. CASE u # t
    <3>1. Consistent(u) /\ Untouched(u) /\ (u \in view' => u \in view)
      BY <2>2 DEF StepInv
    <3> QED  BY <3>1 DEF Consistent, Untouched, SameMode, Awaiting, ResumeOf, Leaving
  <2> QED  BY <2>1, <2>2
<1> QED
  BY <1>2, <1>3, <1>4 DEF StepInv
\* Before anything runs, the client is shown nothing and has sent nothing.
LEMMA InitStepInv == DebugInit => StepInv
<1> SUFFICES ASSUME DebugInit PROVE StepInv
  OBVIOUS
<1>1. DOMAIN depth = Threads /\ DOMAIN promise = Threads
  BY DEF DebugInit
<1>2. OneAtATime /\ Aimed
  BY DEF DebugInit, OneAtATime, Aimed
<1>3. ASSUME NEW t \in Threads PROVE Consistent(t)
  BY ContinueIsNoStep DEF DebugInit, Consistent, NoMode
<1> QED
  BY <1>1, <1>2, <1>3 DEF StepInv

\* The steps of a thread that change nothing but its label, and perhaps its
\* depth: away from the breakpoint, or along the code.
LEMMA MoveStepInv ==
  ASSUME DebugInv, StepInv, NEW t \in Threads,
         NEW label \in {"hook", "run", "announce", "disarm", "park", "done", "failed"},
         Goto(t, label),
         pc[t] \in {"idle", "hook", "announce", "disarm", "tell", "wait", "run"},
         pc[t] \in {"tell", "wait"} => label = "failed",
         label \in {"hook", "run"} => pc[t] \in {"idle", "hook", "run"},
         UNCHANGED <<queue, handler, paused, promise, view>>,
         UNCHANGED stepping \/ label = "park",
         \A u \in Threads \ {t} : SameMode(u) /\ depth'[u] = depth[u],
         pc[t] # "run" => UNCHANGED depth,
         DOMAIN depth' = Threads
  PROVE  StepInv'
<1>1. pc' = [pc EXCEPT ![t] = label] /\ pc \in [Threads -> Labels]
  BY DEF Goto, DebugInv, DebugTyped
<1>2. pc'[t] = label /\ \A u \in Threads \ {t} : pc'[u] = pc[u]
  BY <1>1
<1>3. \A u \in Threads \ {t} : Untouched(u) /\ (u \in view' => u \in view)
  BY <1>2 DEF Untouched
<1>4. Awaiting(t) => Awaiting(t)' /\ depth'[t] = depth[t] /\ SameMode(t)
  BY <1>2 DEF Awaiting, SameMode
<1>5. Consistent(t)'
  <2>1. Consistent(t)
    BY DEF StepInv
  <2> QED  BY <1>2, <1>4, <2>1 DEF Consistent, ResumeOf, Leaving, Awaiting
<1>6. DOMAIN promise' = Threads
  BY DEF StepInv
<1> QED
  BY <1>3, <1>4, <1>5, <1>6, LocalStep

\* A thread step, whole.
LEMMA ThreadStepInv ==
  ASSUME DebugInv, StepInv, NEW t \in Threads, ThreadStep(t) \/ Drop(t) PROVE StepInv'
<1>0. /\ pc \in [Threads -> Labels] /\ paused \subseteq Threads
      /\ DOMAIN depth = Threads /\ DOMAIN promise = Threads /\ Consistent(t)
      /\ \A u : UNCHANGED stepping => SameMode(u)
  BY DEF DebugInv, DebugTyped, StepInv, SameMode
<1> USE DEF client, maps
<1>1. CASE Arrive(t)
  BY <1>0, <1>1, MoveStepInv DEF Arrive
<1>2. CASE Decide(t)
  <2>1. ASSUME NEW label \in {"run", "disarm", "announce"}, Goto(t, label) PROVE StepInv'
    BY <1>0, <1>2, <2>1, MoveStepInv DEF Decide
  <2> QED  BY <1>2, <2>1 DEF Decide
<1>3. CASE Announce(t)
  <2>1. ASSUME NEW label \in {"disarm", "failed"}, Goto(t, label) PROVE StepInv'
    BY <1>0, <1>3, <2>1, MoveStepInv DEF Announce
  <2> QED  BY <1>3, <2>1 DEF Announce
<1>4. CASE Disarm(t)
  <2>1. \A u \in Threads \ {t} : SameMode(u)
    BY <1>4 DEF Disarm, Restrict, SameMode
  <2>2. /\ pc[t] = "disarm" /\ Goto(t, "park")
        /\ UNCHANGED <<queue, handler, paused, promise, view, depth>>
    BY <1>4 DEF Disarm
  <2> QED  BY <1>0, <2>1, <2>2, MoveStepInv
<1>5. CASE Park(t)
  <2>1. /\ pc[t] = "park" /\ pc' = [pc EXCEPT ![t] = "tell"] /\ paused' = paused \cup {t}
        /\ promise' = [promise EXCEPT ![t] = NoMode]
        /\ UNCHANGED <<queue, handler, stepping, depth, view>>
    BY <1>5 DEF Park, Goto
  <2>2. /\ pc'[t] = "tell" /\ promise'[t].op = "continue" /\ DOMAIN promise' = Threads
        /\ \A u \in Threads \ {t} : pc'[u] = pc[u] /\ promise'[u] = promise[u]
    BY <1>0, <2>1 DEF NoMode
  <2>3. \A u \in Threads \ {t} : Untouched(u) /\ (u \in view' => u \in view)
    BY <1>0, <2>1, <2>2 DEF Untouched
  <2>4. ~Awaiting(t)
    BY <2>1 DEF Awaiting
  <2>5. Consistent(t)'
    BY <1>0, <2>1, <2>2, <2>4, ContinueIsNoStep DEF Consistent, ResumeOf, Leaving
  <2> QED  BY <1>0, <2>1, <2>2, <2>3, <2>4, <2>5, LocalStep
<1>6. CASE Tell(t)
  <2>1. pc[t] = "tell" /\ UNCHANGED <<queue, handler, paused, promise, stepping, depth>>
    BY <1>6 DEF Tell
  <2>2. CASE Goto(t, "failed") /\ UNCHANGED view
    BY <1>0, <2>1, <2>2, MoveStepInv
  <2>3. CASE Goto(t, "wait") /\ view' \subseteq view \cup {t}
    <3>1. pc'[t] = "wait" /\ \A u \in Threads \ {t} : pc'[u] = pc[u]
      BY <1>0, <2>3 DEF Goto
    <3>2. \A u \in Threads \ {t} : Untouched(u) /\ (u \in view' => u \in view)
      BY <1>0, <2>1, <2>3, <3>1 DEF Untouched
    <3>3. ~Awaiting(t)
      BY <2>1 DEF Awaiting
    <3>4. Consistent(t)'
      BY <1>0, <2>1, <3>1 DEF Consistent, Awaiting, ResumeOf, Leaving
    <3> QED  BY <1>0, <2>1, <3>2, <3>3, <3>4, LocalStep
  <2> QED  BY <1>6, <2>2, <2>3 DEF Tell
<1>7. CASE Wake(t)
  <2>1. /\ pc[t] = "wait" /\ inbox[t] # "none" /\ pc' = [pc EXCEPT ![t] = "run"]
        /\ UNCHANGED <<queue, handler, paused, promise, stepping, depth, view>>
    BY <1>7 DEF Wake, Goto
  <2>2. ~Awaiting(t)
    BY <2>1 DEF Awaiting, DebugInv, PausedIsAwaited
  <2>3. pc'[t] = "run" /\ \A u \in Threads \ {t} : pc'[u] = pc[u]
    BY <1>0, <2>1
  <2>4. \A u \in Threads \ {t} : Untouched(u) /\ (u \in view' => u \in view)
    BY <1>0, <2>1, <2>3 DEF Untouched
  <2>5. Consistent(t)'
    BY <1>0, <2>1, <2>2, <2>3 DEF Consistent, ResumeOf, Leaving
  <2> QED  BY <1>0, <2>1, <2>2, <2>4, <2>5, LocalStep
<1>8. CASE RunStep(t)
  <2>1. DOMAIN depth' = Threads /\ \A u \in Threads \ {t} : depth'[u] = depth[u]
    BY <1>0, <1>8 DEF RunStep
  <2>2. /\ pc[t] = "run"
        /\ UNCHANGED <<queue, handler, paused, promise, stepping, view>>
    BY <1>8 DEF RunStep
  <2>3. ASSUME NEW label \in {"hook", "done"}, Goto(t, label) PROVE StepInv'
    BY <1>0, <2>1, <2>2, <2>3, MoveStepInv
  <2> QED  BY <1>8, <2>3 DEF RunStep
<1>9. CASE Drop(t)
  BY <1>0, <1>9, MoveStepInv DEF Drop
<1> QED
  BY <1>1, <1>2, <1>3, <1>4, <1>5, <1>6, <1>7, <1>8, <1>9 DEF ThreadStep

\* What is known of the message the handler takes, and of those behind it.
LEMMA TakenFacts ==
  ASSUME DebugInv, StepInv, queue # <<>>, NEW stage, Take(stage)
  PROVE  LET m == Head(queue)
         IN /\ m \in Message /\ handler'.stage = stage /\ handler'.msg = m
            /\ OneAtATime'
            /\ m.op = "disconnect" => queue' = <<>>
            /\ m.op \in Resumes => Awaiting(m.thread)
            /\ \A i \in 1..Len(queue'), t \in Threads :
                 ResumeOf(queue'[i], t) => Awaiting(t) /\ ~ResumeOf(m, t)
<1> DEFINE m == Head(queue)
           rest == Tail(queue)
           l == Len(queue)
<1>1. /\ queue \in Seq(Message) /\ m \in Message /\ rest \in Seq(Message)
      /\ m = queue[1] /\ l \in Nat \ {0}
      /\ queue' = rest /\ handler' = [stage |-> stage, msg |-> m]
  BY HeadFacts, EmptySeq DEF DebugInv, DebugTyped, Take, Then
<1>2. Len(rest) = l - 1 /\ \A i \in 1..(l - 1) : rest[i] = queue[i + 1]
  BY <1>1, HeadTailProperties
<1>3. \A i \in 1..(l - 1) : i + 1 \in 1..l /\ i + 1 # 1 /\ (i + 1 = l => i = l - 1)
  <2>1. \A n \in Nat \ {0} : \A i \in 1..(n - 1) :
          i + 1 \in 1..n /\ i + 1 # 1 /\ (i + 1 = n => i = n - 1)
    OBVIOUS
  <2> QED  BY <1>1, <2>1
<1>4. OneAtATime /\ Aimed
  BY DEF StepInv
<1>5. 1 \in 1..l
  BY <1>1
<1>6. m.op = "disconnect" => rest = <<>>
  <2> SUFFICES ASSUME m.op = "disconnect" PROVE rest = <<>>
    OBVIOUS
  <2>1. l = 1
    BY <1>1, <1>4, <1>5 DEF OneAtATime
  <2> QED  BY <1>1, <1>2, <2>1, EmptySeq
<1>7. \A i, j \in 1..Len(rest), t \in Threads :
        ResumeOf(rest[i], t) /\ ResumeOf(rest[j], t) => i = j
  <2> SUFFICES ASSUME NEW i \in 1..(l - 1), NEW j \in 1..(l - 1), NEW t \in Threads,
                      ResumeOf(rest[i], t), ResumeOf(rest[j], t)
               PROVE  i = j
    BY <1>2
  <2>1. i + 1 = j + 1
    BY <1>2, <1>3, <1>4 DEF OneAtATime
  <2> QED  BY <2>1
<1>8. \A i \in 1..Len(rest), t \in Threads : ResumeOf(rest[i], t) => Awaiting(t) /\ ~ResumeOf(m, t)
  BY <1>1, <1>2, <1>3, <1>4, <1>5 DEF OneAtATime, Aimed
<1>9. \A i \in 1..Len(rest) : rest[i].op = "disconnect" => i = Len(rest)
  BY <1>2, <1>3, <1>4 DEF OneAtATime
<1>10. m.op \in Resumes => Awaiting(m.thread)
  <2>1. m.op \in Resumes => m.thread \in Threads
    BY <1>1, MessageFacts
  <2> QED  BY <1>1, <1>4, <1>5, <2>1 DEF Aimed, ResumeOf
<1>11. OneAtATime'
  BY <1>1, <1>6, <1>7, <1>8, <1>9 DEF OneAtATime, ResumeOf
<1> QED
  BY <1>1, <1>6, <1>8, <1>10, <1>11

\* The handler takes a message that changes no thread.
LEMMA TakeStepInv ==
  ASSUME DebugInv, StepInv, NEW op, Got(op), NEW stage, Take(stage),
         op \notin Resumes, op # "disconnect", stage # "resume", stage # "ended",
         UNCHANGED <<pc, depth, stepping, paused, promise, view>>
  PROVE  StepInv'
<1>1. queue # <<>> /\ handler.stage = "read" /\ Head(queue).op = op
  BY DEF Got, At
<1>2. /\ handler'.stage = stage /\ handler'.msg = Head(queue)
      /\ OneAtATime'
      /\ \A i \in 1..Len(queue'), t \in Threads : ResumeOf(queue'[i], t) => Awaiting(t)
  BY <1>1, TakenFacts
<1>3. handler.msg.op = "none"
  BY <1>1 DEF DebugInv, HandlerHolds
<1>4. Aimed'
  BY <1>2 DEF Aimed, Awaiting, ResumeOf
<1>5. ASSUME NEW t \in Threads PROVE Consistent(t)'
  <2>1. Consistent(t)
    BY DEF StepInv
  <2>2. ~ResumeOf(handler.msg, t) /\ ~Leaving
    BY <1>1, <1>3, ContinueIsNoStep DEF ResumeOf, Leaving
  <2> QED  BY <2>1, <2>2 DEF Consistent, Awaiting
<1> QED
  BY <1>2, <1>4, <1>5 DEF StepInv

\* A resume command sets the mode of the thread it names, which is paused.
LEMMA HandleResumeStepInv == ASSUME DebugInv, StepInv, HandleResume PROVE StepInv'
<1> DEFINE m == Head(queue)
           t == m.thread
<1>1. /\ queue # <<>> /\ handler.stage = "read" /\ m.op \in Resumes
      /\ Remode(m.op, t) /\ Take("resume")
      /\ UNCHANGED <<pc, depth, paused, promise, view>>
  BY DEF HandleResume, GotResume, Got, At, threads
<1>2. /\ m \in Message /\ handler'.stage = "resume" /\ handler'.msg = m
      /\ OneAtATime' /\ Awaiting(t)
      /\ \A i \in 1..Len(queue'), u \in Threads : ResumeOf(queue'[i], u) => Awaiting(u)
  BY <1>1, TakenFacts
<1>3. t \in Threads
  BY <1>1, <1>2, MessageFacts
<1> HIDE DEF m
<1>4. \A u \in Threads \ {t} : SameMode(u)
  BY <1>1 DEF Remode, Restrict, SameMode
<1>5. m.op \in Steps => t \in DOMAIN stepping' /\ stepping'[t] = [op |-> m.op, depth |-> depth[t]]
  <2> SUFFICES ASSUME m.op \in Steps
               PROVE  t \in DOMAIN stepping' /\ stepping'[t] = [op |-> m.op, depth |-> depth[t]]
    OBVIOUS
  <2>1. stepping' = [u \in DOMAIN stepping \cup {t} |-> IF u = t THEN ModeOf(m.op, t) ELSE stepping[u]]
    BY <1>1, ContinueIsNoStep DEF Remode
  <2>2. ModeOf(m.op, t) = [op |-> m.op, depth |-> depth[t]]
    BY <1>2 DEF ModeOf, Awaiting
  <2> QED  BY <2>1, <2>2
<1>6. Aimed'
  BY <1>1, <1>2, <1>5 DEF Aimed, Awaiting, ResumeOf, ModeSet
<1>7. ~Leaving /\ \A u \in Threads : ~ResumeOf(handler.msg, u)
  BY <1>1, ContinueIsNoStep DEF DebugInv, HandlerHolds, Leaving, ResumeOf
<1>8. ASSUME NEW u \in Threads PROVE Consistent(u)'
  <2>1. Consistent(u)
    BY DEF StepInv
  <2>2. CASE u = t
    BY <1>1, <1>2, <1>7, <2>1, <2>2, ContinueIsNoStep DEF Consistent, Awaiting
  <2>3. CASE u # t
    <3>1. SameMode(u)
      BY <1>4, <2>3
    <3> QED  BY <1>1, <1>7, <2>1, <3>1 DEF Consistent, Awaiting, SameMode
  <2> QED  BY <2>2, <2>3
<1> QED
  BY <1>1, <1>2, <1>6, <1>8 DEF StepInv

\* The thread is resumed in the mode that was set for it.
LEMMA ResumeStepInv == ASSUME DebugInv, StepInv, Resume PROVE StepInv'
<1> DEFINE m == handler.msg
           t == m.thread
<1>1. /\ handler.stage = "resume" /\ handler' = [stage |-> "respond", msg |-> m]
      /\ paused' = paused \ {t}
      /\ promise' = [u \in Threads |-> IF u \in paused \cap {t} THEN ModeOf(m.op, u) ELSE promise[u]]
      /\ UNCHANGED <<pc, depth, stepping, view, queue>>
  BY DEF Resume, At, Then, Release, client
<1>2. /\ m.op \in Resumes /\ t \in Threads /\ m.op # "disconnect"
      /\ Awaiting(t) /\ ModeSet(m) /\ OneAtATime
  BY <1>1 DEF DebugInv, HandlerHolds, StepInv, Aimed, Resumes, Steps
<1>3. handler'.stage = "respond" /\ handler'.msg = m
  BY <1>1
<1>4. OneAtATime'
  BY <1>1, <1>2, <1>3 DEF OneAtATime, ResumeOf
<1>5. Aimed'
  <2>1. \A i \in 1..Len(queue), u \in Threads : ResumeOf(queue[i], u) => Awaiting(u) /\ u # t
    BY <1>2 DEF StepInv, Aimed, OneAtATime, ResumeOf
  <2> QED  BY <1>1, <1>3, <2>1 DEF Aimed, Awaiting, ResumeOf
<1>6. promise'[t] = [op |-> m.op, depth |-> depth[t]]
  BY <1>1, <1>2 DEF ModeOf, Awaiting
<1>7. \A u \in Threads \ {t} : promise'[u] = promise[u]
  BY <1>1
<1> HIDE DEF m
<1>8. ASSUME NEW u \in Threads PROVE Consistent(u)'
  <2>1. Consistent(u)
    BY DEF StepInv
  <2>2. CASE u = t
    <3>1. ResumeOf(m, u) /\ pc[u] # "tell" /\ u \notin paused'
      BY <1>1, <1>2, <2>2 DEF ResumeOf, Awaiting
    <3> QED  BY <1>1, <1>2, <1>3, <1>6, <2>2, <3>1 DEF Consistent, ModeSet, ResumeOf
  <2>3. CASE u # t
    <3>1. u \in paused' <=> u \in paused
      BY <1>1, <2>3
    <3>2. ~Leaving /\ ~ResumeOf(handler.msg, u)
      BY <1>1, <1>2, <2>3 DEF Leaving, ResumeOf, m
    <3> QED  BY <1>1, <1>7, <2>1, <2>3, <3>1, <3>2 DEF Consistent, Awaiting
  <2> QED  BY <2>2, <2>3
<1> QED
  BY <1>1, <1>4, <1>5, <1>8 DEF StepInv

\* A disconnect resumes every thread, and nothing is on the way behind it.
LEMMA DisconnectStepInv == ASSUME DebugInv, StepInv, HandleDisconnect PROVE StepInv'
<1>1. /\ queue # <<>> /\ Head(queue).op = "disconnect" /\ Take("respond")
      /\ paused' = paused \ Threads
      /\ promise' = [u \in Threads |->
                       IF u \in paused \cap Threads THEN ModeOf("continue", u) ELSE promise[u]]
      /\ UNCHANGED <<pc, depth, stepping, view>>
  BY DEF HandleDisconnect, Got, Release
<1>2. handler'.msg.op = "disconnect" /\ handler'.stage = "respond" /\ queue' = <<>> /\ OneAtATime'
  BY <1>1, TakenFacts
<1>3. Aimed'
  BY <1>2 DEF Aimed
<1>4. ASSUME NEW u \in Threads PROVE Consistent(u)'
  <2>1. Consistent(u)
    BY DEF StepInv
  <2>2. promise'[u].op = "continue" \/ promise'[u] = promise[u]
    BY <1>1 DEF ModeOf
  <2>3. u \notin paused' /\ Leaving'
    BY <1>1, <1>2 DEF Leaving
  <2> QED  BY <1>1, <2>1, <2>2, <2>3, ContinueIsNoStep DEF Consistent
<1> QED
  BY <1>1, <1>2, <1>3, <1>4 DEF StepInv

\* The handler ends, and takes nothing more.
LEMMA EndStepInv ==
  ASSUME DebugInv, StepInv, Then("ended", NoMessage),
         UNCHANGED <<pc, depth, stepping, paused, promise>>,
         queue' = queue \/ queue' = <<>>
  PROVE  StepInv'
<1>1. handler'.stage = "ended" /\ handler'.msg.op = "none"
  BY DEF Then, NoMessage
<1>2. OneAtATime'
  <2>1. OneAtATime
    BY DEF StepInv
  <2> QED  BY <1>1, <2>1, ContinueIsNoStep DEF OneAtATime, ResumeOf
<1>3. Aimed'
  <2>1. Aimed
    BY DEF StepInv
  <2> QED  BY <1>1, <2>1 DEF Aimed, ResumeOf, Awaiting
<1>4. ASSUME NEW u \in Threads PROVE Consistent(u)'
  <2>1. Consistent(u)
    BY DEF StepInv
  <2> QED  BY <1>1, <2>1 DEF Consistent, Leaving, Awaiting
<1> QED
  BY <1>2, <1>3, <1>4 DEF StepInv

\* The client is answered, and no longer shows the thread as stopped.
LEMMA RespondStepInv == ASSUME DebugInv, StepInv, Respond PROVE StepInv'
<1> USE DEF maps, threads
<1>1. /\ handler.stage = "respond"
      /\ UNCHANGED <<pc, depth, stepping, paused, promise, queue>>
  BY DEF Respond, At
<1>2. CASE Then("ended", NoMessage)
  BY <1>1, <1>2, EndStepInv
<1>3. CASE ~Then("ended", NoMessage)
  <2>1. /\ handler.msg.op # "disconnect" /\ Then("read", NoMessage)
        /\ view' = IF handler.msg.op \in Resumes THEN view \ {handler.msg.thread} ELSE view
    BY <1>3 DEF Respond, End
  <2>2. handler'.stage = "read" /\ handler'.msg.op = "none"
    BY <2>1 DEF Then, NoMessage
  <2>3. OneAtATime'
    <3>1. OneAtATime
      BY DEF StepInv
    <3> QED  BY <1>1, <2>2, <3>1, ContinueIsNoStep DEF OneAtATime, ResumeOf
  <2>4. Aimed'
    <3>1. Aimed
      BY DEF StepInv
    <3> QED  BY <1>1, <2>2, <3>1 DEF Aimed, ResumeOf, Awaiting
  <2>5. ASSUME NEW u \in Threads PROVE Consistent(u)'
    <3>1. Consistent(u) /\ ~Leaving
      BY <1>1, <2>1 DEF StepInv, Leaving
    <3>2. u \in view' => u \in view /\ ~ResumeOf(handler.msg, u)
      BY <2>1 DEF ResumeOf
    <3> QED  BY <1>1, <3>1, <3>2 DEF Consistent, Awaiting
  <2> QED  BY <1>1, <2>3, <2>4, <2>5 DEF StepInv
<1> QED
  BY <1>2, <1>3

\* Steps of the handler and the main task that move no thread and no message.
LEMMA StillStepInv ==
  ASSUME DebugInv, StepInv,
         UNCHANGED <<pc, depth, stepping, paused, promise, queue>>,
         view' = view \/ view' = {},
         handler'.msg = handler.msg,
         handler'.stage = handler.stage \/ (handler.stage # "ended" /\ handler'.stage = "respond")
  PROVE  StepInv'
<1>1. OneAtATime'
  <2>1. OneAtATime
    BY DEF StepInv
  <2> QED  BY <2>1 DEF OneAtATime, ResumeOf
<1>2. Aimed'
  <2>1. Aimed
    BY DEF StepInv
  <2> QED  BY <2>1 DEF Aimed, ResumeOf, Awaiting, ModeSet
<1>3. ASSUME NEW u \in Threads PROVE Consistent(u)'
  <2>1. Consistent(u)
    BY DEF StepInv
  <2> QED  BY <2>1 DEF Consistent, Leaving, Awaiting, ResumeOf
<1> QED
  BY <1>1, <1>2, <1>3 DEF StepInv

\* A step of the message handler.
LEMMA HandlerStepInv == ASSUME DebugInv, StepInv, HandlerStep PROVE StepInv'
<1> USE DEF maps, threads, client
<1>1. CASE HandleSetBreakpoints
  <2>1. /\ Got("setBreakpoints") /\ Take("respond")
        /\ UNCHANGED <<pc, depth, stepping, paused, promise, view>>
    BY <1>1 DEF HandleSetBreakpoints
  <2> QED  BY <2>1, TakeStepInv DEF Resumes, Steps
<1>2. CASE HandleConfigurationDone
  <2>1. /\ Got("configurationDone") /\ Take("notify")
        /\ UNCHANGED <<pc, depth, stepping, paused, promise, view>>
    BY <1>2 DEF HandleConfigurationDone
  <2> QED  BY <2>1, TakeStepInv DEF Resumes, Steps
<1>3. CASE NotifyWaiters
  <2>1. handler.stage = "notify" /\ handler'.stage = "respond" /\ handler'.msg = handler.msg
    BY <1>3 DEF NotifyWaiters, At, Then
  <2>2. UNCHANGED <<pc, depth, stepping, paused, promise, queue, view>>
    BY <1>3 DEF NotifyWaiters
  <2> QED  BY <2>1, <2>2, StillStepInv
<1>4. CASE Lose
  <2>1. /\ Then("ended", NoMessage) /\ queue' = <<>>
        /\ UNCHANGED <<pc, depth, stepping, paused, promise>>
    BY <1>4 DEF Lose, End
  <2> QED  BY <2>1, EndStepInv
<1> QED
  BY <1>1, <1>2, <1>3, <1>4, HandleResumeStepInv, ResumeStepInv, DisconnectStepInv,
     RespondStepInv DEF HandlerStep

\* The main task, and a client that vanishes.
LEMMA MainStepInv ==
  ASSUME DebugInv, StepInv, MainLoad \/ MainSubscribe \/ Exit \/ Vanish PROVE StepInv'
<1>1. /\ UNCHANGED <<pc, depth, stepping, paused, promise, queue, handler>>
      /\ view' = view \/ view' = {}
  BY DEF MainLoad, MainSubscribe, Exit, Vanish, maps, threads, client
<1> QED
  BY <1>1, StillStepInv

\* A client that does not repeat itself commands a thread it shows as stopped,
\* and that has been sent no other command: one that waits.
LEMMA ClientStepInv ==
  ASSUME DebugInv, StepInv, ~Repeats, NEW m \in Message, ClientSends(m) PROVE StepInv'
<1> DEFINE l == Len(queue)
<1>1. /\ queue \in Seq(Message) /\ l \in Nat
      /\ queue' = Append(queue, m)
      /\ UNCHANGED <<pc, depth, stepping, paused, promise, handler, view>>
  BY DEF DebugInv, DebugTyped, ClientSends, maps, threads
<1>2. /\ queue' \in Seq(Message) /\ Len(queue') = l + 1 /\ queue'[l + 1] = m
      /\ \A i \in 1..l : queue'[i] = queue[i]
  BY <1>1
<1>3. \A i \in 1..(l + 1) : i \in 1..l \/ i = l + 1
  BY <1>1
<1>4. \A i \in 1..l : queue[i] \in OnTheWay
  BY <1>1 DEF OnTheWay, Range
<1>5. /\ \A i \in 1..l : queue[i].op # "disconnect"
      /\ handler.msg.op # "disconnect" /\ handler.stage # "ended"
  BY <1>4 DEF ClientSends, OnTheWay
<1>6. ASSUME NEW t \in Threads, ResumeOf(m, t)
      PROVE  /\ t \in view /\ ~ResumeOf(handler.msg, t)
             /\ \A i \in 1..l : ~ResumeOf(queue[i], t)
  BY <1>4, <1>6 DEF ClientSends, MaySend, OnTheWay, ResumeOf
<1>7. OneAtATime /\ Aimed
  BY DEF StepInv
<1>8. OneAtATime'
  <2>1. ASSUME NEW i \in 1..(l + 1), NEW j \in 1..(l + 1), NEW t \in Threads,
               ResumeOf(queue'[i], t), ResumeOf(queue'[j], t)
        PROVE  i = j
    BY <1>2, <1>3, <1>6, <1>7, <2>1 DEF OneAtATime
  <2>2. ASSUME NEW i \in 1..(l + 1), NEW t \in Threads, ResumeOf(queue'[i], t)
        PROVE  ~ResumeOf(handler.msg, t)
    BY <1>2, <1>3, <1>6, <1>7, <2>2 DEF OneAtATime
  <2>3. \A i \in 1..(l + 1) : queue'[i].op = "disconnect" => i = l + 1
    BY <1>2, <1>3, <1>5
  <2> HIDE DEF l
  <2> QED  BY <1>1, <1>2, <1>5, <2>1, <2>2, <2>3 DEF OneAtATime, ResumeOf
<1>9. Aimed'
  <2>1. ASSUME NEW i \in 1..(l + 1), NEW t \in Threads, ResumeOf(queue'[i], t)
        PROVE  Awaiting(t)
    <3>1. CASE i \in 1..l
      BY <1>2, <1>7, <2>1, <3>1 DEF Aimed
    <3>2. CASE i = l + 1
      <4>1. t \in view /\ ~ResumeOf(handler.msg, t) /\ ~Leaving
        BY <1>2, <1>5, <1>6, <2>1, <3>2 DEF Leaving
      <4>2. Consistent(t)
        BY DEF StepInv
      <4> QED  BY <4>1, <4>2 DEF Consistent
    <3> QED  BY <1>3, <3>1, <3>2
  <2> HIDE DEF l
  <2> QED  BY <1>1, <1>2, <1>7, <2>1 DEF Aimed, Awaiting, ResumeOf, ModeSet
<1>10. ASSUME NEW u \in Threads PROVE Consistent(u)'
  <2>1. Consistent(u)
    BY DEF StepInv
  <2> QED  BY <1>1, <2>1 DEF Consistent, Leaving, Awaiting, ResumeOf
<1> QED
  BY <1>1, <1>8, <1>9, <1>10 DEF StepInv

---------------------------------------------------------------------------
\* No step breaks the second invariant.
LEMMA NextStepInv == ~Repeats /\ DebugInv /\ StepInv /\ [DebugNext]_(debugVars) => StepInv'
<1> SUFFICES ASSUME ~Repeats, DebugInv, StepInv, [DebugNext]_(debugVars) PROVE StepInv'
  OBVIOUS
<1>1. ASSUME NEW t \in Threads, ThreadStep(t) \/ Drop(t) PROVE StepInv'
  BY <1>1, ThreadStepInv
<1>2. CASE HandlerStep
  BY <1>2, HandlerStepInv
<1>3. ASSUME NEW m \in Message, ClientSends(m) PROVE StepInv'
  BY <1>3, ClientStepInv
<1>4. CASE MainLoad \/ MainSubscribe \/ Exit \/ Vanish
  BY <1>4, MainStepInv
<1>5. CASE UNCHANGED debugVars
  BY <1>5, StillStepInv DEF debugVars, maps, threads, client
<1> QED
  BY <1>1, <1>2, <1>3, <1>4, <1>5 DEF DebugNext

\* A thread that passes a step was not promised to stop there.
LEMMA PassedAsPromised ==
  StepInv => \A t \in Threads : Decide(t) /\ ~Stops(t) => ~SteppingStops(promise[t], depth[t])
<1> SUFFICES ASSUME StepInv, NEW t \in Threads, Decide(t),
                    SteppingStops(promise[t], depth[t])
             PROVE  Stops(t)
  OBVIOUS
<1>1. promise[t].op \in Steps /\ pc[t] = "hook"
  BY DEF SteppingStops, Steps, Decide
<1>2. t \in DOMAIN stepping /\ stepping[t] = promise[t]
  BY <1>1 DEF StepInv, Consistent
<1> QED
  BY <1>2 DEF Stops

\* Unless the client repeats a command before it is answered, no thread
\* resumed by next, stepIn or stepOut passes the step where it has to stop,
\* whatever the other threads and their commands do (hook.rs, dap_server.rs).
THEOREM StepsLand == DebugSpec => (~Repeats => NoOvershoot)
<1>1. ASSUME ~Repeats PROVE DebugSpec => []StepInv
  <2>1. DebugInv /\ StepInv /\ [DebugNext]_(debugVars) => StepInv'
    BY <1>1, NextStepInv
  <2> QED  BY DebugInvariance, InitStepInv, <2>1, PTL DEF DebugSpec
<1>2. StepInv => \A t \in Threads : Decide(t) /\ ~Stops(t) => ~SteppingStops(promise[t], depth[t])
  BY PassedAsPromised
<1>3. DebugSpec /\ []StepInv => NoOvershoot
  BY <1>2, PTL DEF DebugSpec, NoOvershoot
<1> QED
  BY <1>1, <1>3
=============================================================================
