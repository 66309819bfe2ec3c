--------------------------- MODULE RequestProofs ---------------------------
(***************************************************************************)
(* Proofs about one request, from its arrival to its answer                *)
(* (RequestEntry), and about what runs concurrently within it: the fields  *)
(* and loads of a `graphql' step (GraphqlQuery), and the tasks of `@async' *)
(* steps and their joins (AsyncTasks).                                     *)
(*                                                                         *)
(* For any programs, flags and calls a run asks for no flag that the       *)
(* search has not foreseen and has none that was not given.  For any       *)
(* queries and interleavings of fields and loads the context comes back    *)
(* whole, a field gets what its own pipeline answered for its own key, and *)
(* the state the step leaves tells of all fields and errors.  A task's     *)
(* handle is joined once, and a join that ends carries every task it found.*)
(***************************************************************************)
EXTENDS RequestEntry, GraphqlQuery, AsyncTasks, FiniteSetTheorems, SequenceTheorems, TLAPS

Holding == {"resolving", "preparing", "finishing"}
Asking == {"before", "preparing", "ask", "loading", "loaded", "refused", "after", "finishing"}
Places == {"unborn", "read", "resolve", "resolving", "misplaced"} \cup Asking \cup Settled

IsLoader(f) == query[f].steps = "loader"

\* The keys of a load, asked for or answered.
KeysOf(l) ==
  (UNION l.groups) \cup (UNION {r.group : r \in l.running}) \cup {g.key : g \in l.got}

\* A key is some loader field's.
Owned(k) == \E f \in Fields : IsLoader(f) /\ k = LoaderKey(f)

\* What came for a key is null or an entry of its pipeline for it, with what
\* one of the fields that name the pipeline asked for.
Answered(g) ==
  /\ Owned(g.key)
  /\ \/ g.value = Null
     \/ /\ g.value.name = g.key.name
        /\ g.value.key = KeyString[g.key.key]
        /\ \E f \in Fields : /\ IsLoader(f) /\ query[f].name = g.key.name
                             /\ g.value.args = query[f].args
                             /\ g.value.module = query[f].module

Group(g) == (\A k \in g : Owned(k)) /\ \A k, j \in g : k.name = j.name

Sought(f, keys) == \E k \in keys : SameKey(k, LoaderKey(f))

LoadSound(l) ==
  /\ \A g \in l.groups : Group(g)
  /\ \A r \in l.running : Group(r.group) /\ r.first \in r.group
  /\ \A g \in l.got : Answered(g)
  /\ \A f \in l.fields : Sought(f, KeysOf(l))

LoadFields(l) ==
  l = [groups |-> l.groups, running |-> l.running, got |-> l.got, fields |-> l.fields]

Typed ==
  /\ \A f \in Fields : query[f].steps \in {"none", "pipeline", "loader"}
  /\ at \in [Fields -> Places] /\ DOMAIN value = Fields
  /\ \A f \in Fields : at[f] \in Asking => IsLoader(f)
  /\ open.fields \subseteq Fields
  /\ \A l \in loads :
       /\ l.fields \subseteq Fields
       /\ LoadFields(l)

\* Nobody works without the mutex, and only one field or load has it.
Exclusive ==
  /\ \A f \in Fields : at[f] \in Holding <=> lock = Work("field", f)
  /\ \A l \in loads : \A r \in l.running : lock = Work("load", r.group)
  /\ \A l, m \in loads : l.running # {} /\ m.running # {} => l = m

\* A context with that much of the profiler's stack is whole.
Whole(c, stack) ==
  /\ stack \in Seq(left)
  /\ lost = {} => c.own = TRUE /\ c.log = ran /\ left \subseteq Range(stack)

\* Who has the mutex has the last entry of the stack, on top of what others left.
Stacked ==
  /\ returned = {} =>
       /\ ctx = [own |-> ctx.own, stack |-> ctx.stack, log |-> ctx.log]
       /\ lock = Nobody => Whole(ctx, ctx.stack)
       /\ lock # Nobody => \E base \in Seq(left) :
                            ctx.stack = Append(base, lock) /\ Whole(ctx, base)
  /\ \A c \in returned : Whole(c, c.stack)

Over == returned # {} => \A f \in Fields : at[f] \in Settled

Keyed ==
  /\ \A k \in open.keys : Owned(k)
  /\ \A f \in open.fields : Sought(f, open.keys)
  /\ \A l \in loads : LoadSound(l)

Told ==
  result # None =>
    /\ returned # {}
    /\ result = IF Unwraps(Response.data)
                  THEN [data |-> {target}, errors |-> FALSE, bare |-> TRUE]
                  ELSE [data |-> Response.data, errors |-> Response.errors, bare |-> FALSE]

IInv == Typed /\ Exclusive /\ Stacked /\ Over /\ Keyed /\ OwnAnswer /\ Told

---------------------------------------------------------------------------
(***************************************************************************)
(* The profiler's stack.                                                   *)
(***************************************************************************)
\* A pop undoes the last push.
LEMMA Popped ==
  ASSUME NEW S, NEW base \in Seq(S), NEW w
  PROVE  /\ Pop(Append(base, w)) = base
         /\ Append(base, w) \in Seq(S \cup {w})
         /\ base \in Seq(S \cup {w})
         /\ Range(Append(base, w)) = Range(base) \cup {w}
<1> DEFINE s == Append(base, w)
<1>1. base \in Seq(S \cup {w})
  OBVIOUS
<1>2. /\ s \in Seq(S \cup {w}) /\ Len(s) = Len(base) + 1 /\ Len(base) \in Nat
      /\ \A i \in 1..Len(base) : s[i] = base[i]
      /\ s[Len(base) + 1] = w
  BY <1>1
<1> HIDE DEF s
<1>3. Pop(s) = base
  <2>1. /\ Pop(s) \in Seq(S \cup {w}) /\ Len(Pop(s)) = Len(base)
        /\ \A i \in 1..Len(base) : Pop(s)[i] = s[i]
    BY <1>2 DEF Pop
  <2> QED  BY <1>1, <1>2, <2>1, SeqEqual
<1>4. Range(s) = Range(base) \cup {w}
  <2>1. DOMAIN s = 1..(Len(base) + 1) /\ DOMAIN base = 1..Len(base)
    BY <1>1, <1>2
  <2>2. \A i \in 1..(Len(base) + 1) : i \in 1..Len(base) \/ i = Len(base) + 1
    BY <1>2
  <2>3. 1..Len(base) \subseteq 1..(Len(base) + 1) /\ Len(base) + 1 \in 1..(Len(base) + 1)
    BY <1>2
  <2> QED  BY <1>2, <2>1, <2>2, <2>3 DEF Range
<1> QED  BY <1>1, <1>2, <1>3, <1>4 DEF s

\* Who lets the mutex go leaves a whole context, or is named among those who did not.
LEMMA LetsGo ==
  ASSUME Stacked, NEW ends, lock # Nobody, LetGo(lock, ends), UNCHANGED <<returned, ran>>
  PROVE  Stacked'
<1>1. lock' = Nobody
  BY DEF LetGo
<1>2. CASE returned # {}
  <2>1. left' = left /\ lost' = lost
    BY <1>2 DEF LetGo, history
  <2> QED  BY <1>2, <2>1 DEF Stacked, Whole
<1>3. CASE returned = {}
  <2>1. PICK base \in Seq(left) : ctx.stack = Append(base, lock) /\ Whole(ctx, base)
    BY <1>3 DEF Stacked
  <2>2. ctx = [own |-> ctx.own, stack |-> ctx.stack, log |-> ctx.log]
    BY <1>3 DEF Stacked
  <2>3. /\ Pop(ctx.stack) = base
        /\ ctx.stack \in Seq(left \cup {lock})
        /\ Range(ctx.stack) = Range(base) \cup {lock}
    <3>1. /\ Pop(Append(base, lock)) = base
          /\ Append(base, lock) \in Seq(left \cup {lock})
          /\ Range(Append(base, lock)) = Range(base) \cup {lock}
      BY Popped
    <3> QED  BY <2>1, <3>1
  <2>4. CASE ctx' = [ctx EXCEPT !.stack = Pop(@)] /\ UNCHANGED history
    <3>1. /\ ctx' = [own |-> ctx.own, stack |-> base, log |-> ctx.log]
          /\ left' = left /\ lost' = lost
      BY <2>2, <2>3, <2>4 DEF history
    <3>2. Whole(ctx, ctx.stack)'
      BY <2>1, <3>1 DEF Whole
    <3> QED  BY <1>1, <1>3, <3>1, <3>2 DEF Stacked
  <2>5. CASE left' = left \cup {lock} /\ UNCHANGED <<ctx, lost>>
    <3>1. Whole(ctx, ctx.stack)'
      BY <2>1, <2>3, <2>5 DEF Whole
    <3> QED  BY <1>1, <1>3, <2>2, <2>5, <3>1 DEF Stacked
  <2>6. ASSUME NEW stack \in {<<>>, <<lock>>},
               ctx' = [Context(FALSE) EXCEPT !.stack = stack],
               left' = left \cup Range(stack), lost' = lost \cup {lock}
        PROVE  Stacked'
    <3>1. ctx' = [own |-> FALSE, stack |-> stack, log |-> {}]
      BY <2>6 DEF Context
    <3>2. stack \in Seq(Range(stack))
      <4>1. CASE stack = <<>>
        BY <4>1
      <4>2. CASE stack = <<lock>>
        <5>1. Range(stack) = {lock}
          BY <4>2 DEF Range
        <5> QED  BY <4>2, <5>1
      <4> QED  BY <4>1, <4>2
    <3>3. stack \in Seq(left')
      BY <2>6, <3>2
    <3>4. Whole(ctx, ctx.stack)'
      BY <2>6, <3>1, <3>3 DEF Whole
    <3> QED  BY <1>1, <1>3, <3>1, <3>4 DEF Stacked
  <2> QED  BY <1>3, <2>4, <2>5, <2>6 DEF LetGo
<1> QED  BY <1>2, <1>3

\* Who takes the mutex pushes an entry of its own on what it finds.
LEMMA Takes ==
  ASSUME Stacked, NEW w, w # Nobody, lock = Nobody, lock' = w, ctx' = Pushed(w),
         ran' = IF returned = {} THEN ran \cup {w} ELSE ran,
         UNCHANGED <<returned, history>>
  PROVE  Stacked'
<1>1. left' = left /\ lost' = lost
  BY DEF history
<1>2. CASE returned # {}
  BY <1>1, <1>2 DEF Stacked, Whole
<1>3. CASE returned = {}
  <2>1. PICK base, own, log : /\ ctx = [own |-> own, stack |-> base, log |-> log]
                              /\ Whole(ctx, base)
    BY <1>3 DEF Stacked
  <2>2. ctx' = [own |-> own, stack |-> Append(base, w), log |-> log \cup {w}]
    <3> DEFINE a == Append(base, w)  b == log \cup {w}
    <3>1. ctx' = [[ctx EXCEPT !.stack = a] EXCEPT !.log = b]
      BY <2>1 DEF Pushed
    <3> HIDE DEF a, b
    <3>2. [ctx EXCEPT !.stack = a] = [own |-> own, stack |-> a, log |-> log]
      BY <2>1
    <3>3. ctx' = [own |-> own, stack |-> a, log |-> b]
      BY <3>1, <3>2
    <3> QED  BY <3>3 DEF a, b
  <2>3. base \in Seq(left) /\ Whole(ctx, base)'
    BY <1>1, <1>3, <2>1, <2>2 DEF Whole
  <2>4. /\ ctx' = [own |-> ctx'.own, stack |-> ctx'.stack, log |-> ctx'.log]
        /\ ctx'.stack = Append(base, w)
    BY <2>2
  <2> QED  BY <1>1, <1>3, <2>3, <2>4 DEF Stacked
<1> QED  BY <1>2, <1>3

\* Nothing else touches it.
LEMMA StackKept ==
  ASSUME Stacked, UNCHANGED <<lock, ctx, returned, ran, history>>
  PROVE  Stacked'
BY DEF Stacked, Whole, history

---------------------------------------------------------------------------
(***************************************************************************)
(* Fields that end.                                                        *)
(***************************************************************************)
\* What the end of a field does to the others and to the mutex.
LEMMA EndFacts ==
  ASSUME IInv, NEW f \in Fields, NEW outcome \in {"done", "null", "failed"},
         NEW ends, End(f, outcome, ends), query' = query, at[f] \notin Settled
  PROVE  /\ at' \in [Fields -> Places]
         /\ at'[f] \in Settled
         /\ \A g \in Fields : at'[g] \in {at[g]} \cup Settled
         /\ \A g \in Fields : at[g] \in Settled => at'[g] \in Settled
         /\ \A g \in Fields : at'[g] \in Holding <=> lock' = Work("field", g)
         /\ \/ UNCHANGED <<lock, ctx, history>>
            \/ lock # Nobody /\ \E e : LetGo(lock, e)
         /\ lock' = lock \/ (lock' = Nobody /\ \E g \in Fields : lock = Work("field", g))
<1> DEFINE ended == Ended(f, outcome)
           holder == {g \in Fields : lock = Work("field", g) /\ (g = f \/ ended[g] = "dropped")}
<1>1. /\ at' = ended
      /\ holder = {} => UNCHANGED <<lock, ctx, history>>
      /\ holder # {} => lock' = Nobody /\ \E e : LetGo(lock, e)
  BY DEF End, LetGo
<1>2. /\ Outcome(f, outcome) \in {"done", "null", "failed"}
      /\ ended[f] = Outcome(f, outcome)
      /\ ended \in [Fields -> Places]
      /\ \A g \in Fields \ {f} : ended[g] \in {at[g], "dropped"}
  BY DEF Ended, Outcome, IInv, Typed, Places, Settled
<1>3. \A g, h \in Fields : lock = Work("field", g) /\ lock = Work("field", h) => g = h
  BY DEF Work
<1>4. \A g \in Fields : lock = Work("field", g) => lock # Nobody
  BY DEF Work, Nobody
<1>5. \A g \in Fields : Nobody # Work("field", g)
  BY DEF Work, Nobody
<1>6. \A g \in Fields : at[g] \in Holding <=> lock = Work("field", g)
  BY DEF IInv, Exclusive
<1>7. Settled \cap Holding = {} /\ "dropped" \in Settled /\ {"done", "null", "failed"} \subseteq Settled
  BY DEF Settled, Holding
<1>8. holder # {} => \E g \in Fields : holder = {g} /\ lock = Work("field", g)
  BY <1>3
<1> HIDE DEF ended, holder
<1>9. \A g \in Fields : g \in holder <=> lock = Work("field", g) /\ (g = f \/ ended[g] = "dropped")
  BY DEF holder
<1>10. \A g \in Fields : at'[g] \in Holding <=> lock' = Work("field", g)
  <2>1. CASE holder = {}
    BY <1>1, <1>2, <1>6, <1>7, <1>9, <2>1
  <2>2. CASE holder # {}
    BY <1>1, <1>2, <1>3, <1>5, <1>6, <1>7, <1>8, <1>9, <2>2
  <2> QED  BY <2>1, <2>2
<1>11. \/ UNCHANGED <<lock, ctx, history>>
       \/ lock # Nobody /\ \E e : LetGo(lock, e)
  BY <1>1, <1>4, <1>8
<1>13. at' \in [Fields -> Places] /\ at'[f] \in Settled
  BY <1>1, <1>2, <1>7
<1>14. \A g \in Fields : at'[g] \in {at[g]} \cup Settled
  BY <1>1, <1>2, <1>7
<1>16. \A g \in Fields : at[g] \in Settled => at'[g] \in Settled
  BY <1>14
<1>15. lock' = lock \/ (lock' = Nobody /\ \E g \in Fields : lock = Work("field", g))
  <2>1. CASE holder = {}
    BY <1>1, <2>1
  <2>2. CASE holder # {}
    BY <1>1, <1>8, <2>2
  <2> QED  BY <2>1, <2>2
<1> QED
  BY <1>10, <1>11, <1>13, <1>14, <1>15, <1>16

\* What a step of a field has to leave as it is for the parts of the invariant
\* that it has no business with.
LEMMA RestKept ==
  ASSUME IInv, UNCHANGED <<query, value, open, loads>>
  PROVE  Keyed' /\ OwnAnswer'
BY DEF IInv, Keyed, OwnAnswer, LoadSound, Group, Answered, Owned, Sought, KeysOf, IsLoader,
       LoaderKey, SameKey, Fields

\* While a field is under way there is neither a context to give back nor a result.
LEMMA NotOver ==
  ASSUME IInv, NEW f \in Fields, at[f] \notin Settled
  PROVE  returned = {} /\ result = None
BY DEF IInv, Over, Told

\* A field that ends, whichever way.
LEMMA FieldEnds ==
  ASSUME IInv, NEW f \in Fields, NEW outcome \in {"done", "null", "failed"},
         NEW ends, End(f, outcome, ends), at[f] \notin Settled,
         UNCHANGED <<asked, value, open, loads, returned, result, ran>>
  PROVE  IInv'
<1>1. UNCHANGED <<query, mutation, target, value, open, loads, returned, result, ran>>
  BY DEF asked
<1>2. returned = {} /\ result = None
  BY NotOver
<1>3. Keyed' /\ OwnAnswer'
  BY RestKept, <1>1
<1>4. Over' /\ Told'
  BY <1>1, <1>2 DEF Over, Told
<1>5. /\ Fields' = Fields
      /\ at' \in [Fields -> Places]
      /\ at'[f] \in Settled
      /\ \A g \in Fields : at'[g] \in {at[g]} \cup Settled
      /\ \A g \in Fields : at[g] \in Settled => at'[g] \in Settled
      /\ \A g \in Fields : at'[g] \in Holding <=> lock' = Work("field", g)
      /\ \/ UNCHANGED <<lock, ctx, history>>
         \/ lock # Nobody /\ \E e : LetGo(lock, e)
      /\ lock' = lock \/ (lock' = Nobody /\ \E g \in Fields : lock = Work("field", g))
  BY EndFacts, <1>1 DEF Fields
<1>6. Typed'
  BY <1>1, <1>5 DEF IInv, Typed, IsLoader, Asking, Settled, Fields
<1>7. Exclusive'
  BY <1>1, <1>5 DEF IInv, Exclusive, Work
<1>8. Stacked'
  BY <1>1, <1>5, LetsGo, StackKept DEF IInv
<1> QED
  BY <1>3, <1>4, <1>6, <1>7, <1>8 DEF IInv

---------------------------------------------------------------------------
(***************************************************************************)
(* Fields that go on.                                                      *)
(***************************************************************************)
\* A field that neither takes the mutex nor lets it go.
LEMMA FieldMoves ==
  ASSUME IInv, NEW f \in Fields, NEW p \in Places,
         at[f] \notin Holding \cup Settled, p \notin Holding \cup Settled,
         p \in Asking => IsLoader(f),
         at' = [at EXCEPT ![f] = p], open'.fields \subseteq Fields,
         UNCHANGED <<asked, value, lock, ctx, loads, returned, result, ran, history>>
  PROVE  Typed' /\ Exclusive' /\ Stacked' /\ Over' /\ Told'
<1>1. /\ UNCHANGED <<query, mutation, target, value, lock, ctx, loads, returned, result, ran, history>>
      /\ Fields' = Fields
  BY DEF asked, Fields
<1>2. returned = {} /\ result = None
  BY NotOver
<1>3. at \in [Fields -> Places] /\ at' \in [Fields -> Places]
  BY DEF IInv, Typed
<1>4. at'[f] = p /\ \A g \in Fields \ {f} : at'[g] = at[g]
  BY <1>3
<1>5. Typed'
  BY <1>1, <1>3, <1>4 DEF IInv, Typed, IsLoader
<1>6. Exclusive'
  BY <1>1, <1>4 DEF IInv, Exclusive
<1>8. Stacked'
  BY <1>1, StackKept DEF IInv
<1> QED
  BY <1>1, <1>2, <1>5, <1>6, <1>8 DEF Over, Told

\* A field that starts, or whose load's answer goes to the steps that follow.
LEMMA FieldGoesOn ==
  ASSUME IInv, NEW f \in Fields,
         \/ Start(f)
         \/ Loaded(f) /\ at' = [at EXCEPT ![f] = "after"] /\ UNCHANGED <<lock, ctx, history>>
  PROVE  IInv'
<1>1. UNCHANGED <<asked, value, lock, ctx, open, loads, returned, result, ran, history>>
  BY DEF Start, Loaded
<1>2. UNCHANGED <<query, value, open, loads>>
  BY <1>1 DEF asked
<1>3. open'.fields \subseteq Fields
  BY <1>2 DEF IInv, Typed
<1>4. PICK p \in Places \ (Holding \cup Settled) :
        at' = [at EXCEPT ![f] = p] /\ (p \in Asking => IsLoader(f))
  <2>1. CASE Start(f)
    <3>1. Resolver(f) \in Places \ (Holding \cup Settled)
      <4>1. query[f].steps \in {"none", "pipeline", "loader"}
        BY DEF IInv, Typed
      <4>2. Resolver(f) \in {"read", "resolve", "misplaced", "before", "ask"}
        BY <4>1 DEF Resolver
      <4> QED  BY <4>2 DEF Places, Holding, Settled, Asking
    <3>2. Resolver(f) \in Asking => IsLoader(f)
      <4>1. query[f].steps \in {"none", "pipeline", "loader"}
        BY DEF IInv, Typed
      <4>2. query[f].steps = "none" => Resolver(f) = "read"
        BY DEF Resolver
      <4>3. query[f].steps = "pipeline" => Resolver(f) = "resolve"
        BY DEF Resolver
      <4> QED  BY <4>1, <4>2, <4>3 DEF Asking, IsLoader
    <3> QED  BY <2>1, <3>1, <3>2 DEF Start
  <2>2. CASE at' = [at EXCEPT ![f] = "after"] /\ Loaded(f)
    <3>1. "after" \in Places \ (Holding \cup Settled)
      BY DEF Places, Holding, Settled, Asking
    <3>2. IsLoader(f)
      BY <2>2 DEF Loaded, IInv, Typed, Asking
    <3> QED  BY <2>2, <3>1, <3>2
  <2> QED  BY <2>1, <2>2
<1>5. at[f] \notin Holding \cup Settled
  BY DEF Start, Loaded, Holding, Settled
<1> QED
  BY <1>1, <1>2, <1>3, <1>4, <1>5, FieldMoves, RestKept DEF IInv

\* A field that asks for its key is among those that will get an answer.
LEMMA FieldAsks ==
  ASSUME IInv, NEW f \in Fields, Ask(f)
  PROVE  IInv'
<1>1. UNCHANGED <<asked, value, lock, ctx, loads, returned, result, ran, history>>
  BY DEF Ask
<1>2. UNCHANGED <<query, value, loads>> /\ Fields' = Fields
  BY <1>1 DEF asked, Fields
<1>3. at[f] = "ask" /\ at' = [at EXCEPT ![f] = "loading"] /\ IsLoader(f)
  BY DEF Ask, IInv, Typed, Asking
<1>4. /\ open'.fields = open.fields \cup {f}
      /\ open'.keys = IF \E k \in open.keys : SameKey(k, LoaderKey(f)) THEN open.keys
                      ELSE open.keys \cup {LoaderKey(f)}
  BY DEF Ask
<1>5. Typed' /\ Exclusive' /\ Stacked' /\ Over' /\ Told'
  <2>1. "loading" \in Places /\ "loading" \notin Holding \cup Settled
    BY DEF Places, Holding, Settled, Asking
  <2>2. at[f] \notin Holding \cup Settled
    BY <1>3 DEF Holding, Settled
  <2>3. open'.fields \subseteq Fields
    BY <1>4 DEF IInv, Typed
  <2> QED  BY <1>1, <1>3, <2>1, <2>2, <2>3, FieldMoves
<1>6. OwnAnswer' /\ \A l \in loads' : LoadSound(l)'
  BY <1>2 DEF IInv, OwnAnswer, Keyed, LoadSound, Group, Answered, Owned, Sought, KeysOf,
       IsLoader, LoaderKey, SameKey
<1>7. \A k \in open'.keys : Owned(k)'
  <2>1. Owned(LoaderKey(f))
    BY <1>3 DEF Owned
  <2>2. \A k \in open'.keys : Owned(k)
    BY <1>4, <2>1 DEF IInv, Keyed
  <2> QED  BY <1>2, <2>2 DEF Owned, IsLoader, LoaderKey
<1>8. \A g \in open'.fields : Sought(g, open.keys)'
  <2>1. \A g \in open'.fields : Sought(g, open'.keys)
    <3>1. Sought(f, open'.keys)
      BY <1>4 DEF Sought, SameKey
    <3>2. \A g \in open.fields : Sought(g, open'.keys)
      BY <1>4 DEF IInv, Keyed, Sought
    <3> QED  BY <1>4, <3>1, <3>2
  <2> QED  BY <1>2, <2>1 DEF Sought, LoaderKey, SameKey
<1> QED
  BY <1>5, <1>6, <1>7, <1>8 DEF IInv, Keyed

---------------------------------------------------------------------------
(***************************************************************************)
(* Fields that take the mutex, and let it go.                              *)
(***************************************************************************)
\* A field that takes the mutex: as nobody has it, nobody is at work.
LEMMA FieldWorks ==
  ASSUME IInv, NEW f \in Fields, NEW p \in Holding,
         at[f] \notin Holding \cup Settled, p \in Asking => IsLoader(f),
         Works(f), at' = [at EXCEPT ![f] = p]
  PROVE  IInv'
<1>1. /\ UNCHANGED <<query, mutation, target, value, open, loads, returned, result, history>>
      /\ Fields' = Fields /\ ctx' = Pushed(Work("field", f))
      /\ lock = Nobody /\ lock' = Work("field", f) /\ ran' = ran \cup {Work("field", f)}
  BY DEF Works, asked, Fields
<1>2. returned = {} /\ result = None
  BY NotOver
<1>3. p \in Places /\ p \notin Settled
  BY DEF Places, Holding, Settled, Asking
<1>4. at \in [Fields -> Places] /\ at' \in [Fields -> Places]
  BY <1>3 DEF IInv, Typed
<1>5. at'[f] = p /\ \A g \in Fields \ {f} : at'[g] = at[g]
  BY <1>4
<1>6. Typed'
  BY <1>1, <1>4, <1>5 DEF IInv, Typed, IsLoader
<1>7. \A g \in Fields : at[g] \notin Holding
  BY <1>1 DEF IInv, Exclusive, Nobody, Work
<1>8. \A l \in loads : l.running = {}
  BY <1>1 DEF IInv, Exclusive, Nobody, Work
<1>9. Exclusive'
  BY <1>1, <1>5, <1>7, <1>8 DEF Exclusive, Work
<1>10. Work("field", f) # Nobody
  BY DEF Nobody, Work
<1>11. Stacked'
  BY <1>1, <1>2, <1>10, Takes DEF IInv
<1> QED
  BY <1>1, <1>2, <1>6, <1>9, <1>11, RestKept DEF IInv, Over, Told

\* A pipeline resolver, and the steps before and after a loader step, start.
LEMMA FieldTakes ==
  ASSUME IInv, NEW f \in Fields, Resolve(f) \/ Before(f) \/ After(f)
  PROVE  IInv'
<1>1. Works(f)
  BY DEF Resolve, Before, After, Steps
<1>2. at[f] \in {"resolve", "before", "after"}
  BY DEF Resolve, Before, After, Steps
<1>3. at[f] \notin Holding \cup Settled
  BY <1>2 DEF Holding, Settled
<1>4. CASE Resolve(f)
  <2>1. at' = [at EXCEPT ![f] = "resolving"]
    BY <1>4 DEF Resolve
  <2> QED  BY <1>1, <1>3, <2>1, FieldWorks DEF Holding, Asking
<1>5. CASE Before(f) \/ After(f)
  <2>1. PICK p \in {"preparing", "finishing"} : at' = [at EXCEPT ![f] = p]
    BY <1>5 DEF Before, After, Steps
  <2>2. IsLoader(f)
    BY <1>5 DEF Before, After, Steps, IInv, Typed, Asking
  <2>3. p \in Holding
    BY DEF Holding
  <2> QED  BY <1>1, <1>3, <2>1, <2>2, <2>3, FieldWorks
<1> QED
  BY <1>4, <1>5

\* The steps before the loader step are over, and the field will ask.
LEMMA FieldPrepared ==
  ASSUME IInv, NEW f \in Fields, at[f] = "preparing",
         at' = [at EXCEPT ![f] = "ask"], LetGo(lock, {"popped"}),
         UNCHANGED <<asked, value, open, loads, returned, result, ran>>
  PROVE  IInv'
<1>1. /\ UNCHANGED <<query, mutation, target, value, open, loads, returned, result, ran>>
      /\ Fields' = Fields /\ lock' = Nobody
  BY DEF asked, Fields, LetGo
<1>2. at[f] \notin Settled /\ at[f] \in Holding
  BY DEF Holding, Settled
<1>3. returned = {} /\ result = None
  BY <1>2, NotOver
<1>4. lock = Work("field", f) /\ lock # Nobody
  BY <1>2 DEF IInv, Exclusive, Nobody, Work
<1>5. at \in [Fields -> Places] /\ at' \in [Fields -> Places] /\ IsLoader(f)
  BY DEF IInv, Typed, Places, Asking
<1>6. at'[f] = "ask" /\ \A g \in Fields \ {f} : at'[g] = at[g]
  BY <1>5
<1>7. Typed'
  BY <1>1, <1>5, <1>6 DEF IInv, Typed, IsLoader
<1>8. \A g \in Fields \ {f} : at[g] \notin Holding
  BY <1>4 DEF IInv, Exclusive, Work
<1>9. \A l \in loads : l.running = {}
  BY <1>4 DEF IInv, Exclusive, Work
<1>10. Exclusive'
  BY <1>1, <1>6, <1>8, <1>9 DEF Exclusive, Nobody, Work, Holding
<1>11. Stacked'
  BY <1>1, <1>4, LetsGo DEF IInv
<1> QED
  BY <1>1, <1>3, <1>7, <1>10, <1>11, RestKept DEF IInv, Over, Told

---------------------------------------------------------------------------
(***************************************************************************)
(* Loads.                                                                  *)
(***************************************************************************)
\* What the response is does not change while the fields stay where they are.
LEMMA SameResponse ==
  ASSUME UNCHANGED <<query, at>>
  PROVE  Response' = Response
<1>1. query' = query /\ at' = at /\ Fields' = Fields
  BY DEF Fields
<1>2. \A f : Above(f)' = Above(f)
  BY <1>1 DEF Above
<1> QED  BY <1>1, <1>2 DEF Response, RootFields

\* Neither do the answers and what is told of them.
LEMMA AnswersKept ==
  ASSUME IInv, UNCHANGED <<query, target, at, value, returned, result>>
  PROVE  Over' /\ OwnAnswer' /\ Told'
<1>1. Over' /\ OwnAnswer'
  BY DEF IInv, Over, OwnAnswer, Fields
<1>2. Told'
  BY SameResponse DEF IInv, Told, Unwraps
<1> QED  BY <1>1, <1>2

\* The keys that were asked for become a load, in groups of one pipeline each.
LEMMA LoadDispatched ==
  ASSUME IInv, Dispatch
  PROVE  IInv'
<1> DEFINE n == [groups |-> Grouped(open.keys), running |-> {}, got |-> {},
                 fields |-> open.fields]
<1>1. /\ UNCHANGED <<query, mutation, target, at, value, lock, ctx, returned, result, ran, history>>
      /\ Fields' = Fields
      /\ loads' = loads \cup {n} /\ open'.keys = {} /\ open'.fields = {}
  BY DEF Dispatch, asked, Fields, NoKeys
<1>2. /\ n.groups = Grouped(open.keys) /\ n.running = {} /\ n.got = {} /\ n.fields = open.fields
      /\ LoadFields(n)
  BY DEF LoadFields
<1>3. LoadSound(n)
  <2>1. \A g \in n.groups : Group(g)
    BY <1>2 DEF Grouped, Group, IInv, Keyed
  <2>2. UNION Grouped(open.keys) = open.keys
    BY DEF Grouped
  <2>3. open.keys \subseteq KeysOf(n)
    BY <1>2, <2>2 DEF KeysOf
  <2>4. \A f \in open.fields : Sought(f, KeysOf(n))
    BY <2>3 DEF IInv, Keyed, Sought
  <2> QED  BY <1>2, <2>1, <2>4 DEF LoadSound
<1> HIDE DEF n
<1>4. Typed'
  BY <1>1, <1>2 DEF IInv, Typed, IsLoader
<1>5. Exclusive'
  BY <1>1, <1>2 DEF IInv, Exclusive
<1>6. Stacked' /\ Over' /\ OwnAnswer' /\ Told'
  BY <1>1, AnswersKept, StackKept DEF IInv
<1>7. Keyed'
  <2>1. \A l \in loads' : LoadSound(l)
    BY <1>1, <1>3 DEF IInv, Keyed
  <2>2. \A l \in loads' : LoadSound(l)'
    BY <1>1, <2>1 DEF LoadSound, Group, Answered, Owned, Sought, KeysOf, IsLoader, LoaderKey,
         SameKey
  <2> QED  BY <1>1, <2>2 DEF Keyed
<1> QED
  BY <1>4, <1>5, <1>6, <1>7 DEF IInv

\* The record of a load whose next group starts, or ends.
LEMMA LoadRecord ==
  ASSUME NEW l, LoadFields(l)
  PROVE  /\ \A g, r : Begun(l, g, r) =
                        [groups |-> l.groups \ {g}, running |-> {r}, got |-> l.got,
                         fields |-> l.fields]
         /\ \A got : Brings(l, got) =
                       [groups |-> l.groups, running |-> {}, got |-> got, fields |-> l.fields]
<1> DEFINE a == l.groups  b == l.running  c == l.got  d == l.fields
<1>0. l = [groups |-> a, running |-> b, got |-> c, fields |-> d]
  BY DEF LoadFields
<1>1. ASSUME NEW g, NEW r
      PROVE  Begun(l, g, r) = [groups |-> a \ {g}, running |-> {r}, got |-> c, fields |-> d]
  <2> DEFINE x == a \ {g}  y == {r}
  <2>1. Begun(l, g, r) = [[l EXCEPT !.groups = x] EXCEPT !.running = y]
    BY DEF Begun
  <2> HIDE DEF a, b, c, d, x, y
  <2>2. [l EXCEPT !.groups = x] = [groups |-> x, running |-> b, got |-> c, fields |-> d]
    BY <1>0
  <2>3. [[groups |-> x, running |-> b, got |-> c, fields |-> d] EXCEPT !.running = y] =
           [groups |-> x, running |-> y, got |-> c, fields |-> d]
    OBVIOUS
  <2> QED  BY <2>1, <2>2, <2>3 DEF x, y
<1>2. ASSUME NEW got
      PROVE  Brings(l, got) = [groups |-> a, running |-> {}, got |-> got, fields |-> d]
  <2> DEFINE x == {}
  <2>1. Brings(l, got) = [[l EXCEPT !.running = x] EXCEPT !.got = got]
    BY DEF Brings
  <2> HIDE DEF a, b, c, d, x
  <2>2. [l EXCEPT !.running = x] = [groups |-> a, running |-> x, got |-> c, fields |-> d]
    BY <1>0
  <2>3. [[groups |-> a, running |-> x, got |-> c, fields |-> d] EXCEPT !.got = got] =
           [groups |-> a, running |-> x, got |-> got, fields |-> d]
    OBVIOUS
  <2> QED  BY <2>1, <2>2, <2>3 DEF x
<1> QED  BY <1>1, <1>2

\* A group's pipeline starts: the keys are still all there.
LEMMA LoadStarts ==
  ASSUME IInv, NEW l \in loads, LoadGroup(l)
  PROVE  IInv'
<1>0. PICK g \in l.groups : \E first \in g :
        /\ lock = Nobody /\ lock' = Work("load", g)
        /\ ctx' = Pushed(Work("load", g))
        /\ ran' = IF returned = {} THEN ran \cup {Work("load", g)} ELSE ran
        /\ loads' = (loads \ {l}) \cup
             {Begun(l, g, [group |-> g, first |-> first])}
  BY DEF LoadGroup
<1>1. PICK first \in g :
        /\ lock = Nobody /\ lock' = Work("load", g)
        /\ ctx' = Pushed(Work("load", g))
        /\ ran' = IF returned = {} THEN ran \cup {Work("load", g)} ELSE ran
        /\ loads' = (loads \ {l}) \cup
             {Begun(l, g, [group |-> g, first |-> first])}
  BY <1>0
<1>2. /\ UNCHANGED <<query, mutation, target, at, value, open, returned, result, history>>
      /\ Fields' = Fields /\ l.running = {}
  BY DEF LoadGroup, asked, Fields
<1> DEFINE r == [group |-> g, first |-> first]
           n == [groups |-> l.groups \ {g}, running |-> {r}, got |-> l.got, fields |-> l.fields]
<1>3. loads' = (loads \ {l}) \cup {n}
  <2>1. LoadFields(l)
    BY DEF IInv, Typed
  <2>2. Begun(l, g, r) = n
    BY <2>1, LoadRecord
  <2> QED  BY <1>1, <2>2
<1>4. /\ n.groups = l.groups \ {g} /\ n.running = {r} /\ n.got = l.got /\ n.fields = l.fields
      /\ LoadFields(n)
      /\ r.group = g /\ r.first = first
  BY DEF LoadFields
<1>5. LoadSound(n)
  <2>1. LoadSound(l)
    BY DEF IInv, Keyed
  <2>2. (\A j \in n.groups : Group(j)) /\ Group(g)
    BY <1>4, <2>1 DEF LoadSound
  <2>3. KeysOf(l) \subseteq KeysOf(n)
    <3> SUFFICES ASSUME NEW k \in KeysOf(l)  PROVE k \in KeysOf(n)
      OBVIOUS
    <3>1. k \in UNION l.groups \/ k \in {j.key : j \in l.got}
      BY <1>2 DEF KeysOf
    <3>2. k \in UNION l.groups => k \in g \/ k \in UNION n.groups
      BY <1>4
    <3>3. k \in g => k \in UNION {j.group : j \in n.running}
      BY <1>4
    <3> QED  BY <1>4, <3>1, <3>2, <3>3 DEF KeysOf
  <2>4. \A f \in n.fields : Sought(f, KeysOf(n))
    BY <1>4, <2>1, <2>3 DEF LoadSound, Sought
  <2>5. \A j \in n.running : Group(j.group) /\ j.first \in j.group
    BY <1>4, <2>2
  <2>6. \A j \in n.got : Answered(j)
    BY <1>4, <2>1 DEF LoadSound
  <2> QED  BY <2>2, <2>4, <2>5, <2>6 DEF LoadSound
<1> HIDE DEF n, r
<1>6. Typed'
  <2>1. \A m \in loads' : /\ m.fields \subseteq Fields
                          /\ LoadFields(m)
    BY <1>3, <1>4 DEF IInv, Typed
  <2> QED  BY <1>2, <2>1 DEF IInv, Typed, IsLoader
<1>7. \A m \in loads : m.running = {}
  BY <1>1 DEF IInv, Exclusive, Nobody, Work
<1>8. \A f \in Fields : at[f] \notin Holding
  BY <1>1 DEF IInv, Exclusive, Nobody, Work
<1>9. Exclusive'
  <2>1. \A f \in Fields : at'[f] \in Holding <=> lock' = Work("field", f)
    BY <1>1, <1>2, <1>8 DEF Work
  <2>2. \A m \in loads' : m.running # {} => m = n
    BY <1>3, <1>7
  <2>3. \A j \in n.running : lock' = Work("load", j.group)
    BY <1>1, <1>4
  <2> QED  BY <1>2, <2>1, <2>2, <2>3 DEF Exclusive
<1>10. Work("load", g) # Nobody
  BY DEF Nobody, Work
<1>11. Stacked'
  BY <1>1, <1>2, <1>10, Takes DEF IInv
<1>12. Over' /\ OwnAnswer' /\ Told'
  BY <1>2, AnswersKept
<1>13. Keyed'
  <2>1. \A m \in loads' : LoadSound(m)
    BY <1>3, <1>5 DEF IInv, Keyed
  <2>2. \A m \in loads' : LoadSound(m)'
    BY <1>2, <2>1 DEF LoadSound, Group, Answered, Owned, Sought, KeysOf, IsLoader, LoaderKey,
         SameKey
  <2>3. (\A k \in open.keys : Owned(k)) /\ (\A f \in open.fields : Sought(f, open.keys))
    BY DEF IInv, Keyed
  <2>4. (\A k \in open'.keys : Owned(k)') /\ (\A f \in open'.fields : Sought(f, open.keys)')
    BY <1>2, <2>3 DEF Owned, Sought, IsLoader, LoaderKey, SameKey
  <2> QED  BY <2>2, <2>4 DEF Keyed
<1> QED
  BY <1>6, <1>9, <1>11, <1>12, <1>13 DEF IInv

\* The fields that wait for a load go on; the others, and a query that is over,
\* take no notice.
LEMMA WaitingGoOn ==
  ASSUME IInv, NEW l \in loads, NEW p \in {"loaded", "refused"},
         at' = [f \in Fields |-> IF f \in Waiting(l) THEN p ELSE at[f]],
         UNCHANGED <<asked, returned, result>>
  PROVE  /\ at' \in [Fields -> Places]
         /\ \A f \in Fields : at'[f] \in Asking => IsLoader(f)
         /\ \A f \in Fields : at'[f] \in Holding <=> at[f] \in Holding
         /\ \A f \in Fields : at[f] \in Settled => at'[f] = at[f]
         /\ Over' /\ Told'
<1>1. UNCHANGED <<query, mutation, target, returned, result>> /\ Fields' = Fields
  BY DEF asked, Fields
<1>2. \A f \in Waiting(l) : f \in Fields /\ at[f] = "loading"
  BY DEF Waiting, IInv, Typed
<1>3. \A f \in Fields : at'[f] = at[f] \/ (at[f] = "loading" /\ at'[f] \in {"loaded", "refused"})
  BY <1>2
<1>4. /\ "loading" \in Asking /\ {"loaded", "refused"} \subseteq Asking /\ Asking \subseteq Places
      /\ "loading" \notin Settled \cup Holding
      /\ "loaded" \notin Settled \cup Holding /\ "refused" \notin Settled \cup Holding
  BY DEF Asking, Places, Settled, Holding
<1>5. at \in [Fields -> Places] /\ \A f \in Fields : at[f] \in Asking => IsLoader(f)
  BY DEF IInv, Typed
<1>6. at' \in [Fields -> Places] /\ \A f \in Fields : at'[f] \in Asking => IsLoader(f)
  BY <1>3, <1>4, <1>5
<1>7. \A f \in Fields : at[f] \in Settled => at'[f] = at[f]
  BY <1>3, <1>4
<1>10. \A f \in Fields : at'[f] \in Holding <=> at[f] \in Holding
  BY <1>3, <1>4
<1>8. Over'
  BY <1>1, <1>7 DEF IInv, Over
<1>9. Told'
  <2>1. CASE result = None
    BY <1>1, <2>1 DEF Told
  <2>2. CASE result # None
    <3>1. \A f \in Fields : at[f] \in Settled
      BY <2>2 DEF IInv, Told, Over
    <3>2. at' = at
      BY <1>5, <1>6, <1>7, <3>1
    <3> QED  BY <1>1, <3>2, SameResponse DEF IInv, Told, Unwraps
  <2> QED  BY <2>1, <2>2
<1> QED  BY <1>6, <1>7, <1>8, <1>9, <1>10

\* A load that is gone, or has run a group, leaves the others as they were.
LEMMA OthersSound ==
  ASSUME IInv, NEW S, S \subseteq loads, UNCHANGED <<query, open>>
  PROVE  /\ \A l \in S : LoadSound(l)'
         /\ \A k \in open'.keys : Owned(k)'
         /\ \A f \in open'.fields : Sought(f, open.keys)'
BY DEF IInv, Keyed, LoadSound, Group, Answered, Owned, Sought, KeysOf, IsLoader, LoaderKey,
       SameKey, Fields

\* There is no pipeline for a key.
LEMMA LoadIsUnknown ==
  ASSUME IInv, NEW l \in loads, LoadUnknown(l)
  PROVE  IInv'
<1>1. /\ UNCHANGED <<query, mutation, target, value, lock, ctx, open, returned, result, ran, history>>
      /\ Fields' = Fields /\ loads' = loads \ {l}
      /\ UNCHANGED <<asked, returned, result>>
      /\ at' = [f \in Fields |-> IF f \in Waiting(l) THEN "refused" ELSE at[f]]
  BY DEF LoadUnknown, Refuse, asked, Fields
<1>2. /\ at' \in [Fields -> Places]
      /\ \A f \in Fields : at'[f] \in Asking => IsLoader(f)
      /\ \A f \in Fields : at'[f] \in Holding <=> at[f] \in Holding
      /\ \A f \in Fields : at[f] \in Settled => at'[f] = at[f]
      /\ Over' /\ Told'
  BY <1>1, WaitingGoOn
<1>3. Typed'
  BY <1>1, <1>2 DEF IInv, Typed, IsLoader, LoadFields
<1>4. Exclusive'
  BY <1>1, <1>2 DEF IInv, Exclusive
<1>5. Stacked'
  BY <1>1, StackKept DEF IInv
<1>6. Keyed'
  BY <1>1, OthersSound DEF Keyed
<1>7. OwnAnswer'
  BY <1>1 DEF IInv, OwnAnswer
<1> QED
  BY <1>2, <1>3, <1>4, <1>5, <1>6, <1>7 DEF IInv

\* What a group's pipeline brings is an answer for each of its keys.
LEMMA AllAnswered ==
  ASSUME IInv, NEW l \in loads, NEW r \in l.running, NEW has
  PROVE  /\ \A g \in l.got \cup Brought(r, has) : Answered(g)
         /\ \A k \in r.group : \E g \in Brought(r, has) : g.key = k
<1>1. LoadSound(l)
  BY DEF IInv, Keyed
<1>2. Group(r.group) /\ r.first \in r.group
  BY <1>1 DEF LoadSound
<1>3. ASSUME NEW g \in Brought(r, has)
      PROVE  Answered(g)
  <2>1. PICK k \in r.group :
          g = [key |-> k, value |-> IF KeyString[k.key] \in has THEN Entry(k, r.first) ELSE Null]
    BY <1>3 DEF Brought
  <2>2. g.key = k /\ Owned(k) /\ r.first.name = k.name
    BY <1>2, <2>1 DEF Group
  <2>3. CASE g.value = Null
    BY <2>2, <2>3 DEF Answered
  <2>4. CASE g.value = Entry(k, r.first)
    <3>1. /\ g.value.name = k.name /\ g.value.key = KeyString[k.key]
          /\ g.value.args = r.first.args /\ g.value.module = r.first.module
      BY <2>4 DEF Entry
    <3>2. PICK f \in Fields : IsLoader(f) /\ r.first = LoaderKey(f)
      BY <1>2 DEF Group, Owned
    <3>3. /\ query[f].name = r.first.name /\ query[f].args = r.first.args
          /\ query[f].module = r.first.module
      BY <3>2 DEF LoaderKey
    <3> QED  BY <2>2, <3>1, <3>2, <3>3 DEF Answered
  <2> QED  BY <2>1, <2>3, <2>4
<1>4. ASSUME NEW k \in r.group
      PROVE  \E g \in Brought(r, has) : g.key = k
  <2> DEFINE g == [key |-> k,
                   value |-> IF KeyString[k.key] \in has THEN Entry(k, r.first) ELSE Null]
  <2>1. g \in Brought(r, has) /\ g.key = k
    BY DEF Brought
  <2> QED  BY <2>1
<1> QED  BY <1>1, <1>3, <1>4 DEF LoadSound

\* A field of a load with no group left finds its key among the answers, and what
\* came for it is its own.
LEMMA GivenIsOwn ==
  ASSUME IInv, NEW l \in loads, NEW r \in l.running, NEW has, l.groups = {},
         NEW f \in l.fields
  PROVE  LET v == Given(f, l.got \cup Brought(r, has))
         IN  v # Null =>
               /\ v.name = query[f].name
               /\ v.key = KeyString[query[f].key]
               /\ \E g \in Fields : /\ IsLoader(g) /\ query[g].name = query[f].name
                                    /\ v.args = query[g].args /\ v.module = query[g].module
<1> DEFINE got == l.got \cup Brought(r, has)
           values == {g.value : g \in {g \in got : SameKey(g.key, LoaderKey(f))}}
<1>1. \A g \in got : Answered(g)
  BY AllAnswered
<1>2. \A k \in r.group : \E g \in got : g.key = k
  BY AllAnswered
<1>3. \A j \in l.running : j.group = r.group
  BY DEF IInv, Exclusive, Work
<1>4. PICK k \in KeysOf(l) : SameKey(k, LoaderKey(f))
  BY DEF IInv, Keyed, LoadSound, Sought
<1>5. \E g \in got : g.key = k
  <2>1. k \in r.group \/ k \in {g.key : g \in l.got}
    BY <1>3, <1>4 DEF KeysOf
  <2> QED  BY <1>2, <2>1
<1>6. values # {}
  BY <1>4, <1>5
<1>7. Given(f, got) \in values
  BY <1>6 DEF Given
<1> HIDE DEF got
<1>8. PICK g \in got : SameKey(g.key, LoaderKey(f)) /\ g.value = Given(f, got)
  BY <1>7
<1>9. g.key.name = query[f].name /\ g.key.key = query[f].key
  BY <1>8 DEF SameKey, LoaderKey
<1> QED
  BY <1>1, <1>8, <1>9 DEF Answered, got

\* The end of a group's pipeline lets the mutex go, whatever comes of the load.
LEMMA LoadLetsGo ==
  ASSUME IInv, NEW l \in loads, l.running # {}, NEW ends, LetGo(lock, ends),
         UNCHANGED <<query, returned, ran>>,
         \A f \in Fields : at'[f] \in Holding <=> at[f] \in Holding
  PROVE  /\ \A m \in loads \ {l} : m.running = {}
         /\ \A f \in Fields : at'[f] \in Holding <=> lock' = Work("field", f)
         /\ Stacked'
<1>1. PICK r \in l.running : lock = Work("load", r.group)
  BY DEF IInv, Exclusive
<1>2. \A m \in loads \ {l} : m.running = {}
  BY DEF IInv, Exclusive
<1>3. \A f \in Fields : at[f] \notin Holding
  BY <1>1 DEF IInv, Exclusive, Work
<1>4. \A f \in Fields : at'[f] \in Holding <=> lock' = Work("field", f)
  <2>1. lock' = Nobody
    BY DEF LetGo
  <2> QED  BY <1>3, <2>1 DEF Nobody, Work
<1>5. lock # Nobody
  BY <1>1 DEF Nobody, Work
<1>6. Stacked'
  BY <1>5, LetsGo DEF IInv
<1> QED  BY <1>2, <1>4, <1>6

\* A load that ends, with answers or without.
LEMMA LoadEnds ==
  ASSUME IInv, NEW l \in loads, LoadRan(l), NEW p \in {"loaded", "refused"},
         at' = [f \in Fields |-> IF f \in Waiting(l) THEN p ELSE at[f]],
         loads' = loads \ {l}, DOMAIN value' = Fields, OwnAnswer'
  PROVE  IInv'
<1>1. /\ UNCHANGED <<query, mutation, target, open, returned, result, ran>>
      /\ UNCHANGED <<asked, returned, result>>
      /\ Fields' = Fields /\ l.running # {} /\ \E ends : LetGo(lock, ends)
  BY DEF LoadRan, asked, Fields
<1>2. /\ at' \in [Fields -> Places]
      /\ \A f \in Fields : at'[f] \in Asking => IsLoader(f)
      /\ \A f \in Fields : at'[f] \in Holding <=> at[f] \in Holding
      /\ \A f \in Fields : at[f] \in Settled => at'[f] = at[f]
      /\ Over' /\ Told'
  BY <1>1, WaitingGoOn
<1>3. Typed'
  BY <1>1, <1>2 DEF IInv, Typed, IsLoader, LoadFields
<1>4. /\ \A m \in loads \ {l} : m.running = {}
      /\ \A f \in Fields : at'[f] \in Holding <=> lock' = Work("field", f)
      /\ Stacked'
  BY <1>1, <1>2, LoadLetsGo
<1>5. Exclusive'
  BY <1>1, <1>4 DEF Exclusive
<1>6. Keyed'
  BY <1>1, OthersSound DEF Keyed
<1> QED
  BY <1>2, <1>3, <1>4, <1>5, <1>6 DEF IInv

\* A load that has more groups to ask for.
LEMMA LoadContinues ==
  ASSUME IInv, NEW l \in loads, LoadRan(l), NEW r \in l.running, NEW has,
         loads' = (loads \ {l}) \cup {Brings(l, l.got \cup Brought(r, has))},
         UNCHANGED <<at, value>>
  PROVE  IInv'
<1> DEFINE n == [groups |-> l.groups, running |-> {}, got |-> l.got \cup Brought(r, has),
                 fields |-> l.fields]
<1>1. /\ UNCHANGED <<query, mutation, target, open, returned, result, ran>>
      /\ Fields' = Fields /\ l.running # {} /\ \E ends : LetGo(lock, ends)
  BY DEF LoadRan, asked, Fields
<1>2. loads' = (loads \ {l}) \cup {n}
  <2>1. LoadFields(l)
    BY DEF IInv, Typed
  <2> QED  BY <2>1, LoadRecord
<1>3. /\ n.groups = l.groups /\ n.running = {} /\ n.got = l.got \cup Brought(r, has)
      /\ n.fields = l.fields /\ LoadFields(n)
  BY DEF LoadFields
<1> HIDE DEF n
<1>4. LoadSound(n)
  <2>1. LoadSound(l)
    BY DEF IInv, Keyed
  <2>2. \A j \in l.running : j.group = r.group
    BY DEF IInv, Exclusive, Work
  <2>3. \A k \in r.group : \E g \in Brought(r, has) : g.key = k
    BY AllAnswered
  <2>4. KeysOf(l) \subseteq KeysOf(n)
    <3> SUFFICES ASSUME NEW k \in KeysOf(l)  PROVE k \in KeysOf(n)
      OBVIOUS
    <3>1. k \in UNION l.groups \/ k \in r.group \/ k \in {g.key : g \in l.got}
      BY <2>2 DEF KeysOf
    <3>2. k \in r.group \/ k \in {g.key : g \in l.got} => k \in {g.key : g \in n.got}
      BY <1>3, <2>3
    <3> QED  BY <1>3, <3>1, <3>2 DEF KeysOf
  <2>5. \A f \in n.fields : Sought(f, KeysOf(n))
    BY <1>3, <2>1, <2>4 DEF LoadSound, Sought
  <2>6. \A g \in n.got : Answered(g)
    BY <1>3, AllAnswered
  <2>7. \A g \in n.groups : Group(g)
    BY <1>3, <2>1 DEF LoadSound
  <2> QED  BY <1>3, <2>5, <2>6, <2>7 DEF LoadSound
<1>5. Typed'
  BY <1>1, <1>2, <1>3 DEF IInv, Typed, IsLoader, LoadFields
<1>6. /\ \A m \in loads \ {l} : m.running = {}
      /\ \A f \in Fields : at'[f] \in Holding <=> lock' = Work("field", f)
      /\ Stacked'
  BY <1>1, LoadLetsGo
<1>7. Exclusive'
  BY <1>1, <1>2, <1>3, <1>6 DEF Exclusive
<1>8. Keyed'
  <2>1. LoadSound(n)'
    BY <1>1, <1>4 DEF LoadSound, Group, Answered, Owned, Sought, KeysOf, IsLoader, LoaderKey,
         SameKey, n
  <2>2. \A m \in loads \ {l} : LoadSound(m)'
    BY <1>1, OthersSound
  <2> QED  BY <1>1, <1>2, <2>1, <2>2, OthersSound DEF Keyed
<1>9. Over' /\ OwnAnswer' /\ Told'
  BY <1>1, AnswersKept
<1> QED
  BY <1>5, <1>6, <1>7, <1>8, <1>9 DEF IInv

\* A group's pipeline ends.
LEMMA LoadHasRun ==
  ASSUME IInv, NEW l \in loads, LoadRan(l)
  PROVE  IInv'
<1>1. query' = query /\ Fields' = Fields
  BY DEF LoadRan, asked, Fields
<1>2. DOMAIN value = Fields
  BY DEF IInv, Typed
<1>3. CASE Refuse(l) /\ loads' = loads \ {l}
  <2>1. OwnAnswer'
    BY <1>1, <1>3 DEF Refuse, IInv, OwnAnswer
  <2> QED  BY <1>2, <1>3, <2>1, LoadEnds DEF Refuse
<1>4. ASSUME NEW r \in l.running, NEW has, l.groups = {},
             Deliver(l, l.got \cup Brought(r, has)), loads' = loads \ {l}
      PROVE  IInv'
  <2>1. /\ at' = [f \in Fields |-> IF f \in Waiting(l) THEN "loaded" ELSE at[f]]
        /\ value' = [f \in Fields |-> IF f \in Waiting(l)
                                        THEN Given(f, l.got \cup Brought(r, has)) ELSE value[f]]
    BY <1>4 DEF Deliver
  <2>2. ASSUME NEW f \in Fields, value'[f] \notin {None, Null}
        PROVE  /\ value'[f].name = query[f].name
               /\ value'[f].key = KeyString[query[f].key]
               /\ \E g \in Fields : /\ IsLoader(g) /\ query[g].name = query[f].name
                                    /\ value'[f].args = query[g].args
                                    /\ value'[f].module = query[g].module
    <3>1. CASE f \in Waiting(l)
      <4>1. value'[f] = Given(f, l.got \cup Brought(r, has)) /\ f \in l.fields
        BY <2>1, <3>1 DEF Waiting
      <4> QED  BY <1>4, <2>2, <4>1, GivenIsOwn
    <3>2. CASE f \notin Waiting(l)
      <4>1. value'[f] = value[f]
        BY <2>1, <3>2
      <4> QED  BY <2>2, <4>1 DEF IInv, OwnAnswer, IsLoader
    <3> QED  BY <3>1, <3>2
  <2>3. OwnAnswer'
    BY <1>1, <2>2 DEF OwnAnswer, IsLoader
  <2> QED  BY <1>4, <2>1, <2>3, LoadEnds
<1>5. ASSUME NEW r \in l.running, NEW has,
             loads' = (loads \ {l}) \cup {Brings(l, l.got \cup Brought(r, has))},
             UNCHANGED <<at, value>>
      PROVE  IInv'
  BY <1>5, LoadContinues
<1>6. \/ Refuse(l) /\ loads' = loads \ {l}
      \/ \E r \in l.running : \E has :
           \/ l.groups = {} /\ Deliver(l, l.got \cup Brought(r, has)) /\ loads' = loads \ {l}
           \/ /\ loads' = (loads \ {l}) \cup {Brings(l, l.got \cup Brought(r, has))}
              /\ UNCHANGED <<at, value>>
  BY DEF LoadRan
<1> QED  BY <1>3, <1>4, <1>5, <1>6

---------------------------------------------------------------------------
(***************************************************************************)
(* The step, and all behaviours.                                           *)
(***************************************************************************)
\* The context is taken when nobody is at work with it.
LEMMA StepReturns ==
  ASSUME IInv, Return
  PROVE  IInv'
<1>1. /\ UNCHANGED <<query, mutation, target, at, value, lock, open, loads, result, ran, history>>
      /\ Fields' = Fields /\ returned = {} /\ returned' = {ctx} /\ lock = Nobody
      /\ \A f \in Fields : at[f] \in Settled
  BY DEF Return, asked, Fields
<1>2. Typed' /\ Exclusive' /\ Over'
  BY <1>1 DEF IInv, Typed, Exclusive, Over, IsLoader
<1>3. Keyed' /\ OwnAnswer'
  BY <1>1, RestKept
<1>4. Told'
  BY <1>1 DEF IInv, Told
<1>5. Stacked'
  <2>1. Whole(ctx, ctx.stack)
    BY <1>1 DEF IInv, Stacked
  <2> QED  BY <1>1, <2>1 DEF Stacked, Whole, history
<1> QED  BY <1>2, <1>3, <1>4, <1>5 DEF IInv

\* The state the step leaves is made from the response as it then is.
LEMMA StepAnswers ==
  ASSUME IInv, Answer
  PROVE  IInv'
<1>1. /\ UNCHANGED <<query, mutation, target, at, value, lock, ctx, open, loads, returned, ran, history>>
      /\ Fields' = Fields /\ returned # {}
  BY DEF Answer, asked, Fields
<1>2. Typed' /\ Exclusive' /\ Over' /\ Stacked'
  BY <1>1, StackKept DEF IInv, Typed, Exclusive, Over, IsLoader
<1>3. Keyed' /\ OwnAnswer'
  BY <1>1, RestKept
<1>4. Told'
  BY <1>1, SameResponse DEF Answer, Told, Unwraps
<1> QED  BY <1>2, <1>3, <1>4 DEF IInv

\* At the start nobody works, and nothing is asked for.
LEMMA InitIInv == Init => IInv
<1> SUFFICES ASSUME Init PROVE IInv
  OBVIOUS
<1>1. /\ at = [f \in Fields |-> "unborn"] /\ value = [f \in Fields |-> None]
      /\ lock = Nobody /\ ctx = [own |-> TRUE, stack |-> <<>>, log |-> {}]
      /\ open.keys = {} /\ open.fields = {} /\ loads = {} /\ returned = {} /\ result = None
      /\ ran = {} /\ left = {} /\ lost = {}
  BY DEF Init, Fields, Context, NoKeys
<1>2. \A f \in Fields : at[f] = "unborn" /\ value[f] = None
  BY <1>1
<1>3. Typed
  <2>1. \A f \in Fields : query[f].steps \in {"none", "pipeline", "loader"}
    BY QueriesAssumption DEF Init, Fields
  <2> QED  BY <1>1, <1>2, <2>1 DEF Typed, Places, Asking
<1>4. Exclusive
  BY <1>1, <1>2 DEF Exclusive, Nobody, Work, Holding
<1>5. Stacked
  <2>1. ctx.stack = <<>> /\ <<>> \in Seq(left)
    BY <1>1
  <2>2. Whole(ctx, ctx.stack)
    BY <1>1, <2>1 DEF Whole
  <2> QED  BY <1>1, <2>2 DEF Stacked
<1> QED
  BY <1>1, <1>2, <1>3, <1>4, <1>5 DEF IInv, Over, Keyed, OwnAnswer, Told

\* Every way a field can end.
LEMMA FieldStops ==
  ASSUME IInv, NEW f \in Fields,
         \/ Read(f) \/ Misplaced(f) \/ Resolved(f) \/ ResolverFails(f)
         \/ AskFails(f) \/ Finished(f)
         \/ (Prepared(f) \/ Loaded(f)) /\ \E outcome \in {"done", "null", "failed"} :
                                          \E ends : End(f, outcome, ends)
  PROVE  IInv'
<1>1. at[f] \in {"read", "misplaced", "resolving", "ask", "finishing", "preparing",
                  "loaded", "refused"}
  BY DEF Read, Misplaced, Resolved, ResolverFails, AskFails, Finished, Prepared, Loaded
<1>2. at[f] \notin Settled
  BY <1>1 DEF Settled
<1>3. UNCHANGED <<asked, value, open, loads, returned, result, ran>>
  BY DEF Read, Misplaced, Resolved, ResolverFails, AskFails, Finished, Prepared, Loaded
<1>4. \E outcome \in {"done", "null", "failed"} : \E ends : End(f, outcome, ends)
  BY DEF Read, Misplaced, Resolved, ResolverFails, AskFails, Finished, Prepared, Loaded
<1> QED  BY <1>2, <1>3, <1>4, FieldEnds

\* Whatever a field does.
LEMMA FieldStep ==
  ASSUME IInv, NEW f \in Fields, FieldNext(f)
  PROVE  IInv'
<1>1. CASE Prepared(f)
  <2>1. \/ at' = [at EXCEPT ![f] = "ask"] /\ LetGo(lock, {"popped"})
        \/ \E ends : End(f, "failed", ends)
    BY <1>1 DEF Prepared
  <2>2. at[f] = "preparing" /\ UNCHANGED <<asked, value, open, loads, returned, result, ran>>
    BY <1>1 DEF Prepared
  <2> QED  BY <1>1, <2>1, <2>2, FieldPrepared, FieldStops
<1>2. CASE Loaded(f)
  <2>1. \/ at' = [at EXCEPT ![f] = "after"] /\ UNCHANGED <<lock, ctx, history>>
        \/ \E outcome \in {"done", "null", "failed"} : \E ends : End(f, outcome, ends)
    BY <1>2 DEF Loaded
  <2> QED  BY <1>2, <2>1, FieldGoesOn, FieldStops
<1>3. CASE Start(f)
  BY <1>3, FieldGoesOn
<1>4. CASE Resolve(f) \/ Before(f) \/ After(f)
  BY <1>4, FieldTakes
<1>5. CASE Ask(f)
  BY <1>5, FieldAsks
<1>6. CASE \/ Read(f) \/ Misplaced(f) \/ Resolved(f) \/ ResolverFails(f)
           \/ AskFails(f) \/ Finished(f)
  BY <1>6, FieldStops
<1> QED  BY <1>1, <1>2, <1>3, <1>4, <1>5, <1>6 DEF FieldNext

\* The invariant holds in every behaviour.
LEMMA Invariance == Spec => []IInv
<1>1. IInv /\ [Next]_vars => IInv'
  <2> SUFFICES ASSUME IInv, [Next]_vars PROVE IInv'
    OBVIOUS
  <2>1. CASE \E f \in Fields : FieldNext(f)
    BY <2>1, FieldStep
  <2>2. CASE LoadNext
    BY <2>2, LoadStarts, LoadIsUnknown, LoadHasRun DEF LoadNext
  <2>3. CASE UNCHANGED vars
    <3>1. /\ UNCHANGED <<query, mutation, target, at, value, lock, ctx, open, loads, returned,
                        result, ran, history>>
          /\ Fields' = Fields
      BY <2>3 DEF vars, history, Fields
    <3>2. Typed' /\ Exclusive' /\ Stacked'
      BY <3>1, StackKept DEF IInv, Typed, Exclusive, IsLoader
    <3> QED  BY <3>1, <3>2, RestKept, AnswersKept DEF IInv
  <2> QED
    BY <2>1, <2>2, <2>3, LoadDispatched, StepReturns, StepAnswers DEF Next
<1> QED
  BY <1>1, InitIInv, PTL DEF Spec

\* The context given back is the request's, with all work done in it, and its
\* profiler has entries of those that were ended in the middle and of nobody else,
\* but for what is lost with a nested query that is dropped.
THEOREM ContextComesBack == Spec => []ContextWhole
<1>1. IInv => ContextWhole
  <2> SUFFICES ASSUME IInv, NEW given \in returned
               PROVE  /\ Range(given.stack) \subseteq left
                      /\ lost = {} => /\ given.own /\ given.log = ran
                                      /\ left \subseteq Range(given.stack)
    BY DEF ContextWhole
  <2>1. Whole(given, given.stack)
    BY DEF IInv, Stacked
  <2>2. Range(given.stack) \subseteq left
    BY <2>1 DEF Whole, Range
  <2> QED  BY <2>1, <2>2 DEF Whole
<1> QED  BY <1>1, Invariance, PTL

\* What a loader field is given is an answer of its own pipeline for its own key.
THEOREM AnswersAreOwn == Spec => []OwnAnswer
<1>1. IInv => OwnAnswer
  BY DEF IInv
<1> QED  BY <1>1, Invariance, PTL

\* The state the step leaves has every root field that got a value, and tells of
\* errors unless it is the bare value of the only field.
THEOREM NothingUntold == Spec => []AnswerIsWhole
<1>1. IInv => AnswerIsWhole
  <2> SUFFICES ASSUME IInv, result # None PROVE AnswerIsWhole
    BY DEF AnswerIsWhole
  <2>1. result = IF Response.data = {target}
                   THEN [data |-> {target}, errors |-> FALSE, bare |-> TRUE]
                   ELSE [data |-> Response.data, errors |-> Response.errors, bare |-> FALSE]
    BY DEF IInv, Told, Unwraps
  <2>2. Response.data \in {{}, RootFields} /\ (~Response.errors => Response.data = RootFields)
    BY DEF Response
  <2> HIDE DEF Response
  <2>3. CASE Response.data = {target}
    <3>1. result.data = {target} /\ result.bare = TRUE /\ RootFields = {target}
      BY <2>1, <2>2, <2>3
    <3> QED  BY <3>1 DEF AnswerIsWhole
  <2>4. CASE Response.data # {target}
    <3>1. result.data = Response.data /\ result.errors = Response.errors
      BY <2>1, <2>4
    <3> QED  BY <2>2, <3>1 DEF AnswerIsWhole
  <2> QED  BY <2>3, <2>4
<1> QED  BY <1>1, Invariance, PTL

---------------------------------------------------------------------------
(***************************************************************************)
(* The tasks of a request.                                                 *)
(***************************************************************************)
States == {"running", "ok", "error", "panic"}
TaskRecord == [name : Names, state : States]

TasksTyped ==
  /\ tasks \in Seq(TaskRecord)
  /\ registry \in [DOMAIN registry -> DOMAIN tasks]
  /\ request \in {"step", "join", "ended", "dropped"}
  /\ targets \in Seq(Names)
  /\ awaited \in DOMAIN tasks \cup {NoTask}
  /\ collected \in [DOMAIN collected -> DOMAIN tasks]
  /\ due \subseteq DOMAIN tasks

\* A handle is held under the name of its task, and so under one only.
HeldByName == \A n \in DOMAIN registry : tasks[registry[n]].name = n

\* Results are of tasks that have ended, under their names.
CollectedByName ==
  \A n \in DOMAIN collected :
    tasks[collected[n]].name = n /\ IsOver(collected[n])

\* A handle is awaited by a join, for the name it has come to, which has
\* no result yet.
AwaitedForHead ==
  awaited # NoTask =>
    /\ request = "join" /\ targets # <<>>
    /\ tasks[awaited].name = Head(targets)
    /\ Head(targets) \notin DOMAIN registry \cup DOMAIN collected

\* What was registered when the running join began is collected, awaited or
\* still under a name the join has to look at.
DueAccounted ==
  request = "join" =>
    /\ DOMAIN collected \cap DOMAIN registry = {}
    /\ \A id : id \in due <=>
         \/ id \in Range(collected)
         \/ awaited # NoTask /\ id = awaited
         \/ \E n \in DOMAIN registry \cap Range(targets) : id = registry[n]

TasksInv ==
  /\ TasksTyped /\ HeldByName /\ CollectedByName /\ AwaitedForHead
  /\ HandlesAreDisjoint /\ DueAccounted

---------------------------------------------------------------------------
\* The names a list has are its head and those of the rest.
LEMMA RangeOfTail ==
  ASSUME NEW S, NEW s \in Seq(S), s # <<>>
  PROVE  /\ Head(s) \in S /\ Tail(s) \in Seq(S)
         /\ Range(s) = {Head(s)} \cup Range(Tail(s))
<1>1. Head(s) = s[1] /\ Head(s) \in S /\ Tail(s) \in Seq(S)
  OBVIOUS
<1>2. /\ Len(s) \in Nat \ {0} /\ DOMAIN s = 1..Len(s)
      /\ Len(Tail(s)) = Len(s) - 1 /\ DOMAIN Tail(s) = 1..(Len(s) - 1)
      /\ \A i \in 1..(Len(s) - 1) : Tail(s)[i] = s[i + 1]
  OBVIOUS
<1>3. \A i \in 1..Len(s) : i = 1 \/ (i - 1 \in 1..(Len(s) - 1) /\ s[i] = Tail(s)[i - 1])
  BY <1>2
<1>4. \A i \in 1..(Len(s) - 1) : i + 1 \in 1..Len(s)
  BY <1>2
<1>5. ASSUME NEW x \in Range(s) PROVE x = Head(s) \/ x \in Range(Tail(s))
  <2>1. PICK i \in 1..Len(s) : x = s[i]
    BY <1>2 DEF Range
  <2> QED
    BY <2>1, <1>1, <1>2, <1>3 DEF Range
<1>6. Head(s) \in Range(s)
  BY <1>1, <1>2 DEF Range
<1>7. ASSUME NEW x \in Range(Tail(s)) PROVE x \in Range(s)
  <2>1. PICK i \in 1..(Len(s) - 1) : x = Tail(s)[i]
    BY <1>2 DEF Range
  <2> QED
    BY <2>1, <1>2, <1>4 DEF Range
<1> QED
  BY <1>1, <1>5, <1>6, <1>7

\* An empty list has no names, and nothing is registered at first.
LEMMA InitTasksInv == TasksInit => TasksInv
<1> SUFFICES ASSUME TasksInit PROVE TasksInv
  OBVIOUS
<1> USE DEF TasksInit, NoResults
<1>1. TasksTyped
  BY DEF TasksTyped
<1>2. Range(registry) = {} /\ Range(collected) = {}
  BY DEF Range
<1>3. HandlesAreDisjoint
  BY <1>2 DEF HandlesAreDisjoint, IsInjective
<1> QED
  BY <1>1, <1>3 DEF TasksInv, HeldByName, CollectedByName, AwaitedForHead, DueAccounted

\* No handle is the sentinel.
LEMMA NoTaskIsNone == TasksTyped => NoTask \notin Range(registry) \cup Range(collected)
<1> SUFFICES ASSUME TasksTyped PROVE NoTask \notin Range(registry) \cup Range(collected)
  OBVIOUS
<1>1. DOMAIN tasks \subseteq Nat
  BY DEF TasksTyped
<1> QED
  BY <1>1, AsyncAssumption DEF TasksTyped, AsyncAssumption, Range

\* A spawned task is new: no handle of it is held or collected yet, and a spawn
\* that replaces a handle only takes one away.
LEMMA SpawnInv == ASSUME TasksInv, NEW n \in Names, Spawn(n) PROVE TasksInv'
<1> DEFINE id == Len(tasks) + 1
<1> USE DEF TasksInv, TasksTyped
<1>1. /\ tasks' \in Seq(TaskRecord) /\ DOMAIN tasks' = DOMAIN tasks \cup {id}
      /\ id \notin DOMAIN tasks /\ tasks'[id].name = n
      /\ \A i \in DOMAIN tasks : tasks'[i] = tasks[i]
  BY DEF Spawn, TaskRecord, States
<1>2. /\ registry' \in [DOMAIN registry \cup {n} -> DOMAIN tasks']
      /\ DOMAIN registry' = DOMAIN registry \cup {n}
      /\ registry'[n] = id /\ \A m \in DOMAIN registry \ {n} : registry'[m] = registry[m]
  BY <1>1 DEF Spawn, With
<1>3. awaited = NoTask /\ request = "step"
  BY DEF Spawn, AwaitedForHead
<1>4. TasksTyped'
  BY <1>1, <1>2, <1>3 DEF Spawn, join
<1>5. HeldByName'
  BY <1>1, <1>2 DEF HeldByName
<1>6. CollectedByName'
  BY <1>1 DEF Spawn, join, CollectedByName, IsOver
<1>7. Range(registry') \subseteq Range(registry) \cup {id}
  BY <1>2 DEF Range
<1>8. id \notin Range(collected) /\ collected' = collected /\ awaited' = NoTask
  BY <1>1, <1>3 DEF Spawn, join, Range
<1>9. HandlesAreDisjoint'
  <2>1. IsInjective(registry')
    BY <1>5 DEF HeldByName, IsInjective
  <2>2. NoTask \notin DOMAIN tasks'
    BY <1>1, AsyncAssumption DEF TasksInv, TasksTyped, AsyncAssumption
  <2>3. NoTask \notin Range(registry') \cup Range(collected')
    BY <1>4, <2>2 DEF Range
  <2> QED
    BY <2>1, <2>3, <1>7, <1>8 DEF HandlesAreDisjoint
<1> QED
  BY <1>3, <1>4, <1>5, <1>6, <1>8, <1>9 DEF Spawn, AwaitedForHead, DueAccounted

\* A task that ends keeps its name, and one that has ended stays so.
LEMMA TaskEndsInv == ASSUME TasksInv, NEW id \in Ids, TaskEnds(id) PROVE TasksInv'
<1> USE DEF TasksInv, TasksTyped
<1>1. PICK s \in {"ok", "error", "panic"} : tasks' = [tasks EXCEPT ![id].state = s]
  BY DEF TaskEnds
<1>2. /\ tasks' \in Seq(TaskRecord) /\ DOMAIN tasks' = DOMAIN tasks
      /\ \A i \in DOMAIN tasks : tasks'[i].name = tasks[i].name
      /\ \A i \in DOMAIN tasks : IsOver(i) => tasks'[i] = tasks[i]
  <2> DEFINE ended == [tasks[id] EXCEPT !.state = s]
  <2>1. id \in DOMAIN tasks /\ ~IsOver(id) /\ tasks[id] \in TaskRecord
    BY DEF TaskEnds
  <2>2. ended \in TaskRecord /\ ended.name = tasks[id].name
    BY <2>1 DEF TaskRecord, States
  <2>3. tasks' = [tasks EXCEPT ![id] = ended]
    BY <1>1
  <2> HIDE DEF ended
  <2>4. tasks' \in Seq(TaskRecord) /\ DOMAIN tasks' = DOMAIN tasks
    BY <2>1, <2>2, <2>3
  <2>5. \A i \in DOMAIN tasks : tasks'[i] = IF i = id THEN ended ELSE tasks[i]
    BY <2>3
  <2> QED
    BY <2>1, <2>2, <2>4, <2>5 DEF IsOver
<1>3. UNCHANGED <<registry, request, targets, awaited, collected, due>>
  BY DEF TaskEnds, join
<1>4. TasksTyped'
  BY <1>2, <1>3
<1>5. HeldByName' /\ HandlesAreDisjoint'
  BY <1>2, <1>3 DEF HeldByName, HandlesAreDisjoint
<1>6. CollectedByName'
  BY <1>2, <1>3 DEF CollectedByName, IsOver
<1>7. AwaitedForHead' /\ DueAccounted'
  BY <1>2, <1>3 DEF AwaitedForHead, DueAccounted
<1> QED
  BY <1>4, <1>5, <1>6, <1>7

\* A join begins without results, and what is due is what its names hold.
LEMMA StartJoinInv == ASSUME TasksInv, NEW list \in Lists, StartJoin(list) PROVE TasksInv'
<1> USE DEF TasksInv, TasksTyped, NoResults
<1>1. awaited = NoTask
  BY DEF StartJoin, AwaitedForHead
<1>2. /\ request' = "join" /\ targets' = list /\ collected' = NoResults
      /\ due' = {registry[n] : n \in DOMAIN registry \cap Range(list)}
      /\ UNCHANGED <<tasks, registry, awaited>>
  BY DEF StartJoin
<1>3. TasksTyped'
  BY <1>2, AsyncAssumption DEF TasksInv, TasksTyped, AsyncAssumption
<1>4. Range(collected') = {}
  BY <1>2 DEF Range
<1>5. HeldByName' /\ CollectedByName' /\ AwaitedForHead'
  BY <1>1, <1>2 DEF HeldByName, CollectedByName, AwaitedForHead
<1>6. HandlesAreDisjoint'
  BY <1>1, <1>2, <1>4 DEF HandlesAreDisjoint, IsInjective
<1>7. DueAccounted'
  BY <1>1, <1>2, <1>4 DEF DueAccounted
<1> QED
  BY <1>3, <1>5, <1>6, <1>7

\* A name that is not registered is passed over; a handle that is taken was
\* registered under the head, whose name then has neither handle nor result.
LEMMA TakeInv == ASSUME TasksInv, Take PROVE TasksInv'
<1> DEFINE n == Head(targets)
<1> USE DEF TasksInv, TasksTyped
<1>1. /\ n \in Names /\ Tail(targets) \in Seq(Names)
      /\ Range(targets) = {n} \cup Range(Tail(targets))
  BY RangeOfTail DEF Take
<1>2. /\ request = "join" /\ awaited = NoTask /\ targets # <<>>
      /\ UNCHANGED <<tasks, request, collected, due>>
  BY DEF Take
<1>3. CASE n \notin DOMAIN registry
  <2>1. targets' = Tail(targets) /\ UNCHANGED <<registry, awaited>>
    BY <1>3 DEF Take
  <2>2. TasksTyped'
    BY <1>1, <1>2, <2>1
  <2>3. HeldByName' /\ CollectedByName' /\ AwaitedForHead' /\ HandlesAreDisjoint'
    BY <1>2, <2>1
       DEF HeldByName, CollectedByName, IsOver, AwaitedForHead, HandlesAreDisjoint
  <2>4. DueAccounted'
    BY <1>1, <1>2, <1>3, <2>1 DEF DueAccounted
  <2> QED
    BY <2>2, <2>3, <2>4
<1>4. CASE n \in DOMAIN registry
  <2>1. /\ awaited' = registry[n] /\ registry' = Without(registry, n)
        /\ targets' = targets
    BY <1>4 DEF Take
  <2>2. /\ DOMAIN registry' = DOMAIN registry \ {n}
        /\ registry' \in [DOMAIN registry \ {n} -> DOMAIN tasks]
        /\ \A m \in DOMAIN registry' : registry'[m] = registry[m]
    BY <2>1 DEF Without, Restrict
  <2>3. TasksTyped'
    BY <1>2, <1>4, <2>1, <2>2
  <2>4. HeldByName' /\ CollectedByName'
    BY <1>2, <2>2 DEF HeldByName, CollectedByName, IsOver
  <2>5. AwaitedForHead'
    BY <1>2, <1>4, <2>1, <2>2 DEF AwaitedForHead, HeldByName, DueAccounted
  <2>6. Range(registry') \subseteq Range(registry) /\ awaited' \notin Range(registry')
    <3>1. \A m \in DOMAIN registry' : registry'[m] # registry[n]
      BY <1>4, <2>2 DEF HeldByName
    <3> QED  BY <2>1, <2>2, <3>1 DEF Range
  <2>7. awaited' \in Range(registry)
    BY <1>4, <2>1 DEF Range
  <2>8. HandlesAreDisjoint'
    BY <1>2, <2>2, <2>6, <2>7 DEF HandlesAreDisjoint, IsInjective
  <2>9. DueAccounted'
    <3>1. awaited' # NoTask
      BY <2>7, NoTaskIsNone
    <3> QED
      BY <1>1, <1>2, <1>4, <2>1, <2>2, <3>1 DEF DueAccounted
  <2> QED
    BY <2>3, <2>4, <2>5, <2>8, <2>9
<1> QED
  BY <1>3, <1>4

\* The awaited handle becomes the result of the head.
LEMMA CollectInv == ASSUME TasksInv, Collect PROVE TasksInv'
<1> DEFINE n == Head(targets)
<1> USE DEF TasksInv, TasksTyped
<1>1. /\ request = "join" /\ awaited # NoTask /\ IsOver(awaited) /\ targets # <<>>
      /\ tasks[awaited].name = n /\ n \notin DOMAIN registry \cup DOMAIN collected
      /\ awaited \in DOMAIN tasks
  BY DEF Collect, AwaitedForHead
<1>2. /\ n \in Names /\ Tail(targets) \in Seq(Names)
      /\ Range(targets) = {n} \cup Range(Tail(targets))
  BY <1>1, RangeOfTail
<1>3. /\ collected' = With(collected, n, awaited)
      /\ targets' = Tail(targets) /\ awaited' = NoTask
      /\ UNCHANGED <<tasks, registry, request, due>>
  BY DEF Collect
<1>4. /\ DOMAIN collected' = DOMAIN collected \cup {n}
      /\ collected' \in [DOMAIN collected \cup {n} -> DOMAIN tasks]
      /\ collected'[n] = awaited
      /\ \A m \in DOMAIN collected : collected'[m] = collected[m]
  BY <1>1, <1>3 DEF With
<1>5. Range(collected') = Range(collected) \cup {awaited}
  BY <1>1, <1>4 DEF Range
<1>6. TasksTyped'
  BY <1>2, <1>3, <1>4
<1>7. HeldByName' /\ AwaitedForHead'
  BY <1>3 DEF HeldByName, AwaitedForHead
<1>8. CollectedByName'
  BY <1>1, <1>3, <1>4 DEF CollectedByName, IsOver
<1>9. HandlesAreDisjoint'
  BY <1>3, <1>5, NoTaskIsNone, <1>1, AsyncAssumption DEF HandlesAreDisjoint, AsyncAssumption
<1>10. DueAccounted'
  BY <1>1, <1>2, <1>3, <1>4, <1>5 DEF DueAccounted
<1> QED
  BY <1>6, <1>7, <1>8, <1>9, <1>10

\* The other steps of the request leave the handles alone, or drop them all.
LEMMA OtherTaskSteps == ASSUME TasksInv, Replace \/ EndJoin \/ EndRequest \/ UNCHANGED tasksVars PROVE TasksInv'
<1> USE DEF TasksInv, TasksTyped
<1>1. CASE Replace \/ UNCHANGED tasksVars
  <2>1. UNCHANGED <<tasks, registry, request, join>>
    BY <1>1 DEF Replace, tasksVars, join
  <2> QED
    BY <2>1 DEF join, HeldByName, CollectedByName, IsOver, AwaitedForHead,
                HandlesAreDisjoint, DueAccounted
<1>2. CASE EndJoin
  <2>1. awaited = NoTask /\ request' = "step" /\ UNCHANGED <<tasks, registry, join>>
    BY <1>2 DEF EndJoin
  <2> QED
    BY <2>1 DEF join, HeldByName, CollectedByName, IsOver, AwaitedForHead,
                HandlesAreDisjoint, DueAccounted
<1>3. CASE EndRequest
  <2>1. /\ registry' = NoResults /\ awaited' = NoTask
        /\ request' \in {"ended", "dropped"}
        /\ UNCHANGED <<tasks, targets, collected, due>>
    BY <1>3 DEF EndRequest
  <2>2. DOMAIN registry' = {} /\ Range(registry') = {}
    BY <2>1 DEF NoResults, Range
  <2>3. TasksTyped'
    BY <2>1 DEF NoResults
  <2>4. HeldByName' /\ CollectedByName' /\ AwaitedForHead' /\ DueAccounted'
    BY <2>1, <2>2 DEF HeldByName, CollectedByName, IsOver, AwaitedForHead, DueAccounted
  <2>5. HandlesAreDisjoint'
    BY <2>1, <2>2, NoTaskIsNone DEF HandlesAreDisjoint, IsInjective
  <2> QED
    BY <2>3, <2>4, <2>5
<1> QED
  BY <1>1, <1>2, <1>3

\* So every step keeps the invariant.
LEMMA NextTasksInv == TasksInv /\ [TasksNext]_tasksVars => TasksInv'
<1> SUFFICES ASSUME TasksInv, [TasksNext]_tasksVars PROVE TasksInv'
  OBVIOUS
<1> QED
  BY SpawnInv, TaskEndsInv, StartJoinInv, TakeInv, CollectInv, OtherTaskSteps DEF TasksNext

---------------------------------------------------------------------------
\* Whatever is spawned and joined in whatever order, a handle is joined once:
\* what the registry holds, what is awaited and what has been collected never
\* share a task.
THEOREM JoinedOnce == TasksSpec => []HandlesAreDisjoint
<1>1. TasksInv => HandlesAreDisjoint
  BY DEF TasksInv
<1> QED
  BY <1>1, InitTasksInv, NextTasksInv, PTL DEF TasksSpec

\* A join that ends carries exactly the tasks that were registered under its
\* names when it began, each under its name and each ended.
THEOREM JoinCompletes == TasksSpec => JoinIsComplete
<1>1. ASSUME TasksInv, EndJoin
      PROVE  /\ due = Range(collected)
             /\ \A n \in DOMAIN collected :
                  tasks[collected[n]].name = n /\ IsOver(collected[n])
  <2>1. request = "join" /\ awaited = NoTask /\ targets = <<>>
    BY <1>1 DEF EndJoin
  <2>2. Range(targets) = {}
    BY <2>1 DEF Range
  <2> QED
    BY <1>1, <2>1, <2>2 DEF TasksInv, DueAccounted, CollectedByName
<1>2. TasksInv /\ [TasksNext]_tasksVars =>
        [EndJoin => /\ due = Range(collected)
                    /\ \A n \in DOMAIN collected :
                         tasks[collected[n]].name = n /\ IsOver(collected[n])]_tasksVars
  BY <1>1
<1> QED
  BY <1>2, InitTasksInv, NextTasksInv, PTL DEF TasksSpec, JoinIsComplete

---------------------------------------------------------------------------
(***************************************************************************)
(* A request from its arrival to its answer: the inductive invariant.      *)
(***************************************************************************)
Actors == {"front", "task"}

IsEntryFrame(f) == f = [module |-> f.module, steps |-> f.steps, by |-> f.by]
WellStacked(s) == IsListed(s) /\ \A i \in DOMAIN s : IsEntryFrame(s[i])

\* Records and sequences are what they are built as.
RunsShaped ==
  /\ runs = [r \in Actors |->
               [stack |-> runs[r].stack, flags |-> runs[r].flags,
                user |-> runs[r].user, deferred |-> runs[r].deferred]]
  /\ \A r \in Actors : WellStacked(runs[r].stack)

\* Nothing runs before a request, or a script, has begun.
QuietBefore ==
  phase \notin {"preflight", "main", "answered", "crashed"}
  => \A r \in Actors : runs[r].stack = <<>>

\* A server that takes requests has searched every route to the end.
RoutesSearched ==
  phase = "idle" \/ (Served /\ phase \in {"preflight", "main"})
  => \A id \in RouteIds(prog) : NeedsFlags(Env, Merged(prog)[id].pipeline) # "endless"

\* A request that runs has a route, and a flags pipeline runs if the search
\* asked for it.
RouteFound ==
  Served /\ phase \in {"preflight", "main"} =>
    /\ Receiver(incoming) = "route"
    /\ phase = "preflight" => Foreseen(Route(incoming))

\* What is left of a frame is made of two pipelines that were looked at (a
\* block's lead and a branch), or of less.
Pieces(m, looked) == {p.steps : p \in {q \in looked : q.module = m}} \cup {<<>>}
Covered(m, steps, looked) == \E a, b \in Pieces(m, looked) : steps = a \o b

\* Nothing up to this frame has been reached by an alias or a query.
InSight(stack, i) == \A j \in 1..i : stack[j].by \notin {"alias", "query"}

StackCovered(stack, looked) ==
  \A i \in DOMAIN stack :
    InSight(stack, i) => Covered(stack[i].module, stack[i].steps, looked)

\* A request whose flags pipeline was not run is in what the search has seen.
RunsCovered ==
  phase = "main" /\ Served /\ prog.flags # NoValue /\ ~Foreseen(Route(incoming))
  => \A r \in Actors :
       StackCovered(runs[r].stack, Looked(Env, Route(incoming).pipeline))

\* The flags of a run are granted ones, the front's once it is the run proper.
FlagsTold ==
  /\ runs["task"].flags \subseteq granted
  /\ phase = "main" => runs["front"].flags \subseteq granted

EntryInv ==
  /\ prog \in Programs /\ loaded \in BOOLEAN
  /\ RunsShaped /\ FlagsTold /\ QuietBefore /\ RoutesSearched /\ RouteFound /\ RunsCovered

---------------------------------------------------------------------------
(***************************************************************************)
(* Names in tests and in the server.                                       *)
(***************************************************************************)
\* A nonempty set of naturals has a least member.
LEMMA LeastPlace ==
  ASSUME NEW S, S \subseteq Nat, S # {}
  PROVE  \E m \in S : \A n \in S : m <= n
<1> DEFINE upTo == {1..n : n \in S}
           R == StrictSubsetOrdering(Nat)
<1>1. upTo \subseteq FiniteSubsetsOf(Nat)
  <2> SUFFICES ASSUME NEW n \in S PROVE 1..n \in FiniteSubsetsOf(Nat)
    OBVIOUS
  <2>1. n \in Nat /\ 1 \in Int
    OBVIOUS
  <2>2. 1..n \subseteq Nat
    BY <2>1
  <2>3. IsFiniteSet(1..n)
    BY <2>1, FS_Interval, n \in Int
  <2> QED  BY <2>2, <2>3 DEF FiniteSubsetsOf
<1>2. IsWellFoundedOn(R, FiniteSubsetsOf(Nat))
  BY FS_StrictSubsetOrderingWellFounded
<1>3. \E x \in upTo : \A y \in upTo : <<y, x>> \notin R
  <2>1. upTo # {}
    OBVIOUS
  <2> HIDE DEF upTo, R
  <2> QED  BY <1>1, <1>2, <2>1, WFMin
<1>4. PICK m \in S : \A n \in S : <<1..n, 1..m>> \notin R
  BY <1>3
<1>5. ASSUME NEW n \in S, n < m PROVE FALSE
  <2>1. m \in Nat /\ n \in Nat
    OBVIOUS
  <2>2. 1..n \subseteq 1..m /\ m \in 1..m /\ m \notin 1..n
    BY <1>5, <2>1
  <2>3. 1..n \in SUBSET Nat /\ 1..m \in SUBSET Nat /\ 1..n # 1..m
    BY <2>1, <2>2
  <2>4. <<1..n, 1..m>> \in R
    BY <2>2, <2>3 DEF StrictSubsetOrdering
  <2> QED  BY <1>4, <2>4
<1>6. \A n \in S : m <= n
  BY <1>5
<1> QED  BY <1>6

\* No pipeline and no variable of a module has the id that stands for none.
LEMMA TestNames ==
  ASSUME NEW p \in Programs, NEW kind, NEW m, NEW n,
         Find(TestTable(p, kind, TRUE), m, n).found
  PROVE  /\ m # NoModule
         /\ Find(ServerTable(p, kind, TRUE), m, n) = Find(TestTable(p, kind, TRUE), m, n)
<1>1. <<m, n>> \in ByModule(p, kind)
  BY DEF Find, TestTable, Absent
<1>2. m \in DOMAIN p.modules /\ m # NoModule
  BY <1>1, EntryAssumption DEF ByModule
<1>3. <<m, n>> \in DOMAIN ServerTable(p, kind, TRUE)
  BY <1>1 DEF ServerTable
<1>4. TestTable(p, kind, TRUE)[<<m, n>>] = Located(m, p.modules[m][kind][n])
  BY <1>1 DEF TestTable
<1>5. ServerTable(p, kind, TRUE)[<<m, n>>] = Located(m, p.modules[m][kind][n])
  BY <1>1, <1>2 DEF ServerTable
<1>6. <<m, n>> \in DOMAIN TestTable(p, kind, TRUE)
  BY <1>1 DEF TestTable
<1> QED  BY <1>2, <1>3, <1>4, <1>5, <1>6 DEF Find

\* What both tables are linked into.
LEMMA LinkedBoth ==
  ASSUME NEW p
  PROVE  LET test == Linked(p, TRUE, TestTable)
             env == Linked(p, TRUE, ServerTable)
         IN  /\ test.pipelines = TestTable(p, "pipelines", TRUE)
             /\ test.variables = TestTable(p, "variables", TRUE)
             /\ env.pipelines = ServerTable(p, "pipelines", TRUE)
             /\ env.variables = ServerTable(p, "variables", TRUE)
             /\ env.imports = test.imports
BY DEF Linked

\* A name means in the server what it means in a test, pipelines and
\* variables, whatever modules import what under which alias
\* (load_imports_for_tests, build_runtime).
LEMMA NamesAgree ==
  ASSUME NEW p \in Programs, NEW m, NEW ref
  PROVE  LET test == Linked(p, TRUE, TestTable)
             env == Linked(p, TRUE, ServerTable)
         IN  /\ ResolvePipeline(test, m, ref).found
                => ResolvePipeline(env, m, ref) = ResolvePipeline(test, m, ref)
             /\ ResolveVariable(test, m, ref).found
                => ResolveVariable(env, m, ref) = ResolveVariable(test, m, ref)
<1> DEFINE test == Linked(p, TRUE, TestTable)
           env == Linked(p, TRUE, ServerTable)
<1>1. /\ test.pipelines = TestTable(p, "pipelines", TRUE)
      /\ test.variables = TestTable(p, "variables", TRUE)
      /\ env.pipelines = ServerTable(p, "pipelines", TRUE)
      /\ env.variables = ServerTable(p, "variables", TRUE)
      /\ env.imports = test.imports
  BY LinkedBoth
<1> HIDE DEF test, env
<1>2. \A k, n : Find(test.pipelines, k, n).found =>
        k # NoModule /\ Find(env.pipelines, k, n) = Find(test.pipelines, k, n)
  <2>1. ASSUME NEW k, NEW n, Find(TestTable(p, "pipelines", TRUE), k, n).found
        PROVE  /\ k # NoModule
               /\ Find(ServerTable(p, "pipelines", TRUE), k, n)
                  = Find(TestTable(p, "pipelines", TRUE), k, n)
    BY <2>1, TestNames
  <2> QED  BY <1>1, <2>1
<1>3. \A k, n : Find(test.variables, k, n).found =>
        k # NoModule /\ Find(env.variables, k, n) = Find(test.variables, k, n)
  <2>1. ASSUME NEW k, NEW n, Find(TestTable(p, "variables", TRUE), k, n).found
        PROVE  /\ k # NoModule
               /\ Find(ServerTable(p, "variables", TRUE), k, n)
                  = Find(TestTable(p, "variables", TRUE), k, n)
    BY <2>1, TestNames
  <2> QED  BY <1>1, <2>1
<1>4. Target(env, m, ref.alias) = Target(test, m, ref.alias)
  BY <1>1 DEF Target
<1>5. ~Absent.found
  BY DEF Absent
<1>6. ResolvePipeline(test, m, ref).found
      => ResolvePipeline(env, m, ref) = ResolvePipeline(test, m, ref)
  BY <1>2, <1>4 DEF ResolvePipeline, FindPlain
<1>7. ResolveVariable(test, m, ref).found
      => ResolveVariable(env, m, ref) = ResolveVariable(test, m, ref)
  BY <1>3, <1>4, <1>5 DEF ResolveVariable, FindPlain
<1> QED  BY <1>6, <1>7 DEF test, env

\* What a name without an alias stands for in the server, in a file that is m.
LEMMA PlainNames ==
  ASSUME NEW p \in Programs, NEW kind, NEW m \in DOMAIN p.modules, NEW n \in Named(p, kind)
  PROVE  /\ Definers(p, kind, n) # {}
         /\ FindPlain(ServerTable(p, kind, TRUE), m, n) =
              IF m \in Definers(p, kind, n) THEN Located(m, p.modules[m][kind][n])
              ELSE LastNamed(p, kind, n)
<1> DEFINE table == ServerTable(p, kind, TRUE)
<1>1. Definers(p, kind, n) # {}
  BY DEF Named, Definers
<1>2. m # NoModule
  BY EntryAssumption
<1>3. <<m, n>> \in DOMAIN table <=> m \in Definers(p, kind, n)
  BY <1>2 DEF ServerTable, ByModule, Definers
<1>4. m \in Definers(p, kind, n) => table[<<m, n>>] = Located(m, p.modules[m][kind][n])
  BY <1>2, <1>3 DEF ServerTable
<1>5. <<NoModule, n>> \in DOMAIN table /\ table[<<NoModule, n>>] = LastNamed(p, kind, n)
  BY DEF ServerTable
<1>6. /\ Located(m, p.modules[m][kind][n]).found
      /\ ~Absent.found
  BY DEF Located, Absent
<1> HIDE DEF table
<1>7. FindPlain(table, m, n) = IF m \in Definers(p, kind, n)
                                 THEN Located(m, p.modules[m][kind][n]) ELSE LastNamed(p, kind, n)
  BY <1>3, <1>4, <1>5, <1>6 DEF FindPlain, Find
<1> QED  BY <1>1, <1>7 DEF table

\* When the pipeline a test executes is the one its name stands for in the
\* test's file.
LEMMA EntriesAgree ==
  ASSUME NEW p \in Programs, NEW m \in DOMAIN p.modules, NEW n \in Named(p, "pipelines")
  PROVE  LET env == Linked(p, TRUE, ServerTable)
             all == Definers(p, "pipelines", n)
         IN  TestPipeline(p, n) = ResolvePipeline(env, m, Unqualified(n))
             <=> IF m \in all THEN m = Min(all) ELSE Min(all) = Max(all)
<1> DEFINE env == Linked(p, TRUE, ServerTable)
           all == Definers(p, "pipelines", n)
           first == Min(all)
           last == Max(all)
           steps(i) == p.modules[i].pipelines[n]
<1>1. ResolvePipeline(env, m, Unqualified(n)) =
        IF m \in all THEN Located(m, steps(m)) ELSE Located(last, steps(last))
  <2>1. env.pipelines = ServerTable(p, "pipelines", TRUE)
    BY LinkedBoth
  <2>2. ResolvePipeline(env, m, Unqualified(n)) = FindPlain(env.pipelines, m, n)
    BY DEF ResolvePipeline, Unqualified
  <2>3. LastNamed(p, "pipelines", n) = Located(last, steps(last))
    BY DEF LastNamed
  <2>4. FindPlain(ServerTable(p, "pipelines", TRUE), m, n) =
          IF m \in Definers(p, "pipelines", n) THEN Located(m, p.modules[m]["pipelines"][n])
          ELSE LastNamed(p, "pipelines", n)
    BY PlainNames
  <2>5. steps(m) = p.modules[m]["pipelines"][n]
    OBVIOUS
  <2> HIDE DEF env, steps, last
  <2> QED  BY <2>1, <2>2, <2>3, <2>4, <2>5
<1>2. TestPipeline(p, n) = Located(first, steps(first))
  BY DEF TestPipeline
<1>3. \A i, j : Located(i, steps(i)) = Located(j, steps(j)) <=> i = j
  BY DEF Located
<1> HIDE DEF env, all, first, last, steps
<1>4. TestPipeline(p, n) = ResolvePipeline(env, m, Unqualified(n))
      <=> IF m \in all THEN m = first ELSE first = last
  BY <1>1, <1>2, <1>3
<1> QED  BY <1>4 DEF env, all, first, last

\* A variable that a test executes is the main file's, as the server finds it there.
LEMMA VariablesAgree ==
  ASSUME NEW p \in Programs, NEW n \in DOMAIN p.modules[p.root].variables
  PROVE  LET env == Linked(p, TRUE, ServerTable)
             found == ResolveVariable(env, p.root, Unqualified(n))
         IN  TestVariable(p, n) = Located(NoModule, found.steps)
<1> DEFINE env == Linked(p, TRUE, ServerTable)
           text == p.modules[p.root].variables[n]
<1>1. p.root \in DOMAIN p.modules
  BY EntryAssumption
<1>2. n \in Named(p, "variables") /\ p.root \in Definers(p, "variables", n)
  BY <1>1 DEF Named, Definers
<1>3. env.variables = ServerTable(p, "variables", TRUE)
  BY LinkedBoth
<1>4. ResolveVariable(env, p.root, Unqualified(n)) = FindPlain(env.variables, p.root, n)
  BY DEF ResolveVariable, Unqualified
<1> HIDE DEF env
<1>5. ResolveVariable(env, p.root, Unqualified(n)) = Located(p.root, text)
  BY <1>1, <1>2, <1>3, <1>4, PlainNames
<1>6. TestVariable(p, n) = Located(NoModule, text)
  BY DEF TestVariable
<1> HIDE DEF text
<1>7. Located(p.root, text).steps = text
  BY DEF Located
<1> QED  BY <1>5, <1>6, <1>7 DEF env

---------------------------------------------------------------------------
(***************************************************************************)
(* Routes and the requests they answer.                                    *)
(***************************************************************************)
\* A path is a list of segments, none of them the one that stands for what a
\* client fills in.
LEMMA PathFacts ==
  ASSUME NEW p \in Programs, NEW id \in DOMAIN Merged(p)
  PROVE  /\ Merged(p)[id].path \in Seq(ToSet(Merged(p)[id].path))
         /\ \A j \in DOMAIN Merged(p)[id].path : Merged(p)[id].path[j] # OtherSegment
         /\ id[1] \in Nat /\ id[2] \in Nat /\ id = <<id[1], id[2]>>
<1>1. id \in RouteIds(p)
  BY DEF Merged
<1>2. PICK m \in DOMAIN p.modules : id \in {m} \X DOMAIN p.modules[m].routes
  BY <1>1 DEF RouteIds
<1>3. id = <<m, id[2]>> /\ id[1] = m /\ id[2] \in DOMAIN p.modules[m].routes
  BY <1>2
<1>4. Merged(p)[id].path = p.modules[m].routes[id[2]].path
  BY <1>1, <1>3 DEF Merged
<1> QED  BY <1>3, <1>4, EntryAssumption DEF IsListed

\* Of two routes of one shape only one is inserted.
LEMMA InsertedOnce ==
  ASSUME NEW p \in Programs, NEW i \in DOMAIN Merged(p), NEW r \in Inserted(p),
         \A k \in DOMAIN Merged(p) : Precedes(k, i) => ~SameShape(Merged(p)[k], Merged(p)[i]),
         SameShape(r, Merged(p)[i])
  PROVE  r = Merged(p)[i]
<1> DEFINE all == Merged(p)
<1>1. PICK j \in DOMAIN all :
        /\ r = all[j]
        /\ \A k \in DOMAIN all : Precedes(k, j) => ~SameShape(all[j], all[k])
  BY DEF Inserted
<1>2. i[1] \in Nat /\ i[2] \in Nat /\ i = <<i[1], i[2]>>
      /\ j[1] \in Nat /\ j[2] \in Nat /\ j = <<j[1], j[2]>>
  BY PathFacts
<1>3. Precedes(i, j) \/ Precedes(j, i) \/ i = j
  BY <1>2 DEF Precedes
<1>4. ~Precedes(i, j) /\ ~Precedes(j, i)
  BY <1>1 DEF SameShape
<1> QED  BY <1>1, <1>3, <1>4

\* A route that also matches the example of a route is one it is preferred to.
LEMMA ExampleIsOwn ==
  ASSUME NEW p \in Programs, NEW i \in DOMAIN Merged(p), NEW r \in Inserted(p),
         \A k \in DOMAIN Merged(p) : Precedes(k, i) => ~SameShape(Merged(p)[k], Merged(p)[i]),
         Matches(r, Merged(p)[i].method, Example(Merged(p)[i]))
  PROVE  r = Merged(p)[i] \/ (Prefers(Merged(p)[i], r) /\ ~Prefers(r, Merged(p)[i]))
<1> DEFINE own == Merged(p)[i].path
           differ == {j \in DOMAIN own : own[j] # r.path[j]}
<1>1. PICK k \in DOMAIN Merged(p) : r = Merged(p)[k]
  BY DEF Inserted
<1>2. /\ own \in Seq(ToSet(own)) /\ r.path \in Seq(ToSet(r.path))
      /\ \A j \in DOMAIN own : own[j] # OtherSegment
      /\ \A j \in DOMAIN r.path : r.path[j] # OtherSegment
  BY <1>1, PathFacts
<1>3. /\ r.method = Merged(p)[i].method
      /\ Len(r.path) = Len(Example(Merged(p)[i]))
      /\ \A j \in DOMAIN Example(Merged(p)[i]) : r.path[j] \in {Example(Merged(p)[i])[j], Param}
  BY DEF Matches
<1>4. Len(own) \in Nat /\ DOMAIN own = 1..Len(own) /\ DOMAIN r.path = 1..Len(r.path)
      /\ Len(r.path) \in Nat
  BY <1>2, LenProperties
<1>5. /\ DOMAIN Example(Merged(p)[i]) = 1..Len(own)
      /\ \A j \in 1..Len(own) :
           Example(Merged(p)[i])[j] = IF own[j] = Param THEN OtherSegment ELSE own[j]
  BY <1>4 DEF Example
<1>6. Len(Example(Merged(p)[i])) = Len(own)
  BY <1>4, <1>5
<1>7. \A j \in 1..Len(own) : r.path[j] = own[j] \/ (r.path[j] = Param /\ own[j] # Param)
  BY <1>2, <1>3, <1>4, <1>5, <1>6
<1>8. CASE differ = {}
  <2>1. \A j \in 1..Len(own) : r.path[j] = own[j]
    BY <1>4, <1>8
  <2>2. r.path = own
    BY <1>2, <1>3, <1>4, <1>6, <2>1
  <2>3. SameShape(r, Merged(p)[i])
    BY <1>3, <2>2 DEF SameShape
  <2> QED  BY <2>3, InsertedOnce
<1>9. CASE differ # {}
  <2>1. differ \subseteq Nat
    BY <1>4
  <2>2. PICK j \in differ : \A n \in differ : j <= n
    BY <1>9, <2>1, LeastPlace
  <2>3. j \in 1..Len(own) /\ own[j] # Param /\ r.path[j] = Param
    BY <1>4, <1>7, <2>2
  <2>4. ASSUME NEW n \in 1..(j - 1) PROVE own[n] = r.path[n]
    <3>1. n \in DOMAIN own /\ ~(j <= n)
      BY <1>4, <2>3
    <3> QED  BY <2>2, <3>1
  <2>5. Prefers(Merged(p)[i], r)
    BY <1>4, <2>3, <2>4 DEF Prefers
  <2>6. ~Prefers(r, Merged(p)[i])
    BY <1>3, <1>4, <1>6, <1>7 DEF Prefers
  <2> QED  BY <2>5, <2>6
<1> QED  BY <1>8, <1>9

\* The example of an inserted route is answered by it.
LEMMA RouteAnswers ==
  ASSUME NEW p \in Programs, NEW i \in DOMAIN Merged(p),
         Merged(p)[i].method \in Methods,
         \A k \in DOMAIN Merged(p) : Precedes(k, i) => ~SameShape(Merged(p)[k], Merged(p)[i])
  PROVE  RouteFor(Inserted(p), Merged(p)[i].method, Example(Merged(p)[i])) = {Merged(p)[i]}
<1> DEFINE all == Merged(p)
           own == all[i]
           example == Example(own)
           found == {r \in Inserted(p) : Matches(r, own.method, example)}
<1>1. \A k \in DOMAIN all : Precedes(k, i) => ~SameShape(all[i], all[k])
  BY DEF SameShape
<1>2. own \in Inserted(p)
  BY <1>1 DEF Inserted
<1>3. own.path \in Seq(ToSet(own.path)) /\ Len(own.path) \in Nat
      /\ DOMAIN own.path = 1..Len(own.path)
  BY PathFacts, LenProperties
<1>4. DOMAIN example = 1..Len(own.path)
      /\ \A j \in 1..Len(own.path) : own.path[j] \in {example[j], Param}
  BY <1>3 DEF Example
<1>5. Len(example) = Len(own.path)
  BY <1>3, <1>4
<1>6. own \in found
  BY <1>2, <1>4, <1>5 DEF Matches
<1>7. \A r \in found \ {own} : Prefers(own, r) /\ ~Prefers(r, own)
  BY ExampleIsOwn
<1>8. RouteFor(Inserted(p), own.method, example)
      = {r \in found : \A s \in found \ {r} : Prefers(r, s)}
  BY DEF RouteFor
<1> HIDE DEF found, own, example
<1>9. {r \in found : \A s \in found \ {r} : Prefers(r, s)} = {own}
  BY <1>6, <1>7
<1> QED  BY <1>8, <1>9 DEF own, example
---------------------------------------------------------------------------
(***************************************************************************)
(* Stacks of frames.                                                       *)
(***************************************************************************)
LEMMA ListFacts ==
  ASSUME NEW s, IsListed(s)
  PROVE  /\ Len(s) \in Nat /\ DOMAIN s = 1..Len(s)
         /\ s = <<>> <=> Len(s) = 0
         /\ s # <<>> => Len(s) \in 1..Len(s) /\ Last(s) = s[Len(s)]
<1>1. s \in Seq(ToSet(s))
  BY DEF IsListed
<1>2. Len(s) \in Nat /\ DOMAIN s = 1..Len(s)
  BY <1>1, LenProperties
<1>3. s = <<>> <=> Len(s) = 0
  BY <1>1, <1>2, EmptySeq
<1> QED  BY <1>2, <1>3 DEF Last

\* A sequence over a set is one over its own members.
LEMMA ListOfAny ==
  ASSUME NEW S, NEW s \in Seq(S)
  PROVE  IsListed(s)
<1>1. Len(s) \in Nat /\ DOMAIN s = 1..Len(s) /\ s \in [1..Len(s) -> S]
  BY LenProperties
<1>2. s \in [1..Len(s) -> ToSet(s)]
  BY <1>1 DEF ToSet
<1> QED  BY <1>1, <1>2, SeqDef DEF IsListed

\* Two lists joined are a list.
LEMMA ListsJoined ==
  ASSUME NEW a, NEW b, IsListed(a), IsListed(b)
  PROVE  /\ IsListed(a \o b) /\ Len(a \o b) = Len(a) + Len(b)
         /\ \A i \in 1..(Len(a) + Len(b)) :
              (a \o b)[i] = IF i <= Len(a) THEN a[i] ELSE b[i - Len(a)]
         /\ a \o <<>> = a /\ <<>> \o b = b
<1> DEFINE S == ToSet(a) \cup ToSet(b)
<1>1. a \in Seq(S) /\ b \in Seq(S)
  BY SeqMonotonic, ToSet(a) \subseteq S, ToSet(b) \subseteq S DEF IsListed
<1> HIDE DEF S
<1>2. a \o b \in Seq(S) /\ Len(a \o b) = Len(a) + Len(b)
      /\ \A i \in 1..(Len(a) + Len(b)) :
           (a \o b)[i] = IF i <= Len(a) THEN a[i] ELSE b[i - Len(a)]
  BY <1>1, ConcatProperties
<1> QED  BY <1>1, <1>2, ListOfAny, ConcatEmptySeq

\* The rest of two lists joined.
LEMMA JoinedTail ==
  ASSUME NEW a, NEW b, IsListed(a), IsListed(b), a # <<>>
  PROVE  Head(a \o b) = Head(a) /\ Tail(a \o b) = Tail(a) \o b /\ IsListed(Tail(a))
<1> DEFINE S == ToSet(a) \cup ToSet(b)
<1>1. a \in Seq(S) /\ b \in Seq(S)
  BY SeqMonotonic, ToSet(a) \subseteq S, ToSet(b) \subseteq S DEF IsListed
<1> HIDE DEF S
<1>2. Len(a) \in Nat \ {0} /\ Len(b) \in Nat
  BY ListFacts
<1>3. Tail(a) \in Seq(S) /\ Len(Tail(a)) = Len(a) - 1
      /\ \A i \in 1..Len(Tail(a)) : Tail(a)[i] = a[i + 1]
  BY <1>1, HeadTailProperties
<1>4. a \o b \in Seq(S) /\ Len(a \o b) = Len(a) + Len(b)
      /\ \A i \in 1..(Len(a) + Len(b)) :
           (a \o b)[i] = IF i <= Len(a) THEN a[i] ELSE b[i - Len(a)]
  BY <1>1, ConcatProperties
<1>5. a \o b # <<>>
  BY <1>2, <1>4
<1>6. Tail(a \o b) \in Seq(S) /\ Len(Tail(a \o b)) = Len(a) + Len(b) - 1
      /\ \A i \in 1..Len(Tail(a \o b)) : Tail(a \o b)[i] = (a \o b)[i + 1]
  BY <1>4, <1>5, HeadTailProperties
<1>7. Tail(a) \o b \in Seq(S) /\ Len(Tail(a) \o b) = Len(a) + Len(b) - 1
      /\ \A i \in 1..(Len(Tail(a)) + Len(b)) :
           (Tail(a) \o b)[i] = IF i <= Len(Tail(a)) THEN Tail(a)[i] ELSE b[i - Len(Tail(a))]
  <2>1. Len(Tail(a) \o b) = Len(Tail(a)) + Len(b)
    BY <1>1, <1>3, ConcatProperties
  <2>2. Len(Tail(a)) + Len(b) = Len(a) + Len(b) - 1
    BY <1>2, <1>3
  <2> QED  BY <1>1, <1>3, <2>1, <2>2, ConcatProperties
<1>8. ASSUME NEW i \in 1..(Len(a) + Len(b) - 1)
      PROVE  Tail(a \o b)[i] = (Tail(a) \o b)[i]
  <2>1. Tail(a \o b)[i] = (a \o b)[i + 1]
    BY <1>6
  <2>2. i + 1 \in 1..(Len(a) + Len(b)) /\ i \in 1..(Len(Tail(a)) + Len(b))
    BY <1>2, <1>3
  <2>3. CASE i + 1 <= Len(a)
    <3>1. i \in 1..Len(Tail(a)) /\ i <= Len(Tail(a))
      BY <1>2, <1>3, <2>3
    <3> QED  BY <1>3, <1>4, <1>7, <2>1, <2>2, <2>3, <3>1
  <2>4. CASE ~(i + 1 <= Len(a))
    <3>1. ~(i <= Len(Tail(a))) /\ i - Len(Tail(a)) = i + 1 - Len(a)
      BY <1>2, <1>3, <2>4
    <3> QED  BY <1>4, <1>7, <2>1, <2>2, <2>4, <3>1
  <2> QED  BY <2>3, <2>4
<1>9. Tail(a \o b) = Tail(a) \o b
  BY <1>6, <1>7, <1>8, SeqEqual
<1>10. Head(a \o b) = Head(a)
  BY <1>2, <1>4
<1> QED  BY <1>3, <1>9, <1>10, ListOfAny

AdvancedList(s) == [s EXCEPT ![Len(s)].steps = Tail(@)]

\* A frame that moves on is a frame with its first step gone.
LEMMA FrameAdvances ==
  ASSUME NEW c, IsEntryFrame(c)
  PROVE  [c EXCEPT !.steps = Tail(@)]
         = [module |-> c.module, steps |-> Tail(c.steps), by |-> c.by]
<1>1. PICK m, steps, by : c = [module |-> m, steps |-> steps, by |-> by]
  BY DEF IsEntryFrame
<1>2. c.module = m /\ c.steps = steps /\ c.by = by
  BY <1>1
<1> DEFINE rest == Tail(c.steps)
<1>3. [c EXCEPT !.steps = Tail(@)] = [c EXCEPT !.steps = rest]
  OBVIOUS
<1> HIDE DEF rest
<1>4. [c EXCEPT !.steps = rest] = [module |-> m, steps |-> rest, by |-> by]
  BY <1>1
<1>5. [c EXCEPT !.steps = Tail(@)] = [module |-> c.module, steps |-> rest, by |-> c.by]
  BY <1>2, <1>3, <1>4
<1> QED  BY <1>5 DEF rest

\* The innermost frame moves to its next step.
LEMMA TopAdvances ==
  ASSUME NEW s, WellStacked(s), s # <<>>
  PROVE  LET u == AdvancedList(s)
         IN  /\ WellStacked(u) /\ Len(u) = Len(s)
             /\ \A i \in 1..Len(s) :
                  u[i] = IF i = Len(s)
                           THEN [module |-> s[i].module, steps |-> Tail(s[i].steps), by |-> s[i].by]
                           ELSE s[i]
<1> DEFINE n == Len(s)
           c == s[n]
           d == [module |-> c.module, steps |-> Tail(c.steps), by |-> c.by]
           u == AdvancedList(s)
<1>1. n \in Nat /\ n \in 1..n /\ DOMAIN s = 1..n
  BY ListFacts DEF WellStacked
<1>2. IsEntryFrame(c)
  BY <1>1 DEF WellStacked
<1>3. [c EXCEPT !.steps = Tail(@)] = d
  BY <1>2, FrameAdvances
<1>4. u = [s EXCEPT ![n] = d]
  BY <1>1, <1>3 DEF AdvancedList
<1>5. IsEntryFrame(d)
  BY DEF IsEntryFrame
<1>6. s \in Seq(ToSet(s) \cup {d})
  BY SeqMonotonic, ToSet(s) \subseteq ToSet(s) \cup {d} DEF WellStacked, IsListed
<1>7. u \in Seq(ToSet(s) \cup {d}) /\ Len(u) = n
      /\ \A j \in 1..n : u[j] = IF j = n THEN d ELSE s[j]
  BY <1>1, <1>4, <1>6, ExceptSeq
<1>8. IsListed(u)
  BY <1>7, ListOfAny
<1>9. \A j \in 1..n : IsEntryFrame(s[j])
  BY <1>1 DEF WellStacked
<1>10. DOMAIN u = 1..n
  BY <1>7, <1>8, ListFacts
<1>11. \A j \in DOMAIN u : IsEntryFrame(u[j])
  <2> HIDE DEF u, d
  <2> QED  BY <1>5, <1>7, <1>9, <1>10
<1> QED  BY <1>7, <1>8, <1>11 DEF WellStacked

\* A frame is pushed.
LEMMA FramePushed ==
  ASSUME NEW s, WellStacked(s), NEW f, IsEntryFrame(f)
  PROVE  /\ WellStacked(s \o <<f>>) /\ Len(s \o <<f>>) = Len(s) + 1
         /\ \A i \in 1..Len(s) : (s \o <<f>>)[i] = s[i]
         /\ (s \o <<f>>)[Len(s) + 1] = f
<1> DEFINE u == s \o <<f>>
<1>1. <<f>> \in Seq({f}) /\ Len(<<f>>) = 1 /\ <<f>>[1] = f
  OBVIOUS
<1>2. IsListed(<<f>>)
  BY <1>1, ListOfAny
<1>3. Len(s) \in Nat /\ DOMAIN s = 1..Len(s)
  BY ListFacts DEF WellStacked
<1>4. IsListed(u) /\ Len(u) = Len(s) + 1
      /\ \A i \in 1..(Len(s) + 1) : u[i] = IF i <= Len(s) THEN s[i] ELSE <<f>>[i - Len(s)]
  BY <1>1, <1>2, ListsJoined DEF WellStacked
<1>5. u[Len(s) + 1] = f
  BY <1>1, <1>3, <1>4
<1>6. \A i \in 1..Len(s) : u[i] = s[i]
  BY <1>3, <1>4
<1>7. DOMAIN u = 1..(Len(s) + 1)
  BY <1>4, ListFacts
<1>8. \A i \in DOMAIN u : i \in 1..Len(s) \/ i = Len(s) + 1
  BY <1>3, <1>7
<1> HIDE DEF u
<1>9. \A i \in DOMAIN u : IsEntryFrame(u[i])
  BY <1>3, <1>5, <1>6, <1>8 DEF WellStacked
<1>10. WellStacked(u)
  BY <1>4, <1>9 DEF WellStacked
<1> QED  BY <1>4, <1>5, <1>6, <1>10 DEF u

\* A frame is popped.
LEMMA FramePopped ==
  ASSUME NEW s, WellStacked(s), s # <<>>
  PROVE  /\ WellStacked(Front(s)) /\ Len(Front(s)) = Len(s) - 1
         /\ \A i \in 1..(Len(s) - 1) : Front(s)[i] = s[i]
<1> DEFINE u == Front(s)
<1>1. Len(s) \in Nat \ {0} /\ DOMAIN s = 1..Len(s)
  BY ListFacts DEF WellStacked
<1>2. s \in Seq(ToSet(s))
  BY DEF WellStacked, IsListed
<1>3. u = [i \in 1..(Len(s) - 1) |-> s[i]]
  BY <1>1, <1>2 DEF Front
<1>4. \A i \in 1..(Len(s) - 1) : s[i] \in ToSet(s) /\ i \in DOMAIN s
  BY <1>1 DEF ToSet
<1>5. u \in [1..(Len(s) - 1) -> ToSet(s)]
  BY <1>3, <1>4
<1>6. u \in Seq(ToSet(s)) /\ Len(u) = Len(s) - 1
  <2>1. Len(s) - 1 \in Nat
    BY <1>1
  <2>2. DOMAIN u = 1..(Len(s) - 1)
    BY <1>3
  <2> HIDE DEF u
  <2>3. u \in Seq(ToSet(s))
    BY <1>5, <2>1, SeqDef
  <2> QED  BY <2>1, <2>2, <2>3, LenProperties
<1>7. IsListed(u)
  BY <1>6, ListOfAny
<1>8. \A i \in DOMAIN u : IsEntryFrame(u[i])
  BY <1>3, <1>4 DEF WellStacked
<1> QED  BY <1>3, <1>6, <1>7, <1>8 DEF WellStacked

\* One frame is a stack, and so is none.
LEMMA OneFrame ==
  ASSUME NEW f, IsEntryFrame(f)
  PROVE  WellStacked(<<f>>) /\ Len(<<f>>) = 1 /\ DOMAIN <<f>> = {1} /\ <<f>>[1] = f
<1>1. <<f>> \in Seq({f}) /\ Len(<<f>>) = 1 /\ <<f>>[1] = f /\ DOMAIN <<f>> = {1}
  OBVIOUS
<1> QED  BY <1>1, ListOfAny DEF WellStacked

\* The empty stack is a stack.
LEMMA NoFrame == WellStacked(<<>>) /\ DOMAIN <<>> = {}
<1>1. <<>> \in Seq({}) /\ DOMAIN <<>> = {}
  OBVIOUS
<1> QED  BY <1>1, ListOfAny DEF WellStacked

---------------------------------------------------------------------------
(***************************************************************************)
(* The steps of a run, as they move its stack and its flags.               *)
(***************************************************************************)
RunOf(stack, flags, user, deferred) ==
  [stack |-> stack, flags |-> flags, user |-> user, deferred |-> deferred]

\* One run is another; the other one stays.
LEMMA RunSet ==
  ASSUME RunsShaped, NEW r \in Actors, NEW stack, NEW flags, NEW user, NEW deferred,
         WellStacked(stack),
         runs' = [runs EXCEPT ![r] = RunOf(stack, flags, user, deferred)]
  PROVE  /\ RunsShaped'
         /\ runs'[r].stack = stack /\ runs'[r].flags = flags
         /\ \A q \in Actors \ {r} : runs'[q] = runs[q]
<1> DEFINE run == RunOf(stack, flags, user, deferred)
<1>1. runs = [q \in Actors |-> RunOf(runs[q].stack, runs[q].flags, runs[q].user, runs[q].deferred)]
      /\ DOMAIN runs = Actors
  BY DEF RunsShaped, RunOf
<1>2. runs'[r] = run /\ DOMAIN runs' = Actors /\ \A q \in Actors \ {r} : runs'[q] = runs[q]
  BY <1>1
<1>3. \A q \in Actors :
        runs'[q] = RunOf(runs'[q].stack, runs'[q].flags, runs'[q].user, runs'[q].deferred)
  <2>1. CASE TRUE
    <3>1. run = RunOf(run.stack, run.flags, run.user, run.deferred)
      BY DEF RunOf
    <3>2. \A q \in Actors :
            runs[q] = RunOf(runs[q].stack, runs[q].flags, runs[q].user, runs[q].deferred)
      BY <1>1
    <3> HIDE DEF run
    <3>3. ASSUME NEW q \in Actors
          PROVE  runs'[q] = RunOf(runs'[q].stack, runs'[q].flags, runs'[q].user, runs'[q].deferred)
      <4>1. CASE q = r  BY <1>2, <3>1, <4>1
      <4>2. CASE q # r  BY <1>2, <3>2, <4>2
      <4> QED  BY <4>1, <4>2
    <3> QED  BY <3>3
  <2> QED  BY <2>1
<1>4. run.stack = stack /\ run.flags = flags
  BY DEF RunOf
<1>5. runs' = [q \in Actors |->
                 RunOf(runs'[q].stack, runs'[q].flags, runs'[q].user, runs'[q].deferred)]
  <2>1. runs' = [q \in Actors |-> runs'[q]]
    BY <1>1
  <2> QED  BY <1>3, <2>1
<1> HIDE DEF run
<1>6. \A q \in Actors : WellStacked(runs'[q].stack)
  BY <1>2, <1>4 DEF RunsShaped
<1> QED  BY <1>2, <1>4, <1>5, <1>6 DEF RunsShaped, RunOf

\* A run's stack is replaced, and perhaps more of it.
LEMMA RunFields ==
  ASSUME RunsShaped, NEW r \in Actors, NEW stack
  PROVE  /\ [runs EXCEPT ![r].stack = stack]
            = [runs EXCEPT ![r] = RunOf(stack, runs[r].flags, runs[r].user, runs[r].deferred)]
         /\ DOMAIN runs = Actors
         /\ runs[r] = RunOf(runs[r].stack, runs[r].flags, runs[r].user, runs[r].deferred)
<1>1. DOMAIN runs = Actors
      /\ runs[r] = RunOf(runs[r].stack, runs[r].flags, runs[r].user, runs[r].deferred)
  BY DEF RunsShaped, RunOf
<1>2. PICK s, f, u, d : runs[r] = RunOf(s, f, u, d)
  BY <1>1
<1>3. runs[r].stack = s /\ runs[r].flags = f /\ runs[r].user = u /\ runs[r].deferred = d
  BY <1>2 DEF RunOf
<1>4. [runs[r] EXCEPT !.stack = stack] = RunOf(stack, f, u, d)
  BY <1>2 DEF RunOf
<1>5. [runs EXCEPT ![r].stack = stack] = [runs EXCEPT ![r] = [runs[r] EXCEPT !.stack = stack]]
  OBVIOUS
<1> QED  BY <1>1, <1>3, <1>4, <1>5

\* What Enter makes of a run.
LEMMA Entered ==
  ASSUME RunsShaped, NEW r \in Actors, Begins(r), NEW frames
  PROVE  /\ Enter(r, frames)
            = [runs EXCEPT ![r] = RunOf(AdvancedList(runs[r].stack) \o frames,
                                        runs[r].flags, runs[r].user, runs[r].deferred)]
         /\ Enter(r, frames)[r]
            = RunOf(AdvancedList(runs[r].stack) \o frames,
                    runs[r].flags, runs[r].user, runs[r].deferred)
         /\ WellStacked(AdvancedList(runs[r].stack))
         /\ AdvancedList(runs[r].stack) \o <<>> = AdvancedList(runs[r].stack)
<1>1. Advanced(r) = AdvancedList(runs[r].stack)
  BY DEF Advanced, AdvancedList
<1>2. WellStacked(AdvancedList(runs[r].stack))
  BY TopAdvances DEF Begins, RunsShaped
<1>3. AdvancedList(runs[r].stack) \o <<>> = AdvancedList(runs[r].stack)
  BY <1>2, NoFrame, ListsJoined DEF WellStacked
<1>4. Enter(r, frames)
      = [runs EXCEPT ![r] = RunOf(AdvancedList(runs[r].stack) \o frames,
                                  runs[r].flags, runs[r].user, runs[r].deferred)]
  BY <1>1, RunFields DEF Enter
<1> QED  BY <1>2, <1>3, <1>4, RunFields

\* A step that only moves on.
MovesOn(r) ==
  /\ runs'[r].stack = AdvancedList(runs[r].stack)
  /\ \A q \in Actors \ {r} : runs'[q] = runs[q]

\* A step that is skipped only moves its run on.
LEMMA SkipMoves ==
  ASSUME RunsShaped, NEW r \in Actors, Skip(r)
  PROVE  RunsShaped' /\ Begins(r) /\ MovesOn(r) /\ runs'[r].flags = runs[r].flags
<1>1. Begins(r)
  BY DEF Skip
<1>2. runs' = [runs EXCEPT ![r] = RunOf(AdvancedList(runs[r].stack), runs[r].flags,
                                       runs[r].user, runs[r].deferred)]
  <2>1. runs' = Enter(r, <<>>)
    BY DEF Skip
  <2> QED  BY <1>1, <2>1, Entered
<1>3. WellStacked(AdvancedList(runs[r].stack))
  BY <1>1, Entered
<1> QED  BY <1>1, <1>2, <1>3, RunSet DEF MovesOn

\* setFlag moves its run on.
LEMMA LuaMoves ==
  ASSUME RunsShaped, NEW r \in Actors, Lua(r)
  PROVE  RunsShaped' /\ Begins(r) /\ MovesOn(r)
<1> DEFINE stack == AdvancedList(runs[r].stack)
           set == IF Step(r).on THEN runs[r].flags \cup {Step(r).flag}
                  ELSE runs[r].flags \ {Step(r).flag}
           entered == Enter(r, <<>>)
<1>1. Begins(r)
  BY DEF Lua, Executes
<1>2. entered = [runs EXCEPT ![r] = RunOf(stack, runs[r].flags, runs[r].user, runs[r].deferred)]
      /\ entered[r] = RunOf(stack, runs[r].flags, runs[r].user, runs[r].deferred)
      /\ WellStacked(stack)
  BY <1>1, Entered
<1>3. runs' = [entered EXCEPT ![r].flags =
                 IF Step(r).on THEN @ \cup {Step(r).flag} ELSE @ \ {Step(r).flag}]
  BY DEF Lua
<1> HIDE DEF entered, stack
<1>4. entered[r].flags = runs[r].flags
  BY <1>2 DEF RunOf
<1>5. runs' = [entered EXCEPT ![r] = [entered[r] EXCEPT !.flags = set]]
  BY <1>3, <1>4
<1> HIDE DEF set
<1>6. [entered[r] EXCEPT !.flags = set] = RunOf(stack, set, runs[r].user, runs[r].deferred)
  BY <1>2 DEF RunOf
<1>7. runs' = [runs EXCEPT ![r] = RunOf(stack, set, runs[r].user, runs[r].deferred)]
  BY <1>2, <1>5, <1>6, RunFields
<1> QED  BY <1>1, <1>2, <1>7, RunSet DEF MovesOn, stack

\* A step of work moves its run on with the flags it had.
LEMMA PlainMoves ==
  ASSUME RunsShaped, NEW r \in Actors, Plain(r)
  PROVE  RunsShaped' /\ Begins(r) /\ MovesOn(r) /\ runs'[r].flags = runs[r].flags
<1> DEFINE stack == AdvancedList(runs[r].stack)
           entered == Enter(r, <<>>)
<1>1. Begins(r)
  BY DEF Plain, Executes
<1>2. entered = [runs EXCEPT ![r] = RunOf(stack, runs[r].flags, runs[r].user, runs[r].deferred)]
      /\ entered[r] = RunOf(stack, runs[r].flags, runs[r].user, runs[r].deferred)
      /\ WellStacked(stack)
  BY <1>1, Entered
<1>3. runs' = [entered EXCEPT
                 ![r].user = @ \/ Step(r).op = "user",
                 ![r].deferred = IF Step(r).op = "defer" THEN @ + 1 ELSE @]
  BY DEF Plain
<1> HIDE DEF entered, stack
<1>4. PICK user, deferred :
        runs' = [entered EXCEPT ![r].user = user, ![r].deferred = deferred]
  BY <1>3
<1>5. DOMAIN entered = Actors
  BY <1>2, RunFields
<1>6. [[entered[r] EXCEPT !.user = user] EXCEPT !.deferred = deferred]
      = RunOf(stack, runs[r].flags, user, deferred)
  <2> DEFINE first == [entered[r] EXCEPT !.user = user]
  <2>1. first = RunOf(stack, runs[r].flags, user, runs[r].deferred)
    BY <1>2 DEF RunOf
  <2> HIDE DEF first
  <2>2. [first EXCEPT !.deferred = deferred] = RunOf(stack, runs[r].flags, user, deferred)
    BY <2>1 DEF RunOf
  <2> QED  BY <2>2 DEF first
<1>7. runs' = [entered EXCEPT ![r] = [[entered[r] EXCEPT !.user = user] EXCEPT !.deferred = deferred]]
  BY <1>4, <1>5
<1>8. runs' = [runs EXCEPT ![r] = RunOf(stack, runs[r].flags, user, deferred)]
  BY <1>2, <1>6, <1>7, RunFields
<1> QED  BY <1>1, <1>2, <1>8, RunSet DEF MovesOn, stack

Becomes(new) == runs' = new

\* A frame is pushed over the step that is left for it.
Pushes(r, f) ==
  /\ IsEntryFrame(f)
  /\ runs'[r].stack = AdvancedList(runs[r].stack) \o <<f>>
  /\ runs'[r].flags = runs[r].flags
  /\ \A q \in Actors \ {r} : runs'[q] = runs[q]

\* A run that enters a pipeline moves on and has a frame more.
LEMMA PushMoves ==
  ASSUME RunsShaped, NEW r \in Actors, Begins(r), NEW p, NEW by,
         Becomes(Enter(r, <<Frame(p, by)>>))
  PROVE  RunsShaped' /\ Pushes(r, Frame(p, by))
<1> DEFINE f == Frame(p, by)
           stack == AdvancedList(runs[r].stack) \o <<f>>
<1>1. IsEntryFrame(f)
  BY DEF IsEntryFrame, Frame
<1> HIDE DEF f
<1>2. WellStacked(stack)
  BY <1>1, Entered, FramePushed
<1>3. runs' = [runs EXCEPT ![r] = RunOf(stack, runs[r].flags, runs[r].user, runs[r].deferred)]
  BY Entered DEF f, Becomes
<1> HIDE DEF stack
<1>4. /\ RunsShaped' /\ runs'[r].stack = stack /\ runs'[r].flags = runs[r].flags
      /\ \A q \in Actors \ {r} : runs'[q] = runs[q]
  BY <1>2, <1>3, RunSet
<1> QED  BY <1>1, <1>4 DEF Pushes, f, stack

\* The stack of a run that calls what there is not.
LEMMA LostMoves ==
  ASSUME RunsShaped, NEW r \in Actors,
         Becomes([runs EXCEPT ![r].stack = <<Frame(Absent, "entry")>>])
  PROVE  /\ RunsShaped' /\ runs'[r].flags = runs[r].flags
         /\ runs'[r].stack = <<[module |-> NoModule, steps |-> <<>>, by |-> "entry"]>>
         /\ \A q \in Actors \ {r} : runs'[q] = runs[q]
<1>1. Frame(Absent, "entry") = [module |-> NoModule, steps |-> <<>>, by |-> "entry"]
  BY DEF Frame, Absent
<1>2. WellStacked(<<Frame(Absent, "entry")>>)
  BY <1>1, OneFrame DEF IsEntryFrame
<1> DEFINE stack == <<Frame(Absent, "entry")>>
<1> HIDE DEF stack
<1>3. WellStacked(stack)
  BY <1>2 DEF stack
<1>4. runs' = [runs EXCEPT ![r] = RunOf(stack, runs[r].flags, runs[r].user, runs[r].deferred)]
  BY RunFields DEF stack, Becomes
<1>5. /\ RunsShaped' /\ runs'[r].stack = stack /\ runs'[r].flags = runs[r].flags
      /\ \A q \in Actors \ {r} : runs'[q] = runs[q]
  BY <1>3, <1>4, RunSet
<1> QED  BY <1>1, <1>5 DEF stack

\* A return takes the top frame and nothing else.
LEMMA ReturnMoves ==
  ASSUME RunsShaped, NEW r \in Actors, ReturnFrom(r)
  PROVE  /\ RunsShaped' /\ runs[r].stack # <<>>
         /\ runs'[r].stack = Front(runs[r].stack) /\ runs'[r].flags = runs[r].flags
         /\ \A q \in Actors \ {r} : runs'[q] = runs[q]
<1>1. runs[r].stack # <<>>
  <2>1. Len(runs[r].stack) > 1
    BY DEF ReturnFrom
  <2> QED  BY <2>1, ListFacts DEF RunsShaped, WellStacked
<1>2. runs' = [runs EXCEPT ![r].stack = Front(runs[r].stack)]
  BY DEF ReturnFrom
<1>3. WellStacked(Front(runs[r].stack))
  BY <1>1, FramePopped DEF RunsShaped
<1>4. runs' = [runs EXCEPT ![r] = RunOf(Front(runs[r].stack), runs[r].flags, runs[r].user,
                                       runs[r].deferred)]
  BY <1>2, RunFields
<1> QED  BY <1>1, <1>3, <1>4, RunSet

\* A task starts with flags of its own, none.
LEMMA SpawnMoves ==
  ASSUME RunsShaped, SpawnTask("front")
  PROVE  LET p == ResolvePipeline(Env, Top("front").module, Step("front").ref)
             by == IF Hidden("front") \/ Step("front").ref.alias # NoAlias THEN "alias" ELSE "name"
         IN  /\ RunsShaped' /\ Begins("front") /\ Step("front").op = "call"
             /\ runs'["front"].stack = AdvancedList(runs["front"].stack)
             /\ runs'["front"].flags = runs["front"].flags
             /\ runs'["task"].stack = IF p.found THEN <<Frame(p, by)>> ELSE <<>>
             /\ runs'["task"].flags = {}
<1> DEFINE p == ResolvePipeline(Env, Top("front").module, Step("front").ref)
           by == IF Hidden("front") \/ Step("front").ref.alias # NoAlias THEN "alias" ELSE "name"
           entered == Enter("front", <<>>)
           stack == AdvancedList(runs["front"].stack)
           new == IF p.found THEN <<Frame(p, by)>> ELSE <<>>
<1>1. Begins("front") /\ Step("front").op = "call" /\ "front" \in Actors /\ "task" \in Actors
  BY DEF SpawnTask, Executes, Actors
<1>2. entered = [runs EXCEPT !["front"] = RunOf(stack, runs["front"].flags, runs["front"].user,
                                                runs["front"].deferred)]
      /\ WellStacked(stack)
  BY <1>1, Entered
<1>3. runs' = [entered EXCEPT
                 !["task"] = IF p.found THEN [NoRun EXCEPT !.stack = <<Frame(p, by)>>] ELSE NoRun]
  BY DEF SpawnTask
<1>4. (IF p.found THEN [NoRun EXCEPT !.stack = <<Frame(p, by)>>] ELSE NoRun)
      = RunOf(new, {}, FALSE, 0)
  BY DEF NoRun, RunOf
<1>5. WellStacked(new)
  <2>1. IsEntryFrame(Frame(p, by))
    BY DEF IsEntryFrame, Frame
  <2> HIDE DEF p, by
  <2> QED  BY <2>1, OneFrame, NoFrame
<1> HIDE DEF p, by, entered, stack, new
<1>6. runs' = [entered EXCEPT !["task"] = RunOf(new, {}, FALSE, 0)]
  BY <1>3, <1>4
<1>7. RunsShaped' /\ runs'["front"].stack = stack /\ runs'["front"].flags = runs["front"].flags
      /\ runs'["task"].stack = new /\ runs'["task"].flags = {}
  <2>1. DOMAIN runs = Actors /\ DOMAIN entered = Actors
    BY <1>1, <1>2, RunFields
  <2>2. runs' = [q \in Actors |-> IF q = "task" THEN RunOf(new, {}, FALSE, 0)
                   ELSE RunOf(stack, runs["front"].flags, runs["front"].user, runs["front"].deferred)]
    BY <1>2, <1>6, <2>1 DEF Actors
  <2>3. /\ runs'["task"] = RunOf(new, {}, FALSE, 0)
        /\ runs'["front"] = RunOf(stack, runs["front"].flags, runs["front"].user,
                                  runs["front"].deferred)
    BY <2>2 DEF Actors
  <2>4. /\ runs'["front"].stack = stack /\ runs'["front"].flags = runs["front"].flags
        /\ runs'["task"].stack = new /\ runs'["task"].flags = {}
        /\ runs'["front"].user = runs["front"].user /\ runs'["task"].user = FALSE
        /\ runs'["front"].deferred = runs["front"].deferred /\ runs'["task"].deferred = 0
    BY <2>3 DEF RunOf
  <2>5. \A q \in Actors :
          runs'[q] = RunOf(runs'[q].stack, runs'[q].flags, runs'[q].user, runs'[q].deferred)
    BY <2>3, <2>4 DEF Actors
  <2>6. runs' = [q \in Actors |-> runs'[q]]
    BY <2>2
  <2>7. runs' = [q \in Actors |->
                   RunOf(runs'[q].stack, runs'[q].flags, runs'[q].user, runs'[q].deferred)]
    BY <2>5, <2>6
  <2>8. \A q \in Actors : WellStacked(runs'[q].stack)
    BY <1>2, <1>5, <2>4 DEF Actors
  <2> QED  BY <2>4, <2>7, <2>8 DEF RunsShaped, RunOf
<1> QED  BY <1>1, <1>7 DEF p, by, stack, new

\* A run begins, or is gone.
LEMMA NewRunMoves ==
  ASSUME RunsShaped, NEW r \in Actors, NEW p, NEW flags,
         Becomes([runs EXCEPT ![r] = NewRun(p, flags)])
  PROVE  /\ RunsShaped'
         /\ runs'[r].stack = <<Frame(p, "entry")>> /\ runs'[r].flags = flags
         /\ \A q \in Actors \ {r} : runs'[q] = runs[q]
<1> DEFINE stack == <<Frame(p, "entry")>>
<1>1. WellStacked(stack)
  BY OneFrame DEF IsEntryFrame, Frame
<1> HIDE DEF stack
<1>2. NoRun = RunOf(<<>>, {}, FALSE, 0)
  BY DEF NoRun, RunOf
<1>3. NewRun(p, flags) = [[NoRun EXCEPT !.stack = stack] EXCEPT !.flags = flags]
  BY DEF NewRun, stack
<1>4. NewRun(p, flags) = RunOf(stack, flags, FALSE, 0)
  BY <1>2, <1>3 DEF RunOf
<1>5. runs' = [runs EXCEPT ![r] = RunOf(stack, flags, FALSE, 0)]
  BY <1>4 DEF Becomes
<1>6. /\ RunsShaped' /\ runs'[r].stack = stack /\ runs'[r].flags = flags
      /\ \A q \in Actors \ {r} : runs'[q] = runs[q]
  BY <1>1, <1>5, RunSet
<1> QED  BY <1>6 DEF stack

\* A run that is over has no frame and no flag; the other goes on.
LEMMA NoRunMoves ==
  ASSUME RunsShaped, NEW r \in Actors, runs' = [runs EXCEPT ![r] = NoRun]
  PROVE  /\ RunsShaped'
         /\ runs'[r].stack = <<>> /\ runs'[r].flags = {}
         /\ \A q \in Actors \ {r} : runs'[q] = runs[q]
<1>1. NoRun = RunOf(<<>>, {}, FALSE, 0)
  BY DEF NoRun, RunOf
<1> QED  BY <1>1, NoFrame, RunSet

---------------------------------------------------------------------------
(***************************************************************************)
(* What the search has looked at.                                          *)
(***************************************************************************)
\* A piece asks for no flag at its first step, and what that step goes on
\* into was looked at.
LEMMA PieceFacts ==
  ASSUME NEW env, NEW S, FlagFree(env, S), NEW m, NEW a \in Pieces(m, S)
  PROVE  /\ IsListed(a)
         /\ a # <<>> =>
              /\ ~AsksForFlag(Head(a)) /\ Tail(a) \in Pieces(m, S)
              /\ Parts(env, m, Head(a)) \subseteq S
<1>1. CASE a = <<>>
  BY <1>1, NoFrame DEF WellStacked
<1>2. CASE a # <<>>
  <2>1. PICK p \in S : p.module = m /\ p.steps = a
    BY <1>2 DEF Pieces
  <2>2. /\ IsListed(a) /\ ~AsksForFlag(Head(a))
        /\ Located(m, Tail(a)) \in S /\ Parts(env, m, Head(a)) \subseteq S
    BY <1>2, <2>1 DEF FlagFree
  <2>3. Located(m, Tail(a)).module = m /\ Located(m, Tail(a)).steps = Tail(a)
    BY DEF Located
  <2> QED  BY <2>2, <2>3 DEF Pieces
<1> QED  BY <1>1, <1>2

\* A covered frame asks for no flag, and stays covered when it moves on.
LEMMA CoveredFacts ==
  ASSUME NEW env, NEW S, FlagFree(env, S), NEW m, NEW steps, Covered(m, steps, S), steps # <<>>
  PROVE  /\ ~AsksForFlag(Head(steps))
         /\ Parts(env, m, Head(steps)) \subseteq S
         /\ Covered(m, Tail(steps), S)
<1>1. PICK a \in Pieces(m, S), b \in Pieces(m, S) : steps = a \o b
  BY DEF Covered
<1>2. IsListed(a) /\ IsListed(b)
  BY PieceFacts
<1>3. CASE a # <<>>
  <2>1. Head(steps) = Head(a) /\ Tail(steps) = Tail(a) \o b
    BY <1>1, <1>2, <1>3, JoinedTail
  <2> QED  BY <1>3, <2>1, PieceFacts DEF Covered
<1>4. CASE a = <<>>
  <2>1. steps = b /\ b # <<>>
    BY <1>1, <1>2, <1>4, ListsJoined
  <2>2. Tail(b) \in Pieces(m, S) /\ <<>> \in Pieces(m, S)
    <3>1. Tail(b) \in Pieces(m, S)
      BY <2>1, PieceFacts
    <3> QED  BY <3>1 DEF Pieces
  <2>3. Tail(b) = <<>> \o Tail(b)
    BY <2>2, PieceFacts, ListsJoined
  <2> QED  BY <2>1, <2>2, <2>3, PieceFacts DEF Covered
<1> QED  BY <1>3, <1>4

\* What was looked at is covered.
LEMMA LookedCovered ==
  ASSUME NEW env, NEW S, FlagFree(env, S), NEW p \in S
  PROVE  Covered(p.module, p.steps, S)
<1>1. p.steps \in Pieces(p.module, S) /\ <<>> \in Pieces(p.module, S)
  BY DEF Pieces
<1>2. p.steps = p.steps \o <<>>
  BY <1>1, PieceFacts, ListsJoined
<1> QED  BY <1>1, <1>2 DEF Covered

\* The lead of a block that was looked at, and a branch after it.
LEMMA BlockCovered ==
  ASSUME NEW env, NEW S, FlagFree(env, S), NEW m, NEW s, s.op = "block",
         Parts(env, m, s) \subseteq S
  PROVE  /\ Covered(m, s.lead, S)
         /\ \A i \in DOMAIN s.branches : Covered(m, s.lead \o s.branches[i].steps, S)
<1>1. Located(m, s.lead) \in S
      /\ \A i \in DOMAIN s.branches : Located(m, s.branches[i].steps) \in S
  BY DEF Parts
<1>2. \A steps : Located(m, steps).module = m /\ Located(m, steps).steps = steps
  BY DEF Located
<1>3. s.lead \in Pieces(m, S) /\ \A i \in DOMAIN s.branches : s.branches[i].steps \in Pieces(m, S)
  BY <1>1, <1>2 DEF Pieces
<1>4. Covered(m, s.lead, S)
  BY <1>1, <1>2, LookedCovered
<1>5. ASSUME NEW i \in DOMAIN s.branches PROVE Covered(m, s.lead \o s.branches[i].steps, S)
  <2>1. s.branches[i].steps \in Pieces(m, S)
    BY <1>3
  <2> QED  BY <1>3, <2>1 DEF Covered
<1> QED  BY <1>4, <1>5

\* What is left of a frame after a step has been looked at, if the frame had.
LEMMA AdvanceCovered ==
  ASSUME NEW env, NEW S, FlagFree(env, S), NEW s, WellStacked(s), s # <<>>,
         s[Len(s)].steps # <<>>, StackCovered(s, S)
  PROVE  StackCovered(AdvancedList(s), S)
<1> DEFINE u == AdvancedList(s)
<1>1. Len(s) \in 1..Len(s) /\ DOMAIN s = 1..Len(s) /\ Len(s) \in Nat
  BY ListFacts DEF WellStacked
<1>2. /\ WellStacked(u) /\ Len(u) = Len(s)
      /\ \A i \in 1..Len(s) :
           u[i] = IF i = Len(s)
                    THEN [module |-> s[i].module, steps |-> Tail(s[i].steps), by |-> s[i].by]
                    ELSE s[i]
  BY TopAdvances
<1>3. DOMAIN u = 1..Len(s)
  BY <1>2, ListFacts DEF WellStacked
<1> HIDE DEF u
<1>4. ASSUME NEW i \in 1..Len(s)
      PROVE  /\ u[i].by = s[i].by /\ u[i].module = s[i].module
             /\ i = Len(s) => u[i].steps = Tail(s[i].steps)
  <2>1. CASE i = Len(s)
    <3>1. u[i] = [module |-> s[i].module, steps |-> Tail(s[i].steps), by |-> s[i].by]
      BY <1>2, <2>1
    <3> QED  BY <3>1
  <2>2. CASE i # Len(s)
    BY <1>2, <2>2
  <2> QED  BY <2>1, <2>2
<1>5. ASSUME NEW i \in 1..Len(s), InSight(u, i) PROVE Covered(u[i].module, u[i].steps, S)
  <2>1. InSight(s, i)
    <3>1. \A j \in 1..i : j \in 1..Len(s)
      BY <1>1
    <3> QED  BY <1>4, <1>5, <3>1 DEF InSight
  <2>2. Covered(s[i].module, s[i].steps, S)
    BY <1>1, <2>1 DEF StackCovered
  <2>3. CASE i = Len(s)
    <3>1. u[i].steps = Tail(s[i].steps) /\ u[i].module = s[i].module
      BY <1>4, <2>3
    <3>2. Covered(s[i].module, Tail(s[i].steps), S)
      BY <2>2, <2>3, CoveredFacts
    <3> QED  BY <3>1, <3>2
  <2>4. CASE i # Len(s)
    BY <1>2, <2>2, <2>4
  <2> QED  BY <2>3, <2>4
<1> QED  BY <1>3, <1>5 DEF StackCovered, u

\* A frame in sight that was looked at, or one out of sight, can be pushed.
LEMMA PushCovered ==
  ASSUME NEW S, NEW s, WellStacked(s), StackCovered(s, S), NEW f, IsEntryFrame(f),
         InSight(s, Len(s)) /\ f.by \notin {"alias", "query"} => Covered(f.module, f.steps, S)
  PROVE  StackCovered(s \o <<f>>, S)
<1> DEFINE u == s \o <<f>>
<1>1. DOMAIN s = 1..Len(s) /\ Len(s) \in Nat
  BY ListFacts DEF WellStacked
<1>2. /\ WellStacked(u) /\ Len(u) = Len(s) + 1
      /\ \A i \in 1..Len(s) : u[i] = s[i]
      /\ u[Len(s) + 1] = f
  BY FramePushed
<1>3. DOMAIN u = 1..(Len(s) + 1)
  BY <1>2, ListFacts DEF WellStacked
<1> HIDE DEF u
<1>4. ASSUME NEW i \in 1..Len(s), InSight(u, i) PROVE Covered(u[i].module, u[i].steps, S)
  <2>1. \A j \in 1..i : j \in 1..Len(s)
    BY <1>1
  <2>2. InSight(s, i)
    BY <1>2, <1>4, <2>1 DEF InSight
  <2> QED  BY <1>1, <1>2, <2>2 DEF StackCovered
<1>5. ASSUME InSight(u, Len(s) + 1) PROVE Covered(f.module, f.steps, S)
  <2>1. \A j \in 1..Len(s) : j \in 1..(Len(s) + 1)
    BY <1>1
  <2>2. InSight(s, Len(s))
    BY <1>2, <1>5, <2>1 DEF InSight
  <2>3. Len(s) + 1 \in 1..(Len(s) + 1)
    BY <1>1
  <2>4. f.by \notin {"alias", "query"}
    BY <1>2, <1>5, <2>3 DEF InSight
  <2> QED  BY <2>2, <2>4
<1>6. \A i \in 1..(Len(s) + 1) : i \in 1..Len(s) \/ i = Len(s) + 1
  BY <1>1
<1> QED  BY <1>2, <1>3, <1>4, <1>5, <1>6 DEF StackCovered, u

\* A stack that loses its top stays within what was looked at.
LEMMA PopCovered ==
  ASSUME NEW S, NEW s, WellStacked(s), s # <<>>, StackCovered(s, S)
  PROVE  StackCovered(Front(s), S)
<1> DEFINE u == Front(s)
<1>1. DOMAIN s = 1..Len(s) /\ Len(s) \in Nat
  BY ListFacts DEF WellStacked
<1>2. /\ WellStacked(u) /\ Len(u) = Len(s) - 1
      /\ \A i \in 1..(Len(s) - 1) : u[i] = s[i]
  BY FramePopped
<1>3. DOMAIN u = 1..(Len(s) - 1)
  BY <1>2, ListFacts DEF WellStacked
<1> HIDE DEF u
<1>4. ASSUME NEW i \in 1..(Len(s) - 1), InSight(u, i) PROVE Covered(u[i].module, u[i].steps, S)
  <2>1. i \in 1..Len(s) /\ \A j \in 1..i : j \in 1..(Len(s) - 1)
    BY <1>1
  <2>2. InSight(s, i)
    BY <1>2, <1>4, <2>1 DEF InSight
  <2> QED  BY <1>1, <1>2, <2>1, <2>2 DEF StackCovered
<1> QED  BY <1>3, <1>4 DEF StackCovered, u

\* One frame, and none.
LEMMA OneCovered ==
  ASSUME NEW S, NEW f, IsEntryFrame(f),
         f.by \notin {"alias", "query"} => Covered(f.module, f.steps, S)
  PROVE  StackCovered(<<f>>, S)
<1>1. DOMAIN <<f>> = {1} /\ <<f>>[1] = f
  BY OneFrame
<1> DEFINE u == <<f>>
<1> HIDE DEF u
<1>2. DOMAIN u = {1} /\ u[1] = f
  BY <1>1 DEF u
<1>3. InSight(u, 1) => f.by \notin {"alias", "query"}
  BY <1>2 DEF InSight
<1>4. StackCovered(u, S)
  BY <1>2, <1>3 DEF StackCovered
<1> QED  BY <1>4 DEF u

\* No frame is out of anything.
LEMMA NoneCovered == \A S : StackCovered(<<>>, S)
BY NoFrame DEF StackCovered

\* A pipeline with no step left asks for nothing.
LEMMA EmptyCovered ==
  ASSUME NEW S, NEW m
  PROVE  Covered(m, <<>>, S)
<1>1. <<>> \in Pieces(m, S) /\ <<>> = <<>> \o <<>>
  BY NoFrame, ListsJoined DEF Pieces, WellStacked
<1> QED  BY <1>1 DEF Covered

---------------------------------------------------------------------------
\* The innermost frame of a run that is not out of sight.
LEMMA TopCovered ==
  ASSUME RunsShaped, NEW r \in Actors, Begins(r), NEW S, FlagFree(Env, S),
         StackCovered(runs[r].stack, S)
  PROVE  LET s == runs[r].stack
         IN  /\ s # <<>> /\ Top(r) = s[Len(s)] /\ s[Len(s)].steps # <<>>
             /\ WellStacked(s)
             /\ ~Hidden(r) => InSight(s, Len(s))
             /\ InSight(s, Len(s)) =>
                  /\ ~AsksForFlag(Step(r))
                  /\ Parts(Env, Top(r).module, Step(r)) \subseteq S
             /\ StackCovered(AdvancedList(s), S)
             /\ InSight(AdvancedList(s), Len(AdvancedList(s))) => InSight(s, Len(s))
<1> DEFINE s == runs[r].stack
           u == AdvancedList(s)
<1>1. WellStacked(s) /\ s # <<>>
  BY DEF RunsShaped, Begins
<1>2. Len(s) \in 1..Len(s) /\ DOMAIN s = 1..Len(s) /\ Last(s) = s[Len(s)]
  BY <1>1, ListFacts DEF WellStacked
<1>3. Top(r) = s[Len(s)] /\ s[Len(s)].steps # <<>> /\ Step(r) = Head(s[Len(s)].steps)
  BY <1>2 DEF Top, Begins, Step
<1>4. ~Hidden(r) => InSight(s, Len(s))
  BY <1>2 DEF Hidden, InSight
<1>5. InSight(s, Len(s)) => /\ ~AsksForFlag(Step(r))
                            /\ Parts(Env, Top(r).module, Step(r)) \subseteq S
  <2> DEFINE top == s[Len(s)]
  <2>1. ASSUME InSight(s, Len(s)) PROVE Covered(top.module, top.steps, S)
    BY <1>2, <2>1 DEF StackCovered
  <2>2. Top(r) = top /\ top.steps # <<>> /\ Step(r) = Head(top.steps)
    BY <1>3
  <2> HIDE DEF top, s
  <2>3. ASSUME InSight(s, Len(s))
        PROVE  ~AsksForFlag(Head(top.steps)) /\ Parts(Env, top.module, Head(top.steps)) \subseteq S
    BY <2>1, <2>2, <2>3, CoveredFacts
  <2> QED  BY <2>2, <2>3
<1>6. StackCovered(u, S)
  BY <1>1, <1>3, AdvanceCovered
<1>7. Len(u) = Len(s) /\ \A i \in 1..Len(s) : u[i].by = s[i].by
  <2>1. Len(u) = Len(s) /\ \A i \in 1..Len(s) :
           u[i] = IF i = Len(s)
                    THEN [module |-> s[i].module, steps |-> Tail(s[i].steps), by |-> s[i].by]
                    ELSE s[i]
    BY <1>1, TopAdvances
  <2> HIDE DEF u, s
  <2>2. ASSUME NEW i \in 1..Len(s) PROVE u[i].by = s[i].by
    <3>1. CASE i = Len(s)
      <4>1. u[i] = [module |-> s[i].module, steps |-> Tail(s[i].steps), by |-> s[i].by]
        BY <2>1, <3>1
      <4> QED  BY <4>1
    <3>2. CASE i # Len(s)
      BY <2>1, <3>2
    <3> QED  BY <3>1, <3>2
  <2> QED  BY <2>1, <2>2
<1>8. InSight(u, Len(u)) => InSight(s, Len(s))
  <2> HIDE DEF u, s
  <2> QED  BY <1>7 DEF InSight
<1> QED  BY <1>1, <1>3, <1>4, <1>5, <1>6, <1>8

\* A step of a run stays within what was looked at, whichever run it is of.
RunsIn(S) == \A q \in Actors : StackCovered(runs[q].stack, S)

\* Moving on stays within what was looked at.
LEMMA MoveOnCovered ==
  ASSUME RunsShaped, NEW r \in Actors, NEW S, FlagFree(Env, S), RunsIn(S),
         Skip(r) \/ Lua(r) \/ Plain(r)
  PROVE  RunsIn(S)'
<1>1. Begins(r) /\ MovesOn(r)
  BY SkipMoves, LuaMoves, PlainMoves
<1>2. StackCovered(AdvancedList(runs[r].stack), S)
  BY <1>1, TopCovered DEF RunsIn
<1> QED  BY <1>1, <1>2 DEF RunsIn, MovesOn

\* So does entering a pipeline that was looked at or is out of sight.
LEMMA PushesCovered ==
  ASSUME RunsShaped, NEW r \in Actors, NEW S, FlagFree(Env, S), RunsIn(S), Begins(r),
         NEW f, Pushes(r, f),
         InSight(runs[r].stack, Len(runs[r].stack)) /\ f.by \notin {"alias", "query"}
         => Covered(f.module, f.steps, S)
  PROVE  RunsIn(S)'
<1> DEFINE u == AdvancedList(runs[r].stack)
<1>1. StackCovered(runs[r].stack, S)
  BY DEF RunsIn
<1>2. WellStacked(u)
  BY Entered
<1>3. StackCovered(u, S) /\ (InSight(u, Len(u)) => InSight(runs[r].stack, Len(runs[r].stack)))
  BY <1>1, TopCovered
<1>4. StackCovered(u \o <<f>>, S)
  BY <1>2, <1>3, PushCovered DEF Pushes
<1> QED  BY <1>4 DEF RunsIn, Pushes

\* A call by name enters what the search went on into; by an alias it is out of sight.
LEMMA CallCovered ==
  ASSUME RunsShaped, NEW r \in Actors, NEW S, FlagFree(Env, S), RunsIn(S), Call(r)
  PROVE  RunsIn(S)'
<1> DEFINE p == ResolvePipeline(Env, Top(r).module, Step(r).ref)
           by == IF Step(r).ref.alias = NoAlias THEN "name" ELSE "alias"
<1>1. Begins(r) /\ Step(r).op = "call"
  BY DEF Call, Executes
<1>2. CASE p.found
  <2>1. Becomes(Enter(r, <<Frame(p, by)>>))
    BY <1>2 DEF Call, Becomes
  <2>2. Pushes(r, Frame(p, by))
    BY <1>1, <2>1, PushMoves
  <2>3. Frame(p, by).by = by /\ Frame(p, by).module = p.module /\ Frame(p, by).steps = p.steps
    BY DEF Frame
  <2>4. ASSUME InSight(runs[r].stack, Len(runs[r].stack)), by \notin {"alias", "query"}
        PROVE  Covered(p.module, p.steps, S)
    <3>1. Parts(Env, Top(r).module, Step(r)) \subseteq S
      BY <1>1, <2>4, TopCovered DEF RunsIn
    <3>2. p \in Parts(Env, Top(r).module, Step(r))
      BY <1>1, <1>2, <2>4 DEF Parts
    <3> QED  BY <3>1, <3>2, LookedCovered
  <2> HIDE DEF p, by
  <2> QED  BY <1>1, <2>2, <2>3, <2>4, PushesCovered
<1>3. CASE ~p.found
  <2>1. Becomes([runs EXCEPT ![r].stack = <<Frame(Absent, "entry")>>])
    BY <1>3 DEF Call, Becomes
  <2>2. /\ runs'[r].stack = <<[module |-> NoModule, steps |-> <<>>, by |-> "entry"]>>
        /\ \A q \in Actors \ {r} : runs'[q] = runs[q]
    BY <2>1, LostMoves
  <2>3. StackCovered(<<[module |-> NoModule, steps |-> <<>>, by |-> "entry"]>>, S)
    BY OneCovered, EmptyCovered DEF IsEntryFrame
  <2> QED  BY <2>2, <2>3 DEF RunsIn
<1> QED  BY <1>2, <1>3

\* So does the task of an @async call, out of sight if its spawner was.
LEMMA SpawnCovered ==
  ASSUME RunsShaped, NEW S, FlagFree(Env, S), RunsIn(S), SpawnTask("front")
  PROVE  RunsIn(S)'
<1> DEFINE p == ResolvePipeline(Env, Top("front").module, Step("front").ref)
           by == IF Hidden("front") \/ Step("front").ref.alias # NoAlias THEN "alias" ELSE "name"
<1>1. /\ Begins("front") /\ Step("front").op = "call"
      /\ runs'["front"].stack = AdvancedList(runs["front"].stack)
      /\ runs'["task"].stack = IF p.found THEN <<Frame(p, by)>> ELSE <<>>
      /\ "front" \in Actors
  BY SpawnMoves DEF Actors
<1>2. StackCovered(AdvancedList(runs["front"].stack), S)
  BY <1>1, TopCovered DEF RunsIn
<1>3. ASSUME p.found PROVE StackCovered(<<Frame(p, by)>>, S)
  <2>1. Frame(p, by).by = by /\ Frame(p, by).module = p.module /\ Frame(p, by).steps = p.steps
        /\ IsEntryFrame(Frame(p, by))
    BY DEF Frame, IsEntryFrame
  <2>2. ASSUME by \notin {"alias", "query"} PROVE Covered(p.module, p.steps, S)
    <3>1. ~Hidden("front") /\ Step("front").ref.alias = NoAlias
      BY <2>2
    <3>2. Parts(Env, Top("front").module, Step("front")) \subseteq S
      BY <1>1, <3>1, TopCovered DEF RunsIn
    <3>3. p \in Parts(Env, Top("front").module, Step("front"))
      BY <1>1, <1>3, <3>1 DEF Parts
    <3> QED  BY <3>2, <3>3, LookedCovered
  <2> HIDE DEF p, by
  <2> QED  BY <2>1, <2>2, OneCovered
<1>4. StackCovered(runs'["task"].stack, S)
  <2> HIDE DEF p, by
  <2> QED  BY <1>1, <1>3, NoneCovered
<1> QED  BY <1>1, <1>2, <1>4 DEF RunsIn, Actors

\* The pipeline of a query is out of sight.
LEMMA QueryCovered ==
  ASSUME RunsShaped, NEW r \in Actors, NEW S, FlagFree(Env, S), RunsIn(S), Query(r)
  PROVE  RunsIn(S)'
<1> DEFINE p == LastNamed(prog, "queries", Step(r).name)
<1>1. Begins(r)
  BY DEF Query, Executes
<1>2. Becomes(Enter(r, <<Frame(p, "query")>>))
  BY DEF Query, Becomes
<1> HIDE DEF p
<1>3. Pushes(r, Frame(p, "query"))
  BY <1>1, <1>2, PushMoves
<1>4. Frame(p, "query").by = "query"
  BY DEF Frame
<1> QED  BY <1>1, <1>3, <1>4, PushesCovered

\* A block runs its lead and a branch, two pieces the search went on into.
LEMMA BlockStepCovered ==
  ASSUME RunsShaped, NEW r \in Actors, NEW S, FlagFree(Env, S), RunsIn(S), Block(r)
  PROVE  RunsIn(S)'
<1> DEFINE s == Step(r)
           m == Top(r).module
           Goes(steps) == Becomes(Enter(r, <<Frame(Located(m, steps), "block")>>))
<1>1. Begins(r) /\ s.op = "block"
  BY DEF Block, Executes
<1>2. ASSUME NEW steps, Goes(steps),
             steps = s.lead \/ \E i \in DOMAIN s.branches : steps = s.lead \o s.branches[i].steps
      PROVE  RunsIn(S)'
  <2> DEFINE f == Frame(Located(m, steps), "block")
  <2>1. f.module = m /\ f.steps = steps
    BY DEF Frame, Located
  <2>2. Pushes(r, f)
    BY <1>1, <1>2, PushMoves
  <2> HIDE DEF f
  <2>3. ASSUME InSight(runs[r].stack, Len(runs[r].stack)) PROVE Covered(m, steps, S)
    <3>1. Parts(Env, m, s) \subseteq S
      BY <1>1, <2>3, TopCovered DEF RunsIn
    <3> QED  BY <1>1, <1>2, <3>1, BlockCovered
  <2> QED  BY <1>1, <2>1, <2>2, <2>3, PushesCovered
<1>3. Goes(s.lead) \/ \E i \in DOMAIN s.branches : Goes(s.lead \o s.branches[i].steps)
  BY DEF Block, Becomes
<1> QED  BY <1>2, <1>3

\* A return goes back to a frame that was covered.
LEMMA ReturnCovered ==
  ASSUME RunsShaped, NEW r \in Actors, NEW S, RunsIn(S), ReturnFrom(r)
  PROVE  RunsIn(S)'
<1>1. WellStacked(runs[r].stack)
  BY DEF RunsShaped
<1> QED  BY <1>1, ReturnMoves, PopCovered DEF RunsIn

---------------------------------------------------------------------------
(***************************************************************************)
(* The invariant of a request.                                             *)
(***************************************************************************)
\* A request that a route receives is received by a route of the program.
LEMMA RouteOfProgram ==
  ASSUME NEW sent, Receiver(sent) = "route"
  PROVE  \E id \in RouteIds(prog) : Route(sent) = Merged(prog)[id]
<1> DEFINE candidates == RouteFor(Inserted(prog), sent.method, sent.path)
<1>1. candidates # {}
  BY DEF Receiver
<1>2. Route(sent) \in candidates
  BY <1>1 DEF Route
<1>3. Route(sent) \in Inserted(prog)
  BY <1>2 DEF RouteFor
<1> QED  BY <1>3 DEF Inserted, Merged

\* What depends on the program and the request only.
LEMMA Unmoved ==
  ASSUME prog' = prog, loaded' = loaded, incoming' = incoming
  PROVE  /\ Env' = Env /\ Served' = Served
         /\ Route(incoming)' = Route(incoming)
         /\ Receiver(incoming)' = Receiver(incoming)
         /\ Foreseen(Route(incoming))' = Foreseen(Route(incoming))
<1>1. Env' = Env
  BY DEF Env, Linked
<1>2. Served' = Served
  BY DEF Served
<1>3. Route(incoming)' = Route(incoming)
  BY DEF Route
<1>4. Receiver(incoming)' = Receiver(incoming)
  BY DEF Receiver
<1>5. Foreseen(Route(incoming))' = Foreseen(Route(incoming))
  BY <1>1, <1>3 DEF Foreseen
<1> QED  BY <1>1, <1>2, <1>3, <1>4, <1>5

\* The search of the route that a request has, when it was not foreseen to
\* ask for flags, has found none.
LEMMA SearchedRoute ==
  ASSUME prog \in Programs, loaded \in BOOLEAN, Receiver(incoming) = "route",
         \A id \in RouteIds(prog) : NeedsFlags(Env, Merged(prog)[id].pipeline) # "endless",
         prog.flags # NoValue, ~Foreseen(Route(incoming))
  PROVE  LET route == Route(incoming).pipeline
         IN  route \in Looked(Env, route) /\ FlagFree(Env, Looked(Env, route))
<1>1. PICK id \in RouteIds(prog) : Route(incoming) = Merged(prog)[id]
  BY RouteOfProgram
<1>2. Env = Linked(prog, loaded, ServerTable)
  BY DEF Env
<1>3. NeedsFlags(Env, Merged(prog)[id].pipeline) \in {"yes", "no", "endless"}
  BY <1>2, SearchAssumption
<1>4. NeedsFlags(Env, Merged(prog)[id].pipeline) = "no"
  BY <1>1, <1>3 DEF Foreseen
<1> QED  BY <1>1, <1>2, <1>4, SearchAssumption

---------------------------------------------------------------------------
\* A step of a run changes nothing but the runs, and the process if its stack
\* overflows.  The flags of a task were set by itself.
LEMMA RunStepFacts ==
  ASSUME EntryInv, NEW r \in Actors, Runs(r)
  PROVE  /\ prog' = prog /\ loaded' = loaded /\ incoming' = incoming
         /\ phase' \in {phase, "crashed"} /\ phase # "crashed"
         /\ runs[r].stack # <<>>
         /\ RunsShaped' /\ FlagsTold'
<1>1. phase # "crashed"
  BY DEF Runs
<1>2. RunsShaped /\ FlagsTold
  BY DEF EntryInv
<1>3. CASE Skip(r)
  <2>1. RunsShaped' /\ Begins(r) /\ MovesOn(r) /\ runs'[r].flags = runs[r].flags
    BY <1>2, <1>3, SkipMoves
  <2>2. prog' = prog /\ loaded' = loaded /\ incoming' = incoming /\ phase' = phase
        /\ granted' = granted
    BY <1>3 DEF Skip
  <2> QED  BY <1>1, <1>2, <2>1, <2>2 DEF FlagsTold, MovesOn, Begins, Actors
<1>4. CASE Lua(r)
  <2>1. RunsShaped' /\ Begins(r) /\ MovesOn(r)
    BY <1>2, <1>4, LuaMoves
  <2>2. prog' = prog /\ loaded' = loaded /\ incoming' = incoming /\ phase' = phase
        /\ granted' = IF phase = "preflight" /\ r = "front" THEN granted
                      ELSE granted \cup (runs'[r].flags \ runs[r].flags)
    BY <1>4 DEF Lua
  <2>3. FlagsTold'
    <3>1. CASE r = "task"
      <4>1. runs'["front"] = runs["front"]
        BY <2>1, <3>1 DEF MovesOn, Actors
      <4> QED  BY <1>2, <2>2, <3>1, <4>1 DEF FlagsTold
    <3>2. CASE r = "front"
      <4>1. runs'["task"] = runs["task"]
        BY <2>1, <3>2 DEF MovesOn, Actors
      <4>2. CASE phase = "main"
        BY <1>2, <2>2, <3>2, <4>1, <4>2 DEF FlagsTold
      <4>3. CASE phase # "main"
        BY <1>2, <2>2, <3>2, <4>1, <4>3 DEF FlagsTold
      <4> QED  BY <4>2, <4>3
    <3> QED  BY <3>1, <3>2 DEF Actors
  <2> QED  BY <1>1, <2>1, <2>2, <2>3 DEF Begins
<1>5. CASE Plain(r)
  <2>1. RunsShaped' /\ Begins(r) /\ MovesOn(r) /\ runs'[r].flags = runs[r].flags
    BY <1>2, <1>5, PlainMoves
  <2>2. prog' = prog /\ loaded' = loaded /\ incoming' = incoming /\ phase' = phase
        /\ granted' = granted
    BY <1>5 DEF Plain
  <2> QED  BY <1>1, <1>2, <2>1, <2>2 DEF FlagsTold, MovesOn, Begins, Actors
<1>6. ASSUME NEW p, NEW by, Begins(r), Becomes(Enter(r, <<Frame(p, by)>>)), granted' = granted,
             phase' = phase
      PROVE  RunsShaped' /\ FlagsTold'
  <2>1. RunsShaped' /\ Pushes(r, Frame(p, by))
    BY <1>2, <1>6, PushMoves
  <2> QED  BY <1>2, <1>6, <2>1 DEF FlagsTold, Pushes, Actors
<1>7. CASE Call(r)
  <2> DEFINE p == ResolvePipeline(Env, Top(r).module, Step(r).ref)
             by == IF Step(r).ref.alias = NoAlias THEN "name" ELSE "alias"
  <2>1. prog' = prog /\ loaded' = loaded /\ incoming' = incoming /\ phase' = phase
        /\ granted' = granted /\ Begins(r)
    BY <1>7 DEF Call, Executes
  <2>2. \/ Becomes(Enter(r, <<Frame(p, by)>>))
        \/ Becomes([runs EXCEPT ![r].stack = <<Frame(Absent, "entry")>>])
    BY <1>7 DEF Call, Becomes
  <2> HIDE DEF p, by
  <2>3. CASE Becomes(Enter(r, <<Frame(p, by)>>))
    BY <1>1, <1>6, <2>1, <2>3 DEF Begins
  <2>4. CASE Becomes([runs EXCEPT ![r].stack = <<Frame(Absent, "entry")>>])
    <3>1. /\ RunsShaped' /\ runs'[r].flags = runs[r].flags
          /\ \A q \in Actors \ {r} : runs'[q] = runs[q]
      BY <1>2, <2>4, LostMoves
    <3> QED  BY <1>1, <1>2, <2>1, <3>1 DEF FlagsTold, Begins, Actors
  <2> QED  BY <2>2, <2>3, <2>4
<1>8. CASE SpawnTask(r)
  <2>1. r = "front" /\ Begins(r)
    BY <1>8 DEF SpawnTask, Executes
  <2>2. prog' = prog /\ loaded' = loaded /\ incoming' = incoming /\ phase' = phase
        /\ granted' = granted
    BY <1>8 DEF SpawnTask
  <2>3. /\ RunsShaped' /\ runs'["front"].flags = runs["front"].flags
        /\ runs'["task"].flags = {}
    BY <1>2, <1>8, <2>1, SpawnMoves
  <2> QED  BY <1>1, <1>2, <2>1, <2>2, <2>3 DEF FlagsTold, Begins
<1>9. CASE Query(r)
  <2> DEFINE p == LastNamed(prog, "queries", Step(r).name)
  <2>1. prog' = prog /\ loaded' = loaded /\ incoming' = incoming /\ phase' = phase
        /\ granted' = granted /\ Begins(r) /\ Becomes(Enter(r, <<Frame(p, "query")>>))
    BY <1>9 DEF Query, Executes, Becomes
  <2> HIDE DEF p
  <2> QED  BY <1>1, <1>6, <2>1 DEF Begins
<1>10. CASE Block(r)
  <2>1. prog' = prog /\ loaded' = loaded /\ incoming' = incoming /\ phase' = phase
        /\ granted' = granted /\ Begins(r)
    BY <1>10 DEF Block, Executes
  <2>2. \E steps : Becomes(Enter(r, <<Frame(Located(Top(r).module, steps), "block")>>))
    BY <1>10 DEF Block, Becomes
  <2>3. PICK steps : Becomes(Enter(r, <<Frame(Located(Top(r).module, steps), "block")>>))
    BY <2>2
  <2> QED  BY <1>1, <1>6, <2>1, <2>3 DEF Begins
<1>11. CASE ReturnFrom(r)
  <2>1. /\ RunsShaped' /\ runs[r].stack # <<>> /\ runs'[r].flags = runs[r].flags
        /\ \A q \in Actors \ {r} : runs'[q] = runs[q]
    BY <1>2, <1>11, ReturnMoves
  <2>2. prog' = prog /\ loaded' = loaded /\ incoming' = incoming /\ phase' = phase
        /\ granted' = granted
    BY <1>11 DEF ReturnFrom
  <2> QED  BY <1>1, <1>2, <2>1, <2>2 DEF FlagsTold, Actors
<1>12. CASE Overflow(r)
  <2>1. prog' = prog /\ loaded' = loaded /\ incoming' = incoming /\ phase' = "crashed"
        /\ granted' = granted /\ runs' = runs /\ Begins(r)
    BY <1>12 DEF Overflow, Executes
  <2> QED  BY <1>1, <1>2, <2>1 DEF FlagsTold, RunsShaped, Begins
<1> QED  BY <1>3, <1>4, <1>5, <1>7, <1>8, <1>9, <1>10, <1>11, <1>12 DEF Runs

\* And it stays within what was looked at.
LEMMA RunStepCovered ==
  ASSUME RunsShaped, NEW r \in Actors, Runs(r), NEW S, FlagFree(Env, S), RunsIn(S)
  PROVE  RunsIn(S)'
<1>1. CASE Skip(r) \/ Lua(r) \/ Plain(r)
  BY <1>1, MoveOnCovered
<1>2. CASE Call(r)
  BY <1>2, CallCovered
<1>3. CASE SpawnTask(r)
  <2>1. r = "front"
    BY <1>3 DEF SpawnTask
  <2> QED  BY <1>3, <2>1, SpawnCovered
<1>4. CASE Query(r)
  BY <1>4, QueryCovered
<1>5. CASE Block(r)
  BY <1>5, BlockStepCovered
<1>6. CASE ReturnFrom(r)
  BY <1>6, ReturnCovered
<1>7. CASE Overflow(r)
  BY <1>7 DEF Overflow, RunsIn
<1> QED  BY <1>1, <1>2, <1>3, <1>4, <1>5, <1>6, <1>7 DEF Runs

\* The parts of the invariant that a step keeps which leaves the program and
\* the request alone, and the process where it was or past the run.
LEMMA QuietEntry ==
  ASSUME EntryInv, prog' = prog, loaded' = loaded, incoming' = incoming,
         phase' \in {phase, "answered", "crashed"}, RunsShaped', FlagsTold',
         phase' \notin {"preflight", "main", "answered", "crashed"} => runs' = runs,
         \A S : FlagFree(Env, S) /\ RunsIn(S) /\ phase' = "main" => RunsIn(S)'
  PROVE  EntryInv'
<1>1. /\ Env' = Env /\ Served' = Served
      /\ Route(incoming)' = Route(incoming)
      /\ Receiver(incoming)' = Receiver(incoming)
      /\ Foreseen(Route(incoming))' = Foreseen(Route(incoming))
  BY Unmoved
<1>2. QuietBefore'
  BY DEF QuietBefore, EntryInv
<1>3. RoutesSearched'
  BY <1>1 DEF RoutesSearched, EntryInv
<1>4. RouteFound'
  BY <1>1 DEF RouteFound, EntryInv
<1>5. RunsCovered'
  <2> SUFFICES ASSUME phase' = "main", Served, prog.flags # NoValue, ~Foreseen(Route(incoming))
               PROVE  RunsIn(Looked(Env, Route(incoming).pipeline))'
    BY <1>1 DEF RunsCovered, RunsIn
  <2>1. phase = "main"
    OBVIOUS
  <2>2. FlagFree(Env, Looked(Env, Route(incoming).pipeline))
    BY <2>1, SearchedRoute DEF EntryInv, RoutesSearched, RouteFound
  <2>3. RunsIn(Looked(Env, Route(incoming).pipeline))
    BY <2>1 DEF EntryInv, RunsCovered, RunsIn
  <2>4. PICK S : S = Looked(Env, Route(incoming).pipeline)
    OBVIOUS
  <2>5. RunsIn(S)'
    BY <2>2, <2>3, <2>4
  <2>6. Looked(Env, Route(incoming).pipeline)' = S
    BY <1>1, <2>4
  <2> QED  BY <2>5, <2>6 DEF RunsIn
<1> QED  BY <1>2, <1>3, <1>4, <1>5 DEF EntryInv

\* A step of a run, of the request or of its task, keeps the invariant.
LEMMA RunsEntryInv == ASSUME EntryInv, NEW r \in Actors, Runs(r) PROVE EntryInv'
<1>1. /\ prog' = prog /\ loaded' = loaded /\ incoming' = incoming
      /\ phase' \in {phase, "crashed"} /\ runs[r].stack # <<>>
      /\ RunsShaped' /\ FlagsTold'
  BY RunStepFacts
<1>2. phase \in {"preflight", "main", "answered", "crashed"}
  BY <1>1 DEF EntryInv, QuietBefore
<1>3. \A S : FlagFree(Env, S) /\ RunsIn(S) => RunsIn(S)'
  BY RunStepCovered DEF EntryInv
<1> QED  BY <1>1, <1>2, <1>3, QuietEntry

\* So does the end of a task.
LEMMA TaskOverEntryInv == ASSUME EntryInv, TaskOver PROVE EntryInv'
<1>1. /\ prog' = prog /\ loaded' = loaded /\ incoming' = incoming /\ phase' = phase
      /\ granted' = granted /\ runs' = [runs EXCEPT !["task"] = NoRun] /\ "task" \in Actors
  BY DEF TaskOver, Actors
<1>2. RunsShaped' /\ runs'["task"].stack = <<>> /\ runs'["task"].flags = {}
      /\ runs'["front"] = runs["front"]
  BY <1>1, NoRunMoves DEF EntryInv, Actors
<1>3. FlagsTold'
  BY <1>1, <1>2 DEF EntryInv, FlagsTold
<1>4. runs["task"].stack # <<>>
  <2>1. WellStacked(runs["task"].stack)
    BY <1>1 DEF EntryInv, RunsShaped
  <2>2. Len(runs["task"].stack) = 1 \/ runs["task"].stack # <<>>
    BY DEF TaskOver, Completed, Fails, Executes, Begins
  <2> QED  BY <2>1, <2>2, ListFacts DEF WellStacked
<1>5. phase \in {"preflight", "main", "answered", "crashed"}
  BY <1>1, <1>4 DEF EntryInv, QuietBefore
<1>6. \A S : RunsIn(S) => RunsIn(S)'
  BY <1>2, NoneCovered DEF RunsIn, Actors
<1> QED  BY <1>1, <1>2, <1>3, <1>5, <1>6, QuietEntry

\* The run in front is gone, and the process has answered.
LEMMA AnsweredEntryInv ==
  ASSUME EntryInv, prog' = prog, loaded' = loaded, incoming' = incoming, granted' = granted,
         phase' = "answered", Becomes([runs EXCEPT !["front"] = NoRun])
  PROVE  EntryInv'
<1>1. RunsShaped' /\ runs'["front"].flags = {} /\ runs'["task"] = runs["task"]
  BY NoRunMoves DEF EntryInv, Actors, Becomes
<1>2. FlagsTold'
  BY <1>1 DEF EntryInv, FlagsTold
<1> QED  BY <1>1, <1>2, QuietEntry

\* The server takes requests only once every route has been searched to the end.
LEMMA BuildEntryInv == ASSUME EntryInv, Build PROVE EntryInv'
<1>1. /\ prog' = prog /\ loaded' = loaded /\ incoming' = incoming /\ runs' = runs
      /\ granted' = granted /\ phase = "build" /\ phase' \in {"crashed", "idle"}
      /\ phase' = "idle" =>
           \A id \in RouteIds(prog) : NeedsFlags(Env, Merged(prog)[id].pipeline) # "endless"
  BY DEF Build
<1>2. Env' = Env
  BY <1>1, Unmoved
<1>3. RunsShaped' /\ FlagsTold'
  BY <1>1 DEF EntryInv, RunsShaped, FlagsTold
<1>4. QuietBefore'
  BY <1>1 DEF EntryInv, QuietBefore
<1>5. RoutesSearched'
  BY <1>1, <1>2 DEF RoutesSearched
<1>6. RouteFound' /\ RunsCovered'
  BY <1>1 DEF RouteFound, RunsCovered
<1> QED  BY <1>1, <1>3, <1>4, <1>5, <1>6 DEF EntryInv

\* A script is no request: nothing was searched for it.
LEMMA RunScriptEntryInv == ASSUME EntryInv, RunScript PROVE EntryInv'
<1>1. /\ prog' = prog /\ loaded' = loaded /\ granted' = granted
      /\ incoming' = [method |-> "script"] /\ phase' \in {"preflight", "main"}
      /\ \E p : Becomes([runs EXCEPT !["front"] = NewRun(p, {})])
  BY DEF RunScript, Becomes
<1>2. PICK p : Becomes([runs EXCEPT !["front"] = NewRun(p, {})])
  BY <1>1
<1>3. RunsShaped' /\ runs'["front"].flags = {} /\ runs'["task"] = runs["task"]
  BY <1>2, NewRunMoves DEF EntryInv, Actors
<1>4. FlagsTold'
  BY <1>1, <1>3 DEF EntryInv, FlagsTold
<1>5. ~Served'
  BY <1>1 DEF Served
<1>6. QuietBefore' /\ RoutesSearched' /\ RouteFound' /\ RunsCovered'
  BY <1>1, <1>5 DEF QuietBefore, RoutesSearched, RouteFound, RunsCovered
<1> QED  BY <1>1, <1>3, <1>4, <1>6 DEF EntryInv

\* A request begins with the flags pipeline, or with a pipeline the search passed.
LEMMA ArriveEntryInv == ASSUME EntryInv, Arrive PROVE EntryInv'
<1>1. PICK sent \in Requests :
        /\ incoming' = sent
        /\ IF Receiver(sent) = "route"
             THEN IF Foreseen(Route(sent))
                    THEN /\ phase' = "preflight"
                         /\ Becomes([runs EXCEPT !["front"] = NewRun(FlagsPipeline, {})])
                    ELSE /\ phase' = "main"
                         /\ Becomes([runs EXCEPT !["front"] = NewRun(Route(sent).pipeline, {})])
             ELSE phase' = "answered" /\ runs' = runs
  BY DEF Arrive, Becomes
<1>2. prog' = prog /\ loaded' = loaded /\ granted' = granted /\ phase = "idle"
  BY DEF Arrive
<1>3. Env' = Env
  BY <1>2 DEF Env, Linked
<1>4. /\ Route(incoming)' = Route(sent) /\ Receiver(incoming)' = Receiver(sent)
      /\ Foreseen(Route(incoming))' = Foreseen(Route(sent))
  <2>1. Route(incoming)' = Route(sent)
    BY <1>1, <1>2 DEF Route
  <2>2. Receiver(incoming)' = Receiver(sent)
    BY <1>1, <1>2 DEF Receiver
  <2> QED  BY <1>2, <1>3, <2>1, <2>2 DEF Foreseen
<1>5. \A id \in RouteIds(prog) : NeedsFlags(Env, Merged(prog)[id].pipeline) # "endless"
  BY <1>2 DEF EntryInv, RoutesSearched
<1>6. runs["front"].stack = <<>> /\ runs["task"].stack = <<>>
  BY <1>2 DEF EntryInv, QuietBefore, Actors
<1>7. RoutesSearched'
  BY <1>2, <1>3, <1>5 DEF RoutesSearched
<1>8. CASE Receiver(sent) # "route"
  <2>1. phase' = "answered" /\ runs' = runs
    BY <1>1, <1>8
  <2>2. RunsShaped' /\ FlagsTold' /\ QuietBefore' /\ RouteFound' /\ RunsCovered'
    BY <1>2, <2>1 DEF EntryInv, RunsShaped, FlagsTold, QuietBefore, RouteFound, RunsCovered
  <2> QED  BY <1>2, <1>7, <2>2 DEF EntryInv
<1>9. CASE Receiver(sent) = "route" /\ Foreseen(Route(sent))
  <2>1. phase' = "preflight" /\ Becomes([runs EXCEPT !["front"] = NewRun(FlagsPipeline, {})])
    BY <1>1, <1>9
  <2>2. RunsShaped' /\ runs'["front"].flags = {} /\ runs'["task"] = runs["task"]
    BY <2>1, NewRunMoves DEF EntryInv, Actors
  <2>3. FlagsTold' /\ QuietBefore' /\ RunsCovered'
    BY <1>2, <2>1, <2>2 DEF EntryInv, FlagsTold, QuietBefore, RunsCovered
  <2>4. RouteFound'
    BY <1>4, <1>9 DEF RouteFound
  <2> QED  BY <1>2, <1>7, <2>2, <2>3, <2>4 DEF EntryInv
<1>10. CASE Receiver(sent) = "route" /\ ~Foreseen(Route(sent))
  <2> DEFINE route == Route(sent).pipeline
  <2>0. PICK S : S = Looked(Env, route)
    OBVIOUS
  <2>1. phase' = "main" /\ Becomes([runs EXCEPT !["front"] = NewRun(route, {})])
    BY <1>1, <1>10
  <2>2. /\ RunsShaped' /\ runs'["front"].flags = {} /\ runs'["task"] = runs["task"]
        /\ runs'["front"].stack = <<Frame(route, "entry")>>
    BY <2>1, NewRunMoves DEF EntryInv, Actors
  <2>3. FlagsTold' /\ QuietBefore'
    BY <1>2, <2>1, <2>2 DEF EntryInv, FlagsTold, QuietBefore
  <2>4. RouteFound'
    BY <1>4, <1>10, <2>1 DEF RouteFound
  <2>5. RunsCovered'
    <3>1. ASSUME prog.flags # NoValue PROVE RunsIn(S)'
      <4>1. PICK id \in RouteIds(prog) : Route(sent) = Merged(prog)[id]
        BY <1>10, RouteOfProgram
      <4>2. prog \in Programs /\ loaded \in BOOLEAN
        BY DEF EntryInv
      <4>3. Env = Linked(prog, loaded, ServerTable)
        BY DEF Env
      <4>4. NeedsFlags(Env, route) \in {"yes", "no", "endless"}
        BY <4>1, <4>2, <4>3, SearchAssumption
      <4>5. NeedsFlags(Env, route) = "no"
        BY <1>5, <1>10, <3>1, <4>1, <4>4 DEF Foreseen
      <4>6. route \in S /\ FlagFree(Env, S)
        BY <2>0, <4>1, <4>2, <4>3, <4>5, SearchAssumption
      <4>7. Covered(route.module, route.steps, S)
        BY <4>6, LookedCovered
      <4>8. IsEntryFrame(Frame(route, "entry")) /\ Frame(route, "entry").module = route.module
            /\ Frame(route, "entry").steps = route.steps
        BY DEF IsEntryFrame, Frame
      <4>9. StackCovered(<<Frame(route, "entry")>>, S)
        BY <4>7, <4>8, OneCovered
      <4>10. runs'["front"].stack = <<Frame(route, "entry")>> /\ runs'["task"].stack = <<>>
        BY <1>6, <2>2
      <4>11. StackCovered(<<>>, S)
        BY NoneCovered
      <4> HIDE DEF route
      <4> QED  BY <4>9, <4>10, <4>11 DEF RunsIn, Actors
    <3>2. Looked(Env, Route(incoming).pipeline)' = S
      BY <1>3, <1>4, <2>0
    <3> QED  BY <1>2, <3>1, <3>2 DEF RunsCovered, RunsIn
  <2> QED  BY <1>2, <1>7, <2>2, <2>3, <2>4, <2>5 DEF EntryInv
<1> QED  BY <1>8, <1>9, <1>10

\* From the flags pipeline to the run, whatever came of it.
LEMMA ProceedEntryInv ==
  ASSUME EntryInv, phase = "preflight", NEW flags, NEW user, Proceed(flags, user)
  PROVE  EntryInv'
<1>1. /\ prog' = prog /\ loaded' = loaded /\ incoming' = incoming
      /\ phase' = "main" /\ granted' = granted \cup flags
      /\ \E p : Becomes([runs EXCEPT !["front"] = NewRun(p, flags)])
  BY DEF Proceed, Becomes
<1>2. PICK p : Becomes([runs EXCEPT !["front"] = NewRun(p, flags)])
  BY <1>1
<1>3. RunsShaped' /\ runs'["front"].flags = flags /\ runs'["task"] = runs["task"]
  BY <1>2, NewRunMoves DEF EntryInv, Actors
<1>4. FlagsTold' /\ QuietBefore'
  BY <1>1, <1>3 DEF EntryInv, FlagsTold, QuietBefore
<1>5. /\ Env' = Env /\ Served' = Served
      /\ Receiver(incoming)' = Receiver(incoming)
      /\ Foreseen(Route(incoming))' = Foreseen(Route(incoming))
  BY <1>1, Unmoved
<1>6. RoutesSearched' /\ RouteFound' /\ RunsCovered'
  BY <1>1, <1>5 DEF EntryInv, RoutesSearched, RouteFound, RunsCovered
<1> QED  BY <1>1, <1>3, <1>4, <1>6 DEF EntryInv

\* Before the process has begun nothing runs and nothing is granted.
LEMMA InitEntryInv == EntryInit => EntryInv
<1> SUFFICES ASSUME EntryInit PROVE EntryInv
  OBVIOUS
<1>1. /\ prog \in Programs /\ loaded \in BOOLEAN /\ granted = {} /\ incoming = NoValue
      /\ runs = [r \in Actors |-> NoRun]
  BY DEF EntryInit, Actors
<1>2. PICK given : phase = ProcessStart(given, prog)
  BY DEF EntryInit
<1>3. Mode(given) \in {"test", "inspect", "serve", "run", "auto"}
  BY DEF Mode
<1>4. phase \in {"tests", "build", "script", "exit"}
  BY <1>2, <1>3 DEF ProcessStart
<1>5. NoRun = RunOf(<<>>, {}, FALSE, 0)
  BY DEF NoRun, RunOf
<1>6. \A r \in Actors : /\ runs[r] = NoRun /\ runs[r].stack = <<>> /\ runs[r].flags = {}
                        /\ runs[r].user = FALSE /\ runs[r].deferred = 0
  BY <1>1 DEF NoRun
<1>7. RunsShaped
  <2>1. runs = [r \in Actors |-> RunOf(runs[r].stack, runs[r].flags, runs[r].user, runs[r].deferred)]
    BY <1>1, <1>5, <1>6
  <2> QED  BY <1>6, <2>1, NoFrame DEF RunsShaped, RunOf
<1>8. FlagsTold /\ QuietBefore
  BY <1>4, <1>6 DEF FlagsTold, QuietBefore, Actors
<1>9. RoutesSearched /\ RouteFound /\ RunsCovered
  BY <1>1, <1>4 DEF RoutesSearched, RouteFound, RunsCovered, Served
<1> QED  BY <1>1, <1>7, <1>8, <1>9 DEF EntryInv

\* Every step keeps the invariant.
LEMMA NextEntryInv == EntryInv /\ [EntryNext]_entryVars => EntryInv'
<1> SUFFICES ASSUME EntryInv, [EntryNext]_entryVars PROVE EntryInv'
  OBVIOUS
<1>1. CASE Build
  BY <1>1, BuildEntryInv
<1>2. CASE Arrive
  BY <1>2, ArriveEntryInv
<1>3. CASE RunScript
  BY <1>3, RunScriptEntryInv
<1>4. CASE FlagsResolved \/ FlagsTimeOut
  BY <1>4, ProceedEntryInv DEF FlagsResolved, FlagsTimeOut
<1>5. CASE FlagsFail
  <2>1. CASE incoming.method = "script"
    BY <1>5, <2>1, AnsweredEntryInv DEF FlagsFail, Becomes
  <2>2. CASE incoming.method # "script"
    BY <1>5, <2>2, ProceedEntryInv DEF FlagsFail
  <2> QED  BY <2>1, <2>2
<1>6. CASE Respond \/ RespondError
  BY <1>6, AnsweredEntryInv DEF Respond, RespondError, Becomes
<1>7. CASE Runs("front") \/ Runs("task")
  BY <1>7, RunsEntryInv DEF Actors
<1>8. CASE TaskOver
  BY <1>8, TaskOverEntryInv
<1>9. CASE UNCHANGED entryVars
  <2>1. /\ prog' = prog /\ loaded' = loaded /\ incoming' = incoming /\ phase' = phase
        /\ runs' = runs /\ granted' = granted
    BY <1>9 DEF entryVars
  <2>2. RunsShaped' /\ FlagsTold'
    BY <2>1 DEF EntryInv, RunsShaped, FlagsTold
  <2>3. \A S : RunsIn(S) => RunsIn(S)'
    BY <2>1 DEF RunsIn
  <2> QED  BY <2>1, <2>2, <2>3, QuietEntry
<1> QED  BY <1>1, <1>2, <1>3, <1>4, <1>5, <1>6, <1>7, <1>8, <1>9 DEF EntryNext, Handling

\* The inductive invariant of a request, from its arrival to its answer: where
\* the process is, what runs in it, what was searched and which flags were given.
THEOREM EntryInvariance == EntrySpec => []EntryInv
BY InitEntryInv, NextEntryInv, PTL DEF EntrySpec

\* Steps tagged @flag run only by a flag that the flags pipeline gave in time,
\* or a setFlag (check_flag_tag), for any programs, requests and tasks.
THEOREM FlagsGiven == EntrySpec => []FlagsAreGranted
<1>1. EntryInv => FlagsAreGranted
  <2> SUFFICES ASSUME EntryInv, phase = "main", NEW r \in DOMAIN runs
               PROVE  runs[r].flags \subseteq granted
    BY DEF FlagsAreGranted
  <2>1. DOMAIN runs = Actors
    BY DEF EntryInv, RunsShaped
  <2> QED  BY <2>1 DEF EntryInv, FlagsTold, Actors
<1> QED  BY <1>1, EntryInvariance, PTL

\* A request whose flags pipeline was skipped comes to no step or branch that
\* asks for a flag, unless an alias or a query has led to it, provided the
\* search looks everywhere before it answers no (pipeline_needs_flags).
THEOREM NoFlagUnforeseen == EntrySpec => []FlagsForeseen
<1>1. EntryInv => FlagsForeseen
  <2> SUFFICES ASSUME EntryInv, NEW r \in DOMAIN runs, phase = "main", Served,
                      prog.flags # NoValue, Consults(r), ~Foreseen(Route(incoming)), ~Hidden(r)
               PROVE  FALSE
    BY DEF FlagsForeseen
  <2> DEFINE S == Looked(Env, Route(incoming).pipeline)
  <2>1. r \in Actors /\ Begins(r) /\ AsksForFlag(Step(r))
    BY DEF EntryInv, RunsShaped, Consults
  <2>2. FlagFree(Env, S)
    BY SearchedRoute DEF EntryInv, RoutesSearched, RouteFound
  <2>3. StackCovered(runs[r].stack, S)
    BY <2>1 DEF EntryInv, RunsCovered
  <2> HIDE DEF S
  <2> QED  BY <2>1, <2>2, <2>3, TopCovered DEF EntryInv
<1> QED  BY <1>1, EntryInvariance, PTL

\* What a name means in the steps of a test it means in the server, in every
\* module, for any imports and aliases (load_imports_for_tests, build_runtime),
\* and the pipeline that a test itself executes is the one its file calls by that
\* name exactly when no earlier file, or no other, defines it (run_tests_internal).
THEOREM NamesMeanTheSame == EntrySpec => []TestsAgree
<1>1. EntryInv => TestsAgree
  <2> SUFFICES ASSUME EntryInv, loaded PROVE TestsAgree
    BY DEF TestsAgree
  <2>1. prog \in Programs /\ loaded = TRUE
    BY DEF EntryInv
  <2>2. Env = Linked(prog, TRUE, ServerTable)
    BY <2>1 DEF Env
  <2> QED  BY <2>1, <2>2, NamesAgree, EntriesAgree, VariablesAgree DEF TestsAgree
<1> QED  BY <1>1, EntryInvariance, PTL

\* Every route answers the requests only it is meant for, unless the server
\* itself, a file or a route of an earlier module does (router, unified_handler).
THEOREM RoutesAnswer == EntrySpec => []EveryRouteAnswers
<1>1. EntryInv => EveryRouteAnswers
  <2> DEFINE all == Merged(prog)
  <2> SUFFICES ASSUME EntryInv, NEW i \in DOMAIN all,
                      NEW sent, sent = [method |-> all[i].method, path |-> Example(all[i])],
                      sent.method \in Methods, Handled(sent.method, sent.path),
                      \A j \in DOMAIN all : ~(Precedes(j, i) /\ SameShape(all[j], all[i])),
                      ~(sent.method = "GET" /\ sent.path \in prog.files)
               PROVE  Receiver(sent) = "route" /\ Route(sent) = all[i]
    BY DEF EveryRouteAnswers
  <2>1. sent.method = all[i].method /\ sent.path = Example(all[i])
    OBVIOUS
  <2>2. RouteFor(Inserted(prog), sent.method, sent.path) = {all[i]}
    BY <2>1, RouteAnswers DEF EntryInv
  <2>3. Route(sent) = all[i]
    BY <2>2 DEF Route
  <2>4. Receiver(sent) = "route"
    BY <2>2 DEF Receiver
  <2> QED  BY <2>3, <2>4
<1> QED  BY <1>1, EntryInvariance, PTL
=============================================================================
