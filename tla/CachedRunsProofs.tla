------------------------- MODULE CachedRunsProofs -------------------------
(***************************************************************************)
(* However many runs share the cache and however deep their pipelines are  *)
(* nested: a refresh slot is never held for nobody, a failure is never     *)
(* cached, and the runs use the store in no other way than CacheStore      *)
(* allows, so that what is proved of the store holds of it here.           *)
(***************************************************************************)
EXTENDS CachedRuns, SequenceTheorems, TLAPS

\* Only the innermost pipeline has left its loop.
WellStacked(st) ==
  /\ st \in Seq(Frame)
  /\ \A d \in 1..Len(st) : st[d].phase = "save" => d = Len(st)

\* What is pending inside a result branch that answers 5xx is of a key of K.
Named(st, K) ==
  \A d \in 1..Len(st) : \A c \in 1..d : \A s \in Range(st[d].pending) :
    st[c].exit = "5xx" => s.key \in K

StoreTyped ==
  /\ entries \in [DOMAIN entries -> Store!Entry]
  /\ DOMAIN rank = DOMAIN entries
  /\ now \in Nat

RunsTyped ==
  /\ frames \in [Runs -> Seq(Frame)]
  /\ \A r \in Runs : WellStacked(frames[r]) /\ Named(frames[r], inBranch)

IInv == StoreTyped /\ RunsTyped /\ SlotHasOwner /\ FailuresNeverCached

\* The stack holds the save, somewhere.
Owes(st, s) == \E d \in 1..Len(st) : s \in Range(st[d].pending)

\* Frames d and above of the stack hold it.
OwesAbove(st, d, s) == \E c \in d..Len(st) : s \in Range(st[c].pending)

---------------------------------------------------------------------------
\* Replacing the innermost frame loses no save but those the frame loses.
LEMMA TopReplaced ==
  ASSUME NEW st, WellStacked(st), st # <<>>,
         NEW f \in Frame, f.exit = st[Len(st)].exit,
         NEW K, NEW L, Named(st, K), K \subseteq L,
         \A s \in Range(f.pending) \ Range(st[Len(st)].pending) :
           (\E c \in 1..Len(st) : st[c].exit = "5xx") => s.key \in L
  PROVE  LET after == [st EXCEPT ![Len(st)] = f]
         IN /\ WellStacked(after) /\ Named(after, L)
            /\ \A s : Owes(st, s) => \/ Owes(after, s)
                                     \/ s \in Range(st[Len(st)].pending) \ Range(f.pending)
            /\ \A s \in Range(f.pending) : Owes(after, s)
<1> DEFINE l == Len(st)
           after == [st EXCEPT ![l] = f]
<1>1. st \in Seq(Frame) /\ l \in Nat \ {0}
  BY EmptySeq DEF WellStacked
<1>2. /\ after \in Seq(Frame) /\ Len(after) = l
      /\ after[l] = f
      /\ \A d \in 1..l : d # l => after[d] = st[d]
  <2>1. l \in 1..l
    BY <1>1
  <2> QED  BY <1>1, <2>1, ExceptSeq
<1> HIDE DEF after
<1>3. WellStacked(after)
  BY <1>1, <1>2 DEF WellStacked
<1>4. Named(after, L)
  <2>1. \A d \in 1..l : after[d].exit = st[d].exit
    BY <1>2
  <2> SUFFICES ASSUME NEW d \in 1..l, NEW c \in 1..d, NEW s \in Range(after[d].pending),
                      st[c].exit = "5xx"
               PROVE  s.key \in L
    BY <1>1, <1>2, <2>1 DEF Named
  <2>2. CASE s \in Range(st[d].pending)
    BY <2>2 DEF Named
  <2>3. CASE s \notin Range(st[d].pending)
    <3>1. d = l /\ s \in Range(f.pending) \ Range(st[l].pending)
      BY <1>2, <2>3
    <3>2. c \in 1..l
      BY <3>1
    <3> QED  BY <3>1, <3>2
  <2> QED  BY <2>2, <2>3
<1>5. ASSUME NEW s, Owes(st, s)
      PROVE  Owes(after, s) \/ s \in Range(st[l].pending) \ Range(f.pending)
  BY <1>1, <1>2, <1>5 DEF Owes
<1>6. ASSUME NEW s \in Range(f.pending) PROVE Owes(after, s)
  BY <1>1, <1>2, <1>6 DEF Owes
<1> QED
  BY <1>3, <1>4, <1>5, <1>6 DEF after

\* A new pipeline owes nothing, and those it runs for keep what they owe.
LEMMA TopPushed ==
  ASSUME NEW st, WellStacked(st), st # <<>> => st[Len(st)].phase = "run",
         NEW f \in Frame, f.phase = "run", f.pending = <<>>,
         NEW K, Named(st, K)
  PROVE  /\ WellStacked(Append(st, f)) /\ Named(Append(st, f), K)
         /\ \A s : Owes(st, s) => Owes(Append(st, f), s)
<1> DEFINE l == Len(st)
           after == Append(st, f)
<1>1. st \in Seq(Frame) /\ l \in Nat
  BY DEF WellStacked
<1>2. /\ after \in Seq(Frame) /\ Len(after) = l + 1 /\ after[l + 1] = f
      /\ \A d \in 1..l : after[d] = st[d]
  BY <1>1
<1> HIDE DEF after
<1>3. \A d \in 1..l : st[d].phase # "save"
  <2>1. l # 0 => st[l].phase = "run"
    BY <1>1
  <2> QED  BY <1>1, <2>1 DEF WellStacked
<1>4. WellStacked(after)
  BY <1>1, <1>2, <1>3 DEF WellStacked
<1>5. Named(after, K)
  <2> SUFFICES ASSUME NEW d \in 1..(l + 1), NEW c \in 1..d, NEW s \in Range(after[d].pending),
                      after[c].exit = "5xx"
               PROVE  s.key \in K
    BY <1>2 DEF Named
  <2>1. d # l + 1
    <3>1. \A x : x \notin Range(<<>>)
      BY DEF Range
    <3> QED  BY <1>2, <3>1
  <2>2. d \in 1..l /\ c \in 1..l
    BY <1>1, <2>1
  <2> QED  BY <1>2, <2>2 DEF Named
<1>6. \A s : Owes(st, s) => Owes(after, s)
  BY <1>1, <1>2 DEF Owes
<1> QED
  BY <1>4, <1>5, <1>6 DEF after

\* Cutting a stack back to a frame, whose state may change, loses what the
\* frames above it owe and no more.
LEMMA CutBack ==
  ASSUME NEW st, WellStacked(st), NEW m \in 1..Len(st),
         NEW f \in Frame, f.pending = st[m].pending, f.exit = st[m].exit,
         NEW K, Named(st, K)
  PROVE  LET after == Append(SubSeq(st, 1, m - 1), f)
         IN /\ WellStacked(after) /\ Named(after, K)
            /\ \A s : Owes(st, s) => Owes(after, s) \/ OwesAbove(st, m + 1, s)
<1> DEFINE l == Len(st)
           rest == SubSeq(st, 1, m - 1)
           after == Append(rest, f)
<1>1. st \in Seq(Frame) /\ l \in Nat \ {0} /\ m \in Nat \ {0} /\ m <= l
  BY EmptySeq DEF WellStacked
<1>2. rest \in Seq(Frame) /\ Len(rest) = m - 1 /\ \A d \in 1..(m - 1) : rest[d] = st[d]
  <2>1. \A n \in 0..Len(st) : /\ SubSeq(st, 1, n) \in Seq(Frame)
                             /\ Len(SubSeq(st, 1, n)) = n
                             /\ \A d \in 1..n : SubSeq(st, 1, n)[d] = st[d]
    <3> TAKE n \in 0..Len(st)
    <3>1. n \in Int /\ \A d \in 1..n : st[d] \in Frame
      BY <1>1
    <3>2. n - 1 + 1 = n /\ (1 <= n => n - 1 + 1 = n) /\ (~(1 <= n) => n = 0)
      BY <1>1
    <3>3. \A d \in 1..n : 1 + d - 1 = d
      BY <3>1
    <3> QED  BY <3>1, <3>2, <3>3, SubSeqProperties
  <2>2. m - 1 \in 0..Len(st)
    BY <1>1
  <2> QED  BY <2>1, <2>2
<1> HIDE DEF rest
<1>3. /\ after \in Seq(Frame) /\ Len(after) = m /\ after[m] = f
      /\ \A d \in 1..m : d # m => after[d] = st[d]
  <2>1. /\ after \in Seq(Frame) /\ Len(after) = Len(rest) + 1 /\ after[Len(rest) + 1] = f
        /\ \A d \in 1..Len(rest) : after[d] = rest[d]
    BY <1>2
  <2>2. Len(rest) + 1 = m
    BY <1>1, <1>2
  <2>3. \A d \in 1..m : d # m => d \in 1..(m - 1)
    BY <1>1
  <2> HIDE DEF after
  <2> QED  BY <1>2, <2>1, <2>2, <2>3
<1> HIDE DEF after
<1>4. \A d \in 1..m : after[d].pending = st[d].pending /\ after[d].exit = st[d].exit
  BY <1>3
<1>5. \A d \in 1..m : d # m => after[d].phase # "save"
  <2>1. \A d \in 1..m : d # m => d \in 1..l /\ d # l
    BY <1>1
  <2> QED  BY <1>3, <2>1 DEF WellStacked
<1>6. WellStacked(after)
  BY <1>3, <1>5 DEF WellStacked
<1>7. Named(after, K)
  <2>1. \A d \in 1..m : d \in 1..l /\ \A c \in 1..d : c \in 1..m
    BY <1>1
  <2> QED  BY <1>3, <1>4, <2>1 DEF Named
<1>8. ASSUME NEW s, Owes(st, s), ~OwesAbove(st, m + 1, s) PROVE Owes(after, s)
  <2>1. PICK d \in 1..l : s \in Range(st[d].pending)
    BY <1>8 DEF Owes
  <2>2. d \in 1..m
    <3>1. ~(d > m)
      BY <1>1, <1>8, <2>1 DEF OwesAbove
    <3> QED  BY <1>1, <3>1
  <2> QED  BY <1>3, <1>4, <2>1, <2>2 DEF Owes
<1> QED
  BY <1>6, <1>7, <1>8 DEF after, rest

\* What a run refreshes, in terms of what its stack owes.
LEMMA RefreshingIsOwes ==
  ASSUME NEW r, NEW d, NEW k
  PROVE  k \in Refreshing(r, d) <=> \E s : OwesAbove(frames[r], d, s) /\ s.key = k /\ s.refreshing
BY DEF Refreshing, Depth, OwesAbove

LEMMA RefreshesIsOwes ==
  ASSUME NEW r, NEW k
  PROVE  Refreshes(r, k) <=> \E s : Owes(frames[r], s) /\ s.key = k /\ s.refreshing
BY RefreshingIsOwes DEF Refreshes, OwesAbove, Owes

\* Changes of a frame that are none of its saves.
LEMMA FrameChanges ==
  ASSUME NEW f \in Frame, NEW err \in BOOLEAN, NEW same \in BOOLEAN, NEW st \in Status
  PROVE  /\ Facing(f, err, same) \in Frame /\ Facing(f, err, same).pending = f.pending
         /\ Facing(f, err, same).exit = f.exit
         /\ WithStatus(f, st) \in Frame /\ WithStatus(f, st).pending = f.pending
         /\ WithStatus(f, st).exit = f.exit
         /\ Ended(f) \in Frame /\ Ended(f).pending = f.pending /\ Ended(f).exit = f.exit
         /\ LET g == [f EXCEPT !.err = err]
            IN  g \in Frame /\ g.pending = f.pending /\ g.exit = f.exit
<1>1. /\ Facing(f, err, same) \in Frame /\ Facing(f, err, same).pending = f.pending
      /\ Facing(f, err, same).exit = f.exit
  BY DEF Facing, Frame
<1>2. /\ WithStatus(f, st) \in Frame /\ WithStatus(f, st).pending = f.pending
      /\ WithStatus(f, st).exit = f.exit
  BY DEF WithStatus, Frame
<1>3. Ended(f) \in Frame /\ Ended(f).pending = f.pending /\ Ended(f).exit = f.exit
  BY DEF Ended, Frame
<1>4. LET g == [f EXCEPT !.err = err]
      IN  g \in Frame /\ g.pending = f.pending /\ g.exit = f.exit
  BY DEF Frame
<1> QED
  BY <1>1, <1>2, <1>3, <1>4

\* An answer taken from another pipeline changes no saves.
LEMMA ResumedFrame ==
  ASSUME NEW f \in Frame, NEW g \in Frame, NEW h \in Resumed(f, g)
  PROVE  h \in Frame /\ h.pending = f.pending /\ h.exit = f.exit
<1>0. g.status \in Status /\ g.exit \in Status /\ g.err \in BOOLEAN /\ (g.err \/ f.err) \in BOOLEAN
  BY DEF Frame
<1> DEFINE w == WithStatus(f, g.status)
           e2 == [f EXCEPT !.err = g.err, !.status = g.exit]
<1>1. w \in Frame /\ w.pending = f.pending /\ w.exit = f.exit
  BY <1>0, FrameChanges
<1>2. e2 \in Frame /\ e2.pending = f.pending /\ e2.exit = f.exit
  BY <1>0 DEF Frame
<1>3. \/ \E e \in {g.err, g.err \/ f.err}, same \in BOOLEAN : h = Facing(w, e, same)
      \/ \E same \in BOOLEAN : h = Facing(w, g.err, same)
      \/ h = Ended(e2)
      \/ h = f
  BY DEF Resumed
<1> HIDE DEF w, e2
<1>4. ASSUME NEW e \in BOOLEAN, NEW same \in BOOLEAN, h = Facing(w, e, same)
      PROVE  h \in Frame /\ h.pending = f.pending /\ h.exit = f.exit
  BY <1>1, <1>4, FrameChanges DEF Status
<1>5. CASE h = Ended(e2)
  BY <1>2, <1>5, FrameChanges DEF Status
<1> QED
  BY <1>0, <1>3, <1>4, <1>5

---------------------------------------------------------------------------
\* An operation on key k takes no slot, and changes no body, but that of k.
OthersKept(k) ==
  \A j \in DOMAIN entries' \ {k} :
    /\ j \in DOMAIN entries
    /\ entries'[j].body = entries[j].body
    /\ entries'[j].refresh_started = entries[j].refresh_started

\* lookup takes a slot only for the caller it elects.
LEMMA LookupFacts ==
  ASSUME StoreTyped, NEW k, Store!Lookup(k)
  PROVE  /\ StoreTyped' /\ OthersKept(k)
         /\ k \in DOMAIN entries' => /\ k \in DOMAIN entries
                                     /\ entries'[k].body = entries[k].body
         /\ SlotHeld(k)' => SlotHeld(k) \/ Store!LookupResult(k) = "Refresh"
         /\ Store!LookupResult(k) \in {"Fresh", "Stale"} => k \in DOMAIN entries
<1> USE CachedRunsAssumption DEF Store!Cached
<1>1. CASE Store!Serve(k)
  <2>1. k \in DOMAIN entries /\ entries' = entries /\ now' = now
    BY <1>1 DEF Store!Serve, Store!LookupResult, Store!IsFresh, Store!InGrace
  <2>2. DOMAIN rank' = DOMAIN entries
    BY <1>1, <2>1 DEF Store!Serve, Store!Promoted, StoreTyped
  <2> QED  BY <2>1, <2>2 DEF StoreTyped, OthersKept, SlotHeld
<1>2. CASE Store!Elect(k)
  <2>1. /\ k \in DOMAIN entries /\ now' = now /\ Store!LookupResult(k) = "Refresh"
        /\ entries' = [entries EXCEPT ![k].refresh_started = now]
    BY <1>2 DEF Store!Elect, Store!LookupResult, Store!IsFresh, Store!InGrace
  <2>2. DOMAIN rank' = DOMAIN entries
    BY <1>2, <2>1 DEF Store!Elect, Store!Promoted, StoreTyped
  <2>3. entries' \in [DOMAIN entries -> Store!Entry] /\ entries'[k].body = entries[k].body
    BY <2>1 DEF StoreTyped, Store!Entry
  <2>4. DOMAIN entries' = DOMAIN entries
    BY <2>1
  <2>5. StoreTyped'
    BY <2>1, <2>2, <2>3, <2>4 DEF StoreTyped
  <2> QED  BY <2>1, <2>3, <2>4, <2>5 DEF OthersKept, SlotHeld
<1>3. CASE Store!Expire(k)
  <2>1. /\ now' = now /\ Store!LookupResult(k) = "Miss" /\ k \in DOMAIN entries
        /\ entries' = [j \in DOMAIN entries \ {k} |-> entries[j]]
    BY <1>3 DEF Store!Expire, Store!Restrict
  <2>2. DOMAIN rank' = DOMAIN entries \ {k}
    BY <1>3 DEF Store!Expire, Store!Removed, StoreTyped
  <2>3. StoreTyped'
    BY <2>1, <2>2 DEF StoreTyped
  <2> QED  BY <2>1, <2>3 DEF OthersKept, SlotHeld
<1>4. CASE Store!MissAbsent(k)
  <2>1. entries' = entries /\ rank' = rank /\ now' = now /\ k \notin DOMAIN entries
    BY <1>4 DEF Store!MissAbsent, Store!vars
  <2>2. Store!LookupResult(k) = "Miss"
    BY <2>1 DEF Store!LookupResult, Store!IsFresh, Store!InGrace
  <2> QED  BY <2>1, <2>2 DEF StoreTyped, OthersKept, SlotHeld
<1> QED
  BY <1>1, <1>2, <1>3, <1>4 DEF Store!Lookup

\* clear_refresh frees the slot of k.
LEMMA ClearRefreshFacts ==
  ASSUME StoreTyped, NEW k, Store!ClearRefresh(k)
  PROVE  /\ StoreTyped' /\ OthersKept(k)
         /\ k \in DOMAIN entries' => /\ k \in DOMAIN entries
                                     /\ entries'[k].body = entries[k].body
         /\ ~SlotHeld(k)'
<1> USE CachedRunsAssumption DEF Store!Cached
<1>1. CASE k \notin DOMAIN entries
  BY <1>1 DEF Store!ClearRefresh, Store!vars, StoreTyped, OthersKept, SlotHeld
<1>2. CASE k \in DOMAIN entries
  <2>1. /\ now' = now
        /\ entries' = [entries EXCEPT ![k].refresh_started = None]
    BY <1>2 DEF Store!ClearRefresh
  <2>2. DOMAIN rank' = DOMAIN entries /\ DOMAIN entries' = DOMAIN entries
    BY <1>2, <2>1 DEF Store!ClearRefresh, Store!Promoted, StoreTyped
  <2>3. /\ entries' \in [DOMAIN entries -> Store!Entry]
        /\ entries'[k].body = entries[k].body
        /\ entries'[k].refresh_started = None
    BY <1>2, <2>1 DEF StoreTyped, Store!Entry
  <2>4. StoreTyped'
    BY <2>1, <2>2, <2>3 DEF StoreTyped
  <2> QED  BY <1>2, <2>1, <2>2, <2>3, <2>4 DEF OthersKept, SlotHeld
<1> QED
  BY <1>1, <1>2

\* put_response takes no slot, and frees that of the key it really writes.
LEMMA PutResponseFacts ==
  ASSUME StoreTyped, NEW k, NEW body \in Body, NEW size \in Sizes, NEW ttl \in Ttls,
         Store!PutResponse(k, body, size, ttl)
  PROVE  /\ StoreTyped' /\ OthersKept(k)
         /\ k \in DOMAIN entries' => \/ entries'[k].body = body
                                     \/ /\ k \in DOMAIN entries
                                        /\ entries'[k].body = entries[k].body
         /\ SlotHeld(k)' => Store!Rejected(size, ttl) /\ SlotHeld(k)
<1> USE CachedRunsAssumption DEF Store!Cached
<1>1. CASE Store!Rejected(size, ttl) /\ UNCHANGED Store!vars
  BY <1>1 DEF Store!vars, StoreTyped, OthersKept, SlotHeld
<1>2. CASE Store!Insert(k, body, size, ttl)
  <2> DEFINE New == Store!NewEntry(body, size, ttl)
  <2>1. PICK n :
          /\ entries' = [j \in DOMAIN Store!OrderAfterPush(k, n) |->
                           IF j = k THEN New ELSE entries[j]]
          /\ rank' = Store!OrderAfterPush(k, n)
          /\ now' = now
    BY <1>2 DEF Store!Insert
  <2>2. DOMAIN Store!OrderAfterPush(k, n) \subseteq DOMAIN entries \cup {k}
    BY DEF Store!OrderAfterPush, Store!Promoted, Store!Truncated, Store!Newest, StoreTyped
  <2>3. New \in Store!Entry /\ New.body = body /\ New.refresh_started = None
    BY DEF Store!NewEntry, Store!Entry, StoreTyped
  <2> HIDE DEF New
  <2>4. /\ DOMAIN entries' = DOMAIN rank'
        /\ DOMAIN entries' \subseteq DOMAIN entries \cup {k}
        /\ \A j \in DOMAIN entries' : entries'[j] = IF j = k THEN New ELSE entries[j]
    BY <2>1, <2>2
  <2>5. entries' \in [DOMAIN entries' -> Store!Entry]
    BY <2>1, <2>3, <2>4 DEF StoreTyped
  <2>6. StoreTyped'
    BY <2>1, <2>4, <2>5 DEF StoreTyped
  <2>7. OthersKept(k)
    BY <2>4 DEF OthersKept
  <2>8. ~SlotHeld(k)'
    BY <2>3, <2>4 DEF SlotHeld
  <2>9. k \in DOMAIN entries' => entries'[k].body = body
    BY <2>3, <2>4
  <2> QED  BY <2>6, <2>7, <2>8, <2>9
<1>3. CASE Store!EvictAllAndReject(k, size)
  <2>1. /\ entries' = [j \in {} |-> None] /\ DOMAIN rank' = {} /\ now' = now
    BY <1>3 DEF Store!EvictAllAndReject, Store!EmptyOrder
  <2> QED  BY <2>1 DEF StoreTyped, OthersKept, SlotHeld
<1> QED
  BY <1>1, <1>2, <1>3 DEF Store!PutResponse
---------------------------------------------------------------------------
\* A run's part of the invariant, and what a step of the run alone has to
\* show to keep it.
LEMMA FramesKept ==
  ASSUME IInv, NEW r \in Runs, NEW st, WellStacked(st), Named(st, inBranch'),
         inBranch \subseteq inBranch',
         frames' = [frames EXCEPT ![r] = st]
  PROVE  RunsTyped'
<1>1. frames' \in [Runs -> Seq(Frame)]
  BY DEF IInv, RunsTyped, WellStacked
<1>2. ASSUME NEW q \in Runs PROVE WellStacked(frames'[q]) /\ Named(frames'[q], inBranch')
  <2>1. CASE q = r
    BY <2>1 DEF IInv, RunsTyped
  <2>2. CASE q # r
    <3>1. frames'[q] = frames[q]
      BY <2>2 DEF IInv, RunsTyped
    <3>2. Named(frames[q], inBranch')
      BY DEF IInv, RunsTyped, Named
    <3> QED  BY <3>1, <3>2 DEF IInv, RunsTyped
  <2> QED  BY <2>1, <2>2
<1> QED
  BY <1>1, <1>2 DEF RunsTyped

\* A held slot has an owner: in terms of the saves the stacks owe.
LEMMA OwnerOwes ==
  SlotHasOwner <=>
    \A k \in Keys : SlotHeld(k) =>
      \/ k \in abandoned
      \/ \E r \in Runs : \E s : Owes(frames[r], s) /\ s.key = k /\ s.refreshing
BY RefreshesIsOwes DEF SlotHasOwner

\* A slot keeps its owner through a step of r when the saves that r's stack
\* loses leave no slot behind, and the slots newly held are r's.
LEMMA OwnersKept ==
  ASSUME IInv, NEW r \in Runs, NEW st, NEW Lost,
         frames' = [frames EXCEPT ![r] = st],
         \A s : Owes(frames[r], s) => Owes(st, s) \/ s \in Lost,
         \A s \in Lost : s.refreshing /\ SlotHeld(s.key)' => s.key \in abandoned',
         \A k \in Keys : SlotHeld(k)' =>
            \/ SlotHeld(k) /\ (k \in abandoned => k \in abandoned')
            \/ \E s : Owes(st, s) /\ s.key = k /\ s.refreshing
  PROVE  SlotHasOwner'
<1>1. \A q \in Runs : frames'[q] = IF q = r THEN st ELSE frames[q]
  BY DEF IInv, RunsTyped
<1> SUFFICES ASSUME NEW k \in Keys, SlotHeld(k)', k \notin abandoned'
             PROVE  \E q \in Runs : \E s : Owes(frames'[q], s) /\ s.key = k /\ s.refreshing
  BY RefreshesIsOwes DEF SlotHasOwner, Refreshes, Refreshing, Depth, Owes
<1>2. CASE \E s : Owes(st, s) /\ s.key = k /\ s.refreshing
  BY <1>1, <1>2
<1>3. CASE SlotHeld(k) /\ k \notin abandoned
  <2>0. PICK q \in Runs : \E s : Owes(frames[q], s) /\ s.key = k /\ s.refreshing
    BY <1>3, OwnerOwes DEF IInv
  <2>1. PICK s : Owes(frames[q], s) /\ s.key = k /\ s.refreshing
    BY <2>0
  <2>2. CASE q # r
    BY <1>1, <2>1, <2>2
  <2>3. CASE q = r
    <3>1. s \notin Lost
      BY <2>1
    <3> QED  BY <1>1, <2>1, <2>3, <3>1
  <2> QED  BY <2>2, <2>3
<1> QED
  BY <1>2, <1>3

---------------------------------------------------------------------------
\* The innermost frame of a run that has one.
LEMMA TopFacts ==
  ASSUME IInv, NEW r \in Runs, ~Idle(r)
  PROVE  /\ WellStacked(frames[r]) /\ Named(frames[r], inBranch) /\ frames[r] # <<>>
         /\ Top(r) = frames[r][Len(frames[r])]
         /\ Top(r) \in Frame
         /\ \A s \in Range(Top(r).pending) : Owes(frames[r], s)
<1> DEFINE l == Len(frames[r])
<1>1. /\ frames[r] \in Seq(Frame) /\ frames[r] # <<>>
      /\ WellStacked(frames[r]) /\ Named(frames[r], inBranch)
  BY DEF IInv, RunsTyped, Idle
<1>2. l \in 1..l
  BY <1>1, EmptySeq
<1>3. Top(r) = frames[r][l]
  BY DEF Top, Depth
<1> QED
  BY <1>1, <1>2, <1>3 DEF Owes

\* SetTop, as what it does to the stack.
LEMMA TopMoves ==
  ASSUME NEW r \in Runs, NEW f, SetTop(r, f)
  PROVE  frames' = [frames EXCEPT ![r] = [@ EXCEPT ![Len(frames[r])] = f]]
BY DEF SetTop, Depth

\* A step of r alone: the store, and what is abandoned, stay.
LEMMA QuietStep ==
  ASSUME IInv, NEW r \in Runs, NEW st, WellStacked(st), Named(st, inBranch),
         frames' = [frames EXCEPT ![r] = st],
         \A s : Owes(frames[r], s) => Owes(st, s),
         Untouched
  PROVE  IInv'
<1>0. UNCHANGED <<storeVars, abandoned, inBranch>>
  BY DEF Untouched
<1>1. StoreTyped' /\ FailuresNeverCached' /\ \A k : SlotHeld(k)' = SlotHeld(k)
  BY <1>0 DEF IInv, StoreTyped, FailuresNeverCached, SlotHeld, storeVars
<1>2. RunsTyped'
  BY <1>0, FramesKept
<1>3. SlotHasOwner'
  <2> DEFINE Lost == {}
  <2>1. \A k \in Keys : SlotHeld(k)' => SlotHeld(k) /\ (k \in abandoned => k \in abandoned')
    BY <1>0, <1>1
  <2>2. \A s \in Lost : s.refreshing /\ SlotHeld(s.key)' => s.key \in abandoned'
    OBVIOUS
  <2>3. \A k \in Keys : SlotHeld(k)' =>
          \/ SlotHeld(k) /\ (k \in abandoned => k \in abandoned')
          \/ \E s : Owes(st, s) /\ s.key = k /\ s.refreshing
    BY <2>1
  <2> HIDE DEF Lost
  <2> QED  BY <2>2, <2>3, OwnersKept
<1> QED
  BY <1>1, <1>2, <1>3 DEF IInv

\* A quiet step that changes the innermost frame, but none of its saves.
LEMMA QuietTop ==
  ASSUME IInv, NEW r \in Runs, ~Idle(r), NEW f \in Frame,
         f.pending = Top(r).pending, f.exit = Top(r).exit, SetTop(r, f), Untouched
  PROVE  IInv'
<1> DEFINE st == [frames[r] EXCEPT ![Len(frames[r])] = f]
<1>1. WellStacked(st) /\ Named(st, inBranch) /\ \A s : Owes(frames[r], s) => Owes(st, s)
  BY TopFacts, TopReplaced
<1>2. frames' = [frames EXCEPT ![r] = st]
  BY TopMoves
<1> HIDE DEF st
<1> QED
  BY <1>1, <1>2, QuietStep
---------------------------------------------------------------------------
\* The cache is empty and no run has begun.
LEMMA InitIInv == Init => IInv
<1> SUFFICES ASSUME Init PROVE IInv
  OBVIOUS
<1>1. /\ entries = [k \in {} |-> None] /\ DOMAIN rank = {} /\ now = 0
      /\ frames = [r \in Runs |-> <<>>]
  BY DEF Init, Store!Init, Store!EmptyOrder
<1>2. StoreTyped
  BY <1>1 DEF StoreTyped
<1>3. RunsTyped
  BY <1>1 DEF RunsTyped, WellStacked, Named
<1>4. SlotHasOwner /\ FailuresNeverCached
  BY <1>1 DEF SlotHasOwner, SlotHeld, FailuresNeverCached
<1> QED
  BY <1>2, <1>3, <1>4 DEF IInv

\* A new pipeline has passed no cache step.
LEMMA NewFrameTyped ==
  ASSUME NEW role \in Roles, NEW e \in BOOLEAN
  PROVE  /\ NewFrame(role, e) \in Frame /\ NewFrame(role, e).phase = "run"
         /\ NewFrame(role, e).pending = <<>>
         /\ \A st \in Status :
              LET f == [NewFrame(role, e) EXCEPT !.handled = e, !.exit = st]
              IN  f \in Frame /\ f.phase = "run" /\ f.pending = <<>>
<1>1. /\ NewFrame(role, e) \in Frame /\ NewFrame(role, e).phase = "run"
      /\ NewFrame(role, e).pending = <<>>
  BY DEF NewFrame, Frame, Status
<1>2. ASSUME NEW f \in Frame, NEW st \in Status
      PROVE  LET g == [f EXCEPT !.handled = e, !.exit = st]
             IN  g \in Frame /\ g.phase = f.phase /\ g.pending = f.pending
  BY DEF Frame
<1> QED
  BY <1>1, <1>2

\* A pipeline is run on its own.
LEMMA StartIInv == ASSUME IInv, NEW r \in Runs, Start(r) PROVE IInv'
<1>1. PICK e \in BOOLEAN : frames' = [frames EXCEPT ![r] = <<NewFrame("main", e)>>]
  BY DEF Start, Errors
<1> DEFINE f == NewFrame("main", e)
<1>2. f \in Frame /\ f.phase = "run" /\ f.pending = <<>>
  BY NewFrameTyped DEF Roles
<1> HIDE DEF f
<1>3. frames[r] = <<>> /\ Append(<<>>, f) = <<f>>
  BY DEF Start, Idle
<1>4. WellStacked(<<>>) /\ Named(<<>>, inBranch) /\ \A s : ~Owes(<<>>, s)
  BY DEF WellStacked, Named, Owes
<1>5. WellStacked(<<f>>) /\ Named(<<f>>, inBranch)
  BY <1>2, <1>3, <1>4, TopPushed
<1>6. Untouched /\ frames' = [frames EXCEPT ![r] = <<f>>]
  BY <1>1 DEF Start, f
<1> QED
  BY <1>3, <1>4, <1>5, <1>6, QuietStep

\* A step gives a new state, or fails.
LEMMA WorkIInv == ASSUME IInv, NEW r \in Runs, Work(r) PROVE IInv'
<1>1. ~Idle(r) /\ Untouched
  BY DEF Work, CanStep, AtStep
<1>2. PICK e \in BOOLEAN, same \in BOOLEAN : SetTop(r, Facing(Top(r), e, same))
  BY DEF Work, Errors
<1>3. Top(r) \in Frame
  BY <1>1, TopFacts
<1>4. /\ Facing(Top(r), e, same) \in Frame
      /\ Facing(Top(r), e, same).pending = Top(r).pending
      /\ Facing(Top(r), e, same).exit = Top(r).exit
  BY <1>3, FrameChanges DEF Status
<1> QED
  BY <1>1, <1>2, <1>4, QuietTop

\* A pipeline runs another.
LEMMA PushIInv ==
  ASSUME IInv, NEW r \in Runs, AtStep(r), NEW f \in Frame, f.phase = "run", f.pending = <<>>,
         Push(r, f), Untouched
  PROVE  IInv'
<1>1. ~Idle(r) /\ frames[r][Len(frames[r])].phase = "run"
  BY DEF AtStep, Top, Depth
<1>2. /\ WellStacked(Append(frames[r], f)) /\ Named(Append(frames[r], f), inBranch)
      /\ \A s : Owes(frames[r], s) => Owes(Append(frames[r], f), s)
  BY <1>1, TopFacts, TopPushed
<1>3. frames' = [frames EXCEPT ![r] = Append(frames[r], f)]
  BY DEF Push
<1> QED
  BY <1>2, <1>3, QuietStep

\* For its state, its condition or an item.
LEMMA EnterIInv == ASSUME IInv, NEW r \in Runs, Enter(r) PROVE IInv'
<1>1. AtStep(r) /\ ~Idle(r) /\ Untouched
  BY DEF Enter, CanStep, AtStep
<1>2. Top(r).err \in BOOLEAN
  BY <1>1, TopFacts DEF Frame
<1>3. \/ \E role \in {"call", "aside"}, e \in BOOLEAN : Push(r, NewFrame(role, e))
      \/ Push(r, NewFrame("branch", Top(r).err))
  BY DEF Enter, Errors
<1>4. ASSUME NEW role \in Roles, NEW e \in BOOLEAN, Push(r, NewFrame(role, e)) PROVE IInv'
  BY <1>1, <1>4, NewFrameTyped, PushIInv
<1> QED
  BY <1>2, <1>3, <1>4 DEF Roles

\* For the answer to its error.
LEMMA ResultIInv == ASSUME IInv, NEW r \in Runs, Result(r) PROVE IInv'
<1>1. AtStep(r) /\ ~Idle(r) /\ Untouched
  BY DEF Result, AtStep
<1>2. Top(r).err \in BOOLEAN
  BY <1>1, TopFacts DEF Frame
<1>3. PICK st \in Codes :
        Push(r, [NewFrame("handler", Top(r).err) EXCEPT !.handled = Top(r).err, !.exit = st])
  BY DEF Result
<1>4. st \in Status /\ "handler" \in Roles
  BY DEF Codes, Status, Roles
<1>5. LET f == [NewFrame("handler", Top(r).err) EXCEPT !.handled = Top(r).err, !.exit = st]
      IN  f \in Frame /\ f.phase = "run" /\ f.pending = <<>>
  BY <1>2, <1>4, NewFrameTyped
<1> QED
  BY <1>1, <1>3, <1>5, PushIInv

\* A pipeline ends.
LEMMA ReturnIInv == ASSUME IInv, NEW r \in Runs, Return(r) PROVE IInv'
<1>1. ~Idle(r) /\ SetTop(r, Ended(Top(r))) /\ Untouched
  BY DEF Return, AtStep
<1>2. Top(r) \in Frame
  BY <1>1, TopFacts
<1>3. /\ Ended(Top(r)) \in Frame /\ Ended(Top(r)).pending = Top(r).pending
      /\ Ended(Top(r)).exit = Top(r).exit
  BY <1>2, FrameChanges DEF Status
<1> QED
  BY <1>1, <1>3, QuietTop

\* A pipeline that has run its saves gives way to the one it was run for.
LEMMA LeaveIInv == ASSUME IInv, NEW r \in Runs, Leave(r) PROVE IInv'
<1> DEFINE old == frames[r]
           l == Len(old)
<1>1. ~Idle(r) /\ Untouched /\ Top(r).pending = <<>>
  BY DEF Leave
<1>2. /\ WellStacked(old) /\ Named(old, inBranch) /\ old \in Seq(Frame) /\ l \in Nat \ {0}
      /\ Top(r) = old[l] /\ Top(r) \in Frame
  BY <1>1, TopFacts, EmptySeq DEF WellStacked
<1>3. \A s : s \notin Range(old[l].pending)
  BY <1>1, <1>2 DEF Range
<1>4. CASE l = 1
  <2>1. frames' = [frames EXCEPT ![r] = <<>>]
    BY <1>4 DEF Leave, Depth
  <2>2. WellStacked(<<>>) /\ Named(<<>>, inBranch)
    BY DEF WellStacked, Named
  <2>3. \A s : ~Owes(old, s)
    BY <1>3, <1>4 DEF Owes
  <2> QED  BY <1>1, <2>1, <2>2, <2>3, QuietStep
<1>5. CASE l # 1
  <2> DEFINE m == l - 1
  <2>1. m \in 1..l /\ m + 1 = l /\ m # 0
    <3>1. \A n \in Nat \ {0} : n # 1 => n - 1 \in 1..n /\ (n - 1) + 1 = n /\ n - 1 # 0
      OBVIOUS
    <3> QED  BY <1>2, <1>5, <3>1
  <2>2. PICK f \in Resumed(old[m], Top(r)) :
          frames' = [frames EXCEPT ![r] = Append(SubSeq(old, 1, m - 1), f)]
    BY <2>1 DEF Leave, Depth
  <2>3. f \in Frame /\ f.pending = old[m].pending /\ f.exit = old[m].exit
    BY <1>2, <2>1, ResumedFrame
  <2> DEFINE st == Append(SubSeq(old, 1, m - 1), f)
  <2>4. /\ WellStacked(st) /\ Named(st, inBranch)
        /\ \A s : Owes(old, s) => Owes(st, s) \/ OwesAbove(old, m + 1, s)
    BY <1>2, <2>1, <2>3, CutBack
  <2>5. \A s : ~OwesAbove(old, m + 1, s)
    <3>1. m + 1 = l /\ \A c \in l..l : c = l
      BY <1>2, <2>1
    <3> HIDE DEF m, l
    <3> QED  BY <1>3, <3>1 DEF OwesAbove, l
  <2> HIDE DEF st
  <2>6. frames' = [frames EXCEPT ![r] = st]
    BY <2>2 DEF st
  <2> QED  BY <1>1, <2>4, <2>5, <2>6, QuietStep
<1> QED
  BY <1>4, <1>5

\* Time passes.
LEMMA TickIInv == ASSUME IInv, Tick PROVE IInv'
<1>1. UNCHANGED <<entries, rank, frames, abandoned, inBranch>> /\ now' = now + 1
  BY DEF Tick, Store!Tick
<1>2. StoreTyped' /\ RunsTyped'
  BY <1>1 DEF IInv, StoreTyped, RunsTyped
<1>3. SlotHasOwner' /\ FailuresNeverCached'
  BY <1>1 DEF IInv, SlotHasOwner, FailuresNeverCached, SlotHeld, Refreshes, Refreshing, Depth
<1> QED
  BY <1>2, <1>3 DEF IInv
---------------------------------------------------------------------------
\* An entry as FailuresNeverCached wants it.
Clean(body, k, K) == ~body.err /\ body.status # "5xx" /\ (body.page => k \in K)

\* A store operation on k keeps failures out when what it leaves there is no
\* failure.
LEMMA StaysClean ==
  ASSUME IInv, NEW k, OthersKept(k), inBranch \subseteq inBranch',
         k \in DOMAIN entries' => Clean(entries'[k].body, k, inBranch')
  PROVE  FailuresNeverCached'
<1> SUFFICES ASSUME NEW j \in DOMAIN entries' PROVE Clean(entries'[j].body, j, inBranch')
  BY DEF FailuresNeverCached, Clean
<1>1. CASE j = k
  BY <1>1
<1>2. CASE j # k
  <2>1. j \in DOMAIN entries /\ entries'[j].body = entries[j].body
    BY <1>2 DEF OthersKept
  <2>2. Clean(entries[j].body, j, inBranch)
    BY <2>1 DEF IInv, FailuresNeverCached, Clean
  <2> QED  BY <2>1, <2>2 DEF Clean
<1> QED
  BY <1>1, <1>2

\* What is there already is no failure.
LEMMA WasClean ==
  ASSUME IInv, NEW k \in DOMAIN entries
  PROVE  Clean(entries[k].body, k, inBranch)
BY DEF IInv, FailuresNeverCached, Clean

\* What a step with a store operation on k has to show.
LEMMA StoreStep ==
  ASSUME IInv, NEW r \in Runs, NEW st, NEW k \in Keys, NEW Lost,
         WellStacked(st), Named(st, inBranch'), inBranch \subseteq inBranch',
         frames' = [frames EXCEPT ![r] = st],
         StoreTyped', OthersKept(k),
         k \in DOMAIN entries' => Clean(entries'[k].body, k, inBranch'),
         \A s : Owes(frames[r], s) => Owes(st, s) \/ s \in Lost,
         \A s \in Lost : s.refreshing /\ SlotHeld(s.key)' => s.key \in abandoned',
         \A j \in abandoned \ {k} : SlotHeld(j)' => j \in abandoned',
         SlotHeld(k)' =>
           \/ SlotHeld(k) /\ (k \in abandoned => k \in abandoned')
           \/ \E s : Owes(st, s) /\ s.key = k /\ s.refreshing
  PROVE  IInv'
<1>1. RunsTyped'
  BY FramesKept
<1>2. FailuresNeverCached'
  BY StaysClean
<1>3. SlotHasOwner'
  <2>1. ASSUME NEW j \in Keys, SlotHeld(j)', j # k
        PROVE  SlotHeld(j) /\ (j \in abandoned => j \in abandoned')
    BY <2>1 DEF SlotHeld, OthersKept
  <2>2. \A j \in Keys : SlotHeld(j)' =>
          \/ SlotHeld(j) /\ (j \in abandoned => j \in abandoned')
          \/ \E s : Owes(st, s) /\ s.key = j /\ s.refreshing
    BY <2>1
  <2> QED  BY <2>2, OwnersKept
<1> QED
  BY <1>1, <1>2, <1>3 DEF IInv

\* A cache step that is answered from the cache.
LEMMA HitIInv ==
  ASSUME IInv, NEW r \in Runs, NEW k \in Keys, ~Idle(r), Store!Lookup(k),
         Store!LookupResult(k) \in {"Fresh", "Stale"},
         SetTop(r, ShortCircuited(Top(r), entries[k].body)),
         abandoned' = StillHeld(abandoned), inBranch' = inBranch
  PROVE  IInv'
<1> DEFINE f == ShortCircuited(Top(r), entries[k].body)
           st == [frames[r] EXCEPT ![Len(frames[r])] = f]
           Lost == {}
<1>1. /\ StoreTyped' /\ OthersKept(k) /\ k \in DOMAIN entries
      /\ k \in DOMAIN entries' => entries'[k].body = entries[k].body
      /\ SlotHeld(k)' => SlotHeld(k)
  BY LookupFacts DEF IInv
<1>2. entries[k].body \in Body /\ Clean(entries[k].body, k, inBranch)
  BY <1>1, WasClean DEF IInv, StoreTyped, Store!Entry
<1>3. f \in Frame /\ f.pending = Top(r).pending /\ f.exit = Top(r).exit
  <2> DEFINE b == entries[k].body
             w == WithStatus(Top(r), b.status)
             g == [w EXCEPT !.err = b.err]
  <2>1. Top(r) \in Frame /\ b.status \in Status /\ b.err \in BOOLEAN
    BY <1>2, TopFacts DEF Body
  <2>2. w \in Frame /\ w.pending = Top(r).pending /\ w.exit = Top(r).exit
    BY <2>1, FrameChanges
  <2> HIDE DEF w
  <2>3. g \in Frame /\ g.pending = w.pending /\ g.exit = w.exit
    BY <2>1, <2>2, FrameChanges
  <2>4. f = Ended(g)
    BY DEF ShortCircuited, w
  <2> HIDE DEF f, g
  <2> QED  BY <2>2, <2>3, <2>4, FrameChanges DEF Status
<1>4. frames' = [frames EXCEPT ![r] = st]
  BY TopMoves
<1> HIDE DEF f
<1>5. WellStacked(st) /\ Named(st, inBranch) /\ \A s : Owes(frames[r], s) => Owes(st, s)
  BY <1>3, TopFacts, TopReplaced
<1>6. \A j \in abandoned : SlotHeld(j)' => j \in abandoned'
  BY DEF StillHeld
<1>7. \A s \in Lost : s.refreshing /\ SlotHeld(s.key)' => s.key \in abandoned'
  OBVIOUS
<1> HIDE DEF st, Lost
<1> QED
  BY <1>1, <1>2, <1>4, <1>5, <1>6, <1>7, StoreStep

\* A cache step that is passed, its caller perhaps elected to refresh.
LEMMA PassIInv ==
  ASSUME IInv, NEW r \in Runs, NEW k \in Keys, NEW ttl \in Ttls,
         ~Idle(r), Store!Lookup(k),
         SetTop(r, PassedWith(Top(r), k, ttl, Store!LookupResult(k) = "Refresh")),
         abandoned' = IF Store!LookupResult(k) = "Refresh" THEN StillHeld(abandoned) \ {k}
                      ELSE StillHeld(abandoned),
         inBranch' = IF InErrorBranch(r) THEN inBranch \cup {k} ELSE inBranch
  PROVE  IInv'
<1> DEFINE elected == Store!LookupResult(k) = "Refresh"
           new == [key |-> k, ttl |-> ttl, refreshing |-> elected]
           f == PassedWith(Top(r), k, ttl, elected)
           st == [frames[r] EXCEPT ![Len(frames[r])] = f]
           Lost == {}
<1>1. /\ StoreTyped' /\ OthersKept(k)
      /\ k \in DOMAIN entries' => /\ k \in DOMAIN entries
                                  /\ entries'[k].body = entries[k].body
      /\ SlotHeld(k)' => SlotHeld(k) \/ elected
  BY LookupFacts DEF IInv
<1>2. k \in DOMAIN entries' => Clean(entries'[k].body, k, inBranch')
  BY <1>1, WasClean DEF Clean
<1>3. \A j \in abandoned \ {k} : SlotHeld(j)' => j \in abandoned'
  BY DEF StillHeld
<1>4. ~elected => (k \in abandoned /\ SlotHeld(k)' => k \in abandoned')
  BY DEF StillHeld
<1>5. new \in Save /\ new.key = k /\ (elected => new.refreshing)
  BY DEF Save
<1> HIDE DEF elected, new
<1>6. Top(r) \in Frame /\ Top(r).pending \in Seq(Save)
  BY TopFacts DEF Frame
<1>7. /\ f \in Frame /\ f.exit = Top(r).exit
      /\ f.pending = Append(Top(r).pending, new)
  <2> DEFINE p == Append(Top(r).pending, new)
  <2>1. p \in Seq(Save)
    BY <1>5, <1>6
  <2>2. f = [Top(r) EXCEPT !.pending = p]
    BY DEF PassedWith, new
  <2> HIDE DEF f, p
  <2>3. f \in Frame /\ f.exit = Top(r).exit /\ f.pending = p
    BY <1>6, <2>1, <2>2 DEF Frame
  <2> QED  BY <2>3 DEF p
<1>8. /\ Range(Top(r).pending) \subseteq Range(f.pending) /\ new \in Range(f.pending)
      /\ Range(f.pending) \subseteq Range(Top(r).pending) \cup {new}
  <2>1. ASSUME NEW p \in Seq(Save), NEW x \in Save
        PROVE  /\ Range(p) \subseteq Range(Append(p, x)) /\ x \in Range(Append(p, x))
               /\ Range(Append(p, x)) \subseteq Range(p) \cup {x}
    <3>1. /\ Len(p) \in Nat /\ Len(Append(p, x)) = Len(p) + 1
          /\ Append(p, x)[Len(p) + 1] = x
          /\ \A i \in 1..Len(p) : Append(p, x)[i] = p[i]
      OBVIOUS
    <3> QED  BY <3>1 DEF Range
  <2> QED  BY <1>5, <1>6, <1>7, <2>1
<1>9. frames' = [frames EXCEPT ![r] = st]
  <2>1. SetTop(r, f)
    BY DEF elected
  <2> QED  BY <2>1, TopMoves
<1> HIDE DEF f
<1>10. \A s \in Range(f.pending) \ Range(Top(r).pending) :
         (\E c \in 1..Len(frames[r]) : frames[r][c].exit = "5xx") => s.key \in inBranch'
  BY <1>5, <1>8 DEF InErrorBranch, Depth
<1>11. inBranch \subseteq inBranch'
  OBVIOUS
<1>12. /\ WellStacked(st) /\ Named(st, inBranch')
       /\ \A s : Owes(frames[r], s) => Owes(st, s)
       /\ Owes(st, new)
  BY <1>7, <1>8, <1>10, <1>11, TopFacts, TopReplaced
<1>13. \A s \in Lost : s.refreshing /\ SlotHeld(s.key)' => s.key \in abandoned'
  OBVIOUS
<1>14. SlotHeld(k)' =>
         \/ SlotHeld(k) /\ (k \in abandoned => k \in abandoned')
         \/ \E s : Owes(st, s) /\ s.key = k /\ s.refreshing
  BY <1>1, <1>4, <1>5, <1>12
<1> HIDE DEF st, Lost
<1> QED
  BY <1>1, <1>2, <1>3, <1>9, <1>11, <1>12, <1>13, <1>14, StoreStep

\* The cache step.
LEMMA CacheStepIInv ==
  ASSUME IInv, NEW r \in Runs, NEW k \in Keys, NEW ttl \in Ttls, CacheStep(r, k, ttl)
  PROVE  IInv'
<1>1. ~Idle(r) /\ Store!Lookup(k)
  BY DEF CacheStep, CanStep, AtStep
<1>2. CASE Store!LookupResult(k) \in {"Fresh", "Stale"}
  <2>1. /\ SetTop(r, ShortCircuited(Top(r), entries[k].body))
        /\ abandoned' = StillHeld(abandoned) /\ inBranch' = inBranch
    BY <1>2 DEF CacheStep
  <2> QED  BY <1>1, <1>2, <2>1, HitIInv
<1>3. CASE Store!LookupResult(k) \notin {"Fresh", "Stale"}
  <2>1. /\ SetTop(r, PassedWith(Top(r), k, ttl, Store!LookupResult(k) = "Refresh"))
        /\ abandoned' = IF Store!LookupResult(k) = "Refresh" THEN StillHeld(abandoned) \ {k}
                        ELSE StillHeld(abandoned)
        /\ inBranch' = IF InErrorBranch(r) THEN inBranch \cup {k} ELSE inBranch
    BY <1>3 DEF CacheStep
  <2> QED  BY <1>1, <2>1, PassIInv
<1> QED
  BY <1>2, <1>3

\* An @async cache step takes no slot but one that is counted as abandoned.
LEMMA AsyncCacheStepIInv ==
  ASSUME IInv, NEW k \in Keys, AsyncCacheStep(k)
  PROVE  IInv'
<1>1. /\ Store!Lookup(k) /\ frames' = frames /\ inBranch' = inBranch
      /\ abandoned' = IF Store!LookupResult(k) = "Refresh" THEN StillHeld(abandoned \cup {k})
                      ELSE StillHeld(abandoned)
  BY DEF AsyncCacheStep
<1>2. /\ StoreTyped' /\ OthersKept(k)
      /\ k \in DOMAIN entries' => /\ k \in DOMAIN entries
                                  /\ entries'[k].body = entries[k].body
      /\ SlotHeld(k)' => SlotHeld(k) \/ Store!LookupResult(k) = "Refresh"
  BY <1>1, LookupFacts DEF IInv
<1>3. FailuresNeverCached'
  <2>1. k \in DOMAIN entries' => Clean(entries'[k].body, k, inBranch')
    BY <1>1, <1>2, WasClean
  <2> QED  BY <1>1, <1>2, <2>1, StaysClean
<1>4. RunsTyped'
  BY <1>1 DEF IInv, RunsTyped
<1>5. ASSUME NEW j \in Keys, SlotHeld(j)', j \notin abandoned'
      PROVE  \E q \in Runs : Refreshes(q, j)'
  <2>1. SlotHeld(j) /\ j \notin abandoned
    <3>1. j # k => SlotHeld(j)
      BY <1>2, <1>5 DEF OthersKept, SlotHeld
    <3>2. j \notin abandoned /\ ~(j = k /\ Store!LookupResult(k) = "Refresh")
      BY <1>1, <1>5 DEF StillHeld
    <3> QED  BY <1>2, <1>5, <3>1, <3>2
  <2>2. PICK q \in Runs : Refreshes(q, j)
    BY <2>1 DEF IInv, SlotHasOwner
  <2>3. Refreshes(q, j)'
    BY <1>1, <2>2 DEF Refreshes, Refreshing, Depth
  <2> QED  BY <2>3
<1>6. SlotHasOwner'
  BY <1>5 DEF SlotHasOwner
<1> QED
  BY <1>2, <1>3, <1>4, <1>6 DEF IInv
---------------------------------------------------------------------------
\* run_pending_cache_saves takes one save off the innermost frame.
LEMMA SaveTaken ==
  ASSUME IInv, NEW r \in Runs, ~Idle(r), Top(r).pending # <<>>,
         SetTop(r, [Top(r) EXCEPT !.pending = Tail(@)])
  PROVE  LET f == [Top(r) EXCEPT !.pending = Tail(@)]
             st == [frames[r] EXCEPT ![Len(frames[r])] = f]
         IN /\ Top(r) \in Frame
            /\ Head(Top(r).pending) \in Save
            /\ Head(Top(r).pending) \in Range(Top(r).pending)
            /\ WellStacked(st) /\ Named(st, inBranch)
            /\ frames' = [frames EXCEPT ![r] = st]
            /\ \A s : Owes(frames[r], s) => Owes(st, s) \/ s \in {Head(Top(r).pending)}
<1> DEFINE p == Top(r).pending
           f == [Top(r) EXCEPT !.pending = Tail(p)]
           st == [frames[r] EXCEPT ![Len(frames[r])] = f]
<1>1. /\ Top(r) \in Frame /\ p \in Seq(Save) /\ p # <<>>
      /\ WellStacked(frames[r]) /\ frames[r] # <<>> /\ Named(frames[r], inBranch)
      /\ Top(r) = frames[r][Len(frames[r])]
  BY TopFacts DEF Frame
<1>2. Head(p) \in Save /\ Tail(p) \in Seq(Save)
  BY <1>1
<1>3. f \in Frame /\ f.pending = Tail(p) /\ f.exit = Top(r).exit
  BY <1>1, <1>2 DEF Frame
<1>4. \A s \in Range(p) \ Range(Tail(p)) : s = Head(p)
  <2> SUFFICES ASSUME NEW i \in 1..Len(p), i # 1 PROVE p[i] \in Range(Tail(p))
    <3>1. DOMAIN p = 1..Len(p) /\ Head(p) = p[1]
      BY <1>1
    <3> QED  BY <3>1 DEF Range
  <2>1. Len(p) \in Nat /\ Len(Tail(p)) = Len(p) - 1 /\ DOMAIN Tail(p) = 1..(Len(p) - 1)
    BY <1>1, <1>2, HeadTailProperties
  <2>2. i - 1 \in 1..(Len(p) - 1) /\ (i - 1) + 1 = i
    BY <2>1
  <2>3. Tail(p)[i - 1] = p[i]
    BY <1>1, <2>1, <2>2, HeadTailProperties
  <2> QED  BY <2>1, <2>2, <2>3 DEF Range
<1>5. Range(Tail(p)) \subseteq Range(p) /\ Head(p) \in Range(p)
  <2>1. /\ Len(p) \in Nat \ {0} /\ DOMAIN p = 1..Len(p) /\ Head(p) = p[1]
        /\ DOMAIN Tail(p) = 1..(Len(p) - 1)
        /\ \A i \in 1..(Len(p) - 1) : Tail(p)[i] = p[i + 1]
    BY <1>1, <1>2, HeadTailProperties, EmptySeq
  <2>2. 1 \in DOMAIN p /\ \A i \in 1..(Len(p) - 1) : i + 1 \in DOMAIN p
    BY <2>1
  <2> QED  BY <2>1, <2>2 DEF Range
<1>6. frames' = [frames EXCEPT ![r] = st]
  BY TopMoves
<1> HIDE DEF f, p
<1>7. /\ WellStacked(st) /\ Named(st, inBranch)
      /\ \A s : Owes(frames[r], s) =>
           Owes(st, s) \/ s \in Range(frames[r][Len(frames[r])].pending) \ Range(f.pending)
  <2>1. \A s \in Range(f.pending) : s \in Range(frames[r][Len(frames[r])].pending)
    BY <1>1, <1>3, <1>5 DEF p
  <2> QED  BY <1>1, <1>3, <2>1, TopReplaced
<1>8. \A s : Owes(frames[r], s) => Owes(st, s) \/ s \in {Head(p)}
  <2>1. \A s : Owes(frames[r], s) => Owes(st, s) \/ s \in Range(p) \ Range(Tail(p))
    BY <1>1, <1>3, <1>7 DEF p
  <2> QED  BY <1>4, <2>1
<1> QED
  BY <1>1, <1>2, <1>5, <1>6, <1>7, <1>8 DEF f, p

\* A save that is not done, because the pipeline failed: an elected refresher
\* gives its slot back.
LEMMA ReleasedIInv ==
  ASSUME IInv, NEW r \in Runs, NEW st, WellStacked(st), Named(st, inBranch), NEW s \in Save,
         frames' = [frames EXCEPT ![r] = st], inBranch' = inBranch,
         \A x : Owes(frames[r], x) => Owes(st, x) \/ x \in {s},
         Released(r, s)
  PROVE  IInv'
<1>1. s.key \in Keys /\ s.refreshing \in BOOLEAN
  BY DEF Save
<1>2. \A j \in abandoned : SlotHeld(j)' => j \in abandoned'
  BY DEF Released, StillHeld
<1>3. CASE s.refreshing
  <2>1. Store!ClearRefresh(s.key)
    BY <1>3 DEF Released
  <2>2. /\ StoreTyped' /\ OthersKept(s.key) /\ ~SlotHeld(s.key)'
        /\ s.key \in DOMAIN entries' => /\ s.key \in DOMAIN entries
                                        /\ entries'[s.key].body = entries[s.key].body
    BY <2>1, ClearRefreshFacts DEF IInv
  <2>3. s.key \in DOMAIN entries' => Clean(entries'[s.key].body, s.key, inBranch')
    BY <2>2, WasClean
  <2>4. \A x \in {s} : x.refreshing /\ SlotHeld(x.key)' => x.key \in abandoned'
    BY <2>2
  <2> QED  BY <1>1, <1>2, <2>2, <2>3, <2>4, StoreStep
<1>4. CASE ~s.refreshing
  <2>1. UNCHANGED storeVars
    BY <1>4 DEF Released
  <2>2. /\ StoreTyped' /\ OthersKept(s.key)
        /\ SlotHeld(s.key)' => SlotHeld(s.key)
        /\ entries' = entries
    BY <2>1 DEF storeVars, IInv, StoreTyped, OthersKept, SlotHeld
  <2>3. s.key \in DOMAIN entries' => Clean(entries'[s.key].body, s.key, inBranch')
    BY <2>2, WasClean
  <2>4. \A x \in {s} : x.refreshing /\ SlotHeld(x.key)' => x.key \in abandoned'
    BY <1>4
  <2>5. SlotHeld(s.key)' =>
          SlotHeld(s.key) /\ (s.key \in abandoned => s.key \in abandoned')
    BY <1>2, <2>2
  <2> QED  BY <1>1, <1>2, <2>2, <2>3, <2>4, <2>5, StoreStep
<1> QED
  BY <1>1, <1>3, <1>4

\* What a run that may save would save.
LEMMA ResponseClean ==
  ASSUME IInv, NEW r \in Runs, ~Idle(r), ~Uncacheable(Top(r)),
         NEW s \in Range(Top(r).pending)
  PROVE  Response(r) \in Body /\ Clean(Response(r), s.key, inBranch)
<1>1. Top(r) \in Frame /\ Top(r) = frames[r][Len(frames[r])] /\ Named(frames[r], inBranch)
      /\ Len(frames[r]) \in Nat \ {0}
  BY TopFacts, EmptySeq DEF WellStacked
<1>2. InErrorBranch(r) => s.key \in inBranch
  BY <1>1 DEF Named, InErrorBranch, Depth
<1>3. InErrorBranch(r) \in BOOLEAN
  BY DEF InErrorBranch
<1>4. /\ Response(r).err = Top(r).err /\ Response(r).status = Top(r).status
      /\ Response(r).page = InErrorBranch(r)
      /\ (Top(r).err \in BOOLEAN /\ Top(r).status \in Status => Response(r) \in Body)
  BY <1>3 DEF Response, Body
<1>5. Top(r).err \in BOOLEAN /\ Top(r).status \in Status
  BY <1>1 DEF Frame
<1> QED
  BY <1>2, <1>4, <1>5 DEF Uncacheable, Clean

\* A save that is done, or refused by put_response.
LEMMA SavedIInv ==
  ASSUME IInv, NEW r \in Runs, NEW st, WellStacked(st), Named(st, inBranch), NEW s \in Save,
         frames' = [frames EXCEPT ![r] = st], inBranch' = inBranch,
         \A x : Owes(frames[r], x) => Owes(st, x) \/ x \in {s},
         Response(r) \in Body, Clean(Response(r), s.key, inBranch),
         NEW size \in Sizes, Saved(r, s, size)
  PROVE  IInv'
<1> DEFINE body == Response(r)
           rejected == Store!Rejected(size, s.ttl)
<1>1. s.key \in Keys /\ s.ttl \in Ttls /\ s.refreshing \in BOOLEAN
  BY DEF Save
<1>2. body \in Body /\ Clean(body, s.key, inBranch)
  OBVIOUS
<1>3. Store!PutResponse(s.key, body, size, s.ttl)
  BY DEF Saved
<1>4. abandoned' = IF s.refreshing /\ rejected THEN StillHeld(abandoned \cup {s.key})
                   ELSE StillHeld(abandoned)
  BY DEF Saved
<1> HIDE DEF body, rejected
<1>5. /\ StoreTyped' /\ OthersKept(s.key)
      /\ s.key \in DOMAIN entries' => \/ entries'[s.key].body = body
                                      \/ /\ s.key \in DOMAIN entries
                                         /\ entries'[s.key].body = entries[s.key].body
      /\ SlotHeld(s.key)' => rejected /\ SlotHeld(s.key)
  BY <1>1, <1>2, <1>3, PutResponseFacts DEF IInv, rejected
<1>6. s.key \in DOMAIN entries' => Clean(entries'[s.key].body, s.key, inBranch')
  BY <1>2, <1>5, WasClean
<1>7. \A j \in abandoned : SlotHeld(j)' => j \in abandoned'
  BY <1>4 DEF StillHeld
<1>8. \A x \in {s} : x.refreshing /\ SlotHeld(x.key)' => x.key \in abandoned'
  BY <1>4, <1>5 DEF StillHeld
<1>9. SlotHeld(s.key)' =>
        SlotHeld(s.key) /\ (s.key \in abandoned => s.key \in abandoned')
  BY <1>5, <1>7
<1> QED
  BY <1>1, <1>5, <1>6, <1>7, <1>8, <1>9, StoreStep

\* One pending save.
LEMMA SaveNextIInv == ASSUME IInv, NEW r \in Runs, SaveNext(r) PROVE IInv'
<1> DEFINE s == Head(Top(r).pending)
           f == [Top(r) EXCEPT !.pending = Tail(@)]
           st == [frames[r] EXCEPT ![Len(frames[r])] = f]
<1>1. /\ ~Idle(r) /\ Top(r).pending # <<>> /\ inBranch' = inBranch
      /\ SetTop(r, [Top(r) EXCEPT !.pending = Tail(@)])
  BY DEF SaveNext
<1>2. /\ s \in Save /\ s \in Range(Top(r).pending) /\ WellStacked(st) /\ Named(st, inBranch)
      /\ frames' = [frames EXCEPT ![r] = st]
      /\ \A x : Owes(frames[r], x) => Owes(st, x) \/ x \in {s}
  BY <1>1, SaveTaken
<1>3. \/ Released(r, s)
      \/ ~Uncacheable(Top(r)) /\ \E size \in Sizes : Saved(r, s, size)
  BY DEF SaveNext
<1>4. ~Uncacheable(Top(r)) => Response(r) \in Body /\ Clean(Response(r), s.key, inBranch)
  BY <1>1, <1>2, ResponseClean
<1> HIDE DEF s, st
<1> QED
  BY <1>1, <1>2, <1>3, <1>4, ReleasedIInv, SavedIInv
---------------------------------------------------------------------------
\* Frames dropped with what they owe.
LEMMA DroppedIInv ==
  ASSUME IInv, NEW r \in Runs, NEW st, NEW d, WellStacked(st), Named(st, inBranch),
         frames' = [frames EXCEPT ![r] = st],
         \A s : Owes(frames[r], s) => Owes(st, s) \/ OwesAbove(frames[r], d, s),
         Dropped(r, d)
  PROVE  IInv'
<1>1. /\ UNCHANGED <<storeVars, inBranch>>
      /\ abandoned' = StillHeld(abandoned \cup Refreshing(r, d))
  BY DEF Dropped
<1>2. StoreTyped' /\ FailuresNeverCached' /\ \A k : SlotHeld(k)' = SlotHeld(k)
  BY <1>1 DEF IInv, StoreTyped, FailuresNeverCached, SlotHeld, storeVars
<1>3. RunsTyped'
  BY <1>1, FramesKept
<1>4. ASSUME NEW k \in Keys, SlotHeld(k)', k \notin abandoned'
      PROVE  \E q \in Runs : \E s : Owes(frames'[q], s) /\ s.key = k /\ s.refreshing
  <2>1. SlotHeld(k) /\ k \notin abandoned /\ k \notin Refreshing(r, d)
    BY <1>1, <1>2, <1>4 DEF StillHeld
  <2>2. PICK q \in Runs : \E s : Owes(frames[q], s) /\ s.key = k /\ s.refreshing
    BY <2>1, OwnerOwes DEF IInv
  <2>3. PICK s : Owes(frames[q], s) /\ s.key = k /\ s.refreshing
    BY <2>2
  <2>4. CASE q # r
    <3>1. frames'[q] = frames[q]
      BY <2>4 DEF IInv, RunsTyped
    <3> QED  BY <2>3, <3>1
  <2>5. CASE q = r
    <3>1. ~OwesAbove(frames[r], d, s)
      BY <2>1, <2>3, RefreshingIsOwes
    <3>2. frames'[r] = st
      BY DEF IInv, RunsTyped
    <3> QED  BY <2>3, <2>5, <3>1, <3>2
  <2> QED  BY <2>4, <2>5
<1>5. SlotHasOwner'
  BY <1>4, RefreshesIsOwes DEF SlotHasOwner, Refreshes, Refreshing, Depth, Owes
<1> QED
  BY <1>2, <1>3, <1>5 DEF IInv

\* All of a run, by whatever ends it.
LEMMA GoneIInv ==
  ASSUME IInv, NEW r \in Runs, frames' = [frames EXCEPT ![r] = <<>>], Dropped(r, 1)
  PROVE  IInv'
<1>1. WellStacked(<<>>) /\ Named(<<>>, inBranch)
  BY DEF WellStacked, Named
<1>2. \A s : Owes(frames[r], s) => OwesAbove(frames[r], 1, s)
  BY DEF Owes, OwesAbove
<1> QED
  BY <1>1, <1>2, DroppedIInv

\* The run is dropped.
LEMMA AbortIInv == ASSUME IInv, NEW r \in Runs, Abort(r) PROVE IInv'
BY GoneIInv DEF Abort

\* A failure unwinds to the innermost `pipeline' step.
LEMMA UnwindIInv == ASSUME IInv, NEW r \in Runs, Unwind(r) PROVE IInv'
<1> DEFINE old == frames[r]
<1>1. ~Idle(r)
  BY DEF Unwind, CanStep, AtStep
<1>2. CASE frames' = [frames EXCEPT ![r] = <<>>] /\ Dropped(r, 1)
  BY <1>2, GoneIInv
<1>3. ASSUME NEW d \in 2..Len(old), NEW same \in BOOLEAN, Dropped(r, d),
             frames' = [frames EXCEPT
               ![r] = Append(SubSeq(@, 1, d - 2), Facing(@[d - 1], TRUE, same))]
      PROVE  IInv'
  <2> DEFINE m == d - 1
             f == Facing(old[m], TRUE, same)
             st == Append(SubSeq(old, 1, m - 1), f)
  <2>1. WellStacked(old) /\ Named(old, inBranch) /\ old \in Seq(Frame) /\ Len(old) \in Nat
    BY <1>1, TopFacts DEF WellStacked
  <2>2. m \in 1..Len(old) /\ m + 1 = d /\ m - 1 = d - 2
    BY <2>1
  <2>3. frames' = [frames EXCEPT ![r] = st]
    BY <1>3, <2>2
  <2>4. f \in Frame /\ f.pending = old[m].pending /\ f.exit = old[m].exit
    <3>1. old[m] \in Frame /\ TRUE \in BOOLEAN /\ "ok" \in Status
      BY <2>1, <2>2 DEF Status
    <3> HIDE DEF m
    <3> QED  BY <3>1, FrameChanges
  <2> HIDE DEF f
  <2>5. /\ WellStacked(st) /\ Named(st, inBranch)
        /\ \A s : Owes(old, s) => Owes(st, s) \/ OwesAbove(old, m + 1, s)
    BY <2>1, <2>2, <2>4, CutBack
  <2>6. \A s : Owes(old, s) => Owes(st, s) \/ OwesAbove(old, d, s)
    BY <2>2, <2>5
  <2> HIDE DEF st
  <2> QED  BY <1>3, <2>3, <2>5, <2>6, DroppedIInv
<1> QED
  BY <1>2, <1>3 DEF Unwind, Depth

---------------------------------------------------------------------------
\* No step breaks the invariant.
LEMMA NextIInv == IInv /\ [Next]_vars => IInv'
<1> SUFFICES ASSUME IInv, [Next]_vars PROVE IInv'
  OBVIOUS
<1>1. ASSUME NEW r \in Runs, Start(r) PROVE IInv'
  BY <1>1, StartIInv
<1>2. ASSUME NEW r \in Runs, Work(r) PROVE IInv'
  BY <1>2, WorkIInv
<1>3. ASSUME NEW r \in Runs, Enter(r) \/ Result(r) PROVE IInv'
  BY <1>3, EnterIInv, ResultIInv
<1>4. ASSUME NEW r \in Runs, Return(r) \/ Leave(r) PROVE IInv'
  BY <1>4, ReturnIInv, LeaveIInv
<1>5. ASSUME NEW r \in Runs, NEW k \in Keys, NEW t \in Ttls, CacheStep(r, k, t) PROVE IInv'
  BY <1>5, CacheStepIInv
<1>6. ASSUME NEW k \in Keys, AsyncCacheStep(k) PROVE IInv'
  BY <1>6, AsyncCacheStepIInv
<1>7. ASSUME NEW r \in Runs, SaveNext(r) PROVE IInv'
  BY <1>7, SaveNextIInv
<1>8. ASSUME NEW r \in Runs, Abort(r) \/ Unwind(r) PROVE IInv'
  BY <1>8, AbortIInv, UnwindIInv
<1>9. CASE Tick
  BY <1>9, TickIInv
<1>10. CASE UNCHANGED vars
  BY <1>10 DEF vars, IInv, StoreTyped, RunsTyped, SlotHasOwner, SlotHeld, Refreshes,
               Refreshing, Depth, FailuresNeverCached
<1> QED
  BY <1>1, <1>2, <1>3, <1>4, <1>5, <1>6, <1>7, <1>8, <1>9, <1>10 DEF Next

\* The stacks of frames are well formed, the entries well typed, every held
\* slot has its owner and nothing cached is a failure, whatever the runs do.
THEOREM Invariance == Spec => []IInv
BY InitIInv, NextIInv, PTL DEF Spec

\* A refresh slot is never held for nobody (run_pending_cache_saves releases
\* or writes, however the pipeline and those it was run for end), unless its
\* refresher was dropped with its saves undone, was an @async step
\* (spawn_async_step), or had its response refused.
THEOREM SlotsAreOwned == Spec => []SlotHasOwner
<1>1. IInv => SlotHasOwner
  BY DEF IInv
<1> QED
  BY Invariance, <1>1, PTL

\* Neither a typed error nor a 5xx answer is ever in the cache, from whichever
\* nested pipeline or earlier cache step it comes (run_pending_cache_saves),
\* save under a key whose cache step stood inside a result branch that answers
\* 5xx (handle_result_step).
THEOREM FailuresStayOut == Spec => []FailuresNeverCached
<1>1. IInv => FailuresNeverCached
  BY DEF IInv
<1> QED
  BY Invariance, <1>1, PTL

---------------------------------------------------------------------------
\* What the runs do to the store in one step, the store allows.
LEMMA StepOfStore == IInv /\ [Next]_vars => [Store!Next]_(Store!vars)
<1> SUFFICES ASSUME IInv, [Next]_vars PROVE Store!Next \/ UNCHANGED Store!vars
  OBVIOUS
<1>1. ASSUME UNCHANGED storeVars PROVE UNCHANGED Store!vars
  BY <1>1 DEF storeVars, Store!vars
<1>2. ASSUME NEW r \in Runs, 
             \/ Start(r) \/ Work(r) \/ Enter(r) \/ Result(r) \/ Return(r) \/ Leave(r)
             \/ Abort(r) \/ Unwind(r)
      PROVE  UNCHANGED Store!vars
  BY <1>1, <1>2 DEF Start, Work, Enter, Result, Return, Leave, Untouched, Abort, Unwind, Dropped
<1>3. ASSUME NEW k \in Keys,
             AsyncCacheStep(k) \/ \E r \in Runs, t \in Ttls : CacheStep(r, k, t)
      PROVE  Store!Next
  BY <1>3 DEF CacheStep, AsyncCacheStep, Store!Next
<1>4. ASSUME NEW r \in Runs, SaveNext(r)
      PROVE  Store!Next \/ UNCHANGED Store!vars
  <2> DEFINE s == Head(Top(r).pending)
             body == Response(r)
  <2>1. /\ ~Idle(r) /\ Top(r).pending # <<>>
        /\ SetTop(r, [Top(r) EXCEPT !.pending = Tail(@)])
    BY <1>4 DEF SaveNext
  <2>2. Top(r) \in Frame /\ s \in Save
    BY <2>1, SaveTaken
  <2>3. s.key \in Keys /\ s.ttl \in Ttls /\ body \in Body
    BY <2>2 DEF Save, Frame, Body, Response, InErrorBranch
  <2>4. \/ Released(r, s)
        \/ \E size \in Sizes : Saved(r, s, size)
    BY <1>4 DEF SaveNext
  <2>5. CASE Released(r, s)
    <3>1. Store!ClearRefresh(s.key) \/ UNCHANGED storeVars
      BY <2>5 DEF Released
    <3> QED  BY <1>1, <2>3, <3>1 DEF Store!Next
  <2>6. ASSUME NEW size \in Sizes, Saved(r, s, size) PROVE Store!Next
    <3>1. Store!PutResponse(s.key, body, size, s.ttl)
      BY <2>6 DEF Saved
    <3> HIDE DEF s, body
    <3> QED  BY <2>3, <3>1 DEF Store!Next
  <2> QED  BY <2>4, <2>5, <2>6
<1>5. CASE Tick
  BY <1>5 DEF Tick, Store!Next
<1>6. CASE UNCHANGED vars
  BY <1>6 DEF vars, Store!vars
<1> QED
  BY <1>2, <1>3, <1>4, <1>5, <1>6 DEF Next

\* The runs implement the store's own specification: each cache step and each
\* pending save is one operation of CacheStore on a key, a body and a size of
\* its sets, so every theorem of CacheStoreProofs holds below the executor.
THEOREM RunsUseTheStore == Spec => Store!Spec
<1>1. Init => Store!Init
  BY DEF Init
<1> QED
  BY Invariance, StepOfStore, <1>1, PTL DEF Spec, Store!Spec
===========================================================================
