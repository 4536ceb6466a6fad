------------------------- MODULE EntryStore_proofs -------------------------
(***************************************************************************)
(* EntryStore, for every catalogue of entries, every set of registers and  *)
(* listeners, and every depth of nesting: nothing is cached that is stale, *)
(* the list and the map hold the same entries, events are honest, what a   *)
(* listener has read is still so, and the balances of a register are the   *)
(* sums of its postings.                                                   *)
(***************************************************************************)
EXTENDS EntryStore, FiniteSetTheorems, WellFoundedInduction, NaturalsInduction, TLAPS

(* The caches *)

IndInv ==
    /\ DOMAIN registerCache = Key
    /\ CachesCoherent

\* A mutation leaves nothing cached.
LEMMA EmitClears ==
    ASSUME NEW ids, NEW sources, EmitMutation(ids, sources)
    PROVE  IndInv'
  BY DEF EmitMutation, NoCache, IndInv, CachesCoherent

\* Filling one register's index with CachedIndex keeps the cache coherent.
LEMMA FillCoherent ==
    ASSUME IndInv, NEW k \in Key, entries' = entries, searchText' = searchText,
           registerCache' = [registerCache EXCEPT ![k] = CachedIndex(k)]
    PROVE  IndInv'
  <1>1. CachedIndex(k) = Index(entries, k)
    BY DEF CachedIndex, IndInv, CachesCoherent
  <1>2. DOMAIN registerCache' = Key
    BY DEF IndInv
  <1>3. ASSUME NEW j \in Key, registerCache'[j] # None
        PROVE  registerCache'[j] = Index(entries, j)
    BY <1>1, <1>3 DEF IndInv, CachesCoherent
  <1>4. searchText # None => searchText = Corpus(entries)
    BY DEF IndInv, CachesCoherent
  <1> QED
    BY <1>2, <1>3, <1>4 DEF IndInv, CachesCoherent

LEMMA StepPreserves == IndInv /\ [Next]_vars => IndInv'
  <1> SUFFICES ASSUME IndInv, [Next]_vars PROVE IndInv'
    OBVIOUS
  <1>1. ASSUME NEW k \in Key, ReadRegister(k) PROVE IndInv'
    BY <1>1, FillCoherent DEF ReadRegister
  <1>2. ASSUME NEW l \in Listener, NEW k \in Key, ReadIntoView(l, k) PROVE IndInv'
    BY <1>2, FillCoherent DEF ReadIntoView
  <1>3. ASSUME Search PROVE IndInv'
    BY <1>3 DEF Search, IndInv, CachesCoherent
  <1>4. ASSUME NEW batch \in Batch, AddEntries(batch) PROVE IndInv'
    BY <1>4, EmitClears DEF AddEntries
  <1>5. ASSUME NEW ids \in IdSet, RemoveEntries(ids) PROVE IndInv'
    BY <1>5, EmitClears DEF RemoveEntries
  <1>6. ASSUME NEW batch \in Batch, ReplaceEntries(batch) PROVE IndInv'
    BY <1>6, EmitClears DEF ReplaceEntries
  <1>7. ASSUME UNCHANGED <<entries, registerCache, searchText>> PROVE IndInv'
    BY <1>7 DEF IndInv, CachesCoherent
  <1> QED
    BY <1>1, <1>2, <1>3, <1>4, <1>5, <1>6, <1>7
       DEF Next, Deliver, Return, ListenerThrows, Subscribe, Unsubscribe, vars

\* No register index and no search corpus ever outlives the list it was built
\* from, even when listeners read and mutate during the events.
THEOREM CachesNeverStale == Spec => []CachesCoherent
  <1>1. Init => IndInv
    BY DEF Init, NoCache, IndInv, CachesCoherent
  <1>2. IndInv => CachesCoherent
    BY DEF IndInv
  <1> QED  BY <1>1, <1>2, StepPreserves, PTL DEF Spec

-----------------------------------------------------------------------------
(* Loops over a batch.  FoldLeft is a recursive function, so that what it   *)
(* makes of a batch is what is left after its turns, and what each turn     *)
(* keeps it keeps.                                                          *)

LEMMA LeastNat ==
    ASSUME NEW T \in SUBSET Nat, T # {}
    PROVE  \E n \in T : \A m \in T : n <= m
  <1>1. IsWellFoundedOn(OpToRel(<, Nat), Nat)
    BY NatLessThanWellFounded
  <1>2. PICK n \in T : \A m \in T : ~(<<m, n>> \in OpToRel(<, Nat))
    BY <1>1, WFMin
  <1>3. ASSUME NEW m \in T, ~(n <= m) PROVE FALSE
    <2>1. m \in Nat /\ n \in Nat /\ m < n
      BY <1>3
    <2> QED  BY <1>2, <1>3, <2>1 DEF OpToRel
  <1> QED  BY <1>3

\* Induction as far as a bound, on the set of the numbers for which it holds.
LEMMA Counting ==
    ASSUME NEW L \in Nat, NEW T, 0 \in T, \A n \in 1 .. L : n - 1 \in T => n \in T
    PROVE  \A n \in 0 .. L : n \in T
  <1> SUFFICES ASSUME NEW m \in 0 .. L, m \notin T PROVE FALSE
    OBVIOUS
  <1> DEFINE U == {n \in Nat : n <= L /\ n \notin T}
  <1>1. m \in U
    OBVIOUS
  <1>2. PICK n \in U : \A k \in U : n <= k
    BY <1>1, LeastNat
  <1>3. n \in 1 .. L /\ n - 1 \in Nat /\ n - 1 <= L /\ ~(n <= n - 1)
    <2>1. n # 0 /\ n \in Nat /\ n <= L
      BY <1>2
    <2> QED  BY <2>1
  <1>4. n - 1 \in T
    BY <1>2, <1>3
  <1> QED  BY <1>2, <1>3, <1>4

\* One turn of one of the loops: of addEntries, of replaceEntries, of the filter
\* of removeEntries, of a merge, of the two loops of an index, of an unsubscription.
Turn(loop, acc, e) ==
    CASE loop.kind = "add" -> TakeOne(acc, e)
      [] loop.kind = "replace" -> ReplaceOne(acc, e)
      [] loop.kind = "remove" -> KeepOne(acc, e, loop.gone)
      [] loop.kind = "merge" -> MergeOne(acc, loop.sorted, loop.added, e)
      [] loop.kind = "posting" ->
           IndexPosting(acc, loop.list, loop.e, e, loop.key.path, loop.key.deep)
      [] loop.kind = "entry" -> IndexEntry(acc, loop.list, e, loop.key.path, loop.key.deep)
      [] loop.kind = "skip" -> SkipOne(acc, e, loop.l)

Adding == [kind |-> "add"]
Replacing == [kind |-> "replace"]
Removing(gone) == [kind |-> "remove", gone |-> gone]
Merging(sorted, added) == [kind |-> "merge", sorted |-> sorted, added |-> added]
Postings(list, e, k) == [kind |-> "posting", list |-> list, e |-> e, key |-> k]
Indexing(list, k) == [kind |-> "entry", list |-> list, key |-> k]
Skipping(l) == [kind |-> "skip", l |-> l]

\* What FoldLeft makes of a batch: of each set of positions, the turns made in
\* ascending order.
IsFold(loop, base, batch, positions, g) ==
    g = [u \in SUBSET positions |->
           IF u = {} THEN base ELSE Turn(loop, g[u \ {Max(u)}], batch[Max(u)])]

LEMMA MaxOfPrefix ==
    ASSUME NEW n \in Nat, NEW u \in SUBSET (1 .. n + 1), n + 1 \in u
    PROVE  Max(u) = n + 1 /\ u \ {Max(u)} \in SUBSET (1 .. n)
  <1>1. \A y \in u : n + 1 >= y
    OBVIOUS
  <1>2. \A x \in u : (\A y \in u : x >= y) => x = n + 1
    OBVIOUS
  <1>3. Max(u) = n + 1
    BY <1>1, <1>2 DEF Max
  <1> QED  BY <1>3

LEMMA MaxInside ==
    ASSUME NEW n \in Nat, NEW u \in SUBSET (1 .. n), u # {}
    PROVE  Max(u) \in u /\ \A y \in u : Max(u) >= y
  <1> DEFINE T == {m \in Nat : \A y \in u : m >= y}
  <1>1. n \in T
    OBVIOUS
  <1>2. PICK m \in T : \A k \in T : m <= k
    BY <1>1, LeastNat
  <1>3. m \in u
    <2>1. SUFFICES ASSUME m \notin u PROVE FALSE
      OBVIOUS
    <2>2. m \in Nat /\ \A y \in u : m >= y /\ y # m /\ y \in 1 .. n
      BY <1>2, <2>1
    <2>3. m # 0
      <3>1. PICK y \in u : m >= y /\ y \in 1 .. n
        BY <2>2
      <3> QED  BY <2>2, <3>1
    <2>5. ASSUME NEW y \in u PROVE m - 1 >= y
      <3>1. y \in Int /\ m >= y /\ y # m
        BY <2>2
      <3> QED  BY <2>2, <3>1
    <2>4. m - 1 \in T
      BY <2>2, <2>3, <2>5
    <2> QED  BY <1>2, <2>2, <2>4
  <1>4. \A y \in u : m >= y
    BY <1>2
  <1> QED  BY <1>3, <1>4 DEF Max

\* The fold exists, for every prefix of the batch and so for the whole.
LEMMA PrefixFold ==
    ASSUME NEW loop, NEW base, NEW batch, NEW n \in Nat
    PROVE  \E g : IsFold(loop, base, batch, 1 .. n, g)
  <1> USE DEF IsFold
  <1> DEFINE Fits(m, g) == IsFold(loop, base, batch, 1 .. m, g)
             T == {m \in Nat : ~\E g : Fits(m, g)}
  <1>1. \E g : Fits(0, g)
    <2>1. Fits(0, [u \in SUBSET (1 .. 0) |-> base])
      OBVIOUS
    <2> QED  BY <2>1
  <1>2. ASSUME NEW m \in Nat, NEW g, Fits(m, g)
        PROVE  \E h : Fits(m + 1, h)
    <2> DEFINE h == [u \in SUBSET (1 .. m + 1) |->
                       IF m + 1 \in u THEN Turn(loop, g[u \ {m + 1}], batch[m + 1])
                       ELSE g[u]]
    <2>1. ASSUME NEW u \in SUBSET (1 .. m)
          PROVE  h[u] = g[u]
      OBVIOUS
    <2>2. ASSUME NEW u \in SUBSET (1 .. m + 1), m + 1 \in u
          PROVE  h[u] = Turn(loop, h[u \ {Max(u)}], batch[Max(u)])
      BY <2>1, <2>2, MaxOfPrefix
    <2>3. ASSUME NEW u \in SUBSET (1 .. m + 1), m + 1 \notin u, u # {}
          PROVE  h[u] = Turn(loop, h[u \ {Max(u)}], batch[Max(u)])
      <3>1. u \in SUBSET (1 .. m)
        BY <2>3
      <3>2. Max(u) \in u /\ u \ {Max(u)} \in SUBSET (1 .. m)
        BY <3>1, <2>3, MaxInside
      <3>3. g[u] = Turn(loop, g[u \ {Max(u)}], batch[Max(u)])
        BY <3>1, <2>3, <1>2
      <3> QED  BY <3>1, <3>2, <3>3, <2>1
    <2>4. h[{}] = base
      BY <1>2, <2>1
    <2>5. Fits(m + 1, h)
      <3> DEFINE w == [u \in SUBSET (1 .. m + 1) |->
                        IF u = {} THEN base
                        ELSE Turn(loop, h[u \ {Max(u)}], batch[Max(u)])]
      <3>1. ASSUME NEW u \in SUBSET (1 .. m + 1) PROVE h[u] = w[u]
        BY <2>2, <2>3, <2>4
      <3>2. h = w
        BY <3>1
      <3> QED  BY <3>2
    <2> HIDE DEF h
    <2> QED  BY <2>5
  <1>3. T = {}
    <2>1. SUFFICES ASSUME T # {} PROVE FALSE
      OBVIOUS
    <2>2. PICK m \in T : \A k \in T : m <= k
      BY <2>1, LeastNat
    <2>3. m # 0
      BY <2>2, <1>1
    <2>4. m - 1 \in Nat /\ m - 1 \notin T
      <3>1. m \in Nat /\ m - 1 \in Nat /\ ~(m <= m - 1)
        BY <2>3
      <3> QED  BY <2>2, <3>1
    <2>5. PICK g : Fits(m - 1, g)
      BY <2>4
    <2> HIDE DEF Fits
    <2>6. \E h : Fits(m, h)
      BY <1>2, <2>4, <2>5, m - 1 + 1 = m
    <2> QED  BY <2>2, <2>6
  <1> QED  BY <1>3

\* Either loop, as FoldLeft defines it.
Looped(loop, base, batch) ==
    LET iter[u \in SUBSET DOMAIN batch] ==
          IF u = {} THEN base ELSE Turn(loop, iter[u \ {Max(u)}], batch[Max(u)])
    IN  iter[DOMAIN batch]

LEMMA TakeIsLoop ==
    ASSUME NEW byId, NEW batch, DOMAIN batch = 1 .. Len(batch), Len(batch) \in Nat
    PROVE  TakeNew(byId, batch) = Looped(Adding, [byId |-> byId, added |-> <<>>], batch)
  BY DEF TakeNew, Looped, Turn, Adding, FoldLeft, MapThenFoldSet

\* What the accumulator is after each element of the batch.
Turns(loop, base, batch, L, after) ==
    /\ after[0] = base
    /\ \A n \in 1 .. L : after[n] = Turn(loop, after[n - 1], batch[n])
    /\ Looped(loop, base, batch) = after[L]

\* What the batch has come to after each of its elements.
LEMMA LoopSteps ==
    ASSUME NEW loop, NEW base, NEW batch, NEW L \in Nat, DOMAIN batch = 1 .. L
    PROVE  \E after : Turns(loop, base, batch, L, after)
  <1> DEFINE iter == CHOOSE g : IsFold(loop, base, batch, DOMAIN batch, g)
             after == [n \in 0 .. L |-> iter[1 .. n]]
  <1>1. \E g : IsFold(loop, base, batch, DOMAIN batch, g)
    BY PrefixFold
  <1>2. IsFold(loop, base, batch, DOMAIN batch, iter)
    BY <1>1, Zenon
  <1>3. Looped(loop, base, batch) = iter[DOMAIN batch]
    BY DEF Looped, IsFold
  <1> HIDE DEF iter
  <1>4. after[0] = base
    BY <1>2 DEF IsFold
  <1>5. ASSUME NEW n \in 1 .. L
        PROVE  after[n] = Turn(loop, after[n - 1], batch[n])
    <2>1. n - 1 \in Nat /\ (n - 1) + 1 = n /\ n - 1 \in 0 .. L /\ n \in 0 .. L
      OBVIOUS
    <2>2. (1 .. n) \ {n} = 1 .. n - 1 /\ n \in 1 .. n
      BY <2>1
    <2>3. 1 .. n \in SUBSET (1 .. (n - 1) + 1)
      BY <2>1
    <2>4. Max(1 .. n) = n
      BY <2>1, <2>2, <2>3, MaxOfPrefix
    <2>5. 1 .. n \in SUBSET (1 .. L)
      <3>1. \A y \in 1 .. n : y \in 1 .. L
        OBVIOUS
      <3> QED  BY <3>1
    <2>6. iter[1 .. n] = Turn(loop, iter[(1 .. n) \ {Max(1 .. n)}], batch[Max(1 .. n)])
      BY <1>2, <2>2, <2>5 DEF IsFold
    <2>7. after[n] = iter[1 .. n] /\ after[n - 1] = iter[1 .. n - 1]
      BY <2>1
    <2> QED  BY <2>2, <2>4, <2>6, <2>7
  <1>6. after[L] = iter[DOMAIN batch]
    OBVIOUS
  <1> HIDE DEF after
  <1>7. Turns(loop, base, batch, L, after)
    BY <1>3, <1>4, <1>5, <1>6 DEF Turns
  <1> QED  BY <1>7

LEMMA ReplaceIsLoop ==
    ASSUME NEW base, NEW batch
    PROVE  FoldLeft(ReplaceOne, base, batch) = Looped(Replacing, base, batch)
  BY DEF Looped, Turn, Replacing, FoldLeft, MapThenFoldSet

LEMMA KeptIsLoop ==
    ASSUME NEW list, NEW gone
    PROVE  Kept(list, gone) = Looped(Removing(gone), <<>>, list)
  BY DEF Kept, Looped, Turn, Removing, FoldLeft, MapThenFoldSet

LEMMA MergedIsLoop ==
    ASSUME NEW sorted, NEW batch
    PROVE  LET added == SortEntries(batch)
               turns == sorted \o added
           IN  MergeSortedEntries(sorted, batch)
                 = Looped(Merging(sorted, added), [kept |-> 0, list |-> <<>>],
                          [n \in DOMAIN turns |-> n]).list
  BY DEF MergeSortedEntries, Looped, Turn, Merging, FoldLeftDomain, FoldLeft, MapThenFoldSet

-----------------------------------------------------------------------------
(* Sorting and merging *)

Entries == UNION {ToSet(batch) : batch \in Batch}

\* No id twice.
Distinct(list) == \A i, j \in DOMAIN list : list[i].id = list[j].id => i = j

InOrder(list) == \A i, j \in DOMAIN list : i < j => Before(list[i], list[j])

LEMMA BeforeIsTotal ==
    ASSUME NEW a \in Entries, NEW b \in Entries
    PROVE  /\ Before(a, b) => ~Before(b, a)
           /\ a.id # b.id => Before(a, b) \/ Before(b, a)
           /\ Before(a, b) => a.id # b.id \/ a # b
           /\ \A c \in Entries : Before(a, b) /\ Before(b, c) => Before(a, c)
           /\ \A c \in Entries : Before(a, b) /\ ~Before(c, b) => Before(a, c)
  <1>1. \A e \in Entries : e.id \in Nat /\ e.date \in Nat
    BY BatchAssumption DEF Entries
  <1> HIDE DEF Entries
  <1> QED  BY <1>1 DEF Before

\* An order of the first n positions in which no entry comes before the last.
Sorts(list, n, p) ==
    /\ p \in Bijection(1 .. n, 1 .. n)
    /\ \A i, j \in 1 .. n : i < j => ~Before(list[p[j]], list[p[i]])

LEMMA OneMoreSorted ==
    ASSUME NEW list \in Seq(Entries), NEW n \in Nat, n + 1 <= Len(list),
           NEW p, Sorts(list, n, p)
    PROVE  \E q : Sorts(list, n + 1, q)
  <1> DEFINE x == list[n + 1]
             T == {k \in Nat : k \in 1 .. n + 1 /\ (k <= n => Before(x, list[p[k]]))}
  <1>1. /\ \A i \in 1 .. n : p[i] \in 1 .. n
        /\ \A i, j \in 1 .. n : p[i] = p[j] => i = j
        /\ \A m \in 1 .. n : \E i \in 1 .. n : p[i] = m
    BY DEF Sorts, Bijection, Injection, Surjection, IsInjective
  <1>2. x \in Entries /\ \A i \in 1 .. n : list[p[i]] \in Entries
    <2>1. \A m \in 1 .. Len(list) : list[m] \in Entries
      OBVIOUS
    <2>2. Len(list) \in Nat /\ \A m \in 1 .. n + 1 : m \in 1 .. Len(list)
      OBVIOUS
    <2>3. \A i \in 1 .. n : p[i] \in 1 .. n + 1
      BY <1>1
    <2>4. n + 1 \in 1 .. n + 1
      OBVIOUS
    <2> HIDE DEF Entries
    <2> QED  BY <2>1, <2>2, <2>3, <2>4
  <1>3. n + 1 \in T
    OBVIOUS
  <1>4. PICK k \in T : \A m \in T : k <= m
    <2> HIDE DEF T
    <2>1. T \in SUBSET Nat
      BY DEF T
    <2> QED  BY <1>3, <2>1, LeastNat
  <1>5. k \in 1 .. n + 1 /\ (k <= n => Before(x, list[p[k]]))
    BY <1>4
  <1>6. \A i \in 1 .. n : i < k => ~Before(x, list[p[i]])
    BY <1>4
  <1> HIDE DEF T, x
  <1> DEFINE q == [j \in 1 .. n + 1 |->
                     IF j < k THEN p[j] ELSE IF j = k THEN n + 1 ELSE p[j - 1]]
  <1>7. \A j \in 1 .. n + 1 :
          /\ j < k => j \in 1 .. n /\ q[j] = p[j]
          /\ j = k => q[j] = n + 1
          /\ j > k => j - 1 \in 1 .. n /\ q[j] = p[j - 1] /\ j - 1 >= k
    BY <1>5
  <1>8. q \in [1 .. n + 1 -> 1 .. n + 1]
    <2>1. ASSUME NEW j \in 1 .. n + 1 PROVE q[j] \in 1 .. n + 1
      <3>1. k \in Int /\ j \in Int
        BY <1>5
      <3>2. q[j] \in 1 .. n \/ q[j] = n + 1
        BY <1>1, <1>7, <3>1
      <3> HIDE DEF q
      <3> QED  BY <3>2
    <2> QED  BY <2>1
  <1> HIDE DEF q
  <1>9. ASSUME NEW i \in 1 .. n + 1, NEW j \in 1 .. n + 1, q[i] = q[j]
        PROVE  i = j
    <2>1. k \in Int /\ i \in Int /\ j \in Int
      BY <1>5
    <2>2. \A m \in 1 .. n : p[m] # n + 1
      BY <1>1
    <2>3. CASE i = k \/ j = k
      BY <1>1, <1>7, <1>9, <2>1, <2>2, <2>3
    <2>4. CASE i < k /\ j < k
      BY <1>1, <1>7, <1>9, <2>4
    <2>5. CASE i > k /\ j > k
      <3>1. i - 1 = j - 1
        BY <1>1, <1>7, <1>9, <2>5
      <3> QED  BY <2>1, <3>1
    <2>6. CASE i < k /\ j > k
      <3>1. i = j - 1 /\ j - 1 >= k
        BY <1>1, <1>7, <1>9, <2>6
      <3> QED  BY <2>1, <2>6, <3>1
    <2>7. CASE i > k /\ j < k
      <3>1. j = i - 1 /\ i - 1 >= k
        BY <1>1, <1>7, <1>9, <2>7
      <3> QED  BY <2>1, <2>7, <3>1
    <2> QED  BY <2>1, <2>3, <2>4, <2>5, <2>6, <2>7
  <1>10. ASSUME NEW m \in 1 .. n + 1 PROVE \E j \in 1 .. n + 1 : q[j] = m
    <2>1. CASE m = n + 1
      BY <1>5, <1>7, <2>1
    <2>2. CASE m \in 1 .. n
      <3>1. PICK i \in 1 .. n : p[i] = m
        BY <1>1, <2>2
      <3>2. CASE i < k
        BY <1>7, <3>1, <3>2
      <3>3. CASE i >= k
        <4>1. i + 1 \in 1 .. n + 1 /\ i + 1 > k /\ (i + 1) - 1 = i
          BY <1>5, <3>3
        <4> QED  BY <1>7, <3>1, <4>1
      <3> QED  BY <1>5, <3>2, <3>3
    <2> QED  BY <2>1, <2>2
  <1>11. ASSUME NEW i \in 1 .. n + 1, NEW j \in 1 .. n + 1, i < j,
                Before(list[q[j]], list[q[i]])
         PROVE  FALSE
    <2>1. CASE j < k
      BY <1>5, <1>7, <1>11, <2>1 DEF Sorts
    <2>2. CASE i > k
      <3>1. i - 1 \in 1 .. n /\ j - 1 \in 1 .. n /\ i - 1 < j - 1 /\ j > k
        BY <1>5, <1>7, <1>11, <2>2
      <3>2. q[i] = p[i - 1] /\ q[j] = p[j - 1]
        BY <1>7, <2>2, <3>1
      <3> QED  BY <1>11, <3>1, <3>2 DEF Sorts
    <2>3. CASE i < k /\ j > k
      <3>1. i \in 1 .. n /\ j - 1 \in 1 .. n /\ i < j - 1
        BY <1>5, <1>7, <2>3
      <3>2. q[i] = p[i] /\ q[j] = p[j - 1]
        BY <1>7, <2>3
      <3> QED  BY <1>11, <3>1, <3>2 DEF Sorts
    <2>4. CASE j = k
      <3>1. i \in 1 .. n /\ i < k /\ q[i] = p[i] /\ q[j] = n + 1
        BY <1>5, <1>7, <1>11, <2>4
      <3> QED  BY <1>6, <1>11, <3>1 DEF x
    <2>5. CASE i = k
      <3>1. j - 1 \in 1 .. n /\ q[i] = n + 1 /\ q[j] = p[j - 1] /\ k <= n /\ k \in 1 .. n
        BY <1>5, <1>7, <1>11, <2>5
      <3>2. j - 1 = k \/ k < j - 1
        BY <1>5, <1>11, <2>5
      <3>3. Before(list[p[j - 1]], x) /\ Before(x, list[p[k]])
        BY <1>5, <1>11, <3>1 DEF x
      <3>4. Before(list[p[j - 1]], list[p[k]])
        BY <1>2, <3>1, <3>3, BeforeIsTotal
      <3> QED  BY <1>2, <3>1, <3>2, <3>4, BeforeIsTotal DEF Sorts
    <2> QED  BY <1>5, <2>1, <2>2, <2>3, <2>4, <2>5
  <1>12. q \in Bijection(1 .. n + 1, 1 .. n + 1)
    BY <1>8, <1>9, <1>10 DEF Bijection, Injection, Surjection, IsInjective
  <1>13. Sorts(list, n + 1, q)
    BY <1>11, <1>12 DEF Sorts
  <1> QED  BY <1>13

\* What sorting gives: the same entries, in order when no id occurs twice.
LEMMA SortIs ==
    ASSUME NEW list \in Seq(Entries)
    PROVE  LET sorted == SortEntries(list)
           IN  /\ sorted \in Seq(Entries) /\ Len(sorted) = Len(list)
               /\ ToSet(sorted) = ToSet(list)
               /\ Distinct(list) => InOrder(sorted)
  <1> DEFINE L == Len(list)
             T == {n \in 0 .. L : \E p : Sorts(list, n, p)}
             p == CHOOSE f \in Bijection(DOMAIN list, DOMAIN list) :
                    \A i, j \in DOMAIN list : i < j => ~Before(list[f[j]], list[f[i]])
             sorted == SortEntries(list)
  <1>1. L \in Nat /\ DOMAIN list = 1 .. L /\ \A i \in 1 .. L : list[i] \in Entries
    OBVIOUS
  <1>2. 0 \in T
    <2>1. Sorts(list, 0, <<>>)
      BY DEF Sorts, Bijection, Injection, Surjection, IsInjective
    <2> QED  BY <1>1, <2>1
  <1>3. ASSUME NEW n \in 1 .. L, n - 1 \in T PROVE n \in T
    <2>1. PICK f : Sorts(list, n - 1, f)
      BY <1>3
    <2>2. n - 1 \in Nat /\ (n - 1) + 1 = n /\ n <= Len(list)
      BY <1>1
    <2>3. \E q : Sorts(list, (n - 1) + 1, q)
      BY <2>1, <2>2, OneMoreSorted
    <2> QED  BY <1>1, <2>2, <2>3
  <1>4. \E f : Sorts(list, L, f)
    <2>1. L \in T
      <3> HIDE DEF L, T
      <3> QED  BY <1>1, <1>2, <1>3, Counting
    <2> QED  BY <2>1
  <1>5. Sorts(list, L, p)
    <2> HIDE DEF L
    <2> QED  BY <1>1, <1>4 DEF Sorts
  <1>6. sorted = [i \in 1 .. L |-> list[p[i]]]
    BY <1>1 DEF SortEntries
  <1> HIDE DEF sorted, p, L
  <1>7. /\ \A i \in 1 .. L : p[i] \in 1 .. L
        /\ \A i, j \in 1 .. L : p[i] = p[j] => i = j
        /\ \A m \in 1 .. L : \E i \in 1 .. L : p[i] = m
        /\ \A i, j \in 1 .. L : i < j => ~Before(list[p[j]], list[p[i]])
    BY <1>5 DEF Sorts, Bijection, Injection, Surjection, IsInjective
  <1>8. \A i \in 1 .. L : sorted[i] = list[p[i]] /\ sorted[i] \in Entries
    BY <1>1, <1>6, <1>7
  <1>9. sorted \in Seq(Entries) /\ Len(sorted) = L /\ DOMAIN sorted = 1 .. L
    <2> HIDE DEF Entries
    <2> QED  BY <1>1, <1>6, <1>8
  <1>10. ToSet(sorted) = ToSet(list)
    <2>1. ASSUME NEW i \in 1 .. L PROVE sorted[i] \in ToSet(list)
      BY <1>1, <1>7, <1>8, <2>1 DEF ToSet
    <2>2. ASSUME NEW m \in 1 .. L PROVE list[m] \in ToSet(sorted)
      <3>1. PICK i \in 1 .. L : p[i] = m
        BY <1>7
      <3> QED  BY <1>8, <1>9, <3>1 DEF ToSet
    <2>3. /\ ToSet(sorted) = {sorted[i] : i \in 1 .. L}
          /\ ToSet(list) = {list[i] : i \in 1 .. L}
      BY <1>1, <1>9, Zenon DEF ToSet
    <2> QED  BY <2>1, <2>2, <2>3
  <1>11. ASSUME Distinct(list) PROVE InOrder(sorted)
    <2> SUFFICES ASSUME NEW i \in 1 .. L, NEW j \in 1 .. L, i < j
                 PROVE  Before(list[p[i]], list[p[j]])
      BY <1>8, <1>9 DEF InOrder
    <2>1. i # j /\ p[i] \in DOMAIN list /\ p[j] \in DOMAIN list /\ p[i] # p[j]
      BY <1>1, <1>7
    <2>2. list[p[i]].id # list[p[j]].id
      BY <1>11, <2>1 DEF Distinct
    <2>3. list[p[i]] \in Entries /\ list[p[j]] \in Entries
      BY <1>1, <2>1
    <2>4. ~Before(list[p[j]], list[p[i]])
      BY <1>7
    <2> QED  BY <2>2, <2>3, <2>4, BeforeIsTotal
  <1>12. sorted = SortEntries(list) /\ L = Len(list)
    BY DEF sorted, L
  <1> QED  BY <1>9, <1>10, <1>11, <1>12, Zenon

\* What appending does to a list.
LEMMA OneAppended ==
    ASSUME NEW S, NEW list \in Seq(S), NEW e \in S
    PROVE  LET longer == Append(list, e)
           IN  /\ longer \in Seq(S) /\ Len(longer) = Len(list) + 1
               /\ DOMAIN longer = 1 .. Len(list) + 1
               /\ ToSet(longer) = ToSet(list) \cup {e}
               /\ longer[Len(list) + 1] = e
               /\ \A i \in DOMAIN list : longer[i] = list[i]
  <1>1. Len(list) \in Nat /\ DOMAIN list = 1 .. Len(list)
    OBVIOUS
  <1> DEFINE longer == Append(list, e)
  <1>2. longer \in Seq(S) /\ Len(longer) = Len(list) + 1 /\ DOMAIN longer = 1 .. Len(list) + 1
    OBVIOUS
  <1>3. longer[Len(list) + 1] = e /\ \A i \in DOMAIN list : longer[i] = list[i]
    OBVIOUS
  <1> HIDE DEF longer
  <1>4. ToSet(longer) = ToSet(list) \cup {e}
    <2>1. /\ ToSet(longer) = {longer[i] : i \in 1 .. Len(list) + 1}
          /\ ToSet(list) = {list[i] : i \in 1 .. Len(list)}
      BY <1>1, <1>2, Zenon DEF ToSet
    <2> QED  BY <1>1, <1>3, <2>1
  <1> QED  BY <1>2, <1>3, <1>4 DEF longer

LEMMA InOrderLonger ==
    ASSUME NEW list \in Seq(Entries), NEW e \in Entries, InOrder(list),
           \A d \in ToSet(list) : Before(d, e)
    PROVE  InOrder(Append(list, e))
  <1> DEFINE longer == Append(list, e)
  <1>1. /\ DOMAIN longer = 1 .. Len(list) + 1 /\ longer[Len(list) + 1] = e
        /\ \A i \in DOMAIN list : longer[i] = list[i]
    BY OneAppended
  <1>2. Len(list) \in Nat /\ DOMAIN list = 1 .. Len(list)
    OBVIOUS
  <1> HIDE DEF longer
  <1> SUFFICES ASSUME NEW i \in 1 .. Len(list) + 1, NEW j \in 1 .. Len(list) + 1, i < j
               PROVE  Before(longer[i], longer[j])
    BY <1>1 DEF InOrder, longer
  <1>3. i \in DOMAIN list /\ longer[i] = list[i] /\ list[i] \in ToSet(list)
    BY <1>1, <1>2 DEF ToSet
  <1>4. CASE j \in DOMAIN list
    BY <1>1, <1>3, <1>4 DEF InOrder
  <1>5. CASE j = Len(list) + 1
    BY <1>1, <1>3, <1>5
  <1> QED  BY <1>2, <1>4, <1>5

\* Where a merge stands after n turns: what is written, in order, and before
\* whatever is still to be written.
Merged(sorted, added, n, so) ==
    LET j == n - so.kept
    IN  /\ so.kept \in 0 .. Len(sorted) /\ j \in 0 .. Len(added)
        /\ so.list \in Seq(Entries)
        /\ ToSet(so.list) = {sorted[i] : i \in 1 .. so.kept} \cup {added[i] : i \in 1 .. j}
        /\ InOrder(so.list)
        /\ \A d \in ToSet(so.list) :
             /\ \A i \in so.kept + 1 .. Len(sorted) : Before(d, sorted[i])
             /\ \A i \in j + 1 .. Len(added) : Before(d, added[i])

LEMMA OneMoreMerged ==
    ASSUME NEW sorted \in Seq(Entries), NEW added \in Seq(Entries),
           InOrder(sorted), InOrder(added),
           \A i \in DOMAIN sorted, j \in DOMAIN added : sorted[i].id # added[j].id,
           NEW n \in 1 .. Len(sorted) + Len(added), NEW so, Merged(sorted, added, n - 1, so)
    PROVE  Merged(sorted, added, n, MergeOne(so, sorted, added, n))
  <1> DEFINE i == so.kept + 1
             j == n - so.kept
             M == Len(sorted)
             N == Len(added)
  <1>1. /\ M \in Nat /\ DOMAIN sorted = 1 .. M /\ \A k \in 1 .. M : sorted[k] \in Entries
        /\ N \in Nat /\ DOMAIN added = 1 .. N /\ \A k \in 1 .. N : added[k] \in Entries
    OBVIOUS
  <1>2. so.kept \in 0 .. M /\ j - 1 \in 0 .. N /\ n \in 1 .. M + N /\ (n - 1) - so.kept = j - 1
    BY <1>1 DEF Merged
  <1>3. /\ so.list \in Seq(Entries) /\ InOrder(so.list)
        /\ ToSet(so.list) = {sorted[k] : k \in 1 .. so.kept} \cup {added[k] : k \in 1 .. j - 1}
        /\ \A d \in ToSet(so.list) :
             /\ \A k \in i .. M : Before(d, sorted[k])
             /\ \A k \in j .. N : Before(d, added[k])
    <2>1. (j - 1) + 1 = j
      BY <1>2
    <2> QED  BY <1>2, <2>1 DEF Merged
  <1> HIDE DEF i, j, M, N
  <1>4. i \in 1 .. M + 1 /\ j \in 1 .. N + 1 /\ so.kept = i - 1 /\ i + j = n + 1
    BY <1>1, <1>2, SMTT(30) DEF i, j
  <1>5. CASE j > N \/ (i <= M /\ ~Before(added[j], sorted[i]))
    <2> DEFINE new == [kept |-> i, list |-> Append(so.list, sorted[i])]
    <2>1. MergeOne(so, sorted, added, n) = new
      BY <1>5 DEF MergeOne, i, j, M, N
    <2>2. i \in 1 .. M
      BY <1>1, <1>2, <1>4, <1>5
    <2>3. ToSet(new.list) = ToSet(so.list) \cup {sorted[i]} /\ new.list \in Seq(Entries)
      BY <1>1, <1>3, <2>2, OneAppended
    <2>4. InOrder(new.list)
      <3>1. \A d \in ToSet(so.list) : Before(d, sorted[i])
        <4>1. i \in i .. M
          BY <1>1, <2>2
        <4> QED  BY <1>3, <4>1
      <3> QED  BY <1>1, <1>3, <2>2, <3>1, InOrderLonger
    <2>5. /\ \A k \in i + 1 .. M : Before(sorted[i], sorted[k])
          /\ \A k \in j .. N : Before(sorted[i], added[k])
      <3>1. ASSUME NEW k \in i + 1 .. M PROVE Before(sorted[i], sorted[k])
        <4>1. k \in 1 .. M /\ i < k
          BY <1>1, <2>2
        <4> QED  BY <1>1, <2>2, <4>1 DEF InOrder
      <3>2. ASSUME NEW k \in j .. N PROVE Before(sorted[i], added[k])
        <4>1. j \in 1 .. N /\ k \in 1 .. N /\ (j = k \/ j < k) /\ ~(j > N)
          BY <1>1, <1>4
        <4>2. ~Before(added[j], sorted[i]) /\ sorted[i].id # added[j].id
          BY <1>1, <1>5, <2>2, <4>1
        <4>3. Before(sorted[i], added[j])
          BY <1>1, <2>2, <4>1, <4>2, BeforeIsTotal
        <4>4. j < k => Before(added[j], added[k])
          BY <1>1, <4>1 DEF InOrder
        <4> QED  BY <1>1, <2>2, <4>1, <4>3, <4>4, BeforeIsTotal
      <3> QED  BY <3>1, <3>2
    <2>6. n - i = j - 1
      BY <1>1, <1>4
    <2>7. {sorted[k] : k \in 1 .. i} = {sorted[k] : k \in 1 .. so.kept} \cup {sorted[i]}
      <3>1. 1 .. i = (1 .. so.kept) \cup {i}
        BY <1>1, <1>4
      <3> QED  BY <3>1
    <2>8. /\ new.kept = i /\ new.kept \in 0 .. M /\ n - new.kept \in 0 .. N
          /\ (n - new.kept) + 1 = j
      BY <1>1, <1>4, <2>2, <2>6
    <2>9. \A k \in i + 1 .. M : k \in i .. M
      BY <1>1, <1>4
    <2> HIDE DEF new
    <2>10. Merged(sorted, added, n, new)
      <3>1. ToSet(new.list) = {sorted[k] : k \in 1 .. new.kept}
                                \cup {added[k] : k \in 1 .. n - new.kept}
        BY <1>3, <2>3, <2>6, <2>7, <2>8
      <3>2. ASSUME NEW d \in ToSet(new.list)
            PROVE  /\ \A k \in i + 1 .. M : Before(d, sorted[k])
                   /\ \A k \in j .. N : Before(d, added[k])
        <4>1. CASE d \in ToSet(so.list)
          BY <1>3, <2>9, <4>1
        <4>2. CASE d = sorted[i]
          BY <2>5, <4>2
        <4> QED  BY <2>3, <4>1, <4>2
      <3> QED  BY <2>3, <2>4, <2>8, <3>1, <3>2 DEF Merged, M, N
    <2> QED  BY <2>1, <2>10
  <1>6. CASE ~(j > N \/ (i <= M /\ ~Before(added[j], sorted[i])))
    <2> DEFINE new == [kept |-> so.kept, list |-> Append(so.list, added[j])]
    <2>1. MergeOne(so, sorted, added, n) = new
      BY <1>6 DEF MergeOne, i, j, M, N
    <2>2. j \in 1 .. N
      BY <1>1, <1>2, <1>4, <1>6
    <2>3. ToSet(new.list) = ToSet(so.list) \cup {added[j]} /\ new.list \in Seq(Entries)
      BY <1>1, <1>3, <2>2, OneAppended
    <2>4. InOrder(new.list)
      <3>1. \A d \in ToSet(so.list) : Before(d, added[j])
        <4>1. j \in j .. N
          BY <1>1, <2>2
        <4> QED  BY <1>3, <4>1
      <3> QED  BY <1>1, <1>3, <2>2, <3>1, InOrderLonger
    <2>5. /\ \A k \in j + 1 .. N : Before(added[j], added[k])
          /\ \A k \in i .. M : Before(added[j], sorted[k])
      <3>1. ASSUME NEW k \in j + 1 .. N PROVE Before(added[j], added[k])
        <4>1. k \in 1 .. N /\ j < k
          BY <1>1, <2>2
        <4> QED  BY <1>1, <2>2, <4>1 DEF InOrder
      <3>2. ASSUME NEW k \in i .. M PROVE Before(added[j], sorted[k])
        <4>1. i \in 1 .. M /\ k \in 1 .. M /\ (i = k \/ i < k) /\ i <= M
          BY <1>1, <1>4
        <4>2. Before(added[j], sorted[i])
          BY <1>6, <4>1
        <4>3. i < k => Before(sorted[i], sorted[k])
          BY <1>1, <4>1 DEF InOrder
        <4> QED  BY <1>1, <2>2, <4>1, <4>2, <4>3, BeforeIsTotal
      <3> QED  BY <3>1, <3>2
    <2>6. {added[k] : k \in 1 .. j} = {added[k] : k \in 1 .. j - 1} \cup {added[j]}
      <3>1. 1 .. j = (1 .. j - 1) \cup {j}
        BY <1>1, <1>4
      <3> QED  BY <3>1
    <2>7. /\ new.kept = so.kept /\ new.kept \in 0 .. M /\ n - new.kept = j
          /\ n - new.kept \in 0 .. N /\ new.kept + 1 = i
      BY <1>1, <1>2, <2>2 DEF i, j
    <2>8. \A k \in j + 1 .. N : k \in j .. N
      BY <1>1, <1>4
    <2> HIDE DEF new
    <2>9. Merged(sorted, added, n, new)
      <3>1. ToSet(new.list) = {sorted[k] : k \in 1 .. new.kept}
                                \cup {added[k] : k \in 1 .. n - new.kept}
        BY <1>3, <2>3, <2>6, <2>7
      <3>2. ASSUME NEW d \in ToSet(new.list)
            PROVE  /\ \A k \in i .. M : Before(d, sorted[k])
                   /\ \A k \in j + 1 .. N : Before(d, added[k])
        <4>1. CASE d \in ToSet(so.list)
          BY <1>3, <2>8, <4>1
        <4>2. CASE d = added[j]
          BY <2>5, <4>2
        <4> QED  BY <2>3, <4>1, <4>2
      <3> QED  BY <2>3, <2>4, <2>7, <3>1, <3>2 DEF Merged, M, N
    <2> QED  BY <2>1, <2>9
  <1> QED  BY <1>5, <1>6

\* What a merge gives: the entries of both, in order.
LEMMA MergeIs ==
    ASSUME NEW sorted \in Seq(Entries), InOrder(sorted),
           NEW batch \in Seq(Entries), Distinct(batch),
           \A d \in ToSet(sorted), e \in ToSet(batch) : d.id # e.id
    PROVE  LET merged == MergeSortedEntries(sorted, batch)
           IN  /\ merged \in Seq(Entries) /\ InOrder(merged)
               /\ ToSet(merged) = ToSet(sorted) \cup ToSet(batch)
  <1> DEFINE added == SortEntries(batch)
             N == Len(sorted) + Len(added)
             start == [kept |-> 0, list |-> <<>>]
             turns == [n \in DOMAIN (sorted \o added) |-> n]
             loop == Merging(sorted, added)
  <1>1. /\ added \in Seq(Entries) /\ ToSet(added) = ToSet(batch) /\ InOrder(added)
    BY SortIs
  <1>2. MergeSortedEntries(sorted, batch) = Looped(loop, start, turns).list
    BY MergedIsLoop
  <1> HIDE DEF added
  <1>3. /\ Len(sorted) \in Nat /\ DOMAIN sorted = 1 .. Len(sorted)
        /\ Len(added) \in Nat /\ DOMAIN added = 1 .. Len(added)
    BY <1>1
  <1>4. N \in Nat /\ DOMAIN turns = 1 .. N /\ \A n \in 1 .. N : turns[n] = n
    BY <1>1, <1>3
  <1>5. \A i \in DOMAIN sorted, j \in DOMAIN added : sorted[i].id # added[j].id
    BY <1>1 DEF ToSet
  <1>6. PICK after : Turns(loop, start, turns, N, after)
    <2> HIDE DEF loop, start, turns, N
    <2> QED  BY <1>4, LoopSteps
  <1>7. Merged(sorted, added, 0, start)
    <2>1. ToSet(<<>>) = {} /\ <<>> \in Seq(Entries) /\ InOrder(<<>>)
      BY DEF ToSet, InOrder
    <2> QED  BY <1>3, <2>1 DEF Merged
  <1>8. ASSUME NEW n \in 1 .. N, Merged(sorted, added, n - 1, after[n - 1])
        PROVE  Merged(sorted, added, n, after[n])
    <2>1. after[n] = MergeOne(after[n - 1], sorted, added, n)
      <3>1. after[n] = Turn(loop, after[n - 1], turns[n]) /\ turns[n] = n
        BY <1>4, <1>6 DEF Turns
      <3> QED  BY <3>1 DEF Turn, Merging
    <2> QED  BY <1>1, <1>5, <1>8, <2>1, OneMoreMerged
  <1>9. Merged(sorted, added, N, after[N])
    <2> DEFINE T == {n \in 0 .. N : Merged(sorted, added, n, after[n])}
    <2> HIDE DEF start, N
    <2>1. 0 \in T
      BY <1>4, <1>6, <1>7 DEF Turns
    <2>2. \A n \in 1 .. N : n - 1 \in T => n \in T
      BY <1>4, <1>8
    <2>3. N \in T
      <3> HIDE DEF T
      <3>1. N \in Nat
        BY <1>4
      <3>2. \A n \in 0 .. N : n \in T
        BY <2>1, <2>2, <3>1, Counting
      <3> QED  BY <3>1, <3>2
    <2> QED  BY <2>3
  <1>10. MergeSortedEntries(sorted, batch) = after[N].list
    BY <1>2, <1>6 DEF Turns
  <1> DEFINE so == after[N]
  <1>11. so.kept = Len(sorted) /\ N - so.kept = Len(added)
    <2> HIDE DEF so
    <2>1. so.kept \in 0 .. Len(sorted) /\ N - so.kept \in 0 .. Len(added)
      BY <1>9 DEF Merged, so
    <2> QED  BY <1>3, <2>1
  <1>12. /\ ToSet(sorted) = {sorted[i] : i \in 1 .. Len(sorted)}
         /\ ToSet(added) = {added[i] : i \in 1 .. Len(added)}
    BY <1>3, Zenon DEF ToSet
  <1> HIDE DEF so, N
  <1>13. /\ so.list \in Seq(Entries) /\ InOrder(so.list)
         /\ ToSet(so.list) = ToSet(sorted) \cup ToSet(added)
    BY <1>9, <1>11, <1>12 DEF Merged, so
  <1> QED  BY <1>1, <1>10, <1>13 DEF so

\* What a filter leaves: the entries that are not gone, in the same order.
LEMMA KeptIs ==
    ASSUME NEW list \in Seq(Entries), InOrder(list), NEW gone
    PROVE  LET kept == Kept(list, gone)
           IN  /\ kept \in Seq(Entries) /\ InOrder(kept)
               /\ ToSet(kept) = {e \in ToSet(list) : e.id \notin gone}
  <1> DEFINE L == Len(list)
             loop == Removing(gone)
             Left(n) == {e \in {list[j] : j \in 1 .. n} : e.id \notin gone}
             Good(n, kept) == /\ kept \in Seq(Entries) /\ InOrder(kept)
                              /\ ToSet(kept) = Left(n)
  <1>1. L \in Nat /\ DOMAIN list = 1 .. L /\ \A n \in 1 .. L : list[n] \in Entries
    OBVIOUS
  <1>2. PICK after : Turns(loop, <<>>, list, L, after)
    <2> HIDE DEF L, loop
    <2> QED  BY <1>1, LoopSteps
  <1>3. Good(0, <<>>)
    BY DEF ToSet, InOrder
  <1>4. ASSUME NEW n \in 1 .. L, NEW kept, Good(n - 1, kept)
        PROVE  Good(n, KeepOne(kept, list[n], gone))
    <2>1. {list[j] : j \in 1 .. n} = {list[j] : j \in 1 .. n - 1} \cup {list[n]}
      <3>1. 1 .. n = (1 .. n - 1) \cup {n}
        BY <1>1
      <3> QED  BY <3>1
    <2>2. CASE list[n].id \in gone
      BY <1>4, <2>1, <2>2 DEF KeepOne
    <2>3. CASE list[n].id \notin gone
      <3>1. KeepOne(kept, list[n], gone) = Append(kept, list[n])
        BY <2>3 DEF KeepOne
      <3>2. \A d \in ToSet(kept) : Before(d, list[n])
        <4>1. \A j \in 1 .. n - 1 : j \in 1 .. L /\ j < n
          BY <1>1
        <4> QED  BY <1>1, <1>4, <4>1 DEF InOrder
      <3>3. Left(n) = Left(n - 1) \cup {list[n]}
        BY <2>1, <2>3
      <3>4. kept \in Seq(Entries) /\ InOrder(kept) /\ list[n] \in Entries
        BY <1>1, <1>4
      <3>5. /\ Append(kept, list[n]) \in Seq(Entries)
            /\ ToSet(Append(kept, list[n])) = ToSet(kept) \cup {list[n]}
        BY <3>4, OneAppended
      <3>6. InOrder(Append(kept, list[n]))
        BY <3>2, <3>4, InOrderLonger
      <3> HIDE DEF Left
      <3> QED  BY <1>4, <3>1, <3>3, <3>5, <3>6
    <2> QED  BY <2>2, <2>3
  <1>5. ASSUME NEW n \in 1 .. L, Good(n - 1, after[n - 1])
        PROVE  Good(n, after[n])
    <2>1. after[n] = KeepOne(after[n - 1], list[n], gone)
      BY <1>2 DEF Turns, Turn, Removing
    <2> HIDE DEF Good
    <2> QED  BY <1>4, <1>5, <2>1
  <1>6. Good(L, after[L])
    <2> DEFINE T == {n \in 0 .. L : Good(n, after[n])}
    <2> HIDE DEF Good, L
    <2>1. 0 \in T
      BY <1>1, <1>2, <1>3 DEF Turns
    <2>2. \A n \in 1 .. L : n - 1 \in T => n \in T
      BY <1>1, <1>5
    <2>3. L \in T
      <3> HIDE DEF T
      <3> QED  BY <1>1, <2>1, <2>2, Counting
    <2> QED  BY <2>3
  <1>7. Kept(list, gone) = after[L]
    BY <1>2, KeptIsLoop DEF Turns
  <1>8. ToSet(list) = {list[j] : j \in 1 .. L}
    BY <1>1, Zenon DEF ToSet
  <1> QED  BY <1>6, <1>7, <1>8

-----------------------------------------------------------------------------
(* The list and the map *)

\* The list and the map hold the same entries.
Holds(list, byId) ==
    /\ list \in Seq(Entries)
    /\ ToSet(list) = {byId[i] : i \in DOMAIN byId}
    /\ \A i \in DOMAIN byId : byId[i].id = i

LEMMA HeldById ==
    ASSUME NEW list, NEW byId, Holds(list, byId)
    PROVE  /\ \A e \in ToSet(list) : /\ e.id \in DOMAIN byId /\ byId[e.id] = e
                                     /\ e \in Entries
           /\ \A i \in DOMAIN byId : byId[i] \in ToSet(list)
           /\ Len(list) \in Nat /\ DOMAIN list = 1 .. Len(list)
           /\ ToSet(list) = {list[i] : i \in 1 .. Len(list)}
           /\ InOrder(list) => Distinct(list)
  <1>1. /\ Len(list) \in Nat /\ DOMAIN list = 1 .. Len(list)
        /\ \A i \in 1 .. Len(list) : list[i] \in Entries
    BY DEF Holds
  <1>2. ToSet(list) = {list[i] : i \in 1 .. Len(list)}
    BY <1>1, Zenon DEF ToSet
  <1>3. \A e \in ToSet(list) : e.id \in DOMAIN byId /\ byId[e.id] = e /\ e \in Entries
    BY <1>1, <1>2 DEF Holds
  <1>4. \A i \in DOMAIN byId : byId[i] \in ToSet(list)
    BY DEF Holds
  <1>5. ASSUME InOrder(list), NEW i \in 1 .. Len(list), NEW j \in 1 .. Len(list),
               list[i].id = list[j].id
        PROVE  i = j
    <2>1. list[i] = list[j] /\ list[i] \in Entries
      BY <1>2, <1>3, <1>5
    <2>2. ~Before(list[i], list[j]) /\ ~Before(list[j], list[i])
      BY <2>1, BeforeIsTotal
    <2> QED  BY <1>1, <1>5, <2>2 DEF InOrder
  <1> QED  BY <1>1, <1>2, <1>3, <1>4, <1>5 DEF Distinct

\* One entry replaced or added keeps list and map in agreement.
LEMMA ReplaceHolds ==
    ASSUME NEW acc, Holds(acc.list, acc.byId), Distinct(acc.list), NEW e \in Entries
    PROVE  LET next == ReplaceOne(acc, e)
           IN  Holds(next.list, next.byId) /\ Distinct(next.list)
  <1> DEFINE list == acc.list
             byId == acc.byId
             next == ReplaceOne(acc, e)
             more == Put(byId, e)
             L == Len(list)
  <1>0. Distinct(list)
    OBVIOUS
  <1>1. /\ \A d \in ToSet(list) : d.id \in DOMAIN byId /\ byId[d.id] = d /\ d \in Entries
        /\ \A i \in DOMAIN byId : byId[i] \in ToSet(list) /\ byId[i].id = i
        /\ L \in Nat /\ DOMAIN list = 1 .. L
        /\ ToSet(list) = {list[i] : i \in 1 .. L}
        /\ list \in Seq(Entries)
    BY HeldById DEF Holds
  <1>2. /\ DOMAIN more = DOMAIN byId \cup {e.id} /\ more[e.id] = e
        /\ \A i \in DOMAIN byId \ {e.id} : more[i] = byId[i]
        /\ next.byId = more
    BY DEF Put, ReplaceOne
  <1>3. CASE e.id \in DOMAIN byId
    <2> DEFINE previous == byId[e.id]
               new == [i \in DOMAIN list |-> IF list[i] = previous THEN e ELSE list[i]]
    <2>1. next.list = new
      BY <1>3 DEF ReplaceOne
    <2>2. previous \in ToSet(list) /\ previous.id = e.id
      BY <1>1, <1>3
    <2>3. /\ DOMAIN new = 1 .. L
          /\ \A i \in 1 .. L : list[i] = previous => new[i] = e
          /\ \A i \in 1 .. L : list[i] # previous => new[i] = list[i]
      BY <1>1
    <2>10. \A i \in 1 .. L : new[i].id = list[i].id /\ new[i] \in Entries
      <3> SUFFICES ASSUME NEW i \in 1 .. L
                   PROVE  new[i].id = list[i].id /\ new[i] \in Entries
        OBVIOUS
      <3> HIDE DEF new, previous
      <3>1. CASE list[i] = previous
        BY <2>2, <2>3, <3>1
      <3>2. CASE list[i] # previous
        BY <1>1, <2>3, <3>2
      <3> QED  BY <3>1, <3>2
    <2>4. new \in Seq(Entries) /\ Len(new) = L
      <3>1. new = [i \in 1 .. L |-> new[i]]
        BY <1>1
      <3>2. L \in Nat
        BY <1>1
      <3> HIDE DEF new, L, previous
      <3>3. \A i \in 1 .. L : new[i] \in Entries
        BY <2>10
      <3> QED  BY <3>1, <3>2, <3>3
    <2> HIDE DEF new, previous, list, byId, more, next, L
    <2>5. Distinct(new)
      BY <1>0, <1>1, <2>3, <2>10 DEF Distinct
    <2>6. ToSet(new) = {new[i] : i \in 1 .. L}
      BY <2>3, Zenon DEF ToSet
    <2>7. ASSUME NEW i \in 1 .. L
          PROVE  new[i].id \in DOMAIN more /\ more[new[i].id] = new[i]
      <3>1. list[i] \in ToSet(list)
        BY <1>1
      <3>2. list[i].id \in DOMAIN byId /\ byId[list[i].id] = list[i]
        BY <1>1, <3>1
      <3>3. CASE list[i] = previous
        BY <1>2, <2>3, <3>3
      <3>4. CASE list[i] # previous
        <4>1. list[i].id # e.id
          BY <3>2, <3>4 DEF previous
        <4> QED  BY <1>2, <2>3, <3>2, <3>4, <4>1
      <3> QED  BY <3>3, <3>4
    <2>8. ASSUME NEW m \in DOMAIN more
          PROVE  more[m] \in ToSet(new) /\ more[m].id = m
      <3>1. CASE m = e.id
        <4>1. PICK i \in 1 .. L : list[i] = previous
          BY <1>1, <2>2
        <4> QED  BY <1>2, <2>3, <2>6, <3>1, <4>1
      <3>2. CASE m # e.id
        <4>1. m \in DOMAIN byId /\ more[m] = byId[m] /\ byId[m].id = m
          BY <1>1, <1>2, <3>2
        <4>2. PICK i \in 1 .. L : list[i] = byId[m]
          BY <1>1, <4>1
        <4>3. list[i] # previous
          BY <2>2, <3>2, <4>1, <4>2
        <4> QED  BY <2>3, <2>6, <4>1, <4>2, <4>3
      <3> QED  BY <3>1, <3>2
    <2>9. ToSet(new) = {more[m] : m \in DOMAIN more}
      BY <2>6, <2>7, <2>8
    <2> QED  BY <1>2, <2>1, <2>4, <2>5, <2>8, <2>9 DEF Holds, next
  <1>4. CASE e.id \notin DOMAIN byId
    <2> DEFINE new == Append(list, e)
    <2>1. next.list = new
      BY <1>4 DEF ReplaceOne
    <2>2. /\ new \in Seq(Entries) /\ DOMAIN new = 1 .. L + 1
          /\ ToSet(new) = ToSet(list) \cup {e} /\ new[L + 1] = e
          /\ \A i \in 1 .. L : new[i] = list[i]
      BY <1>1, OneAppended
    <2> HIDE DEF new, list, byId, more, next, L
    <2>3. \A i \in 1 .. L : list[i].id # e.id
      BY <1>1, <1>4
    <2>4. Distinct(new)
      <3>1. ASSUME NEW i \in 1 .. L + 1, NEW j \in 1 .. L + 1,
                   new[i].id = new[j].id
            PROVE  i = j
        <4>1. CASE i \in 1 .. L /\ j \in 1 .. L
          BY <1>1, <2>2, <3>1, <4>1, <1>0 DEF Distinct
        <4>2. CASE i = L + 1 \/ j = L + 1
          BY <1>1, <2>2, <2>3, <3>1, <4>2
        <4> QED  BY <1>1, <4>1, <4>2
      <3> QED  BY <2>2, <3>1 DEF Distinct
    <2>5. ToSet(new) = {more[m] : m \in DOMAIN more}
      <3>1. \A m \in DOMAIN byId : more[m] = byId[m]
        BY <1>2, <1>4
      <3>2. ToSet(list) = {byId[m] : m \in DOMAIN byId}
        BY DEF Holds, list, byId
      <3> QED  BY <1>2, <2>2, <3>1, <3>2
    <2>6. \A m \in DOMAIN more : more[m].id = m
      BY <1>1, <1>2, <1>4
    <2> QED  BY <1>2, <2>1, <2>2, <2>4, <2>5, <2>6 DEF Holds, next
  <1> QED  BY <1>3, <1>4

\* What leaves the list and what comes into it is a source of the event.
LEMMA ReplaceSources ==
    ASSUME NEW acc, Holds(acc.list, acc.byId), NEW e \in Entries
    PROVE  LET next == ReplaceOne(acc, e)
           IN  /\ ToSet(acc.list) \ ToSet(next.list) \subseteq next.sources
               /\ ToSet(next.list) \ ToSet(acc.list) \subseteq next.sources
               /\ acc.sources \subseteq next.sources
  <1> DEFINE list == acc.list
             next == ReplaceOne(acc, e)
             L == Len(list)
  <1>1. /\ L \in Nat /\ DOMAIN list = 1 .. L /\ list \in Seq(Entries)
        /\ ToSet(list) = {list[i] : i \in 1 .. L}
    BY HeldById DEF Holds
  <1>2. CASE e.id \in DOMAIN acc.byId
    <2> DEFINE previous == acc.byId[e.id]
               new == [i \in DOMAIN list |-> IF list[i] = previous THEN e ELSE list[i]]
    <2>1. next.list = new /\ next.sources = acc.sources \cup {previous, e}
      BY <1>2 DEF ReplaceOne
    <2>2. DOMAIN new = 1 .. L
      BY <1>1
    <2>3. ToSet(new) = {new[i] : i \in 1 .. L}
      BY <2>2, Zenon DEF ToSet
    <2>4. \A i \in 1 .. L : new[i] = IF list[i] = previous THEN e ELSE list[i]
      BY <1>1
    <2> HIDE DEF new, list, L, previous
    <2>5. \A x \in ToSet(list) : x = previous \/ x \in ToSet(new)
      BY <1>1, <2>3, <2>4
    <2>6. \A x \in ToSet(new) : x = e \/ x \in ToSet(list)
      BY <1>1, <2>3, <2>4
    <2> QED  BY <2>1, <2>5, <2>6 DEF list
  <1>3. CASE e.id \notin DOMAIN acc.byId
    <2>1. next.list = Append(list, e) /\ next.sources = acc.sources \cup {e}
      BY <1>3 DEF ReplaceOne
    <2>2. ToSet(next.list) = ToSet(list) \cup {e}
      <3> HIDE DEF next
      <3> QED  BY <1>1, <2>1, OneAppended
    <2> QED  BY <2>1, <2>2
  <1> QED  BY <1>2, <1>3

LEMMA BatchAndNone ==
    ASSUME NEW batch \in Batch \cup {<<>>}
    PROVE  /\ Len(batch) \in Nat /\ DOMAIN batch = 1 .. Len(batch)
           /\ \A n \in 1 .. Len(batch) : batch[n] \in ToSet(batch)
           /\ ToSet(batch) = {batch[n] : n \in 1 .. Len(batch)}
           /\ ToSet(batch) \subseteq Entries
  <1>1. CASE batch \in Batch
    <2>1. batch \in Seq(ToSet(batch)) /\ ToSet(batch) \subseteq Entries
      BY <1>1, BatchAssumption DEF Entries
    <2>2. Len(batch) \in Nat /\ DOMAIN batch = 1 .. Len(batch)
      BY <2>1
    <2>3. ToSet(batch) = {batch[n] : n \in 1 .. Len(batch)}
      BY <2>2, Zenon DEF ToSet
    <2> QED  BY <2>1, <2>2, <2>3
  <1>2. CASE batch = <<>>
    BY <1>2 DEF ToSet
  <1> QED  BY <1>1, <1>2

\* What an add takes: each new id once, with its entry in the map, and nothing
\* that was there is touched.
LEMMA TakenAre ==
    ASSUME NEW byId, NEW batch \in Batch \cup {<<>>}
    PROVE  LET taken == TakeNew(byId, batch)
               new == {e.id : e \in ToSet(taken.added)}
           IN  /\ taken.added \in Seq(Entries) /\ Distinct(taken.added)
               /\ DOMAIN taken.byId = DOMAIN byId \cup new
               /\ new \cap DOMAIN byId = {}
               /\ \A i \in DOMAIN byId : taken.byId[i] = byId[i]
               /\ \A e \in ToSet(taken.added) : taken.byId[e.id] = e
               /\ taken.added # <<>> => new # {}
  <1> DEFINE L == Len(batch)
             base == [byId |-> byId, added |-> <<>>]
             New(acc) == {e.id : e \in ToSet(acc.added)}
             Good(acc) == /\ acc.added \in Seq(Entries)
                          /\ Distinct(acc.added)
                          /\ DOMAIN acc.byId = DOMAIN byId \cup New(acc)
                          /\ New(acc) \cap DOMAIN byId = {}
                          /\ \A i \in DOMAIN byId : acc.byId[i] = byId[i]
                          /\ \A e \in ToSet(acc.added) : acc.byId[e.id] = e
  <1>1. /\ L \in Nat /\ DOMAIN batch = 1 .. L
        /\ \A n \in 1 .. L : batch[n] \in Entries
    BY BatchAndNone
  <1>2. PICK after : Turns(Adding, base, batch, L, after)
    <2> HIDE DEF base, L
    <2> QED  BY <1>1, LoopSteps
  <1>3. Good(base)
    <2>1. ToSet(<<>>) = {} /\ <<>> \in Seq(Entries) /\ Distinct(<<>>)
      BY DEF ToSet, Distinct
    <2> QED  BY <2>1
  <1>4. ASSUME NEW acc, NEW e \in Entries, Good(acc)
        PROVE  Good(TakeOne(acc, e))
    <2>1. CASE e.id \in DOMAIN acc.byId
      BY <1>4, <2>1 DEF TakeOne
    <2>2. CASE e.id \notin DOMAIN acc.byId
      <3> DEFINE more == Put(acc.byId, e)
                 list == acc.added
                 longer == Append(list, e)
      <3>1. /\ DOMAIN more = DOMAIN acc.byId \cup {e.id}
            /\ \A i \in DOMAIN acc.byId : more[i] = acc.byId[i]
            /\ more[e.id] = e
        BY <2>2 DEF Put
      <3>2. list \in Seq(Entries)
        BY <1>4
      <3>3. /\ longer \in Seq(Entries) /\ ToSet(longer) = ToSet(list) \cup {e}
            /\ Len(list) \in Nat /\ DOMAIN list = 1 .. Len(list)
            /\ DOMAIN longer = 1 .. Len(list) + 1 /\ longer[Len(list) + 1] = e
            /\ \A i \in 1 .. Len(list) : longer[i] = list[i]
        BY <3>2, OneAppended
      <3>4. TakeOne(acc, e) = [byId |-> more, added |-> longer]
        BY <2>2 DEF TakeOne
      <3> HIDE DEF more, longer
      <3>5. New(TakeOne(acc, e)) = New(acc) \cup {e.id}
        BY <3>3, <3>4
      <3>6. \A d \in ToSet(list) : d.id # e.id
        BY <1>4, <2>2
      <3>7. Distinct(longer)
        <4>1. \A i \in 1 .. Len(list) : list[i].id # e.id
          BY <3>3, <3>6, Zenon DEF ToSet
        <4>2. ASSUME NEW i \in 1 .. Len(list) + 1, NEW j \in 1 .. Len(list) + 1,
                     longer[i].id = longer[j].id
              PROVE  i = j
          <5>1. CASE i \in 1 .. Len(list) /\ j \in 1 .. Len(list)
            BY <1>4, <3>3, <4>2, <5>1 DEF Distinct
          <5>2. CASE i = Len(list) + 1 \/ j = Len(list) + 1
            BY <3>3, <4>1, <4>2, <5>2
          <5> QED  BY <3>3, <5>1, <5>2
        <4> QED  BY <3>3, <4>2 DEF Distinct
      <3>8. e.id \notin DOMAIN byId
        BY <1>4, <2>2
      <3>9. \A d \in ToSet(list) : d.id \in DOMAIN acc.byId
        BY <1>4
      <3> QED  BY <1>4, <3>1, <3>3, <3>4, <3>5, <3>7, <3>8, <3>9
    <2> QED  BY <2>1, <2>2
  <1>5. ASSUME NEW n \in 1 .. L, Good(after[n - 1])
        PROVE  Good(after[n])
    <2>1. after[n] = TakeOne(after[n - 1], batch[n])
      BY <1>2 DEF Turns, Turn, Adding
    <2> HIDE DEF Good
    <2> QED  BY <1>1, <1>4, <1>5, <2>1
  <1>6. Good(after[L])
    <2> DEFINE T == {n \in 0 .. L : Good(after[n])}
    <2> HIDE DEF Good, L
    <2>1. 0 \in T
      BY <1>1, <1>2, <1>3 DEF Turns
    <2>2. \A n \in 1 .. L : n - 1 \in T => n \in T
      BY <1>1, <1>5
    <2>3. L \in T
      <3> HIDE DEF T
      <3> QED  BY <1>1, <2>1, <2>2, Counting
    <2> QED  BY <2>3
  <1>7. TakeNew(byId, batch) = after[L]
    BY <1>1, <1>2, TakeIsLoop DEF Turns
  <1>8. after[L].added # <<>> => New(after[L]) # {}
    <2>1. ASSUME NEW s \in Seq(Entries), s # <<>>
          PROVE  s[1] \in ToSet(s)
      <3>1. 1 \in DOMAIN s
        BY <2>1
      <3> QED  BY <3>1 DEF ToSet
    <2> QED  BY <1>6, <2>1
  <1> QED  BY <1>6, <1>7, <1>8

\* What a replacement replaces: the ids of the batch and no other, the list and
\* the map alike.
LEMMA ReplacedAre ==
    ASSUME NEW list, NEW byId, NEW batch \in Batch
    PROVE  LET done == FoldLeft(ReplaceOne,
                         [list |-> list, byId |-> byId, sources |-> {}], batch)
               given == {e.id : e \in ToSet(batch)}
           IN  /\ Holds(list, byId) /\ Distinct(list)
                    => /\ Holds(done.list, done.byId) /\ Distinct(done.list)
                       /\ ToSet(list) \ ToSet(done.list) \subseteq done.sources
                       /\ ToSet(done.list) \ ToSet(list) \subseteq done.sources
               /\ DOMAIN done.byId = DOMAIN byId \cup given
               /\ \A i \in DOMAIN byId \ given : done.byId[i] = byId[i]
  <1> DEFINE L == Len(batch)
             base == [list |-> list, byId |-> byId, sources |-> {}]
             Given(n) == {batch[j].id : j \in 1 .. n}
             Good(n, acc) == /\ Holds(list, byId) /\ Distinct(list)
                                  => /\ Holds(acc.list, acc.byId) /\ Distinct(acc.list)
                                     /\ ToSet(list) \ ToSet(acc.list) \subseteq acc.sources
                                     /\ ToSet(acc.list) \ ToSet(list) \subseteq acc.sources
                             /\ DOMAIN acc.byId = DOMAIN byId \cup Given(n)
                             /\ \A i \in DOMAIN byId \ Given(n) : acc.byId[i] = byId[i]
  <1>1. /\ L \in Nat /\ DOMAIN batch = 1 .. L
        /\ \A n \in 1 .. L : batch[n] \in Entries
        /\ ToSet(batch) = {batch[n] : n \in 1 .. L}
    BY BatchAndNone
  <1>2. PICK after : Turns(Replacing, base, batch, L, after)
    <2> HIDE DEF base, L
    <2> QED  BY <1>1, LoopSteps
  <1>3. Good(0, base)
    OBVIOUS
  <1>4. ASSUME NEW n \in 1 .. L, NEW acc, Good(n - 1, acc)
        PROVE  Good(n, ReplaceOne(acc, batch[n]))
    <2>1. ReplaceOne(acc, batch[n]).byId = Put(acc.byId, batch[n])
      BY DEF ReplaceOne
    <2>2. Given(n) = Given(n - 1) \cup {batch[n].id}
      OBVIOUS
    <2> DEFINE next == ReplaceOne(acc, batch[n])
    <2>3. ASSUME Holds(list, byId), Distinct(list)
          PROVE  /\ Holds(next.list, next.byId) /\ Distinct(next.list)
                 /\ ToSet(list) \ ToSet(next.list) \subseteq next.sources
                 /\ ToSet(next.list) \ ToSet(list) \subseteq next.sources
      <3>1. /\ Holds(acc.list, acc.byId) /\ Distinct(acc.list)
            /\ ToSet(list) \ ToSet(acc.list) \subseteq acc.sources
            /\ ToSet(acc.list) \ ToSet(list) \subseteq acc.sources
        BY <1>4, <2>3
      <3>2. Holds(next.list, next.byId) /\ Distinct(next.list)
        BY <1>1, <3>1, ReplaceHolds
      <3>3. /\ ToSet(acc.list) \ ToSet(next.list) \subseteq next.sources
            /\ ToSet(next.list) \ ToSet(acc.list) \subseteq next.sources
            /\ acc.sources \subseteq next.sources
        BY <1>1, <3>1, ReplaceSources
      <3> HIDE DEF next
      <3> QED  BY <3>1, <3>2, <3>3
    <2> HIDE DEF Given
    <2> QED  BY <1>4, <2>1, <2>2, <2>3 DEF Put
  <1>5. ASSUME NEW n \in 1 .. L, Good(n - 1, after[n - 1])
        PROVE  Good(n, after[n])
    <2>1. after[n] = ReplaceOne(after[n - 1], batch[n])
      BY <1>2 DEF Turns, Turn, Replacing
    <2> HIDE DEF Good
    <2> QED  BY <1>4, <1>5, <2>1
  <1>6. Good(L, after[L])
    <2> DEFINE T == {n \in 0 .. L : Good(n, after[n])}
    <2> HIDE DEF Good, L
    <2>1. 0 \in T
      BY <1>1, <1>2, <1>3 DEF Turns
    <2>2. \A n \in 1 .. L : n - 1 \in T => n \in T
      BY <1>1, <1>5
    <2>3. L \in T
      <3> HIDE DEF T
      <3> QED  BY <1>1, <2>1, <2>2, Counting
    <2> QED  BY <2>3
  <1>7. FoldLeft(ReplaceOne, base, batch) = after[L]
    BY <1>2, ReplaceIsLoop DEF Turns
  <1>8. Given(L) = {e.id : e \in ToSet(batch)}
    BY <1>1
  <1> QED  BY <1>6, <1>7, <1>8

\* In the order of the code, and what the map holds.
StoreInv == InOrder(entries) /\ Holds(entries, entryById)

LEMMA StoreStarts == Init => StoreInv
  <1> SUFFICES ASSUME Init PROVE StoreInv
    OBVIOUS
  <1>1. PICK batch \in Batch \cup {<<>>} :
          LET taken == TakeNew(<<>>, batch)
          IN  entryById = taken.byId /\ entries = SortEntries(taken.added)
    BY DEF Init
  <1> DEFINE taken == TakeNew(<<>>, batch)
             new == {e.id : e \in ToSet(taken.added)}
  <1>2. /\ taken.added \in Seq(Entries) /\ Distinct(taken.added)
        /\ DOMAIN taken.byId = DOMAIN <<>> \cup new
        /\ \A e \in ToSet(taken.added) : taken.byId[e.id] = e
    BY TakenAre
  <1>3. DOMAIN <<>> = {}
    OBVIOUS
  <1> HIDE DEF taken
  <1>4. /\ entries \in Seq(Entries) /\ ToSet(entries) = ToSet(taken.added)
        /\ InOrder(entries)
    BY <1>1, <1>2, SortIs DEF taken
  <1>5. entryById = taken.byId
    BY <1>1 DEF taken
  <1>6. \A i \in DOMAIN entryById : /\ entryById[i] \in ToSet(taken.added)
                                   /\ entryById[i].id = i
    BY <1>2, <1>3, <1>5
  <1>7. \A e \in ToSet(taken.added) : e.id \in DOMAIN entryById /\ entryById[e.id] = e
    BY <1>2, <1>5
  <1>8. ToSet(entries) = {entryById[i] : i \in DOMAIN entryById}
    BY <1>4, <1>6, <1>7
  <1> QED  BY <1>4, <1>6, <1>8 DEF StoreInv, Holds

LEMMA AddKeeps ==
    ASSUME StoreInv, NEW batch \in Batch, AddEntries(batch)
    PROVE  /\ StoreInv'
           /\ ToSet(entries') = ToSet(entries) \cup ToSet(TakeNew(entryById, batch).added)
  <1> DEFINE taken == TakeNew(entryById, batch)
             added == taken.added
             new == {e.id : e \in ToSet(added)}
  <1>1. /\ added \in Seq(Entries) /\ Distinct(added)
        /\ DOMAIN taken.byId = DOMAIN entryById \cup new
        /\ new \cap DOMAIN entryById = {}
        /\ \A i \in DOMAIN entryById : taken.byId[i] = entryById[i]
        /\ \A e \in ToSet(added) : taken.byId[e.id] = e
    BY TakenAre
  <1>2. entryById' = taken.byId /\ entries' = MergeSortedEntries(entries, added)
    BY DEF AddEntries
  <1> HIDE DEF taken
  <1>3. /\ entries \in Seq(Entries) /\ InOrder(entries)
        /\ ToSet(entries) = {entryById[i] : i \in DOMAIN entryById}
        /\ \A i \in DOMAIN entryById : entryById[i].id = i
        /\ \A e \in ToSet(entries) : e.id \in DOMAIN entryById
    BY HeldById DEF StoreInv, Holds
  <1>4. \A d \in ToSet(entries), e \in ToSet(added) : d.id # e.id
    BY <1>1, <1>3
  <1>5. /\ entries' \in Seq(Entries) /\ InOrder(entries)'
        /\ ToSet(entries') = ToSet(entries) \cup ToSet(added)
    <2>1. LET merged == MergeSortedEntries(entries, added)
          IN  /\ merged \in Seq(Entries) /\ InOrder(merged)
              /\ ToSet(merged) = ToSet(entries) \cup ToSet(added)
      <3> HIDE DEF added
      <3> QED  BY <1>1, <1>3, <1>4, MergeIs
    <2> HIDE DEF added
    <2> QED  BY <1>2, <2>1 DEF InOrder
  <1> HIDE DEF added
  <1>6. \A i \in DOMAIN entryById' : /\ entryById'[i] \in ToSet(entries')
                                    /\ entryById'[i].id = i
    BY <1>1, <1>2, <1>3, <1>5
  <1>7. \A e \in ToSet(entries') : e.id \in DOMAIN entryById' /\ entryById'[e.id] = e
    BY <1>1, <1>2, <1>3, <1>5
  <1>8. ToSet(entries') = {entryById'[i] : i \in DOMAIN entryById'}
    BY <1>6, <1>7
  <1> QED  BY <1>5, <1>6, <1>8 DEF StoreInv, Holds, added, taken

LEMMA RemoveKeeps ==
    ASSUME StoreInv, NEW ids, RemoveEntries(ids)
    PROVE  /\ StoreInv'
           /\ ToSet(entries') =
                {e \in ToSet(entries) : e.id \notin ids \cap DOMAIN entryById}
  <1> DEFINE gone == ids \cap DOMAIN entryById
  <1>1. /\ entryById' = [i \in DOMAIN entryById \ gone |-> entryById[i]]
        /\ entries' = Kept(entries, gone)
    BY DEF RemoveEntries
  <1>2. /\ entries \in Seq(Entries) /\ InOrder(entries)
        /\ ToSet(entries) = {entryById[i] : i \in DOMAIN entryById}
        /\ \A i \in DOMAIN entryById : entryById[i].id = i
    BY DEF StoreInv, Holds
  <1> HIDE DEF gone
  <1>3. /\ entries' \in Seq(Entries) /\ InOrder(entries)'
        /\ ToSet(entries') = {e \in ToSet(entries) : e.id \notin gone}
    <2>1. LET kept == Kept(entries, gone)
          IN  /\ kept \in Seq(Entries) /\ InOrder(kept)
              /\ ToSet(kept) = {e \in ToSet(entries) : e.id \notin gone}
      BY <1>2, KeptIs
    <2> QED  BY <1>1, <2>1 DEF InOrder
  <1>4. /\ DOMAIN entryById' = DOMAIN entryById \ gone
        /\ \A i \in DOMAIN entryById' : entryById'[i] = entryById[i]
    BY <1>1
  <1>5. ToSet(entries') = {entryById'[i] : i \in DOMAIN entryById'}
    BY <1>2, <1>3, <1>4
  <1>6. \A i \in DOMAIN entryById' : entryById'[i].id = i
    BY <1>2, <1>4
  <1> QED  BY <1>3, <1>5, <1>6 DEF StoreInv, Holds, gone

LEMMA ReplaceKeeps ==
    ASSUME StoreInv, NEW batch \in Batch, ReplaceEntries(batch)
    PROVE  LET done == FoldLeft(ReplaceOne,
                         [list |-> entries, byId |-> entryById, sources |-> {}], batch)
           IN  /\ StoreInv'
               /\ ToSet(entries') = ToSet(done.list)
               /\ ToSet(entries) \ ToSet(entries') \subseteq done.sources
               /\ ToSet(entries') \ ToSet(entries) \subseteq done.sources
  <1> DEFINE done == FoldLeft(ReplaceOne,
                       [list |-> entries, byId |-> entryById, sources |-> {}], batch)
  <1>1. Holds(entries, entryById) /\ Distinct(entries)
    BY HeldById DEF StoreInv
  <1>2. /\ Holds(done.list, done.byId) /\ Distinct(done.list)
        /\ ToSet(entries) \ ToSet(done.list) \subseteq done.sources
        /\ ToSet(done.list) \ ToSet(entries) \subseteq done.sources
    BY <1>1, ReplacedAre
  <1>3. entryById' = done.byId /\ entries' = SortEntries(done.list)
    BY DEF ReplaceEntries
  <1> HIDE DEF done
  <1>4. /\ entries' \in Seq(Entries) /\ InOrder(entries)'
        /\ ToSet(entries') = ToSet(done.list)
    <2>1. LET sorted == SortEntries(done.list)
          IN  /\ sorted \in Seq(Entries) /\ InOrder(sorted)
              /\ ToSet(sorted) = ToSet(done.list)
      BY <1>2, SortIs DEF Holds
    <2> QED  BY <1>3, <2>1 DEF InOrder
  <1>5. StoreInv'
    BY <1>2, <1>3, <1>4 DEF StoreInv, Holds
  <1> QED  BY <1>2, <1>4, <1>5 DEF done

LEMMA StoreKeeps == StoreInv /\ [Next]_vars => StoreInv'
  <1> SUFFICES ASSUME StoreInv, [Next]_vars PROVE StoreInv'
    OBVIOUS
  <1>1. CASE UNCHANGED <<entries, entryById>>
    BY <1>1 DEF StoreInv, InOrder, Holds, ToSet
  <1>2. CASE ~UNCHANGED <<entries, entryById>>
    <2>1. \/ \E batch \in Batch : AddEntries(batch)
          \/ \E ids \in IdSet : RemoveEntries(ids)
          \/ \E batch \in Batch : ReplaceEntries(batch)
      BY <1>2 DEF Next, ReadRegister, ReadIntoView, Search, Deliver, Return,
                  ListenerThrows, Subscribe, Unsubscribe, vars
    <2> QED  BY <2>1, AddKeeps, RemoveKeeps, ReplaceKeeps
  <1> QED  BY <1>1, <1>2

LEMMA StoreInvMatches == StoreInv => ListMatchesMap
  <1> SUFFICES ASSUME StoreInv PROVE ListMatchesMap
    OBVIOUS
  <1> DEFINE L == Len(entries)
             f == [i \in 1 .. L |-> entries[i].id]
  <1>1. /\ \A e \in ToSet(entries) : e.id \in DOMAIN entryById /\ entryById[e.id] = e
        /\ \A i \in DOMAIN entryById : entryById[i] \in ToSet(entries)
        /\ L \in Nat /\ DOMAIN entries = 1 .. L
        /\ ToSet(entries) = {entries[i] : i \in 1 .. L}
        /\ Distinct(entries)
    BY HeldById DEF StoreInv
  <1>2. /\ ToSet(entries) = {entryById[i] : i \in DOMAIN entryById}
        /\ \A i \in DOMAIN entryById : entryById[i].id = i
        /\ InOrder(entries)
    BY DEF StoreInv, Holds
  <1> HIDE DEF L
  <1>3. \A i \in 1 .. L - 1 : Before(entries[i], entries[i + 1])
    <2>1. ASSUME NEW i \in 1 .. L - 1
          PROVE  i \in DOMAIN entries /\ i + 1 \in DOMAIN entries /\ i < i + 1
      BY <1>1
    <2> QED  BY <1>2, <2>1 DEF InOrder
  <1>4. f \in Bijection(1 .. L, DOMAIN entryById)
    <2>1. f \in [1 .. L -> DOMAIN entryById]
      BY <1>1
    <2>2. IsInjective(f)
      BY <1>1 DEF IsInjective, Distinct
    <2>3. ASSUME NEW m \in DOMAIN entryById PROVE \E i \in 1 .. L : f[i] = m
      <3>1. PICK i \in 1 .. L : entries[i] = entryById[m]
        BY <1>1
      <3> QED  BY <1>2, <3>1
    <2> QED  BY <2>1, <2>2, <2>3 DEF Bijection, Injection, Surjection
  <1>5. Cardinality(DOMAIN entryById) = L
    BY <1>1, <1>4, FS_CountingElements DEF ExistsBijection
  <1> QED  BY <1>2, <1>3, <1>5 DEF ListMatchesMap, L

\* The list is in strict order and holds, once each, the entries that the map
\* holds, after any sequence of adds, removals and upserts, nested ones included.
THEOREM ListAlwaysMatchesMap == Spec => []ListMatchesMap
  BY StoreStarts, StoreKeeps, StoreInvMatches, PTL DEF Spec

-----------------------------------------------------------------------------
(* The events *)

\* The stack of calls is a sequence.
Stacked == \E F : frames \in Seq(F)

\* What is to be shown of a step: if it begins a loop, its event is honest.
EventHonest ==
    Len(frames') > Len(frames) =>
      LET ids == Last(frames').ids
          same(i) == /\ i \in DOMAIN entryById /\ i \in DOMAIN entryById'
                     /\ entryById[i] = entryById'[i]
      IN  /\ ids # {}
          /\ \A i \in DOMAIN entryById \cup DOMAIN entryById' :
               same(i) \/ i \in ids
          /\ ids \subseteq DOMAIN entryById \cup DOMAIN entryById'

LEMMA EmitStacks ==
    ASSUME Stacked, NEW ids, NEW sources, EmitMutation(ids, sources)
    PROVE  Stacked' /\ Last(frames').ids = ids
  <1>1. PICK F : frames \in Seq(F)
    BY DEF Stacked
  <1> DEFINE frame == [ids |-> ids, accounts |-> AccountsOf(sources),
                       running |-> None, pending |-> listeners]
  <1>2. frames' = Append(frames, frame) /\ frame.ids = ids
    BY DEF EmitMutation
  <1> HIDE DEF frame
  <1>3. frames \in Seq(F \cup {frame})
    BY <1>1
  <1>4. Append(frames, frame) \in Seq(F \cup {frame})
    BY <1>3
  <1>5. Last(Append(frames, frame)) = frame
    BY <1>3 DEF Last
  <1> QED  BY <1>2, <1>4, <1>5 DEF Stacked

\* No other step makes the stack longer, and each keeps it a sequence.
LEMMA OthersDoNotGrow ==
    ASSUME Stacked,
           \/ UNCHANGED frames
           \/ Deliver \/ Return \/ ListenerThrows
           \/ \E l \in Listener : Subscribe(l) \/ Unsubscribe(l)
    PROVE  Stacked' /\ ~(Len(frames') > Len(frames))
  <1>1. PICK F : frames \in Seq(F)
    BY DEF Stacked
  <1>2. Len(frames) \in Nat /\ DOMAIN frames = 1 .. Len(frames)
    BY <1>1
  <1>3. CASE UNCHANGED frames
    BY <1>1, <1>2, <1>3 DEF Stacked
  <1>4. ASSUME frames # <<>>
        PROVE  /\ Front(frames) \in Seq(F) /\ Len(Front(frames)) = Len(frames) - 1
    <2>1. Len(frames) - 1 \in Nat /\ \A i \in 1 .. Len(frames) : frames[i] \in F
      BY <1>1, <1>2, <1>4
    <2> DEFINE n == Len(frames) - 1
    <2>2. Front(frames) = [i \in 1 .. n |-> frames[i]]
      BY DEF Front
    <2>3. \A i \in 1 .. n : frames[i] \in F
      BY <1>2, <2>1
    <2>4. n \in Nat
      BY <2>1
    <2> HIDE DEF n
    <2>5. Front(frames) \in [1 .. n -> F]
      BY <2>2, <2>3
    <2>6. Front(frames) \in Seq(F) /\ Len(Front(frames)) = n
      BY <2>2, <2>4, <2>5
    <2> QED  BY <2>6 DEF n
  <1>5. CASE Deliver
    <2>1. PICK f : frames' = Append(Front(frames), f)
      BY <1>5 DEF Deliver
    <2>2. frames # <<>>
      BY <1>5 DEF Deliver
    <2>3. Front(frames) \in Seq(F \cup {f}) /\ Len(Front(frames)) = Len(frames) - 1
      BY <1>4, <2>2
    <2>4. frames' \in Seq(F \cup {f}) /\ Len(frames') = Len(frames)
      <3> DEFINE below == Front(frames)
      <3>1. below \in Seq(F \cup {f}) /\ f \in F \cup {f}
        BY <2>3
      <3> HIDE DEF below
      <3>2. /\ Append(below, f) \in Seq(F \cup {f})
            /\ Len(Append(below, f)) = Len(below) + 1
        BY <3>1
      <3>3. Len(below) = Len(frames) - 1 /\ frames' = Append(below, f)
        BY <2>1, <2>3 DEF below
      <3>4. frames' \in Seq(F \cup {f})
        BY <3>2, <3>3, Zenon
      <3>5. Len(frames') = Len(below) + 1
        BY <3>2, <3>3, Zenon
      <3>6. ASSUME NEW k \in Nat, NEW b, b = k - 1 PROVE b + 1 = k
        BY <3>6
      <3>7. Len(below) = Len(frames) - 1 /\ Len(frames) \in Nat
        BY <1>2, <3>3, Zenon
      <3>8. Len(frames') = Len(frames)
        BY <3>5, <3>6, <3>7, Zenon
      <3> QED  BY <3>4, <3>8
    <2> QED  BY <1>2, <2>4 DEF Stacked
  <1>6. CASE Return
    BY <1>2, <1>4, <1>6 DEF Return, Stacked
  <1>7. CASE ListenerThrows
    <2>1. frames' = <<>> /\ <<>> \in Seq(F) /\ Len(<<>>) = 0
      BY <1>7 DEF ListenerThrows
    <2> QED  BY <1>2, <2>1 DEF Stacked
  <1>8. ASSUME NEW g, DOMAIN g = DOMAIN frames, g = [i \in DOMAIN frames |-> g[i]],
               frames' = g
        PROVE  Stacked' /\ ~(Len(frames') > Len(frames))
    <2> DEFINE G == {g[i] : i \in 1 .. Len(frames)}
    <2>1. g \in Seq(G) /\ Len(g) = Len(frames)
      BY <1>2, <1>8
    <2>2. frames' \in Seq(G) /\ Len(frames') = Len(frames)
      BY <1>8, <2>1
    <2> HIDE DEF G
    <2> QED  BY <1>2, <2>2 DEF Stacked
  <1>9. ASSUME NEW l \in Listener, Subscribe(l) \/ Unsubscribe(l)
        PROVE  Stacked' /\ ~(Len(frames') > Len(frames))
    BY <1>8, <1>9 DEF Subscribe, Unsubscribe
  <1> QED  BY <1>3, <1>5, <1>6, <1>7, <1>9

LEMMA StepEvents == Stacked /\ [Next]_vars => Stacked' /\ [EventHonest]_vars
  <1> SUFFICES ASSUME Stacked, [Next]_vars PROVE Stacked' /\ EventHonest
    OBVIOUS
  <1>1. ASSUME NEW batch \in Batch, AddEntries(batch)
        PROVE  Stacked' /\ EventHonest
    <2> DEFINE taken == TakeNew(entryById, batch)
               new == {e.id : e \in ToSet(taken.added)}
    <2>1. /\ DOMAIN taken.byId = DOMAIN entryById \cup new
          /\ \A i \in DOMAIN entryById : taken.byId[i] = entryById[i]
          /\ taken.added # <<>> => new # {}
      BY TakenAre
    <2>2. /\ entryById' = taken.byId /\ new # {}
          /\ EmitMutation(new, ToSet(taken.added))
      BY <1>1, <2>1 DEF AddEntries
    <2> HIDE DEF taken, new
    <2> QED  BY <2>1, <2>2, EmitStacks DEF EventHonest
  <1>2. ASSUME NEW ids \in IdSet, RemoveEntries(ids)
        PROVE  Stacked' /\ EventHonest
    <2> DEFINE gone == ids \cap DOMAIN entryById
    <2>1. PICK removed :
            /\ gone # {}
            /\ entryById' = [i \in DOMAIN entryById \ gone |-> entryById[i]]
            /\ EmitMutation(gone, removed)
      BY <1>2 DEF RemoveEntries
    <2> QED  BY <2>1, EmitStacks DEF EventHonest
  <1>3. ASSUME NEW batch \in Batch, ReplaceEntries(batch)
        PROVE  Stacked' /\ EventHonest
    <2> DEFINE done == FoldLeft(ReplaceOne,
                         [list |-> entries, byId |-> entryById, sources |-> {}], batch)
               given == {e.id : e \in ToSet(batch)}
    <2>1. /\ DOMAIN done.byId = DOMAIN entryById \cup given
          /\ \A i \in DOMAIN entryById \ given : done.byId[i] = entryById[i]
      BY ReplacedAre
    <2>2. entryById' = done.byId /\ EmitMutation(given, done.sources)
      BY <1>3 DEF ReplaceEntries
    <2>3. given # {}
      <3>1. batch # <<>> /\ batch \in Seq(ToSet(batch))
        BY <1>3, BatchAssumption DEF ReplaceEntries
      <3>2. batch[1] \in ToSet(batch)
        BY <3>1 DEF ToSet
      <3> QED  BY <3>2
    <2> HIDE DEF done, given
    <2> QED  BY <2>1, <2>2, <2>3, EmitStacks DEF EventHonest
  <1>4. CASE ~(\E batch \in Batch : AddEntries(batch) \/ ReplaceEntries(batch))
             /\ ~(\E ids \in IdSet : RemoveEntries(ids))
    <2>1. \/ UNCHANGED frames
          \/ Deliver \/ Return \/ ListenerThrows
          \/ \E l \in Listener : Subscribe(l) \/ Unsubscribe(l)
      BY <1>4 DEF Next, ReadRegister, ReadIntoView, Search, vars
    <2> QED  BY <2>1, OthersDoNotGrow DEF EventHonest
  <1> QED  BY <1>1, <1>2, <1>3, <1>4

\* Each event names every id whose entry changed, and beyond those only ids that
\* were replaced, whatever listeners do while they are told.
THEOREM EventsAreHonest == Spec => EventsHonest
  <1>1. Init => Stacked
    BY DEF Init, Stacked
  <1>2. Spec => [][EventHonest]_vars
    BY <1>1, StepEvents, PTL DEF Spec
  <1> QED  BY <1>2 DEF EventsHonest, EventHonest

-----------------------------------------------------------------------------
(* The index.  Its rows are in the order of the list, and so the contents of *)
(* a register are those of its entries, in their order, whatever else the    *)
(* list holds.                                                               *)

LEMMA EntryIsLoop ==
    ASSUME NEW rows, NEW list, NEW e, NEW k
    PROVE  IndexEntry(rows, list, e, k.path, k.deep)
             = Looped(Postings(list, e, k), rows, [p \in DOMAIN list[e].postings |-> p])
  BY DEF IndexEntry, Looped, Turn, Postings, FoldLeftDomain, FoldLeft, MapThenFoldSet

LEMMA IndexIsLoop ==
    ASSUME NEW list, NEW k
    PROVE  RegisterPositions(list, k.path, k.deep)
             = Looped(Indexing(list, k), <<>>, [e \in DOMAIN list |-> e])
  BY DEF RegisterPositions, Looped, Turn, Indexing, FoldLeftDomain, FoldLeft, MapThenFoldSet

LEMMA WithoutIsLoop ==
    ASSUME NEW list, NEW l
    PROVE  Without(list, l) = Looped(Skipping(l), <<>>, list)
  BY DEF Without, Looped, Turn, Skipping, FoldLeft, MapThenFoldSet

Position == Nat \X Nat

Lower(a, b) == a[1] < b[1] \/ (a[1] = b[1] /\ a[2] < b[2])

Ascending(rows) == \A i, j \in DOMAIN rows : i < j => Lower(rows[i], rows[j])

\* The positions whose postings count for a register.
Hits(list, k) ==
    {pos \in Position : /\ pos[1] \in DOMAIN list
                        /\ pos[2] \in DOMAIN list[pos[1]].postings
                        /\ Counts(list[pos[1]].postings[pos[2]], k.path, k.deep)}

\* The index has got as far as the given position.
Indexed(list, k, upto, rows) ==
    /\ rows \in Seq(Position)
    /\ Ascending(rows)
    /\ ToSet(rows) = {pos \in Hits(list, k) : Lower(pos, upto)}

LEMMA EntryPostings ==
    ASSUME NEW e \in Entries
    PROVE  Len(e.postings) \in Nat /\ DOMAIN e.postings = 1 .. Len(e.postings)
  BY BatchAssumption DEF Entries

LEMMA OneMoreIndexed ==
    ASSUME NEW list, NEW k, NEW e \in DOMAIN list, NEW p \in DOMAIN list[e].postings,
           e \in Nat, p \in Nat, NEW rows, Indexed(list, k, <<e, p>>, rows)
    PROVE  Indexed(list, k, <<e, p + 1>>,
                   IndexPosting(rows, list, e, p, k.path, k.deep))
  <1> DEFINE pos == <<e, p>>
             below(upto) == {q \in Hits(list, k) : Lower(q, upto)}
  <1>1. pos \in Position /\ pos[1] = e /\ pos[2] = p
    BY DEF Position
  <1>2. \A q \in Position : Lower(q, <<e, p + 1>>) <=> Lower(q, <<e, p>>) \/ q = pos
    BY DEF Position, Lower
  <1>3. Hits(list, k) \subseteq Position
    BY DEF Hits
  <1>4. CASE ~Counts(list[e].postings[p], k.path, k.deep)
    <2>1. pos \notin Hits(list, k)
      BY <1>1, <1>4 DEF Hits
    <2> HIDE DEF pos
    <2>2. below(<<e, p + 1>>) = below(<<e, p>>)
      BY <1>2, <1>3, <2>1
    <2> QED  BY <1>4, <2>2 DEF Indexed, IndexPosting
  <1>5. CASE Counts(list[e].postings[p], k.path, k.deep)
    <2>1. pos \in Hits(list, k)
      BY <1>1, <1>5 DEF Hits
    <2>2. IndexPosting(rows, list, e, p, k.path, k.deep) = Append(rows, pos)
      BY <1>5 DEF IndexPosting
    <2>3. ~Lower(pos, pos) /\ rows \in Seq(Position) /\ Ascending(rows)
      BY <1>1 DEF Lower, Indexed
    <2>4. \A q \in ToSet(rows) : Lower(q, pos)
      BY DEF Indexed
    <2>5. ToSet(rows) = below(<<e, p>>)
      BY DEF Indexed
    <2> HIDE DEF pos
    <2>6. below(<<e, p + 1>>) = below(<<e, p>>) \cup {pos}
      BY <1>2, <1>3, <2>1
    <2> DEFINE longer == Append(rows, pos)
    <2>7. /\ longer \in Seq(Position) /\ DOMAIN longer = 1 .. Len(rows) + 1
          /\ ToSet(longer) = ToSet(rows) \cup {pos}
          /\ longer[Len(rows) + 1] = pos /\ \A i \in DOMAIN rows : longer[i] = rows[i]
      BY <1>1, <2>3, OneAppended
    <2>8. Len(rows) \in Nat /\ DOMAIN rows = 1 .. Len(rows)
      BY <2>3
    <2>9. \A i \in DOMAIN rows : rows[i] \in ToSet(rows)
      BY <2>8, Zenon DEF ToSet
    <2> HIDE DEF longer
    <2>10. ASSUME NEW i \in 1 .. Len(rows) + 1, NEW j \in 1 .. Len(rows) + 1, i < j
           PROVE  Lower(longer[i], longer[j])
      <3>1. i \in DOMAIN rows /\ longer[i] = rows[i] /\ rows[i] \in ToSet(rows)
        BY <2>7, <2>8, <2>9, <2>10
      <3>2. CASE j \in DOMAIN rows
        BY <2>3, <2>7, <2>10, <3>1, <3>2 DEF Ascending
      <3>3. CASE j = Len(rows) + 1
        BY <2>4, <2>7, <3>1, <3>3
      <3> QED  BY <2>8, <3>2, <3>3
    <2>11. Ascending(longer)
      BY <2>7, <2>10 DEF Ascending
    <2> QED  BY <2>2, <2>5, <2>6, <2>7, <2>11 DEF Indexed, longer
  <1> QED  BY <1>4, <1>5

LEMMA EntryIndexed ==
    ASSUME NEW list \in Seq(Entries), NEW k, NEW e \in DOMAIN list,
           NEW rows, Indexed(list, k, <<e, 1>>, rows)
    PROVE  Indexed(list, k, <<e + 1, 1>>, IndexEntry(rows, list, e, k.path, k.deep))
  <1> DEFINE L == Len(list[e].postings)
             loop == Postings(list, e, k)
             turns == [p \in DOMAIN list[e].postings |-> p]
  <1>1. list[e] \in Entries /\ e \in Nat
    OBVIOUS
  <1>2. L \in Nat /\ DOMAIN list[e].postings = 1 .. L /\ DOMAIN turns = 1 .. L
    BY <1>1, EntryPostings
  <1>3. PICK after : Turns(loop, rows, turns, L, after)
    <2> HIDE DEF L, loop, turns
    <2> QED  BY <1>2, LoopSteps
  <1> DEFINE T == {n \in 0 .. L : Indexed(list, k, <<e, n + 1>>, after[n])}
  <1>4. 0 \in T
    BY <1>2, <1>3 DEF Turns
  <1>5. ASSUME NEW n \in 1 .. L, n - 1 \in T
        PROVE  n \in T
    <2>1. Indexed(list, k, <<e, n>>, after[n - 1])
      <3>1. n - 1 + 1 = n
        BY <1>2
      <3> QED  BY <1>5, <3>1
    <2>2. turns[n] = n
      BY <1>2
    <2>3. after[n] = IndexPosting(after[n - 1], list, e, n, k.path, k.deep)
      <3>1. after[n] = Turn(loop, after[n - 1], n)
        BY <1>3, <2>2 DEF Turns
      <3> QED  BY <3>1 DEF Turn, Postings
    <2>4. n \in DOMAIN list[e].postings /\ n \in Nat
      BY <1>2
    <2>5. Indexed(list, k, <<e, n + 1>>, after[n])
      <3> HIDE DEF L, T
      <3> QED  BY <1>1, <2>1, <2>3, <2>4, OneMoreIndexed
    <2> QED  BY <2>5
  <1>6. L \in T
    <2> HIDE DEF T, L
    <2>1. L \in Nat
      BY <1>2
    <2>2. \A n \in 1 .. L : n - 1 \in T => n \in T
      BY <1>5
    <2>3. \A n \in 0 .. L : n \in T
      BY <1>4, <2>1, <2>2, Counting
    <2> QED  BY <2>1, <2>3
  <1>7. Indexed(list, k, <<e, L + 1>>, after[L])
    BY <1>6
  <1>8. ASSUME NEW pos \in Hits(list, k)
        PROVE  Lower(pos, <<e, L + 1>>) <=> Lower(pos, <<e + 1, 1>>)
    <2>1. /\ pos[1] \in Nat /\ pos[2] \in Nat /\ pos[1] \in DOMAIN list
          /\ pos[2] \in DOMAIN list[pos[1]].postings
      BY DEF Hits, Position
    <2>2. list[pos[1]] \in Entries
      BY <2>1
    <2>3. pos[2] \in 1 .. Len(list[pos[1]].postings) /\ pos[2] # 0
      BY <2>1, <2>2, EntryPostings
    <2>4. CASE pos[1] = e
      <3>1. pos[2] \in 1 .. L
        BY <2>3, <2>4
      <3> HIDE DEF L
      <3> QED  BY <1>1, <1>2, <2>1, <2>4, <3>1 DEF Lower
    <2>5. CASE pos[1] # e
      <3> HIDE DEF L
      <3> QED  BY <1>1, <1>2, <2>1, <2>3, <2>5 DEF Lower
    <2> QED  BY <2>4, <2>5
  <1>9. IndexEntry(rows, list, e, k.path, k.deep) = after[L]
    BY <1>3, EntryIsLoop DEF Turns
  <1> HIDE DEF L
  <1> QED  BY <1>7, <1>8, <1>9 DEF Indexed

\* The rows of an index are the positions of the postings that count, in order.
THEOREM PositionsAre ==
    ASSUME NEW list \in Seq(Entries), NEW k
    PROVE  LET rows == RegisterPositions(list, k.path, k.deep)
           IN  rows \in Seq(Position) /\ Ascending(rows) /\ ToSet(rows) = Hits(list, k)
  <1> DEFINE L == Len(list)
             loop == Indexing(list, k)
             turns == [e \in DOMAIN list |-> e]
  <1>1. L \in Nat /\ DOMAIN list = 1 .. L /\ DOMAIN turns = 1 .. L
    OBVIOUS
  <1>2. PICK after : Turns(loop, <<>>, turns, L, after)
    <2> HIDE DEF L, loop, turns
    <2> QED  BY <1>1, LoopSteps
  <1> DEFINE T == {n \in 0 .. L : Indexed(list, k, <<n + 1, 1>>, after[n])}
  <1>3. ASSUME NEW pos \in Hits(list, k)
        PROVE  Lower(pos, <<L + 1, 1>>) /\ ~Lower(pos, <<1, 1>>)
    <2>1. /\ pos[1] \in Nat /\ pos[2] \in Nat /\ pos[1] \in 1 .. L
          /\ pos[2] \in DOMAIN list[pos[1]].postings
      BY <1>1 DEF Hits, Position
    <2>2. list[pos[1]] \in Entries
      BY <1>1, <2>1
    <2>3. pos[2] \in 1 .. Len(list[pos[1]].postings) /\ pos[2] # 0
      BY <2>1, <2>2, EntryPostings
    <2> HIDE DEF L
    <2> QED  BY <1>1, <2>1, <2>3 DEF Lower
  <1>4. 0 \in T
    <2>1. after[0] = <<>> /\ ToSet(<<>>) = {} /\ <<>> \in Seq(Position) /\ Ascending(<<>>)
      BY <1>2 DEF Turns, ToSet, Ascending
    <2> HIDE DEF L
    <2>2. Indexed(list, k, <<0 + 1, 1>>, after[0])
      BY <1>3, <2>1 DEF Indexed
    <2> QED  BY <1>1, <2>2
  <1>5. ASSUME NEW n \in 1 .. L, n - 1 \in T
        PROVE  n \in T
    <2>1. Indexed(list, k, <<n, 1>>, after[n - 1])
      <3>1. n - 1 + 1 = n
        BY <1>1
      <3> QED  BY <1>5, <3>1
    <2>2. turns[n] = n
      BY <1>1
    <2>3. after[n] = IndexEntry(after[n - 1], list, n, k.path, k.deep)
      <3>1. after[n] = Turn(loop, after[n - 1], n)
        BY <1>2, <2>2 DEF Turns
      <3> QED  BY <3>1 DEF Turn, Indexing
    <2>4. Indexed(list, k, <<n + 1, 1>>, after[n])
      <3>1. n \in DOMAIN list
        BY <1>1
      <3> HIDE DEF L, T
      <3> QED  BY <2>1, <2>3, <3>1, EntryIndexed
    <2> QED  BY <2>4
  <1>6. L \in T
    <2> HIDE DEF T, L
    <2> QED  BY <1>1, <1>4, <1>5, Counting
  <1>7. Indexed(list, k, <<L + 1, 1>>, after[L])
    BY <1>6
  <1>8. RegisterPositions(list, k.path, k.deep) = after[L]
    BY <1>2, IndexIsLoop DEF Turns
  <1> HIDE DEF L
  <1> QED  BY <1>3, <1>7, <1>8 DEF Indexed

\* What a row is of: an entry and the place of one of its postings.
Item == Entries \X Nat

Earlier(a, b) == Before(a[1], b[1]) \/ (a[1] = b[1] /\ a[2] < b[2])

InTime(items) == \A i, j \in DOMAIN items : i < j => Earlier(items[i], items[j])

\* What a register shows of a set of entries.
Items(among, k) ==
    {item \in Item : /\ item[1] \in among
                     /\ item[2] \in DOMAIN item[1].postings
                     /\ Counts(item[1].postings[item[2]], k.path, k.deep)}

Content(list, rows) == [i \in DOMAIN rows |-> <<list[rows[i][1]], rows[i][2]>>]

LEMMA ContentIs ==
    ASSUME NEW list \in Seq(Entries), InOrder(list), NEW k
    PROVE  LET rows == RegisterPositions(list, k.path, k.deep)
               items == Content(list, rows)
           IN  /\ items \in Seq(Item) /\ InTime(items)
               /\ DOMAIN items = DOMAIN rows /\ DOMAIN rows = 1 .. Len(rows)
               /\ Len(rows) \in Nat /\ Len(items) = Len(rows)
               /\ ToSet(items) = Items(ToSet(list), k)
  <1> DEFINE rows == RegisterPositions(list, k.path, k.deep)
             items == Content(list, rows)
             N == Len(rows)
  <1>1. rows \in Seq(Position) /\ Ascending(rows) /\ ToSet(rows) = Hits(list, k)
    BY PositionsAre
  <1> HIDE DEF rows
  <1>2. N \in Nat /\ DOMAIN rows = 1 .. N
    BY <1>1
  <1>3. ToSet(rows) = {rows[i] : i \in 1 .. N}
    BY <1>2, Zenon DEF ToSet
  <1>4. \A i \in 1 .. N : /\ rows[i] \in Hits(list, k) /\ rows[i][1] \in Nat
                          /\ rows[i][2] \in Nat /\ rows[i][1] \in DOMAIN list
                          /\ list[rows[i][1]] \in Entries
    BY <1>1, <1>3 DEF Hits, Position
  <1>5. DOMAIN items = 1 .. N
    BY <1>2 DEF Content
  <1>6. \A i \in 1 .. N : /\ items[i] = <<list[rows[i][1]], rows[i][2]>>
                          /\ items[i] \in Item
    BY <1>2, <1>4 DEF Content, Item
  <1>7. items \in Seq(Item) /\ Len(items) = N
    <2>1. items = [i \in 1 .. N |-> items[i]]
      BY <1>2 DEF Content
    <2> HIDE DEF items, N
    <2> QED  BY <1>2, <1>6, <2>1
  <1>8. ASSUME NEW i \in 1 .. N, NEW j \in 1 .. N, i < j
        PROVE  Earlier(items[i], items[j])
    <2>1. Lower(rows[i], rows[j])
      BY <1>1, <1>2, <1>8 DEF Ascending
    <2>2. CASE rows[i][1] < rows[j][1]
      <3>1. Before(list[rows[i][1]], list[rows[j][1]])
        BY <1>4, <2>2 DEF InOrder
      <3> HIDE DEF items
      <3> QED  BY <1>6, <3>1 DEF Earlier
    <2>3. CASE rows[i][1] = rows[j][1] /\ rows[i][2] < rows[j][2]
      <3> HIDE DEF items
      <3> QED  BY <1>6, <2>3 DEF Earlier
    <2> QED  BY <2>1, <2>2, <2>3 DEF Lower
  <1>9. ToSet(items) = {items[i] : i \in 1 .. N}
    BY <1>5, Zenon DEF ToSet
  <1>10. ToSet(list) = {list[i] : i \in 1 .. Len(list)} /\ DOMAIN list = 1 .. Len(list)
    <2>1. DOMAIN list = 1 .. Len(list)
      OBVIOUS
    <2> QED  BY <2>1, Zenon DEF ToSet
  <1> HIDE DEF items, N
  <1>11. ASSUME NEW i \in 1 .. N
         PROVE  items[i] \in Items(ToSet(list), k)
    <2> DEFINE pos == rows[i]
    <2>1. /\ pos[1] \in DOMAIN list /\ pos[2] \in DOMAIN list[pos[1]].postings
          /\ Counts(list[pos[1]].postings[pos[2]], k.path, k.deep)
      BY <1>4 DEF Hits
    <2>2. items[i] \in Item /\ items[i][1] = list[pos[1]] /\ items[i][2] = pos[2]
      BY <1>6
    <2>3. list[pos[1]] \in ToSet(list)
      BY <1>10, <2>1
    <2> HIDE DEF pos
    <2> QED  BY <2>1, <2>2, <2>3 DEF Items
  <1>12. ASSUME NEW item \in Items(ToSet(list), k)
         PROVE  \E i \in 1 .. N : item = items[i]
    <2>1. /\ item \in Item /\ item[1] \in ToSet(list)
          /\ item[2] \in DOMAIN item[1].postings
          /\ Counts(item[1].postings[item[2]], k.path, k.deep)
      BY DEF Items
    <2>2. PICK e \in 1 .. Len(list) : list[e] = item[1]
      BY <1>10, <2>1
    <2> DEFINE pos == <<e, item[2]>>
    <2>3. item[2] \in Nat /\ item = <<item[1], item[2]>>
      BY <2>1 DEF Item
    <2>4. pos \in Hits(list, k)
      BY <1>10, <2>1, <2>2, <2>3 DEF Hits, Position
    <2>5. PICK i \in 1 .. N : rows[i] = pos
      BY <1>1, <1>3, <2>4
    <2> QED  BY <1>6, <2>2, <2>3, <2>5
  <1>13. ToSet(items) = Items(ToSet(list), k)
    BY <1>9, <1>11, <1>12
  <1>14. InTime(items)
    BY <1>5, <1>8 DEF InTime
  <1>15. DOMAIN items = DOMAIN rows /\ DOMAIN rows = 1 .. N /\ N = Len(rows)
    BY <1>2, <1>5 DEF N
  <1> QED  BY <1>2, <1>7, <1>13, <1>14, <1>15 DEF items, rows

LEMMA EarlierIsStrict ==
    ASSUME NEW a \in Item, NEW b \in Item, Earlier(a, b)
    PROVE  ~Earlier(b, a) /\ a # b
  <1>1. /\ a[1] \in Entries /\ b[1] \in Entries /\ a[2] \in Nat /\ b[2] \in Nat
    BY DEF Item
  <1>2. CASE Before(a[1], b[1])
    <2>1. ~Before(b[1], a[1]) /\ a[1] # b[1]
      <3>1. ~Before(b[1], a[1])
        BY <1>1, <1>2, BeforeIsTotal
      <3> QED  BY <1>2, <3>1
    <2> QED  BY <2>1 DEF Earlier
  <1>3. CASE a[1] = b[1] /\ a[2] < b[2]
    <2>1. ~Before(b[1], a[1])
      BY <1>1, <1>3, BeforeIsTotal
    <2> QED  BY <1>1, <1>3, <2>1 DEF Earlier
  <1> QED  BY <1>2, <1>3 DEF Earlier

\* There is one order, so that what one list holds the other begins with.
LEMMA OneOrder ==
    ASSUME NEW s \in Seq(Item), NEW t \in Seq(Item), InTime(s), InTime(t),
           ToSet(s) = ToSet(t)
    PROVE  \A n \in 1 .. Len(s) : n \in 1 .. Len(t) /\ s[n] = t[n]
  <1> DEFINE T == {n \in Nat : n \in 1 .. Len(s) /\ ~(n \in 1 .. Len(t) /\ s[n] = t[n])}
             M == Len(s)
             N == Len(t)
  <1> SUFFICES ASSUME T # {} PROVE FALSE
    OBVIOUS
  <1>1. PICK n \in T : \A m \in T : n <= m
    BY LeastNat
  <1>2. /\ M \in Nat /\ N \in Nat /\ DOMAIN s = 1 .. M /\ DOMAIN t = 1 .. N
        /\ \A i \in 1 .. M : s[i] \in Item
        /\ \A i \in 1 .. N : t[i] \in Item
    OBVIOUS
  <1>3. n \in Nat /\ n \in 1 .. M /\ ~(n \in 1 .. N /\ s[n] = t[n])
    BY <1>1
  <1>4. \A j \in 1 .. M : j < n => j \in 1 .. N /\ s[j] = t[j]
    <2>1. ASSUME NEW j \in 1 .. M, j < n PROVE j \notin T
      BY <1>1, <1>2, <2>1
    <2> QED  BY <1>2, <2>1
  <1>5. /\ \A i \in 1 .. M : \E j \in 1 .. N : t[j] = s[i]
        /\ \A j \in 1 .. N : \E i \in 1 .. M : s[i] = t[j]
    <2>1. ToSet(s) = {s[i] : i \in 1 .. M} /\ ToSet(t) = {t[i] : i \in 1 .. N}
      BY <1>2, Zenon DEF ToSet
    <2> HIDE DEF M, N
    <2>2. {s[i] : i \in 1 .. M} = {t[i] : i \in 1 .. N}
      BY <2>1
    <2> QED  BY <2>2
  <1> HIDE DEF T, M, N
  <1>6. PICK m \in 1 .. N : t[m] = s[n]
    BY <1>3, <1>5
  <1>7. ~(m < n)
    <2>1. SUFFICES ASSUME m < n PROVE FALSE
      OBVIOUS
    <2>2. m \in 1 .. M
      BY <1>2, <1>3, <2>1
    <2>3. s[m] = s[n]
      BY <1>4, <1>6, <2>1, <2>2
    <2>4. Earlier(s[m], s[n])
      BY <1>2, <1>3, <2>1, <2>2 DEF InTime
    <2> QED  BY <1>2, <1>3, <2>2, <2>3, <2>4, EarlierIsStrict
  <1>8. n \in 1 .. N /\ n < m
    <2>1. n # m
      BY <1>3, <1>6
    <2> QED  BY <1>2, <1>3, <1>7, <2>1
  <1>9. Earlier(t[n], t[m])
    BY <1>2, <1>8 DEF InTime
  <1>10. PICK q \in 1 .. M : s[q] = t[n]
    BY <1>5, <1>8
  <1>11. CASE q < n
    <2>1. s[q] = t[q] /\ q \in 1 .. N
      BY <1>4, <1>11
    <2>2. Earlier(t[q], t[n])
      BY <1>2, <1>8, <1>11, <2>1 DEF InTime
    <2> QED  BY <1>2, <1>8, <1>10, <2>1, <2>2, EarlierIsStrict
  <1>12. CASE q = n
    BY <1>3, <1>8, <1>10, <1>12
  <1>13. CASE n < q
    <2>1. Earlier(s[n], s[q])
      BY <1>2, <1>3, <1>13 DEF InTime
    <2> QED  BY <1>2, <1>3, <1>6, <1>9, <1>10, <2>1, EarlierIsStrict
  <1> QED  BY <1>2, <1>3, <1>11, <1>12, <1>13

\* Running totals depend on the postings of the rows alone.
LEMMA SameTotals ==
    ASSUME NEW list, NEW rows, NEW other, NEW others, NEW c,
           Len(others) = Len(rows), Len(rows) \in Nat,
           \A i \in 1 .. Len(rows) : PostingAt(list, rows[i]) = PostingAt(other, others[i])
    PROVE  RunningTotals(list, rows, c) = RunningTotals(other, others, c)
  <1> DEFINE N == Len(rows)
             one(run) == [i \in 0 .. N |->
                            IF i = 0 THEN 0
                            ELSE LET posting == PostingAt(list, rows[i])
                                 IN  IF posting.currency = c
                                     THEN Float(run[i - 1] + posting.amount)
                                     ELSE run[i - 1]]
             two(run) == [i \in 0 .. N |->
                            IF i = 0 THEN 0
                            ELSE LET posting == PostingAt(other, others[i])
                                 IN  IF posting.currency = c
                                     THEN Float(run[i - 1] + posting.amount)
                                     ELSE run[i - 1]]
  <1>1. ASSUME NEW run PROVE one(run) = two(run)
    <2>1. \A i \in 0 .. N : i # 0 => i \in 1 .. N
      OBVIOUS
    <2> HIDE DEF N
    <2>2. \A i \in 0 .. N : i # 0 => PostingAt(list, rows[i]) = PostingAt(other, others[i])
      BY <2>1 DEF N
    <2>3. \A i \in 0 .. N : one(run)[i] = two(run)[i]
      BY <2>2
    <2> QED  BY <2>3
  <1> HIDE DEF one, two
  <1>2. (CHOOSE run : run = one(run)) = (CHOOSE run : run = two(run))
    BY <1>1, Zenon
  <1>3. RunningTotals(list, rows, c) = CHOOSE run : run = one(run)
    BY DEF RunningTotals, one
  <1>4. RunningTotals(other, others, c) = CHOOSE run : run = two(run)
    BY DEF RunningTotals, two
  <1> QED  BY <1>2, <1>3, <1>4

\* Lists that show the same items of a register show the same rows of it.
LEMMA SameRows ==
    ASSUME NEW list \in Seq(Entries), NEW other \in Seq(Entries),
           InOrder(list), InOrder(other), NEW k,
           Items(ToSet(list), k) = Items(ToSet(other), k)
    PROVE  Rows(list, k) = Rows(other, k)
  <1> DEFINE rows == RegisterPositions(list, k.path, k.deep)
             others == RegisterPositions(other, k.path, k.deep)
             items == Content(list, rows)
             more == Content(other, others)
             N == Len(rows)
  <1>1. /\ items \in Seq(Item) /\ InTime(items) /\ DOMAIN rows = 1 .. N
        /\ N \in Nat /\ Len(items) = N /\ ToSet(items) = Items(ToSet(list), k)
        /\ DOMAIN items = DOMAIN rows
    BY ContentIs
  <1>2. /\ more \in Seq(Item) /\ InTime(more) /\ DOMAIN others = 1 .. Len(others)
        /\ Len(others) \in Nat /\ Len(more) = Len(others)
        /\ ToSet(more) = Items(ToSet(other), k) /\ DOMAIN more = DOMAIN others
    BY ContentIs
  <1> HIDE DEF rows, others, N
  <1>3. /\ \A n \in 1 .. Len(items) : n \in 1 .. Len(more) /\ items[n] = more[n]
        /\ \A n \in 1 .. Len(more) : n \in 1 .. Len(items) /\ more[n] = items[n]
    <2> HIDE DEF items, more
    <2>1. ToSet(items) = ToSet(more)
      BY <1>1, <1>2
    <2> QED  BY <1>1, <1>2, <2>1, OneOrder
  <1>4. Len(others) = N
    <2> HIDE DEF items, more
    <2>1. /\ \A n \in 1 .. N : n \in 1 .. Len(others)
          /\ \A n \in 1 .. Len(others) : n \in 1 .. N
      BY <1>1, <1>2, <1>3
    <2>2. ASSUME NEW a \in Nat, NEW b \in Nat,
                 \A n \in 1 .. a : n \in 1 .. b, \A n \in 1 .. b : n \in 1 .. a
          PROVE  a = b
      <3>1. (a # 0 => a \in 1 .. a) /\ (b # 0 => b \in 1 .. b)
        OBVIOUS
      <3>2. (a # 0 => a \in 1 .. b) /\ (b # 0 => b \in 1 .. a)
        BY <2>2, <3>1
      <3> QED  BY <3>2
    <2>3. N \in Nat /\ Len(others) \in Nat
      BY <1>1, <1>2
    <2> QED  BY <2>1, <2>2, <2>3
  <1>5. \A i \in 1 .. N : /\ list[rows[i][1]] = other[others[i][1]]
                          /\ rows[i][2] = others[i][2]
    <2> SUFFICES ASSUME NEW i \in 1 .. N
                 PROVE  /\ list[rows[i][1]] = other[others[i][1]]
                        /\ rows[i][2] = others[i][2]
      OBVIOUS
    <2>1. items[i] = <<list[rows[i][1]], rows[i][2]>>
      BY <1>1 DEF Content
    <2>2. more[i] = <<other[others[i][1]], others[i][2]>>
      BY <1>2, <1>4 DEF Content
    <2>3. items[i] = more[i]
      BY <1>1, <1>3
    <2> HIDE DEF items, more
    <2> QED  BY <2>1, <2>2, <2>3
  <1>6. \A i \in 1 .. N : PostingAt(list, rows[i]) = PostingAt(other, others[i])
    BY <1>5 DEF PostingAt
  <1>7. \A c : RunningTotals(list, rows, c) = RunningTotals(other, others, c)
    BY <1>1, <1>4, <1>6, SameTotals DEF N
  <1> DEFINE shown == [i \in 1 .. N |->
                         RowWithBalance(list, rows[i],
                           RunningTotals(list, rows, PostingAt(list, rows[i]).currency)[i])]
             alike == [i \in 1 .. N |->
                         RowWithBalance(other, others[i],
                           RunningTotals(other, others,
                                         PostingAt(other, others[i]).currency)[i])]
  <1>8. shown = alike
    BY <1>5, <1>6, <1>7 DEF RowWithBalance
  <1>9. ASSUME NEW l, NEW r, NEW n, DOMAIN r = 1 .. n, n = Len(r),
               r = RegisterPositions(l, k.path, k.deep)
        PROVE  Rows(l, k) = ClampedSlice(
                 [i \in 1 .. n |-> RowWithBalance(l, r[i],
                    RunningTotals(l, r, PostingAt(l, r[i]).currency)[i])], 0, n)
    <2> DEFINE currencies == {PostingAt(l, r[i]).currency : i \in DOMAIN r}
               sums == [c \in currencies |-> RunningTotals(l, r, c)]
               slots == [i \in DOMAIN r |->
                           RowWithBalance(l, r[i],
                             sums[PostingAt(l, r[i]).currency][i])]
    <2>1. /\ Index(l, k).rows = r
          /\ Index(l, k).sums = sums
      BY <1>9 DEF Index, BuildRegisterIndex
    <2>2. Rows(l, k) = ClampedSlice(slots, 0, n)
      BY <1>9, <2>1 DEF Rows, ReadRegisterSlice
    <2>3. \A i \in DOMAIN r : sums[PostingAt(l, r[i]).currency]
                                = RunningTotals(l, r, PostingAt(l, r[i]).currency)
      OBVIOUS
    <2>4. slots = [i \in 1 .. n |-> RowWithBalance(l, r[i],
                     RunningTotals(l, r, PostingAt(l, r[i]).currency)[i])]
      <3> HIDE DEF sums
      <3> QED  BY <1>9, <2>3
    <2> QED  BY <2>2, <2>4
  <1>10. Rows(list, k) = ClampedSlice(shown, 0, N)
    <2>1. N = Len(rows) /\ rows = RegisterPositions(list, k.path, k.deep)
      BY DEF N, rows
    <2> QED  BY <1>1, <1>9, <2>1
  <1>11. Rows(other, k) = ClampedSlice(alike, 0, N)
    <2>1. DOMAIN others = 1 .. N /\ others = RegisterPositions(other, k.path, k.deep)
      BY <1>2, <1>4 DEF others
    <2> QED  BY <1>4, <1>9, <2>1
  <1> HIDE DEF shown, alike
  <1> QED  BY <1>8, <1>10, <1>11

\* A register that no account of the entries that come or go is in shows the same.
LEMMA Untouched ==
    ASSUME NEW list \in Seq(Entries), NEW other \in Seq(Entries),
           InOrder(list), InOrder(other), NEW k, NEW sources,
           ToSet(list) \ ToSet(other) \subseteq sources,
           ToSet(other) \ ToSet(list) \subseteq sources,
           ~Touches(AccountsOf(sources), k)
    PROVE  Rows(list, k) = Rows(other, k)
  <1>1. ASSUME NEW item \in Item, item[1] \in sources,
               item[2] \in DOMAIN item[1].postings
        PROVE  ~Counts(item[1].postings[item[2]], k.path, k.deep)
    <2>1. item[1].postings[item[2]].account \in AccountsOf(sources)
      BY <1>1 DEF AccountsOf
    <2> QED  BY <2>1 DEF Touches, Counts
  <1>2. Items(ToSet(list), k) = Items(ToSet(other), k)
    BY <1>1 DEF Items
  <1> QED  BY <1>2, SameRows

-----------------------------------------------------------------------------
(* What a register adds up to.  A sum over a set of postings takes any of   *)
(* them first, a running total that is safe was never rounded, and a search *)
(* by halves ends at the last row that passes.                              *)

Amount(list, pos) == PostingAt(list, pos).amount

\* What the postings at some positions add up to, exactly.
Tally(list, S) == MapThenSumSet(LAMBDA pos : PostingAt(list, pos).amount, S)

\* Where a sum begins.
First(s) == CHOOSE x \in s : TRUE

OneMore(list, g, s) == IF s = {} THEN 0 ELSE Amount(list, First(s)) + g[s \ {First(s)}]

IsTally(list, S, g) == g = [s \in SUBSET S |-> OneMore(list, g, s)]

\* The parts of a finite set, by how many elements they have.
LEMMA PartsOf ==
    ASSUME NEW S, IsFiniteSet(S), NEW s \in SUBSET S
    PROVE  /\ IsFiniteSet(s) /\ Cardinality(s) \in 0 .. Cardinality(S)
           /\ Cardinality(S) \in Nat
           /\ Cardinality(s) = 0 <=> s = {}
           /\ \A x \in s : Cardinality(s \ {x}) = Cardinality(s) - 1
  <1>1. IsFiniteSet(s) /\ Cardinality(s) <= Cardinality(S)
    BY FS_Subset
  <1>2. Cardinality(s) \in Nat /\ Cardinality(S) \in Nat
    BY <1>1, FS_CardinalityType
  <1>3. Cardinality(s) = 0 <=> s = {}
    BY <1>1, FS_EmptySet
  <1>4. \A x \in s : Cardinality(s \ {x}) = Cardinality(s) - 1
    BY <1>1, FS_RemoveElement
  <1> QED  BY <1>1, <1>2, <1>3, <1>4

\* What holds of the empty set and, if of all the parts with one element less,
\* of a part, holds of all the parts of a finite set.
LEMMA PartByPart ==
    ASSUME NEW S, IsFiniteSet(S), NEW Good, {} \in Good,
           \A s \in SUBSET S : s # {} /\ (\A x \in s : s \ {x} \in Good) => s \in Good
    PROVE  \A s \in SUBSET S : s \in Good
  <1> DEFINE N == Cardinality(S)
             T == {n \in 0 .. N : \A s \in SUBSET S : Cardinality(s) = n => s \in Good}
  <1>1. N \in Nat
    BY FS_CardinalityType
  <1>2. 0 \in T
    BY <1>1, PartsOf
  <1>3. ASSUME NEW n \in 1 .. N, n - 1 \in T PROVE n \in T
    <2> SUFFICES ASSUME NEW s \in SUBSET S, Cardinality(s) = n PROVE s \in Good
      BY <1>1
    <2>1. s # {} /\ \A x \in s : Cardinality(s \ {x}) = n - 1
      BY PartsOf, n # 0
    <2>2. \A x \in s : s \ {x} \in SUBSET S
      OBVIOUS
    <2>3. \A x \in s : s \ {x} \in Good
      BY <1>3, <2>1, <2>2
    <2> QED  BY <2>1, <2>3
  <1> HIDE DEF T, N
  <1>4. \A n \in 1 .. N : n - 1 \in T => n \in T
    BY <1>3
  <1>5. \A n \in 0 .. N : n \in T
    BY <1>1, <1>2, <1>4, Counting
  <1> TAKE s \in SUBSET S
  <1>6. Cardinality(s) \in 0 .. N
    BY PartsOf DEF N
  <1> QED  BY <1>5, <1>6 DEF T

\* The recursion of the sum has a solution on every finite set.
LEMMA TallyExists ==
    ASSUME NEW list, NEW S, IsFiniteSet(S)
    PROVE  \E g : IsTally(list, S, g)
  <1> DEFINE N == Cardinality(S)
             Parts == SUBSET S
             Small(n) == {s \in Parts : Cardinality(s) \in 0 .. n}
             Fits(n, g) == g = [s \in Small(n) |-> OneMore(list, g, s)]
             T == {n \in 0 .. N : \E g : Fits(n, g)}
  <1>1. N \in Nat
    BY FS_CardinalityType
  <1>2. \A s \in Parts : /\ Cardinality(s) \in 0 .. N
                         /\ (Cardinality(s) = 0) <=> (s = {})
                         /\ \A x \in s : /\ s \ {x} \in Parts
                                         /\ Cardinality(s \ {x}) = Cardinality(s) - 1
    BY PartsOf
  <1> HIDE DEF N, Parts
  <1>3. 0 \in T
    <2> DEFINE g == [s \in Small(0) |-> 0]
    <2>1. \A s \in Small(0) : s = {}
      BY <1>1, <1>2
    <2>2. \A s \in Small(0) : OneMore(list, g, s) = 0
      BY <2>1 DEF OneMore
    <2>3. Fits(0, g)
      BY <2>2
    <2>4. 0 \in 0 .. N
      BY <1>1
    <2> HIDE DEF g, Fits
    <2> QED  BY <2>3, <2>4
  <1>4. ASSUME NEW n \in 1 .. N, n - 1 \in T PROVE n \in T
    <2>1. PICK g : Fits(n - 1, g)
      BY <1>4
    <2> DEFINE h == [s \in Small(n) |-> OneMore(list, g, s)]
    <2>2. \A s \in Small(n - 1) : s \in Small(n)
      BY <1>1, <1>2
    <2>3. \A s \in Small(n - 1) : h[s] = g[s]
      BY <2>1, <2>2
    <2>4. ASSUME NEW s \in Small(n) PROVE OneMore(list, g, s) = OneMore(list, h, s)
      <3>1. CASE s = {}
        BY <3>1 DEF OneMore
      <3>2. CASE s # {}
        <4>1. First(s) \in s
          BY <3>2 DEF First, Parts
        <4>2. s \ {First(s)} \in Small(n - 1)
          <5> DEFINE c == First(s)
                     size == Cardinality(s)
          <5>1. /\ size \in 0 .. n /\ size # 0
                /\ s \ {c} \in Parts /\ Cardinality(s \ {c}) = size - 1
            BY <1>2, <3>2, <4>1
          <5> HIDE DEF size
          <5>2. size - 1 \in 0 .. n - 1
            BY <1>1, <5>1
          <5> QED  BY <5>1, <5>2
        <4> HIDE DEF h
        <4> QED  BY <2>3, <3>2, <4>2 DEF OneMore
      <3> QED  BY <3>1, <3>2
    <2>5. Fits(n, h)
      <3> DEFINE w == [s \in Small(n) |-> OneMore(list, h, s)]
      <3>1. \A s \in Small(n) : h[s] = w[s]
        BY <2>4
      <3>2. h = w
        BY <3>1
      <3> QED  BY <3>2
    <2> HIDE DEF h, Fits
    <2> QED  BY <2>5
  <1> HIDE DEF T
  <1>5. \A n \in 1 .. N : n - 1 \in T => n \in T
    BY <1>4
  <1>6. N \in T
    BY <1>1, <1>3, <1>5, Counting
  <1>7. PICK g : Fits(N, g)
    BY <1>6 DEF T
  <1>8. Small(N) = SUBSET S
    <2>1. \A s \in Parts : s \in Small(N)
      BY <1>2
    <2>2. \A s \in Small(N) : s \in Parts
      OBVIOUS
    <2> HIDE DEF Small
    <2> QED  BY <2>1, <2>2 DEF Parts
  <1> QED  BY <1>7, <1>8 DEF IsTally

\* It does not depend on the set that it is summed within.
LEMMA TalliesAgree ==
    ASSUME NEW list, NEW S, IsFiniteSet(S), NEW g, IsTally(list, S, g),
           NEW D \in SUBSET S, NEW h, IsTally(list, D, h)
    PROVE  h[D] = g[D]
  <1> DEFINE Good == {s \in SUBSET D : h[s] = g[s]}
  <1>1. IsFiniteSet(D)
    BY FS_Subset
  <1>2. \A s \in SUBSET D : h[s] = OneMore(list, h, s) /\ g[s] = OneMore(list, g, s)
    <2>1. \A s \in SUBSET D : s \in SUBSET S
      OBVIOUS
    <2> QED  BY <2>1 DEF IsTally
  <1>3. {} \in Good
    BY <1>2 DEF OneMore
  <1>4. ASSUME NEW s \in SUBSET D, s # {}, \A x \in s : s \ {x} \in Good
        PROVE  s \in Good
    <2>1. First(s) \in s
      BY <1>4 DEF First
    <2>2. h[s \ {First(s)}] = g[s \ {First(s)}]
      BY <1>4, <2>1
    <2> QED  BY <1>2, <1>4, <2>2 DEF OneMore
  <1> HIDE DEF Good
  <1>5. D \in Good
    BY <1>1, <1>3, <1>4, PartByPart
  <1> QED  BY <1>5 DEF Good

\* A sum is that of one element and of the rest.
LEMMA TallyIs ==
    ASSUME NEW list, NEW S, IsFiniteSet(S), NEW D \in SUBSET S
    PROVE  /\ D = {} => Tally(list, D) = 0
           /\ D # {} => Tally(list, D)
                           = Amount(list, First(D)) + Tally(list, D \ {First(D)})
  <1> DEFINE iter(A) == CHOOSE g : IsTally(list, A, g)
  <1>1. \A A : Tally(list, A) = iter(A)[A]
    BY DEF Tally, MapThenSumSet, MapThenFoldSet, IsTally, OneMore, First, Amount
  <1>2. \A A \in SUBSET S : IsTally(list, A, iter(A))
    <2> TAKE A \in SUBSET S
    <2>1. IsFiniteSet(A)
      <3>1. \A s \in SUBSET A : s \in SUBSET S
        OBVIOUS
      <3> QED  BY <3>1, FS_Subset
    <2>2. \E g : IsTally(list, A, g)
      BY <2>1, TallyExists
    <2> QED  BY <2>2
  <1> HIDE DEF iter
  <1>3. \A A \in SUBSET S : iter(A)[A] = iter(S)[A]
    BY <1>2, TalliesAgree
  <1>4. \A A \in SUBSET S : Tally(list, A) = iter(S)[A]
    BY <1>1, <1>3
  <1>5. iter(S)[D] = OneMore(list, iter(S), D)
    BY <1>2 DEF IsTally
  <1>6. CASE D = {}
    BY <1>4, <1>5, <1>6 DEF OneMore
  <1>7. CASE D # {}
    <2>1. D \ {First(D)} \in SUBSET S
      OBVIOUS
    <2> QED  BY <1>4, <1>5, <1>7, <2>1 DEF OneMore
  <1> QED  BY <1>6, <1>7

\* A sum takes any of its parts first.
LEMMA TallyFirst ==
    ASSUME NEW list, NEW U, IsFiniteSet(U), \A x \in U : Amount(list, x) \in Int
    PROVE  /\ Tally(list, {}) = 0
           /\ \A D \in SUBSET U :
                /\ Tally(list, D) \in Int
                /\ \A x \in D : Tally(list, D) = Amount(list, x) + Tally(list, D \ {x})
  <1> DEFINE sum(D) == Tally(list, D)
             w(x) == Amount(list, x)
             Good == {D \in SUBSET U :
                        /\ sum(D) \in Int
                        /\ \A x \in D : /\ sum(D \ {x}) \in Int
                                        /\ sum(D) = w(x) + sum(D \ {x})}
  <1>1. /\ sum({}) = 0
        /\ \A D \in SUBSET U : D # {} =>
             First(D) \in D /\ sum(D) = w(First(D)) + sum(D \ {First(D)})
    <2>1. Tally(list, {}) = 0
      BY TallyIs
    <2>2. ASSUME NEW D \in SUBSET U, D # {}
          PROVE  /\ First(D) \in D
                 /\ Tally(list, D) = Amount(list, First(D)) + Tally(list, D \ {First(D)})
      <3>1. First(D) \in D
        BY <2>2 DEF First
      <3> QED  BY <2>2, <3>1, TallyIs
    <2> QED  BY <2>1, <2>2
  <1>2. \A x \in U : w(x) \in Int
    OBVIOUS
  <1> HIDE DEF sum, w
  <1>3. {} \in Good
    BY <1>1
  <1>4. ASSUME NEW D \in SUBSET U, D # {}, \A x \in D : D \ {x} \in Good
        PROVE  D \in Good
    <2> DEFINE y == First(D)
    <2>1. y \in D /\ sum(D) = w(y) + sum(D \ {y})
      BY <1>1, <1>4
    <2> HIDE DEF y
    <2>2. /\ \A x \in D : sum(D \ {x}) \in Int
          /\ \A x \in D : \A z \in D \ {x} :
               /\ sum((D \ {x}) \ {z}) \in Int
               /\ sum(D \ {x}) = w(z) + sum((D \ {x}) \ {z})
      BY <1>4
    <2>3. w(y) \in Int /\ sum(D \ {y}) \in Int
      BY <1>2, <2>1, <2>2
    <2>4. sum(D) \in Int
      BY <2>1, <2>3
    <2>5. ASSUME NEW x \in D PROVE sum(D) = w(x) + sum(D \ {x})
      <3>1. CASE x = y
        BY <2>1, <3>1
      <3>2. CASE x # y
        <4> DEFINE rest == sum((D \ {x}) \ {y})
        <4>1. /\ sum(D \ {y}) = w(x) + sum((D \ {y}) \ {x})
              /\ sum(D \ {x}) = w(y) + rest
          BY <2>1, <2>2, <3>2
        <4>2. (D \ {y}) \ {x} = (D \ {x}) \ {y}
          OBVIOUS
        <4>3. rest \in Int
          BY <2>1, <2>2, <3>2
        <4>4. w(x) \in Int /\ w(y) \in Int
          BY <1>2, <2>1
        <4> HIDE DEF rest
        <4>5. /\ sum(D \ {y}) = w(x) + rest
              /\ sum(D \ {x}) = w(y) + rest
          BY <4>1, <4>2 DEF rest
        <4> QED  BY <2>1, <4>3, <4>4, <4>5
      <3> QED  BY <3>1, <3>2
    <2> QED  BY <2>2, <2>4, <2>5
  <1> HIDE DEF Good
  <1>6. \A D \in SUBSET U : D \in Good
    BY <1>3, <1>4, PartByPart
  <1> QED  BY <1>1, <1>6 DEF Good, sum, w

\* What is added up apart adds up.
LEMMA TallySplit ==
    ASSUME NEW list, NEW U, IsFiniteSet(U), \A x \in U : Amount(list, x) \in Int,
           NEW D \in SUBSET U, NEW E \in SUBSET U, D \cap E = {}
    PROVE  /\ Tally(list, D \cup E) = Tally(list, D) + Tally(list, E)
           /\ Tally(list, D) \in Int /\ Tally(list, E) \in Int
  <1> DEFINE Good == {A \in SUBSET D : Tally(list, A \cup E) = Tally(list, A) + Tally(list, E)}
  <1>1. /\ Tally(list, {}) = 0
        /\ \A A \in SUBSET U : /\ Tally(list, A) \in Int
                               /\ \A x \in A : Tally(list, A) = Amount(list, x) + Tally(list, A \ {x})
    BY TallyFirst
  <1>2. IsFiniteSet(D)
    BY FS_Subset
  <1>3. {} \in Good
    <2>1. {} \cup E = E
      OBVIOUS
    <2> QED  BY <1>1, <2>1
  <1>4. ASSUME NEW A \in SUBSET D, A # {}, \A x \in A : A \ {x} \in Good PROVE A \in Good
    <2>1. PICK x \in A : TRUE
      BY <1>4
    <2>2. (A \cup E) \ {x} = (A \ {x}) \cup E /\ x \in A \cup E /\ A \cup E \in SUBSET U
          /\ A \in SUBSET U /\ A \ {x} \in SUBSET U
      OBVIOUS
    <2>3. Tally(list, (A \ {x}) \cup E) = Tally(list, A \ {x}) + Tally(list, E)
      BY <1>4
    <2>4. /\ Tally(list, A \cup E) = Amount(list, x) + Tally(list, (A \ {x}) \cup E)
          /\ Tally(list, A) = Amount(list, x) + Tally(list, A \ {x})
          /\ Tally(list, A \ {x}) \in Int /\ Tally(list, E) \in Int /\ Amount(list, x) \in Int
      BY <1>1, <2>2
    <2>5. Tally(list, A \cup E) = Tally(list, A) + Tally(list, E)
      BY <2>3, <2>4
    <2> QED  BY <2>5
  <1> HIDE DEF Good
  <1>5. D \in Good
    BY <1>2, <1>3, <1>4, PartByPart
  <1> QED  BY <1>1, <1>5 DEF Good

\* A running total carries on from the row before.
LEMMA RunSteps ==
    ASSUME NEW list, NEW rows, Len(rows) \in Nat, NEW c
    PROVE  LET run == RunningTotals(list, rows, c) IN
           /\ run[0] = 0
           /\ \A i \in 1 .. Len(rows) :
                run[i] = IF PostingAt(list, rows[i]).currency = c
                         THEN Float(run[i - 1] + Amount(list, rows[i])) ELSE run[i - 1]
  <1> DEFINE N == Len(rows)
             next(x, i) == IF PostingAt(list, rows[i]).currency = c
                           THEN Float(x + Amount(list, rows[i])) ELSE x
             made(n, g) == [i \in 0 .. n |-> IF i = 0 THEN 0 ELSE next(g[i - 1], i)]
             T == {n \in 0 .. N : \E g : g = made(n, g)}
             run == RunningTotals(list, rows, c)
  <1>1. run = CHOOSE g : g = made(N, g)
    BY DEF RunningTotals, Amount
  <1> HIDE DEF run, N
  <1>2. N \in Nat
    BY DEF N
  <1> HIDE DEF next
  <1>3. 0 \in T
    <2> DEFINE g == [i \in 0 .. 0 |-> 0]
    <2>1. \A i \in 0 .. 0 : g[i] = made(0, g)[i]
      OBVIOUS
    <2>2. g = made(0, g)
      BY <2>1
    <2> HIDE DEF g, made
    <2> QED  BY <1>2, <2>2
  <1>4. ASSUME NEW n \in 1 .. N, n - 1 \in T PROVE n \in T
    <2>1. PICK g : g = made(n - 1, g)
      BY <1>4
    <2> DEFINE h == made(n, g)
    <2>2. \A i \in 0 .. n - 1 : h[i] = g[i]
      BY <1>2, <2>1
    <2>3. \A i \in 0 .. n : i # 0 => i - 1 \in 0 .. n - 1
      BY <1>2
    <2>4. \A i \in 0 .. n : h[i] = made(n, h)[i]
      <3> SUFFICES ASSUME NEW i \in 0 .. n PROVE h[i] = made(n, h)[i]
        OBVIOUS
      <3>1. i # 0 => h[i - 1] = g[i - 1]
        BY <2>2, <2>3
      <3> QED  BY <3>1
    <2>5. h = made(n, h)
      BY <2>4
    <2> HIDE DEF h, made
    <2> QED  BY <1>2, <2>5
  <1>5. N \in T
    <2> HIDE DEF T
    <2>1. \A n \in 1 .. N : n - 1 \in T => n \in T
      BY <1>4
    <2> QED  BY <1>2, <1>3, <2>1, Counting
  <1>6. run = made(N, run)
    BY <1>1, <1>5, Zenon
  <1>7. run[0] = 0 /\ \A i \in 1 .. N : run[i] = next(run[i - 1], i)
    BY <1>2, <1>6
  <1> QED  BY <1>7 DEF next, N, run

\* The rows of a currency up to a row.
Upto(list, rows, c, n) ==
    {rows[j] : j \in {h \in 1 .. n : PostingAt(list, rows[h]).currency = c}}

\* A sum that is still safe once rounded was not rounded.
LEMMA FloatExact == \A n \in Int : IsSafeInteger(Float(n)) => Float(n) = n
  BY LimitAssumption DEF IsSafeInteger, Float

\* No posting has two rows.
LEMMA AscendingApart ==
    ASSUME NEW rows \in Seq(Position), Ascending(rows)
    PROVE  \A i, j \in 1 .. Len(rows) : rows[i] = rows[j] => i = j
  <1> SUFFICES ASSUME NEW i \in 1 .. Len(rows), NEW j \in 1 .. Len(rows), rows[i] = rows[j], i < j
               PROVE  FALSE
    OBVIOUS
  <1>1. Lower(rows[i], rows[j])
    BY DEF Ascending
  <1>2. rows[i] \in Position
    OBVIOUS
  <1>3. rows[i][1] \in Nat /\ rows[i][2] \in Nat
    BY <1>2 DEF Position
  <1> QED  BY <1>1, <1>3 DEF Lower

\* A row adds its amount to what the rows of its currency before it add up to.
LEMMA UptoNext ==
    ASSUME NEW list, NEW rows \in Seq(Position), Ascending(rows), NEW c,
           \A i \in 1 .. Len(rows) : Amount(list, rows[i]) \in Int
    PROVE  /\ Tally(list, Upto(list, rows, c, 0)) = 0
           /\ \A n \in 1 .. Len(rows) :
                /\ Amount(list, rows[n]) \in Int /\ Tally(list, Upto(list, rows, c, n - 1)) \in Int
                /\ Tally(list, Upto(list, rows, c, n))
                     = IF PostingAt(list, rows[n]).currency = c
                       THEN Tally(list, Upto(list, rows, c, n - 1)) + Amount(list, rows[n])
                       ELSE Tally(list, Upto(list, rows, c, n - 1))
  <1> DEFINE N == Len(rows)
             of(n) == Upto(list, rows, c, n)
             U == {rows[j] : j \in 1 .. N}
  <1>1. N \in Nat /\ \A i, j \in 1 .. N : rows[i] = rows[j] => i = j
    BY AscendingApart
  <1>2. IsFiniteSet(U)
    <2>1. rows \in Surjection(1 .. N, U)
      BY <1>1 DEF Surjection
    <2>2. IsFiniteSet(1 .. N)
      BY <1>1, FS_Interval
    <2> HIDE DEF N, U
    <2> QED  BY <2>1, <2>2, FS_Surjection
  <1>3. \A x \in U : Amount(list, x) \in Int
    OBVIOUS
  <1>4. \A n \in 0 .. N : of(n) \in SUBSET U
    <2> SUFFICES ASSUME NEW n \in 0 .. N, NEW x \in of(n) PROVE x \in U
      OBVIOUS
    <2>1. PICK j \in 1 .. n : x = rows[j]
      BY DEF Upto
    <2>2. j \in 1 .. N
      BY <1>1
    <2> QED  BY <2>1, <2>2
  <1>5. of(0) = {}
    BY DEF Upto
  <1>6. ASSUME NEW n \in 1 .. N
        PROVE  of(n) = IF PostingAt(list, rows[n]).currency = c
                       THEN of(n - 1) \cup {rows[n]} ELSE of(n - 1)
    <2>1. \A j : j \in 1 .. n <=> j \in 1 .. n - 1 \/ j = n
      BY <1>1
    <2> QED  BY <2>1 DEF Upto
  <1>7. ASSUME NEW n \in 1 .. N PROVE rows[n] \notin of(n - 1) /\ rows[n] \in U
    <2> SUFFICES ASSUME rows[n] \in of(n - 1) PROVE FALSE
      OBVIOUS
    <2>1. PICK j \in 1 .. n - 1 : rows[n] = rows[j]
      BY DEF Upto
    <2>2. j \in 1 .. N /\ j # n
      BY <1>1
    <2> QED  BY <1>1, <2>1, <2>2
  <1> HIDE DEF of, U, N
  <1>8. /\ Tally(list, {}) = 0
        /\ \A D \in SUBSET U :
             /\ Tally(list, D) \in Int
             /\ \A x \in D : Tally(list, D) = Amount(list, x) + Tally(list, D \ {x})
    BY <1>2, <1>3, TallyFirst
  <1>9. ASSUME NEW n \in 1 .. N
        PROVE  /\ Amount(list, rows[n]) \in Int /\ Tally(list, of(n - 1)) \in Int
               /\ Tally(list, of(n)) = IF PostingAt(list, rows[n]).currency = c
                                       THEN Tally(list, of(n - 1)) + Amount(list, rows[n])
                                       ELSE Tally(list, of(n - 1))
    <2>1. n - 1 \in 0 .. N /\ n \in 0 .. N
      BY <1>1
    <2>2. Amount(list, rows[n]) \in Int /\ Tally(list, of(n - 1)) \in Int
      BY <1>3, <1>4, <1>7, <1>8, <2>1
    <2>3. CASE PostingAt(list, rows[n]).currency # c
      BY <1>6, <2>2, <2>3
    <2>4. CASE PostingAt(list, rows[n]).currency = c
      <3>1. of(n) \ {rows[n]} = of(n - 1) /\ rows[n] \in of(n)
        BY <1>6, <1>7, <2>4
      <3>2. Tally(list, of(n)) = Amount(list, rows[n]) + Tally(list, of(n - 1))
        BY <1>4, <1>8, <2>1, <3>1
      <3> QED  BY <2>2, <2>4, <3>2
    <2> QED  BY <2>2, <2>3, <2>4
  <1> QED  BY <1>5, <1>8, <1>9 DEF of, N

\* While the totals of a currency are safe they are the exact sums of its rows.
LEMMA RunExact ==
    ASSUME NEW list, NEW rows \in Seq(Position), Ascending(rows), NEW c,
           \A i \in 1 .. Len(rows) : Amount(list, rows[i]) \in Int,
           NEW end \in 0 .. Len(rows),
           \A i \in 1 .. end : PostingAt(list, rows[i]).currency = c =>
             IsSafeInteger(RunningTotals(list, rows, c)[i])
    PROVE  \A n \in 0 .. end :
             RunningTotals(list, rows, c)[n] = Tally(list, Upto(list, rows, c, n))
  <1> DEFINE run == RunningTotals(list, rows, c)
             sum(n) == Tally(list, Upto(list, rows, c, n))
             T == {n \in 0 .. end : run[n] = sum(n)}
  <1>1. Len(rows) \in Nat /\ end \in Nat
    OBVIOUS
  <1>2. /\ run[0] = 0
        /\ \A i \in 1 .. Len(rows) :
             run[i] = IF PostingAt(list, rows[i]).currency = c
                      THEN Float(run[i - 1] + Amount(list, rows[i])) ELSE run[i - 1]
    BY <1>1, RunSteps
  <1>3. \A i \in 1 .. end : PostingAt(list, rows[i]).currency = c => IsSafeInteger(run[i])
    OBVIOUS
  <1>4. /\ sum(0) = 0
        /\ \A n \in 1 .. Len(rows) :
             /\ Amount(list, rows[n]) \in Int /\ sum(n - 1) \in Int
             /\ sum(n) = IF PostingAt(list, rows[n]).currency = c
                         THEN sum(n - 1) + Amount(list, rows[n]) ELSE sum(n - 1)
    BY UptoNext, ZenonT(30)
  <1> HIDE DEF run, sum
  <1>5. 0 \in T
    BY <1>1, <1>2, <1>4
  <1>6. ASSUME NEW n \in 1 .. end, n - 1 \in T PROVE n \in T
    <2>1. run[n - 1] = sum(n - 1) /\ n \in 1 .. Len(rows) /\ n \in 0 .. end
      BY <1>6
    <2>2. CASE PostingAt(list, rows[n]).currency # c
      BY <1>2, <1>4, <2>1, <2>2
    <2>3. CASE PostingAt(list, rows[n]).currency = c
      <3>1. run[n] = Float(sum(n)) /\ IsSafeInteger(run[n]) /\ sum(n) \in Int
        BY <1>2, <1>3, <1>4, <2>1, <2>3
      <3> QED  BY <2>1, <3>1, FloatExact
    <2> QED  BY <2>2, <2>3
  <1> HIDE DEF T
  <1>7. \A n \in 1 .. end : n - 1 \in T => n \in T
    BY <1>6
  <1>8. \A n \in 0 .. end : n \in T
    BY <1>1, <1>5, <1>7, Counting
  <1> QED  BY <1>8 DEF T, run, sum

-----------------------------------------------------------------------------
(* The binary searches *)

Spans(n) == [low : 1 .. n + 1, high : 0 .. n, found : 0 .. n]

\* One step of the search when exactly the first m of n rows pass.
Halved(n, m, f) ==
    [at \in Spans(n) |->
       IF at.low > at.high THEN at.found
       ELSE LET mid == (at.low + at.high) \div 2
            IN  IF mid <= m THEN f[[low |-> mid + 1, high |-> at.high, found |-> mid]]
                ELSE f[[low |-> at.low, high |-> mid - 1, found |-> at.found]]]

\* What the search ends with.
Found(m, at) ==
    IF at.low > at.high \/ m < at.low THEN at.found ELSE IF m < at.high THEN m ELSE at.high

UpperHalf(at, mid) == [low |-> mid + 1, high |-> at.high, found |-> mid]

LowerHalf(at, mid) == [low |-> at.low, high |-> mid - 1, found |-> at.found]

\* A step to the left or to the right leaves what is found as it is.
LEMMA HalfFinds ==
    ASSUME NEW n \in Nat, NEW m \in 0 .. n, NEW at \in Spans(n), at.low <= at.high,
           NEW mid, mid = (at.low + at.high) \div 2
    PROVE  /\ UpperHalf(at, mid) \in Spans(n) /\ LowerHalf(at, mid) \in Spans(n)
           /\ UpperHalf(at, mid).high - UpperHalf(at, mid).low < at.high - at.low
           /\ LowerHalf(at, mid).high - LowerHalf(at, mid).low < at.high - at.low
           /\ mid <= m => Found(m, UpperHalf(at, mid)) = Found(m, at)
           /\ ~(mid <= m) => Found(m, LowerHalf(at, mid)) = Found(m, at)
           /\ mid \in 1 .. n
  <1>1. at.low \in 1 .. n + 1 /\ at.high \in 0 .. n /\ at.found \in 0 .. n
    BY DEF Spans
  <1>2. mid \in Int /\ at.low <= mid /\ mid <= at.high
    BY <1>1
  <1> DEFINE low == at.low
             high == at.high
             found == at.found
  <1>3. /\ UpperHalf(at, mid).low = mid + 1 /\ UpperHalf(at, mid).high = high
        /\ UpperHalf(at, mid).found = mid
        /\ LowerHalf(at, mid).low = low /\ LowerHalf(at, mid).high = mid - 1
        /\ LowerHalf(at, mid).found = found
    BY DEF UpperHalf, LowerHalf
  <1>4. mid + 1 \in 1 .. n + 1 /\ mid \in 0 .. n /\ mid - 1 \in 0 .. n /\ mid \in 1 .. n
    BY <1>1, <1>2
  <1>5. UpperHalf(at, mid) \in Spans(n) /\ LowerHalf(at, mid) \in Spans(n)
    BY <1>1, <1>4 DEF UpperHalf, LowerHalf, Spans
  <1>6. /\ Found(m, at) = IF low > high \/ m < low THEN found ELSE IF m < high THEN m ELSE high
        /\ Found(m, UpperHalf(at, mid))
             = IF mid + 1 > high \/ m < mid + 1 THEN mid ELSE IF m < high THEN m ELSE high
        /\ Found(m, LowerHalf(at, mid))
             = IF low > mid - 1 \/ m < low THEN found ELSE IF m < mid - 1 THEN m ELSE mid - 1
    BY <1>3 DEF Found
  <1>7. low \in Nat /\ high \in Nat /\ low <= mid /\ mid <= high /\ mid \in Nat /\ m \in Nat
    BY <1>1, <1>2
  <1> HIDE DEF low, high, found
  <1>8. mid <= m => Found(m, UpperHalf(at, mid)) = Found(m, at)
    BY <1>6, <1>7
  <1>9. ~(mid <= m) => Found(m, LowerHalf(at, mid)) = Found(m, at)
    BY <1>6, <1>7
  <1>10. high - (mid + 1) < high - low /\ (mid - 1) - low < high - low
    BY <1>7
  <1> QED  BY <1>3, <1>4, <1>5, <1>8, <1>9, <1>10 DEF low, high

\* A step of the search.
LEMMA HalvedAt ==
    ASSUME NEW n, NEW m, NEW f, NEW at \in Spans(n)
    PROVE  LET mid == (at.low + at.high) \div 2 IN
           Halved(n, m, f)[at] = IF at.low > at.high THEN at.found
                                 ELSE IF mid <= m THEN f[UpperHalf(at, mid)] ELSE f[LowerHalf(at, mid)]
  BY DEF Halved, UpperHalf, LowerHalf

\* The recursion of the search has a solution.
LEMMA HalvedEnds ==
    ASSUME NEW n \in Nat, NEW m \in 0 .. n
    PROVE  \E f : f = Halved(n, m, f)
  <1> DEFINE f == [at \in Spans(n) |-> Found(m, at)]
             g == Halved(n, m, f)
  <1>1. ASSUME NEW at \in Spans(n) PROVE f[at] = g[at]
    <2> DEFINE mid == (at.low + at.high) \div 2
    <2>1. at.low \in Int /\ at.high \in Int
      BY DEF Spans
    <2>2. g[at] = IF at.low > at.high THEN at.found
                  ELSE IF mid <= m THEN f[UpperHalf(at, mid)] ELSE f[LowerHalf(at, mid)]
      BY HalvedAt
    <2>3. CASE at.low > at.high
      BY <2>2, <2>3 DEF Found
    <2>4. CASE at.low <= at.high
      <3>1. /\ UpperHalf(at, mid) \in Spans(n) /\ LowerHalf(at, mid) \in Spans(n)
            /\ mid <= m => Found(m, UpperHalf(at, mid)) = Found(m, at)
            /\ ~(mid <= m) => Found(m, LowerHalf(at, mid)) = Found(m, at)
        BY <2>4, HalfFinds
      <3> HIDE DEF mid, g
      <3>2. g[at] = IF mid <= m THEN f[UpperHalf(at, mid)] ELSE f[LowerHalf(at, mid)]
        BY <2>1, <2>2, <2>4
      <3> QED  BY <3>1, <3>2
    <2> QED  BY <2>1, <2>3, <2>4
  <1>2. f = g
    <2>1. DOMAIN g = Spans(n) /\ g = [at \in Spans(n) |-> g[at]]
      BY DEF Halved
    <2> HIDE DEF g
    <2> QED  BY <1>1, <2>1
  <1> QED  BY <1>2

\* The search over all rows ends at the last that passes.
LEMMA HalvedIs ==
    ASSUME NEW n \in Nat, NEW m \in 0 .. n, NEW f, f = Halved(n, m, f)
    PROVE  f[[low |-> 1, high |-> n, found |-> 0]] = m
  <1> DEFINE Ends(d) == \A at \in Spans(n) : at.high - at.low + 1 <= d => f[at] = Found(m, at)
             T == {d \in 0 .. n : Ends(d)}
  <1>1. ASSUME NEW at \in Spans(n)
        PROVE  /\ at.low \in 1 .. n + 1 /\ at.high \in 0 .. n
               /\ LET mid == (at.low + at.high) \div 2 IN
                  f[at] = IF at.low > at.high THEN at.found
                          ELSE IF mid <= m THEN f[UpperHalf(at, mid)] ELSE f[LowerHalf(at, mid)]
    BY HalvedAt DEF Spans
  <1>2. Ends(0)
    <2> SUFFICES ASSUME NEW at \in Spans(n), at.high - at.low + 1 <= 0
                 PROVE  f[at] = Found(m, at)
      OBVIOUS
    <2>1. at.low > at.high
      BY <1>1
    <2> QED  BY <1>1, <2>1 DEF Found
  <1>3. ASSUME NEW d \in 1 .. n, Ends(d - 1) PROVE Ends(d)
    <2> SUFFICES ASSUME NEW at \in Spans(n), at.high - at.low + 1 <= d
                 PROVE  f[at] = Found(m, at)
      OBVIOUS
    <2> DEFINE mid == (at.low + at.high) \div 2
    <2>1. /\ at.low \in Int /\ at.high \in Int
          /\ f[at] = IF at.low > at.high THEN at.found
                     ELSE IF mid <= m THEN f[UpperHalf(at, mid)] ELSE f[LowerHalf(at, mid)]
      BY <1>1
    <2>2. CASE at.low > at.high
      BY <2>1, <2>2 DEF Found
    <2>3. CASE at.low <= at.high
      <3>1. /\ UpperHalf(at, mid) \in Spans(n) /\ LowerHalf(at, mid) \in Spans(n)
            /\ UpperHalf(at, mid).high - UpperHalf(at, mid).low < at.high - at.low
            /\ LowerHalf(at, mid).high - LowerHalf(at, mid).low < at.high - at.low
            /\ mid <= m => Found(m, UpperHalf(at, mid)) = Found(m, at)
            /\ ~(mid <= m) => Found(m, LowerHalf(at, mid)) = Found(m, at)
        BY <2>3, HalfFinds
      <3> HIDE DEF mid
      <3>2. /\ UpperHalf(at, mid).high \in Int /\ UpperHalf(at, mid).low \in Int
            /\ LowerHalf(at, mid).high \in Int /\ LowerHalf(at, mid).low \in Int
        BY <3>1 DEF Spans
      <3>3. /\ UpperHalf(at, mid).high - UpperHalf(at, mid).low + 1 <= d - 1
            /\ LowerHalf(at, mid).high - LowerHalf(at, mid).low + 1 <= d - 1
        BY <2>1, <3>1, <3>2
      <3>4. /\ f[UpperHalf(at, mid)] = Found(m, UpperHalf(at, mid))
            /\ f[LowerHalf(at, mid)] = Found(m, LowerHalf(at, mid))
        BY <1>3, <3>1, <3>3
      <3>5. f[at] = IF mid <= m THEN f[UpperHalf(at, mid)] ELSE f[LowerHalf(at, mid)]
        BY <2>1, <2>3
      <3> QED  BY <3>1, <3>4, <3>5
    <2> QED  BY <2>1, <2>2, <2>3
  <1> HIDE DEF Ends
  <1>4. n \in T
    <2>1. 0 \in T /\ \A d \in 1 .. n : d - 1 \in T => d \in T
      BY <1>2, <1>3
    <2> HIDE DEF T
    <2> QED  BY <2>1, Counting
  <1> DEFINE start == [low |-> 1, high |-> n, found |-> 0]
  <1>5. start \in Spans(n) /\ start.low = 1 /\ start.high = n /\ start.found = 0
    BY DEF Spans
  <1> HIDE DEF start
  <1>6. f[start] = Found(m, start)
    BY <1>4, <1>5 DEF Ends
  <1>7. Found(m, start) = m
    BY <1>5 DEF Found
  <1> QED  BY <1>6, <1>7 DEF start

\* Rows that pass up to one of them are the first rows.
LEMMA FirstPass ==
    ASSUME NEW n \in Nat, NEW P \in SUBSET (1 .. n),
           \A i, j \in 1 .. n : i < j /\ j \in P => i \in P
    PROVE  \E m \in 0 .. n : \A i \in 1 .. n : i \in P <=> i <= m
  <1> DEFINE T == {k \in 0 .. n : \E m \in 0 .. k : \A i \in 1 .. k : i \in P <=> i <= m}
  <1>1. 0 \in T
    <2>1. 0 \in 0 .. n /\ 0 \in 0 .. 0 /\ \A i \in 1 .. 0 : i \in P <=> i <= 0
      OBVIOUS
    <2> QED  BY <2>1
  <1>2. ASSUME NEW k \in 1 .. n, k - 1 \in T PROVE k \in T
    <2>1. PICK m \in 0 .. k - 1 : \A i \in 1 .. k - 1 : i \in P <=> i <= m
      BY <1>2
    <2>2. \A i \in 1 .. k : (i \in 1 .. k - 1 \/ i = k) /\ i \in 1 .. n
      OBVIOUS
    <2>3. CASE k \in P
      <3>1. \A i \in 1 .. k : i \in P <=> i <= k
        BY <2>2, <2>3
      <3> QED  BY <3>1
    <2>4. CASE k \notin P
      <3>1. m \in 0 .. k /\ ~(k <= m)
        BY <2>1
      <3>2. \A i \in 1 .. k : i \in P <=> i <= m
        BY <2>1, <2>2, <2>4, <3>1
      <3> QED  BY <3>1, <3>2
    <2> QED  BY <2>3, <2>4
  <1> HIDE DEF T
  <1>3. \A k \in 1 .. n : k - 1 \in T => k \in T
    BY <1>2
  <1>4. n \in T
    BY <1>1, <1>3, Counting
  <1> QED  BY <1>4 DEF T

\* The date of a posting.
DateAt(list, pos) == list[pos[1]].date

\* The searches find the last row that passes.
LEMMA FindIs ==
    ASSUME NEW list, NEW index, NEW n \in Nat, Len(index.rows) = n, NEW date, NEW m \in 0 .. n
    PROVE  /\ (\A i \in 1 .. n : DateAt(list, index.rows[i]) <= date <=> i <= m)
                => FindLastRowOnOrBefore(list, index, date) = m
           /\ (\A i \in 1 .. n : DateAt(list, index.rows[i]) < date <=> i <= m)
                => FindLastRowBefore(list, index, date) = m
  <1> DEFINE start == [low |-> 1, high |-> n, found |-> 0]
             upto(f) ==
               [at \in Spans(n) |->
                  IF at.low > at.high THEN at.found
                  ELSE IF DateAt(list, index.rows[(at.low + at.high) \div 2]) <= date
                  THEN f[UpperHalf(at, (at.low + at.high) \div 2)]
                  ELSE f[LowerHalf(at, (at.low + at.high) \div 2)]]
             before(f) ==
               [at \in Spans(n) |->
                  IF at.low > at.high THEN at.found
                  ELSE IF DateAt(list, index.rows[(at.low + at.high) \div 2]) < date
                  THEN f[UpperHalf(at, (at.low + at.high) \div 2)]
                  ELSE f[LowerHalf(at, (at.low + at.high) \div 2)]]
  <1>1. ASSUME NEW at \in Spans(n), NEW f
        PROVE  LET mid == (at.low + at.high) \div 2 IN
               /\ Halved(n, m, f)[at]
                    = IF at.low > at.high THEN at.found
                      ELSE IF mid <= m THEN f[UpperHalf(at, mid)] ELSE f[LowerHalf(at, mid)]
               /\ ~(at.low > at.high) => mid \in 1 .. n
    <2>1. at.low \in Int /\ at.high \in Int
      BY DEF Spans
    <2>2. at.low <= at.high => (at.low + at.high) \div 2 \in 1 .. n
      BY HalfFinds
    <2> QED  BY <2>1, <2>2, HalvedAt
  <1>2. \A f : Halved(n, m, f) = [at \in Spans(n) |-> Halved(n, m, f)[at]]
    BY DEF Halved
  <1>3. PICK g : g = Halved(n, m, g)
    BY HalvedEnds
  <1>4. ASSUME \A i \in 1 .. n : DateAt(list, index.rows[i]) <= date <=> i <= m
        PROVE  FindLastRowOnOrBefore(list, index, date) = m
    <2>1. ASSUME NEW f PROVE upto(f) = Halved(n, m, f)
      <3>1. ASSUME NEW at \in Spans(n) PROVE upto(f)[at] = Halved(n, m, f)[at]
        <4> DEFINE mid == (at.low + at.high) \div 2
        <4>1. ~(at.low > at.high) => mid \in 1 .. n
          BY <1>1
        <4>2. upto(f)[at] = IF at.low > at.high THEN at.found
                            ELSE IF DateAt(list, index.rows[mid]) <= date
                            THEN f[UpperHalf(at, mid)] ELSE f[LowerHalf(at, mid)]
          OBVIOUS
        <4>3. Halved(n, m, f)[at] = IF at.low > at.high THEN at.found
                                    ELSE IF mid <= m THEN f[UpperHalf(at, mid)] ELSE f[LowerHalf(at, mid)]
          BY <1>1
        <4> HIDE DEF mid, upto
        <4> QED  BY <1>4, <4>1, <4>2, <4>3
      <3>2. upto(f) = [at \in Spans(n) |-> upto(f)[at]]
        OBVIOUS
      <3> HIDE DEF upto
      <3> QED  BY <1>2, <3>1, <3>2
    <2>2. FindLastRowOnOrBefore(list, index, date) = (CHOOSE f : f = upto(f))[start]
      BY DEF FindLastRowOnOrBefore, LastRowWhere, Spans, UpperHalf, LowerHalf, DateAt
    <2> HIDE DEF upto
    <2>3. (CHOOSE f : f = upto(f)) = Halved(n, m, (CHOOSE f : f = upto(f)))
      <3>1. g = upto(g)
        BY <1>3, <2>1
      <3>2. (CHOOSE f : f = upto(f)) = upto((CHOOSE f : f = upto(f)))
        BY <3>1, Zenon
      <3> QED  BY <2>1, <3>2
    <2> QED  BY <2>2, <2>3, HalvedIs
  <1>5. ASSUME \A i \in 1 .. n : DateAt(list, index.rows[i]) < date <=> i <= m
        PROVE  FindLastRowBefore(list, index, date) = m
    <2>1. ASSUME NEW f PROVE before(f) = Halved(n, m, f)
      <3>1. ASSUME NEW at \in Spans(n) PROVE before(f)[at] = Halved(n, m, f)[at]
        <4> DEFINE mid == (at.low + at.high) \div 2
        <4>1. ~(at.low > at.high) => mid \in 1 .. n
          BY <1>1
        <4>2. before(f)[at] = IF at.low > at.high THEN at.found
                              ELSE IF DateAt(list, index.rows[mid]) < date
                              THEN f[UpperHalf(at, mid)] ELSE f[LowerHalf(at, mid)]
          OBVIOUS
        <4>3. Halved(n, m, f)[at] = IF at.low > at.high THEN at.found
                                    ELSE IF mid <= m THEN f[UpperHalf(at, mid)] ELSE f[LowerHalf(at, mid)]
          BY <1>1
        <4> HIDE DEF mid, before
        <4> QED  BY <1>5, <4>1, <4>2, <4>3
      <3>2. before(f) = [at \in Spans(n) |-> before(f)[at]]
        OBVIOUS
      <3> HIDE DEF before
      <3> QED  BY <1>2, <3>1, <3>2
    <2>2. FindLastRowBefore(list, index, date) = (CHOOSE f : f = before(f))[start]
      BY DEF FindLastRowBefore, LastRowWhere, Spans, UpperHalf, LowerHalf, DateAt
    <2> HIDE DEF before
    <2>3. (CHOOSE f : f = before(f)) = Halved(n, m, (CHOOSE f : f = before(f)))
      <3>1. g = before(g)
        BY <1>3, <2>1
      <3>2. (CHOOSE f : f = before(f)) = before((CHOOSE f : f = before(f)))
        BY <3>1, Zenon
      <3> QED  BY <2>1, <3>2
    <2> QED  BY <2>2, <2>3, HalvedIs
  <1> QED  BY <1>4, <1>5

-----------------------------------------------------------------------------
(* Balances and changes *)

\* The postings of a register in a currency, dated from one date to another.
Dated(list, k, c, from, to) ==
    {pos \in Hits(list, k) : /\ PostingAt(list, pos).currency = c
                             /\ from <= DateAt(list, pos) /\ DateAt(list, pos) <= to}

\* The amount that a map gives a currency: absence means zero.
AmountIn(f, c) == IF c \in DOMAIN f THEN f[c] ELSE 0

\* A posting that counts is one of an entry, and has a date and an amount.
LEMMA HitIs ==
    ASSUME NEW list \in Seq(Entries), NEW k, NEW pos \in Hits(list, k)
    PROVE  /\ pos \in Position /\ pos[1] \in Nat /\ pos[2] \in Nat /\ pos[1] \in DOMAIN list
           /\ DateAt(list, pos) \in Nat /\ Amount(list, pos) \in Int
  <1>1. /\ pos \in Position /\ pos[1] \in DOMAIN list
        /\ pos[2] \in DOMAIN list[pos[1]].postings
    BY DEF Hits
  <1>2. list[pos[1]] \in Entries
    BY <1>1
  <1>3. PICK batch \in Batch : list[pos[1]] \in ToSet(batch)
    BY <1>2 DEF Entries
  <1>4. /\ list[pos[1]].date \in Nat
        /\ \A p \in DOMAIN list[pos[1]].postings : list[pos[1]].postings[p].amount \in Int
    BY <1>3, BatchAssumption
  <1>5. pos[1] \in Nat /\ pos[2] \in Nat
    BY <1>1 DEF Position
  <1> QED  BY <1>1, <1>4, <1>5 DEF DateAt, Amount, PostingAt

\* Of two postings that count, the lower one is not the later one.
LEMMA LowerInTime ==
    ASSUME NEW list \in Seq(Entries), InOrder(list), NEW k,
           NEW a \in Hits(list, k), NEW b \in Hits(list, k), Lower(a, b)
    PROVE  DateAt(list, a) <= DateAt(list, b)
  <1>1. /\ a[1] \in DOMAIN list /\ b[1] \in DOMAIN list
        /\ a[1] \in Nat /\ b[1] \in Nat
        /\ list[a[1]].date \in Nat /\ list[b[1]].date \in Nat
    BY HitIs DEF DateAt
  <1>2. CASE a[1] = b[1]
    BY <1>1, <1>2 DEF DateAt
  <1>3. CASE a[1] < b[1]
    <2>1. Before(list[a[1]], list[b[1]])
      BY <1>1, <1>3 DEF InOrder
    <2> QED  BY <1>1, <2>1 DEF Before, DateAt
  <1> QED  BY <1>2, <1>3 DEF Lower

\* The rows of an index are in the order of their dates.
LEMMA RowsInTime ==
    ASSUME NEW list \in Seq(Entries), InOrder(list), NEW k
    PROVE  LET rows == RegisterPositions(list, k.path, k.deep) IN
           /\ rows \in Seq(Position) /\ Ascending(rows) /\ ToSet(rows) = Hits(list, k)
           /\ \A i \in 1 .. Len(rows) : rows[i] \in Hits(list, k)
           /\ \A i, j \in 1 .. Len(rows) : i < j =>
                DateAt(list, rows[i]) <= DateAt(list, rows[j])
  <1> DEFINE rows == RegisterPositions(list, k.path, k.deep)
  <1>1. rows \in Seq(Position) /\ Ascending(rows) /\ ToSet(rows) = Hits(list, k)
    BY PositionsAre
  <1> HIDE DEF rows
  <1>2. \A i \in 1 .. Len(rows) : rows[i] \in Hits(list, k)
    BY <1>1 DEF ToSet
  <1>3. ASSUME NEW i \in 1 .. Len(rows), NEW j \in 1 .. Len(rows), i < j
        PROVE  DateAt(list, rows[i]) <= DateAt(list, rows[j])
    <2>1. rows[i] \in Hits(list, k) /\ rows[j] \in Hits(list, k)
      BY <1>2
    <2>2. Lower(rows[i], rows[j])
      BY <1>1, <1>3 DEF Ascending
    <2> QED  BY <2>1, <2>2, LowerInTime
  <1> QED  BY <1>1, <1>2, <1>3 DEF rows

\* The row of a register that a search for a date stops at.
LastUpto(list, rows, date, m) ==
    /\ m \in 0 .. Len(rows)
    /\ \A i \in 1 .. Len(rows) : DateAt(list, rows[i]) <= date <=> i <= m

LastBefore(list, rows, date, m) ==
    /\ m \in 0 .. Len(rows)
    /\ \A i \in 1 .. Len(rows) : DateAt(list, rows[i]) < date <=> i <= m

\* A search for a date splits the rows where the date would stand.
LEMMA Searched ==
    ASSUME NEW list \in Seq(Entries), InOrder(list), NEW k, NEW index,
           index.rows = RegisterPositions(list, k.path, k.deep), NEW date \in Nat
    PROVE  /\ LastUpto(list, index.rows, date, FindLastRowOnOrBefore(list, index, date))
           /\ LastBefore(list, index.rows, date, FindLastRowBefore(list, index, date))
  <1> DEFINE rows == index.rows
             N == Len(rows)
             upto == {i \in 1 .. N : DateAt(list, rows[i]) <= date}
             before == {i \in 1 .. N : DateAt(list, rows[i]) < date}
  <1>1. /\ N \in Nat
        /\ \A i \in 1 .. N : DateAt(list, rows[i]) \in Nat
        /\ \A i, j \in 1 .. N : i < j => DateAt(list, rows[i]) <= DateAt(list, rows[j])
    <2>1. /\ rows \in Seq(Position)
          /\ \A i \in 1 .. Len(rows) : rows[i] \in Hits(list, k)
          /\ \A i, j \in 1 .. Len(rows) : i < j => DateAt(list, rows[i]) <= DateAt(list, rows[j])
      BY RowsInTime
    <2> HIDE DEF rows
    <2>2. \A i \in 1 .. Len(rows) : DateAt(list, rows[i]) \in Nat
      BY <2>1, HitIs
    <2> QED  BY <2>1, <2>2
  <1> HIDE DEF N, rows
  <1>2. PICK m \in 0 .. N : \A i \in 1 .. N : i \in upto <=> i <= m
    <2>1. upto \in SUBSET (1 .. N)
      OBVIOUS
    <2>2. \A i, j \in 1 .. N : i < j /\ j \in upto => i \in upto
      BY <1>1
    <2> HIDE DEF upto
    <2> QED  BY <1>1, <2>1, <2>2, FirstPass
  <1>3. PICK h \in 0 .. N : \A i \in 1 .. N : i \in before <=> i <= h
    <2>1. before \in SUBSET (1 .. N)
      OBVIOUS
    <2>2. \A i, j \in 1 .. N : i < j /\ j \in before => i \in before
      BY <1>1
    <2> HIDE DEF before
    <2> QED  BY <1>1, <2>1, <2>2, FirstPass
  <1>4. \A i \in 1 .. N : DateAt(list, rows[i]) <= date <=> i <= m
    BY <1>2
  <1>5. \A i \in 1 .. N : DateAt(list, rows[i]) < date <=> i <= h
    BY <1>3
  <1>6. FindLastRowOnOrBefore(list, index, date) = m
    BY <1>1, <1>4, FindIs DEF N, rows
  <1>7. FindLastRowBefore(list, index, date) = h
    BY <1>1, <1>5, FindIs DEF N, rows
  <1> QED  BY <1>4, <1>5, <1>6, <1>7 DEF N, rows, LastUpto, LastBefore

\* The rows of a register.
RowsOf(list, k, rows) == rows = RegisterPositions(list, k.path, k.deep)

\* The rows of a currency up to the last one that passes are its postings so far,
\* and the ones since the row before are those dated between.
DatesSplit(list, k, c, from, to, rows, h, m) ==
    /\ from <= to => /\ Upto(list, rows, c, m)
                           = Upto(list, rows, c, h) \cup Dated(list, k, c, from, to)
                     /\ Upto(list, rows, c, h) \cap Dated(list, k, c, from, to) = {}
    /\ Dated(list, k, c, 0, to) = Upto(list, rows, c, m)

\* What a search splits, the dates split.
LEMMA UptoDate ==
    ASSUME NEW list \in Seq(Entries), InOrder(list), NEW k, NEW c, NEW from \in Nat, NEW to \in Nat,
           NEW rows, RowsOf(list, k, rows),
           NEW h, LastBefore(list, rows, from, h), NEW m, LastUpto(list, rows, to, m)
    PROVE  DatesSplit(list, k, c, from, to, rows, h, m)
  <1>0. h \in 0 .. Len(rows) /\ m \in 0 .. Len(rows)
    BY DEF LastUpto, LastBefore
  <1> DEFINE N == Len(rows)
  <1>1. /\ rows \in Seq(Position) /\ ToSet(rows) = Hits(list, k)
        /\ \A i \in 1 .. N : rows[i] \in Hits(list, k)
    BY RowsInTime DEF RowsOf
  <1>2. N \in Nat /\ \A pos \in Hits(list, k) : \E i \in 1 .. N : pos = rows[i]
    BY <1>1 DEF ToSet
  <1>3. \A i \in 1 .. N : DateAt(list, rows[i]) \in Nat
    BY <1>1, HitIs
  <1>4. \A x \in 0 .. N : \A pos :
          pos \in Upto(list, rows, c, x)
            <=> \E i \in 1 .. N : /\ i <= x /\ pos = rows[i]
                                  /\ PostingAt(list, rows[i]).currency = c
    <2> TAKE x \in 0 .. N
    <2>1. \A i : i \in 1 .. x <=> i \in 1 .. N /\ i <= x
      BY <1>2
    <2> HIDE DEF N
    <2> QED  BY <2>1 DEF Upto
  <1> DEFINE date(i) == DateAt(list, rows[i])
  <1>5. \A i \in 1 .. N : (date(i) < from <=> i <= h) /\ (date(i) <= to <=> i <= m)
    BY DEF LastUpto, LastBefore
  <1>6. \A pos, x, y :
          pos \in Dated(list, k, c, x, y)
            <=> \E i \in 1 .. N : /\ pos = rows[i] /\ PostingAt(list, rows[i]).currency = c
                                  /\ x <= date(i) /\ date(i) <= y
    BY <1>1, <1>2 DEF Dated
  <1>7. \A i \in 1 .. N : date(i) \in Nat
    BY <1>3
  <1>8. \A i, j \in 1 .. N : rows[i] = rows[j] => i = j
    BY <1>1, AscendingApart, RowsInTime DEF RowsOf
  <1> HIDE DEF N, date
  <1>9. Dated(list, k, c, 0, to) = Upto(list, rows, c, m)
    <2>1. m \in 0 .. N
      BY <1>0 DEF N
    <2>2. \A i \in 1 .. N : 0 <= date(i) /\ (date(i) <= to <=> i <= m)
      BY <1>5, <1>7
    <2>3. \A pos : pos \in Dated(list, k, c, 0, to) <=> pos \in Upto(list, rows, c, m)
      BY <1>4, <1>6, <2>1, <2>2
    <2> QED  BY <2>3
  <1>10. ASSUME from <= to
         PROVE  /\ Upto(list, rows, c, m)
                     = Upto(list, rows, c, h) \cup Dated(list, k, c, from, to)
                /\ Upto(list, rows, c, h) \cap Dated(list, k, c, from, to) = {}
    <2>1. m \in 0 .. N /\ h \in 0 .. N
      BY <1>0 DEF N
    <2>2. \A i \in 1 .. N : /\ (i <= m) <=> (i <= h \/ (from <= date(i) /\ date(i) <= to))
                            /\ ~(i <= h /\ from <= date(i))
      BY <1>5, <1>7, <1>10
    <2>3. \A pos : pos \in Upto(list, rows, c, m)
                     <=> pos \in Upto(list, rows, c, h) \cup Dated(list, k, c, from, to)
      BY <1>4, <1>6, <2>1, <2>2
    <2>4. \A pos \in Upto(list, rows, c, h) : pos \notin Dated(list, k, c, from, to)
      BY <1>4, <1>6, <1>8, <2>1, <2>2
    <2> QED  BY <2>3, <2>4
  <1> QED  BY <1>9, <1>10 DEF DatesSplit

\* The rows of a register have positions, exact amounts and, in a currency that is
\* not flagged, safe running totals.
LEMMA IndexIs ==
    ASSUME NEW list \in Seq(Entries), InOrder(list), NEW k
    PROVE  LET index == Index(list, k)
               rows == index.rows
           IN  /\ rows = RegisterPositions(list, k.path, k.deep)
               /\ rows \in Seq(Position) /\ Ascending(rows) /\ Len(rows) \in Nat
               /\ \A i \in 1 .. Len(rows) : rows[i] \in Hits(list, k)
               /\ \A i \in 1 .. Len(rows) : PostingAt(list, rows[i]).currency \in DOMAIN index.sums
               /\ \A c \in DOMAIN index.sums : index.sums[c] = RunningTotals(list, rows, c)
               /\ \A c : c \notin index.overflow => \A n \in 0 .. Len(rows) :
                    /\ c \in DOMAIN index.sums
                         => index.sums[c][n] = Tally(list, Upto(list, rows, c, n))
                    /\ c \notin DOMAIN index.sums => Upto(list, rows, c, n) = {}
  <1> DEFINE index == Index(list, k)
             rows == RegisterPositions(list, k.path, k.deep)
             currencies == {PostingAt(list, rows[i]).currency : i \in DOMAIN rows}
             sums == [c \in currencies |-> RunningTotals(list, rows, c)]
  <1>1. /\ index.rows = rows /\ index.sums = sums
        /\ index.overflow = {c \in currencies : \E i \in DOMAIN rows :
                               /\ PostingAt(list, rows[i]).currency = c
                               /\ ~IsSafeInteger(sums[c][i])}
    BY DEF Index, BuildRegisterIndex
  <1>2. /\ rows \in Seq(Position) /\ Ascending(rows)
        /\ \A i \in 1 .. Len(rows) : rows[i] \in Hits(list, k)
    BY RowsInTime
  <1> HIDE DEF index, rows
  <1>3. Len(rows) \in Nat /\ DOMAIN rows = 1 .. Len(rows)
    BY <1>2
  <1>4. \A i \in 1 .. Len(rows) : PostingAt(list, rows[i]).currency \in currencies
    BY <1>3
  <1>5. \A c \in currencies : sums[c] = RunningTotals(list, rows, c)
    OBVIOUS
  <1>6. \A i \in 1 .. Len(rows) : Amount(list, rows[i]) \in Int
    BY <1>2, HitIs
  <1>7. ASSUME NEW c, c \notin index.overflow, c \in currencies, NEW n \in 0 .. Len(rows)
        PROVE  sums[c][n] = Tally(list, Upto(list, rows, c, n))
    <2>1. \A i \in 1 .. Len(rows) : PostingAt(list, rows[i]).currency = c =>
             IsSafeInteger(RunningTotals(list, rows, c)[i])
      BY <1>1, <1>3, <1>5, <1>7
    <2>2. Len(rows) \in 0 .. Len(rows)
      BY <1>3
    <2> QED  BY <1>2, <1>5, <1>6, <1>7, <2>1, <2>2, RunExact
  <1>8. ASSUME NEW c, c \notin currencies, NEW n \in 0 .. Len(rows)
        PROVE  Upto(list, rows, c, n) = {}
    <2>1. \A h \in 1 .. n : h \in 1 .. Len(rows)
      BY <1>3
    <2> QED  BY <1>4, <1>8, <2>1 DEF Upto
  <1>9. DOMAIN sums = currencies
    OBVIOUS
  <1> HIDE DEF sums, currencies
  <1> QED  BY <1>1, <1>2, <1>3, <1>4, <1>5, <1>7, <1>8, <1>9 DEF index, rows

\* A map without its zeros gives the same amounts.
LEMMA ZerosOut ==
    ASSUME NEW f, NEW c
    PROVE  AmountIn(NonZero(f), c) = AmountIn(f, c)
  BY DEF AmountIn, NonZero

\* What a register says of a currency: the exact totals of its postings so far at
\* each of its rows, whichever rows are read; up to a date; and, as a double, over
\* a range of dates.
ReadsExact(list, index, c) ==
    \A start, end \in Int :
    LET slice == ReadRegisterSlice(list, index, start, end)
    IN  \A i \in DOMAIN slice : slice[i].posting.currency = c =>
          slice[i].runningBalance
            = Tally(list, Upto(list, index.rows, c, Max({0, start}) + i))

AsOfExact(list, k, index, c) ==
    \A date \in Nat :
      AmountIn(GetBalancesAsOf(list, index, date), c)
        = Tally(list, Dated(list, k, c, 0, date))

ChangesFloat(list, k, index, c) ==
    \A from, to \in Nat :
      AmountIn(GetBalanceChanges(list, index, from, to), c)
        = Float(Tally(list, Dated(list, k, c, from, to)))

\* A currency is flagged only if an exact running total of it is not safe.
FlagEarned(list, index, c) ==
    \E i \in DOMAIN index.rows : ~IsSafeInteger(Tally(list, Upto(list, index.rows, c, i)))

RegisterExact(list, k, index) ==
    /\ \A c : c \notin index.overflow =>
         /\ ReadsExact(list, index, c)
         /\ AsOfExact(list, k, index, c)
         /\ ChangesFloat(list, k, index, c)
    /\ \A c \in index.overflow : FlagEarned(list, index, c)

\* A slice is the rows from its clamped start on.
LEMMA SliceIs ==
    ASSUME NEW rows, NEW S, rows \in Seq(S), NEW start \in Int, NEW end \in Int
    PROVE  \A i \in DOMAIN ClampedSlice(rows, start, end) :
             /\ Max({0, start}) + i \in 1 .. Len(rows)
             /\ ClampedSlice(rows, start, end)[i] = rows[Max({0, start}) + i]
  <1> DEFINE low == Max({0, start})
             high == Min({Len(rows), end})
  <1>1. low \in Nat
    <2>1. \E x \in {0, start} : \A y \in {0, start} : x >= y
      OBVIOUS
    <2>2. low \in {0, start} /\ low >= 0
      BY <2>1 DEF Max
    <2> QED  BY <2>2
  <1>2. high \in Int /\ high <= Len(rows)
    <2>0. Len(rows) \in Nat
      OBVIOUS
    <2>1. \E x \in {Len(rows), end} : \A y \in {Len(rows), end} : y >= x
      BY <2>0
    <2>2. high \in {Len(rows), end} /\ Len(rows) >= high
      BY <2>1 DEF Min
    <2> QED  BY <2>0, <2>2
  <1> HIDE DEF low, high
  <1>3. ASSUME NEW i \in DOMAIN SubSeq(rows, low + 1, high)
        PROVE  low + i \in 1 .. Len(rows) /\ SubSeq(rows, low + 1, high)[i] = rows[low + i]
    BY <1>1, <1>2
  <1> QED  BY <1>3 DEF ClampedSlice, low, high

\* The running balances.
LEMMA ReadsAreExact ==
    ASSUME NEW list \in Seq(Entries), InOrder(list), NEW k, NEW c, c \notin Index(list, k).overflow
    PROVE  ReadsExact(list, Index(list, k), c)
  <1> DEFINE index == Index(list, k)
             rows == index.rows
             row(i) == RowWithBalance(list, rows[i], index.sums[PostingAt(list, rows[i]).currency][i])
             all == [i \in DOMAIN rows |-> row(i)]
  <1>1. /\ rows \in Seq(Position) /\ Len(rows) \in Nat
        /\ \A i \in 1 .. Len(rows) : PostingAt(list, rows[i]).currency \in DOMAIN index.sums
        /\ c \in DOMAIN index.sums => \A n \in 0 .. Len(rows) :
             index.sums[c][n] = Tally(list, Upto(list, rows, c, n))
    BY IndexIs
  <1> HIDE DEF index, rows, row
  <1>2. all \in Seq({row(i) : i \in 1 .. Len(rows)}) /\ Len(all) = Len(rows)
    BY <1>1
  <1>3. \A i \in 1 .. Len(rows) : all[i] = row(i)
    BY <1>1
  <1>4. \A i : row(i).posting = PostingAt(list, rows[i])
               /\ row(i).runningBalance = index.sums[PostingAt(list, rows[i]).currency][i]
    BY DEF row, RowWithBalance
  <1>5. \A start, end : ReadRegisterSlice(list, index, start, end) = ClampedSlice(all, start, end)
    BY DEF ReadRegisterSlice, row, rows
  <1> HIDE DEF all
  <1> SUFFICES ASSUME NEW start \in Int, NEW end \in Int,
                      NEW i \in DOMAIN ClampedSlice(all, start, end),
                      ClampedSlice(all, start, end)[i].posting.currency = c
               PROVE  ClampedSlice(all, start, end)[i].runningBalance
                        = Tally(list, Upto(list, rows, c, Max({0, start}) + i))
    BY <1>5 DEF ReadsExact, index, rows
  <1> DEFINE n == Max({0, start}) + i
  <1>6. n \in 1 .. Len(rows) /\ ClampedSlice(all, start, end)[i] = all[n]
    BY <1>2, SliceIs
  <1> HIDE DEF n
  <1>7. PostingAt(list, rows[n]).currency = c
        /\ ClampedSlice(all, start, end)[i].runningBalance = index.sums[c][n]
    BY <1>3, <1>4, <1>6
  <1>8. c \in DOMAIN index.sums /\ n \in 0 .. Len(rows)
    BY <1>1, <1>6, <1>7
  <1> QED  BY <1>1, <1>7, <1>8 DEF n

\* The postings of a register are finitely many, and their amounts are integers.
LEMMA HitsFinite ==
    ASSUME NEW list \in Seq(Entries), InOrder(list), NEW k
    PROVE  IsFiniteSet(Hits(list, k)) /\ \A x \in Hits(list, k) : Amount(list, x) \in Int
  <1> DEFINE rows == RegisterPositions(list, k.path, k.deep)
             N == Len(rows)
             U == Hits(list, k)
  <1>1. rows \in Seq(Position) /\ ToSet(rows) = U
    BY RowsInTime
  <1>2. rows \in Surjection(1 .. N, U) /\ N \in Nat
    BY <1>1 DEF Surjection, ToSet
  <1>3. IsFiniteSet(1 .. N)
    BY <1>2, FS_Interval
  <1> HIDE DEF N, U, rows
  <1>4. IsFiniteSet(U)
    BY <1>2, <1>3, FS_Surjection
  <1> QED  BY <1>4, HitIs DEF U

\* The balances as of a date.
LEMMA BalancesAre ==
    ASSUME NEW list \in Seq(Entries), InOrder(list), NEW k, NEW c, c \notin Index(list, k).overflow
    PROVE  AsOfExact(list, k, Index(list, k), c)
  <1> DEFINE index == Index(list, k)
             rows == index.rows
  <1>1. /\ rows = RegisterPositions(list, k.path, k.deep) /\ Len(rows) \in Nat
        /\ \A n \in 0 .. Len(rows) :
             /\ c \in DOMAIN index.sums => index.sums[c][n] = Tally(list, Upto(list, rows, c, n))
             /\ c \notin DOMAIN index.sums => Upto(list, rows, c, n) = {}
    BY IndexIs
  <1>2. Tally(list, {}) = 0
    BY HitsFinite, TallyFirst
  <1> SUFFICES ASSUME NEW date \in Nat
               PROVE  AmountIn(GetBalancesAsOf(list, index, date), c)
                        = Tally(list, Dated(list, k, c, 0, date))
    BY DEF AsOfExact
  <1> HIDE DEF index
  <1> DEFINE m == FindLastRowOnOrBefore(list, index, date)
             h == FindLastRowBefore(list, index, 0)
  <1>3. LastUpto(list, rows, date, m) /\ LastBefore(list, rows, 0, h) /\ m \in 0 .. Len(rows)
    <2>1. 0 \in Nat
      OBVIOUS
    <2> QED  BY <1>1, <2>1, Searched DEF LastUpto
  <1>4. GetBalancesAsOf(list, index, date) = NonZero([x \in DOMAIN index.sums |-> index.sums[x][m]])
    BY DEF GetBalancesAsOf
  <1> HIDE DEF m, h, rows
  <1>5. Dated(list, k, c, 0, date) = Upto(list, rows, c, m)
    <2>1. 0 \in Nat
      OBVIOUS
    <2>2. RowsOf(list, k, rows)
      BY <1>1 DEF RowsOf
    <2>3. DatesSplit(list, k, c, 0, date, rows, h, m)
      BY <1>3, <2>1, <2>2, UptoDate
    <2> QED  BY <2>3 DEF DatesSplit
  <1> DEFINE f == [x \in DOMAIN index.sums |-> index.sums[x][m]]
  <1>6. AmountIn(f, c) = Tally(list, Upto(list, rows, c, m))
    BY <1>1, <1>2, <1>3 DEF AmountIn
  <1> HIDE DEF f
  <1>7. AmountIn(NonZero(f), c) = AmountIn(f, c)
    BY ZerosOut
  <1> QED  BY <1>4, <1>5, <1>6, <1>7 DEF f

\* The changes over a range of dates.
LEMMA ChangesAre ==
    ASSUME NEW list \in Seq(Entries), InOrder(list), NEW k, NEW c, c \notin Index(list, k).overflow
    PROVE  ChangesFloat(list, k, Index(list, k), c)
  <1> DEFINE index == Index(list, k)
             rows == index.rows
  <1>1. /\ rows = RegisterPositions(list, k.path, k.deep) /\ Len(rows) \in Nat
        /\ \A n \in 0 .. Len(rows) :
             /\ c \in DOMAIN index.sums => index.sums[c][n] = Tally(list, Upto(list, rows, c, n))
             /\ c \notin DOMAIN index.sums => Upto(list, rows, c, n) = {}
    BY IndexIs
  <1>2. /\ Tally(list, {}) = 0 /\ IsFiniteSet(Hits(list, k))
        /\ \A x \in Hits(list, k) : Amount(list, x) \in Int
    BY HitsFinite, TallyFirst
  <1>3. Float(0) = 0
    BY LimitAssumption DEF Float
  <1> SUFFICES ASSUME NEW from \in Nat, NEW to \in Nat
               PROVE  AmountIn(GetBalanceChanges(list, index, from, to), c)
                        = Float(Tally(list, Dated(list, k, c, from, to)))
    BY DEF ChangesFloat
  <1> HIDE DEF index
  <1> DEFINE m == FindLastRowOnOrBefore(list, index, to)
             h == FindLastRowBefore(list, index, from)
             f == [x \in DOMAIN index.sums |-> Float(index.sums[x][m] - index.sums[x][h])]
             sum == Tally(list, Dated(list, k, c, from, to))
  <1>4. /\ LastUpto(list, rows, to, m) /\ LastBefore(list, rows, from, h)
        /\ m \in 0 .. Len(rows) /\ h \in 0 .. Len(rows)
    BY <1>1, Searched DEF LastUpto, LastBefore
  <1>5. DatesSplit(list, k, c, from, to, rows, h, m)
    <2>1. RowsOf(list, k, rows)
      BY <1>1 DEF RowsOf
    <2> QED  BY <1>4, <2>1, UptoDate
  <1>6. GetBalanceChanges(list, index, from, to) = IF to < from \/ m = 0 THEN <<>> ELSE NonZero(f)
    BY DEF GetBalanceChanges
  <1>7. AmountIn(<<>>, c) = 0 \/ c \in DOMAIN <<>>
    BY DEF AmountIn
  <1>8. DOMAIN <<>> = {}
    OBVIOUS
  <1>9. Dated(list, k, c, from, to) \in SUBSET Hits(list, k)
    BY DEF Dated
  <1> HIDE DEF m, h, rows
  <1>10. CASE to < from
    <2>1. Dated(list, k, c, from, to) = {}
      <3>1. \A pos \in Hits(list, k) : DateAt(list, pos) \in Nat
        BY HitIs
      <3> QED  BY <1>10, <3>1 DEF Dated
    <2> QED  BY <1>2, <1>3, <1>6, <1>7, <1>8, <1>10, <2>1
  <1>11. CASE from <= to
    <2>1. /\ Upto(list, rows, c, m) = Upto(list, rows, c, h) \cup Dated(list, k, c, from, to)
          /\ Upto(list, rows, c, h) \cap Dated(list, k, c, from, to) = {}
      BY <1>11, <1>5 DEF DatesSplit
    <2>2. Upto(list, rows, c, m) \in SUBSET Hits(list, k)
      <3>1. Dated(list, k, c, 0, to) = Upto(list, rows, c, m)
        BY <1>5 DEF DatesSplit
      <3> QED  BY <3>1 DEF Dated
    <2>3. Upto(list, rows, c, h) \in SUBSET Hits(list, k)
      BY <2>1, <2>2
    <2>4. /\ Tally(list, Upto(list, rows, c, m)) = Tally(list, Upto(list, rows, c, h)) + sum
          /\ Tally(list, Upto(list, rows, c, h)) \in Int /\ sum \in Int
      <3> DEFINE U == Hits(list, k)
                 D == Upto(list, rows, c, h)
                 E == Dated(list, k, c, from, to)
      <3>1. IsFiniteSet(U) /\ (\A x \in U : Amount(list, x) \in Int)
            /\ D \in SUBSET U /\ E \in SUBSET U /\ D \cap E = {}
            /\ Upto(list, rows, c, m) = D \cup E
        BY <1>2, <1>9, <2>1, <2>3
      <3> HIDE DEF U, D, E
      <3>2. /\ Tally(list, D \cup E) = Tally(list, D) + Tally(list, E)
            /\ Tally(list, D) \in Int /\ Tally(list, E) \in Int
        BY <3>1, TallySplit
      <3> QED  BY <3>1, <3>2 DEF D, E
    <2>5. CASE m = 0
      <3>1. Upto(list, rows, c, m) = {}
        BY <2>5 DEF Upto
      <3>2. Dated(list, k, c, from, to) = {}
        BY <2>1, <3>1
      <3> QED  BY <1>2, <1>3, <1>6, <1>7, <1>8, <2>5, <3>2
    <2>6. CASE m # 0
      <3> HIDE DEF sum
      <3>1. CASE c \in DOMAIN index.sums
        <4>1. /\ index.sums[c][m] = Tally(list, Upto(list, rows, c, m))
              /\ index.sums[c][h] = Tally(list, Upto(list, rows, c, h))
          BY <1>1, <1>4, <3>1
        <4>2. index.sums[c][m] - index.sums[c][h] = sum
          BY <2>4, <4>1
        <4>3. AmountIn(f, c) = Float(sum)
          BY <3>1, <4>2 DEF AmountIn
        <4> QED  BY <1>6, <1>11, <2>6, <4>3, ZerosOut DEF sum
      <3>2. CASE c \notin DOMAIN index.sums
        <4>1. Upto(list, rows, c, m) = {}
          BY <1>1, <1>4, <3>2
        <4>2. Dated(list, k, c, from, to) = {}
          BY <2>1, <4>1
        <4>3. AmountIn(f, c) = 0
          BY <3>2 DEF AmountIn
        <4> QED  BY <1>2, <1>3, <1>6, <1>11, <2>6, <4>2, <4>3, ZerosOut
      <3> QED  BY <3>1, <3>2
    <2> QED  BY <2>5, <2>6
  <1> QED  BY <1>10, <1>11

\* The first total of a currency that is not safe was not safe before it was rounded.
LEMMA FlagsAreEarned ==
    ASSUME NEW list \in Seq(Entries), InOrder(list), NEW k, NEW c \in Index(list, k).overflow
    PROVE  FlagEarned(list, Index(list, k), c)
  <1> DEFINE index == Index(list, k)
             rows == RegisterPositions(list, k.path, k.deep)
             N == Len(rows)
             run == RunningTotals(list, rows, c)
             unsafe == {i \in 1 .. N : /\ PostingAt(list, rows[i]).currency = c
                                      /\ ~IsSafeInteger(run[i])}
             of(n) == Upto(list, rows, c, n)
  <1>1. /\ rows \in Seq(Position) /\ Ascending(rows) /\ N \in Nat /\ DOMAIN rows = 1 .. N
        /\ \A i \in 1 .. N : Amount(list, rows[i]) \in Int
    BY RowsInTime, HitIs
  <1>2. unsafe # {} /\ index.rows = rows
    BY <1>1 DEF Index, BuildRegisterIndex
  <1> HIDE DEF rows
  <1>3. PICK first \in unsafe : \A i \in unsafe : first <= i
    <2>1. unsafe \in SUBSET Nat
      BY <1>1
    <2> HIDE DEF unsafe
    <2> QED  BY <1>2, <2>1, LeastNat
  <1>4. first \in 1 .. N /\ PostingAt(list, rows[first]).currency = c /\ ~IsSafeInteger(run[first])
    OBVIOUS
  <1>5. \A i \in 1 .. first - 1 : PostingAt(list, rows[i]).currency = c => IsSafeInteger(run[i])
    <2>1. \A i \in 1 .. first - 1 : i \in 1 .. N /\ ~(first <= i)
      BY <1>1, <1>4
    <2> QED  BY <1>3, <2>1
  <1>6. first - 1 \in 0 .. N /\ first - 1 \in 0 .. first - 1 /\ first \in 0 .. N
    BY <1>1, <1>4
  <1>7. run[first - 1] = Tally(list, of(first - 1))
    BY <1>1, <1>5, <1>6, RunExact
  <1>8. run[first] = Float(run[first - 1] + Amount(list, rows[first]))
    BY <1>1, <1>4, RunSteps
  <1>9. /\ Tally(list, of(first)) = Tally(list, of(first - 1)) + Amount(list, rows[first])
        /\ Tally(list, of(first - 1)) \in Int /\ Amount(list, rows[first]) \in Int
    BY <1>1, <1>4, UptoNext
  <1>10. ~IsSafeInteger(Tally(list, of(first)))
    <2> DEFINE t == Tally(list, of(first))
    <2>1. t \in Int /\ run[first] = Float(t)
      BY <1>7, <1>8, <1>9
    <2> HIDE DEF t
    <2>2. IsSafeInteger(t) => Float(t) = t
      BY <2>1, LimitAssumption DEF IsSafeInteger, Float
    <2> QED  BY <1>4, <2>1, <2>2 DEF t
  <1> QED  BY <1>1, <1>2, <1>4, <1>10 DEF FlagEarned

\* Every register of a list in order.
LEMMA RegistersAre ==
    ASSUME NEW list \in Seq(Entries), InOrder(list)
    PROVE  \A k : RegisterExact(list, k, Index(list, k))
  <1> TAKE k
  <1>1. \A c : c \notin Index(list, k).overflow =>
          /\ ReadsExact(list, Index(list, k), c)
          /\ AsOfExact(list, k, Index(list, k), c)
          /\ ChangesFloat(list, k, Index(list, k), c)
    BY ReadsAreExact, BalancesAre, ChangesAre
  <1>2. \A c \in Index(list, k).overflow : FlagEarned(list, Index(list, k), c)
    BY FlagsAreEarned
  <1> QED  BY <1>1, <1>2 DEF RegisterExact

\* What a reader of a register is given, from the cache or built now.
RegistersAddUp == \A k \in Key : RegisterExact(entries, k, CachedIndex(k))

\* Whatever was added, removed or replaced before, nested calls included, and
\* whatever is cached: unless a currency is flagged (hasRunningBalanceOverflow), the
\* running balances read in any slice of a register (getRegisterRows), its balance
\* as of any date (getBalancesAsOf) and its change over any range of dates
\* (getBalanceChanges) are the sums of its postings of now, the last as a double.
THEOREM RegistersAlwaysExact == Spec => []RegistersAddUp
  <1>1. StoreInv /\ CachesCoherent => RegistersAddUp
    <2> SUFFICES ASSUME StoreInv, CachesCoherent, NEW k \in Key
                 PROVE  RegisterExact(entries, k, CachedIndex(k))
      BY DEF RegistersAddUp
    <2>1. entries \in Seq(Entries) /\ InOrder(entries)
      BY DEF StoreInv, Holds
    <2>2. CachedIndex(k) = Index(entries, k)
      BY DEF CachedIndex, CachesCoherent
    <2> QED  BY <2>1, <2>2, RegistersAre
  <1>2. Spec => []StoreInv
    BY StoreStarts, StoreKeeps, PTL DEF Spec
  <1> QED  BY <1>1, <1>2, CachesNeverStale, PTL

-----------------------------------------------------------------------------
(* The views.  What a listener has read is what it would read now, unless a  *)
(* call that changed it has still to tell it.                                *)

LEMMA FrontIs ==
    ASSUME NEW F, NEW s \in Seq(F), s # <<>>
    PROVE  /\ Front(s) \in Seq(F) /\ Len(s) - 1 \in Nat /\ Len(Front(s)) = Len(s) - 1
           /\ \A i \in 1 .. Len(s) - 1 : Front(s)[i] = s[i]
           /\ Last(s) = s[Len(s)] /\ Len(s) \in DOMAIN s
  <1> DEFINE n == Len(s) - 1
  <1>1. n \in Nat /\ \A i \in 1 .. n : s[i] \in F
    OBVIOUS
  <1>2. Front(s) = [i \in 1 .. n |-> s[i]]
    BY DEF Front
  <1>3. Last(s) = s[Len(s)] /\ Len(s) \in DOMAIN s
    BY DEF Last
  <1> HIDE DEF n
  <1>4. Front(s) \in [1 .. n -> F]
    BY <1>1, <1>2
  <1>5. Front(s) \in Seq(F) /\ Len(Front(s)) = n
    BY <1>1, <1>2, <1>4
  <1>6. \A i \in 1 .. n : Front(s)[i] = s[i]
    BY <1>2
  <1> QED  BY <1>1, <1>3, <1>5, <1>6 DEF n

\* All but one listener are left.
LEMMA WithoutIs ==
    ASSUME NEW list \in Seq(Listener), NEW l
    PROVE  /\ Without(list, l) \in Seq(Listener)
           /\ ToSet(Without(list, l)) = ToSet(list) \ {l}
  <1> DEFINE L == Len(list)
             loop == Skipping(l)
             Left(n) == {list[j] : j \in 1 .. n} \ {l}
  <1>1. L \in Nat /\ DOMAIN list = 1 .. L /\ \A n \in 1 .. L : list[n] \in Listener
    OBVIOUS
  <1>2. PICK after : Turns(loop, <<>>, list, L, after)
    <2> HIDE DEF L, loop
    <2> QED  BY <1>1, LoopSteps
  <1> DEFINE T == {n \in 0 .. L : after[n] \in Seq(Listener) /\ ToSet(after[n]) = Left(n)}
  <1>3. 0 \in T
    <2>1. after[0] = <<>> /\ ToSet(<<>>) = {} /\ <<>> \in Seq(Listener)
      BY <1>2 DEF Turns, ToSet
    <2>2. Left(0) = {} /\ 0 \in 0 .. L
      BY <1>1
    <2> HIDE DEF L, Left
    <2> QED  BY <2>1, <2>2
  <1>4. ASSUME NEW n \in 1 .. L, n - 1 \in T
        PROVE  n \in T
    <2>1. after[n] = SkipOne(after[n - 1], list[n], l)
      BY <1>2 DEF Turns, Turn, Skipping
    <2>2. {list[j] : j \in 1 .. n} = {list[j] : j \in 1 .. n - 1} \cup {list[n]}
      <3>1. 1 .. n = (1 .. n - 1) \cup {n}
        BY <1>1
      <3> QED  BY <3>1
    <2>3. after[n - 1] \in Seq(Listener) /\ ToSet(after[n - 1]) = Left(n - 1)
      BY <1>4
    <2>4. CASE list[n] = l
      BY <2>1, <2>2, <2>3, <2>4 DEF SkipOne
    <2>5. CASE list[n] # l
      <3>1. after[n] = Append(after[n - 1], list[n])
        BY <2>1, <2>5 DEF SkipOne
      <3>2. /\ after[n] \in Seq(Listener)
            /\ ToSet(after[n]) = ToSet(after[n - 1]) \cup {list[n]}
        BY <1>1, <2>3, <3>1, OneAppended
      <3>3. Left(n) = Left(n - 1) \cup {list[n]}
        BY <2>2, <2>5
      <3>4. n \in 0 .. L
        BY <1>1
      <3> HIDE DEF Left, L
      <3> QED  BY <2>3, <3>2, <3>3, <3>4
    <2> QED  BY <2>4, <2>5
  <1>5. L \in T
    <2> HIDE DEF T, L
    <2>1. \A n \in 1 .. L : n - 1 \in T => n \in T
      BY <1>4
    <2>2. \A n \in 0 .. L : n \in T
      BY <1>1, <1>3, <2>1, Counting
    <2> QED  BY <1>1, <2>2
  <1>6. Without(list, l) = after[L]
    BY <1>2, WithoutIsLoop DEF Turns
  <1>7. ToSet(list) = {list[j] : j \in 1 .. L}
    BY <1>1, Zenon DEF ToSet
  <1> QED  BY <1>5, <1>6, <1>7

IsFrame(f) ==
    /\ f = [ids |-> f.ids, accounts |-> f.accounts, running |-> f.running,
            pending |-> f.pending]
    /\ f.pending \in Seq(Listener)

\* Listeners and their views; who does not listen keeps nothing.
ViewTypes ==
    /\ Stacked
    /\ \A i \in DOMAIN frames : IsFrame(frames[i])
    /\ listeners \in Seq(Listener)
    /\ view = [l \in Listener |-> [k \in Key |-> view[l][k]]]
    /\ \A l \in Listener \ ToSet(listeners) : view[l] = NoCache

\* A call in progress has still to tell the listener of a change to the register.
Owed(l, k) == \E i \in DOMAIN frames : /\ l \in ToSet(frames[i].pending)
                                       /\ Touches(frames[i].accounts, k)

Coherent ==
    threw \/ \A l \in ToSet(listeners), k \in Key :
               view[l][k] \in {None, Rows(entries, k)} \/ Owed(l, k)

ViewInv == ViewTypes /\ Coherent

LEMMA StackIs ==
    ASSUME Stacked
    PROVE  /\ Len(frames) \in Nat /\ DOMAIN frames = 1 .. Len(frames)
           /\ frames # <<>> => /\ Len(frames) \in DOMAIN frames
                               /\ Top = frames[Len(frames)]
  <1>1. PICK F : frames \in Seq(F)
    BY DEF Stacked
  <1>2. Len(frames) \in Nat /\ DOMAIN frames = 1 .. Len(frames)
    BY <1>1
  <1>3. frames # <<>> => Last(frames) = frames[Len(frames)] /\ Len(frames) \in DOMAIN frames
    BY <1>1, FrontIs
  <1> QED  BY <1>2, <1>3 DEF Top

LEMMA EmitAppends ==
    ASSUME Stacked, NEW ids, NEW sources, EmitMutation(ids, sources)
    PROVE  LET n == Len(frames)
           IN  /\ DOMAIN frames' = 1 .. n + 1
               /\ \A i \in 1 .. n : frames'[i] = frames[i]
               /\ frames'[n + 1] = [ids |-> ids, accounts |-> AccountsOf(sources),
                                    running |-> None, pending |-> listeners]
  <1>1. PICK F : frames \in Seq(F)
    BY DEF Stacked
  <1> DEFINE frame == [ids |-> ids, accounts |-> AccountsOf(sources),
                       running |-> None, pending |-> listeners]
  <1>2. frames' = Append(frames, frame)
    BY DEF EmitMutation
  <1> HIDE DEF frame
  <1>3. frames \in Seq(F \cup {frame}) /\ frame \in F \cup {frame}
    BY <1>1
  <1>4. Len(frames) \in Nat /\ DOMAIN frames = 1 .. Len(frames)
    BY <1>1
  <1>5. LET longer == Append(frames, frame)
        IN  /\ DOMAIN longer = 1 .. Len(frames) + 1
            /\ longer[Len(frames) + 1] = frame
            /\ \A i \in DOMAIN frames : longer[i] = frames[i]
    BY <1>3, OneAppended
  <1> QED  BY <1>2, <1>4, <1>5 DEF frame

\* A mutation owes every listener what it changed, and changes nothing else.
LEMMA MutationViews ==
    ASSUME StoreInv, StoreInv', ViewInv, NEW ids, NEW sources,
           EmitMutation(ids, sources),
           ToSet(entries) \ ToSet(entries') \subseteq sources,
           ToSet(entries') \ ToSet(entries) \subseteq sources
    PROVE  ViewInv'
  <1> DEFINE n == Len(frames)
             frame == frames'[n + 1]
  <1>1. Stacked /\ n \in Nat /\ DOMAIN frames = 1 .. n
    BY StackIs DEF ViewInv, ViewTypes
  <1>2. /\ DOMAIN frames' = 1 .. n + 1 /\ n + 1 \in DOMAIN frames'
        /\ \A i \in 1 .. n : frames'[i] = frames[i] /\ i \in DOMAIN frames'
        /\ frame = [ids |-> ids, accounts |-> AccountsOf(sources),
                    running |-> None, pending |-> listeners]
    BY <1>1, EmitAppends
  <1> HIDE DEF n, frame
  <1>3. UNCHANGED <<listeners, view, threw>> /\ Stacked'
    BY <1>1, EmitStacks DEF EmitMutation
  <1>4. ASSUME NEW i \in DOMAIN frames'
        PROVE  IsFrame(frames'[i])
    <2>1. CASE i \in 1 .. n
      BY <1>1, <1>2, <2>1 DEF ViewInv, ViewTypes
    <2>2. CASE i = n + 1
      BY <1>2, <2>2 DEF ViewInv, ViewTypes, IsFrame, frame
    <2> QED  BY <1>1, <1>2, <2>1, <2>2
  <1>5. ViewTypes'
    BY <1>3, <1>4 DEF ViewInv, ViewTypes, NoCache
  <1>6. ASSUME ~threw, NEW l \in ToSet(listeners), NEW k \in Key
        PROVE  view[l][k] \in {None, Rows(entries', k)} \/ Owed(l, k)'
    <2>1. CASE Touches(AccountsOf(sources), k)
      <3>1. l \in ToSet(frame.pending) /\ Touches(frame.accounts, k)
        BY <1>2, <1>6, <2>1
      <3> QED  BY <1>2, <3>1 DEF Owed, frame
    <2>2. CASE ~Touches(AccountsOf(sources), k)
      <3>1. /\ entries \in Seq(Entries) /\ entries' \in Seq(Entries)
            /\ InOrder(entries) /\ InOrder(entries')
        BY DEF StoreInv, Holds, InOrder
      <3>2. Rows(entries, k) = Rows(entries', k)
        BY <2>2, <3>1, Untouched
      <3>3. CASE view[l][k] \in {None, Rows(entries, k)}
        BY <3>2, <3>3
      <3>4. CASE Owed(l, k)
        BY <1>1, <1>2, <3>4 DEF Owed
      <3> QED  BY <1>6, <3>3, <3>4 DEF ViewInv, Coherent
    <2> QED  BY <2>1, <2>2
  <1>7. Coherent'
    BY <1>3, <1>6 DEF Coherent, Rows, Index
  <1> QED  BY <1>5, <1>7 DEF ViewInv

LEMMA AddViews ==
    ASSUME StoreInv, ViewInv, NEW batch \in Batch, AddEntries(batch)
    PROVE  ViewInv'
  <1> DEFINE added == TakeNew(entryById, batch).added
             ids == {e.id : e \in ToSet(added)}
  <1>1. StoreInv' /\ ToSet(entries') = ToSet(entries) \cup ToSet(added)
    BY AddKeeps
  <1>2. EmitMutation(ids, ToSet(added))
    BY DEF AddEntries
  <1> HIDE DEF added, ids
  <1> QED  BY <1>1, <1>2, MutationViews

LEMMA RemoveViews ==
    ASSUME StoreInv, ViewInv, NEW ids, RemoveEntries(ids)
    PROVE  ViewInv'
  <1> DEFINE gone == ids \cap DOMAIN entryById
             sources == {entryById[i] : i \in gone}
  <1>1. StoreInv' /\ ToSet(entries') = {e \in ToSet(entries) : e.id \notin gone}
    BY RemoveKeeps
  <1>2. EmitMutation(gone, sources)
    BY DEF RemoveEntries
  <1>3. \A e \in ToSet(entries) : e.id \in DOMAIN entryById /\ entryById[e.id] = e
    BY HeldById DEF StoreInv
  <1>4. ToSet(entries) \ ToSet(entries') \subseteq sources
    BY <1>1, <1>3
  <1> HIDE DEF gone, sources
  <1> QED  BY <1>1, <1>2, <1>4, MutationViews

LEMMA ReplaceViews ==
    ASSUME StoreInv, ViewInv, NEW batch \in Batch, ReplaceEntries(batch)
    PROVE  ViewInv'
  <1> DEFINE done == FoldLeft(ReplaceOne,
                       [list |-> entries, byId |-> entryById, sources |-> {}], batch)
             given == {e.id : e \in ToSet(batch)}
  <1>1. /\ StoreInv'
        /\ ToSet(entries) \ ToSet(entries') \subseteq done.sources
        /\ ToSet(entries') \ ToSet(entries) \subseteq done.sources
    BY ReplaceKeeps
  <1>2. EmitMutation(given, done.sources)
    BY DEF ReplaceEntries
  <1> HIDE DEF done, given
  <1> QED  BY <1>1, <1>2, MutationViews

\* A read keeps what is there to be read.
LEMMA ReadViews ==
    ASSUME IndInv, ViewInv, NEW l \in Listener, NEW k \in Key, ReadIntoView(l, k)
    PROVE  ViewInv'
  <1>1. CachedIndex(k) = Index(entries, k)
    BY DEF CachedIndex, IndInv, CachesCoherent
  <1>2. /\ UNCHANGED <<entries, listeners, frames, threw>> /\ l \in ToSet(listeners)
        /\ view' = [view EXCEPT ![l][k] = Rows(entries, k)]
    BY <1>1 DEF ReadIntoView, Rows
  <1>3. view = [m \in Listener |-> [j \in Key |-> view[m][j]]]
    BY DEF ViewInv, ViewTypes
  <1>4. /\ view'[l][k] = Rows(entries, k)
        /\ \A m \in Listener, j \in Key : m # l \/ j # k => view'[m][j] = view[m][j]
        /\ \A m \in Listener : m # l => view'[m] = view[m]
        /\ view' = [m \in Listener |-> [j \in Key |-> view'[m][j]]]
    <2> DEFINE after == [view EXCEPT ![l][k] = Rows(entries, k)]
    <2>1. DOMAIN after = Listener
      BY <1>3
    <2>2. \A m \in Listener : m # l => after[m] = view[m]
      BY <1>3
    <2>3. after[l] = [view[l] EXCEPT ![k] = Rows(entries, k)]
      BY <1>3
    <2>4. \A m \in Listener : view[m] = [j \in Key |-> view[m][j]]
      BY <1>3
    <2>5. /\ after[l][k] = Rows(entries, k)
          /\ \A j \in Key : j # k => after[l][j] = view[l][j]
          /\ after[l] = [j \in Key |-> after[l][j]]
      BY <2>3, <2>4
    <2>6. after = [m \in Listener |-> after[m]]
      BY <2>1
    <2> HIDE DEF after
    <2>7. \A m \in Listener : after[m] = [j \in Key |-> after[m][j]]
      BY <2>2, <2>4, <2>5
    <2>8. after = [m \in Listener |-> [j \in Key |-> after[m][j]]]
      BY <2>6, <2>7
    <2>9. view' = after
      BY <1>2 DEF after
    <2> QED  BY <2>2, <2>5, <2>8, <2>9
  <1>5. ViewTypes'
    <2>1. Stacked'
      BY <1>2 DEF ViewInv, ViewTypes, Stacked
    <2>2. \A m \in Listener \ ToSet(listeners) : view'[m] = NoCache
      BY <1>2, <1>4 DEF ViewInv, ViewTypes
    <2> QED  BY <1>2, <1>4, <2>1, <2>2 DEF ViewInv, ViewTypes, NoCache
  <1>6. ToSet(listeners) \subseteq Listener
    <2>1. listeners \in Seq(Listener)
      BY DEF ViewInv, ViewTypes
    <2> QED  BY <2>1 DEF ToSet
  <1>7. Coherent'
    <2>1. ASSUME ~threw, NEW m \in ToSet(listeners), NEW j \in Key
          PROVE  view'[m][j] \in {None, Rows(entries, j)} \/ Owed(m, j)
      BY <1>4, <1>6, <2>1 DEF ViewInv, Coherent
    <2>2. \A m, j : Owed(m, j)' <=> Owed(m, j)
      BY <1>2 DEF Owed, Touches
    <2> QED  BY <1>2, <2>1, <2>2 DEF Coherent
  <1> QED  BY <1>5, <1>7 DEF ViewInv

LEMMA ToldIs ==
    ASSUME NEW s \in Seq(Listener), s # <<>>
    PROVE  /\ Head(s) \in ToSet(s) /\ Tail(s) \in Seq(Listener)
           /\ ToSet(s) = ToSet(Tail(s)) \cup {Head(s)}
           /\ ToSet(s) \subseteq Listener
  <1>1. Len(s) \in Nat \ {0} /\ DOMAIN s = 1 .. Len(s) /\ Head(s) = s[1]
    OBVIOUS
  <1>2. /\ Tail(s) \in Seq(Listener) /\ Len(Tail(s)) = Len(s) - 1
        /\ DOMAIN Tail(s) = 1 .. Len(s) - 1
        /\ \A i \in 1 .. Len(s) - 1 : Tail(s)[i] = s[i + 1]
    OBVIOUS
  <1>3. /\ ToSet(s) = {s[i] : i \in 1 .. Len(s)}
        /\ ToSet(Tail(s)) = {Tail(s)[i] : i \in 1 .. Len(s) - 1}
    BY <1>1, <1>2, Zenon DEF ToSet
  <1>4. ToSet(s) \subseteq Listener /\ Head(s) \in ToSet(s)
    BY <1>1, <1>3
  <1>5. \A i \in 1 .. Len(s) : i = 1 \/ i - 1 \in 1 .. Len(s) - 1
    BY <1>1
  <1>6. \A i \in 1 .. Len(s) - 1 : i + 1 \in 1 .. Len(s) /\ Tail(s)[i] = s[i + 1]
    BY <1>1, <1>2
  <1>7. ASSUME NEW x \in ToSet(s) PROVE x \in ToSet(Tail(s)) \cup {Head(s)}
    <2>1. PICK i \in 1 .. Len(s) : x = s[i]
      BY <1>3
    <2>2. CASE i = 1
      BY <1>1, <2>1, <2>2
    <2>3. CASE i # 1
      <3>1. i - 1 \in 1 .. Len(s) - 1 /\ i - 1 + 1 = i
        BY <1>5, <2>3
      <3>2. Tail(s)[i - 1] = s[i]
        BY <1>6, <3>1
      <3> QED  BY <1>3, <2>1, <3>1, <3>2
    <2> QED  BY <2>2, <2>3
  <1>8. ToSet(Tail(s)) \subseteq ToSet(s)
    BY <1>3, <1>6
  <1> QED  BY <1>2, <1>4, <1>7, <1>8

\* Whoever is told drops what it is told of.
LEMMA DeliverViews ==
    ASSUME ViewInv, Deliver
    PROVE  ViewInv'
  <1> DEFINE n == Len(frames)
             l == Head(Top.pending)
             frame == [Top EXCEPT !.running = l, !.pending = Tail(@)]
  <1>1. /\ frames # <<>> /\ Top.pending # <<>>
        /\ frames' = Append(Front(frames), frame)
        /\ view' = [view EXCEPT ![l] = [k \in Key |-> IF Touches(Top.accounts, k) THEN None
                                                      ELSE view[l][k]]]
        /\ UNCHANGED <<entries, listeners, threw>>
    BY DEF Deliver
  <1>2. PICK F : frames \in Seq(F)
    BY DEF ViewInv, ViewTypes, Stacked
  <1>3. /\ n \in Nat /\ n \in DOMAIN frames /\ DOMAIN frames = 1 .. n /\ Top = frames[n]
    BY <1>1, StackIs DEF ViewInv, ViewTypes
  <1>4. IsFrame(Top)
    BY <1>3 DEF ViewInv, ViewTypes
  <1>5. /\ l \in Listener /\ Tail(Top.pending) \in Seq(Listener)
        /\ ToSet(Top.pending) = ToSet(Tail(Top.pending)) \cup {l}
    BY <1>1, <1>4, ToldIs DEF IsFrame
  <1>6. frame = [ids |-> Top.ids, accounts |-> Top.accounts, running |-> l,
                 pending |-> Tail(Top.pending)]
    <2> DEFINE f == Top
               told == l
    <2>1. frame = [f EXCEPT !.running = told, !.pending = Tail(@)]
      OBVIOUS
    <2>2. IsFrame(f)
      BY <1>4
    <2> HIDE DEF f, told, l, frame
    <2>3. frame = [ids |-> f.ids, accounts |-> f.accounts, running |-> told,
                   pending |-> Tail(f.pending)]
      BY <2>1, <2>2 DEF IsFrame
    <2> QED  BY <2>3 DEF f, told
  <1> HIDE DEF n, l, frame
  <1>7. /\ DOMAIN frames' = 1 .. n /\ frames'[n] = frame
        /\ \A i \in 1 .. n - 1 : frames'[i] = frames[i]
        /\ Stacked'
    <2> DEFINE below == Front(frames)
               G == F \cup {frame}
    <2>1. frames \in Seq(G) /\ frame \in G
      BY <1>2
    <2>2. /\ below \in Seq(G) /\ Len(below) = n - 1 /\ n - 1 \in Nat
          /\ \A i \in 1 .. n - 1 : below[i] = frames[i]
      <3> HIDE DEF G
      <3> QED  BY <1>1, <2>1, FrontIs DEF n
    <2> HIDE DEF below, G
    <2>3. LET longer == Append(below, frame)
          IN  /\ longer \in Seq(G) /\ DOMAIN longer = 1 .. Len(below) + 1
              /\ longer[Len(below) + 1] = frame
              /\ \A i \in DOMAIN below : longer[i] = below[i]
      BY <2>1, <2>2, OneAppended
    <2>4. frames' = Append(below, frame)
      BY <1>1 DEF below
    <2>5. Len(below) + 1 = n /\ DOMAIN below = 1 .. n - 1
      <3>1. DOMAIN below = 1 .. Len(below)
        BY <2>2
      <3> QED  BY <1>3, <2>2, <3>1
    <2> QED  BY <2>2, <2>3, <2>4, <2>5 DEF Stacked
  <1>8. view = [m \in Listener |-> [k \in Key |-> view[m][k]]]
    BY DEF ViewInv, ViewTypes
  <1>9. /\ \A m \in Listener : m # l => view'[m] = view[m]
        /\ \A k \in Key : view'[l][k] = IF Touches(Top.accounts, k) THEN None ELSE view[l][k]
        /\ view' = [m \in Listener |-> [k \in Key |-> view'[m][k]]]
    <2> DEFINE new == [k \in Key |-> IF Touches(Top.accounts, k) THEN None ELSE view[l][k]]
               after == [view EXCEPT ![l] = new]
    <2>1. DOMAIN after = Listener /\ after[l] = new
      BY <1>5, <1>8
    <2>2. \A m \in Listener : m # l => after[m] = view[m]
      BY <1>8
    <2>3. \A m \in Listener : view[m] = [k \in Key |-> view[m][k]]
      BY <1>8
    <2>4. new = [k \in Key |-> new[k]]
      OBVIOUS
    <2>5. \A k \in Key : new[k] = IF Touches(Top.accounts, k) THEN None ELSE view[l][k]
      OBVIOUS
    <2>6. after = [m \in Listener |-> after[m]]
      BY <2>1
    <2>7. view' = after
      BY <1>1
    <2> HIDE DEF after, new
    <2>8. \A m \in Listener : after[m] = [k \in Key |-> after[m][k]]
      BY <2>1, <2>2, <2>3, <2>4
    <2>9. after = [m \in Listener |-> [k \in Key |-> after[m][k]]]
      BY <2>6, <2>8
    <2> QED  BY <2>1, <2>2, <2>5, <2>7, <2>9
  <1>10. ViewTypes'
    <2>1. \A i \in DOMAIN frames' : IsFrame(frames'[i])
      <3>1. IsFrame(frame)
        BY <1>5, <1>6 DEF IsFrame
      <3>2. \A i \in 1 .. n : i = n \/ i \in 1 .. n - 1
        BY <1>3
      <3>3. \A i \in 1 .. n - 1 : i \in DOMAIN frames
        BY <1>3
      <3> QED  BY <1>7, <3>1, <3>2, <3>3 DEF ViewInv, ViewTypes
    <2>2. ASSUME NEW m \in Listener \ ToSet(listeners)
          PROVE  view'[m] = NoCache
      <3>1. view[m] = NoCache
        BY DEF ViewInv, ViewTypes
      <3>2. CASE m = l
        <4>1. \A k \in Key : view[l][k] = None
          BY <3>1, <3>2 DEF NoCache
        <4>2. \A k \in Key : view'[l][k] = None
          BY <1>9, <4>1
        <4>3. view'[l] = [k \in Key |-> view'[l][k]]
          BY <1>5, <1>9
        <4> QED  BY <3>2, <4>2, <4>3 DEF NoCache
      <3> QED  BY <1>9, <3>1, <3>2
    <2> QED  BY <1>1, <1>7, <1>9, <2>1, <2>2 DEF ViewInv, ViewTypes, NoCache
  <1>11. ToSet(listeners) \subseteq Listener
    <2>1. listeners \in Seq(Listener)
      BY DEF ViewInv, ViewTypes
    <2> QED  BY <2>1 DEF ToSet
  <1>12. ASSUME ~threw, NEW m \in ToSet(listeners), NEW k \in Key
         PROVE  view'[m][k] \in {None, Rows(entries, k)} \/ Owed(m, k)'
    <2>1. CASE m = l /\ Touches(Top.accounts, k)
      BY <1>9, <2>1
    <2>2. CASE ~(m = l /\ Touches(Top.accounts, k))
      <3>1. view'[m][k] = view[m][k]
        BY <1>9, <1>11, <2>2
      <3>2. CASE view[m][k] \in {None, Rows(entries, k)}
        BY <3>1, <3>2
      <3>3. CASE Owed(m, k)
        <4>1. PICK i \in 1 .. n : /\ m \in ToSet(frames[i].pending)
                                  /\ Touches(frames[i].accounts, k)
          BY <1>3, <3>3 DEF Owed
        <4>2. CASE i = n
          <5>1. m # l /\ m \in ToSet(Tail(Top.pending)) /\ Touches(Top.accounts, k)
            BY <1>3, <1>5, <2>2, <4>1, <4>2
          <5>2. /\ m \in ToSet(frames'[n].pending) /\ Touches(frames'[n].accounts, k)
                /\ n \in DOMAIN frames'
            BY <1>3, <1>6, <1>7, <5>1
          <5> QED  BY <5>2 DEF Owed
        <4>3. CASE i # n
          <5>1. i \in 1 .. n - 1 /\ i \in 1 .. n
            BY <1>3, <4>3
          <5>2. frames'[i] = frames[i] /\ i \in DOMAIN frames'
            BY <1>7, <5>1
          <5> QED  BY <4>1, <5>2 DEF Owed
        <4> QED  BY <4>2, <4>3
      <3> QED  BY <1>12, <3>2, <3>3 DEF ViewInv, Coherent
    <2> QED  BY <2>1, <2>2
  <1>13. Coherent'
    BY <1>1, <1>12 DEF Coherent, Rows, Index
  <1> QED  BY <1>10, <1>13 DEF ViewInv

\* A loop ends when everybody has been told.
LEMMA ReturnViews ==
    ASSUME ViewInv, Return
    PROVE  ViewInv'
  <1> DEFINE n == Len(frames)
  <1>1. /\ frames # <<>> /\ Top.pending = <<>> /\ frames' = Front(frames)
        /\ UNCHANGED <<entries, listeners, view, threw>>
    BY DEF Return
  <1>2. n \in Nat /\ DOMAIN frames = 1 .. n /\ Top = frames[n]
    BY <1>1, StackIs DEF ViewInv, ViewTypes
  <1>3. /\ DOMAIN frames' = 1 .. n - 1 /\ \A i \in 1 .. n - 1 : frames'[i] = frames[i]
        /\ Stacked'
    <2>1. PICK F : frames \in Seq(F)
      BY DEF ViewInv, ViewTypes, Stacked
    <2>2. /\ Front(frames) \in Seq(F) /\ Len(Front(frames)) = n - 1
          /\ \A i \in 1 .. n - 1 : Front(frames)[i] = frames[i]
      BY <1>1, <2>1, FrontIs
    <2>3. DOMAIN Front(frames) = 1 .. Len(Front(frames))
      BY <2>2
    <2> QED  BY <1>1, <2>2, <2>3 DEF Stacked
  <1> HIDE DEF n
  <1>4. \A i \in 1 .. n - 1 : i \in DOMAIN frames
    BY <1>2
  <1>5. ViewTypes'
    <2>1. \A i \in DOMAIN frames' : IsFrame(frames'[i])
      BY <1>3, <1>4 DEF ViewInv, ViewTypes
    <2> QED  BY <1>1, <1>3, <2>1 DEF ViewInv, ViewTypes, NoCache
  <1>6. ASSUME NEW l, NEW k, Owed(l, k)
        PROVE  Owed(l, k)'
    <2>1. PICK i \in 1 .. n : l \in ToSet(frames[i].pending) /\ Touches(frames[i].accounts, k)
      BY <1>2, <1>6 DEF Owed
    <2>2. i # n
      <3>1. ToSet(<<>>) = {}
        BY DEF ToSet
      <3> QED  BY <1>1, <1>2, <2>1, <3>1
    <2>3. i \in 1 .. n - 1
      BY <1>2, <2>2
    <2> QED  BY <1>3, <2>1, <2>3 DEF Owed
  <1>7. Coherent'
    BY <1>1, <1>6 DEF ViewInv, Coherent, Rows, Index
  <1> QED  BY <1>5, <1>7 DEF ViewInv

LEMMA ThrowViews ==
    ASSUME ViewInv, ListenerThrows
    PROVE  ViewInv'
  <1>1. frames' = <<>> /\ threw' /\ UNCHANGED <<listeners, view>>
    BY DEF ListenerThrows
  <1>2. Stacked' /\ DOMAIN frames' = {}
    <2>1. <<>> \in Seq({}) /\ DOMAIN <<>> = {}
      OBVIOUS
    <2> QED  BY <1>1, <2>1 DEF Stacked
  <1>3. ViewTypes'
    BY <1>1, <1>2 DEF ViewInv, ViewTypes, NoCache
  <1>4. Coherent'
    BY <1>1 DEF Coherent
  <1> QED  BY <1>3, <1>4 DEF ViewInv

LEMMA SubscribeViews ==
    ASSUME ViewInv, NEW l \in Listener, Subscribe(l)
    PROVE  ViewInv'
  <1>1. /\ listeners' = Append(listeners, l)
        /\ frames' = [i \in DOMAIN frames |-> [frames[i] EXCEPT !.pending = Append(@, l)]]
        /\ UNCHANGED <<entries, view, threw>> /\ l \notin ToSet(listeners)
    BY DEF Subscribe
  <1>2. listeners' \in Seq(Listener) /\ ToSet(listeners') = ToSet(listeners) \cup {l}
    <2>1. listeners \in Seq(Listener)
      BY DEF ViewInv, ViewTypes
    <2>2. /\ Append(listeners, l) \in Seq(Listener)
          /\ ToSet(Append(listeners, l)) = ToSet(listeners) \cup {l}
      BY <2>1, OneAppended
    <2> QED  BY <1>1, <2>2
  <1>3. ASSUME NEW i \in DOMAIN frames
        PROVE  /\ IsFrame(frames'[i]) /\ frames'[i].accounts = frames[i].accounts
               /\ ToSet(frames'[i].pending) = ToSet(frames[i].pending) \cup {l}
    <2> DEFINE f == frames[i]
    <2>1. IsFrame(f)
      BY DEF ViewInv, ViewTypes
    <2>2. frames'[i] = [f EXCEPT !.pending = Append(@, l)]
      BY <1>1
    <2> HIDE DEF f
    <2>3. frames'[i] = [ids |-> f.ids, accounts |-> f.accounts, running |-> f.running,
                        pending |-> Append(f.pending, l)]
      BY <2>1, <2>2 DEF IsFrame
    <2>4. /\ Append(f.pending, l) \in Seq(Listener)
          /\ ToSet(Append(f.pending, l)) = ToSet(f.pending) \cup {l}
      <3>1. f.pending \in Seq(Listener)
        BY <2>1 DEF IsFrame
      <3> DEFINE p == f.pending
      <3> HIDE DEF p
      <3>2. /\ Append(p, l) \in Seq(Listener)
            /\ ToSet(Append(p, l)) = ToSet(p) \cup {l}
        BY <3>1, OneAppended DEF p
      <3> QED  BY <3>2 DEF p
    <2>5. IsFrame(frames'[i])
      BY <2>3, <2>4 DEF IsFrame
    <2> QED  BY <2>3, <2>4, <2>5 DEF f
  <1>4. DOMAIN frames' = DOMAIN frames /\ Stacked'
    <2>1. DOMAIN frames' = DOMAIN frames
      BY <1>1
    <2>2. Stacked'
      BY OthersDoNotGrow DEF ViewInv, ViewTypes
    <2> QED  BY <2>1, <2>2
  <1>5. ViewTypes'
    BY <1>1, <1>2, <1>3, <1>4 DEF ViewInv, ViewTypes, NoCache
  <1>6. ASSUME NEW m, NEW k, Owed(m, k)
        PROVE  Owed(m, k)'
    BY <1>3, <1>4, <1>6 DEF Owed
  <1>7. \A k \in Key : view[l][k] = None
    BY <1>1 DEF ViewInv, ViewTypes, NoCache
  <1>8. ASSUME ~threw, NEW m \in ToSet(listeners'), NEW k \in Key
        PROVE  view[m][k] \in {None, Rows(entries, k)} \/ Owed(m, k)'
    BY <1>2, <1>6, <1>7, <1>8 DEF ViewInv, Coherent
  <1>9. Coherent'
    BY <1>1, <1>8 DEF Coherent, Rows, Index
  <1> QED  BY <1>5, <1>9 DEF ViewInv

LEMMA UnsubscribeViews ==
    ASSUME ViewInv, NEW l \in Listener, Unsubscribe(l)
    PROVE  ViewInv'
  <1>1. /\ listeners' = Without(listeners, l)
        /\ frames' = [i \in DOMAIN frames |-> [frames[i] EXCEPT !.pending = Without(@, l)]]
        /\ view' = [view EXCEPT ![l] = NoCache]
        /\ UNCHANGED <<entries, threw>>
    BY DEF Unsubscribe
  <1>2. /\ listeners' \in Seq(Listener) /\ ToSet(listeners') = ToSet(listeners) \ {l}
    BY <1>1, WithoutIs DEF ViewInv, ViewTypes
  <1>3. ASSUME NEW i \in DOMAIN frames
        PROVE  /\ IsFrame(frames'[i]) /\ frames'[i].accounts = frames[i].accounts
               /\ ToSet(frames'[i].pending) = ToSet(frames[i].pending) \ {l}
    <2> DEFINE f == frames[i]
    <2>1. IsFrame(f)
      BY DEF ViewInv, ViewTypes
    <2>2. frames'[i] = [f EXCEPT !.pending = Without(@, l)]
      BY <1>1
    <2> HIDE DEF f
    <2>3. frames'[i] = [ids |-> f.ids, accounts |-> f.accounts, running |-> f.running,
                        pending |-> Without(f.pending, l)]
      BY <2>1, <2>2 DEF IsFrame
    <2>4. /\ Without(f.pending, l) \in Seq(Listener)
          /\ ToSet(Without(f.pending, l)) = ToSet(f.pending) \ {l}
      BY <2>1, WithoutIs DEF IsFrame
    <2>5. IsFrame(frames'[i])
      BY <2>3, <2>4 DEF IsFrame
    <2> QED  BY <2>3, <2>4, <2>5 DEF f
  <1>4. DOMAIN frames' = DOMAIN frames /\ Stacked'
    <2>1. DOMAIN frames' = DOMAIN frames
      BY <1>1
    <2>2. Stacked'
      BY OthersDoNotGrow DEF ViewInv, ViewTypes
    <2> QED  BY <2>1, <2>2
  <1>5. /\ \A m \in Listener : m # l => view'[m] = view[m]
        /\ view'[l] = NoCache
        /\ view' = [m \in Listener |-> [k \in Key |-> view'[m][k]]]
    <2> DEFINE after == [view EXCEPT ![l] = NoCache]
    <2>1. view = [m \in Listener |-> [k \in Key |-> view[m][k]]]
      BY DEF ViewInv, ViewTypes
    <2>2. /\ DOMAIN after = Listener /\ after[l] = NoCache
          /\ \A m \in Listener : m # l => after[m] = view[m]
      BY <2>1
    <2>3. \A m \in Listener : view[m] = [k \in Key |-> view[m][k]]
      BY <2>1
    <2>4. after = [m \in Listener |-> after[m]]
      BY <2>2
    <2>5. NoCache = [k \in Key |-> NoCache[k]]
      BY DEF NoCache
    <2> HIDE DEF after
    <2>6. \A m \in Listener : after[m] = [k \in Key |-> after[m][k]]
      BY <2>2, <2>3, <2>5
    <2>7. after = [m \in Listener |-> [k \in Key |-> after[m][k]]]
      BY <2>4, <2>6
    <2>8. view' = after
      BY <1>1 DEF after
    <2> QED  BY <2>2, <2>7, <2>8
  <1>6. ViewTypes'
    <2>1. \A m \in Listener \ ToSet(listeners') : view'[m] = NoCache
      BY <1>2, <1>5 DEF ViewInv, ViewTypes
    <2> QED  BY <1>2, <1>3, <1>4, <1>5, <2>1 DEF ViewInv, ViewTypes, NoCache
  <1>7. ASSUME NEW m, m # l, NEW k, Owed(m, k)
        PROVE  Owed(m, k)'
    BY <1>3, <1>4, <1>7 DEF Owed
  <1>8. ToSet(listeners) \subseteq Listener
    <2>1. listeners \in Seq(Listener)
      BY DEF ViewInv, ViewTypes
    <2> QED  BY <2>1 DEF ToSet
  <1>9. ASSUME ~threw, NEW m \in ToSet(listeners'), NEW k \in Key
        PROVE  view'[m][k] \in {None, Rows(entries, k)} \/ Owed(m, k)'
    <2>1. m # l /\ m \in ToSet(listeners) /\ view'[m] = view[m]
      BY <1>2, <1>5, <1>8
    <2> QED  BY <1>7, <1>9, <2>1 DEF ViewInv, Coherent
  <1>10. Coherent'
    BY <1>1, <1>9 DEF Coherent, Rows, Index
  <1> QED  BY <1>6, <1>10 DEF ViewInv

LEMMA ViewStep == StoreInv /\ IndInv /\ ViewInv /\ [Next]_vars => ViewInv'
  <1> SUFFICES ASSUME StoreInv, IndInv, ViewInv, [Next]_vars PROVE ViewInv'
    OBVIOUS
  <1>1. CASE UNCHANGED <<entries, listeners, frames, view, threw>>
    BY <1>1 DEF ViewInv, ViewTypes, Coherent, Stacked, NoCache, Owed, Touches, Rows, Index
  <1>2. \A k \in Key : ReadRegister(k) => ViewInv'
    BY <1>1 DEF ReadRegister
  <1>3. Search => ViewInv'
    BY <1>1 DEF Search
  <1>4. UNCHANGED vars => ViewInv'
    BY <1>1 DEF vars
  <1> QED
    BY <1>2, <1>3, <1>4, ReadViews, AddViews, RemoveViews, ReplaceViews, DeliverViews,
       ReturnViews, ThrowViews, SubscribeViews, UnsubscribeViews DEF Next

\* The list and the map agree, and so do the store and its readers: a listener that
\* drops only the registers an event names holds no stale one, unless an event that
\* concerns it is still being delivered or a listener has thrown.
THEOREM StoreAlwaysSound == Spec => []StoreSound
  <1>1. Init => IndInv
    BY DEF Init, NoCache, IndInv, CachesCoherent
  <1>2. Init => ViewInv
    <2> SUFFICES ASSUME Init PROVE ViewInv
      OBVIOUS
    <2>1. /\ listeners = <<>> /\ frames = <<>> /\ threw = FALSE
          /\ view = [l \in Listener |-> NoCache]
      BY DEF Init
    <2>2. /\ <<>> \in Seq(Listener) /\ <<>> \in Seq({}) /\ DOMAIN <<>> = {} /\ ToSet(<<>>) = {}
      BY DEF ToSet
    <2>3. view = [l \in Listener |-> [k \in Key |-> view[l][k]]]
      BY <2>1 DEF NoCache
    <2> QED  BY <2>1, <2>2, <2>3 DEF ViewInv, ViewTypes, Coherent, Stacked
  <1>3. StoreInv /\ ViewInv => StoreSound
    BY StoreInvMatches DEF ViewInv, Coherent, Owed, StoreSound, ViewsCoherent
  <1> QED  BY <1>1, <1>2, <1>3, StoreStarts, StoreKeeps, StepPreserves, ViewStep, PTL DEF Spec
=============================================================================
