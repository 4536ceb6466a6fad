------------------------ MODULE AccountTree_proofs ------------------------
(***************************************************************************)
(* What the editing primitives of AccountTree keep: the path set and the   *)
(* children map describe the same forest, and nothing is held for a path   *)
(* that is not in it.                                                      *)
(***************************************************************************)
EXTENDS AccountTree, FiniteSetTheorems, SequenceTheorems, WellFoundedInduction, NaturalsInduction, TLAPS

Path == Seq(Nat)

-----------------------------------------------------------------------------
(* Counting *)

\* A set of naturals has a least one.
LEMMA LeastNat ==
    ASSUME NEW T \in SUBSET Nat, T # {}
    PROVE  \E n \in T : \A m \in T : n <= m
  <1>1. IsWellFoundedOn(OpToRel(<, Nat), Nat)
    BY NatLessThanWellFounded
  <1>2. PICK n \in T : \A m \in T : ~(<<m, n>> \in OpToRel(<, Nat))
    BY <1>1, WFMin
  <1>3. ASSUME NEW m \in T, ~(n <= m) PROVE FALSE
    <2>1. m \in Nat /\ n \in Nat /\ m < n
      BY <1>3
    <2> QED  BY <1>2, <1>3, <2>1 DEF OpToRel
  <1> QED  BY <1>3

\* What holds of no element and, if of one less, then of one more, holds of all
\* the numbers up to a bound.
LEMMA Counting ==
    ASSUME NEW L \in Nat, NEW T, 0 \in T, \A n \in 1 .. L : n - 1 \in T => n \in T
    PROVE  \A n \in 0 .. L : n \in T
  <1> SUFFICES ASSUME NEW m \in 0 .. L, m \notin T PROVE FALSE
    OBVIOUS
  <1> DEFINE U == {n \in Nat : n <= L /\ n \notin T}
  <1>1. m \in U
    OBVIOUS
  <1>2. PICK n \in U : \A k \in U : n <= k
    BY <1>1, LeastNat
  <1>3. n \in 1 .. L /\ n - 1 \in Nat /\ n - 1 <= L /\ ~(n <= n - 1)
    <2>1. n # 0 /\ n \in Nat /\ n <= L
      BY <1>2
    <2> QED  BY <2>1
  <1>4. n - 1 \in T
    BY <1>2, <1>3
  <1> QED  BY <1>2, <1>3, <1>4

-----------------------------------------------------------------------------
(* Paths *)

LEMMA ParentType ==
    ASSUME NEW p \in Path, p # Root
    PROVE  /\ Parent(p) \in Path
           /\ Len(p) \in Nat \ {0}
           /\ Len(Parent(p)) = Len(p) - 1
           /\ \A i \in 1 .. Len(p) - 1 : Parent(p)[i] = p[i]
  <1>1. Len(p) \in Nat \ {0} /\ \A i \in 1 .. Len(p) : p[i] \in Nat
    BY DEF Path, Root
  <1> DEFINE n == Len(p) - 1
  <1>2. n \in Int /\ (\A i \in 1 .. n : p[i] \in Nat)
    BY <1>1
  <1>3. /\ SubSeq(p, 1, n) \in Seq(Nat)
        /\ Len(SubSeq(p, 1, n)) = IF 1 <= n THEN n - 1 + 1 ELSE 0
        /\ \A i \in 1 .. n - 1 + 1 : SubSeq(p, 1, n)[i] = p[1 + i - 1]
    BY <1>2, SubSeqProperties, 1 \in Int
  <1>4. Len(SubSeq(p, 1, n)) = n
    <2>1. n \in Nat
      BY <1>1
    <2> HIDE DEF n
    <2>2. (IF 1 <= n THEN n - 1 + 1 ELSE 0) = n
      BY <2>1
    <2> QED  BY <1>3, <2>2
  <1>5. ASSUME NEW i \in 1 .. n PROVE SubSeq(p, 1, n)[i] = p[i]
    <2>1. i \in 1 .. n - 1 + 1 /\ 1 + i - 1 = i
      BY <1>1
    <2>2. SubSeq(p, 1, n)[i] = p[1 + i - 1]
      BY <1>3, <2>1
    <2> QED  BY <2>1, <2>2
  <1> QED  BY <1>5, <1>1, <1>3, <1>4 DEF Path, Parent

\* Two paths are equal when their segments are.
LEMMA PathEqual ==
    ASSUME NEW p \in Path, NEW q \in Path, Len(p) = Len(q),
           \A i \in 1 .. Len(p) : p[i] = q[i]
    PROVE  p = q
  BY DEF Path

LEMMA PrefixPointwise ==
    ASSUME NEW p \in Path, NEW q \in Path
    PROVE  IsPrefix(p, q) <=> /\ Len(p) <= Len(q)
                              /\ \A i \in 1 .. Len(p) : p[i] = q[i]
  <1>1. ASSUME IsPrefix(p, q)
        PROVE  Len(p) <= Len(q) /\ \A i \in 1 .. Len(p) : p[i] = q[i]
    <2>1. Len(p) <= Len(q) /\ SubSeq(p, 1, Len(p)) = SubSeq(q, 1, Len(p))
      BY <1>1 DEF IsPrefix
    <2>2. \A i \in 1 .. Len(p) : SubSeq(p, 1, Len(p))[i] = p[i]
      BY DEF Path
    <2>3. \A i \in 1 .. Len(p) : SubSeq(q, 1, Len(p))[i] = q[i]
      BY <2>1 DEF Path
    <2> QED  BY <2>1, <2>2, <2>3
  <1>2. ASSUME Len(p) <= Len(q), \A i \in 1 .. Len(p) : p[i] = q[i]
        PROVE  IsPrefix(p, q)
    <2>1. SubSeq(p, 1, Len(p)) \in Path /\ SubSeq(q, 1, Len(p)) \in Path
      BY <1>2 DEF Path
    <2>2. Len(SubSeq(p, 1, Len(p))) = Len(p) /\ Len(SubSeq(q, 1, Len(p))) = Len(p)
      BY <1>2 DEF Path
    <2>3. \A i \in 1 .. Len(p) : SubSeq(p, 1, Len(p))[i] = SubSeq(q, 1, Len(p))[i]
      BY <1>2 DEF Path
    <2> QED  BY <1>2, <2>1, <2>2, <2>3, PathEqual DEF IsPrefix
  <1> QED  BY <1>1, <1>2

\* The lineage of a path is its prefixes other than Root.
LEMMA LineagePrefix ==
    ASSUME NEW p \in Path, NEW c
    PROVE  c \in Lineage(p) <=> c \in Path /\ c # Root /\ IsPrefix(c, p)
  <1>1. ASSUME NEW k \in 1 .. Len(p)
        PROVE  LET s == SubSeq(p, 1, k)
               IN  s \in Path /\ s # Root /\ IsPrefix(s, p)
    <2> DEFINE s == SubSeq(p, 1, k)
    <2>1. s \in Path /\ Len(s) = k /\ \A i \in 1 .. k : s[i] = p[i]
      BY DEF Path
    <2>2. s # Root
      BY <2>1 DEF Root
    <2>3. IsPrefix(s, p)
      <3> HIDE DEF s
      <3> QED  BY <2>1, PrefixPointwise DEF Path
    <2> QED  BY <2>1, <2>2, <2>3
  <1>2. ASSUME c \in Path, c # Root, IsPrefix(c, p)
        PROVE  Len(c) \in 1 .. Len(p) /\ c = SubSeq(p, 1, Len(c))
    <2>1. Len(c) \in 1 .. Len(p) /\ \A i \in 1 .. Len(c) : c[i] = p[i]
      BY <1>2, PrefixPointwise DEF Path, Root
    <2>2. /\ SubSeq(p, 1, Len(c)) \in Path
          /\ Len(SubSeq(p, 1, Len(c))) = Len(c)
          /\ \A i \in 1 .. Len(c) : SubSeq(p, 1, Len(c))[i] = p[i]
      BY <2>1 DEF Path
    <2> QED  BY <1>2, <2>1, <2>2, PathEqual
  <1> QED  BY <1>1, <1>2 DEF Lineage

LEMMA PrefixOrder ==
    ASSUME NEW p \in Path, NEW q \in Path, NEW r \in Path
    PROVE  /\ IsPrefix(p, p)
           /\ IsPrefix(p, q) /\ IsPrefix(q, r) => IsPrefix(p, r)
           /\ IsPrefix(p, r) /\ IsPrefix(q, r) /\ Len(p) <= Len(q) => IsPrefix(p, q)
           /\ IsPrefix(p, q) /\ Len(p) = Len(q) => p = q
  <1>1. IsPrefix(p, p)
    BY PrefixPointwise DEF Path
  <1>2. ASSUME IsPrefix(p, q), IsPrefix(q, r) PROVE IsPrefix(p, r)
    <2>1. Len(p) <= Len(q) /\ Len(q) <= Len(r) /\ Len(p) \in Nat
          /\ Len(q) \in Nat /\ Len(r) \in Nat
      BY <1>2, PrefixPointwise DEF Path
    <2>2. \A i \in 1 .. Len(p) : p[i] = q[i] /\ q[i] = r[i]
      BY <1>2, <2>1, PrefixPointwise
    <2> QED  BY <2>1, <2>2, PrefixPointwise
  <1>3. ASSUME IsPrefix(p, r), IsPrefix(q, r), Len(p) <= Len(q) PROVE IsPrefix(p, q)
    <2>1. Len(p) \in Nat /\ Len(q) \in Nat
      BY DEF Path
    <2>2. \A i \in 1 .. Len(p) : p[i] = r[i] /\ q[i] = r[i]
      BY <1>3, <2>1, PrefixPointwise
    <2> QED  BY <1>3, <2>2, PrefixPointwise
  <1>4. ASSUME IsPrefix(p, q), Len(p) = Len(q) PROVE p = q
    BY <1>4, PrefixPointwise, PathEqual
  <1> QED  BY <1>1, <1>2, <1>3, <1>4

LEMMA RootPrefix ==
    ASSUME NEW p \in Path, IsPrefix(p, Root)
    PROVE  p = Root
  <1>1. Root \in Path /\ Len(Root) = 0
    BY DEF Root, Path
  <1>2. Len(p) <= Len(Root) /\ Len(p) \in Nat
    <2>1. Len(p) <= Len(Root)
      BY <1>1, PrefixPointwise
    <2>2. Len(p) \in Nat
      BY DEF Path
    <2> QED  BY <2>1, <2>2
  <1>3. Len(p) = Len(Root) /\ \A i \in 1 .. Len(p) : p[i] = Root[i]
    BY <1>1, <1>2
  <1> QED  BY <1>1, <1>3, PathEqual

\* A path's prefixes are its parent's, and the path.
LEMMA ParentPrefix ==
    ASSUME NEW p \in Path, p # Root, NEW q \in Path
    PROVE  /\ IsPrefix(Parent(p), p)
           /\ IsPrefix(q, p) /\ q # p => IsPrefix(q, Parent(p))
           /\ Parent(p) # p
           /\ ~IsPrefix(p, Parent(p))
  <1>1. IsPrefix(Parent(p), p)
    BY ParentType, PrefixPointwise
  <1>2. ASSUME IsPrefix(q, p), q # p PROVE IsPrefix(q, Parent(p))
    <2>1. Len(q) <= Len(p) /\ Len(q) # Len(p) /\ Len(q) \in Nat
      BY <1>2, PrefixPointwise, PrefixOrder DEF Path
    <2> QED  BY <1>1, <1>2, <2>1, ParentType, PrefixOrder
  <1>3. ~IsPrefix(p, Parent(p))
    BY ParentType, PrefixPointwise
  <1> QED  BY <1>1, <1>2, <1>3, PrefixOrder

LEMMA LineageFacts ==
    ASSUME NEW p \in Path
    PROVE  /\ p # Root => p \in Lineage(p)
           /\ \A c \in Lineage(p) : /\ Lineage(c) \subseteq Lineage(p)
                                    /\ Parent(c) \in Lineage(p) \cup {Root}
                                    /\ c \in Path /\ c # Root
                                    /\ IsValidPath(p) => IsValidPath(c)
  <1>1. p # Root => p \in Lineage(p)
    BY LineagePrefix, PrefixOrder
  <1> SUFFICES ASSUME NEW c \in Lineage(p)
               PROVE  /\ Lineage(c) \subseteq Lineage(p)
                      /\ Parent(c) \in Lineage(p) \cup {Root}
                      /\ c \in Path /\ c # Root
                      /\ IsValidPath(p) => IsValidPath(c)
    BY <1>1
  <1>2. c \in Path /\ c # Root /\ IsPrefix(c, p)
    BY LineagePrefix
  <1>3. Lineage(c) \subseteq Lineage(p)
    BY <1>2, LineagePrefix, PrefixOrder
  <1>4. Parent(c) \in Lineage(p) \cup {Root}
    BY <1>2, LineagePrefix, PrefixOrder, ParentType, ParentPrefix
  <1>5. IsValidPath(p) => IsValidPath(c)
    <2>1. Len(c) \in Nat /\ DOMAIN c = 1 .. Len(c) /\ DOMAIN p = 1 .. Len(p)
          /\ Len(p) \in Nat
      BY <1>2 DEF Path
    <2> QED  BY <1>2, <2>1, PrefixPointwise DEF IsValidPath
  <1> QED  BY <1>2, <1>3, <1>4, <1>5

\* The prefixes of a path by their length.
LEMMA CutFacts ==
    ASSUME NEW p \in Path, NEW k \in 0 .. Len(p)
    PROVE  /\ SubSeq(p, 1, k) \in Path
           /\ Len(SubSeq(p, 1, k)) = k
           /\ IsPrefix(SubSeq(p, 1, k), p)
           /\ k # 0 => SubSeq(p, 1, k) # Root
           /\ k # Len(p) => Parent(SubSeq(p, 1, k + 1)) = SubSeq(p, 1, k)
  <1>1. Len(p) \in Nat /\ k \in Nat
    BY DEF Path
  <1>2. ASSUME NEW j \in 0 .. Len(p)
        PROVE  /\ SubSeq(p, 1, j) \in Path
               /\ Len(SubSeq(p, 1, j)) = j
               /\ \A i \in 1 .. j : SubSeq(p, 1, j)[i] = p[i]
    BY DEF Path
  <1>0. Len(Root) = 0
    BY DEF Root
  <1>k. /\ SubSeq(p, 1, k) \in Path /\ Len(SubSeq(p, 1, k)) = k
        /\ \A i \in 1 .. k : SubSeq(p, 1, k)[i] = p[i]
    BY <1>2
  <1>3. IsPrefix(SubSeq(p, 1, k), p)
    <2> DEFINE s == SubSeq(p, 1, k)
    <2>1. s \in Path /\ Len(s) = k /\ \A i \in 1 .. k : s[i] = p[i]
      BY <1>k
    <2> HIDE DEF s
    <2>2. IsPrefix(s, p)
      BY <1>1, <2>1, PrefixPointwise
    <2> QED  BY <2>2 DEF s
  <1>4. k # 0 => SubSeq(p, 1, k) # Root
    BY <1>0, <1>k
  <1>5. ASSUME k # Len(p) PROVE Parent(SubSeq(p, 1, k + 1)) = SubSeq(p, 1, k)
    <2> DEFINE q == SubSeq(p, 1, k + 1)
    <2>1. k + 1 \in 0 .. Len(p)
      BY <1>1, <1>5
    <2>2. q \in Path /\ Len(q) = k + 1 /\ \A i \in 1 .. k + 1 : q[i] = p[i]
      BY <1>2, <2>1
    <2>3. q # Root
      BY <1>0, <1>1, <2>2
    <2> HIDE DEF q
    <2>4. Parent(q) \in Path /\ Len(Parent(q)) = k /\ \A i \in 1 .. k : Parent(q)[i] = p[i]
      BY <1>1, <2>2, <2>3, ParentType
    <2>5. Parent(q) = SubSeq(p, 1, k)
      BY <1>k, <2>4, PathEqual
    <2> QED  BY <2>5 DEF q
  <1> QED  BY <1>2, <1>3, <1>4, <1>5

LEMMA PrefixCut ==
    ASSUME NEW p \in Path, NEW q \in Path, IsPrefix(p, q)
    PROVE  Len(p) \in 0 .. Len(q) /\ p = SubSeq(q, 1, Len(p))
  <1>0. Len(p) \in Nat /\ Len(q) \in Nat
    BY DEF Path
  <1>1. Len(p) \in 0 .. Len(q) /\ \A i \in 1 .. Len(p) : p[i] = q[i]
    <2>1. Len(p) <= Len(q) /\ \A i \in 1 .. Len(p) : p[i] = q[i]
      BY PrefixPointwise
    <2> QED  BY <1>0, <2>1
  <1>2. SubSeq(q, 1, Len(p)) \in Path /\ Len(SubSeq(q, 1, Len(p))) = Len(p)
        /\ \A i \in 1 .. Len(p) : SubSeq(q, 1, Len(p))[i] = q[i]
    BY <1>0, <1>1 DEF Path
  <1> QED  BY <1>1, <1>2, PathEqual

LEMMA SameLeaf ==
    ASSUME NEW p \in Path, NEW q \in Path, p # Root, q # Root, Parent(p) = Parent(q),
           Last(p) = Last(q)
    PROVE  p = q
  <1>1. /\ Len(p) \in Nat \ {0} /\ Len(q) \in Nat \ {0} /\ Len(p) = Len(q)
        /\ \A i \in 1 .. Len(p) - 1 : Parent(p)[i] = p[i] /\ Parent(p)[i] = q[i]
    BY ParentType
  <1>2. p[Len(p)] = q[Len(p)]
    BY <1>1 DEF Last
  <1>3. \A i \in 1 .. Len(p) : p[i] = q[i]
    BY <1>1, <1>2
  <1> QED  BY <1>1, <1>3, PathEqual

\* The image of a finite set.
LEMMA FiniteImage ==
    ASSUME NEW S, IsFiniteSet(S), NEW f, f = [x \in S |-> f[x]]
    PROVE  LET T == {f[x] : x \in S}
           IN  /\ IsFiniteSet(T)
               /\ (\A x, y \in S : f[x] = f[y] => x = y) => Cardinality(T) = Cardinality(S)
  <1> DEFINE T == {f[x] : x \in S}
  <1>1. f \in [S -> T] /\ \A t \in T : \E x \in S : f[x] = t
    OBVIOUS
  <1>2. f \in Surjection(S, T)
    BY <1>1 DEF Surjection
  <1> HIDE DEF T
  <1>3. /\ IsFiniteSet(T)
        /\ Cardinality(T) = Cardinality(S) <=> f \in Injection(S, T)
    BY <1>2, FS_Surjection
  <1>4. (\A x, y \in S : f[x] = f[y] => x = y) => f \in Injection(S, T)
    BY <1>1 DEF Injection, IsInjective
  <1> QED  BY <1>3, <1>4 DEF T

\* Finitely many paths have finitely many ancestors.
LEMMA FiniteLineages ==
    ASSUME NEW S, IsFiniteSet(S), S \subseteq Path
    PROVE  IsFiniteSet(UNION {Lineage(q) : q \in S})
  <1> DEFINE f == [q \in S |-> Lineage(q)]
             T == {f[q] : q \in S}
  <1>1. f = [q \in S |-> f[q]] /\ \A q \in S : f[q] = Lineage(q)
    OBVIOUS
  <1>2. ASSUME NEW q \in S PROVE IsFiniteSet(Lineage(q))
    <2> DEFINE g == [k \in 1 .. Len(q) |-> SubSeq(q, 1, k)]
    <2>1. q \in Path
      OBVIOUS
    <2>2. IsFiniteSet(1 .. Len(q))
      BY <2>1, FS_Interval DEF Path
    <2>3. g = [k \in 1 .. Len(q) |-> g[k]] /\ Lineage(q) = {g[k] : k \in 1 .. Len(q)}
      BY DEF Lineage
    <2> HIDE DEF g
    <2> QED  BY <2>2, <2>3, FiniteImage
  <1>3. T = {Lineage(q) : q \in S}
    OBVIOUS
  <1> HIDE DEF f
  <1>4. IsFiniteSet(T)
    BY <1>1, FiniteImage
  <1>5. \A R \in T : IsFiniteSet(R)
    BY <1>1, <1>2
  <1> HIDE DEF T
  <1>6. IsFiniteSet(UNION T)
    BY <1>4, <1>5, FS_UNION
  <1> QED  BY <1>3, <1>6

\* A finite set of paths has a longest one.
LEMMA Longest ==
    ASSUME NEW S, IsFiniteSet(S), S \subseteq Path, S # {}
    PROVE  \E q \in S : \A other \in S : Len(other) <= Len(q)
  <1> DEFINE n == Cardinality(S)
  <1>1. n \in Nat /\ ExistsBijection(1 .. n, S)
    BY FS_CardinalityType
  <1>2. PICK f \in Bijection(1 .. n, S) : TRUE
    BY <1>1 DEF ExistsBijection
  <1>3. f \in [1 .. n -> S] /\ \A p \in S : \E i \in 1 .. n : f[i] = p
    BY <1>2 DEF Bijection, Injection, Surjection
  <1>4. \A p \in S : Len(p) \in Nat
    BY DEF Path
  <1> HIDE DEF n
  <1> DEFINE T == {k \in 0 .. n : \E q \in S : \A i \in 1 .. k : Len(f[i]) <= Len(q)}
  <1>5. 0 \in T
    BY <1>1
  <1>6. ASSUME NEW k \in 1 .. n, k - 1 \in T PROVE k \in T
    <2>1. PICK q \in S : \A i \in 1 .. k - 1 : Len(f[i]) <= Len(q)
      BY <1>6
    <2>2. f[k] \in S /\ \A i \in 1 .. k : f[i] \in S /\ (i = k \/ i \in 1 .. k - 1)
      BY <1>1, <1>3
    <2>3. CASE Len(f[k]) <= Len(q)
      <3>1. \A i \in 1 .. k : Len(f[i]) <= Len(q)
        BY <2>1, <2>2, <2>3
      <3> QED  BY <1>1, <3>1
    <2>4. CASE Len(q) <= Len(f[k])
      <3>1. \A i \in 1 .. k : Len(f[i]) <= Len(f[k])
        BY <1>4, <2>1, <2>2, <2>4
      <3> QED  BY <1>1, <2>2, <3>1
    <2> QED  BY <1>4, <2>2, <2>3, <2>4
  <1> HIDE DEF T
  <1>7. \A k \in 0 .. n : k \in T
    BY <1>1, <1>5, <1>6, Counting
  <1>8. n \in T
    BY <1>1, <1>7
  <1>9. PICK q \in S : \A i \in 1 .. n : Len(f[i]) <= Len(q)
    BY <1>8 DEF T
  <1> QED  BY <1>3, <1>9

\* A list of accounts no two of which have the same leaf name lists each once.
LEMMA ByLeafFacts ==
    ASSUME NEW S, IsFiniteSet(S), S \subseteq Path, \A p \in S : p # Root,
           \A p, q \in S : Last(p) = Last(q) => p = q
    PROVE  /\ ByLeaf(S) \in Seq(S)
           /\ \A p \in S : \E i \in DOMAIN ByLeaf(S) : ByLeaf(S)[i] = p
           /\ \A i, j \in DOMAIN ByLeaf(S) : ByLeaf(S)[i] = ByLeaf(S)[j] => i = j
           /\ Len(ByLeaf(S)) = Cardinality(S)
           /\ \A i \in DOMAIN ByLeaf(S) :
                Cardinality({q \in S : Last(q) < Last(ByLeaf(S)[i])}) = i - 1
  <1> DEFINE before(p) == {q \in S : Last(q) < Last(p)}
             rank(p) == Cardinality(before(p))
             n == Cardinality(S)
             R == [p \in S |-> rank(p) + 1]
             at(i) == CHOOSE p \in S : rank(p) = i - 1
  <1>1. \A p \in S : Last(p) \in Nat
    <2> TAKE p \in S
    <2>1. p \in Seq(Nat) /\ Len(p) \in Nat \ {0}
      BY ParentType DEF Path
    <2> QED  BY <2>1 DEF Last
  <1>2. n \in Nat
    BY FS_CardinalityType
  <1>3. ASSUME NEW p \in S PROVE IsFiniteSet(before(p)) /\ rank(p) \in 0 .. n - 1
    <2>1. before(p) \in SUBSET S /\ p \notin before(p)
      BY <1>1
    <2> HIDE DEF before
    <2>2. IsFiniteSet(before(p)) /\ rank(p) <= n /\ (n = rank(p) => S = before(p))
      BY <2>1, FS_Subset
    <2>3. rank(p) \in Nat
      BY <2>2, FS_CardinalityType
    <2> QED  BY <1>2, <2>1, <2>2, <2>3
  <1>4. ASSUME NEW p \in S, NEW q \in S, Last(p) < Last(q) PROVE rank(p) # rank(q)
    <2>1. before(p) \in SUBSET before(q) /\ p \in before(q) /\ p \notin before(p)
      BY <1>1, <1>4
    <2>2. IsFiniteSet(before(q))
      BY <1>3
    <2> HIDE DEF before
    <2> QED  BY <2>1, <2>2, FS_Subset
  <1>r. \A p \in S : rank(p) \in 0 .. n - 1
    BY <1>3
  <1> HIDE DEF before
  <1>5. \A p, q \in S : rank(p) = rank(q) => p = q
    <2> SUFFICES ASSUME NEW p \in S, NEW q \in S, rank(p) = rank(q), p # q PROVE FALSE
      OBVIOUS
    <2>1. Last(p) < Last(q) \/ Last(q) < Last(p)
      BY <1>1
    <2> HIDE DEF rank
    <2> QED  BY <1>4, <2>1
  <1> HIDE DEF rank, n
  <1>6. R \in Injection(S, 1 .. n)
    <2>1. R \in [S -> 1 .. n]
      BY <1>2, <1>r
    <2>2. \A p, q \in S : R[p] = R[q] => p = q
      BY <1>r, <1>5
    <2> QED  BY <2>1, <2>2 DEF Injection, IsInjective
  <1>7. IsFiniteSet(1 .. n) /\ Cardinality(1 .. n) = n
    BY <1>2, FS_Interval
  <1>8. R \in Surjection(S, 1 .. n)
    <2>1. Cardinality(S) = Cardinality(1 .. n)
      BY <1>7 DEF n
    <2> HIDE DEF R
    <2> QED  BY <1>6, <1>7, <2>1, FS_Injection
  <1>9. ASSUME NEW i \in 1 .. n PROVE at(i) \in S /\ rank(at(i)) = i - 1
    <2>1. PICK p \in S : R[p] = i
      BY <1>8 DEF Surjection
    <2>2. rank(p) = i - 1
      BY <1>2, <1>r, <2>1
    <2> QED  BY <2>2
  <1>10. \A p \in S : rank(p) + 1 \in 1 .. n /\ at(rank(p) + 1) = p
    <2> TAKE p \in S
    <2>1. rank(p) + 1 \in 1 .. n
      BY <1>2, <1>r
    <2>2. at(rank(p) + 1) \in S /\ rank(at(rank(p) + 1)) = rank(p)
      BY <1>r, <1>9, <2>1
    <2> HIDE DEF at
    <2> QED  BY <1>5, <2>1, <2>2
  <1>11. ByLeaf(S) = [i \in 1 .. n |-> at(i)]
    BY DEF ByLeaf, n, rank, before
  <1> HIDE DEF at
  <1>12. DOMAIN ByLeaf(S) = 1 .. n /\ ByLeaf(S) \in [1 .. n -> S] /\ \A i \in 1 .. n : ByLeaf(S)[i] = at(i)
    BY <1>9, <1>11
  <1>13. ByLeaf(S) \in Seq(S)
    BY <1>2, <1>12
  <1>14. \A p \in S : \E i \in 1 .. n : ByLeaf(S)[i] = p
    BY <1>10, <1>12
  <1>15. \A i, j \in 1 .. n : ByLeaf(S)[i] = ByLeaf(S)[j] => i = j
    <2> SUFFICES ASSUME NEW i \in 1 .. n, NEW j \in 1 .. n, at(i) = at(j) PROVE i = j
      BY <1>12
    <2>1. rank(at(i)) = i - 1 /\ rank(at(j)) = j - 1
      BY <1>9
    <2> QED  BY <1>2, <2>1
  <1>16. \A i \in 1 .. n : Cardinality({q \in S : Last(q) < Last(ByLeaf(S)[i])}) = i - 1
    BY <1>9, <1>12 DEF rank, before
  <1>17. Len(ByLeaf(S)) = n
    BY <1>2, <1>12, <1>13
  <1> QED  BY <1>12, <1>13, <1>14, <1>15, <1>16, <1>17 DEF n

-----------------------------------------------------------------------------
(* Renaming *)

LEMMA RemapPointwise ==
    ASSUME NEW from \in Path, NEW to \in Path, NEW p \in Path, IsPrefix(from, p)
    PROVE  /\ Remap(from, to, p) \in Path
           /\ Len(Remap(from, to, p)) = Len(to) + Len(p) - Len(from)
           /\ \A i \in 1 .. Len(to) : Remap(from, to, p)[i] = to[i]
           /\ \A i \in Len(to) + 1 .. Len(to) + Len(p) - Len(from) :
                Remap(from, to, p)[i] = p[i - Len(to) + Len(from)]
  <1>1. /\ Len(from) \in Nat /\ Len(to) \in Nat /\ Len(p) \in Nat
        /\ Len(from) <= Len(p)
        /\ \A i \in 1 .. Len(p) : p[i] \in Nat
    BY PrefixPointwise DEF Path
  <1> DEFINE m == Len(from) + 1
             n == Len(p)
             rest == SubSeq(p, m, n)
  <1>2. m \in Int /\ n \in Int /\ \A i \in m .. n : p[i] \in Nat
    BY <1>1
  <1>3. /\ rest \in Seq(Nat)
        /\ Len(rest) = IF m <= n THEN n - m + 1 ELSE 0
        /\ \A i \in 1 .. n - m + 1 : rest[i] = p[m + i - 1]
    BY <1>2, SubSeqProperties
  <1>4. Len(rest) = Len(p) - Len(from)
    BY <1>1, <1>3
  <1>5. \A i \in 1 .. Len(rest) : rest[i] = p[i + Len(from)]
    BY <1>1, <1>3, <1>4
  <1> HIDE DEF rest
  <1>6. /\ to \o rest \in Path
        /\ Len(to \o rest) = Len(to) + Len(rest)
        /\ \A i \in 1 .. Len(to) + Len(rest) :
             (to \o rest)[i] = IF i <= Len(to) THEN to[i] ELSE rest[i - Len(to)]
    BY <1>3, ConcatProperties DEF Path
  <1>7. Remap(from, to, p) = to \o rest
    BY DEF Remap, rest
  <1> HIDE DEF m, n
  <1>8. \A i \in 1 .. Len(to) : Remap(from, to, p)[i] = to[i]
    BY <1>1, <1>4, <1>6, <1>7
  <1>9. ASSUME NEW i \in Len(to) + 1 .. Len(to) + Len(p) - Len(from)
        PROVE  Remap(from, to, p)[i] = p[i - Len(to) + Len(from)]
    <2>1. i - Len(to) \in 1 .. Len(rest) /\ i \in 1 .. Len(to) + Len(rest)
          /\ ~(i <= Len(to))
      BY <1>1, <1>4
    <2>2. (to \o rest)[i] = rest[i - Len(to)]
      BY <1>6, <2>1
    <2>3. rest[i - Len(to)] = p[i - Len(to) + Len(from)]
      BY <1>5, <2>1
    <2> QED  BY <1>7, <2>2, <2>3
  <1> QED  BY <1>1, <1>4, <1>6, <1>7, <1>8, <1>9

LEMMA RemapFacts ==
    ASSUME NEW from \in Path, NEW to \in Path, NEW p \in Path, IsPrefix(from, p)
    PROVE  /\ Remap(from, to, p) \in Path
           /\ IsPrefix(to, Remap(from, to, p))
           /\ Remap(to, from, Remap(from, to, p)) = p
           /\ Remap(from, to, from) = to
           /\ Remap(from, to, p) = to => p = from
  <1> DEFINE q == Remap(from, to, p)
  <1>1. /\ q \in Path
        /\ Len(q) = Len(to) + Len(p) - Len(from)
        /\ \A i \in 1 .. Len(to) : q[i] = to[i]
        /\ \A i \in Len(to) + 1 .. Len(to) + Len(p) - Len(from) :
             q[i] = p[i - Len(to) + Len(from)]
    BY RemapPointwise
  <1>2. /\ Len(from) \in Nat /\ Len(to) \in Nat /\ Len(p) \in Nat
        /\ Len(from) <= Len(p)
        /\ \A i \in 1 .. Len(from) : p[i] = from[i]
    BY PrefixPointwise DEF Path
  <1> HIDE DEF q
  <1>3. IsPrefix(to, q)
    BY <1>1, <1>2, PrefixPointwise
  <1>4. Remap(to, from, q) = p
    <2> DEFINE r == Remap(to, from, q)
    <2>1. /\ r \in Path
          /\ Len(r) = Len(from) + Len(q) - Len(to)
          /\ \A i \in 1 .. Len(from) : r[i] = from[i]
          /\ \A i \in Len(from) + 1 .. Len(from) + Len(q) - Len(to) :
               r[i] = q[i - Len(from) + Len(to)]
      BY <1>1, <1>3, RemapPointwise
    <2> HIDE DEF r
    <2>2. Len(r) = Len(p)
      BY <1>1, <1>2, <2>1
    <2>3. ASSUME NEW i \in 1 .. Len(p) PROVE r[i] = p[i]
      <3>1. CASE i <= Len(from)
        BY <3>1, <1>2, <2>1
      <3>2. CASE i > Len(from)
        <4> DEFINE j == i - Len(from) + Len(to)
        <4>1. i \in Len(from) + 1 .. Len(from) + Len(q) - Len(to)
          BY <3>2, <1>1, <1>2
        <4>2. /\ j \in Len(to) + 1 .. Len(to) + Len(p) - Len(from)
              /\ j - Len(to) + Len(from) = i
          BY <3>2, <1>2
        <4>3. r[i] = q[j]
          BY <4>1, <2>1
        <4> HIDE DEF j
        <4>4. q[j] = p[j - Len(to) + Len(from)]
          BY <4>2, <1>1
        <4> QED  BY <4>2, <4>3, <4>4
      <3> QED  BY <3>1, <3>2, <1>2
    <2> QED  BY <2>1, <2>2, <2>3, PathEqual DEF r
  <1>5. Remap(from, to, from) = to
    <2>1. IsPrefix(from, from)
      BY PrefixOrder
    <2>2. /\ Remap(from, to, from) \in Path
          /\ Len(Remap(from, to, from)) = Len(to) + Len(from) - Len(from)
          /\ \A i \in 1 .. Len(to) : Remap(from, to, from)[i] = to[i]
      BY <2>1, RemapPointwise
    <2> QED  BY <1>2, <2>2, PathEqual
  <1>6. ASSUME q = to PROVE p = from
    <2>1. Len(p) = Len(from)
      BY <1>1, <1>2, <1>6
    <2> QED  BY <2>1, PrefixOrder
  <1> QED  BY <1>1, <1>3, <1>4, <1>5, <1>6 DEF q

\* Renaming keeps prefixes.
LEMMA RemapPrefix ==
    ASSUME NEW from \in Path, NEW to \in Path, NEW c \in Path, NEW p \in Path,
           IsPrefix(to, c), IsPrefix(from, p), IsPrefix(c, Remap(from, to, p))
    PROVE  IsPrefix(Remap(to, from, c), p)
  <1> DEFINE q == Remap(from, to, p)
             b == Remap(to, from, c)
  <1>1. /\ q \in Path
        /\ Len(q) = Len(to) + Len(p) - Len(from)
        /\ \A i \in Len(to) + 1 .. Len(to) + Len(p) - Len(from) :
             q[i] = p[i - Len(to) + Len(from)]
    BY RemapPointwise
  <1>2. /\ b \in Path
        /\ Len(b) = Len(from) + Len(c) - Len(to)
        /\ \A i \in 1 .. Len(from) : b[i] = from[i]
        /\ \A i \in Len(from) + 1 .. Len(from) + Len(c) - Len(to) :
             b[i] = c[i - Len(from) + Len(to)]
    BY RemapPointwise
  <1>3. /\ Len(c) <= Len(q)
        /\ \A i \in 1 .. Len(c) : c[i] = q[i]
    BY <1>1, PrefixPointwise
  <1>4. /\ Len(from) \in Nat /\ Len(to) \in Nat /\ Len(p) \in Nat /\ Len(c) \in Nat
        /\ Len(from) <= Len(p) /\ Len(to) <= Len(c)
        /\ \A i \in 1 .. Len(from) : p[i] = from[i]
    BY PrefixPointwise DEF Path
  <1> HIDE DEF q, b
  <1>5. Len(b) <= Len(p)
    BY <1>1, <1>2, <1>3, <1>4
  <1>6. ASSUME NEW i \in 1 .. Len(b) PROVE b[i] = p[i]
    <2>1. CASE i <= Len(from)
      BY <2>1, <1>2, <1>4
    <2>2. CASE i > Len(from)
      <3> DEFINE j == i - Len(from) + Len(to)
      <3>1. /\ i \in Len(from) + 1 .. Len(from) + Len(c) - Len(to)
            /\ j \in 1 .. Len(c)
            /\ j \in Len(to) + 1 .. Len(to) + Len(p) - Len(from)
            /\ j - Len(to) + Len(from) = i
        BY <2>2, <1>1, <1>2, <1>3, <1>4
      <3>2. b[i] = c[j]
        BY <3>1, <1>2
      <3> HIDE DEF j
      <3>3. c[j] = q[j] /\ q[j] = p[j - Len(to) + Len(from)]
        BY <3>1, <1>1, <1>3
      <3> QED  BY <3>1, <3>2, <3>3
    <2> QED  BY <2>1, <2>2, <1>2, <1>4
  <1> QED  BY <1>2, <1>5, <1>6, PrefixPointwise DEF b

\* Renaming commutes with taking the parent, below the renamed root.
LEMMA RemapParent ==
    ASSUME NEW from \in Path, NEW to \in Path, NEW p \in Path, IsPrefix(from, p),
           p # from
    PROVE  /\ p # Root
           /\ IsPrefix(from, Parent(p))
           /\ Remap(from, to, p) # Root
           /\ Parent(Remap(from, to, p)) = Remap(from, to, Parent(p))
  <1>1. /\ Len(from) \in Nat /\ Len(to) \in Nat /\ Len(p) \in Nat
        /\ Len(from) < Len(p)
    <2>1. Len(from) <= Len(p) /\ Len(from) # Len(p)
      BY PrefixPointwise, PrefixOrder
    <2> QED  BY <2>1 DEF Path
  <1>2. p # Root
    BY <1>1 DEF Root
  <1>3. IsPrefix(from, Parent(p))
    BY <1>2, ParentPrefix
  <1> DEFINE q == Remap(from, to, p)
             pp == Parent(p)
             s == Remap(from, to, pp)
  <1>4. /\ q \in Path
        /\ Len(q) = Len(to) + Len(p) - Len(from)
        /\ \A i \in 1 .. Len(to) : q[i] = to[i]
        /\ \A i \in Len(to) + 1 .. Len(to) + Len(p) - Len(from) :
             q[i] = p[i - Len(to) + Len(from)]
    BY RemapPointwise
  <1>5. /\ pp \in Path
        /\ Len(pp) = Len(p) - 1
        /\ \A i \in 1 .. Len(p) - 1 : pp[i] = p[i]
    BY <1>2, ParentType
  <1> HIDE DEF pp, q
  <1>6. /\ s \in Path
        /\ Len(s) = Len(to) + Len(pp) - Len(from)
        /\ \A i \in 1 .. Len(to) : s[i] = to[i]
        /\ \A i \in Len(to) + 1 .. Len(to) + Len(pp) - Len(from) :
             s[i] = pp[i - Len(to) + Len(from)]
    BY <1>3, <1>5, RemapPointwise DEF pp
  <1> HIDE DEF s
  <1>7. q # Root
    BY <1>1, <1>4 DEF Root
  <1>8. /\ Parent(q) \in Path
        /\ Len(Parent(q)) = Len(q) - 1
        /\ \A i \in 1 .. Len(q) - 1 : Parent(q)[i] = q[i]
    BY <1>4, <1>7, ParentType
  <1>9. ASSUME NEW i \in 1 .. Len(q) - 1 PROVE q[i] = s[i]
    <2>1. CASE i <= Len(to)
      BY <2>1, <1>1, <1>4, <1>6
    <2>2. CASE i > Len(to)
      <3> DEFINE j == i - Len(to) + Len(from)
      <3>1. /\ i \in Len(to) + 1 .. Len(to) + Len(p) - Len(from)
            /\ i \in Len(to) + 1 .. Len(to) + Len(pp) - Len(from)
            /\ j \in 1 .. Len(p) - 1
        BY <2>2, <1>1, <1>4, <1>5
      <3>2. q[i] = p[j] /\ s[i] = pp[j]
        BY <3>1, <1>4, <1>6
      <3> HIDE DEF j
      <3> QED  BY <3>1, <3>2, <1>5
    <2> QED  BY <2>1, <2>2, <1>1, <1>4
  <1>10. Parent(q) = s
    <2>1. Len(Parent(q)) = Len(s)
      BY <1>1, <1>4, <1>5, <1>6, <1>8
    <2> QED  BY <2>1, <1>6, <1>8, <1>9, PathEqual
  <1> QED  BY <1>2, <1>3, <1>7, <1>10 DEF q, s, pp

LEMMA RemapValid ==
    ASSUME NEW from \in Path, NEW to \in Path, NEW p \in Path, IsPrefix(from, p),
           IsValidPath(to), IsValidPath(p)
    PROVE  IsValidPath(Remap(from, to, p))
  <1> DEFINE q == Remap(from, to, p)
  <1>1. /\ q \in Path
        /\ Len(q) = Len(to) + Len(p) - Len(from)
        /\ \A i \in 1 .. Len(to) : q[i] = to[i]
        /\ \A i \in Len(to) + 1 .. Len(to) + Len(p) - Len(from) :
             q[i] = p[i - Len(to) + Len(from)]
    BY RemapPointwise
  <1>2. /\ Len(from) \in Nat /\ Len(to) \in Nat /\ Len(p) \in Nat
        /\ Len(from) <= Len(p) /\ Len(to) # 0
        /\ DOMAIN to = 1 .. Len(to) /\ DOMAIN p = 1 .. Len(p)
    BY PrefixPointwise DEF Path, IsValidPath, Root
  <1> HIDE DEF q
  <1>3. DOMAIN q = 1 .. Len(q)
    BY <1>1 DEF Path
  <1>4. ASSUME NEW i \in 1 .. Len(q) PROVE q[i] # 0
    <2>1. CASE i <= Len(to)
      BY <2>1, <1>1, <1>2 DEF IsValidPath
    <2>2. CASE i > Len(to)
      <3> DEFINE j == i - Len(to) + Len(from)
      <3>1. i \in Len(to) + 1 .. Len(to) + Len(p) - Len(from) /\ j \in 1 .. Len(p)
        BY <2>2, <1>1, <1>2
      <3>2. q[i] = p[j]
        BY <3>1, <1>1
      <3> HIDE DEF j
      <3> QED  BY <3>1, <3>2, <1>2 DEF IsValidPath
    <2> QED  BY <2>1, <2>2, <1>1, <1>2
  <1>5. q # Root
    BY <1>1, <1>2 DEF Root
  <1> QED  BY <1>3, <1>4, <1>5 DEF IsValidPath, q

-----------------------------------------------------------------------------
(* Editing *)

IsFcn(f) == f = [x \in DOMAIN f |-> f[x]]

\* A canonical tier is a record of sets and maps over paths.
Shape(t) ==
    /\ t = [paths |-> t.paths, children |-> t.children, expanded |-> t.expanded,
            load |-> t.load, own |-> t.own]
    /\ IsFcn(t.children) /\ IsFcn(t.load) /\ IsFcn(t.own)
    /\ t.paths \subseteq Path

\* What holds of the canonical tier between any two operations.
Sound(t) == Shape(t) /\ Forest(t) /\ NoOrphans(t)

LEMMA CollectedFields ==
    ASSUME NEW t, Shape(t), NEW asked, NEW u, u = Collected(t, asked)
    PROVE  LET new == Missing(t, asked)
               parents == {Parent(p) : p \in new}
           IN  /\ u.paths = t.paths \cup new
               /\ u.children = [p \in DOMAIN t.children \cup parents |->
                                  Children(t, p) \cup {c \in new : Parent(c) = p}]
               /\ u.expanded = t.expanded \cup new \cup
                                 {p \in parents \ {Root} : Children(t, p) = {}}
               /\ u.load = t.load
               /\ u.own = t.own
               /\ u = [paths |-> u.paths, children |-> u.children,
                       expanded |-> u.expanded, load |-> u.load, own |-> u.own]
  BY DEF Collected, Shape

LEMMA MissingFacts ==
    ASSUME NEW t, NEW asked, asked \subseteq Path
    PROVE  \A c \in Missing(t, asked) :
             /\ c \in Path /\ c # Root /\ IsValidPath(c) /\ c \notin t.paths
             /\ Lineage(c) \subseteq t.paths \cup Missing(t, asked)
             /\ Parent(c) \in t.paths \cup Missing(t, asked) \cup {Root}
  <1> SUFFICES ASSUME NEW c \in Missing(t, asked)
               PROVE  /\ c \in Path /\ c # Root /\ IsValidPath(c) /\ c \notin t.paths
                      /\ Lineage(c) \subseteq t.paths \cup Missing(t, asked)
                      /\ Parent(c) \in t.paths \cup Missing(t, asked) \cup {Root}
    OBVIOUS
  <1>1. PICK p \in asked : IsValidPath(p) /\ c \in Lineage(p)
    BY DEF Missing
  <1>2. Lineage(p) \subseteq t.paths \cup Missing(t, asked)
    BY <1>1 DEF Missing
  <1>3. /\ Lineage(c) \subseteq Lineage(p)
        /\ Parent(c) \in Lineage(p) \cup {Root}
        /\ c \in Path /\ c # Root /\ IsValidPath(c)
    BY <1>1, LineageFacts
  <1>4. c \notin t.paths
    BY DEF Missing
  <1> QED  BY <1>2, <1>3, <1>4

LEMMA CollectedSound ==
    ASSUME NEW t, Sound(t), NEW asked, asked \subseteq Path
    PROVE  Sound(Collected(t, asked))
  <1> DEFINE u == Collected(t, asked)
             new == Missing(t, asked)
             parents == {Parent(p) : p \in new}
  <1>1. /\ u.paths = t.paths \cup new
        /\ u.children = [p \in DOMAIN t.children \cup parents |->
                           Children(t, p) \cup {c \in new : Parent(c) = p}]
        /\ u.expanded = t.expanded \cup new \cup
                          {p \in parents \ {Root} : Children(t, p) = {}}
        /\ u.load = t.load
        /\ u.own = t.own
        /\ u = [paths |-> u.paths, children |-> u.children,
                expanded |-> u.expanded, load |-> u.load, own |-> u.own]
    BY CollectedFields DEF Sound
  <1>2. \A c \in new : /\ c \in Path /\ c # Root /\ IsValidPath(c) /\ c \notin t.paths
                       /\ Lineage(c) \subseteq t.paths \cup new
                       /\ Parent(c) \in t.paths \cup new \cup {Root}
    BY MissingFacts
  <1>3. /\ \A p \in t.paths : IsValidPath(p) /\ Lineage(p) \subseteq t.paths
        /\ DOMAIN t.children \subseteq t.paths \cup {Root}
        /\ \A p \in t.paths \cup {Root} :
             Children(t, p) = {c \in t.paths : Parent(c) = p}
        /\ t.expanded \cup DOMAIN t.load \cup DOMAIN t.own \subseteq t.paths
        /\ t.paths \subseteq Path
        /\ IsFcn(t.load) /\ IsFcn(t.own)
    BY DEF Sound, Forest, NoOrphans, Shape
  <1> HIDE DEF u, new
  <1>4. parents \subseteq t.paths \cup new \cup {Root}
    BY <1>2
  <1>5. Shape(u)
    <2>1. IsFcn(u.children)
      BY <1>1 DEF IsFcn
    <2>2. u.paths \subseteq Path
      BY <1>1, <1>2, <1>3
    <2> QED  BY <1>1, <1>3, <2>1, <2>2 DEF Shape
  <1>6. \A p \in u.paths : IsValidPath(p) /\ Lineage(p) \subseteq u.paths
    BY <1>1, <1>2, <1>3
  <1>7. DOMAIN u.children \subseteq u.paths \cup {Root}
    BY <1>1, <1>3, <1>4
  <1>8. ASSUME NEW p \in u.paths \cup {Root}
        PROVE  Children(u, p) = {c \in u.paths : Parent(c) = p}
    <2>1. Children(t, p) = {c \in t.paths : Parent(c) = p}
      <3>1. CASE p \in t.paths \cup {Root}
        BY <3>1, <1>3
      <3>2. CASE p \in new /\ p # Root
        <4>1. Children(t, p) = {}
          BY <3>2, <1>2, <1>3 DEF Children
        <4>2. ASSUME NEW c \in t.paths, Parent(c) = p PROVE FALSE
          <5>1. c \in Path /\ IsValidPath(c) /\ c # Root
            BY <1>3 DEF IsValidPath
          <5>2. p \in Lineage(c)
            BY <3>2, <4>2, <5>1, LineageFacts
          <5> QED  BY <5>2, <3>2, <1>2, <1>3
        <4> QED  BY <4>1, <4>2
      <3> QED  BY <3>1, <3>2, <1>1
    <2>2. CASE p \in DOMAIN t.children \cup parents
      <3>1. Children(u, p) = Children(t, p) \cup {c \in new : Parent(c) = p}
        BY <2>2, <1>1 DEF Children
      <3> QED  BY <3>1, <2>1, <1>1
    <2>3. CASE p \notin DOMAIN t.children \cup parents
      <3>1. Children(u, p) = {} /\ Children(t, p) = {}
        BY <2>3, <1>1 DEF Children
      <3>2. {c \in new : Parent(c) = p} = {}
        BY <2>3
      <3> QED  BY <3>1, <3>2, <2>1, <1>1
    <2> QED  BY <2>2, <2>3
  <1>9. u.expanded \cup DOMAIN u.load \cup DOMAIN u.own \subseteq u.paths
    BY <1>1, <1>3, <1>4
  <1> QED  BY <1>5, <1>6, <1>7, <1>8, <1>9 DEF Sound, Forest, NoOrphans, u

\* In a sound tree the walk over the children map finds all paths below.
LEMMA SubtreeIsPrefix ==
    ASSUME NEW t, Sound(t), NEW p \in t.paths
    PROVE  Subtree(t, p) = {q \in t.paths : IsPrefix(p, q)}
  <1> SUFFICES ASSUME NEW q \in t.paths, IsPrefix(p, q),
                      NEW k \in Len(p) + 1 .. Len(q)
               PROVE  SubSeq(q, 1, k) \in Children(t, SubSeq(q, 1, k - 1))
    BY DEF Subtree
  <1>1. /\ \A r \in t.paths : IsValidPath(r) /\ Lineage(r) \subseteq t.paths
        /\ \A r \in t.paths \cup {Root} :
             Children(t, r) = {c \in t.paths : Parent(c) = r}
        /\ t.paths \subseteq Path
    BY DEF Sound, Forest, Shape
  <1>2. q \in Path /\ p \in Path /\ p # Root
    BY <1>1 DEF IsValidPath
  <1>3. Len(p) \in Nat \ {0} /\ Len(q) \in Nat
    BY <1>2 DEF Path, Root
  <1>4. k - 1 \in 1 .. Len(q) /\ k \in 1 .. Len(q)
    BY <1>3
  <1>5. SubSeq(q, 1, k) \in t.paths /\ SubSeq(q, 1, k - 1) \in t.paths
    BY <1>1, <1>4 DEF Lineage
  <1>6. Parent(SubSeq(q, 1, k)) = SubSeq(q, 1, k - 1)
    <2> DEFINE s == SubSeq(q, 1, k)
               r == SubSeq(q, 1, k - 1)
    <2>1. s \in Path /\ Len(s) = k /\ \A i \in 1 .. k : s[i] = q[i]
      BY <1>2, <1>4 DEF Path
    <2>2. r \in Path /\ Len(r) = k - 1 /\ \A i \in 1 .. k - 1 : r[i] = q[i]
      BY <1>2, <1>4 DEF Path
    <2> HIDE DEF s, r
    <2>3. s # Root
      BY <2>1, <1>4 DEF Root
    <2>4. /\ Parent(s) \in Path /\ Len(Parent(s)) = Len(s) - 1
          /\ \A i \in 1 .. Len(s) - 1 : Parent(s)[i] = s[i]
      BY <2>1, <2>3, ParentType
    <2>5. Parent(s) = r
      BY <1>4, <2>1, <2>2, <2>4, PathEqual
    <2> QED  BY <2>5 DEF s, r
  <1> QED  BY <1>1, <1>5, <1>6

LEMMA RemovedFields ==
    ASSUME NEW t, Shape(t), NEW asked, NEW u, u = Removed(t, asked)
    PROVE  LET gone == Doomed(t, asked)
           IN  /\ u.paths = t.paths \ gone
               /\ u.children = [p \in DOMAIN t.children \ gone |-> t.children[p] \ gone]
               /\ u.expanded = t.expanded \ gone
               /\ u.load = [p \in DOMAIN t.load \ gone |-> t.load[p]]
               /\ u.own = [p \in DOMAIN t.own \ gone |-> t.own[p]]
               /\ u = [paths |-> u.paths, children |-> u.children,
                       expanded |-> u.expanded, load |-> u.load, own |-> u.own]
  BY DEF Removed, Shape

LEMMA RemovedSound ==
    ASSUME NEW t, Sound(t), NEW asked
    PROVE  Sound(Removed(t, asked))
  <1> DEFINE u == Removed(t, asked)
             gone == Doomed(t, asked)
  <1>1. /\ u.paths = t.paths \ gone
        /\ u.children = [p \in DOMAIN t.children \ gone |-> t.children[p] \ gone]
        /\ u.expanded = t.expanded \ gone
        /\ u.load = [p \in DOMAIN t.load \ gone |-> t.load[p]]
        /\ u.own = [p \in DOMAIN t.own \ gone |-> t.own[p]]
        /\ u = [paths |-> u.paths, children |-> u.children,
                expanded |-> u.expanded, load |-> u.load, own |-> u.own]
    BY RemovedFields DEF Sound
  <1>2. /\ \A p \in t.paths : IsValidPath(p) /\ Lineage(p) \subseteq t.paths
        /\ DOMAIN t.children \subseteq t.paths \cup {Root}
        /\ \A p \in t.paths \cup {Root} :
             Children(t, p) = {c \in t.paths : Parent(c) = p}
        /\ t.expanded \cup DOMAIN t.load \cup DOMAIN t.own \subseteq t.paths
        /\ t.paths \subseteq Path
    BY DEF Sound, Forest, NoOrphans, Shape
  <1>3. \A p \in t.paths : p # Root /\ p \in Path
    BY <1>2 DEF IsValidPath
  <1>4. ASSUME NEW q \in t.paths \ gone PROVE Lineage(q) \cap gone = {}
    <2> SUFFICES ASSUME NEW r \in Lineage(q), r \in gone PROVE FALSE
      OBVIOUS
    <2>1. PICK p \in asked : r \in Subtree(t, p)
      BY DEF Doomed
    <2>2. p \in t.paths /\ r \in t.paths /\ IsPrefix(p, r)
      BY <2>1 DEF Subtree
    <2>3. IsPrefix(r, q)
      BY <1>3, LineagePrefix
    <2>4. q \in Subtree(t, p)
      BY <1>3, <2>2, <2>3, PrefixOrder, SubtreeIsPrefix
    <2> QED  BY <2>4 DEF Doomed
  <1> HIDE DEF u, gone
  <1>5. Shape(u)
    BY <1>1, <1>2 DEF Shape, IsFcn
  <1>6. \A p \in u.paths : IsValidPath(p) /\ Lineage(p) \subseteq u.paths
    BY <1>1, <1>2, <1>4
  <1>7. DOMAIN u.children \subseteq u.paths \cup {Root}
    BY <1>1, <1>2
  <1>8. ASSUME NEW p \in u.paths \cup {Root}
        PROVE  Children(u, p) = {c \in u.paths : Parent(c) = p}
    <2>1. Children(t, p) = {c \in t.paths : Parent(c) = p}
      BY <1>1, <1>2
    <2>2. Children(u, p) = Children(t, p) \ gone
      <3>1. CASE p \in gone
        <4>1. p = Root /\ Root \notin t.paths
          BY <3>1, <1>1, <1>3
        <4>2. p \notin gone
          BY <4>1 DEF gone, Doomed, Subtree
        <4> QED  BY <3>1, <4>2
      <3>2. CASE p \notin gone
        BY <3>2, <1>1 DEF Children
      <3> QED  BY <3>1, <3>2
    <2> QED  BY <2>1, <2>2, <1>1
  <1>9. u.expanded \cup DOMAIN u.load \cup DOMAIN u.own \subseteq u.paths
    BY <1>1, <1>2
  <1> QED  BY <1>5, <1>6, <1>7, <1>8, <1>9 DEF Sound, Forest, NoOrphans, u

\* The target of a move is nobody's ancestor, so the image of the subtree is
\* disjoint from the paths there were.
LEMMA RekeyedSound ==
    ASSUME NEW t, Sound(t), NEW from \in t.paths, NEW to \in Path, IsValidPath(to),
           ~IsPrefix(from, to), to \notin t.paths,
           Parent(to) \in t.paths \cup {Root}
    PROVE  Sound(Rekeyed(t, from, to))
  <1> DEFINE subtree == Subtree(t, from)
             new(p) == Remap(from, to, p)
             old(q) == Remap(to, from, q)
             moved(D) == {new(p) : p \in D \cap subtree}
             keys(D) == (D \ subtree) \cup moved(D)
             carried(f) == [q \in keys(DOMAIN f) |->
                              IF q \in moved(DOMAIN f) THEN f[old(q)] ELSE f[q]]
             children == [q \in keys(DOMAIN t.children) |->
                            IF q \in moved(DOMAIN t.children)
                            THEN {new(c) : c \in t.children[old(q)]}
                            ELSE t.children[q] \ {from}]
             siblings == IF Parent(to) \in DOMAIN children
                         THEN children[Parent(to)] ELSE {}
             u == Rekeyed(t, from, to)
  <1>1. /\ u.paths = keys(t.paths)
        /\ u.children = [q \in DOMAIN children \cup {Parent(to)} |->
                           IF q = Parent(to) THEN siblings \cup {to} ELSE children[q]]
        /\ u.expanded = keys(t.expanded)
                          \cup (IF siblings = {} THEN {Parent(to)} \ {Root} ELSE {})
        /\ u.load = carried(t.load)
        /\ u.own = carried(t.own)
        /\ u = [paths |-> u.paths, children |-> u.children,
                expanded |-> u.expanded, load |-> u.load, own |-> u.own]
    BY DEF Rekeyed
  <1>2. /\ \A p \in t.paths : IsValidPath(p) /\ Lineage(p) \subseteq t.paths
        /\ DOMAIN t.children \subseteq t.paths \cup {Root}
        /\ \A p \in t.paths \cup {Root} :
             Children(t, p) = {c \in t.paths : Parent(c) = p}
        /\ t.expanded \cup DOMAIN t.load \cup DOMAIN t.own \subseteq t.paths
        /\ t.paths \subseteq Path
    BY DEF Sound, Forest, NoOrphans, Shape
  <1>3. /\ from \in Path /\ to # Root
        /\ Root \notin t.paths
        /\ \A p \in t.paths : p # Root /\ p \in Path
    BY <1>2 DEF IsValidPath
  <1>4. subtree = {q \in t.paths : IsPrefix(from, q)}
    BY SubtreeIsPrefix
  <1>5. \A p \in subtree : /\ new(p) \in Path
                           /\ IsPrefix(to, new(p))
                           /\ old(new(p)) = p
                           /\ new(p) = to => p = from
    BY <1>3, <1>4, RemapFacts
  <1>6. from \in subtree /\ new(from) = to
    BY <1>3, <1>4, PrefixOrder, RemapFacts
  <1>7. \A p \in t.paths : ~IsPrefix(to, p)
    BY <1>2, <1>3, LineagePrefix
  <1>8. \A p \in subtree : new(p) \notin t.paths /\ new(p) # Root
    <2>1. ~IsPrefix(to, Root)
      BY <1>3, RootPrefix
    <2> QED  BY <2>1, <1>5, <1>7
  <1>9. \A p \in subtree \ {from} : /\ Parent(p) \in subtree
                                    /\ Parent(new(p)) = new(Parent(p))
    <2> SUFFICES ASSUME NEW p \in subtree \ {from}
                 PROVE  Parent(p) \in subtree /\ Parent(new(p)) = new(Parent(p))
      OBVIOUS
    <2>1. /\ p \in Path /\ p # Root /\ IsPrefix(from, p) /\ p \in t.paths
          /\ IsPrefix(from, Parent(p))
          /\ Parent(new(p)) = new(Parent(p))
      BY <1>3, <1>4, RemapParent
    <2>2. Parent(p) \in Lineage(p) \cup {Root}
      BY <2>1, LineageFacts
    <2>3. Parent(p) # Root
      BY <2>1, <1>3, RootPrefix
    <2> QED  BY <2>1, <2>2, <2>3, <1>2, <1>4
  <1>10. \A p \in t.paths \ subtree : \A c \in Lineage(p) : c \in t.paths \ subtree
    BY <1>2, <1>3, <1>4, LineagePrefix, PrefixOrder
  <1>11. \A p \in t.paths, c \in t.paths : p \in subtree /\ Parent(c) = p
                                             => c \in subtree /\ c # from
    <2> SUFFICES ASSUME NEW p \in subtree, NEW c \in t.paths, Parent(c) = p
                 PROVE  c \in subtree /\ c # from
      BY <1>4
    <2>1. IsPrefix(from, p) /\ p \in Path /\ c \in Path /\ c # Root
      BY <1>3, <1>4
    <2>2. IsPrefix(p, c) /\ ~IsPrefix(c, p)
      BY <2>1, ParentPrefix
    <2> QED  BY <2>1, <2>2, <1>3, <1>4, PrefixOrder
  <1>12. Parent(to) \notin subtree /\ Parent(to) \notin moved(t.paths)
    <2>1. Parent(to) \notin subtree
      BY <1>3, <1>4, ParentType, ParentPrefix, PrefixOrder
    <2> QED  BY <2>1, <1>8
  <1> HIDE DEF subtree, u
  <1>13. Shape(u)
    <2>1. u.paths \subseteq Path
      BY <1>1, <1>2, <1>5
    <2> QED  BY <1>1, <2>1 DEF Shape, IsFcn
  <1>14. ASSUME NEW q \in u.paths
         PROVE  IsValidPath(q) /\ Lineage(q) \subseteq u.paths
    <2>1. CASE q \in t.paths \ subtree
      BY <2>1, <1>1, <1>2, <1>10
    <2>2. CASE q \in moved(t.paths)
      <3>1. PICK p \in subtree : q = new(p)
        BY <2>2
      <3>2. p \in t.paths /\ p \in Path /\ IsPrefix(from, p) /\ IsValidPath(p)
        BY <1>2, <1>3, <1>4
      <3>3. IsValidPath(q)
        BY <3>1, <3>2, <1>3, RemapValid
      <3>4. ASSUME NEW c \in Lineage(q) PROVE c \in u.paths
        <4>1. c \in Path /\ c # Root /\ IsPrefix(c, q) /\ q \in Path /\ IsPrefix(to, q)
          BY <3>1, <1>5, LineagePrefix
        <4>2. CASE ~IsPrefix(to, c)
          <5>1. Len(c) <= Len(to)
            BY <4>1, <4>2, PrefixOrder DEF Path
          <5>2. IsPrefix(c, to) /\ c # to
            BY <4>1, <4>2, <5>1, PrefixOrder
          <5>3. IsPrefix(c, Parent(to)) /\ Parent(to) \in Path
            BY <4>1, <5>2, <1>3, ParentPrefix, ParentType
          <5>4. c \in Lineage(Parent(to))
            BY <4>1, <5>3, LineagePrefix
          <5>5. Parent(to) # Root
            BY <4>1, <5>3, RootPrefix
          <5> QED  BY <5>4, <5>5, <1>1, <1>10, <1>12
        <4>3. CASE IsPrefix(to, c)
          <5> DEFINE b == Remap(to, from, c)
          <5>1. b \in Path /\ IsPrefix(from, b) /\ new(b) = c
            BY <4>1, <4>3, <1>3, RemapFacts
          <5>2. IsPrefix(b, p)
            BY <3>1, <3>2, <4>1, <4>3, <1>3, RemapPrefix, RemapFacts
          <5>3. b # Root
            BY <5>1, <1>3, RootPrefix
          <5>4. b \in t.paths
            BY <3>2, <5>1, <5>2, <5>3, <1>2, LineagePrefix
          <5> HIDE DEF b
          <5>5. b \in subtree
            BY <5>1, <5>4, <1>4
          <5> QED  BY <5>1, <5>4, <5>5, <1>1
        <4> QED  BY <4>2, <4>3
      <3> QED  BY <3>3, <3>4
    <2> QED  BY <2>1, <2>2, <1>1
  <1>15. DOMAIN u.children \subseteq u.paths \cup {Root}
    <2>1. DOMAIN children \subseteq u.paths \cup {Root}
      BY <1>1, <1>2, <1>4
    <2>2. Parent(to) \in u.paths \cup {Root}
      BY <1>1, <1>12
    <2> QED  BY <2>1, <2>2, <1>1
  <1>16. ASSUME NEW q \in u.paths \cup {Root}
         PROVE  Children(u, q) = {c \in u.paths : Parent(c) = q}
    <2>1. CASE q \in moved(t.paths)
      <3>1. PICK p \in subtree : q = new(p) /\ p \in t.paths
        BY <2>1
      <3>2. Children(t, p) = {c \in t.paths : Parent(c) = p}
        BY <3>1, <1>2
      <3>3. old(q) = p /\ q # Parent(to) /\ q \notin t.paths \cup {Root}
        BY <2>1, <3>1, <1>5, <1>8, <1>12
      <3>4. Children(u, q) = {new(c) : c \in Children(t, p)}
        <4>1. CASE p \in DOMAIN t.children
          <5>1. q \in moved(DOMAIN t.children) /\ q \in DOMAIN children
            BY <4>1, <3>1
          <5>2. children[q] = {new(c) : c \in t.children[p]}
            BY <5>1, <3>3
          <5> QED  BY <4>1, <5>1, <5>2, <3>3, <1>1 DEF Children
        <4>2. CASE p \notin DOMAIN t.children
          <5>1. q \notin moved(DOMAIN t.children)
            BY <4>2, <3>1, <3>3, <1>5
          <5>2. q \notin DOMAIN children
            BY <5>1, <3>3, <1>2
          <5> QED  BY <4>2, <5>2, <3>3, <1>1 DEF Children
        <4> QED  BY <4>1, <4>2
      <3>5. ASSUME NEW c \in u.paths, Parent(c) = q
            PROVE  c \in {new(b) : b \in Children(t, p)}
        <4>1. c \notin t.paths
          BY <3>3, <3>5, <1>2, <1>3, LineageFacts
        <4>2. PICK b \in subtree : c = new(b) /\ b \in t.paths
          BY <4>1, <1>1
        <4>3. b # from
          BY <4>2, <3>3, <3>5, <1>6
        <4>4. new(Parent(b)) = new(p) /\ Parent(b) \in subtree
          BY <4>2, <4>3, <3>1, <3>5, <1>9
        <4>5. Parent(b) = p
          BY <4>4, <1>5
        <4> QED  BY <4>2, <4>5, <3>2
      <3>6. ASSUME NEW b \in Children(t, p)
            PROVE  new(b) \in u.paths /\ Parent(new(b)) = q
        <4>1. b \in t.paths /\ Parent(b) = p
          BY <3>2
        <4>2. b \in subtree /\ b # from
          BY <4>1, <3>1, <1>11
        <4> QED  BY <4>1, <4>2, <3>1, <1>1, <1>9
      <3> QED  BY <3>4, <3>5, <3>6
    <2>2. CASE q \notin moved(t.paths)
      <3>1. q \in (t.paths \ subtree) \cup {Root}
        BY <2>2, <1>1
      <3>2. Children(t, q) = {c \in t.paths : Parent(c) = q}
        BY <3>1, <1>2
      <3>3. q \notin moved(DOMAIN t.children) /\ q \notin subtree
        BY <2>2, <3>1, <1>2, <1>3, <1>4
      <3>4. Children(u, q) =
              (Children(t, q) \ {from}) \cup (IF q = Parent(to) THEN {to} ELSE {})
        <4>1. q \in DOMAIN children <=> q \in DOMAIN t.children
          BY <3>3
        <4>2. q \in DOMAIN children => children[q] = t.children[q] \ {from}
          BY <3>3
        <4> HIDE DEF children
        <4>3. CASE q = Parent(to)
          BY <4>1, <4>2, <4>3, <1>1 DEF Children
        <4>4. CASE q # Parent(to)
          BY <4>1, <4>2, <4>4, <1>1 DEF Children
        <4> QED  BY <4>3, <4>4
      <3>5. ASSUME NEW c \in u.paths, Parent(c) = q
            PROVE  c \in (Children(t, q) \ {from})
                           \cup (IF q = Parent(to) THEN {to} ELSE {})
        <4>1. CASE c \in t.paths \ subtree
          BY <4>1, <3>2, <3>5, <1>6
        <4>2. CASE c \in moved(t.paths)
          <5>1. PICK b \in subtree : c = new(b) /\ b \in t.paths
            BY <4>2
          <5>2. CASE b = from
            BY <5>1, <5>2, <3>5, <1>6
          <5>3. CASE b # from
            <6>1. Parent(c) = new(Parent(b)) /\ Parent(b) \in subtree
              BY <5>1, <5>3, <1>9
            <6>2. Parent(b) \in t.paths
              BY <6>1, <1>4
            <6> QED  BY <6>1, <6>2, <2>2, <3>5
          <5> QED  BY <5>2, <5>3
        <4> QED  BY <4>1, <4>2, <1>1
      <3>6. ASSUME NEW c \in Children(t, q) \ {from}
            PROVE  c \in u.paths /\ Parent(c) = q
        <4>1. c \in t.paths /\ Parent(c) = q
          BY <3>2
        <4>2. c \notin subtree
          BY <4>1, <3>3, <1>9
        <4> QED  BY <4>1, <4>2, <1>1
      <3>7. to \in u.paths
        BY <1>1, <1>6
      <3> QED  BY <3>4, <3>5, <3>6, <3>7
    <2> QED  BY <2>1, <2>2
  <1>17. u.expanded \cup DOMAIN u.load \cup DOMAIN u.own \subseteq u.paths
    <2>1. u.expanded \subseteq u.paths
      <3>1. keys(t.expanded) \subseteq u.paths
        BY <1>1, <1>2
      <3>2. {Parent(to)} \ {Root} \subseteq u.paths
        BY <1>1, <1>12
      <3> HIDE DEF keys, siblings
      <3> QED  BY <3>1, <3>2, <1>1
    <2>2. DOMAIN u.load \subseteq u.paths
      BY <1>1, <1>2
    <2>3. DOMAIN u.own \subseteq u.paths
      BY <1>1, <1>2
    <2> QED  BY <2>1, <2>2, <2>3
  <1> QED  BY <1>13, <1>14, <1>15, <1>16, <1>17 DEF Sound, Forest, NoOrphans, u

LEMMA MovedSound ==
    ASSUME NEW t, Sound(t), NEW from, NEW to \in Path, MoveAllowed(t, from, to)
    PROVE  Sound(Moved(t, from, to))
  <1> DEFINE v == WithAncestors(t, to)
  <1>1. /\ to # Root /\ Len(to) \in Nat \ {0} /\ Parent(to) \in Path
        /\ Len(Parent(to)) = Len(to) - 1
        /\ from \in t.paths /\ ~IsPrefix(from, to) /\ to \notin t.paths
        /\ IsValidPath(to)
    BY ParentType DEF MoveAllowed, IsValidPath
  <1>2. CASE Len(to) = 1
    <2>1. v = t
      BY <1>2 DEF WithAncestors
    <2>2. Parent(to) = Root
      <3>1. Root \in Path /\ Len(Root) = 0
        BY DEF Root, Path
      <3> QED  BY <1>1, <1>2, <3>1, PathEqual
    <2> QED  BY <1>1, <2>1, <2>2, RekeyedSound DEF Moved
  <1>3. CASE Len(to) # 1
    <2> DEFINE above == Parent(to)
    <2>1. v = Collected(t, {above})
      BY <1>3 DEF WithAncestors
    <2>2. Sound(v)
      BY <1>1, <2>1, CollectedSound
    <2> HIDE DEF v
    <2>3. v.paths = t.paths \cup Missing(t, {above})
      <3>1. Shape(t)
        BY DEF Sound
      <3> QED  BY <2>1, <3>1 DEF Collected, Shape
    <2>4. above # Root
      BY <1>1, <1>3 DEF Root
    <2>5. above \in Lineage(to)
      BY <1>1, <2>4, ParentPrefix, LineagePrefix
    <2>6. IsValidPath(above)
      BY <1>1, <2>5, LineageFacts
    <2>7. above \in v.paths
      BY <1>1, <2>3, <2>4, <2>6, LineageFacts DEF Missing
    <2>8. to \notin Missing(t, {above})
      <3>1. Missing(t, {above}) \subseteq Lineage(above)
        BY DEF Missing
      <3>2. to \notin Lineage(above)
        BY <1>1, LineagePrefix, ParentPrefix
      <3> QED  BY <3>1, <3>2
    <2> QED  BY <1>1, <2>2, <2>3, <2>7, <2>8, RekeyedSound DEF Moved, v
  <1> QED  BY <1>2, <1>3

-----------------------------------------------------------------------------
(* What is created and what is renamed *)

\* Building a tree in chunks is building it at once: what a second collection
\* adds, expands and lists is what one collection of both would have.
THEOREM CollectedInChunks ==
    ASSUME NEW t, Shape(t), NEW first, NEW second
    PROVE  Collected(Collected(t, first), second) = Collected(t, first \cup second)
  <1> DEFINE u == Collected(t, first)
             v == Collected(u, second)
             w == Collected(t, first \cup second)
             new == Missing(t, first)
             more == Missing(u, second)
             all == Missing(t, first \cup second)
             above(created) == {Parent(p) : p \in created}
             below(created, p) == {c \in created : Parent(c) = p}
  <1>1. /\ u.paths = t.paths \cup new
        /\ u.children = [p \in DOMAIN t.children \cup above(new) |->
                           Children(t, p) \cup below(new, p)]
        /\ u.expanded = t.expanded \cup new \cup
                          {p \in above(new) \ {Root} : Children(t, p) = {}}
        /\ u.load = t.load /\ u.own = t.own
        /\ u = [paths |-> u.paths, children |-> u.children,
                expanded |-> u.expanded, load |-> u.load, own |-> u.own]
    BY CollectedFields
  <1>2. /\ w.paths = t.paths \cup all
        /\ w.children = [p \in DOMAIN t.children \cup above(all) |->
                           Children(t, p) \cup below(all, p)]
        /\ w.expanded = t.expanded \cup all \cup
                          {p \in above(all) \ {Root} : Children(t, p) = {}}
        /\ w.load = t.load /\ w.own = t.own
        /\ w = [paths |-> w.paths, children |-> w.children,
                expanded |-> w.expanded, load |-> w.load, own |-> w.own]
    <2> DEFINE asked == first \cup second
    <2>1. w = Collected(t, asked) /\ all = Missing(t, asked)
      OBVIOUS
    <2> HIDE DEF asked, w, all
    <2> QED  BY <2>1 DEF Collected, Shape
  <1>3. all = new \cup more /\ new \cap more = {}
    BY <1>1 DEF Missing
  <1>4. v = [u EXCEPT
               !.paths = @ \cup more,
               !.children = [p \in DOMAIN u.children \cup above(more) |->
                               Children(u, p) \cup below(more, p)],
               !.expanded = @ \cup more \cup
                              {p \in above(more) \ {Root} : Children(u, p) = {}}]
    BY DEF Collected
  <1> HIDE DEF u, v, w, new, more, all
  <1>5. /\ v.paths = u.paths \cup more
        /\ v.children = [p \in DOMAIN u.children \cup above(more) |->
                           Children(u, p) \cup below(more, p)]
        /\ v.expanded = u.expanded \cup more \cup
                          {p \in above(more) \ {Root} : Children(u, p) = {}}
        /\ v.load = u.load /\ v.own = u.own
        /\ v = [paths |-> v.paths, children |-> v.children,
                expanded |-> v.expanded, load |-> v.load, own |-> v.own]
    BY <1>1, <1>4
  <1>6. above(all) = above(new) \cup above(more)
    BY <1>3
  <1>7. \A p : below(all, p) = below(new, p) \cup below(more, p)
    BY <1>3
  <1>8. \A p : Children(u, p) = Children(t, p) \cup below(new, p)
    <2> TAKE p
    <2>1. CASE p \in DOMAIN t.children \cup above(new)
      BY <1>1, <2>1 DEF Children
    <2>2. CASE p \notin DOMAIN t.children \cup above(new)
      BY <1>1, <2>2 DEF Children
    <2> QED  BY <2>1, <2>2
  <1>9. \A p : p \in above(new) <=> below(new, p) # {}
    OBVIOUS
  <1>10. v.paths = w.paths
    BY <1>1, <1>2, <1>3, <1>5
  <1>11. v.children = w.children
    <2> DEFINE D == DOMAIN t.children \cup above(all)
    <2>1. DOMAIN u.children \cup above(more) = D
      BY <1>1, <1>6
    <2>2. \A p : Children(u, p) \cup below(more, p) = Children(t, p) \cup below(all, p)
      BY <1>7, <1>8
    <2> QED  BY <1>2, <1>5, <2>1, <2>2
  <1>12. v.expanded = w.expanded
    <2> DEFINE leaves == {p \in above(new) \ {Root} : Children(t, p) = {}}
               others == {p \in above(more) \ {Root} : Children(u, p) = {}}
               both == {p \in above(all) \ {Root} : Children(t, p) = {}}
    <2>1. ASSUME NEW p \in both PROVE p \in leaves \cup others
      <3>1. CASE p \in above(new)
        BY <3>1
      <3>2. CASE p \notin above(new)
        BY <1>6, <1>8, <1>9, <3>2
      <3> QED  BY <3>1, <3>2
    <2>2. leaves \cup others \subseteq both
      BY <1>6, <1>8
    <2>3. leaves \cup others = both
      BY <2>1, <2>2
    <2>4. /\ u.expanded = t.expanded \cup new \cup leaves
          /\ v.expanded = u.expanded \cup more \cup others
          /\ w.expanded = t.expanded \cup all \cup both
      BY <1>1, <1>2, <1>5
    <2> HIDE DEF leaves, others, both
    <2> QED  BY <1>3, <2>3, <2>4
  <1>13. v = w
    BY <1>1, <1>2, <1>5, <1>10, <1>11, <1>12
  <1> QED  BY <1>13 DEF u, v, w

\* What a move needs first are the ancestors of its target, none of them in what
\* it moves, which stays as it was.
LEMMA BeforeMove ==
    ASSUME NEW t, Sound(t), NEW from, NEW to \in Path, MoveAllowed(t, from, to)
    PROVE  LET v == WithAncestors(t, to)
           IN  /\ Sound(v) /\ v.own = t.own /\ t.paths \subseteq v.paths
               /\ to \notin v.paths
               /\ from \in t.paths /\ from \in Path
               /\ Subtree(t, from) = {q \in t.paths : IsPrefix(from, q)}
               /\ Subtree(v, from) = Subtree(t, from)
  <1> DEFINE v == WithAncestors(t, to)
             above == Parent(to)
  <1>1. /\ to # Root /\ Len(to) \in Nat \ {0} /\ above \in Path
        /\ from \in t.paths /\ from \in Path /\ ~IsPrefix(from, to) /\ to \notin t.paths
    BY ParentType DEF MoveAllowed, IsValidPath, Sound, Shape
  <1>2. /\ Sound(v) /\ v.own = t.own
        /\ t.paths \subseteq v.paths /\ v.paths \ t.paths \subseteq Lineage(above)
    <2>1. CASE Len(to) = 1
      BY <2>1 DEF WithAncestors
    <2>2. CASE Len(to) # 1
      <3>1. v = Collected(t, {above})
        BY <2>2 DEF WithAncestors
      <3>2. Sound(v)
        BY <1>1, <3>1, CollectedSound
      <3>3. v.paths = t.paths \cup Missing(t, {above}) /\ v.own = t.own
        <4>1. Shape(t)
          BY DEF Sound
        <4> HIDE DEF v, above
        <4> QED  BY <4>1, <3>1 DEF Collected, Shape
      <3>4. Missing(t, {above}) \subseteq Lineage(above)
        BY DEF Missing
      <3> HIDE DEF v
      <3> QED  BY <3>2, <3>3, <3>4
    <2> QED  BY <2>1, <2>2
  <1>3. ASSUME NEW p \in Lineage(above) PROVE ~IsPrefix(from, p) /\ p # to
    <2>1. p \in Path /\ IsPrefix(p, above)
      BY <1>1, LineagePrefix
    <2>2. IsPrefix(above, to) /\ ~IsPrefix(to, above)
      BY <1>1, ParentPrefix
    <2> QED  BY <1>1, <2>1, <2>2, PrefixOrder
  <1>4. Subtree(t, from) = {q \in t.paths : IsPrefix(from, q)}
    BY <1>1, SubtreeIsPrefix
  <1>5. Subtree(v, from) = {q \in v.paths : IsPrefix(from, q)}
    BY <1>1, <1>2, SubtreeIsPrefix
  <1> HIDE DEF v
  <1> QED  BY <1>1, <1>2, <1>3, <1>4, <1>5 DEF v

\* A move renames the subtree of its source and no other path.
LEMMA MovedPaths ==
    ASSUME NEW t, Sound(t), NEW from, NEW to \in Path, MoveAllowed(t, from, to)
    PROVE  LET created == WithAncestors(t, to).paths \ t.paths
               subtree == Subtree(t, from)
           IN  /\ subtree \subseteq t.paths
               /\ Moved(t, from, to).paths
                    = ((t.paths \cup created) \ subtree)
                        \cup {Remap(from, to, p) : p \in subtree}
  <1> DEFINE v == WithAncestors(t, to)
             subtree == Subtree(t, from)
  <1>1. /\ t.paths \subseteq v.paths /\ Subtree(v, from) = subtree
        /\ subtree \subseteq t.paths
    BY BeforeMove
  <1>2. Moved(t, from, to).paths
          = (v.paths \ Subtree(v, from))
              \cup {Remap(from, to, p) : p \in v.paths \cap Subtree(v, from)}
    BY DEF Moved, Rekeyed
  <1> HIDE DEF v, subtree
  <1>3. v.paths \cap Subtree(v, from) = subtree
    BY <1>1
  <1>4. (v.paths \ Subtree(v, from)) = (t.paths \cup (v.paths \ t.paths)) \ subtree
    BY <1>1
  <1> QED  BY <1>1, <1>2, <1>3, <1>4 DEF v, subtree

\* What an account is called after a move.
NameAfter(t, from, to, p) ==
    IF p \in Subtree(t, from) THEN Remap(from, to, p) ELSE p

\* A move re-keys what is held for an account, merges no two of them, and puts
\* below its target what was below its source, and no more.
LEMMA MovedOwn ==
    ASSUME NEW t, Sound(t), NEW from, NEW to \in Path, MoveAllowed(t, from, to)
    PROVE  LET u == Moved(t, from, to)
               name(p) == NameAfter(t, from, to, p)
           IN  /\ DOMAIN u.own = {name(p) : p \in DOMAIN t.own}
               /\ \A p \in DOMAIN t.own : u.own[name(p)] = t.own[p]
               /\ \A p, q \in DOMAIN t.own : name(p) = name(q) => p = q
               /\ \A p \in DOMAIN t.own : IsPrefix(to, name(p)) <=> IsPrefix(from, p)
  <1> DEFINE v == WithAncestors(t, to)
             u == Moved(t, from, to)
             D == DOMAIN t.own
             subtree == Subtree(t, from)
             new(p) == Remap(from, to, p)
             old(q) == Remap(to, from, q)
             name(p) == NameAfter(t, from, to, p)
             moved == {new(p) : p \in D \cap subtree}
             keys == (D \ subtree) \cup moved
  <1>1. /\ Sound(v) /\ v.own = t.own /\ t.paths \subseteq v.paths /\ to \notin v.paths
        /\ from \in Path
        /\ subtree = {q \in t.paths : IsPrefix(from, q)}
        /\ Subtree(v, from) = subtree
    BY BeforeMove
  <1>2. D \subseteq t.paths /\ t.paths \subseteq Path
    BY DEF Sound, NoOrphans, Shape
  <1>3. u.own = [q \in keys |-> IF q \in moved THEN t.own[old(q)] ELSE t.own[q]]
    BY <1>1 DEF Moved, Rekeyed
  <1>4. \A p \in subtree : new(p) \in Path /\ IsPrefix(to, new(p)) /\ old(new(p)) = p
    BY <1>1, <1>2, RemapFacts
  <1>5. \A p \in t.paths : ~IsPrefix(to, p)
    <2>1. \A p \in v.paths : Lineage(p) \subseteq v.paths /\ p \in Path
      BY <1>1 DEF Sound, Forest, Shape
    <2>2. to # Root
      BY DEF MoveAllowed, IsValidPath
    <2> QED  BY <1>1, <2>1, <2>2, LineagePrefix
  <1> HIDE DEF v, u, subtree
  <1>6. \A p : name(p) = IF p \in subtree THEN new(p) ELSE p
    BY DEF NameAfter, subtree
  <1>7. /\ \A p \in D : name(p) \in keys
        /\ \A p \in D : p \in subtree => name(p) \in moved /\ old(name(p)) = p
        /\ \A p \in D : p \notin subtree => name(p) = p /\ p \notin moved
    BY <1>2, <1>4, <1>5, <1>6
  <1>8. keys = {name(p) : p \in D}
    BY <1>6
  <1>9. ASSUME NEW p \in D PROVE u.own[name(p)] = t.own[p]
    <2> DEFINE q == name(p)
    <2>1. q \in keys
      BY <1>7
    <2>2. CASE p \in subtree
      <3>1. q \in moved /\ old(q) = p
        BY <1>7, <2>2
      <3> HIDE DEF q, moved, keys, old, D
      <3> QED  BY <1>3, <2>1, <3>1 DEF q
    <2>3. CASE p \notin subtree
      <3>1. q = p /\ q \notin moved
        BY <1>7, <2>3
      <3> HIDE DEF q, moved, keys, old, D
      <3> QED  BY <1>3, <2>1, <3>1 DEF q
    <2> QED  BY <2>2, <2>3
  <1>10. ASSUME NEW p \in D, NEW q \in D, name(p) = name(q) PROVE p = q
    <2>1. CASE p \in subtree /\ q \in subtree
      BY <1>7, <1>10, <2>1
    <2>2. CASE p \in subtree /\ q \notin subtree
      BY <1>7, <1>10, <2>2
    <2>3. CASE p \notin subtree /\ q \in subtree
      BY <1>7, <1>10, <2>3
    <2>4. CASE p \notin subtree /\ q \notin subtree
      BY <1>7, <1>10, <2>4
    <2> QED  BY <2>1, <2>2, <2>3, <2>4
  <1>11. \A p \in D : IsPrefix(to, name(p)) <=> IsPrefix(from, p)
    BY <1>1, <1>2, <1>4, <1>5, <1>6
  <1>12. DOMAIN u.own = {name(p) : p \in D}
    BY <1>3, <1>8
  <1> HIDE DEF name, D
  <1> QED  BY <1>9, <1>10, <1>11, <1>12 DEF u, name, D
=============================================================================
