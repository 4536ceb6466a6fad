----------------------- MODULE Reconciliation_proofs -----------------------
(***************************************************************************)
(* Proofs about a reconciliation.  First the matching engine and what is   *)
(* shown of its matches, for any ledger: counting, sorting, folds, sums,   *)
(* the walk to the nearest posting, the search for a group, the passes and *)
(* what they propose, rows and totals.  Then the component, for any        *)
(* ledgers and balanced matches, and whatever the pool does.               *)
(***************************************************************************)
EXTENDS Reconciliation, FiniteSetTheorems, WellFoundedInduction, TLAPS

-----------------------------------------------------------------------------
(* Counting *)

\* A set of naturals has a least one.
LEMMA LeastNat ==
    ASSUME NEW T \in SUBSET Nat, T # {}
    PROVE  \E n \in T : \A m \in T : n <= m
  <1>1. IsWellFoundedOn(OpToRel(<, Nat), Nat)
    BY NatLessThanWellFounded
  <1>2. PICK n \in T : \A m \in T : ~(<<m, n>> \in OpToRel(<, Nat))
    BY <1>1, WFMin
  <1>3. ASSUME NEW m \in T, ~(n <= m) PROVE FALSE
    <2>1. m \in Nat /\ n \in Nat /\ m < n
      BY <1>3
    <2> QED  BY <1>2, <1>3, <2>1 DEF OpToRel
  <1> QED  BY <1>3

\* What holds of no element and, if of one less, then of one more, holds of all
\* the numbers up to a bound.
LEMMA Counting ==
    ASSUME NEW L \in Nat, NEW T, 0 \in T, \A n \in 1 .. L : n - 1 \in T => n \in T
    PROVE  \A n \in 0 .. L : n \in T
  <1> SUFFICES ASSUME NEW m \in 0 .. L, m \notin T PROVE FALSE
    OBVIOUS
  <1> DEFINE U == {n \in Nat : n <= L /\ n \notin T}
  <1>1. m \in U
    OBVIOUS
  <1>2. PICK n \in U : \A k \in U : n <= k
    BY <1>1, LeastNat
  <1>3. n \in 1 .. L /\ n - 1 \in Nat /\ n - 1 <= L /\ ~(n <= n - 1)
    <2>1. n # 0 /\ n \in Nat /\ n <= L
      BY <1>2
    <2> QED  BY <2>1
  <1>4. n - 1 \in T
    BY <1>2, <1>3
  <1> QED  BY <1>2, <1>3, <1>4

-----------------------------------------------------------------------------
(* Sorting *)

\* A finite set can be listed in a total order.
LEMMA SortExists ==
    ASSUME NEW S, IsFiniteSet(S), NEW R, \A x \in S : <<x, x>> \notin R,
           \A x, y, z \in S : <<x, y>> \in R /\ <<y, z>> \in R => <<x, z>> \in R,
           \A x, y \in S : x # y => <<x, y>> \in R \/ <<y, x>> \in R
    PROVE  \E s \in Bijection(1 .. Cardinality(S), S) :
             \A i, j \in DOMAIN s : i < j => <<s[i], s[j]>> \in R
  <1> DEFINE before(x) == {y \in S : <<y, x>> \in R}
             rank(x) == Cardinality(before(x))
             n == Cardinality(S)
             F == [x \in S |-> rank(x) + 1]
             at(i) == CHOOSE x \in S : rank(x) = i - 1
             s == [i \in 1 .. n |-> at(i)]
  <1>2. n \in Nat
    BY FS_CardinalityType
  <1>3. ASSUME NEW x \in S PROVE IsFiniteSet(before(x)) /\ rank(x) \in 0 .. n - 1
    <2>1. before(x) \in SUBSET S /\ x \notin before(x)
      OBVIOUS
    <2> HIDE DEF before
    <2>2. IsFiniteSet(before(x)) /\ rank(x) <= n /\ (n = rank(x) => S = before(x))
      BY <2>1, FS_Subset
    <2>3. rank(x) \in Nat
      BY <2>2, FS_CardinalityType
    <2> QED  BY <1>2, <2>1, <2>2, <2>3
  <1>4. ASSUME NEW x \in S, NEW y \in S, <<x, y>> \in R PROVE rank(x) < rank(y)
    <2>1. before(x) \in SUBSET before(y) /\ x \in before(y) /\ x \notin before(x)
      BY <1>4
    <2>2. IsFiniteSet(before(y)) /\ rank(x) \in Nat /\ rank(y) \in Nat
      BY <1>3
    <2> HIDE DEF before
    <2>3. rank(x) <= rank(y) /\ rank(x) # rank(y)
      BY <2>1, <2>2, FS_Subset
    <2> HIDE DEF rank
    <2> QED  BY <2>2, <2>3
  <1>r. \A x \in S : rank(x) \in 0 .. n - 1
    BY <1>3
  <1> HIDE DEF before
  <1>5. \A x, y \in S : rank(x) = rank(y) => x = y
    <2> SUFFICES ASSUME NEW x \in S, NEW y \in S, rank(x) = rank(y), x # y PROVE FALSE
      OBVIOUS
    <2>1. <<x, y>> \in R \/ <<y, x>> \in R
      OBVIOUS
    <2>2. rank(x) < rank(y) \/ rank(y) < rank(x)
      BY <1>4, <2>1
    <2> HIDE DEF rank
    <2> QED  BY <1>r, <2>2
  <1> HIDE DEF rank, n
  <1>6. F \in Injection(S, 1 .. n)
    <2>1. F \in [S -> 1 .. n]
      BY <1>2, <1>r
    <2>2. \A x, y \in S : F[x] = F[y] => x = y
      BY <1>r, <1>5
    <2> QED  BY <2>1, <2>2 DEF Injection, IsInjective
  <1>7. IsFiniteSet(1 .. n) /\ Cardinality(1 .. n) = n
    BY <1>2, FS_Interval
  <1>8. F \in Surjection(S, 1 .. n)
    <2>1. Cardinality(S) = Cardinality(1 .. n)
      BY <1>7 DEF n
    <2> HIDE DEF F
    <2> QED  BY <1>6, <1>7, <2>1, FS_Injection
  <1>9. ASSUME NEW i \in 1 .. n PROVE at(i) \in S /\ rank(at(i)) = i - 1
    <2>1. PICK x \in S : F[x] = i
      BY <1>8 DEF Surjection
    <2>2. rank(x) = i - 1
      BY <1>2, <1>r, <2>1
    <2> QED  BY <2>2
  <1>10. \A x \in S : rank(x) + 1 \in 1 .. n /\ at(rank(x) + 1) = x
    <2> TAKE x \in S
    <2>1. rank(x) + 1 \in 1 .. n
      BY <1>2, <1>r
    <2>2. at(rank(x) + 1) \in S /\ rank(at(rank(x) + 1)) = rank(x)
      BY <1>r, <1>9, <2>1
    <2> HIDE DEF at
    <2> QED  BY <1>5, <2>1, <2>2
  <1>a. \A i \in 1 .. n : at(i) \in S /\ rank(at(i)) = i - 1
    BY <1>9
  <1> HIDE DEF at
  <1>11. s \in [1 .. n -> S] /\ \A i \in 1 .. n : s[i] = at(i)
    BY <1>a
  <1>12. \A i, j \in 1 .. n : s[i] = s[j] => i = j
    <2> SUFFICES ASSUME NEW i \in 1 .. n, NEW j \in 1 .. n, s[i] = s[j] PROVE i = j
      OBVIOUS
    <2>1. i - 1 = j - 1
      BY <1>a, <1>11
    <2> QED  BY <1>2, <2>1
  <1>13. \A x \in S : \E i \in 1 .. n : s[i] = x
    BY <1>10, <1>11
  <1>14. s \in Bijection(1 .. n, S)
    <2>1. IsInjective(s)
      BY <1>11, <1>12 DEF IsInjective
    <2> HIDE DEF s
    <2> QED  BY <1>11, <1>13, <2>1 DEF Bijection, Injection, Surjection
  <1>15. ASSUME NEW i \in 1 .. n, NEW j \in 1 .. n, i < j PROVE <<s[i], s[j]>> \in R
    <2>1. s[i] \in S /\ s[j] \in S /\ rank(s[i]) = i - 1 /\ rank(s[j]) = j - 1
      BY <1>a, <1>11
    <2>2. CASE <<s[j], s[i]>> \in R
      <3>1. rank(s[j]) < rank(s[i])
        BY <1>4, <2>1, <2>2
      <3> QED  BY <1>2, <1>15, <2>1, <3>1
    <2>3. s[i] # s[j]
      BY <1>2, <1>12, <1>15
    <2> QED  BY <2>1, <2>2, <2>3
  <1>16. DOMAIN s = 1 .. n
    BY <1>11
  <1> HIDE DEF s
  <1> QED  BY <1>14, <1>15, <1>16 DEF n

LEMMA Listing ==
    ASSUME NEW S, IsFiniteSet(S), NEW s \in Bijection(1 .. Cardinality(S), S)
    PROVE  /\ s \in Seq(S) /\ Len(s) = Cardinality(S) /\ DOMAIN s = 1 .. Len(s)
           /\ Range(s) = S
           /\ \A i, j \in DOMAIN s : s[i] = s[j] => i = j
  <1>1. Cardinality(S) \in Nat
    BY FS_CardinalityType
  <1>2. /\ s \in [1 .. Cardinality(S) -> S]
        /\ \A x \in S : \E i \in 1 .. Cardinality(S) : s[i] = x
        /\ \A i, j \in 1 .. Cardinality(S) : s[i] = s[j] => i = j
    BY DEF Bijection, Injection, Surjection, IsInjective
  <1>3. s \in Seq(S) /\ Len(s) = Cardinality(S) /\ DOMAIN s = 1 .. Cardinality(S)
    BY <1>1, <1>2
  <1>4. Range(s) = S
    BY <1>2 DEF Range
  <1> QED  BY <1>2, <1>3, <1>4

-----------------------------------------------------------------------------
(* Folds: the sums, and the loops over a list *)

Adding == [kind |-> "amount", base |-> 0]

Clearing(list, c) == [kind |-> "cleared", base |-> 0, list |-> list, c |-> c]

GroupSum(group) == [kind |-> "group", base |-> 0, group |-> group]

Worst(group, days) == [kind |-> "worst", base |-> 0, group |-> group, days |-> days]

Pairing(state, lines, postings, window, match) ==
    [kind |-> "nearest", base |-> state, lines |-> lines, postings |-> postings,
     window |-> window, match |-> match]

Walking(bucket, used, days, window, start) ==
    [kind |-> "walk", base |-> start, bucket |-> bucket, used |-> used, days |-> days,
     window |-> window]

Grouping(state, lines, postings, opts) ==
    [kind |-> "sum", base |-> state, lines |-> lines, postings |-> postings,
     opts |-> opts]

Summing(how) == how.kind = "amount" \/ how.kind = "cleared"

Weight(how, x) ==
    IF how.kind = "amount" THEN x.amount
    ELSE Amount({p \in Range(how.list[x].postings) : p.currency = how.c})

Chosen(how, s) == IF Summing(how) THEN CHOOSE x \in s : TRUE ELSE Max(s)

Joined(how, x, acc) ==
    IF Summing(how) THEN Weight(how, x) + acc
    ELSE IF how.kind = "group" THEN acc + how.group[x].amount
    ELSE IF how.kind = "worst"
    THEN IF Distance(how.group[x], how.days) > (IF acc < 0 THEN -acc ELSE acc)
         THEN how.group[x].days - how.days ELSE acc
    ELSE IF how.kind = "nearest"
    THEN TakeNearest(acc, how.lines[x], how.postings, how.window, how.match)
    ELSE IF how.kind = "walk"
    THEN Outward(how.bucket, how.used, how.days, how.window, acc)
    ELSE TakeGroup(acc, how.lines[x], how.postings, how.opts)

Folded(how, S) ==
    LET iter[s \in SUBSET S] ==
          IF s = {} THEN how.base
          ELSE Joined(how, Chosen(how, s), iter[s \ {Chosen(how, s)}])
    IN  iter[S]

\* What is to be chosen from is not empty of it.
Chooses(how, S) == \A s \in SUBSET S : s # {} => Chosen(how, s) \in s

Body(how, g, s) ==
    IF s = {} THEN how.base ELSE Joined(how, Chosen(how, s), g[s \ {Chosen(how, s)}])

IsFold(how, S, g) == g = [s \in SUBSET S |-> Body(how, g, s)]

\* The parts of a finite set, by how many elements they have.
LEMMA PartsOf ==
    ASSUME NEW S, IsFiniteSet(S), NEW s \in SUBSET S
    PROVE  /\ IsFiniteSet(s) /\ Cardinality(s) \in 0 .. Cardinality(S)
           /\ Cardinality(S) \in Nat
           /\ Cardinality(s) = 0 <=> s = {}
           /\ \A x \in s : Cardinality(s \ {x}) = Cardinality(s) - 1
  <1>1. IsFiniteSet(s) /\ Cardinality(s) <= Cardinality(S)
    BY FS_Subset
  <1>2. Cardinality(s) \in Nat /\ Cardinality(S) \in Nat
    BY <1>1, FS_CardinalityType
  <1>3. Cardinality(s) = 0 <=> s = {}
    BY <1>1, FS_EmptySet
  <1>4. \A x \in s : Cardinality(s \ {x}) = Cardinality(s) - 1
    BY <1>1, FS_RemoveElement
  <1> QED  BY <1>1, <1>2, <1>3, <1>4

\* What holds of the empty set and, if of all the parts with one element less,
\* of a part, holds of all the parts of a finite set.
LEMMA PartByPart ==
    ASSUME NEW S, IsFiniteSet(S), NEW Good, {} \in Good,
           \A s \in SUBSET S : s # {} /\ (\A x \in s : s \ {x} \in Good) => s \in Good
    PROVE  \A s \in SUBSET S : s \in Good
  <1> DEFINE N == Cardinality(S)
             T == {n \in 0 .. N : \A s \in SUBSET S : Cardinality(s) = n => s \in Good}
  <1>1. N \in Nat
    BY FS_CardinalityType
  <1>2. 0 \in T
    BY <1>1, PartsOf
  <1>3. ASSUME NEW n \in 1 .. N, n - 1 \in T PROVE n \in T
    <2> SUFFICES ASSUME NEW s \in SUBSET S, Cardinality(s) = n PROVE s \in Good
      BY <1>1
    <2>1. s # {} /\ \A x \in s : Cardinality(s \ {x}) = n - 1
      BY PartsOf, n # 0
    <2>2. \A x \in s : s \ {x} \in SUBSET S
      OBVIOUS
    <2>3. \A x \in s : s \ {x} \in Good
      BY <1>3, <2>1, <2>2
    <2> QED  BY <2>1, <2>3
  <1> HIDE DEF T, N
  <1>4. \A n \in 1 .. N : n - 1 \in T => n \in T
    BY <1>3
  <1>5. \A n \in 0 .. N : n \in T
    BY <1>1, <1>2, <1>4, Counting
  <1> TAKE s \in SUBSET S
  <1>6. Cardinality(s) \in 0 .. N
    BY PartsOf DEF N
  <1> QED  BY <1>5, <1>6 DEF T

LEMMA FoldExists ==
    ASSUME NEW how, NEW S, IsFiniteSet(S), Chooses(how, S)
    PROVE  \E g : IsFold(how, S, g)
  <1> DEFINE N == Cardinality(S)
             Parts == SUBSET S
             Small(n) == {s \in Parts : Cardinality(s) \in 0 .. n}
             Fits(n, g) == g = [s \in Small(n) |-> Body(how, g, s)]
             T == {n \in 0 .. N : \E g : Fits(n, g)}
  <1>1. N \in Nat
    BY FS_CardinalityType
  <1>2. \A s \in Parts : /\ Cardinality(s) \in 0 .. N
                         /\ (Cardinality(s) = 0) <=> (s = {})
                         /\ \A x \in s : /\ s \ {x} \in Parts
                                         /\ Cardinality(s \ {x}) = Cardinality(s) - 1
    BY PartsOf
  <1> HIDE DEF N, Parts
  <1>3. 0 \in T
    <2> DEFINE g == [s \in Small(0) |-> how.base]
    <2>1. \A s \in Small(0) : s = {}
      BY <1>1, <1>2
    <2>2. \A s \in Small(0) : Body(how, g, s) = how.base
      BY <2>1 DEF Body
    <2>3. Fits(0, g)
      BY <2>2
    <2>4. 0 \in 0 .. N
      BY <1>1
    <2> HIDE DEF g, Fits
    <2> QED  BY <2>3, <2>4
  <1>4. ASSUME NEW n \in 1 .. N, n - 1 \in T PROVE n \in T
    <2>1. PICK g : Fits(n - 1, g)
      BY <1>4
    <2> DEFINE h == [s \in Small(n) |-> Body(how, g, s)]
    <2>2. \A s \in Small(n - 1) : s \in Small(n)
      BY <1>1, <1>2
    <2>3. \A s \in Small(n - 1) : h[s] = g[s]
      BY <2>1, <2>2
    <2>4. ASSUME NEW s \in Small(n) PROVE Body(how, g, s) = Body(how, h, s)
      <3>1. CASE s = {}
        BY <3>1 DEF Body
      <3>2. CASE s # {}
        <4>1. Chosen(how, s) \in s
          BY <3>2 DEF Chooses, Parts
        <4>2. s \ {Chosen(how, s)} \in Small(n - 1)
          <5> DEFINE c == Chosen(how, s)
                     size == Cardinality(s)
          <5>1. /\ size \in 0 .. n /\ size # 0
                /\ s \ {c} \in Parts /\ Cardinality(s \ {c}) = size - 1
            BY <1>2, <3>2, <4>1
          <5> HIDE DEF size
          <5>2. size - 1 \in 0 .. n - 1
            BY <1>1, <5>1
          <5> QED  BY <5>1, <5>2
        <4> HIDE DEF h
        <4> QED  BY <2>3, <3>2, <4>2 DEF Body
      <3> QED  BY <3>1, <3>2
    <2>5. Fits(n, h)
      <3> DEFINE w == [s \in Small(n) |-> Body(how, h, s)]
      <3>1. \A s \in Small(n) : h[s] = w[s]
        BY <2>4
      <3>2. h = w
        BY <3>1
      <3> QED  BY <3>2
    <2> HIDE DEF h, Fits
    <2> QED  BY <2>5
  <1> HIDE DEF T
  <1>5. \A n \in 1 .. N : n - 1 \in T => n \in T
    BY <1>4
  <1>6. N \in T
    BY <1>1, <1>3, <1>5, Counting
  <1>7. PICK g : Fits(N, g)
    BY <1>6 DEF T
  <1>8. Small(N) = SUBSET S
    <2>1. \A s \in Parts : s \in Small(N)
      BY <1>2
    <2>2. \A s \in Small(N) : s \in Parts
      OBVIOUS
    <2> HIDE DEF Small
    <2> QED  BY <2>1, <2>2 DEF Parts
  <1> QED  BY <1>7, <1>8 DEF IsFold

\* Two folds agree on what both fold.
LEMMA FoldsAgree ==
    ASSUME NEW how, NEW S, IsFiniteSet(S), Chooses(how, S), NEW g, IsFold(how, S, g),
           NEW D \in SUBSET S, NEW h, IsFold(how, D, h)
    PROVE  h[D] = g[D]
  <1> DEFINE Good == {s \in SUBSET D : h[s] = g[s]}
  <1>1. IsFiniteSet(D)
    BY FS_Subset
  <1>2. \A s \in SUBSET D : h[s] = Body(how, h, s) /\ g[s] = Body(how, g, s)
    <2>1. \A s \in SUBSET D : s \in SUBSET S
      OBVIOUS
    <2> QED  BY <2>1 DEF IsFold
  <1>3. {} \in Good
    BY <1>2 DEF Body
  <1>4. ASSUME NEW s \in SUBSET D, s # {}, \A x \in s : s \ {x} \in Good
        PROVE  s \in Good
    <2>1. Chosen(how, s) \in s
      BY <1>4 DEF Chooses
    <2>2. h[s \ {Chosen(how, s)}] = g[s \ {Chosen(how, s)}]
      BY <1>4, <2>1
    <2> QED  BY <1>2, <1>4, <2>2 DEF Body
  <1> HIDE DEF Good
  <1>5. D \in Good
    BY <1>1, <1>3, <1>4, PartByPart
  <1> QED  BY <1>5 DEF Good

LEMMA FoldIs ==
    ASSUME NEW how, NEW S, IsFiniteSet(S), Chooses(how, S), NEW D \in SUBSET S
    PROVE  /\ D = {} => Folded(how, D) = how.base
           /\ D # {} => Folded(how, D)
                           = Joined(how, Chosen(how, D), Folded(how, D \ {Chosen(how, D)}))
  <1> DEFINE iter(A) == CHOOSE g : IsFold(how, A, g)
  <1>1. \A A : Folded(how, A) = iter(A)[A]
    BY DEF Folded, IsFold, Body
  <1>2. \A A \in SUBSET S : IsFold(how, A, iter(A))
    <2> TAKE A \in SUBSET S
    <2>1. IsFiniteSet(A) /\ Chooses(how, A)
      <3>1. \A s \in SUBSET A : s \in SUBSET S
        OBVIOUS
      <3> QED  BY <3>1, FS_Subset DEF Chooses
    <2>2. \E g : IsFold(how, A, g)
      BY <2>1, FoldExists
    <2> QED  BY <2>2
  <1> HIDE DEF iter
  <1>3. \A A \in SUBSET S : iter(A)[A] = iter(S)[A]
    BY <1>2, FoldsAgree
  <1>4. \A A \in SUBSET S : Folded(how, A) = iter(S)[A]
    BY <1>1, <1>3
  <1>5. iter(S)[D] = Body(how, iter(S), D)
    BY <1>2 DEF IsFold
  <1>6. CASE D = {}
    BY <1>4, <1>5, <1>6 DEF Body
  <1>7. CASE D # {}
    <2>1. D \ {Chosen(how, D)} \in SUBSET S
      OBVIOUS
    <2> QED  BY <1>4, <1>5, <1>7, <2>1 DEF Body
  <1> QED  BY <1>6, <1>7

LEMMA MaxInside ==
    ASSUME NEW n \in Nat, NEW u \in SUBSET (1 .. n), u # {}
    PROVE  Max(u) \in u
  <1> DEFINE T == {m \in Nat : \A y \in u : m >= y}
  <1>1. n \in T
    OBVIOUS
  <1>2. PICK m \in T : \A k \in T : m <= k
    BY <1>1, LeastNat
  <1>3. m \in u
    <2>1. SUFFICES ASSUME m \notin u PROVE FALSE
      OBVIOUS
    <2>2. m \in Nat /\ \A y \in u : m >= y /\ y # m /\ y \in 1 .. n
      BY <1>2, <2>1
    <2>3. m # 0
      <3>1. PICK y \in u : m >= y /\ y \in 1 .. n
        BY <2>2
      <3> QED  BY <2>2, <3>1
    <2>4. ASSUME NEW y \in u PROVE m - 1 >= y
      <3>1. y \in Int /\ m >= y /\ y # m
        BY <2>2
      <3> QED  BY <2>2, <3>1
    <2>5. m - 1 \in T
      BY <2>2, <2>3, <2>4
    <2> QED  BY <1>2, <2>2, <2>5
  <1>4. \A y \in u : m >= y
    BY <1>2
  <1> QED  BY <1>3, <1>4 DEF Max

\* A fold from the first position on takes them one by one.
LEMMA FoldUp ==
    ASSUME NEW how, ~Summing(how), NEW L \in Nat
    PROVE  /\ Folded(how, 1 .. 0) = how.base
           /\ \A n \in 1 .. L : Folded(how, 1 .. n) = Joined(how, n, Folded(how, 1 .. n - 1))
  <1> DEFINE S == 1 .. L
  <1>1. \A s : Chosen(how, s) = Max(s)
    BY DEF Chosen
  <1>2. IsFiniteSet(S)
    BY FS_Interval
  <1>3. Chooses(how, S)
    BY <1>1, MaxInside DEF Chooses
  <1>4. Folded(how, 1 .. 0) = how.base
    <2>1. 1 .. 0 = {} /\ {} \in SUBSET S
      OBVIOUS
    <2> HIDE DEF S
    <2> QED  BY <1>2, <1>3, <2>1, FoldIs
  <1>5. ASSUME NEW n \in 1 .. L
        PROVE  Folded(how, 1 .. n) = Joined(how, n, Folded(how, 1 .. n - 1))
    <2> DEFINE u == 1 .. n
    <2>1. u \in SUBSET S /\ u # {} /\ n \in u /\ u \ {n} = 1 .. n - 1
      <3>1. n \in Nat /\ 1 <= n /\ n <= L
        OBVIOUS
      <3>2. \A i : i \in u => i \in S
        BY <3>1
      <3>3. \A i : i \in u \ {n} <=> i \in 1 .. n - 1
        BY <3>1
      <3>4. n \in u
        BY <3>1
      <3> HIDE DEF u, S
      <3> QED  BY <3>2, <3>3, <3>4
    <2>2. Max(u) = n
      <3>1. \A y \in u : n >= y
        OBVIOUS
      <3>2. \A x \in u : (\A y \in u : x >= y) => x = n
        BY <2>1
      <3> HIDE DEF u
      <3> QED  BY <2>1, <3>1, <3>2 DEF Max
    <2> HIDE DEF u, S
    <2>3. Folded(how, u) = Joined(how, Chosen(how, u), Folded(how, u \ {Chosen(how, u)}))
      BY <1>2, <1>3, <2>1, FoldIs
    <2> QED  BY <1>1, <2>1, <2>2, <2>3 DEF u
  <1> QED  BY <1>4, <1>5


LEMMA AmountIsFold == ASSUME NEW S PROVE Amount(S) = Folded(Adding, S)
  BY DEF Amount, MapThenSumSet, MapThenFoldSet, Folded, Adding, Summing, Weight, Chosen, Joined

LEMMA ClearedIsFold ==
    ASSUME NEW list, NEW c
    PROVE  ClearedTotal(list, c)
             = Folded(Clearing(list, c), {i \in DOMAIN list : list[i].status = "accepted"})
  BY DEF ClearedTotal, MapThenSumSet, MapThenFoldSet, Folded, Clearing, Summing, Weight, Chosen, Joined

LEMMA GroupAmountIsFold ==
    ASSUME NEW group PROVE GroupAmount(group) = Folded(GroupSum(group), DOMAIN group)
  BY DEF GroupAmount, FoldLeft, MapThenFoldSet, Folded, GroupSum, Summing, Chosen, Joined

LEMMA WorstIsFold ==
    ASSUME NEW group, NEW days
    PROVE WorstDelta(group, days) = Folded(Worst(group, days), DOMAIN group)
  BY DEF WorstDelta, FoldLeft, MapThenFoldSet, Folded, Worst, Summing, Chosen, Joined

LEMMA NearestIsFold ==
    ASSUME NEW state, NEW lines, NEW postings, NEW window, NEW match
    PROVE NearestPass(state, lines, postings, window, match)
             = Folded(Pairing(state, lines, postings, window, match), DOMAIN lines)
  BY DEF NearestPass, FoldLeft, MapThenFoldSet, Folded, Pairing, Summing, Chosen, Joined

LEMMA SumPassIsFold ==
    ASSUME NEW state, NEW lines, NEW postings, NEW opts
    PROVE SumPass(state, lines, postings, opts)
             = Folded(Grouping(state, lines, postings, opts), DOMAIN lines)
  BY DEF SumPass, FoldLeft, MapThenFoldSet, Folded, Grouping, Summing, Chosen, Joined

-----------------------------------------------------------------------------
(* Sums *)

\* A sum takes any of its parts first.
LEMMA AnyFirst ==
    ASSUME NEW how, Summing(how), how.base = 0, NEW U, IsFiniteSet(U),
           \A x \in U : Weight(how, x) \in Int
    PROVE  /\ Folded(how, {}) = 0
           /\ \A D \in SUBSET U :
                /\ Folded(how, D) \in Int
                /\ \A x \in D : Folded(how, D) = Weight(how, x) + Folded(how, D \ {x})
  <1> DEFINE sum(D) == Folded(how, D)
             w(x) == Weight(how, x)
             Good == {D \in SUBSET U :
                        /\ sum(D) \in Int
                        /\ \A x \in D : /\ sum(D \ {x}) \in Int
                                        /\ sum(D) = w(x) + sum(D \ {x})}
  <1>1. /\ sum({}) = 0
        /\ \A D \in SUBSET U : D # {} =>
             /\ Chosen(how, D) \in D
             /\ sum(D) = w(Chosen(how, D)) + sum(D \ {Chosen(how, D)})
    <2>1. Chooses(how, U)
      BY DEF Chooses, Chosen
    <2>2. \A x, acc : Joined(how, x, acc) = w(x) + acc
      BY DEF Joined
    <2>3. Folded(how, {}) = 0
      BY <2>1, FoldIs
    <2>4. ASSUME NEW D \in SUBSET U, D # {}
          PROVE  /\ Chosen(how, D) \in D
                 /\ Folded(how, D) = Joined(how, Chosen(how, D),
                                           Folded(how, D \ {Chosen(how, D)}))
      BY <2>1, <2>4, FoldIs DEF Chooses
    <2> QED  BY <2>2, <2>3, <2>4
  <1>2. \A x \in U : w(x) \in Int
    OBVIOUS
  <1> HIDE DEF sum, w
  <1>3. {} \in Good
    BY <1>1
  <1>4. ASSUME NEW D \in SUBSET U, D # {}, \A x \in D : D \ {x} \in Good
        PROVE  D \in Good
    <2> DEFINE y == Chosen(how, D)
    <2>1. y \in D /\ sum(D) = w(y) + sum(D \ {y})
      BY <1>1, <1>4
    <2> HIDE DEF y
    <2>2. /\ \A x \in D : sum(D \ {x}) \in Int
          /\ \A x \in D : \A z \in D \ {x} :
               /\ sum((D \ {x}) \ {z}) \in Int
               /\ sum(D \ {x}) = w(z) + sum((D \ {x}) \ {z})
      BY <1>4
    <2>3. w(y) \in Int /\ sum(D \ {y}) \in Int
      BY <1>2, <2>1, <2>2
    <2>4. sum(D) \in Int
      BY <2>1, <2>3
    <2>5. ASSUME NEW x \in D PROVE sum(D) = w(x) + sum(D \ {x})
      <3>1. CASE x = y
        BY <2>1, <3>1
      <3>2. CASE x # y
        <4> DEFINE rest == sum((D \ {x}) \ {y})
        <4>1. /\ sum(D \ {y}) = w(x) + sum((D \ {y}) \ {x})
              /\ sum(D \ {x}) = w(y) + rest
          BY <2>1, <2>2, <3>2
        <4>2. (D \ {y}) \ {x} = (D \ {x}) \ {y}
          OBVIOUS
        <4>3. rest \in Int
          BY <2>1, <2>2, <3>2
        <4>4. w(x) \in Int /\ w(y) \in Int
          BY <1>2, <2>1
        <4> HIDE DEF rest
        <4>5. /\ sum(D \ {y}) = w(x) + rest
              /\ sum(D \ {x}) = w(y) + rest
          BY <4>1, <4>2 DEF rest
        <4> QED  BY <2>1, <4>3, <4>4, <4>5
      <3> QED  BY <3>1, <3>2
    <2> QED  BY <2>2, <2>4, <2>5
  <1> HIDE DEF Good
  <1>6. \A D \in SUBSET U : D \in Good
    BY <1>3, <1>4, PartByPart
  <1> QED  BY <1>1, <1>6 DEF Good, sum, w

LEMMA AmountFirst ==
    ASSUME NEW U, IsFiniteSet(U), \A x \in U : x.amount \in Int
    PROVE  /\ Amount({}) = 0
           /\ \A D \in SUBSET U :
                /\ Amount(D) \in Int
                /\ \A x \in D : Amount(D) = x.amount + Amount(D \ {x})
  <1> DEFINE how == Adding
  <1>1. Summing(how) /\ how.base = 0 /\ \A x : Weight(how, x) = x.amount
    BY DEF Adding, Summing, Weight
  <1>2. \A D : Amount(D) = Folded(how, D)
    BY AmountIsFold
  <1> HIDE DEF how
  <1>3. \A x \in U : Weight(how, x) \in Int
    BY <1>1
  <1> QED  BY <1>1, <1>2, <1>3, AnyFirst

\* What is added up apart adds up.
LEMMA AmountSplit ==
    ASSUME NEW U, IsFiniteSet(U), \A x \in U : x.amount \in Int,
           NEW D \in SUBSET U, NEW E \in SUBSET U, D \cap E = {}
    PROVE  /\ Amount(D \cup E) = Amount(D) + Amount(E)
           /\ Amount(D) \in Int /\ Amount(E) \in Int
  <1> DEFINE Good == {A \in SUBSET D : Amount(A \cup E) = Amount(A) + Amount(E)}
  <1>1. /\ Amount({}) = 0
        /\ \A A \in SUBSET U : /\ Amount(A) \in Int
                               /\ \A x \in A : Amount(A) = x.amount + Amount(A \ {x})
    BY AmountFirst
  <1>2. IsFiniteSet(D)
    BY FS_Subset
  <1>3. {} \in Good
    <2>1. {} \cup E = E
      OBVIOUS
    <2> QED  BY <1>1, <2>1
  <1>4. ASSUME NEW A \in SUBSET D, A # {}, \A x \in A : A \ {x} \in Good PROVE A \in Good
    <2>1. PICK x \in A : TRUE
      BY <1>4
    <2>2. (A \cup E) \ {x} = (A \ {x}) \cup E /\ x \in A \cup E /\ A \cup E \in SUBSET U
          /\ A \in SUBSET U /\ A \ {x} \in SUBSET U
      OBVIOUS
    <2>3. Amount((A \ {x}) \cup E) = Amount(A \ {x}) + Amount(E)
      BY <1>4
    <2>4. /\ Amount(A \cup E) = x.amount + Amount((A \ {x}) \cup E)
          /\ Amount(A) = x.amount + Amount(A \ {x})
          /\ Amount(A \ {x}) \in Int /\ Amount(E) \in Int /\ x.amount \in Int
      BY <1>1, <2>2
    <2>5. Amount(A \cup E) = Amount(A) + Amount(E)
      BY <2>3, <2>4
    <2> QED  BY <2>5
  <1> HIDE DEF Good
  <1>5. D \in Good
    BY <1>2, <1>3, <1>4, PartByPart
  <1> QED  BY <1>1, <1>5 DEF Good

\* What a list without repetition adds up to is the sum of what is on it.
LEMMA GroupAdds ==
    ASSUME NEW U, NEW group \in Seq(U), \A x \in U : x.amount \in Int,
           \A i, j \in DOMAIN group : group[i] = group[j] => i = j
    PROVE  GroupAmount(group) = Amount(Range(group)) /\ IsFiniteSet(Range(group))
  <1> DEFINE L == Len(group)
             part(n) == {group[i] : i \in 1 .. n}
             how == GroupSum(group)
             T == {n \in 0 .. L : Folded(how, 1 .. n) = Amount(part(n))}
  <1>1. L \in Nat /\ DOMAIN group = 1 .. L /\ \A i \in 1 .. L : group[i] \in U
    OBVIOUS
  <1>2. part(L) = Range(group)
    BY <1>1 DEF Range
  <1>3. IsFiniteSet(part(L))
    <2> DEFINE f == [i \in 1 .. L |-> group[i]]
    <2>1. IsFiniteSet(1 .. L)
      <3> HIDE DEF L
      <3>1. L \in Int /\ 1 \in Int
        BY <1>1
      <3> QED  BY <3>1, FS_Interval
    <2>2. f \in Surjection(1 .. L, part(L))
      BY DEF Surjection
    <2> HIDE DEF f
    <2> QED  BY <2>1, <2>2, FS_Surjection
  <1>4. \A x \in part(L) : x.amount \in Int
    BY <1>1
  <1>5. ~Summing(how) /\ how.base = 0
    BY DEF Summing, GroupSum
  <1>6. \A i, acc : Joined(how, i, acc) = acc + group[i].amount
    BY DEF Joined, Summing, GroupSum
  <1>7. GroupAmount(group) = Folded(how, 1 .. L)
    BY <1>1, GroupAmountIsFold
  <1> HIDE DEF how
  <1>8. /\ Folded(how, 1 .. 0) = 0
        /\ \A n \in 1 .. L : Folded(how, 1 .. n) = Folded(how, 1 .. n - 1) + group[n].amount
    BY <1>1, <1>5, <1>6, FoldUp
  <1> DEFINE all == part(L)
  <1>9. /\ Amount({}) = 0
        /\ \A D \in SUBSET all : /\ Amount(D) \in Int
                                 /\ \A x \in D : Amount(D) = x.amount + Amount(D \ {x})
    <2> HIDE DEF all
    <2> QED  BY <1>3, <1>4, AmountFirst DEF all
  <1>10. 0 \in T
    <2>1. part(0) = {}
      OBVIOUS
    <2>2. 0 \in 0 .. L
      BY <1>1
    <2> HIDE DEF part
    <2>3. Folded(how, 1 .. 0) = Amount(part(0))
      BY <1>8, <1>9, <2>1
    <2> QED  BY <2>2, <2>3
  <1>11. ASSUME NEW n \in 1 .. L, n - 1 \in T PROVE n \in T
    <2>1. Folded(how, 1 .. n) = Amount(part(n - 1)) + group[n].amount
      BY <1>8, <1>11
    <2>2. part(n) \in SUBSET all /\ part(n - 1) \in SUBSET all
      BY <1>1
    <2>3. group[n] \in part(n)
      BY <1>1
    <2>4. part(n) \ {group[n]} = part(n - 1)
      <3>1. \A i \in 1 .. n - 1 : i \in 1 .. n /\ group[i] # group[n]
        <4> TAKE i \in 1 .. n - 1
        <4>1. i \in 1 .. L /\ n \in 1 .. L /\ i # n /\ i \in 1 .. n
          BY <1>1
        <4> QED  BY <1>1, <4>1
      <3>2. \A i \in 1 .. n : i = n \/ i \in 1 .. n - 1
        BY <1>1
      <3> QED  BY <3>1, <3>2
    <2>5. group[n].amount \in Int
      BY <1>1
    <2> HIDE DEF part, all
    <2>6. Amount(part(n)) = group[n].amount + Amount(part(n - 1)) /\ Amount(part(n - 1)) \in Int
      BY <1>9, <2>2, <2>3, <2>4
    <2> QED  BY <1>1, <2>1, <2>5, <2>6
  <1> HIDE DEF T
  <1>a. \A n \in 1 .. L : n - 1 \in T => n \in T
    BY <1>11
  <1>b. L \in Nat
    BY <1>1
  <1> HIDE DEF L
  <1>c. \A n \in 0 .. L : n \in T
    BY <1>10, <1>a, <1>b, Counting
  <1>12. L \in T
    BY <1>b, <1>c
  <1> QED  BY <1>2, <1>3, <1>7, <1>12 DEF T

LEMMA WorstIsInt ==
    ASSUME NEW U, NEW group \in Seq(U), \A x \in U : x.days \in Int, NEW days \in Int
    PROVE  WorstDelta(group, days) \in Int
  <1> DEFINE L == Len(group)
             how == Worst(group, days)
             T == {n \in 0 .. L : Folded(how, 1 .. n) \in Int}
  <1>1. L \in Nat /\ DOMAIN group = 1 .. L /\ \A i \in 1 .. L : group[i].days \in Int
    OBVIOUS
  <1>2. ~Summing(how) /\ how.base = 0
    BY DEF Summing, Worst
  <1>3. \A i, acc : \/ Joined(how, i, acc) = group[i].days - days
                    \/ Joined(how, i, acc) = acc
    BY DEF Joined, Summing, Worst
  <1>4. WorstDelta(group, days) = Folded(how, 1 .. L)
    BY <1>1, WorstIsFold
  <1> HIDE DEF how, L
  <1>5. /\ Folded(how, 1 .. 0) = 0
        /\ \A n \in 1 .. L : Folded(how, 1 .. n) = Joined(how, n, Folded(how, 1 .. n - 1))
    BY <1>1, <1>2, FoldUp
  <1>6. 0 \in T
    BY <1>1, <1>5
  <1>7. ASSUME NEW n \in 1 .. L, n - 1 \in T PROVE n \in T
    <2>1. \/ Folded(how, 1 .. n) = group[n].days - days
          \/ Folded(how, 1 .. n) = Folded(how, 1 .. n - 1)
      BY <1>3, <1>5
    <2>2. group[n].days - days \in Int
      BY <1>1
    <2> QED  BY <1>1, <1>7, <2>1, <2>2
  <1> HIDE DEF T
  <1>a. \A n \in 1 .. L : n - 1 \in T => n \in T
    BY <1>7
  <1>b. \A n \in 0 .. L : n \in T
    BY <1>1, <1>6, <1>a, Counting
  <1>8. L \in T
    BY <1>1, <1>b
  <1> QED  BY <1>4, <1>8 DEF T

-----------------------------------------------------------------------------
(* The nearest posting *)

Started(bucket, days) ==
    LET low == Cardinality({i \in 1 .. Len(bucket) : bucket[i].days < days})
    IN  [left |-> low, right |-> low + 1, best |-> 0]

NearestWalk(bucket, used, days, window) ==
    LET walk[n \in 0 .. Len(bucket)] ==
          IF n = 0 THEN Started(bucket, days)
          ELSE Outward(bucket, used, days, window, walk[n - 1])
    IN  walk

LEMMA NearestWalkIs ==
    ASSUME NEW bucket, NEW used, NEW days, NEW window, Len(bucket) \in Nat
    PROVE  LET walk == NearestWalk(bucket, used, days, window) IN
           /\ walk[0] = Started(bucket, days)
           /\ \A n \in 1 .. Len(bucket) :
                walk[n] = Outward(bucket, used, days, window, walk[n - 1])
  <1> DEFINE L == Len(bucket)
             start == Started(bucket, days)
             turn(at) == Outward(bucket, used, days, window, at)
             runs(g) == g = [n \in 0 .. L |-> IF n = 0 THEN start ELSE turn(g[n - 1])]
             g == CHOOSE g : runs(g)
             how == Walking(bucket, used, days, window, start)
             some == [n \in 0 .. L |-> Folded(how, 1 .. n)]
  <1>1. ~Summing(how) /\ how.base = start
    BY DEF Walking, Summing
  <1>2. \A n, acc : Joined(how, n, acc) = turn(acc)
    BY DEF Walking, Joined, Summing
  <1>5. NearestWalk(bucket, used, days, window) = g
    BY DEF NearestWalk
  <1>l. L \in Nat
    OBVIOUS
  <1> HIDE DEF how, start, turn, L
  <1>3. /\ Folded(how, 1 .. 0) = start
        /\ \A n \in 1 .. L : Folded(how, 1 .. n) = turn(Folded(how, 1 .. n - 1))
    BY <1>1, <1>2, <1>l, FoldUp
  <1>4. runs(some)
    <2>1. \A n \in 0 .. L : n # 0 => n \in 1 .. L /\ n - 1 \in 0 .. L
      BY <1>l
    <2> QED  BY <1>3, <2>1
  <1>6. runs(g)
    BY <1>4, Zenon
  <1> HIDE DEF g
  <1>7. g[0] = start /\ \A n \in 1 .. L : g[n] = turn(g[n - 1])
    BY <1>6, <1>l
  <1> QED  BY <1>5, <1>7 DEF start, turn, L

LEMMA TakeNearestIs ==
    ASSUME NEW bucket, NEW used, NEW days, NEW window
    PROVE  LET best == NearestWalk(bucket, used, days, window)[Len(bucket)].best
           IN  TakeNearestCandidate(bucket, used, days, window)
                 = IF best = 0 THEN None ELSE bucket[best]
  BY DEF TakeNearestCandidate, NearestWalk, Started

\* A set of numbers that holds all below those it holds is an interval.
LEMMA Downward ==
    ASSUME NEW n \in Nat, NEW U \in SUBSET (1 .. n),
           \A i, j \in 1 .. n : i < j /\ j \in U => i \in U
    PROVE  /\ Cardinality(U) \in 0 .. n
           /\ \A i \in 1 .. n : i \in U <=> i <= Cardinality(U)
  <1> DEFINE T == {k \in Nat : k \in 1 .. n + 1 /\ k \notin U}
  <1>1. n + 1 \in T
    OBVIOUS
  <1>2. PICK k \in T : \A m \in T : k <= m
    BY <1>1, LeastNat
  <1> DEFINE c == k - 1
  <1>3. c \in 0 .. n
    BY <1>2
  <1>4. ASSUME NEW i \in 1 .. n PROVE i \in U <=> i <= c
    <2>1. CASE i < k
      <3>1. i \in U
        BY <1>2, <2>1
      <3> QED  BY <1>2, <2>1, <3>1
    <2>2. CASE i = k
      BY <1>2, <2>2
    <2>3. CASE k < i
      <3>1. k \in 1 .. n /\ k \notin U
        BY <1>2, <2>3
      <3> QED  BY <1>2, <2>3, <3>1
    <2> QED  BY <1>2, <2>1, <2>2, <2>3
  <1> HIDE DEF c
  <1>5. U = 1 .. c
    <2>1. \A i \in U : i \in 1 .. c
      BY <1>3, <1>4
    <2>2. \A i \in 1 .. c : i \in U
      BY <1>3, <1>4
    <2> QED  BY <2>1, <2>2
  <1>6. Cardinality(U) = c
    <2>1. c \in Nat
      BY <1>3
    <2> QED  BY <1>5, <2>1, FS_Interval
  <1> QED  BY <1>3, <1>4, <1>6

\* Postings by date.
Dated(bucket) ==
    /\ Len(bucket) \in Nat /\ DOMAIN bucket = 1 .. Len(bucket)
    /\ \A i \in 1 .. Len(bucket) : bucket[i].days \in Int
    /\ \A i, j \in 1 .. Len(bucket) : i < j => bucket[i].days <= bucket[j].days

\* Where the walk is: both sides are of their side of the date; what it has passed
\* is used, until it has found the nearest that is not.
WalkAt(bucket, used, days, window, at) ==
    LET size == Len(bucket)
        dist(i) == Distance(bucket[i], days)
    IN  /\ at.left \in 0 .. size /\ at.right \in 1 .. size + 1 /\ at.best \in 0 .. size
        /\ at.left < at.right
        /\ \A i \in 1 .. size : i <= at.left => bucket[i].days < days
        /\ \A i \in 1 .. size : i >= at.right => bucket[i].days >= days
        /\ at.best = 0 => \A i \in 1 .. size : at.left < i /\ i < at.right => bucket[i] \in used
        /\ at.best # 0 =>
             /\ bucket[at.best] \notin used /\ dist(at.best) <= window
             /\ \A i \in 1 .. size : bucket[i] \notin used => dist(at.best) <= dist(i)

Settled(bucket, used, days, window, at) ==
    \/ at.best # 0
    \/ \A i \in 1 .. Len(bucket) : bucket[i] \in used \/ Distance(bucket[i], days) > window

LEMMA WalkStarts ==
    ASSUME NEW bucket, NEW used, NEW days \in Int, NEW window \in Nat, Dated(bucket)
    PROVE  LET at == Started(bucket, days) IN
           /\ WalkAt(bucket, used, days, window, at)
           /\ at.right - at.left = 1
  <1> DEFINE n == Len(bucket)
             U == {i \in 1 .. n : bucket[i].days < days}
             low == Cardinality(U)
             at == Started(bucket, days)
  <1>1. /\ n \in Nat /\ \A i \in 1 .. n : bucket[i].days \in Int
        /\ \A i, j \in 1 .. n : i < j => bucket[i].days <= bucket[j].days
    BY DEF Dated
  <1>2. at.left = low /\ at.right = low + 1 /\ at.best = 0
    BY DEF Started
  <1>3. U \in SUBSET (1 .. n) /\ \A i, j \in 1 .. n : i < j /\ j \in U => i \in U
    BY <1>1
  <1>4. \A i \in 1 .. n : i \in U <=> bucket[i].days < days
    OBVIOUS
  <1> HIDE DEF U, n, at
  <1>5. low \in 0 .. n /\ \A i \in 1 .. n : i \in U <=> i <= low
    BY <1>1, <1>3, Downward
  <1> HIDE DEF low
  <1>6. \A i \in 1 .. n : i <= low => bucket[i].days < days
    BY <1>4, <1>5
  <1>7. \A i \in 1 .. n : i >= low + 1 => bucket[i].days >= days
    BY <1>1, <1>4, <1>5
  <1>8. at.left \in 0 .. n /\ at.right \in 1 .. n + 1 /\ at.best \in 0 .. n /\ at.left < at.right
    BY <1>1, <1>2, <1>5
  <1>9. \A i \in 1 .. n : at.left < i /\ i < at.right => FALSE
    BY <1>1, <1>2, <1>5
  <1>10. WalkAt(bucket, used, days, window, at)
    BY <1>2, <1>6, <1>7, <1>8, <1>9 DEF WalkAt, n
  <1>11. at.right - at.left = 1
    BY <1>2, <1>5
  <1> QED  BY <1>10, <1>11 DEF at

LEMMA WalkTurns ==
    ASSUME NEW bucket, NEW used, NEW days \in Int, NEW window \in Nat, Dated(bucket),
           NEW at, WalkAt(bucket, used, days, window, at)
    PROVE  LET next == Outward(bucket, used, days, window, at) IN
           /\ WalkAt(bucket, used, days, window, next)
           /\ Settled(bucket, used, days, window, at) => Settled(bucket, used, days, window, next)
           /\ \/ Settled(bucket, used, days, window, next)
              \/ next.right - next.left = at.right - at.left + 1
  <1> DEFINE size == Len(bucket)
             dist(i) == Distance(bucket[i], days)
             next == Outward(bucket, used, days, window, at)
             goLeft == /\ at.left > 0
                       /\ at.right > size \/ dist(at.left) <= dist(at.right)
             here == IF goLeft THEN at.left ELSE at.right
             reach == IF at.best = 0 THEN window + 1 ELSE dist(at.best)
             stops == (at.left = 0 /\ at.right > size) \/ dist(here) >= reach
             on == [left |-> IF goLeft THEN at.left - 1 ELSE at.left,
                    right |-> IF goLeft THEN at.right ELSE at.right + 1,
                    best |-> IF bucket[here] \in used THEN at.best ELSE here]
             free(i) == bucket[i] \notin used
  <1>1. next = IF stops THEN at ELSE on
    BY DEF Outward
  <1>2. /\ size \in Nat /\ \A i \in 1 .. size : bucket[i].days \in Int
        /\ \A i, j \in 1 .. size : i < j => bucket[i].days <= bucket[j].days
    BY DEF Dated
  <1>3. \A i \in 1 .. size : /\ dist(i) \in Nat
                             /\ bucket[i].days < days => dist(i) = days - bucket[i].days
                             /\ bucket[i].days >= days => dist(i) = bucket[i].days - days
    BY <1>2 DEF Distance
  <1>4. /\ at.left \in 0 .. size /\ at.right \in 1 .. size + 1 /\ at.best \in 0 .. size
        /\ at.left < at.right
        /\ \A i \in 1 .. size : i <= at.left => bucket[i].days < days
        /\ \A i \in 1 .. size : i >= at.right => bucket[i].days >= days
        /\ at.best = 0 => \A i \in 1 .. size : at.left < i /\ i < at.right => ~free(i)
        /\ at.best # 0 => /\ free(at.best) /\ dist(at.best) <= window
                          /\ \A i \in 1 .. size : free(i) => dist(at.best) <= dist(i)
    BY DEF WalkAt
  <1> HIDE DEF dist, size, free, next
  <1>5. \A i, j \in 1 .. size : i < j /\ j <= at.left => dist(j) <= dist(i)
    <2> TAKE i, j \in 1 .. size
    <2> SUFFICES ASSUME i < j, j <= at.left PROVE dist(j) <= dist(i)
      OBVIOUS
    <2>1. /\ i <= at.left /\ bucket[i].days < days /\ bucket[j].days < days
          /\ bucket[i].days <= bucket[j].days /\ bucket[i].days \in Int /\ bucket[j].days \in Int
      BY <1>2, <1>4
    <2> QED  BY <1>3, <2>1
  <1>6. \A i, j \in 1 .. size : i < j /\ i >= at.right => dist(i) <= dist(j)
    <2> TAKE i, j \in 1 .. size
    <2> SUFFICES ASSUME i < j, i >= at.right PROVE dist(i) <= dist(j)
      OBVIOUS
    <2>1. /\ j >= at.right /\ bucket[i].days >= days /\ bucket[j].days >= days
          /\ bucket[i].days <= bucket[j].days /\ bucket[i].days \in Int /\ bucket[j].days \in Int
      BY <1>2, <1>4
    <2> QED  BY <1>3, <2>1
  <1>7. CASE at.left = 0 /\ at.right > size
    <2>1. next = at
      BY <1>1, <1>7
    <2>2. Settled(bucket, used, days, window, at)
      <3>1. at.best = 0 => \A i \in 1 .. size : ~free(i)
        BY <1>2, <1>4, <1>7
      <3> QED  BY <3>1 DEF Settled, free, size
    <2> QED  BY <2>1, <2>2 DEF next
  <1>8. CASE ~(at.left = 0 /\ at.right > size)
    <2>1. here \in 1 .. size
      BY <1>2, <1>4, <1>8
    <2>2. \A i \in 1 .. size : i <= at.left \/ i >= at.right => dist(here) <= dist(i)
      <3>1. CASE goLeft
        <4>1. here = at.left
          BY <3>1
        <4> SUFFICES ASSUME NEW i \in 1 .. size, i <= at.left \/ i >= at.right
                     PROVE dist(at.left) <= dist(i)
          BY <4>1
        <4>2. at.left \in 1 .. size
          BY <2>1, <4>1
        <4>3. CASE i <= at.left
          BY <1>2, <1>3, <1>4, <1>5, <4>2, <4>3
        <4>4. CASE i >= at.right
          <5>1. at.right \in 1 .. size /\ dist(at.left) <= dist(at.right)
            BY <1>2, <1>4, <3>1, <4>4
          <5>2. dist(at.right) <= dist(i)
            BY <1>2, <1>3, <1>6, <4>4, <5>1
          <5> QED  BY <1>3, <4>2, <5>1, <5>2
        <4> QED  BY <4>3, <4>4
      <3>2. CASE ~goLeft
        <4>1. here = at.right
          BY <3>2
        <4> SUFFICES ASSUME NEW i \in 1 .. size, i <= at.left \/ i >= at.right
                     PROVE dist(at.right) <= dist(i)
          BY <4>1
        <4>2. at.right \in 1 .. size
          BY <2>1, <4>1
        <4>3. CASE i >= at.right
          BY <1>2, <1>3, <1>4, <1>6, <4>2, <4>3
        <4>4. CASE i <= at.left
          <5>1. at.left \in 1 .. size /\ dist(at.right) <= dist(at.left)
            <6>1. at.left \in 1 .. size /\ ~(at.right > size) /\ ~(dist(at.left) <= dist(at.right))
              BY <1>2, <1>4, <3>2, <4>2, <4>4
            <6> QED  BY <1>3, <4>2, <6>1
          <5>2. dist(at.left) <= dist(i)
            BY <1>2, <1>3, <1>5, <4>4, <5>1
          <5> QED  BY <1>3, <4>2, <5>1, <5>2
        <4> QED  BY <4>3, <4>4
      <3> QED  BY <3>1, <3>2
    <2>3. reach \in Nat /\ reach <= window + 1
      BY <1>3, <1>4
    <2>4. CASE dist(here) >= reach
      <3>1. next = at
        BY <1>1, <2>4
      <3>2. Settled(bucket, used, days, window, at)
        <4> SUFFICES ASSUME at.best = 0, NEW i \in 1 .. size PROVE ~free(i) \/ dist(i) > window
          BY DEF Settled, free, size, dist
        <4>1. CASE at.left < i /\ i < at.right
          BY <1>4, <4>1
        <4>2. CASE i <= at.left \/ i >= at.right
          BY <1>3, <2>1, <2>2, <2>4, <4>2
        <4> QED  BY <1>4, <4>1, <4>2
      <3> QED  BY <3>1, <3>2 DEF next
    <2>5. CASE ~(dist(here) >= reach)
      <3>1. next = on /\ dist(here) < reach
        BY <1>1, <1>3, <1>8, <2>1, <2>3, <2>5
      <3>2. /\ on.left \in 0 .. size /\ on.right \in 1 .. size + 1 /\ on.left < on.right
            /\ on.left <= at.left /\ on.right >= at.right
            /\ \A i \in 1 .. size : on.left < i /\ i < on.right
                 => i = here \/ (at.left < i /\ i < at.right)
            /\ on.right - on.left = at.right - at.left + 1
        BY <1>2, <1>4, <1>8
      <3>3. on.best = IF free(here) THEN here ELSE at.best
        BY DEF free
      <3> HIDE DEF on, here, reach, goLeft
      <3>4. on.best \in 0 .. size
        BY <1>4, <2>1, <3>3
      <3>5. /\ \A i \in 1 .. size : i <= on.left => bucket[i].days < days
            /\ \A i \in 1 .. size : i >= on.right => bucket[i].days >= days
        BY <1>4, <3>2
      <3>6. ASSUME on.best = 0, NEW i \in 1 .. size, on.left < i, i < on.right PROVE ~free(i)
        <4>1. at.best = 0 /\ ~free(here)
          BY <2>1, <3>3, <3>6
        <4> QED  BY <1>4, <3>2, <3>6, <4>1
      <3>7. ASSUME free(here)
            PROVE  /\ dist(here) <= window
                   /\ \A i \in 1 .. size : free(i) => dist(here) <= dist(i)
        <4>1. at.best = 0
          <5>1. CASE at.best # 0
            <6>1. reach = dist(at.best) /\ dist(at.best) <= dist(here)
              BY <1>4, <2>1, <3>7, <5>1 DEF reach
            <6> QED  BY <1>3, <1>4, <2>1, <3>1, <5>1, <6>1
          <5> QED  BY <5>1
        <4>2. reach = window + 1
          BY <4>1 DEF reach
        <4>3. dist(here) <= window
          BY <1>3, <2>1, <3>1, <4>2
        <4>4. \A i \in 1 .. size : free(i) => i <= at.left \/ i >= at.right
          BY <1>4, <4>1
        <4> QED  BY <2>2, <4>3, <4>4
      <3>8. on.best # 0 => /\ free(on.best) /\ dist(on.best) <= window
                           /\ \A i \in 1 .. size : free(i) => dist(on.best) <= dist(i)
        BY <1>4, <3>3, <3>7
      <3>9. WalkAt(bucket, used, days, window, on)
        BY <3>2, <3>4, <3>5, <3>6, <3>8 DEF WalkAt, size, dist, free
      <3>10. Settled(bucket, used, days, window, at) => Settled(bucket, used, days, window, on)
        <4>1. at.best # 0 => on.best # 0
          BY <2>1, <3>3
        <4> QED  BY <4>1 DEF Settled
      <3> QED  BY <3>1, <3>2, <3>9, <3>10 DEF next
    <2> QED  BY <2>4, <2>5
  <1> QED  BY <1>7, <1>8

\* The posting taken is free, in the window and nearest of the free ones; when there
\* is none, none in the window is free.
LEMMA NearestTaken ==
    ASSUME NEW bucket, NEW used, NEW days \in Int, NEW window \in Nat, Dated(bucket),
           \A i \in DOMAIN bucket : bucket[i] # None
    PROVE  LET posting == TakeNearestCandidate(bucket, used, days, window) IN
           /\ posting = None =>
                \A i \in DOMAIN bucket : bucket[i] \in used \/ Distance(bucket[i], days) > window
           /\ posting # None =>
                /\ posting \in Range(bucket) /\ posting \notin used
                /\ Distance(posting, days) <= window
                /\ \A i \in DOMAIN bucket :
                     bucket[i] \notin used => Distance(posting, days) <= Distance(bucket[i], days)
  <1> DEFINE n == Len(bucket)
             walk == NearestWalk(bucket, used, days, window)
             fits(k) == /\ WalkAt(bucket, used, days, window, walk[k])
                        /\ \/ Settled(bucket, used, days, window, walk[k])
                           \/ walk[k].right - walk[k].left = k + 1
             T == {k \in 0 .. n : fits(k)}
             best == walk[n].best
  <1>1. n \in Nat /\ DOMAIN bucket = 1 .. n
    BY DEF Dated
  <1>2. /\ walk[0] = Started(bucket, days)
        /\ \A k \in 1 .. n : walk[k] = Outward(bucket, used, days, window, walk[k - 1])
    BY <1>1, NearestWalkIs
  <1> HIDE DEF walk
  <1>3. 0 \in T
    <2>1. fits(0)
      BY <1>2, WalkStarts
    <2> HIDE DEF fits, n
    <2> QED  BY <1>1, <2>1
  <1>4. ASSUME NEW k \in 1 .. n, k - 1 \in T PROVE k \in T
    <2> DEFINE at == walk[k - 1]
               next == walk[k]
    <2>1. fits(k - 1) /\ next = Outward(bucket, used, days, window, at)
      BY <1>2, <1>4
    <2>2. /\ WalkAt(bucket, used, days, window, next)
          /\ Settled(bucket, used, days, window, at) => Settled(bucket, used, days, window, next)
          /\ \/ Settled(bucket, used, days, window, next)
             \/ next.right - next.left = at.right - at.left + 1
      BY <2>1, WalkTurns
    <2>3. fits(k)
      BY <1>1, <2>1, <2>2
    <2> HIDE DEF fits, n
    <2> QED  BY <1>1, <2>3
  <1>a. \A k \in 1 .. n : k - 1 \in T => k \in T
    BY <1>4
  <1> HIDE DEF T
  <1>b. \A k \in 0 .. n : k \in T
    <2> HIDE DEF n
    <2> QED  BY <1>1, <1>3, <1>a, Counting
  <1>5. fits(n)
    <2>1. n \in T
      BY <1>1, <1>b
    <2> QED  BY <2>1 DEF T
  <1>6. Settled(bucket, used, days, window, walk[n])
    <2>1. CASE walk[n].right - walk[n].left = n + 1
      <3>1. /\ walk[n].left = 0 /\ walk[n].right = n + 1
            /\ walk[n].best = 0 => \A i \in 1 .. n : walk[n].left < i /\ i < walk[n].right
                                                       => bucket[i] \in used
        BY <1>1, <1>5, <2>1 DEF WalkAt
      <3> QED  BY <1>1, <3>1 DEF Settled
    <2> QED  BY <1>5, <2>1
  <1>7. TakeNearestCandidate(bucket, used, days, window) = IF best = 0 THEN None ELSE bucket[best]
    BY TakeNearestIs DEF walk
  <1>8. CASE best = 0
    <2>1. \A i \in 1 .. n : bucket[i] \in used \/ Distance(bucket[i], days) > window
      BY <1>6, <1>8 DEF Settled
    <2> QED  BY <1>1, <1>7, <1>8, <2>1
  <1>9. CASE best # 0
    <2>1. /\ best \in 1 .. n /\ bucket[best] \notin used /\ Distance(bucket[best], days) <= window
          /\ \A i \in 1 .. n : bucket[i] \notin used
                => Distance(bucket[best], days) <= Distance(bucket[i], days)
      BY <1>1, <1>5, <1>9 DEF WalkAt
    <2>2. bucket[best] # None /\ bucket[best] \in Range(bucket)
      BY <1>1, <2>1 DEF Range
    <2> QED  BY <1>1, <1>7, <1>9, <2>1, <2>2
  <1> QED  BY <1>8, <1>9

-----------------------------------------------------------------------------
(* The search for a group *)

\* The node that an extension of what is chosen enters.
Entered(eligible, amount, opts, visit, at) ==
    LET bound == SuffixSumBounds(eligible, opts.group)
        group == Append(at.chosen, eligible[at.i])
        entered == at.explored + 1
    IN  IF at.explored = opts.combinations
        THEN [group |-> <<>>, explored |-> entered]
        ELSE IF Len(group) >= 2 /\ GroupAmount(group) = amount
        THEN [group |-> group, explored |-> entered]
        ELSE IF \/ Len(group) = opts.group
                \/ Hopeless(bound, opts, amount, group, at.i + 1)
        THEN [group |-> <<>>, explored |-> entered]
        ELSE visit[[chosen |-> group, i |-> at.i + 1, explored |-> entered]]

\* The loop over what may extend it.
Visited(eligible, amount, opts, visit, at) ==
    IF at.i > Len(eligible) THEN [group |-> <<>>, explored |-> at.explored]
    ELSE LET inner == Entered(eligible, amount, opts, visit, at)
         IN  IF inner.group # <<>> \/ inner.explored > opts.combinations THEN inner
             ELSE visit[[chosen |-> at.chosen, i |-> at.i + 1, explored |-> inner.explored]]

Nodes(eligible) ==
    [chosen : Seq(Range(eligible)), i : 1 .. Len(eligible) + 1, explored : Nat]

Results(eligible) == [group : Seq(Range(eligible)), explored : Nat]

Search(eligible, amount, opts) ==
    LET visit[at \in Nodes(eligible)] == Visited(eligible, amount, opts, visit, at)
    IN  visit

LEMMA SearchGroupIs ==
    ASSUME NEW eligible, NEW amount, NEW opts
    PROVE  \/ SearchGroup(eligible, amount, opts) = <<>>
           \/ SearchGroup(eligible, amount, opts)
                = Search(eligible, amount, opts)
                    [[chosen |-> <<>>, i |-> 1, explored |-> 0]].group
  BY DEF SearchGroup, Search, Nodes, Visited, Entered

\* What is chosen comes from the postings already passed, each once.
Ahead(eligible, at) ==
    /\ \A i, j \in DOMAIN at.chosen : at.chosen[i] = at.chosen[j] => i = j
    /\ \A i \in DOMAIN at.chosen : \E j \in 1 .. at.i - 1 : at.chosen[i] = eligible[j]

\* A group that is found adds up and has no posting twice.
Adds(amount, group) ==
    /\ Len(group) >= 2 /\ GroupAmount(group) = amount
    /\ \A i, j \in DOMAIN group : group[i] = group[j] => i = j

Sound(eligible, amount, at, result) ==
    Ahead(eligible, at) /\ result.group # <<>> => Adds(amount, result.group)

LEMMA VisitedOnce ==
    ASSUME NEW S, NEW eligible \in Seq(S), NEW amount, NEW opts,
           \A i, j \in DOMAIN eligible : eligible[i] = eligible[j] => i = j,
           NEW at \in Nodes(eligible), NEW visit, NEW other,
           \A b \in Nodes(eligible) : b.i = at.i + 1 =>
             /\ visit[b] = other[b] /\ other[b] \in Results(eligible)
             /\ Sound(eligible, amount, b, other[b])
    PROVE  LET result == Visited(eligible, amount, opts, other, at) IN
           /\ Visited(eligible, amount, opts, visit, at) = result
           /\ result \in Results(eligible)
           /\ Sound(eligible, amount, at, result)
  <1> DEFINE size == Len(eligible)
             R == Range(eligible)
             result == Visited(eligible, amount, opts, other, at)
  <1>1. size \in Nat /\ DOMAIN eligible = 1 .. size
    OBVIOUS
  <1>2. /\ at.chosen \in Seq(R) /\ at.i \in 1 .. size + 1 /\ at.explored \in Nat
    BY DEF Nodes
  <1>e. <<>> \in Seq(R)
    OBVIOUS
  <1>3. CASE at.i > size
    <2>1. /\ result = [group |-> <<>>, explored |-> at.explored]
          /\ Visited(eligible, amount, opts, visit, at) = result
      BY <1>3 DEF Visited
    <2>2. result \in Results(eligible)
      BY <1>2, <1>e, <2>1 DEF Results
    <2> QED  BY <2>1, <2>2 DEF Sound
  <1>4. CASE ~(at.i > size)
    <2> DEFINE group == Append(at.chosen, eligible[at.i])
               down == [chosen |-> group, i |-> at.i + 1, explored |-> at.explored + 1]
               inner == Entered(eligible, amount, opts, other, at)
               along == [chosen |-> at.chosen, i |-> at.i + 1, explored |-> inner.explored]
    <2>1. at.i \in 1 .. size /\ eligible[at.i] \in R /\ at.i + 1 \in 1 .. size + 1
      BY <1>1, <1>2, <1>4 DEF Range
    <2>2. group \in Seq(R)
      BY <1>2, <2>1
    <2>3. down \in Nodes(eligible)
      <3>1. at.explored + 1 \in Nat
        BY <1>2
      <3> HIDE DEF group
      <3> QED  BY <2>1, <2>2, <3>1 DEF Nodes
    <2>4. visit[down] = other[down] /\ other[down] \in Results(eligible)
          /\ Sound(eligible, amount, down, other[down])
      <3>1. down.i = at.i + 1
        OBVIOUS
      <3> HIDE DEF down
      <3> QED  BY <2>3, <3>1
    <2>5. Ahead(eligible, at) => Ahead(eligible, down)
      <3> SUFFICES ASSUME Ahead(eligible, at) PROVE Ahead(eligible, down)
        OBVIOUS
      <3> DEFINE n == Len(at.chosen)
      <3>1. n \in Nat /\ DOMAIN at.chosen = 1 .. n
        BY <1>2
      <3>2. /\ DOMAIN group = 1 .. n + 1 /\ group[n + 1] = eligible[at.i]
            /\ \A i \in 1 .. n : group[i] = at.chosen[i]
        BY <1>2, <2>1
      <3>3. /\ \A i, j \in 1 .. n : at.chosen[i] = at.chosen[j] => i = j
            /\ \A i \in 1 .. n : \E j \in 1 .. at.i - 1 : at.chosen[i] = eligible[j]
        BY <3>1 DEF Ahead
      <3>4. \A i \in 1 .. n : at.chosen[i] # eligible[at.i]
        <4> TAKE i \in 1 .. n
        <4>1. PICK j \in 1 .. at.i - 1 : at.chosen[i] = eligible[j]
          BY <3>3
        <4>2. j \in 1 .. size /\ j # at.i
          BY <1>1, <2>1
        <4> QED  BY <1>1, <2>1, <4>1, <4>2
      <3> HIDE DEF n, group
      <3>5. ASSUME NEW i \in 1 .. n + 1, NEW j \in 1 .. n + 1, group[i] = group[j]
            PROVE i = j
        <4>1. (i \in 1 .. n \/ i = n + 1) /\ (j \in 1 .. n \/ j = n + 1)
          BY <3>1
        <4> QED  BY <3>2, <3>3, <3>4, <3>5, <4>1
      <3>6. ASSUME NEW i \in 1 .. n + 1 PROVE \E j \in 1 .. at.i : group[i] = eligible[j]
        <4>1. i \in 1 .. n \/ i = n + 1
          BY <3>1
        <4>2. CASE i \in 1 .. n
          <5>1. PICK j \in 1 .. at.i - 1 : at.chosen[i] = eligible[j]
            BY <3>3, <4>2
          <5>2. j \in 1 .. at.i
            BY <2>1
          <5> QED  BY <3>2, <4>2, <5>1, <5>2
        <4>3. CASE i = n + 1
          <5>1. at.i \in 1 .. at.i
            BY <2>1
          <5> QED  BY <3>2, <4>3, <5>1
        <4> QED  BY <4>1, <4>2, <4>3
      <3>7. down.chosen = group /\ (at.i + 1) - 1 = at.i /\ down.i = at.i + 1
        BY <2>1
      <3> HIDE DEF down
      <3> QED  BY <3>2, <3>5, <3>6, <3>7 DEF Ahead
    <2>6. /\ Entered(eligible, amount, opts, visit, at) = inner
          /\ inner \in Results(eligible)
          /\ Sound(eligible, amount, at, inner)
      <3> DEFINE none == [group |-> <<>>, explored |-> at.explored + 1]
                 full == [group |-> group, explored |-> at.explored + 1]
      <3>0. at.explored + 1 \in Nat
        BY <1>2
      <3>1. none \in Results(eligible) /\ Sound(eligible, amount, at, none)
        BY <1>e, <3>0 DEF Results, Sound
      <3>2. ASSUME Len(group) >= 2, GroupAmount(group) = amount
            PROVE  full \in Results(eligible) /\ Sound(eligible, amount, at, full)
        <4>1. full \in Results(eligible)
          <5> HIDE DEF group
          <5> QED  BY <2>2, <3>0 DEF Results
        <4>2. Ahead(eligible, at) => Adds(amount, group)
          <5>1. down.chosen = group
            OBVIOUS
          <5> HIDE DEF group, down
          <5> QED  BY <2>5, <3>2, <5>1 DEF Ahead, Adds
        <4> HIDE DEF group
        <4> QED  BY <4>1, <4>2 DEF Sound
      <3>3. Sound(eligible, amount, at, other[down])
        BY <2>4, <2>5 DEF Sound
      <3>4. \/ inner = none /\ Entered(eligible, amount, opts, visit, at) = none
            \/ /\ inner = full /\ Entered(eligible, amount, opts, visit, at) = full
               /\ Len(group) >= 2 /\ GroupAmount(group) = amount
            \/ inner = other[down] /\ Entered(eligible, amount, opts, visit, at) = visit[down]
        BY DEF Entered
      <3> HIDE DEF none, full, inner, down, group
      <3> QED  BY <2>4, <3>1, <3>2, <3>3, <3>4
    <2> HIDE DEF inner, group, down
    <2>7. inner.explored \in Nat
      BY <2>6 DEF Results
    <2>8. along \in Nodes(eligible)
      BY <1>2, <2>1, <2>7 DEF Nodes
    <2>9. visit[along] = other[along] /\ other[along] \in Results(eligible)
          /\ Sound(eligible, amount, along, other[along])
      <3>1. along.i = at.i + 1
        OBVIOUS
      <3> HIDE DEF along
      <3> QED  BY <2>8, <3>1
    <2>10. Ahead(eligible, at) => Ahead(eligible, along)
      <3>1. along.chosen = at.chosen /\ along.i = at.i + 1
        OBVIOUS
      <3>2. \A j \in 1 .. at.i - 1 : j \in 1 .. (at.i + 1) - 1
        BY <2>1
      <3> HIDE DEF along
      <3> QED  BY <3>1, <3>2 DEF Ahead
    <2>11. Sound(eligible, amount, at, other[along])
      BY <2>9, <2>10 DEF Sound
    <2>12. \/ result = inner /\ Visited(eligible, amount, opts, visit, at) = inner
           \/ result = other[along] /\ Visited(eligible, amount, opts, visit, at) = visit[along]
      BY <1>4, <2>6 DEF Visited, inner
    <2> HIDE DEF along, result
    <2> QED  BY <2>6, <2>9, <2>11, <2>12 DEF result
  <1> QED  BY <1>3, <1>4

\* The nodes of the last postings.
Lasts(eligible, n) == {at \in Nodes(eligible) : at.i + n > Len(eligible)}

LEMMA SearchIs ==
    ASSUME NEW S, NEW eligible \in Seq(S), NEW amount, NEW opts,
           \A i, j \in DOMAIN eligible : eligible[i] = eligible[j] => i = j
    PROVE  LET visit == Search(eligible, amount, opts) IN
           \A at \in Nodes(eligible) :
             /\ visit[at] \in Results(eligible) /\ Sound(eligible, amount, at, visit[at])
             /\ visit[at] = Visited(eligible, amount, opts, visit, at)
  <1> DEFINE L == Len(eligible)
             turn(v, at) == Visited(eligible, amount, opts, v, at)
             good(at, result) == result \in Results(eligible) /\ Sound(eligible, amount, at, result)
             fits(n, v) == /\ v = [at \in Lasts(eligible, n) |-> turn(v, at)]
                           /\ \A at \in Lasts(eligible, n) : good(at, v[at])
             T == {n \in 0 .. L : \E v : fits(n, v)}
  <1>1. L \in Nat
    OBVIOUS
  <1>2. ASSUME NEW n \in Nat
        PROVE \A at \in Lasts(eligible, n + 1) : \A b \in Nodes(eligible) :
                b.i = at.i + 1 => b \in Lasts(eligible, n)
    <2> TAKE at \in Lasts(eligible, n + 1)
    <2> TAKE b \in Nodes(eligible)
    <2>1. at.i \in Int /\ at.i + (n + 1) > L
      BY DEF Lasts, Nodes
    <2> QED  BY <1>1, <2>1 DEF Lasts
  <1>3. \A at \in Lasts(eligible, 0) : at \in Nodes(eligible)
                                     /\ \A b \in Nodes(eligible) : b.i # at.i + 1
    BY <1>1 DEF Lasts, Nodes
  <1>4. ASSUME NEW at \in Nodes(eligible), NEW v, NEW w,
               \A b \in Nodes(eligible) : b.i = at.i + 1 => v[b] = w[b] /\ good(b, w[b])
        PROVE  turn(v, at) = turn(w, at) /\ good(at, turn(w, at))
    BY <1>4, VisitedOnce
  <1> HIDE DEF turn, good, L
  <1>5. 0 \in T
    <2> DEFINE v == [at \in Lasts(eligible, 0) |-> turn(<<>>, at)]
    <2>1. \A at \in Lasts(eligible, 0) :
            turn(<<>>, at) = turn(v, at) /\ good(at, turn(v, at)) /\ v[at] = turn(<<>>, at)
      <3> TAKE at \in Lasts(eligible, 0)
      <3>1. v[at] = turn(<<>>, at)
        OBVIOUS
      <3> HIDE DEF v
      <3> QED  BY <1>3, <1>4, <3>1
    <2>2. fits(0, v)
      <3> DEFINE u == [at \in Lasts(eligible, 0) |-> turn(v, at)]
      <3>1. v = u
        <4>1. \A at \in Lasts(eligible, 0) : v[at] = u[at]
          BY <2>1
        <4> QED  BY <4>1
      <3>2. \A at \in Lasts(eligible, 0) : good(at, v[at])
        BY <2>1
      <3> QED  BY <3>1, <3>2
    <2>3. 0 \in 0 .. L
      BY <1>1
    <2> HIDE DEF fits, v
    <2> QED  BY <2>2, <2>3
  <1>6. ASSUME NEW n \in 1 .. L, n - 1 \in T PROVE n \in T
    <2>1. PICK g : fits(n - 1, g)
      BY <1>6
    <2> DEFINE v == [at \in Lasts(eligible, n) |-> turn(g, at)]
    <2>2. n - 1 \in Nat /\ (n - 1) + 1 = n
      OBVIOUS
    <2>3. \A at \in Lasts(eligible, n) : \A b \in Nodes(eligible) :
            b.i = at.i + 1 => b \in Lasts(eligible, n - 1)
      BY <1>2, <2>2
    <2>4. \A at \in Lasts(eligible, n) : at \in Nodes(eligible)
      BY DEF Lasts
    <2>5. \A at \in Lasts(eligible, n - 1) :
            at \in Lasts(eligible, n) /\ g[at] = turn(g, at) /\ good(at, g[at])
      <3>1. \A at \in Lasts(eligible, n - 1) : at \in Lasts(eligible, n)
        <4> TAKE at \in Lasts(eligible, n - 1)
        <4>1. at.i \in Int /\ at.i + (n - 1) > L
          BY DEF Lasts, Nodes, L
        <4> QED  BY <1>1, <4>1 DEF Lasts, L
      <3> QED  BY <2>1, <3>1
    <2>6. \A at \in Lasts(eligible, n - 1) : v[at] = g[at]
      BY <2>5
    <2>7. \A at \in Lasts(eligible, n) : turn(v, at) = turn(g, at) /\ good(at, turn(g, at))
      <3> TAKE at \in Lasts(eligible, n)
      <3>1. \A b \in Nodes(eligible) : b.i = at.i + 1 => v[b] = g[b] /\ good(b, g[b])
        BY <2>3, <2>5, <2>6
      <3> HIDE DEF v
      <3> QED  BY <1>4, <2>4, <3>1
    <2>8. fits(n, v)
      <3> DEFINE u == [at \in Lasts(eligible, n) |-> turn(v, at)]
      <3>1. v = u
        <4>1. \A at \in Lasts(eligible, n) : v[at] = u[at]
          BY <2>7
        <4> QED  BY <4>1
      <3>2. \A at \in Lasts(eligible, n) : good(at, v[at])
        BY <2>7
      <3> QED  BY <3>1, <3>2
    <2>9. n \in 0 .. L
      BY <1>1
    <2> HIDE DEF fits, v
    <2> QED  BY <2>8, <2>9
  <1>a. \A n \in 1 .. L : n - 1 \in T => n \in T
    BY <1>6
  <1> HIDE DEF T
  <1>b. \A n \in 0 .. L : n \in T
    BY <1>1, <1>5, <1>a, Counting
  <1>7. L \in T
    BY <1>1, <1>b
  <1>8. Lasts(eligible, L) = Nodes(eligible)
    <2>1. \A at \in Nodes(eligible) : at.i \in Int /\ at.i >= 1
      BY DEF Nodes
    <2> QED  BY <1>1, <2>1 DEF Lasts, L
  <1>9. \E v : fits(L, v)
    BY <1>7 DEF T
  <1> DEFINE runs(v) == v = [at \in Nodes(eligible) |-> turn(v, at)]
             found == CHOOSE v : runs(v)
  <1>10. \E v : runs(v)
    BY <1>8, <1>9
  <1>11. runs(found)
    BY <1>10, Zenon
  <1>12. Search(eligible, amount, opts) = found
    BY DEF Search, turn
  <1> HIDE DEF found
  \* and so for the one that is taken
  <1> DEFINE U == {n \in 0 .. L : \A at \in Lasts(eligible, n) : good(at, found[at])}
  <1>13. \A at \in Nodes(eligible) : found[at] = turn(found, at)
    BY <1>11
  <1>14. 0 \in U
    <2>1. \A at \in Lasts(eligible, 0) : good(at, found[at])
      BY <1>3, <1>4, <1>13
    <2> QED  BY <1>1, <2>1
  <1>15. ASSUME NEW n \in 1 .. L, n - 1 \in U PROVE n \in U
    <2>1. n - 1 \in Nat /\ (n - 1) + 1 = n
      OBVIOUS
    <2>2. \A at \in Lasts(eligible, n) : \A b \in Nodes(eligible) :
            b.i = at.i + 1 => b \in Lasts(eligible, n - 1)
      BY <1>2, <2>1
    <2>3. \A at \in Lasts(eligible, n) : at \in Nodes(eligible)
      BY DEF Lasts
    <2>4. \A at \in Lasts(eligible, n - 1) : good(at, found[at])
      BY <1>15
    <2>5. \A at \in Lasts(eligible, n) : good(at, found[at])
      BY <1>4, <1>13, <2>2, <2>3, <2>4
    <2> QED  BY <1>1, <2>5
  <1>c. \A n \in 1 .. L : n - 1 \in U => n \in U
    BY <1>15
  <1> HIDE DEF U
  <1>d. \A n \in 0 .. L : n \in U
    BY <1>1, <1>14, <1>c, Counting
  <1>16. L \in U
    BY <1>1, <1>d
  <1> QED  BY <1>8, <1>12, <1>13, <1>16 DEF U, good, turn

\* The group that is found is of the eligible postings, each once, and adds up.
LEMMA GroupFound ==
    ASSUME NEW S, NEW eligible \in Seq(S), NEW amount, NEW opts,
           \A i, j \in DOMAIN eligible : eligible[i] = eligible[j] => i = j
    PROVE  LET group == SearchGroup(eligible, amount, opts) IN
           /\ group \in Seq(Range(eligible))
           /\ group # <<>> => Adds(amount, group)
  <1> DEFINE start == [chosen |-> <<>>, i |-> 1, explored |-> 0]
             result == Search(eligible, amount, opts)[start]
  <1>1. start \in Nodes(eligible)
    <2>1. Len(eligible) \in Nat
      OBVIOUS
    <2> QED  BY <2>1 DEF Nodes
  <1>2. Ahead(eligible, start)
    BY DEF Ahead
  <1>3. result \in Results(eligible) /\ Sound(eligible, amount, start, result)
    <2> HIDE DEF start
    <2> QED  BY <1>1, SearchIs
  <1>4. result.group \in Seq(Range(eligible)) /\ (result.group # <<>> => Adds(amount, result.group))
    BY <1>2, <1>3 DEF Results, Sound
  <1>5. \/ SearchGroup(eligible, amount, opts) = <<>>
        \/ SearchGroup(eligible, amount, opts) = result.group
    BY SearchGroupIs
  <1>6. <<>> \in Seq(Range(eligible))
    OBVIOUS
  <1> HIDE DEF result
  <1> DEFINE group == SearchGroup(eligible, amount, opts)
  <1>7. group = <<>> \/ group = result.group
    BY <1>5
  <1> HIDE DEF group
  <1>8. group \in Seq(Range(eligible)) /\ (group # <<>> => Adds(amount, group))
    BY <1>4, <1>6, <1>7
  <1> QED  BY <1>8 DEF group

-----------------------------------------------------------------------------
(* What the search for a group misses *)

\* The postings from one on.
Onward(eligible, i) == {eligible[j] : j \in i .. Len(eligible)}

\* A posting is none of those that follow it.
LEMMA OnwardFirst ==
    ASSUME NEW S, NEW eligible \in Seq(S),
           \A i, j \in DOMAIN eligible : eligible[i] = eligible[j] => i = j
    PROVE  /\ Onward(eligible, 1) = Range(eligible)
           /\ Onward(eligible, Len(eligible) + 1) = {}
           /\ \A i \in 1 .. Len(eligible) + 1 : Onward(eligible, i) \subseteq Range(eligible)
           /\ \A i \in 1 .. Len(eligible) :
                /\ eligible[i] \in Range(eligible) /\ eligible[i] \notin Onward(eligible, i + 1)
                /\ Onward(eligible, i) = Onward(eligible, i + 1) \cup {eligible[i]}
  <1> DEFINE L == Len(eligible)
  <1>1. L \in Nat /\ DOMAIN eligible = 1 .. L
    OBVIOUS
  <1> HIDE DEF L
  <1>2. \A i : Onward(eligible, i) = {eligible[j] : j \in i .. L}
    BY DEF Onward, L
  <1>3. Onward(eligible, 1) = Range(eligible) /\ Onward(eligible, L + 1) = {}
    <2>1. (L + 1) .. L = {}
      BY <1>1
    <2> QED  BY <1>1, <1>2, <2>1 DEF Range
  <1>4. \A i \in 1 .. L + 1 : Onward(eligible, i) \subseteq Range(eligible)
    <2> TAKE i \in 1 .. L + 1
    <2>1. \A j \in i .. L : j \in 1 .. L
      BY <1>1
    <2> QED  BY <1>1, <1>2, <2>1 DEF Range
  <1>5. ASSUME NEW i \in 1 .. L
        PROVE  /\ eligible[i] \in Range(eligible) /\ eligible[i] \notin Onward(eligible, i + 1)
               /\ Onward(eligible, i) = Onward(eligible, i + 1) \cup {eligible[i]}
    <2>1. eligible[i] \in Range(eligible)
      BY <1>1 DEF Range
    <2>2. \A j \in i + 1 .. L : j \in i .. L /\ j \in 1 .. L /\ j # i
      BY <1>1
    <2>3. \A j \in i .. L : j = i \/ j \in i + 1 .. L
      BY <1>1
    <2>4. i \in i .. L
      BY <1>1
    <2>5. eligible[i] \notin Onward(eligible, i + 1)
      BY <1>1, <1>2, <2>2
    <2>6. Onward(eligible, i) = Onward(eligible, i + 1) \cup {eligible[i]}
      BY <1>2, <2>2, <2>3, <2>4
    <2> QED  BY <2>1, <2>5, <2>6
  <1> QED  BY <1>3, <1>4, <1>5 DEF L

\* The rows of the bounds, from that of the next posting.
BoundRow(eligible, maxGroup, bound, i) ==
    [r \in 0 .. maxGroup |->
       IF r = 0 \/ i > Len(eligible) THEN [high |-> 0, low |-> 0]
       ELSE LET skip == bound[i + 1][r]
                take == bound[i + 1][r - 1]
            IN  [high |-> Max({skip.high, eligible[i].amount + take.high}),
                 low  |-> Min({skip.low, eligible[i].amount + take.low})]]

\* The bounds are filled in from those of the next posting.
Filled(eligible, maxGroup, bound) ==
    \A i \in 1 .. Len(eligible) + 1, r \in 0 .. maxGroup :
      bound[i][r] =
        IF r = 0 \/ i > Len(eligible) THEN [high |-> 0, low |-> 0]
        ELSE [high |-> Max({bound[i + 1][r].high,
                            eligible[i].amount + bound[i + 1][r - 1].high}),
              low  |-> Min({bound[i + 1][r].low,
                            eligible[i].amount + bound[i + 1][r - 1].low})]

\* The bounds are what computeSuffixSumBounds fills in.
LEMMA BoundsFilled ==
    ASSUME NEW S, NEW eligible \in Seq(S), NEW maxGroup
    PROVE  Filled(eligible, maxGroup, SuffixSumBounds(eligible, maxGroup))
  <1> DEFINE L == Len(eligible)
             row(v, i) == BoundRow(eligible, maxGroup, v, i)
             fits(n, v) == v = [i \in L + 1 - n .. L + 1 |-> row(v, i)]
             T == {n \in 0 .. L : \E v : fits(n, v)}
  <1>1. L \in Nat
    OBVIOUS
  <1>2. ASSUME NEW v, NEW w, NEW i \in 1 .. L + 1, i = L + 1 \/ v[i + 1] = w[i + 1]
        PROVE  row(v, i) = row(w, i)
    <2>1. CASE i = L + 1
      <3>1. i > L
        BY <1>1, <2>1
      <3> QED  BY <3>1 DEF BoundRow
    <2>2. CASE v[i + 1] = w[i + 1]
      BY <2>2 DEF BoundRow
    <2> QED  BY <1>2, <2>1, <2>2
  <1>3. SuffixSumBounds(eligible, maxGroup)
          = CHOOSE v : v = [i \in 1 .. L + 1 |-> row(v, i)]
    BY DEF SuffixSumBounds, BoundRow
  <1> HIDE DEF L, row
  <1>4. 0 \in T
    <2> DEFINE v == [i \in L + 1 - 0 .. L + 1 |-> row(<<>>, i)]
               u == [i \in L + 1 - 0 .. L + 1 |-> row(v, i)]
    <2>1. \A i \in L + 1 - 0 .. L + 1 : v[i] = u[i]
      <3> TAKE i \in L + 1 - 0 .. L + 1
      <3>1. i = L + 1 /\ i \in 1 .. L + 1
        BY <1>1
      <3>2. v[i] = row(<<>>, i) /\ u[i] = row(v, i)
        OBVIOUS
      <3> HIDE DEF u, v
      <3> QED  BY <1>2, <3>1, <3>2
    <2>2. v = u
      BY <2>1
    <2>3. fits(0, v) /\ 0 \in 0 .. L
      BY <1>1, <2>2
    <2> HIDE DEF fits, v
    <2> QED  BY <2>3
  <1>5. ASSUME NEW n \in 1 .. L, n - 1 \in T PROVE n \in T
    <2>1. PICK g : fits(n - 1, g)
      BY <1>5
    <2> DEFINE D == L + 1 - n .. L + 1
               v == [i \in D |-> row(g, i)]
               u == [i \in D |-> row(v, i)]
    <2>2. \A i \in L + 1 - (n - 1) .. L + 1 : i \in D /\ g[i] = row(g, i)
      <3> DEFINE E == L + 1 - (n - 1) .. L + 1
      <3>1. \A i \in E : i \in D
        BY <1>1
      <3>2. g = [i \in E |-> row(g, i)]
        BY <2>1
      <3> HIDE DEF D, E
      <3>3. \A i \in E : g[i] = row(g, i)
        BY <3>2
      <3> QED  BY <3>1, <3>3 DEF E
    <2>3. \A i \in L + 1 - (n - 1) .. L + 1 : v[i] = g[i]
      BY <2>2
    <2>4. \A i \in D : v[i] = u[i]
      <3> TAKE i \in D
      <3>1. i \in 1 .. L + 1 /\ (i = L + 1 \/ i + 1 \in L + 1 - (n - 1) .. L + 1)
        BY <1>1
      <3>2. v[i] = row(g, i) /\ u[i] = row(v, i)
        OBVIOUS
      <3> HIDE DEF u, v, D
      <3> QED  BY <1>2, <2>3, <3>1, <3>2
    <2>5. v = u
      BY <2>4
    <2>6. fits(n, v) /\ n \in 0 .. L
      BY <1>1, <2>5
    <2> HIDE DEF fits, v
    <2> QED  BY <2>6
  <1>a. \A n \in 1 .. L : n - 1 \in T => n \in T
    BY <1>5
  <1> HIDE DEF T
  <1>6. L \in T
    <2>1. \A n \in 0 .. L : n \in T
      BY <1>1, <1>4, <1>a, Counting
    <2> QED  BY <1>1, <2>1
  <1> DEFINE filled(v) == v = [i \in 1 .. L + 1 |-> row(v, i)]
             bound == CHOOSE v : filled(v)
  <1>7. \E v : filled(v)
    <2>1. L + 1 - L = 1
      BY <1>1
    <2> QED  BY <1>6, <2>1 DEF T
  <1>8. filled(bound)
    BY <1>7, Zenon
  <1>9. SuffixSumBounds(eligible, maxGroup) = bound
    BY <1>3
  <1> HIDE DEF bound
  <1>10. \A i \in 1 .. L + 1 : bound[i] = row(bound, i)
    BY <1>8
  <1>11. ASSUME NEW i \in 1 .. L + 1, NEW r \in 0 .. maxGroup
         PROVE  bound[i][r] =
                  IF r = 0 \/ i > L THEN [high |-> 0, low |-> 0]
                  ELSE [high |-> Max({bound[i + 1][r].high,
                                      eligible[i].amount + bound[i + 1][r - 1].high}),
                        low  |-> Min({bound[i + 1][r].low,
                                      eligible[i].amount + bound[i + 1][r - 1].low})]
    <2>1. bound[i] = row(bound, i)
      BY <1>10
    <2>2. bound[i][r] = row(bound, i)[r]
      BY <2>1
    <2> QED  BY <2>2 DEF L, row, BoundRow
  <1>12. Filled(eligible, maxGroup, bound)
    BY <1>11 DEF Filled, L
  <1> QED  BY <1>9, <1>12

\* The larger and the smaller of two numbers.
LEMMA Extremes ==
    ASSUME NEW a \in Int, NEW b \in Int
    PROVE  /\ Max({a, b}) \in Int /\ a <= Max({a, b}) /\ b <= Max({a, b})
           /\ Min({a, b}) \in Int /\ Min({a, b}) <= a /\ Min({a, b}) <= b
  <1>1. \E x \in {a, b} : \A y \in {a, b} : x >= y
    <2>1. CASE a >= b
      BY <2>1
    <2>2. CASE ~(a >= b)
      BY <2>2
    <2> QED  BY <2>1, <2>2
  <1>2. \E x \in {a, b} : \A y \in {a, b} : x <= y
    <2>1. CASE a <= b
      BY <2>1
    <2>2. CASE ~(a <= b)
      BY <2>2
    <2> QED  BY <2>1, <2>2
  <1>3. Max({a, b}) \in {a, b} /\ \A y \in {a, b} : Max({a, b}) >= y
    BY <1>1 DEF Max
  <1>4. Min({a, b}) \in {a, b} /\ \A y \in {a, b} : Min({a, b}) <= y
    BY <1>2 DEF Min
  <1> QED  BY <1>3, <1>4

\* A group of the postings from one on either leaves that one out, or is it with
\* a group of those that follow.
LEMMA WithOrWithout ==
    ASSUME NEW S, NEW eligible \in Seq(S),
           \A i, j \in DOMAIN eligible : eligible[i] = eligible[j] => i = j,
           \A x \in S : x.amount \in Int,
           NEW i \in 1 .. Len(eligible), NEW group \in SUBSET Onward(eligible, i)
    PROVE  LET first == eligible[i]
               rest == group \ {first}
           IN  /\ IsFiniteSet(group) /\ Amount(group) \in Int /\ first.amount \in Int
               /\ rest \in SUBSET Onward(eligible, i + 1) /\ Amount(rest) \in Int
               /\ \/ rest = group
                  \/ /\ Cardinality(group) = Cardinality(rest) + 1
                     /\ Amount(group) = first.amount + Amount(rest)
  <1> DEFINE first == eligible[i]
             rest == group \ {first}
             U == Range(eligible)
  <1>1. /\ Onward(eligible, i) \subseteq U /\ first \in U
        /\ Onward(eligible, i) = Onward(eligible, i + 1) \cup {first}
    <2>1. i \in 1 .. Len(eligible) + 1
      OBVIOUS
    <2> QED  BY <2>1, OnwardFirst
  <1>2. IsFiniteSet(U) /\ \A x \in U : x.amount \in Int
    <2>1. IsFiniteSet(U)
      BY GroupAdds
    <2>2. U \subseteq S
      BY DEF Range
    <2> QED  BY <2>1, <2>2
  <1> HIDE DEF U, first
  <1>3. group \in SUBSET U /\ rest \in SUBSET U /\ rest \in SUBSET Onward(eligible, i + 1)
    BY <1>1
  <1>4. IsFiniteSet(group)
    BY <1>2, <1>3, FS_Subset
  <1>5. /\ Amount(group) \in Int /\ Amount(rest) \in Int
        /\ first \in group => Amount(group) = first.amount + Amount(rest)
    BY <1>2, <1>3, AmountFirst
  <1>6. CASE first \in group
    <2>1. Cardinality(rest) = Cardinality(group) - 1 /\ Cardinality(group) \in Nat
      BY <1>4, <1>6, FS_RemoveElement, FS_CardinalityType
    <2>2. Cardinality(group) = Cardinality(rest) + 1
      BY <2>1
    <2> QED  BY <1>1, <1>2, <1>3, <1>4, <1>5, <1>6, <2>2 DEF first
  <1>7. CASE first \notin group
    <2>1. rest = group
      BY <1>7
    <2> QED  BY <1>1, <1>2, <1>3, <1>4, <1>5, <2>1 DEF first
  <1> QED  BY <1>6, <1>7

\* No group of the postings from one on, of the size of its column or less, adds up
\* to more or to less than the bounds say.
LEMMA BoundsHold ==
    ASSUME NEW S, NEW eligible \in Seq(S),
           \A i, j \in DOMAIN eligible : eligible[i] = eligible[j] => i = j,
           \A x \in S : x.amount \in Int, NEW maxGroup \in Nat
    PROVE  LET bound == SuffixSumBounds(eligible, maxGroup) IN
           \A i \in 1 .. Len(eligible) + 1, r \in 0 .. maxGroup :
             /\ bound[i][r].high \in Int /\ bound[i][r].low \in Int
             /\ \A group \in SUBSET Onward(eligible, i) :
                  Cardinality(group) <= r =>
                    Amount(group) <= bound[i][r].high /\ bound[i][r].low <= Amount(group)
  <1> DEFINE L == Len(eligible)
             bound == SuffixSumBounds(eligible, maxGroup)
             held(i, r) ==
               /\ bound[i][r].high \in Int /\ bound[i][r].low \in Int
               /\ \A group \in SUBSET Onward(eligible, i) :
                    Cardinality(group) <= r =>
                      Amount(group) <= bound[i][r].high /\ bound[i][r].low <= Amount(group)
             T == {n \in 0 .. L : \A r \in 0 .. maxGroup : held(L + 1 - n, r)}
  <1>1. L \in Nat
    OBVIOUS
  <1>2. Filled(eligible, maxGroup, bound)
    BY BoundsFilled
  <1>3. Amount({}) = 0
    BY FS_EmptySet, AmountFirst
  <1>4. \A i \in 1 .. L : \A group \in SUBSET Onward(eligible, i) :
          /\ IsFiniteSet(group) /\ Amount(group) \in Int /\ eligible[i].amount \in Int
          /\ group \ {eligible[i]} \in SUBSET Onward(eligible, i + 1)
          /\ Amount(group \ {eligible[i]}) \in Int
          /\ \/ group \ {eligible[i]} = group
             \/ /\ Cardinality(group) = Cardinality(group \ {eligible[i]}) + 1
                /\ Amount(group) = eligible[i].amount + Amount(group \ {eligible[i]})
    BY WithOrWithout
  <1>5. Onward(eligible, L + 1) = {}
    BY OnwardFirst
  <1>6. \A i \in 1 .. L : eligible[i].amount \in Int
    OBVIOUS
  <1> HIDE DEF bound, L
  <1>b. \A i \in 1 .. L + 1, r \in 0 .. maxGroup :
          bound[i][r] =
            IF r = 0 \/ i > L THEN [high |-> 0, low |-> 0]
            ELSE [high |-> Max({bound[i + 1][r].high,
                                eligible[i].amount + bound[i + 1][r - 1].high}),
                  low  |-> Min({bound[i + 1][r].low,
                                eligible[i].amount + bound[i + 1][r - 1].low})]
    BY <1>2 DEF Filled, L
  <1>7. 0 \in T
    <2> SUFFICES ASSUME NEW r \in 0 .. maxGroup PROVE held(L + 1 - 0, r)
      BY <1>1
    <2>1. L + 1 - 0 = L + 1 /\ L + 1 \in 1 .. L + 1 /\ L + 1 > L
      BY <1>1
    <2>2. bound[L + 1][r] = [high |-> 0, low |-> 0]
      BY <1>b, <2>1
    <2>3. \A group \in SUBSET Onward(eligible, L + 1) : Amount(group) = 0
      BY <1>3, <1>5
    <2> QED  BY <2>1, <2>2, <2>3
  <1>8. ASSUME NEW n \in 1 .. L, n - 1 \in T PROVE n \in T
    <2> SUFFICES ASSUME NEW r \in 0 .. maxGroup PROVE held(L + 1 - n, r)
      BY <1>1
    <2> DEFINE i == L + 1 - n
    <2>1. i \in 1 .. L /\ i \in 1 .. L + 1 /\ L + 1 - (n - 1) = i + 1 /\ ~(i > L)
      BY <1>1
    <2>2. \A q \in 0 .. maxGroup : held(i + 1, q)
      BY <1>8, <2>1
    <2> HIDE DEF i
    <2>3. CASE r = 0
      <3>1. bound[i][r] = [high |-> 0, low |-> 0]
        BY <1>b, <2>1, <2>3
      <3>2. ASSUME NEW group \in SUBSET Onward(eligible, i), Cardinality(group) <= r
            PROVE  Amount(group) = 0
        <4>1. IsFiniteSet(group) /\ Cardinality(group) \in Nat
          BY <1>4, <2>1, FS_CardinalityType
        <4>2. Cardinality(group) = 0
          BY <2>3, <3>2, <4>1
        <4> QED  BY <1>3, <4>1, <4>2, FS_EmptySet
      <3>3. held(i, r)
        BY <3>1, <3>2
      <3> QED  BY <3>3 DEF i
    <2>4. CASE r # 0
      <3> DEFINE a == eligible[i].amount
                 skip == bound[i + 1][r]
                 take == bound[i + 1][r - 1]
      <3>1. bound[i][r] = [high |-> Max({skip.high, a + take.high}),
                           low |-> Min({skip.low, a + take.low})]
        BY <1>b, <2>1, <2>4
      <3>2. r - 1 \in 0 .. maxGroup /\ r \in 0 .. maxGroup
        BY <2>4
      <3>3. held(i + 1, r) /\ held(i + 1, r - 1)
        BY <2>2, <3>2
      <3>4. /\ a \in Int /\ skip.high \in Int /\ skip.low \in Int
            /\ take.high \in Int /\ take.low \in Int
            /\ a + take.high \in Int /\ a + take.low \in Int
        BY <1>6, <2>1, <3>3
      <3>5. /\ bound[i][r].high \in Int /\ bound[i][r].low \in Int
            /\ skip.high <= bound[i][r].high /\ a + take.high <= bound[i][r].high
            /\ bound[i][r].low <= skip.low /\ bound[i][r].low <= a + take.low
        <4> DEFINE high == a + take.high
                   low == a + take.low
        <4>1. bound[i][r].high = Max({skip.high, high}) /\ bound[i][r].low = Min({skip.low, low})
          BY <3>1
        <4>2. high \in Int /\ low \in Int /\ skip.high \in Int /\ skip.low \in Int
          BY <3>4
        <4> HIDE DEF a, skip, take, high, low
        <4>3. /\ Max({skip.high, high}) \in Int /\ skip.high <= Max({skip.high, high})
              /\ high <= Max({skip.high, high})
          BY <4>2, Extremes
        <4>4. /\ Min({skip.low, low}) \in Int /\ Min({skip.low, low}) <= skip.low
              /\ Min({skip.low, low}) <= low
          BY <4>2, Extremes
        <4> QED  BY <4>1, <4>3, <4>4 DEF high, low
      <3>6. ASSUME NEW group \in SUBSET Onward(eligible, i), Cardinality(group) <= r
            PROVE  Amount(group) <= bound[i][r].high /\ bound[i][r].low <= Amount(group)
        <4> DEFINE rest == group \ {eligible[i]}
        <4>1. /\ IsFiniteSet(group) /\ Amount(group) \in Int /\ Amount(rest) \in Int
              /\ rest \in SUBSET Onward(eligible, i + 1)
              /\ \/ rest = group
                 \/ /\ Cardinality(group) = Cardinality(rest) + 1
                    /\ Amount(group) = a + Amount(rest)
          BY <1>4, <2>1
        <4>2. IsFiniteSet(rest)
          BY <4>1, FS_Subset
        <4> HIDE DEF rest, a
        <4>3. CASE rest = group
          <5>1. Amount(group) <= skip.high /\ skip.low <= Amount(group)
            BY <3>3, <3>6, <4>1, <4>3
          <5> DEFINE high == bound[i][r].high
                     low == bound[i][r].low
          <5>2. /\ skip.high <= high /\ low <= skip.low
                /\ high \in Int /\ low \in Int
            BY <3>5
          <5>3. Amount(group) \in Int
            BY <4>1
          <5> HIDE DEF skip, high, low
          <5>4. Amount(group) <= high /\ low <= Amount(group)
            BY <3>4, <5>1, <5>2, <5>3
          <5> QED  BY <5>4 DEF high, low
        <4>4. CASE Cardinality(group) = Cardinality(rest) + 1 /\ Amount(group) = a + Amount(rest)
          <5>1. Cardinality(rest) \in Nat
            BY <4>2, FS_CardinalityType
          <5>2. Cardinality(rest) <= r - 1
            BY <3>6, <4>4, <5>1
          <5>3. Amount(rest) <= take.high /\ take.low <= Amount(rest)
            BY <3>3, <4>1, <5>2
          <5> DEFINE high == bound[i][r].high
                     low == bound[i][r].low
          <5>4. /\ a + take.high <= high /\ low <= a + take.low
                /\ high \in Int /\ low \in Int
            BY <3>5
          <5>5. Amount(group) = a + Amount(rest) /\ Amount(rest) \in Int
            BY <4>1, <4>4
          <5> HIDE DEF take, high, low
          <5>6. Amount(group) <= high /\ low <= Amount(group)
            BY <3>4, <5>3, <5>4, <5>5
          <5> QED  BY <5>6 DEF high, low
        <4> QED  BY <4>1, <4>3, <4>4
      <3>7. held(i, r)
        BY <3>5, <3>6
      <3> QED  BY <3>7 DEF i
    <2> QED  BY <2>3, <2>4
  <1>a. \A n \in 1 .. L : n - 1 \in T => n \in T
    BY <1>8
  <1>9. \A n \in 0 .. L : n \in T
    <2> HIDE DEF T
    <2> QED  BY <1>1, <1>7, <1>a, Counting
  <1>10. ASSUME NEW i \in 1 .. L + 1, NEW r \in 0 .. maxGroup PROVE held(i, r)
    <2>1. L + 1 - i \in 0 .. L /\ L + 1 - (L + 1 - i) = i
      BY <1>1
    <2>2. \A q \in 0 .. maxGroup : held(L + 1 - (L + 1 - i), q)
      BY <1>9, <2>1
    <2> QED  BY <2>1, <2>2
  <1> QED  BY <1>10 DEF L, bound

\* One more posting adds its amount.
LEMMA OneMoreAdds ==
    ASSUME NEW S, NEW group \in Seq(S), NEW x \in S, \A p \in S : p.amount \in Int
    PROVE  /\ GroupAmount(group) \in Int
           /\ GroupAmount(Append(group, x)) = GroupAmount(group) + x.amount
  <1> DEFINE L == Len(group)
             more == Append(group, x)
             sum(g, n) == Folded(GroupSum(g), 1 .. n)
             added(g, l) == \A n \in 1 .. l : sum(g, n) = sum(g, n - 1) + g[n].amount
             T == {n \in 0 .. L : sum(group, n) \in Int /\ sum(more, n) = sum(group, n)}
  <1>1. /\ L \in Nat /\ DOMAIN group = 1 .. L /\ DOMAIN more = 1 .. L + 1
        /\ \A n \in 1 .. L : more[n] = group[n] /\ group[n].amount \in Int
        /\ more[L + 1] = x
    OBVIOUS
  <1>2. GroupAmount(group) = sum(group, L) /\ GroupAmount(more) = sum(more, L + 1)
    BY <1>1, GroupAmountIsFold
  <1>3. ASSUME NEW g, NEW l \in Nat PROVE sum(g, 0) = 0 /\ added(g, l)
    <2>1. ~Summing(GroupSum(g)) /\ GroupSum(g).base = 0
      BY DEF Summing, GroupSum
    <2>2. \A i, acc : Joined(GroupSum(g), i, acc) = acc + g[i].amount
      BY DEF Joined, Summing, GroupSum
    <2> DEFINE how == GroupSum(g)
    <2> HIDE DEF how
    <2>3. /\ Folded(how, 1 .. 0) = how.base
          /\ \A n \in 1 .. l : Folded(how, 1 .. n) = Joined(how, n, Folded(how, 1 .. n - 1))
      BY <2>1, FoldUp DEF how
    <2> QED  BY <2>1, <2>2, <2>3 DEF how
  <1> HIDE DEF L, more, sum
  <1>4. sum(group, 0) = 0 /\ sum(more, 0) = 0 /\ added(group, L) /\ added(more, L + 1)
    <2>1. L \in Nat /\ L + 1 \in Nat
      BY <1>1
    <2> HIDE DEF added
    <2> QED  BY <1>3, <2>1
  <1>5. 0 \in T
    BY <1>1, <1>4
  <1>6. ASSUME NEW n \in 1 .. L, n - 1 \in T PROVE n \in T
    <2>1. n \in 1 .. L + 1 /\ n \in 0 .. L
      BY <1>1
    <2>2. /\ sum(group, n) = sum(group, n - 1) + group[n].amount
          /\ sum(more, n) = sum(more, n - 1) + more[n].amount
      BY <1>4, <2>1
    <2> QED  BY <1>1, <1>6, <2>1, <2>2
  <1>a. \A n \in 1 .. L : n - 1 \in T => n \in T
    BY <1>6
  <1>7. L \in T
    <2> HIDE DEF T
    <2>1. \A n \in 0 .. L : n \in T
      BY <1>1, <1>5, <1>a, Counting
    <2> QED  BY <1>1, <2>1
  <1>8. sum(more, L + 1) = sum(more, L) + x.amount
    <2>1. L + 1 \in 1 .. L + 1 /\ (L + 1) - 1 = L
      BY <1>1
    <2> QED  BY <1>1, <1>4, <2>1
  <1> QED  BY <1>2, <1>7, <1>8 DEF more

\* One more element doubles the subsets.
LEMMA SubsetsDouble ==
    ASSUME NEW A, IsFiniteSet(SUBSET A), NEW x, x \notin A
    PROVE  /\ IsFiniteSet(SUBSET (A \cup {x}))
           /\ Cardinality(SUBSET (A \cup {x})) = Cardinality(SUBSET A) + Cardinality(SUBSET A)
  <1> DEFINE without == SUBSET A
             with == {B \cup {x} : B \in SUBSET A}
             f == [B \in without |-> B \cup {x}]
  <1>1. SUBSET (A \cup {x}) = without \cup with
    <2>1. ASSUME NEW C \in SUBSET (A \cup {x}) PROVE C \in without \cup with
      <3>1. CASE x \notin C
        BY <3>1
      <3>2. CASE x \in C
        <4>1. C \ {x} \in SUBSET A /\ C = (C \ {x}) \cup {x}
          BY <3>2
        <4> QED  BY <4>1
      <3> QED  BY <3>1, <3>2
    <2>2. ASSUME NEW C \in without \cup with PROVE C \in SUBSET (A \cup {x})
      OBVIOUS
    <2> QED  BY <2>1, <2>2
  <1>2. without \cap with = {}
    OBVIOUS
  <1>3. f \in Bijection(without, with)
    <2>1. f \in [without -> with]
      OBVIOUS
    <2>2. \A B, C \in without : f[B] = f[C] => B = C
      <3> SUFFICES ASSUME NEW B \in without, NEW C \in without, B \cup {x} = C \cup {x}
                   PROVE  B = C
        OBVIOUS
      <3>1. x \notin B /\ x \notin C
        OBVIOUS
      <3> QED  BY <3>1
    <2>3. \A D \in with : \E B \in without : f[B] = D
      OBVIOUS
    <2> HIDE DEF f, with, without
    <2> QED  BY <2>1, <2>2, <2>3 DEF Bijection, Injection, IsInjective, Surjection
  <1> HIDE DEF f, with, without
  <1>4. IsFiniteSet(without)
    BY DEF without
  <1>5. IsFiniteSet(with) /\ Cardinality(with) = Cardinality(without)
    <2>1. ExistsBijection(without, with)
      BY <1>3 DEF ExistsBijection
    <2> QED  BY <1>4, <2>1, FS_Bijection
  <1>6. IsFiniteSet(without \cup with)
    BY <1>4, <1>5, FS_Union
  <1>7. Cardinality(without \cup with)
          = Cardinality(without) + Cardinality(with) - Cardinality(without \cap with)
    BY <1>4, <1>5, FS_Union
  <1>8. Cardinality(without) \in Nat /\ Cardinality(without \cap with) = 0
    BY <1>2, <1>4, FS_CardinalityType, FS_EmptySet
  <1>9. Cardinality(without \cup with) = Cardinality(without) + Cardinality(without)
    BY <1>5, <1>7, <1>8
  <1> QED  BY <1>1, <1>6, <1>9 DEF without

\* A search enters a node for a group at most.
Spent(eligible, at, result) ==
    result.explored + 1 <= at.explored + Cardinality(SUBSET Onward(eligible, at.i))

\* A search that is not cut off and finds nothing has missed nothing.
Thorough(eligible, amount, opts, at, result) ==
    Len(at.chosen) < opts.group /\ result.group = <<>> /\ result.explored <= opts.combinations =>
      \A group \in SUBSET Onward(eligible, at.i) :
        group # {} /\ Len(at.chosen) + Cardinality(group) \in 2 .. opts.group
          => GroupAmount(at.chosen) + Amount(group) # amount

\* There are as many groups with a posting as without it.
LEMMA SubsetsCounted ==
    ASSUME NEW S, NEW eligible \in Seq(S),
           \A i, j \in DOMAIN eligible : eligible[i] = eligible[j] => i = j
    PROVE  LET count(i) == Cardinality(SUBSET Onward(eligible, i)) IN
           /\ count(Len(eligible) + 1) = 1
           /\ \A i \in 1 .. Len(eligible) + 1 :
                /\ count(i) \in Nat /\ count(i) >= 1
                /\ IsFiniteSet(SUBSET Onward(eligible, i))
           /\ \A i \in 1 .. Len(eligible) : count(i) = count(i + 1) + count(i + 1)
  <1> DEFINE L == Len(eligible)
             parts(i) == SUBSET Onward(eligible, i)
             T == {n \in 0 .. L : IsFiniteSet(parts(L + 1 - n))}
  <1>1. L \in Nat
    OBVIOUS
  <1>2. parts(L + 1) = {{}}
    BY OnwardFirst
  <1>3. IsFiniteSet(parts(L + 1)) /\ Cardinality(parts(L + 1)) = 1
    BY <1>2, FS_Singleton
  <1>4. ASSUME NEW i \in 1 .. L, IsFiniteSet(parts(i + 1))
        PROVE  /\ IsFiniteSet(parts(i))
               /\ Cardinality(parts(i)) = Cardinality(parts(i + 1)) + Cardinality(parts(i + 1))
    <2>1. /\ eligible[i] \notin Onward(eligible, i + 1)
          /\ Onward(eligible, i) = Onward(eligible, i + 1) \cup {eligible[i]}
      BY OnwardFirst
    <2> QED  BY <1>4, <2>1, SubsetsDouble
  <1> HIDE DEF L, parts
  <1>5. 0 \in T
    BY <1>1, <1>3
  <1>6. ASSUME NEW n \in 1 .. L, n - 1 \in T PROVE n \in T
    <2>1. L + 1 - n \in 1 .. L /\ L + 1 - (n - 1) = (L + 1 - n) + 1 /\ n \in 0 .. L
      BY <1>1
    <2> QED  BY <1>4, <1>6, <2>1
  <1>a. \A n \in 1 .. L : n - 1 \in T => n \in T
    BY <1>6
  <1>7. \A n \in 0 .. L : n \in T
    <2> HIDE DEF T
    <2> QED  BY <1>1, <1>5, <1>a, Counting
  <1>8. ASSUME NEW i \in 1 .. L + 1 PROVE IsFiniteSet(parts(i))
    <2>1. L + 1 - i \in 0 .. L /\ L + 1 - (L + 1 - i) = i
      BY <1>1
    <2> QED  BY <1>7, <2>1
  <1>9. \A i \in 1 .. L :
          Cardinality(parts(i)) = Cardinality(parts(i + 1)) + Cardinality(parts(i + 1))
    <2> TAKE i \in 1 .. L
    <2>1. i + 1 \in 1 .. L + 1
      BY <1>1
    <2> QED  BY <1>4, <1>8, <2>1
  <1>10. ASSUME NEW i \in 1 .. L + 1
         PROVE  Cardinality(parts(i)) \in Nat /\ Cardinality(parts(i)) >= 1
    <2>1. Cardinality(parts(i)) \in Nat /\ IsFiniteSet(parts(i))
      BY <1>8, FS_CardinalityType
    <2>2. parts(i) # {}
      BY DEF parts
    <2>3. Cardinality(parts(i)) # 0
      BY <2>1, <2>2, FS_EmptySet
    <2> HIDE DEF parts
    <2> QED  BY <2>1, <2>3
  <1> QED  BY <1>3, <1>8, <1>9, <1>10 DEF L, parts

\* A node is searched for few enough nodes and misses nothing if those of the next
\* posting are.
LEMMA NodeSearched ==
    ASSUME NEW S, NEW eligible \in Seq(S),
           \A i, j \in DOMAIN eligible : eligible[i] = eligible[j] => i = j,
           \A x \in S : x.amount \in Int, NEW amount \in Int,
           NEW opts, opts.group \in Nat, opts.combinations \in Nat,
           NEW at \in Nodes(eligible), NEW visit,
           visit[at] = Visited(eligible, amount, opts, visit, at),
           \A b \in Nodes(eligible) : b.i = at.i + 1 =>
             /\ visit[b] \in Results(eligible)
             /\ Spent(eligible, b, visit[b]) /\ Thorough(eligible, amount, opts, b, visit[b])
    PROVE  Spent(eligible, at, visit[at]) /\ Thorough(eligible, amount, opts, at, visit[at])
  <1> DEFINE size == Len(eligible)
             R == Range(eligible)
             count(i) == Cardinality(SUBSET Onward(eligible, i))
             next == at.i + 1
  <1>1. size \in Nat /\ DOMAIN eligible = 1 .. size /\ \A x \in R : x.amount \in Int
    <2>1. R \subseteq S
      BY DEF Range
    <2> QED  BY <2>1
  <1>2. at.chosen \in Seq(R) /\ at.i \in 1 .. size + 1 /\ at.explored \in Nat
    BY DEF Nodes
  <1>3. /\ count(size + 1) = 1 /\ \A i \in 1 .. size + 1 : count(i) \in Nat /\ count(i) >= 1
        /\ \A i \in 1 .. size : count(i) = count(i + 1) + count(i + 1)
    BY SubsetsCounted
  <1>4. CASE at.i > size
    <2>1. at.i = size + 1 /\ visit[at] = [group |-> <<>>, explored |-> at.explored]
      BY <1>1, <1>2, <1>4 DEF Visited
    <2>2. Onward(eligible, at.i) = {}
      BY <2>1, OnwardFirst
    <2>3. visit[at].explored + 1 <= at.explored + count(at.i)
      <3> HIDE DEF count
      <3> QED  BY <1>2, <1>3, <2>1
    <2> QED  BY <2>2, <2>3 DEF Spent, Thorough
  <1>5. CASE ~(at.i > size)
    <2> DEFINE x == eligible[at.i]
               group == Append(at.chosen, x)
               down == [chosen |-> group, i |-> next, explored |-> at.explored + 1]
               inner == Entered(eligible, amount, opts, visit, at)
               along == [chosen |-> at.chosen, i |-> next, explored |-> inner.explored]
               bound == SuffixSumBounds(eligible, opts.group)
               hopeless == Hopeless(bound, opts, amount, group, next)
    <2>1. at.i \in 1 .. size /\ x \in R /\ next \in 1 .. size + 1 /\ x.amount \in Int
      BY <1>1, <1>2, <1>5 DEF Range
    <2>2. /\ group \in Seq(R) /\ group # <<>> /\ Len(group) = Len(at.chosen) + 1
          /\ Len(at.chosen) \in Nat
      <3>1. Len(at.chosen) \in Nat /\ at.chosen \in Seq(R) /\ x \in R
        BY <1>2, <2>1
      <3> HIDE DEF x, R
      <3>2. group \in Seq(R) /\ Len(group) = Len(at.chosen) + 1
        BY <3>1
      <3>3. group # <<>>
        BY <3>1, <3>2
      <3> QED  BY <3>1, <3>2, <3>3
    <2>3. /\ GroupAmount(at.chosen) \in Int
          /\ GroupAmount(group) = GroupAmount(at.chosen) + x.amount
      BY <1>1, <1>2, <2>1, OneMoreAdds
    <2> HIDE DEF group, x
    <2>4. down \in Nodes(eligible) /\ down.i = next /\ down.chosen = group
          /\ down.explored = at.explored + 1
      BY <1>2, <2>1, <2>2 DEF Nodes
    <2> HIDE DEF down
    <2>5. /\ visit[down] \in Results(eligible)
          /\ Spent(eligible, down, visit[down])
          /\ Thorough(eligible, amount, opts, down, visit[down])
      BY <2>4
    <2>6. \/ /\ inner = [group |-> <<>>, explored |-> at.explored + 1]
             /\ at.explored = opts.combinations
          \/ /\ inner = [group |-> group, explored |-> at.explored + 1]
             /\ Len(group) >= 2 /\ GroupAmount(group) = amount
          \/ /\ inner = [group |-> <<>>, explored |-> at.explored + 1]
             /\ ~(Len(group) >= 2 /\ GroupAmount(group) = amount)
             /\ Len(group) = opts.group \/ hopeless
          \/ /\ inner = visit[down]
             /\ ~(Len(group) >= 2 /\ GroupAmount(group) = amount)
             /\ Len(group) # opts.group
      BY DEF Entered, group, x, down
    <2> HIDE DEF inner, hopeless
    <2>7. inner.explored \in Nat /\ inner.explored + 1 <= at.explored + 1 + count(next)
      <3>1. visit[down].explored \in Nat
        BY <2>5 DEF Results
      <3>2. visit[down].explored + 1 <= at.explored + 1 + count(next)
        BY <2>4, <2>5 DEF Spent
      <3>3. count(next) \in Nat /\ count(next) >= 1
        BY <1>3, <2>1
      <3>4. \/ inner.explored = at.explored + 1
            \/ inner.explored = visit[down].explored
        BY <2>6
      <3>5. at.explored \in Nat
        BY <1>2
      <3> HIDE DEF count, next
      <3>6. CASE inner.explored = at.explored + 1
        BY <3>3, <3>5, <3>6
      <3>7. CASE inner.explored = visit[down].explored
        BY <3>1, <3>2, <3>7
      <3> QED  BY <3>4, <3>6, <3>7
    <2>8. along \in Nodes(eligible) /\ along.i = next /\ along.chosen = at.chosen
          /\ along.explored = inner.explored
      BY <1>2, <2>1, <2>7 DEF Nodes
    <2> HIDE DEF along
    <2>9. /\ visit[along] \in Results(eligible)
          /\ Spent(eligible, along, visit[along])
          /\ Thorough(eligible, amount, opts, along, visit[along])
      BY <2>8
    <2>10. \/ visit[at] = inner /\ (inner.group # <<>> \/ inner.explored > opts.combinations)
           \/ /\ visit[at] = visit[along]
              /\ inner.group = <<>> /\ ~(inner.explored > opts.combinations)
      BY <1>5 DEF Visited, inner, along
    <2>11. Spent(eligible, at, visit[at])
      <3>1. visit[along].explored \in Nat
        BY <2>9 DEF Results
      <3>2. visit[along].explored + 1 <= inner.explored + count(next)
        BY <2>8, <2>9 DEF Spent
      <3>3. count(next) \in Nat /\ count(at.i) = count(next) + count(next)
        BY <1>3, <2>1
      <3>4. visit[at].explored + 1 <= at.explored + count(at.i)
        <4>1. /\ visit[along].explored + 1 <= at.explored + count(next) + count(next)
              /\ inner.explored + 1 <= at.explored + count(next) + count(next)
          <5>1. count(next) >= 1
            BY <1>3, <2>1
          <5> DEFINE c == count(next)
                     e == visit[along].explored
          <5> HIDE DEF c, e
          <5>2. /\ c \in Nat /\ c >= 1 /\ e \in Nat /\ e + 1 <= inner.explored + c
                /\ inner.explored \in Nat /\ inner.explored + 1 <= at.explored + 1 + c
            BY <2>7, <3>1, <3>2, <3>3, <5>1 DEF c, e
          <5> DEFINE o == at.explored
                     n == inner.explored
          <5>3. o \in Nat /\ n \in Nat /\ e + 1 <= n + c /\ n + 1 <= o + 1 + c
            BY <1>2, <5>2
          <5> HIDE DEF o, n
          <5>4. e + 1 <= o + c + c /\ n + 1 <= o + c + c
            BY <5>2, <5>3
          <5> QED  BY <5>4 DEF c, e, o, n
        <4>2. at.explored + count(at.i) = at.explored + count(next) + count(next)
          <5> HIDE DEF count, next
          <5> QED  BY <1>2, <3>3
        <4> HIDE DEF count, next
        <4> QED  BY <2>10, <4>1, <4>2
      <3> QED  BY <3>4 DEF Spent
    <2>12. Thorough(eligible, amount, opts, at, visit[at])
      <3> SUFFICES ASSUME Len(at.chosen) < opts.group, visit[at].group = <<>>,
                          visit[at].explored <= opts.combinations,
                          NEW more \in SUBSET Onward(eligible, at.i), more # {},
                          Len(at.chosen) + Cardinality(more) \in 2 .. opts.group
                   PROVE  GroupAmount(at.chosen) + Amount(more) # amount
        BY DEF Thorough
      <3>1. visit[at] = visit[along] /\ inner.group = <<>> /\ ~(inner.explored > opts.combinations)
        <4>1. CASE inner.explored > opts.combinations /\ visit[at] = inner
          BY <2>7, <4>1
        <4> QED  BY <2>10, <4>1
      <3> DEFINE rest == more \ {x}
      <3>2. /\ IsFiniteSet(more) /\ Amount(more) \in Int
            /\ rest \in SUBSET Onward(eligible, next) /\ Amount(rest) \in Int
            /\ \/ rest = more
               \/ /\ Cardinality(more) = Cardinality(rest) + 1
                  /\ Amount(more) = x.amount + Amount(rest)
        BY <2>1, WithOrWithout DEF x
      <3>3. IsFiniteSet(rest) /\ Cardinality(rest) \in Nat
        BY <3>2, FS_Subset, FS_CardinalityType
      <3> HIDE DEF rest
      <3>4. CASE rest = more
        <4>1. more \in SUBSET Onward(eligible, along.i)
          BY <2>8, <3>2, <3>4
        <4>2. /\ Len(along.chosen) < opts.group /\ visit[along].group = <<>>
              /\ visit[along].explored <= opts.combinations
              /\ Len(along.chosen) + Cardinality(more) \in 2 .. opts.group
          BY <2>8, <3>1
        <4> QED  BY <2>8, <2>9, <4>1, <4>2 DEF Thorough
      <3>5. CASE Cardinality(more) = Cardinality(rest) + 1 /\ Amount(more) = x.amount + Amount(rest)
        <4>1. /\ GroupAmount(at.chosen) + Amount(more) = GroupAmount(group) + Amount(rest)
              /\ GroupAmount(group) \in Int
              /\ Len(group) + Cardinality(rest) \in 2 .. opts.group
          <5> DEFINE g == GroupAmount(at.chosen)
                     m == Amount(rest)
                     a == x.amount
          <5>1. g \in Int /\ m \in Int /\ a \in Int
            BY <2>1, <2>3, <3>2
          <5>2. GroupAmount(group) = g + a /\ Amount(more) = a + m
            BY <2>3, <3>5
          <5> HIDE DEF g, m, a
          <5>3. g + Amount(more) = GroupAmount(group) + m /\ GroupAmount(group) \in Int
            BY <5>1, <5>2
          <5>4. Len(group) + Cardinality(rest) \in 2 .. opts.group
            BY <2>2, <3>3, <3>5
          <5> QED  BY <5>3, <5>4 DEF g, m
        <4>2. CASE rest = {}
          <5>1. Amount(rest) = 0 /\ Cardinality(rest) = 0
            BY <4>2, FS_EmptySet, AmountFirst
          <5>2. Len(group) >= 2 /\ GroupAmount(group) + Amount(rest) = GroupAmount(group)
            BY <2>2, <4>1, <5>1
          <5>3. ~(inner = [group |-> group, explored |-> at.explored + 1])
            BY <2>2, <3>1
          <5>4. ~(/\ at.explored = opts.combinations
                  /\ inner = [group |-> <<>>, explored |-> at.explored + 1])
            BY <1>2, <3>1
          <5> QED  BY <2>6, <4>1, <5>2, <5>3, <5>4
        <4>3. CASE rest # {}
          <5> DEFINE len == Len(group)
                     size0 == Cardinality(rest)
          <5>1. size0 # 0
            BY <3>3, <4>3, FS_EmptySet
          <5>a. len \in Nat /\ size0 \in Nat /\ len + size0 \in 2 .. opts.group
            BY <2>2, <3>3, <4>1
          <5> HIDE DEF len, size0
          <5>b. /\ len < opts.group /\ opts.group - len \in 0 .. opts.group
                /\ size0 <= opts.group - len
            BY <5>1, <5>a
          <5>2. /\ Len(group) < opts.group
                /\ opts.group - Len(group) \in 0 .. opts.group
                /\ Cardinality(rest) <= opts.group - Len(group)
            BY <5>b DEF len, size0
          <5>3. ~(inner = [group |-> group, explored |-> at.explored + 1])
            BY <2>2, <3>1
          <5>4. ~(/\ at.explored = opts.combinations
                  /\ inner = [group |-> <<>>, explored |-> at.explored + 1])
            BY <1>2, <3>1
          <5>5. CASE hopeless
            <6> DEFINE high == bound[next][opts.group - Len(group)].high
                       low == bound[next][opts.group - Len(group)].low
                       need == amount - GroupAmount(group)
            <6>1. /\ high \in Int /\ low \in Int
                  /\ Amount(rest) <= high /\ low <= Amount(rest)
              BY <2>1, <3>2, <5>2, BoundsHold
            <6>2. need > high \/ need < low
              BY <5>5 DEF hopeless, Hopeless
            <6> HIDE DEF high, low
            <6>3. Amount(rest) # need
              BY <3>2, <4>1, <6>1, <6>2
            <6> QED  BY <3>2, <4>1, <6>3
          <5>6. CASE inner = visit[down]
            <6>1. rest \in SUBSET Onward(eligible, down.i)
              BY <2>4, <3>2
            <6>2. /\ Len(down.chosen) < opts.group /\ visit[down].group = <<>>
                  /\ visit[down].explored <= opts.combinations
                  /\ Len(down.chosen) + Cardinality(rest) \in 2 .. opts.group
              BY <2>4, <2>7, <3>1, <4>1, <5>2, <5>6
            <6>3. GroupAmount(group) + Amount(rest) # amount
              BY <2>4, <2>5, <4>3, <6>1, <6>2 DEF Thorough
            <6> QED  BY <4>1, <6>3
          <5>7. Len(group) # opts.group
            BY <2>2, <5>2
          <5> QED  BY <2>6, <5>3, <5>4, <5>5, <5>6, <5>7
        <4> QED  BY <4>2, <4>3
      <3> QED  BY <3>2, <3>4, <3>5
    <2> QED  BY <2>11, <2>12
  <1> QED  BY <1>4, <1>5

\* So is every node, from the last posting back.
LEMMA SearchThorough ==
    ASSUME NEW S, NEW eligible \in Seq(S),
           \A i, j \in DOMAIN eligible : eligible[i] = eligible[j] => i = j,
           \A x \in S : x.amount \in Int, NEW amount \in Int,
           NEW opts, opts.group \in Nat, opts.combinations \in Nat
    PROVE  LET visit == Search(eligible, amount, opts) IN
           \A at \in Nodes(eligible) :
             /\ Spent(eligible, at, visit[at])
             /\ Thorough(eligible, amount, opts, at, visit[at])
  <1> DEFINE L == Len(eligible)
             visit == Search(eligible, amount, opts)
             done(at) == /\ Spent(eligible, at, visit[at])
                         /\ Thorough(eligible, amount, opts, at, visit[at])
             T == {n \in 0 .. L : \A at \in Lasts(eligible, n) : done(at)}
  <1>1. L \in Nat
    OBVIOUS
  <1>2. \A at \in Nodes(eligible) :
          /\ visit[at] \in Results(eligible)
          /\ visit[at] = Visited(eligible, amount, opts, visit, at)
    BY SearchIs
  <1> HIDE DEF visit
  <1>3. ASSUME NEW at \in Nodes(eligible), \A b \in Nodes(eligible) : b.i = at.i + 1 => done(b)
        PROVE  done(at)
    BY <1>2, <1>3, NodeSearched
  <1> HIDE DEF L, done
  <1>4. 0 \in T
    <2>1. \A at \in Lasts(eligible, 0) :
            at \in Nodes(eligible) /\ \A b \in Nodes(eligible) : b.i # at.i + 1
      BY <1>1 DEF Lasts, Nodes, L
    <2> QED  BY <1>1, <1>3, <2>1
  <1>5. ASSUME NEW n \in 1 .. L, n - 1 \in T PROVE n \in T
    <2>1. \A at \in Lasts(eligible, n) : \A b \in Nodes(eligible) :
            b.i = at.i + 1 => b \in Lasts(eligible, n - 1)
      <3> TAKE at \in Lasts(eligible, n)
      <3> TAKE b \in Nodes(eligible)
      <3>1. at.i \in Int /\ at.i + n > L
        BY DEF Lasts, Nodes, L
      <3> QED  BY <1>1, <3>1 DEF Lasts, L
    <2>2. \A at \in Lasts(eligible, n) : at \in Nodes(eligible)
      BY DEF Lasts
    <2>3. \A at \in Lasts(eligible, n) : done(at)
      BY <1>3, <1>5, <2>1, <2>2
    <2> QED  BY <1>1, <2>3
  <1>a. \A n \in 1 .. L : n - 1 \in T => n \in T
    BY <1>5
  <1>6. L \in T
    <2> HIDE DEF T
    <2>1. \A n \in 0 .. L : n \in T
      BY <1>1, <1>4, <1>a, Counting
    <2> QED  BY <1>1, <2>1
  <1>7. \A at \in Nodes(eligible) : at \in Lasts(eligible, L)
    <2>1. \A at \in Nodes(eligible) : at.i \in Int /\ at.i >= 1
      BY DEF Nodes
    <2> QED  BY <1>1, <2>1 DEF Lasts, L
  <1> QED  BY <1>6, <1>7 DEF done, visit

\* A search that may try every group finds one if there is one: what the largest
\* and the smallest sums prune would not have added up (computeSuffixSumBounds).
LEMMA GroupNotMissed ==
    ASSUME NEW S, NEW eligible \in Seq(S),
           \A i, j \in DOMAIN eligible : eligible[i] = eligible[j] => i = j,
           \A x \in S : x.amount \in Int, NEW amount \in Int,
           NEW opts, opts.group \in Nat, opts.combinations \in Nat,
           Cardinality(SUBSET Range(eligible)) <= opts.combinations,
           SearchGroup(eligible, amount, opts) = <<>>,
           NEW group \in SUBSET Range(eligible), Cardinality(group) \in 2 .. opts.group
    PROVE  Amount(group) # amount
  <1> DEFINE size == Len(eligible)
             bound == SuffixSumBounds(eligible, opts.group)
             start == [chosen |-> <<>>, i |-> 1, explored |-> 0]
             visit == Search(eligible, amount, opts)
             hopeless == Hopeless(bound, opts, amount, <<>>, 1)
  <1>1. size \in Nat /\ DOMAIN eligible = 1 .. size
    OBVIOUS
  <1>2. /\ Onward(eligible, 1) = Range(eligible) /\ IsFiniteSet(Range(eligible))
        /\ \A x \in Range(eligible) : x.amount \in Int
    <2>1. Range(eligible) \subseteq S
      BY DEF Range
    <2> QED  BY <2>1, OnwardFirst, GroupAdds
  <1>3. IsFiniteSet(group) /\ Amount(group) \in Int /\ group # {}
    <2>1. IsFiniteSet(group) /\ Amount(group) \in Int
      BY <1>2, FS_Subset, AmountFirst
    <2>2. ASSUME group = {} PROVE FALSE
      <3>1. Cardinality(group) = 0
        BY <2>2, FS_EmptySet
      <3>2. Cardinality(group) # 0
        OBVIOUS
      <3> QED  BY <3>1, <3>2
    <2> QED  BY <2>1, <2>2
  <1>4. start \in Nodes(eligible) /\ Len(start.chosen) = 0 /\ start.i = 1
        /\ start.explored = 0 /\ start.chosen = <<>>
    <2>1. 1 \in 1 .. size + 1 /\ <<>> \in Seq(Range(eligible))
      BY <1>1
    <2> QED  BY <2>1 DEF Nodes
  <1>5. GroupAmount(<<>>) = 0
    <2>1. <<>> \in Seq(S) /\ \A i, j \in DOMAIN <<>> : <<>>[i] = <<>>[j] => i = j
      OBVIOUS
    <2>2. Range(<<>>) = {}
      BY DEF Range
    <2>3. GroupAmount(<<>>) = Amount({})
      BY <2>1, <2>2, GroupAdds
    <2> QED  BY <1>2, <2>3, AmountFirst
  <1>6. SearchGroup(eligible, amount, opts)
          = IF size < 2 \/ hopeless THEN <<>> ELSE visit[start].group
    BY DEF SearchGroup, Search, Nodes, Visited, Entered
  <1>7. CASE size < 2
    <2>1. eligible \in Surjection(1 .. size, Range(eligible))
      <3>1. eligible \in [1 .. size -> Range(eligible)]
        BY <1>1 DEF Range
      <3> QED  BY <1>1, <3>1 DEF Surjection, Range
    <2>2. IsFiniteSet(1 .. size) /\ Cardinality(1 .. size) = size
      <3>1. 1 \in Int /\ size \in Int /\ size \in Nat
        BY <1>1
      <3> HIDE DEF size
      <3>2. /\ IsFiniteSet(1 .. size)
            /\ Cardinality(1 .. size) = IF 1 > size THEN 0 ELSE size - 1 + 1
        BY <3>1, FS_Interval
      <3> QED  BY <3>1, <3>2
    <2>3. Cardinality(Range(eligible)) <= size
      BY <2>1, <2>2, FS_Surjection
    <2>4. Cardinality(group) <= Cardinality(Range(eligible))
      BY <1>2, FS_Subset
    <2>5. Cardinality(Range(eligible)) \in Nat
      BY <1>2, FS_CardinalityType
    <2> HIDE DEF size
    <2> QED  BY <1>1, <1>7, <2>3, <2>4, <2>5
  <1> HIDE DEF visit, start, hopeless
  <1>8. CASE hopeless
    <2> DEFINE high == bound[1][opts.group].high
               low == bound[1][opts.group].low
    <2>1. /\ high \in Int /\ low \in Int
          /\ Amount(group) <= high /\ low <= Amount(group)
      <3>1. /\ 1 \in 1 .. size + 1 /\ opts.group \in 0 .. opts.group
            /\ Cardinality(group) <= opts.group
            /\ group \in SUBSET Onward(eligible, 1)
        BY <1>1, <1>2
      <3> HIDE DEF size
      <3> QED  BY <3>1, BoundsHold DEF size
    <2>2. amount - 0 > high \/ amount - 0 < low
      <3>1. Len(<<>>) = 0 /\ opts.group - 0 = opts.group
        OBVIOUS
      <3> QED  BY <1>5, <1>8, <3>1 DEF hopeless, Hopeless
    <2> HIDE DEF high, low
    <2> QED  BY <1>3, <2>1, <2>2
  <1>9. CASE ~(size < 2 \/ hopeless)
    <2>1. visit[start].group = <<>>
      BY <1>6, <1>9
    <2>2. visit[start].explored \in Nat
      BY <1>4, SearchIs DEF visit, Results
    <2>3. /\ Spent(eligible, start, visit[start])
          /\ Thorough(eligible, amount, opts, start, visit[start])
      BY <1>4, SearchThorough DEF visit
    <2>4. visit[start].explored <= opts.combinations
      <3>1. visit[start].explored + 1 <= 0 + Cardinality(SUBSET Range(eligible))
        BY <1>2, <1>4, <2>3 DEF Spent
      <3>2. Cardinality(SUBSET Range(eligible)) \in Nat
        <4>1. 1 \in 1 .. size + 1
          BY <1>1
        <4> QED  BY <1>2, <4>1, SubsetsCounted
      <3> QED  BY <2>2, <3>1, <3>2
    <2>5. /\ Len(start.chosen) < opts.group
          /\ Len(start.chosen) + Cardinality(group) \in 2 .. opts.group
      BY <1>4
    <2>6. GroupAmount(start.chosen) + Amount(group) # amount
      BY <1>2, <1>3, <1>4, <2>1, <2>3, <2>4, <2>5 DEF Thorough
    <2> QED  BY <1>3, <1>4, <1>5, <2>6
  <1> QED  BY <1>7, <1>8, <1>9

\* A finite set has finitely many subsets, a part of it not more of them.
LEMMA FewerSubsets ==
    ASSUME NEW B, IsFiniteSet(B), NEW A \in SUBSET B
    PROVE  /\ Cardinality(SUBSET A) \in Nat /\ Cardinality(SUBSET B) \in Nat
           /\ Cardinality(SUBSET A) <= Cardinality(SUBSET B)
  <1> DEFINE Good == {C \in SUBSET B : IsFiniteSet(SUBSET C)}
  <1>1. {} \in Good
    <2>1. SUBSET {} = {{}}
      OBVIOUS
    <2>2. IsFiniteSet({{}})
      BY FS_Singleton
    <2>3. IsFiniteSet(SUBSET {})
      BY <2>1, <2>2
    <2> QED  BY <2>3
  <1>2. ASSUME NEW C \in SUBSET B, C # {}, \A x \in C : C \ {x} \in Good PROVE C \in Good
    <2>1. PICK x \in C : TRUE
      BY <1>2
    <2>2. C = (C \ {x}) \cup {x} /\ x \notin C \ {x} /\ IsFiniteSet(SUBSET (C \ {x}))
      BY <1>2, <2>1
    <2>3. IsFiniteSet(SUBSET ((C \ {x}) \cup {x}))
      BY <2>2, SubsetsDouble
    <2> QED  BY <2>2, <2>3
  <1> HIDE DEF Good
  <1>3. B \in Good
    BY <1>1, <1>2, PartByPart
  <1>4. IsFiniteSet(SUBSET B) /\ SUBSET A \in SUBSET (SUBSET B)
    BY <1>3 DEF Good
  <1> QED  BY <1>4, FS_Subset, FS_CardinalityType

-----------------------------------------------------------------------------
(* The lists the engine sorts *)

\* The candidates of a line by date.
LEMMA BucketIs ==
    ASSUME NEW ledger, IsLedger(ledger), NEW line
    PROVE  LET bucket == Bucket(ledger.postings, line) IN
           /\ Dated(bucket)
           /\ Range(bucket) = {p \in ledger.postings : /\ p.days # None /\ p.amount = line.amount
                                                      /\ p.currency = line.currency}
           /\ \A i \in DOMAIN bucket : bucket[i] # None
  <1> DEFINE S == {p \in Candidates(ledger.postings) : /\ p.amount = line.amount
                                                       /\ p.currency = line.currency}
             W == {p \in ledger.postings : /\ p.days # None /\ p.amount = line.amount
                                           /\ p.currency = line.currency}
             R == {e \in S \X S : ByDate(e[1], e[2])}
             n == Cardinality(S)
             sorted(s) == \A i, j \in DOMAIN s : i < j => ByDate(s[i], s[j])
             bucket == CHOOSE s \in Bijection(1 .. n, S) : sorted(s)
  <1>1. /\ S \in SUBSET ledger.postings /\ None \notin S /\ S = W
        /\ \A p \in S : p.days \in Int /\ p.entry \in Int /\ p.index \in Int
        /\ \A p, q \in S : p.entry = q.entry /\ p.index = q.index => p = q
    BY DEF Candidates, IsLedger
  <1>2. IsFiniteSet(S)
    BY <1>1, FS_Subset DEF IsLedger
  <1>b. Bucket(ledger.postings, line) = bucket
    BY DEF Bucket, Sorted
  <1> HIDE DEF S, W
  <1>3. \A x, y \in S : <<x, y>> \in R <=> ByDate(x, y)
    OBVIOUS
  <1> HIDE DEF R
  <1>4. \A x \in S : <<x, x>> \notin R
    BY <1>1, <1>3 DEF ByDate, ByPosition
  <1>5. \A x, y, z \in S : <<x, y>> \in R /\ <<y, z>> \in R => <<x, z>> \in R
    BY <1>1, <1>3 DEF ByDate, ByPosition
  <1>6. \A x, y \in S : x # y => <<x, y>> \in R \/ <<y, x>> \in R
    BY <1>1, <1>3 DEF ByDate, ByPosition
  <1>7. PICK s \in Bijection(1 .. n, S) : \A i, j \in DOMAIN s : i < j => <<s[i], s[j]>> \in R
    BY <1>2, <1>4, <1>5, <1>6, SortExists
  <1>8. s \in Bijection(1 .. n, S) /\ sorted(s)
    <2>1. /\ DOMAIN s = 1 .. Len(s) /\ Range(s) = S
      BY <1>2, Listing
    <2>2. \A i \in DOMAIN s : s[i] \in S
      BY <2>1 DEF Range
    <2> QED  BY <1>3, <1>7, <2>2
  <1> HIDE DEF n
  <1>9. bucket \in Bijection(1 .. n, S) /\ sorted(bucket)
    <2> HIDE DEF sorted
    <2> QED  BY <1>8
  <1> HIDE DEF bucket
  <1>10. bucket \in Seq(S) /\ DOMAIN bucket = 1 .. Len(bucket) /\ Range(bucket) = S
    BY <1>2, <1>9, Listing DEF n
  <1>11. Len(bucket) \in Nat /\ \A i \in 1 .. Len(bucket) : bucket[i] \in S
    BY <1>10
  <1>12. \A i \in 1 .. Len(bucket) : bucket[i].days \in Int /\ bucket[i] # None
    BY <1>1, <1>11
  <1>13. \A i, j \in 1 .. Len(bucket) : i < j => bucket[i].days <= bucket[j].days
    <2> TAKE i, j \in 1 .. Len(bucket)
    <2> SUFFICES ASSUME i < j PROVE bucket[i].days <= bucket[j].days
      OBVIOUS
    <2>1. ByDate(bucket[i], bucket[j])
      BY <1>9, <1>10
    <2> QED  BY <1>12, <2>1 DEF ByDate
  <1>14. Dated(bucket)
    BY <1>10, <1>11, <1>12, <1>13 DEF Dated
  <1> QED  BY <1>1, <1>b, <1>10, <1>12, <1>14 DEF W

\* The lines in ascending id.
LEMMA OrderedIs ==
    ASSUME NEW ledger, IsLedger(ledger)
    PROVE  LET ordered == Sorted(ledger.lines, LAMBDA a, b : a.id < b.id) IN
           ordered \in Seq(ledger.lines) /\ Range(ordered) = ledger.lines
  <1> DEFINE S == ledger.lines
             R == {e \in S \X S : e[1].id < e[2].id}
             n == Cardinality(S)
             sorted(s) == \A i, j \in DOMAIN s : i < j => s[i].id < s[j].id
             ordered == CHOOSE s \in Bijection(1 .. n, S) : sorted(s)
  <1>1. IsFiniteSet(S) /\ (\A l \in S : l.id \in Int) /\ \A l, m \in S : l.id = m.id => l = m
    BY DEF IsLedger
  <1>b. Sorted(ledger.lines, LAMBDA a, b : a.id < b.id) = ordered
    BY DEF Sorted
  <1> HIDE DEF S
  <1>3. \A x, y \in S : <<x, y>> \in R <=> x.id < y.id
    OBVIOUS
  <1> HIDE DEF R
  <1>4. \A x \in S : <<x, x>> \notin R
    BY <1>1, <1>3
  <1>5. \A x, y, z \in S : <<x, y>> \in R /\ <<y, z>> \in R => <<x, z>> \in R
    BY <1>1, <1>3
  <1>6. \A x, y \in S : x # y => <<x, y>> \in R \/ <<y, x>> \in R
    BY <1>1, <1>3
  <1>7. PICK s \in Bijection(1 .. n, S) : \A i, j \in DOMAIN s : i < j => <<s[i], s[j]>> \in R
    BY <1>1, <1>4, <1>5, <1>6, SortExists
  <1>8. s \in Bijection(1 .. n, S) /\ sorted(s)
    <2>1. Range(s) = S
      BY <1>1, Listing
    <2>2. \A i \in DOMAIN s : s[i] \in S
      BY <2>1 DEF Range
    <2> QED  BY <1>3, <1>7, <2>2
  <1> HIDE DEF n, sorted
  <1>9. ordered \in Bijection(1 .. n, S)
    BY <1>8
  <1> HIDE DEF ordered
  <1>10. ordered \in Seq(S) /\ Range(ordered) = S
    BY <1>1, <1>9, Listing DEF n
  <1> QED  BY <1>b, <1>10 DEF S

\* The postings a line may group: each once.
LEMMA EligibleIs ==
    ASSUME NEW ledger, IsLedger(ledger), NEW used, NEW line, line.days \in Int, NEW window
    PROVE  LET eligible == Eligible(ledger.postings, used, line, window) IN
           /\ eligible \in Seq(ledger.postings)
           /\ Range(eligible) = {p \in ledger.postings :
                                   /\ p.days # None /\ p \notin used
                                   /\ p.currency = line.currency
                                   /\ Distance(p, line.days) <= window}
           /\ \A i, j \in DOMAIN eligible : eligible[i] = eligible[j] => i = j
  <1> DEFINE S == {p \in Candidates(ledger.postings) \ used :
                     p.currency = line.currency /\ Distance(p, line.days) <= window}
             W == {p \in ledger.postings : /\ p.days # None /\ p \notin used
                                           /\ p.currency = line.currency
                                           /\ Distance(p, line.days) <= window}
             before(a, b) == \/ Distance(a, line.days) < Distance(b, line.days)
                             \/ /\ Distance(a, line.days) = Distance(b, line.days)
                                /\ \/ a.amount > b.amount
                                   \/ a.amount = b.amount /\ ByPosition(a, b)
             R == {e \in S \X S : before(e[1], e[2])}
             n == Cardinality(S)
             sorted(s) == \A i, j \in DOMAIN s : i < j => before(s[i], s[j])
             eligible == CHOOSE s \in Bijection(1 .. n, S) : sorted(s)
  <1>1. /\ S \in SUBSET ledger.postings /\ S = W
        /\ \A p \in S : p.days \in Int /\ p.entry \in Int /\ p.index \in Int /\ p.amount \in Int
        /\ \A p, q \in S : p.entry = q.entry /\ p.index = q.index => p = q
    BY DEF Candidates, IsLedger
  <1>2. IsFiniteSet(S)
    BY <1>1, FS_Subset DEF IsLedger
  <1>b. Eligible(ledger.postings, used, line, window) = eligible
    BY DEF Eligible, Sorted
  <1> HIDE DEF S, W
  <1>d. \A p \in S : Distance(p, line.days) \in Int
    BY <1>1 DEF Distance
  <1>3. \A x, y \in S : <<x, y>> \in R <=> before(x, y)
    OBVIOUS
  <1> HIDE DEF R
  <1>4. \A x \in S : <<x, x>> \notin R
    BY <1>1, <1>d, <1>3 DEF ByPosition
  <1>5. \A x, y, z \in S : <<x, y>> \in R /\ <<y, z>> \in R => <<x, z>> \in R
    BY <1>1, <1>d, <1>3 DEF ByPosition
  <1>6. \A x, y \in S : x # y => <<x, y>> \in R \/ <<y, x>> \in R
    BY <1>1, <1>d, <1>3 DEF ByPosition
  <1>7. PICK s \in Bijection(1 .. n, S) : \A i, j \in DOMAIN s : i < j => <<s[i], s[j]>> \in R
    BY <1>2, <1>4, <1>5, <1>6, SortExists
  <1> HIDE DEF before
  <1>8. s \in Bijection(1 .. n, S) /\ sorted(s)
    <2>1. Range(s) = S
      BY <1>2, Listing
    <2>2. \A i \in DOMAIN s : s[i] \in S
      BY <2>1 DEF Range
    <2> QED  BY <1>3, <1>7, <2>2
  <1> HIDE DEF n, sorted
  <1>9. eligible \in Bijection(1 .. n, S)
    BY <1>8
  <1> HIDE DEF eligible
  <1>10. /\ eligible \in Seq(S) /\ Range(eligible) = S
         /\ \A i, j \in DOMAIN eligible : eligible[i] = eligible[j] => i = j
    BY <1>2, <1>9, Listing DEF n
  <1>11. eligible \in Seq(ledger.postings)
    BY <1>1, <1>10
  <1> QED  BY <1>1, <1>b, <1>10, <1>11 DEF W

\* The matches in ascending line.
LEMMA MatchesListed ==
    ASSUME NEW S, IsFiniteSet(S), \A m \in S : m.line \in Int,
           \A m, n \in S : m.line = n.line => m = n
    PROVE  LET list == Sorted(S, LAMBDA a, b : a.line < b.line) IN
           /\ list \in Seq(S) /\ Range(list) = S
           /\ \A i, j \in DOMAIN list : list[i] = list[j] => i = j
           /\ \A i, j \in DOMAIN list : i < j => list[i].line < list[j].line
  <1> DEFINE R == {e \in S \X S : e[1].line < e[2].line}
             n == Cardinality(S)
             sorted(s) == \A i, j \in DOMAIN s : i < j => s[i].line < s[j].line
             list == CHOOSE s \in Bijection(1 .. n, S) : sorted(s)
  <1>b. Sorted(S, LAMBDA a, b : a.line < b.line) = list
    BY DEF Sorted
  <1>3. \A x, y \in S : <<x, y>> \in R <=> x.line < y.line
    OBVIOUS
  <1> HIDE DEF R
  <1>4. \A x \in S : <<x, x>> \notin R
    BY <1>3
  <1>5. \A x, y, z \in S : <<x, y>> \in R /\ <<y, z>> \in R => <<x, z>> \in R
    BY <1>3
  <1>6. \A x, y \in S : x # y => <<x, y>> \in R \/ <<y, x>> \in R
    BY <1>3
  <1>7. PICK s \in Bijection(1 .. n, S) : \A i, j \in DOMAIN s : i < j => <<s[i], s[j]>> \in R
    BY <1>4, <1>5, <1>6, SortExists
  <1>8. s \in Bijection(1 .. n, S) /\ sorted(s)
    <2>1. Range(s) = S
      BY Listing
    <2>2. \A i \in DOMAIN s : s[i] \in S
      BY <2>1 DEF Range
    <2> QED  BY <1>3, <1>7, <2>2
  <1> HIDE DEF n, sorted
  <1>9. list \in Bijection(1 .. n, S) /\ sorted(list)
    BY <1>8
  <1> HIDE DEF list
  <1>10. /\ list \in Seq(S) /\ Range(list) = S
         /\ \A i, j \in DOMAIN list : list[i] = list[j] => i = j
    BY <1>9, Listing DEF n
  <1> QED  BY <1>b, <1>9, <1>10 DEF sorted

-----------------------------------------------------------------------------
(* The passes *)

\* The line and the postings of a match have dates, these in the window, and it is
\* called exact when it is.
Within(ledger, window, match) ==
    /\ LineOf(ledger, match).days # None
    /\ \A p \in Range(match.postings) :
         p.days # None /\ Distance(p, LineOf(ledger, match).days) <= window
    /\ match.kind = "exact" <=> match.dateDelta = 0 /\ Len(match.postings) = 1

\* What a pass keeps: matches that cover their lines, apart from each other, and
\* the postings they use.
Kept(ledger, window, st) ==
    /\ st.found \subseteq MatchOf(ledger) /\ IsFiniteSet(st.found)
    /\ \A m \in st.found : Covers(ledger, m) /\ Within(ledger, window, m)
    /\ \A m, n \in st.found : m # n =>
         m.line # n.line /\ Range(m.postings) \cap Range(n.postings) = {}
    /\ st.used = UNION {Range(m.postings) : m \in st.found}

\* A line is matched, or has no posting of its amount left in the window.
Served(ledger, window, st, line) ==
    line.days # None =>
      \/ \E m \in st.found : m.line = line.id
      \/ \A p \in ledger.postings :
           /\ p.days # None /\ p.amount = line.amount /\ p.currency = line.currency
           /\ Distance(p, line.days) <= window
           => p \in st.used

\* A line is matched, or no group of what is left adds up to it, where a search may
\* try every group there is.
Searched(ledger, opts, st, line) ==
    (\A m \in st.found : m.line # line.id)
      /\ opts.combinations >= Cardinality(SUBSET ledger.postings)
    => Covering(opts, line, ledger.postings \ st.used) = {}

Grows(st, next) == st.found \subseteq next.found /\ st.used \subseteq next.used

LEMMA ServedOn ==
    ASSUME NEW ledger, NEW window, NEW st, NEW next, NEW line,
           Served(ledger, window, st, line), Grows(st, next)
    PROVE  Served(ledger, window, next, line)
  BY DEF Served, Grows

LEMMA SearchedOn ==
    ASSUME NEW ledger, NEW opts, NEW st, NEW next, NEW line,
           Searched(ledger, opts, st, line), Grows(st, next)
    PROVE  Searched(ledger, opts, next, line)
  <1> SUFFICES ASSUME \A m \in next.found : m.line # line.id,
                      opts.combinations >= Cardinality(SUBSET ledger.postings)
               PROVE  Covering(opts, line, ledger.postings \ next.used) = {}
    BY DEF Searched
  <1>1. Covering(opts, line, ledger.postings \ st.used) = {}
    BY DEF Searched, Grows
  <1>2. ledger.postings \ next.used \subseteq ledger.postings \ st.used
    BY DEF Grows
  <1>3. Covering(opts, line, ledger.postings \ next.used)
          \subseteq Covering(opts, line, ledger.postings \ st.used)
    BY <1>2 DEF Covering
  <1> QED  BY <1>1, <1>3

LEMMA LineFound ==
    ASSUME NEW ledger, IsLedger(ledger), NEW line \in ledger.lines, NEW match, match.line = line.id
    PROVE  LineOf(ledger, match) = line
  BY DEF LineOf, IsLedger

\* An open line takes a group of free postings that covers it.
LEMMA TakenKept ==
    ASSUME NEW ledger, IsLedger(ledger), NEW window, NEW st, Kept(ledger, window, st),
           NEW line \in ledger.lines, Open(st, line),
           NEW group \in Seq(ledger.postings),
           \A i, j \in DOMAIN group : group[i] = group[j] => i = j,
           \A p \in Range(group) : /\ p \notin st.used /\ p.currency = line.currency
                                   /\ p.days # None /\ Distance(p, line.days) <= window,
           Amount(Range(group)) = line.amount,
           NEW kind \in {"exact", "suggested", "sum"}, NEW delta \in Int,
           kind = "exact" <=> delta = 0 /\ Len(group) = 1,
           NEW next, next.used = st.used \cup Range(group),
           next.found = st.found \cup {Match(line, group, kind, delta)}
    PROVE  Kept(ledger, window, next)
  <1> DEFINE match == Match(line, group, kind, delta)
  <1>1. /\ match.line = line.id /\ match.postings = group
        /\ match.kind = kind /\ match.dateDelta = delta
    BY DEF Match
  <1>2. match \in MatchOf(ledger)
    BY DEF Match, MatchOf, Status
  <1>3. LineOf(ledger, match) = line
    BY <1>1, LineFound
  <1> HIDE DEF match
  <1>4. Covers(ledger, match) /\ Within(ledger, window, match)
    <2>1. IsInjective(group)
      BY DEF IsInjective
    <2> QED  BY <1>1, <1>3, <2>1 DEF Covers, Within, Open
  <1>5. next.found = st.found \cup {match}
    BY DEF match
  <1>6. IsFiniteSet(next.found)
    <2>1. IsFiniteSet(st.found)
      BY DEF Kept
    <2>2. IsFiniteSet(st.found \cup {match})
      BY <2>1, FS_AddElement
    <2> QED  BY <1>5, <2>2
  <1>7. \A m \in st.found : m.line # match.line /\ Range(m.postings) \cap Range(match.postings) = {}
    BY <1>1 DEF Open, Kept
  <1>8. \A m, n \in next.found : m # n =>
          m.line # n.line /\ Range(m.postings) \cap Range(n.postings) = {}
    <2>1. \A m, n \in st.found : m # n =>
            m.line # n.line /\ Range(m.postings) \cap Range(n.postings) = {}
      BY DEF Kept
    <2> QED  BY <1>5, <1>7, <2>1
  <1>9. next.used = UNION {Range(m.postings) : m \in next.found}
    <2>1. UNION {Range(m.postings) : m \in next.found}
            = (UNION {Range(m.postings) : m \in st.found}) \cup Range(match.postings)
      BY <1>5
    <2> QED  BY <1>1, <2>1 DEF Kept
  <1> QED  BY <1>2, <1>4, <1>5, <1>6, <1>8, <1>9 DEF Kept

LEMMA ListOfOne ==
    ASSUME NEW S, NEW x \in S
    PROVE  <<x>> \in Seq(S)
  OBVIOUS

LEMMA NearestKept ==
    ASSUME NEW ledger, IsLedger(ledger), NEW window \in Nat, NEW near \in Nat, near <= window,
           NEW st, Kept(ledger, window, st), NEW line \in ledger.lines,
           NEW kind \in {"exact", "suggested"}, kind = "exact" => near = 0,
           kind = "suggested" => Served(ledger, 0, st, line)
    PROVE  LET next == TakeNearest(st, line, ledger.postings, near, kind) IN
           /\ Kept(ledger, window, next) /\ Grows(st, next)
           /\ Served(ledger, near, next, line)
  <1> DEFINE bucket == Bucket(ledger.postings, line)
             posting == TakeNearestCandidate(bucket, st.used, line.days, near)
             took == [used |-> st.used \cup {posting},
                      found |-> st.found \cup
                        {Match(line, <<posting>>, kind, posting.days - line.days)}]
             next == TakeNearest(st, line, ledger.postings, near, kind)
  <1>1. next = IF ~Open(st, line) \/ posting = None THEN st ELSE took
    BY DEF TakeNearest
  <1>2. /\ Dated(bucket)
        /\ Range(bucket) = {p \in ledger.postings : /\ p.days # None /\ p.amount = line.amount
                                                    /\ p.currency = line.currency}
        /\ \A i \in DOMAIN bucket : bucket[i] # None
    BY BucketIs
  <1> HIDE DEF bucket, next
  <1>3. \A p \in Range(bucket) : \E i \in DOMAIN bucket : bucket[i] = p
    BY DEF Range
  <1>4. CASE line.days = None
    <2>1. next = st
      BY <1>1, <1>4 DEF Open
    <2> QED  BY <1>4, <2>1 DEF Grows, Served, next
  <1>5. CASE line.days # None
    <2>1. line.days \in Int
      BY <1>5 DEF IsLedger
    <2>2. /\ posting = None =>
               \A i \in DOMAIN bucket :
                 bucket[i] \in st.used \/ Distance(bucket[i], line.days) > near
          /\ posting # None =>
               /\ posting \in Range(bucket) /\ posting \notin st.used
               /\ Distance(posting, line.days) <= near
      BY <1>2, <2>1, NearestTaken
    <2> HIDE DEF posting
    <2>3. CASE ~Open(st, line)
      <3>1. next = st
        BY <1>1, <2>3
      <3>2. Served(ledger, near, st, line)
        BY <1>5, <2>3 DEF Open, Served
      <3> QED  BY <3>1, <3>2 DEF Grows, next
    <2>4. CASE Open(st, line) /\ posting = None
      <3>1. next = st
        BY <1>1, <2>4
      <3>2. ASSUME NEW p \in ledger.postings, p.days # None, p.amount = line.amount,
                   p.currency = line.currency, Distance(p, line.days) <= near
            PROVE  p \in st.used
        <4>1. PICK i \in DOMAIN bucket : bucket[i] = p
          BY <1>2, <1>3, <3>2
        <4>2. p \in st.used \/ Distance(p, line.days) > near
          BY <2>2, <2>4, <4>1
        <4>3. Distance(p, line.days) \in Int
          BY <2>1, <3>2 DEF Distance, IsLedger
        <4> QED  BY <3>2, <4>2, <4>3
      <3>3. Served(ledger, near, st, line)
        BY <3>2 DEF Served
      <3> QED  BY <3>1, <3>3 DEF Grows, next
    <2>5. CASE Open(st, line) /\ posting # None
      <3> DEFINE group == <<posting>>
                 delta == posting.days - line.days
      <3>1. next = took
        BY <1>1, <2>5
      <3>2. /\ posting \in ledger.postings /\ posting \notin st.used
            /\ posting.days # None /\ posting.amount = line.amount
            /\ posting.currency = line.currency /\ Distance(posting, line.days) <= near
            /\ posting.days \in Int /\ posting.amount \in Int
        BY <1>2, <2>2, <2>5 DEF IsLedger
      <3>3. delta \in Int
        BY <2>1, <3>2
      <3>4. group \in Seq(ledger.postings) /\ Range(group) = {posting}
            /\ \A i, j \in DOMAIN group : group[i] = group[j] => i = j
        <4>1. group \in Seq(ledger.postings) /\ DOMAIN group = {1} /\ group[1] = posting
          <5>1. posting \in ledger.postings
            BY <3>2
          <5>2. Len(group) = 1 /\ group[1] = posting
            OBVIOUS
          <5>3. group \in Seq(ledger.postings)
            BY <5>1, ListOfOne
          <5> HIDE DEF group
          <5>4. DOMAIN group = 1 .. 1
            BY <5>2, <5>3
          <5> QED  BY <5>2, <5>3, <5>4
        <4> HIDE DEF group
        <4> QED  BY <4>1 DEF Range
      <3>5. Amount(Range(group)) = line.amount
        <4> DEFINE U == {posting}
        <4>1. IsFiniteSet(U) /\ (\A x \in U : x.amount \in Int) /\ U \in SUBSET U
              /\ posting \in U /\ U \ {posting} = {}
          BY <3>2, FS_Singleton
        <4> HIDE DEF U
        <4>2. Amount({}) = 0 /\ Amount(U) = posting.amount + Amount(U \ {posting})
          BY <4>1, AmountFirst
        <4>3. Amount(U) = posting.amount
          <5>1. Amount(U \ {posting}) = 0
            BY <4>1, <4>2
          <5> QED  BY <3>2, <4>2, <5>1
        <4>4. Range(group) = U
          BY <3>4 DEF U
        <4> HIDE DEF group
        <4> QED  BY <3>2, <4>3, <4>4
      <3>6. next.used = st.used \cup Range(group)
            /\ next.found = st.found \cup {Match(line, group, kind, delta)}
        BY <3>1, <3>4
      <3>7. Distance(posting, line.days) <= window
        <4>1. Distance(posting, line.days) \in Int
          BY <2>1, <3>2 DEF Distance
        <4> QED  BY <3>2, <4>1
      <3>8. Match(line, group, kind, delta).line = line.id
        BY DEF Match
      <3>9. Len(group) = 1
        OBVIOUS
      <3>10. kind = "exact" <=> delta = 0
        <4>1. Distance(posting, line.days) \in Int
              /\ (Distance(posting, line.days) <= 0 <=> delta = 0)
          BY <2>1, <3>2 DEF Distance
        <4>2. kind = "exact" => delta = 0
          BY <3>2, <4>1
        <4>3. kind = "suggested" => delta # 0
          <5>1. CASE kind = "suggested" /\ delta = 0
            <6>1. \A m \in st.found : m.line # line.id
              BY <2>5 DEF Open
            <6>2. posting \in st.used
              BY <1>5, <3>2, <4>1, <5>1, <6>1 DEF Served
            <6> QED  BY <3>2, <6>2
          <5> QED  BY <5>1
        <4> QED  BY <4>2, <4>3
      <3> HIDE DEF group, delta
      <3>11. Kept(ledger, window, next)
        <4>1. \A p \in Range(group) : /\ p \notin st.used /\ p.currency = line.currency
                                      /\ p.days # None /\ Distance(p, line.days) <= window
          BY <3>2, <3>4, <3>7
        <4>2. kind \in {"exact", "suggested", "sum"}
          OBVIOUS
        <4> QED  BY <2>5, <3>3, <3>4, <3>5, <3>6, <3>9, <3>10, <4>1, <4>2, TakenKept
      <3>12. Grows(st, next) /\ Served(ledger, near, next, line)
        BY <3>6, <3>8 DEF Grows, Served
      <3> QED  BY <3>11, <3>12 DEF next
    <2> QED  BY <2>3, <2>4, <2>5
  <1> QED  BY <1>4, <1>5

LEMMA GroupKept ==
    ASSUME NEW ledger, IsLedger(ledger), NEW opts, opts.window \in Nat,
           NEW st, Kept(ledger, opts.window, st), NEW line \in ledger.lines
    PROVE  LET next == TakeGroup(st, line, ledger.postings, opts) IN
           /\ Kept(ledger, opts.window, next) /\ Grows(st, next)
           /\ opts.group \in Nat /\ opts.combinations \in Nat =>
                Searched(ledger, opts, next, line)
  <1> DEFINE window == opts.window
             eligible == Eligible(ledger.postings, st.used, line, window)
             group == SearchGroup(eligible, line.amount, opts)
             delta == WorstDelta(group, line.days)
             next == TakeGroup(st, line, ledger.postings, opts)
  <1>1. next = IF ~Open(st, line) \/ group = <<>> THEN st
               ELSE [used |-> st.used \cup Range(group),
                     found |-> st.found \cup {Match(line, group, "sum", delta)}]
    BY DEF TakeGroup
  <1>2. CASE ~Open(st, line) \/ group = <<>>
    <2>1. next = st
      BY <1>1, <1>2
    <2>2. ASSUME opts.group \in Nat, opts.combinations \in Nat
          PROVE  Searched(ledger, opts, st, line)
      <3>1. CASE ~Open(st, line)
        <4>1. line.days = None \/ \E m \in st.found : m.line = line.id
          BY <3>1 DEF Open
        <4>2. CASE line.days = None
          <5>1. \A p : ~Near(opts, p, line)
            BY <4>2 DEF Near
          <5>2. \A free : Covering(opts, line, free) = {}
            <6>1. Cardinality({}) \notin 2 .. opts.group
              BY <2>2, FS_EmptySet
            <6> QED  BY <5>1, <6>1 DEF Covering
          <5> QED  BY <5>2 DEF Searched
        <4> QED  BY <4>1, <4>2 DEF Searched
      <3>2. CASE Open(st, line) /\ group = <<>>
        <4> SUFFICES ASSUME opts.combinations >= Cardinality(SUBSET ledger.postings),
                            NEW covering \in Covering(opts, line, ledger.postings \ st.used)
                     PROVE  FALSE
          BY DEF Searched
        <4>1. line.days \in Int
          BY <3>2 DEF Open, IsLedger
        <4>2. /\ eligible \in Seq(ledger.postings)
              /\ Range(eligible) = {p \in ledger.postings :
                                      /\ p.days # None /\ p \notin st.used
                                      /\ p.currency = line.currency
                                      /\ Distance(p, line.days) <= window}
              /\ \A i, j \in DOMAIN eligible : eligible[i] = eligible[j] => i = j
          BY <4>1, EligibleIs
        <4> HIDE DEF eligible
        <4>3. /\ covering \in SUBSET Range(eligible)
              /\ Cardinality(covering) \in 2 .. opts.group /\ Amount(covering) = line.amount
          BY <4>2 DEF Covering, Near
        <4>4. /\ \A p \in ledger.postings : p.amount \in Int
              /\ line.amount \in Int /\ IsFiniteSet(ledger.postings)
          BY DEF IsLedger
        <4>5. Cardinality(SUBSET Range(eligible)) <= opts.combinations
          <5> DEFINE some == Cardinality(SUBSET Range(eligible))
                     all == Cardinality(SUBSET ledger.postings)
          <5>1. some \in Nat /\ all \in Nat /\ some <= all
            <6>1. Range(eligible) \in SUBSET ledger.postings
              BY <4>2
            <6> QED  BY <4>4, <6>1, FewerSubsets
          <5>2. opts.combinations >= all
            OBVIOUS
          <5> HIDE DEF some, all
          <5>3. some <= opts.combinations
            BY <2>2, <5>1, <5>2
          <5> QED  BY <5>3 DEF some
        <4>6. Amount(covering) # line.amount
          BY <2>2, <3>2, <4>2, <4>3, <4>4, <4>5, GroupNotMissed
        <4> QED  BY <4>3, <4>6
      <3> QED  BY <1>2, <3>1, <3>2
    <2> HIDE DEF next
    <2> QED  BY <2>1, <2>2 DEF Grows, next
  <1>3. CASE Open(st, line) /\ group # <<>>
    <2>1. line.days \in Int
      BY <1>3 DEF Open, IsLedger
    <2>2. /\ eligible \in Seq(ledger.postings)
          /\ Range(eligible) = {p \in ledger.postings :
                                  /\ p.days # None /\ p \notin st.used
                                  /\ p.currency = line.currency
                                  /\ Distance(p, line.days) <= window}
          /\ \A i, j \in DOMAIN eligible : eligible[i] = eligible[j] => i = j
      BY <2>1, EligibleIs
    <2> HIDE DEF eligible
    <2>3. group \in Seq(Range(eligible)) /\ Adds(line.amount, group)
      BY <1>3, <2>2, GroupFound
    <2> HIDE DEF group, next
    <2>4. \A p \in Range(group) : p \in Range(eligible)
      <3>1. \A i \in DOMAIN group : group[i] \in Range(eligible)
        BY <2>3
      <3> QED  BY <3>1 DEF Range
    <2>5. \A p \in Range(eligible) : p \in ledger.postings /\ p.days \in Int /\ p.amount \in Int
      BY <2>2 DEF IsLedger
    <2>6. group \in Seq(ledger.postings)
      <3>1. Range(eligible) \subseteq ledger.postings
        BY <2>5
      <3> QED  BY <2>3, <3>1
    <2>7. \A i, j \in DOMAIN group : group[i] = group[j] => i = j
      BY <2>3 DEF Adds
    <2>8. delta \in Int
      BY <2>1, <2>3, <2>5, WorstIsInt
    <2>9. Amount(Range(group)) = line.amount
      BY <2>3, <2>5, <2>7, GroupAdds DEF Adds
    <2>10. \A p \in Range(group) : /\ p \notin st.used /\ p.currency = line.currency
                                   /\ p.days # None /\ Distance(p, line.days) <= window
      BY <2>2, <2>4
    <2> HIDE DEF delta
    <2>11. next.used = st.used \cup Range(group)
           /\ next.found = st.found \cup {Match(line, group, "sum", delta)}
      BY <1>1, <1>3
    <2>12. Kept(ledger, window, next)
      <3>1. "sum" \in {"exact", "suggested", "sum"} /\ "sum" # "exact"
        OBVIOUS
      <3>2. Len(group) # 1
        BY <2>3 DEF Adds
      <3> QED  BY <1>3, <2>6, <2>7, <2>8, <2>9, <2>10, <2>11, <3>1, <3>2, TakenKept
    <2>13. Searched(ledger, opts, next, line)
      <3>1. Match(line, group, "sum", delta).line = line.id
        BY DEF Match
      <3> QED  BY <2>11, <3>1 DEF Searched
    <2> QED  BY <2>11, <2>12, <2>13 DEF Grows, next
  <1> QED  BY <1>2, <1>3

LEMMA NearestPassKept ==
    ASSUME NEW ledger, IsLedger(ledger), NEW window \in Nat, NEW near \in Nat, near <= window,
           NEW st, Kept(ledger, window, st), NEW lines \in Seq(ledger.lines),
           NEW kind \in {"exact", "suggested"}, kind = "exact" => near = 0,
           kind = "suggested" => \A line \in Range(lines) : Served(ledger, 0, st, line)
    PROVE  LET next == NearestPass(st, lines, ledger.postings, near, kind) IN
           /\ Kept(ledger, window, next) /\ Grows(st, next)
           /\ \A line \in Range(lines) : Served(ledger, near, next, line)
  <1> DEFINE L == Len(lines)
             how == Pairing(st, lines, ledger.postings, near, kind)
             at(n) == Folded(how, 1 .. n)
             fits(n) == /\ Kept(ledger, window, at(n)) /\ Grows(st, at(n))
                        /\ \A i \in 1 .. n : Served(ledger, near, at(n), lines[i])
             T == {n \in 0 .. L : fits(n)}
  <1>1. L \in Nat /\ DOMAIN lines = 1 .. L /\ \A i \in 1 .. L : lines[i] \in ledger.lines
    OBVIOUS
  <1>2. ~Summing(how) /\ how.base = st
    BY DEF Summing, Pairing
  <1>3. \A i, acc : Joined(how, i, acc) = TakeNearest(acc, lines[i], ledger.postings, near, kind)
    BY DEF Joined, Summing, Pairing
  <1>4. NearestPass(st, lines, ledger.postings, near, kind) = at(L)
    BY <1>1, NearestIsFold
  <1> HIDE DEF how, L
  <1>5. /\ at(0) = st
        /\ \A n \in 1 .. L :
             at(n) = TakeNearest(at(n - 1), lines[n], ledger.postings, near, kind)
    BY <1>1, <1>2, <1>3, FoldUp
  <1> HIDE DEF at
  <1>6. 0 \in T
    <2>1. fits(0)
      BY <1>5 DEF Grows
    <2> QED  BY <1>1, <2>1
  <1>7. ASSUME NEW n \in 1 .. L, n - 1 \in T PROVE n \in T
    <2>1. fits(n - 1)
      BY <1>7
    <2> DEFINE next == at(n)
    <2>2. /\ Kept(ledger, window, next) /\ Grows(at(n - 1), next)
          /\ Served(ledger, near, next, lines[n])
      <3>1. lines[n] \in ledger.lines /\ lines[n] \in Range(lines)
        BY <1>1 DEF Range
      <3>2. kind = "suggested" => Served(ledger, 0, at(n - 1), lines[n])
        BY <2>1, <3>1, ServedOn
      <3> QED  BY <1>5, <2>1, <3>1, <3>2, NearestKept
    <2>3. Grows(st, next)
      BY <2>1, <2>2 DEF Grows
    <2>4. \A i \in 1 .. n : Served(ledger, near, next, lines[i])
      <3> TAKE i \in 1 .. n
      <3>1. i = n \/ i \in 1 .. n - 1
        BY <1>1
      <3> QED  BY <2>1, <2>2, <3>1, ServedOn
    <2>5. fits(n)
      BY <2>2, <2>3, <2>4
    <2> HIDE DEF fits
    <2>6. n \in 0 .. L
      BY <1>1
    <2> QED  BY <2>5, <2>6
  <1>a. \A n \in 1 .. L : n - 1 \in T => n \in T
    BY <1>7
  <1> HIDE DEF T
  <1>b. \A n \in 0 .. L : n \in T
    BY <1>1, <1>6, <1>a, Counting
  <1>8. fits(L)
    <2>1. L \in T
      BY <1>1, <1>b
    <2> QED  BY <2>1 DEF T
  <1>9. \A line \in Range(lines) : \E i \in 1 .. L : lines[i] = line
    BY <1>1 DEF Range
  <1> QED  BY <1>4, <1>8, <1>9

LEMMA SumPassKept ==
    ASSUME NEW ledger, IsLedger(ledger), NEW opts, opts.window \in Nat,
           NEW st, Kept(ledger, opts.window, st), NEW lines \in Seq(ledger.lines)
    PROVE  LET next == SumPass(st, lines, ledger.postings, opts) IN
           /\ Kept(ledger, opts.window, next) /\ Grows(st, next)
           /\ opts.group \in Nat /\ opts.combinations \in Nat =>
                \A line \in Range(lines) : Searched(ledger, opts, next, line)
  <1> DEFINE L == Len(lines)
             how == Grouping(st, lines, ledger.postings, opts)
             at(n) == Folded(how, 1 .. n)
             counted == opts.group \in Nat /\ opts.combinations \in Nat
             fits(n) == /\ Kept(ledger, opts.window, at(n)) /\ Grows(st, at(n))
                        /\ counted => \A i \in 1 .. n : Searched(ledger, opts, at(n), lines[i])
             T == {n \in 0 .. L : fits(n)}
  <1>1. L \in Nat /\ DOMAIN lines = 1 .. L /\ \A i \in 1 .. L : lines[i] \in ledger.lines
    OBVIOUS
  <1>2. ~Summing(how) /\ how.base = st
    BY DEF Summing, Grouping
  <1>3. \A i, acc : Joined(how, i, acc) = TakeGroup(acc, lines[i], ledger.postings, opts)
    BY DEF Joined, Summing, Grouping
  <1>4. SumPass(st, lines, ledger.postings, opts) = at(L)
    BY <1>1, SumPassIsFold
  <1> HIDE DEF how, L
  <1>5. /\ at(0) = st
        /\ \A n \in 1 .. L : at(n) = TakeGroup(at(n - 1), lines[n], ledger.postings, opts)
    BY <1>1, <1>2, <1>3, FoldUp
  <1> HIDE DEF at, counted
  <1>6. 0 \in T
    <2>1. fits(0)
      BY <1>5 DEF Grows
    <2> QED  BY <1>1, <2>1
  <1>7. ASSUME NEW n \in 1 .. L, n - 1 \in T PROVE n \in T
    <2>1. fits(n - 1) /\ lines[n] \in ledger.lines
      BY <1>1, <1>7
    <2>2. /\ Kept(ledger, opts.window, at(n)) /\ Grows(at(n - 1), at(n))
          /\ counted => Searched(ledger, opts, at(n), lines[n])
      BY <1>5, <2>1, GroupKept DEF counted
    <2>3. Grows(st, at(n))
      BY <2>1, <2>2 DEF Grows
    <2>4. ASSUME counted PROVE \A i \in 1 .. n : Searched(ledger, opts, at(n), lines[i])
      <3> TAKE i \in 1 .. n
      <3>1. i = n \/ i \in 1 .. n - 1
        BY <1>1
      <3> QED  BY <2>1, <2>2, <2>4, <3>1, SearchedOn
    <2>5. fits(n)
      BY <2>2, <2>3, <2>4
    <2> HIDE DEF fits
    <2>6. n \in 0 .. L
      BY <1>1
    <2> QED  BY <2>5, <2>6
  <1>a. \A n \in 1 .. L : n - 1 \in T => n \in T
    BY <1>7
  <1> HIDE DEF T
  <1>b. \A n \in 0 .. L : n \in T
    BY <1>1, <1>6, <1>a, Counting
  <1>8. fits(L)
    <2>1. L \in T
      BY <1>1, <1>b
    <2> QED  BY <2>1 DEF T
  <1>9. \A line \in Range(lines) : \E i \in 1 .. L : lines[i] = line
    BY <1>1 DEF Range
  <1> QED  BY <1>4, <1>8, <1>9 DEF counted

-----------------------------------------------------------------------------
(* What is proposed *)

LEMMA ProposalsKept ==
    ASSUME NEW ledger, IsLedger(ledger), NEW opts, opts.window \in Nat
    PROVE  \E st : /\ Kept(ledger, opts.window, st)
                   /\ \A line \in ledger.lines : Served(ledger, opts.window, st, line)
                   /\ opts.window > 0 /\ opts.group \in Nat /\ opts.combinations \in Nat =>
                        \A line \in ledger.lines : Searched(ledger, opts, st, line)
                   /\ Proposals(ledger.lines, ledger.postings, opts)
                        = Sorted(st.found, LAMBDA a, b : a.line < b.line)
  <1> DEFINE window == opts.window
             ordered == Sorted(ledger.lines, LAMBDA a, b : a.id < b.id)
             start == [used |-> {}, found |-> {}]
             exact == NearestPass(start, ordered, ledger.postings, 0, "exact")
             suggested == NearestPass(exact, ordered, ledger.postings, window, "suggested")
             paired == IF window > 0 THEN suggested ELSE exact
             summed == IF window > 0 /\ opts.group >= 2
                       THEN SumPass(paired, ordered, ledger.postings, opts) ELSE paired
  <1>1. Proposals(ledger.lines, ledger.postings, opts)
          = Sorted(summed.found, LAMBDA a, b : a.line < b.line)
    BY DEF Proposals
  <1>2. ordered \in Seq(ledger.lines) /\ Range(ordered) = ledger.lines
    BY OrderedIs
  <1> HIDE DEF ordered
  <1>3. Kept(ledger, window, start)
    <2>1. start.found = {} /\ start.used = {}
      OBVIOUS
    <2> HIDE DEF start
    <2>2. IsFiniteSet(start.found)
      BY <2>1, FS_EmptySet
    <2> QED  BY <2>1, <2>2 DEF Kept
  <1> HIDE DEF start
  <1>4. /\ Kept(ledger, window, exact)
        /\ \A line \in ledger.lines : Served(ledger, 0, exact, line)
    <2>1. 0 \in Nat /\ 0 <= window /\ "exact" \in {"exact", "suggested"} /\ "exact" # "suggested"
      OBVIOUS
    <2> QED  BY <1>2, <1>3, <2>1, NearestPassKept
  <1> HIDE DEF exact
  <1>5. /\ Kept(ledger, window, suggested)
        /\ \A line \in ledger.lines : Served(ledger, window, suggested, line)
    <2>1. window <= window /\ "suggested" \in {"exact", "suggested"} /\ "exact" # "suggested"
      OBVIOUS
    <2> QED  BY <1>2, <1>4, <2>1, NearestPassKept
  <1> HIDE DEF suggested
  <1>6. /\ Kept(ledger, window, paired)
        /\ \A line \in ledger.lines : Served(ledger, window, paired, line)
    <2>1. CASE window > 0
      BY <1>5, <2>1
    <2>2. CASE ~(window > 0)
      <3>1. window = 0
        BY <2>2
      <3> QED  BY <1>4, <2>2, <3>1
    <2> QED  BY <2>1, <2>2
  <1> HIDE DEF paired
  <1>7. /\ Kept(ledger, window, summed)
        /\ \A line \in ledger.lines : Served(ledger, window, summed, line)
        /\ window > 0 /\ opts.group \in Nat /\ opts.combinations \in Nat =>
             \A line \in ledger.lines : Searched(ledger, opts, summed, line)
    <2> DEFINE next == SumPass(paired, ordered, ledger.postings, opts)
    <2>1. /\ Kept(ledger, window, next) /\ Grows(paired, next)
          /\ opts.group \in Nat /\ opts.combinations \in Nat =>
               \A line \in ledger.lines : Searched(ledger, opts, next, line)
      BY <1>2, <1>6, SumPassKept
    <2> HIDE DEF next
    <2>2. ASSUME window > 0, opts.group \in Nat, opts.combinations \in Nat,
                 NEW line \in ledger.lines
          PROVE  Searched(ledger, opts, summed, line)
      <3>1. CASE opts.group >= 2
        <4>1. summed = next
          BY <2>2, <3>1 DEF next
        <4> HIDE DEF summed
        <4> QED  BY <2>1, <2>2, <4>1
      <3>2. CASE ~(opts.group >= 2)
        <4>1. 2 .. opts.group = {}
          BY <2>2, <3>2
        <4> QED  BY <4>1 DEF Searched, Covering
      <3> QED  BY <3>1, <3>2
    <2>3. \A line \in ledger.lines : Served(ledger, window, next, line)
      BY <1>6, <2>1, ServedOn
    <2>4. summed = next \/ summed = paired
      BY DEF next
    <2> HIDE DEF summed
    <2> QED  BY <1>6, <2>1, <2>3, <2>4, <2>2
  <1> HIDE DEF summed
  <1> QED  BY <1>1, <1>7

LEMMA ProposalsListed ==
    ASSUME NEW ledger, IsLedger(ledger), NEW opts, opts.window \in Nat
    PROVE  LET list == Proposals(ledger.lines, ledger.postings, opts) IN
           \E st : /\ Kept(ledger, opts.window, st)
                   /\ \A line \in ledger.lines : Served(ledger, opts.window, st, line)
                   /\ opts.window > 0 /\ opts.group \in Nat /\ opts.combinations \in Nat =>
                        \A line \in ledger.lines : Searched(ledger, opts, st, line)
                   /\ list \in Seq(st.found) /\ Range(list) = st.found
                   /\ \A i, j \in DOMAIN list : list[i] = list[j] => i = j
  <1> DEFINE list == Proposals(ledger.lines, ledger.postings, opts)
  <1>1. PICK st : /\ Kept(ledger, opts.window, st)
                  /\ \A line \in ledger.lines : Served(ledger, opts.window, st, line)
                  /\ opts.window > 0 /\ opts.group \in Nat /\ opts.combinations \in Nat =>
                       \A line \in ledger.lines : Searched(ledger, opts, st, line)
                  /\ list = Sorted(st.found, LAMBDA a, b : a.line < b.line)
    BY ProposalsKept
  <1> HIDE DEF list
  <1>2. IsFiniteSet(st.found) /\ st.found \subseteq MatchOf(ledger)
    BY <1>1 DEF Kept
  <1>3. \A m \in st.found : m.line \in Int
    BY <1>2 DEF MatchOf, IsLedger
  <1>4. \A m, n \in st.found : m.line = n.line => m = n
    BY <1>1 DEF Kept
  <1>5. /\ list \in Seq(st.found) /\ Range(list) = st.found
        /\ \A i, j \in DOMAIN list : list[i] = list[j] => i = j
    BY <1>1, <1>2, <1>3, <1>4, MatchesListed
  <1> QED  BY <1>1, <1>5 DEF list

\* The matches proposed for any ledger cover their lines to the last unit with
\* postings of their currency in the window, no line and no posting is in two
\* (proposeMatches: "Every line and posting is used at most once across all
\* passes"), and those called exact are of one posting of the very day.
THEOREM ProposalsSound ==
    ASSUME NEW ledger, IsLedger(ledger), NEW opts, opts.window \in Nat
    PROVE  MatchesSound(ledger, opts, Proposals(ledger.lines, ledger.postings, opts))
  <1> DEFINE list == Proposals(ledger.lines, ledger.postings, opts)
  <1>1. PICK st : /\ Kept(ledger, opts.window, st)
                  /\ list \in Seq(st.found) /\ Range(list) = st.found
                  /\ \A i, j \in DOMAIN list : list[i] = list[j] => i = j
    BY ProposalsListed
  <1> HIDE DEF list
  <1>2. st.found \subseteq MatchOf(ledger)
    BY <1>1 DEF Kept
  <1>3. \A i \in DOMAIN list : list[i] \in st.found
    BY <1>1 DEF Range
  <1>4. Balanced(ledger, list)
    <2>1. list \in Seq(MatchOf(ledger))
      BY <1>1, <1>2
    <2>2. \A i \in DOMAIN list : Covers(ledger, list[i])
      BY <1>1, <1>3 DEF Kept
    <2>3. Apart(list)
      BY <1>1, <1>3 DEF Kept, Apart
    <2> QED  BY <2>1, <2>2, <2>3 DEF Balanced
  <1>5. ASSUME NEW match \in Range(list)
        PROVE  /\ \A p \in Range(match.postings) : Near(opts, p, LineOf(ledger, match))
               /\ match.kind = "exact" <=> match.dateDelta = 0 /\ Len(match.postings) = 1
    <2>1. Covers(ledger, match) /\ Within(ledger, opts.window, match)
      BY <1>1 DEF Kept
    <2> QED  BY <2>1 DEF Covers, Within, Near
  <1> QED  BY <1>4, <1>5 DEF MatchesSound, list

\* No line of any ledger is left unmatched beside a free posting of its amount, nor,
\* where a search may try every group there is, beside free postings that add up
\* to it: what the largest and the smallest sums prune (findSumGroup) could not
\* have been a match.
THEOREM NoMatchMissed ==
    ASSUME NEW ledger, IsLedger(ledger), NEW opts, opts.window \in Nat, opts.group \in Nat,
           opts.combinations \in Nat
    PROVE  NothingMissed(ledger, opts, Proposals(ledger.lines, ledger.postings, opts))
  <1> DEFINE list == Proposals(ledger.lines, ledger.postings, opts)
             left == ledger.postings \ UsedBy(Range(list))
  <1>1. PICK st : /\ Kept(ledger, opts.window, st)
                  /\ \A line \in ledger.lines : Served(ledger, opts.window, st, line)
                  /\ opts.window > 0 /\ opts.group \in Nat /\ opts.combinations \in Nat =>
                       \A line \in ledger.lines : Searched(ledger, opts, st, line)
                  /\ Range(list) = st.found
    BY ProposalsListed
  <1> HIDE DEF list
  <1>2. left = ledger.postings \ st.used
    BY <1>1 DEF Kept, UsedBy
  <1> HIDE DEF left
  <1>3. ASSUME NEW line \in ledger.lines, \A m \in Range(list) : m.line # line.id
        PROVE  /\ \A p \in left : ~(Near(opts, p, line) /\ p.amount = line.amount)
               /\ opts.window > 0 /\ opts.combinations >= Cardinality(SUBSET ledger.postings)
                    => Covering(opts, line, left) = {}
    <2>1. \A m \in st.found : m.line # line.id
      BY <1>1, <1>3
    <2>2. ASSUME NEW p \in left, Near(opts, p, line), p.amount = line.amount PROVE FALSE
      <3>1. Served(ledger, opts.window, st, line)
        BY <1>1
      <3> QED  BY <1>2, <2>1, <2>2, <3>1 DEF Served, Near
    <2>3. ASSUME opts.window > 0, opts.combinations >= Cardinality(SUBSET ledger.postings)
          PROVE  Covering(opts, line, left) = {}
      <3>1. Searched(ledger, opts, st, line)
        BY <1>1, <2>3
      <3> QED  BY <1>2, <2>1, <2>3, <3>1 DEF Searched
    <2> QED  BY <2>2, <2>3
  <1> QED  BY <1>3 DEF NothingMissed, list, left

-----------------------------------------------------------------------------
(* What is shown of balanced matches *)

\* A line has one active match at most.
LEMMA OneClaim ==
    ASSUME NEW ledger, IsLedger(ledger), NEW list, Balanced(ledger, list)
    PROVE  /\ \A line \in ledger.lines : \A i \in ClaimsOf(list, line) :
                ClaimsOf(list, line) = {i} /\ Max(ClaimsOf(list, line)) = i
           /\ \A i \in ActiveMatches(list) : \E line \in ledger.lines : i \in ClaimsOf(list, line)
           /\ \A i \in DOMAIN list : Range(list[i].postings) \subseteq ledger.postings
  <1>1. \A i \in DOMAIN list : list[i] \in MatchOf(ledger) /\ i \in Nat
    BY DEF Balanced
  <1>2. ASSUME NEW line \in ledger.lines, NEW i \in ClaimsOf(list, line)
        PROVE  ClaimsOf(list, line) = {i} /\ Max(ClaimsOf(list, line)) = i
    <2>1. ClaimsOf(list, line) = {i}
      BY <1>2 DEF ClaimsOf, ActiveMatches, Balanced, Apart
    <2>2. i \in Nat
      BY <1>1, <1>2 DEF ClaimsOf, ActiveMatches
    <2> QED  BY <2>1, <2>2 DEF Max
  <1>3. ASSUME NEW i \in ActiveMatches(list)
        PROVE  \E line \in ledger.lines : i \in ClaimsOf(list, line)
    BY <1>1 DEF ClaimsOf, ActiveMatches, MatchOf
  <1>4. ASSUME NEW i \in DOMAIN list PROVE Range(list[i].postings) \subseteq ledger.postings
    <2>1. list[i].postings \in Seq(ledger.postings)
      BY <1>1 DEF MatchOf
    <2> DEFINE s == list[i].postings
    <2> HIDE DEF s
    <2>2. s \in Seq(ledger.postings)
      BY <2>1 DEF s
    <2>3. Range(s) \subseteq ledger.postings
      BY <2>2 DEF Range
    <2> QED  BY <2>3 DEF s
  <1> QED  BY <1>2, <1>3, <1>4

LEMMA EachOnce ==
    ASSUME NEW ledger, IsLedger(ledger), NEW list, Balanced(ledger, list)
    PROVE  LET rows == Rows(ledger, list)
               shown == {p \in ledger.postings : BookOnly(p) \in rows}
               paired == Presented(ledger, list)
           IN  /\ shown \cap paired = {}
               /\ shown \cup paired = ledger.postings
               /\ Cardinality(rows) = Cardinality(ledger.lines) + Cardinality(shown)
  <1> DEFINE row(line) == IF ClaimsOf(list, line) # {} THEN Pair(line) ELSE StatementOnly(line)
             ofLines == {row(line) : line \in ledger.lines}
             alone == ledger.postings \ Claimed(list)
             ofBooks == {BookOnly(p) : p \in alone}
             rows == Rows(ledger, list)
             shown == {p \in ledger.postings : BookOnly(p) \in rows}
             paired == Presented(ledger, list)
  <1>1. rows = ofLines \cup ofBooks
    BY DEF Rows
  <1>2. /\ IsFiniteSet(ledger.lines) /\ IsFiniteSet(ledger.postings)
        /\ \A l, m \in ledger.lines : l.id = m.id => l = m
        /\ \A p, q \in ledger.postings : p.entry = q.entry /\ p.index = q.index => p = q
    BY DEF IsLedger
  <1>3. \A l \in ledger.lines : \A p \in ledger.postings : row(l) # BookOnly(p)
    BY DEF Pair, StatementOnly, BookOnly
  <1>4. \A l, m \in ledger.lines : row(l) = row(m) => l = m
    <2> SUFFICES ASSUME NEW l \in ledger.lines, NEW m \in ledger.lines, row(l) = row(m)
                 PROVE  l.id = m.id
      BY <1>2
    <2> QED  BY DEF Pair, StatementOnly
  <1>5. \A p, q \in ledger.postings : BookOnly(p) = BookOnly(q) => p = q
    BY <1>2 DEF BookOnly
  <1> HIDE DEF row, rows
  <1>6. shown = alone
    <2>1. \A p \in alone : BookOnly(p) \in rows
      BY <1>1
    <2>2. ASSUME NEW p \in ledger.postings, BookOnly(p) \in rows PROVE p \in alone
      BY <1>1, <1>3, <1>5, <2>2
    <2> QED  BY <2>1, <2>2
  <1>7. paired = Claimed(list)
    <2>1. ASSUME NEW p \in paired PROVE p \in Claimed(list)
      <3>1. PICK line \in ledger.lines :
              /\ ClaimsOf(list, line) # {}
              /\ p \in Range(list[Max(ClaimsOf(list, line))].postings)
        BY <2>1 DEF Presented
      <3>2. PICK i \in ClaimsOf(list, line) : TRUE
        BY <3>1
      <3>3. p \in Range(list[i].postings)
        BY <3>1, <3>2, OneClaim
      <3> QED  BY <3>2, <3>3 DEF Claimed, ClaimsOf
    <2>2. ASSUME NEW p \in Claimed(list) PROVE p \in paired
      <3>1. PICK i \in ActiveMatches(list) : p \in Range(list[i].postings)
        BY <2>2 DEF Claimed
      <3>2. PICK line \in ledger.lines : i \in ClaimsOf(list, line)
        BY OneClaim
      <3>3. Max(ClaimsOf(list, line)) = i /\ ClaimsOf(list, line) # {}
        BY <3>2, OneClaim
      <3> QED  BY <3>1, <3>3 DEF Presented
    <2> QED  BY <2>1, <2>2
  <1>8. Claimed(list) \subseteq ledger.postings
    BY OneClaim DEF Claimed, ActiveMatches
  <1>9. IsFiniteSet(ofLines) /\ Cardinality(ofLines) = Cardinality(ledger.lines)
    <2> DEFINE f == [line \in ledger.lines |-> row(line)]
    <2>1. f \in Bijection(ledger.lines, ofLines)
      BY <1>4 DEF Bijection, Injection, Surjection, IsInjective
    <2> HIDE DEF f, ofLines
    <2> QED  BY <1>2, <2>1, FS_Bijection DEF ExistsBijection
  <1>10. IsFiniteSet(ofBooks) /\ Cardinality(ofBooks) = Cardinality(alone)
    <2> DEFINE f == [p \in alone |-> BookOnly(p)]
    <2>1. f \in Bijection(alone, ofBooks)
      BY <1>5 DEF Bijection, Injection, Surjection, IsInjective
    <2>2. IsFiniteSet(alone)
      BY <1>2, FS_Subset
    <2> HIDE DEF f, ofBooks, alone
    <2> QED  BY <2>1, <2>2, FS_Bijection DEF ExistsBijection
  <1>11. ofLines \cap ofBooks = {}
    BY <1>3
  <1> HIDE DEF ofLines, ofBooks
  <1>12. Cardinality(rows) = Cardinality(ledger.lines) + Cardinality(shown)
    <2>1. Cardinality(ofLines \cup ofBooks)
            = Cardinality(ofLines) + Cardinality(ofBooks) - Cardinality(ofLines \cap ofBooks)
      BY <1>9, <1>10, FS_Union
    <2>2. Cardinality(ofLines \cap ofBooks) = 0
      BY <1>11, FS_EmptySet
    <2>3. Cardinality(ofLines) \in Nat /\ Cardinality(ofBooks) \in Nat
      BY <1>9, <1>10, FS_CardinalityType
    <2> HIDE DEF shown, alone
    <2> QED  BY <1>1, <1>6, <1>9, <1>10, <2>1, <2>2, <2>3
  <1>13. shown \cap paired = {} /\ shown \cup paired = ledger.postings
    BY <1>6, <1>7, <1>8
  <1> QED  BY <1>12, <1>13 DEF rows

\* What the accepted matches clear is what their lines add up to.
LEMMA ClearedLines ==
    ASSUME NEW ledger, IsLedger(ledger), NEW list, Balanced(ledger, list), NEW c
    PROVE  ClearedTotal(list, c)
             = Amount({line \in ledger.lines :
                         /\ line.currency = c
                         /\ \E i \in DOMAIN list :
                              list[i].status = "accepted" /\ list[i].line = line.id})
  <1> DEFINE A == {i \in DOMAIN list : list[i].status = "accepted"}
             how == Clearing(list, c)
             of(D) == {line \in ledger.lines :
                         line.currency = c /\ \E i \in D : list[i].line = line.id}
             Good == {D \in SUBSET A : Folded(how, D) = Amount(of(D))}
             lineOf(i) == LineOf(ledger, list[i])
             U == ledger.lines
  <1>1. /\ IsFiniteSet(U) /\ IsFiniteSet(ledger.postings)
        /\ \A l \in U : l.amount \in Int
        /\ \A p \in ledger.postings : p.amount \in Int
        /\ \A l, m \in U : l.id = m.id => l = m
    BY DEF IsLedger
  <1>2. IsFiniteSet(A)
    <2>1. A \in SUBSET (1 .. Len(list)) /\ Len(list) \in Nat
      BY DEF Balanced
    <2> DEFINE n == Len(list)
    <2>2. n \in Int /\ 1 \in Int
      BY <2>1
    <2> HIDE DEF A, n
    <2>3. IsFiniteSet(1 .. n)
      BY <2>2, FS_Interval
    <2> QED  BY <2>1, <2>3, FS_Subset DEF n
  <1>3. \A i \in A : lineOf(i) \in U /\ lineOf(i).id = list[i].line
    <2> TAKE i \in A
    <2>1. list[i] \in MatchOf(ledger)
      BY DEF Balanced
    <2>2. PICK l \in U : l.id = list[i].line
      BY <2>1 DEF MatchOf
    <2>3. lineOf(i) = l
      BY <2>2, LineFound
    <2> QED  BY <2>2, <2>3
  <1>4. \A i, j \in A : i # j => list[i].line # list[j].line
    BY DEF Balanced, Apart
  <1>5. /\ Amount({}) = 0
        /\ \A D \in SUBSET U : /\ Amount(D) \in Int
                               /\ \A x \in D : Amount(D) = x.amount + Amount(D \ {x})
    BY <1>1, AmountFirst
  <1>6. \A i \in A : Weight(how, i) = IF lineOf(i).currency = c THEN lineOf(i).amount ELSE 0
    <2> TAKE i \in A
    <2> DEFINE all == Range(list[i].postings)
               some == {p \in all : p.currency = c}
    <2>1. Weight(how, i) = Amount(some)
      BY DEF Weight, Clearing
    <2>2. Covers(ledger, list[i])
      BY DEF Balanced
    <2>3. (\A p \in all : p.currency = lineOf(i).currency) /\ Amount(all) = lineOf(i).amount
      BY <2>2 DEF Covers
    <2> HIDE DEF all, lineOf
    <2>4. some = IF lineOf(i).currency = c THEN all ELSE {}
      BY <2>3
    <2> HIDE DEF some
    <2> QED  BY <1>5, <2>1, <2>3, <2>4
  <1>7. Summing(how) /\ how.base = 0
    BY DEF Summing, Clearing
  <1>8. \A i \in A : Weight(how, i) \in Int
    BY <1>1, <1>3, <1>6
  <1>9. ClearedTotal(list, c) = Folded(how, A)
    BY ClearedIsFold
  <1> HIDE DEF how, lineOf, U, A
  <1>10. /\ Folded(how, {}) = 0
         /\ \A D \in SUBSET A :
              /\ Folded(how, D) \in Int
              /\ \A x \in D : Folded(how, D) = Weight(how, x) + Folded(how, D \ {x})
    BY <1>2, <1>7, <1>8, AnyFirst
  <1>11. {} \in Good
    <2>1. of({}) = {}
      OBVIOUS
    <2> QED  BY <1>5, <1>10, <2>1
  <1>12. ASSUME NEW D \in SUBSET A, D # {}, \A x \in D : D \ {x} \in Good PROVE D \in Good
    <2>1. PICK x \in D : TRUE
      BY <1>12
    <2>2. Folded(how, D) = Weight(how, x) + Amount(of(D \ {x}))
      BY <1>10, <1>12, <2>1
    <2>3. of(D) \in SUBSET U /\ of(D \ {x}) \in SUBSET U
      BY DEF U
    <2>4. lineOf(x) \in U /\ lineOf(x).id = list[x].line
      BY <1>3, <2>1
    <2>5. \A l \in U : l \in of(D) <=> l \in of(D \ {x}) \/ (l.currency = c /\ l = lineOf(x))
      <3> TAKE l \in U
      <3>1. list[x].line = l.id <=> l = lineOf(x)
        BY <1>1, <2>4
      <3> QED  BY <2>1, <3>1 DEF U
    <2>6. lineOf(x) \notin of(D \ {x})
      <3>1. \A j \in D \ {x} : list[j].line # lineOf(x).id
        BY <1>4, <2>1, <2>4
      <3> QED  BY <3>1
    <2> HIDE DEF of
    <2>7. CASE lineOf(x).currency = c
      <3>1. lineOf(x) \in of(D) /\ of(D) \ {lineOf(x)} = of(D \ {x})
        BY <2>3, <2>4, <2>5, <2>6, <2>7
      <3>2. Amount(of(D)) = lineOf(x).amount + Amount(of(D \ {x}))
        BY <1>5, <2>3, <3>1
      <3>3. Folded(how, D) = Amount(of(D))
        BY <1>6, <2>1, <2>2, <2>7, <3>2
      <3> QED  BY <3>3
    <2>8. CASE lineOf(x).currency # c
      <3>1. of(D) = of(D \ {x})
        BY <2>3, <2>4, <2>5, <2>8
      <3>2. Weight(how, x) = 0
        BY <1>6, <2>1, <2>8
      <3>3. Amount(of(D)) \in Int
        BY <1>5, <2>3
      <3>4. Folded(how, D) = 0 + Amount(of(D))
        BY <2>2, <3>1, <3>2
      <3>5. Folded(how, D) = Amount(of(D))
        BY <3>3, <3>4
      <3> QED  BY <3>5
    <2> QED  BY <2>7, <2>8
  <1> HIDE DEF Good
  <1>13. A \in Good
    <2> HIDE DEF Good
    <2>1. \A D \in SUBSET A : D \in Good
      BY <1>2, <1>11, <1>12, PartByPart
    <2> QED  BY <2>1
  <1>14. ClearedTotal(list, c) = Amount(of(A))
    BY <1>9, <1>13 DEF Good
  <1>15. of(A) = {line \in ledger.lines :
                         /\ line.currency = c
                         /\ \E i \in DOMAIN list :
                              list[i].status = "accepted" /\ list[i].line = line.id}
    BY DEF A
  <1> HIDE DEF of
  <1> QED  BY <1>14, <1>15

\* The difference is what the lines that no accepted match covers add up to.
LEMMA DifferenceIs ==
    ASSUME NEW ledger, IsLedger(ledger), NEW list, Balanced(ledger, list), NEW c
    PROVE  LET ids == {list[i].line : i \in {j \in DOMAIN list : list[j].status = "accepted"}} IN
           Difference(ledger, list, c)
             = Amount({line \in ledger.lines : line.currency = c /\ line.id \notin ids})
  <1> DEFINE ids == {list[i].line : i \in {j \in DOMAIN list : list[j].status = "accepted"}}
             all == {line \in ledger.lines : line.currency = c}
             cleared == {line \in ledger.lines :
                           /\ line.currency = c
                           /\ \E i \in DOMAIN list :
                                list[i].status = "accepted" /\ list[i].line = line.id}
             rest == {line \in ledger.lines : line.currency = c /\ line.id \notin ids}
             U == ledger.lines
  <1>1. IsFiniteSet(U) /\ \A l \in U : l.amount \in Int
    BY DEF IsLedger
  <1>2. cleared \in SUBSET U /\ rest \in SUBSET U /\ cleared \cap rest = {}
        /\ all = cleared \cup rest
    OBVIOUS
  <1>3. StatementTotal(ledger, c) = Amount(all) /\ ClearedTotal(list, c) = Amount(cleared)
    BY ClearedLines DEF StatementTotal
  <1> HIDE DEF all, cleared, rest, U
  <1>4. Amount(cleared \cup rest) = Amount(cleared) + Amount(rest)
        /\ Amount(cleared) \in Int /\ Amount(rest) \in Int
    BY <1>1, <1>2, AmountSplit
  <1>5. Difference(ledger, list, c) = Amount(rest)
    BY <1>2, <1>3, <1>4 DEF Difference
  <1> QED  BY <1>5 DEF rest

\* A verdict leaves balanced matches balanced.
LEMMA VerdictBalanced ==
    ASSUME NEW ledger, NEW list, Balanced(ledger, list), NEW i \in DOMAIN list,
           NEW status \in Status
    PROVE  Balanced(ledger, [list EXCEPT ![i].status = status])
  <1> DEFINE m == [list[i] EXCEPT !.status = status]
             next == [list EXCEPT ![i] = m]
  <1>1. list \in Seq(MatchOf(ledger)) /\ list[i] \in MatchOf(ledger)
    BY DEF Balanced
  <1>2. m \in MatchOf(ledger) /\ m.line = list[i].line /\ m.postings = list[i].postings
    BY <1>1 DEF MatchOf
  <1>3. [list EXCEPT ![i].status = status] = next
    OBVIOUS
  <1> HIDE DEF m
  <1>4. next \in Seq(MatchOf(ledger)) /\ DOMAIN next = DOMAIN list
    BY <1>1, <1>2
  <1>5. \A j \in DOMAIN list : next[j].line = list[j].line /\ next[j].postings = list[j].postings
    BY <1>1, <1>2
  <1> HIDE DEF next
  <1>6. \A j \in DOMAIN list : Covers(ledger, next[j])
    <2> TAKE j \in DOMAIN list
    <2>1. Covers(ledger, list[j])
      BY DEF Balanced
    <2>2. LineOf(ledger, next[j]) = LineOf(ledger, list[j])
      BY <1>5 DEF LineOf
    <2> QED  BY <1>5, <2>1, <2>2 DEF Covers
  <1>7. Apart(next)
    BY <1>4, <1>5 DEF Balanced, Apart
  <1> QED  BY <1>3, <1>4, <1>6, <1>7 DEF Balanced

-----------------------------------------------------------------------------
(* The component *)

\* What is saved and what is proposed of a ledger is balanced, and a match stays
\* one under any verdict.
LEMMA MatchFacts ==
    /\ \A ledger \in Ledger :
         /\ IsLedger(ledger)
         /\ Balanced(ledger, Saved[ledger]) /\ Balanced(ledger, Proposed[ledger])
         /\ Saved[ledger] \in Seq(MatchSet) /\ Proposed[ledger] \in Seq(MatchSet)
    /\ \A m \in MatchSet, status \in Status : [m EXCEPT !.status = status] \in MatchSet
<1>1. ASSUME NEW ledger \in Ledger
      PROVE  /\ IsLedger(ledger)
             /\ Balanced(ledger, Saved[ledger]) /\ Balanced(ledger, Proposed[ledger])
  <2>1. IsLedger(ledger) /\ Balanced(ledger, Saved[ledger]) /\ MatchOptions.window \in Nat
        BY LedgerAssumption
  <2>2. Balanced(ledger, Proposals(ledger.lines, ledger.postings, MatchOptions))
        BY <2>1, ProposalsSound DEF MatchesSound
  <2> QED BY <2>1, <2>2 DEF Proposed
<1>2. ASSUME NEW ledger \in Ledger, NEW list, Balanced(ledger, list)
      PROVE  list \in Seq(MatchSet)
  <2>1. MatchOf(ledger) \subseteq MatchSet
        BY DEF MatchSet
  <2>2. list \in Seq(MatchOf(ledger))
        BY <1>2 DEF Balanced
  <2> HIDE DEF MatchOf
  <2> QED BY <2>1, <2>2
<1>3. ASSUME NEW m \in MatchSet, NEW status \in Status
      PROVE  [m EXCEPT !.status = status] \in MatchSet
  <2>1. PICK ledger \in Ledger : m \in MatchOf(ledger)
        BY DEF MatchSet
  <2>2. [m EXCEPT !.status = status] \in MatchOf(ledger)
        BY <2>1 DEF MatchOf
  <2> QED BY <2>2 DEF MatchSet
<1> QED BY <1>1, <1>2, <1>3

RequestOf(v) ==
    [version : 1 .. v, answer : {Proposed[l] : l \in Ledger}, overtaken : BOOLEAN,
     stage : {"asked", "answered", "rejected", "queued"}]

\* A version names one request.
RequestsApart == \A r, s \in requests : r.version = s.version => r = s

\* While a current request is in flight the matches are empty, and nobody has
\* changed the data since: what an answer will find.
AwaitingEmpty ==
    ~undercut => \A r \in InFlight : ~r.overtaken /\ matches = <<>>

RequestInv == RequestsApart /\ AwaitingEmpty /\ StaleOnlyIfUndercut

PageInv == OneDeferredCommit /\ SectionCurrent

\* The matches are those of the present data, but for an answer that was overtaken,
\* and a request that was not is about the present data.
MatchesInv ==
    /\ ~outdated => Balanced(options.ledger, matches)
    /\ \A r \in requests : ~r.overtaken => r.answer = Proposed[options.ledger]

-----------------------------------------------------------------------------
(* Types *)

LEMMA MovedTyped ==
    ASSUME NEW v \in Nat, NEW r \in RequestOf(v),
           NEW stage \in {"asked", "answered", "rejected", "queued"}
    PROVE  /\ [r EXCEPT !.stage = stage] \in RequestOf(v)
           /\ [r EXCEPT !.stage = stage].version = r.version
           /\ [r EXCEPT !.stage = stage].overtaken = r.overtaken
           /\ [r EXCEPT !.stage = stage].answer = r.answer
BY DEF RequestOf

LEMMA OvertakenTyped ==
    ASSUME NEW v \in Nat, NEW r \in RequestOf(v)
    PROVE  /\ [r EXCEPT !.overtaken = TRUE] \in RequestOf(v)
           /\ [r EXCEPT !.overtaken = TRUE].version = r.version
BY DEF RequestOf

LEMMA RequestGrows ==
    ASSUME NEW v \in Nat, NEW r \in RequestOf(v)
    PROVE  r \in RequestOf(v + 1)
BY DEF RequestOf

LEMMA AnswerTyped ==
    ASSUME NEW v \in Nat, NEW r \in RequestOf(v)
    PROVE  r.answer \in Seq(MatchSet)
BY MatchFacts DEF RequestOf

\* A verdict on one match leaves a list of matches that differs in it alone.
LEMMA VerdictTyped ==
    ASSUME NEW ms \in Seq(MatchSet), NEW i \in DOMAIN ms, NEW status \in Status,
           ms[i].status # status
    PROVE  /\ [ms EXCEPT ![i].status = status] \in Seq(MatchSet)
           /\ OneVerdictApart(ms, [ms EXCEPT ![i].status = status])
<1> DEFINE m == [ms[i] EXCEPT !.status = status]
           ns == [ms EXCEPT ![i] = m]
<1>1. ms[i] \in MatchSet
      OBVIOUS
<1>2. m \in MatchSet /\ m.status = status
      BY <1>1, MatchFacts
<1>3. [ms EXCEPT ![i].status = status] = ns
      OBVIOUS
<1> HIDE DEF m
<1>4. ns \in Seq(MatchSet) /\ Len(ns) = Len(ms)
      BY <1>2
<1>5. ns[i] = m /\ \A j \in DOMAIN ms \ {i} : ms[j] = ns[j]
      OBVIOUS
<1>6. OneVerdictApart(ms, ns)
      BY <1>2, <1>4, <1>5 DEF OneVerdictApart
<1> QED BY <1>3, <1>4, <1>6

\* With at most one commit armed there is a handle that is free.
LEMMA FreshIdFree ==
    ASSUME OneDeferredCommit, commits \subseteq [id : Nat, stage : {"frame", "timer"}]
    PROVE  FreshId \in Nat
<1>1. CASE commits = {}
  <2>1. Cardinality(commits) = 0
        BY <1>1, FS_EmptySet
  <2>2. \E n \in 1 .. Cardinality(commits) + 1 : \A c \in commits : c.id # n
        BY <1>1, <2>1
  <2> QED BY <2>1, <2>2 DEF FreshId
<1>2. ASSUME NEW c \in commits PROVE FreshId \in Nat
  <2>1. commits = {c}
        BY <1>2 DEF OneDeferredCommit
  <2>2. Cardinality(commits) = 1
        BY <2>1, FS_Singleton
  <2>3. c.id # 1 \/ c.id # 2
        OBVIOUS
  <2>4. 1 \in 1 .. Cardinality(commits) + 1 /\ 2 \in 1 .. Cardinality(commits) + 1
        BY <2>2
  <2>5. \E n \in 1 .. Cardinality(commits) + 1 : \A d \in commits : d.id # n
        BY <2>1, <2>3, <2>4
  <2> QED BY <2>2, <2>5 DEF FreshId
<1> QED BY <1>1, <1>2

\* What deriving the matches of new options leaves.
LEMMA InitializeTyped ==
    ASSUME TypeOK, NEW o \in Options, InitializeMatches(o)
    PROVE  /\ matches' \in Seq(MatchSet)
           /\ version' \in Nat
           /\ outdated' \in BOOLEAN /\ undercut' \in BOOLEAN
           /\ requests' \subseteq RequestOf(version')
<1>1. \A r \in requests : [r EXCEPT !.overtaken = TRUE] \in RequestOf(version)
      BY OvertakenTyped DEF TypeOK, RequestOf
<1>2. Overtaken \subseteq RequestOf(version)
      BY <1>1 DEF Overtaken
<1>3. o.ledger \in Ledger
      BY DEF Options
<1>4. CASE ~o.saved /\ o.pooled /\ working
  <2>1. version' = version + 1 /\ matches' = <<>> /\ outdated' = FALSE /\ undercut' = FALSE
        BY <1>4 DEF InitializeMatches
  <2>2. requests' = Overtaken \cup {[version |-> version + 1, answer |-> Proposed[o.ledger],
                                     stage |-> "asked", overtaken |-> FALSE]}
        BY <1>4 DEF InitializeMatches
  <2>3. version + 1 \in 1 .. version + 1
        BY DEF TypeOK
  <2>4. [version |-> version + 1, answer |-> Proposed[o.ledger],
         stage |-> "asked", overtaken |-> FALSE] \in RequestOf(version + 1)
        BY <1>3, <2>3 DEF RequestOf
  <2>5. Overtaken \subseteq RequestOf(version + 1)
        BY <1>2, RequestGrows DEF TypeOK
  <2>6. requests' \subseteq RequestOf(version')
        BY <2>1, <2>2, <2>4, <2>5
  <2>7. matches' \in Seq(MatchSet) /\ version' \in Nat
        BY <2>1 DEF TypeOK
  <2> QED BY <2>1, <2>6, <2>7
<1>5. CASE ~(~o.saved /\ o.pooled /\ working)
  <2>1. /\ version' = version /\ requests' = Overtaken
        /\ matches' = Saved[o.ledger] \/ matches' = Proposed[o.ledger]
        BY <1>5 DEF InitializeMatches
  <2>2. outdated' = FALSE /\ undercut' = (undercut \/ InFlight # {})
        BY <1>5 DEF InitializeMatches
  <2>3. undercut' \in BOOLEAN /\ outdated' \in BOOLEAN
        BY <2>2
  <2> QED BY <1>2, <1>3, <2>1, <2>3, MatchFacts DEF TypeOK
<1> QED BY <1>4, <1>5

\* A rebuilt section is one.
LEMMA RerenderTyped ==
    ASSUME TypeOK, NEW ledger \in Ledger, NEW ms \in Seq(MatchSet), Rerender(ledger, ms)
    PROVE  /\ section' = None \/ section' \in [ledger : Ledger, matches : Seq(MatchSet),
                                               served : BOOLEAN]
           /\ commits' \subseteq [id : Nat, stage : {"frame", "timer"}]
BY DEF Rerender, Drawn, WithoutPending, TypeOK

LEMMA DrawnTyped ==
    ASSUME NEW ledger \in Ledger, NEW ms \in Seq(MatchSet)
    PROVE  /\ Drawn(ledger, ms) \in [ledger : Ledger, matches : Seq(MatchSet), served : BOOLEAN]
           /\ Drawn(ledger, ms) # None
<1>1. Drawn(ledger, ms) \in [ledger : Ledger, matches : Seq(MatchSet), served : BOOLEAN]
      BY DEF Drawn
<1> QED BY <1>1, NoneAssumption

-----------------------------------------------------------------------------
(* Type correctness *)

LEMMA TypeInit == Init => TypeOK
<1> SUFFICES ASSUME Init PROVE TypeOK
    OBVIOUS
<1>1. options \in Options /\ options.ledger \in Ledger
      BY DEF Init, Options
<1>2. CASE ~options.saved /\ options.pooled
  <2> USE <1>2 DEF Init
  <2>1. requests = {[version |-> 1, answer |-> Proposed[options.ledger],
                     stage |-> "asked", overtaken |-> FALSE]}
        OBVIOUS
  <2>2. [version |-> 1, answer |-> Proposed[options.ledger],
         stage |-> "asked", overtaken |-> FALSE] \in RequestOf(1)
        BY <1>1 DEF RequestOf
  <2>3. requests \subseteq RequestOf(version) /\ version \in Nat /\ matches \in Seq(MatchSet)
        BY <2>1, <2>2
  <2> QED BY <1>1, <2>3 DEF TypeOK, RequestOf
<1>3. CASE ~(~options.saved /\ options.pooled)
  <2>1. matches \in Seq(MatchSet) /\ requests = {} /\ version = 0
        BY <1>1, <1>3, MatchFacts DEF Init
  <2> QED BY <1>1, <2>1 DEF TypeOK, Init
<1> QED BY <1>2, <1>3

\* The fields the page's actions leave alone.
LEMMA PageTyped ==
    ASSUME TypeOK, UNCHANGED <<options, working, view, gestures>>,
           section' = None \/ section' \in [ledger : Ledger, matches : Seq(MatchSet),
                                           served : BOOLEAN],
           commits' \subseteq [id : Nat, stage : {"frame", "timer"}]
    PROVE  TypeOK'
BY DEF TypeOK, view

\* The fields the answers leave alone.
LEMMA AnswerStepTyped ==
    ASSUME TypeOK, UNCHANGED <<options, version, undercut, gestures>>,
           working' \in BOOLEAN, outdated' \in BOOLEAN,
           matches' \in Seq(MatchSet), requests' \subseteq RequestOf(version),
           section' = None \/ section' \in [ledger : Ledger, matches : Seq(MatchSet),
                                           served : BOOLEAN],
           commits' \subseteq [id : Nat, stage : {"frame", "timer"}]
    PROVE  TypeOK'
BY DEF TypeOK, RequestOf

LEMMA LandTyped ==
    ASSUME TypeOK, NEW r \in requests, Land(r)
    PROVE  /\ matches' \in Seq(MatchSet) /\ outdated' \in BOOLEAN
           /\ section' = None \/ section' \in [ledger : Ledger, matches : Seq(MatchSet),
                                               served : BOOLEAN]
           /\ commits' \subseteq [id : Nat, stage : {"frame", "timer"}]
<1>1. r \in RequestOf(version) /\ version \in Nat /\ options.ledger \in Ledger
      BY DEF TypeOK, RequestOf, Options
<1>2. r.answer \in Seq(MatchSet) /\ r.overtaken \in BOOLEAN
      BY <1>1, AnswerTyped DEF RequestOf
<1>3. matches' = r.answer /\ outdated' = r.overtaken /\ Rerender(options.ledger, r.answer)
      BY DEF Land
<1> QED BY <1>1, <1>2, <1>3, RerenderTyped

LEMMA TypeStep == TypeOK /\ OneDeferredCommit /\ [Next]_vars => TypeOK'
<1> SUFFICES ASSUME TypeOK, OneDeferredCommit, [Next]_vars PROVE TypeOK'
    OBVIOUS
<1> DEFINE Shown == [ledger : Ledger, matches : Seq(MatchSet), served : BOOLEAN]
           Armed == [id : Nat, stage : {"frame", "timer"}]
<1>a. /\ options \in Options /\ options.ledger \in Ledger
      /\ matches \in Seq(MatchSet) /\ version \in Nat
      /\ section = None \/ section \in Shown
      /\ commits \subseteq Armed /\ WithoutPending \subseteq Armed
      /\ requests \subseteq RequestOf(version)
      /\ working \in BOOLEAN /\ outdated \in BOOLEAN
      BY DEF TypeOK, RequestOf, Options, WithoutPending
<1>b. ASSUME NEW r \in requests, NEW stage \in {"answered", "rejected", "queued"}
      PROVE  Moved(r, stage) \subseteq RequestOf(version)
  <2>1. r \in RequestOf(version) /\ version \in Nat
        BY <1>a
  <2>2. stage \in {"asked", "answered", "rejected", "queued"}
        OBVIOUS
  <2>3. [r EXCEPT !.stage = stage] \in RequestOf(version)
        BY <2>1, <2>2, MovedTyped
  <2> QED BY <1>a, <2>3 DEF Moved
<1>1. CASE Mount
  <2>1. UNCHANGED <<options, working, view, gestures>>
        BY <1>1 DEF Mount
  <2>2. section' \in Shown \/ section' = None
        BY <1>1, <1>a, DrawnTyped, RerenderTyped DEF Mount
  <2>3. commits' \subseteq Armed
        BY <1>1, <1>a, RerenderTyped DEF Mount
  <2> QED BY <2>1, <2>2, <2>3, PageTyped
<1>2. CASE Hydrate
  <2>1. section' \in Shown
        BY <1>2, <1>a, MatchFacts DEF Hydrate
  <2> QED BY <1>2, <1>a, <2>1, PageTyped DEF Hydrate
<1>3. CASE CleanUp
      BY <1>3, <1>a, PageTyped DEF CleanUp
<1>4. ASSUME NEW o \in Options, SetOptions(o) PROVE TypeOK'
  <2>1. options' \in Options /\ gestures' \in Nat /\ working' = working /\ o.ledger \in Ledger
        BY <1>4 DEF SetOptions, TypeOK, Options
  <2>2. CASE o.ledger # options.ledger \/ o.saved
    <3>1. InitializeMatches(o) /\ Rerender(o.ledger, matches')
          BY <1>4, <2>2 DEF SetOptions
    <3>2. /\ matches' \in Seq(MatchSet) /\ version' \in Nat
          /\ outdated' \in BOOLEAN /\ undercut' \in BOOLEAN
          /\ requests' \subseteq RequestOf(version')
          BY <3>1, InitializeTyped
    <3>3. (section' = None \/ section' \in Shown) /\ commits' \subseteq Armed
          BY <2>1, <3>1, <3>2, RerenderTyped
    <3> QED BY <2>1, <3>2, <3>3, <1>a DEF TypeOK, RequestOf
  <2>3. CASE ~(o.ledger # options.ledger \/ o.saved)
    <3>1. UNCHANGED <<view, page>>
          BY <1>4, <2>3 DEF SetOptions
    <3> QED BY <2>1, <3>1, <1>a DEF TypeOK, view, page
  <2> QED BY <2>2, <2>3
<1>5. ASSUME NEW i \in DOMAIN matches, NEW status \in Status, NEW reduced \in BOOLEAN,
             Transition(i, status, reduced)
      PROVE  TypeOK'
  <2>1. /\ gestures' \in Nat /\ UNCHANGED <<options, working, version, requests, outdated, undercut>>
        /\ matches' = [matches EXCEPT ![i].status = status] /\ matches[i].status # status
        BY <1>5 DEF Transition, TypeOK
  <2>2. matches' \in Seq(MatchSet)
        BY <2>1, <1>a, VerdictTyped
  <2>3. FreshId \in Nat
        BY <1>a, FreshIdFree
  <2>4. Drawn(options.ledger, matches) \in Shown
        BY <1>a, DrawnTyped
  <2>5. \/ Rerender(options.ledger, matches')
        \/ /\ section' = section \/ section' = Drawn(options.ledger, matches)
           /\ commits' = WithoutPending \cup {[id |-> FreshId, stage |-> "frame"]}
        BY <1>5 DEF Transition
  <2>6. (section' = None \/ section' \in Shown) /\ commits' \subseteq Armed
        BY <2>2, <2>3, <2>4, <2>5, <1>a, RerenderTyped
  <2> QED BY <2>1, <2>2, <2>6 DEF TypeOK
<1>6. CASE PoolFails
  <2>1. {[r EXCEPT !.stage = "answered"] : r \in Asked} \subseteq RequestOf(version)
    <3>1. ASSUME NEW r \in Asked PROVE [r EXCEPT !.stage = "answered"] \in RequestOf(version)
      <4>1. r \in RequestOf(version) /\ version \in Nat
            BY <1>a DEF Asked
      <4> QED BY <4>1, MovedTyped
    <3> QED BY <3>1
  <2> QED BY <1>6, <1>a, <2>1, AnswerStepTyped DEF PoolFails, page
<1>7. CASE PoolTerminates
  <2>1. {[r EXCEPT !.stage = "rejected"] : r \in Asked} \subseteq RequestOf(version)
    <3>1. ASSUME NEW r \in Asked PROVE [r EXCEPT !.stage = "rejected"] \in RequestOf(version)
      <4>1. r \in RequestOf(version) /\ version \in Nat
            BY <1>a DEF Asked
      <4> QED BY <4>1, MovedTyped
    <3> QED BY <3>1
  <2> QED BY <1>7, <1>a, <2>1, AnswerStepTyped DEF PoolTerminates, page
<1>8. ASSUME NEW r \in requests, PoolAnswers(r) PROVE TypeOK'
      BY <1>8, <1>a, <1>b, AnswerStepTyped DEF PoolAnswers, page
<1>9. ASSUME NEW r \in requests, Then(r) PROVE TypeOK'
      BY <1>9, <1>a, <1>b, AnswerStepTyped DEF Then, page
<1>10. ASSUME NEW r \in requests, Catch(r) PROVE TypeOK'
      BY <1>10, <1>a, LandTyped, AnswerStepTyped DEF Catch, page
<1>11. CASE Frame
      BY <1>11, <1>a, LandTyped, AnswerStepTyped DEF Frame, page, Queued, InFlight
<1>12. ASSUME NEW c \in commits, Collapse(c) PROVE TypeOK'
  <2>1. [c EXCEPT !.stage = "timer"] \in Armed
        BY <1>a
  <2> QED BY <1>12, <1>a, <2>1, PageTyped DEF Collapse
<1>13. ASSUME NEW c \in commits, Commit(c) PROVE TypeOK'
  <2>1. Drawn(options.ledger, matches) \in Shown
        BY <1>a, DrawnTyped
  <2> QED BY <1>13, <1>a, <2>1, PageTyped DEF Commit
<1>14. CASE UNCHANGED vars
      BY <1>14 DEF TypeOK, vars, view, page
<1> QED BY <1>1, <1>2, <1>3, <1>4, <1>5, <1>6, <1>7, <1>8, <1>9, <1>10, <1>11, <1>12,
           <1>13, <1>14 DEF Next, Host, Pool, Answers, Continuations, Animation

-----------------------------------------------------------------------------
(* The page: one deferred commit, and a section that is current *)

\* Whatever is armed is what pendingVerdict names, so cancelling it leaves nothing.
LEMMA NothingElseArmed ==
    ASSUME OneDeferredCommit
    PROVE  WithoutPending = {} /\ (pending = None => commits = {})
BY DEF OneDeferredCommit, WithoutPending

\* A deferred commit that is the only one armed and is the one that is named.
LEMMA OneArmed ==
    ASSUME NEW c, commits' = {c}, c.id = pending', pending' # None, section' # None
    PROVE  OneDeferredCommit'
<1>1. {d.id : d \in commits'} = {c.id}
      OBVIOUS
<1>2. \A d, e \in commits' : d = e
      OBVIOUS
<1> QED BY <1>1, <1>2 DEF OneDeferredCommit

\* A section just rebuilt from the data and the matches is current.
LEMMA RerenderPage ==
    ASSUME OneDeferredCommit, options'.ledger \in Ledger, matches' \in Seq(MatchSet),
           Rerender(options'.ledger, matches')
    PROVE  PageInv'
<1>1. pending' = None /\ commits' = {}
      BY NothingElseArmed DEF Rerender
<1>2. section' = None \/ (section' = Drawn(options'.ledger, matches') /\ section' # None)
      BY DrawnTyped DEF Rerender
<1>3. OneDeferredCommit'
      BY <1>1 DEF OneDeferredCommit
<1>4. SectionCurrent'
      BY <1>2 DEF SectionCurrent, Drawn
<1> QED BY <1>3, <1>4 DEF PageInv

\* Steps that touch neither the page nor what it shows.
LEMMA PageUntouched ==
    ASSUME PageInv, UNCHANGED <<page, matches>>, options'.ledger = options.ledger
    PROVE  PageInv'
BY DEF PageInv, OneDeferredCommit, SectionCurrent, OneVerdictApart, page

LEMMA PageInit == Init => PageInv
BY DEF Init, PageInv, OneDeferredCommit, SectionCurrent

LEMMA MountPage == TypeOK /\ PageInv /\ Mount => PageInv'
<1> SUFFICES ASSUME TypeOK, PageInv, Mount PROVE PageInv'
    OBVIOUS
<1>1. /\ options' = options /\ matches' = matches
      /\ options.ledger \in Ledger /\ matches \in Seq(MatchSet)
      BY DEF Mount, view, TypeOK, Options
<1>2. CASE section # None /\ Rerender(options.ledger, matches)
      BY <1>1, <1>2, RerenderPage DEF PageInv
<1>3. CASE section' = Drawn(options.ledger, matches) /\ UNCHANGED <<pending, commits>>
  <2>1. section' # None
        BY <1>1, <1>3, DrawnTyped
  <2>2. OneDeferredCommit'
        BY <1>3, <2>1 DEF PageInv, OneDeferredCommit
  <2>3. SectionCurrent'
        BY <1>1, <1>3 DEF SectionCurrent, Drawn
  <2> QED BY <2>2, <2>3 DEF PageInv
<1> QED BY <1>2, <1>3 DEF Mount

LEMMA HydratePage == TypeOK /\ PageInv /\ Hydrate => PageInv'
<1> SUFFICES ASSUME TypeOK, PageInv, Hydrate PROVE PageInv'
    OBVIOUS
<1>1. pending' = None /\ commits' = {}
      BY NothingElseArmed DEF Hydrate, PageInv, OneDeferredCommit
<1>2. section'.served
      BY DEF Hydrate
<1> QED BY <1>1, <1>2 DEF PageInv, OneDeferredCommit, SectionCurrent

LEMMA TransitionPage ==
    ASSUME TypeOK, PageInv, NEW i \in DOMAIN matches, NEW status \in Status,
           NEW reduced \in BOOLEAN, Transition(i, status, reduced)
    PROVE  PageInv'
<1>1. /\ options' = options /\ options.ledger \in Ledger /\ matches \in Seq(MatchSet)
      /\ matches' = [matches EXCEPT ![i].status = status] /\ matches[i].status # status
      BY DEF Transition, TypeOK, Options
<1>2. matches' \in Seq(MatchSet) /\ OneVerdictApart(matches, matches')
      BY <1>1, VerdictTyped
<1>3. CASE Rerender(options.ledger, matches')
      BY <1>1, <1>2, <1>3, RerenderPage DEF PageInv
<1>4. ASSUME section # None, pending' = FreshId,
             commits' = WithoutPending \cup {[id |-> FreshId, stage |-> "frame"]},
             section' = IF pending = None \/ section = None THEN section
                        ELSE Drawn(options.ledger, matches)
      PROVE  PageInv'
  <2>1. FreshId # None
        BY FreshIdFree, NoneAssumption DEF PageInv, TypeOK
  <2>2. commits' = {[id |-> FreshId, stage |-> "frame"]}
        BY <1>4, NothingElseArmed DEF PageInv
  <2>3. section' # None
        BY <1>1, <1>4, DrawnTyped
  <2>4. OneDeferredCommit'
        BY <1>4, <2>1, <2>2, <2>3, OneArmed
  <2>5. ~section'.served => section'.ledger = options.ledger /\ section'.matches = matches
        BY <1>4 DEF Drawn, PageInv, SectionCurrent
  <2>6. SectionCurrent'
        BY <1>1, <1>2, <1>4, <2>1, <2>5 DEF SectionCurrent
  <2> QED BY <2>4, <2>6 DEF PageInv
<1>5. \/ Rerender(options.ledger, matches')
      \/ /\ section # None /\ pending' = FreshId
         /\ commits' = WithoutPending \cup {[id |-> FreshId, stage |-> "frame"]}
         /\ section' = IF pending = None \/ section = None THEN section
                       ELSE Drawn(options.ledger, matches)
      BY DEF Transition
<1> QED BY <1>3, <1>4, <1>5

LEMMA PageStep == TypeOK /\ PageInv /\ [Next]_vars => PageInv'
<1> SUFFICES ASSUME TypeOK, PageInv, [Next]_vars PROVE PageInv'
    OBVIOUS
<1>a. /\ OneDeferredCommit /\ SectionCurrent
      /\ options.ledger \in Ledger /\ matches \in Seq(MatchSet)
      BY DEF PageInv, TypeOK, Options
<1>b. TypeOK'
      BY <1>a, TypeStep
<1>c. options'.ledger \in Ledger /\ matches' \in Seq(MatchSet)
      BY <1>b DEF TypeOK, Options
<1>1. CASE Mount
      BY <1>1, MountPage
<1>2. CASE Hydrate
      BY <1>2, HydratePage
<1>3. CASE CleanUp
      BY <1>3, <1>a, NothingElseArmed
         DEF CleanUp, PageInv, OneDeferredCommit, SectionCurrent
<1>4. ASSUME NEW o \in Options, SetOptions(o) PROVE PageInv'
  <2>1. options' = o
        BY <1>4 DEF SetOptions
  <2>2. CASE o.ledger # options.ledger \/ o.saved
        BY <1>4, <1>a, <1>c, <2>1, <2>2, RerenderPage DEF SetOptions
  <2>3. CASE ~(o.ledger # options.ledger \/ o.saved)
        BY <1>4, <2>1, <2>3, PageUntouched DEF SetOptions, view
  <2> QED BY <2>2, <2>3
<1>5. ASSUME NEW i \in DOMAIN matches, NEW status \in Status, NEW reduced \in BOOLEAN,
             Transition(i, status, reduced)
      PROVE  PageInv'
      BY <1>5, TransitionPage
<1>6. ASSUME NEW r \in requests, Land(r), options' = options PROVE PageInv'
      BY <1>6, <1>a, <1>c, RerenderPage DEF Land
<1>7. CASE PoolFails \/ PoolTerminates
      BY <1>7, PageUntouched DEF PoolFails, PoolTerminates
<1>8. ASSUME NEW r \in requests, PoolAnswers(r) \/ Then(r) PROVE PageInv'
      BY <1>8, PageUntouched DEF PoolAnswers, Then
<1>9. ASSUME NEW r \in requests, Catch(r) PROVE PageInv'
      BY <1>9, <1>6, PageUntouched DEF Catch
<1>10. CASE Frame
      BY <1>10, <1>6, PageUntouched DEF Frame, InFlight
<1>11. ASSUME NEW c \in commits, Collapse(c) PROVE PageInv'
  <2>1. commits = {c}
        BY <1>a DEF OneDeferredCommit
  <2>2. commits' = {[c EXCEPT !.stage = "timer"]} /\ [c EXCEPT !.stage = "timer"].id = c.id
        BY <1>11, <2>1 DEF Collapse, TypeOK
  <2>3. pending' = pending /\ section' = section /\ c.id = pending
        BY <1>11, <1>a, <2>1 DEF Collapse, OneDeferredCommit
  <2>4. pending # None /\ section # None
        BY <1>a, <2>1 DEF OneDeferredCommit
  <2>5. OneDeferredCommit'
        BY <2>2, <2>3, <2>4, OneArmed
  <2>6. SectionCurrent'
        BY <1>11, <1>a DEF Collapse, SectionCurrent, OneVerdictApart, view
  <2> QED BY <2>5, <2>6 DEF PageInv
<1>12. ASSUME NEW c \in commits, Commit(c) PROVE PageInv'
  <2>1. pending' = None /\ commits' = {}
        BY <1>12, <1>a, NothingElseArmed DEF Commit
  <2>2. options' = options /\ matches' = matches
        BY <1>12 DEF Commit, view
  <2>3. section' = None \/ section' = Drawn(options.ledger, matches)
        BY <1>12 DEF Commit
  <2>4. OneDeferredCommit'
        BY <2>1 DEF OneDeferredCommit
  <2>5. SectionCurrent'
        BY <2>2, <2>3 DEF SectionCurrent, Drawn
  <2> QED BY <2>4, <2>5 DEF PageInv
<1>13. CASE UNCHANGED vars
      BY <1>13, PageUntouched DEF vars, view
<1> QED BY <1>1, <1>2, <1>3, <1>4, <1>5, <1>7, <1>8, <1>9, <1>10, <1>11, <1>12, <1>13
        DEF Next, Host, Pool, Answers, Continuations, Animation

-----------------------------------------------------------------------------
(* The requests: what an answer finds when it lands *)

LEMMA RequestInit == Init => RequestInv
<1> SUFFICES ASSUME Init PROVE RequestInv
    OBVIOUS
<1>1. StaleOnlyIfUndercut
      BY DEF Init, StaleOnlyIfUndercut
<1>2. CASE ~options.saved /\ options.pooled
  <2> DEFINE new == [version |-> 1, answer |-> Proposed[options.ledger],
                     stage |-> "asked", overtaken |-> FALSE]
  <2>1. requests = {new} /\ matches = <<>>
        BY <1>2 DEF Init
  <2>2. new.overtaken = FALSE
        OBVIOUS
  <2> HIDE DEF new
  <2> QED BY <1>1, <2>1, <2>2 DEF RequestInv, RequestsApart, AwaitingEmpty, InFlight
<1>3. CASE ~(~options.saved /\ options.pooled)
      BY <1>1, <1>3 DEF Init, RequestInv, RequestsApart, AwaitingEmpty, InFlight
<1> QED BY <1>2, <1>3

\* Requests that go on to another stage, or are dropped, stay apart and find what
\* they found before.
LEMMA RequestsMoved ==
    ASSUME RequestInv, UNCHANGED <<version, matches, outdated, undercut>>,
           NEW f, requests' \subseteq {f[r] : r \in requests},
           \A r \in requests : f[r].version = r.version /\ f[r].overtaken = r.overtaken
    PROVE  RequestInv'
<1>1. RequestsApart'
      BY DEF RequestInv, RequestsApart
<1>2. AwaitingEmpty'
      BY DEF RequestInv, AwaitingEmpty, InFlight
<1>3. StaleOnlyIfUndercut'
      BY DEF RequestInv, StaleOnlyIfUndercut
<1> QED BY <1>1, <1>2, <1>3 DEF RequestInv

\* One request moves on.
LEMMA OneMoved ==
    ASSUME TypeOK, RequestInv, UNCHANGED <<version, matches, outdated, undercut>>,
           NEW r \in requests, NEW stage \in {"answered", "rejected", "queued"},
           requests' = Moved(r, stage) \/ requests' = requests \ {r}
    PROVE  RequestInv'
<1> DEFINE t == [r EXCEPT !.stage = stage]
           f == [s \in requests |-> IF s = r THEN t ELSE s]
           g == [s \in requests |-> s]
<1>1. t.version = r.version /\ t.overtaken = r.overtaken
  <2>1. r \in RequestOf(version) /\ version \in Nat
        BY DEF TypeOK, RequestOf
  <2> QED BY <2>1, MovedTyped
<1>2. CASE requests' = Moved(r, stage)
  <2>1. requests' = (requests \ {r}) \cup {t}
        BY <1>2 DEF Moved
  <2> HIDE DEF t
  <2>2. requests' \subseteq {f[s] : s \in requests}
        BY <2>1
  <2>3. \A s \in requests : f[s].version = s.version /\ f[s].overtaken = s.overtaken
        BY <1>1
  <2> HIDE DEF f
  <2> QED BY <2>2, <2>3, RequestsMoved
<1>3. CASE requests' = requests \ {r}
  <2>1. requests' \subseteq {g[s] : s \in requests}
        BY <1>3
  <2>2. \A s \in requests : g[s].version = s.version /\ g[s].overtaken = s.overtaken
        OBVIOUS
  <2> HIDE DEF g
  <2> QED BY <2>1, <2>2, RequestsMoved
<1> QED BY <1>2, <1>3

\* All the jobs of the pool move on.
LEMMA AllMoved ==
    ASSUME TypeOK, RequestInv, UNCHANGED <<version, matches, outdated, undercut>>,
           NEW stage \in {"answered", "rejected", "queued"},
           requests' = (requests \ Asked) \cup {[r EXCEPT !.stage = stage] : r \in Asked}
    PROVE  RequestInv'
<1> DEFINE f == [r \in requests |-> IF r \in Asked THEN [r EXCEPT !.stage = stage] ELSE r]
<1>1. \A r \in requests : /\ [r EXCEPT !.stage = stage].version = r.version
                          /\ [r EXCEPT !.stage = stage].overtaken = r.overtaken
  <2>1. requests \subseteq RequestOf(version) /\ version \in Nat
        BY DEF TypeOK, RequestOf
  <2> QED BY <2>1, MovedTyped
<1>2. requests' \subseteq {f[r] : r \in requests}
      BY DEF Asked
<1>3. \A r \in requests : f[r].version = r.version /\ f[r].overtaken = r.overtaken
      BY <1>1
<1> HIDE DEF f
<1> QED BY <1>2, <1>3, RequestsMoved

\* A current answer lands where nothing is, and nothing else is awaited.
LEMMA LandRequests ==
    ASSUME RequestInv, NEW r \in InFlight, Land(r), UNCHANGED <<version, undercut>>,
           requests' \subseteq requests \ {r}
    PROVE  RequestInv' /\ (undercut \/ matches = <<>>)
<1>1. RequestsApart'
      BY DEF RequestInv, RequestsApart
<1>2. InFlight' = {}
      BY DEF RequestInv, RequestsApart, InFlight
<1>3. AwaitingEmpty'
      BY <1>2 DEF AwaitingEmpty
<1>4. undercut \/ (~r.overtaken /\ matches = <<>>)
      BY DEF RequestInv, AwaitingEmpty
<1>5. StaleOnlyIfUndercut'
      BY <1>4 DEF Land, StaleOnlyIfUndercut
<1> QED BY <1>1, <1>3, <1>4, <1>5 DEF RequestInv

\* The frame drops what is no longer current.
LEMMA DroppedRequests ==
    ASSUME RequestInv, UNCHANGED <<version, matches, outdated, undercut>>,
           requests' \subseteq requests
    PROVE  RequestInv'
BY DEF RequestInv, RequestsApart, AwaitingEmpty, InFlight, StaleOnlyIfUndercut

\* Deriving the matches of new options: a new question leaves the old ones behind;
\* without one, those still current make the matches undercut.
LEMMA InitializeRequests ==
    ASSUME TypeOK, RequestInv, NEW o \in Options, InitializeMatches(o)
    PROVE  RequestInv'
<1> DEFINE new == [version |-> version + 1, answer |-> Proposed[o.ledger],
                   stage |-> "asked", overtaken |-> FALSE]
<1>1. \A r \in requests : /\ r.version \in 1 .. version
                          /\ [r EXCEPT !.overtaken = TRUE].version = r.version
  <2>1. requests \subseteq RequestOf(version) /\ version \in Nat
        BY DEF TypeOK, RequestOf
  <2>2. \A r \in requests : [r EXCEPT !.overtaken = TRUE].version = r.version
        BY <2>1, OvertakenTyped
  <2>3. \A r \in requests : r.version \in 1 .. version
        BY DEF TypeOK
  <2> QED BY <2>2, <2>3
<1>2. \A r, s \in Overtaken : r.version = s.version => r = s
  <2> SUFFICES ASSUME NEW r \in Overtaken, NEW s \in Overtaken, r.version = s.version
               PROVE  r = s
      OBVIOUS
  <2>1. PICK p \in requests : r = [p EXCEPT !.overtaken = TRUE]
        BY DEF Overtaken
  <2>2. PICK q \in requests : s = [q EXCEPT !.overtaken = TRUE]
        BY DEF Overtaken
  <2>3. p.version = r.version /\ q.version = s.version
        BY <1>1, <2>1, <2>2
  <2>4. p = q
        BY <2>3 DEF RequestInv, RequestsApart
  <2> QED BY <2>1, <2>2, <2>4
<1>3. \A r \in Overtaken : r.version \in 1 .. version
      BY <1>1 DEF Overtaken
<1>4. StaleOnlyIfUndercut'
      BY DEF InitializeMatches, StaleOnlyIfUndercut
<1>5. CASE ~o.saved /\ o.pooled /\ working
  <2>1. /\ requests' = Overtaken \cup {new} /\ version' = version + 1
        /\ matches' = <<>>
        BY <1>5 DEF InitializeMatches
  <2>2. new.version = version + 1 /\ new.overtaken = FALSE
        OBVIOUS
  <2> HIDE DEF new
  <2>3. RequestsApart'
        BY <1>2, <1>3, <2>1, <2>2 DEF RequestsApart, TypeOK
  <2>4. InFlight' \subseteq {new}
        BY <1>3, <2>1, <2>2 DEF InFlight, TypeOK
  <2>5. AwaitingEmpty'
        BY <2>1, <2>2, <2>4 DEF AwaitingEmpty
  <2> QED BY <1>4, <2>3, <2>5 DEF RequestInv
<1>6. CASE ~(~o.saved /\ o.pooled /\ working)
  <2>1. /\ requests' = Overtaken /\ version' = version
        /\ undercut' = (undercut \/ InFlight # {})
        BY <1>6 DEF InitializeMatches
  <2>2. RequestsApart'
        BY <1>2, <2>1 DEF RequestsApart
  <2>3. InFlight = {} => InFlight' = {}
        BY <1>1, <2>1 DEF InFlight, Overtaken
  <2>4. AwaitingEmpty'
        BY <2>1, <2>3 DEF AwaitingEmpty
  <2> QED BY <1>4, <2>2, <2>4 DEF RequestInv
<1> QED BY <1>5, <1>6

\* Every step keeps the requests apart, and one that is not a gesture replaces
\* matches only where there are none.
LEMMA RequestStep ==
    TypeOK /\ RequestInv /\ [Next]_vars =>
      /\ RequestInv'
      /\ gestures' = gestures /\ ~undercut => matches' = matches \/ matches = <<>>
<1> DEFINE Goal == /\ RequestInv'
                   /\ gestures' = gestures /\ ~undercut => matches' = matches \/ matches = <<>>
<1> SUFFICES ASSUME TypeOK, RequestInv, [Next]_vars PROVE Goal
    OBVIOUS
<1>1. CASE UNCHANGED <<view, gestures>>
      BY <1>1, DroppedRequests DEF view
<1>2. ASSUME NEW o \in Options, SetOptions(o) PROVE Goal
  <2>1. gestures' # gestures
        BY <1>2 DEF SetOptions, TypeOK
  <2>2. RequestInv'
        BY <1>2, InitializeRequests, DroppedRequests DEF SetOptions, view
  <2> QED BY <2>1, <2>2
<1>3. ASSUME NEW i \in DOMAIN matches, NEW status \in Status, NEW reduced \in BOOLEAN,
             Transition(i, status, reduced)
      PROVE  Goal
  <2>1. /\ UNCHANGED <<version, requests, outdated, undercut>>
        /\ matches' = [matches EXCEPT ![i].status = status]
        /\ gestures' # gestures
        BY <1>3 DEF Transition, TypeOK
  <2>2. matches # <<>>
        OBVIOUS
  <2>3. RequestsApart' /\ StaleOnlyIfUndercut'
        BY <2>1 DEF RequestInv, RequestsApart, StaleOnlyIfUndercut
  <2>4. ~undercut => InFlight = {}
        BY <2>2 DEF RequestInv, AwaitingEmpty
  <2>5. AwaitingEmpty'
        BY <2>1, <2>4 DEF AwaitingEmpty, InFlight
  <2> QED BY <2>1, <2>3, <2>5 DEF RequestInv
<1>4. CASE PoolFails
      BY <1>4, AllMoved DEF PoolFails
<1>5. CASE PoolTerminates
      BY <1>5, AllMoved DEF PoolTerminates
<1>6. ASSUME NEW r \in requests, PoolAnswers(r) \/ Then(r) PROVE Goal
      BY <1>6, OneMoved DEF PoolAnswers, Then
<1>7. ASSUME NEW r \in requests, Catch(r) PROVE Goal
  <2>1. requests' = requests \ {r} /\ UNCHANGED <<version, undercut>>
        BY <1>7 DEF Catch
  <2>2. CASE r.version = version
        BY <1>7, <2>1, <2>2, LandRequests DEF Catch, InFlight
  <2>3. CASE r.version # version
        BY <1>7, <2>1, <2>3, DroppedRequests DEF Catch
  <2> QED BY <2>2, <2>3
<1>8. CASE Frame
  <2>1. requests' = requests \ Queued /\ UNCHANGED <<version, undercut>>
        BY <1>8 DEF Frame
  <2>2. CASE Queued \cap InFlight = {}
        BY <1>8, <2>1, <2>2, DroppedRequests DEF Frame
  <2>3. CASE Queued \cap InFlight # {}
    <3>1. PICK r \in Queued \cap InFlight : Land(r)
          BY <1>8, <2>3 DEF Frame
    <3>2. requests' \subseteq requests \ {r}
          BY <2>1, <3>1
    <3> QED BY <2>1, <3>1, <3>2, LandRequests
  <2> QED BY <2>2, <2>3
<1>9. CASE Mount \/ Hydrate \/ CleanUp \/ Animation \/ UNCHANGED vars
      BY <1>1, <1>9 DEF Mount, Hydrate, CleanUp, Animation, Collapse, Commit, vars
<1> QED BY <1>2, <1>3, <1>4, <1>5, <1>6, <1>7, <1>8, <1>9
        DEF Next, Host, Pool, Answers, Continuations

-----------------------------------------------------------------------------
(* The matches: balanced for the present data *)

LEMMA EmptyBalanced ==
    ASSUME NEW ledger PROVE Balanced(ledger, <<>>)
BY DEF Balanced, Apart

LEMMA MatchesInit == Init => MatchesInv
<1> SUFFICES ASSUME Init PROVE MatchesInv
    OBVIOUS
<1>1. options.ledger \in Ledger
      BY DEF Init, Options
<1>2. \/ matches = <<>> \/ matches = Saved[options.ledger] \/ matches = Proposed[options.ledger]
      BY DEF Init
<1>3. Balanced(options.ledger, matches)
      BY <1>1, <1>2, MatchFacts, EmptyBalanced
<1>4. \A r \in requests : r.answer = Proposed[options.ledger]
      BY DEF Init
<1> QED BY <1>3, <1>4 DEF MatchesInv

\* Requests that go on to another stage, or are dropped, keep their answers.
LEMMA AnswersKept ==
    ASSUME MatchesInv, UNCHANGED <<options, matches, outdated>>,
           \A r \in requests' : \E s \in requests :
             r.answer = s.answer /\ r.overtaken = s.overtaken
    PROVE  MatchesInv'
BY DEF MatchesInv

\* An answer that lands is of the present data, or was overtaken.
LEMMA LandMatches ==
    ASSUME TypeOK, MatchesInv, NEW r \in requests, Land(r), options' = options,
           requests' \subseteq requests
    PROVE  MatchesInv'
<1>1. options.ledger \in Ledger
      BY DEF TypeOK, Options
<1>2. ~r.overtaken => Balanced(options.ledger, r.answer)
      BY <1>1, MatchFacts DEF MatchesInv
<1> QED BY <1>2 DEF Land, MatchesInv

\* New data has its own matches, or none and a question about it.
LEMMA InitializeBalanced ==
    ASSUME TypeOK, NEW o \in Options, InitializeMatches(o), options' = o
    PROVE  MatchesInv'
<1>1. o.ledger \in Ledger
      BY DEF Options
<1>2. \/ matches' = <<>> \/ matches' = Saved[o.ledger] \/ matches' = Proposed[o.ledger]
      BY DEF InitializeMatches
<1>3. Balanced(o.ledger, matches')
      BY <1>1, <1>2, MatchFacts, EmptyBalanced
<1>4. \A r \in Overtaken : r.overtaken
  <2>1. \A r \in requests : [r EXCEPT !.overtaken = TRUE].overtaken
        BY DEF TypeOK
  <2> QED BY <2>1 DEF Overtaken
<1>5. \A r \in requests' : r \in Overtaken \/ r.answer = Proposed[o.ledger]
      BY DEF InitializeMatches
<1> QED BY <1>3, <1>4, <1>5 DEF MatchesInv

LEMMA MatchesStep == TypeOK /\ MatchesInv /\ [Next]_vars => MatchesInv'
<1> SUFFICES ASSUME TypeOK, MatchesInv, [Next]_vars PROVE MatchesInv'
    OBVIOUS
<1>a. requests \subseteq RequestOf(version) /\ version \in Nat
      BY DEF TypeOK, RequestOf
<1>1. CASE UNCHANGED <<options, view>>
      BY <1>1, AnswersKept DEF view
<1>2. ASSUME NEW o \in Options, SetOptions(o) PROVE MatchesInv'
  <2>1. CASE o.ledger # options.ledger \/ o.saved
        BY <1>2, <2>1, InitializeBalanced DEF SetOptions
  <2>2. CASE ~(o.ledger # options.ledger \/ o.saved)
        BY <1>2, <2>2 DEF SetOptions, MatchesInv, view
  <2> QED BY <2>1, <2>2
<1>3. ASSUME NEW i \in DOMAIN matches, NEW status \in Status, NEW reduced \in BOOLEAN,
             Transition(i, status, reduced)
      PROVE  MatchesInv'
  <2>1. /\ UNCHANGED <<options, requests, outdated>>
        /\ matches' = [matches EXCEPT ![i].status = status]
        BY <1>3 DEF Transition
  <2> QED BY <2>1, VerdictBalanced DEF MatchesInv
<1>4. ASSUME NEW r \in requests, NEW stage \in {"answered", "rejected", "queued"}
      PROVE  LET s == [r EXCEPT !.stage = stage] IN
             s.answer = r.answer /\ s.overtaken = r.overtaken
  <2>1. stage \in {"asked", "answered", "rejected", "queued"} /\ r \in RequestOf(version)
        BY <1>a
  <2> QED BY <1>a, <2>1, MovedTyped
<1>5. ASSUME NEW r \in requests, PoolAnswers(r) \/ Then(r) PROVE MatchesInv'
      BY <1>4, <1>5, AnswersKept DEF PoolAnswers, Then, Moved
<1>6. CASE PoolFails
  <2>1. requests' = (requests \ Asked) \cup {[r EXCEPT !.stage = "answered"] : r \in Asked}
        BY <1>6 DEF PoolFails
  <2>2. ASSUME NEW r \in requests'
        PROVE  \E s \in requests : r.answer = s.answer /\ r.overtaken = s.overtaken
    <3>1. CASE r \in requests
          BY <3>1
    <3>2. CASE r \notin requests
      <4>1. PICK s \in Asked : r = [s EXCEPT !.stage = "answered"]
            BY <2>1, <3>2
      <4>2. s \in requests
            BY <4>1 DEF Asked
      <4> QED BY <1>4, <4>1, <4>2
    <3> QED BY <3>1, <3>2
  <2> QED BY <1>6, <2>2, AnswersKept DEF PoolFails
<1>7. CASE PoolTerminates
  <2>1. requests' = (requests \ Asked) \cup {[r EXCEPT !.stage = "rejected"] : r \in Asked}
        BY <1>7 DEF PoolTerminates
  <2>2. ASSUME NEW r \in requests'
        PROVE  \E s \in requests : r.answer = s.answer /\ r.overtaken = s.overtaken
    <3>1. CASE r \in requests
          BY <3>1
    <3>2. CASE r \notin requests
      <4>1. PICK s \in Asked : r = [s EXCEPT !.stage = "rejected"]
            BY <2>1, <3>2
      <4>2. s \in requests
            BY <4>1 DEF Asked
      <4> QED BY <1>4, <4>1, <4>2
    <3> QED BY <3>1, <3>2
  <2> QED BY <1>7, <2>2, AnswersKept DEF PoolTerminates
<1>8. ASSUME NEW r \in requests, Catch(r) PROVE MatchesInv'
      BY <1>8, LandMatches, AnswersKept DEF Catch
<1>9. CASE Frame
  <2>1. CASE Queued \cap InFlight = {}
        BY <1>9, <2>1, AnswersKept DEF Frame
  <2>2. CASE Queued \cap InFlight # {}
    <3>1. PICK r \in Queued \cap InFlight : Land(r)
          BY <1>9, <2>2 DEF Frame
    <3> QED BY <1>9, <3>1, LandMatches DEF Frame, InFlight
  <2> QED BY <2>1, <2>2
<1>10. CASE Mount \/ Hydrate \/ CleanUp \/ Animation \/ UNCHANGED vars
      BY <1>1, <1>10 DEF Mount, Hydrate, CleanUp, Animation, Collapse, Commit, vars
<1> QED BY <1>2, <1>3, <1>5, <1>6, <1>7, <1>8, <1>9, <1>10
        DEF Next, Host, Pool, Answers, Continuations

\* Balanced matches are presented once, and their total is honest.
LEMMA MatchesShown == TypeOK /\ MatchesInv => RowsHonest
<1> SUFFICES ASSUME TypeOK, MatchesInv PROVE RowsHonest
    OBVIOUS
<1>1. options.ledger \in Ledger
      BY DEF TypeOK, Options
<1> DEFINE ledger == options.ledger
<1>2. IsLedger(ledger) /\ (~outdated => Balanced(ledger, matches))
      BY <1>1, MatchFacts DEF MatchesInv
<1> HIDE DEF ledger
<1>3. PresentedOnce
      BY <1>2, EachOnce DEF PresentedOnce, ledger
<1>4. DifferenceHonest
      BY <1>2, DifferenceIs DEF DifferenceHonest, Accepted, ledger
<1> QED BY <1>3, <1>4 DEF RowsHonest

-----------------------------------------------------------------------------
(* The theorems *)

\* What holds in every state, and is kept by every step.
THEOREM Inductive == Spec => [](TypeOK /\ PageInv /\ RequestInv /\ MatchesInv)
<1>1. Init => TypeOK /\ PageInv /\ RequestInv /\ MatchesInv
      BY TypeInit, PageInit, RequestInit, MatchesInit
<1>2. TypeOK /\ PageInv /\ RequestInv /\ MatchesInv /\ [Next]_vars
        => (TypeOK /\ PageInv /\ RequestInv /\ MatchesInv)'
      BY TypeStep, PageStep, RequestStep, MatchesStep DEF PageInv
<1> QED BY <1>1, <1>2, PTL DEF Spec

\* Every value the component keeps is of its type.
THEOREM TypeCorrect == Spec => []TypeOK
BY Inductive, PTL

\* Animations never queue up behind each other: at most one rebuild is deferred,
\* pendingVerdict names it, and none survives its section.
THEOREM CommitsNeverQueueUp == Spec => []OneDeferredCommit
<1>1. PageInv => OneDeferredCommit
      BY DEF PageInv
<1> QED BY <1>1, Inductive, PTL

\* The page never shows other data than the component has, nor matches more than
\* one verdict old.
THEOREM SectionAlwaysCurrent == Spec => []SectionCurrent
<1>1. PageInv => SectionCurrent
      BY DEF PageInv
<1> QED BY <1>1, Inductive, PTL

\* Whatever the verdicts, the page presents each line and each posting of the
\* ledger once, and its difference is what the unaccepted lines add up to.
THEOREM RowsAreHonest == Spec => []RowsHonest
BY Inductive, MatchesShown, PTL

\* Both at once: the page is that of the present data and of what will rebuild it.
THEOREM PageAlwaysCurrent == Spec => []PageCurrent
BY CommitsNeverQueueUp, SectionAlwaysCurrent, PTL DEF PageCurrent

\* The version drops every answer to a question withdrawn, but for the data changes
\* it is not told of.
THEOREM VersionDropsStale == Spec => []StaleOnlyIfUndercut
<1>1. RequestInv => StaleOnlyIfUndercut
      BY DEF RequestInv
<1> QED BY <1>1, Inductive, PTL

\* No answer, timer or frame undoes a verdict, with the same exception.
THEOREM VerdictsNeverUndone == Spec => VerdictsKept
<1>1. TypeOK /\ PageInv /\ RequestInv /\ [Next]_vars =>
        [gestures' = gestures /\ ~undercut => matches' = matches \/ matches = <<>>]_vars
      BY RequestStep
<1> QED BY <1>1, Inductive, PTL DEF Spec, VerdictsKept
=============================================================================
