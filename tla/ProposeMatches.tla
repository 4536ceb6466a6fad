--------------------------- MODULE ProposeMatches ---------------------------
(***************************************************************************)
(* A reconciliation as pure operators: what is proposed and what is shown. *)
(*                                                                         *)
(* The matching engine (packages/journals/src/utils/proposeMatches.ts): 3  *)
(* passes over the lines of a bank statement, each in ascending line id,   *)
(* that pair a line with one posting of the books or with a group of them. *)
(*                                                                         *)
(* A line is [id, days, amount, currency] and a posting                    *)
(* [entry, index, days, amount, currency]; ids are numbers, dates are days *)
(* or None when malformed (a reference to a posting that is not there is   *)
(* skipped in the same way and is a None date too).  The code sorts every  *)
(* list by a total order before it looks at it, so the inputs are sets.    *)
(***************************************************************************)
EXTENDS Integers, Sequences, FiniteSets, SequencesExt, FiniteSetsExt, Functions

CONSTANT None

\* ProposeMatchesOptions are a record [window, group, combinations]:
\* dateWindowDays, maxGroupSize and maxSumCombinations.

\* |book date - statement date|
Distance(posting, days) ==
    IF posting.days >= days THEN posting.days - days ELSE days - posting.days

ByPosition(a, b) ==
    a.entry < b.entry \/ (a.entry = b.entry /\ a.index < b.index)

ByDate(a, b) == a.days < b.days \/ (a.days = b.days /\ ByPosition(a, b))

Candidates(postings) == {p \in postings : p.days # None}

\* Array.sort by a total order.
Sorted(S, Precedes(_, _)) ==
    CHOOSE s \in Bijection(1 .. Cardinality(S), S) :
        \A i, j \in DOMAIN s : i < j => Precedes(s[i], s[j])

\* The candidates of one amount and currency, by date.
Bucket(postings, line) ==
    Sorted({p \in Candidates(postings) : /\ p.amount = line.amount
                                               /\ p.currency = line.currency},
                 ByDate)

Match(line, group, kind, dateDelta) ==
    [line |-> line.id, postings |-> group, kind |-> kind,
     dateDelta |-> dateDelta, status |-> "proposed"]

-----------------------------------------------------------------------------
(* Exact and suggested matches *)

\* Bug variant: the right comes first at a tie.
TakeLaterAtTie(bucket, used, days, window) ==
    LET open == {i \in DOMAIN bucket : /\ bucket[i] \notin used
                                       /\ Distance(bucket[i], days) <= window}
        nearest == {i \in open : \A j \in open :
                      Distance(bucket[i], days) <= Distance(bucket[j], days)}
    IN  IF open = {} THEN None ELSE bucket[Max(nearest)]

\* A turn of the walk: outward to the nearer side, left first at a tie, unless
\* nothing nearer than the best can follow.
Outward(bucket, used, days, window, at) ==
    LET size == Len(bucket)
        dist(i) == Distance(bucket[i], days)
        goLeft == /\ at.left > 0
                  /\ at.right > size \/ dist(at.left) <= dist(at.right)
        here == IF goLeft THEN at.left ELSE at.right
        reach == IF at.best = 0 THEN window + 1 ELSE dist(at.best)
    IN  IF (at.left = 0 /\ at.right > size) \/ dist(here) >= reach THEN at
        ELSE [left |-> IF goLeft THEN at.left - 1 ELSE at.left,
              right |-> IF goLeft THEN at.right ELSE at.right + 1,
              best |-> IF bucket[here] \in used THEN at.best ELSE here]

\* takeNearestCandidate: from where the date would stand in the bucket.
TakeNearestCandidate(bucket, used, days, window) ==
    LET size == Len(bucket)
        low == Cardinality({i \in 1 .. size : bucket[i].days < days})
        walk[n \in 0 .. size] ==
          IF n = 0 THEN [left |-> low, right |-> low + 1, best |-> 0]
          ELSE Outward(bucket, used, days, window, walk[n - 1])
        best == walk[size].best
    IN  IF best = 0 THEN None ELSE bucket[best]

Open(state, line) == line.days # None /\ \A m \in state.found : m.line # line.id

\* An open line takes the nearest posting that is left.
TakeNearest(st, line, postings, window, kind) ==
    LET posting == TakeNearestCandidate(Bucket(postings, line), st.used, line.days, window)
    IN  IF ~Open(st, line) \/ posting = None THEN st
        ELSE [used |-> st.used \cup {posting},
              found |-> st.found \cup {Match(line, <<posting>>, kind, posting.days - line.days)}]

\* Passes 1 and 2.
NearestPass(state, lines, postings, window, kind) ==
    FoldLeft(LAMBDA st, line : TakeNearest(st, line, postings, window, kind), state, lines)

-----------------------------------------------------------------------------
(* Sum matches *)

\* The postings a line may group, in the order the search tries them.
Eligible(postings, used, line, window) ==
    Sorted(
      {p \in Candidates(postings) \ used : /\ p.currency = line.currency
                                           /\ Distance(p, line.days) <= window},
      LAMBDA a, b :
        \/ Distance(a, line.days) < Distance(b, line.days)
        \/ /\ Distance(a, line.days) = Distance(b, line.days)
           /\ \/ a.amount > b.amount
              \/ a.amount = b.amount /\ ByPosition(a, b))

\* Bug variant: amounts are taken to be positive, so nothing is the least sum.
BoundsForDebits(eligible, maxGroup) ==
    LET size == Len(eligible)
        bound[i \in 1 .. size + 1] ==
          [r \in 0 .. maxGroup |->
             IF r = 0 \/ i > size THEN [high |-> 0, low |-> 0]
             ELSE LET skip == bound[i + 1][r]
                      take == bound[i + 1][r - 1]
                  IN  [high |-> Max({skip.high, eligible[i].amount + take.high}),
                       low  |-> 0]]
    IN  bound

\* computeSuffixSumBounds: the largest and the smallest sum of at most r of the
\* postings from i on.
SuffixSumBounds(eligible, maxGroup) ==
    LET size == Len(eligible)
        bound[i \in 1 .. size + 1] ==
          [r \in 0 .. maxGroup |->
             IF r = 0 \/ i > size THEN [high |-> 0, low |-> 0]
             ELSE LET skip == bound[i + 1][r]
                      take == bound[i + 1][r - 1]
                  IN  [high |-> Max({skip.high, eligible[i].amount + take.high}),
                       low  |-> Min({skip.low, eligible[i].amount + take.low})]]
    IN  bound

GroupAmount(group) == FoldLeft(LAMBDA sum, p : sum + p.amount, 0, group)

\* No group that extends the chosen with postings from i on comes to the amount.
Hopeless(bound, options, amount, chosen, i) ==
    LET need == amount - GroupAmount(chosen)
        reach == bound[i][options.group - Len(chosen)]
    IN  need > reach.high \/ need < reach.low

\* The depth-first search of findSumGroup for one line: visit is the loop that
\* extends what is chosen with the postings from i on, explored the nodes entered
\* so far; the group found is empty when there is none.
SearchGroup(eligible, amount, options) ==
    LET size == Len(eligible)
        bound == SuffixSumBounds(eligible, options.group)
        visit[at \in [chosen : Seq(Range(eligible)), i : 1 .. size + 1, explored : Nat]] ==
          IF at.i > size THEN [group |-> <<>>, explored |-> at.explored]
          ELSE LET group == Append(at.chosen, eligible[at.i])
                   entered == at.explored + 1
                   inner == IF at.explored = options.combinations
                            THEN [group |-> <<>>, explored |-> entered]
                            ELSE IF Len(group) >= 2 /\ GroupAmount(group) = amount
                            THEN [group |-> group, explored |-> entered]
                            ELSE IF \/ Len(group) = options.group
                                    \/ Hopeless(bound, options, amount, group, at.i + 1)
                            THEN [group |-> <<>>, explored |-> entered]
                            ELSE visit[[chosen |-> group, i |-> at.i + 1,
                                        explored |-> entered]]
               IN  IF inner.group # <<>> \/ inner.explored > options.combinations
                   THEN inner
                   ELSE visit[[chosen |-> at.chosen, i |-> at.i + 1,
                               explored |-> inner.explored]]
    IN  IF size < 2 \/ Hopeless(bound, options, amount, <<>>, 1) THEN <<>>
        ELSE visit[[chosen |-> <<>>, i |-> 1, explored |-> 0]].group

\* getLargestMagnitudeDelta
WorstDelta(group, days) ==
    FoldLeft(LAMBDA worst, p :
               IF Distance(p, days) > (IF worst < 0 THEN -worst ELSE worst)
               THEN p.days - days ELSE worst,
             0, group)

\* An open line takes the first group that adds up to it.
TakeGroup(st, line, postings, options) ==
    LET group == SearchGroup(Eligible(postings, st.used, line, options.window),
                             line.amount, options)
    IN  IF ~Open(st, line) \/ group = <<>> THEN st
        ELSE [used |-> st.used \cup Range(group),
              found |-> st.found \cup
                {Match(line, group, "sum", WorstDelta(group, line.days))}]

\* Pass 3
SumPass(state, lines, postings, options) ==
    FoldLeft(LAMBDA st, line : TakeGroup(st, line, postings, options), state, lines)

-----------------------------------------------------------------------------
\* proposeMatches: the matches in ascending line id.
Proposals(lines, postings, options) ==
    LET ordered == Sorted(lines, LAMBDA a, b : a.id < b.id)
        exact == NearestPass([used |-> {}, found |-> {}], ordered, postings, 0, "exact")
        suggested == IF options.window > 0
                     THEN NearestPass(exact, ordered, postings, options.window, "suggested")
                     ELSE exact
        summed == IF options.window > 0 /\ options.group >= 2
                  THEN SumPass(suggested, ordered, postings, options)
                  ELSE suggested
    IN  Sorted(summed.found, LAMBDA a, b : a.line < b.line)

-----------------------------------------------------------------------------
(* What a reconciliation shows (packages/journals/src/renderers/           *)
(* ReconciliationRenderer.ts): the rows of the split view and the totals of*)
(* its header, for a ledger [lines, postings] and a list of matches.  Order*)
(* and markup of the rows are left out.                                    *)

\* A row is named by getReconciliationRowKey: its type and what it presents.
Pair(line) == <<"pair", line.id>>
StatementOnly(line) == <<"statement-only", line.id>>
BookOnly(posting) == <<"book-only", posting.entry, posting.index>>

ActiveMatches(matches) == {i \in DOMAIN matches : matches[i].status # "rejected"}

\* The active matches claim a line; the last of the list has it.
ClaimsOf(matches, line) == {i \in ActiveMatches(matches) : matches[i].line = line.id}

Claimed(matches) == UNION {Range(matches[i].postings) : i \in ActiveMatches(matches)}

\* Bug variant: a rejected match keeps its postings.
RowsKeepRejected(ledger, matches) ==
    LET kept == UNION {Range(matches[i].postings) : i \in DOMAIN matches}
    IN  {IF ClaimsOf(matches, line) # {} THEN Pair(line) ELSE StatementOnly(line)
           : line \in ledger.lines}
          \cup {BookOnly(p) : p \in ledger.postings \ kept}

\* computeReconciliationRows
Rows(ledger, matches) ==
    {IF ClaimsOf(matches, line) # {} THEN Pair(line) ELSE StatementOnly(line)
       : line \in ledger.lines}
      \cup {BookOnly(p) : p \in ledger.postings \ Claimed(matches)}

\* The postings that the pair row of a line presents.
Presented(ledger, matches) ==
    UNION {LET claims == ClaimsOf(matches, line)
           IN  IF claims = {} THEN {} ELSE Range(matches[Max(claims)].postings)
             : line \in ledger.lines}

\* What postings, or lines, add up to.
Amount(items) == MapThenSumSet(LAMBDA item : item.amount, items)

\* computeReconciliationTotals, for one currency.
StatementTotal(ledger, c) == Amount({line \in ledger.lines : line.currency = c})

ClearedTotal(matches, c) ==
    MapThenSumSet(LAMBDA i : Amount({p \in Range(matches[i].postings) : p.currency = c}),
                  {i \in DOMAIN matches : matches[i].status = "accepted"})

Difference(ledger, matches, c) == StatementTotal(ledger, c) - ClearedTotal(matches, c)

-----------------------------------------------------------------------------
(* What a ledger is, and what a list of matches of it promises             *)
(* (packages/journals/src/types.ts)                                        *)

IsLedger(ledger) ==
    /\ IsFiniteSet(ledger.lines) /\ IsFiniteSet(ledger.postings) /\ None \notin ledger.postings
    /\ \A l \in ledger.lines : l.id \in Int /\ l.amount \in Int /\ l.days \in Int \cup {None}
    /\ \A l, m \in ledger.lines : l.id = m.id => l = m
    /\ \A p \in ledger.postings : /\ p.entry \in Int /\ p.index \in Int /\ p.amount \in Int
                                 /\ p.days \in Int \cup {None}
    /\ \A p, q \in ledger.postings : p.entry = q.entry /\ p.index = q.index => p = q

Status == {"proposed", "accepted", "rejected"}

\* ReconciliationMatch.
MatchOf(ledger) ==
    [line : {l.id : l \in ledger.lines}, postings : Seq(ledger.postings),
     kind : {"exact", "suggested", "sum", "manual"}, dateDelta : Int, status : Status]

LineOf(ledger, match) == CHOOSE line \in ledger.lines : line.id = match.line

\* The postings of a match "sum to the statement line amount in its currency".
Covers(ledger, match) ==
    LET line == LineOf(ledger, match)
    IN  /\ IsInjective(match.postings)
        /\ \A p \in Range(match.postings) : p.currency = line.currency
        /\ Amount(Range(match.postings)) = line.amount

\* "Every line and posting is used at most once".
Apart(matches) ==
    \A i, j \in DOMAIN matches : i # j =>
      /\ matches[i].line # matches[j].line
      /\ Range(matches[i].postings) \cap Range(matches[j].postings) = {}

Balanced(ledger, matches) ==
    /\ matches \in Seq(MatchOf(ledger))
    /\ \A i \in DOMAIN matches : Covers(ledger, matches[i])
    /\ Apart(matches)

\* A posting that a line may be matched with.
Near(options, posting, line) ==
    /\ line.days # None /\ posting.days # None
    /\ posting.currency = line.currency
    /\ Distance(posting, line.days) <= options.window

UsedBy(matches) == UNION {Range(m.postings) : m \in matches}

\* Every group of postings that would cover a line.
Covering(options, line, postings) ==
    {group \in SUBSET {p \in postings : Near(options, p, line)} :
       /\ Cardinality(group) \in 2 .. options.group
       /\ Amount(group) = line.amount}

\* A match covers its line to the last unit with postings of its currency in
\* its window, and no line and no posting is in two matches (proposeMatches:
\* "Every line and posting is used at most once across all passes").
MatchesSound(ledger, options, matches) ==
    /\ Balanced(ledger, matches)
    /\ \A match \in Range(matches) :
         /\ \A p \in Range(match.postings) : Near(options, p, LineOf(ledger, match))
         /\ match.kind = "exact" <=> match.dateDelta = 0 /\ Len(match.postings) = 1

\* No line is left unmatched beside a posting of its amount in its window, nor
\* beside a group that adds up to it, where a search may try every group there is:
\* the pruning by the largest and smallest sums loses nothing (findSumGroup).
NothingMissed(ledger, options, matches) ==
    LET unmatched == {line \in ledger.lines : \A m \in Range(matches) : m.line # line.id}
        left == ledger.postings \ UsedBy(Range(matches))
    IN  \A line \in unmatched :
          /\ \A p \in left : ~ (Near(options, p, line) /\ p.amount = line.amount)
          /\ options.window > 0 /\ options.combinations >= Cardinality(SUBSET ledger.postings)
               => Covering(options, line, left) = {}
=============================================================================
