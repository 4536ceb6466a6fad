---------------------------- MODULE MCAlgorithms ----------------------------
(***************************************************************************)
(* The pure algorithms against their definitions: the register operators on*)
(* every store of up to three entries, the matching engine on every        *)
(* reconciliation of up to two statement lines and three postings, the     *)
(* statements on small ledgers and the importers on small files, drawn     *)
(* from small catalogues.  A behaviour builds one input, an item at a time.*)
(***************************************************************************)
EXTENDS ProposeMatches, Books, Imports

VARIABLES
    entries,   \* a store, for the register
    problem,   \* the lines, postings and options of a reconciliation
    found      \* the matches proposed for it

\* Bounds.
Ids == 1 .. 3
Dates == 1 .. 2
Paths == {<<"a">>, <<"a", "b">>}
Currencies == {"X", "Y"}

P(a, n, c) == [account |-> a, amount |-> n, currency |-> c]

\* An amount of Limit + 1 is unsafe and twice Limit - 1 leaves the exact range.
Large == Limit - 1

PostingLists ==
    {<<P(<<"a">>, Large, "X")>>,
     <<P(<<"a", "b">>, Large, "X")>>,
     <<P(<<"a">>, -1, "X")>>,
     <<P(<<"a">>, -Large, "X")>>,
     <<P(<<"a", "b">>, Limit + 1, "X")>>,
     <<P(<<"a">>, Large, "Y")>>,
     <<P(<<"a">>, Large, "X"), P(<<"a", "b">>, -Large, "X")>>,
     <<P(<<"a">>, Large, "X"), P(<<"a">>, Large, "X")>>,
     <<P(<<"a", "b">>, Large, "Y"), P(<<"a">>, -1, "X")>>}

Entry(id, date, postings) ==
    [id |-> id, date |-> date, text |-> {ToString(id)}, postings |-> postings]

L(days, amount, currency) == [days |-> days, amount |-> amount, currency |-> currency]

\* What a line and a posting may be, ids apart.
LineKinds == {L(1, 1, "X"), L(2, 1, "X"), L(2, 2, "X"), L(2, 1, "Y"), L(None, 1, "X")}
BookKinds == {L(1, 1, "X"), L(2, 1, "X"), L(3, 1, "X"), L(1, 2, "X"), L(3, 3, "X"),
              L(2, -1, "X"), L(None, 1, "X")}
MaxLines == 2
MaxPostings == 3

\* All passes; the exact pass alone; a search that is cut off.
OptionKinds == {[window |-> 1, group |-> 3, combinations |-> 20],
                [window |-> 0, group |-> 3, combinations |-> 20],
                [window |-> 2, group |-> 2, combinations |-> 2]}

AlgorithmsInit ==
    /\ entries = <<>>
    /\ problem \in {[lines |-> {}, postings |-> {}, options |-> o] : o \in OptionKinds}
    /\ found = <<>>

\* A behaviour is of one of the five kinds of input.
Init ==
    /\ AlgorithmsInit
    /\ \/ BooksInit /\ IdleImports
       \/ (FigureInit \/ ExportInit \/ FileInit) /\ books = <<>> /\ problem.options.window = 0

NoProblem == problem.lines = {} /\ problem.postings = {}

\* One more entry, anywhere in the order.
Insert(id) ==
    /\ NoProblem /\ problem.options.window = 1
    /\ \A i \in DOMAIN entries : entries[i].id < id
    /\ \E date \in Dates, postings \in PostingLists :
         entries' = SortEntries(Append(entries, Entry(id, date, postings)))
    /\ UNCHANGED <<problem, found>>

WithLine(kind) ==
    [problem EXCEPT !.lines = @ \cup {kind @@ [id |-> Cardinality(@) + 1]}]

\* Two postings to an entry.
WithPosting(kind) ==
    [problem EXCEPT !.postings = @ \cup
       {kind @@ [entry |-> Cardinality(@) \div 2, index |-> Cardinality(@) % 2]}]

\* One more line, while there is no posting, or one more posting.
Extensions ==
    {WithLine(kind) : kind \in {k \in LineKinds : /\ problem.postings = {}
                                                  /\ Cardinality(problem.lines) < MaxLines}}
      \cup {WithPosting(kind) : kind \in {k \in BookKinds :
              /\ problem.lines # {}
              /\ Cardinality(problem.postings) < MaxPostings}}

Pose(p) ==
    /\ entries = <<>>
    /\ problem' = p
    /\ found' = Proposals(p.lines, p.postings, p.options)
    /\ UNCHANGED entries

AlgorithmsNext ==
    /\ books = <<>> /\ IdleImports
    /\ (\E id \in Ids : Insert(id)) \/ (\E p \in Extensions : Pose(p))
    /\ UNCHANGED <<books, importVars>>

NextBooks ==
    /\ entries = <<>> /\ NoProblem /\ problem.options.window = 0 /\ IdleImports
    /\ BooksNext
    /\ UNCHANGED <<entries, problem, found, importVars>>

NextImport ==
    /\ FigureNext \/ ExportNext \/ FileNext
    /\ UNCHANGED <<entries, problem, found, books>>

Next == AlgorithmsNext \/ NextBooks \/ NextImport

Spec == Init /\ [][Next]_<<entries, problem, found, books, importVars>>

-----------------------------------------------------------------------------
(* The definitions the code is compared with *)

\* All postings of a register, as (entry, posting) positions without order.
Touching(path, deep) ==
    {pos \in (1 .. 3) \X (1 .. 2) :
       /\ pos[1] \in DOMAIN entries
       /\ pos[2] \in DOMAIN entries[pos[1]].postings
       /\ LET posting == PostingAt(entries, pos)
          IN  /\ posting.amount \in {Large, -1, -Large}
              /\ \/ posting.account = path
                 \/ deep /\ posting.account = <<"a", "b">> /\ path = <<"a">>}

\* What a currency's postings on a set of positions add up to.
Total(positions, c) ==
    MapThenSumSet(LAMBDA pos : PostingAt(entries, pos).amount,
                  {pos \in positions : PostingAt(entries, pos).currency = c})

AmountOf(f, c) == IF c \in DOMAIN f THEN f[c] ELSE 0

\* Of a currency that is not flagged, the balance as of a date is the exact sum
\* of the safe postings up to that date, zeros absent (getBalancesAsOf), and the
\* change over [from, to] that of the postings dated inside, whatever rows precede
\* or follow, nothing for an inverted range (getBalanceChanges): as the
\* nearest double, since the difference of two safe totals need not be safe.
BalancesExact ==
    \A path \in Paths, deep \in BOOLEAN :
    \A index \in {BuildRegisterIndex(entries, path, deep)}, from \in 1 .. 3, to \in 0 .. 2 :
      LET balances == GetBalancesAsOf(entries, index, to)
          changes == GetBalanceChanges(entries, index, from, to)
          upTo == {pos \in Touching(path, deep) : entries[pos[1]].date <= to}
          inside == {pos \in upTo : from <= entries[pos[1]].date}
      IN  \A c \in Currencies \ index.overflow :
            /\ AmountOf(balances, c) = Total(upTo, c)
            /\ c \in DOMAIN balances => balances[c] # 0
            /\ AmountOf(changes, c) = Float(Total(inside, c))

\* "The sum of register postings dated inside it" (getBalanceChanges), of a currency
\* that hasRunningBalanceOverflow does not flag.
ChangesExact ==
    \A path \in Paths, deep \in BOOLEAN :
    \A index \in {BuildRegisterIndex(entries, path, deep)}, from \in 1 .. 3, to \in 0 .. 2 :
      LET changes == GetBalanceChanges(entries, index, from, to)
          inside == {pos \in Touching(path, deep) : /\ from <= entries[pos[1]].date
                                                   /\ entries[pos[1]].date <= to}
      IN  \A c \in Currencies \ index.overflow : AmountOf(changes, c) = Total(inside, c)

\* A running balance shown to a reader is the exact sum of the rows up to it in
\* its currency unless that currency is flagged: a total that left the exact
\* range and came back is still flagged (hasRunningBalanceOverflow).
OverflowSurfaced ==
    \A path \in Paths, deep \in BOOLEAN :
    \A index \in {BuildRegisterIndex(entries, path, deep)} :
    \A rows \in {ReadRegisterSlice(entries, index, 0, 9)} :
          \A i \in DOMAIN rows :
            LET c == rows[i].posting.currency
                before == {index.rows[j] : j \in 1 .. i}
            IN  rows[i].runningBalance # Total(before, c) => c \in index.overflow

Everything == [dateFrom |-> 0, dateTo |-> 9, query |-> {}]

Texts == [e \in DOMAIN entries |-> entries[e].text]

\* The ways to read one register agree: slice by slice gives the rows of a whole
\* read, ends outside the register being clamped, and the scan under a filter that
\* lets every entry through gives the rows and running balances of the index.
ReadsAgree ==
    \A path \in Paths, deep \in BOOLEAN :
    \A index \in {BuildRegisterIndex(entries, path, deep)} :
    \A rows \in {ReadRegisterSlice(entries, index, 0, 9)}, start \in -1 .. 1, end \in {0, 1, 3, 7} :
      \A slice \in {ReadRegisterSlice(entries, index, start, end)} :
          /\ slice = [k \in 1 .. Cardinality({i \in DOMAIN rows : start < i /\ i <= end})
                        |-> rows[Max({0, start}) + k]]
          /\ start \in 0 .. 1 /\ end \in 0 .. 5 =>
               ScanFilteredSlice(entries, Texts, path, deep, Everything, start, end) = slice

\* What a register reads is exact or flagged, in whatever way it is read: its
\* balances and changes (BalancesExact), its running balances (OverflowSurfaced) and
\* its slices, filtered or not (ReadsAgree).
RegistersExact == BalancesExact /\ OverflowSurfaced /\ ReadsAgree

-----------------------------------------------------------------------------
(* The matching engine *)

\* Passes in order and lines in ascending id: a line is left to the sums only when
\* the pairs have used up the postings of its amount, and a suggested posting is
\* the nearest of those that neither an exact match nor an earlier line has taken,
\* the earlier date at a tie ("when two lines compete for one posting the earlier
\* statement line id wins").
PriorityKept ==
    \A match \in Range(found) :
      LET line == LineOf(problem, match)
          wanted == {p \in problem.postings : /\ Near(problem.options, p, line)
                                              /\ p.amount = line.amount}
          pairs(ids) == {m \in Range(found) : \/ m.kind = "exact"
                                              \/ m.kind = "suggested" /\ m.line \in ids}
      IN  /\ match.kind = "sum" => wanted \subseteq UsedBy(pairs(Ids))
          /\ match.kind = "suggested" =>
               \A p \in wanted \ UsedBy(pairs({id \in Ids : id < match.line})) :
                 LET chosen == match.postings[1]
                     closer == Distance(p, line.days) - Distance(chosen, line.days)
                 IN  closer > 0 \/ (closer = 0 /\ chosen.days <= p.days)

\* The order in which groups are preferred: their members by date distance, then
\* amount descending, then position; a group before its extensions.
Preferred(p, q, line) ==
    LET rank(r) == <<Distance(r, line.days), -r.amount, r.entry, r.index>>
    IN  \E k \in 1 .. 4 : /\ rank(p)[k] < rank(q)[k]
                          /\ \A i \in 1 .. k - 1 : rank(p)[i] = rank(q)[i]

RanksBefore(a, b, line) ==
    LET ranked(group) == SetToSortSeq(group, LAMBDA p, q : Preferred(p, q, line))
        s == ranked(a)
        t == ranked(b)
    IN  \E k \in 0 .. Min({Len(s), Len(t)}) :
          /\ \A i \in 1 .. k : s[i] = t[i]
          /\ \/ k = Len(s)
             \/ k < Min({Len(s), Len(t)}) /\ Preferred(s[k + 1], t[k + 1], line)

\* Among all groups that were left to a line and cover it, the one matched ranks
\* first ("the first combination found under that ordering wins"): the suggestion
\* does not hang on how the search is pruned.
FirstGroupWins ==
    \A match \in {m \in Range(found) : m.kind = "sum"} :
      LET line == LineOf(problem, match)
          earlier == {m \in Range(found) : m.kind # "sum" \/ m.line < match.line}
      IN  \A group \in Covering(problem.options, line, problem.postings \ UsedBy(earlier)) :
            RanksBefore(Range(match.postings), group, line)

\* The matches are right and none is missed (MatchesSound, NothingMissed).
MatchesComplete ==
    /\ MatchesSound(problem, problem.options, found)
    /\ NothingMissed(problem, problem.options, found)

\* Of the right matches the preferred ones are proposed (PriorityKept,
\* FirstGroupWins).
MatchesPreferred == PriorityKept /\ FirstGroupWins
=============================================================================
