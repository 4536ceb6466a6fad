--------------------------- MODULE RegisterIndex ---------------------------
(***************************************************************************)
(* The register engine of EntryStore (packages/ledger-core/src/            *)
(* EntryStore.ts) as pure operators over a list of entries: its order, the *)
(* index of the postings of one account with their prefix sums, and the    *)
(* queries answered from that index.                                       *)
(*                                                                         *)
(* An entry is a record [id, date, text, postings]; ids and dates are      *)
(* naturals, since the code only compares them; text is the set of words   *)
(* its payee and narration contain.  A posting is a record                 *)
(* [account, amount, currency]; an account path is a non-empty sequence of *)
(* segments.  Amounts are the doubles of SafeInteger.                      *)
(***************************************************************************)
EXTENDS SafeInteger, Sequences, SequencesExt, FiniteSets, FiniteSetsExt, Functions, TLC

(* Order *)

\* compareEntries: by date, then by id.
Before(a, b) == a.date < b.date \/ (a.date = b.date /\ a.id < b.id)

\* Array.sort: the positions in an order in which none comes before the last.
SortEntries(entries) ==
    LET order == CHOOSE p \in Bijection(DOMAIN entries, DOMAIN entries) :
                   \A i, j \in DOMAIN entries :
                     i < j => ~Before(entries[p[j]], entries[p[i]])
    IN  [i \in DOMAIN entries |-> entries[order[i]]]

\* The n-th turn of the merge, `kept` of the sorted list being in already: the
\* head of the list comes first at a tie.
MergeOne(so, sorted, added, n) ==
    LET i == so.kept + 1
        j == n - so.kept
    IN  IF j > Len(added) \/ (i <= Len(sorted) /\ ~Before(added[j], sorted[i]))
        THEN [kept |-> i, list |-> Append(so.list, sorted[i])]
        ELSE [kept |-> so.kept, list |-> Append(so.list, added[j])]

\* mergeSortedEntries: the batch, sorted, merged into the sorted list.
MergeSortedEntries(sorted, batch) ==
    LET added == SortEntries(batch)
    IN  FoldLeftDomain(LAMBDA so, n : MergeOne(so, sorted, added, n),
                       [kept |-> 0, list |-> <<>>], sorted \o added).list

-----------------------------------------------------------------------------
(* The index *)

\* accountMatchesRegister: the account itself, or one below it.
MatchesRegister(account, path, deep) ==
    account = path \/ (deep /\ IsStrictPrefix(path, account))

\* Postings with unsafe amounts are skipped.
Counts(posting, path, deep) ==
    IsSafeInteger(posting.amount) /\ MatchesRegister(posting.account, path, deep)

\* One turn of the inner loop, over the postings of the entry at e.
IndexPosting(rows, entries, e, p, path, deep) ==
    IF Counts(entries[e].postings[p], path, deep) THEN Append(rows, <<e, p>>) ELSE rows

IndexEntry(rows, entries, e, path, deep) ==
    FoldLeftDomain(LAMBDA found, p : IndexPosting(found, entries, e, p, path, deep),
                   rows, entries[e].postings)

\* The (entry, posting) positions of an account's register, in entry order.
RegisterPositions(entries, path, deep) ==
    FoldLeftDomain(LAMBDA rows, e : IndexEntry(rows, entries, e, path, deep),
                   <<>>, entries)

PostingAt(entries, pos) == entries[pos[1]].postings[pos[2]]

\* Running total of a currency after each row, carried forward over the rows
\* of other currencies; entry 0 is the total before the first row.
RunningTotals(entries, rows, currency) ==
    LET run[i \in 0 .. Len(rows)] ==
          IF i = 0 THEN 0
          ELSE LET posting == PostingAt(entries, rows[i])
               IN  IF posting.currency = currency
                   THEN Float(run[i - 1] + posting.amount)
                   ELSE run[i - 1]
    IN  run

\* Bug variant: only the closing total is tested for overflow.
BuildFlagsClosingOnly(entries, path, deep) ==
    LET rows == RegisterPositions(entries, path, deep)
        currencies == {PostingAt(entries, rows[i]).currency : i \in DOMAIN rows}
        sums == [c \in currencies |-> RunningTotals(entries, rows, c)]
    IN  [rows |-> rows,
         sums |-> sums,
         overflow |-> {c \in currencies : ~IsSafeInteger(sums[c][Len(rows)])}]

\* buildRegisterIndex.
BuildRegisterIndex(entries, path, deep) ==
    LET rows == RegisterPositions(entries, path, deep)
        currencies == {PostingAt(entries, rows[i]).currency : i \in DOMAIN rows}
        sums == [c \in currencies |-> RunningTotals(entries, rows, c)]
    IN  [rows |-> rows,
         sums |-> sums,
         overflow |-> {c \in currencies :
                         \E i \in DOMAIN rows :
                           /\ PostingAt(entries, rows[i]).currency = c
                           /\ ~IsSafeInteger(sums[c][i])}]

-----------------------------------------------------------------------------
(* Queries on an index *)

\* The binary search of findLastRowOnOrBefore and findLastRowBefore: the last
\* row whose date passes the test, 0 when none does.
LastRowWhere(entries, index, test(_)) ==
    LET n == Len(index.rows)
        search[at \in [low : 1 .. n + 1, high : 0 .. n, found : 0 .. n]] ==
          IF at.low > at.high THEN at.found
          ELSE LET mid == (at.low + at.high) \div 2
               IN  IF test(entries[index.rows[mid][1]].date)
                   THEN search[[low |-> mid + 1, high |-> at.high, found |-> mid]]
                   ELSE search[[low |-> at.low, high |-> mid - 1, found |-> at.found]]
    IN  search[[low |-> 1, high |-> n, found |-> 0]]

\* Bug variant: a date does not include itself.
FindLastRowStrict(entries, index, date) ==
    LastRowWhere(entries, index, LAMBDA d : d < date)

FindLastRowOnOrBefore(entries, index, date) ==
    LastRowWhere(entries, index, LAMBDA d : d <= date)

FindLastRowBefore(entries, index, date) ==
    LastRowWhere(entries, index, LAMBDA d : d < date)

\* A map from currency to amount without its zeros: absence means zero.
NonZero(f) == [c \in {k \in DOMAIN f : f[k] # 0} |-> f[c]]

GetBalancesAsOf(entries, index, date) ==
    LET row == FindLastRowOnOrBefore(entries, index, date)
    IN  NonZero([c \in DOMAIN index.sums |-> index.sums[c][row]])

GetBalanceChanges(entries, index, dateFrom, dateTo) ==
    LET endRow == FindLastRowOnOrBefore(entries, index, dateTo)
        beforeRow == FindLastRowBefore(entries, index, dateFrom)
    IN  IF dateTo < dateFrom \/ endRow = 0 THEN <<>>
        ELSE NonZero([c \in DOMAIN index.sums |->
                        Float(index.sums[c][endRow] - index.sums[c][beforeRow])])

\* The rows of [start, end), clamped to the register; rows are numbered from 1
\* here and from 0 in the code, so the slice is start + 1 .. end.
ClampedSlice(rows, start, end) ==
    SubSeq(rows, Max({0, start}) + 1, Min({Len(rows), end}))

RowWithBalance(entries, pos, balance) ==
    [entry |-> entries[pos[1]],
     posting |-> PostingAt(entries, pos),
     runningBalance |-> balance]

\* Bug variant: the prefix sums are read by position in the slice.
ReadSliceLocally(entries, index, start, end) ==
    LET slice == ClampedSlice(index.rows, start, end)
    IN  [i \in DOMAIN slice |->
           RowWithBalance(entries, slice[i],
             index.sums[PostingAt(entries, slice[i]).currency][i])]

\* readCachedRegisterSlice.
ReadRegisterSlice(entries, index, start, end) ==
    ClampedSlice(
      [i \in DOMAIN index.rows |->
         RowWithBalance(entries, index.rows[i],
           index.sums[PostingAt(entries, index.rows[i]).currency][i])],
      start, end)

-----------------------------------------------------------------------------
(* Filtered queries, which scan and never use the index *)

\* entryMatchesFilter, for a filter [dateFrom, dateTo, query]; the flag and tag
\* tests have the shape of the query's.  `texts` is the search corpus, read by
\* position.
EntryMatchesFilter(entries, texts, e, filter) ==
    /\ filter.dateFrom <= entries[e].date
    /\ entries[e].date <= filter.dateTo
    /\ filter.query \subseteq texts[e]

\* scanFilteredRegisterSlice: running balances over the filtered rows alone.
ScanFilteredSlice(entries, texts, path, deep, filter, start, end) ==
    LET passes(pos) == EntryMatchesFilter(entries, texts, pos[1], filter)
        rows == SelectSeq(RegisterPositions(entries, path, deep), passes)
    IN  ClampedSlice(
          [i \in DOMAIN rows |->
             RowWithBalance(entries, rows[i],
               RunningTotals(entries, rows,
                             PostingAt(entries, rows[i]).currency)[i])],
          start, end)

\* getRegisterRowCount with a filter: it counts the matching postings, the ones
\* with an unsafe amount included.
FilteredRowCount(entries, texts, path, deep, filter) ==
    MapThenSumSet(
      LAMBDA e : Cardinality(
        {p \in DOMAIN entries[e].postings :
           MatchesRegister(entries[e].postings[p].account, path, deep)}),
      {e \in DOMAIN entries : EntryMatchesFilter(entries, texts, e, filter)})
=============================================================================
