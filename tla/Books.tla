-------------------------------- MODULE Books ---------------------------------
(***************************************************************************)
(* Small ledgers, built an entry at a time from a catalogue, and what the  *)
(* statements derived of them promise.                                     *)
(***************************************************************************)
EXTENDS Statements

VARIABLE books

\* Bounds.
BookDates == 1 .. 3
MaxBooks == 3

Cash == <<"A">>
Taxonomy ==
    [roots |-> [r \in {"A", "L", "E", "I", "X"} |->
                  CASE r = "A" -> "asset" [] r = "L" -> "liability" [] r = "E" -> "equity"
                    [] r = "I" -> "income" [] r = "X" -> "expense"],
     overrides |-> (<<"I", "returns">> :> [contra |-> TRUE])
                     @@ (<<"A", "owner">> :> [type |-> "equity"])]

Post(account, amount, currency) ==
    [account |-> account, amount |-> amount, currency |-> currency]

\* Limit + 1 is unsafe, and Limit - 1 + 2 rounds to Limit.
Catalogue == <<
    [flag |-> "cleared", tags |-> {}, postings |-> <<Post(Cash, 2, "X"), Post(<<"I">>, -2, "X")>>],
    [flag |-> "cleared", tags |-> {}, postings |-> <<Post(<<"X", "rent">>, 1, "X"), Post(Cash, -1, "X")>>],
    [flag |-> "pending", tags |-> {"adjustment"},
     postings |-> <<Post(<<"L">>, -1, "X"), Post(<<"X", "rent">>, 1, "X")>>],
    [flag |-> "cleared", tags |-> {}, postings |-> <<Post(Cash, -2, "X"), Post(<<"A", "owner", "me">>, 2, "X")>>],
    [flag |-> "cleared", tags |-> {}, postings |-> <<Post(<<"I", "returns">>, 1, "Y"), Post(<<"U">>, -1, "Y")>>],
    [flag |-> "flagged", tags |-> {}, postings |-> <<Post(Cash, 3, "Y"), Post(<<"I">>, -Limit - 1, "Y"), Post(<<"U">>, 1, "X")>>],
    [flag |-> "void", tags |-> {}, postings |-> <<Post(Cash, 2, "X"), Post(<<"I">>, -2, "X")>>],
    [flag |-> "cleared", tags |-> {},
     postings |-> <<Post(Cash, Limit - 1, "X"), Post(Cash, 2, "X"), Post(Cash, 1 - Limit, "X"), Post(<<"I">>, -2, "X")>>]>>

\* Entries are added in the order of the catalogue, on any dates.
BooksInit == books = <<>>

BooksNext ==
    /\ Len(books) < MaxBooks
    /\ \E kind \in DOMAIN Catalogue, date \in BookDates :
         /\ \A i \in DOMAIN books : books[i].kind <= kind
         /\ books' = Append(books, Catalogue[kind] @@
                       [id |-> Len(books) + 1, date |-> date, kind |-> kind, text |-> {}])

-----------------------------------------------------------------------------
(* The definitions the statements are compared with *)

\* What an account's safe postings from one date to another add up to, exactly.
ExactSum(account, c, from, to) ==
    MapThenSumSet(LAMBDA pos : books[pos[1]].postings[pos[2]].amount,
        {pos \in (1 .. Len(books)) \X (1 .. 4) :
           /\ books[pos[1]].flag # "void"
           /\ from <= books[pos[1]].date /\ books[pos[1]].date <= to
           /\ pos[2] \in DOMAIN books[pos[1]].postings
           /\ LET p == books[pos[1]].postings[pos[2]]
              IN p.account = account /\ p.currency = c /\ IsSafeInteger(p.amount)})

BookAccounts == {p.account : p \in UNION {Range(books[i].postings) : i \in DOMAIN books}}

OfTypes(types) == {a \in BookAccounts : TypeOf(Taxonomy, a) \in types}

ExactOver(accounts, c, from, to) ==
    MapThenSumSet(LAMBDA a : ExactSum(a, c, from, to), accounts)

\* No sum of these books comes near the end of the safe range.
Small == \A i \in DOMAIN books : books[i].kind # Len(Catalogue)

TrialAsOf(date) ==
    DeriveTrialBalance(books, [asOf |-> date, taxonomy |-> Taxonomy,
        adjustments |-> [dateFrom |-> Absent, dateTo |-> Absent, flag |-> Absent,
                         tag |-> "adjustment", query |-> {}],
        accountPaths |-> << <<"L">>, <<"E">> >>])

ReportDates == <<[asOf |-> 2, fiscalYearStart |-> Absent], [asOf |-> 3, fiscalYearStart |-> 2]>>

Periods == <<[dateFrom |-> 2, dateTo |-> 3], [dateFrom |-> 1, dateTo |-> 1]>>

\* The statements agree with each other.  What a balance sheet lacks to balance is
\* what the trial balance of its date is out by, and what could not be classified;
\* the earnings of the fiscal year are the net income of its period and those
\* before it what is retained; a line of one statement is the row of the other;
\* and an assertion of a row's balance holds of the store, void entries apart,
\* which are in its registers.
DerivedAgree ==
    Small =>
      \A sheet \in {DeriveBalanceSheet(books, Taxonomy, ReportDates)},
         income \in {DeriveIncomeStatement(books, Taxonomy, Periods)},
         sorted \in {SortEntries(SelectSeq(books, LAMBDA e : e.flag # "void"))} :
        LET net(c, k) == IF c \in DOMAIN income THEN income[c].netIncome[k] ELSE 0
        IN \A k \in DOMAIN ReportDates :
           \A trial \in {TrialAsOf(ReportDates[k].asOf)}, c \in DOMAIN sheet :
             LET placed == sheet[c]
                 residue == MapThenSumSet(LAMBDA a : placed.unclassified[a][k],
                                          DOMAIN placed.unclassified)
                 at(a) == IF a \in DOMAIN trial[c].rows THEN trial[c].rows[a].balance ELSE 0
             IN c \in DOMAIN trial =>
                /\ placed.totalAssets[k] - placed.totalLiabilities[k] - placed.totalEquity[k]
                     = trial[c].totalDebit - trial[c].totalCredit - residue
                /\ \A a \in DOMAIN placed.assets : placed.assets[a][k] = at(a)
                /\ \A a \in DOMAIN placed.liabilities : placed.liabilities[a][k] = -at(a)
                /\ \A a \in DOMAIN placed.equity : placed.equity[a][k] = -at(a)
                /\ k = 2 => /\ placed.currentEarnings[2] = net(c, 1)
                            /\ placed.retainedEarnings[2] = net(c, 2)
                /\ \A a \in DOMAIN trial[c].rows :
                     CheckBalanceAssertion(sorted,
                         [account |-> a, deep |-> FALSE, date |-> ReportDates[k].asOf, currency |-> c,
                          amount |-> trial[c].rows[a].balance]).ok

\* The cells of a column that are not empty, added up.
Column(table, k) ==
    MapThenSumSet(LAMBDA a : table[a][k], {a \in DOMAIN table : table[a][k] # Absent})

\* In a section that is not flagged every figure is exact: a balance is the sum of
\* its account's postings through the date, whatever the sums did on the way, and
\* adjusted is unadjusted and adjustment together; and what is drawn adds up, each
\* column to the total under it, the lines that are computed and those that are left
\* out included, and a line says by how much when the totals differ.
TrialExact(trial, date) ==
    \A c \in {c \in DOMAIN trial : ~trial[c].hasOverflow} :
      \A section \in {trial[c]}, table \in {RenderTrialBalance(trial[c])} :
        LET last == Len(table.totals)
        IN /\ \A a \in DOMAIN section.rows :
                /\ section.rows[a].balance = ExactSum(a, c, 1, date)
                /\ section.rows[a].unadjusted + section.rows[a].adjustment
                     = section.rows[a].balance
           /\ Column(table.rows, last - 1) = table.totals[last - 1]
           /\ Column(table.rows, last) = table.totals[last]
           /\ table.imbalance = Absent <=> section.balanced

IncomeExact(income, date) ==
    \A c \in {c \in DOMAIN income : ~income[c].hasOverflow} :
      \A table \in {RenderIncomeStatement(income[c])} :
        /\ \A a \in DOMAIN income[c].income : income[c].income[a][1] = -ExactSum(a, c, 2, date)
        /\ Column(table.rows[1], 1) = table.totals[1][1]
        /\ Column(table.rows[2], 1) = table.totals[2][1]
        /\ table.net[1] = -ExactOver(OfTypes({"income", "expense"}), c, 2, date)

SheetExact(sheet) ==
    \A c \in {c \in DOMAIN sheet : ~sheet[c].hasOverflow}, k \in DOMAIN ReportDates :
      \A table \in {RenderBalanceSheet(sheet[c], ReportDates)} :
        /\ \A group \in 1 .. 2 : Column(table.rows[group], k) = table.totals[group][k]
        /\ Column(table.rows[3], k)
             + MapThenSumSet(LAMBDA i : table.computed[i][k], DOMAIN table.computed)
             = table.totals[3][k]
        /\ (IF table.imbalance = Absent \/ table.imbalance[k] = Absent THEN 0
            ELSE table.imbalance[k]) = table.totals[1][k] - table.totals[4][k]

\* Every line, total and column of the three statements, as drawn, is the sum over
\* the ledger that it stands for, unless its currency is flagged.
LinesExact ==
    /\ \A date \in BookDates :
         /\ \A trial \in {TrialAsOf(date)} : TrialExact(trial, date)
         /\ \A income \in {DeriveIncomeStatement(books, Taxonomy,
                             <<[dateFrom |-> 2, dateTo |-> date]>>)} : IncomeExact(income, date)
    /\ \A sheet \in {DeriveBalanceSheet(books, Taxonomy, ReportDates)} : SheetExact(sheet)

\* The lines of an opening entry for what the accounts closed with.
Closing(rows, c) ==
    LET open == SetToSeq({a \in DOMAIN rows : rows[a].balance # 0})
    IN [i \in DOMAIN open |-> Post(open[i], rows[open[i]].balance, c)]

\* The balances a ledger closes with, carried into an opening entry, are the
\* balances the next one starts with: the entry is balanced, every account is where
\* it was, and what the old ledger was out by stands in the equity account.
OpeningCarries ==
    \A trial \in {TrialAsOf(3)} :
    \A carried \in {FlattenSeq(SetToSeq({Closing(trial[c].rows, c) :
                       c \in {c \in DOMAIN trial : ~trial[c].hasOverflow}}))} :
    \A opening \in {CreateOpeningBalanceEntry(carried, <<"E", "opening">>)} \ {Absent} :
    \A entry \in {[id |-> 1, date |-> 1, flag |-> "cleared", tags |-> {}, text |-> {},
                   postings |-> opening]} :
    \A again \in {DeriveTrialBalance(<<entry>>, [asOf |-> Absent, taxonomy |-> Taxonomy,
                    adjustments |-> Absent, accountPaths |-> <<>>])} :
      /\ IsEntryBalanced(entry)
      /\ \A p \in Range(carried) : again[p.currency].rows[p.account].balance = p.amount
      /\ \A c \in DOMAIN again :
           /\ again[c].balanced
           /\ LET plug == IF <<"E", "opening">> \in DOMAIN again[c].rows
                          THEN again[c].rows[<<"E", "opening">>].balance ELSE 0
              IN plug = trial[c].totalCredit - trial[c].totalDebit

\* One ledger, one set of figures: the statements agree (DerivedAgree), and the next
\* ledger starts from them (OpeningCarries).
StatementsAgree == DerivedAgree /\ OpeningCarries

\* The figures of the statements are those of the ledger, and of each other.
StatementsSound == StatementsAgree /\ LinesExact
=============================================================================
