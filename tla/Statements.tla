------------------------------ MODULE Statements ------------------------------
(***************************************************************************)
(* The statement derivations of packages/ledger-core/src - taxonomy.ts,    *)
(* trialBalance.ts, incomeStatement.ts, balanceSheet.ts, assertions.ts,    *)
(* openingBalance.ts - as operators over a list of entries, and the tables *)
(* packages/statements draws of them.                                      *)
(*                                                                         *)
(* An entry is one of RegisterIndex with a flag and a set of tags; an      *)
(* account path that is not canonical is the empty sequence.  A statement  *)
(* is a function from currency to section and its lines are a function     *)
(* from account to line: the order lines are printed in is left out, the   *)
(* order they are added up in is not.                                      *)
(***************************************************************************)
EXTENDS RegisterIndex, Functions

CONSTANT Absent     \* null, undefined

\* F of a, which is evaluated once.
With(a, F(_)) == CHOOSE y \in {F(x) : x \in {a}} : TRUE

(* Taxonomy: a root convention and overrides inherited by descendants *)

\* The value the nearest of a path and its ancestors gives to a field.
Inherited(taxonomy, path, field) ==
    LET holders == {n \in 1 .. Len(path) :
                      /\ SubSeq(path, 1, n) \in DOMAIN taxonomy.overrides
                      /\ field \in DOMAIN taxonomy.overrides[SubSeq(path, 1, n)]}
    IN IF holders = {} THEN Absent
       ELSE taxonomy.overrides[SubSeq(path, 1, Max(holders))][field]

GetNormalBalanceForType(type) == IF type \in {"asset", "expense"} THEN "debit" ELSE "credit"

GetStatementRoleForType(type) ==
    IF type \in {"income", "expense"} THEN "income-statement" ELSE "balance-sheet"

Opposite(normal) == IF normal = "debit" THEN "credit" ELSE "debit"

\* Absent is "unclassified: flag it".
Classify(taxonomy, path) ==
    LET own == Inherited(taxonomy, path, "type")
        type == IF taxonomy = Absent \/ path = <<>> THEN Absent
                ELSE IF own # Absent THEN own
                ELSE IF path[1] \in DOMAIN taxonomy.roots THEN taxonomy.roots[path[1]]
                ELSE Absent
        contra == Inherited(taxonomy, path, "contra") \notin {Absent, FALSE}
        normal == GetNormalBalanceForType(type)
    IN IF type = Absent THEN Absent
       ELSE [type |-> type, contra |-> contra,
             normalBalance |-> IF contra THEN Opposite(normal) ELSE normal,
             statement |-> GetStatementRoleForType(type)]

TypeOf(taxonomy, path) ==
    LET classification == Classify(taxonomy, path)
    IN IF classification = Absent THEN Absent ELSE classification.type

-----------------------------------------------------------------------------
(* One pass over the entries *)

MatchesEntryFilter(entry, filter) ==
    /\ filter.dateFrom # Absent => filter.dateFrom <= entry.date
    /\ filter.dateTo # Absent => entry.date <= filter.dateTo
    /\ filter.flag # Absent => entry.flag = filter.flag
    /\ filter.tag # Absent => filter.tag \in entry.tags
    /\ filter.query \subseteq entry.text

\* The safe postings of the entries that are not void, each with the columns its
\* entry counts in; an entry that counts in none is passed over.
Counted(entries, columns) ==
    FlattenSeq([e \in DOMAIN entries |->
        IF entries[e].flag = "void" \/ columns[e] = {} THEN <<>>
        ELSE LET safe == SelectSeq(entries[e].postings, LAMBDA p : IsSafeInteger(p.amount))
             IN [i \in DOMAIN safe |-> safe[i] @@ [columns |-> columns[e]]]])

\* What a column of an account comes to, and whether a sum on the way left the
\* safe range.
Partial(amounts) ==
    LET run[i \in 0 .. Len(amounts)] ==
            IF i = 0 THEN 0 ELSE Float(run[i - 1] + amounts[i])
    IN run

RunsFlaggedAtEnd(amounts) ==      \* only what it comes to is looked at
    With(Partial(amounts), LAMBDA run :
         [total |-> run[Len(amounts)], overflowed |-> ~IsSafeInteger(run[Len(amounts)])])

Runs(amounts) ==
    With(Partial(amounts), LAMBDA run :
         [total |-> run[Len(amounts)],
          overflowed |-> \E i \in 1 .. Len(amounts) : ~IsSafeInteger(run[i])])

AmountsOf(postings) == [i \in DOMAIN postings |-> postings[i].amount]

Accumulator(postings, account, width) ==
    With([k \in 1 .. width |->
            Runs(AmountsOf(SelectSeq(postings,
                     LAMBDA p : p.account = account /\ k \in p.columns)))],
         LAMBDA runs : [totals |-> [k \in 1 .. width |-> runs[k].total],
                        overflowed |-> \E k \in 1 .. width : runs[k].overflowed])

\* Accounts in the order they first occur.
FirstSeen(postings) ==
    FoldLeft(LAMBDA seen, p : IF Contains(seen, p.account) THEN seen
                              ELSE Append(seen, p.account), <<>>, postings)

\* Per currency: the accounts in order, and the accumulator of each.
InOneCurrency(postings, width) ==
    [order |-> FirstSeen(postings),
     of |-> [a \in {postings[i].account : i \in DOMAIN postings} |->
               Accumulator(postings, a, width)]]

Accumulated(entries, columns, width) ==
    With(Counted(entries, columns), LAMBDA counted :
         [c \in {counted[i].currency : i \in DOMAIN counted} |->
            With(SelectSeq(counted, LAMBDA p : p.currency = c),
                 LAMBDA postings : InOneCurrency(postings, width))])

\* Amounts added up in order, as doubles.
Sum(order, amount(_)) == FoldLeft(LAMBDA sum, a : Float(sum + amount(a)), 0, order)

Active(totals) == \E k \in DOMAIN totals : totals[k] # 0

NegateAll(amounts) == [k \in DOMAIN amounts |-> -amounts[k]]

AnyUnsafe(totals) == \E k \in DOMAIN totals : ~IsSafeInteger(totals[k])

-----------------------------------------------------------------------------
(* Trial balance: column 1 is everything, column 2 the adjustments *)

TrialColumns(entries, options) ==
    [e \in DOMAIN entries |->
       IF options.asOf # Absent /\ entries[e].date > options.asOf THEN {}
       ELSE {1} \cup {2 : adjusting \in {f \in {options.adjustments} :
                            f # Absent /\ MatchesEntryFilter(entries[e], f)}}]

Abnormal(classification, balance) ==
    /\ classification # Absent
    /\ balance # 0
    /\ (IF balance > 0 THEN "debit" ELSE "credit") # classification.normalBalance

TrialRow(options, account, totals) ==
    LET classification == Classify(options.taxonomy, account)
    IN [balance |-> totals[1], classification |-> classification,
        unadjusted |-> IF options.adjustments = Absent THEN Absent
                       ELSE Float(totals[1] - totals[2]),
        adjustment |-> IF options.adjustments = Absent THEN Absent ELSE totals[2],
        abnormal |-> Abnormal(classification, totals[1])]

\* Rows that come to nothing are left out unless the chart names them.
TrialTotals(options, found, rows) ==
    With(<<Sum(rows, LAMBDA a : Max({found[a].totals[1], 0})),
           Sum(rows, LAMBDA a : Max({-found[a].totals[1], 0}))>>, LAMBDA totals :
         [rows |-> [a \in Range(rows) |-> TrialRow(options, a, found[a].totals)],
          totalDebit |-> totals[1], totalCredit |-> totals[2],
          balanced |-> totals[1] = totals[2],
          hasOverflow |-> AnyUnsafe(totals) \/ \E a \in Range(rows) : found[a].overflowed])

\* Accounts of the chart that saw nothing come last, at zero.
TrialSection(options, found) ==
    With(SelectSeq(options.accountPaths, LAMBDA a : a \notin DOMAIN found.of), LAMBDA chart :
    With(found.of @@ [a \in Range(chart) |-> [totals |-> <<0, 0>>, overflowed |-> FALSE]],
         LAMBDA all :
    With(SelectSeq(found.order \o chart,
                   LAMBDA a : Active(all[a].totals) \/ Contains(options.accountPaths, a)),
         LAMBDA rows : TrialTotals(options, all, rows))))

DeriveTrialBalance(entries, options) ==
    With(Accumulated(entries, TrialColumns(entries, options), 2), LAMBDA accumulated :
         [c \in DOMAIN accumulated |-> TrialSection(options, accumulated[c])])

-----------------------------------------------------------------------------
(* Income statement: a column per period *)

PeriodColumns(entries, periods) ==
    [e \in DOMAIN entries |->
       {k \in DOMAIN periods : /\ periods[k].dateFrom <= entries[e].date
                               /\ entries[e].date <= periods[k].dateTo}]

IncomeTotals(found, active, income, expenses, width) ==
    With([k \in 1 .. width |-> <<Sum(income, LAMBDA a : -found[a].totals[k]),
                                 Sum(expenses, LAMBDA a : found[a].totals[k])>>], LAMBDA sums :
    With([k \in 1 .. width |-> Float(sums[k][1] - sums[k][2])], LAMBDA net :
         [totalIncome |-> [k \in 1 .. width |-> sums[k][1]],
          totalExpenses |-> [k \in 1 .. width |-> sums[k][2]],
          netIncome |-> net,
          hasOverflow |-> \/ \E a \in Range(active) : found[a].overflowed
                          \/ AnyUnsafe(net) \/ \E k \in 1 .. width : AnyUnsafe(sums[k])]))

IncomeSection(taxonomy, width, found) ==
    With(SelectSeq(found.order, LAMBDA a : Active(found.of[a].totals)), LAMBDA active :
    With([type \in {"income", "expense", Absent} |->
            SelectSeq(active, LAMBDA a : TypeOf(taxonomy, a) = type)], LAMBDA typed :
         [income |-> [a \in Range(typed["income"]) |-> NegateAll(found.of[a].totals)],
          expenses |-> [a \in Range(typed["expense"]) |-> found.of[a].totals],
          unclassified |-> [a \in Range(typed[Absent]) |-> found.of[a].totals]]
           @@ IncomeTotals(found.of, active, typed["income"], typed["expense"], width)))

DeriveIncomeStatement(entries, taxonomy, periods) ==
    With(Accumulated(entries, PeriodColumns(entries, periods), Len(periods)),
         LAMBDA accumulated :
         [c \in DOMAIN accumulated |-> IncomeSection(taxonomy, Len(periods), accumulated[c])])

-----------------------------------------------------------------------------
(* Balance sheet: for each date a column through it, then a column for each of *)
(* what lies before the fiscal year of the date                                *)

LateFiscalYear(entries, dates) ==     \* the first day of the year is before it
    [e \in DOMAIN entries |->
       LET through == {k \in DOMAIN dates : entries[e].date <= dates[k].asOf}
       IN through \cup {Len(dates) + k : k \in
              {j \in through : /\ dates[j].fiscalYearStart # Absent
                               /\ entries[e].date <= dates[j].fiscalYearStart}}]

DateColumns(entries, dates) ==
    [e \in DOMAIN entries |->
       LET through == {k \in DOMAIN dates : entries[e].date <= dates[k].asOf}
       IN through \cup {Len(dates) + k : k \in
              {j \in through : /\ dates[j].fiscalYearStart # Absent
                               /\ entries[e].date < dates[j].fiscalYearStart}}]

\* The result of all time and of what is before the fiscal year of the column,
\* profit negative, closed into equity: retained, and earned in the year.
Earnings(dates, found, closed, width) ==
    With([k \in 1 .. width |->
            <<Sum(closed, LAMBDA a : found[a].totals[k]),
              Sum(closed, LAMBDA a : found[a].totals[width + k])>>], LAMBDA sums :
         [k \in 1 .. width |->
            IF dates[k].fiscalYearStart = Absent
            THEN [retained |-> -sums[k][1], current |-> 0]
            ELSE [retained |-> -sums[k][2], current |-> -Float(sums[k][1] - sums[k][2])]])

PositionTotals(found, typed, earnings, width) ==
    With([k \in 1 .. width |->
            [assets |-> Sum(typed["asset"], LAMBDA a : found[a].totals[k]),
             liabilities |-> Sum(typed["liability"], LAMBDA a : -found[a].totals[k]),
             booked |-> Sum(typed["equity"], LAMBDA a : -found[a].totals[k])]], LAMBDA sums :
    With([k \in 1 .. width |-> Float(sums[k].booked + earnings[k].retained)], LAMBDA kept :
    With([k \in 1 .. width |-> Float(kept[k] + earnings[k].current)], LAMBDA equity :
         [retainedEarnings |-> [k \in 1 .. width |-> earnings[k].retained],
          currentEarnings |-> [k \in 1 .. width |-> earnings[k].current],
          totalAssets |-> [k \in 1 .. width |-> sums[k].assets],
          totalLiabilities |-> [k \in 1 .. width |-> sums[k].liabilities],
          totalEquity |-> equity,
          balancedByDate |->
              [k \in 1 .. width |-> sums[k].assets = Float(sums[k].liabilities + equity[k])],
          hasOverflow |-> \E k \in 1 .. width :
                            AnyUnsafe(<<sums[k].assets, sums[k].liabilities, equity[k]>>)])))

\* An account of income or expenses counts even when it comes to nothing by now.
BalanceSection(taxonomy, dates, found, width) ==
    With([a \in DOMAIN found.of |-> SubSeq(found.of[a].totals, 1, width)], LAMBDA balances :
    With(SelectSeq(found.order, LAMBDA a : Active(balances[a])), LAMBDA active :
    With(SelectSeq(found.order, LAMBDA a : TypeOf(taxonomy, a) \in {"income", "expense"}),
         LAMBDA closed :
    With([type \in {"asset", "liability", "equity", Absent} |->
            SelectSeq(active, LAMBDA a : TypeOf(taxonomy, a) = type)], LAMBDA typed :
    With(PositionTotals(found.of, typed, Earnings(dates, found.of, closed, width), width),
         LAMBDA totals :
         [totals EXCEPT !.hasOverflow =
            @ \/ \E a \in Range(active) \cup Range(closed) : found.of[a].overflowed]
           @@ [assets |-> [a \in Range(typed["asset"]) |-> balances[a]],
               liabilities |-> [a \in Range(typed["liability"]) |-> NegateAll(balances[a])],
               equity |-> [a \in Range(typed["equity"]) |-> NegateAll(balances[a])],
               unclassified |-> [a \in Range(typed[Absent]) |-> balances[a]]])))))

DeriveBalanceSheet(entries, taxonomy, dates) ==
    With(Accumulated(entries, DateColumns(entries, dates), 2 * Len(dates)),
         LAMBDA accumulated :
         [c \in DOMAIN accumulated |->
            BalanceSection(taxonomy, dates, accumulated[c], Len(dates))])

-----------------------------------------------------------------------------
(* Assertions and opening balances *)

CheckBalanceAssertion(entries, assertion) ==
    LET index == BuildRegisterIndex(entries, assertion.account, assertion.deep)
        balances == GetBalancesAsOf(entries, index, assertion.date)
        actual == IF assertion.currency \in DOMAIN balances
                  THEN balances[assertion.currency] ELSE 0
    IN [actual |-> actual, difference |-> Float(actual - assertion.amount),
        ok |-> Float(actual - assertion.amount) = 0]

\* isEntryBalanced, over the running sums of sumPostingsByCurrencyChecked.
IsEntryBalanced(entry) ==
    /\ \A i \in DOMAIN entry.postings : IsSafeInteger(entry.postings[i].amount)
    /\ \A c \in {p.currency : p \in Range(entry.postings)} :
         Runs(AmountsOf(SelectSeq(entry.postings, LAMBDA p : p.currency = c))).total = 0

TotalOf(lines, c) == Runs(AmountsOf(SelectSeq(lines, LAMBDA l : l.currency = c)))

OffsetOnce(lines, equityAccount) ==   \* one offset for everything
    LET totals == {c \in {l.currency : l \in Range(lines)} : TotalOf(lines, c).total # 0}
    IN IF totals = {} THEN <<>>
       ELSE LET c == CHOOSE c \in totals : TRUE
            IN <<[account |-> equityAccount, amount |-> -TotalOf(lines, c).total, currency |-> c]>>

\* One posting per currency whose lines do not come to nothing.
Offsets(lines, equityAccount) ==
    With(SetToSeq({c \in {l.currency : l \in Range(lines)} : TotalOf(lines, c).total # 0}),
         LAMBDA plugs :
         [i \in DOMAIN plugs |->
          [account |-> equityAccount, amount |-> -TotalOf(lines, plugs[i]).total,
           currency |-> plugs[i]]])

\* Absent, thrown, for a path that is not canonical and for a sum that is unsafe.
CreateOpeningBalanceEntry(lines, equityAccount) ==
    IF \/ equityAccount = <<>>
       \/ \E l \in Range(lines) : l.account = <<>> \/ ~IsSafeInteger(l.amount)
       \/ \E l \in Range(lines) : TotalOf(lines, l.currency).overflowed
    THEN Absent ELSE lines \o Offsets(lines, equityAccount)

-----------------------------------------------------------------------------
(* The tables *)

\* The debit and the credit cell of an amount; an empty cell is Absent.
RenderAmountPair(amount) ==
    <<IF amount > 0 THEN amount ELSE Absent, IF amount < 0 THEN -amount ELSE Absent>>

\* A line's cells; zeros are left empty unless the row is a total.
RenderAmountCells(amounts, alwaysShow) ==
    [k \in DOMAIN amounts |-> IF amounts[k] = 0 /\ ~alwaysShow THEN Absent ELSE amounts[k]]

\* Adjustments split a row in three pairs of columns.
RenderRow(row, working) ==
    IF working
    THEN RenderAmountPair(row.unadjusted) \o RenderAmountPair(row.adjustment)
           \o RenderAmountPair(row.balance)
    ELSE RenderAmountPair(row.balance)

\* The totals under the last pair, and the difference when they are not equal.
RenderFoot(section, working) ==
    [totals |-> (IF working THEN <<Absent, Absent, Absent, Absent>> ELSE <<>>)
                  \o <<section.totalDebit, section.totalCredit>>,
     imbalance |-> IF section.balanced THEN Absent
                   ELSE Float(section.totalDebit - section.totalCredit)]

\* All rows are split, or none is.
RenderTrialBalance(section) ==
    With(\E a \in DOMAIN section.rows : section.rows[a].unadjusted # Absent, LAMBDA working :
         [rows |-> [a \in DOMAIN section.rows |-> RenderRow(section.rows[a], working)]]
           @@ RenderFoot(section, working))

RenderGroup(lines) == [a \in DOMAIN lines |-> RenderAmountCells(lines[a], FALSE)]

RenderIncomeStatement(section) ==
    [rows |-> <<RenderGroup(section.income), RenderGroup(section.expenses),
                RenderGroup(section.unclassified)>>,
     totals |-> <<section.totalIncome, section.totalExpenses>>,
     net |-> RenderAmountCells(section.netIncome, TRUE)]

\* The line of current earnings says something when some date splits its year.
ShouldRenderCurrentEarnings(section, dates) ==
    \/ \E k \in DOMAIN dates : dates[k].fiscalYearStart # Absent
    \/ \E k \in DOMAIN dates : section.currentEarnings[k] # 0

RenderComputedRow(amounts) == RenderAmountCells(amounts, TRUE)

\* The differences, on the dates that do not balance.
RenderImbalanceRow(section, both) ==
    IF \A k \in DOMAIN both : section.balancedByDate[k] THEN Absent
    ELSE [k \in DOMAIN both |-> IF section.balancedByDate[k] THEN Absent
                               ELSE Float(section.totalAssets[k] - both[k])]

RenderBalanceSheet(section, dates) ==
    With([k \in DOMAIN dates |-> Float(section.totalLiabilities[k] + section.totalEquity[k])],
         LAMBDA both :
         [rows |-> <<RenderGroup(section.assets), RenderGroup(section.liabilities),
                     RenderGroup(section.equity), RenderGroup(section.unclassified)>>,
          computed |-> <<RenderComputedRow(section.retainedEarnings)>>
                         \o (IF ShouldRenderCurrentEarnings(section, dates)
                             THEN <<RenderComputedRow(section.currentEarnings)>> ELSE <<>>),
          totals |-> <<section.totalAssets, section.totalLiabilities, section.totalEquity, both>>,
          imbalance |-> RenderImbalanceRow(section, both)])
=============================================================================
