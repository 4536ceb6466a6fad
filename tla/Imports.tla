-------------------------------- MODULE Imports --------------------------------
(***************************************************************************)
(* Small statements of a bank, written as a bank writes them and read back *)
(* by the importers, and what reading promises.                            *)
(***************************************************************************)
EXTENDS Importers

VARIABLES
    figure,   \* a date and an amount, or Absent
    export,   \* the rows of a CSV export, each a sequence of fields
    file      \* the tags of an OFX file and the reader's state after them

\* Bounds.
MaxRows == 3
MaxBlocks == 4
Years == {1900, 2000, 2023, 2024}

importVars == <<figure, export, file>>

IdleImports == figure = Absent /\ export = Absent /\ file = Absent

-----------------------------------------------------------------------------
(* Figures: amounts and dates in every format *)

Formats == {[decimal |-> ".", group |-> Absent, groupSizes |-> <<3>>],
            [decimal |-> ",", group |-> ".", groupSizes |-> <<2, 1>>],
            [decimal |-> ".", group |-> ",", groupSizes |-> <<1>>],
            [decimal |-> ".", group |-> " ", groupSizes |-> <<1, 0>>]}

Exponents == 0 .. 3

FigureInit == figure = 0 /\ export = Absent /\ file = Absent

FigureNext ==
    /\ figure # Absent
    /\ \E step \in {1} \cup {32 : aligned \in {0} \cap {figure % 32}} : figure' = figure + step
    /\ figure' <= Limit
    /\ UNCHANGED <<export, file>>

WrittenDate(year, month, day, format) ==
    LET written == [year |-> DigitsOf(year, 4), month |-> DigitsOf(month, 2),
                    day |-> DigitsOf(day, 2)]
        f == DateFormats[format]
    IN written[f.order[1]] \o <<f.separator>> \o written[f.order[2]]
         \o <<f.separator>> \o written[f.order[3]]

\* Days since 0000-03-01, by the civil calendar.
DayNumber(year, month, day) ==
    LET y == IF month > 2 THEN year ELSE year - 1
        m == (month + 9) % 12
    IN 365 * y + (y \div 4) - (y \div 100) + (y \div 400) + ((153 * m + 2) \div 5) + day

\* A day of a month that is on the calendar: it comes before the next month.
OnCalendar(year, month, day) ==
    /\ month \in 1 .. 12
    /\ day >= 1
    /\ DayNumber(year, month, day)
         < DayNumber(IF month = 12 THEN year + 1 ELSE year, (month % 12) + 1, 1)

\* What one package shows another reads: an amount, formatted under any separators,
\* grouping and exponent, and parsed under the same is that amount (the true minus
\* sign of the display apart, which the parser refuses); and a date written in a
\* declared format is read as that date if and only if it is on the calendar.
FiguresReadBack ==
    figure # Absent =>
        /\ \A sign \in {-1, 1}, format \in Formats, decimals \in Exponents :
             \A shown \in {FormatMinorUnits(sign * figure, decimals, format)} :
             \A typed \in {[i \in DOMAIN shown |-> IF shown[i] = "minus" THEN "-" ELSE shown[i]]} :
                /\ ParseAmountToMinorUnits(typed, format, decimals) = ToSafeInteger(sign * figure)
                /\ "minus" \in Range(shown) =>
                     ParseAmountToMinorUnits(shown, format, decimals) = Absent
        /\ \A year \in Years, format \in DOMAIN DateFormats :
             LET month == figure % 14
                 day == (figure \div 14) % 33
                 read == ParseDateToIso(WrittenDate(year, month, day, format), format)
             IN read = IF OnCalendar(year, month, day) THEN <<year, month, day>> ELSE Absent

-----------------------------------------------------------------------------
(* CSV exports *)

Day1 == <<"0", "1", "/", "0", "2", "/", "2", "0", "2", "4">>
Day2 == <<"2", "9", "/", "0", "2", "/", "2", "0", "2", "4">>
NoDay == <<"3", "0", "/", "0", "2", "/", "2", "0", "2", "4">>
Plain == <<"t">>
Awkward == <<"t", "delimiter", "quote", "lf", "cr", "lf">>

\* Date, description, debit, credit and the claimed balance.
Row(date, text, debit, credit, balance) == <<date, text, debit, credit, balance>>
RowKinds == {
    Row(Day1, Plain, <<>>, <<"5">>, <<"5">>),
    Row(Day2, Awkward, <<"2">>, <<"0">>, <<"3">>),
    Row(Day2, <<>>, <<>>, <<"2">>, <<"1", ".", "5">>),
    Row(Day1, <<"quote">>, <<"-", "2">>, <<>>, <<"5">>),
    Row(NoDay, Awkward, <<>>, <<"5">>, <<"5">>),
    Row(Day1, Plain, <<"1">>, <<"1">>, <<"5">>),
    Row(Day1, Plain, <<>>, <<>>, <<"5">>),
    <<Day1, Plain>>,
    << <<>> >>}

Header == << <<"d", "a", "t", "e">>, <<"c">>, <<"c">>, <<"i", "n">>, <<"b">> >>

Mapping(headed) ==
    [delimiter |-> "delimiter", hasHeader |-> headed, dateFormat |-> "dayFirst",
     amountFormat |-> [decimal |-> ".", group |-> Absent], decimals |-> 1, currency |-> "X",
     columns |-> [date |-> IF headed THEN [name |-> Header[1]] ELSE [index |-> 1],
                  description |-> [index |-> 2], debit |-> [index |-> 3],
                  credit |-> IF headed THEN [name |-> Header[4]] ELSE [index |-> 4],
                  balance |-> IF headed THEN [name |-> Header[5]] ELSE [index |-> 5]]]

Terminators == {<<"lf">>, <<"cr", "lf">>, <<"cr">>}

ExportInit == figure = Absent /\ export = <<>> /\ file = Absent

ExportNext ==
    /\ export # Absent
    /\ Len(export) < MaxRows
    /\ \E row \in RowKinds : export' = Append(export, row)
    /\ UNCHANGED <<figure, file>>

\* A field as RFC 4180 has it.
Encoded(field) ==
    IF Range(field) \cap {"quote", "delimiter", "cr", "lf"} = {} THEN field
    ELSE <<"quote">> \o FlattenSeq([i \in DOMAIN field |->
             IF field[i] = "quote" THEN <<"quote", "quote">> ELSE <<field[i]>>]) \o <<"quote">>

EncodedRow(row) ==
    FlattenSeq([i \in DOMAIN row |-> (IF i = 1 THEN <<>> ELSE <<"delimiter">>) \o Encoded(row[i])])

Written(rows, terminator) ==
    FlattenSeq([i \in DOMAIN rows |-> EncodedRow(rows[i]) \o terminator])

\* The physical line a row starts on.
StartsOn(rows, i) ==
    1 + MapThenSumSet(LAMBDA j :
          1 + MapThenSumSet(LAMBDA f : Cardinality({k \in DOMAIN rows[j][f] : rows[j][f][k] = "lf"}),
                            DOMAIN rows[j]), 1 .. i - 1)

\* What a row says: its date and amount in tenths, Absent when it cannot be read.
Says(row) ==
    IF \/ Len(row) < 5 \/ row[1] \notin {Day1, Day2}
       \/ row[3] \in {<<>>, <<"1">>} /\ row[4] \in {<<>>, <<"1">>}
    THEN Absent
    ELSE [date |-> IF row[1] = Day1 THEN <<2024, 2, 1>> ELSE <<2024, 2, 29>>,
          amount |-> CASE row[3] = <<"-", "2">> -> 20 [] row[3] = <<"2">> -> -20
                       [] OTHER -> IF row[4] = <<"5">> THEN 50 ELSE 20]

\* A file gives back the rows that were written into it, whatever stands in their
\* fields and however lines end, each at the physical line it starts on.
CsvReadsBack ==
    export # Absent =>
        \A terminator \in Terminators :
          \A records \in {Tokenize(Written(export, terminator), "delimiter")} :
             /\ records # Absent
             /\ [i \in DOMAIN records |-> records[i].fields] = export
             /\ \A i \in DOMAIN records : records[i].line = StartsOn(export, i)

\* Every record is a line or a skip, at its place and with its amount; no two lines
\* have one id and more rows, imported again, leave the ids before them alone; every
\* draft is balanced; and the proof breaks at the lines, and at no others, whose
\* balance is not what the line before claimed and their amount.
RowsAccounted ==
    export # Absent =>
      \A headed \in BOOLEAN :
      \A rows \in {IF headed THEN <<Header>> \o export ELSE export} :
        LET read(upTo) ==
                ParseCsvStatement(Written(SubSeq(rows, 1, upTo), <<"lf">>), Mapping(headed))
            first == IF headed THEN 2 ELSE 1
        IN Len(rows) >= first =>
           \A result \in {read(Len(rows))}, before \in {read(Len(rows) - 1)},
              kept \in {SelectSeq([i \in 1 .. Len(rows) |-> i],
                                  LAMBDA i : i >= first /\ Says(rows[i]) # Absent)} :
           \A drafts \in {ToDraftEntries(result.lines, <<"A">>, <<"E">>)},
              breaks \in {ProveRunningBalance(result.lines, Absent)} :
             /\ Len(result.lines) = Len(kept)
             /\ \A i \in DOMAIN kept : \A said \in {Says(rows[kept[i]])} :
                  result.lines[i].date = said.date /\ result.lines[i].amount = said.amount
             /\ Range(result.skipped)
                  = {StartsOn(rows, i) : i \in (first .. Len(rows)) \ Range(kept)}
             /\ \A i, j \in DOMAIN result.lines : i # j => drafts[i].id # drafts[j].id
             /\ before # Absent => \A i \in DOMAIN before.lines :
                  before.lines[i].id = result.lines[i].id
             /\ \A i \in DOMAIN drafts : IsEntryBalanced(drafts[i])
             /\ {b.index : b \in Range(breaks)} =
                  {i \in 2 .. Len(kept) : result.lines[i].balance
                     # result.lines[i - 1].balance + result.lines[i].amount}

-----------------------------------------------------------------------------
(* OFX files *)

T(name, value) == [name |-> name, close |-> FALSE, value |-> value]
Close(name) == [name |-> name, close |-> TRUE, value |-> <<>>]

Posted(id, date, amount) ==
    <<T("STMTTRN", <<>>), T("TRNAMT", amount), T("DTPOSTED", date), T("FITID", id)>>

Today == <<"2", "0", "2", "4", "0", "2", "2", "9", "1", "2">>
Never == <<"2", "0", "2", "3", "0", "2", "2", "9">>

\* What may follow in a file; a transaction is whole, or lacks its id or its date.
Blocks == {
    <<T("STMTRS", <<>>)>>, <<T("CURDEF", "Y")>>, <<T("ACCTID", <<"1">>)>>,
    Posted(<<"1">>, Today, <<"-", "1", ",", "5">>), Posted(<<>>, Today, <<"1">>),
    Posted(<<"2">>, Never, <<"1">>),
    <<Close("STMTTRN")>>, <<T("LEDGERBAL", <<>>)>>, <<T("FITID", <<"9">>)>>}

OptionsOf(default) == [defaultCurrency |-> default, decimals |-> 1]

\* The file after one more block.
WithBlock(f, block) ==
    [f EXCEPT !.blocks = @ + 1, !.tags = @ \o block,
              !.reader = FoldLeft(LAMBDA s, tag : Tagged(OptionsOf(f.default), s, tag), @, block)]

\* A file begins with anything, or with a statement of currency X.
FileInit ==
    /\ figure = Absent /\ export = Absent
    /\ \E default \in {Absent, "Z"} :
         LET empty == [tags |-> <<>>, blocks |-> 0, reader |-> NoTags, default |-> default]
             begun == WithBlock(empty, <<T("STMTRS", <<>>), T("CURDEF", "X")>>)
         IN file \in {empty, begun}

FileNext ==
    /\ file # Absent
    /\ file.blocks < MaxBlocks
    /\ \E block \in Blocks : file' = WithBlock(file, block)
    /\ UNCHANGED <<figure, export>>

\* The transactions: what a reader of the tags sees of each, which are those from
\* its STMTTRN to whatever ends it.  A field has the last value it was given, and the
\* currency is the last one declared in the statement by then.
GivenLast(tags, name, otherwise) ==
    LET given == {i \in DOMAIN tags : tags[i].name = name /\ ~tags[i].close}
    IN IF given = {} THEN otherwise ELSE tags[Max(given)].value

Positions(name) == {i \in DOMAIN file.tags : file.tags[i] = T(name, <<>>)}

TransactionAt(i) ==
    LET end == Min({Len(file.tags) + 1} \cup {j \in i + 1 .. Len(file.tags) :
                     file.tags[j].name \in {"STMTTRN", "STMTRS", "LEDGERBAL"}})
        own == SubSeq(file.tags, i, end - 1)
        opened == Max({0} \cup {j \in Positions("STMTRS") : j < i})
    IN [ordinal |-> Cardinality({j \in Positions("STMTTRN") : j <= i}),
        statement |-> opened,
        currency |-> GivenLast(SubSeq(file.tags, opened + 1, end - 1), "CURDEF", file.default),
        identified |-> GivenLast(own, "FITID", Absent) \notin {Absent, <<>>},
        dated |-> GivenLast(own, "DTPOSTED", Absent) = Today,
        amount |-> IF GivenLast(own, "TRNAMT", Absent) = <<"1">> THEN 10 ELSE -15]

\* The file is thrown out only for money without a currency; in any other every
\* transaction, closed or not, is a line or a skip under its ordinal: a line in the
\* currency its statement had declared, and the lines of two transactions in one
\* statement if and only if no statement opens between them.
TransactionsAccounted ==
    file # Absent =>
      \A result \in {Finished(OptionsOf(file.default), file.reader)} :
      \A held \in {[n \in DOMAIN result.statements |->
                     {line.ordinal : line \in Range(result.statements[n].lines)}]},
         transactions \in {{TransactionAt(i) : i \in Positions("STMTTRN")}} :
         /\ result.thrown <=> \E t \in transactions : t.identified /\ t.currency = Absent
         /\ ~result.thrown =>
              /\ Range(result.skipped)
                   = {t.ordinal : t \in {t \in transactions : ~t.identified \/ ~t.dated}}
              /\ \A t \in {t \in transactions : t.identified /\ t.dated} :
                   \E n \in DOMAIN held :
                     /\ held[n] = {u.ordinal : u \in
                          {u \in transactions : /\ u.identified /\ u.dated
                                                /\ u.statement = t.statement}}
                     /\ \E line \in Range(result.statements[n].lines) :
                          /\ line.ordinal = t.ordinal /\ line.currency = t.currency
                          /\ line.amount = t.amount
              /\ \A n \in DOMAIN held : Len(result.statements[n].lines) = Cardinality(held[n])

-----------------------------------------------------------------------------

\* Whatever is written is read back: figures (FiguresReadBack) and files of fields
\* (CsvReadsBack).
TextReadsBack == FiguresReadBack /\ CsvReadsBack

\* Nothing in a statement file is dropped, neither a row of a CSV export
\* (RowsAccounted) nor a transaction of an OFX file (TransactionsAccounted).
NothingDropped == RowsAccounted /\ TransactionsAccounted
=============================================================================
