------------------------------- MODULE Importers ------------------------------
(***************************************************************************)
(* packages/importers/src: a bank's CSV or OFX file read into statement    *)
(* lines, the proof of its running balance and the draft entries made of   *)
(* its lines; and the formatting of amounts that journals, accounts and    *)
(* statements share, which writes what the parser of amounts reads.        *)
(*                                                                         *)
(* A text is a sequence of characters.  An ImportError is Absent.          *)
(***************************************************************************)
EXTENDS Statements

Digits == <<"0", "1", "2", "3", "4", "5", "6", "7", "8", "9">>
AllDigits(text) == text # <<>> /\ Range(text) \subseteq Range(Digits)
NumberOf(text) ==
    FoldLeft(LAMBDA n, c : 10 * n + (CHOOSE d \in 0 .. 9 : Digits[d + 1] = c), 0, text)

\* A number in at least so many digits.
DigitsOf(n, least) ==
    LET width == CHOOSE w \in 1 .. 9 : n < 10 ^ w /\ (w = 1 \/ n >= 10 ^ (w - 1))
        wide == Max({width, least})
    IN [i \in 1 .. wide |-> Digits[((n \div 10 ^ (wide - i)) % 10) + 1]]

Trim(text) ==
    LET kept == {i \in DOMAIN text : text[i] # " "}
    IN IF kept = {} THEN <<>> ELSE SubSeq(text, Min(kept), Max(kept))

SplitOn(text, separator) ==
    FoldLeft(LAMBDA parts, c : IF c = separator THEN Append(parts, <<>>)
                               ELSE [parts EXCEPT ![Len(parts)] = Append(@, c)],
             << <<>> >>, text)

-----------------------------------------------------------------------------
(* Dates and amounts *)

DateFormats == [
    iso |-> [separator |-> "-", order |-> <<"year", "month", "day">>],
    dayFirst |-> [separator |-> "/", order |-> <<"day", "month", "year">>],
    monthFirst |-> [separator |-> "/", order |-> <<"month", "day", "year">>],
    dotted |-> [separator |-> ".", order |-> <<"day", "month", "year">>]]

IsLeapYear(year) == (year % 4 = 0 /\ year % 100 # 0) \/ year % 400 = 0

DaysInMonth(year, month) ==
    IF month = 2 /\ IsLeapYear(year) THEN 29
    ELSE <<31, 28, 31, 30, 31, 30, 31, 31, 30, 31, 30, 31>>[month]

ParseDateToIso(text, format) ==
    LET parts == SplitOn(Trim(text), DateFormats[format].separator)
        part(name) == parts[CHOOSE i \in 1 .. 3 : DateFormats[format].order[i] = name]
        shaped == /\ Len(parts) = 3
                  /\ \A i \in 1 .. 3 : AllDigits(parts[i])
                  /\ Len(part("year")) = 4 /\ Len(part("month")) = 2 /\ Len(part("day")) = 2
        date == <<NumberOf(part("year")), NumberOf(part("month")), NumberOf(part("day"))>>
    IN IF shaped /\ date[2] \in 1 .. 12 /\ date[3] \in 1 .. DaysInMonth(date[1], date[2])
       THEN date ELSE Absent

\* Straight to minor units: what stands left of the decimal separator, and what
\* stands right of it filled up with zeros.
ParseAmountToMinorUnits(text, format, decimals) ==
    LET cleaned == SelectSeq(Trim(text), LAMBDA c : c # format.group)
        signed == cleaned # <<>> /\ cleaned[1] \in {"-", "+"}
        parts == SplitOn(IF signed THEN Tail(cleaned) ELSE cleaned, format.decimal)
        fraction == IF Len(parts) = 2 THEN parts[2] ELSE <<>>
        padding == [i \in 1 .. decimals - Len(fraction) |-> "0"]
        minor == NumberOf(parts[1] \o fraction \o padding)
    IN IF /\ Len(parts) <= 2 /\ \A i \in DOMAIN parts : AllDigits(parts[i])
          /\ Len(fraction) <= decimals
          /\ IsSafeInteger(minor)
       THEN IF signed /\ cleaned[1] = "-" THEN -minor ELSE minor
       ELSE Absent

Abs(n) == Max({n, -n})

ToSafeInteger(amount) == Max({1 - Limit, Min({Limit - 1, amount})})

\* Numbers of digits with a separator before them, counted from the right: sums of
\* the group sizes, the last of which repeats, up to one that is not positive.
GroupEnds(format, digits) ==
    LET size(k) == format.groupSizes[Min({k, Len(format.groupSizes)})]
        sum[k \in 0 .. digits] == IF k = 0 THEN 0 ELSE sum[k - 1] + size(k)
    IN IF format.group = Absent \/ format.groupSizes = <<>> THEN {}
       ELSE {sum[k] : k \in {k \in 1 .. digits : \A i \in 1 .. k : size(i) > 0}}

GroupIntegerDigits(digits, format) ==
    LET ends == GroupEnds(format, Len(digits))
    IN FlattenSeq([i \in DOMAIN digits |->
           IF i < Len(digits) /\ Len(digits) - i \in ends
           THEN <<digits[i], format.group>> ELSE <<digits[i]>>])

FormatUnpadded(amount, decimals, format) ==      \* fractions lose their zeros
    LET value == ToSafeInteger(amount)
        unit == 10 ^ decimals
        whole == GroupIntegerDigits(DigitsOf(Abs(value) \div unit, 1), format)
        shown == IF decimals = 0 THEN whole
                 ELSE whole \o <<format.decimal>> \o DigitsOf(Abs(value) % unit, 1)
    IN IF value < 0 THEN <<"minus">> \o shown ELSE shown

\* "minus" is U+2212.
FormatMinorUnits(amount, decimals, format) ==
    LET value == ToSafeInteger(amount)
        digits == DigitsOf(Abs(value), decimals + 1)
        whole == GroupIntegerDigits(SubSeq(digits, 1, Len(digits) - decimals), format)
        shown == IF decimals = 0 THEN whole
                 ELSE whole \o <<format.decimal>>
                        \o SubSeq(digits, Len(digits) - decimals + 1, Len(digits))
    IN IF value < 0 THEN <<"minus">> \o shown ELSE shown

-----------------------------------------------------------------------------
(* CSV *)

NoRecords == [records |-> <<>>, fields |-> <<>>, field |-> <<>>, inQuotes |-> FALSE,
              sawQuote |-> FALSE, line |-> 1, recordLine |-> 1, recordStart |-> 1,
              paired |-> FALSE]

PushField(s) ==
    [s EXCEPT !.fields = Append(@, s.field), !.field = <<>>, !.sawQuote = FALSE]

PushRecord(text, s, end) ==
    With(PushField(s), LAMBDA t :
      [t EXCEPT !.records = Append(@, [fields |-> t.fields, line |-> t.recordLine,
                                       raw |-> SubSeq(text, t.recordStart, end)]),
                !.fields = <<>>])

Quoted(s, char, next) ==
    CASE char = "quote" /\ next = "quote" ->
            [s EXCEPT !.field = Append(@, char), !.paired = TRUE]
      [] char = "quote" /\ next # "quote" -> [s EXCEPT !.inQuotes = FALSE]
      [] char # "quote" -> [s EXCEPT !.field = Append(@, char),
                                     !.line = IF char = "lf" THEN @ + 1 ELSE @]

RecordEnded(text, s, i, next) ==
    With(text[i] = "cr" /\ next = "lf", LAMBDA crlf :
      [PushRecord(text, s, i - 1) EXCEPT
         !.line = @ + 1, !.recordLine = s.line + 1,
         !.recordStart = i + (IF crlf THEN 2 ELSE 1), !.paired = crlf])

Unquoted(text, delimiter, s, i, next) ==
    CASE text[i] = "quote" /\ s.field = <<>> ->
            [s EXCEPT !.inQuotes = TRUE, !.sawQuote = TRUE]
      [] text[i] = delimiter -> PushField(s)
      [] text[i] \in {"cr", "lf"} -> RecordEnded(text, s, i, next)
      [] OTHER -> [s EXCEPT !.field = Append(@, text[i])]

\* The second character of a pair was taken with the first.
Scanned(text, delimiter, s, i) ==
    With(IF i < Len(text) THEN text[i + 1] ELSE Absent, LAMBDA next :
      IF s.paired THEN [s EXCEPT !.paired = FALSE]
      ELSE IF s.inQuotes THEN Quoted(s, text[i], next)
      ELSE Unquoted(text, delimiter, s, i, next))

Tokenize(text, delimiter) ==
    With(FoldLeftDomain(LAMBDA s, i : Scanned(text, delimiter, s, i), NoRecords, text),
         LAMBDA s :
      IF s.inQuotes THEN Absent
      ELSE IF s.field # <<>> \/ s.fields # <<>> \/ s.sawQuote
      THEN PushRecord(text, s, Len(text)).records
      ELSE s.records)

\* A column by number, or by its name in the header.
ResolveColumn(ref, header) ==
    IF "index" \in DOMAIN ref THEN ref.index
    ELSE With({i \in DOMAIN header : header[i] = ref.name}, LAMBDA named :
           IF named = {} THEN Absent ELSE Min(named))

ReadField(record, index) ==
    IF index \in DOMAIN record.fields THEN Trim(record.fields[index]) ELSE Absent

\* Absent for a field that is missing or no amount.
ReadAmount(record, index, mapping) ==
    With(ReadField(record, index), LAMBDA text :
      IF text = Absent THEN Absent
      ELSE ParseAmountToMinorUnits(text, mapping.amountFormat, mapping.decimals))

\* One side of a split pair; an empty one is zero.
ReadSide(record, index, mapping) ==
    IF ReadField(record, index) = <<>> THEN 0 ELSE ReadAmount(record, index, mapping)

\* Credit is money in.
ReadSplit(record, columns, mapping) ==
    With(<<ReadSide(record, columns.debit, mapping), ReadSide(record, columns.credit, mapping)>>,
         LAMBDA sides :
      IF \/ Absent \in Range(sides)
         \/ \A side \in {"debit", "credit"} : ReadField(record, columns[side]) = <<>>
         \/ sides[1] # 0 /\ sides[2] # 0
      THEN Absent ELSE sides[2] - sides[1])

\* The line of a record, or Absent for one that is skipped.
ReadRecord(record, columns, mapping) ==
    With([date |-> IF ReadField(record, columns.date) = Absent THEN Absent
                   ELSE ParseDateToIso(ReadField(record, columns.date), mapping.dateFormat),
          description |-> ReadField(record, columns.description),
          amount |-> IF "debit" \in DOMAIN columns THEN ReadSplit(record, columns, mapping)
                     ELSE ReadAmount(record, columns.amount, mapping),
          balance |-> ReadAmount(record, columns.balance, mapping),
          currency |-> mapping.currency], LAMBDA line :
      IF \E field \in {"date", "description", "amount", "balance"} : line[field] = Absent
      THEN Absent ELSE line)

IsBlank(record) == Len(record.fields) = 1 /\ Trim(record.fields[1]) = <<>>

ReadOnce(columns, mapping, result, record) ==      \* the number of a twin is left out
    With(IF IsBlank(record) THEN Absent ELSE ReadRecord(record, columns, mapping), LAMBDA line :
      IF line = Absent THEN [result EXCEPT !.skipped = Append(@, record.line)]
      ELSE [result EXCEPT !.lines = Append(@, line @@ [id |-> <<record.raw, 1>>])])

\* A line is named for the text of its record and the lines before it with the
\* same text.
ReadNext(columns, mapping, result, record) ==
    With(IF IsBlank(record) THEN Absent ELSE ReadRecord(record, columns, mapping), LAMBDA line :
      IF line = Absent THEN [result EXCEPT !.skipped = Append(@, record.line)]
      ELSE LET twins == Len(SelectSeq(result.lines, LAMBDA l : l.id[1] = record.raw))
           IN [result EXCEPT !.lines = Append(@, line @@ [id |-> <<record.raw, twins + 1>>])])

\* Absent when the file as a whole is thrown out.
ParseCsvStatement(text, mapping) ==
    With(Tokenize(text, mapping.delimiter), LAMBDA records :
    With(records # Absent /\ mapping.hasHeader /\ records # <<>>, LAMBDA headed :
    With([c \in DOMAIN mapping.columns |->
            ResolveColumn(mapping.columns[c], IF headed THEN records[1].fields ELSE <<>>)],
         LAMBDA columns :
      IF records = Absent \/ Absent \in Range(columns) THEN Absent
      ELSE FoldLeft(LAMBDA result, r : ReadNext(columns, mapping, result, r),
                    [lines |-> <<>>, skipped |-> <<>>],
                    IF headed THEN Tail(records) ELSE records))))

-----------------------------------------------------------------------------
(* OFX: a pass over the tags, each with the text that follows it *)

NoTags == [current |-> Absent, transaction |-> Absent, ordinal |-> 0,
           statements |-> <<>>, skipped |-> <<>>, thrown |-> FALSE]

RequireStatement(s) ==
    IF s.current # Absent THEN s
    ELSE [s EXCEPT !.current = [accountId |-> <<>>, currency |-> Absent, lines |-> <<>>]]

OrDefault(currency, options) == IF currency # Absent THEN currency ELSE options.defaultCurrency

FlushStatement(options, s) ==
    IF s.current = Absent THEN s
    ELSE IF s.current.lines = <<>> /\ s.current.accountId = <<>>
    THEN [s EXCEPT !.current = Absent]
    ELSE With(OrDefault(s.current.currency, options), LAMBDA currency :
           IF currency = Absent /\ s.current.lines # <<>> THEN [s EXCEPT !.thrown = TRUE]
           ELSE [s EXCEPT !.statements = Append(@, [s.current EXCEPT !.currency = currency]),
                          !.current = Absent])

ParseDtPosted(value) ==
    With(Trim(value), LAMBDA text :
      IF Len(text) < 8 \/ ~AllDigits(SubSeq(text, 1, 8)) THEN Absent
      ELSE ParseDateToIso(SubSeq(text, 1, 4) \o <<"-">> \o SubSeq(text, 5, 6)
                            \o <<"-">> \o SubSeq(text, 7, 8), "iso"))

ParseTrnAmt(value, decimals) ==
    ParseAmountToMinorUnits(value,
        [decimal |-> IF "." \notin Range(value) /\ "," \in Range(value) THEN "," ELSE ".",
         group |-> Absent], decimals)

\* A transaction that lacks a field is skipped before the currency is looked for.
FlushTransaction(options, s) ==
    IF s.transaction = Absent THEN s
    ELSE With(RequireStatement([s EXCEPT !.transaction = Absent]), LAMBDA t :
         With(s.transaction, LAMBDA raw :
         With(OrDefault(t.current.currency, options), LAMBDA currency :
           LET skip == [t EXCEPT !.skipped = Append(@, raw.ordinal)]
               line == [id |-> raw.FITID, currency |-> currency, ordinal |-> raw.ordinal,
                        date |-> ParseDtPosted(raw.DTPOSTED),
                        amount |-> ParseTrnAmt(raw.TRNAMT, options.decimals)]
           IN IF raw.FITID \in {Absent, <<>>} \/ Absent \in {raw.DTPOSTED, raw.TRNAMT}
              THEN skip
              ELSE IF currency = Absent THEN [t EXCEPT !.thrown = TRUE]
              ELSE IF line.date = Absent \/ line.amount = Absent THEN skip
              ELSE [t EXCEPT !.current.lines = Append(@, line)])))

Opened(s) ==
    [s EXCEPT !.ordinal = @ + 1,
              !.transaction = [DTPOSTED |-> Absent, TRNAMT |-> Absent, FITID |-> Absent,
                               ordinal |-> s.ordinal + 1]]

Tag(options, s, tag) ==
    IF tag.close
    THEN IF tag.name \in {"STMTTRN", "BANKTRANLIST", "STMTRS", "CCSTMTRS"}
         THEN FlushTransaction(options, s) ELSE s
    ELSE CASE tag.name \in {"STMTRS", "CCSTMTRS"} ->
                With(FlushTransaction(options, s), LAMBDA t :
                     RequireStatement(FlushStatement(options, t)))
           [] tag.name = "CURDEF" -> [RequireStatement(s) EXCEPT !.current.currency = tag.value]
           [] tag.name = "ACCTID" ->
                [RequireStatement(s) EXCEPT
                   !.current.accountId = IF @ = <<>> THEN tag.value ELSE @]
           [] tag.name = "STMTTRN" -> Opened(FlushTransaction(options, s))
           [] tag.name \in {"DTPOSTED", "TRNAMT", "FITID"} ->
                IF s.transaction = Absent THEN s
                ELSE [s EXCEPT !.transaction[tag.name] = tag.value]
           [] tag.name \in {"LEDGERBAL", "AVAILBAL"} -> FlushTransaction(options, s)
           [] OTHER -> s

\* What is thrown ends the pass.
Tagged(options, s, tag) == IF s.thrown THEN s ELSE Tag(options, s, tag)

Finished(options, s) ==
    With(FlushTransaction(options, s), LAMBDA t : IF t.thrown THEN t ELSE FlushStatement(options, t))

-----------------------------------------------------------------------------
(* What is made of the lines *)

\* Breaks of the claimed balances, the proof anchored anew at each.
ProveRunningBalance(lines, opening) ==
    FoldLeftDomain(LAMBDA proof, i :
        With(proof.running + lines[i].amount, LAMBDA expected :
          [running |-> lines[i].balance,
           breaks |-> IF expected = lines[i].balance THEN proof.breaks
                      ELSE Append(proof.breaks, [index |-> i, expected |-> expected])]),
        [running |-> IF opening # Absent \/ lines = <<>> THEN opening
                     ELSE lines[1].balance - lines[1].amount,
         breaks |-> <<>>], lines).breaks

ToDraftEntries(lines, account, suspenseAccount) ==
    [i \in DOMAIN lines |->
       [id |-> <<account, lines[i].id>>, date |-> lines[i].date, flag |-> "pending", tags |-> {},
        postings |-> <<[account |-> account, amount |-> lines[i].amount,
                        currency |-> lines[i].currency],
                       [account |-> suspenseAccount, amount |-> -lines[i].amount,
                        currency |-> lines[i].currency]>>]]
=============================================================================
