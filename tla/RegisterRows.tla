----------------------------- MODULE RegisterRows -----------------------------
(***************************************************************************)
(* The rows of a Register (packages/journals/src) as pure operators: the   *)
(* rows a filter keeps, the model of group headers and entries, its        *)
(* offsets, the window of rows a window of pixels needs, what the          *)
(* renderers write for a row, and how a written window is put in the       *)
(* document row by row.                                                    *)
(*                                                                         *)
(* An entry row is a record [id, date, text, flag, currency, amount,       *)
(* balance]: a date is <<year, month, day>>, text gives for each field a   *)
(* filter may search the queries that occur in it, and balance maps        *)
(* currencies to amounts.  Entries are numbered from 1; a range            *)
(* [start, end] holds the rows start + 1 .. end, as the half-open range of *)
(* the code does.                                                          *)
(***************************************************************************)
EXTENDS Integers, Sequences, SequencesExt, FiniteSets, FiniteSetsExt, Functions, TLC

CONSTANTS
    None,
    RowHeight, GroupHeight, HeaderHeight, EmptyHeight,   \* pixels
    OverscanRows                                         \* rows rendered beyond the window

Then(a, F(_)) == F(a)

Floor(a, b) == a \div b
Ceiling(a, b) == -((-a) \div b)

-----------------------------------------------------------------------------
(* The filter *)

\* buildRegisterFilterCorpus: the searchable description of each row.
Corpus(rows) == [i \in DOMAIN rows |-> rows[i].text.description]

\* computeRegisterFilterMatches: the rows of which a requested field contains
\* the query; descriptions are looked up in the corpus, by the row's number.
Matches(rows, filter, corpus) ==
    LET found(i, field) ==
          filter.query \in IF field = "description" THEN corpus[i]
                           ELSE rows[i].text[field]
    IN  SelectSeq([i \in DOMAIN rows |-> i],
                  LAMBDA i : \E field \in filter.fields : found(i, field))

\* normalizeRegisterFilter: an empty query is no filter.
Normalized(filter) == IF filter = None \/ filter.query = "" THEN None ELSE filter

-----------------------------------------------------------------------------
(* The row model *)

\* getRegisterPeriodKey.
PeriodKey(date, by) ==
    CASE by = "year" -> <<date[1]>>
      [] by = "quarter" /\ date[2] \in 1 .. 12 -> <<date[1], 0, (date[2] - 1) \div 3 + 1>>
      [] OTHER -> <<date[1], date[2]>>

\* The summary of a group over the rows it heads: distinct entries, and the
\* net change of each currency.
Summary(rows, key, ixs) ==
    LET of(currency) == {k \in ixs : rows[k].currency = currency}
    IN  [key |-> key,
         count |-> Cardinality({rows[k].id : k \in ixs}),
         net |-> [currency \in {rows[k].currency : k \in ixs} |->
                    MapThenSumSet(LAMBDA k : rows[k].amount, of(currency))]]

Entry(rows, i) == [kind |-> "entry", index |-> i, row |-> rows[i]]

\* buildRegisterRowModel over all rows, buildFilteredRegisterRowModel over the
\* matched ones: a header wherever the period differs from that of the row
\* before.
Grouped(rows, by, ixs) ==
    LET key(p) == PeriodKey(rows[ixs[p]].date, by)
        starts(p) == p = 1 \/ key(p) # key(p - 1)
        run(p) == {ixs[q] : q \in {q \in p .. Len(ixs) :
                     \A k \in p + 1 .. q : ~starts(k)}}
        header(p) == [kind |-> "group", group |-> Summary(rows, key(p), run(p))]
    IN  FlattenSeq([p \in DOMAIN ixs |->
          IF starts(p) THEN <<header(p), Entry(rows, ixs[p])>>
          ELSE <<Entry(rows, ixs[p])>>])

FilteredModel(rows, by, ixs) ==
    IF by = "none" THEN [p \in DOMAIN ixs |-> Entry(rows, ixs[p])]
    ELSE Grouped(rows, by, ixs)

RowModel(rows, by) == Grouped(rows, by, [i \in DOMAIN rows |-> i])

\* computeRowModelOffsets: where row n + 1 of the model begins.
Offset(model, n) ==
    LET groups == Cardinality({k \in 1 .. n : model[k].kind = "group"})
    IN  groups * GroupHeight + (n - groups) * RowHeight

\* findRowIndexAtOffset: the last row that begins at or above y, or 0.
RowAtOffset(model, y) ==
    Cardinality({n \in 0 .. Len(model) - 1 : Offset(model, n) <= y})

\* The header that governs a row of the model.
GroupOf(model, i) ==
    LET headers == {k \in 1 .. i : model[k].kind = "group"}
    IN  IF headers = {} THEN 1 ELSE Max(headers)

\* The place of an entry in the model, or 0 when the filter hides it.
ModelIndex(model, i) ==
    LET at == {k \in DOMAIN model : model[k].kind = "entry" /\ model[k].index = i}
    IN  IF at = {} THEN 0 ELSE Min(at)

\* ISO dates compare as text.
Earlier(a, b) == \E k \in 1 .. 3 : a[k] < b[k] /\ \A j \in 1 .. k - 1 : a[j] = b[j]

\* findFirstRowOnOrAfterDate: a binary search, which trusts the dates to be in
\* order; None when every row is earlier.
FirstRowOnOrAfter(rows, date) ==
    LET search[low \in 0 .. Len(rows), high \in 0 .. Len(rows)] ==
          IF low >= high THEN low
          ELSE LET mid == (low + high) \div 2
               IN  IF Earlier(rows[mid + 1].date, date) THEN search[mid + 1, high]
                   ELSE search[low, mid]
        found == search[0, Len(rows)]
    IN  IF found < Len(rows) THEN found + 1 ELSE None

-----------------------------------------------------------------------------
(* Windows *)

\* createWindowFromScrollPosition.
WindowAt(top, height, tall, overscroll) ==
    LET first == Max({0, top - overscroll})
    IN  [top |-> first,
         bottom |-> Max({first, Min({Max({tall, height}), top + height + overscroll})})]

\* computeRowWindow.  When the window begins below the last row the end it
\* returns is beyond the rows.
FlatWindow(specs, bodyTop, count) ==
    LET start == Max({0, Floor(specs.top - bodyTop, RowHeight) - OverscanRows})
        end == Min({count, Ceiling(specs.bottom - bodyTop, RowHeight) + OverscanRows})
    IN  IF count = 0 THEN [start |-> 0, end |-> 0]
        ELSE [start |-> Min({start, count}), end |-> Max({end, start})]

\* computeGroupedRowWindow.
ModelWindow(specs, bodyTop, model) ==
    LET count == Len(model)
        top == specs.top - bodyTop
        bottom == specs.bottom - bodyTop
        atOrAbove == Cardinality({n \in 0 .. count : Offset(model, n) <= top})
        above == Cardinality({n \in 0 .. count : Offset(model, n) < bottom})
        start == Max({0, atOrAbove - 1 - OverscanRows})
    IN  IF count = 0 \/ bottom <= 0 \/ top >= Offset(model, count)
        THEN [start |-> 0, end |-> 0]
        ELSE [start |-> Min({start, count}),
              end |-> Max({Min({count, above + OverscanRows}), Min({start, count})})]

-----------------------------------------------------------------------------
(* What is written *)

\* finalRegisterBalances: the last balance reported for each currency.
FinalBalances(rows) ==
    IF rows = <<>> THEN None
    ELSE FoldLeft(LAMBDA total, row : row.balance @@ total, <<>>, rows)

\* renderBalanceCellHTML: nothing when the row has no balance in its currency.
BalanceCell(row) ==
    IF row.currency \in DOMAIN row.balance THEN row.balance[row.currency] ELSE None

\* renderRegisterRowHTML; a filter marks its matches in the fields it searches.
EntryHTML(row, i, selected, place, filter) ==
    [kind |-> "row", key |-> <<i>>, place |-> place, selected |-> selected,
     cells |-> [row EXCEPT !.balance = BalanceCell(row)],
     marks |-> IF filter = None THEN {}
               ELSE {field \in filter.fields \cap {"date", "description"} :
                       filter.query \in row.text[field]}]

\* renderRegisterGroupRowHTML.
GroupHTML(group, place) ==
    [kind |-> "group", key |-> group.key, place |-> place, group |-> group]

\* renderRegisterVirtualRowsHTML.
ModelHTML(model, range, selected, filter) ==
    [k \in 1 .. range.end - range.start |->
       LET i == range.start + k
           item == model[i]
       IN  IF item.kind = "group" THEN GroupHTML(item.group, i)
           ELSE EntryHTML(item.row, item.index, item.index \in selected, i, filter)]

\* renderRegisterRowsHTML: there is no row to write beyond the last, and the
\* renderer throws (None).
RowsHTML(rows, range, selected) ==
    IF range.end > Len(rows) THEN None
    ELSE [k \in 1 .. range.end - range.start |->
            LET i == range.start + k
            IN  EntryHTML(rows[i], i, i \in selected, i, None)]

\* renderRegisterWindowHTML: what a worker writes, from the rows alone.
WindowHTML(rows, range, selected, by, filter) ==
    CASE filter # None ->
           ModelHTML(FilteredModel(rows, by, Matches(rows, filter, Corpus(rows))),
                     range, selected, filter)
      [] filter = None /\ by # "none" -> ModelHTML(RowModel(rows, by), range, selected, None)
      [] OTHER -> RowsHTML(rows, range, selected)

\* renderRegisterEmptyStateHTML.
EmptyHTML == [kind |-> "empty", key |-> <<>>, place |-> 0]

\* renderRegisterHTML: the rows the server writes, all of them or, for a flat
\* register, the first few.
ServerHTML(rows, by, filter, capped) ==
    LET model == IF filter # None
                 THEN FilteredModel(rows, by, Matches(rows, filter, Corpus(rows)))
                 ELSE RowModel(rows, by)
    IN  CASE rows = <<>> -> <<EmptyHTML>>
          [] rows # <<>> /\ (filter # None \/ by # "none") ->
               ModelHTML(model, [start |-> 0, end |-> Len(model)], {}, filter)
          [] OTHER -> RowsHTML(rows, [start |-> 0, end |-> Min({Len(rows), capped})], {})

-----------------------------------------------------------------------------
(* The document: what was written for a row, and whether it is marked as focused *)

Fresh(html) == [k \in DOMAIN html |-> [html |-> html[k], focused |-> FALSE]]

SameKey(a, b) == a.kind = b.kind /\ a.key = b.key

\* commitRegisterRowsHTML: a row already there with the same key and the same
\* bytes is kept, with the mark of the focus on it; the rest are new.  With nothing
\* in common, or with something in the document that has no key, the rows are
\* written anew.
CommitRows(live, html) ==
    LET kept(h) == {k \in DOMAIN live : SameKey(live[k].html, h)}
        keyed == live # <<>> /\ \A k \in DOMAIN live : live[k].html.kind # "empty"
        overlaps == \E k \in DOMAIN html : kept(html[k]) # {}
        fresh == Fresh(html)
        chosen(k) == LET old == kept(html[k])
                     IN  IF old # {} /\ live[Max(old)].html = html[k]
                         THEN live[Max(old)] ELSE fresh[k]
    IN  IF keyed /\ overlaps THEN [k \in DOMAIN html |-> chosen(k)] ELSE fresh
=============================================================================
