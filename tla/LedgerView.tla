------------------------------ MODULE LedgerView ------------------------------
(***************************************************************************)
(* A LedgerView (packages/journals/src/components/LedgerView.ts): a        *)
(* Register for each account, one below the other in one scroll container, *)
(* with one Virtualizer and one SmoothScroller for all.  The offsets of    *)
(* the sections are computed from the numbers of their rows; setSections   *)
(* keeps the registers of the accounts that stay, and the content at the   *)
(* top of the viewport where it is.                                        *)
(*                                                                         *)
(* The page of a Register gets the sections last given, each an account    *)
(* and the name of its rows, and the account of each register.             *)
(***************************************************************************)
EXTENDS Register

CONSTANTS
    Sections,        \* sequences of sections, [account, from]
    SectionOptions,  \* the options every section is constructed with
    Slots,           \* registers there may be at a time, the ones that go included
    Budget           \* maxTotalRows

SlotsAssumption == Slots >= 2 * Max({Len(s) : s \in Sections})

ASSUME SlotsAssumption

RowsOf(section) == Data[section.from]

\* Bug variant: an empty section is as high as its header.
SectionOffsetOfRows(sections, n) ==
    FoldLeft(LAMBDA sum, section : sum + HeaderHeight + Len(RowsOf(section)) * RowHeight,
             0, SubSeq(sections, 1, n - 1))

\* computeSectionOffsets, at the end the height of all.
SectionOffset(sections, n) ==
    LET size(rows) == HeaderHeight + IF rows = <<>> THEN EmptyHeight ELSE Len(rows) * RowHeight
    IN  FoldLeft(LAMBDA sum, section : sum + size(RowsOf(section)), 0, SubSeq(sections, 1, n - 1))

\* The register of an account: the first, where several sections have the same.
RegisterOf(p, account) ==
    LET at == {n \in DOMAIN p.order : p.account[p.order[n]] = account}
    IN  IF at = {} THEN None ELSE p.order[Min(at)]

IndexOf(p, i) == CHOOSE n \in DOMAIN p.order : p.order[n] = i

-----------------------------------------------------------------------------
(* The scroll anchor *)

\* captureScrollAnchor: the topmost visible section, the row at the top of the
\* viewport, and where both are from there.  Sections and order are the old ones.
Anchor(p) ==
    LET starts == {n \in 2 .. Len(p.order) :
                     \A k \in 2 .. n : SectionOffset(p.sections, k) <= p.top}
        n == IF starts = {} THEN 1 ELSE Max(starts)
        top == SectionOffset(p.sections, n)
        rows == Len(RowsOf(p.sections[n]))
        within == p.top - top - HeaderHeight
        row == IF within >= 0 /\ rows > 0 THEN Min({rows, Floor(within, RowHeight) + 1}) ELSE None
        rowTop == IF row = None THEN top ELSE top + HeaderHeight + (row - 1) * RowHeight
    IN  [top |-> p.top, accounts |-> [k \in DOMAIN p.order |-> p.account[p.order[k]]],
         place |-> n, row |-> row, offset |-> rowTop - p.top, section |-> top - p.top]

\* restoreScrollAnchor: the section stays, or what was next to it takes its
\* place; the nearer neighbour first, and the one before it first.
AnchorTop(p, anchor) ==
    LET old(n) == IF n \in DOMAIN anchor.accounts THEN RegisterOf(p, anchor.accounts[n]) ELSE None
        topOf(i) == SectionOffset(p.sections, IndexOf(p, i))
        rowsOf(i) == Len(RowsOf(p.sections[IndexOf(p, i)]))
        stays == old(anchor.place)
        near == {d \in 1 .. Len(anchor.accounts) - 1 :
                   old(anchor.place - d) # None \/ old(anchor.place + d) # None}
        before == old(anchor.place - Min(near))
        after == old(anchor.place + Min(near))
        target ==
          IF stays # None
          THEN topOf(stays) - anchor.offset
               + IF anchor.row # None /\ rowsOf(stays) > 0
                 THEN HeaderHeight + (Min({anchor.row, rowsOf(stays)}) - 1) * RowHeight ELSE 0
          ELSE IF near = {} THEN anchor.top
          ELSE IF before # None
          THEN topOf(before) + HeaderHeight + rowsOf(before) * RowHeight - anchor.section
          ELSE topOf(after) - anchor.section
    IN  Max({0, target})

-----------------------------------------------------------------------------
(* Sections *)

\* createMountedSection: a new Register, in a slot that is free.
Created(p, i, account) ==
    [p EXCEPT !.regs[i] = Constructed(SectionOptions), !.account[i] = account]

\* One section of setSections: the register of its account gets the rows, if
\* they differ; a new one, or the second of an account, is mounted.
Taken(old, p, n) ==
    LET section == p.sections[n]
        i == RegisterOf(old, section.account)
        free == Min(DOMAIN p.regs \ (ToSet(old.order) \cup ToSet(p.order)))
        at == SectionOffset(p.sections, n)
        kept == [p EXCEPT !.order = Append(@, i), !.at[i] = at]
        created == [Created(p, free, section.account) EXCEPT
                      !.order = Append(@, free), !.at[free] = at]
    IN  IF p.threw THEN p
        ELSE IF i # None /\ i \notin ToSet(p.order)
        THEN SetRows(kept, i, section.from, RowsOf(section))
        ELSE SectionMounted(created, free, section.from, RowsOf(section))

\* cleanUp of a register whose section is gone.
Dropped(p, i) == [CleanedUp(p, i, FALSE) EXCEPT !.regs[i] = Constructed(SectionOptions),
                                                !.account[i] = None, !.at[i] = 0]

Reconciled(old, p) ==
    FoldSet(LAMBDA i, q : Dropped(q, i), p, ToSet(old.order) \ ToSet(p.order))

\* Bug variant: the anchor is computed from the offsets of the new sections.
AnchorTakenLate(p, sections) ==
    LET n == Min({Len(p.order), Len(sections)})
    IN  Anchor([p EXCEPT !.sections = sections, !.order = SubSeq(@, 1, n)])

AnchorTaken(p, sections) == Anchor(p)

\* setSections, with an array it has not been given before.
SetSections(p, sections) ==
    LET given == [Canceled(p) EXCEPT !.sections = sections, !.order = <<>>]
        anchored(q) ==
          IF p.order = <<>> THEN q
          ELSE Scrolled(q, AnchorTop(q, AnchorTaken(p, sections)))
    IN  Then(FoldLeft(LAMBDA q, n : Taken(p, q, n), given, [n \in DOMAIN sections |-> n]), LAMBDA q :
          IF q.threw THEN q
          ELSE Then(Reconciled(p, q), LAMBDA r :
                 InstanceChanged(anchored(Scrolled(r, r.top)))))

\* preloadLedgerViewHTML: the first sections get what rows the budget allows,
\* with a spacer for the rest.
Preloaded(sections, n) ==
    LET count(k, left) == Min({Len(RowsOf(sections[k])), Capped, left})
        left == FoldLeft(LAMBDA rest, k : rest - count(k, rest), Budget, [k \in 1 .. n - 1 |-> k])
    IN  count(n, left)

\* hydrate: the sections in the document are taken over in order; a section the
\* server did not write is mounted, and what it wrote beyond them goes.
Adopt(p, sections, n, written) ==
    LET section == sections[n]
        rows == RowsOf(section)
        shown == Preloaded(sections, n)
        created == [Created(p, n, section.account) EXCEPT
                      !.order = Append(@, n), !.at[n] = SectionOffset(sections, n)]
        dom == IF rows = <<>> THEN <<EmptyHTML>>
               ELSE RowsHTML(rows, [start |-> 0, end |-> shown], {})
    IN  IF n <= written
        THEN [Hydrated(created, n, section.from, rows) EXCEPT
                !.regs[n].dom = Fresh(dom), !.regs[n].after = (Len(rows) - shown) * RowHeight]
        ELSE SectionMounted(created, n, section.from, rows)

HydrateSections(p, sections, written) ==
    InstanceChanged(
      FoldLeft(LAMBDA q, n : Adopt(q, sections, n, written),
               [p EXCEPT !.sections = sections, !.z.on = TRUE],
               [n \in DOMAIN sections |-> n]))

BlankLedger ==
    BlankPage([i \in 1 .. Slots |-> Constructed(SectionOptions)], <<>>)
    @@ [sections |-> <<>>, account |-> [i \in 1 .. Slots |-> None]]

-----------------------------------------------------------------------------
(* Sections scrolled to, and what they hand to each other *)

\* scrollToSection.
ScrolledToSection(p, account, align, smooth) ==
    LET i == RegisterOf(p, account)
        n == IndexOf(p, i)
        top == SectionOffset(p.sections, n)
        height == HeaderHeight + Len(RowsOf(p.sections[n])) * RowHeight
        target ==
          CASE align = "start" -> top
            [] align = "center" -> top + (height - Viewport) \div 2
            [] OTHER -> IF top < p.top THEN top
                        ELSE IF top + HeaderHeight > p.top + Viewport
                        THEN top + HeaderHeight - Viewport ELSE None
    IN  IF i = None \/ target = None THEN p ELSE ScrollTo(p, Max({0, target}), smooth)

\* handleFocusBoundary: the next section with rows takes the focus.
FocusBoundary(p, i, direction) ==
    LET n == IndexOf(p, i)
        rows(k) == Len(RowsOf(p.sections[k]))
        beyond == {k \in DOMAIN p.order : (k - n) * direction > 0 /\ rows(k) > 0}
        next == IF direction = 1 THEN Min(beyond) ELSE Max(beyond)
    IN  IF beyond = {} THEN None
        ELSE FocusRow(p, p.order[next], IF direction = 1 THEN 1 ELSE rows(next))

\* handleRowSelect: the other sections forget their selection.

Heard(p) ==
    IF p.told = None THEN p
    ELSE FoldLeft(LAMBDA q, i : IF i = p.told THEN q ELSE SetSelectedRow(q, i, None),
                  [p EXCEPT !.told = None], p.order)

-----------------------------------------------------------------------------
(* The ledger and its user *)

Ledger == "sections" \in DOMAIN w

LedgerInit == w = BlankLedger /\ gestures = 0

GiveSections ==
    \/ w.z.on /\ Do({SetSections(w, s) : s \in Sections \ {w.sections}})
    \/ ~w.z.on /\ Do({SetSections([w EXCEPT !.z.on = TRUE], s) : s \in Sections})
    \/ ~w.z.on /\ \E s \in Sections :
         Do({HydrateSections(w, s, written) : written \in {Len(s), Len(s) - 1}})

CleanUpLedger == w.z.on /\ Do({BlankLedger})

Travel ==
    \E account \in {w.account[i] : i \in ToSet(w.order)} :
      \/ Do({ScrolledToSection(w, account, align, smooth) : align \in Aligns, smooth \in BOOLEAN})
      \/ Do({Then(RegisterOf(w, account), LAMBDA i :
               ScrolledToRow(w, i, index, align, FALSE)) :
               index \in Indices, align \in Aligns})

ClickSection ==
    \E i \in Mounted :
      \E k \in {k \in DOMAIN w.regs[i].dom : w.regs[i].dom[k].html.kind = "row"} :
        Do({Then(RowSelected(Canceled(w), i, w.regs[i].dom[k].html.key[1], FALSE, FALSE), Heard)})

TypeInSection ==
    \E i \in Mounted, key \in Keys :
      Do({Then(Pressed(w, i, key[1], key[2], key[3],
                       [direction \in {-1, 1} |-> FocusBoundary(w, i, direction)]), Heard)})

LedgerNext ==
    \/ GiveSections \/ CleanUpLedger \/ Travel \/ ClickSection \/ TypeInSection
    \/ Scroll \/ Browser

LedgerSpec == LedgerInit /\ [][LedgerNext]_registerVars /\ WF_registerVars(Browser)

-----------------------------------------------------------------------------
(* Properties *)

\* The offsets computed from the numbers of rows are where the sections are in
\* the document, whatever is drawn of each and whatever was drawn by the server:
\* "fixed row heights make estimates exact".
OffsetsTrue == Ledger => \A i \in ToSet(w.order) : w.at[i] = SectionTop(w, i)

\* Where row k of a section is in the content.
RowAt(p, i, k) == SectionTop(p, i) + IF k = None THEN 0 ELSE HeaderHeight + (k - 1) * RowHeight

\* "the content at the viewport top before the update is still at the viewport
\* top after it": when the section at the top stays and still has the row
\* there, that row does not move in the viewport, unless the content ends.
AnchorKept ==
    [][Ledger /\ w.order # <<>> /\ w'.sections # w.sections /\ w'.order # <<>> =>
         LET shown == {i \in ToSet(w.order) : SectionTop(w, i) <= w.top}
             i == CHOOSE i \in shown : \A j \in shown : SectionTop(w, j) <= SectionTop(w, i)
             j == RegisterOf(w', w.account[i])
             within == w.top - SectionTop(w, i) - HeaderHeight
             k == IF within >= 0 /\ w.regs[i].rows # <<>>
                  THEN Min({Len(w.regs[i].rows), Floor(within, RowHeight) + 1}) ELSE None
         IN  j # None /\ (k # None => k <= Len(w'.regs[j].rows)) =>
               \/ RowAt(w', j, k) - w'.top = RowAt(w, i, k) - w.top
               \/ w'.top \in {0, Max({0, ScrollHeight(w') - Viewport})}]_registerVars

\* Sections are where they are computed to be, so that the view can be held while
\* they change above it.
PlaceKept == []OffsetsTrue /\ AnchorKept

\* "the ledger view models a single focused row across the whole document"
\* (LedgerView.ts:690-691).  The code does not keep it: a row of another section
\* that is clicked takes the focus of its own register and leaves the first one
\* its own, so no run checks it.
OneFocus == Ledger => Cardinality({i \in Mounted : w.regs[i].focus # None}) <= 1
=============================================================================
