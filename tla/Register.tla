------------------------------- MODULE Register -------------------------------
(***************************************************************************)
(* A Register in a scroll container of its own: the calls of its host, the *)
(* gestures of its user, the workers it asks for windows, and the browser, *)
(* which runs a frame and tells of what is in view some time after.        *)
(***************************************************************************)
EXTENDS RegisterPane

CONSTANTS
    Options,      \* the options a register is constructed with, or given
    Data,         \* row arrays, by name
    Filters,      \* filters set
    Indices,      \* rows the host names
    Tops,         \* where the user scrolls to
    Aligns,       \* how a row is scrolled to
    Keys,         \* keys pressed, as <<key, shift, meta>>
    MaxGestures   \* calls and gestures

VARIABLES
    w,            \* the page
    gestures

registerVars == <<w, gestures>>

ASSUME PixelsAssumption ==
    /\ {RowHeight, GroupHeight, HeaderHeight, EmptyHeight, Viewport} \subseteq Nat \ {0}
    /\ {OverscanRows, Overscroll, Capped} \subseteq Nat
    /\ None \notin Nat

R == w.regs[1]

Mounted == {i \in DOMAIN w.regs : w.regs[i].mounted}

RegisterInit ==
    /\ w \in {BlankPage(<<Constructed(opts)>>, <<1>>) : opts \in Options}
    /\ gestures = 0

\* A call of the host or a gesture of the user.
Do(pages) ==
    /\ ~w.threw
    /\ gestures < MaxGestures
    /\ gestures' = gestures + 1
    /\ \E page \in pages : w' = [Scrolled(page, page.top) EXCEPT !.told = None]

-----------------------------------------------------------------------------
(* The host *)

Mount ==
    /\ ~R.mounted
    /\ Do({Rendered(w, 1, from, Data[from]) : from \in DOMAIN Data}
          \cup {Hydrated(w, 1, from, Data[from]) : from \in DOMAIN Data})

\* A host keeps the pool it has given: a register that loses it while a window
\* is under way lets the answer overwrite what it has drawn since.
Give ==
    /\ R.mounted
    /\ \/ Do({SetRows(w, 1, from, Data[from]) : from \in DOMAIN Data \ {R.from}})
       \/ Do({SetFilter(w, 1, filter) : filter \in Filters})
       \/ Do({SetOptions(w, 1, opts) :
                opts \in {opts \in Options \ {R.opts} : opts.pooled = R.opts.pooled}})

CleanUp == R.mounted /\ Do({CleanedUp(w, 1, TRUE)})

Point ==
    /\ R.mounted
    /\ \/ Do({SetSelectedRow(w, 1, index) : index \in (Indices \cap DOMAIN R.rows) \cup {None}})
       \/ Do({FocusRow(w, 1, index) : index \in (Indices \cap DOMAIN R.rows) \cup {None}})
       \/ \E index \in Indices \cap DOMAIN R.rows, align \in Aligns, smooth \in BOOLEAN :
            Do({ScrolledToRow(w, 1, index, align, smooth)})
       \/ \E month \in {r.date[2] : r \in ToSet(R.rows)} :
            Do({ScrolledToDate(w, 1, <<1, month, 1>>, "start")})

-----------------------------------------------------------------------------
(* The user *)

\* A row of the document is clicked; a pointer that goes down stops a scroll.
Click ==
    \E i \in Mounted, shift, meta \in BOOLEAN :
      \E k \in {k \in DOMAIN w.regs[i].dom : w.regs[i].dom[k].html.kind = "row"} :
        \* a row need not be one the register still has
        Do({RowSelected(Canceled(w), i, w.regs[i].dom[k].html.key[1], shift, meta)})

NoBoundary == [direction \in {-1, 1} |-> None]

Type ==
    \E key \in Keys :
      R.mounted /\ Do({Pressed(w, 1, key[1], key[2], key[3], NoBoundary)})

\* The user scrolls what the browser has laid out.
Scroll ==
    /\ Mounted # {} /\ w.seen = ScrollHeight(w)
    /\ Do({Scrolled(Canceled(w), top) : top \in Tops \ {w.top}})

-----------------------------------------------------------------------------
(* The browser and the workers *)

Later(page) == /\ ~w.threw
               /\ w' = Scrolled(page, page.top)
               /\ UNCHANGED gestures

FrameDue == w.queue # <<>> \/ w.scrolled \/ (w.z.on /\ w.seen # ScrollHeight(w))

Frame == FrameDue /\ \E glide \in (IF w.spring = None THEN {FALSE} ELSE BOOLEAN) :
                       Later(FrameRun(w, glide))

\* Whether a section is within the margin of the viewport that is observed.
InView(i) ==
    LET top == SectionTop(w, i)
    IN  /\ top <= w.top + Viewport + 4 * Overscroll
        /\ top + SectionHeight(w.regs[i]) >= w.top - 4 * Overscroll

Intersect ==
    \E i \in ToSet(w.z.observed) :
      /\ InView(i) # (i \in ToSet(w.z.visible))
      /\ Later(IntersectionHandled(w, i, InView(i)))

Answer ==
    \E i \in DOMAIN w.regs :
      /\ w.regs[i].window # None
      /\ \/ w.regs[i].window.html # None /\ Later(Answered(w, i))
         \/ Later(Rejected(w, i))

Browser == Frame \/ Intersect \/ Answer

RegisterNext == Mount \/ Give \/ CleanUp \/ Point \/ Click \/ Type \/ Scroll \/ Browser

RegisterSpec == RegisterInit /\ [][RegisterNext]_registerVars /\ WF_registerVars(Browser)

-----------------------------------------------------------------------------
(* Properties *)

\* The fields of the page and of its registers.
PageTypeOK ==
    /\ {w.top, w.seen, w.z.top, w.z.height} \subseteq Nat /\ w.scrolled \in BOOLEAN
    /\ ToSet(w.order) \cup ToSet(w.z.observed) \subseteq DOMAIN w.regs
    /\ ToSet(w.z.visible) \subseteq ToSet(w.z.observed)
    /\ \A i \in DOMAIN w.regs :
         LET r == w.regs[i]
         IN  /\ r.filter \in {None} \cup {Normalized(f) : f \in Filters}
             /\ r.selected \cup {r.primary, r.focus} \subseteq {None} \cup Nat
             /\ r.range # None => r.range.start \in Nat /\ r.range.start <= r.range.end
             /\ r.before \in Nat /\ r.after \in Nat
    /\ gestures \in 0 .. MaxGestures

\* Nothing of register i is under way: it has drawn its window, and no window
\* is being written by a worker.
Drawn(i) ==
    /\ w.regs[i].mounted /\ w.regs[i].range # None
    /\ w.regs[i].window = None /\ w.regs[i].landing = None

Unselected(html) ==
    [k \in DOMAIN html |-> IF html[k].kind = "row" THEN [html[k] EXCEPT !.selected = FALSE]
                           ELSE html[k]]

\* What the rows, the groups and the filter of a register make of a range.
Expected(r) ==
    IF r.rows = <<>> THEN <<EmptyHTML>>
    ELSE WindowHTML(r.rows, r.range, r.selected, r.opts.by, r.filter)

\* The rows in the document are those of the range drawn last, written from
\* the rows, the groups, the filter and the selection there are now: no late
\* window of a worker, no row kept by its key and no patch of a row leaves
\* another.  A window that a worker writes is about the selection there was
\* when it was asked for.
RowsDrawn ==
    \A i \in Mounted :
      LET html == [k \in DOMAIN w.regs[i].dom |-> w.regs[i].dom[k].html]
          expected == Expected(w.regs[i])
      IN  Drawn(i) => IF w.regs[i].opts.pooled THEN Unselected(html) = Unselected(expected)
                      ELSE html = expected

\* The height of the rows a register shows, from its rows alone.
BodyHeight(r) ==
    LET model == FilteredModel(r.rows, r.opts.by,
                   IF r.filter = None THEN [k \in DOMAIN r.rows |-> k]
                   ELSE Matches(r.rows, r.filter, Corpus(r.rows)))
    IN  Offset(model, Len(model))

\* Nothing is left for the browser to do.
Quiet ==
    /\ ~FrameDue
    /\ \A i \in ToSet(w.z.observed) : InView(i) = (i \in ToSet(w.z.visible))
    /\ \A i \in DOMAIN w.regs : w.regs[i].window = None

\* Once the browser is done there is no blank space in the viewport: rows
\* cover the part of it that is in the body of a register.
NoBlank ==
    Quiet => \A i \in Mounted :
      LET r == w.regs[i]
          body == SectionTop(w, i) + HeaderHeight
          first == Max({w.top, body})
          last == Min({w.top + Viewport, body + BodyHeight(r)})
          size == FoldLeft(LAMBDA sum, element : sum + ElementHeight(element), 0, r.dom)
      IN  r.rows # <<>> /\ first < last =>
            body + r.before <= first /\ body + r.before + size >= last

\* What the user sees of a register is all there is to see, and is of now.
PageDrawn == PageTypeOK /\ RowsDrawn /\ NoBlank

\* The row named to assistive technology is in the document and is the one
\* that has the focus, and no other is marked; an empty register is left out,
\* which forgets to say that the row is gone.
FocusHonest ==
    \A i \in Mounted :
      LET r == w.regs[i]
          marked == {k \in DOMAIN r.dom : r.dom[k].focused}
      IN  Drawn(i) =>
            /\ marked = {RowElement(r, r.focus)} \ {0}
            /\ r.rows # <<>> => r.active = IF RowElement(r, r.focus) # 0 THEN r.focus ELSE None

\* The renderer is never asked for rows beyond the last: a window that misses
\* the register is empty ("Returns an empty range (start === end)",
\* computeRowWindow.ts:15).  The code does not keep it: a window that begins past
\* the last row by more than the overscan ends where it begins, behind the last row,
\* while its start is cut back to that row, so no run checks it.
WindowWithinRows ==
    \A i \in Mounted :
      w.regs[i].range # None /\ w.regs[i].model = None =>
        w.regs[i].range.end <= Len(w.regs[i].rows)
=============================================================================
