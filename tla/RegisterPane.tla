----------------------------- MODULE RegisterPane -----------------------------
(***************************************************************************)
(* Registers (packages/journals/src/components/Register.ts) in a scroll    *)
(* container, with what they share: the Virtualizer that tells them the    *)
(* pixels in view, the SmoothScroller, and the queue of renders for the    *)
(* next animation frame; and what a host and a user do to one: its rows,   *)
(* filter and options, its selection, focus and keyboard, and its life.    *)
(*                                                                         *)
(* The operators take the page w and the name i of a register and give the *)
(* page afterwards.  Only what a register has asked of a worker last is    *)
(* kept of its requests: the answer to an earlier one is dropped.          *)
(***************************************************************************)
EXTENDS RegisterRows

CONSTANTS
    Viewport,     \* the height of the scroll container
    Overscroll,   \* VirtualizerConfig.overscrollSize
    Capped        \* maxSsrRows

Constructed(opts) ==
    [opts |-> opts, mounted |-> FALSE, from |-> None, rows |-> <<>>,
     filter |-> Normalized(opts.filter), corpus |-> None, matches |-> None, model |-> None,
     selected |-> {}, anchor |-> None, primary |-> None, focus |-> None,
     range |-> None, before |-> 0, after |-> 0, dom |-> <<>>, header |-> None,
     count |-> 0, active |-> None, window |-> None, landing |-> None,
     label |-> [on |-> FALSE, index |-> None, shown |-> None]]

NoVirtualizer ==
    [on |-> FALSE, observed |-> <<>>, visible |-> <<>>, visDirty |-> FALSE,
     scrollDirty |-> TRUE, heightDirty |-> TRUE, tallDirty |-> TRUE,
     top |-> 0, height |-> 0, tall |-> 0, specs |-> [top |-> 0, bottom |-> 0]]

\* A page with no register mounted.
BlankPage(regs, order) ==
    [regs |-> regs, order |-> order, at |-> [i \in DOMAIN regs |-> 0],
     top |-> 0, scrolled |-> FALSE, seen |-> 0, queue |-> <<>>, z |-> NoVirtualizer,
     spring |-> None, told |-> None, threw |-> FALSE]

-----------------------------------------------------------------------------
(* The render queue and the scroll container *)

Render(w, callback) ==
    IF callback \in ToSet(w.queue) THEN w ELSE [w EXCEPT !.queue = Append(@, callback)]

Emit == [do |-> "emit"]
Step == [do |-> "step"]

ElementHeight(element) ==
    CASE element.html.kind = "row" -> RowHeight
      [] element.html.kind = "group" -> GroupHeight
      [] OTHER -> EmptyHeight

SectionHeight(r) ==
    HeaderHeight + r.before + r.after
    + FoldLeft(LAMBDA sum, element : sum + ElementHeight(element), 0, r.dom)

ScrollHeight(w) == FoldLeft(LAMBDA sum, i : sum + SectionHeight(w.regs[i]), 0, w.order)

\* Where the top of a section is in the content.
SectionTop(w, i) ==
    LET before == SelectSeq([k \in DOMAIN w.order |-> k],
                            LAMBDA k : \E j \in DOMAIN w.order : j > k /\ w.order[j] = i)
    IN  FoldLeft(LAMBDA sum, k : sum + SectionHeight(w.regs[w.order[k]]), 0, before)

\* The browser keeps the scroll position within the content, and fires a
\* scroll event when it has moved.
Scrolled(w, top) ==
    LET kept == Max({0, Min({top, ScrollHeight(w) - Viewport})})
    IN  [w EXCEPT !.top = kept, !.scrolled = @ \/ kept # w.top]

-----------------------------------------------------------------------------
(* Virtualizer *)

\* Bug variant: markDOMDirty trusts the ResizeObserver for the scroll height.
DirtyPosition(w) == [w EXCEPT !.z.scrollDirty = TRUE, !.z.heightDirty = TRUE]

\* markDOMDirty.
DirtyDOM(w) ==
    [w EXCEPT !.z.scrollDirty = TRUE, !.z.heightDirty = TRUE, !.z.tallDirty = TRUE]

InstanceChanged(w) == IF w.z.on THEN Render(DirtyDOM(w), Emit) ELSE w

\* getScrollTop, getHeight, getScrollHeight: what is marked dirty is read again.
Measured(w) ==
    LET tall == IF w.z.tallDirty THEN Max({Viewport, ScrollHeight(w)}) ELSE w.z.tall
        height == IF w.z.heightDirty THEN Viewport ELSE w.z.height
    IN  [w EXCEPT
           !.z.tall = tall, !.z.tallDirty = FALSE,
           !.z.height = height, !.z.heightDirty = FALSE,
           !.z.scrollDirty = FALSE,
           !.z.top = IF w.z.scrollDirty THEN Max({0, Min({w.top, tall - height})}) ELSE @]

SpecsOf(w) == WindowAt(w.z.top, w.z.height, w.z.tall, Overscroll)

\* getWindowSpecs: computed once, on the first read.
Specified(w) ==
    IF w.z.on /\ w.z.specs = [top |-> 0, bottom |-> 0]
    THEN Then(Measured(w), LAMBDA m : [m EXCEPT !.z.specs = SpecsOf(m)])
    ELSE w

\* connect, once the virtualizer is set up.
Connected(w, i) ==
    InstanceChanged([w EXCEPT !.z.on = TRUE, !.z.observed = Append(@, i)])

Disconnected(w, i) ==
    InstanceChanged([w EXCEPT
      !.z.observed = SelectSeq(@, LAMBDA j : j # i),
      !.z.visible = SelectSeq(@, LAMBDA j : j # i),
      !.z.visDirty = @ \/ i \in ToSet(w.z.visible)])

-----------------------------------------------------------------------------
(* SmoothScroller *)

Canceled(w) ==
    [w EXCEPT !.spring = None, !.queue = SelectSeq(@, LAMBDA callback : callback # Step)]

\* scrollTo: an instant jump, or a spring that is set off or retargeted.
ScrollTo(w, target, smooth) ==
    IF ~smooth THEN InstanceChanged(Scrolled(Canceled(w), target))
    ELSE IF w.spring # None THEN [w EXCEPT !.spring.target = target]
    ELSE Render([w EXCEPT !.spring = [target |-> target, begun |-> FALSE]], Step)

\* step: the spring has not moved on its first frame; then it is somewhere
\* nearer its target, or there.
SpringAt(w, glide) ==
    IF ~w.spring.begun THEN w.top
    ELSE IF glide THEN (w.top + w.spring.target) \div 2
    ELSE w.spring.target

Stepped(w, glide) ==
    IF w.spring = None THEN w
    ELSE LET at == SpringAt(w, glide)
             moved == InstanceChanged(Scrolled(w, at))
         IN  IF at = w.spring.target THEN Canceled(moved)
             ELSE Render([moved EXCEPT !.spring.begun = TRUE], Step)

-----------------------------------------------------------------------------
(* What a register shows *)

Labelled(r) == r.opts.by # "none" /\ r.opts.sticky

\* ensureStickyGroupElement.
LabelEnsured(w, i) ==
    [w EXCEPT !.regs[i].label =
       IF Labelled(w.regs[i]) THEN [@ EXCEPT !.on = TRUE]
       ELSE [on |-> FALSE, index |-> None, shown |-> None]]

\* updateStickyGroupLabel: the group of the row under the header, once its own
\* header has begun to scroll away.
LabelUpdated(w, i) ==
    LET r == w.regs[i]
        seam == w.top - w.at[i]
        row == IF r.model = None THEN 0 ELSE RowAtOffset(r.model, seam)
        group == GroupOf(r.model, row)
        hidden == [r.label EXCEPT !.index = None, !.shown = None]
        next ==
          IF r.model = None \/ seam <= 0 \/ row = 0 THEN hidden
          ELSE IF seam <= Offset(r.model, group - 1) THEN hidden
          ELSE IF group = r.label.index THEN r.label
          ELSE IF r.model[group].kind # "group" THEN hidden
          ELSE [r.label EXCEPT !.index = group, !.shown = r.model[group].group]
    IN  IF r.label.on THEN [w EXCEPT !.regs[i].label = next] ELSE w

\* A change of the rows: the label is derived anew.
LabelAnew(w, i) == LabelUpdated([w EXCEPT !.regs[i].label.index = None], i)

\* updateGridAttributes.
GridUpdated(w, i) ==
    LET r == w.regs[i]
    IN  IF ~r.mounted THEN w
        ELSE [w EXCEPT !.regs[i].count =
                IF r.model = None THEN Len(r.rows) ELSE Len(r.model)]

\* getRowElement: the element of an entry, or 0.
RowElement(r, index) ==
    LET at == {k \in DOMAIN r.dom : r.dom[k].html.kind = "row" /\ r.dom[k].html.key = <<index>>}
    IN  IF index = None \/ at = {} THEN 0 ELSE Min(at)

\* updateActiveDescendant.
ActiveUpdated(r) ==
    IF ~r.mounted THEN r
    ELSE [r EXCEPT !.active = IF RowElement(r, r.focus) # 0 THEN r.focus ELSE None]

FocusMarked(r, index, on) ==
    LET k == RowElement(r, index)
    IN  IF k = 0 THEN r ELSE [r EXCEPT !.dom[k].focused = on]

\* patchFocusAttributes.
FocusPatched(r) == ActiveUpdated(FocusMarked(r, r.focus, TRUE))

\* patchSelectionAttributes: the rows whose selection has changed.
SelectionPatched(r, previous) ==
    LET patched(element) ==
          /\ element.html.kind = "row"
          /\ (element.html.key[1] \in previous) # (element.html.key[1] \in r.selected)
    IN  [r EXCEPT !.dom =
           [k \in DOMAIN @ |->
              IF patched(@[k])
              THEN [@[k] EXCEPT !.html.selected = r.dom[k].html.key[1] \in r.selected]
              ELSE @[k]]]

-----------------------------------------------------------------------------
(* The window *)

\* getRowWindow.
RowWindow(w, i, specs) ==
    LET r == w.regs[i]
        bodyTop == w.at[i] + HeaderHeight
    IN  IF r.model = None THEN FlatWindow(specs, bodyTop, Len(r.rows))
        ELSE ModelWindow(specs, bodyTop, r.model)

\* renderWindowHTMLSync; None when it throws.
SyncHTML(r, range) ==
    IF r.model = None THEN RowsHTML(r.rows, range, r.selected)
    ELSE IF range.end > Len(r.model) THEN None
    ELSE ModelHTML(r.model, range, r.selected, r.filter)

\* Bug variant: new rows go into the document without the mark of the focus.
CommittedOnly(w, i, html) ==
    IF html = None THEN [w EXCEPT !.threw = TRUE]
    ELSE [w EXCEPT !.regs[i].dom = CommitRows(@, html)]

\* Rows go into the document, and the row in focus is marked again.
Committed(w, i, html) ==
    IF html = None THEN [w EXCEPT !.threw = TRUE]
    ELSE [w EXCEPT !.regs[i] =
            FocusPatched([@ EXCEPT !.dom = CommitRows(w.regs[i].dom, html)])]

\* The windowRenderVersion is bumped: what is on its way will not be shown.
Bumped(w, i) == [w EXCEPT !.regs[i].window = None, !.regs[i].landing = None]

\* Spacer heights.  A negative height is not one, and leaves the old.
Spaced(r, range) ==
    LET after == (Len(r.rows) - range.end) * RowHeight
    IN  IF r.model = None
        THEN [r EXCEPT !.range = range, !.before = range.start * RowHeight,
                       !.after = IF after < 0 THEN @ ELSE after]
        ELSE [r EXCEPT !.range = range, !.before = Offset(r.model, range.start),
                       !.after = Offset(r.model, Len(r.model)) - Offset(r.model, range.end)]

\* Bug variant: a window on its way survives an empty register.
EmptyWindowKept(w, i) ==
    [w EXCEPT !.regs[i].dom = Fresh(<<EmptyHTML>>)]

\* An empty register shows its label, in place of any rows asked for.
EmptyShown(w, i) == [Bumped(w, i) EXCEPT !.regs[i].dom = Fresh(<<EmptyHTML>>)]

\* A worker is asked for the window: it writes it from the rows.
WindowAsked(w, i) ==
    LET r == w.regs[i]
    IN  [Bumped(w, i) EXCEPT !.regs[i].window =
           [html |-> WindowHTML(r.rows, r.range, r.selected, r.opts.by, r.filter),
            range |-> r.range]]

\* applyWindow: the spacers at once; the rows at once, or by a worker.
WindowApplied(w, i, range) ==
    LET spaced == [w EXCEPT !.regs[i] = Spaced(@, range)]
    IN  IF ~w.regs[i].mounted THEN w
        ELSE IF w.regs[i].rows = <<>> THEN EmptyShown(spaced, i)
        ELSE IF ~w.regs[i].opts.pooled
        THEN Committed(spaced, i, SyncHTML(w.regs[i], range))
        ELSE WindowAsked(spaced, i)

Windowed(w, i) ==
    Then(Specified(w), LAMBDA s : WindowApplied(s, i, RowWindow(s, i, s.z.specs)))

\* The answer of a worker: the rows go into the document in the next frame.
Answered(w, i) ==
    LET r == w.regs[i]
    IN  IF ~r.mounted THEN [w EXCEPT !.regs[i].window = None]
        ELSE Render([w EXCEPT !.regs[i] = [r EXCEPT !.window = None, !.landing = r.window.html]],
                    [do |-> "commit", reg |-> i])

\* A late answer, if it is still the one that is wanted.
Landed(w, i) ==
    LET html == w.regs[i].landing
    IN  IF ~w.regs[i].mounted \/ html = None THEN w
        ELSE Committed([w EXCEPT !.regs[i].landing = None], i, html)

\* A worker fails: the window is drawn here.
Rejected(w, i) ==
    LET rejected == [w EXCEPT !.regs[i].window = None]
    IN  IF ~w.regs[i].mounted THEN rejected
        ELSE Committed(rejected, i, SyncHTML(w.regs[i], w.regs[i].window.range))

\* onRender.
Shown(w, i, specs) ==
    Then(LabelUpdated(w, i), LAMBDA l :
      Then(RowWindow(l, i, specs), LAMBDA range :
        IF l.regs[i].range = range THEN [page |-> l, changed |-> FALSE]
        ELSE [page |-> WindowApplied(l, i, range), changed |-> TRUE]))

-----------------------------------------------------------------------------
(* Frames *)

\* The instances are told of the window one after the other; one that throws
\* ends the pass.
Told(pass, i) ==
    IF pass.page.threw THEN pass
    ELSE Then(Shown(pass.page, i, pass.page.z.specs), LAMBDA s :
           [page |-> s.page, changed |-> pass.changed \/ s.changed])

\* computeRenderRangeAndEmit.
Emitted(w) ==
    LET wrapper == w.z.heightDirty \/ w.z.tallDirty
    IN  IF ~(w.z.scrollDirty \/ wrapper \/ w.z.visDirty) THEN w
        ELSE Then(Measured(w), LAMBDA m :
               IF ~wrapper /\ ~w.z.visDirty /\ SpecsOf(m) = w.z.specs THEN m
               ELSE Then(FoldLeft(Told,
                           [page |-> [m EXCEPT !.z.specs = SpecsOf(m), !.z.visDirty = FALSE],
                            changed |-> FALSE],
                           IF wrapper THEN w.z.observed ELSE w.z.visible), LAMBDA pass :
                      IF pass.changed /\ ~pass.page.threw THEN InstanceChanged(pass.page)
                      ELSE pass.page))

Run(w, callback, glide) ==
    CASE callback.do = "emit" -> Emitted(w)
      [] callback.do = "step" -> Stepped(w, glide)
      [] OTHER -> Landed(w, callback.reg)

\* handleScroll.
ScrollHandled(w) ==
    IF w.scrolled THEN Render([w EXCEPT !.scrolled = FALSE, !.z.scrollDirty = TRUE], Emit) ELSE w

\* render: what the callbacks queue waits for the next frame.
CallbacksRun(w, glide) ==
    FoldLeft(LAMBDA p, callback : Run(p, callback, glide), [w EXCEPT !.queue = <<>>], w.queue)

\* handleContainerResize, for the content.
ResizeHandled(w) ==
    IF w.z.on /\ w.seen # ScrollHeight(w)
    THEN Render([w EXCEPT !.seen = ScrollHeight(w), !.z.tallDirty = TRUE], Emit)
    ELSE w

\* A frame of the browser: the scroll event, the callbacks, and once the layout is
\* known the new height of the content.
FrameRun(w, glide) ==
    Then(ScrollHandled(w), LAMBDA s :
      Then(CallbacksRun(s, glide), LAMBDA c :
        Then(Scrolled(c, c.top), LAMBDA p : ResizeHandled(p))))

\* handleIntersectionChange, for one section.
IntersectionHandled(w, i, in) ==
    Render([w EXCEPT !.z.scrollDirty = TRUE, !.z.visDirty = TRUE,
                     !.z.visible = IF in THEN Append(@, i) ELSE SelectSeq(@, LAMBDA j : j # i)],
           Emit)

-----------------------------------------------------------------------------
(* Rows, filter and options *)

\* rebuildRowModel and rebuildModelIndexes.  The corpus is built once and kept.
Rebuilt(r) ==
    LET corpus == IF r.corpus = None THEN Corpus(r.rows) ELSE r.corpus
        matches == Matches(r.rows, r.filter, corpus)
    IN  IF r.filter # None /\ r.rows # <<>>
        THEN [r EXCEPT !.corpus = corpus, !.matches = matches,
                       !.model = FilteredModel(r.rows, r.opts.by, matches)]
        ELSE [r EXCEPT !.matches = None,
                       !.model = IF r.opts.by = "none" \/ r.rows = <<>> THEN None
                                 ELSE RowModel(r.rows, r.opts.by)]

\* getNavigablePosition, getEntryIndexAtNavigablePosition, getNavigableRowCount:
\* the places of the rows the keyboard can reach; 0 is none.
Position(r, index) ==
    IF r.matches = None THEN index
    ELSE IF index \in ToSet(r.matches) THEN CHOOSE p \in DOMAIN r.matches : r.matches[p] = index
    ELSE 0

EntryAt(r, position) == IF r.matches = None THEN position ELSE r.matches[position]

Reachable(r) == IF r.matches = None THEN Len(r.rows) ELSE Len(r.matches)

\* reprojectRows: a focus the filter hides goes.
Reprojected(w, i) ==
    LET rebuilt == [Rebuilt(w.regs[i]) EXCEPT !.range = None]
        hidden == rebuilt.focus # None /\ Position(rebuilt, rebuilt.focus) = 0
        kept == IF hidden
                THEN [FocusMarked(rebuilt, rebuilt.focus, FALSE) EXCEPT !.focus = None]
                ELSE rebuilt
    IN  Then(Windowed(GridUpdated([w EXCEPT !.regs[i] = kept], i), i), LAMBDA p :
          IF p.threw THEN p ELSE InstanceChanged(LabelAnew(p, i)))

\* setFilter.
SetFilter(w, i, filter) ==
    Reprojected([w EXCEPT !.regs[i].filter = Normalized(filter)], i)

\* setOptions: the rows are projected anew when the groups or the filter change.
SetOptions(w, i, opts) ==
    LET r == w.regs[i]
        filtered == opts.filter # r.opts.filter
        changed == filtered \/ (opts.by # r.opts.by /\ r.rows # <<>>)
        given == [w EXCEPT
          !.regs[i].opts = opts,
          !.regs[i].filter = IF filtered THEN Normalized(opts.filter) ELSE @]
    IN  IF opts = r.opts THEN w
        ELSE Then(IF changed THEN Reprojected(given, i) ELSE given, LAMBDA p :
               IF p.threw THEN p
               ELSE GridUpdated(LabelUpdated(LabelEnsured(p, i), i), i))

\* The focus stays within the rows, and on one the filter shows.
FocusClamped(r) ==
    LET last == IF r.rows = <<>> THEN None ELSE Len(r.rows)
        clamped == IF r.focus # None /\ r.focus > Len(r.rows) THEN last ELSE r.focus
    IN  [r EXCEPT !.focus =
           IF clamped # None /\ Position(r, clamped) = 0 THEN None ELSE clamped]

RowsTaken(r, from, rows) ==
    FocusClamped([Rebuilt([r EXCEPT !.from = from, !.rows = rows, !.corpus = None])
                  EXCEPT !.range = None])

\* setRows: nothing for the rows it already has.
SetRows(w, i, from, rows) ==
    LET r == RowsTaken(w.regs[i], from, rows)
        headed == IF r.mounted THEN [r EXCEPT !.header = FinalBalances(rows)] ELSE r
    IN  IF from = w.regs[i].from THEN w
        ELSE Then(Windowed(GridUpdated([w EXCEPT !.regs[i] = headed], i), i), LAMBDA p :
               IF p.threw THEN p ELSE InstanceChanged(LabelAnew(p, i)))

-----------------------------------------------------------------------------
(* Life *)

\* createSectionElement and adoptSection.
Adopted(w, i, dom) ==
    GridUpdated(LabelEnsured([w EXCEPT !.regs[i].mounted = TRUE, !.regs[i].dom = dom,
                                       !.regs[i].label.index = None], i), i)

\* render.
Rendered(w, i, from, rows) ==
    SetRows(IF w.regs[i].mounted THEN w ELSE Connected(Adopted(w, i, <<>>), i), i, from, rows)

\* mountSection, then setRows: a section of a shared container.
SectionMounted(w, i, from, rows) ==
    SetRows(Connected(Adopted(w, i, <<>>), i), i, from, rows)

\* hydrate, and hydrateSection: the rows the server wrote are kept until the
\* first window.
Hydrated(w, i, from, rows) ==
    LET r == w.regs[i]
        dom == Fresh(ServerHTML(rows, r.opts.by, r.filter, Capped))
        taken == Rebuilt([r EXCEPT !.from = from, !.rows = rows,
                                   !.header = FinalBalances(rows)])
    IN  Connected(Adopted([w EXCEPT !.regs[i] = taken], i, dom), i)

\* cleanUp.  A virtualizer of its own goes with the register; so does its
\* smooth scroller.
CleanedUp(w, i, owned) ==
    LET off == IF owned THEN [w EXCEPT !.z = NoVirtualizer,
                                       !.queue = SelectSeq(@, LAMBDA callback : callback # Emit)]
               ELSE Disconnected(w, i)
        gone == [Constructed(w.regs[i].opts) EXCEPT !.filter = w.regs[i].filter,
                                                    !.window = w.regs[i].window,
                                                    !.landing = w.regs[i].landing]
    IN  [IF owned THEN Canceled(off) ELSE off EXCEPT !.regs[i] = gone]

-----------------------------------------------------------------------------
(* Scrolling to a row *)

\* computeRowScrollTop: where to scroll, or None.
RowScrollTop(w, i, index, align) ==
    LET r == w.regs[i]
        before == IF r.model = None THEN (index - 1) * RowHeight
                  ELSE Offset(r.model, ModelIndex(r.model, index) - 1)
        rowTop == w.at[i] + HeaderHeight + before
        target ==
          CASE align = "start" -> rowTop - HeaderHeight
            [] align = "center" -> rowTop + RowHeight \div 2 - Viewport \div 2
            [] OTHER -> IF rowTop < w.top + HeaderHeight THEN rowTop - HeaderHeight
                        ELSE rowTop + RowHeight - Viewport
        inView == rowTop >= w.top + HeaderHeight /\ rowTop + RowHeight <= w.top + Viewport
    IN  IF align = "nearest" /\ inView THEN None
        ELSE Max({0, Min({target, ScrollHeight(w) - Viewport})})

\* scrollToRow.
ScrolledToRow(w, i, index, align, smooth) ==
    LET r == w.regs[i]
        target == RowScrollTop(w, i, index, align)
    IN  IF ~r.mounted \/ index \notin DOMAIN r.rows \/ Position(r, index) = 0 \/ target = None
        THEN w
        ELSE ScrollTo(w, target, smooth)

\* scrollToDate.
ScrolledToDate(w, i, date, align) ==
    LET index == FirstRowOnOrAfter(w.regs[i].rows, date)
    IN  IF index = None THEN w ELSE ScrolledToRow(w, i, index, align, FALSE)

-----------------------------------------------------------------------------
(* Focus and selection *)

\* setFocusedIndex.
Focused(w, i, index, reveal) ==
    LET r == w.regs[i]
        left == IF r.focus # index THEN FocusMarked(r, r.focus, FALSE) ELSE r
        moved == [w EXCEPT !.regs[i] = [left EXCEPT !.focus = index]]
    IN  Then(IF reveal /\ index # None THEN ScrolledToRow(moved, i, index, "nearest", FALSE)
             ELSE moved, LAMBDA p :
          [p EXCEPT !.regs[i] = ActiveUpdated(FocusMarked(@, index, TRUE))])

\* focusRow.
FocusRow(w, i, index) ==
    LET r == w.regs[i]
    IN  IF index # None /\ (index \notin DOMAIN r.rows \/ Position(r, index) = 0) THEN w
        ELSE Focused(w, i, index, TRUE)

Select(w, i, selected, anchor, primary) ==
    LET r == w.regs[i]
    IN  [w EXCEPT !.regs[i] =
           SelectionPatched([r EXCEPT !.selected = selected, !.anchor = anchor,
                                      !.primary = primary], r.selected)]

\* setSelectedRow.
SetSelectedRow(w, i, index) ==
    LET r == w.regs[i]
    IN  IF index = None THEN Select(w, i, {}, None, None)
        ELSE IF r.selected = {index} /\ r.primary = index THEN w
        ELSE Select(w, i, {index}, index, index)

\* handleRowSelect: a plain click, an extension from the anchor, a toggle.
RowSelected(w, i, index, shift, meta) ==
    LET r == w.regs[i]
        focused == Focused(w, i, index, FALSE)
        low == Min({r.anchor, index})
        high == Max({r.anchor, index})
        toggled == IF index \in r.selected THEN r.selected \ {index} ELSE r.selected \cup {index}
        anchor == IF index \notin r.selected THEN index
                  ELSE IF r.anchor = index THEN None ELSE r.anchor
        next == IF r.opts.mode = "single" THEN SetSelectedRow(focused, i, index)
                ELSE IF shift /\ r.anchor # None
                     THEN Select(focused, i, low .. high, r.anchor, index)
                ELSE IF meta THEN Select(focused, i, toggled, anchor, index)
                ELSE Select(focused, i, {index}, index, index)
    IN  IF index \notin DOMAIN r.rows THEN w ELSE [next EXCEPT !.told = i]

\* selectAllRows.
AllSelected(w, i) ==
    LET r == w.regs[i]
        anchor == IF r.anchor # None THEN r.anchor ELSE EntryAt(r, 1)
    IN  Select(w, i, {EntryAt(r, p) : p \in 1 .. Reachable(r)}, anchor, r.primary)

-----------------------------------------------------------------------------
(* The keyboard *)

\* getPageSize.
PageSize == Max({1, Floor(Viewport - HeaderHeight, RowHeight)})

Movements == {"ArrowDown", "ArrowUp", "Home", "End", "PageDown", "PageUp"}

\* The place a movement key goes to from base, where 0 is no place.
MovedTo(key, base, count) ==
    LET down == base
        up == IF base = 0 THEN count + 1 ELSE base
    IN  CASE key = "ArrowDown" -> Min({count, down + 1})
          [] key = "ArrowUp" -> Max({1, up - 1})
          [] key = "Home" -> 1
          [] key = "End" -> count
          [] key = "PageDown" -> Min({count, down + PageSize})
          [] OTHER -> Max({1, up - PageSize})

\* A movement key: at the edge of the register the host may take the focus, which
\* leads to the page that `boundary` has for the direction, or to None.
Move(w, i, key, shift, boundary) ==
    LET r == w.regs[i]
        count == Reachable(r)
        entry == IF r.focus # None THEN r.focus ELSE r.primary
        base == IF entry = None THEN 0 ELSE Position(r, entry)
        edge == ~shift /\ base # 0
                /\ ((key = "ArrowDown" /\ base >= count) \/ (key = "ArrowUp" /\ base <= 1))
        handed == boundary[IF key = "ArrowDown" THEN 1 ELSE -1]
        index == EntryAt(r, MovedTo(key, base, count))
        moved == Focused(w, i, index, TRUE)
    IN  IF edge /\ handed # None THEN Focused(handed, i, None, TRUE)
        ELSE IF shift /\ r.opts.mode = "range" /\ key \in {"ArrowDown", "ArrowUp"}
        THEN Then(moved, LAMBDA p : RowSelected(p, i, index, TRUE, FALSE))
        ELSE moved

\* handleKeyDown, and the listener of a running scroll, which a key that
\* scrolls stops.
Pressed(w, i, key, shift, meta, boundary) ==
    LET r == w.regs[i]
        handled ==
          IF ~r.opts.keys \/ Reachable(r) = 0 THEN w
          ELSE IF meta /\ key = "a"
          THEN IF r.opts.mode = "range" THEN AllSelected(w, i) ELSE w
          ELSE IF key = "Escape"
          THEN IF r.selected = {} THEN w ELSE Select(w, i, {}, None, None)
          ELSE IF key = "Enter"
          THEN IF r.focus = None THEN w ELSE RowSelected(w, i, r.focus, FALSE, FALSE)
          ELSE IF key \in Movements THEN Move(w, i, key, shift, boundary)
          ELSE w
    IN  IF key \in Movements THEN Canceled(handled) ELSE handled
=============================================================================
