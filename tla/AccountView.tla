----------------------------- MODULE AccountView -----------------------------
(***************************************************************************)
(* AccountTree (packages/accounts/src/render/AccountTree.ts): the view of  *)
(* an AccountTreeController.  It keeps a window of rows in the document,   *)
(* which it rewrites or patches when the controller tells it of a change,  *)
(* and it owns the drag, context menu and rename sessions of the user.     *)
(*                                                                         *)
(* An event handler is one step, with what the controller's listener does  *)
(* in between.  Heights count rows.                                        *)
(* The document is the sequence v.dom of the rows in it, each with what    *)
(* its attributes say.  A scroll event is fired by the browser after the   *)
(* scroll position has changed.                                            *)
(***************************************************************************)
EXTENDS AccountController

CONSTANTS
    Height,      \* the rows that fit in the viewport
    Overscan,    \* the rows rendered beyond it
    StackMax,    \* STICKY_ANCESTOR_STACK_MAX
    Stacked,     \* stickyAncestors is 'stack'
    Collision,   \* dropCollision
    Keys,        \* the keys pressed
    Preload      \* the rows the server renders: initialWindowRows

VARIABLE v       \* the view

viewVars == <<c, fetches, gestures, v>>

Unmounted ==
    [mounted |-> FALSE, top |-> 0, scrolled |-> FALSE, range |-> None, dom |-> <<>>,
     active |-> 0, sticky |-> <<>>, drag |-> None, target |-> None, timer |-> None,
     menu |-> None, opened |-> 0, click |-> None, report |-> None]

-----------------------------------------------------------------------------
(* What is drawn *)

\* getVisibleRange: the rows start + 1 .. end.
VisibleRange(count, top, overscan) ==
    LET start == Min({count, Max({0, top - overscan})})
    IN  IF count = 0 THEN [start |-> 0, end |-> 0]
        ELSE [start |-> start,
              end |-> Max({start, Min({count, top + Height + overscan})})]

\* getRows: a row with what the controller knows of its account.
RowData(d, row) ==
    LET live == ~row.placeholder
    IN  [path |-> row.path, placeholder |-> row.placeholder,
         open |-> live /\ IsExpanded(d.store, row.path),
         status |-> IF live THEN EffectiveStatus(d, row.path) ELSE None,
         match |-> live /\ row.path \in d.matches,
         selected |-> live /\ row.path \in d.selection,
         focused |-> live /\ row.path = d.focus]

\* renderAccountRowHTML.
DrawnRow(d, row, i) ==
    RowData(d, row) @@ [index |-> i,
                        renaming |-> ~row.placeholder /\ row.path = d.renaming,
                        dragging |-> FALSE, target |-> FALSE]

\* patchDragStates.
DragStates(w) ==
    [w EXCEPT !.dom =
       [i \in DOMAIN @ |->
          LET row == w.dom[i]
              live == ~row.placeholder
          IN  [row EXCEPT
                 !.dragging = live /\ w.drag # None /\ row.path \in ToSet(w.drag),
                 !.target = live /\ row.path = w.target]]]

\* updateActiveDescendant.
ActiveDescendant(w, d) ==
    LET i == IF d.focus = None THEN 0 ELSE PathIndex(d.projection, d.focus)
    IN  [w EXCEPT !.active =
           IF w.range # None /\ i > w.range.start /\ i <= w.range.end THEN i ELSE 0]

\* Bug variant: rows are patched by their place in the window.
PatchedByPlace(w, d) ==
    LET rows == d.projection
    IN  ActiveDescendant(
          [w EXCEPT !.dom =
             [i \in DOMAIN @ |->
                IF @[i].placeholder \/ i \notin DOMAIN rows THEN @[i]
                ELSE [@[i] EXCEPT !.selected = rows[i].path \in d.selection,
                                  !.focused = rows[i].path = d.focus]]], d)

\* patchRowStates, which finds the path of a row by its index.
Patched(w, d) ==
    LET rows == d.projection
    IN  ActiveDescendant(
          [w EXCEPT !.dom =
             [i \in DOMAIN @ |->
                IF @[i].placeholder \/ @[i].index \notin DOMAIN rows THEN @[i]
                ELSE LET path == rows[@[i].index].path
                     IN  [@[i] EXCEPT !.selected = path \in d.selection,
                                      !.focused = path = d.focus]]], d)

\* The browser keeps the scroll position within the content.
Clamped(w, count, top) ==
    LET kept == Max({0, Min({top, count - Height})})
    IN  [w EXCEPT !.top = kept, !.scrolled = @ \/ kept # w.top]

\* applyWindow.
Window(w, d, range, force) ==
    LET rows == d.projection
        written == [w EXCEPT
          !.range = range,
          !.dom = [i \in 1 .. range.end - range.start |->
                     DrawnRow(d, rows[range.start + i], range.start + i)]]
    IN  IF ~w.mounted \/ (~force /\ w.range = range) THEN w
        ELSE Clamped(DragStates(ActiveDescendant(written, d)), Len(rows), w.top)

\* updateStickyHeader: mirrors of the rows above the viewport that lead to its
\* first row; the group of a placeholder counts as one of them.
StickyHeader(w, d) ==
    LET rows == d.projection
        first == rows[Min({w.top + 1, Len(rows)})]
        above == {p \in Lineage(first.path) :
                    /\ p # first.path \/ first.placeholder
                    /\ PathIndex(rows, p) # 0}
        chain == SetToSortSeq(above, LAMBDA p, q : Len(p) < Len(q))
        kept == IF Stacked THEN StackMax ELSE 1
    IN  IF ~w.mounted THEN w
        ELSE [w EXCEPT !.sticky =
                IF w.top = 0 \/ rows = <<>> THEN <<>>
                ELSE SubSeq(chain, Max({1, Len(chain) - kept + 1}), Len(chain))]

ComputeRange(w, d) == VisibleRange(Len(d.projection), w.top, Overscan)

Redrawn(w, d, force) == StickyHeader(Window(w, d, ComputeRange(w, d), force), d)

\* handleControllerChange.
Changed(w, d) ==
    IF ~w.mounted THEN w
    ELSE IF d.told \cap {"expansion", "status", "rename"} # {} THEN Redrawn(w, d, TRUE)
    ELSE IF d.told \cap {"selection", "focus"} # {} THEN Patched(w, d)
    ELSE w

\* Bug variant: the viewport is taken to hold one row more.
ScrolledShort(w, d, i) ==
    IF i = 0 THEN w
    ELSE IF i - 1 < w.top THEN Clamped(w, Len(d.projection), i - 1)
    ELSE IF i > w.top + Height + 1 THEN Clamped(w, Len(d.projection), i - Height)
    ELSE w

\* scrollRowIntoView: below the mirrors that will cover the top.
ScrolledIntoView(w, d, i) ==
    LET rows == d.projection
        above == {p \in Lineage(rows[i].path) \ {rows[i].path} : PathIndex(rows, p) # 0}
        covered == IF Stacked THEN Min({StackMax, Cardinality(above)}) ELSE 0
    IN  IF i = 0 THEN w
        ELSE IF i - 1 < w.top + covered
        THEN Clamped(w, Len(rows), Max({0, i - 1 - covered}))
        ELSE IF i > w.top + Height THEN Clamped(w, Len(rows), i - Height)
        ELSE w

-----------------------------------------------------------------------------
(* Handlers, as functions of the controller s.c and the view s.v *)

Here == [c |-> Read(c), v |-> v]

\* A call of the controller, with what its listener does.
Call(s, d) ==
    Then(Read(d), LAMBDA told : [c |-> told, v |-> Changed(s.v, told)])

\* The end of a handler that scrolls a row into view.
Followed(s, i) ==
    [s EXCEPT !.v = Redrawn(ScrolledIntoView(s.v, s.c, i), s.c, FALSE)]

IndexOf(d, p) == IF p = None THEN 0 ELSE PathIndex(d.projection, p)

\* scrollToPath.
ScrolledToPath(s, p, focus) ==
    LET scrolled(open) == [open EXCEPT !.v = ScrolledIntoView(@, open.c, IndexOf(open.c, p))]
        focused(there) == IF focus THEN Call(there, SetFocusedPath(there.c, p)) ELSE there
        drawn(done) == [done EXCEPT !.v = Redrawn(@, done.c, FALSE)]
    IN  IF p \notin s.c.store.paths THEN s
        ELSE Then(Call(s, RevealPath(s.c, p)),
                  LAMBDA open : IF IndexOf(open.c, p) = 0 THEN open
                                ELSE Then(Then(scrolled(open), focused), drawn))

\* openContextMenu: a row outside the selection becomes it, and an open session
\* is superseded.
MenuOpened(s, p) ==
    LET chosen == IF p \notin s.c.selection THEN Call(s, SelectPath(s.c, p, FALSE, FALSE))
                  ELSE Call(s, SetFocusedPath(s.c, p))
    IN  IF p \notin s.c.store.paths THEN s
        ELSE [chosen EXCEPT !.v.menu = [path |-> p, id |-> s.v.opened + 1],
                            !.v.opened = @ + 1]

\* Bug variant: a session closes whatever menu is open.
MenuClosedLate(s, id, restore) ==
    LET ended == [s EXCEPT !.v.menu = None]
    IN  IF s.v.menu = None THEN s
        ELSE IF restore THEN ScrolledToPath(ended, s.v.menu.path, TRUE) ELSE ended

\* closeContextMenuSession: only the open session closes.
MenuClosed(s, id, restore) ==
    LET ended == [s EXCEPT !.v.menu = None]
    IN  IF s.v.menu = None \/ s.v.menu.id # id THEN s
        ELSE IF restore THEN ScrolledToPath(ended, s.v.menu.path, TRUE) ELSE ended

\* openContextMenuForFocusedRow.
MenuAtFocus(s) ==
    LET i == IndexOf(s.c, s.c.focus)
    IN  IF i = 0 THEN s
        ELSE MenuOpened([s EXCEPT !.v = LET w == ScrolledIntoView(@, s.c, i)
                                        IN  Window(w, s.c, ComputeRange(w, s.c), FALSE)],
                        s.c.focus)

Toggled(s, p) == Call(s, SetExpanded(s.c, p, ~IsExpanded(s.c.store, p)))

\* handleClick on a row that is drawn: on its retry or menu button, its chevron,
\* or elsewhere; `first` is the first click of a pair.
Clicked(s, row, place, first, additive, range) ==
    LET noted == IF first
                 THEN [s EXCEPT !.v.click = [path |-> row.path,
                                             selected |-> row.path \in s.c.selection]]
                 ELSE s
    IN  IF row.placeholder
        THEN IF place = "button" THEN Call(s, RequestChildLoad(s.c, row.path)) ELSE s
        ELSE IF place = "button" THEN MenuOpened(s, row.path)
        ELSE IF place = "chevron" /\ IsGroup(s.c.store, row.path) THEN Toggled(noted, row.path)
        ELSE Call(noted, SelectPath(s.c, row.path, additive, range))

\* handleDoubleClick: a rename on a row that was selected before, or a toggle.
DoubleClicked(s, row) ==
    IF row.placeholder THEN s
    ELSE IF s.v.click = [path |-> row.path, selected |-> TRUE]
    THEN Call(s, BeginRename(s.c, row.path))
    ELSE IF IsGroup(s.c.store, row.path) THEN Toggled(s, row.path)
    ELSE s

\* The nearest path above that has a row: getVisibleParentPath.
VisibleParent(d, p) ==
    LET above == {q \in Lineage(p) \ {p} : PathIndex(d.projection, q) # 0}
    IN  IF above = {} THEN None ELSE CHOOSE q \in above : \A r \in above : Len(r) <= Len(q)

\* What the arrows and the other keys of the tree do to the controller.
KeyDone(d, key) ==
    LET at == d.focus
        open == at # None /\ IsExpanded(d.store, at)
        closed == at # None /\ IsGroup(d.store, at) /\ ~open /\ IndexOf(d, at) # 0
    IN  CASE key = "ArrowDown" -> MoveFocus(d, 1)
          [] key = "ArrowUp" -> MoveFocus(d, -1)
          [] key = "ArrowRight" -> IF closed THEN SetExpanded(d, at, TRUE)
                                   ELSE IF at = None \/ open THEN MoveFocus(d, 1)
                                   ELSE Tell(d, {})
          [] key = "ArrowLeft" -> IF open THEN SetExpanded(d, at, FALSE)
                                  ELSE IF at # None /\ VisibleParent(d, at) # None
                                  THEN SetFocusedPath(d, VisibleParent(d, at))
                                  ELSE Tell(d, {})
          [] key = "Enter" -> IF at = None THEN Tell(d, {}) ELSE SelectPath(d, at, FALSE, FALSE)
          [] key = "Home" -> FocusIndex(d, 1)
          [] key = "End" -> FocusIndex(d, Len(d.projection))
          [] key = "F3" -> FocusMatch(d, TRUE)
          [] key = "ShiftF3" -> FocusMatch(d, FALSE)
          [] OTHER -> TypeAhead(d, {1})

\* handleKeyDown outside the rename editor; F3 is left to the browser when no
\* search is active.
Pressed(s, key) ==
    LET followed(done) == IF done.c.focus = None THEN done
                          ELSE Followed(done, IndexOf(done.c, done.c.focus))
    IN  IF key = "ContextMenu" THEN MenuAtFocus(s)
        ELSE IF key = "F2"
        THEN IF s.c.focus = None THEN s ELSE Call(s, BeginRename(s.c, s.c.focus))
        ELSE IF key \in {"F3", "ShiftF3"} /\ s.c.session = None THEN s
        ELSE Then(Call(s, KeyDone(s.c, key)), followed)

\* commitRenameFromView, by Enter or by a blur of the editor: a name that is
\* refused ends the session.
RenameCommitted(s, leaf) ==
    IF s.c.renaming = None THEN s
    ELSE Then(Call(s, CommitRename(s.c, s.c.renaming, leaf)),
              LAMBDA done : IF done.c.renaming = None THEN done
                            ELSE Call(done, CancelRename(done.c)))

\* setDropTarget: a closed group under the pointer is opened later.
DropTarget(s, p) ==
    IF s.v.target = p THEN s
    ELSE [s EXCEPT !.v = DragStates([@ EXCEPT
            !.target = p,
            !.timer = IF p # None /\ ~IsExpanded(s.c.store, p) THEN p ELSE None])]

\* endDragSession.
DragEnded(s) ==
    [s EXCEPT !.v = DragStates([@ EXCEPT !.drag = None, !.target = None, !.timer = None])]

\* getRowDropTargetPath.
TargetOf(d, row) ==
    IF row = None \/ row.placeholder \/ ~IsGroup(d.store, row.path) THEN None ELSE row.path

\* handleDragStart: a selected row drags the selection.
DragStarted(s, row) ==
    LET selected == SetToSeq(s.c.selection)
    IN  IF row.placeholder THEN s
        ELSE [s EXCEPT !.v = DragStates([@ EXCEPT
                !.drag = IF row.path \in s.c.selection THEN selected ELSE <<row.path>>,
                !.target = None])]

\* handleDragOver: only a drop that would be seen to do something is allowed.
DraggedOver(s, row) ==
    LET p == TargetOf(s.c, row)
        plan == PlanMoves(s.c, s.v.drag, p, Collision)
        allowed == plan.moves # <<>> \/ (Collision = "reject" /\ plan.skipped # <<>>)
    IN  IF s.v.drag = None THEN s
        ELSE DropTarget(s, IF p # None /\ allowed THEN p ELSE None)

\* handleDrop.
Dropped(s, row) ==
    LET p == TargetOf(s.c, row)
        plan == PlanMoves(s.c, s.v.drag, p, Collision)
        moved == Call(s, ApplyRemap(s.c, plan.moves, plan.replaced, {}))
        outcome == IF p = None THEN (IF row = None THEN None ELSE "invalid-target")
                   ELSE IF plan.moves # <<>> THEN "complete"
                   ELSE IF plan.skipped # <<>>
                   THEN (IF Collision = "reject" THEN "collision" ELSE None)
                   ELSE IF \E i \in DOMAIN s.v.drag : IsPrefix(s.v.drag[i], p)
                   THEN "self-drop" ELSE None
        done == IF outcome = "complete" THEN moved ELSE s
    IN  IF s.v.drag = None THEN s
        ELSE DragEnded([done EXCEPT !.v.report = outcome])

\* The spring-loaded expansion.
Sprung(s) ==
    LET p == s.v.timer
        fired == [s EXCEPT !.v.timer = None]
    IN  IF s.v.target = p /\ s.v.drag # None /\ ~IsExpanded(s.c.store, p)
        THEN Call(fired, SetExpanded(s.c, p, TRUE))
        ELSE fired

\* Bug variant: the last row of the viewport is not looked at.
ScrollHandledShort(s) ==
    LET seen == VisibleRange(Len(s.c.projection), s.v.top, 0)
        still == [s EXCEPT !.v.scrolled = FALSE]
    IN  IF s.v.range # None /\ seen.start >= s.v.range.start /\ seen.end - 1 <= s.v.range.end
        THEN [still EXCEPT !.v = StickyHeader(@, s.c)]
        ELSE [still EXCEPT !.v = Redrawn(@, s.c, FALSE)]

\* handleScroll: small scrolls keep the window.
ScrollHandled(s) ==
    LET seen == VisibleRange(Len(s.c.projection), s.v.top, 0)
        still == [s EXCEPT !.v.scrolled = FALSE]
    IN  IF s.v.range # None /\ seen.start >= s.v.range.start /\ seen.end <= s.v.range.end
        THEN [still EXCEPT !.v = StickyHeader(@, s.c)]
        ELSE [still EXCEPT !.v = Redrawn(@, s.c, FALSE)]

\* render and startListening.
Mounted(s) == [s EXCEPT !.v = Redrawn([@ EXCEPT !.mounted = TRUE], s.c, TRUE)]

\* preloadAccountTreeHTML: the leading rows, drawn by the server.
Preloaded(d) ==
    [i \in 1 .. Min({Preload, Len(d.projection)}) |-> DrawnRow(d, d.projection[i], i)]

\* hydrate: the rows are adopted as they are, of the same inputs.
Hydrated(s) ==
    LET dom == Preloaded(s.c)
    IN  [s EXCEPT !.v.mounted = TRUE, !.v.dom = dom,
                  !.v.range = [start |-> 0, end |-> Len(dom)]]

\* cleanUp: the loads are cancelled, then everything is let go.
CleanedUp(s) ==
    [c |-> CancelChildLoads(s.c),
     v |-> [Unmounted EXCEPT !.opened = s.v.opened, !.click = s.v.click]]

-----------------------------------------------------------------------------
(* Steps *)

ViewInit == Init /\ v = Unmounted

\* A handler leads to one of the outcomes given.
Step(Outcomes(_)) ==
    /\ gestures < MaxGestures
    /\ \E here \in {Here} : \E after \in Outcomes(here) : Do({after.c}) /\ v' = after.v

\* The host calls the controller, or a fetch settles.
HostCall == Next /\ \E d \in {Read(c')} : v' = Changed(v, d)

Mount ==
    \/ Step(LAMBDA s : {Mounted(s)})
    \/ ~v.mounted /\ gestures = 0 /\ Step(LAMBDA s : {Hydrated(s)})
    \/ v.mounted /\ Step(LAMBDA s : {CleanedUp(s)})

Scroll ==
    /\ v.mounted
    /\ Step(LAMBDA s : LET count == Len(s.c.projection)
                       IN  {[s EXCEPT !.v = Clamped(@, count, top)] : top \in 0 .. count})

\* The browser's scroll event, for its own or the program's scrolling.
ScrollEvent ==
    /\ v.scrolled
    /\ \E here \in {Here} : v' = ScrollHandled(here).v
    /\ UNCHANGED <<c, fetches, gestures>>

Drawn == ToSet(v.dom)

Places == {"row", "chevron", "button"}

Pointer ==
    \/ Step(LAMBDA s : {Clicked(s, row, place, first, additive, range) :
                          row \in Drawn, place \in Places, first, additive, range \in BOOLEAN})
    \/ Step(LAMBDA s : {DoubleClicked(s, row) : row \in Drawn})
    \/ Step(LAMBDA s : {MenuOpened(s, row.path) : row \in {r \in Drawn : ~r.placeholder}})
    \/ Stacked /\ Step(LAMBDA s : {ScrolledToPath(s, p, TRUE) : p \in ToSet(v.sticky)})

Keyboard == v.mounted /\ Step(LAMBDA s : {Pressed(s, key) : key \in Keys})

\* The host closes a session it was given, however late.
CloseMenu ==
    Step(LAMBDA s : {MenuClosed(s, id, restore) : id \in 1 .. v.opened, restore \in BOOLEAN})

\* The editor is in the document.
Editing == \E row \in Drawn : row.renaming

Rename ==
    \/ Editing /\ Step(LAMBDA s : {RenameCommitted(s, leaf) : leaf \in Leaves})
    \/ Editing /\ Step(LAMBDA s : {Call(s, CancelRename(s.c))})

Drag ==
    \/ Step(LAMBDA s : {DragStarted(s, row) : row \in Drawn})
    \/ v.drag # None /\ Step(LAMBDA s : {DraggedOver(s, row) : row \in Drawn \cup {None}})
    \/ v.target # None /\ Step(LAMBDA s : {DropTarget(s, None)})
    \/ v.drag # None /\ Step(LAMBDA s : {Dropped(s, row) : row \in Drawn \cup {None}})
    \/ v.drag # None /\ Step(LAMBDA s : {DragEnded(s)})
    \/ v.timer # None /\ Step(LAMBDA s : {Sprung(s)})

ViewNext ==
    \/ HostCall \/ Mount \/ Scroll \/ ScrollEvent \/ Pointer
    \/ Keyboard \/ CloseMenu \/ Rename \/ Drag

ViewSpec == ViewInit /\ [][ViewNext]_viewVars

-----------------------------------------------------------------------------
(* Properties *)

\* The fields of the view.
ViewTypeOK ==
    /\ v.mounted \in BOOLEAN /\ v.scrolled \in BOOLEAN /\ v.top \in Nat
    /\ v.range # None => v.range.start <= v.range.end
    /\ (v.target # None => v.drag # None) /\ (v.timer # None => v.mounted)
    /\ v.menu # None => v.menu.id \in 1 .. v.opened
    /\ ~v.mounted => v.dom = <<>> /\ v.range = None

\* Every row in the document says what the controller says of the path at its
\* index now, so that a click never reaches another account than the one shown.
DomCurrent ==
    LET rows == ProjectionOf(c)
        expected(i) == DrawnRow(c, rows[i], i)
    IN  \A k \in DOMAIN v.dom :
          LET row == v.dom[k]
          IN  /\ row.index \in DOMAIN rows
              /\ row = [expected(row.index) EXCEPT
                          !.dragging = ~row.placeholder /\ v.drag # None
                                         /\ row.path \in ToSet(v.drag),
                          !.target = ~row.placeholder /\ row.path = v.target]

\* Once the browser has reported the scroll position, every row that fits in the
\* viewport is in the document, however the tree has grown or shrunk.
ViewportCovered ==
    v.mounted /\ ~v.scrolled =>
        \A i \in v.top + 1 .. Min({v.top + Height, Len(ProjectionOf(c))}) :
            \E k \in DOMAIN v.dom : v.dom[k].index = i

\* What the user sees is all there is to see, and is of now.
TreeDrawn == ViewTypeOK /\ DomCurrent /\ ViewportCovered

\* After a key, the focused row is in the viewport and in the document.
FocusInView ==
    [][v.mounted /\ gestures' # gestures /\ c'.focus # None =>
          LET i == PathIndex(Rows(c'), c'.focus)
          IN  \/ i = 0
              \/ v'.top < i /\ i <= v'.top + Height /\ v'.active = i
              \/ \A key \in Keys \ {"F2", "F3", "ShiftF3", "ContextMenu"} :
                    [c |-> Read(c'), v |-> v'] # Pressed(Here, key)]_viewVars

\* A host that closes a menu late, after another one was opened or after the tree
\* was taken down, moves neither focus nor scroll position and leaves the other open.
LateCloseIgnored ==
    [][gestures' # gestures => \A id \in 1 .. v.opened, restore \in BOOLEAN :
          /\ [c |-> Read(c'), v |-> v'] = MenuClosed(Here, id, restore)
          /\ v.menu = None \/ id < v.menu.id
          => c'.focus = c.focus /\ v'.top = v.top /\ v'.menu = v.menu]_viewVars

\* Focus goes where the keyboard takes it, and nowhere else.
FocusFollowed == FocusInView /\ LateCloseIgnored
=============================================================================
