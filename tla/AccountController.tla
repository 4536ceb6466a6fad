-------------------------- MODULE AccountController --------------------------
(***************************************************************************)
(* AccountTreeController (packages/accounts/src/model/                     *)
(* AccountTreeController.ts): the model of the account tree view.  It owns *)
(* an AccountStore, which it replaces when the data or the names change,   *)
(* keeps mirrors of its topology, and carries selection, focus, statuses,  *)
(* a search session, a rename session and fetches of children from one     *)
(* store to the next.                                                      *)
(*                                                                         *)
(* A method is synchronous and is one step; its listeners are told at its  *)
(* end, so what they call in return is as if it came after it.  A fetch    *)
(* outlives the call that made it and settles when it likes.               *)
(***************************************************************************)
EXTENDS AccountRows

CONSTANTS
    Setups,       \* what it may be built from: [entries, accounts, unloaded, mode]
    EntrySets,    \* the entries it may be given later
    Answers,      \* the sets of paths a fetch may bring
    Queries,      \* the sets of segments a query may match; {} is the empty query
    Decorations,  \* the statuses it may be given
    Leaves,       \* the leaf names a rename may ask for; 0 is an invalid one
    Drops,        \* the drops [sources, target, collision] it may be asked for
    MaxGestures   \* bound on the calls of its methods

Modes == {"expand-matches", "collapse-non-matches", "hide-non-matches"}

\* Paths, of which the code is given finitely many at once.
ArePaths(paths) == paths \subseteq Seq(Nat) /\ IsFiniteSet(paths)

\* Entries, of which the model keeps the accounts they post to.
AreEntries(entries) ==
    /\ IsFiniteSet(entries)
    /\ \A e \in entries : "accounts" \in DOMAIN e /\ ArePaths(e.accounts)

\* A search session: its query, its mode, and the groups that were open before it.
Session == [query : Queries, mode : Modes, prior : SUBSET Seq(Nat)]

\* Accounts are named by paths, decorations are given by path, a drop lists its
\* sources, and null is neither a path nor a session.
ASSUME ControllerAssumption ==
    /\ \A setup \in Setups : AreEntries(setup.entries) /\ ArePaths(setup.accounts)
    /\ \A entries \in EntrySets : AreEntries(entries)
    /\ \A children \in Answers : ArePaths(children)
    /\ \A own \in Decorations : own = [p \in DOMAIN own |-> own[p]]
    /\ Leaves \subseteq Nat
    /\ \A drop \in Drops : drop.sources \in Seq(Seq(Nat))
    /\ None \notin Seq(Nat) /\ None \notin Session
    /\ MaxGestures \in Nat

VARIABLES
    c,         \* the controller
    fetches,   \* the calls of loadChildren that have not settled
    gestures   \* how many methods were called

vars == <<c, fetches, gestures>>

-----------------------------------------------------------------------------
(* Data *)

\* emit: what the listeners are told of.
Tell(d, facets) == [d EXCEPT !.told = facets]

Dirty(d) == [d EXCEPT !.projection = None]

\* Bug variant: a fetch stays current although its path has moved.
CarryStaleLoads(d, fresh, where) ==
    LET pending == {p \in d.mirror.all : LoadOf(d.store, p) # "loaded"}
        kept == {p \in pending : where[p] \in fresh.paths}
        targets == {where[p] : p \in kept}
        source(q) == CHOOSE p \in kept : where[p] = q
        open == {where[p] : p \in {p \in kept : IsExpanded(d.store, p)}}
    IN  [store |-> [fresh EXCEPT
                      !.load = [q \in targets |->
                                  IF source(q) = q THEN d.store.load[q]
                                  ELSE "unloaded"],
                      !.expanded = (@ \ targets) \cup open],
         tokens |-> [p \in DOMAIN d.tokens \ (pending \ kept) |-> d.tokens[p]]]

\* snapshotChildLoadStates and restoreChildLoadStates: the fresh store takes
\* over the loads of the paths that have not moved; those that have start again,
\* and the fetches of what moved or went are no longer waited for.
CarryLoads(d, fresh, where) ==
    LET pending == {p \in d.mirror.all : LoadOf(d.store, p) # "loaded"}
        kept == {p \in pending : where[p] \in fresh.paths}
        targets == {where[p] : p \in kept}
        source(q) == CHOOSE p \in kept : where[p] = q
        open == {where[p] : p \in {p \in kept : IsExpanded(d.store, p)}}
        stale == {p \in pending : p \notin kept \/ where[p] # p}
    IN  [store |-> [fresh EXCEPT
                      !.load = [q \in targets |->
                                  IF source(q) = q THEN d.store.load[q]
                                  ELSE "unloaded"],
                      !.expanded = (@ \ targets) \cup open],
         tokens |-> [p \in DOMAIN d.tokens \ stale |-> d.tokens[p]]]

\* setEntries.
SetEntries(d, entries) ==
    LET collapsed == {p \in d.mirror.groups : ~IsExpanded(d.store, p)}
        fresh == SetExpansion(Built(entries, d.accounts), collapsed, {})
        kept(p) == IF p \in fresh.paths THEN p ELSE None
        carried == CarryLoads(d, fresh, [p \in d.mirror.all |-> kept(p)])
    IN  Tell([Dirty(d) EXCEPT
                !.entries = entries,
                !.store = carried.store,
                !.tokens = carried.tokens,
                !.mirror = MirrorOf(entries, d.accounts),
                !.selection = @ \cap fresh.paths,
                !.focus = kept(@),
                !.anchor = kept(@),
                !.rolled = RolledUp(fresh, d.own)],
             {"expansion", "status"}
               \cup (IF d.selection \subseteq fresh.paths THEN {} ELSE {"selection"})
               \cup (IF kept(d.focus) = d.focus THEN {} ELSE {"focus"}))

\* Bug variant: the rows are not computed anew.
FlattenKeepsRows(d, on) ==
    IF d.flatten = on THEN Tell(d, {})
    ELSE Tell([d EXCEPT !.flatten = on], {"expansion"})

\* setFlattenEmptyGroups.
SetFlatten(d, on) ==
    IF d.flatten = on THEN Tell(d, {})
    ELSE Tell([Dirty(d) EXCEPT !.flatten = on], {"expansion"})

-----------------------------------------------------------------------------
(* Child loading *)

\* requestChildLoad, up to the call of the loader.
RequestChildLoad(d, p) ==
    IF LoadOf(d.store, p) \notin {"unloaded", "error"} THEN Tell(d, {})
    ELSE Tell([Dirty(d) EXCEPT
                 !.store = SetLoads(@, {p}, "loading"),
                 !.counter = @ + 1,
                 !.tokens = [q \in DOMAIN @ \cup {p} |->
                               IF q = p THEN d.counter + 1 ELSE @[q]]],
              {"expansion"})

\* The call of the loader, if the last step of the controller asked for one.
Fetched(before, after, inFlight) ==
    IF after.counter = before.counter THEN inFlight
    ELSE inFlight \cup {[path |-> p, token |-> after.counter] :
                          p \in {q \in DOMAIN after.tokens :
                                   after.tokens[q] = after.counter}}

\* markUnloaded.
MarkUnloaded(d, paths) ==
    Tell([Dirty(d) EXCEPT
            !.store = Unloaded(@, paths),
            !.tokens = [p \in DOMAIN @ \ paths |-> @[p]]], {"expansion"})

\* cancelChildLoads.
CancelChildLoads(d) ==
    IF d.tokens = <<>> THEN Tell(d, {})
    ELSE Tell([Dirty(d) EXCEPT
                 !.store = Unloaded(@, DOMAIN d.tokens),
                 !.tokens = <<>>], {"expansion"})

\* Bug variant: what was loaded is forgotten by the next rebuild.
AbsorbOnlyMirrors(d, added) ==
    LET parents == {Parent(p) : p \in added}
    IN  [d EXCEPT
           !.mirror = [all |-> @.all \cup added,
                       groups |-> @.groups \cup (parents \ {Root}),
                       kids |-> [q \in DOMAIN @.kids \cup parents |->
                                   Children([children |-> @.kids], q)
                                     \cup {p \in added : Parent(p) = q}]]]

\* absorbLoadedPaths.
AbsorbLoadedPaths(d, added) ==
    LET parents == {Parent(p) : p \in added}
    IN  [d EXCEPT
           !.mirror = [all |-> @.all \cup added,
                       groups |-> @.groups \cup (parents \ {Root}),
                       kids |-> [q \in DOMAIN @.kids \cup parents |->
                                   Children([children |-> @.kids], q)
                                     \cup {p \in added : Parent(p) = q}]],
           !.accounts = @ \cup added]

Without(tokens, p) == [q \in DOMAIN tokens \ {p} |-> tokens[q]]

\* settleChildLoad, with completeChildLoad of the store.
SettleChildLoad(d, p, token, children) ==
    LET current == p \in DOMAIN d.tokens /\ d.tokens[p] = token
        loading == LoadOf(d.store, p) = "loading"
        store == Collected(d.store, children)
    IN  IF ~current THEN Tell(d, {})
        ELSE IF ~loading THEN Tell([d EXCEPT !.tokens = Without(@, p)], {})
        ELSE Tell([Dirty(AbsorbLoadedPaths(d, Missing(d.store, children)))
                     EXCEPT !.tokens = Without(@, p),
                            !.store = [store EXCEPT !.load = Without(@, p)]],
                  {"expansion"})

\* settleChildLoadFailure, with failChildLoad of the store.
SettleChildLoadFailure(d, p, token) ==
    LET current == p \in DOMAIN d.tokens /\ d.tokens[p] = token
        loading == LoadOf(d.store, p) = "loading"
    IN  IF ~current THEN Tell(d, {})
        ELSE Tell([Dirty(d) EXCEPT
                     !.tokens = Without(@, p),
                     !.store = IF loading THEN SetLoads(@, {p}, "error") ELSE @],
                  {"expansion"})

\* setExpanded: opening a group whose children are unknown asks for them, but a
\* group whose fetch failed waits for an explicit retry.
SetExpanded(d, p, on) ==
    LET opened == Tell([Dirty(d) EXCEPT !.store = SetExpansion(@, {p}, IF on THEN {p} ELSE {})],
                       {"expansion"})
    IN  IF IsExpanded(d.store, p) = on THEN Tell(d, {})
        ELSE IF on /\ LoadOf(opened.store, p) = "unloaded"
        THEN RequestChildLoad(opened, p)
        ELSE opened

\* expandAll, which leaves groups without known children alone.
ExpandAll(d) ==
    LET known == {p \in d.store.paths : Children(d.store, p) # {}}
    IN  Tell([Dirty(d) EXCEPT !.store.expanded = @ \cup known], {"expansion"})

CollapseAll(d) == Tell([Dirty(d) EXCEPT !.store.expanded = {}], {"expansion"})

\* revealPath, which asks for no children.
RevealPath(d, p) ==
    LET closed == {q \in Lineage(p) \ {p} : ~IsExpanded(d.store, q)}
    IN  IF closed = {} THEN Tell(d, {})
        ELSE Tell([Dirty(d) EXCEPT !.store = SetExpansion(@, closed, closed)],
                  {"expansion"})

-----------------------------------------------------------------------------
(* Selection and focus *)

\* What every method that looks at the rows leaves behind: ensureProjection.
Read(d) == [d EXCEPT !.projection = Rows(d)]

\* The index of the row of the anchor or the focus, 0 if there is none.
RowOf(seen, p) == IF p = None THEN 0 ELSE PathIndex(seen.projection, p)

\* selectPath: the rows between the anchor and the path, or a toggle, or the path
\* alone; rows that only say that children are loading are left out.
Selection(seen, p, additive, range) ==
    LET ends == {RowOf(seen, seen.anchor), RowOf(seen, p)}
        span == {seen.projection[i].path :
                   i \in {j \in Min(ends) .. Max(ends) : ~seen.projection[j].placeholder}}
    IN  CASE range /\ 0 \notin ends -> span \cup (IF additive THEN seen.selection ELSE {})
          [] (~range \/ 0 \in ends) /\ additive -> SymDiff(seen.selection, {p})
          [] OTHER -> {p}

SelectPath(d, p, additive, range) ==
    LET selected(seen, selection) ==
          Tell([seen EXCEPT
                  !.selection = selection,
                  !.focus = p,
                  !.anchor = IF range /\ RowOf(seen, @) # 0 /\ RowOf(seen, p) # 0
                             THEN @ ELSE p],
               (IF selection = d.selection THEN {} ELSE {"selection"})
                 \cup (IF d.focus = p THEN {} ELSE {"focus"}))
    IN  IF p \notin d.store.paths THEN Tell(d, {})
        ELSE Then(Read(d), LAMBDA seen :
               Then(Selection(seen, p, additive, range),
                    LAMBDA selection : selected(seen, selection)))

ClearSelection(d) ==
    IF d.selection = {} THEN Tell(d, {})
    ELSE Tell([d EXCEPT !.selection = {}, !.anchor = None], {"selection"})

SetFocusedPath(d, p) ==
    IF d.focus = p \/ (p # None /\ p \notin d.store.paths) THEN Tell(d, {})
    ELSE Tell([d EXCEPT !.focus = p], {"focus"})

\* The first row from i on, in steps of +1 or -1, that is not a placeholder; 0.
RowFrom(rows, i, step) ==
    LET ahead == {j \in DOMAIN rows : ~rows[j].placeholder /\ (j - i) * step >= 0}
    IN  IF ahead = {} THEN 0 ELSE IF step > 0 THEN Min(ahead) ELSE Max(ahead)

\* Focus goes to the row at the index, if there is one.
FocusRow(seen, i) ==
    IF i = 0 THEN Tell(seen, {}) ELSE SetFocusedPath(seen, seen.projection[i].path)

FocusFound(d, Index(_)) ==
    Then(Read(d), LAMBDA seen : Then(Index(seen), LAMBDA i : FocusRow(seen, i)))

\* moveFocus.
MoveFocus(d, delta) ==
    LET next(seen) ==
          LET at == RowOf(seen, seen.focus)
          IN  IF at = 0 THEN (IF delta >= 0 THEN 1 ELSE Len(seen.projection))
              ELSE Max({1, Min({Len(seen.projection), at + delta})})
    IN  FocusFound(d, LAMBDA seen : RowFrom(seen.projection, next(seen), delta))

\* focusIndex: the nearest row at or after the index, or before it.
FocusIndex(d, i) ==
    LET clamped(rows) == Max({1, Min({Len(rows), i})})
        nearest(rows) == IF RowFrom(rows, clamped(rows), 1) # 0
                         THEN RowFrom(rows, clamped(rows), 1)
                         ELSE RowFrom(rows, clamped(rows), -1)
    IN  FocusFound(d, LAMBDA seen : nearest(seen.projection))

\* focusByTypeAhead: the next row, cyclically, whose leaf starts with the
\* character; `leaves` are the leaf names that do.
TypeAhead(d, leaves) ==
    LET typed(seen) ==
          LET rows == seen.projection
              hits == {i \in DOMAIN rows : ~rows[i].placeholder /\ Last(rows[i].path) \in leaves}
              after == {i \in hits : i > RowOf(seen, seen.focus)}
          IN  IF hits = {} THEN 0 ELSE Min(IF after = {} THEN hits ELSE after)
    IN  FocusFound(d, typed)

-----------------------------------------------------------------------------
(* Search *)

SnapshotExpandedGroups(d) == {p \in d.mirror.groups : IsExpanded(d.store, p)}

Ancestors(paths) == UNION {Lineage(p) \ {p} : p \in paths}

\* Bug variant: a refinement takes a snapshot of its own.
BeginSearchAnew(d, query, mode) ==
    LET chosen == IF mode # None THEN mode
                  ELSE IF d.session = None THEN "expand-matches" ELSE d.session.mode
        matches == {p \in d.mirror.all : \E i \in DOMAIN p : p[i] \in query}
        above == Ancestors(matches)
    IN  Tell([Dirty(d) EXCEPT
                !.session = [query |-> query, mode |-> chosen,
                             prior |-> SnapshotExpandedGroups(d)],
                !.matches = matches,
                !.store = SetExpansion(@, above, above)],
             {"expansion", "search"})

\* beginSearch: the first call takes the snapshot that endSearch restores, a
\* later one keeps it; a query that matches nothing restores it at once, except
\* when matches only open their ancestors.
BeginSearch(d, query, mode) ==
    LET session == IF d.session # None
                   THEN [d.session EXCEPT !.query = query,
                                          !.mode = IF mode = None THEN @ ELSE mode]
                   ELSE [query |-> query,
                         mode |-> IF mode = None THEN "expand-matches" ELSE mode,
                         prior |-> SnapshotExpandedGroups(d)]
        matches == {p \in d.mirror.all : \E i \in DOMAIN p : p[i] \in query}
        above == Ancestors(matches)
        gentle == session.mode = "expand-matches"
        shown == CASE matches # {} /\ gentle -> SetExpansion(d.store, above, above)
                   [] matches # {} /\ ~gentle -> SetExpansion(d.store, d.mirror.groups, above)
                   [] matches = {} /\ gentle -> d.store
                   [] OTHER -> SetExpansion(d.store, d.mirror.groups, session.prior)
    IN  Tell([Dirty(d) EXCEPT
                !.session = session,
                !.matches = matches,
                !.store = shown,
                !.filter = IF session.mode = "hide-non-matches" /\ matches # {}
                           THEN matches \cup above ELSE None],
             {"expansion", "search"})

\* Bug variant: the listeners are not told that groups open and close.
EndSearchQuietly(d) ==
    IF d.session = None THEN Tell(d, {})
    ELSE Tell([Dirty(d) EXCEPT
                 !.session = None,
                 !.matches = {},
                 !.filter = None,
                 !.store = SetExpansion(@, d.mirror.groups, d.session.prior)],
              {"search"})

\* endSearch.
EndSearch(d) ==
    IF d.session = None THEN Tell(d, {})
    ELSE Tell([Dirty(d) EXCEPT
                 !.session = None,
                 !.matches = {},
                 !.filter = None,
                 !.store = SetExpansion(@, d.mirror.groups, d.session.prior)],
              {"expansion", "search"})

\* focusRelativeSearchMatch: match to match when focus is on one, otherwise the
\* nearest match ahead, around the ends; the row index, 0 without one.
NextMatch(seen, forward) ==
    LET rows == seen.projection
        hits == {i \in DOMAIN rows : rows[i].path \in seen.matches /\ ~rows[i].placeholder}
        at == RowOf(seen, seen.focus)
        ahead == {i \in hits : IF forward
                               THEN i > at \/ (i = at /\ seen.focus \notin seen.matches)
                               ELSE i < at}
    IN  IF hits = {} THEN 0
        ELSE IF forward THEN Min(IF ahead = {} THEN hits ELSE ahead)
        ELSE Max(IF ahead = {} THEN hits ELSE ahead)

FocusMatch(d, forward) ==
    IF d.session = None \/ d.matches = {} THEN Tell(d, {})
    ELSE FocusFound(d, LAMBDA seen : NextMatch(seen, forward))

-----------------------------------------------------------------------------
(* Statuses, renames and moves *)

\* setAccountStatus, of decorations already merged by path.
SetAccountStatus(d, own) ==
    Tell([d EXCEPT !.own = own, !.rolled = RolledUp(d.store, own)], {"status"})

BeginRename(d, p) ==
    IF p \notin d.store.paths \/ d.renaming = p THEN Tell(d, {})
    ELSE Tell([d EXCEPT !.renaming = p], {"rename"})

CancelRename(d) ==
    IF d.renaming = None THEN Tell(d, {})
    ELSE Tell([d EXCEPT !.renaming = None], {"rename"})

\* The statuses after the moves, those that meet being merged.
RemappedStatus(own, moves, removed) ==
    LET live == {p \in DOMAIN own : ~IsRemoved(removed, p)}
        new(p) == RemapThrough(moves, p)
    IN  [q \in {new(p) : p \in live} |-> MergedStatus(own, {p \in live : new(p) = q})]

\* applyRemap: the entries and accounts are rewritten, without what is removed,
\* a new store is built from them, and the rest of the state follows its paths.
ApplyRemap(d, moves, removed, renamed) ==
    LET new(p) == RemapThrough(moves, p)
        follow(p) == IF p = None \/ IsRemoved(removed, p) THEN None ELSE new(p)
        carried(paths) == {new(p) : p \in {q \in paths : ~IsRemoved(removed, q)}}
        entries == {[e EXCEPT !.accounts = {new(p) : p \in @}] :
                      e \in {e \in d.entries :
                                \A p \in e.accounts : ~IsRemoved(removed, p)}}
        accounts == carried(d.accounts)
        collapsed == carried({p \in d.mirror.groups : ~IsExpanded(d.store, p)})
        fresh == SetExpansion(Built(entries, accounts), collapsed, {})
        moved == CarryLoads(d, fresh, [p \in d.mirror.all |-> follow(p)])
        own == RemappedStatus(d.own, moves, removed)
        matches == carried(d.matches)
        session == IF d.session = None THEN None
                   ELSE [d.session EXCEPT !.prior = carried(@)]
    IN  Tell([Dirty(d) EXCEPT
                !.entries = entries,
                !.accounts = accounts,
                !.mirror = MirrorOf(entries, accounts),
                !.store = moved.store,
                !.tokens = moved.tokens,
                !.selection = carried(@),
                !.anchor = follow(@),
                !.focus = follow(@),
                !.renaming = follow(@),
                !.own = own,
                !.rolled = RolledUp(fresh, own),
                !.session = session,
                !.matches = IF d.session = None THEN @ ELSE matches,
                !.filter = IF @ = None THEN None ELSE matches \cup Ancestors(matches)],
             {"expansion"} \cup renamed
               \cup (IF DOMAIN d.own # {} THEN {"status"} ELSE {})
               \cup (IF \E p \in d.selection : IsRemoved(removed, p) \/ new(p) # p THEN {"selection"} ELSE {})
               \cup (IF follow(d.focus) = d.focus THEN {} ELSE {"focus"})
               \cup (IF d.renaming # None /\ follow(d.renaming) = None THEN {"rename"} ELSE {})
               \cup (IF d.session = None THEN {} ELSE {"search"}))

\* commitRename; a name that is refused leaves the session open.
CommitRename(d, p, leaf) ==
    LET to == Append(Parent(p), leaf)
        ends == d.renaming = p
        closed == IF ends THEN [d EXCEPT !.renaming = None] ELSE d
        facet == IF ends THEN {"rename"} ELSE {}
    IN  IF p \notin d.store.paths \/ leaf = 0 THEN Tell(d, {})
        ELSE IF to = p THEN Tell(closed, facet)
        ELSE IF to \in d.store.paths THEN Tell(d, {})
        ELSE ApplyRemap(closed, <<[from |-> p, to |-> to]>>, {}, facet)

\* planMovePaths and applyMovePlan.
MovePaths(d, drop) ==
    LET plan == PlanMoves(d, drop.sources, drop.target, drop.collision)
    IN  IF plan.moves = <<>> THEN Tell(d, {})
        ELSE ApplyRemap(d, plan.moves, plan.replaced, {})

-----------------------------------------------------------------------------
(* The constructor and the steps *)

\* applyInitialExpansion, on a tree whose unloaded groups are collapsed already.
InitiallyExpanded(t, mirror, mode) ==
    IF mode.kind = "all" THEN t
    ELSE LET closed == [t EXCEPT !.expanded = {}]
             open == IF mode.kind = "top-level"
                     THEN {p \in mirror.groups : Len(p) = 1}
                     ELSE UNION {Lineage(p) : p \in mode.paths}
         IN  SetExpansion(closed, open, open)

Constructed(setup) ==
    LET mirror == MirrorOf(setup.entries, setup.accounts)
        marked == Unloaded(Built(setup.entries, setup.accounts), setup.unloaded)
    IN  [store |-> InitiallyExpanded(marked, mirror, setup.mode),
         mirror |-> mirror,
         accounts |-> setup.accounts,
         entries |-> setup.entries,
         selection |-> {},
         anchor |-> None,
         focus |-> None,
         own |-> <<>>,
         rolled |-> <<>>,
         session |-> None,
         matches |-> {},
         filter |-> None,
         tokens |-> <<>>,
         counter |-> 0,
         renaming |-> None,
         flatten |-> FALSE,
         projection |-> None,
         told |-> {}]

Init ==
    /\ \E setup \in Setups : c = Constructed(setup)
    /\ fetches = {}
    /\ gestures = 0

\* A method leads to one of the outcomes given.
Do(outcomes) ==
    /\ gestures < MaxGestures
    /\ gestures' = gestures + 1
    /\ \E after \in outcomes : c' = after /\ fetches' = Fetched(c, after, fetches)

Accounts == c.mirror.all

Data ==
    \/ Do({SetEntries(c, entries) : entries \in EntrySets})
    \/ Do({SetFlatten(c, on) : on \in BOOLEAN})
    \/ Do({SetAccountStatus(c, own) : own \in Decorations})

Browse ==
    \/ Do({SetExpanded(c, p, on) : p \in Accounts, on \in BOOLEAN})
    \/ Do({ExpandAll(c)})
    \/ Do({CollapseAll(c)})
    \/ Do({RevealPath(c, p) : p \in Accounts})
    \/ c.projection = None /\ Do({Tell(Read(c), {})})

Load ==
    \/ Do({RequestChildLoad(c, p) : p \in Accounts})
    \/ Do({MarkUnloaded(c, {p}) : p \in Accounts})
    \/ Do({CancelChildLoads(c)})

Select ==
    \/ Do({SelectPath(c, p, additive, range) : p \in Accounts, additive, range \in BOOLEAN})
    \/ Do({ClearSelection(c)})
    \/ Do({SetFocusedPath(c, p) : p \in Accounts \cup {None}})
    \/ Do({MoveFocus(c, delta) : delta \in {-1, 1}})
    \/ Do({FocusIndex(c, i) : i \in {0, 2}})
    \/ Do({TypeAhead(c, leaves) : leaves \in Queries})

Search ==
    \/ Do({BeginSearch(c, query, mode) : query \in Queries, mode \in Modes \cup {None}})
    \/ Do({EndSearch(c)})
    \/ Do({FocusMatch(c, forward) : forward \in BOOLEAN})

Edit ==
    \/ Do({BeginRename(c, p) : p \in Accounts})
    \/ Do({CancelRename(c)})
    \/ Do({CommitRename(c, p, leaf) : p \in Accounts, leaf \in Leaves})
    \/ Do({MovePaths(c, drop) : drop \in Drops})

\* A fetch brings children, which the store also takes at other places.
Settle(f) ==
    /\ \E children \in Answers : c' = SettleChildLoad(c, f.path, f.token, children)
    /\ fetches' = fetches \ {f}
    /\ UNCHANGED gestures

Fail(f) ==
    /\ c' = SettleChildLoadFailure(c, f.path, f.token)
    /\ fetches' = fetches \ {f}
    /\ UNCHANGED gestures

Next ==
    \/ Data \/ Browse \/ Load \/ Select \/ Search \/ Edit
    \/ \E f \in fetches : Settle(f) \/ Fail(f)

Spec == Init /\ [][Next]_vars

-----------------------------------------------------------------------------
(* Properties *)

\* The fields of the controller, and the fetches it has asked for.
ControllerTypeOK ==
    LET numbers(f) == {f[p] : p \in DOMAIN f}
    IN  /\ {c.mirror.groups, c.store.expanded, DOMAIN c.store.load} \subseteq SUBSET c.mirror.all
        /\ numbers(c.store.load) \subseteq {"unloaded", "loading", "error"}
        /\ numbers(c.tokens) \cup {f.token : f \in fetches} \subseteq 1 .. c.counter
        /\ c.session # None => c.session.mode \in Modes
        /\ c.filter # None => c.session # None
        /\ c.flatten \in BOOLEAN
        /\ c.told \subseteq {"expansion", "selection", "focus", "search", "rename", "status"}
        /\ gestures \in 0 .. MaxGestures

\* The store, the mirrors and the inputs of the next rebuild describe the same
\* accounts.  All three are edited separately when children arrive; an account
\* that one of them misses has no row, or disappears at the next rename.
OneTopology ==
    /\ c.mirror = MirrorOf(c.entries, c.accounts)
    /\ c.mirror.all = c.store.paths
    /\ c.mirror.kids = c.store.children

\* A group that says it is loading has a fetch whose answer will be taken: no
\* spinner is left behind by a move, a reset, a rebuild or an answer that came too
\* late.  No two fetches share a token, so a late answer is never taken for a new
\* one.
LoadsAwaited ==
    /\ \A p \in DOMAIN c.store.load :
         c.store.load[p] = "loading" =>
           p \in DOMAIN c.tokens /\ [path |-> p, token |-> c.tokens[p]] \in fetches
    /\ \A f, g \in fetches : f.token = g.token => f = g

\* The rows the view is given are those of the present state, however they were
\* cached.
RowsCurrent == c.projection # None => c.projection = ProjectionOf(c)

\* Nothing the controller keeps is older than what it was made from: one set of
\* accounts, whichever of the three copies a reader goes to, no spinner without
\* its fetch, and no row of a former state.
NothingStale == OneTopology /\ LoadsAwaited /\ RowsCurrent

\* The answer of a fetch is awaited only by a group that says it is loading.
AnswersAwaited == \A p \in DOMAIN c.tokens : LoadOf(c.store, p) = "loading"

\* A path has a row: the hide filter admits it and what is above it, every group
\* above it is open, and it is not swallowed by a flattened row.
Shown(p) ==
    /\ \A q \in Lineage(p) : Admits(c, q)
    /\ ChainEnd(c, p) = p
    /\ \A q \in Lineage(p) \ {p} : IsExpanded(c.store, q) \/ ChainEnd(c, q) # q

\* The rows are exactly the paths that have one, each once.
RowsComplete ==
    c.projection # None =>
        LET own == {i \in DOMAIN c.projection : ~c.projection[i].placeholder}
        IN  /\ {c.projection[i].path : i \in own} = {p \in c.store.paths : Shown(p)}
            /\ \A i, j \in own : c.projection[i].path = c.projection[j].path => i = j

\* A reader finds every account that is to be seen, and an answer that is taken
\* ends a spinner.
ViewComplete == ControllerTypeOK /\ AnswersAwaited /\ RowsComplete

Told ==
    LET changed(facet, differs) == differs => facet \in c'.told
    IN  /\ changed("selection", c.selection # c'.selection)
        /\ changed("focus", c.focus # c'.focus)
        /\ changed("search", c.matches # c'.matches)
        /\ changed("rename", c.renaming # c'.renaming /\ None \in {c.renaming, c'.renaming})
        /\ changed("status", c.own # c'.own)
        /\ changed("expansion", ProjectionOf(c) # ProjectionOf(c'))

\* The listeners, who redraw only what they are told has changed, are told of
\* every change of what they show.
EventsTell == [][Told]_vars

\* Whatever happens during a search session, the state that endSearch restores is
\* the one before its first query; and while matches alone are shown, all that is
\* above a match is admitted too, also where a rename or a drop has put it.
SearchHolds ==
    [][/\ c.session # None /\ c'.session # None /\ c.mirror = c'.mirror =>
            c'.session.prior = c.session.prior
       /\ c'.filter # None => \A p \in c'.matches : Lineage(p) \subseteq c'.filter]_vars

\* The accounts that are named, by an entry or on their own.
Named(d) ==
    {p \in d.accounts \cup UNION {e.accounts : e \in d.entries} : IsValidPath(p)}

\* Two accounts become one, or one is lost, only when other entries are given or a
\* drop replaces: never by a rename, a drop that skips, or anything else.
MovesKeepApart ==
    [][Cardinality(Named(c')) < Cardinality(Named(c)) =>
         \/ \E entries \in EntrySets : c' = SetEntries(c, entries)
         \/ \E drop \in Drops : drop.collision = "replace" /\ c' = MovePaths(c, drop)]_vars

\* What the user is in the middle of, or gathers in one drop, is kept.
EditsHonest == SearchHolds /\ MovesKeepApart

\* The comment of planMovePaths (AccountTreeController.ts:1414-1415): under
\* 'replace' the account at the destination is removed "and the move proceeds".
\* The code does not keep it when the source lies inside that account, as X:B:B
\* dropped on X does, so no run checks it.
MovesLand ==
    [][\A drop \in Drops :
          c' = MovePaths(c, drop) =>
              LET plan == PlanMoves(c, drop.sources, drop.target, drop.collision)
              IN  \A i \in DOMAIN plan.moves : plan.moves[i].to \in c'.store.paths]_vars
=============================================================================
