----------------------------- MODULE AccountRows -----------------------------
(***************************************************************************)
(* What AccountTreeController (packages/accounts/src/model/                *)
(* AccountTreeController.ts) computes from its state without changing it:  *)
(* its mirrors of the topology, the rows it shows, the roll-up of statuses,*)
(* the paths after a list of moves and the plan of a drop.                 *)
(*                                                                         *)
(* The controller is a record c, whose fields AccountController describes. *)
(***************************************************************************)
EXTENDS AccountTree

CONSTANT None       \* null

\* F of a, which is evaluated once.
Then(a, F(_)) == CHOOSE y \in {F(x) : x \in {a}} : TRUE

-----------------------------------------------------------------------------
(* The store as the controller sees it *)

LoadOf(t, p) == IF p \in DOMAIN t.load THEN t.load[p] ELSE "loaded"

IsExpanded(t, p) == IsGroup(t, p) /\ p \in t.expanded

\* setExpanded of the store on several paths at once.
SetExpansion(t, paths, on) ==
    LET groups == {p \in paths : IsGroup(t, p)}
    IN  [t EXCEPT !.expanded = (@ \ groups) \cup (groups \cap on)]

SetLoads(t, paths, state) ==
    [t EXCEPT !.load = [p \in DOMAIN @ \cup paths |->
                          IF p \in paths THEN state ELSE @[p]]]

\* markUnloaded of the store.
Unloaded(t, paths) ==
    [SetLoads(t, paths \cap t.paths, "unloaded") EXCEPT
       !.expanded = @ \ paths]

\* The store that the given entries and accounts build.
Built(entries, accounts) ==
    Collected(EmptyTree, accounts \cup UNION {e.accounts : e \in entries})

\* The mirrors buildStore derives from the same inputs on its own.
MirrorOf(entries, accounts) ==
    LET named == {p \in accounts \cup UNION {e.accounts : e \in entries} :
                    IsValidPath(p)}
        all == UNION {Lineage(p) : p \in named}
        parents == {Parent(p) : p \in all}
    IN  [all |-> all,
         groups |-> parents \ {Root},
         kids |-> [q \in parents |-> {p \in all : Parent(p) = q}]]

-----------------------------------------------------------------------------
(* The projection *)

Admits(c, p) == c.filter = None \/ p \in c.filter

AdmittedChildren(c, p) ==
    ByLeaf({q \in Children([children |-> c.mirror.kids], p) : Admits(c, q)})

\* A flattened row swallows p for its only child q.
Merges(c, p, q) ==
    /\ c.flatten
    /\ {p, q} \subseteq c.mirror.groups
    /\ LoadOf(c.store, p) = "loaded" /\ LoadOf(c.store, q) = "loaded"
    /\ c.mirror.kids[p] = {q}
    /\ Admits(c, q)

\* The deepest group of the chain that starts at p.
ChainEnd(c, p) ==
    LET ends == {q \in c.mirror.all :
                   /\ IsPrefix(p, q)
                   /\ \A k \in Len(p) .. Len(q) - 1 :
                        Merges(c, SubSeq(q, 1, k), SubSeq(q, 1, k + 1))}
    IN  CHOOSE q \in ends : \A other \in ends : Len(other) <= Len(q)

Frames(c, p, depth) ==
    LET children == AdmittedChildren(c, p)
    IN  [i \in DOMAIN children |->
           [path |-> ChainEnd(c, children[i]), first |-> children[i],
            depth |-> depth, posInSet |-> i, setSize |-> Len(children),
            placeholder |-> FALSE]]

\* The loading or error row of a group, ahead of the children it has already.
Placeholder(c, p, depth) ==
    IF LoadOf(c.store, p) \in {"loading", "error"}
    THEN <<[path |-> p, first |-> p, depth |-> depth, posInSet |-> 0,
            setSize |-> 0, placeholder |-> TRUE]>>
    ELSE <<>>

\* What the rows are made of.
RowInputs(c) ==
    [store |-> c.store, mirror |-> c.mirror, filter |-> c.filter, flatten |-> c.flatten]

\* What ensureProjection walks; a placeholder stands at the path of its group.
Walk(inputs) ==
    LET below(frame) ==
          IF frame.placeholder \/ ~IsExpanded(inputs.store, frame.path) THEN <<>>
          ELSE Placeholder(inputs, frame.path, frame.depth + 1)
                 \o Frames(inputs, frame.path, frame.depth + 1)
    IN  DepthFirst(Frames(inputs, Root, 0), below, 2 * Cardinality(inputs.mirror.all))

ProjectionOf(c) == Walk(RowInputs(c))

Rows(c) == IF c.projection # None THEN c.projection ELSE ProjectionOf(c)

\* getPathIndex, 0 for a path without a row.
PathIndex(rows, p) ==
    LET at == {i \in DOMAIN rows : rows[i].path = p /\ ~rows[i].placeholder}
    IN  IF at = {} THEN 0 ELSE Max(at)

-----------------------------------------------------------------------------
(* Status decorations: a severity and a count *)

MergeStatus(a, b) ==
    [severity |-> IF b.severity > a.severity THEN b.severity ELSE a.severity,
     count |-> a.count + b.count]

\* Sum and worst of the decorations at the given paths, at least one.
MergedStatus(own, paths) ==
    LET first == CHOOSE p \in paths : TRUE
    IN  FoldSet(LAMBDA p, acc : MergeStatus(acc, own[p]), own[first],
                paths \ {first})

\* rebuildStatusRollup.
RolledUp(t, own) ==
    LET live == DOMAIN own \cap t.paths
    IN  [q \in UNION {Lineage(p) : p \in live} |->
           MergedStatus(own, {p \in live : IsPrefix(q, p)})]

\* getEffectiveStatus.
EffectiveStatus(c, p) ==
    IF p \in DOMAIN c.own THEN c.own[p]
    ELSE IF IsGroup(c.store, p) /\ ~IsExpanded(c.store, p)
              /\ p \in DOMAIN c.rolled
         THEN c.rolled[p] ELSE None

-----------------------------------------------------------------------------
(* Moves *)

\* remapPathThrough: the first move that concerns the path.
RemapThrough(moves, p) ==
    LET by == {i \in DOMAIN moves : IsPrefix(moves[i].from, p)}
    IN  IF by = {} THEN p ELSE Remap(moves[Min(by)].from, moves[Min(by)].to, p)

IsRemoved(removed, p) == \E r \in removed : IsPrefix(r, p)

\* normalizeMoveSources: no duplicates, and no path below another one.
MoveSources(sources) ==
    LET covered(p) == \E q \in ToSet(sources) : IsStrictPrefix(q, p)
        list[n \in 0 .. Len(sources)] ==
          IF n = 0 THEN <<>>
          ELSE IF Contains(list[n - 1], sources[n]) \/ covered(sources[n]) THEN list[n - 1]
          ELSE Append(list[n - 1], sources[n])
    IN  list[Len(sources)]

EmptyPlan == [moves |-> <<>>, skipped |-> <<>>, replaced |-> {}]

\* Bug variant: two sources of one batch may claim the same destination.
PlanSourceTwice(c, target, collision, plan, source) ==
    LET to == Append(target, Last(source))
        move == [from |-> source, to |-> to]
        taken == to \in c.store.paths
    IN  IF \/ source \notin c.store.paths
           \/ IsPrefix(source, target)
           \/ Parent(source) = target
        THEN plan
        ELSE IF \/ IsRemoved(plan.replaced, source)
                \/ (taken /\ collision # "replace")
        THEN [plan EXCEPT !.skipped = Append(@, move)]
        ELSE [plan EXCEPT !.moves = Append(@, move),
                          !.replaced = IF taken THEN @ \cup {to} ELSE @]

\* One source of a drop, after those the plan has settled.
PlanSource(c, target, collision, plan, source) ==
    LET to == Append(target, Last(source))
        move == [from |-> source, to |-> to]
        taken == to \in c.store.paths
    IN  IF \/ source \notin c.store.paths
           \/ IsPrefix(source, target)
           \/ Parent(source) = target
        THEN plan
        ELSE IF \/ IsRemoved(plan.replaced, source)
                \/ to \in {plan.moves[i].to : i \in DOMAIN plan.moves}
                \/ (taken /\ collision # "replace")
        THEN [plan EXCEPT !.skipped = Append(@, move)]
        ELSE [plan EXCEPT !.moves = Append(@, move),
                          !.replaced = IF taken THEN @ \cup {to} ELSE @]

\* planMovePaths, source by source.
PlanMoves(c, sources, target, collision) ==
    LET list == MoveSources(sources)
        plan[n \in 0 .. Len(list)] ==
          IF n = 0 THEN EmptyPlan
          ELSE PlanSource(c, target, collision, plan[n - 1], list[n])
        whole == plan[Len(list)]
    IN  IF target \notin c.mirror.groups THEN EmptyPlan
        ELSE IF collision = "reject" /\ whole.skipped # <<>>
        THEN [whole EXCEPT !.moves = <<>>, !.skipped = whole.moves \o @]
        ELSE whole
=============================================================================
