---------------------------- MODULE AccountStore ----------------------------
(***************************************************************************)
(* AccountStore (packages/ledger-core/src/AccountStore.ts): the canonical  *)
(* chart of accounts, the topology and the visible rows derived from it on *)
(* demand, and the child-load machine of its lazy subtrees.                *)
(*                                                                         *)
(* A mutating call is synchronous: while `call` holds one, nothing else    *)
(* runs.  It applies its operations one by one and drops the caches and    *)
(* tells the listeners once, at its end.  Listeners are called last of all,*)
(* so what they do to the store is as if it came after the call.           *)
(***************************************************************************)
EXTENDS AccountTree

CONSTANTS
    Seed,        \* the sequences of postings [account, amount] it is built from
    AddSet,      \* the sets of paths a caller may add, or load as children
    RemoveSet,   \* the sets of paths a caller may remove
    MoveSet,     \* the moves [from, to] a caller may ask for
    BatchSet,    \* the sequences of operations a caller may batch
    Lazy,        \* the paths a caller may mark unloaded
    None,        \* nothing derived
    MaxDepth     \* bound on the segments of a path

(* Operations, as batchAccounts takes them. *)

Add(paths) == [type |-> "add", paths |-> paths, from |-> Root, to |-> Root]
RemoveOp(paths) == [type |-> "remove", paths |-> paths, from |-> Root, to |-> Root]
Move(m) == [type |-> "move", paths |-> {}, from |-> m.from, to |-> m.to]

\* A caller passes an array of paths.
PathLists == {paths \in SUBSET Seq(Nat) : IsFiniteSet(paths)}

Operation == [type : {"add", "remove", "move"}, paths : PathLists,
              from : Seq(Nat), to : Seq(Nat)]

ASSUME PathAssumption ==
    /\ \A paths \in AddSet \cup RemoveSet : paths \in PathLists
    /\ \A m \in MoveSet : m.from \in Seq(Nat) /\ m.to \in Seq(Nat)
    /\ \A postings \in Seed : postings \in Seq([account : Seq(Nat), amount : Int])
    /\ \A ops \in BatchSet : ops \in Seq(Operation)

VARIABLES
    tree,        \* the canonical tier
    overflow,    \* overflowCurrencies holds the currency
    derived,     \* the derived tier, or None
    visible,     \* visibleIds, or None
    call         \* the mutating call in progress, or NoCall

vars == <<tree, overflow, derived, visible, call>>

\* A call that is over; while one is in progress, its operations still to be
\* applied, the paths there were when it started, and what it has to report.
NoCall == [phase |-> "over", ops |-> <<>>, before |-> {},
           added |-> {}, removed |-> {}, moved |-> {}]

Idle == call.phase = "over"

-----------------------------------------------------------------------------
(* Reads *)

CachedDerived == IF derived # None THEN derived ELSE Topology(tree)

CachedVisible ==
    IF visible # None THEN visible ELSE Project(CachedDerived, tree.expanded)

\* getVisibleSlice over all rows.
VisibleRows ==
    [i \in DOMAIN CachedVisible |-> Row(tree, CachedDerived, CachedVisible[i])]

\* getRolledBalances, hasBalanceOverflow.
EnsureTopology ==
    /\ Idle
    /\ derived' = CachedDerived
    /\ overflow' = (overflow \/ derived'.overflow)
    /\ UNCHANGED <<tree, visible, call>>

\* getVisibleCount, getVisibleSlice.
EnsureProjection ==
    /\ Idle
    /\ derived' = CachedDerived
    /\ overflow' = (overflow \/ derived'.overflow)
    /\ visible' = CachedVisible
    /\ UNCHANGED <<tree, call>>

-----------------------------------------------------------------------------
(* Topology *)

\* Bound: no move may take a path beyond MaxDepth segments.
WithinDepth(ops) ==
    LET growths == [i \in DOMAIN ops |->
                      IF ops[i].type = "move" /\ Len(ops[i].to) > Len(ops[i].from)
                      THEN Len(ops[i].to) - Len(ops[i].from) ELSE 0]
        growth == FoldLeft(LAMBDA sum, n : sum + n, 0, growths)
    IN  growth = 0 \/ \A p \in tree.paths : Len(p) + growth <= MaxDepth

\* A mutating call enters the store with its operations to apply.
Start(ops) ==
    /\ Idle
    /\ ops # <<>>
    /\ WithinDepth(ops)
    /\ call' = [NoCall EXCEPT !.phase = "running", !.ops = ops, !.before = tree.paths]
    /\ UNCHANGED <<tree, overflow, derived, visible>>

AddAccounts(paths) == Start(<<Add(paths)>>)
RemoveAccounts(paths) == Start(<<RemoveOp(paths)>>)
MoveAccount(m) == Start(<<Move(m)>>)
BatchAccounts(ops) == Start(ops)

\* The next operation, if it is of the given type.
Applying(type) == ~Idle /\ call.ops # <<>> /\ Head(call.ops).type = type

\* The call with so many operations left and so much more to report.
Reporting(ops, added, removed, moved) ==
    [phase |-> "running", ops |-> ops, before |-> call.before,
     added |-> call.added \cup added,
     removed |-> call.removed \cup removed,
     moved |-> call.moved \cup moved]

ApplyAdd ==
    /\ Applying("add")
    /\ LET op == Head(call.ops)
       IN  /\ tree' = Collected(tree, op.paths)
           /\ call' = Reporting(Tail(call.ops), Missing(tree, op.paths), {}, {})
    /\ UNCHANGED <<overflow, derived, visible>>

ApplyRemove ==
    /\ Applying("remove")
    /\ LET op == Head(call.ops)
       IN  /\ tree' = Removed(tree, op.paths)
           /\ call' = Reporting(Tail(call.ops), {}, Doomed(tree, op.paths), {})
    /\ UNCHANGED <<overflow, derived, visible>>

\* Bug variant: the ancestors created for the target are not reported.
ApplyMoveUntold ==
    /\ Applying("move")
    /\ LET from == Head(call.ops).from
           to == Head(call.ops).to
           moved == {<<p, Remap(from, to, p)>> : p \in Subtree(tree, from)}
       IN  IF MoveAllowed(tree, from, to)
           THEN /\ tree' = Moved(tree, from, to)
                /\ call' = Reporting(Tail(call.ops), {}, {}, moved)
           ELSE /\ call' = Reporting(<<>>, {}, {}, {})
                /\ UNCHANGED tree
    /\ UNCHANGED <<overflow, derived, visible>>

\* A rejected move ends the call; what was applied before it stays.
ApplyMove ==
    /\ Applying("move")
    /\ LET from == Head(call.ops).from
           to == Head(call.ops).to
           moved == {<<p, Remap(from, to, p)>> : p \in Subtree(tree, from)}
           created == WithAncestors(tree, to).paths \ tree.paths
       IN  IF MoveAllowed(tree, from, to)
           THEN /\ tree' = Moved(tree, from, to)
                /\ call' = Reporting(Tail(call.ops), created, {}, moved)
           ELSE /\ call' = Reporting(<<>>, {}, {}, {})
                /\ UNCHANGED tree
    /\ UNCHANGED <<overflow, derived, visible>>

\* markTopologyDirty and emitTopologyChange, unless nothing changed.
Finish ==
    /\ ~Idle
    /\ call.ops = <<>>
    /\ IF call.added \cup call.removed # {} \/ call.moved # {}
       THEN derived' = None /\ visible' = None
       ELSE UNCHANGED <<derived, visible>>
    /\ call' = NoCall
    /\ UNCHANGED <<tree, overflow>>

-----------------------------------------------------------------------------
(* Expansion *)

SetExpanded(p, on) ==
    /\ Idle
    /\ IsGroup(tree, p)
    /\ on # (p \in tree.expanded)
    /\ tree' = [tree EXCEPT !.expanded = IF on THEN @ \cup {p} ELSE @ \ {p}]
    /\ visible' = None
    /\ UNCHANGED <<overflow, derived, call>>

\* Groups whose children are all still to be fetched are left alone.
ExpandAll ==
    /\ Idle
    /\ tree' = [tree EXCEPT !.expanded =
                  @ \cup {p \in DOMAIN tree.children \ {Root} :
                            tree.children[p] # {}}]
    /\ visible' = None
    /\ UNCHANGED <<overflow, derived, call>>

CollapseAll ==
    /\ Idle
    /\ tree' = [tree EXCEPT !.expanded = {}]
    /\ visible' = None
    /\ UNCHANGED <<overflow, derived, call>>

-----------------------------------------------------------------------------
(* Child loading *)

SetLoad(t, p, state) ==
    [t EXCEPT !.load = [q \in DOMAIN @ \cup {p} |-> IF q = p THEN state ELSE @[q]]]

LoadState(p) == IF p \in DOMAIN tree.load THEN tree.load[p] ELSE "loaded"

\* Bug variant: the rows survive the collapse.
MarkUnloadedKeepsRows(p) ==
    /\ Idle
    /\ p \in tree.paths
    /\ tree' = [SetLoad(tree, p, "unloaded") EXCEPT !.expanded = @ \ {p}]
    /\ UNCHANGED <<overflow, derived, visible, call>>

MarkUnloaded(p) ==
    /\ Idle
    /\ p \in tree.paths
    /\ tree' = [SetLoad(tree, p, "unloaded") EXCEPT !.expanded = @ \ {p}]
    /\ visible' = IF p \in tree.expanded THEN None ELSE visible
    /\ UNCHANGED <<overflow, derived, call>>

BeginChildLoad(p) ==
    /\ Idle
    /\ LoadState(p) \in {"unloaded", "error"}
    /\ tree' = SetLoad(tree, p, "loading")
    /\ UNCHANGED <<overflow, derived, visible, call>>

\* The caches are dropped only if a path was created.
CompleteChildLoad(p, childPaths) ==
    /\ Idle
    /\ LoadState(p) = "loading"
    /\ LET t == Collected(tree, childPaths)
       IN  tree' = [t EXCEPT !.load = [q \in DOMAIN @ \ {p} |-> @[q]]]
    /\ IF Missing(tree, childPaths) # {}
       THEN derived' = None /\ visible' = None
       ELSE UNCHANGED <<derived, visible>>
    /\ UNCHANGED <<overflow, call>>

FailChildLoad(p) ==
    /\ Idle
    /\ LoadState(p) = "loading"
    /\ tree' = SetLoad(tree, p, "error")
    /\ UNCHANGED <<overflow, derived, visible, call>>

-----------------------------------------------------------------------------
(* The constructor *)

\* One turn of the second loop, as one account sees it: postings elsewhere, and
\* those with unsafe amounts, are skipped.
Posted(acc, e, p) ==
    IF e.account = p /\ IsSafeInteger(e.amount)
    THEN LET balance == Float(acc.balance + e.amount)
         IN  [balance |-> balance, postings |-> acc.postings + 1,
              overflow |-> acc.overflow \/ ~IsSafeInteger(balance)]
    ELSE acc

\* Their sum and count, and whether the sum ever left the safe range.
Accumulated(postings, p) ==
    FoldLeft(LAMBDA acc, e : Posted(acc, e, p),
             [balance |-> 0, postings |-> 0, overflow |-> FALSE], postings)

BuiltTree(postings) ==
    LET t == Collected(EmptyTree, {e.account : e \in ToSet(postings)})
        held == {p \in t.paths : Accumulated(postings, p).postings # 0}
    IN  [t EXCEPT !.own =
           [p \in held |-> [balance |-> Accumulated(postings, p).balance,
                            postings |-> Accumulated(postings, p).postings]]]

Init ==
    /\ \E postings \in Seed :
         /\ tree = BuiltTree(postings)
         /\ overflow = \E p \in tree.paths : Accumulated(postings, p).overflow
    /\ derived = None
    /\ visible = None
    /\ call = NoCall

Next ==
    \/ EnsureTopology
    \/ EnsureProjection
    \/ \E paths \in AddSet : AddAccounts(paths)
    \/ \E paths \in RemoveSet : RemoveAccounts(paths)
    \/ \E m \in MoveSet : MoveAccount(m)
    \/ \E ops \in BatchSet : BatchAccounts(ops)
    \/ ApplyAdd
    \/ ApplyRemove
    \/ ApplyMove
    \/ Finish
    \/ \E p \in tree.paths, on \in BOOLEAN : SetExpanded(p, on)
    \/ ExpandAll
    \/ CollapseAll
    \/ \E p \in Lazy : MarkUnloaded(p)
    \/ \E p \in DOMAIN tree.load : BeginChildLoad(p)
    \/ \E p \in DOMAIN tree.load, paths \in AddSet : CompleteChildLoad(p, paths)
    \/ \E p \in DOMAIN tree.load : FailChildLoad(p)

Spec == Init /\ [][Next]_vars

-----------------------------------------------------------------------------
(* Safety *)

\* Between any two operations, those of one batch included.
TreeConsistent == Forest(tree) /\ NoOrphans(tree)

\* When no call is in progress, what is cached is what would be derived now:
\* no operation changes the tree or the expansion and leaves a cache behind,
\* although only some drop them and each only under its own condition.
CachesCoherent ==
    Idle => /\ derived # None => /\ derived = Topology(tree)
                                 /\ derived.overflow => overflow
            /\ visible # None => visible = Project(Topology(tree), tree.expanded)

\* Own balance plus those of all descendants.
TotalAt(t, p) ==
    MapThenSumSet(LAMBDA q : t.own[q].balance,
                  {q \in DOMAIN t.own : IsPrefix(p, q)})

\* Paths in the order of a table of contents.
PathOrder(p, q) ==
    \/ IsStrictPrefix(p, q)
    \/ \E i \in DOMAIN p \cap DOMAIN q :
         p[i] < q[i] /\ \A j \in 1 .. i - 1 : p[j] = q[j]

\* A row is shown for each path whose ancestors are all expanded, in the order
\* of the paths, and says the truth: a group is what has children or has some
\* to fetch, the position is the one among its siblings, and the rolled-up
\* balance is exact unless the currency is flagged.
RowsHonest ==
    Idle =>
      LET shown == {p \in tree.paths : Lineage(p) \ {p} \subseteq tree.expanded}
          rows == VisibleRows
          siblings(p) == {q \in tree.paths : Parent(q) = Parent(p)}
          flagged == overflow \/ CachedDerived.overflow
      IN  /\ {rows[i].path : i \in DOMAIN rows} = shown
          /\ \A i \in 1 .. Len(rows) - 1 : PathOrder(rows[i].path, rows[i + 1].path)
          /\ \A i \in DOMAIN rows :
               LET p == rows[i].path
               IN  /\ rows[i].group <=> \/ \E q \in tree.paths : Parent(q) = p
                                        \/ LoadState(p) # "loaded"
                   /\ rows[i].setSize = Cardinality(siblings(p))
                   /\ rows[i].posInSet =
                        Cardinality({q \in siblings(p) : ~PathOrder(p, q)})
                   /\ rows[i].rolled = TotalAt(tree, p) \/ flagged

\* A move loses and invents no money: what the source rolled up to, the target
\* does, and the total of the chart is what it was.
MoveKeepsMoney ==
    [][ApplyMove /\ tree' # tree =>
         /\ TotalAt(tree', Head(call.ops).to) = TotalAt(tree, Head(call.ops).from)
         /\ TotalAt(tree', Root) = TotalAt(tree, Root)]_vars

\* At the end of a call its event accounts for every path that appeared or
\* disappeared since the start, whatever the operations and wherever a rejected
\* move cut them short; a call that has nothing to report changed nothing.
EventHonest ==
    ~Idle /\ call.ops = <<>> =>
      /\ tree.paths \ call.before \subseteq
           call.added \cup {pair[2] : pair \in call.moved}
      /\ call.before \ tree.paths \subseteq
           call.removed \cup {pair[1] : pair \in call.moved}

\* What a call makes of the chart, as its rows, its totals and its event tell.
CallsHonest == [](RowsHonest /\ EventHonest) /\ MoveKeepsMoney

\* "promoting a pre-existing leaf parent to an expanded group" is all a move
\* does to the expansion of paths that do not move: a group that was collapsed
\* stays collapsed (AccountStore.ts:851-852).  The code does not keep it for a group
\* whose only child is renamed, so no run checks it.
MoveKeepsExpansion ==
    [][ApplyMove =>
         \A p \in tree.paths \cap tree'.paths :
           IsGroup(tree, p) /\ p \notin tree.expanded => p \notin tree'.expanded]_vars
=============================================================================
