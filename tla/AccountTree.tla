---------------------------- MODULE AccountTree ----------------------------
(***************************************************************************)
(* The chart of accounts of AccountStore (packages/ledger-core/src/        *)
(* AccountStore.ts) as pure operators: its canonical tier, the primitives  *)
(* that edit it, and the two tiers derived from it on demand.              *)
(*                                                                         *)
(* A path is a sequence of segments, the segments being naturals since the *)
(* code only compares them; 0 is the empty segment, which makes a path     *)
(* invalid.  The canonical tier is a record:                               *)
(*   paths     pathSet                                                     *)
(*   children  childPathsByParent, Root standing for ''; a set may be empty*)
(*   expanded  expandedPaths                                               *)
(*   load      childLoadByPath; a path that is absent is loaded            *)
(*   own       ownBalancesByPath and postingCountsByPath, of one currency: *)
(*             currencies never meet in the code                           *)
(* Sets lose the order in which Sets and Maps were filled, which no read   *)
(* shows: siblings are sorted, and events are compared as sets.            *)
(***************************************************************************)
EXTENDS SafeInteger, Sequences, SequencesExt, FiniteSets, FiniteSetsExt

Root == <<>>

\* isValidAccountPath.
IsValidPath(p) == p # Root /\ \A i \in DOMAIN p : p[i] # 0

\* getParentAccountPath, Root at the top level.
Parent(p) == SubSeq(p, 1, Len(p) - 1)

\* getAncestorAccountPaths, and the path itself.
Lineage(p) == {SubSeq(p, 1, k) : k \in 1 .. Len(p)}

EmptyTree == [paths |-> {}, children |-> <<>>, expanded |-> {}, load |-> <<>>,
              own |-> <<>>]

Children(t, p) == IF p \in DOMAIN t.children THEN t.children[p] ELSE {}

IsGroup(t, p) ==
    p \in t.paths /\ (Children(t, p) # {} \/ p \in DOMAIN t.load)

\* What the code's walk over childPathsByParent meets from p down.
Subtree(t, p) ==
    {q \in t.paths :
       /\ IsPrefix(p, q)
       /\ p \in t.paths
       /\ \A k \in Len(p) + 1 .. Len(q) :
            SubSeq(q, 1, k) \in Children(t, SubSeq(q, 1, k - 1))}

\* The path set and the children map, edited separately by every operation,
\* describe the same forest: every path is valid and has its ancestors, and is
\* listed exactly under its parent.
Forest(t) ==
    /\ \A p \in t.paths : IsValidPath(p) /\ Lineage(p) \subseteq t.paths
    /\ DOMAIN t.children \subseteq t.paths \cup {Root}
    /\ \A p \in t.paths \cup {Root} :
         Children(t, p) = {c \in t.paths : Parent(c) = p}

\* Nothing is held for a path that is gone: an account removed or moved away
\* leaves no expansion, no load in flight and no money behind to reappear when
\* the path is used again.
NoOrphans(t) ==
    t.expanded \cup DOMAIN t.load \cup DOMAIN t.own \subseteq t.paths

-----------------------------------------------------------------------------
(* Editing *)

\* What collectPathWithAncestors creates for the paths asked.
Missing(t, asked) ==
    (UNION {Lineage(p) : p \in {q \in asked : IsValidPath(q)}}) \ t.paths

\* collectPathWithAncestors on each path asked, in any order: what is new is
\* expanded, and so is a parent that had no children.
Collected(t, asked) ==
    LET new == Missing(t, asked)
        parents == {Parent(p) : p \in new}
    IN  [t EXCEPT
           !.paths = @ \cup new,
           !.children = [p \in DOMAIN t.children \cup parents |->
                           Children(t, p) \cup {c \in new : Parent(c) = p}],
           !.expanded = @ \cup new \cup
                          {p \in parents \ {Root} : Children(t, p) = {}}]

\* What removeSubtree removes for the paths asked.
Doomed(t, asked) == UNION {Subtree(t, p) : p \in asked}

\* Bug variant: the loads of removed paths are kept.
RemovedKeepsLoads(t, asked) ==
    LET gone == Doomed(t, asked)
    IN  [t EXCEPT
           !.paths = @ \ gone,
           !.children = [p \in DOMAIN @ \ gone |-> @[p] \ gone],
           !.expanded = @ \ gone,
           !.own = [p \in DOMAIN @ \ gone |-> @[p]]]

Removed(t, asked) ==
    LET gone == Doomed(t, asked)
    IN  [t EXCEPT
           !.paths = @ \ gone,
           !.children = [p \in DOMAIN @ \ gone |-> @[p] \ gone],
           !.expanded = @ \ gone,
           !.load = [p \in DOMAIN @ \ gone |-> @[p]],
           !.own = [p \in DOMAIN @ \ gone |-> @[p]]]

\* Bug variant: a target that exists is overwritten.
MoveAllowedOnto(t, from, to) ==
    /\ from \in t.paths
    /\ IsValidPath(to)
    /\ ~IsPrefix(from, to)

\* validateMove.
MoveAllowed(t, from, to) ==
    /\ from \in t.paths
    /\ IsValidPath(to)
    /\ ~IsPrefix(from, to)
    /\ to \notin t.paths

\* The path that p becomes when `from` is renamed `to`.
Remap(from, to, p) == to \o SubSeq(p, Len(from) + 1, Len(p))

\* What the target of a move needs before the subtree is detached.
WithAncestors(t, to) ==
    IF Len(to) = 1 THEN t ELSE Collected(t, {Parent(to)})

\* Every path of the subtree is re-keyed with what the store holds for it, and
\* the root is attached to its new parent, which is expanded if it has no
\* children at that point.
Rekeyed(t, from, to) ==
    LET subtree == Subtree(t, from)
        new(p) == Remap(from, to, p)
        old(q) == Remap(to, from, q)
        moved(D) == {new(p) : p \in D \cap subtree}
        keys(D) == (D \ subtree) \cup moved(D)
        carried(f) == [q \in keys(DOMAIN f) |->
                         IF q \in moved(DOMAIN f) THEN f[old(q)] ELSE f[q]]
        children == [q \in keys(DOMAIN t.children) |->
                       IF q \in moved(DOMAIN t.children)
                       THEN {new(c) : c \in t.children[old(q)]}
                       ELSE t.children[q] \ {from}]
        siblings == IF Parent(to) \in DOMAIN children THEN children[Parent(to)] ELSE {}
    IN  [paths |-> keys(t.paths),
         children |-> [q \in DOMAIN children \cup {Parent(to)} |->
                         IF q = Parent(to) THEN siblings \cup {to} ELSE children[q]],
         expanded |-> keys(t.expanded)
                        \cup (IF siblings = {} THEN {Parent(to)} \ {Root} ELSE {}),
         load |-> carried(t.load),
         own |-> carried(t.own)]

\* moveSubtree.
Moved(t, from, to) == Rekeyed(WithAncestors(t, to), from, to)

-----------------------------------------------------------------------------
(* Deriving *)

\* Accounts by leaf name, one before another the fewer leaf names are before its own.
ByLeaf(paths) ==
    LET before(p) == {q \in paths : Last(q) < Last(p)}
    IN  [i \in 1 .. Cardinality(paths) |->
           CHOOSE p \in paths : Cardinality(before(p)) = i - 1]

\* The children of a path.
Siblings(children, p) ==
    ByLeaf(IF p \in DOMAIN children THEN children[p] ELSE {})

\* A walk with an explicit stack, which takes at most the given turns.
DepthFirst(first, Below(_), turns) ==
    LET turned(walk) ==
          IF walk.stack = <<>> THEN walk
          ELSE [out |-> Append(walk.out, Head(walk.stack)),
                stack |-> Below(Head(walk.stack)) \o Tail(walk.stack)]
        after[n \in 0 .. turns] ==
          IF n = 0 THEN [out |-> <<>>, stack |-> first] ELSE turned(after[n - 1])
    IN  after[turns].out

\* pathsById: node ids are the positions of the paths in preorder.
Preorder(paths, children) ==
    DepthFirst(Siblings(children, Root), LAMBDA p : Siblings(children, p),
               Cardinality(paths))

\* Bug variant: only the grand total is checked.
RollUpChecksTotal(order, balance) ==
    LET done == FoldLeft(LAMBDA rolled, p :
                  [rolled EXCEPT ![Parent(p)] = Float(@ + rolled[p])],
                balance, Reverse(order))
    IN  [rolled |-> done, overflow |-> ~IsSafeInteger(done[Root])]

\* One pass over the ids in reverse adds every node to its parent; a sum that
\* leaves the safe range is remembered even when a later one returns into it.
RollUp(order, balance) ==
    FoldLeft(LAMBDA acc, p :
               LET up == Float(acc.rolled[Parent(p)] + acc.rolled[p])
               IN  [rolled |-> [acc.rolled EXCEPT ![Parent(p)] = up],
                    overflow |-> acc.overflow \/ ~IsSafeInteger(up)],
             [rolled |-> balance, overflow |-> FALSE], Reverse(order))

\* ensureTopology: everything a row shows except what expansion and loading say.
Derive(paths, children, own) ==
    LET order == Preorder(paths, children)
        nodes == ToSet(order) \cup {Root}
        balance == [p \in nodes |-> IF p \in DOMAIN own THEN own[p].balance ELSE 0]
        sums == RollUp(order, balance)
    IN  [order |-> order,
         sorted |-> [p \in nodes |-> Siblings(children, p)],
         own |-> balance,
         rolled |-> sums.rolled,
         overflow |-> sums.overflow,
         postings |-> [p \in nodes |->
                         IF p \in DOMAIN own THEN own[p].postings ELSE 0]]

Topology(t) == Derive(t.paths, t.children, t.own)

\* ensureProjection: the ids met by a walk that only enters expanded groups.
Project(derived, expanded) ==
    LET id(p) == CHOOSE i \in DOMAIN derived.order : derived.order[i] = p
        ids(p) == [i \in DOMAIN derived.sorted[p] |-> id(derived.sorted[p][i])]
    IN  DepthFirst(ids(Root),
                   LAMBDA i : IF derived.order[i] \in expanded
                              THEN ids(derived.order[i]) ELSE <<>>,
                   Len(derived.order))

\* materializeRow: the derived columns, and the live expansion and load maps.
Row(t, derived, id) ==
    LET p == derived.order[id]
        siblings == derived.sorted[Parent(p)]
        group == derived.sorted[p] # <<>> \/ p \in DOMAIN t.load
    IN  [path |-> p,
         depth |-> Len(p) - 1,
         group |-> group,
         expanded |-> group /\ p \in t.expanded,
         own |-> derived.own[p],
         rolled |-> derived.rolled[p],
         postings |-> derived.postings[p],
         setSize |-> Len(siblings),
         posInSet |-> CHOOSE i \in DOMAIN siblings : siblings[i] = p]
=============================================================================
