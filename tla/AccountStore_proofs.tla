------------------------ MODULE AccountStore_proofs ------------------------
(***************************************************************************)
(* The safety of AccountStore for every chart of accounts, every sequence  *)
(* of operations, and paths of any length.                                 *)
(***************************************************************************)
EXTENDS AccountStore, AccountTree_proofs, FiniteSetTheorems

-----------------------------------------------------------------------------
(* The canonical tier *)

TreeInv ==
    /\ Sound(tree)
    /\ call.ops \in Seq(Operation)

LEMMA EmptySound == Sound(EmptyTree)
  <1>1. Shape(EmptyTree)
    BY DEF Shape, EmptyTree, IsFcn
  <1>2. Forest(EmptyTree)
    BY DEF Forest, EmptyTree, Children
  <1>3. NoOrphans(EmptyTree)
    BY DEF NoOrphans, EmptyTree
  <1> QED  BY <1>1, <1>2, <1>3 DEF Sound

LEMMA BuiltSound ==
    ASSUME NEW postings \in Seed
    PROVE  Sound(BuiltTree(postings))
  <1> DEFINE asked == {e.account : e \in ToSet(postings)}
             t == Collected(EmptyTree, asked)
             u == BuiltTree(postings)
  <1>1. asked \subseteq Path
    <2> DEFINE Data == [account : Path, amount : Int]
    <2>1. postings \in Seq(Data)
      BY PathAssumption DEF Path
    <2>2. \A e \in Data : e.account \in Path
      OBVIOUS
    <2> HIDE DEF Data
    <2>3. \A i \in DOMAIN postings : postings[i] \in Data
      BY <2>1
    <2>4. \A e \in ToSet(postings) : e \in Data
      BY <2>3 DEF ToSet
    <2> QED  BY <2>2, <2>4
  <1>2. Sound(t)
    BY <1>1, EmptySound, CollectedSound
  <1> HIDE DEF t
  <1> DEFINE held == {p \in t.paths : Accumulated(postings, p).postings # 0}
             own == [p \in held |->
                       [balance |-> Accumulated(postings, p).balance,
                        postings |-> Accumulated(postings, p).postings]]
  <1>3. DOMAIN own \subseteq t.paths /\ IsFcn(own)
    BY DEF IsFcn
  <1>4. u = [t EXCEPT !.own = own]
    BY DEF BuiltTree, t
  <1> HIDE DEF own, u
  <1>5. /\ u.paths = t.paths /\ u.children = t.children
        /\ u.expanded = t.expanded /\ u.load = t.load
        /\ DOMAIN u.own \subseteq t.paths /\ IsFcn(u.own)
        /\ u = [paths |-> u.paths, children |-> u.children,
                expanded |-> u.expanded, load |-> u.load, own |-> u.own]
    BY <1>2, <1>3, <1>4 DEF Sound, Shape
  <1> QED  BY <1>2, <1>5 DEF Sound, Shape, Forest, NoOrphans, Children, u

\* Expansion and load states can be set freely for paths that are there.
LEMMA MarkSound ==
    ASSUME NEW t, Sound(t), NEW u,
           u.paths = t.paths, u.children = t.children, u.own = t.own,
           u = [paths |-> u.paths, children |-> u.children,
                expanded |-> u.expanded, load |-> u.load, own |-> u.own],
           IsFcn(u.load), u.expanded \cup DOMAIN u.load \subseteq t.paths
    PROVE  Sound(u)
  BY DEF Sound, Shape, Forest, NoOrphans, Children

LEMMA SetLoadFields ==
    ASSUME NEW t, Shape(t), NEW p, NEW state, NEW u, u = SetLoad(t, p, state)
    PROVE  /\ u.paths = t.paths /\ u.children = t.children /\ u.own = t.own
           /\ u.expanded = t.expanded
           /\ DOMAIN u.load = DOMAIN t.load \cup {p} /\ IsFcn(u.load)
           /\ u = [paths |-> u.paths, children |-> u.children,
                   expanded |-> u.expanded, load |-> u.load, own |-> u.own]
  BY DEF SetLoad, Shape, IsFcn

LEMMA SetLoadSound ==
    ASSUME NEW t, Sound(t), NEW p \in t.paths, NEW state
    PROVE  Sound(SetLoad(t, p, state))
  BY SetLoadFields, MarkSound DEF Sound, NoOrphans

LEMMA TreeStep == TreeInv /\ [Next]_vars => TreeInv'
  <1> SUFFICES ASSUME TreeInv, [Next]_vars PROVE TreeInv'
    OBVIOUS
  <1>1. Sound(tree)
    BY DEF TreeInv
  <1>2. /\ tree = [paths |-> tree.paths, children |-> tree.children,
                   expanded |-> tree.expanded, load |-> tree.load, own |-> tree.own]
        /\ tree.paths \subseteq Path
        /\ IsFcn(tree.load)
        /\ tree.expanded \cup DOMAIN tree.load \subseteq tree.paths
        /\ DOMAIN tree.children \subseteq tree.paths \cup {Root}
    BY <1>1 DEF Sound, Shape, Forest, NoOrphans
  <1>3. ASSUME NEW ops, Start(ops), ops \in Seq(Operation) PROVE TreeInv'
    BY <1>1, <1>3 DEF Start, TreeInv, NoCall
  <1>4. ASSUME NEW paths \in AddSet, AddAccounts(paths) PROVE TreeInv'
    <2>1. <<Add(paths)>> \in Seq(Operation)
      BY PathAssumption DEF Add, Operation, Root, PathLists
    <2> QED  BY <1>3, <1>4, <2>1 DEF AddAccounts
  <1>5. ASSUME NEW paths \in RemoveSet, RemoveAccounts(paths) PROVE TreeInv'
    <2>1. <<RemoveOp(paths)>> \in Seq(Operation)
      BY PathAssumption DEF RemoveOp, Operation, Root, PathLists
    <2> QED  BY <1>3, <1>5, <2>1 DEF RemoveAccounts
  <1>6. ASSUME NEW m \in MoveSet, MoveAccount(m) PROVE TreeInv'
    <2>1. <<Move(m)>> \in Seq(Operation)
      BY PathAssumption, FS_EmptySet DEF Move, Operation, PathLists
    <2> QED  BY <1>3, <1>6, <2>1 DEF MoveAccount
  <1>7. ASSUME NEW ops \in BatchSet, BatchAccounts(ops) PROVE TreeInv'
    BY <1>3, <1>7, PathAssumption DEF BatchAccounts
  <1>8. ASSUME ~Idle, call.ops # <<>>
        PROVE  /\ Head(call.ops) \in Operation
               /\ Tail(call.ops) \in Seq(Operation)
    BY <1>8 DEF TreeInv
  <1>9. ASSUME ApplyAdd PROVE TreeInv'
    <2>1. Head(call.ops).paths \subseteq Path /\ Tail(call.ops) \in Seq(Operation)
      BY <1>8, <1>9 DEF ApplyAdd, Applying, Operation, Path, PathLists
    <2>2. Sound(tree')
      BY <1>1, <1>9, <2>1, CollectedSound DEF ApplyAdd
    <2> QED  BY <1>9, <2>1, <2>2 DEF ApplyAdd, Reporting, TreeInv
  <1>10. ASSUME ApplyRemove PROVE TreeInv'
    <2>1. Tail(call.ops) \in Seq(Operation)
      BY <1>8, <1>10 DEF ApplyRemove, Applying
    <2>2. Sound(tree')
      BY <1>1, <1>10, RemovedSound DEF ApplyRemove
    <2> QED  BY <1>10, <2>1, <2>2 DEF ApplyRemove, Reporting, TreeInv
  <1>11. ASSUME ApplyMove PROVE TreeInv'
    <2> DEFINE from == Head(call.ops).from
               to == Head(call.ops).to
    <2>1. /\ Tail(call.ops) \in Seq(Operation)
          /\ <<>> \in Seq(Operation)
          /\ to \in Path
      BY <1>8, <1>11 DEF ApplyMove, Applying, Operation, Path
    <2>2. CASE MoveAllowed(tree, from, to)
      <3>1. tree' = Moved(tree, from, to)
        BY <1>11, <2>2 DEF ApplyMove
      <3>2. Sound(tree')
        BY <1>1, <2>1, <2>2, <3>1, MovedSound
      <3>3. call'.ops = Tail(call.ops)
        BY <1>11, <2>2 DEF ApplyMove, Reporting
      <3> QED  BY <2>1, <3>2, <3>3 DEF TreeInv
    <2>3. CASE ~MoveAllowed(tree, from, to)
      <3>1. tree' = tree /\ call'.ops = <<>>
        BY <1>11, <2>3 DEF ApplyMove, Reporting
      <3> QED  BY <1>1, <2>1, <3>1 DEF TreeInv
    <2> QED  BY <2>2, <2>3
  <1>12. ASSUME Finish PROVE TreeInv'
    BY <1>1, <1>12 DEF Finish, TreeInv, NoCall
  <1>13. ASSUME NEW p \in tree.paths, NEW on \in BOOLEAN, SetExpanded(p, on)
         PROVE  TreeInv'
    <2>1. tree'.expanded \subseteq tree.paths
      BY <1>2, <1>13 DEF SetExpanded
    <2>2. Sound(tree')
      BY <1>1, <1>2, <1>13, <2>1, MarkSound DEF SetExpanded
    <2> QED  BY <2>2, <1>13 DEF SetExpanded, TreeInv
  <1>14. ASSUME ExpandAll PROVE TreeInv'
    <2>1. tree'.expanded \subseteq tree.paths
      BY <1>2, <1>14 DEF ExpandAll
    <2>2. Sound(tree')
      BY <1>1, <1>2, <1>14, <2>1, MarkSound DEF ExpandAll
    <2> QED  BY <2>2, <1>14 DEF ExpandAll, TreeInv
  <1>15. ASSUME CollapseAll PROVE TreeInv'
    <2>1. Sound(tree')
      BY <1>1, <1>2, <1>15, MarkSound DEF CollapseAll
    <2> QED  BY <2>1, <1>15 DEF CollapseAll, TreeInv
  <1>16. ASSUME NEW p \in Lazy, MarkUnloaded(p) PROVE TreeInv'
    <2> DEFINE u == SetLoad(tree, p, "unloaded")
    <2>1. p \in tree.paths /\ tree' = [u EXCEPT !.expanded = u.expanded \ {p}]
      BY <1>16 DEF MarkUnloaded
    <2>2. /\ u.paths = tree.paths /\ u.children = tree.children /\ u.own = tree.own
          /\ u.expanded = tree.expanded
          /\ DOMAIN u.load = DOMAIN tree.load \cup {p} /\ IsFcn(u.load)
          /\ u = [paths |-> u.paths, children |-> u.children,
                  expanded |-> u.expanded, load |-> u.load, own |-> u.own]
      BY <1>1, SetLoadFields DEF Sound
    <2> HIDE DEF u
    <2>3. Sound(tree')
      BY <1>1, <1>2, <2>1, <2>2, MarkSound
    <2> QED  BY <2>3, <1>16 DEF MarkUnloaded, TreeInv
  <1>17. ASSUME NEW p \in DOMAIN tree.load, BeginChildLoad(p) PROVE TreeInv'
    <2>1. Sound(tree')
      BY <1>1, <1>2, <1>17, SetLoadSound DEF BeginChildLoad
    <2> QED  BY <2>1, <1>17 DEF BeginChildLoad, TreeInv
  <1>18. ASSUME NEW p \in DOMAIN tree.load, FailChildLoad(p) PROVE TreeInv'
    <2>1. Sound(tree')
      BY <1>1, <1>2, <1>18, SetLoadSound DEF FailChildLoad
    <2> QED  BY <2>1, <1>18 DEF FailChildLoad, TreeInv
  <1>19. ASSUME NEW p \in DOMAIN tree.load, NEW paths \in AddSet,
                CompleteChildLoad(p, paths)
         PROVE  TreeInv'
    <2> DEFINE t == Collected(tree, paths)
    <2>1. Sound(t)
      BY <1>1, PathAssumption, CollectedSound DEF Path, PathLists
    <2> HIDE DEF t
    <2>2. tree' = [t EXCEPT !.load = [q \in DOMAIN t.load \ {p} |-> t.load[q]]]
      BY <1>19 DEF CompleteChildLoad, t
    <2>3. /\ t = [paths |-> t.paths, children |-> t.children,
                  expanded |-> t.expanded, load |-> t.load, own |-> t.own]
          /\ t.expanded \cup DOMAIN t.load \subseteq t.paths
      BY <2>1 DEF Sound, Shape, NoOrphans
    <2>4. /\ tree'.paths = t.paths /\ tree'.children = t.children
          /\ tree'.own = t.own /\ tree'.expanded = t.expanded
          /\ DOMAIN tree'.load \subseteq DOMAIN t.load /\ IsFcn(tree'.load)
          /\ tree' = [paths |-> tree'.paths, children |-> tree'.children,
                      expanded |-> tree'.expanded, load |-> tree'.load,
                      own |-> tree'.own]
      BY <2>2, <2>3 DEF IsFcn
    <2>5. Sound(tree')
      BY <2>1, <2>3, <2>4, MarkSound
    <2> QED  BY <2>5, <1>19 DEF CompleteChildLoad, TreeInv
  <1>20. ASSUME EnsureTopology \/ EnsureProjection \/ UNCHANGED vars PROVE TreeInv'
    <2>1. tree' = tree /\ call' = call
      BY <1>20 DEF EnsureTopology, EnsureProjection, vars
    <2> QED  BY <2>1 DEF TreeInv
  <1> QED
    BY <1>4, <1>5, <1>6, <1>7, <1>9, <1>10, <1>11, <1>12, <1>13, <1>14, <1>15,
       <1>16, <1>17, <1>18, <1>19, <1>20 DEF Next

\* After any sequence of operations, and between the operations of a batch, the
\* path set and the children map agree and nothing is held for a missing path.
THEOREM TreeAlwaysConsistent == Spec => []TreeConsistent
  <1>1. Init => TreeInv
    BY BuiltSound DEF Init, TreeInv, NoCall
  <1>2. TreeInv => TreeConsistent
    BY DEF TreeInv, TreeConsistent, Sound
  <1> QED  BY <1>1, <1>2, TreeStep, PTL DEF Spec

-----------------------------------------------------------------------------
(* The caches *)

Coherent ==
    /\ derived # None => derived = Topology(tree) /\ (derived.overflow => overflow)
    /\ visible # None => visible = Project(Topology(tree), tree.expanded)

\* While a call has changed nothing, there is nothing to drop; once it has, it
\* will drop everything.
Unchanged == call.added \cup call.removed = {} /\ call.moved = {}

CacheInv == Idle \/ Unchanged => Coherent

\* An operation that creates or removes nothing leaves the tree as it was.
LEMMA NothingCollected ==
    ASSUME NEW t, Shape(t), NEW asked
    PROVE  Missing(t, asked) = {} => Collected(t, asked) = t
  <1> SUFFICES ASSUME NEW u, u = Collected(t, asked)
               PROVE  Missing(t, asked) = {} => u = t
    OBVIOUS
  <1> DEFINE new == Missing(t, asked)
             parents == {Parent(p) : p \in new}
  <1>1. /\ u.paths = t.paths \cup new
        /\ u.children = [p \in DOMAIN t.children \cup parents |->
                           Children(t, p) \cup {c \in new : Parent(c) = p}]
        /\ u.expanded = t.expanded \cup new \cup
                          {p \in parents \ {Root} : Children(t, p) = {}}
        /\ u.load = t.load
        /\ u.own = t.own
        /\ u = [paths |-> u.paths, children |-> u.children,
                expanded |-> u.expanded, load |-> u.load, own |-> u.own]
    BY CollectedFields
  <1> SUFFICES ASSUME new = {} PROVE u = t
    OBVIOUS
  <1>2. new = {} /\ parents = {}
    OBVIOUS
  <1> HIDE DEF new, parents
  <1>3. /\ u.paths = t.paths
        /\ u.expanded = t.expanded
        /\ u.children = [p \in DOMAIN t.children |-> Children(t, p)]
    BY <1>1, <1>2
  <1>4. u.children = t.children
    BY <1>3 DEF Shape, IsFcn, Children
  <1> QED  BY <1>1, <1>3, <1>4 DEF Shape

LEMMA NothingRemoved ==
    ASSUME NEW t, Shape(t), NEW asked
    PROVE  Doomed(t, asked) = {} => Removed(t, asked) = t
  <1> SUFFICES ASSUME NEW u, u = Removed(t, asked)
               PROVE  Doomed(t, asked) = {} => u = t
    OBVIOUS
  <1> DEFINE gone == Doomed(t, asked)
  <1>1. /\ u.paths = t.paths \ gone
        /\ u.children = [p \in DOMAIN t.children \ gone |-> t.children[p] \ gone]
        /\ u.expanded = t.expanded \ gone
        /\ u.load = [p \in DOMAIN t.load \ gone |-> t.load[p]]
        /\ u.own = [p \in DOMAIN t.own \ gone |-> t.own[p]]
        /\ u = [paths |-> u.paths, children |-> u.children,
                expanded |-> u.expanded, load |-> u.load, own |-> u.own]
    BY RemovedFields
  <1> SUFFICES ASSUME gone = {} PROVE u = t
    OBVIOUS
  <1>2. gone = {}
    OBVIOUS
  <1> HIDE DEF gone
  <1>3. /\ u.paths = t.paths
        /\ u.expanded = t.expanded
        /\ u.children = [p \in DOMAIN t.children |-> t.children[p]]
        /\ u.load = [p \in DOMAIN t.load |-> t.load[p]]
        /\ u.own = [p \in DOMAIN t.own |-> t.own[p]]
    BY <1>1, <1>2
  <1> QED  BY <1>1, <1>3 DEF Shape, IsFcn

\* What the caches depend on.
LEMMA SameCaches ==
    ASSUME Coherent, derived' = derived, visible' \in {visible, None},
           overflow => overflow',
           tree'.paths = tree.paths, tree'.children = tree.children,
           tree'.own = tree.own,
           visible' = None \/ tree'.expanded = tree.expanded
    PROVE  Coherent'
  <1>1. Topology(tree') = Topology(tree)
    BY DEF Topology
  <1> QED  BY <1>1 DEF Coherent

LEMMA CacheStep == TreeInv /\ CacheInv /\ [Next]_vars => CacheInv'
  <1> SUFFICES ASSUME TreeInv, CacheInv, [Next]_vars PROVE CacheInv'
    OBVIOUS
  <1>1. Sound(tree) /\ Shape(tree)
    BY DEF TreeInv, Sound
  <1>3. ASSUME NEW ops, Start(ops) PROVE CacheInv'
    BY <1>3 DEF Start, CacheInv, Coherent, Idle
  <1>4. ASSUME ApplyAdd PROVE CacheInv'
    <2> SUFFICES ASSUME Unchanged' PROVE Coherent'
      BY <1>4 DEF ApplyAdd, Reporting, CacheInv, Idle
    <2>1. /\ call'.added = call.added \cup Missing(tree, Head(call.ops).paths)
          /\ call'.removed = call.removed /\ call'.moved = call.moved
      BY <1>4 DEF ApplyAdd, Reporting
    <2>2. Unchanged /\ Missing(tree, Head(call.ops).paths) = {}
      BY <2>1 DEF Unchanged
    <2>3. tree' = tree
      BY <1>1, <1>4, <2>2, NothingCollected DEF ApplyAdd
    <2> QED  BY <1>4, <2>2, <2>3, SameCaches DEF ApplyAdd, CacheInv
  <1>5. ASSUME ApplyRemove PROVE CacheInv'
    <2> SUFFICES ASSUME Unchanged' PROVE Coherent'
      BY <1>5 DEF ApplyRemove, Reporting, CacheInv, Idle
    <2>1. /\ call'.removed = call.removed \cup Doomed(tree, Head(call.ops).paths)
          /\ call'.added = call.added /\ call'.moved = call.moved
      BY <1>5 DEF ApplyRemove, Reporting
    <2>2. Unchanged /\ Doomed(tree, Head(call.ops).paths) = {}
      BY <2>1 DEF Unchanged
    <2>3. tree' = tree
      BY <1>1, <1>5, <2>2, NothingRemoved DEF ApplyRemove
    <2> QED  BY <1>5, <2>2, <2>3, SameCaches DEF ApplyRemove, CacheInv
  <1>6. ASSUME ApplyMove PROVE CacheInv'
    <2> DEFINE from == Head(call.ops).from
               to == Head(call.ops).to
    <2>1. CASE MoveAllowed(tree, from, to)
      <3>1. from \in Subtree(tree, from)
        <4>1. from \in tree.paths /\ from \in Path
          BY <1>1, <2>1 DEF MoveAllowed, Shape
        <4> QED  BY <1>1, <4>1, SubtreeIsPrefix, PrefixOrder
      <3>2. call'.moved =
              call.moved \cup {<<p, Remap(from, to, p)>> : p \in Subtree(tree, from)}
        BY <1>6, <2>1 DEF ApplyMove, Reporting
      <3>3. ~Unchanged' /\ ~Idle'
        <4>1. call'.moved # {}
          BY <3>1, <3>2
        <4>2. call'.phase = "running"
          BY <1>6, <2>1 DEF ApplyMove, Reporting
        <4> QED  BY <4>1, <4>2 DEF Unchanged, Idle
      <3> QED  BY <3>3 DEF CacheInv
    <2>2. CASE ~MoveAllowed(tree, from, to)
      <3>1. UNCHANGED <<tree, overflow, derived, visible>>
        BY <1>6, <2>2 DEF ApplyMove
      <3>2. /\ call'.added = call.added /\ call'.removed = call.removed
            /\ call'.moved = call.moved
        BY <1>6, <2>2 DEF ApplyMove, Reporting
      <3>3. Coherent <=> Coherent'
        BY <3>1 DEF Coherent
      <3>4. ~Idle /\ ~Idle'
        BY <1>6, <2>2 DEF ApplyMove, Applying, Reporting, Idle
      <3> QED  BY <3>2, <3>3, <3>4 DEF CacheInv, Unchanged
    <2> QED  BY <2>1, <2>2
  <1>7. ASSUME Finish PROVE CacheInv'
    <2>1. CASE Unchanged
      <3>1. Coherent /\ UNCHANGED <<tree, overflow, derived, visible>>
        BY <1>7, <2>1 DEF Finish, CacheInv, Unchanged
      <3> QED  BY <3>1 DEF CacheInv, Coherent
    <2>2. CASE ~Unchanged
      <3>1. derived' = None /\ visible' = None
        BY <1>7, <2>2 DEF Finish, Unchanged
      <3> QED  BY <3>1 DEF CacheInv, Coherent
    <2> QED  BY <2>1, <2>2
  <1>8. ASSUME EnsureTopology PROVE CacheInv'
    <2>1. Coherent /\ tree' = tree /\ visible' = visible
      BY <1>8 DEF EnsureTopology, CacheInv
    <2>2. derived' = Topology(tree)
      BY <1>8, <2>1 DEF EnsureTopology, CachedDerived, Coherent
    <2>3. derived'.overflow => overflow'
      BY <1>8 DEF EnsureTopology
    <2> QED  BY <2>1, <2>2, <2>3 DEF CacheInv, Coherent
  <1>9. ASSUME EnsureProjection PROVE CacheInv'
    <2>1. Coherent /\ tree' = tree
      BY <1>9 DEF EnsureProjection, CacheInv
    <2>2. derived' = Topology(tree) /\ CachedDerived = Topology(tree)
      BY <1>9, <2>1 DEF EnsureProjection, CachedDerived, Coherent
    <2>3. derived'.overflow => overflow'
      BY <1>9 DEF EnsureProjection
    <2>4. visible' = Project(Topology(tree), tree.expanded)
      BY <1>9, <2>1, <2>2 DEF EnsureProjection, CachedVisible, Coherent
    <2> QED  BY <2>1, <2>2, <2>3, <2>4 DEF CacheInv, Coherent
  <1>10. ASSUME NEW p, NEW on, SetExpanded(p, on) PROVE CacheInv'
    <2>1. /\ Coherent /\ derived' = derived /\ visible' = None
          /\ overflow' = overflow
      BY <1>10 DEF SetExpanded, CacheInv
    <2>2. tree'.paths = tree.paths /\ tree'.children = tree.children
          /\ tree'.own = tree.own
      BY <1>10 DEF SetExpanded
    <2> QED  BY <2>1, <2>2, SameCaches DEF CacheInv
  <1>11. ASSUME ExpandAll \/ CollapseAll PROVE CacheInv'
    <2>1. /\ Coherent /\ derived' = derived /\ visible' = None
          /\ overflow' = overflow
      BY <1>11 DEF ExpandAll, CollapseAll, CacheInv
    <2>2. PICK shown : tree' = [tree EXCEPT !.expanded = shown]
      BY <1>11 DEF ExpandAll, CollapseAll
    <2>3. tree'.paths = tree.paths /\ tree'.children = tree.children
          /\ tree'.own = tree.own
      BY <2>2
    <2> QED  BY <2>1, <2>3, SameCaches DEF CacheInv
  <1>12. ASSUME NEW p, MarkUnloaded(p) PROVE CacheInv'
    <2> DEFINE u == SetLoad(tree, p, "unloaded")
    <2>1. /\ Coherent /\ derived' = derived /\ overflow' = overflow
          /\ visible' = IF p \in tree.expanded THEN None ELSE visible
          /\ tree' = [u EXCEPT !.expanded = u.expanded \ {p}]
      BY <1>12 DEF MarkUnloaded, CacheInv
    <2>2. /\ u.paths = tree.paths /\ u.children = tree.children /\ u.own = tree.own
          /\ u.expanded = tree.expanded
          /\ u = [paths |-> u.paths, children |-> u.children,
                  expanded |-> u.expanded, load |-> u.load, own |-> u.own]
      BY <1>1, SetLoadFields
    <2> HIDE DEF u
    <2>3. /\ tree'.paths = tree.paths /\ tree'.children = tree.children
          /\ tree'.own = tree.own /\ tree'.expanded = tree.expanded \ {p}
      BY <2>1, <2>2
    <2>4. visible' = None \/ (visible' = visible /\ tree'.expanded = tree.expanded)
      BY <2>1, <2>3
    <2> QED  BY <2>1, <2>3, <2>4, SameCaches DEF CacheInv
  <1>13. ASSUME NEW p, BeginChildLoad(p) \/ FailChildLoad(p) PROVE CacheInv'
    <2>1. /\ Coherent /\ derived' = derived /\ overflow' = overflow
          /\ visible' = visible
      BY <1>13 DEF BeginChildLoad, FailChildLoad, CacheInv
    <2>2. PICK state : tree' = SetLoad(tree, p, state)
      BY <1>13 DEF BeginChildLoad, FailChildLoad
    <2>3. /\ tree'.paths = tree.paths /\ tree'.children = tree.children
          /\ tree'.own = tree.own /\ tree'.expanded = tree.expanded
      BY <1>1, <2>2, SetLoadFields
    <2> QED  BY <2>1, <2>3, SameCaches DEF CacheInv
  <1>14. ASSUME NEW p, NEW paths, CompleteChildLoad(p, paths) PROVE CacheInv'
    <2>1. CASE Missing(tree, paths) # {}
      <3>1. derived' = None /\ visible' = None
        BY <1>14, <2>1 DEF CompleteChildLoad
      <3> QED  BY <3>1 DEF CacheInv, Coherent
    <2>2. CASE Missing(tree, paths) = {}
      <3>1. /\ Coherent /\ derived' = derived /\ overflow' = overflow
            /\ visible' = visible
        BY <1>14, <2>2 DEF CompleteChildLoad, CacheInv
      <3>2. Collected(tree, paths) = tree
        BY <1>1, <2>2, NothingCollected
      <3>3. tree' = [tree EXCEPT !.load = [q \in DOMAIN tree.load \ {p} |->
                                             tree.load[q]]]
        BY <1>14, <3>2 DEF CompleteChildLoad
      <3>4. /\ tree'.paths = tree.paths /\ tree'.children = tree.children
            /\ tree'.own = tree.own /\ tree'.expanded = tree.expanded
        BY <3>3
      <3> QED  BY <3>1, <3>4, SameCaches DEF CacheInv
    <2> QED  BY <2>1, <2>2
  <1>15. ASSUME UNCHANGED vars PROVE CacheInv'
    BY <1>15 DEF vars, CacheInv, Coherent, Unchanged, Idle
  <1> QED
    BY <1>3, <1>4, <1>5, <1>6, <1>7, <1>8, <1>9, <1>10, <1>11, <1>12, <1>13, <1>14,
       <1>15
       DEF Next, AddAccounts, RemoveAccounts, MoveAccount, BatchAccounts

\* No operation leaves a row or a balance behind that a rebuild would not give.
THEOREM CachesNeverStale == Spec => []CachesCoherent
  <1>1. Init => TreeInv
    BY BuiltSound DEF Init, TreeInv, NoCall
  <1>2. Init => CacheInv
    BY DEF Init, CacheInv, Coherent
  <1>3. CacheInv => CachesCoherent
    BY DEF CacheInv, Coherent, CachesCoherent
  <1> QED  BY <1>1, <1>2, <1>3, TreeStep, CacheStep, PTL DEF Spec

-----------------------------------------------------------------------------
(* The events *)

\* What a call has to say at any point of it.
Told ==
    ~Idle =>
      /\ tree.paths \ call.before \subseteq
           call.added \cup {pair[2] : pair \in call.moved}
      /\ call.before \ tree.paths \subseteq
           call.removed \cup {pair[1] : pair \in call.moved}

LEMMA ToldStep == TreeInv /\ Told /\ [Next]_vars => Told'
  <1> SUFFICES ASSUME TreeInv, Told, [Next]_vars PROVE Told'
    OBVIOUS
  <1>1. Sound(tree) /\ Shape(tree)
    BY DEF TreeInv, Sound
  <1>2. ASSUME NEW ops, Start(ops) PROVE Told'
    BY <1>2 DEF Start, NoCall, Told
  <1>3. ASSUME ApplyAdd PROVE Told'
    <2> DEFINE asked == Head(call.ops).paths
    <2>1. /\ ~Idle /\ call'.before = call.before
          /\ call'.added = call.added \cup Missing(tree, asked)
          /\ call'.removed = call.removed \cup {} /\ call'.moved = call.moved \cup {}
      BY <1>3 DEF ApplyAdd, Applying, Reporting
    <2>2. tree'.paths = tree.paths \cup Missing(tree, asked)
      <3> HIDE DEF asked
      <3>1. tree' = Collected(tree, asked)
        BY <1>3 DEF ApplyAdd, asked
      <3> QED  BY <1>1, <3>1 DEF Collected, Shape
    <2> HIDE DEF asked
    <2> QED  BY <2>1, <2>2 DEF Told
  <1>4. ASSUME ApplyRemove PROVE Told'
    <2> DEFINE asked == Head(call.ops).paths
    <2>1. /\ ~Idle /\ call'.before = call.before
          /\ call'.removed = call.removed \cup Doomed(tree, asked)
          /\ call'.added = call.added \cup {} /\ call'.moved = call.moved \cup {}
      BY <1>4 DEF ApplyRemove, Applying, Reporting
    <2>2. tree'.paths = tree.paths \ Doomed(tree, asked)
      <3> HIDE DEF asked
      <3>1. tree' = Removed(tree, asked)
        BY <1>4 DEF ApplyRemove, asked
      <3> QED  BY <1>1, <3>1 DEF Removed, Shape
    <2> HIDE DEF asked
    <2> QED  BY <2>1, <2>2 DEF Told
  <1>5. ASSUME ApplyMove PROVE Told'
    <2> DEFINE from == Head(call.ops).from
               to == Head(call.ops).to
               subtree == Subtree(tree, from)
               created == WithAncestors(tree, to).paths \ tree.paths
               moved == {<<p, Remap(from, to, p)>> : p \in subtree}
    <2>1. CASE MoveAllowed(tree, from, to)
      <3>1. /\ ~Idle /\ call'.before = call.before
            /\ call'.added = call.added \cup created
            /\ call'.removed = call.removed \cup {} /\ call'.moved = call.moved \cup moved
        BY <1>5, <2>1 DEF ApplyMove, Applying, Reporting
      <3>2. to \in Path
        <4>1. Head(call.ops) \in Operation
          BY <1>5 DEF ApplyMove, Applying, TreeInv
        <4> QED  BY <4>1 DEF Operation, Path
      <3>3. tree' = Moved(tree, from, to)
        BY <1>5, <2>1 DEF ApplyMove
      <3>4. /\ subtree \subseteq tree.paths
            /\ tree'.paths = ((tree.paths \cup created) \ subtree)
                               \cup {Remap(from, to, p) : p \in subtree}
        <4> HIDE DEF from, to
        <4> QED  BY <1>1, <2>1, <3>2, <3>3, MovedPaths
      <3>5. /\ {pair[2] : pair \in moved} = {Remap(from, to, p) : p \in subtree}
            /\ {pair[1] : pair \in moved} = subtree
        <4> HIDE DEF from, to, subtree
        <4>1. \A p \in subtree : <<p, Remap(from, to, p)>> \in moved
          OBVIOUS
        <4>2. \A pair \in moved : \E p \in subtree : pair = <<p, Remap(from, to, p)>>
          OBVIOUS
        <4>3. \A p : <<p, Remap(from, to, p)>>[1] = p
                     /\ <<p, Remap(from, to, p)>>[2] = Remap(from, to, p)
          OBVIOUS
        <4> HIDE DEF moved
        <4>4. \A pair \in moved : pair[1] \in subtree /\ pair[2] = Remap(from, to, pair[1])
          BY <4>2, <4>3
        <4>5. ASSUME NEW p \in subtree
              PROVE  /\ p \in {pair[1] : pair \in moved}
                     /\ Remap(from, to, p) \in {pair[2] : pair \in moved}
          <5>1. PICK q \in moved : q[1] = p /\ q[2] = Remap(from, to, p)
            BY <4>1, <4>3
          <5> QED  BY <5>1
        <4>6. {pair[1] : pair \in moved} \subseteq subtree
          BY <4>4
        <4>7. {pair[2] : pair \in moved} \subseteq {Remap(from, to, p) : p \in subtree}
          BY <4>4
        <4> QED  BY <4>5, <4>6, <4>7
      <3>6. /\ {pair[2] : pair \in call'.moved}
                 = {pair[2] : pair \in call.moved} \cup {pair[2] : pair \in moved}
            /\ {pair[1] : pair \in call'.moved}
                 = {pair[1] : pair \in call.moved} \cup {pair[1] : pair \in moved}
        <4> HIDE DEF moved
        <4> QED  BY <3>1
      <3> HIDE DEF from, to, subtree, created, moved
      <3> DEFINE targets == {Remap(from, to, p) : p \in subtree}
                 sources(of) == {pair[1] : pair \in of}
                 results(of) == {pair[2] : pair \in of}
      <3>7. /\ results(call'.moved) = results(call.moved) \cup targets
            /\ sources(call'.moved) = sources(call.moved) \cup subtree
        BY <3>5, <3>6
      <3>8. /\ tree.paths \ call.before \subseteq call.added \cup results(call.moved)
            /\ call.before \ tree.paths \subseteq call.removed \cup sources(call.moved)
        BY <3>1 DEF Told
      <3>9. tree'.paths = ((tree.paths \cup created) \ subtree) \cup targets
        BY <3>4
      <3>10. /\ tree'.paths \ call'.before \subseteq call'.added \cup results(call'.moved)
             /\ call'.before \ tree'.paths \subseteq call'.removed \cup sources(call'.moved)
        <4> HIDE DEF targets, sources, results
        <4> QED  BY <3>1, <3>7, <3>8, <3>9
      <3> QED  BY <3>10 DEF Told
    <2>2. CASE ~MoveAllowed(tree, from, to)
      <3>1. /\ ~Idle /\ call'.before = call.before /\ tree' = tree
            /\ call'.added = call.added \cup {} /\ call'.removed = call.removed \cup {}
            /\ call'.moved = call.moved \cup {}
        BY <1>5, <2>2 DEF ApplyMove, Applying, Reporting
      <3> QED  BY <3>1 DEF Told
    <2> QED  BY <2>1, <2>2
  <1>6. ASSUME Idle' PROVE Told'
    BY <1>6 DEF Told
  <1>7. ASSUME Idle, call' = call PROVE Told'
    BY <1>7 DEF Idle, Told
  <1>8. ASSUME Finish PROVE Idle'
    BY <1>8 DEF Finish, Idle, NoCall
  <1>9. ASSUME UNCHANGED vars PROVE Told'
    BY <1>9 DEF vars, Idle, Told
  <1>10. ASSUME NEW p, NEW paths, CompleteChildLoad(p, paths) PROVE Told'
    BY <1>7, <1>10 DEF CompleteChildLoad
  <1> QED
    BY <1>2, <1>3, <1>4, <1>5, <1>6, <1>7, <1>8, <1>9, <1>10
       DEF Next, AddAccounts, RemoveAccounts, MoveAccount, BatchAccounts, EnsureTopology,
           EnsureProjection, SetExpanded, ExpandAll, CollapseAll, MarkUnloaded,
           BeginChildLoad, FailChildLoad

\* The event of a call accounts for every path that appeared or disappeared since
\* its start, whatever it was made of and wherever a rejected move cut it short.
THEOREM EventsAreHonest == Spec => []EventHonest
  <1>1. Init => TreeInv
    BY BuiltSound DEF Init, TreeInv, NoCall
  <1>2. Init => Told
    BY DEF Init, NoCall, Idle, Told
  <1>3. Told => EventHonest
    BY DEF Told, EventHonest
  <1> QED  BY <1>1, <1>2, <1>3, TreeStep, ToldStep, PTL DEF Spec

-----------------------------------------------------------------------------
(* Folds.  The sums of the chart and the balances it starts from are folds  *)
(* over finite sets: of paths, in whatever order, and of the positions of   *)
(* the postings, from the first.  So are the balances rolled up, and the    *)
(* two walks, whose positions are their turns.                              *)

Summing(own) == [kind |-> "sum", base |-> 0, own |-> own]

Posting(postings, p) ==
    [kind |-> "post", base |-> [balance |-> 0, postings |-> 0, overflow |-> FALSE],
     postings |-> postings, path |-> p]

Rolling(order, balance) ==
    [kind |-> "roll", base |-> [rolled |-> balance, overflow |-> FALSE],
     order |-> Reverse(order)]

\* One node is added to its parent.
Raised(acc, p) ==
    LET up == Float(acc.rolled[Parent(p)] + acc.rolled[p])
    IN  [rolled |-> [acc.rolled EXCEPT ![Parent(p)] = up],
         overflow |-> acc.overflow \/ ~IsSafeInteger(up)]

Ordering(children) ==
    [kind |-> "preorder", base |-> [out |-> <<>>, stack |-> Siblings(children, Root)],
     children |-> children]

\* A turn of the walk that numbers the nodes.
OrderTurn(children, walk) ==
    IF walk.stack = <<>> THEN walk
    ELSE [out |-> Append(walk.out, Head(walk.stack)),
          stack |-> Siblings(children, Head(walk.stack)) \o Tail(walk.stack)]

\* The numbers of the children of a node.
IdsBelow(topology, p) ==
    [i \in DOMAIN topology.sorted[p] |->
       CHOOSE n \in DOMAIN topology.order : topology.order[n] = topology.sorted[p][i]]

Projecting(topology, expanded) ==
    [kind |-> "project", base |-> [out |-> <<>>, stack |-> IdsBelow(topology, Root)],
     topology |-> topology, expanded |-> expanded]

\* A turn of the walk that makes the rows.
RowTurn(topology, expanded, walk) ==
    IF walk.stack = <<>> THEN walk
    ELSE [out |-> Append(walk.out, Head(walk.stack)),
          stack |-> (IF topology.order[Head(walk.stack)] \in expanded
                     THEN IdsBelow(topology, topology.order[Head(walk.stack)]) ELSE <<>>)
                      \o Tail(walk.stack)]

Chosen(how, s) == IF how.kind = "sum" THEN CHOOSE x \in s : TRUE ELSE Max(s)

Joined(how, x, acc) ==
    IF how.kind = "sum" THEN how.own[x].balance + acc
    ELSE IF how.kind = "post" THEN Posted(acc, how.postings[x], how.path)
    ELSE IF how.kind = "roll" THEN Raised(acc, how.order[x])
    ELSE IF how.kind = "preorder" THEN OrderTurn(how.children, acc)
    ELSE RowTurn(how.topology, how.expanded, acc)

Folded(how, S) ==
    LET iter[s \in SUBSET S] ==
          IF s = {} THEN how.base
          ELSE Joined(how, Chosen(how, s), iter[s \ {Chosen(how, s)}])
    IN  iter[S]

\* What is to be chosen from is not empty of it.
Chooses(how, S) == \A s \in SUBSET S : s # {} => Chosen(how, s) \in s

Body(how, g, s) ==
    IF s = {} THEN how.base ELSE Joined(how, Chosen(how, s), g[s \ {Chosen(how, s)}])

IsFold(how, S, g) == g = [s \in SUBSET S |-> Body(how, g, s)]

LEMMA SumChooses ==
    ASSUME NEW own, NEW S
    PROVE  Chooses(Summing(own), S)
  BY DEF Chooses, Chosen, Summing

\* The parts of a finite set, by how many elements they have.
LEMMA PartsOf ==
    ASSUME NEW S, IsFiniteSet(S), NEW s \in SUBSET S
    PROVE  /\ IsFiniteSet(s) /\ Cardinality(s) \in 0 .. Cardinality(S)
           /\ Cardinality(S) \in Nat
           /\ Cardinality(s) = 0 <=> s = {}
           /\ \A x \in s : Cardinality(s \ {x}) = Cardinality(s) - 1
  <1>1. IsFiniteSet(s) /\ Cardinality(s) <= Cardinality(S)
    BY FS_Subset
  <1>2. Cardinality(s) \in Nat /\ Cardinality(S) \in Nat
    BY <1>1, FS_CardinalityType
  <1>3. Cardinality(s) = 0 <=> s = {}
    BY <1>1, FS_EmptySet
  <1>4. \A x \in s : Cardinality(s \ {x}) = Cardinality(s) - 1
    BY <1>1, FS_RemoveElement
  <1> QED  BY <1>1, <1>2, <1>3, <1>4

\* What holds of the empty set and, if of all the parts with one element less,
\* of a part, holds of all the parts of a finite set.
LEMMA PartByPart ==
    ASSUME NEW S, IsFiniteSet(S), NEW Good, {} \in Good,
           \A s \in SUBSET S : s # {} /\ (\A x \in s : s \ {x} \in Good) => s \in Good
    PROVE  \A s \in SUBSET S : s \in Good
  <1> DEFINE N == Cardinality(S)
             T == {n \in 0 .. N : \A s \in SUBSET S : Cardinality(s) = n => s \in Good}
  <1>1. N \in Nat
    BY FS_CardinalityType
  <1>2. 0 \in T
    BY <1>1, PartsOf
  <1>3. ASSUME NEW n \in 1 .. N, n - 1 \in T PROVE n \in T
    <2> SUFFICES ASSUME NEW s \in SUBSET S, Cardinality(s) = n PROVE s \in Good
      BY <1>1
    <2>1. s # {} /\ \A x \in s : Cardinality(s \ {x}) = n - 1
      BY PartsOf, n # 0
    <2>2. \A x \in s : s \ {x} \in SUBSET S
      OBVIOUS
    <2>3. \A x \in s : s \ {x} \in Good
      BY <1>3, <2>1, <2>2
    <2> QED  BY <2>1, <2>3
  <1> HIDE DEF T, N
  <1>4. \A n \in 1 .. N : n - 1 \in T => n \in T
    BY <1>3
  <1>5. \A n \in 0 .. N : n \in T
    BY <1>1, <1>2, <1>4, Counting
  <1> TAKE s \in SUBSET S
  <1>6. Cardinality(s) \in 0 .. N
    BY PartsOf DEF N
  <1> QED  BY <1>5, <1>6 DEF T

LEMMA FoldExists ==
    ASSUME NEW how, NEW S, IsFiniteSet(S), Chooses(how, S)
    PROVE  \E g : IsFold(how, S, g)
  <1> DEFINE N == Cardinality(S)
             Parts == SUBSET S
             Small(n) == {s \in Parts : Cardinality(s) \in 0 .. n}
             Fits(n, g) == g = [s \in Small(n) |-> Body(how, g, s)]
             T == {n \in 0 .. N : \E g : Fits(n, g)}
  <1>1. N \in Nat
    BY FS_CardinalityType
  <1>2. \A s \in Parts : /\ Cardinality(s) \in 0 .. N
                         /\ (Cardinality(s) = 0) <=> (s = {})
                         /\ \A x \in s : /\ s \ {x} \in Parts
                                         /\ Cardinality(s \ {x}) = Cardinality(s) - 1
    BY PartsOf
  <1> HIDE DEF N, Parts
  <1>3. 0 \in T
    <2> DEFINE g == [s \in Small(0) |-> how.base]
    <2>1. \A s \in Small(0) : s = {}
      BY <1>1, <1>2
    <2>2. \A s \in Small(0) : Body(how, g, s) = how.base
      BY <2>1 DEF Body
    <2>3. Fits(0, g)
      BY <2>2
    <2>4. 0 \in 0 .. N
      BY <1>1
    <2> HIDE DEF g, Fits
    <2> QED  BY <2>3, <2>4
  <1>4. ASSUME NEW n \in 1 .. N, n - 1 \in T PROVE n \in T
    <2>1. PICK g : Fits(n - 1, g)
      BY <1>4
    <2> DEFINE h == [s \in Small(n) |-> Body(how, g, s)]
    <2>2. \A s \in Small(n - 1) : s \in Small(n)
      BY <1>1, <1>2
    <2>3. \A s \in Small(n - 1) : h[s] = g[s]
      BY <2>1, <2>2
    <2>4. ASSUME NEW s \in Small(n) PROVE Body(how, g, s) = Body(how, h, s)
      <3>1. CASE s = {}
        BY <3>1 DEF Body
      <3>2. CASE s # {}
        <4>1. Chosen(how, s) \in s
          BY <3>2 DEF Chooses, Parts
        <4>2. s \ {Chosen(how, s)} \in Small(n - 1)
          <5> DEFINE c == Chosen(how, s)
                     size == Cardinality(s)
          <5>1. /\ size \in 0 .. n /\ size # 0
                /\ s \ {c} \in Parts /\ Cardinality(s \ {c}) = size - 1
            BY <1>2, <3>2, <4>1
          <5> HIDE DEF size
          <5>2. size - 1 \in 0 .. n - 1
            BY <1>1, <5>1
          <5> QED  BY <5>1, <5>2
        <4> HIDE DEF h
        <4> QED  BY <2>3, <3>2, <4>2 DEF Body
      <3> QED  BY <3>1, <3>2
    <2>5. Fits(n, h)
      <3> DEFINE w == [s \in Small(n) |-> Body(how, h, s)]
      <3>1. \A s \in Small(n) : h[s] = w[s]
        BY <2>4
      <3>2. h = w
        BY <3>1
      <3> QED  BY <3>2
    <2> HIDE DEF h, Fits
    <2> QED  BY <2>5
  <1> HIDE DEF T
  <1>5. \A n \in 1 .. N : n - 1 \in T => n \in T
    BY <1>4
  <1>6. N \in T
    BY <1>1, <1>3, <1>5, Counting
  <1>7. PICK g : Fits(N, g)
    BY <1>6 DEF T
  <1>8. Small(N) = SUBSET S
    <2>1. \A s \in Parts : s \in Small(N)
      BY <1>2
    <2>2. \A s \in Small(N) : s \in Parts
      OBVIOUS
    <2> HIDE DEF Small
    <2> QED  BY <2>1, <2>2 DEF Parts
  <1> QED  BY <1>7, <1>8 DEF IsFold

\* Two folds agree on what both fold.
LEMMA FoldsAgree ==
    ASSUME NEW how, NEW S, IsFiniteSet(S), Chooses(how, S), NEW g, IsFold(how, S, g),
           NEW D \in SUBSET S, NEW h, IsFold(how, D, h)
    PROVE  h[D] = g[D]
  <1> DEFINE Good == {s \in SUBSET D : h[s] = g[s]}
  <1>1. IsFiniteSet(D)
    BY FS_Subset
  <1>2. \A s \in SUBSET D : h[s] = Body(how, h, s) /\ g[s] = Body(how, g, s)
    <2>1. \A s \in SUBSET D : s \in SUBSET S
      OBVIOUS
    <2> QED  BY <2>1 DEF IsFold
  <1>3. {} \in Good
    BY <1>2 DEF Body
  <1>4. ASSUME NEW s \in SUBSET D, s # {}, \A x \in s : s \ {x} \in Good
        PROVE  s \in Good
    <2>1. Chosen(how, s) \in s
      BY <1>4 DEF Chooses
    <2>2. h[s \ {Chosen(how, s)}] = g[s \ {Chosen(how, s)}]
      BY <1>4, <2>1
    <2> QED  BY <1>2, <1>4, <2>2 DEF Body
  <1> HIDE DEF Good
  <1>5. D \in Good
    BY <1>1, <1>3, <1>4, PartByPart
  <1> QED  BY <1>5 DEF Good

LEMMA FoldIs ==
    ASSUME NEW how, NEW S, IsFiniteSet(S), Chooses(how, S), NEW D \in SUBSET S
    PROVE  /\ D = {} => Folded(how, D) = how.base
           /\ D # {} => Folded(how, D)
                           = Joined(how, Chosen(how, D), Folded(how, D \ {Chosen(how, D)}))
  <1> DEFINE iter(A) == CHOOSE g : IsFold(how, A, g)
  <1>1. \A A : Folded(how, A) = iter(A)[A]
    BY DEF Folded, IsFold, Body
  <1>2. \A A \in SUBSET S : IsFold(how, A, iter(A))
    <2> TAKE A \in SUBSET S
    <2>1. IsFiniteSet(A) /\ Chooses(how, A)
      <3>1. \A s \in SUBSET A : s \in SUBSET S
        OBVIOUS
      <3> QED  BY <3>1, FS_Subset DEF Chooses
    <2>2. \E g : IsFold(how, A, g)
      BY <2>1, FoldExists
    <2> QED  BY <2>2
  <1> HIDE DEF iter
  <1>3. \A A \in SUBSET S : iter(A)[A] = iter(S)[A]
    BY <1>2, FoldsAgree
  <1>4. \A A \in SUBSET S : Folded(how, A) = iter(S)[A]
    BY <1>1, <1>3
  <1>5. iter(S)[D] = Body(how, iter(S), D)
    BY <1>2 DEF IsFold
  <1>6. CASE D = {}
    BY <1>4, <1>5, <1>6 DEF Body
  <1>7. CASE D # {}
    <2>1. D \ {Chosen(how, D)} \in SUBSET S
      OBVIOUS
    <2> QED  BY <1>4, <1>5, <1>7, <2>1 DEF Body
  <1> QED  BY <1>6, <1>7

\* The balances held at some paths, added up.
SumOver(own, D) == Folded(Summing(own), D)

LEMMA TotalIsSum ==
    ASSUME NEW t, NEW p
    PROVE  TotalAt(t, p) = SumOver(t.own, {q \in DOMAIN t.own : IsPrefix(p, q)})
  BY DEF TotalAt, MapThenSumSet, MapThenFoldSet, SumOver, Folded, Summing, Chosen, Joined

\* Balances that are integers, of finitely many paths.
Money(own) ==
    /\ IsFiniteSet(DOMAIN own)
    /\ \A p \in DOMAIN own : own[p].balance \in Int

\* A sum takes any of its paths first.
LEMMA AnyFirst ==
    ASSUME NEW own, Money(own)
    PROVE  /\ SumOver(own, {}) = 0
           /\ \A D \in SUBSET DOMAIN own :
                /\ SumOver(own, D) \in Int
                /\ \A x \in D : SumOver(own, D) = own[x].balance + SumOver(own, D \ {x})
  <1> DEFINE U == DOMAIN own
             sum(D) == SumOver(own, D)
             first(D) == Chosen(Summing(own), D)
             Good == {D \in SUBSET U :
                        /\ sum(D) \in Int
                        /\ \A x \in D : /\ sum(D \ {x}) \in Int
                                        /\ sum(D) = own[x].balance + sum(D \ {x})}
  <1>1. /\ sum({}) = 0
        /\ \A D \in SUBSET U : D # {} =>
             /\ first(D) \in D
             /\ sum(D) = own[first(D)].balance + sum(D \ {first(D)})
    <2> DEFINE how == Summing(own)
    <2>1. IsFiniteSet(U) /\ Chooses(how, U)
      BY SumChooses DEF Money
    <2>2. how.base = 0 /\ \A x, acc : Joined(how, x, acc) = own[x].balance + acc
      BY DEF Summing, Joined
    <2> HIDE DEF how, U
    <2>3. Folded(how, {}) = 0
      BY <2>1, <2>2, FoldIs
    <2>4. ASSUME NEW D \in SUBSET U, D # {}
          PROVE  /\ Chosen(how, D) \in D
                 /\ Folded(how, D) = Joined(how, Chosen(how, D),
                                           Folded(how, D \ {Chosen(how, D)}))
      BY <2>1, <2>4, FoldIs DEF Chooses
    <2> QED  BY <2>2, <2>3, <2>4 DEF SumOver, how
  <1>2. \A x \in U : own[x].balance \in Int
    BY DEF Money
  <1> HIDE DEF sum, first, U
  <1>3. {} \in Good
    BY <1>1
  <1>4. ASSUME NEW D \in SUBSET U, D # {}, \A x \in D : D \ {x} \in Good
        PROVE  D \in Good
    <2> DEFINE y == first(D)
    <2>1. y \in D /\ sum(D) = own[y].balance + sum(D \ {y})
      BY <1>1, <1>4
    <2> HIDE DEF y
    <2>2. /\ \A x \in D : sum(D \ {x}) \in Int
          /\ \A x \in D : \A z \in D \ {x} :
               /\ sum((D \ {x}) \ {z}) \in Int
               /\ sum(D \ {x}) = own[z].balance + sum((D \ {x}) \ {z})
      BY <1>4
    <2>3. own[y].balance \in Int /\ sum(D \ {y}) \in Int
      BY <1>2, <2>1, <2>2
    <2>4. sum(D) \in Int
      BY <2>1, <2>3
    <2>5. ASSUME NEW x \in D PROVE sum(D) = own[x].balance + sum(D \ {x})
      <3>1. CASE x = y
        BY <2>1, <3>1
      <3>2. CASE x # y
        <4> DEFINE rest == sum((D \ {x}) \ {y})
        <4>1. /\ sum(D \ {y}) = own[x].balance + sum((D \ {y}) \ {x})
              /\ sum(D \ {x}) = own[y].balance + rest
          BY <2>1, <2>2, <3>2
        <4>2. (D \ {y}) \ {x} = (D \ {x}) \ {y}
          OBVIOUS
        <4>3. rest \in Int
          BY <2>1, <2>2, <3>2
        <4>4. own[x].balance \in Int /\ own[y].balance \in Int
          BY <1>2, <2>1
        <4> HIDE DEF rest
        <4>5. /\ sum(D \ {y}) = own[x].balance + rest
              /\ sum(D \ {x}) = own[y].balance + rest
          BY <4>1, <4>2 DEF rest
        <4> QED  BY <2>1, <4>3, <4>4, <4>5
      <3> QED  BY <3>1, <3>2
    <2> QED  BY <2>2, <2>4, <2>5
  <1> HIDE DEF Good
  <1>5. IsFiniteSet(U)
    BY DEF Money, U
  <1>6. \A D \in SUBSET U : D \in Good
    BY <1>3, <1>4, <1>5, PartByPart
  <1> QED  BY <1>1, <1>6 DEF Good, sum, U

\* A sum does not depend on what its paths are called.
LEMMA SameUnderRenaming ==
    ASSUME NEW own, Money(own), NEW after, Money(after), NEW name,
           DOMAIN name = DOMAIN own,
           \A p, q \in DOMAIN own : name[p] = name[q] => p = q,
           \A p \in DOMAIN own : /\ name[p] \in DOMAIN after
                                 /\ after[name[p]].balance = own[p].balance,
           NEW D \in SUBSET DOMAIN own
    PROVE  SumOver(after, {name[p] : p \in D}) = SumOver(own, D)
  <1> DEFINE U == DOMAIN own
             image(E) == {name[p] : p \in E}
             Good == {E \in SUBSET U : SumOver(after, image(E)) = SumOver(own, E)}
  <1>1. {} \in Good
    <2>1. image({}) = {}
      OBVIOUS
    <2> HIDE DEF image
    <2> QED  BY <2>1, AnyFirst
  <1>2. ASSUME NEW E \in SUBSET U, E # {}, \A x \in E : E \ {x} \in Good
        PROVE  E \in Good
    <2>1. PICK x \in E : TRUE
      BY <1>2
    <2>2. SumOver(after, image(E \ {x})) = SumOver(own, E \ {x})
      BY <1>2, <2>1
    <2>3. image(E) \ {name[x]} = image(E \ {x})
      BY <2>1
    <2>4. image(E) \in SUBSET DOMAIN after /\ name[x] \in image(E)
      BY <2>1
    <2> HIDE DEF image
    <2>5. SumOver(after, image(E))
            = after[name[x]].balance + SumOver(after, image(E) \ {name[x]})
      BY <2>4, AnyFirst
    <2>6. SumOver(own, E) = own[x].balance + SumOver(own, E \ {x})
      BY <2>1, AnyFirst
    <2> QED  BY <2>1, <2>2, <2>3, <2>5, <2>6
  <1> HIDE DEF Good
  <1>3. IsFiniteSet(U)
    BY DEF Money
  <1>4. D \in Good
    BY <1>1, <1>2, <1>3, PartByPart
  <1> QED  BY <1>4 DEF Good

\* A move keeps what the accounts add up to, below its source and in the chart.
LEMMA MovedTotals ==
    ASSUME NEW t, Sound(t), Money(t.own), NEW from, NEW to \in Path,
           MoveAllowed(t, from, to)
    PROVE  LET u == Moved(t, from, to)
           IN  /\ Money(u.own)
               /\ TotalAt(u, to) = TotalAt(t, from)
               /\ TotalAt(u, Root) = TotalAt(t, Root)
  <1> DEFINE u == Moved(t, from, to)
             D == DOMAIN t.own
             name == [p \in D |-> NameAfter(t, from, to, p)]
             image(E) == {name[p] : p \in E}
             below(of, path) == {q \in of : IsPrefix(path, q)}
  <1>1. /\ DOMAIN u.own = {NameAfter(t, from, to, p) : p \in D}
        /\ \A p \in D : u.own[NameAfter(t, from, to, p)] = t.own[p]
        /\ \A p, q \in D : NameAfter(t, from, to, p) = NameAfter(t, from, to, q) => p = q
        /\ \A p \in D : IsPrefix(to, NameAfter(t, from, to, p)) <=> IsPrefix(from, p)
    BY MovedOwn
  <1>2. D \subseteq Path /\ DOMAIN u.own \subseteq Path
    <2>1. Sound(u)
      BY MovedSound
    <2> QED  BY <2>1 DEF Sound, NoOrphans, Shape
  <1> HIDE DEF u
  <1>3. /\ DOMAIN name = D /\ DOMAIN u.own = image(D)
        /\ \A p \in D : u.own[name[p]] = t.own[p] /\ name[p] \in DOMAIN u.own
        /\ \A p, q \in D : name[p] = name[q] => p = q
        /\ \A p \in D : IsPrefix(to, name[p]) <=> IsPrefix(from, p)
    BY <1>1
  <1> HIDE DEF name
  <1>4. Money(u.own)
    <2>1. IsFiniteSet(D) /\ \A p \in D : t.own[p].balance \in Int
      BY DEF Money
    <2>2. name \in Surjection(D, image(D))
      <3>1. \A p \in D : name[p] \in image(D)
        OBVIOUS
      <3>2. name = [p \in D |-> name[p]]
        BY DEF name
      <3>3. \A q \in image(D) : \E p \in D : name[p] = q
        OBVIOUS
      <3> HIDE DEF image, D
      <3>4. name \in [D -> image(D)]
        BY <3>1, <3>2
      <3> QED  BY <3>3, <3>4 DEF Surjection
    <2>3. IsFiniteSet(image(D))
      <3> HIDE DEF image, D
      <3> QED  BY <2>1, <2>2, FS_Surjection
    <2> QED  BY <1>3, <2>1, <2>3 DEF Money
  <1>5. ASSUME NEW E \in SUBSET D PROVE SumOver(u.own, image(E)) = SumOver(t.own, E)
    <2> DEFINE own == t.own
               after == u.own
    <2>1. /\ Money(own) /\ Money(after) /\ DOMAIN name = DOMAIN own
          /\ \A p, q \in DOMAIN own : name[p] = name[q] => p = q
          /\ \A p \in DOMAIN own : /\ name[p] \in DOMAIN after
                                   /\ after[name[p]].balance = own[p].balance
      BY <1>3, <1>4
    <2>2. E \in SUBSET DOMAIN own
      OBVIOUS
    <2> HIDE DEF own, after, D
    <2>3. SumOver(after, {name[p] : p \in E}) = SumOver(own, E)
      BY <2>1, <2>2, SameUnderRenaming
    <2> QED  BY <2>3 DEF own, after
  <1>6. below(DOMAIN u.own, to) = image(below(D, from))
    BY <1>3
  <1>7. below(DOMAIN u.own, Root) = image(below(D, Root))
    <2>1. \A q \in Path : IsPrefix(Root, q)
      <3>1. Root \in Path /\ Len(Root) = 0
        BY DEF Root, Path
      <3>2. \A q \in Path : Len(q) \in Nat
        BY DEF Path
      <3> QED  BY <3>1, <3>2, PrefixPointwise
    <2>2. below(DOMAIN u.own, Root) = DOMAIN u.own /\ below(D, Root) = D
      BY <1>2, <2>1
    <2> QED  BY <1>3, <2>2
  <1>8. TotalAt(u, to) = TotalAt(t, from)
    BY <1>5, <1>6, TotalIsSum
  <1>9. TotalAt(u, Root) = TotalAt(t, Root)
    BY <1>5, <1>7, TotalIsSum
  <1> QED  BY <1>4, <1>8, <1>9 DEF u

LEMMA MaxInside ==
    ASSUME NEW n \in Nat, NEW u \in SUBSET (1 .. n), u # {}
    PROVE  Max(u) \in u
  <1> DEFINE T == {m \in Nat : \A y \in u : m >= y}
  <1>1. n \in T
    OBVIOUS
  <1>2. PICK m \in T : \A k \in T : m <= k
    BY <1>1, LeastNat
  <1>3. m \in u
    <2>1. SUFFICES ASSUME m \notin u PROVE FALSE
      OBVIOUS
    <2>2. m \in Nat /\ \A y \in u : m >= y /\ y # m /\ y \in 1 .. n
      BY <1>2, <2>1
    <2>3. m # 0
      <3>1. PICK y \in u : m >= y /\ y \in 1 .. n
        BY <2>2
      <3> QED  BY <2>2, <3>1
    <2>4. ASSUME NEW y \in u PROVE m - 1 >= y
      <3>1. y \in Int /\ m >= y /\ y # m
        BY <2>2
      <3> QED  BY <2>2, <3>1
    <2>5. m - 1 \in T
      BY <2>2, <2>3, <2>4
    <2> QED  BY <1>2, <2>2, <2>5
  <1>4. \A y \in u : m >= y
    BY <1>2
  <1> QED  BY <1>3, <1>4 DEF Max

LEMMA FloatIsInt == \A n \in Int : Float(n) \in Int
  BY DEF Float

\* The balances an account store starts from are integers.
LEMMA AccumulatedIsInt ==
    ASSUME NEW postings \in Seed, NEW p
    PROVE  Accumulated(postings, p).balance \in Int
  <1> DEFINE how == Posting(postings, p)
             L == Len(postings)
             S == 1 .. L
             Data == [account : Seq(Nat), amount : Int]
             Good == {s \in SUBSET S : Folded(how, s).balance \in Int}
  <1>1. postings \in Seq(Data)
    BY PathAssumption
  <1>2. \A e \in Data : e.amount \in Int
    OBVIOUS
  <1> HIDE DEF Data
  <1>3. L \in Nat /\ DOMAIN postings = S /\ \A i \in S : postings[i] \in Data
    BY <1>1
  <1>4. Accumulated(postings, p) = Folded(how, S)
    BY <1>3 DEF Accumulated, FoldLeft, MapThenFoldSet, Folded, Posting, Chosen, Joined
  <1>5. IsFiniteSet(S)
    BY <1>3, FS_Interval
  <1>6. \A s : Chosen(how, s) = Max(s)
    BY DEF Chosen, Posting
  <1>7. \A x, acc : Joined(how, x, acc) = Posted(acc, postings[x], p)
    BY DEF Joined, Posting
  <1>8. how.base.balance = 0
    BY DEF Posting
  <1> HIDE DEF how, L
  <1>9. Chooses(how, S)
    BY <1>3, <1>6, MaxInside DEF Chooses
  <1>10. {} \in Good
    <2>1. Folded(how, {}) = how.base
      <3> HIDE DEF S
      <3> QED  BY <1>5, <1>9, FoldIs
    <2> QED  BY <1>8, <2>1
  <1>11. ASSUME NEW s \in SUBSET S, s # {}, \A x \in s : s \ {x} \in Good
         PROVE  s \in Good
    <2> DEFINE x == Chosen(how, s)
               acc == Folded(how, s \ {x})
               e == postings[x]
    <2>1. Folded(how, s) = Posted(acc, e, p)
      <3>1. Folded(how, s) = Joined(how, x, acc)
        <4> HIDE DEF S
        <4> QED  BY <1>5, <1>9, <1>11, FoldIs
      <3> QED  BY <1>7, <3>1
    <2>2. x \in s
      BY <1>9, <1>11 DEF Chooses
    <2>3. acc.balance \in Int /\ e.amount \in Int
      BY <1>2, <1>3, <1>11, <2>2
    <2> HIDE DEF acc, e, x
    <2>4. acc.balance + e.amount \in Int
      BY <2>3
    <2>5. Float(acc.balance + e.amount) \in Int
      BY <2>4, FloatIsInt
    <2>6. Posted(acc, e, p).balance \in Int
      BY <2>3, <2>5 DEF Posted
    <2> QED  BY <2>1, <2>6
  <1> HIDE DEF Good, S
  <1>12. S \in Good
    BY <1>5, <1>10, <1>11, PartByPart
  <1> QED  BY <1>4, <1>12 DEF Good

LEMMA CollectedShape ==
    ASSUME NEW t, Shape(t), NEW asked
    PROVE  LET u == Collected(t, asked)
           IN  /\ u.own = t.own
               /\ u = [paths |-> u.paths, children |-> u.children,
                       expanded |-> u.expanded, load |-> u.load, own |-> u.own]
  <1> DEFINE u == Collected(t, asked)
  <1>1. u = Collected(t, asked)
    OBVIOUS
  <1> HIDE DEF u
  <1>2. /\ u.own = t.own
        /\ u = [paths |-> u.paths, children |-> u.children,
                expanded |-> u.expanded, load |-> u.load, own |-> u.own]
    BY <1>1 DEF Collected, Shape
  <1> QED  BY <1>1, <1>2

LEMMA BuiltMoney ==
    ASSUME NEW postings \in Seed
    PROVE  Money(BuiltTree(postings).own)
  <1> DEFINE asked == {e.account : e \in ToSet(postings)}
             t == Collected(EmptyTree, asked)
             held == {p \in t.paths : Accumulated(postings, p).postings # 0}
             own == [p \in held |-> [balance |-> Accumulated(postings, p).balance,
                                    postings |-> Accumulated(postings, p).postings]]
  <1>1. t = [paths |-> t.paths, children |-> t.children, expanded |-> t.expanded,
             load |-> t.load, own |-> t.own]
    <2>1. Shape(EmptyTree)
      BY EmptySound DEF Sound
    <2> HIDE DEF asked
    <2> QED  BY <2>1, CollectedShape
  <1>2. BuiltTree(postings) = [t EXCEPT !.own = own]
    BY DEF BuiltTree
  <1>3. t.paths \subseteq UNION {Lineage(p) : p \in asked}
    BY DEF Collected, EmptyTree, Missing
  <1> HIDE DEF t
  <1>4. BuiltTree(postings).own = own
    <2> HIDE DEF own
    <2> QED  BY <1>1, <1>2
  <1>5. IsFiniteSet(held)
    <2> DEFINE L == Len(postings)
               lineage == [i \in 1 .. L |-> Lineage(postings[i].account)]
               lineages == {lineage[i] : i \in 1 .. L}
    <2>1. L \in Nat /\ DOMAIN postings = 1 .. L
          /\ \A i \in 1 .. L : postings[i].account \in Path
      <3> DEFINE Data == [account : Seq(Nat), amount : Int]
      <3>1. postings \in Seq(Data)
        BY PathAssumption
      <3>2. \A e \in Data : e.account \in Path
        BY DEF Path
      <3> HIDE DEF Data
      <3>3. L \in Nat /\ DOMAIN postings = 1 .. L /\ \A i \in 1 .. L : postings[i] \in Data
        BY <3>1
      <3> QED  BY <3>2, <3>3
    <2>2. ASSUME NEW q \in Path PROVE IsFiniteSet(Lineage(q))
      <3> DEFINE N == Len(q)
                 part == [k \in 1 .. N |-> SubSeq(q, 1, k)]
      <3>1. N \in Nat /\ Lineage(q) = {part[k] : k \in 1 .. N}
        BY <2>2 DEF Path, Lineage
      <3>2. IsFiniteSet(1 .. N)
        BY <3>1, FS_Interval
      <3>3. part \in Surjection(1 .. N, Lineage(q))
        <4>1. DOMAIN part = 1 .. N /\ part = [k \in 1 .. N |-> part[k]]
          OBVIOUS
        <4> HIDE DEF part, N
        <4> QED  BY <3>1, <4>1 DEF Surjection
      <3> HIDE DEF part, N
      <3> QED  BY <3>2, <3>3, FS_Surjection
    <2>3. \A A \in lineages : IsFiniteSet(A)
      BY <2>1, <2>2
    <2>4. IsFiniteSet(lineages)
      <3>1. IsFiniteSet(1 .. L)
        BY <2>1, FS_Interval
      <3>2. lineage \in Surjection(1 .. L, lineages)
        <4>1. lineage = [i \in 1 .. L |-> lineage[i]]
          OBVIOUS
        <4> HIDE DEF lineage, L
        <4> QED  BY <4>1 DEF Surjection
      <3> HIDE DEF lineage, lineages, L
      <3> QED  BY <3>1, <3>2, FS_Surjection
    <2>5. UNION {Lineage(p) : p \in asked} \subseteq UNION lineages
      <3>1. ASSUME NEW p \in asked PROVE Lineage(p) \in lineages
        <4>1. PICK i \in 1 .. L : p = postings[i].account
          BY <2>1 DEF ToSet
        <4> QED  BY <4>1
      <3> HIDE DEF asked, lineages
      <3> QED  BY <3>1
    <2>6. IsFiniteSet(UNION lineages)
      <3> HIDE DEF lineages
      <3> QED  BY <2>3, <2>4, FS_UNION
    <2>7. held \in SUBSET UNION lineages
      <3> HIDE DEF asked, lineages
      <3> QED  BY <1>3, <2>5
    <2> HIDE DEF held, lineages
    <2> QED  BY <2>6, <2>7, FS_Subset
  <1>6. DOMAIN own = held /\ \A p \in held : own[p].balance \in Int
    BY AccumulatedIsInt
  <1> HIDE DEF own, held
  <1> QED  BY <1>4, <1>5, <1>6 DEF Money

\* Removing accounts leaves the balances of the others alone.
LEMMA RemovedMoney ==
    ASSUME NEW t, Shape(t), Money(t.own), NEW asked
    PROVE  Money(Removed(t, asked).own)
  <1> DEFINE D == DOMAIN t.own
             gone == Doomed(t, asked)
             own == [p \in D \ gone |-> t.own[p]]
  <1>1. Removed(t, asked).own = own
    BY DEF Removed, Shape
  <1>2. IsFiniteSet(D \ gone)
    <2> HIDE DEF gone
    <2> QED  BY FS_Subset, D \ gone \in SUBSET D DEF Money
  <1>3. DOMAIN own = D \ gone /\ \A p \in D \ gone : own[p].balance \in Int
    BY DEF Money
  <1> HIDE DEF own
  <1> QED  BY <1>1, <1>2, <1>3 DEF Money

LEMMA MoneyStep == TreeInv /\ Money(tree.own) /\ [Next]_vars => Money(tree.own)'
  <1> SUFFICES ASSUME TreeInv, Money(tree.own), [Next]_vars PROVE Money(tree'.own)
    OBVIOUS
  <1>1. Sound(tree) /\ Shape(tree)
    BY DEF TreeInv, Sound
  <1>2. ASSUME tree'.own = tree.own PROVE Money(tree'.own)
    BY <1>2
  <1>3. \A asked : Collected(tree, asked).own = tree.own
    BY <1>1 DEF Collected, Shape
  <1>4. \A p, state : SetLoad(tree, p, state).own = tree.own
    BY <1>1 DEF SetLoad, Shape
  <1>5. ASSUME ApplyAdd PROVE tree'.own = tree.own
    BY <1>3, <1>5 DEF ApplyAdd
  <1>6. ASSUME ApplyRemove PROVE Money(tree'.own)
    BY <1>1, <1>6, RemovedMoney DEF ApplyRemove
  <1>7. ASSUME ApplyMove PROVE Money(tree'.own)
    <2> DEFINE from == Head(call.ops).from
               to == Head(call.ops).to
    <2>1. CASE MoveAllowed(tree, from, to)
      <3>1. tree' = Moved(tree, from, to)
        BY <1>7, <2>1 DEF ApplyMove
      <3>2. to \in Path
        <4>1. Head(call.ops) \in Operation
          BY <1>7 DEF ApplyMove, Applying, TreeInv
        <4> QED  BY <4>1 DEF Operation, Path
      <3> HIDE DEF from, to
      <3> QED  BY <1>1, <2>1, <3>1, <3>2, MovedTotals
    <2>2. CASE ~MoveAllowed(tree, from, to)
      BY <1>7, <2>2 DEF ApplyMove
    <2> QED  BY <2>1, <2>2
  <1>8. ASSUME NEW p, NEW on, SetExpanded(p, on) PROVE tree'.own = tree.own
    BY <1>8 DEF SetExpanded
  <1>9. ASSUME ExpandAll \/ CollapseAll PROVE tree'.own = tree.own
    <2>1. PICK shown : tree' = [tree EXCEPT !.expanded = shown]
      BY <1>9 DEF ExpandAll, CollapseAll
    <2> QED  BY <2>1
  <1>10. ASSUME NEW p, MarkUnloaded(p) PROVE tree'.own = tree.own
    <2> DEFINE u == SetLoad(tree, p, "unloaded")
    <2>1. tree' = [u EXCEPT !.expanded = @ \ {p}]
      BY <1>10 DEF MarkUnloaded
    <2>2. u.own = tree.own /\ u = [paths |-> u.paths, children |-> u.children,
                                  expanded |-> u.expanded, load |-> u.load, own |-> u.own]
      BY <1>1 DEF SetLoad, Shape
    <2> HIDE DEF u
    <2> QED  BY <2>1, <2>2
  <1>11. ASSUME NEW p, BeginChildLoad(p) \/ FailChildLoad(p) PROVE tree'.own = tree.own
    BY <1>4, <1>11 DEF BeginChildLoad, FailChildLoad
  <1>12. ASSUME NEW p, NEW paths, CompleteChildLoad(p, paths) PROVE tree'.own = tree.own
    <2> DEFINE t == Collected(tree, paths)
    <2>1. tree' = [t EXCEPT !.load = [q \in DOMAIN @ \ {p} |-> @[q]]]
      BY <1>12 DEF CompleteChildLoad
    <2>2. t.own = tree.own /\ t = [paths |-> t.paths, children |-> t.children,
                                  expanded |-> t.expanded, load |-> t.load, own |-> t.own]
      BY <1>1, CollectedShape
    <2> HIDE DEF t
    <2> QED  BY <2>1, <2>2
  <1>13. ASSUME \/ EnsureTopology \/ EnsureProjection \/ Finish \/ UNCHANGED vars
                \/ \E ops : Start(ops)
         PROVE  tree'.own = tree.own
    BY <1>13 DEF EnsureTopology, EnsureProjection, Finish, vars, Start
  <1> QED
    BY <1>2, <1>5, <1>6, <1>7, <1>8, <1>9, <1>10, <1>11, <1>12, <1>13
       DEF Next, AddAccounts, RemoveAccounts, MoveAccount, BatchAccounts

LEMMA MoveStep ==
    ASSUME TreeInv, Money(tree.own), ApplyMove, tree' # tree
    PROVE  /\ TotalAt(tree', Head(call.ops).to) = TotalAt(tree, Head(call.ops).from)
           /\ TotalAt(tree', Root) = TotalAt(tree, Root)
  <1> DEFINE from == Head(call.ops).from
             to == Head(call.ops).to
  <1>1. Sound(tree)
    BY DEF TreeInv
  <1>2. MoveAllowed(tree, from, to) /\ tree' = Moved(tree, from, to)
    BY DEF ApplyMove
  <1>3. to \in Path
    <2>1. Head(call.ops) \in Operation
      BY DEF ApplyMove, Applying, TreeInv
    <2> QED  BY <2>1 DEF Operation, Path
  <1> HIDE DEF from, to
  <1>4. TotalAt(tree', to) = TotalAt(tree, from) /\ TotalAt(tree', Root) = TotalAt(tree, Root)
    BY <1>1, <1>2, <1>3, MovedTotals
  <1> QED  BY <1>4 DEF from, to

\* A move loses and invents no money, on any chart, however deep what it moves and
\* whatever accounts it creates on the way.
THEOREM MovesKeepMoney == Spec => MoveKeepsMoney
  <1>1. Init => TreeInv
    BY BuiltSound DEF Init, TreeInv, NoCall
  <1>2. Init => Money(tree.own)
    BY BuiltMoney DEF Init
  <1>3. TreeInv /\ Money(tree.own) /\ [Next]_vars =>
          [ApplyMove /\ tree' # tree =>
             /\ TotalAt(tree', Head(call.ops).to) = TotalAt(tree, Head(call.ops).from)
             /\ TotalAt(tree', Root) = TotalAt(tree, Root)]_vars
    BY MoveStep
  <1> QED  BY <1>1, <1>2, <1>3, TreeStep, MoneyStep, PTL DEF Spec, MoveKeepsMoney

-----------------------------------------------------------------------------
(* The order of the rows *)

\* Paths that part, the first with the smaller segment.
Apart(p, q) ==
    \E i \in DOMAIN p \cap DOMAIN q : p[i] < q[i] /\ \A j \in 1 .. i - 1 : p[j] = q[j]

LEMMA PathFacts ==
    ASSUME NEW p \in Path
    PROVE  Len(p) \in Nat /\ DOMAIN p = 1 .. Len(p) /\ \A i \in DOMAIN p : p[i] \in Nat
  BY DEF Path

\* Paths that part do so with all that lies below them.
LEMMA ApartBelow ==
    ASSUME NEW p \in Path, NEW q \in Path, Apart(p, q),
           NEW r \in Path, NEW s \in Path, IsPrefix(p, r), IsPrefix(q, s)
    PROVE  Apart(r, s)
  <1>1. PICK i \in DOMAIN p \cap DOMAIN q : p[i] < q[i] /\ \A j \in 1 .. i - 1 : p[j] = q[j]
    BY DEF Apart
  <1>2. /\ Len(p) <= Len(r) /\ \A k \in 1 .. Len(p) : p[k] = r[k]
        /\ Len(q) <= Len(s) /\ \A k \in 1 .. Len(q) : q[k] = s[k]
    BY PrefixPointwise
  <1>3. /\ Len(p) \in Nat /\ DOMAIN p = 1 .. Len(p) /\ Len(q) \in Nat /\ DOMAIN q = 1 .. Len(q)
        /\ Len(r) \in Nat /\ DOMAIN r = 1 .. Len(r) /\ Len(s) \in Nat /\ DOMAIN s = 1 .. Len(s)
    BY PathFacts
  <1>4. i \in DOMAIN r \cap DOMAIN s /\ r[i] < s[i]
    BY <1>1, <1>2, <1>3
  <1>5. \A j \in 1 .. i - 1 : r[j] = s[j]
    BY <1>1, <1>2, <1>3
  <1> QED  BY <1>4, <1>5 DEF Apart

\* They part one way only, and neither lies below the other.
LEMMA ApartOnce ==
    ASSUME NEW p \in Path, NEW q \in Path, Apart(p, q)
    PROVE  ~Apart(q, p) /\ ~IsPrefix(p, q) /\ ~IsPrefix(q, p) /\ p # q
  <1>1. PICK i \in DOMAIN p \cap DOMAIN q : p[i] < q[i] /\ \A j \in 1 .. i - 1 : p[j] = q[j]
    BY DEF Apart
  <1>2. /\ Len(p) \in Nat /\ DOMAIN p = 1 .. Len(p) /\ Len(q) \in Nat /\ DOMAIN q = 1 .. Len(q)
        /\ \A k \in DOMAIN p : p[k] \in Nat
        /\ \A k \in DOMAIN q : q[k] \in Nat
    BY PathFacts
  <1>3. ~IsPrefix(p, q) /\ ~IsPrefix(q, p)
    <2>1. i \in DOMAIN p /\ i \in DOMAIN q /\ p[i] \in Nat /\ q[i] \in Nat /\ p[i] # q[i]
      BY <1>1, <1>2
    <2>2. ~IsPrefix(p, q)
      BY <2>1, PrefixPointwise
    <2>3. ~IsPrefix(q, p)
      BY <2>1, PrefixPointwise
    <2> QED  BY <2>2, <2>3
  <1>4. ASSUME Apart(q, p) PROVE FALSE
    <2>1. PICK k \in DOMAIN p \cap DOMAIN q : q[k] < p[k] /\ \A j \in 1 .. k - 1 : q[j] = p[j]
      BY <1>4 DEF Apart
    <2>2. i \in Nat /\ k \in Nat /\ i >= 1 /\ k >= 1
      BY <1>2
    <2>3. CASE i < k
      <3>1. i \in 1 .. k - 1
        BY <2>2, <2>3
      <3> QED  BY <1>1, <1>2, <2>1, <3>1
    <2>4. CASE k < i
      <3>1. k \in 1 .. i - 1
        BY <2>2, <2>4
      <3> QED  BY <1>1, <1>2, <2>1, <3>1
    <2>5. CASE i = k
      BY <1>1, <1>2, <2>1, <2>5
    <2> QED  BY <2>2, <2>3, <2>4, <2>5
  <1> QED  BY <1>1, <1>2, <1>3, <1>4

LEMMA OrderIs == \A p, q : PathOrder(p, q) <=> IsStrictPrefix(p, q) \/ Apart(p, q)
  BY DEF PathOrder, Apart

\* What comes before a path comes before all that lies below it.
LEMMA OrderBelow ==
    ASSUME NEW p \in Path, NEW q \in Path, PathOrder(p, q), NEW s \in Path, IsPrefix(q, s)
    PROVE  PathOrder(p, s)
  <1>1. CASE IsStrictPrefix(p, q)
    <2>1. IsPrefix(p, q) /\ p # q
      BY <1>1 DEF IsStrictPrefix
    <2>2. IsPrefix(p, s) /\ p # s
      BY <2>1, PrefixOrder, PrefixPointwise, PathFacts, PathEqual
    <2> QED  BY <2>2, OrderIs DEF IsStrictPrefix
  <1>2. CASE Apart(p, q)
    BY <1>2, ApartBelow, PrefixOrder, OrderIs
  <1> QED  BY <1>1, <1>2, OrderIs

LEMMA OrderOnce ==
    ASSUME NEW p \in Path, NEW q \in Path, PathOrder(p, q)
    PROVE  ~PathOrder(q, p) /\ ~IsPrefix(q, p) /\ p # q
  <1>1. CASE IsStrictPrefix(p, q)
    <2>1. IsPrefix(p, q) /\ p # q
      BY <1>1 DEF IsStrictPrefix
    <2>2. ~IsPrefix(q, p)
      BY <2>1, PrefixPointwise, PathFacts, PathEqual
    <2>3. ~Apart(q, p)
      BY <2>1, ApartOnce
    <2> QED  BY <2>1, <2>2, <2>3, OrderIs DEF IsStrictPrefix
  <1>2. CASE Apart(p, q)
    BY <1>2, ApartOnce, OrderIs DEF IsStrictPrefix
  <1> QED  BY <1>1, <1>2, OrderIs

\* Siblings part at their leaves.
LEMMA SiblingsApart ==
    ASSUME NEW p \in Path, NEW q \in Path, p # Root, q # Root, Parent(p) = Parent(q)
    PROVE  /\ Last(p) \in Nat /\ Last(q) \in Nat
           /\ Last(p) < Last(q) => Apart(p, q)
           /\ ~IsStrictPrefix(p, q)
           /\ Last(p) = Last(q) => p = q
  <1>1. /\ Len(p) \in Nat \ {0} /\ Len(q) \in Nat \ {0}
        /\ Len(Parent(p)) = Len(p) - 1 /\ Len(Parent(q)) = Len(q) - 1
    BY ParentType
  <1>2. Len(p) = Len(q)
    BY <1>1
  <1>3. DOMAIN p = 1 .. Len(p) /\ DOMAIN q = 1 .. Len(p) /\ \A i \in 1 .. Len(p) : p[i] \in Nat /\ q[i] \in Nat
    BY <1>2, PathFacts
  <1>4. Last(p) = p[Len(p)] /\ Last(q) = q[Len(p)]
    BY <1>2 DEF Last
  <1>5. \A j \in 1 .. Len(p) - 1 : p[j] = q[j]
    <2> TAKE j \in 1 .. Len(p) - 1
    <2>1. Parent(p)[j] = p[j] /\ Parent(q)[j] = q[j]
      BY <1>1, <1>2 DEF Parent, Path
    <2> QED  BY <2>1
  <1>6. ASSUME Last(p) < Last(q) PROVE Apart(p, q)
    <2>1. Len(p) \in DOMAIN p \cap DOMAIN q
      BY <1>1, <1>3
    <2> QED  BY <1>4, <1>5, <1>6, <2>1 DEF Apart
  <1>7. ~IsStrictPrefix(p, q)
    BY <1>2, PrefixOrder DEF IsStrictPrefix
  <1> QED  BY <1>1, <1>3, <1>4, <1>6, <1>7, SameLeaf

-----------------------------------------------------------------------------
(* A walk from the top of a forest down.  What it walks over are the nodes   *)
(* of a record w: each stands at a path, the walk starts from the first ones *)
(* and goes on below those that are open.                                    *)

\* A list of just the nodes of S, in the order of their leaves.
Listed(w, s, S) ==
    /\ s \in Seq(w.nodes)
    /\ \A x \in w.nodes : x \in S <=> \E i \in DOMAIN s : s[i] = x
    /\ \A i, j \in DOMAIN s : i < j => Apart(w.at[s[i]], w.at[s[j]])

Walked(w) ==
    /\ IsFiniteSet(w.nodes)
    /\ \A x \in w.nodes : w.at[x] \in Path /\ w.at[x] # Root
    /\ \A x, y \in w.nodes : w.at[x] = w.at[y] => x = y
    /\ \A x \in w.nodes : \A p \in Lineage(w.at[x]) : \E y \in w.nodes : w.at[y] = p
    /\ Listed(w, w.first, {x \in w.nodes : Parent(w.at[x]) = Root})
    /\ \A x \in w.nodes :
         Listed(w, w.below[x], IF w.at[x] \in w.open
                               THEN {y \in w.nodes : Parent(w.at[y]) = w.at[x]} ELSE {})

\* What is above the node is open.
Shown(w, x) == \A p \in Lineage(w.at[x]) : p # w.at[x] => p \in w.open

WalkTurn(w, walk) ==
    IF walk.stack = <<>> THEN walk
    ELSE [out |-> Append(walk.out, Head(walk.stack)),
          stack |-> w.below[Head(walk.stack)] \o Tail(walk.stack)]

\* What is out comes first, what waits lies apart, and nothing to be shown is
\* missing but what lies below something that waits.
WalkInv(w, out, stack) ==
    /\ out \in Seq(w.nodes) /\ stack \in Seq(w.nodes)
    /\ \A i, j \in DOMAIN out : i < j => PathOrder(w.at[out[i]], w.at[out[j]])
    /\ \A i \in DOMAIN out, j \in DOMAIN stack : PathOrder(w.at[out[i]], w.at[stack[j]])
    /\ \A i, j \in DOMAIN stack : i < j => Apart(w.at[stack[i]], w.at[stack[j]])
    /\ \A i \in DOMAIN out : Shown(w, out[i])
    /\ \A i \in DOMAIN stack : Shown(w, stack[i])
    /\ \A x \in w.nodes : Shown(w, x) =>
         \/ \E i \in DOMAIN out : out[i] = x
         \/ \E i \in DOMAIN stack : IsPrefix(w.at[stack[i]], w.at[x])

\* The child of a path on the way to a path below it.
LEMMA WayDown ==
    ASSUME NEW p \in Path, NEW q \in Path, IsPrefix(p, q), p # q
    PROVE  \E c \in Lineage(q) : Parent(c) = p /\ IsPrefix(c, q) /\ c # Root
  <1> DEFINE k == Len(p)
             c == SubSeq(q, 1, k + 1)
  <1>1. k \in 0 .. Len(q) /\ p = SubSeq(q, 1, k) /\ Len(q) \in Nat
    BY PrefixCut, PathFacts
  <1>2. k # Len(q)
    <2>1. ASSUME k = Len(q) PROVE FALSE
      BY <2>1, PrefixOrder
    <2> QED  BY <2>1
  <1>3. k + 1 \in 0 .. Len(q) /\ k + 1 # 0
    BY <1>1, <1>2
  <1>4. Parent(c) = p
    BY <1>1, <1>2, CutFacts
  <1>5. c \in Path /\ c # Root /\ IsPrefix(c, q)
    BY <1>3, CutFacts
  <1> HIDE DEF c
  <1> QED  BY <1>4, <1>5, LineagePrefix

\* Being shown passes from an open node to its children.
LEMMA ShownBelow ==
    ASSUME NEW w, Walked(w), NEW x \in w.nodes, NEW y \in w.nodes,
           Parent(w.at[y]) = w.at[x], w.at[x] \in w.open, Shown(w, x)
    PROVE  Shown(w, y)
  <1> DEFINE p == w.at[x]
             q == w.at[y]
  <1>1. p \in Path /\ q \in Path /\ q # Root /\ Parent(q) = p
    BY DEF Walked
  <1> SUFFICES ASSUME NEW c \in Lineage(q), c # q PROVE c \in w.open
    BY DEF Shown
  <1>2. c \in Path /\ c # Root /\ IsPrefix(c, q)
    BY <1>1, LineagePrefix
  <1>3. IsPrefix(c, p)
    BY <1>1, <1>2, ParentPrefix
  <1>4. c \in Lineage(p)
    BY <1>1, <1>2, <1>3, LineagePrefix
  <1> QED  BY <1>4 DEF Shown

LEMMA WalkStarts ==
    ASSUME NEW w, Walked(w)
    PROVE  WalkInv(w, <<>>, w.first)
  <1>1. /\ w.first \in Seq(w.nodes)
        /\ \A i \in DOMAIN w.first : w.first[i] \in w.nodes
        /\ \A i, j \in DOMAIN w.first : i < j => Apart(w.at[w.first[i]], w.at[w.first[j]])
        /\ \A x \in w.nodes : Parent(w.at[x]) = Root => \E i \in DOMAIN w.first : w.first[i] = x
        /\ \A i \in DOMAIN w.first : Parent(w.at[w.first[i]]) = Root
    <2> DEFINE top == {x \in w.nodes : Parent(w.at[x]) = Root}
    <2>1. Listed(w, w.first, top)
      BY DEF Walked
    <2>2. \A x \in w.nodes : x \in top <=> Parent(w.at[x]) = Root
      OBVIOUS
    <2> HIDE DEF top
    <2>3. w.first \in Seq(w.nodes)
      BY <2>1 DEF Listed
    <2>4. \A i \in DOMAIN w.first : w.first[i] \in w.nodes
      BY <2>3
    <2> QED  BY <2>1, <2>2, <2>3, <2>4 DEF Listed
  <1>2. ASSUME NEW i \in DOMAIN w.first PROVE Shown(w, w.first[i])
    <2> DEFINE q == w.at[w.first[i]]
    <2>1. q \in Path /\ q # Root /\ Parent(q) = Root
      BY <1>1 DEF Walked
    <2> HIDE DEF q
    <2>2. ASSUME NEW c \in Lineage(q), c # q PROVE FALSE
      <3>1. c \in Path /\ c # Root /\ IsPrefix(c, q)
        BY <2>1, LineagePrefix
      <3>2. IsPrefix(c, Root)
        BY <2>1, <2>2, <3>1, ParentPrefix
      <3> QED  BY <3>1, <3>2, RootPrefix
    <2> QED  BY <2>2 DEF Shown, q
  <1>3. ASSUME NEW x \in w.nodes
        PROVE  \E i \in DOMAIN w.first : IsPrefix(w.at[w.first[i]], w.at[x])
    <2> DEFINE q == w.at[x]
    <2>1. q \in Path /\ q # Root /\ \A p \in Lineage(q) : \E y \in w.nodes : w.at[y] = p
      BY DEF Walked
    <2> HIDE DEF q
    <2>2. Root \in Path /\ IsPrefix(Root, q)
      <3>1. Root \in Path /\ Len(Root) = 0
        BY DEF Root, Path
      <3> HIDE DEF Root
      <3> QED  BY <2>1, <3>1, PrefixPointwise, PathFacts
    <2>3. PICK c \in Lineage(q) : Parent(c) = Root /\ IsPrefix(c, q)
      BY <2>1, <2>2, WayDown
    <2>4. PICK y \in w.nodes : w.at[y] = c
      BY <2>1
    <2>5. PICK i \in DOMAIN w.first : w.first[i] = y
      BY <1>1, <2>3, <2>4
    <2> QED  BY <2>3, <2>4, <2>5 DEF q
  <1>4. <<>> \in Seq(w.nodes) /\ DOMAIN <<>> = {}
    OBVIOUS
  <1> QED  BY <1>1, <1>2, <1>3, <1>4 DEF WalkInv

LEMMA WalkSteps ==
    ASSUME NEW w, Walked(w), NEW out, NEW stack, WalkInv(w, out, stack), stack # <<>>
    PROVE  WalkInv(w, Append(out, Head(stack)), w.below[Head(stack)] \o Tail(stack))
  <1> DEFINE h == Head(stack)
             rest == Tail(stack)
             kids == w.below[h]
             outs == Append(out, h)
             next == kids \o rest
             at(x) == w.at[x]
             n == Len(out)
             k == Len(kids)
             m == Len(rest)
  <1>1. out \in Seq(w.nodes) /\ stack \in Seq(w.nodes)
    BY DEF WalkInv
  <1>2. /\ h \in w.nodes /\ rest \in Seq(w.nodes) /\ h = stack[1] /\ 1 \in DOMAIN stack
        /\ m \in Nat /\ DOMAIN rest = 1 .. m /\ Len(stack) = m + 1 /\ DOMAIN stack = 1 .. m + 1
        /\ \A i \in 1 .. m : rest[i] = stack[i + 1] /\ rest[i] \in w.nodes
    BY <1>1, HeadTailProperties
  <1>3. /\ kids \in Seq(w.nodes) /\ k \in Nat /\ DOMAIN kids = 1 .. k
        /\ \A i \in 1 .. k : kids[i] \in w.nodes
        /\ \A i, j \in 1 .. k : i < j => Apart(at(kids[i]), at(kids[j]))
        /\ \A i \in 1 .. k : Parent(at(kids[i])) = at(h) /\ at(h) \in w.open
        /\ \A y \in w.nodes : Parent(at(y)) = at(h) /\ at(h) \in w.open =>
                                \E i \in 1 .. k : kids[i] = y
    <2>1. Listed(w, kids, IF at(h) \in w.open
                          THEN {y \in w.nodes : Parent(at(y)) = at(h)} ELSE {})
      BY <1>2 DEF Walked
    <2> HIDE DEF kids, h
    <2>2. kids \in Seq(w.nodes)
      BY <2>1 DEF Listed
    <2>3. k \in Nat /\ DOMAIN kids = 1 .. k /\ \A i \in 1 .. k : kids[i] \in w.nodes
      BY <2>2
    <2> QED  BY <2>1, <2>2, <2>3 DEF Listed
  <1>4. \A x \in w.nodes : at(x) \in Path /\ at(x) # Root
    BY DEF Walked
  <1>5. /\ n \in Nat /\ DOMAIN out = 1 .. n /\ DOMAIN outs = 1 .. n + 1
        /\ outs \in Seq(w.nodes)
        /\ \A i \in 1 .. n : outs[i] = out[i] /\ out[i] \in w.nodes
        /\ outs[n + 1] = h
    BY <1>1, <1>2
  <1>6. /\ next \in Seq(w.nodes) /\ DOMAIN next = 1 .. k + m
        /\ \A i \in 1 .. k : next[i] = kids[i]
        /\ \A i \in 1 .. m : next[k + i] = rest[i]
    <2>1. kids \in Seq(w.nodes) /\ rest \in Seq(w.nodes) /\ k = Len(kids) /\ m = Len(rest)
      BY <1>2, <1>3
    <2> HIDE DEF kids, rest, k, m
    <2>2. /\ next \in Seq(w.nodes) /\ Len(next) = k + m
          /\ \A i \in 1 .. k + m : next[i] = IF i <= k THEN kids[i] ELSE rest[i - k]
      BY <2>1, ConcatProperties
    <2> HIDE DEF next
    <2>3. DOMAIN next = 1 .. k + m
      BY <1>2, <1>3, <2>2
    <2>4. \A i \in 1 .. k : i \in 1 .. k + m /\ i <= k
      BY <1>2, <1>3
    <2>5. \A i \in 1 .. m : k + i \in 1 .. k + m /\ ~(k + i <= k) /\ (k + i) - k = i
      BY <1>2, <1>3
    <2> QED  BY <2>2, <2>3, <2>4, <2>5
  <1>7. /\ \A i, j \in 1 .. n : i < j => PathOrder(at(out[i]), at(out[j]))
        /\ \A i \in 1 .. n : PathOrder(at(out[i]), at(h))
        /\ \A i \in 1 .. n, j \in 1 .. m : PathOrder(at(out[i]), at(rest[j]))
        /\ \A j \in 1 .. m : Apart(at(h), at(rest[j]))
        /\ \A i, j \in 1 .. m : i < j => Apart(at(rest[i]), at(rest[j]))
    <2>1. \A i \in 1 .. m : i + 1 \in 1 .. m + 1 /\ 1 < i + 1 /\ i + 1 \in Nat
      BY <1>2
    <2>2. \A i, j \in 1 .. m : i < j => i + 1 < j + 1
      BY <1>2
    <2>3. /\ \A i, j \in DOMAIN out : i < j => PathOrder(w.at[out[i]], w.at[out[j]])
          /\ \A i \in DOMAIN out, j \in DOMAIN stack : PathOrder(w.at[out[i]], w.at[stack[j]])
          /\ \A i, j \in DOMAIN stack : i < j => Apart(w.at[stack[i]], w.at[stack[j]])
      BY DEF WalkInv
    <2> HIDE DEF m, n, h, rest
    <2>4. /\ \A i, j \in 1 .. n : i < j => PathOrder(at(out[i]), at(out[j]))
          /\ \A i \in 1 .. n : PathOrder(at(out[i]), at(h))
      BY <1>2, <1>5, <2>3
    <2>5. \A i \in 1 .. n, j \in 1 .. m : PathOrder(at(out[i]), at(rest[j]))
      <3> TAKE i \in 1 .. n, j \in 1 .. m
      <3>1. i \in DOMAIN out /\ j + 1 \in DOMAIN stack /\ rest[j] = stack[j + 1]
        BY <1>2, <1>5, <2>1
      <3> QED  BY <2>3, <3>1
    <2>6. \A j \in 1 .. m : Apart(at(h), at(rest[j]))
      BY <1>2, <2>1, <2>3
    <2>7. \A i, j \in 1 .. m : i < j => Apart(at(rest[i]), at(rest[j]))
      BY <1>2, <2>1, <2>2, <2>3
    <2> QED  BY <2>4, <2>5, <2>6, <2>7
  <1>8. /\ \A i \in 1 .. n : Shown(w, out[i])
        /\ Shown(w, h)
        /\ \A i \in 1 .. m : Shown(w, rest[i])
    <2>1. \A i \in 1 .. m : i + 1 \in 1 .. m + 1
      BY <1>2
    <2> HIDE DEF m, n, h, rest
    <2> QED  BY <1>2, <1>5, <2>1 DEF WalkInv
  <1>9. ASSUME NEW x \in w.nodes, Shown(w, x)
        PROVE  \/ \E i \in 1 .. n : out[i] = x
               \/ IsPrefix(at(h), at(x))
               \/ \E i \in 1 .. m : IsPrefix(at(rest[i]), at(x))
    <2>1. \/ \E i \in DOMAIN out : out[i] = x
          \/ \E i \in DOMAIN stack : IsPrefix(at(stack[i]), at(x))
      BY <1>9 DEF WalkInv
    <2>2. ASSUME NEW i \in 1 .. m + 1, i # 1
          PROVE  i - 1 \in 1 .. m /\ stack[i] = rest[i - 1]
      <3>1. i - 1 \in 1 .. m /\ (i - 1) + 1 = i
        BY <1>2, <2>2
      <3> HIDE DEF m, rest
      <3> QED  BY <1>2, <3>1
    <2> HIDE DEF m, n, h, rest
    <2> QED  BY <1>2, <1>5, <2>1, <2>2
  <1>10. ASSUME NEW i \in 1 .. k
         PROVE  IsPrefix(at(h), at(kids[i])) /\ PathOrder(at(h), at(kids[i])) /\ Shown(w, kids[i])
    <2> DEFINE y == kids[i]
    <2>1. y \in w.nodes /\ Parent(at(y)) = at(h) /\ at(h) \in w.open
      BY <1>3
    <2> HIDE DEF y
    <2>2. IsPrefix(at(h), at(y)) /\ at(h) # at(y)
      BY <1>4, <2>1, ParentPrefix
    <2>3. Shown(w, y)
      BY <1>2, <1>8, <2>1, ShownBelow
    <2> QED  BY <2>2, <2>3, OrderIs DEF IsStrictPrefix, y
  <1> HIDE DEF h, rest, kids, outs, next, n, k, m
  <1>11. \A i, j \in 1 .. n + 1 : i < j => PathOrder(at(outs[i]), at(outs[j]))
    <2> TAKE i, j \in 1 .. n + 1
    <2> HAVE i < j
    <2>1. i \in 1 .. n
      BY <1>5
    <2>2. CASE j = n + 1
      BY <1>5, <1>7, <2>1, <2>2
    <2>3. CASE j # n + 1
      <3>1. j \in 1 .. n
        BY <1>5, <2>3
      <3> QED  BY <1>5, <1>7, <2>1, <3>1
    <2> QED  BY <2>2, <2>3
  <1>12. \A j \in 1 .. k + m : \/ j \in 1 .. k /\ next[j] = kids[j]
                               \/ j - k \in 1 .. m /\ next[j] = rest[j - k]
    <2> TAKE j \in 1 .. k + m
    <2>1. CASE j <= k
      BY <1>2, <1>3, <1>6, <2>1
    <2>2. CASE ~(j <= k)
      <3>1. j - k \in 1 .. m /\ k + (j - k) = j
        BY <1>2, <1>3, <2>2
      <3> QED  BY <1>6, <3>1
    <2> QED  BY <2>1, <2>2
  <1>13. \A i \in 1 .. n + 1, j \in 1 .. k + m : PathOrder(at(outs[i]), at(next[j]))
    <2> TAKE i \in 1 .. n + 1, j \in 1 .. k + m
    <2>1. CASE i = n + 1
      <3>1. \A r \in 1 .. m : PathOrder(at(h), at(rest[r]))
        BY <1>7, OrderIs
      <3> QED  BY <1>5, <1>10, <1>12, <2>1, <3>1
    <2>2. CASE i # n + 1
      <3>1. i \in 1 .. n
        BY <1>5, <2>2
      <3>2. ASSUME NEW c \in 1 .. k PROVE PathOrder(at(out[i]), at(kids[c]))
        <4>1. at(out[i]) \in Path /\ at(h) \in Path /\ at(kids[c]) \in Path
          BY <1>2, <1>3, <1>4, <1>5, <3>1
        <4>2. PathOrder(at(out[i]), at(h)) /\ IsPrefix(at(h), at(kids[c]))
          BY <1>7, <1>10, <3>1
        <4> QED  BY <4>1, <4>2, OrderBelow
      <3> QED  BY <1>5, <1>7, <1>12, <3>1, <3>2
    <2> QED  BY <2>1, <2>2
  <1>14. \A i, j \in 1 .. k + m : i < j => Apart(at(next[i]), at(next[j]))
    <2> TAKE i, j \in 1 .. k + m
    <2> HAVE i < j
    <2>1. CASE i \in 1 .. k /\ j \in 1 .. k
      BY <1>3, <1>6, <2>1
    <2>2. CASE i \in 1 .. k /\ j \notin 1 .. k
      <3> DEFINE r == j - k
      <3>1. r \in 1 .. m /\ next[j] = rest[r] /\ next[i] = kids[i]
        BY <1>6, <1>12, <2>2
      <3> HIDE DEF r
      <3>2. Apart(at(h), at(rest[r])) /\ IsPrefix(at(h), at(kids[i]))
        BY <1>7, <1>10, <2>2, <3>1
      <3>3. at(h) \in Path /\ at(kids[i]) \in Path /\ at(rest[r]) \in Path
        BY <1>2, <1>3, <1>4, <2>2, <3>1
      <3>4. IsPrefix(at(rest[r]), at(rest[r]))
        BY <3>3, PrefixOrder
      <3>5. Apart(at(kids[i]), at(rest[r]))
        BY <3>2, <3>3, <3>4, ApartBelow
      <3> QED  BY <3>1, <3>5
    <2>3. CASE i \notin 1 .. k
      <3>1. i - k \in 1 .. m /\ next[i] = rest[i - k]
        BY <1>12, <2>3
      <3>2. j \notin 1 .. k
        BY <1>2, <1>3, <2>3
      <3>3. j - k \in 1 .. m /\ next[j] = rest[j - k] /\ i - k < j - k
        <4>1. i \in Int /\ j \in Int
          OBVIOUS
        <4> QED  BY <1>3, <1>12, <3>2, <4>1
      <3> QED  BY <1>7, <3>1, <3>3
    <2> QED  BY <2>1, <2>2, <2>3
  <1>15. \A i \in 1 .. n + 1 : Shown(w, outs[i])
    <2> TAKE i \in 1 .. n + 1
    <2>1. i = n + 1 \/ i \in 1 .. n
      BY <1>5
    <2> QED  BY <1>5, <1>8, <2>1
  <1>16. \A j \in 1 .. k + m : Shown(w, next[j])
    BY <1>8, <1>10, <1>12
  <1>17. ASSUME NEW x \in w.nodes, Shown(w, x)
         PROVE  \/ \E i \in 1 .. n + 1 : outs[i] = x
                \/ \E j \in 1 .. k + m : IsPrefix(at(next[j]), at(x))
    <2>1. CASE \E i \in 1 .. n : out[i] = x
      <3>1. \A i \in 1 .. n : i \in 1 .. n + 1
        BY <1>5
      <3> QED  BY <1>5, <2>1, <3>1
    <2>2. CASE \E i \in 1 .. m : IsPrefix(at(rest[i]), at(x))
      <3>1. \A i \in 1 .. m : k + i \in 1 .. k + m
        BY <1>2, <1>3
      <3> QED  BY <1>6, <2>2, <3>1
    <2>3. CASE IsPrefix(at(h), at(x)) /\ at(h) = at(x)
      <3>1. h = x
        BY <1>2, <2>3 DEF Walked
      <3>2. n + 1 \in 1 .. n + 1
        BY <1>5
      <3> QED  BY <1>5, <3>1, <3>2
    <2>4. CASE IsPrefix(at(h), at(x)) /\ at(h) # at(x)
      <3>1. at(h) \in Path /\ at(h) # Root /\ at(x) \in Path
        BY <1>2, <1>4
      <3>2. at(h) \in w.open
        <4>1. at(h) \in Lineage(at(x))
          BY <2>4, <3>1, LineagePrefix
        <4> QED  BY <1>17, <2>4, <4>1 DEF Shown
      <3>3. PICK c \in Lineage(at(x)) : Parent(c) = at(h) /\ IsPrefix(c, at(x))
        BY <2>4, <3>1, WayDown
      <3>4. PICK y \in w.nodes : at(y) = c
        BY <3>3 DEF Walked
      <3>5. PICK i \in 1 .. k : kids[i] = y
        BY <1>3, <3>2, <3>3, <3>4
      <3>6. i \in 1 .. k + m /\ next[i] = y
        BY <1>2, <1>3, <1>6, <3>5
      <3> QED  BY <3>3, <3>4, <3>6
    <2> QED  BY <1>9, <1>17, <2>1, <2>2, <2>3, <2>4
  <1>18. WalkInv(w, outs, next)
    BY <1>5, <1>6, <1>11, <1>13, <1>14, <1>15, <1>16, <1>17 DEF WalkInv
  <1> QED  BY <1>18 DEF outs, next, kids, rest, h

\* No node is out twice, so that there are never more than there are nodes.
LEMMA OutBounded ==
    ASSUME NEW w, Walked(w), NEW out, NEW stack, WalkInv(w, out, stack)
    PROVE  Cardinality(w.nodes) \in Nat /\ Len(out) <= Cardinality(w.nodes)
  <1> DEFINE n == Len(out)
  <1>1. n \in Nat /\ DOMAIN out = 1 .. n /\ out \in [1 .. n -> w.nodes]
    <2>1. out \in Seq(w.nodes)
      BY DEF WalkInv
    <2> QED  BY <2>1
  <1>2. IsFiniteSet(w.nodes) /\ Cardinality(w.nodes) \in Nat
    BY FS_CardinalityType DEF Walked
  <1>3. ASSUME NEW i \in 1 .. n, NEW j \in 1 .. n, i < j PROVE out[i] # out[j]
    <2>1. PathOrder(w.at[out[i]], w.at[out[j]])
      BY <1>1, <1>3 DEF WalkInv
    <2>2. w.at[out[i]] \in Path /\ w.at[out[j]] \in Path
      BY <1>1 DEF Walked
    <2> QED  BY <2>1, <2>2, OrderOnce
  <1>4. out \in Injection(1 .. n, w.nodes)
    <2>1. \A i, j \in 1 .. n : out[i] = out[j] => i = j
      <3> SUFFICES ASSUME NEW i \in 1 .. n, NEW j \in 1 .. n, out[i] = out[j], i # j PROVE FALSE
        OBVIOUS
      <3>1. i < j \/ j < i
        BY <1>1
      <3> QED  BY <1>3, <3>1
    <2> HIDE DEF n
    <2> QED  BY <1>1, <2>1 DEF Injection, IsInjective
  <1>5. IsFiniteSet(1 .. n) /\ Cardinality(1 .. n) = n
    BY <1>1, FS_Interval
  <1> HIDE DEF n
  <1>6. Cardinality(1 .. n) <= Cardinality(w.nodes)
    BY <1>2, <1>4, FS_Injection
  <1> QED  BY <1>2, <1>5, <1>6 DEF n

\* A walk of as many turns as there are nodes has nothing left to turn to.
LEMMA WalkEnds ==
    ASSUME NEW w, Walked(w), NEW L \in Nat, Cardinality(w.nodes) <= L, NEW run,
           run[0] = [out |-> <<>>, stack |-> w.first],
           \A n \in 1 .. L : \A out \in Seq(w.nodes), stack \in Seq(w.nodes) :
             run[n - 1] = [out |-> out, stack |-> stack] =>
               run[n] = WalkTurn(w, [out |-> out, stack |-> stack])
    PROVE  WalkInv(w, run[L].out, <<>>)
  <1> DEFINE good(n, out, stack) ==
               /\ run[n] = [out |-> out, stack |-> stack]
               /\ WalkInv(w, out, stack) /\ (stack = <<>> \/ Len(out) = n)
             T == {n \in 0 .. L : \E out, stack : good(n, out, stack)}
  <1>1. 0 \in T
    <2>1. good(0, <<>>, w.first)
      BY WalkStarts
    <2> QED  BY <2>1
  <1>2. ASSUME NEW n \in 1 .. L, n - 1 \in T PROVE n \in T
    <2>1. PICK out, stack : good(n - 1, out, stack)
      BY <1>2
    <2>2. out \in Seq(w.nodes) /\ stack \in Seq(w.nodes)
      BY <2>1 DEF WalkInv
    <2>3. run[n] = WalkTurn(w, [out |-> out, stack |-> stack])
      BY <2>1, <2>2
    <2>4. CASE stack = <<>>
      <3>1. run[n] = [out |-> out, stack |-> stack]
        BY <2>3, <2>4 DEF WalkTurn
      <3>2. good(n, out, stack)
        BY <2>1, <2>4, <3>1
      <3> QED  BY <3>2
    <2>5. CASE stack # <<>>
      <3> DEFINE outs == Append(out, Head(stack))
                 next == w.below[Head(stack)] \o Tail(stack)
      <3>1. run[n] = [out |-> outs, stack |-> next]
        BY <2>3, <2>5 DEF WalkTurn
      <3>2. WalkInv(w, outs, next)
        BY <2>1, <2>5, WalkSteps
      <3>3. Len(outs) = n
        <4>1. Len(out) = n - 1 /\ n \in Nat
          BY <2>1, <2>5
        <4> QED  BY <2>2, <4>1
      <3> HIDE DEF outs, next
      <3>4. good(n, outs, next)
        BY <3>1, <3>2, <3>3
      <3> QED  BY <3>4
    <2> QED  BY <2>4, <2>5
  <1> HIDE DEF T
  <1>3. \A n \in 1 .. L : n - 1 \in T => n \in T
    BY <1>2
  <1>4. \A n \in 0 .. L : n \in T
    BY <1>1, <1>3, Counting
  <1>5. L \in T
    BY <1>4
  <1>6. PICK out, stack : good(L, out, stack)
    BY <1>5 DEF T
  <1>7. ASSUME stack # <<>> PROVE FALSE
    <2> DEFINE outs == Append(out, Head(stack))
               next == w.below[Head(stack)] \o Tail(stack)
    <2>1. WalkInv(w, outs, next)
      BY <1>6, <1>7, WalkSteps
    <2>2. Len(outs) = L + 1
      <3>1. out \in Seq(w.nodes) /\ Len(out) = L
        BY <1>6, <1>7 DEF WalkInv
      <3> QED  BY <3>1
    <2> HIDE DEF outs, next
    <2>3. Cardinality(w.nodes) \in Nat /\ Len(outs) <= Cardinality(w.nodes)
      BY <2>1, OutBounded
    <2> QED  BY <2>2, <2>3
  <1> QED  BY <1>6, <1>7

\* So it shows what is to be shown, once, in order.
LEMMA WalkShows ==
    ASSUME NEW w, Walked(w), NEW out, WalkInv(w, out, <<>>)
    PROVE  /\ out \in Seq(w.nodes)
           /\ \A i, j \in DOMAIN out : i < j => PathOrder(w.at[out[i]], w.at[out[j]])
           /\ \A x \in w.nodes : Shown(w, x) <=> \E i \in DOMAIN out : out[i] = x
  <1>1. DOMAIN <<>> = {}
    OBVIOUS
  <1> QED  BY <1>1 DEF WalkInv

\* A fold from the first position on takes them one by one.
LEMMA FoldUp ==
    ASSUME NEW how, how.kind # "sum", NEW L \in Nat
    PROVE  /\ Folded(how, 1 .. 0) = how.base
           /\ \A n \in 1 .. L : Folded(how, 1 .. n) = Joined(how, n, Folded(how, 1 .. n - 1))
  <1> DEFINE S == 1 .. L
  <1>1. \A s : Chosen(how, s) = Max(s)
    BY DEF Chosen
  <1>2. IsFiniteSet(S)
    BY FS_Interval
  <1>3. Chooses(how, S)
    BY <1>1, MaxInside DEF Chooses
  <1>4. Folded(how, 1 .. 0) = how.base
    <2>1. 1 .. 0 = {} /\ {} \in SUBSET S
      OBVIOUS
    <2> HIDE DEF S
    <2> QED  BY <1>2, <1>3, <2>1, FoldIs
  <1>5. ASSUME NEW n \in 1 .. L
        PROVE  Folded(how, 1 .. n) = Joined(how, n, Folded(how, 1 .. n - 1))
    <2> DEFINE u == 1 .. n
    <2>1. u \in SUBSET S /\ u # {} /\ n \in u /\ u \ {n} = 1 .. n - 1
      <3>1. n \in Nat /\ 1 <= n /\ n <= L
        OBVIOUS
      <3>2. \A i : i \in u => i \in S
        BY <3>1
      <3>3. \A i : i \in u \ {n} <=> i \in 1 .. n - 1
        BY <3>1
      <3>4. n \in u
        BY <3>1
      <3> HIDE DEF u, S
      <3> QED  BY <3>2, <3>3, <3>4
    <2>2. Max(u) = n
      <3>1. \A y \in u : n >= y
        OBVIOUS
      <3>2. \A x \in u : (\A y \in u : x >= y) => x = n
        BY <2>1
      <3> HIDE DEF u
      <3> QED  BY <2>1, <3>1, <3>2 DEF Max
    <2> HIDE DEF u, S
    <2>3. Folded(how, u) = Joined(how, Chosen(how, u), Folded(how, u \ {Chosen(how, u)}))
      BY <1>2, <1>3, <2>1, FoldIs
    <2> QED  BY <1>1, <2>1, <2>2, <2>3 DEF u
  <1> QED  BY <1>4, <1>5

OrderRun(children, L) ==
    LET after[n \in 0 .. L] ==
          IF n = 0 THEN [out |-> <<>>, stack |-> Siblings(children, Root)]
          ELSE OrderTurn(children, after[n - 1])
    IN  after

RowRun(topology, expanded, L) ==
    LET after[n \in 0 .. L] ==
          IF n = 0 THEN [out |-> <<>>, stack |-> IdsBelow(topology, Root)]
          ELSE RowTurn(topology, expanded, after[n - 1])
    IN  after

LEMMA OrderRunIs ==
    ASSUME NEW children, NEW L \in Nat
    PROVE  /\ OrderRun(children, L)[0] = [out |-> <<>>, stack |-> Siblings(children, Root)]
           /\ \A n \in 1 .. L :
                OrderRun(children, L)[n] = OrderTurn(children, OrderRun(children, L)[n - 1])
  <1> DEFINE start == [out |-> <<>>, stack |-> Siblings(children, Root)]
             runs(g) == g = [n \in 0 .. L |-> IF n = 0 THEN start ELSE OrderTurn(children, g[n - 1])]
             g == CHOOSE g : runs(g)
             how == Ordering(children)
             some == [n \in 0 .. L |-> Folded(how, 1 .. n)]
  <1>1. how.kind # "sum" /\ how.base = start
    BY DEF Ordering
  <1>2. \A n, acc : Joined(how, n, acc) = OrderTurn(children, acc)
    BY DEF Ordering, Joined
  <1> HIDE DEF how
  <1>3. /\ Folded(how, 1 .. 0) = start
        /\ \A n \in 1 .. L : Folded(how, 1 .. n) = OrderTurn(children, Folded(how, 1 .. n - 1))
    BY <1>1, <1>2, FoldUp
  <1>4. runs(some)
    <2>1. \A n \in 0 .. L : n # 0 => n \in 1 .. L /\ n - 1 \in 0 .. L
      OBVIOUS
    <2> HIDE DEF start
    <2> QED  BY <1>3, <2>1
  <1>5. OrderRun(children, L) = g
    BY DEF OrderRun
  <1>6. runs(g)
    BY <1>4, Zenon
  <1> HIDE DEF g, start
  <1> QED  BY <1>5, <1>6 DEF start

LEMMA RowRunIs ==
    ASSUME NEW topology, NEW expanded, NEW L \in Nat
    PROVE  /\ RowRun(topology, expanded, L)[0] = [out |-> <<>>, stack |-> IdsBelow(topology, Root)]
           /\ \A n \in 1 .. L :
                RowRun(topology, expanded, L)[n]
                  = RowTurn(topology, expanded, RowRun(topology, expanded, L)[n - 1])
  <1> DEFINE start == [out |-> <<>>, stack |-> IdsBelow(topology, Root)]
             runs(g) == g = [n \in 0 .. L |-> IF n = 0 THEN start
                                              ELSE RowTurn(topology, expanded, g[n - 1])]
             g == CHOOSE g : runs(g)
             how == Projecting(topology, expanded)
             some == [n \in 0 .. L |-> Folded(how, 1 .. n)]
  <1>1. how.kind # "sum" /\ how.base = start
    BY DEF Projecting
  <1>2. \A n, acc : Joined(how, n, acc) = RowTurn(topology, expanded, acc)
    BY DEF Projecting, Joined
  <1> HIDE DEF how
  <1>3. /\ Folded(how, 1 .. 0) = start
        /\ \A n \in 1 .. L : Folded(how, 1 .. n) = RowTurn(topology, expanded, Folded(how, 1 .. n - 1))
    BY <1>1, <1>2, FoldUp
  <1>4. runs(some)
    <2>1. \A n \in 0 .. L : n # 0 => n \in 1 .. L /\ n - 1 \in 0 .. L
      OBVIOUS
    <2> HIDE DEF start
    <2> QED  BY <1>3, <2>1
  <1>5. RowRun(topology, expanded, L) = g
    BY DEF RowRun
  <1>6. runs(g)
    BY <1>4, Zenon
  <1> HIDE DEF g, start
  <1> QED  BY <1>5, <1>6 DEF start

LEMMA PreorderIs ==
    ASSUME NEW paths, NEW children
    PROVE  Preorder(paths, children) = OrderRun(children, Cardinality(paths))[Cardinality(paths)].out
  BY DEF Preorder, DepthFirst, OrderRun, OrderTurn

LEMMA ProjectIs ==
    ASSUME NEW topology, NEW expanded
    PROVE  Project(topology, expanded)
             = RowRun(topology, expanded, Len(topology.order))[Len(topology.order)].out
  BY DEF Project, DepthFirst, RowRun, RowTurn, IdsBelow

-----------------------------------------------------------------------------
(* The rows of a chart *)

Chart(t) == Sound(t) /\ IsFiniteSet(t.paths)

\* Siblings are sorted, each at its place among them.
LEMMA SiblingsFacts ==
    ASSUME NEW t, Chart(t), NEW p \in t.paths \cup {Root}
    PROVE  LET s == Siblings(t.children, p)
               S == {q \in t.paths : Parent(q) = p}
           IN  /\ s \in Seq(t.paths)
               /\ \A q \in t.paths : Parent(q) = p <=> \E i \in DOMAIN s : s[i] = q
               /\ \A i, j \in DOMAIN s : i < j => Apart(s[i], s[j])
               /\ \A i, j \in DOMAIN s : s[i] = s[j] => i = j
               /\ IsFiniteSet(S) /\ Len(s) = Cardinality(S)
               /\ \A i \in DOMAIN s : Cardinality({q \in S : Last(q) < Last(s[i])}) = i - 1
  <1> DEFINE S == {q \in t.paths : Parent(q) = p}
             s == Siblings(t.children, p)
             before(q) == {r \in S : Last(r) < Last(q)}
  <1>1. t.paths \subseteq Path /\ \A q \in t.paths : q # Root
    BY DEF Chart, Sound, Shape, Forest, IsValidPath
  <1>2. s = ByLeaf(S)
    <2>1. Children(t, p) = S
      BY DEF Chart, Sound, Forest
    <2> QED  BY <2>1 DEF Siblings, Children
  <1>3. IsFiniteSet(S)
    <2>1. S \in SUBSET t.paths
      OBVIOUS
    <2> HIDE DEF S
    <2> QED  BY <2>1, FS_Subset DEF Chart
  <1>4. \A q, r \in S : /\ Last(q) \in Nat /\ Last(r) \in Nat
                        /\ Last(q) < Last(r) => Apart(q, r)
                        /\ Last(q) = Last(r) => q = r
    <2> TAKE q, r \in S
    <2>1. q \in Path /\ r \in Path /\ q # Root /\ r # Root /\ Parent(q) = Parent(r)
      BY <1>1
    <2> QED  BY <2>1, SiblingsApart
  <1>5. S \subseteq Path /\ \A q \in S : q # Root
    BY <1>1
  <1>6. \A q \in S : q \in t.paths
    OBVIOUS
  <1>7. \A q \in t.paths : q \in S <=> Parent(q) = p
    OBVIOUS
  <1> HIDE DEF S, s
  <1>8. /\ ByLeaf(S) \in Seq(S)
        /\ \A q \in S : \E i \in DOMAIN ByLeaf(S) : ByLeaf(S)[i] = q
        /\ \A i, j \in DOMAIN ByLeaf(S) : ByLeaf(S)[i] = ByLeaf(S)[j] => i = j
        /\ Len(ByLeaf(S)) = Cardinality(S)
        /\ \A i \in DOMAIN ByLeaf(S) : Cardinality(before(ByLeaf(S)[i])) = i - 1
    BY <1>3, <1>4, <1>5, ByLeafFacts
  <1>9. s \in Seq(S) /\ Len(s) \in Nat /\ DOMAIN s = 1 .. Len(s) /\ \A i \in DOMAIN s : s[i] \in S
    BY <1>2, <1>8
  <1>10. s \in Seq(t.paths)
    BY <1>6, <1>9
  <1>11. \A q \in t.paths : Parent(q) = p <=> \E i \in DOMAIN s : s[i] = q
    BY <1>2, <1>7, <1>8, <1>9
  <1>12. ASSUME NEW i \in DOMAIN s, NEW j \in DOMAIN s, i < j PROVE Apart(s[i], s[j])
    <2>1. s[i] \in S /\ s[j] \in S /\ i \in Nat /\ j \in Nat
      BY <1>9
    <2>2. Cardinality(before(s[i])) = i - 1 /\ Cardinality(before(s[j])) = j - 1
      BY <1>2, <1>8
    <2>3. ASSUME ~(Last(s[i]) < Last(s[j])) PROVE FALSE
      <3>1. before(s[j]) \in SUBSET before(s[i])
        <4>1. \A r \in S : Last(r) \in Nat
          BY <1>4
        <4> QED  BY <2>1, <2>3, <4>1
      <3>2. before(s[i]) \in SUBSET S
        OBVIOUS
      <3> HIDE DEF before
      <3>3. Cardinality(before(s[j])) <= Cardinality(before(s[i]))
        BY <1>3, <3>1, <3>2, FS_Subset
      <3> QED  BY <1>12, <2>1, <2>2, <3>3
    <2> QED  BY <1>4, <2>1, <2>3
  <1> QED  BY <1>2, <1>3, <1>8, <1>10, <1>11, <1>12 DEF S, s

\* Node ids number all paths, in order.
LEMMA PreorderFacts ==
    ASSUME NEW t, Chart(t)
    PROVE  LET order == Preorder(t.paths, t.children)
           IN  /\ order \in Seq(t.paths)
               /\ \A i, j \in DOMAIN order : i < j => PathOrder(order[i], order[j])
               /\ \A i, j \in DOMAIN order : order[i] = order[j] => i = j
               /\ \A p \in t.paths : \E i \in DOMAIN order : order[i] = p
  <1> DEFINE w == [nodes |-> t.paths, at |-> [p \in t.paths |-> p], open |-> t.paths,
                   first |-> Siblings(t.children, Root),
                   below |-> [p \in t.paths |-> Siblings(t.children, p)]]
             L == Cardinality(t.paths)
             run == OrderRun(t.children, L)
             order == Preorder(t.paths, t.children)
  <1>1. /\ w.nodes = t.paths /\ w.open = t.paths
        /\ \A p \in t.paths : w.at[p] = p /\ w.below[p] = Siblings(t.children, p)
        /\ w.first = Siblings(t.children, Root)
    OBVIOUS
  <1> HIDE DEF w
  <1>2. /\ t.paths \subseteq Path
        /\ \A p \in t.paths : p # Root /\ Lineage(p) \subseteq t.paths
        /\ IsFiniteSet(t.paths) /\ L \in Nat
    BY FS_CardinalityType DEF Chart, Sound, Shape, Forest, IsValidPath
  <1>3. ASSUME NEW p \in t.paths \cup {Root}
        PROVE  Listed(w, Siblings(t.children, p), {q \in w.nodes : Parent(w.at[q]) = p})
    <2> DEFINE s == Siblings(t.children, p)
    <2>1. /\ s \in Seq(t.paths)
          /\ \A q \in t.paths : Parent(q) = p <=> \E i \in DOMAIN s : s[i] = q
          /\ \A i, j \in DOMAIN s : i < j => Apart(s[i], s[j])
      BY SiblingsFacts
    <2> HIDE DEF s
    <2>2. \A i \in DOMAIN s : s[i] \in t.paths
      BY <2>1
    <2>3. \A i, j \in DOMAIN s : i < j => Apart(w.at[s[i]], w.at[s[j]])
      BY <1>1, <2>1, <2>2
    <2>4. \A q \in w.nodes : q \in {r \in w.nodes : Parent(w.at[r]) = p}
                               <=> \E i \in DOMAIN s : s[i] = q
      BY <1>1, <2>1
    <2>5. s \in Seq(w.nodes)
      BY <1>1, <2>1
    <2> QED  BY <2>3, <2>4, <2>5 DEF Listed, s
  <1>4. Walked(w)
    <2>1. \A x \in w.nodes : w.at[x] \in Path /\ w.at[x] # Root
      BY <1>1, <1>2
    <2>2. \A x, y \in w.nodes : w.at[x] = w.at[y] => x = y
      BY <1>1
    <2>3. \A x \in w.nodes : \A p \in Lineage(w.at[x]) : \E y \in w.nodes : w.at[y] = p
      BY <1>1, <1>2
    <2>4. Listed(w, w.first, {x \in w.nodes : Parent(w.at[x]) = Root})
      BY <1>1, <1>3
    <2>5. ASSUME NEW x \in w.nodes
          PROVE  Listed(w, w.below[x], IF w.at[x] \in w.open
                                       THEN {y \in w.nodes : Parent(w.at[y]) = w.at[x]} ELSE {})
      <3>1. w.at[x] = x /\ x \in t.paths /\ w.at[x] \in w.open /\ w.below[x] = Siblings(t.children, x)
        BY <1>1
      <3>2. Listed(w, w.below[x], {y \in w.nodes : Parent(w.at[y]) = x})
        BY <1>3, <3>1
      <3> QED  BY <3>1, <3>2
    <2> QED  BY <1>1, <1>2, <2>1, <2>2, <2>3, <2>4, <2>5 DEF Walked
  <1>5. /\ run[0] = [out |-> <<>>, stack |-> w.first]
        /\ \A n \in 1 .. L : run[n] = OrderTurn(t.children, run[n - 1])
    BY <1>1, <1>2, OrderRunIs
  <1>6. order = run[L].out
    BY PreorderIs
  <1>7. Cardinality(w.nodes) <= L
    BY <1>1, <1>2
  <1> HIDE DEF run, order, L
  <1>8. ASSUME NEW n \in 1 .. L, NEW out \in Seq(w.nodes), NEW stack \in Seq(w.nodes),
               run[n - 1] = [out |-> out, stack |-> stack]
        PROVE  run[n] = WalkTurn(w, [out |-> out, stack |-> stack])
    <2>1. run[n] = OrderTurn(t.children, [out |-> out, stack |-> stack])
      BY <1>5, <1>8
    <2>2. stack # <<>> => w.below[Head(stack)] = Siblings(t.children, Head(stack))
      <3>1. stack # <<>> => Head(stack) \in t.paths
        BY <1>1, HeadTailProperties
      <3> QED  BY <1>1, <3>1
    <2> QED  BY <2>1, <2>2 DEF OrderTurn, WalkTurn
  <1>9. WalkInv(w, order, <<>>)
    BY <1>2, <1>4, <1>5, <1>6, <1>7, <1>8, WalkEnds
  <1>10. /\ order \in Seq(w.nodes)
         /\ \A i, j \in DOMAIN order : i < j => PathOrder(w.at[order[i]], w.at[order[j]])
         /\ \A x \in w.nodes : Shown(w, x) <=> \E i \in DOMAIN order : order[i] = x
    BY <1>4, <1>9, WalkShows
  <1>11. \A i \in DOMAIN order : i \in Nat /\ order[i] \in t.paths
    BY <1>1, <1>10
  <1>12. \A i, j \in DOMAIN order : i < j => PathOrder(order[i], order[j])
    BY <1>1, <1>10, <1>11
  <1>13. \A i, j \in DOMAIN order : order[i] = order[j] => i = j
    <2> SUFFICES ASSUME NEW i \in DOMAIN order, NEW j \in DOMAIN order, i < j PROVE order[i] # order[j]
      BY <1>11
    <2> QED  BY <1>2, <1>11, <1>12, OrderOnce
  <1>14. \A p \in t.paths : \E i \in DOMAIN order : order[i] = p
    <2> TAKE p \in t.paths
    <2>1. Shown(w, p)
      BY <1>1, <1>2 DEF Shown
    <2> QED  BY <1>1, <1>10, <2>1
  <1> QED  BY <1>1, <1>10, <1>12, <1>13, <1>14 DEF order

BalanceOf(t) ==
    [p \in t.paths \cup {Root} |-> IF p \in DOMAIN t.own THEN t.own[p].balance ELSE 0]

LEMMA TopologyFields ==
    ASSUME NEW t, Chart(t)
    PROVE  LET d == Topology(t)
               order == Preorder(t.paths, t.children)
           IN  /\ d.order = order
               /\ d.sorted = [p \in t.paths \cup {Root} |-> Siblings(t.children, p)]
               /\ d.rolled = RollUp(order, BalanceOf(t)).rolled
               /\ d.overflow = RollUp(order, BalanceOf(t)).overflow
  <1> DEFINE order == Preorder(t.paths, t.children)
  <1>1. ToSet(order) = t.paths
    <2>1. order \in Seq(t.paths) /\ \A p \in t.paths : \E i \in DOMAIN order : order[i] = p
      BY PreorderFacts
    <2> HIDE DEF order
    <2>2. \A i \in DOMAIN order : order[i] \in t.paths
      BY <2>1
    <2> QED  BY <2>1, <2>2 DEF ToSet
  <1>2. Topology(t) = Derive(t.paths, t.children, t.own)
    BY DEF Topology
  <1> HIDE DEF order
  <1>3. /\ Derive(t.paths, t.children, t.own).order = order
        /\ Derive(t.paths, t.children, t.own).sorted
             = [p \in ToSet(order) \cup {Root} |-> Siblings(t.children, p)]
        /\ Derive(t.paths, t.children, t.own).rolled
             = RollUp(order, [p \in ToSet(order) \cup {Root} |->
                                IF p \in DOMAIN t.own THEN t.own[p].balance ELSE 0]).rolled
        /\ Derive(t.paths, t.children, t.own).overflow
             = RollUp(order, [p \in ToSet(order) \cup {Root} |->
                                IF p \in DOMAIN t.own THEN t.own[p].balance ELSE 0]).overflow
    BY DEF Derive, order
  <1> QED  BY <1>1, <1>2, <1>3 DEF BalanceOf, order

LEMMA OrderFacts ==
    ASSUME NEW t, Chart(t)
    PROVE  LET order == Topology(t).order
           IN  /\ order \in Seq(t.paths)
               /\ \A i, j \in DOMAIN order : i < j => PathOrder(order[i], order[j])
               /\ \A i, j \in DOMAIN order : order[i] = order[j] => i = j
               /\ \A p \in t.paths : \E i \in DOMAIN order : order[i] = p
  <1>1. Topology(t).order = Preorder(t.paths, t.children)
    BY TopologyFields
  <1>2. LET order == Preorder(t.paths, t.children)
        IN  /\ order \in Seq(t.paths)
            /\ \A i, j \in DOMAIN order : i < j => PathOrder(order[i], order[j])
            /\ \A i, j \in DOMAIN order : order[i] = order[j] => i = j
            /\ \A p \in t.paths : \E i \in DOMAIN order : order[i] = p
    BY PreorderFacts
  <1> QED  BY <1>1, <1>2, Zenon

\* The children of a node have numbers, in the order of the children.
LEMMA IdsFacts ==
    ASSUME NEW t, Chart(t), NEW p \in t.paths \cup {Root}
    PROVE  LET d == Topology(t)
               ids == IdsBelow(d, p)
           IN  /\ ids \in Seq(DOMAIN d.order)
               /\ \A n \in DOMAIN d.order :
                    Parent(d.order[n]) = p <=> \E i \in DOMAIN ids : ids[i] = n
               /\ \A i, j \in DOMAIN ids : i < j => Apart(d.order[ids[i]], d.order[ids[j]])
  <1> DEFINE d == Topology(t)
             ids == IdsBelow(d, p)
             s == Siblings(t.children, p)
             order == d.order
             N == DOMAIN order
             id(q) == CHOOSE n \in N : order[n] = q
  <1>1. /\ order \in Seq(t.paths)
        /\ \A i, j \in N : order[i] = order[j] => i = j
        /\ \A q \in t.paths : \E i \in N : order[i] = q
    BY OrderFacts
  <1>2. d.sorted[p] = s
    BY TopologyFields
  <1>3. /\ s \in Seq(t.paths)
        /\ \A q \in t.paths : Parent(q) = p <=> \E i \in DOMAIN s : s[i] = q
        /\ \A i, j \in DOMAIN s : i < j => Apart(s[i], s[j])
    BY SiblingsFacts
  <1> HIDE DEF d, s
  <1>4. ids = [i \in DOMAIN s |-> id(s[i])]
    BY <1>2 DEF IdsBelow
  <1>5. Len(s) \in Nat /\ DOMAIN s = 1 .. Len(s) /\ \A i \in DOMAIN s : s[i] \in t.paths
    BY <1>3
  <1>6. \A n \in N : order[n] \in t.paths
    BY <1>1
  <1> HIDE DEF order, N
  <1>7. \A q \in t.paths : id(q) \in N /\ order[id(q)] = q
    BY <1>1
  <1> HIDE DEF ids, id
  <1>8. DOMAIN ids = DOMAIN s /\ \A i \in DOMAIN s : ids[i] \in N /\ order[ids[i]] = s[i]
    BY <1>4, <1>5, <1>7
  <1>9. ids \in Seq(N)
    BY <1>4, <1>5, <1>8
  <1>10. \A n \in N : Parent(order[n]) = p <=> \E i \in DOMAIN ids : ids[i] = n
    <2> TAKE n \in N
    <2>1. Parent(order[n]) = p <=> \E i \in DOMAIN s : s[i] = order[n]
      BY <1>3, <1>6
    <2>2. \A i \in DOMAIN s : s[i] = order[n] <=> ids[i] = n
      BY <1>1, <1>8
    <2> QED  BY <1>8, <2>1, <2>2
  <1>11. \A i, j \in DOMAIN ids : i < j => Apart(order[ids[i]], order[ids[j]])
    BY <1>3, <1>8
  <1> QED  BY <1>9, <1>10, <1>11 DEF ids, d, order, N

\* The rows are the paths with nothing closed above them, in order.
LEMMA ProjectFacts ==
    ASSUME NEW t, Chart(t)
    PROVE  LET d == Topology(t)
               rows == Project(d, t.expanded)
           IN  /\ rows \in Seq(DOMAIN d.order)
               /\ \A i, j \in DOMAIN rows : i < j => PathOrder(d.order[rows[i]], d.order[rows[j]])
               /\ \A n \in DOMAIN d.order :
                    Lineage(d.order[n]) \ {d.order[n]} \subseteq t.expanded
                      <=> \E i \in DOMAIN rows : rows[i] = n
  <1> DEFINE d == Topology(t)
             order == d.order
             L == Len(order)
             w == [nodes |-> 1 .. L, at |-> order, open |-> t.expanded,
                   first |-> IdsBelow(d, Root),
                   below |-> [n \in 1 .. L |-> IF order[n] \in t.expanded
                                               THEN IdsBelow(d, order[n]) ELSE <<>>]]
             run == RowRun(d, t.expanded, L)
             rows == Project(d, t.expanded)
  <1>1. /\ order \in Seq(t.paths)
        /\ \A i, j \in DOMAIN order : order[i] = order[j] => i = j
        /\ \A q \in t.paths : \E i \in DOMAIN order : order[i] = q
    BY OrderFacts
  <1>2. /\ t.paths \subseteq Path
        /\ \A p \in t.paths : p # Root /\ Lineage(p) \subseteq t.paths
    BY DEF Chart, Sound, Shape, Forest, IsValidPath
  <1> HIDE DEF d
  <1>3. L \in Nat /\ DOMAIN order = 1 .. L /\ \A n \in 1 .. L : order[n] \in t.paths
    BY <1>1
  <1> HIDE DEF order, L
  <1>4. /\ w.nodes = 1 .. L /\ w.open = t.expanded /\ w.at = order
        /\ \A n \in 1 .. L : w.below[n] = IF order[n] \in t.expanded
                                          THEN IdsBelow(d, order[n]) ELSE <<>>
        /\ w.first = IdsBelow(d, Root)
    OBVIOUS
  <1> HIDE DEF w
  <1>5. ASSUME NEW p \in t.paths \cup {Root}
        PROVE  Listed(w, IdsBelow(d, p), {n \in w.nodes : Parent(w.at[n]) = p})
    <2> DEFINE ids == IdsBelow(d, p)
    <2>1. /\ ids \in Seq(1 .. L)
          /\ \A n \in 1 .. L : Parent(order[n]) = p <=> \E i \in DOMAIN ids : ids[i] = n
          /\ \A i, j \in DOMAIN ids : i < j => Apart(order[ids[i]], order[ids[j]])
      BY <1>3, IdsFacts DEF d, order
    <2> HIDE DEF ids
    <2> QED  BY <1>4, <2>1 DEF Listed, ids
  <1>6. Walked(w)
    <2>1. \A x \in w.nodes : w.at[x] \in Path /\ w.at[x] # Root
      BY <1>2, <1>3, <1>4
    <2>2. \A x, y \in w.nodes : w.at[x] = w.at[y] => x = y
      BY <1>1, <1>3, <1>4
    <2>3. \A x \in w.nodes : \A p \in Lineage(w.at[x]) : \E y \in w.nodes : w.at[y] = p
      BY <1>1, <1>2, <1>3, <1>4
    <2>4. Listed(w, w.first, {x \in w.nodes : Parent(w.at[x]) = Root})
      BY <1>4, <1>5
    <2>5. ASSUME NEW x \in w.nodes
          PROVE  Listed(w, w.below[x], IF w.at[x] \in w.open
                                       THEN {y \in w.nodes : Parent(w.at[y]) = w.at[x]} ELSE {})
      <3>1. w.at[x] = order[x] /\ order[x] \in t.paths /\ x \in 1 .. L
        BY <1>3, <1>4
      <3>2. CASE order[x] \in t.expanded
        <4>1. Listed(w, IdsBelow(d, order[x]), {y \in w.nodes : Parent(w.at[y]) = order[x]})
          BY <1>5, <3>1
        <4> QED  BY <1>4, <3>1, <3>2, <4>1
      <3>3. CASE order[x] \notin t.expanded
        <4>1. Listed(w, <<>>, {})
          BY DEF Listed
        <4> QED  BY <1>4, <3>1, <3>3, <4>1
      <3> QED  BY <3>2, <3>3
    <2>6. IsFiniteSet(w.nodes)
      BY <1>3, <1>4, FS_Interval
    <2> QED  BY <2>1, <2>2, <2>3, <2>4, <2>5, <2>6 DEF Walked
  <1>7. /\ run[0] = [out |-> <<>>, stack |-> w.first]
        /\ \A n \in 1 .. L : run[n] = RowTurn(d, t.expanded, run[n - 1])
    BY <1>3, <1>4, RowRunIs
  <1>8. rows = run[L].out
    BY ProjectIs DEF L, order
  <1>9. Cardinality(w.nodes) <= L
    <2>1. Cardinality(1 .. L) = L
      BY <1>3, FS_Interval
    <2> QED  BY <1>3, <1>4, <2>1
  <1> HIDE DEF run, rows
  <1>10. ASSUME NEW n \in 1 .. L, NEW out \in Seq(w.nodes), NEW stack \in Seq(w.nodes),
                run[n - 1] = [out |-> out, stack |-> stack]
         PROVE  run[n] = WalkTurn(w, [out |-> out, stack |-> stack])
    <2>1. run[n] = RowTurn(d, t.expanded, [out |-> out, stack |-> stack])
      BY <1>7, <1>10
    <2>2. stack # <<>> =>
            w.below[Head(stack)] = IF order[Head(stack)] \in t.expanded
                                   THEN IdsBelow(d, order[Head(stack)]) ELSE <<>>
      <3>1. stack # <<>> => Head(stack) \in 1 .. L
        BY <1>4, HeadTailProperties
      <3> QED  BY <1>4, <3>1
    <2> QED  BY <2>1, <2>2 DEF RowTurn, WalkTurn, order
  <1>11. WalkInv(w, rows, <<>>)
    BY <1>3, <1>6, <1>7, <1>8, <1>9, <1>10, WalkEnds
  <1>12. /\ rows \in Seq(w.nodes)
         /\ \A i, j \in DOMAIN rows : i < j => PathOrder(w.at[rows[i]], w.at[rows[j]])
         /\ \A x \in w.nodes : Shown(w, x) <=> \E i \in DOMAIN rows : rows[i] = x
    BY <1>6, <1>11, WalkShows
  <1>13. \A x \in w.nodes : Shown(w, x) <=> Lineage(order[x]) \ {order[x]} \subseteq t.expanded
    BY <1>4 DEF Shown
  <1> QED  BY <1>3, <1>4, <1>12, <1>13 DEF rows, d, order

-----------------------------------------------------------------------------
(* The balances rolled up *)

\* A sum that is still safe once rounded was not rounded.
LEMMA FloatExact == \A n \in Int : IsSafeInteger(Float(n)) => Float(n) = n
  BY LimitAssumption DEF IsSafeInteger, Float

LEMMA SumOfParts ==
    ASSUME NEW own, Money(own), NEW A \in SUBSET DOMAIN own, NEW B \in SUBSET DOMAIN own,
           A \cap B = {}
    PROVE  SumOver(own, A \cup B) = SumOver(own, A) + SumOver(own, B)
  <1> DEFINE sum(E) == SumOver(own, E)
             Good == {E \in SUBSET B : sum(A \cup E) = sum(A) + sum(E)}
  <1>1. /\ sum({}) = 0
        /\ \A E \in SUBSET DOMAIN own :
             /\ sum(E) \in Int
             /\ \A x \in E : sum(E) = own[x].balance + sum(E \ {x})
    BY AnyFirst
  <1>2. \A x \in DOMAIN own : own[x].balance \in Int
    BY DEF Money
  <1> HIDE DEF sum
  <1>3. {} \in Good
    <2>1. A \cup {} = A /\ sum(A) \in Int
      BY <1>1
    <2> QED  BY <1>1, <2>1
  <1>4. ASSUME NEW E \in SUBSET B, E # {}, \A x \in E : E \ {x} \in Good
        PROVE  E \in Good
    <2>1. PICK x \in E : TRUE
      BY <1>4
    <2>2. sum(A \cup (E \ {x})) = sum(A) + sum(E \ {x})
      BY <1>4, <2>1
    <2>3. (A \cup E) \ {x} = A \cup (E \ {x}) /\ A \cup E \in SUBSET DOMAIN own /\ x \in A \cup E
      BY <2>1
    <2>4. sum(A \cup E) = own[x].balance + sum(A \cup (E \ {x}))
      BY <1>1, <2>3
    <2>5. sum(E) = own[x].balance + sum(E \ {x})
      BY <1>1, <2>1
    <2>6. sum(A) \in Int /\ sum(E \ {x}) \in Int /\ own[x].balance \in Int
      BY <1>1, <1>2, <2>1
    <2> QED  BY <2>2, <2>4, <2>5, <2>6
  <1> HIDE DEF Good
  <1>5. IsFiniteSet(B)
    BY FS_Subset DEF Money
  <1>6. B \in Good
    BY <1>3, <1>4, <1>5, PartByPart
  <1> QED  BY <1>6 DEF Good, sum

Nodes(t) == t.paths \cup {Root}

\* The accounts with money at or below a path; and those among them that are
\* counted there once the nodes from the jth on have been added to their parents.
Under(t, p) == {q \in DOMAIN t.own : IsPrefix(p, q)}

Counted(t, p, j) ==
    {q \in DOMAIN t.own :
       \/ q = p
       \/ \E i \in j .. Len(Topology(t).order) :
            /\ Parent(Topology(t).order[i]) = p
            /\ IsPrefix(Topology(t).order[i], q)}

LEMMA ChartFacts ==
    ASSUME NEW t, Chart(t)
    PROVE  /\ t.paths \subseteq Path /\ Nodes(t) \subseteq Path /\ DOMAIN t.own \subseteq t.paths
           /\ \A p \in t.paths : /\ p # Root /\ Lineage(p) \subseteq t.paths
                                 /\ Parent(p) \in Nodes(t)
           /\ Len(Topology(t).order) \in Nat
           /\ DOMAIN Topology(t).order = 1 .. Len(Topology(t).order)
           /\ \A i \in DOMAIN Topology(t).order : Topology(t).order[i] \in t.paths
  <1>1. /\ t.paths \subseteq Path /\ DOMAIN t.own \subseteq t.paths
        /\ \A p \in t.paths : p # Root /\ Lineage(p) \subseteq t.paths
    BY DEF Chart, Sound, Shape, Forest, NoOrphans, IsValidPath
  <1>2. Root \in Path
    BY DEF Root, Path
  <1>3. \A p \in t.paths : Parent(p) \in Nodes(t)
    BY <1>1, LineageFacts DEF Nodes
  <1> DEFINE order == Topology(t).order
  <1>4. order \in Seq(t.paths)
    BY OrderFacts
  <1> HIDE DEF order
  <1>5. Len(order) \in Nat /\ DOMAIN order = 1 .. Len(order) /\ \A i \in DOMAIN order : order[i] \in t.paths
    BY <1>4
  <1> QED  BY <1>1, <1>2, <1>3, <1>5 DEF Nodes, order

\* Once its children have been added, everything below a node is counted there.
LEMMA AllCounted ==
    ASSUME NEW t, Chart(t), NEW p \in Nodes(t), NEW j \in Nat \ {0},
           \A i \in DOMAIN Topology(t).order : Parent(Topology(t).order[i]) = p => j <= i
    PROVE  Counted(t, p, j) = Under(t, p)
  <1> DEFINE order == Topology(t).order
             n == Len(order)
  <1>1. /\ t.paths \subseteq Path /\ p \in Path /\ DOMAIN t.own \subseteq t.paths
        /\ \A q \in t.paths : q # Root /\ Lineage(q) \subseteq t.paths
        /\ n \in Nat /\ DOMAIN order = 1 .. n /\ \A i \in 1 .. n : order[i] \in t.paths
    BY ChartFacts
  <1>2. \A q \in t.paths : \E i \in 1 .. n : order[i] = q
    BY <1>1, OrderFacts
  <1>3. \A i \in 1 .. n : Parent(order[i]) = p => j <= i
    BY <1>1
  <1> HIDE DEF order, n
  <1>4. ASSUME NEW q \in Counted(t, p, j) PROVE q \in Under(t, p)
    <2>1. q \in DOMAIN t.own /\ q \in Path /\ q \in t.paths
      BY <1>1 DEF Counted
    <2>2. CASE q = p
      BY <1>1, <2>1, <2>2, PrefixOrder DEF Under
    <2>3. CASE q # p
      <3>1. PICK i \in j .. n : Parent(order[i]) = p /\ IsPrefix(order[i], q)
        BY <1>4, <2>3 DEF Counted, order, n
      <3>2. i \in 1 .. n
        BY <1>1
      <3>3. order[i] \in Path /\ order[i] # Root
        BY <1>1, <3>2
      <3>4. IsPrefix(p, order[i])
        BY <1>1, <3>1, <3>3, ParentPrefix
      <3>5. IsPrefix(p, q)
        BY <1>1, <2>1, <3>1, <3>3, <3>4, PrefixOrder
      <3> QED  BY <2>1, <3>5 DEF Under
    <2> QED  BY <2>2, <2>3
  <1>5. ASSUME NEW q \in Under(t, p) PROVE q \in Counted(t, p, j)
    <2>1. q \in DOMAIN t.own /\ IsPrefix(p, q) /\ q \in Path /\ q \in t.paths
      BY <1>1 DEF Under
    <2>2. CASE q = p
      BY <2>1, <2>2 DEF Counted
    <2>3. CASE q # p
      <3>1. PICK c \in Lineage(q) : Parent(c) = p /\ IsPrefix(c, q)
        BY <1>1, <2>1, <2>3, WayDown
      <3>2. PICK i \in 1 .. n : order[i] = c
        BY <1>1, <1>2, <2>1
      <3>3. i \in j .. n
        BY <1>1, <1>3, <3>1, <3>2
      <3> QED  BY <2>1, <3>1, <3>2, <3>3 DEF Counted, order, n
    <2> QED  BY <2>2, <2>3
  <1> QED  BY <1>4, <1>5

\* A node that is added to its parent has all of its own children added to it, and
\* counts what the parent does not count yet.
LEMMA RollStep ==
    ASSUME NEW t, Chart(t), Money(t.own), NEW j \in DOMAIN Topology(t).order,
           NEW rolled \in [Nodes(t) -> Int],
           \A p \in Nodes(t) : rolled[p] = SumOver(t.own, Counted(t, p, j + 1))
    PROVE  LET p == Topology(t).order[j]
           IN  \A q \in Nodes(t) :
                 [rolled EXCEPT ![Parent(p)] = rolled[Parent(p)] + rolled[p]][q]
                   = SumOver(t.own, Counted(t, q, j))
  <1> DEFINE order == Topology(t).order
             n == Len(order)
             p == order[j]
             r == Parent(p)
             D == DOMAIN t.own
  <1>1. /\ t.paths \subseteq Path /\ Nodes(t) \subseteq Path /\ D \subseteq t.paths
        /\ \A q \in t.paths : q # Root /\ Lineage(q) \subseteq t.paths /\ Parent(q) \in Nodes(t)
        /\ n \in Nat /\ DOMAIN order = 1 .. n /\ \A i \in 1 .. n : order[i] \in t.paths
    BY ChartFacts
  <1>2. /\ \A i, k \in 1 .. n : i < k => PathOrder(order[i], order[k])
        /\ \A i, k \in 1 .. n : order[i] = order[k] => i = k
    <2>1. /\ \A i, k \in DOMAIN order : i < k => PathOrder(order[i], order[k])
          /\ \A i, k \in DOMAIN order : order[i] = order[k] => i = k
      BY OrderFacts
    <2> QED  BY <1>1, <2>1
  <1>3. /\ j \in 1 .. n /\ p \in t.paths /\ p \in Path /\ p # Root /\ r \in Nodes(t)
        /\ p \in Nodes(t) /\ r \in Path
    BY <1>1 DEF Nodes
  <1>4. IsPrefix(r, p) /\ r # p
    BY <1>3, ParentPrefix
  <1> HIDE DEF order, n, r
  <1>5. Counted(t, p, j + 1) = Under(t, p)
    <2>1. ASSUME NEW i \in 1 .. n, Parent(order[i]) = p PROVE j + 1 <= i
      <3>1. order[i] \in Path /\ order[i] # Root /\ i \in Nat /\ j \in Nat
        BY <1>1, <1>3
      <3>2. IsPrefix(p, order[i]) /\ p # order[i]
        BY <2>1, <3>1, ParentPrefix
      <3>3. PathOrder(p, order[i])
        BY <3>2, OrderIs DEF IsStrictPrefix
      <3>4. ~PathOrder(order[i], p)
        BY <1>3, <3>1, <3>3, OrderOnce
      <3>5. ~(i < j) /\ i # j
        BY <1>2, <1>3, <3>2, <3>4
      <3> QED  BY <3>1, <3>5
    <2>2. \A i \in DOMAIN Topology(t).order : Parent(Topology(t).order[i]) = p => j + 1 <= i
      BY <1>1, <2>1 DEF order
    <2>3. j + 1 \in Nat \ {0}
      BY <1>3, <1>1
    <2> HIDE DEF p
    <2> QED  BY <1>3, <2>2, <2>3, AllCounted
  <1>6. \A i : i \in j .. n <=> i = j \/ i \in j + 1 .. n
    BY <1>1, <1>3
  <1>7. \A q : Counted(t, q, j) = {x \in D : \/ x = q
                                            \/ \E i \in j .. n : Parent(order[i]) = q /\ IsPrefix(order[i], x)}
    BY DEF Counted, order, n
  <1>8. \A q : Counted(t, q, j + 1) = {x \in D : \/ x = q
                                                \/ \E i \in j + 1 .. n : Parent(order[i]) = q /\ IsPrefix(order[i], x)}
    BY DEF Counted, order, n
  <1>9. Under(t, p) = {x \in D : IsPrefix(p, x)}
    BY DEF Under
  <1>10. Counted(t, r, j) = Counted(t, r, j + 1) \cup Under(t, p)
    <2>1. Parent(order[j]) = r /\ p = order[j]
      BY DEF r
    <2> HIDE DEF D, p
    <2> QED  BY <1>6, <1>7, <1>8, <1>9, <2>1
  <1>11. \A q \in Nodes(t) : q # r => Counted(t, q, j) = Counted(t, q, j + 1)
    <2>1. Parent(order[j]) = r
      BY DEF r
    <2> HIDE DEF D, p
    <2> QED  BY <1>6, <1>7, <1>8, <2>1
  <1>12. Counted(t, r, j + 1) \cap Under(t, p) = {}
    <2> SUFFICES ASSUME NEW x \in D, x \in Counted(t, r, j + 1), IsPrefix(p, x) PROVE FALSE
      BY <1>8, <1>9
    <2>1. x \in Path
      BY <1>1
    <2>2. CASE x = r
      BY <1>3, <2>2, ParentPrefix DEF r
    <2>3. CASE x # r
      <3>1. PICK i \in j + 1 .. n : Parent(order[i]) = r /\ IsPrefix(order[i], x)
        BY <1>8, <2>3
      <3>2. i \in 1 .. n /\ i # j
        BY <1>1, <1>3
      <3>3. order[i] \in Path /\ order[i] # Root
        BY <1>1, <3>2
      <3>4. Len(order[i]) \in Nat /\ Len(p) \in Nat /\ Len(order[i]) = Len(p)
        <4>1. Len(r) = Len(p) - 1 /\ Len(p) \in Nat
          BY <1>3, ParentType DEF r
        <4>2. Len(r) = Len(order[i]) - 1 /\ Len(order[i]) \in Nat
          BY <3>1, <3>3, ParentType
        <4> QED  BY <4>1, <4>2
      <3>5. order[i] = p
        BY <1>3, <2>1, <3>1, <3>3, <3>4, PrefixOrder
      <3> QED  BY <1>2, <1>3, <3>2, <3>5
    <2> QED  BY <2>2, <2>3
  <1>13. /\ rolled[p] = SumOver(t.own, Under(t, p))
         /\ rolled[r] = SumOver(t.own, Counted(t, r, j + 1))
    BY <1>3, <1>5
  <1>14. rolled[r] + rolled[p] = SumOver(t.own, Counted(t, r, j))
    <2> DEFINE A == Counted(t, r, j + 1)
               B == Under(t, p)
    <2>1. A \in SUBSET D /\ B \in SUBSET D /\ A \cap B = {}
      BY <1>8, <1>9, <1>12
    <2> HIDE DEF A, B
    <2>2. SumOver(t.own, A \cup B) = SumOver(t.own, A) + SumOver(t.own, B)
      BY <2>1, SumOfParts
    <2> QED  BY <1>10, <1>13, <2>2 DEF A, B
  <1> HIDE DEF p
  <1>15. ASSUME NEW q \in Nodes(t)
         PROVE  [rolled EXCEPT ![r] = rolled[r] + rolled[p]][q] = SumOver(t.own, Counted(t, q, j))
    <2>1. CASE q = r
      BY <1>3, <1>14, <2>1
    <2>2. CASE q # r
      BY <1>3, <1>11, <1>15, <2>2
    <2> QED  BY <2>1, <2>2
  <1> QED  BY <1>15 DEF r, p, order

LEMMA RollUpIs ==
    ASSUME NEW order, Len(order) \in Nat, NEW balance
    PROVE  RollUp(order, balance) = Folded(Rolling(order, balance), 1 .. Len(order))
  <1>1. DOMAIN Reverse(order) = 1 .. Len(order)
    BY DEF Reverse
  <1> QED
    BY <1>1 DEF RollUp, FoldLeft, MapThenFoldSet, Folded, Rolling, Chosen, Joined, Raised

\* The pass in reverse leaves every node with what it holds and what all below it
\* hold, unless a sum on the way left the safe range, which it then says.
LEMMA RolledUp ==
    ASSUME NEW t, Chart(t), Money(t.own)
    PROVE  Topology(t).overflow
             \/ \A p \in Nodes(t) : Topology(t).rolled[p] = TotalAt(t, p)
  <1> DEFINE order == Topology(t).order
             n == Len(order)
             balance == BalanceOf(t)
             how == Rolling(order, balance)
             N == Nodes(t)
             exact(k, rolled) ==
               \A p \in N : rolled[p] = SumOver(t.own, Counted(t, p, n - k + 1))
             good(k, rolled, flag) ==
               /\ Folded(how, 1 .. k) = [rolled |-> rolled, overflow |-> flag]
               /\ rolled \in [N -> Int]
               /\ flag \/ exact(k, rolled)
             T == {k \in 0 .. n : \E rolled, flag : good(k, rolled, flag)}
  <1>1. /\ n \in Nat /\ DOMAIN order = 1 .. n
        /\ \A i \in 1 .. n : order[i] \in t.paths /\ order[i] \in N /\ Parent(order[i]) \in N
        /\ DOMAIN t.own \subseteq N
    BY ChartFacts DEF Nodes
  <1>2. /\ Topology(t).rolled = RollUp(order, balance).rolled
        /\ Topology(t).overflow = RollUp(order, balance).overflow
    BY TopologyFields
  <1>3. RollUp(order, balance) = Folded(how, 1 .. n)
    BY <1>1, RollUpIs
  <1>4. /\ how.kind # "sum" /\ how.base = [rolled |-> balance, overflow |-> FALSE]
        /\ how.order = Reverse(order)
        /\ \A k, acc : Joined(how, k, acc) = Raised(acc, how.order[k])
    BY DEF Rolling, Joined
  <1>5. \A k \in 1 .. n : how.order[k] = order[n - k + 1]
    BY <1>1, <1>4 DEF Reverse
  <1> HIDE DEF order, n, how
  <1>6. /\ Folded(how, 1 .. 0) = [rolled |-> balance, overflow |-> FALSE]
        /\ \A k \in 1 .. n : Folded(how, 1 .. k)
                               = Raised(Folded(how, 1 .. k - 1), order[n - k + 1])
    BY <1>1, <1>4, <1>5, FoldUp
  <1>7. \A p \in DOMAIN t.own : t.own[p].balance \in Int
    BY DEF Money
  <1>8. 0 \in T
    <2>1. balance \in [N -> Int]
      BY <1>7 DEF BalanceOf, Nodes
    <2>2. ASSUME NEW p \in N PROVE balance[p] = SumOver(t.own, Counted(t, p, n + 1))
      <3> DEFINE C == Counted(t, p, n + 1)
      <3>1. C = {q \in DOMAIN t.own : q = p}
        <4>1. \A i : i \notin n + 1 .. n
          BY <1>1
        <4> QED  BY <4>1 DEF Counted, order, n
      <3>2. balance[p] = IF p \in DOMAIN t.own THEN t.own[p].balance ELSE 0
        BY DEF BalanceOf, Nodes
      <3>3. CASE p \in DOMAIN t.own
        <4>1. C \in SUBSET DOMAIN t.own /\ p \in C /\ C \ {p} = {}
          BY <3>1, <3>3
        <4> HIDE DEF C
        <4>2. SumOver(t.own, C) = t.own[p].balance + SumOver(t.own, {})
          BY <4>1, AnyFirst
        <4>3. SumOver(t.own, {}) = 0
          BY AnyFirst
        <4> QED  BY <1>7, <3>2, <3>3, <4>2, <4>3 DEF C
      <3>4. CASE p \notin DOMAIN t.own
        <4>1. C = {}
          BY <3>1, <3>4
        <4>2. SumOver(t.own, {}) = 0
          BY AnyFirst
        <4> QED  BY <3>2, <3>4, <4>1, <4>2
      <3> QED  BY <3>3, <3>4
    <2>3. n - 0 + 1 = n + 1
      BY <1>1
    <2> DEFINE over == FALSE
    <2> HIDE DEF balance, N
    <2>4. good(0, balance, over)
      BY <1>6, <2>1, <2>2, <2>3
    <2> HIDE DEF good, over
    <2> QED  BY <1>1, <2>4
  <1> HIDE DEF balance
  <1>9. ASSUME NEW k \in 1 .. n, k - 1 \in T PROVE k \in T
    <2> DEFINE j == n - k + 1
               p == order[j]
               r == Parent(p)
    <2>1. PICK rolled, flag : good(k - 1, rolled, flag)
      BY <1>9
    <2>2. j \in 1 .. n /\ n - (k - 1) + 1 = j + 1
      BY <1>1
    <2>3. p \in N /\ r \in N
      BY <1>1, <2>2
    <2> DEFINE sum == rolled[r] + rolled[p]
               up == Float(sum)
               after == [rolled EXCEPT ![r] = up]
               over == flag \/ ~IsSafeInteger(up)
    <2>4. Folded(how, 1 .. k) = [rolled |-> after, overflow |-> over]
      BY <1>6, <2>1 DEF Raised
    <2>5. rolled \in [N -> Int] /\ sum \in Int
      BY <2>1, <2>3
    <2>6. up \in Int
      BY <2>5, FloatIsInt
    <2>7. after \in [N -> Int]
      <3> HIDE DEF up
      <3> QED  BY <2>5, <2>6
    <2>8. ASSUME ~over PROVE exact(k, after)
      <3>1. up = sum
        BY <2>5, <2>8, FloatExact
      <3>2. \A q \in N : rolled[q] = SumOver(t.own, Counted(t, q, j + 1))
        BY <2>1, <2>2, <2>8
      <3>3. \A q \in N : [rolled EXCEPT ![r] = rolled[r] + rolled[p]][q]
                           = SumOver(t.own, Counted(t, q, j))
        <4>1. j \in DOMAIN Topology(t).order /\ rolled \in [Nodes(t) -> Int]
              /\ \A q \in Nodes(t) : rolled[q] = SumOver(t.own, Counted(t, q, j + 1))
          BY <1>1, <2>2, <2>5, <3>2 DEF order
        <4> HIDE DEF j
        <4> QED  BY <4>1, RollStep DEF order
      <3> QED  BY <3>1, <3>3
    <2> HIDE DEF after, over
    <2>9. good(k, after, over)
      BY <2>4, <2>7, <2>8
    <2> HIDE DEF good
    <2> QED  BY <1>1, <2>9
  <1> HIDE DEF T
  <1>10. \A k \in 1 .. n : k - 1 \in T => k \in T
    BY <1>9
  <1>11. \A k \in 0 .. n : k \in T
    BY <1>1, <1>8, <1>10, Counting
  <1>12. n \in T
    BY <1>1, <1>11
  <1>13. PICK rolled, flag : good(n, rolled, flag)
    BY <1>12 DEF T
  <1>14. Topology(t).rolled = rolled /\ Topology(t).overflow = flag
    BY <1>2, <1>3, <1>13
  <1>15. ASSUME ~flag, NEW p \in N PROVE rolled[p] = TotalAt(t, p)
    <2>1. rolled[p] = SumOver(t.own, Counted(t, p, 1))
      <3>1. n - n + 1 = 1
        BY <1>1
      <3> QED  BY <1>13, <1>15, <3>1
    <2>2. Counted(t, p, 1) = Under(t, p)
      <3>1. \A i \in DOMAIN Topology(t).order : Parent(Topology(t).order[i]) = p => 1 <= i
        BY <1>1 DEF order
      <3> QED  BY <3>1, AllCounted
    <2> QED  BY <2>1, <2>2, TotalIsSum DEF Under
  <1> QED  BY <1>14, <1>15

-----------------------------------------------------------------------------
(* Charts are finite, and their load states are known *)

\* A path that is absent is loaded.
Known(load) == \A p \in DOMAIN load : load[p] # "loaded"

LEMMA CollectedFinite ==
    ASSUME NEW t, Chart(t), NEW asked, asked \subseteq Path, IsFiniteSet(asked)
    PROVE  LET u == Collected(t, asked)
           IN  IsFiniteSet(u.paths) /\ u.load = t.load
  <1> DEFINE new == Missing(t, asked)
             u == Collected(t, asked)
             above == UNION {Lineage(q) : q \in asked}
  <1>1. u.paths = t.paths \cup new /\ u.load = t.load
    <2>1. Shape(t) /\ u = Collected(t, asked)
      BY DEF Chart, Sound
    <2> HIDE DEF u
    <2> QED  BY <2>1 DEF Collected, Shape
  <1>2. new \in SUBSET above
    BY DEF Missing
  <1>3. IsFiniteSet(above)
    BY FiniteLineages
  <1> HIDE DEF u, new, above
  <1>4. IsFiniteSet(new)
    BY <1>2, <1>3, FS_Subset
  <1>5. IsFiniteSet(t.paths \cup new)
    BY <1>4, FS_Union DEF Chart
  <1> QED  BY <1>1, <1>5 DEF u

LEMMA RemovedFinite ==
    ASSUME NEW t, Chart(t), NEW asked
    PROVE  LET u == Removed(t, asked)
           IN  IsFiniteSet(u.paths) /\ (Known(t.load) => Known(u.load))
  <1> DEFINE gone == Doomed(t, asked)
  <1>1. /\ Removed(t, asked).paths = t.paths \ gone
        /\ Removed(t, asked).load = [p \in DOMAIN t.load \ gone |-> t.load[p]]
    BY DEF Removed, Chart, Sound, Shape
  <1> HIDE DEF gone
  <1>2. IsFiniteSet(t.paths \ gone)
    BY FS_Subset, t.paths \ gone \in SUBSET t.paths DEF Chart
  <1> QED  BY <1>1, <1>2 DEF Known

LEMMA MovedFinite ==
    ASSUME NEW t, Chart(t), NEW from, NEW to \in Path, MoveAllowed(t, from, to)
    PROVE  LET u == Moved(t, from, to)
           IN  IsFiniteSet(u.paths) /\ (Known(t.load) => Known(u.load))
  <1> DEFINE v == WithAncestors(t, to)
             u == Moved(t, from, to)
             subtree == Subtree(t, from)
             new(p) == Remap(from, to, p)
             old(q) == Remap(to, from, q)
             created == v.paths \ t.paths
             named == {new(p) : p \in subtree}
             moved == {new(p) : p \in DOMAIN t.load \cap subtree}
             keys == (DOMAIN t.load \ subtree) \cup moved
  <1>1. /\ Sound(v) /\ from \in Path
        /\ subtree = {q \in t.paths : IsPrefix(from, q)} /\ Subtree(v, from) = subtree
    BY BeforeMove DEF Chart
  <1>2. subtree \subseteq t.paths /\ u.paths = ((t.paths \cup created) \ subtree) \cup named
    BY MovedPaths DEF Chart
  <1>3. IsFiniteSet(v.paths) /\ v.load = t.load
    <2>1. CASE Len(to) = 1
      BY <2>1 DEF WithAncestors, Chart
    <2>2. CASE Len(to) # 1
      <3> DEFINE asked == {Parent(to)}
      <3>1. v = Collected(t, asked)
        BY <2>2 DEF WithAncestors
      <3>2. asked \subseteq Path /\ IsFiniteSet(asked)
        <4>1. Parent(to) \in Path
          BY ParentType DEF MoveAllowed, IsValidPath
        <4> QED  BY <4>1, FS_Singleton
      <3> HIDE DEF asked, v
      <3> QED  BY <3>1, <3>2, CollectedFinite
    <2> QED  BY <2>1, <2>2
  <1>4. t.paths \subseteq Path
    BY DEF Chart, Sound, Shape
  <1>5. \A p \in subtree : old(new(p)) = p
    BY <1>1, <1>4, RemapFacts
  <1>6. u.load = [q \in keys |-> IF q \in moved THEN t.load[old(q)] ELSE t.load[q]]
    BY <1>1, <1>3 DEF Moved, Rekeyed
  <1>7. IsFiniteSet(u.paths)
    <2>1. IsFiniteSet(subtree)
      BY <1>2, FS_Subset DEF Chart
    <2>2. IsFiniteSet(named)
      <3> DEFINE f == [p \in subtree |-> new(p)]
      <3>1. f = [p \in subtree |-> f[p]] /\ named = {f[p] : p \in subtree}
        OBVIOUS
      <3> HIDE DEF f, named, subtree
      <3> QED  BY <2>1, <3>1, FiniteImage
    <2>3. IsFiniteSet((t.paths \cup created) \ subtree)
      <3>1. IsFiniteSet(created)
        BY <1>3, FS_Subset, created \in SUBSET v.paths
      <3>2. IsFiniteSet(t.paths \cup created)
        <4> HIDE DEF created
        <4> QED  BY <3>1, FS_Union DEF Chart
      <3> HIDE DEF created, subtree
      <3> QED  BY <3>2, FS_Subset, ((t.paths \cup created) \ subtree) \in SUBSET (t.paths \cup created)
    <2> HIDE DEF named, created, subtree, u
    <2> QED  BY <1>2, <2>2, <2>3, FS_Union
  <1>8. ASSUME Known(t.load) PROVE Known(u.load)
    <2>1. \A q \in moved : old(q) \in DOMAIN t.load
      BY <1>5
    <2>2. \A q \in keys : q \in moved \/ q \in DOMAIN t.load
      OBVIOUS
    <2>3. \A q \in keys : (IF q \in moved THEN t.load[old(q)] ELSE t.load[q]) # "loaded"
      <3> HIDE DEF moved, keys, old
      <3> QED  BY <1>8, <2>1, <2>2 DEF Known
    <2> HIDE DEF moved, keys, old, u
    <2> QED  BY <1>6, <2>3 DEF Known
  <1> QED  BY <1>7, <1>8

LEMMA BuiltFinite ==
    ASSUME NEW postings \in Seed
    PROVE  IsFiniteSet(BuiltTree(postings).paths) /\ Known(BuiltTree(postings).load)
  <1> DEFINE asked == {e.account : e \in ToSet(postings)}
             t == Collected(EmptyTree, asked)
             L == Len(postings)
             f == [i \in 1 .. L |-> postings[i].account]
  <1>1. L \in Nat /\ DOMAIN postings = 1 .. L /\ \A i \in 1 .. L : postings[i].account \in Path
    <2> DEFINE Data == [account : Seq(Nat), amount : Int]
    <2>1. postings \in Seq(Data)
      BY PathAssumption
    <2>2. \A e \in Data : e.account \in Path
      BY DEF Path
    <2> HIDE DEF Data
    <2>3. L \in Nat /\ DOMAIN postings = 1 .. L /\ \A i \in 1 .. L : postings[i] \in Data
      BY <2>1
    <2> QED  BY <2>2, <2>3
  <1>2. asked = {f[i] : i \in 1 .. L}
    BY <1>1 DEF ToSet
  <1>3. asked \subseteq Path
    BY <1>1, <1>2
  <1>4. IsFiniteSet(asked)
    <2>1. IsFiniteSet(1 .. L) /\ f = [i \in 1 .. L |-> f[i]]
      BY <1>1, FS_Interval
    <2> HIDE DEF f, asked, L
    <2> QED  BY <1>2, <2>1, FiniteImage
  <1>5. Chart(EmptyTree) /\ Known(EmptyTree.load)
    BY EmptySound, FS_EmptySet DEF Chart, EmptyTree, Known
  <1>6. IsFiniteSet(t.paths) /\ t.load = EmptyTree.load
    <2> HIDE DEF asked
    <2> QED  BY <1>3, <1>4, <1>5, CollectedFinite
  <1>7. Shape(t)
    <2> HIDE DEF asked
    <2> QED  BY <1>3, EmptySound, CollectedSound DEF Sound
  <1>8. BuiltTree(postings).paths = t.paths /\ BuiltTree(postings).load = t.load
    <2> HIDE DEF t
    <2> QED  BY <1>7 DEF BuiltTree, Shape, t
  <1> QED  BY <1>5, <1>6, <1>8

ChartInv ==
    /\ TreeInv
    /\ IsFiniteSet(tree.paths)
    /\ Known(tree.load)

LEMMA ChartStep == ChartInv /\ [Next]_vars => ChartInv'
  <1> SUFFICES ASSUME ChartInv, [Next]_vars
               PROVE  IsFiniteSet(tree'.paths) /\ Known(tree'.load)
    BY TreeStep DEF ChartInv
  <1>1. TreeInv /\ IsFiniteSet(tree.paths) /\ Known(tree.load) /\ Chart(tree) /\ Shape(tree)
    BY DEF ChartInv, TreeInv, Chart, Sound
  <1>2. ASSUME tree' = tree PROVE IsFiniteSet(tree'.paths) /\ Known(tree'.load)
    BY <1>1, <1>2
  <1>3. \A asked \in PathLists : asked \subseteq Path /\ IsFiniteSet(asked)
    BY DEF PathLists, Path
  <1>4. ASSUME ~Idle, call.ops # <<>> PROVE Head(call.ops).paths \in PathLists /\ Head(call.ops).to \in Path
    <2>1. Head(call.ops) \in Operation
      BY <1>1, <1>4 DEF TreeInv
    <2> QED  BY <2>1 DEF Operation, Path
  <1>5. ASSUME ApplyAdd PROVE IsFiniteSet(tree'.paths) /\ Known(tree'.load)
    <2> DEFINE asked == Head(call.ops).paths
    <2>1. tree' = Collected(tree, asked) /\ asked \in PathLists
      BY <1>4, <1>5 DEF ApplyAdd, Applying
    <2> HIDE DEF asked
    <2>2. asked \subseteq Path /\ IsFiniteSet(asked)
      BY <1>3, <2>1
    <2> QED  BY <1>1, <2>1, <2>2, CollectedFinite
  <1>6. ASSUME ApplyRemove PROVE IsFiniteSet(tree'.paths) /\ Known(tree'.load)
    BY <1>1, <1>6, RemovedFinite DEF ApplyRemove
  <1>7. ASSUME ApplyMove PROVE IsFiniteSet(tree'.paths) /\ Known(tree'.load)
    <2> DEFINE from == Head(call.ops).from
               to == Head(call.ops).to
    <2>1. CASE MoveAllowed(tree, from, to)
      <3>1. tree' = Moved(tree, from, to) /\ to \in Path
        BY <1>4, <1>7, <2>1 DEF ApplyMove, Applying
      <3> HIDE DEF from, to
      <3> QED  BY <1>1, <2>1, <3>1, MovedFinite
    <2>2. CASE ~MoveAllowed(tree, from, to)
      BY <1>2, <1>7, <2>2 DEF ApplyMove
    <2> QED  BY <2>1, <2>2
  <1>8. ASSUME NEW shown, tree' = [tree EXCEPT !.expanded = shown]
        PROVE  IsFiniteSet(tree'.paths) /\ Known(tree'.load)
    BY <1>1, <1>8 DEF Shape
  <1>9. ASSUME NEW p, NEW state, state # "loaded", NEW u, u = SetLoad(tree, p, state)
        PROVE  /\ u.paths = tree.paths /\ Known(u.load)
               /\ u = [paths |-> u.paths, children |-> u.children, expanded |-> u.expanded,
                       load |-> u.load, own |-> u.own]
    <2>1. /\ u.paths = tree.paths /\ DOMAIN u.load = DOMAIN tree.load \cup {p}
          /\ u = [paths |-> u.paths, children |-> u.children, expanded |-> u.expanded,
                  load |-> u.load, own |-> u.own]
      BY <1>1, <1>9, SetLoadFields
    <2>2. u.load = [q \in DOMAIN tree.load \cup {p} |-> IF q = p THEN state ELSE tree.load[q]]
      BY <1>1, <1>9 DEF SetLoad, Shape
    <2> QED  BY <1>1, <1>9, <2>1, <2>2 DEF Known
  <1>10. ASSUME NEW p, MarkUnloaded(p) PROVE IsFiniteSet(tree'.paths) /\ Known(tree'.load)
    <2> DEFINE u == SetLoad(tree, p, "unloaded")
    <2>1. tree' = [u EXCEPT !.expanded = @ \ {p}]
      BY <1>10 DEF MarkUnloaded
    <2>2. /\ u.paths = tree.paths /\ Known(u.load)
          /\ u = [paths |-> u.paths, children |-> u.children, expanded |-> u.expanded,
                  load |-> u.load, own |-> u.own]
      BY <1>9
    <2> HIDE DEF u
    <2> QED  BY <1>1, <2>1, <2>2
  <1>11. ASSUME NEW p, BeginChildLoad(p) \/ FailChildLoad(p)
         PROVE  IsFiniteSet(tree'.paths) /\ Known(tree'.load)
    <2>1. tree' = SetLoad(tree, p, "loading") \/ tree' = SetLoad(tree, p, "error")
      BY <1>11 DEF BeginChildLoad, FailChildLoad
    <2>2. tree'.paths = tree.paths /\ Known(tree'.load)
      BY <1>9, <2>1
    <2> QED  BY <1>1, <2>2
  <1>12. ASSUME NEW p, NEW paths \in AddSet, CompleteChildLoad(p, paths)
         PROVE  IsFiniteSet(tree'.paths) /\ Known(tree'.load)
    <2> DEFINE t == Collected(tree, paths)
    <2>1. tree' = [t EXCEPT !.load = [q \in DOMAIN @ \ {p} |-> @[q]]]
      BY <1>12 DEF CompleteChildLoad
    <2>2. paths \subseteq Path /\ IsFiniteSet(paths)
      BY <1>3, PathAssumption
    <2>3. IsFiniteSet(t.paths) /\ t.load = tree.load
      BY <1>1, <2>2, CollectedFinite
    <2>4. t = [paths |-> t.paths, children |-> t.children,
               expanded |-> t.expanded, load |-> t.load, own |-> t.own]
      BY <1>1, CollectedShape
    <2> HIDE DEF t
    <2>5. /\ tree'.paths = t.paths
          /\ tree'.load = [q \in DOMAIN t.load \ {p} |-> t.load[q]]
      BY <2>1, <2>4
    <2>6. Known(tree'.load)
      <3>1. \A q \in DOMAIN tree.load \ {p} : tree.load[q] # "loaded"
        BY <1>1 DEF Known
      <3> QED  BY <2>3, <2>5, <3>1 DEF Known
    <2> QED  BY <2>3, <2>5, <2>6
  <1>13. ASSUME NEW p, NEW on, SetExpanded(p, on)
         PROVE  IsFiniteSet(tree'.paths) /\ Known(tree'.load)
    <2>1. PICK shown : tree' = [tree EXCEPT !.expanded = shown]
      BY <1>13 DEF SetExpanded
    <2> QED  BY <1>8, <2>1
  <1>14. ASSUME ExpandAll \/ CollapseAll PROVE IsFiniteSet(tree'.paths) /\ Known(tree'.load)
    <2>1. PICK shown : tree' = [tree EXCEPT !.expanded = shown]
      BY <1>14 DEF ExpandAll, CollapseAll
    <2> QED  BY <1>8, <2>1
  <1>15. ASSUME \/ EnsureTopology \/ EnsureProjection \/ Finish \/ UNCHANGED vars
                \/ \E ops : Start(ops)
         PROVE  IsFiniteSet(tree'.paths) /\ Known(tree'.load)
    <2>1. tree' = tree
      BY <1>15 DEF EnsureTopology, EnsureProjection, Finish, vars, Start
    <2> QED  BY <1>2, <2>1
  <1> QED
    BY <1>5, <1>6, <1>7, <1>10, <1>11, <1>12, <1>13, <1>14, <1>15
       DEF Next, AddAccounts, RemoveAccounts, MoveAccount, BatchAccounts

-----------------------------------------------------------------------------
(* Rows tell the truth *)

\* What a row says of its node.
LEMMA RowFacts ==
    ASSUME NEW t, Chart(t), NEW n \in DOMAIN Topology(t).order
    PROVE  LET d == Topology(t)
               row == Row(t, d, n)
               p == d.order[n]
               siblings == {q \in t.paths : Parent(q) = Parent(p)}
           IN  /\ row.path = p
               /\ row.group <=> (\E q \in t.paths : Parent(q) = p) \/ p \in DOMAIN t.load
               /\ row.setSize = Cardinality(siblings)
               /\ row.posInSet = Cardinality({q \in siblings : ~PathOrder(p, q)})
               /\ row.rolled = d.rolled[p]
  <1> DEFINE d == Topology(t)
             row == Row(t, d, n)
             p == d.order[n]
             S == {q \in t.paths : Parent(q) = Parent(p)}
             s == d.sorted[Parent(p)]
             at == CHOOSE i \in DOMAIN s : s[i] = p
             before == {q \in S : Last(q) < Last(p)}
  <1>1. /\ row.path = p
        /\ row.group = (d.sorted[p] # <<>> \/ p \in DOMAIN t.load)
        /\ row.setSize = Len(s)
        /\ row.posInSet = at
        /\ row.rolled = d.rolled[p]
    BY DEF Row
  <1>2. /\ t.paths \subseteq Path /\ p \in t.paths /\ Parent(p) \in t.paths \cup {Root}
        /\ \A q \in t.paths : q # Root
    BY ChartFacts DEF Nodes
  <1>3. \A q \in t.paths \cup {Root} : d.sorted[q] = Siblings(t.children, q)
    BY TopologyFields
  <1> HIDE DEF d, row, p
  <1>4. d.sorted[p] # <<>> <=> \E q \in t.paths : Parent(q) = p
    <2> DEFINE below == Siblings(t.children, p)
    <2>1. /\ below \in Seq(t.paths)
          /\ \A q \in t.paths : Parent(q) = p <=> \E i \in DOMAIN below : below[i] = q
      <3>1. p \in t.paths \cup {Root}
        BY <1>2
      <3>2. LET list == Siblings(t.children, p)
                set == {q \in t.paths : Parent(q) = p}
            IN  /\ list \in Seq(t.paths)
                /\ \A q \in t.paths : Parent(q) = p <=> \E i \in DOMAIN list : list[i] = q
                /\ \A i, j \in DOMAIN list : i < j => Apart(list[i], list[j])
                /\ \A i, j \in DOMAIN list : list[i] = list[j] => i = j
                /\ IsFiniteSet(set) /\ Len(list) = Cardinality(set)
                /\ \A i \in DOMAIN list : Cardinality({q \in set : Last(q) < Last(list[i])}) = i - 1
        BY <3>1, SiblingsFacts, Zenon
      <3> QED  BY <3>2
    <2>2. d.sorted[p] = below
      BY <1>2, <1>3
    <2> HIDE DEF below
    <2>3. below # <<>> <=> \E i \in DOMAIN below : TRUE
      BY <2>1
    <2>4. \A i \in DOMAIN below : below[i] \in t.paths
      BY <2>1
    <2> QED  BY <2>1, <2>2, <2>3, <2>4
  <1>5. /\ s \in Seq(t.paths)
        /\ \A q \in t.paths : Parent(q) = Parent(p) <=> \E i \in DOMAIN s : s[i] = q
        /\ \A i, j \in DOMAIN s : s[i] = s[j] => i = j
        /\ IsFiniteSet(S) /\ Len(s) = Cardinality(S)
        /\ \A i \in DOMAIN s : Cardinality({q \in S : Last(q) < Last(s[i])}) = i - 1
    <2> DEFINE r == Parent(p)
    <2>1. r \in t.paths \cup {Root} /\ d.sorted[r] = Siblings(t.children, r)
      BY <1>2, <1>3
    <2> HIDE DEF r
    <2>2. LET list == Siblings(t.children, r)
              set == {q \in t.paths : Parent(q) = r}
          IN  /\ list \in Seq(t.paths)
              /\ \A q \in t.paths : Parent(q) = r <=> \E i \in DOMAIN list : list[i] = q
              /\ \A i, j \in DOMAIN list : list[i] = list[j] => i = j
              /\ IsFiniteSet(set) /\ Len(list) = Cardinality(set)
              /\ \A i \in DOMAIN list : Cardinality({q \in set : Last(q) < Last(list[i])}) = i - 1
      BY <2>1, SiblingsFacts, Zenon
    <2> QED  BY <2>1, <2>2 DEF r
  <1> HIDE DEF s
  <1>6. at \in DOMAIN s /\ s[at] = p
    BY <1>2, <1>5
  <1> HIDE DEF at
  <1>7. at \in Nat /\ Cardinality(before) = at - 1
    <2>1. DOMAIN s = 1 .. Len(s) /\ Len(s) \in Nat
      BY <1>5
    <2> QED  BY <1>5, <1>6, <2>1
  <1>8. {q \in S : ~PathOrder(p, q)} = before \cup {p}
    <2>1. ASSUME NEW q \in S PROVE ~PathOrder(p, q) <=> q = p \/ Last(q) < Last(p)
      <3>1. q \in Path /\ q # Root /\ p \in Path /\ p # Root /\ Parent(p) = Parent(q)
        BY <1>2
      <3>2. /\ Last(p) \in Nat /\ Last(q) \in Nat
            /\ Last(p) < Last(q) => Apart(p, q)
            /\ ~IsStrictPrefix(p, q)
            /\ Last(p) = Last(q) => p = q
        BY <3>1, SiblingsApart
      <3>3. Last(q) < Last(p) => Apart(q, p)
        BY <3>1, SiblingsApart
      <3>4. Apart(p, q) => ~Apart(q, p) /\ p # q
        BY <3>1, ApartOnce
      <3> QED  BY <3>2, <3>3, <3>4, OrderIs
    <2>2. p \in S
      BY <1>2
    <2> HIDE DEF S
    <2> QED  BY <2>1, <2>2
  <1>9. Cardinality(before \cup {p}) = at
    <2>1. before \in SUBSET S
      OBVIOUS
    <2>2. p \notin before
      <3>1. Last(p) \in Nat
        BY <1>2, SiblingsApart
      <3> QED  BY <3>1
    <2> HIDE DEF before, S
    <2>3. IsFiniteSet(before)
      BY <1>5, <2>1, FS_Subset
    <2>4. Cardinality(before \cup {p}) = Cardinality(before) + 1
      BY <2>2, <2>3, FS_AddElement
    <2> QED  BY <1>7, <2>4
  <1> HIDE DEF before, S
  <1>10. row.group <=> (\E q \in t.paths : Parent(q) = p) \/ p \in DOMAIN t.load
    BY <1>1, <1>4
  <1> QED  BY <1>1, <1>5, <1>8, <1>9, <1>10 DEF row, p, d, S

LEMMA InvIsRows ==
    ASSUME ChartInv, CacheInv, Money(tree.own)
    PROVE  RowsHonest
  <1> SUFFICES ASSUME Idle PROVE RowsHonest
    BY DEF RowsHonest
  <1> DEFINE d == Topology(tree)
             order == d.order
             shown == {p \in tree.paths : Lineage(p) \ {p} \subseteq tree.expanded}
             ids == Project(d, tree.expanded)
             rows == VisibleRows
             sibs(p) == {q \in tree.paths : Parent(q) = Parent(p)}
  <1>1. Chart(tree) /\ Known(tree.load)
    BY DEF ChartInv, TreeInv, Chart
  <1>2. CachedDerived = d /\ CachedVisible = ids
    BY DEF CacheInv, Coherent, CachedDerived, CachedVisible
  <1>3. rows = [i \in DOMAIN ids |-> Row(tree, d, ids[i])]
    BY <1>2 DEF VisibleRows
  <1>4. /\ ids \in Seq(DOMAIN order)
        /\ \A i, j \in DOMAIN ids : i < j => PathOrder(order[ids[i]], order[ids[j]])
        /\ \A n \in DOMAIN order : Lineage(order[n]) \ {order[n]} \subseteq tree.expanded
                                     <=> \E i \in DOMAIN ids : ids[i] = n
    BY <1>1, ProjectFacts
  <1>5. /\ order \in Seq(tree.paths)
        /\ \A p \in tree.paths : \E n \in DOMAIN order : order[n] = p
    BY <1>1, OrderFacts
  <1> HIDE DEF ids
  <1>6. /\ Len(ids) \in Nat /\ DOMAIN ids = 1 .. Len(ids)
        /\ \A i \in DOMAIN ids : ids[i] \in DOMAIN order
    BY <1>4
  <1>7. ASSUME NEW i \in DOMAIN ids
        PROVE  LET p == order[ids[i]]
               IN  /\ rows[i].path = p /\ p \in tree.paths
                   /\ rows[i].group <=> (\E q \in tree.paths : Parent(q) = p) \/ p \in DOMAIN tree.load
                   /\ rows[i].setSize = Cardinality(sibs(p))
                   /\ rows[i].posInSet = Cardinality({q \in sibs(p) : ~PathOrder(p, q)})
                   /\ rows[i].rolled = d.rolled[p]
    <2> DEFINE n == ids[i]
    <2>1. n \in DOMAIN order /\ rows[i] = Row(tree, d, n)
      BY <1>3, <1>6
    <2> HIDE DEF n, rows
    <2>2. order[n] \in tree.paths
      <3> HIDE DEF order
      <3> QED  BY <1>5, <2>1
    <2>3. LET row == Row(tree, Topology(tree), n)
              p == Topology(tree).order[n]
              siblings == {q \in tree.paths : Parent(q) = Parent(p)}
          IN  /\ row.path = p
              /\ row.group <=> (\E q \in tree.paths : Parent(q) = p) \/ p \in DOMAIN tree.load
              /\ row.setSize = Cardinality(siblings)
              /\ row.posInSet = Cardinality({q \in siblings : ~PathOrder(p, q)})
              /\ row.rolled = Topology(tree).rolled[p]
      BY <1>1, <2>1, RowFacts
    <2> QED  BY <2>1, <2>2, <2>3 DEF n
  <1>8. DOMAIN rows = DOMAIN ids
    BY <1>3
  <1>9. d.overflow \/ \A p \in tree.paths : d.rolled[p] = TotalAt(tree, p)
    BY <1>1, RolledUp DEF ChartInv, Nodes
  <1> HIDE DEF rows, order
  <1>10. {rows[i].path : i \in DOMAIN rows} = shown
    <2>1. ASSUME NEW i \in DOMAIN ids PROVE rows[i].path \in shown
      <3>1. Lineage(order[ids[i]]) \ {order[ids[i]]} \subseteq tree.expanded
        BY <1>4, <1>6
      <3> QED  BY <1>7, <3>1
    <2>2. ASSUME NEW p \in shown PROVE \E i \in DOMAIN ids : rows[i].path = p
      <3>1. PICK n \in DOMAIN order : order[n] = p
        BY <1>5
      <3>2. PICK i \in DOMAIN ids : ids[i] = n
        BY <1>4, <3>1
      <3> QED  BY <1>7, <3>1, <3>2
    <2> HIDE DEF shown
    <2> QED  BY <1>8, <2>1, <2>2
  <1>11. \A i \in 1 .. Len(rows) - 1 : PathOrder(rows[i].path, rows[i + 1].path)
    <2> TAKE i \in 1 .. Len(rows) - 1
    <2>1. Len(rows) = Len(ids)
      BY <1>3, <1>6 DEF rows
    <2>2. i \in DOMAIN ids /\ i + 1 \in DOMAIN ids /\ i < i + 1
      BY <1>6, <2>1
    <2> QED  BY <1>4, <1>7, <2>2
  <1>12. ASSUME NEW i \in DOMAIN rows
         PROVE  LET p == rows[i].path
                IN  /\ rows[i].group <=> \/ \E q \in tree.paths : Parent(q) = p
                                         \/ LoadState(p) # "loaded"
                    /\ rows[i].setSize = Cardinality(sibs(p))
                    /\ rows[i].posInSet = Cardinality({q \in sibs(p) : ~PathOrder(p, q)})
                    /\ rows[i].rolled = TotalAt(tree, p) \/ (overflow \/ CachedDerived.overflow)
    <2> DEFINE p == rows[i].path
    <2>1. /\ p \in tree.paths
          /\ rows[i].group <=> (\E q \in tree.paths : Parent(q) = p) \/ p \in DOMAIN tree.load
          /\ rows[i].setSize = Cardinality(sibs(p))
          /\ rows[i].posInSet = Cardinality({q \in sibs(p) : ~PathOrder(p, q)})
          /\ rows[i].rolled = d.rolled[p]
      <3> DEFINE r == order[ids[i]]
      <3>1. /\ rows[i].path = r /\ r \in tree.paths
            /\ rows[i].group <=> (\E q \in tree.paths : Parent(q) = r) \/ r \in DOMAIN tree.load
            /\ rows[i].setSize = Cardinality(sibs(r))
            /\ rows[i].posInSet = Cardinality({q \in sibs(r) : ~PathOrder(r, q)})
            /\ rows[i].rolled = d.rolled[r]
        BY <1>7, <1>8
      <3>2. p = r
        BY <3>1
      <3> HIDE DEF p, r, sibs, d
      <3> QED  BY <3>1, <3>2
    <2> HIDE DEF p, sibs
    <2>2. p \in DOMAIN tree.load <=> LoadState(p) # "loaded"
      BY <1>1 DEF Known, LoadState
    <2>3. rows[i].rolled = TotalAt(tree, p) \/ CachedDerived.overflow
      BY <1>2, <1>9, <2>1
    <2> QED  BY <2>1, <2>2, <2>3 DEF p
  <1> QED  BY <1>10, <1>11, <1>12 DEF RowsHonest, rows

\* Rows show each account with nothing closed above it once, in order, at its place
\* among its siblings and with its balance, whatever was called before.
THEOREM RowsAreHonest == Spec => []RowsHonest
  <1>1. Init => ChartInv
    BY BuiltSound, BuiltFinite DEF Init, ChartInv, TreeInv, NoCall
  <1>2. Init => Money(tree.own) /\ CacheInv
    BY BuiltMoney DEF Init, CacheInv, Coherent
  <1>3. ChartInv => TreeInv
    BY DEF ChartInv
  <1>4. ChartInv /\ CacheInv /\ Money(tree.own) => RowsHonest
    BY InvIsRows
  <1> QED  BY <1>1, <1>2, <1>3, <1>4, ChartStep, CacheStep, MoneyStep, PTL DEF Spec

\* Whatever is called: the rows tell what the chart holds, an event tells all that
\* came and went, and a move keeps the money.
THEOREM CallsAreHonest == Spec => CallsHonest
  BY RowsAreHonest, EventsAreHonest, MovesKeepMoney, PTL DEF CallsHonest
=============================================================================
