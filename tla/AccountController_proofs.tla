---------------------- MODULE AccountController_proofs ----------------------
(***************************************************************************)
(* What the account tree controller keeps is never stale, and its listeners*)
(* hear of every change, for every chart, every sequence of calls and every*)
(* order in which fetches settle.                                          *)
(***************************************************************************)
EXTENDS AccountController, AccountTree_proofs

-----------------------------------------------------------------------------
(* The invariant, of a controller d and the fetches in flight *)

Fields == {"store", "mirror", "accounts", "entries", "selection", "anchor", "focus", "own",
           "rolled", "session", "matches", "filter", "tokens", "counter", "renaming",
           "flatten", "projection", "told"}

StoreFields == {"paths", "children", "expanded", "load", "own"}

USE DEF Fields, StoreFields

Typed(d) ==
    /\ DOMAIN d = Fields
    /\ DOMAIN d.store = StoreFields
    /\ IsFcn(d.own)

\* The three copies of the chart, and the accounts that have a load.
Charts(d) ==
    /\ d.mirror = MirrorOf(d.entries, d.accounts)
    /\ d.mirror.all = d.store.paths
    /\ d.mirror.kids = d.store.children
    /\ DOMAIN d.store.load \subseteq d.store.paths

\* Each spinner has its fetch.
Spinners(d, flying) ==
    \A p \in DOMAIN d.store.load :
      d.store.load[p] = "loading" =>
        p \in DOMAIN d.tokens /\ [path |-> p, token |-> d.tokens[p]] \in flying

\* A token is given once.
Numbered(d, flying) ==
    /\ d.counter \in Nat
    /\ \A p \in DOMAIN d.tokens : d.tokens[p] \in 1 .. d.counter
    /\ \A f \in flying : f.token \in 1 .. d.counter
    /\ \A f, g \in flying : f.token = g.token => f = g

Cached(d) == d.projection # None => d.projection = ProjectionOf(d)

ControllerInv(d, flying) ==
    Typed(d) /\ Charts(d) /\ Spinners(d, flying) /\ Numbered(d, flying) /\ Cached(d)

\* What the listeners must be told of a step from d to e.
Heard(d, e) ==
    /\ d.selection # e.selection => "selection" \in e.told
    /\ d.focus # e.focus => "focus" \in e.told
    /\ d.matches # e.matches => "search" \in e.told
    /\ d.renaming # e.renaming /\ None \in {d.renaming, e.renaming} => "rename" \in e.told
    /\ d.own # e.own => "status" \in e.told
    /\ ProjectionOf(d) # ProjectionOf(e) => "expansion" \in e.told

\* What a method must do.
Keeps(d, e, flying) == ControllerInv(e, Fetched(d, e, flying)) /\ Heard(d, e)

-----------------------------------------------------------------------------
(* The store *)

LEMMA BuiltIs ==
    ASSUME NEW entries, NEW accounts
    PROVE  LET t == Built(entries, accounts)
               m == MirrorOf(entries, accounts)
           IN  /\ DOMAIN t = StoreFields
               /\ t.paths = m.all /\ t.children = m.kids /\ t.load = <<>>
  <1> DEFINE asked == accounts \cup UNION {e.accounts : e \in entries}
             new == Missing(EmptyTree, asked)
             t == Built(entries, accounts)
             m == MirrorOf(entries, accounts)
  <1>1. new = m.all
    BY DEF Missing, EmptyTree, MirrorOf
  <1>2. m.kids = [p \in {Parent(q) : q \in new} |-> {k \in new : Parent(k) = p}]
    BY <1>1 DEF MirrorOf
  <1>3. /\ DOMAIN EmptyTree = StoreFields /\ EmptyTree.paths = {}
        /\ DOMAIN EmptyTree.children = {} /\ EmptyTree.load = <<>>
        /\ \A p : Children(EmptyTree, p) = {}
    BY DEF EmptyTree, Children
  <1> HIDE DEF new, m
  <1>4. t = Collected(EmptyTree, asked)
    BY DEF Built
  <1>5. /\ DOMAIN t = StoreFields /\ t.paths = new /\ t.load = <<>>
        /\ t.children = [p \in {Parent(q) : q \in new} |->
                           Children(EmptyTree, p) \cup {k \in new : Parent(k) = p}]
    BY <1>3, <1>4 DEF Collected, new
  <1> HIDE DEF t
  <1> QED  BY <1>1, <1>2, <1>3, <1>5 DEF t, m

LEMMA StoreKept ==
    ASSUME NEW t, DOMAIN t = StoreFields, NEW paths, NEW on
    PROVE  LET u == SetExpansion(t, paths, on)
           IN  /\ DOMAIN u = StoreFields /\ u.paths = t.paths
               /\ u.children = t.children /\ u.load = t.load
  BY DEF SetExpansion

LEMMA LoadsSet ==
    ASSUME NEW t, DOMAIN t = StoreFields, NEW paths, NEW state
    PROVE  LET u == SetLoads(t, paths, state)
           IN  /\ DOMAIN u = StoreFields /\ u.paths = t.paths
               /\ u.children = t.children
               /\ DOMAIN u.load = DOMAIN t.load \cup paths
               /\ \A p \in DOMAIN u.load :
                    u.load[p] = IF p \in paths THEN state ELSE t.load[p]
  BY DEF SetLoads

LEMMA UnloadedIs ==
    ASSUME NEW t, DOMAIN t = StoreFields, NEW paths
    PROVE  LET u == Unloaded(t, paths)
               known == paths \cap t.paths
           IN  /\ DOMAIN u = StoreFields /\ u.paths = t.paths
               /\ u.children = t.children
               /\ DOMAIN u.load = DOMAIN t.load \cup known
               /\ \A p \in DOMAIN u.load :
                    u.load[p] = IF p \in known THEN "unloaded" ELSE t.load[p]
  <1> DEFINE s == SetLoads(t, paths \cap t.paths, "unloaded")
  <1>1. /\ DOMAIN s = StoreFields /\ s.paths = t.paths /\ s.children = t.children
        /\ DOMAIN s.load = DOMAIN t.load \cup (paths \cap t.paths)
        /\ \A p \in DOMAIN s.load :
             s.load[p] = IF p \in paths \cap t.paths THEN "unloaded" ELSE t.load[p]
    BY LoadsSet
  <1> HIDE DEF s
  <1>2. Unloaded(t, paths) = [s EXCEPT !.expanded = @ \ paths]
    BY DEF Unloaded, s
  <1> QED  BY <1>1, <1>2

\* A load that is carried over in flight is one whose path has stayed, and its
\* token with it.
LEMMA Carried ==
    ASSUME NEW d, NEW flying, ControllerInv(d, flying), NEW where,
           NEW fresh, DOMAIN fresh = StoreFields
    PROVE  LET r == CarryLoads(d, fresh, where)
           IN  /\ DOMAIN r.store = StoreFields
               /\ r.store.paths = fresh.paths /\ r.store.children = fresh.children
               /\ DOMAIN r.tokens \subseteq DOMAIN d.tokens
               /\ \A p \in DOMAIN r.tokens : r.tokens[p] = d.tokens[p]
               /\ DOMAIN r.store.load \subseteq fresh.paths
               /\ \A p \in DOMAIN r.store.load :
                    r.store.load[p] = "loading" =>
                      /\ p \in DOMAIN d.store.load /\ d.store.load[p] = "loading"
                      /\ p \in DOMAIN r.tokens
  <1> DEFINE r == CarryLoads(d, fresh, where)
             pending == {p \in d.mirror.all : LoadOf(d.store, p) # "loaded"}
             kept == {p \in pending : where[p] \in fresh.paths}
             targets == {where[p] : p \in kept}
             source(q) == CHOOSE p \in kept : where[p] = q
             load == [q \in targets |-> IF source(q) = q THEN d.store.load[q]
                                        ELSE "unloaded"]
             open == {where[p] : p \in {p \in kept : IsExpanded(d.store, p)}}
             stale == {p \in pending : p \notin kept \/ where[p] # p}
  <1>1. /\ r.store = [fresh EXCEPT !.load = load, !.expanded = (@ \ targets) \cup open]
        /\ r.tokens = [p \in DOMAIN d.tokens \ stale |-> d.tokens[p]]
    BY DEF CarryLoads
  <1>2. ASSUME NEW q \in targets, load[q] = "loading"
        PROVE  /\ q \in DOMAIN d.store.load /\ d.store.load[q] = "loading"
               /\ q \in DOMAIN d.tokens \ stale
    <2>1. source(q) \in kept /\ where[source(q)] = q
      OBVIOUS
    <2>2. source(q) = q /\ d.store.load[q] = "loading"
      BY <1>2
    <2>3. q \in kept /\ where[q] = q
      BY <2>1, <2>2
    <2>4. q \in DOMAIN d.store.load
      BY <2>3 DEF LoadOf
    <2>5. q \in DOMAIN d.tokens
      BY <2>2, <2>4 DEF ControllerInv, Spinners
    <2> QED  BY <2>2, <2>3, <2>4, <2>5
  <1> HIDE DEF open, r
  <1>3. /\ DOMAIN r.store = StoreFields /\ r.store.paths = fresh.paths
        /\ r.store.children = fresh.children /\ r.store.load = load
    BY <1>1
  <1> QED  BY <1>1, <1>2, <1>3 DEF r

-----------------------------------------------------------------------------
(* What the methods have in common *)

\* The rows are made of four of the fields.
LEMMA SameRows ==
    ASSUME NEW d, NEW e, e.store = d.store, e.mirror = d.mirror, e.filter = d.filter,
           e.flatten = d.flatten
    PROVE  ProjectionOf(e) = ProjectionOf(d)
  BY DEF ProjectionOf, RowInputs

\* A method that changes nothing the rows or the fetches depend on, and at most
\* computes the rows.
LEMMA CalmKeeps ==
    ASSUME NEW flying, NEW d, ControllerInv(d, flying),
           NEW e, DOMAIN e = Fields, IsFcn(e.own),
           e.store = d.store, e.mirror = d.mirror, e.accounts = d.accounts,
           e.entries = d.entries, e.filter = d.filter, e.flatten = d.flatten,
           e.tokens = d.tokens, e.counter = d.counter,
           e.projection \in {d.projection, ProjectionOf(d)}
    PROVE  /\ ControllerInv(e, Fetched(d, e, flying))
           /\ ProjectionOf(e) = ProjectionOf(d)
  <1>1. ProjectionOf(e) = ProjectionOf(d)
    BY SameRows
  <1>2. Fetched(d, e, flying) = flying
    BY DEF Fetched
  <1>3. Typed(e) /\ Charts(e) /\ Spinners(e, flying) /\ Numbered(e, flying)
    BY DEF ControllerInv, Typed, Charts, Spinners, Numbered
  <1>4. Cached(e)
    BY <1>1 DEF ControllerInv, Cached
  <1> QED  BY <1>1, <1>2, <1>3, <1>4 DEF ControllerInv

\* A method that drops the rows and starts no fetch.
LEMMA DirtyKeeps ==
    ASSUME NEW flying, NEW d, ControllerInv(d, flying),
           NEW e, Typed(e), Charts(e), e.projection = None, e.counter = d.counter,
           DOMAIN e.tokens \subseteq DOMAIN d.tokens,
           \A p \in DOMAIN e.tokens : e.tokens[p] = d.tokens[p],
           \A p \in DOMAIN e.store.load :
             e.store.load[p] = "loading" =>
               /\ p \in DOMAIN d.store.load /\ d.store.load[p] = "loading"
               /\ p \in DOMAIN e.tokens
    PROVE  ControllerInv(e, Fetched(d, e, flying))
  <1>1. Fetched(d, e, flying) = flying
    BY DEF Fetched
  <1>2. Spinners(e, flying)
    BY DEF ControllerInv, Spinners
  <1>3. Numbered(e, flying)
    BY DEF ControllerInv, Numbered
  <1> QED  BY <1>1, <1>2, <1>3 DEF ControllerInv, Cached

\* A method that drops the rows and leaves the fetches alone.
LEMMA RowsDropped ==
    ASSUME NEW flying, NEW d, ControllerInv(d, flying),
           NEW e, DOMAIN e = Fields, IsFcn(e.own), e.mirror = d.mirror,
           e.accounts = d.accounts, e.entries = d.entries, e.projection = None,
           e.counter = d.counter, e.tokens = d.tokens, DOMAIN e.store = StoreFields,
           e.store.paths = d.store.paths, e.store.children = d.store.children,
           e.store.load = d.store.load
    PROVE  ControllerInv(e, Fetched(d, e, flying))
  <1>1. Typed(e) /\ Charts(e)
    BY DEF ControllerInv, Typed, Charts
  <1>2. \A p \in DOMAIN d.store.load : d.store.load[p] = "loading" => p \in DOMAIN d.tokens
    BY DEF ControllerInv, Spinners
  <1> QED  BY <1>1, <1>2, DirtyKeeps

LEMMA TellNothing ==
    ASSUME NEW flying, NEW d, ControllerInv(d, flying)
    PROVE  Keeps(d, Tell(d, {}), flying)
  <1> DEFINE e == Tell(d, {})
  <1>1. /\ DOMAIN e = Fields /\ e.store = d.store /\ e.mirror = d.mirror
        /\ e.accounts = d.accounts /\ e.entries = d.entries /\ e.selection = d.selection
        /\ e.anchor = d.anchor /\ e.focus = d.focus /\ e.own = d.own
        /\ e.rolled = d.rolled /\ e.session = d.session /\ e.matches = d.matches
        /\ e.filter = d.filter /\ e.tokens = d.tokens /\ e.counter = d.counter
        /\ e.renaming = d.renaming /\ e.flatten = d.flatten
        /\ e.projection = d.projection /\ e.told = {}
    BY DEF Tell, ControllerInv, Typed
  <1> HIDE DEF e
  <1>2. ControllerInv(e, Fetched(d, e, flying)) /\ ProjectionOf(e) = ProjectionOf(d)
    BY <1>1, CalmKeeps DEF ControllerInv, Typed
  <1> QED  BY <1>1, <1>2 DEF Keeps, Heard, e

-----------------------------------------------------------------------------
(* Data *)

LEMMA SetEntriesKeeps ==
    ASSUME NEW flying, NEW d, ControllerInv(d, flying), NEW entries
    PROVE  Keeps(d, SetEntries(d, entries), flying)
  <1> DEFINE e == SetEntries(d, entries)
             collapsed == {p \in d.mirror.groups : ~IsExpanded(d.store, p)}
             built == Built(entries, d.accounts)
             fresh == SetExpansion(built, collapsed, {})
             kept(p) == IF p \in fresh.paths THEN p ELSE None
             where == [p \in d.mirror.all |-> kept(p)]
             carried == CarryLoads(d, fresh, where)
             facets == {"expansion", "status"}
                         \cup (IF d.selection \subseteq fresh.paths THEN {} ELSE {"selection"})
                         \cup (IF kept(d.focus) = d.focus THEN {} ELSE {"focus"})
  <1>1. /\ DOMAIN built = StoreFields
        /\ built.paths = MirrorOf(entries, d.accounts).all
        /\ built.children = MirrorOf(entries, d.accounts).kids
    BY BuiltIs
  <1> HIDE DEF built, collapsed
  <1>2. /\ DOMAIN fresh = StoreFields
        /\ fresh.paths = MirrorOf(entries, d.accounts).all
        /\ fresh.children = MirrorOf(entries, d.accounts).kids
    BY <1>1, StoreKept
  <1> HIDE DEF fresh, where
  <1>3. /\ DOMAIN carried.store = StoreFields
        /\ carried.store.paths = fresh.paths /\ carried.store.children = fresh.children
        /\ DOMAIN carried.tokens \subseteq DOMAIN d.tokens
        /\ \A p \in DOMAIN carried.tokens : carried.tokens[p] = d.tokens[p]
        /\ DOMAIN carried.store.load \subseteq fresh.paths
        /\ \A p \in DOMAIN carried.store.load :
             carried.store.load[p] = "loading" =>
               /\ p \in DOMAIN d.store.load /\ d.store.load[p] = "loading"
               /\ p \in DOMAIN carried.tokens
    BY <1>2, Carried
  <1> HIDE DEF carried, facets
  <1>4. /\ DOMAIN e = Fields /\ e.store = carried.store
        /\ e.mirror = MirrorOf(entries, d.accounts) /\ e.accounts = d.accounts
        /\ e.entries = entries /\ e.selection = d.selection \cap fresh.paths
        /\ e.focus = kept(d.focus) /\ e.own = d.own /\ e.session = d.session
        /\ e.matches = d.matches /\ e.filter = d.filter /\ e.tokens = carried.tokens
        /\ e.counter = d.counter /\ e.renaming = d.renaming /\ e.flatten = d.flatten
        /\ e.projection = None /\ e.told = facets
    BY DEF SetEntries, Tell, Dirty, ControllerInv, Typed, facets, carried, where, fresh,
           built, collapsed
  <1> HIDE DEF e
  <1>5. Typed(e) /\ Charts(e)
    BY <1>2, <1>3, <1>4 DEF ControllerInv, Typed, Charts
  <1>6. ControllerInv(e, Fetched(d, e, flying))
    BY <1>3, <1>4, <1>5, DirtyKeeps
  <1>7. Heard(d, e)
    BY <1>4 DEF Heard, facets
  <1> QED  BY <1>6, <1>7 DEF Keeps, e

LEMMA SetFlattenKeeps ==
    ASSUME NEW flying, NEW d, ControllerInv(d, flying), NEW on
    PROVE  Keeps(d, SetFlatten(d, on), flying)
  <1> DEFINE e == Tell([Dirty(d) EXCEPT !.flatten = on], {"expansion"})
  <1>1. /\ DOMAIN e = Fields /\ e.store = d.store /\ e.mirror = d.mirror
        /\ e.accounts = d.accounts /\ e.entries = d.entries /\ e.selection = d.selection
        /\ e.anchor = d.anchor /\ e.focus = d.focus /\ e.own = d.own
        /\ e.rolled = d.rolled /\ e.session = d.session /\ e.matches = d.matches
        /\ e.filter = d.filter /\ e.tokens = d.tokens /\ e.counter = d.counter
        /\ e.renaming = d.renaming /\ e.flatten = on /\ e.projection = None
        /\ e.told = {"expansion"}
    BY DEF Tell, Dirty, ControllerInv, Typed
  <1> HIDE DEF e
  <1>2. ControllerInv(e, Fetched(d, e, flying))
    BY <1>1, RowsDropped DEF ControllerInv, Typed
  <1>3. Keeps(d, e, flying)
    BY <1>1, <1>2 DEF Keeps, Heard
  <1> QED  BY <1>3, TellNothing DEF SetFlatten, e

LEMMA SetAccountStatusKeeps ==
    ASSUME NEW flying, NEW d, ControllerInv(d, flying), NEW own, IsFcn(own)
    PROVE  Keeps(d, SetAccountStatus(d, own), flying)
  <1> DEFINE e == SetAccountStatus(d, own)
  <1>1. /\ DOMAIN e = Fields /\ e.store = d.store /\ e.mirror = d.mirror
        /\ e.accounts = d.accounts /\ e.entries = d.entries /\ e.selection = d.selection
        /\ e.anchor = d.anchor /\ e.focus = d.focus /\ e.own = own
        /\ e.session = d.session /\ e.matches = d.matches /\ e.filter = d.filter
        /\ e.tokens = d.tokens /\ e.counter = d.counter /\ e.renaming = d.renaming
        /\ e.flatten = d.flatten /\ e.projection = d.projection /\ e.told = {"status"}
    BY DEF SetAccountStatus, Tell, ControllerInv, Typed
  <1> HIDE DEF e
  <1>2. ControllerInv(e, Fetched(d, e, flying)) /\ ProjectionOf(e) = ProjectionOf(d)
    BY <1>1, CalmKeeps
  <1> QED  BY <1>1, <1>2 DEF Keeps, Heard, e

-----------------------------------------------------------------------------
(* Child loading *)

LEMMA RequestMade ==
    ASSUME NEW flying, NEW d, ControllerInv(d, flying),
           NEW p, LoadOf(d.store, p) \in {"unloaded", "error"}
    PROVE  LET e == RequestChildLoad(d, p)
           IN  /\ ControllerInv(e, Fetched(d, e, flying))
               /\ e.counter # d.counter
               /\ e.selection = d.selection /\ e.focus = d.focus /\ e.matches = d.matches
               /\ e.renaming = d.renaming /\ e.own = d.own /\ e.told = {"expansion"}
  <1> DEFINE e == RequestChildLoad(d, p)
             store == SetLoads(d.store, {p}, "loading")
             next == d.counter + 1
             tokens == [q \in DOMAIN d.tokens \cup {p} |-> IF q = p THEN next ELSE d.tokens[q]]
             calls == {[path |-> q, token |-> next] : q \in {q \in DOMAIN tokens : tokens[q] = next}}
             fetch == [path |-> p, token |-> next]
  <1>1. /\ DOMAIN store = StoreFields /\ store.paths = d.store.paths
        /\ store.children = d.store.children
        /\ DOMAIN store.load = DOMAIN d.store.load \cup {p}
        /\ \A q \in DOMAIN store.load :
             store.load[q] = IF q = p THEN "loading" ELSE d.store.load[q]
    BY LoadsSet DEF ControllerInv, Typed
  <1> HIDE DEF store
  <1>2. d.counter \in Nat /\ next \in Nat /\ next # d.counter
    BY DEF ControllerInv, Numbered
  <1>3. /\ DOMAIN e = Fields /\ e.store = store /\ e.mirror = d.mirror
        /\ e.accounts = d.accounts /\ e.entries = d.entries /\ e.selection = d.selection
        /\ e.anchor = d.anchor /\ e.focus = d.focus /\ e.own = d.own
        /\ e.rolled = d.rolled /\ e.session = d.session /\ e.matches = d.matches
        /\ e.filter = d.filter /\ e.tokens = tokens /\ e.counter = next
        /\ e.renaming = d.renaming /\ e.flatten = d.flatten /\ e.projection = None
        /\ e.told = {"expansion"}
    BY DEF RequestChildLoad, Tell, Dirty, ControllerInv, Typed, store
  <1> HIDE DEF e
  <1>4. \A q \in DOMAIN d.tokens : d.tokens[q] \in 1 .. d.counter
    BY DEF ControllerInv, Numbered
  <1>5. calls = {fetch}
    <2>1. \A q \in DOMAIN tokens : tokens[q] = next <=> q = p
      BY <1>2, <1>4
    <2>2. {q \in DOMAIN tokens : tokens[q] = next} = {p}
      BY <2>1
    <2> QED  BY <2>2
  <1>6. Fetched(d, e, flying) = flying \cup {fetch}
    <2>1. {[path |-> q, token |-> e.counter] :
             q \in {q \in DOMAIN e.tokens : e.tokens[q] = e.counter}} = calls
      BY <1>3
    <2> QED  BY <1>2, <1>3, <1>5, <2>1 DEF Fetched
  <1>7. Typed(e) /\ Charts(e) /\ Cached(e)
    <2>1. p \in DOMAIN d.store.load
      BY DEF LoadOf
    <2> QED  BY <1>1, <1>3, <2>1 DEF ControllerInv, Typed, Charts, Cached
  <1>8. Spinners(e, flying \cup {fetch})
    <2> SUFFICES ASSUME NEW q \in DOMAIN e.store.load, e.store.load[q] = "loading"
                 PROVE  /\ q \in DOMAIN e.tokens
                        /\ [path |-> q, token |-> e.tokens[q]] \in flying \cup {fetch}
      BY DEF Spinners
    <2>1. CASE q = p
      BY <1>3, <2>1
    <2>2. CASE q # p
      <3>1. q \in DOMAIN d.store.load /\ d.store.load[q] = "loading"
        BY <1>1, <1>3, <2>2
      <3>2. q \in DOMAIN d.tokens /\ [path |-> q, token |-> d.tokens[q]] \in flying
        BY <3>1 DEF ControllerInv, Spinners
      <3> QED  BY <1>3, <2>2, <3>2
    <2> QED  BY <2>1, <2>2
  <1>9. Numbered(e, flying \cup {fetch})
    <2>1. \A f \in flying : f.token \in 1 .. d.counter
      BY DEF ControllerInv, Numbered
    <2>2. \A f, g \in flying : f.token = g.token => f = g
      BY DEF ControllerInv, Numbered
    <2>3. \A f \in flying : f.token \in 1 .. next /\ f.token # next
      BY <1>2, <2>1
    <2>4. \A q \in DOMAIN tokens : tokens[q] \in 1 .. next
      BY <1>2, <1>4
    <2>5. fetch.token = next /\ next \in 1 .. next
      BY <1>2
    <2> HIDE DEF fetch, tokens, next
    <2> QED  BY <1>2, <1>3, <2>2, <2>3, <2>4, <2>5 DEF Numbered
  <1> QED  BY <1>2, <1>3, <1>6, <1>7, <1>8, <1>9 DEF ControllerInv, e

LEMMA RequestChildLoadKeeps ==
    ASSUME NEW flying, NEW d, ControllerInv(d, flying), NEW p
    PROVE  Keeps(d, RequestChildLoad(d, p), flying)
  <1>1. CASE LoadOf(d.store, p) \in {"unloaded", "error"}
    BY <1>1, RequestMade DEF Keeps, Heard
  <1>2. CASE LoadOf(d.store, p) \notin {"unloaded", "error"}
    BY <1>2, TellNothing DEF RequestChildLoad
  <1> QED  BY <1>1, <1>2

\* A reset of groups: nobody waits for their fetches any more.
LEMMA ResetKeeps ==
    ASSUME NEW flying, NEW d, ControllerInv(d, flying), NEW paths, NEW tokens,
           NEW e, e = Tell([Dirty(d) EXCEPT !.store = Unloaded(@, paths),
                                            !.tokens = tokens], {"expansion"}),
           DOMAIN d.tokens \ paths \subseteq DOMAIN tokens,
           DOMAIN tokens \subseteq DOMAIN d.tokens,
           \A p \in DOMAIN tokens : tokens[p] = d.tokens[p]
    PROVE  Keeps(d, e, flying)
  <1> DEFINE store == Unloaded(d.store, paths)
             known == paths \cap d.store.paths
  <1>1. /\ DOMAIN store = StoreFields /\ store.paths = d.store.paths
        /\ store.children = d.store.children
        /\ DOMAIN store.load = DOMAIN d.store.load \cup known
        /\ \A p \in DOMAIN store.load :
             store.load[p] = IF p \in known THEN "unloaded" ELSE d.store.load[p]
    BY UnloadedIs DEF ControllerInv, Typed
  <1> HIDE DEF store
  <1>2. /\ DOMAIN e = Fields /\ e.store = store /\ e.mirror = d.mirror
        /\ e.accounts = d.accounts /\ e.entries = d.entries /\ e.selection = d.selection
        /\ e.anchor = d.anchor /\ e.focus = d.focus /\ e.own = d.own
        /\ e.rolled = d.rolled /\ e.session = d.session /\ e.matches = d.matches
        /\ e.filter = d.filter /\ e.tokens = tokens /\ e.counter = d.counter
        /\ e.renaming = d.renaming /\ e.flatten = d.flatten /\ e.projection = None
        /\ e.told = {"expansion"}
    BY DEF Tell, Dirty, ControllerInv, Typed, store
  <1>3. Typed(e) /\ Charts(e)
    BY <1>1, <1>2 DEF ControllerInv, Typed, Charts
  <1>4. ASSUME NEW p \in DOMAIN store.load, store.load[p] = "loading"
        PROVE  /\ p \in DOMAIN d.store.load /\ d.store.load[p] = "loading"
               /\ p \in DOMAIN tokens
    <2>1. p \notin known /\ p \in DOMAIN d.store.load /\ d.store.load[p] = "loading"
      BY <1>1, <1>4
    <2>2. p \in DOMAIN d.tokens /\ p \in d.store.paths
      BY <2>1 DEF ControllerInv, Spinners, Charts
    <2> QED  BY <2>1, <2>2
  <1>5. ControllerInv(e, Fetched(d, e, flying))
    BY <1>2, <1>3, <1>4, DirtyKeeps
  <1> QED  BY <1>2, <1>5 DEF Keeps, Heard

LEMMA MarkUnloadedKeeps ==
    ASSUME NEW flying, NEW d, ControllerInv(d, flying), NEW paths
    PROVE  Keeps(d, MarkUnloaded(d, paths), flying)
  <1> DEFINE tokens == [p \in DOMAIN d.tokens \ paths |-> d.tokens[p]]
             e == MarkUnloaded(d, paths)
  <1>1. Dirty(d).tokens = d.tokens
    BY DEF Dirty, ControllerInv, Typed
  <1>2. e = Tell([Dirty(d) EXCEPT !.store = Unloaded(@, paths), !.tokens = tokens],
                 {"expansion"})
    BY <1>1 DEF MarkUnloaded
  <1>3. /\ DOMAIN tokens = DOMAIN d.tokens \ paths
        /\ \A p \in DOMAIN tokens : tokens[p] = d.tokens[p]
    OBVIOUS
  <1> HIDE DEF tokens, e
  <1>4. Keeps(d, e, flying)
    BY <1>2, <1>3, ResetKeeps
  <1> QED  BY <1>4 DEF e

LEMMA CancelChildLoadsKeeps ==
    ASSUME NEW flying, NEW d, ControllerInv(d, flying)
    PROVE  Keeps(d, CancelChildLoads(d), flying)
  <1> DEFINE tokens == <<>>
             e == Tell([Dirty(d) EXCEPT !.store = Unloaded(@, DOMAIN d.tokens),
                                        !.tokens = tokens], {"expansion"})
  <1>1. DOMAIN tokens = {}
    OBVIOUS
  <1>2. Keeps(d, e, flying)
    BY <1>1, ResetKeeps
  <1> QED  BY <1>2, TellNothing DEF CancelChildLoads

\* What absorbing new paths makes of the mirrors is what a rebuild would.
LEMMA MirrorGrows ==
    ASSUME NEW d, Charts(d), NEW children, children \subseteq Path
    PROVE  LET added == Missing(d.store, children)
               parents == {Parent(p) : p \in added}
           IN  MirrorOf(d.entries, d.accounts \cup added) =
                 [all |-> d.mirror.all \cup added,
                  groups |-> d.mirror.groups \cup (parents \ {Root}),
                  kids |-> [q \in DOMAIN d.mirror.kids \cup parents |->
                              Children([children |-> d.mirror.kids], q)
                                \cup {p \in added : Parent(p) = q}]]
  <1> DEFINE added == Missing(d.store, children)
             parents == {Parent(p) : p \in added}
             used == UNION {e.accounts : e \in d.entries}
             named == {p \in d.accounts \cup used : IsValidPath(p)}
             all == UNION {Lineage(p) : p \in named}
             names == {p \in d.accounts \cup added \cup used : IsValidPath(p)}
             every == UNION {Lineage(p) : p \in names}
             above == {Parent(p) : p \in every}
  <1>1. /\ d.mirror.all = all /\ d.store.paths = all
        /\ d.mirror.groups = {Parent(p) : p \in all} \ {Root}
        /\ d.mirror.kids = [q \in {Parent(p) : p \in all} |-> {p \in all : Parent(p) = q}]
    BY DEF Charts, MirrorOf
  <1>2. \A p \in added : /\ p \in Path /\ p # Root /\ IsValidPath(p)
                         /\ Lineage(p) \subseteq d.store.paths \cup added
    BY MissingFacts
  <1>3. \A p \in added : p \in Lineage(p)
    BY <1>2, LineageFacts
  <1> HIDE DEF added, used
  <1>4. names = named \cup added
    BY <1>2
  <1>5. every = all \cup added
    <2>1. every = all \cup UNION {Lineage(p) : p \in added}
      BY <1>4
    <2> QED  BY <1>1, <1>2, <1>3, <2>1
  <1> HIDE DEF named, names, all, every
  <1>6. above = {Parent(p) : p \in all} \cup parents
    BY <1>5
  <1>7. MirrorOf(d.entries, d.accounts \cup added) =
          [all |-> every, groups |-> above \ {Root},
           kids |-> [q \in above |-> {p \in every : Parent(p) = q}]]
    BY DEF MirrorOf, every, names, used
  <1>8. \A q : Children([children |-> d.mirror.kids], q) = {p \in all : Parent(p) = q}
    BY <1>1 DEF Children
  <1>9. DOMAIN d.mirror.kids \cup parents = above
    BY <1>1, <1>6
  <1>10. [q \in above |-> {p \in every : Parent(p) = q}] =
           [q \in DOMAIN d.mirror.kids \cup parents |->
              Children([children |-> d.mirror.kids], q) \cup {p \in added : Parent(p) = q}]
    BY <1>5, <1>8, <1>9
  <1> HIDE DEF above, parents
  <1>11. d.mirror.groups \cup (parents \ {Root}) = above \ {Root}
    BY <1>1, <1>6 DEF above
  <1> QED  BY <1>1, <1>5, <1>7, <1>10, <1>11 DEF added, parents

\* What a settled fetch leaves: the controller e without the fetch f.
Settles(d, e, f, flying) == ControllerInv(e, flying \ {f}) /\ Heard(d, e)

\* An answer that is not awaited, or no longer, changes nothing.
LEMMA LateAnswer ==
    ASSUME NEW flying, NEW d, ControllerInv(d, flying), NEW f \in flying,
           ~(f.path \in DOMAIN d.tokens /\ d.tokens[f.path] = f.token)
    PROVE  Settles(d, Tell(d, {}), f, flying)
  <1> DEFINE e == Tell(d, {})
  <1>1. Keeps(d, e, flying)
    BY TellNothing
  <1>2. e.tokens = d.tokens /\ e.store = d.store /\ e.counter = d.counter
    BY DEF Tell, ControllerInv, Typed
  <1>3. ControllerInv(e, flying) /\ Heard(d, e)
    BY <1>1, <1>2 DEF Keeps, Fetched
  <1> HIDE DEF e
  <1>4. Spinners(e, flying \ {f})
    BY <1>2, <1>3 DEF ControllerInv, Spinners
  <1>5. Numbered(e, flying \ {f})
    BY <1>3 DEF ControllerInv, Numbered
  <1> QED  BY <1>3, <1>4, <1>5 DEF Settles, ControllerInv, e

\* An awaited answer: the path waits no more, and says so.
LEMMA AnswerTaken ==
    ASSUME NEW flying, NEW d, ControllerInv(d, flying), NEW f \in flying,
           NEW e, Typed(e), Charts(e), Cached(e), e.counter = d.counter,
           e.tokens = Without(d.tokens, f.path),
           \A p \in DOMAIN e.store.load :
             e.store.load[p] = "loading" =>
               p \in DOMAIN d.store.load /\ d.store.load[p] = "loading" /\ p # f.path
    PROVE  ControllerInv(e, flying \ {f})
  <1>1. /\ DOMAIN e.tokens = DOMAIN d.tokens \ {f.path}
        /\ \A p \in DOMAIN e.tokens : e.tokens[p] = d.tokens[p]
    BY DEF Without
  <1>2. Spinners(e, flying \ {f})
    <2> SUFFICES ASSUME NEW p \in DOMAIN e.store.load, e.store.load[p] = "loading"
                 PROVE  /\ p \in DOMAIN e.tokens
                        /\ [path |-> p, token |-> e.tokens[p]] \in flying \ {f}
      BY DEF Spinners
    <2>1. p \in DOMAIN d.tokens /\ [path |-> p, token |-> d.tokens[p]] \in flying /\ p # f.path
      BY DEF ControllerInv, Spinners
    <2> QED  BY <1>1, <2>1
  <1>3. Numbered(e, flying \ {f})
    BY <1>1 DEF ControllerInv, Numbered
  <1> QED  BY <1>2, <1>3 DEF ControllerInv

LEMMA SettleKeeps ==
    ASSUME NEW flying, NEW d, ControllerInv(d, flying), NEW f \in flying,
           NEW children, children \subseteq Path
    PROVE  Settles(d, SettleChildLoad(d, f.path, f.token, children), f, flying)
  <1> DEFINE p == f.path
             current == p \in DOMAIN d.tokens /\ d.tokens[p] = f.token
             loading == LoadOf(d.store, p) = "loading"
             tokens == Without(d.tokens, p)
             quiet == Tell([d EXCEPT !.tokens = tokens], {})
             added == Missing(d.store, children)
             parents == {Parent(q) : q \in added}
             collected == Collected(d.store, children)
             load == Without(collected.load, p)
             store == [collected EXCEPT !.load = load]
             mirror == [all |-> d.mirror.all \cup added,
                        groups |-> d.mirror.groups \cup (parents \ {Root}),
                        kids |-> [q \in DOMAIN d.mirror.kids \cup parents |->
                                    Children([children |-> d.mirror.kids], q)
                                      \cup {r \in added : Parent(r) = q}]]
             absorbed == AbsorbLoadedPaths(d, added)
             e == SettleChildLoad(d, p, f.token, children)
  <1>1. CASE ~current
    BY <1>1, LateAnswer DEF SettleChildLoad
  <1>2. CASE current /\ ~loading
    <2>1. e = quiet
      BY <1>2 DEF SettleChildLoad
    <2> HIDE DEF tokens
    <2>2. /\ DOMAIN quiet = Fields /\ quiet.store = d.store /\ quiet.mirror = d.mirror
          /\ quiet.accounts = d.accounts /\ quiet.entries = d.entries
          /\ quiet.selection = d.selection /\ quiet.anchor = d.anchor
          /\ quiet.focus = d.focus /\ quiet.own = d.own /\ quiet.rolled = d.rolled
          /\ quiet.session = d.session /\ quiet.matches = d.matches
          /\ quiet.filter = d.filter /\ quiet.tokens = tokens
          /\ quiet.counter = d.counter /\ quiet.renaming = d.renaming
          /\ quiet.flatten = d.flatten /\ quiet.projection = d.projection
          /\ quiet.told = {}
      BY DEF Tell, ControllerInv, Typed
    <2> HIDE DEF quiet
    <2>3. ProjectionOf(quiet) = ProjectionOf(d)
      BY <2>2, SameRows
    <2>4. Typed(quiet) /\ Charts(quiet) /\ Cached(quiet)
      BY <2>2, <2>3 DEF ControllerInv, Typed, Charts, Cached
    <2>5. ~(p \in DOMAIN d.store.load /\ d.store.load[p] = "loading")
      BY <1>2 DEF LoadOf
    <2>6. ControllerInv(quiet, flying \ {f})
      BY <2>2, <2>4, <2>5, AnswerTaken DEF tokens
    <2>7. Heard(d, quiet)
      BY <2>2, <2>3 DEF Heard
    <2> QED  BY <2>1, <2>6, <2>7 DEF Settles
  <1>3. CASE current /\ loading
    <2>1. /\ DOMAIN collected = StoreFields /\ collected.paths = d.store.paths \cup added
          /\ collected.children = [q \in DOMAIN d.store.children \cup parents |->
                                     Children(d.store, q) \cup {r \in added : Parent(r) = q}]
          /\ collected.load = d.store.load
      BY DEF Collected, ControllerInv, Typed
    <2> HIDE DEF collected, load
    <2>2. /\ DOMAIN store = StoreFields /\ store.paths = d.store.paths \cup added
          /\ store.children = collected.children /\ store.load = load
      BY <2>1
    <2>3. absorbed = [d EXCEPT !.mirror = mirror, !.accounts = d.accounts \cup added]
      BY DEF AbsorbLoadedPaths, ControllerInv, Typed
    <2> HIDE DEF mirror, added, parents
    <2>4. /\ DOMAIN absorbed = Fields /\ absorbed.store = d.store
          /\ absorbed.mirror = mirror /\ absorbed.accounts = d.accounts \cup added
          /\ absorbed.entries = d.entries /\ absorbed.selection = d.selection
          /\ absorbed.anchor = d.anchor /\ absorbed.focus = d.focus
          /\ absorbed.own = d.own /\ absorbed.rolled = d.rolled
          /\ absorbed.session = d.session /\ absorbed.matches = d.matches
          /\ absorbed.filter = d.filter /\ absorbed.tokens = d.tokens
          /\ absorbed.counter = d.counter /\ absorbed.renaming = d.renaming
          /\ absorbed.flatten = d.flatten /\ absorbed.projection = d.projection
          /\ absorbed.told = d.told
      BY <2>3 DEF ControllerInv, Typed
    <2> HIDE DEF absorbed
    <2>5. e = Tell([Dirty(absorbed) EXCEPT !.tokens = Without(@, p), !.store = store],
                   {"expansion"})
      BY <1>3 DEF SettleChildLoad, absorbed, added, collected, load
    <2> HIDE DEF e, tokens, store
    <2>6. /\ DOMAIN e = Fields /\ e.store = store /\ e.mirror = mirror
          /\ e.accounts = d.accounts \cup added /\ e.entries = d.entries
          /\ e.selection = d.selection /\ e.anchor = d.anchor /\ e.focus = d.focus
          /\ e.own = d.own /\ e.rolled = d.rolled /\ e.session = d.session
          /\ e.matches = d.matches /\ e.filter = d.filter /\ e.tokens = tokens
          /\ e.counter = d.counter /\ e.renaming = d.renaming /\ e.flatten = d.flatten
          /\ e.projection = None /\ e.told = {"expansion"}
      BY <2>4, <2>5 DEF Tell, Dirty, tokens
    <2>7. Charts(e)
      <3>1. MirrorOf(d.entries, d.accounts \cup added) = mirror
        BY MirrorGrows DEF ControllerInv, added, parents, mirror
      <3>2. mirror.all = store.paths
        BY <2>2 DEF mirror, ControllerInv, Charts
      <3>3. mirror.kids = store.children
        <4>1. d.mirror.kids = d.store.children
          BY DEF ControllerInv, Charts
        <4>2. \A q : Children([children |-> d.mirror.kids], q) = Children(d.store, q)
          BY <4>1 DEF Children
        <4> QED  BY <2>1, <2>2, <4>1, <4>2 DEF mirror
      <3>4. DOMAIN store.load \subseteq store.paths
        BY <2>1, <2>2 DEF load, Without, ControllerInv, Charts
      <3> QED  BY <2>6, <3>1, <3>2, <3>3, <3>4 DEF Charts
    <2>8. Typed(e) /\ Cached(e)
      BY <2>2, <2>6 DEF ControllerInv, Typed, Cached
    <2>9. \A q \in DOMAIN store.load :
            q \in DOMAIN d.store.load /\ q # p /\ store.load[q] = d.store.load[q]
      BY <2>1, <2>2 DEF load, Without
    <2>10. ControllerInv(e, flying \ {f})
      BY <2>6, <2>7, <2>8, <2>9, AnswerTaken DEF tokens
    <2>11. Heard(d, e)
      BY <2>6 DEF Heard
    <2> QED  BY <2>10, <2>11 DEF Settles, e
  <1> QED  BY <1>1, <1>2, <1>3

LEMMA FailKeeps ==
    ASSUME NEW flying, NEW d, ControllerInv(d, flying), NEW f \in flying
    PROVE  Settles(d, SettleChildLoadFailure(d, f.path, f.token), f, flying)
  <1> DEFINE p == f.path
             current == p \in DOMAIN d.tokens /\ d.tokens[p] = f.token
             loading == LoadOf(d.store, p) = "loading"
             tokens == Without(d.tokens, p)
             failed == SetLoads(d.store, {p}, "error")
             store == IF loading THEN failed ELSE d.store
             e == Tell([Dirty(d) EXCEPT !.tokens = tokens, !.store = store], {"expansion"})
  <1>1. CASE ~current
    BY <1>1, LateAnswer DEF SettleChildLoadFailure
  <1>2. CASE current
    <2>1. SettleChildLoadFailure(d, p, f.token) = e
      BY <1>2 DEF SettleChildLoadFailure, Dirty, ControllerInv, Typed
    <2>2. /\ DOMAIN failed = StoreFields /\ failed.paths = d.store.paths
          /\ failed.children = d.store.children
          /\ DOMAIN failed.load = DOMAIN d.store.load \cup {p}
          /\ \A q \in DOMAIN failed.load :
               failed.load[q] = IF q = p THEN "error" ELSE d.store.load[q]
      BY LoadsSet DEF ControllerInv, Typed
    <2> HIDE DEF failed
    <2>3. loading <=> p \in DOMAIN d.store.load /\ d.store.load[p] = "loading"
      BY DEF LoadOf
    <2> HIDE DEF loading
    <2>4. /\ DOMAIN store = StoreFields /\ store.paths = d.store.paths
          /\ store.children = d.store.children /\ DOMAIN store.load = DOMAIN d.store.load
          /\ \A q \in DOMAIN store.load :
               store.load[q] = "loading" => d.store.load[q] = "loading" /\ q # p
      BY <2>2, <2>3 DEF ControllerInv, Typed
    <2> HIDE DEF store, tokens
    <2>5. /\ DOMAIN e = Fields /\ e.store = store /\ e.mirror = d.mirror
          /\ e.accounts = d.accounts /\ e.entries = d.entries
          /\ e.selection = d.selection /\ e.anchor = d.anchor /\ e.focus = d.focus
          /\ e.own = d.own /\ e.rolled = d.rolled /\ e.session = d.session
          /\ e.matches = d.matches /\ e.filter = d.filter /\ e.tokens = tokens
          /\ e.counter = d.counter /\ e.renaming = d.renaming /\ e.flatten = d.flatten
          /\ e.projection = None /\ e.told = {"expansion"}
      BY DEF Tell, Dirty, ControllerInv, Typed
    <2> HIDE DEF e
    <2>6. Typed(e) /\ Charts(e) /\ Cached(e)
      BY <2>4, <2>5 DEF ControllerInv, Typed, Charts, Cached
    <2>7. ControllerInv(e, flying \ {f})
      BY <2>4, <2>5, <2>6, AnswerTaken DEF tokens
    <2>8. Heard(d, e)
      BY <2>5 DEF Heard
    <2> QED  BY <2>1, <2>7, <2>8 DEF Settles
  <1> QED  BY <1>1, <1>2

-----------------------------------------------------------------------------
(* Browsing *)

\* The store after groups were opened or closed by a method that tells so.
LEMMA ExpansionKeeps ==
    ASSUME NEW flying, NEW d, ControllerInv(d, flying), NEW store,
           DOMAIN store = StoreFields, store.paths = d.store.paths,
           store.children = d.store.children, store.load = d.store.load,
           NEW e, e = Tell([Dirty(d) EXCEPT !.store = store], {"expansion"})
    PROVE  /\ ControllerInv(e, flying) /\ Keeps(d, e, flying)
           /\ e.counter = d.counter /\ e.store = store /\ e.selection = d.selection
           /\ e.focus = d.focus /\ e.matches = d.matches /\ e.renaming = d.renaming
           /\ e.own = d.own
  <1>1. /\ DOMAIN e = Fields /\ e.store = store /\ e.mirror = d.mirror
        /\ e.accounts = d.accounts /\ e.entries = d.entries /\ e.selection = d.selection
        /\ e.anchor = d.anchor /\ e.focus = d.focus /\ e.own = d.own
        /\ e.rolled = d.rolled /\ e.session = d.session /\ e.matches = d.matches
        /\ e.filter = d.filter /\ e.tokens = d.tokens /\ e.counter = d.counter
        /\ e.renaming = d.renaming /\ e.flatten = d.flatten /\ e.projection = None
        /\ e.told = {"expansion"}
    BY DEF Tell, Dirty, ControllerInv, Typed
  <1>2. ControllerInv(e, Fetched(d, e, flying))
    BY <1>1, RowsDropped DEF ControllerInv, Typed
  <1> QED  BY <1>1, <1>2 DEF Keeps, Heard, Fetched

LEMMA SetExpandedKeeps ==
    ASSUME NEW flying, NEW d, ControllerInv(d, flying), NEW p, NEW on
    PROVE  Keeps(d, SetExpanded(d, p, on), flying)
  <1> DEFINE store == SetExpansion(d.store, {p}, IF on THEN {p} ELSE {})
             opened == Tell([Dirty(d) EXCEPT !.store = store], {"expansion"})
             asked == RequestChildLoad(opened, p)
  <1>1. /\ DOMAIN store = StoreFields /\ store.paths = d.store.paths
        /\ store.children = d.store.children /\ store.load = d.store.load
    BY StoreKept DEF ControllerInv, Typed
  <1>2. Dirty(d).store = d.store
    BY DEF Dirty, ControllerInv, Typed
  <1>3. SetExpanded(d, p, on) =
          IF IsExpanded(d.store, p) = on THEN Tell(d, {})
          ELSE IF on /\ LoadOf(opened.store, p) = "unloaded" THEN asked ELSE opened
    BY <1>2 DEF SetExpanded
  <1> HIDE DEF store
  <1>4. /\ ControllerInv(opened, flying) /\ Keeps(d, opened, flying)
        /\ opened.counter = d.counter /\ opened.selection = d.selection
        /\ opened.focus = d.focus /\ opened.matches = d.matches
        /\ opened.renaming = d.renaming /\ opened.own = d.own
    BY <1>1, ExpansionKeeps
  <1> HIDE DEF opened
  <1>5. CASE LoadOf(opened.store, p) = "unloaded"
    <2>1. /\ ControllerInv(asked, Fetched(opened, asked, flying))
          /\ asked.selection = d.selection /\ asked.focus = d.focus
          /\ asked.matches = d.matches /\ asked.renaming = d.renaming
          /\ asked.own = d.own /\ asked.told = {"expansion"}
      BY <1>4, <1>5, RequestMade
    <2>2. Fetched(opened, asked, flying) = Fetched(d, asked, flying)
      BY <1>4 DEF Fetched
    <2>3. Keeps(d, asked, flying)
      BY <2>1, <2>2 DEF Keeps, Heard
    <2> QED  BY <1>3, <1>4, <2>3, TellNothing
  <1> QED  BY <1>3, <1>4, <1>5, TellNothing

LEMMA ExpandAllKeeps ==
    ASSUME NEW flying, NEW d, ControllerInv(d, flying)
    PROVE  Keeps(d, ExpandAll(d), flying)
  <1> DEFINE known == {p \in d.store.paths : Children(d.store, p) # {}}
             store == [d.store EXCEPT !.expanded = @ \cup known]
  <1> HIDE DEF known
  <1>1. /\ DOMAIN store = StoreFields /\ store.paths = d.store.paths
        /\ store.children = d.store.children /\ store.load = d.store.load
    BY DEF ControllerInv, Typed
  <1>2. DOMAIN Dirty(d) = Fields /\ Dirty(d).store = d.store
    BY DEF Dirty, ControllerInv, Typed
  <1>3. ExpandAll(d) = Tell([Dirty(d) EXCEPT !.store = store], {"expansion"})
    BY <1>2 DEF ExpandAll, known
  <1> HIDE DEF store
  <1> QED  BY <1>1, <1>3, ExpansionKeeps

LEMMA CollapseAllKeeps ==
    ASSUME NEW flying, NEW d, ControllerInv(d, flying)
    PROVE  Keeps(d, CollapseAll(d), flying)
  <1> DEFINE store == [d.store EXCEPT !.expanded = {}]
  <1>1. /\ DOMAIN store = StoreFields /\ store.paths = d.store.paths
        /\ store.children = d.store.children /\ store.load = d.store.load
    BY DEF ControllerInv, Typed
  <1>2. DOMAIN Dirty(d) = Fields /\ Dirty(d).store = d.store
    BY DEF Dirty, ControllerInv, Typed
  <1>3. CollapseAll(d) = Tell([Dirty(d) EXCEPT !.store = store], {"expansion"})
    BY <1>2 DEF CollapseAll
  <1> HIDE DEF store
  <1> QED  BY <1>1, <1>3, ExpansionKeeps

LEMMA RevealPathKeeps ==
    ASSUME NEW flying, NEW d, ControllerInv(d, flying), NEW p
    PROVE  Keeps(d, RevealPath(d, p), flying)
  <1> DEFINE closed == {q \in Lineage(p) \ {p} : ~IsExpanded(d.store, q)}
             store == SetExpansion(d.store, closed, closed)
             e == Tell([Dirty(d) EXCEPT !.store = store], {"expansion"})
  <1>1. RevealPath(d, p) = IF closed = {} THEN Tell(d, {}) ELSE e
    BY DEF RevealPath, Dirty, ControllerInv, Typed
  <1> HIDE DEF closed
  <1>2. /\ DOMAIN store = StoreFields /\ store.paths = d.store.paths
        /\ store.children = d.store.children /\ store.load = d.store.load
    BY StoreKept DEF ControllerInv, Typed
  <1> HIDE DEF store
  <1>3. Keeps(d, e, flying)
    BY <1>2, ExpansionKeeps
  <1> QED  BY <1>1, <1>3, TellNothing

-----------------------------------------------------------------------------
(* Search *)

LEMMA BeginSearchKeeps ==
    ASSUME NEW flying, NEW d, ControllerInv(d, flying), NEW query, NEW mode
    PROVE  Keeps(d, BeginSearch(d, query, mode), flying)
  <1> DEFINE e == BeginSearch(d, query, mode)
             session == IF d.session # None
                        THEN [d.session EXCEPT !.query = query,
                                               !.mode = IF mode = None THEN @ ELSE mode]
                        ELSE [query |-> query,
                              mode |-> IF mode = None THEN "expand-matches" ELSE mode,
                              prior |-> SnapshotExpandedGroups(d)]
             matches == {p \in d.mirror.all : \E i \in DOMAIN p : p[i] \in query}
             above == Ancestors(matches)
             gentle == session.mode = "expand-matches"
             shown == CASE matches # {} /\ gentle -> SetExpansion(d.store, above, above)
                        [] matches # {} /\ ~gentle -> SetExpansion(d.store, d.mirror.groups, above)
                        [] matches = {} /\ gentle -> d.store
                        [] OTHER -> SetExpansion(d.store, d.mirror.groups, session.prior)
             filter == IF session.mode = "hide-non-matches" /\ matches # {}
                       THEN matches \cup above ELSE None
  <1>1. e = Tell([Dirty(d) EXCEPT !.session = session, !.matches = matches, !.store = shown,
                                  !.filter = filter],
                 {"expansion", "search"})
    BY DEF BeginSearch
  <1> HIDE DEF session, matches, above, filter, e
  <1>2. /\ DOMAIN shown = StoreFields /\ shown.paths = d.store.paths
        /\ shown.children = d.store.children /\ shown.load = d.store.load
    BY StoreKept DEF ControllerInv, Typed
  <1> HIDE DEF shown
  <1>3. /\ DOMAIN e = Fields /\ e.store = shown /\ e.mirror = d.mirror
        /\ e.accounts = d.accounts /\ e.entries = d.entries /\ e.selection = d.selection
        /\ e.anchor = d.anchor /\ e.focus = d.focus /\ e.own = d.own
        /\ e.rolled = d.rolled /\ e.session = session /\ e.matches = matches
        /\ e.filter = filter /\ e.tokens = d.tokens /\ e.counter = d.counter
        /\ e.renaming = d.renaming /\ e.flatten = d.flatten /\ e.projection = None
        /\ e.told = {"expansion", "search"}
    BY <1>1 DEF Tell, Dirty, ControllerInv, Typed
  <1>4. ControllerInv(e, Fetched(d, e, flying))
    BY <1>2, <1>3, RowsDropped DEF ControllerInv, Typed
  <1>5. Heard(d, e)
    BY <1>3 DEF Heard
  <1> QED  BY <1>4, <1>5 DEF Keeps, e

LEMMA EndSearchKeeps ==
    ASSUME NEW flying, NEW d, ControllerInv(d, flying)
    PROVE  Keeps(d, EndSearch(d), flying)
  <1> DEFINE shown == SetExpansion(d.store, d.mirror.groups, d.session.prior)
             e == Tell([Dirty(d) EXCEPT !.session = None, !.matches = {}, !.filter = None,
                                        !.store = shown],
                       {"expansion", "search"})
  <1>1. EndSearch(d) = IF d.session = None THEN Tell(d, {}) ELSE e
    BY DEF EndSearch, Dirty, ControllerInv, Typed
  <1>2. /\ DOMAIN shown = StoreFields /\ shown.paths = d.store.paths
        /\ shown.children = d.store.children /\ shown.load = d.store.load
    BY StoreKept DEF ControllerInv, Typed
  <1> HIDE DEF shown
  <1>3. /\ DOMAIN e = Fields /\ e.store = shown /\ e.mirror = d.mirror
        /\ e.accounts = d.accounts /\ e.entries = d.entries /\ e.selection = d.selection
        /\ e.anchor = d.anchor /\ e.focus = d.focus /\ e.own = d.own
        /\ e.rolled = d.rolled /\ e.session = None /\ e.matches = {} /\ e.filter = None
        /\ e.tokens = d.tokens /\ e.counter = d.counter /\ e.renaming = d.renaming
        /\ e.flatten = d.flatten /\ e.projection = None
        /\ e.told = {"expansion", "search"}
    BY DEF Tell, Dirty, ControllerInv, Typed
  <1> HIDE DEF e
  <1>4. ControllerInv(e, Fetched(d, e, flying))
    BY <1>2, <1>3, RowsDropped DEF ControllerInv, Typed
  <1>5. Keeps(d, e, flying)
    BY <1>3, <1>4 DEF Keeps, Heard
  <1> QED  BY <1>1, <1>5, TellNothing

-----------------------------------------------------------------------------
(* Selection and focus *)

\* A method that looks at the rows leaves them computed.
LEMMA ReadIs ==
    ASSUME NEW flying, NEW d, ControllerInv(d, flying)
    PROVE  LET seen == Read(d)
           IN  /\ DOMAIN seen = Fields /\ seen.store = d.store /\ seen.mirror = d.mirror
               /\ seen.accounts = d.accounts /\ seen.entries = d.entries
               /\ seen.selection = d.selection /\ seen.anchor = d.anchor
               /\ seen.focus = d.focus /\ seen.own = d.own /\ seen.rolled = d.rolled
               /\ seen.session = d.session /\ seen.matches = d.matches
               /\ seen.filter = d.filter /\ seen.tokens = d.tokens
               /\ seen.counter = d.counter /\ seen.renaming = d.renaming
               /\ seen.flatten = d.flatten /\ seen.told = d.told
               /\ seen.projection \in {d.projection, ProjectionOf(d)}
  BY DEF Read, Rows, ControllerInv, Typed

LEMMA ReadKeeps ==
    ASSUME NEW flying, NEW d, ControllerInv(d, flying)
    PROVE  /\ ControllerInv(Read(d), flying)
           /\ ProjectionOf(Read(d)) = ProjectionOf(d)
  <1> DEFINE e == Read(d)
  <1>1. /\ DOMAIN e = Fields /\ e.store = d.store /\ e.mirror = d.mirror
        /\ e.accounts = d.accounts /\ e.entries = d.entries /\ e.selection = d.selection
        /\ e.anchor = d.anchor /\ e.focus = d.focus /\ e.own = d.own
        /\ e.rolled = d.rolled /\ e.session = d.session /\ e.matches = d.matches
        /\ e.filter = d.filter /\ e.tokens = d.tokens /\ e.counter = d.counter
        /\ e.renaming = d.renaming /\ e.flatten = d.flatten /\ e.told = d.told
        /\ e.projection \in {d.projection, ProjectionOf(d)}
    BY ReadIs
  <1> HIDE DEF e
  <1>2. ControllerInv(e, Fetched(d, e, flying)) /\ ProjectionOf(e) = ProjectionOf(d)
    BY <1>1, CalmKeeps DEF ControllerInv, Typed
  <1> QED  BY <1>1, <1>2 DEF Fetched, e

\* The controller d after e has looked at its rows, with another focus, anchor or
\* selection of which the listeners are told.
LEMMA SeenKeeps ==
    ASSUME NEW flying, NEW d, ControllerInv(d, flying), NEW selection, NEW focus, NEW anchor,
           NEW told, d.selection # selection => "selection" \in told,
           d.focus # focus => "focus" \in told,
           NEW base, base \in {d, Read(d)},
           NEW e, e = Tell([base EXCEPT !.selection = selection, !.focus = focus,
                                        !.anchor = anchor], told)
    PROVE  Keeps(d, e, flying)
  <1>1. /\ DOMAIN base = Fields /\ base.store = d.store /\ base.mirror = d.mirror
        /\ base.accounts = d.accounts /\ base.entries = d.entries
        /\ base.selection = d.selection /\ base.anchor = d.anchor
        /\ base.focus = d.focus /\ base.own = d.own /\ base.rolled = d.rolled
        /\ base.session = d.session /\ base.matches = d.matches
        /\ base.filter = d.filter /\ base.tokens = d.tokens /\ base.counter = d.counter
        /\ base.renaming = d.renaming /\ base.flatten = d.flatten /\ base.told = d.told
        /\ base.projection \in {d.projection, ProjectionOf(d)}
    BY ReadIs DEF ControllerInv, Typed
  <1>2. /\ DOMAIN e = Fields /\ e.store = d.store /\ e.mirror = d.mirror
        /\ e.accounts = d.accounts /\ e.entries = d.entries /\ e.selection = selection
        /\ e.anchor = anchor /\ e.focus = focus /\ e.own = d.own /\ e.rolled = d.rolled
        /\ e.session = d.session /\ e.matches = d.matches /\ e.filter = d.filter
        /\ e.tokens = d.tokens /\ e.counter = d.counter /\ e.renaming = d.renaming
        /\ e.flatten = d.flatten /\ e.projection = base.projection /\ e.told = told
    BY <1>1 DEF Tell
  <1>3. ControllerInv(e, Fetched(d, e, flying)) /\ ProjectionOf(e) = ProjectionOf(d)
    BY <1>1, <1>2, CalmKeeps DEF ControllerInv, Typed
  <1> QED  BY <1>2, <1>3 DEF Keeps, Heard

LEMMA SetFocusedPathKeeps ==
    ASSUME NEW flying, NEW d, ControllerInv(d, flying), NEW p
    PROVE  Keeps(d, SetFocusedPath(d, p), flying)
  <1> DEFINE e == Tell([d EXCEPT !.focus = p], {"focus"})
             f == Tell([d EXCEPT !.selection = d.selection, !.focus = p,
                                 !.anchor = d.anchor], {"focus"})
  <1>1. e = f
    BY DEF ControllerInv, Typed
  <1>2. Keeps(d, f, flying)
    BY SeenKeeps
  <1> QED  BY <1>1, <1>2, TellNothing DEF SetFocusedPath

\* Whatever row is found, focus moves there.
LEMMA FocusRowKeeps ==
    ASSUME NEW flying, NEW d, ControllerInv(d, flying), NEW i
    PROVE  Keeps(d, FocusRow(Read(d), i), flying)
  <1> DEFINE seen == Read(d)
             e == FocusRow(seen, i)
  <1>1. ControllerInv(seen, flying) /\ ProjectionOf(seen) = ProjectionOf(d)
    BY ReadKeeps
  <1>2. /\ DOMAIN seen = Fields /\ seen.store = d.store /\ seen.mirror = d.mirror
        /\ seen.accounts = d.accounts /\ seen.entries = d.entries
        /\ seen.selection = d.selection /\ seen.anchor = d.anchor
        /\ seen.focus = d.focus /\ seen.own = d.own /\ seen.rolled = d.rolled
        /\ seen.session = d.session /\ seen.matches = d.matches
        /\ seen.filter = d.filter /\ seen.tokens = d.tokens /\ seen.counter = d.counter
        /\ seen.renaming = d.renaming /\ seen.flatten = d.flatten /\ seen.told = d.told
    BY ReadIs
  <1> HIDE DEF seen
  <1>3. Keeps(seen, e, flying)
    BY <1>1, SetFocusedPathKeeps, TellNothing DEF FocusRow
  <1> HIDE DEF e
  <1>4. Fetched(seen, e, flying) = Fetched(d, e, flying)
    BY <1>2 DEF Fetched
  <1>5. Heard(d, e)
    BY <1>1, <1>2, <1>3 DEF Keeps, Heard
  <1> QED  BY <1>3, <1>4, <1>5 DEF Keeps, e, seen

LEMMA MoveFocusFinds ==
    ASSUME NEW d, NEW delta
    PROVE  \E i : MoveFocus(d, delta) = FocusRow(Read(d), i)
  BY DEF MoveFocus, FocusFound, Then

LEMMA FocusIndexFinds ==
    ASSUME NEW d, NEW at
    PROVE  \E i : FocusIndex(d, at) = FocusRow(Read(d), i)
  BY DEF FocusIndex, FocusFound, Then

LEMMA TypeAheadFinds ==
    ASSUME NEW d, NEW leaves
    PROVE  \E i : TypeAhead(d, leaves) = FocusRow(Read(d), i)
  BY DEF TypeAhead, FocusFound, Then

LEMMA FocusMatchFinds ==
    ASSUME NEW d, NEW forward, d.session # None, d.matches # {}
    PROVE  \E i : FocusMatch(d, forward) = FocusRow(Read(d), i)
  BY DEF FocusMatch, FocusFound, Then

LEMMA FocusKeeps ==
    ASSUME NEW flying, NEW d, ControllerInv(d, flying)
    PROVE  /\ \A delta : Keeps(d, MoveFocus(d, delta), flying)
           /\ \A at : Keeps(d, FocusIndex(d, at), flying)
           /\ \A leaves : Keeps(d, TypeAhead(d, leaves), flying)
           /\ \A forward : Keeps(d, FocusMatch(d, forward), flying)
  <1>1. \A delta : Keeps(d, MoveFocus(d, delta), flying)
    BY MoveFocusFinds, FocusRowKeeps
  <1>2. \A at : Keeps(d, FocusIndex(d, at), flying)
    BY FocusIndexFinds, FocusRowKeeps
  <1>3. \A leaves : Keeps(d, TypeAhead(d, leaves), flying)
    BY TypeAheadFinds, FocusRowKeeps
  <1>4. ASSUME NEW forward PROVE Keeps(d, FocusMatch(d, forward), flying)
    <2>1. CASE d.session = None \/ d.matches = {}
      BY <2>1, TellNothing DEF FocusMatch
    <2>2. CASE d.session # None /\ d.matches # {}
      BY <2>2, FocusMatchFinds, FocusRowKeeps
    <2> QED  BY <2>1, <2>2
  <1> QED  BY <1>1, <1>2, <1>3, <1>4

LEMMA SelectFinds ==
    ASSUME NEW d, NEW p, p \in d.store.paths, NEW additive, NEW range
    PROVE  \E selection, anchor :
             SelectPath(d, p, additive, range) =
               Tell([Read(d) EXCEPT !.selection = selection, !.focus = p, !.anchor = anchor],
                    (IF selection = d.selection THEN {} ELSE {"selection"})
                      \cup (IF d.focus = p THEN {} ELSE {"focus"}))
  BY DEF SelectPath, Then

LEMMA SelectPathKeeps ==
    ASSUME NEW flying, NEW d, ControllerInv(d, flying), NEW p, NEW additive, NEW range
    PROVE  Keeps(d, SelectPath(d, p, additive, range), flying)
  <1>1. CASE p \notin d.store.paths
    BY <1>1, TellNothing DEF SelectPath
  <1>2. CASE p \in d.store.paths
    <2> DEFINE told(selection) == (IF selection = d.selection THEN {} ELSE {"selection"})
                                    \cup (IF d.focus = p THEN {} ELSE {"focus"})
    <2>1. PICK selection, anchor :
            SelectPath(d, p, additive, range) =
              Tell([Read(d) EXCEPT !.selection = selection, !.focus = p, !.anchor = anchor],
                   told(selection))
      BY <1>2, SelectFinds
    <2>2. /\ d.selection # selection => "selection" \in told(selection)
          /\ d.focus # p => "focus" \in told(selection)
      OBVIOUS
    <2> HIDE DEF told
    <2> QED  BY <2>1, <2>2, SeenKeeps
  <1> QED  BY <1>1, <1>2

LEMMA ClearSelectionKeeps ==
    ASSUME NEW flying, NEW d, ControllerInv(d, flying)
    PROVE  Keeps(d, ClearSelection(d), flying)
  <1> DEFINE e == Tell([d EXCEPT !.selection = {}, !.anchor = None], {"selection"})
             f == Tell([d EXCEPT !.selection = {}, !.focus = d.focus, !.anchor = None],
                       {"selection"})
  <1>1. e = f
    BY DEF ControllerInv, Typed
  <1>2. Keeps(d, f, flying)
    BY SeenKeeps
  <1> QED  BY <1>1, <1>2, TellNothing DEF ClearSelection

-----------------------------------------------------------------------------
(* Renames and moves *)

\* The controller with another rename session, of which the listeners are told.
LEMMA RenamingKeeps ==
    ASSUME NEW flying, NEW d, ControllerInv(d, flying), NEW renaming,
           NEW told, d.renaming # renaming => "rename" \in told,
           NEW e, e = Tell([d EXCEPT !.renaming = renaming], told)
    PROVE  Keeps(d, e, flying)
  <1>1. /\ DOMAIN e = Fields /\ e.store = d.store /\ e.mirror = d.mirror
        /\ e.accounts = d.accounts /\ e.entries = d.entries /\ e.selection = d.selection
        /\ e.anchor = d.anchor /\ e.focus = d.focus /\ e.own = d.own
        /\ e.rolled = d.rolled /\ e.session = d.session /\ e.matches = d.matches
        /\ e.filter = d.filter /\ e.tokens = d.tokens /\ e.counter = d.counter
        /\ e.renaming = renaming /\ e.flatten = d.flatten /\ e.projection = d.projection
        /\ e.told = told
    BY DEF Tell, ControllerInv, Typed
  <1>2. ControllerInv(e, Fetched(d, e, flying)) /\ ProjectionOf(e) = ProjectionOf(d)
    BY <1>1, CalmKeeps DEF ControllerInv, Typed
  <1> QED  BY <1>1, <1>2 DEF Keeps, Heard

\* Decorations change only if there are some.
LEMMA NothingToRemap ==
    ASSUME NEW own, IsFcn(own), NEW moves, NEW removed
    PROVE  LET remapped == RemappedStatus(own, moves, removed)
           IN  IsFcn(remapped) /\ (DOMAIN own = {} => remapped = own)
  BY DEF RemappedStatus, IsFcn

LEMMA ApplyRemapKeeps ==
    ASSUME NEW flying, NEW d, ControllerInv(d, flying), NEW moves, NEW removed, NEW renamed
    PROVE  LET e == ApplyRemap(d, moves, removed, renamed)
           IN  Keeps(d, e, flying) /\ renamed \subseteq e.told
  <1> DEFINE e == ApplyRemap(d, moves, removed, renamed)
             new(p) == RemapThrough(moves, p)
             follow(p) == IF p = None \/ IsRemoved(removed, p) THEN None ELSE new(p)
             carried(paths) == {new(p) : p \in {q \in paths : ~IsRemoved(removed, q)}}
             entries == {[x EXCEPT !.accounts = {new(p) : p \in @}] :
                           x \in {x \in d.entries :
                                     \A p \in x.accounts : ~IsRemoved(removed, p)}}
             accounts == carried(d.accounts)
             collapsed == carried({p \in d.mirror.groups : ~IsExpanded(d.store, p)})
             built == Built(entries, accounts)
             fresh == SetExpansion(built, collapsed, {})
             where == [p \in d.mirror.all |-> follow(p)]
             moved == CarryLoads(d, fresh, where)
             own == RemappedStatus(d.own, moves, removed)
             rolled == RolledUp(fresh, own)
             matches == carried(d.matches)
             session == IF d.session = None THEN None
                        ELSE [d.session EXCEPT !.prior = carried(@)]
             found == IF d.session = None THEN d.matches ELSE matches
             filter == IF d.filter = None THEN None ELSE matches \cup Ancestors(matches)
             facets == {"expansion"} \cup renamed
               \cup (IF DOMAIN d.own # {} THEN {"status"} ELSE {})
               \cup (IF \E p \in d.selection : IsRemoved(removed, p) \/ new(p) # p
                     THEN {"selection"} ELSE {})
               \cup (IF follow(d.focus) = d.focus THEN {} ELSE {"focus"})
               \cup (IF d.renaming # None /\ follow(d.renaming) = None THEN {"rename"} ELSE {})
               \cup (IF d.session = None THEN {} ELSE {"search"})
             mirror == MirrorOf(entries, accounts)
             selection == carried(d.selection)
  <1>1. /\ DOMAIN built = StoreFields /\ built.paths = mirror.all
        /\ built.children = mirror.kids
    BY BuiltIs
  <1> HIDE DEF built
  <1>2. /\ DOMAIN fresh = StoreFields /\ fresh.paths = mirror.all
        /\ fresh.children = mirror.kids
    BY <1>1, StoreKept
  <1> HIDE DEF fresh, where
  <1>3. /\ DOMAIN moved.store = StoreFields
        /\ moved.store.paths = fresh.paths /\ moved.store.children = fresh.children
        /\ DOMAIN moved.tokens \subseteq DOMAIN d.tokens
        /\ \A p \in DOMAIN moved.tokens : moved.tokens[p] = d.tokens[p]
        /\ DOMAIN moved.store.load \subseteq fresh.paths
        /\ \A p \in DOMAIN moved.store.load :
             moved.store.load[p] = "loading" =>
               /\ p \in DOMAIN d.store.load /\ d.store.load[p] = "loading"
               /\ p \in DOMAIN moved.tokens
    BY <1>2, Carried
  <1>4. e = Tell([Dirty(d) EXCEPT
                    !.entries = entries, !.accounts = accounts, !.mirror = mirror,
                    !.store = moved.store, !.tokens = moved.tokens,
                    !.selection = carried(@), !.anchor = follow(@), !.focus = follow(@),
                    !.renaming = follow(@), !.own = own, !.rolled = rolled,
                    !.session = session,
                    !.matches = IF d.session = None THEN @ ELSE matches,
                    !.filter = IF @ = None THEN None ELSE matches \cup Ancestors(matches)],
                 facets)
    BY DEF ApplyRemap, fresh, built, where
  <1> HIDE DEF e, moved, entries, accounts, mirror, own, rolled, matches, facets
  <1>5. /\ DOMAIN e = Fields /\ e.store = moved.store /\ e.mirror = mirror
        /\ e.accounts = accounts /\ e.entries = entries /\ e.selection = selection
        /\ e.focus = follow(d.focus) /\ e.own = own /\ e.matches = found
        /\ e.tokens = moved.tokens /\ e.counter = d.counter
        /\ e.renaming = follow(d.renaming) /\ e.projection = None /\ e.told = facets
    BY <1>4 DEF Tell, Dirty, ControllerInv, Typed
  <1>6. IsFcn(own) /\ (DOMAIN d.own = {} => own = d.own)
    BY NothingToRemap DEF ControllerInv, Typed, own
  <1>7. Typed(e) /\ Charts(e)
    BY <1>2, <1>3, <1>5, <1>6 DEF Typed, Charts, mirror
  <1>8. ControllerInv(e, Fetched(d, e, flying))
    BY <1>3, <1>5, <1>7, DirtyKeeps
  <1>9. Heard(d, e)
    <2>1. (\A p \in d.selection : ~(IsRemoved(removed, p) \/ new(p) # p))
            => selection = d.selection
      OBVIOUS
    <2>2. /\ selection # d.selection => "selection" \in facets
          /\ follow(d.focus) # d.focus => "focus" \in facets
          /\ d.renaming # follow(d.renaming) /\ None \in {d.renaming, follow(d.renaming)}
               => "rename" \in facets
          /\ found # d.matches => "search" \in facets
          /\ DOMAIN d.own # {} => "status" \in facets
          /\ "expansion" \in facets
      BY <2>1 DEF facets
    <2> QED  BY <1>5, <1>6, <2>2 DEF Heard
  <1>10. renamed \subseteq e.told
    BY <1>5 DEF facets
  <1> QED  BY <1>8, <1>9, <1>10 DEF Keeps, e

LEMMA CommitRenameKeeps ==
    ASSUME NEW flying, NEW d, ControllerInv(d, flying), NEW p, NEW leaf
    PROVE  Keeps(d, CommitRename(d, p, leaf), flying)
  <1> DEFINE to == Append(Parent(p), leaf)
             ends == d.renaming = p
             closed == IF ends THEN [d EXCEPT !.renaming = None] ELSE d
             facet == IF ends THEN {"rename"} ELSE {}
             moves == <<[from |-> p, to |-> to]>>
             e == ApplyRemap(closed, moves, {}, facet)
  <1>1. CommitRename(d, p, leaf) \in {Tell(d, {}), Tell(closed, facet), e}
    BY DEF CommitRename
  <1>2. Keeps(d, Tell(closed, facet), flying)
    <2>1. CASE ends
      BY <2>1, RenamingKeeps
    <2>2. CASE ~ends
      BY <2>2, TellNothing
    <2> QED  BY <2>1, <2>2
  <1>3. Keeps(d, e, flying)
    <2>1. CASE ends
      <3> DEFINE quiet == Tell(closed, facet)
      <3>1. /\ DOMAIN closed = Fields /\ closed.store = d.store
            /\ closed.mirror = d.mirror /\ closed.accounts = d.accounts
            /\ closed.entries = d.entries /\ closed.selection = d.selection
            /\ closed.anchor = d.anchor /\ closed.focus = d.focus /\ closed.own = d.own
            /\ closed.rolled = d.rolled /\ closed.session = d.session
            /\ closed.matches = d.matches /\ closed.filter = d.filter
            /\ closed.tokens = d.tokens /\ closed.counter = d.counter
            /\ closed.renaming = None /\ closed.flatten = d.flatten
            /\ closed.projection = d.projection /\ closed.told = d.told
        BY <2>1 DEF ControllerInv, Typed
      <3> HIDE DEF closed, moves
      <3>2. /\ ControllerInv(closed, Fetched(d, closed, flying))
            /\ ProjectionOf(closed) = ProjectionOf(d)
        BY <3>1, CalmKeeps DEF ControllerInv, Typed
      <3>3. Fetched(d, closed, flying) = flying /\ Fetched(closed, e, flying) = Fetched(d, e, flying)
        BY <3>1 DEF Fetched
      <3>4. Keeps(closed, e, flying) /\ facet \subseteq e.told
        BY <3>2, <3>3, ApplyRemapKeeps
      <3> HIDE DEF e
      <3>5. Heard(d, e)
        BY <2>1, <3>1, <3>2, <3>4 DEF Keeps, Heard
      <3> QED  BY <3>3, <3>4, <3>5 DEF Keeps
    <2>2. CASE ~ends
      BY <2>2, ApplyRemapKeeps
    <2> QED  BY <2>1, <2>2
  <1> QED  BY <1>1, <1>2, <1>3, TellNothing

LEMMA MovePathsKeeps ==
    ASSUME NEW flying, NEW d, ControllerInv(d, flying), NEW drop
    PROVE  Keeps(d, MovePaths(d, drop), flying)
  <1> DEFINE plan == PlanMoves(d, drop.sources, drop.target, drop.collision)
  <1>1. Keeps(d, ApplyRemap(d, plan.moves, plan.replaced, {}), flying)
    BY ApplyRemapKeeps
  <1> HIDE DEF plan
  <1> QED  BY <1>1, TellNothing DEF MovePaths, plan

-----------------------------------------------------------------------------
(* The accounts that are named *)

\* The inputs of a rebuild are finitely many paths.
Inputs(d) == ArePaths(d.accounts) /\ AreEntries(d.entries)


LEMMA EntriesName ==
    ASSUME NEW entries, AreEntries(entries)
    PROVE  ArePaths(UNION {e.accounts : e \in entries})
  <1> DEFINE f == [e \in entries |-> e.accounts]
             T == {f[e] : e \in entries}
  <1>1. f = [e \in entries |-> f[e]] /\ IsFiniteSet(entries)
    BY DEF AreEntries
  <1>2. T = {e.accounts : e \in entries}
    OBVIOUS
  <1>3. \A S \in T : ArePaths(S)
    BY DEF AreEntries
  <1> HIDE DEF f
  <1>4. IsFiniteSet(T)
    BY <1>1, FiniteImage
  <1> HIDE DEF T
  <1>5. IsFiniteSet(UNION T) /\ UNION T \subseteq Seq(Nat)
    BY <1>3, <1>4, FS_UNION DEF ArePaths
  <1> QED  BY <1>2, <1>5 DEF ArePaths

LEMMA NamedArePaths ==
    ASSUME NEW d, Inputs(d)
    PROVE  /\ ArePaths(Named(d)) /\ Named(d) \subseteq Path
           /\ \A p \in Named(d) : IsValidPath(p)
  <1> DEFINE U == d.accounts \cup UNION {e.accounts : e \in d.entries}
  <1>1. ArePaths(UNION {e.accounts : e \in d.entries})
    BY EntriesName DEF Inputs
  <1>2. ArePaths(U)
    BY <1>1, FS_Union DEF ArePaths, Inputs
  <1>3. Named(d) \in SUBSET U /\ \A p \in Named(d) : IsValidPath(p)
    BY DEF Named
  <1> HIDE DEF U
  <1> QED  BY <1>2, <1>3, FS_Subset DEF ArePaths, Path

\* The chart is what is named, with what is above it.
LEMMA ChartIsNamed ==
    ASSUME NEW d, Inputs(d), Charts(d)
    PROVE  /\ d.mirror.all = UNION {Lineage(p) : p \in Named(d)}
           /\ Named(d) \subseteq d.mirror.all
           /\ \A p \in d.mirror.all :
                /\ p \in Path /\ p # Root /\ IsValidPath(p)
                /\ \A q \in Path : q # Root /\ IsPrefix(q, p) => q \in d.mirror.all
  <1> DEFINE all == d.mirror.all
  <1>1. all = UNION {Lineage(p) : p \in Named(d)}
    BY DEF Charts, MirrorOf, Named
  <1>2. \A p \in Named(d) : p \in Path /\ IsValidPath(p) /\ p # Root
    BY NamedArePaths DEF IsValidPath
  <1> HIDE DEF all
  <1>3. Named(d) \subseteq all
    BY <1>1, <1>2, LineageFacts
  <1>4. ASSUME NEW p \in all
        PROVE  /\ p \in Path /\ p # Root /\ IsValidPath(p)
               /\ \A q \in Path : q # Root /\ IsPrefix(q, p) => q \in all
    <2>1. PICK r \in Named(d) : p \in Lineage(r)
      BY <1>1
    <2>2. /\ r \in Path /\ p \in Path /\ p # Root /\ IsValidPath(p) /\ Lineage(p) \subseteq Lineage(r)
      BY <1>2, <2>1, LineageFacts
    <2>3. \A q \in Path : q # Root /\ IsPrefix(q, p) => q \in Lineage(p)
      BY <2>2, LineagePrefix
    <2> QED  BY <1>1, <2>1, <2>2, <2>3
  <1> QED  BY <1>1, <1>3, <1>4 DEF all

-----------------------------------------------------------------------------
(* Moves *)

\* What a rename or a plan asks of the moves it applies to d: each takes an account
\* that is there to a place of its own, and one that is taken is removed with what is
\* below it, which no later move comes from.
Fits(d, moves, removed) ==
    /\ Len(moves) \in Nat \ {0} /\ DOMAIN moves = 1 .. Len(moves)
    /\ \A i \in DOMAIN moves :
         /\ moves[i].from \in d.mirror.all /\ moves[i].from # moves[i].to
         /\ moves[i].to \in Path /\ IsValidPath(moves[i].to)
         /\ moves[i].to \in d.mirror.all => moves[i].to \in removed
    /\ \A i, j \in DOMAIN moves :
         /\ Len(moves[i].to) = Len(moves[j].to)
         /\ ~IsPrefix(moves[i].from, Parent(moves[j].to))
         /\ moves[i].to = moves[j].to => i = j
         /\ i < j /\ moves[i].to \in d.mirror.all => ~IsPrefix(moves[i].to, moves[j].from)

\* A path is moved by one move or stays.
LEMMA ByOneMove ==
    ASSUME NEW moves, Len(moves) \in Nat, DOMAIN moves = 1 .. Len(moves), NEW p
    PROVE  \/ /\ RemapThrough(moves, p) = p
              /\ \A i \in DOMAIN moves : ~IsPrefix(moves[i].from, p)
           \/ \E i \in DOMAIN moves :
                /\ IsPrefix(moves[i].from, p)
                /\ RemapThrough(moves, p) = Remap(moves[i].from, moves[i].to, p)
  <1> DEFINE by == {i \in DOMAIN moves : IsPrefix(moves[i].from, p)}
  <1>1. CASE by = {}
    BY <1>1 DEF RemapThrough
  <1>2. CASE by # {}
    <2>1. by \in SUBSET Nat
      OBVIOUS
    <2>2. \E i \in by : \A j \in by : i <= j
      BY <1>2, <2>1, LeastNat
    <2>3. Min(by) \in by
      BY <2>2 DEF Min
    <2>4. RemapThrough(moves, p) = Remap(moves[Min(by)].from, moves[Min(by)].to, p)
      BY <1>2 DEF RemapThrough
    <2> QED  BY <2>3, <2>4
  <1> QED  BY <1>1, <1>2

\* What is moved is a path, and valid if it was.
LEMMA MovedPath ==
    ASSUME NEW d, Inputs(d), Charts(d), NEW moves, NEW removed, Fits(d, moves, removed),
           NEW p \in Path
    PROVE  /\ RemapThrough(moves, p) \in Path
           /\ IsValidPath(RemapThrough(moves, p)) <=> IsValidPath(p)
  <1> DEFINE q == RemapThrough(moves, p)
  <1>1. Len(moves) \in Nat /\ DOMAIN moves = 1 .. Len(moves)
    BY DEF Fits
  <1>2. CASE q = p
    BY <1>2
  <1>3. ASSUME NEW i \in DOMAIN moves, IsPrefix(moves[i].from, p),
               q = Remap(moves[i].from, moves[i].to, p)
        PROVE  q \in Path /\ (IsValidPath(q) <=> IsValidPath(p))
    <2> DEFINE from == moves[i].from
               to == moves[i].to
    <2>1. from \in Path /\ IsValidPath(from) /\ to \in Path /\ IsValidPath(to)
      BY ChartIsNamed DEF Fits
    <2> HIDE DEF q, from, to
    <2>2. q = Remap(from, to, p) /\ IsPrefix(from, p)
      BY <1>3 DEF from, to
    <2>3. q \in Path /\ IsPrefix(to, q) /\ Remap(to, from, q) = p
      BY <2>1, <2>2, RemapFacts
    <2>4. IsValidPath(p) => IsValidPath(q)
      BY <2>1, <2>2, RemapValid
    <2>5. IsValidPath(q) => IsValidPath(p)
      BY <2>1, <2>3, RemapValid
    <2> QED  BY <2>3, <2>4, <2>5
  <1> QED  BY <1>1, <1>2, <1>3, ByOneMove

\* The accounts that stay, by the names they are given.
RenamedIn(paths, moves, removed) ==
    {RemapThrough(moves, p) : p \in {q \in paths : ~IsRemoved(removed, q)}}

EntriesAfter(entries, moves, removed) ==
    {[e EXCEPT !.accounts = {RemapThrough(moves, p) : p \in @}] :
       e \in {e \in entries : \A p \in e.accounts : ~IsRemoved(removed, p)}}

SessionAfter(session, moves, removed) ==
    IF session = None THEN None
    ELSE [session EXCEPT !.prior = RenamedIn(@, moves, removed)]

Followed(moves, removed, p) ==
    IF p = None \/ IsRemoved(removed, p) THEN None ELSE RemapThrough(moves, p)

\* The chart that is built from what is renamed.
Rebuilt(d, moves, removed) ==
    SetExpansion(Built(EntriesAfter(d.entries, moves, removed),
                       RenamedIn(d.accounts, moves, removed)),
                 RenamedIn({p \in d.mirror.groups : ~IsExpanded(d.store, p)}, moves, removed),
                 {})

\* What a rename or a drop makes e of d.
Remade(d, e, moves, removed, renamed) ==
    LET matches == RenamedIn(d.matches, moves, removed)
        moved == CarryLoads(d, Rebuilt(d, moves, removed),
                            [p \in d.mirror.all |-> Followed(moves, removed, p)])
    IN  /\ e.accounts = RenamedIn(d.accounts, moves, removed)
        /\ e.entries = EntriesAfter(d.entries, moves, removed)
        /\ e.matches = IF d.session = None THEN d.matches ELSE matches
        /\ e.filter = IF d.filter = None THEN None ELSE matches \cup Ancestors(matches)
        /\ e.session = SessionAfter(d.session, moves, removed)
        /\ e.store = moved.store /\ e.tokens = moved.tokens
        /\ e.flatten = d.flatten
        /\ e.told \subseteq {"expansion", "status", "selection", "focus", "rename", "search"}
                             \cup renamed

LEMMA RemapFields ==
    ASSUME NEW d, Typed(d), NEW moves, NEW removed, NEW renamed
    PROVE  Remade(d, ApplyRemap(d, moves, removed, renamed), moves, removed, renamed)
  <1> DEFINE e == ApplyRemap(d, moves, removed, renamed)
             new(p) == RemapThrough(moves, p)
             follow(p) == IF p = None \/ IsRemoved(removed, p) THEN None ELSE new(p)
             carried(paths) == {new(p) : p \in {q \in paths : ~IsRemoved(removed, q)}}
             entries == {[x EXCEPT !.accounts = {new(p) : p \in @}] :
                           x \in {x \in d.entries :
                                    \A p \in x.accounts : ~IsRemoved(removed, p)}}
             accounts == carried(d.accounts)
             collapsed == carried({p \in d.mirror.groups : ~IsExpanded(d.store, p)})
             fresh == SetExpansion(Built(entries, accounts), collapsed, {})
             moved == CarryLoads(d, fresh, [p \in d.mirror.all |-> follow(p)])
             own == RemappedStatus(d.own, moves, removed)
             rolled == RolledUp(fresh, own)
             mirror == MirrorOf(entries, accounts)
             matches == carried(d.matches)
             base == Dirty(d)
             session == IF d.session = None THEN None
                        ELSE [d.session EXCEPT !.prior = carried(@)]
             found == IF d.session = None THEN d.matches ELSE matches
             filter == IF d.filter = None THEN None ELSE matches \cup Ancestors(matches)
             facets == {"expansion"} \cup renamed
               \cup (IF DOMAIN d.own # {} THEN {"status"} ELSE {})
               \cup (IF \E p \in d.selection : IsRemoved(removed, p) \/ new(p) # p
                     THEN {"selection"} ELSE {})
               \cup (IF follow(d.focus) = d.focus THEN {} ELSE {"focus"})
               \cup (IF d.renaming # None /\ follow(d.renaming) = None THEN {"rename"} ELSE {})
               \cup (IF d.session = None THEN {} ELSE {"search"})
  <1>1. e = Tell([base EXCEPT
                    !.entries = entries, !.accounts = accounts, !.mirror = mirror,
                    !.store = moved.store, !.tokens = moved.tokens,
                    !.selection = carried(@), !.anchor = follow(@), !.focus = follow(@),
                    !.renaming = follow(@), !.own = own, !.rolled = rolled,
                    !.session = session,
                    !.matches = IF d.session = None THEN @ ELSE matches,
                    !.filter = IF @ = None THEN None ELSE matches \cup Ancestors(matches)],
                 facets)
    BY DEF ApplyRemap
  <1>2. /\ accounts = RenamedIn(d.accounts, moves, removed)
        /\ matches = RenamedIn(d.matches, moves, removed)
        /\ entries = EntriesAfter(d.entries, moves, removed)
        /\ moved = CarryLoads(d, Rebuilt(d, moves, removed),
                              [p \in d.mirror.all |-> Followed(moves, removed, p)])
    BY DEF RenamedIn, EntriesAfter, Rebuilt, Followed
  <1>3. /\ DOMAIN base = Fields /\ base.session = d.session /\ base.matches = d.matches
        /\ base.filter = d.filter /\ base.flatten = d.flatten
    BY DEF Dirty, Typed
  <1>9. facets \subseteq {"expansion", "status", "selection", "focus", "rename", "search"}
                          \cup renamed
    OBVIOUS
  <1> HIDE DEF e, entries, accounts, mirror, moved, own, rolled, matches, session, facets,
               base
  <1>4. e.entries = entries /\ e.accounts = accounts
    BY <1>1, <1>3 DEF Tell
  <1>5. e.session = session
    BY <1>1, <1>3 DEF Tell
  <1>6. session = SessionAfter(d.session, moves, removed)
    BY DEF session, SessionAfter, RenamedIn
  <1>7. e.matches = found
    BY <1>1, <1>3 DEF Tell
  <1>8. e.filter = filter
    BY <1>1, <1>3 DEF Tell
  <1>10. e.store = moved.store /\ e.tokens = moved.tokens
    BY <1>1, <1>3 DEF Tell
  <1>11. e.flatten = d.flatten /\ e.told = facets
    BY <1>1, <1>3 DEF Tell
  <1> QED  BY <1>2, <1>3, <1>4, <1>5, <1>6, <1>7, <1>8, <1>9, <1>10, <1>11
          DEF e, Remade

\* A rename or a drop gives new names to the accounts it keeps.
LEMMA NamedAfter ==
    ASSUME NEW d, Inputs(d), Charts(d), NEW moves, NEW removed, Fits(d, moves, removed),
           NEW e, e.accounts = RenamedIn(d.accounts, moves, removed),
           e.entries = EntriesAfter(d.entries, moves, removed)
    PROVE  /\ Inputs(e)
           /\ Named(e) \subseteq RenamedIn(Named(d), moves, removed)
           /\ removed = {} => Named(e) = RenamedIn(Named(d), moves, removed)
  <1> DEFINE new(p) == RemapThrough(moves, p)
             stays(p) == ~IsRemoved(removed, p)
             whole == {x \in d.entries : \A p \in x.accounts : stays(p)}
             after(x) == [x EXCEPT !.accounts = {new(p) : p \in @}]
  <1>1. \A p \in Path : new(p) \in Path /\ (IsValidPath(new(p)) <=> IsValidPath(p))
    BY MovedPath
  <1>2. /\ d.accounts \subseteq Path /\ IsFiniteSet(d.accounts) /\ IsFiniteSet(d.entries)
        /\ \A x \in d.entries : /\ "accounts" \in DOMAIN x /\ x.accounts \subseteq Path
                                /\ IsFiniteSet(x.accounts)
    BY DEF Inputs, AreEntries, ArePaths, Path
  <1>3. e.entries = {after(x) : x \in whole}
    BY DEF EntriesAfter
  <1>4. e.accounts = {new(p) : p \in {q \in d.accounts : stays(q)}}
    BY DEF RenamedIn
  <1>5. ASSUME NEW S, IsFiniteSet(S), S \subseteq Path PROVE ArePaths({new(p) : p \in S})
    <2> DEFINE f == [p \in S |-> new(p)]
    <2>1. f = [p \in S |-> f[p]] /\ {f[p] : p \in S} = {new(p) : p \in S}
      OBVIOUS
    <2> HIDE DEF f
    <2>2. IsFiniteSet({f[p] : p \in S})
      BY <1>5, <2>1, FiniteImage
    <2> HIDE DEF new
    <2> QED  BY <1>1, <1>5, <2>1, <2>2 DEF ArePaths, Path
  <1>6. \A x \in whole : /\ x \in d.entries /\ "accounts" \in DOMAIN after(x)
                         /\ after(x).accounts = {new(p) : p \in x.accounts}
    BY <1>2
  <1>7. ArePaths(e.accounts)
    <2>1. {q \in d.accounts : stays(q)} \in SUBSET d.accounts
      OBVIOUS
    <2> HIDE DEF new, stays
    <2> QED  BY <1>2, <1>4, <1>5, <2>1, FS_Subset
  <1>8. AreEntries(e.entries)
    <2> DEFINE f == [x \in whole |-> after(x)]
    <2>1. f = [x \in whole |-> f[x]] /\ {f[x] : x \in whole} = {after(x) : x \in whole}
      OBVIOUS
    <2>2. IsFiniteSet(whole)
      BY <1>2, FS_Subset, whole \in SUBSET d.entries
    <2> HIDE DEF f
    <2>3. IsFiniteSet({f[x] : x \in whole})
      <3> HIDE DEF whole
      <3> QED  BY <2>1, <2>2, FiniteImage
    <2>4. \A x \in whole : ArePaths({new(p) : p \in x.accounts})
      BY <1>2, <1>5, <1>6
    <2> HIDE DEF new, whole, after
    <2> QED  BY <1>3, <1>6, <2>1, <2>3, <2>4 DEF AreEntries
  <1>9. ASSUME NEW q \in Named(e)
        PROVE  \E p \in Named(d) : stays(p) /\ q = new(p)
    <2>1. IsValidPath(q) /\ (q \in e.accounts \/ \E y \in e.entries : q \in y.accounts)
      BY DEF Named
    <2>2. CASE q \in e.accounts
      <3>1. PICK p \in d.accounts : stays(p) /\ q = new(p)
        BY <1>4, <2>2
      <3>2. IsValidPath(p)
        BY <1>1, <1>2, <2>1, <3>1
      <3> QED  BY <3>1, <3>2 DEF Named
    <2>3. CASE \E y \in e.entries : q \in y.accounts
      <3>1. PICK x \in whole : q \in after(x).accounts
        BY <1>3, <2>3
      <3>2. PICK p \in x.accounts : q = new(p)
        BY <1>6, <3>1
      <3>3. x \in d.entries /\ stays(p) /\ p \in Path
        BY <1>2
      <3>4. IsValidPath(p)
        BY <1>1, <2>1, <3>2, <3>3
      <3> QED  BY <3>2, <3>3, <3>4 DEF Named
    <2> QED  BY <2>1, <2>2, <2>3
  <1>10. ASSUME removed = {}, NEW p \in Named(d) PROVE new(p) \in Named(e)
    <2>1. \A q : stays(q)
      BY <1>10 DEF IsRemoved
    <2>2. p \in Path /\ IsValidPath(p) /\ IsValidPath(new(p))
      BY <1>1, NamedArePaths
    <2>3. CASE p \in d.accounts
      BY <1>4, <2>1, <2>2, <2>3 DEF Named
    <2>4. CASE p \notin d.accounts
      <3>1. PICK x \in d.entries : p \in x.accounts
        BY <2>4 DEF Named
      <3>2. x \in whole /\ new(p) \in after(x).accounts
        BY <1>6, <2>1, <3>1
      <3> HIDE DEF after, new
      <3> QED  BY <1>3, <2>2, <3>2 DEF Named
    <2> QED  BY <2>3, <2>4
  <1>11. RenamedIn(Named(d), moves, removed) = {new(p) : p \in {q \in Named(d) : stays(q)}}
    BY DEF RenamedIn
  <1>12. removed = {} => \A q : stays(q)
    BY DEF IsRemoved
  <1> HIDE DEF new, stays
  <1>13. Named(e) \subseteq RenamedIn(Named(d), moves, removed)
    BY <1>9, <1>11
  <1>14. removed = {} => RenamedIn(Named(d), moves, removed) \subseteq Named(e)
    BY <1>10, <1>11, <1>12
  <1> QED  BY <1>7, <1>8, <1>13, <1>14 DEF Inputs

-----------------------------------------------------------------------------
(* Two accounts never become one *)

LEMMA KeptApart ==
    ASSUME NEW d, Inputs(d), Charts(d), NEW moves, Fits(d, moves, {}),
           NEW p \in Named(d), NEW q \in Named(d),
           RemapThrough(moves, p) = RemapThrough(moves, q)
    PROVE  p = q
  <1> DEFINE new(r) == RemapThrough(moves, r)
             from(i) == moves[i].from
             to(i) == moves[i].to
             Stays(r) == new(r) = r /\ \A i \in DOMAIN moves : ~IsPrefix(from(i), r)
             By(i, r) == IsPrefix(from(i), r) /\ new(r) = Remap(from(i), to(i), r)
  <1>1. \A r \in Named(d) :
          r \in Path /\ r \in d.mirror.all /\ (Stays(r) \/ \E i \in DOMAIN moves : By(i, r))
    BY ByOneMove, ChartIsNamed, NamedArePaths DEF Fits
  <1>2. \A i \in DOMAIN moves : from(i) \in Path /\ to(i) \in Path /\ to(i) # Root
                                /\ to(i) \notin d.mirror.all
    BY ChartIsNamed DEF Fits, IsValidPath
  <1>3. \A i, j \in DOMAIN moves : Len(to(i)) = Len(to(j)) /\ (to(i) = to(j) => i = j)
    BY DEF Fits
  <1>4. \A r \in d.mirror.all, s \in Path : s # Root /\ IsPrefix(s, r) => s \in d.mirror.all
    BY ChartIsNamed
  <1> HIDE DEF new, from, to
  <1>5. \A i \in DOMAIN moves, r \in Path :
          By(i, r) => /\ new(r) \in Path /\ IsPrefix(to(i), new(r))
                      /\ Remap(to(i), from(i), new(r)) = r
    BY <1>2, RemapFacts
  <1>6. ASSUME NEW i \in DOMAIN moves, NEW r \in Named(d), NEW s \in Named(d), By(i, r), Stays(s),
               new(r) = new(s)
        PROVE  FALSE
    BY <1>1, <1>2, <1>4, <1>5, <1>6
  <1>7. ASSUME NEW i \in DOMAIN moves, NEW j \in DOMAIN moves, By(i, p), By(j, q) PROVE p = q
    <2>1. new(p) = new(q)
      BY DEF new
    <2>2. IsPrefix(to(i), new(p)) /\ IsPrefix(to(j), new(p)) /\ new(p) \in Path
      BY <1>1, <1>5, <1>7, <2>1
    <2>3. IsPrefix(to(i), to(j))
      <3>1. Len(to(i)) <= Len(to(j)) /\ to(i) \in Path /\ to(j) \in Path
        BY <1>2, <1>3 DEF Path
      <3> QED  BY <2>2, <3>1, PrefixOrder
    <2>4. i = j
      BY <1>2, <1>3, <2>3, PrefixOrder
    <2>5. p = Remap(to(i), from(i), new(p)) /\ q = Remap(to(j), from(j), new(q))
      BY <1>1, <1>5, <1>7
    <2> QED  BY <2>1, <2>4, <2>5
  <1>8. new(p) = new(q)
    BY DEF new
  <1> QED  BY <1>1, <1>6, <1>7, <1>8

\* A rename, or a drop that replaces nothing, keeps the number of the accounts.
LEMMA AsManyNamed ==
    ASSUME NEW d, Inputs(d), Charts(d), NEW moves, Fits(d, moves, {}), NEW e,
           Named(e) = RenamedIn(Named(d), moves, {})
    PROVE  Cardinality(Named(e)) = Cardinality(Named(d))
  <1> DEFINE S == Named(d)
             f == [p \in S |-> RemapThrough(moves, p)]
  <1>1. Named(e) = {f[p] : p \in S}
    BY DEF RenamedIn, IsRemoved
  <1>2. IsFiniteSet(S)
    BY NamedArePaths DEF ArePaths
  <1>3. \A p, q \in S : f[p] = f[q] => p = q
    BY KeptApart
  <1>4. f = [p \in S |-> f[p]]
    OBVIOUS
  <1> HIDE DEF f, S
  <1>5. Cardinality({f[p] : p \in S}) = Cardinality(S)
    BY <1>2, <1>3, <1>4, FiniteImage
  <1> QED  BY <1>1, <1>5 DEF S

\* The last move leaves the place it comes from empty.
LEMMA ChartChanges ==
    ASSUME NEW d, Inputs(d), Charts(d), NEW moves, NEW removed, Fits(d, moves, removed),
           NEW e, Inputs(e), Charts(e), Named(e) \subseteq RenamedIn(Named(d), moves, removed)
    PROVE  e.mirror # d.mirror
  <1> DEFINE k == Len(moves)
             from(i) == moves[i].from
             to(i) == moves[i].to
             new(r) == RemapThrough(moves, r)
  <1>1. /\ k \in DOMAIN moves /\ DOMAIN moves = 1 .. k /\ k \in Nat
        /\ \A i \in DOMAIN moves : i = k \/ i < k
    BY DEF Fits
  <1>2. \A i \in DOMAIN moves :
          /\ from(i) \in Path /\ from(i) # Root /\ from(i) \in d.mirror.all
          /\ to(i) \in Path /\ to(i) # Root
          /\ to(i) \in d.mirror.all => to(i) \in removed
    BY ChartIsNamed DEF Fits, IsValidPath
  <1>3. \A i, j \in DOMAIN moves :
          /\ ~IsPrefix(from(i), Parent(to(j)))
          /\ i < j /\ to(i) \in d.mirror.all => ~IsPrefix(to(i), from(j))
          /\ i = j => from(i) # to(j)
    BY DEF Fits
  <1>4. \A r \in d.mirror.all, s \in Path : s # Root /\ IsPrefix(s, r) => s \in d.mirror.all
    BY ChartIsNamed
  <1> SUFFICES ASSUME from(k) \in e.mirror.all PROVE FALSE
    BY <1>1, <1>2
  <1>5. PICK q \in Named(d) : ~IsRemoved(removed, q) /\ from(k) \in Lineage(new(q))
    BY ChartIsNamed DEF RenamedIn
  <1>6. q \in Path /\ q \in d.mirror.all /\ new(q) \in Path
    BY ChartIsNamed, NamedArePaths, MovedPath
  <1>7. IsPrefix(from(k), new(q))
    BY <1>5, <1>6, LineagePrefix
  <1>8. \/ new(q) = q /\ \A i \in DOMAIN moves : ~IsPrefix(from(i), q)
        \/ \E i \in DOMAIN moves :
             IsPrefix(from(i), q) /\ new(q) = Remap(from(i), to(i), q)
    BY <1>1, ByOneMove
  <1> HIDE DEF new, from, to, k
  <1>9. PICK i \in DOMAIN moves : IsPrefix(from(i), q) /\ new(q) = Remap(from(i), to(i), q)
    BY <1>1, <1>7, <1>8
  <1>10. IsPrefix(to(i), new(q))
    BY <1>2, <1>6, <1>9, RemapFacts
  <1>11. Len(from(k)) \in Nat /\ Len(to(i)) \in Nat
    BY <1>1, <1>2 DEF Path
  <1>12. CASE ~(Len(to(i)) <= Len(from(k)))
    <2>1. IsPrefix(from(k), to(i)) /\ from(k) # to(i)
      BY <1>1, <1>2, <1>6, <1>7, <1>10, <1>11, <1>12, PrefixOrder
    <2>2. IsPrefix(from(k), Parent(to(i)))
      BY <1>1, <1>2, <2>1, ParentPrefix
    <2> QED  BY <1>1, <1>3, <2>2
  <1>13. CASE Len(to(i)) <= Len(from(k))
    <2>1. IsPrefix(to(i), from(k))
      BY <1>1, <1>2, <1>6, <1>7, <1>10, <1>13, PrefixOrder
    <2>2. to(i) \in d.mirror.all /\ to(i) \in removed
      BY <1>1, <1>2, <1>4, <2>1
    <2>3. i = k
      BY <1>1, <1>3, <2>1, <2>2
    <2>4. IsPrefix(to(i), q)
      BY <1>2, <1>6, <1>9, <2>1, <2>3, PrefixOrder
    <2> QED  BY <1>5, <2>2, <2>4 DEF IsRemoved
  <1> QED  BY <1>12, <1>13

-----------------------------------------------------------------------------
(* The moves of a rename and of a drop *)

LEMMA AppendedPath ==
    ASSUME NEW p \in Path, NEW leaf \in Nat
    PROVE  LET to == Append(p, leaf)
           IN  /\ to \in Path /\ Len(to) = Len(p) + 1 /\ to # Root /\ Parent(to) = p
               /\ (p = Root \/ IsValidPath(p)) /\ leaf # 0 => IsValidPath(to)
  <1> DEFINE to == Append(p, leaf)
  <1>1. /\ to \in Path /\ Len(to) = Len(p) + 1 /\ to[Len(p) + 1] = leaf /\ Len(p) \in Nat
        /\ \A i \in 1 .. Len(p) : to[i] = p[i]
    BY DEF Path
  <1> HIDE DEF to
  <1>2. to # Root
    BY <1>1 DEF Root
  <1>3. Parent(to) = p
    BY <1>1, <1>2, ParentType, PathEqual
  <1>4. ASSUME p = Root \/ IsValidPath(p), leaf # 0 PROVE IsValidPath(to)
    <2>1. DOMAIN to = 1 .. Len(p) + 1 /\ DOMAIN p = 1 .. Len(p)
      BY <1>1 DEF Path
    <2>2. \A i \in 1 .. Len(p) : p[i] # 0
      BY <1>4, <2>1 DEF Root, IsValidPath
    <2>3. \A i \in 1 .. Len(p) + 1 : i \in 1 .. Len(p) \/ i = Len(p) + 1
      BY <1>1
    <2> QED  BY <1>1, <1>2, <1>4, <2>1, <2>2, <2>3 DEF IsValidPath
  <1> QED  BY <1>1, <1>2, <1>3, <1>4 DEF to

LEMMA RenameFits ==
    ASSUME NEW d, Inputs(d), Charts(d), NEW p \in d.mirror.all, NEW leaf \in Nat, leaf # 0,
           LET to == Append(Parent(p), leaf) IN to # p /\ to \notin d.mirror.all
    PROVE  Fits(d, <<[from |-> p, to |-> Append(Parent(p), leaf)]>>, {})
  <1> DEFINE to == Append(Parent(p), leaf)
             moves == <<[from |-> p, to |-> to]>>
  <1>1. /\ p \in Path /\ p # Root /\ IsValidPath(p) /\ Parent(p) \in Path
        /\ ~IsPrefix(p, Parent(p))
    BY ChartIsNamed, ParentType, ParentPrefix
  <1>2. Parent(p) = Root \/ IsValidPath(Parent(p))
    <2>1. IsPrefix(Parent(p), p)
      BY <1>1, ParentPrefix
    <2>2. Parent(p) # Root => Parent(p) \in d.mirror.all
      BY <1>1, <2>1, ChartIsNamed
    <2> QED  BY <2>2, ChartIsNamed
  <1>3. to \in Path /\ IsValidPath(to) /\ Parent(to) = Parent(p)
    BY <1>1, <1>2, AppendedPath
  <1>4. to # p /\ to \notin d.mirror.all
    OBVIOUS
  <1> HIDE DEF to
  <1>5. /\ Len(moves) = 1 /\ DOMAIN moves = 1 .. 1
        /\ moves[1].from = p /\ moves[1].to = to
    OBVIOUS
  <1> HIDE DEF moves
  <1>6. \A i \in DOMAIN moves : i = 1
    BY <1>5
  <1>7. Fits(d, moves, {})
    BY <1>1, <1>3, <1>4, <1>5, <1>6 DEF Fits
  <1> QED  BY <1>7 DEF moves, to

\* What a frame of the walk over the inputs r leaves on the stack, and a turn of it.
After(r, h) ==
    IF h.placeholder \/ ~IsExpanded(r.store, h.path) THEN <<>>
    ELSE Placeholder(r, h.path, h.depth + 1) \o Frames(r, h.path, h.depth + 1)

WalkTurn(r, walk) ==
    IF walk.stack = <<>> THEN walk
    ELSE [out |-> Append(walk.out, Head(walk.stack)),
          stack |-> After(r, Head(walk.stack)) \o Tail(walk.stack)]

\* The two loops of a plan, over the sources and over those that are left of them,
\* and the walk that makes the rows.
Started(loop) ==
    IF loop.kind = "walk" THEN [out |-> <<>>, stack |-> Frames(loop.inputs, Root, 0)]
    ELSE IF loop.kind = "sources" THEN <<>>
    ELSE EmptyPlan

Turned(loop, acc, n) ==
    LET p == loop.sources[n]
    IN  IF loop.kind = "walk" THEN WalkTurn(loop.inputs, acc)
        ELSE IF loop.kind = "sources"
        THEN IF \/ Contains(acc, p)
                \/ \E q \in ToSet(loop.sources) : IsStrictPrefix(q, p)
             THEN acc ELSE Append(acc, p)
        ELSE PlanSource(loop.d, loop.target, loop.collision, acc, p)

Looping(loop, n, g) ==
    g = [i \in 0 .. n |-> IF i = 0 THEN Started(loop) ELSE Turned(loop, g[i - 1], i)]

LEMMA LoopExists ==
    ASSUME NEW loop, NEW L \in Nat
    PROVE  \E g : Looping(loop, L, g)
  <1> DEFINE T == {n \in 0 .. L : \E g : Looping(loop, n, g)}
  <1>1. 0 \in T
    <2>1. Looping(loop, 0, [i \in 0 .. 0 |-> Started(loop)])
      BY DEF Looping
    <2> QED  BY <2>1
  <1>2. ASSUME NEW n \in 1 .. L, n - 1 \in T PROVE n \in T
    <2>1. PICK g : Looping(loop, n - 1, g)
      BY <1>2
    <2> DEFINE h == [i \in 0 .. n |-> IF i = n THEN Turned(loop, g[n - 1], n) ELSE g[i]]
               w == [i \in 0 .. n |-> IF i = 0 THEN Started(loop)
                                      ELSE Turned(loop, h[i - 1], i)]
    <2>2. \A i \in 0 .. n - 1 : i \in 0 .. n /\ h[i] = g[i]
      OBVIOUS
    <2>3. n \in 0 .. n /\ h[n] = Turned(loop, g[n - 1], n) /\ n # 0 /\ n - 1 \in 0 .. n - 1
      OBVIOUS
    <2>4. \A i \in 0 .. n - 1 : g[i] = IF i = 0 THEN Started(loop) ELSE Turned(loop, g[i - 1], i)
      BY <2>1 DEF Looping
    <2>5. h = [i \in 0 .. n |-> h[i]]
      OBVIOUS
    <2> HIDE DEF h
    <2>6. ASSUME NEW i \in 0 .. n PROVE h[i] = w[i]
      <3>1. CASE i = n
        BY <2>2, <2>3, <3>1
      <3>2. CASE i # n
        <4>1. i \in 0 .. n - 1 /\ (i # 0 => i - 1 \in 0 .. n - 1)
          BY <3>2
        <4> QED  BY <2>2, <2>4, <4>1
      <3> QED  BY <3>1, <3>2
    <2>7. Looping(loop, n, h)
      BY <2>5, <2>6 DEF Looping
    <2> QED  BY <2>7
  <1> HIDE DEF T
  <1>3. L \in T
    BY <1>1, <1>2, Counting
  <1> QED  BY <1>3 DEF T

LoopOf(loop, L) ==
    LET g[i \in 0 .. L] == IF i = 0 THEN Started(loop) ELSE Turned(loop, g[i - 1], i)
    IN  g

LEMMA LoopIs ==
    ASSUME NEW loop, NEW L \in Nat
    PROVE  /\ LoopOf(loop, L)[0] = Started(loop)
           /\ \A n \in 1 .. L : LoopOf(loop, L)[n] = Turned(loop, LoopOf(loop, L)[n - 1], n)
  <1> DEFINE g == CHOOSE g : Looping(loop, L, g)
  <1>1. Looping(loop, L, g)
    BY LoopExists, Zenon
  <1>2. LoopOf(loop, L) = g
    BY DEF LoopOf, Looping
  <1> HIDE DEF g
  <1> QED  BY <1>1, <1>2 DEF Looping

\* The sources that are left are a list.
LEMMA SourcesListed ==
    ASSUME NEW sources \in Seq(Path)
    PROVE  Len(MoveSources(sources)) \in Nat
  <1> DEFINE loop == [kind |-> "sources", sources |-> sources]
             L == Len(sources)
             run == LoopOf(loop, L)
             T == {n \in 0 .. L : run[n] \in Seq(Path)}
  <1>1. L \in Nat /\ \A n \in 1 .. L : sources[n] \in Path
    OBVIOUS
  <1>2. MoveSources(sources) = run[L]
    BY DEF MoveSources, LoopOf, Started, Turned
  <1>3. /\ run[0] = <<>>
        /\ \A n \in 1 .. L : run[n] \in {run[n - 1], Append(run[n - 1], sources[n])}
    <2>1. loop.kind = "sources" /\ loop.sources = sources
      OBVIOUS
    <2> HIDE DEF loop
    <2>2. /\ run[0] = Started(loop)
          /\ \A n \in 1 .. L : run[n] = Turned(loop, run[n - 1], n)
      BY <1>1, LoopIs
    <2> HIDE DEF run, L
    <2> QED  BY <2>1, <2>2 DEF Started, Turned
  <1> HIDE DEF run, L
  <1>4. 0 \in T
    <2>1. <<>> \in Seq(Path) /\ 0 \in 0 .. L
      BY <1>1
    <2> QED  BY <1>3, <2>1
  <1>5. ASSUME NEW n \in 1 .. L, n - 1 \in T PROVE n \in T
    <2>1. run[n - 1] \in Seq(Path) /\ n \in 0 .. L
      BY <1>1, <1>5
    <2> DEFINE before == run[n - 1]
    <2> HIDE DEF before
    <2>2. before \in Seq(Path) => Append(before, sources[n]) \in Seq(Path)
      BY <1>1
    <2> QED  BY <1>3, <2>1, <2>2 DEF before
  <1> HIDE DEF T
  <1>6. \A n \in 1 .. L : n - 1 \in T => n \in T
    BY <1>5
  <1>7. \A n \in 0 .. L : n \in T
    BY <1>1, <1>4, <1>6, Counting
  <1>8. run[L] \in Seq(Path)
    BY <1>1, <1>7 DEF T
  <1> QED  BY <1>2, <1>8

\* A plan so far.
Planned(d, target, collision, plan) ==
    /\ DOMAIN plan = {"moves", "skipped", "replaced"}
    /\ plan.moves \in Seq([from : Path, to : Path])
    /\ collision # "replace" => plan.replaced = {}
    /\ \A i \in DOMAIN plan.moves :
         LET from == plan.moves[i].from
             to == plan.moves[i].to
         IN  /\ from \in d.mirror.all /\ ~IsPrefix(from, target) /\ Parent(from) # target
             /\ to = Append(target, Last(from))
             /\ to \in d.mirror.all => to \in plan.replaced
    /\ \A i, j \in DOMAIN plan.moves :
         /\ plan.moves[i].to = plan.moves[j].to => i = j
         /\ i < j /\ plan.moves[i].to \in d.mirror.all
              => ~IsPrefix(plan.moves[i].to, plan.moves[j].from)

\* A source that is let through extends the plan.
LEMMA SourcePlanned ==
    ASSUME NEW d, Inputs(d), Charts(d), NEW target \in d.mirror.all, NEW collision,
           NEW plan, Planned(d, target, collision, plan), NEW source
    PROVE  Planned(d, target, collision, PlanSource(d, target, collision, plan, source))
  <1> DEFINE to == Append(target, Last(source))
             move == [from |-> source, to |-> to]
             taken == to \in d.store.paths
             next == PlanSource(d, target, collision, plan, source)
             skipping == [plan EXCEPT !.skipped = Append(@, move)]
             longer == Append(plan.moves, move)
             replaced == IF taken THEN plan.replaced \cup {to} ELSE plan.replaced
             moving == [plan EXCEPT !.moves = Append(@, move),
                                    !.replaced = IF taken THEN @ \cup {to} ELSE @]
             n == Len(plan.moves)
  <1>1. CASE next = plan
    BY <1>1
  <1>2. CASE next = skipping
    <2>1. DOMAIN skipping = DOMAIN plan /\ skipping.moves = plan.moves
          /\ skipping.replaced = plan.replaced
      BY DEF Planned
    <2> HIDE DEF skipping, next
    <2>2. Planned(d, target, collision, skipping)
      BY <2>1 DEF Planned
    <2> QED  BY <1>2, <2>2 DEF next
  <1>3. CASE /\ next = moving
             /\ source \in d.store.paths /\ ~IsPrefix(source, target) /\ Parent(source) # target
             /\ ~IsRemoved(plan.replaced, source)
             /\ to \notin {plan.moves[i].to : i \in DOMAIN plan.moves}
             /\ taken => collision = "replace"
    <2>1. /\ DOMAIN moving = DOMAIN plan /\ moving.moves = longer
          /\ moving.replaced = replaced
      BY DEF Planned
    <2>2. source \in d.mirror.all /\ (taken <=> to \in d.mirror.all)
      BY <1>3 DEF Charts
    <2>3. source \in Path /\ target \in Path /\ source # Root
      BY <2>2, ChartIsNamed
    <2>4. Last(source) \in Nat
      BY <2>3 DEF Last, Path, Root
    <2>5. to \in Path
      BY <2>3, <2>4, AppendedPath
    <2> HIDE DEF moving, next, taken, to
    <2>6. move \in [from : Path, to : Path] /\ move.from = source /\ move.to = to
      BY <2>3, <2>5
    <2> HIDE DEF move
    <2>7. /\ longer \in Seq([from : Path, to : Path]) /\ DOMAIN longer = 1 .. n + 1
          /\ DOMAIN plan.moves = 1 .. n /\ n \in Nat
          /\ longer[n + 1] = move /\ \A i \in 1 .. n : longer[i] = plan.moves[i]
      BY <2>6 DEF Planned
    <2>8. \A i \in 1 .. n + 1 : i \in 1 .. n \/ i = n + 1
      BY <2>7
    <2>9. \A i, j \in 1 .. n + 1 : i < j => i \in 1 .. n
      BY <2>7
    <2>10. plan.replaced \subseteq replaced /\ (taken => to \in replaced)
      OBVIOUS
    <2>11. \A i \in 1 .. n : plan.moves[i].to \in d.mirror.all
                               => ~IsPrefix(plan.moves[i].to, source)
      BY <1>3, <2>7 DEF Planned, IsRemoved
    <2>12. \A i \in 1 .. n : plan.moves[i].to # to
      BY <1>3, <2>7
    <2>13. collision # "replace" => replaced = {}
      BY <1>3 DEF Planned
    <2> HIDE DEF replaced, longer, n
    <2>14. \A i \in 1 .. n + 1 :
             /\ longer[i].from \in d.mirror.all /\ ~IsPrefix(longer[i].from, target)
             /\ Parent(longer[i].from) # target
             /\ longer[i].to = Append(target, Last(longer[i].from))
             /\ longer[i].to \in d.mirror.all => longer[i].to \in replaced
      <3>1. \A i \in 1 .. n :
             /\ longer[i].from \in d.mirror.all /\ ~IsPrefix(longer[i].from, target)
             /\ Parent(longer[i].from) # target
             /\ longer[i].to = Append(target, Last(longer[i].from))
             /\ longer[i].to \in d.mirror.all => longer[i].to \in replaced
        BY <2>7, <2>10 DEF Planned
      <3> QED  BY <1>3, <2>2, <2>6, <2>7, <2>8, <2>10, <3>1 DEF to
    <2>15. \A i, j \in 1 .. n + 1 :
             /\ longer[i].to = longer[j].to => i = j
             /\ i < j /\ longer[i].to \in d.mirror.all => ~IsPrefix(longer[i].to, longer[j].from)
      <3>1. \A i, j \in 1 .. n :
             /\ longer[i].to = longer[j].to => i = j
             /\ i < j /\ longer[i].to \in d.mirror.all => ~IsPrefix(longer[i].to, longer[j].from)
        BY <2>7 DEF Planned
      <3> QED  BY <2>6, <2>7, <2>8, <2>9, <2>11, <2>12, <3>1
    <2>16. Planned(d, target, collision, moving)
      <3> HIDE DEF Planned
      <3>1. DOMAIN plan = {"moves", "skipped", "replaced"}
        BY DEF Planned
      <3> QED  BY <2>1, <2>7, <2>13, <2>14, <2>15, <3>1 DEF Planned
    <2> QED  BY <1>3, <2>16 DEF next
  <1> HIDE DEF to
  <1>4. \/ next = plan \/ next = skipping
        \/ /\ next = moving
           /\ source \in d.store.paths /\ ~IsPrefix(source, target) /\ Parent(source) # target
           /\ ~IsRemoved(plan.replaced, source)
           /\ to \notin {plan.moves[i].to : i \in DOMAIN plan.moves}
           /\ taken => collision = "replace"
    BY DEF PlanSource, to
  <1> HIDE DEF next, skipping, moving, taken
  <1> QED  BY <1>1, <1>2, <1>3, <1>4

LEMMA PlanSoFar ==
    ASSUME NEW d, Inputs(d), Charts(d), NEW target \in d.mirror.all, NEW collision,
           NEW sources, NEW L \in Nat, Len(sources) = L
    PROVE  LET plan[n \in 0 .. Len(sources)] ==
                 IF n = 0 THEN EmptyPlan
                 ELSE PlanSource(d, target, collision, plan[n - 1], sources[n])
           IN  Planned(d, target, collision, plan[Len(sources)])
  <1> DEFINE loop == [kind |-> "plan", sources |-> sources, d |-> d, target |-> target,
                      collision |-> collision]
             run == LoopOf(loop, L)
             T == {n \in 0 .. L : Planned(d, target, collision, run[n])}
             plan[n \in 0 .. Len(sources)] ==
               IF n = 0 THEN EmptyPlan
               ELSE PlanSource(d, target, collision, plan[n - 1], sources[n])
  <1>1. plan[Len(sources)] = run[L]
    BY DEF LoopOf, Started, Turned
  <1>2. /\ run[0] = EmptyPlan
        /\ \A n \in 1 .. L : run[n] = PlanSource(d, target, collision, run[n - 1], sources[n])
    <2>1. /\ loop.kind = "plan" /\ loop.sources = sources /\ loop.d = d
          /\ loop.target = target /\ loop.collision = collision
      OBVIOUS
    <2> HIDE DEF loop
    <2>2. /\ run[0] = Started(loop)
          /\ \A n \in 1 .. L : run[n] = Turned(loop, run[n - 1], n)
      BY LoopIs
    <2> HIDE DEF run
    <2> QED  BY <2>1, <2>2 DEF Started, Turned
  <1> HIDE DEF run, plan
  <1>3. 0 \in T
    <2>1. Planned(d, target, collision, EmptyPlan)
      <3>1. <<>> \in Seq([from : Path, to : Path]) /\ DOMAIN <<>> = {}
        OBVIOUS
      <3>2. /\ DOMAIN EmptyPlan = {"moves", "skipped", "replaced"}
            /\ EmptyPlan.moves = <<>> /\ EmptyPlan.replaced = {}
        BY DEF EmptyPlan
      <3> QED  BY <3>1, <3>2 DEF Planned
    <2> QED  BY <1>2, <2>1
  <1>4. ASSUME NEW n \in 1 .. L, n - 1 \in T PROVE n \in T
    <2>1. Planned(d, target, collision, run[n - 1]) /\ n \in 0 .. L
      BY <1>4
    <2>2. Planned(d, target, collision, run[n])
      BY <1>2, <2>1, SourcePlanned
    <2> QED  BY <2>1, <2>2
  <1> HIDE DEF T
  <1>5. \A n \in 1 .. L : n - 1 \in T => n \in T
    BY <1>4
  <1>6. \A n \in 0 .. L : n \in T
    BY <1>3, <1>5, Counting
  <1>7. Planned(d, target, collision, run[L])
    BY <1>6 DEF T
  <1> QED  BY <1>1, <1>7 DEF plan

LEMMA PlanFits ==
    ASSUME NEW d, Inputs(d), Charts(d), NEW sources \in Seq(Path), NEW target, NEW collision,
           PlanMoves(d, sources, target, collision).moves # <<>>
    PROVE  LET plan == PlanMoves(d, sources, target, collision)
           IN  /\ Fits(d, plan.moves, plan.replaced)
               /\ collision # "replace" => plan.replaced = {}
  <1> DEFINE list == MoveSources(sources)
             run[n \in 0 .. Len(list)] ==
               IF n = 0 THEN EmptyPlan
               ELSE PlanSource(d, target, collision, run[n - 1], list[n])
             whole == run[Len(list)]
             plan == PlanMoves(d, sources, target, collision)
             moves == whole.moves
  <1>1. target \in d.mirror.groups
    <2>1. EmptyPlan.moves = <<>>
      BY DEF EmptyPlan
    <2> QED  BY <2>1 DEF PlanMoves
  <1>2. target \in d.mirror.all /\ target \in Path /\ target # Root /\ IsValidPath(target)
    <2>1. PICK p \in d.mirror.all : target = Parent(p) /\ target # Root
      BY <1>1 DEF Charts, MirrorOf
    <2>2. p \in Path /\ p # Root
      BY <2>1, ChartIsNamed
    <2>3. target \in Path /\ IsPrefix(target, p)
      BY <2>1, <2>2, ParentType, ParentPrefix
    <2> QED  BY <2>1, <2>3, ChartIsNamed
  <1>3. Len(list) \in Nat
    BY SourcesListed
  <1>4. Planned(d, target, collision, whole)
    <2> HIDE DEF list
    <2> QED  BY <1>2, <1>3, PlanSoFar
  <1>5. plan.moves \in {moves, <<>>} /\ plan.replaced = whole.replaced
    <2>1. \/ plan = whole
          \/ plan = [whole EXCEPT !.moves = <<>>, !.skipped = whole.moves \o @]
      BY <1>1 DEF PlanMoves
    <2> HIDE DEF whole, plan
    <2> QED  BY <1>4, <2>1 DEF Planned
  <1> HIDE DEF whole, plan
  <1>6. plan.moves = moves /\ moves # <<>>
    BY <1>5 DEF plan
  <1>7. /\ moves \in Seq([from : Path, to : Path])
        /\ collision # "replace" => whole.replaced = {}
    BY <1>4 DEF Planned
  <1>8. Len(moves) \in Nat \ {0} /\ DOMAIN moves = 1 .. Len(moves)
    BY <1>6, <1>7
  <1>9. \A i \in DOMAIN moves :
          /\ moves[i].from \in d.mirror.all /\ ~IsPrefix(moves[i].from, target)
          /\ Parent(moves[i].from) # target
          /\ moves[i].to = Append(target, Last(moves[i].from))
          /\ moves[i].to \in d.mirror.all => moves[i].to \in whole.replaced
    BY <1>4 DEF Planned
  <1>10. \A i, j \in DOMAIN moves :
           /\ moves[i].to = moves[j].to => i = j
           /\ i < j /\ moves[i].to \in d.mirror.all => ~IsPrefix(moves[i].to, moves[j].from)
    BY <1>4 DEF Planned
  <1>11. ASSUME NEW i \in DOMAIN moves
         PROVE  /\ moves[i].to \in Path /\ IsValidPath(moves[i].to)
                /\ Len(moves[i].to) = Len(target) + 1 /\ Parent(moves[i].to) = target
    <2> DEFINE from == moves[i].from
    <2>1. from \in Path /\ from # Root /\ IsValidPath(from)
      BY <1>9, ChartIsNamed
    <2>2. moves[i].to = Append(target, Last(from))
      BY <1>9
    <2> HIDE DEF from
    <2>3. Last(from) \in Nat /\ Last(from) # 0
      BY <2>1 DEF Last, Path, Root, IsValidPath
    <2> QED  BY <1>2, <2>2, <2>3, AppendedPath
  <1> HIDE DEF moves
  <1>12. Fits(d, moves, whole.replaced)
    BY <1>8, <1>9, <1>10, <1>11 DEF Fits
  <1> QED  BY <1>5, <1>6, <1>7, <1>12 DEF plan

-----------------------------------------------------------------------------
(* Searches, and the names of accounts *)

\* A search has its session, and what is above a match is admitted with it.
Searched(d) ==
    /\ d.session # None => d.session \in Session
    /\ d.filter # None =>
         d.session # None /\ \A p \in d.matches : Lineage(p) \subseteq d.filter

EditInv(d) == Inputs(d) /\ Searched(d)

\* What most methods leave alone.
Aside(d, e) ==
    /\ e.accounts = d.accounts /\ e.entries = d.entries /\ e.session = d.session
    /\ e.matches = d.matches /\ e.filter = d.filter

\* What a step must do.
Honest(d, e) ==
    /\ EditInv(e)
    /\ d.session # None /\ e.session # None /\ d.mirror = e.mirror =>
         e.session.prior = d.session.prior

Loses(d, e) == Cardinality(Named(e)) < Cardinality(Named(d))

LEMMA AsideIsHonest ==
    ASSUME NEW d, EditInv(d), NEW e, Aside(d, e)
    PROVE  Honest(d, e) /\ ~Loses(d, e)
  <1>1. Named(e) = Named(d)
    BY DEF Aside, Named
  <1>2. Cardinality(Named(d)) \in Nat
    BY NamedArePaths, FS_CardinalityType DEF EditInv, ArePaths
  <1>3. Honest(d, e)
    BY DEF Aside, Honest, EditInv, Inputs, Searched
  <1> QED  BY <1>1, <1>2, <1>3 DEF Loses

LEMMA TellAside == ASSUME NEW d, Typed(d), NEW told PROVE Aside(d, Tell(d, told))
  BY DEF Tell, Typed, Aside

LEMMA SetFlattenAside ==
    ASSUME NEW d, Typed(d), NEW on PROVE Aside(d, SetFlatten(d, on))
  BY DEF SetFlatten, Tell, Dirty, Typed, Aside

LEMMA SetAccountStatusAside ==
    ASSUME NEW d, Typed(d), NEW own PROVE Aside(d, SetAccountStatus(d, own))
  BY DEF SetAccountStatus, Tell, Typed, Aside

LEMMA RequestAside ==
    ASSUME NEW d, Typed(d), NEW p PROVE Aside(d, RequestChildLoad(d, p))
  BY DEF RequestChildLoad, Tell, Dirty, Typed, Aside

LEMMA SetExpandedAside ==
    ASSUME NEW d, Typed(d), NEW p, NEW on PROVE Aside(d, SetExpanded(d, p, on))
  <1> DEFINE opened == Tell([Dirty(d) EXCEPT !.store = SetExpansion(@, {p}, IF on THEN {p} ELSE {})],
                            {"expansion"})
  <1>1. DOMAIN opened = Fields /\ opened.own = d.own /\ Aside(d, opened)
    BY DEF Tell, Dirty, Typed, Aside
  <1>2. DOMAIN opened.store = StoreFields
    BY StoreKept DEF Tell, Dirty, Typed
  <1>3. SetExpanded(d, p, on) \in {Tell(d, {}), RequestChildLoad(opened, p), opened}
    BY DEF SetExpanded
  <1> HIDE DEF opened
  <1>4. Aside(opened, RequestChildLoad(opened, p))
    BY <1>1, <1>2, RequestAside DEF Typed
  <1>5. Aside(d, RequestChildLoad(opened, p))
    BY <1>1, <1>4 DEF Aside
  <1> QED  BY <1>1, <1>3, <1>5, TellAside

LEMMA ExpansionAside ==
    ASSUME NEW d, Typed(d)
    PROVE  /\ Aside(d, ExpandAll(d)) /\ Aside(d, CollapseAll(d))
           /\ \A p : Aside(d, RevealPath(d, p))
           /\ \A paths : Aside(d, MarkUnloaded(d, paths))
           /\ Aside(d, CancelChildLoads(d))
  <1>1. Aside(d, ExpandAll(d)) /\ Aside(d, CollapseAll(d))
    BY DEF ExpandAll, CollapseAll, Tell, Dirty, Typed, Aside
  <1>2. ASSUME NEW p PROVE Aside(d, RevealPath(d, p))
    BY DEF RevealPath, Tell, Dirty, Typed, Aside
  <1>3. ASSUME NEW paths PROVE Aside(d, MarkUnloaded(d, paths))
    BY DEF MarkUnloaded, Tell, Dirty, Typed, Aside
  <1>4. Aside(d, CancelChildLoads(d))
    BY DEF CancelChildLoads, Tell, Dirty, Typed, Aside
  <1> QED  BY <1>1, <1>2, <1>3, <1>4

LEMMA ReadAside ==
    ASSUME NEW d, Typed(d) PROVE Aside(d, Read(d)) /\ Typed(Read(d))
  BY DEF Read, Typed, Aside

LEMMA FocusAside ==
    ASSUME NEW d, Typed(d)
    PROVE  /\ \A p : Aside(d, SetFocusedPath(d, p))
           /\ \A i : Aside(d, FocusRow(d, i))
           /\ Aside(d, ClearSelection(d))
           /\ \A p : Aside(d, BeginRename(d, p))
           /\ Aside(d, CancelRename(d))
  <1>1. \A p : Aside(d, SetFocusedPath(d, p))
    BY DEF SetFocusedPath, Tell, Typed, Aside
  <1>2. \A i : Aside(d, FocusRow(d, i))
    BY <1>1, TellAside DEF FocusRow
  <1>3. Aside(d, ClearSelection(d))
    BY DEF ClearSelection, Tell, Typed, Aside
  <1>4. \A p : Aside(d, BeginRename(d, p))
    BY DEF BeginRename, Tell, Typed, Aside
  <1>5. Aside(d, CancelRename(d))
    BY DEF CancelRename, Tell, Typed, Aside
  <1> QED  BY <1>1, <1>2, <1>3, <1>4, <1>5

\* Whatever row a search for one finds.
LEMMA RowFoundAside ==
    ASSUME NEW d, Typed(d), NEW e, \E i : e = FocusRow(Read(d), i)
    PROVE  Aside(d, e)
  <1>1. Aside(Read(d), e)
    BY ReadAside, FocusAside
  <1> QED  BY <1>1, ReadAside DEF Aside

LEMMA SelectAside ==
    ASSUME NEW d, Typed(d)
    PROVE  /\ \A p, additive, range : Aside(d, SelectPath(d, p, additive, range))
           /\ \A delta : Aside(d, MoveFocus(d, delta))
           /\ \A at : Aside(d, FocusIndex(d, at))
           /\ \A leaves : Aside(d, TypeAhead(d, leaves))
           /\ \A forward : Aside(d, FocusMatch(d, forward))
  <1>1. ASSUME NEW p, NEW additive, NEW range PROVE Aside(d, SelectPath(d, p, additive, range))
    <2>1. CASE p \notin d.store.paths
      BY <2>1, TellAside DEF SelectPath
    <2>2. CASE p \in d.store.paths
      <3> DEFINE told(selection) == (IF selection = d.selection THEN {} ELSE {"selection"})
                                      \cup (IF d.focus = p THEN {} ELSE {"focus"})
      <3>1. PICK selection, anchor :
              SelectPath(d, p, additive, range) =
                Tell([Read(d) EXCEPT !.selection = selection, !.focus = p, !.anchor = anchor],
                     told(selection))
        BY <2>2, SelectFinds
      <3> HIDE DEF told
      <3>2. Aside(Read(d), SelectPath(d, p, additive, range))
        BY <3>1, ReadAside DEF Tell, Typed, Aside
      <3> QED  BY <3>2, ReadAside DEF Aside
    <2> QED  BY <2>1, <2>2
  <1>2. \A delta : Aside(d, MoveFocus(d, delta))
    BY MoveFocusFinds, RowFoundAside
  <1>3. \A at : Aside(d, FocusIndex(d, at))
    BY FocusIndexFinds, RowFoundAside
  <1>4. \A leaves : Aside(d, TypeAhead(d, leaves))
    BY TypeAheadFinds, RowFoundAside
  <1>5. ASSUME NEW forward PROVE Aside(d, FocusMatch(d, forward))
    <2>1. CASE d.session = None \/ d.matches = {}
      BY <2>1, TellAside DEF FocusMatch
    <2>2. CASE d.session # None /\ d.matches # {}
      BY <2>2, FocusMatchFinds, RowFoundAside
    <2> QED  BY <2>1, <2>2
  <1> QED  BY <1>1, <1>2, <1>3, <1>4, <1>5

LEMMA FailAside ==
    ASSUME NEW d, Typed(d), NEW p, NEW token PROVE Aside(d, SettleChildLoadFailure(d, p, token))
  BY DEF SettleChildLoadFailure, Tell, Dirty, Typed, Aside

-----------------------------------------------------------------------------
(* The methods that do not leave them alone *)

LEMMA SetEntriesHonest ==
    ASSUME NEW d, Typed(d), EditInv(d), NEW entries, AreEntries(entries)
    PROVE  Honest(d, SetEntries(d, entries))
  <1> DEFINE e == SetEntries(d, entries)
  <1>1. /\ e.accounts = d.accounts /\ e.entries = entries /\ e.session = d.session
        /\ e.matches = d.matches /\ e.filter = d.filter
    BY DEF SetEntries, Tell, Dirty, Typed
  <1> HIDE DEF e
  <1>2. Honest(d, e)
    BY <1>1 DEF Honest, EditInv, Inputs, Searched
  <1> QED  BY <1>2 DEF e

\* The groups of a chart are named by paths.
LEMMA GroupsArePaths ==
    ASSUME NEW d, Inputs(d), Charts(d)
    PROVE  d.mirror.groups \subseteq d.mirror.all /\ d.mirror.all \subseteq Seq(Nat)
  <1>1. \A p \in d.mirror.all :
          /\ p \in Path /\ p # Root
          /\ \A q \in Path : q # Root /\ IsPrefix(q, p) => q \in d.mirror.all
    BY ChartIsNamed
  <1>2. d.mirror.groups = {Parent(p) : p \in d.mirror.all} \ {Root}
    BY DEF Charts, MirrorOf
  <1>3. ASSUME NEW q \in d.mirror.groups PROVE q \in d.mirror.all
    <2>1. PICK p \in d.mirror.all : q = Parent(p) /\ q # Root
      BY <1>2
    <2> QED  BY <1>1, <2>1, ParentType, ParentPrefix
  <1> QED  BY <1>1, <1>3 DEF Path

\* What is above the matches is admitted with them.
LEMMA AboveAdmitted ==
    ASSUME NEW matches, NEW p \in matches
    PROVE  Lineage(p) \subseteq matches \cup Ancestors(matches)
  BY DEF Ancestors

LEMMA BeginSearchHonest ==
    ASSUME NEW d, Typed(d), Charts(d), EditInv(d), NEW query \in Queries,
           NEW mode \in Modes \cup {None}
    PROVE  Honest(d, BeginSearch(d, query, mode)) /\ ~Loses(d, BeginSearch(d, query, mode))
  <1> DEFINE e == BeginSearch(d, query, mode)
             session == IF d.session # None
                        THEN [d.session EXCEPT !.query = query,
                                               !.mode = IF mode = None THEN @ ELSE mode]
                        ELSE [query |-> query,
                              mode |-> IF mode = None THEN "expand-matches" ELSE mode,
                              prior |-> SnapshotExpandedGroups(d)]
             matches == {p \in d.mirror.all : \E i \in DOMAIN p : p[i] \in query}
             above == Ancestors(matches)
             filter == IF session.mode = "hide-non-matches" /\ matches # {}
                       THEN matches \cup above ELSE None
  <1>1. PICK shown :
          e = Tell([Dirty(d) EXCEPT !.session = session, !.matches = matches, !.store = shown,
                                    !.filter = filter],
                   {"expansion", "search"})
    BY DEF BeginSearch
  <1>2. session \in Session /\ (d.session # None => session.prior = d.session.prior)
    <2>1. CASE d.session # None
      <3>1. d.session \in Session
        BY <2>1 DEF EditInv, Searched
      <3>2. session = [d.session EXCEPT !.query = query,
                                        !.mode = IF mode = None THEN @ ELSE mode]
        BY <2>1
      <3> HIDE DEF session
      <3> QED  BY <2>1, <3>1, <3>2 DEF Session
    <2>2. CASE d.session = None
      <3>1. SnapshotExpandedGroups(d) \subseteq Seq(Nat)
        BY GroupsArePaths DEF SnapshotExpandedGroups, EditInv
      <3>2. session = [query |-> query,
                       mode |-> IF mode = None THEN "expand-matches" ELSE mode,
                       prior |-> SnapshotExpandedGroups(d)]
        BY <2>2
      <3>3. (IF mode = None THEN "expand-matches" ELSE mode) \in Modes
        BY DEF Modes
      <3> HIDE DEF session
      <3> QED  BY <2>2, <3>1, <3>2, <3>3 DEF Session
    <2> QED  BY <2>1, <2>2
  <1>3. filter # None => \A p \in matches : Lineage(p) \subseteq filter
    <2>1. \A p \in matches : Lineage(p) \subseteq matches \cup above
      BY AboveAdmitted
    <2> HIDE DEF matches, above
    <2> QED  BY <2>1
  <1> HIDE DEF e, session, matches, filter
  <1>4. /\ e.accounts = d.accounts /\ e.entries = d.entries /\ e.session = session
        /\ e.matches = matches /\ e.filter = filter
    BY <1>1 DEF Tell, Dirty, Typed
  <1>5. session # None
    BY <1>2, ControllerAssumption
  <1>6. Honest(d, e)
    BY <1>2, <1>3, <1>4, <1>5 DEF Honest, EditInv, Inputs, Searched
  <1>7. Named(e) = Named(d)
    BY <1>4 DEF Named
  <1>8. Cardinality(Named(d)) \in Nat
    BY NamedArePaths, FS_CardinalityType DEF EditInv, ArePaths
  <1> QED  BY <1>6, <1>7, <1>8 DEF Loses, e

LEMMA EndSearchHonest ==
    ASSUME NEW d, Typed(d), EditInv(d)
    PROVE  Honest(d, EndSearch(d)) /\ ~Loses(d, EndSearch(d))
  <1>1. CASE d.session = None
    BY <1>1, TellAside, AsideIsHonest DEF EndSearch
  <1>2. CASE d.session # None
    <2> DEFINE e == EndSearch(d)
    <2>1. /\ e.accounts = d.accounts /\ e.entries = d.entries /\ e.session = None
          /\ e.matches = {} /\ e.filter = None
      BY <1>2 DEF EndSearch, Tell, Dirty, Typed
    <2> HIDE DEF e
    <2>2. Honest(d, e)
      BY <2>1 DEF Honest, EditInv, Inputs, Searched
    <2>3. Named(e) = Named(d)
      BY <2>1 DEF Named
    <2>4. Cardinality(Named(d)) \in Nat
      BY NamedArePaths, FS_CardinalityType DEF EditInv, ArePaths
    <2> QED  BY <2>2, <2>3, <2>4 DEF Loses, e
  <1> QED  BY <1>1, <1>2

\* An answer names more accounts.
LEMMA SettleHonest ==
    ASSUME NEW d, Typed(d), Charts(d), EditInv(d), NEW p, NEW token, NEW children, ArePaths(children)
    PROVE  LET e == SettleChildLoad(d, p, token, children)
           IN  Honest(d, e) /\ ~Loses(d, e)
  <1> DEFINE e == SettleChildLoad(d, p, token, children)
             added == Missing(d.store, children)
  <1>1. CASE Aside(d, e)
    BY <1>1, AsideIsHonest
  <1>2. CASE /\ e.accounts = d.accounts \cup added /\ e.entries = d.entries
             /\ e.session = d.session /\ e.matches = d.matches /\ e.filter = d.filter
    <2>1. ArePaths(added)
      <3> DEFINE valid == {q \in children : IsValidPath(q)}
      <3>1. IsFiniteSet(valid) /\ valid \subseteq Path
        BY FS_Subset, valid \in SUBSET children DEF ArePaths, Path
      <3>2. added = (UNION {Lineage(q) : q \in valid}) \ d.store.paths
        BY DEF Missing
      <3> HIDE DEF valid, added
      <3>3. IsFiniteSet(added)
        BY <3>1, <3>2, FiniteLineages, FS_Difference
      <3>4. added \subseteq Seq(Nat)
        BY MissingFacts DEF added, ArePaths, Path
      <3> QED  BY <3>3, <3>4 DEF ArePaths
    <2> HIDE DEF e, added
    <2>2. ArePaths(e.accounts)
      BY <1>2, <2>1, FS_Union DEF EditInv, Inputs, ArePaths
    <2>3. Honest(d, e)
      BY <1>2, <2>2 DEF Honest, EditInv, Inputs, Searched
    <2>4. Named(d) \in SUBSET Named(e)
      BY <1>2 DEF Named
    <2>5. IsFiniteSet(Named(e)) /\ IsFiniteSet(Named(d))
      BY <2>3, NamedArePaths DEF Honest, EditInv, ArePaths
    <2>6. Cardinality(Named(d)) <= Cardinality(Named(e)) /\ Cardinality(Named(d)) \in Nat
          /\ Cardinality(Named(e)) \in Nat
      BY <2>4, <2>5, FS_Subset, FS_CardinalityType
    <2> QED  BY <2>3, <2>6 DEF Loses, e
  <1>3. \/ Aside(d, e)
        \/ /\ e.accounts = d.accounts \cup added /\ e.entries = d.entries
           /\ e.session = d.session /\ e.matches = d.matches /\ e.filter = d.filter
    <2>1. CASE ~(p \in DOMAIN d.tokens /\ d.tokens[p] = token)
      BY <2>1, TellAside DEF SettleChildLoad
    <2>2. CASE p \in DOMAIN d.tokens /\ d.tokens[p] = token
      BY <2>2 DEF SettleChildLoad, AbsorbLoadedPaths, Tell, Dirty, Typed, Aside
    <2> QED  BY <2>1, <2>2
  <1> QED  BY <1>1, <1>2, <1>3

\* A rename or a drop.
LEMMA RemapHonest ==
    ASSUME NEW flying, NEW d, ControllerInv(d, flying), EditInv(d), NEW moves, NEW removed,
           Fits(d, moves, removed), NEW renamed
    PROVE  LET e == ApplyRemap(d, moves, removed, renamed)
           IN  Honest(d, e) /\ (removed = {} => ~Loses(d, e))
  <1> DEFINE e == ApplyRemap(d, moves, removed, renamed)
             matches == RenamedIn(d.matches, moves, removed)
  <1>1. Typed(d) /\ Charts(d) /\ Inputs(d) /\ Searched(d)
    BY DEF ControllerInv, EditInv
  <1>2. Charts(e)
    BY ApplyRemapKeeps DEF Keeps, ControllerInv
  <1>9. Remade(d, e, moves, removed, renamed)
    BY <1>1, RemapFields
  <1> HIDE DEF e
  <1>3. /\ e.accounts = RenamedIn(d.accounts, moves, removed)
        /\ e.entries = EntriesAfter(d.entries, moves, removed)
        /\ e.matches = IF d.session = None THEN d.matches ELSE matches
        /\ e.filter = IF d.filter = None THEN None
                      ELSE matches \cup Ancestors(matches)
        /\ e.session = SessionAfter(d.session, moves, removed)
    BY <1>9 DEF Remade
  <1>4. /\ Inputs(e) /\ Named(e) \subseteq RenamedIn(Named(d), moves, removed)
        /\ removed = {} => Named(e) = RenamedIn(Named(d), moves, removed)
    BY <1>1, <1>3, NamedAfter
  <1>5. e.mirror # d.mirror
    BY <1>1, <1>2, <1>4, ChartChanges
  <1>6. Searched(e)
    <2>1. \A p \in matches : Lineage(p) \subseteq matches \cup Ancestors(matches)
      BY AboveAdmitted
    <2> HIDE DEF matches
    <2>2. ASSUME d.session # None PROVE e.session \in Session /\ e.session # None
      <3> DEFINE prior == RenamedIn(d.session.prior, moves, removed)
      <3>1. d.session \in Session
        BY <1>1, <2>2 DEF Searched
      <3>2. prior \subseteq Seq(Nat)
        BY <1>1, <3>1, MovedPath DEF RenamedIn, Session, Path
      <3>3. e.session = [d.session EXCEPT !.prior = prior]
        BY <1>3, <2>2 DEF SessionAfter
      <3> HIDE DEF prior
      <3>4. e.session \in Session
        BY <3>1, <3>2, <3>3 DEF Session
      <3> QED  BY <3>4, ControllerAssumption
    <2>3. d.session = None => e.session = None
      BY <1>3 DEF SessionAfter
    <2> QED  BY <1>1, <1>3, <2>1, <2>2, <2>3 DEF Searched
  <1>7. Honest(d, e)
    BY <1>4, <1>5, <1>6 DEF Honest, EditInv
  <1>8. ASSUME removed = {} PROVE ~Loses(d, e)
    <2>1. Cardinality(Named(e)) = Cardinality(Named(d))
      BY <1>1, <1>4, <1>8, AsManyNamed
    <2>2. Cardinality(Named(d)) \in Nat
      BY <1>1, NamedArePaths, FS_CardinalityType DEF ArePaths
    <2> QED  BY <2>1, <2>2 DEF Loses
  <1> QED  BY <1>7, <1>8 DEF e

LEMMA RenameHonest ==
    ASSUME NEW flying, NEW d, ControllerInv(d, flying), EditInv(d),
           NEW p \in d.mirror.all, NEW leaf \in Nat
    PROVE  LET e == CommitRename(d, p, leaf)
           IN  Honest(d, e) /\ ~Loses(d, e)
  <1> DEFINE to == Append(Parent(p), leaf)
             ends == d.renaming = p
             closed == IF ends THEN [d EXCEPT !.renaming = None] ELSE d
             facet == IF ends THEN {"rename"} ELSE {}
             moves == <<[from |-> p, to |-> to]>>
             e == CommitRename(d, p, leaf)
  <1>1. /\ DOMAIN closed = Fields /\ closed.store = d.store
        /\ closed.mirror = d.mirror /\ closed.accounts = d.accounts
        /\ closed.entries = d.entries /\ closed.selection = d.selection
        /\ closed.anchor = d.anchor /\ closed.focus = d.focus /\ closed.own = d.own
        /\ closed.rolled = d.rolled /\ closed.session = d.session
        /\ closed.matches = d.matches /\ closed.filter = d.filter
        /\ closed.tokens = d.tokens /\ closed.counter = d.counter
        /\ closed.flatten = d.flatten
        /\ closed.projection = d.projection /\ closed.told = d.told
    BY DEF ControllerInv, Typed
  <1>2. \/ e = Tell(d, {}) \/ e = Tell(closed, facet)
        \/ /\ leaf # 0 /\ to # p /\ to \notin d.store.paths
           /\ e = ApplyRemap(closed, moves, {}, facet)
    BY DEF CommitRename
  <1> HIDE DEF closed, facet, moves, e, to, ends
  <1>3. Aside(d, closed) /\ Named(closed) = Named(d)
    BY <1>1 DEF Aside, Named
  <1>4. ControllerInv(closed, flying)
    <2>1. Fetched(d, closed, flying) = flying
      BY <1>1 DEF Fetched
    <2> QED  BY <1>1, <2>1, CalmKeeps DEF ControllerInv, Typed
  <1>5. EditInv(closed)
    BY <1>3, AsideIsHonest DEF Honest
  <1>6. CASE e = Tell(d, {})
    BY <1>6, TellAside, AsideIsHonest DEF ControllerInv, e
  <1>7. CASE e = Tell(closed, facet)
    <2>1. Aside(closed, e)
      BY <1>4, <1>7, TellAside DEF ControllerInv
    <2>2. Aside(d, e)
      BY <1>3, <2>1 DEF Aside
    <2> QED  BY <2>2, AsideIsHonest DEF e
  <1>8. CASE /\ leaf # 0 /\ to # p /\ to \notin d.store.paths
             /\ e = ApplyRemap(closed, moves, {}, facet)
    <2>1. Inputs(closed) /\ Charts(closed)
      BY <1>4, <1>5 DEF EditInv, ControllerInv
    <2>2. p \in closed.mirror.all /\ to \notin closed.mirror.all
      BY <1>1, <1>8, <2>1 DEF Charts
    <2>3. Fits(closed, moves, {})
      BY <1>8, <2>1, <2>2, RenameFits DEF moves, to
    <2>4. Honest(closed, e) /\ ~Loses(closed, e)
      BY <1>4, <1>5, <1>8, <2>3, RemapHonest
    <2>5. Honest(d, e) /\ ~Loses(d, e)
      BY <1>1, <1>3, <2>4 DEF Honest, Loses
    <2> QED  BY <2>5 DEF e
  <1> QED  BY <1>2, <1>6, <1>7, <1>8

LEMMA DropHonest ==
    ASSUME NEW flying, NEW d, ControllerInv(d, flying), EditInv(d),
           NEW drop, drop.sources \in Seq(Seq(Nat))
    PROVE  LET e == MovePaths(d, drop)
           IN  Honest(d, e) /\ (drop.collision # "replace" => ~Loses(d, e))
  <1> DEFINE plan == PlanMoves(d, drop.sources, drop.target, drop.collision)
             e == MovePaths(d, drop)
  <1>1. e = IF plan.moves = <<>> THEN Tell(d, {})
            ELSE ApplyRemap(d, plan.moves, plan.replaced, {})
    BY DEF MovePaths
  <1>2. plan.moves # <<>> =>
          /\ Fits(d, plan.moves, plan.replaced)
          /\ drop.collision # "replace" => plan.replaced = {}
    BY PlanFits DEF ControllerInv, EditInv, Path
  <1> HIDE DEF plan, e
  <1>3. CASE plan.moves = <<>>
    BY <1>1, <1>3, TellAside, AsideIsHonest DEF ControllerInv, e
  <1>4. CASE plan.moves # <<>>
    <2>1. /\ Honest(d, ApplyRemap(d, plan.moves, plan.replaced, {}))
          /\ plan.replaced = {} => ~Loses(d, ApplyRemap(d, plan.moves, plan.replaced, {}))
      BY <1>2, <1>4, RemapHonest
    <2> QED  BY <1>1, <1>2, <1>4, <2>1 DEF e
  <1> QED  BY <1>3, <1>4

-----------------------------------------------------------------------------
(* The controller *)

LEMMA Starts == Init => ControllerInv(c, fetches)
  <1> SUFFICES ASSUME Init PROVE ControllerInv(c, fetches)
    OBVIOUS
  <1>1. PICK setup \in Setups : c = Constructed(setup)
    BY DEF Init
  <1> DEFINE mirror == MirrorOf(setup.entries, setup.accounts)
             built == Built(setup.entries, setup.accounts)
             marked == Unloaded(built, setup.unloaded)
             store == InitiallyExpanded(marked, mirror, setup.mode)
  <1>2. /\ DOMAIN built = StoreFields /\ built.paths = mirror.all
        /\ built.children = mirror.kids /\ built.load = <<>>
    BY BuiltIs
  <1> HIDE DEF built, mirror
  <1>3. /\ DOMAIN marked = StoreFields /\ marked.paths = mirror.all
        /\ marked.children = mirror.kids /\ DOMAIN marked.load \subseteq mirror.all
        /\ \A p \in DOMAIN marked.load : marked.load[p] = "unloaded"
    BY <1>2, UnloadedIs
  <1> HIDE DEF marked
  <1>4. /\ DOMAIN store = StoreFields /\ store.paths = marked.paths
        /\ store.children = marked.children /\ store.load = marked.load
    <2> DEFINE closed == [marked EXCEPT !.expanded = {}]
               open == IF setup.mode.kind = "top-level"
                       THEN {p \in mirror.groups : Len(p) = 1}
                       ELSE UNION {Lineage(p) : p \in setup.mode.paths}
    <2>1. /\ DOMAIN closed = StoreFields /\ closed.paths = marked.paths
          /\ closed.children = marked.children /\ closed.load = marked.load
      BY <1>3
    <2>2. store = IF setup.mode.kind = "all" THEN marked
                  ELSE SetExpansion(closed, open, open)
      BY DEF InitiallyExpanded
    <2> HIDE DEF closed, open, store
    <2> QED  BY <1>3, <2>1, <2>2, StoreKept
  <1>5. /\ DOMAIN c = Fields /\ c.store = store /\ c.mirror = mirror
        /\ c.accounts = setup.accounts /\ c.entries = setup.entries /\ c.own = <<>>
        /\ c.tokens = <<>> /\ c.counter = 0 /\ c.projection = None
    BY <1>1 DEF Constructed, mirror, built, marked
  <1> HIDE DEF store
  <1>6. IsFcn(<<>>) /\ DOMAIN <<>> = {}
    BY DEF IsFcn
  <1>7. Typed(c) /\ Charts(c) /\ Cached(c)
    BY <1>3, <1>4, <1>5, <1>6 DEF Typed, Charts, Cached, mirror
  <1>8. fetches = {}
    BY DEF Init
  <1>9. Spinners(c, fetches)
    BY <1>3, <1>4, <1>5 DEF Spinners
  <1>10. Numbered(c, fetches)
    BY <1>5, <1>6, <1>8 DEF Numbered
  <1> QED  BY <1>7, <1>9, <1>10 DEF ControllerInv

\* A step keeps the invariant and tells of what it changes.
LEMMA StepKeeps ==
    ASSUME ControllerInv(c, fetches), [Next]_vars
    PROVE  ControllerInv(c', fetches') /\ (c' # c => Heard(c, c'))
  <1> DEFINE Kept == ControllerInv(c', fetches') /\ Heard(c, c')
  <1>1. ASSUME NEW outcomes, Do(outcomes), \A after \in outcomes : Keeps(c, after, fetches)
        PROVE  Kept
    BY <1>1 DEF Do, Keeps
  <1>2. ASSUME Data PROVE Kept
    <2>1. \A entries \in EntrySets : Keeps(c, SetEntries(c, entries), fetches)
      BY SetEntriesKeeps
    <2>2. \A on \in BOOLEAN : Keeps(c, SetFlatten(c, on), fetches)
      BY SetFlattenKeeps
    <2>3. \A own \in Decorations : Keeps(c, SetAccountStatus(c, own), fetches)
      BY SetAccountStatusKeeps, ControllerAssumption DEF IsFcn
    <2> HIDE DEF Kept
    <2> QED  BY <1>1, <1>2, <2>1, <2>2, <2>3 DEF Data
  <1>3. ASSUME Browse PROVE Kept
    <2>1. \A p \in Accounts, on \in BOOLEAN : Keeps(c, SetExpanded(c, p, on), fetches)
      BY SetExpandedKeeps
    <2>2. Keeps(c, ExpandAll(c), fetches) /\ Keeps(c, CollapseAll(c), fetches)
      BY ExpandAllKeeps, CollapseAllKeeps
    <2>3. \A p \in Accounts : Keeps(c, RevealPath(c, p), fetches)
      BY RevealPathKeeps
    <2>4. Keeps(c, Tell(Read(c), {}), fetches)
      <3> DEFINE seen == Read(c)
                 same == [seen EXCEPT !.selection = c.selection, !.focus = c.focus,
                                      !.anchor = c.anchor]
      <3>1. /\ DOMAIN seen = Fields /\ seen.selection = c.selection
            /\ seen.focus = c.focus /\ seen.anchor = c.anchor
            /\ seen = [x \in DOMAIN seen |-> seen[x]]
        BY ReadIs DEF Read
      <3>2. Keeps(c, Tell(same, {}), fetches)
        BY SeenKeeps
      <3> HIDE DEF seen
      <3>3. same = seen
        BY <3>1
      <3> QED  BY <3>2, <3>3 DEF seen
    <2> HIDE DEF Kept
    <2> QED  BY <1>1, <1>3, <2>1, <2>2, <2>3, <2>4 DEF Browse
  <1>4. ASSUME Load PROVE Kept
    <2>1. \A p \in Accounts : /\ Keeps(c, RequestChildLoad(c, p), fetches)
                              /\ Keeps(c, MarkUnloaded(c, {p}), fetches)
      BY RequestChildLoadKeeps, MarkUnloadedKeeps
    <2>2. Keeps(c, CancelChildLoads(c), fetches)
      BY CancelChildLoadsKeeps
    <2> HIDE DEF Kept
    <2> QED  BY <1>1, <1>4, <2>1, <2>2 DEF Load
  <1>5. ASSUME Select PROVE Kept
    <2>1. \A p \in Accounts, additive, range \in BOOLEAN :
            Keeps(c, SelectPath(c, p, additive, range), fetches)
      BY SelectPathKeeps
    <2>2. Keeps(c, ClearSelection(c), fetches)
      BY ClearSelectionKeeps
    <2>3. \A p : Keeps(c, SetFocusedPath(c, p), fetches)
      BY SetFocusedPathKeeps
    <2> HIDE DEF Kept
    <2> QED  BY <1>1, <1>5, <2>1, <2>2, <2>3, FocusKeeps DEF Select
  <1>6. ASSUME Search PROVE Kept
    <2>1. \A query \in Queries, mode \in Modes \cup {None} :
            Keeps(c, BeginSearch(c, query, mode), fetches)
      BY BeginSearchKeeps
    <2>2. Keeps(c, EndSearch(c), fetches)
      BY EndSearchKeeps
    <2> HIDE DEF Kept
    <2> QED  BY <1>1, <1>6, <2>1, <2>2, FocusKeeps DEF Search
  <1>7. ASSUME Edit PROVE Kept
    <2>1. \A p \in Accounts : Keeps(c, BeginRename(c, p), fetches)
      <3> SUFFICES ASSUME NEW p \in Accounts PROVE Keeps(c, BeginRename(c, p), fetches)
        OBVIOUS
      <3>1. Keeps(c, Tell([c EXCEPT !.renaming = p], {"rename"}), fetches)
        BY RenamingKeeps
      <3> QED  BY <3>1, TellNothing DEF BeginRename
    <2>2. Keeps(c, CancelRename(c), fetches)
      <3>1. Keeps(c, Tell([c EXCEPT !.renaming = None], {"rename"}), fetches)
        BY RenamingKeeps
      <3> QED  BY <3>1, TellNothing DEF CancelRename
    <2>3. \A p \in Accounts, leaf \in Leaves : Keeps(c, CommitRename(c, p, leaf), fetches)
      BY CommitRenameKeeps
    <2>4. \A drop \in Drops : Keeps(c, MovePaths(c, drop), fetches)
      BY MovePathsKeeps
    <2> HIDE DEF Kept
    <2> QED  BY <1>1, <1>7, <2>1, <2>2, <2>3, <2>4 DEF Edit
  <1>8. ASSUME NEW f \in fetches, Settle(f) \/ Fail(f) PROVE Kept
    <2>1. \A children \in Answers : Settles(c, SettleChildLoad(c, f.path, f.token, children), f, fetches)
      BY SettleKeeps, ControllerAssumption DEF Path, ArePaths
    <2>2. Settles(c, SettleChildLoadFailure(c, f.path, f.token), f, fetches)
      BY FailKeeps
    <2> QED  BY <1>8, <2>1, <2>2 DEF Settle, Fail, Settles
  <1>9. CASE UNCHANGED vars
    BY <1>9 DEF vars
  <1> HIDE DEF Kept
  <1>10. Next => Kept
    BY <1>2, <1>3, <1>4, <1>5, <1>6, <1>7, <1>8 DEF Next
  <1> QED  BY <1>9, <1>10 DEF Kept

LEMMA InvIsNothingStale == ControllerInv(c, fetches) => NothingStale
  BY DEF ControllerInv, Charts, Spinners, Numbered, Cached, NothingStale, OneTopology,
         LoadsAwaited, RowsCurrent

\* However calls, rebuilds and late answers follow each other, the copies of the
\* chart agree, each spinner has its fetch, and cached rows are the present ones.
THEOREM NothingIsStale == Spec => []NothingStale
  <1>1. ControllerInv(c, fetches) /\ [Next]_vars => ControllerInv(c, fetches)'
    BY StepKeeps
  <1> QED  BY <1>1, Starts, InvIsNothingStale, PTL DEF Spec

\* The listeners are told of every change of what they show, whichever method or
\* late answer made it.
THEOREM ListenersHear == Spec => EventsTell
  <1>1. ControllerInv(c, fetches) /\ [Next]_vars => ControllerInv(c, fetches)'
    BY StepKeeps
  <1>2. ControllerInv(c, fetches) /\ [Next]_vars => [Told]_vars
    BY StepKeeps DEF Told, Heard
  <1> QED  BY <1>1, <1>2, Starts, PTL DEF Spec, EventsTell

LEMMA EditsStart == Init => EditInv(c)
  <1> SUFFICES ASSUME Init PROVE EditInv(c)
    OBVIOUS
  <1>1. PICK setup \in Setups : c = Constructed(setup)
    BY DEF Init
  <1>2. /\ c.accounts = setup.accounts /\ c.entries = setup.entries
        /\ c.session = None /\ c.filter = None
    BY <1>1 DEF Constructed
  <1> QED  BY <1>2, ControllerAssumption DEF EditInv, Inputs, Searched

\* What may lose an account.
MayLose(d, e) ==
    \/ \E entries \in EntrySets : e = SetEntries(d, entries)
    \/ \E drop \in Drops : drop.collision = "replace" /\ e = MovePaths(d, drop)

LEMMA EditsKeep ==
    ASSUME ControllerInv(c, fetches), EditInv(c), [Next]_vars
    PROVE  Honest(c, c') /\ (Loses(c, c') => MayLose(c, c'))
  <1> DEFINE Fine(e) == Honest(c, e) /\ (Loses(c, e) => MayLose(c, e))
  <1>1. Typed(c) /\ Charts(c)
    BY DEF ControllerInv
  <1>2. \A e : Aside(c, e) => Fine(e)
    BY AsideIsHonest
  <1>3. \A e : Honest(c, e) /\ ~Loses(c, e) => Fine(e)
    OBVIOUS
  <1> HIDE DEF Fine
  <1>4. ASSUME NEW outcomes, Do(outcomes), \A after \in outcomes : Fine(after) PROVE Fine(c')
    BY <1>4 DEF Do
  <1>5. ASSUME Data PROVE Fine(c')
    <2>1. \A entries \in EntrySets : Fine(SetEntries(c, entries))
      BY <1>1, SetEntriesHonest, ControllerAssumption DEF Fine, MayLose
    <2>2. \A on \in BOOLEAN : Fine(SetFlatten(c, on))
      BY <1>1, <1>2, SetFlattenAside
    <2>3. \A own \in Decorations : Fine(SetAccountStatus(c, own))
      BY <1>1, <1>2, SetAccountStatusAside
    <2> QED  BY <1>4, <1>5, <2>1, <2>2, <2>3 DEF Data
  <1>6. ASSUME Browse PROVE Fine(c')
    <2>1. \A p \in Accounts, on \in BOOLEAN : Fine(SetExpanded(c, p, on))
      BY <1>1, <1>2, SetExpandedAside
    <2>2. /\ Fine(ExpandAll(c)) /\ Fine(CollapseAll(c))
          /\ \A p \in Accounts : Fine(RevealPath(c, p))
      BY <1>1, <1>2, ExpansionAside
    <2>3. Fine(Tell(Read(c), {}))
      <3>1. Aside(c, Read(c)) /\ Aside(Read(c), Tell(Read(c), {}))
        BY <1>1, ReadAside, TellAside
      <3> QED  BY <1>2, <3>1 DEF Aside
    <2> QED  BY <1>4, <1>6, <2>1, <2>2, <2>3 DEF Browse
  <1>7. ASSUME Load PROVE Fine(c')
    <2>1. \A p \in Accounts : Fine(RequestChildLoad(c, p)) /\ Fine(MarkUnloaded(c, {p}))
      BY <1>1, <1>2, RequestAside, ExpansionAside
    <2>2. Fine(CancelChildLoads(c))
      BY <1>1, <1>2, ExpansionAside
    <2> QED  BY <1>4, <1>7, <2>1, <2>2 DEF Load
  <1>8. ASSUME Select PROVE Fine(c')
    <2>1. /\ \A p \in Accounts, additive, range \in BOOLEAN :
               Fine(SelectPath(c, p, additive, range))
          /\ \A delta : Fine(MoveFocus(c, delta))
          /\ \A at : Fine(FocusIndex(c, at))
          /\ \A leaves : Fine(TypeAhead(c, leaves))
      BY <1>1, <1>2, SelectAside
    <2>2. Fine(ClearSelection(c)) /\ \A p : Fine(SetFocusedPath(c, p))
      BY <1>1, <1>2, FocusAside
    <2> QED  BY <1>4, <1>8, <2>1, <2>2 DEF Select
  <1>9. ASSUME Search PROVE Fine(c')
    <2>1. \A query \in Queries, mode \in Modes \cup {None} : Fine(BeginSearch(c, query, mode))
      BY <1>1, <1>3, BeginSearchHonest
    <2>2. Fine(EndSearch(c))
      BY <1>1, <1>3, EndSearchHonest
    <2>3. \A forward \in BOOLEAN : Fine(FocusMatch(c, forward))
      BY <1>1, <1>2, SelectAside
    <2> QED  BY <1>4, <1>9, <2>1, <2>2, <2>3 DEF Search
  <1>10. ASSUME Edit PROVE Fine(c')
    <2>1. /\ \A p \in Accounts : Fine(BeginRename(c, p))
          /\ Fine(CancelRename(c))
      BY <1>1, <1>2, FocusAside
    <2>2. \A p \in Accounts, leaf \in Leaves : Fine(CommitRename(c, p, leaf))
      <3> SUFFICES ASSUME NEW p \in Accounts, NEW leaf \in Leaves
                   PROVE  Fine(CommitRename(c, p, leaf))
        OBVIOUS
      <3>1. leaf \in Nat /\ p \in c.mirror.all
        BY ControllerAssumption DEF Accounts
      <3> QED  BY <1>3, <3>1, RenameHonest
    <2>3. \A drop \in Drops : Fine(MovePaths(c, drop))
      <3>1. \A drop \in Drops : drop.sources \in Seq(Seq(Nat))
        BY ControllerAssumption
      <3> QED  BY <3>1, DropHonest DEF Fine, MayLose
    <2> QED  BY <1>4, <1>10, <2>1, <2>2, <2>3 DEF Edit
  <1>11. ASSUME NEW f \in fetches, Settle(f) \/ Fail(f) PROVE Fine(c')
    <2>1. \A children \in Answers : Fine(SettleChildLoad(c, f.path, f.token, children))
      BY <1>1, <1>3, SettleHonest, ControllerAssumption
    <2>2. Fine(SettleChildLoadFailure(c, f.path, f.token))
      BY <1>1, <1>2, FailAside
    <2> QED  BY <1>11, <2>1, <2>2 DEF Settle, Fail
  <1>12. ASSUME UNCHANGED vars PROVE Fine(c')
    <2>1. Fine(c)
      BY <1>2 DEF Aside
    <2> QED  BY <1>12, <2>1 DEF vars
  <1>13. Next => Fine(c')
    BY <1>5, <1>6, <1>7, <1>8, <1>9, <1>10, <1>11 DEF Next
  <1>14. Fine(c')
    BY <1>12, <1>13
  <1> QED  BY <1>14 DEF Fine

\* Whatever a user does next, and however late an answer comes: the state before a
\* search is kept for its end, what is above a match is shown with it wherever it has
\* been moved, and no rename or drop makes one account of two.
THEOREM EditsAreHonest == Spec => EditsHonest
  <1> DEFINE Inv == ControllerInv(c, fetches) /\ EditInv(c)
  <1>1. Init => Inv
    BY Starts, EditsStart
  <1>2. Inv /\ [Next]_vars => Inv'
    BY StepKeeps, EditsKeep DEF Honest
  <1>3. Inv /\ [Next]_vars =>
          [/\ c.session # None /\ c'.session # None /\ c.mirror = c'.mirror =>
                c'.session.prior = c.session.prior
           /\ c'.filter # None => \A p \in c'.matches : Lineage(p) \subseteq c'.filter]_vars
    BY EditsKeep DEF Honest, EditInv, Searched
  <1>4. Inv /\ [Next]_vars =>
          [Cardinality(Named(c')) < Cardinality(Named(c)) =>
             \/ \E entries \in EntrySets : c' = SetEntries(c, entries)
             \/ \E drop \in Drops : drop.collision = "replace" /\ c' = MovePaths(c, drop)]_vars
    BY EditsKeep DEF Loses, MayLose
  <1> HIDE DEF Inv
  <1>5. Spec => SearchHolds
    BY <1>1, <1>2, <1>3, PTL DEF Spec, SearchHolds
  <1>6. Spec => MovesKeepApart
    BY <1>1, <1>2, <1>4, PTL DEF Spec, MovesKeepApart
  <1> QED  BY <1>5, <1>6 DEF EditsHonest

-----------------------------------------------------------------------------
(* What the rows are drawn from *)

Facets == {"expansion", "selection", "focus", "search", "rename", "status"}

LoadStates == {"unloaded", "loading", "error"}

\* Only accounts are open, and an answer is awaited by a group that says so.
Viewed(d) ==
    /\ d.store.expanded \subseteq d.store.paths
    /\ \A p \in DOMAIN d.store.load : d.store.load[p] \in LoadStates
    /\ \A p \in DOMAIN d.tokens : LoadOf(d.store, p) = "loading"
    /\ d.flatten \in BOOLEAN
    /\ d.told \subseteq Facets

LEMMA Awaiting ==
    ASSUME NEW d, NEW p
    PROVE  LoadOf(d.store, p) = "loading" <=> p \in DOMAIN d.store.load /\ d.store.load[p] = "loading"
  BY DEF LoadOf

LEMMA OnlyAccountsOpen ==
    ASSUME NEW t, DOMAIN t = StoreFields, t.expanded \subseteq t.paths, NEW paths, NEW on
    PROVE  SetExpansion(t, paths, on).expanded \subseteq t.paths
  BY DEF SetExpansion, IsGroup

LEMMA BuiltOpen ==
    ASSUME NEW entries, NEW accounts, ArePaths(accounts), AreEntries(entries)
    PROVE  Built(entries, accounts).expanded \subseteq Built(entries, accounts).paths
  <1> DEFINE asked == accounts \cup UNION {e.accounts : e \in entries}
             new == Missing(EmptyTree, asked)
             parents == {Parent(p) : p \in new}
             t == Collected(EmptyTree, asked)
  <1>1. asked \subseteq Path
    BY EntriesName DEF ArePaths, Path
  <1>2. EmptyTree.paths = {} /\ EmptyTree.expanded = {} /\ DOMAIN EmptyTree = StoreFields
    BY DEF EmptyTree
  <1> HIDE DEF asked
  <1>3. \A p \in new : p \in Path /\ p # Root /\ Lineage(p) \subseteq new
    BY <1>1, <1>2, MissingFacts
  <1>4. \A q \in parents : q # Root => q \in new
    <2> SUFFICES ASSUME NEW p \in new, Parent(p) # Root PROVE Parent(p) \in new
      OBVIOUS
    <2>1. Parent(p) \in Path /\ IsPrefix(Parent(p), p) /\ p \in Path
      BY <1>3, ParentType, ParentPrefix
    <2> QED  BY <1>3, <2>1, LineagePrefix
  <1>5. /\ t.paths = EmptyTree.paths \cup new
        /\ t.expanded = EmptyTree.expanded \cup new
             \cup {p \in parents \ {Root} : Children(EmptyTree, p) = {}}
    BY <1>2 DEF Collected
  <1> HIDE DEF t, new, parents
  <1>6. t.expanded \subseteq t.paths
    BY <1>2, <1>4, <1>5
  <1> QED  BY <1>6 DEF Built, t, asked

\* What is carried over where paths stay apart.
LEMMA CarriedViewed ==
    ASSUME NEW d, Typed(d), Charts(d), Viewed(d), NEW where,
           \A p, q \in d.mirror.all : where[p] = q /\ where[q] = q => p = q,
           NEW fresh, DOMAIN fresh = StoreFields, fresh.expanded \subseteq fresh.paths
    PROVE  LET r == CarryLoads(d, fresh, where)
           IN  /\ r.store.expanded \subseteq r.store.paths
               /\ \A p \in DOMAIN r.store.load : r.store.load[p] \in LoadStates
               /\ \A p \in DOMAIN r.tokens : LoadOf(r.store, p) = "loading"
  <1> DEFINE r == CarryLoads(d, fresh, where)
             pending == {p \in d.mirror.all : LoadOf(d.store, p) # "loaded"}
             kept == {p \in pending : where[p] \in fresh.paths}
             targets == {where[p] : p \in kept}
             source(q) == CHOOSE p \in kept : where[p] = q
             load == [q \in targets |-> IF source(q) = q THEN d.store.load[q]
                                        ELSE "unloaded"]
             open == {where[p] : p \in {p \in kept : IsExpanded(d.store, p)}}
             stale == {p \in pending : p \notin kept \/ where[p] # p}
  <1>1. /\ r.store = [fresh EXCEPT !.load = load, !.expanded = (@ \ targets) \cup open]
        /\ r.tokens = [p \in DOMAIN d.tokens \ stale |-> d.tokens[p]]
    BY DEF CarryLoads
  <1>2. ASSUME NEW q \in targets PROVE load[q] \in LoadStates
    <2>1. CASE source(q) = q
      <3>1. q \in kept
        BY <2>1
      <3>2. q \in DOMAIN d.store.load
        BY <3>1 DEF LoadOf
      <3> QED  BY <2>1, <3>2 DEF Viewed
    <2>2. CASE source(q) # q
      BY <2>2 DEF LoadStates
    <2> QED  BY <2>1, <2>2
  <1>3. open \subseteq fresh.paths
    OBVIOUS
  <1>4. ASSUME NEW p \in DOMAIN d.tokens \ stale
        PROVE  p \in targets /\ load[p] = "loading"
    <2>1. p \in DOMAIN d.store.load /\ d.store.load[p] = "loading"
      BY Awaiting DEF Viewed
    <2>2. p \in pending
      BY <2>1 DEF Charts, LoadOf
    <2>3. p \in kept /\ where[p] = p
      BY <2>2
    <2>4. p \in targets
      BY <2>3
    <2>5. source(p) \in kept /\ where[source(p)] = p
      BY <2>3
    <2>6. source(p) \in d.mirror.all /\ p \in d.mirror.all
      BY <2>3, <2>5
    <2> HIDE DEF source
    <2>7. source(p) = p
      BY <2>3, <2>5, <2>6
    <2> QED  BY <2>1, <2>4, <2>7
  <1> HIDE DEF r, open, stale
  <1>5. /\ r.store.paths = fresh.paths /\ r.store.load = load
        /\ r.store.expanded = (fresh.expanded \ targets) \cup open
        /\ r.tokens = [p \in DOMAIN d.tokens \ stale |-> d.tokens[p]]
    BY <1>1
  <1>6. DOMAIN load = targets
    OBVIOUS
  <1> HIDE DEF load, targets
  <1>7. \A p \in DOMAIN r.tokens : LoadOf(r.store, p) = "loading"
    BY <1>4, <1>5, <1>6 DEF LoadOf
  <1> QED  BY <1>2, <1>3, <1>5, <1>6, <1>7 DEF r

-----------------------------------------------------------------------------
(* The methods *)

LEMMA TellViewed ==
    ASSUME NEW d, Typed(d), Viewed(d), NEW told \in SUBSET Facets PROVE Viewed(Tell(d, told))
  BY DEF Tell, Typed, Viewed

LEMMA TellNothingViewed ==
    ASSUME NEW d, Typed(d), Viewed(d) PROVE Viewed(Tell(d, {}))
  BY TellViewed

LEMMA SetEntriesViewed ==
    ASSUME NEW d, Typed(d), Charts(d), Viewed(d), Inputs(d), NEW entries, AreEntries(entries)
    PROVE  Viewed(SetEntries(d, entries))
  <1> DEFINE e == SetEntries(d, entries)
             collapsed == {p \in d.mirror.groups : ~IsExpanded(d.store, p)}
             built == Built(entries, d.accounts)
             fresh == SetExpansion(built, collapsed, {})
             kept(p) == IF p \in fresh.paths THEN p ELSE None
             where == [p \in d.mirror.all |-> kept(p)]
             carried == CarryLoads(d, fresh, where)
             facets == {"expansion", "status"}
                         \cup (IF d.selection \subseteq fresh.paths THEN {} ELSE {"selection"})
                         \cup (IF kept(d.focus) = d.focus THEN {} ELSE {"focus"})
  <1>1. DOMAIN built = StoreFields /\ built.expanded \subseteq built.paths
    BY BuiltIs, BuiltOpen DEF Inputs
  <1> HIDE DEF built, collapsed
  <1>2. DOMAIN fresh = StoreFields /\ fresh.expanded \subseteq fresh.paths
    BY <1>1, StoreKept, OnlyAccountsOpen
  <1>3. \A p, q \in d.mirror.all : where[p] = q /\ where[q] = q => p = q
    <2>1. \A q \in d.mirror.all : q # None
      BY GroupsArePaths, ControllerAssumption
    <2> HIDE DEF fresh
    <2> QED  BY <2>1
  <1> HIDE DEF fresh, where
  <1>4. /\ carried.store.expanded \subseteq carried.store.paths
        /\ \A p \in DOMAIN carried.store.load : carried.store.load[p] \in LoadStates
        /\ \A p \in DOMAIN carried.tokens : LoadOf(carried.store, p) = "loading"
    BY <1>2, <1>3, CarriedViewed
  <1>5. facets \subseteq Facets
    BY DEF Facets
  <1> HIDE DEF carried, facets
  <1>6. /\ e.store = carried.store /\ e.tokens = carried.tokens /\ e.flatten = d.flatten
        /\ e.told = facets
    BY DEF SetEntries, Tell, Dirty, Typed, facets, carried, where, fresh, built, collapsed
  <1> HIDE DEF e
  <1>7. Viewed(e)
    BY <1>4, <1>5, <1>6 DEF Viewed
  <1> QED  BY <1>7 DEF e

LEMMA RemapViewed ==
    ASSUME NEW d, Typed(d), Charts(d), Viewed(d), Inputs(d), NEW moves, NEW removed,
           Fits(d, moves, removed), NEW renamed \in SUBSET {"rename"}
    PROVE  Viewed(ApplyRemap(d, moves, removed, renamed))
  <1> DEFINE e == ApplyRemap(d, moves, removed, renamed)
             entries == EntriesAfter(d.entries, moves, removed)
             accounts == RenamedIn(d.accounts, moves, removed)
             built == Built(entries, accounts)
             fresh == Rebuilt(d, moves, removed)
             where == [p \in d.mirror.all |-> Followed(moves, removed, p)]
             moved == CarryLoads(d, fresh, where)
  <1>1. Remade(d, e, moves, removed, renamed)
    BY RemapFields
  <1> HIDE DEF e
  <1>2. /\ e.accounts = accounts /\ e.entries = entries
        /\ e.store = moved.store /\ e.tokens = moved.tokens /\ e.flatten = d.flatten
        /\ e.told \subseteq {"expansion", "status", "selection", "focus", "rename", "search"}
                             \cup renamed
    BY <1>1 DEF Remade
  <1>3. ArePaths(accounts) /\ AreEntries(entries)
    BY <1>2, NamedAfter DEF Inputs
  <1> HIDE DEF entries, accounts
  <1>4. DOMAIN built = StoreFields /\ built.expanded \subseteq built.paths
    BY <1>3, BuiltIs, BuiltOpen
  <1> HIDE DEF built
  <1>5. DOMAIN fresh = StoreFields /\ fresh.expanded \subseteq fresh.paths
    BY <1>4, StoreKept, OnlyAccountsOpen DEF Rebuilt, built, entries, accounts
  <1>6. ASSUME NEW p \in d.mirror.all, NEW q \in d.mirror.all, where[p] = q, where[q] = q
        PROVE  p = q
    <2>1. /\ p \in Path /\ q \in Path /\ p # None /\ q # None
          /\ \A r \in Path : r # Root /\ IsPrefix(r, q) => r \in d.mirror.all
      BY ChartIsNamed, ControllerAssumption DEF Path
    <2>2. /\ ~IsRemoved(removed, q) /\ ~IsRemoved(removed, p)
          /\ RemapThrough(moves, p) = q
      BY <1>6, <2>1 DEF Followed
    <2>3. ASSUME NEW i \in DOMAIN moves, IsPrefix(moves[i].from, p),
                 q = Remap(moves[i].from, moves[i].to, p)
          PROVE  FALSE
      <3> DEFINE from == moves[i].from
                 to == moves[i].to
      <3>1. /\ from \in Path /\ to \in Path /\ to # Root
            /\ to \in d.mirror.all => to \in removed
        BY ChartIsNamed DEF Fits, IsValidPath
      <3> HIDE DEF from, to
      <3>2. IsPrefix(to, q)
        BY <2>1, <2>3, <3>1, RemapFacts DEF from, to
      <3>3. to \in removed
        BY <2>1, <3>1, <3>2
      <3> QED  BY <2>2, <3>2, <3>3 DEF IsRemoved
    <2> QED  BY <2>2, <2>3, ByOneMove DEF Fits
  <1> HIDE DEF fresh, where
  <1>7. /\ moved.store.expanded \subseteq moved.store.paths
        /\ \A p \in DOMAIN moved.store.load : moved.store.load[p] \in LoadStates
        /\ \A p \in DOMAIN moved.tokens : LoadOf(moved.store, p) = "loading"
    BY <1>5, <1>6, CarriedViewed
  <1> HIDE DEF moved
  <1>8. Viewed(e)
    BY <1>2, <1>7 DEF Viewed, Facets
  <1> QED  BY <1>8 DEF e

\* A method that changes which groups are open, or less than that.
LEMMA OpenedViewed ==
    ASSUME NEW d, Viewed(d), NEW e, e.tokens = d.tokens, e.store.load = d.store.load,
           e.store.paths = d.store.paths, e.store.expanded \subseteq d.store.paths,
           e.flatten \in BOOLEAN, e.told \subseteq Facets
    PROVE  Viewed(e)
  BY DEF Viewed, LoadOf

LEMMA PlainViewed ==
    ASSUME NEW d, Typed(d), Viewed(d)
    PROVE  /\ \A on \in BOOLEAN : Viewed(SetFlatten(d, on))
           /\ \A own : Viewed(SetAccountStatus(d, own))
           /\ \A p : Viewed(SetFocusedPath(d, p)) /\ Viewed(BeginRename(d, p))
           /\ Viewed(ClearSelection(d)) /\ Viewed(CancelRename(d))
           /\ Viewed(Read(d))
  <1>1. Viewed(Tell(d, {}))
    BY TellNothingViewed
  <1>2. ASSUME NEW e, e.store = d.store, e.tokens = d.tokens, e.flatten \in BOOLEAN,
               e.told \subseteq Facets
        PROVE  Viewed(e)
    BY <1>2, OpenedViewed DEF Viewed
  <1>3. d.flatten \in BOOLEAN /\ d.told \subseteq Facets
    BY DEF Viewed
  <1>4. {"status"} \subseteq Facets /\ {"focus"} \subseteq Facets /\ {"rename"} \subseteq Facets
        /\ {"selection"} \subseteq Facets /\ {"expansion"} \subseteq Facets
    BY DEF Facets
  <1>5. ASSUME NEW on \in BOOLEAN PROVE Viewed(SetFlatten(d, on))
    <2> DEFINE e == Tell([Dirty(d) EXCEPT !.flatten = on], {"expansion"})
    <2>1. e.store = d.store /\ e.tokens = d.tokens /\ e.flatten = on /\ e.told = {"expansion"}
      BY DEF Tell, Dirty, Typed
    <2> HIDE DEF e
    <2>2. Viewed(e)
      BY <1>2, <1>4, <2>1
    <2> QED  BY <1>1, <2>2 DEF SetFlatten, e
  <1>6. ASSUME NEW own PROVE Viewed(SetAccountStatus(d, own))
    <2> DEFINE e == SetAccountStatus(d, own)
    <2>1. e.store = d.store /\ e.tokens = d.tokens /\ e.flatten = d.flatten /\ e.told = {"status"}
      BY DEF SetAccountStatus, Tell, Typed
    <2> HIDE DEF e
    <2>2. Viewed(e)
      BY <1>2, <1>3, <1>4, <2>1
    <2> QED  BY <2>2 DEF e
  <1>7. ASSUME NEW p PROVE Viewed(SetFocusedPath(d, p)) /\ Viewed(BeginRename(d, p))
    <2> DEFINE e == Tell([d EXCEPT !.focus = p], {"focus"})
               f == Tell([d EXCEPT !.renaming = p], {"rename"})
    <2>1. /\ e.store = d.store /\ e.tokens = d.tokens /\ e.flatten = d.flatten /\ e.told = {"focus"}
          /\ f.store = d.store /\ f.tokens = d.tokens /\ f.flatten = d.flatten /\ f.told = {"rename"}
      BY DEF Tell, Typed
    <2> HIDE DEF e, f
    <2>2. Viewed(e) /\ Viewed(f)
      BY <1>2, <1>3, <1>4, <2>1
    <2> QED  BY <1>1, <2>2 DEF SetFocusedPath, BeginRename, e, f
  <1>8. Viewed(ClearSelection(d)) /\ Viewed(CancelRename(d))
    <2> DEFINE e == Tell([d EXCEPT !.selection = {}, !.anchor = None], {"selection"})
               f == Tell([d EXCEPT !.renaming = None], {"rename"})
    <2>1. /\ e.store = d.store /\ e.tokens = d.tokens /\ e.flatten = d.flatten /\ e.told = {"selection"}
          /\ f.store = d.store /\ f.tokens = d.tokens /\ f.flatten = d.flatten /\ f.told = {"rename"}
      BY DEF Tell, Typed
    <2> HIDE DEF e, f
    <2>2. Viewed(e) /\ Viewed(f)
      BY <1>2, <1>3, <1>4, <2>1
    <2> QED  BY <1>1, <2>2 DEF ClearSelection, CancelRename, e, f
  <1>9. Viewed(Read(d))
    <2> DEFINE e == Read(d)
    <2>1. e.store = d.store /\ e.tokens = d.tokens /\ e.flatten = d.flatten /\ e.told = d.told
      BY DEF Read, Typed
    <2> HIDE DEF e
    <2>2. Viewed(e)
      BY <1>2, <1>3, <2>1
    <2> QED  BY <2>2 DEF e
  <1> QED  BY <1>5, <1>6, <1>7, <1>8, <1>9

LEMMA RowFoundViewed ==
    ASSUME NEW d, Typed(d), Viewed(d), NEW e, \E i : e = FocusRow(Read(d), i)
    PROVE  Viewed(e)
  <1>1. Typed(Read(d)) /\ Viewed(Read(d))
    BY ReadAside, PlainViewed
  <1>2. Viewed(Tell(Read(d), {})) /\ \A p : Viewed(SetFocusedPath(Read(d), p))
    BY <1>1, TellNothingViewed, PlainViewed
  <1> QED  BY <1>2 DEF FocusRow

LEMMA SelectViewed ==
    ASSUME NEW d, Typed(d), Viewed(d)
    PROVE  /\ \A p, additive, range : Viewed(SelectPath(d, p, additive, range))
           /\ \A delta : Viewed(MoveFocus(d, delta))
           /\ \A at : Viewed(FocusIndex(d, at))
           /\ \A leaves : Viewed(TypeAhead(d, leaves))
           /\ \A forward : Viewed(FocusMatch(d, forward))
  <1>1. ASSUME NEW p, NEW additive, NEW range PROVE Viewed(SelectPath(d, p, additive, range))
    <2>1. CASE p \notin d.store.paths
      BY <2>1, TellNothingViewed DEF SelectPath
    <2>2. CASE p \in d.store.paths
      <3> DEFINE told(selection) == (IF selection = d.selection THEN {} ELSE {"selection"})
                                      \cup (IF d.focus = p THEN {} ELSE {"focus"})
                 seen == Read(d)
                 e == SelectPath(d, p, additive, range)
      <3>1. PICK selection, anchor :
              e = Tell([seen EXCEPT !.selection = selection, !.focus = p, !.anchor = anchor],
                       told(selection))
        BY <2>2, SelectFinds
      <3>2. told(selection) \subseteq Facets
        BY DEF Facets
      <3>3. Typed(seen) /\ Viewed(seen)
        BY ReadAside, PlainViewed
      <3> HIDE DEF told, seen, e
      <3>4. /\ e.store = seen.store /\ e.tokens = seen.tokens /\ e.flatten = seen.flatten
            /\ e.told = told(selection)
        BY <3>1, <3>3 DEF Tell, Typed
      <3>5. Viewed(e)
        BY <3>2, <3>3, <3>4, OpenedViewed DEF Viewed
      <3> QED  BY <3>5 DEF e
    <2> QED  BY <2>1, <2>2
  <1>2. \A delta : Viewed(MoveFocus(d, delta))
    BY MoveFocusFinds, RowFoundViewed
  <1>3. \A at : Viewed(FocusIndex(d, at))
    BY FocusIndexFinds, RowFoundViewed
  <1>4. \A leaves : Viewed(TypeAhead(d, leaves))
    BY TypeAheadFinds, RowFoundViewed
  <1>5. ASSUME NEW forward PROVE Viewed(FocusMatch(d, forward))
    <2>1. CASE d.session = None \/ d.matches = {}
      BY <2>1, TellNothingViewed DEF FocusMatch
    <2>2. CASE d.session # None /\ d.matches # {}
      BY <2>2, FocusMatchFinds, RowFoundViewed
    <2> QED  BY <2>1, <2>2
  <1> QED  BY <1>1, <1>2, <1>3, <1>4, <1>5

LEMMA RequestViewed ==
    ASSUME NEW d, Typed(d), Viewed(d), NEW p
    PROVE  Viewed(RequestChildLoad(d, p))
  <1> DEFINE store == SetLoads(d.store, {p}, "loading")
             tokens == [q \in DOMAIN d.tokens \cup {p} |->
                          IF q = p THEN d.counter + 1 ELSE d.tokens[q]]
             e == Tell([Dirty(d) EXCEPT
                          !.store = SetLoads(@, {p}, "loading"),
                          !.counter = @ + 1,
                          !.tokens = [q \in DOMAIN @ \cup {p} |->
                                        IF q = p THEN d.counter + 1 ELSE @[q]]],
                       {"expansion"})
  <1>1. /\ DOMAIN store = StoreFields /\ store.paths = d.store.paths
        /\ store.children = d.store.children
        /\ DOMAIN store.load = DOMAIN d.store.load \cup {p}
        /\ \A q \in DOMAIN store.load :
             store.load[q] = IF q = p THEN "loading" ELSE d.store.load[q]
    BY LoadsSet DEF Typed
  <1>2. store.expanded = d.store.expanded
    BY DEF SetLoads, Typed
  <1>3. /\ e.store = store /\ e.tokens = tokens /\ e.flatten = d.flatten
        /\ e.told = {"expansion"}
    BY DEF Tell, Dirty, Typed
  <1>4. DOMAIN tokens = DOMAIN d.tokens \cup {p}
    OBVIOUS
  <1> HIDE DEF store, tokens, e
  <1>5. \A q \in DOMAIN e.tokens : LoadOf(e.store, q) = "loading"
    <2>1. \A q \in DOMAIN d.tokens : q \in DOMAIN d.store.load /\ d.store.load[q] = "loading"
      BY Awaiting DEF Viewed
    <2> QED  BY <1>1, <1>3, <1>4, <2>1 DEF LoadOf
  <1>6. \A q \in DOMAIN e.store.load : e.store.load[q] \in LoadStates
    BY <1>1, <1>3 DEF Viewed, LoadStates
  <1>7. Viewed(e)
    BY <1>1, <1>2, <1>3, <1>5, <1>6 DEF Viewed, Facets
  <1> QED  BY <1>7, TellNothingViewed DEF RequestChildLoad, e

\* A reset of groups whose fetches are not waited for any more.
LEMMA ResetViewed ==
    ASSUME NEW d, Typed(d), Charts(d), Viewed(d), NEW paths, NEW tokens,
           NEW e, e = Tell([Dirty(d) EXCEPT !.store = Unloaded(@, paths), !.tokens = tokens],
                           {"expansion"}),
           DOMAIN tokens \subseteq DOMAIN d.tokens \ paths
    PROVE  Viewed(e)
  <1> DEFINE store == Unloaded(d.store, paths)
             known == paths \cap d.store.paths
  <1>1. /\ DOMAIN store = StoreFields /\ store.paths = d.store.paths
        /\ store.children = d.store.children
        /\ DOMAIN store.load = DOMAIN d.store.load \cup known
        /\ \A p \in DOMAIN store.load :
             store.load[p] = IF p \in known THEN "unloaded" ELSE d.store.load[p]
    BY UnloadedIs DEF Typed
  <1>2. store.expanded = d.store.expanded \ paths
    BY DEF Unloaded, SetLoads, Typed
  <1>3. /\ e.store = store /\ e.tokens = tokens /\ e.flatten = d.flatten
        /\ e.told = {"expansion"}
    BY DEF Tell, Dirty, Typed
  <1> HIDE DEF store
  <1>4. \A q \in DOMAIN e.tokens : LoadOf(e.store, q) = "loading"
    BY <1>1, <1>3, Awaiting DEF Viewed
  <1>5. \A q \in DOMAIN e.store.load : e.store.load[q] \in LoadStates
    BY <1>1, <1>3 DEF Viewed, LoadStates
  <1> QED  BY <1>1, <1>2, <1>3, <1>4, <1>5 DEF Viewed, Facets

LEMMA ResetsViewed ==
    ASSUME NEW d, Typed(d), Charts(d), Viewed(d)
    PROVE  (\A paths : Viewed(MarkUnloaded(d, paths))) /\ Viewed(CancelChildLoads(d))
  <1>1. ASSUME NEW paths PROVE Viewed(MarkUnloaded(d, paths))
    <2> DEFINE tokens == [p \in DOMAIN d.tokens \ paths |-> d.tokens[p]]
               e == MarkUnloaded(d, paths)
    <2>1. Dirty(d).tokens = d.tokens
      BY DEF Dirty, Typed
    <2>2. e = Tell([Dirty(d) EXCEPT !.store = Unloaded(@, paths), !.tokens = tokens],
                   {"expansion"})
      BY <2>1 DEF MarkUnloaded
    <2>3. DOMAIN tokens \subseteq DOMAIN d.tokens \ paths
      OBVIOUS
    <2> HIDE DEF tokens, e
    <2>4. Viewed(e)
      BY <2>2, <2>3, ResetViewed
    <2> QED  BY <2>4 DEF e
  <1>2. Viewed(CancelChildLoads(d))
    <2> DEFINE tokens == <<>>
               e == Tell([Dirty(d) EXCEPT !.store = Unloaded(@, DOMAIN d.tokens),
                                          !.tokens = tokens], {"expansion"})
    <2>1. DOMAIN tokens \subseteq DOMAIN d.tokens \ DOMAIN d.tokens
      OBVIOUS
    <2> HIDE DEF tokens
    <2>2. Viewed(e)
      BY <2>1, ResetViewed
    <2> HIDE DEF e
    <2> QED  BY <2>2, TellNothingViewed DEF CancelChildLoads, e, tokens
  <1> QED  BY <1>1, <1>2

LEMMA ExpansionViewed ==
    ASSUME NEW d, Typed(d), Viewed(d)
    PROVE  /\ Viewed(ExpandAll(d)) /\ Viewed(CollapseAll(d))
           /\ \A p : Viewed(RevealPath(d, p))
  <1> DEFINE known == {p \in d.store.paths : Children(d.store, p) # {}}
             all == ExpandAll(d)
             none == CollapseAll(d)
  <1>1. /\ all.store.paths = d.store.paths /\ all.store.load = d.store.load
        /\ all.store.expanded = d.store.expanded \cup known /\ all.tokens = d.tokens
        /\ all.flatten = d.flatten /\ all.told = {"expansion"}
    BY DEF ExpandAll, Tell, Dirty, Typed
  <1>2. /\ none.store.paths = d.store.paths /\ none.store.load = d.store.load
        /\ none.store.expanded = {} /\ none.tokens = d.tokens
        /\ none.flatten = d.flatten /\ none.told = {"expansion"}
    BY DEF CollapseAll, Tell, Dirty, Typed
  <1> HIDE DEF all, none
  <1>3. Viewed(all)
    BY <1>1, OpenedViewed DEF Viewed, Facets
  <1>4. Viewed(none)
    BY <1>2, OpenedViewed DEF Viewed, Facets
  <1>5. ASSUME NEW p PROVE Viewed(RevealPath(d, p))
    <2> DEFINE closed == {q \in Lineage(p) \ {p} : ~IsExpanded(d.store, q)}
               store == SetExpansion(d.store, closed, closed)
               e == Tell([Dirty(d) EXCEPT !.store = SetExpansion(@, closed, closed)],
                         {"expansion"})
    <2>1. store.paths = d.store.paths /\ store.load = d.store.load
          /\ store.expanded \subseteq d.store.paths
      BY StoreKept, OnlyAccountsOpen DEF Typed, Viewed
    <2> HIDE DEF closed
    <2>2. /\ e.store = store /\ e.tokens = d.tokens /\ e.flatten = d.flatten
          /\ e.told = {"expansion"}
      BY DEF Tell, Dirty, Typed
    <2> HIDE DEF store, e
    <2>3. Viewed(e)
      BY <2>1, <2>2, OpenedViewed DEF Viewed, Facets
    <2> QED  BY <2>3, TellNothingViewed DEF RevealPath, e, closed
  <1> QED  BY <1>3, <1>4, <1>5 DEF all, none

LEMMA SetExpandedViewed ==
    ASSUME NEW d, Typed(d), Viewed(d), NEW p, NEW on
    PROVE  Viewed(SetExpanded(d, p, on))
  <1> DEFINE open == IF on THEN {p} ELSE {}
             store == SetExpansion(d.store, {p}, open)
             opened == Tell([Dirty(d) EXCEPT
                               !.store = SetExpansion(@, {p}, IF on THEN {p} ELSE {})],
                            {"expansion"})
  <1>1. /\ DOMAIN store = StoreFields /\ store.paths = d.store.paths
        /\ store.load = d.store.load /\ store.expanded \subseteq d.store.paths
    BY StoreKept, OnlyAccountsOpen DEF Typed, Viewed
  <1>2. /\ DOMAIN opened = Fields /\ opened.own = d.own /\ opened.store = store
        /\ opened.tokens = d.tokens /\ opened.flatten = d.flatten
        /\ opened.told = {"expansion"}
    BY DEF Tell, Dirty, Typed
  <1>3. SetExpanded(d, p, on) \in {Tell(d, {}), RequestChildLoad(opened, p), opened}
    BY DEF SetExpanded
  <1> HIDE DEF store, opened
  <1>4. Viewed(opened) /\ Typed(opened)
    BY <1>1, <1>2, OpenedViewed DEF Viewed, Facets, Typed
  <1>5. Viewed(RequestChildLoad(opened, p))
    BY <1>4, RequestViewed
  <1> QED  BY <1>3, <1>4, <1>5, TellNothingViewed

LEMMA SearchViewed ==
    ASSUME NEW d, Typed(d), Viewed(d)
    PROVE  /\ \A query, mode : Viewed(BeginSearch(d, query, mode))
           /\ Viewed(EndSearch(d))
  <1>1. ASSUME NEW query, NEW mode PROVE Viewed(BeginSearch(d, query, mode))
    <2> DEFINE e == BeginSearch(d, query, mode)
    <2>1. PICK session, matches, filter, on, paths :
            \E shown \in {d.store, SetExpansion(d.store, paths, on)} :
              e = Tell([Dirty(d) EXCEPT !.session = session, !.matches = matches,
                                        !.store = shown, !.filter = filter],
                       {"expansion", "search"})
      <3> DEFINE session == IF d.session # None
                            THEN [d.session EXCEPT !.query = query,
                                                   !.mode = IF mode = None THEN @ ELSE mode]
                            ELSE [query |-> query,
                                  mode |-> IF mode = None THEN "expand-matches" ELSE mode,
                                  prior |-> SnapshotExpandedGroups(d)]
                 matches == {p \in d.mirror.all : \E i \in DOMAIN p : p[i] \in query}
                 above == Ancestors(matches)
                 gentle == session.mode = "expand-matches"
                 shown == CASE matches # {} /\ gentle -> SetExpansion(d.store, above, above)
                            [] matches # {} /\ ~gentle -> SetExpansion(d.store, d.mirror.groups, above)
                            [] matches = {} /\ gentle -> d.store
                            [] OTHER -> SetExpansion(d.store, d.mirror.groups, session.prior)
                 filter == IF session.mode = "hide-non-matches" /\ matches # {}
                           THEN matches \cup above ELSE None
      <3>1. e = Tell([Dirty(d) EXCEPT !.session = session, !.matches = matches,
                                      !.store = shown, !.filter = filter],
                     {"expansion", "search"})
        BY DEF BeginSearch
      <3>2. \/ shown = d.store
            \/ shown = SetExpansion(d.store, above, above)
            \/ shown = SetExpansion(d.store, d.mirror.groups, above)
            \/ shown = SetExpansion(d.store, d.mirror.groups, session.prior)
        OBVIOUS
      <3>3. \E paths, on : shown \in {d.store, SetExpansion(d.store, paths, on)}
        <4> HIDE DEF shown, above, session
        <4> QED  BY <3>2
      <3> HIDE DEF session, matches, shown, filter, e
      <3> QED  BY <3>1, <3>3
    <2>2. PICK shown \in {d.store, SetExpansion(d.store, paths, on)} :
            e = Tell([Dirty(d) EXCEPT !.session = session, !.matches = matches,
                                      !.store = shown, !.filter = filter],
                     {"expansion", "search"})
      BY <2>1
    <2>3. shown.paths = d.store.paths /\ shown.load = d.store.load
          /\ shown.expanded \subseteq d.store.paths
      BY StoreKept, OnlyAccountsOpen DEF Typed, Viewed
    <2> HIDE DEF e
    <2>4. /\ e.store = shown /\ e.tokens = d.tokens /\ e.flatten = d.flatten
          /\ e.told = {"expansion", "search"}
      BY <2>2 DEF Tell, Dirty, Typed
    <2>5. Viewed(e)
      BY <2>3, <2>4, OpenedViewed DEF Viewed, Facets
    <2> QED  BY <2>5 DEF e
  <1>2. Viewed(EndSearch(d))
    <2> DEFINE store == SetExpansion(d.store, d.mirror.groups, d.session.prior)
               e == Tell([Dirty(d) EXCEPT
                            !.session = None, !.matches = {}, !.filter = None,
                            !.store = SetExpansion(@, d.mirror.groups, d.session.prior)],
                         {"expansion", "search"})
    <2>1. store.paths = d.store.paths /\ store.load = d.store.load
          /\ store.expanded \subseteq d.store.paths
      BY StoreKept, OnlyAccountsOpen DEF Typed, Viewed
    <2>2. /\ e.store = store /\ e.tokens = d.tokens /\ e.flatten = d.flatten
          /\ e.told = {"expansion", "search"}
      BY DEF Tell, Dirty, Typed
    <2> HIDE DEF store, e
    <2>3. Viewed(e)
      BY <2>1, <2>2, OpenedViewed DEF Viewed, Facets
    <2> QED  BY <2>3, TellNothingViewed DEF EndSearch, e
  <1> QED  BY <1>1, <1>2

\* An answer that is taken, or not, leaves no other group waiting.
LEMMA SettleViewed ==
    ASSUME NEW d, Typed(d), Charts(d), Viewed(d), NEW p, NEW token, NEW children,
           children \subseteq Path
    PROVE  Viewed(SettleChildLoad(d, p, token, children))
  <1> DEFINE e == SettleChildLoad(d, p, token, children)
             tokens == Without(d.tokens, p)
             added == Missing(d.store, children)
             store == Collected(d.store, children)
             load == Without(d.store.load, p)
             loading == LoadOf(d.store, p) = "loading"
  <1>1. CASE ~(p \in DOMAIN d.tokens /\ d.tokens[p] = token)
    BY <1>1, TellNothingViewed DEF SettleChildLoad
  <1>2. CASE p \in DOMAIN d.tokens /\ d.tokens[p] = token
    <2>1. loading
      BY <1>2 DEF Viewed
    <2>2. /\ e.tokens = tokens /\ e.flatten = d.flatten /\ e.told = {"expansion"}
          /\ e.store = [store EXCEPT !.load = Without(@, p)]
      BY <1>2, <2>1 DEF SettleChildLoad, AbsorbLoadedPaths, Tell, Dirty, Typed
    <2>3. /\ DOMAIN store = StoreFields /\ store.paths = d.store.paths \cup added
          /\ store.load = d.store.load
          /\ store.expanded \subseteq d.store.expanded \cup added \cup ({Parent(q) : q \in added} \ {Root})
      BY DEF Collected, Typed
    <2>4. \A q \in added : Parent(q) \in d.store.paths \cup added \cup {Root}
      BY MissingFacts
    <2> HIDE DEF e, store, added
    <2>5. e.store.paths = store.paths /\ e.store.expanded = store.expanded /\ e.store.load = load
      BY <2>2, <2>3
    <2>6. e.store.expanded \subseteq e.store.paths
      BY <2>3, <2>4, <2>5 DEF Viewed
    <2>7. /\ DOMAIN load = DOMAIN d.store.load \ {p} /\ DOMAIN tokens = DOMAIN d.tokens \ {p}
          /\ \A q \in DOMAIN load : load[q] = d.store.load[q]
      BY DEF Without
    <2> HIDE DEF load, tokens
    <2>8. \A q \in DOMAIN d.tokens : q \in DOMAIN d.store.load /\ d.store.load[q] = "loading"
      BY Awaiting DEF Viewed
    <2>9. \A q \in DOMAIN e.tokens : LoadOf(e.store, q) = "loading"
      BY <2>2, <2>5, <2>7, <2>8 DEF LoadOf
    <2>10. \A q \in DOMAIN e.store.load : e.store.load[q] \in LoadStates
      BY <2>5, <2>7 DEF Viewed
    <2>11. Viewed(e)
      BY <2>2, <2>6, <2>9, <2>10 DEF Viewed, Facets
    <2> QED  BY <2>11 DEF e
  <1> QED  BY <1>1, <1>2

LEMMA FailViewed ==
    ASSUME NEW d, Typed(d), Charts(d), Viewed(d), NEW p, NEW token
    PROVE  Viewed(SettleChildLoadFailure(d, p, token))
  <1> DEFINE e == SettleChildLoadFailure(d, p, token)
             tokens == Without(d.tokens, p)
             store == SetLoads(d.store, {p}, "error")
             loading == LoadOf(d.store, p) = "loading"
  <1>1. CASE ~(p \in DOMAIN d.tokens /\ d.tokens[p] = token)
    BY <1>1, TellNothingViewed DEF SettleChildLoadFailure
  <1>2. CASE p \in DOMAIN d.tokens /\ d.tokens[p] = token
    <2>1. loading
      BY <1>2 DEF Viewed
    <2>2. /\ e.tokens = tokens /\ e.flatten = d.flatten /\ e.told = {"expansion"}
          /\ e.store = store
      BY <1>2, <2>1 DEF SettleChildLoadFailure, Tell, Dirty, Typed
    <2>3. /\ DOMAIN store = StoreFields /\ store.paths = d.store.paths
          /\ store.children = d.store.children
          /\ DOMAIN store.load = DOMAIN d.store.load \cup {p}
          /\ \A q \in DOMAIN store.load :
               store.load[q] = IF q = p THEN "error" ELSE d.store.load[q]
      BY LoadsSet DEF Typed
    <2>4. store.expanded = d.store.expanded
      BY DEF SetLoads, Typed
    <2>5. DOMAIN tokens = DOMAIN d.tokens \ {p}
      BY DEF Without
    <2> HIDE DEF e, store, tokens
    <2>6. \A q \in DOMAIN d.tokens : q \in DOMAIN d.store.load /\ d.store.load[q] = "loading"
      BY Awaiting DEF Viewed
    <2>7. \A q \in DOMAIN e.tokens : LoadOf(e.store, q) = "loading"
      BY <2>2, <2>3, <2>5, <2>6 DEF LoadOf
    <2>8. \A q \in DOMAIN e.store.load : e.store.load[q] \in LoadStates
      BY <2>2, <2>3 DEF Viewed, LoadStates
    <2>9. Viewed(e)
      BY <2>2, <2>3, <2>4, <2>7, <2>8 DEF Viewed, Facets
    <2> QED  BY <2>9 DEF e
  <1> QED  BY <1>1, <1>2

LEMMA RenameViewed ==
    ASSUME NEW d, Typed(d), Charts(d), Viewed(d), Inputs(d), NEW p \in d.mirror.all,
           NEW leaf \in Nat
    PROVE  Viewed(CommitRename(d, p, leaf))
  <1> DEFINE to == Append(Parent(p), leaf)
             ends == d.renaming = p
             closed == IF ends THEN [d EXCEPT !.renaming = None] ELSE d
             facet == IF ends THEN {"rename"} ELSE {}
             moves == <<[from |-> p, to |-> to]>>
             e == CommitRename(d, p, leaf)
  <1>1. /\ DOMAIN closed = Fields /\ closed.store = d.store /\ closed.mirror = d.mirror
        /\ closed.accounts = d.accounts /\ closed.entries = d.entries /\ closed.own = d.own
        /\ closed.tokens = d.tokens /\ closed.flatten = d.flatten /\ closed.told = d.told
    BY DEF Typed
  <1>2. \/ e = Tell(d, {}) \/ e = Tell(closed, facet)
        \/ /\ leaf # 0 /\ to # p /\ to \notin d.store.paths
           /\ e = ApplyRemap(closed, moves, {}, facet)
    BY DEF CommitRename
  <1>3. facet \in SUBSET {"rename"} /\ facet \in SUBSET Facets
    BY DEF Facets
  <1> HIDE DEF closed, facet, moves, e, to, ends
  <1>4. Typed(closed) /\ Charts(closed) /\ Viewed(closed) /\ Inputs(closed)
    BY <1>1 DEF Typed, Charts, Viewed, Inputs
  <1>5. CASE e = Tell(d, {})
    BY <1>5, TellNothingViewed DEF e
  <1>6. CASE e = Tell(closed, facet)
    BY <1>3, <1>4, <1>6, TellViewed DEF e
  <1>7. CASE /\ leaf # 0 /\ to # p /\ to \notin d.store.paths
             /\ e = ApplyRemap(closed, moves, {}, facet)
    <2>1. p \in closed.mirror.all /\ to \notin closed.mirror.all
      BY <1>1, <1>4, <1>7 DEF Charts
    <2>2. Fits(closed, moves, {})
      BY <1>4, <1>7, <2>1, RenameFits DEF moves, to
    <2> QED  BY <1>3, <1>4, <1>7, <2>2, RemapViewed DEF e
  <1> QED  BY <1>2, <1>5, <1>6, <1>7

LEMMA DropViewed ==
    ASSUME NEW d, Typed(d), Charts(d), Viewed(d), Inputs(d), NEW drop,
           drop.sources \in Seq(Seq(Nat))
    PROVE  Viewed(MovePaths(d, drop))
  <1> DEFINE plan == PlanMoves(d, drop.sources, drop.target, drop.collision)
  <1>1. plan.moves # <<>> => Fits(d, plan.moves, plan.replaced)
    BY PlanFits DEF Path
  <1> HIDE DEF plan
  <1>2. plan.moves # <<>> => Viewed(ApplyRemap(d, plan.moves, plan.replaced, {}))
    BY <1>1, RemapViewed
  <1> QED  BY <1>2, TellNothingViewed DEF MovePaths, plan

LEMMA ViewStarts == Init => Viewed(c)
  <1> SUFFICES ASSUME Init PROVE Viewed(c)
    OBVIOUS
  <1>1. PICK setup \in Setups : c = Constructed(setup)
    BY DEF Init
  <1> DEFINE mirror == MirrorOf(setup.entries, setup.accounts)
             built == Built(setup.entries, setup.accounts)
             marked == Unloaded(built, setup.unloaded)
             store == InitiallyExpanded(marked, mirror, setup.mode)
  <1>2. /\ DOMAIN built = StoreFields /\ built.load = <<>>
        /\ built.expanded \subseteq built.paths
    BY BuiltIs, BuiltOpen, ControllerAssumption
  <1> HIDE DEF built, mirror
  <1>3. /\ DOMAIN marked = StoreFields /\ marked.paths = built.paths
        /\ \A p \in DOMAIN marked.load : marked.load[p] = "unloaded"
    BY <1>2, UnloadedIs
  <1>4. marked.expanded \subseteq marked.paths
    <2>1. marked.expanded = built.expanded \ setup.unloaded
      BY <1>2 DEF Unloaded, SetLoads
    <2> HIDE DEF marked
    <2> QED  BY <1>2, <1>3, <2>1
  <1> HIDE DEF marked
  <1>5. store.load = marked.load /\ store.expanded \subseteq store.paths
    <2> DEFINE closed == [marked EXCEPT !.expanded = {}]
               open == IF setup.mode.kind = "top-level"
                       THEN {p \in mirror.groups : Len(p) = 1}
                       ELSE UNION {Lineage(p) : p \in setup.mode.paths}
    <2>1. /\ DOMAIN closed = StoreFields /\ closed.paths = marked.paths
          /\ closed.expanded = {} /\ closed.load = marked.load
      BY <1>3
    <2>2. store = IF setup.mode.kind = "all" THEN marked
                  ELSE SetExpansion(closed, open, open)
      BY DEF InitiallyExpanded
    <2> HIDE DEF closed, open, store
    <2> QED  BY <1>4, <2>1, <2>2, StoreKept, OnlyAccountsOpen
  <1>6. c.store = store /\ c.tokens = <<>> /\ c.flatten = FALSE /\ c.told = {}
    BY <1>1 DEF Constructed, mirror, built, marked
  <1> HIDE DEF store
  <1>7. DOMAIN <<>> = {}
    OBVIOUS
  <1> QED  BY <1>3, <1>5, <1>6, <1>7 DEF Viewed, LoadStates

LEMMA ViewsKeep ==
    ASSUME ControllerInv(c, fetches), EditInv(c), Viewed(c), [Next]_vars
    PROVE  Viewed(c')
  <1>1. Typed(c) /\ Charts(c) /\ Inputs(c) /\ Viewed(c)
    BY DEF ControllerInv, EditInv
  <1>2. ASSUME NEW outcomes, Do(outcomes), \A after \in outcomes : Viewed(after)
        PROVE  Viewed(c')
    BY <1>2 DEF Do
  <1> HIDE DEF Viewed
  <1>3. ASSUME Data PROVE Viewed(c')
    <2>1. \A entries \in EntrySets : Viewed(SetEntries(c, entries))
      BY <1>1, SetEntriesViewed, ControllerAssumption
    <2>2. /\ \A on \in BOOLEAN : Viewed(SetFlatten(c, on))
          /\ \A own \in Decorations : Viewed(SetAccountStatus(c, own))
      BY <1>1, PlainViewed
    <2> QED  BY <1>2, <1>3, <2>1, <2>2 DEF Data
  <1>4. ASSUME Browse PROVE Viewed(c')
    <2>1. \A p \in Accounts, on \in BOOLEAN : Viewed(SetExpanded(c, p, on))
      BY <1>1, SetExpandedViewed
    <2>2. /\ Viewed(ExpandAll(c)) /\ Viewed(CollapseAll(c))
          /\ \A p \in Accounts : Viewed(RevealPath(c, p))
      BY <1>1, ExpansionViewed
    <2>3. Viewed(Tell(Read(c), {}))
      BY <1>1, ReadAside, PlainViewed, TellNothingViewed
    <2> QED  BY <1>2, <1>4, <2>1, <2>2, <2>3 DEF Browse
  <1>5. ASSUME Load PROVE Viewed(c')
    <2>1. \A p \in Accounts : Viewed(RequestChildLoad(c, p)) /\ Viewed(MarkUnloaded(c, {p}))
      BY <1>1, RequestViewed, ResetsViewed
    <2>2. Viewed(CancelChildLoads(c))
      BY <1>1, ResetsViewed
    <2> QED  BY <1>2, <1>5, <2>1, <2>2 DEF Load
  <1>6. ASSUME Select PROVE Viewed(c')
    <2>1. /\ \A p \in Accounts, additive, range \in BOOLEAN :
               Viewed(SelectPath(c, p, additive, range))
          /\ \A delta : Viewed(MoveFocus(c, delta))
          /\ \A at : Viewed(FocusIndex(c, at))
          /\ \A leaves : Viewed(TypeAhead(c, leaves))
      BY <1>1, SelectViewed
    <2>2. Viewed(ClearSelection(c)) /\ \A p : Viewed(SetFocusedPath(c, p))
      BY <1>1, PlainViewed
    <2> QED  BY <1>2, <1>6, <2>1, <2>2 DEF Select
  <1>7. ASSUME Search PROVE Viewed(c')
    <2>1. /\ \A query \in Queries, mode \in Modes \cup {None} : Viewed(BeginSearch(c, query, mode))
          /\ Viewed(EndSearch(c))
      BY <1>1, SearchViewed
    <2>2. \A forward \in BOOLEAN : Viewed(FocusMatch(c, forward))
      BY <1>1, SelectViewed
    <2> QED  BY <1>2, <1>7, <2>1, <2>2 DEF Search
  <1>8. ASSUME Edit PROVE Viewed(c')
    <2>1. /\ \A p \in Accounts : Viewed(BeginRename(c, p))
          /\ Viewed(CancelRename(c))
      BY <1>1, PlainViewed
    <2>2. ASSUME NEW p \in Accounts, NEW leaf \in Leaves PROVE Viewed(CommitRename(c, p, leaf))
      <3>1. leaf \in Nat /\ p \in c.mirror.all
        BY ControllerAssumption DEF Accounts
      <3> QED  BY <1>1, <3>1, RenameViewed
    <2>3. \A drop \in Drops : Viewed(MovePaths(c, drop))
      <3>1. \A drop \in Drops : drop.sources \in Seq(Seq(Nat))
        BY ControllerAssumption
      <3> QED  BY <1>1, <3>1, DropViewed
    <2> QED  BY <1>2, <1>8, <2>1, <2>2, <2>3 DEF Edit
  <1>9. ASSUME NEW f \in fetches, Settle(f) \/ Fail(f) PROVE Viewed(c')
    <2>1. \A children \in Answers : Viewed(SettleChildLoad(c, f.path, f.token, children))
      BY <1>1, SettleViewed, ControllerAssumption DEF ArePaths, Path
    <2>2. Viewed(SettleChildLoadFailure(c, f.path, f.token))
      BY <1>1, FailViewed
    <2> QED  BY <1>9, <2>1, <2>2 DEF Settle, Fail
  <1>10. ASSUME UNCHANGED vars PROVE Viewed(c')
    BY <1>1, <1>10 DEF vars
  <1> QED  BY <1>3, <1>4, <1>5, <1>6, <1>7, <1>8, <1>9, <1>10 DEF Next

LEMMA GesturesBounded ==
    ASSUME gestures \in 0 .. MaxGestures, [Next]_vars
    PROVE  gestures' \in 0 .. MaxGestures
  <1>1. MaxGestures \in Nat
    BY ControllerAssumption
  <1>2. ASSUME NEW outcomes, Do(outcomes) PROVE gestures' \in 0 .. MaxGestures
    BY <1>1, <1>2 DEF Do
  <1>3. Data \/ Browse \/ Load \/ Select \/ Search \/ Edit => gestures' \in 0 .. MaxGestures
    BY <1>2 DEF Data, Browse, Load, Select, Search, Edit
  <1>4. ASSUME NEW f \in fetches, Settle(f) \/ Fail(f) PROVE gestures' = gestures
    BY <1>4 DEF Settle, Fail
  <1> QED  BY <1>3, <1>4 DEF Next, vars

LEMMA InvIsTyped ==
    ControllerInv(c, fetches) /\ EditInv(c) /\ Viewed(c) /\ gestures \in 0 .. MaxGestures
      => ControllerTypeOK /\ AnswersAwaited
  <1> SUFFICES ASSUME ControllerInv(c, fetches), EditInv(c), Viewed(c),
                      gestures \in 0 .. MaxGestures
               PROVE  ControllerTypeOK /\ AnswersAwaited
    OBVIOUS
  <1>1. AnswersAwaited
    BY DEF Viewed, AnswersAwaited
  <1>2. c.mirror.groups \subseteq c.mirror.all /\ c.store.expanded \subseteq c.mirror.all
        /\ DOMAIN c.store.load \subseteq c.mirror.all
    BY GroupsArePaths DEF ControllerInv, Charts, Viewed, EditInv
  <1>3. {c.store.load[p] : p \in DOMAIN c.store.load} \subseteq {"unloaded", "loading", "error"}
    BY DEF Viewed, LoadStates
  <1>4. {c.tokens[p] : p \in DOMAIN c.tokens} \cup {f.token : f \in fetches} \subseteq 1 .. c.counter
    BY DEF ControllerInv, Numbered
  <1>5. /\ c.session # None => c.session.mode \in Modes
        /\ c.filter # None => c.session # None
    BY DEF EditInv, Searched, Session
  <1>6. ControllerTypeOK
    BY <1>2, <1>3, <1>4, <1>5 DEF ControllerTypeOK, Viewed, Facets
  <1> QED  BY <1>1, <1>6

-----------------------------------------------------------------------------
(* Flattened rows *)




\* The chart that rows are made of, in the inputs r of a walk.
Drawn(r) ==
    /\ IsFiniteSet(r.mirror.all)
    /\ \A p \in r.mirror.all :
         /\ p \in Path /\ p # Root
         /\ \A q \in Path : q # Root /\ IsPrefix(q, p) => q \in r.mirror.all
    /\ r.mirror.groups \subseteq DOMAIN r.mirror.kids
    /\ DOMAIN r.mirror.kids = {Parent(p) : p \in r.mirror.all}
    /\ \A p \in DOMAIN r.mirror.kids : r.mirror.kids[p] = {q \in r.mirror.all : Parent(q) = p}

\* Every path from f down to q swallows the next one.
Joined(r, f, q) ==
    /\ IsPrefix(f, q)
    /\ \A k \in Len(f) .. Len(q) - 1 : Merges(r, SubSeq(q, 1, k), SubSeq(q, 1, k + 1))

LEMMA MergeFacts ==
    ASSUME NEW r, Drawn(r), NEW x, NEW y, Merges(r, x, y)
    PROVE  /\ x \in r.mirror.all \cup {Root} /\ y \in r.mirror.all /\ Admits(r, y)
           /\ Parent(y) = x
           /\ \A z \in r.mirror.all : Parent(z) = x => z = y
  <1>1. /\ x \in DOMAIN r.mirror.kids /\ r.mirror.kids[x] = {y}
        /\ {y} = {q \in r.mirror.all : Parent(q) = x} /\ Admits(r, y)
    BY DEF Merges, Drawn
  <1>2. y \in r.mirror.all /\ Parent(y) = x /\ y \in Path /\ y # Root
    BY <1>1 DEF Drawn
  <1>3. x \in r.mirror.all \cup {Root}
    BY <1>2, ParentType, ParentPrefix DEF Drawn
  <1> QED  BY <1>1, <1>2, <1>3

\* A chain leaves one way down.
LEMMA OnlyWay ==
    ASSUME NEW r, Drawn(r), NEW f \in r.mirror.all, NEW q \in r.mirror.all,
           NEW p \in r.mirror.all, Joined(r, f, q), IsPrefix(f, p)
    PROVE  IsPrefix(p, q) \/ IsPrefix(q, p)
  <1>1. f \in Path /\ q \in Path /\ p \in Path /\ f # Root /\ IsPrefix(f, q)
    BY DEF Drawn, Joined
  <1>2. /\ Len(f) \in Nat \ {0} /\ Len(p) \in Nat /\ Len(q) \in Nat
        /\ Len(f) <= Len(p) /\ Len(f) <= Len(q)
        /\ f = SubSeq(q, 1, Len(f)) /\ f = SubSeq(p, 1, Len(f))
    BY <1>1, PrefixCut, ParentType DEF Path
  <1> DEFINE L == (IF Len(p) <= Len(q) THEN Len(p) ELSE Len(q)) - Len(f)
             cut(s, n) == SubSeq(s, 1, Len(f) + n)
             T == {n \in Nat : cut(p, n) = cut(q, n)}
  <1>3. L \in Nat /\ Len(f) + L <= Len(p) /\ Len(f) + L <= Len(q)
        /\ (Len(f) + L = Len(p) \/ Len(f) + L = Len(q))
    BY <1>2
  <1> HIDE DEF L
  <1>4. 0 \in T
    BY <1>2
  <1>5. ASSUME NEW n \in 1 .. L, n - 1 \in T PROVE n \in T
    <2> DEFINE k == Len(f) + (n - 1)
               x == SubSeq(q, 1, k)
               y == SubSeq(q, 1, k + 1)
               z == SubSeq(p, 1, k + 1)
    <2>1. k \in Nat /\ k + 1 = Len(f) + n /\ k \in Len(f) .. Len(q) - 1
          /\ k \in 0 .. Len(p) /\ k + 1 \in 0 .. Len(p) /\ k # Len(p) /\ k + 1 # 0
      BY <1>2, <1>3
    <2>2. x = SubSeq(p, 1, k)
      BY <1>5
    <2>3. Merges(r, x, y)
      BY <2>1 DEF Joined
    <2> HIDE DEF k
    <2>4. z \in Path /\ z # Root /\ IsPrefix(z, p) /\ Parent(z) = x
      BY <1>1, <2>1, <2>2, CutFacts
    <2>5. z \in r.mirror.all
      BY <2>4 DEF Drawn
    <2> HIDE DEF x, y, z
    <2>6. z = y
      BY <2>3, <2>4, <2>5, MergeFacts
    <2> QED  BY <2>1, <2>6 DEF y, z
  <1> HIDE DEF T
  <1>6. L \in T
    <2>1. \A n \in 0 .. L : n \in T
      BY <1>3, <1>4, <1>5, Counting
    <2> QED  BY <1>3, <2>1
  <1>7. SubSeq(p, 1, Len(f) + L) = SubSeq(q, 1, Len(f) + L)
    BY <1>6 DEF T
  <1>8. CASE Len(f) + L = Len(p)
    <2>1. p = SubSeq(q, 1, Len(p)) /\ Len(p) \in 0 .. Len(q)
      BY <1>1, <1>2, <1>3, <1>7, <1>8, PrefixOrder, PrefixCut
    <2>2. IsPrefix(SubSeq(q, 1, Len(p)), q)
      BY <1>1, <2>1, CutFacts
    <2> QED  BY <2>1, <2>2
  <1>9. CASE Len(f) + L = Len(q)
    <2>1. q = SubSeq(p, 1, Len(q)) /\ Len(q) \in 0 .. Len(p)
      BY <1>1, <1>2, <1>3, <1>7, <1>9, PrefixOrder, PrefixCut
    <2>2. IsPrefix(SubSeq(p, 1, Len(q)), p)
      BY <1>1, <2>1, CutFacts
    <2> QED  BY <2>1, <2>2
  <1> QED  BY <1>3, <1>8, <1>9

\* The deepest group of the chain that starts at f, from which on nothing is
\* swallowed; the chain's other paths have the same.
LEMMA EndFacts ==
    ASSUME NEW r, Drawn(r), NEW f \in r.mirror.all
    PROVE  LET e == ChainEnd(r, f)
           IN  /\ e \in r.mirror.all /\ IsPrefix(f, e)
               /\ \A g \in r.mirror.all : IsPrefix(f, g) /\ IsPrefix(g, e) =>
                    ChainEnd(r, g) = e /\ (g # f => Admits(r, g))
               /\ \A p \in r.mirror.all : IsPrefix(f, p) => IsPrefix(p, e) \/ IsPrefix(e, p)
  <1> DEFINE all == r.mirror.all
             ends(g) == {q \in all : Joined(r, g, q)}
             longest(g, q) == q \in ends(g) /\ \A other \in ends(g) : Len(other) <= Len(q)
             e == ChainEnd(r, f)
  <1>1. \A p \in all : p \in Path /\ p # Root /\ Len(p) \in Nat
    BY DEF Drawn, Path
  <1>2. \A g : ChainEnd(r, g) = CHOOSE q \in ends(g) : \A other \in ends(g) : Len(other) <= Len(q)
    BY DEF ChainEnd, Joined
  <1>3. longest(f, e)
    <2>1. Joined(r, f, f)
      BY <1>1, PrefixOrder DEF Joined
    <2>2. f \in ends(f) /\ ends(f) \subseteq Path
      BY <1>1, <2>1
    <2>3. IsFiniteSet(ends(f))
      BY FS_Subset, ends(f) \in SUBSET all DEF Drawn
    <2> HIDE DEF ends
    <2>4. \E q \in ends(f) : \A other \in ends(f) : Len(other) <= Len(q)
      BY <2>2, <2>3, Longest
    <2> QED  BY <1>2, <2>4
  <1>4. e \in all /\ Joined(r, f, e) /\ IsPrefix(f, e)
    BY <1>3 DEF Joined
  <1>5. \A p \in all : IsPrefix(f, p) => IsPrefix(p, e) \/ IsPrefix(e, p)
    BY <1>4, OnlyWay
  <1> HIDE DEF e
  <1>6. ASSUME NEW g \in all, IsPrefix(f, g), IsPrefix(g, e) PROVE ChainEnd(r, g) = e
    <2>1. g \in Path /\ f \in Path /\ e \in Path /\ Len(f) \in Nat /\ Len(g) \in Nat
          /\ Len(e) \in Nat /\ Len(f) <= Len(g) /\ Len(g) <= Len(e)
      BY <1>1, <1>4, <1>6, PrefixCut
    <2>2. Joined(r, g, e)
      BY <1>4, <1>6, <2>1 DEF Joined
    <2>3. ASSUME NEW q \in all, Joined(r, g, q) PROVE Joined(r, f, q)
      <3>1. q \in Path /\ IsPrefix(g, q) /\ IsPrefix(f, q) /\ Len(q) \in Nat /\ Len(g) <= Len(q)
        BY <1>1, <1>6, <2>1, <2>3, PrefixOrder, PrefixCut DEF Joined
      <3>2. ASSUME NEW k \in Len(f) .. Len(q) - 1
            PROVE  Merges(r, SubSeq(q, 1, k), SubSeq(q, 1, k + 1))
        <4>1. CASE k >= Len(g)
          BY <2>1, <2>3, <3>1, <4>1 DEF Joined
        <4>2. CASE k < Len(g)
          <5>1. k \in Len(f) .. Len(e) - 1 /\ k \in 0 .. Len(g) /\ k + 1 \in 0 .. Len(g)
            BY <2>1, <3>1, <4>2
          <5>2. Merges(r, SubSeq(e, 1, k), SubSeq(e, 1, k + 1))
            BY <1>4, <5>1 DEF Joined
          <5>3. ASSUME NEW j \in 0 .. Len(g) PROVE SubSeq(q, 1, j) = SubSeq(e, 1, j)
            <6> DEFINE x == SubSeq(g, 1, j)
            <6>1. x \in Path /\ Len(x) = j /\ IsPrefix(x, g)
              BY <2>1, CutFacts
            <6> HIDE DEF x
            <6>2. IsPrefix(x, q) /\ IsPrefix(x, e)
              BY <1>6, <2>1, <3>1, <6>1, PrefixOrder
            <6> QED  BY <2>1, <3>1, <6>1, <6>2, PrefixCut
          <5> QED  BY <5>1, <5>2, <5>3
        <4> QED  BY <2>1, <3>1, <4>1, <4>2
      <3> QED  BY <3>1, <3>2 DEF Joined
    <2>4. longest(g, e)
      BY <1>3, <1>4, <2>2, <2>3
    <2>5. ASSUME NEW q, longest(g, q) PROVE q = e
      <3>1. q \in all /\ Joined(r, g, q) /\ Len(q) <= Len(e) /\ Len(e) <= Len(q)
            /\ IsPrefix(g, e)
        BY <2>4, <2>5, <2>2, <1>4, <1>6
      <3>2. IsPrefix(e, q) \/ IsPrefix(q, e)
        BY <1>4, <3>1, OnlyWay
      <3> QED  BY <1>1, <1>4, <3>1, <3>2, PrefixOrder
    <2> HIDE DEF longest
    <2>6. e = CHOOSE q : longest(g, q)
      BY <2>4, <2>5
    <2> QED  BY <1>2, <2>4, <2>5 DEF longest
  <1>7. ASSUME NEW g \in all, IsPrefix(f, g), IsPrefix(g, e), g # f PROVE Admits(r, g)
    <2>1. g \in Path /\ f \in Path /\ e \in Path /\ Len(f) \in Nat /\ Len(g) \in Nat
          /\ Len(e) \in Nat /\ Len(f) <= Len(g) /\ Len(g) <= Len(e) /\ g = SubSeq(e, 1, Len(g))
      BY <1>1, <1>4, <1>7, PrefixCut
    <2>2. Len(f) # Len(g)
      BY <1>7, <2>1, PrefixOrder
    <2>3. Len(g) - 1 \in Len(f) .. Len(e) - 1 /\ Len(g) - 1 + 1 = Len(g)
      BY <2>1, <2>2
    <2>4. Merges(r, SubSeq(e, 1, Len(g) - 1), SubSeq(e, 1, Len(g) - 1 + 1))
      BY <1>4, <2>3 DEF Joined
    <2>5. Merges(r, SubSeq(e, 1, Len(g) - 1), g)
      BY <2>1, <2>3, <2>4
    <2> QED  BY <2>5, MergeFacts
  <1> QED  BY <1>4, <1>5, <1>6, <1>7 DEF e

-----------------------------------------------------------------------------
(* What is to be seen *)

\* A path at which the walk arrives, and one at which it leaves a row.
Reached(r, f) ==
    /\ f \in r.mirror.all
    /\ \A q \in Lineage(f) : Admits(r, q)
    /\ \A q \in Lineage(f) \ {f} : IsExpanded(r.store, q) \/ ChainEnd(r, q) # q

Visible(r, p) == Reached(r, p) /\ ChainEnd(r, p) = p

LEMMA EndVisible ==
    ASSUME NEW r, Drawn(r), NEW f, Reached(r, f)
    PROVE  Visible(r, ChainEnd(r, f))
  <1> DEFINE e == ChainEnd(r, f)
             all == r.mirror.all
  <1>1. f \in all /\ e \in all /\ IsPrefix(f, e) /\ f \in Path /\ e \in Path
    BY EndFacts DEF Reached, Drawn
  <1>2. \A g \in all : IsPrefix(f, g) /\ IsPrefix(g, e) =>
                         ChainEnd(r, g) = e /\ (g # f => Admits(r, g))
    BY <1>1, EndFacts
  <1> HIDE DEF e
  <1>3. ASSUME NEW q \in Lineage(e)
        PROVE  q \in all /\ (q \in Lineage(f) \/ (IsPrefix(f, q) /\ IsPrefix(q, e)))
    <2>1. q \in Path /\ q # Root /\ IsPrefix(q, e)
      BY <1>1, LineagePrefix
    <2>2. Len(q) \in Nat /\ Len(f) \in Nat
      BY <1>1, <2>1 DEF Path
    <2>3. IsPrefix(q, f) \/ IsPrefix(f, q)
      BY <1>1, <2>1, <2>2, PrefixOrder
    <2> QED  BY <1>1, <2>1, <2>3, LineagePrefix DEF Drawn
  <1>4. f \in Lineage(f)
    BY <1>1, LineageFacts DEF Drawn
  <1>5. ASSUME NEW q \in Lineage(e) PROVE Admits(r, q)
    BY <1>2, <1>3, <1>4, <1>5 DEF Reached
  <1>6. ASSUME NEW q \in Lineage(e), q # e PROVE IsExpanded(r.store, q) \/ ChainEnd(r, q) # q
    <2>1. CASE IsPrefix(f, q) /\ IsPrefix(q, e)
      BY <1>2, <1>3, <1>6, <2>1
    <2>2. CASE q \in Lineage(f) /\ q # f
      BY <2>2 DEF Reached
    <2>3. CASE q = f
      BY <1>1, <1>2, <1>6, <2>3, PrefixOrder
    <2> QED  BY <1>3, <2>1, <2>2, <2>3
  <1>7. ChainEnd(r, e) = e
    BY <1>1, <1>2, PrefixOrder
  <1> QED  BY <1>1, <1>5, <1>6, <1>7 DEF Visible, Reached, e

LEMMA ChildReached ==
    ASSUME NEW r, Drawn(r), NEW e, Visible(r, e), IsExpanded(r.store, e),
           NEW q \in r.mirror.all, Parent(q) = e, Admits(r, q)
    PROVE  Reached(r, q)
  <1>1. q \in Path /\ q # Root /\ e \in r.mirror.all /\ e \in Path
    BY DEF Drawn, Visible, Reached
  <1>2. ASSUME NEW x \in Lineage(q) PROVE x = q \/ x \in Lineage(e)
    <2>1. x \in Path /\ x # Root /\ IsPrefix(x, q)
      BY <1>1, LineagePrefix
    <2>2. x = q \/ IsPrefix(x, e)
      BY <1>1, <2>1, ParentPrefix
    <2> QED  BY <1>1, <2>1, <2>2, LineagePrefix
  <1> QED  BY <1>2 DEF Visible, Reached

LEMMA TopReached ==
    ASSUME NEW r, Drawn(r), NEW q \in r.mirror.all, Parent(q) = Root, Admits(r, q)
    PROVE  Reached(r, q)
  <1>1. q \in Path /\ q # Root
    BY DEF Drawn
  <1>2. ASSUME NEW x \in Lineage(q) PROVE x = q
    <2>1. x \in Path /\ x # Root /\ IsPrefix(x, q)
      BY <1>1, LineagePrefix
    <2> QED  BY <1>1, <2>1, ParentPrefix, RootPrefix
  <1> QED  BY <1>2 DEF Reached

\* The path one segment longer than x on the way to p.
LEMMA NextOn ==
    ASSUME NEW r, Drawn(r), NEW p \in r.mirror.all, \A q \in Lineage(p) : Admits(r, q),
           NEW x \in Path, IsPrefix(x, p), x # p
    PROVE  \E q \in r.mirror.all : Parent(q) = x /\ Admits(r, q) /\ IsPrefix(q, p)
  <1> DEFINE k == Len(x)
             q == SubSeq(p, 1, k + 1)
  <1>1. p \in Path /\ k \in 0 .. Len(p) /\ x = SubSeq(p, 1, k) /\ Len(p) \in Nat
    BY PrefixCut DEF Drawn, Path
  <1>2. k # Len(p)
    BY <1>1, PrefixOrder
  <1> HIDE DEF k
  <1>3. k + 1 \in 0 .. Len(p) /\ k + 1 # 0
    BY <1>1, <1>2
  <1>4. q \in Path /\ q # Root /\ IsPrefix(q, p) /\ Parent(q) = x
    BY <1>1, <1>2, <1>3, CutFacts
  <1> HIDE DEF q
  <1>5. q \in r.mirror.all /\ q \in Lineage(p)
    BY <1>1, <1>4, LineagePrefix DEF Drawn
  <1> QED  BY <1>4, <1>5

LEMMA VisibleBelow ==
    ASSUME NEW r, Drawn(r), NEW p, Visible(r, p), NEW f \in r.mirror.all, IsPrefix(f, p)
    PROVE  \/ p = ChainEnd(r, f)
           \/ /\ IsExpanded(r.store, ChainEnd(r, f))
              /\ \E q \in r.mirror.all :
                   Parent(q) = ChainEnd(r, f) /\ Admits(r, q) /\ IsPrefix(q, p)
  <1> DEFINE e == ChainEnd(r, f)
             all == r.mirror.all
  <1>1. /\ e \in all /\ p \in all /\ IsPrefix(f, e) /\ (IsPrefix(p, e) \/ IsPrefix(e, p))
        /\ f \in Path /\ e \in Path /\ p \in Path /\ e # Root
        /\ \A g \in all : IsPrefix(f, g) /\ IsPrefix(g, e) => ChainEnd(r, g) = e
    BY EndFacts DEF Visible, Reached, Drawn
  <1> HIDE DEF e
  <1>2. CASE IsPrefix(p, e)
    BY <1>1, <1>2 DEF Visible, e
  <1>3. CASE IsPrefix(e, p) /\ p # e
    <2>1. \E q \in all : Parent(q) = e /\ Admits(r, q) /\ IsPrefix(q, p)
      BY <1>1, <1>3, NextOn DEF Visible, Reached
    <2>2. e \in Lineage(p) \ {p}
      BY <1>1, <1>3, LineagePrefix
    <2>3. ChainEnd(r, e) = e
      BY <1>1, PrefixOrder
    <2>4. IsExpanded(r.store, e)
      BY <2>2, <2>3 DEF Visible, Reached
    <2> QED  BY <2>1, <2>4 DEF e
  <1> QED  BY <1>1, <1>2, <1>3 DEF e

LEMMA VisibleFromTop ==
    ASSUME NEW r, Drawn(r), NEW p, Visible(r, p)
    PROVE  \E q \in r.mirror.all : Parent(q) = Root /\ Admits(r, q) /\ IsPrefix(q, p)
  <1>1. p \in r.mirror.all /\ p \in Path /\ p # Root /\ \A q \in Lineage(p) : Admits(r, q)
    BY DEF Visible, Reached, Drawn
  <1>2. Root \in Path /\ Len(Root) = 0
    BY DEF Root, Path
  <1>3. IsPrefix(Root, p)
    <2>1. Len(p) \in Nat /\ Len(Root) <= Len(p) /\ \A i \in 1 .. Len(Root) : Root[i] = p[i]
      BY <1>1, <1>2 DEF Path
    <2> QED  BY <1>1, <1>2, <2>1, PrefixPointwise
  <1> QED  BY <1>1, <1>2, <1>3, NextOn

-----------------------------------------------------------------------------
(* The frames of a walk *)

FrameSet(r) ==
    [path : r.mirror.all, first : r.mirror.all, depth : Nat, posInSet : Nat,
     setSize : Nat, placeholder : BOOLEAN]


LEMMA AdmittedFacts ==
    ASSUME NEW r, Drawn(r), NEW x
    PROVE  LET list == AdmittedChildren(r, x)
               below == {q \in r.mirror.all : Parent(q) = x /\ Admits(r, q)}
           IN  /\ list \in Seq(below)
               /\ \A p \in below : \E i \in DOMAIN list : list[i] = p
               /\ \A i, j \in DOMAIN list : list[i] = list[j] => i = j
  <1> DEFINE below == {q \in r.mirror.all : Parent(q) = x /\ Admits(r, q)}
  <1>1. IsFiniteSet(below) /\ below \subseteq Path /\ \A p \in below : p # Root
    BY FS_Subset, below \in SUBSET r.mirror.all DEF Drawn
  <1>2. \A p, q \in below : Last(p) = Last(q) => p = q
    BY <1>1, SameLeaf
  <1>3. {q \in Children([children |-> r.mirror.kids], x) : Admits(r, q)} = below
    <2>1. Children([children |-> r.mirror.kids], x) = {q \in r.mirror.all : Parent(q) = x}
      BY DEF Children, Drawn
    <2> QED  BY <2>1
  <1>4. AdmittedChildren(r, x) = ByLeaf(below)
    BY <1>3 DEF AdmittedChildren
  <1> HIDE DEF below
  <1>5. /\ ByLeaf(below) \in Seq(below)
        /\ \A p \in below : \E i \in DOMAIN ByLeaf(below) : ByLeaf(below)[i] = p
        /\ \A i, j \in DOMAIN ByLeaf(below) : ByLeaf(below)[i] = ByLeaf(below)[j] => i = j
    BY <1>1, <1>2, ByLeafFacts
  <1> QED  BY <1>4, <1>5 DEF below

LEMMA FramesFacts ==
    ASSUME NEW r, Drawn(r), NEW x, NEW depth \in Nat
    PROVE  LET fs == Frames(r, x, depth)
           IN  /\ fs \in Seq(FrameSet(r))
               /\ \A i \in DOMAIN fs :
                    /\ ~fs[i].placeholder
                    /\ fs[i].first \in r.mirror.all /\ Parent(fs[i].first) = x
                    /\ Admits(r, fs[i].first)
                    /\ fs[i].path = ChainEnd(r, fs[i].first)
               /\ \A q \in r.mirror.all :
                    Parent(q) = x /\ Admits(r, q) => \E i \in DOMAIN fs : fs[i].first = q
               /\ \A i, j \in DOMAIN fs : fs[i].first = fs[j].first => i = j
  <1> DEFINE list == AdmittedChildren(r, x)
             below == {q \in r.mirror.all : Parent(q) = x /\ Admits(r, q)}
             fs == Frames(r, x, depth)
  <1>1. /\ list \in Seq(below)
        /\ \A p \in below : \E i \in DOMAIN list : list[i] = p
        /\ \A i, j \in DOMAIN list : list[i] = list[j] => i = j
    BY AdmittedFacts
  <1>2. fs = [i \in DOMAIN list |->
                [path |-> ChainEnd(r, list[i]), first |-> list[i],
                 depth |-> depth, posInSet |-> i, setSize |-> Len(list),
                 placeholder |-> FALSE]]
    BY DEF Frames
  <1> HIDE DEF list, fs
  <1>3. Len(list) \in Nat /\ DOMAIN list = 1 .. Len(list) /\ \A i \in DOMAIN list : list[i] \in below
    BY <1>1
  <1>4. \A i \in DOMAIN list : ChainEnd(r, list[i]) \in r.mirror.all
    BY <1>3, EndFacts
  <1>5. /\ DOMAIN fs = 1 .. Len(list)
        /\ \A i \in DOMAIN list :
             /\ fs[i].path = ChainEnd(r, list[i]) /\ fs[i].first = list[i]
             /\ fs[i].placeholder = FALSE
             /\ fs[i] \in FrameSet(r)
    BY <1>2, <1>3, <1>4 DEF FrameSet
  <1>6. fs \in Seq(FrameSet(r))
    <2>1. fs = [i \in 1 .. Len(list) |-> fs[i]]
      BY <1>2, <1>3
    <2>2. fs \in [1 .. Len(list) -> FrameSet(r)]
      BY <1>3, <1>5, <2>1
    <2> QED  BY <1>3, <2>2
  <1>7. \A i \in DOMAIN fs :
          /\ ~fs[i].placeholder
          /\ fs[i].first \in r.mirror.all /\ Parent(fs[i].first) = x
          /\ Admits(r, fs[i].first)
          /\ fs[i].path = ChainEnd(r, fs[i].first)
    BY <1>3, <1>5
  <1>8. \A q \in r.mirror.all :
          Parent(q) = x /\ Admits(r, q) => \E i \in DOMAIN fs : fs[i].first = q
    BY <1>1, <1>3, <1>5
  <1>9. \A i, j \in DOMAIN fs : fs[i].first = fs[j].first => i = j
    BY <1>1, <1>3, <1>5
  <1> QED  BY <1>6, <1>7, <1>8, <1>9 DEF fs

-----------------------------------------------------------------------------
(* The walk *)

LEMMA AfterFacts ==
    ASSUME NEW r, Drawn(r), NEW h \in FrameSet(r)
    PROVE  LET new == After(r, h)
           IN  /\ new \in Seq(FrameSet(r))
               /\ \A i \in DOMAIN new :
                    /\ ~h.placeholder /\ IsExpanded(r.store, h.path)
                    /\ new[i].placeholder => new[i].path = h.path
                    /\ ~new[i].placeholder =>
                         /\ new[i].first \in r.mirror.all /\ Parent(new[i].first) = h.path
                         /\ Admits(r, new[i].first)
                         /\ new[i].path = ChainEnd(r, new[i].first)
               /\ \A i, j \in DOMAIN new :
                    /\ new[i].placeholder /\ new[j].placeholder => i = j
                    /\ /\ ~new[i].placeholder /\ ~new[j].placeholder
                       /\ new[i].first = new[j].first
                       => i = j
               /\ ~h.placeholder /\ IsExpanded(r.store, h.path) =>
                    \A q \in r.mirror.all : Parent(q) = h.path /\ Admits(r, q) =>
                      \E i \in DOMAIN new : ~new[i].placeholder /\ new[i].first = q
  <1> DEFINE new == After(r, h)
             ps == Placeholder(r, h.path, h.depth + 1)
             fs == Frames(r, h.path, h.depth + 1)
             F == FrameSet(r)
  <1>1. CASE h.placeholder \/ ~IsExpanded(r.store, h.path)
    <2>1. new = <<>>
      BY <1>1 DEF After
    <2>2. <<>> \in Seq(F) /\ DOMAIN <<>> = {}
      OBVIOUS
    <2> HIDE DEF new
    <2> QED  BY <1>1, <2>1, <2>2 DEF new
  <1>2. CASE ~h.placeholder /\ IsExpanded(r.store, h.path)
    <2>1. new = ps \o fs
      BY <1>2 DEF After
    <2>2. h.depth + 1 \in Nat /\ h.path \in r.mirror.all
      BY DEF FrameSet
    <2>3. /\ fs \in Seq(F)
          /\ \A i \in DOMAIN fs :
               /\ ~fs[i].placeholder
               /\ fs[i].first \in r.mirror.all /\ Parent(fs[i].first) = h.path
               /\ Admits(r, fs[i].first)
               /\ fs[i].path = ChainEnd(r, fs[i].first)
          /\ \A q \in r.mirror.all :
               Parent(q) = h.path /\ Admits(r, q) => \E i \in DOMAIN fs : fs[i].first = q
          /\ \A i, j \in DOMAIN fs : fs[i].first = fs[j].first => i = j
      BY <2>2, FramesFacts
    <2>4. /\ ps \in Seq(F) /\ Len(ps) \in {0, 1}
          /\ \A i \in 1 .. Len(ps) : ps[i].placeholder /\ ps[i].path = h.path
      <3> DEFINE row == [path |-> h.path, first |-> h.path, depth |-> h.depth + 1, posInSet |-> 0,
                         setSize |-> 0, placeholder |-> TRUE]
      <3>1. ps = <<>> \/ ps = <<row>>
        BY DEF Placeholder
      <3>2. row \in F /\ row.placeholder /\ row.path = h.path
        BY <2>2 DEF FrameSet
      <3> HIDE DEF row, ps, F
      <3>3. CASE ps = <<>>
        BY <3>3
      <3>4. CASE ps = <<row>>
        <4>1. <<row>> \in Seq(F) /\ Len(<<row>>) = 1 /\ \A i \in 1 .. 1 : <<row>>[i] = row
          BY <3>2
        <4> QED  BY <3>2, <3>4, <4>1
      <3> QED  BY <3>1, <3>3, <3>4
    <2> HIDE DEF new, ps, fs, F
    <2>5. /\ new \in Seq(F) /\ Len(new) = Len(ps) + Len(fs)
          /\ \A i \in 1 .. Len(ps) + Len(fs) :
               new[i] = IF i <= Len(ps) THEN ps[i] ELSE fs[i - Len(ps)]
          /\ Len(fs) \in Nat /\ DOMAIN fs = 1 .. Len(fs) /\ DOMAIN new = 1 .. Len(new)
      BY <2>1, <2>3, <2>4, ConcatProperties, LenProperties
    <2>6. ASSUME NEW i \in DOMAIN new
          PROVE  \/ /\ i \in 1 .. Len(ps) /\ new[i] = ps[i]
                    /\ new[i].placeholder /\ new[i].path = h.path
                 \/ /\ i > Len(ps) /\ i - Len(ps) \in DOMAIN fs /\ new[i] = fs[i - Len(ps)]
                    /\ ~new[i].placeholder
      <3>1. CASE i <= Len(ps)
        <4>1. i \in 1 .. Len(ps) /\ new[i] = ps[i]
          BY <2>4, <2>5, <3>1
        <4> QED  BY <2>4, <4>1
      <3>2. CASE i > Len(ps)
        <4>1. i - Len(ps) \in 1 .. Len(fs) /\ new[i] = fs[i - Len(ps)]
          BY <2>4, <2>5, <3>2
        <4> QED  BY <2>3, <2>5, <3>2, <4>1
      <3> QED  BY <2>4, <2>5, <3>1, <3>2
    <2>7. \A i \in DOMAIN new :
            /\ new[i].placeholder => new[i].path = h.path
            /\ ~new[i].placeholder =>
                 /\ new[i].first \in r.mirror.all /\ Parent(new[i].first) = h.path
                 /\ Admits(r, new[i].first)
                 /\ new[i].path = ChainEnd(r, new[i].first)
      BY <2>3, <2>6
    <2>8. ASSUME NEW i \in DOMAIN new, NEW j \in DOMAIN new
          PROVE  /\ new[i].placeholder /\ new[j].placeholder => i = j
                 /\ /\ ~new[i].placeholder /\ ~new[j].placeholder
                    /\ new[i].first = new[j].first
                    => i = j
      <3>1. ASSUME new[i].placeholder, new[j].placeholder PROVE i = j
        <4>1. i \in 1 .. Len(ps) /\ j \in 1 .. Len(ps)
          BY <2>6, <3>1
        <4> QED  BY <2>4, <4>1
      <3>2. ASSUME ~new[i].placeholder, ~new[j].placeholder, new[i].first = new[j].first
            PROVE  i = j
        <4>1. /\ i - Len(ps) \in DOMAIN fs /\ new[i] = fs[i - Len(ps)]
              /\ j - Len(ps) \in DOMAIN fs /\ new[j] = fs[j - Len(ps)]
          BY <2>6, <3>2
        <4>2. i - Len(ps) = j - Len(ps)
          BY <2>3, <3>2, <4>1
        <4> QED  BY <2>4, <2>5, <4>2
      <3> QED  BY <3>1, <3>2
    <2>9. ASSUME NEW q \in r.mirror.all, Parent(q) = h.path, Admits(r, q)
          PROVE  \E i \in DOMAIN new : ~new[i].placeholder /\ new[i].first = q
      <3>1. PICK k \in DOMAIN fs : fs[k].first = q
        BY <2>3, <2>9
      <3>2. k + Len(ps) \in DOMAIN new /\ k + Len(ps) > Len(ps) /\ k + Len(ps) - Len(ps) = k
        BY <2>4, <2>5
      <3>3. new[k + Len(ps)] = fs[k]
        BY <2>4, <2>5, <3>2
      <3> QED  BY <2>3, <3>1, <3>2, <3>3
    <2> QED  BY <1>2, <2>5, <2>7, <2>8, <2>9 DEF new, F
  <1> QED  BY <1>1, <1>2

\* What holds of a walk that has left the rows out and has the frames stack to go.
WalkFrames(r, out, stack) ==
    /\ out \in Seq(FrameSet(r)) /\ stack \in Seq(FrameSet(r))
    /\ \A i \in DOMAIN stack : ~stack[i].placeholder =>
         Reached(r, stack[i].first) /\ stack[i].path = ChainEnd(r, stack[i].first)
    /\ \A j \in DOMAIN out : ~out[j].placeholder => Visible(r, out[j].path)

\* No account is met twice.
WalkApart(out, stack) ==
    /\ \A i, j \in DOMAIN stack :
         /\ ~stack[i].placeholder /\ ~stack[j].placeholder
         /\ IsPrefix(stack[i].first, stack[j].first)
         => i = j
    /\ \A i \in DOMAIN stack, j \in DOMAIN out :
         ~stack[i].placeholder /\ ~out[j].placeholder => ~IsPrefix(stack[i].first, out[j].path)
    /\ \A i, j \in DOMAIN out :
         ~out[i].placeholder /\ ~out[j].placeholder /\ out[i].path = out[j].path => i = j

\* Nor any placeholder, which follows the row of its group.
WalkHolders(out, stack) ==
    /\ \A i, j \in DOMAIN stack :
         stack[i].placeholder /\ stack[j].placeholder /\ stack[i].path = stack[j].path => i = j
    /\ \A i, j \in DOMAIN out :
         out[i].placeholder /\ out[j].placeholder /\ out[i].path = out[j].path => i = j
    /\ \A i \in DOMAIN stack, j \in DOMAIN out :
         stack[i].placeholder /\ out[j].placeholder => stack[i].path # out[j].path
    /\ \A i \in DOMAIN stack : stack[i].placeholder =>
         \E j \in DOMAIN out : ~out[j].placeholder /\ out[j].path = stack[i].path
    /\ \A i \in DOMAIN out : out[i].placeholder =>
         \E j \in DOMAIN out : ~out[j].placeholder /\ out[j].path = out[i].path

\* What is to be seen has its row or lies below a frame.
WalkCovers(r, out, stack) ==
    \A p : Visible(r, p) =>
      \/ \E j \in DOMAIN out : ~out[j].placeholder /\ out[j].path = p
      \/ \E i \in DOMAIN stack : ~stack[i].placeholder /\ IsPrefix(stack[i].first, p)

WalkInv(r, out, stack) ==
    /\ WalkFrames(r, out, stack) /\ WalkApart(out, stack)
    /\ WalkHolders(out, stack) /\ WalkCovers(r, out, stack)

\* A turn that takes the frame h, leaves new frames, and makes outs of the rows
\* and frames of the stack.
Turn(F, out, stack, new, h, outs, frames) ==
    /\ h \in F /\ 1 \in DOMAIN stack /\ h = stack[1]
    /\ outs \in Seq(F) /\ frames \in Seq(F) /\ Len(outs) = Len(out) + 1
    /\ \A j \in DOMAIN out : j \in DOMAIN outs /\ outs[j] = out[j] /\ j # Len(out) + 1
    /\ Len(out) + 1 \in DOMAIN outs /\ outs[Len(out) + 1] = h
    /\ \A j \in DOMAIN outs : j \in DOMAIN out \/ j = Len(out) + 1
    /\ \A i \in DOMAIN new : i \in DOMAIN frames /\ frames[i] = new[i]
    /\ \A i \in DOMAIN stack : i # 1 =>
         i + Len(new) - 1 \in DOMAIN frames /\ frames[i + Len(new) - 1] = stack[i]
    /\ \A i \in DOMAIN frames :
         \/ i \in DOMAIN new
         \/ \E k \in DOMAIN stack : k # 1 /\ i = k + Len(new) - 1

LEMMA TurnFacts ==
    ASSUME NEW F, NEW out \in Seq(F), NEW stack \in Seq(F), stack # <<>>, NEW new \in Seq(F)
    PROVE  Turn(F, out, stack, new, Head(stack), Append(out, Head(stack)), new \o Tail(stack))
  <1> DEFINE h == Head(stack)
             t == Tail(stack)
             outs == Append(out, h)
             frames == new \o t
             n == Len(out)
             m == Len(new)
             s == Len(stack)
  <1>1. /\ n \in Nat /\ m \in Nat /\ s \in Nat \ {0}
        /\ DOMAIN out = 1 .. n /\ DOMAIN new = 1 .. m /\ DOMAIN stack = 1 .. s
    BY EmptySeq, LenProperties
  <1>2. h \in F /\ 1 \in DOMAIN stack /\ h = stack[1]
    BY <1>1
  <1> HIDE DEF h
  <1>3. /\ outs \in Seq(F) /\ Len(outs) = n + 1 /\ DOMAIN outs = 1 .. n + 1
        /\ \A j \in 1 .. n : outs[j] = out[j]
        /\ outs[n + 1] = h
    BY <1>1, <1>2
  <1>4. /\ t \in Seq(F) /\ Len(t) = s - 1
        /\ \A i \in 1 .. s - 1 : t[i] = stack[i + 1]
    BY <1>1, HeadTailProperties
  <1> HIDE DEF t, outs, n, m, s
  <1>5. /\ frames \in Seq(F) /\ Len(frames) = m + (s - 1) /\ DOMAIN frames = 1 .. m + (s - 1)
        /\ \A i \in 1 .. m + (s - 1) : frames[i] = IF i <= m THEN new[i] ELSE t[i - m]
    <2>1. /\ frames \in Seq(F) /\ Len(frames) = Len(new) + Len(t)
          /\ \A i \in 1 .. Len(new) + Len(t) :
               frames[i] = IF i <= Len(new) THEN new[i] ELSE t[i - Len(new)]
      BY <1>4, ConcatProperties
    <2> HIDE DEF frames
    <2> QED  BY <1>4, <2>1, LenProperties DEF m
  <1> HIDE DEF frames
  <1>6. \A i \in DOMAIN new : i \in DOMAIN frames /\ frames[i] = new[i]
    BY <1>1, <1>5
  <1>7. ASSUME NEW i \in DOMAIN stack, i # 1
        PROVE  i + m - 1 \in DOMAIN frames /\ frames[i + m - 1] = stack[i]
    <2>1. i \in 1 .. s /\ i + m - 1 \in 1 .. m + (s - 1) /\ ~(i + m - 1 <= m)
          /\ i + m - 1 - m = i - 1 /\ i - 1 \in 1 .. s - 1 /\ i - 1 + 1 = i
      BY <1>1, <1>7
    <2> DEFINE k == i + m - 1
    <2>2. t[i - 1] = stack[i]
      BY <1>4, <2>1
    <2>3. k \in 1 .. m + (s - 1) /\ ~(k <= m) /\ k - m = i - 1
      BY <1>1, <1>7, <2>1
    <2> HIDE DEF k
    <2>4. k \in DOMAIN frames /\ frames[k] = t[i - 1]
      BY <1>5, <2>3
    <2> QED  BY <2>2, <2>4 DEF k
  <1>8. ASSUME NEW i \in DOMAIN frames
        PROVE  i \in DOMAIN new \/ \E k \in DOMAIN stack : k # 1 /\ i = k + m - 1
    <2>1. CASE i <= m
      BY <1>1, <1>5, <2>1
    <2>2. CASE i > m
      <3>1. i - m + 1 \in DOMAIN stack /\ i - m + 1 # 1 /\ i = (i - m + 1) + m - 1
        BY <1>1, <1>5, <2>2
      <3> QED  BY <3>1
    <2> QED  BY <1>1, <1>5, <2>1, <2>2
  <1> QED  BY <1>1, <1>2, <1>3, <1>5, <1>6, <1>7, <1>8, SMTT(30) DEF Turn, h, outs, frames, n, m, t

LEMMA WalkStarts ==
    ASSUME NEW r, Drawn(r)
    PROVE  WalkInv(r, <<>>, Frames(r, Root, 0))
  <1> DEFINE fs == Frames(r, Root, 0)
             F == FrameSet(r)
             none == <<>>
  <1>1. /\ fs \in Seq(F)
        /\ \A i \in DOMAIN fs :
             /\ ~fs[i].placeholder
             /\ fs[i].first \in r.mirror.all /\ Parent(fs[i].first) = Root
             /\ Admits(r, fs[i].first)
             /\ fs[i].path = ChainEnd(r, fs[i].first)
        /\ \A q \in r.mirror.all :
             Parent(q) = Root /\ Admits(r, q) => \E i \in DOMAIN fs : fs[i].first = q
        /\ \A i, j \in DOMAIN fs : fs[i].first = fs[j].first => i = j
    BY FramesFacts
  <1>2. none \in Seq(F) /\ DOMAIN none = {}
    OBVIOUS
  <1> HIDE DEF fs, F, none
  <1>3. WalkFrames(r, none, fs)
    BY <1>1, <1>2, TopReached DEF WalkFrames, F
  <1>4. ASSUME NEW i \in DOMAIN fs, NEW j \in DOMAIN fs, IsPrefix(fs[i].first, fs[j].first)
        PROVE  i = j
    <2> DEFINE p == fs[i].first
               q == fs[j].first
    <2>1. p \in Path /\ q \in Path /\ p # Root /\ q # Root /\ Parent(p) = Root /\ Parent(q) = Root
      BY <1>1 DEF Drawn
    <2> HIDE DEF p, q
    <2>2. p = q
      BY <1>4, <2>1, ParentPrefix, RootPrefix DEF p, q
    <2> QED  BY <1>1, <2>2 DEF p, q
  <1>5. WalkApart(none, fs)
    BY <1>1, <1>2, <1>4 DEF WalkApart
  <1>6. WalkHolders(none, fs)
    BY <1>1, <1>2 DEF WalkHolders
  <1>7. WalkCovers(r, none, fs)
    BY <1>1, VisibleFromTop DEF WalkCovers
  <1> QED  BY <1>3, <1>5, <1>6, <1>7 DEF WalkInv, fs, none

LEMMA WalkSteps ==
    ASSUME NEW r, Drawn(r), NEW out, NEW stack, WalkInv(r, out, stack), stack # <<>>
    PROVE  WalkInv(r, Append(out, Head(stack)), After(r, Head(stack)) \o Tail(stack))
  <1> DEFINE F == FrameSet(r)
             all == r.mirror.all
             h == Head(stack)
             new == After(r, h)
             outs == Append(out, h)
             frames == new \o Tail(stack)
             n == Len(out)
             m == Len(new)
  <1>1. out \in Seq(F) /\ stack \in Seq(F)
    BY DEF WalkInv, WalkFrames
  <1>2. h \in F
    BY <1>1, HeadTailProperties
  <1> HIDE DEF h
  <1>3. /\ new \in Seq(F)
        /\ \A i \in DOMAIN new :
             /\ ~h.placeholder /\ IsExpanded(r.store, h.path)
             /\ new[i].placeholder => new[i].path = h.path
             /\ ~new[i].placeholder =>
                  /\ new[i].first \in all /\ Parent(new[i].first) = h.path
                  /\ Admits(r, new[i].first)
                  /\ new[i].path = ChainEnd(r, new[i].first)
        /\ \A i, j \in DOMAIN new :
             /\ new[i].placeholder /\ new[j].placeholder => i = j
             /\ ~new[i].placeholder /\ ~new[j].placeholder /\ new[i].first = new[j].first => i = j
        /\ ~h.placeholder /\ IsExpanded(r.store, h.path) =>
             \A q \in all : Parent(q) = h.path /\ Admits(r, q) =>
               \E i \in DOMAIN new : ~new[i].placeholder /\ new[i].first = q
    BY <1>2, AfterFacts
  <1> HIDE DEF new, F
  <1>4. /\ 1 \in DOMAIN stack /\ h = stack[1]
        /\ outs \in Seq(F) /\ frames \in Seq(F)
        /\ \A j \in DOMAIN out : j \in DOMAIN outs /\ outs[j] = out[j] /\ j # n + 1
        /\ n + 1 \in DOMAIN outs /\ outs[n + 1] = h
        /\ \A j \in DOMAIN outs : j \in DOMAIN out \/ j = n + 1
        /\ \A i \in DOMAIN new : i \in DOMAIN frames /\ frames[i] = new[i]
        /\ \A i \in DOMAIN stack : i # 1 =>
             i + m - 1 \in DOMAIN frames /\ frames[i + m - 1] = stack[i]
        /\ \A i \in DOMAIN frames :
             i \in DOMAIN new \/ \E k \in DOMAIN stack : k # 1 /\ i = k + m - 1
    <2>1. Turn(F, out, stack, new, h, outs, frames)
      BY <1>1, <1>3, TurnFacts DEF h
    <2> HIDE DEF outs, frames
    <2> QED  BY <2>1 DEF Turn
  <1> HIDE DEF outs, frames, n, m
  <1>5. ASSUME NEW i \in DOMAIN frames
        PROVE  \/ i \in DOMAIN new /\ frames[i] = new[i]
               \/ \E k \in DOMAIN stack : k # 1 /\ i = k + m - 1 /\ frames[i] = stack[k]
    BY <1>4
  \* The account of the head.
  <1>6. ~h.placeholder => /\ Reached(r, h.first) /\ h.path = ChainEnd(r, h.first)
                          /\ Visible(r, h.path)
                          /\ h.first \in all /\ h.path \in all /\ IsPrefix(h.first, h.path)
    <2> SUFFICES ASSUME ~h.placeholder
                 PROVE  /\ Reached(r, h.first) /\ h.path = ChainEnd(r, h.first)
                        /\ Visible(r, h.path)
                        /\ h.first \in all /\ h.path \in all /\ IsPrefix(h.first, h.path)
      OBVIOUS
    <2>1. Reached(r, h.first) /\ h.path = ChainEnd(r, h.first)
      BY <1>1, <1>4 DEF WalkInv, WalkFrames
    <2>2. Visible(r, h.path)
      BY <2>1, EndVisible
    <2>3. h.first \in all
      BY <2>1 DEF Reached
    <2> QED  BY <2>1, <2>2, <2>3, EndFacts
  <1>7. \A p \in all : p \in Path /\ p # Root /\ Len(p) \in Nat
    BY DEF Drawn, Path
  <1>8. \A i \in DOMAIN stack : ~stack[i].placeholder => stack[i].first \in all
    BY DEF WalkInv, WalkFrames, Reached
  <1>9. \A j \in DOMAIN out : ~out[j].placeholder => out[j].path \in all
    BY DEF WalkInv, WalkFrames, Visible, Reached
  <1>10. ASSUME NEW i \in DOMAIN new, ~new[i].placeholder
         PROVE  /\ Reached(r, new[i].first) /\ new[i].path = ChainEnd(r, new[i].first)
                /\ new[i].first \in all /\ IsPrefix(h.path, new[i].first)
                /\ IsPrefix(h.first, new[i].first) /\ ~IsPrefix(new[i].first, h.path)
                /\ ~h.placeholder
    <2> DEFINE q == new[i].first
    <2>1. /\ q \in all /\ q \in Path /\ q # Root /\ Parent(q) = h.path /\ Admits(r, q)
          /\ ~h.placeholder /\ IsExpanded(r.store, h.path) /\ new[i].path = ChainEnd(r, q)
      BY <1>3, <1>7, <1>10
    <2> HIDE DEF q
    <2>2. Reached(r, q)
      BY <1>6, <2>1, ChildReached
    <2>3. IsPrefix(h.path, q) /\ ~IsPrefix(q, h.path)
      BY <1>6, <1>7, <2>1, ParentPrefix
    <2>4. IsPrefix(h.first, q)
      BY <1>6, <1>7, <2>1, <2>3, PrefixOrder
    <2> QED  BY <2>1, <2>2, <2>3, <2>4 DEF q
  <1>11. WalkFrames(r, outs, frames)
    <2>1. ASSUME NEW i \in DOMAIN frames, ~frames[i].placeholder
          PROVE  Reached(r, frames[i].first) /\ frames[i].path = ChainEnd(r, frames[i].first)
      BY <1>5, <1>10, <2>1 DEF WalkInv, WalkFrames
    <2>2. ASSUME NEW j \in DOMAIN outs, ~outs[j].placeholder PROVE Visible(r, outs[j].path)
      BY <1>4, <1>6, <2>2 DEF WalkInv, WalkFrames
    <2> QED  BY <1>4, <2>1, <2>2 DEF WalkFrames, F
  <1>12. WalkApart(outs, frames)
    <2>1. ASSUME NEW i \in DOMAIN frames, NEW j \in DOMAIN frames,
                 ~frames[i].placeholder, ~frames[j].placeholder,
                 IsPrefix(frames[i].first, frames[j].first)
          PROVE  i = j
      <3>1. CASE i \in DOMAIN new /\ frames[i] = new[i] /\ j \in DOMAIN new /\ frames[j] = new[j]
        <4>1. /\ Parent(new[i].first) = h.path /\ Parent(new[j].first) = h.path
              /\ new[i].first \in all /\ new[j].first \in all
              /\ ~IsPrefix(new[i].first, h.path)
          BY <1>3, <1>10, <2>1, <3>1
        <4>2. new[i].first = new[j].first
          BY <1>7, <2>1, <3>1, <4>1, ParentPrefix
        <4> QED  BY <1>3, <2>1, <3>1, <4>2
      <3>2. CASE i \in DOMAIN new /\ frames[i] = new[i]
                 /\ \E k \in DOMAIN stack : k # 1 /\ frames[j] = stack[k]
        <4>1. PICK k \in DOMAIN stack : k # 1 /\ frames[j] = stack[k]
          BY <3>2
        <4>2. /\ IsPrefix(h.first, new[i].first) /\ new[i].first \in all /\ ~h.placeholder
              /\ h.first \in all /\ stack[k].first \in all
          BY <1>6, <1>8, <1>10, <2>1, <3>2, <4>1
        <4>3. IsPrefix(h.first, stack[k].first)
          BY <1>7, <2>1, <3>2, <4>1, <4>2, PrefixOrder
        <4> QED  BY <1>4, <2>1, <4>1, <4>2, <4>3 DEF WalkInv, WalkApart
      <3>3. CASE j \in DOMAIN new /\ frames[j] = new[j]
                 /\ \E k \in DOMAIN stack : k # 1 /\ frames[i] = stack[k]
        <4>1. PICK k \in DOMAIN stack : k # 1 /\ frames[i] = stack[k]
          BY <3>3
        <4>2. /\ IsPrefix(h.first, new[j].first) /\ new[j].first \in all /\ ~h.placeholder
              /\ h.first \in all /\ stack[k].first \in all
          BY <1>6, <1>8, <1>10, <2>1, <3>3, <4>1
        <4>3. IsPrefix(h.first, stack[k].first) \/ IsPrefix(stack[k].first, h.first)
          BY <1>7, <2>1, <3>3, <4>1, <4>2, PrefixOrder
        <4> QED  BY <1>4, <2>1, <4>1, <4>2, <4>3 DEF WalkInv, WalkApart
      <3>4. CASE /\ \E k \in DOMAIN stack : k # 1 /\ i = k + m - 1 /\ frames[i] = stack[k]
                 /\ \E k \in DOMAIN stack : k # 1 /\ j = k + m - 1 /\ frames[j] = stack[k]
        BY <2>1, <3>4 DEF WalkInv, WalkApart
      <3> QED  BY <1>5, <3>1, <3>2, <3>3, <3>4
    <2>2. ASSUME NEW i \in DOMAIN frames, NEW j \in DOMAIN outs,
                 ~frames[i].placeholder, ~outs[j].placeholder,
                 IsPrefix(frames[i].first, outs[j].path)
          PROVE  FALSE
      <3>1. CASE i \in DOMAIN new /\ frames[i] = new[i] /\ j \in DOMAIN out
        <4>1. /\ IsPrefix(h.first, new[i].first) /\ new[i].first \in all /\ ~h.placeholder
              /\ h.first \in all /\ out[j].path \in all /\ outs[j] = out[j]
          BY <1>4, <1>6, <1>9, <1>10, <2>2, <3>1
        <4>2. IsPrefix(h.first, out[j].path)
          BY <1>7, <2>2, <3>1, <4>1, PrefixOrder
        <4> QED  BY <1>4, <2>2, <3>1, <4>1, <4>2 DEF WalkInv, WalkApart
      <3>2. CASE i \in DOMAIN new /\ frames[i] = new[i] /\ j = n + 1
        BY <1>4, <1>10, <2>2, <3>2
      <3>3. CASE (\E k \in DOMAIN stack : k # 1 /\ frames[i] = stack[k]) /\ j \in DOMAIN out
        BY <1>4, <2>2, <3>3 DEF WalkInv, WalkApart
      <3>4. CASE (\E k \in DOMAIN stack : k # 1 /\ frames[i] = stack[k]) /\ j = n + 1
        <4>1. PICK k \in DOMAIN stack : k # 1 /\ frames[i] = stack[k]
          BY <3>4
        <4>2. /\ IsPrefix(stack[k].first, h.path) /\ IsPrefix(h.first, h.path) /\ ~h.placeholder
              /\ h.first \in all /\ h.path \in all /\ stack[k].first \in all
          BY <1>4, <1>6, <1>8, <2>2, <3>4, <4>1
        <4>3. IsPrefix(h.first, stack[k].first) \/ IsPrefix(stack[k].first, h.first)
          BY <1>7, <4>2, PrefixOrder
        <4> QED  BY <1>4, <2>2, <4>1, <4>2, <4>3 DEF WalkInv, WalkApart
      <3> QED  BY <1>4, <1>5, <3>1, <3>2, <3>3, <3>4
    <2>3. ASSUME NEW i \in DOMAIN outs, NEW j \in DOMAIN outs,
                 ~outs[i].placeholder, ~outs[j].placeholder, outs[i].path = outs[j].path
          PROVE  i = j
      <3>1. \A k \in DOMAIN out : ~out[k].placeholder /\ ~h.placeholder => out[k].path # h.path
        BY <1>4, <1>6 DEF WalkInv, WalkApart
      <3> QED  BY <1>4, <2>3, <3>1 DEF WalkInv, WalkApart
    <2> QED  BY <2>1, <2>2, <2>3 DEF WalkApart
  <1>13. WalkHolders(outs, frames)
    <2>0. \A k \in DOMAIN out : ~out[k].placeholder /\ ~h.placeholder => out[k].path # h.path
      BY <1>4, <1>6 DEF WalkInv, WalkApart
    \* A group has no placeholder before its own row.
    <2>1. /\ ~h.placeholder => \A k \in DOMAIN out : out[k].placeholder => out[k].path # h.path
          /\ ~h.placeholder => \A k \in DOMAIN stack : stack[k].placeholder => stack[k].path # h.path
      BY <2>0 DEF WalkInv, WalkHolders
    <2>2. \A i \in DOMAIN new : new[i].placeholder => ~h.placeholder /\ new[i].path = h.path
      BY <1>3
    <2>3. ASSUME NEW i \in DOMAIN frames, NEW j \in DOMAIN frames,
                 frames[i].placeholder, frames[j].placeholder, frames[i].path = frames[j].path
          PROVE  i = j
      <3>1. CASE i \in DOMAIN new /\ frames[i] = new[i] /\ j \in DOMAIN new /\ frames[j] = new[j]
        BY <1>3, <2>3, <3>1
      <3>2. CASE i \in DOMAIN new /\ frames[i] = new[i]
                 /\ \E k \in DOMAIN stack : k # 1 /\ frames[j] = stack[k]
        BY <2>1, <2>2, <2>3, <3>2
      <3>3. CASE j \in DOMAIN new /\ frames[j] = new[j]
                 /\ \E k \in DOMAIN stack : k # 1 /\ frames[i] = stack[k]
        BY <2>1, <2>2, <2>3, <3>3
      <3>4. CASE /\ \E k \in DOMAIN stack : k # 1 /\ i = k + m - 1 /\ frames[i] = stack[k]
                 /\ \E k \in DOMAIN stack : k # 1 /\ j = k + m - 1 /\ frames[j] = stack[k]
        BY <2>3, <3>4 DEF WalkInv, WalkHolders
      <3> QED  BY <1>5, <3>1, <3>2, <3>3, <3>4
    <2>4. ASSUME NEW i \in DOMAIN outs, NEW j \in DOMAIN outs,
                 outs[i].placeholder, outs[j].placeholder, outs[i].path = outs[j].path
          PROVE  i = j
      BY <1>4, <2>4 DEF WalkInv, WalkHolders
    <2>5. ASSUME NEW i \in DOMAIN frames, NEW j \in DOMAIN outs,
                 frames[i].placeholder, outs[j].placeholder, frames[i].path = outs[j].path
          PROVE  FALSE
      <3>1. CASE i \in DOMAIN new /\ frames[i] = new[i]
        BY <1>4, <2>1, <2>2, <2>5, <3>1
      <3>2. CASE \E k \in DOMAIN stack : k # 1 /\ frames[i] = stack[k]
        BY <1>4, <2>5, <3>2 DEF WalkInv, WalkHolders
      <3> QED  BY <1>5, <3>1, <3>2
    <2>6. ASSUME NEW i \in DOMAIN frames, frames[i].placeholder
          PROVE  \E j \in DOMAIN outs : ~outs[j].placeholder /\ outs[j].path = frames[i].path
      <3>1. CASE i \in DOMAIN new /\ frames[i] = new[i]
        BY <1>4, <2>2, <2>6, <3>1
      <3>2. CASE \E k \in DOMAIN stack : k # 1 /\ frames[i] = stack[k]
        <4>1. PICK j \in DOMAIN out : ~out[j].placeholder /\ out[j].path = frames[i].path
          BY <2>6, <3>2 DEF WalkInv, WalkHolders
        <4> QED  BY <1>4, <4>1
      <3> QED  BY <1>5, <3>1, <3>2
    <2>7. ASSUME NEW i \in DOMAIN outs, outs[i].placeholder
          PROVE  \E j \in DOMAIN outs : ~outs[j].placeholder /\ outs[j].path = outs[i].path
      <3>1. PICK j \in DOMAIN out : ~out[j].placeholder /\ out[j].path = outs[i].path
        BY <1>4, <2>7 DEF WalkInv, WalkHolders
      <3> QED  BY <1>4, <3>1
    <2> QED  BY <2>3, <2>4, <2>5, <2>6, <2>7 DEF WalkHolders
  <1>14. WalkCovers(r, outs, frames)
    <2> SUFFICES ASSUME NEW p, Visible(r, p)
                 PROVE  \/ \E j \in DOMAIN outs : ~outs[j].placeholder /\ outs[j].path = p
                        \/ \E i \in DOMAIN frames : ~frames[i].placeholder /\ IsPrefix(frames[i].first, p)
      BY DEF WalkCovers
    <2>1. CASE \E j \in DOMAIN out : ~out[j].placeholder /\ out[j].path = p
      BY <1>4, <2>1
    <2>2. CASE \E i \in DOMAIN stack : i # 1 /\ ~stack[i].placeholder /\ IsPrefix(stack[i].first, p)
      BY <1>4, <2>2
    <2>3. CASE ~h.placeholder /\ IsPrefix(h.first, p)
      <3>1. \/ p = h.path
            \/ /\ IsExpanded(r.store, h.path)
               /\ \E q \in all : Parent(q) = h.path /\ Admits(r, q) /\ IsPrefix(q, p)
        BY <1>6, <2>3, VisibleBelow
      <3>2. CASE p = h.path
        BY <1>4, <2>3, <3>2
      <3>3. CASE /\ IsExpanded(r.store, h.path)
                 /\ \E q \in all : Parent(q) = h.path /\ Admits(r, q) /\ IsPrefix(q, p)
        <4>1. PICK i \in DOMAIN new : ~new[i].placeholder /\ IsPrefix(new[i].first, p)
          BY <1>3, <2>3, <3>3
        <4> QED  BY <1>4, <4>1
      <3> QED  BY <3>1, <3>2, <3>3
    <2> QED  BY <1>4, <2>1, <2>2, <2>3 DEF WalkInv, WalkCovers
  <1> QED  BY <1>11, <1>12, <1>13, <1>14 DEF WalkInv, outs, frames, new, h

LEMMA RowsBounded ==
    ASSUME NEW r, Drawn(r), NEW out, NEW stack, WalkInv(r, out, stack)
    PROVE  Cardinality(r.mirror.all) \in Nat /\ Len(out) <= 2 * Cardinality(r.mirror.all)
  <1> DEFINE all == r.mirror.all
             n == Len(out)
             pairs == all \X (0 .. 1)
             f == [i \in 1 .. n |-> <<out[i].path, IF out[i].placeholder THEN 1 ELSE 0>>]
  <1>1. n \in Nat /\ DOMAIN out = 1 .. n /\ \A i \in 1 .. n : out[i].path \in all /\ out[i].placeholder \in BOOLEAN
    <2>1. out \in Seq(FrameSet(r))
      BY DEF WalkInv, WalkFrames
    <2>2. n \in Nat /\ DOMAIN out = 1 .. n /\ \A i \in 1 .. n : out[i] \in FrameSet(r)
      BY <2>1
    <2> HIDE DEF n
    <2>3. \A h \in FrameSet(r) : h.path \in all /\ h.placeholder \in BOOLEAN
      BY DEF FrameSet
    <2> QED  BY <2>2, <2>3
  <1>2. IsFiniteSet(0 .. 1) /\ Cardinality(0 .. 1) = 2
    <2>1. 0 \in Int /\ 1 \in Int /\ ~(0 > 1) /\ 1 - 0 + 1 = 2
      OBVIOUS
    <2> QED  BY <2>1, FS_Interval
  <1>3. IsFiniteSet(all) /\ Cardinality(all) \in Nat
    BY FS_CardinalityType DEF Drawn
  <1>4. IsFiniteSet(pairs) /\ Cardinality(pairs) = Cardinality(all) * 2
    BY <1>2, <1>3, FS_Product
  <1>5. f \in Injection(1 .. n, pairs)
    <2>1. f \in [1 .. n -> pairs]
      BY <1>1
    <2>2. ASSUME NEW i \in 1 .. n, NEW j \in 1 .. n, f[i] = f[j] PROVE i = j
      <3>1. out[i].path = out[j].path /\ (out[i].placeholder <=> out[j].placeholder)
        BY <2>2
      <3>2. i \in DOMAIN out /\ j \in DOMAIN out
        BY <1>1
      <3> QED  BY <3>1, <3>2 DEF WalkInv, WalkApart, WalkHolders
    <2> HIDE DEF f, pairs
    <2> QED  BY <2>1, <2>2 DEF Injection, IsInjective
  <1>6. Cardinality(1 .. n) = n
    BY <1>1, FS_Interval
  <1> HIDE DEF f, pairs, n
  <1>7. Cardinality(1 .. n) <= Cardinality(pairs)
    BY <1>4, <1>5, FS_Injection
  <1> QED  BY <1>3, <1>4, <1>6, <1>7 DEF n

WalkOf(r, L) ==
    LET walk[n \in 0 .. L] ==
          IF n = 0 THEN [out |-> <<>>, stack |-> Frames(r, Root, 0)] ELSE WalkTurn(r, walk[n - 1])
    IN  walk

LEMMA WalkIs ==
    ASSUME NEW r, NEW L \in Nat
    PROVE  /\ WalkOf(r, L)[0] = [out |-> <<>>, stack |-> Frames(r, Root, 0)]
           /\ \A n \in 1 .. L : WalkOf(r, L)[n] = WalkTurn(r, WalkOf(r, L)[n - 1])
  <1> DEFINE start == [out |-> <<>>, stack |-> Frames(r, Root, 0)]
             walks(g) == g = [n \in 0 .. L |-> IF n = 0 THEN start ELSE WalkTurn(r, g[n - 1])]
             g == CHOOSE g : walks(g)
             loop == [kind |-> "walk", inputs |-> r]
  <1>1. loop.kind = "walk" /\ loop.inputs = r
    OBVIOUS
  <1> HIDE DEF loop
  <1>2. PICK some : Looping(loop, L, some)
    BY LoopExists
  <1>3. walks(some)
    BY <1>1, <1>2 DEF Looping, Started, Turned
  <1>4. WalkOf(r, L) = g
    BY DEF WalkOf
  <1>5. walks(g)
    BY <1>3, Zenon
  <1> HIDE DEF g, start
  <1> QED  BY <1>4, <1>5 DEF start

\* The walk ends with nothing on its stack.
LEMMA WalkEnds ==
    ASSUME NEW r, Drawn(r)
    PROVE  WalkInv(r, Walk(r), <<>>)
  <1> DEFINE size == Cardinality(r.mirror.all)
             L == 2 * size
             run == WalkOf(r, L)
             good(n, out, stack) ==
               /\ run[n] = [out |-> out, stack |-> stack]
               /\ WalkInv(r, out, stack) /\ (stack = <<>> \/ Len(out) = n)
             T == {n \in 0 .. L : \E out, stack : good(n, out, stack)}
  <1>1. size \in Nat
    BY FS_CardinalityType DEF Drawn
  <1>2. Walk(r) = run[L].out
    BY DEF Walk, DepthFirst, WalkOf, WalkTurn, After
  <1>3. /\ run[0] = [out |-> <<>>, stack |-> Frames(r, Root, 0)]
        /\ \A n \in 1 .. L : run[n] = WalkTurn(r, run[n - 1])
    <2>1. L \in Nat
      BY <1>1
    <2> QED  BY <2>1, WalkIs
  <1>4. L \in Nat
    BY <1>1
  <1> HIDE DEF run, L, size
  <1>5. 0 \in T
    <2>1. good(0, <<>>, Frames(r, Root, 0))
      BY <1>3, WalkStarts
    <2> QED  BY <1>4, <2>1
  <1>6. ASSUME NEW n \in 1 .. L, n - 1 \in T PROVE n \in T
    <2>1. PICK out, stack : good(n - 1, out, stack)
      BY <1>6
    <2>2. run[n] = WalkTurn(r, [out |-> out, stack |-> stack])
      BY <1>3, <2>1
    <2>3. CASE stack = <<>>
      <3>1. run[n] = [out |-> out, stack |-> stack]
        BY <2>2, <2>3 DEF WalkTurn
      <3>2. good(n, out, stack)
        BY <2>1, <2>3, <3>1
      <3> QED  BY <1>4, <3>2
    <2>4. CASE stack # <<>>
      <3> DEFINE outs == Append(out, Head(stack))
                 frames == After(r, Head(stack)) \o Tail(stack)
      <3>1. run[n] = [out |-> outs, stack |-> frames]
        BY <2>2, <2>4 DEF WalkTurn
      <3>2. WalkInv(r, outs, frames)
        BY <2>1, <2>4, WalkSteps
      <3>3. Len(outs) = n
        <4>1. out \in Seq(FrameSet(r)) /\ stack \in Seq(FrameSet(r)) /\ Len(out) = n - 1
          BY <2>1, <2>4 DEF WalkInv, WalkFrames
        <4>2. Head(stack) \in FrameSet(r)
          BY <2>4, <4>1, HeadTailProperties
        <4> QED  BY <1>4, <4>1, <4>2
      <3> HIDE DEF outs, frames
      <3>4. good(n, outs, frames)
        BY <3>1, <3>2, <3>3
      <3> QED  BY <1>4, <3>4
    <2> QED  BY <2>3, <2>4
  <1> HIDE DEF T
  <1>7. \A n \in 1 .. L : n - 1 \in T => n \in T
    BY <1>6
  <1>8. L \in T
    <2>1. \A n \in 0 .. L : n \in T
      BY <1>4, <1>5, <1>7, Counting
    <2> QED  BY <1>4, <2>1
  <1>9. PICK out, stack : good(L, out, stack)
    BY <1>8 DEF T
  <1>10. ASSUME stack # <<>> PROVE FALSE
    <2> DEFINE outs == Append(out, Head(stack))
               frames == After(r, Head(stack)) \o Tail(stack)
    <2>1. WalkInv(r, outs, frames)
      BY <1>9, <1>10, WalkSteps
    <2>2. Len(outs) = L + 1
      <3>1. out \in Seq(FrameSet(r)) /\ stack \in Seq(FrameSet(r)) /\ Len(out) = L
        BY <1>9, <1>10 DEF WalkInv, WalkFrames
      <3>2. Head(stack) \in FrameSet(r)
        BY <1>10, <3>1, HeadTailProperties
      <3> QED  BY <3>1, <3>2
    <2> HIDE DEF outs, frames
    <2>3. Len(outs) <= L
      BY <2>1, RowsBounded DEF L, size
    <2> QED  BY <1>4, <2>2, <2>3
  <1>11. run[L].out = out
    BY <1>9
  <1> QED  BY <1>2, <1>9, <1>10, <1>11

\* The walk's inputs are a chart.
LEMMA ChartFinite ==
    ASSUME NEW d, Inputs(d), Charts(d)
    PROVE  Drawn(RowInputs(d))
  <1> DEFINE all == d.mirror.all
  <1>1. /\ all = UNION {Lineage(p) : p \in Named(d)}
        /\ \A p \in all : /\ p \in Path /\ p # Root
                          /\ \A q \in Path : q # Root /\ IsPrefix(q, p) => q \in all
    BY ChartIsNamed
  <1>2. IsFiniteSet(all)
    BY <1>1, NamedArePaths, FiniteLineages DEF ArePaths, Path
  <1>3. /\ DOMAIN d.mirror.kids = {Parent(p) : p \in all}
        /\ \A p \in DOMAIN d.mirror.kids : d.mirror.kids[p] = {q \in all : Parent(q) = p}
        /\ d.mirror.groups \subseteq DOMAIN d.mirror.kids
    <2>1. d.mirror = MirrorOf(d.entries, d.accounts)
      BY DEF Charts
    <2> QED  BY <2>1 DEF MirrorOf
  <1>4. RowInputs(d).mirror = d.mirror
    BY DEF RowInputs
  <1> QED  BY <1>1, <1>2, <1>3, <1>4 DEF Drawn

\* The rows that are cached are complete.
LEMMA RowsAreComplete ==
    ASSUME ControllerInv(c, fetches), EditInv(c)
    PROVE  RowsComplete
  <1> SUFFICES ASSUME c.projection # None
               PROVE  LET own == {i \in DOMAIN c.projection : ~c.projection[i].placeholder}
                      IN  /\ {c.projection[i].path : i \in own} = {p \in c.store.paths : Shown(p)}
                          /\ \A i, j \in own : c.projection[i].path = c.projection[j].path => i = j
    BY DEF RowsComplete
  <1> DEFINE r == RowInputs(c)
             rows == c.projection
  <1>1. Drawn(r)
    BY ChartFinite DEF ControllerInv, EditInv
  <1>2. WalkInv(r, rows, <<>>)
    <2>1. rows = Walk(r)
      BY DEF ControllerInv, Cached, ProjectionOf
    <2> HIDE DEF rows, r
    <2> QED  BY <1>1, <2>1, WalkEnds
  <1>3. /\ r.mirror = c.mirror /\ r.store = c.store /\ r.filter = c.filter /\ r.flatten = c.flatten
        /\ c.store.paths = c.mirror.all
    BY DEF RowInputs, ControllerInv, Charts
  <1> HIDE DEF r, rows
  <1>4. \A q : Admits(r, q) = Admits(c, q)
    BY <1>3 DEF Admits
  <1>5. \A p, q : Merges(r, p, q) = Merges(c, p, q)
    BY <1>3, <1>4 DEF Merges
  <1>6. \A p : ChainEnd(r, p) = ChainEnd(c, p)
    BY <1>3, <1>5 DEF ChainEnd
  <1>7. \A p \in c.store.paths : Shown(p) <=> Visible(r, p)
    BY <1>3, <1>4, <1>6 DEF Shown, Visible, Reached
  <1>8. \A p : Visible(r, p) => p \in c.store.paths
    BY <1>3 DEF Visible, Reached
  <1>9. \A j \in DOMAIN rows : ~rows[j].placeholder => Visible(r, rows[j].path)
    BY <1>2 DEF WalkInv, WalkFrames
  <1>10. ASSUME NEW p, Visible(r, p)
         PROVE  \E j \in DOMAIN rows : ~rows[j].placeholder /\ rows[j].path = p
    <2>1. DOMAIN <<>> = {}
      OBVIOUS
    <2> QED  BY <1>2, <1>10, <2>1 DEF WalkInv, WalkCovers
  <1>11. \A i, j \in DOMAIN rows :
           ~rows[i].placeholder /\ ~rows[j].placeholder /\ rows[i].path = rows[j].path => i = j
    BY <1>2 DEF WalkInv, WalkApart
  <1>12. {rows[i].path : i \in {i \in DOMAIN rows : ~rows[i].placeholder}}
           = {p \in c.store.paths : Shown(p)}
    BY <1>7, <1>8, <1>9, <1>10
  <1> QED  BY <1>11, <1>12 DEF rows

THEOREM ViewIsComplete == Spec => []ViewComplete
  <1> DEFINE Inv == /\ ControllerInv(c, fetches) /\ EditInv(c) /\ Viewed(c)
                    /\ gestures \in 0 .. MaxGestures
  <1>1. Init => Inv
    BY Starts, EditsStart, ViewStarts, ControllerAssumption DEF Init
  <1>2. Inv /\ [Next]_vars => Inv'
    <2> SUFFICES ASSUME Inv, [Next]_vars PROVE Inv'
      OBVIOUS
    <2>1. ControllerInv(c', fetches')
      BY StepKeeps
    <2>2. EditInv(c')
      BY EditsKeep DEF Honest
    <2>3. Viewed(c')
      BY ViewsKeep
    <2>4. gestures' \in 0 .. MaxGestures
      BY GesturesBounded
    <2> QED  BY <2>1, <2>2, <2>3, <2>4
  <1>3. Inv => ViewComplete
    BY InvIsTyped, RowsAreComplete DEF ViewComplete
  <1> QED  BY <1>1, <1>2, <1>3, PTL DEF Spec
=============================================================================
