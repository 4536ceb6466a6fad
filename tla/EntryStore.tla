----------------------------- MODULE EntryStore -----------------------------
(***************************************************************************)
(* EntryStore (packages/ledger-core/src/EntryStore.ts): the entry list,    *)
(* the id map, the lazily built caches that are positional over the list,  *)
(* and the synchronous mutation events.                                    *)
(*                                                                         *)
(* Listeners are called from inside the mutating call, and may themselves  *)
(* read, mutate, subscribe, unsubscribe or throw.  The calls on the stack  *)
(* are the frames, innermost last: a frame is one emitMutation loop, with  *)
(* its event, the listener it is calling and those it has still to call.   *)
(* Code runs in the listener being called by the innermost frame, or in    *)
(* the host when there is no frame.                                        *)
(*                                                                         *)
(* Each listener keeps a view: the rows it last read of some registers,    *)
(* which it drops when an event names an account of theirs.  The views are *)
(* not part of the store; they stand for what the events are for.          *)
(***************************************************************************)
EXTENDS RegisterIndex

CONSTANTS
    Key,        \* the registers read: records [path, deep]
    Listener,
    Batch,      \* the sequences of entries a caller may pass
    IdSet,      \* the sets of ids a caller may ask to remove
    None,       \* nothing cached, nothing held, nobody called
    MaxDepth    \* bound on mutations nested in each other

VARIABLES
    entries,         \* in (date, id) order
    entryById,       \* from the ids present to their entries
    registerCache,   \* Key -> the index built, or None
    searchText,      \* the search corpus by position, or None
    listeners,       \* in the order of subscription
    frames,
    view,            \* per listener and Key, the rows last read, or None
    threw            \* history: a listener has thrown

ASSUME BatchAssumption ==
    \A batch \in Batch :
      /\ batch \in Seq(ToSet(batch))
      /\ \A e \in ToSet(batch) :
           /\ e.id \in Nat /\ e.date \in Nat
           /\ e.postings \in Seq(ToSet(e.postings))
           /\ \A p \in DOMAIN e.postings : e.postings[p].amount \in Int

vars == <<entries, entryById, registerCache, searchText, listeners, frames,
          view, threw>>

NoCache == [k \in Key |-> None]

-----------------------------------------------------------------------------
(* Reads *)

Index(list, k) == BuildRegisterIndex(list, k.path, k.deep)

Rows(list, k) ==
    LET index == Index(list, k)
    IN  ReadRegisterSlice(list, index, 0, Len(index.rows))

Corpus(list) == [i \in DOMAIN list |-> list[i].text]

\* Some code can run: not while a loop is between two listeners.
CodeRuns == frames # <<>> => Last(frames).running # None

\* getRegisterIndex: the cached index, built when there is none.
CachedIndex(k) ==
    IF registerCache[k] # None THEN registerCache[k] ELSE Index(entries, k)

\* Any register query without a filter.
ReadRegister(k) ==
    /\ CodeRuns
    /\ registerCache' = [registerCache EXCEPT ![k] = CachedIndex(k)]
    /\ UNCHANGED <<entries, entryById, searchText, listeners, frames, view,
                   threw>>

\* A listener's owner reads a register and keeps the rows.
ReadIntoView(l, k) ==
    /\ CodeRuns
    /\ l \in ToSet(listeners)
    /\ registerCache' = [registerCache EXCEPT ![k] = CachedIndex(k)]
    /\ LET index == CachedIndex(k)
       IN  view' = [view EXCEPT ![l][k] =
                      ReadRegisterSlice(entries, index, 0, Len(index.rows))]
    /\ UNCHANGED <<entries, entryById, searchText, listeners, frames, threw>>

\* A query with search words: the corpus is built unless it is there.
Search ==
    /\ CodeRuns
    /\ entries # <<>>
    /\ searchText' = IF searchText = None THEN Corpus(entries) ELSE searchText
    /\ UNCHANGED <<entries, entryById, registerCache, listeners, frames, view,
                   threw>>

-----------------------------------------------------------------------------
(* Mutations *)

AccountsOf(sources) ==
    UNION {{e.postings[p].account : p \in DOMAIN e.postings} : e \in sources}

\* Bug variant: the search corpus survives a mutation.
EmitKeepsCorpus(ids, sources) ==
    /\ registerCache' = NoCache
    /\ frames' = Append(frames, [ids |-> ids, accounts |-> AccountsOf(sources),
                                 running |-> None, pending |-> listeners])
    /\ UNCHANGED <<searchText, listeners, view, threw>>

\* emitMutation up to its loop: the caches are dropped before anyone is told.
EmitMutation(ids, sources) ==
    /\ registerCache' = NoCache
    /\ searchText' = None
    /\ frames' = Append(frames, [ids |-> ids, accounts |-> AccountsOf(sources),
                                 running |-> None, pending |-> listeners])
    /\ UNCHANGED <<listeners, view, threw>>

\* Map.set under the entry's own id.
Put(byId, e) == [i \in DOMAIN byId \cup {e.id} |-> IF i = e.id THEN e ELSE byId[i]]

\* The dedupe rule of the constructor and of addEntries: an id already present,
\* or earlier in the batch, is skipped.
TakeOne(acc, e) ==
    IF e.id \in DOMAIN acc.byId THEN acc
    ELSE [byId |-> Put(acc.byId, e), added |-> Append(acc.added, e)]

TakeNew(byId, batch) == FoldLeft(TakeOne, [byId |-> byId, added |-> <<>>], batch)

AddEntries(batch) ==
    LET taken == TakeNew(entryById, batch)
    IN  /\ CodeRuns
        /\ Len(frames) < MaxDepth
        /\ taken.added # <<>>
        /\ entryById' = taken.byId
        /\ entries' = MergeSortedEntries(entries, taken.added)
        /\ EmitMutation({e.id : e \in ToSet(taken.added)}, ToSet(taken.added))

\* The filter of removeEntries.
KeepOne(kept, e, ids) == IF e.id \in ids THEN kept ELSE Append(kept, e)

Kept(list, ids) == FoldLeft(LAMBDA kept, e : KeepOne(kept, e, ids), <<>>, list)

\* Bug variant: the event repeats the ids asked for.
RemoveReportsAsked(ids) ==
    LET gone == ids \cap DOMAIN entryById
    IN  /\ CodeRuns
        /\ Len(frames) < MaxDepth
        /\ gone # {}
        /\ entryById' = [i \in DOMAIN entryById \ gone |-> entryById[i]]
        /\ entries' = Kept(entries, gone)
        /\ EmitMutation(ids, {entryById[i] : i \in gone})

RemoveEntries(ids) ==
    LET gone == ids \cap DOMAIN entryById
    IN  /\ CodeRuns
        /\ Len(frames) < MaxDepth
        /\ gone # {}
        /\ entryById' = [i \in DOMAIN entryById \ gone |-> entryById[i]]
        /\ entries' = Kept(entries, gone)
        /\ EmitMutation(gone, {entryById[i] : i \in gone})

\* Bug variant: the accounts of the entry replaced are not reported.
ReplaceForgetsOld(acc, e) ==
    IF e.id \in DOMAIN acc.byId
    THEN LET previous == acc.byId[e.id]
         IN  [list |-> [i \in DOMAIN acc.list |->
                          IF acc.list[i] = previous THEN e ELSE acc.list[i]],
              byId |-> Put(acc.byId, e),
              sources |-> acc.sources \cup {e}]
    ELSE [list |-> Append(acc.list, e),
          byId |-> Put(acc.byId, e),
          sources |-> acc.sources \cup {e}]

\* One turn of replaceEntries' loop: in place when the id is known, else at the
\* end; the old and the new entry are both sources of the event.
ReplaceOne(acc, e) ==
    IF e.id \in DOMAIN acc.byId
    THEN LET previous == acc.byId[e.id]
         IN  [list |-> [i \in DOMAIN acc.list |->
                          IF acc.list[i] = previous THEN e ELSE acc.list[i]],
              byId |-> Put(acc.byId, e),
              sources |-> acc.sources \cup {previous, e}]
    ELSE [list |-> Append(acc.list, e),
          byId |-> Put(acc.byId, e),
          sources |-> acc.sources \cup {e}]

\* Bug variant: a replacement is trusted to keep its place.
ReplaceWithoutSort(batch) ==
    LET done == FoldLeft(ReplaceOne,
                  [list |-> entries, byId |-> entryById, sources |-> {}], batch)
    IN  /\ CodeRuns
        /\ Len(frames) < MaxDepth
        /\ batch # <<>>
        /\ entryById' = done.byId
        /\ entries' = done.list
        /\ EmitMutation({e.id : e \in ToSet(batch)}, done.sources)

ReplaceEntries(batch) ==
    LET done == FoldLeft(ReplaceOne,
                  [list |-> entries, byId |-> entryById, sources |-> {}], batch)
    IN  /\ CodeRuns
        /\ Len(frames) < MaxDepth
        /\ batch # <<>>
        /\ entryById' = done.byId
        /\ entries' = SortEntries(done.list)
        /\ EmitMutation({e.id : e \in ToSet(batch)}, done.sources)

-----------------------------------------------------------------------------
(* Events *)

Touches(accounts, k) == \E a \in accounts : MatchesRegister(a, k.path, k.deep)

Top == Last(frames)

\* The innermost loop calls its next listener, which drops what is stale.
Deliver ==
    /\ frames # <<>>
    /\ Top.pending # <<>>
    /\ LET l == Head(Top.pending)
       IN  /\ frames' = Append(Front(frames),
                          [Top EXCEPT !.running = l, !.pending = Tail(@)])
           /\ view' = [view EXCEPT ![l] =
                         [k \in Key |-> IF Touches(Top.accounts, k) THEN None
                                        ELSE view[l][k]]]
    /\ UNCHANGED <<entries, entryById, registerCache, searchText, listeners,
                   threw>>

\* The loop ends and the mutating call returns.
Return ==
    /\ frames # <<>>
    /\ Top.pending = <<>>
    /\ frames' = Front(frames)
    /\ UNCHANGED <<entries, entryById, registerCache, searchText, listeners,
                   view, threw>>

\* The listener being called throws; nothing in emitMutation catches it, so
\* every loop on the stack ends with its remaining listeners uncalled.
ListenerThrows ==
    /\ frames # <<>>
    /\ Top.running # None
    /\ frames' = <<>>
    /\ threw' = TRUE
    /\ UNCHANGED <<entries, entryById, registerCache, searchText, listeners,
                   view>>

\* Set.delete, on one listener.
SkipOne(left, m, l) == IF m = l THEN left ELSE Append(left, m)

Without(list, l) == FoldLeft(LAMBDA left, m : SkipOne(left, m, l), <<>>, list)

\* onMutation.  The loops iterate over the live Set: a listener added during a
\* loop is called by it, one deleted is not.
Subscribe(l) ==
    /\ CodeRuns
    /\ l \notin ToSet(listeners)
    /\ listeners' = Append(listeners, l)
    /\ frames' = [i \in DOMAIN frames |->
                    [frames[i] EXCEPT !.pending = Append(@, l)]]
    /\ UNCHANGED <<entries, entryById, registerCache, searchText, view, threw>>

Unsubscribe(l) ==
    /\ CodeRuns
    /\ l \in ToSet(listeners)
    /\ listeners' = Without(listeners, l)
    /\ frames' = [i \in DOMAIN frames |->
                    [frames[i] EXCEPT !.pending = Without(@, l)]]
    /\ view' = [view EXCEPT ![l] = NoCache]
    /\ UNCHANGED <<entries, entryById, registerCache, searchText, threw>>

-----------------------------------------------------------------------------
\* The constructor: the entries are sorted and nobody is told.
Init ==
    /\ \E batch \in Batch \cup {<<>>} :
         LET taken == TakeNew(<<>>, batch)
         IN  /\ entryById = taken.byId
             /\ entries = SortEntries(taken.added)
    /\ registerCache = NoCache
    /\ searchText = None
    /\ listeners = <<>>
    /\ frames = <<>>
    /\ view = [l \in Listener |-> NoCache]
    /\ threw = FALSE

Next ==
    \/ \E k \in Key : ReadRegister(k)
    \/ \E l \in Listener, k \in Key : ReadIntoView(l, k)
    \/ Search
    \/ \E batch \in Batch : AddEntries(batch)
    \/ \E ids \in IdSet : RemoveEntries(ids)
    \/ \E batch \in Batch : ReplaceEntries(batch)
    \/ Deliver
    \/ Return
    \/ ListenerThrows
    \/ \E l \in Listener : Subscribe(l)
    \/ \E l \in Listener : Unsubscribe(l)

Spec == Init /\ [][Next]_vars

-----------------------------------------------------------------------------
(* Safety *)

\* The list, in strict (date, id) order, and the id map hold the same entries:
\* no id twice, none in one and not in the other, after any sequence of adds,
\* removals and upserts, nested ones included.
ListMatchesMap ==
    /\ \A i \in 1 .. Len(entries) - 1 : Before(entries[i], entries[i + 1])
    /\ ToSet(entries) = {entryById[i] : i \in DOMAIN entryById}
    /\ \A i \in DOMAIN entryById : entryById[i].id = i
    /\ Len(entries) = Cardinality(DOMAIN entryById)

\* What is cached by position over the list is what would be built from the
\* list now, at every point where code can run: a listener that reads during
\* its event never sees the rows of another list.
CachesCoherent ==
    /\ \A k \in Key : registerCache[k] # None =>
                        registerCache[k] = Index(entries, k)
    /\ searchText # None => searchText = Corpus(entries)

\* The events are enough to keep a copy: a subscriber that drops only the
\* registers an event names never holds a stale one, except while the event
\* that concerns it is still being delivered or after a listener threw.
ViewsCoherent ==
    ~threw =>
      \A l \in ToSet(listeners), k \in Key :
        \/ view[l][k] \in {None, Rows(entries, k)}
        \/ \E i \in DOMAIN frames : /\ l \in ToSet(frames[i].pending)
                                    /\ Touches(frames[i].accounts, k)

\* What is kept beside the list agrees with it, in the store and in its readers.
StoreSound == ListMatchesMap /\ ViewsCoherent

\* Each event names every id whose entry changed, and beyond those only ids
\* that were replaced: an add that was skipped or an unknown id asked to be
\* removed is never reported, and no event fires when nothing changed.
EventsHonest ==
    [][Len(frames') > Len(frames) =>
         LET ids == Last(frames').ids
             same(i) == /\ i \in DOMAIN entryById /\ i \in DOMAIN entryById'
                        /\ entryById[i] = entryById'[i]
         IN  /\ ids # {}
             /\ \A i \in DOMAIN entryById \cup DOMAIN entryById' :
                  same(i) \/ i \in ids
             /\ ids \subseteq DOMAIN entryById \cup DOMAIN entryById']_vars

=============================================================================
