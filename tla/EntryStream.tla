----------------------------- MODULE EntryStream ------------------------------
(***************************************************************************)
(* EntryStream: entries pulled from a source, buffered, and drawn at most  *)
(* once a frame through the queue it shares with the rest of the page,     *)
(* here a smooth scroller that queues and withdraws its own step.          *)
(*                                                                         *)
(* The queue every component of a page draws through is a set of callbacks *)
(* in the order they came, and one animation frame asked for at a time.    *)
(* A frame takes the callbacks of the moment; those queued while it runs   *)
(* wait for the next one, and one that is withdrawn while it runs is still *)
(* in the frame's own copy.                                                *)
(***************************************************************************)
EXTENDS Naturals, SequencesExt, FiniteSets

CONSTANTS
    None,
    Feed,         \* how many entries the source has
    Kinds,        \* "reader" for a ReadableStream, "generator" for an AsyncIterable
    UserTops,     \* where the user scrolls to, the bottom apart
    MaxUser       \* calls of the host and gestures of the user

VARIABLES
    stream,       \* the component, its document and its source
    used

streamVars == <<stream, used>>

ASSUME FeedAssumption ==
    Feed \in Nat /\ None \notin Nat /\ UserTops \subseteq Nat /\ MaxUser \in Nat

-----------------------------------------------------------------------------
(* The queue of renders *)

\* The browser's handles: `requested` are the frames it owes.
NoFrames == [callbacks |-> <<>>, frame |-> None, requested |-> {}]

Fresh(q) == CHOOSE h \in 1 .. Cardinality(q.requested) + 2 :
              h \notin q.requested /\ h # q.frame

Requested(q) ==
    LET h == Fresh(q) IN [q EXCEPT !.frame = h, !.requested = @ \cup {h}]

QueueRender(q, callback) ==
    LET queued == [q EXCEPT !.callbacks = IF Contains(@, callback) THEN @
                                          ELSE Append(@, callback)]
    IN IF q.frame = None THEN Requested(queued) ELSE queued

Without(callbacks, callback) ==
    IF ~Contains(callbacks, callback) THEN callbacks
    ELSE RemoveAt(callbacks, CHOOSE i \in DOMAIN callbacks : callbacks[i] = callback)

\* The last one withdrawn takes the frame with it.
DequeueRender(q, callback) ==
    LET rest == Without(q.callbacks, callback)
    IN IF rest = <<>> /\ q.frame # None
       THEN [callbacks |-> <<>>, frame |-> None, requested |-> q.requested \ {q.frame}]
       ELSE [q EXCEPT !.callbacks = rest]

\* The browser runs the frame `h`; the callbacks it takes are those of the
\* queue as it stood.
FrameBegun(q, h) == [q EXCEPT !.callbacks = <<>>, !.requested = @ \ {h}]

FrameEnded(q) ==
    IF q.callbacks # <<>> THEN Requested(q) ELSE [q EXCEPT !.frame = None]

-----------------------------------------------------------------------------
(* The page of the stream *)

RowHeight == 30
FooterHeight == 10
ViewportHeight == 40
StickToBottomSlack == 20

Height(w) == RowHeight * Len(w.drawn) + FooterHeight

Bottom(w) == IF Height(w) > ViewportHeight THEN Height(w) - ViewportHeight ELSE 0

Constructed(kind, autoScroll) ==
    [kind |-> kind, autoScroll |-> autoScroll,
     mounted |-> FALSE, pending |-> <<>>, entryCount |-> 0, done |-> FALSE,
     stickToBottom |-> TRUE, canceled |-> FALSE,
     \* the document
     drawn |-> <<>>, shown |-> 0, state |-> "streaming", said |-> <<>>, top |-> 0,
     scrolled |-> FALSE, away |-> FALSE,
     \* the source, the loops that pull it, and what the host was told
     next |-> 1, loops |-> <<>>, told |-> <<>>,
     queue |-> NoFrames, gliding |-> FALSE]

WithRender(w, callback) == [w EXCEPT !.queue = QueueRender(@, callback)]

\* A reader already taken cannot be taken again: the second loop fails at once.
StartConsuming(w) ==
    LET locked == w.kind = "reader" /\ w.loops # <<>>
    IN [WithRender(w, "announceStart")
          EXCEPT !.loops = Append(@, IF locked THEN "stopped" ELSE "reading")]

\* Rendering what is mounted in the same container does nothing.
Render(w) ==
    IF w.mounted THEN w
    ELSE StartConsuming(
           [w EXCEPT !.mounted = TRUE, !.drawn = <<>>, !.shown = 0, !.state = "streaming",
                     !.said = <<>>, !.top = 0, !.scrolled = FALSE, !.away = FALSE])

CleanUp(w) ==
    [w EXCEPT !.canceled = TRUE, !.pending = <<>>, !.mounted = FALSE, !.scrolled = FALSE]

Announced(w, message) ==
    IF w.mounted THEN [w EXCEPT !.said = Append(@, message)] ELSE w

AnnounceStart(w) ==
    IF ~w.canceled /\ ~w.done THEN Announced(w, "start") ELSE w

ReceiveLatest(w, entry) ==        \* the buffer keeps the latest of a frame
    LET received == [w EXCEPT !.entryCount = @ + 1, !.pending = <<entry>>,
                              !.told = Append(@, <<"entry", w.entryCount>>)]
    IN WithRender(received, "flush")

ReceiveEntry(w, entry) ==
    WithRender([w EXCEPT !.entryCount = @ + 1, !.pending = Append(@, entry),
                     !.told = Append(@, <<"entry", w.entryCount>>)], "flush")

EndUndrawn(w) ==               \* the last flush is not asked for
    LET announced == Announced([w EXCEPT !.done = TRUE], "complete")
    IN [announced EXCEPT !.told = Append(@, <<"done", w.entryCount>>)]

SourceEnded(w) ==
    LET announced == Announced(WithRender([w EXCEPT !.done = TRUE], "flush"), "complete")
    IN [announced EXCEPT !.told = Append(@, <<"done", w.entryCount>>)]

Flush(w) ==
    IF ~w.mounted THEN w
    ELSE LET grown == [w EXCEPT !.drawn = @ \o w.pending, !.pending = <<>>,
                                !.shown = w.entryCount,
                                !.state = IF w.done THEN "done" ELSE @]
         IN IF w.autoScroll /\ w.stickToBottom
            THEN [grown EXCEPT !.top = Bottom(grown),
                               !.scrolled = @ \/ Bottom(grown) # w.top]
            ELSE grown

HandleScrollOnce(w) ==            \* following is taken up again, never let go
    IF ~w.scrolled THEN w
    ELSE [w EXCEPT !.scrolled = FALSE,
                   !.stickToBottom = @ \/ w.top + ViewportHeight + StickToBottomSlack
                                            >= Height(w)]

HandleScroll(w) ==
    IF ~w.scrolled THEN w
    ELSE [w EXCEPT !.scrolled = FALSE,
                   !.stickToBottom = w.top + ViewportHeight + StickToBottomSlack
                                       >= Height(w)]

-----------------------------------------------------------------------------
(* The neighbour: a smooth scroller, queued again by its own step *)

ScrollTo(w) ==
    IF w.gliding THEN w ELSE WithRender([w EXCEPT !.gliding = TRUE], "step")

Cancel(w) ==
    IF ~w.gliding THEN w
    ELSE [w EXCEPT !.gliding = FALSE, !.queue = DequeueRender(@, "step")]

GlideStep(w, settled) ==
    IF ~w.gliding THEN w
    ELSE IF settled THEN Cancel(w) ELSE WithRender(w, "step")

-----------------------------------------------------------------------------
(* The frame *)

Ran(w, callback, settled) ==
    CASE callback = "announceStart" -> AnnounceStart(w)
      [] callback = "flush" -> Flush(w)
      [] callback = "step" -> GlideStep(w, settled)

\* Scroll events come first, then the callbacks, one after the other.
FrameRun(w, h, settled) ==
    LET begun == [HandleScroll(w) EXCEPT !.queue = FrameBegun(@, h)]
        callbacks == w.queue.callbacks
        page[i \in 0 .. Len(callbacks)] ==
            IF i = 0 THEN begun ELSE Ran(page[i - 1], callbacks[i], settled)
    IN [page[Len(callbacks)] EXCEPT !.queue = FrameEnded(@)]

RunFrame ==
    /\ \E h \in stream.queue.requested, settled \in BOOLEAN :
         stream' = FrameRun(stream, h, settled)
    /\ UNCHANGED used

\* A frame nobody asked for, with a scroll event to give.
ScrollEvent ==
    /\ stream.queue.requested = {}
    /\ stream.scrolled
    /\ stream' = HandleScroll(stream)
    /\ UNCHANGED used

-----------------------------------------------------------------------------
(* The source answers the pull of a loop *)

Stopped(w, i) == [w EXCEPT !.loops[i] = "stopped"]

\* What onEntry does before the loop goes on.
Reacted(w, i, reaction) ==
    CASE reaction = "throws" -> Stopped(w, i)
      [] reaction = "cleanUp" -> CleanUp(w)
      [] reaction = "nothing" -> w

AnsweredRegardless(w, i, answer, reaction) ==   \* nobody looks whether it was cancelled
    CASE answer = "entry" ->
           Reacted(ReceiveEntry([w EXCEPT !.next = @ + 1], w.next), i, reaction)
      [] answer = "end" -> SourceEnded([w EXCEPT !.loops[i] = "done"])
      [] answer = "error" -> Stopped(w, i)

Answered(w, i, answer, reaction) ==
    CASE w.canceled -> Stopped(w, i)
      [] ~w.canceled /\ answer = "entry" ->
           Reacted(ReceiveEntry([w EXCEPT !.next = @ + 1], w.next), i, reaction)
      [] ~w.canceled /\ answer = "end" -> SourceEnded([w EXCEPT !.loops[i] = "done"])
      [] ~w.canceled /\ answer = "error" -> Stopped(w, i)

Exhausted(w) == w.next > Feed

SourceAnswers ==
    /\ \E i \in DOMAIN stream.loops, answer \in {"entry", "end", "error"},
          reaction \in {"nothing", "throws", "cleanUp"} :
         /\ stream.loops[i] = "reading"
         /\ answer = "entry" => ~Exhausted(stream)
         /\ answer = "end" => Exhausted(stream) \/ stream.canceled
         /\ answer # "entry" => reaction = "nothing"
         /\ stream' = Answered(stream, i, answer, reaction)
    /\ UNCHANGED used

-----------------------------------------------------------------------------
(* The host and the user *)

Asked(pages) ==
    /\ used < MaxUser
    /\ used' = used + 1
    /\ stream' \in pages

Host ==
    \/ Asked({Render(stream), CleanUp(stream)})
    \/ Asked({[stream EXCEPT !.autoScroll = ~@]})

\* Content that grows under the view says nothing of where the user wants to be.
UserScrolled(w, top) ==
    [w EXCEPT !.top = top, !.scrolled = TRUE,
              !.away = top + ViewportHeight + StickToBottomSlack < Height(w)]

User ==
    \/ /\ stream.mounted
       /\ Asked({UserScrolled(stream, top) :
                top \in {top \in UserTops \cup {Bottom(stream)} :
                           top # stream.top /\ top <= Bottom(stream)}})
    \/ Asked({ScrollTo(stream), Cancel(stream)})

StreamInit ==
    /\ stream \in {Constructed(kind, autoScroll) : kind \in Kinds, autoScroll \in BOOLEAN}
    /\ used = 0

StreamNext == RunFrame \/ ScrollEvent \/ SourceAnswers \/ Host \/ User

\* Frames run and the source answers; nobody has to call or to scroll.
StreamFairness == WF_streamVars(RunFrame) /\ WF_streamVars(SourceAnswers)

StreamSpec == StreamInit /\ [][StreamNext]_streamVars /\ StreamFairness

-----------------------------------------------------------------------------
(* Properties *)

\* The fields of the component, of its document and of its source.
StreamTypeOK ==
    /\ stream.kind \in Kinds /\ {stream.done, stream.canceled, stream.mounted} \subseteq BOOLEAN
    /\ {stream.autoScroll, stream.stickToBottom, stream.gliding} \subseteq BOOLEAN
    /\ Range(stream.pending) \cup Range(stream.drawn) \subseteq 1 .. Feed
    /\ stream.entryCount < stream.next /\ stream.next \in 1 .. Feed + 1
    /\ stream.shown <= stream.entryCount /\ stream.state \in {"streaming", "done"}
    /\ Range(stream.loops) \subseteq {"reading", "stopped", "done"}
    /\ stream.top \in 0 .. Height(stream)
    /\ Range(stream.queue.callbacks) \subseteq {"announceStart", "flush", "step"}
    /\ stream.queue.frame \in {None} \cup stream.queue.requested
    /\ used \in 0 .. MaxUser

\* Until it is cleaned up, the entries in the document followed by those that
\* wait for the next frame are the entries received, each once and in order,
\* however arrivals fall between frames; and the live region has said that
\* streaming began, that it is complete, or both in that order.
EntriesInOrder ==
    ~stream.canceled =>
        /\ stream.drawn \o stream.pending = [i \in 1 .. stream.entryCount |-> i]
        /\ stream.said \in {<<>>, <<"start">>, <<"complete">>, <<"start", "complete">>}

\* After cleanUp the host is told of no entry and no completion, even when the
\* answer to a pull was on its way, or when onEntry itself cleaned up.
QuietAfterCleanUp ==
    [][stream.canceled => stream'.told = stream.told]_streamVars

\* Once the user has scrolled away from the bottom, no flush moves the view
\* until they scroll back.
ViewHeld ==
    [][stream.away /\ stream'.away /\ stream'.top # stream.top
         => used' # used]_streamVars

\* A stream shows and tells what it received, to whom it should, and does not
\* take the view away from a reader.
StreamHonest == [](StreamTypeOK /\ EntriesInOrder) /\ QuietAfterCleanUp /\ ViewHeld

\* A stream that is rendered comes to show every entry, the full count and that
\* it is done, unless it is cleaned up, its source fails or its host throws.
StreamCompletes ==
    stream.mounted ~>
        \/ stream.canceled
        \/ \E i \in DOMAIN stream.loops : stream.loops[i] = "stopped"
        \/ /\ stream.drawn = [i \in 1 .. Feed |-> i]
           /\ stream.shown = Feed
           /\ stream.state = "done"

=============================================================================
