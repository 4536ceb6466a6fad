---------------------------- MODULE EntryIngest ----------------------------
(***************************************************************************)
(* EntryStore.addEntriesAsync (packages/ledger-core/src/EntryStore.ts):    *)
(* calls that ingest a source chunk by chunk, each chunk applied by a task *)
(* of a shared CooperativeScheduler or, without one, at once with a        *)
(* setTimeout(0) after it.  Between chunks the abort signals fire, the     *)
(* scheduler is aborted, other tasks run and the store is mutated.         *)
(*                                                                         *)
(* The store is the set of its ids: what decides whether an entry is added *)
(* or skipped.  A chunk is a sequence of ids.                              *)
(***************************************************************************)
EXTENDS Integers, Sequences, FiniteSets, SequencesExt

CONSTANTS
    Ingest,      \* the calls of addEntriesAsync
    Scheduled,   \* those given options.scheduler
    Chunks,      \* per call, the sequence of chunks its source yields
    Other,       \* the caller's other scheduled tasks
    Id,
    MaxQueue,
    Reentrant    \* whether a mutation listener mutates the store

ASSUME IngestAssumption ==
    /\ Scheduled \subseteq Ingest
    /\ Chunks \in [Ingest -> Seq(Seq(Id))]
    /\ MaxQueue \in Nat \ {0}
    /\ Reentrant \in BOOLEAN
    /\ Other \cap (Ingest \X Nat) = {}      \* they are no chunks

\* The scheduler's tasks: the chunks of the calls that use it, and the others.
Task == Other \cup UNION {{<<g, n>> : n \in DOMAIN Chunks[g]} : g \in Scheduled}

VARIABLES
    queue, aborted, sliceScheduled, timers, stepping, promise,
    tasksCompleted, accepted, finished,     \* the scheduler's
    store,      \* the ids of the store
    call,       \* per call: pc, chunk being handled, gain, added, skipped
    signal,     \* the calls whose AbortSignal has fired
    inserted,   \* history: per call, how many ids its chunks inserted
    late,       \* history: per call, the chunks applied after its signal
    mutated     \* history: someone else has mutated the store

Scheduler == INSTANCE Scheduler

schedulerVars == <<queue, aborted, sliceScheduled, timers, stepping, promise,
                   tasksCompleted, accepted, finished>>
ingestVars == <<store, call, signal, inserted, late, mutated>>
vars == <<schedulerVars, ingestVars>>

Settled == {"returned", "stopped", "rejected"}

Chunk(g) == Chunks[g][call[g].next]

Init ==
    /\ Scheduler!Init
    /\ store = {}
    /\ call = [g \in Ingest |->
                 [pc |-> "pull", next |-> 1, gain |-> 0, added |-> 0, skipped |-> 0]]
    /\ signal = {}
    /\ inserted = [g \in Ingest |-> 0]
    /\ late = [g \in Ingest |-> 0]
    /\ mutated = FALSE

-----------------------------------------------------------------------------
\* What a listener may do to the store during the event of an addition.
ListenerEffects(content) ==
    IF Reentrant
    THEN {content} \cup {content \cup {i} : i \in Id} \cup {content \ {i} : i \in Id}
    ELSE {content}

\* Bug variant: the whole chunk is taken as inserted.
ApplyCountsAll(g, pc) ==
    LET fresh == ToSet(Chunk(g)) \ store
    IN  /\ store' \in IF fresh = {} THEN {store}
                      ELSE ListenerEffects(store \cup fresh)
        /\ inserted' = [inserted EXCEPT ![g] = @ + Cardinality(fresh)]
        /\ late' = [late EXCEPT ![g] = @ + IF g \in signal THEN 1 ELSE 0]
        /\ call' = [call EXCEPT ![g].pc = pc, ![g].gain = Len(Chunk(g))]

\* applyChunk(): addEntries skips the ids that are there, and the gain is the
\* difference of two readings of the entry count.
ApplyChunk(g, pc) ==
    LET fresh == ToSet(Chunk(g)) \ store
    IN  /\ store' \in IF fresh = {} THEN {store}
                      ELSE ListenerEffects(store \cup fresh)
        /\ inserted' = [inserted EXCEPT ![g] = @ + Cardinality(fresh)]
        /\ late' = [late EXCEPT ![g] = @ + IF g \in signal THEN 1 ELSE 0]
        /\ call' = [call EXCEPT
                      ![g].pc = pc,
                      ![g].gain = Cardinality(store') - Cardinality(store)]

Goto(g, pc) == call' = [call EXCEPT ![g].pc = pc]

\* Bug variant: the last, partial chunk is not yielded.
FinishBeforeLast(g) ==
    /\ call[g].pc = "pull"
    /\ ~stepping
    /\ call[g].next >= Len(Chunks[g])
    /\ Goto(g, "returned")
    /\ UNCHANGED <<schedulerVars, store, signal, inserted, late, mutated>>

\* The source is exhausted.
Finish(g) ==
    /\ call[g].pc = "pull"
    /\ ~stepping
    /\ call[g].next > Len(Chunks[g])
    /\ Goto(g, "returned")
    /\ UNCHANGED <<schedulerVars, store, signal, inserted, late, mutated>>

\* The source yields a chunk and the signal has fired.
Stop(g) ==
    /\ call[g].pc = "pull"
    /\ ~stepping
    /\ call[g].next <= Len(Chunks[g])
    /\ g \in signal
    /\ Goto(g, "stopped")
    /\ UNCHANGED <<schedulerVars, store, signal, inserted, late, mutated>>

\* Bug variant: the signal is only looked at on the direct path.
ScheduleUnchecked(g) ==
    /\ call[g].pc = "pull"
    /\ ~stepping
    /\ call[g].next <= Len(Chunks[g])
    /\ g \in Scheduled
    /\ LET task == <<g, call[g].next>>
       IN  /\ Scheduler!Schedule(task)
           /\ Goto(g, IF promise'[task] = "pending" THEN "queued" ELSE "rejected")
    /\ UNCHANGED <<store, signal, inserted, late, mutated>>

\* The source yields a chunk: it becomes a task, or the call is rejected when
\* the scheduler refuses it.
ScheduleChunk(g) ==
    /\ call[g].pc = "pull"
    /\ ~stepping
    /\ call[g].next <= Len(Chunks[g])
    /\ g \notin signal
    /\ g \in Scheduled
    /\ LET task == <<g, call[g].next>>
       IN  /\ Scheduler!Schedule(task)
           /\ Goto(g, IF promise'[task] = "pending" THEN "queued" ELSE "rejected")
    /\ UNCHANGED <<store, signal, inserted, late, mutated>>

\* The source yields a chunk, which is applied at once.
ApplyDirectly(g) ==
    /\ call[g].pc = "pull"
    /\ ~stepping
    /\ call[g].next <= Len(Chunks[g])
    /\ g \notin signal
    /\ g \notin Scheduled
    /\ ApplyChunk(g, "asleep")
    /\ UNCHANGED <<schedulerVars, signal, mutated>>

\* The chunk's result is counted and the next one is pulled.
CountChunk(g) ==
    call' = [call EXCEPT
               ![g].pc = "pull",
               ![g].next = @ + 1,
               ![g].added = @ + call[g].gain,
               ![g].skipped = @ + Len(Chunk(g)) - call[g].gain]

\* Bug variant: a rejected task is not passed on.
ResumeIgnoresRejection(g) ==
    /\ call[g].pc = "queued"
    /\ ~stepping
    /\ promise[<<g, call[g].next>>] = "resolved"
    /\ CountChunk(g)
    /\ UNCHANGED <<schedulerVars, store, signal, inserted, late, mutated>>

\* The await on the task resumes.
Resume(g) ==
    /\ call[g].pc = "queued"
    /\ ~stepping
    /\ LET answer == promise[<<g, call[g].next>>]
       IN  \/ answer = "resolved" /\ CountChunk(g)
           \/ answer \in {"failed", "aborted"} /\ Goto(g, "rejected")
    /\ UNCHANGED <<schedulerVars, store, signal, inserted, late, mutated>>

\* The setTimeout after a direct application fires.
Wake(g) ==
    /\ call[g].pc = "asleep"
    /\ ~stepping
    /\ CountChunk(g)
    /\ UNCHANGED <<schedulerVars, store, signal, inserted, late, mutated>>

-----------------------------------------------------------------------------
(* The scheduler's side *)

Running(task) == IF stepping /\ ~aborted THEN Head(queue) = task ELSE FALSE

\* The caller's own code runs: outside the slices, in a step of another task,
\* or in what is left of a step that aborted.
HostRuns == stepping /\ ~aborted => \E t \in Other : Running(t)

\* A chunk's step: done in one call, unless a listener throws out of it or
\* aborts the scheduler inside it; the chunk is in the store either way.
RunChunk(g) ==
    /\ g \in Scheduled
    /\ Running(<<g, call[g].next>>)
    /\ Scheduler!StepCompletes \/ Scheduler!StepThrows \/ Scheduler!Abort
    /\ ApplyChunk(g, "queued")
    /\ UNCHANGED <<signal, mutated>>

\* Everything else the scheduler does.
SchedulerStep ==
    /\ \/ Scheduler!RunSlice
       \/ Scheduler!StepAborted
       \/ \E t \in Other :
            /\ Running(t)
            /\ \/ Scheduler!StepYields
               \/ Scheduler!StepCompletes
               \/ Scheduler!StepThrows
    /\ UNCHANGED ingestVars

\* The host, or one of its tasks, uses the scheduler.
UseScheduler ==
    /\ HostRuns
    /\ Scheduler!Abort \/ \E t \in Other : Scheduler!Schedule(t)
    /\ UNCHANGED ingestVars

\* Bug variant: the call settles with the signal, its chunk still queued.
FireSignalSettles(g) ==
    /\ g \notin signal
    /\ signal' = signal \cup {g}
    /\ call' = [call EXCEPT ![g].pc = IF @ \in Settled THEN @ ELSE "stopped"]
    /\ UNCHANGED <<schedulerVars, store, inserted, late, mutated>>

FireSignal(g) ==
    /\ g \notin signal
    /\ signal' = signal \cup {g}
    /\ UNCHANGED <<schedulerVars, store, call, inserted, late, mutated>>

\* Someone else adds or removes an entry between two chunks.
Mutate ==
    /\ HostRuns
    /\ \E i \in Id : store' \in {store \cup {i}, store \ {i}} \ {store}
    /\ mutated' = TRUE
    /\ UNCHANGED <<schedulerVars, call, signal, inserted, late>>

\* The steps of one call.
Advance(g) ==
    \/ Finish(g)
    \/ Stop(g)
    \/ ScheduleChunk(g)
    \/ ApplyDirectly(g)
    \/ Resume(g)
    \/ Wake(g)

Next ==
    \/ \E g \in Ingest : Advance(g) \/ RunChunk(g) \/ FireSignal(g)
    \/ SchedulerStep
    \/ UseScheduler
    \/ Mutate

Spec == Init /\ [][Next]_vars

\* The source yields or ends, timers fire, steps return, and the other tasks
\* are finite.
Fairness ==
    /\ \A g \in Ingest : WF_vars(Advance(g))
    /\ WF_vars(SchedulerStep \/ \E g \in Ingest : RunChunk(g))
    /\ SF_vars(stepping /\ SchedulerStep /\ queue' # queue)
    /\ SF_vars(\E g \in Ingest : RunChunk(g))

FairSpec == Spec /\ Fairness

-----------------------------------------------------------------------------
(* Safety *)

\* The entries of the first n chunks by their places, and their ids.
Places(g, n) == UNION {{k} \X DOMAIN Chunks[g][k] : k \in 1 .. n}

Ids(g, n) == UNION {ToSet(Chunks[g][k]) : k \in 1 .. n}

Total(g) == Cardinality(Places(g, call[g].next - 1))

\* What the store holds when, of the chunks in hand, those of `applied` are in.
Held(applied) ==
    UNION {Ids(g, IF g \in applied THEN call[g].next ELSE call[g].next - 1) :
             g \in Ingest}

\* The numbers a call reports are honest: `added` is how many entries its
\* chunks put into the store, whoever else wrote to the store meanwhile, and
\* every entry of the chunks counted is either added or skipped.
CountsHonest ==
    \A g \in Ingest : call[g].pc \in {"returned", "stopped"} =>
      /\ call[g].added = inserted[g]
      /\ call[g].added + call[g].skipped = Total(g)

\* "The end state is identical to one synchronous addEntries of the same
\* data": a call that returns without abort has applied every chunk, and while
\* nobody else writes the store holds whole chunks only.
EveryChunkApplied ==
    LET inFlight == {g \in Ingest : call[g].pc \in {"queued", "asleep", "rejected"}}
    IN  /\ \A g \in Ingest : call[g].pc = "returned" => call[g].next > Len(Chunks[g])
        /\ ~mutated => \E applied \in SUBSET inFlight : store = Held(applied)

\* "Aborting via options.signal stops before the next chunk": after the signal
\* nothing more is applied but the chunk already handed to the scheduler, and a
\* call that reports an abort was asked for one and left chunks out.
AbortStops ==
    \A g \in Ingest :
      /\ late[g] <= IF g \in Scheduled THEN 1 ELSE 0
      /\ call[g].pc = "stopped" => g \in signal /\ call[g].next <= Len(Chunks[g])

\* Once its promise is settled, a call never touches the store again: no chunk
\* is left in the queue when the scheduler's abort rejects it.
NoLateChunk ==
    [][\A g \in Ingest : call[g].pc \in Settled =>
         /\ inserted'[g] = inserted[g]
         /\ late'[g] = late[g]
         /\ call'[g] = call[g]]_vars

\* What a call says and what it does: its numbers, what is in the store when it
\* returns, and what an abort leaves undone.
CallsHonest ==
    /\ [](CountsHonest /\ EveryChunkApplied /\ AbortStops)
    /\ NoLateChunk

(* Liveness *)

\* Every call settles, whoever aborts what.
EveryCallSettles == \A g \in Ingest : <>(call[g].pc \in Settled)
=============================================================================
