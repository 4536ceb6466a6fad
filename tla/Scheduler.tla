----------------------------- MODULE Scheduler -----------------------------
(***************************************************************************)
(* createCooperativeScheduler (packages/ledger-core/src/scheduler.ts): a   *)
(* FIFO queue of resumable tasks, run in time slices by one setTimeout(0)  *)
(* at a time.  JavaScript runs one callback to the end, so an action is    *)
(* what happens between two points where other code may run: a call of     *)
(* `schedule` or `abort`, made by the host while no slice runs or by the   *)
(* step being run; the timer callback up to its first step; and the        *)
(* return of a step up to the next step or the end of the slice.           *)
(***************************************************************************)
EXTENDS Naturals, Sequences, FiniteSets, SequencesExt

CONSTANTS
    Task,      \* the calls of `schedule` that the program may make
    MaxQueue   \* options.maxQueue

ASSUME MaxQueueAssumption == MaxQueue \in Nat \ {0}

VARIABLES
    queue,           \* the tasks waiting, the head being the one that runs
    aborted,
    sliceScheduled,
    timers,          \* runSlice callbacks the event loop still has to call
    stepping,        \* a slice is on the stack, inside the head's step
    promise,         \* what the caller of each `schedule` sees
    tasksCompleted,
    accepted,        \* history: the tasks queued, in the order of the calls
    finished         \* history: the tasks that ran to an end, in that order

vars == <<queue, aborted, sliceScheduled, timers, stepping, promise,
          tasksCompleted, accepted, finished>>

Rejected == {"failed", "aborted", "full"}

Settled == Rejected \cup {"resolved"}

\* The values of a promise: "new" before the call, then pending until settled.
PromiseState == {"new", "pending"} \cup Settled

TypeOK ==
    /\ queue \in Seq(Task)
    /\ aborted \in BOOLEAN
    /\ sliceScheduled \in BOOLEAN
    /\ timers \in Nat
    /\ stepping \in BOOLEAN
    /\ promise \in [Task -> PromiseState]
    /\ tasksCompleted \in Nat
    /\ accepted \in Seq(Task)
    /\ finished \in Seq(Task)

Init ==
    /\ queue = <<>>
    /\ aborted = FALSE
    /\ sliceScheduled = FALSE
    /\ timers = 0
    /\ stepping = FALSE
    /\ promise = [t \in Task |-> "new"]
    /\ tasksCompleted = 0
    /\ accepted = <<>>
    /\ finished = <<>>

-----------------------------------------------------------------------------
\* armSlice(): at most one timer is asked for, none once aborted.
ArmSlice ==
    \/ /\ sliceScheduled \/ aborted
       /\ UNCHANGED <<sliceScheduled, timers>>
    \/ /\ ~sliceScheduled
       /\ ~aborted
       /\ sliceScheduled' = TRUE
       /\ timers' = timers + 1

\* schedule(task), the three ways it can answer.
Refuse(t, answer) ==
    /\ promise' = [promise EXCEPT ![t] = answer]
    /\ UNCHANGED <<queue, aborted, sliceScheduled, timers, stepping,
                   tasksCompleted, accepted, finished>>

Enqueue(t) ==
    /\ queue' = Append(queue, t)
    /\ promise' = [promise EXCEPT ![t] = "pending"]
    /\ accepted' = Append(accepted, t)
    /\ ArmSlice
    /\ UNCHANGED <<aborted, stepping, tasksCompleted, finished>>

\* Bug variant: the capacity test is off by one.
ScheduleOneTooMany(t) ==
    /\ promise[t] = "new"
    /\ \/ aborted /\ Refuse(t, "aborted")
       \/ ~aborted /\ Len(queue) > MaxQueue /\ Refuse(t, "full")
       \/ ~aborted /\ Len(queue) <= MaxQueue /\ Enqueue(t)

Schedule(t) ==
    /\ promise[t] = "new"
    /\ \/ aborted /\ Refuse(t, "aborted")
       \/ ~aborted /\ Len(queue) >= MaxQueue /\ Refuse(t, "full")
       \/ ~aborted /\ Len(queue) < MaxQueue /\ Enqueue(t)

\* Bug variant: the other promises are forgotten.
AbortForgetsOthers ==
    /\ ~aborted
    /\ aborted' = TRUE
    /\ queue' = <<>>
    /\ promise' = [t \in ToSet(queue) |-> "aborted"]
    /\ UNCHANGED <<sliceScheduled, timers, stepping, tasksCompleted,
                   accepted, finished>>

\* abort(): final; every task still queued is rejected, the running one too.
Abort ==
    /\ ~aborted
    /\ aborted' = TRUE
    /\ queue' = <<>>
    /\ promise' = [t \in Task |->
                     IF t \in ToSet(queue) THEN "aborted" ELSE promise[t]]
    /\ UNCHANGED <<sliceScheduled, timers, stepping, tasksCompleted,
                   accepted, finished>>

-----------------------------------------------------------------------------
\* Bug variant: the flag is not cleared when the timer fires.
RunSliceKeepsFlag ==
    /\ timers > 0
    /\ ~stepping
    /\ timers' = timers - 1
    /\ stepping' = (~aborted /\ queue # <<>>)
    /\ UNCHANGED <<queue, aborted, sliceScheduled, promise, tasksCompleted,
                   accepted, finished>>

\* The timer fires: runSlice up to the call of the head's step.
RunSlice ==
    /\ timers > 0
    /\ ~stepping
    /\ timers' = timers - 1
    /\ sliceScheduled' = FALSE
    /\ stepping' = (~aborted /\ queue # <<>>)
    /\ UNCHANGED <<queue, aborted, promise, tasksCompleted, accepted, finished>>

\* Bug variant: a slice that runs out of budget does not arm the next one.
ContinueWithoutRearm(rest) ==
    \/ /\ rest # <<>>
       /\ UNCHANGED <<stepping, sliceScheduled, timers>>
    \/ /\ stepping' = FALSE
       /\ UNCHANGED <<sliceScheduled, timers>>

\* The end of one turn of runSlice's loop, `rest` being the queue it leaves:
\* another step while work and budget remain, else the next slice is armed.
\* The clock decides whether the budget is spent.
Continue(rest) ==
    \/ /\ rest # <<>>
       /\ UNCHANGED <<stepping, sliceScheduled, timers>>
    \/ /\ stepping' = FALSE
       /\ IF rest # <<>> THEN ArmSlice
                         ELSE UNCHANGED <<sliceScheduled, timers>>

\* Bug variant: round-robin, a task that yields goes to the back.
StepYieldsRotates ==
    /\ stepping
    /\ ~aborted
    /\ Continue(queue)
    /\ queue' = Append(Tail(queue), Head(queue))
    /\ UNCHANGED <<aborted, promise, tasksCompleted, accepted, finished>>

\* The step returned done: FALSE: the head stays and is called again.
StepYields ==
    /\ stepping
    /\ ~aborted
    /\ Continue(queue)
    /\ UNCHANGED <<queue, aborted, promise, tasksCompleted, accepted, finished>>

\* The head leaves the queue with its promise settled.
Settle(outcome) ==
    /\ queue' = Tail(queue)
    /\ promise' = [promise EXCEPT ![Head(queue)] = outcome]
    /\ finished' = Append(finished, Head(queue))
    /\ Continue(Tail(queue))
    /\ UNCHANGED <<aborted, accepted>>

\* The step returned done: TRUE.
StepCompletes ==
    /\ stepping
    /\ ~aborted
    /\ Settle("resolved")
    /\ tasksCompleted' = tasksCompleted + 1

\* The step threw: its own task fails, the slice goes on.
StepThrows ==
    /\ stepping
    /\ ~aborted
    /\ Settle("failed")
    /\ UNCHANGED tasksCompleted

\* The step called abort() and then returned or threw: the queue is already
\* drained, a second rejection of the head's promise does nothing, and the
\* loop breaks.
StepAborted ==
    /\ stepping
    /\ aborted
    /\ stepping' = FALSE
    /\ UNCHANGED <<queue, aborted, sliceScheduled, timers, promise,
                   tasksCompleted, accepted, finished>>

Next ==
    \/ \E t \in Task : Schedule(t)
    \/ Abort
    \/ RunSlice
    \/ StepYields
    \/ StepCompletes
    \/ StepThrows
    \/ StepAborted

Spec == Init /\ [][Next]_vars

\* The event loop calls every timer callback it was given; a step returns;
\* and a task is finite, so a step called again and again ends its task.
Fairness ==
    /\ WF_vars(RunSlice)
    /\ WF_vars(StepYields \/ StepCompletes \/ StepThrows \/ StepAborted)
    /\ SF_vars(StepCompletes \/ StepThrows)

FairSpec == Spec /\ Fairness

-----------------------------------------------------------------------------
(* Safety *)

\* A burst of schedule() calls, from the host or from a running step, leaves
\* one timer at most, and the flag tells the truth about it (scheduler.ts,
\* armSlice).
OneTimer == timers = IF sliceScheduled THEN 1 ELSE 0

\* No lost wake-up: between slices, queued work always has a timer coming,
\* whatever a step scheduled, however the last slice ended.
NoLostWakeup == queue # <<>> /\ ~stepping => sliceScheduled

\* A promise is pending exactly while its task is in the queue: no task is
\* dropped with its promise open, none is kept after it was settled.
PendingIffQueued ==
    \A t \in Task : promise[t] = "pending" <=> t \in ToSet(queue)

\* Tasks end in the order in which they were accepted, none skipped and none
\* twice, throwing ones included; an abort only cuts the order short.
FifoOrder ==
    IF aborted THEN IsPrefix(finished, accepted)
               ELSE accepted = finished \o queue

\* The queue at any moment: no task waits without a wake-up to come, and none
\* overtakes another.
QueueSound == NoLostWakeup /\ FifoOrder

\* A promise settles once, and after abort() nothing resolves any more: an
\* aborted scheduler answers only "aborted".
SettleOnce ==
    [][\A t \in Task :
         /\ promise[t] \in Settled => promise'[t] = promise[t]
         /\ aborted /\ promise'[t] # promise[t] => promise'[t] = "aborted"]_vars

(* Refinement *)

TQ == INSTANCE TaskQueue
        WITH waiting <- queue, closed <- aborted, answer <- promise

\* The scheduler implements the queue its interface documents: slices, timers
\* and steps are stutters or one abstract step each.
ImplementsTaskQueue == TQ!Spec

(* Liveness *)

\* Every task a caller scheduled is settled in the end.
EverySettles == \A t \in Task : promise[t] = "pending" ~> promise[t] \in Settled
=============================================================================
