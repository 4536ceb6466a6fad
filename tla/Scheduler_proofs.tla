-------------------------- MODULE Scheduler_proofs --------------------------
(***************************************************************************)
(* Proofs about Scheduler for every set of tasks and every capacity.       *)
(***************************************************************************)
EXTENDS Scheduler, SequenceTheorems, FiniteSetTheorems, TLAPS

(***************************************************************************)
(* Facts about sequences.                                                  *)
(***************************************************************************)

\* Appending adds one element at the end and keeps a sequence without
\* repetition so when the element is new.
LEMMA AppendElements ==
    ASSUME NEW S, NEW s \in Seq(S), NEW e \in S
    PROVE  /\ Append(s, e) \in Seq(S)
           /\ Append(s, e) # <<>>
           /\ Len(Append(s, e)) = Len(s) + 1
           /\ ToSet(Append(s, e)) = ToSet(s) \cup {e}
           /\ IsInjective(s) /\ e \notin ToSet(s) => IsInjective(Append(s, e))
  <1>1. /\ Append(s, e) \in Seq(S)
        /\ Append(s, e) # <<>>
        /\ Len(Append(s, e)) = Len(s) + 1
        /\ \A i \in 1 .. Len(s) : Append(s, e)[i] = s[i]
        /\ Append(s, e)[Len(s) + 1] = e
        /\ DOMAIN s = 1 .. Len(s)
        /\ DOMAIN Append(s, e) = 1 .. Len(s) + 1
        /\ Len(s) \in Nat
    OBVIOUS
  <1>2. ToSet(Append(s, e)) = ToSet(s) \cup {e}
    <2>1. \A x \in ToSet(Append(s, e)) : x \in ToSet(s) \cup {e}
      BY <1>1 DEF ToSet
    <2>2. \A x \in ToSet(s) : x \in ToSet(Append(s, e))
      BY <1>1 DEF ToSet
    <2>3. e \in ToSet(Append(s, e))
      BY <1>1 DEF ToSet
    <2> QED  BY <2>1, <2>2, <2>3
  <1>3. IsInjective(s) /\ e \notin ToSet(s) => IsInjective(Append(s, e))
    BY <1>1 DEF ToSet, IsInjective
  <1> QED  BY <1>1, <1>2, <1>3

\* Without repetition, removing the head removes exactly that element.
LEMMA TailElements ==
    ASSUME NEW S, NEW s \in Seq(S), s # <<>>
    PROVE  /\ Head(s) \in ToSet(s)
           /\ Head(s) \in S
           /\ Tail(s) \in Seq(S)
           /\ Len(Tail(s)) = Len(s) - 1
           /\ Len(s) \in Nat \ {0}
           /\ IsInjective(s) => /\ IsInjective(Tail(s))
                                /\ ToSet(Tail(s)) = ToSet(s) \ {Head(s)}
  <1>1. /\ Tail(s) \in Seq(S)
        /\ Len(s) \in Nat \ {0}
        /\ Len(Tail(s)) = Len(s) - 1
        /\ Head(s) = s[1]
        /\ s[1] \in S
        /\ \A i \in 1 .. Len(s) - 1 : Tail(s)[i] = s[i + 1]
        /\ DOMAIN s = 1 .. Len(s)
        /\ DOMAIN Tail(s) = 1 .. Len(s) - 1
    OBVIOUS
  <1>2. Head(s) \in ToSet(s)
    BY <1>1 DEF ToSet
  <1>3. ASSUME IsInjective(s)
        PROVE  ToSet(Tail(s)) = ToSet(s) \ {Head(s)}
    <2>1. \A x \in ToSet(Tail(s)) : x \in ToSet(s) /\ x # Head(s)
      BY <1>1, <1>3 DEF ToSet, IsInjective
    <2>2. ASSUME NEW x \in ToSet(s), x # Head(s)
          PROVE  x \in ToSet(Tail(s))
      <3>1. PICK i \in 1 .. Len(s) : s[i] = x
        BY <1>1 DEF ToSet
      <3>2. i - 1 \in 1 .. Len(s) - 1 /\ Tail(s)[i - 1] = x
        BY <1>1, <2>2, <3>1
      <3> QED  BY <1>1, <3>2 DEF ToSet
    <2> QED  BY <2>1, <2>2
  <1>4. IsInjective(s) => IsInjective(Tail(s))
    BY <1>1 DEF IsInjective
  <1> QED  BY <1>1, <1>2, <1>3, <1>4

\* Moving the head of the second part to the end of the first changes nothing
\* of the whole, and neither does an append to the second part.
LEMMA ConcatMoves ==
    ASSUME NEW S, NEW f \in Seq(S), NEW q \in Seq(S), NEW e \in S
    PROVE  /\ Append(f \o q, e) = f \o Append(q, e)
           /\ q # <<>> => Append(f, Head(q)) \o Tail(q) = f \o q
           /\ IsPrefix(f, f \o q)
  <1>1. Append(f \o q, e) = f \o Append(q, e)
    OBVIOUS
  <1>2. q # <<>> => Append(f, Head(q)) \o Tail(q) = f \o q
    OBVIOUS
  <1>3. IsPrefix(f, f \o q)
    BY DEF IsPrefix
  <1> QED  BY <1>1, <1>2, <1>3

-----------------------------------------------------------------------------
(***************************************************************************)
(* The inductive invariant: the safety invariants of Scheduler, which only *)
(* need in addition that no task is queued twice, that a slice never runs  *)
(* on an empty queue, and that the queue stays within its capacity.        *)
(***************************************************************************)
QueueInjective == IsInjective(queue)

StackMatchesQueue ==
    /\ stepping /\ ~aborted => queue # <<>>
    /\ aborted => queue = <<>>

QueueBounded == Len(queue) <= MaxQueue

IndInv ==
    /\ TypeOK
    /\ OneTimer
    /\ NoLostWakeup
    /\ QueueInjective
    /\ PendingIffQueued
    /\ FifoOrder
    /\ StackMatchesQueue
    /\ QueueBounded

LEMMA InitEstablishes == Init => IndInv
  <1> SUFFICES ASSUME Init PROVE IndInv
    OBVIOUS
  <1>1. ToSet(queue) = {} /\ queue = <<>> /\ finished \o queue = <<>>
    BY DEF Init, ToSet
  <1>2. TypeOK
    <2>1. promise \in [Task -> PromiseState]
      BY DEF Init, PromiseState
    <2>2. aborted \in BOOLEAN /\ sliceScheduled \in BOOLEAN /\ stepping \in BOOLEAN
      BY Zenon DEF Init
    <2>3. /\ queue \in Seq(Task) /\ accepted \in Seq(Task) /\ finished \in Seq(Task)
          /\ timers \in Nat /\ tasksCompleted \in Nat
      BY SMT DEF Init
    <2> QED  BY <2>1, <2>2, <2>3 DEF TypeOK
  <1>3. PendingIffQueued
    BY <1>1 DEF Init, PendingIffQueued
  <1>4. OneTimer /\ NoLostWakeup /\ QueueInjective /\ StackMatchesQueue
    BY DEF Init, OneTimer, NoLostWakeup, QueueInjective, IsInjective,
           StackMatchesQueue
  <1>5. FifoOrder /\ QueueBounded
    BY <1>1, MaxQueueAssumption DEF Init, FifoOrder, QueueBounded
  <1> QED  BY <1>2, <1>3, <1>4, <1>5 DEF IndInv

\* The end of a slice leaves the flag and the timer in step, and a timer
\* behind the work that is left.
LEMMA ContinueSafe ==
    ASSUME NEW rest \in Seq(Task), stepping = TRUE, ~aborted, OneTimer,
           sliceScheduled \in BOOLEAN, timers \in Nat, Continue(rest)
    PROVE  /\ OneTimer'
           /\ sliceScheduled' \in BOOLEAN
           /\ timers' \in Nat
           /\ stepping' \in BOOLEAN
           /\ rest # <<>> /\ ~stepping' => sliceScheduled'
           /\ stepping' => rest # <<>>
  <1>1. \/ UNCHANGED <<sliceScheduled, timers>>
        \/ ~sliceScheduled /\ sliceScheduled' = TRUE /\ timers' = timers + 1
    BY Zenon DEF Continue, ArmSlice
  <1>2. OneTimer' /\ timers' \in Nat
    BY <1>1 DEF OneTimer
  <1>3. sliceScheduled' \in BOOLEAN
    BY <1>1, Zenon
  <1>4. /\ stepping' \in BOOLEAN
        /\ stepping' => rest # <<>>
        /\ rest # <<>> /\ ~stepping' => sliceScheduled'
    BY Zenon DEF Continue, ArmSlice
  <1> QED  BY <1>2, <1>3, <1>4

\* The head's promise is settled and the rest of the queue stands.
LEMMA SettleSafe ==
    ASSUME IndInv, stepping, ~aborted, tasksCompleted' \in Nat,
           NEW outcome \in {"resolved", "failed"}, Settle(outcome)
    PROVE  IndInv'
  <1> USE DEF IndInv
  <1>1. queue \in Seq(Task) /\ queue # <<>> /\ IsInjective(queue)
    BY DEF TypeOK, StackMatchesQueue, QueueInjective
  <1>2. /\ Head(queue) \in Task
        /\ Tail(queue) \in Seq(Task)
        /\ Len(Tail(queue)) = Len(queue) - 1
        /\ Len(queue) \in Nat
        /\ IsInjective(Tail(queue))
        /\ ToSet(Tail(queue)) = ToSet(queue) \ {Head(queue)}
    BY <1>1, TailElements
  <1>3. /\ OneTimer'
        /\ sliceScheduled' \in BOOLEAN
        /\ timers' \in Nat
        /\ stepping' \in BOOLEAN
        /\ Tail(queue) # <<>> /\ ~stepping' => sliceScheduled'
        /\ stepping' => Tail(queue) # <<>>
    BY <1>2, ContinueSafe DEF Settle, TypeOK
  <1>4. TypeOK'
    <2>1. promise' \in [Task -> PromiseState]
      BY <1>2 DEF Settle, TypeOK, PromiseState, Settled, Rejected
    <2>2. queue' \in Seq(Task) /\ accepted' \in Seq(Task) /\ finished' \in Seq(Task)
      <3>1. queue' = Tail(queue) /\ accepted' = accepted
            /\ finished' = Append(finished, Head(queue))
        BY DEF Settle
      <3>2. accepted \in Seq(Task) /\ finished \in Seq(Task)
        BY DEF TypeOK
      <3> QED  BY <1>2, <3>1, <3>2, AppendElements
    <2>3. aborted' \in BOOLEAN
      BY DEF Settle, TypeOK
    <2> QED  BY <1>3, <2>1, <2>2, <2>3 DEF TypeOK
  <1>5. PendingIffQueued'
    BY <1>2 DEF Settle, PendingIffQueued, TypeOK
  <1>6. FifoOrder'
    BY <1>1, <1>2, ConcatMoves DEF Settle, FifoOrder, TypeOK
  <1>7. NoLostWakeup' /\ StackMatchesQueue' /\ QueueInjective' /\ QueueBounded'
    BY <1>2, <1>3, MaxQueueAssumption
       DEF Settle, NoLostWakeup, StackMatchesQueue, QueueInjective, QueueBounded
  <1> QED  BY <1>3, <1>4, <1>5, <1>6, <1>7

LEMMA StepPreserves == IndInv /\ [Next]_vars => IndInv'
  <1> SUFFICES ASSUME IndInv, [Next]_vars PROVE IndInv'
    OBVIOUS
  <1> USE DEF IndInv
  <1>1. ASSUME NEW t \in Task, Schedule(t) PROVE IndInv'
    <2>1. t \notin ToSet(queue)
      BY <1>1 DEF Schedule, PendingIffQueued
    <2>2. ASSUME NEW answer \in {"aborted", "full"}, Refuse(t, answer)
          PROVE  IndInv'
      <3>1. TypeOK'
        BY <2>2 DEF Refuse, TypeOK, PromiseState, Settled, Rejected
      <3>2. PendingIffQueued'
        BY <2>1, <2>2 DEF Refuse, PendingIffQueued, TypeOK
      <3> QED
        BY <2>2, <3>1, <3>2
           DEF Refuse, OneTimer, NoLostWakeup, QueueInjective, FifoOrder,
               StackMatchesQueue, QueueBounded
    <2>3. ASSUME ~aborted, Len(queue) < MaxQueue, Enqueue(t)
          PROVE  IndInv'
      <3>1. /\ queue' \in Seq(Task)
            /\ queue' # <<>>
            /\ Len(queue') = Len(queue) + 1
            /\ ToSet(queue') = ToSet(queue) \cup {t}
            /\ IsInjective(queue')
        <4>1. queue \in Seq(Task) /\ IsInjective(queue)
          BY DEF TypeOK, QueueInjective
        <4>2. queue' = Append(queue, t)
          BY <2>3 DEF Enqueue
        <4> QED  BY <2>1, <4>1, <4>2, AppendElements
      <3>2. OneTimer' /\ sliceScheduled' /\ timers' \in Nat
        BY <2>3 DEF Enqueue, ArmSlice, OneTimer, TypeOK
      <3>3. TypeOK'
        BY <2>3, <3>1, <3>2 DEF Enqueue, ArmSlice, TypeOK, PromiseState
      <3>4. PendingIffQueued'
        BY <2>3, <3>1 DEF Enqueue, PendingIffQueued, TypeOK
      <3>5. FifoOrder'
        BY <2>3, ConcatMoves DEF Enqueue, FifoOrder, TypeOK
      <3>6. NoLostWakeup' /\ StackMatchesQueue' /\ QueueInjective'
        BY <2>3, <3>1, <3>2
           DEF Enqueue, NoLostWakeup, StackMatchesQueue, QueueInjective
      <3>7. QueueBounded'
        BY <2>3, <3>1, MaxQueueAssumption DEF QueueBounded, TypeOK
      <3> QED  BY <3>2, <3>3, <3>4, <3>5, <3>6, <3>7
    <2> QED  BY <1>1, <2>2, <2>3 DEF Schedule
  <1>2. ASSUME Abort PROVE IndInv'
    <2>1. ToSet(queue') = {} /\ queue' = <<>> /\ Len(queue') = 0
      BY <1>2 DEF Abort, ToSet
    <2>2. TypeOK'
      BY <1>2 DEF Abort, TypeOK, PromiseState, Settled, Rejected
    <2>3. PendingIffQueued'
      BY <1>2, <2>1 DEF Abort, PendingIffQueued, TypeOK
    <2>4. FifoOrder'
      <3>1. IsPrefix(finished, finished \o queue)
        BY ConcatMoves DEF TypeOK, IsPrefix
      <3> QED  BY <1>2, <3>1 DEF Abort, FifoOrder
    <2>5. QueueInjective' /\ QueueBounded'
      BY <2>1, MaxQueueAssumption DEF QueueInjective, IsInjective, QueueBounded
    <2>6. OneTimer' /\ NoLostWakeup' /\ StackMatchesQueue'
      BY <1>2 DEF Abort, OneTimer, NoLostWakeup, StackMatchesQueue
    <2> QED  BY <2>2, <2>3, <2>4, <2>5, <2>6
  <1>3. ASSUME RunSlice PROVE IndInv'
    <2>1. stepping' \in BOOLEAN /\ (stepping' <=> ~aborted /\ queue # <<>>)
      BY <1>3, Zenon DEF RunSlice
    <2>2. OneTimer' /\ timers' \in Nat
      BY <1>3 DEF RunSlice, OneTimer, TypeOK
    <2>3. TypeOK'
      BY <1>3, <2>1, <2>2 DEF RunSlice, TypeOK
    <2>4. NoLostWakeup' /\ StackMatchesQueue'
      BY <1>3, <2>1 DEF RunSlice, NoLostWakeup, StackMatchesQueue
    <2> QED
      BY <1>3, <2>2, <2>3, <2>4
         DEF RunSlice, QueueInjective, PendingIffQueued, FifoOrder, QueueBounded
  <1>4. ASSUME StepYields PROVE IndInv'
    <2>1. /\ OneTimer'
          /\ sliceScheduled' \in BOOLEAN
          /\ timers' \in Nat
          /\ stepping' \in BOOLEAN
          /\ queue # <<>> /\ ~stepping' => sliceScheduled'
      BY <1>4, ContinueSafe DEF StepYields, TypeOK
    <2> QED
      BY <1>4, <2>1
         DEF StepYields, TypeOK, NoLostWakeup, QueueInjective,
             PendingIffQueued, FifoOrder, StackMatchesQueue, QueueBounded
  <1>5. ASSUME StepCompletes PROVE IndInv'
    BY <1>5, SettleSafe DEF StepCompletes, TypeOK
  <1>6. ASSUME StepThrows PROVE IndInv'
    BY <1>6, SettleSafe DEF StepThrows, TypeOK
  <1>7. ASSUME StepAborted PROVE IndInv'
    BY <1>7 DEF StepAborted, TypeOK, OneTimer, NoLostWakeup, QueueInjective,
                PendingIffQueued, FifoOrder, StackMatchesQueue, QueueBounded
  <1>8. ASSUME UNCHANGED vars PROVE IndInv'
    BY <1>8 DEF vars, TypeOK, OneTimer, NoLostWakeup, QueueInjective,
                PendingIffQueued, FifoOrder, StackMatchesQueue, QueueBounded
  <1> QED
    BY <1>1, <1>2, <1>3, <1>4, <1>5, <1>6, <1>7, <1>8 DEF Next

\* Scheduler's inductive invariant holds in every reachable state.
THEOREM Inductive == Spec => []IndInv
  BY InitEstablishes, StepPreserves, PTL DEF Spec

\* The variables of Scheduler keep their types.
THEOREM TypeCorrect == Spec => []TypeOK
  <1>1. IndInv => TypeOK
    BY DEF IndInv
  <1> QED  BY <1>1, Inductive, PTL

\* Work in the queue always has a slice running or a timer armed, by exactly
\* one timer, however schedule, abort, steps and slices interleave.
THEOREM WakeupSafe == Spec => [](OneTimer /\ NoLostWakeup)
  <1>1. IndInv => OneTimer /\ NoLostWakeup
    BY DEF IndInv
  <1> QED  BY <1>1, Inductive, PTL

\* A promise is open exactly while its task is queued.
THEOREM NoPromiseLeak == Spec => []PendingIffQueued
  <1>1. IndInv => PendingIffQueued
    BY DEF IndInv
  <1> QED  BY <1>1, Inductive, PTL

\* Tasks end in the order of their schedule calls.
THEOREM FifoCorrect == Spec => []FifoOrder
  <1>1. IndInv => FifoOrder
    BY DEF IndInv
  <1> QED  BY <1>1, Inductive, PTL

\* The queue is sound at every moment: the two together.
THEOREM QueueAlwaysSound == Spec => []QueueSound
  BY WakeupSafe, FifoCorrect, PTL DEF QueueSound

-----------------------------------------------------------------------------
\* The head of a non-empty queue has an open promise.
LEMMA HeadPending ==
    ASSUME IndInv, queue # <<>>
    PROVE  Head(queue) \in Task /\ promise[Head(queue)] = "pending"
  <1>1. Head(queue) \in ToSet(queue) /\ Head(queue) \in Task
    BY TailElements DEF IndInv, TypeOK
  <1> QED  BY <1>1 DEF IndInv, PendingIffQueued

\* What SettleOnce says of one step.
SettleStep ==
    \A t \in Task :
      /\ promise[t] \in Settled => promise'[t] = promise[t]
      /\ aborted /\ promise'[t] # promise[t] => promise'[t] = "aborted"

LEMMA StepSettlesOnce == IndInv /\ [Next]_vars => SettleStep
  <1> SUFFICES ASSUME IndInv, [Next]_vars PROVE SettleStep
    OBVIOUS
  <1>1. promise \in [Task -> PromiseState] /\ "new" \notin Settled /\ "pending" \notin Settled
    BY DEF IndInv, TypeOK, Settled, Rejected
  <1>2. ASSUME NEW t \in Task, Schedule(t) PROVE SettleStep
    BY <1>1, <1>2 DEF Schedule, Refuse, Enqueue, SettleStep
  <1>3. ASSUME Abort PROVE SettleStep
    BY <1>1, <1>3 DEF Abort, SettleStep, IndInv, PendingIffQueued
  <1>4. ASSUME StepCompletes PROVE SettleStep
    BY <1>1, <1>4, HeadPending
       DEF StepCompletes, Settle, SettleStep, IndInv, StackMatchesQueue
  <1>5. ASSUME StepThrows PROVE SettleStep
    BY <1>1, <1>5, HeadPending
       DEF StepThrows, Settle, SettleStep, IndInv, StackMatchesQueue
  <1>6. ASSUME UNCHANGED promise PROVE SettleStep
    BY <1>6 DEF SettleStep
  <1> QED
    BY <1>2, <1>3, <1>4, <1>5, <1>6
       DEF Next, RunSlice, StepYields, StepAborted, vars

\* A promise settles once, and only as aborted after an abort.
THEOREM SettlesOnce == Spec => SettleOnce
  <1>1. SettleStep => [SettleStep]_vars
    OBVIOUS
  <1>2. IndInv /\ [Next]_vars => [SettleStep]_vars
    BY <1>1, StepSettlesOnce
  <1>3. Spec => [][SettleStep]_vars
    BY <1>2, Inductive, PTL DEF Spec
  <1> QED  BY <1>3 DEF SettleOnce, SettleStep

-----------------------------------------------------------------------------
\* Every step of the scheduler is a step of the abstract queue or a stutter.
LEMMA StepSimulates == IndInv /\ [Next]_vars => [TQ!Next]_(TQ!tqVars)
  <1> SUFFICES ASSUME IndInv, [Next]_vars PROVE [TQ!Next]_(TQ!tqVars)
    OBVIOUS
  <1>1. /\ promise \in [Task -> PromiseState]
        /\ queue \in Seq(Task)
        /\ Len(queue) \in Nat /\ Len(queue) <= MaxQueue
    BY DEF IndInv, TypeOK, QueueBounded
  <1>2. ASSUME NEW t \in Task, Schedule(t) PROVE TQ!Accept(t) \/ TQ!Reject(t)
    <2>1. CASE aborted /\ Refuse(t, "aborted")
      BY <1>2, <2>1 DEF Schedule, Refuse, TQ!Reject
    <2>2. CASE ~aborted /\ Len(queue) >= MaxQueue /\ Refuse(t, "full")
      BY <1>1, <1>2, <2>2, MaxQueueAssumption DEF Schedule, Refuse, TQ!Reject
    <2>3. CASE ~aborted /\ Len(queue) < MaxQueue /\ Enqueue(t)
      BY <1>2, <2>3 DEF Schedule, Enqueue, TQ!Accept
    <2> QED  BY <1>2, <2>1, <2>2, <2>3 DEF Schedule
  <1>3. ASSUME Abort PROVE TQ!Close
    BY <1>1, <1>3 DEF Abort, TQ!Close, IndInv, PendingIffQueued
  <1>4. ASSUME StepCompletes PROVE TQ!End("resolved")
    BY <1>4 DEF StepCompletes, Settle, TQ!End, IndInv, StackMatchesQueue
  <1>5. ASSUME StepThrows PROVE TQ!End("failed")
    BY <1>5 DEF StepThrows, Settle, TQ!End, IndInv, StackMatchesQueue
  <1>6. ASSUME RunSlice \/ StepYields \/ StepAborted \/ UNCHANGED vars
        PROVE  UNCHANGED TQ!tqVars
    BY <1>6 DEF RunSlice, StepYields, StepAborted, vars, TQ!tqVars
  <1> QED
    BY <1>2, <1>3, <1>4, <1>5, <1>6 DEF Next, TQ!Next

\* The scheduler implements the abstract task queue.
THEOREM Refinement == Spec => ImplementsTaskQueue
  <1>1. Init => TQ!Init
    BY DEF Init, TQ!Init
  <1> QED
    BY <1>1, StepSimulates, Inductive, PTL DEF Spec, TQ!Spec, ImplementsTaskQueue
=============================================================================
