---------------------------- MODULE MCWorkerPool ----------------------------
(***************************************************************************)
(* An instance of WorkerPool.  The calls are alike, so they are made in    *)
(* one order; that keeps the states as few as a symmetry would, and unlike *)
(* a symmetry it may be used under fairness.                               *)
(***************************************************************************)
EXTENDS WorkerPool, TLC

CONSTANTS
    c1, c2, c3, window, proposals, broken,
    CallOrder,   \* the order in which the calls are made
    Plans        \* what they ask for, in that order

MCCallOrder == <<c1, c2, c3>>

\* Calls that share a job, or find its result, next to one whose job throws; and calls
\* without a key, which share nothing.
MCPlans ==
    {<<window, window, broken>>, <<broken, window, broken>>,
     <<proposals, proposals, window>>, <<window, broken, proposals>>}

\* History: a caller's microtask terminated the pool between the settlement of
\* the last handshake of a boot and the continuation of that boot.
VARIABLE interposed

PoolInit == Init /\ interposed = FALSE

InOrder ==
    \A i, j \in DOMAIN CallOrder :
      i < j /\ pool'.calls[CallOrder[i]] = NoCall => pool'.calls[CallOrder[j]] = NoCall

AsPlanned ==
    \E plan \in Plans : \A i \in DOMAIN CallOrder :
      pool'.calls[CallOrder[i]] # NoCall => pool'.calls[CallOrder[i]].input = plan[i]

PoolNext ==
    /\ Next
    /\ InOrder
    /\ AsPlanned
    /\ interposed' = (interposed \/ /\ pool'.generation # pool.generation
                                    /\ \E g \in Generation : Fulfilled(pool, g))

\* The fairness of FairSpec.
PoolSpec ==
    /\ PoolInit /\ [][PoolNext]_<<pool, interposed>>
    /\ \A g \in Generation : WF_pool(BootContinues(g))
    /\ \A worker \in Worker : WF_pool(WorkerResponds(worker))

\* Whatever the workers do, there comes a time when nobody waits, boots that fail in
\* part and terminations while booting included: unless a worker hangs, or a pool is
\* terminated and used again right after the last handshake of a boot, whose
\* continuation then stops the workers of the next one.
EveryCallAnswered ==
    []<>(interposed \/ \A c \in Call : pool.calls[c].status # "pending")
=============================================================================
