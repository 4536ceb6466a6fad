----------------------------- MODULE WorkerPool -----------------------------
(***************************************************************************)
(* WorkerPoolManager (packages/journals/src/worker/WorkerPoolManager.ts):  *)
(* a FIFO of jobs for a few workers, identical requests sharing one job, a *)
(* result cache, and the main thread computing whatever the workers cannot.*)
(*                                                                         *)
(* `pool` holds the manager's fields, the promises it has handed out and   *)
(* the workers it has created.  Every method is an operator from pool to   *)
(* pool; an action is one turn of the event loop.  The continuation of a   *)
(* boot is a microtask: it runs before the next message or error event of  *)
(* a worker, but other microtasks may run first.                           *)
(***************************************************************************)
EXTENDS Integers, Sequences, FiniteSets, SequencesExt

CONSTANTS
    Call, Input, Bad, None,
    Keyed,           \* the inputs that come with a cache key, their identity
    PoolSize,
    CacheSize,
    CallersInterpose,  \* whether a caller's microtask can run ahead of a boot's
    MaxGeneration    \* bound on the times the pool is terminated

ASSUME PoolAssumption ==
    /\ Bad \subseteq Input /\ Keyed \subseteq Input
    /\ None \notin Input /\ None \notin Nat
    /\ PoolSize \in Nat /\ CacheSize \in Nat \ {0} /\ MaxGeneration \in Nat
    /\ CallersInterpose \in BOOLEAN

VARIABLE pool

(* A task is [id, input]; a worker is named by the generation that booted  *)
(* it and a number.  activeTaskById is split in two: `active` for the jobs *)
(* and `handshakes` for the workers whose initialize request is open.      *)

Generation == 0 .. MaxGeneration
Worker == Generation \X (1 .. PoolSize)

NoCall == [status |-> "idle", input |-> None, value |-> None, task |-> 0]

Fresh ==
    [calls |-> [c \in Call |-> NoCall],
     queue |-> <<>>,                  \* queuedTasks
     active |-> {}, handshakes |-> {},
     byKey |-> {},                    \* promiseByDedupeKey, as <<key, task id>>
     cache |-> {},                    \* resultCache
     workers |-> <<>>,                \* [worker, request, ready]
     initialized |-> "false", failed |-> FALSE,
     generation |-> 0, nextId |-> 0,
     boots |-> [g \in Generation |-> "none"],  \* the promise of initializeWorkers
     sent |-> {},                     \* requests posted, not answered
     up |-> {}, gone |-> {}]          \* workers running; terminated

-----------------------------------------------------------------------------
(* Results *)

\* LruCacheMap: the entries [key, value, id] are set in the order of their ids, no
\* two of one key, and an entry's age is its place from the newest.
Remembering(cache, fresh) ==
    LET old == {e \in cache : \A f \in fresh : f.key # e.key}
        aged == {[key |-> f.key, value |-> f.value,
                  age |-> Cardinality({g \in fresh : g.id >= f.id})] : f \in fresh}
                  \cup {[key |-> e.key, value |-> e.value,
                         age |-> Cardinality(fresh) + Cardinality({g \in old : g.age <= e.age})]
                           : e \in old}
    IN  {e \in aged : e.age <= CacheSize}

LruSet(cache, key, value) ==
    Remembering(cache, {[key |-> key, value |-> value, id |-> 0]})

\* The promises of some tasks settle: results gives each task its outcome.
Settle(p, results) ==
    LET tasks == DOMAIN results
        told(c) == {t \in tasks : t.id = p.calls[c].task}
        done == {t \in tasks : t.input \in Keyed /\ results[t].status = "done"}
    IN  [p EXCEPT
           !.calls = [c \in Call |->
                        IF @[c].status = "pending" /\ told(c) # {}
                        THEN LET r == results[CHOOSE t \in told(c) : TRUE]
                             IN  [@[c] EXCEPT !.status = r.status, !.value = r.value]
                        ELSE @[c]],
           !.byKey = {k \in @ : \A t \in tasks : t.input # k[1]},
           !.cache = Remembering(@, {[key |-> t.input, value |-> results[t].value,
                                      id |-> t.id] : t \in done})]

\* The main-thread equivalent of a request.
Fallback(i) ==
    IF i \in Bad THEN [status |-> "failed", value |-> None]
                 ELSE [status |-> "done", value |-> i]

ResolveViaFallback(p, tasks) == Settle(p, [t \in tasks |-> Fallback(t.input)])

\* The oldest tasks go to the first free workers, while there are both.
Dispatch(p) ==
    LET free == {i \in DOMAIN p.workers : p.workers[i].ready /\ p.workers[i].request = None}
        turn == [i \in free |-> Cardinality({j \in free : j <= i})]
        taken == {i \in free : turn[i] <= Len(p.queue)}
    IN  [p EXCEPT
           !.queue = SubSeq(@, Cardinality(taken) + 1, Len(@)),
           !.active = @ \cup {p.queue[turn[i]] : i \in taken},
           !.workers = [i \in DOMAIN @ |->
                          IF i \in taken THEN [@[i] EXCEPT !.request = p.queue[turn[i]].id]
                          ELSE @[i]],
           !.sent = @ \cup {[worker |-> p.workers[i].worker, task |-> p.queue[turn[i]]]
                              : i \in taken}]

DrainQueue(p) ==
    IF p.initialized # "true" THEN p
    ELSE IF p.failed THEN ResolveViaFallback([p EXCEPT !.queue = <<>>], ToSet(p.queue))
    ELSE Dispatch(p)

-----------------------------------------------------------------------------
(* Life cycle *)

TerminateWorkers(p) ==
    LET ended == {p.workers[i].worker : i \in DOMAIN p.workers}
    IN  [p EXCEPT !.workers = <<>>, !.up = @ \ ended, !.gone = @ \cup (ended \cap p.up)]

\* initialize() up to its first await.  The factory makes so many workers; if it
\* throws before they are PoolSize, the promise of initializeWorkers rejects.
Boot(p, made) ==
    LET worker(i) == <<p.generation, i>>
        created == {worker(i) : i \in 1 .. made}
    IN  [p EXCEPT
           !.initialized = "booting",
           !.workers = @ \o [i \in 1 .. made |->
                               [worker |-> worker(i), request |-> None, ready |-> FALSE]],
           !.handshakes = @ \cup created,
           !.sent = @ \cup {[worker |-> w, task |-> None] : w \in created},
           !.up = @ \cup created,
           !.boots[p.generation] = IF made < PoolSize THEN "rejected" ELSE "waiting"]

OpenHandshakes(p, g) == {w \in p.handshakes : w[1] = g}

\* Promise.all has resolved, or something rejected; the boot has yet to go on.
Fulfilled(p, g) == p.boots[g] = "waiting" /\ OpenHandshakes(p, g) = {}
BootSettled(p, g) == Fulfilled(p, g) \/ p.boots[g] = "rejected"

\* The rest of initialize(), after the await.
ContinueBoot(p, g) ==
    LET over == [p EXCEPT !.boots[g] = "over"]
        current == p.generation = g
    IN  CASE Fulfilled(p, g) /\ current ->
               DrainQueue([over EXCEPT !.initialized = "true"])
          [] Fulfilled(p, g) /\ ~current ->
               TerminateWorkers(over)
          [] ~Fulfilled(p, g) /\ current ->
               DrainQueue([TerminateWorkers(over) EXCEPT !.initialized = "true",
                                                         !.failed = TRUE])
          [] ~Fulfilled(p, g) /\ ~current -> over

InFlight(p) == p.active \cup ToSet(p.queue)

\* Every task in flight is canceled.  An open handshake that is rejected reaches
\* its boot if the boot got as far as waiting for it.
RejectAll(p) ==
    LET canceled == [t \in InFlight(p) |-> [status |-> "canceled", value |-> None]]
    IN  [Settle(p, canceled) EXCEPT
           !.queue = <<>>, !.active = {}, !.handshakes = {},
           !.boots = [g \in Generation |->
                        IF @[g] = "waiting" /\ OpenHandshakes(p, g) # {}
                        THEN "rejected" ELSE @[g]]]

\* Bug variant: request ids start over.
TerminateResetsIds(p) ==
    [TerminateWorkers(RejectAll(p)) EXCEPT
       !.byKey = {}, !.cache = {}, !.initialized = "false", !.failed = FALSE,
       !.generation = @ + 1, !.nextId = 0]

Terminate(p) ==
    [TerminateWorkers(RejectAll(p)) EXCEPT
       !.byKey = {}, !.cache = {}, !.initialized = "false", !.failed = FALSE,
       !.generation = @ + 1]

-----------------------------------------------------------------------------
(* Requests *)

Cached(p, i) == {e \in p.cache : e.key = i}
Shared(p, i) == {k[2] : k \in {k \in p.byKey : k[1] = i}}

SetCall(p, c, i, status, value, task) ==
    [p EXCEPT !.calls[c] = [status |-> status, input |-> i,
                            value |-> value, task |-> task]]

\* A new task at the end of the queue, and a boot if the pool was terminated.
Enqueue(p, c, i, made) ==
    LET id == p.nextId + 1
        queued == [SetCall(p, c, i, "pending", None, id) EXCEPT
                     !.nextId = id,
                     !.queue = Append(@, [id |-> id, input |-> i]),
                     !.byKey = IF i \in Keyed
                              THEN {k \in @ : k[1] # i} \cup {<<i, id>>} ELSE @]
    IN  DrainQueue(IF p.initialized = "false" THEN Boot(queued, made) ELSE queued)

\* Bug variant: an identical request in flight is not looked for.
SubmitUnshared(p, c, i, made) ==
    IF i \in Keyed /\ Cached(p, i) # {}
      THEN SetCall(p, c, i, "done", i, 0)
    ELSE IF p.failed
      THEN SetCall(p, c, i, Fallback(i).status, Fallback(i).value, 0)
    ELSE Enqueue(p, c, i, made)

\* In the order of the code: the cache, a promise for the same key, the main
\* thread if the workers failed (where what it throws is thrown at the caller),
\* and a task.
Submit(p, c, i, made) ==
    LET hit == (CHOOSE e \in Cached(p, i) : TRUE).value
        touched == [p EXCEPT !.cache = LruSet(@, i, hit)]
        fallback == SetCall(p, c, i, Fallback(i).status, Fallback(i).value, 0)
    IN  IF i \in Keyed /\ Cached(p, i) # {}
          THEN SetCall(touched, c, i, "done", hit, 0)
        ELSE IF i \in Keyed /\ Shared(p, i) # {}
          THEN SetCall(p, c, i, "pending", None, CHOOSE id \in Shared(p, i) : TRUE)
        ELSE IF p.failed
          THEN IF i \in Keyed \ Bad
               THEN [fallback EXCEPT !.cache = LruSet(@, i, i)]
               ELSE fallback
        ELSE Enqueue(p, c, i, made)

-----------------------------------------------------------------------------
(* Messages and errors of the workers *)

SetWorker(p, w, change(_)) ==
    [p EXCEPT !.workers =
       [i \in DOMAIN @ |-> IF @[i].worker = w THEN change(@[i]) ELSE @[i]]]

\* The jobs a response can be for: it is matched with its task by id.
Answered(p, m) == {t \in p.active : t.id = m.task.id}

Freed(p, m) ==
    LET free(w) == IF w.request = m.task.id THEN [w EXCEPT !.request = None] ELSE w
    IN  SetWorker([p EXCEPT !.active = @ \ Answered(p, m)], m.worker, free)

\* What the response says of them; an error has the main thread compute it.
Settled(p, tasks, m, ok) ==
    IF ok THEN Settle(p, [t \in tasks |-> [status |-> "done", value |-> m.task.input]])
          ELSE ResolveViaFallback(p, tasks)

HandleHandshake(p, m) ==
    LET ready(w) == [w EXCEPT !.ready = TRUE]
    IN  IF m.worker \in p.handshakes
        THEN DrainQueue(SetWorker([p EXCEPT !.handshakes = @ \ {m.worker}],
                                  m.worker, ready))
        ELSE p

\* Bug variants: the worker is not freed; the queue is not looked at again.
HandleResponseKeepsBusy(p, m, ok) ==
    IF Answered(p, m) = {} THEN p
    ELSE DrainQueue(Settled([p EXCEPT !.active = @ \ Answered(p, m)],
                            Answered(p, m), m, ok))

HandleResponseWithoutDrain(p, m, ok) ==
    IF Answered(p, m) = {} THEN p ELSE Settled(Freed(p, m), Answered(p, m), m, ok)

\* A response to a task the pool has given up on is ignored.
HandleResponse(p, m, ok) ==
    IF Answered(p, m) = {} THEN p ELSE DrainQueue(Settled(Freed(p, m), Answered(p, m), m, ok))

HandleWorkerMessage(p, m, ok) ==
    IF m.task = None THEN HandleHandshake(p, m) ELSE HandleResponse(p, m, ok)

AllIdle(p) ==
    [p EXCEPT !.workers = [i \in DOMAIN @ |->
                             [@[i] EXCEPT !.ready = TRUE, !.request = None]]]

\* Bug variants: the jobs of the workers are dropped; so are the handshakes.
HandleFailureDropsJobs(p) ==
    IF p.failed THEN p
    ELSE DrainQueue([AllIdle(p) EXCEPT !.failed = TRUE, !.active = {}, !.handshakes = {}])

HandleFailureKeepsHandshakes(p) ==
    IF p.failed THEN p
    ELSE DrainQueue(ResolveViaFallback(
           [AllIdle(p) EXCEPT !.failed = TRUE, !.active = {}], p.active))

HandleWorkerFailure(p) ==
    IF p.failed THEN p
    ELSE DrainQueue(ResolveViaFallback(
           [AllIdle(p) EXCEPT !.failed = TRUE, !.active = {}, !.handshakes = {}],
           p.active))

-----------------------------------------------------------------------------
(* The turns of the event loop *)

\* The constructor boots.
Init == \E made \in 0 .. PoolSize : pool = Boot(Fresh, made)

\* Callers that run as tasks of their own never see a boot that is fulfilled and
\* has not gone on; their microtasks may.
CallerTurn == CallersInterpose \/ \A g \in Generation : ~Fulfilled(pool, g)

SubmitCall(c, i) ==
    /\ CallerTurn
    /\ pool.calls[c] = NoCall
    /\ IF pool.initialized = "false"
       THEN \E made \in 0 .. PoolSize : pool' = Submit(pool, c, i, made)
       ELSE pool' = Submit(pool, c, i, 0)

\* initialize() does nothing if it has been called already.
Initialize ==
    /\ CallerTurn
    /\ pool.initialized = "false"
    /\ \E made \in 0 .. PoolSize : pool' = Boot(pool, made)

TerminatePool ==
    /\ CallerTurn
    /\ pool.generation < MaxGeneration
    /\ pool' = Terminate(pool)

BootContinues(g) ==
    /\ BootSettled(pool, g)
    /\ pool' = ContinueBoot(pool, g)

WorkerTurn == \A g \in Generation : ~BootSettled(pool, g)

\* A worker answers; what it sent before it was terminated may still arrive.  A
\* job may fail in the worker although it does not on the main thread.
WorkerAnswers(m, ok) ==
    /\ WorkerTurn
    /\ m \in pool.sent
    /\ IF m.task = None THEN ok ELSE ok => m.task.input \notin Bad
    /\ pool' = [HandleWorkerMessage(pool, m, ok) EXCEPT !.sent = @ \ {m}]

\* An error event, once per worker; the worker need not answer any more.
WorkerFails(w) ==
    /\ WorkerTurn
    /\ w \in pool.up \cup pool.gone
    /\ pool' = [HandleWorkerFailure(pool) EXCEPT !.up = @ \ {w}, !.gone = @ \ {w}]

Next ==
    \/ \E c \in Call, i \in Input : SubmitCall(c, i)
    \/ Initialize
    \/ TerminatePool
    \/ \E g \in Generation : BootContinues(g)
    \/ \E m \in pool.sent, ok \in BOOLEAN : WorkerAnswers(m, ok)
    \/ \E w \in Worker : WorkerFails(w)

Spec == Init /\ [][Next]_pool

\* A worker that is running and has a request answers it or fails.
WorkerResponds(w) ==
    /\ w \in pool.up
    /\ \E m \in pool.sent :
         /\ m.worker = w
         /\ \/ \E ok \in BOOLEAN : WorkerAnswers(m, ok)
            \/ WorkerFails(w)

FairSpec ==
    /\ Spec
    /\ \A g \in Generation : WF_pool(BootContinues(g))
    /\ \A w \in Worker : WF_pool(WorkerResponds(w))

-----------------------------------------------------------------------------
(* Safety *)

Busy == {i \in DOMAIN pool.workers : pool.workers[i].request # None}

\* Each job in progress is the request of exactly one worker of the pool, and
\* every busy worker has one: a worker is neither leaked nor given two jobs.
WorkersMatchJobs ==
    /\ {pool.workers[i].request : i \in Busy} = {t.id : t \in pool.active}
    /\ \A i, j \in Busy : pool.workers[i].request = pool.workers[j].request => i = j
    /\ \A t, u \in pool.active : t.id = u.id => t = u

\* Identical keyed requests share one job, and the shared promise is that of the
\* job in flight: never one that is settled, nor one that is lost.
OneJobPerKey ==
    pool.byKey = {<<t.input, t.id>> : t \in {t \in InFlight(pool) : t.input \in Keyed}}
    /\ \A t, u \in InFlight(pool) : t.input = u.input /\ t.input \in Keyed => t = u

\* An open promise has its task, with its own input, in the queue or in progress.
PendingHasTask ==
    \A c \in Call : pool.calls[c].status = "pending" =>
      [id |-> pool.calls[c].task, input |-> pool.calls[c].input] \in InFlight(pool)

\* A pool that has booted leaves nothing waiting next to a free worker, and
\* nothing at all once its workers failed.
NothingWaitsIdle ==
    pool.initialized = "true" =>
      /\ pool.failed => InFlight(pool) = {}
      /\ pool.queue # <<>> => \A i \in DOMAIN pool.workers : i \in Busy

\* The pool's four books (queue, jobs, workers, keys) describe one set of jobs.
PoolSound == WorkersMatchJobs /\ OneJobPerKey /\ PendingHasTask /\ NothingWaitsIdle

\* Whatever the workers do, a call gets the result of its own input, in the end.
EveryCallSettles ==
    \A c \in Call : pool.calls[c].status = "pending" ~> pool.calls[c].status # "pending"

\* What the callers see of their calls.
Told == [c \in Call |-> [status |-> pool.calls[c].status, input |-> pool.calls[c].input,
                         value |-> pool.calls[c].value]]

Service == INSTANCE JobService WITH calls <- Told

\* The pool with its queue, cache and workers is the service: every interleaving
\* of requests, late answers, crashes and restarts gives each call the result of
\* its own input, and a termination leaves nobody waiting.
ImplementsJobService == Service!Spec
=============================================================================
