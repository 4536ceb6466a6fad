------------------------- MODULE WorkerPool_proofs -------------------------
(***************************************************************************)
(* The worker pool keeps one set of jobs in its four books, and is the job *)
(* service it promises to be, for every number of workers, calls, inputs   *)
(* and terminations and every order of messages, errors and microtasks.    *)
(***************************************************************************)
EXTENDS WorkerPool, FiniteSetTheorems, SequenceTheorems, TLAPS

-----------------------------------------------------------------------------
(* The invariant, of the fields of a pool *)

Fields == {"calls", "queue", "active", "handshakes", "byKey", "cache", "workers",
           "initialized", "failed", "generation", "nextId", "boots", "sent", "up", "gone"}

Task == [id : Nat, input : Input]

WorkerState == [worker : Worker, request : Nat \cup {None}, ready : BOOLEAN]

CallState == [status : {"idle", "pending", "done", "failed", "canceled"},
              input : Input \cup {None}, value : Input \cup {None}, task : Nat]

\* What the callers hold: an open promise has its task, a key its job, and what is
\* remembered for a key is its result.
CallsSound(calls, byKey, cache, jobs) ==
    /\ calls \in [Call -> CallState]
    /\ \A c \in Call : calls[c].status = "pending" =>
         /\ calls[c].input \in Input /\ calls[c].value = None
         /\ [id |-> calls[c].task, input |-> calls[c].input] \in jobs
    /\ byKey = {<<t.input, t.id>> : t \in {t \in jobs : t.input \in Keyed}}
    /\ \A t, u \in jobs : t.input = u.input /\ t.input \in Keyed => t = u
    /\ \A e \in cache : e.key \in Input \ Bad /\ e.value = e.key

\* An id is given once, and a job is queued or active but not both; what was sent
\* of a job that is in flight was sent of that job.
JobsSound(queue, active, sent, nextId) ==
    /\ queue \in Seq(Task) /\ active \subseteq Task /\ nextId \in Nat
    /\ \A t \in active \cup ToSet(queue) : t.id \in 1 .. nextId
    /\ \A t, u \in active \cup ToSet(queue) : t.id = u.id => t = u
    /\ \A i, j \in DOMAIN queue : queue[i] = queue[j] => i = j
    /\ \A i \in DOMAIN queue : queue[i] \notin active
    /\ \A m \in sent : m.task # None =>
         /\ m.task \in Task /\ m.task.id \in 1 .. nextId
         /\ \A t \in active \cup ToSet(queue) : t.id = m.task.id => t = m.task /\ t \in active

\* A worker's request is an active job, which has one worker, and that worker alone
\* was sent it.
WorkersSound(workers, active, sent) ==
    /\ workers \in Seq(WorkerState)
    /\ \A i \in DOMAIN workers : workers[i].request # None =>
         \E t \in active : t.id = workers[i].request
    /\ \A t \in active : \E i \in DOMAIN workers : workers[i].request = t.id
    /\ \A i, j \in DOMAIN workers :
         workers[i].request # None /\ workers[i].request = workers[j].request => i = j
    /\ \A m \in sent, t \in active : m.task # None /\ m.task.id = t.id =>
         \E i \in DOMAIN workers : workers[i].request = t.id /\ workers[i].worker = m.worker

\* How far the boot of the present generation is says how far the pool is.
Stage(boot) ==
    CASE boot = "none" -> "false" [] boot \in {"waiting", "rejected"} -> "booting"
      [] boot = "over" -> "true"

LifeSound(initialized, failed, generation, boots) ==
    /\ failed \in BOOLEAN /\ generation \in Generation
    /\ boots \in [Generation -> {"none", "waiting", "rejected", "over"}]
    /\ \A g \in Generation : g > generation => boots[g] = "none"
    /\ initialized = Stage(boots[generation])

\* Workers and handshakes are of the present generation.  A worker is idle until its
\* handshake is answered, the pool has booted and nothing has failed.
Staffed(workers, handshakes, active, initialized, failed, generation) ==
    /\ \A w \in handshakes : w[1] = generation
    /\ \A i \in DOMAIN workers :
         /\ workers[i].worker[1] = generation
         /\ workers[i].ready \/ workers[i].worker \in handshakes
         /\ initialized = "true" => workers[i].ready
    /\ initialized = "false" => workers = <<>> /\ handshakes = {}
    /\ initialized # "true" \/ failed => active = {}

\* While a boot that was outdated has yet to go on, the workers of the present
\* generation have not been heard of: it will stop them, and takes no job with them.
Outdated(workers, active, generation, boots) ==
    \A g \in Generation : g # generation /\ boots[g] = "waiting" =>
      active = {} /\ \A i \in DOMAIN workers : ~workers[i].ready

\* A pool that has booted leaves nothing waiting.
Drained(queue, workers, initialized, failed) ==
    initialized = "true" =>
      /\ failed => queue = <<>>
      /\ queue # <<>> => \A i \in DOMAIN workers : workers[i].request # None

Books(p) ==
    /\ DOMAIN p = Fields
    /\ CallsSound(p.calls, p.byKey, p.cache, p.active \cup ToSet(p.queue))
    /\ JobsSound(p.queue, p.active, p.sent, p.nextId)
    /\ WorkersSound(p.workers, p.active, p.sent)
    /\ LifeSound(p.initialized, p.failed, p.generation, p.boots)
    /\ Staffed(p.workers, p.handshakes, p.active, p.initialized, p.failed, p.generation)
    /\ Outdated(p.workers, p.active, p.generation, p.boots)

PoolInv(p) == Books(p) /\ Drained(p.queue, p.workers, p.initialized, p.failed)

\* Between p and q some calls that were open got the outcome of their own input.
Answers(p, q) ==
    \A c \in Call :
      LET a == p.calls[c]
          b == q.calls[c]
          same == b.status = a.status /\ b.input = a.input /\ b.value = a.value
      IN  \/ same
          \/ /\ a.status = "pending" /\ b.input = a.input
             /\ b.status = Fallback(a.input).status /\ b.value = Fallback(a.input).value

-----------------------------------------------------------------------------
(* Dispatch *)

TurnOf(free) == [i \in free |-> Cardinality({j \in free : j <= i})]

TakenOf(free, len) == {i \in free : TurnOf(free)[i] <= len}

\* The first free workers take the first tasks, one each, while there are both.
LEMMA Turns ==
    ASSUME NEW free, IsFiniteSet(free), free \subseteq Nat, NEW len \in Nat
    PROVE  LET turn == TurnOf(free)
               taken == TakenOf(free, len)
           IN  /\ Cardinality(taken) \in 0 .. len
               /\ \A i \in taken : turn[i] \in 1 .. Cardinality(taken)
               /\ \A k \in 1 .. Cardinality(taken) : \E i \in taken : turn[i] = k
               /\ \A i, j \in taken : turn[i] = turn[j] => i = j
               /\ Cardinality(taken) < len => taken = free
  <1> DEFINE turn == TurnOf(free)
             taken == TakenOf(free, len)
             upTo == [i \in free |-> {j \in free : j <= i}]
             size == Cardinality(free)
             Goal == /\ Cardinality(taken) \in 0 .. len
                     /\ \A i \in taken : turn[i] \in 1 .. Cardinality(taken)
                     /\ \A k \in 1 .. Cardinality(taken) : \E i \in taken : turn[i] = k
                     /\ \A i, j \in taken : turn[i] = turn[j] => i = j
                     /\ Cardinality(taken) < len => taken = free
  <1>0. /\ turn = [i \in free |-> Cardinality({j \in free : j <= i})]
        /\ taken = {i \in free : turn[i] <= len}
    BY DEF TurnOf, TakenOf
  <1> HIDE DEF turn, taken
  <1> USE <1>0
  <1>1. IsFiniteSet(free) /\ size \in Nat
    BY FS_CardinalityType
  <1>2. \A i \in free : i \in Nat /\ upTo[i] \in SUBSET free /\ turn[i] = Cardinality(upTo[i])
    OBVIOUS
  <1>3. \A i \in free : IsFiniteSet(upTo[i]) /\ turn[i] \in Nat /\ turn[i] <= size
    BY <1>1, <1>2, FS_Subset, FS_CardinalityType
  <1>4. ASSUME NEW i \in free PROVE turn[i] >= 1
    <2>1. i \in upTo[i]
      OBVIOUS
    <2>2. turn[i] # 0
      BY <1>2, <1>3, <2>1, FS_EmptySet
    <2> QED  BY <1>3, <2>2
  <1>5. ASSUME NEW i \in free, NEW j \in free, i < j PROVE turn[i] < turn[j]
    <2>1. upTo[i] = {k \in free : k <= i} /\ upTo[j] = {k \in free : k <= j}
      OBVIOUS
    <2>2. i \in Nat /\ j \in Nat /\ \A k \in free : k \in Nat
      BY <1>2
    <2> HIDE DEF upTo
    <2>3. \A k \in free : k <= i => k <= j
      BY <1>5, <2>2
    <2>4. j <= j /\ ~(j <= i)
      BY <1>5, <2>2
    <2>5. upTo[i] \in SUBSET upTo[j] /\ j \in upTo[j] /\ j \notin upTo[i]
      BY <2>1, <2>3, <2>4
    <2>6. turn[i] <= turn[j] /\ (turn[j] = turn[i] => upTo[i] = upTo[j])
      BY <1>2, <1>3, <2>5, FS_Subset
    <2>7. turn[i] # turn[j]
      BY <2>5, <2>6
    <2> QED  BY <1>3, <2>6, <2>7
  <1>6. \A i, j \in free : turn[i] = turn[j] => i = j
    <2> TAKE i, j \in free
    <2>1. i < j \/ j < i \/ i = j
      BY <1>2
    <2> QED  BY <1>3, <1>5, <2>1
  <1>7. DOMAIN turn = free /\ turn \in [free -> 1 .. size]
    BY <1>1, <1>3, <1>4
  <1>8. \A k \in 1 .. size : \E i \in free : turn[i] = k
    <2>1. turn \in Injection(free, 1 .. size)
      BY <1>6, <1>7 DEF Injection, IsInjective
    <2>2. IsFiniteSet(1 .. size) /\ Cardinality(1 .. size) = size
      BY <1>1, FS_Interval
    <2> HIDE DEF size
    <2>3. turn \in Surjection(free, 1 .. size)
      BY <2>1, <2>2, FS_Injection DEF size
    <2> QED  BY <2>3 DEF Surjection
  <1> HIDE DEF size, upTo
  <1>9. \A i \in taken : i \in free /\ turn[i] <= len
    OBVIOUS
  <1> HIDE <1>0
  <1>10. ASSUME size <= len PROVE Goal
    <2>1. ASSUME NEW i \in free PROVE turn[i] <= len
      <3>1. size \in Nat /\ turn[i] \in Nat /\ turn[i] <= size
        BY <1>1, <1>3
      <3> QED  BY <1>10, <3>1
    <2>2. taken = free
      BY <1>0, <2>1
    <2>3. Cardinality(taken) = size
      BY <2>2 DEF size
    <2>4. size \in 0 .. len
      BY <1>1, <1>10
    <2>5. \A i \in taken : turn[i] \in 1 .. size
      BY <1>7, <2>2
    <2> QED  BY <1>6, <1>8, <2>2, <2>3, <2>4, <2>5
  <1>11. ASSUME len < size PROVE Goal
    <2> DEFINE g == [i \in taken |-> turn[i]]
    <2>1. \A i \in taken : g[i] = turn[i] /\ turn[i] \in 1 .. len
      <3> TAKE i \in taken
      <3>1. i \in free /\ turn[i] \in 1 .. size /\ turn[i] <= len
        BY <1>7, <1>9
      <3>2. turn[i] \in 1 .. len
        BY <1>1, <3>1
      <3> QED  BY <3>2
    <2>2. \A k \in 1 .. len : \E i \in taken : turn[i] = k
      <3> TAKE k \in 1 .. len
      <3>1. PICK i \in free : turn[i] = k
        BY <1>1, <1>8, <1>11
      <3>2. turn[i] <= len
        BY <3>1
      <3> QED  BY <1>0, <3>1, <3>2
    <2>3. g \in [taken -> 1 .. len]
      BY <2>1
    <2> HIDE DEF g
    <2>4. DOMAIN g = taken
      BY <2>3
    <2>5. g \in Injection(taken, 1 .. len)
      BY <1>6, <1>9, <2>1, <2>3, <2>4 DEF Injection, IsInjective
    <2>6. g \in Surjection(taken, 1 .. len)
      BY <2>1, <2>2, <2>3 DEF Surjection
    <2>7. IsFiniteSet(1 .. len) /\ Cardinality(1 .. len) = len
      BY FS_Interval
    <2>8. Cardinality(taken) = len
      BY <2>5, <2>6, <2>7, FS_Injection
    <2>9. len \in 0 .. len /\ ~(len < len)
      OBVIOUS
    <2> HIDE DEF g
    <2> QED  BY <1>6, <1>9, <2>1, <2>2, <2>8, <2>9
  <1>12. size <= len \/ len < size
    BY <1>1
  <1> HIDE DEF Goal
  <1>13. Goal
    BY <1>10, <1>11, <1>12
  <1> QED  BY <1>13 DEF Goal, turn, taken

USE DEF Fields

LEMMA DispatchKeeps ==
    ASSUME NEW p, Books(p), p.initialized = "true", ~p.failed
    PROVE  PoolInv(Dispatch(p)) /\ Dispatch(p).calls = p.calls
  <1> DEFINE q == p.queue
             w == p.workers
             jobs == p.active \cup ToSet(q)
             free == {i \in DOMAIN w : w[i].ready /\ w[i].request = None}
             turn == [i \in free |-> Cardinality({j \in free : j <= i})]
             taken == {i \in free : turn[i] <= Len(q)}
             many == Cardinality(taken)
             rest == SubSeq(q, many + 1, Len(q))
             given == {q[turn[i]] : i \in taken}
             busy == [i \in DOMAIN w |->
                        IF i \in taken THEN [w[i] EXCEPT !.request = q[turn[i]].id] ELSE w[i]]
             posted == {[worker |-> w[i].worker, task |-> q[turn[i]]] : i \in taken}
             u == Dispatch(p)
  <1>1. /\ DOMAIN u = Fields /\ u.calls = p.calls /\ u.queue = rest
        /\ u.active = p.active \cup given /\ u.handshakes = p.handshakes
        /\ u.byKey = p.byKey /\ u.cache = p.cache /\ u.workers = busy
        /\ u.initialized = p.initialized /\ u.failed = p.failed
        /\ u.generation = p.generation /\ u.nextId = p.nextId /\ u.boots = p.boots
        /\ u.sent = p.sent \cup posted /\ u.up = p.up /\ u.gone = p.gone
    BY DEF Dispatch, Books
  <1> HIDE DEF u
  <1>2. /\ q \in Seq(Task) /\ w \in Seq(WorkerState) /\ p.active \subseteq Task
        /\ Len(q) \in Nat /\ Len(w) \in Nat /\ DOMAIN q = 1 .. Len(q) /\ DOMAIN w = 1 .. Len(w)
        /\ \A i \in DOMAIN w : w[i] \in WorkerState
        /\ \A k \in DOMAIN q : q[k] \in Task
    BY DEF Books, JobsSound, WorkersSound
  <1>3. /\ many \in 0 .. Len(q)
        /\ \A i \in taken : turn[i] \in 1 .. many
        /\ \A k \in 1 .. many : \E i \in taken : turn[i] = k
        /\ \A i, j \in taken : turn[i] = turn[j] => i = j
        /\ many < Len(q) => taken = free
    <2>1. IsFiniteSet(free) /\ free \subseteq Nat
      <3>1. IsFiniteSet(1 .. Len(w)) /\ free \in SUBSET (1 .. Len(w))
        BY <1>2, FS_Interval
      <3> QED  BY <1>2, <3>1, FS_Subset
    <2> HIDE DEF free
    <2>2. turn = TurnOf(free)
      BY DEF TurnOf
    <2>3. taken = TakenOf(free, Len(q))
      BY <2>2 DEF TakenOf
    <2>4. Len(q) \in Nat
      BY <1>2
    <2> HIDE DEF turn, taken, many, q
    <2>5. /\ Cardinality(TakenOf(free, Len(q))) \in 0 .. Len(q)
          /\ \A i \in TakenOf(free, Len(q)) :
               TurnOf(free)[i] \in 1 .. Cardinality(TakenOf(free, Len(q)))
          /\ \A k \in 1 .. Cardinality(TakenOf(free, Len(q))) :
               \E i \in TakenOf(free, Len(q)) : TurnOf(free)[i] = k
          /\ \A i, j \in TakenOf(free, Len(q)) : TurnOf(free)[i] = TurnOf(free)[j] => i = j
          /\ Cardinality(TakenOf(free, Len(q))) < Len(q) => TakenOf(free, Len(q)) = free
      BY <2>1, <2>4, Turns
    <2>6. many = Cardinality(TakenOf(free, Len(q)))
      BY <2>3 DEF many
    <2> QED  BY <2>2, <2>3, <2>5, <2>6
  <1>4. \A i \in free : i \in DOMAIN w /\ w[i].ready /\ w[i].request = None
    OBVIOUS
  <1>5. \A i \in DOMAIN w : i \notin free => ~w[i].ready \/ w[i].request # None
    OBVIOUS
  <1>6. taken \subseteq free
    OBVIOUS
  <1> HIDE DEF turn, taken, free
  <1> HIDE DEF many
  <1>7. /\ rest \in Seq(Task) /\ Len(rest) = Len(q) - many /\ DOMAIN rest = 1 .. Len(q) - many
        /\ \A k \in 1 .. Len(q) - many : rest[k] = q[k + many]
    <2>1. \A k \in many + 1 .. Len(q) : q[k] \in Task
      BY <1>2, <1>3
    <2>2. many + 1 \in Int /\ Len(q) \in Int
      BY <1>2, <1>3
    <2>3. /\ rest \in Seq(Task)
          /\ Len(rest) = IF many + 1 <= Len(q) THEN Len(q) - (many + 1) + 1 ELSE 0
          /\ \A k \in 1 .. Len(q) - (many + 1) + 1 : rest[k] = q[many + 1 + k - 1]
      BY <2>1, <2>2, SubSeqProperties
    <2> HIDE DEF rest
    <2>4. Len(rest) = Len(q) - many /\ DOMAIN rest = 1 .. Len(rest)
      BY <1>2, <1>3, <2>3
    <2>5. ASSUME NEW k \in 1 .. Len(q) - many PROVE rest[k] = q[k + many]
      <3>1. k \in 1 .. Len(q) - (many + 1) + 1 /\ many + 1 + k - 1 = k + many
        BY <1>2, <1>3
      <3> QED  BY <2>3, <3>1
    <2> QED  BY <2>3, <2>4, <2>5
  <1>8. \A i \in taken : turn[i] \in DOMAIN q /\ q[turn[i]] \in Task
    BY <1>2, <1>3
  <1>9. \A t \in given : \E i \in taken : t = q[turn[i]]
    OBVIOUS
  <1>10. \A i \in taken : q[turn[i]] \in given
    OBVIOUS
  <1>11. \A k \in DOMAIN rest : k + many \in DOMAIN q /\ k + many > many
                                /\ rest[k] = q[k + many]
    BY <1>2, <1>3, <1>7
  <1>12. \A k \in DOMAIN q : q[k] \in given \/ \E j \in DOMAIN rest : rest[j] = q[k]
    <2> TAKE k \in DOMAIN q
    <2>1. CASE k <= many
      <3>1. k \in 1 .. many
        BY <1>2, <1>3, <2>1
      <3>2. PICK i \in taken : turn[i] = k
        BY <1>3, <3>1
      <3> QED  BY <1>10, <3>2
    <2>2. CASE many < k
      <3>1. k - many \in DOMAIN rest /\ (k - many) + many = k
        BY <1>2, <1>3, <1>7, <2>2
      <3> QED  BY <1>11, <3>1
    <2> QED  BY <1>2, <1>3, <2>1, <2>2
  <1>13. /\ DOMAIN busy = DOMAIN w /\ busy \in Seq(WorkerState)
         /\ \A i \in DOMAIN w : /\ busy[i].worker = w[i].worker /\ busy[i].ready = w[i].ready
                                /\ i \notin taken => busy[i].request = w[i].request
                                /\ i \in taken => busy[i].request = q[turn[i]].id
    <2>1. ASSUME NEW i \in DOMAIN w
          PROVE  /\ busy[i] \in WorkerState
                 /\ busy[i].worker = w[i].worker /\ busy[i].ready = w[i].ready
                 /\ i \notin taken => busy[i].request = w[i].request
                 /\ i \in taken => busy[i].request = q[turn[i]].id
      BY <1>2, <1>8 DEF WorkerState, Task
    <2> HIDE DEF q
    <2>2. DOMAIN busy = DOMAIN w
      OBVIOUS
    <2> HIDE DEF busy
    <2>3. busy \in [1 .. Len(w) -> WorkerState]
      <3>1. busy = [i \in DOMAIN w |-> busy[i]]
        BY DEF busy
      <3> QED  BY <1>2, <2>1, <3>1
    <2> QED  BY <1>2, <2>1, <2>2, <2>3
  <1>14. \A m \in posted : \E i \in taken : m.worker = w[i].worker /\ m.task = q[turn[i]]
    OBVIOUS
  <1> HIDE DEF rest, given, busy, posted
  <1>15. ToSet(q) = {q[k] : k \in DOMAIN q} /\ ToSet(rest) = {rest[k] : k \in DOMAIN rest}
    BY DEF ToSet
  <1>16. u.active \cup ToSet(u.queue) = jobs
    <2>1. given \cup ToSet(rest) = ToSet(q)
      BY <1>8, <1>9, <1>11, <1>12, <1>15
    <2> HIDE DEF q
    <2> QED  BY <1>1, <2>1 DEF jobs
  <1>17. CallsSound(u.calls, u.byKey, u.cache, u.active \cup ToSet(u.queue))
    BY <1>1, <1>16 DEF Books, jobs
  <1>18. JobsSound(u.queue, u.active, u.sent, u.nextId)
    <2>1. /\ \A i, j \in DOMAIN q : q[i] = q[j] => i = j
          /\ \A i \in DOMAIN q : q[i] \notin p.active
          /\ \A t \in jobs : t.id \in 1 .. p.nextId
          /\ \A t, v \in jobs : t.id = v.id => t = v
          /\ p.nextId \in Nat
      BY DEF Books, JobsSound
    <2>2. u.queue \in Seq(Task) /\ u.active \subseteq Task /\ u.nextId \in Nat
      BY <1>1, <1>2, <1>7, <1>8, <1>9, <2>1
    <2>3. \A i, j \in DOMAIN rest : rest[i] = rest[j] => i = j
      <3> SUFFICES ASSUME NEW i \in DOMAIN rest, NEW j \in DOMAIN rest, rest[i] = rest[j]
                   PROVE  i = j
        OBVIOUS
      <3>1. i + many = j + many
        BY <1>11, <2>1
      <3> QED  BY <1>2, <1>3, <1>7, <3>1
    <2>4. \A i \in DOMAIN rest : rest[i] \notin p.active /\ rest[i] \notin given
      <3> TAKE i \in DOMAIN rest
      <3>1. rest[i] \notin p.active
        BY <1>11, <2>1
      <3>2. ASSUME rest[i] \in given PROVE FALSE
        <4>1. PICK j \in taken : rest[i] = q[turn[j]]
          BY <1>9, <3>2
        <4>2. i + many = turn[j]
          BY <1>8, <1>11, <2>1, <4>1
        <4> QED  BY <1>3, <1>11, <4>2
      <3> QED  BY <3>1, <3>2
    <2>5. ASSUME NEW m \in u.sent, m.task # None
          PROVE  /\ m.task \in Task /\ m.task.id \in 1 .. p.nextId
                 /\ \A t \in jobs : t.id = m.task.id => t = m.task /\ t \in u.active
      <3>1. CASE m \in p.sent
        BY <1>1, <2>5, <3>1 DEF Books, JobsSound
      <3>2. CASE m \in posted
        <4>1. PICK i \in taken : m.task = q[turn[i]]
          BY <1>14, <3>2
        <4>2. m.task \in Task /\ m.task \in given /\ m.task \in jobs
          BY <1>8, <1>10, <1>15, <4>1
        <4> QED  BY <1>1, <2>1, <4>2
      <3> QED  BY <1>1, <2>5, <3>1, <3>2
    <2> HIDE DEF jobs
    <2> QED  BY <1>1, <1>16, <2>1, <2>2, <2>3, <2>4, <2>5 DEF JobsSound
  <1>19. WorkersSound(u.workers, u.active, u.sent)
    <2>1. /\ \A i \in DOMAIN w : w[i].request # None => \E t \in p.active : t.id = w[i].request
          /\ \A t \in p.active : \E i \in DOMAIN w : w[i].request = t.id
          /\ \A i, j \in DOMAIN w :
               w[i].request # None /\ w[i].request = w[j].request => i = j
          /\ \A m \in p.sent, t \in p.active : m.task # None /\ m.task.id = t.id =>
               \E i \in DOMAIN w : w[i].request = t.id /\ w[i].worker = m.worker
      BY DEF Books, WorkersSound
    <2>2. /\ \A t, v \in jobs : t.id = v.id => t = v
          /\ \A i, j \in DOMAIN q : q[i] = q[j] => i = j
          /\ \A i \in DOMAIN q : q[i] \notin p.active /\ q[i] \in jobs
          /\ \A t \in jobs : t.id # None
      BY <1>2, <1>15, PoolAssumption DEF Books, JobsSound, Task
    <2>3. ASSUME NEW i \in DOMAIN w, busy[i].request # None
          PROVE  \E t \in u.active : t.id = busy[i].request
      <3>1. CASE i \in taken
        BY <1>1, <1>10, <1>13, <3>1
      <3>2. CASE i \notin taken
        BY <1>1, <1>13, <2>1, <2>3, <3>2
      <3> QED  BY <3>1, <3>2
    <2>4. ASSUME NEW t \in u.active PROVE \E i \in DOMAIN w : busy[i].request = t.id
      <3>1. CASE t \in given
        <4>1. PICK i \in taken : t = q[turn[i]]
          BY <1>9, <3>1
        <4> QED  BY <1>4, <1>6, <1>13, <4>1
      <3>2. CASE t \in p.active
        <4>1. PICK i \in DOMAIN w : w[i].request = t.id
          BY <2>1, <3>2
        <4>2. i \notin taken
          BY <1>4, <1>6, <2>2, <3>2, <4>1
        <4> QED  BY <1>13, <4>1, <4>2
      <3> QED  BY <1>1, <3>1, <3>2
    <2>5. ASSUME NEW i \in DOMAIN w, NEW j \in DOMAIN w, busy[i].request # None,
                 busy[i].request = busy[j].request
          PROVE  i = j
      <3>1. CASE i \in taken /\ j \in taken
        <4>1. q[turn[i]].id = q[turn[j]].id
          BY <1>13, <2>5, <3>1
        <4>2. q[turn[i]] = q[turn[j]]
          BY <1>8, <2>2, <3>1, <4>1
        <4>3. turn[i] = turn[j]
          BY <1>8, <2>2, <3>1, <4>2
        <4> QED  BY <1>3, <3>1, <4>3
      <3>2. CASE i \notin taken /\ j \notin taken
        BY <1>13, <2>1, <2>5, <3>2
      <3>3. ASSUME NEW k \in taken, NEW l \in DOMAIN w \ taken,
                   busy[k].request = busy[l].request
            PROVE  FALSE
        <4>1. k \in DOMAIN w /\ busy[k].request = q[turn[k]].id /\ q[turn[k]].id # None
          BY <1>4, <1>6, <1>8, <1>13, <2>2
        <4>2. w[l].request = q[turn[k]].id
          BY <1>13, <3>3, <4>1
        <4>3. PICK t \in p.active : t.id = q[turn[k]].id
          BY <2>1, <4>1, <4>2
        <4> QED  BY <1>8, <2>2, <4>3
      <3> QED  BY <2>5, <3>1, <3>2, <3>3
    <2>6. ASSUME NEW m \in u.sent, NEW t \in u.active, m.task # None, m.task.id = t.id
          PROVE  \E i \in DOMAIN w : busy[i].request = t.id /\ busy[i].worker = m.worker
      <3>1. CASE m \in posted
        <4>1. PICK i \in taken : m.worker = w[i].worker /\ m.task = q[turn[i]]
          BY <1>14, <3>1
        <4> QED  BY <1>4, <1>6, <1>13, <2>6, <4>1
      <3>2. CASE m \in p.sent
        <4>1. t \in p.active
          <5>1. \A v \in jobs : v.id = m.task.id => v \in p.active
            BY <2>6, <3>2 DEF Books, JobsSound
          <5>2. t \in jobs
            BY <1>16
          <5> QED  BY <2>6, <5>1, <5>2
        <4>2. PICK i \in DOMAIN w : w[i].request = t.id /\ w[i].worker = m.worker
          BY <2>1, <2>6, <3>2, <4>1
        <4>3. i \notin taken
          BY <1>4, <1>6, <2>2, <4>1, <4>2
        <4> QED  BY <1>13, <4>2, <4>3
      <3> QED  BY <1>1, <3>1, <3>2
    <2> QED  BY <1>1, <1>13, <2>3, <2>4, <2>5, <2>6 DEF WorkersSound
  <1>20. LifeSound(u.initialized, u.failed, u.generation, u.boots)
    BY <1>1 DEF Books
  <1>21. Staffed(u.workers, u.handshakes, u.active, u.initialized, u.failed, u.generation)
    BY <1>1, <1>13 DEF Books, Staffed
  <1>22. Outdated(u.workers, u.active, u.generation, u.boots)
    <2> SUFFICES ASSUME NEW g \in Generation, g # p.generation, p.boots[g] = "waiting"
                 PROVE  u.active = {} /\ \A i \in DOMAIN busy : ~busy[i].ready
      BY <1>1 DEF Outdated
    <2>1. p.active = {} /\ \A i \in DOMAIN w : ~w[i].ready
      BY DEF Books, Outdated
    <2>2. taken = {}
      BY <1>4, <1>6, <2>1
    <2> QED  BY <1>1, <1>9, <1>13, <2>1, <2>2
  <1>23. Drained(u.queue, u.workers, u.initialized, u.failed)
    <2>1. ASSUME rest # <<>>, NEW i \in DOMAIN w PROVE busy[i].request # None
      <3>1. many < Len(q)
        BY <1>2, <1>3, <1>7, <2>1
      <3>2. w[i].ready
        BY DEF Books, Staffed
      <3>3. CASE i \in taken
        BY <1>8, <1>13, <3>3, PoolAssumption DEF Task
      <3>4. CASE i \notin taken
        BY <1>3, <1>5, <1>13, <3>1, <3>2, <3>4
      <3> QED  BY <3>3, <3>4
    <2> QED  BY <1>1, <1>13, <2>1 DEF Drained
  <1> QED
    BY <1>1, <1>17, <1>18, <1>19, <1>20, <1>21, <1>22, <1>23 DEF PoolInv, Books, u

-----------------------------------------------------------------------------
(* Promises settle *)

\* What the main thread makes of the task; or its cancelation.
Outcome(r, i) == r.status = Fallback(i).status /\ r.value = Fallback(i).value

Canceled(r) == r.status = "canceled" /\ r.value = None

Ends(results) == \A t \in DOMAIN results : Outcome(results[t], t.input) \/ Canceled(results[t])

Outcomes(results) == \A t \in DOMAIN results : Outcome(results[t], t.input)

\* What is remembered of results of their own inputs are results of their own inputs.
LEMMA RememberingKeeps ==
    ASSUME NEW cache, NEW fresh,
           \A e \in cache : e.key \in Input \ Bad /\ e.value = e.key,
           \A e \in fresh : e.key \in Input \ Bad /\ e.value = e.key
    PROVE  \A e \in Remembering(cache, fresh) : e.key \in Input \ Bad /\ e.value = e.key
  <1> TAKE e \in Remembering(cache, fresh)
  <1>1. \/ \E f \in fresh : e.key = f.key /\ e.value = f.value
        \/ \E f \in cache : e.key = f.key /\ e.value = f.value
    <2> DEFINE old == {f \in cache : \A g \in fresh : g.key # f.key}
               young == [f \in fresh |-> Cardinality({g \in fresh : g.id >= f.id})]
               aged == [f \in old |-> Cardinality(fresh)
                                       + Cardinality({g \in old : g.age <= f.age})]
    <2>1. \/ \E f \in fresh : e = [key |-> f.key, value |-> f.value, age |-> young[f]]
          \/ \E f \in old : e = [key |-> f.key, value |-> f.value, age |-> aged[f]]
      BY Zenon DEF Remembering
    <2>2. old \subseteq cache
      OBVIOUS
    <2> HIDE DEF young, aged, old
    <2> QED  BY <2>1, <2>2
  <1> QED  BY <1>1

\* The task of an open call ends it; no other call changes.
Ended(p, u, results, c) ==
    \E t \in DOMAIN results :
      /\ p.calls[c].status = "pending" /\ t.id = p.calls[c].task
      /\ t.input = p.calls[c].input
      /\ u.calls[c] = [p.calls[c] EXCEPT !.status = results[t].status,
                                         !.value = results[t].value]

\* u is p with some of the jobs in flight settled.
Settles(p, jobs, results, u) ==
    /\ DOMAIN p = Fields /\ jobs \in SUBSET Task
    /\ \A t, v \in jobs : t.id = v.id => t = v
    /\ CallsSound(p.calls, p.byKey, p.cache, jobs)
    /\ DOMAIN results \subseteq jobs /\ Ends(results)
    /\ u = Settle(p, results)

\* Then only what the callers hold has changed, and it is sound of the jobs that are left.
SettledOnly(p, jobs, results, u) ==
    /\ DOMAIN u = Fields /\ u.queue = p.queue /\ u.active = p.active
    /\ u.handshakes = p.handshakes /\ u.workers = p.workers
    /\ u.initialized = p.initialized /\ u.failed = p.failed
    /\ u.generation = p.generation /\ u.nextId = p.nextId /\ u.boots = p.boots
    /\ u.sent = p.sent /\ u.up = p.up /\ u.gone = p.gone
    /\ CallsSound(u.calls, u.byKey, u.cache, jobs \ DOMAIN results)
    /\ \A c \in Call : u.calls[c] = p.calls[c] \/ Ended(p, u, results, c)

LEMMA SettleKeeps ==
    ASSUME NEW p, NEW jobs, NEW results, NEW u, Settles(p, jobs, results, u)
    PROVE  SettledOnly(p, jobs, results, u)
  <1> DEFINE tasks == DOMAIN results
             told == [c \in Call |-> {t \in tasks : t.id = p.calls[c].task}]
             done == {t \in tasks : t.input \in Keyed /\ results[t].status = "done"}
             fresh == {[key |-> t.input, value |-> results[t].value, id |-> t.id] : t \in done}
             calls == [c \in Call |->
                        IF p.calls[c].status = "pending" /\ told[c] # {}
                        THEN LET r == results[CHOOSE t \in told[c] : TRUE]
                             IN  [p.calls[c] EXCEPT !.status = r.status, !.value = r.value]
                        ELSE p.calls[c]]
             keys == {k \in p.byKey : \A t \in tasks : t.input # k[1]}
  <1>0. /\ DOMAIN p = Fields /\ jobs \in SUBSET Task
        /\ \A t, v \in jobs : t.id = v.id => t = v
        /\ CallsSound(p.calls, p.byKey, p.cache, jobs)
        /\ DOMAIN results \subseteq jobs /\ Ends(results)
        /\ u = Settle(p, results)
    BY DEF Settles
  <1> USE <1>0
  <1>1. /\ DOMAIN u = Fields /\ u.calls = calls /\ u.queue = p.queue
        /\ u.active = p.active /\ u.handshakes = p.handshakes /\ u.byKey = keys
        /\ u.cache = Remembering(p.cache, fresh) /\ u.workers = p.workers
        /\ u.initialized = p.initialized /\ u.failed = p.failed
        /\ u.generation = p.generation /\ u.nextId = p.nextId /\ u.boots = p.boots
        /\ u.sent = p.sent /\ u.up = p.up /\ u.gone = p.gone
    <2> DEFINE heard == [c \in Call |->
                  IF p.calls[c].status = "pending"
                     /\ {t \in tasks : t.id = p.calls[c].task} # {}
                  THEN LET r == results[CHOOSE t \in {t \in tasks : t.id = p.calls[c].task} : TRUE]
                       IN  [p.calls[c] EXCEPT !.status = r.status, !.value = r.value]
                  ELSE p.calls[c]]
    <2>1. u = [p EXCEPT !.calls = heard, !.byKey = keys, !.cache = Remembering(p.cache, fresh)]
      BY DEF Settle
    <2>2. heard = calls
      OBVIOUS
    <2> HIDE DEF heard, calls, keys, fresh, done, told, tasks
    <2> QED  BY <2>1, <2>2
  <1>2. /\ p.calls \in [Call -> CallState]
        /\ \A c \in Call : p.calls[c].status = "pending" =>
             /\ p.calls[c].input \in Input /\ p.calls[c].value = None
             /\ [id |-> p.calls[c].task, input |-> p.calls[c].input] \in jobs
        /\ p.byKey = {<<t.input, t.id>> : t \in {t \in jobs : t.input \in Keyed}}
        /\ \A t, v \in jobs : t.input = v.input /\ t.input \in Keyed => t = v
        /\ \A e \in p.cache : e.key \in Input \ Bad /\ e.value = e.key
    BY DEF CallsSound
  <1>3. ASSUME NEW t \in tasks
        PROVE  /\ t \in Task /\ results[t].status \in {"done", "failed", "canceled"}
               /\ results[t].value \in Input \cup {None}
               /\ results[t].status = "done" => t.input \notin Bad /\ results[t].value = t.input
    <2>1. t \in Task /\ t.input \in Input
      BY DEF Task
    <2> QED  BY <2>1 DEF Ends, Outcome, Canceled, Fallback
  <1>4. ASSUME NEW c \in Call
        PROVE  /\ calls[c] \in CallState
               /\ calls[c] = p.calls[c] \/ Ended(p, u, results, c)
               /\ calls[c].status = "pending" =>
                    calls[c] = p.calls[c] /\ \A t \in tasks : t.id # p.calls[c].task
    <2>0. p.calls[c] \in CallState
      BY <1>2
    <2>1. CASE p.calls[c].status = "pending" /\ told[c] # {}
      <3>1. PICK t \in told[c] : t = CHOOSE v \in told[c] : TRUE
        BY <2>1
      <3>2. t \in tasks /\ t.id = p.calls[c].task
        BY <3>1
      <3>3. calls[c] = [p.calls[c] EXCEPT !.status = results[t].status,
                                          !.value = results[t].value]
        BY <2>1, <3>1
      <3> HIDE DEF calls, told
      <3>4. [id |-> p.calls[c].task, input |-> p.calls[c].input].id = t.id
        BY <3>2
      <3>5. t = [id |-> p.calls[c].task, input |-> p.calls[c].input]
        BY <1>2, <2>1, <3>2, <3>4
      <3>6. t.input = p.calls[c].input
        BY <3>5
      <3>7. Ended(p, u, results, c)
        BY <1>1, <2>1, <3>2, <3>3, <3>6 DEF Ended
      <3>8. calls[c] \in CallState /\ calls[c].status # "pending"
        BY <1>3, <2>0, <3>2, <3>3 DEF CallState
      <3> QED  BY <3>7, <3>8
    <2>2. CASE ~(p.calls[c].status = "pending" /\ told[c] # {})
      <3>1. calls[c] = p.calls[c]
        BY <2>2
      <3>2. p.calls[c].status = "pending" => \A t \in tasks : t.id # p.calls[c].task
        BY <2>2
      <3> HIDE DEF calls, told
      <3> QED  BY <2>0, <3>1, <3>2
    <2> QED  BY <2>1, <2>2
  <1>5. DOMAIN calls = Call
    OBVIOUS
  <1> HIDE DEF calls, told
  <1>6. calls \in [Call -> CallState]
    <2>1. calls = [c \in Call |-> calls[c]]
      BY DEF calls
    <2> QED  BY <1>4, <2>1
  <1>7. ASSUME NEW c \in Call, calls[c].status = "pending"
        PROVE  /\ calls[c].input \in Input /\ calls[c].value = None
               /\ [id |-> calls[c].task, input |-> calls[c].input] \in jobs \ tasks
    <2>1. calls[c] = p.calls[c] /\ \A t \in tasks : t.id # p.calls[c].task
      BY <1>4, <1>7
    <2>2. [id |-> calls[c].task, input |-> calls[c].input].id = p.calls[c].task
      BY <2>1
    <2> QED  BY <1>2, <1>7, <2>1, <2>2
  <1>8. keys = {<<t.input, t.id>> : t \in {t \in jobs \ tasks : t.input \in Keyed}}
    <2>1. ASSUME NEW k \in keys
          PROVE  \E t \in jobs \ tasks : t.input \in Keyed /\ k = <<t.input, t.id>>
      <3>1. PICK t \in jobs : t.input \in Keyed /\ k = <<t.input, t.id>>
        BY <1>2
      <3> QED  BY <3>1
    <2>2. ASSUME NEW t \in jobs \ tasks, t.input \in Keyed PROVE <<t.input, t.id>> \in keys
      <3>1. <<t.input, t.id>> \in p.byKey
        BY <1>2, <2>2
      <3>2. \A v \in tasks : v.input # t.input
        BY <1>2, <2>2
      <3> QED  BY <3>1, <3>2
    <2> HIDE DEF keys
    <2> QED  BY <2>1, <2>2
  <1>9. \A e \in Remembering(p.cache, fresh) : e.key \in Input \ Bad /\ e.value = e.key
    <2>1. \A e \in fresh : e.key \in Input \ Bad /\ e.value = e.key
      <3> TAKE e \in fresh
      <3>1. PICK t \in done : e.key = t.input /\ e.value = results[t].value
        OBVIOUS
      <3>2. t \in tasks /\ results[t].status = "done" /\ t.input \in Input
        BY <1>3 DEF Task
      <3> QED  BY <1>3, <3>1, <3>2
    <2> HIDE DEF fresh
    <2> QED  BY <1>2, <2>1, RememberingKeeps
  <1>10. CallsSound(u.calls, u.byKey, u.cache, jobs \ tasks)
    <2> HIDE DEF keys, fresh, tasks
    <2> QED  BY <1>1, <1>2, <1>6, <1>7, <1>8, <1>9 DEF CallsSound
  <1> QED  BY <1>1, <1>4, <1>10 DEF SettledOnly

\* Settling tasks with the outcomes of their inputs answers the calls they are of.
LEMMA OutcomesAnswer ==
    ASSUME NEW p, NEW u, NEW results, p.calls \in [Call -> CallState], Outcomes(results),
           \A c \in Call : u.calls[c] = p.calls[c] \/ Ended(p, u, results, c)
    PROVE  Answers(p, u)
  <1> SUFFICES ASSUME NEW c \in Call, Ended(p, u, results, c)
               PROVE  /\ p.calls[c].status = "pending" /\ u.calls[c].input = p.calls[c].input
                      /\ u.calls[c].status = Fallback(p.calls[c].input).status
                      /\ u.calls[c].value = Fallback(p.calls[c].input).value
    BY DEF Answers
  <1>1. PICK t \in DOMAIN results :
          /\ p.calls[c].status = "pending" /\ t.input = p.calls[c].input
          /\ u.calls[c] = [p.calls[c] EXCEPT !.status = results[t].status,
                                             !.value = results[t].value]
    BY DEF Ended
  <1>2. p.calls[c] \in CallState
    OBVIOUS
  <1>3. /\ u.calls[c].status = results[t].status /\ u.calls[c].value = results[t].value
        /\ u.calls[c].input = p.calls[c].input
    BY <1>1, <1>2 DEF CallState
  <1>4. results[t].status = Fallback(t.input).status /\ results[t].value = Fallback(t.input).value
    BY DEF Outcomes, Outcome
  <1> QED  BY <1>1, <1>3, <1>4

\* Calls that are answered one after another are answered.
LEMMA AnswersCompose ==
    ASSUME NEW p, NEW q, NEW u, Answers(p, q), Answers(q, u)
    PROVE  Answers(p, u)
  <1>1. \A i : Fallback(i).status # "pending"
    BY DEF Fallback
  <1> QED  BY <1>1 DEF Answers

-----------------------------------------------------------------------------
(* The queue is looked at *)

\* Without jobs the books of jobs and of workers say little.
LEMMA NoJobs ==
    ASSUME NEW sent, NEW workers, NEW nextId \in Nat, NEW queue, NEW active,
           JobsSound(queue, active, sent, nextId)
    PROVE  /\ ToSet(<<>>) = {}
           /\ JobsSound(<<>>, {}, sent, nextId)
           /\ workers \in Seq(WorkerState) /\ (\A i \in DOMAIN workers : workers[i].request = None)
                => WorkersSound(workers, {}, sent)
  <1>1. ToSet(<<>>) = {}
    BY DEF ToSet
  <1>2. <<>> \in Seq(Task) /\ DOMAIN <<>> = {}
    OBVIOUS
  <1>3. JobsSound(<<>>, {}, sent, nextId)
    BY <1>1, <1>2 DEF JobsSound
  <1> QED  BY <1>1, <1>3 DEF WorkersSound

LEMMA DrainKeeps ==
    ASSUME NEW p, Books(p)
    PROVE  /\ PoolInv(DrainQueue(p)) /\ Answers(p, DrainQueue(p))
           /\ ~p.failed => DrainQueue(p).calls = p.calls
  <1>1. p.failed \in BOOLEAN
    BY DEF Books, LifeSound
  <1>2. ASSUME p.initialized # "true"
        PROVE  /\ PoolInv(DrainQueue(p)) /\ Answers(p, DrainQueue(p))
               /\ DrainQueue(p).calls = p.calls
    <2>1. DrainQueue(p) = p
      BY <1>2 DEF DrainQueue
    <2> QED  BY <1>2, <2>1 DEF PoolInv, Drained, Answers
  <1>3. ASSUME p.initialized = "true", p.failed
        PROVE  PoolInv(DrainQueue(p)) /\ Answers(p, DrainQueue(p))
    <2> DEFINE jobs == ToSet(p.queue)
               results == [t \in jobs |-> Fallback(t.input)]
               emptied == [p EXCEPT !.queue = <<>>]
               u == Settle(emptied, results)
    <2>1. DrainQueue(p) = u
      BY <1>3 DEF DrainQueue, ResolveViaFallback
    <2>2. /\ DOMAIN emptied = Fields /\ emptied.calls = p.calls /\ emptied.queue = <<>>
          /\ emptied.active = p.active /\ emptied.handshakes = p.handshakes
          /\ emptied.byKey = p.byKey /\ emptied.cache = p.cache
          /\ emptied.workers = p.workers /\ emptied.initialized = p.initialized
          /\ emptied.failed = p.failed /\ emptied.generation = p.generation
          /\ emptied.nextId = p.nextId /\ emptied.boots = p.boots
          /\ emptied.sent = p.sent /\ emptied.up = p.up /\ emptied.gone = p.gone
      BY DEF Books
    <2>3. p.active = {} /\ p.active \cup ToSet(p.queue) = jobs
      BY <1>3 DEF Books, Staffed
    <2>4. /\ jobs \in SUBSET Task
          /\ \A t, v \in jobs : t.id = v.id => t = v
          /\ CallsSound(p.calls, p.byKey, p.cache, jobs)
      <3>1. p.queue \in Seq(Task) /\ \A i \in DOMAIN p.queue : p.queue[i] \in Task
        BY DEF Books, JobsSound
      <3> QED  BY <2>3, <3>1 DEF Books, JobsSound, ToSet
    <2>5. DOMAIN results = jobs /\ \A t \in jobs : results[t] = Fallback(t.input)
      OBVIOUS
    <2> HIDE DEF results, jobs, emptied
    <2>6. Outcomes(results) /\ Ends(results)
      BY <2>5 DEF Outcomes, Ends, Outcome
    <2>7. CallsSound(emptied.calls, emptied.byKey, emptied.cache, jobs)
      BY <2>2, <2>4
    <2> HIDE DEF u
    <2>20. Settles(emptied, jobs, results, u)
      BY <2>2, <2>4, <2>5, <2>6, <2>7 DEF Settles, u
    <2>21. SettledOnly(emptied, jobs, results, u)
      BY <2>20, SettleKeeps
    <2>8. /\ DOMAIN u = Fields /\ u.queue = emptied.queue /\ u.active = emptied.active
          /\ u.handshakes = emptied.handshakes /\ u.workers = emptied.workers
          /\ u.initialized = emptied.initialized /\ u.failed = emptied.failed
          /\ u.generation = emptied.generation /\ u.nextId = emptied.nextId
          /\ u.boots = emptied.boots /\ u.sent = emptied.sent /\ u.up = emptied.up
          /\ u.gone = emptied.gone
          /\ CallsSound(u.calls, u.byKey, u.cache, jobs \ DOMAIN results)
          /\ \A c \in Call : u.calls[c] = emptied.calls[c] \/ Ended(emptied, u, results, c)
      BY <2>21 DEF SettledOnly
    <2>9. jobs \ DOMAIN results = {} /\ u.active = {} /\ u.queue = <<>>
      BY <2>2, <2>3, <2>5, <2>8
    <2>10. /\ JobsSound(p.queue, p.active, p.sent, p.nextId) /\ p.nextId \in Nat
           /\ p.workers \in Seq(WorkerState)
           /\ \A i \in DOMAIN p.workers : p.workers[i].request = None
      BY <2>3 DEF Books, JobsSound, WorkersSound
    <2>11. /\ ToSet(<<>>) = {} /\ JobsSound(<<>>, {}, p.sent, p.nextId)
           /\ WorkersSound(p.workers, {}, p.sent)
      BY <2>10, NoJobs
    <2>12. CallsSound(u.calls, u.byKey, u.cache, u.active \cup ToSet(u.queue))
      BY <2>8, <2>9, <2>11
    <2>13. /\ JobsSound(u.queue, u.active, u.sent, u.nextId)
           /\ WorkersSound(u.workers, u.active, u.sent)
      BY <2>2, <2>8, <2>9, <2>11
    <2>14. /\ LifeSound(u.initialized, u.failed, u.generation, u.boots)
           /\ Staffed(u.workers, u.handshakes, u.active, u.initialized, u.failed, u.generation)
           /\ Outdated(u.workers, u.active, u.generation, u.boots)
      BY <2>2, <2>3, <2>8, <2>9 DEF Books
    <2>15. Drained(u.queue, u.workers, u.initialized, u.failed)
      BY <2>9 DEF Drained
    <2>16. PoolInv(u)
      BY <2>8, <2>12, <2>13, <2>14, <2>15 DEF PoolInv, Books
    <2>17. emptied.calls \in [Call -> CallState]
      BY <2>2, <2>4 DEF CallsSound
    <2>18. Answers(emptied, u)
      BY <2>6, <2>8, <2>17, OutcomesAnswer
    <2>19. Answers(p, u)
      BY <2>2, <2>18 DEF Answers
    <2> QED  BY <2>1, <2>16, <2>19
  <1>4. ASSUME p.initialized = "true", ~p.failed
        PROVE  /\ PoolInv(DrainQueue(p)) /\ Answers(p, DrainQueue(p))
               /\ DrainQueue(p).calls = p.calls
    <2>1. DrainQueue(p) = Dispatch(p)
      BY <1>4 DEF DrainQueue
    <2>2. PoolInv(Dispatch(p)) /\ Dispatch(p).calls = p.calls
      BY <1>4, DispatchKeeps
    <2> QED  BY <2>1, <2>2 DEF Answers
  <1> QED  BY <1>1, <1>2, <1>3, <1>4

-----------------------------------------------------------------------------
(* The life cycle *)

LEMMA BootKeeps ==
    ASSUME NEW p, Books(p), p.initialized = "false", NEW made \in 0 .. PoolSize
    PROVE  PoolInv(Boot(p, made)) /\ Boot(p, made).calls = p.calls
  <1> DEFINE name == [i \in 1 .. made |-> <<p.generation, i>>]
             created == {name[i] : i \in 1 .. made}
             posted == {[worker |-> w, task |-> None] : w \in created}
             staff == [i \in 1 .. made |->
                         [worker |-> name[i], request |-> None, ready |-> FALSE]]
             boots == [p.boots EXCEPT ![p.generation] =
                         IF made < PoolSize THEN "rejected" ELSE "waiting"]
             u == Boot(p, made)
  <1>0. /\ created = {<<p.generation, i>> : i \in 1 .. made}
        /\ staff = [i \in 1 .. made |->
                      [worker |-> <<p.generation, i>>, request |-> None, ready |-> FALSE]]
    OBVIOUS
  <1> HIDE DEF created, staff
  <1>1. /\ DOMAIN u = Fields /\ u.calls = p.calls /\ u.queue = p.queue
        /\ u.active = p.active /\ u.handshakes = p.handshakes \cup created
        /\ u.byKey = p.byKey /\ u.cache = p.cache /\ u.workers = p.workers \o staff
        /\ u.initialized = "booting" /\ u.failed = p.failed
        /\ u.generation = p.generation /\ u.nextId = p.nextId /\ u.boots = boots
        /\ u.sent = p.sent \cup posted /\ u.up = p.up \cup created /\ u.gone = p.gone
    BY <1>0 DEF Boot, Books
  <1> HIDE DEF u
  <1>2. /\ p.generation \in Generation /\ p.failed \in BOOLEAN
        /\ p.boots \in [Generation -> {"none", "waiting", "rejected", "over"}]
        /\ p.boots[p.generation] = "none"
        /\ \A g \in Generation : g > p.generation => p.boots[g] = "none"
    BY DEF Books, LifeSound, Stage
  <1>3. p.workers = <<>> /\ p.handshakes = {} /\ p.active = {}
    BY DEF Books, Staffed
  <1>4. made \in Nat /\ \A i \in 1 .. made : i \in 1 .. PoolSize
    BY PoolAssumption
  <1>5. /\ DOMAIN staff = 1 .. made
        /\ \A i \in 1 .. made : /\ staff[i] \in WorkerState /\ staff[i].worker = name[i]
                                /\ staff[i].request = None /\ ~staff[i].ready
                                /\ name[i][1] = p.generation /\ name[i] \in created
    BY <1>2, <1>4 DEF staff, created, WorkerState, Worker
  <1>6. \A w \in created : w[1] = p.generation
    BY DEF created
  <1>7. \A m \in posted : m.task = None
    OBVIOUS
  <1> HIDE DEF posted, name
  <1>8. staff \in Seq(WorkerState)
    <2>1. staff = [i \in 1 .. made |-> staff[i]]
      BY DEF staff
    <2>2. staff \in [1 .. made -> WorkerState]
      BY <1>5, <2>1
    <2> QED  BY <1>4, <2>2
  <1>9. u.workers = staff /\ u.active = {} /\ u.handshakes = created
    <2>1. <<>> \o staff = staff
      BY <1>8
    <2> QED  BY <1>1, <1>3, <2>1
  <1>10. CallsSound(u.calls, u.byKey, u.cache, u.active \cup ToSet(u.queue))
    BY <1>1 DEF Books
  <1>11. JobsSound(u.queue, u.active, u.sent, u.nextId)
    BY <1>1, <1>7 DEF Books, JobsSound
  <1>12. WorkersSound(u.workers, u.active, u.sent)
    BY <1>5, <1>8, <1>9 DEF WorkersSound
  <1>13. LifeSound(u.initialized, u.failed, u.generation, u.boots)
    <2>1. /\ boots \in [Generation -> {"none", "waiting", "rejected", "over"}]
          /\ boots[p.generation] \in {"waiting", "rejected"}
          /\ \A g \in Generation : g # p.generation => boots[g] = p.boots[g]
      BY <1>2
    <2>2. p.generation \in Int /\ \A g \in Generation : g \in Int
      BY <1>2, PoolAssumption DEF Generation
    <2> HIDE DEF boots
    <2>3. \A g \in Generation : g > p.generation => boots[g] = "none"
      BY <1>2, <2>1, <2>2
    <2> QED  BY <1>1, <1>2, <2>1, <2>3 DEF LifeSound, Stage
  <1>14. Staffed(u.workers, u.handshakes, u.active, u.initialized, u.failed, u.generation)
    BY <1>1, <1>5, <1>6, <1>9 DEF Staffed
  <1>15. Outdated(u.workers, u.active, u.generation, u.boots)
    BY <1>5, <1>9 DEF Outdated
  <1>16. Drained(u.queue, u.workers, u.initialized, u.failed)
    BY <1>1 DEF Drained
  <1> QED
    BY <1>1, <1>10, <1>11, <1>12, <1>13, <1>14, <1>15, <1>16 DEF PoolInv, Books, u

\* Where the constructor starts.
LEMMA FreshSound == Books(Fresh) /\ Fresh.initialized = "false"
  <1>1. ToSet(<<>>) = {}
    BY DEF ToSet
  <1>2. /\ DOMAIN Fresh = Fields /\ Fresh.calls = [c \in Call |-> NoCall] /\ Fresh.queue = <<>>
        /\ Fresh.active = {} /\ Fresh.handshakes = {} /\ Fresh.byKey = {} /\ Fresh.cache = {}
        /\ Fresh.workers = <<>> /\ Fresh.initialized = "false" /\ Fresh.failed = FALSE
        /\ Fresh.generation = 0 /\ Fresh.nextId = 0
        /\ Fresh.boots = [g \in Generation |-> "none"] /\ Fresh.sent = {}
    BY DEF Fresh
  <1>3. CallsSound(Fresh.calls, Fresh.byKey, Fresh.cache, {})
    BY <1>2 DEF CallsSound, NoCall, CallState
  <1>4. JobsSound(Fresh.queue, Fresh.active, Fresh.sent, Fresh.nextId)
    BY <1>1, <1>2 DEF JobsSound
  <1>5. WorkersSound(Fresh.workers, Fresh.active, Fresh.sent)
    BY <1>2 DEF WorkersSound
  <1>6. LifeSound(Fresh.initialized, Fresh.failed, Fresh.generation, Fresh.boots)
    <2>1. 0 \in Generation
      BY PoolAssumption DEF Generation
    <2> QED  BY <1>2, <2>1 DEF LifeSound, Stage
  <1>7. Staffed(Fresh.workers, Fresh.handshakes, Fresh.active, Fresh.initialized,
                Fresh.failed, Fresh.generation)
    BY <1>2 DEF Staffed
  <1>8. Outdated(Fresh.workers, Fresh.active, Fresh.generation, Fresh.boots)
    BY <1>2 DEF Outdated
  <1> QED  BY <1>1, <1>2, <1>3, <1>4, <1>5, <1>6, <1>7, <1>8 DEF Books

\* The jobs are as they were; the workers too, or they are stopped and had none.
SameJobs(p, u) ==
    /\ DOMAIN u = Fields
    /\ u.calls = p.calls /\ u.byKey = p.byKey /\ u.cache = p.cache
    /\ u.queue = p.queue /\ u.active = p.active /\ u.nextId = p.nextId
    /\ u.sent \subseteq p.sent
    /\ u.workers = p.workers \/ (u.workers = <<>> /\ p.active = {})

LEMMA SameJobsKeep ==
    ASSUME NEW p, NEW u, Books(p), SameJobs(p, u)
    PROVE  /\ CallsSound(u.calls, u.byKey, u.cache, u.active \cup ToSet(u.queue))
           /\ JobsSound(u.queue, u.active, u.sent, u.nextId)
           /\ WorkersSound(u.workers, u.active, u.sent)
  <1>1. CallsSound(u.calls, u.byKey, u.cache, u.active \cup ToSet(u.queue))
    BY DEF Books, SameJobs
  <1>2. JobsSound(u.queue, u.active, u.sent, u.nextId)
    BY DEF Books, SameJobs, JobsSound
  <1>3. WorkersSound(u.workers, u.active, u.sent)
    <2>1. CASE u.workers = p.workers
      BY <2>1 DEF Books, SameJobs, WorkersSound
    <2>2. CASE u.workers = <<>> /\ p.active = {}
      BY <2>2 DEF SameJobs, WorkersSound
    <2> QED  BY <2>1, <2>2 DEF SameJobs
  <1> QED  BY <1>1, <1>2, <1>3

\* A boot that goes on: the pool is up, or its workers have failed, or the boot was
\* outdated, and stops the workers that took the place of its own.
LEMMA ContinueKeeps ==
    ASSUME NEW p, PoolInv(p), NEW g \in Generation, BootSettled(p, g)
    PROVE  PoolInv(ContinueBoot(p, g)) /\ Answers(p, ContinueBoot(p, g))
  <1> DEFINE boots == [p.boots EXCEPT ![g] = "over"]
             over == [p EXCEPT !.boots[g] = "over"]
             ended == {p.workers[i].worker : i \in DOMAIN p.workers}
             stopped == TerminateWorkers(over)
             up == [over EXCEPT !.initialized = "true"]
             broken == [stopped EXCEPT !.initialized = "true", !.failed = TRUE]
  <1>1. Books(p) /\ DOMAIN p = Fields /\ Drained(p.queue, p.workers, p.initialized, p.failed)
    BY DEF PoolInv, Books
  <1>2. /\ DOMAIN over = Fields /\ over.calls = p.calls /\ over.queue = p.queue
        /\ over.active = p.active /\ over.handshakes = p.handshakes
        /\ over.byKey = p.byKey /\ over.cache = p.cache /\ over.workers = p.workers
        /\ over.initialized = p.initialized /\ over.failed = p.failed
        /\ over.generation = p.generation /\ over.nextId = p.nextId
        /\ over.boots = boots /\ over.sent = p.sent /\ over.up = p.up
        /\ over.gone = p.gone
    BY <1>1
  <1>3. /\ DOMAIN up = Fields /\ up.calls = p.calls /\ up.queue = p.queue
        /\ up.active = p.active /\ up.handshakes = p.handshakes /\ up.byKey = p.byKey
        /\ up.cache = p.cache /\ up.workers = p.workers /\ up.initialized = "true"
        /\ up.failed = p.failed /\ up.generation = p.generation /\ up.nextId = p.nextId
        /\ up.boots = boots /\ up.sent = p.sent /\ up.up = p.up /\ up.gone = p.gone
    BY <1>1
  <1> HIDE DEF over
  <1>4. /\ DOMAIN stopped = Fields /\ stopped.calls = p.calls /\ stopped.queue = p.queue
        /\ stopped.active = p.active /\ stopped.handshakes = p.handshakes
        /\ stopped.byKey = p.byKey /\ stopped.cache = p.cache /\ stopped.workers = <<>>
        /\ stopped.initialized = p.initialized /\ stopped.failed = p.failed
        /\ stopped.generation = p.generation /\ stopped.nextId = p.nextId
        /\ stopped.boots = boots /\ stopped.sent = p.sent
    BY <1>2 DEF TerminateWorkers
  <1> HIDE DEF stopped
  <1>5. /\ DOMAIN broken = Fields /\ broken.calls = p.calls /\ broken.queue = p.queue
        /\ broken.active = p.active /\ broken.handshakes = p.handshakes
        /\ broken.byKey = p.byKey /\ broken.cache = p.cache /\ broken.workers = <<>>
        /\ broken.initialized = "true" /\ broken.failed = TRUE
        /\ broken.generation = p.generation /\ broken.nextId = p.nextId
        /\ broken.boots = boots /\ broken.sent = p.sent
    BY <1>4
  <1> HIDE DEF up, broken, ended
  <1>6. /\ p.generation \in Generation /\ p.failed \in BOOLEAN
        /\ p.boots \in [Generation -> {"none", "waiting", "rejected", "over"}]
        /\ \A h \in Generation : h > p.generation => p.boots[h] = "none"
        /\ p.initialized = Stage(p.boots[p.generation])
        /\ p.boots[g] \in {"waiting", "rejected"}
    BY <1>1 DEF Books, LifeSound, BootSettled, Fulfilled
  <1>7. /\ boots \in [Generation -> {"none", "waiting", "rejected", "over"}]
        /\ boots[g] = "over"
        /\ \A h \in Generation : h # g => boots[h] = p.boots[h]
        /\ \A h \in Generation : h > p.generation => boots[h] = "none"
    <2>1. /\ boots \in [Generation -> {"none", "waiting", "rejected", "over"}]
          /\ boots[g] = "over"
          /\ \A h \in Generation : h # g => boots[h] = p.boots[h]
      BY <1>6
    <2>2. ~(g > p.generation)
      BY <1>6
    <2> HIDE DEF boots
    <2> QED  BY <1>6, <2>1, <2>2
  <1> HIDE DEF boots
  <1>8. g # p.generation =>
          LifeSound(p.initialized, p.failed, p.generation, boots)
    BY <1>6, <1>7 DEF LifeSound
  <1>9. g = p.generation =>
          /\ LifeSound("true", p.failed, p.generation, boots)
          /\ LifeSound("true", TRUE, p.generation, boots)
          /\ p.active = {} /\ p.initialized = "booting"
    BY <1>1, <1>6, <1>7 DEF LifeSound, Stage, Books, Staffed
  <1>10. Outdated(p.workers, p.active, p.generation, boots)
    BY <1>1, <1>7 DEF Books, Outdated
  <1>11. Staffed(p.workers, p.handshakes, p.active, p.initialized, p.failed, p.generation)
    BY <1>1 DEF Books
  <1>12. ASSUME Fulfilled(p, g), p.generation = g
         PROVE  PoolInv(ContinueBoot(p, g)) /\ Answers(p, ContinueBoot(p, g))
    <2>1. p.handshakes = {}
      BY <1>11, <1>12 DEF Staffed, Fulfilled, OpenHandshakes
    <2>2. Staffed(up.workers, up.handshakes, up.active, up.initialized, up.failed, up.generation)
      BY <1>3, <1>9, <1>11, <1>12, <2>1 DEF Staffed
    <2>3. SameJobs(p, up)
      BY <1>3 DEF SameJobs
    <2>4. Books(up)
      BY <1>1, <1>3, <1>9, <1>10, <1>12, <2>2, <2>3, SameJobsKeep DEF Books
    <2>5. ContinueBoot(p, g) = DrainQueue(up)
      BY <1>12 DEF ContinueBoot, up, over
    <2>6. Answers(up, DrainQueue(up)) /\ PoolInv(DrainQueue(up))
      BY <2>4, DrainKeeps
    <2>7. Answers(p, DrainQueue(up))
      BY <1>3, <2>6 DEF Answers
    <2> QED  BY <2>5, <2>6, <2>7
  <1>13. ASSUME ~Fulfilled(p, g), p.generation = g
         PROVE  PoolInv(ContinueBoot(p, g)) /\ Answers(p, ContinueBoot(p, g))
    <2>1. Staffed(broken.workers, broken.handshakes, broken.active, broken.initialized,
                  broken.failed, broken.generation)
      BY <1>5, <1>9, <1>11, <1>13 DEF Staffed
    <2>2. /\ SameJobs(p, broken)
          /\ Outdated(broken.workers, broken.active, broken.generation, broken.boots)
      BY <1>5, <1>9, <1>13 DEF SameJobs, Outdated
    <2>3. Books(broken)
      BY <1>1, <1>5, <1>9, <1>13, <2>1, <2>2, SameJobsKeep DEF Books
    <2>4. ContinueBoot(p, g) = DrainQueue(broken)
      BY <1>13 DEF ContinueBoot, broken, stopped, over
    <2>5. Answers(broken, DrainQueue(broken)) /\ PoolInv(DrainQueue(broken))
      BY <2>3, DrainKeeps
    <2>6. Answers(p, DrainQueue(broken))
      BY <1>5, <2>5 DEF Answers
    <2> QED  BY <2>4, <2>5, <2>6
  <1>14. ASSUME Fulfilled(p, g), p.generation # g
         PROVE  PoolInv(ContinueBoot(p, g)) /\ Answers(p, ContinueBoot(p, g))
    <2>1. p.active = {}
      BY <1>1, <1>14 DEF Books, Outdated, Fulfilled
    <2>2. Staffed(stopped.workers, stopped.handshakes, stopped.active, stopped.initialized,
                  stopped.failed, stopped.generation)
      BY <1>4, <1>11, <2>1 DEF Staffed
    <2>3. /\ SameJobs(p, stopped)
          /\ Outdated(stopped.workers, stopped.active, stopped.generation, stopped.boots)
          /\ Drained(stopped.queue, stopped.workers, stopped.initialized, stopped.failed)
      BY <1>1, <1>4, <2>1 DEF SameJobs, Outdated, Drained
    <2>4. PoolInv(stopped)
      BY <1>1, <1>4, <1>8, <1>14, <2>2, <2>3, SameJobsKeep DEF Books, PoolInv
    <2>5. ContinueBoot(p, g) = stopped
      BY <1>14 DEF ContinueBoot, stopped, over
    <2> QED  BY <1>4, <2>4, <2>5 DEF Answers
  <1>15. ASSUME ~Fulfilled(p, g), p.generation # g
         PROVE  PoolInv(ContinueBoot(p, g)) /\ Answers(p, ContinueBoot(p, g))
    <2>1. SameJobs(p, over)
      BY <1>2 DEF SameJobs
    <2>2. PoolInv(over)
      BY <1>1, <1>2, <1>8, <1>10, <1>11, <1>15, <2>1, SameJobsKeep DEF Books, PoolInv
    <2>3. ContinueBoot(p, g) = over
      BY <1>15 DEF ContinueBoot, over
    <2> QED  BY <1>2, <2>2, <2>3 DEF Answers
  <1> QED  BY <1>12, <1>13, <1>14, <1>15

\* Between p and u the calls that were open were canceled.
Canceling(p, u) ==
    \A c \in Call :
      IF p.calls[c].status = "pending"
      THEN u.calls[c] = [p.calls[c] EXCEPT !.status = "canceled", !.value = None]
      ELSE u.calls[c] = p.calls[c]

\* A termination cancels every open call, whatever was queued or active, and leaves a
\* pool that is as good as new.
LEMMA TerminateKeeps ==
    ASSUME NEW p, PoolInv(p), p.generation < MaxGeneration
    PROVE  PoolInv(Terminate(p)) /\ Canceling(p, Terminate(p))
  <1> DEFINE jobs == InFlight(p)
             canceled == [t \in jobs |-> [status |-> "canceled", value |-> None]]
             settled == Settle(p, canceled)
             boots == [g \in Generation |->
                         IF p.boots[g] = "waiting" /\ OpenHandshakes(p, g) # {}
                         THEN "rejected" ELSE p.boots[g]]
             rejected == RejectAll(p)
             stopped == TerminateWorkers(rejected)
             u == Terminate(p)
  <1>1. Books(p) /\ DOMAIN p = Fields
    BY DEF PoolInv, Books
  <1>2. /\ jobs = p.active \cup ToSet(p.queue) /\ jobs \in SUBSET Task
        /\ \A t, v \in jobs : t.id = v.id => t = v
        /\ CallsSound(p.calls, p.byKey, p.cache, jobs)
    <2>1. p.queue \in Seq(Task) /\ \A i \in DOMAIN p.queue : p.queue[i] \in Task
      BY <1>1 DEF Books, JobsSound
    <2> QED  BY <1>1, <2>1 DEF Books, JobsSound, ToSet, InFlight
  <1>3. DOMAIN canceled = jobs /\ \A t \in jobs : Canceled(canceled[t])
    BY DEF Canceled
  <1>4. canceled = [t \in InFlight(p) |-> [status |-> "canceled", value |-> None]]
    OBVIOUS
  <1> HIDE DEF canceled, jobs
  <1>5. Settles(p, jobs, canceled, settled)
    BY <1>1, <1>2, <1>3 DEF Settles, Ends
  <1> HIDE DEF settled
  <1>6. SettledOnly(p, jobs, canceled, settled)
    BY <1>5, SettleKeeps
  <1>7. /\ DOMAIN settled = Fields /\ settled.queue = p.queue
        /\ settled.active = p.active /\ settled.handshakes = p.handshakes
        /\ settled.workers = p.workers /\ settled.initialized = p.initialized
        /\ settled.failed = p.failed /\ settled.generation = p.generation
        /\ settled.nextId = p.nextId /\ settled.boots = p.boots /\ settled.sent = p.sent
        /\ settled.up = p.up /\ settled.gone = p.gone
    BY <1>6 DEF SettledOnly
  <1>8. /\ DOMAIN rejected = Fields /\ rejected.calls = settled.calls
        /\ rejected.queue = <<>> /\ rejected.active = {} /\ rejected.handshakes = {}
        /\ rejected.byKey = settled.byKey /\ rejected.cache = settled.cache
        /\ rejected.workers = settled.workers
        /\ rejected.initialized = settled.initialized
        /\ rejected.failed = settled.failed /\ rejected.generation = settled.generation
        /\ rejected.nextId = settled.nextId /\ rejected.boots = boots
        /\ rejected.sent = settled.sent /\ rejected.up = settled.up
        /\ rejected.gone = settled.gone
    <2>1. rejected = [settled EXCEPT !.queue = <<>>, !.active = {}, !.handshakes = {},
                                     !.boots = [g \in Generation |->
                                       IF @[g] = "waiting" /\ OpenHandshakes(p, g) # {}
                                       THEN "rejected" ELSE @[g]]]
      BY <1>4 DEF RejectAll, settled
    <2> HIDE DEF rejected
    <2>2. rejected.boots = boots
      BY <1>7, <2>1
    <2> HIDE DEF boots
    <2> QED  BY <1>7, <2>1, <2>2
  <1> HIDE DEF rejected, boots
  <1>9. /\ DOMAIN u = Fields /\ u.calls = settled.calls /\ u.queue = <<>>
        /\ u.active = {} /\ u.handshakes = {} /\ u.byKey = {} /\ u.cache = {}
        /\ u.workers = <<>> /\ u.initialized = "false" /\ u.failed = FALSE
        /\ u.generation = p.generation + 1 /\ u.nextId = p.nextId /\ u.boots = boots
        /\ u.sent = p.sent
    <2>1. /\ DOMAIN stopped = Fields /\ stopped.calls = settled.calls
          /\ stopped.queue = <<>> /\ stopped.active = {} /\ stopped.handshakes = {}
          /\ stopped.workers = <<>> /\ stopped.initialized = p.initialized
          /\ stopped.failed = p.failed /\ stopped.generation = p.generation
          /\ stopped.nextId = p.nextId /\ stopped.boots = boots /\ stopped.sent = p.sent
      BY <1>7, <1>8 DEF TerminateWorkers
    <2>2. u = [stopped EXCEPT !.byKey = {}, !.cache = {}, !.initialized = "false",
                              !.failed = FALSE, !.generation = @ + 1]
      BY DEF Terminate, rejected
    <2> HIDE DEF stopped, u
    <2> QED  BY <2>1, <2>2
  <1> HIDE DEF u
  <1>10. /\ p.generation \in Generation /\ p.generation + 1 \in Generation
         /\ p.generation \in Int /\ \A g \in Generation : g \in Int
    BY <1>1, PoolAssumption DEF Books, LifeSound, Generation
  <1>11. CallsSound(settled.calls, settled.byKey, settled.cache, {})
    <2>1. jobs \ DOMAIN canceled = {}
      BY <1>3
    <2> QED  BY <1>6, <2>1 DEF SettledOnly
  <1>12. ASSUME NEW c \in Call
         PROVE  IF p.calls[c].status = "pending"
                THEN u.calls[c] = [p.calls[c] EXCEPT !.status = "canceled", !.value = None]
                ELSE u.calls[c] = p.calls[c]
    <2>1. settled.calls[c].status # "pending"
      BY <1>11 DEF CallsSound
    <2>2. CASE settled.calls[c] = p.calls[c]
      BY <1>9, <2>1, <2>2
    <2>3. CASE Ended(p, settled, canceled, c)
      BY <1>3, <1>9, <2>3 DEF Ended, Canceled
    <2> QED  BY <1>6, <2>2, <2>3 DEF SettledOnly
  <1>13. ToSet(<<>>) = {} /\ JobsSound(<<>>, {}, p.sent, p.nextId)
    <2>1. JobsSound(p.queue, p.active, p.sent, p.nextId) /\ p.nextId \in Nat
      BY <1>1 DEF Books, JobsSound
    <2> QED  BY <2>1, NoJobs
  <1>14. CallsSound(u.calls, u.byKey, u.cache, u.active \cup ToSet(u.queue))
    <2>1. CallsSound(settled.calls, {}, {}, {})
      BY <1>11 DEF CallsSound
    <2> QED  BY <1>9, <1>13, <2>1
  <1>15. JobsSound(u.queue, u.active, u.sent, u.nextId)
    BY <1>9, <1>13
  <1>16. WorkersSound(u.workers, u.active, u.sent)
    BY <1>9 DEF WorkersSound
  <1>17. LifeSound(u.initialized, u.failed, u.generation, u.boots)
    <2>1. /\ p.boots \in [Generation -> {"none", "waiting", "rejected", "over"}]
          /\ \A g \in Generation : g > p.generation => p.boots[g] = "none"
      BY <1>1 DEF Books, LifeSound
    <2>2. \A g \in Generation : g > p.generation => boots[g] = "none"
      BY <2>1 DEF boots
    <2>3. boots \in [Generation -> {"none", "waiting", "rejected", "over"}]
      BY <2>1 DEF boots
    <2>4. /\ p.generation + 1 > p.generation
          /\ \A g \in Generation : g > p.generation + 1 => g > p.generation
      BY <1>10
    <2> QED  BY <1>9, <1>10, <2>2, <2>3, <2>4 DEF LifeSound, Stage
  <1>18. Staffed(u.workers, u.handshakes, u.active, u.initialized, u.failed, u.generation)
    BY <1>9 DEF Staffed
  <1>19. Outdated(u.workers, u.active, u.generation, u.boots)
    BY <1>9 DEF Outdated
  <1>20. Drained(u.queue, u.workers, u.initialized, u.failed)
    BY <1>9 DEF Drained
  <1>21. PoolInv(u)
    BY <1>9, <1>14, <1>15, <1>16, <1>17, <1>18, <1>19, <1>20 DEF PoolInv, Books
  <1> QED  BY <1>12, <1>21 DEF u, Canceling

-----------------------------------------------------------------------------
(* Requests *)

\* One call is made, and waits for its input or has its outcome.
Made(p, u, c, i) ==
    /\ \A d \in Call : d # c => u.calls[d] = p.calls[d]
    /\ u.calls[c].input = i
    /\ \/ u.calls[c].status = "pending" /\ u.calls[c].value = None
       \/ u.calls[c].status = Fallback(i).status /\ u.calls[c].value = Fallback(i).value

\* A call that needs no new task: it has its outcome, or shares a job in flight.
CallGoes(p, u, c, i, new) ==
    /\ DOMAIN u = Fields /\ u.queue = p.queue /\ u.active = p.active
    /\ u.handshakes = p.handshakes /\ u.byKey = p.byKey /\ u.workers = p.workers
    /\ u.initialized = p.initialized /\ u.failed = p.failed
    /\ u.generation = p.generation /\ u.nextId = p.nextId /\ u.boots = p.boots
    /\ u.sent = p.sent /\ u.up = p.up /\ u.gone = p.gone
    /\ new \in CallState /\ new.input = i
    /\ u.calls = [p.calls EXCEPT ![c] = new]
    /\ \A e \in u.cache : e.key \in Input \ Bad /\ e.value = e.key
    /\ \/ /\ new.status = "pending" /\ new.value = None
          /\ [id |-> new.task, input |-> i] \in p.active \cup ToSet(p.queue)
       \/ /\ new.status = Fallback(i).status /\ new.value = Fallback(i).value

LEMMA CallKeeps ==
    ASSUME NEW p, PoolInv(p), NEW c \in Call, NEW i \in Input, NEW new, NEW u,
           CallGoes(p, u, c, i, new)
    PROVE  PoolInv(u) /\ Made(p, u, c, i)
  <1>0. /\ DOMAIN u = Fields /\ u.queue = p.queue /\ u.active = p.active
        /\ u.handshakes = p.handshakes /\ u.byKey = p.byKey /\ u.workers = p.workers
        /\ u.initialized = p.initialized /\ u.failed = p.failed
        /\ u.generation = p.generation /\ u.nextId = p.nextId /\ u.boots = p.boots
        /\ u.sent = p.sent /\ u.up = p.up /\ u.gone = p.gone
        /\ new \in CallState /\ new.input = i
        /\ u.calls = [p.calls EXCEPT ![c] = new]
        /\ \A e \in u.cache : e.key \in Input \ Bad /\ e.value = e.key
        /\ \/ /\ new.status = "pending" /\ new.value = None
              /\ [id |-> new.task, input |-> i] \in p.active \cup ToSet(p.queue)
           \/ /\ new.status = Fallback(i).status /\ new.value = Fallback(i).value
    BY DEF CallGoes
  <1> USE <1>0
  <1> DEFINE jobs == p.active \cup ToSet(p.queue)
  <1>1. /\ p.calls \in [Call -> CallState]
        /\ CallsSound(p.calls, p.byKey, p.cache, jobs)
    BY DEF PoolInv, Books, CallsSound
  <1>2. /\ u.calls \in [Call -> CallState] /\ u.calls[c] = new
        /\ \A d \in Call : d # c => u.calls[d] = p.calls[d]
    BY <1>1
  <1>3. Fallback(i).status # "pending"
    BY DEF Fallback
  <1> HIDE DEF jobs
  <1>4. CallsSound(u.calls, u.byKey, u.cache, jobs)
    <2>1. \A d \in Call : u.calls[d].status = "pending" =>
             /\ u.calls[d].input \in Input /\ u.calls[d].value = None
             /\ [id |-> u.calls[d].task, input |-> u.calls[d].input] \in jobs
      <3> TAKE d \in Call
      <3>1. CASE d = c
        BY <1>2, <1>3, <3>1 DEF jobs
      <3>2. CASE d # c
        BY <1>1, <1>2, <3>2 DEF CallsSound
      <3> QED  BY <3>1, <3>2
    <2> QED  BY <1>1, <1>2, <2>1 DEF CallsSound
  <1>5. PoolInv(u)
    BY <1>4 DEF PoolInv, Books, jobs
  <1> QED  BY <1>2, <1>5 DEF Made

\* A new task: the pool boots if it was terminated, and its workers may take the task.
LEMMA EnqueueKeeps ==
    ASSUME NEW p, PoolInv(p), ~p.failed, NEW c \in Call, NEW i \in Input,
           i \in Keyed => Shared(p, i) = {}, NEW made \in 0 .. PoolSize
    PROVE  PoolInv(Enqueue(p, c, i, made)) /\ Made(p, Enqueue(p, c, i, made), c, i)
  <1> DEFINE id == p.nextId + 1
             new == [id |-> id, input |-> i]
             call == [status |-> "pending", input |-> i, value |-> None, task |-> id]
             calls == [p.calls EXCEPT ![c] = call]
             keys == IF i \in Keyed THEN {k \in p.byKey : k[1] # i} \cup {<<i, id>>} ELSE p.byKey
             asked == SetCall(p, c, i, "pending", None, id)
             queued == [asked EXCEPT !.nextId = id, !.queue = Append(@, new),
                          !.byKey = IF i \in Keyed
                                    THEN {k \in @ : k[1] # i} \cup {<<i, id>>} ELSE @]
             jobs == p.active \cup ToSet(p.queue)
             u == Enqueue(p, c, i, made)
  <1>1. Books(p) /\ DOMAIN p = Fields
    BY DEF PoolInv, Books
  <1>2. /\ DOMAIN asked = Fields /\ asked.calls = calls /\ asked.queue = p.queue
        /\ asked.active = p.active /\ asked.handshakes = p.handshakes
        /\ asked.byKey = p.byKey /\ asked.cache = p.cache /\ asked.workers = p.workers
        /\ asked.initialized = p.initialized /\ asked.failed = p.failed
        /\ asked.generation = p.generation /\ asked.nextId = p.nextId
        /\ asked.boots = p.boots /\ asked.sent = p.sent /\ asked.up = p.up
        /\ asked.gone = p.gone
    BY <1>1 DEF SetCall
  <1> HIDE DEF asked
  <1>3. /\ DOMAIN queued = Fields /\ queued.calls = calls
        /\ queued.queue = Append(p.queue, new) /\ queued.active = p.active
        /\ queued.handshakes = p.handshakes /\ queued.byKey = keys
        /\ queued.cache = p.cache /\ queued.workers = p.workers
        /\ queued.initialized = p.initialized /\ queued.failed = p.failed
        /\ queued.generation = p.generation /\ queued.nextId = id
        /\ queued.boots = p.boots /\ queued.sent = p.sent /\ queued.up = p.up
        /\ queued.gone = p.gone
    BY <1>2
  <1>4. u = DrainQueue(IF p.initialized = "false" THEN Boot(queued, made) ELSE queued)
    BY <1>3 DEF Enqueue, asked
  <1> HIDE DEF queued, u
  <1>5. /\ p.queue \in Seq(Task) /\ Len(p.queue) \in Nat /\ DOMAIN p.queue = 1 .. Len(p.queue)
        /\ p.nextId \in Nat /\ p.active \subseteq Task
        /\ \A t \in jobs : t.id \in 1 .. p.nextId
        /\ \A t, v \in jobs : t.id = v.id => t = v
        /\ \A k, l \in DOMAIN p.queue : p.queue[k] = p.queue[l] => k = l
        /\ \A k \in DOMAIN p.queue : p.queue[k] \notin p.active
        /\ \A m \in p.sent : m.task # None =>
             /\ m.task \in Task /\ m.task.id \in 1 .. p.nextId
             /\ \A t \in jobs : t.id = m.task.id => t = m.task /\ t \in p.active
    BY <1>1 DEF Books, JobsSound
  <1>6. /\ id \in Nat /\ id # p.nextId /\ new \in Task /\ new.id = id /\ new.input = i
        /\ id \in 1 .. id /\ \A k \in 1 .. p.nextId : k # id /\ k \in 1 .. id
    BY <1>5 DEF Task
  <1>7. \A t \in jobs : t.id # id /\ t # new
    BY <1>5, <1>6
  <1>8. /\ queued.queue \in Seq(Task) /\ Len(queued.queue) = Len(p.queue) + 1
        /\ DOMAIN queued.queue = 1 .. Len(p.queue) + 1
        /\ \A k \in DOMAIN p.queue : k \in DOMAIN queued.queue /\ queued.queue[k] = p.queue[k]
        /\ Len(p.queue) + 1 \in DOMAIN queued.queue /\ queued.queue[Len(p.queue) + 1] = new
        /\ \A k \in DOMAIN queued.queue : k \in DOMAIN p.queue \/ k = Len(p.queue) + 1
    BY <1>3, <1>5, <1>6
  <1>9. ToSet(p.queue) = {p.queue[k] : k \in DOMAIN p.queue}
        /\ ToSet(queued.queue) = {queued.queue[k] : k \in DOMAIN queued.queue}
    BY DEF ToSet
  <1>10. queued.active \cup ToSet(queued.queue) = jobs \cup {new}
    BY <1>3, <1>8, <1>9
  <1>11. /\ p.calls \in [Call -> CallState]
         /\ CallsSound(p.calls, p.byKey, p.cache, jobs)
    BY <1>1 DEF Books, CallsSound
  <1> HIDE DEF id, new, jobs
  <1>12. call \in CallState /\ call.status = "pending" /\ call.input = i /\ call.value = None
         /\ [id |-> call.task, input |-> call.input] = new
    BY <1>6 DEF CallState, new
  <1> HIDE DEF call
  <1>13. /\ calls \in [Call -> CallState] /\ calls[c] = call
         /\ \A d \in Call : d # c => calls[d] = p.calls[d]
    BY <1>11, <1>12
  <1> HIDE DEF calls
  <1>14. CallsSound(queued.calls, queued.byKey, queued.cache, jobs \cup {new})
    <2>1. \A d \in Call : calls[d].status = "pending" =>
             /\ calls[d].input \in Input /\ calls[d].value = None
             /\ [id |-> calls[d].task, input |-> calls[d].input] \in jobs \cup {new}
      <3> TAKE d \in Call
      <3>1. CASE d = c
        BY <1>12, <1>13, <3>1
      <3>2. CASE d # c
        BY <1>11, <1>13, <3>2 DEF CallsSound
      <3> QED  BY <3>1, <3>2
    <2>2. p.byKey = {<<t.input, t.id>> : t \in {t \in jobs : t.input \in Keyed}}
      BY <1>11 DEF CallsSound
    <2>3. i \in Keyed => \A t \in jobs : t.input # i
      <3> SUFFICES ASSUME i \in Keyed, NEW t \in jobs, t.input = i PROVE FALSE
        OBVIOUS
      <3>1. <<t.input, t.id>> \in p.byKey
        BY <2>2
      <3>2. <<t.input, t.id>>[1] = i
        OBVIOUS
      <3> QED  BY <3>1, <3>2 DEF Shared
    <2>4. keys = {<<t.input, t.id>> : t \in {t \in jobs \cup {new} : t.input \in Keyed}}
      <3>1. CASE i \in Keyed
        <4>1. keys = {k \in p.byKey : k[1] # i} \cup {<<i, id>>}
          BY <3>1
        <4>2. \A k \in p.byKey : k[1] # i
          BY <2>2, <2>3, <3>1
        <4>3. keys = p.byKey \cup {<<i, id>>}
          BY <4>1, <4>2
        <4> HIDE DEF keys
        <4> QED  BY <1>6, <2>2, <3>1, <4>3
      <3>2. CASE i \notin Keyed
        BY <1>6, <2>2, <3>2
      <3> QED  BY <3>1, <3>2
    <2>5. \A t, v \in jobs \cup {new} : t.input = v.input /\ t.input \in Keyed => t = v
      BY <1>6, <1>11, <2>3 DEF CallsSound
    <2>6. \A e \in p.cache : e.key \in Input \ Bad /\ e.value = e.key
      BY <1>11 DEF CallsSound
    <2> HIDE DEF keys
    <2> QED  BY <1>3, <1>13, <2>1, <2>4, <2>5, <2>6 DEF CallsSound
  <1>15. JobsSound(queued.queue, queued.active, queued.sent, queued.nextId)
    <2>1. \A t \in jobs \cup {new} : t.id \in 1 .. id
      BY <1>5, <1>6
    <2>2. \A t, v \in jobs \cup {new} : t.id = v.id => t = v
      BY <1>5, <1>6, <1>7
    <2>3. \A k, l \in DOMAIN queued.queue : queued.queue[k] = queued.queue[l] => k = l
      <3>1. \A k \in DOMAIN p.queue : p.queue[k] # new
        BY <1>7, <1>9 DEF jobs
      <3> QED  BY <1>5, <1>8, <3>1
    <2>4. \A k \in DOMAIN queued.queue : queued.queue[k] \notin p.active
      <3>1. new \notin p.active
        BY <1>7 DEF jobs
      <3> QED  BY <1>5, <1>8, <3>1
    <2>5. \A m \in p.sent : m.task # None =>
             /\ m.task \in Task /\ m.task.id \in 1 .. id
             /\ \A t \in jobs \cup {new} : t.id = m.task.id => t = m.task /\ t \in p.active
      <3> SUFFICES ASSUME NEW m \in p.sent, m.task # None
                   PROVE  /\ m.task \in Task /\ m.task.id \in 1 .. id
                          /\ \A t \in jobs \cup {new} : t.id = m.task.id =>
                               t = m.task /\ t \in p.active
        OBVIOUS
      <3>1. m.task \in Task /\ m.task.id \in 1 .. p.nextId
        BY <1>5
      <3>2. m.task.id \in 1 .. id /\ m.task.id # new.id
        BY <1>6, <3>1
      <3> QED  BY <1>5, <3>1, <3>2
    <2> QED  BY <1>3, <1>5, <1>6, <1>8, <1>10, <2>1, <2>2, <2>3, <2>4, <2>5 DEF JobsSound
  <1>16. Books(queued)
    BY <1>1, <1>3, <1>10, <1>14, <1>15 DEF Books
  <1>17. \A v : v.calls = queued.calls => Made(p, v, c, i)
    BY <1>3, <1>12, <1>13 DEF Made
  <1>18. CASE p.initialized = "false"
    <2>1. PoolInv(Boot(queued, made)) /\ Boot(queued, made).calls = queued.calls
      BY <1>3, <1>16, <1>18, BootKeeps
    <2>2. Boot(queued, made).initialized = "booting"
      BY <1>3, <1>16 DEF Boot, Books
    <2>3. u = Boot(queued, made)
      BY <1>4, <1>18, <2>2 DEF DrainQueue
    <2> QED  BY <1>17, <2>1, <2>3 DEF u
  <1>19. CASE p.initialized # "false"
    <2>1. u = DrainQueue(queued)
      BY <1>4, <1>19
    <2>2. PoolInv(u) /\ u.calls = queued.calls
      BY <1>3, <1>16, <2>1, DrainKeeps
    <2> QED  BY <1>17, <2>2 DEF u
  <1> QED  BY <1>18, <1>19

\* The cache, a job of the same key, the main thread, a new task: whichever it is, the
\* call waits for its own input or has its outcome.
LEMMA SubmitKeeps ==
    ASSUME NEW p, PoolInv(p), NEW c \in Call, NEW i \in Input, NEW made \in 0 .. PoolSize
    PROVE  PoolInv(Submit(p, c, i, made)) /\ Made(p, Submit(p, c, i, made), c, i)
  <1> DEFINE u == Submit(p, c, i, made)
             jobs == p.active \cup ToSet(p.queue)
  <1>1. /\ Books(p) /\ DOMAIN p = Fields /\ p.failed \in BOOLEAN
        /\ CallsSound(p.calls, p.byKey, p.cache, jobs)
        /\ jobs \subseteq Task
    <2>1. p.queue \in Seq(Task) /\ \A k \in DOMAIN p.queue : p.queue[k] \in Task
      BY DEF PoolInv, Books, JobsSound
    <2> QED  BY <2>1 DEF PoolInv, Books, LifeSound, JobsSound, ToSet
  <1>2. /\ \A e \in p.cache : e.key \in Input \ Bad /\ e.value = e.key
        /\ p.byKey = {<<t.input, t.id>> : t \in {t \in jobs : t.input \in Keyed}}
    BY <1>1 DEF CallsSound
  <1>3. ASSUME i \in Input \ Bad
        PROVE  \A e \in LruSet(p.cache, i, i) : e.key \in Input \ Bad /\ e.value = e.key
    <2> DEFINE fresh == {[key |-> i, value |-> i, id |-> 0]}
    <2>1. \A e \in fresh : e.key \in Input \ Bad /\ e.value = e.key
      BY <1>3
    <2>2. LruSet(p.cache, i, i) = Remembering(p.cache, fresh)
      BY DEF LruSet
    <2> HIDE DEF fresh
    <2>3. \A e \in Remembering(p.cache, fresh) : e.key \in Input \ Bad /\ e.value = e.key
      BY <1>2, <2>1, RememberingKeeps
    <2> QED  BY <2>2, <2>3
  <1>4. ASSUME i \in Keyed, Cached(p, i) # {} PROVE PoolInv(u) /\ Made(p, u, c, i)
    <2> DEFINE hit == (CHOOSE e \in Cached(p, i) : TRUE).value
               touched == [p EXCEPT !.cache = LruSet(@, i, hit)]
               new == [status |-> "done", input |-> i, value |-> i, task |-> 0]
    <2>1. \A e \in Cached(p, i) : e.value = i /\ i \in Input \ Bad
      BY <1>2 DEF Cached
    <2>2. hit = i /\ i \in Input \ Bad
      BY <1>4, <2>1
    <2>3. u = SetCall(touched, c, i, "done", hit, 0)
      BY <1>4 DEF Submit
    <2> HIDE DEF hit
    <2>4. /\ DOMAIN touched = Fields /\ touched.calls = p.calls
          /\ touched.queue = p.queue /\ touched.active = p.active
          /\ touched.handshakes = p.handshakes /\ touched.byKey = p.byKey
          /\ touched.cache = LruSet(p.cache, i, i) /\ touched.workers = p.workers
          /\ touched.initialized = p.initialized /\ touched.failed = p.failed
          /\ touched.generation = p.generation /\ touched.nextId = p.nextId
          /\ touched.boots = p.boots /\ touched.sent = p.sent /\ touched.up = p.up
          /\ touched.gone = p.gone
      BY <1>1, <2>2
    <2> HIDE DEF touched
    <2>5. /\ DOMAIN u = Fields /\ u.calls = [p.calls EXCEPT ![c] = new]
          /\ u.queue = p.queue /\ u.active = p.active /\ u.handshakes = p.handshakes
          /\ u.byKey = p.byKey /\ u.cache = LruSet(p.cache, i, i)
          /\ u.workers = p.workers /\ u.initialized = p.initialized
          /\ u.failed = p.failed /\ u.generation = p.generation /\ u.nextId = p.nextId
          /\ u.boots = p.boots /\ u.sent = p.sent /\ u.up = p.up /\ u.gone = p.gone
      BY <2>2, <2>3, <2>4 DEF SetCall
    <2>6. /\ new \in CallState /\ new.input = i
          /\ new.status = Fallback(i).status /\ new.value = Fallback(i).value
      BY <2>2 DEF CallState, Fallback
    <2> HIDE DEF u, new
    <2>7. CallGoes(p, u, c, i, new)
      BY <1>3, <2>2, <2>4, <2>5, <2>6 DEF CallGoes
    <2> QED  BY <2>7, CallKeeps
  <1>5. ASSUME ~(i \in Keyed /\ Cached(p, i) # {}), i \in Keyed, Shared(p, i) # {}
        PROVE  PoolInv(u) /\ Made(p, u, c, i)
    <2> DEFINE id == CHOOSE k \in Shared(p, i) : TRUE
               new == [status |-> "pending", input |-> i, value |-> None, task |-> id]
    <2>1. id \in Shared(p, i)
      BY <1>5
    <2>2. u = SetCall(p, c, i, "pending", None, id)
      BY <1>5 DEF Submit
    <2> HIDE DEF id
    <2>3. PICK k \in p.byKey : k[1] = i /\ k[2] = id
      BY <2>1 DEF Shared
    <2>4. PICK t \in jobs : t.input \in Keyed /\ k = <<t.input, t.id>>
      BY <1>2
    <2>5. t \in Task /\ t.input = i /\ t.id = id
      BY <1>1, <2>3, <2>4
    <2>6. t = [id |-> id, input |-> i] /\ id \in Nat
      BY <2>5 DEF Task
    <2>7. /\ DOMAIN u = Fields /\ u.calls = [p.calls EXCEPT ![c] = new]
          /\ u.queue = p.queue /\ u.active = p.active /\ u.handshakes = p.handshakes
          /\ u.byKey = p.byKey /\ u.cache = p.cache /\ u.workers = p.workers
          /\ u.initialized = p.initialized /\ u.failed = p.failed
          /\ u.generation = p.generation /\ u.nextId = p.nextId /\ u.boots = p.boots
          /\ u.sent = p.sent /\ u.up = p.up /\ u.gone = p.gone
      BY <1>1, <2>2 DEF SetCall
    <2>8. /\ new \in CallState /\ new.input = i /\ new.status = "pending" /\ new.value = None
          /\ [id |-> new.task, input |-> i] \in jobs
      BY <2>4, <2>6 DEF CallState
    <2> HIDE DEF u, new
    <2>9. CallGoes(p, u, c, i, new)
      BY <1>2, <2>7, <2>8 DEF CallGoes
    <2> QED  BY <2>9, CallKeeps
  <1>6. ASSUME ~(i \in Keyed /\ Cached(p, i) # {}), ~(i \in Keyed /\ Shared(p, i) # {}), p.failed
        PROVE  PoolInv(u) /\ Made(p, u, c, i)
    <2> DEFINE fallback == SetCall(p, c, i, Fallback(i).status, Fallback(i).value, 0)
               new == [status |-> Fallback(i).status, input |-> i,
                       value |-> Fallback(i).value, task |-> 0]
    <2>1. u = IF i \in Keyed \ Bad THEN [fallback EXCEPT !.cache = LruSet(@, i, i)] ELSE fallback
      BY <1>5, <1>6 DEF Submit
    <2>2. /\ DOMAIN fallback = Fields /\ fallback.calls = [p.calls EXCEPT ![c] = new]
          /\ fallback.queue = p.queue /\ fallback.active = p.active
          /\ fallback.handshakes = p.handshakes /\ fallback.byKey = p.byKey
          /\ fallback.cache = p.cache /\ fallback.workers = p.workers
          /\ fallback.initialized = p.initialized /\ fallback.failed = p.failed
          /\ fallback.generation = p.generation /\ fallback.nextId = p.nextId
          /\ fallback.boots = p.boots /\ fallback.sent = p.sent /\ fallback.up = p.up
          /\ fallback.gone = p.gone
      BY <1>1 DEF SetCall
    <2> HIDE DEF fallback
    <2>3. new \in CallState /\ new.input = i
          /\ new.status = Fallback(i).status /\ new.value = Fallback(i).value
      BY DEF CallState, Fallback
    <2> HIDE DEF new, u
    <2>4. \A e \in u.cache : e.key \in Input \ Bad /\ e.value = e.key
      BY <1>2, <1>3, <2>1, <2>2
    <2>5. /\ DOMAIN u = Fields /\ u.calls = [p.calls EXCEPT ![c] = new]
          /\ u.queue = p.queue /\ u.active = p.active /\ u.handshakes = p.handshakes
          /\ u.byKey = p.byKey /\ u.workers = p.workers /\ u.initialized = p.initialized
          /\ u.failed = p.failed /\ u.generation = p.generation /\ u.nextId = p.nextId
          /\ u.boots = p.boots /\ u.sent = p.sent /\ u.up = p.up /\ u.gone = p.gone
      BY <2>1, <2>2
    <2>6. CallGoes(p, u, c, i, new)
      BY <2>3, <2>4, <2>5 DEF CallGoes
    <2> QED  BY <2>6, CallKeeps
  <1>7. ASSUME ~(i \in Keyed /\ Cached(p, i) # {}), ~(i \in Keyed /\ Shared(p, i) # {}), ~p.failed
        PROVE  PoolInv(u) /\ Made(p, u, c, i)
    <2>1. u = Enqueue(p, c, i, made)
      BY <1>7 DEF Submit
    <2>2. i \in Keyed => Shared(p, i) = {}
      BY <1>7
    <2> HIDE DEF u
    <2> QED  BY <1>7, <2>1, <2>2, EnqueueKeeps
  <1> HIDE DEF u
  <1>8. PoolInv(u) /\ Made(p, u, c, i)
    BY <1>4, <1>5, <1>6, <1>7
  <1> QED  BY <1>8 DEF u

-----------------------------------------------------------------------------
(* Messages and errors of the workers *)

\* No boot is waiting to go on: there is none that was outdated.
LEMMA WorkersTurn ==
    ASSUME NEW p, Books(p), \A g \in Generation : ~BootSettled(p, g)
    PROVE  \A g \in Generation : g # p.generation => p.boots[g] # "waiting"
  <1> SUFFICES ASSUME NEW g \in Generation, g # p.generation, p.boots[g] = "waiting" PROVE FALSE
    OBVIOUS
  <1>1. \A w \in p.handshakes : w[1] = p.generation
    BY DEF Books, Staffed
  <1>2. OpenHandshakes(p, g) = {}
    BY <1>1 DEF OpenHandshakes
  <1> QED  BY <1>2 DEF BootSettled, Fulfilled

LEMMA HandshakeKeeps ==
    ASSUME NEW p, PoolInv(p), \A g \in Generation : ~BootSettled(p, g), NEW m \in p.sent
    PROVE  PoolInv(HandleHandshake(p, m)) /\ Answers(p, HandleHandshake(p, m))
  <1>1. CASE m.worker \notin p.handshakes
    <2>1. HandleHandshake(p, m) = p
      BY <1>1 DEF HandleHandshake
    <2> QED  BY <2>1 DEF Answers
  <1>2. CASE m.worker \in p.handshakes
    <2> DEFINE w == p.workers
               staff == [i \in DOMAIN w |->
                           IF w[i].worker = m.worker THEN [w[i] EXCEPT !.ready = TRUE] ELSE w[i]]
               u == [[p EXCEPT !.handshakes = @ \ {m.worker}] EXCEPT !.workers =
                       [i \in DOMAIN @ |-> IF @[i].worker = m.worker
                                           THEN [@[i] EXCEPT !.ready = TRUE] ELSE @[i]]]
    <2>1. HandleHandshake(p, m) = DrainQueue(u)
      BY <1>2 DEF HandleHandshake, SetWorker
    <2>2. Books(p) /\ DOMAIN p = Fields
      BY DEF PoolInv, Books
    <2>3. /\ DOMAIN u = Fields /\ u.calls = p.calls /\ u.queue = p.queue
          /\ u.active = p.active /\ u.handshakes = p.handshakes \ {m.worker}
          /\ u.byKey = p.byKey /\ u.cache = p.cache /\ u.workers = staff
          /\ u.initialized = p.initialized /\ u.failed = p.failed
          /\ u.generation = p.generation /\ u.nextId = p.nextId /\ u.boots = p.boots
          /\ u.sent = p.sent /\ u.up = p.up /\ u.gone = p.gone
      BY <2>2
    <2> HIDE DEF u
    <2>4. w \in Seq(WorkerState) /\ Len(w) \in Nat /\ DOMAIN w = 1 .. Len(w)
          /\ \A i \in DOMAIN w : w[i] \in WorkerState
      BY <2>2 DEF Books, WorkersSound
    <2>5. DOMAIN staff = DOMAIN w
          /\ \A i \in DOMAIN w :
               /\ staff[i] \in WorkerState
               /\ staff[i].worker = w[i].worker /\ staff[i].request = w[i].request
               /\ w[i].ready => staff[i].ready
               /\ w[i].worker = m.worker => staff[i].ready
      BY <2>4 DEF WorkerState
    <2>6. staff \in Seq(WorkerState)
      <3>1. staff = [i \in DOMAIN w |-> staff[i]]
        OBVIOUS
      <3> HIDE DEF staff
      <3>2. staff \in [1 .. Len(w) -> WorkerState]
        BY <2>4, <2>5, <3>1
      <3> QED  BY <2>4, <3>2
    <2> HIDE DEF staff
    <2>7. CallsSound(u.calls, u.byKey, u.cache, u.active \cup ToSet(u.queue))
          /\ JobsSound(u.queue, u.active, u.sent, u.nextId)
          /\ LifeSound(u.initialized, u.failed, u.generation, u.boots)
      BY <2>2, <2>3 DEF Books
    <2>8. WorkersSound(u.workers, u.active, u.sent)
      BY <2>2, <2>3, <2>5, <2>6 DEF Books, WorkersSound
    <2>9. Staffed(u.workers, u.handshakes, u.active, u.initialized, u.failed, u.generation)
      <3>1. Staffed(p.workers, p.handshakes, p.active, p.initialized, p.failed, p.generation)
        BY <2>2 DEF Books
      <3>2. p.initialized # "false"
        BY <1>2, <3>1 DEF Staffed
      <3>3. \A i \in DOMAIN w : staff[i].ready \/ staff[i].worker \in p.handshakes \ {m.worker}
        BY <2>5, <3>1 DEF Staffed
      <3>4. p.initialized = "true" => \A i \in DOMAIN w : staff[i].ready
        BY <2>5, <3>1 DEF Staffed
      <3> QED  BY <2>3, <2>5, <3>1, <3>2, <3>3, <3>4 DEF Staffed
    <2>10. Outdated(u.workers, u.active, u.generation, u.boots)
      BY <2>2, <2>3, WorkersTurn DEF Outdated
    <2>11. Books(u)
      BY <2>3, <2>7, <2>8, <2>9, <2>10 DEF Books
    <2>12. PoolInv(DrainQueue(u)) /\ Answers(u, DrainQueue(u))
      BY <2>11, DrainKeeps
    <2>13. Answers(p, DrainQueue(u))
      BY <2>3, <2>12 DEF Answers
    <2> QED  BY <2>1, <2>12, <2>13
  <1> QED  BY <1>1, <1>2

\* A response settles the job it was sent for, once, and frees the worker that did it; one
\* to a job the pool has given up on changes nothing.
LEMMA ResponseKeeps ==
    ASSUME NEW p, PoolInv(p), NEW m \in p.sent, m.task # None, NEW ok \in BOOLEAN,
           ok => m.task.input \notin Bad
    PROVE  PoolInv(HandleResponse(p, m, ok)) /\ Answers(p, HandleResponse(p, m, ok))
  <1>1. CASE Answered(p, m) = {}
    <2>1. HandleResponse(p, m, ok) = p
      BY <1>1 DEF HandleResponse
    <2> QED  BY <2>1 DEF Answers
  <1>2. ASSUME Answered(p, m) # {}
        PROVE  PoolInv(HandleResponse(p, m, ok)) /\ Answers(p, HandleResponse(p, m, ok))
    <2> DEFINE w == p.workers
               task == m.task
               jobs == p.active \cup ToSet(p.queue)
               staff == [i \in DOMAIN w |->
                           IF w[i].worker = m.worker
                           THEN IF w[i].request = task.id THEN [w[i] EXCEPT !.request = None]
                                                          ELSE w[i]
                           ELSE w[i]]
               freed == Freed(p, m)
               results == IF ok THEN [t \in Answered(p, m) |->
                                        [status |-> "done", value |-> task.input]]
                                ELSE [t \in Answered(p, m) |-> Fallback(t.input)]
               u == Settled(freed, Answered(p, m), m, ok)
    <2>1. HandleResponse(p, m, ok) = DrainQueue(u)
      BY <1>2 DEF HandleResponse
    <2>2. Books(p) /\ DOMAIN p = Fields
      BY DEF PoolInv, Books
    <2>3. /\ jobs \in SUBSET Task
          /\ \A t, v \in jobs : t.id = v.id => t = v
          /\ CallsSound(p.calls, p.byKey, p.cache, jobs)
          /\ \A t \in jobs : t.id = task.id => t = task
          /\ \A t \in ToSet(p.queue) : t \notin p.active
      <3>1. p.queue \in Seq(Task) /\ \A k \in DOMAIN p.queue : p.queue[k] \in Task
        BY <2>2 DEF Books, JobsSound
      <3> QED  BY <2>2, <3>1 DEF Books, JobsSound, ToSet
    <2>4. Answered(p, m) = {task} /\ task \in p.active /\ task \in Task /\ task \in jobs
      BY <1>2, <2>3 DEF Answered
    <2>5. /\ DOMAIN freed = Fields /\ freed.calls = p.calls /\ freed.queue = p.queue
          /\ freed.active = p.active \ {task} /\ freed.handshakes = p.handshakes
          /\ freed.byKey = p.byKey /\ freed.cache = p.cache /\ freed.workers = staff
          /\ freed.initialized = p.initialized /\ freed.failed = p.failed
          /\ freed.generation = p.generation /\ freed.nextId = p.nextId
          /\ freed.boots = p.boots /\ freed.sent = p.sent /\ freed.up = p.up
          /\ freed.gone = p.gone
      BY <2>2, <2>4 DEF Freed, SetWorker
    <2> HIDE DEF freed
    <2>6. /\ DOMAIN results = {task}
          /\ results[task] = IF ok THEN [status |-> "done", value |-> task.input]
                                   ELSE Fallback(task.input)
      BY <2>4
    <2>7. u = Settle(freed, results)
      BY DEF Settled, ResolveViaFallback
    <2> HIDE DEF results, u, jobs
    <2>8. Outcomes(results) /\ Ends(results)
      BY <2>6 DEF Outcomes, Ends, Outcome, Fallback
    <2>9. Settles(freed, jobs, results, u)
      BY <2>3, <2>4, <2>5, <2>6, <2>7, <2>8 DEF Settles
    <2>10. SettledOnly(freed, jobs, results, u)
      BY <2>9, SettleKeeps
    <2>11. /\ DOMAIN u = Fields /\ u.queue = p.queue /\ u.active = p.active \ {task}
           /\ u.handshakes = p.handshakes /\ u.workers = staff
           /\ u.initialized = p.initialized /\ u.failed = p.failed
           /\ u.generation = p.generation /\ u.nextId = p.nextId /\ u.boots = p.boots
           /\ u.sent = p.sent /\ u.up = p.up /\ u.gone = p.gone
      BY <2>5, <2>10 DEF SettledOnly
    <2>12. w \in Seq(WorkerState) /\ Len(w) \in Nat /\ DOMAIN w = 1 .. Len(w)
           /\ \A i \in DOMAIN w : w[i] \in WorkerState
      BY <2>2 DEF Books, WorkersSound
    <2>13. PICK j \in DOMAIN w : w[j].request = task.id /\ w[j].worker = m.worker
      BY <2>2, <2>4 DEF Books, WorkersSound
    <2>14. /\ \A i \in DOMAIN w : w[i].request # None /\ w[i].request = task.id => i = j
           /\ task.id # None
      BY <2>2, <2>4, <2>13, PoolAssumption DEF Books, WorkersSound, Task
    <2>15. DOMAIN staff = DOMAIN w
           /\ \A i \in DOMAIN w :
                /\ staff[i] \in WorkerState
                /\ staff[i].worker = w[i].worker /\ staff[i].ready = w[i].ready
                /\ staff[i].request = IF i = j THEN None ELSE w[i].request
      BY <2>12, <2>13, <2>14 DEF WorkerState
    <2>16. staff \in Seq(WorkerState)
      <3>1. staff = [i \in DOMAIN w |-> staff[i]]
        OBVIOUS
      <3> HIDE DEF staff
      <3>2. staff \in [1 .. Len(w) -> WorkerState]
        BY <2>12, <2>15, <3>1
      <3> QED  BY <2>12, <3>2
    <2> HIDE DEF staff, task
    <2>17. CallsSound(u.calls, u.byKey, u.cache, u.active \cup ToSet(u.queue))
      <3>1. jobs \ {task} = (p.active \ {task}) \cup ToSet(p.queue)
        BY <2>3, <2>4 DEF jobs
      <3> QED  BY <2>6, <2>10, <2>11, <3>1 DEF SettledOnly
    <2>18. JobsSound(u.queue, u.active, u.sent, u.nextId)
      BY <2>2, <2>3, <2>4, <2>11 DEF Books, JobsSound
    <2>19. WorkersSound(u.workers, u.active, u.sent)
      <3>1. /\ \A i \in DOMAIN w : w[i].request # None => \E t \in p.active : t.id = w[i].request
            /\ \A t \in p.active : \E i \in DOMAIN w : w[i].request = t.id
            /\ \A i, k \in DOMAIN w : w[i].request # None /\ w[i].request = w[k].request => i = k
            /\ \A n \in p.sent, t \in p.active : n.task # None /\ n.task.id = t.id =>
                 \E i \in DOMAIN w : w[i].request = t.id /\ w[i].worker = n.worker
        BY <2>2 DEF Books, WorkersSound
      <3>2. \A t \in p.active \ {task} : t.id # task.id
        BY <2>3, <2>4 DEF jobs
      <3>3. \A i \in DOMAIN staff : staff[i].request # None =>
               \E t \in p.active \ {task} : t.id = staff[i].request
        <4> SUFFICES ASSUME NEW i \in DOMAIN staff, staff[i].request # None
                     PROVE  \E t \in p.active \ {task} : t.id = staff[i].request
          OBVIOUS
        <4>1. i \in DOMAIN w /\ i # j /\ staff[i].request = w[i].request
          BY <2>15
        <4>2. PICK t \in p.active : t.id = w[i].request
          BY <3>1, <4>1
        <4>3. t # task
          BY <2>14, <4>1, <4>2
        <4> QED  BY <4>1, <4>2, <4>3
      <3>4. \A t \in p.active \ {task} : \E i \in DOMAIN staff : staff[i].request = t.id
        BY <2>13, <2>15, <3>1, <3>2
      <3>5. \A n \in p.sent, t \in p.active \ {task} : n.task # None /\ n.task.id = t.id =>
              \E i \in DOMAIN staff : staff[i].request = t.id /\ staff[i].worker = n.worker
        BY <2>13, <2>15, <3>1, <3>2
      <3>6. \A i, k \in DOMAIN staff :
              staff[i].request # None /\ staff[i].request = staff[k].request => i = k
        BY <2>15, <3>1
      <3> QED  BY <2>11, <2>16, <3>3, <3>4, <3>5, <3>6 DEF WorkersSound
    <2>20. /\ LifeSound(u.initialized, u.failed, u.generation, u.boots)
           /\ Staffed(u.workers, u.handshakes, u.active, u.initialized, u.failed, u.generation)
      BY <2>2, <2>4, <2>11, <2>15 DEF Books, Staffed
    <2>21. Outdated(u.workers, u.active, u.generation, u.boots)
      BY <2>2, <2>11, <2>15 DEF Books, Outdated
    <2>22. Books(u)
      BY <2>11, <2>17, <2>18, <2>19, <2>20, <2>21 DEF Books
    <2>23. PoolInv(DrainQueue(u)) /\ Answers(u, DrainQueue(u))
      BY <2>22, DrainKeeps
    <2>24. Answers(p, u)
      <3>1. freed.calls \in [Call -> CallState]
        BY <2>3, <2>5 DEF CallsSound
      <3>2. Answers(freed, u)
        BY <2>8, <2>10, <3>1, OutcomesAnswer DEF SettledOnly
      <3> QED  BY <2>5, <3>2 DEF Answers
    <2>25. Answers(p, DrainQueue(u))
      BY <2>23, <2>24, AnswersCompose
    <2> QED  BY <2>1, <2>23, <2>25
  <1> QED  BY <1>1, <1>2

\* The first error has the main thread do what the workers were doing, and the queue.
LEMMA FailureKeeps ==
    ASSUME NEW p, PoolInv(p), \A g \in Generation : ~BootSettled(p, g)
    PROVE  PoolInv(HandleWorkerFailure(p)) /\ Answers(p, HandleWorkerFailure(p))
  <1>1. CASE p.failed
    <2>1. HandleWorkerFailure(p) = p
      BY <1>1 DEF HandleWorkerFailure
    <2> QED  BY <2>1 DEF Answers
  <1>2. ASSUME ~p.failed
        PROVE  PoolInv(HandleWorkerFailure(p)) /\ Answers(p, HandleWorkerFailure(p))
    <2> DEFINE w == p.workers
               jobs == p.active \cup ToSet(p.queue)
               staff == [i \in DOMAIN w |-> [w[i] EXCEPT !.ready = TRUE, !.request = None]]
               idle == AllIdle(p)
               broken == [idle EXCEPT !.failed = TRUE, !.active = {}, !.handshakes = {}]
               results == [t \in p.active |-> Fallback(t.input)]
               u == Settle(broken, results)
    <2>1. HandleWorkerFailure(p) = DrainQueue(u)
      BY <1>2 DEF HandleWorkerFailure, ResolveViaFallback
    <2>2. Books(p) /\ DOMAIN p = Fields
      BY DEF PoolInv, Books
    <2>3. /\ jobs \in SUBSET Task
          /\ \A t, v \in jobs : t.id = v.id => t = v
          /\ CallsSound(p.calls, p.byKey, p.cache, jobs)
          /\ p.active \subseteq jobs /\ jobs \ p.active = ToSet(p.queue)
      <3>1. p.queue \in Seq(Task) /\ \A k \in DOMAIN p.queue : p.queue[k] \in Task
        BY <2>2 DEF Books, JobsSound
      <3>2. \A t \in ToSet(p.queue) : t \notin p.active
        BY <2>2 DEF Books, JobsSound, ToSet
      <3> QED  BY <2>2, <3>1, <3>2 DEF Books, JobsSound, ToSet
    <2>4. /\ DOMAIN idle = Fields /\ idle.calls = p.calls /\ idle.queue = p.queue
          /\ idle.active = p.active /\ idle.handshakes = p.handshakes
          /\ idle.byKey = p.byKey /\ idle.cache = p.cache /\ idle.workers = staff
          /\ idle.initialized = p.initialized /\ idle.failed = p.failed
          /\ idle.generation = p.generation /\ idle.nextId = p.nextId
          /\ idle.boots = p.boots /\ idle.sent = p.sent /\ idle.up = p.up
          /\ idle.gone = p.gone
      BY <2>2 DEF AllIdle
    <2> HIDE DEF idle
    <2>5. /\ DOMAIN broken = Fields /\ broken.calls = p.calls /\ broken.queue = p.queue
          /\ broken.active = {} /\ broken.handshakes = {} /\ broken.byKey = p.byKey
          /\ broken.cache = p.cache /\ broken.workers = staff
          /\ broken.initialized = p.initialized /\ broken.failed = TRUE
          /\ broken.generation = p.generation /\ broken.nextId = p.nextId
          /\ broken.boots = p.boots /\ broken.sent = p.sent /\ broken.up = p.up
          /\ broken.gone = p.gone
      BY <2>4
    <2>6. DOMAIN results = p.active /\ \A t \in p.active : results[t] = Fallback(t.input)
      OBVIOUS
    <2> HIDE DEF broken, results, u, jobs
    <2>7. Outcomes(results) /\ Ends(results)
      BY <2>6 DEF Outcomes, Ends, Outcome
    <2>8. Settles(broken, jobs, results, u)
      BY <2>3, <2>5, <2>6, <2>7 DEF Settles, u
    <2>9. SettledOnly(broken, jobs, results, u)
      BY <2>8, SettleKeeps
    <2>10. /\ DOMAIN u = Fields /\ u.queue = p.queue /\ u.active = {}
           /\ u.handshakes = {} /\ u.workers = staff /\ u.initialized = p.initialized
           /\ u.failed = TRUE /\ u.generation = p.generation /\ u.nextId = p.nextId
           /\ u.boots = p.boots /\ u.sent = p.sent /\ u.up = p.up /\ u.gone = p.gone
      BY <2>5, <2>9 DEF SettledOnly
    <2>11. w \in Seq(WorkerState) /\ Len(w) \in Nat /\ DOMAIN w = 1 .. Len(w)
           /\ \A i \in DOMAIN w : w[i] \in WorkerState
      BY <2>2 DEF Books, WorkersSound
    <2>12. DOMAIN staff = DOMAIN w
           /\ \A i \in DOMAIN w :
                /\ staff[i] \in WorkerState /\ staff[i].worker = w[i].worker
                /\ staff[i].ready /\ staff[i].request = None
      BY <2>11 DEF WorkerState
    <2>13. staff \in Seq(WorkerState) /\ Len(staff) = Len(w)
      <3>1. staff = [i \in DOMAIN w |-> staff[i]]
        OBVIOUS
      <3> HIDE DEF staff
      <3>2. staff \in [1 .. Len(w) -> WorkerState]
        BY <2>11, <2>12, <3>1
      <3> QED  BY <2>11, <2>12, <3>2
    <2> HIDE DEF staff
    <2>14. CallsSound(u.calls, u.byKey, u.cache, u.active \cup ToSet(u.queue))
      BY <2>3, <2>6, <2>9, <2>10 DEF SettledOnly
    <2>15. JobsSound(u.queue, u.active, u.sent, u.nextId)
      <3>1. \A t \in ToSet(p.queue) : t \notin p.active
        BY <2>3 DEF jobs
      <3>2. \A n \in p.sent, t \in ToSet(p.queue) : n.task # None => t.id # n.task.id
        BY <2>2, <3>1 DEF Books, JobsSound
      <3> QED  BY <2>2, <2>10, <3>1, <3>2 DEF Books, JobsSound
    <2>16. WorkersSound(u.workers, u.active, u.sent)
      BY <2>10, <2>12, <2>13 DEF WorkersSound
    <2>17. LifeSound(u.initialized, u.failed, u.generation, u.boots)
      <3>1. LifeSound(p.initialized, p.failed, p.generation, p.boots)
        BY <2>2 DEF Books
      <3>2. LifeSound(p.initialized, TRUE, p.generation, p.boots)
        BY <3>1 DEF LifeSound
      <3> QED  BY <2>10, <3>2
    <2>18. Staffed(u.workers, u.handshakes, u.active, u.initialized, u.failed, u.generation)
      <3>1. Staffed(p.workers, p.handshakes, p.active, p.initialized, p.failed, p.generation)
        BY <2>2 DEF Books
      <3>2. w = <<>> => staff = <<>>
        BY <2>13, EmptySeq
      <3> QED  BY <2>10, <2>12, <3>1, <3>2 DEF Staffed
    <2>19. Outdated(u.workers, u.active, u.generation, u.boots)
      BY <2>2, <2>10, WorkersTurn DEF Outdated
    <2>20. Books(u)
      BY <2>10, <2>14, <2>15, <2>16, <2>17, <2>18, <2>19 DEF Books
    <2>21. PoolInv(DrainQueue(u)) /\ Answers(u, DrainQueue(u))
      BY <2>20, DrainKeeps
    <2>22. Answers(p, u)
      <3>1. broken.calls \in [Call -> CallState]
        BY <2>3, <2>5 DEF CallsSound
      <3>2. Answers(broken, u)
        BY <2>7, <2>9, <3>1, OutcomesAnswer DEF SettledOnly
      <3> QED  BY <2>5, <3>2 DEF Answers
    <2>23. Answers(p, DrainQueue(u))
      BY <2>21, <2>22, AnswersCompose
    <2> QED  BY <2>1, <2>21, <2>23
  <1> QED  BY <1>1, <1>2

-----------------------------------------------------------------------------
(* The theorems *)

LEMMA InitSound == Init => PoolInv(pool) /\ pool.calls = [c \in Call |-> NoCall]
  <1> SUFFICES ASSUME NEW made \in 0 .. PoolSize, pool = Boot(Fresh, made)
               PROVE  PoolInv(pool) /\ pool.calls = [c \in Call |-> NoCall]
    BY DEF Init
  <1>1. PoolInv(pool) /\ pool.calls = Fresh.calls
    BY FreshSound, BootKeeps
  <1> QED  BY <1>1 DEF Fresh

\* A message or an error that has been heard is not heard again, and nothing else changes.
LEMMA HeardKeeps ==
    ASSUME NEW p, NEW u, PoolInv(p), DOMAIN u = Fields,
           u.calls = p.calls, u.queue = p.queue, u.active = p.active,
           u.handshakes = p.handshakes, u.byKey = p.byKey, u.cache = p.cache,
           u.workers = p.workers, u.initialized = p.initialized, u.failed = p.failed,
           u.generation = p.generation, u.nextId = p.nextId, u.boots = p.boots,
           u.sent \subseteq p.sent
    PROVE  PoolInv(u)
  <1>1. Books(p) /\ SameJobs(p, u)
    BY DEF PoolInv, SameJobs
  <1>2. /\ CallsSound(u.calls, u.byKey, u.cache, u.active \cup ToSet(u.queue))
        /\ JobsSound(u.queue, u.active, u.sent, u.nextId)
        /\ WorkersSound(u.workers, u.active, u.sent)
    BY <1>1, SameJobsKeep
  <1> QED  BY <1>1, <1>2 DEF PoolInv, Books

\* What a turn does to the calls: it makes one, answers some, or cancels all that wait.
LEMMA TurnKeeps ==
    ASSUME PoolInv(pool), Next
    PROVE  /\ PoolInv(pool')
           /\ \/ \E c \in Call, i \in Input : pool.calls[c] = NoCall /\ Made(pool, pool', c, i)
              \/ Answers(pool, pool')
              \/ Canceling(pool, pool')
  <1>1. ASSUME NEW c \in Call, NEW i \in Input, SubmitCall(c, i)
        PROVE  PoolInv(pool') /\ pool.calls[c] = NoCall /\ Made(pool, pool', c, i)
    <2>1. 0 \in 0 .. PoolSize
      BY PoolAssumption
    <2>2. PICK made \in 0 .. PoolSize : pool' = Submit(pool, c, i, made)
      BY <1>1, <2>1 DEF SubmitCall
    <2> QED  BY <1>1, <2>2, SubmitKeeps DEF SubmitCall
  <1>2. ASSUME Initialize PROVE PoolInv(pool') /\ Answers(pool, pool')
    <2>1. PICK made \in 0 .. PoolSize : pool' = Boot(pool, made)
      BY <1>2 DEF Initialize
    <2>2. PoolInv(pool') /\ pool'.calls = pool.calls
      BY <1>2, <2>1, BootKeeps DEF Initialize, PoolInv
    <2> QED  BY <2>2 DEF Answers
  <1>3. ASSUME TerminatePool PROVE PoolInv(pool') /\ Canceling(pool, pool')
    BY <1>3, TerminateKeeps DEF TerminatePool
  <1>4. ASSUME NEW g \in Generation, BootContinues(g) PROVE PoolInv(pool') /\ Answers(pool, pool')
    BY <1>4, ContinueKeeps DEF BootContinues
  <1>5. ASSUME NEW m \in pool.sent, NEW ok \in BOOLEAN, WorkerAnswers(m, ok)
        PROVE  PoolInv(pool') /\ Answers(pool, pool')
    <2> DEFINE u == HandleWorkerMessage(pool, m, ok)
    <2>1. PoolInv(u) /\ Answers(pool, u)
      <3>1. CASE m.task = None
        BY <1>5, <3>1, HandshakeKeeps DEF WorkerAnswers, WorkerTurn, HandleWorkerMessage
      <3>2. CASE m.task # None
        BY <1>5, <3>2, ResponseKeeps DEF WorkerAnswers, HandleWorkerMessage
      <3> QED  BY <3>1, <3>2
    <2>2. pool' = [u EXCEPT !.sent = @ \ {m}]
      BY <1>5 DEF WorkerAnswers
    <2> HIDE DEF u
    <2>3. DOMAIN u = Fields
      BY <2>1 DEF PoolInv, Books
    <2>4. /\ DOMAIN pool' = Fields /\ pool'.calls = u.calls /\ pool'.queue = u.queue
          /\ pool'.active = u.active /\ pool'.handshakes = u.handshakes
          /\ pool'.byKey = u.byKey /\ pool'.cache = u.cache /\ pool'.workers = u.workers
          /\ pool'.initialized = u.initialized /\ pool'.failed = u.failed
          /\ pool'.generation = u.generation /\ pool'.nextId = u.nextId
          /\ pool'.boots = u.boots /\ pool'.sent = u.sent \ {m} /\ pool'.up = u.up
          /\ pool'.gone = u.gone
      BY <2>2, <2>3
    <2> QED  BY <2>1, <2>4, HeardKeeps DEF Answers
  <1>6. ASSUME NEW w \in Worker, WorkerFails(w) PROVE PoolInv(pool') /\ Answers(pool, pool')
    <2> DEFINE u == HandleWorkerFailure(pool)
    <2>1. PoolInv(u) /\ Answers(pool, u)
      BY <1>6, FailureKeeps DEF WorkerFails, WorkerTurn
    <2>2. pool' = [u EXCEPT !.up = @ \ {w}, !.gone = @ \ {w}]
      BY <1>6 DEF WorkerFails
    <2> HIDE DEF u
    <2>3. DOMAIN u = Fields
      BY <2>1 DEF PoolInv, Books
    <2>4. /\ DOMAIN pool' = Fields /\ pool'.calls = u.calls /\ pool'.queue = u.queue
          /\ pool'.active = u.active /\ pool'.handshakes = u.handshakes
          /\ pool'.byKey = u.byKey /\ pool'.cache = u.cache /\ pool'.workers = u.workers
          /\ pool'.initialized = u.initialized /\ pool'.failed = u.failed
          /\ pool'.generation = u.generation /\ pool'.nextId = u.nextId
          /\ pool'.boots = u.boots /\ pool'.sent = u.sent
      BY <2>2, <2>3
    <2> QED  BY <2>1, <2>4, HeardKeeps DEF Answers
  <1> QED  BY <1>1, <1>2, <1>3, <1>4, <1>5, <1>6 DEF Next

\* What a reader is told of the pool follows.
LEMMA InvGivesSound == PoolInv(pool) => PoolSound
  <1> SUFFICES ASSUME PoolInv(pool) PROVE PoolSound
    OBVIOUS
  <1> DEFINE jobs == pool.active \cup ToSet(pool.queue)
  <1>1. /\ CallsSound(pool.calls, pool.byKey, pool.cache, jobs)
        /\ JobsSound(pool.queue, pool.active, pool.sent, pool.nextId)
        /\ WorkersSound(pool.workers, pool.active, pool.sent)
        /\ Staffed(pool.workers, pool.handshakes, pool.active, pool.initialized,
                   pool.failed, pool.generation)
        /\ Drained(pool.queue, pool.workers, pool.initialized, pool.failed)
        /\ InFlight(pool) = jobs
    BY DEF PoolInv, Books, InFlight
  <1>2. WorkersMatchJobs
    <2>1. \A t \in pool.active : t.id # None
      BY <1>1, PoolAssumption DEF JobsSound, Task
    <2>2. {pool.workers[i].request : i \in Busy} = {t.id : t \in pool.active}
      BY <1>1, <2>1 DEF WorkersSound, Busy
    <2>3. \A i, j \in Busy : pool.workers[i].request = pool.workers[j].request => i = j
      BY <1>1 DEF WorkersSound, Busy
    <2>4. \A t, u \in pool.active : t.id = u.id => t = u
      BY <1>1 DEF JobsSound
    <2> QED  BY <2>2, <2>3, <2>4 DEF WorkersMatchJobs
  <1> HIDE DEF jobs
  <1>3. OneJobPerKey
    BY <1>1 DEF OneJobPerKey, CallsSound
  <1>4. PendingHasTask
    BY <1>1 DEF PendingHasTask, CallsSound
  <1>5. NothingWaitsIdle
    <2>1. ToSet(<<>>) = {}
      BY DEF ToSet
    <2> QED  BY <1>1, <2>1 DEF NothingWaitsIdle, Drained, Staffed, Busy, jobs
  <1> QED  BY <1>2, <1>3, <1>4, <1>5 DEF PoolSound

Inv == PoolInv(pool)

THEOREM Inductive == Spec => []Inv
  <1>1. Init => Inv
    BY InitSound DEF Inv
  <1>2. Inv /\ [Next]_pool => Inv'
    BY TurnKeeps DEF Inv
  <1> QED  BY <1>1, <1>2, PTL DEF Spec

\* Queue, jobs, workers and keys describe one set of jobs whatever order requests,
\* terminations, boots, answers and errors come in: the pool neither leaks a worker, nor
\* gives it two jobs, nor shares a promise that is settled or lost, nor leaves a task
\* waiting next to an idle worker.
THEOREM PoolAlwaysSound == Spec => []PoolSound
  <1>1. Inv => PoolSound
    BY InvGivesSound DEF Inv
  <1> QED  BY <1>1, Inductive, PTL

-----------------------------------------------------------------------------
(* The pool is the service it promises to be *)

LEMMA MakingSimulates ==
    ASSUME NEW c \in Call, NEW i \in Input, pool.calls[c] = NoCall, Made(pool, pool', c, i)
    PROVE  Service!Request(c, i) \/ Service!Serve(c, i)
  <1>1. Told[c] = Service!Idle
    BY DEF Told, NoCall, Service!Idle
  <1>2. Told' = [Told EXCEPT ![c] = Told'[c]]
    <2>1. \A d \in Call : d # c => Told'[d] = Told[d]
      BY DEF Told, Made
    <2>2. DOMAIN Told = Call /\ DOMAIN Told' = Call /\ Told = [d \in Call |-> Told[d]]
          /\ Told' = [d \in Call |-> Told'[d]]
      BY DEF Told
    <2> QED  BY <2>1, <2>2
  <1>3. Told'[c] = [status |-> pool'.calls[c].status, input |-> pool'.calls[c].input,
                    value |-> pool'.calls[c].value]
    BY DEF Told
  <1>4. CASE pool'.calls[c].status = "pending" /\ pool'.calls[c].value = None
    <2>1. Told'[c] = [status |-> "pending", input |-> i, value |-> None]
      BY <1>3, <1>4 DEF Made
    <2>2. Told'[c] = [Service!Idle EXCEPT !.status = "pending", !.input = i]
      <3> DEFINE idle == [status |-> "idle", input |-> None, value |-> None]
                 sent == [idle EXCEPT !.status = "pending", !.input = i]
      <3>1. sent = [status |-> "pending", input |-> i, value |-> None]
        <4>1. /\ DOMAIN sent = {"status", "input", "value"}
              /\ sent.status = "pending" /\ sent.input = i /\ sent.value = None
              /\ sent = [f \in {"status", "input", "value"} |-> sent[f]]
          OBVIOUS
        <4> HIDE DEF sent
        <4> QED  BY <4>1
      <3>2. Service!Idle = [status |-> "idle", input |-> None, value |-> None]
        BY DEF Service!Idle
      <3> QED  BY <2>1, <3>1, <3>2
    <2> QED  BY <1>1, <1>2, <2>2 DEF Service!Request
  <1>5. CASE /\ pool'.calls[c].status = Fallback(i).status
             /\ pool'.calls[c].value = Fallback(i).value
    <2>1. Told'[c] = Service!Outcome(i)
      BY <1>3, <1>5 DEF Made, Fallback, Service!Outcome
    <2> QED  BY <1>1, <1>2, <2>1 DEF Service!Serve
  <1> QED  BY <1>4, <1>5 DEF Made

LEMMA AnsweringSimulates ==
    ASSUME Answers(pool, pool')
    PROVE  (\E answered \in SUBSET Service!Pending : Service!Answer(answered)) \/ UNCHANGED Told
  <1> DEFINE answered == {c \in Service!Pending : Told'[c] # Told[c]}
  <1>1. \A c \in Call : Told[c].status = pool.calls[c].status /\ Told[c].input = pool.calls[c].input
    BY DEF Told
  <1>2. ASSUME NEW c \in Call PROVE Told'[c] = IF c \in answered THEN Service!Outcome(Told[c].input)
                                                                ELSE Told[c]
    <2>1. CASE /\ pool'.calls[c].status = pool.calls[c].status
               /\ pool'.calls[c].input = pool.calls[c].input
               /\ pool'.calls[c].value = pool.calls[c].value
      BY <2>1 DEF Told
    <2>2. CASE /\ pool.calls[c].status = "pending" /\ pool'.calls[c].input = pool.calls[c].input
               /\ pool'.calls[c].status = Fallback(pool.calls[c].input).status
               /\ pool'.calls[c].value = Fallback(pool.calls[c].input).value
      <3>1. Told'[c] = Service!Outcome(pool.calls[c].input)
        BY <2>2 DEF Told, Fallback, Service!Outcome
      <3>2. c \in Service!Pending
        BY <1>1, <2>2 DEF Service!Pending
      <3> QED  BY <1>1, <3>1, <3>2
    <2> QED  BY <2>1, <2>2 DEF Answers
  <1>3. Told' = [c \in Call |-> IF c \in answered THEN Service!Outcome(Told[c].input) ELSE Told[c]]
    <2>1. Told' = [c \in Call |-> Told'[c]]
      BY DEF Told
    <2> HIDE DEF answered
    <2> QED  BY <1>2, <2>1
  <1>4. answered \in SUBSET Service!Pending
    OBVIOUS
  <1>5. Told = [c \in Call |-> Told[c]]
    BY DEF Told
  <1> HIDE DEF answered
  <1>6. CASE answered = {}
    BY <1>3, <1>5, <1>6
  <1>7. CASE answered # {}
    BY <1>3, <1>4, <1>7 DEF Service!Answer
  <1> QED  BY <1>6, <1>7

LEMMA CancelingSimulates ==
    ASSUME Inv, Canceling(pool, pool')
    PROVE  Service!Shutdown \/ UNCHANGED Told
  <1>1. ASSUME NEW c \in Call
        PROVE  Told'[c] = IF c \in Service!Pending THEN [Told[c] EXCEPT !.status = "canceled"]
                                                   ELSE Told[c]
    <2>1. pool.calls[c] \in CallState
          /\ (pool.calls[c].status = "pending" => pool.calls[c].value = None)
      BY DEF Inv, PoolInv, Books, CallsSound
    <2>2. c \in Service!Pending <=> pool.calls[c].status = "pending"
      BY DEF Told, Service!Pending
    <2>3. CASE pool.calls[c].status = "pending"
      <3>1. /\ pool'.calls[c].status = "canceled" /\ pool'.calls[c].value = None
            /\ pool'.calls[c].input = pool.calls[c].input
        BY <2>1, <2>3 DEF Canceling, CallState
      <3>2. Told'[c] = [status |-> "canceled", input |-> pool.calls[c].input, value |-> None]
        BY <3>1 DEF Told
      <3>3. Told[c] = [status |-> "pending", input |-> pool.calls[c].input, value |-> None]
        BY <2>1, <2>3 DEF Told
      <3> QED  BY <2>2, <2>3, <3>2, <3>3
    <2>4. CASE pool.calls[c].status # "pending"
      <3>1. pool'.calls[c] = pool.calls[c]
        BY <2>4 DEF Canceling
      <3> QED  BY <2>2, <2>4, <3>1 DEF Told
    <2> QED  BY <2>3, <2>4
  <1>2. /\ Told' = [c \in Call |-> Told'[c]]
        /\ Told = [c \in Call |-> Told[c]]
    BY DEF Told
  <1>3. Told' = [c \in Call |-> IF c \in Service!Pending THEN [Told[c] EXCEPT !.status = "canceled"]
                                                         ELSE Told[c]]
    BY <1>1, <1>2
  <1>4. CASE Service!Pending = {}
    BY <1>2, <1>3, <1>4
  <1>5. CASE Service!Pending # {}
    BY <1>3, <1>5 DEF Service!Shutdown
  <1> QED  BY <1>4, <1>5

LEMMA StepSimulates == Inv /\ [Next]_pool => [Service!Next]_Told
  <1> SUFFICES ASSUME Inv, [Next]_pool PROVE Service!Next \/ UNCHANGED Told
    OBVIOUS
  <1>1. CASE UNCHANGED pool
    BY <1>1 DEF Told
  <1>2. CASE Next
    <2>1. ASSUME NEW c \in Call, NEW i \in Input, pool.calls[c] = NoCall, Made(pool, pool', c, i)
          PROVE  Service!Next
      BY <2>1, MakingSimulates DEF Service!Next
    <2>2. ASSUME Answers(pool, pool') PROVE Service!Next \/ UNCHANGED Told
      BY <2>2, AnsweringSimulates DEF Service!Next
    <2>3. ASSUME Canceling(pool, pool') PROVE Service!Next \/ UNCHANGED Told
      BY <2>3, CancelingSimulates DEF Service!Next
    <2> QED  BY <1>2, <2>1, <2>2, <2>3, TurnKeeps DEF Inv
  <1> QED  BY <1>1, <1>2

\* Whatever the queue, the cache, the workers and their failures do, each call gets the
\* outcome of its own input, on the spot or in time, and a termination leaves nobody
\* waiting: the pool is the job service.
THEOREM PoolIsJobService == Spec => ImplementsJobService
  <1>1. Init => Service!Init
    BY InitSound DEF Told, NoCall, Service!Init, Service!Idle
  <1> QED
    BY <1>1, StepSimulates, Inductive, PTL DEF Spec, Service!Spec, ImplementsJobService

=============================================================================
