-------------------------- MODULE ThreadPool_proofs --------------------------
(***************************************************************************)
(* Proofs about ThreadPool, for any number of calls, workers and queues    *)
(* and any limit.                                                          *)
(***************************************************************************)
EXTENDS ThreadPool, TLAPS

\* A call that is waiting inside pushTask has chosen its queue.
TargetChosen == \A t \in Calls : pc[t] \in Inside => target[t] \in Queues

\* A worker holds a task exactly between taking it and finishing it.
HeldShape == \A w \in Workers : held[w] # NoTask <=> wpc[w] \in {"took", "run"}

\* The inductive invariant.
IInv == TypeOK /\ TargetChosen /\ HeldShape /\ ExactlyOnce /\ DrainBeforeExit

-----------------------------------------------------------------------------
(* What Append and Tail do to the places of tasks *)

\* Appending a task that is not queued adds that task and moves no other.
LEMMA AppendPlaces ==
    ASSUME TypeOK, QueuedOnce, NEW t \in Calls, NEW q \in Queues, ~Queued(t),
           queue' = [queue EXCEPT ![q] = Append(@, t)]
    PROVE  /\ QueuedOnce'
           /\ \A u \in Calls : Queued(u)' <=> (Queued(u) \/ u = t)
<1>1. queue \in [Queues -> Seq(Calls)]
  BY DEF TypeOK
<1>2. /\ queue'[q] = Append(queue[q], t)
      /\ \A p \in Queues : p # q => queue'[p] = queue[p]
  BY <1>1
<1>3. /\ Len(queue'[q]) = Len(queue[q]) + 1
      /\ DOMAIN queue[q] = 1..Len(queue[q])
      /\ DOMAIN queue'[q] = 1..(Len(queue[q]) + 1)
      /\ Len(queue[q]) \in Nat
      /\ queue'[q][Len(queue[q]) + 1] = t
      /\ \A i \in DOMAIN queue[q] : queue'[q][i] = queue[q][i]
  BY <1>1, <1>2
<1>4. \A u \in Calls : Queued(u)' <=> (Queued(u) \/ u = t)
  <2>1. ASSUME NEW u \in Calls, Queued(u)' PROVE Queued(u) \/ u = t
    <3>1. PICK p \in Queues : \E i \in DOMAIN queue'[p] : queue'[p][i] = u
      BY <2>1 DEF Queued
    <3>2. CASE p # q
      BY <3>1, <3>2, <1>2 DEF Queued
    <3>3. CASE p = q
      <4>1. PICK i \in DOMAIN queue'[q] : queue'[q][i] = u
        BY <3>1, <3>3
      <4>2. i \in DOMAIN queue[q] \/ i = Len(queue[q]) + 1
        BY <4>1, <1>3
      <4> QED
        BY <4>1, <4>2, <1>3 DEF Queued
    <3> QED
      BY <3>2, <3>3
  <2>2. ASSUME NEW u \in Calls, Queued(u) PROVE Queued(u)'
    <3>1. PICK p \in Queues : \E i \in DOMAIN queue[p] : queue[p][i] = u
      BY <2>2 DEF Queued
    <3>2. CASE p # q
      BY <3>1, <3>2, <1>2 DEF Queued
    <3>3. CASE p = q
      <4>1. PICK i \in DOMAIN queue[q] : queue[q][i] = u
        BY <3>1, <3>3
      <4>2. i \in DOMAIN queue'[q] /\ queue'[q][i] = u
        BY <4>1, <1>3
      <4> QED
        BY <4>2 DEF Queued
    <3> QED
      BY <3>2, <3>3
  <2>3. Queued(t)'
    <3>1. Len(queue[q]) + 1 \in DOMAIN queue'[q]
      BY <1>3
    <3> QED
      BY <3>1, <1>3 DEF Queued
  <2> QED
    BY <2>1, <2>2, <2>3
<1>5. QueuedOnce'
  <2> SUFFICES ASSUME NEW p \in Queues, NEW r \in Queues,
                      NEW i \in DOMAIN queue'[p], NEW j \in DOMAIN queue'[r],
                      queue'[p][i] = queue'[r][j]
               PROVE  p = r /\ i = j
    BY DEF QueuedOnce
  <2>1. i \in DOMAIN queue[p] \/ (p = q /\ i = Len(queue[q]) + 1)
    BY <1>2, <1>3
  <2>2. j \in DOMAIN queue[r] \/ (r = q /\ j = Len(queue[q]) + 1)
    BY <1>2, <1>3
  <2>3. i \in DOMAIN queue[p] => queue'[p][i] = queue[p][i] /\ queue[p][i] # t
    BY <1>2, <1>3 DEF Queued
  <2>4. j \in DOMAIN queue[r] => queue'[r][j] = queue[r][j] /\ queue[r][j] # t
    BY <1>2, <1>3 DEF Queued
  <2>5. CASE i \in DOMAIN queue[p] /\ j \in DOMAIN queue[r]
    BY <2>5, <2>3, <2>4 DEF QueuedOnce
  <2> QED
    BY <2>1, <2>2, <2>3, <2>4, <2>5, <1>3
<1> QED
  BY <1>4, <1>5

\* Removing the head of a queue removes that task from the queues altogether.
LEMMA TailPlaces ==
    ASSUME TypeOK, QueuedOnce, NEW q \in Queues, queue[q] # <<>>,
           queue' = [queue EXCEPT ![q] = Tail(@)]
    PROVE  /\ QueuedOnce'
           /\ Head(queue[q]) \in Calls /\ Queued(Head(queue[q]))
           /\ \A u \in Calls : Queued(u)' <=> (Queued(u) /\ u # Head(queue[q]))
<1>1. queue \in [Queues -> Seq(Calls)]
  BY DEF TypeOK
<1>2. /\ queue'[q] = Tail(queue[q])
      /\ \A p \in Queues : p # q => queue'[p] = queue[p]
  BY <1>1
<1>3. /\ DOMAIN queue[q] = 1..Len(queue[q])
      /\ Len(queue[q]) \in Nat \ {0}
      /\ DOMAIN queue'[q] = 1..(Len(queue[q]) - 1)
      /\ queue[q][1] = Head(queue[q])
      /\ \A i \in DOMAIN queue'[q] : i + 1 \in DOMAIN queue[q] /\ queue'[q][i] = queue[q][i + 1]
  BY <1>1, <1>2
<1>4. 1 \in DOMAIN queue[q] /\ Head(queue[q]) \in Calls
  BY <1>1, <1>3
<1>5. Queued(Head(queue[q]))
  BY <1>3, <1>4 DEF Queued
<1>6. ASSUME NEW u \in Calls, Queued(u)' PROVE Queued(u) /\ u # Head(queue[q])
  <2>1. PICK p \in Queues : \E i \in DOMAIN queue'[p] : queue'[p][i] = u
    BY <1>6 DEF Queued
  <2>2. CASE p # q
    <3>1. PICK i \in DOMAIN queue[p] : queue[p][i] = u
      BY <2>1, <2>2, <1>2
    <3>2. u # queue[q][1]
      BY <3>1, <2>2, <1>4 DEF QueuedOnce
    <3> QED
      BY <3>1, <3>2, <1>3 DEF Queued
  <2>3. CASE p = q
    <3>1. PICK i \in DOMAIN queue'[q] : queue'[q][i] = u
      BY <2>1, <2>3
    <3>2. i + 1 \in DOMAIN queue[q] /\ queue[q][i + 1] = u /\ i + 1 # 1
      BY <3>1, <1>3
    <3>3. u # queue[q][1]
      BY <3>2, <1>4 DEF QueuedOnce
    <3> QED
      BY <3>2, <3>3, <1>3 DEF Queued
  <2> QED
    BY <2>2, <2>3
<1>7. ASSUME NEW u \in Calls, Queued(u), u # Head(queue[q]) PROVE Queued(u)'
  <2>1. PICK p \in Queues : \E i \in DOMAIN queue[p] : queue[p][i] = u
    BY <1>7 DEF Queued
  <2>2. CASE p # q
    BY <2>1, <2>2, <1>2 DEF Queued
  <2>3. CASE p = q
    <3>1. PICK i \in DOMAIN queue[q] : queue[q][i] = u
      BY <2>1, <2>3
    <3>2. i # 1
      BY <3>1, <1>3, <1>7
    <3>3. i - 1 \in DOMAIN queue'[q] /\ (i - 1) + 1 = i
      BY <3>1, <3>2, <1>3
    <3>4. queue'[q][i - 1] = u
      BY <3>1, <3>3, <1>3
    <3> QED
      BY <3>3, <3>4 DEF Queued
  <2> QED
    BY <2>2, <2>3
<1>8. QueuedOnce'
  <2> SUFFICES ASSUME NEW p \in Queues, NEW r \in Queues,
                      NEW i \in DOMAIN queue'[p], NEW j \in DOMAIN queue'[r],
                      queue'[p][i] = queue'[r][j]
               PROVE  p = r /\ i = j
    BY DEF QueuedOnce
  <2> DEFINE a == IF p = q THEN i + 1 ELSE i
             b == IF r = q THEN j + 1 ELSE j
  <2>1. a \in DOMAIN queue[p] /\ queue[p][a] = queue'[p][i]
    BY <1>2, <1>3
  <2>2. b \in DOMAIN queue[r] /\ queue[r][b] = queue'[r][j]
    BY <1>2, <1>3
  <2>3. p = r /\ a = b
    BY <2>1, <2>2 DEF QueuedOnce
  <2> QED
    BY <2>3, <1>1, <1>2, <1>3
<1> QED
  BY <1>4, <1>5, <1>6, <1>7, <1>8

-----------------------------------------------------------------------------
(* The places of tasks, one lemma per way a step can change them *)

\* A step that leaves the queues, the workers' tasks and the completed tasks
\* alone, and makes no call accepted or no longer accepted, keeps ExactlyOnce.
LEMMA SamePlaces ==
    ASSUME ExactlyOnce, UNCHANGED <<queue, held, done>>,
           \A t \in Calls : pc'[t] \in Accepted <=> pc[t] \in Accepted
    PROVE  ExactlyOnce'
BY DEF ExactlyOnce, QueuedOnce, HeldOnce, OnePlace, Queued, Running

\* Insert adds one task that was in no place.
LEMMA InsertPlaces ==
    ASSUME IInv, NEW t \in Calls, NEW q \in Queues, Insert(t, q),
           pc[t] \notin Accepted, UNCHANGED <<held, done>>
    PROVE  /\ ExactlyOnce'
           /\ \A u \in Calls : Queued(u)' <=> (Queued(u) \/ u = t)
<1>1. ~Queued(t) /\ ~Running(t) /\ t \notin done
  BY DEF IInv, ExactlyOnce
<1>2. /\ QueuedOnce'
      /\ \A u \in Calls : Queued(u)' <=> (Queued(u) \/ u = t)
  BY <1>1, AppendPlaces DEF IInv, ExactlyOnce, Insert
<1>3. \A u \in Calls : Running(u)' <=> Running(u)
  BY DEF Running
<1>4. \A u \in Calls : pc'[u] \in Accepted <=> (pc[u] \in Accepted \/ u = t)
  BY DEF Insert, IInv, TypeOK, Accepted
<1>5. HeldOnce' /\ OnePlace'
  BY <1>1, <1>2, <1>3 DEF IInv, ExactlyOnce, HeldOnce, OnePlace
<1> QED
  BY <1>2, <1>3, <1>4, <1>5 DEF IInv, ExactlyOnce

\* TakeFrom moves the head of a queue to a worker that held nothing.
LEMMA TakePlaces ==
    ASSUME IInv, NEW w \in Workers, NEW q \in Queues, TakeFrom(w, q),
           held[w] = NoTask, UNCHANGED <<pc, done>>
    PROVE  /\ ExactlyOnce'
           /\ Head(queue[q]) \in Calls
           /\ \A u \in Calls : Queued(u)' => Queued(u)
<1> DEFINE h == Head(queue[q])
<1>1. /\ QueuedOnce'
      /\ h \in Calls /\ Queued(h)
      /\ \A u \in Calls : Queued(u)' <=> (Queued(u) /\ u # h)
  BY TailPlaces DEF IInv, ExactlyOnce, TakeFrom
<1> HIDE DEF h
<1>2. held' = [held EXCEPT ![w] = h] /\ held \in [Workers -> Calls \cup {NoTask}]
  BY DEF TakeFrom, h, IInv, TypeOK
<1>3. ~Running(h) /\ h \notin done /\ h # NoTask
  BY <1>1, PoolAssumption DEF IInv, ExactlyOnce, OnePlace
<1>4. \A u \in Calls : Running(u)' <=> (Running(u) \/ u = h)
  BY <1>2, <1>3, PoolAssumption DEF Running
<1>5. HeldOnce'
  BY <1>2, <1>3 DEF HeldOnce, Running, IInv, ExactlyOnce
<1>6. OnePlace'
  BY <1>1, <1>3, <1>4 DEF IInv, ExactlyOnce, OnePlace
<1> QED
  BY <1>1, <1>3, <1>4, <1>5, <1>6 DEF IInv, ExactlyOnce, h

\* RunTask moves a worker's task to the completed ones.
LEMMA RunPlaces ==
    ASSUME IInv, NEW w \in Workers, RunTask(w)
    PROVE  ExactlyOnce' /\ held[w] \in Calls
<1>1. held[w] \in Calls /\ held[w] # NoTask
  BY DEF RunTask, IInv, TypeOK, HeldShape
<1> DEFINE h == held[w]
<1>2. /\ held' = [held EXCEPT ![w] = NoTask]
      /\ held \in [Workers -> Calls \cup {NoTask}]
      /\ done' = done \cup {h} /\ UNCHANGED <<queue, pc>>
  BY DEF RunTask, IInv, TypeOK
<1>3. Running(h) /\ ~Queued(h)
  BY <1>1 DEF Running, IInv, ExactlyOnce, OnePlace
<1>4. \A u \in Calls : Running(u)' <=> (Running(u) /\ u # h)
  BY <1>1, <1>2, PoolAssumption DEF Running, IInv, ExactlyOnce, HeldOnce
<1>5. QueuedOnce' /\ \A u \in Calls : Queued(u)' <=> Queued(u)
  BY <1>2 DEF QueuedOnce, Queued, IInv, ExactlyOnce
<1>6. HeldOnce'
  BY <1>2 DEF HeldOnce, IInv, ExactlyOnce
<1>7. OnePlace'
  BY <1>2, <1>3, <1>4, <1>5 DEF OnePlace, IInv, ExactlyOnce
<1> QED
  BY <1>1, <1>2, <1>3, <1>4, <1>5, <1>6, <1>7 DEF IInv, ExactlyOnce

-----------------------------------------------------------------------------
(* Typing of the choices pushTask makes *)

\* getRandomQueueByKey returns queues of the pool.
LEMMA QueueByKeyType ==
    ASSUME NEW key \in Keys, NEW priority \in Priorities
    PROVE  getRandomQueueByKey(key, priority) \subseteq Queues
<1>1. Elements(priority) \in Queues
  <2>1. priority \in Nat /\ NumQueues \in Nat \ {0} /\ PriorityScale \in Nat \ {0}
    BY PoolAssumption
  <2>2. (NumQueues * priority) \div PriorityScale \in Nat
    BY <2>1
  <2> QED
    BY <2>1, <2>2 DEF Elements, Queues
<1>2. \A i \in 1..Elements(priority) : i \in Queues
  BY <1>1, PoolAssumption DEF Queues
<1>3. \A i \in Queues : KeyShuffle[key][i] \in Queues
  BY PoolAssumption
<1> QED
  BY <1>2, <1>3 DEF getRandomQueueByKey
-----------------------------------------------------------------------------
(* Draining *)

\* A step that queues nothing, ends no worker and does not withdraw m_terminate
\* keeps DrainBeforeExit.
LEMMA SameDrain ==
    ASSUME DrainBeforeExit, late \subseteq late', terminate => terminate',
           \A u \in Calls : Queued(u)' => Queued(u),
           \A w \in Workers : wpc'[w] = "exited" => wpc[w] = "exited"
    PROVE  DrainBeforeExit'
BY DEF DrainBeforeExit

\* When every queue is empty no task is queued.
LEMMA EmptyMeansNone ==
    ASSUME TypeOK, AllEmpty
    PROVE  \A u \in Calls : ~Queued(u)
BY DEF TypeOK, AllEmpty, Queued

-----------------------------------------------------------------------------
(* The steps of a pusher *)

\* The loop test of pushTask, whether it sleeps or inserts.
LEMMA TryInsertStep ==
    ASSUME IInv, NEW t \in Calls, NEW q \in Queues, TryInsert(t, q),
           pc[t] \notin Accepted, target'[t] = q, target' \in [Calls -> Queues \cup {0}],
           \A u \in Calls : u # t => target'[u] = target[u],
           UNCHANGED <<maxTasks, terminate, wpc, held, from, stopper, done>>
    PROVE  IInv'
<1>1. CASE Len(queue[q]) > maxTasks /\ pc' = [pc EXCEPT ![t] = "full"] /\ UNCHANGED <<queue, late>>
  <2>1. TypeOK'
    BY <1>1 DEF IInv, TypeOK, Inside
  <2>2. TargetChosen'
    BY <1>1 DEF IInv, TypeOK, TargetChosen, Inside
  <2>3. HeldShape'
    BY DEF IInv, HeldShape
  <2>4. \A u \in Calls : pc'[u] \in Accepted <=> pc[u] \in Accepted
    BY <1>1 DEF IInv, TypeOK, Accepted
  <2>5. ExactlyOnce'
    BY <1>1, <2>4, SamePlaces DEF IInv
  <2>6. DrainBeforeExit'
    BY <1>1, SameDrain DEF IInv, Queued
  <2> QED
    BY <2>1, <2>2, <2>3, <2>5, <2>6 DEF IInv
<1>2. CASE Insert(t, q)
  <2>1. TypeOK'
    BY <1>2 DEF Insert, IInv, TypeOK, Accepted
  <2>2. TargetChosen'
    BY <1>2 DEF Insert, IInv, TypeOK, TargetChosen, Inside
  <2>3. HeldShape'
    BY DEF IInv, HeldShape
  <2>4. ExactlyOnce' /\ \A u \in Calls : Queued(u)' <=> (Queued(u) \/ u = t)
    BY <1>2, InsertPlaces
  <2>5. DrainBeforeExit'
    BY <1>2, <2>4 DEF Insert, IInv, DrainBeforeExit
  <2> QED
    BY <2>1, <2>2, <2>3, <2>4, <2>5 DEF IInv
<1> QED
  BY <1>1, <1>2 DEF TryInsert

\* A step that only moves pc, between states that are not accepted or that are,
\* and wpc without ending a worker or touching a task, keeps the invariant.
LEMMA ControlStep ==
    ASSUME IInv, TypeOK',
           \A u \in Calls : pc'[u] \in Accepted <=> pc[u] \in Accepted,
           \A u \in Calls : pc'[u] \in Inside => pc[u] \in Inside,
           \A w \in Workers : wpc'[w] \in {"took", "run"} <=> wpc[w] \in {"took", "run"},
           \A w \in Workers : wpc'[w] = "exited" => wpc[w] = "exited",
           terminate => terminate',
           UNCHANGED <<queue, target, held, done, late>>
    PROVE  IInv'
<1>1. TargetChosen' /\ HeldShape'
  BY DEF IInv, TargetChosen, HeldShape
<1>2. ExactlyOnce'
  BY SamePlaces DEF IInv
<1>3. DrainBeforeExit'
  BY SameDrain DEF IInv, Queued
<1> QED
  BY <1>1, <1>2, <1>3 DEF IInv

\* One step of a call of pushTask.
LEMMA PusherPreserves ==
    ASSUME IInv, NEW t \in Calls, PusherStep(t)
    PROVE  IInv'
<1>1. ASSUME NEW key \in Keys, NEW priority \in Priorities, pushTask(t, key, priority)
      PROVE  IInv'
  <2>1. PICK q \in Queues :
          /\ target' = [target EXCEPT ![t] = q]
          /\ \/ /\ terminate
                /\ pc' = [pc EXCEPT ![t] = "refused"]
                /\ UNCHANGED <<queue, late>>
             \/ ~terminate /\ TryInsert(t, q)
    BY <1>1, QueueByKeyType DEF pushTask
  <2>2. /\ pc[t] = "idle"
        /\ UNCHANGED <<maxTasks, terminate, wpc, held, from, stopper, done>>
    BY <1>1 DEF pushTask
  <2>3. /\ target' \in [Calls -> Queues \cup {0}] /\ target'[t] = q
        /\ \A u \in Calls : u # t => target'[u] = target[u]
    BY <2>1 DEF IInv, TypeOK
  <2>4. CASE terminate /\ pc' = [pc EXCEPT ![t] = "refused"] /\ UNCHANGED <<queue, late>>
    <3>1. TypeOK'
      BY <2>2, <2>3, <2>4 DEF IInv, TypeOK, Returned
    <3>2. /\ \A u \in Calls : pc'[u] \in Accepted <=> pc[u] \in Accepted
          /\ \A u \in Calls : pc'[u] \in Inside => pc[u] \in Inside /\ u # t
      BY <2>2, <2>4 DEF IInv, TypeOK, Accepted, Inside
    <3>3. TargetChosen' /\ HeldShape'
      BY <3>2, <2>2, <2>3 DEF IInv, TargetChosen, HeldShape
    <3>4. ExactlyOnce'
      BY <2>2, <2>4, <3>2, SamePlaces DEF IInv
    <3>5. DrainBeforeExit'
      BY <2>2, <2>4, SameDrain DEF IInv, Queued
    <3> QED
      BY <3>1, <3>3, <3>4, <3>5 DEF IInv
  <2>5. CASE TryInsert(t, q)
    BY <2>2, <2>3, <2>5, TryInsertStep DEF Accepted
  <2> QED
    BY <2>1, <2>4, <2>5
<1>2. CASE WaitRemoved(t) \/ SpuriousPusher(t) \/ TimeoutPush(t)
  <2>1. TypeOK'
    BY <1>2 DEF WaitRemoved, SpuriousPusher, TimeoutPush, IInv, TypeOK, Inside, Returned
  <2>2. /\ \A u \in Calls : pc'[u] \in Accepted <=> pc[u] \in Accepted
        /\ \A u \in Calls : pc'[u] \in Inside => pc[u] \in Inside
    BY <1>2 DEF WaitRemoved, SpuriousPusher, TimeoutPush, IInv, TypeOK, Accepted, Inside
  <2>3. UNCHANGED <<queue, target, wpc, held, done, late, terminate>>
    BY <1>2 DEF WaitRemoved, SpuriousPusher, TimeoutPush
  <2> QED
    BY <2>1, <2>2, <2>3, ControlStep
<1>3. CASE RetryInsert(t)
  <2>1. target[t] \in Queues /\ pc[t] \notin Accepted /\ target \in [Calls -> Queues \cup {0}]
    BY <1>3 DEF RetryInsert, IInv, TypeOK, TargetChosen, Inside, Accepted
  <2> QED
    BY <1>3, <2>1, TryInsertStep DEF RetryInsert
<1>4. CASE NotifyInserted(t)
  <2>1. \/ UNCHANGED wpc
        \/ \E w \in Workers : wpc[w] = "wait" /\ wpc' = [wpc EXCEPT ![w] = "woken"]
    BY <1>4 DEF NotifyInserted, NotifyOneWorker
  <2>2. TypeOK'
    BY <1>4, <2>1 DEF NotifyInserted, IInv, TypeOK, Accepted
  <2>3. /\ \A u \in Calls : pc'[u] \in Accepted <=> pc[u] \in Accepted
        /\ \A u \in Calls : pc'[u] \in Inside => pc[u] \in Inside
    BY <1>4 DEF NotifyInserted, IInv, TypeOK, Accepted, Inside
  <2>4. /\ \A w \in Workers : wpc'[w] \in {"took", "run"} <=> wpc[w] \in {"took", "run"}
        /\ \A w \in Workers : wpc'[w] = "exited" => wpc[w] = "exited"
    BY <2>1 DEF IInv, TypeOK
  <2> QED
    BY <1>4, <2>2, <2>3, <2>4, ControlStep DEF NotifyInserted
<1> QED
  BY <1>1, <1>2, <1>3, <1>4 DEF PusherStep

-----------------------------------------------------------------------------
(* The steps of a worker *)

\* Taking a task, after the first test or after a wake-up.
LEMMA TakeStep ==
    ASSUME IInv, NEW w \in Workers, NEW q \in Queues, TakeFrom(w, q),
           wpc[w] \in {"pop", "woken"},
           UNCHANGED <<maxTasks, terminate, pc, target, stopper, done, late>>
    PROVE  IInv'
<1>1. held[w] = NoTask
  BY DEF IInv, HeldShape
<1>2. /\ ExactlyOnce' /\ Head(queue[q]) \in Calls
      /\ \A u \in Calls : Queued(u)' => Queued(u)
  BY <1>1, TakePlaces
<1>3. Tail(queue[q]) \in Seq(Calls)
  BY DEF TakeFrom, IInv, TypeOK
<1>4. TypeOK'
  BY <1>2, <1>3 DEF TakeFrom, IInv, TypeOK
<1>5. TargetChosen'
  BY DEF IInv, TargetChosen
<1>6. HeldShape'
  BY <1>2, PoolAssumption DEF TakeFrom, IInv, TypeOK, HeldShape
<1>7. DrainBeforeExit'
  <2>1. \A v \in Workers : wpc'[v] = "exited" => wpc[v] = "exited"
    BY DEF TakeFrom, IInv, TypeOK
  <2> QED
    BY <1>2, <2>1, SameDrain DEF IInv
<1> QED
  BY <1>2, <1>4, <1>5, <1>6, <1>7 DEF IInv

\* One step of a consumer thread.
LEMMA WorkerPreserves ==
    ASSUME IInv, NEW w \in Workers, WorkerStep(w)
    PROVE  IInv'
<1>1. CASE popTask(w)
  <2>1. CASE \E q \in Queues : TakeFrom(w, q)
    BY <1>1, <2>1, TakeStep DEF popTask
  <2>2. CASE AllEmpty /\ wpc' = [wpc EXCEPT ![w] = "wait"] /\ UNCHANGED <<queue, held, from>>
    <3>1. TypeOK'
      BY <1>1, <2>2 DEF popTask, IInv, TypeOK
    <3>2. /\ \A v \in Workers : wpc'[v] \in {"took", "run"} <=> wpc[v] \in {"took", "run"}
          /\ \A v \in Workers : wpc'[v] = "exited" => wpc[v] = "exited"
      BY <1>1, <2>2 DEF popTask, IInv, TypeOK
    <3> QED
      BY <1>1, <2>2, <3>1, <3>2, ControlStep DEF popTask
  <2> QED
    BY <1>1, <2>1, <2>2 DEF popTask
<1>2. CASE WokenPop(w)
  <2>1. CASE \E q \in Queues : TakeFrom(w, q)
    BY <1>2, <2>1, TakeStep DEF WokenPop
  <2>2. CASE /\ AllEmpty
             /\ wpc' = [wpc EXCEPT ![w] = IF terminate THEN "exited" ELSE "wait"]
             /\ UNCHANGED <<queue, held, from>>
    <3>1. TypeOK'
      BY <1>2, <2>2 DEF WokenPop, IInv, TypeOK
    <3>2. TargetChosen'
      BY <1>2 DEF WokenPop, IInv, TargetChosen
    <3>3. HeldShape'
      BY <1>2, <2>2 DEF WokenPop, IInv, TypeOK, HeldShape
    <3>4. ExactlyOnce'
      BY <1>2, <2>2, SamePlaces DEF WokenPop, IInv
    <3>5. DrainBeforeExit'
      <4>1. \A u \in Calls : ~Queued(u)'
        BY <2>2, EmptyMeansNone DEF IInv, Queued
      <4>2. (\E v \in Workers : wpc'[v] = "exited") => terminate'
        BY <1>2, <2>2 DEF WokenPop, IInv, TypeOK, DrainBeforeExit
      <4> QED
        BY <4>1, <4>2 DEF DrainBeforeExit
    <3> QED
      BY <3>1, <3>2, <3>3, <3>4, <3>5 DEF IInv
  <2> QED
    BY <1>2, <2>1, <2>2 DEF WokenPop
<1>3. CASE SpuriousWorker(w)
  <2>1. TypeOK'
    BY <1>3 DEF SpuriousWorker, IInv, TypeOK
  <2>2. /\ \A v \in Workers : wpc'[v] \in {"took", "run"} <=> wpc[v] \in {"took", "run"}
        /\ \A v \in Workers : wpc'[v] = "exited" => wpc[v] = "exited"
    BY <1>3 DEF SpuriousWorker, IInv, TypeOK
  <2> QED
    BY <1>3, <2>1, <2>2, ControlStep DEF SpuriousWorker
<1>4. CASE NotifyRemoved(w)
  <2>1. \/ UNCHANGED pc
        \/ \E t \in Calls : pc[t] = "blocked" /\ pc' = [pc EXCEPT ![t] = "notified"]
    BY <1>4 DEF NotifyRemoved, NotifyOnePusher
  <2>2. TypeOK'
    BY <1>4, <2>1 DEF NotifyRemoved, IInv, TypeOK, Inside
  <2>3. /\ \A u \in Calls : pc'[u] \in Accepted <=> pc[u] \in Accepted
        /\ \A u \in Calls : pc'[u] \in Inside => pc[u] \in Inside
    BY <2>1 DEF IInv, TypeOK, Accepted, Inside
  <2>4. /\ \A v \in Workers : wpc'[v] \in {"took", "run"} <=> wpc[v] \in {"took", "run"}
        /\ \A v \in Workers : wpc'[v] = "exited" => wpc[v] = "exited"
    BY <1>4 DEF NotifyRemoved, IInv, TypeOK
  <2> QED
    BY <1>4, <2>2, <2>3, <2>4, ControlStep DEF NotifyRemoved
<1>5. CASE RunTask(w)
  <2>1. ExactlyOnce' /\ held[w] \in Calls
    BY <1>5, RunPlaces
  <2>2. TypeOK'
    BY <1>5, <2>1 DEF RunTask, IInv, TypeOK
  <2>3. TargetChosen'
    BY <1>5 DEF RunTask, IInv, TargetChosen
  <2>4. HeldShape'
    BY <1>5 DEF RunTask, IInv, TypeOK, HeldShape
  <2>5. DrainBeforeExit'
    <3>1. \A v \in Workers : wpc'[v] = "exited" => wpc[v] = "exited"
      BY <1>5 DEF RunTask, IInv, TypeOK
    <3> QED
      BY <1>5, <3>1, SameDrain DEF RunTask, IInv, Queued
  <2> QED
    BY <2>1, <2>2, <2>3, <2>4, <2>5 DEF IInv
<1> QED
  BY <1>1, <1>2, <1>3, <1>4, <1>5 DEF WorkerStep

-----------------------------------------------------------------------------
(* The owner, and the theorems *)

\* start, stop, the destructor and setMaxTasksPerQueue.
LEMMA OwnerPreserves ==
    ASSUME IInv, start \/ stop \/ StopNotify \/ Join
                 \/ \E value \in MaxValues : setMaxTasksPerQueue(value)
    PROVE  IInv'
<1>1. CASE start
  <2>1. TypeOK'
    BY <1>1 DEF start, IInv, TypeOK
  <2> QED
    BY <1>1, <2>1, ControlStep DEF start
<1>2. CASE stop
  <2>1. TypeOK'
    BY <1>2 DEF stop, IInv, TypeOK
  <2> QED
    BY <1>2, <2>1, ControlStep DEF stop
<1>3. CASE StopNotify
  <2>1. TypeOK'
    BY <1>3 DEF StopNotify, NotifyAllWorkers, IInv, TypeOK
  <2> QED
    BY <1>3, <2>1, ControlStep DEF StopNotify, NotifyAllWorkers
<1>4. CASE Join
  <2>1. TypeOK'
    BY <1>4 DEF Join, IInv, TypeOK
  <2> QED
    BY <1>4, <2>1, ControlStep DEF Join
<1>5. ASSUME NEW value \in MaxValues, setMaxTasksPerQueue(value) PROVE IInv'
  <2>1. TypeOK'
    BY <1>5 DEF setMaxTasksPerQueue, IInv, TypeOK, Inside
  <2>2. /\ \A u \in Calls : pc'[u] \in Accepted <=> pc[u] \in Accepted
        /\ \A u \in Calls : pc'[u] \in Inside => pc[u] \in Inside
    BY <1>5 DEF setMaxTasksPerQueue, IInv, TypeOK, Accepted, Inside
  <2> QED
    BY <1>5, <2>1, <2>2, ControlStep DEF setMaxTasksPerQueue
<1> QED
  BY <1>1, <1>2, <1>3, <1>4, <1>5

\* The invariant holds initially: a fresh pool has empty queues and idle workers.
LEMMA InitIInv == Init => IInv
<1> SUFFICES ASSUME Init PROVE IInv
  OBVIOUS
<1>1. TypeOK
  <2>1. queue \in [Queues -> Seq(Calls)]
    BY DEF Init
  <2> QED
    BY <2>1 DEF Init, TypeOK
<1>2. TargetChosen /\ HeldShape
  BY DEF Init, TargetChosen, HeldShape, Inside
<1>3. \A t \in Calls : ~Queued(t) /\ ~Running(t)
  BY PoolAssumption DEF Init, Queued, Running
<1>4. QueuedOnce /\ HeldOnce
  BY DEF Init, QueuedOnce, HeldOnce
<1>5. ExactlyOnce
  BY <1>3, <1>4 DEF Init, ExactlyOnce, OnePlace, Accepted
<1>6. DrainBeforeExit
  BY DEF Init, DrainBeforeExit
<1> QED
  BY <1>1, <1>2, <1>5, <1>6 DEF IInv

\* Every step of the pool preserves the invariant.
LEMMA NextIInv == IInv /\ [Next]_vars => IInv'
<1> SUFFICES ASSUME IInv, [Next]_vars PROVE IInv'
  OBVIOUS
<1>1. CASE UNCHANGED vars
  BY <1>1 DEF vars, IInv, TypeOK, TargetChosen, HeldShape, ExactlyOnce, QueuedOnce, HeldOnce,
              OnePlace, DrainBeforeExit, Queued, Running
<1>2. CASE Next
  BY <1>2, PusherPreserves, WorkerPreserves, OwnerPreserves DEF Next
<1> QED
  BY <1>1, <1>2

\* The inductive invariant holds in every reachable state.
THEOREM Invariance == Spec => []IInv
<1>1. Init => IInv
  BY InitIInv
<1>2. IInv /\ [Next]_vars => IInv'
  BY NextIInv
<1> QED
  BY <1>1, <1>2, PTL DEF Spec

\* Every variable of the pool keeps its type, whatever the callers do.
THEOREM TypeCorrect == Spec => []TypeOK
<1>1. IInv => TypeOK
  BY DEF IInv
<1> QED
  BY <1>1, Invariance, PTL

\* A task that pushTask accepted is in exactly one place: one position of one
\* queue, one worker, or the completed tasks; and no other task is anywhere.
THEOREM NoTaskLostOrRepeated == Spec => []ExactlyOnce
<1>1. IInv => ExactlyOnce
  BY DEF IInv
<1> QED
  BY <1>1, Invariance, PTL

\* Once a worker has left taskProcessor, m_terminate is set and whatever is
\* still queued was inserted after stop().
THEOREM DrainedBeforeExit == Spec => []DrainBeforeExit
<1>1. IInv => DrainBeforeExit
  BY DEF IInv
<1> QED
  BY <1>1, Invariance, PTL
-----------------------------------------------------------------------------
(* Pushers that sleep *)

\* A pusher about to sleep has seen a task in its queue, and keeps the mutex.
FullNotEmpty == \A t \in Calls : pc[t] = "full" => queue[target[t]] # <<>>

\* Something will wake the pushers of queue q.
WakeUpToCome(q) ==
    \/ queue[q] # <<>>
    \/ \E w \in Workers : wpc[w] = "took" /\ from[w] = q
    \/ \E u \in Calls : pc[u] = "notified" /\ target[u] = q
    \/ \E u \in TimedCalls : pc[u] = "timeout" /\ target[u] = q

\* Both as one inductive invariant, on top of IInv.
SleepersInv == FullNotEmpty /\ \A t \in Calls : pc[t] = "blocked" => WakeUpToCome(target[t])

\* A queue that is too long is not empty.
LEMMA TooLongNotEmpty ==
    ASSUME NEW q \in Queues, TypeOK, Len(queue[q]) > maxTasks
    PROVE  queue[q] # <<>>
<1>1. maxTasks \in Nat
  BY PoolAssumption DEF TypeOK
<1> QED
  BY <1>1

\* The loop test of pushTask leaves a task in the queue, whatever it decides.
LEMMA TriedNotEmpty ==
    ASSUME TypeOK, NEW t \in Calls, NEW q \in Queues, TryInsert(t, q)
    PROVE  /\ queue'[q] # <<>> /\ pc'[t] \in {"full", "inserted"}
           /\ \A p \in Queues : queue[p] # <<>> => queue'[p] # <<>>
           /\ \A u \in Calls : u # t => pc'[u] = pc[u]
<1>1. queue \in [Queues -> Seq(Calls)] /\ pc \in [Calls -> {"idle"} \cup Inside \cup Accepted \cup Returned]
  BY DEF TypeOK
<1>2. CASE Len(queue[q]) > maxTasks /\ pc' = [pc EXCEPT ![t] = "full"] /\ UNCHANGED queue
  BY <1>1, <1>2, TooLongNotEmpty
<1>3. CASE Insert(t, q)
  <2>1. queue' = [queue EXCEPT ![q] = Append(@, t)] /\ pc' = [pc EXCEPT ![t] = "inserted"]
    BY <1>3 DEF Insert
  <2>2. Append(queue[q], t) # <<>>
    <3>1. queue[q] \in Seq(Calls)
      BY <1>1
    <3>2. Len(Append(queue[q], t)) = Len(queue[q]) + 1 /\ Len(queue[q]) \in Nat
      BY <3>1
    <3> QED
      BY <3>2
  <2> QED
    BY <1>1, <2>1, <2>2
<1> QED
  BY <1>2, <1>3 DEF TryInsert

\* A pusher's step keeps it: whoever was woken and does not insert found the queue
\* full, or gave up.
LEMMA PusherKeepsSleepers ==
    ASSUME IInv, SleepersInv, NEW t \in Calls, PusherStep(t)
    PROVE  SleepersInv'
<1> USE DEF SleepersInv, FullNotEmpty, WakeUpToCome
<1>0. /\ TypeOK /\ TargetChosen
      /\ pc \in [Calls -> {"idle"} \cup Inside \cup Accepted \cup Returned]
      /\ target \in [Calls -> Queues \cup {0}] /\ TimedCalls \subseteq Calls
  BY PoolAssumption DEF IInv, TypeOK
<1>1. ASSUME NEW key \in Keys, NEW priority \in Priorities, pushTask(t, key, priority)
      PROVE  SleepersInv'
  <2>1. PICK q \in Queues :
          /\ target' = [target EXCEPT ![t] = q]
          /\ \/ pc' = [pc EXCEPT ![t] = "refused"] /\ UNCHANGED queue
             \/ TryInsert(t, q)
    BY <1>1, QueueByKeyType DEF pushTask
  <2>2. pc[t] = "idle" /\ UNCHANGED <<wpc, from>>
    BY <1>1 DEF pushTask
  <2>3. /\ pc'[t] \in {"refused", "full", "inserted"} /\ target'[t] = q
        /\ pc'[t] = "full" => queue'[q] # <<>>
        /\ \A p \in Queues : queue[p] # <<>> => queue'[p] # <<>>
        /\ \A u \in Calls : u # t => pc'[u] = pc[u] /\ target'[u] = target[u]
    BY <1>0, <2>1, TriedNotEmpty
  <2> QED
    BY <1>0, <2>2, <2>3 DEF TargetChosen, Inside
<1>2. CASE RetryInsert(t)
  <2>1. target[t] \in Queues /\ pc[t] = "notified" /\ UNCHANGED <<wpc, from, target>>
    BY <1>0, <1>2 DEF RetryInsert, TargetChosen, Inside
  <2>2. /\ queue'[target[t]] # <<>> /\ pc'[t] \in {"full", "inserted"}
        /\ \A p \in Queues : queue[p] # <<>> => queue'[p] # <<>>
        /\ \A u \in Calls : u # t => pc'[u] = pc[u]
    BY <1>0, <1>2, <2>1, TriedNotEmpty DEF RetryInsert
  <2> QED
    BY <1>0, <2>1, <2>2 DEF TargetChosen, Inside
<1>3. CASE WaitRemoved(t)
  BY <1>0, <1>3 DEF WaitRemoved
<1>4. CASE SpuriousPusher(t)
  BY <1>0, <1>4 DEF SpuriousPusher
<1>5. CASE TimeoutPush(t)
  BY <1>0, <1>5 DEF TimeoutPush
<1>6. CASE NotifyInserted(t)
  <2>1. /\ pc[t] = "inserted" /\ pc'[t] = "true" /\ UNCHANGED <<queue, target, from>>
        /\ \A u \in Calls : u # t => pc'[u] = pc[u]
    BY <1>0, <1>6 DEF NotifyInserted
  <2>2. \A w \in Workers : wpc[w] = "took" => wpc'[w] = "took"
    BY <1>6 DEF NotifyInserted, NotifyOneWorker, IInv, TypeOK
  <2> QED
    BY <1>0, <2>1, <2>2
<1> QED
  BY <1>1, <1>2, <1>3, <1>4, <1>5, <1>6 DEF PusherStep

\* A worker's step keeps it: the task it takes is announced before the worker runs it.
LEMMA WorkerKeepsSleepers ==
    ASSUME IInv, SleepersInv, NEW w \in Workers, WorkerStep(w)
    PROVE  SleepersInv'
<1> USE DEF SleepersInv, FullNotEmpty, WakeUpToCome
<1>0. /\ TypeOK /\ TargetChosen
      /\ pc \in [Calls -> {"idle"} \cup Inside \cup Accepted \cup Returned]
      /\ queue \in [Queues -> Seq(Calls)]
      /\ from \in [Workers -> Queues \cup {0}]
      /\ wpc \in [Workers -> {"new", "pop", "wait", "woken", "took", "run", "exited"}]
  BY DEF IInv, TypeOK
<1>1. ASSUME NEW q \in Queues, TakeFrom(w, q), MutexFree, wpc[w] # "took", UNCHANGED <<pc, target>>
      PROVE  SleepersInv'
  <2>1. /\ wpc'[w] = "took" /\ from'[w] = q
        /\ \A v \in Workers : v # w => wpc'[v] = wpc[v] /\ from'[v] = from[v]
        /\ \A p \in Queues : p # q => queue'[p] = queue[p]
    BY <1>0, <1>1 DEF TakeFrom
  <2>2. \A t \in Calls : pc[t] # "full"
    BY <1>1 DEF MutexFree
  <2>3. FullNotEmpty'
    BY <1>1, <2>2
  <2>4. ASSUME NEW t \in Calls, pc[t] = "blocked" PROVE WakeUpToCome(target[t])'
    <3>1. target[t] \in Queues /\ target'[t] = target[t] /\ WakeUpToCome(target[t])
      BY <1>0, <1>1, <2>4 DEF TargetChosen, Inside
    <3>2. CASE target[t] = q
      BY <2>1, <3>1, <3>2
    <3>3. CASE target[t] # q
      <4>1. queue'[target[t]] = queue[target[t]]
        BY <2>1, <3>1, <3>3
      <4>2. \A v \in Workers : wpc[v] = "took" => wpc'[v] = "took" /\ from'[v] = from[v]
        BY <1>1, <2>1
      <4> QED
        BY <1>1, <3>1, <4>1, <4>2
    <3> QED
      BY <3>2, <3>3
  <2> QED
    BY <1>1, <2>3, <2>4
<1>2. CASE popTask(w) \/ WokenPop(w)
  <2>1. CASE \E q \in Queues : TakeFrom(w, q)
    BY <1>1, <1>2, <2>1 DEF popTask, WokenPop
  <2>2. CASE UNCHANGED <<queue, held, from>> /\ \E x \in {"wait", "exited"} : wpc' = [wpc EXCEPT ![w] = x]
    <3>1. \A v \in Workers : wpc[v] = "took" => wpc'[v] = "took"
      BY <1>0, <1>2, <2>2 DEF popTask, WokenPop
    <3>2. UNCHANGED <<queue, from, pc, target>>
      BY <1>2, <2>2 DEF popTask, WokenPop
    <3> QED
      BY <1>0, <3>1, <3>2
  <2> QED
    BY <1>2, <2>1, <2>2 DEF popTask, WokenPop
<1>3. CASE SpuriousWorker(w) \/ RunTask(w)
  <2>1. \A v \in Workers : wpc[v] = "took" => wpc'[v] = "took"
    BY <1>0, <1>3 DEF SpuriousWorker, RunTask
  <2>2. UNCHANGED <<queue, from, pc, target>>
    BY <1>3 DEF SpuriousWorker, RunTask
  <2> QED
    BY <1>0, <2>1, <2>2
<1>4. CASE NotifyRemoved(w)
  <2>1. /\ \A v \in Workers : v # w => wpc'[v] = wpc[v]
        /\ UNCHANGED <<queue, from, target>>
    BY <1>0, <1>4 DEF NotifyRemoved
  <2>2. CASE \E t \in Calls : /\ pc[t] = "blocked" /\ target[t] = from[w]
                             /\ pc' = [pc EXCEPT ![t] = "notified"]
    <3>1. PICK t \in Calls : /\ pc[t] = "blocked" /\ target[t] = from[w]
                            /\ pc' = [pc EXCEPT ![t] = "notified"]
      BY <2>2
    <3>2. pc'[t] = "notified" /\ \A u \in Calls : u # t => pc'[u] = pc[u]
      BY <1>0, <3>1
    <3>3. TimedCalls \subseteq Calls
      BY PoolAssumption
    <3> QED
      BY <1>0, <2>1, <3>1, <3>2, <3>3
  <2>3. CASE (\A t \in Calls : ~(pc[t] = "blocked" /\ target[t] = from[w])) /\ UNCHANGED pc
    <3>1. FullNotEmpty'
      BY <2>1, <2>3
    <3>2. ASSUME NEW t \in Calls, pc[t] = "blocked" PROVE WakeUpToCome(target[t])'
      <4>1. WakeUpToCome(target[t]) /\ target[t] # from[w]
        BY <2>3, <3>2
      <4> QED
        BY <2>1, <2>3, <4>1
    <3> QED
      BY <2>3, <3>1, <3>2
  <2> QED
    BY <1>4, <2>2, <2>3 DEF NotifyRemoved, NotifyOnePusher
<1> QED
  BY <1>2, <1>3, <1>4 DEF WorkerStep

\* The owner's steps keep it: setMaxTasksPerQueue leaves no pusher asleep, and stop()
\* and the joins touch none.
LEMMA OwnerKeepsSleepers ==
    ASSUME IInv, SleepersInv,
           \/ start \/ stop \/ StopNotify \/ Join
           \/ \E value \in MaxValues : setMaxTasksPerQueue(value)
    PROVE  SleepersInv'
<1> USE DEF SleepersInv, FullNotEmpty, WakeUpToCome
<1>1. CASE start \/ stop \/ StopNotify \/ Join
  <2>1. UNCHANGED <<queue, pc, target, from>>
    BY <1>1 DEF start, stop, StopNotify, Join
  <2>2. \A w \in Workers : wpc[w] = "took" => wpc'[w] = "took"
    BY <1>1 DEF start, stop, StopNotify, Join, NotifyAllWorkers
  <2> QED
    BY <2>1, <2>2
<1>2. ASSUME NEW value \in MaxValues, setMaxTasksPerQueue(value) PROVE SleepersInv'
  BY <1>2 DEF setMaxTasksPerQueue
<1> QED
  BY <1>1, <1>2

\* No pusher is left asleep beside a queue with room unless a pusher of that queue
\* reported a timeout: every notification of popTask reaches a pusher that uses it.
THEOREM PushersAreWoken == Spec => []NoPusherForgotten
<1>1. Init => SleepersInv
  BY DEF Init, SleepersInv, FullNotEmpty
<1>2. IInv /\ SleepersInv /\ [Next]_vars => SleepersInv'
  <2> SUFFICES ASSUME IInv, SleepersInv, [Next]_vars PROVE SleepersInv'
    OBVIOUS
  <2>1. CASE UNCHANGED vars
    BY <2>1 DEF vars, SleepersInv, FullNotEmpty, WakeUpToCome
  <2> QED
    BY <2>1, PusherKeepsSleepers, WorkerKeepsSleepers, OwnerKeepsSleepers DEF Next
<1>3. SleepersInv => NoPusherForgotten
  BY DEF SleepersInv, WakeUpToCome, NoPusherForgotten
<1> QED
  BY <1>1, <1>2, <1>3, Invariance, PTL DEF Spec
=============================================================================
