----------------------------- MODULE ThreadPool -----------------------------
(***************************************************************************)
(* Threads::Pool::ThreadPool (Threads/threadpool.cpp).                     *)
(*                                                                         *)
(* A pool has NumQueues FIFO queues behind one mutex (m_queuesMutex), one  *)
(* condition variable the workers sleep on (m_insertedElementCond) and one *)
(* per queue the pushers sleep on (cond_removedElement).  A member of      *)
(* Calls is one call of pushTask together with the task it brings; a       *)
(* member of Workers is one thread running taskProcessor.                  *)
(*                                                                         *)
(* A critical section is one step.  The notify_one / notify_all that the   *)
(* code issues after it has unlocked is a step of its own.  The limit      *)
(* m_maxTasksPerQueue is written without the mutex, so a pusher that has   *)
(* found its queue full keeps the mutex in a state of its own ("full")     *)
(* until it sleeps: in that state nobody else enters a critical section,   *)
(* but setMaxTasksPerQueue can still run.                                  *)
(***************************************************************************)
EXTENDS Naturals, Sequences, FiniteSets

CONSTANTS
    Calls,          \* calls of pushTask, each with its own task
    TimedCalls,     \* the calls that give a finite timeoutMS
    Workers,        \* the m_threadCount consumer threads
    NumQueues,      \* taskQueues
    Keys,           \* the values of pushTask's key
    KeyShuffle,     \* the order the shuffle seeded with a key's hash produces
    Priorities,     \* the values of pushTask's priority, over PriorityScale
    PriorityScale,
    MaxValues,      \* the values setMaxTasksPerQueue may be given
    NoTask

Queues == 1..NumQueues

ASSUME PoolAssumption ==
    /\ TimedCalls \subseteq Calls
    /\ NumQueues \in Nat \ {0}
    /\ PriorityScale \in Nat \ {0}
    /\ Priorities \subseteq Nat
    /\ MaxValues \subseteq Nat
    /\ MaxValues # {}
    /\ NoTask \notin Calls
    /\ KeyShuffle \in [Keys -> [Queues -> Queues]]

VARIABLES
    queue,      \* m_queues[q].tasks
    maxTasks,   \* m_maxTasksPerQueue
    terminate,  \* m_terminate
    pc,         \* where each call of pushTask is
    target,     \* currentQueue of a call (0 before it has one)
    wpc,        \* where each worker is in taskProcessor / popTask
    held,       \* the task a worker has taken
    from,       \* the queue it took it from (0 before the first one)
    stopper,    \* how far stop() and the destructor are
    done,       \* tasks whose function has returned
    late        \* history: tasks inserted when m_terminate was already set

vars == <<queue, maxTasks, terminate, pc, target, wpc, held, from, stopper, done, late>>

Inside   == {"full", "blocked", "notified"}       \* waiting inside pushTask
Accepted == {"inserted", "true"}                  \* the task is in the pool's care
Returned == {"true", "refused", "timeout"}        \* pushTask has returned

TypeOK ==
    /\ queue \in [Queues -> Seq(Calls)]
    /\ maxTasks \in MaxValues
    /\ terminate \in BOOLEAN
    /\ pc \in [Calls -> {"idle"} \cup Inside \cup Accepted \cup Returned]
    /\ target \in [Calls -> Queues \cup {0}]
    /\ wpc \in [Workers -> {"new", "pop", "wait", "woken", "took", "run", "exited"}]
    /\ held \in [Workers -> Calls \cup {NoTask}]
    /\ from \in [Workers -> Queues \cup {0}]
    /\ stopper \in {"open", "stopping", "stopped", "destroying", "joining", "destroyed"}
    /\ done \subseteq Calls
    /\ late \subseteq Calls

\* A fresh pool: the constructor stores the default limit and creates the queues.
Init ==
    /\ queue = [q \in Queues |-> <<>>]
    /\ maxTasks \in MaxValues
    /\ terminate = FALSE
    /\ pc = [t \in Calls |-> "idle"]
    /\ target = [t \in Calls |-> 0]
    /\ wpc = [w \in Workers |-> "new"]
    /\ held = [w \in Workers |-> NoTask]
    /\ from = [w \in Workers |-> 0]
    /\ stopper = "open"
    /\ done = {}
    /\ late = {}

-----------------------------------------------------------------------------
(* The mutex and the condition variables *)

\* m_queuesMutex can be taken: the only holder between two steps is a pusher
\* that is about to sleep.
MutexFree == \A t \in Calls : pc[t] # "full"

AllEmpty == \A q \in Queues : queue[q] = <<>>

NotifyOneWorker_Forgotten == UNCHANGED wpc

\* m_insertedElementCond.notify_one()
NotifyOneWorker ==
    \/ \E w \in Workers : wpc[w] = "wait" /\ wpc' = [wpc EXCEPT ![w] = "woken"]
    \/ (\A w \in Workers : wpc[w] # "wait") /\ UNCHANGED wpc

\* m_insertedElementCond.notify_all()
NotifyAllWorkers ==
    wpc' = [w \in Workers |-> IF wpc[w] = "wait" THEN "woken" ELSE wpc[w]]

NotifyOnePusher_Forgotten(q) == UNCHANGED pc

\* m_queues[q].cond_removedElement.notify_one()
NotifyOnePusher(q) ==
    \/ \E t \in Calls : /\ pc[t] = "blocked" /\ target[t] = q
                        /\ pc' = [pc EXCEPT ![t] = "notified"]
    \/ /\ \A t \in Calls : ~(pc[t] = "blocked" /\ target[t] = q)
       /\ UNCHANGED pc

-----------------------------------------------------------------------------
(* pushTask *)

\* How many queues of a key's order a priority opens: the product is truncated,
\* zero becomes one and it never exceeds the number of queues.
Elements(priority) ==
    LET e == (NumQueues * priority) \div PriorityScale
    IN  IF e = 0 THEN 1 ELSE IF e > NumQueues THEN NumQueues ELSE e

\* The queues getRandomQueueByKey may return.
getRandomQueueByKey(key, priority) == {KeyShuffle[key][i] : i \in 1..Elements(priority)}

\* The body after the loop: insert and unlock.
Insert(t, q) ==
    /\ queue' = [queue EXCEPT ![q] = Append(@, t)]
    /\ pc' = [pc EXCEPT ![t] = "inserted"]
    /\ late' = IF terminate THEN late \cup {t} ELSE late

\* The loop test, with the mutex held: keep it and go to sleep, or insert.
TryInsert(t, q) ==
    \/ /\ Len(queue[q]) > maxTasks
       /\ pc' = [pc EXCEPT ![t] = "full"]
       /\ UNCHANGED <<queue, late>>
    \/ Len(queue[q]) <= maxTasks /\ Insert(t, q)

\* pushTask up to its first wait or its unlock.  m_terminate is tested here only.
pushTask(t, key, priority) ==
    /\ pc[t] = "idle"
    /\ stopper \in {"open", "stopping", "stopped"}
    /\ MutexFree
    /\ \E q \in getRandomQueueByKey(key, priority) :
        /\ target' = [target EXCEPT ![t] = q]
        /\ \/ /\ terminate
              /\ pc' = [pc EXCEPT ![t] = "refused"]
              /\ UNCHANGED <<queue, late>>
           \/ ~terminate /\ TryInsert(t, q)
    /\ UNCHANGED <<maxTasks, terminate, wpc, held, from, stopper, done>>

\* cond_removedElement.wait / wait_for: sleep and release the mutex.
WaitRemoved(t) ==
    /\ pc[t] = "full"
    /\ pc' = [pc EXCEPT ![t] = "blocked"]
    /\ UNCHANGED <<queue, maxTasks, terminate, target, wpc, held, from, stopper, done, late>>

\* A sleeping pusher wakes without a notification.
SpuriousPusher(t) ==
    /\ pc[t] = "blocked"
    /\ pc' = [pc EXCEPT ![t] = "notified"]
    /\ UNCHANGED <<queue, maxTasks, terminate, target, wpc, held, from, stopper, done, late>>

\* The wait is over: back to the loop test (not to the test of m_terminate).
RetryInsert(t) ==
    /\ pc[t] = "notified"
    /\ MutexFree
    /\ TryInsert(t, target[t])
    /\ UNCHANGED <<maxTasks, terminate, target, wpc, held, from, stopper, done>>

\* wait_for reports a timeout.  It compares the clock after it has the mutex
\* again, so a call that was notified can still report one.
TimeoutPush(t) ==
    /\ t \in TimedCalls
    /\ pc[t] \in {"blocked", "notified"}
    /\ MutexFree
    /\ pc' = [pc EXCEPT ![t] = "timeout"]
    /\ UNCHANGED <<queue, maxTasks, terminate, target, wpc, held, from, stopper, done, late>>

\* The notification after the unlock, and return true.
NotifyInserted(t) ==
    /\ pc[t] = "inserted"
    /\ pc' = [pc EXCEPT ![t] = "true"]
    /\ NotifyOneWorker
    /\ UNCHANGED <<queue, maxTasks, terminate, target, held, from, stopper, done, late>>

-----------------------------------------------------------------------------
(* taskProcessor and popTask *)

\* start(): the threads exist from here on.
start ==
    /\ \A w \in Workers : wpc[w] = "new"
    /\ Workers # {}
    /\ wpc' = [w \in Workers |-> "pop"]
    /\ UNCHANGED <<queue, maxTasks, terminate, pc, target, held, from, stopper, done, late>>

TakeFrom_Front(w, q) ==
    /\ queue[q] # <<>>
    /\ held' = [held EXCEPT ![w] = Head(queue[q])]
    /\ from' = [from EXCEPT ![w] = q]
    /\ wpc' = [wpc EXCEPT ![w] = "took"]
    /\ UNCHANGED queue

\* Take the front of a queue that has elements; getRandomTaskQueueWithElements
\* may choose any of them.
TakeFrom(w, q) ==
    /\ queue[q] # <<>>
    /\ held' = [held EXCEPT ![w] = Head(queue[q])]
    /\ from' = [from EXCEPT ![w] = q]
    /\ queue' = [queue EXCEPT ![q] = Tail(@)]
    /\ wpc' = [wpc EXCEPT ![w] = "took"]

\* popTask up to its unlock or its first sleep: an empty pool always means sleep.
popTask(w) ==
    /\ wpc[w] = "pop"
    /\ MutexFree
    /\ \/ \E q \in Queues : TakeFrom(w, q)
       \/ /\ AllEmpty
          /\ wpc' = [wpc EXCEPT ![w] = "wait"]
          /\ UNCHANGED <<queue, held, from>>
    /\ UNCHANGED <<maxTasks, terminate, pc, target, stopper, done, late>>

WokenPop_NoDrain(w) ==
    /\ wpc[w] = "woken"
    /\ MutexFree
    /\ \/ ~terminate /\ \E q \in Queues : TakeFrom(w, q)
       \/ /\ terminate \/ AllEmpty
          /\ wpc' = [wpc EXCEPT ![w] = IF terminate THEN "exited" ELSE "wait"]
          /\ UNCHANGED <<queue, held, from>>
    /\ UNCHANGED <<maxTasks, terminate, pc, target, stopper, done, late>>

\* popTask after a wake-up: only here does an empty pool and m_terminate make it
\* return the null task, which ends taskProcessor.
WokenPop(w) ==
    /\ wpc[w] = "woken"
    /\ MutexFree
    /\ \/ \E q \in Queues : TakeFrom(w, q)
       \/ /\ AllEmpty
          /\ wpc' = [wpc EXCEPT ![w] = IF terminate THEN "exited" ELSE "wait"]
          /\ UNCHANGED <<queue, held, from>>
    /\ UNCHANGED <<maxTasks, terminate, pc, target, stopper, done, late>>

SpuriousWorker(w) ==
    /\ wpc[w] = "wait"
    /\ wpc' = [wpc EXCEPT ![w] = "woken"]
    /\ UNCHANGED <<queue, maxTasks, terminate, pc, target, held, from, stopper, done, late>>

\* The notification after the unlock in popTask, which then returns the task.
NotifyRemoved(w) ==
    /\ wpc[w] = "took"
    /\ wpc' = [wpc EXCEPT ![w] = "run"]
    /\ NotifyOnePusher(from[w])
    /\ UNCHANGED <<queue, maxTasks, terminate, target, held, from, stopper, done, late>>

\* task.task(task.data) returns and taskProcessor asks for the next task.
RunTask(w) ==
    /\ wpc[w] = "run"
    /\ done' = done \cup {held[w]}
    /\ held' = [held EXCEPT ![w] = NoTask]
    /\ wpc' = [wpc EXCEPT ![w] = "pop"]
    /\ UNCHANGED <<queue, maxTasks, terminate, pc, target, from, stopper, late>>

-----------------------------------------------------------------------------
(* stop, the destructor and the limit *)

\* stop() called by the owner, and again by the destructor: the flag first.  The
\* destructor joins threads, so it needs start() to have run, and no other thread
\* may still be inside the object.
stop ==
    /\ MutexFree
    /\ \/ stopper = "open" /\ stopper' = "stopping"
       \/ /\ stopper \in {"open", "stopped"}
          /\ \A w \in Workers : wpc[w] # "new"
          /\ \A t \in Calls : pc[t] \notin Inside \cup {"inserted"}
          /\ stopper' = "destroying"
    /\ terminate' = TRUE
    /\ UNCHANGED <<queue, maxTasks, pc, target, wpc, held, from, done, late>>

\* ... then, without the mutex, notify_all on the workers' condition only.
StopNotify ==
    /\ \/ stopper = "stopping"   /\ stopper' = "stopped"
       \/ stopper = "destroying" /\ stopper' = "joining"
    /\ NotifyAllWorkers
    /\ UNCHANGED <<queue, maxTasks, terminate, pc, target, held, from, done, late>>

\* The destructor's joins return once every worker has left taskProcessor.
Join ==
    /\ stopper = "joining"
    /\ \A w \in Workers : wpc[w] = "exited"
    /\ stopper' = "destroyed"
    /\ UNCHANGED <<queue, maxTasks, terminate, pc, target, wpc, held, from, done, late>>

setMaxTasksPerQueue_OffByOne(value) ==
    /\ stopper \in {"open", "stopping", "stopped"}
    /\ maxTasks' = value + 1
    /\ pc' = [t \in Calls |-> IF pc[t] = "blocked" THEN "notified" ELSE pc[t]]
    /\ UNCHANGED <<queue, terminate, target, wpc, held, from, stopper, done, late>>

\* Store the limit and wake every sleeping pusher, without the mutex.
setMaxTasksPerQueue(value) ==
    /\ stopper \in {"open", "stopping", "stopped"}
    /\ maxTasks' = value
    /\ pc' = [t \in Calls |-> IF pc[t] = "blocked" THEN "notified" ELSE pc[t]]
    /\ UNCHANGED <<queue, terminate, target, wpc, held, from, stopper, done, late>>

-----------------------------------------------------------------------------

PusherStep(t) ==
    \/ \E key \in Keys, priority \in Priorities : pushTask(t, key, priority)
    \/ WaitRemoved(t) \/ SpuriousPusher(t) \/ RetryInsert(t)
    \/ TimeoutPush(t) \/ NotifyInserted(t)

WorkerStep(w) ==
    popTask(w) \/ WokenPop(w) \/ SpuriousWorker(w) \/ NotifyRemoved(w) \/ RunTask(w)

Next ==
    \/ \E t \in Calls : PusherStep(t)
    \/ \E w \in Workers : WorkerStep(w)
    \/ start \/ stop \/ StopNotify \/ Join
    \/ \E value \in MaxValues : setMaxTasksPerQueue(value)

Spec == Init /\ [][Next]_vars

\* The steps a thread takes by itself once it is inside pushTask or taskProcessor:
\* not the spurious wake-ups, and not the timeout of a sleeping pusher.
PusherProgress(t) == WaitRemoved(t) \/ RetryInsert(t) \/ NotifyInserted(t)
WorkerProgress(w) == popTask(w) \/ WokenPop(w) \/ NotifyRemoved(w) \/ RunTask(w)

\* A thread keeps running, a mutex that is free again and again is taken in the
\* end, and a task's function returns.  Nobody is obliged to call pushTask, stop
\* or setMaxTasksPerQueue.
Fairness ==
    /\ WF_vars(start)
    /\ WF_vars(StopNotify \/ Join)
    /\ \A t \in Calls : SF_vars(PusherProgress(t))
    /\ \A w \in Workers : SF_vars(WorkerProgress(w))

FairSpec == Spec /\ Fairness

-----------------------------------------------------------------------------
(* Properties *)

Queued(t) == \E q \in Queues : \E i \in DOMAIN queue[q] : queue[q][i] = t
Running(t) == \E w \in Workers : held[w] = t

\* No task sits in two places of the queues.
QueuedOnce ==
    \A p, q \in Queues : \A i \in DOMAIN queue[p], j \in DOMAIN queue[q] :
        queue[p][i] = queue[q][j] => p = q /\ i = j

\* No task is held by two workers.
HeldOnce ==
    \A v, w \in Workers : held[v] = held[w] /\ held[v] # NoTask => v = w

\* The places of a task exclude one another: a queue, a worker, or completion.
OnePlace ==
    /\ \A t \in Calls : Queued(t) => ~Running(t) /\ t \notin done
    /\ \A t \in Calls : Running(t) => t \notin done

\* Every task pushTask accepted is queued, running or complete, exactly one of
\* them and once, and no other task is: the pool neither loses nor repeats a
\* task across pushes, pops, wake-ups and stop (pushTask, popTask,
\* taskProcessor).
ExactlyOnce ==
    /\ QueuedOnce /\ HeldOnce /\ OnePlace
    /\ \A t \in Calls : pc[t] \in Accepted <=> (Queued(t) \/ Running(t) \/ t \in done)

\* When a worker has left its loop, nothing that was inserted before stop()
\* is still queued: the exit test of popTask runs only on an empty pool, and
\* only a pusher that slept across stop() can refill it.
DrainBeforeExit ==
    (\E w \in Workers : wpc[w] = "exited") =>
        /\ terminate
        /\ \A t \in Calls : Queued(t) => t \in late

\* A pusher that sleeps on its queue has a wake-up to come, and is never left asleep
\* beside a queue with room: a task is still there, whose worker will notify; or one
\* has been taken and the notification, issued after the unlock, is due; or another
\* pusher of the queue was woken in its place and is about to insert.  The exception
\* is the code's: a pusher whose wait_for reports a timeout may have been the one
\* notified (threadpool.cpp:66), and does not pass the notification on.
NoPusherForgotten ==
    \A t \in Calls : pc[t] = "blocked" =>
        \/ queue[target[t]] # <<>>
        \/ \E w \in Workers : wpc[w] = "took" /\ from[w] = target[t]
        \/ \E u \in Calls : pc[u] = "notified" /\ target[u] = target[t]
        \/ \E u \in TimedCalls : pc[u] = "timeout" /\ target[u] = target[t]

\* Every task inserted before stop() is executed, whether or not stop() comes
\* while it is queued (the wake-ups of pushTask and the loop of popTask).
AcceptedTasksRun ==
    \A t \in Calls : (pc[t] \in Accepted /\ t \notin late) ~> (t \in done)

\* threadpool.h:65, stop: "Terminate to process current tasks and stop task
\* consumer threads (also called from destructor)": when stop() is called on a
\* pool that has been started, its threads end.
StopEndsWorkers ==
    (stopper \in {"stopping", "destroying"} /\ \A w \in Workers : wpc[w] # "new")
        ~> \A w \in Workers : wpc[w] = "exited"

=============================================================================
