------------------------------ MODULE FastRPC3 ------------------------------
(***************************************************************************)
(* Network::Protocols::FastRPC::FastRPC3 (Protocol_FastRPC3): calls that   *)
(* go out over a connection, queries that come in over it, and the thread  *)
(* in handleConnection that serves it.                                     *)
(*                                                                         *)
(* Handlers are the calls of handleConnection for one connection key, each *)
(* with its own stream and Connection object; mtDone and mtSocket live on  *)
(* the stack of that call.  Calls are calls of executeTask, the pinger's   *)
(* among them, or of RemoteMethods::close.  Tasks are incoming queries.    *)
(*                                                                         *)
(* m_connectionMapById is used through the promise of ElementLifetime      *)
(* (phase, and the calls that point to a connection), which SafeMap        *)
(* implements.  The thread pool is used through the promise of ThreadPool: *)
(* an accepted task runs.  The peer is the environment: it may answer any  *)
(* request id at any time, one whose query it has received or one it made  *)
(* up, any number of times, well formed or not, and any write may fail.  A *)
(* section that locks and always unlocks is one step, so a mutex shows     *)
(* only where it stays locked: socketMutex after a failed write,           *)
(* answersMutex between a test and the sleep.                              *)
(***************************************************************************)
EXTENDS Naturals, FiniteSets

CONSTANTS
    Handlers,
    Calls,
    CloseCalls,     \* calls that may be RemoteMethods::close instead
    Tasks,
    RetryCalls,     \* calls with retryIfDisconnected
    MaxTries,       \* config.remoteExecutionDisconnectedTries
    None

ASSUME RPCAssumption ==
    /\ IsFiniteSet(Calls)
    /\ CloseCalls \subseteq Calls
    /\ RetryCalls \subseteq Calls \ CloseCalls
    /\ MaxTries \in Nat \ {0}
    /\ None \notin Handlers \cup Calls

VARIABLES
    hpc,        \* where each handleConnection is
    phase,      \* its Connection: "new", "live", "closing" or "freed"
    up,         \* its stream can still be written
    sock,       \* mtSocket: None, or the call that returned without unlocking it
    nextId,     \* requestIdCounter
    pending,    \* pendingRequests
    answers,    \* answers, as pairs of a request id and the call it was given for
    sent,       \* what the peer has received: pairs of a request id and a call
    terminated, \* connection->terminated
    cpc,        \* where each call is
    conn,       \* the Connection a call has opened
    req,        \* its requestId
    tries,      \* its _tries
    result,     \* what it returned
    got,        \* the call whose answer it returned
    tpc,        \* where each incoming query is
    tconn       \* the handler that received it

vars == <<hpc, phase, up, sock, nextId, pending, answers, sent, terminated,
          cpc, conn, req, tries, result, got, tpc, tconn>>

connVars == <<phase, up, sock, nextId, pending, answers, sent, terminated>>
callVars == <<cpc, conn, req, tries, result, got>>
taskVars == <<tpc, tconn>>

\* Calls that hold the Connection open.
Using == {"opened", "registered", "sent", "waiting", "woken", "resleep", "cleanup", "leaked"}

TypeOK ==
    /\ hpc \in [Handlers -> {"new", "read", "overflow", "drain", "terminate", "destroy",
                             "destroying", "returned", "rejected"}]
    /\ phase \in [Handlers -> {"new", "live", "closing", "freed"}]
    /\ up \in [Handlers -> BOOLEAN]
    /\ sock \in [Handlers -> Calls \cup {None}]
    /\ nextId \in [Handlers -> 1..(Cardinality(Calls) + 1)]
    /\ pending \in [Handlers -> SUBSET (1..Cardinality(Calls))]
    /\ answers \in [Handlers -> SUBSET ((1..Cardinality(Calls)) \X Calls)]
    /\ sent \in [Handlers -> SUBSET ((1..Cardinality(Calls)) \X Calls)]
    /\ terminated \in [Handlers -> BOOLEAN]
    /\ cpc \in [Calls -> {"idle", "open", "returned"} \cup Using]
    /\ conn \in [Calls -> Handlers \cup {None}]
    /\ req \in [Calls -> 0..Cardinality(Calls)]
    /\ tries \in [Calls -> 0..MaxTries]
    /\ result \in [Calls -> {"none", "notFound", "transmission", "timeout", "lost", "answer", "closed"}]
    /\ got \in [Calls -> Calls \cup {None}]
    /\ tpc \in [Tasks -> {"idle", "queued", "refused", "done"}]
    /\ tconn \in [Tasks -> Handlers \cup {None}]

Init ==
    /\ hpc = [h \in Handlers |-> "new"]
    /\ phase = [h \in Handlers |-> "new"]
    /\ up = [h \in Handlers |-> TRUE]
    /\ sock = [h \in Handlers |-> None]
    /\ nextId = [h \in Handlers |-> 1]
    /\ pending = [h \in Handlers |-> {}]
    /\ answers = [h \in Handlers |-> {}]
    /\ sent = [h \in Handlers |-> {}]
    /\ terminated = [h \in Handlers |-> FALSE]
    /\ cpc = [c \in Calls |-> "idle"]
    /\ conn = [c \in Calls |-> None]
    /\ req = [c \in Calls |-> 0]
    /\ tries = [c \in Calls |-> 0]
    /\ result = [c \in Calls |-> "none"]
    /\ got = [c \in Calls |-> None]
    /\ tpc = [j \in Tasks |-> "idle"]
    /\ tconn = [j \in Tasks |-> None]

-----------------------------------------------------------------------------
(* Shared pieces *)

\* Calls that have taken a request id on the connection.
Asking == Using \ {"opened"}

Registered(h) == phase[h] \in {"live", "closing"}
Readers(h) == {c \in Calls : cpc[c] \in Using /\ conn[c] = h}

\* Tasks between lockShared and unlockShared of mtDone.
Undone(h) == {j \in Tasks : tpc[j] \in {"queued", "refused"} /\ tconn[j] = h}

\* answersMutex is free unless a call is between its test and its sleep.
AnswersFree(h) == \A c \in Calls : ~(cpc[c] = "resleep" /\ conn[c] = h)

\* answersCondition.notify_all()
NotifyAll(h) ==
    cpc' = [c \in Calls |-> IF cpc[c] = "waiting" /\ conn[c] = h THEN "woken" ELSE cpc[c]]

WithoutId(set, id) == {p \in set : p[1] # id}

-----------------------------------------------------------------------------
(* executeTask and close *)

StartCall(c) ==
    /\ cpc[c] = "idle"
    /\ cpc' = [cpc EXCEPT ![c] = "open"]
    /\ UNCHANGED <<hpc, connVars, conn, req, tries, result, got, taskVars>>

\* openElement finds the connection.
Open(c, h) ==
    /\ cpc[c] = "open"
    /\ phase[h] = "live"
    /\ cpc' = [cpc EXCEPT ![c] = "opened"]
    /\ conn' = [conn EXCEPT ![c] = h]
    /\ UNCHANGED <<hpc, connVars, req, tries, result, got, taskVars>>

OpenFails_NoLimit(c) ==
    /\ cpc[c] = "open"
    /\ \A h \in Handlers : phase[h] # "live"
    /\ tries' = [tries EXCEPT ![c] = @ + 1]
    /\ UNCHANGED <<hpc, connVars, cpc, conn, req, result, got, taskVars>>

\* openElement finds none: try again, or give up.
OpenFails(c) ==
    /\ cpc[c] = "open"
    /\ \A h \in Handlers : phase[h] # "live"
    /\ tries' = [tries EXCEPT ![c] = @ + 1]
    /\ \/ tries[c] + 1 < MaxTries /\ c \in RetryCalls /\ UNCHANGED <<cpc, result>>
       \/ /\ tries[c] + 1 >= MaxTries \/ c \notin RetryCalls
          /\ cpc' = [cpc EXCEPT ![c] = "returned"]
          /\ result' = [result EXCEPT ![c] = "notFound"]
    /\ UNCHANGED <<hpc, connVars, conn, req, got, taskVars>>

Register_NoCount(c) ==
    LET h == conn[c] IN
    /\ cpc[c] = "opened"
    /\ req' = [req EXCEPT ![c] = nextId[h]]
    /\ pending' = [pending EXCEPT ![h] = @ \cup {nextId[h]}]
    /\ cpc' = [cpc EXCEPT ![c] = "registered"]
    /\ UNCHANGED <<hpc, phase, up, sock, nextId, answers, sent, terminated, conn, tries, result, got,
                   taskVars>>

\* Take the next request id (under mtReqIdCt) and authorise its answer.
Register(c) ==
    LET h == conn[c] IN
    /\ cpc[c] = "opened"
    /\ req' = [req EXCEPT ![c] = nextId[h]]
    /\ nextId' = [nextId EXCEPT ![h] = @ + 1]
    /\ pending' = [pending EXCEPT ![h] = @ \cup {nextId[h]}]
    /\ cpc' = [cpc EXCEPT ![c] = "registered"]
    /\ UNCHANGED <<hpc, phase, up, sock, answers, sent, terminated, conn, tries, result, got,
                   taskVars>>

\* Write the query under socketMutex, and unlock it.
Send(c) ==
    LET h == conn[c] IN
    /\ cpc[c] = "registered"
    /\ sock[h] = None
    /\ up[h]
    /\ sent' = [sent EXCEPT ![h] = @ \cup {<<req[c], c>>}]
    /\ cpc' = [cpc EXCEPT ![c] = "sent"]
    /\ UNCHANGED <<hpc, phase, up, sock, nextId, pending, answers, terminated,
                   conn, req, tries, result, got, taskVars>>

\* A write fails: executeTask returns, with socketMutex locked, the request still
\* pending and the element still open.
SendFails(c) ==
    LET h == conn[c] IN
    /\ cpc[c] = "registered"
    /\ sock[h] = None
    /\ up' = [up EXCEPT ![h] = FALSE]
    /\ sock' = [sock EXCEPT ![h] = c]
    /\ cpc' = [cpc EXCEPT ![c] = "leaked"]
    /\ result' = [result EXCEPT ![c] = "transmission"]
    /\ UNCHANGED <<hpc, phase, nextId, pending, answers, sent, terminated,
                   conn, req, tries, got, taskVars>>

\* The first wait_for, which looks at nothing before it sleeps.
WaitAnswer(c) ==
    /\ cpc[c] = "sent"
    /\ AnswersFree(conn[c])
    /\ cpc' = [cpc EXCEPT ![c] = "waiting"]
    /\ UNCHANGED <<hpc, connVars, conn, req, tries, result, got, taskVars>>

SpuriousCall(c) ==
    /\ cpc[c] = "waiting"
    /\ cpc' = [cpc EXCEPT ![c] = "woken"]
    /\ UNCHANGED <<hpc, connVars, conn, req, tries, result, got, taskVars>>

\* The loop after a wake-up: our answer, or the end of the connection, or sleep
\* again, with answersMutex held from the test to the sleep.
TestAnswer(c) ==
    LET h == conn[c] IN
    /\ cpc[c] = "woken"
    /\ AnswersFree(h)
    /\ \/ \E p \in answers[h] :
            /\ p[1] = req[c]
            /\ got' = [got EXCEPT ![c] = p[2]]
            /\ result' = [result EXCEPT ![c] = "answer"]
            /\ cpc' = [cpc EXCEPT ![c] = "cleanup"]
       \/ /\ \A p \in answers[h] : p[1] # req[c]
          /\ terminated[h]
          /\ result' = [result EXCEPT ![c] = "lost"]
          /\ cpc' = [cpc EXCEPT ![c] = "cleanup"]
          /\ UNCHANGED got
       \/ /\ \A p \in answers[h] : p[1] # req[c]
          /\ ~terminated[h]
          /\ cpc' = [cpc EXCEPT ![c] = "resleep"]
          /\ UNCHANGED <<result, got>>
    /\ UNCHANGED <<hpc, connVars, conn, req, tries, taskVars>>

Resleep(c) ==
    /\ cpc[c] = "resleep"
    /\ cpc' = [cpc EXCEPT ![c] = "waiting"]
    /\ UNCHANGED <<hpc, connVars, conn, req, tries, result, got, taskVars>>

\* wait instead of wait_for.
Timeout_Never(c) == cpc[c] = "timeout" /\ UNCHANGED vars

\* wait_for reports a timeout by the clock, even when an answer has come.
Timeout(c) ==
    /\ cpc[c] \in {"waiting", "woken"}
    /\ AnswersFree(conn[c])
    /\ cpc' = [cpc EXCEPT ![c] = "cleanup"]
    /\ result' = [result EXCEPT ![c] = "timeout"]
    /\ UNCHANGED <<hpc, connVars, conn, req, tries, got, taskVars>>

Cleanup_AnswersOnly(c) ==
    LET h == conn[c] IN
    /\ cpc[c] = "cleanup"
    /\ AnswersFree(h)
    /\ answers' = [answers EXCEPT ![h] = WithoutId(@, req[c])]
    /\ cpc' = [cpc EXCEPT ![c] = "returned"]
    /\ UNCHANGED <<hpc, phase, up, sock, nextId, pending, sent, terminated,
                   conn, req, tries, result, got, taskVars>>

Cleanup_NoRelease(c) ==
    LET h == conn[c] IN
    /\ cpc[c] = "cleanup"
    /\ AnswersFree(h)
    /\ answers' = [answers EXCEPT ![h] = WithoutId(@, req[c])]
    /\ pending' = [pending EXCEPT ![h] = @ \ {req[c]}]
    /\ cpc' = [cpc EXCEPT ![c] = "leaked"]
    /\ UNCHANGED <<hpc, phase, up, sock, nextId, sent, terminated,
                   conn, req, tries, result, got, taskVars>>

\* Revoke the authorisation and drop the answer, releaseElement, and return.
Cleanup(c) ==
    LET h == conn[c] IN
    /\ cpc[c] = "cleanup"
    /\ AnswersFree(h)
    /\ answers' = [answers EXCEPT ![h] = WithoutId(@, req[c])]
    /\ pending' = [pending EXCEPT ![h] = @ \ {req[c]}]
    /\ cpc' = [cpc EXCEPT ![c] = "returned"]
    /\ UNCHANGED <<hpc, phase, up, sock, nextId, sent, terminated,
                   conn, req, tries, result, got, taskVars>>

\* RemoteMethods::close: write the shutdown byte, whatever becomes of it, release
\* the element and return.
CloseWrite(c) ==
    /\ cpc[c] = "opened" /\ c \in CloseCalls
    /\ sock[conn[c]] = None
    /\ cpc' = [cpc EXCEPT ![c] = "returned"]
    /\ result' = [result EXCEPT ![c] = "closed"]
    /\ UNCHANGED <<hpc, connVars, conn, req, tries, got, taskVars>>

-----------------------------------------------------------------------------
(* handleConnection *)

\* addElement: refused while an entry for the key is there, even a closing one.
handleConnection(h) ==
    /\ hpc[h] = "new"
    /\ \/ /\ \E g \in Handlers : Registered(g)
          /\ hpc' = [hpc EXCEPT ![h] = "rejected"]
          /\ UNCHANGED phase
       \/ /\ \A g \in Handlers : ~Registered(g)
          /\ hpc' = [hpc EXCEPT ![h] = "read"]
          /\ phase' = [phase EXCEPT ![h] = "live"]
    /\ UNCHANGED <<up, sock, nextId, pending, answers, sent, terminated, callVars, taskVars>>

\* What the peer may answer: a query it has received, or a request id it made up,
\* by which it then answers the call that has that id.
Answerable(h) ==
    sent[h] \cup {<<req[c], c>> : c \in {d \in Calls : cpc[d] \in Asking /\ conn[d] = h}}

\* processIncomingAnswer: store it and wake everyone; a malformed one revokes the
\* request and wakes nobody; an answer nobody waits for is only reported.
processIncomingAnswer(h) ==
    /\ hpc[h] = "read"
    /\ AnswersFree(h)
    /\ \E p \in Answerable(h) :
        /\ p[1] \in pending[h]
        /\ \/ /\ answers' = [answers EXCEPT ![h] = WithoutId(@, p[1]) \cup {p}]
              /\ NotifyAll(h)
              /\ UNCHANGED pending
           \/ /\ answers' = [answers EXCEPT ![h] = WithoutId(@, p[1])]
              /\ pending' = [pending EXCEPT ![h] = @ \ {p[1]}]
              /\ UNCHANGED cpc
    /\ UNCHANGED <<hpc, phase, up, sock, nextId, sent, terminated, conn, req, tries, result, got,
                   taskVars>>

\* processIncomingExecutionRequest: lockShared, then pushTask takes it or not.
processIncomingExecutionRequest(h, j) ==
    /\ hpc[h] = "read"
    /\ tpc[j] = "idle"
    /\ tconn' = [tconn EXCEPT ![j] = h]
    /\ \/ tpc' = [tpc EXCEPT ![j] = "queued"] /\ UNCHANGED hpc
       \/ tpc' = [tpc EXCEPT ![j] = "refused"] /\ hpc' = [hpc EXCEPT ![h] = "overflow"]
    /\ UNCHANGED <<connVars, callVars>>

\* The pool did not take it: answer here (sendRPCAnswer) and unlockShared.
AnswerOverflow(h) ==
    /\ hpc[h] = "overflow"
    /\ sock[h] = None
    /\ tpc' = [j \in Tasks |-> IF tpc[j] = "refused" /\ tconn[j] = h THEN "done" ELSE tpc[j]]
    /\ hpc' = [hpc EXCEPT ![h] = "read"]
    /\ UNCHANGED <<connVars, callVars, tconn>>

\* Shutdown byte, read timeout, invalid protocol or bad payload end the loop.
EndRead(h) ==
    /\ hpc[h] = "read"
    /\ hpc' = [hpc EXCEPT ![h] = "drain"]
    /\ UNCHANGED <<connVars, callVars, taskVars>>

Drain_NoWait(h) ==
    /\ hpc[h] = "drain"
    /\ up' = [up EXCEPT ![h] = FALSE]
    /\ hpc' = [hpc EXCEPT ![h] = "terminate"]
    /\ UNCHANGED <<phase, sock, nextId, pending, answers, sent, terminated, callVars, taskVars>>

\* mtDone.lock() waits for every task; then the socket is shut down.
Drain(h) ==
    /\ hpc[h] = "drain"
    /\ Undone(h) = {}
    /\ up' = [up EXCEPT ![h] = FALSE]
    /\ hpc' = [hpc EXCEPT ![h] = "terminate"]
    /\ UNCHANGED <<phase, sock, nextId, pending, answers, sent, terminated, callVars, taskVars>>

\* The flag and the notification, both without answersMutex.
Terminate(h) ==
    /\ hpc[h] = "terminate"
    /\ terminated' = [terminated EXCEPT ![h] = TRUE]
    /\ NotifyAll(h)
    /\ hpc' = [hpc EXCEPT ![h] = "destroy"]
    /\ UNCHANGED <<phase, up, sock, nextId, pending, answers, sent, conn, req, tries, result, got,
                   taskVars>>

\* destroyElement hides the connection ...
BeginDestroy(h) ==
    /\ hpc[h] = "destroy"
    /\ phase' = [phase EXCEPT ![h] = "closing"]
    /\ hpc' = [hpc EXCEPT ![h] = "destroying"]
    /\ UNCHANGED <<up, sock, nextId, pending, answers, sent, terminated, callVars, taskVars>>

FinishDestroy_NoWait(h) ==
    /\ hpc[h] = "destroying"
    /\ phase' = [phase EXCEPT ![h] = "freed"]
    /\ hpc' = [hpc EXCEPT ![h] = "returned"]
    /\ UNCHANGED <<up, sock, nextId, pending, answers, sent, terminated, callVars, taskVars>>

\* ... and deletes it when no call has it open; handleConnection returns, and
\* its mutexes and session go with it.
FinishDestroy(h) ==
    /\ hpc[h] = "destroying"
    /\ Readers(h) = {}
    /\ phase' = [phase EXCEPT ![h] = "freed"]
    /\ hpc' = [hpc EXCEPT ![h] = "returned"]
    /\ UNCHANGED <<up, sock, nextId, pending, answers, sent, terminated, callVars, taskVars>>

-----------------------------------------------------------------------------
(* Tasks on the pool *)

\* A worker of the pool runs the task: the method, then sendRPCAnswer under
\* socketMutex, whatever becomes of the write, then unlockShared.
AnswerTask(j) ==
    /\ tpc[j] = "queued"
    /\ sock[tconn[j]] = None
    /\ tpc' = [tpc EXCEPT ![j] = "done"]
    /\ UNCHANGED <<hpc, connVars, callVars, tconn>>

-----------------------------------------------------------------------------

CallStep(c) ==
    \/ (\E h \in Handlers : Open(c, h)) \/ OpenFails(c)
    \/ Register(c) \/ Send(c) \/ SendFails(c)
    \/ WaitAnswer(c) \/ TestAnswer(c) \/ Resleep(c)
    \/ Cleanup(c) \/ CloseWrite(c)

HandlerStep(h) ==
    \/ AnswerOverflow(h) \/ Drain(h) \/ Terminate(h) \/ BeginDestroy(h) \/ FinishDestroy(h)

Next ==
    \/ \E c \in Calls : StartCall(c) \/ CallStep(c) \/ SpuriousCall(c) \/ Timeout(c)
    \/ \E h \in Handlers :
        \/ handleConnection(h) \/ processIncomingAnswer(h) \/ EndRead(h) \/ HandlerStep(h)
        \/ \E j \in Tasks : processIncomingExecutionRequest(h, j)
    \/ \E j \in Tasks : AnswerTask(j)

Spec == Init /\ [][Next]_vars

\* Threads keep running, and a call that sleeps undisturbed for
\* remoteExecutionTimeoutInMS times out; one that is woken starts its interval
\* again, so the timeout is weakly fair only.  Neither the peer nor the network nor a
\* caller owes a step, and a handler may read for ever.
Fairness ==
    /\ \A c \in Calls : WF_vars(CallStep(c)) /\ WF_vars(Timeout(c))
    /\ \A h \in Handlers : WF_vars(HandlerStep(h))
    /\ \A j \in Tasks : WF_vars(AnswerTask(j))

FairSpec == Spec /\ Fairness

-----------------------------------------------------------------------------
(* Properties *)

InCall(c) == cpc[c] \in Using \cup {"open"}

\* Nobody uses what has gone with a returned handleConnection: a call that has
\* the Connection open finds it alive with its socketMutex, and a task that
\* holds mtDone finds its handler still before the end of the wait for it.
NothingDangles ==
    /\ \A c \in Calls : cpc[c] \in Using =>
         phase[conn[c]] \in {"live", "closing"} /\ hpc[conn[c]] # "returned"
    /\ \A j \in Tasks : tpc[j] \in {"queued", "refused"} =>
         hpc[tconn[j]] \in {"read", "overflow", "drain"}

\* A call returns an answer only if the peer gave it for that very call: to its
\* query, or, made up, under its request id while the request was authorised,
\* whatever timeouts, late, repeated, early and malformed answers there are.
OwnAnswer == \A c \in Calls : result[c] = "answer" => got[c] = c

\* A request is authorised on a connection only while its call is in progress
\* there (or has leaked it), and answers are kept only for authorised requests.
NoStaleRequests ==
    \A h \in Handlers :
        /\ \A id \in pending[h] : \E c \in Calls :
             conn[c] = h /\ req[c] = id /\ cpc[c] \in Asking
        /\ \A p \in answers[h] : p[1] \in pending[h]

\* The calls that hold each Connection open, as the map counts them.
usersBar == [h \in Handlers |-> Readers(h)]

Life == INSTANCE ElementLifetime WITH
    Threads <- Calls, Items <- Handlers, phase <- phase, users <- usersBar

\* FastRPC3 uses m_connectionMapById as Threads::Safe::Map promises it works: a
\* Connection is handed to no call once its handler has begun to destroy it, and
\* handleConnection returns only when no call, a leaked one included, has it open.
ConnectionLifetime == Life!LifeSpec

\* notify_all, or a spurious wake-up, interrupts the waits on c's connection again
\* and again: each starts its whole interval afresh.
WokenForEver(c) == []<>(\E d \in Calls : conn[d] = conn[c] /\ cpc[d] = "woken")

\* Every call returns, unless a failed write left socketMutex locked on the very
\* connection it has opened or wake-ups there never end: the answer, the end of
\* the connection or the timeout ends each wait.
CallsReturnUnlessLeak ==
    \A c \in Calls :
        \/ (InCall(c) ~> (~InCall(c) \/ (conn[c] # None /\ sock[conn[c]] # None)))
        \/ WokenForEver(c)

\* Every handleConnection that has left its loop returns, unless a failed write
\* left its socketMutex locked: the tasks finish and the calls release.
HandlerReturnsUnlessLeak ==
    \A h \in Handlers : hpc[h] = "drain" ~> (hpc[h] = "returned" \/ sock[h] # None)

\* fastrpc3.h, executeTask: returns "A JSON object containing the answer from the
\* remote method, or Json::nullValue if no answer is received, there's a timeout,
\* or an error occurs": every call returns, at least where wake-ups end.
CallsReturn ==
    \A c \in Calls :
        (InCall(c) ~> cpc[c] \in {"returned", "leaked"}) \/ WokenForEver(c)

=============================================================================
