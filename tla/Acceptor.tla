------------------------------ MODULE Acceptor ------------------------------
(***************************************************************************)
(* Acceptors::MultiThreaded with the StreamAcceptorThreads it starts       *)
(* (Net_Sockets): one thread accepts connections and hands each to a       *)
(* detached thread of its own, which uses the acceptor by a bare pointer   *)
(* when its client is gone.                                                *)
(*                                                                         *)
(* m_mutexClients is modelled by its holder where it is held over several  *)
(* steps: while a callback refuses a connection, and while a client thread *)
(* has left the list and has not yet notified.  A section that nobody can  *)
(* observe half done is one step.  The acceptor lives while its owner or   *)
(* its background thread holds a reference; startBlocking runs in a thread *)
(* of the owner, which holds one meanwhile.  The time a connection may     *)
(* wait (maxWaitMSTime) may run out at any moment of the wait.             *)
(***************************************************************************)
EXTENDS Naturals, FiniteSets

CONSTANTS
    Clients,        \* the connections that may arrive
    IPs,
    Address,        \* getRemotePair of each connection
    Limits,         \* values setMaxConcurrentClients is called with
    IPLimits,       \* values setMaxConnectionsPerIP is called with
    MaxSettings,    \* bound: how often the owner calls the setters of Config
    Nobody, AcceptThread, NoClient

ASSUME AcceptorAssumption ==
    /\ IsFiniteSet(Clients)
    /\ Address \in [Clients -> IPs]
    /\ Limits \subseteq Nat /\ Limits # {}
    /\ IPLimits \subseteq Nat /\ IPLimits # {}
    /\ MaxSettings \in Nat
    /\ Cardinality({Nobody, AcceptThread, NoClient}) = 3
    /\ Clients \cap {Nobody, AcceptThread, NoClient} = {}

VARIABLES
    acceptor,           \* where the accepting thread is
    background,         \* m_initialized: startInBackground was called
    pending,            \* the connection processClient is deciding on
    notFull,            \* the wait on m_condClientsNotFull has been notified
    client,             \* where each connection, and its thread, is
    threadList,         \* m_threadList
    connectionsPerIP,   \* m_connectionsPerIP, 0 where the map has no entry
    maxConcurrentClients,
    maxConnectionsPerIP,
    settings,           \* how often a setter of Config was called
    setting,            \* a setter of Config has unlocked and not yet notified
    holder,             \* who holds m_mutexClients between two steps
    listening,          \* the listener socket has not been shut down
    owned,              \* the owner still holds its reference
    destructor,         \* where ~MultiThreaded is
    selfDestroyed,      \* ~MultiThreaded runs in the accepting thread
    finalized,          \* m_finalized
    empty,              \* the wait on m_condClientsEmpty has been notified
    shut                \* the connections stopSocket was called for

acceptVars == <<acceptor, background, pending, notFull>>
clientVars == <<client, threadList, connectionsPerIP>>
configVars == <<maxConcurrentClients, maxConnectionsPerIP, settings, setting>>
lifeVars == <<listening, owned>>
destructorVars == <<destructor, selfDestroyed, finalized, empty, shut>>
vars == <<acceptVars, clientVars, configVars, holder, lifeVars, destructorVars>>

\* The connections of one address whose threads are in the list.
Of(ip) == {c \in threadList : Address[c] = ip}

TypeOK ==
    /\ acceptor \in {"none", "accepting", "accepted", "waiting", "timedout",
                     "refusing", "ended", "released"}
    /\ background \in BOOLEAN
    /\ pending \in Clients \cup {NoClient}
    /\ (pending # NoClient) <=>
         (acceptor \in {"accepted", "waiting", "timedout", "refusing"})
    /\ notFull \in BOOLEAN
    /\ client \in [Clients -> {"new", "pending", "serving", "finishing",
                               "notifying", "gone", "closed"}]
    /\ threadList = {c \in Clients : client[c] \in {"serving", "finishing"}}
    /\ connectionsPerIP \in [IPs -> 0..Cardinality(Clients)]
    /\ maxConcurrentClients \in Limits
    /\ maxConnectionsPerIP \in IPLimits
    /\ settings \in 0..MaxSettings
    /\ setting \in BOOLEAN
    /\ holder \in Clients \cup {Nobody, AcceptThread}
    /\ listening \in BOOLEAN
    /\ owned \in BOOLEAN
    /\ destructor \in {"none", "stop", "join", "close", "emptying", "done"}
    /\ selfDestroyed \in BOOLEAN
    /\ finalized \in BOOLEAN
    /\ empty \in BOOLEAN
    /\ shut \in SUBSET Clients

Init ==
    /\ acceptor = "none"
    /\ background = FALSE
    /\ pending = NoClient
    /\ notFull = FALSE
    /\ client = [c \in Clients |-> "new"]
    /\ threadList = {}
    /\ connectionsPerIP = [ip \in IPs |-> 0]
    /\ maxConcurrentClients \in Limits
    /\ maxConnectionsPerIP \in IPLimits
    /\ settings = 0
    /\ setting = FALSE
    /\ holder = Nobody
    /\ listening = TRUE
    /\ owned = TRUE
    /\ destructor = "none"
    /\ selfDestroyed = FALSE
    /\ finalized = FALSE
    /\ empty = FALSE
    /\ shut = {}

-----------------------------------------------------------------------------
(* The owner *)

\* Listener and the web server start the acceptor once, with its socket and its
\* callbacks set.
startInBackground ==
    /\ owned /\ acceptor = "none"
    /\ background' = TRUE
    /\ acceptor' = "accepting"
    /\ UNCHANGED <<pending, notFull, clientVars, configVars, holder, lifeVars, destructorVars>>

startBlocking ==
    /\ owned /\ acceptor = "none"
    /\ acceptor' = "accepting"
    /\ UNCHANGED <<background, pending, notFull, clientVars, configVars, holder,
                   lifeVars, destructorVars>>

stop ==
    /\ owned /\ listening
    /\ listening' = FALSE
    /\ UNCHANGED <<acceptVars, clientVars, configVars, holder, owned, destructorVars>>

\* A setter of Config has the lock, and leaves it to its notification.
Set(notifies) ==
    /\ owned /\ holder = Nobody /\ ~setting
    /\ settings < MaxSettings
    /\ settings' = settings + 1
    /\ setting' = notifies
    /\ UNCHANGED <<acceptVars, clientVars, holder, lifeVars, destructorVars>>

setMaxConcurrentClients(n) ==
    /\ Set(TRUE)
    /\ maxConcurrentClients' = n
    /\ UNCHANGED maxConnectionsPerIP

setMaxConnectionsPerIP(n) ==
    /\ Set(FALSE)
    /\ maxConnectionsPerIP' = n
    /\ UNCHANGED maxConcurrentClients

\* A wait that has begun keeps the deadline it had: the new time only shows in
\* the notification.
setMaxWaitMSTime ==
    /\ Set(TRUE)
    /\ UNCHANGED <<maxConcurrentClients, maxConnectionsPerIP>>

\* The notify_all that ends two of the setters, after they have unlocked.
SetterNotifies ==
    /\ setting
    /\ setting' = FALSE
    /\ notFull' = (notFull \/ acceptor = "waiting")
    /\ UNCHANGED <<acceptor, background, pending, clientVars, maxConcurrentClients,
                   maxConnectionsPerIP, settings, holder, lifeVars, destructorVars>>

\* The thread works on a bare pointer.
HeldByThread_Bare == FALSE

\* The background thread holds the reference startInBackground gave it until its
\* function has returned; the one that runs startBlocking is the owner's.
HeldByThread == background /\ acceptor # "released"

\* The owner lets go of its reference, which destroys the acceptor unless the
\* background thread still holds one.
Release ==
    /\ owned /\ ~setting
    /\ background \/ acceptor \in {"none", "released"}
    /\ owned' = FALSE
    /\ destructor' = IF HeldByThread THEN destructor ELSE "stop"
    /\ UNCHANGED <<acceptVars, clientVars, configVars, holder, listening, selfDestroyed,
                   finalized, empty, shut>>

-----------------------------------------------------------------------------
(* The accepting thread *)

\* acceptConnection, and what acceptClient prepares for the new connection.
Accept(c) ==
    /\ acceptor = "accepting" /\ listening /\ client[c] = "new"
    /\ client' = [client EXCEPT ![c] = "pending"]
    /\ pending' = c
    /\ acceptor' = "accepted"
    /\ UNCHANGED <<background, notFull, threadList, connectionsPerIP, configVars, holder,
                   lifeVars, destructorVars>>

\* accept() fails once the listener is shut down, and whenever the system refuses
\* (no descriptor left, a connection aborted before it was accepted): the loop of
\* thread_streamaccept, or of startBlocking, ends.
AcceptFails ==
    /\ acceptor = "accepting"
    /\ acceptor' = "ended"
    /\ UNCHANGED <<background, pending, notFull, clientVars, configVars, holder,
                   lifeVars, destructorVars>>

\* The condition of the wait loop.
Full == Cardinality(threadList) >= maxConcurrentClients /\ ~finalized

\* An entry that would reach 0 is erased; with none, decrementIPUsage throws.
incrementIPUsage(ip) == [connectionsPerIP EXCEPT ![ip] = @ + 1]

decrementIPUsage(ip) == [connectionsPerIP EXCEPT ![ip] = @ - 1]

\* processClient is entered, or its wait was notified: it holds the lock here.
InProcessClient ==
    /\ holder = Nobody
    /\ acceptor = "accepted" \/ (acceptor = "waiting" /\ notFull)

Wait ==
    /\ InProcessClient /\ Full
    /\ acceptor' = "waiting"
    /\ notFull' = FALSE
    /\ UNCHANGED <<background, pending, clientVars, configVars, holder, lifeVars, destructorVars>>

\* wait in place of wait_for.
TimedOut_Never == FALSE

\* wait_for reports the timeout by the clock, notified or not, and the condition is
\* not looked at again: the callback refuses the connection, with the lock held.
TimedOut ==
    /\ acceptor = "waiting" /\ holder = Nobody
    /\ acceptor' = "timedout"
    /\ holder' = AcceptThread
    /\ notFull' = FALSE
    /\ UNCHANGED <<background, pending, clientVars, configVars, lifeVars, destructorVars>>

\* Too many connections of this address: the callback refuses it, with the lock
\* held and the connection counted.  (Where processClient finds m_finalized it
\* returns false; FinalizedLast is that it never does.)
Refuse ==
    /\ InProcessClient /\ ~Full /\ ~finalized
    /\ connectionsPerIP' = incrementIPUsage(Address[pending])
    /\ connectionsPerIP'[Address[pending]] > maxConnectionsPerIP
    /\ acceptor' = "refusing"
    /\ holder' = AcceptThread
    /\ notFull' = FALSE
    /\ UNCHANGED <<background, pending, client, threadList, configVars, lifeVars, destructorVars>>

RefusalEnds_StillCounted ==
    /\ acceptor \in {"timedout", "refusing"}
    /\ client' = [client EXCEPT ![pending] = "closed"]
    /\ pending' = NoClient
    /\ acceptor' = "accepting"
    /\ holder' = Nobody
    /\ UNCHANGED <<background, notFull, threadList, connectionsPerIP, configVars, lifeVars,
                   destructorVars>>

\* The callback returns; a connection over the limit is counted off again.
RefusalEnds ==
    /\ acceptor \in {"timedout", "refusing"}
    /\ connectionsPerIP' = IF acceptor = "refusing" THEN decrementIPUsage(Address[pending])
                           ELSE connectionsPerIP
    /\ client' = [client EXCEPT ![pending] = "closed"]
    /\ pending' = NoClient
    /\ acceptor' = "accepting"
    /\ holder' = Nobody
    /\ UNCHANGED <<background, notFull, threadList, configVars, lifeVars, destructorVars>>

\* The condition is tested once and not again after the wait.
Admit_IfForWhile ==
    /\ InProcessClient /\ (acceptor = "waiting" \/ ~Full)
    /\ connectionsPerIP' = incrementIPUsage(Address[pending])
    /\ connectionsPerIP'[Address[pending]] <= maxConnectionsPerIP
    /\ threadList' = threadList \cup {pending}
    /\ client' = [client EXCEPT ![pending] = "serving"]
    /\ pending' = NoClient
    /\ acceptor' = "accepting"
    /\ notFull' = FALSE
    /\ UNCHANGED <<background, configVars, holder, lifeVars, destructorVars>>

\* The connection is listed and its thread is started and detached.
Admit ==
    /\ InProcessClient /\ ~Full /\ ~finalized
    /\ connectionsPerIP' = incrementIPUsage(Address[pending])
    /\ connectionsPerIP'[Address[pending]] <= maxConnectionsPerIP
    /\ threadList' = threadList \cup {pending}
    /\ client' = [client EXCEPT ![pending] = "serving"]
    /\ pending' = NoClient
    /\ acceptor' = "accepting"
    /\ notFull' = FALSE
    /\ UNCHANGED <<background, configVars, holder, lifeVars, destructorVars>>

\* The accepting thread is done: startBlocking shuts the listener down and returns,
\* the background thread drops its reference, and destroys what nobody else holds.
AcceptThreadEnds ==
    /\ acceptor = "ended"
    /\ acceptor' = "released"
    /\ listening' = (listening /\ background)
    /\ selfDestroyed' = ~owned
    /\ destructor' = IF owned THEN destructor ELSE "stop"
    /\ UNCHANGED <<background, pending, notFull, clientVars, configVars, holder, owned,
                   finalized, empty, shut>>

-----------------------------------------------------------------------------
(* A client's thread *)

\* postInitConnection returns: the callback has served the connection or its
\* initialization failed.  The callback returns true, as all of this repository do:
\* on false the socket is dropped, and finalizeThreadElement needs its address.
postInitConnection(c) ==
    /\ client[c] = "serving"
    /\ client' = [client EXCEPT ![c] = "finishing"]
    /\ UNCHANGED <<acceptVars, threadList, connectionsPerIP, configVars, holder, lifeVars,
                   destructorVars>>

finalizeThreadElement_StaysListed(c) ==
    /\ client[c] = "finishing" /\ holder = Nobody
    /\ connectionsPerIP' = decrementIPUsage(Address[c])
    /\ client' = [client EXCEPT ![c] = "notifying"]
    /\ holder' = c
    /\ UNCHANGED <<acceptVars, threadList, configVars, lifeVars, destructorVars>>

\* Unlocks before it notifies.
finalizeThreadElement_Unlocks(c) ==
    /\ client[c] = "finishing" /\ holder = Nobody
    /\ threadList' = threadList \ {c}
    /\ connectionsPerIP' = decrementIPUsage(Address[c])
    /\ client' = [client EXCEPT ![c] = "notifying"]
    /\ UNCHANGED <<acceptVars, configVars, holder, lifeVars, destructorVars>>

\* finalizeThreadElement takes the thread off the list and counts it off ...
finalizeThreadElement(c) ==
    /\ client[c] = "finishing" /\ holder = Nobody
    /\ threadList' = threadList \ {c}
    /\ connectionsPerIP' = decrementIPUsage(Address[c])
    /\ client' = [client EXCEPT ![c] = "notifying"]
    /\ holder' = c
    /\ UNCHANGED <<acceptVars, configVars, lifeVars, destructorVars>>

Notify_NotFullOnly(c) ==
    /\ client[c] = "notifying"
    /\ notFull' = (notFull \/ acceptor = "waiting")
    /\ client' = [client EXCEPT ![c] = "gone"]
    /\ holder' = Nobody
    /\ UNCHANGED <<acceptor, background, pending, threadList, connectionsPerIP, configVars,
                   lifeVars, destructorVars>>

\* Tells the waiting connection only when nobody is left.
Notify_WhenEmpty(c) ==
    /\ client[c] = "notifying"
    /\ notFull' = (notFull \/ (acceptor = "waiting" /\ threadList = {}))
    /\ empty' = (empty \/ (threadList = {} /\ destructor = "emptying"))
    /\ client' = [client EXCEPT ![c] = "gone"]
    /\ holder' = Nobody
    /\ UNCHANGED <<acceptor, background, pending, threadList, connectionsPerIP, configVars,
                   lifeVars, destructor, selfDestroyed, finalized, shut>>

\* ... and notifies, the last use its thread makes of the acceptor.
Notify(c) ==
    /\ client[c] = "notifying"
    /\ notFull' = (notFull \/ acceptor = "waiting")
    /\ empty' = (empty \/ (threadList = {} /\ destructor = "emptying"))
    /\ client' = [client EXCEPT ![c] = "gone"]
    /\ holder' = Nobody
    /\ UNCHANGED <<acceptor, background, pending, threadList, connectionsPerIP, configVars,
                   lifeVars, destructor, selfDestroyed, finalized, shut>>

-----------------------------------------------------------------------------
(* ~MultiThreaded *)

\* stop(), m_finalized under the lock, and the notify_all.
DestructorStops ==
    /\ destructor = "stop" /\ holder = Nobody
    /\ listening' = FALSE
    /\ finalized' = TRUE
    /\ notFull' = (notFull \/ acceptor = "waiting")
    /\ destructor' = "join"
    /\ UNCHANGED <<acceptor, background, pending, clientVars, configVars, holder, owned,
                   selfDestroyed, empty, shut>>

\* The join of the background thread.  From that very thread it throws
\* std::system_error out of the destructor, which terminates the process: that
\* state has no step here, and WaitsForFinalization is that it is not reached.
DestructorJoins ==
    /\ destructor = "join"
    /\ ~background \/ (acceptor = "released" /\ ~selfDestroyed)
    /\ destructor' = "close"
    /\ UNCHANGED <<acceptVars, clientVars, configVars, holder, lifeVars, selfDestroyed,
                   finalized, empty, shut>>

\* stopSocket on every connection, then the wait for the list to be empty.
DestructorStopsClients ==
    /\ destructor = "close" /\ holder = Nobody
    /\ shut' = threadList
    /\ destructor' = IF threadList = {} THEN "done" ELSE "emptying"
    /\ UNCHANGED <<acceptVars, clientVars, configVars, holder, lifeVars, selfDestroyed,
                   finalized, empty>>

DestructorEnds ==
    /\ destructor = "emptying" /\ empty /\ holder = Nobody /\ threadList = {}
    /\ destructor' = "done"
    /\ UNCHANGED <<acceptVars, clientVars, configVars, holder, lifeVars, selfDestroyed,
                   finalized, empty, shut>>

-----------------------------------------------------------------------------

Next ==
    \/ startInBackground \/ startBlocking \/ stop \/ Release
    \/ \E n \in Limits : setMaxConcurrentClients(n)
    \/ \E n \in IPLimits : setMaxConnectionsPerIP(n)
    \/ setMaxWaitMSTime \/ SetterNotifies
    \/ \E c \in Clients : Accept(c)
    \/ AcceptFails \/ Wait \/ TimedOut \/ Refuse \/ RefusalEnds \/ Admit \/ AcceptThreadEnds
    \/ \E c \in Clients : postInitConnection(c) \/ finalizeThreadElement(c) \/ Notify(c)
    \/ DestructorStops \/ DestructorJoins \/ DestructorStopsClients \/ DestructorEnds

Spec == Init /\ [][Next]_vars

\* Threads are scheduled, callbacks return, a wait times out, accept() returns once
\* the listener is shut down, and a client's callback returns once its socket is.
\* Nothing makes a client leave before that, or the owner stop or let go.
Fairness ==
    /\ WF_vars(SetterNotifies)
    /\ WF_vars(AcceptFails /\ ~listening)
    /\ WF_vars(Wait \/ Refuse \/ Admit)
    /\ WF_vars(TimedOut /\ ~notFull)
    /\ WF_vars(RefusalEnds)
    /\ WF_vars(AcceptThreadEnds)
    /\ \A c \in Clients :
         /\ WF_vars(postInitConnection(c) /\ c \in shut)
         /\ WF_vars(finalizeThreadElement(c))
         /\ WF_vars(Notify(c))
    /\ WF_vars(DestructorStops) /\ WF_vars(DestructorJoins)
    /\ WF_vars(DestructorStopsClients) /\ WF_vars(DestructorEnds)

FairSpec == Spec /\ Fairness

-----------------------------------------------------------------------------
(* Properties *)

\* m_connectionsPerIP holds, for every address, the number of its threads in the
\* list, and one more only while the callback of the per-address limit runs: it
\* never lets an address in too often, never shuts one out for good, and
\* decrementIPUsage never throws.
CountsMatch ==
    \A ip \in IPs :
        connectionsPerIP[ip] = Cardinality(Of(ip))
            + (IF acceptor = "refusing" /\ Address[pending] = ip THEN 1 ELSE 0)

\* ~MultiThreaded returns only when no client's thread will use the acceptor again,
\* although each holds a bare pointer to it and nothing joins them.
UsersOutlived ==
    destructor = "done" =>
        \A c \in Clients : client[c] \notin {"pending", "serving", "finishing", "notifying"}

\* The destructor runs only after the accepting thread has left processClient, so
\* the m_finalized it sets is never seen there.
FinalizedLast == destructor # "none" => acceptor \in {"none", "released"}

\* To the threads that use it by a bare pointer the acceptor is what an element of
\* Safe::Map is to its readers: nobody begins to use it once its destruction has
\* begun, and it is gone only when nobody does.  One that was never started has no
\* users and stays "new".
phaseBar == [i \in {"acceptor"} |->
    IF acceptor = "none" THEN "new"
    ELSE IF destructor = "none" THEN "live"
    ELSE IF destructor = "done" THEN "freed" ELSE "closing"]
usersBar == [i \in {"acceptor"} |->
    {c \in Clients : client[c] \in {"serving", "finishing", "notifying"}}]

Life == INSTANCE ElementLifetime
    WITH Threads <- Clients, Items <- {"acceptor"}, phase <- phaseBar, users <- usersBar
Lifetime == Life!LifeSpec

\* A connection never waits for a slot that is free: whenever processClient sleeps
\* and the list is below the limit, it has been notified, or whoever made the room
\* (a client's thread, or setMaxConcurrentClients) is about to notify.
NoLostWakeup ==
    (acceptor = "waiting" /\ ~Full) =>
        notFull \/ setting \/ \E c \in Clients : client[c] = "notifying"

\* No step lists a connection beyond the limits in force at that moment, whatever
\* the setters did while it waited.
AdmittedWithinLimits ==
    [][\A c \in Clients : c \in threadList' \ threadList =>
            /\ Cardinality(threadList') <= maxConcurrentClients
            /\ Cardinality({d \in threadList' : Address[d] = Address[c]}) <= maxConnectionsPerIP]_vars

\* Every accepted connection is served or refused, even when no client ever leaves.
EveryClientDecided ==
    \A c \in Clients : client[c] = "pending" ~> client[c] # "pending"

\* A destructor that has begun in another thread than the accepting one returns: the
\* clients' threads end when their sockets are shut down and the last one wakes it.
DestructionEnds == (destructor = "stop" /\ ~selfDestroyed) ~> destructor = "done"

\* acceptor_multithreaded.h:51 says of startInBackground: "Start accepting connections in a
\* new thread (will wait for finalization in destructor)": the destructor waits for
\* that thread, and never from inside it.
WaitsForFinalization == ~(destructor = "join" /\ background /\ selfDestroyed)
=============================================================================
