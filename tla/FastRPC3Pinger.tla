--------------------------- MODULE FastRPC3Pinger ---------------------------
(***************************************************************************)
(* The pinger thread of FastRPC3 and the destructor that has to end it.    *)
(*                                                                         *)
(* The thread alternates waitPingInterval and pingAllActiveConnections;    *)
(* ~FastRPC3 sets m_isFinished, notifies m_pingCondition under             *)
(* m_pingMutex and joins.  m_pingMutex is held by the pinger only inside   *)
(* waitPingInterval, whose lock and sleep are one step.  One ping is one   *)
(* call of executeTask, which FastRPC3 models; here it starts and returns. *)
(* As for any C++ object, the destructor runs when no handleConnection     *)
(* uses the object any more.                                               *)
(***************************************************************************)
EXTENDS FiniteSets

CONSTANTS Keys      \* keys of m_connectionMapById

VARIABLES
    connected,      \* the keys with a connection
    todo,           \* keys pingAllActiveConnections still has to visit
    ppc,            \* where the pinger is
    isFinished,     \* m_isFinished
    opc             \* where the owner is

vars == <<connected, todo, ppc, isFinished, opc>>

Init ==
    /\ connected = {}
    /\ todo = {}
    /\ ppc = "loop"
    /\ isFinished = FALSE
    /\ opc = "serving"

-----------------------------------------------------------------------------
(* The pinger *)

\* waitPingInterval goes to sleep, whatever m_isFinished is.
waitPingInterval ==
    /\ ppc = "loop"
    /\ ppc' = "wait"
    /\ UNCHANGED <<connected, todo, isFinished, opc>>

\* The interval is over: pingAllActiveConnections takes the keys.
PingTimeout ==
    /\ ppc = "wait"
    /\ ppc' = "ping"
    /\ todo' = connected
    /\ UNCHANGED <<connected, isFinished, opc>>

\* A wake-up that nobody sent also ends the loop.
SpuriousEnd ==
    /\ ppc = "wait"
    /\ ppc' = "exited"
    /\ UNCHANGED <<connected, todo, isFinished, opc>>

Ping(k) ==
    /\ ppc = "ping" /\ k \in todo
    /\ ~isFinished
    /\ todo' = todo \ {k}
    /\ ppc' = "call"
    /\ UNCHANGED <<connected, isFinished, opc>>

PingReturn ==
    /\ ppc = "call"
    /\ ppc' = "ping"
    /\ UNCHANGED <<connected, todo, isFinished, opc>>

\* No key left, or no more hosts to be pinged: back to the loop of the thread.
PingEnd ==
    /\ ppc = "ping"
    /\ todo = {} \/ isFinished
    /\ todo' = {}
    /\ ppc' = "loop"
    /\ UNCHANGED <<connected, isFinished, opc>>

-----------------------------------------------------------------------------
(* Connections and the owner *)

Connect(k) ==
    /\ opc = "serving" /\ k \notin connected
    /\ connected' = connected \cup {k}
    /\ UNCHANGED <<todo, ppc, isFinished, opc>>

Disconnect(k) ==
    /\ k \in connected
    /\ connected' = connected \ {k}
    /\ UNCHANGED <<todo, ppc, isFinished, opc>>

FinishPings ==
    /\ opc = "serving" /\ connected = {}
    /\ isFinished' = TRUE
    /\ opc' = "finishing"
    /\ UNCHANGED <<connected, todo, ppc>>

\* The notification reaches the pinger only if it sleeps.
NotifyPings ==
    /\ opc = "finishing"
    /\ ppc' = IF ppc = "wait" THEN "exited" ELSE ppc
    /\ opc' = "joining"
    /\ UNCHANGED <<connected, todo, isFinished>>

Join ==
    /\ opc = "joining" /\ ppc = "exited"
    /\ opc' = "joined"
    /\ UNCHANGED <<connected, todo, ppc, isFinished>>

-----------------------------------------------------------------------------

PingerStep ==
    waitPingInterval \/ PingTimeout \/ PingReturn \/ PingEnd \/ \E k \in Keys : Ping(k)

OwnerStep == NotifyPings \/ Join

Next ==
    \/ PingerStep \/ SpuriousEnd \/ OwnerStep \/ FinishPings
    \/ \E k \in Keys : Connect(k) \/ Disconnect(k)

\* Both threads keep running, intervals end and pings return; nobody owes a
\* connection, the end of the object or a spurious wake-up.
FairSpec == Init /\ [][Next]_vars /\ WF_vars(PingerStep) /\ WF_vars(OwnerStep)

\* fastrpc3.cpp:71, "Notify that pings should stop now...", and :77, "Wait until
\* the loop ends...": once the destructor has begun, the loop of the pinger ends
\* and the destructor gets past the join.
DestructorReturns == opc = "finishing" ~> opc = "joined"

=============================================================================
