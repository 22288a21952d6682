---------------------------- MODULE WebSessions ----------------------------
(***************************************************************************)
(* WebSessionsManager (Server_MonolithWebAPI) and the GarbageCollector     *)
(* (Threads) that it derives from and that runs its gc().                  *)
(*                                                                         *)
(* Threads are the threads that serve requests, each in at most one call   *)
(* of the manager, or between openSession and releaseSession.  m_sessions  *)
(* is used through the promise of ElementLifetime, as SafeMap implements   *)
(* it: a session is open to readers while "live", hidden while "closing",  *)
(* and leaves the map when its last reader has released it.  A section     *)
(* under m_mutex is one step.  Time is reduced to whether a session has    *)
(* been inactive for more than m_MaxInactiveSeconds.                       *)
(***************************************************************************)
EXTENDS Naturals, FiniteSets

CONSTANTS
    Threads,
    Users,
    Ids,            \* the session ids createRandomString draws from
    MaxSessions,    \* m_maxSessionsPerUser
    None

ASSUME WebSessionsAssumption ==
    /\ IsFiniteSet(Ids)
    /\ MaxSessions \in Nat
    /\ None \notin Users \cup Ids

VARIABLES
    phase,      \* each id in m_sessions: "absent", "live" or "closing"
    user,       \* the user of the session with that id
    expired,    \* the session has been inactive for too long
    info,       \* m_sessionClientInfo: the ids registered for each user
    known,      \* the users that have an entry in m_sessionClientInfo
    drawn,      \* the ids drawn so far
    collided,   \* an id has been drawn twice
    tpc,        \* where each thread is
    tid,        \* the session its call is about
    tuser,      \* the user its call has read or was given
    gpc,        \* where the collector's thread is
    todo,       \* keys that gc() still has to visit
    gid,        \* the session gc() is at
    gcFinished  \* m_gcFinished

vars == <<phase, user, expired, info, known, drawn, collided, tpc, tid, tuser,
          gpc, todo, gid, gcFinished>>

sessionVars == <<phase, user, expired>>
infoVars == <<info, known>>
drawVars == <<drawn, collided>>
threadVars == <<tpc, tid, tuser>>
gcVars == <<gpc, todo, gid, gcFinished>>

TypeOK ==
    /\ phase \in [Ids -> {"absent", "live", "closing"}]
    /\ user \in [Ids -> Users \cup {None}]
    /\ expired \in [Ids -> BOOLEAN]
    /\ info \in [Users -> SUBSET Ids]
    /\ known \in SUBSET Users
    /\ drawn \in SUBSET Ids
    /\ collided \in BOOLEAN
    /\ tpc \in [Threads -> {"idle", "add", "using", "destroy", "destroying", "erase", "threw"}]
    /\ tid \in [Threads -> Ids \cup {None}]
    /\ tuser \in [Threads -> Users \cup {None}]
    /\ gpc \in {"start", "wait", "woken", "gc", "expired", "destroying", "exited"}
    /\ todo \in SUBSET Ids
    /\ gid \in Ids \cup {None}
    /\ gcFinished \in BOOLEAN
    /\ \A u \in Users : info[u] # {} => u \in known
    /\ \A t \in Threads :
         /\ tpc[t] # "idle" => tid[t] \in Ids
         /\ tpc[t] \notin {"idle", "using"} => tuser[t] \in Users

Init ==
    /\ phase = [i \in Ids |-> "absent"]
    /\ user = [i \in Ids |-> None]
    /\ expired = [i \in Ids |-> FALSE]
    /\ info = [u \in Users |-> {}]
    /\ known = {}
    /\ drawn = {}
    /\ collided = FALSE
    /\ tpc = [t \in Threads |-> "idle"]
    /\ tid = [t \in Threads |-> None]
    /\ tuser = [t \in Threads |-> None]
    /\ gpc = "start"
    /\ todo = {}
    /\ gid = None
    /\ gcFinished = FALSE

-----------------------------------------------------------------------------
(* Shared pieces *)

\* delete the session and erase its key.
DeleteElement(i) ==
    /\ phase' = [phase EXCEPT ![i] = "absent"]
    /\ user' = [user EXCEPT ![i] = None]
    /\ expired' = [expired EXCEPT ![i] = FALSE]

\* The pointers handed out by openElement.
Readers(i) == {t \in Threads : tpc[t] = "using" /\ tid[t] = i}

\* m_endNotificationMutex is held by the collector from its start to its exit,
\* except while it sleeps.
EndMutexFree == gpc \in {"start", "wait", "woken", "exited"}

Idle(t) ==
    /\ tpc' = [tpc EXCEPT ![t] = "idle"]
    /\ tid' = [tid EXCEPT ![t] = None]
    /\ tuser' = [tuser EXCEPT ![t] = None]

Call(t, pc, i, u) ==
    /\ tpc' = [tpc EXCEPT ![t] = pc]
    /\ tid' = [tid EXCEPT ![t] = i]
    /\ tuser' = [tuser EXCEPT ![t] = u]

-----------------------------------------------------------------------------
(* Requests *)

createSession_OffByOne(t, u, i) ==
    /\ tpc[t] = "idle"
    /\ i \in drawn => ~collided
    /\ drawn' = drawn \cup {i}
    /\ collided' = (collided \/ i \in drawn)
    /\ u \notin known \/ Cardinality(info[u]) <= MaxSessions
    /\ info' = [info EXCEPT ![u] = @ \cup {i}]
    /\ known' = known \cup {u}
    /\ Call(t, "add", i, u)
    /\ UNCHANGED <<sessionVars, gcVars>>

\* createSession under m_mutex: register an id for the user.  The limit is only
\* looked at when the user has an entry.
createSession(t, u, i) ==
    /\ tpc[t] = "idle"
    /\ i \in drawn => ~collided        \* bound: an id is drawn twice at most once
    /\ drawn' = drawn \cup {i}
    /\ collided' = (collided \/ i \in drawn)
    /\ \/ /\ u \notin known \/ Cardinality(info[u]) < MaxSessions
          /\ info' = [info EXCEPT ![u] = @ \cup {i}]
          /\ known' = known \cup {u}
          /\ Call(t, "add", i, u)
       \/ /\ u \in known /\ Cardinality(info[u]) >= MaxSessions
          /\ UNCHANGED <<infoVars, threadVars>>
    /\ UNCHANGED <<sessionVars, gcVars>>

\* createSession: addElement.  An id that is there already is refused, and what
\* was registered for it stays.
AddSession(t) ==
    LET i == tid[t] IN
    /\ tpc[t] = "add"
    /\ \/ /\ phase[i] = "absent"
          /\ phase' = [phase EXCEPT ![i] = "live"]
          /\ user' = [user EXCEPT ![i] = tuser[t]]
          /\ expired' = [expired EXCEPT ![i] = FALSE]
       \/ phase[i] # "absent" /\ UNCHANGED sessionVars
    /\ Idle(t)
    /\ UNCHANGED <<infoVars, drawVars, gcVars>>

\* openSession, which answers an expired session too (with a maxAge of 0).
openSession(t, i) ==
    /\ tpc[t] = "idle"
    /\ phase[i] = "live"
    /\ Call(t, "using", i, None)
    /\ UNCHANGED <<sessionVars, infoVars, drawVars, gcVars>>

\* Session::updateLastActivity on an open session.
updateLastActivity(t) ==
    /\ tpc[t] = "using"
    /\ expired' = [expired EXCEPT ![tid[t]] = FALSE]
    /\ UNCHANGED <<phase, user, infoVars, drawVars, threadVars, gcVars>>

releaseSession(t) ==
    /\ tpc[t] = "using"
    /\ Idle(t)
    /\ UNCHANGED <<sessionVars, infoVars, drawVars, gcVars>>

destroySession_Unchecked(t, i) ==
    /\ tpc[t] = "idle"
    /\ Call(t, "destroy", i, user[i])
    /\ UNCHANGED <<sessionVars, infoVars, drawVars, gcVars>>

\* destroySession: open the session, read its user, release it.
destroySession(t, i) ==
    /\ tpc[t] = "idle"
    /\ phase[i] = "live"
    /\ Call(t, "destroy", i, user[i])
    /\ UNCHANGED <<sessionVars, infoVars, drawVars, gcVars>>

BeginDestroy_ResultIgnored(t) ==
    LET i == tid[t] IN
    /\ tpc[t] = "destroy"
    /\ \/ /\ phase[i] = "live"
          /\ phase' = [phase EXCEPT ![i] = "closing"]
          /\ Call(t, "destroying", i, tuser[t])
       \/ phase[i] # "live" /\ Call(t, "erase", i, tuser[t]) /\ UNCHANGED phase
    /\ UNCHANGED <<user, expired, infoVars, drawVars, gcVars>>

\* destroyElement: only one destroyer finds the session.
BeginDestroy(t) ==
    LET i == tid[t] IN
    /\ tpc[t] = "destroy"
    /\ \/ /\ phase[i] = "live"
          /\ phase' = [phase EXCEPT ![i] = "closing"]
          /\ Call(t, "destroying", i, tuser[t])
       \/ phase[i] # "live" /\ Idle(t) /\ UNCHANGED phase
    /\ UNCHANGED <<user, expired, infoVars, drawVars, gcVars>>

FinishDestroy(t) ==
    LET i == tid[t] IN
    /\ tpc[t] = "destroying"
    /\ Readers(i) = {}
    /\ DeleteElement(i)
    /\ Call(t, "erase", i, tuser[t])
    /\ UNCHANGED <<infoVars, drawVars, gcVars>>

\* destroySession under m_mutex: erase the registration, or throw "Unregistered
\* Session??".
Unregister(t) ==
    LET i == tid[t] u == tuser[t] IN
    /\ tpc[t] = "erase"
    /\ \/ /\ u \in known /\ i \in info[u]
          /\ info' = [info EXCEPT ![u] = @ \ {i}]
          /\ known' = IF info[u] = {i} THEN known \ {u} ELSE known
          /\ Idle(t)
       \/ /\ u \notin known \/ i \notin info[u]
          /\ Call(t, "threw", i, u)
          /\ UNCHANGED infoVars
    /\ UNCHANGED <<sessionVars, drawVars, gcVars>>

\* getUserSessionsInfo: operator[] leaves an entry for a user without one.
getUserSessionsInfo(t, u) ==
    /\ tpc[t] = "idle"
    /\ known' = known \cup {u}
    /\ UNCHANGED <<sessionVars, info, drawVars, threadVars, gcVars>>

\* The session is not used for more than m_MaxInactiveSeconds, or the clock has
\* been set back.
Expire(i) ==
    /\ phase[i] # "absent" /\ ~expired[i]
    /\ expired' = [expired EXCEPT ![i] = TRUE]
    /\ UNCHANGED <<phase, user, infoVars, drawVars, threadVars, gcVars>>

-----------------------------------------------------------------------------
(* The collector *)

GcTest_Untested == "wait"

\* The test of the loop, and the sleep or the end.
GcTest == IF gcFinished THEN "exited" ELSE "wait"

loopGarbageCollector ==
    /\ \/ gpc = "start"
       \/ gpc = "woken"                 \* no timeout: nothing to do
       \/ gpc = "gc" /\ todo = {}       \* gc() returns
    /\ gpc' = GcTest
    /\ UNCHANGED <<sessionVars, infoVars, drawVars, threadVars, todo, gid, gcFinished>>

\* The interval is over, by the clock even when a notification has come: gc()
\* takes the keys of m_sessions.
GcTimeout ==
    /\ gpc \in {"wait", "woken"}
    /\ gpc' = "gc"
    /\ todo' = {i \in Ids : phase[i] # "absent"}
    /\ UNCHANGED <<sessionVars, infoVars, drawVars, threadVars, gid, gcFinished>>

GcSpurious ==
    /\ gpc = "wait"
    /\ gpc' = "woken"
    /\ UNCHANGED <<sessionVars, infoVars, drawVars, threadVars, todo, gid, gcFinished>>

GcVisit_OnlyReleases(i) ==
    /\ gpc = "gc" /\ i \in todo
    /\ todo' = todo \ {i}
    /\ UNCHANGED <<sessionVars, infoVars, drawVars, threadVars, gpc, gid, gcFinished>>

\* gc(): open the next session, look at it and release it.
GcVisit(i) ==
    /\ gpc = "gc" /\ i \in todo
    /\ todo' = todo \ {i}
    /\ \/ phase[i] = "live" /\ expired[i] /\ gpc' = "expired" /\ gid' = i
       \/ (phase[i] # "live" \/ ~expired[i]) /\ UNCHANGED <<gpc, gid>>
    /\ UNCHANGED <<sessionVars, infoVars, drawVars, threadVars, gcFinished>>

GcBeginDestroy_Unchecked ==
    /\ gpc = "expired"
    /\ phase[gid] # "absent"
    /\ phase' = [phase EXCEPT ![gid] = "closing"]
    /\ gpc' = "destroying"
    /\ UNCHANGED <<user, expired, infoVars, drawVars, threadVars, todo, gid, gcFinished>>

\* destroyElement, whatever has become of the session since it was released.
GcBeginDestroy ==
    /\ gpc = "expired"
    /\ \/ phase[gid] = "live" /\ phase' = [phase EXCEPT ![gid] = "closing"]
          /\ gpc' = "destroying" /\ UNCHANGED gid
       \/ phase[gid] # "live" /\ gpc' = "gc" /\ gid' = None /\ UNCHANGED phase
    /\ UNCHANGED <<user, expired, infoVars, drawVars, threadVars, todo, gcFinished>>

GcFinishDestroy ==
    /\ gpc = "destroying"
    /\ Readers(gid) = {}
    /\ DeleteElement(gid)
    /\ gpc' = "gc"
    /\ gid' = None
    /\ UNCHANGED <<infoVars, drawVars, threadVars, todo, gcFinished>>

\* The flag and the notification, under m_endNotificationMutex.
stopGarbageCollector ==
    /\ ~gcFinished
    /\ EndMutexFree
    /\ gcFinished' = TRUE
    /\ gpc' = IF gpc = "wait" THEN "woken" ELSE gpc
    /\ UNCHANGED <<sessionVars, infoVars, drawVars, threadVars, todo, gid>>

-----------------------------------------------------------------------------

\* What a request does by itself once it has started.
RequestStep(t) ==
    AddSession(t) \/ releaseSession(t) \/ BeginDestroy(t) \/ FinishDestroy(t) \/ Unregister(t)

GcStep ==
    \/ loopGarbageCollector \/ GcBeginDestroy \/ GcFinishDestroy
    \/ \E i \in Ids : GcVisit(i)

Next ==
    \/ \E t \in Threads :
        \/ RequestStep(t) \/ updateLastActivity(t)
        \/ \E u \in Users : getUserSessionsInfo(t, u) \/ \E i \in Ids : createSession(t, u, i)
        \/ \E i \in Ids : openSession(t, i) \/ destroySession(t, i)
    \/ \E i \in Ids : Expire(i)
    \/ GcStep \/ GcTimeout \/ GcSpurious \/ stopGarbageCollector

Spec == Init /\ [][Next]_vars

\* Threads keep running, a request ends and releases its session, and the
\* collector is not woken for ever before its interval is over.  Nobody owes a
\* request, and time may stand still.
Fairness ==
    /\ \A t \in Threads : WF_vars(RequestStep(t))
    /\ WF_vars(GcStep)
    /\ SF_vars(GcTimeout)

FairSpec == Spec /\ Fairness

-----------------------------------------------------------------------------
(* Properties *)

\* As long as no id has been drawn twice: a session that can be opened is
\* registered for its user, and so is one that a request is about to unregister,
\* so destroySession never throws "Unregistered Session??".
LiveRegistered ==
    ~collided =>
        /\ \A i \in Ids : phase[i] = "live" => i \in info[user[i]]
        /\ \A t \in Threads : tpc[t] \in {"destroying", "erase"} => tid[t] \in info[tuser[t]]
        /\ \A t \in Threads : tpc[t] # "threw"

\* The sessions a user can have: a limit of 0 still lets the first login of a user
\* through, because a user without an entry is not tested.
MostSessions == IF MaxSessions = 0 THEN 1 ELSE MaxSessions

\* A user has at most m_maxSessionsPerUser registrations, or one where that is 0,
\* and, as long as no id has been drawn twice, at most as many sessions, those being
\* created and destroyed included, however many logins run at once.
UserLimit ==
    \A u \in Users :
        /\ Cardinality(info[u]) <= MostSessions
        /\ ~collided =>
             Cardinality({i \in Ids :
                 \/ phase[i] # "absent" /\ user[i] = u
                 \/ \E t \in Threads : tpc[t] = "add" /\ tid[t] = i /\ tuser[t] = u})
             <= MostSessions

\* A session has one destroyer: a request and the collector never both wait to
\* delete it, and nobody has it open once it has left the map.
OneDestroyer ==
    \A i \in Ids :
        /\ Cardinality({t \in Threads : tpc[t] = "destroying" /\ tid[t] = i})
             + (IF gpc = "destroying" /\ gid = i THEN 1 ELSE 0)
           = (IF phase[i] = "closing" THEN 1 ELSE 0)
        /\ Readers(i) # {} => phase[i] # "absent"

\* A session that stays inactive leaves the map, unless the collector is stopped.
ExpiredCollected ==
    \A i \in Ids :
        (phase[i] = "live" /\ expired[i]) ~> (phase[i] = "absent" \/ ~expired[i] \/ gcFinished)

\* Once stopped, the collector ends, even in the middle of gc() and when the
\* notification finds it awake: ~GarbageCollector gets past its join.
StopEndsCollector == gcFinished ~> gpc = "exited"

\* sessionsmanager.h:123, getUserSessionsInfo: "Retrieves all active sessions for
\* a given user": what is registered for a user is in the map, or on its way in
\* or out.
InfoIsActive ==
    \A u \in Users : \A i \in info[u] :
        \/ phase[i] # "absent"
        \/ \E t \in Threads : tpc[t] \in {"add", "erase"} /\ tid[t] = i /\ tuser[t] = u

=============================================================================
