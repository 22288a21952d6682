------------------------ MODULE WebSessions_proofs ------------------------
(***************************************************************************)
(* Proofs about WebSessions, for any set of threads and users, any finite  *)
(* set of ids and any limit: sessions are registered while they can be     *)
(* used, no user exceeds the limit, and a session has one destroyer.       *)
(***************************************************************************)
EXTENDS WebSessions, FiniteSetTheorems, TLAPS

\* A session in the map has a user, and nobody reads one that has left it.
SessionShape ==
    /\ \A i \in Ids : phase[i] # "absent" => user[i] \in Users
    /\ \A t \in Threads : tpc[t] = "using" => phase[tid[t]] # "absent"
    /\ gpc \in {"expired", "destroying"} => gid \in Ids

\* A session is closing while exactly one thread, or the collector, waits to delete it.
DestroyerAlone ==
    /\ \A t \in Threads : tpc[t] = "destroying" =>
         phase[tid[t]] = "closing" /\ ~(gpc = "destroying" /\ gid = tid[t])
    /\ \A s, t \in Threads :
         tpc[s] = "destroying" /\ tpc[t] = "destroying" /\ tid[s] = tid[t] => s = t
    /\ gpc = "destroying" => phase[gid] = "closing"
    /\ \A i \in Ids : phase[i] = "closing" =>
         \/ gpc = "destroying" /\ gid = i
         \/ \E t \in Threads : tpc[t] = "destroying" /\ tid[t] = i

\* Whatever is in use has been drawn.
DrawnFirst ==
    /\ \A i \in Ids : phase[i] # "absent" => i \in drawn
    /\ \A t \in Threads : tpc[t] # "idle" => tid[t] \in drawn

\* As long as no id has been drawn twice, each stands for one session: it is created
\* once, then in the map, then unregistered once; it is registered all the while, and
\* whoever destroys it has read the user it is registered for.
Lives ==
    /\ \A i \in Ids : phase[i] # "absent" => i \in info[user[i]]
    /\ \A t \in Threads : tpc[t] \in {"add", "erase"} =>
         tid[t] \in info[tuser[t]] /\ phase[tid[t]] = "absent"
    /\ \A s, t \in Threads :
         tpc[s] \in {"add", "erase"} /\ tpc[t] \in {"add", "erase"} /\ tid[s] = tid[t] => s = t
    /\ \A s, t \in Threads : tpc[s] = "add" /\ tpc[t] = "destroy" => tid[s] # tid[t]
    /\ \A t \in Threads :
         tpc[t] \in {"destroy", "destroying"} /\ phase[tid[t]] # "absent" =>
             tuser[t] = user[tid[t]]
    /\ \A t \in Threads : tpc[t] # "threw"

OneLife == ~collided => Lives

\* No user has more registrations than the limit allows.
InfoLimit == \A u \in Users : Cardinality(info[u]) <= MostSessions

\* The inductive invariant.
IInv == TypeOK /\ SessionShape /\ DestroyerAlone /\ DrawnFirst /\ OneLife /\ InfoLimit

-----------------------------------------------------------------------------
(* The collector, the clock and the readers *)

\* Steps of the collector that destroy nothing, and the clock.
LEMMA QuietStep ==
    ASSUME IInv, TypeOK',
           UNCHANGED <<phase, user, info, drawn, collided, tpc, tid, tuser>>,
           gpc' = "destroying" <=> gpc = "destroying",
           gpc = "destroying" => gid' = gid,
           gpc' \in {"expired", "destroying"} => gid' \in Ids
    PROVE  IInv'
<1>1. SessionShape' /\ DestroyerAlone'
  BY DEF IInv, SessionShape, DestroyerAlone
<1>2. DrawnFirst' /\ OneLife' /\ InfoLimit'
  BY DEF IInv, DrawnFirst, OneLife, Lives, InfoLimit
<1> QED
  BY <1>1, <1>2 DEF IInv

\* The collector's thread outside destroyElement.
LEMMA LoopPreserves ==
    ASSUME IInv,
           \/ loopGarbageCollector \/ GcTimeout \/ GcSpurious \/ stopGarbageCollector
           \/ \E i \in Ids : GcVisit(i) \/ Expire(i)
    PROVE  IInv'
<1> USE DEF sessionVars, infoVars, drawVars, threadVars, gcVars
<1>1. CASE loopGarbageCollector
  <2>1. TypeOK' /\ gpc # "destroying" /\ gpc' \in {"wait", "exited"}
    BY <1>1 DEF loopGarbageCollector, GcTest, IInv, TypeOK
  <2> QED
    BY <1>1, <2>1, QuietStep DEF loopGarbageCollector
<1>2. CASE GcTimeout
  <2>1. TypeOK'
    BY <1>2 DEF GcTimeout, IInv, TypeOK
  <2> QED
    BY <1>2, <2>1, QuietStep DEF GcTimeout
<1>3. CASE GcSpurious
  <2>1. TypeOK'
    BY <1>3 DEF GcSpurious, IInv, TypeOK
  <2> QED
    BY <1>3, <2>1, QuietStep DEF GcSpurious
<1>4. CASE stopGarbageCollector
  <2>1. TypeOK' /\ gpc # "destroying" /\ gpc' \notin {"expired", "destroying"}
    BY <1>4 DEF stopGarbageCollector, EndMutexFree, IInv, TypeOK
  <2> QED
    BY <1>4, <2>1, QuietStep DEF stopGarbageCollector
<1>5. ASSUME NEW i \in Ids, GcVisit(i) PROVE IInv'
  <2>1. TypeOK' /\ gpc = "gc" /\ ((gpc' = "expired" /\ gid' = i) \/ UNCHANGED <<gpc, gid>>)
    BY <1>5 DEF GcVisit, IInv, TypeOK
  <2> QED
    BY <1>5, <2>1, QuietStep DEF GcVisit
<1>6. ASSUME NEW i \in Ids, Expire(i) PROVE IInv'
  <2>1. TypeOK'
    BY <1>6 DEF Expire, IInv, TypeOK
  <2> QED
    BY <1>6, <2>1, QuietStep DEF Expire, IInv, SessionShape
<1> QED
  BY <1>1, <1>2, <1>3, <1>4, <1>5, <1>6

\* gc() begins and ends a destruction.
LEMMA GcDestroyPreserves ==
    ASSUME IInv, GcBeginDestroy \/ GcFinishDestroy
    PROVE  IInv'
<1> USE DEF sessionVars, infoVars, drawVars, threadVars, gcVars
<1>1. PICK i \in Ids : i = gid
  BY DEF GcBeginDestroy, GcFinishDestroy, IInv, SessionShape
<1>2. UNCHANGED <<infoVars, drawVars, threadVars, todo, gcFinished>>
  BY DEF GcBeginDestroy, GcFinishDestroy
<1>3. \A t \in Threads : tpc[t] # "idle" => tid[t] \in Ids
  BY DEF IInv, TypeOK
<1>4. InfoLimit'
  BY <1>2 DEF IInv, InfoLimit
<1>5. CASE GcBeginDestroy /\ phase[i] # "live"
  <2>1. TypeOK' /\ gpc = "expired" /\ gpc' = "gc" /\ UNCHANGED <<phase, user>>
    BY <1>1, <1>5 DEF GcBeginDestroy, IInv, TypeOK
  <2> QED
    BY <1>2, <2>1, QuietStep
<1>6. CASE GcBeginDestroy /\ phase[i] = "live"
  <2>1. /\ phase'[i] = "closing" /\ \A j \in Ids : j # i => phase'[j] = phase[j]
        /\ gpc = "expired" /\ gpc' = "destroying" /\ UNCHANGED <<user, gid>>
    BY <1>1, <1>6 DEF GcBeginDestroy, IInv, TypeOK
  <2>2. TypeOK'
    BY <1>1, <1>6 DEF GcBeginDestroy, IInv, TypeOK
  <2>3. SessionShape'
    BY <1>1, <1>2, <1>3, <1>6, <2>1 DEF IInv, SessionShape
  <2>4. DestroyerAlone'
    BY <1>1, <1>2, <1>3, <1>6, <2>1 DEF IInv, DestroyerAlone
  <2>5. DrawnFirst' /\ OneLife'
    BY <1>1, <1>2, <1>3, <1>6, <2>1 DEF IInv, DrawnFirst, OneLife, Lives
  <2> QED
    BY <1>4, <2>2, <2>3, <2>4, <2>5 DEF IInv
<1>7. CASE GcFinishDestroy
  <2>1. /\ phase'[i] = "absent" /\ user'[i] = None
        /\ \A j \in Ids : j # i => phase'[j] = phase[j] /\ user'[j] = user[j]
        /\ gpc = "destroying" /\ gpc' = "gc" /\ Readers(i) = {}
    BY <1>1, <1>7 DEF GcFinishDestroy, DeleteElement, IInv, TypeOK
  <2>2. TypeOK'
    BY <1>1, <1>7 DEF GcFinishDestroy, DeleteElement, IInv, TypeOK
  <2>3. SessionShape'
    BY <1>1, <1>2, <1>3, <2>1 DEF IInv, SessionShape, Readers
  <2>4. DestroyerAlone'
    BY <1>1, <1>2, <1>3, <2>1 DEF IInv, DestroyerAlone
  <2>5. DrawnFirst' /\ OneLife'
    BY <1>1, <1>2, <1>3, <2>1 DEF IInv, DrawnFirst, OneLife, Lives
  <2> QED
    BY <1>4, <2>2, <2>3, <2>4, <2>5 DEF IInv
<1> QED
  BY <1>1, <1>5, <1>6, <1>7

\* Requests that register, add and destroy nothing.
LEMMA ReaderPreserves ==
    ASSUME IInv, NEW t \in Threads,
           \/ updateLastActivity(t) \/ releaseSession(t)
           \/ \E u \in Users : getUserSessionsInfo(t, u)
           \/ \E i \in Ids : openSession(t, i) \/ destroySession(t, i)
    PROVE  IInv'
<1> USE DEF sessionVars, infoVars, drawVars, threadVars, gcVars
<1>1. CASE updateLastActivity(t)
  <2>1. TypeOK'
    BY <1>1 DEF updateLastActivity, IInv, TypeOK
  <2> QED
    BY <1>1, <2>1, QuietStep DEF updateLastActivity, IInv, SessionShape
<1>2. CASE \E u \in Users : getUserSessionsInfo(t, u)
  <2>1. TypeOK'
    BY <1>2 DEF getUserSessionsInfo, IInv, TypeOK
  <2> QED
    BY <1>2, <2>1, QuietStep DEF getUserSessionsInfo, IInv, SessionShape
<1>3. CASE releaseSession(t)
  <2>1. /\ tpc[t] = "using" /\ tpc'[t] = "idle"
        /\ \A s \in Threads : s # t => tpc'[s] = tpc[s] /\ tid'[s] = tid[s] /\ tuser'[s] = tuser[s]
        /\ UNCHANGED <<sessionVars, infoVars, drawVars, gcVars>>
    BY <1>3 DEF releaseSession, Idle, IInv, TypeOK
  <2>2. TypeOK'
    BY <1>3 DEF releaseSession, Idle, IInv, TypeOK
  <2>3. SessionShape' /\ DestroyerAlone'
    BY <2>1 DEF IInv, SessionShape, DestroyerAlone
  <2>4. DrawnFirst' /\ OneLife' /\ InfoLimit'
    BY <2>1 DEF IInv, DrawnFirst, OneLife, Lives, InfoLimit
  <2> QED
    BY <2>2, <2>3, <2>4 DEF IInv
<1>4. ASSUME NEW i \in Ids, openSession(t, i) \/ destroySession(t, i) PROVE IInv'
  <2>1. PICK u \in Users \cup {None} :
          /\ tpc[t] = "idle" /\ phase[i] = "live" /\ user[i] \in Users
          /\ tpc'[t] = "using" \/ (tpc'[t] = "destroy" /\ u = user[i])
          /\ tid'[t] = i /\ tuser'[t] = u
          /\ \A s \in Threads : s # t => tpc'[s] = tpc[s] /\ tid'[s] = tid[s] /\ tuser'[s] = tuser[s]
          /\ UNCHANGED <<sessionVars, infoVars, drawVars, gcVars>>
    BY <1>4 DEF openSession, destroySession, Call, IInv, TypeOK, SessionShape
  <2>2. TypeOK'
    BY <1>4, <2>1 DEF openSession, destroySession, Call, IInv, TypeOK
  <2>3. SessionShape' /\ DestroyerAlone'
    BY <2>1 DEF IInv, SessionShape, DestroyerAlone
  <2>4. DrawnFirst' /\ OneLife' /\ InfoLimit'
    BY <2>1 DEF IInv, DrawnFirst, OneLife, Lives, InfoLimit
  <2> QED
    BY <2>2, <2>3, <2>4 DEF IInv
<1> QED
  BY <1>1, <1>2, <1>3, <1>4

-----------------------------------------------------------------------------
(* Creating a session *)

\* A set of ids is finite, and one more adds one at most.
LEMMA IdSets ==
    ASSUME NEW S, S \subseteq Ids
    PROVE  /\ IsFiniteSet(S) /\ Cardinality(S) \in Nat
           /\ \A i : Cardinality(S \cup {i}) \in Nat /\ Cardinality(S \cup {i}) <= Cardinality(S) + 1
           /\ \A T : T \subseteq S => Cardinality(T) \in Nat /\ Cardinality(T) <= Cardinality(S)
<1>1. IsFiniteSet(S)
  BY WebSessionsAssumption, FS_Subset
<1>2. Cardinality(S) \in Nat
  BY <1>1, FS_CardinalityType
<1>3. ASSUME NEW i
      PROVE  Cardinality(S \cup {i}) \in Nat /\ Cardinality(S \cup {i}) <= Cardinality(S) + 1
  <2>1. \/ Cardinality(S \cup {i}) = Cardinality(S)
        \/ Cardinality(S \cup {i}) = Cardinality(S) + 1
    BY <1>1, FS_AddElement
  <2> QED
    BY <1>2, <2>1
<1>4. ASSUME NEW T, T \subseteq S PROVE Cardinality(T) \in Nat /\ Cardinality(T) <= Cardinality(S)
  BY <1>1, <1>4, FS_Subset, FS_CardinalityType
<1> QED
  BY <1>1, <1>2, <1>3, <1>4

\* createSession registers within the limit: a user without an entry has no
\* registration.
LEMMA CreatePreserves ==
    ASSUME IInv, NEW t \in Threads, NEW u \in Users, NEW i \in Ids, createSession(t, u, i)
    PROVE  IInv'
<1> USE DEF sessionVars, infoVars, drawVars, threadVars, gcVars
<1>1. /\ tpc[t] = "idle" /\ drawn' = drawn \cup {i} /\ UNCHANGED <<sessionVars, gcVars>>
      /\ ~collided' => ~collided /\ i \notin drawn
      /\ collided' \in BOOLEAN
  BY DEF createSession, IInv, TypeOK
<1>2. ~collided' => /\ phase[i] = "absent"
                    /\ \A s \in Threads : tpc[s] # "idle" => tid[s] # i
  BY <1>1 DEF IInv, DrawnFirst
<1>3. CASE UNCHANGED <<infoVars, threadVars>>
  <2>1. TypeOK'
    BY <1>1, <1>3 DEF IInv, TypeOK
  <2>2. SessionShape' /\ DestroyerAlone'
    BY <1>1, <1>3 DEF IInv, SessionShape, DestroyerAlone
  <2>3. DrawnFirst' /\ OneLife' /\ InfoLimit'
    BY <1>1, <1>3 DEF IInv, DrawnFirst, OneLife, Lives, InfoLimit
  <2> QED
    BY <2>1, <2>2, <2>3 DEF IInv
<1>4. CASE /\ u \notin known \/ Cardinality(info[u]) < MaxSessions
           /\ info' = [info EXCEPT ![u] = @ \cup {i}]
           /\ known' = known \cup {u}
           /\ Call(t, "add", i, u)
  <2>1. /\ info'[u] = info[u] \cup {i} /\ \A v \in Users : v # u => info'[v] = info[v]
        /\ tpc'[t] = "add" /\ tid'[t] = i /\ tuser'[t] = u
        /\ \A s \in Threads : s # t => tpc'[s] = tpc[s] /\ tid'[s] = tid[s] /\ tuser'[s] = tuser[s]
        /\ \A v \in Users : info[v] \subseteq info'[v]
    BY <1>4 DEF Call, IInv, TypeOK
  <2>2. TypeOK'
    BY <1>1, <1>4 DEF Call, IInv, TypeOK
  <2>3. SessionShape' /\ DestroyerAlone'
    BY <1>1, <2>1 DEF IInv, SessionShape, DestroyerAlone
  <2>4. DrawnFirst'
    BY <1>1, <2>1 DEF IInv, DrawnFirst
  <2>5. OneLife'
    <3> SUFFICES ASSUME ~collided'
                 PROVE  Lives'
      BY DEF OneLife
    <3> QED
      BY <1>1, <1>2, <2>1 DEF IInv, TypeOK, SessionShape, OneLife, Lives
  <2>6. InfoLimit'
    <3>1. Cardinality(info'[u]) <= MostSessions
      <4>1. info[u] \subseteq Ids
        BY DEF IInv, TypeOK
      <4>2. /\ Cardinality(info[u]) \in Nat /\ MaxSessions \in Nat
            /\ MostSessions \in Nat /\ 1 <= MostSessions /\ MaxSessions <= MostSessions
        BY <4>1, IdSets, WebSessionsAssumption DEF MostSessions
      <4>3. CASE Cardinality(info[u]) < MaxSessions
        <5>1. /\ Cardinality(info[u] \cup {i}) \in Nat
              /\ Cardinality(info[u] \cup {i}) <= Cardinality(info[u]) + 1
          BY <4>1, IdSets
        <5> QED
          BY <2>1, <4>2, <4>3, <5>1
      <4>4. CASE u \notin known
        <5>1. info[u] = {} /\ info'[u] = {i}
          BY <2>1, <4>4 DEF IInv, TypeOK
        <5>2. Cardinality({i}) = 1
          BY FS_Singleton
        <5> QED
          BY <4>2, <5>1, <5>2
      <4> QED
        BY <1>4, <4>3, <4>4
    <3> QED
      BY <2>1, <3>1 DEF IInv, InfoLimit
  <2> QED
    BY <2>2, <2>3, <2>4, <2>5, <2>6 DEF IInv
<1> QED
  BY <1>3, <1>4 DEF createSession

\* addElement: the new session belongs to the user it was registered for.
LEMMA AddPreserves ==
    ASSUME IInv, NEW t \in Threads, AddSession(t)
    PROVE  IInv'
<1> USE DEF sessionVars, infoVars, drawVars, threadVars, gcVars
<1>1. PICK i \in Ids, u \in Users : i = tid[t] /\ u = tuser[t]
  BY DEF AddSession, IInv, TypeOK
<1>2. /\ tpc[t] = "add" /\ tpc'[t] = "idle"
      /\ \A s \in Threads : s # t => tpc'[s] = tpc[s] /\ tid'[s] = tid[s] /\ tuser'[s] = tuser[s]
      /\ UNCHANGED <<infoVars, drawVars, gcVars>>
      /\ \A s \in Threads : tpc[s] # "idle" => tid[s] \in Ids
  BY DEF AddSession, Idle, IInv, TypeOK
<1>3. TypeOK'
  BY <1>1 DEF AddSession, Idle, IInv, TypeOK
<1>4. InfoLimit'
  BY <1>2 DEF IInv, InfoLimit
<1>5. CASE phase[i] = "absent"
  <2>1. /\ phase'[i] = "live" /\ user'[i] = u
        /\ \A j \in Ids : j # i => phase'[j] = phase[j] /\ user'[j] = user[j]
    BY <1>1, <1>5 DEF AddSession, IInv, TypeOK
  <2>2. SessionShape'
    BY <1>2, <2>1 DEF IInv, SessionShape
  <2>3. DestroyerAlone'
    BY <1>2, <1>5, <2>1 DEF IInv, SessionShape, DestroyerAlone
  <2>4. DrawnFirst'
    BY <1>1, <1>2, <2>1 DEF IInv, DrawnFirst
  <2>5. OneLife'
    <3> SUFFICES ASSUME ~collided'
                 PROVE  Lives'
      BY DEF OneLife
    <3>1. \A s \in Threads : tpc'[s] \in {"add", "erase", "destroy", "destroying"} =>
            s # t /\ tpc[s] = tpc'[s] /\ tid[s] \in Ids /\ tid[s] # i
      BY <1>1, <1>2, <1>5 DEF IInv, OneLife, Lives, DestroyerAlone
    <3> QED
      BY <1>1, <1>2, <2>1, <3>1 DEF IInv, OneLife, Lives
  <2> QED
    BY <1>3, <1>4, <2>2, <2>3, <2>4, <2>5 DEF IInv
<1>6. CASE phase[i] # "absent"
  <2>1. UNCHANGED sessionVars
    BY <1>1, <1>6 DEF AddSession
  <2>2. SessionShape' /\ DestroyerAlone'
    BY <1>2, <2>1 DEF IInv, SessionShape, DestroyerAlone
  <2>3. DrawnFirst' /\ OneLife'
    BY <1>2, <2>1 DEF IInv, DrawnFirst, OneLife, Lives
  <2> QED
    BY <1>3, <1>4, <2>2, <2>3 DEF IInv
<1> QED
  BY <1>5, <1>6

-----------------------------------------------------------------------------
(* Destroying a session *)

\* destroyElement finds the session, or the request is over.
LEMMA BeginDestroyPreserves ==
    ASSUME IInv, NEW t \in Threads, BeginDestroy(t)
    PROVE  IInv'
<1> USE DEF sessionVars, infoVars, drawVars, threadVars, gcVars
<1>1. PICK i \in Ids, u \in Users : i = tid[t] /\ u = tuser[t]
  BY DEF BeginDestroy, IInv, TypeOK
<1>2. /\ tpc[t] = "destroy" /\ UNCHANGED <<user, infoVars, drawVars, gcVars>>
      /\ \A s \in Threads : s # t => tpc'[s] = tpc[s] /\ tid'[s] = tid[s] /\ tuser'[s] = tuser[s]
      /\ \A s \in Threads : tpc[s] # "idle" => tid[s] \in Ids
  BY DEF BeginDestroy, Idle, Call, IInv, TypeOK
<1>3. TypeOK'
  BY <1>1 DEF BeginDestroy, Idle, Call, IInv, TypeOK
<1>4. InfoLimit'
  BY <1>2 DEF IInv, InfoLimit
<1>5. CASE phase[i] = "live"
  <2>1. /\ phase'[i] = "closing" /\ \A j \in Ids : j # i => phase'[j] = phase[j]
        /\ tpc'[t] = "destroying" /\ tid'[t] = i /\ tuser'[t] = u
    BY <1>1, <1>5 DEF BeginDestroy, Call, IInv, TypeOK
  <2>2. SessionShape'
    BY <1>2, <1>5, <2>1 DEF IInv, SessionShape
  <2>3. DestroyerAlone'
    BY <1>2, <1>5, <2>1 DEF IInv, SessionShape, DestroyerAlone
  <2>4. DrawnFirst'
    BY <1>2, <1>5, <2>1 DEF IInv, DrawnFirst
  <2>5. OneLife'
    BY <1>1, <1>2, <1>5, <2>1 DEF IInv, OneLife, Lives
  <2> QED
    BY <1>3, <1>4, <2>2, <2>3, <2>4, <2>5 DEF IInv
<1>6. CASE phase[i] # "live"
  <2>1. UNCHANGED phase /\ tpc'[t] = "idle"
    BY <1>1, <1>6 DEF BeginDestroy, Idle, IInv, TypeOK
  <2>2. SessionShape' /\ DestroyerAlone'
    BY <1>2, <2>1 DEF IInv, SessionShape, DestroyerAlone
  <2>3. DrawnFirst' /\ OneLife'
    BY <1>2, <2>1 DEF IInv, DrawnFirst, OneLife, Lives
  <2> QED
    BY <1>3, <1>4, <2>2, <2>3 DEF IInv
<1> QED
  BY <1>5, <1>6

\* The last reader has gone: the session leaves the map.
LEMMA FinishDestroyPreserves ==
    ASSUME IInv, NEW t \in Threads, FinishDestroy(t)
    PROVE  IInv'
<1> USE DEF sessionVars, infoVars, drawVars, threadVars, gcVars
<1>1. PICK i \in Ids, u \in Users : i = tid[t] /\ u = tuser[t]
  BY DEF FinishDestroy, IInv, TypeOK
<1>2. /\ tpc[t] = "destroying" /\ tpc'[t] = "erase" /\ tid'[t] = i /\ tuser'[t] = u
      /\ \A s \in Threads : s # t => tpc'[s] = tpc[s] /\ tid'[s] = tid[s] /\ tuser'[s] = tuser[s]
      /\ \A s \in Threads : tpc[s] # "idle" => tid[s] \in Ids
      /\ phase'[i] = "absent" /\ user'[i] = None
      /\ \A j \in Ids : j # i => phase'[j] = phase[j] /\ user'[j] = user[j]
      /\ Readers(i) = {} /\ phase[i] = "closing"
      /\ UNCHANGED <<infoVars, drawVars, gcVars>>
  BY <1>1 DEF FinishDestroy, DeleteElement, Call, IInv, TypeOK, DestroyerAlone
<1>3. TypeOK'
  BY <1>1 DEF FinishDestroy, DeleteElement, Call, IInv, TypeOK
<1>4. InfoLimit'
  BY <1>2 DEF IInv, InfoLimit
<1>5. SessionShape'
  BY <1>2 DEF IInv, SessionShape, Readers
<1>6. DestroyerAlone'
  BY <1>1, <1>2 DEF IInv, SessionShape, DestroyerAlone
<1>7. DrawnFirst'
  BY <1>1, <1>2 DEF IInv, DrawnFirst
<1>8. OneLife'
  <2> SUFFICES ASSUME ~collided'
               PROVE  Lives'
    BY DEF OneLife
  <2>1. i \in info[u]
    BY <1>1, <1>2 DEF IInv, OneLife, Lives
  <2>2. \A s \in Threads : tpc[s] \in {"add", "erase"} => tid[s] # i
    BY <1>2 DEF IInv, OneLife, Lives
  <2> QED
    BY <1>1, <1>2, <2>1, <2>2 DEF IInv, OneLife, Lives
<1> QED
  BY <1>3, <1>4, <1>5, <1>6, <1>7, <1>8 DEF IInv

\* The registration of the session that has left is erased, and no other.
LEMMA UnregisterPreserves ==
    ASSUME IInv, NEW t \in Threads, Unregister(t)
    PROVE  IInv'
<1> USE DEF sessionVars, infoVars, drawVars, threadVars, gcVars
<1>1. PICK i \in Ids, u \in Users : i = tid[t] /\ u = tuser[t]
  BY DEF Unregister, IInv, TypeOK
<1>2. /\ tpc[t] = "erase" /\ UNCHANGED <<sessionVars, drawVars, gcVars>>
      /\ \A s \in Threads : s # t => tpc'[s] = tpc[s] /\ tid'[s] = tid[s] /\ tuser'[s] = tuser[s]
      /\ \A s \in Threads : tpc[s] # "idle" => tid[s] \in Ids
  BY DEF Unregister, Idle, Call, IInv, TypeOK
<1>3. CASE u \in known /\ i \in info[u]
  <2>1. /\ info'[u] = info[u] \ {i} /\ \A v \in Users : v # u => info'[v] = info[v]
        /\ known' = IF info[u] = {i} THEN known \ {u} ELSE known
        /\ info' \in [Users -> SUBSET Ids] /\ known' \in SUBSET Users
        /\ tpc'[t] = "idle" /\ Idle(t)
    BY <1>1, <1>3 DEF Unregister, Idle, IInv, TypeOK
  <2>2. TypeOK'
    <3>1. \A v \in Users : info'[v] # {} => v \in known'
      BY <2>1 DEF IInv, TypeOK
    <3> QED
      BY <1>2, <2>1, <3>1 DEF Idle, IInv, TypeOK
  <2>3. SessionShape' /\ DestroyerAlone' /\ DrawnFirst'
    BY <1>2, <2>1 DEF IInv, SessionShape, DestroyerAlone, DrawnFirst
  <2>4. OneLife'
    <3> SUFFICES ASSUME ~collided'
                 PROVE  Lives'
      BY DEF OneLife
    <3>1. /\ phase[i] = "absent"
          /\ \A s \in Threads : s # t /\ tpc[s] \in {"add", "erase"} => tid[s] # i
      BY <1>1, <1>2 DEF IInv, OneLife, Lives
    <3>2. \A j \in Ids : \A v \in Users : j # i /\ j \in info[v] => j \in info'[v]
      BY <2>1
    <3> QED
      BY <1>2, <2>1, <3>1, <3>2 DEF IInv, TypeOK, SessionShape, OneLife, Lives
  <2>5. InfoLimit'
    <3>1. info[u] \subseteq Ids /\ info'[u] \subseteq info[u] /\ MostSessions \in Nat
      BY <2>1, WebSessionsAssumption DEF IInv, TypeOK, MostSessions
    <3>2. Cardinality(info'[u]) \in Nat /\ Cardinality(info'[u]) <= Cardinality(info[u])
          /\ Cardinality(info[u]) \in Nat /\ Cardinality(info[u]) <= MostSessions
      BY <3>1, IdSets DEF IInv, InfoLimit
    <3>3. Cardinality(info'[u]) <= MostSessions
      BY <3>1, <3>2
    <3> QED
      BY <2>1, <3>3 DEF IInv, InfoLimit
  <2> QED
    BY <2>2, <2>3, <2>4, <2>5 DEF IInv
<1>4. CASE u \notin known \/ i \notin info[u]
  <2>1. tpc'[t] = "threw" /\ tid'[t] = i /\ tuser'[t] = u /\ UNCHANGED infoVars
    BY <1>1, <1>4 DEF Unregister, Call, IInv, TypeOK
  <2>2. collided
    BY <1>1, <1>2, <1>4 DEF IInv, TypeOK, OneLife, Lives
  <2>3. TypeOK'
    BY <1>1, <1>4, <2>1 DEF Unregister, Call, IInv, TypeOK
  <2>4. SessionShape' /\ DestroyerAlone' /\ DrawnFirst'
    BY <1>1, <1>2, <2>1 DEF IInv, SessionShape, DestroyerAlone, DrawnFirst
  <2>5. OneLife' /\ InfoLimit'
    BY <1>2, <2>1, <2>2 DEF IInv, OneLife, Lives, InfoLimit
  <2> QED
    BY <2>3, <2>4, <2>5 DEF IInv
<1> QED
  BY <1>3, <1>4

-----------------------------------------------------------------------------
(* The theorems *)

\* A manager without sessions satisfies the invariant.
LEMMA InitIInv == Init => IInv
<1> SUFFICES ASSUME Init PROVE IInv
  OBVIOUS
<1>1. TypeOK
  BY DEF Init, TypeOK
<1>2. SessionShape /\ DestroyerAlone /\ DrawnFirst /\ OneLife
  BY DEF Init, SessionShape, DestroyerAlone, DrawnFirst, OneLife, Lives
<1>3. InfoLimit
  <2>1. Cardinality({}) = 0 /\ MostSessions \in Nat
    BY FS_EmptySet, WebSessionsAssumption DEF MostSessions
  <2> QED
    BY <2>1 DEF Init, InfoLimit
<1> QED
  BY <1>1, <1>2, <1>3 DEF IInv

\* Every step preserves the invariant.
LEMMA NextIInv == IInv /\ [Next]_vars => IInv'
<1> SUFFICES ASSUME IInv, [Next]_vars PROVE IInv'
  OBVIOUS
<1>1. CASE UNCHANGED vars
  <2>1. TypeOK'
    BY <1>1 DEF vars, IInv, TypeOK
  <2> QED
    BY <1>1, <2>1, QuietStep DEF vars, IInv, SessionShape
<1>2. ASSUME NEW t \in Threads, RequestStep(t) PROVE IInv'
  BY <1>2, AddPreserves, ReaderPreserves, BeginDestroyPreserves, FinishDestroyPreserves,
     UnregisterPreserves DEF RequestStep
<1>3. CASE GcStep \/ GcTimeout \/ GcSpurious \/ stopGarbageCollector
  BY <1>3, LoopPreserves, GcDestroyPreserves DEF GcStep
<1> QED
  BY <1>1, <1>2, <1>3, LoopPreserves, ReaderPreserves, CreatePreserves DEF Next

\* The inductive invariant holds in every reachable state.
THEOREM Invariance == Spec => []IInv
<1>1. Init => IInv
  BY InitIInv
<1>2. IInv /\ [Next]_vars => IInv'
  BY NextIInv
<1> QED
  BY <1>1, <1>2, PTL DEF Spec

\* The state has its type: whoever is in a call has the session and the user it is
\* about, and a user with registrations has an entry.
THEOREM TypeCorrect == Spec => []TypeOK
<1>1. IInv => TypeOK
  BY DEF IInv
<1> QED
  BY <1>1, Invariance, PTL

\* As long as no id has been drawn twice, a session that can be opened is
\* registered, and destroySession never throws.
THEOREM SessionsAreRegistered == Spec => []LiveRegistered
<1>1. ASSUME IInv PROVE LiveRegistered
  <2> SUFFICES ASSUME ~collided
               PROVE  /\ \A i \in Ids : phase[i] = "live" => i \in info[user[i]]
                      /\ \A t \in Threads : tpc[t] \in {"destroying", "erase"} =>
                           tid[t] \in info[tuser[t]]
                      /\ \A t \in Threads : tpc[t] # "threw"
    BY DEF LiveRegistered
  <2>1. ASSUME NEW t \in Threads, tpc[t] = "destroying" PROVE tid[t] \in info[tuser[t]]
    <3>1. tid[t] \in Ids /\ phase[tid[t]] = "closing"
      BY <1>1, <2>1 DEF IInv, TypeOK, DestroyerAlone
    <3> QED
      BY <1>1, <2>1, <3>1 DEF IInv, OneLife, Lives
  <2> QED
    BY <1>1, <2>1 DEF IInv, OneLife, Lives
<1> QED
  BY <1>1, Invariance, PTL

\* No user has more than m_maxSessionsPerUser registrations (one where that is 0) or,
\* as long as no id has been drawn twice, sessions, for every limit.
THEOREM LimitHolds == Spec => []UserLimit
<1>1. ASSUME IInv PROVE UserLimit
  <2> SUFFICES ASSUME NEW u \in Users
               PROVE  /\ Cardinality(info[u]) <= MostSessions
                      /\ ~collided =>
                           Cardinality({i \in Ids :
                               \/ phase[i] # "absent" /\ user[i] = u
                               \/ \E t \in Threads : tpc[t] = "add" /\ tid[t] = i /\ tuser[t] = u})
                           <= MostSessions
    BY DEF UserLimit
  <2> DEFINE held == {i \in Ids :
                        \/ phase[i] # "absent" /\ user[i] = u
                        \/ \E t \in Threads : tpc[t] = "add" /\ tid[t] = i /\ tuser[t] = u}
  <2>1. info[u] \subseteq Ids /\ MostSessions \in Nat
    BY <1>1, WebSessionsAssumption DEF IInv, TypeOK, MostSessions
  <2>2. Cardinality(info[u]) <= MostSessions /\ Cardinality(info[u]) \in Nat
    BY <1>1, <2>1, IdSets DEF IInv, InfoLimit
  <2>3. ASSUME ~collided PROVE held \subseteq info[u]
    BY <1>1, <2>3 DEF IInv, OneLife, Lives
  <2>4. ASSUME ~collided PROVE Cardinality(held) <= MostSessions
    <3>1. held \subseteq info[u]
      BY <2>3, <2>4
    <3> HIDE DEF held
    <3>2. \A T : T \subseteq info[u] => Cardinality(T) \in Nat /\ Cardinality(T) <= Cardinality(info[u])
      BY <2>1, IdSets
    <3>3. Cardinality(held) \in Nat /\ Cardinality(held) <= Cardinality(info[u])
      BY <3>1, <3>2
    <3> QED
      BY <2>1, <2>2, <3>3
  <2> QED
    BY <2>2, <2>4
<1> QED
  BY <1>1, Invariance, PTL

\* A session has one destroyer, and nobody reads one that has left the map.
THEOREM DestroyedOnce == Spec => []OneDestroyer
<1>1. ASSUME IInv PROVE OneDestroyer
  <2> SUFFICES ASSUME NEW i \in Ids
               PROVE  /\ Cardinality({t \in Threads : tpc[t] = "destroying" /\ tid[t] = i})
                           + (IF gpc = "destroying" /\ gid = i THEN 1 ELSE 0)
                         = (IF phase[i] = "closing" THEN 1 ELSE 0)
                      /\ Readers(i) # {} => phase[i] # "absent"
    BY DEF OneDestroyer
  <2> DEFINE waiting == {t \in Threads : tpc[t] = "destroying" /\ tid[t] = i}
  <2>1. Readers(i) # {} => phase[i] # "absent"
    BY <1>1 DEF IInv, SessionShape, Readers
  <2>2. Cardinality({}) = 0 /\ \A t : Cardinality({t}) = 1
    BY FS_EmptySet, FS_Singleton
  <2>3. CASE phase[i] # "closing"
    <3>1. waiting = {} /\ ~(gpc = "destroying" /\ gid = i)
      BY <1>1, <2>3 DEF IInv, DestroyerAlone
    <3> QED
      BY <2>1, <2>2, <2>3, <3>1
  <2>4. CASE phase[i] = "closing" /\ gpc = "destroying" /\ gid = i
    <3>1. waiting = {}
      BY <1>1, <2>4 DEF IInv, DestroyerAlone
    <3> QED
      BY <2>1, <2>2, <2>4, <3>1
  <2>5. CASE phase[i] = "closing" /\ ~(gpc = "destroying" /\ gid = i)
    <3>1. PICK t \in Threads : tpc[t] = "destroying" /\ tid[t] = i
      BY <1>1, <2>5 DEF IInv, DestroyerAlone
    <3>2. waiting = {t}
      BY <1>1, <3>1 DEF IInv, DestroyerAlone
    <3>3. Cardinality(waiting) = 1
      <4> HIDE DEF waiting
      <4> QED
        BY <2>2, <3>2
    <3> QED
      BY <2>1, <2>5, <3>3
  <2> QED
    BY <2>3, <2>4, <2>5
<1> QED
  BY <1>1, Invariance, PTL
=============================================================================
