-------------------------- MODULE Acceptor_proofs --------------------------
(***************************************************************************)
(* Proofs about Acceptor, for any set of connections, addresses and        *)
(* limits: what m_connectionsPerIP counts, that nobody waits for a free    *)
(* slot unnotified, that the acceptor outlives the threads that use it by  *)
(* a bare pointer, and that it implements ElementLifetime.                 *)
(***************************************************************************)
EXTENDS Acceptor, FiniteSetTheorems, TLAPS

\* Only the connection processClient decides on is pending, and only the holder of
\* m_mutexClients is notifying: a client's thread, or the thread that refuses.
ClientShape ==
    /\ \A c \in Clients : client[c] = "pending" <=> c = pending
    /\ \A c \in Clients : client[c] = "notifying" <=> c = holder
    /\ holder = AcceptThread <=> acceptor \in {"timedout", "refusing"}

\* The owner calls nothing on an acceptor that is being destroyed, and once it has
\* let go, the acceptor is being destroyed or its thread still runs.
LifeShape ==
    /\ owned => destructor = "none"
    /\ setting => owned
    /\ background => acceptor # "none"
    /\ finalized => destructor # "none"
    /\ ~owned /\ destructor = "none" => acceptor \notin {"none", "released"}

\* The inductive invariant.
IInv == /\ TypeOK /\ ClientShape /\ LifeShape /\ FinalizedLast /\ UsersOutlived
        /\ NoLostWakeup /\ CountsMatch

-----------------------------------------------------------------------------
(* Constants and counting *)

\* The three constants that name no connection are different.
LEMMA Distinct ==
    /\ Nobody # AcceptThread /\ Nobody # NoClient /\ AcceptThread # NoClient
    /\ Nobody \notin Clients /\ AcceptThread \notin Clients /\ NoClient \notin Clients
<1>1. \A a, b : IsFiniteSet({a, b}) /\ Cardinality({a, b}) <= 2
  <2> SUFFICES ASSUME NEW a, NEW b PROVE IsFiniteSet({a, b}) /\ Cardinality({a, b}) <= 2
    OBVIOUS
  <2>1. IsFiniteSet({a}) /\ Cardinality({a}) = 1
    BY FS_Singleton
  <2>2. {a} \cup {b} = {a, b}
    OBVIOUS
  <2>3. IsFiniteSet({a} \cup {b}) /\ (Cardinality({a} \cup {b}) = 1 \/ Cardinality({a} \cup {b}) = 2)
    BY <2>1, FS_AddElement
  <2> QED
    BY <2>2, <2>3
<1>2. Cardinality({Nobody, AcceptThread, NoClient}) = 3
  BY AcceptorAssumption
<1>3. Nobody # AcceptThread
  <2> SUFFICES ASSUME Nobody = AcceptThread PROVE FALSE
    OBVIOUS
  <2>1. Cardinality({Nobody, NoClient}) = 3
    BY <1>2
  <2>2. Cardinality({Nobody, NoClient}) <= 2
    BY <1>1
  <2> QED
    BY <2>1, <2>2
<1>4. Nobody # NoClient
  <2> SUFFICES ASSUME Nobody = NoClient PROVE FALSE
    OBVIOUS
  <2>1. Cardinality({Nobody, AcceptThread}) = 3
    BY <1>2
  <2>2. Cardinality({Nobody, AcceptThread}) <= 2
    BY <1>1
  <2> QED
    BY <2>1, <2>2
<1>5. AcceptThread # NoClient
  <2> SUFFICES ASSUME AcceptThread = NoClient PROVE FALSE
    OBVIOUS
  <2>1. Cardinality({Nobody, AcceptThread}) = 3
    BY <1>2
  <2>2. Cardinality({Nobody, AcceptThread}) <= 2
    BY <1>1
  <2> QED
    BY <2>1, <2>2
<1> QED
  BY <1>3, <1>4, <1>5, AcceptorAssumption

\* A set of connections is finite, and no larger than the set of all of them.
LEMMA ClientSets ==
    ASSUME NEW S, S \subseteq Clients
    PROVE  /\ IsFiniteSet(S) /\ Cardinality(S) \in 0..Cardinality(Clients)
           /\ \A c : c \notin S => Cardinality(S \cup {c}) = Cardinality(S) + 1
           /\ \A c \in S : Cardinality(S \ {c}) = Cardinality(S) - 1
<1>1. IsFiniteSet(S) /\ Cardinality(S) <= Cardinality(Clients)
  BY AcceptorAssumption, FS_Subset
<1>2. Cardinality(S) \in Nat /\ Cardinality(Clients) \in Nat
  BY <1>1, AcceptorAssumption, FS_CardinalityType
<1>3. \A c : c \notin S => Cardinality(S \cup {c}) = Cardinality(S) + 1
  BY <1>1, FS_AddElement
<1>4. \A c \in S : Cardinality(S \ {c}) = Cardinality(S) - 1
  BY <1>1, FS_RemoveElement
<1> QED
  BY <1>1, <1>2, <1>3, <1>4

-----------------------------------------------------------------------------
(* Steps that leave the list and the counts alone *)

\* The list is a set of connections, and the pending one is not in it.
LEMMA Listed ==
    ASSUME IInv
    PROVE  /\ threadList \subseteq Clients
           /\ \A ip : Of(ip) \subseteq Clients
           /\ pending \notin threadList
           /\ pending # NoClient => pending \in Clients /\ Address[pending] \in IPs
           /\ connectionsPerIP \in [IPs -> Nat]
<1>1. threadList \subseteq Clients /\ \A ip : Of(ip) \subseteq Clients
  BY DEF IInv, TypeOK, Of
<1>2. pending \notin threadList
  BY DEF IInv, TypeOK, ClientShape
<1>3. pending # NoClient => pending \in Clients /\ Address[pending] \in IPs
  BY AcceptorAssumption DEF IInv, TypeOK
<1>4. connectionsPerIP \in [IPs -> Nat]
  <2>1. Cardinality(Clients) \in Nat
    BY AcceptorAssumption, FS_CardinalityType
  <2> QED
    BY <2>1 DEF IInv, TypeOK
<1> QED
  BY <1>1, <1>2, <1>3, <1>4

\* Steps that leave the list alone and refuse nobody keep the counts.
LEMMA CountsSame ==
    ASSUME CountsMatch, UNCHANGED <<threadList, connectionsPerIP>>,
           acceptor' = "refusing" <=> acceptor = "refusing",
           acceptor = "refusing" => pending' = pending
    PROVE  CountsMatch'
<1>1. \A ip \in IPs : Of(ip)' = Of(ip)
  BY DEF Of
<1> QED
  BY <1>1 DEF CountsMatch

\* The owner's operations.
LEMMA OwnerPreserves ==
    ASSUME IInv,
           \/ startInBackground \/ startBlocking \/ stop \/ Release
           \/ \E n \in Limits : setMaxConcurrentClients(n)
           \/ \E n \in IPLimits : setMaxConnectionsPerIP(n)
           \/ setMaxWaitMSTime \/ SetterNotifies
    PROVE  IInv'
<1> USE DEF acceptVars, clientVars, configVars, lifeVars, destructorVars
<1>1. CASE startInBackground \/ startBlocking
  <2>1. TypeOK'
    BY <1>1, ZenonT(30) DEF startInBackground, startBlocking, IInv, TypeOK
  <2>2. ClientShape' /\ UsersOutlived'
    BY <1>1 DEF startInBackground, startBlocking, IInv, ClientShape, UsersOutlived
  <2>3. LifeShape' /\ FinalizedLast'
    BY <1>1 DEF startInBackground, startBlocking, IInv, LifeShape, FinalizedLast
  <2>4. NoLostWakeup' /\ CountsMatch'
    BY <1>1, CountsSame DEF startInBackground, startBlocking, IInv, NoLostWakeup
  <2> QED
    BY <2>1, <2>2, <2>3, <2>4 DEF IInv
<1>2. CASE stop
  <2>1. TypeOK'
    <3>1. /\ listening' = FALSE /\ owned' = owned /\ holder' = holder
          /\ acceptor' = acceptor /\ background' = background /\ pending' = pending
          /\ notFull' = notFull /\ client' = client /\ threadList' = threadList
          /\ connectionsPerIP' = connectionsPerIP /\ settings' = settings /\ setting' = setting
          /\ maxConcurrentClients' = maxConcurrentClients
          /\ maxConnectionsPerIP' = maxConnectionsPerIP
          /\ destructor' = destructor /\ selfDestroyed' = selfDestroyed
          /\ finalized' = finalized /\ empty' = empty /\ shut' = shut
      BY <1>2 DEF stop
    <3>2. TypeOK
      BY DEF IInv
    <3>3. /\ acceptor' \in {"none", "accepting", "accepted", "waiting", "timedout", "refusing",
                           "ended", "released"}
          /\ background' \in BOOLEAN /\ notFull' \in BOOLEAN
          /\ pending' \in Clients \cup {NoClient}
          /\ (pending' # NoClient) <=>
               (acceptor' \in {"accepted", "waiting", "timedout", "refusing"})
      BY <3>1, <3>2, Zenon DEF TypeOK
    <3>4. /\ client' \in [Clients -> {"new", "pending", "serving", "finishing",
                                     "notifying", "gone", "closed"}]
          /\ threadList' = {c \in Clients : client'[c] \in {"serving", "finishing"}}
          /\ connectionsPerIP' \in [IPs -> 0..Cardinality(Clients)]
      BY <3>1, <3>2, Zenon DEF TypeOK
    <3>5. /\ maxConcurrentClients' \in Limits /\ maxConnectionsPerIP' \in IPLimits
          /\ settings' \in 0..MaxSettings /\ setting' \in BOOLEAN
          /\ holder' \in Clients \cup {Nobody, AcceptThread}
          /\ listening' \in BOOLEAN /\ owned' \in BOOLEAN
      BY <3>1, <3>2, Zenon DEF TypeOK
    <3>6. /\ destructor' \in {"none", "stop", "join", "close", "emptying", "done"}
          /\ selfDestroyed' \in BOOLEAN /\ finalized' \in BOOLEAN /\ empty' \in BOOLEAN
          /\ shut' \in SUBSET Clients
      BY <3>1, <3>2, Zenon DEF TypeOK
    <3> QED
      BY <3>3, <3>4, <3>5, <3>6, Zenon DEF TypeOK
  <2>2. ClientShape' /\ UsersOutlived'
    BY <1>2 DEF stop, IInv, ClientShape, UsersOutlived
  <2>3. LifeShape' /\ FinalizedLast'
    BY <1>2 DEF stop, IInv, LifeShape, FinalizedLast
  <2>4. NoLostWakeup' /\ CountsMatch'
    BY <1>2, CountsSame DEF stop, IInv, NoLostWakeup, Full
  <2> QED
    BY <2>1, <2>2, <2>3, <2>4 DEF IInv
<1>3. CASE Release
  <2>1. TypeOK' /\ ClientShape' /\ LifeShape' /\ FinalizedLast' /\ UsersOutlived'
    BY <1>3 DEF Release, HeldByThread, IInv, TypeOK, ClientShape, LifeShape, FinalizedLast,
       UsersOutlived
  <2>2. NoLostWakeup' /\ CountsMatch'
    BY <1>3, CountsSame DEF Release, IInv, NoLostWakeup, Full
  <2> QED
    BY <2>1, <2>2 DEF IInv
<1>4. ASSUME NEW n \in Limits, setMaxConcurrentClients(n) PROVE IInv'
  <2>1. TypeOK' /\ ClientShape' /\ LifeShape' /\ FinalizedLast' /\ UsersOutlived'
    BY <1>4, AcceptorAssumption DEF setMaxConcurrentClients, Set, IInv, TypeOK, ClientShape,
       LifeShape, FinalizedLast, UsersOutlived
  <2>2. NoLostWakeup' /\ CountsMatch'
    BY <1>4, CountsSame DEF setMaxConcurrentClients, Set, IInv, NoLostWakeup
  <2> QED
    BY <2>1, <2>2 DEF IInv
<1>5. ASSUME NEW n \in IPLimits, setMaxConnectionsPerIP(n) PROVE IInv'
  <2>1. TypeOK'
    <3>1. settings' \in 0..MaxSettings
      <4>1. settings \in 0..MaxSettings /\ settings < MaxSettings /\ settings' = settings + 1
        BY <1>5 DEF setMaxConnectionsPerIP, Set, IInv, TypeOK
      <4> QED
        BY <4>1, AcceptorAssumption
    <3>2. setting' = FALSE /\ maxConnectionsPerIP' \in IPLimits
      BY <1>5 DEF setMaxConnectionsPerIP, Set
    <3> QED
      BY <1>5, <3>1, <3>2, ZenonT(30) DEF setMaxConnectionsPerIP, Set, IInv, TypeOK
  <2>2. ClientShape' /\ LifeShape' /\ FinalizedLast' /\ UsersOutlived'
    BY <1>5 DEF setMaxConnectionsPerIP, Set, IInv, TypeOK, ClientShape, LifeShape,
       FinalizedLast, UsersOutlived
  <2>3. NoLostWakeup' /\ CountsMatch'
    BY <1>5, CountsSame DEF setMaxConnectionsPerIP, Set, IInv, NoLostWakeup, Full
  <2> QED
    BY <2>1, <2>2, <2>3 DEF IInv
<1>6. CASE setMaxWaitMSTime
  <2>1. TypeOK' /\ ClientShape' /\ LifeShape' /\ FinalizedLast' /\ UsersOutlived'
    BY <1>6, AcceptorAssumption DEF setMaxWaitMSTime, Set, IInv, TypeOK, ClientShape,
       LifeShape, FinalizedLast, UsersOutlived
  <2>2. NoLostWakeup' /\ CountsMatch'
    BY <1>6, CountsSame DEF setMaxWaitMSTime, Set, IInv, NoLostWakeup
  <2> QED
    BY <2>1, <2>2 DEF IInv
<1>7. CASE SetterNotifies
  <2>1. TypeOK' /\ ClientShape' /\ LifeShape' /\ FinalizedLast' /\ UsersOutlived'
    BY <1>7 DEF SetterNotifies, IInv, TypeOK, ClientShape, LifeShape, FinalizedLast, UsersOutlived
  <2>2. NoLostWakeup' /\ CountsMatch'
    BY <1>7, CountsSame DEF SetterNotifies, IInv, NoLostWakeup
  <2> QED
    BY <2>1, <2>2 DEF IInv
<1> QED
  BY <1>1, <1>2, <1>3, <1>4, <1>5, <1>6, <1>7

-----------------------------------------------------------------------------
(* The accepting thread *)

\* Steps that leave the list and the counts alone.
LEMMA AcceptingPreserves ==
    ASSUME IInv,
           \/ \E c \in Clients : Accept(c)
           \/ AcceptFails \/ Wait \/ TimedOut \/ AcceptThreadEnds
    PROVE  IInv'
<1> USE DEF acceptVars, clientVars, configVars, lifeVars, destructorVars
<1>1. ASSUME NEW c \in Clients, Accept(c) PROVE IInv'
  <2>1. TypeOK'
    BY <1>1, Distinct DEF Accept, IInv, TypeOK
  <2>2. ClientShape' /\ LifeShape' /\ FinalizedLast' /\ UsersOutlived'
    BY <1>1, Distinct DEF Accept, IInv, TypeOK, ClientShape, LifeShape, FinalizedLast, UsersOutlived
  <2>3. NoLostWakeup' /\ CountsMatch'
    BY <1>1, CountsSame DEF Accept, IInv, NoLostWakeup
  <2> QED
    BY <2>1, <2>2, <2>3 DEF IInv
<1>2. CASE AcceptFails
  <2>1. TypeOK'
    BY <1>2 DEF AcceptFails, IInv, TypeOK
  <2>2. ClientShape' /\ LifeShape' /\ FinalizedLast' /\ UsersOutlived'
    BY <1>2 DEF AcceptFails, IInv, TypeOK, ClientShape, LifeShape, FinalizedLast, UsersOutlived
  <2>3. NoLostWakeup' /\ CountsMatch'
    BY <1>2, CountsSame DEF AcceptFails, IInv, NoLostWakeup
  <2> QED
    BY <2>1, <2>2, <2>3 DEF IInv
<1>3. CASE Wait
  <2>1. TypeOK'
    BY <1>3 DEF Wait, InProcessClient, IInv, TypeOK
  <2>2. ClientShape' /\ LifeShape' /\ FinalizedLast' /\ UsersOutlived'
    BY <1>3 DEF Wait, InProcessClient, IInv, TypeOK, ClientShape, LifeShape, FinalizedLast,
       UsersOutlived
  <2>3. NoLostWakeup' /\ CountsMatch'
    BY <1>3, CountsSame DEF Wait, InProcessClient, Full, IInv, NoLostWakeup
  <2> QED
    BY <2>1, <2>2, <2>3 DEF IInv
<1>4. CASE TimedOut
  <2>1. TypeOK'
    BY <1>4 DEF TimedOut, IInv, TypeOK
  <2>2. ClientShape' /\ LifeShape' /\ FinalizedLast' /\ UsersOutlived'
    BY <1>4, Distinct DEF TimedOut, IInv, TypeOK, ClientShape, LifeShape, FinalizedLast, UsersOutlived
  <2>3. NoLostWakeup' /\ CountsMatch'
    BY <1>4, CountsSame DEF TimedOut, IInv, NoLostWakeup
  <2> QED
    BY <2>1, <2>2, <2>3 DEF IInv
<1>5. CASE AcceptThreadEnds
  <2>1. TypeOK'
    BY <1>5 DEF AcceptThreadEnds, IInv, TypeOK
  <2>2. ClientShape' /\ LifeShape' /\ FinalizedLast' /\ UsersOutlived'
    BY <1>5 DEF AcceptThreadEnds, IInv, TypeOK, ClientShape, LifeShape, FinalizedLast, UsersOutlived
  <2>3. NoLostWakeup' /\ CountsMatch'
    BY <1>5, CountsSame DEF AcceptThreadEnds, IInv, NoLostWakeup
  <2> QED
    BY <2>1, <2>2, <2>3 DEF IInv
<1> QED
  BY <1>1, <1>2, <1>3, <1>4, <1>5

\* A connection over the limit of its address is counted while it is refused, and
\* the count stays within its type: it is not in the list.
LEMMA RefusePreserves ==
    ASSUME IInv, Refuse
    PROVE  IInv'
<1> USE DEF acceptVars, clientVars, configVars, lifeVars, destructorVars
<1>1. /\ pending \in Clients /\ Address[pending] \in IPs /\ pending \notin threadList
      /\ acceptor # "refusing" /\ acceptor' = "refusing"
      /\ UNCHANGED <<threadList, pending, client>>
      /\ connectionsPerIP' = [connectionsPerIP EXCEPT ![Address[pending]] = @ + 1]
      /\ connectionsPerIP \in [IPs -> Nat]
  BY Listed DEF Refuse, InProcessClient, incrementIPUsage, IInv, TypeOK
<1>2. \A ip \in IPs : Of(ip)' = Of(ip) /\ Of(ip) \subseteq Clients /\ pending \notin Of(ip)
  BY <1>1, Listed DEF Of
<1>3. CountsMatch'
  <2> SUFFICES ASSUME NEW ip \in IPs
               PROVE  connectionsPerIP'[ip] = Cardinality(Of(ip)')
                        + (IF Address[pending] = ip THEN 1 ELSE 0)
    BY <1>1 DEF CountsMatch
  <2>1. Cardinality(Of(ip)') = Cardinality(Of(ip)) /\ Cardinality(Of(ip)) \in Nat
    BY <1>2, ClientSets
  <2>2. connectionsPerIP[ip] = Cardinality(Of(ip))
    BY <1>1, <2>1 DEF IInv, CountsMatch
  <2>3. connectionsPerIP'[ip] = IF Address[pending] = ip THEN connectionsPerIP[ip] + 1
                                ELSE connectionsPerIP[ip]
    BY <1>1
  <2> QED
    BY <2>1, <2>2, <2>3
<1>4. \A ip \in IPs : connectionsPerIP'[ip] \in 0..Cardinality(Clients)
  <2> SUFFICES ASSUME NEW ip \in IPs PROVE connectionsPerIP'[ip] \in 0..Cardinality(Clients)
    OBVIOUS
  <2>1. CASE ip = Address[pending]
    <3>1. Of(ip) \cup {pending} \subseteq Clients
      BY <1>1, <1>2
    <3>2. Cardinality(Of(ip) \cup {pending}) = Cardinality(Of(ip)) + 1
      BY <1>2, ClientSets
    <3>3. Cardinality(Of(ip) \cup {pending}) \in 0..Cardinality(Clients)
      BY <3>1, ClientSets
    <3>4. connectionsPerIP'[ip] = Cardinality(Of(ip)) + 1
      <4>1. Cardinality(Of(ip)) \in Nat
        BY <1>2, ClientSets
      <4> QED
        BY <1>1, <1>2, <2>1, <4>1 DEF IInv, CountsMatch
    <3> QED
      BY <3>2, <3>3, <3>4
  <2>2. CASE ip # Address[pending]
    BY <1>1, <2>2 DEF IInv, TypeOK
  <2> QED
    BY <2>1, <2>2
<1>5. TypeOK'
  <2>1. connectionsPerIP' \in [IPs -> 0..Cardinality(Clients)]
    BY <1>1, <1>4
  <2> QED
    BY <1>1, <2>1 DEF Refuse, InProcessClient, IInv, TypeOK
<1>6. ClientShape' /\ LifeShape' /\ FinalizedLast' /\ UsersOutlived' /\ NoLostWakeup'
  BY Distinct DEF Refuse, InProcessClient, IInv, TypeOK, ClientShape, LifeShape, FinalizedLast,
     UsersOutlived, NoLostWakeup
<1> QED
  BY <1>3, <1>5, <1>6 DEF IInv

\* The refusal ends: the connection is counted off again if it was counted.
LEMMA RefusalEndsPreserves ==
    ASSUME IInv, RefusalEnds
    PROVE  IInv'
<1> USE DEF acceptVars, clientVars, configVars, lifeVars, destructorVars
<1>1. /\ pending \in Clients /\ Address[pending] \in IPs
      /\ acceptor' = "accepting" /\ UNCHANGED threadList
      /\ connectionsPerIP \in [IPs -> Nat]
  BY Listed DEF RefusalEnds, IInv, TypeOK
<1>2. \A ip \in IPs : Of(ip)' = Of(ip) /\ Of(ip) \subseteq Clients
  BY <1>1, Listed DEF Of
<1>3. \A ip \in IPs : connectionsPerIP'[ip] = Cardinality(Of(ip))
  <2> SUFFICES ASSUME NEW ip \in IPs PROVE connectionsPerIP'[ip] = Cardinality(Of(ip))
    OBVIOUS
  <2>1. Cardinality(Of(ip)) \in Nat
    BY <1>2, ClientSets
  <2> QED
    BY <1>1, <2>1 DEF RefusalEnds, decrementIPUsage, IInv, CountsMatch
<1>4. CountsMatch'
  <2>1. \A ip \in IPs : Cardinality(Of(ip)) + 0 = Cardinality(Of(ip))
    BY <1>2, ClientSets
  <2> QED
    BY <1>1, <1>2, <1>3, <2>1 DEF CountsMatch
<1>5. TypeOK'
  <2>1. \A ip \in IPs : connectionsPerIP'[ip] \in 0..Cardinality(Clients)
    BY <1>2, <1>3, ClientSets
  <2>2. connectionsPerIP' \in [IPs -> 0..Cardinality(Clients)]
    BY <1>1, <2>1 DEF RefusalEnds, decrementIPUsage
  <2>3. /\ client' \in [Clients -> {"new", "pending", "serving", "finishing",
                                    "notifying", "gone", "closed"}]
        /\ \A c \in Clients : client'[c] \in {"serving", "finishing"} <=>
                                client[c] \in {"serving", "finishing"}
    BY <1>1 DEF RefusalEnds, IInv, TypeOK, ClientShape
  <2> QED
    BY <1>1, <2>2, <2>3 DEF RefusalEnds, IInv, TypeOK
<1>6. ClientShape' /\ LifeShape' /\ FinalizedLast' /\ UsersOutlived' /\ NoLostWakeup'
  BY <1>1, Distinct DEF RefusalEnds, IInv, TypeOK, ClientShape, LifeShape, FinalizedLast,
     UsersOutlived, NoLostWakeup
<1> QED
  BY <1>4, <1>5, <1>6 DEF IInv

\* The connection is listed and counted, within both limits.
LEMMA AdmitPreserves ==
    ASSUME IInv, Admit
    PROVE  /\ IInv'
           /\ threadList' = threadList \cup {pending}
           /\ Cardinality(threadList') <= maxConcurrentClients
           /\ Cardinality({d \in threadList' : Address[d] = Address[pending]}) <= maxConnectionsPerIP
<1> USE DEF acceptVars, clientVars, configVars, lifeVars, destructorVars
<1>1. /\ pending \in Clients /\ Address[pending] \in IPs /\ pending \notin threadList
      /\ acceptor # "refusing" /\ acceptor' = "accepting" /\ destructor = "none"
      /\ threadList' = threadList \cup {pending} /\ threadList \subseteq Clients
      /\ connectionsPerIP' = [connectionsPerIP EXCEPT ![Address[pending]] = @ + 1]
      /\ connectionsPerIP'[Address[pending]] <= maxConnectionsPerIP
      /\ connectionsPerIP \in [IPs -> Nat]
  BY Listed DEF Admit, InProcessClient, incrementIPUsage, IInv, TypeOK, FinalizedLast
<1>2. ASSUME NEW ip \in IPs
      PROVE  /\ Of(ip) \subseteq Clients /\ pending \notin Of(ip)
             /\ Of(ip)' = IF ip = Address[pending] THEN Of(ip) \cup {pending} ELSE Of(ip)
             /\ Of(ip)' \subseteq Clients
  BY <1>1 DEF Of
<1>3. ASSUME NEW ip \in IPs PROVE connectionsPerIP'[ip] = Cardinality(Of(ip)')
  <2>1. Cardinality(Of(ip)) \in Nat /\ Cardinality(Of(ip) \cup {pending}) = Cardinality(Of(ip)) + 1
    BY <1>2, ClientSets
  <2>2. connectionsPerIP[ip] = Cardinality(Of(ip))
    BY <1>1, <2>1 DEF IInv, CountsMatch
  <2>3. connectionsPerIP'[ip] = IF ip = Address[pending] THEN connectionsPerIP[ip] + 1
                                ELSE connectionsPerIP[ip]
    BY <1>1
  <2> QED
    BY <1>2, <2>1, <2>2, <2>3
<1>4. \A ip \in IPs : Cardinality(Of(ip)') \in 0..Cardinality(Clients)
  BY <1>2, ClientSets
<1>5. CountsMatch'
  <2>1. \A ip \in IPs : Cardinality(Of(ip)') + 0 = Cardinality(Of(ip)')
    BY <1>4
  <2> QED
    BY <1>1, <1>3, <2>1 DEF CountsMatch
<1>6. TypeOK'
  <2>1. connectionsPerIP' \in [IPs -> 0..Cardinality(Clients)]
    BY <1>1, <1>3, <1>4
  <2>2. /\ client' \in [Clients -> {"new", "pending", "serving", "finishing",
                                    "notifying", "gone", "closed"}]
        /\ client'[pending] = "serving"
        /\ \A c \in Clients : c # pending => client'[c] = client[c]
    BY <1>1 DEF Admit, IInv, TypeOK
  <2>3. threadList' = {c \in Clients : client'[c] \in {"serving", "finishing"}}
    BY <1>1, <2>2 DEF IInv, TypeOK
  <2> QED
    BY <1>1, <2>1, <2>2, <2>3 DEF Admit, IInv, TypeOK
<1>7. ClientShape' /\ LifeShape' /\ FinalizedLast' /\ UsersOutlived' /\ NoLostWakeup'
  BY <1>1, Distinct DEF Admit, InProcessClient, IInv, TypeOK, ClientShape, LifeShape,
     FinalizedLast, UsersOutlived, NoLostWakeup
<1>8. Cardinality(threadList') <= maxConcurrentClients
  <2>1. Cardinality(threadList') = Cardinality(threadList) + 1 /\ Cardinality(threadList) \in Nat
    BY <1>1, ClientSets
  <2>2. maxConcurrentClients \in Nat /\ ~(Cardinality(threadList) >= maxConcurrentClients)
    BY AcceptorAssumption DEF Admit, Full, IInv, TypeOK
  <2> QED
    BY <2>1, <2>2
<1>9. Cardinality({d \in threadList' : Address[d] = Address[pending]}) <= maxConnectionsPerIP
  <2>1. PICK ip \in IPs : ip = Address[pending]
    BY <1>1
  <2>2. Of(ip)' = {d \in threadList' : Address[d] = Address[pending]}
    BY <2>1 DEF Of
  <2> QED
    BY <1>1, <1>3, <2>1, <2>2
<1> QED
  BY <1>1, <1>5, <1>6, <1>7, <1>8, <1>9 DEF IInv

-----------------------------------------------------------------------------
(* A client's thread and the destructor *)

\* A client's callback returns, or its thread notifies.
LEMMA ClientPreserves ==
    ASSUME IInv, NEW c \in Clients, postInitConnection(c) \/ Notify(c)
    PROVE  IInv'
<1> USE DEF acceptVars, clientVars, configVars, lifeVars, destructorVars
<1>1. CASE postInitConnection(c)
  <2>1. /\ client' \in [Clients -> {"new", "pending", "serving", "finishing",
                                    "notifying", "gone", "closed"}]
        /\ client[c] = "serving" /\ client'[c] = "finishing"
        /\ \A d \in Clients : d # c => client'[d] = client[d]
    BY <1>1 DEF postInitConnection, IInv, TypeOK
  <2>2. TypeOK'
    BY <1>1, <2>1 DEF postInitConnection, IInv, TypeOK
  <2>3. ClientShape' /\ LifeShape' /\ FinalizedLast' /\ UsersOutlived'
    BY <1>1, <2>1 DEF postInitConnection, IInv, ClientShape, LifeShape, FinalizedLast, UsersOutlived
  <2>4. NoLostWakeup'
    BY <1>1, <2>1 DEF postInitConnection, IInv, NoLostWakeup, Full
  <2>5. CountsMatch'
    BY <1>1, CountsSame DEF postInitConnection, IInv
  <2> QED
    BY <2>2, <2>3, <2>4, <2>5 DEF IInv
<1>2. CASE Notify(c)
  <2>1. /\ client' \in [Clients -> {"new", "pending", "serving", "finishing",
                                    "notifying", "gone", "closed"}]
        /\ client[c] = "notifying" /\ client'[c] = "gone"
        /\ \A d \in Clients : d # c => client'[d] = client[d]
        /\ holder = c /\ holder' = Nobody
    BY <1>2 DEF Notify, IInv, TypeOK, ClientShape
  <2>2. TypeOK'
    BY <1>2, <2>1 DEF Notify, IInv, TypeOK
  <2>3. ClientShape' /\ LifeShape' /\ FinalizedLast' /\ UsersOutlived'
    BY <1>2, <2>1, Distinct DEF Notify, IInv, ClientShape, LifeShape, FinalizedLast, UsersOutlived
  <2>4. NoLostWakeup'
    BY <1>2 DEF Notify, NoLostWakeup
  <2>5. CountsMatch'
    BY <1>2, CountsSame DEF Notify, IInv
  <2> QED
    BY <2>2, <2>3, <2>4, <2>5 DEF IInv
<1> QED
  BY <1>1, <1>2

\* finalizeThreadElement: the count it takes one from is positive.
LEMMA FinalizePreserves ==
    ASSUME IInv, NEW c \in Clients, finalizeThreadElement(c)
    PROVE  IInv'
<1> USE DEF acceptVars, clientVars, configVars, lifeVars, destructorVars
<1>1. /\ c \in threadList /\ threadList' = threadList \ {c} /\ threadList \subseteq Clients
      /\ Address[c] \in IPs /\ acceptor' = acceptor
      /\ acceptor # "refusing"
      /\ connectionsPerIP' = [connectionsPerIP EXCEPT ![Address[c]] = @ - 1]
      /\ connectionsPerIP \in [IPs -> Nat]
  BY Listed, Distinct, AcceptorAssumption
     DEF finalizeThreadElement, decrementIPUsage, IInv, TypeOK, ClientShape
<1>2. ASSUME NEW ip \in IPs
      PROVE  /\ Of(ip) \subseteq Clients /\ (ip = Address[c] => c \in Of(ip))
             /\ Of(ip)' = IF ip = Address[c] THEN Of(ip) \ {c} ELSE Of(ip)
             /\ Of(ip)' \subseteq Clients
  BY <1>1 DEF Of
<1>3. ASSUME NEW ip \in IPs PROVE connectionsPerIP'[ip] = Cardinality(Of(ip)')
  <2>1. /\ Cardinality(Of(ip)) \in Nat
        /\ ip = Address[c] => Cardinality(Of(ip) \ {c}) = Cardinality(Of(ip)) - 1
    BY <1>2, ClientSets
  <2>2. connectionsPerIP[ip] = Cardinality(Of(ip))
    BY <1>1, <2>1 DEF IInv, CountsMatch
  <2>3. connectionsPerIP'[ip] = IF ip = Address[c] THEN connectionsPerIP[ip] - 1
                                ELSE connectionsPerIP[ip]
    BY <1>1
  <2> QED
    BY <1>2, <2>1, <2>2, <2>3
<1>4. \A ip \in IPs : Cardinality(Of(ip)') \in 0..Cardinality(Clients)
  BY <1>2, ClientSets
<1>5. CountsMatch'
  <2>1. \A ip \in IPs : Cardinality(Of(ip)') + 0 = Cardinality(Of(ip)')
    BY <1>4
  <2> QED
    BY <1>1, <1>3, <2>1 DEF CountsMatch
<1>6. /\ client' \in [Clients -> {"new", "pending", "serving", "finishing",
                                  "notifying", "gone", "closed"}]
      /\ client[c] = "finishing" /\ client'[c] = "notifying"
      /\ \A d \in Clients : d # c => client'[d] = client[d]
      /\ holder = Nobody /\ holder' = c
  BY DEF finalizeThreadElement, IInv, TypeOK
<1>7. TypeOK'
  <2>1. connectionsPerIP' \in [IPs -> 0..Cardinality(Clients)]
    BY <1>1, <1>3, <1>4
  <2>2. threadList' = {d \in Clients : client'[d] \in {"serving", "finishing"}}
    BY <1>1, <1>6 DEF IInv, TypeOK
  <2> QED
    BY <1>1, <1>6, <2>1, <2>2 DEF finalizeThreadElement, IInv, TypeOK
<1>8. ClientShape' /\ LifeShape' /\ FinalizedLast' /\ UsersOutlived'
  BY <1>1, <1>6, Distinct DEF finalizeThreadElement, IInv, TypeOK, ClientShape, LifeShape,
     FinalizedLast, UsersOutlived
<1>9. NoLostWakeup'
  BY <1>6 DEF NoLostWakeup
<1> QED
  BY <1>5, <1>7, <1>8, <1>9 DEF IInv

\* ~MultiThreaded: when it returns, the list is empty and nobody holds the lock.
LEMMA DestructorPreserves ==
    ASSUME IInv,
           DestructorStops \/ DestructorJoins \/ DestructorStopsClients \/ DestructorEnds
    PROVE  IInv'
<1> USE DEF acceptVars, clientVars, configVars, lifeVars, destructorVars
<1>1. CASE DestructorStops
  <2>1. TypeOK'
    BY <1>1 DEF DestructorStops, IInv, TypeOK
  <2>2. ClientShape' /\ LifeShape' /\ FinalizedLast' /\ UsersOutlived' /\ NoLostWakeup'
    BY <1>1 DEF DestructorStops, IInv, TypeOK, ClientShape, LifeShape, FinalizedLast,
       UsersOutlived, NoLostWakeup
  <2>3. CountsMatch'
    BY <1>1, CountsSame DEF DestructorStops, IInv
  <2> QED
    BY <2>1, <2>2, <2>3 DEF IInv
<1>2. CASE DestructorJoins
  <2>1. TypeOK'
    BY <1>2 DEF DestructorJoins, IInv, TypeOK
  <2>2. ClientShape' /\ LifeShape' /\ FinalizedLast' /\ UsersOutlived' /\ NoLostWakeup'
    BY <1>2 DEF DestructorJoins, IInv, TypeOK, ClientShape, LifeShape, FinalizedLast,
       UsersOutlived, NoLostWakeup
  <2>3. CountsMatch'
    BY <1>2, CountsSame DEF DestructorJoins, IInv
  <2> QED
    BY <2>1, <2>2, <2>3 DEF IInv
<1>3. CASE DestructorStopsClients \/ DestructorEnds
  <2>1. /\ destructor \in {"close", "emptying"} /\ holder = Nobody
        /\ destructor' \in {"emptying", "done"} /\ (destructor' = "done" => threadList = {})
        /\ UNCHANGED <<acceptVars, clientVars, configVars, holder, lifeVars, selfDestroyed,
                       finalized, empty>>
        /\ shut' \in SUBSET Clients
    BY <1>3, Listed DEF DestructorStopsClients, DestructorEnds, IInv, TypeOK
  <2>2. TypeOK'
    BY <2>1 DEF IInv, TypeOK
  <2>3. ClientShape' /\ LifeShape' /\ FinalizedLast' /\ NoLostWakeup'
    BY <2>1 DEF IInv, TypeOK, ClientShape, LifeShape, FinalizedLast, NoLostWakeup
  <2>4. UsersOutlived'
    <3>1. pending = NoClient
      BY <2>1 DEF IInv, TypeOK, FinalizedLast
    <3>2. \A c \in Clients : client[c] \notin {"pending", "notifying"}
      BY <2>1, <3>1, Distinct DEF IInv, ClientShape
    <3>3. threadList = {} => \A c \in Clients : client[c] \notin {"serving", "finishing"}
      BY DEF IInv, TypeOK
    <3> QED
      BY <2>1, <3>2, <3>3 DEF UsersOutlived
  <2>5. CountsMatch'
    BY <2>1, CountsSame DEF IInv
  <2> QED
    BY <2>2, <2>3, <2>4, <2>5 DEF IInv
<1> QED
  BY <1>1, <1>2, <1>3

-----------------------------------------------------------------------------
(* The theorems *)

\* Before the acceptor is started nobody is listed or counted.
LEMMA InitIInv == Init => IInv
<1> SUFFICES ASSUME Init PROVE IInv
  OBVIOUS
<1>1. \A ip \in IPs : Of(ip) = {}
  BY DEF Init, Of
<1>2. CountsMatch
  BY <1>1, FS_EmptySet DEF Init, CountsMatch
<1>3. Cardinality(Clients) \in Nat
  BY AcceptorAssumption, FS_CardinalityType
<1>4. TypeOK
  <2>1. threadList = {c \in Clients : client[c] \in {"serving", "finishing"}}
    BY DEF Init
  <2>2. connectionsPerIP \in [IPs -> 0..Cardinality(Clients)] /\ settings \in 0..MaxSettings
    BY <1>3, AcceptorAssumption DEF Init
  <2>3. /\ client \in [Clients -> {"new", "pending", "serving", "finishing",
                                   "notifying", "gone", "closed"}]
        /\ pending = NoClient /\ acceptor = "none" /\ shut = {} /\ destructor = "none"
    BY DEF Init
  <2> QED
    BY <2>1, <2>2, <2>3 DEF Init, TypeOK
<1>5. ClientShape /\ LifeShape /\ FinalizedLast /\ UsersOutlived /\ NoLostWakeup
  BY Distinct DEF Init, ClientShape, LifeShape, FinalizedLast, UsersOutlived, NoLostWakeup
<1> QED
  BY <1>2, <1>4, <1>5 DEF IInv

\* Every step preserves the invariant.
LEMMA NextIInv == IInv /\ [Next]_vars => IInv'
<1> SUFFICES ASSUME IInv, [Next]_vars PROVE IInv'
  OBVIOUS
<1>1. CASE UNCHANGED vars
  <2> USE DEF vars, acceptVars, clientVars, configVars, lifeVars, destructorVars
  <2>1. TypeOK' /\ ClientShape' /\ LifeShape' /\ FinalizedLast' /\ UsersOutlived'
    BY <1>1 DEF IInv, TypeOK, ClientShape, LifeShape, FinalizedLast, UsersOutlived
  <2>2. NoLostWakeup' /\ CountsMatch'
    BY <1>1, CountsSame DEF IInv, NoLostWakeup, Full
  <2> QED
    BY <2>1, <2>2 DEF IInv
<1>2. CASE Next
  BY <1>2, OwnerPreserves, AcceptingPreserves, RefusePreserves, RefusalEndsPreserves,
     AdmitPreserves, ClientPreserves, FinalizePreserves, DestructorPreserves DEF Next
<1> QED
  BY <1>1, <1>2

\* The inductive invariant holds in every reachable state.
THEOREM Invariance == Spec => []IInv
<1>1. Init => IInv
  BY InitIInv
<1>2. IInv /\ [Next]_vars => IInv'
  BY NextIInv
<1> QED
  BY <1>1, <1>2, PTL DEF Spec

\* The state of the acceptor has its type: m_threadList holds exactly the threads
\* that have not yet left it, and no count of an address is negative.
THEOREM TypeCorrect == Spec => []TypeOK
<1>1. IInv => TypeOK
  BY DEF IInv
<1> QED
  BY <1>1, Invariance, PTL

\* m_connectionsPerIP counts the listed threads of every address.
THEOREM CountsAreExact == Spec => []CountsMatch
<1>1. IInv => CountsMatch
  BY DEF IInv
<1> QED
  BY <1>1, Invariance, PTL

\* ~MultiThreaded returns only when no client's thread will use the acceptor again.
THEOREM ThreadsAreOutlived == Spec => []UsersOutlived
<1>1. IInv => UsersOutlived
  BY DEF IInv
<1> QED
  BY <1>1, Invariance, PTL

\* The destructor runs only after the accepting thread has left processClient.
THEOREM FinalizedAfterAccepting == Spec => []FinalizedLast
<1>1. IInv => FinalizedLast
  BY DEF IInv
<1> QED
  BY <1>1, Invariance, PTL

\* No connection sleeps in processClient while a slot is free and nobody will
\* notify it.
THEOREM NoWakeupLost == Spec => []NoLostWakeup
<1>1. IInv => NoLostWakeup
  BY DEF IInv
<1> QED
  BY <1>1, Invariance, PTL

\* The list grows by Admit alone.
LEMMA OnlyAdmitLists ==
    ASSUME IInv, [Next]_vars, ~Admit
    PROVE  threadList' \subseteq threadList
<1> USE DEF acceptVars, clientVars, configVars, lifeVars, destructorVars
<1>1. CASE UNCHANGED vars
  BY <1>1 DEF vars
<1>2. CASE \/ startInBackground \/ startBlocking \/ stop \/ Release
           \/ \E n \in Limits : setMaxConcurrentClients(n)
           \/ \E n \in IPLimits : setMaxConnectionsPerIP(n)
           \/ setMaxWaitMSTime \/ SetterNotifies
  BY <1>2 DEF startInBackground, startBlocking, stop, Release, setMaxConcurrentClients,
     setMaxConnectionsPerIP, setMaxWaitMSTime, Set, SetterNotifies
<1>3. CASE \/ \E c \in Clients : Accept(c)
           \/ AcceptFails \/ Wait \/ TimedOut \/ Refuse \/ RefusalEnds \/ AcceptThreadEnds
  BY <1>3 DEF Accept, AcceptFails, Wait, TimedOut, Refuse, RefusalEnds, AcceptThreadEnds
<1>4. CASE \E c \in Clients : postInitConnection(c) \/ finalizeThreadElement(c) \/ Notify(c)
  BY <1>4 DEF postInitConnection, finalizeThreadElement, Notify
<1>5. CASE DestructorStops \/ DestructorJoins \/ DestructorStopsClients \/ DestructorEnds
  BY <1>5 DEF DestructorStops, DestructorJoins, DestructorStopsClients, DestructorEnds
<1> QED
  BY <1>1, <1>2, <1>3, <1>4, <1>5 DEF Next

\* A connection is listed only within the limits in force at that moment.
THEOREM LimitsHoldAtAdmission == Spec => AdmittedWithinLimits
<1>1. ASSUME IInv, [Next]_vars
      PROVE  [\A c \in Clients : c \in threadList' \ threadList =>
                /\ Cardinality(threadList') <= maxConcurrentClients
                /\ Cardinality({d \in threadList' : Address[d] = Address[c]})
                     <= maxConnectionsPerIP]_vars
  <2>1. CASE Admit
    BY <1>1, <2>1, AdmitPreserves
  <2>2. CASE ~Admit
    BY <1>1, <2>2, OnlyAdmitLists
  <2> QED
    BY <2>1, <2>2
<1> QED
  BY <1>1, Invariance, PTL DEF Spec, AdmittedWithinLimits

-----------------------------------------------------------------------------
(* The acceptor implements ElementLifetime *)

\* A step that moves no client's thread and begins or ends neither the acceptor's
\* life nor its destruction leaves the abstract state alone.
LEMMA AbstractSame ==
    ASSUME \A c \in Clients : client'[c] \in {"serving", "finishing", "notifying"} <=>
                               client[c] \in {"serving", "finishing", "notifying"},
           acceptor' = "none" <=> acceptor = "none",
           destructor' = "none" <=> destructor = "none",
           destructor' = "done" <=> destructor = "done"
    PROVE  UNCHANGED <<phaseBar, usersBar>>
BY DEF phaseBar, usersBar

\* Every step of the acceptor is a step of ElementLifetime or leaves it alone.
LEMMA StepRefines ==
    IInv /\ [Next]_vars => [Life!LifeNext]_(Life!lifeVars)
<1> SUFFICES ASSUME IInv, [Next]_vars
             PROVE  Life!LifeNext \/ UNCHANGED <<phaseBar, usersBar>>
  BY DEF Life!lifeVars
<1> USE DEF acceptVars, clientVars, configVars, lifeVars, destructorVars
<1>1. CASE UNCHANGED vars
  BY <1>1, AbstractSame DEF vars
<1>2. CASE startInBackground \/ startBlocking
  <2>1. /\ acceptor = "none" /\ acceptor' = "accepting" /\ destructor = "none"
        /\ UNCHANGED <<client, destructor>>
    BY <1>2 DEF startInBackground, startBlocking, IInv, LifeShape
  <2>2. /\ phaseBar["acceptor"] = "new" /\ UNCHANGED usersBar
        /\ phaseBar' = [phaseBar EXCEPT !["acceptor"] = "live"]
    BY <2>1 DEF phaseBar, usersBar
  <2> QED
    BY <2>2 DEF Life!LifeNext, Life!Publish
<1>3. CASE Release \/ AcceptThreadEnds
  <2>1. /\ UNCHANGED client /\ (acceptor' = "none" <=> acceptor = "none")
        /\ destructor = "none" /\ destructor' \in {"none", "stop"}
    BY <1>3 DEF Release, AcceptThreadEnds, HeldByThread, IInv, LifeShape, FinalizedLast
  <2>2. CASE destructor' = "none" \/ acceptor = "none"
    BY <2>1, <2>2 DEF phaseBar, usersBar
  <2>3. CASE destructor' = "stop" /\ acceptor # "none"
    <3>1. /\ phaseBar["acceptor"] = "live" /\ UNCHANGED usersBar
          /\ phaseBar' = [phaseBar EXCEPT !["acceptor"] = "closing"]
      BY <2>1, <2>3 DEF phaseBar, usersBar
    <3> QED
      BY <3>1 DEF Life!LifeNext, Life!Close
  <2> QED
    BY <2>1, <2>2, <2>3
<1>4. CASE Admit
  <2>1. PICK c \in Clients : c = pending
    BY <1>4 DEF Admit, InProcessClient, IInv, TypeOK
  <2>2. /\ acceptor # "none" /\ acceptor' # "none" /\ destructor = "none" /\ UNCHANGED destructor
        /\ client' = [client EXCEPT ![c] = "serving"] /\ client[c] = "pending"
    BY <1>4, <2>1 DEF Admit, InProcessClient, IInv, FinalizedLast, ClientShape
  <2>3. phaseBar["acceptor"] = "live" /\ UNCHANGED phaseBar
    BY <2>2 DEF phaseBar
  <2>4. usersBar'["acceptor"] = usersBar["acceptor"] \cup {c}
    BY <2>2 DEF usersBar, IInv, TypeOK
  <2>5. usersBar' = [usersBar EXCEPT !["acceptor"] = @ \cup {c}]
    BY <2>4 DEF usersBar
  <2> QED
    BY <2>3, <2>5 DEF Life!LifeNext, Life!Acquire
<1>5. ASSUME NEW c \in Clients, Notify(c) PROVE Life!LifeNext
  <2>1. /\ client[c] = "notifying" /\ client' = [client EXCEPT ![c] = "gone"]
        /\ UNCHANGED <<acceptor, destructor>>
    BY <1>5 DEF Notify
  <2>2. UNCHANGED phaseBar
    BY <2>1 DEF phaseBar
  <2>3. c \in usersBar["acceptor"] /\ usersBar'["acceptor"] = usersBar["acceptor"] \ {c}
    BY <2>1 DEF usersBar, IInv, TypeOK
  <2>4. usersBar' = [usersBar EXCEPT !["acceptor"] = @ \ {c}]
    BY <2>3 DEF usersBar
  <2> QED
    BY <2>2, <2>3, <2>4 DEF Life!LifeNext, Life!Release
<1>6. CASE DestructorStopsClients \/ DestructorEnds
  <2>1. /\ destructor \in {"close", "emptying"} /\ holder = Nobody
        /\ destructor' = "emptying" \/ (destructor' = "done" /\ threadList = {})
        /\ UNCHANGED <<acceptor, client>>
    BY <1>6 DEF DestructorStopsClients, DestructorEnds
  <2>2. CASE destructor' = "emptying" \/ acceptor = "none"
    BY <2>1, <2>2 DEF phaseBar, usersBar
  <2>3. CASE destructor' = "done" /\ threadList = {} /\ acceptor # "none"
    <3>1. usersBar["acceptor"] = {} /\ UNCHANGED usersBar
      BY <2>1, <2>3, Distinct DEF usersBar, IInv, TypeOK, ClientShape
    <3>2. /\ phaseBar["acceptor"] = "closing"
          /\ phaseBar' = [phaseBar EXCEPT !["acceptor"] = "freed"]
      BY <2>1, <2>3 DEF phaseBar
    <3> QED
      BY <3>1, <3>2 DEF Life!LifeNext, Life!Free
  <2> QED
    BY <2>1, <2>2, <2>3
<1>7. CASE \/ stop \/ (\E n \in Limits : setMaxConcurrentClients(n))
           \/ (\E n \in IPLimits : setMaxConnectionsPerIP(n))
           \/ setMaxWaitMSTime \/ SetterNotifies
  <2>1. UNCHANGED <<acceptor, client, destructor>>
    BY <1>7 DEF stop, setMaxConcurrentClients, setMaxConnectionsPerIP, setMaxWaitMSTime, Set,
       SetterNotifies
  <2> QED
    BY <2>1, AbstractSame
<1>8. CASE \/ \E c \in Clients : Accept(c)
           \/ AcceptFails \/ Wait \/ TimedOut \/ Refuse \/ RefusalEnds
  <2>1. /\ UNCHANGED destructor /\ acceptor # "none" /\ acceptor' # "none"
        /\ \/ UNCHANGED client
           \/ \E c \in Clients : client[c] = "new" /\ client' = [client EXCEPT ![c] = "pending"]
           \/ /\ pending \in Clients /\ client[pending] = "pending"
              /\ client' = [client EXCEPT ![pending] = "closed"]
    BY <1>8 DEF Accept, AcceptFails, Wait, TimedOut, Refuse, RefusalEnds, InProcessClient, IInv,
       TypeOK, ClientShape
  <2>2. \A c \in Clients : client'[c] \in {"serving", "finishing", "notifying"} <=>
                            client[c] \in {"serving", "finishing", "notifying"}
    BY <2>1 DEF IInv, TypeOK
  <2> QED
    BY <2>1, <2>2, AbstractSame
<1>9. ASSUME NEW c \in Clients, postInitConnection(c) \/ finalizeThreadElement(c)
      PROVE  UNCHANGED <<phaseBar, usersBar>>
  <2>1. /\ client[c] \in {"serving", "finishing"} /\ UNCHANGED <<acceptor, destructor>>
        /\ \/ client' = [client EXCEPT ![c] = "finishing"]
           \/ client' = [client EXCEPT ![c] = "notifying"]
    BY <1>9 DEF postInitConnection, finalizeThreadElement
  <2>2. \A d \in Clients : client'[d] \in {"serving", "finishing", "notifying"} <=>
                            client[d] \in {"serving", "finishing", "notifying"}
    BY <2>1 DEF IInv, TypeOK
  <2> QED
    BY <2>1, <2>2, AbstractSame
<1>10. CASE DestructorStops \/ DestructorJoins
  <2>1. /\ UNCHANGED <<acceptor, client>> /\ destructor \in {"stop", "join"}
        /\ destructor' \in {"join", "close"}
    BY <1>10 DEF DestructorStops, DestructorJoins
  <2> QED
    BY <2>1, AbstractSame
<1> QED
  BY <1>1, <1>2, <1>3, <1>4, <1>5, <1>6, <1>7, <1>8, <1>9, <1>10 DEF Next

\* To the threads that use it the acceptor is an element of ElementLifetime: none
\* begins to use it once its destruction has begun, and it is gone only when none does.
THEOREM AcceptorImplementsLifetime == Spec => Lifetime
<1>1. Init => Life!LifeInit
  BY DEF Init, Life!LifeInit, phaseBar, usersBar
<1>2. IInv /\ [Next]_vars => [Life!LifeNext]_(Life!lifeVars)
  BY StepRefines
<1> QED
  BY <1>1, <1>2, Invariance, PTL DEF Spec, Lifetime, Life!LifeSpec
=============================================================================
