-------------------------- MODULE FastRPC3_proofs --------------------------
(***************************************************************************)
(* Proofs about FastRPC3, for any number of connections, calls and tasks:  *)
(* nobody uses what has gone with a returned handleConnection, every       *)
(* answer goes to the call that asked, and no authorisation outlives its   *)
(* call.                                                                   *)
(***************************************************************************)
EXTENDS FastRPC3, FiniteSetTheorems, TLAPS

\* A Connection is in the map while its handler is between addElement and
\* destroyElement.
HandlerPhase ==
    \A h \in Handlers :
        /\ hpc[h] \in {"new", "rejected"} <=> phase[h] = "new"
        /\ hpc[h] = "destroying" <=> phase[h] = "closing"
        /\ hpc[h] = "returned" <=> phase[h] = "freed"

\* A task that holds mtDone holds that of the handler that received it.
TaskShape == \A j \in Tasks : tpc[j] \in {"queued", "refused"} => tconn[j] \in Handlers

\* A call takes one request id, after it has opened a connection.
CallShape ==
    \A c \in Calls :
        /\ cpc[c] \in Using => conn[c] \in Handlers
        /\ cpc[c] \in {"idle", "open", "opened"} => req[c] = 0
        /\ cpc[c] \in Asking => req[c] # 0
        /\ cpc[c] \in {"idle", "open"} => tries[c] < MaxTries

\* The calls that took their request id from a connection.
Numbered(h) == {c \in Calls : conn[c] = h /\ req[c] # 0}

\* requestIdCounter has given one id to each of them ...
IdsCounted == \A h \in Handlers : nextId[h] = Cardinality(Numbered(h)) + 1

\* ... and no id twice.
IdsUnique ==
    \A h \in Handlers : \A c \in Numbered(h) :
        /\ req[c] < nextId[h]
        /\ \A d \in Numbered(h) : req[c] = req[d] => c = d

\* The peer has received each query under the id of its call, and each answer is
\* kept under the id of the call it was given for.
SentOwn ==
    \A h \in Handlers :
        /\ \A p \in sent[h] : conn[p[2]] = h /\ req[p[2]] = p[1]
        /\ \A p \in answers[h] : conn[p[2]] = h /\ req[p[2]] = p[1]

\* The inductive invariant.
IInv == /\ TypeOK /\ HandlerPhase /\ TaskShape /\ CallShape /\ IdsCounted /\ IdsUnique
        /\ SentOwn /\ NothingDangles /\ OwnAnswer /\ NoStaleRequests

-----------------------------------------------------------------------------
(* Request ids *)

\* A set of calls is finite, and no larger than the set of all of them.
LEMMA CallSets ==
    ASSUME NEW S, S \subseteq Calls
    PROVE  /\ Cardinality(S) \in 0..Cardinality(Calls) /\ Cardinality(Calls) \in Nat
           /\ \A c : c \notin S => Cardinality(S \cup {c}) = Cardinality(S) + 1
<1>1. IsFiniteSet(S) /\ Cardinality(S) <= Cardinality(Calls)
  BY RPCAssumption, FS_Subset
<1>2. Cardinality(S) \in Nat /\ Cardinality(Calls) \in Nat
  BY <1>1, RPCAssumption, FS_CardinalityType
<1>3. \A c : c \notin S => Cardinality(S \cup {c}) = Cardinality(S) + 1
  BY <1>1, FS_AddElement
<1> QED
  BY <1>1, <1>2, <1>3

\* The type of the state without the bounds on the request ids.
LEMMA Types ==
    ASSUME IInv
    PROVE  /\ nextId \in [Handlers -> Nat] /\ req \in [Calls -> Nat]
           /\ pending \in [Handlers -> SUBSET Nat]
           /\ sent \in [Handlers -> SUBSET (Nat \X Calls)]
           /\ answers \in [Handlers -> SUBSET (Nat \X Calls)]
           /\ cpc \in [Calls -> {"idle", "open", "returned"} \cup Using]
           /\ conn \in [Calls -> Handlers \cup {None}]
           /\ \A c \in Calls : cpc[c] \in Using => conn[c] \in Handlers
<1>1. Cardinality(Calls) \in Nat
  BY RPCAssumption, FS_CardinalityType
<1>2. (1..Cardinality(Calls)) \subseteq Nat
  BY <1>1
<1> QED
  BY <1>1, <1>2 DEF IInv, TypeOK, CallShape

\* Steps that give no id keep them counted and unique.
LEMMA IdsSame ==
    ASSUME IInv, UNCHANGED nextId,
           \A c \in Calls : req'[c] = req[c] /\ (req[c] # 0 => conn'[c] = conn[c])
    PROVE  IdsCounted' /\ IdsUnique' /\ \A h \in Handlers : Numbered(h)' = Numbered(h)
<1>1. \A h \in Handlers : Numbered(h)' = Numbered(h)
  BY DEF Numbered
<1>2. IdsCounted'
  BY <1>1 DEF IInv, IdsCounted
<1>3. IdsUnique'
  <2> SUFFICES ASSUME NEW h \in Handlers, NEW c \in Numbered(h)
               PROVE  /\ req'[c] < nextId'[h]
                      /\ \A d \in Numbered(h) : req'[c] = req'[d] => c = d
    BY <1>1 DEF IdsUnique
  <2> QED
    BY DEF IInv, IdsUnique, Numbered
<1> QED
  BY <1>1, <1>2, <1>3

-----------------------------------------------------------------------------
(* Steps that open, number and answer nothing *)

\* How a call moves when it neither opens a connection nor takes an id nor gives
\* one back.
Settled(c) ==
    /\ cpc'[c] \in Using => cpc[c] \in Using
    /\ cpc'[c] \in Asking <=> cpc[c] \in Asking
    /\ cpc'[c] \in {"idle", "open"} => cpc[c] \in {"idle", "open"} /\ tries'[c] < MaxTries
    /\ cpc'[c] = "opened" => cpc[c] = "opened"

\* Such steps keep the invariant when they keep what is said of handlers and results.
LEMMA QuietStep ==
    ASSUME IInv, TypeOK', HandlerPhase', TaskShape', NothingDangles', OwnAnswer',
           UNCHANGED <<nextId, pending, answers, sent, conn, req>>,
           \A c \in Calls : Settled(c)
    PROVE  IInv'
<1>1. CallShape'
  BY DEF IInv, CallShape, Settled
<1>2. IdsCounted' /\ IdsUnique'
  BY IdsSame
<1>3. SentOwn'
  BY DEF IInv, SentOwn
<1>4. NoStaleRequests'
  BY DEF IInv, NoStaleRequests, Settled, Asking
<1> QED
  BY <1>1, <1>2, <1>3, <1>4 DEF IInv

\* A call's step that changes no handler, task or connection object.
LEMMA CallMoves ==
    ASSUME IInv, TypeOK', OwnAnswer',
           UNCHANGED <<hpc, phase, nextId, pending, answers, sent, conn, req, tpc, tconn>>,
           \A c \in Calls : Settled(c)
    PROVE  IInv'
<1>1. HandlerPhase' /\ TaskShape'
  BY DEF IInv, HandlerPhase, TaskShape
<1>2. NothingDangles'
  BY DEF IInv, NothingDangles, Settled
<1> QED
  BY <1>1, <1>2, QuietStep

\* The calls that only move.
LEMMA MovingPreserves ==
    ASSUME IInv, NEW c \in Calls,
           \/ StartCall(c) \/ OpenFails(c) \/ SendFails(c) \/ WaitAnswer(c) \/ SpuriousCall(c)
           \/ Resleep(c) \/ Timeout(c) \/ CloseWrite(c)
    PROVE  IInv'
<1> USE DEF connVars, callVars, taskVars
<1>1. CASE StartCall(c) \/ WaitAnswer(c) \/ SpuriousCall(c) \/ Resleep(c)
  <2>1. PICK pc \in {"open", "waiting", "woken"} :
          /\ cpc' = [cpc EXCEPT ![c] = pc]
          /\ \/ cpc[c] = "idle" /\ pc = "open"
             \/ cpc[c] \in {"sent", "waiting", "resleep"} /\ pc \in {"waiting", "woken"}
    BY <1>1 DEF StartCall, WaitAnswer, SpuriousCall, Resleep
  <2>2. UNCHANGED <<hpc, connVars, conn, req, tries, result, got, taskVars>>
    BY <1>1 DEF StartCall, WaitAnswer, SpuriousCall, Resleep
  <2>3. TypeOK'
    BY <2>1, <2>2 DEF IInv, TypeOK, Using
  <2>4. \A d \in Calls : Settled(d)
    BY <2>1, <2>2 DEF Settled, IInv, TypeOK, CallShape, Using, Asking
  <2>5. OwnAnswer'
    BY <2>2 DEF IInv, OwnAnswer
  <2> QED
    BY <2>2, <2>3, <2>4, <2>5, CallMoves
<1>2. CASE OpenFails(c)
  <2>1. tries'[c] = tries[c] + 1 /\ tries[c] < MaxTries /\ tries[c] \in Nat
        /\ \A d \in Calls : d # c => tries'[d] = tries[d]
    BY <1>2, RPCAssumption DEF OpenFails, IInv, TypeOK, CallShape
  <2>2. tries' \in [Calls -> 0..MaxTries]
    BY <1>2, <2>1, RPCAssumption DEF OpenFails, IInv, TypeOK
  <2>3. TypeOK'
    BY <1>2, <2>2 DEF OpenFails, IInv, TypeOK
  <2>4. \A d \in Calls : Settled(d)
    <3>1. CASE tries[c] + 1 < MaxTries /\ c \in RetryCalls /\ UNCHANGED <<cpc, result>>
      BY <1>2, <2>1, <3>1 DEF Settled, IInv, CallShape
    <3>2. CASE cpc' = [cpc EXCEPT ![c] = "returned"]
      BY <1>2, <2>1, <3>2 DEF OpenFails, Settled, IInv, TypeOK, CallShape, Using, Asking
    <3> QED
      BY <1>2, <3>1, <3>2 DEF OpenFails
  <2>5. OwnAnswer'
    BY <1>2 DEF OpenFails, IInv, TypeOK, OwnAnswer
  <2> QED
    BY <1>2, <2>3, <2>4, <2>5, CallMoves DEF OpenFails
<1>3. CASE SendFails(c)
  <2>1. conn[c] \in Handlers
    BY <1>3, Types DEF SendFails, Using
  <2>2. TypeOK'
    BY <1>3, <2>1 DEF SendFails, IInv, TypeOK, Using
  <2>3. \A d \in Calls : Settled(d)
    BY <1>3 DEF SendFails, Settled, IInv, TypeOK, CallShape, Using, Asking
  <2>4. OwnAnswer'
    BY <1>3 DEF SendFails, IInv, TypeOK, OwnAnswer
  <2> QED
    BY <1>3, <2>2, <2>3, <2>4, CallMoves DEF SendFails
<1>4. CASE Timeout(c)
  <2>1. TypeOK'
    BY <1>4 DEF Timeout, IInv, TypeOK, Using
  <2>2. \A d \in Calls : Settled(d)
    BY <1>4 DEF Timeout, Settled, IInv, TypeOK, CallShape, Using, Asking
  <2>3. OwnAnswer'
    BY <1>4 DEF Timeout, IInv, TypeOK, OwnAnswer
  <2> QED
    BY <1>4, <2>1, <2>2, <2>3, CallMoves DEF Timeout
<1>5. CASE CloseWrite(c)
  <2>1. TypeOK'
    BY <1>5 DEF CloseWrite, IInv, TypeOK
  <2>2. \A d \in Calls : Settled(d)
    BY <1>5 DEF CloseWrite, Settled, IInv, TypeOK, CallShape, Using, Asking
  <2>3. OwnAnswer'
    BY <1>5 DEF CloseWrite, IInv, TypeOK, OwnAnswer
  <2> QED
    BY <1>5, <2>1, <2>2, <2>3, CallMoves DEF CloseWrite
<1> QED
  BY <1>1, <1>2, <1>3, <1>4, <1>5

-----------------------------------------------------------------------------
(* A call opens, takes its id, sends, reads its answer and cleans up *)

\* What is kept under a call's id on its connection is the answer to that call.
LEMMA AnswersOwn ==
    ASSUME IInv, NEW c \in Calls, cpc[c] \in Asking, NEW p \in answers[conn[c]], p[1] = req[c]
    PROVE  p[2] = c
<1>1. conn[c] \in Handlers /\ req[c] # 0
  BY DEF IInv, CallShape, Asking
<1>2. p \in answers[conn[c]] /\ p[2] \in Calls
  BY <1>1, Types DEF IInv, SentOwn
<1>3. conn[p[2]] = conn[c] /\ req[p[2]] = req[c]
  BY <1>1, <1>2 DEF IInv, SentOwn
<1>4. c \in Numbered(conn[c]) /\ p[2] \in Numbered(conn[c])
  BY <1>1, <1>2, <1>3 DEF Numbered
<1> QED
  BY <1>1, <1>3, <1>4 DEF IInv, IdsUnique

\* The loop after a wake-up.
LEMMA TestAnswerPreserves ==
    ASSUME IInv, NEW c \in Calls, TestAnswer(c)
    PROVE  IInv'
<1> USE DEF connVars, callVars, taskVars
<1>1. /\ cpc[c] = "woken" /\ cpc[c] \in Asking
      /\ UNCHANGED <<hpc, connVars, conn, req, tries, taskVars>>
  BY DEF TestAnswer, Asking, Using
<1>2. PICK pc \in {"cleanup", "resleep"} : cpc' = [cpc EXCEPT ![c] = pc]
  BY DEF TestAnswer
<1>3. CASE \E p \in answers[conn[c]] :
             /\ p[1] = req[c]
             /\ got' = [got EXCEPT ![c] = p[2]]
             /\ result' = [result EXCEPT ![c] = "answer"]
  <2>1. got' = [got EXCEPT ![c] = c] /\ result' = [result EXCEPT ![c] = "answer"]
    BY <1>1, <1>3, AnswersOwn
  <2>2. TypeOK'
    BY <1>1, <1>2, <2>1 DEF IInv, TypeOK, Using
  <2>3. OwnAnswer'
    BY <2>1 DEF IInv, TypeOK, OwnAnswer
  <2>4. \A d \in Calls : Settled(d)
    BY <1>1, <1>2 DEF Settled, IInv, TypeOK, CallShape, Using, Asking
  <2> QED
    BY <1>1, <2>2, <2>3, <2>4, CallMoves
<1>4. CASE UNCHANGED got /\ (UNCHANGED result \/ result' = [result EXCEPT ![c] = "lost"])
  <2>1. TypeOK'
    BY <1>1, <1>2, <1>4 DEF IInv, TypeOK, Using
  <2>2. OwnAnswer'
    BY <1>4 DEF IInv, TypeOK, OwnAnswer
  <2>3. \A d \in Calls : Settled(d)
    BY <1>1, <1>2 DEF Settled, IInv, TypeOK, CallShape, Using, Asking
  <2> QED
    BY <1>1, <2>1, <2>2, <2>3, CallMoves
<1> QED
  BY <1>3, <1>4 DEF TestAnswer

\* openElement gives a live connection.
LEMMA OpenPreserves ==
    ASSUME IInv, NEW c \in Calls, NEW h \in Handlers, Open(c, h)
    PROVE  IInv'
<1> USE DEF connVars, callVars, taskVars
<1>1. /\ cpc[c] = "open" /\ cpc'[c] = "opened" /\ conn'[c] = h /\ req[c] = 0
      /\ \A d \in Calls : d # c => cpc'[d] = cpc[d] /\ conn'[d] = conn[d]
      /\ UNCHANGED <<hpc, connVars, req, tries, result, got, taskVars>>
      /\ phase[h] = "live"
  BY DEF Open, IInv, TypeOK, CallShape
<1>2. TypeOK'
  BY DEF Open, IInv, TypeOK, Using
<1>3. HandlerPhase' /\ TaskShape' /\ OwnAnswer'
  BY <1>1 DEF IInv, HandlerPhase, TaskShape, OwnAnswer
<1>4. NothingDangles'
  <2>1. hpc[h] # "returned"
    BY <1>1 DEF IInv, HandlerPhase
  <2> QED
    BY <1>1, <2>1 DEF IInv, NothingDangles
<1>5. CallShape'
  BY <1>1 DEF IInv, CallShape, Using, Asking
<1>6. IdsCounted' /\ IdsUnique'
  BY <1>1, IdsSame
<1>7. SentOwn'
  <2> SUFFICES ASSUME NEW g \in Handlers, NEW p \in sent[g] \cup answers[g] PROVE conn'[p[2]] = g
    BY <1>1 DEF IInv, SentOwn
  <2>1. p[2] \in Calls /\ req[p[2]] = p[1] /\ conn[p[2]] = g
    BY Types DEF IInv, SentOwn
  <2>2. p[1] # 0
    BY DEF IInv, TypeOK
  <2> QED
    BY <1>1, <2>1, <2>2
<1>8. NoStaleRequests'
  BY <1>1 DEF IInv, NoStaleRequests, Using, Asking
<1> QED
  BY <1>2, <1>3, <1>4, <1>5, <1>6, <1>7, <1>8 DEF IInv

\* The next id of the connection is new there, and within its type: each call takes
\* one at most.
LEMMA RegisterPreserves ==
    ASSUME IInv, NEW c \in Calls, Register(c)
    PROVE  IInv'
<1> USE DEF connVars, callVars, taskVars
<1>1. PICK h \in Handlers : h = conn[c]
  BY Types DEF Register, Using
<1>2. /\ cpc[c] = "opened" /\ cpc'[c] = "registered" /\ req[c] = 0
      /\ req'[c] = nextId[h] /\ nextId'[h] = nextId[h] + 1
      /\ pending'[h] = pending[h] \cup {nextId[h]}
      /\ \A d \in Calls : d # c => cpc'[d] = cpc[d] /\ req'[d] = req[d]
      /\ \A g \in Handlers : g # h => nextId'[g] = nextId[g] /\ pending'[g] = pending[g]
      /\ UNCHANGED <<hpc, phase, up, sock, answers, sent, terminated, conn, tries, result, got,
                     taskVars>>
  BY <1>1 DEF Register, IInv, TypeOK, CallShape
<1>3. \A g \in Handlers : nextId[g] \in Nat \ {0}
  BY Types DEF IInv, TypeOK
<1>4. /\ Numbered(h) \subseteq Calls /\ c \notin Numbered(h)
      /\ Numbered(h)' = Numbered(h) \cup {c}
      /\ \A g \in Handlers : g # h => Numbered(g)' = Numbered(g)
  BY <1>1, <1>2, <1>3 DEF Numbered
<1>5. /\ Cardinality(Numbered(h)') = Cardinality(Numbered(h)) + 1
      /\ Cardinality(Numbered(h)) \in Nat /\ Cardinality(Calls) \in Nat
      /\ Cardinality(Numbered(h)) + 1 <= Cardinality(Calls)
  <2>1. /\ Cardinality(Numbered(h) \cup {c}) = Cardinality(Numbered(h)) + 1
        /\ Cardinality(Numbered(h)) \in Nat /\ Cardinality(Calls) \in Nat
    BY <1>4, CallSets
  <2>2. Cardinality(Numbered(h) \cup {c}) \in 0..Cardinality(Calls)
    BY <1>4, CallSets
  <2> QED
    BY <1>4, <2>1, <2>2
<1>6. nextId[h] \in 1..Cardinality(Calls) /\ nextId[h] + 1 \in 1..(Cardinality(Calls) + 1)
  BY <1>5 DEF IInv, IdsCounted
<1>7. TypeOK'
  <2>1. /\ nextId' \in [Handlers -> 1..(Cardinality(Calls) + 1)]
        /\ req' \in [Calls -> 0..Cardinality(Calls)]
        /\ pending' \in [Handlers -> SUBSET (1..Cardinality(Calls))]
    <3>1. nextId' \in [Handlers -> 1..(Cardinality(Calls) + 1)]
      BY <1>1, <1>6 DEF Register, IInv, TypeOK
    <3>2. req' \in [Calls -> 0..Cardinality(Calls)]
      BY <1>1, <1>6 DEF Register, IInv, TypeOK
    <3>3. pending' \in [Handlers -> SUBSET (1..Cardinality(Calls))]
      BY <1>1, <1>6 DEF Register, IInv, TypeOK
    <3> QED
      BY <3>1, <3>2, <3>3
  <2>2. cpc' \in [Calls -> {"idle", "open", "returned"} \cup Using]
    BY DEF Register, IInv, TypeOK, Using
  <2> QED
    BY <1>2, <2>1, <2>2 DEF IInv, TypeOK
<1>8. HandlerPhase' /\ TaskShape' /\ OwnAnswer'
  BY <1>2 DEF IInv, HandlerPhase, TaskShape, OwnAnswer
<1>9. NothingDangles'
  BY <1>2 DEF IInv, NothingDangles, Using
<1>10. CallShape'
  BY <1>1, <1>2, <1>3 DEF IInv, CallShape, Using, Asking
<1>11. IdsCounted'
  BY <1>2, <1>4, <1>5 DEF IInv, IdsCounted
<1>12. IdsUnique'
  <2>1. ASSUME NEW g \in Handlers, g # h, NEW d \in Numbered(g)'
        PROVE  /\ req'[d] < nextId'[g]
               /\ \A e \in Numbered(g)' : req'[d] = req'[e] => d = e
    <3>1. \A e \in Numbered(g)' : e \in Numbered(g) /\ e \in Calls /\ e # c
      BY <1>1, <1>4, <2>1 DEF Numbered
    <3> QED
      BY <1>2, <2>1, <3>1 DEF IInv, IdsUnique
  <2>2. \A d \in Numbered(h) : d # c /\ req'[d] = req[d] /\ req[d] < nextId[h] /\ req[d] \in Nat
    BY <1>2, <1>4, Types DEF IInv, IdsUnique
  <2>3. ASSUME NEW d \in Numbered(h)'
        PROVE  /\ req'[d] < nextId'[h]
               /\ \A e \in Numbered(h)' : req'[d] = req'[e] => d = e
    BY <1>2, <1>3, <1>4, <2>2 DEF IInv, IdsUnique
  <2> QED
    BY <2>1, <2>3 DEF IdsUnique
<1>13. SentOwn'
  <2> SUFFICES ASSUME NEW g \in Handlers, NEW p \in sent[g] \cup answers[g] PROVE req'[p[2]] = p[1]
    BY <1>2 DEF IInv, SentOwn
  <2>1. p[2] \in Calls /\ req[p[2]] = p[1]
    BY Types DEF IInv, SentOwn
  <2>2. p[1] # 0
    BY DEF IInv, TypeOK
  <2> QED
    BY <1>2, <2>1, <2>2
<1>14. NoStaleRequests'
  <2>1. ASSUME NEW g \in Handlers, NEW id \in pending'[g]
        PROVE  \E d \in Calls : conn'[d] = g /\ req'[d] = id /\ cpc'[d] \in Asking
    <3>1. CASE g = h /\ id = nextId[h]
      BY <1>1, <1>2, <3>1 DEF Using, Asking
    <3>2. CASE id \in pending[g]
      <4>1. PICK d \in Calls : conn[d] = g /\ req[d] = id /\ cpc[d] \in Asking
        BY <3>2 DEF IInv, NoStaleRequests
      <4> QED
        BY <1>2, <4>1 DEF Asking
    <3> QED
      BY <1>2, <2>1, <3>1, <3>2
  <2>2. ASSUME NEW g \in Handlers, NEW p \in answers'[g] PROVE p[1] \in pending'[g]
    BY <1>2, <2>2 DEF IInv, NoStaleRequests
  <2> QED
    BY <2>1, <2>2 DEF NoStaleRequests
<1> QED
  BY <1>7, <1>8, <1>9, <1>10, <1>11, <1>12, <1>13, <1>14 DEF IInv

\* The peer receives the query under the call's own id.
LEMMA SendPreserves ==
    ASSUME IInv, NEW c \in Calls, Send(c)
    PROVE  IInv'
<1> USE DEF connVars, callVars, taskVars
<1>1. PICK h \in Handlers : h = conn[c]
  BY Types DEF Send, Using
<1>2. /\ cpc[c] = "registered" /\ cpc'[c] = "sent" /\ req[c] # 0
      /\ sent'[h] = sent[h] \cup {<<req[c], c>>}
      /\ \A d \in Calls : d # c => cpc'[d] = cpc[d]
      /\ \A g \in Handlers : g # h => sent'[g] = sent[g]
      /\ UNCHANGED <<hpc, phase, up, sock, nextId, pending, answers, terminated,
                     conn, req, tries, result, got, taskVars>>
  BY <1>1 DEF Send, IInv, TypeOK, CallShape, Asking, Using
<1>3. TypeOK'
  <2>1. <<req[c], c>> \in (1..Cardinality(Calls)) \X Calls
    <3>1. req[c] \in 0..Cardinality(Calls) /\ Cardinality(Calls) \in Nat
      BY RPCAssumption, FS_CardinalityType DEF IInv, TypeOK
    <3> QED
      BY <1>2, <3>1
  <2>2. sent' \in [Handlers -> SUBSET ((1..Cardinality(Calls)) \X Calls)]
    BY <1>1, <2>1 DEF Send, IInv, TypeOK
  <2>3. cpc' \in [Calls -> {"idle", "open", "returned"} \cup Using]
    BY DEF Send, IInv, TypeOK, Using
  <2> QED
    BY <1>2, <2>2, <2>3 DEF IInv, TypeOK
<1>4. HandlerPhase' /\ TaskShape' /\ OwnAnswer'
  BY <1>2 DEF IInv, HandlerPhase, TaskShape, OwnAnswer
<1>5. NothingDangles'
  BY <1>2 DEF IInv, NothingDangles, Using
<1>6. CallShape'
  BY <1>2 DEF IInv, CallShape, Using, Asking
<1>7. IdsCounted' /\ IdsUnique'
  BY <1>2, IdsSame
<1>8. SentOwn'
  <2>1. ASSUME NEW g \in Handlers, NEW p \in sent'[g] PROVE conn[p[2]] = g /\ req[p[2]] = p[1]
    <3>1. CASE p \in sent[g]
      BY <3>1 DEF IInv, SentOwn
    <3>2. CASE g = h /\ p = <<req[c], c>>
      BY <1>1, <3>2
    <3> QED
      BY <1>2, <2>1, <3>1, <3>2
  <2> QED
    BY <1>2, <2>1 DEF IInv, SentOwn
<1>9. NoStaleRequests'
  BY <1>2 DEF IInv, NoStaleRequests, Using, Asking
<1> QED
  BY <1>3, <1>4, <1>5, <1>6, <1>7, <1>8, <1>9 DEF IInv

\* The end of executeTask gives its own authorisation back, and nobody else's.
LEMMA CleanupPreserves ==
    ASSUME IInv, NEW c \in Calls, Cleanup(c)
    PROVE  IInv'
<1> USE DEF connVars, callVars, taskVars
<1>1. PICK h \in Handlers : h = conn[c]
  BY Types DEF Cleanup, Using
<1>2. /\ cpc[c] = "cleanup" /\ cpc'[c] = "returned" /\ req[c] # 0
      /\ answers'[h] = WithoutId(answers[h], req[c]) /\ pending'[h] = pending[h] \ {req[c]}
      /\ \A d \in Calls : d # c => cpc'[d] = cpc[d]
      /\ \A g \in Handlers : g # h => answers'[g] = answers[g] /\ pending'[g] = pending[g]
      /\ UNCHANGED <<hpc, phase, up, sock, nextId, sent, terminated,
                     conn, req, tries, result, got, taskVars>>
  BY <1>1 DEF Cleanup, IInv, TypeOK, CallShape, Asking, Using
<1>3. TypeOK'
  <2>1. /\ answers' \in [Handlers -> SUBSET ((1..Cardinality(Calls)) \X Calls)]
        /\ pending' \in [Handlers -> SUBSET (1..Cardinality(Calls))]
    BY <1>1 DEF Cleanup, WithoutId, IInv, TypeOK
  <2>2. cpc' \in [Calls -> {"idle", "open", "returned"} \cup Using]
    BY DEF Cleanup, IInv, TypeOK
  <2> QED
    BY <1>2, <2>1, <2>2 DEF IInv, TypeOK
<1>4. HandlerPhase' /\ TaskShape' /\ OwnAnswer'
  BY <1>2 DEF IInv, HandlerPhase, TaskShape, OwnAnswer
<1>5. NothingDangles'
  BY <1>2 DEF IInv, NothingDangles, Using
<1>6. CallShape'
  BY <1>2 DEF IInv, CallShape, Using, Asking
<1>7. IdsCounted' /\ IdsUnique'
  BY <1>2, IdsSame
<1>8. SentOwn'
  <2>1. \A g \in Handlers : answers'[g] \subseteq answers[g]
    BY <1>2 DEF WithoutId
  <2> QED
    BY <1>2, <2>1 DEF IInv, SentOwn
<1>9. NoStaleRequests'
  <2>1. ASSUME NEW g \in Handlers, NEW id \in pending'[g]
        PROVE  \E d \in Calls : conn'[d] = g /\ req'[d] = id /\ cpc'[d] \in Asking
    <3>1. id \in pending[g] /\ (g = h => id # req[c])
      BY <1>2, <2>1
    <3>2. PICK d \in Calls : conn[d] = g /\ req[d] = id /\ cpc[d] \in Asking
      BY <3>1 DEF IInv, NoStaleRequests
    <3>3. d # c
      BY <1>1, <3>1, <3>2
    <3> QED
      BY <1>2, <3>2, <3>3
  <2>2. ASSUME NEW g \in Handlers, NEW p \in answers'[g] PROVE p[1] \in pending'[g]
    BY <1>2, <2>2 DEF IInv, NoStaleRequests, WithoutId
  <2> QED
    BY <2>1, <2>2 DEF NoStaleRequests
<1> QED
  BY <1>3, <1>4, <1>5, <1>6, <1>7, <1>8, <1>9 DEF IInv

-----------------------------------------------------------------------------
(* handleConnection and the tasks *)

\* notify_all moves calls from one wait to another.
LEMMA NotifySettles ==
    ASSUME IInv, NEW h \in Handlers, NotifyAll(h), UNCHANGED tries
    PROVE  /\ \A c \in Calls : Settled(c) /\ (cpc'[c] \in Using <=> cpc[c] \in Using)
           /\ cpc' \in [Calls -> {"idle", "open", "returned"} \cup Using]
<1>1. \A c \in Calls : cpc'[c] = IF cpc[c] = "waiting" /\ conn[c] = h THEN "woken" ELSE cpc[c]
  BY DEF NotifyAll
<1>2. \A c \in Calls : Settled(c) /\ (cpc'[c] \in Using <=> cpc[c] \in Using)
  BY <1>1 DEF Settled, IInv, CallShape, Using, Asking
<1>3. cpc' \in [Calls -> {"idle", "open", "returned"} \cup Using]
  BY Types DEF NotifyAll, Using
<1> QED
  BY <1>2, <1>3

\* A call that does not move is settled.
LEMMA StillSettled ==
    ASSUME IInv, UNCHANGED <<cpc, tries>>
    PROVE  \A c \in Calls : Settled(c)
BY DEF Settled, IInv, CallShape

\* An answer is kept under an id that is authorised; a malformed one revokes it, and
\* drops what was kept for it.
LEMMA AnswerPreserves ==
    ASSUME IInv, NEW h \in Handlers, processIncomingAnswer(h)
    PROVE  IInv'
<1> USE DEF connVars, callVars, taskVars
<1>1. PICK p \in Answerable(h) :
        /\ p[1] \in pending[h]
        /\ \/ /\ answers' = [answers EXCEPT ![h] = WithoutId(@, p[1]) \cup {p}]
              /\ NotifyAll(h)
              /\ UNCHANGED pending
           \/ /\ answers' = [answers EXCEPT ![h] = WithoutId(@, p[1])]
              /\ pending' = [pending EXCEPT ![h] = @ \ {p[1]}]
              /\ UNCHANGED cpc
  BY DEF processIncomingAnswer
<1>2. UNCHANGED <<hpc, phase, up, sock, nextId, sent, terminated, conn, req, tries, result, got,
                  taskVars>>
  BY DEF processIncomingAnswer
<1>3. /\ \A c \in Calls : Settled(c) /\ (cpc'[c] \in Using <=> cpc[c] \in Using)
      /\ cpc' \in [Calls -> {"idle", "open", "returned"} \cup Using]
  BY <1>1, <1>2, NotifySettles, StillSettled, Types
<1>4. /\ answers' \in [Handlers -> SUBSET ((1..Cardinality(Calls)) \X Calls)]
      /\ pending' \in [Handlers -> SUBSET (1..Cardinality(Calls))]
      /\ \A g \in Handlers : \A q \in answers'[g] : conn[q[2]] = g /\ req[q[2]] = q[1]
      /\ \A g \in Handlers : pending'[g] \subseteq pending[g]
      /\ \A g \in Handlers : \A q \in answers'[g] : q[1] \in pending'[g]
  <2>1. /\ \A g \in Handlers : \A q \in answers[g] : conn[q[2]] = g /\ req[q[2]] = q[1]
        /\ \A g \in Handlers : \A q \in answers[g] : q[1] \in pending[g]
    BY DEF IInv, TypeOK, SentOwn, NoStaleRequests
  <2>4. p \in (1..Cardinality(Calls)) \X Calls /\ conn[p[2]] = h /\ req[p[2]] = p[1]
    <3>1. CASE p \in sent[h]
      BY <3>1 DEF IInv, TypeOK, SentOwn
    <3>2. CASE \E c \in Calls : conn[c] = h /\ cpc[c] \in Asking /\ p = <<req[c], c>>
      <4>1. PICK c \in Calls : conn[c] = h /\ cpc[c] \in Asking /\ p = <<req[c], c>>
        BY <3>2
      <4>2. req[c] \in 1..Cardinality(Calls)
        BY <1>1, <4>1 DEF IInv, TypeOK
      <4> QED
        BY <4>1, <4>2
    <3> QED
      BY <1>1, <3>1, <3>2 DEF Answerable
  <2>2. CASE answers' = [answers EXCEPT ![h] = WithoutId(@, p[1]) \cup {p}] /\ UNCHANGED pending
    BY <1>1, <2>1, <2>2, <2>4 DEF WithoutId, IInv, TypeOK
  <2>3. CASE /\ answers' = [answers EXCEPT ![h] = WithoutId(@, p[1])]
             /\ pending' = [pending EXCEPT ![h] = @ \ {p[1]}]
    BY <1>1, <2>1, <2>3, <2>4 DEF WithoutId, IInv, TypeOK
  <2> QED
    BY <1>1, <2>2, <2>3
<1>5. TypeOK'
  BY <1>2, <1>3, <1>4 DEF IInv, TypeOK
<1>6. HandlerPhase' /\ TaskShape' /\ OwnAnswer'
  BY <1>2 DEF IInv, HandlerPhase, TaskShape, OwnAnswer
<1>7. NothingDangles'
  BY <1>2, <1>3 DEF IInv, NothingDangles
<1>8. CallShape'
  BY <1>2, <1>3 DEF IInv, CallShape, Settled
<1>9. IdsCounted' /\ IdsUnique'
  BY <1>2, IdsSame
<1>10. SentOwn'
  BY <1>2, <1>4 DEF IInv, SentOwn
<1>11. NoStaleRequests'
  <2>1. ASSUME NEW g \in Handlers, NEW id \in pending'[g]
        PROVE  \E d \in Calls : conn'[d] = g /\ req'[d] = id /\ cpc'[d] \in Asking
    <3>1. PICK d \in Calls : conn[d] = g /\ req[d] = id /\ cpc[d] \in Asking
      BY <1>4, <2>1 DEF IInv, NoStaleRequests
    <3> QED
      BY <1>2, <1>3, <3>1 DEF Settled, Asking
  <2> QED
    BY <1>4, <2>1 DEF NoStaleRequests
<1> QED
  BY <1>5, <1>6, <1>7, <1>8, <1>9, <1>10, <1>11 DEF IInv

\* A handler's step keeps the invariant when it keeps what is said of handlers.
LEMMA HandlerMoves ==
    ASSUME IInv, TypeOK', HandlerPhase', TaskShape', NothingDangles',
           UNCHANGED <<nextId, pending, answers, sent, callVars>>
    PROVE  IInv'
<1>1. OwnAnswer' /\ \A c \in Calls : Settled(c)
  BY StillSettled DEF callVars, IInv, OwnAnswer
<1> QED
  BY <1>1, QuietStep DEF callVars

\* The other steps of handleConnection, and the tasks.
LEMMA HandlerPreserves ==
    ASSUME IInv, NEW h \in Handlers,
           \/ handleConnection(h) \/ EndRead(h) \/ HandlerStep(h)
           \/ \E j \in Tasks : processIncomingExecutionRequest(h, j)
    PROVE  IInv'
<1> USE DEF connVars, callVars, taskVars
<1>1. CASE handleConnection(h)
  <2>1. TypeOK'
    BY <1>1 DEF handleConnection, IInv, TypeOK
  <2>2. HandlerPhase' /\ TaskShape'
    BY <1>1 DEF handleConnection, IInv, TypeOK, HandlerPhase, TaskShape
  <2>3. NothingDangles'
    <3>1. /\ \A c \in Calls : cpc[c] \in Using => conn[c] # h
          /\ \A j \in Tasks : tpc[j] \in {"queued", "refused"} => tconn[j] # h
      BY <1>1 DEF handleConnection, IInv, HandlerPhase, NothingDangles
    <3>2. \A g \in Handlers : g # h => hpc'[g] = hpc[g] /\ phase'[g] = phase[g]
      BY <1>1 DEF handleConnection, IInv, TypeOK
    <3> QED
      BY <1>1, <3>1, <3>2, Types DEF handleConnection, IInv, TaskShape, NothingDangles
  <2> QED
    BY <1>1, <2>1, <2>2, <2>3, HandlerMoves DEF handleConnection
<1>2. CASE \E j \in Tasks : processIncomingExecutionRequest(h, j)
  <2>1. PICK j \in Tasks : processIncomingExecutionRequest(h, j)
    BY <1>2
  <2>2. TypeOK'
    BY <2>1, ZenonT(30) DEF processIncomingExecutionRequest, IInv, TypeOK
  <2>3. HandlerPhase' /\ TaskShape'
    <3>1. HandlerPhase'
      BY <2>1 DEF processIncomingExecutionRequest, IInv, TypeOK, HandlerPhase
    <3>2. TaskShape'
      BY <2>1 DEF processIncomingExecutionRequest, IInv, TypeOK, TaskShape
    <3> QED
      BY <3>1, <3>2
  <2>4. NothingDangles'
    BY <2>1, Types DEF processIncomingExecutionRequest, IInv, TypeOK, TaskShape, NothingDangles
  <2> QED
    BY <2>1, <2>2, <2>3, <2>4, HandlerMoves DEF processIncomingExecutionRequest
<1>3. CASE AnswerOverflow(h)
  <2>1. TypeOK'
    BY <1>3 DEF AnswerOverflow, IInv, TypeOK
  <2>2. HandlerPhase' /\ TaskShape'
    BY <1>3 DEF AnswerOverflow, IInv, TypeOK, HandlerPhase, TaskShape
  <2>3. NothingDangles'
    BY <1>3, Types DEF AnswerOverflow, IInv, TypeOK, TaskShape, NothingDangles
  <2> QED
    BY <1>3, <2>1, <2>2, <2>3, HandlerMoves DEF AnswerOverflow
<1>4. CASE EndRead(h)
  <2>1. TypeOK'
    BY <1>4 DEF EndRead, IInv, TypeOK
  <2>2. HandlerPhase' /\ TaskShape'
    BY <1>4 DEF EndRead, IInv, TypeOK, HandlerPhase, TaskShape
  <2>3. NothingDangles'
    BY <1>4, Types DEF EndRead, IInv, TypeOK, TaskShape, NothingDangles
  <2> QED
    BY <1>4, <2>1, <2>2, <2>3, HandlerMoves DEF EndRead
<1>5. CASE Drain(h)
  <2>1. TypeOK'
    BY <1>5 DEF Drain, IInv, TypeOK
  <2>2. HandlerPhase' /\ TaskShape'
    BY <1>5 DEF Drain, IInv, TypeOK, HandlerPhase, TaskShape
  <2>3. NothingDangles'
    <3>1. \A j \in Tasks : tpc[j] \in {"queued", "refused"} => tconn[j] # h
      BY <1>5 DEF Drain, Undone
    <3> QED
      BY <1>5, <3>1, Types DEF Drain, IInv, TypeOK, TaskShape, NothingDangles
  <2> QED
    BY <1>5, <2>1, <2>2, <2>3, HandlerMoves DEF Drain
<1>6. CASE Terminate(h)
  <2>1. /\ \A c \in Calls : Settled(c) /\ (cpc'[c] \in Using <=> cpc[c] \in Using)
        /\ cpc' \in [Calls -> {"idle", "open", "returned"} \cup Using]
    BY <1>6, NotifySettles DEF Terminate
  <2>2. TypeOK'
    BY <1>6, <2>1 DEF Terminate, IInv, TypeOK
  <2>3. HandlerPhase' /\ TaskShape'
    BY <1>6 DEF Terminate, IInv, TypeOK, HandlerPhase, TaskShape
  <2>4. NothingDangles'
    <3>1. \A j \in Tasks : tpc[j] \in {"queued", "refused"} => tconn[j] # h
      BY <1>6 DEF Terminate, IInv, NothingDangles
    <3> QED
      BY <1>6, <2>1, <3>1, Types DEF Terminate, IInv, TypeOK, TaskShape, NothingDangles
  <2>5. OwnAnswer'
    BY <1>6 DEF Terminate, IInv, OwnAnswer
  <2> QED
    BY <1>6, <2>1, <2>2, <2>3, <2>4, <2>5, QuietStep DEF Terminate
<1>7. CASE BeginDestroy(h)
  <2>1. TypeOK'
    BY <1>7 DEF BeginDestroy, IInv, TypeOK
  <2>2. HandlerPhase' /\ TaskShape'
    BY <1>7 DEF BeginDestroy, IInv, TypeOK, HandlerPhase, TaskShape
  <2>3. NothingDangles'
    <3>1. \A j \in Tasks : tpc[j] \in {"queued", "refused"} => tconn[j] # h
      BY <1>7 DEF BeginDestroy, IInv, NothingDangles
    <3> QED
      BY <1>7, <3>1, Types DEF BeginDestroy, IInv, TypeOK, TaskShape, NothingDangles
  <2> QED
    BY <1>7, <2>1, <2>2, <2>3, HandlerMoves DEF BeginDestroy
<1>8. CASE FinishDestroy(h)
  <2>1. TypeOK'
    BY <1>8 DEF FinishDestroy, IInv, TypeOK
  <2>2. HandlerPhase' /\ TaskShape'
    BY <1>8 DEF FinishDestroy, IInv, TypeOK, HandlerPhase, TaskShape
  <2>3. NothingDangles'
    <3>1. \A j \in Tasks : tpc[j] \in {"queued", "refused"} => tconn[j] # h
      BY <1>8 DEF FinishDestroy, IInv, NothingDangles
    <3>2. \A c \in Calls : cpc[c] \in Using => conn[c] # h
      BY <1>8 DEF FinishDestroy, Readers
    <3> QED
      BY <1>8, <3>1, <3>2, Types DEF FinishDestroy, IInv, TypeOK, TaskShape, NothingDangles
  <2> QED
    BY <1>8, <2>1, <2>2, <2>3, HandlerMoves DEF FinishDestroy
<1> QED
  BY <1>1, <1>2, <1>3, <1>4, <1>5, <1>6, <1>7, <1>8 DEF HandlerStep

\* A worker of the pool finishes a task.
LEMMA TaskPreserves ==
    ASSUME IInv, NEW j \in Tasks, AnswerTask(j)
    PROVE  IInv'
<1> USE DEF connVars, callVars, taskVars
<1>1. TypeOK'
  BY DEF AnswerTask, IInv, TypeOK
<1>2. HandlerPhase' /\ TaskShape'
  BY DEF AnswerTask, IInv, TypeOK, HandlerPhase, TaskShape
<1>3. NothingDangles'
  BY DEF AnswerTask, IInv, TypeOK, NothingDangles
<1> QED
  BY <1>1, <1>2, <1>3, HandlerMoves DEF AnswerTask

-----------------------------------------------------------------------------
(* The theorems *)

\* Before the first connection nothing is registered, sent or authorised.
LEMMA InitIInv == Init => IInv
<1> SUFFICES ASSUME Init PROVE IInv
  OBVIOUS
<1>1. Cardinality(Calls) \in Nat
  BY RPCAssumption, FS_CardinalityType
<1>2. TypeOK
  BY <1>1, RPCAssumption DEF Init, TypeOK
<1>3. \A h \in Handlers : Numbered(h) = {}
  BY DEF Init, Numbered
<1>4. IdsCounted /\ IdsUnique
  <2>1. Cardinality({}) = 0
    BY FS_EmptySet
  <2>2. \A h \in Handlers : Cardinality(Numbered(h)) = 0 /\ nextId[h] = 1
    BY <1>3, <2>1 DEF Init
  <2> QED
    BY <1>3, <2>2 DEF IdsCounted, IdsUnique
<1>5. HandlerPhase /\ TaskShape /\ CallShape /\ SentOwn
  BY RPCAssumption DEF Init, HandlerPhase, TaskShape, CallShape, SentOwn, Using, Asking
<1>6. NothingDangles /\ OwnAnswer /\ NoStaleRequests
  BY DEF Init, NothingDangles, OwnAnswer, NoStaleRequests, Using
<1> QED
  BY <1>2, <1>4, <1>5, <1>6 DEF IInv

\* Every step preserves the invariant.
LEMMA NextIInv == IInv /\ [Next]_vars => IInv'
<1> SUFFICES ASSUME IInv, [Next]_vars PROVE IInv'
  OBVIOUS
<1>1. CASE UNCHANGED vars
  <2>1. TypeOK' /\ OwnAnswer'
    BY <1>1 DEF vars, IInv, TypeOK, OwnAnswer
  <2> QED
    BY <1>1, <2>1, StillSettled, CallMoves DEF vars
<1>2. ASSUME NEW c \in Calls, StartCall(c) \/ CallStep(c) \/ SpuriousCall(c) \/ Timeout(c)
      PROVE  IInv'
  BY <1>2, MovingPreserves, TestAnswerPreserves, OpenPreserves, RegisterPreserves, SendPreserves,
     CleanupPreserves DEF CallStep
<1>3. ASSUME NEW h \in Handlers,
             \/ handleConnection(h) \/ processIncomingAnswer(h) \/ EndRead(h) \/ HandlerStep(h)
             \/ \E j \in Tasks : processIncomingExecutionRequest(h, j)
      PROVE  IInv'
  BY <1>3, AnswerPreserves, HandlerPreserves
<1> QED
  BY <1>1, <1>2, <1>3, TaskPreserves DEF Next

\* The inductive invariant holds in every reachable state.
THEOREM Invariance == Spec => []IInv
<1>1. Init => IInv
  BY InitIInv
<1>2. IInv /\ [Next]_vars => IInv'
  BY NextIInv
<1> QED
  BY <1>1, <1>2, PTL DEF Spec

\* The state has its type: a connection never gives more ids than there are calls,
\* and no call tries more often than it may.
THEOREM TypeCorrect == Spec => []TypeOK
<1>1. IInv => TypeOK
  BY DEF IInv
<1> QED
  BY <1>1, Invariance, PTL

\* A call that has the Connection open finds it alive, and a task that holds mtDone
\* finds its handler still before the end of the wait for it.
THEOREM NobodyDangles == Spec => []NothingDangles
<1>1. IInv => NothingDangles
  BY DEF IInv
<1> QED
  BY <1>1, Invariance, PTL

\* A call returns only an answer given for it: to its own query, or made up by the
\* peer under its own request id on its own connection.
THEOREM AnswersReachTheirCall == Spec => []OwnAnswer
<1>1. IInv => OwnAnswer
  BY DEF IInv
<1> QED
  BY <1>1, Invariance, PTL

\* No authorisation outlives its call, and no answer its authorisation.
THEOREM NothingStale == Spec => []NoStaleRequests
<1>1. IInv => NoStaleRequests
  BY DEF IInv
<1> QED
  BY <1>1, Invariance, PTL
-----------------------------------------------------------------------------
(* FastRPC3 uses its map of connections through ElementLifetime *)

\* A step after which the same calls hold the same connections open, and that
\* neither adds nor destroys one, leaves the abstract state alone.
LEMMA AbstractSame ==
    ASSUME UNCHANGED phase,
           \A c \in Calls : cpc'[c] \in Using <=> cpc[c] \in Using,
           \A c \in Calls : cpc[c] \in Using => conn'[c] = conn[c]
    PROVE  UNCHANGED <<phase, usersBar>>
BY DEF usersBar, Readers

\* A call that stops using its connection releases it.
LEMMA ReturnReleases ==
    ASSUME IInv, NEW c \in Calls, cpc[c] \in Using, cpc' = [cpc EXCEPT ![c] = "returned"],
           UNCHANGED <<phase, conn>>
    PROVE  Life!LifeNext
<1>1. conn[c] \in Handlers
  BY DEF IInv, CallShape
<1>2. /\ cpc'[c] \notin Using /\ \A d \in Calls : d # c => cpc'[d] = cpc[d]
  BY Types DEF Using
<1>3. c \in usersBar[conn[c]]
  BY <1>1 DEF usersBar, Readers
<1>4. \A h \in Handlers : Readers(h)' = IF h = conn[c] THEN Readers(h) \ {c} ELSE Readers(h)
  BY <1>2 DEF Readers
<1>5. usersBar' = [usersBar EXCEPT ![conn[c]] = @ \ {c}]
  BY <1>1, <1>4 DEF usersBar
<1>6. Life!Release(c, conn[c])
  BY <1>3, <1>5 DEF Life!Release
<1> QED
  BY <1>1, <1>6 DEF Life!LifeNext

\* One step of a call is a step of ElementLifetime or leaves it alone.
LEMMA CallRefines ==
    ASSUME IInv, NEW c \in Calls, StartCall(c) \/ CallStep(c) \/ SpuriousCall(c) \/ Timeout(c)
    PROVE  Life!LifeNext \/ UNCHANGED <<phase, usersBar>>
<1> USE DEF connVars, callVars, taskVars
<1>1. ASSUME NEW h \in Handlers, Open(c, h) PROVE Life!LifeNext
  <2>1. /\ cpc[c] \notin Using /\ cpc'[c] \in Using /\ conn'[c] = h
        /\ \A d \in Calls : d # c => cpc'[d] = cpc[d] /\ conn'[d] = conn[d]
    BY <1>1, Types DEF Open, Using
  <2>2. \A g \in Handlers : Readers(g)' = IF g = h THEN Readers(g) \cup {c} ELSE Readers(g)
    BY <2>1 DEF Readers
  <2>3. usersBar' = [usersBar EXCEPT ![h] = @ \cup {c}]
    BY <2>2 DEF usersBar
  <2>4. Life!Acquire(c, h)
    BY <1>1, <2>3 DEF Open, Life!Acquire
  <2> QED
    BY <2>4 DEF Life!LifeNext
<1>2. CASE Cleanup(c) \/ CloseWrite(c)
  <2>1. cpc[c] \in Using /\ cpc' = [cpc EXCEPT ![c] = "returned"] /\ UNCHANGED <<phase, conn>>
    BY <1>2 DEF Cleanup, CloseWrite, Using
  <2> QED
    BY <2>1, ReturnReleases
<1>3. CASE StartCall(c) \/ OpenFails(c)
  <2>1. /\ cpc[c] \in {"idle", "open"} /\ UNCHANGED <<phase, conn>>
        /\ \E pc \in {"open", "returned"} : cpc' = [cpc EXCEPT ![c] = pc] \/ UNCHANGED cpc
    BY <1>3 DEF StartCall, OpenFails
  <2>2. \A d \in Calls : cpc'[d] \in Using <=> cpc[d] \in Using
    BY <2>1, Types DEF Using
  <2> QED
    BY <2>1, <2>2, AbstractSame
<1>4. CASE \/ Register(c) \/ Send(c) \/ SendFails(c) \/ WaitAnswer(c) \/ SpuriousCall(c)
           \/ TestAnswer(c) \/ Resleep(c) \/ Timeout(c)
  <2>1. /\ cpc[c] \in Using /\ UNCHANGED <<phase, conn>>
        /\ \E pc \in Using : cpc' = [cpc EXCEPT ![c] = pc]
    BY <1>4 DEF Register, Send, SendFails, WaitAnswer, SpuriousCall, TestAnswer, Resleep, Timeout,
       Using
  <2>2. \A d \in Calls : cpc'[d] \in Using <=> cpc[d] \in Using
    BY <2>1, Types
  <2> QED
    BY <2>1, <2>2, AbstractSame
<1> QED
  BY <1>1, <1>2, <1>3, <1>4 DEF CallStep

\* One step of a handler is a step of ElementLifetime or leaves it alone.
LEMMA HandlerRefines ==
    ASSUME IInv, NEW h \in Handlers,
           \/ handleConnection(h) \/ processIncomingAnswer(h) \/ EndRead(h) \/ HandlerStep(h)
           \/ \E j \in Tasks : processIncomingExecutionRequest(h, j)
    PROVE  Life!LifeNext \/ UNCHANGED <<phase, usersBar>>
<1> USE DEF connVars, callVars, taskVars
<1>1. CASE handleConnection(h)
  <2>1. UNCHANGED <<cpc, conn>>
    BY <1>1 DEF handleConnection
  <2>2. UNCHANGED usersBar
    BY <2>1 DEF usersBar, Readers
  <2>3. UNCHANGED phase \/ Life!Publish(h)
    BY <1>1, <2>2 DEF handleConnection, Life!Publish, IInv, HandlerPhase
  <2> QED
    BY <2>2, <2>3 DEF Life!LifeNext
<1>2. CASE BeginDestroy(h)
  <2>1. UNCHANGED usersBar
    BY <1>2 DEF BeginDestroy, usersBar, Readers
  <2>2. phase[h] = "live"
    BY <1>2 DEF BeginDestroy, IInv, TypeOK, HandlerPhase
  <2>3. Life!Close(h)
    BY <1>2, <2>1, <2>2 DEF BeginDestroy, Life!Close
  <2> QED
    BY <2>3 DEF Life!LifeNext
<1>3. CASE FinishDestroy(h)
  <2>1. UNCHANGED usersBar
    BY <1>3 DEF FinishDestroy, usersBar, Readers
  <2>2. phase[h] = "closing" /\ usersBar[h] = {}
    BY <1>3 DEF FinishDestroy, IInv, HandlerPhase, usersBar
  <2>3. Life!Free(h)
    BY <1>3, <2>1, <2>2 DEF FinishDestroy, Life!Free
  <2> QED
    BY <2>3 DEF Life!LifeNext
<1>4. CASE processIncomingAnswer(h) \/ Terminate(h)
  <2>1. UNCHANGED <<phase, conn>> /\ (UNCHANGED cpc \/ NotifyAll(h))
    BY <1>4 DEF processIncomingAnswer, Terminate
  <2>2. \A c \in Calls : cpc'[c] \in Using <=> cpc[c] \in Using
    BY <2>1 DEF NotifyAll, Using
  <2> QED
    BY <2>1, <2>2, AbstractSame
<1>5. CASE \/ EndRead(h) \/ AnswerOverflow(h) \/ Drain(h)
           \/ \E j \in Tasks : processIncomingExecutionRequest(h, j)
  <2>1. UNCHANGED <<phase, cpc, conn>>
    BY <1>5 DEF EndRead, AnswerOverflow, Drain, processIncomingExecutionRequest
  <2> QED
    BY <2>1, AbstractSame
<1> QED
  BY <1>1, <1>2, <1>3, <1>4, <1>5 DEF HandlerStep

\* The connections, with the calls that have them open, are elements of
\* ElementLifetime: what Threads::Safe::Map is proved to promise is all that
\* FastRPC3 relies on.
THEOREM ConnectionsKeepLifetime == Spec => ConnectionLifetime
<1>1. Init => Life!LifeInit
  BY DEF Init, Life!LifeInit, usersBar, Readers, Using
<1>2. IInv /\ [Next]_vars => [Life!LifeNext]_(Life!lifeVars)
  <2> SUFFICES ASSUME IInv, [Next]_vars
               PROVE  Life!LifeNext \/ UNCHANGED <<phase, usersBar>>
    BY DEF Life!lifeVars
  <2>1. CASE UNCHANGED vars
    BY <2>1, AbstractSame DEF vars
  <2>2. ASSUME NEW j \in Tasks, AnswerTask(j) PROVE UNCHANGED <<phase, usersBar>>
    BY <2>2, AbstractSame DEF AnswerTask, connVars, callVars
  <2> QED
    BY <2>1, <2>2, CallRefines, HandlerRefines DEF Next
<1> QED
  BY <1>1, <1>2, Invariance, PTL DEF Spec, ConnectionLifetime, Life!LifeSpec
=============================================================================
