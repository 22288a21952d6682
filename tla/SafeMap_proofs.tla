--------------------------- MODULE SafeMap_proofs ---------------------------
(***************************************************************************)
(* Proofs about SafeMap, for any number of threads, keys and items: the    *)
(* reader count is exact, an opened pointer stays valid, and the map       *)
(* implements ElementLifetime.                                             *)
(***************************************************************************)
EXTENDS SafeMap, FiniteSetTheorems, TLAPS

\* An item is in the map at one key at most, and then neither unused nor deleted.
Placed ==
    /\ unused \cap deleted = {}
    /\ \A k \in Keys : item[k] \in Items => item[k] \notin unused \cup deleted
    /\ \A j, k \in Keys : item[j] = item[k] /\ item[j] \in Items => j = k

\* A destroyer owns its entry and the item it will delete, alone.
DrainerOwns ==
    /\ \A d \in Threads : Draining(d) =>
         /\ item[key[d]] = NoItem
         /\ ptr[d] \in Items \ (unused \cup deleted)
         /\ \A k \in Keys : item[k] # ptr[d]
    /\ \A c, d \in Threads :
         Draining(c) /\ Draining(d) /\ (key[c] = key[d] \/ ptr[c] = ptr[d]) => c = d

\* The inductive invariant.
IInv == TypeOK /\ Placed /\ DrainerOwns /\ CountExact /\ PointerValid

-----------------------------------------------------------------------------
(* Counting readers *)

\* The readers of an entry are finitely many.
LEMMA ReadingFinite ==
    ASSUME NEW k \in Keys PROVE IsFiniteSet(Reading(k))
<1>1. Reading(k) \subseteq Threads
  BY DEF Reading
<1> QED
  BY <1>1, MapAssumption, FS_Subset

\* A reader that comes adds one.
LEMMA CountIn ==
    ASSUME NEW k \in Keys, NEW t \in Threads, CountExact, t \notin Reading(k),
           Reading(k)' = Reading(k) \cup {t}, numReaders'[k] = numReaders[k] + 1
    PROVE  numReaders'[k] = Cardinality(Reading(k)')
BY ReadingFinite, FS_AddElement DEF CountExact

\* A reader that goes takes one away.
LEMMA CountOut ==
    ASSUME NEW k \in Keys, NEW t \in Threads, CountExact, t \in Reading(k),
           Reading(k)' = Reading(k) \ {t}, numReaders'[k] = numReaders[k] - 1
    PROVE  numReaders'[k] = Cardinality(Reading(k)')
BY ReadingFinite, FS_RemoveElement DEF CountExact

\* A count of zero means that nobody reads.
LEMMA CountZero ==
    ASSUME NEW k \in Keys, CountExact, numReaders[k] = 0
    PROVE  Reading(k) = {}
BY ReadingFinite, FS_EmptySet DEF CountExact

\* Steps that change no reader and no count keep the count exact.
LEMMA CountSame ==
    ASSUME CountExact, UNCHANGED numReaders,
           \A t \in Threads : tpc'[t] = "reading" <=> tpc[t] = "reading",
           \A t \in Threads : tpc[t] = "reading" => key'[t] = key[t]
    PROVE  CountExact'
<1>1. \A k \in Keys : Reading(k)' = Reading(k)
  BY DEF Reading
<1> QED
  BY <1>1 DEF CountExact

-----------------------------------------------------------------------------
(* One lemma per operation *)

\* A step that only moves sleeping and idle threads keeps the invariant.
LEMMA QuietStep ==
    ASSUME IInv, TypeOK', UNCHANGED <<item, numReaders, unused, deleted, key, ptr>>,
           \A t \in Threads : tpc'[t] = "reading" <=> tpc[t] = "reading",
           \A t \in Threads : Draining(t)' <=> Draining(t)
    PROVE  IInv'
<1>1. Placed' /\ DrainerOwns'
  BY DEF IInv, Placed, DrainerOwns
<1>2. CountExact'
  BY CountSame DEF IInv
<1>3. PointerValid'
  BY DEF IInv, PointerValid
<1> QED
  BY <1>1, <1>2, <1>3 DEF IInv

\* addElement.
LEMMA AddPreserves ==
    ASSUME IInv, NEW t \in Threads, NEW k \in Keys, NEW i \in Items, addElement(t, k, i)
    PROVE  IInv'
<1>1. TypeOK'
  BY DEF addElement, IInv, TypeOK
<1>2. /\ item'[k] = i /\ i \in unused /\ item[k] = NoEntry
      /\ \A j \in Keys : j # k => item'[j] = item[j]
      /\ unused' = unused \ {i} /\ UNCHANGED <<numReaders, deleted, tpc, key, ptr>>
  BY DEF addElement, IInv, TypeOK
<1>3. Placed'
  BY <1>2 DEF IInv, Placed
<1>4. DrainerOwns'
  <2>1. \A d \in Threads : Draining(d)' <=> Draining(d)
    BY <1>2 DEF Draining
  <2>2. ASSUME NEW d \in Threads, Draining(d)
        PROVE  /\ item'[key[d]] = NoItem /\ ptr[d] \in Items \ (unused' \cup deleted)
               /\ \A j \in Keys : item'[j] # ptr[d]
    <3>1. key[d] \in Keys /\ key[d] # k /\ ptr[d] # i
      BY <1>2, <2>2, MapAssumption DEF IInv, TypeOK, DrainerOwns
    <3> QED
      BY <1>2, <2>2, <3>1 DEF IInv, DrainerOwns
  <2> QED
    BY <1>2, <2>1, <2>2 DEF IInv, DrainerOwns
<1>5. CountExact'
  BY <1>2, CountSame DEF IInv
<1>6. PointerValid'
  <2> SUFFICES ASSUME NEW r \in Threads, tpc[r] = "reading"
               PROVE  /\ ptr[r] \in Items \ deleted /\ numReaders[key[r]] > 0
                      /\ \/ item'[key[r]] = ptr[r]
                         \/ /\ item'[key[r]] = NoItem
                            /\ \E d \in Threads : Draining(d)' /\ key[d] = key[r] /\ ptr[d] = ptr[r]
    BY <1>2 DEF PointerValid
  <2>1. key[r] \in Keys /\ key[r] # k
    BY <1>2, MapAssumption DEF IInv, TypeOK, PointerValid
  <2> QED
    BY <1>2, <2>1 DEF IInv, PointerValid, Draining
<1> QED
  BY <1>1, <1>3, <1>4, <1>5, <1>6 DEF IInv

\* openElement.
LEMMA OpenPreserves ==
    ASSUME IInv, NEW t \in Threads, NEW k \in Keys, openElement(t, k)
    PROVE  IInv'
<1>1. TypeOK'
  BY DEF openElement, IInv, TypeOK
<1>2. /\ tpc[t] = "idle" /\ item[k] \in Items
      /\ numReaders'[k] = numReaders[k] + 1
      /\ \A j \in Keys : j # k => numReaders'[j] = numReaders[j]
      /\ tpc'[t] = "reading" /\ key'[t] = k /\ ptr'[t] = item[k]
      /\ \A u \in Threads : u # t => tpc'[u] = tpc[u] /\ key'[u] = key[u] /\ ptr'[u] = ptr[u]
      /\ UNCHANGED <<item, unused, deleted>>
      /\ \A j \in Keys : numReaders[j] \in Nat
  BY DEF openElement, IInv, TypeOK
<1>3. \A d \in Threads : Draining(d)' <=> Draining(d) /\ d # t
  BY <1>2 DEF Draining
<1>4. Placed'
  BY <1>2 DEF IInv, Placed
<1>5. DrainerOwns'
  BY <1>2, <1>3 DEF IInv, DrainerOwns
<1>6. CountExact'
  <2>1. t \notin Reading(k) /\ Reading(k)' = Reading(k) \cup {t}
    BY <1>2 DEF Reading
  <2>2. \A j \in Keys : j # k => Reading(j)' = Reading(j)
    BY <1>2 DEF Reading
  <2>3. numReaders'[k] = Cardinality(Reading(k)')
    BY <1>2, <2>1, CountIn DEF IInv
  <2> QED
    BY <1>2, <2>2, <2>3 DEF IInv, CountExact
<1>7. PointerValid'
  <2> SUFFICES ASSUME NEW r \in Threads, tpc'[r] = "reading"
               PROVE  /\ ptr'[r] \in Items \ deleted' /\ numReaders'[key'[r]] > 0
                      /\ \/ item'[key'[r]] = ptr'[r]
                         \/ /\ item'[key'[r]] = NoItem
                            /\ \E d \in Threads : Draining(d)' /\ key'[d] = key'[r] /\ ptr'[d] = ptr'[r]
    BY DEF PointerValid
  <2>1. CASE r = t
    BY <1>2, <2>1 DEF IInv, Placed
  <2>2. CASE r # t
    <3>1. key[r] \in Keys /\ numReaders'[key[r]] > 0
      BY <1>2, <2>2 DEF IInv, TypeOK, PointerValid
    <3>2. \A d \in Threads : Draining(d) => d # t
      BY <1>2 DEF Draining
    <3> QED
      BY <1>2, <1>3, <2>2, <3>1, <3>2 DEF IInv, PointerValid
  <2> QED
    BY <2>1, <2>2
<1> QED
  BY <1>1, <1>4, <1>5, <1>6, <1>7 DEF IInv

\* releaseElement: a reader's entry exists and its count is positive, so it counts
\* down, and signals at zero.
LEMMA ReleaseFacts ==
    ASSUME IInv, NEW t \in Threads, releaseElement(t)
    PROVE  /\ tpc[t] = "reading" /\ tpc'[t] = "idle" /\ key[t] \in Keys
           /\ numReaders' = [numReaders EXCEPT ![key[t]] = @ - 1]
           /\ numReaders[key[t]] > 0
           /\ ptr' = [ptr EXCEPT ![t] = NoItem]
           /\ UNCHANGED <<item, unused, deleted, key>>
           /\ tpc' \in [Threads -> {"idle", "reading", "draining", "drained",
                                    "emptyWait", "emptyWoken"}]
           /\ \A u \in Threads : u # t => /\ tpc'[u] = "reading" <=> tpc[u] = "reading"
                                          /\ Draining(u)' <=> Draining(u)
<1>1. /\ tpc[t] = "reading" /\ key[t] \in Keys /\ numReaders[key[t]] > 0
      /\ item[key[t]] # NoEntry
  BY MapAssumption DEF releaseElement, IInv, TypeOK, PointerValid
<1>2. numReaders[key[t]] # 0 /\ tpc \in [Threads -> {"idle", "reading", "draining", "drained",
                                                     "emptyWait", "emptyWoken"}]
  BY <1>1 DEF IInv, TypeOK
<1>3. CASE NotifyDrained(key[t], t)
  BY <1>1, <1>2, <1>3 DEF releaseElement, NotifyDrained, Draining
<1>4. CASE tpc' = [tpc EXCEPT ![t] = "idle"]
  BY <1>1, <1>2, <1>4 DEF releaseElement, Draining
<1> QED
  BY <1>1, <1>2, <1>3, <1>4 DEF releaseElement

\* releaseElement.
LEMMA ReleasePreserves ==
    ASSUME IInv, NEW t \in Threads, releaseElement(t)
    PROVE  IInv'
<1> PICK k \in Keys : k = key[t]
  BY DEF IInv, TypeOK
<1>1. /\ tpc[t] = "reading" /\ tpc'[t] = "idle"
      /\ numReaders' = [numReaders EXCEPT ![k] = @ - 1]
      /\ numReaders[k] > 0
      /\ ptr' = [ptr EXCEPT ![t] = NoItem]
      /\ UNCHANGED <<item, unused, deleted, key>>
      /\ tpc' \in [Threads -> {"idle", "reading", "draining", "drained",
                               "emptyWait", "emptyWoken"}]
      /\ \A u \in Threads : u # t => /\ tpc'[u] = "reading" <=> tpc[u] = "reading"
                                     /\ Draining(u)' <=> Draining(u)
  BY ReleaseFacts
<1>2. TypeOK'
  BY <1>1 DEF IInv, TypeOK
<1>3. Placed'
  BY <1>1 DEF IInv, Placed
<1>4. ~Draining(t)' /\ ~Draining(t) /\ \A u \in Threads : u # t => ptr'[u] = ptr[u]
  BY <1>1 DEF Draining, IInv, TypeOK
<1>5. DrainerOwns'
  BY <1>1, <1>4 DEF IInv, DrainerOwns
<1>6. t \in Reading(k) /\ Reading(k)' = Reading(k) \ {t}
  BY <1>1 DEF Reading
<1>7. CountExact'
  <2>1. \A j \in Keys : j # k => Reading(j)' = Reading(j)
    BY <1>1 DEF Reading
  <2>2. numReaders'[k] = numReaders[k] - 1 /\ \A j \in Keys : j # k => numReaders'[j] = numReaders[j]
    BY <1>1 DEF IInv, TypeOK
  <2>3. numReaders'[k] = Cardinality(Reading(k)')
    BY <1>1, <1>6, <2>2, CountOut DEF IInv
  <2> QED
    BY <2>1, <2>2, <2>3 DEF IInv, CountExact
<1>8. PointerValid'
  <2> SUFFICES ASSUME NEW r \in Threads, tpc'[r] = "reading"
               PROVE  /\ ptr'[r] \in Items \ deleted' /\ numReaders'[key'[r]] > 0
                      /\ \/ item'[key'[r]] = ptr'[r]
                         \/ /\ item'[key'[r]] = NoItem
                            /\ \E d \in Threads : Draining(d)' /\ key'[d] = key'[r] /\ ptr'[d] = ptr'[r]
    BY DEF PointerValid
  <2>1. r # t /\ tpc[r] = "reading" /\ ptr'[r] = ptr[r] /\ key'[r] = key[r] /\ key[r] \in Keys
    BY <1>1, <1>4 DEF IInv, TypeOK
  <2>2. r \in Reading(key[r])'
    BY <2>1 DEF Reading
  <2>3. Reading(key[r])' # {} /\ IsFiniteSet(Reading(key[r])')
    <3>1. Reading(key[r])' \subseteq Threads
      BY DEF Reading
    <3> QED
      BY <2>2, <3>1, MapAssumption, FS_Subset
  <2>4. numReaders'[key[r]] > 0
    <3>1. numReaders'[key[r]] = Cardinality(Reading(key[r])')
      BY <1>7, <2>1 DEF CountExact
    <3>2. Cardinality(Reading(key[r])') \in Nat /\ Cardinality(Reading(key[r])') # 0
      BY <2>3, FS_CardinalityType, FS_EmptySet
    <3> QED
      BY <3>1, <3>2
  <2> QED
    BY <1>1, <1>4, <2>1, <2>4 DEF IInv, PointerValid
<1> QED
  BY <1>2, <1>3, <1>5, <1>7, <1>8 DEF IInv

\* The end of destroyElement, for a thread that owns item i of entry k and finds
\* no reader.
LEMMA ErasePreserves ==
    ASSUME IInv, NEW t \in Threads, NEW k \in Keys, NEW i \in Items, Erase(t, k, i),
           numReaders[k] = 0, UNCHANGED unused,
           key' \in [Threads -> Keys], \A u \in Threads : u # t => key'[u] = key[u],
           \/ tpc[t] = "idle" /\ item[k] = i
           \/ Draining(t) /\ key[t] = k /\ ptr[t] = i
    PROVE  /\ IInv'
           /\ \A r \in Threads : tpc[r] = "reading" => ptr[r] # i /\ key[r] # k
           /\ \A r \in Threads : /\ tpc'[r] = "reading" <=> tpc[r] = "reading"
                                 /\ r # t => ptr'[r] = ptr[r]
<1>1. /\ item'[k] = NoEntry /\ numReaders'[k] = 0
      /\ \A j \in Keys : j # k => item'[j] = item[j] /\ numReaders'[j] = numReaders[j]
      /\ ptr'[t] = NoItem /\ \A u \in Threads : u # t => ptr'[u] = ptr[u]
      /\ deleted' = deleted \cup {i}
  BY DEF Erase, IInv, TypeOK
<1>2. /\ tpc' \in [Threads -> {"idle", "reading", "draining", "drained", "emptyWait", "emptyWoken"}]
      /\ tpc'[t] \in {"idle", "emptyWoken"} /\ tpc[t] # "reading"
      /\ \A u \in Threads : u # t => /\ tpc'[u] = "reading" <=> tpc[u] = "reading"
                                     /\ Draining(u)' <=> Draining(u)
  BY DEF Erase, IInv, TypeOK, Draining
<1>3. TypeOK'
  BY <1>2 DEF Erase, IInv, TypeOK
<1>4. i \notin unused \cup deleted
  BY DEF IInv, Placed, DrainerOwns
<1>5. \A j \in Keys : j # k => item[j] # i
  BY DEF IInv, Placed, DrainerOwns
<1>6. \A d \in Threads : d # t /\ Draining(d) => key[d] # k /\ ptr[d] # i
  BY MapAssumption DEF IInv, DrainerOwns
<1>7. ~Draining(t)'
  BY <1>2 DEF Draining
<1>8. Reading(k) = {}
  BY CountZero DEF IInv
<1>9. \A r \in Threads : tpc[r] = "reading" => r # t /\ key[r] # k /\ key[r] \in Keys
  BY <1>2, <1>8 DEF Reading, IInv, TypeOK
<1>10. ASSUME NEW r \in Threads, tpc[r] = "reading" PROVE ptr[r] # i
  <2>1. CASE item[key[r]] = ptr[r]
    BY <2>1, <1>5, <1>9, <1>10
  <2>2. CASE \E d \in Threads : Draining(d) /\ key[d] = key[r] /\ ptr[d] = ptr[r]
    <3>1. PICK d \in Threads : Draining(d) /\ key[d] = key[r] /\ ptr[d] = ptr[r]
      BY <2>2
    <3>2. d # t
      BY <3>1, <1>9, <1>10, <1>2 DEF Draining
    <3> QED
      BY <3>1, <3>2, <1>6
  <2> QED
    BY <2>1, <2>2, <1>10 DEF IInv, PointerValid
<1>11. Placed'
  <2>1. \A j \in Keys : item'[j] \in Items => j # k /\ item'[j] = item[j] /\ item[j] # i
    BY <1>1, <1>5, MapAssumption
  <2> QED
    BY <1>1, <1>4, <2>1 DEF IInv, Placed
<1>12. DrainerOwns'
  <2>1. ASSUME NEW d \in Threads, Draining(d)'
        PROVE  /\ d # t /\ Draining(d) /\ key'[d] = key[d] /\ ptr'[d] = ptr[d]
               /\ key[d] # k /\ key[d] \in Keys /\ ptr[d] # i
    BY <2>1, <1>1, <1>2, <1>6, <1>7 DEF IInv, TypeOK
  <2>2. ASSUME NEW d \in Threads, Draining(d)'
        PROVE  /\ item'[key'[d]] = NoItem /\ ptr'[d] \in Items \ (unused' \cup deleted')
               /\ \A j \in Keys : item'[j] # ptr'[d]
    <3>1. ptr[d] \in Items \ (unused \cup deleted) /\ item[key[d]] = NoItem
          /\ \A j \in Keys : item[j] # ptr[d]
      BY <2>1, <2>2 DEF IInv, DrainerOwns
    <3>2. ptr[d] # NoEntry
      BY <3>1, MapAssumption
    <3> QED
      BY <1>1, <2>1, <2>2, <3>1, <3>2
  <2> QED
    BY <2>1, <2>2 DEF IInv, DrainerOwns
<1>13. CountExact'
  <2>1. \A j \in Keys : Reading(j)' = Reading(j)
    BY <1>2, <1>9 DEF Reading
  <2> QED
    BY <1>1, <2>1 DEF IInv, CountExact
<1>14. PointerValid'
  <2> SUFFICES ASSUME NEW r \in Threads, tpc'[r] = "reading"
               PROVE  /\ ptr'[r] \in Items \ deleted' /\ numReaders'[key'[r]] > 0
                      /\ \/ item'[key'[r]] = ptr'[r]
                         \/ /\ item'[key'[r]] = NoItem
                            /\ \E d \in Threads : Draining(d)' /\ key'[d] = key'[r] /\ ptr'[d] = ptr'[r]
    BY DEF PointerValid
  <2>1. r # t /\ tpc[r] = "reading"
    BY <1>2
  <2>2. key'[r] = key[r] /\ ptr'[r] = ptr[r] /\ ptr[r] # i /\ key[r] # k /\ key[r] \in Keys
    BY <2>1, <1>1, <1>9, <1>10
  <2>3. ptr[r] \in Items \ deleted' /\ numReaders'[key[r]] > 0 /\ item'[key[r]] = item[key[r]]
    BY <1>1, <2>1, <2>2 DEF IInv, PointerValid
  <2>4. ASSUME NEW d \in Threads, Draining(d), key[d] = key[r]
        PROVE  Draining(d)' /\ key'[d] = key[d] /\ ptr'[d] = ptr[d]
    <3>1. d # t
      BY <2>2, <2>4, <1>2 DEF Draining
    <3> QED
      BY <2>4, <3>1, <1>1, <1>2
  <2> QED
    BY <2>1, <2>2, <2>3, <2>4 DEF IInv, PointerValid
<1> QED
  BY <1>1, <1>2, <1>3, <1>9, <1>10, <1>11, <1>12, <1>13, <1>14 DEF IInv

\* destroyElement, up to its return or its first sleep.
LEMMA DestroyPreserves ==
    ASSUME IInv, NEW t \in Threads, NEW k \in Keys, destroyElement(t, k)
    PROVE  IInv'
<1>1. /\ tpc[t] = "idle" /\ item[k] \in Items /\ UNCHANGED unused
      /\ key' \in [Threads -> Keys] /\ key'[t] = k
      /\ \A u \in Threads : u # t => key'[u] = key[u]
  BY DEF destroyElement, IInv, TypeOK
<1>2. CASE numReaders[k] = 0 /\ Erase(t, k, item[k])
  BY <1>1, <1>2, ErasePreserves
<1>3. CASE /\ item' = [item EXCEPT ![k] = NoItem]
           /\ ptr' = [ptr EXCEPT ![t] = item[k]]
           /\ tpc' = [tpc EXCEPT ![t] = "draining"]
           /\ UNCHANGED <<numReaders, deleted>>
  <2>1. /\ item'[k] = NoItem /\ \A j \in Keys : j # k => item'[j] = item[j]
        /\ ptr'[t] = item[k] /\ \A u \in Threads : u # t => ptr'[u] = ptr[u]
        /\ tpc'[t] = "draining" /\ \A u \in Threads : u # t => tpc'[u] = tpc[u]
    BY <1>3 DEF IInv, TypeOK
  <2>2. TypeOK'
    BY <1>1, <1>3 DEF IInv, TypeOK
  <2>3. Placed'
    BY <1>1, <1>3, <2>1, MapAssumption DEF IInv, Placed
  <2>4. \A d \in Threads : Draining(d)' <=> (Draining(d) \/ d = t)
    BY <2>1 DEF Draining
  <2>5. ~Draining(t)
    BY <1>1 DEF Draining
  <2>6. \A d \in Threads : Draining(d) => key[d] # k /\ key[d] \in Keys /\ ptr[d] # item[k]
    BY <1>1, MapAssumption DEF IInv, TypeOK, DrainerOwns
  <2>7. DrainerOwns'
    <3>1. ASSUME NEW d \in Threads, Draining(d)'
          PROVE  /\ item'[key'[d]] = NoItem /\ ptr'[d] \in Items \ (unused' \cup deleted')
                 /\ \A j \in Keys : item'[j] # ptr'[d]
      <4>1. CASE d = t
        BY <1>1, <1>3, <2>1, <4>1, MapAssumption DEF IInv, Placed
      <4>2. CASE d # t
        <5>1. Draining(d)
          BY <2>4, <3>1, <4>2
        <5>2. ptr[d] # NoItem
          BY <5>1, MapAssumption DEF IInv, DrainerOwns
        <5> QED
          BY <1>1, <1>3, <2>1, <2>6, <4>2, <5>1, <5>2 DEF IInv, DrainerOwns
      <4> QED
        BY <4>1, <4>2
    <3>2. ASSUME NEW c \in Threads, NEW d \in Threads, Draining(c)', Draining(d)',
                 key'[c] = key'[d] \/ ptr'[c] = ptr'[d]
          PROVE  c = d
      BY <1>1, <2>1, <2>4, <2>5, <2>6, <3>2 DEF IInv, DrainerOwns
    <3> QED
      BY <3>1, <3>2 DEF DrainerOwns
  <2>8. CountExact'
    BY <1>1, <1>3, <2>1, CountSame DEF IInv
  <2>9. PointerValid'
    <3> SUFFICES ASSUME NEW r \in Threads, tpc'[r] = "reading"
                 PROVE  /\ ptr'[r] \in Items \ deleted' /\ numReaders'[key'[r]] > 0
                        /\ \/ item'[key'[r]] = ptr'[r]
                           \/ /\ item'[key'[r]] = NoItem
                              /\ \E d \in Threads : Draining(d)' /\ key'[d] = key'[r] /\ ptr'[d] = ptr'[r]
      BY DEF PointerValid
    <3>1. r # t /\ tpc[r] = "reading" /\ key'[r] = key[r] /\ ptr'[r] = ptr[r] /\ key[r] \in Keys
      BY <1>1, <2>1 DEF IInv, TypeOK
    <3>2. CASE key[r] = k
      <4>1. item[k] = ptr[r]
        BY <1>1, <3>1, <3>2, MapAssumption DEF IInv, PointerValid
      <4> QED
        BY <1>1, <1>3, <2>1, <2>4, <3>1, <3>2, <4>1 DEF IInv, PointerValid
    <3>3. CASE key[r] # k
      <4>1. item'[key[r]] = item[key[r]]
        BY <2>1, <3>1, <3>3
      <4>2. \A d \in Threads : Draining(d) =>
               d # t /\ Draining(d)' /\ key'[d] = key[d] /\ ptr'[d] = ptr[d]
        BY <1>1, <2>1, <2>4, <2>5
      <4> QED
        BY <1>3, <3>1, <4>1, <4>2 DEF IInv, PointerValid
    <3> QED
      BY <3>2, <3>3
  <2> QED
    BY <2>2, <2>3, <2>7, <2>8, <2>9 DEF IInv
<1> QED
  BY <1>2, <1>3 DEF destroyElement

\* destroyElement after a wake-up.
LEMMA WokenPreserves ==
    ASSUME IInv, NEW t \in Threads, WokenDestroy(t)
    PROVE  IInv'
<1>1. /\ Draining(t) /\ key[t] \in Keys /\ ptr[t] \in Items
      /\ UNCHANGED <<unused, key>> /\ key \in [Threads -> Keys]
  BY DEF WokenDestroy, Draining, IInv, TypeOK, DrainerOwns
<1>2. CASE numReaders[key[t]] = 0 /\ Erase(t, key[t], ptr[t])
  <2>1. PICK k \in Keys, i \in Items : k = key[t] /\ i = ptr[t]
    BY <1>1
  <2> QED
    BY <1>1, <1>2, <2>1, ErasePreserves
<1>3. CASE tpc' = [tpc EXCEPT ![t] = "draining"] /\ UNCHANGED <<item, numReaders, deleted, ptr>>
  <2>1. TypeOK'
    BY <1>1, <1>3 DEF IInv, TypeOK
  <2>2. \A u \in Threads : /\ tpc'[u] = "reading" <=> tpc[u] = "reading"
                           /\ Draining(u)' <=> Draining(u)
    BY <1>1, <1>3 DEF IInv, TypeOK, Draining
  <2> QED
    BY <1>1, <1>3, <2>1, <2>2, QuietStep
<1> QED
  BY <1>2, <1>3 DEF WokenDestroy

\* Sleeping for an empty map, and wake-ups.
LEMMA SleepPreserves ==
    ASSUME IInv, NEW t \in Threads, waitForEmptyMap(t) \/ WokenEmpty(t) \/ Spurious(t)
    PROVE  IInv'
<1>1. TypeOK'
  BY DEF waitForEmptyMap, WokenEmpty, Spurious, IInv, TypeOK
<1>2. \A u \in Threads : /\ tpc'[u] = "reading" <=> tpc[u] = "reading"
                         /\ Draining(u)' <=> Draining(u)
  BY DEF waitForEmptyMap, WokenEmpty, Spurious, IInv, TypeOK, Draining
<1>3. UNCHANGED <<item, numReaders, unused, deleted, key, ptr>>
  BY DEF waitForEmptyMap, WokenEmpty, Spurious
<1> QED
  BY <1>1, <1>2, <1>3, QuietStep

-----------------------------------------------------------------------------
(* The theorems *)

\* An empty map satisfies the invariant.
LEMMA InitIInv == Init => IInv
<1> SUFFICES ASSUME Init PROVE IInv
  OBVIOUS
<1>1. TypeOK /\ Placed /\ DrainerOwns /\ PointerValid
  BY MapAssumption DEF Init, TypeOK, Placed, DrainerOwns, PointerValid, Draining
<1>2. \A k \in Keys : Reading(k) = {}
  BY DEF Init, Reading
<1>3. CountExact
  BY <1>2, FS_EmptySet DEF Init, CountExact
<1> QED
  BY <1>1, <1>3 DEF IInv

\* Every step of the map preserves the invariant.
LEMMA NextIInv == IInv /\ [Next]_vars => IInv'
<1> SUFFICES ASSUME IInv, [Next]_vars PROVE IInv'
  OBVIOUS
<1>1. CASE UNCHANGED vars
  <2>1. TypeOK'
    BY <1>1 DEF vars, IInv, TypeOK
  <2> QED
    BY <1>1, <2>1, QuietStep DEF vars, Draining
<1>2. CASE Next
  BY <1>2, AddPreserves, OpenPreserves, DestroyPreserves, ReleasePreserves, WokenPreserves,
     SleepPreserves DEF Next
<1> QED
  BY <1>1, <1>2

\* The inductive invariant holds in every reachable state.
THEOREM Invariance == Spec => []IInv
<1>1. Init => IInv
  BY InitIInv
<1>2. IInv /\ [Next]_vars => IInv'
  BY NextIInv
<1> QED
  BY <1>1, <1>2, PTL DEF Spec

\* Every variable of the map keeps its type, whatever its users do.
THEOREM TypeCorrect == Spec => []TypeOK
<1>1. IInv => TypeOK
  BY DEF IInv
<1> QED
  BY <1>1, Invariance, PTL

\* The count of an entry is the number of threads that hold it open.
THEOREM CountIsExact == Spec => []CountExact
<1>1. IInv => CountExact
  BY DEF IInv
<1> QED
  BY <1>1, Invariance, PTL

\* A pointer that openElement returned is valid until it is released, and its
\* release succeeds.
THEOREM PointersStayValid == Spec => []PointerValid
<1>1. IInv => PointerValid
  BY DEF IInv
<1> QED
  BY <1>1, Invariance, PTL

-----------------------------------------------------------------------------
(* The map implements ElementLifetime *)

\* Steps that move no item and no reader leave the abstract state alone.
LEMMA AbstractSame ==
    ASSUME UNCHANGED <<item, unused, deleted>>,
           \A t \in Threads : tpc'[t] = "reading" <=> tpc[t] = "reading",
           \A t \in Threads : tpc[t] = "reading" => ptr'[t] = ptr[t]
    PROVE  UNCHANGED <<phaseBar, usersBar>>
BY DEF phaseBar, usersBar

\* Deleting an item that nobody reads is the abstract Free.
LEMMA EraseFrees ==
    ASSUME IInv, NEW t \in Threads, NEW k \in Keys, NEW i \in Items, Erase(t, k, i),
           numReaders[k] = 0, UNCHANGED unused,
           key' \in [Threads -> Keys], \A u \in Threads : u # t => key'[u] = key[u],
           \/ tpc[t] = "idle" /\ item[k] = i
           \/ Draining(t) /\ key[t] = k /\ ptr[t] = i
    PROVE  Life!Free(i)
<1>1. /\ \A r \in Threads : tpc[r] = "reading" => ptr[r] # i /\ key[r] # k
      /\ \A r \in Threads : /\ tpc'[r] = "reading" <=> tpc[r] = "reading"
                            /\ r # t => ptr'[r] = ptr[r]
  BY ErasePreserves
<1>2. tpc[t] # "reading"
  BY DEF Draining
<1>3. usersBar[i] = {} /\ UNCHANGED usersBar
  BY <1>1, <1>2 DEF usersBar
<1>4. i \notin unused \cup deleted
  BY DEF IInv, Placed, DrainerOwns
<1>5. phaseBar[i] \in {"live", "closing"}
  BY <1>4 DEF phaseBar
<1>6. /\ deleted' = deleted \cup {i} /\ item'[k] = NoEntry
      /\ \A j \in Keys : j # k => item'[j] = item[j]
      /\ item[k] \in Items => item[k] = i
  BY MapAssumption DEF Erase, IInv, TypeOK, DrainerOwns
<1>7. \A x \in Items : x # i => ((\E j \in Keys : item'[j] = x) <=> (\E j \in Keys : item[j] = x))
  BY <1>6, MapAssumption
<1>8. phaseBar'[i] = "freed" /\ \A x \in Items : x # i => phaseBar'[x] = phaseBar[x]
  BY <1>4, <1>6, <1>7 DEF phaseBar
<1>9. phaseBar' = [phaseBar EXCEPT ![i] = "freed"]
  <2>1. /\ phaseBar = [x \in Items |-> phaseBar[x]]
        /\ phaseBar' = [x \in Items |-> phaseBar'[x]]
    BY DEF phaseBar
  <2> QED
    BY <1>8, <2>1
<1> QED
  BY <1>3, <1>5, <1>9 DEF Life!Free

\* Every step of the map is a step of ElementLifetime or leaves it alone.
LEMMA StepRefines ==
    IInv /\ [Next]_vars => [Life!LifeNext]_(Life!lifeVars)
<1> SUFFICES ASSUME IInv, [Next]_vars
             PROVE  Life!LifeNext \/ UNCHANGED <<phaseBar, usersBar>>
  BY DEF Life!lifeVars
<1>1. CASE UNCHANGED vars
  BY <1>1, AbstractSame DEF vars
<1>2. ASSUME NEW t \in Threads, NEW k \in Keys, NEW i \in Items, addElement(t, k, i)
      PROVE  Life!LifeNext
  <2>1. i \in unused /\ i \notin deleted /\ unused' = unused \ {i} /\ UNCHANGED <<deleted, tpc, ptr>>
        /\ item'[k] = i /\ item[k] = NoEntry /\ \A j \in Keys : j # k => item'[j] = item[j]
    BY <1>2 DEF addElement, IInv, TypeOK, Placed
  <2>2. \A x \in Items : x # i => ((\E j \in Keys : item'[j] = x) <=> (\E j \in Keys : item[j] = x))
    BY <2>1, MapAssumption
  <2>3. /\ phaseBar[i] = "new" /\ phaseBar'[i] = "live"
        /\ \A x \in Items : x # i => phaseBar'[x] = phaseBar[x]
    BY <2>1, <2>2 DEF phaseBar
  <2>4. phaseBar' = [phaseBar EXCEPT ![i] = "live"]
    BY <2>3 DEF phaseBar
  <2>5. Life!Publish(i)
    BY <2>1, <2>3, <2>4 DEF Life!Publish, usersBar
  <2> QED
    BY <2>5 DEF Life!LifeNext
<1>3. ASSUME NEW t \in Threads, NEW k \in Keys, openElement(t, k)
      PROVE  Life!LifeNext
  <2>1. PICK i \in Items : i = item[k]
    BY <1>3 DEF openElement
  <2>2. /\ tpc[t] = "idle" /\ tpc'[t] = "reading" /\ ptr'[t] = i
        /\ \A u \in Threads : u # t => tpc'[u] = tpc[u] /\ ptr'[u] = ptr[u]
        /\ UNCHANGED <<item, unused, deleted>>
    BY <1>3, <2>1 DEF openElement, IInv, TypeOK
  <2>3. phaseBar[i] = "live" /\ UNCHANGED phaseBar
    BY <2>1, <2>2 DEF phaseBar, IInv, Placed
  <2>4. /\ usersBar'[i] = usersBar[i] \cup {t}
        /\ \A x \in Items : x # i => usersBar'[x] = usersBar[x]
    BY <2>2 DEF usersBar
  <2>5. usersBar' = [usersBar EXCEPT ![i] = @ \cup {t}]
    BY <2>4 DEF usersBar
  <2>6. Life!Acquire(t, i)
    BY <2>3, <2>5 DEF Life!Acquire
  <2> QED
    BY <2>6 DEF Life!LifeNext
<1>4. ASSUME NEW t \in Threads, releaseElement(t) PROVE Life!LifeNext
  <2>1. PICK i \in Items : i = ptr[t]
    BY <1>4 DEF releaseElement, IInv, PointerValid
  <2>2. /\ tpc[t] = "reading" /\ tpc'[t] = "idle" /\ UNCHANGED <<item, unused, deleted>>
        /\ \A u \in Threads : u # t => (tpc'[u] = "reading" <=> tpc[u] = "reading")
        /\ ptr' = [ptr EXCEPT ![t] = NoItem]
    BY <1>4, ReleaseFacts
  <2>3. \A u \in Threads : u # t => ptr'[u] = ptr[u]
    BY <2>2 DEF IInv, TypeOK
  <2>4. t \in usersBar[i] /\ UNCHANGED phaseBar
    BY <2>1, <2>2 DEF usersBar, phaseBar
  <2>5. /\ usersBar'[i] = usersBar[i] \ {t}
        /\ \A x \in Items : x # i => usersBar'[x] = usersBar[x]
    BY <2>1, <2>2, <2>3 DEF usersBar
  <2>6. usersBar' = [usersBar EXCEPT ![i] = @ \ {t}]
    BY <2>5 DEF usersBar
  <2>7. Life!Release(t, i)
    BY <2>4, <2>6 DEF Life!Release
  <2> QED
    BY <2>7 DEF Life!LifeNext
<1>5. ASSUME NEW t \in Threads, NEW k \in Keys, destroyElement(t, k)
      PROVE  Life!LifeNext
  <2>1. PICK i \in Items : i = item[k]
    BY <1>5 DEF destroyElement
  <2>2. /\ tpc[t] = "idle" /\ UNCHANGED unused
        /\ key' \in [Threads -> Keys] /\ \A u \in Threads : u # t => key'[u] = key[u]
    BY <1>5 DEF destroyElement, IInv, TypeOK
  <2>3. CASE numReaders[k] = 0 /\ Erase(t, k, item[k])
    BY <2>1, <2>2, <2>3, EraseFrees DEF Life!LifeNext
  <2>4. CASE /\ item' = [item EXCEPT ![k] = NoItem]
             /\ ptr' = [ptr EXCEPT ![t] = item[k]]
             /\ tpc' = [tpc EXCEPT ![t] = "draining"]
             /\ UNCHANGED <<numReaders, deleted>>
    <3>1. /\ item'[k] = NoItem /\ \A j \in Keys : j # k => item'[j] = item[j]
          /\ tpc'[t] = "draining" /\ \A u \in Threads : u # t => tpc'[u] = tpc[u] /\ ptr'[u] = ptr[u]
      BY <2>4 DEF IInv, TypeOK
    <3>2. i \notin unused \cup deleted /\ \A j \in Keys : j # k => item[j] # i
      BY <2>1 DEF IInv, Placed
    <3>3. \A x \in Items : x # i => ((\E j \in Keys : item'[j] = x) <=> (\E j \in Keys : item[j] = x))
      BY <2>1, <3>1, MapAssumption
    <3>4. ~\E j \in Keys : item'[j] = i
      BY <3>1, <3>2, MapAssumption
    <3>5. /\ phaseBar[i] = "live" /\ phaseBar'[i] = "closing"
          /\ \A x \in Items : x # i => phaseBar'[x] = phaseBar[x]
      BY <2>1, <2>2, <2>4, <3>2, <3>3, <3>4 DEF phaseBar
    <3>6. phaseBar' = [phaseBar EXCEPT ![i] = "closing"]
      BY <3>5 DEF phaseBar
    <3>7. UNCHANGED usersBar
      BY <2>2, <3>1 DEF usersBar
    <3>8. Life!Close(i)
      BY <3>5, <3>6, <3>7 DEF Life!Close
    <3> QED
      BY <3>8 DEF Life!LifeNext
  <2> QED
    BY <1>5, <2>3, <2>4 DEF destroyElement
<1>6. ASSUME NEW t \in Threads, WokenDestroy(t)
      PROVE  Life!LifeNext \/ UNCHANGED <<phaseBar, usersBar>>
  <2>1. /\ Draining(t) /\ key[t] \in Keys /\ ptr[t] \in Items
        /\ UNCHANGED <<unused, key>> /\ key \in [Threads -> Keys]
    BY <1>6 DEF WokenDestroy, Draining, IInv, TypeOK, DrainerOwns
  <2>2. CASE numReaders[key[t]] = 0 /\ Erase(t, key[t], ptr[t])
    <3>1. PICK k \in Keys, i \in Items : k = key[t] /\ i = ptr[t]
      BY <2>1
    <3> QED
      BY <2>1, <2>2, <3>1, EraseFrees DEF Life!LifeNext
  <2>3. CASE tpc' = [tpc EXCEPT ![t] = "draining"] /\ UNCHANGED <<item, numReaders, deleted, ptr>>
    <3>1. \A u \in Threads : tpc'[u] = "reading" <=> tpc[u] = "reading"
      BY <2>1, <2>3 DEF IInv, TypeOK, Draining
    <3> QED
      BY <2>1, <2>3, <3>1, AbstractSame
  <2> QED
    BY <1>6, <2>2, <2>3 DEF WokenDestroy
<1>7. ASSUME NEW t \in Threads, waitForEmptyMap(t) \/ WokenEmpty(t) \/ Spurious(t)
      PROVE  UNCHANGED <<phaseBar, usersBar>>
  <2>1. \A u \in Threads : tpc'[u] = "reading" <=> tpc[u] = "reading"
    BY <1>7 DEF waitForEmptyMap, WokenEmpty, Spurious, IInv, TypeOK
  <2>2. UNCHANGED <<item, unused, deleted, ptr>>
    BY <1>7 DEF waitForEmptyMap, WokenEmpty, Spurious
  <2> QED
    BY <2>1, <2>2, AbstractSame
<1> QED
  BY <1>1, <1>2, <1>3, <1>4, <1>5, <1>6, <1>7 DEF Next

\* Threads::Safe::Map implements ElementLifetime: no item is handed out after its
\* destruction began and none is deleted while a reader has it.
THEOREM MapImplementsLifetime == Spec => Lifetime
<1>1. Init => Life!LifeInit
  BY DEF Init, Life!LifeInit, phaseBar, usersBar
<1>2. IInv /\ [Next]_vars => [Life!LifeNext]_(Life!lifeVars)
  BY StepRefines
<1> QED
  BY <1>1, <1>2, Invariance, PTL DEF Spec, Lifetime, Life!LifeSpec
=============================================================================
