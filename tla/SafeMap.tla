------------------------------- MODULE SafeMap -------------------------------
(***************************************************************************)
(* Threads::Safe::Map (Threads/map.h): a keyed table of owned items.       *)
(* openElement counts a reader in, releaseElement counts it out, and       *)
(* destroyElement hides the item, sleeps until the count is zero, deletes  *)
(* the item and erases the entry.  The one mutex makes every section       *)
(* between two sleeps a step; both notifications are given inside it.      *)
(*                                                                         *)
(* A thread does one thing at a time: it releases what it has opened,      *)
(* holds at most one opened element, and does not destroy or wait while it *)
(* holds one, as FastRPC3 and WebSessionsManager do (the request handler   *)
(* of Server_MonolithWebAPI does not; the README says where).  getKeys and *)
(* isMember change nothing and are left out.                               *)
(***************************************************************************)
EXTENDS Naturals, FiniteSets

CONSTANTS
    Threads,
    Keys,
    Items,      \* the objects that may be put into the map, each at most once
    NoItem,     \* the entry exists and its item has been taken by a destroyer
    NoEntry     \* m_keyValueMap has no entry for the key

ASSUME MapAssumption ==
    /\ NoItem \notin Items
    /\ NoEntry \notin Items
    /\ NoItem # NoEntry
    /\ IsFiniteSet(Threads)

VARIABLES
    item,           \* m_keyValueMap[key].item, or NoEntry
    numReaders,     \* m_keyValueMap[key].numReaders
    unused,         \* items that no addElement has been given yet
    deleted,        \* items that have been deleted
    tpc,            \* what each thread is doing
    key,            \* the key of its current operation
    ptr             \* the item it has a pointer to

vars == <<item, numReaders, unused, deleted, tpc, key, ptr>>

TypeOK ==
    /\ item \in [Keys -> Items \cup {NoItem, NoEntry}]
    /\ numReaders \in [Keys -> Nat]
    /\ unused \subseteq Items
    /\ deleted \subseteq Items
    /\ tpc \in [Threads -> {"idle", "reading", "draining", "drained",
                            "emptyWait", "emptyWoken"}]
    /\ key \in [Threads -> Keys]
    /\ ptr \in [Threads -> Items \cup {NoItem}]

Init ==
    /\ item = [k \in Keys |-> NoEntry]
    /\ numReaders = [k \in Keys |-> 0]
    /\ unused = Items
    /\ deleted = {}
    /\ tpc = [t \in Threads |-> "idle"]
    /\ key \in [Threads -> Keys]
    /\ ptr = [t \in Threads |-> NoItem]

-----------------------------------------------------------------------------

\* addElement that returns true; with an entry in the way it changes nothing.
addElement(t, k, i) ==
    /\ tpc[t] = "idle"
    /\ i \in unused
    /\ item[k] = NoEntry
    /\ item' = [item EXCEPT ![k] = i]
    /\ unused' = unused \ {i}
    /\ UNCHANGED <<numReaders, deleted, tpc, key, ptr>>

openElement_Unchecked(t, k) ==
    /\ tpc[t] = "idle"
    /\ numReaders' = [numReaders EXCEPT ![k] = @ + 1]
    /\ tpc' = [tpc EXCEPT ![t] = "reading"]
    /\ key' = [key EXCEPT ![t] = k]
    /\ ptr' = [ptr EXCEPT ![t] = item[k]]
    /\ UNCHANGED <<item, unused, deleted>>

\* openElement that returns an item: the entry exists and is not being destroyed.
openElement(t, k) ==
    /\ tpc[t] = "idle"
    /\ item[k] \in Items
    /\ numReaders' = [numReaders EXCEPT ![k] = @ + 1]
    /\ tpc' = [tpc EXCEPT ![t] = "reading"]
    /\ key' = [key EXCEPT ![t] = k]
    /\ ptr' = [ptr EXCEPT ![t] = item[k]]
    /\ UNCHANGED <<item, unused, deleted>>

NotifyDrained_Forgotten(k, t) == tpc' = [tpc EXCEPT ![t] = "idle"]

\* The last reader signals the destroyer that sleeps on this entry.
NotifyDrained(k, t) ==
    tpc' = [u \in Threads |->
              IF u = t THEN "idle"
              ELSE IF tpc[u] = "draining" /\ key[u] = k THEN "drained" ELSE tpc[u]]

\* releaseElement: without an entry it returns false, with a count of zero it
\* throws; PointerValid shows that a reader meets neither.
releaseElement(t) ==
    LET k == key[t] IN
    /\ tpc[t] = "reading"
    /\ IF item[k] = NoEntry \/ numReaders[k] = 0
       THEN tpc' = [tpc EXCEPT ![t] = "idle"] /\ UNCHANGED numReaders
       ELSE /\ numReaders' = [numReaders EXCEPT ![k] = @ - 1]
            /\ IF numReaders[k] = 1 THEN NotifyDrained(k, t)
               ELSE tpc' = [tpc EXCEPT ![t] = "idle"]
    /\ ptr' = [ptr EXCEPT ![t] = NoItem]
    /\ UNCHANGED <<item, unused, deleted, key>>

\* The end of destroyElement: delete, erase, and one waitForEmptyMap is told
\* when that was the last entry.
Erase(t, k, i) ==
    /\ deleted' = deleted \cup {i}
    /\ item' = [item EXCEPT ![k] = NoEntry]
    /\ numReaders' = [numReaders EXCEPT ![k] = 0]
    /\ ptr' = [ptr EXCEPT ![t] = NoItem]
    /\ \/ /\ \A j \in Keys \ {k} : item[j] = NoEntry
          /\ \E u \in Threads :
               /\ tpc[u] = "emptyWait"
               /\ tpc' = [tpc EXCEPT ![t] = "idle", ![u] = "emptyWoken"]
       \/ /\ \/ \E j \in Keys \ {k} : item[j] # NoEntry
             \/ \A u \in Threads : tpc[u] # "emptyWait"
          /\ tpc' = [tpc EXCEPT ![t] = "idle"]

destroyElement_NoWait(t, k) ==
    /\ tpc[t] = "idle"
    /\ item[k] \in Items
    /\ key' = [key EXCEPT ![t] = k]
    /\ Erase(t, k, item[k])
    /\ UNCHANGED unused

\* destroyElement up to its return or its first sleep.  A second destroyer finds
\* no item and returns false.
destroyElement(t, k) ==
    /\ tpc[t] = "idle"
    /\ item[k] \in Items
    /\ key' = [key EXCEPT ![t] = k]
    /\ \/ numReaders[k] = 0 /\ Erase(t, k, item[k])
       \/ /\ numReaders[k] # 0
          /\ item' = [item EXCEPT ![k] = NoItem]
          /\ ptr' = [ptr EXCEPT ![t] = item[k]]
          /\ tpc' = [tpc EXCEPT ![t] = "draining"]
          /\ UNCHANGED <<numReaders, deleted>>
    /\ UNCHANGED unused

\* The loop of destroyElement after a wake-up.
WokenDestroy(t) ==
    /\ tpc[t] = "drained"
    /\ \/ numReaders[key[t]] = 0 /\ Erase(t, key[t], ptr[t])
       \/ /\ numReaders[key[t]] # 0
          /\ tpc' = [tpc EXCEPT ![t] = "draining"]
          /\ UNCHANGED <<item, numReaders, deleted, ptr>>
    /\ UNCHANGED <<unused, key>>

\* waitForEmptyMap: sleep while there are entries.
waitForEmptyMap(t) ==
    /\ tpc[t] = "idle"
    /\ \E k \in Keys : item[k] # NoEntry
    /\ tpc' = [tpc EXCEPT ![t] = "emptyWait"]
    /\ UNCHANGED <<item, numReaders, unused, deleted, key, ptr>>

WokenEmpty(t) ==
    /\ tpc[t] = "emptyWoken"
    /\ tpc' = [tpc EXCEPT ![t] =
                 IF \A k \in Keys : item[k] = NoEntry THEN "idle" ELSE "emptyWait"]
    /\ UNCHANGED <<item, numReaders, unused, deleted, key, ptr>>

\* A sleeping thread wakes without a notification.
Spurious(t) ==
    /\ tpc[t] \in {"draining", "emptyWait"}
    /\ tpc' = [tpc EXCEPT ![t] = IF @ = "draining" THEN "drained" ELSE "emptyWoken"]
    /\ UNCHANGED <<item, numReaders, unused, deleted, key, ptr>>

Next ==
    \E t \in Threads :
        \/ \E k \in Keys : \/ \E i \in Items : addElement(t, k, i)
                           \/ openElement(t, k)
                           \/ destroyElement(t, k)
        \/ releaseElement(t) \/ WokenDestroy(t)
        \/ waitForEmptyMap(t) \/ WokenEmpty(t) \/ Spurious(t)

Spec == Init /\ [][Next]_vars

\* A thread that is awake keeps running, and a reader releases what it opened.
Fairness ==
    \A t \in Threads : /\ WF_vars(releaseElement(t))
                       /\ WF_vars(WokenDestroy(t))
                       /\ WF_vars(WokenEmpty(t))

FairSpec == Spec /\ Fairness

-----------------------------------------------------------------------------
(* Properties *)

Reading(k) == {t \in Threads : tpc[t] = "reading" /\ key[t] = k}
Draining(t) == tpc[t] \in {"draining", "drained"}

\* numReaders is the number of threads that opened the element and have not
\* released it, across every interleaving of openElement, releaseElement and
\* destroyElement.
CountExact == \A k \in Keys : numReaders[k] = Cardinality(Reading(k))

\* A reader's pointer stays valid: its item is not deleted, the entry it will
\* release is still that item's entry (openly, or held by the one destroyer that
\* waits for it), and its count is not zero, so releaseElement neither throws nor
\* returns false.
PointerValid ==
    \A t \in Threads : tpc[t] = "reading" =>
        /\ ptr[t] \in Items \ deleted
        /\ numReaders[key[t]] > 0
        /\ \/ item[key[t]] = ptr[t]
           \/ /\ item[key[t]] = NoItem
              /\ \E d \in Threads : Draining(d) /\ key[d] = key[t] /\ ptr[d] = ptr[t]

\* A destroyer that sleeps in destroyElement returns once the readers have
\* released, whoever else uses the map.
DestroyReturns == \A t \in Threads : Draining(t) ~> tpc[t] = "idle"

\* The map implements the promise of ElementLifetime: an item's phase is where
\* it sits and its users are the readers that point to it.
phaseBar == [i \in Items |->
    IF i \in unused THEN "new"
    ELSE IF i \in deleted THEN "freed"
    ELSE IF \E k \in Keys : item[k] = i THEN "live" ELSE "closing"]
usersBar == [i \in Items |-> {t \in Threads : tpc[t] = "reading" /\ ptr[t] = i}]

Life == INSTANCE ElementLifetime WITH phase <- phaseBar, users <- usersBar
Lifetime == Life!LifeSpec

=============================================================================
