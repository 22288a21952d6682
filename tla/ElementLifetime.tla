-------------------------- MODULE ElementLifetime --------------------------
(***************************************************************************)
(* What Threads::Safe::Map promises about the items it holds: an item is   *)
(* handed out only while it is published, nobody new gets it once its      *)
(* destruction has begun, and it is deleted only when nobody uses it.      *)
(***************************************************************************)
CONSTANTS Threads, Items

VARIABLES
    phase,      \* of each item: "new", "live", "closing" or "freed"
    users       \* of each item: the threads that hold a pointer to it

lifeVars == <<phase, users>>

LifeType ==
    /\ phase \in [Items -> {"new", "live", "closing", "freed"}]
    /\ users \in [Items -> SUBSET Threads]

LifeInit ==
    /\ phase = [i \in Items |-> "new"]
    /\ users = [i \in Items |-> {}]

Publish(i) ==
    /\ phase[i] = "new"
    /\ phase' = [phase EXCEPT ![i] = "live"]
    /\ UNCHANGED users

Acquire(t, i) ==
    /\ phase[i] = "live"
    /\ users' = [users EXCEPT ![i] = @ \cup {t}]
    /\ UNCHANGED phase

Release(t, i) ==
    /\ t \in users[i]
    /\ users' = [users EXCEPT ![i] = @ \ {t}]
    /\ UNCHANGED phase

Close(i) ==
    /\ phase[i] = "live"
    /\ phase' = [phase EXCEPT ![i] = "closing"]
    /\ UNCHANGED users

\* Deleting is allowed from "live" too: closing and deleting in one step.
Free(i) ==
    /\ phase[i] \in {"live", "closing"}
    /\ users[i] = {}
    /\ phase' = [phase EXCEPT ![i] = "freed"]
    /\ UNCHANGED users

LifeNext ==
    \E i \in Items :
        \/ Publish(i) \/ Close(i) \/ Free(i)
        \/ \E t \in Threads : Acquire(t, i) \/ Release(t, i)

LifeSpec == LifeInit /\ [][LifeNext]_lifeVars

=============================================================================
