----------------------------- MODULE LeaseLock -----------------------------
(***************************************************************************)
(* What the order servers expect of the Redis locks "lock.uid:<id>.order": *)
(* a lock has at most one holder, a client gets it only while it is free,  *)
(* and it becomes free again when its holder unlocks it or its             *)
(* time-to-live runs out.  It never passes from one client straight to     *)
(* another.                                                                *)
(***************************************************************************)
CONSTANTS Keys,      \* the resources that are locked
          Clients,   \* whoever may ask for a lock
          NoOwner    \* the holder of a free lock

VARIABLE holder

Init == holder = [k \in Keys |-> NoOwner]

\* A successful CRedLock::Lock.
Acquire(k, c) ==
    /\ holder[k] = NoOwner
    /\ holder' = [holder EXCEPT ![k] = c]

\* CRedLock::Unlock by the holder, or the expiry of the key.
Free(k) ==
    /\ holder[k] # NoOwner
    /\ holder' = [holder EXCEPT ![k] = NoOwner]

Next == \E k \in Keys : Free(k) \/ \E c \in Clients : Acquire(k, c)

Spec == Init /\ [][Next]_holder
=============================================================================
