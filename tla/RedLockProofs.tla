--------------------------- MODULE RedLockProofs ---------------------------
(***************************************************************************)
(* Proofs about CRedLock for any number of calls, threads and masters, any *)
(* time-to-live, and any pattern of losses, crashes and delays.            *)
(***************************************************************************)
EXTENDS RedLock, FiniteSetTheorems, TLAPS

USE RedLockAssumption DEF RedLockAssumption

\* Two majorities of the masters have one in common.
LEMMA QuorumsMeet ==
    ASSUME NEW A \in SUBSET Instances, NEW B \in SUBSET Instances,
           Cardinality(A) >= Quorum, Cardinality(B) >= Quorum
    PROVE  \E i \in Instances : i \in A /\ i \in B
<1>1. IsFiniteSet(Instances) /\ Cardinality(Instances) = N
  BY FS_Interval DEF Instances
<1>2. Cardinality(A) \in Int /\ Cardinality(B) \in Int
  BY <1>1, FS_Subset, FS_CardinalityType
<1>3. 2 * Quorum > N /\ Quorum \in Int
  BY DEF Quorum
<1>4. A \cap B # {}
  BY <1>1, <1>2, <1>3, FS_MajoritiesIntersect
<1> QED
  BY <1>4

\* The remainder of a division by a positive number.
LEMMA Remainder ==
    ASSUME NEW x \in Int, NEW m \in Int, m > 0 PROVE x % m \in Int
OBVIOUS

\* m_validityTime is an integer.
LEMMA ValidityType ==
    ASSUME TypeOK, NEW c \in Calls PROVE Validity(c) \in Int
<1>1. \A x \in Int : Wrapped(x) \in Int
  BY Remainder DEF Wrapped
<1>2. \A x \in Int : Millis(x) \in Int
  BY <1>1, Remainder DEF Millis
<1>3. now \in Int /\ begun[c] \in Int
  BY DEF TypeOK
<1> QED
  BY <1>1, <1>2, <1>3 DEF Validity

\* A step preserves the types.
LEMMA TypeStep == ASSUME TypeOK, [Next]_vars PROVE TypeOK'
<1> USE DEF TypeOK, States, Over, Instances, NoKey, Attempt, Proceed
<1>1. CASE UNCHANGED vars
  BY <1>1 DEF vars
<1>2. ASSUME NEW c \in Calls, Step(c) PROVE TypeOK'
  <2>0. ThreadOf[c] \in Threads
    OBVIOUS
  <2>1. CASE Lock(c)
    BY <2>0, <2>1 DEF Lock
  <2>2. CASE LockInstance(c)
    <3>1. /\ at[c] \in Instances /\ at' = [at EXCEPT ![c] = @ + 1]
          /\ UNCHANGED <<now, pc, begun, tries, valid, last>>
      BY <2>2 DEF LockInstance
    <3>2. at' \in [Calls -> 1 .. N + 1]
      BY <3>1
    <3>3. [val |-> c, exp |-> now + TTL] \in [val : Calls \cup {NoOwner}, exp : Int]
      OBVIOUS
    <3>4. key' \in [Instances -> [val : Calls \cup {NoOwner}, exp : Int]]
      BY <2>2, <3>3 DEF LockInstance
    <3>5. acks' \in [Calls -> SUBSET Instances]
      <4>1. acks[c] \cup {at[c]} \in SUBSET Instances
        BY <3>1
      <4>2. \/ acks' = acks
            \/ acks' = [acks EXCEPT ![c] = acks[c] \cup {at[c]}]
        BY <2>2 DEF LockInstance
      <4> QED
        BY <4>1, <4>2
    <3> QED
      BY <3>1, <3>2, <3>4, <3>5
  <2>3. CASE Decide(c)
    <3>1. Validity(c) \in Int
      BY ValidityType
    <3>2. last' \in [Threads -> Calls \cup {NoOwner}]
      BY <2>0, <2>3 DEF Decide
    <3>3. UNCHANGED <<now, key, tries>>
      BY <2>3 DEF Decide
    <3>4. CASE Proceed(c, "undo")
      BY <3>2, <3>3, <3>4
    <3>5. CASE ~Proceed(c, "undo")
      <4>1. /\ pc' = [pc EXCEPT ![c] = "held"]
            /\ valid' = [valid EXCEPT ![c] = Validity(c)]
            /\ UNCHANGED <<at, acks, begun>>
        BY <2>3, <3>5 DEF Decide
      <4> QED
        BY <3>1, <3>2, <3>3, <4>1
    <3> QED
      BY <3>4, <3>5
  <2>4. CASE UnlockInstance(c)
    <3>1. /\ at[c] \in Instances /\ at' = [at EXCEPT ![c] = @ + 1]
          /\ UNCHANGED <<now, pc, acks, begun, tries, valid, last>>
      BY <2>4 DEF UnlockInstance
    <3>2. at' \in [Calls -> 1 .. N + 1]
      BY <3>1
    <3>3. NoKey \in [val : Calls \cup {NoOwner}, exp : Int]
      OBVIOUS
    <3>4. key' \in [Instances -> [val : Calls \cup {NoOwner}, exp : Int]]
      BY <2>4, <3>3 DEF UnlockInstance
    <3> QED
      BY <3>1, <3>2, <3>4
  <2>5. CASE Retry(c)
    <3>1. tries' \in [Calls -> Int] /\ UNCHANGED <<now, key, last>>
      BY <2>5 DEF Retry
    <3>2. CASE Attempt(c) /\ UNCHANGED valid
      BY <3>1, <3>2
    <3>3. CASE Proceed(c, "failed")
      BY <3>1, <3>3
    <3> QED
      BY <2>5, <3>2, <3>3 DEF Retry
  <2>6. CASE Leave(c)
    BY <2>6 DEF Leave
  <2>7. CASE Unlocked(c)
    BY <2>7 DEF Unlocked
  <2> QED
    BY <1>2, <2>1, <2>2, <2>3, <2>4, <2>5, <2>6, <2>7 DEF Step
<1>3. ASSUME NEW t \in Threads, Crash(t) PROVE TypeOK'
  BY <1>3 DEF Crash
<1>4. CASE Tick
  BY <1>4 DEF Tick
<1> QED
  BY <1>1, <1>2, <1>3, <1>4 DEF Next

\* A step keeps each thread's memory of its own values and its single guard.
LEMMA GuardStep ==
    ASSUME TypeOK, LastIsOwn, OneGuard, [Next]_vars
    PROVE  LastIsOwn' /\ OneGuard'
<1>1. CASE UNCHANGED vars
  BY <1>1 DEF vars, LastIsOwn, OneGuard
<1>2. ASSUME NEW c \in Calls, Step(c) PROVE LastIsOwn' /\ OneGuard'
  <2>1. last' \in {last, [last EXCEPT ![ThreadOf[c]] = c]}
    BY <1>2 DEF Step, Lock, LockInstance, Decide, UnlockInstance, Retry, Leave,
       Unlocked
  <2>2. LastIsOwn'
    BY <2>1 DEF LastIsOwn, TypeOK
  <2>3. \A d \in Calls \ {c} : pc'[d] = pc[d]
    BY <1>2 DEF Step, Lock, LockInstance, Decide, UnlockInstance, Retry, Leave,
       Unlocked, Attempt, Proceed, TypeOK
  <2>4. CASE Lock(c)
    BY <2>2, <2>3, <2>4 DEF Lock, OneGuard
  <2>5. CASE ~Lock(c)
    <3>1. pc[c] \notin Over
      BY <1>2, <2>5 DEF Step, LockInstance, Decide, UnlockInstance, Retry,
         Leave, Unlocked, Over
    <3> QED
      BY <2>2, <2>3, <3>1 DEF OneGuard
  <2> QED
    BY <2>2, <2>4, <2>5
<1>3. ASSUME NEW t \in Threads, Crash(t) PROVE LastIsOwn' /\ OneGuard'
  BY <1>3 DEF Crash, Proceed, LastIsOwn, OneGuard, TypeOK, Over
<1>4. CASE Tick
  BY <1>4 DEF Tick, LastIsOwn, OneGuard
<1> QED
  BY <1>1, <1>2, <1>3, <1>4 DEF Next

\* What AcksHold says of one call.
Backed(c) ==
    pc[c] \in {"set", "held"} =>
        /\ begun[c] <= now
        /\ \A i \in acks[c] :
              now < begun[c] + TTL
                  => key[i].val = c /\ key[i].exp >= begun[c] + TTL
        /\ pc[c] = "set" => \A i \in acks[c] : i < at[c]
        /\ pc[c] = "held" => Cardinality(acks[c]) >= Quorum

\* AcksHold speaks of each call by itself.
LEMMA AcksHoldEach == AcksHold <=> \A c \in Calls : Backed(c)
BY DEF AcksHold, Backed

\* The steps of a call keep its own keys ...
LEMMA BackedOwn ==
    ASSUME RedLockInv, NEW c \in Calls, Step(c) PROVE Backed(c)'
<1> USE DEF RedLockInv, TypeOK, Instances
<1>0. Backed(c)
  BY AcksHoldEach
<1>1. CASE Lock(c)
  BY <1>1 DEF Lock, Attempt, Backed
<1>2. CASE LockInstance(c)
  <2>1. /\ pc[c] = "set" /\ pc' = pc /\ begun' = begun /\ now' = now
        /\ at[c] \in Instances /\ at'[c] = at[c] + 1
    BY <1>2 DEF LockInstance
  <2>2. CASE UNCHANGED <<key, acks>>
    BY <1>0, <2>1, <2>2 DEF Backed
  <2>3. CASE /\ key' = [key EXCEPT ![at[c]] = [val |-> c, exp |-> now + TTL]]
             /\ \/ acks' = [acks EXCEPT ![c] = @ \cup {at[c]}]
                \/ UNCHANGED acks
    <3>1. /\ key'[at[c]].val = c /\ key'[at[c]].exp = now + TTL
          /\ \A i \in Instances \ {at[c]} : key'[i] = key[i]
      BY <2>1, <2>3
    <3>2. \A i \in acks'[c] : i \in acks[c] \/ i = at[c]
      BY <2>3
    <3>3. acks[c] \subseteq Instances /\ \A i \in acks[c] : i < at[c]
      BY <1>0, <2>1 DEF Backed
    <3>4. /\ begun[c] <= now /\ begun[c] \in Int /\ now \in Int /\ TTL \in Int
          /\ at[c] \in Int
      BY <1>0, <2>1 DEF Backed
    <3>5. ASSUME NEW i \in acks'[c], now < begun[c] + TTL
          PROVE  key'[i].val = c /\ key'[i].exp >= begun[c] + TTL
      <4>1. CASE i = at[c]
        BY <3>1, <3>4, <4>1
      <4>2. CASE i \in acks[c]
        <5>1. i \in Instances \ {at[c]}
          BY <3>3, <3>4, <4>2
        <5>2. key[i].val = c /\ key[i].exp >= begun[c] + TTL
          BY <1>0, <2>1, <3>5, <4>2 DEF Backed
        <5> QED
          BY <3>1, <5>1, <5>2
      <4> QED
        BY <3>2, <4>1, <4>2
    <3>6. ASSUME NEW i \in acks'[c] PROVE i < at'[c]
      <4>1. i = at[c] \/ (i \in Int /\ i < at[c])
        BY <3>2, <3>3
      <4> QED
        BY <2>1, <3>4, <4>1
    <3>7. pc'[c] = "set" /\ begun'[c] = begun[c] /\ now' = now
      BY <2>1
    <3> QED
      BY <3>4, <3>5, <3>6, <3>7 DEF Backed
  <2> QED
    BY <1>2, <2>2, <2>3 DEF LockInstance
<1>3. CASE Decide(c)
  <2>1. CASE pc'[c] = "held"
    BY <1>0, <1>3, <2>1 DEF Decide, Proceed, Backed
  <2>2. CASE pc'[c] # "held"
    BY <1>3, <2>2 DEF Decide, Proceed, Backed
  <2> QED
    BY <2>1, <2>2
<1>4. CASE UnlockInstance(c)
  BY <1>4 DEF UnlockInstance, Backed
<1>5. CASE Retry(c)
  BY <1>5 DEF Retry, Attempt, Proceed, Backed
<1>6. CASE Leave(c)
  BY <1>6 DEF Leave, Proceed, Backed
<1>7. CASE Unlocked(c)
  BY <1>7 DEF Unlocked, Proceed, Backed
<1> QED
  BY <1>1, <1>2, <1>3, <1>4, <1>5, <1>6, <1>7 DEF Step

\* ... and those of another call never take one of them.
LEMMA BackedOther ==
    ASSUME RedLockInv, NEW c \in Calls, NEW d \in Calls, c # d, Step(d)
    PROVE  Backed(c)'
<1> USE DEF RedLockInv, TypeOK, Instances
<1>0. Backed(c)
  BY AcksHoldEach
<1>1. /\ pc'[c] = pc[c] /\ at'[c] = at[c] /\ acks'[c] = acks[c]
      /\ begun'[c] = begun[c] /\ now' = now
  BY DEF Step, Lock, LockInstance, Decide, UnlockInstance, Retry, Leave,
     Unlocked, Attempt, Proceed
<1>2. CASE pc[c] \notin {"set", "held"}
  BY <1>1, <1>2 DEF Backed
<1>3. CASE pc[c] \in {"set", "held"}
  <2>1. \A i \in Instances : key[i].val = c => key'[i] = key[i]
    <3>1. CASE LockInstance(d)
      <4>1. key[at[d]].val = c => ~Settable(d, at[d])
        <5>1. pc[d] \notin Over /\ pc[c] \notin Over
          BY <1>3, <3>1 DEF LockInstance, Over
        <5>2. ThreadOf[d] # ThreadOf[c]
          BY <5>1 DEF OneGuard
        <5> QED
          BY <5>2 DEF Settable, LastIsOwn
      <4> QED
        BY <3>1, <4>1 DEF LockInstance
    <3>2. CASE UnlockInstance(d)
      BY <3>2 DEF UnlockInstance
    <3>3. CASE ~LockInstance(d) /\ ~UnlockInstance(d)
      BY <3>3 DEF Step, Lock, Decide, Retry, Leave, Unlocked
    <3> QED
      BY <3>1, <3>2, <3>3
  <2>2. acks[c] \subseteq Instances
    OBVIOUS
  <2> QED
    BY <1>0, <1>1, <2>1, <2>2 DEF Backed
<1> QED
  BY <1>2, <1>3

\* RedLockInv is inductive.
LEMMA InvStep == ASSUME RedLockInv, [Next]_vars PROVE RedLockInv'
<1>1. TypeOK' /\ LastIsOwn' /\ OneGuard'
  BY TypeStep, GuardStep DEF RedLockInv
<1>2. \A c \in Calls : Backed(c)
  BY AcksHoldEach DEF RedLockInv
<1>3. \A c \in Calls : Backed(c)'
  <2>1. CASE UNCHANGED vars
    BY <1>2, <2>1 DEF vars, Backed
  <2>2. ASSUME NEW d \in Calls, Step(d) PROVE \A c \in Calls : Backed(c)'
    BY <2>2, BackedOwn, BackedOther
  <2>3. ASSUME NEW t \in Threads, Crash(t) PROVE \A c \in Calls : Backed(c)'
    BY <1>2, <2>3 DEF Crash, Proceed, Backed, RedLockInv, TypeOK
  <2>4. CASE Tick
    <3> SUFFICES ASSUME NEW c \in Calls, pc[c] \in {"set", "held"} PROVE Backed(c)'
      BY <2>4 DEF Tick, Backed
    <3>1. /\ UNCHANGED <<pc, at, acks, begun>> /\ now' = now + 1 /\ now \in Int
          /\ begun[c] \in Int /\ acks[c] \subseteq Instances
      BY <2>4 DEF Tick, RedLockInv, TypeOK
    <3>2. ASSUME NEW i \in acks[c], now + 1 < begun[c] + TTL
          PROVE  key'[i] = key[i]
      <4>1. i \in Instances /\ key[i].exp \in Int
        BY <3>1 DEF RedLockInv, TypeOK
      <4>2. key[i].exp >= begun[c] + TTL
        BY <1>2, <3>1, <3>2 DEF Backed
      <4> QED
        BY <2>4, <3>1, <3>2, <4>1, <4>2 DEF Tick
    <3> QED
      BY <1>2, <3>1, <3>2 DEF Backed
  <2> QED
    BY <2>1, <2>2, <2>3, <2>4 DEF Next
<1>4. AcksHold'
  BY <1>3 DEF AcksHold, Backed
<1> QED
  BY <1>1, <1>4 DEF RedLockInv

\* The inductive invariant holds in every state.
LEMMA RedLockInvariant == Spec => []RedLockInv
<1>1. Init => RedLockInv
  BY DEF Init, RedLockInv, TypeOK, LastIsOwn, OneGuard, AcksHold, States, Over,
         Instances, NoKey
<1>2. RedLockInv /\ [Next]_vars => RedLockInv'
  BY InvStep
<1> QED
  BY <1>1, <1>2, PTL DEF Spec

\* Every variable of the lock keeps its type, whatever is lost, retried, expired or crashed.
THEOREM LockTypeCorrect == Spec => []TypeOK
BY RedLockInvariant, PTL DEF RedLockInv

\* Two leases that are still running need a common master.
LEMMA InvExclusive == RedLockInv => Exclusive
<1> SUFFICES ASSUME RedLockInv, NEW c \in Calls, NEW d \in Calls,
                    Leased(c), Leased(d)
             PROVE  c = d
  BY DEF Exclusive
<1>1. /\ acks[c] \in SUBSET Instances /\ acks[d] \in SUBSET Instances
      /\ Cardinality(acks[c]) >= Quorum /\ Cardinality(acks[d]) >= Quorum
  BY DEF RedLockInv, TypeOK, AcksHold, Leased
<1>2. PICK i \in Instances : i \in acks[c] /\ i \in acks[d]
  BY <1>1, QuorumsMeet
<1>3. key[i].val = c /\ key[i].val = d
  BY <1>2 DEF RedLockInv, AcksHold, Leased
<1> QED
  BY <1>3

\* For every number of masters, calls and threads: no two guarded sections run
\* under leases that have not ended.
THEOREM LeaseExclusive == Spec => []Exclusive
BY RedLockInvariant, InvExclusive, PTL

\* At most one lease runs, so Holder is the call that has it.
LEMMA HolderIs ==
    ASSUME Exclusive, NEW c \in Calls, Leased(c) PROVE Holder = c
BY DEF Exclusive, Holder

\* Without a lease there is no holder.
LEMMA HolderNone ==
    ASSUME \A c \in Calls : ~Leased(c) PROVE Holder = NoOwner
BY DEF Holder

\* One step changes the holder from nobody to a call or from a call to nobody.
LEMMA HolderStep ==
    ASSUME RedLockInv, RedLockInv', [Next]_vars
    PROVE  \/ Holder' = Holder
           \/ Holder = NoOwner /\ Holder' \in Calls
           \/ Holder # NoOwner /\ Holder' = NoOwner
<1>0. Exclusive /\ Exclusive'
  <2>1. RedLockInv' => Exclusive'
    BY InvExclusive, PTL
  <2> QED
    BY <2>1, InvExclusive
<1>1. ASSUME NEW c \in Calls, NEW d \in Calls, Leased(c), Leased(d)' PROVE c = d
  <2>1. Leased(c)' \/ Leased(d)
    <3>1. CASE UNCHANGED vars
      BY <1>1, <3>1 DEF vars, Leased
    <3>2. ASSUME NEW e \in Calls, Step(e) PROVE Leased(c)' \/ Leased(d)
      <4>1. now' = now /\ \A x \in Calls \ {e} : pc'[x] = pc[x] /\ begun'[x] = begun[x]
        BY <3>2 DEF Step, Lock, LockInstance, Decide, UnlockInstance, Retry,
           Leave, Unlocked, Attempt, Proceed, RedLockInv, TypeOK
      <4>2. CASE e # c
        BY <1>1, <4>1, <4>2 DEF Leased
      <4>3. CASE e # d
        BY <1>1, <4>1, <4>3 DEF Leased
      <4>4. CASE e = c /\ e = d
        BY <1>1, <4>4
      <4> QED
        BY <4>2, <4>3, <4>4
    <3>3. ASSUME NEW t \in Threads, Crash(t) PROVE Leased(d)
      BY <1>1, <3>3 DEF Crash, Proceed, Leased, RedLockInv, TypeOK
    <3>4. CASE Tick
      BY <1>1, <3>4 DEF Tick, Leased, RedLockInv, TypeOK
    <3> QED
      BY <3>1, <3>2, <3>3, <3>4 DEF Next
  <2> QED
    BY <1>0, <1>1, <2>1 DEF Exclusive
<1>2. CASE \A c \in Calls : ~Leased(c)
  <2>1. Holder = NoOwner
    BY <1>2, HolderNone
  <2>2. Holder' = NoOwner \/ Holder' \in Calls
    BY DEF Holder
  <2> QED
    BY <2>1, <2>2
<1>3. ASSUME NEW c \in Calls, Leased(c)
      PROVE  Holder = c /\ Holder' \in {c, NoOwner}
  <2>1. Holder = c
    BY <1>0, <1>3, HolderIs
  <2>2. Holder' \in {c, NoOwner}
    BY <1>1, <1>3 DEF Holder
  <2> QED
    BY <2>1, <2>2
<1> QED
  BY <1>2, <1>3

\* The lock on N masters implements the abstract lock, for every N.
THEOREM RedLockRefinesLease == Spec => IsLeaseLock
<1>1. Init => Lease!Init
  BY DEF Init, Lease!Init, Holder, Leased
<1>2. RedLockInv /\ RedLockInv' /\ [Next]_vars
        => [Lease!Next]_([k \in {"resource"} |-> Holder])
  <2> SUFFICES ASSUME RedLockInv, RedLockInv', [Next]_vars
               PROVE  [Lease!Next]_([k \in {"resource"} |-> Holder])
    OBVIOUS
  <2>1. CASE Holder' = Holder
    BY <2>1
  <2>2. CASE Holder = NoOwner /\ Holder' \in Calls
    <3>1. Lease!Acquire("resource", Holder')
      BY <2>2 DEF Lease!Acquire
    <3> QED
      BY <2>2, <3>1 DEF Lease!Next
  <2>3. CASE Holder # NoOwner /\ Holder' = NoOwner
    <3>1. Lease!Free("resource")
      BY <2>3 DEF Lease!Free
    <3> QED
      BY <3>1 DEF Lease!Next
  <2> QED
    BY <2>1, <2>2, <2>3, HolderStep
<1> QED
  BY <1>1, <1>2, RedLockInvariant, PTL DEF Spec, IsLeaseLock, Lease!Spec

-----------------------------------------------------------------------------
(* The arithmetic of m_validityTime. *)

\* A multiple of m that is smaller than m is 0.
LEMMA SmallMultiple ==
    ASSUME NEW m \in Nat \ {0}, NEW z \in Int, -m < m * z, m * z < m PROVE z = 0
<1>1. CASE z > 0
  <2>1. PICK y \in Nat : z = y + 1
    <3>1. z - 1 \in Nat /\ z = (z - 1) + 1
      BY <1>1
    <3> QED
      BY <3>1
  <2>2. m * (y + 1) = m * y + m /\ m * y \in Nat
    OBVIOUS
  <2> QED
    BY <2>1, <2>2
<1>2. CASE z < 0
  <2>1. PICK y \in Nat : z = -(y + 1)
    <3>1. -z - 1 \in Nat /\ z = -((-z - 1) + 1)
      BY <1>2
    <3> QED
      BY <3>1
  <2>2. m * (-(y + 1)) = -(m * y) - m /\ m * y \in Nat
    OBVIOUS
  <2> QED
    BY <2>1, <2>2
<1> QED
  BY <1>1, <1>2

\* Adding multiples of m does not change the remainder.
LEMMA ShiftedRemainder ==
    ASSUME NEW m \in Nat \ {0}, NEW e \in 0 .. m - 1, NEW k \in Int PROVE (e - m * k) % m = e
<1>1. PICK y \in Int : y = e - m * k
  <2>1. m * k \in Int
    OBVIOUS
  <2> QED
    BY <2>1
<1>2. PICK q \in Int, r \in 0 .. m - 1 : q = y \div m /\ r = y % m /\ y = m * q + r
  OBVIOUS
<1>3. m * (k + q) = m * k + m * q /\ m * k \in Int /\ m * q \in Int
  OBVIOUS
<1>4. m * (k + q) = e - r
  BY <1>1, <1>2, <1>3
<1>5. k + q = 0
  BY <1>4, SmallMultiple
<1>6. m * (k + q) = 0
  BY <1>5
<1> QED
  BY <1>1, <1>2, <1>4, <1>6

\* A time without its fraction of a second is a number of seconds.
LEMMA WholeSeconds ==
    ASSUME NEW t \in Int PROVE \E q \in Int : t - (t % Second) = Second * q
<1>1. PICK q \in Int, r \in Int : q = t \div Second /\ r = t % Second /\ t = Second * q + r
  OBVIOUS
<1>2. PICK p \in Int : p = Second * q
  OBVIOUS
<1>3. t - r = p
  BY <1>1, <1>2
<1>4. t - (t % Second) = Second * q
  BY <1>1, <1>2, <1>3
<1> QED
  BY <1>4

\* The difference of two wrapped times is the difference of the times, if an int can hold that.
LEMMA WrappedDifference ==
    ASSUME NEW a \in Int, NEW b \in Int, -IntMax <= a - b, a - b < IntMax
    PROVE  Wrapped(Wrapped(a) - Wrapped(b)) = a - b
<1>1. PICK m \in Nat \ {0} : m = 2 * IntMax
  OBVIOUS
<1>2. PICK j \in Int : Wrapped(a) = a - m * j
  <2>1. PICK q \in Int, r \in Int : q = (a + IntMax) \div m /\ r = (a + IntMax) % m /\ a + IntMax = m * q + r
    OBVIOUS
  <2>2. Wrapped(a) = a - m * q
    BY <1>1, <2>1 DEF Wrapped
  <2> QED
    BY <2>2
<1>3. PICK k \in Int : Wrapped(b) = b - m * k
  <2>1. PICK q \in Int, r \in Int : q = (b + IntMax) \div m /\ r = (b + IntMax) % m /\ b + IntMax = m * q + r
    OBVIOUS
  <2>2. Wrapped(b) = b - m * q
    BY <1>1, <2>1 DEF Wrapped
  <2> QED
    BY <2>2
<1>4. m * (j - k) = m * j - m * k /\ m * j \in Int /\ m * k \in Int
  OBVIOUS
<1>5. PICK e \in 0 .. m - 1 : e = a - b + IntMax
  BY <1>1
<1>6. (Wrapped(a) - Wrapped(b)) + IntMax = e - m * (j - k)
  BY <1>2, <1>3, <1>4, <1>5
<1>7. ((Wrapped(a) - Wrapped(b)) + IntMax) % m = e
  <2>1. j - k \in Int
    OBVIOUS
  <2> QED
    BY <1>6, <2>1, ShiftedRemainder
<1> QED
  BY <1>1, <1>5, <1>7 DEF Wrapped

\* No attempt takes as long as an int of milliseconds can count (more than 24 days).
AttemptsAreShort ==
    \A c \in Calls : pc[c] = "set" => now - begun[c] + Second < IntMax

\* What the elapsed whole seconds tell of the time: whatever fraction of a second the attempt began and ends in.
LEMMA ElapsedSeconds ==
    ASSUME TypeOK, NEW c \in Calls, begun[c] <= now, now - begun[c] + Second < IntMax
    PROVE  \E x, y \in 0 .. Second - 1 :
              /\ x = now % Second /\ y = begun[c] % Second
              /\ Validity(c) = TTL - ((now - x) - (begun[c] - y)) - Drift
<1>1. PICK n \in Int, b \in Int : n = now /\ b = begun[c]
  BY DEF TypeOK
<1>2. PICK x \in 0 .. Second - 1, y \in 0 .. Second - 1 : x = n % Second /\ y = b % Second
  OBVIOUS
<1>3. PICK u \in Int, v \in Int : u = n - x /\ v = b - y
  OBVIOUS
<1>4. -IntMax <= u - v /\ u - v < IntMax
  BY <1>1, <1>2, <1>3
<1>5. Wrapped(Wrapped(u) - Wrapped(v)) = u - v
  BY <1>4, WrappedDifference
<1>6. Millis(now) = Wrapped(u) /\ Millis(begun[c]) = Wrapped(v)
  BY <1>1, <1>2, <1>3 DEF Millis
<1>7. Validity(c) = TTL - (u - v) - Drift
  BY <1>5, <1>6 DEF Validity
<1> QED
  BY <1>1, <1>2, <1>3, <1>7

\* For a time-to-live of whole seconds, as the default is, and as long as no attempt outlasts the int it is measured
\* with: Lock answers true only while its lease runs, and m_validityTime promises less than a second too much.  The
\* wrap of (int)time(NULL) * 1000 between the two readings does no harm (redlock.cpp, Lock and ContinueLock).
THEOREM GrantsAreSafe ==
    ASSUME TTL % Second = 0
    PROVE  Spec /\ []AttemptsAreShort => GrantSafe
<1> DEFINE Safe(c) == /\ now < begun[c] + TTL
                      /\ now + valid'[c] < begun[c] + TTL + Second
<1>1. ASSUME RedLockInv, AttemptsAreShort, [Next]_vars, NEW c \in Calls, pc[c] # "held", pc'[c] = "held"
      PROVE  Safe(c)
  <2>1. TypeOK /\ (pc[c] = "set" => begun[c] <= now)
    BY <1>1 DEF RedLockInv, AcksHold
  <2>2. Decide(c)
    <3>1. pc \in [Calls -> States]
      BY <2>1 DEF TypeOK
    <3>2. ~UNCHANGED vars /\ ~Tick
      BY <1>1 DEF vars, Tick
    <3>3. \A t \in Threads : ~Crash(t)
      BY <1>1, <3>1 DEF Crash, Proceed
    <3>4. ASSUME NEW d \in Calls, Step(d) PROVE d = c /\ Decide(c)
      BY <1>1, <3>1, <3>4 DEF Step, Lock, LockInstance, Decide, UnlockInstance, Retry, Leave, Unlocked, Attempt, Proceed
    <3> QED
      BY <1>1, <3>2, <3>3, <3>4 DEF Next
  <2>3. pc[c] = "set" /\ Validity(c) > 0 /\ valid'[c] = Validity(c)
    BY <1>1, <2>1, <2>2 DEF Decide, Proceed, TypeOK
  <2>4. begun[c] <= now /\ now - begun[c] + Second < IntMax
    BY <1>1, <2>1, <2>3 DEF AttemptsAreShort
  <2>5. PICK x, y \in 0 .. Second - 1 :
            /\ x = now % Second /\ y = begun[c] % Second
            /\ Validity(c) = TTL - ((now - x) - (begun[c] - y)) - Drift
    BY <2>1, <2>4, ElapsedSeconds
  <2>6. now \in Int /\ begun[c] \in Int
    BY <2>1 DEF TypeOK
  <2>7. now + valid'[c] < begun[c] + TTL + Second
    BY <2>3, <2>5, <2>6
  <2>8. now < begun[c] + TTL
    <3>1. PICK p \in Int : now - x = Second * p
      BY <2>5, <2>6, WholeSeconds
    <3>2. PICK q \in Int : begun[c] - y = Second * q
      BY <2>5, <2>6, WholeSeconds
    <3>3. PICK s \in Int : TTL = Second * s
      <4>0. TTL \in Int
        OBVIOUS
      <4>1. PICK s \in Int : TTL - (TTL % Second) = Second * s
        BY ONLY <4>0, WholeSeconds
      <4> QED
        BY <4>1
    <3>4. PICK d \in Int : d = s - (p - q)
      OBVIOUS
    <3>5. Second * d = Second * s - (Second * p - Second * q)
          /\ Second * s \in Int /\ Second * p \in Int /\ Second * q \in Int
      BY <3>4
    <3>6. Second * d > 0
      BY <2>3, <2>5, <3>1, <3>2, <3>3, <3>5
    <3>7. Second * d >= Second
      <4>1. d = 0 => Second * d = 0
        OBVIOUS
      <4>2. ASSUME Second * d < Second PROVE d = 0
        <5>1. -Second < Second * d
          BY <3>5, <3>6
        <5> QED
          BY <4>2, <5>1, SmallMultiple
      <4> QED
        BY <3>5, <3>6, <4>1, <4>2
    <3>8. PICK e \in Int : e = Second * d /\ e >= Second /\ e = TTL - ((now - x) - (begun[c] - y))
      BY <3>1, <3>2, <3>3, <3>5, <3>7
    <3> QED
      BY <2>5, <2>6, <3>8
  <2> QED
    BY <2>7, <2>8
<1>2. RedLockInv /\ AttemptsAreShort /\ [Next]_vars =>
        [\A c \in Calls : pc[c] # "held" /\ pc'[c] = "held" => Safe(c)]_vars
  BY <1>1
<1> QED
  BY <1>2, RedLockInvariant, PTL DEF Spec, GrantSafe
=============================================================================
