------------------------------ MODULE RedLock ------------------------------
(***************************************************************************)
(* CRedLock and CGuardLock (public/RedisClient/redlock): one resource      *)
(* locked on N independent Redis masters with SET key val PX ttl NX, taken *)
(* when a majority answers OK within the time-to-live, given back with a   *)
(* compare-and-delete script.                                              *)
(*                                                                         *)
(* A call is the life of one CGuardLock: its own random value, the attempts*)
(* of Lock or ContinueLock, the guarded section and the destructor.  Each  *)
(* step is one Redis command; commands and replies may get lost, threads   *)
(* may die, and time may pass between any two steps.  Time is counted in   *)
(* ticks, Second of which make the unit of time(NULL).                     *)
(***************************************************************************)
EXTENDS Integers, FiniteSets

CONSTANTS Calls,       \* CGuardLock objects; also the random values they use
          Threads,     \* worker threads, each with its own CRedLock
          ThreadOf,    \* the thread that makes a call
          N,           \* m_redisServer.size()
          TTL,         \* time-to-live of a key, in ticks
          Second,      \* ticks per second
          Drift,       \* ttl * m_clockDriftFactor + 2, in ticks
          IntMax,      \* an int holds -IntMax .. IntMax - 1 ticks
          StartTime,   \* the time at the start
          MaxTime,     \* bound: the last instant explored
          RetryCount,  \* m_retryCount
          Continue,    \* threads of the processes with redLockContinue_ set
          NoOwner      \* no value

ASSUME RedLockAssumption ==
    /\ ThreadOf \in [Calls -> Threads]
    /\ N \in Nat \ {0} /\ TTL \in Nat \ {0} /\ Second \in Nat \ {0}
    /\ Drift \in Nat /\ IntMax \in Nat \ {0}
    /\ StartTime \in Nat /\ MaxTime \in Nat /\ StartTime <= MaxTime
    /\ RetryCount \in Nat \ {0}
    /\ Continue \subseteq Threads
    /\ NoOwner \notin Calls

VARIABLES
    now,      \* the time
    key,      \* on each master: the value stored and when it expires
    pc,       \* where each call is
    at,       \* its loop index over the masters
    acks,     \* masters that answered OK in this attempt (n counts them)
    begun,    \* when this attempt started
    tries,    \* attempts left
    valid,    \* m_validityTime
    last      \* m_continueLock.m_val of each thread

vars == <<now, key, pc, at, acks, begun, tries, valid, last>>
-----------------------------------------------------------------------------
Instances == 1 .. N

\* m_quoRum
Quorum == N \div 2 + 1

States == {"idle", "set", "undo", "held", "unlock", "done", "failed"}
Over   == {"idle", "done", "failed"}

\* A key that does not exist.
NoKey == [val |-> NoOwner, exp |-> 0]

\* (int)time(NULL) * 1000: whole seconds only, in an int that wraps around.
Wrapped(x) == ((x + IntMax) % (2 * IntMax)) - IntMax
Millis(t)  == Wrapped(t - (t % Second))

\* Mutant: the time the attempt took is not subtracted.
ValidityFull(c) == TTL - Drift

\* ttl - ((int)time(NULL) * 1000 - startTime) - drift
Validity(c) == TTL - Wrapped(Millis(now) - Millis(begun[c])) - Drift

\* CGuardLock(..., acquired = redLockContinue_)
Continues(c) == ThreadOf[c] \in Continue

\* Whether SET NX succeeds on master i.  The script of ContinueLock first
\* deletes the key if it holds the value of the thread's last call.
Settable(c, i) ==
    \/ key[i].val = NoOwner
    \/ Continues(c) /\ key[i].val = last[ThreadOf[c]]
-----------------------------------------------------------------------------
Init ==
    /\ now = StartTime
    /\ key = [i \in Instances |-> NoKey]
    /\ pc = [c \in Calls |-> "idle"]
    /\ at = [c \in Calls |-> 1]
    /\ acks = [c \in Calls |-> {}]
    /\ begun = [c \in Calls |-> 0]
    /\ tries = [c \in Calls |-> RetryCount]
    /\ valid = [c \in Calls |-> 0]
    /\ last = [t \in Threads |-> NoOwner]

\* An attempt starts: n = 0, startTime is read, i = 0.
Attempt(c) ==
    /\ pc' = [pc EXCEPT ![c] = "set"]
    /\ at' = [at EXCEPT ![c] = 1]
    /\ acks' = [acks EXCEPT ![c] = {}]
    /\ begun' = [begun EXCEPT ![c] = now]

\* The call goes on to a part that uses the results of the attempt no more.
Proceed(c, state) ==
    /\ pc' = [pc EXCEPT ![c] = state]
    /\ at' = [at EXCEPT ![c] = 1]
    /\ acks' = [acks EXCEPT ![c] = {}]
    /\ begun' = [begun EXCEPT ![c] = 0]
    /\ valid' = [valid EXCEPT ![c] = 0]

\* The constructor of CGuardLock: a fresh value, and the first attempt.  A
\* thread has one guard at a time.
Lock(c) ==
    /\ pc[c] = "idle"
    /\ \A d \in Calls : ThreadOf[d] = ThreadOf[c] => pc[d] \in Over
    /\ Attempt(c)
    /\ last' = IF Continues(c) /\ last[ThreadOf[c]] = NoOwner
                  THEN [last EXCEPT ![ThreadOf[c]] = c] ELSE last
    /\ UNCHANGED <<now, key, tries, valid>>

\* Mutant: the loop runs one master too far.
LockInstanceBeyond(c) ==
    /\ pc[c] = "set"
    /\ at[c] <= N + 1
    /\ at' = [at EXCEPT ![c] = @ + 1]
    /\ UNCHANGED <<now, key, pc, acks, begun, tries, valid, last>>

\* LockInstance or ContinueLockInstance on the next master.  The key may be
\* set although the answer is lost.
LockInstance(c) ==
    /\ pc[c] = "set"
    /\ at[c] \in Instances
    /\ \/ /\ Settable(c, at[c])
          /\ key' = [key EXCEPT ![at[c]] = [val |-> c, exp |-> now + TTL]]
          /\ \/ acks' = [acks EXCEPT ![c] = @ \cup {at[c]}]
             \/ UNCHANGED acks
       \/ UNCHANGED <<key, acks>>
    /\ at' = [at EXCEPT ![c] = @ + 1]
    /\ UNCHANGED <<now, pc, begun, tries, valid, last>>

\* After the loop: the lock is taken with a majority and time left, or what
\* was set is unlocked again.
Decide(c) ==
    /\ pc[c] = "set"
    /\ at[c] = N + 1
    /\ last' = IF Continues(c) THEN [last EXCEPT ![ThreadOf[c]] = c] ELSE last
    /\ IF Cardinality(acks[c]) >= Quorum /\ Validity(c) > 0
          THEN /\ pc' = [pc EXCEPT ![c] = "held"]
               /\ valid' = [valid EXCEPT ![c] = Validity(c)]
               /\ UNCHANGED <<at, acks, begun>>
          ELSE Proceed(c, "undo")
    /\ UNCHANGED <<now, key, tries>>

\* Mutant: the key is deleted whatever value it holds.
UnlockInstanceAny(c) ==
    /\ pc[c] \in {"undo", "unlock"}
    /\ at[c] \in Instances
    /\ key' = [key EXCEPT ![at[c]] = NoKey]
    /\ at' = [at EXCEPT ![c] = @ + 1]
    /\ UNCHANGED <<now, pc, acks, begun, tries, valid, last>>

\* UnlockInstance: delete the key if it holds our value, or do not reach it.
UnlockInstance(c) ==
    /\ pc[c] \in {"undo", "unlock"}
    /\ at[c] \in Instances
    /\ \/ /\ key[at[c]].val = c
          /\ key' = [key EXCEPT ![at[c]] = NoKey]
       \/ UNCHANGED key
    /\ at' = [at EXCEPT ![c] = @ + 1]
    /\ UNCHANGED <<now, pc, acks, begun, tries, valid, last>>

\* The random delay is over: try again, or give up.
Retry(c) ==
    /\ pc[c] = "undo"
    /\ at[c] = N + 1
    /\ tries' = [tries EXCEPT ![c] = @ - 1]
    /\ IF tries[c] > 1 THEN Attempt(c) /\ UNCHANGED valid
                       ELSE Proceed(c, "failed")
    /\ UNCHANGED <<now, key, last>>

\* Mutant: a lock that is continued goes to the thread's next call, which does
\* not ask for it.
LeaveHandsOver(c) ==
    /\ pc[c] = "held"
    /\ \E d \in Calls :
          /\ Continues(c) /\ ThreadOf[d] = ThreadOf[c] /\ pc[d] = "idle"
          /\ pc' = [pc EXCEPT ![c] = "done", ![d] = "held"]
          /\ acks' = [acks EXCEPT ![c] = {}, ![d] = acks[c]]
          /\ begun' = [begun EXCEPT ![c] = 0, ![d] = begun[c]]
          /\ valid' = [valid EXCEPT ![c] = 0, ![d] = valid[c]]
    /\ UNCHANGED <<now, key, at, tries, last>>

\* The guarded section ends.  A lock that was continued is not unlocked.
Leave(c) ==
    /\ pc[c] = "held"
    /\ Proceed(c, IF Continues(c) THEN "done" ELSE "unlock")
    /\ UNCHANGED <<now, key, tries, last>>

\* Unlock has visited every master.
Unlocked(c) ==
    /\ pc[c] = "unlock"
    /\ at[c] = N + 1
    /\ Proceed(c, "done")
    /\ UNCHANGED <<now, key, tries, last>>

\* The process of thread t dies; its keys stay until they expire.
Crash(t) ==
    /\ \E c \in Calls : /\ ThreadOf[c] = t /\ pc[c] \notin Over
                        /\ Proceed(c, "failed")
    /\ last' = [last EXCEPT ![t] = NoOwner]
    /\ UNCHANGED <<now, key, tries>>

\* Time passes and Redis drops the keys that have expired.
Tick ==
    /\ now < MaxTime
    /\ now' = now + 1
    /\ key' = [i \in Instances |-> IF key[i].exp <= now' THEN NoKey ELSE key[i]]
    /\ UNCHANGED <<pc, at, acks, begun, tries, valid, last>>

Step(c) ==
    \/ Lock(c) \/ LockInstance(c) \/ Decide(c) \/ UnlockInstance(c)
    \/ Retry(c) \/ Leave(c) \/ Unlocked(c)

Next ==
    \/ \E c \in Calls : Step(c)
    \/ \E t \in Threads : Crash(t)
    \/ Tick

Spec == Init /\ [][Next]_vars
-----------------------------------------------------------------------------
(* Properties. *)

TypeOK ==
    /\ now \in StartTime .. MaxTime
    /\ key \in [Instances -> [val : Calls \cup {NoOwner}, exp : Int]]
    /\ pc \in [Calls -> States]
    /\ at \in [Calls -> 1 .. N + 1]
    /\ acks \in [Calls -> SUBSET Instances]
    /\ begun \in [Calls -> Int]
    /\ tries \in [Calls -> Int]
    /\ valid \in [Calls -> Int]
    /\ last \in [Threads -> Calls \cup {NoOwner}]

\* The call is in its guarded section, and its attempt started less than the
\* time-to-live ago.
Leased(c) == pc[c] = "held" /\ now < begun[c] + TTL

\* For the time-to-live after the start of a successful attempt nobody else is
\* in the guarded section with a lease of his own: commands of other calls,
\* their unlocks, retries and continued locks never take a master away, and
\* two majorities share one.
Exclusive ==
    \A c, d \in Calls : Leased(c) /\ Leased(d) => c = d

\* A key that was acknowledged in the current attempt is still there until
\* the attempt is TTL old.
AcksHold ==
    \A c \in Calls :
        pc[c] \in {"set", "held"} =>
            /\ begun[c] <= now
            /\ \A i \in acks[c] :
                  now < begun[c] + TTL
                      => key[i].val = c /\ key[i].exp >= begun[c] + TTL
            /\ pc[c] = "set" => \A i \in acks[c] : i < at[c]
            /\ pc[c] = "held" => Cardinality(acks[c]) >= Quorum

\* A thread remembers none but its own values.
LastIsOwn ==
    \A t \in Threads : last[t] # NoOwner => ThreadOf[last[t]] = t

\* One guard per thread.
OneGuard ==
    \A c, d \in Calls :
        ThreadOf[c] = ThreadOf[d] /\ pc[c] \notin Over /\ pc[d] \notin Over
            => c = d

\* The inductive invariant behind Exclusive.
RedLockInv == TypeOK /\ LastIsOwn /\ OneGuard /\ AcksHold

\* Lock answers true only while the lease it hands out is still running, and
\* m_validityTime promises less than a second more than the keys live: the
\* elapsed time is measured in whole seconds, in an int that wraps.  The first
\* part needs a time-to-live of whole seconds, as the default 1000 ms is.
GrantSafe ==
    [][\A c \in Calls :
          pc[c] # "held" /\ pc'[c] = "held"
              => /\ now < begun[c] + TTL
                 /\ now + valid'[c] < begun[c] + TTL + Second]_vars

\* Who holds the lease of the resource.
Holder == IF \E c \in Calls : Leased(c) THEN CHOOSE c \in Calls : Leased(c)
                                        ELSE NoOwner

Lease == INSTANCE LeaseLock
             WITH holder <- [k \in {"resource"} |-> Holder],
                  Keys <- {"resource"}, Clients <- Calls

\* The lock on N masters behaves as the abstract lock: it is granted while it
\* is free only, and it is freed before the next one gets it.
IsLeaseLock == Lease!Spec
=============================================================================
