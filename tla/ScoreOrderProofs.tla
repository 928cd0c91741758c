-------------------------- MODULE ScoreOrderProofs --------------------------
(***************************************************************************)
(* Proofs about the score orders, for any number of requests, nodes,       *)
(* players and order ids, any failures, expiries and crashes.              *)
(***************************************************************************)
EXTENDS ScoreOrder, SumTheorems, TLAPS

USE ScoreOrderAssumption DEF ScoreOrderAssumption

\* The parts of a request.
LEMMA RequestParts ==
    ASSUME req \in [Requests -> RequestType], NEW r \in Requests
    PROVE  /\ req[r].op \in {"add", "sub"}
           /\ User(r) \in Users /\ Node(r) \in Nodes
           /\ req[r].order \in Orders
           /\ req[r].amount \in Int /\ req[r].amount > 0
           /\ OrderKey(r) \in OrderKeys /\ CacheKey(r) \in CacheKeys
<1>1. /\ req[r].op \in {"add", "sub"} /\ req[r].order \in Orders
      /\ req[r].user \in Users /\ req[r].node \in Nodes
      /\ req[r].amount \in Amounts
  BY DEF RequestType
<1>2. OrderKey(r) \in OrderKeys /\ CacheKey(r) \in CacheKeys
  BY <1>1 DEF OrderKey, CacheKey, OrderKeys, CacheKeys
<1>3. req[r].amount \in Int /\ req[r].amount > 0
  <2>1. req[r].amount \in Nat \ {0}
    BY <1>1
  <2> QED
    BY <2>1
<1> QED
  BY <1>1, <1>2, <1>3 DEF User, Node

\* A step preserves the types.
LEMMA TypeStep == ASSUME TypeOK, [Next]_vars PROVE TypeOK'
<1> USE DEF TypeOK, Labels, Outcomes, Collections, Goto, BreakOut,
           BreakLocked, MongoError, Mark, Written
<1>1. CASE UNCHANGED vars
  BY <1>1 DEF vars, local, mongo, redis, game
<1>2. ASSUME NEW r \in Requests, Step(r) PROVE TypeOK'
  <2>0. /\ User(r) \in Users /\ Node(r) \in Nodes /\ req[r].amount \in Int
        /\ OrderKey(r) \in OrderKeys /\ CacheKey(r) \in CacheKeys
    BY RequestParts
  <2>1. CASE Receive(r)
    BY <2>0, <2>1 DEF Receive, mongo, redis, game
  <2>2. CASE LockMutex(r)
    BY <2>0, <2>2 DEF LockMutex, mongo, redis, game
  <2>3. CASE QueryUser(r)
    BY <2>0, <2>3 DEF QueryUser, mongo, redis, game
  <2>4. CASE LockUserScore(r)
    BY <2>0, <2>4 DEF LockUserScore, mongo, redis, game
  <2>5. CASE TryLock(r)
    BY <2>0, <2>5 DEF TryLock, mongo, redis, game
  <2>6. CASE CheckOrder(r)
    BY <2>0, <2>6 DEF CheckOrder, mongo, redis, game
  <2>7. CASE CheckFunds(r)
    BY <2>0, <2>7 DEF CheckFunds, mongo, redis, game
  <2>8. CASE InsertOrder(r)
    BY <2>0, <2>8 DEF InsertOrder, mongo, redis, game
  <2>9. CASE UpdateUser(r)
    BY <2>0, <2>9 DEF UpdateUser, mongo, redis, game, Delta
  <2>10. CASE InsertRecord(r)
    BY <2>0, <2>10 DEF InsertRecord, mongo, redis, game
  <2>11. CASE UpdateAgent(r)
    BY <2>0, <2>11 DEF UpdateAgent, mongo, redis, game, Delta
  <2>12. CASE CommitOrder(r)
    BY <2>0, <2>12 DEF CommitOrder, mongo, redis, game
  <2>13. CASE ReleaseLock(r)
    BY <2>0, <2>13 DEF ReleaseLock, mongo, redis, game
  <2>14. CASE UnlockUserScore(r)
    BY <2>0, <2>14 DEF UnlockUserScore, mongo, redis, game
  <2> QED
    BY <1>2, <2>1, <2>2, <2>3, <2>4, <2>5, <2>6, <2>7, <2>8, <2>9, <2>10,
       <2>11, <2>12, <2>13, <2>14 DEF Step
<1>3. CASE Environment
  <2>1. ASSUME NEW u \in Users, ExpireLock(u) \/ EnterGame(u) \/ LeaveGame(u)
        PROVE  TypeOK'
    BY <2>1 DEF ExpireLock, EnterGame, LeaveGame, local, mongo, redis, game
  <2>2. ASSUME NEW u \in Users, NEW d \in GameDeltas, GameResult(u, d)
        PROVE  TypeOK'
    BY <2>2 DEF GameResult, local, mongo, redis, game
  <2>3. ASSUME NEW k \in orderCache, ExpireOrderCache(k) PROVE TypeOK'
    BY <2>3 DEF ExpireOrderCache, local, mongo, redis, game
  <2>4. ASSUME NEW n \in Nodes, RefreshAgentInfo(n) PROVE TypeOK'
    BY <2>4 DEF RefreshAgentInfo, local, mongo, redis, game
  <2>5. ASSUME NEW n \in Nodes, Crash(n) PROVE TypeOK'
    BY <2>5 DEF Crash, local, mongo, redis, game
  <2> QED
    BY <1>3, <2>1, <2>2, <2>3, <2>4, <2>5 DEF Environment
<1> QED
  BY <1>1, <1>2, <1>3 DEF Next

\* Every variable keeps its type.
THEOREM TypeCorrect == Spec => []TypeOK
<1>1. Init => TypeOK
  BY DEF Init, TypeOK, Labels, Outcomes, Collections
<1>2. TypeOK /\ [Next]_vars => TypeOK'
  BY TypeStep
<1> QED
  BY <1>1, <1>2, PTL DEF Spec
-----------------------------------------------------------------------------
(* Orders: AppliedAtMostOnce, AnswerIsTruthful and CacheSound. *)

\* A request never changes what it asks for.
LEMMA SameRequest ==
    ASSUME req' = req, NEW r \in Requests
    PROVE  /\ OrderKey(r)' = OrderKey(r) /\ CacheKey(r)' = CacheKey(r)
           /\ User(r)' = User(r) /\ Node(r)' = Node(r) /\ Adds(r)' = Adds(r)
           /\ Delta(r)' = Delta(r)
BY DEF OrderKey, CacheKey, User, Node, Adds, Delta

\* A step that writes neither an order nor a Redis order key leaves the order
\* rows and the remembered orders as they were.
LEMMA QuietStep ==
    ASSUME TypeOK, OneInserter, CacheSound, req' = req, wrote' = wrote,
           orders' = orders, orderCache' \subseteq orderCache
    PROVE  OneInserter' /\ CacheSound'
<1>1. \A r \in Requests : OrderKey(r)' = OrderKey(r) /\ CacheKey(r)' = CacheKey(r)
  BY SameRequest
<1>2. OneInserter'
  BY <1>1 DEF OneInserter
<1>3. CacheSound'
  BY <1>1 DEF CacheSound, FullWrite
<1> QED
  BY <1>2, <1>3

\* A request that does not move keeps its ledger.
LEMMA LedgerKept ==
    ASSUME NEW r \in Requests, Ledger(r), outcome'[r] = outcome[r],
           wrote'[r] = wrote[r], pc'[r] \in {pc[r], "crashed"}
    PROVE  Ledger(r)'
BY DEF Ledger, Labels, FullWrite

\* The request that moves establishes it again.
LEMMA LedgerStep ==
    ASSUME TypeOK, NEW r \in Requests, Ledger(r), Step(r)
    PROVE  Ledger(r)'
<1> USE DEF TypeOK, Ledger, Labels, Goto, BreakOut, BreakLocked, MongoError,
           Mark, Written, FullWrite, Collections
<1>1. CASE Receive(r)
  BY <1>1 DEF Receive
<1>2. CASE LockMutex(r)
  BY <1>2 DEF LockMutex
<1>3. CASE QueryUser(r)
  BY <1>3 DEF QueryUser
<1>4. CASE LockUserScore(r)
  BY <1>4 DEF LockUserScore
<1>5. CASE TryLock(r)
  BY <1>5 DEF TryLock
<1>6. CASE CheckOrder(r)
  BY <1>6 DEF CheckOrder
<1>7. CASE CheckFunds(r)
  BY <1>7 DEF CheckFunds
<1>8. CASE InsertOrder(r)
  BY <1>8 DEF InsertOrder
<1>9. CASE UpdateUser(r)
  BY <1>9 DEF UpdateUser
<1>10. CASE InsertRecord(r)
  <2>1. CASE BuyScore
    BY <1>10, <2>1 DEF InsertRecord
  <2>2. CASE ~BuyScore
    BY <1>10, <2>2 DEF InsertRecord
  <2> QED
    BY <2>1, <2>2
<1>11. CASE UpdateAgent(r)
  BY <1>11 DEF UpdateAgent
<1>12. CASE CommitOrder(r)
  BY <1>12 DEF CommitOrder
<1>13. CASE ReleaseLock(r)
  BY <1>13 DEF ReleaseLock
<1>14. CASE UnlockUserScore(r)
  BY <1>14 DEF UnlockUserScore
<1> QED
  BY <1>1, <1>2, <1>3, <1>4, <1>5, <1>6, <1>7, <1>8, <1>9, <1>10, <1>11,
     <1>12, <1>13, <1>14 DEF Step

\* Every disjunct of Next either is a step of one request or moves none:
\* the other requests' programs stand still, or stop in a crash.
LEMMA OthersStand ==
    ASSUME TypeOK, NEW r \in Requests, Step(r)
    PROVE  /\ req' = req
           /\ \A s \in Requests \ {r} : /\ pc'[s] = pc[s]
                                        /\ outcome'[s] = outcome[s]
                                        /\ wrote'[s] = wrote[s]
                                        /\ before'[s] = before[s]
BY DEF Step, Receive, LockMutex, QueryUser, LockUserScore, TryLock, CheckOrder,
       CheckFunds, InsertOrder, UpdateUser, InsertRecord, UpdateAgent,
       CommitOrder, ReleaseLock, UnlockUserScore, Goto, BreakOut, BreakLocked,
       MongoError, Mark, Written, TypeOK

\* The environment writes nothing for a request.
LEMMA EnvironmentQuiet ==
    ASSUME TypeOK, Environment
    PROVE  /\ UNCHANGED <<req, outcome, before, wrote, orders>>
           /\ orderCache' \subseteq orderCache
           /\ \A r \in Requests : pc'[r] \in {pc[r], "crashed"}
BY DEF Environment, ExpireLock, EnterGame, LeaveGame, GameResult,
       ExpireOrderCache, RefreshAgentInfo, Crash, local, mongo, redis, game,
       TypeOK

\* Only three calls write orders or remember them; what they write is theirs.
LEMMA Writes ==
    ASSUME TypeOK, NEW r \in Requests, Ledger(r), Step(r)
    PROVE  \/ wrote' = wrote /\ orders' = orders /\ orderCache' = orderCache
           \/ /\ OrderKey(r) \notin orders
              /\ orders' = orders \cup {OrderKey(r)}
              /\ wrote' = [wrote EXCEPT ![r] = {"order"}]
              /\ orderCache' = orderCache
           \/ /\ "order" \in wrote[r] /\ wrote[r] \subseteq wrote'[r]
              /\ wrote[r] # FullWrite
              /\ wrote' = [wrote EXCEPT ![r] = wrote'[r]]
              /\ orders' = orders /\ orderCache' = orderCache
           \/ /\ wrote[r] = FullWrite
              /\ wrote' = wrote /\ orders' = orders
              /\ orderCache' = orderCache \cup {CacheKey(r)}
<1> USE DEF TypeOK, Ledger, mongo, redis, Goto, BreakOut, BreakLocked,
           MongoError, Mark, Written, FullWrite, Collections
<1>1. CASE Receive(r)
  BY <1>1 DEF Receive
<1>2. CASE LockMutex(r)
  BY <1>2 DEF LockMutex
<1>3. CASE QueryUser(r)
  BY <1>3 DEF QueryUser
<1>4. CASE LockUserScore(r)
  BY <1>4 DEF LockUserScore
<1>5. CASE TryLock(r)
  BY <1>5 DEF TryLock
<1>6. CASE CheckOrder(r)
  BY <1>6 DEF CheckOrder
<1>7. CASE CheckFunds(r)
  BY <1>7 DEF CheckFunds
<1>8. CASE InsertOrder(r)
  BY <1>8 DEF InsertOrder
<1>9. CASE UpdateUser(r)
  <2>1. wrote[r] # FullWrite /\ "order" \in wrote[r]
    <3>1. "user" \notin wrote[r] /\ "user" \in FullWrite
      BY <1>9 DEF UpdateUser
    <3> QED
      BY <1>9, <3>1 DEF UpdateUser
  <2>2. orders' = orders /\ orderCache' = orderCache
    BY <1>9 DEF UpdateUser
  <2>3. CASE Mark(r, "user")
    BY <2>1, <2>2, <2>3
  <2>4. CASE wrote' = wrote
    BY <2>2, <2>4
  <2> QED
    BY <1>9, <2>3, <2>4 DEF UpdateUser
<1>10. CASE InsertRecord(r)
  <2>1. wrote[r] # FullWrite /\ "order" \in wrote[r]
    <3>1. "record" \notin wrote[r] /\ "record" \in FullWrite
      BY <1>10 DEF InsertRecord
    <3> QED
      BY <1>10, <3>1 DEF InsertRecord
  <2>2. orders' = orders /\ orderCache' = orderCache
    BY <1>10 DEF InsertRecord
  <2>3. CASE Mark(r, "record")
    BY <2>1, <2>2, <2>3
  <2>4. CASE wrote' = wrote
    BY <2>2, <2>4
  <2> QED
    BY <1>10, <2>3, <2>4 DEF InsertRecord
<1>11. CASE UpdateAgent(r)
  <2>1. wrote[r] # FullWrite /\ "order" \in wrote[r]
    <3>1. "agent" \notin wrote[r] /\ "agent" \in FullWrite
      BY <1>11 DEF UpdateAgent
    <3> QED
      BY <1>11, <3>1 DEF UpdateAgent
  <2>2. orders' = orders /\ orderCache' = orderCache
    BY <1>11 DEF UpdateAgent
  <2>3. CASE Mark(r, "agent")
    BY <2>1, <2>2, <2>3
  <2>4. CASE wrote' = wrote
    BY <2>2, <2>4
  <2> QED
    BY <1>11, <2>3, <2>4 DEF UpdateAgent
<1>12. CASE CommitOrder(r)
  BY <1>12 DEF CommitOrder
<1>13. CASE ReleaseLock(r)
  BY <1>13 DEF ReleaseLock
<1>14. CASE UnlockUserScore(r)
  BY <1>14 DEF UnlockUserScore
<1> QED
  BY <1>1, <1>2, <1>3, <1>4, <1>5, <1>6, <1>7, <1>8, <1>9, <1>10, <1>11,
     <1>12, <1>13, <1>14 DEF Step

\* Whatever a step writes, each order row keeps exactly one inserter and each
\* remembered order was carried out completely.
LEMMA RowsStep ==
    ASSUME TypeOK, OneInserter, CacheSound, NEW r \in Requests, Ledger(r),
           Step(r)
    PROVE  OneInserter' /\ CacheSound'
<1>0. req' = req
  BY OthersStand
<1>1. \A s \in Requests : OrderKey(s)' = OrderKey(s) /\ CacheKey(s)' = CacheKey(s)
  BY <1>0, SameRequest
<1>2. FullWrite' = FullWrite
  BY DEF FullWrite
<1>3. wrote \in [Requests -> SUBSET Collections]
  BY DEF TypeOK
<1>4. CASE wrote' = wrote /\ orders' = orders /\ orderCache' = orderCache
  BY <1>0, <1>4, QuietStep
<1>5. CASE /\ OrderKey(r) \notin orders
           /\ orders' = orders \cup {OrderKey(r)}
           /\ wrote' = [wrote EXCEPT ![r] = {"order"}]
           /\ orderCache' = orderCache
  <2>1. "order" \notin wrote[r]
    BY <1>5 DEF OneInserter
  <2>2. wrote[r] # FullWrite
    BY <2>1 DEF FullWrite, Collections
  <2>3. CacheSound'
    BY <1>1, <1>2, <1>3, <1>5, <2>2 DEF CacheSound
  <2>4. OneInserter'
    BY <1>1, <1>3, <1>5, <2>1 DEF OneInserter
  <2> QED
    BY <2>3, <2>4
<1>6. CASE /\ "order" \in wrote[r] /\ wrote[r] \subseteq wrote'[r]
           /\ wrote[r] # FullWrite
           /\ wrote' = [wrote EXCEPT ![r] = wrote'[r]]
           /\ orders' = orders /\ orderCache' = orderCache
  <2>1. \A s \in Requests : "order" \in wrote'[s] <=> "order" \in wrote[s]
    BY <1>3, <1>6
  <2>2. \A s \in Requests : wrote[s] = FullWrite => wrote'[s] = FullWrite
    BY <1>3, <1>6
  <2>3. CacheSound'
    BY <1>1, <1>2, <1>6, <2>2 DEF CacheSound
  <2>4. OneInserter'
    BY <1>1, <1>6, <2>1 DEF OneInserter
  <2> QED
    BY <2>3, <2>4
<1>7. CASE /\ wrote[r] = FullWrite
           /\ wrote' = wrote /\ orders' = orders
           /\ orderCache' = orderCache \cup {CacheKey(r)}
  <2>1. OneInserter'
    BY <1>1, <1>7 DEF OneInserter
  <2>2. CacheSound'
    BY <1>1, <1>2, <1>7 DEF CacheSound
  <2> QED
    BY <2>1, <2>2
<1> QED
  BY <1>4, <1>5, <1>6, <1>7, Writes

\* A request is told "exists" only of an order that some request inserted.
LEMMA ExistsStep ==
    ASSUME OrderInv, NEW r \in Requests, Step(r), outcome'[r] = "exists"
    PROVE  \E s \in Requests : OrderKey(s) = OrderKey(r) /\ "order" \in wrote[s]
<1> USE DEF OrderInv, TypeOK, Ledger
<1>1. CASE outcome[r] = "exists"
  BY <1>1 DEF AnswerIsTruthful
<1>2. CASE CheckOrder(r) /\ CacheKey(r) \in orderCache
  <2>1. PICK s \in Requests : CacheKey(s) = CacheKey(r) /\ wrote[s] = FullWrite
    BY <1>2 DEF CacheSound
  <2>2. OrderKey(s) = OrderKey(r)
    BY <2>1 DEF CacheKey, OrderKey
  <2>3. "order" \in wrote[s]
    BY <2>1 DEF FullWrite, Collections
  <2> QED
    BY <2>2, <2>3
<1>3. CASE InsertOrder(r) /\ OrderKey(r) \in orders
  BY <1>3 DEF OneInserter
<1>4. outcome[r] = "exists" \/ (CheckOrder(r) /\ CacheKey(r) \in orderCache)
        \/ (InsertOrder(r) /\ OrderKey(r) \in orders)
  BY DEF Step, Receive, LockMutex, QueryUser, LockUserScore, TryLock,
         CheckOrder, CheckFunds, InsertOrder, UpdateUser, InsertRecord,
         UpdateAgent, CommitOrder, ReleaseLock, UnlockUserScore, Goto,
         BreakOut, BreakLocked, MongoError, Mark, Written
<1> QED
  BY <1>1, <1>2, <1>3, <1>4

\* OrderInv is inductive.
LEMMA OrderStep == ASSUME OrderInv, [Next]_vars PROVE OrderInv'
<1> USE DEF OrderInv
<1>0. TypeOK'
  BY TypeStep
<1>1. CASE UNCHANGED vars
  <2>0. UNCHANGED <<req, pc, outcome, wrote, orders, orderCache>>
    BY <1>1 DEF vars, local, mongo, redis
  <2>1. \A s \in Requests : OrderKey(s)' = OrderKey(s)
    BY <2>0, SameRequest
  <2>2. \A s \in Requests : Ledger(s)'
    BY <2>0, LedgerKept
  <2>3. OneInserter' /\ CacheSound'
    BY <2>0, QuietStep
  <2>4. AnswerIsTruthful'
    BY <2>0, <2>1 DEF AnswerIsTruthful, FullWrite
  <2> QED
    BY <1>0, <2>2, <2>3, <2>4
<1>2. ASSUME NEW r \in Requests, Step(r) PROVE OrderInv'
  <2>0. /\ req' = req
        /\ \A s \in Requests \ {r} : /\ pc'[s] = pc[s]
                                     /\ outcome'[s] = outcome[s]
                                     /\ wrote'[s] = wrote[s]
    BY <1>2, OthersStand
  <2>1. \A s \in Requests : Ledger(s)'
    BY <1>2, <2>0, LedgerStep, LedgerKept
  <2>2. OneInserter' /\ CacheSound'
    BY <1>2, RowsStep
  <2>3. \A s \in Requests : "order" \in wrote[s] => "order" \in wrote'[s]
    <3>1. wrote \in [Requests -> SUBSET Collections]
      BY DEF TypeOK
    <3> QED
      BY <1>2, <3>1, Writes
  <2>4. AnswerIsTruthful'
    <3>1. \A s \in Requests : OrderKey(s)' = OrderKey(s)
      BY <2>0, SameRequest
    <3>2. ASSUME NEW t \in Requests, outcome'[t] = "exists"
          PROVE  \E s \in Requests : OrderKey(s)' = OrderKey(t)'
                                        /\ "order" \in wrote'[s]
      <4>1. \E s \in Requests : OrderKey(s) = OrderKey(t) /\ "order" \in wrote[s]
        <5>1. CASE t = r
          BY <1>2, <3>2, <5>1, ExistsStep
        <5>2. CASE t # r
          BY <2>0, <3>2, <5>2 DEF AnswerIsTruthful
        <5> QED
          BY <5>1, <5>2
      <4> QED
        BY <2>3, <3>1, <4>1
    <3> QED
      BY <2>1, <3>2 DEF AnswerIsTruthful, Ledger
  <2> QED
    BY <1>0, <2>1, <2>2, <2>4
<1>3. CASE Environment
  <2>1. /\ UNCHANGED <<req, outcome, before, wrote, orders>>
        /\ orderCache' \subseteq orderCache
        /\ \A r \in Requests : pc'[r] \in {pc[r], "crashed"}
    BY <1>3, EnvironmentQuiet
  <2>2. \A r \in Requests : Ledger(r)'
    BY <2>1, LedgerKept
  <2>3. OneInserter' /\ CacheSound'
    BY <2>1, QuietStep
  <2>4. AnswerIsTruthful'
    <3>1. outcome' = outcome /\ wrote' = wrote /\ FullWrite' = FullWrite
          /\ \A s \in Requests : OrderKey(s)' = OrderKey(s)
      BY <2>1, SameRequest DEF FullWrite
    <3> QED
      BY <3>1 DEF AnswerIsTruthful
  <2> QED
    BY <1>0, <2>2, <2>3, <2>4
<1> QED
  BY <1>1, <1>2, <1>3 DEF Next

\* The inductive invariant holds in every state.
LEMMA OrderInvariant == Spec => []OrderInv
<1>1. Init => OrderInv
  BY DEF Init, OrderInv, TypeOK, Labels, Outcomes, Collections, Ledger,
         OneInserter, AnswerIsTruthful, CacheSound
<1>2. OrderInv /\ [Next]_vars => OrderInv'
  BY OrderStep
<1> QED
  BY <1>1, <1>2, PTL DEF Spec

\* However many requests, nodes, failures, expiries and crashes: an order moves
\* a player's score at most once (the UNIQUE insert precedes the $inc).
THEOREM OrderAppliedAtMostOnce == Spec => []AppliedAtMostOnce
<1>1. OrderInv => AppliedAtMostOnce
  BY DEF OrderInv, Ledger, OneInserter, AppliedAtMostOnce
<1> QED
  BY <1>1, OrderInvariant, PTL

\* The errcode a request returns tells the truth about the collections.
THEOREM AnswersTruthful == Spec => []AnswerIsTruthful
<1>1. OrderInv => AnswerIsTruthful
  BY DEF OrderInv
<1> QED
  BY <1>1, OrderInvariant, PTL

\* A Redis order key is only ever set for an order carried out completely.
THEOREM OrderCacheSound == Spec => []CacheSound
<1>1. OrderInv => CacheSound
  BY DEF OrderInv
<1> QED
  BY <1>1, OrderInvariant, PTL
-----------------------------------------------------------------------------
(* The Redis lock: LeaseHeld, and the refinement of LeaseLock. *)

\* The three things that can happen to the locks.
LEMMA LockMoves ==
    ASSUME TypeOK, [Next]_vars
    PROVE  \/ lock' = lock
           \/ \E r \in Requests : /\ lock[User(r)] = NoOwner
                                  /\ lock' = [lock EXCEPT ![User(r)] = r]
           \/ \E u \in Users : /\ lock[u] # NoOwner
                               /\ lock' = [lock EXCEPT ![u] = NoOwner]
<1>1. CASE UNCHANGED vars
  BY <1>1 DEF vars, redis
<1>2. ASSUME NEW r \in Requests, TryLock(r)
      PROVE  \/ lock' = lock
             \/ /\ lock[User(r)] = NoOwner
                /\ lock' = [lock EXCEPT ![User(r)] = r]
  BY <1>2 DEF TryLock
<1>3. ASSUME NEW r \in Requests, ReleaseLock(r)
      PROVE  \/ lock' = lock
             \/ \E u \in Users : /\ lock[u] # NoOwner
                                 /\ lock' = [lock EXCEPT ![u] = NoOwner]
  <2>1. User(r) \in Users
    BY RequestParts DEF TypeOK
  <2>2. CASE lock[User(r)] = r
    BY <1>3, <2>1, <2>2 DEF ReleaseLock, TypeOK
  <2>3. CASE lock[User(r)] # r
    BY <1>3, <2>1, <2>3 DEF ReleaseLock, TypeOK
  <2> QED
    BY <2>2, <2>3
<1>4. ASSUME NEW u \in Users, ExpireLock(u)
      PROVE  lock[u] # NoOwner /\ lock' = [lock EXCEPT ![u] = NoOwner]
  BY <1>4 DEF ExpireLock
<1>5. ASSUME NEW r \in Requests, Step(r), ~TryLock(r), ~ReleaseLock(r)
      PROVE  lock' = lock
  BY <1>5 DEF Step, Receive, LockMutex, QueryUser, LockUserScore, CheckOrder,
     CheckFunds, InsertOrder, UpdateUser, InsertRecord, UpdateAgent,
     CommitOrder, UnlockUserScore, redis
<1>6. ASSUME Environment, \A u \in Users : ~ExpireLock(u) PROVE lock' = lock
  BY <1>6 DEF Environment, EnterGame, LeaveGame, GameResult, ExpireOrderCache,
     RefreshAgentInfo, Crash, redis
<1> QED
  BY <1>1, <1>2, <1>3, <1>4, <1>5, <1>6 DEF Next

\* The locks of the players are an implementation of the abstract locks.
THEOREM LocksRefineLease == Spec => LockIsLease
<1>1. Init => Lease!Init
  BY DEF Init, Lease!Init
<1>2. TypeOK /\ [Next]_vars => [Lease!Next]_lock
  <2> SUFFICES ASSUME TypeOK, [Next]_vars PROVE [Lease!Next]_lock
    OBVIOUS
  <2>1. \A r \in Requests : User(r) \in Users
    BY RequestParts DEF TypeOK
  <2> QED
    BY <2>1, LockMoves DEF Lease!Next, Lease!Acquire, Lease!Free
<1> QED
  BY <1>1, <1>2, TypeCorrect, PTL DEF Spec, LockIsLease, Lease!Spec

\* LeaseHeld is preserved by every step.
LEMMA LeaseStep == ASSUME TypeOK, LeaseHeld, [Next]_vars PROVE LeaseHeld'
<1> USE DEF LeaseHeld
<1>1. CASE UNCHANGED vars
  BY <1>1 DEF vars, local, redis, User
<1>2. ASSUME NEW r \in Requests, Step(r) PROVE LeaseHeld'
  <2>0. /\ req' = req
        /\ \A s \in Requests \ {r} : pc'[s] = pc[s]
    BY <1>2, OthersStand
  <2>1. /\ \A s \in Requests : User(s)' = User(s) /\ User(s) \in Users
        /\ r # NoOwner /\ lock \in [Users -> Requests \cup {NoOwner}]
        /\ pc \in [Requests -> Labels]
    BY <2>0, SameRequest, RequestParts DEF TypeOK
  <2>2. CASE TryLock(r)
    BY <2>0, <2>1, <2>2 DEF TryLock, Goto, BreakOut, Locked
  <2>3. CASE ReleaseLock(r)
    BY <2>0, <2>1, <2>3 DEF ReleaseLock, Goto, Locked
  <2>4. CASE ~TryLock(r) /\ ~ReleaseLock(r)
    <3>1. lock' = lock /\ lapsed' = lapsed
      BY <1>2, <2>4 DEF Step, Receive, LockMutex, QueryUser, LockUserScore,
         CheckOrder, CheckFunds, InsertOrder, UpdateUser, InsertRecord,
         UpdateAgent, CommitOrder, UnlockUserScore, redis
    <3>2. pc'[r] \in Locked => pc[r] \in Locked
      BY <1>2, <2>1, <2>4 DEF Step, Receive, LockMutex, QueryUser,
         LockUserScore, CheckOrder, CheckFunds, InsertOrder, UpdateUser,
         InsertRecord, UpdateAgent, CommitOrder, UnlockUserScore, Goto,
         BreakOut, BreakLocked, MongoError, Written, Locked
    <3> QED
      BY <2>0, <2>1, <3>1, <3>2
  <2> QED
    BY <2>2, <2>3, <2>4
<1>3. CASE Environment
  <2>0. /\ req' = req
        /\ \A r \in Requests : pc'[r] \in {pc[r], "crashed"}
    BY <1>3, EnvironmentQuiet
  <2>1. \A s \in Requests : User(s)' = User(s) /\ User(s) \in Users
    BY <2>0, SameRequest, RequestParts DEF TypeOK
  <2>2. ASSUME NEW u \in Users, ExpireLock(u) PROVE LeaseHeld'
    <3>1. /\ lock' = [lock EXCEPT ![u] = NoOwner]
          /\ lapsed' = lapsed \cup {lock[u]}
      BY <2>2 DEF ExpireLock
    <3> QED
      BY <2>0, <2>1, <3>1 DEF TypeOK, Locked
  <2>3. CASE \A u \in Users : ~ExpireLock(u)
    <3>1. lock' = lock /\ lapsed' = lapsed
      BY <1>3, <2>3 DEF Environment, EnterGame, LeaveGame, GameResult,
         ExpireOrderCache, RefreshAgentInfo, Crash, redis
    <3> QED
      BY <2>0, <2>1, <3>1 DEF Locked
  <2> QED
    BY <2>2, <2>3
<1> QED
  BY <1>1, <1>2, <1>3 DEF Next

\* Nobody's unlock takes the lock from a request whose lease has not run out.
THEOREM LeaseIsHeld == Spec => []LeaseHeld
<1>1. Init => LeaseHeld
  BY DEF Init, LeaseHeld, Locked
<1>2. TypeOK /\ LeaseHeld /\ [Next]_vars => LeaseHeld'
  BY LeaseStep
<1> QED
  BY <1>1, <1>2, TypeCorrect, PTL DEF Spec
-----------------------------------------------------------------------------
(* No overdraft while one node serves all withdrawals of a player. *)

\* The mutex of a withdrawal is its own from "query" to the end.
LEMMA MutexStep == ASSUME TypeOK, MutexHeld, [Next]_vars PROVE MutexHeld'
<1> USE DEF MutexHeld
<1>1. CASE UNCHANGED vars
  BY <1>1 DEF vars, local, Adds, Node
<1>2. ASSUME NEW r \in Requests, Step(r) PROVE MutexHeld'
  <2>0. /\ req' = req
        /\ \A s \in Requests \ {r} : pc'[s] = pc[s]
    BY <1>2, OthersStand
  <2>1. /\ \A s \in Requests : /\ Node(s)' = Node(s) /\ Node(s) \in Nodes
                               /\ Adds(s)' = Adds(s)
        /\ r # NoOwner /\ mutex \in [Nodes -> Requests \cup {NoOwner}]
        /\ pc \in [Requests -> Labels]
    BY <2>0, SameRequest, RequestParts DEF TypeOK
  <2>2. CASE LockMutex(r)
    BY <2>0, <2>1, <2>2 DEF LockMutex, Goto, InMutex, Locked
  <2>3. CASE UnlockUserScore(r)
    BY <2>0, <2>1, <2>3 DEF UnlockUserScore, Goto, InMutex, Locked
  <2>4. CASE ~LockMutex(r) /\ ~UnlockUserScore(r)
    <3>1. mutex' = mutex
      BY <1>2, <2>4 DEF Step, Receive, QueryUser, LockUserScore, TryLock,
         CheckOrder, CheckFunds, InsertOrder, UpdateUser, InsertRecord,
         UpdateAgent, CommitOrder, ReleaseLock
    <3>2. /\ ~Adds(r) /\ pc'[r] \in InMutex => pc[r] \in InMutex
          /\ Adds(r) => pc'[r] \notin {"mutex", "unlockUser"}
      BY <1>2, <2>1, <2>4 DEF Step, Receive, QueryUser, LockUserScore, TryLock,
         CheckOrder, CheckFunds, InsertOrder, UpdateUser, InsertRecord,
         UpdateAgent, CommitOrder, ReleaseLock, Goto, BreakOut, BreakLocked,
         MongoError, Written, InMutex, Locked
    <3> QED
      BY <2>0, <2>1, <3>1, <3>2
  <2> QED
    BY <2>2, <2>3, <2>4
<1>3. CASE Environment
  <2>0. /\ req' = req
        /\ \A r \in Requests : pc'[r] \in {pc[r], "crashed"}
    BY <1>3, EnvironmentQuiet
  <2>1. \A s \in Requests : /\ Node(s)' = Node(s) /\ Node(s) \in Nodes
                            /\ Adds(s)' = Adds(s)
    BY <2>0, SameRequest, RequestParts DEF TypeOK
  <2>2. ASSUME NEW n \in Nodes, Crash(n) PROVE MutexHeld'
    <3>1. /\ mutex' = [mutex EXCEPT ![n] = NoOwner]
          /\ \A r \in Requests : Node(r) = n /\ pc[r] \in InMutex
                                    => pc'[r] = "crashed"
      BY <2>2 DEF Crash, InMutex, Locked
    <3> QED
      BY <2>0, <2>1, <3>1 DEF TypeOK, InMutex, Locked
  <2>3. CASE \A n \in Nodes : ~Crash(n)
    <3>1. mutex' = mutex
      BY <1>3, <2>3 DEF Environment, ExpireLock, EnterGame, LeaveGame,
         GameResult, ExpireOrderCache, RefreshAgentInfo
    <3> QED
      BY <2>0, <2>1, <3>1 DEF InMutex, Locked
  <2> QED
    BY <2>2, <2>3
<1> QED
  BY <1>1, <1>2, <1>3 DEF Next

\* The score of a player falls only by a covered withdrawal, which nobody else
\* can be about to apply at that moment.
LEMMA ScoreStep ==
    ASSUME StickyInv, GameDeltas = {}, NEW r \in Requests, Step(r)
    PROVE  ReadIsCovered' /\ ScoreNeverNegative'
<1> USE DEF StickyInv
<1>0. /\ req' = req
      /\ \A s \in Requests \ {r} : pc'[s] = pc[s] /\ before'[s] = before[s]
  BY OthersStand
<1>1. \A s \in Requests :
         /\ User(s)' = User(s) /\ User(s) \in Users /\ Adds(s)' = Adds(s)
         /\ Node(s) \in Nodes /\ req[s].amount \in Int /\ req[s].amount > 0
         /\ req'[s] = req[s]
  BY <1>0, SameRequest, RequestParts DEF TypeOK
<1>2. /\ pc \in [Requests -> Labels] /\ before \in [Requests -> Int]
      /\ score \in [Users -> Int]
  BY DEF TypeOK
<1>3. CASE UpdateUser(r) /\ Adds(r) /\ score' # score
  <2>1. /\ score' = [score EXCEPT ![User(r)] = @ + req[r].amount]
        /\ before' = before
        /\ pc'[r] \in {"record", "release"}
    BY <1>1, <1>2, <1>3
       DEF UpdateUser, Delta, Written, Goto, BreakLocked, MongoError
  <2> QED
    BY <1>0, <1>1, <1>2, <1>3, <2>1 DEF ReadIsCovered, ScoreNeverNegative
<1>4. CASE UpdateUser(r) /\ ~Adds(r) /\ score' # score
  <2>1. /\ score' = [score EXCEPT ![User(r)] = @ - req[r].amount]
        /\ before' = before
        /\ pc[r] = "user"
        /\ pc'[r] \in {"record", "release"}
    BY <1>1, <1>2, <1>4
       DEF UpdateUser, Delta, Written, Goto, BreakLocked, MongoError
  <2>2. req[r].amount <= score[User(r)]
    BY <1>1, <1>2, <1>4, <2>1 DEF ReadIsCovered
  <2>3. ASSUME NEW s \in Requests, s # r, ~Adds(s), User(s) = User(r)
        PROVE  pc[s] \notin InMutex
    BY <1>4, <2>1, <2>3 DEF MutexHeld, Sticky, InMutex, Locked
  <2>4. ReadIsCovered'
    BY <1>0, <1>1, <1>2, <1>4, <2>1, <2>3 DEF ReadIsCovered, InMutex, Locked
  <2>5. ScoreNeverNegative'
    BY <1>1, <1>2, <2>1, <2>2 DEF ScoreNeverNegative
  <2> QED
    BY <2>4, <2>5
<1>5. CASE score' = score
  <2>1. ~Adds(r) => (pc'[r] \in {"userLock", "lock", "order", "funds", "insert", "user"}
            => before'[r] <= score[User(r)])
    <3> SUFFICES ASSUME ~Adds(r), pc'[r] \in {"userLock", "lock", "order",
                                              "funds", "insert", "user"}
                 PROVE  before'[r] <= score[User(r)]
      OBVIOUS
    <3>1. CASE QueryUser(r)
      BY <1>1, <1>2, <3>1 DEF QueryUser, Goto, BreakOut
    <3>2. CASE ~QueryUser(r)
      <4>1. /\ before' = before
            /\ pc[r] \in {"userLock", "lock", "order", "funds", "insert", "user"}
        BY <1>2, <3>2 DEF Step, Receive, LockMutex, LockUserScore, TryLock,
           CheckOrder, CheckFunds, InsertOrder, UpdateUser, InsertRecord,
           UpdateAgent, CommitOrder, ReleaseLock, UnlockUserScore, Goto,
           BreakOut, BreakLocked, MongoError, Written
      <4> QED
        BY <4>1 DEF ReadIsCovered
    <3> QED
      BY <3>1, <3>2
  <2>2. ~Adds(r) => (pc'[r] \in {"insert", "user"} => req[r].amount <= before'[r])
    <3> SUFFICES ASSUME ~Adds(r), pc'[r] \in {"insert", "user"}
                 PROVE  req[r].amount <= before'[r]
      OBVIOUS
    <3>1. CASE CheckFunds(r)
      BY <1>1, <1>2, <3>1 DEF CheckFunds, Goto, BreakLocked
    <3>2. CASE ~CheckFunds(r)
      <4>1. before' = before /\ pc[r] \in {"insert", "user"}
        BY <1>2, <3>2 DEF Step, Receive, LockMutex, QueryUser, LockUserScore,
           TryLock, CheckOrder, InsertOrder, UpdateUser, InsertRecord,
           UpdateAgent, CommitOrder, ReleaseLock, UnlockUserScore, Goto,
           BreakOut, BreakLocked, MongoError, Written
      <4> QED
        BY <4>1 DEF ReadIsCovered
    <3> QED
      BY <3>1, <3>2
  <2>3. ReadIsCovered'
    BY <1>0, <1>1, <1>5, <2>1, <2>2 DEF ReadIsCovered
  <2> QED
    BY <1>5, <2>3 DEF ScoreNeverNegative
<1>6. score' = score \/ UpdateUser(r)
  BY DEF Step, Receive, LockMutex, QueryUser, LockUserScore, TryLock,
     CheckOrder, CheckFunds, InsertOrder, InsertRecord, UpdateAgent,
     CommitOrder, ReleaseLock, UnlockUserScore, mongo
<1> QED
  BY <1>3, <1>4, <1>5, <1>6

\* StickyInv is inductive when no game changes scores.
LEMMA StickyStep ==
    ASSUME StickyInv, GameDeltas = {}, [Next]_vars PROVE StickyInv'
<1> USE DEF StickyInv
<1>1. TypeOK' /\ MutexHeld'
  BY TypeStep, MutexStep
<1>2. req' = req
  BY OthersStand, EnvironmentQuiet DEF Next, vars
<1>3. Sticky'
  BY <1>2, SameRequest DEF Sticky
<1>4. ReadIsCovered' /\ ScoreNeverNegative'
  <2>1. CASE \E r \in Requests : Step(r)
    BY <2>1, ScoreStep
  <2>2. CASE Environment
    <3>1. score' = score
      BY <2>2 DEF Environment, ExpireLock, EnterGame, LeaveGame,
         ExpireOrderCache, RefreshAgentInfo, Crash, mongo
    <3>2. before' = before /\ \A r \in Requests : pc'[r] \in {pc[r], "crashed"}
      BY <2>2, EnvironmentQuiet
    <3> QED
      BY <1>2, <3>1, <3>2, SameRequest DEF ReadIsCovered, ScoreNeverNegative
  <2>3. CASE UNCHANGED vars
    BY <2>3, SameRequest
       DEF vars, local, mongo, ReadIsCovered, ScoreNeverNegative
  <2> QED
    BY <2>1, <2>2, <2>3 DEF Next
<1> QED
  BY <1>1, <1>3, <1>4

\* If every withdrawal of a player is sent to the same node and nobody plays,
\* no withdrawal overdraws his score, whatever fails, expires or crashes.
THEOREM NoOverdraftWhenSticky ==
    ASSUME GameDeltas = {}
    PROVE  Spec => []NoOverdraftIfSticky
<1>1. Init => (Sticky => StickyInv)
  <2>1. Init => TypeOK
    BY DEF Init, TypeOK, Labels, Outcomes, Collections
  <2> QED
    BY <2>1 DEF Init, StickyInv, MutexHeld, ReadIsCovered, ScoreNeverNegative,
                InMutex, Locked
<1>2. TypeOK /\ (Sticky => StickyInv) /\ [Next]_vars => (Sticky => StickyInv)'
  <2> SUFFICES ASSUME TypeOK, Sticky => StickyInv, [Next]_vars, Sticky'
               PROVE  StickyInv'
    OBVIOUS
  <2>1. req' = req
    BY OthersStand, EnvironmentQuiet DEF Next, vars
  <2>2. Sticky
    BY <2>1, SameRequest DEF Sticky
  <2> QED
    BY <2>2, StickyStep
<1>3. (Sticky => StickyInv) => NoOverdraftIfSticky
  BY DEF StickyInv, NoOverdraftIfSticky
<1> QED
  BY <1>1, <1>2, <1>3, TypeCorrect, PTL DEF Spec
-----------------------------------------------------------------------------
(* Money: what the agent and the players have together. *)

\* The amounts of the orders that have changed the player's document and not
\* (yet) the agent's.
HalfWay(w) ==
    [r \in Requests |-> IF "user" \in w[r] /\ "agent" \notin w[r] THEN Delta(r) ELSE 0]

\* They are all that is missing, whatever failed or crashed in between.
Owed ==
    agentScore + SumOver(Users, score)
        = InitAgent + Cardinality(Users) * InitScore + SumOver(Requests, HalfWay(wrote))

\* A request that has left its block of calls has an answer.
Answered == \A r \in Requests : pc[r] \in {"release", "unlockUser", "done"} => outcome[r] # "none"

\* What a request changes of the two documents.
LEMMA MoneyMoves ==
    ASSUME OrderInv, NEW r \in Requests, Step(r)
    PROVE  \/ score' = score /\ agentScore' = agentScore /\ HalfWay(wrote') = HalfWay(wrote)
           \/ /\ score' = [score EXCEPT ![User(r)] = @ + Delta(r)] /\ agentScore' = agentScore
              /\ wrote' = [wrote EXCEPT ![r] = @ \cup {"user"}] /\ wrote[r] = {"order"}
           \/ /\ score' = score /\ agentScore' = agentScore - Delta(r)
              /\ wrote' = [wrote EXCEPT ![r] = @ \cup {"agent"}]
              /\ wrote[r] = {"order", "user", "record"}
<1> USE DEF OrderInv
<1>1. wrote \in [Requests -> SUBSET Collections] /\ Ledger(r)
  BY DEF TypeOK
<1>2. CASE UpdateUser(r)
  <2>1. agentScore' = agentScore /\ wrote[r] = {"order"}
    BY <1>1, <1>2 DEF UpdateUser, Ledger
  <2>2. \/ score' = score /\ wrote' = wrote
        \/ score' = [score EXCEPT ![User(r)] = @ + Delta(r)] /\ wrote' = [wrote EXCEPT ![r] = @ \cup {"user"}]
    BY <1>2 DEF UpdateUser, Mark, MongoError
  <2> QED
    BY <2>1, <2>2
<1>3. CASE UpdateAgent(r)
  <2>1. score' = score /\ wrote[r] = {"order", "user", "record"}
    BY <1>1, <1>3 DEF UpdateAgent, Ledger
  <2>2. \/ agentScore' = agentScore /\ wrote' = wrote
        \/ agentScore' = agentScore - Delta(r) /\ wrote' = [wrote EXCEPT ![r] = @ \cup {"agent"}]
    BY <1>3 DEF UpdateAgent, Mark, MongoError
  <2> QED
    BY <2>1, <2>2
<1>4. CASE InsertOrder(r) \/ InsertRecord(r)
  <2>1. score' = score /\ agentScore' = agentScore
    BY <1>4 DEF InsertOrder, InsertRecord, mongo
  <2>2. \/ wrote' = wrote
        \/ wrote' = [wrote EXCEPT ![r] = @ \cup {"order"}]
        \/ wrote' = [wrote EXCEPT ![r] = @ \cup {"record"}]
    BY <1>4 DEF InsertOrder, InsertRecord, Mark, MongoError
  <2>3. \A s \in Requests : /\ "user" \in wrote'[s] <=> "user" \in wrote[s]
                            /\ "agent" \in wrote'[s] <=> "agent" \in wrote[s]
    BY <1>1, <2>2
  <2> QED
    BY <2>1, <2>3 DEF HalfWay
<1>5. CASE ~UpdateUser(r) /\ ~UpdateAgent(r) /\ ~InsertOrder(r) /\ ~InsertRecord(r)
  <2>1. score' = score /\ agentScore' = agentScore /\ wrote' = wrote
    BY <1>5 DEF Step, Receive, LockMutex, QueryUser, LockUserScore, TryLock, CheckOrder,
       CheckFunds, CommitOrder, ReleaseLock, UnlockUserScore, mongo
  <2> QED
    BY <2>1
<1> QED
  BY <1>2, <1>3, <1>4, <1>5

\* An amount is an integer.
LEMMA DeltaType == ASSUME TypeOK, NEW r \in Requests PROVE Delta(r) \in Int
BY RequestParts DEF TypeOK, Delta

\* One request more or less among those half way.
LEMMA HalfWayChanges ==
    ASSUME TypeOK, NEW r \in Requests, NEW w, \A s \in Requests \ {r} : w[s] = wrote[s]
    PROVE  /\ SumOver(Requests, HalfWay(wrote)) \in Int
           /\ SumOver(Requests, HalfWay(w))
                = SumOver(Requests, HalfWay(wrote)) + HalfWay(w)[r] - HalfWay(wrote)[r]
<1>1. PICK f, g : f = HalfWay(wrote) /\ g = HalfWay(w)
  OBVIOUS
<1>2. \A s \in Requests : f[s] \in Int /\ g[s] \in Int
  BY <1>1, DeltaType DEF HalfWay
<1>3. \A s \in Requests \ {r} : f[s] = g[s]
  BY <1>1 DEF HalfWay
<1>4. IsFiniteSet(Requests) /\ SumOver(Requests, f) \in Int
  BY <1>2, SumType
<1>5. SumOver(Requests, g) = SumOver(Requests, f) + g[r] - f[r]
  BY <1>2, <1>3, <1>4, SumChange
<1> QED
  BY <1>1, <1>4, <1>5

\* A call of a request moves money between agent, player and what is half way.
LEMMA OwedStep ==
    ASSUME OrderInv, Owed, NEW r \in Requests, Step(r)
    PROVE  Owed'
<1>1. TypeOK /\ req' = req /\ Delta(r) \in Int /\ User(r) \in Users
  BY OthersStand, DeltaType, RequestParts DEF OrderInv, TypeOK
<1>2. HalfWay(wrote)' = HalfWay(wrote')
  <2>1. \A s \in Requests : Delta(s)' = Delta(s)
    BY <1>1, SameRequest
  <2> QED
    BY <2>1 DEF HalfWay
<1>3. PICK h \in Int : h = SumOver(Requests, HalfWay(wrote))
  BY <1>1, HalfWayChanges
<1>4. PICK all \in Int : all = SumOver(Users, score)
  BY <1>1, SumType DEF TypeOK
<1>5. agentScore \in Int /\ InitAgent + Cardinality(Users) * InitScore \in Int
  BY <1>1, FS_CardinalityType DEF TypeOK
<1>6. agentScore + all = InitAgent + Cardinality(Users) * InitScore + h
  BY <1>3, <1>4 DEF Owed
<1>7. CASE score' = score /\ agentScore' = agentScore /\ HalfWay(wrote') = HalfWay(wrote)
  BY <1>2, <1>7 DEF Owed
<1>8. CASE /\ score' = [score EXCEPT ![User(r)] = @ + Delta(r)] /\ agentScore' = agentScore
           /\ wrote' = [wrote EXCEPT ![r] = @ \cup {"user"}] /\ wrote[r] = {"order"}
  <2>1. wrote'[r] = {"order", "user"} /\ \A s \in Requests \ {r} : wrote'[s] = wrote[s]
    BY <1>1, <1>8 DEF TypeOK
  <2>2. HalfWay(wrote')[r] = Delta(r) /\ HalfWay(wrote)[r] = 0
    BY <1>8, <2>1 DEF HalfWay
  <2>3. SumOver(Requests, HalfWay(wrote')) = h + Delta(r)
    <3>1. SumOver(Requests, HalfWay(wrote'))
            = SumOver(Requests, HalfWay(wrote)) + HalfWay(wrote')[r] - HalfWay(wrote)[r]
      BY <1>1, <2>1, HalfWayChanges
    <3> QED
      BY <1>1, <1>3, <2>2, <3>1
  <2>4. SumOver(Users, score') = all + Delta(r)
    <3>1. PICK f, g, u : f = score /\ g = score' /\ u = User(r)
      OBVIOUS
    <3>2. /\ IsFiniteSet(Users) /\ u \in Users /\ \A v \in Users : f[v] \in Int /\ g[v] \in Int
          /\ g[u] = f[u] + Delta(r) /\ \A v \in Users \ {u} : f[v] = g[v]
      BY <1>1, <1>8, <3>1 DEF TypeOK
    <3>3. SumOver(Users, g) = SumOver(Users, f) + g[u] - f[u]
      BY <3>2, SumChange
    <3> QED
      BY <1>1, <1>4, <3>1, <3>2, <3>3
  <2> QED
    BY <1>1, <1>2, <1>5, <1>6, <1>8, <2>3, <2>4 DEF Owed
<1>9. CASE /\ score' = score /\ agentScore' = agentScore - Delta(r)
           /\ wrote' = [wrote EXCEPT ![r] = @ \cup {"agent"}]
           /\ wrote[r] = {"order", "user", "record"}
  <2>1. /\ "agent" \in wrote'[r] /\ "user" \in wrote[r] /\ "agent" \notin wrote[r]
        /\ \A s \in Requests \ {r} : wrote'[s] = wrote[s]
    BY <1>1, <1>9 DEF TypeOK
  <2>2. HalfWay(wrote')[r] = 0 /\ HalfWay(wrote)[r] = Delta(r)
    BY <2>1 DEF HalfWay
  <2>3. SumOver(Requests, HalfWay(wrote')) = h - Delta(r)
    <3>1. SumOver(Requests, HalfWay(wrote'))
            = SumOver(Requests, HalfWay(wrote)) + HalfWay(wrote')[r] - HalfWay(wrote)[r]
      BY <1>1, <2>1, HalfWayChanges
    <3> QED
      BY <1>1, <1>3, <2>2, <3>1
  <2>4. SumOver(Users, score') = all
    BY <1>4, <1>9
  <2> QED
    BY <1>1, <1>2, <1>5, <1>6, <1>9, <2>3, <2>4 DEF Owed
<1> QED
  BY <1>7, <1>8, <1>9, MoneyMoves

\* No step takes a request past its calls without an answer.
LEMMA AnsweredStep == ASSUME TypeOK, Answered, [Next]_vars PROVE Answered'
<1>1. ASSUME NEW r \in Requests, Step(r) PROVE Answered'
  <2>1. \A s \in Requests \ {r} : pc'[s] = pc[s] /\ outcome'[s] = outcome[s]
    BY <1>1, OthersStand
  <2>2. pc'[r] \in {"release", "unlockUser", "done"} => outcome'[r] # "none"
    BY <1>1 DEF Step, Receive, LockMutex, QueryUser, LockUserScore, TryLock, CheckOrder,
       CheckFunds, InsertOrder, UpdateUser, InsertRecord, UpdateAgent, CommitOrder, ReleaseLock,
       UnlockUserScore, Goto, BreakOut, BreakLocked, MongoError, Mark, Written, TypeOK, Answered
  <2> QED
    BY <2>1, <2>2 DEF Answered
<1>2. CASE Environment
  BY <1>2, EnvironmentQuiet DEF Answered
<1>3. CASE UNCHANGED vars
  BY <1>3 DEF vars, local, Answered
<1> QED
  BY <1>1, <1>2, <1>3 DEF Next

\* As long as nobody plays, the agent and the players together have what they
\* started with and the amounts of the orders that are half way: also when
\* Mongo calls fail and nodes crash, these are all that can be missing.
THEOREM OnlyHalfWayIsMissing ==
    ASSUME GameDeltas = {}
    PROVE  Spec => []Owed
<1>1. Init => Owed
  <2> SUFFICES ASSUME Init PROVE Owed
    OBVIOUS
  <2>1. \A u \in Users : score[u] = InitScore
    BY DEF Init
  <2>2. SumOver(Users, score) = InitScore * Cardinality(Users)
    BY <2>1, SumOfEquals, InitScore \in Int
  <2>3. \A r \in Requests : HalfWay(wrote)[r] = 0
    BY DEF Init, HalfWay
  <2>4. SumOver(Requests, HalfWay(wrote)) = 0 * Cardinality(Requests)
    <3>1. PICK f : f = HalfWay(wrote)
      OBVIOUS
    <3> QED
      BY <2>3, <3>1, SumOfEquals, 0 \in Int
  <2>5. Cardinality(Users) \in Nat /\ Cardinality(Requests) \in Nat
    BY FS_CardinalityType
  <2> QED
    BY <2>2, <2>4, <2>5 DEF Init, Owed
<1>2. OrderInv /\ Owed /\ [Next]_vars => Owed'
  <2> SUFFICES ASSUME OrderInv, Owed, [Next]_vars PROVE Owed'
    OBVIOUS
  <2>1. CASE \E r \in Requests : Step(r)
    BY <2>1, OwedStep
  <2>2. CASE Environment \/ UNCHANGED vars
    <3>1. UNCHANGED <<req, score, agentScore, wrote>>
      BY <2>2 DEF Environment, ExpireLock, EnterGame, LeaveGame, ExpireOrderCache,
         RefreshAgentInfo, Crash, local, mongo, vars
    <3>2. HalfWay(wrote)' = HalfWay(wrote)
      BY <3>1 DEF HalfWay, Delta, Adds
    <3> QED
      BY <3>1, <3>2 DEF Owed
  <2> QED
    BY <2>1, <2>2 DEF Next
<1> QED
  BY <1>1, <1>2, OrderInvariant, PTL DEF Spec

\* When every order has been answered and none with an error, nothing is half
\* way: deposits and withdrawals have only moved money.
THEOREM OrdersMoveMoney == Spec => []MoneyConserved
<1>1. OrderInv /\ Answered /\ (GameDeltas = {} => Owed) => MoneyConserved
  <2> SUFFICES ASSUME OrderInv, Answered, Owed, BuyScore,
                      \A r \in Requests : pc[r] \in {"idle", "done"} /\ outcome[r] # "error"
               PROVE  agentScore + SumOver(Users, score) = InitAgent + Cardinality(Users) * InitScore
    BY DEF MoneyConserved
  <2>1. \A r \in Requests : "user" \in wrote[r] => "agent" \in wrote[r]
    BY DEF OrderInv, TypeOK, Ledger, Answered, Outcomes, FullWrite, Collections
  <2>2. \A r \in Requests : HalfWay(wrote)[r] = 0
    BY <2>1 DEF HalfWay
  <2>3. SumOver(Requests, HalfWay(wrote)) = 0 * Cardinality(Requests)
    <3>1. PICK f : f = HalfWay(wrote)
      OBVIOUS
    <3> QED
      BY <2>2, <3>1, SumOfEquals, 0 \in Int
  <2>4. Cardinality(Users) \in Nat /\ Cardinality(Requests) \in Nat
    BY FS_CardinalityType
  <2> QED
    BY <2>3, <2>4 DEF Owed
<1>2. Init => Answered
  BY DEF Init, Answered
<1>3. Spec => [](GameDeltas = {} => Owed)
  <2>1. CASE GameDeltas = {}
    <3>1. Spec => []Owed
      BY <2>1, OnlyHalfWayIsMissing
    <3> QED
      BY <3>1, PTL
  <2>2. CASE GameDeltas # {}
    <3>1. GameDeltas = {} => Owed
      BY <2>2
    <3> QED
      BY <3>1, PTL
  <2> QED
    BY <2>1, <2>2
<1>4. TypeOK /\ Answered /\ [Next]_vars => Answered'
  BY AnsweredStep
<1> QED
  BY <1>1, <1>2, <1>3, <1>4, TypeCorrect, OrderInvariant, PTL DEF Spec
=============================================================================
