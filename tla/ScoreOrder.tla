----------------------------- MODULE ScoreOrder -----------------------------
(***************************************************************************)
(* The score orders of OrderServer: AddOrderScore (deposit) and            *)
(* SubOrderScore (withdrawal), executed by the worker threads of several   *)
(* OrderServer processes ("Api nodes") against one MongoDB and one Redis.  *)
(*                                                                         *)
(* One action is one call to MongoDB or Redis, or one acquisition of the   *)
(* process mutex update_score_mutex_: between two of them every other      *)
(* thread of every node may run.  The Mongo "transaction" that the code    *)
(* starts is absent on purpose: none of the collection calls is given the  *)
(* client_session, so each takes effect by itself and abort_transaction    *)
(* has nothing to undo.                                                    *)
(***************************************************************************)
EXTENDS Integers, FiniteSets, Sums

CONSTANTS Requests,    \* HTTP requests; two may carry the same order id
          Nodes,       \* OrderServer processes
          Users,       \* players (game_user documents)
          Orders,      \* order ids
          Amounts,     \* scores an order may carry, all positive
          InitScore,   \* game_user.score of each player at the start
          InitAgent,   \* proxy_info.score of the agent at the start
          BuyScore,    \* the agent's cooperationtype is eCooType::buyScore
          Merged,      \* built with _USE_SCORE_ORDERS_ (one order collection)
          RetryCount,  \* attempts of CRedLock::Lock (m_defaultRetryCount = 3)
          MongoFails,  \* whether a Mongo call may fail
          LockFails,   \* whether the Redis lock may be refused or may expire
          MaxCrashes,  \* how many process crashes are explored
          GameDeltas,  \* results of game rounds; {} when nobody plays
          NoOwner      \* a mutex or lock nobody holds

ASSUME ScoreOrderAssumption ==
    /\ Amounts \subseteq Nat \ {0}
    /\ InitScore \in Nat /\ InitAgent \in Nat
    /\ BuyScore \in BOOLEAN /\ Merged \in BOOLEAN
    /\ RetryCount \in Nat \ {0} /\ MaxCrashes \in Nat
    /\ MongoFails \in BOOLEAN /\ LockFails \in BOOLEAN
    /\ GameDeltas \subseteq Int
    /\ NoOwner \notin Requests
    /\ IsFiniteSet(Users) /\ IsFiniteSet(Requests)

VARIABLES
    req,         \* what each request asks: operation, order, player, amount, node
    pc,          \* the call its worker thread makes next
    outcome,     \* the errcode it is going to return
    before,      \* its local beforeScore
    tries,       \* attempts left in CRedLock::Lock
    wrote,       \* history: the collections it has written
    lapsed,      \* history: requests whose Redis lock expired under them
    mutex,       \* update_score_mutex_ of each node
    score,       \* game_user.score
    agentScore,  \* proxy_info.score
    orders,      \* unique keys present in the order collection(s)
    userLock,    \* players with a row in lock_user_downscore
    agentCache,  \* agent_info_[agentid].score of each node
    lock,        \* Redis: value of lock.uid:<id>.order
    orderCache,  \* Redis: keys s.order:<id>:add and s.order:<id>:sub
    online,      \* Redis: players with online info (playing)
    chips,       \* the score a playing player's game server holds for him
    crashes      \* process crashes so far

local == <<pc, outcome, before, tries, wrote>>
mongo == <<score, agentScore, orders, userLock>>
redis == <<lock, lapsed, orderCache>>
game  == <<online, chips>>
vars  == <<req, local, mutex, mongo, agentCache, redis, game, crashes>>
-----------------------------------------------------------------------------
Labels == {"idle", "mutex", "query", "userLock", "lock", "order", "funds",
           "insert", "user", "record", "agent", "commit", "release",
           "unlockUser", "done", "crashed"}

\* Calls made while the thread holds the Redis lock (as far as it knows).
Locked == {"order", "funds", "insert", "user", "record", "agent", "commit",
           "release"}

\* Calls a withdrawal makes while it holds update_score_mutex_.
InMutex == {"query", "userLock", "lock", "unlockUser"} \cup Locked

Outcomes    == {"none", "ok", "exists", "refused", "error"}
Collections == {"order", "user", "record", "agent"}

RequestType == [op : {"add", "sub"}, order : Orders, user : Users,
                amount : Amounts, node : Nodes]

Adds(r) == req[r].op = "add"
User(r) == req[r].user
Node(r) == req[r].node

\* The key the UNIQUE(orderid) constraint compares.  In the merged build
\* deposits and withdrawals share the collection score_orders.
OrderKey(r) == IF Merged THEN <<"any", req[r].order>>
                         ELSE <<req[r].op, req[r].order>>

\* The Redis key that remembers a finished order (always per operation).
CacheKey(r) == <<req[r].op, req[r].order>>

OrderKeys == (IF Merged THEN {"any"} ELSE {"add", "sub"}) \X Orders
CacheKeys == {"add", "sub"} \X Orders

\* What the $inc adds to game_user.score.
Delta(r) == IF Adds(r) THEN req[r].amount ELSE -req[r].amount

\* The collections a finished order has written.
FullWrite == IF BuyScore THEN Collections ELSE Collections \ {"agent"}
-----------------------------------------------------------------------------
Init ==
    /\ req \in [Requests -> RequestType]
    /\ pc = [r \in Requests |-> "idle"]
    /\ outcome = [r \in Requests |-> "none"]
    /\ before = [r \in Requests |-> 0]
    /\ tries = [r \in Requests |-> RetryCount]
    /\ wrote = [r \in Requests |-> {}]
    /\ mutex = [n \in Nodes |-> NoOwner]
    /\ score = [u \in Users |-> InitScore]
    /\ agentScore = InitAgent
    /\ orders = {}
    /\ userLock = {}
    /\ agentCache = [n \in Nodes |-> InitAgent]
    /\ lock = [u \in Users |-> NoOwner]
    /\ lapsed = {}
    /\ orderCache = {}
    /\ online = {}
    /\ chips = [u \in Users |-> 0]
    /\ crashes = 0

Goto(r, label) == pc' = [pc EXCEPT ![r] = label]

\* Leave the do { } while (0) block with errcode o before the Redis lock is
\* held: a deposit returns, a withdrawal still calls unlockUserScore.
BreakOut(r, o) ==
    /\ outcome' = [outcome EXCEPT ![r] = o]
    /\ Goto(r, IF Adds(r) THEN "done" ELSE "unlockUser")

\* Leave it while the CGuardLock is alive: its destructor runs first.
BreakLocked(r, o) ==
    /\ outcome' = [outcome EXCEPT ![r] = o]
    /\ Goto(r, "release")

\* Mutant: a failed write is answered like a refusal.
MongoErrorRefused(r) ==
    /\ MongoFails
    /\ BreakLocked(r, "refused")
    /\ UNCHANGED <<before, tries, wrote>>

\* A Mongo call failed (result empty, or an exception): abort_transaction
\* undoes nothing, and the order is answered with an error.
MongoError(r) ==
    /\ MongoFails
    /\ BreakLocked(r, "error")
    /\ UNCHANGED <<before, tries, wrote>>

Mark(r, c) == wrote' = [wrote EXCEPT ![r] = @ \cup {c}]

\* A Mongo write took effect: the thread goes on, or the reply is lost and the
\* write looks like a failed one.
Written(r, next) ==
    \/ Goto(r, next) /\ UNCHANGED outcome
    \/ MongoFails /\ BreakLocked(r, "error")
-----------------------------------------------------------------------------
(* The request thread, call by call. *)

\* onHttpMessage / OrderProcess: the query is parsed, checked and dispatched.
\* A malformed query, a bad signature, a disabled agent or a frozen account
\* is answered without touching any state.
Receive(r) ==
    /\ pc[r] = "idle"
    /\ \/ /\ Goto(r, IF Adds(r) THEN "query" ELSE "mutex")
          /\ UNCHANGED outcome
       \/ /\ Goto(r, "done")
          /\ outcome' = [outcome EXCEPT ![r] = "refused"]
    /\ UNCHANGED <<req, before, tries, wrote, mutex, mongo, agentCache,
                   redis, game, crashes>>

\* Mutant: the mutex keeps nobody out.
LockMutexUnguarded(r) ==
    /\ pc[r] = "mutex"
    /\ mutex' = [mutex EXCEPT ![Node(r)] = r]
    /\ Goto(r, "query")
    /\ UNCHANGED <<req, outcome, before, tries, wrote, mongo, agentCache,
                   redis, game, crashes>>

\* MutexLockGuard lock(update_score_mutex_), withdrawals only.
LockMutex(r) ==
    /\ pc[r] = "mutex"
    /\ mutex[Node(r)] = NoOwner
    /\ mutex' = [mutex EXCEPT ![Node(r)] = r]
    /\ Goto(r, "query")
    /\ UNCHANGED <<req, outcome, before, tries, wrote, mongo, agentCache,
                   redis, game, crashes>>

\* userCollection.find_one: beforeScore is read here, before any lock that
\* another node would respect.  A withdrawal is refused when the score is
\* negative or when hugeProfitCheck sends it to an audit.
QueryUser(r) ==
    /\ pc[r] = "query"
    /\ \/ /\ before' = [before EXCEPT ![r] = score[User(r)]]
          /\ \/ /\ Adds(r)
                /\ Goto(r, "lock")
                /\ UNCHANGED outcome
             \/ /\ ~Adds(r)
                /\ score[User(r)] >= 0
                /\ Goto(r, "userLock")
                /\ UNCHANGED outcome
             \/ /\ ~Adds(r)
                /\ BreakOut(r, "refused")
       \/ /\ MongoFails
          /\ BreakOut(r, "error")
          /\ UNCHANGED before
    /\ UNCHANGED <<req, tries, wrote, mutex, mongo, agentCache, redis,
                   game, crashes>>

\* lockUserScore: insert a row into lock_user_downscore, unique per player.
\* When Mongo fails, the row may have been inserted and the reply lost.
LockUserScore(r) ==
    /\ pc[r] = "userLock"
    /\ \/ /\ User(r) \notin userLock
          /\ userLock' = userLock \cup {User(r)}
          /\ Goto(r, "lock")
          /\ UNCHANGED outcome
       \/ /\ User(r) \in userLock \/ MongoFails
          /\ BreakOut(r, "refused")
          /\ userLock' \in {userLock, userLock \cup {User(r)}}
    /\ UNCHANGED <<req, before, tries, wrote, mutex, score, agentScore,
                   orders, agentCache, redis, game, crashes>>

\* Mutant: SET without NX.
TryLockOverwrites(r) ==
    /\ pc[r] = "lock"
    /\ \/ /\ lock' = [lock EXCEPT ![User(r)] = r]
          /\ Goto(r, "order")
          /\ UNCHANGED <<outcome, tries>>
       \/ /\ lock[User(r)] # NoOwner \/ LockFails
          /\ tries' = [tries EXCEPT ![r] = @ - 1]
          /\ IF tries[r] > 1
                THEN UNCHANGED <<pc, outcome>>
                ELSE BreakOut(r, "refused")
          /\ UNCHANGED lock
    /\ UNCHANGED <<req, before, wrote, mutex, mongo, agentCache,
                   lapsed, orderCache, game, crashes>>

\* One attempt of CRedLock::Lock, with the pause after a failed one.  The
\* value stored is unique to the request.
TryLock(r) ==
    /\ pc[r] = "lock"
    /\ \/ /\ lock[User(r)] = NoOwner
          /\ lock' = [lock EXCEPT ![User(r)] = r]
          /\ Goto(r, "order")
          /\ UNCHANGED <<outcome, tries>>
       \/ /\ lock[User(r)] # NoOwner \/ LockFails
          /\ tries' = [tries EXCEPT ![r] = @ - 1]
          /\ IF tries[r] > 1
                THEN UNCHANGED <<pc, outcome>>
                ELSE BreakOut(r, "refused")
          /\ UNCHANGED lock
    /\ UNCHANGED <<req, before, wrote, mutex, mongo, agentCache,
                   lapsed, orderCache, game, crashes>>

\* REDISCLIENT.exists("s.order:" + orderId + ...).  A deposit of a buyScore
\* agent is then compared with the score this node remembers of the agent.
CheckOrder(r) ==
    /\ pc[r] = "order"
    /\ \/ /\ CacheKey(r) \in orderCache
          /\ BreakLocked(r, "exists")
       \/ /\ CacheKey(r) \notin orderCache
          /\ Adds(r) /\ BuyScore /\ req[r].amount > agentCache[Node(r)]
          /\ BreakLocked(r, "refused")
       \/ /\ CacheKey(r) \notin orderCache
          /\ Adds(r) => ~(BuyScore /\ req[r].amount > agentCache[Node(r)])
          /\ Goto(r, IF Adds(r) THEN "insert" ELSE "funds")
          /\ UNCHANGED outcome
    /\ UNCHANGED <<req, before, tries, wrote, mutex, mongo, agentCache,
                   redis, game, crashes>>

\* Withdrawals: ExistsUserOnlineInfo, then beforeScore < score.
CheckFunds(r) ==
    /\ pc[r] = "funds"
    /\ IF User(r) \in online \/ before[r] < req[r].amount
          THEN BreakLocked(r, "refused")
          ELSE /\ Goto(r, "insert")
               /\ UNCHANGED outcome
    /\ UNCHANGED <<req, before, tries, wrote, mutex, mongo, agentCache,
                   redis, game, crashes>>

\* Mutant: the order is remembered in Redis as soon as it is inserted.
InsertOrderRemembers(r) ==
    /\ pc[r] = "insert"
    /\ \/ /\ OrderKey(r) \notin orders
          /\ orders' = orders \cup {OrderKey(r)}
          /\ orderCache' = orderCache \cup {CacheKey(r)}
          /\ Mark(r, "order")
          /\ Written(r, "user")
          /\ UNCHANGED <<before, tries>>
       \/ /\ OrderKey(r) \in orders
          /\ BreakLocked(r, "exists")
          /\ UNCHANGED <<orders, orderCache, before, tries, wrote>>
    /\ UNCHANGED <<req, mutex, score, agentScore, userLock, agentCache, lock,
                   lapsed, game, crashes>>

\* Mutant: no unique index on orderid.
InsertOrderNotUnique(r) ==
    /\ pc[r] = "insert"
    /\ \/ /\ orders' = orders \cup {OrderKey(r)}
          /\ Mark(r, "order")
          /\ Written(r, "user")
          /\ UNCHANGED <<before, tries>>
       \/ /\ OrderKey(r) \in orders
          /\ BreakLocked(r, "exists")
          /\ UNCHANGED <<orders, before, tries, wrote>>
       \/ MongoError(r) /\ UNCHANGED orders
    /\ UNCHANGED <<req, mutex, score, agentScore, userLock, agentCache, redis,
                   game, crashes>>

\* insert_one into the order collection.  A duplicate key is error 11000.
InsertOrder(r) ==
    /\ pc[r] = "insert"
    /\ \/ /\ OrderKey(r) \notin orders
          /\ orders' = orders \cup {OrderKey(r)}
          /\ Mark(r, "order")
          /\ Written(r, "user")
          /\ UNCHANGED <<before, tries>>
       \/ /\ OrderKey(r) \in orders
          /\ BreakLocked(r, "exists")
          /\ UNCHANGED <<orders, before, tries, wrote>>
       \/ MongoError(r) /\ UNCHANGED orders
    /\ UNCHANGED <<req, mutex, score, agentScore, userLock, agentCache, redis,
                   game, crashes>>

\* update_one on game_user: $inc score by +score or -score.
UpdateUser(r) ==
    /\ pc[r] = "user"
    /\ \/ /\ score' = [score EXCEPT ![User(r)] = @ + Delta(r)]
          /\ Mark(r, "user")
          /\ Written(r, "record")
          /\ UNCHANGED <<before, tries>>
       \/ MongoError(r) /\ UNCHANGED score
    /\ UNCHANGED <<req, mutex, agentScore, orders, userLock, agentCache, redis,
                   game, crashes>>

\* insert_one into user_score_record: beforechange = beforeScore.  The upsert of
\* a deposit into user_score_add_last_record right after it is part of this step:
\* nothing here reads it, and when it fails (an exception), the thread goes on as
\* if the reply of this write had been lost.
InsertRecord(r) ==
    /\ pc[r] = "record"
    /\ \/ /\ Mark(r, "record")
          /\ Written(r, IF BuyScore THEN "agent" ELSE "commit")
          /\ UNCHANGED <<before, tries>>
       \/ MongoError(r)
    /\ UNCHANGED <<req, mutex, mongo, agentCache, redis, game, crashes>>

\* Mutant: a withdrawal is charged to the agent too.
UpdateAgentOneSign(r) ==
    /\ pc[r] = "agent"
    /\ \/ /\ agentScore' = agentScore - req[r].amount
          /\ agentCache' = [agentCache EXCEPT ![Node(r)] =
                               IF Adds(r) THEN agentScore' ELSE agentScore]
          /\ Mark(r, "agent")
          /\ Written(r, "commit")
          /\ UNCHANGED <<before, tries>>
       \/ MongoError(r) /\ UNCHANGED <<agentScore, agentCache>>
    /\ UNCHANGED <<req, mutex, score, orders, userLock, redis, game, crashes>>

\* find_one_and_update on proxy_info.  A deposit asks for the document after
\* the update, a withdrawal gets the one before it, and the node remembers
\* the score of the document it was given.
UpdateAgent(r) ==
    /\ pc[r] = "agent"
    /\ \/ /\ agentScore' = agentScore - Delta(r)
          /\ agentCache' = [agentCache EXCEPT ![Node(r)] =
                               IF Adds(r) THEN agentScore' ELSE agentScore]
          /\ Mark(r, "agent")
          /\ Written(r, "commit")
          /\ UNCHANGED <<before, tries>>
       \/ MongoError(r) /\ UNCHANGED <<agentScore, agentCache>>
    /\ UNCHANGED <<req, mutex, score, orders, userLock, redis, game, crashes>>

\* Mutant: the Redis key is made from the key of the order's row, which in the
\* merged build lacks the operation.
CommitOrderByRow(r) ==
    /\ pc[r] = "commit"
    /\ orderCache' = orderCache \cup {OrderKey(r)}
    /\ BreakLocked(r, "ok")
    /\ UNCHANGED <<req, before, tries, wrote, mutex, mongo, agentCache,
                   lock, lapsed, game, crashes>>

\* commit_transaction and REDISCLIENT.set("s.order:...", expiry).
CommitOrder(r) ==
    /\ pc[r] = "commit"
    /\ orderCache' = orderCache \cup {CacheKey(r)}
    /\ BreakLocked(r, "ok")
    /\ UNCHANGED <<req, before, tries, wrote, mutex, mongo, agentCache,
                   lock, lapsed, game, crashes>>

\* Mutant: the key is deleted whatever value it holds.
ReleaseLockAny(r) ==
    /\ pc[r] = "release"
    /\ \/ lock' = [lock EXCEPT ![User(r)] = NoOwner]
       \/ LockFails /\ UNCHANGED lock
    /\ Goto(r, IF Adds(r) THEN "done" ELSE "unlockUser")
    /\ UNCHANGED <<req, outcome, before, tries, wrote, mutex, mongo,
                   agentCache, lapsed, orderCache, game, crashes>>

\* ~CGuardLock: the unlock script deletes the key only if it holds our value.
\* When the script does not reach Redis, the key stays until it expires.
ReleaseLock(r) ==
    /\ pc[r] = "release"
    /\ \/ lock' = [lock EXCEPT ![User(r)] = IF @ = r THEN NoOwner ELSE @]
       \/ LockFails /\ UNCHANGED lock
    /\ Goto(r, IF Adds(r) THEN "done" ELSE "unlockUser")
    /\ UNCHANGED <<req, outcome, before, tries, wrote, mutex, mongo,
                   agentCache, lapsed, orderCache, game, crashes>>

\* Mutant: the mutex is not left.
UnlockUserScoreOnly(r) ==
    /\ pc[r] = "unlockUser"
    /\ \/ userLock' = userLock \ {User(r)}
       \/ MongoFails /\ UNCHANGED userLock
    /\ Goto(r, "done")
    /\ UNCHANGED <<req, outcome, before, tries, wrote, mutex, score,
                   agentScore, orders, agentCache, redis, game, crashes>>

\* unlockUserScore on every way out of SubOrderScore: whatever row the player
\* has is deleted, whoever inserted it.  The mutex is left with the function.
UnlockUserScore(r) ==
    /\ pc[r] = "unlockUser"
    /\ \/ userLock' = userLock \ {User(r)}
       \/ MongoFails /\ UNCHANGED userLock
    /\ mutex' = [mutex EXCEPT ![Node(r)] = NoOwner]
    /\ Goto(r, "done")
    /\ UNCHANGED <<req, outcome, before, tries, wrote, score,
                   agentScore, orders, agentCache, redis, game, crashes>>

Step(r) ==
    \/ Receive(r) \/ LockMutex(r) \/ QueryUser(r) \/ LockUserScore(r)
    \/ TryLock(r) \/ CheckOrder(r) \/ CheckFunds(r) \/ InsertOrder(r)
    \/ UpdateUser(r) \/ InsertRecord(r) \/ UpdateAgent(r) \/ CommitOrder(r)
    \/ ReleaseLock(r) \/ UnlockUserScore(r)
-----------------------------------------------------------------------------
(* What happens around the requests. *)

\* The lock's time-to-live runs out while its holder is still at work.
ExpireLock(u) ==
    /\ LockFails
    /\ lock[u] # NoOwner
    /\ lock' = [lock EXCEPT ![u] = NoOwner]
    /\ lapsed' = lapsed \cup {lock[u]}
    /\ UNCHANGED <<req, local, mutex, mongo, agentCache, orderCache, game,
                   crashes>>

\* orderIdExpiredSeconds_ after the order finished.
ExpireOrderCache(k) ==
    /\ k \in orderCache
    /\ orderCache' = orderCache \ {k}
    /\ UNCHANGED <<req, local, mutex, mongo, agentCache, lock, lapsed, game,
                   crashes>>

\* refreshAgentInfo: the cached agents are read again from proxy_info.
RefreshAgentInfo(n) ==
    /\ agentCache' = [agentCache EXCEPT ![n] = agentScore]
    /\ UNCHANGED <<req, local, mutex, mongo, redis, game, crashes>>

\* The process dies: its threads and its mutex are gone, Redis keys and Mongo
\* rows stay.  It restarts and refreshes the agents.
Crash(n) ==
    /\ crashes < MaxCrashes
    /\ crashes' = crashes + 1
    /\ pc' = [r \in Requests |->
                 IF Node(r) = n /\ pc[r] \notin {"idle", "done"}
                    THEN "crashed" ELSE pc[r]]
    /\ mutex' = [mutex EXCEPT ![n] = NoOwner]
    /\ agentCache' = [agentCache EXCEPT ![n] = agentScore]
    /\ UNCHANGED <<req, outcome, before, tries, wrote, mongo, redis,
                   game>>

\* The player sits down: the hall writes the online info and the game server
\* loads his score.
EnterGame(u) ==
    /\ GameDeltas # {}
    /\ u \notin online
    /\ score[u] >= 0
    /\ online' = online \cup {u}
    /\ chips' = [chips EXCEPT ![u] = score[u]]
    /\ UNCHANGED <<req, local, mutex, mongo, agentCache, redis, crashes>>

\* UpdateUserScoreToDB of the game server: a round is settled with $inc; the
\* player cannot lose more than the score his table knows.
GameResult(u, d) ==
    /\ u \in online
    /\ chips[u] + d >= 0
    /\ chips' = [chips EXCEPT ![u] = @ + d]
    /\ score' = [score EXCEPT ![u] = @ + d]
    /\ UNCHANGED <<req, local, mutex, agentScore, orders, userLock, agentCache,
                   redis, online, crashes>>

\* DelUserOnlineInfo when he stands up.
LeaveGame(u) ==
    /\ u \in online
    /\ online' = online \ {u}
    /\ chips' = [chips EXCEPT ![u] = 0]
    /\ UNCHANGED <<req, local, mutex, mongo, agentCache, redis, crashes>>

Environment ==
    \/ \E u \in Users : ExpireLock(u) \/ EnterGame(u) \/ LeaveGame(u)
    \/ \E u \in Users, d \in GameDeltas : GameResult(u, d)
    \/ \E k \in orderCache : ExpireOrderCache(k)
    \/ \E n \in Nodes : RefreshAgentInfo(n) \/ Crash(n)

Next ==
    \/ \E r \in Requests : Step(r)
    \/ Environment

Spec == Init /\ [][Next]_vars

\* A worker thread that has been given a request keeps running, and whoever
\* waits for a free mutex gets it in the end.  Requests need not arrive.
Progress(r) == pc[r] # "idle" /\ Step(r)

FairSpec == Spec /\ \A r \in Requests : WF_vars(Progress(r))
-----------------------------------------------------------------------------
(* Properties. *)

\* The types.  The rows are those of the build's collection(s), Redis remembers
\* an order under the operation it was for, and a table's score of a player
\* is never negative.
TypeOK ==
    /\ req \in [Requests -> RequestType]
    /\ pc \in [Requests -> Labels]
    /\ outcome \in [Requests -> Outcomes]
    /\ before \in [Requests -> Int]
    /\ tries \in [Requests -> Int]
    /\ wrote \in [Requests -> SUBSET Collections]
    /\ mutex \in [Nodes -> Requests \cup {NoOwner}]
    /\ score \in [Users -> Int]
    /\ agentScore \in Int
    /\ orders \in SUBSET OrderKeys
    /\ userLock \in SUBSET Users
    /\ agentCache \in [Nodes -> Int]
    /\ lock \in [Users -> Requests \cup {NoOwner}]
    /\ lapsed \in SUBSET Requests
    /\ orderCache \in SUBSET CacheKeys
    /\ online \in SUBSET Users
    /\ chips \in [Users -> Nat]
    /\ crashes \in 0 .. MaxCrashes

\* An order moves a player's score at most once, however often its request is
\* repeated, on whichever node, and although the Redis key that remembers it
\* and the Redis lock may both expire (InsertOrder before UpdateUser).
AppliedAtMostOnce ==
    \A r, s \in Requests :
        /\ r # s
        /\ OrderKey(r) = OrderKey(s)
        => ~("user" \in wrote[r] /\ "user" \in wrote[s])

\* What the agent's site is told is true: "ok" means that every collection was
\* written, "exists" that some request inserted that order, and a refusal
\* (any errcode but a Mongo error) that nothing was written.
AnswerIsTruthful ==
    \A r \in Requests :
        /\ outcome[r] = "ok" => wrote[r] = FullWrite
        /\ outcome[r] = "exists" =>
              \E s \in Requests : OrderKey(s) = OrderKey(r) /\ "order" \in wrote[s]
        /\ outcome[r] \in {"exists", "refused"} => wrote[r] = {}

\* A key s.order:<id>:<op> in Redis stands for an order that was carried out
\* completely: the early "exists" answer of CheckOrder never hides a half
\* executed order.
CacheSound ==
    \A k \in orderCache :
        \E r \in Requests : CacheKey(r) = k /\ wrote[r] = FullWrite

\* What a request has written, and what it answers, seen from the call it
\* makes next.
Ledger(r) ==
    /\ pc[r] \in Labels \ {"release", "unlockUser", "done", "crashed"}
          => outcome[r] = "none"
    /\ pc[r] \in {"idle", "mutex", "query", "userLock", "lock", "order",
                   "funds", "insert"} => wrote[r] = {}
    /\ pc[r] = "user" => wrote[r] = {"order"}
    /\ pc[r] = "record" => wrote[r] = {"order", "user"}
    /\ pc[r] = "agent" => wrote[r] = {"order", "user", "record"} /\ BuyScore
    /\ pc[r] = "commit" => wrote[r] = FullWrite
    /\ "user" \in wrote[r] => "order" \in wrote[r]
    /\ outcome[r] = "ok" => wrote[r] = FullWrite
    /\ outcome[r] \in {"exists", "refused"} => wrote[r] = {}

\* Each row of the order collection was inserted by exactly one request.
OneInserter ==
    /\ \A r \in Requests : "order" \in wrote[r] => OrderKey(r) \in orders
    /\ \A k \in orders :
          \E r \in Requests : OrderKey(r) = k /\ "order" \in wrote[r]
    /\ \A r, s \in Requests :
          /\ r # s
          /\ OrderKey(r) = OrderKey(s)
          => ~("order" \in wrote[r] /\ "order" \in wrote[s])

\* The inductive invariant behind AppliedAtMostOnce, AnswerIsTruthful and
\* CacheSound.
OrderInv ==
    /\ TypeOK
    /\ \A r \in Requests : Ledger(r)
    /\ OneInserter
    /\ AnswerIsTruthful
    /\ CacheSound

\* A request whose Redis lock has not expired still holds it at every call of
\* the guarded section: no other request's unlock takes it away.  Hence two
\* requests for one player overlap there only after an expiry.
LeaseHeld ==
    \A r \in Requests :
        pc[r] \in Locked /\ r \notin lapsed => lock[User(r)] = r

Lease == INSTANCE LeaseLock
             WITH holder <- lock, Keys <- Users, Clients <- Requests

\* The players' locks behave as the abstract locks: TryLock takes a free lock
\* only, and nothing but ReleaseLock and the expiry frees it.
LockIsLease == Lease!Spec

\* A withdrawal never takes more than the player has ("score not enough, cannot
\* withdraw").  SubOrderScore compares the amount with beforeScore, read long
\* before the $inc.
ScoreNeverNegative == \A u \in Users : score[u] >= 0

\* All withdrawals of a player go to one node, so that one mutex covers them.
Sticky ==
    \A r, s \in Requests :
        ~Adds(r) /\ ~Adds(s) /\ User(r) = User(s) => Node(r) = Node(s)

\* With one node for all withdrawals of a player, update_score_mutex_ makes the
\* early read of beforeScore harmless, although the Redis lock expires and
\* deposits run beside (as long as nobody plays: GameDeltas is empty).
NoOverdraftIfSticky == Sticky => ScoreNeverNegative

\* update_score_mutex_ is held throughout SubOrderScore and unknown to
\* AddOrderScore.
MutexHeld ==
    \A r \in Requests :
        /\ ~Adds(r) /\ pc[r] \in InMutex => mutex[Node(r)] = r
        /\ Adds(r) => pc[r] \notin {"mutex", "unlockUser"}

\* A withdrawal that has not been applied yet never overestimates the player's
\* score, and from the insert on it is covered by what it read.
ReadIsCovered ==
    \A r \in Requests : ~Adds(r) =>
        /\ pc[r] \in {"userLock", "lock", "order", "funds", "insert", "user"}
              => before[r] <= score[User(r)]
        /\ pc[r] \in {"insert", "user"} => req[r].amount <= before[r]

\* The inductive invariant behind ScoreNeverNegative.
StickyInv ==
    /\ TypeOK
    /\ Sticky
    /\ MutexHeld
    /\ ReadIsCovered
    /\ ScoreNeverNegative

\* Whenever no order is in progress and none has ended with an error, deposits
\* have taken from the agent what they gave to the players, and withdrawals the
\* reverse, although the two documents are written one after the other and
\* other orders run in between (as long as nobody plays).
MoneyConserved ==
    /\ BuyScore /\ GameDeltas = {}
    /\ \A r \in Requests : pc[r] \in {"idle", "done"} /\ outcome[r] # "error"
    => agentScore + SumOver(Users, score)
         = InitAgent + Cardinality(Users) * InitScore

\* Every request a worker has started on is answered, unless its node crashes:
\* nobody waits for ever for the mutex, the score row or the Redis lock.
AllAnswered ==
    \A r \in Requests : pc[r] # "idle" ~> pc[r] \in {"done", "crashed"}
=============================================================================
