# A TLA+ verification project for H5Server

H5Server is a platform of card games: C++ servers on the muduo event loop, with MongoDB as the
database, Redis for shared, expiring state, and ZooKeeper for service discovery. Players connect
through a proxy to a hall, which sends them to the room of a game server; partner sites ("agents")
move score in and out of the players' accounts through an order server.

This project models the parts that carry the logic that is hard to get right:

| part | modules | why it is hard |
|---|---|---|
| score orders of OrderServer | `ScoreOrder` | several processes and threads, four database writes without a transaction, repeated requests, crashes |
| the Redis lock they use | `RedLock`, `LeaseLock` | quorum over several masters, lost commands and replies, expiry, coarse clocks |
| logins, between ProxyServer and HallServer | `Login` | two threads of each proxy and all proxies at once, announcements out of order |
| a player's way from a connection to a chair: ProxyServer, HallServer, GameServer | `Session` | processes that share nothing but Redis, check-then-set, delayed messages |
| a room of GameServer with a confrontation game (Game_Qzzjh) | `GameRoom` | players, androids, timers and repairs in any order |
| the money of a round of that game | `Settlement` | integer divisions, winnings cut to what the other side has |
| the knock-out matches of MatchServer | `MatchRoom` | matches that share tables and androids, tables that finish in any order, ranking, fees and awards |

Each has a module of proofs (`ScoreOrderProofs`, ...; section 4) and an `MC` module with its instances.
`Sums` is the sum over a finite set that the properties about money are stated with, `SumTheorems` what
the proofs use of it.

## 1. Inventory

**OrderServer** (`src/Framework/OrderServer/OrderServer.cpp`). HTTP requests `OpAddScore` (deposit)
and `OpSubScore` (withdrawal) are executed by a pool of worker threads in each of several processes.
State: `game_user.score`, `proxy_info.score`, the order collections, `user_score_record`,
`lock_user_downscore` (MongoDB); the lock `lock.uid:<id>.order`, the keys `s.order:<id>:<op>` and the
players' online info (Redis); `update_score_mutex_` and `agent_info_` (process memory). Hard: two
nodes on one player, failures in the middle, an expired lock, a crash. Correct means: an order moves
score at most once, the answer is true, no score is overdrawn, money is conserved.

**CRedLock, CGuardLock** (`src/public/RedisClient/redlock.*`). SET NX PX on N masters, a majority
within the time-to-live, compare-and-delete to unlock, an optional "continue" mode in which a
thread's next call takes over its last key. Correct means: no two running leases.

**GameServer** (`src/Framework/GameServer`). `CServerUserManager` keeps a pool of player items and a
map from users to items; `CGameTableManager` the lists of used and free tables; `CTableFrame` the
chairs and the framework's part of each handler; a *sink* loaded per game (`src/Games/*`) the
matching, the phases and the timers; `CAndroidUserManager` seats androids. All of it runs on one
logic thread per room. Messages: enter, left, offline, game message, repair. Correct means: map,
items, chairs and online info agree; a table that waits has a timer; a round keeps its players and
ends; nobody is kept at a table.

**HallServer** (`src/Framework/HallServer`). Login (announced to the proxies, new password), choice of
a game or match server (writes the online info), safe box, records. Requests run on a pool of
threads. Interacts with rooms through the online info in Redis only. Correct means: a player is
granted one server at a time.

**ProxyServer** (`src/Framework/ProxyServer`). WebSocket sessions, `m_clientHallUserIdWeaConnMap` from
users to connections, routing to hall and game server, closing an earlier session, OFFLINE messages
to both. Correct means: a login takes the place of the session before it, and no other; a game
server never goes back to an older session.

**MatchServer** (`src/Framework/MatchServer`). `MatchRoomManager` keeps used and free match rooms;
`IMatchRoom` and `MatchRoom` the players in rank order, those who wait, the tables and the count of
those who finished; `CGameTableManager` the tables all matches share; `CAndroidUserManager` fills
rooms. All of it runs on one logic thread. Correct means: nobody is lost, counted twice or in two
matches; a match that starts ends; fees and awards add up; the ranking decides who stays.

**TransferServer, LotteryServer** are variants of OrderServer for other partners and share its
`lock_user_downscore` protocol. **RegisteServer, PayServer, HttpServer** are HTTP front ends.
**Games**: about 45 table sinks with their androids. **ScheduledTasks**: nightly reports.
**RedisClient, zookeeperclient**: wrappers. Vendored code (muduo, hiredis, Json, RocketMQ, ...)
is not part of the inventory. `PROJECT.json` lists each part with what is modelled of it.

The hazards that the properties are for are listed in `PROJECT.json`, each at its line.

## 2. Modules

### ScoreOrder

One action is one call to MongoDB or Redis, or one acquisition of the mutex; between two of them
every other thread of every node runs. `pc[r]` is the call a request makes next, `req[r]` what it
asks for (operation, order, player, amount, node), `outcome`, `before`, `tries` its locals. `wrote`
and `lapsed` are history variables. The calls in order (`AddOrderScore`, `SubOrderScore`):

| action | code |
|---|---|
| `Receive` | `OrderProcess`, `doOrderExecute`: dispatch, or a refusal that touches nothing |
| `LockMutex` | `update_score_mutex_`, withdrawals only |
| `QueryUser` | `find_one` on `game_user`: `beforeScore`; `hugeProfitCheck` is a refusal that may happen |
| `LockUserScore` | insert into `lock_user_downscore` |
| `TryLock` | one attempt of `CRedLock::Lock` |
| `CheckOrder` | the key `s.order:<id>:<op>`; the agent's stock for a deposit |
| `CheckFunds` | online info, `beforeScore < score` |
| `InsertOrder`, `UpdateUser`, `InsertRecord`, `UpdateAgent` | the four writes |
| `CommitOrder` | the order is remembered in Redis |
| `ReleaseLock` | the destructor of `CGuardLock` |
| `UnlockUserScore` | on every way out of a withdrawal; the mutex is left |

Around them: `ExpireLock`, `ExpireOrderCache`, `RefreshAgentInfo`, `Crash`, and a player who enters a
game, plays and leaves it (`EnterGame`, `GameResult`, `LeaveGame`).

There is no transaction in the model because there is none in the program: `start_transaction` is
called on a `client_session` that no collection call receives. A write may fail, or take effect and
lose its reply (`Written`, `MongoError`); the two look alike to the thread. The unique index on
`orderid` is how `InsertOrder` behaves (error 11000 in the code). `Merged` chooses the build with
`_USE_SCORE_ORDERS_` (one collection for both operations, as in `OrderServer.pro`), `BuyScore` the
agent's cooperation type. The upsert of a deposit's last record (3312-3321) is part of `InsertRecord`.

### LeaseLock and RedLock

`LeaseLock` is the abstract lock: granted while free, freed by unlock or expiry, never handed
directly from one client to another. `ScoreOrder` (with one key per player) and `RedLock` (with one
resource on N masters) are both shown to implement it: `INSTANCE LeaseLock WITH holder <- ...`.

In `RedLock` a *call* is the life of one `CGuardLock`; each step is one Redis command
(`LockInstance`, `UnlockInstance`), the decision after the loop (`Decide`), the end of the retry
delay (`Retry`) or of the guarded section (`Leave`). Every command or reply may be lost. Time is a
variable; `Tick` lets it pass and drops expired keys. `Millis` is `(int)time(NULL) * 1000`: cut to
whole seconds and wrapped to the width of an int (the signed overflow wraps in the builds of this
code). The lease of a call counts from the start of its successful attempt.

### GameRoom

One action is one message or timer of the logic thread, from the handler's first line to the last
call it makes, the sink's part included.

| action | code |
|---|---|
| `Enter`, `EnterTableFull`, `EnterRefused`, `EnterElsewhere`, `Reenter` | the outcomes of `cmd_enter_room` |
| `UserLeft`, `UserOffline` | `cmd_user_left`, `cmd_user_offline`, then the sink's `OnUserLeft` |
| `GameMessage`, `PhaseTimer` | a player's call, bet or open; the timer that does it for the rest |
| `ReadyTimer`, `GameEndTimer` | `OnTimerGameReadyOver`, `OnTimerGameEnd` |
| `AndroidEnter` | `OnTimerCheckUserIn`, one table of its loop |
| `RepairServer`, `HallGrant`, `OnlineGone` | repair notice, the hall's grant, expiry of online info |

`stale[t]` counts ready timers that are pending but whose id has been overwritten: `ArmReady` follows
`timerGameReadyID_ = runAfter(...)`, which forgets a pending timer instead of cancelling it.

Abstractions. A chair is any free chair; tables are searched in any order; cards, bets and scores are
left out (a banker is any player at the table, and `GameTimerReadyOver` may find androids too poor,
while a player's score was checked when he entered and does not change before his round). The pairs
that `matchforbids` keeps apart are a constant. The wish for a certain table is a parameter; refusals
that change nothing are stuttering. Trusteeship is not read by this game. The online info of a seated
player is renewed by keep-alive messages and by `WriteUserScore`, so only a player who is not seated
loses it by expiry. `KickAllTableUser` and `FreeNormalTable` are never called and not modelled. The
status values sSit and sFree are left before their handler ends. User ids are taken to fit into an int,
to which `DeleteUserItem` cuts them.

### Login and Session

Both are about one player. In `Login` a step is one Redis command of a hall or one critical section
of a proxy: `PublishLogin` and `SetPassword` are `cmd_login_servers`; `LoginReply` and
`MapConnection` the two critical sections of `processHallRequest`; `notifyUserLoginMessage` the
announcement as every proxy handles it; `Disconnect` the end of a connection, `ForceClose` the one
that `forceCloseWithDelay` brings about. `mapped[p]` is a weak pointer: `Locked` is what it locks to.

`Session` leaves the closing of connections to `Login` (a connection may be lost at any time) and
follows the player through the servers, one Redis command per step:

| action | code |
|---|---|
| `Connect`, `SetPassword`, `LoginReply`, `Disconnect` | connection and login; an OFFLINE for the game server |
| `RequestGame`, `ReadOnline`, `SetOnlineIP`, `NoServer`, `SetOnline`, `GrantReply` | `cmd_get_game_server_message` and the proxy's handling of the answer |
| `SendEnter`, `cmd_enter_room`, `CheckUserCanEnterRoom`, `RoomSitChair`, `EnterRefused` | an entry and its outcomes |
| `LeaveTable`, `cmd_user_offline`, `OnlineExpires` | leaving, a delayed OFFLINE, expiry in Redis |

Messages from proxies to game servers are a set, delivered in any order and at any time. `MayOverlap`
says whether a second request or entry may begin while one is at work. The online info of a seated
player does not expire: clients renew it, and so does the end of a round. A proxy may have lost the
game server when the answer arrives (`GrantReply`, the route stays). A second login on the same
connection is not modelled. User ids fit into an int (`asInt()` in `notifyUserLoginMessage`).

### Settlement

The amounts of a round, in the code's order of operations: `OnUserCallBanker`, `OnUserAddScore`,
`OpenCards`, one `Compare` per turn of the loop of `NormalGameEnd`, and `NormalGameEnd` with the
sharing, the revenue and the system's stock. A hand is its multiple; of two hands with the same
multiple either may be the better. `SettlementAssumption` says what the code relies on: positive
scores, four jettons of at most 20 (`multiJettonable_` is an `int8_t[4]`). Records and what is only
displayed are left out; `_STORAGESCORE_SEPARATE_STAT_` is not defined.

### MatchRoom

One action is one message or timer of the logic thread.

| action | code |
|---|---|
| `GrantMatch` | the hall, as in `Session` |
| `cmd_enter_match`, `EnterRefused` | `cmd_enter_match` with `FindNormalSuitMatch`, `JoinMatch` and, for the last to join, `StartMatch` or `clearAllUser` |
| `LeftMatch` | `cmd_left_match`, `cmd_user_offline` |
| `OnTimerCheckUserIn`, `openMatchTimer` | the android timer; the opening times |
| `OnEventGameConclude`, `GameTimerEnd` | the end of a game at a table, and everybody leaving it (`UserOutTable`) |
| `AllocateUser` | `EndRound` or `DealAgain` |

`AllocateRoom` seats the waiting players from the back of `vec_WaitUser_`, each at the first table
with a free chair; `Turn` says how many sit down before a table is found, so that the loop is one
definition. `SortUser` is the selection sort of the code: by score, and by the earlier rank. What a
game does to the match scores is any result. `LayoutAssumption` says that the numbers of players
fill the tables and that each round lets fewer pass. Rounds are counted from 1. `LeftMatch` logs
through an iterator it has just erased (`IMatchRoom.cpp` 86-89); that is not modelled.

The start of a game (`Starts`). When the first player sits down the sink draws `MaxGamePlayers_` with
the weights of `qznn_config.ini`; whoever makes the table reach that number calls
`GameTimerReadyOver`, which starts the game if all `minPlayerNum` (= `maxPlayerNum`, here `TableSize`)
chairs are taken and otherwise sets the table back to wait for the next player. A table is dealt in one
callback, so nobody can go offline between sitting down and the start, and nobody is too poor
(`enterMinScore` is 0 in a match). `DrawAssumption` says that no more players are drawn than the table
has chairs; then a table starts exactly when its last chair is taken. With a larger number a full table
would wait about 5 seconds for `OnTimerGameReadyOver`, and a player who goes offline meanwhile would be
sent away and leave a table that never starts: `MatchEnds`, `OneMatchPerTable` and `InStepAtTable` do not
cover such a configuration. A smaller number needs a build without the sink's asserts, which want
exactly the number drawn (556).

Assumed besides: the server is not being stopped (`SERVER_STOPPED`, `AndroidUserManager.cpp` 318, and
the branch for `!m_bContinueServer` of `GameTimerEnd`); androids are enabled (`bEnableAndroid`, 347);
user ids fit into 32 bits (`LeftMatch` takes a `uint32_t`, `writeUserScoreToDB` an `int32_t`); and
the online info of a player in a match does not expire. The code renews it only on the client's
ping (`MatchServer.cpp` 1126, for ten times the usual time) and when he sits down, so a client that is
silent for longer would break the first part of `InOneMatch`.

## 3. Runs

| run | checks | size |
|---|---|---|
| `orders` | TypeOK, AppliedAtMostOnce, AnswerIsTruthful, CacheSound, LeaseHeld | 2 requests for 1 order id in one collection (`Merged`), 2 nodes, 2 attempts to lock, failing Mongo, expiring locks, a game, 1 crash |
| `answers` | MoneyConserved, NoOverdraftIfSticky, AllAnswered, LockIsLease | 2 requests, 2 orders, 2 players, 2 nodes, separate collections, expiring locks, fairness |
| `lock` | TypeOK, Exclusive, IsLeaseLock, GrantSafe | 3 calls, 2 of them by a thread in continue mode, 2 masters, 2 attempts, an int that wraps in the middle |
| `room` | TypeOK, SeatIsFound, OnlineWhileSeated, RoundIsAlive, MatchingGoesOn, RoundKeptUnlessStale | 3 players of whom 2 are kept apart, 1 android, 1 table, 3 items |
| `served` | RoundEnds, EverybodyIsServed | 2 players, 1 android, 1 table, fairness |
| `login` | EarlierSessionCloses, OnlyRivalsClose | 3 connections to 2 proxies, the third back at the first, fairness |
| `session` | TypeOK, SeatKnownUnlessOverlap, LinkMovesOn | 3 connections, 2 requests, 3 servers of 2 rooms |
| `x_two_seats` | SeatedOnce (violated) | 1 connection, 2 requests that overlap, 2 servers of 1 room |
| `settlement` | SmallForSmall, BetsAreCovered, BooksBalance | 4 players with 7 or 130 each, calls of 1, 2, 4, plain hands and best hands |
| `match` | TypeOK, NobodyIsLost, MoneyConserved, RankIsKept | 2 players, 3 androids, a match of 4 with 2 rounds (2 games, then 1), 2 tables, both ways to deal, opening times |
| `matches` | OneMatchPerTable, InOneMatch, OneWaits, AndroidsReserved | 2 matches, 6 androids, 3 tables for 8 players |
| `ends` | InStepAtTable, MatchEnds, EveryoneStarts | 1 match of 4, rounds of 3 games and 1, tables enough, fairness |

Bounds. Two requests are enough for every race of two, the late unlock of one against the lock of the
other included. One table is enough for what happens at a table; the theorems of section 4 cover
several. `MinPlayers = 2`, `MaxPlayers = 3` leave room for a table that is waiting although it could
start. `MaxStale`, `MaxCrashes`, `MaxTime`, `MaxEntries`, `Conns`, `Requests` and `Items` are the
bounds of unbounded counters. Three connections are the least for a login that is overtaken by two
others. The scores of `settlement` are below and above every limit of `Callable` and `Jettonable`, so
that the banker, a player, or both cannot pay. `matches` has fewer tables than players, so that
matches compete for them; the match of `match` has the two rounds and a second game in the first that
dealing again needs. Runs that use up a bound end there and do not check deadlock. Symmetry is used
only in runs without liveness.

`x_two_seats` states what messages in the code say, and TLC finds it violated: the hall reads the
online info in one Redis command, chooses a server and writes it in others, and its requests run on a
pool of threads. Two requests of one player that overlap are granted different servers of the room;
`CheckUserCanEnterRoom` compares the room with the online info, not the server, and he sits down at
both. `findings` in `PROJECT.json` quotes the lines. `SeatKnownUnlessOverlap` shows that overlapping
is the only way.

Things the code says that its behaviour in the models does not bear out, without a run of their own:

- two nodes read a player's score before the lock they share and both withdraw it, although "score not
  enough, cannot withdraw" (`OrderServer.cpp` 3631, 3855);
- after a failed write nothing is rolled back, since no write belongs to the transaction ("on failure
  the transaction is rolled back", 3204, 3888, 3933);
- the row that is to "lock the player's score" (3714) is deleted by the request that did not get it
  (4198);
- a player sits down between the question whether he is in a game and the withdrawal ("no withdrawal
  while the player is in a game", 3843);
- a ready timer whose id was overwritten fires in a round and clears the table, although a player in a
  game "cannot leave" (`Game_Qzzjh/TableFrameSink.cpp` 353, 587-607, 2408-2415; `GameServer.cpp` 2268).

Further observations from the models, without a run of their own: `beforechange` is the score read
before the lock, not the one the change is applied to; two nodes can together sell more than a
buyScore agent has, since each compares with its own copy of the stock; a withdrawal stores the
agent's score from before the update in that copy; `m_validityTime` can exceed the life of the keys
by almost a second (`GrantSafe` states the bound); a free table is handed out while the server is
under repair; an entry refused with "table full" leaves its item in the used list.

Of logins and sessions: two logins that overlap may leave two sessions open, and a late announcement
of an older session closes the newer one; a late OFFLINE clears the connection of the new session,
and an ENTER forwarded after the OFFLINE leaves a dead one; a delayed second ENTER seats the player at
a server of an earlier grant while the stored address names another. Of the settlement: what the
divisions cut off is never booked. Of matches: dealt at random with fewer tables than players, a
match never ends; the limit of real players is computed in `uint32_t`, so that a match of fewer than
8 has none; a crash loses the fees of those who wait.

Fairness. `ScoreOrder!FairSpec`: weak fairness of each worker thread once it has a request; the mutex
is a pthread mutex whose holder never waits for another holder, and no fairness of Redis or of the
partners is assumed. `GameRoom!FairSpec`: weak fairness of the timers the event loop fires and of the
android check, which runs ten times a second; `MatchTimer` stands for as many ticks of 0.2 s as it
takes to reach the next limit of the matching time. Players, the hall and the operators are not fair.
`EverybodyIsServed` assumes that the server is not in repair for ever and that the player does not
restart the matching for ever by entering again, and it is checked with androids that can pay: with
poor ones a table can fall back to its initial state with a player and without a timer.
`MatchRoom!Timers`: the android timer, the match timer and the timers of each table, which run on the
event loop; players join and leave as they like. `MatchEnds` assumes tables for all matches and
`EveryoneStarts` androids for all, both as premises of the property. `EveryoneStarts` also relies on
`bEnableAndroid`, and is checked without opening times, since a match day may end with players waiting. `Login!FairSpec`: threads
carry out what they have begun, announcements are delivered, and a connection that is to be closed is
closed after its delay.

Every property has a mutant: an operator, named in `PROJECT.json`, that changes one definition the
way a slip in the code would, and under which TLC finds the property violated.

## 4. Proofs

Checked by TLAPS for every value of the constants that satisfies the named assumptions.

`ScoreOrderProofs`, from `ScoreOrderAssumption`:

- `TypeCorrect`.
- `OrderAppliedAtMostOnce`, `AnswersTruthful`, `OrderCacheSound`, all from `OrderInv`. None of the
  three is inductive: what a request has written must be tied to where it is (`Ledger`), and rows of
  the order collection to exactly one request that inserted them (`OneInserter`). Two requests with
  the same order key cannot both have inserted it, and the score is only changed after the insert.
- `LocksRefineLease`: the three things that happen to the locks (`LockMoves`) are steps of
  `LeaseLock`. `LeaseIsHeld` is inductive with the types.
- `NoOverdraftWhenSticky`: with `GameDeltas = {}`, all withdrawals of a player on one node imply that
  no score is overdrawn. The
  invariant `StickyInv` adds that the mutex is held throughout a withdrawal (`MutexHeld`) and that
  the score it read is still covered (`ReadIsCovered`): deposits only raise it, and another
  withdrawal would need the same mutex. A crash is harmless because it stops all threads that
  shared the mutex.
- `OnlyHalfWayIsMissing`: with `GameDeltas = {}`, agent and players together have what they started with and
  the amounts of the orders whose player has been written and whose agent has not (`HalfWay`), also
  after failed writes and crashes. The equation (`Owed`) is inductive with `OrderInv`: of the calls of
  a request only `UpdateUser` and `UpdateAgent` move money, each by the amount of the order.
- `OrdersMoveMoney` follows: in a request answered with success nothing is half way.

`RedLockProofs`, from `RedLockAssumption`:

- `LockTypeCorrect`.
- `LeaseExclusive`, from `RedLockInv`: while an attempt is younger than the time-to-live, the masters
  that acknowledged it still hold its value (`AcksHold`); a thread only ever takes over its own
  values (`LastIsOwn`, `OneGuard`), and two majorities meet (`QuorumsMeet`).
- `RedLockRefinesLease`: with `Exclusive`, each step changes the holder from nobody to one call or
  back. Both hold for every `TTL`, `Second` and `IntMax`: exclusion does not depend on the clock.
- `GrantsAreSafe`, for a `TTL` of whole seconds (the default is 1000 ms) and behaviours in which no attempt lasts
  as long as an int of milliseconds counts, 24 days (`AttemptsAreShort`). `(int)time(NULL) * 1000` wraps,
  but the difference of two readings is below the width of the int and so is the true one
  (`WrappedDifference`); cut to seconds it is less than a second off (`ElapsedSeconds`), which decides
  nothing when the time-to-live is a number of seconds.

`GameRoomProofs`, from `GameRoomAssumption`, all from `RoomInv`:

- `RoomTypeCorrect`, `SeatsAreFound`, `SeatedAreOnline`. `SeatInv` adds to the two properties that the
  map leads to a user's own item (`MapIsOwn`), without which an item given back could be another's.
- `MatchingNeverStalls`, `RoundsStayAlive`, from `TableInv`: a table that is not in use is empty and in
  its initial state, an armed ready timer belongs to a table that waits, a table that matches has a timer and a free
  chair, and a round has enough players, of whom not all have acted.
- `RoundsKeepPlayers`: what each action may do to the chairs of a table in a round.

`SessionProofs`, from `SessionAssumption`:

- `SessionTypeCorrect`.
- `OneSeatUnlessOverlap`. The invariant (`SeatInv`) says what the one that is at work has seen: a request that
  chooses a server has seen no seat, an entry that sits down has seen no table, and nobody else can
  have changed that in between.
- `LinksMoveOn`: the connection of a server's link has logged in before, and only the last password is
  accepted.

`LoginProofs`, from `LoginAssumption`: `LoginsSpareThemselves`. What is announced was accepted, a proxy
maps the player to a connection of its own, and a login follows its connection.

`SettlementProofs`, from `SettlementAssumption`:

- `RoundStaysSmall`. The banker's balance is the difference of the two totals of the loop (`Totals`), so
  that what is shared is less than what it is divided by, and no share exceeds what it was cut from
  (`ShareBound`).
- `BetsCanBePaid`. Each bet is covered when it is made (`BetInv`): what `Jettonable` offers is at most a
  quotient of the player's score, and of the banker's by the number of the others, so that the sum of all
  is within the banker's score.
- `RoundBalances`. While hands are compared the two totals are the sums of losses and gains
  (`BalanceInv`); each share is cut by less than one, and the rest of all by less than their number.

`MatchRoomProofs`, from the four assumptions of `MatchRoom`:

- `PlayersGather`, `NobodyInTwoMatches`, `ReserveIsKept` and `RankDecides`, from `MatchInv`. Each match is
  as its status says (`GoodMatch`): its list has no repetition; a room that waits has a free chair, is in
  its first round and keeps the androids' chairs; a match that is played has as many players as the
  layout gives its round. The main lemma is `SortPermutes`: the numbers of players ranked before each
  player are all different, so that `SortUser` is a permutation of the list, in the order of the ranking;
  `RankDecides` follows from it.
- `FeesAreAccountedFor`, from `MoneyInv`: a match that is not played holds the fees of the real players of
  its list and has no income, one that is played holds its `winlost`. A step changes one match and the
  accounts of its players; a dismissed match pays back what it held, a finished one moves it to the stock.
- `TablesServeOneMatch`, `EveryPlayerIsSomewhere` and `MatchTypeOK`, from `DealtInv`, for any number of tables,
  enough or not, and both ways to deal. Its part about tables (`TableInv`) says that a table is
  full or empty, that its players are of the match it reports to and of no other table, and that each
  player of a match that is played has one place (`GoodRound`). That tables are full needs the arithmetic of
  dealing: those who are dealt fill whole tables (`TableSize` divides the players of each round), and
  `Turn` fills one table before it opens the next.
- `TablesPlayInStep`: `InStepAtTable` holds if players are dealt in fixed groups or there are tables for all
  matches. In fixed groups those who wait do so in blocks of players who have left one table together
  (`InBlocks`); at random a match is dealt only when all its players wait, and if all get a table they
  stay in step (`InStep`). Without either premise it fails: with one table for a match of four dealt
  at random, two play, and one of them meets one of the others in the next game.

Sums and sizes are proved by least counterexample: among the subsets of a finite set for which an equation
fails there would be a smallest one (`LeastSubset`, `SetInduction` in `SumTheorems`), which avoids the
induction theorems with an operator as parameter.

Only model-checked: liveness under fairness, which is out of the prover's reach (`AllAnswered`, `RoundEnds`,
`EverybodyIsServed`, `EarlierSessionCloses`, `MatchEnds`, `EveryoneStarts`), and `SeatedOnce`, which is
violated.

## 5. Plan

Done: all modules of section 2, and proofs of every safety property that a passing run checks. What would
come next:

1. The safety parts of the liveness arguments as theorems: what a round or a match still has to do
   decreases with each fair step and is never increased by the others.
2. `SafeBox`: the hall's check and `$inc` beside a running game and an order.
3. Reconnection to a running match, composed of `Session` and `MatchRoom`.
4. TransferServer's order protocol, as a second instance of `ScoreOrder`.

## 6. Not modelled

`components` in `PROJECT.json` gives the reason for each part. Most of the repository is vendored or
generated code (protobuf messages, sqlite, the copies of include directories) and about 45 games
with their card rules and androids, each a sequential library behind the same sink interface; these
lines far outnumber the servers' own logic, so the models stand for a small share of all lines. Within
the servers, the parts left out are those that one thread carries out in one piece: records, reports,
personal data, HTTP parsing, signatures and statistics.
