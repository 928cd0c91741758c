----------------------------- MODULE MatchRoom -----------------------------
(***************************************************************************)
(* The knock-out matches of MatchServer (src/Framework/MatchServer).       *)
(*                                                                         *)
(* A player pays a fee and waits in a match room until MaxPlayers are      *)
(* there; an android timer fills the room up.  The match then plays        *)
(* rounds: everybody plays Games[r] games at tables of TableSize, the      *)
(* best Pass[r] go on, the others get the award of their rank and leave.   *)
(*                                                                         *)
(* All of it runs on the one game-logic thread, so an action is a whole    *)
(* message handler or timer callback.  The state of a room is its fields   *)
(* match_status_ (status), list_MatchUser_ (list, in rank order),          *)
(* vec_WaitUser_ (wait), list_UsedTable_ (tabs), cur_round_count_ (round,  *)
(* counted from 1 here), m_cur_round_finish_count (finished) and           *)
(* winlost_Score_ (winlost).  The tables' game is Game_QznnLandy; what a   *)
(* round does to the players' match scores is left open.                   *)
(*                                                                         *)
(* Assumed of the installation: it is not being stopped, its androids are  *)
(* enabled (bEnableAndroid), user ids fit into 32 bits (LeftMatch takes    *)
(* them as uint32_t), and the online info of a player in a match, which    *)
(* lives on from ping to ping, does not expire.                            *)
(***************************************************************************)
EXTENDS Integers, FiniteSets, Sequences, SequencesExt, Sums

CONSTANTS
    Users, Androids,    \* real players and androids
    Matches,            \* vec_MatchRoom
    NumTables,          \* tables of the server
    TableSize,          \* GameRoomInfo.maxPlayerNum (= minPlayerNum)
    Draws,              \* the numbers qznn_config.ini lets the sink draw for MaxGamePlayers_
    MaxPlayers,         \* MatchRoomInfo.maxPlayerNum
    Reserved,           \* chairs of a match kept for androids: 8 in the source
    Games, Pass,        \* upgradeGameNum, upGradeUserNum: one entry per round
    Awards,             \* awards by rank
    Fee,                \* joinNeedSore
    InitCoins,          \* initCoins
    AtLeast,            \* atLeastNeedScore, 0 for none
    Scores,             \* the match scores a game may leave a player with
    Purse,              \* every player's account at the beginning
    HasOpenTimes,       \* m_vecMatchOpenTime is not empty
    MaxEntries,         \* bound: how often the hall sends a player here
    Nobody

Players == Users \cup Androids
Tables == 1..NumTables
Rounds == DOMAIN Games

(***************************************************************************)
(* A match is laid out so that its tables fill: the numbers of players in  *)
(* every round are multiples of the table size, and fall to 0.             *)
(***************************************************************************)
ASSUME LayoutAssumption ==
    /\ TableSize \in Nat \ {0} /\ NumTables \in Nat
    /\ MaxPlayers \in Nat \ {0} /\ MaxPlayers % TableSize = 0
    /\ Games \in Seq(Nat) /\ Pass \in Seq(Nat) /\ Len(Games) = Len(Pass) /\ Len(Games) > 0
    /\ \A r \in Rounds : /\ Games[r] \in Nat \ {0}
                         /\ Pass[r] \in Nat /\ Pass[r] % TableSize = 0
                         /\ Pass[r] < IF r = 1 THEN MaxPlayers ELSE Pass[r - 1]
    /\ Pass[Len(Pass)] = 0

(***************************************************************************)
(* The sink never waits for more players than a table has chairs.  With a  *)
(* larger draw a full table would wait some 5 seconds for its ready timer, *)
(* and if one of its players went offline meanwhile, he would be sent away *)
(* and the table never start.  (With a smaller one the sink must be built  *)
(* without its asserts, which want exactly the number drawn.)              *)
(***************************************************************************)
ASSUME DrawAssumption == Draws \subseteq 2..TableSize

ASSUME MoneyAssumption ==
    /\ Fee \in Nat /\ Purse \in Nat /\ Reserved \in Nat /\ MaxEntries \in Nat
    /\ Awards \in Seq(Nat) /\ Scores \subseteq Nat /\ InitCoins \in Nat /\ AtLeast \in Nat

ASSUME NamesAssumption ==
    /\ Users \cap Androids = {} /\ Nobody \notin Matches
    /\ IsFiniteSet(Users) /\ IsFiniteSet(Matches)
    /\ HasOpenTimes \in BOOLEAN

VARIABLES
    status, list, wait, tabs, round, finished, winlost,     \* per match room
    used,           \* list_UsedMatchRoom
    info,           \* UserInfo of each player: count, waitStart, score
    seats, owner, phase,        \* per table: m_UserList, m_pMatchRoom, the sink's status
    account, stock,             \* game_user.score and match_kind.totalstock
    online, cooldown,           \* Redis: online info, matchUser_<id>
    freeAndroids,               \* m_AndroidUserItemFreeList
    canJoin, fixedAllocate,     \* m_bCanJoinMatch, and the configured way to deal
    entries

room == <<status, list, wait, tabs, round, finished, winlost, used>>
table == <<seats, owner, phase>>
money == <<account, stock>>
redis == <<online, cooldown>>
config == <<fixedAllocate, entries>>
vars == <<room, info, table, money, redis, freeAndroids, canJoin, config>>

NoInfo == [count |-> 0, waitStart |-> FALSE, score |-> InitCoins]

InMatch(p) == \E m \in Matches : p \in ToSet(list[m])
RealIn(l) == Cardinality(ToSet(l) \cap Users)

Init ==
    /\ status = [m \in Matches |-> "wait"]
    /\ list = [m \in Matches |-> <<>>] /\ wait = [m \in Matches |-> <<>>]
    /\ tabs = [m \in Matches |-> {}] /\ round = [m \in Matches |-> 1]
    /\ finished = [m \in Matches |-> 0] /\ winlost = [m \in Matches |-> 0]
    /\ used = {}
    /\ info = [p \in Players |-> NoInfo]
    /\ seats = [t \in Tables |-> {}] /\ owner = [t \in Tables |-> Nobody]
    /\ phase = [t \in Tables |-> "init"]
    /\ account = [u \in Users |-> Purse] /\ stock = 0
    /\ online = [u \in Users |-> FALSE] /\ cooldown = [u \in Users |-> FALSE]
    /\ freeAndroids = Androids
    /\ canJoin \in {TRUE, ~HasOpenTimes}
    /\ fixedAllocate \in BOOLEAN
    /\ entries = [u \in Users |-> 0]

-----------------------------------------------------------------------------
(***************************************************************************)
(* Dealing players to tables: AllocateRoom takes the waiting players from  *)
(* the back of vec_WaitUser_ and seats each at the table getSuitTable      *)
(* finds, until nobody waits or no table is found.                         *)
(***************************************************************************)
\* Mutant: androids are not counted.
FreeChairsReal(t) == TableSize - Cardinality(seats[t] \cap Users)

FreeChairs(t) == TableSize - Cardinality(seats[t])

\* getSuitTable and FindNormalSuitTable look at the match's own tables first, then at all tables in use, in the
\* order they were taken into use, then at the next unused one.  Tables are taken in the order of their numbers and
\* never given back, so that is the order of the numbers.
FoundBefore(m, s, t) ==
    \/ s \in tabs[m] /\ t \notin tabs[m]
    \/ (s \in tabs[m] <=> t \in tabs[m]) /\ s < t

\* How many players sit down before table t is found.
Turn(m, t) == SumOver({s \in Tables : FoundBefore(m, s, t)}, [s \in Tables |-> FreeChairs(s)])

\* The players of w who are seated at t, the k-th from the back in turn (RoomSitChair).
Newcomers(m, w, t) ==
    {w[Len(w) - k] : k \in {k \in 0..(Len(w) - 1) : Turn(m, t) <= k /\ k < Turn(m, t) + FreeChairs(t)}}

AllChairs == SumOver(Tables, [t \in Tables |-> FreeChairs(t)])

\* atLeastNeedScore is granted to everybody it is the turn of, also to the one no table is found for.
TopUp(w, p, i) ==
    LET reached == {w[Len(w) - k] : k \in {k \in 0..(Len(w) - 1) : k <= AllChairs}}
    IN  IF p \in reached /\ i.score < AtLeast THEN [i EXCEPT !.score = AtLeast] ELSE i

\* The sink's OnUserEnter at a table of n players: they have reached MaxGamePlayers_, whatever was drawn for it
\* when the first of them sat down.
MaxGamePlayersReached(n) == \A drawn \in Draws : n >= drawn

\* GameTimerReadyOver then starts the round if they are minPlayerNum, and else lets the table wait for the next.
\* It sends away who is offline or has less than enterMinScore, which is 0: everybody has just sat down.
GameTimerReadyOver(n) == n >= TableSize

Starts(n) == MaxGamePlayersReached(n) /\ GameTimerReadyOver(n)

AllocateRoom(m, w) ==
    LET New(t) == Newcomers(m, w, t)
        left == IF Len(w) > AllChairs THEN SubSeq(w, 1, Len(w) - AllChairs) ELSE <<>>
    IN  /\ seats' = [t \in Tables |-> seats[t] \cup New(t)]
        /\ owner' = [t \in Tables |-> IF New(t) # {} /\ t \notin tabs[m] THEN m ELSE owner[t]]
        /\ tabs' = [tabs EXCEPT ![m] = @ \cup {t \in Tables : New(t) # {}}]
        /\ phase' = [t \in Tables |-> IF New(t) # {} /\ Starts(Cardinality(seats[t] \cup New(t)))
                                      THEN "play" ELSE phase[t]]
        /\ wait' = [wait EXCEPT ![m] = left]
        /\ info' = [p \in Players |->
                      LET i == TopUp(w, p, info[p])
                      IN  IF p \in ToSet(w) \ ToSet(left) THEN [i EXCEPT !.waitStart = FALSE] ELSE i]

\* SortUser takes the first of the players with the highest score out of the list again and again.
Index(l, p) == CHOOSE i \in DOMAIN l : l[i] = p

\* Mutant: the last of the best is taken.
TakenBeforeLast(l, p, q) ==
    \/ info[p].score > info[q].score
    \/ info[p].score = info[q].score /\ Index(l, p) > Index(l, q)

TakenBefore(l, p, q) ==
    \/ info[p].score > info[q].score
    \/ info[p].score = info[q].score /\ Index(l, p) < Index(l, q)

SortUser(l) ==
    [i \in DOMAIN l |->
        CHOOSE p \in ToSet(l) : Cardinality({q \in ToSet(l) : TakenBefore(l, q, p)}) = i - 1]

-----------------------------------------------------------------------------
(***************************************************************************)
(* Joining and leaving.                                                    *)
(***************************************************************************)

\* Mutant: a used room that waits is passed over while nobody is in it.
FindNormalSuitMatchPeopled(m) ==
    IF \E w \in used : status[w] = "wait" /\ list[w] # <<>>
    THEN m \in used /\ status[m] = "wait" ELSE m \notin used

\* FindNormalSuitMatch: the first used room that waits, or else a free one.
FindNormalSuitMatch(m) ==
    IF \E w \in used : status[w] = "wait" THEN m \in used /\ status[m] = "wait"
                                          ELSE m \notin used

NoMatch == \A m \in Matches : ~FindNormalSuitMatch(m)

\* Taking the room: SetWaitToStart, and from the free to the used rooms.
TakenStatus(m) == [status EXCEPT ![m] = "wait"]

\* Mutant: one real player too many.
RealLimitReachedLate(l) == MaxPlayers >= Reserved /\ RealIn(l) > MaxPlayers - Reserved

\* realNum >= maxRealPlayerNum: the limit is computed in uint32_t, and wraps around to more than any number of
\* players when the match is smaller than the reserve.
RealLimitReached(l) == MaxPlayers >= Reserved /\ RealIn(l) >= MaxPlayers - Reserved

\* Mutant: androids are taken to have paid.
FeesOfAll(l) == Fee * Len(l)

\* The fees of the real players, the first income of the match.
Fees(l) == Fee * RealIn(l)

\* StartMatch: m is full, and somebody in it is real.
StartMatch(m, l) ==
    /\ status' = [status EXCEPT ![m] = "gaming"]
    /\ winlost' = [winlost EXCEPT ![m] = @ + Fees(l)]
    /\ finished' = [finished EXCEPT ![m] = 0]
    /\ list' = [list EXCEPT ![m] = l]
    /\ AllocateRoom(m, l)
    /\ UNCHANGED round

\* clearAllUser: a match of androids only is not played.
Dismissed(l) == Len(l) >= MaxPlayers /\ RealIn(l) = 0

clearAllUser(m) ==
    /\ list' = [list EXCEPT ![m] = <<>>]
    /\ status' = TakenStatus(m)
    /\ UNCHANGED <<wait, tabs, round, finished, winlost, info, table>>

\* JoinMatch from where the player is accepted; a UserInfo starts as NoInfo.
JoinMatch(m, p) ==
    LET l == Append(list[m], p)
    IN  /\ used' = used \cup {m}
        /\ \/ /\ Len(l) < MaxPlayers
              /\ list' = [list EXCEPT ![m] = l]
              /\ status' = TakenStatus(m)
              /\ UNCHANGED <<wait, tabs, round, finished, winlost, info, table>>
           \/ Dismissed(l) /\ clearAllUser(m)
           \/ Len(l) >= MaxPlayers /\ ~Dismissed(l) /\ StartMatch(m, l)

\* The hall sends the player to the match server and says so in Redis.
GrantMatch(u) ==
    /\ ~online[u] /\ entries[u] < MaxEntries
    /\ online' = [online EXCEPT ![u] = TRUE]
    /\ entries' = [entries EXCEPT ![u] = @ + 1]
    /\ UNCHANGED <<room, info, table, money, cooldown, freeAndroids, canJoin, fixedAllocate>>

\* cmd_enter_match for a player the server does not know; a player it knows gets the scene of his match again,
\* which changes nothing here.
EnterRefused(u) ==
    /\ online[u] /\ ~InMatch(u)
    /\ ~canJoin \/ account[u] < Fee \/ NoMatch
    /\ online' = [online EXCEPT ![u] = FALSE]
    /\ UNCHANGED <<room, info, table, money, cooldown, freeAndroids, canJoin, config>>

\* Mutant: the fee is taken twice.
ChargeTwice(u) == account[u] - Fee - Fee

\* OnUserEnterAction takes the fee; the account was read, and compared with it, in the same callback.
Charge(u) == account[u] - Fee

JoinRefused(u, m) ==
    Len(list[m]) >= MaxPlayers \/ RealLimitReached(list[m]) \/ cooldown[u]

cmd_enter_match(u, m) ==
    /\ online[u] /\ ~InMatch(u)
    /\ canJoin /\ account[u] >= Fee /\ FindNormalSuitMatch(m)
    /\ \/ /\ JoinRefused(u, m)
          /\ online' = [online EXCEPT ![u] = FALSE]
          /\ used' = used \cup {m} /\ status' = TakenStatus(m)
          /\ UNCHANGED <<list, wait, tabs, round, finished, winlost, info, table, account>>
       \/ /\ ~JoinRefused(u, m)
          /\ JoinMatch(m, u)
          /\ account' = [account EXCEPT ![u] = Charge(u)]
          /\ UNCHANGED online
    /\ UNCHANGED <<stock, cooldown, freeAndroids, canJoin, config>>

\* LeftMatch, for cmd_left_match and cmd_user_offline: refused while the match is played.
LeftMatch(u, m) ==
    /\ u \in ToSet(list[m]) /\ status[m] # "gaming"
    /\ list' = [list EXCEPT ![m] = RemoveAt(@, Index(@, u))]
    /\ account' = [account EXCEPT ![u] = @ + Fee]
    /\ cooldown' = [cooldown EXCEPT ![u] = TRUE]
    /\ online' = [online EXCEPT ![u] = FALSE]
    /\ info' = [info EXCEPT ![u] = NoInfo]
    /\ UNCHANGED <<status, wait, tabs, round, finished, winlost, used, table, stock,
                   freeAndroids, canJoin, config>>

\* The key matchUser_<id> expires after leftWaitSeconds.
CooldownExpires(u) ==
    /\ cooldown[u]
    /\ cooldown' = [cooldown EXCEPT ![u] = FALSE]
    /\ UNCHANGED <<room, info, table, money, online, freeAndroids, canJoin, config>>

\* The front of the list of free androids.  Androids are alike, so any fixed choice stands for it.
GetFreeAndroidUserItem == CHOOSE a \in freeAndroids : TRUE

\* OnTimerCheckUserIn: one android joins the room that waits, or a room is opened.
OnTimerCheckUserIn(m) ==
    /\ canJoin /\ freeAndroids # {}
    /\ FindNormalSuitMatch(m)
    /\ \/ /\ m \in used
          /\ \E a \in {GetFreeAndroidUserItem} :
                /\ JoinMatch(m, a)
                /\ freeAndroids' = IF Dismissed(Append(list[m], a)) THEN freeAndroids \cup ToSet(list[m])
                                                                   ELSE freeAndroids \ {a}
       \/ /\ m \notin used
          /\ used' = used \cup {m} /\ status' = TakenStatus(m)
          /\ UNCHANGED <<list, wait, tabs, round, finished, winlost, info, table, freeAndroids>>
    /\ UNCHANGED <<money, redis, canJoin, config>>

\* openMatchTimer: a match day has times at which nobody may join.
openMatchTimer ==
    /\ HasOpenTimes
    /\ canJoin' = ~canJoin
    /\ UNCHANGED <<room, info, table, money, redis, freeAndroids, config>>

-----------------------------------------------------------------------------
(***************************************************************************)
(* Games at the tables.                                                    *)
(***************************************************************************)

\* TableFinish is told to the room the table belongs to.
OnEventGameConclude(t) ==
    /\ phase[t] = "play"
    /\ \E result \in [seats[t] -> Scores] :
          info' = [p \in Players |-> IF p \in seats[t] THEN [info[p] EXCEPT !.score = result[p]]
                                                       ELSE info[p]]
    /\ phase' = [phase EXCEPT ![t] = "end"]
    /\ tabs' = [tabs EXCEPT ![owner[t]] = @ \ {t}]
    /\ UNCHANGED <<status, list, wait, round, finished, winlost, used, seats, owner, money,
                   redis, freeAndroids, canJoin, config>>

\* Mutant: one game too many.
UserOutTableOnceMore(m, p) ==
    LET played == info[p].count + 1
    IN  [played |-> [count |-> played, waitStart |-> TRUE, score |-> info[p].score],
         again |-> played <= Games[round[m]]]

\* UserOutTable for one player of the table.
UserOutTable(m, p) ==
    LET played == info[p].count + 1
    IN  [played |-> [count |-> played, waitStart |-> TRUE, score |-> info[p].score],
         again |-> played < Games[round[m]]]

\* Every player stands up, in the order of the chairs, which were dealt at random.
GameTimerEnd(t) ==
    LET m == owner[t]
        out == {p \in seats[t] : p \in ToSet(list[m]) /\ ~info[p].waitStart}
        again == {p \in out : UserOutTable(m, p).again}
    IN  /\ phase[t] = "end"
        /\ \E chairs \in SetToSeqs(again) : wait' = [wait EXCEPT ![m] = @ \o chairs]
        /\ finished' = [finished EXCEPT ![m] = @ + Cardinality(out \ again)]
        /\ info' = [p \in Players |-> IF p \in out THEN UserOutTable(m, p).played ELSE info[p]]
        /\ seats' = [seats EXCEPT ![t] = {}]
        /\ phase' = [phase EXCEPT ![t] = "init"]
        /\ UNCHANGED <<status, list, tabs, round, winlost, used, owner, money, redis,
                       freeAndroids, canJoin, config>>

-----------------------------------------------------------------------------
(***************************************************************************)
(* AllocateUser, every 3 seconds while the match is played.                *)
(***************************************************************************)

\* awards[rank], with ranks from 0 as in the code.
Award(rank) == IF Len(Awards) > rank THEN Awards[rank + 1] ELSE 0

\* Mutant: the players of the first round are waited for in every round.
RoundOverAll(m) == tabs[m] = {} /\ finished[m] = MaxPlayers

RoundOver(m) == tabs[m] = {} /\ finished[m] = Len(list[m])

\* Mutant: the androids are not put back on the free list.
LeaveForgetsAndroids(out) ==
    /\ UNCHANGED freeAndroids
    /\ online' = [u \in Users |-> online[u] /\ u \notin out]

\* DelUserFromServer for the players in out.
Leave(out) ==
    /\ freeAndroids' = freeAndroids \cup (out \cap Androids)
    /\ online' = [u \in Users |-> online[u] /\ u \notin out]

\* The award of player u of the ranked list l; those who pass get none yet.
Paid(l, pass, u) == IF u \in {l[i] : i \in (pass + 1)..Len(l)} THEN Award(Index(l, u) - 1) ELSE 0

AllPaid(l, pass) == SumOver(Users, [u \in Users |-> Paid(l, pass, u)])

\* The round is over: the players behind the pass count are out, with the award of their rank (OnUserFinish).
EndRound(m) ==
  \E l \in {SortUser(list[m])} :
    LET pass == Pass[round[m]]
        out == {l[i] : i \in (pass + 1)..Len(l)}
        stay == SubSeq(l, 1, pass)
    IN  /\ status[m] = "gaming" /\ RoundOver(m)
        /\ account' = [u \in Users |-> account[u] + Paid(l, pass, u)]
        /\ Leave(out)
        /\ info' = [p \in Players |-> IF p \in out THEN NoInfo
                                      ELSE IF p \in ToSet(stay) THEN [info[p] EXCEPT !.count = 0]
                                      ELSE info[p]]
        /\ LET lost == winlost[m] - AllPaid(l, pass)
           IN  \/ /\ pass = 0
                  /\ stock' = stock + lost
                  /\ status' = [status EXCEPT ![m] = "end"]
                  /\ used' = used \ {m}
                  /\ round' = [round EXCEPT ![m] = 1]
                  /\ winlost' = [winlost EXCEPT ![m] = 0]
                  /\ list' = [list EXCEPT ![m] = <<>>] /\ wait' = [wait EXCEPT ![m] = <<>>]
                  /\ tabs' = [tabs EXCEPT ![m] = {}]
                  /\ UNCHANGED finished
               \/ /\ pass > 0
                  /\ round' = [round EXCEPT ![m] = @ + 1]
                  /\ winlost' = [winlost EXCEPT ![m] = lost]
                  /\ finished' = [finished EXCEPT ![m] = 0]
                  /\ list' = [list EXCEPT ![m] = stay] /\ wait' = [wait EXCEPT ![m] = stay]
                  /\ UNCHANGED <<stock, status, used, tabs>>
        /\ UNCHANGED <<table, cooldown, canJoin, config>>

\* Mutant: dealt at random without waiting for the others.
DealAgainEarly(m) ==
    /\ status[m] = "gaming" /\ ~RoundOver(m) /\ wait[m] # <<>>
    /\ \E w \in SetToSeqs(ToSet(wait[m])) : AllocateRoom(m, w)
    /\ list' = [list EXCEPT ![m] = SortUser(@)]
    /\ UNCHANGED <<status, round, finished, winlost, used, money, redis, freeAndroids, canJoin, config>>

\* The next games of the round: at once, or, dealt at random, when everybody is back.
DealAgain(m) ==
    /\ status[m] = "gaming" /\ ~RoundOver(m) /\ wait[m] # <<>>
    /\ \/ fixedAllocate /\ AllocateRoom(m, wait[m])
       \/ /\ ~fixedAllocate /\ tabs[m] = {} /\ Len(list[m]) = Len(wait[m])
          /\ \E w \in SetToSeqs(ToSet(wait[m])) : AllocateRoom(m, w)
    /\ list' = [list EXCEPT ![m] = SortUser(@)]
    /\ UNCHANGED <<status, round, finished, winlost, used, money, redis, freeAndroids, canJoin, config>>

AllocateUser(m) == EndRound(m) \/ DealAgain(m)

-----------------------------------------------------------------------------
Next ==
    \/ \E u \in Users : GrantMatch(u) \/ EnterRefused(u) \/ CooldownExpires(u)
    \/ \E u \in Users, m \in Matches : cmd_enter_match(u, m) \/ LeftMatch(u, m)
    \/ \E m \in Matches : OnTimerCheckUserIn(m) \/ AllocateUser(m)
    \/ \E t \in Tables : OnEventGameConclude(t) \/ GameTimerEnd(t)
    \/ openMatchTimer

Spec == Init /\ [][Next]_vars

\* The event loop of the game-logic thread runs every timer that is due.
Timers ==
    /\ WF_vars(\E m \in Matches : OnTimerCheckUserIn(m))
    /\ \A m \in Matches : WF_vars(AllocateUser(m))
    /\ \A t \in Tables : WF_vars(OnEventGameConclude(t)) /\ WF_vars(GameTimerEnd(t))

FairSpec == Spec /\ Timers

-----------------------------------------------------------------------------
(***************************************************************************)
(* Properties.                                                             *)
(***************************************************************************)
\* There are tables for all matches at once.
TablesSuffice == NumTables * TableSize >= Cardinality(Matches) * MaxPlayers

TypeOK ==
    /\ status \in [Matches -> {"wait", "gaming", "end"}] /\ used \subseteq Matches
    /\ list \in [Matches -> Seq(Players)] /\ wait \in [Matches -> Seq(Players)]
    /\ tabs \in [Matches -> SUBSET Tables] /\ round \in [Matches -> Rounds]
    /\ finished \in [Matches -> 0..MaxPlayers] /\ winlost \in [Matches -> Int]
    /\ info \in [Players -> [count : Nat, waitStart : BOOLEAN, score : Nat]]
    /\ seats \in [Tables -> SUBSET Players] /\ owner \in [Tables -> Matches \cup {Nobody}]
    /\ phase \in [Tables -> {"init", "play", "end"}]
    /\ account \in [Users -> Nat] /\ stock \in Int
    /\ online \in [Users -> BOOLEAN] /\ cooldown \in [Users -> BOOLEAN]
    /\ freeAndroids \subseteq Androids /\ canJoin \in BOOLEAN /\ fixedAllocate \in BOOLEAN
    /\ entries \in [Users -> 0..MaxEntries]

\* Nobody is lost between the tables, vec_WaitUser_ and the count of those who have finished: each player of a
\* match that is played is in exactly one of the three, and m_cur_round_finish_count counts the third.  The
\* round ends only when that count reaches the length of the list (AllocateUser, 283 and 287).
NobodyIsLost ==
    \A m \in Matches : status[m] = "gaming" =>
        LET all == ToSet(list[m])
            seated == UNION {seats[t] : t \in {t \in Tables : owner[t] = m}}
            waiting == ToSet(wait[m])
            done == {p \in all : info[p].count >= Games[round[m]]}
        IN  /\ Len(list[m]) = Cardinality(all) /\ Len(wait[m]) = Cardinality(waiting)
            /\ seated \cup waiting \cup done = all
            /\ seated \cap waiting = {} /\ seated \cap done = {} /\ waiting \cap done = {}
            /\ finished[m] = Cardinality(done)

\* A table serves one match at a time although every match takes its tables from all tables of the server with
\* a free chair (getSuitTable): a table in use has players of the match it reports to, and no other's.
OneMatchPerTable ==
    \A t \in Tables :
        /\ seats[t] # {} => owner[t] \in Matches /\ seats[t] \subseteq ToSet(list[owner[t]])
        /\ \A m \in Matches : t \in tabs[m] => owner[t] = m /\ phase[t] = "play"
        /\ phase[t] # "init" <=> seats[t] # {}

\* Players at one table have played the same number of games of the round, whatever order tables finish in and
\* are dealt again: they all finish the round together, so that no table is left with free chairs.
InStepAtTable ==
    \A t \in Tables : \A p, q \in seats[t] : info[p].count = info[q].count

\* At most one room waits for players, so that players and androids gather in one (FindNormalSuitMatch).
OneWaits ==
    \A m, n \in used : status[m] = "wait" /\ status[n] = "wait" => m = n

\* A player known to the server (in a match) has online info in Redis, which keeps him from other games and
\* orders away and brings him back; he is in one match only, and an android is either free or in a match.
InOneMatch ==
    /\ \A u \in Users : InMatch(u) => online[u]
    /\ \A p \in Players, m, n \in Matches : p \in ToSet(list[m]) /\ p \in ToSet(list[n]) => m = n
    /\ freeAndroids = {a \in Androids : ~InMatch(a)}

\* "At least 8 androids" (MatchRoom.cpp:79) are in every match that is played, as long as a match has room for them.
AndroidsReserved ==
    \A m \in Matches : status[m] = "gaming" /\ round[m] = 1 /\ MaxPlayers >= Reserved =>
        Cardinality(ToSet(list[m]) \cap Androids) >= Reserved

\* Fees and awards add up: what the players have, what waiting players have paid (and get back when they leave),
\* what a running match has won so far and the stock it is settled with.
Held(m) == IF status[m] = "gaming" THEN winlost[m] ELSE Fee * RealIn(list[m])

MoneyConserved ==
    SumOver(Users, account) + SumOver(Matches, [m \in Matches |-> Held(m)]) + stock
        = Purse * Cardinality(Users)

\* Who is eliminated has no better score than anybody who stays, and of two with the same score the one who was
\* ahead stays ahead (comment at IMatchRoom.cpp:138-141).
RankIsKept ==
    [][\A m \in Matches : AllocateUser(m) /\ status'[m] = "gaming" =>
          \A p, q \in ToSet(list[m]) :
             q \in ToSet(list'[m]) /\ (p \in ToSet(list'[m]) => Index(list'[m], q) < Index(list'[m], p)) =>
                \/ p = q
                \/ info[p].score < info[q].score
                \/ info[p].score = info[q].score /\ Index(list[m], q) < Index(list[m], p)]_vars

\* Every match that is started is played to its end, provided there are tables for all matches at once.
MatchEnds ==
    TablesSuffice =>
        \A m \in Matches : status[m] = "gaming" ~> status[m] = "end"

\* Whoever waits for a match leaves it or gets to play, provided enough androids are there for all matches.
EveryoneStarts ==
    Cardinality(Androids) >= Cardinality(Matches) * (MaxPlayers - 1) =>
        \A u \in Users, m \in Matches :
            u \in ToSet(list[m]) /\ status[m] = "wait"
                ~> u \notin ToSet(list[m]) \/ status[m] = "gaming"
=============================================================================
