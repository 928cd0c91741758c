------------------------------ MODULE GameRoom ------------------------------
(***************************************************************************)
(* A room of GameServer: the players' items (CServerUserManager), the      *)
(* tables (CGameTableManager, CTableFrame) and the table sink of a         *)
(* confrontation game, Game_Qzzjh: matching, a round of calling the        *)
(* banker, betting and opening the cards, and the return to the hall.      *)
(*                                                                         *)
(* Every message and every timer of a room runs on one logic thread, so    *)
(* one action is one handler, from the message to the last call it makes.  *)
(* What varies is the order in which messages and timers arrive.           *)
(***************************************************************************)
EXTENDS Integers, FiniteSets

CONSTANTS Users,         \* players
          Androids,      \* robot players
          Items,         \* bound: the CServerUserItem objects ever made
          Tables,
          MinPlayers,    \* MIN_GAME_PLAYER
          MaxPlayers,    \* GAME_PLAYER, and maxPlayerNum of the room
          Conflicts,     \* pairs of players matchforbids keeps apart
          PoorAndroids,  \* an android may come with less than EnterMinScore
          MaxStale,      \* bound: forgotten ready timers of one table
          Nobody         \* no item, no user, no table, no banker

ASSUME GameRoomAssumption ==
    /\ MinPlayers \in Nat /\ MaxPlayers \in Nat
    /\ 2 <= MinPlayers /\ MinPlayers <= MaxPlayers
    /\ MaxStale \in Nat
    /\ PoorAndroids \in BOOLEAN
    /\ Items \cap Androids = {}
    /\ IsFiniteSet(Items) /\ IsFiniteSet(Androids)
    /\ Nobody \notin Users \cup Tables \cup Items \cup Androids

VARIABLES
    item,     \* the user an item was made for and the table it sits at
    userMap,  \* m_UserMap
    online,   \* Redis: the room named by a player's online info
    proxy,    \* m_UserIdProxyConnectionInfoMap: players with a connection
    running,  \* serverStatus is SERVER_RUNNING, else SERVER_REPAIRING
    inUse,    \* m_listUsedTable; the other tables are in m_listFreeTable
    seats,    \* m_UserList: who sits at a table
    status,   \* m_userStatus of who sits somewhere
    game,     \* m_cbGameStatus
    limit,    \* MaxGamePlayers_
    matched,  \* totalMatchSeconds_ against its two limits
    armed,    \* timerGameReadyID_ is pending
    stale,    \* ready timers still pending that timerGameReadyID_ forgot
    acted,    \* who has called, bet or opened in the current phase
    banker    \* bankerUser_

users == <<item, userMap, online, proxy>>
table == <<seats, status, game, limit, matched, armed, stale, acted, banker>>
vars  == <<users, running, inUse, table>>
-----------------------------------------------------------------------------
Occupants == Items \cup Androids

Waiting == {"init", "ready"}                    \* status < GAME_STATUS_START
Playing == {"call", "score", "open"}
Phases  == Waiting \cup Playing \cup {"end"}

\* An item in m_FreeUserItemList, or not made yet.
FreeItem == [user |-> Nobody, table |-> Nobody]

Real(S) == S \cap Items

\* Mutant: one chair too many is drawn.
MatchLimitsBeyond == MinPlayers .. MaxPlayers + 1

\* The numbers of players a table may wait for: MaxGamePlayers_ is drawn by
\* the first one to sit down.
MatchLimits == MinPlayers .. MaxPlayers

\* FindUserItem and isValided
Seated(u) == userMap[u] # Nobody /\ item[userMap[u]].table # Nobody

\* The sink's part of CanJoinTable for a player: a table that waits has room,
\* a round takes nobody but those who sit there, and its end nobody.
SinkCanJoin(t, i) ==
    \/ game[t] \in Waiting /\ Cardinality(seats[t]) < limit[t]
    \/ game[t] \in Playing /\ i \in seats[t]

CanJoinTable(t, u, i) ==
    /\ running
    /\ \A j \in Real(seats[t]) :
          item[j].user # u => {u, item[j].user} \notin Conflicts
    /\ SinkCanJoin(t, i)

CanLeftTable(t) == game[t] \notin Playing
-----------------------------------------------------------------------------
Init ==
    /\ item = [i \in Items |-> FreeItem]
    /\ userMap = [u \in Users |-> Nobody]
    /\ online = [u \in Users |-> "none"]
    /\ proxy = {}
    /\ running = TRUE
    /\ inUse = {}
    /\ seats = [t \in Tables |-> {}]
    /\ status = [x \in Occupants |-> "free"]
    /\ game = [t \in Tables |-> "init"]
    /\ limit = [t \in Tables |-> 0]
    /\ matched = [t \in Tables |-> "early"]
    /\ armed = [t \in Tables |-> FALSE]
    /\ stale = [t \in Tables |-> 0]
    /\ acted = [t \in Tables |-> {}]
    /\ banker = [t \in Tables |-> Nobody]

\* A player with an item, a table and the room his online info will name.
\* NoEntry stands for nobody.
Entry(i, u, t, room) == [item |-> i, user |-> u, table |-> t, room |-> room]
NoEntry == Entry(Nobody, Nobody, Nobody, "none")

\* Mutant: ResetUserItem keeps the table.
RegistersKeepsTable(gone, e) ==
    LET left == {item[i].user : i \in Real(gone)}
    IN  /\ item' = [i \in Items |->
                       IF i \in gone THEN [item[i] EXCEPT !.user = Nobody]
                       ELSE IF i = e.item THEN [user |-> e.user, table |-> e.table]
                       ELSE item[i]]
        /\ userMap' = [u \in Users |->
                          IF u \in left THEN Nobody
                          ELSE IF u = e.user THEN e.item ELSE userMap[u]]
        /\ online' = [u \in Users |->
                         IF u \in left THEN "none"
                         ELSE IF u = e.user THEN e.room ELSE online[u]]
        /\ proxy' = (proxy \cup ({e.user} \cap Users)) \ left

\* OnUserStandup of everybody in gone: connection info, online info, item and
\* map entry of a player are dropped.  The player of entry e comes in.
Registers(gone, e) ==
    LET left == {item[i].user : i \in Real(gone)}
    IN  /\ item' = [i \in Items |->
                       IF i \in gone THEN FreeItem
                       ELSE IF i = e.item THEN [user |-> e.user, table |-> e.table]
                       ELSE item[i]]
        /\ userMap' = [u \in Users |->
                          IF u \in left THEN Nobody
                          ELSE IF u = e.user THEN e.item ELSE userMap[u]]
        /\ online' = [u \in Users |->
                         IF u \in left THEN "none"
                         ELSE IF u = e.user THEN e.room ELSE online[u]]
        /\ proxy' = (proxy \cup ({e.user} \cap Users)) \ left

\* Who sits at t after the handler, and with which status.
Seats(t, S, s) ==
    /\ seats' = [seats EXCEPT ![t] = S]
    /\ status' = [x \in Occupants |->
                     IF x \in S THEN s[x]
                     ELSE IF x \in seats[t] THEN "free" ELSE status[x]]

Game(t, phase) == game' = [game EXCEPT ![t] = phase]

\* timerGameReadyID_ = runAfter(...): a timer that is still pending under the
\* old id is forgotten, not cancelled.
ArmReady(t) ==
    /\ armed' = [armed EXCEPT ![t] = TRUE]
    /\ stale' = [stale EXCEPT ![t] = IF armed[t] THEN @ + 1 ELSE @]
    /\ stale'[t] <= MaxStale

\* Mutant: the timer id is cleared but the timer not cancelled.
CancelReadyForgets(t) == UNCHANGED <<armed, stale>>

\* cancel(timerGameReadyID_)
CancelReady(t) ==
    /\ armed' = [armed EXCEPT ![t] = FALSE]
    /\ UNCHANGED stale

\* InitGameData: the round's data are cleared.
ClearRound(t) ==
    /\ acted' = [acted EXCEPT ![t] = {}]
    /\ banker' = [banker EXCEPT ![t] = Nobody]

\* Mutant: the players are counted before some of them stand up.
GameTimerReadyOverCountsGone(t, S, s, e) ==
    \E gone \in SUBSET S :
        /\ \A i \in Real(S) : i \in gone <=> s[i] = "offline"
        /\ gone \cap Androids # {} => PoorAndroids
        /\ Registers(gone, e)
        /\ IF Cardinality(S) >= MinPlayers
              THEN /\ Seats(t, S \ gone, [x \in S |-> "playing"])
                   /\ Game(t, "call")
                   /\ ClearRound(t)
              ELSE /\ Seats(t, S \ gone, [x \in S |-> "ready"])
                   /\ Game(t, "init")
                   /\ UNCHANGED <<acted, banker>>

\* GameTimerReadyOver with S at the table: who is offline or too poor stands
\* up; the round starts with the others, or the table falls back to the
\* initial state with them, waiting for nothing.  OnGameStart included.
GameTimerReadyOver(t, S, s, e) ==
    \E gone \in SUBSET S :
        /\ \A i \in Real(S) : i \in gone <=> s[i] = "offline"
        /\ gone \cap Androids # {} => PoorAndroids
        /\ Registers(gone, e)
        /\ IF Cardinality(S \ gone) >= MinPlayers
              THEN /\ Seats(t, S \ gone, [x \in S |-> "playing"])
                   /\ Game(t, "call")
                   /\ ClearRound(t)
              ELSE /\ Seats(t, S \ gone, [x \in S |-> "ready"])
                   /\ Game(t, "init")
                   /\ UNCHANGED <<acted, banker>>

\* OnUserEnter of x, who sits at t already, as a new player or a returning one.
OnUserEnter(t, x, e) ==
    LET S == seats[t] \cup {x}
        s == [y \in S |-> IF y = x THEN "ready" ELSE status[y]]
    IN  \/ /\ S = {x}
           /\ \E n \in MatchLimits : limit' = [limit EXCEPT ![t] = n]
           /\ matched' = [matched EXCEPT ![t] = "early"]
           /\ Game(t, "ready")
           /\ ArmReady(t)
           /\ Seats(t, S, s)
           /\ Registers({}, e)
           /\ UNCHANGED <<acted, banker>>
        \/ /\ S # {x} /\ game[t] \in Waiting /\ Cardinality(S) >= limit[t]
           /\ GameTimerReadyOver(t, S, s, e)
           /\ CancelReady(t)
           /\ UNCHANGED <<limit, matched>>
        \/ /\ S # {x} /\ game[t] \in Waiting /\ Cardinality(S) < limit[t]
           /\ Seats(t, S, s)
           /\ Registers({}, e)
           /\ UNCHANGED <<game, limit, matched, armed, stale, acted, banker>>
        \/ /\ S # {x} /\ game[t] \notin Waiting
           /\ Seats(t, S, [s EXCEPT ![x] = "playing"])
           /\ Registers({}, e)
           /\ UNCHANGED <<game, limit, matched, armed, stale, acted, banker>>
-----------------------------------------------------------------------------
(* Messages: cmd_enter_room, cmd_user_left, cmd_user_offline,              *)
(* cmd_game_message.                                                       *)

\* cmd_enter_room of a player who is seated already (SwitchUserItem).
Reenter(u) ==
    /\ online[u] # "none"
    /\ Seated(u)
    /\ LET i == userMap[u]
           t == item[i].table
       IN  IF CanJoinTable(t, u, i)
              THEN OnUserEnter(t, i, Entry(i, u, t, online[u]))
              ELSE /\ proxy' = proxy \cup {u}
                   /\ UNCHANGED <<item, userMap, online, table>>
    /\ UNCHANGED <<running, inUse>>

\* The used tables FindNormalSuitTable may return for a player who asks for
\* the table wish (Nobody: for none).
Suitable(u, wish) ==
    {t \in inUse : /\ wish \in {t, Nobody}
                   /\ Cardinality(seats[t]) < MaxPlayers
                   /\ CanJoinTable(t, u, Nobody)}

\* The tables it returns: a suitable one; else the free table asked for; else
\* any free one, which is not asked whether the player can join.
FindNormalSuitTable(u, wish) ==
    IF Suitable(u, wish) # {} THEN Suitable(u, wish)
    ELSE IF wish \in Tables \ inUse THEN {wish}
    ELSE Tables \ inUse

\* cmd_enter_room of a player who is not seated: GetUserItem, a table, a chair.
Enter(u, wish) ==
    /\ online[u] = "here"
    /\ ~Seated(u)
    /\ \E i \in Items, t \in FindNormalSuitTable(u, wish) :
          /\ item[i] = FreeItem
          /\ inUse' = inUse \cup {t}
          /\ OnUserEnter(t, i, Entry(i, u, t, "here"))
    /\ UNCHANGED running

\* No table: the online info is deleted and the item stays in m_UserMap and in
\* m_UsedUserItemList.
EnterTableFull(u, wish) ==
    /\ online[u] = "here"
    /\ ~Seated(u)
    /\ FindNormalSuitTable(u, wish) = {}
    /\ \E i \in Items :
          /\ item[i] = FreeItem
          /\ Registers({}, Entry(i, u, Nobody, "none"))
    /\ UNCHANGED <<running, inUse, table>>

\* Mutant: the limits are checked before the player is looked up.
EnterRefusedFirst(u) ==
    /\ online[u] = "here"
    /\ online' = [online EXCEPT ![u] = "none"]
    /\ proxy' = proxy \cup {u}
    /\ UNCHANGED <<item, userMap, running, inUse, table>>

\* The database does not know the player, or his score is outside the limits
\* of the room.
EnterRefused(u) ==
    /\ online[u] = "here"
    /\ ~Seated(u)
    /\ online' = [online EXCEPT ![u] = "none"]
    /\ proxy' = proxy \cup {u}
    /\ UNCHANGED <<item, userMap, running, inUse, table>>

\* CheckUserCanEnterRoom: the online info names another room.
EnterElsewhere(u) ==
    /\ online[u] = "other"
    /\ ~Seated(u)
    /\ proxy' = proxy \cup {u}
    /\ UNCHANGED <<item, userMap, online, running, inUse, table>>

\* The sink's OnUserLeft of item i, whose status is sOffline by then: while
\* the table is matching he stands up, and with the last player the androids.
\* The ready timer is not among those ClearAllTimer cancels.  If he stays,
\* the connections are px.
OnUserLeft(t, i, px) ==
    /\ IF game[t] = "ready"
          THEN LET empty == Real(seats[t]) = {i}
                   gone == {i} \cup (IF empty THEN {a \in seats[t] \cap Androids :
                                                      status[a] # "playing"}
                                              ELSE {})
               IN  /\ Registers(gone, NoEntry)
                   /\ Seats(t, seats[t] \ gone, status)
                   /\ Game(t, IF empty THEN "init" ELSE "ready")
          ELSE /\ status' = [status EXCEPT ![i] = "offline"]
               /\ proxy' = px
               /\ UNCHANGED <<item, userMap, online, seats, game>>
    /\ UNCHANGED <<limit, matched, armed, stale, acted, banker>>

\* cmd_user_left: refused during a round.
UserLeft(u) ==
    /\ Seated(u)
    /\ LET t == item[userMap[u]].table
       IN  CanLeftTable(t) /\ OnUserLeft(t, userMap[u], proxy)
    /\ UNCHANGED <<running, inUse>>

\* cmd_user_offline: the proxy reports a closed connection, whichever it was.
UserOffline(u) ==
    /\ Seated(u)
    /\ OnUserLeft(item[userMap[u]].table, userMap[u], proxy \ {u})
    /\ UNCHANGED <<running, inUse>>

\* The phase after the current one, once everybody at the table has acted.
Advance(t) ==
    \/ /\ game[t] = "call"
       /\ \E x \in seats[t] : banker' = [banker EXCEPT ![t] = x]
       /\ Game(t, "score")
       /\ UNCHANGED online
    \/ /\ game[t] = "score"
       /\ Game(t, "open")
       /\ UNCHANGED <<banker, online>>
    \/ /\ game[t] = "open"
       /\ Game(t, "end")
       /\ online' = [u \in Users |->
                        IF \E i \in Real(seats[t]) : item[i].user = u /\ status[i] # "offline"
                           THEN "here" ELSE online[u]]
       /\ UNCHANGED banker

\* Who has to act in the current phase.
Actors(t) == IF game[t] = "score" THEN seats[t] \ {banker[t]} ELSE seats[t]

\* cmd_game_message: x calls, bets or opens.  The last one ends the phase; the
\* round is settled (WriteUserScore) when the last hand is open.
GameMessage(t, x) ==
    /\ game[t] \in Playing
    /\ x \in Actors(t) \ acted[t]
    /\ IF acted[t] \cup {x} = Actors(t)
          THEN /\ Advance(t)
               /\ acted' = [acted EXCEPT ![t] = {}]
          ELSE /\ acted' = [acted EXCEPT ![t] = @ \cup {x}]
               /\ UNCHANGED <<game, banker, online>>
    /\ UNCHANGED <<item, userMap, proxy, running, inUse, seats, status, limit,
                   matched, armed, stale>>
-----------------------------------------------------------------------------
(* Timers. *)

\* Mutant: no timer opens the cards.
PhaseTimerBeforeOpen(t) ==
    /\ game[t] \in {"call", "score"}
    /\ Advance(t)
    /\ acted' = [acted EXCEPT ![t] = {}]
    /\ UNCHANGED <<item, userMap, proxy, running, inUse, seats, status, limit,
                   matched, armed, stale>>

\* OnTimerCallBanker, OnTimerAddScore, OnTimerOpenCard: the default action for
\* everybody who has not acted.
PhaseTimer(t) ==
    /\ game[t] \in Playing
    /\ Advance(t)
    /\ acted' = [acted EXCEPT ![t] = {}]
    /\ UNCHANGED <<item, userMap, proxy, running, inUse, seats, status, limit,
                   matched, armed, stale>>

\* Everybody is set to sFree and stands up; InitGameData; initial state.
ClearTable(t) ==
    /\ Registers(seats[t], NoEntry)
    /\ Seats(t, {}, status)
    /\ Game(t, "init")
    /\ ClearRound(t)

\* OnTimerGameEnd
GameEndTimer(t) ==
    /\ game[t] = "end"
    /\ ClearTable(t)
    /\ UNCHANGED <<running, inUse, limit, matched, armed, stale>>

\* A ready timer fires and cancels timerGameReadyID_, whichever that is.
FireReady(t) ==
    \/ armed[t] /\ UNCHANGED stale
    \/ stale[t] > 0 /\ stale' = [stale EXCEPT ![t] = @ - 1]

Later(m) == CASE m = "early" -> {"early", "androids"}
              [] m = "androids" -> {"androids", "late"}
              [] m = "late" -> {"late"}

\* Mutant: the timer is not armed again while nobody else has come.
MatchTickOnce(t) ==
    /\ \E m \in Later(matched[t]) : matched' = [matched EXCEPT ![t] = m]
    /\ armed' = [armed EXCEPT ![t] = FALSE]
    /\ IF matched'[t] = "late" /\ Cardinality(seats[t]) >= MinPlayers
          THEN GameTimerReadyOver(t, seats[t], status, NoEntry)
          ELSE UNCHANGED <<users, seats, status, game, acted, banker>>

\* Mutant: the table waits until it is full, however long that takes.
MatchTickFullOnly(t) ==
    /\ \E m \in Later(matched[t]) : matched' = [matched EXCEPT ![t] = m]
    /\ armed' = [armed EXCEPT ![t] = Cardinality(seats[t]) < limit[t]]
    /\ UNCHANGED <<users, seats, status, game, acted, banker>>

\* OnTimerGameReadyOver while the table is matching.
MatchTick(t) ==
    /\ \E m \in Later(matched[t]) : matched' = [matched EXCEPT ![t] = m]
    /\ IF Cardinality(seats[t]) >= limit[t]
          THEN /\ armed' = [armed EXCEPT ![t] = FALSE]
               /\ UNCHANGED <<users, seats, status, game, acted, banker>>
          ELSE IF matched'[t] = "late" /\ Cardinality(seats[t]) >= MinPlayers
          THEN /\ armed' = [armed EXCEPT ![t] = FALSE]
               /\ GameTimerReadyOver(t, seats[t], status, NoEntry)
          ELSE /\ armed' = [armed EXCEPT ![t] = TRUE]
               /\ UNCHANGED <<users, seats, status, game, acted, banker>>

\* OnTimerGameReadyOver: a table without players, or one that is not matching,
\* is cleared, whatever goes on there.
ReadyTimer(t) ==
    /\ FireReady(t)
    /\ \/ /\ Real(seats[t]) # {} /\ game[t] = "ready"
          /\ MatchTick(t)
       \/ /\ Real(seats[t]) = {} /\ game[t] = "init"
          /\ armed' = [armed EXCEPT ![t] = FALSE]
          /\ UNCHANGED <<users, seats, status, game, matched, acted, banker>>
       \/ /\ IF Real(seats[t]) = {} THEN game[t] # "init" ELSE game[t] # "ready"
          /\ ClearTable(t)
          /\ armed' = [armed EXCEPT ![t] = FALSE]
          /\ UNCHANGED matched
    /\ UNCHANGED <<running, inUse, limit>>

\* OnTimerCheckUserIn, seen from one used table: an android joins players who
\* have waited long enough.
AndroidEnter(t) ==
    /\ t \in inUse
    /\ running
    /\ Real(seats[t]) # {}
    /\ game[t] \in Waiting
    /\ Cardinality(seats[t]) < limit[t]
    /\ matched[t] # "early"
    /\ \E a \in Androids :
          /\ \A s \in Tables : a \notin seats[s]
          /\ OnUserEnter(t, a, NoEntry)
    /\ UNCHANGED <<running, inUse>>
-----------------------------------------------------------------------------
(* Around the room. *)

\* HallServer sends the player to a room, this one or another, and writes it
\* into his online info if he has none.
HallGrant(u) ==
    /\ online[u] = "none"
    /\ \E room \in {"here", "other"} : online' = [online EXCEPT ![u] = room]
    /\ UNCHANGED <<item, userMap, proxy, running, inUse, table>>

\* The online info of a player who never came expires, or the other room
\* deletes it.
OnlineGone(u) ==
    /\ online[u] # "none"
    /\ ~Seated(u)
    /\ online' = [online EXCEPT ![u] = "none"]
    /\ UNCHANGED <<item, userMap, proxy, running, inUse, table>>

\* cmd_notifyRepairServerResp
RepairServer ==
    /\ running' = ~running
    /\ UNCHANGED <<users, inUse, table>>

Next ==
    \/ \E u \in Users, wish \in Tables \cup {Nobody} :
          Enter(u, wish) \/ EnterTableFull(u, wish)
    \/ \E u \in Users : \/ Reenter(u) \/ EnterRefused(u) \/ EnterElsewhere(u)
                        \/ UserLeft(u) \/ UserOffline(u)
                        \/ HallGrant(u) \/ OnlineGone(u)
    \/ \E t \in Tables, x \in Occupants : GameMessage(t, x)
    \/ \E t \in Tables : \/ PhaseTimer(t) \/ GameEndTimer(t) \/ ReadyTimer(t)
                         \/ AndroidEnter(t)
    \/ RepairServer

Spec == Init /\ [][Next]_vars

\* A ready timer, after enough of them to reach the next limit of the matching
\* time.
MatchTimer(t) ==
    /\ ReadyTimer(t)
    /\ game[t] = "ready" /\ matched[t] # "late" => matched' # matched

\* The event loop fires every timer that was armed and the android check that
\* runs ten times a second.  Players do what they like.
FairSpec ==
    /\ Spec
    /\ \A t \in Tables : /\ WF_vars(PhaseTimer(t))
                         /\ WF_vars(GameEndTimer(t))
                         /\ WF_vars(MatchTimer(t))
                         /\ WF_vars(AndroidEnter(t))
-----------------------------------------------------------------------------
(* Properties. *)

TypeOK ==
    /\ item \in [Items -> [user : Users \cup {Nobody}, table : Tables \cup {Nobody}]]
    /\ userMap \in [Users -> Items \cup {Nobody}]
    /\ online \in [Users -> {"none", "here", "other"}]
    /\ proxy \in SUBSET Users
    /\ running \in BOOLEAN
    /\ inUse \in SUBSET Tables
    /\ seats \in [Tables -> SUBSET Occupants]
    /\ status \in [Occupants -> {"free", "ready", "playing", "offline"}]
    /\ game \in [Tables -> Phases]
    /\ limit \in [Tables -> 0 .. MaxPlayers]
    /\ matched \in [Tables -> {"early", "androids", "late"}]
    /\ armed \in [Tables -> BOOLEAN]
    /\ stale \in [Tables -> 0 .. MaxStale]
    /\ acted \in [Tables -> SUBSET Occupants]
    /\ banker \in [Tables -> Occupants \cup {Nobody}]

\* Whoever sits at a table is found: the map leads from the player to the item
\* in the chair and the item names the table.  So messages reach the table a
\* player sits at, he has one seat, and no chair holds an item that was given
\* back to the pool.
SeatIsFound ==
    \A i \in Items, t \in Tables :
        /\ i \in seats[t] <=> item[i].table = t
        /\ i \in seats[t] => /\ item[i].user \in Users
                             /\ userMap[item[i].user] = i

\* A seated player has online info that names this room: the hall sends him
\* nowhere else and his score cannot be withdrawn.
OnlineWhileSeated == \A u \in Users : Seated(u) => online[u] = "here"

\* A table that is matching has a pending ready timer and is waiting for
\* somebody: nothing else would ever start it.
MatchingGoesOn ==
    \A t \in Tables :
        game[t] = "ready" => /\ armed[t]
                             /\ Real(seats[t]) # {}
                             /\ Cardinality(seats[t]) < limit[t]

\* A round has enough players and somebody still to act, so that some message
\* or timer completes every phase.
RoundIsAlive ==
    \A t \in Tables :
        game[t] \in Playing => /\ Cardinality(seats[t]) >= MinPlayers
                               /\ acted[t] \subseteq Actors(t)
                               /\ acted[t] # Actors(t)

\* Nobody joins or leaves a round but when a forgotten ready timer fires.
RoundKeptUnlessStale ==
    [][\A t \in Tables :
          game[t] \in Playing /\ stale'[t] = stale[t] => seats'[t] = seats[t]]_vars

\* Every round comes to its end, whatever its players do, and its table is free
\* for the next one.
RoundEnds ==
    \A t \in Tables : game[t] \notin Waiting ~> game[t] = "init"

\* Nobody is kept at a table: a player who sits down gets his round and is sent
\* back to the hall, if he does not start the matching afresh for ever by
\* entering again and the server is not under repair for ever.
EverybodyIsServed ==
    \A u \in Users :
        <>[]running /\ <>[][~Reenter(u)]_vars => (Seated(u) ~> ~Seated(u))
=============================================================================
