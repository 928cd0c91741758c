--------------------------- MODULE GameRoomProofs ---------------------------
(***************************************************************************)
(* The safety properties of GameRoom for every number of players, robots,  *)
(* items and tables.                                                       *)
(***************************************************************************)
EXTENDS GameRoom, FiniteSetTheorems, TLAPS

-----------------------------------------------------------------------------
(* Types. *)

Entries == [item : Items \cup {Nobody}, user : Users \cup {Nobody}, table : Tables \cup {Nobody},
            room : {"none", "here", "other"}]

Statuses == {"free", "ready", "playing", "offline"}

\* A room that has just started has the types of TypeOK.
LEMMA InitType == Init => TypeOK
BY GameRoomAssumption DEF Init, TypeOK, FreeItem, Phases, Waiting

\* What an entry tells the registers.
LEMMA EntryType ==
    /\ NoEntry \in Entries
    /\ \A i \in Items, u \in Users, t \in Tables \cup {Nobody}, room \in {"none", "here", "other"} :
          Entry(i, u, t, room) \in Entries
BY DEF Entries, NoEntry, Entry

\* The user map, the items and the online info keep their types when players come and go.
LEMMA RegistersType ==
    ASSUME TypeOK, NEW gone, NEW e \in Entries, Registers(gone, e)
    PROVE  /\ item' \in [Items -> [user : Users \cup {Nobody}, table : Tables \cup {Nobody}]]
           /\ userMap' \in [Users -> Items \cup {Nobody}]
           /\ online' \in [Users -> {"none", "here", "other"}]
           /\ proxy' \in SUBSET Users
<1> DEFINE left == {item[i].user : i \in Real(gone)}
<1>1. /\ item' = [i \in Items |-> IF i \in gone THEN FreeItem
                                  ELSE IF i = e.item THEN [user |-> e.user, table |-> e.table] ELSE item[i]]
      /\ userMap' = [u \in Users |-> IF u \in left THEN Nobody ELSE IF u = e.user THEN e.item ELSE userMap[u]]
      /\ online' = [u \in Users |-> IF u \in left THEN "none" ELSE IF u = e.user THEN e.room ELSE online[u]]
      /\ proxy' = (proxy \cup ({e.user} \cap Users)) \ left
  BY DEF Registers
<1> HIDE DEF left
<1> QED
  BY <1>1 DEF TypeOK, Entries, FreeItem

\* Sitting down and standing up keep the types of chairs and statuses.
LEMMA SeatsType ==
    ASSUME TypeOK, NEW t \in Tables, NEW S \in SUBSET Occupants, NEW s, \A x \in S : s[x] \in Statuses, Seats(t, S, s)
    PROVE  seats' \in [Tables -> SUBSET Occupants] /\ status' \in [Occupants -> Statuses]
BY DEF TypeOK, Seats, Statuses

\* The start of a round, or its failure, keeps the types (GameTimerReadyOver).
LEMMA ReadyOverType ==
    ASSUME TypeOK, NEW t \in Tables, NEW S \in SUBSET Occupants, NEW s, NEW e \in Entries,
           GameTimerReadyOver(t, S, s, e)
    PROVE  /\ item' \in [Items -> [user : Users \cup {Nobody}, table : Tables \cup {Nobody}]]
           /\ userMap' \in [Users -> Items \cup {Nobody}]
           /\ online' \in [Users -> {"none", "here", "other"}]
           /\ proxy' \in SUBSET Users
           /\ seats' \in [Tables -> SUBSET Occupants]
           /\ status' \in [Occupants -> Statuses]
           /\ game' \in [Tables -> Phases]
           /\ acted' \in [Tables -> SUBSET Occupants]
           /\ banker' \in [Tables -> Occupants \cup {Nobody}]
<1>1. PICK gone \in SUBSET S :
          /\ Registers(gone, e)
          /\ \/ /\ Seats(t, S \ gone, [x \in S |-> "playing"])
                /\ Game(t, "call")
                /\ ClearRound(t)
             \/ /\ Seats(t, S \ gone, [x \in S |-> "ready"])
                /\ Game(t, "init")
                /\ UNCHANGED <<acted, banker>>
  BY DEF GameTimerReadyOver
<1>2. seats' \in [Tables -> SUBSET Occupants] /\ status' \in [Occupants -> Statuses]
  <2>1. S \ gone \in SUBSET Occupants
    OBVIOUS
  <2>2. CASE Seats(t, S \ gone, [x \in S |-> "playing"])
    <3> DEFINE s1 == [x \in S |-> "playing"]
    <3>1. \A x \in S \ gone : s1[x] \in Statuses
      BY DEF Statuses
    <3> HIDE DEF s1
    <3> QED
      BY <2>1, <2>2, <3>1, SeatsType DEF s1
  <2>3. CASE Seats(t, S \ gone, [x \in S |-> "ready"])
    <3> DEFINE s1 == [x \in S |-> "ready"]
    <3>1. \A x \in S \ gone : s1[x] \in Statuses
      BY DEF Statuses
    <3> HIDE DEF s1
    <3> QED
      BY <2>1, <2>3, <3>1, SeatsType DEF s1
  <2> QED
    BY <1>1, <2>2, <2>3
<1>3. /\ game' \in [Tables -> Phases]
      /\ acted' \in [Tables -> SUBSET Occupants]
      /\ banker' \in [Tables -> Occupants \cup {Nobody}]
  BY <1>1 DEF TypeOK, Game, ClearRound, Phases, Playing, Waiting
<1> QED
  BY <1>1, <1>2, <1>3, RegistersType

\* Arming the ready timer keeps the types; an overwritten id counts as stale.
LEMMA ArmType ==
    ASSUME TypeOK, NEW t \in Tables, ArmReady(t)
    PROVE  armed' \in [Tables -> BOOLEAN] /\ stale' \in [Tables -> 0 .. MaxStale] /\ armed'[t]
<1>1. stale[t] \in Nat /\ stale'[t] <= MaxStale /\ stale' = [stale EXCEPT ![t] = IF armed[t] THEN @ + 1 ELSE @]
  BY GameRoomAssumption DEF TypeOK, ArmReady
<1>2. stale'[t] \in 0 .. MaxStale
  BY <1>1, GameRoomAssumption DEF TypeOK
<1> QED
  BY <1>1, <1>2 DEF TypeOK, ArmReady

\* A player or an android who sits down keeps the types (OnUserEnter).
LEMMA EnterType ==
    ASSUME TypeOK, NEW t \in Tables, NEW x \in Occupants, NEW e \in Entries, OnUserEnter(t, x, e),
           UNCHANGED running, inUse' \subseteq Tables
    PROVE  TypeOK'
<1> DEFINE S == seats[t] \cup {x}
           s == [y \in S |-> IF y = x THEN "ready" ELSE status[y]]
<1>1. S \in SUBSET Occupants /\ \A y \in S : s[y] \in Statuses
  BY DEF TypeOK, Statuses
<1>2. CASE /\ S = {x}
           /\ \E n \in MatchLimits : limit' = [limit EXCEPT ![t] = n]
           /\ matched' = [matched EXCEPT ![t] = "early"]
           /\ Game(t, "ready")
           /\ ArmReady(t)
           /\ Seats(t, S, s)
           /\ Registers({}, e)
           /\ UNCHANGED <<acted, banker>>
  <2>1. limit' \in [Tables -> 0 .. MaxPlayers]
    <3>1. \A n \in MatchLimits : n \in 0 .. MaxPlayers
      BY GameRoomAssumption DEF MatchLimits
    <3> QED
      BY <1>2, <3>1 DEF TypeOK
  <2>2. seats' \in [Tables -> SUBSET Occupants] /\ status' \in [Occupants -> Statuses]
    <3> HIDE DEF S, s
    <3> QED
      BY <1>1, <1>2, SeatsType
  <2>3. game' \in [Tables -> Phases] /\ matched' \in [Tables -> {"early", "androids", "late"}]
    BY <1>2 DEF TypeOK, Game, Phases, Waiting
  <2> QED
    BY <1>2, <2>1, <2>2, <2>3, RegistersType, ArmType DEF TypeOK, Statuses
<1>3. CASE /\ GameTimerReadyOver(t, S, s, e)
           /\ CancelReady(t)
           /\ UNCHANGED <<limit, matched>>
  <2> HIDE DEF S, s
  <2>1. armed' \in [Tables -> BOOLEAN] /\ UNCHANGED stale
    BY <1>3 DEF TypeOK, CancelReady
  <2> QED
    BY <1>1, <1>3, <2>1, ReadyOverType DEF TypeOK, Statuses
<1>4. CASE /\ Seats(t, S, s) \/ Seats(t, S, [s EXCEPT ![x] = "playing"])
           /\ Registers({}, e)
           /\ UNCHANGED <<game, limit, matched, armed, stale, acted, banker>>
  <2>1. seats' \in [Tables -> SUBSET Occupants] /\ status' \in [Occupants -> Statuses]
    <3>1. \A y \in S : [s EXCEPT ![x] = "playing"][y] \in Statuses
      BY <1>1 DEF Statuses
    <3> HIDE DEF S, s
    <3> QED
      BY <1>1, <1>4, <3>1, SeatsType
  <2> QED
    BY <1>4, <2>1, RegistersType DEF TypeOK, Statuses
<1> QED
  BY <1>2, <1>3, <1>4 DEF OnUserEnter

\* The table of a seated player, and his item.
LEMMA SeatedType ==
    ASSUME TypeOK, NEW u \in Users, Seated(u)
    PROVE  userMap[u] \in Items /\ item[userMap[u]].table \in Tables
BY DEF TypeOK, Seated

\* What FindNormalSuitTable finds is a table.
LEMMA FoundType ==
    ASSUME TypeOK, NEW u, NEW wish, NEW t \in FindNormalSuitTable(u, wish)
    PROVE  t \in Tables
<1>1. inUse \subseteq Tables
  BY DEF TypeOK
<1> QED
  BY <1>1 DEF FindNormalSuitTable, Suitable

\* A player who leaves keeps the types (OnUserLeft).
LEMMA LeftType ==
    ASSUME TypeOK, NEW t \in Tables, NEW i \in Items, NEW px \in SUBSET Users, OnUserLeft(t, i, px),
           UNCHANGED <<running, inUse>>
    PROVE  TypeOK'
<1>1. CASE game[t] = "ready"
  <2>1. PICK gone : /\ Registers(gone, NoEntry)
                    /\ Seats(t, seats[t] \ gone, status)
                    /\ Game(t, "init") \/ Game(t, "ready")
    BY <1>1 DEF OnUserLeft
  <2>2. seats' \in [Tables -> SUBSET Occupants] /\ status' \in [Occupants -> Statuses]
    <3>1. seats[t] \ gone \in SUBSET Occupants /\ \A x \in seats[t] \ gone : status[x] \in Statuses
      BY DEF TypeOK, Statuses
    <3> QED
      BY <2>1, <3>1, SeatsType
  <2>3. game' \in [Tables -> Phases]
    BY <2>1 DEF TypeOK, Game, Phases, Waiting
  <2> QED
    BY <2>1, <2>2, <2>3, RegistersType, EntryType DEF OnUserLeft, TypeOK, Statuses
<1>2. CASE game[t] # "ready"
  BY <1>2 DEF OnUserLeft, TypeOK
<1> QED
  BY <1>1, <1>2

\* The next phase of a round keeps the types.
LEMMA AdvanceType ==
    ASSUME TypeOK, NEW t \in Tables, Advance(t)
    PROVE  /\ game' \in [Tables -> Phases]
           /\ banker' \in [Tables -> Occupants \cup {Nobody}]
           /\ online' \in [Users -> {"none", "here", "other"}]
<1>1. game' \in [Tables -> Phases]
  BY DEF TypeOK, Advance, Game, Phases, Playing
<1>2. banker' \in [Tables -> Occupants \cup {Nobody}]
  BY DEF TypeOK, Advance
<1>3. online' \in [Users -> {"none", "here", "other"}]
  BY DEF TypeOK, Advance
<1> QED
  BY <1>1, <1>2, <1>3

\* Clearing a table keeps the types.
LEMMA ClearType ==
    ASSUME TypeOK, NEW t \in Tables, ClearTable(t), UNCHANGED <<running, inUse, limit>>,
           matched' \in [Tables -> {"early", "androids", "late"}],
           armed' \in [Tables -> BOOLEAN], stale' \in [Tables -> 0 .. MaxStale]
    PROVE  TypeOK'
<1>1. seats' \in [Tables -> SUBSET Occupants] /\ status' \in [Occupants -> Statuses]
  <2>1. {} \in SUBSET Occupants /\ \A x \in {} : status[x] \in Statuses
    OBVIOUS
  <2> QED
    BY <2>1, SeatsType DEF ClearTable
<1>2. /\ game' \in [Tables -> Phases]
      /\ acted' \in [Tables -> SUBSET Occupants] /\ banker' \in [Tables -> Occupants \cup {Nobody}]
  BY DEF ClearTable, Game, ClearRound, TypeOK, Phases, Waiting
<1> QED
  BY <1>1, <1>2, RegistersType, EntryType DEF ClearTable, TypeOK, Statuses

\* A ready timer that fires is pending no more.
LEMMA FireType ==
    ASSUME TypeOK, NEW t \in Tables, FireReady(t)
    PROVE  stale' \in [Tables -> 0 .. MaxStale]
<1>1. CASE UNCHANGED stale
  BY <1>1 DEF TypeOK
<1>2. CASE stale[t] > 0 /\ stale' = [stale EXCEPT ![t] = @ - 1]
  <2>1. stale[t] \in 0 .. MaxStale /\ MaxStale \in Nat
    BY GameRoomAssumption DEF TypeOK
  <2>2. stale[t] - 1 \in 0 .. MaxStale
    BY <1>2, <2>1
  <2> QED
    BY <1>2, <2>2 DEF TypeOK
<1> QED
  BY <1>1, <1>2 DEF FireReady

\* A tick of the matching keeps the types.
LEMMA TickType ==
    ASSUME TypeOK, NEW t \in Tables, MatchTick(t), FireReady(t), UNCHANGED <<running, inUse, limit>>
    PROVE  TypeOK'
<1>1. matched' \in [Tables -> {"early", "androids", "late"}]
  <2>1. matched[t] \in {"early", "androids", "late"}
    BY DEF TypeOK
  <2>2. Later(matched[t]) \subseteq {"early", "androids", "late"}
    BY <2>1 DEF Later
  <2> QED
    BY <2>2 DEF TypeOK, MatchTick
<1>2. armed' \in [Tables -> BOOLEAN]
  BY DEF TypeOK, MatchTick
<1>3. CASE UNCHANGED <<users, seats, status, game, acted, banker>>
  BY <1>1, <1>2, <1>3, FireType DEF TypeOK, users
<1>4. CASE GameTimerReadyOver(t, seats[t], status, NoEntry)
  <2>1. seats[t] \in SUBSET Occupants
    BY DEF TypeOK
  <2> QED
    BY <1>1, <1>2, <1>4, <2>1, FireType, ReadyOverType, EntryType DEF TypeOK, Statuses
<1> QED
  BY <1>3, <1>4 DEF MatchTick

\* Every step keeps the types.
LEMMA NextType == TypeOK /\ [Next]_vars => TypeOK'
<1> SUFFICES ASSUME TypeOK, [Next]_vars PROVE TypeOK'
  OBVIOUS
<1>1. ASSUME NEW u \in Users, NEW wish \in Tables \cup {Nobody}, Enter(u, wish) PROVE TypeOK'
  <2>1. PICK i \in Items, t \in FindNormalSuitTable(u, wish) :
            inUse' = inUse \cup {t} /\ OnUserEnter(t, i, Entry(i, u, t, "here"))
    BY <1>1 DEF Enter
  <2>2. t \in Tables /\ i \in Occupants /\ UNCHANGED running /\ inUse' \subseteq Tables
    BY <1>1, <2>1, FoundType DEF Enter, Occupants, TypeOK
  <2>3. Entry(i, u, t, "here") \in Entries
    BY <2>2, EntryType
  <2> QED
    BY <2>1, <2>2, <2>3, EnterType
<1>2. ASSUME NEW u \in Users, NEW wish \in Tables \cup {Nobody}, EnterTableFull(u, wish) PROVE TypeOK'
  <2>1. PICK i \in Items : Registers({}, Entry(i, u, Nobody, "none"))
    BY <1>2 DEF EnterTableFull
  <2>2. Entry(i, u, Nobody, "none") \in Entries
    BY EntryType
  <2> QED
    BY <1>2, <2>1, <2>2, RegistersType DEF EnterTableFull, TypeOK, table
<1>3. ASSUME NEW u \in Users, Reenter(u) PROVE TypeOK'
  <2> DEFINE i == userMap[u]
             t == item[i].table
  <2>1. i \in Items /\ i \in Occupants /\ t \in Tables /\ UNCHANGED <<running, inUse>> /\ inUse' \subseteq Tables
    BY <1>3, SeatedType DEF Reenter, Occupants, TypeOK
  <2>2. Entry(i, u, t, online[u]) \in Entries
    BY <2>1, EntryType DEF TypeOK
  <2>3. CASE OnUserEnter(t, i, Entry(i, u, t, online[u]))
    <3> HIDE DEF i, t
    <3> QED
      BY <2>1, <2>2, <2>3, EnterType
  <2>4. CASE proxy' = proxy \cup {u} /\ UNCHANGED <<item, userMap, online, table>>
    BY <2>1, <2>4 DEF TypeOK, table
  <2> QED
    BY <1>3, <2>3, <2>4 DEF Reenter
<1>4. ASSUME NEW u \in Users, EnterRefused(u) \/ EnterElsewhere(u) \/ HallGrant(u) \/ OnlineGone(u) PROVE TypeOK'
  BY <1>4 DEF EnterRefused, EnterElsewhere, HallGrant, OnlineGone, TypeOK, table
<1>5. ASSUME NEW u \in Users, UserLeft(u) \/ UserOffline(u) PROVE TypeOK'
  <2>1. userMap[u] \in Items /\ item[userMap[u]].table \in Tables /\ UNCHANGED <<running, inUse>>
    BY <1>5, SeatedType DEF UserLeft, UserOffline
  <2>2. PICK px \in {proxy, proxy \ {u}} : OnUserLeft(item[userMap[u]].table, userMap[u], px)
    BY <1>5 DEF UserLeft, UserOffline
  <2>3. px \in SUBSET Users
    BY DEF TypeOK
  <2> QED
    BY <2>1, <2>2, <2>3, LeftType
<1>6. ASSUME NEW t \in Tables, NEW x \in Occupants, GameMessage(t, x) PROVE TypeOK'
  <2>1. acted' \in [Tables -> SUBSET Occupants]
    BY <1>6 DEF GameMessage, TypeOK
  <2>2. CASE Advance(t)
    BY <1>6, <2>1, <2>2, AdvanceType DEF GameMessage, TypeOK
  <2>3. CASE UNCHANGED <<game, banker, online>>
    BY <1>6, <2>1, <2>3 DEF GameMessage, TypeOK
  <2> QED
    BY <1>6, <2>2, <2>3 DEF GameMessage
<1>7. ASSUME NEW t \in Tables, PhaseTimer(t) PROVE TypeOK'
  BY <1>7, AdvanceType DEF PhaseTimer, TypeOK
<1>8. ASSUME NEW t \in Tables, GameEndTimer(t) PROVE TypeOK'
  BY <1>8, ClearType DEF GameEndTimer, TypeOK
<1>9. ASSUME NEW t \in Tables, ReadyTimer(t) PROVE TypeOK'
  <2>1. UNCHANGED <<running, inUse, limit>> /\ FireReady(t)
    BY <1>9 DEF ReadyTimer
  <2>2. CASE MatchTick(t)
    BY <2>1, <2>2, TickType
  <2>3. CASE /\ armed' = [armed EXCEPT ![t] = FALSE]
             /\ UNCHANGED <<users, seats, status, game, matched, acted, banker>>
    BY <2>1, <2>3, FireType DEF TypeOK, users
  <2>4. CASE ClearTable(t) /\ armed' = [armed EXCEPT ![t] = FALSE] /\ UNCHANGED matched
    BY <2>1, <2>4, FireType, ClearType DEF TypeOK
  <2> QED
    BY <1>9, <2>2, <2>3, <2>4 DEF ReadyTimer
<1>10. ASSUME NEW t \in Tables, AndroidEnter(t) PROVE TypeOK'
  <2>1. PICK a \in Androids : OnUserEnter(t, a, NoEntry)
    BY <1>10 DEF AndroidEnter
  <2>2. a \in Occupants /\ UNCHANGED running /\ inUse' \subseteq Tables
    BY <1>10 DEF AndroidEnter, Occupants, TypeOK
  <2> QED
    BY <2>1, <2>2, EnterType, EntryType
<1>11. CASE RepairServer
  BY <1>11 DEF RepairServer, TypeOK, users, table
<1>12. CASE UNCHANGED vars
  BY <1>12 DEF vars, users, table, TypeOK
<1> QED
  BY <1>1, <1>2, <1>3, <1>4, <1>5, <1>6, <1>7, <1>8, <1>9, <1>10, <1>11, <1>12 DEF Next

\* The state of the room stays what its declarations say.
THEOREM RoomTypeCorrect == Spec => []TypeOK
BY InitType, NextType, PTL DEF Spec

-----------------------------------------------------------------------------
(***************************************************************************)
(* Seats.  The map leads to an item of its player.                         *)
(***************************************************************************)
MapIsOwn == \A u \in Users : userMap[u] # Nobody => item[userMap[u]].user = u

SeatInv == SeatIsFound /\ MapIsOwn /\ OnlineWhileSeated

\* At the start nobody sits anywhere.
LEMMA InitSeat == Init => SeatInv
BY GameRoomAssumption DEF Init, SeatInv, SeatIsFound, MapIsOwn, OnlineWhileSeated, Seated, FreeItem

\* Who comes in: a robot, or nobody; a player with a fresh item who sits nowhere; or one who sits at t.
Comes(t, e) ==
    \/ e = NoEntry
    \/ /\ e.item \in Items /\ e.user \in Users /\ e.table = t /\ e.room = "here"
       /\ \/ item[e.item] = FreeItem /\ ~Seated(e.user)
          \/ e.item \in seats[t] /\ item[e.item].user = e.user

\* Some players leave table t and one comes in: the three registers and the chairs still agree.
LEMMA RegistersKeep ==
    ASSUME TypeOK, SeatInv, NEW t \in Tables, NEW gone, Real(gone) \subseteq seats[t],
           NEW e, Comes(t, e), e.item \notin gone,
           Registers(gone, e), NEW N,
           seats' = [seats EXCEPT ![t] = N],
           \A i \in Items : i \in N <=> (i \in seats[t] \/ i = e.item) /\ i \notin gone
    PROVE  SeatInv'
<1> DEFINE left == {item[i].user : i \in Real(gone)}
<1>0. /\ Nobody \notin Users /\ Nobody \notin Tables /\ Nobody \notin Items
      /\ item \in [Items -> [user : Users \cup {Nobody}, table : Tables \cup {Nobody}]]
      /\ userMap \in [Users -> Items \cup {Nobody}]
      /\ seats \in [Tables -> SUBSET Occupants]
      /\ FreeItem.user = Nobody /\ FreeItem.table = Nobody
      /\ NoEntry.item = Nobody /\ NoEntry.user = Nobody
  BY GameRoomAssumption DEF TypeOK, FreeItem, NoEntry, Entry
<1>0a. \A i \in Items : i \in gone => i \in seats[t]
  BY DEF Real
<1>1. \A i \in Items : /\ i \in gone => item'[i] = FreeItem
                       /\ i \notin gone /\ i = e.item => item'[i].user = e.user /\ item'[i].table = e.table
                       /\ i \notin gone /\ i # e.item => item'[i] = item[i]
  BY DEF Registers
<1>2. \A u \in Users : /\ u \in left => userMap'[u] = Nobody
                       /\ u \notin left /\ u = e.user => userMap'[u] = e.item /\ online'[u] = e.room
                       /\ u \notin left /\ u # e.user => userMap'[u] = userMap[u] /\ online'[u] = online[u]
  BY DEF Registers
<1>3. \A i \in Items : i \in seats[t] =>
          /\ item[i].user \in Users /\ userMap[item[i].user] = i /\ item[i].table = t
          /\ item[i].user \in left <=> i \in gone
  <2>1. \A i \in Items : i \in seats[t] => item[i].user \in Users /\ userMap[item[i].user] = i /\ item[i].table = t
    BY DEF SeatInv, SeatIsFound
  <2>2. \A i \in Items : i \in gone => item[i].user \in left
    BY DEF Real
  <2>3. \A i \in Items : i \in seats[t] /\ item[i].user \in left => i \in gone
    <3> SUFFICES ASSUME NEW i \in Items, i \in seats[t], item[i].user \in left PROVE i \in gone
      OBVIOUS
    <3>1. PICK j \in Real(gone) : item[j].user = item[i].user
      OBVIOUS
    <3>2. j \in Items /\ j \in seats[t] /\ j \in gone
      BY DEF Real
    <3> QED
      BY <2>1, <3>1, <3>2
  <2> QED
    BY <2>1, <2>2, <2>3
<1>4. \A u \in Users : u \in left => userMap[u] \in gone /\ userMap[u] \in Items
  BY <1>3 DEF Real
<1>5. e.user \in Users => e.user \notin left
  <2> SUFFICES ASSUME e.user \in Users, e.user \in left PROVE FALSE
    OBVIOUS
  <2>1. userMap[e.user] \in gone /\ userMap[e.user] \in Items /\ Seated(e.user)
    BY <1>0, <1>0a, <1>3, <1>4 DEF Seated
  <2>2. e.item \in seats[t] /\ item[e.item].user = e.user /\ e.item \in Items
    BY <1>0, <2>1 DEF Comes
  <2> QED
    BY <1>3, <2>1, <2>2
<1> HIDE DEF left
<1>6. e.item \in Items => e.user \in Users /\ e.table = t /\ e.room = "here"
  BY <1>0 DEF Comes
<1>6a. e.user \in Users => e.item \in Items
  BY <1>0 DEF Comes
<1>6b. \A u \in Users : u # e.user => userMap[u] # e.item \/ userMap[u] = Nobody
  BY <1>0 DEF Comes, SeatInv, MapIsOwn
<1>7. MapIsOwn'
  <2> SUFFICES ASSUME NEW u \in Users, userMap'[u] # Nobody PROVE item'[userMap'[u]].user = u
    BY DEF MapIsOwn
  <2>1. u \notin left
    BY <1>2
  <2>2. CASE u = e.user
    BY <1>1, <1>2, <1>6a, <2>1, <2>2
  <2>3. CASE u # e.user
    <3>1. userMap'[u] = userMap[u] /\ userMap[u] \in Items /\ userMap[u] # e.item /\ item[userMap[u]].user = u
      BY <1>0, <1>2, <1>6b, <2>1, <2>3 DEF SeatInv, MapIsOwn
    <3>2. userMap[u] \notin gone
      BY <1>0a, <1>3, <2>1, <3>1
    <3> QED
      BY <1>1, <3>1, <3>2
  <2> QED
    BY <2>2, <2>3
<1>8. SeatIsFound'
  <2> SUFFICES ASSUME NEW i \in Items, NEW q \in Tables
               PROVE  /\ i \in seats'[q] <=> item'[i].table = q
                      /\ i \in seats'[q] => item'[i].user \in Users /\ userMap'[item'[i].user] = i
    BY DEF SeatIsFound
  <2>1. seats'[q] = IF q = t THEN N ELSE seats[q]
    BY <1>0
  <2>2. CASE i \in gone
    <3>1. item'[i].table = Nobody /\ i \in seats[t] /\ item[i].table = t
      BY <1>0, <1>0a, <1>1, <1>3, <2>2
    <3>2. q # t => i \notin seats[q]
      BY <3>1 DEF SeatInv, SeatIsFound
    <3> QED
      BY <1>0, <2>1, <2>2, <3>1, <3>2
  <2>3. CASE i \notin gone /\ i = e.item
    <3>1. item'[i].user = e.user /\ item'[i].table = t /\ e.user \in Users /\ userMap'[e.user] = i
      BY <1>1, <1>2, <1>5, <1>6, <2>3
    <3>2. q # t => i \notin seats[q]
      BY <1>0, <1>3, <1>6, <2>3 DEF Comes, SeatInv, SeatIsFound
    <3> QED
      BY <2>1, <2>3, <3>1, <3>2
  <2>4. CASE i \notin gone /\ i # e.item
    <3>1. item'[i] = item[i] /\ (i \in seats'[q] <=> i \in seats[q])
      BY <1>1, <2>1, <2>4
    <3>2. i \in seats[q] <=> item[i].table = q
      BY DEF SeatInv, SeatIsFound
    <3>3. ASSUME i \in seats[q] PROVE item[i].user \in Users /\ userMap'[item[i].user] = i
      <4>1. item[i].user \in Users /\ userMap[item[i].user] = i
        BY <3>3 DEF SeatInv, SeatIsFound
      <4>2. item[i].user \notin left
        BY <1>4, <2>4, <4>1
      <4>3. item[i].user # e.user
        <5> SUFFICES ASSUME item[i].user = e.user PROVE FALSE
          OBVIOUS
        <5>1. Seated(e.user)
          BY <1>0, <3>2, <3>3, <4>1 DEF Seated
        <5>2. e.item \in seats[t] /\ item[e.item].user = e.user /\ e.item \in Items
          BY <1>0, <4>1, <5>1 DEF Comes
        <5> QED
          BY <1>3, <2>4, <4>1, <5>2
      <4> QED
        BY <1>2, <4>1, <4>2, <4>3
    <3> QED
      BY <3>1, <3>2, <3>3
  <2> QED
    BY <2>2, <2>3, <2>4
<1>9. OnlineWhileSeated'
  <2> SUFFICES ASSUME NEW u \in Users, userMap'[u] # Nobody, item'[userMap'[u]].table # Nobody
               PROVE  online'[u] = "here"
    BY DEF OnlineWhileSeated, Seated
  <2>1. u \notin left
    BY <1>2
  <2>2. CASE u = e.user
    BY <1>2, <1>6, <1>6a, <2>1, <2>2
  <2>3. CASE u # e.user
    <3>1. userMap'[u] = userMap[u] /\ userMap[u] \in Items /\ userMap[u] # e.item /\ online'[u] = online[u]
      BY <1>0, <1>2, <1>6b, <2>1, <2>3
    <3>2. userMap[u] \notin gone
      BY <1>0, <1>1, <3>1
    <3>3. Seated(u)
      BY <1>1, <3>1, <3>2 DEF Seated
    <3> QED
      BY <3>1, <3>3 DEF SeatInv, OnlineWhileSeated
  <2> QED
    BY <2>2, <2>3
<1> QED
  BY <1>7, <1>8, <1>9 DEF SeatInv

\* The table's part of SeatInv when the chairs' items and the registers stay.
LEMMA SeatsStay ==
    ASSUME SeatInv, UNCHANGED <<item, userMap, seats>>,
           \A u \in Users : Seated(u) => online'[u] = online[u] \/ online'[u] = "here"
    PROVE  SeatInv'
BY DEF SeatInv, SeatIsFound, MapIsOwn, OnlineWhileSeated, Seated

\* The start of a round keeps map, items and chairs in agreement.
LEMMA ReadyOverSeats ==
    ASSUME TypeOK, SeatInv, NEW t \in Tables, NEW x \in Occupants \cup {Nobody}, NEW e, Comes(t, e), NEW S, NEW s,
           \/ e = NoEntry /\ x \in Androids /\ S = seats[t] \cup {x}
           \/ e = NoEntry /\ S = seats[t]
           \/ x \in Items /\ e.item = x /\ S = seats[t] \cup {x} /\ s[x] = "ready",
           GameTimerReadyOver(t, S, s, e)
    PROVE  SeatInv'
<1>0. /\ Nobody \notin Items /\ Items \cap Androids = {} /\ NoEntry.item = Nobody /\ seats[t] \subseteq Occupants
      /\ Nobody \notin Occupants
  BY GameRoomAssumption DEF NoEntry, Entry, TypeOK, Occupants
<1>1. PICK gone \in SUBSET S :
          /\ \A i \in Real(S) : i \in gone <=> s[i] = "offline"
          /\ Registers(gone, e)
          /\ seats' = [seats EXCEPT ![t] = S \ gone]
  <2>1. PICK gone \in SUBSET S :
            /\ \A i \in Real(S) : i \in gone <=> s[i] = "offline"
            /\ Registers(gone, e)
            /\ Seats(t, S \ gone, [y \in S |-> "playing"]) \/ Seats(t, S \ gone, [y \in S |-> "ready"])
    BY DEF GameTimerReadyOver
  <2>2. seats' = [seats EXCEPT ![t] = S \ gone]
    BY <2>1 DEF Seats
  <2> QED
    BY <2>1, <2>2
<1>2. S \subseteq Occupants
  BY <1>0 DEF Occupants
<1>3. e.item \notin gone
  BY <1>0, <1>1, <1>2 DEF Real
<1>4. Real(gone) \subseteq seats[t]
  BY <1>0, <1>3 DEF Real
<1>5. \A i \in Items : i \in S \ gone <=> (i \in seats[t] \/ i = e.item) /\ i \notin gone
  BY <1>0
<1> QED
  BY <1>1, <1>3, <1>4, <1>5, RegistersKeep

\* So does somebody who sits down,
LEMMA EnterSeats ==
    ASSUME TypeOK, SeatInv, NEW t \in Tables, NEW x \in Occupants, NEW e, Comes(t, e), OnUserEnter(t, x, e),
           \/ e = NoEntry /\ x \in Androids
           \/ x \in Items /\ e.item = x
    PROVE  SeatInv'
<1> DEFINE S == seats[t] \cup {x}
           s == [y \in S |-> IF y = x THEN "ready" ELSE status[y]]
<1>1. CASE GameTimerReadyOver(t, S, s, e)
  <2>1. s[x] = "ready"
    OBVIOUS
  <2> HIDE DEF s
  <2> QED
    BY <1>1, <2>1, ReadyOverSeats
<1>2. CASE Registers({}, e) /\ seats' = [seats EXCEPT ![t] = S]
  <2> DEFINE gone == {}
  <2>1. \A i \in Items : i \in S <=> (i \in seats[t] \/ i = e.item) /\ i \notin gone
    BY GameRoomAssumption DEF NoEntry, Entry
  <2>2. Real(gone) \subseteq seats[t] /\ e.item \notin gone /\ Registers(gone, e)
    BY <1>2 DEF Real
  <2> HIDE DEF S, gone
  <2> QED
    BY <1>2, <2>1, <2>2, RegistersKeep
<1> QED
  BY <1>1, <1>2 DEF OnUserEnter, Seats

\* a player who leaves,
LEMMA LeftSeats ==
    ASSUME TypeOK, SeatInv, NEW t \in Tables, NEW i \in Items, i \in seats[t], NEW px, OnUserLeft(t, i, px)
    PROVE  SeatInv'
<1>1. CASE game[t] = "ready"
  <2>1. PICK gone \in SUBSET seats[t] : Registers(gone, NoEntry) /\ seats' = [seats EXCEPT ![t] = seats[t] \ gone]
    BY <1>1 DEF OnUserLeft, Seats
  <2>2. Comes(t, NoEntry) /\ NoEntry.item \notin Items /\ NoEntry.item \notin gone
    BY GameRoomAssumption DEF Comes, NoEntry, Entry, TypeOK, Occupants
  <2>3. /\ Real(gone) \subseteq seats[t]
        /\ \A j \in Items : j \in seats[t] \ gone <=> (j \in seats[t] \/ j = NoEntry.item) /\ j \notin gone
    BY <2>2 DEF Real
  <2> QED
    BY <2>1, <2>2, <2>3, RegistersKeep
<1>2. CASE game[t] # "ready"
  BY <1>2, SeatsStay DEF OnUserLeft
<1> QED
  BY <1>1, <1>2

\* a table that is cleared,
LEMMA ClearSeats ==
    ASSUME TypeOK, SeatInv, NEW t \in Tables, ClearTable(t)
    PROVE  SeatInv'
<1>1. Registers(seats[t], NoEntry) /\ seats' = [seats EXCEPT ![t] = {}]
  BY DEF ClearTable, Seats
<1>2. Comes(t, NoEntry) /\ NoEntry.item \notin Items /\ NoEntry.item \notin seats[t]
  BY GameRoomAssumption DEF Comes, NoEntry, Entry, TypeOK, Occupants
<1>3. /\ Real(seats[t]) \subseteq seats[t]
      /\ \A i \in Items : i \in {} <=> (i \in seats[t] \/ i = NoEntry.item) /\ i \notin seats[t]
  BY <1>2 DEF Real
<1> DEFINE gone == seats[t]
           N == {}
<1>4. /\ Real(gone) \subseteq seats[t] /\ NoEntry.item \notin gone /\ Registers(gone, NoEntry)
      /\ seats' = [seats EXCEPT ![t] = N]
      /\ \A i \in Items : i \in N <=> (i \in seats[t] \/ i = NoEntry.item) /\ i \notin gone
  BY <1>1, <1>2, <1>3
<1> HIDE DEF gone, N
<1> QED
  BY <1>2, <1>4, RegistersKeep

\* and the next phase of a round.
LEMMA AdvanceSeats ==
    ASSUME TypeOK, SeatInv, NEW t \in Tables, Advance(t), UNCHANGED <<item, userMap, seats>>
    PROVE  SeatInv'
<1>1. \A u \in Users : online'[u] = online[u] \/ online'[u] = "here"
  BY DEF Advance, TypeOK
<1> QED
  BY <1>1, SeatsStay

\* The item of a seated player is in a chair of its table.
LEMMA SeatedAt ==
    ASSUME TypeOK, SeatInv, NEW u \in Users, Seated(u)
    PROVE  /\ userMap[u] \in Items /\ item[userMap[u]].table \in Tables
           /\ userMap[u] \in seats[item[userMap[u]].table] /\ item[userMap[u]].user = u
           /\ online[u] = "here"
<1>1. userMap[u] \in Items /\ item[userMap[u]].table \in Tables
  BY SeatedType
<1> QED
  BY <1>1 DEF SeatInv, SeatIsFound, MapIsOwn, OnlineWhileSeated, Seated

\* Every step keeps map, items, chairs and online info in agreement.
LEMMA NextSeat == TypeOK /\ SeatInv /\ [Next]_vars => SeatInv'
<1> SUFFICES ASSUME TypeOK, SeatInv, [Next]_vars PROVE SeatInv'
  OBVIOUS
<1>1. ASSUME NEW u \in Users, NEW wish \in Tables \cup {Nobody}, Enter(u, wish) PROVE SeatInv'
  <2>1. PICK i \in Items, t \in FindNormalSuitTable(u, wish) :
            item[i] = FreeItem /\ OnUserEnter(t, i, Entry(i, u, t, "here"))
    BY <1>1 DEF Enter
  <2>2. t \in Tables /\ i \in Occupants
    BY FoundType DEF Occupants
  <2>3. Comes(t, Entry(i, u, t, "here")) /\ Entry(i, u, t, "here").item = i
    BY <1>1, <2>1 DEF Enter, Comes, Entry
  <2> QED
    BY <2>1, <2>2, <2>3, EnterSeats
<1>2. ASSUME NEW u \in Users, NEW wish \in Tables \cup {Nobody}, EnterTableFull(u, wish) PROVE SeatInv'
  <2>1. PICK i \in Items : item[i] = FreeItem /\ Registers({}, Entry(i, u, Nobody, "none"))
    BY <1>2 DEF EnterTableFull
  <2>2. /\ ~Seated(u) /\ UNCHANGED seats /\ item[i].user = Nobody /\ item[i].table = Nobody
        /\ Nobody \notin Users /\ Nobody \notin Tables /\ Nobody \notin Items
    BY <1>2, <2>1, GameRoomAssumption DEF EnterTableFull, table, FreeItem
  <2>3. /\ \A j \in Items \ {i} : item'[j] = item[j]
        /\ item'[i].user = u /\ item'[i].table = Nobody
        /\ \A v \in Users \ {u} : userMap'[v] = userMap[v] /\ online'[v] = online[v]
        /\ userMap'[u] = i
    BY <2>1 DEF Registers, Entry, Real
  <2>4. \A v \in Users : v # u => userMap[v] # i /\ userMap[v] \in Items \cup {Nobody}
    BY <2>2 DEF TypeOK, SeatInv, MapIsOwn
  <2>5. \A t \in Tables : i \notin seats[t]
    BY <2>2 DEF SeatInv, SeatIsFound
  <2>6. \A j \in Items, t \in Tables : j \in seats[t] => item[j].user # u
    BY <2>2 DEF SeatInv, SeatIsFound, Seated
  <2>7. SeatIsFound'
    BY <2>2, <2>3, <2>5, <2>6 DEF SeatInv, SeatIsFound
  <2>8. MapIsOwn' /\ OnlineWhileSeated'
    BY <2>2, <2>3, <2>4 DEF SeatInv, MapIsOwn, OnlineWhileSeated, Seated
  <2> QED
    BY <2>7, <2>8 DEF SeatInv
<1>3. ASSUME NEW u \in Users, Reenter(u) PROVE SeatInv'
  <2> DEFINE i == userMap[u]
             t == item[i].table
             e == Entry(i, u, t, online[u])
  <2>1. i \in Items /\ i \in Occupants /\ t \in Tables /\ i \in seats[t] /\ item[i].user = u /\ online[u] = "here"
    BY <1>3, SeatedAt DEF Reenter, Occupants
  <2>2. Comes(t, e) /\ e.item = i
    BY <2>1 DEF Comes, Entry
  <2>3. CASE OnUserEnter(t, i, e)
    <3> HIDE DEF i, t, e
    <3> QED
      BY <2>1, <2>2, <2>3, EnterSeats
  <2>4. CASE proxy' = proxy \cup {u} /\ UNCHANGED <<item, userMap, online, table>>
    BY <2>4, SeatsStay DEF table
  <2> QED
    BY <1>3, <2>3, <2>4 DEF Reenter
<1>4. ASSUME NEW u \in Users, EnterRefused(u) \/ EnterElsewhere(u) \/ HallGrant(u) \/ OnlineGone(u) PROVE SeatInv'
  <2>1. UNCHANGED <<item, userMap, seats>>
    BY <1>4 DEF EnterRefused, EnterElsewhere, HallGrant, OnlineGone, table
  <2>2. \A v \in Users : Seated(v) => online'[v] = online[v]
    <3>1. Seated(u) => online[u] = "here"
      BY DEF SeatInv, OnlineWhileSeated
    <3> QED
      BY <1>4, <3>1 DEF EnterRefused, EnterElsewhere, HallGrant, OnlineGone, TypeOK
  <2> QED
    BY <2>1, <2>2, SeatsStay
<1>5. ASSUME NEW u \in Users, UserLeft(u) \/ UserOffline(u) PROVE SeatInv'
  BY <1>5, SeatedAt, LeftSeats DEF UserLeft, UserOffline
<1>6. ASSUME NEW t \in Tables, NEW x \in Occupants, GameMessage(t, x) PROVE SeatInv'
  <2>1. UNCHANGED <<item, userMap, seats>>
    BY <1>6 DEF GameMessage
  <2>2. CASE Advance(t)
    BY <2>1, <2>2, AdvanceSeats
  <2>3. CASE UNCHANGED online
    BY <2>1, <2>3, SeatsStay
  <2> QED
    BY <1>6, <2>2, <2>3 DEF GameMessage
<1>7. ASSUME NEW t \in Tables, PhaseTimer(t) PROVE SeatInv'
  BY <1>7, AdvanceSeats DEF PhaseTimer
<1>8. ASSUME NEW t \in Tables, GameEndTimer(t) PROVE SeatInv'
  BY <1>8, ClearSeats DEF GameEndTimer
<1>9. ASSUME NEW t \in Tables, ReadyTimer(t) PROVE SeatInv'
  <2>1. CASE MatchTick(t)
    <3>1. CASE UNCHANGED <<users, seats, status, game, acted, banker>>
      BY <3>1, SeatsStay DEF users
    <3>2. CASE GameTimerReadyOver(t, seats[t], status, NoEntry)
      BY <3>2, ReadyOverSeats DEF Comes
    <3> QED
      BY <2>1, <3>1, <3>2 DEF MatchTick
  <2>2. CASE UNCHANGED <<users, seats, status, game, matched, acted, banker>>
    BY <2>2, SeatsStay DEF users
  <2>3. CASE ClearTable(t)
    BY <2>3, ClearSeats
  <2> QED
    BY <1>9, <2>1, <2>2, <2>3 DEF ReadyTimer
<1>10. ASSUME NEW t \in Tables, AndroidEnter(t) PROVE SeatInv'
  BY <1>10, EnterSeats DEF AndroidEnter, Occupants, Comes
<1>11. CASE RepairServer \/ UNCHANGED vars
  BY <1>11, SeatsStay DEF RepairServer, vars, users, table
<1> QED
  BY <1>1, <1>2, <1>3, <1>4, <1>5, <1>6, <1>7, <1>8, <1>9, <1>10, <1>11 DEF Next

\* Messages reach the table a player sits at and he has one seat there, whatever enters, leaves, disconnects, times
\* out or is refused in between.
THEOREM SeatsAreFound == Spec => []SeatIsFound
<1>1. SeatInv => SeatIsFound
  BY DEF SeatInv
<1> QED
  BY <1>1, InitType, NextType, InitSeat, NextSeat, PTL DEF Spec

\* Redis names this room for whoever sits in it.
THEOREM SeatedAreOnline == Spec => []OnlineWhileSeated
<1>1. SeatInv => OnlineWhileSeated
  BY DEF SeatInv
<1> QED
  BY <1>1, InitType, NextType, InitSeat, NextSeat, PTL DEF Spec

-----------------------------------------------------------------------------
(***************************************************************************)
(* Tables.  A table that is not in use is empty, and the timer the table   *)
(* knows of is pending only while it waits for players.                    *)
(***************************************************************************)
TableOK(t) ==
    /\ t \notin inUse => seats[t] = {} /\ game[t] = "init"
    /\ armed[t] => game[t] \in Waiting
    /\ game[t] = "ready" => /\ armed[t]
                            /\ Real(seats[t]) # {}
                            /\ Cardinality(seats[t]) < limit[t]
    /\ game[t] \in Playing => /\ Cardinality(seats[t]) >= MinPlayers
                              /\ acted[t] \subseteq Actors(t)
                              /\ acted[t] # Actors(t)

TableInv == \A t \in Tables : TableOK(t)

\* At the start every table is free and in its initial state.
LEMMA InitTable == Init => TableInv
BY DEF Init, TableInv, TableOK, Waiting, Playing

\* Who sits at a table can be counted.
LEMMA Countable ==
    ASSUME NEW S \in SUBSET Occupants
    PROVE  IsFiniteSet(S) /\ Cardinality(S) \in Nat
<1>1. IsFiniteSet(Occupants)
  BY GameRoomAssumption, FS_Union DEF Occupants
<1> QED
  BY <1>1, FS_Subset, FS_CardinalityType

\* Nobody, and one: less than a round needs.
LEMMA TooFew ==
    ASSUME NEW S \in SUBSET Occupants, Cardinality(S) >= MinPlayers
    PROVE  S # {} /\ \A x : S \ {x} # {}
<1>1. MinPlayers \in Nat /\ 2 <= MinPlayers
  BY GameRoomAssumption
<1>2. Cardinality({}) = 0 /\ \A x : Cardinality({x}) = 1
  BY FS_EmptySet, FS_Singleton
<1>3. S # {}
  BY <1>1, <1>2
<1>4. ASSUME NEW x, S \ {x} = {} PROVE FALSE
  <2>1. S = {x}
    BY <1>3, <1>4
  <2> QED
    BY <1>1, <1>2, <2>1
<1> QED
  BY <1>3, <1>4

\* A table nothing happens at.
SameTable(t) ==
    /\ t \in inUse => t \in inUse'
    /\ seats'[t] = seats[t] /\ game'[t] = game[t] /\ limit'[t] = limit[t] /\ armed'[t] = armed[t]
    /\ acted'[t] = acted[t] /\ banker'[t] = banker[t]

\* A table nothing happens to stays as it was.
LEMMA SameKeeps ==
    ASSUME NEW t \in Tables, TableOK(t), SameTable(t)
    PROVE  TableOK(t)'
BY DEF TableOK, SameTable, Actors

\* Everything but table t stays, and t stays sound.
LEMMA OneTable ==
    ASSUME TableInv, NEW t \in Tables, \A q \in Tables \ {t} : SameTable(q), TableOK(t)'
    PROVE  TableInv'
<1> SUFFICES ASSUME NEW q \in Tables PROVE TableOK(q)'
  BY DEF TableInv
<1>1. CASE q = t
  BY <1>1
<1>2. CASE q # t
  BY <1>2, SameKeeps DEF TableInv
<1> QED
  BY <1>1, <1>2

\* The end of the matching: a round begins with enough players, or the table waits for nothing.
LEMMA ReadyOverTable ==
    ASSUME TypeOK, NEW t \in Tables, NEW S \in SUBSET Occupants, NEW s, NEW e, GameTimerReadyOver(t, S, s, e),
           t \in inUse', armed' = [armed EXCEPT ![t] = FALSE], UNCHANGED limit, inUse \subseteq inUse'
    PROVE  TableOK(t)' /\ \A q \in Tables \ {t} : SameTable(q)
<1>1. PICK gone \in SUBSET S :
          \/ /\ Cardinality(S \ gone) >= MinPlayers
             /\ Seats(t, S \ gone, [x \in S |-> "playing"])
             /\ Game(t, "call")
             /\ ClearRound(t)
          \/ /\ Seats(t, S \ gone, [x \in S |-> "ready"])
             /\ Game(t, "init")
             /\ UNCHANGED <<acted, banker>>
  BY DEF GameTimerReadyOver
<1>2. seats' = [seats EXCEPT ![t] = S \ gone]
  BY <1>1 DEF Seats
<1>3. \A q \in Tables \ {t} : SameTable(q)
  BY <1>1, <1>2 DEF SameTable, Game, ClearRound, TypeOK
<1>4. seats'[t] = S \ gone /\ armed'[t] = FALSE
  BY <1>2 DEF TypeOK
<1>5. CASE Cardinality(S \ gone) >= MinPlayers /\ Game(t, "call") /\ ClearRound(t)
  <2>1. game'[t] = "call" /\ acted'[t] = {}
    BY <1>5 DEF Game, ClearRound, TypeOK
  <2>2. S \ gone # {}
    BY <1>5, TooFew
  <2> QED
    BY <1>3, <1>4, <1>5, <2>1, <2>2 DEF TableOK, Actors, Playing, Waiting
<1>6. CASE Game(t, "init") /\ UNCHANGED <<acted, banker>>
  <2>1. game'[t] = "init"
    BY <1>6 DEF Game, TypeOK
  <2> QED
    BY <1>3, <1>4, <2>1 DEF TableOK, Playing, Waiting
<1> QED
  BY <1>1, <1>5, <1>6

\* A table somebody sits down at waits with a timer or begins a round.
LEMMA EnterTable ==
    ASSUME TypeOK, TableInv, NEW t \in Tables, NEW x \in Occupants, NEW e, OnUserEnter(t, x, e),
           t \in inUse', inUse \subseteq inUse',
           x \in Items \/ Real(seats[t]) # {},
           game[t] \in Playing => x \in seats[t]
    PROVE  TableInv'
<1> DEFINE S == seats[t] \cup {x}
           s == [y \in S |-> IF y = x THEN "ready" ELSE status[y]]
<1>0. S \in SUBSET Occupants /\ TableOK(t)
  BY DEF TypeOK, TableInv
<1>1. CASE /\ S = {x}
           /\ \E n \in MatchLimits : limit' = [limit EXCEPT ![t] = n]
           /\ Game(t, "ready")
           /\ ArmReady(t)
           /\ Seats(t, S, s)
           /\ UNCHANGED <<acted, banker>>
  <2>1. /\ seats' = [seats EXCEPT ![t] = {x}] /\ game' = [game EXCEPT ![t] = "ready"]
        /\ armed' = [armed EXCEPT ![t] = TRUE]
    BY <1>1 DEF Seats, Game, ArmReady
  <2>2. PICK n \in MatchLimits : limit' = [limit EXCEPT ![t] = n]
    BY <1>1
  <2>3. n \in Nat /\ n >= 2
    BY GameRoomAssumption DEF MatchLimits
  <2>4. \A q \in Tables \ {t} : SameTable(q)
    BY <1>1, <2>1, <2>2 DEF SameTable, TypeOK
  <2>5. seats'[t] = {x} /\ game'[t] = "ready" /\ armed'[t] = TRUE /\ limit'[t] = n
    BY <2>1, <2>2 DEF TypeOK
  <2>6. Cardinality({x}) < n
    BY <2>3, FS_Singleton
  <2>7. Real({x}) # {}
    BY <1>1 DEF Real
  <2>8. TableOK(t)'
    BY <2>5, <2>6, <2>7 DEF TableOK, Waiting, Playing, Real
  <2> QED
    BY <2>4, <2>8, OneTable
<1>2. CASE /\ GameTimerReadyOver(t, S, s, e)
           /\ CancelReady(t)
           /\ UNCHANGED <<limit, matched>>
  <2>1. armed' = [armed EXCEPT ![t] = FALSE]
    BY <1>2 DEF CancelReady
  <2> HIDE DEF S, s
  <2> QED
    BY <1>0, <1>2, <2>1, ReadyOverTable, OneTable
<1>3. CASE /\ game[t] \in Waiting /\ Cardinality(S) < limit[t]
           /\ Seats(t, S, s)
           /\ UNCHANGED <<game, limit, matched, armed, stale, acted, banker>>
  <2>1. seats' = [seats EXCEPT ![t] = S]
    BY <1>3 DEF Seats
  <2>2. \A q \in Tables \ {t} : SameTable(q)
    BY <1>3, <2>1 DEF SameTable, TypeOK
  <2>3. seats'[t] = S
    BY <2>1 DEF TypeOK
  <2>4. Real(seats[t]) # {} => Real(S) # {}
    BY DEF Real
  <2>5. TableOK(t)'
    BY <1>0, <1>3, <2>3, <2>4 DEF TableOK, Waiting, Playing, Real
  <2> QED
    BY <2>2, <2>5, OneTable
<1>4. CASE /\ game[t] \notin Waiting
           /\ Seats(t, S, [s EXCEPT ![x] = "playing"])
           /\ UNCHANGED <<game, limit, matched, armed, stale, acted, banker>>
  <2>1. seats' = [seats EXCEPT ![t] = S]
    BY <1>4 DEF Seats
  <2>2. \A q \in Tables \ {t} : SameTable(q)
    BY <1>4, <2>1 DEF SameTable, TypeOK
  <2>3. seats'[t] = S /\ (game[t] \in Playing => S = seats[t])
    BY <2>1 DEF TypeOK
  <2>4. TableOK(t)'
    BY <1>0, <1>4, <2>3 DEF TableOK, Waiting, Playing, Actors
  <2> QED
    BY <2>2, <2>4, OneTable
<1> QED
  BY <1>1, <1>2, <1>3, <1>4 DEF OnUserEnter

\* Only a table in use has chairs taken or anything going on.
LEMMA BusyInUse ==
    ASSUME TableInv, NEW t \in Tables, seats[t] # {} \/ game[t] # "init"
    PROVE  t \in inUse
BY DEF TableInv, TableOK

\* A table a player leaves goes on matching, or returns to its initial state.
LEMMA LeftTable ==
    ASSUME TypeOK, TableInv, NEW t \in Tables, NEW i \in Items, i \in seats[t], NEW px, OnUserLeft(t, i, px),
           UNCHANGED inUse
    PROVE  TableInv'
<1>0. TableOK(t) /\ t \in inUse'
  BY BusyInUse DEF TableInv
<1>1. CASE game[t] = "ready"
  <2> DEFINE empty == Real(seats[t]) = {i}
             gone == {i} \cup (IF empty THEN {a \in seats[t] \cap Androids : status[a] # "playing"} ELSE {})
  <2>1. /\ seats' = [seats EXCEPT ![t] = seats[t] \ gone]
        /\ game' = [game EXCEPT ![t] = IF empty THEN "init" ELSE "ready"]
        /\ UNCHANGED <<limit, armed, acted, banker>>
    BY <1>1 DEF OnUserLeft, Seats, Game
  <2>2. \A q \in Tables \ {t} : SameTable(q)
    BY <2>1 DEF SameTable, TypeOK
  <2>3. seats'[t] = seats[t] \ gone /\ game'[t] = IF empty THEN "init" ELSE "ready"
    BY <2>1 DEF TypeOK
  <2>4. ASSUME empty PROVE TableOK(t)'
    BY <1>0, <2>1, <2>3, <2>4 DEF TableOK, Waiting, Playing
  <2>5. ASSUME ~empty PROVE TableOK(t)'
    <3>1. seats'[t] = seats[t] \ {i} /\ game'[t] = "ready"
      BY <2>3, <2>5
    <3>2. Real(seats[t] \ {i}) # {}
      <4>1. i \in Real(seats[t])
        BY DEF Real
      <4> QED
        BY <2>5, <4>1 DEF Real
    <3>3. Cardinality(seats[t] \ {i}) < limit[t]
      <4>1. seats[t] \in SUBSET Occupants /\ limit[t] \in Nat
        BY GameRoomAssumption DEF TypeOK
      <4>2. IsFiniteSet(seats[t]) /\ Cardinality(seats[t]) \in Nat
        BY <4>1, Countable
      <4>3. Cardinality(seats[t] \ {i}) <= Cardinality(seats[t]) /\ Cardinality(seats[t] \ {i}) \in Nat
        BY <4>1, <4>2, FS_Subset, Countable
      <4> QED
        BY <1>0, <1>1, <4>1, <4>2, <4>3 DEF TableOK
    <3> QED
      BY <1>0, <1>1, <2>1, <3>1, <3>2, <3>3 DEF TableOK, Waiting, Playing, Real
  <2>6. TableOK(t)'
    BY <2>4, <2>5
  <2> QED
    BY <2>2, <2>6, OneTable
<1>2. CASE game[t] # "ready"
  <2>1. \A q \in Tables : SameTable(q)
    BY <1>2 DEF OnUserLeft, SameTable
  <2> QED
    BY <2>1, SameKeeps DEF TableInv
<1> QED
  BY <1>1, <1>2

\* The next phase has somebody who has to act.
LEMMA AdvanceTable ==
    ASSUME TypeOK, TableInv, NEW t \in Tables, game[t] \in Playing, Advance(t), acted' = [acted EXCEPT ![t] = {}],
           UNCHANGED <<inUse, seats, limit, armed>>
    PROVE  TableInv'
<1>0. TableOK(t) /\ t \in inUse' /\ armed[t] = FALSE /\ seats[t] \in SUBSET Occupants
      /\ Cardinality(seats[t]) >= MinPlayers /\ acted'[t] = {}
  BY BusyInUse DEF TableInv, TableOK, Playing, Waiting, TypeOK
<1>1. \A q \in Tables \ {t} : SameTable(q)
  BY DEF Advance, Game, SameTable, TypeOK
<1>2. seats[t] # {} /\ \A x : seats[t] \ {x} # {}
  BY <1>0, TooFew
<1>3. game'[t] \in {"score", "open", "end"}
  BY DEF Advance, Game, TypeOK
<1>4. Actors(t)' # {}
  BY <1>2 DEF Actors
<1>5. TableOK(t)'
  BY <1>0, <1>3, <1>4 DEF TableOK, Playing, Waiting
<1> QED
  BY <1>1, <1>5, OneTable

\* A table that is cleared is in its initial state.
LEMMA ClearTableKeeps ==
    ASSUME TypeOK, TableInv, NEW t \in Tables, ClearTable(t), UNCHANGED <<inUse, limit>>, t \in inUse,
           \/ armed' = [armed EXCEPT ![t] = FALSE]
           \/ UNCHANGED armed
    PROVE  TableInv'
<1>1. /\ seats' = [seats EXCEPT ![t] = {}] /\ game' = [game EXCEPT ![t] = "init"]
      /\ acted' = [acted EXCEPT ![t] = {}] /\ banker' = [banker EXCEPT ![t] = Nobody]
  BY DEF ClearTable, Seats, Game, ClearRound
<1>2. \A q \in Tables \ {t} : SameTable(q)
  BY <1>1 DEF SameTable, TypeOK
<1>3. game'[t] = "init"
  BY <1>1 DEF TypeOK
<1>4. TableOK(t)'
  BY <1>3 DEF TableOK, Waiting, Playing
<1> QED
  BY <1>2, <1>4, OneTable

\* A tick of the matching starts a round or leaves the timer armed.
LEMMA TickTable ==
    ASSUME TypeOK, TableInv, NEW t \in Tables, game[t] = "ready", MatchTick(t), UNCHANGED <<inUse, limit>>
    PROVE  TableInv'
<1>0. TableOK(t) /\ t \in inUse' /\ armed[t] /\ seats[t] \in SUBSET Occupants /\ Cardinality(seats[t]) < limit[t]
  BY BusyInUse DEF TableInv, TableOK, TypeOK
<1>1. ~(Cardinality(seats[t]) >= limit[t])
  BY <1>0, Countable, GameRoomAssumption DEF TypeOK
<1>2. CASE armed' = [armed EXCEPT ![t] = FALSE] /\ GameTimerReadyOver(t, seats[t], status, NoEntry)
  BY <1>0, <1>2, ReadyOverTable, OneTable
<1>3. CASE armed' = [armed EXCEPT ![t] = TRUE] /\ UNCHANGED <<users, seats, status, game, acted, banker>>
  <2>1. \A q \in Tables : SameTable(q)
    BY <1>0, <1>3 DEF SameTable, TypeOK
  <2> QED
    BY <2>1, SameKeeps DEF TableInv
<1> QED
  BY <1>1, <1>2, <1>3 DEF MatchTick

\* The table a player finds: one that waits, or a free one.
LEMMA FoundWaits ==
    ASSUME TypeOK, TableInv, NEW u \in Users, NEW wish, NEW t \in FindNormalSuitTable(u, wish)
    PROVE  t \in Tables /\ game[t] \notin Playing
<1>1. t \in Tables
  BY FoundType
<1>2. CASE t \in inUse
  <2>1. CanJoinTable(t, u, Nobody)
    BY <1>2 DEF FindNormalSuitTable, Suitable
  <2>2. Nobody \notin seats[t]
    BY <1>1, GameRoomAssumption DEF TypeOK, Occupants
  <2> QED
    BY <1>1, <2>1, <2>2 DEF CanJoinTable, SinkCanJoin, Waiting, Playing
<1>3. CASE t \notin inUse
  BY <1>1, <1>3 DEF TableInv, TableOK, Playing
<1> QED
  BY <1>1, <1>2, <1>3

\* Every step keeps every table alive.
LEMMA NextTable == TypeOK /\ SeatInv /\ TableInv /\ [Next]_vars => TableInv'
<1> SUFFICES ASSUME TypeOK, SeatInv, TableInv, [Next]_vars PROVE TableInv'
  OBVIOUS
<1>0. ASSUME UNCHANGED <<inUse, table>> PROVE TableInv'
  <2>1. \A q \in Tables : SameTable(q)
    BY <1>0 DEF SameTable, table
  <2> QED
    BY <2>1, SameKeeps DEF TableInv
<1>1. ASSUME NEW u \in Users, NEW wish \in Tables \cup {Nobody}, Enter(u, wish) PROVE TableInv'
  <2>1. PICK i \in Items, t \in FindNormalSuitTable(u, wish) :
            inUse' = inUse \cup {t} /\ OnUserEnter(t, i, Entry(i, u, t, "here"))
    BY <1>1 DEF Enter
  <2>2. t \in Tables /\ game[t] \notin Playing /\ i \in Occupants /\ t \in inUse' /\ inUse \subseteq inUse'
    BY <2>1, FoundWaits DEF Occupants
  <2> QED
    BY <2>1, <2>2, EnterTable
<1>2. ASSUME NEW u \in Users, NEW wish \in Tables \cup {Nobody}, EnterTableFull(u, wish) PROVE TableInv'
  BY <1>0, <1>2 DEF EnterTableFull
<1>3. ASSUME NEW u \in Users, Reenter(u) PROVE TableInv'
  <2> DEFINE i == userMap[u]
             t == item[i].table
             e == Entry(i, u, t, online[u])
  <2>1. i \in Items /\ i \in Occupants /\ t \in Tables /\ i \in seats[t] /\ UNCHANGED inUse
    BY <1>3, SeatedAt DEF Reenter, Occupants
  <2>2. t \in inUse'
    BY <2>1, BusyInUse
  <2>3. CASE OnUserEnter(t, i, e)
    <3> HIDE DEF i, t, e
    <3> QED
      BY <2>1, <2>2, <2>3, EnterTable
  <2>4. CASE UNCHANGED table
    BY <1>0, <2>1, <2>4
  <2> QED
    BY <1>3, <2>3, <2>4 DEF Reenter
<1>4. ASSUME NEW u \in Users, EnterRefused(u) \/ EnterElsewhere(u) \/ HallGrant(u) \/ OnlineGone(u) PROVE TableInv'
  BY <1>0, <1>4 DEF EnterRefused, EnterElsewhere, HallGrant, OnlineGone
<1>5. ASSUME NEW u \in Users, UserLeft(u) \/ UserOffline(u) PROVE TableInv'
  BY <1>5, SeatedAt, LeftTable DEF UserLeft, UserOffline
<1>6. ASSUME NEW t \in Tables, NEW x \in Occupants, GameMessage(t, x) PROVE TableInv'
  <2>1. game[t] \in Playing /\ UNCHANGED <<inUse, seats, limit, armed>> /\ x \in Actors(t)
    BY <1>6 DEF GameMessage
  <2>2. CASE Advance(t) /\ acted' = [acted EXCEPT ![t] = {}]
    BY <2>1, <2>2, AdvanceTable
  <2>3. CASE /\ acted[t] \cup {x} # Actors(t)
             /\ acted' = [acted EXCEPT ![t] = @ \cup {x}]
             /\ UNCHANGED <<game, banker, online>>
    <3>1. \A q \in Tables \ {t} : SameTable(q)
      BY <2>1, <2>3 DEF SameTable, TypeOK
    <3>2. acted'[t] = acted[t] \cup {x} /\ Actors(t)' = Actors(t)
      BY <2>1, <2>3 DEF Actors, TypeOK
    <3>3. TableOK(t)'
      BY <2>1, <2>3, <3>2 DEF TableInv, TableOK
    <3> QED
      BY <3>1, <3>3, OneTable
  <2> QED
    BY <1>6, <2>2, <2>3 DEF GameMessage
<1>7. ASSUME NEW t \in Tables, PhaseTimer(t) PROVE TableInv'
  BY <1>7, AdvanceTable DEF PhaseTimer
<1>8. ASSUME NEW t \in Tables, GameEndTimer(t) PROVE TableInv'
  BY <1>8, BusyInUse, ClearTableKeeps DEF GameEndTimer
<1>9. ASSUME NEW t \in Tables, ReadyTimer(t) PROVE TableInv'
  <2>1. UNCHANGED <<inUse, limit>>
    BY <1>9 DEF ReadyTimer
  <2>2. CASE game[t] = "ready" /\ MatchTick(t)
    BY <2>1, <2>2, TickTable
  <2>3. CASE /\ game[t] = "init" /\ armed' = [armed EXCEPT ![t] = FALSE]
             /\ UNCHANGED <<users, seats, status, game, matched, acted, banker>>
    <3>1. \A q \in Tables \ {t} : SameTable(q)
      BY <2>1, <2>3 DEF SameTable, TypeOK
    <3>2. TableOK(t)'
      BY <2>1, <2>3 DEF TableInv, TableOK, Playing, Waiting, TypeOK
    <3> QED
      BY <3>1, <3>2, OneTable
  <2>4. CASE /\ IF Real(seats[t]) = {} THEN game[t] # "init" ELSE game[t] # "ready"
             /\ ClearTable(t)
             /\ armed' = [armed EXCEPT ![t] = FALSE]
    <3>1. t \in inUse
      BY <2>4, BusyInUse DEF Real
    <3> QED
      BY <2>1, <2>4, <3>1, ClearTableKeeps
  <2> QED
    BY <1>9, <2>2, <2>3, <2>4 DEF ReadyTimer
<1>10. ASSUME NEW t \in Tables, AndroidEnter(t) PROVE TableInv'
  BY <1>10, EnterTable DEF AndroidEnter, Occupants, Waiting, Playing
<1>11. CASE RepairServer \/ UNCHANGED vars
  BY <1>0, <1>11 DEF RepairServer, vars
<1> QED
  BY <1>1, <1>2, <1>3, <1>4, <1>5, <1>6, <1>7, <1>8, <1>9, <1>10, <1>11 DEF Next

RoomInv == TypeOK /\ SeatInv /\ TableInv

\* The invariant of the room.
LEMMA RoomInvariant == Spec => []RoomInv
<1>1. Init => RoomInv
  BY InitType, InitSeat, InitTable DEF RoomInv
<1>2. RoomInv /\ [Next]_vars => RoomInv'
  BY NextType, NextSeat, NextTable DEF RoomInv
<1> QED
  BY <1>1, <1>2, PTL DEF Spec

\* A table that waits for players has the timer that will start it and somebody it waits with.
THEOREM MatchingNeverStalls == Spec => []MatchingGoesOn
<1>1. RoomInv => MatchingGoesOn
  BY DEF RoomInv, TableInv, TableOK, MatchingGoesOn
<1> QED
  BY <1>1, RoomInvariant, PTL

\* A round never runs out of players, and in no phase is everybody done: some message or timer completes it.
THEOREM RoundsStayAlive == Spec => []RoundIsAlive
<1>1. RoomInv => RoundIsAlive
  BY DEF RoomInv, TableInv, TableOK, RoundIsAlive
<1> QED
  BY <1>1, RoomInvariant, PTL

-----------------------------------------------------------------------------
(***************************************************************************)
(* Who sits at a table while a round goes on.                              *)
(***************************************************************************)

\* Chairs change at one table only; while it does not wait, somebody who comes takes a chair and nobody leaves.
LEMMA EnterChairs ==
    ASSUME TypeOK, NEW t \in Tables, NEW x, NEW e, OnUserEnter(t, x, e)
    PROVE  /\ \A q \in Tables \ {t} : seats'[q] = seats[q]
           /\ game[t] \notin Waiting => seats'[t] = seats[t] \cup {x}
<1> DEFINE S == seats[t] \cup {x}
           s == [y \in S |-> IF y = x THEN "ready" ELSE status[y]]
<1>1. ASSUME NEW N, seats' = [seats EXCEPT ![t] = N]
      PROVE  (\A q \in Tables \ {t} : seats'[q] = seats[q]) /\ seats'[t] = N
  BY <1>1 DEF TypeOK
<1>2. CASE GameTimerReadyOver(t, S, s, e) /\ game[t] \in Waiting
  <2>1. \E N : seats' = [seats EXCEPT ![t] = N]
    BY <1>2 DEF GameTimerReadyOver, Seats
  <2> QED
    BY <1>1, <1>2, <2>1
<1>3. CASE seats' = [seats EXCEPT ![t] = S]
  BY <1>1, <1>3
<1> QED
  BY <1>2, <1>3 DEF OnUserEnter, Seats

\* In a round no step changes the chairs, unless a forgotten ready timer fires.
LEMMA RoundKeeps ==
    ASSUME RoomInv, [Next]_vars, NEW t \in Tables, game[t] \in Playing, stale'[t] = stale[t]
    PROVE  seats'[t] = seats[t]
<1>0. /\ TypeOK /\ SeatInv /\ TableInv /\ armed[t] = FALSE /\ game[t] \notin Waiting
      /\ game[t] # "ready" /\ game[t] # "end" /\ game[t] # "init"
  BY DEF RoomInv, TableInv, TableOK, Playing, Waiting, TypeOK
<1>1. ASSUME NEW u \in Users, NEW wish \in Tables \cup {Nobody}, Enter(u, wish) PROVE seats'[t] = seats[t]
  <2>1. PICK i \in Items, q \in FindNormalSuitTable(u, wish) : OnUserEnter(q, i, Entry(i, u, q, "here"))
    BY <1>1 DEF Enter
  <2>2. q \in Tables /\ game[q] \notin Playing
    BY <1>0, FoundWaits
  <2> QED
    BY <1>0, <2>1, <2>2, EnterChairs
<1>2. ASSUME NEW u \in Users, Reenter(u) PROVE seats'[t] = seats[t]
  <2> DEFINE i == userMap[u]
             q == item[i].table
             e == Entry(i, u, q, online[u])
  <2>1. q \in Tables /\ i \in seats[q]
    BY <1>0, <1>2, SeatedAt DEF Reenter
  <2>2. CASE OnUserEnter(q, i, e)
    <3> HIDE DEF i, q, e
    <3>1. CASE q = t
      <4>1. seats'[t] = seats[t] \cup {i}
        BY <1>0, <2>2, <3>1, EnterChairs
      <4> QED
        BY <2>1, <3>1, <4>1
    <3>2. CASE q # t
      BY <1>0, <2>1, <2>2, <3>2, EnterChairs
    <3> QED
      BY <3>1, <3>2
  <2>3. CASE UNCHANGED table
    BY <2>3 DEF table
  <2> QED
    BY <1>2, <2>2, <2>3 DEF Reenter
<1>3. ASSUME NEW u \in Users, UserLeft(u) \/ UserOffline(u) PROVE seats'[t] = seats[t]
  <2>0. \E k \in Tables : \E i, px : OnUserLeft(k, i, px)
    BY <1>0, <1>3, SeatedAt DEF UserLeft, UserOffline
  <2>1. PICK q \in Tables : \E i, px : OnUserLeft(q, i, px)
    BY <2>0
  <2>2. CASE game[q] = "ready"
    <3>1. q # t /\ \E N : seats' = [seats EXCEPT ![q] = N]
      BY <1>0, <2>1, <2>2 DEF OnUserLeft, Seats
    <3> QED
      BY <1>0, <3>1 DEF TypeOK
  <2>3. CASE game[q] # "ready"
    BY <2>1, <2>3 DEF OnUserLeft
  <2> QED
    BY <2>2, <2>3
<1>4. ASSUME NEW q \in Tables, ReadyTimer(q) PROVE seats'[t] = seats[t]
  <2>1. CASE q = t
    <3>1. stale[t] \in Nat /\ stale[t] > 0 /\ stale' = [stale EXCEPT ![t] = @ - 1]
      BY <1>0, <1>4, <2>1, GameRoomAssumption DEF ReadyTimer, FireReady, TypeOK
    <3> QED
      BY <1>0, <3>1 DEF TypeOK
  <2>2. CASE q # t
    <3>1. UNCHANGED seats \/ \E N : seats' = [seats EXCEPT ![q] = N]
      BY <1>4 DEF ReadyTimer, MatchTick, GameTimerReadyOver, ClearTable, Seats
    <3> QED
      BY <1>0, <2>2, <3>1 DEF TypeOK
  <2> QED
    BY <2>1, <2>2
<1>5. ASSUME NEW q \in Tables, GameEndTimer(q) PROVE seats'[t] = seats[t]
  <2>1. q # t /\ seats' = [seats EXCEPT ![q] = {}]
    BY <1>0, <1>5 DEF GameEndTimer, ClearTable, Seats
  <2> QED
    BY <1>0, <2>1 DEF TypeOK
<1>6. ASSUME NEW q \in Tables, AndroidEnter(q) PROVE seats'[t] = seats[t]
  <2>1. q # t /\ \E a \in Androids : OnUserEnter(q, a, NoEntry)
    BY <1>0, <1>6 DEF AndroidEnter
  <2> QED
    BY <1>0, <2>1, EnterChairs
<1>7. ASSUME NEW q \in Tables, PhaseTimer(q) \/ \E x \in Occupants : GameMessage(q, x) PROVE seats' = seats
  BY <1>7 DEF PhaseTimer, GameMessage
<1>8. ASSUME NEW u \in Users, \/ EnterRefused(u) \/ EnterElsewhere(u) \/ HallGrant(u) \/ OnlineGone(u)
                              \/ \E wish \in Tables \cup {Nobody} : EnterTableFull(u, wish)
      PROVE  seats' = seats
  BY <1>8 DEF EnterRefused, EnterElsewhere, HallGrant, OnlineGone, EnterTableFull, table
<1>9. CASE RepairServer \/ UNCHANGED vars
  BY <1>9 DEF RepairServer, vars, table
<1> QED
  BY <1>1, <1>2, <1>3, <1>4, <1>5, <1>6, <1>7, <1>8, <1>9 DEF Next

\* The players of a round stay those it began with, but when a ready timer the table has forgotten fires: the only
\* way a round loses its players is the timer CTableFrameSink does not cancel.
THEOREM RoundsKeepPlayers == Spec => RoundKeptUnlessStale
<1>1. RoomInv /\ [Next]_vars =>
          [\A t \in Tables : game[t] \in Playing /\ stale'[t] = stale[t] => seats'[t] = seats[t]]_vars
  BY RoundKeeps
<1> QED
  BY <1>1, RoomInvariant, PTL DEF Spec, RoundKeptUnlessStale
=============================================================================
