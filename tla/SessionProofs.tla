--------------------------- MODULE SessionProofs ---------------------------
(***************************************************************************)
(* Session for every number of connections, servers, rooms and requests:   *)
(* types, the one seat of a player whose requests do not overlap, and the  *)
(* order in which sessions take a game server's link over.                 *)
(***************************************************************************)
EXTENDS Session, SequenceTheorems, TLAPS

-----------------------------------------------------------------------------
(***************************************************************************)
(* Types.  A request that was made has a connection and a room.            *)
(***************************************************************************)
Asked == \A r \in Requests : request[r].pc # "idle" => request[r].conn \in Conns /\ request[r].room \in Rooms

TypeInv == TypeOK /\ Asked

\* The initial state has the types of TypeInv.
LEMMA InitType == Init => TypeInv
BY SessionAssumption DEF Init, TypeInv, TypeOK, Asked, Idle, NoInfo

\* A request moves on, and the rest of its record stays.
LEMMA RequestMoves ==
    ASSUME TypeInv, NEW r \in Requests, request[r].pc # "idle",
           NEW pc \in {"choose", "online", "reply", "done"}, request' = [request EXCEPT ![r].pc = pc]
    PROVE  /\ request' \in [Requests -> [pc : {"idle", "read", "choose", "online", "reply", "done"},
                                         conn : Conns \cup {Nobody}, room : Rooms \cup {Nobody}]]
           /\ Asked'
BY DEF TypeInv, TypeOK, Asked

\* Every step keeps them.
LEMMA NextType == TypeInv /\ [Next]_vars => TypeInv'
<1> SUFFICES ASSUME TypeInv, [Next]_vars PROVE TypeInv'
  OBVIOUS
<1> USE SessionAssumption DEF TypeInv, TypeOK
<1>1. ASSUME NEW c \in Conns, Connect(c) PROVE TypeInv'
  BY <1>1 DEF Connect, redis, server, Asked
<1>2. ASSUME NEW c \in Conns, SetPassword(c) PROVE TypeInv'
  <2>1. logins' \in Seq(Conns)
    BY <1>2, AppendProperties DEF SetPassword
  <2> QED
    BY <1>2, <2>1 DEF SetPassword, redis, server, proxy, Asked
<1>3. ASSUME NEW c \in Conns, LoginReply(c) PROVE TypeInv'
  BY <1>3 DEF LoginReply, redis, server, Asked
<1>4. ASSUME NEW c \in Conns, Disconnect(c) PROVE TypeInv'
  BY <1>4 DEF Disconnect, redis, server, hall, Asked
<1>5. ASSUME NEW c \in Conns, SendEnter(c) PROVE TypeInv'
  BY <1>5 DEF SendEnter, redis, server, hall, proxy, Asked
<1>6. ASSUME NEW c \in Conns, NEW r \in Requests, NEW room \in Rooms, RequestGame(c, r, room) PROVE TypeInv'
  BY <1>6 DEF RequestGame, redis, server, proxy, Asked
<1>7. ASSUME NEW r \in Requests, ReadOnline(r) PROVE TypeInv'
  <2>1. PICK pc \in {"choose", "online", "reply", "done"} : request' = [request EXCEPT ![r].pc = pc]
    BY <1>7 DEF ReadOnline
  <2> QED
    BY <1>7, <2>1, RequestMoves DEF ReadOnline, redis, server, proxy
<1>8. ASSUME NEW r \in Requests, SetOnlineIP(r) PROVE TypeInv'
  BY <1>8, RequestMoves DEF SetOnlineIP, server, proxy
<1>9. ASSUME NEW r \in Requests, NoServer(r) PROVE TypeInv'
  BY <1>9, RequestMoves DEF NoServer, server, proxy
<1>10. ASSUME NEW r \in Requests, SetOnline(r) PROVE TypeInv'
  <2>1. request[r].room \in Rooms
    BY <1>10 DEF SetOnline, Asked
  <2> QED
    BY <1>10, <2>1, RequestMoves DEF SetOnline, server, proxy
<1>11. ASSUME NEW r \in Requests, GrantReply(r) PROVE TypeInv'
  <2>1. client' \in [Conns -> Servers \cup {Nobody}]
    BY <1>11 DEF GrantReply
  <2> QED
    BY <1>11, <2>1, RequestMoves DEF GrantReply, server, redis
<1>12. ASSUME NEW c \in Conns, NEW s \in Servers, cmd_enter_room(c, s) PROVE TypeInv'
  <2>1. link' \in [Servers -> Conns \cup {Nobody}] /\ entering' \in [Servers -> {"idle", "check", "sit"}]
    BY <1>12 DEF cmd_enter_room
  <2> QED
    BY <1>12, <2>1 DEF cmd_enter_room, proxy, hall, redis, Asked
<1>13. ASSUME NEW s \in Servers, CheckUserCanEnterRoom(s) PROVE TypeInv'
  BY <1>13 DEF CheckUserCanEnterRoom, proxy, hall, redis, Asked
<1>14. ASSUME NEW s \in Servers, RoomSitChair(s) PROVE TypeInv'
  BY <1>14 DEF RoomSitChair, proxy, hall, Asked
<1>15. ASSUME NEW s \in Servers, EnterRefused(s) PROVE TypeInv'
  BY <1>15 DEF EnterRefused, proxy, hall, Asked
<1>16. ASSUME NEW s \in Servers, LeaveTable(s) PROVE TypeInv'
  BY <1>16 DEF LeaveTable, Standup, proxy, hall, Asked
<1>17. ASSUME NEW c \in Conns, NEW s \in Servers, cmd_user_offline(c, s) PROVE TypeInv'
  BY <1>17 DEF cmd_user_offline, Standup, proxy, hall, redis, Asked
<1>18. CASE OnlineExpires
  BY <1>18 DEF OnlineExpires, proxy, hall, server, Asked
<1>19. CASE UNCHANGED vars
  BY <1>19 DEF vars, proxy, hall, redis, server, Asked
<1> HIDE DEF TypeInv, TypeOK
<1> QED
  BY <1>1, <1>2, <1>3, <1>4, <1>5, <1>6, <1>7, <1>8, <1>9, <1>10, <1>11, <1>12, <1>13, <1>14, <1>15, <1>16,
     <1>17, <1>18, <1>19 DEF Next

\* The state of the proxies, the halls, Redis and the game servers stays what its declarations say.
THEOREM SessionTypeCorrect == Spec => []TypeOK
<1>1. TypeInv => TypeOK
  BY DEF TypeInv
<1> QED
  BY <1>1, InitType, NextType, PTL DEF Spec

-----------------------------------------------------------------------------
(***************************************************************************)
(* The one seat.  With one piece of work at a time, what has read that the *)
(* player sits nowhere can rely on it until it writes.                     *)
(***************************************************************************)
OneAtWork == \A x, y \in AtWork : x = y

ReadStillTrue ==
    /\ \A r \in Requests : request[r].pc \in {"choose", "online"} => seated = {}
    /\ \A s \in Servers : entering[s] = "sit" => seated = {}

SeatKnown == seated = {} \/ \E s \in Servers : seated = {s} /\ info = [room |-> RoomOf[s], table |-> "some"]

SeatInv == MayOverlap \/ (OneAtWork /\ ReadStillTrue /\ SeatKnown)

\* At the start nobody is at work and nobody sits.
LEMMA InitSeat == Init => SeatInv
BY DEF Init, SeatInv, OneAtWork, ReadStillTrue, SeatKnown, AtWork, Idle

\* Steps that take up no work and leave the player's seat and his online info as they are.
LEMMA SeatUntouched ==
    ASSUME SeatInv, AtWork' \subseteq AtWork,
           \A r \in Requests : request'[r].pc \in {"choose", "online"} => request[r].pc \in {"choose", "online"},
           \A s \in Servers : entering'[s] = "sit" => entering[s] = "sit",
           UNCHANGED <<seated, info>>
    PROVE  SeatInv'
BY DEF SeatInv, OneAtWork, ReadStillTrue, SeatKnown

\* Whoever sits, sits nowhere afterwards.
LEMMA SeatGiven ==
    ASSUME SeatInv, AtWork' \subseteq AtWork, seated' = {}
    PROVE  SeatInv'
BY DEF SeatInv, OneAtWork, ReadStillTrue, SeatKnown

\* Every step keeps what the one at work has seen true.
LEMMA NextSeat == TypeInv /\ SeatInv /\ [Next]_vars => SeatInv'
<1> SUFFICES ASSUME TypeInv, SeatInv, [Next]_vars PROVE SeatInv'
  OBVIOUS
<1> USE SessionAssumption
<1>0. SUFFICES ASSUME ~MayOverlap PROVE SeatInv'
  BY DEF SeatInv
<1>a. /\ request \in [Requests -> [pc : {"idle", "read", "choose", "online", "reply", "done"},
                                   conn : Conns \cup {Nobody}, room : Rooms \cup {Nobody}]]
      /\ entering \in [Servers -> {"idle", "check", "sit"}]
      /\ seated \subseteq Servers
  BY DEF TypeInv, TypeOK
<1>b. OneAtWork /\ ReadStillTrue /\ SeatKnown
  BY <1>0 DEF SeatInv
<1>1. ASSUME NEW c \in Conns, Connect(c) \/ SetPassword(c) \/ LoginReply(c) \/ Disconnect(c) \/ SendEnter(c)
      PROVE  SeatInv'
  <2>1. UNCHANGED <<request, entering, seated, info>>
    BY <1>1 DEF Connect, SetPassword, LoginReply, Disconnect, SendEnter, redis, server, hall
  <2> QED
    BY <2>1, SeatUntouched DEF AtWork
<1>2. ASSUME NEW c \in Conns, NEW r \in Requests, NEW room \in Rooms, RequestGame(c, r, room) PROVE SeatInv'
  <2>1. UNCHANGED <<entering, seated, info>>
    BY <1>2 DEF RequestGame, redis, server
  <2>2. \A q \in Requests : request'[q].pc \in {"choose", "online"} => request[q].pc \in {"choose", "online"}
    BY <1>a, <1>2 DEF RequestGame
  <2> QED
    BY <2>1, <2>2, SeatUntouched DEF AtWork
<1>3. ASSUME NEW r \in Requests, ReadOnline(r), Alone PROVE SeatInv'
  <2>1. UNCHANGED <<entering, seated, info>>
    BY <1>3 DEF ReadOnline, redis, server
  <2>2. OneAtWork'
    BY <1>0, <1>3 DEF Alone, OneAtWork
  <2>3. \A q \in Requests \ {r} : request'[q] = request[q]
    BY <1>a, <1>3 DEF ReadOnline
  <2>4. request'[r].pc \in {"choose", "online"} => info = NoInfo
    BY <1>a, <1>3 DEF ReadOnline
  <2>5. info = NoInfo => seated = {}
    <3>1. NoInfo.table = "none" /\ \A s \in Servers : [room |-> RoomOf[s], table |-> "some"].table = "some"
      BY DEF NoInfo
    <3> QED
      BY <1>b, <3>1 DEF SeatKnown
  <2>6. ReadStillTrue'
    BY <1>b, <2>1, <2>3, <2>4, <2>5 DEF ReadStillTrue
  <2> QED
    BY <1>b, <2>1, <2>2, <2>6 DEF SeatInv, SeatKnown
<1>4. ASSUME NEW r \in Requests, SetOnlineIP(r) \/ NoServer(r) \/ SetOnline(r) PROVE SeatInv'
  <2>1. UNCHANGED <<entering, seated>> /\ request[r].pc \in {"choose", "online"}
    BY <1>4 DEF SetOnlineIP, NoServer, SetOnline, server
  <2>2. \A q \in Requests : request'[q].pc \in {"choose", "online"} => request[q].pc \in {"choose", "online"}
    BY <1>a, <1>4, <2>1 DEF SetOnlineIP, NoServer, SetOnline
  <2>3. AtWork' \subseteq AtWork
    BY <2>1, <2>2 DEF AtWork
  <2>4. seated' = {}
    BY <1>b, <2>1 DEF ReadStillTrue
  <2> QED
    BY <2>3, <2>4, SeatGiven
<1>5. ASSUME NEW r \in Requests, GrantReply(r) PROVE SeatInv'
  <2>1. UNCHANGED <<entering, seated, info>>
    BY <1>5 DEF GrantReply, redis, server
  <2>2. \A q \in Requests : request'[q].pc \in {"choose", "online"} => request[q].pc \in {"choose", "online"}
    BY <1>a, <1>5 DEF GrantReply
  <2> QED
    BY <2>1, <2>2, SeatUntouched DEF AtWork
<1>6. ASSUME NEW c \in Conns, NEW s \in Servers, cmd_enter_room(c, s), Alone PROVE SeatInv'
  <2>1. UNCHANGED <<request, seated, info>>
    BY <1>6 DEF cmd_enter_room, redis, hall
  <2>2. OneAtWork'
    BY <1>0, <1>6 DEF Alone, OneAtWork
  <2>3. \A q \in Servers : entering'[q] = "sit" => entering[q] = "sit"
    BY <1>a, <1>6 DEF cmd_enter_room
  <2> QED
    BY <1>b, <2>1, <2>2, <2>3 DEF SeatInv, SeatKnown, ReadStillTrue
<1>7. ASSUME NEW s \in Servers, CheckUserCanEnterRoom(s) PROVE SeatInv'
  <2>1. UNCHANGED <<request, seated, info>> /\ entering[s] = "check"
    BY <1>7 DEF CheckUserCanEnterRoom, redis, hall
  <2>2. \A q \in Servers \ {s} : entering'[q] = entering[q]
    BY <1>a, <1>7 DEF CheckUserCanEnterRoom
  <2>3. AtWork' \subseteq AtWork
    BY <2>1, <2>2 DEF AtWork
  <2>4. entering'[s] = "sit" => CanEnterRoom(s)
    BY <1>a, <1>7 DEF CheckUserCanEnterRoom
  <2>5. CanEnterRoom(s) => seated = {}
    BY <1>b DEF CanEnterRoom, SeatKnown, NoInfo
  <2>6. ReadStillTrue'
    BY <1>b, <2>1, <2>2, <2>4, <2>5 DEF ReadStillTrue
  <2> QED
    BY <1>b, <2>1, <2>3, <2>6 DEF SeatInv, SeatKnown, OneAtWork
<1>8. ASSUME NEW s \in Servers, RoomSitChair(s) PROVE SeatInv'
  <2>1. /\ UNCHANGED request /\ entering[s] = "sit" /\ entering'[s] = "idle"
        /\ info' = [room |-> RoomOf[s], table |-> "some"]
        /\ \A q \in Servers \ {s} : entering'[q] = entering[q]
    BY <1>a, <1>8 DEF RoomSitChair, hall
  <2>2. seated' = {s}
    BY <1>b, <1>8, <2>1 DEF RoomSitChair, ReadStillTrue
  <2>3. s \in AtWork /\ AtWork' \subseteq AtWork /\ s \notin AtWork'
    BY <2>1 DEF AtWork
  <2>4. AtWork' = {}
    BY <1>b, <2>3 DEF OneAtWork
  <2>5. ReadStillTrue'
    BY <2>4 DEF ReadStillTrue, AtWork
  <2> QED
    BY <2>1, <2>2, <2>4, <2>5 DEF SeatInv, SeatKnown, OneAtWork
<1>9. ASSUME NEW s \in Servers, EnterRefused(s) PROVE SeatInv'
  <2>1. UNCHANGED <<request, seated>> /\ entering[s] = "sit" /\ \A q \in Servers : entering'[q] \in {"idle", entering[q]}
    BY <1>a, <1>9 DEF EnterRefused, hall
  <2>2. AtWork' \subseteq AtWork /\ seated' = {}
    BY <1>b, <2>1 DEF AtWork, ReadStillTrue
  <2> QED
    BY <2>2, SeatGiven
<1>10. ASSUME NEW s \in Servers, Standup(s), s \in seated, UNCHANGED <<request, entering>> PROVE SeatInv'
  <2>1. AtWork' \subseteq AtWork /\ seated' = {}
    BY <1>b, <1>10 DEF AtWork, SeatKnown, Standup
  <2> QED
    BY <2>1, SeatGiven
<1>11. ASSUME NEW s \in Servers, LeaveTable(s) PROVE SeatInv'
  BY <1>10, <1>11 DEF LeaveTable, hall
<1>12. ASSUME NEW c \in Conns, NEW s \in Servers, cmd_user_offline(c, s) PROVE SeatInv'
  <2>1. UNCHANGED <<request, entering>>
    BY <1>12 DEF cmd_user_offline, hall
  <2>2. CASE s \in seated /\ Standup(s)
    BY <1>10, <2>1, <2>2
  <2>3. CASE UNCHANGED <<seated, info>>
    BY <2>1, <2>3, SeatUntouched DEF AtWork
  <2> QED
    BY <1>12, <2>2, <2>3 DEF cmd_user_offline, redis
<1>13. CASE OnlineExpires
  <2>1. UNCHANGED <<request, entering>> /\ seated' = {}
    BY <1>13 DEF OnlineExpires, hall, server
  <2> QED
    BY <2>1, SeatGiven DEF AtWork
<1>14. CASE UNCHANGED vars
  BY <1>14, SeatUntouched DEF vars, hall, server, redis, AtWork
<1> QED
  BY <1>1, <1>2, <1>3, <1>4, <1>5, <1>6, <1>7, <1>8, <1>9, <1>11, <1>12, <1>13, <1>14 DEF Next

\* A player whose requests and entries do not overlap sits at one game server at most, and Redis tells at which room:
\* for every number of servers, connections and requests, with every message late, repeated or lost.
THEOREM OneSeatUnlessOverlap == Spec => []SeatKnownUnlessOverlap
<1>1. SeatInv => SeatKnownUnlessOverlap
  BY DEF SeatInv, SeatKnown, SeatKnownUnlessOverlap
<1> QED
  BY <1>1, InitType, NextType, InitSeat, NextSeat, PTL DEF Spec

-----------------------------------------------------------------------------
(***************************************************************************)
(* The order of the links.  A connection logs in once, and a game server   *)
(* is linked to a connection that has.                                     *)
(***************************************************************************)
LoginsOnce ==
    /\ \A i, j \in DOMAIN logins : logins[i] = logins[j] => i = j
    /\ \A i \in DOMAIN logins : login[logins[i]] \in {"reply", "done"}
    /\ \A c \in Conns : conn[c] = "none" => login[c] = "none"

LinksLoggedIn == \A s \in Servers : link[s] # Nobody => \E i \in DOMAIN logins : logins[i] = link[s]

LinkInv == LoginsOnce /\ LinksLoggedIn

\* At the start no server has a link.
LEMMA InitLink == Init => LinkInv
BY DEF Init, LinkInv, LoginsOnce, LinksLoggedIn

\* A step without a login, after which each server has its old link or none.
LEMMA LinkUntouched ==
    ASSUME LinkInv, UNCHANGED <<logins, login>>, \A c \in Conns : conn'[c] = "none" => conn[c] = "none",
           \A s \in Servers : link'[s] \in {link[s], Nobody}
    PROVE  LinkInv'
BY DEF LinkInv, LoginsOnce, LinksLoggedIn

\* An entry links the server to the connection of the last login.
LEMMA EnterLinks ==
    ASSUME TypeInv, NEW c \in Conns, NEW s \in Servers, cmd_enter_room(c, s)
    PROVE  \A q \in Servers : \/ link'[q] = link[q]
                              \/ link'[q] = c /\ PasswordOK(c)
BY DEF cmd_enter_room, TypeInv, TypeOK

\* The last login is one of the logins.
LEMMA LastInLogins ==
    ASSUME NEW q \in Seq(Conns), q # <<>>
    PROVE  Len(q) \in DOMAIN q /\ q[Len(q)] = Last(q)
BY EmptySeq DEF Last

\* Every step keeps the links those of connections that have logged in.
LEMMA NextLink == TypeInv /\ LinkInv /\ [Next]_vars => LinkInv'
<1> SUFFICES ASSUME TypeInv, LinkInv, [Next]_vars PROVE LinkInv'
  OBVIOUS
<1> USE SessionAssumption
<1>a. /\ login \in [Conns -> {"none", "password", "reply", "done"}] /\ logins \in Seq(Conns)
      /\ link \in [Servers -> Conns \cup {Nobody}]
      /\ conn \in [Conns -> {"none", "open", "in", "closed"}]
      /\ \A i \in DOMAIN logins : logins[i] \in Conns
  BY ElementOfSeq DEF TypeInv, TypeOK
<1>1. ASSUME NEW c \in Conns, Connect(c) PROVE LinkInv'
  <2>1. /\ UNCHANGED <<logins, link>> /\ login' = [login EXCEPT ![c] = "password"]
        /\ conn[c] = "none" /\ conn' = [conn EXCEPT ![c] = "open"]
    BY <1>1 DEF Connect, server
  <2>2. \A i \in DOMAIN logins : logins[i] # c
    BY <2>1 DEF LinkInv, LoginsOnce
  <2> QED
    BY <1>a, <2>1, <2>2 DEF LinkInv, LoginsOnce, LinksLoggedIn
<1>2. ASSUME NEW c \in Conns, SetPassword(c) PROVE LinkInv'
  <2>1. /\ UNCHANGED <<conn, link>> /\ login' = [login EXCEPT ![c] = "reply"]
        /\ login[c] = "password" /\ logins' = Append(logins, c)
    BY <1>2 DEF SetPassword, server, proxy
  <2>2. \A i \in DOMAIN logins : logins[i] # c
    BY <2>1 DEF LinkInv, LoginsOnce
  <2>3. /\ DOMAIN logins = 1 .. Len(logins) /\ DOMAIN logins' = 1 .. Len(logins) + 1 /\ Len(logins) \in Nat
        /\ \A i \in DOMAIN logins : logins'[i] = logins[i]
        /\ logins'[Len(logins) + 1] = c
    BY <1>a, <2>1, AppendProperties
  <2>4. \A i \in DOMAIN logins' : i \in DOMAIN logins \/ (i = Len(logins) + 1 /\ logins'[i] = c)
    BY <2>3
  <2>5. LoginsOnce'
    BY <1>a, <2>1, <2>2, <2>3, <2>4 DEF LinkInv, LoginsOnce
  <2>6. LinksLoggedIn'
    BY <2>1, <2>3 DEF LinkInv, LinksLoggedIn
  <2> QED
    BY <2>5, <2>6 DEF LinkInv
<1>3. ASSUME NEW c \in Conns, LoginReply(c) PROVE LinkInv'
  <2>1. /\ UNCHANGED <<logins, link>> /\ login' = [login EXCEPT ![c] = "done"] /\ login[c] = "reply"
        /\ conn' \in {conn, [conn EXCEPT ![c] = "in"]}
    BY <1>3 DEF LoginReply, server
  <2> QED
    BY <1>a, <2>1 DEF LinkInv, LoginsOnce, LinksLoggedIn
<1>4. ASSUME NEW c \in Conns, Disconnect(c) \/ SendEnter(c) PROVE LinkInv'
  BY <1>a, <1>4, LinkUntouched DEF Disconnect, SendEnter, hall, server, proxy, Alive
<1>5. ASSUME NEW c \in Conns, NEW r \in Requests, NEW room \in Rooms, RequestGame(c, r, room) PROVE LinkInv'
  BY <1>5, LinkUntouched DEF RequestGame, server, proxy
<1>6. ASSUME NEW r \in Requests, ReadOnline(r) \/ SetOnlineIP(r) \/ NoServer(r) \/ SetOnline(r) \/ GrantReply(r)
      PROVE  LinkInv'
  BY <1>6, LinkUntouched DEF ReadOnline, SetOnlineIP, NoServer, SetOnline, GrantReply, server, proxy
<1>7. ASSUME NEW c \in Conns, NEW s \in Servers, cmd_enter_room(c, s) PROVE LinkInv'
  <2>1. UNCHANGED <<login, logins, conn>>
    BY <1>7 DEF cmd_enter_room, hall, proxy
  <2>2. PasswordOK(c) => \E i \in DOMAIN logins : logins[i] = c
    BY <1>a, LastInLogins DEF PasswordOK
  <2>3. LinksLoggedIn'
    BY <1>7, <2>1, <2>2, EnterLinks DEF LinkInv, LinksLoggedIn
  <2> QED
    BY <2>1, <2>3 DEF LinkInv, LoginsOnce
<1>8. ASSUME NEW s \in Servers, CheckUserCanEnterRoom(s) \/ RoomSitChair(s) \/ EnterRefused(s) PROVE LinkInv'
  BY <1>8, LinkUntouched DEF CheckUserCanEnterRoom, RoomSitChair, EnterRefused, hall, proxy
<1>9. ASSUME NEW s \in Servers, LeaveTable(s) PROVE LinkInv'
  BY <1>a, <1>9, LinkUntouched DEF LeaveTable, Standup, hall, proxy
<1>10. ASSUME NEW c \in Conns, NEW s \in Servers, cmd_user_offline(c, s) PROVE LinkInv'
  <2>1. UNCHANGED <<login, logins, conn>>
    BY <1>10 DEF cmd_user_offline, hall, proxy
  <2>2. \A q \in Servers : link'[q] \in {link[q], Nobody}
    BY <1>a, <1>10 DEF cmd_user_offline, Standup
  <2> QED
    BY <2>1, <2>2, LinkUntouched
<1>11. CASE OnlineExpires
  BY <1>11, LinkUntouched DEF OnlineExpires, hall, proxy, server
<1>12. CASE UNCHANGED vars
  BY <1>12, LinkUntouched DEF vars, hall, proxy, server
<1> QED
  BY <1>1, <1>2, <1>3, <1>4, <1>5, <1>6, <1>7, <1>8, <1>9, <1>10, <1>11, <1>12 DEF Next

\* A step changes no link, drops it, or takes it over for the last login.
LEMMA LinkSteps ==
    ASSUME TypeInv, [Next]_vars, NEW s \in Servers
    PROVE  \/ link'[s] \in {link[s], Nobody}
           \/ \E c \in Conns : link'[s] = c /\ PasswordOK(c)
<1>a. link \in [Servers -> Conns \cup {Nobody}]
  BY DEF TypeInv, TypeOK
<1>1. ASSUME NEW c \in Conns, NEW q \in Servers, cmd_enter_room(c, q)
      PROVE  link'[s] = link[s] \/ (link'[s] = c /\ PasswordOK(c))
  BY <1>1, EnterLinks
<1>2. ASSUME NEW c \in Conns, NEW q \in Servers, cmd_user_offline(c, q)
      PROVE  link'[s] \in {link[s], Nobody}
  BY <1>a, <1>2 DEF cmd_user_offline, Standup
<1>3. ASSUME NEW q \in Servers, LeaveTable(q) PROVE link'[s] \in {link[s], Nobody}
  BY <1>a, <1>3 DEF LeaveTable, Standup
<1>4. ASSUME NEW q \in Servers, CheckUserCanEnterRoom(q) \/ RoomSitChair(q) \/ EnterRefused(q) PROVE link' = link
  BY <1>4 DEF CheckUserCanEnterRoom, RoomSitChair, EnterRefused
<1>5. ASSUME NEW c \in Conns, Connect(c) \/ SetPassword(c) \/ LoginReply(c) \/ Disconnect(c) \/ SendEnter(c)
      PROVE  link' = link
  BY <1>5 DEF Connect, SetPassword, LoginReply, Disconnect, SendEnter, server
<1>6. ASSUME NEW c \in Conns, NEW r \in Requests, NEW room \in Rooms, RequestGame(c, r, room) PROVE link' = link
  BY <1>6 DEF RequestGame, server
<1>7. ASSUME NEW r \in Requests, ReadOnline(r) \/ SetOnlineIP(r) \/ NoServer(r) \/ SetOnline(r) \/ GrantReply(r)
      PROVE  link' = link
  BY <1>7 DEF ReadOnline, SetOnlineIP, NoServer, SetOnline, GrantReply, server
<1>8. CASE OnlineExpires \/ UNCHANGED vars
  BY <1>8 DEF OnlineExpires, vars, server
<1> QED
  BY <1>1, <1>2, <1>3, <1>4, <1>5, <1>6, <1>7, <1>8 DEF Next

\* The place of a connection among the logins, once it has logged in.
LEMMA OrderOf ==
    ASSUME TypeInv, NEW c, \E i \in DOMAIN logins : logins[i] = c
    PROVE  Order(c) \in DOMAIN logins /\ logins[Order(c)] = c
BY DEF Order

\* No step gives a server the link of an earlier login.
LEMMA LinkForward ==
    ASSUME TypeInv, LinkInv, [Next]_vars
    PROVE  \A s \in Servers : link[s] # Nobody /\ link'[s] # Nobody => Order(link[s]) <= Order(link'[s])
<1> SUFFICES ASSUME NEW s \in Servers, link[s] # Nobody, link'[s] # Nobody
             PROVE  Order(link[s]) <= Order(link'[s])
  OBVIOUS
<1>a. logins \in Seq(Conns) /\ DOMAIN logins = 1 .. Len(logins) /\ Len(logins) \in Nat
  BY DEF TypeInv, TypeOK
<1>1. Order(link[s]) \in 1 .. Len(logins)
  BY <1>a, OrderOf DEF LinkInv, LinksLoggedIn
<1>2. CASE link'[s] = link[s]
  BY <1>a, <1>1, <1>2
<1>3. ASSUME NEW c \in Conns, link'[s] = c, PasswordOK(c)
      PROVE  Order(link[s]) <= Order(link'[s])
  <2>1. Len(logins) \in DOMAIN logins /\ logins[Len(logins)] = c
    BY <1>a, <1>3, LastInLogins DEF PasswordOK
  <2>2. Order(c) = Len(logins)
    BY <2>1, OrderOf DEF LinkInv, LoginsOnce
  <2> QED
    BY <1>a, <1>1, <1>3, <2>2
<1> QED
  BY <1>2, <1>3, LinkSteps

\* A game server's link to a player moves from an older session to a newer one only, however late the entry of the
\* older one arrives.
THEOREM LinksMoveOn == Spec => LinkMovesOn
<1>1. TypeInv /\ LinkInv /\ [Next]_vars =>
          [\A s \in Servers : link[s] # Nobody /\ link'[s] # Nobody => Order(link[s]) <= Order(link'[s])]_vars
  BY LinkForward
<1> QED
  BY <1>1, InitType, NextType, InitLink, NextLink, PTL DEF Spec, LinkMovesOn
=============================================================================
