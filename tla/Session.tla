------------------------------ MODULE Session ------------------------------
(***************************************************************************)
(* One player on his way from a connection to a chair: the proxies         *)
(* (src/Framework/ProxyServer), the halls (HallServer) and the game        *)
(* servers (GameServer), which share nothing but Redis.                    *)
(*                                                                         *)
(* The player opens connections, one after the other or at once.  A login  *)
(* sets the password an entry has to show.  A request for a game makes     *)
(* the hall choose one of the game servers of the room and write it to     *)
(* Redis; the proxy routes the connection there, and the player enters.    *)
(* Halls handle requests on a pool of threads, so a step here is one Redis *)
(* command, with all other processes in between.  Which connections are    *)
(* closed by a login is the matter of Login; here a connection may be lost *)
(* at any time.  A game server's tables are abstracted to whether the      *)
(* player sits at one of them: see GameRoom for what happens there.        *)
(***************************************************************************)
EXTENDS Naturals, Sequences, FiniteSets, SequencesExt

CONSTANTS
    Conns,                      \* bound: the connections the player makes
    Servers, Rooms, RoomOf,     \* each game server offers one room
    Requests,                   \* bound: the requests for a game he makes
    MayOverlap,                 \* two requests, or a request and an entry, may be at work at once
    Nobody

ASSUME SessionAssumption ==
    /\ RoomOf \in [Servers -> Rooms]
    /\ Nobody \notin Conns \cup Servers \cup Rooms
    /\ MayOverlap \in BOOLEAN
    /\ Requests \cap Servers = {}

VARIABLES
    conn,       \* the proxy's connection: "none", "open", "in" (bound to the user), "closed"
    client,     \* Entry's game client: where the proxy sends the connection's game messages
    login,      \* where the hall is with a connection's login, then the proxy with the answer
    logins,     \* the connections whose dynamicPassword was written to Redis, the last one valid
    request,    \* the requests for a game: connection, room, and where the hall is
    ip, info,   \* Redis, one hash: GameServerIP; room and table of the online info
    msgs,       \* messages on their way from a proxy to a game server
    entering,   \* cmd_enter_room at work in a game server
    seated,     \* the servers at which the player sits
    link        \* m_UserIdProxyConnectionInfoMap[userId] of each server

proxy == <<conn, client>>
hall == <<login, logins, request>>
redis == <<ip, info>>
server == <<entering, seated, link>>
vars == <<proxy, hall, redis, server, msgs>>

Idle == [pc |-> "idle", conn |-> Nobody, room |-> Nobody]

\* INVALID_TABLE of a grant, and a table the player was seated at.
NoInfo == [room |-> Nobody, table |-> "none"]
ExistsUserOnlineInfo == ip # Nobody \/ info # NoInfo

Init ==
    /\ conn = [c \in Conns |-> "none"] /\ client = [c \in Conns |-> Nobody]
    /\ login = [c \in Conns |-> "none"] /\ logins = <<>>
    /\ request = [r \in Requests |-> Idle]
    /\ ip = Nobody /\ info = NoInfo
    /\ entering = [s \in Servers |-> "idle"]
    /\ seated = {} /\ link = [s \in Servers |-> Nobody]
    /\ msgs = {}

Alive(c) == conn[c] \in {"open", "in"}

-----------------------------------------------------------------------------
(***************************************************************************)
(* Connections and logins.                                                 *)
(***************************************************************************)

\* A new connection, whose client logs in at once.
Connect(c) ==
    /\ conn[c] = "none"
    /\ conn' = [conn EXCEPT ![c] = "open"]
    /\ login' = [login EXCEPT ![c] = "password"]
    /\ UNCHANGED <<client, logins, request, redis, server, msgs>>

\* cmd_login_servers: a new password is written.
SetPassword(c) ==
    /\ login[c] = "password"
    /\ login' = [login EXCEPT ![c] = "reply"]
    /\ logins' = Append(logins, c)
    /\ UNCHANGED <<proxy, request, redis, server, msgs>>

\* processHallRequest, the answer to the login: the connection is bound to the user.
LoginReply(c) ==
    /\ login[c] = "reply"
    /\ login' = [login EXCEPT ![c] = "done"]
    /\ conn' = IF Alive(c) THEN [conn EXCEPT ![c] = "in"] ELSE conn
    /\ UNCHANGED <<client, logins, request, redis, server, msgs>>

\* onTcpConnection, when the connection is down: OFFLINE to the game server the connection was routed to.
Disconnect(c) ==
    /\ Alive(c)
    /\ conn' = [conn EXCEPT ![c] = "closed"]
    /\ msgs' = IF client[c] = Nobody THEN msgs
               ELSE msgs \cup {[type |-> "offline", conn |-> c, server |-> client[c]]}
    /\ UNCHANGED <<client, hall, redis, server>>

-----------------------------------------------------------------------------
(***************************************************************************)
(* A request for a game: HallServer::cmd_get_game_server_message.          *)
(***************************************************************************)
RequestGame(c, r, room) ==
    /\ conn[c] = "in" /\ request[r].pc = "idle"
    /\ request' = [request EXCEPT ![r] = [pc |-> "read", conn |-> c, room |-> room]]
    /\ UNCHANGED <<proxy, login, logins, redis, server, msgs>>

\* Mutant: the hall does not ask for the room the player is in.
ReadOnlineForgetful(r) ==
    /\ request[r].pc = "read"
    /\ request' = [request EXCEPT ![r].pc = "choose"]
    /\ UNCHANGED <<proxy, login, logins, redis, server, msgs>>

\* A player with online info may go back to his room only.
ReadOnline(r) ==
    /\ request[r].pc = "read"
    /\ request' = [request EXCEPT ![r].pc = IF info = NoInfo THEN "choose"
                                             ELSE IF info.room = request[r].room THEN "reply" ELSE "done"]
    /\ UNCHANGED <<proxy, login, logins, redis, server, msgs>>

\* getRandomGameServer, and SetUserOnlineInfoIP.
SetOnlineIP(r) ==
    /\ request[r].pc = "choose"
    /\ \E s \in {s \in Servers : RoomOf[s] = request[r].room} :
          /\ ip' = s
          /\ request' = [request EXCEPT ![r].pc = "online"]
    /\ UNCHANGED <<proxy, login, logins, info, server, msgs>>

\* No server of the room is running.
NoServer(r) ==
    /\ request[r].pc = "choose"
    /\ ip' = Nobody /\ info' = NoInfo
    /\ request' = [request EXCEPT ![r].pc = "done"]
    /\ UNCHANGED <<proxy, login, logins, server, msgs>>

SetOnline(r) ==
    /\ request[r].pc = "online"
    /\ info' = [room |-> request[r].room, table |-> "none"]
    /\ request' = [request EXCEPT ![r].pc = "reply"]
    /\ UNCHANGED <<proxy, login, logins, ip, server, msgs>>

\* processHallRequest, the answer to the request: the proxy reads from Redis where to route the connection.
\* The route stays as it was when the connection or the entry in Redis is gone, or the proxy has lost that server.
GrantReply(r) ==
    LET c == request[r].conn
    IN  /\ request[r].pc = "reply"
        /\ request' = [request EXCEPT ![r].pc = "done"]
        /\ \/ Alive(c) /\ ip # Nobody /\ client' = [client EXCEPT ![c] = ip]
           \/ UNCHANGED client
        /\ UNCHANGED <<conn, login, logins, redis, server, msgs>>

-----------------------------------------------------------------------------
(***************************************************************************)
(* The game server, whose messages are handled one at a time.              *)
(***************************************************************************)
SendEnter(c) ==
    /\ conn[c] = "in" /\ client[c] # Nobody
    /\ msgs' = msgs \cup {[type |-> "enter", conn |-> c, server |-> client[c]]}
    /\ UNCHANGED <<proxy, hall, redis, server>>

\* Mutant: any password of the player will do.
PasswordAny(c) == \E i \in DOMAIN logins : logins[i] = c

\* dynamicPassword: the one of the last login.
PasswordOK(c) == logins # <<>> /\ Last(logins) = c

\* cmd_enter_room up to SwitchUserItem, for a player who sits here already.
cmd_enter_room(c, s) ==
    LET m == [type |-> "enter", conn |-> c, server |-> s]
    IN  /\ entering[s] = "idle" /\ m \in msgs
        /\ msgs' = msgs \ {m}
        /\ \/ /\ ExistsUserOnlineInfo /\ PasswordOK(c)
              /\ link' = [link EXCEPT ![s] = c]
              /\ entering' = IF s \in seated THEN entering ELSE [entering EXCEPT ![s] = "check"]
           \/ ~(ExistsUserOnlineInfo /\ PasswordOK(c)) /\ UNCHANGED <<link, entering>>
        /\ UNCHANGED <<proxy, hall, redis, seated>>

\* CheckUserCanEnterRoom, for an entry that asks for no table: a player at a table must not be elsewhere.
CanEnterRoom(s) == info = NoInfo \/ (info.room = RoomOf[s] /\ info.table = "none")

CheckUserCanEnterRoom(s) ==
    /\ entering[s] = "check"
    /\ entering' = [entering EXCEPT ![s] = IF CanEnterRoom(s) THEN "sit" ELSE "idle"]
    /\ UNCHANGED <<proxy, hall, redis, seated, link, msgs>>

\* RoomSitChair and SetUserOnlineInfo.
RoomSitChair(s) ==
    /\ entering[s] = "sit"
    /\ seated' = seated \cup {s}
    /\ info' = [room |-> RoomOf[s], table |-> "some"]
    /\ entering' = [entering EXCEPT ![s] = "idle"]
    /\ UNCHANGED <<proxy, hall, ip, link, msgs>>

\* No table, or a score out of the room's limits: DelUserOnlineInfo.
EnterRefused(s) ==
    /\ entering[s] = "sit"
    /\ ip' = Nobody /\ info' = NoInfo
    /\ entering' = [entering EXCEPT ![s] = "idle"]
    /\ UNCHANGED <<proxy, hall, seated, link, msgs>>

\* Mutant: the room is cleared and the table forgotten.
StandupKeepsTable(s) ==
    /\ seated' = seated \ {s}
    /\ link' = [link EXCEPT ![s] = Nobody]
    /\ ip' = Nobody /\ info' = [info EXCEPT !.room = Nobody]

\* OnUserStandup
Standup(s) ==
    /\ seated' = seated \ {s}
    /\ link' = [link EXCEPT ![s] = Nobody]
    /\ ip' = Nobody /\ info' = NoInfo

\* The player leaves the table or the table is cleared after a round.
LeaveTable(s) ==
    /\ entering[s] = "idle" /\ s \in seated
    /\ Standup(s)
    /\ UNCHANGED <<proxy, hall, entering, msgs>>

\* cmd_user_offline: in a round the chair is kept.  It does not matter which connection is gone.
cmd_user_offline(c, s) ==
    LET m == [type |-> "offline", conn |-> c, server |-> s]
    IN  /\ entering[s] = "idle" /\ m \in msgs
        /\ msgs' = msgs \ {m}
        /\ \/ s \in seated /\ Standup(s)
           \/ s \in seated /\ link' = [link EXCEPT ![s] = Nobody] /\ UNCHANGED <<seated, redis>>
           \/ s \notin seated /\ UNCHANGED <<seated, link, redis>>
        /\ UNCHANGED <<proxy, hall, entering>>

\* Five minutes without a sign of the player.  Who sits at a table keeps the info alive, by the pings of his
\* client and by the end of the round, which is taken to come sooner.
OnlineExpires ==
    /\ seated = {} /\ ExistsUserOnlineInfo
    /\ ip' = Nobody /\ info' = NoInfo
    /\ UNCHANGED <<proxy, hall, server, msgs>>

-----------------------------------------------------------------------------
\* What has read the online info, or is about to, and may write it.
AtWork == {r \in Requests : request[r].pc \in {"choose", "online"}}
          \cup {s \in Servers : entering[s] # "idle"}

Alone == MayOverlap \/ \A x, y \in AtWork' : x = y

Next ==
    \/ \E c \in Conns : Connect(c) \/ SetPassword(c) \/ LoginReply(c) \/ Disconnect(c) \/ SendEnter(c)
    \/ \E c \in Conns, r \in Requests, room \in Rooms : RequestGame(c, r, room)
    \/ \E r \in Requests : ReadOnline(r) /\ Alone
    \/ \E r \in Requests : SetOnlineIP(r) \/ NoServer(r) \/ SetOnline(r) \/ GrantReply(r)
    \/ \E c \in Conns, s \in Servers : cmd_enter_room(c, s) /\ Alone
    \/ \E c \in Conns, s \in Servers : cmd_user_offline(c, s)
    \/ \E s \in Servers : CheckUserCanEnterRoom(s) \/ RoomSitChair(s) \/ EnterRefused(s) \/ LeaveTable(s)
    \/ OnlineExpires

Spec == Init /\ [][Next]_vars

-----------------------------------------------------------------------------
(***************************************************************************)
(* Properties.                                                             *)
(***************************************************************************)
TypeOK ==
    /\ conn \in [Conns -> {"none", "open", "in", "closed"}]
    /\ client \in [Conns -> Servers \cup {Nobody}]
    /\ login \in [Conns -> {"none", "password", "reply", "done"}]
    /\ logins \in Seq(Conns)
    /\ request \in [Requests -> [pc : {"idle", "read", "choose", "online", "reply", "done"},
                                 conn : Conns \cup {Nobody}, room : Rooms \cup {Nobody}]]
    /\ ip \in Servers \cup {Nobody}
    /\ info \in [room : Rooms, table : {"none", "some"}] \cup {NoInfo}
    /\ entering \in [Servers -> {"idle", "check", "sit"}]
    /\ seated \subseteq Servers
    /\ link \in [Servers -> Conns \cup {Nobody}]
    /\ msgs \subseteq [type : {"enter", "offline"}, conn : Conns, server : Servers]

\* A player sits at one game server only (GameServer.cpp:1753, "user can't enter room, because in other room").
SeatedOnce == Cardinality(seated) <= 1

\* As long as no two requests or entries of a player are at work at once, whatever is delayed, sent again, expired or
\* disconnected, he sits at one server at most, and the online info tells of it.
SeatKnownUnlessOverlap ==
    MayOverlap \/ seated = {} \/ \E s \in Servers : seated = {s} /\ info = [room |-> RoomOf[s], table |-> "some"]

\* What a session has begun is never handed back to an older one: the connection a game server answers to is at any
\* time the one of the latest login that has entered (the password check of cmd_enter_room).
Order(c) == CHOOSE i \in DOMAIN logins : logins[i] = c

LinkMovesOn ==
    [][\A s \in Servers : link[s] # Nobody /\ link'[s] # Nobody => Order(link[s]) <= Order(link'[s])]_vars
=============================================================================
