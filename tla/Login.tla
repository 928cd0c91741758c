------------------------------- MODULE Login -------------------------------
(***************************************************************************)
(* The logins of one player: the proxies (src/Framework/ProxyServer), each *)
(* with the connection it knows of the player, and the halls               *)
(* (HallServer), which announce a login to all proxies through Redis.      *)
(*                                                                         *)
(* A step is one Redis command of a hall or one critical section of a      *)
(* proxy: answers of halls and announcements are handled by different      *)
(* threads, in any order.  Session models what a connection does once it   *)
(* is logged in.                                                           *)
(***************************************************************************)
EXTENDS Naturals, Sequences

CONSTANTS
    Proxies, Conns, ProxyOf,    \* each connection (a session) is made to one proxy
    Nobody

ASSUME LoginAssumption == ProxyOf \in [Conns -> Proxies] /\ Nobody \notin Conns

VARIABLES
    conn,       \* the proxy's connection: "none", "open", "in" (bound to the user), "closing", "closed"
    mapped,     \* m_clientHallUserIdWeaConnMap[userId] of each proxy
    notices,    \* login announcements on their way to each proxy
    login       \* where the hall is with a connection's login, then the proxy with the answer

vars == <<conn, mapped, notices, login>>

Init ==
    /\ conn = [c \in Conns |-> "none"] /\ mapped = [p \in Proxies |-> Nobody]
    /\ notices = [p \in Proxies |-> <<>>] /\ login = [c \in Conns |-> "none"]

Alive(c) == conn[c] \in {"open", "in", "closing"}

\* What a weak pointer in m_clientHallUserIdWeaConnMap locks to: the connection while it exists.
Locked(p) == IF mapped[p] # Nobody /\ Alive(mapped[p]) THEN mapped[p] ELSE Nobody

\* A new connection, whose client logs in at once.
Connect(c) ==
    /\ conn[c] = "none"
    /\ conn' = [conn EXCEPT ![c] = "open"]
    /\ login' = [login EXCEPT ![c] = "publish"]
    /\ UNCHANGED <<mapped, notices>>

\* cmd_login_servers: the login is announced to the proxies ...
PublishLogin(c) ==
    /\ login[c] = "publish"
    /\ login' = [login EXCEPT ![c] = "password"]
    /\ notices' = [p \in Proxies |-> Append(notices[p], c)]
    /\ UNCHANGED <<conn, mapped>>

\* ... then a new password is written (Session models what it is for), and the answer goes to the proxy.
SetPassword(c) ==
    /\ login[c] = "password"
    /\ login' = [login EXCEPT ![c] = "reply"]
    /\ UNCHANGED <<conn, mapped, notices>>

\* forceCloseWithDelay(0.1)
Closing(old) == [conn EXCEPT ![old] = "closing"]

\* Mutant: the connection on this proxy is left to the announcement.
LoginReplyKeepsOld(c) ==
    /\ login[c] = "reply"
    /\ \/ /\ Alive(c)
          /\ conn' = [conn EXCEPT ![c] = "in"]
          /\ login' = [login EXCEPT ![c] = "map"]
       \/ /\ ~Alive(c)
          /\ login' = [login EXCEPT ![c] = "done"]
          /\ UNCHANGED conn
    /\ UNCHANGED <<mapped, notices>>

\* processHallRequest, the answer to the login: the connection is bound to the user, and the one the proxy knows
\* of is closed.
LoginReply(c) ==
    LET old == Locked(ProxyOf[c])
    IN  /\ login[c] = "reply"
        /\ \/ /\ Alive(c)
              /\ conn' = [k \in Conns |-> IF k = c THEN "in" ELSE IF k = old THEN "closing" ELSE conn[k]]
              /\ login' = [login EXCEPT ![c] = "map"]
           \/ /\ ~Alive(c)
              /\ login' = [login EXCEPT ![c] = "done"]
              /\ UNCHANGED conn
        /\ UNCHANGED <<mapped, notices>>

\* The map is written in a second critical section.
MapConnection(c) ==
    /\ login[c] = "map"
    /\ login' = [login EXCEPT ![c] = "done"]
    /\ mapped' = [mapped EXCEPT ![ProxyOf[c]] = c]
    /\ UNCHANGED <<conn, notices>>

\* Mutant: the session of the announcement is not looked up.
NotifiedItselfNever(p, c) == FALSE

\* The proxy that has the session has nothing to do.
NotifiedItself(p, c) == ProxyOf[c] = p /\ Alive(c)

notifyUserLoginMessage(p) ==
    /\ notices[p] # <<>>
    /\ notices' = [notices EXCEPT ![p] = Tail(@)]
    /\ LET old == Locked(p)
       IN  conn' = IF ~NotifiedItself(p, Head(notices[p])) /\ old # Nobody THEN Closing(old) ELSE conn
    /\ UNCHANGED <<mapped, login>>

\* onTcpConnection, when the connection is down.
Disconnect(c) ==
    /\ Alive(c)
    /\ conn' = [conn EXCEPT ![c] = "closed"]
    /\ mapped' = [p \in Proxies |-> IF p = ProxyOf[c] /\ mapped[p] = c THEN Nobody ELSE mapped[p]]
    /\ UNCHANGED <<notices, login>>

ForceClose(c) == conn[c] = "closing" /\ Disconnect(c)

-----------------------------------------------------------------------------
Next ==
    \/ \E c \in Conns : \/ Connect(c) \/ PublishLogin(c) \/ SetPassword(c) \/ LoginReply(c)
                        \/ MapConnection(c) \/ Disconnect(c)
    \/ \E p \in Proxies : notifyUserLoginMessage(p)

Spec == Init /\ [][Next]_vars

\* Threads of hall and proxy carry out what they have begun, and connections that are to be closed are closed.
FairSpec ==
    /\ Spec
    /\ \A c \in Conns : /\ WF_vars(PublishLogin(c)) /\ WF_vars(SetPassword(c))
                        /\ WF_vars(LoginReply(c)) /\ WF_vars(MapConnection(c)) /\ WF_vars(ForceClose(c))
    /\ \A p \in Proxies : WF_vars(notifyUserLoginMessage(p))

-----------------------------------------------------------------------------
(***************************************************************************)
(* Properties.                                                             *)
(***************************************************************************)
\* A login takes the place of the session a proxy knows of, on whatever proxy, unless another login is under way or
\* the new connection is gone again (processHallRequest and notifyUserLoginMessage, which close "the old one").
EarlierSessionCloses ==
    \A b, c \in Conns : b # c =>
        (/\ conn[b] = "in" /\ mapped[ProxyOf[b]] = b /\ login[c] = "publish"
         /\ \A k \in Conns \ {c} : login[k] \in {"none", "done"})
            ~> conn[b] = "closed" \/ conn[c] = "closed"

\* A proxy closes a connection of the player only because of another login, one the hall has accepted: neither the
\* answer to a connection's login nor its announcement, in whatever order they come, turns against itself.
OnlyRivalsClose ==
    [][\A b \in Conns : conn[b] # "closing" /\ conn'[b] = "closing" =>
          \E c \in Conns \ {b} : login[c] \notin {"none", "publish"}]_vars
=============================================================================
