----------------------------- MODULE LoginProofs -----------------------------
(***************************************************************************)
(* No login closes its own connection, for every number of connections and *)
(* proxies.                                                                *)
(***************************************************************************)
EXTENDS Login, SequenceTheorems, TLAPS

LoginTypes ==
    /\ conn \in [Conns -> {"none", "open", "in", "closing", "closed"}]
    /\ mapped \in [Proxies -> Conns \cup {Nobody}]
    /\ notices \in [Proxies -> Seq(Conns)]
    /\ login \in [Conns -> {"none", "publish", "password", "reply", "map", "done"}]

Accepted(c) == login[c] \notin {"none", "publish"}

\* What is announced was accepted.
AnnouncedAccepted == \A p \in Proxies : \A i \in 1 .. Len(notices[p]) : Accepted(notices[p][i])

\* A proxy maps the player to a connection of its own.
MappedHere == \A p \in Proxies : mapped[p] # Nobody => ProxyOf[mapped[p]] = p

\* A connection is made before its login.
ConnectedFirst == \A c \in Conns : conn[c] = "none" => login[c] = "none"

LoginInv == LoginTypes /\ AnnouncedAccepted /\ MappedHere /\ ConnectedFirst

\* At the start nobody has logged in.
LEMMA LoginInit == Init => LoginInv
BY EmptySeq DEF Init, LoginInv, LoginTypes, AnnouncedAccepted, MappedHere, ConnectedFirst

\* A step that announces nothing.
LEMMA QuietStep ==
    ASSUME LoginInv, LoginTypes', UNCHANGED notices, MappedHere', ConnectedFirst',
           \A c \in Conns : Accepted(c) => login'[c] \notin {"none", "publish"}
    PROVE  LoginInv'
<1>1. \A p \in Proxies : \A i \in 1 .. Len(notices[p]) : notices[p][i] \in Conns
  BY ElementOfSeq DEF LoginInv, LoginTypes
<1>2. AnnouncedAccepted'
  BY <1>1 DEF LoginInv, AnnouncedAccepted, Accepted
<1> QED
  BY <1>2 DEF LoginInv

\* A login is announced under a connection that is accepted.
LEMMA PublishKeeps ==
    ASSUME LoginInv, NEW c \in Conns, PublishLogin(c)
    PROVE  LoginInv'
<1>1. /\ login' = [login EXCEPT ![c] = "password"] /\ login'[c] = "password"
      /\ \A k \in Conns : Accepted(k) => login'[k] \notin {"none", "publish"}
  BY DEF PublishLogin, LoginInv, LoginTypes, Accepted
<1>2. \A p \in Proxies : /\ notices[p] \in Seq(Conns) /\ notices'[p] = Append(notices[p], c)
                         /\ Len(notices[p]) \in Nat
  BY LenProperties DEF PublishLogin, LoginInv, LoginTypes
<1>3. \A p \in Proxies : \A i \in 1 .. Len(notices'[p]) : login'[notices'[p][i]] \notin {"none", "publish"}
  <2> SUFFICES ASSUME NEW p \in Proxies, NEW i \in 1 .. Len(notices'[p])
               PROVE  login'[notices'[p][i]] \notin {"none", "publish"}
    OBVIOUS
  <2>1. Len(notices'[p]) = Len(notices[p]) + 1 /\ notices'[p][Len(notices[p]) + 1] = c
        /\ \A k \in 1 .. Len(notices[p]) : notices'[p][k] = notices[p][k]
    BY <1>2, AppendProperties
  <2>2. CASE i = Len(notices[p]) + 1
    BY <1>1, <2>1, <2>2
  <2>3. CASE i \in 1 .. Len(notices[p])
    <3>1. notices[p][i] \in Conns /\ Accepted(notices[p][i])
      BY <1>2, <2>3, ElementOfSeq DEF LoginInv, AnnouncedAccepted
    <3> QED
      BY <1>1, <2>1, <2>3, <3>1
  <2> QED
    BY <1>2, <2>1, <2>2, <2>3
<1>4. AnnouncedAccepted'
  BY <1>3 DEF AnnouncedAccepted, Accepted
<1>5. notices' \in [Proxies -> Seq(Conns)]
  <2>1. \A p \in Proxies : Append(notices[p], c) \in Seq(Conns)
    BY <1>2, AppendProperties
  <2> QED
    BY <2>1 DEF PublishLogin
<1>6. LoginTypes' /\ MappedHere' /\ ConnectedFirst'
  BY <1>1, <1>5 DEF PublishLogin, LoginInv, LoginTypes, MappedHere, ConnectedFirst
<1> QED
  BY <1>4, <1>6 DEF LoginInv

\* A proxy that handles an announcement changes only its own map.
LEMMA NotifyKeeps ==
    ASSUME LoginInv, NEW p \in Proxies, notifyUserLoginMessage(p)
    PROVE  LoginInv'
<1>1. /\ notices[p] \in Seq(Conns) /\ notices[p] # <<>> /\ notices' = [notices EXCEPT ![p] = Tail(notices[p])]
      /\ UNCHANGED <<mapped, login>> /\ notices \in [Proxies -> Seq(Conns)]
  BY DEF notifyUserLoginMessage, LoginInv, LoginTypes
<1>2. /\ Tail(notices[p]) \in Seq(Conns) /\ Len(Tail(notices[p])) = Len(notices[p]) - 1 /\ Len(notices[p]) \in Nat
      /\ \A i \in 1 .. Len(Tail(notices[p])) : Tail(notices[p])[i] = notices[p][i + 1]
  BY <1>1, HeadTailProperties, LenProperties
<1>3. AnnouncedAccepted'
  <2> SUFFICES ASSUME NEW q \in Proxies, NEW i \in 1 .. Len(notices'[q])
               PROVE  login'[notices'[q][i]] \notin {"none", "publish"}
    BY DEF AnnouncedAccepted, Accepted
  <2>1. CASE q = p
    <3>1. i + 1 \in 1 .. Len(notices[p]) /\ notices'[q][i] = notices[p][i + 1]
      BY <1>1, <1>2, <2>1
    <3> QED
      BY <1>1, <3>1 DEF LoginInv, AnnouncedAccepted, Accepted
  <2>2. CASE q # p
    BY <1>1, <2>2 DEF LoginInv, AnnouncedAccepted, Accepted
  <2> QED
    BY <2>1, <2>2
<1>4. conn' \in [Conns -> {"none", "open", "in", "closing", "closed"}]
  BY DEF notifyUserLoginMessage, Closing, LoginInv, LoginTypes
<1>5. notices' \in [Proxies -> Seq(Conns)]
  BY <1>1, <1>2
<1>6. LoginTypes' /\ MappedHere'
  BY <1>1, <1>4, <1>5 DEF LoginInv, LoginTypes, MappedHere
<1>7. ConnectedFirst'
  BY DEF notifyUserLoginMessage, Closing, LoginInv, LoginTypes, ConnectedFirst
<1> QED
  BY <1>3, <1>6, <1>7 DEF LoginInv

\* Every step of the proxies and the hall keeps the invariant.
LEMMA LoginNext == LoginInv /\ [Next]_vars => LoginInv'
<1> SUFFICES ASSUME LoginInv, [Next]_vars PROVE LoginInv'
  OBVIOUS
<1> USE DEF LoginInv, LoginTypes, Accepted
<1>1. ASSUME NEW c \in Conns, Connect(c) PROVE LoginInv'
  BY <1>1, QuietStep DEF Connect, MappedHere, ConnectedFirst
<1>2. ASSUME NEW c \in Conns, SetPassword(c) PROVE LoginInv'
  BY <1>2, QuietStep DEF SetPassword, MappedHere, ConnectedFirst
<1>3. ASSUME NEW c \in Conns, LoginReply(c) PROVE LoginInv'
  <2>1. LoginTypes' /\ UNCHANGED <<notices, mapped>>
    BY <1>3 DEF LoginReply
  <2>1a. MappedHere'
    BY <2>1 DEF MappedHere
  <2>1b. ConnectedFirst'
    BY <1>3 DEF LoginReply, ConnectedFirst, Alive
  <2>2. \A k \in Conns : Accepted(k) => login'[k] \notin {"none", "publish"}
    BY <1>3 DEF LoginReply
  <2> QED
    BY <2>1, <2>1a, <2>1b, <2>2, QuietStep
<1>4. ASSUME NEW c \in Conns, MapConnection(c) PROVE LoginInv'
  BY <1>4, QuietStep, LoginAssumption DEF MapConnection, MappedHere, ConnectedFirst
<1>5. ASSUME NEW c \in Conns, Disconnect(c) PROVE LoginInv'
  BY <1>5, QuietStep DEF Disconnect, MappedHere, ConnectedFirst
<1>6. CASE UNCHANGED vars
  BY <1>6, QuietStep DEF vars, MappedHere, ConnectedFirst
<1> QED
  BY <1>1, <1>2, <1>3, <1>4, <1>5, <1>6, PublishKeeps, NotifyKeeps DEF Next

\* The invariant of the logins.
LEMMA LoginInvariant == Spec => []LoginInv
BY LoginInit, LoginNext, PTL DEF Spec

\* Neither the answer to a login nor its announcement closes the login's own connection, in whatever order they
\* come (processHallRequest, notifyUserLoginMessage).
THEOREM LoginsSpareThemselves == Spec => OnlyRivalsClose
<1> DEFINE Rivals == \A b \in Conns : conn[b] # "closing" /\ conn'[b] = "closing" =>
                        \E c \in Conns \ {b} : login[c] \notin {"none", "publish"}
<1>1. LoginInv /\ [Next]_vars => [Rivals]_vars
  <2> SUFFICES ASSUME LoginInv, Next, NEW b \in Conns, conn[b] # "closing", conn'[b] = "closing"
               PROVE  \E c \in Conns \ {b} : login[c] \notin {"none", "publish"}
    OBVIOUS
  <2>1. ASSUME NEW c \in Conns, LoginReply(c) PROVE \E k \in Conns \ {b} : login[k] \notin {"none", "publish"}
    <3>1. c # b /\ login[c] = "reply"
      BY <2>1 DEF LoginReply, LoginInv, LoginTypes
    <3> QED
      BY <3>1
  <2>2. ASSUME NEW p \in Proxies, notifyUserLoginMessage(p)
        PROVE  \E k \in Conns \ {b} : login[k] \notin {"none", "publish"}
    <3>1. /\ ~NotifiedItself(p, Head(notices[p])) /\ Locked(p) # Nobody
          /\ conn' = [conn EXCEPT ![Locked(p)] = "closing"]
      BY <2>2 DEF notifyUserLoginMessage, Closing
    <3>2. b = Locked(p) /\ Alive(b) /\ ProxyOf[b] = p
      BY <3>1 DEF Locked, LoginInv, LoginTypes, MappedHere
    <3>3. notices[p] \in Seq(Conns) /\ notices[p] # <<>> /\ Head(notices[p]) = notices[p][1]
      BY <2>2 DEF notifyUserLoginMessage, LoginInv, LoginTypes
    <3>4. 1 \in 1 .. Len(notices[p]) /\ notices[p][1] \in Conns
      BY <3>3, EmptySeq, LenProperties, ElementOfSeq
    <3>5. Head(notices[p]) \in Conns /\ Accepted(Head(notices[p]))
      BY <3>3, <3>4 DEF LoginInv, AnnouncedAccepted
    <3>6. Head(notices[p]) # b
      BY <3>1, <3>2 DEF NotifiedItself
    <3> QED
      BY <3>5, <3>6 DEF Accepted
  <2>3. ASSUME NEW c \in Conns, Connect(c) \/ PublishLogin(c) \/ SetPassword(c) \/ MapConnection(c) \/ Disconnect(c)
        PROVE  FALSE
    BY <2>3 DEF Connect, PublishLogin, SetPassword, MapConnection, Disconnect, LoginInv, LoginTypes
  <2> QED
    BY <2>1, <2>2, <2>3 DEF Next
<1> QED
  BY <1>1, LoginInvariant, PTL DEF Spec, OnlyRivalsClose
=============================================================================
