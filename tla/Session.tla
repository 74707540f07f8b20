------------------------------ MODULE Session ------------------------------
(***************************************************************************)
(* Who is online at the coordinator (koko_coordinate), over which          *)
(* connection, and in which channels (koko_coordinate.cpp, msg_client.cpp, *)
(* game_channel.cpp, koko_socket.cpp).                                     *)
(*                                                                         *)
(* A login is checked in the main loop and put on a list.  The database    *)
(* thread loads the user into a new player object, hooks the object and    *)
(* the connection to each other, and puts it on a second list, from where  *)
(* the main loop enters it into online_players.  Meanwhile the connection  *)
(* may close, send more, or log in again, and another connection may log   *)
(* in as the same user.                                                    *)
(*                                                                         *)
(* Connections and players point to each other weakly: a player object     *)
(* lives while a list, the database thread or online_players holds it.     *)
(* The socket library is not in the repository: a message that asks to     *)
(* close its connection behind it is taken to close it at once, and the    *)
(* messages picked up in one round to be handled before a close.           *)
(***************************************************************************)
EXTENDS Integers, SequencesExt

CONSTANTS
  Users,      \* uid_ of a player: of a user, apart from that of its PC
  Conns,      \* connections
  Channels,
  Sns,        \* the client's numbers of joins and leaves, 0 for any
  NoSn,       \* not in a channel's list
  MaxLogins,  \* bound: player objects
  MaxMsgs     \* bound: messages (logins, joins and leaves)

Pids == 1 .. MaxLogins
None == 0  \* no player, or no connection

ASSUME SessionAssumption ==
  /\ Sns \subseteq Nat /\ NoSn \notin Nat
  /\ None \notin Conns
  /\ {MaxLogins, MaxMsgs} \subseteq Nat

VARIABLES
  sock,     \* connections: open (and perhaps not used yet), closed, freed
  auth,     \* the authorized ones
  client,   \* the_client_ of each, an object that may be gone
  logins,   \* sub_thread_process_msg_lst_
  loading,  \* the database thread: its player object and the connection
  pending,  \* pending_login_users_
  players,  \* the player objects made so far
  online,   \* online_players
  room,     \* players_ of each channel, with the number of the join
  answered, \* history: the player whose login a connection was told of last
  unhooked, \* history: players that no connection can report as lost
  early,    \* history: users that acted before their login was handled
  stray,    \* history: entries of a channel made by a leave
  msgs      \* messages handled so far

connVars == <<sock, auth, client>>
listVars == <<logins, loading, pending>>
history == <<answered, unhooked, early, stray>>
vars == <<connVars, listVars, players, online, room, history, msgs>>

-----------------------------------------------------------------------------
Login == [conn : Conns, user : Users]

Player == [user : Users, conn : Conns \cup {None}, lost : BOOLEAN,
           in : SUBSET Channels]

Idle == [id |-> None, conn |-> None]

(* Somebody holds the object. *)
Held(p) ==
  p # None /\ (p = loading.id \/ p \in ToSet(pending) \/ p \in {online[u] : u \in Users})

(* the_client_.lock() and from_socket_.lock() *)
Client(c) == IF Held(client[c]) THEN client[c] ELSE None
Socket(p) == LET c == players[p].conn
             IN  IF c = None \/ sock[c] = "gone" THEN None ELSE c

Init ==
  /\ sock = [c \in Conns |-> "open"] /\ auth = {}
  /\ client = [c \in Conns |-> None]
  /\ logins = <<>> /\ loading = Idle /\ pending = <<>>
  /\ players = <<>>
  /\ online = [u \in Users |-> None]
  /\ room = [ch \in Channels |-> [u \in Users |-> NoSn]]
  /\ answered = [c \in Conns |-> None]
  /\ unhooked = {} /\ early = {} /\ stray = {}
  /\ msgs = 0

-----------------------------------------------------------------------------
(* Connections *)

(* Variant: only the library's close is called. *)
MarkLostNot(ps, c) == ps

(* koko_socket::close marks the player that the connection points to. *)
MarkLost(ps, c) ==
  IF Client(c) = None THEN ps ELSE [ps EXCEPT ![Client(c)].lost = TRUE]

(* By the client, or by the server, as for a message without authority. *)
Close(c) ==
  /\ sock[c] = "open"
  /\ sock' = [sock EXCEPT ![c] = "closed"]
  /\ players' = MarkLost(players, c)
  /\ UNCHANGED <<auth, client, listVars, online, room, history, msgs>>

(* The last reference is gone; a message holds one to its connection. *)
Free(c) ==
  /\ sock[c] = "closed"
  /\ loading.conn # c /\ \A i \in DOMAIN logins : logins[i].conn # c
  /\ sock' = [sock EXCEPT ![c] = "gone"]
  /\ UNCHANGED <<auth, client, listVars, players, online, room, history, msgs>>

-----------------------------------------------------------------------------
(* Logins *)

(* msg_user_login_channel with a valid token; others change nothing. *)
LoginChannel(c, u) ==
  /\ sock[c] = "open"
  /\ Len(players) + Len(logins) < MaxLogins
  /\ msgs < MaxMsgs /\ msgs' = msgs + 1
  /\ logins' = Append(logins, [conn |-> c, user |-> u])
  /\ UNCHANGED <<connVars, loading, pending, players, online, room, history>>

(* The database thread, which takes one login at a time. *)
Load ==
  /\ loading = Idle /\ logins # <<>>
  /\ logins' = Tail(logins)
  /\ players' = Append(players, [user |-> Head(logins).user, conn |-> None,
                                 lost |-> FALSE, in |-> {}])
  /\ loading' = [id |-> Len(players) + 1, conn |-> Head(logins).conn]
  /\ UNCHANGED <<connVars, pending, online, room, history, msgs>>

LoadFails ==
  /\ loading = Idle /\ logins # <<>>
  /\ logins' = Tail(logins)
  /\ UNCHANGED <<connVars, loading, pending, players, online, room, history, msgs>>

LetGo == Idle

(* The connection and the object point to each other.  From here on a      *)
(* close of the connection reaches this object and no other; a close that  *)
(* came before has reached nobody.                                         *)
Hook ==
  LET p == loading.id
      c == loading.conn
  IN  /\ loading # Idle
      /\ auth' = auth \cup {c}
      /\ players' = [players EXCEPT ![p].conn = c]
      /\ client' = [client EXCEPT ![c] = p]
      /\ pending' = Append(pending, p)
      /\ unhooked' = unhooked \cup (IF sock[c] = "open" THEN {} ELSE {p})
                              \cup ({Client(c)} \ {None})
      /\ loading' = LetGo
      /\ UNCHANGED <<sock, logins, online, room, answered, early, stray, msgs>>

-----------------------------------------------------------------------------
(* handle_pending_logins *)

(* The client is told, if its connection still exists. *)
Told(p) == [c \in Conns |-> IF c = Socket(p) THEN p ELSE answered[c]]

Arrives(p, u) ==
  pending # <<>> /\ p = Head(pending) /\ u = players[p].user

FirstLogin(p, u) ==
  /\ Arrives(p, u)
  /\ online[u] = None
  /\ pending' = Tail(pending)
  /\ online' = [online EXCEPT ![u] = p]
  /\ answered' = Told(p)
  /\ UNCHANGED <<connVars, logins, loading, players, room, unhooked, early, stray, msgs>>

(* Variant: looked at before it is taken from the list. *)
RepeatedLoginStays(p, u) ==
  /\ Arrives(p, u)
  /\ online[u] # None /\ Socket(online[u]) = Socket(p)
  /\ UNCHANGED vars

(* The connection of the one who is online, or neither has one: nothing is *)
(* done, and the new object disappears.                                    *)
RepeatedLogin(p, u) ==
  /\ Arrives(p, u)
  /\ online[u] # None /\ Socket(online[u]) = Socket(p)
  /\ pending' = Tail(pending)
  /\ UNCHANGED <<connVars, logins, loading, players, online, room, history, msgs>>

(* Variant: the other connection is told and stays open. *)
KickedNot(c) == UNCHANGED sock

Kicked(c) ==
  sock' = IF c = None THEN sock ELSE [sock EXCEPT ![c] = "closed"]

(* The new object joins the channels of the one it replaces.  The close of *)
(* the other connection comes while the replaced object exists.            *)
Relogin(p, u) ==
  LET q == online[u]
      in == players[q].in
      left == IF Socket(q) = None \/ sock[Socket(q)] # "open" THEN players
              ELSE MarkLost(players, Socket(q))
  IN  /\ Arrives(p, u)
      /\ q # None /\ Socket(q) # Socket(p)
      /\ pending' = Tail(pending)
      /\ Kicked(Socket(q))
      /\ players' = [left EXCEPT ![p].in = @ \cup in]
      /\ room' = [ch \in Channels |->
                    IF ch \in in THEN [room[ch] EXCEPT ![u] = 0] ELSE room[ch]]
      /\ online' = [online EXCEPT ![u] = p]
      /\ answered' = Told(p)
      /\ UNCHANGED <<auth, client, logins, loading, unhooked, early, stray, msgs>>

-----------------------------------------------------------------------------
(* Channels *)

(* A message that needs authority, from a connection with a player. *)
Acts(c, p) ==
  /\ sock[c] = "open" /\ c \in auth
  /\ p = Client(c) /\ p # None
  /\ msgs < MaxMsgs /\ msgs' = msgs + 1
  /\ early' = early \cup (IF online[players[p].user] = p THEN {}
                          ELSE {players[p].user})

Join(c, ch, sn) ==
  \E p \in Pids :
    LET u == players[p].user
    IN  /\ Acts(c, p)
        /\ players' = [players EXCEPT ![p].in = @ \cup {ch}]
        /\ room' = [room EXCEPT ![ch][u] = sn]
        /\ stray' = stray \ {<<ch, u>>}
        /\ UNCHANGED <<connVars, listVars, online, answered, unhooked>>

Current(ch, u, sn) == sn = 0 \/ room[ch][u] = sn

Leave(c, ch, sn) ==
  \E p \in Pids :
    LET u == players[p].user
    IN  /\ Acts(c, p)
        /\ Current(ch, u, sn)
        /\ players' = [players EXCEPT ![p].in = @ \ {ch}]
        /\ room' = [room EXCEPT ![ch][u] = NoSn]
        /\ stray' = stray \ {<<ch, u>>}
        /\ UNCHANGED <<connVars, listVars, online, answered, unhooked>>

(* The number is compared with players_[uid], which makes an entry.        *)
StaleLeave(c, ch, sn) ==
  \E p \in Pids :
    LET u == players[p].user
        absent == room[ch][u] = NoSn
    IN  /\ Acts(c, p)
        /\ ~Current(ch, u, sn)
        /\ room' = [room EXCEPT ![ch][u] = IF absent THEN 0 ELSE @]
        /\ stray' = stray \cup (IF absent THEN {<<ch, u>>} ELSE {})
        /\ UNCHANGED <<connVars, listVars, players, online, answered, unhooked>>

-----------------------------------------------------------------------------
(* update_players *)

(* Five seconds after connect_lost_tick_, which is set at the login: it    *)
(* may be long ago when the connection is lost, so no time is assumed.     *)
Expired(p) == players[p].lost

(* Variant: the player's own list is emptied only. *)
RoomsWithoutNobody(u, chs) == room

RoomsWithout(u, chs) ==
  [ch \in Channels |-> IF ch \in chs THEN [room[ch] EXCEPT ![u] = NoSn] ELSE room[ch]]

RemoveLost(u) ==
  LET p == online[u]
  IN  /\ p # None /\ Expired(p)
      /\ room' = RoomsWithout(u, players[p].in)
      /\ players' = [players EXCEPT ![p].in = {}]
      /\ online' = [online EXCEPT ![u] = None]
      /\ stray' = stray \ ({ch \in Channels : ch \in players[p].in} \X {u})
      /\ UNCHANGED <<connVars, listVars, answered, unhooked, early, msgs>>

-----------------------------------------------------------------------------
HandlePending ==
  \E u \in Users, p \in Pids :
    FirstLogin(p, u) \/ RepeatedLogin(p, u) \/ Relogin(p, u)

Next ==
  \/ \E c \in Conns : Close(c) \/ Free(c)
  \/ \E c \in Conns, u \in Users : LoginChannel(c, u)
  \/ Load \/ LoadFails \/ Hook
  \/ HandlePending
  \/ \E c \in Conns, ch \in Channels, sn \in Sns :
       Join(c, ch, sn) \/ Leave(c, ch, sn) \/ StaleLeave(c, ch, sn)
  \/ \E u \in Users : RemoveLost(u)

Spec == Init /\ [][Next]_vars

(* Both threads loop without a condition; time passes. *)
Fairness ==
  /\ WF_vars(Load) /\ WF_vars(Hook)
  /\ WF_vars(HandlePending)
  /\ \A u \in Users : WF_vars(RemoveLost(u))

FairSpec == Spec /\ Fairness

-----------------------------------------------------------------------------
(* Properties *)

(* The variables' types; an object is with one holder. *)
TypeOK ==
  /\ sock \in [Conns -> {"open", "closed", "gone"}]
  /\ auth \subseteq Conns
  /\ client \in [Conns -> Pids \cup {None}]
  /\ logins \in Seq(Login)
  /\ loading = Idle \/ loading \in [id : Pids, conn : Conns]
  /\ players \in Seq(Player) /\ Len(players) <= MaxLogins
  /\ pending \in Seq(Pids) /\ IsInjective(pending)
  /\ online \in [Users -> Pids \cup {None}]
  /\ ToSet(pending) \cap {online[u] : u \in Users} = {}
  /\ loading.id \notin ToSet(pending)
  /\ room \in [Channels -> [Users -> Sns \cup {0, NoSn}]]
  /\ msgs \in 0 .. MaxMsgs

(* A user is served over one connection: an open connection that was told  *)
(* of its login is the one of the player who is online (a relogin replaces *)
(* the player and closes the other connection, in one step).               *)
OneConnection ==
  \A c \in Conns :
    sock[c] = "open" /\ answered[c] # None =>
      LET p == answered[c]
      IN  online[players[p].user] = p /\ players[p].conn = c

(* With the types of the variables. *)
SessionInv == TypeOK /\ OneConnection

(* A channel's list and the players' lists agree, through relogins, drops  *)
(* and removals: who is in the channel's is online and knows it, and the   *)
(* other way round.  Except for a user that acted on a connection whose    *)
(* login was not handled yet, and an entry that a stale leave made.        *)
ChannelsAgree ==
  \A ch \in Channels, u \in Users \ early :
    <<ch, u>> \notin stray =>
      (room[ch][u] # NoSn <=> online[u] # None /\ ch \in players[online[u]].in)

Online(p) == p \in {online[u] : u \in Users}

(* Who lost the connection goes offline, or is replaced; unless the close  *)
(* came before the database thread hooked the player to the connection, or *)
(* another login of the same connection took the player's place there.     *)
LostPlayerLeaves ==
  \A p \in Pids :
    Online(p) /\ sock[players[p].conn] # "open" /\ p \notin unhooked ~> ~Online(p)

(* The logins a connection asked for come to an end, also behind a login   *)
(* that handle_pending_logins does not process.                            *)
UnderWay(c) ==
  \/ \E i \in DOMAIN logins : logins[i].conn = c
  \/ loading.conn = c
  \/ \E i \in DOMAIN pending : players[pending[i]].conn = c

LoginEnds == \A c \in Conns : UnderWay(c) ~> ~UnderWay(c)

=============================================================================
