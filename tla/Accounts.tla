------------------------------ MODULE Accounts ------------------------------
(***************************************************************************)
(* Logins at the account server (koko_center): the flag is_online of the   *)
(* database, and the flag that keeps a connection from asking twice        *)
(* (koko_center.cpp, msg_client.cpp, player.cpp, koko_socket.cpp).         *)
(*                                                                         *)
(* The main loop handles messages, enters users that were loaded, and      *)
(* takes out those whose connection is lost.  The database thread          *)
(* executes the delayed statements that wait, then one login, and so on.   *)
(* The module Session has what the two have in common with the             *)
(* coordinator; here the database is what counts.                          *)
(***************************************************************************)
EXTENDS Integers, SequencesExt

CONSTANTS
  Users,
  Conns,      \* connections; one that is gone makes room for another
  Pids,       \* bound: player objects that exist at a time
  None,       \* no player, no connection, or no user
  MaxMsgs,    \* bound: messages of the clients
  MaxFaults   \* bound: failed statements and crashes

ASSUME AccountsAssumption ==
  /\ None \notin Users \cup Conns \cup Pids
  /\ MaxMsgs \in Nat /\ MaxFaults \in Nat

VARIABLES
  sock,       \* connections: open, closed (and still held), gone
  client,     \* the_client_ of each, None when its object is gone
  isLogin,  \* is_login_, is_register_: the connections that have it
  tasks,      \* sub_thread_process_msg_lst_
  thread,     \* the database thread: its step, message and player object
  pending,    \* pending_login_users_
  players,    \* the player objects, Gone for a free one
  online,     \* online_players
  queued,     \* delayed statements
  batch,      \* those that the database thread has taken
  isOnline,   \* user_account.is_online: the users that have it
  raced,      \* history: users marked offline while they logged in
  leftover,   \* history: users left marked by a fault
  msgs, faults \* counters for the bounds

connVars == <<sock, client, isLogin>>
memory == <<tasks, thread, pending, players, online>>
statements == <<queued, batch>>
history == <<raced, leftover>>
vars == <<connVars, memory, statements, isOnline, history, msgs, faults>>

-----------------------------------------------------------------------------
Kinds == {"login", "token"}
Message == [kind : Kinds, conn : Conns, user : Users]

(* `old': 5 seconds have passed since connect_lost_tick_. *)
Player == [user : Users, conn : Conns \cup {None}, lost : BOOLEAN, old : BOOLEAN,
           marks : BOOLEAN]

Steps == {"free", "loaded", "hooked"}
NoMsg == [kind |-> "none", conn |-> None]
Idle == [step |-> "free", msg |-> NoMsg, id |-> None]

Gone == [user |-> None, conn |-> None, lost |-> FALSE, old |-> FALSE,
         marks |-> FALSE]

(* The object p is not needed any more, and no connection points to it. *)
Without(p, ps) == [ps EXCEPT ![p] = Gone]
Cleared(p) == [c \in Conns |-> IF client[c] = p THEN None ELSE client[c]]

(* from_socket_.lock() *)
Socket(p) == players[p].conn

Init ==
  /\ sock = [c \in Conns |-> "gone"]
  /\ client = [c \in Conns |-> None] /\ isLogin = {}
  /\ tasks = <<>> /\ thread = Idle /\ pending = <<>>
  /\ players = [p \in Pids |-> Gone] /\ online = [u \in Users |-> None]
  /\ queued = {} /\ batch = {}
  /\ isOnline = {}
  /\ raced = {} /\ leftover = {}
  /\ msgs = 0 /\ faults = 0

-----------------------------------------------------------------------------
(* Connections *)

(* koko_socket::close marks the player that the connection points to. *)
MarkLost(ps, c) ==
  IF client[c] = None THEN ps ELSE [ps EXCEPT ![client[c]].lost = TRUE]

Close(c) ==
  /\ sock[c] = "open"
  /\ sock' = [sock EXCEPT ![c] = "closed"]
  /\ players' = MarkLost(players, c)
  /\ UNCHANGED <<client, isLogin, tasks, thread, pending, online, statements,
                 isOnline, history, msgs, faults>>

(* The last reference is gone; a message holds one to its connection. *)
Free(c) ==
  /\ sock[c] = "closed"
  /\ thread.msg.conn # c
  /\ \A i \in DOMAIN tasks : tasks[i].conn # c
  /\ sock' = [sock EXCEPT ![c] = "gone"]
  /\ players' = [p \in Pids |->
                   IF players[p].conn = c THEN [players[p] EXCEPT !.conn = None]
                   ELSE players[p]]
  /\ client' = [client EXCEPT ![c] = None]
  /\ isLogin' = isLogin \ {c}
  /\ UNCHANGED <<tasks, thread, pending, online, statements, isOnline, raced,
                 leftover, msgs, faults>>

(* One that no message will come from is left out. *)
Connect(c) ==
  /\ sock[c] = "gone" /\ msgs < MaxMsgs
  /\ sock' = [sock EXCEPT ![c] = "open"]
  /\ UNCHANGED <<client, isLogin, memory, statements, isOnline, history, msgs,
                 faults>>

-----------------------------------------------------------------------------
(* Messages, in the main loop *)

Counted == msgs < MaxMsgs /\ msgs' = msgs + 1

Push(kind, c, u) ==
  /\ Counted
  /\ tasks' = Append(tasks, [kind |-> kind, conn |-> c, user |-> u])

(* msg_user_login and msg_mobile_login *)
LoginMsg(c, u) ==
  /\ sock[c] = "open" /\ c \notin isLogin
  /\ isLogin' = isLogin \cup {c}
  /\ Push("login", c, u)
  /\ UNCHANGED <<sock, client, thread, pending, players, online, statements,
                 isOnline, history, faults>>

(* msg_token_login, of a client that has a token *)
TokenMsg(c, u) ==
  /\ sock[c] = "open"
  /\ Push("token", c, u)
  /\ UNCHANGED <<connVars, thread, pending, players, online, statements,
                 isOnline, history, faults>>

-----------------------------------------------------------------------------
(* The database thread *)

(* pop_and_execute, at the beginning of every round of the thread *)
NextRound ==
  /\ thread' = Idle
  /\ batch' = queued /\ queued' = {}

Grab ==
  /\ thread = Idle /\ batch = {} /\ queued # {}
  /\ NextRound
  /\ UNCHANGED <<connVars, tasks, pending, players, online, isOnline, history,
                 msgs, faults>>

ExecOffline(u) ==
  /\ u \in batch /\ batch' = batch \ {u}
  /\ isOnline' = isOnline \ {u} /\ leftover' = leftover \ {u}
  /\ UNCHANGED <<connVars, memory, queued, raced, msgs, faults>>

ExecFails ==
  /\ faults < MaxFaults /\ faults' = faults + 1
  /\ \E x \in batch :
       /\ batch' = batch \ {x}
       /\ leftover' = leftover \cup {x}
  /\ UNCHANGED <<connVars, memory, queued, isOnline, raced, msgs>>

(* db_thread_func_2: one message for each round, when the batch is done *)
Takes(kinds) ==
  /\ thread = Idle /\ batch = {}
  /\ tasks # <<>> /\ Head(tasks).kind \in kinds /\ tasks' = Tail(tasks)

(* An object that somebody holds, and is not yet entered. *)
Entering(u) ==
  \E p \in {thread.id} \cup ToSet(pending) : p # None /\ players[p].user = u

Room == \E p \in Pids : players[p] = Gone
NewPid == CHOOSE p \in Pids : players[p] = Gone

(* load_user_from_db, and load_user_by_uid, which does not mark the user. *)
Load ==
  LET msg == Head(tasks)
      u == msg.user
      marks == msg.kind = "login"
  IN  /\ Takes({"login", "token"})
      /\ Room
      /\ players' = [players EXCEPT ![NewPid] = [Gone EXCEPT !.user = u,
                                                            !.marks = marks]]
      /\ thread' = [step |-> "loaded", msg |-> msg, id |-> NewPid]
      /\ isOnline' = IF marks THEN isOnline \cup {u} ELSE isOnline
      /\ raced' = IF u \in queued THEN raced \cup {u}
                  ELSE IF marks THEN raced \ {u} ELSE raced
      /\ UNCHANGED <<sock, client, isLogin, pending, online, statements,
                     leftover, msgs, faults>>

(* Variant: the flag is kept. *)
RefusedKeeps(c) == isLogin

Refused(c) == isLogin \ {c}

(* No such user, a wrong password, a ban. *)
LoadFails ==
  /\ Takes({"login", "token"})
  /\ isLogin' = IF Head(tasks).kind = "login" THEN Refused(Head(tasks).conn) ELSE isLogin
  /\ NextRound
  /\ UNCHANGED <<sock, client, pending, players, online, isOnline, history,
                 msgs, faults>>

Hook ==
  LET c == thread.msg.conn
  IN  /\ thread.step = "loaded" /\ thread' = [thread EXCEPT !.step = "hooked"]
      /\ players' = [players EXCEPT ![thread.id].conn = c]
      /\ client' = [client EXCEPT ![c] = thread.id]
      /\ UNCHANGED <<sock, isLogin, tasks, pending, online, statements,
                     isOnline, history, msgs, faults>>

(* After the push a login by password may still be refused. *)
Enlist ==
  /\ thread.step = "hooked" /\ NextRound
  /\ pending' = Append(pending, thread.id)
  /\ \/ UNCHANGED isLogin
     \/ thread.msg.kind = "login" /\ isLogin' = Refused(thread.msg.conn)
  /\ UNCHANGED <<sock, client, tasks, players, online, isOnline, history, msgs,
                 faults>>

-----------------------------------------------------------------------------
(* The rest of the main loop *)

Restarted(saved) ==
  /\ sock' = [c \in Conns |-> "gone"]
  /\ client' = [c \in Conns |-> None] /\ isLogin' = {}
  /\ tasks' = <<>> /\ thread' = Idle /\ pending' = <<>>
  /\ players' = [p \in Pids |-> Gone] /\ online' = [u \in Users |-> None]
  /\ queued' = {} /\ batch' = {}
  /\ isOnline' = isOnline \ saved
  /\ leftover' = isOnline'
  /\ UNCHANGED raced

(* handle_pending_logins *)
Pending(p, u) == pending # <<>> /\ p = Head(pending) /\ u = players[p].user

Picked(p) == pending' = Tail(pending)
Released(p) == isLogin' = isLogin \ {Socket(p)}

EnterFirst(p, u) ==
  /\ Pending(p, u) /\ online[u] = None
  /\ Picked(p) /\ Released(p)
  /\ online' = [online EXCEPT ![u] = p]
  /\ UNCHANGED <<sock, client, tasks, thread, players, statements, isOnline,
                 history, msgs, faults>>

(* The same connection: answered, and the new object is dropped. *)
EnterAgain(p, u) ==
  /\ Pending(p, u) /\ online[u] # None
  /\ Socket(online[u]) = Socket(p) /\ Socket(p) # None
  /\ Picked(p) /\ Released(p)
  /\ players' = Without(p, players) /\ client' = Cleared(p)
  /\ UNCHANGED <<sock, tasks, thread, online, statements, isOnline, history,
                 msgs, faults>>

(* Variant: the object that is replaced goes through the flow. *)
ReplacedFlows(u) == {u}

(* The one that is replaced is gone without a trace. *)
Replaced(u) == {}

(* Another connection: it is closed. *)
EnterInstead(p, u) ==
  LET q == online[u]
      old == Socket(q)
  IN  /\ Pending(p, u) /\ q # None /\ old # Socket(p)
      /\ Picked(p) /\ Released(p)
      /\ online' = [online EXCEPT ![u] = p]
      /\ IF old # None /\ sock[old] = "open"
         THEN /\ sock' = [sock EXCEPT ![old] = "closed"]
              /\ players' = Without(q, MarkLost(players, old))
         ELSE UNCHANGED sock /\ players' = Without(q, players)
      /\ client' = Cleared(q)
      /\ queued' = queued \cup Replaced(u)
      /\ UNCHANGED <<tasks, thread, batch, isOnline, history, msgs, faults>>

(* Neither connection is there: `conn->is_login_' of no connection. *)
EnterCrash(p, u) ==
  /\ Pending(p, u) /\ online[u] # None
  /\ Socket(online[u]) = None /\ Socket(p) = None
  /\ Restarted(queued)
  /\ UNCHANGED <<msgs, faults>>

HandlePending ==
  \E p \in ToSet(pending), u \in Users :
    EnterFirst(p, u) \/ EnterAgain(p, u) \/ EnterInstead(p, u) \/ EnterCrash(p, u)

(* Time is told only for those for whom it counts. *)
Age(u) ==
  LET p == online[u]
  IN  /\ p # None /\ players[p].lost /\ ~players[p].old
      /\ players' = [players EXCEPT ![p].old = TRUE]
      /\ UNCHANGED <<connVars, tasks, thread, pending, online, statements,
                     isOnline, history, msgs, faults>>

(* koko_player::connection_lost *)
Flow(u) == {u}

(* connect_lost_tick_ is the time of the login, not of the loss. *)
Lost(p) == players[p].lost /\ players[p].old

(* update_players *)
Sweep(u) ==
  LET p == online[u]
  IN  /\ p # None /\ Lost(p)
      /\ online' = [online EXCEPT ![u] = None]
      /\ players' = Without(p, players) /\ client' = Cleared(p)
      /\ queued' = queued \cup Flow(u)
      /\ raced' = IF Entering(u) THEN raced \cup {u} ELSE raced
      /\ UNCHANGED <<sock, isLogin, tasks, thread, pending, batch, isOnline,
                     leftover, msgs, faults>>

(* Killed, or stopped: clean() executes the statements that wait. *)
Crash ==
  /\ faults < MaxFaults /\ faults' = faults + 1
  /\ Restarted({}) \/ Restarted(queued)
  /\ UNCHANGED msgs

-----------------------------------------------------------------------------
Next ==
  \/ \E c \in Conns : \/ Close(c) \/ Free(c) \/ Connect(c)
                      \/ \E u \in Users : LoginMsg(c, u) \/ TokenMsg(c, u)
  \/ Grab \/ ExecFails \/ Load \/ LoadFails \/ Hook \/ Enlist
  \/ \E u \in Users : ExecOffline(u) \/ Sweep(u) \/ Age(u)
  \/ HandlePending \/ Crash

Spec == Init /\ [][Next]_vars

(* Both loops go on; a round of the database thread takes one message when *)
(* the statements are done, however many come meanwhile.                   *)
FairSpec ==
  /\ Spec
  /\ WF_vars(HandlePending)
  /\ WF_vars(\E u \in Users : ExecOffline(u))
  /\ WF_vars(Hook) /\ WF_vars(Enlist) /\ SF_vars(Load \/ LoadFails)

-----------------------------------------------------------------------------
(* Properties *)

TypeOK ==
  /\ sock \in [Conns -> {"open", "closed", "gone"}]
  /\ isLogin \subseteq Conns
  /\ client \in [Conns -> Pids \cup {None}]
  /\ tasks \in Seq(Message) /\ players \in [Pids -> Player \cup {Gone}]
  /\ thread.step \in Steps /\ thread.msg \in Message \cup {NoMsg}
  /\ thread.id \in Pids \cup {None}
  /\ pending \in Seq(Pids) /\ online \in [Users -> Pids \cup {None}]
  /\ queued \cup batch \cup isOnline \cup raced \cup leftover \subseteq Users
  /\ msgs \in 0 .. MaxMsgs /\ faults \in 0 .. MaxFaults

(* A connected user who logged in by password is marked in the database,   *)
(* unless the flow of an object that he had before was begun while his     *)
(* login was being handled, or its statement then still waited.            *)
OnlineMarked ==
  \A u \in Users :
    LET p == online[u]
    IN  p # None /\ players[p].marks /\ ~players[p].lost => u \in isOnline \cup raced

(* A user who is not online, whose login is not under way and of whom no   *)
(* statement waits, is not marked, save one that a fault left marked.      *)
GoneUnmarked ==
  \A u \in isOnline \ leftover :
    online[u] # None \/ Entering(u) \/ u \in queued \cup batch

(* The flag is_online tells who is online; with the types of the variables. *)
MarkInv == TypeOK /\ OnlineMarked /\ GoneUnmarked

(* A connection that has asked by password may ask again at some time,     *)
(* whatever became of its login, unless it is closed.                      *)
FlagsReleased ==
  \A c \in Conns : c \in isLogin ~> c \notin isLogin \/ sock[c] # "open"
=============================================================================
