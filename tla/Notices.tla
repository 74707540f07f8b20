------------------------------ MODULE Notices ------------------------------
(***************************************************************************)
(* How servers tell each other of changed amounts and of broadcasts: rows  *)
(* of two tables, read and deleted by a task every five seconds            *)
(* (task_on_5sec of koko_coordinate.cpp and koko_center.cpp, common.cpp).  *)
(*                                                                         *)
(* A server that changes an amount leaves a note for every server; the     *)
(* task of each finds it, asks for the amount and sends it to the player.  *)
(* A broadcast leaves a row for every server, sent to all it has online.   *)
(* Statements wait in the delayed queue, are executed in any order, and    *)
(* their callbacks run in the order of execution.                          *)
(*                                                                         *)
(* One item of one player, who may be online at every server.  The task's  *)
(* work on the two tables has nothing in common but the queue, which is    *)
(* executed in any order: a behaviour follows one of the tables, `table'.  *)
(***************************************************************************)
EXTENDS Integers, SequencesExt, BagsExt

CONSTANTS
  Servers,    \* coordinators
  Center,     \* the account server, whose task does not use the queue
  Homes,      \* where the player logs in
  MaxEvents,  \* bound: changes of the amount, broadcasts and faults
  MaxRounds   \* bound: unfinished statements when a round begins

Sites == Servers \cup {Center}

ASSUME NoticesAssumption ==
  /\ Center \notin Servers /\ Homes \subseteq Sites
  /\ {MaxEvents, MaxRounds} \subseteq Nat

VARIABLES
  table,    \* the table this behaviour follows: it does not change
  amount,   \* the item's count in the database
  notes,    \* user_item_changes: row ids for each server
  casts,    \* system_allserver_broadcast: row ids for each server
  opening,  \* an INSERT of a broadcast that has its id and is not yet seen
  nextNote, \* row ids, which only grow: those for one server are compared
  nextCast, \*   with each other and with no others
  onlineAt, \* where the player is online
  shown,    \* the count his client was sent last, 0 for none
  stmts,    \* delayed statements of each server, in a bag
  results,  \* executed ones, whose callbacks have not run
  missed,   \* history: a note or an answer was lost by a fault
  heard,    \* history: broadcast rows each server has sent
  gone,     \* history: broadcast rows deleted
  late,     \* history: rows seen after a greater one for the same server
  events    \* counter for the bound

tables == <<table, amount, notes, casts, opening, nextNote, nextCast>>
clients == <<onlineAt, shown>>
queues == <<stmts, results>>
past == <<missed, heard, gone, late>>
noticeVars == <<tables, clients, queues, past, events>>

NoRow == [id |-> 0, to |-> Center]

(* A statement; `ids' are the rows it is about, or the value it has read. *)
Stmt(op, to, ids) == [op |-> op, to |-> to, ids |-> ids]
Writes == {"change", "note", "cast"}
Rounds == {"notes", "forget", "sync", "casts", "clear"}
Ops == Writes \cup Rounds
Stmts == [op : Ops, to : Sites, ids : SUBSET Nat]

NoticeInit ==
  /\ table \in {"user_item_changes", "system_allserver_broadcast"}
  /\ amount = 1
  /\ notes = [s \in Sites |-> {}] /\ casts = [s \in Servers |-> {}]
  /\ opening = [s \in Sites |-> NoRow]
  /\ nextNote = [s \in Sites |-> 1] /\ nextCast = [s \in Servers |-> 1]
  /\ onlineAt = [s \in Sites |-> FALSE] /\ shown = [s \in Sites |-> 0]
  /\ stmts = [s \in Sites |-> EmptyBag] /\ results = [s \in Sites |-> <<>>]
  /\ missed = FALSE
  /\ heard = [s \in Servers |-> {}] /\ gone = [s \in Servers |-> {}]
  /\ late = [s \in Servers |-> {}]
  /\ events = 0

(* `sqls' is a set of different statements. *)
Queue(s, sqls) == stmts' = [stmts EXCEPT ![s] = @ (+) SetToBag(sqls)]

(* What earlier rounds and logins have asked for and is not done. *)
Unfinished(s) ==
  Cardinality({x \in DOMAIN stmts[s] : x.op \in Rounds}) +
  Cardinality({i \in DOMAIN results[s] : results[s][i].op \in Rounds})

-----------------------------------------------------------------------------
(* What happens at a server *)

Happens == events < MaxEvents /\ events' = events + 1

(* Variant: the list of servers is empty, as for the gift of a new account. *)
NoteCenter(s) == {Stmt("note", Center, {})}

(* save_item_update_result: a note for every server *)
NoteAll(s) == {Stmt("note", t, {}) : t \in Sites}

(* update_user_item: on the connection of the main loop. *)
ChangeNow(s) ==
  /\ table = "user_item_changes" /\ Happens
  /\ amount' = amount + 1
  /\ Queue(s, NoteAll(s))
  /\ UNCHANGED <<table, notes, casts, opening, nextNote, nextCast, clients, results,
                 past>>

(* update_user_item_async, of the coordinators *)
Change(s) ==
  /\ table = "user_item_changes" /\ Happens
  /\ Queue(s, {Stmt("change", s, {})})
  /\ UNCHANGED <<tables, clients, results, past>>

(* msg_server_broadcast: a row for every coordinator. *)
Broadcast(s) ==
  /\ table = "system_allserver_broadcast" /\ Happens
  /\ Queue(s, {Stmt("cast", t, {}) : t \in Servers})
  /\ UNCHANGED <<tables, clients, results, past>>

(* handle_pending_logins sends all items: the player is entered first. *)
Login(s) ==
  /\ table = "user_item_changes" /\ ~onlineAt[s]
  /\ Unfinished(s) < MaxRounds
  /\ onlineAt' = [onlineAt EXCEPT ![s] = TRUE]
  /\ shown' = [shown EXCEPT ![s] = 0]
  /\ Queue(s, {Stmt("sync", s, {})})
  /\ UNCHANGED <<tables, results, past, events>>

Logout(s) ==
  /\ onlineAt[s]
  /\ onlineAt' = [onlineAt EXCEPT ![s] = FALSE]
  /\ UNCHANGED <<tables, shown, queues, past, events>>

(* task_on_5sec::routine of a coordinator *)
Task(s) ==
  LET select == IF table = "user_item_changes" THEN "notes" ELSE "casts"
  IN  /\ Unfinished(s) < MaxRounds
      /\ Queue(s, {Stmt(select, s, {})})
      /\ UNCHANGED <<tables, clients, results, past, events>>

(* sync_user_item, for a player who is there. *)
SyncItem(s) == IF onlineAt[s] THEN {Stmt("sync", s, {})} ELSE {}

(* The account server's: read, asked for and deleted in one go. *)
CenterTask ==
  /\ notes[Center] # {} /\ Unfinished(Center) < MaxRounds
  /\ notes' = [notes EXCEPT ![Center] = {}]
  /\ Queue(Center, SyncItem(Center))
  /\ UNCHANGED <<table, amount, casts, opening, nextNote, nextCast, clients, results,
                 past, events>>

-----------------------------------------------------------------------------
(* The database thread executes a statement x of those that wait. *)

Executed(s, x) == stmts' = [stmts EXCEPT ![s] = BagRemove(@, x)]
Answers(s, res) == results' = [results EXCEPT ![s] = Append(@, res)]

(* Variant: all notes of the server. *)
ForgottenAll(s, rows) == notes[s]

(* The rows that were read. *)
Forgotten(s, rows) == notes[s] \cap rows

(* Variant: all rows of the server. *)
ClearedAll(s, upto) == casts[s]

(* The rows up to the greatest that was read. *)
ClearedRows(s, upto) == {r \in casts[s] : \E m \in upto : r <= m}

(* A note replaces the one for the same item and server. *)
WriteNote(s, x) ==
  /\ x.op = "note"
  /\ notes' = [notes EXCEPT ![x.to] = {nextNote[x.to]}]
  /\ nextNote' = [nextNote EXCEPT ![x.to] = @ + 1]
  /\ UNCHANGED <<table, amount, casts, opening, nextCast, results, past>>

MakeChange(s, x) ==
  /\ x.op = "change"
  /\ amount' = amount + 1
  /\ Answers(s, x)
  /\ UNCHANGED <<table, notes, casts, opening, nextNote, nextCast, past>>

(* A SELECT *)
Found(s, op) ==
  CASE op = "notes" -> notes[s]
    [] op = "casts" -> casts[s]
    [] op = "sync"  -> {amount}

Select(s, x) ==
  /\ x.op \in {"notes", "casts", "sync"}
  /\ Answers(s, [x EXCEPT !.ids = Found(s, x.op)])
  /\ UNCHANGED <<tables, past>>

Forget(s, x) ==
  /\ x.op = "forget"
  /\ notes' = [notes EXCEPT ![s] = @ \ Forgotten(s, x.ids)]
  /\ UNCHANGED <<table, amount, casts, opening, nextNote, nextCast, results, past>>

Clear(s, x) ==
  /\ x.op = "clear"
  /\ casts' = [casts EXCEPT ![s] = @ \ ClearedRows(s, x.ids)]
  /\ gone' = [gone EXCEPT ![s] = @ \cup ClearedRows(s, x.ids)]
  /\ UNCHANGED <<table, amount, notes, opening, nextNote, nextCast, results, missed,
                 heard, late>>

(* An INSERT takes its id, and is seen by the others when it is committed. *)
OpenCast(s, x) ==
  /\ x.op = "cast"
  /\ opening' = [opening EXCEPT ![s] = [id |-> nextCast[x.to], to |-> x.to]]
  /\ nextCast' = [nextCast EXCEPT ![x.to] = @ + 1]
  /\ UNCHANGED <<table, amount, notes, casts, nextNote, results, past>>

(* A failed statement: the callbacks of SELECTs do nothing then. *)
Fails(s, x) ==
  /\ Happens
  /\ missed' = (missed \/ x.op \in {"note", "sync"})
  /\ UNCHANGED <<tables, results, heard, gone, late>>

Execute(s, ops) ==
  /\ opening[s] = NoRow
  /\ \E x \in DOMAIN stmts[s] :
       /\ x.op \in ops
       /\ \/ /\ \/ WriteNote(s, x) \/ MakeChange(s, x) \/ Select(s, x)
                \/ Forget(s, x) \/ Clear(s, x) \/ OpenCast(s, x)
             /\ UNCHANGED events
          \/ Fails(s, x)
       /\ Executed(s, x)
  /\ UNCHANGED clients

CommitCast(s) ==
  LET row == opening[s]
  IN  /\ row # NoRow
      /\ opening' = [opening EXCEPT ![s] = NoRow]
      /\ casts' = [casts EXCEPT ![row.to] = @ \cup {row.id}]
      /\ late' = IF \E r \in casts[row.to] \cup gone[row.to] : r > row.id
                 THEN [late EXCEPT ![row.to] = @ \cup {row.id}] ELSE late
      /\ UNCHANGED <<table, amount, notes, nextNote, nextCast, clients, queues, missed,
                     heard, gone, events>>

-----------------------------------------------------------------------------
(* Callbacks, in the main loop *)

Answered(s, op) == results[s] # <<>> /\ Head(results[s]).op = op
Taken(s) == results' = [results EXCEPT ![s] = Tail(@)]
Read(s) == Head(results[s]).ids

Changed(s) ==
  /\ Answered(s, "change") /\ Taken(s)
  /\ Queue(s, NoteAll(s))
  /\ UNCHANGED <<tables, clients, past, events>>

GotNotes(s) ==
  /\ Answered(s, "notes") /\ Taken(s)
  /\ Queue(s, IF Read(s) = {} THEN {} ELSE SyncItem(s) \cup {Stmt("forget", s, Read(s))})
  /\ UNCHANGED <<tables, clients, past, events>>

GotCasts(s) ==
  /\ Answered(s, "casts") /\ Taken(s)
  /\ heard' = [heard EXCEPT ![s] = @ \cup Read(s)]
  /\ Queue(s, IF Read(s) = {} THEN {} ELSE {Stmt("clear", s, {Max(Read(s))})})
  /\ UNCHANGED <<tables, clients, missed, gone, late, events>>

(* To the player's connection, if he is still there. *)
GotAmount(s) ==
  /\ Answered(s, "sync") /\ Taken(s)
  /\ shown' = [shown EXCEPT ![s] = IF onlineAt[s] THEN Max(Read(s)) ELSE @]
  /\ UNCHANGED <<tables, onlineAt, stmts, past, events>>

Callback(s) == Changed(s) \/ GotNotes(s) \/ GotCasts(s) \/ GotAmount(s)

(* The server stops and is started again: what it had queued is lost. *)
Restart(s) ==
  /\ Happens
  /\ stmts' = [stmts EXCEPT ![s] = EmptyBag]
  /\ results' = [results EXCEPT ![s] = <<>>]
  /\ opening' = [opening EXCEPT ![s] = NoRow]
  /\ onlineAt' = [onlineAt EXCEPT ![s] = FALSE]
  /\ missed' = \/ missed \/ Stmt("note", Center, {}) \in DOMAIN stmts[s]
               \/ \E t \in Servers : Stmt("note", t, {}) \in DOMAIN stmts[s]
               \/ \E i \in DOMAIN results[s] : results[s][i].op = "change"
  /\ UNCHANGED <<table, amount, notes, casts, nextNote, nextCast, shown, heard, gone,
                 late>>

-----------------------------------------------------------------------------
NoticeNext ==
  \/ \E s \in Servers : Change(s) \/ Broadcast(s) \/ Task(s) \/ CommitCast(s) \/ Restart(s)
  \/ \E s \in Homes : Login(s) \/ Logout(s)
  \/ \E s \in Sites : \/ ChangeNow(s) \/ Callback(s)
                      \/ Execute(s, Writes) \/ Execute(s, Rounds)
  \/ CenterTask

NoticeSpec == NoticeInit /\ [][NoticeNext]_noticeVars

(* The task is due again and again; the database thread takes all that is  *)
(* queued and executes all of it: what a round asks for does not keep the  *)
(* writes from their turn, nor they the round.                             *)
NoticeFairness ==
  /\ \A s \in Servers : WF_noticeVars(Task(s)) /\ WF_noticeVars(CommitCast(s))
  /\ \A s \in Sites : /\ WF_noticeVars(Callback(s))
                      /\ WF_noticeVars(Execute(s, Writes)) /\ WF_noticeVars(Execute(s, Rounds))
  /\ WF_noticeVars(CenterTask)

NoticeFairSpec == NoticeSpec /\ NoticeFairness

-----------------------------------------------------------------------------
(* Properties *)

NoticeTypeOK ==
  /\ amount \in Nat /\ nextNote \in [Sites -> Nat] /\ nextCast \in [Servers -> Nat]
  /\ notes \in [Sites -> SUBSET Nat] /\ casts \in [Servers -> SUBSET Nat]
  /\ opening \in [Sites -> [id : Nat, to : Sites]]
  /\ onlineAt \in [Sites -> BOOLEAN] /\ shown \in [Sites -> Nat]
  /\ \A s \in Sites : /\ IsABag(stmts[s]) /\ DOMAIN stmts[s] \subseteq Stmts
                      /\ results[s] \in Seq(Stmts)
  /\ missed \in BOOLEAN
  /\ \A h \in {heard, gone, late} : h \in [Servers -> SUBSET Nat]
  /\ events \in 0 .. MaxEvents

(* A client that was sent an old amount is going to be sent another: the   *)
(* change has not been noted yet, or a note waits, or an answer is on its  *)
(* way.  A row that is replaced after it was read has a new id, and is not *)
(* deleted with those that were read.                                      *)
StaleIsKnown ==
  \A s \in Sites :
    onlineAt[s] /\ shown[s] # amount /\ ~missed =>
      \/ notes[s] # {}
      \/ Stmt("sync", s, {}) \in DOMAIN stmts[s]
      \/ \E i \in DOMAIN results[s] :
           results[s][i].op = "sync" /\ results[s][i].ids = {amount}
      \/ \E t \in Sites : \/ \E i \in DOMAIN results[t] : results[t][i].op = "change"
                          \/ Stmt("note", s, {}) \in DOMAIN stmts[t]

(* With the types of the variables. *)
ItemInv == NoticeTypeOK /\ StaleIsKnown

(* A broadcast row is not deleted before its server has sent it, unless it *)
(* was committed behind one with a greater id ("where rowid <= maxid").    *)
BroadcastHeard == \A s \in Servers : gone[s] \subseteq heard[s] \cup late[s]

(* Every client is sent the amount the player has. *)
ShownSettles ==
  \A s \in Homes :
    onlineAt[s] /\ shown[s] # amount ~> ~onlineAt[s] \/ shown[s] = amount \/ missed
=============================================================================
