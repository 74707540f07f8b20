---------------------------- MODULE CenterProofs ----------------------------
(***************************************************************************)
(* Theorems about the work that the servers leave for each other in the    *)
(* database and about the logins at the account server.                    *)
(*                                                                         *)
(* Notices, for every set of coordinators and homes and any number of      *)
(* events: the types, every amount that a client has and that is old is    *)
(* going to be replaced, and a broadcast is sent before it is deleted.     *)
(*                                                                         *)
(* Accounts, for every set of users, connections and objects, messages and *)
(* faults: the types, and the database marks who is online.                *)
(***************************************************************************)
EXTENDS Notices, Accounts, SumTheorems

-----------------------------------------------------------------------------
(* Notices: the inductive invariant *)

Shape ==
  /\ stmts = [s \in Sites |-> stmts[s]]
  /\ results \in [Sites -> Seq(Stmts)]

(* Rows have ids that were given. *)
Rows ==
  /\ \A s \in Sites : \A k \in notes[s] : k < nextNote[s]
  /\ \A s \in Servers : casts[s] \cup gone[s] \subseteq 0 .. nextCast[s] - 1

(* A row that is being inserted has an id of its own. *)
Openings ==
  \A t \in Sites : opening[t] # NoRow =>
    /\ opening[t].to \in Servers
    /\ opening[t].id < nextCast[opening[t].to]
    /\ opening[t].id \notin casts[opening[t].to] \cup gone[opening[t].to]
    /\ \A u \in Sites : opening[u] = opening[t] => u = t

(* What a statement that waits at s is about.  The rows below those it     *)
(* clears were sent, or came late.                                         *)
Waiting(s, x) ==
  /\ x.op \in {"notes", "forget", "casts", "clear"} => s \in Servers
  /\ x.op = "note" => x.ids = {}
  /\ x.op = "cast" => x.to \in Servers
  /\ x.op = "forget" => \A k \in x.ids : k < nextNote[s]
  /\ x.op = "clear" =>
       /\ x.ids \subseteq casts[s] \cup gone[s]
       /\ \A m \in x.ids, r \in casts[s] : r <= m => r \in heard[s] \cup late[s]

(* What an answer at s has read. *)
Reading(s, x) ==
  /\ x.op \in {"change", "notes", "casts", "sync"}
  /\ x.op \in {"notes", "casts"} => s \in Servers
  /\ x.op = "sync" => \E v \in Nat : x.ids = {v}
  /\ x.op = "notes" => \A k \in x.ids : k < nextNote[s]
  /\ x.op = "casts" =>
       /\ x.ids \subseteq casts[s] \cup gone[s]
       /\ \A m \in x.ids, r \in casts[s] : r <= m => r \in x.ids \cup late[s]

Queues ==
  /\ \A s \in Sites : \A x \in DOMAIN stmts[s] : Waiting(s, x)
  /\ \A s \in Sites : \A i \in DOMAIN results[s] : Reading(s, results[s][i])

(* A change is going to be noted for s, or the amount is going to be read. *)
Noted(t, s) ==
  \/ Stmt("note", s, {}) \in DOMAIN stmts[t]
  \/ \E i \in DOMAIN results[t] : results[t][i].op = "change"
Coming(s) ==
  \/ Stmt("sync", s, {}) \in DOMAIN stmts[s]
  \/ \E t \in Sites : Noted(t, s)

(* A note that no statement under way deletes. *)
Kept(s) ==
  \E k \in notes[s] : \A x \in DOMAIN stmts[s] : x.op = "forget" => k \notin x.ids

(* An answer behind the i-th that has the amount. *)
Has(x) == x.op = "sync" /\ x.ids = {amount}
FreshAfter(s, i) == \E j \in DOMAIN results[s] : j > i /\ Has(results[s][j])

Settling(s, i) == Coming(s) \/ Kept(s) \/ FreshAfter(s, i)

(* What a client was sent (0), or an answer that he will be sent, is old.  *)
Old(x) == x.op = "sync" /\ x.ids # {amount}
Stale(s, i) ==
  \/ i = 0 /\ shown[s] # amount
  \/ i \in DOMAIN results[s] /\ Old(results[s][i])

(* Whatever the client of s shows or is going to show, he is sent the      *)
(* amount after it.                                                        *)
Known(s) ==
  onlineAt[s] /\ ~missed => \A i \in Nat : Stale(s, i) => Settling(s, i)

NoticesTypes == NoticeTypeOK /\ Shape
NoticesRows == Rows /\ Openings /\ Queues /\ BroadcastHeard
NoticesInv == NoticesTypes /\ NoticesRows /\ \A s \in Sites : Known(s)

-----------------------------------------------------------------------------
(* Notices: bags of statements and sequences of answers *)

LEMMA EmptyFacts == IsABag(EmptyBag) /\ DOMAIN EmptyBag = {}
BY DEF IsABag, EmptyBag, SetToBag

(* What is in the queue of s after sqls were added. *)
Added(s, sqls) ==
  /\ stmts' = [t \in Sites |-> stmts'[t]]
  /\ \A t \in Sites : t # s => stmts'[t] = stmts[t]
  /\ IsABag(stmts'[s]) /\ DOMAIN stmts'[s] = DOMAIN stmts[s] \cup sqls

LEMMA QueueAdds ==
  ASSUME NoticesTypes, NEW s \in Sites, NEW sqls, Queue(s, sqls)
  PROVE  Added(s, sqls)
<1> DEFINE B == stmts[s] (+) SetToBag(sqls)
<1>1. IsABag(B) /\ DOMAIN B = DOMAIN stmts[s] \cup sqls
  BY DEF NoticesTypes, NoticeTypeOK, IsABag, SetToBag, (+)
<1>2. stmts' = [stmts EXCEPT ![s] = B]
  BY DEF Queue
<1> HIDE DEF B
<1>3. stmts = [t \in Sites |-> stmts[t]]
  BY DEF NoticesTypes, Shape
<1>4. /\ stmts' = [t \in Sites |-> stmts'[t]] /\ stmts'[s] = B
      /\ \A t \in Sites : t # s => stmts'[t] = stmts[t]
  BY <1>2, <1>3
<1> QED BY <1>1, <1>4 DEF Added

(* What is left when a copy of x was taken from the queue of s. *)
Removed(s, x) ==
  /\ stmts' = [t \in Sites |-> stmts'[t]]
  /\ \A t \in Sites : t # s => stmts'[t] = stmts[t]
  /\ IsABag(stmts'[s]) /\ DOMAIN stmts'[s] \subseteq DOMAIN stmts[s]
  /\ \A y \in DOMAIN stmts[s] : y # x => y \in DOMAIN stmts'[s]

LEMMA ExecutedRemoves ==
  ASSUME NoticesTypes, NEW s \in Sites, NEW x \in DOMAIN stmts[s], Executed(s, x)
  PROVE  Removed(s, x)
<1> DEFINE B == BagRemove(stmts[s], x)
<1>1. /\ IsABag(B) /\ DOMAIN B \subseteq DOMAIN stmts[s]
      /\ \A y \in DOMAIN stmts[s] : y # x => y \in DOMAIN B
  BY DEF NoticesTypes, NoticeTypeOK, IsABag, BagRemove
<1>2. stmts' = [stmts EXCEPT ![s] = B]
  BY DEF Executed
<1> HIDE DEF B
<1>3. stmts = [t \in Sites |-> stmts[t]]
  BY DEF NoticesTypes, Shape
<1>4. /\ stmts' = [t \in Sites |-> stmts'[t]] /\ stmts'[s] = B
      /\ \A t \in Sites : t # s => stmts'[t] = stmts[t]
  BY <1>2, <1>3
<1> QED BY <1>1, <1>4 DEF Removed

(* The answers of s after one was added, and after the first was taken. *)
Appended(s, x) ==
  /\ results' \in [Sites -> Seq(Stmts)]
  /\ \A t \in Sites : t # s => results'[t] = results[t]
  /\ Len(results'[s]) = Len(results[s]) + 1
  /\ \A i \in 1 .. Len(results[s]) : results'[s][i] = results[s][i]
  /\ results'[s][Len(results[s]) + 1] = x

LEMMA AnswersAppend ==
  ASSUME NoticesTypes, NEW s \in Sites, NEW x \in Stmts, Answers(s, x)
  PROVE  Appended(s, x)
<1>1. results \in [Sites -> Seq(Stmts)] /\ results[s] \in Seq(Stmts)
  BY DEF NoticesTypes, Shape
<1>2. results' = [results EXCEPT ![s] = Append(results[s], x)]
  BY DEF Answers
<1> DEFINE q == results[s]
           r == Append(results[s], x)
<1>3. /\ r \in Seq(Stmts) /\ Len(r) = Len(q) + 1 /\ r[Len(q) + 1] = x
      /\ \A i \in 1 .. Len(q) : r[i] = q[i]
  BY <1>1
<1>4. results'[s] = r /\ \A t \in Sites : t # s => results'[t] = results[t]
  BY <1>1, <1>2
<1>5. results' \in [Sites -> Seq(Stmts)]
  BY <1>1, <1>2, <1>3
<1> QED BY <1>3, <1>4, <1>5 DEF Appended

Dropped(s) ==
  /\ results' \in [Sites -> Seq(Stmts)]
  /\ \A t \in Sites : t # s => results'[t] = results[t]
  /\ Len(results[s]) \in Nat /\ Len(results[s]) > 0
  /\ Head(results[s]) = results[s][1] /\ results[s][1] \in Stmts
  /\ Len(results'[s]) = Len(results[s]) - 1
  /\ \A i \in 1 .. Len(results'[s]) : results'[s][i] = results[s][i + 1]

LEMMA TakenDrops ==
  ASSUME NoticesTypes, NEW s \in Sites, results[s] # <<>>, Taken(s)
  PROVE  Dropped(s)
<1>1. results \in [Sites -> Seq(Stmts)] /\ results[s] \in Seq(Stmts)
  BY DEF NoticesTypes, Shape
<1>2. results' = [results EXCEPT ![s] = Tail(results[s])]
  BY DEF Taken
<1> DEFINE q == results[s]
           r == Tail(results[s])
<1>3. /\ r \in Seq(Stmts) /\ Len(r) = Len(q) - 1 /\ Len(q) \in Nat /\ Len(q) > 0
      /\ Head(q) = q[1] /\ q[1] \in Stmts
      /\ \A i \in 1 .. Len(r) : r[i] = q[i + 1]
  BY <1>1
<1>4. results'[s] = r /\ \A t \in Sites : t # s => results'[t] = results[t]
  BY <1>1, <1>2
<1>5. results' \in [Sites -> Seq(Stmts)]
  BY <1>1, <1>2, <1>3
<1> QED BY <1>3, <1>4, <1>5 DEF Dropped

LEMMA ResultFacts ==
  ASSUME NoticesTypes, NEW s \in Sites
  PROVE  /\ Len(results[s]) \in Nat /\ DOMAIN results[s] = 1 .. Len(results[s])
         /\ \A i \in DOMAIN results[s] : results[s][i] \in Stmts
<1>1. results[s] \in Seq(Stmts)
  BY DEF NoticesTypes, Shape
<1> QED BY <1>1

-----------------------------------------------------------------------------
(* Notices: types *)

(* The database thread of s executes x, or fails to. *)
Runs(s, x) ==
  /\ x \in DOMAIN stmts[s] /\ Executed(s, x) /\ UNCHANGED clients
  /\ opening[s] = NoRow
  /\ \/ WriteNote(s, x) \/ MakeChange(s, x) \/ Select(s, x)
     \/ Forget(s, x) \/ Clear(s, x) \/ OpenCast(s, x) \/ Fails(s, x)

LEMMA ExecuteRuns ==
  ASSUME NEW s \in Sites, NEW ops, Execute(s, ops)
  PROVE  \E x \in DOMAIN stmts[s] : Runs(s, x)
BY DEF Execute, Runs

LEMMA EventTypes ==
  ASSUME NoticeTypeOK, [NoticeNext]_noticeVars
  PROVE  events' \in 0 .. MaxEvents
<1>1. events \in 0 .. MaxEvents /\ MaxEvents \in Nat
  BY NoticesAssumption DEF NoticeTypeOK
<1>2. events' = events \/ Happens
  BY DEF NoticeNext, Change, Broadcast, Task, CommitCast, Restart, Login, Logout,
         ChangeNow, Callback, Changed, GotNotes, GotCasts, GotAmount, Execute, Fails,
         CenterTask, noticeVars
<1> QED BY <1>1, <1>2 DEF Happens

LEMMA StmtTypes ==
  ASSUME NEW op \in Ops, NEW to \in Sites, NEW ids \in SUBSET Nat
  PROVE  /\ Stmt(op, to, ids) \in Stmts
         /\ Stmt(op, to, ids).op = op /\ Stmt(op, to, ids).to = to
         /\ Stmt(op, to, ids).ids = ids
BY DEF Stmt, Stmts

(* What is queued are statements. *)
LEMMA QueuedTypes ==
  ASSUME NEW s \in Sites
  PROVE  /\ NoteAll(s) \subseteq Stmts /\ SyncItem(s) \subseteq Stmts
         /\ {Stmt("cast", t, {}) : t \in Servers} \subseteq Stmts
         /\ \A ids \in SUBSET Nat : {Stmt("forget", s, ids), Stmt("clear", s, ids)} \subseteq Stmts
         /\ {Stmt("change", s, {}), Stmt("sync", s, {}), Stmt("notes", s, {}),
             Stmt("casts", s, {})} \subseteq Stmts
<1>1. {"note", "cast", "sync", "forget", "clear", "change", "notes", "casts"} \subseteq Ops
  BY DEF Ops, Writes, Rounds
<1>2. Servers \subseteq Sites
  BY DEF Sites
<1> QED BY <1>1, <1>2, StmtTypes DEF NoteAll, SyncItem

(* Of the answers to a SELECT of broadcasts the greatest id is one of them. *)
LEMMA CastsRead ==
  ASSUME NoticesTypes, NoticesRows, NEW s \in Sites, Answered(s, "casts"),
         Read(s) # {}
  PROVE  s \in Servers /\ Read(s) \subseteq casts[s] \cup gone[s] /\ Max(Read(s)) \in Read(s)
<1>1. results[s][1] = Head(results[s]) /\ 1 \in DOMAIN results[s]
  BY ResultFacts, results[s] \in Seq(Stmts) DEF Answered, NoticesTypes, Shape
<1>2. Reading(s, Head(results[s]))
  BY <1>1 DEF NoticesRows, Queues
<1>3. s \in Servers /\ Read(s) \subseteq casts[s] \cup gone[s]
  BY <1>2 DEF Reading, Answered, Read
<1>4. Read(s) \subseteq 0 .. nextCast[s] - 1
  BY <1>3 DEF NoticesRows, Rows
<1>5. nextCast[s] \in Nat
  BY <1>3 DEF NoticesTypes, NoticeTypeOK
<1>6. Read(s) \subseteq 0 .. nextCast[s]
  BY <1>4, <1>5
<1> QED BY <1>3, <1>5, <1>6, MaxBelow

LEMMA MaxOne == ASSUME NEW v \in Nat PROVE Max({v}) = v
<1>1. {v} \in SUBSET (0 .. v) /\ {v} # {}
  OBVIOUS
<1>2. Max({v}) \in {v}
  BY <1>1, MaxBelow
<1> QED BY <1>2

LEMMA AmountRead ==
  ASSUME NoticesTypes, NoticesRows, NEW s \in Sites, Answered(s, "sync")
  PROVE  \E v \in Nat : Read(s) = {v} /\ Max(Read(s)) = v
<1>1. results[s][1] = Head(results[s]) /\ 1 \in DOMAIN results[s]
  BY ResultFacts, results[s] \in Seq(Stmts) DEF Answered, NoticesTypes, Shape
<1>2. Reading(s, Head(results[s]))
  BY <1>1 DEF NoticesRows, Queues
<1>3. \E v \in Nat : Read(s) = {v}
  BY <1>2 DEF Reading, Answered, Read
<1> QED BY <1>3, MaxOne

(* The queues keep their types when a statement or an answer comes or goes. *)
QueueTypes ==
  /\ Shape
  /\ \A s \in Sites : IsABag(stmts[s]) /\ DOMAIN stmts[s] \subseteq Stmts

LEMMA QueueTypesKept ==
  ASSUME NoticesTypes, NEW s \in Sites, NEW sqls \in SUBSET Stmts, NEW x, NEW y
  PROVE  /\ Queue(s, sqls) /\ UNCHANGED results => QueueTypes'
         /\ Queue(s, sqls) /\ results[s] # <<>> /\ Taken(s) => QueueTypes'
         /\ UNCHANGED stmts /\ results[s] # <<>> /\ Taken(s) => QueueTypes'
         /\ x \in DOMAIN stmts[s] /\ Executed(s, x) /\ UNCHANGED results => QueueTypes'
         /\ /\ x \in DOMAIN stmts[s] /\ Executed(s, x)
            /\ y \in Stmts /\ Answers(s, y)
            => QueueTypes'
         /\ UNCHANGED <<stmts, results>> => QueueTypes'
<1>1. QueueTypes
  BY DEF NoticesTypes, NoticeTypeOK, QueueTypes
<1>2. Added(s, sqls) /\ (UNCHANGED results \/ Dropped(s)) => QueueTypes'
  BY <1>1 DEF Added, Dropped, QueueTypes, Shape
<1>3. Removed(s, x) /\ (UNCHANGED results \/ Appended(s, y)) => QueueTypes'
  BY <1>1 DEF Removed, Appended, QueueTypes, Shape
<1>4. UNCHANGED stmts /\ Dropped(s) => QueueTypes'
  BY <1>1 DEF Dropped, QueueTypes, Shape
<1>5. UNCHANGED <<stmts, results>> => QueueTypes'
  BY <1>1 DEF QueueTypes, Shape
<1> QED BY <1>2, <1>3, <1>4, <1>5, QueueAdds, ExecutedRemoves, AnswersAppend, TakenDrops

(* The rest of the types *)
TableTypes ==
  /\ amount \in Nat /\ nextNote \in [Sites -> Nat] /\ nextCast \in [Servers -> Nat]
  /\ notes \in [Sites -> SUBSET Nat] /\ casts \in [Servers -> SUBSET Nat]
  /\ opening \in [Sites -> [id : Nat, to : Sites]]
  /\ onlineAt \in [Sites -> BOOLEAN] /\ shown \in [Sites -> Nat]
  /\ missed \in BOOLEAN
  /\ heard \in [Servers -> SUBSET Nat] /\ gone \in [Servers -> SUBSET Nat]
  /\ late \in [Servers -> SUBSET Nat]

LEMMA TypesAre ==
  /\ NoticesTypes <=> TableTypes /\ QueueTypes /\ events \in 0 .. MaxEvents
  /\ NoticesTypes' <=> TableTypes' /\ QueueTypes' /\ events' \in 0 .. MaxEvents
BY DEF NoticesTypes, NoticeTypeOK, TableTypes, QueueTypes, Shape

LEMMA RunsTypes ==
  ASSUME NoticesTypes, NoticesRows, NEW s \in Sites, NEW x, Runs(s, x)
  PROVE  TableTypes' /\ QueueTypes'
<1>1. TableTypes
  BY TypesAre
<1>2. /\ x \in Stmts /\ Waiting(s, x) /\ x.ids \subseteq Nat /\ x.to \in Sites
      /\ x \in DOMAIN stmts[s] /\ Executed(s, x) /\ UNCHANGED clients
  BY DEF Runs, NoticesTypes, NoticeTypeOK, NoticesRows, Queues, Stmts
<1>3. CASE WriteNote(s, x)
  <2>1. TableTypes'
    BY <1>1, <1>2, <1>3 DEF WriteNote, TableTypes, clients, past
  <2>2. QueueTypes'
    BY <1>2, <1>3, QueueTypesKept DEF WriteNote
  <2> QED BY <2>1, <2>2
<1>4. CASE MakeChange(s, x)
  <2>1. TableTypes'
    BY <1>1, <1>2, <1>4 DEF MakeChange, TableTypes, clients, past
  <2>2. QueueTypes'
    BY <1>2, <1>4, QueueTypesKept DEF MakeChange
  <2> QED BY <2>1, <2>2
<1>5. CASE Select(s, x)
  <2>1. TableTypes'
    BY <1>1, <1>2, <1>5 DEF Select, TableTypes, clients, past, tables
  <2>2. Found(s, x.op) \in SUBSET Nat
    BY <1>1, <1>2, <1>5 DEF Select, Found, TableTypes, Waiting
  <2>3. [x EXCEPT !.ids = Found(s, x.op)] \in Stmts
    BY <1>2, <2>2 DEF Stmts
  <2>4. QueueTypes'
    BY <1>2, <1>5, <2>3, QueueTypesKept DEF Select
  <2> QED BY <2>1, <2>4
<1>6. CASE Forget(s, x)
  <2>1. TableTypes'
    BY <1>1, <1>2, <1>6 DEF Forget, TableTypes, clients, past
  <2>2. QueueTypes'
    BY <1>2, <1>6, QueueTypesKept DEF Forget
  <2> QED BY <2>1, <2>2
<1>7. CASE Clear(s, x)
  <2>1. s \in Servers /\ ClearedRows(s, x.ids) \subseteq Nat
    BY <1>1, <1>2, <1>7 DEF Clear, Waiting, ClearedRows, TableTypes
  <2>2. TableTypes'
    BY <1>1, <1>2, <1>7, <2>1 DEF Clear, TableTypes, clients
  <2>3. QueueTypes'
    BY <1>2, <1>7, QueueTypesKept DEF Clear
  <2> QED BY <2>2, <2>3
<1>8. CASE OpenCast(s, x)
  <2>1. x.to \in Servers /\ nextCast[x.to] \in Nat
    BY <1>1, <1>2, <1>8 DEF OpenCast, Waiting, TableTypes
  <2>2. TableTypes'
    BY <1>1, <1>2, <1>8, <2>1 DEF OpenCast, TableTypes, clients, past
  <2>3. QueueTypes'
    BY <1>2, <1>8, QueueTypesKept DEF OpenCast
  <2> QED BY <2>2, <2>3
<1>9. CASE Fails(s, x)
  <2>1. TableTypes'
    BY <1>1, <1>2, <1>9 DEF Fails, TableTypes, clients, tables
  <2>2. QueueTypes'
    BY <1>2, <1>9, QueueTypesKept DEF Fails
  <2> QED BY <2>1, <2>2
<1> QED BY <1>3, <1>4, <1>5, <1>6, <1>7, <1>8, <1>9 DEF Runs

LEMMA CallbackTypes ==
  ASSUME NoticesTypes, NoticesRows, NEW s \in Sites, Callback(s)
  PROVE  TableTypes' /\ QueueTypes'
<1>1. TableTypes
  BY TypesAre
<1>2. CASE Changed(s)
  <2>1. TableTypes'
    BY <1>1, <1>2 DEF Changed, TableTypes, tables, clients, past
  <2>2. QueueTypes'
    BY <1>2, QueueTypesKept, QueuedTypes DEF Changed, Answered
  <2> QED BY <2>1, <2>2
<1>3. CASE GotNotes(s)
  <2>1. TableTypes'
    BY <1>1, <1>3 DEF GotNotes, TableTypes, tables, clients, past
  <2>2. Read(s) \subseteq Nat
    <3>1. results[s] \in Seq(Stmts) /\ results[s] # <<>>
      BY <1>3 DEF GotNotes, Answered, NoticesTypes, Shape
    <3>2. Head(results[s]) \in Stmts
      BY <3>1
    <3> QED BY <3>2 DEF Read, Stmts
  <2>3. {Stmt("forget", s, Read(s))} \subseteq Stmts
    BY <2>2, QueuedTypes
  <2>4. QueueTypes'
    <3> DEFINE S == IF Read(s) = {} THEN {}
                    ELSE SyncItem(s) \cup {Stmt("forget", s, Read(s))}
    <3>1. S \in SUBSET Stmts
      BY <2>3, QueuedTypes
    <3>2. Queue(s, S) /\ results[s] # <<>> /\ Taken(s)
      BY <1>3 DEF GotNotes, Answered
    <3> HIDE DEF S
    <3> QED BY <3>1, <3>2, QueueTypesKept
  <2> QED BY <2>1, <2>4
<1>4. CASE GotCasts(s)
  <2> DEFINE S == IF Read(s) = {} THEN {} ELSE {Stmt("clear", s, {Max(Read(s))})}
  <2>1. Answered(s, "casts") /\ results[s] # <<>> /\ Taken(s) /\ Queue(s, S)
    BY <1>4 DEF GotCasts, Answered
  <2>2. Read(s) \subseteq Nat /\ s \in Servers
    <3>1. results[s] \in Seq(Stmts)
      BY DEF NoticesTypes, Shape
    <3>2. Head(results[s]) \in Stmts /\ Head(results[s]) = results[s][1]
          /\ 1 \in DOMAIN results[s]
      BY <2>1, <3>1
    <3>3. Reading(s, Head(results[s]))
      BY <3>2 DEF NoticesRows, Queues
    <3> QED BY <2>1, <3>2, <3>3 DEF Read, Stmts, Reading, Answered
  <2>3. S \in SUBSET Stmts
    <3>1. Read(s) # {} => {Max(Read(s))} \in SUBSET Nat
      BY <2>1, <2>2, CastsRead
    <3> QED BY <3>1, QueuedTypes
  <2> HIDE DEF S
  <2>4. QueueTypes'
    BY <2>1, <2>3, QueueTypesKept
  <2>5. TableTypes'
    BY <1>1, <1>4, <2>2 DEF GotCasts, TableTypes, tables, clients
  <2> QED BY <2>4, <2>5
<1>5. CASE GotAmount(s)
  <2>1. results[s] # <<>> /\ Taken(s) /\ UNCHANGED stmts /\ Answered(s, "sync")
    BY <1>5 DEF GotAmount, Answered
  <2>2. Max(Read(s)) \in Nat
    BY <2>1, AmountRead
  <2>3. TableTypes'
    BY <1>1, <1>5, <2>2 DEF GotAmount, TableTypes, tables, past
  <2> QED BY <2>1, <2>3, QueueTypesKept
<1> QED BY <1>2, <1>3, <1>4, <1>5 DEF Callback

LEMMA OtherTypes ==
  ASSUME NoticesTypes, NEW s \in Sites
  PROVE  /\ Change(s) \/ Broadcast(s) \/ Task(s) => TableTypes' /\ QueueTypes'
         /\ ChangeNow(s) \/ Login(s) \/ Logout(s) => TableTypes' /\ QueueTypes'
         /\ CommitCast(s) /\ opening[s].to \in Servers => TableTypes' /\ QueueTypes'
         /\ CenterTask => TableTypes' /\ QueueTypes'
         /\ Restart(s) => TableTypes' /\ QueueTypes'
<1>1. TableTypes
  BY TypesAre
<1> USE DEF tables, clients, past
<1>2. Change(s) => TableTypes' /\ QueueTypes'
  BY <1>1, QueueTypesKept, QueuedTypes DEF Change, TableTypes
<1>3. Broadcast(s) => TableTypes' /\ QueueTypes'
  <2> DEFINE S == {Stmt("cast", t, {}) : t \in Servers}
  <2>1. S \in SUBSET Stmts
    BY QueuedTypes
  <2>2. Broadcast(s) => Queue(s, S) /\ UNCHANGED results
    BY DEF Broadcast
  <2> HIDE DEF S
  <2> QED BY <1>1, <2>1, <2>2, QueueTypesKept DEF Broadcast, TableTypes
<1>4. Task(s) => TableTypes' /\ QueueTypes'
  BY <1>1, QueueTypesKept, QueuedTypes DEF Task, TableTypes
<1>5. ChangeNow(s) => TableTypes' /\ QueueTypes'
  <2>1. NoteAll(s) \in SUBSET Stmts
    BY QueuedTypes
  <2>2. ChangeNow(s) => QueueTypes'
    BY <2>1, QueueTypesKept DEF ChangeNow
  <2>3. ChangeNow(s) => TableTypes'
    BY <1>1 DEF ChangeNow, TableTypes
  <2> QED BY <2>2, <2>3
<1>6. Login(s) => TableTypes' /\ QueueTypes'
  <2>1. Login(s) => QueueTypes'
    BY QueueTypesKept, QueuedTypes DEF Login
  <2>2. Login(s) => TableTypes'
    BY <1>1 DEF Login, TableTypes
  <2> QED BY <2>1, <2>2
<1>7. Logout(s) => TableTypes' /\ QueueTypes'
  BY <1>1, QueueTypesKept DEF Logout, TableTypes, queues
<1>8. CommitCast(s) /\ opening[s].to \in Servers => TableTypes' /\ QueueTypes'
  <2>1. CommitCast(s) => QueueTypes'
    BY QueueTypesKept DEF CommitCast, queues
  <2>2. NoRow \in [id : Nat, to : Sites] /\ opening[s].id \in Nat
    BY <1>1 DEF NoRow, Sites, TableTypes
  <2> QED BY <1>1, <2>1, <2>2 DEF CommitCast, TableTypes
<1>9. CenterTask => TableTypes' /\ QueueTypes'
  <2>1. SyncItem(Center) \in SUBSET Stmts /\ Center \in Sites
    BY QueuedTypes DEF Sites
  <2> QED BY <1>1, <2>1, QueueTypesKept DEF CenterTask, TableTypes
<1>10. Restart(s) => TableTypes' /\ QueueTypes'
  <2>1. NoRow \in [id : Nat, to : Sites] /\ <<>> \in Seq(Stmts)
    BY DEF NoRow, Sites
  <2>2. QueueTypes
    BY TypesAre
  <2>3. Restart(s) => QueueTypes'
    BY <2>1, <2>2, EmptyFacts DEF Restart, QueueTypes, Shape
  <2> QED BY <1>1, <2>1, <2>3 DEF Restart, TableTypes
<1> QED BY <1>2, <1>3, <1>4, <1>5, <1>6, <1>7, <1>8, <1>9, <1>10

LEMMA NoticesTypesStep ==
  ASSUME NoticesTypes, NoticesRows, [NoticeNext]_noticeVars
  PROVE  NoticesTypes'
<1>1. events' \in 0 .. MaxEvents
  BY EventTypes DEF NoticesTypes
<1>2. TableTypes' /\ QueueTypes'
  <2>1. Servers \subseteq Sites /\ Homes \subseteq Sites
    BY NoticesAssumption DEF Sites
  <2>2. ASSUME NEW s \in Sites, NEW ops, Execute(s, ops) PROVE TableTypes' /\ QueueTypes'
    BY <2>2, ExecuteRuns, RunsTypes
  <2>3. \A s \in Sites : CommitCast(s) => opening[s].to \in Servers
    BY DEF CommitCast, NoticesRows, Openings
  <2>4. CASE UNCHANGED noticeVars
    BY <2>4, TypesAre DEF noticeVars, tables, clients, queues, past, TableTypes,
                          QueueTypes, Shape
  <2>5. ASSUME NEW s \in Servers,
               Change(s) \/ Broadcast(s) \/ Task(s) \/ CommitCast(s) \/ Restart(s)
        PROVE  TableTypes' /\ QueueTypes'
    BY <2>1, <2>3, <2>5, OtherTypes
  <2>6. ASSUME NEW s \in Homes, Login(s) \/ Logout(s) PROVE TableTypes' /\ QueueTypes'
    BY <2>1, <2>6, OtherTypes
  <2>7. ASSUME NEW s \in Sites, ChangeNow(s) \/ Callback(s)
        PROVE  TableTypes' /\ QueueTypes'
    BY <2>7, OtherTypes, CallbackTypes
  <2>8. ASSUME CenterTask PROVE TableTypes' /\ QueueTypes'
    BY <2>8, OtherTypes DEF Sites
  <2> QED BY <2>2, <2>4, <2>5, <2>6, <2>7, <2>8 DEF NoticeNext
<1> QED BY <1>1, <1>2, TypesAre

-----------------------------------------------------------------------------
(* Notices: rows and what the statements are about *)

(* Rows that were read stay known, and a row that comes behind is late. *)
Grows ==
  /\ \A s \in Sites : nextNote[s] <= nextNote'[s]
  /\ \A s \in Servers :
       /\ casts[s] \cup gone[s] \subseteq casts'[s] \cup gone'[s]
       /\ heard[s] \subseteq heard'[s] /\ late[s] \subseteq late'[s]
       /\ \A r \in casts'[s], m \in casts[s] \cup gone[s] :
            r <= m => r \in casts[s] \/ r \in late'[s]

LEMMA GrowsKeeps ==
  ASSUME NoticesTypes, NoticesTypes', Grows, NEW s \in Sites, NEW x \in Stmts
  PROVE  /\ Waiting(s, x) => Waiting(s, x)'
         /\ Reading(s, x) => Reading(s, x)'
<1>1. nextNote[s] \in Nat /\ nextNote'[s] \in Nat /\ nextNote[s] <= nextNote'[s]
  BY DEF NoticesTypes, NoticeTypeOK, Grows
<1>2. x.ids \subseteq Nat
  BY DEF Stmts
<1>3. \A k \in x.ids : k < nextNote[s] => k < nextNote'[s]
  BY <1>1, <1>2
<1>4. s \in Servers =>
        /\ x.ids \subseteq casts[s] \cup gone[s] => x.ids \subseteq casts'[s] \cup gone'[s]
        /\ heard[s] \subseteq heard'[s] /\ late[s] \subseteq late'[s]
        /\ \A r \in casts'[s], m \in casts[s] \cup gone[s] :
             r <= m => r \in casts[s] \/ r \in late'[s]
  BY DEF Grows
<1>5. Waiting(s, x) => Waiting(s, x)'
  <2>1. ASSUME Waiting(s, x), x.op = "clear"
        PROVE  /\ s \in Servers /\ x.ids \subseteq casts'[s] \cup gone'[s]
               /\ \A m \in x.ids, r \in casts'[s] : r <= m => r \in heard'[s] \cup late'[s]
    BY <1>4, <2>1 DEF Waiting
  <2> QED BY <1>3, <2>1 DEF Waiting
<1>6. Reading(s, x) => Reading(s, x)'
  <2>1. ASSUME Reading(s, x), x.op = "casts"
        PROVE  /\ s \in Servers /\ x.ids \subseteq casts'[s] \cup gone'[s]
               /\ \A m \in x.ids, r \in casts'[s] : r <= m => r \in x.ids \cup late'[s]
    BY <1>4, <2>1 DEF Reading
  <2> QED BY <1>3, <2>1 DEF Reading
<1> QED BY <1>5, <1>6

(* A step that gives no ids and deletes no broadcast. *)
Steady ==
  /\ UNCHANGED <<nextNote, nextCast, casts, gone, late>>
  /\ \A s \in Sites : notes'[s] \subseteq notes[s]
  /\ \A s \in Servers : heard[s] \subseteq heard'[s]
  /\ \A s \in Sites : opening'[s] = opening[s] \/ opening'[s] = NoRow

RowsKept == Grows /\ Rows' /\ Openings' /\ BroadcastHeard'

LEMMA SteadyKeepsRows ==
  ASSUME NoticesTypes, NoticesRows, Steady
  PROVE  RowsKept
<1>1. /\ \A s \in Sites : nextNote[s] \in Nat
      /\ Rows /\ Openings /\ BroadcastHeard
  BY DEF NoticesTypes, NoticeTypeOK, NoticesRows
<1>2. Grows
  BY <1>1 DEF Steady, Grows
<1>3. Rows' /\ BroadcastHeard'
  BY <1>1 DEF Steady, Rows, BroadcastHeard
<1>4. Openings'
  <2> SUFFICES ASSUME NEW t \in Sites, opening'[t] # NoRow
               PROVE  /\ opening'[t].to \in Servers
                      /\ opening'[t].id < nextCast'[opening'[t].to]
                      /\ opening'[t].id \notin casts'[opening'[t].to] \cup gone'[opening'[t].to]
                      /\ \A u \in Sites : opening'[u] = opening'[t] => u = t
    BY DEF Openings, NoRow
  <2>1. opening'[t] = opening[t]
    BY DEF Steady
  <2>2. \A u \in Sites : opening'[u] = opening'[t] => opening[u] = opening[t]
    BY <2>1 DEF Steady
  <2> QED BY <1>1, <2>1, <2>2 DEF Openings, Steady
<1> QED BY <1>2, <1>3, <1>4 DEF RowsKept

LEMMA WriteNoteKeepsRows ==
  ASSUME NoticesTypes, NoticesRows, NEW s \in Sites, NEW x \in Stmts, WriteNote(s, x)
  PROVE  RowsKept
<1>1. x.to \in Sites /\ nextNote \in [Sites -> Nat] /\ notes \in [Sites -> SUBSET Nat]
  BY DEF Stmts, NoticesTypes, NoticeTypeOK
<1>2. Rows /\ Openings /\ BroadcastHeard
  BY DEF NoticesRows
<1> USE DEF WriteNote, past
<1>3. Grows
  BY <1>1 DEF Grows
<1>4. Rows'
  BY <1>1, <1>2 DEF Rows
<1>5. Openings' /\ BroadcastHeard'
  BY <1>2 DEF Openings, BroadcastHeard, NoRow
<1> QED BY <1>3, <1>4, <1>5 DEF RowsKept

LEMMA ClearKeepsRows ==
  ASSUME NoticesTypes, NoticesRows, NEW s \in Sites, NEW x \in DOMAIN stmts[s],
         Clear(s, x)
  PROVE  RowsKept
<1>1. /\ casts \in [Servers -> SUBSET Nat] /\ gone \in [Servers -> SUBSET Nat]
      /\ \A t \in Sites : nextNote[t] \in Nat
  BY DEF NoticesTypes, NoticeTypeOK
<1>2. Rows /\ Openings /\ BroadcastHeard /\ Waiting(s, x)
  BY DEF NoticesRows, Queues
<1> DEFINE C == ClearedRows(s, x.ids)
<1>3. /\ s \in Servers /\ C \subseteq casts[s]
      /\ C \subseteq heard[s] \cup late[s]
  BY <1>2 DEF Waiting, Clear, ClearedRows
<1>4. /\ casts' = [casts EXCEPT ![s] = @ \ C] /\ gone' = [gone EXCEPT ![s] = @ \cup C]
      /\ UNCHANGED <<opening, nextNote, nextCast, notes, heard, late>>
  BY DEF Clear
<1> HIDE DEF C
<1>5. \A t \in Servers : /\ casts'[t] \subseteq casts[t]
                         /\ casts'[t] \cup gone'[t] = casts[t] \cup gone[t]
                         /\ gone'[t] \subseteq gone[t] \cup (IF t = s THEN C ELSE {})
  BY <1>1, <1>3, <1>4
<1>6. Grows
  BY <1>1, <1>4, <1>5 DEF Grows
<1>7. Rows'
  BY <1>2, <1>4, <1>5 DEF Rows
<1>8. BroadcastHeard'
  BY <1>2, <1>3, <1>4, <1>5 DEF BroadcastHeard
<1>9. Openings'
  <2> SUFFICES ASSUME NEW t \in Sites, opening[t] # NoRow
               PROVE  opening[t].id \notin casts'[opening[t].to] \cup gone'[opening[t].to]
    BY <1>2, <1>4 DEF Openings, NoRow
  <2> QED BY <1>2, <1>5 DEF Openings
<1> QED BY <1>6, <1>7, <1>8, <1>9 DEF RowsKept

LEMMA OpenCastKeepsRows ==
  ASSUME NoticesTypes, NoticesRows, NEW s \in Sites, NEW x \in DOMAIN stmts[s],
         OpenCast(s, x)
  PROVE  RowsKept
<1>1. /\ nextCast \in [Servers -> Nat] /\ opening \in [Sites -> [id : Nat, to : Sites]]
      /\ \A t \in Sites : nextNote[t] \in Nat
  BY DEF NoticesTypes, NoticeTypeOK
<1>2. Rows /\ Openings /\ BroadcastHeard /\ Waiting(s, x)
  BY DEF NoticesRows, Queues
<1> DEFINE g == x.to
           row == [id |-> nextCast[g], to |-> g]
<1>3. g \in Servers /\ nextCast[g] \in Nat
  BY <1>1, <1>2 DEF Waiting, OpenCast
<1>4. /\ opening' = [opening EXCEPT ![s] = row]
      /\ nextCast' = [nextCast EXCEPT ![g] = nextCast[g] + 1]
      /\ UNCHANGED <<nextNote, notes, casts, heard, gone, late>>
  BY DEF OpenCast, past
<1>5. row.id = nextCast[g] /\ row.to = g
  OBVIOUS
<1> HIDE DEF row
<1>6. Grows /\ BroadcastHeard'
  BY <1>1, <1>2, <1>4 DEF Grows, BroadcastHeard
<1>7. \A t \in Servers : nextCast[t] \in Nat /\ nextCast'[t] \in Nat /\ nextCast[t] <= nextCast'[t]
  BY <1>1, <1>3, <1>4
<1>8. Rows'
  <2>1. \A t \in Servers : 0 .. nextCast[t] - 1 \subseteq 0 .. nextCast'[t] - 1
    BY <1>7
  <2> QED BY <1>2, <1>4, <2>1 DEF Rows
<1>9. Openings'
  <2>1. \A t \in Sites : opening'[t] = IF t = s THEN row ELSE opening[t]
    BY <1>1, <1>4
  <2>2. \A t \in Sites : opening[t] # NoRow =>
          /\ opening[t] # row
          /\ opening[t].to \in Servers /\ opening[t].id < nextCast'[opening[t].to]
    <3> SUFFICES ASSUME NEW t \in Sites, opening[t] # NoRow
                 PROVE  /\ opening[t] # row
                        /\ opening[t].to \in Servers
                        /\ opening[t].id < nextCast'[opening[t].to]
      OBVIOUS
    <3>1. opening[t].to \in Servers /\ opening[t].id \in Nat
          /\ opening[t].id < nextCast[opening[t].to]
      BY <1>1, <1>2 DEF Openings
    <3> QED BY <1>5, <1>7, <3>1
  <2>3. nextCast[g] \notin casts[g] \cup gone[g] /\ nextCast[g] < nextCast'[g]
    BY <1>1, <1>2, <1>3, <1>4 DEF Rows
  <2>4. row # NoRow
    BY <1>3, <1>5, NoticesAssumption DEF NoRow
  <2> SUFFICES ASSUME NEW t \in Sites, opening'[t] # NoRow
               PROVE  /\ opening'[t].to \in Servers
                      /\ opening'[t].id < nextCast'[opening'[t].to]
                      /\ opening'[t].id \notin casts'[opening'[t].to] \cup gone'[opening'[t].to]
                      /\ \A u \in Sites : opening'[u] = opening'[t] => u = t
    BY DEF Openings, NoRow
  <2>5. CASE t = s
    BY <1>3, <1>4, <1>5, <2>1, <2>2, <2>3, <2>4, <2>5
  <2>6. CASE t # s
    <3>1. opening'[t] = opening[t] /\ opening[t] # NoRow
      BY <2>1, <2>6
    <3>2. \A u \in Sites : opening'[u] = opening'[t] => u # s /\ opening[u] = opening[t]
      BY <2>1, <2>2, <3>1
    <3> QED BY <1>2, <1>4, <2>2, <3>1, <3>2 DEF Openings
  <2> QED BY <2>5, <2>6
<1> QED BY <1>6, <1>8, <1>9 DEF RowsKept

LEMMA CommitKeepsRows ==
  ASSUME NoticesTypes, NoticesRows, NEW s \in Sites, CommitCast(s)
  PROVE  RowsKept
<1> DEFINE row == opening[s]
           g == row.to
<1>1. /\ casts \in [Servers -> SUBSET Nat] /\ gone \in [Servers -> SUBSET Nat]
      /\ late \in [Servers -> SUBSET Nat] /\ nextCast \in [Servers -> Nat]
      /\ \A t \in Sites : nextNote[t] \in Nat
      /\ opening \in [Sites -> [id : Nat, to : Sites]]
  BY DEF NoticesTypes, NoticeTypeOK
<1>2. Rows /\ Openings /\ BroadcastHeard
  BY DEF NoticesRows
<1>3. /\ row # NoRow /\ g \in Servers /\ row.id \in Nat /\ row.id < nextCast[g]
      /\ row.id \notin casts[g] \cup gone[g]
      /\ \A u \in Sites : opening[u] = row => u = s
  BY <1>1, <1>2 DEF CommitCast, Openings
<1>4. /\ opening' = [opening EXCEPT ![s] = NoRow]
      /\ casts' = [casts EXCEPT ![g] = @ \cup {row.id}]
      /\ late' = IF \E r \in casts[g] \cup gone[g] : r > row.id
                 THEN [late EXCEPT ![g] = @ \cup {row.id}] ELSE late
      /\ UNCHANGED <<notes, nextNote, nextCast, heard, gone>>
  BY DEF CommitCast
<1>5. \A t \in Servers : late[t] \subseteq late'[t]
  BY <1>1, <1>3, <1>4
<1>6. (\E r \in casts[g] \cup gone[g] : r > row.id) => row.id \in late'[g]
  BY <1>1, <1>3, <1>4
<1>7. \A t \in Servers : casts'[t] = IF t = g THEN casts[t] \cup {row.id} ELSE casts[t]
  BY <1>1, <1>3, <1>4
<1>8. Grows
  <2> SUFFICES ASSUME NEW t \in Servers, NEW r \in casts'[t],
                      NEW m \in casts[t] \cup gone[t], r <= m, r \notin casts[t]
               PROVE  r \in late'[t]
    BY <1>1, <1>4, <1>5, <1>7 DEF Grows
  <2>1. t = g /\ r = row.id
    BY <1>7
  <2>2. m \in Nat /\ m # row.id
    BY <1>1, <1>3, <2>1
  <2>3. m > row.id
    BY <1>3, <2>1, <2>2
  <2> QED BY <1>6, <2>1, <2>3
<1>9. Rows'
  <2>1. row.id \in 0 .. nextCast[g] - 1
    BY <1>1, <1>3
  <2> QED BY <1>2, <1>4, <1>7, <2>1 DEF Rows
<1>10. BroadcastHeard'
  BY <1>2, <1>4, <1>5 DEF BroadcastHeard
<1>11. Openings'
  <2> SUFFICES ASSUME NEW t \in Sites, opening'[t] # NoRow
               PROVE  /\ opening'[t].to \in Servers
                      /\ opening'[t].id < nextCast'[opening'[t].to]
                      /\ opening'[t].id \notin casts'[opening'[t].to] \cup gone'[opening'[t].to]
                      /\ \A u \in Sites : opening'[u] = opening'[t] => u = t
    BY DEF Openings, NoRow
  <2>1. t # s /\ opening'[t] = opening[t]
    BY <1>1, <1>4
  <2>2. \A u \in Sites : opening'[u] = opening'[t] => opening[u] = opening[t]
    BY <1>1, <1>4, <2>1
  <2>3. /\ opening[t].to \in Servers
        /\ opening[t].id < nextCast[opening[t].to]
        /\ opening[t].id \notin casts[opening[t].to] \cup gone[opening[t].to]
        /\ \A u \in Sites : opening[u] = opening[t] => u = t
    BY <1>2, <2>1 DEF Openings
  <2>4. opening[t].to = g => opening[t].id # row.id
    <3>1. opening[t] \in [id : Nat, to : Sites] /\ row \in [id : Nat, to : Sites]
      BY <1>1
    <3>2. opening[t] # row
      BY <1>3, <2>1
    <3> QED BY <3>1, <3>2
  <2> QED BY <1>4, <1>7, <2>1, <2>2, <2>3, <2>4
<1> QED BY <1>8, <1>9, <1>10, <1>11 DEF RowsKept

Reads(t, i) == Reading(t, results[t][i])

(* Statements and answers that come must be about what they should. *)
LEMMA QueuesKept ==
  ASSUME NoticesTypes, NoticesTypes', NoticesRows, Grows,
         \A t \in Sites : \A x \in DOMAIN stmts'[t] :
           x \in DOMAIN stmts[t] \/ Waiting(t, x)',
         \A t \in Sites : \A i \in DOMAIN results'[t] :
           \/ \E j \in DOMAIN results[t] : results'[t][i] = results[t][j]
           \/ Reads(t, i)'
  PROVE  Queues'
<1>1. ASSUME NEW t \in Sites, NEW x \in DOMAIN stmts'[t] PROVE Waiting(t, x)'
  <2>1. CASE x \in DOMAIN stmts[t]
    <3>1. x \in Stmts /\ Waiting(t, x)
      BY <2>1 DEF NoticesTypes, NoticeTypeOK, NoticesRows, Queues
    <3> QED BY <3>1, GrowsKeeps
  <2> QED BY <2>1
<1>2. ASSUME NEW t \in Sites, NEW i \in DOMAIN results'[t]
      PROVE  Reads(t, i)'
  <2>1. CASE \E j \in DOMAIN results[t] : results'[t][i] = results[t][j]
    <3>1. PICK j \in DOMAIN results[t] : results'[t][i] = results[t][j]
      BY <2>1
    <3>2. results[t][j] \in Stmts /\ Reading(t, results[t][j])
      BY ResultFacts DEF NoticesRows, Queues
    <3> DEFINE x == results[t][j]
    <3>3. x \in Stmts /\ Reading(t, x) /\ results'[t][i] = x
      BY <3>1, <3>2
    <3> HIDE DEF x
    <3>4. \A z \in Stmts : Reading(t, z) => Reading(t, z)'
      BY GrowsKeeps
    <3>5. \A z \in Stmts : Reading(t, z)' /\ z = results'[t][i] => Reads(t, i)'
      BY DEF Reading, Reads
    <3> QED BY <3>3, <3>4, <3>5
  <2> QED BY <2>1
<1> QED BY <1>1, <1>2 DEF Queues, Reads

LEMMA QueueSteps ==
  ASSUME NoticesTypes, NoticesTypes', NoticesRows, Grows, NEW s \in Sites,
         NEW sqls, NEW x, NEW y
  PROVE  /\ /\ Added(s, sqls) /\ (\A z \in sqls : Waiting(s, z)')
            /\ UNCHANGED results \/ Dropped(s)
            => Queues'
         /\ Removed(s, x) /\ UNCHANGED results => Queues'
         /\ Removed(s, x) /\ Appended(s, y) /\ Reading(s, y)' => Queues'
         /\ UNCHANGED stmts /\ (UNCHANGED results \/ Dropped(s)) => Queues'
<1> DEFINE Ws == \A t \in Sites : \A z \in DOMAIN stmts'[t] :
                   z \in DOMAIN stmts[t] \/ Waiting(t, z)'
           Rs == \A t \in Sites : \A i \in DOMAIN results'[t] :
                   \/ \E j \in DOMAIN results[t] : results'[t][i] = results[t][j]
                   \/ Reads(t, i)'
<1>1. Added(s, sqls) /\ (\A z \in sqls : Waiting(s, z)') => Ws
  BY DEF Added
<1>2. Removed(s, x) => Ws
  BY DEF Removed
<1>3. UNCHANGED stmts => Ws
  OBVIOUS
<1>4. UNCHANGED results => Rs
  OBVIOUS
<1>5. Dropped(s) => Rs
  <2> SUFFICES ASSUME Dropped(s), NEW t \in Sites, NEW i \in DOMAIN results'[t]
               PROVE  \E j \in DOMAIN results[t] : results'[t][i] = results[t][j]
    OBVIOUS
  <2>1. CASE t = s
    <3>1. /\ DOMAIN results'[s] = 1 .. Len(results'[s])
          /\ DOMAIN results[s] = 1 .. Len(results[s])
      BY ResultFacts, results'[s] \in Seq(Stmts) DEF Dropped
    <3>2. i + 1 \in DOMAIN results[s] /\ results'[s][i] = results[s][i + 1]
      BY <2>1, <3>1 DEF Dropped
    <3> QED BY <2>1, <3>2
  <2>2. CASE t # s
    BY <2>2 DEF Dropped
  <2> QED BY <2>1, <2>2
<1>6. Appended(s, y) /\ Reading(s, y)' => Rs
  <2> SUFFICES ASSUME Appended(s, y), Reading(s, y)', NEW t \in Sites,
                      NEW i \in DOMAIN results'[t]
               PROVE  \/ \E j \in DOMAIN results[t] : results'[t][i] = results[t][j]
                      \/ Reads(t, i)'
    OBVIOUS
  <2>1. CASE t = s /\ i = Len(results[s]) + 1
    <3>1. results'[t][i] = y
      BY <2>1 DEF Appended
    <3>2. Reading(t, y)'
      BY <2>1
    <3> QED BY <2>1, <3>1, <3>2 DEF Reading, Reads
  <2>2. CASE t = s /\ i # Len(results[s]) + 1
    <3>1. /\ DOMAIN results'[s] = 1 .. Len(results'[s])
          /\ DOMAIN results[s] = 1 .. Len(results[s])
      BY ResultFacts, results'[s] \in Seq(Stmts) DEF Appended
    <3>2. i \in DOMAIN results[s] /\ results'[s][i] = results[s][i]
      BY <2>2, <3>1, ResultFacts DEF Appended
    <3> QED BY <2>2, <3>2
  <2>3. CASE t # s
    BY <2>3 DEF Appended
  <2> QED BY <2>1, <2>2, <2>3
<1> HIDE DEF Ws, Rs
<1>7. Ws /\ Rs => Queues'
  BY QueuesKept DEF Ws, Rs
<1> QED BY <1>1, <1>2, <1>3, <1>4, <1>5, <1>6, <1>7

LEMMA RunsKeepsRows ==
  ASSUME NoticesTypes, NoticesTypes', NoticesRows, NEW s \in Sites, NEW x, Runs(s, x)
  PROVE  RowsKept /\ Queues'
<1>1. x \in DOMAIN stmts[s] /\ x \in Stmts /\ Waiting(s, x) /\ Removed(s, x)
  BY ExecutedRemoves DEF Runs, NoticesTypes, NoticeTypeOK, NoticesRows, Queues
<1> USE DEF past, tables
<1>2. CASE WriteNote(s, x)
  BY <1>1, <1>2, WriteNoteKeepsRows, QueueSteps DEF RowsKept, WriteNote
<1>3. CASE MakeChange(s, x)
  <2>1. RowsKept
    BY <1>3, SteadyKeepsRows DEF MakeChange, Steady
  <2>2. Appended(s, x) /\ Reading(s, x)'
    BY <1>1, <1>3, AnswersAppend DEF MakeChange, Reading
  <2> QED BY <1>1, <2>1, <2>2, QueueSteps DEF RowsKept
<1>4. CASE Select(s, x)
  <2>1. RowsKept
    BY <1>4, SteadyKeepsRows DEF Select, Steady
  <2>2. PICK y : y = [x EXCEPT !.ids = Found(s, x.op)]
    OBVIOUS
  <2>3. y.op = x.op /\ y.ids = Found(s, x.op)
    BY <1>1, <2>2 DEF Stmts
  <2>4. y \in Stmts
    <3>1. Found(s, x.op) \in SUBSET Nat
      BY <1>1, <1>4 DEF Select, Found, NoticesTypes, NoticeTypeOK, Waiting
    <3> QED BY <1>1, <2>2, <3>1 DEF Stmts
  <2>5. Answers(s, y)
    BY <1>4, <2>2 DEF Select
  <2>6. Reading(s, y)'
    <3>1. UNCHANGED <<notes, casts, gone, late, nextNote, nextCast, amount>>
      BY <1>4 DEF Select
    <3>2. y.op \in {"notes", "casts", "sync"}
      BY <1>4, <2>3 DEF Select
    <3>3. y.op = "notes" => \A k \in y.ids : k < nextNote'[s]
      BY <2>3, <3>1 DEF Found, NoticesRows, Rows
    <3>4. y.op = "casts" => y.ids = casts'[s]
      BY <2>3, <3>1 DEF Found
    <3>5. y.op = "sync" => amount \in Nat /\ y.ids = {amount}
      BY <2>3 DEF Found, NoticesTypes, NoticeTypeOK
    <3>6. y.op \in {"notes", "casts"} => s \in Servers
      BY <1>1, <2>3 DEF Waiting
    <3> QED BY <3>2, <3>3, <3>4, <3>5, <3>6 DEF Reading
  <2> QED BY <1>1, <2>1, <2>4, <2>5, <2>6, AnswersAppend, QueueSteps DEF RowsKept
<1>5. CASE Forget(s, x)
  <2>1. RowsKept
    <3>1. notes \in [Sites -> SUBSET Nat]
      BY DEF NoticesTypes, NoticeTypeOK
    <3>2. Steady
      BY <1>5, <3>1 DEF Forget, Steady
    <3> QED BY <3>2, SteadyKeepsRows
  <2> QED BY <1>1, <1>5, <2>1, QueueSteps DEF RowsKept, Forget
<1>6. CASE Clear(s, x)
  BY <1>1, <1>6, ClearKeepsRows, QueueSteps DEF RowsKept, Clear
<1>7. CASE OpenCast(s, x)
  BY <1>1, <1>7, OpenCastKeepsRows, QueueSteps DEF RowsKept, OpenCast
<1>8. CASE Fails(s, x)
  <2>1. RowsKept
    BY <1>8, SteadyKeepsRows DEF Fails, Steady
  <2> QED BY <1>1, <1>8, <2>1, QueueSteps DEF RowsKept, Fails
<1> QED BY <1>2, <1>3, <1>4, <1>5, <1>6, <1>7, <1>8 DEF Runs

(* What the head of the answers was, when a callback takes it. *)
LEMMA HeadFacts ==
  ASSUME NoticesTypes, NoticesRows, NEW s \in Sites, NEW op, Answered(s, op), Taken(s)
  PROVE  /\ Dropped(s) /\ results[s][1].op = op /\ results[s][1].ids = Read(s)
         /\ Reading(s, results[s][1]) /\ Read(s) \subseteq Nat
<1>1. Dropped(s)
  BY TakenDrops DEF Answered
<1>2. 1 \in DOMAIN results[s]
  BY <1>1, ResultFacts DEF Dropped
<1> QED BY <1>1, <1>2 DEF Dropped, Answered, Read, NoticesRows, Queues, Stmts

LEMMA CallbackKeepsRows ==
  ASSUME NoticesTypes, NoticesTypes', NoticesRows, NEW s \in Sites, Callback(s)
  PROVE  RowsKept /\ Queues'
<1> USE DEF tables, past, clients
<1>1. CASE Changed(s)
  <2>1. RowsKept
    BY <1>1, SteadyKeepsRows DEF Changed, Steady
  <2>2. Added(s, NoteAll(s)) /\ Dropped(s)
    BY <1>1, QueueAdds, HeadFacts DEF Changed
  <2>3. \A z \in NoteAll(s) : Waiting(s, z)'
    BY DEF NoteAll, Stmt, Waiting
  <2> QED BY <2>1, <2>2, <2>3, QueueSteps DEF RowsKept
<1>2. CASE GotNotes(s)
  <2>1. RowsKept
    BY <1>2, SteadyKeepsRows DEF GotNotes, Steady
  <2>2. PICK sqls : sqls = IF Read(s) = {} THEN {}
                           ELSE SyncItem(s) \cup {Stmt("forget", s, Read(s))}
    OBVIOUS
  <2>3. Added(s, sqls) /\ Dropped(s)
    BY <1>2, <2>2, QueueAdds, HeadFacts DEF GotNotes
  <2>4. s \in Servers /\ \A k \in Read(s) : k < nextNote[s]
    BY <1>2, HeadFacts DEF GotNotes, Reading
  <2>5. \A z \in sqls : Waiting(s, z)'
    <3>1. nextNote' = nextNote
      BY <1>2 DEF GotNotes
    <3>2. \A z \in SyncItem(s) : z.op = "sync"
      BY DEF SyncItem, Stmt
    <3>3. \A z \in sqls : \/ z.op = "sync"
                          \/ z.op = "forget" /\ z.ids = Read(s)
      BY <2>2, <3>2 DEF Stmt
    <3> QED BY <2>4, <3>1, <3>3 DEF Waiting
  <2> QED BY <2>1, <2>3, <2>5, QueueSteps DEF RowsKept
<1>3. CASE GotCasts(s)
  <2>1. Answered(s, "casts") /\ Taken(s)
    BY <1>3 DEF GotCasts
  <2>2. /\ Reading(s, results[s][1]) /\ results[s][1].op = "casts"
        /\ results[s][1].ids = Read(s) /\ Dropped(s) /\ Read(s) \subseteq Nat
    BY <2>1, HeadFacts
  <2>3. /\ s \in Servers /\ Read(s) \subseteq casts[s] \cup gone[s]
        /\ \A m \in Read(s), r \in casts[s] : r <= m => r \in Read(s) \cup late[s]
    BY <2>2 DEF Reading
  <2>4. /\ heard \in [Servers -> SUBSET Nat] /\ Read(s) \subseteq Nat
        /\ heard' = [heard EXCEPT ![s] = @ \cup Read(s)]
        /\ UNCHANGED <<notes, casts, opening, nextNote, nextCast, gone, late>>
    BY <1>3, <2>2 DEF GotCasts, NoticesTypes, NoticeTypeOK
  <2>5. RowsKept
    <3>1. Steady
      BY <2>3, <2>4 DEF Steady
    <3> QED BY <3>1, SteadyKeepsRows
  <2>6. PICK sqls : sqls = IF Read(s) = {} THEN {} ELSE {Stmt("clear", s, {Max(Read(s))})}
    OBVIOUS
  <2>7. Added(s, sqls)
    BY <1>3, <2>6, QueueAdds DEF GotCasts
  <2>8. \A z \in sqls : Waiting(s, z)'
    <3> SUFFICES ASSUME NEW z \in sqls PROVE Waiting(s, z)'
      OBVIOUS
    <3>1. Read(s) # {} /\ z = Stmt("clear", s, {Max(Read(s))})
      BY <2>6
    <3>2. Max(Read(s)) \in Read(s)
      BY <2>1, <3>1, CastsRead
    <3>3. z.op = "clear" /\ z.ids \subseteq Read(s)
      BY <3>1, <3>2 DEF Stmt
    <3>4. Read(s) \subseteq heard'[s]
      BY <2>3, <2>4
    <3>5. z.ids \subseteq casts'[s] \cup gone'[s]
      BY <2>3, <2>4, <3>3
    <3>6. \A m \in z.ids, r \in casts'[s] : r <= m => r \in heard'[s] \cup late'[s]
      BY <2>3, <2>4, <3>3, <3>4
    <3> QED BY <2>3, <3>3, <3>5, <3>6 DEF Waiting
  <2> QED BY <2>2, <2>5, <2>7, <2>8, QueueSteps DEF RowsKept
<1>4. CASE GotAmount(s)
  <2>1. RowsKept
    BY <1>4, SteadyKeepsRows DEF GotAmount, Steady
  <2>2. UNCHANGED stmts /\ Dropped(s)
    BY <1>4, HeadFacts DEF GotAmount
  <2> QED BY <2>1, <2>2, QueueSteps DEF RowsKept
<1> QED BY <1>1, <1>2, <1>3, <1>4 DEF Callback

LEMMA OtherKeepsRows ==
  ASSUME NoticesTypes, NoticesTypes', NoticesRows, NEW s \in Sites
  PROVE  /\ s \in Servers /\ Change(s) => RowsKept /\ Queues'
         /\ s \in Servers /\ Broadcast(s) => RowsKept /\ Queues'
         /\ s \in Servers /\ Task(s) => RowsKept /\ Queues'
         /\ ChangeNow(s) => RowsKept /\ Queues'
         /\ Login(s) => RowsKept /\ Queues'
         /\ Logout(s) => RowsKept /\ Queues'
         /\ CommitCast(s) => RowsKept /\ Queues'
         /\ CenterTask => RowsKept /\ Queues'
         /\ Restart(s) => RowsKept /\ Queues'
<1> USE DEF tables, past, clients, queues
<1>1. ASSUME s \in Servers, Change(s) PROVE RowsKept /\ Queues'
  <2>1. RowsKept
    BY <1>1, SteadyKeepsRows DEF Change, Steady
  <2>2. Added(s, {Stmt("change", s, {})}) /\ UNCHANGED results
    BY <1>1, QueueAdds DEF Change
  <2>3. \A z \in {Stmt("change", s, {})} : Waiting(s, z)'
    BY DEF Stmt, Waiting
  <2> QED BY <2>1, <2>2, <2>3, QueueSteps DEF RowsKept
<1>2. ASSUME s \in Servers, Broadcast(s) PROVE RowsKept /\ Queues'
  <2>1. RowsKept
    BY <1>2, SteadyKeepsRows DEF Broadcast, Steady
  <2> DEFINE S == {Stmt("cast", t, {}) : t \in Servers}
  <2>2. \A z \in S : Waiting(s, z)'
    BY DEF Stmt, Waiting
  <2>3. Queue(s, S) /\ UNCHANGED results
    BY <1>2 DEF Broadcast
  <2> HIDE DEF S
  <2>4. Added(s, S)
    BY <2>3, QueueAdds
  <2> QED BY <2>1, <2>2, <2>3, <2>4, QueueSteps DEF RowsKept
<1>3. ASSUME s \in Servers, Task(s) PROVE RowsKept /\ Queues'
  <2>1. RowsKept
    BY <1>3, SteadyKeepsRows DEF Task, Steady
  <2>2. PICK op \in {"notes", "casts"} :
          Queue(s, {Stmt(op, s, {})}) /\ UNCHANGED results
    BY <1>3 DEF Task
  <2>3. Added(s, {Stmt(op, s, {})})
    BY <2>2, QueueAdds
  <2>4. \A z \in {Stmt(op, s, {})} : Waiting(s, z)'
    BY <1>3 DEF Stmt, Waiting
  <2> QED BY <2>1, <2>2, <2>3, <2>4, QueueSteps DEF RowsKept
<1>4. ASSUME ChangeNow(s) PROVE RowsKept /\ Queues'
  <2>1. RowsKept
    BY <1>4, SteadyKeepsRows DEF ChangeNow, Steady
  <2>2. Added(s, NoteAll(s)) /\ UNCHANGED results
    BY <1>4, QueueAdds DEF ChangeNow
  <2>3. \A z \in NoteAll(s) : Waiting(s, z)'
    BY DEF NoteAll, Stmt, Waiting
  <2> QED BY <2>1, <2>2, <2>3, QueueSteps DEF RowsKept
<1>5. ASSUME Login(s) PROVE RowsKept /\ Queues'
  <2>1. RowsKept
    BY <1>5, SteadyKeepsRows DEF Login, Steady
  <2>2. Added(s, {Stmt("sync", s, {})}) /\ UNCHANGED results
    BY <1>5, QueueAdds DEF Login
  <2>3. \A z \in {Stmt("sync", s, {})} : Waiting(s, z)'
    BY DEF Stmt, Waiting
  <2> QED BY <2>1, <2>2, <2>3, QueueSteps DEF RowsKept
<1>6. ASSUME Logout(s) PROVE RowsKept /\ Queues'
  <2>1. RowsKept
    BY <1>6, SteadyKeepsRows DEF Logout, Steady
  <2> QED BY <1>6, <2>1, QueueSteps DEF RowsKept, Logout
<1>7. ASSUME CommitCast(s) PROVE RowsKept /\ Queues'
  <2>1. RowsKept
    BY <1>7, CommitKeepsRows
  <2> QED BY <1>7, <2>1, QueueSteps DEF RowsKept, CommitCast
<1>8. ASSUME CenterTask PROVE RowsKept /\ Queues'
  <2>1. notes \in [Sites -> SUBSET Nat] /\ Center \in Sites
    BY DEF NoticesTypes, NoticeTypeOK, Sites
  <2>2. Steady
    BY <1>8, <2>1 DEF CenterTask, Steady
  <2>3. RowsKept
    BY <2>2, SteadyKeepsRows
  <2>4. PICK sqls : sqls = SyncItem(Center)
    OBVIOUS
  <2>5. Added(Center, sqls) /\ UNCHANGED results
    BY <1>8, <2>1, <2>4, QueueAdds DEF CenterTask
  <2>6. \A z \in sqls : Waiting(Center, z)'
    BY <2>4 DEF SyncItem, Stmt, Waiting
  <2>7. Grows
    BY <2>3 DEF RowsKept
  <2> QED BY <2>1, <2>3, <2>5, <2>6, <2>7, QueueSteps
<1>9. ASSUME Restart(s) PROVE RowsKept /\ Queues'
  <2>1. opening \in [Sites -> [id : Nat, to : Sites]]
    BY DEF NoticesTypes, NoticeTypeOK
  <2>2. Steady
    BY <1>9, <2>1 DEF Restart, Steady
  <2>3. RowsKept
    BY <2>2, SteadyKeepsRows
  <2>4. /\ \A t \in Sites : DOMAIN stmts'[t] \subseteq DOMAIN stmts[t]
        /\ \A t \in Sites : results'[t] = results[t] \/ results'[t] = <<>>
    <3>1. /\ stmts = [t \in Sites |-> stmts[t]] /\ results \in [Sites -> Seq(Stmts)]
          /\ stmts' = [stmts EXCEPT ![s] = EmptyBag]
          /\ results' = [results EXCEPT ![s] = <<>>]
      BY <1>9 DEF Restart, NoticesTypes, Shape
    <3>2. \A t \in Sites : stmts'[t] = IF t = s THEN EmptyBag ELSE stmts[t]
      BY <3>1
    <3> QED BY <3>1, <3>2, EmptyFacts
  <2>5. DOMAIN <<>> = {}
    OBVIOUS
  <2>6. Grows
    BY <2>3 DEF RowsKept
  <2> QED BY <2>3, <2>4, <2>5, <2>6, QueuesKept
<1> QED BY <1>1, <1>2, <1>3, <1>4, <1>5, <1>6, <1>7, <1>8, <1>9

LEMMA NoticesRowsStep ==
  ASSUME NoticesTypes, NoticesTypes', NoticesRows, [NoticeNext]_noticeVars
  PROVE  NoticesRows'
<1>1. Servers \subseteq Sites /\ Homes \subseteq Sites
  BY NoticesAssumption DEF Sites
<1> SUFFICES RowsKept /\ Queues'
  BY DEF RowsKept, NoticesRows
<1>2. ASSUME NEW s \in Sites, NEW ops, Execute(s, ops) PROVE RowsKept /\ Queues'
  BY <1>2, ExecuteRuns, RunsKeepsRows
<1>3. CASE UNCHANGED noticeVars
  <2>1. RowsKept
    BY <1>3, SteadyKeepsRows DEF noticeVars, tables, past, Steady
  <2>2. PICK s : s \in Sites
    BY DEF Sites
  <2> QED BY <1>3, <2>1, <2>2, QueueSteps DEF RowsKept, noticeVars, queues
<1>4. ASSUME NEW s \in Servers,
             Change(s) \/ Broadcast(s) \/ Task(s) \/ CommitCast(s) \/ Restart(s)
      PROVE  RowsKept /\ Queues'
  BY <1>1, <1>4, OtherKeepsRows
<1>5. ASSUME NEW s \in Homes, Login(s) \/ Logout(s) PROVE RowsKept /\ Queues'
  BY <1>1, <1>5, OtherKeepsRows
<1>6. ASSUME NEW s \in Sites, ChangeNow(s) \/ Callback(s) PROVE RowsKept /\ Queues'
  BY <1>6, OtherKeepsRows, CallbackKeepsRows
<1>7. ASSUME CenterTask PROVE RowsKept /\ Queues'
  BY <1>7, OtherKeepsRows DEF Sites
<1> QED BY <1>2, <1>3, <1>4, <1>5, <1>6, <1>7 DEF NoticeNext

-----------------------------------------------------------------------------
(* Notices: what is known of the amount *)

(* The ways in which what is known stays known, for one server s. *)
LEMMA SameAnswers ==
  ASSUME NEW s \in Sites, Known(s),
         results'[s] = results[s], shown'[s] = shown[s], amount' = amount,
         onlineAt'[s] => onlineAt[s], ~missed' => ~missed,
         onlineAt'[s] /\ ~missed' /\ (Coming(s) \/ Kept(s)) => Coming(s)' \/ Kept(s)'
  PROVE  Known(s)'
<1> SUFFICES ASSUME onlineAt'[s], ~missed', NEW i \in Nat, Stale(s, i)'
             PROVE  Settling(s, i)'
  BY DEF Known
<1>1. Stale(s, i)
  BY DEF Stale, Old
<1>2. Settling(s, i)
  BY <1>1 DEF Known
<1>3. FreshAfter(s, i) => FreshAfter(s, i)'
  BY DEF FreshAfter, Has
<1> QED BY <1>2, <1>3 DEF Settling

LEMMA ComingKnown == ASSUME NEW s \in Sites, Coming(s)' \/ Kept(s)' PROVE Known(s)'
BY DEF Known, Settling

LEMMA OfflineKnown ==
  ASSUME NEW s \in Sites, missed' \/ ~onlineAt'[s] PROVE Known(s)'
BY DEF Known

(* A note for s stays under way. *)
LEMMA NotedKept ==
  ASSUME NEW s \in Sites, \A t \in Sites : Noted(t, s) => Noted(t, s)',
         Stmt("sync", s, {}) \in DOMAIN stmts[s] => Stmt("sync", s, {}) \in DOMAIN stmts'[s]
  PROVE  Coming(s) => Coming(s)'
BY DEF Coming

(* An answer is taken that says nothing of the amount. *)
LEMMA TakeOther ==
  ASSUME NoticesTypes, NEW s \in Sites, Known(s), Dropped(s),
         results[s][1].op # "sync",
         shown'[s] = shown[s], amount' = amount, onlineAt' = onlineAt, missed' = missed,
         onlineAt'[s] /\ (Coming(s) \/ Kept(s)) => Coming(s)' \/ Kept(s)'
  PROVE  Known(s)'
<1>1. /\ DOMAIN results'[s] = 1 .. Len(results'[s])
      /\ DOMAIN results[s] = 1 .. Len(results[s])
      /\ Len(results[s]) \in Nat /\ Len(results'[s]) = Len(results[s]) - 1
      /\ \A i \in DOMAIN results'[s] : results'[s][i] = results[s][i + 1]
  BY ResultFacts, results'[s] \in Seq(Stmts) DEF Dropped
<1> SUFFICES ASSUME onlineAt'[s], ~missed', NEW i \in Nat, Stale(s, i)'
             PROVE  Settling(s, i)'
  BY DEF Known
<1>2. PICK j \in {i, i + 1} : Stale(s, j) /\ (i # 0 => j = i + 1)
  <2>1. CASE i = 0 /\ shown'[s] # amount'
    BY <2>1 DEF Stale
  <2>2. CASE i \in DOMAIN results'[s] /\ Old(results[s][i])'
    <3>1. i + 1 \in DOMAIN results[s] /\ results'[s][i] = results[s][i + 1]
      BY <1>1, <2>2
    <3>2. Old(results[s][i + 1])
      BY <2>2, <3>1 DEF Old
    <3> QED BY <3>1, <3>2 DEF Stale
  <2> QED BY <2>1, <2>2 DEF Stale
<1>3. Settling(s, j)
  BY <1>2 DEF Known
<1>4. ASSUME FreshAfter(s, j) PROVE FreshAfter(s, i)'
  <2>1. PICK k \in DOMAIN results[s] : k > j /\ Has(results[s][k])
    BY <1>4 DEF FreshAfter
  <2>2. k # 1
    BY <2>1 DEF Has
  <2>3. k - 1 \in DOMAIN results'[s] /\ k - 1 > i
    BY <1>1, <1>2, <2>1, <2>2
  <2>4. results'[s][k - 1] = results[s][k]
    BY <1>1, <2>1, <2>3
  <2> QED BY <2>1, <2>3, <2>4 DEF FreshAfter, Has
<1> QED BY <1>3, <1>4 DEF Settling

(* The client is sent what an answer has. *)
LEMMA TakeAmount ==
  ASSUME NoticesTypes, NoticesRows, NEW s \in Sites, Known(s), GotAmount(s)
  PROVE  Known(s)'
<1>1. /\ Dropped(s) /\ results[s][1].op = "sync" /\ results[s][1].ids = Read(s)
      /\ Answered(s, "sync")
  BY HeadFacts DEF GotAmount
<1>2. PICK v \in Nat : Read(s) = {v} /\ Max(Read(s)) = v
  BY <1>1, AmountRead
<1>3. /\ DOMAIN results'[s] = 1 .. Len(results'[s])
      /\ DOMAIN results[s] = 1 .. Len(results[s])
      /\ Len(results[s]) \in Nat /\ Len(results'[s]) = Len(results[s]) - 1
      /\ Len(results[s]) > 0
      /\ \A i \in DOMAIN results'[s] : results'[s][i] = results[s][i + 1]
  BY <1>1, ResultFacts, results'[s] \in Seq(Stmts) DEF Dropped
<1>4. /\ UNCHANGED <<stmts, notes, amount, missed, onlineAt>>
      /\ \A t \in Sites : t # s => results'[t] = results[t]
      /\ onlineAt[s] => shown'[s] = v
  BY <1>1, <1>2 DEF GotAmount, tables, past, Dropped, NoticesTypes, NoticeTypeOK
<1> SUFFICES ASSUME onlineAt'[s], ~missed', NEW i \in Nat, Stale(s, i)'
             PROVE  Settling(s, i)'
  BY DEF Known
<1>5. Stale(s, i + 1) /\ i + 1 \in Nat
  <2>1. CASE i = 0 /\ shown'[s] # amount'
    <3>1. Old(results[s][1]) /\ 1 \in DOMAIN results[s]
      BY <1>1, <1>2, <1>3, <1>4, <2>1 DEF Old
    <3> QED BY <2>1, <3>1 DEF Stale
  <2>2. CASE i \in DOMAIN results'[s] /\ Old(results[s][i])'
    <3>1. i + 1 \in DOMAIN results[s] /\ results'[s][i] = results[s][i + 1]
      BY <1>3, <2>2
    <3>2. Old(results[s][i + 1])
      BY <1>4, <2>2, <3>1 DEF Old
    <3> QED BY <3>1, <3>2 DEF Stale
  <2> QED BY <2>1, <2>2 DEF Stale
<1>6. Settling(s, i + 1)
  BY <1>4, <1>5 DEF Known
<1>7. Coming(s) => Coming(s)'
  <2>1. ASSUME NEW t \in Sites, Noted(t, s) PROVE Noted(t, s)'
    <3>1. CASE t # s
      BY <1>4, <2>1, <3>1 DEF Noted
    <3>2. CASE t = s
      <4>1. CASE Stmt("note", s, {}) \in DOMAIN stmts[t]
        BY <1>4, <4>1 DEF Noted
      <4>2. ASSUME NEW k \in DOMAIN results[t], results[t][k].op = "change"
            PROVE  Noted(t, s)'
        <5>1. k # 1
          BY <1>1, <3>2, <4>2
        <5>2. k - 1 \in DOMAIN results'[s] /\ results'[s][k - 1] = results[s][k]
          BY <1>3, <3>2, <5>1
        <5> QED BY <3>2, <4>2, <5>2 DEF Noted
      <4> QED BY <2>1, <4>1, <4>2 DEF Noted
    <3> QED BY <3>1, <3>2
  <2> QED BY <1>4, <2>1, NotedKept
<1>8. Kept(s) => Kept(s)'
  BY <1>4 DEF Kept
<1>9. ASSUME FreshAfter(s, i + 1) PROVE FreshAfter(s, i)'
  <2>1. PICK k \in DOMAIN results[s] : k > i + 1 /\ Has(results[s][k])
    BY <1>9 DEF FreshAfter
  <2>2. k - 1 \in DOMAIN results'[s] /\ k - 1 > i /\ results'[s][k - 1] = results[s][k]
    BY <1>3, <2>1
  <2> QED BY <1>4, <2>1, <2>2 DEF FreshAfter, Has
<1> QED BY <1>6, <1>7, <1>8, <1>9 DEF Settling

(* An answer is added that is not old. *)
LEMMA AddAnswer ==
  ASSUME NoticesTypes, NEW s \in Sites, Known(s), NEW y, Appended(s, y), ~Old(y),
         shown'[s] = shown[s], amount' = amount, onlineAt' = onlineAt, missed' = missed,
         onlineAt'[s] /\ (Coming(s) \/ Kept(s)) => Coming(s)' \/ Kept(s)' \/ Has(y)
  PROVE  Known(s)'
<1>1. /\ DOMAIN results'[s] = 1 .. Len(results'[s])
      /\ DOMAIN results[s] = 1 .. Len(results[s])
      /\ Len(results[s]) \in Nat /\ Len(results'[s]) = Len(results[s]) + 1
      /\ \A i \in DOMAIN results[s] : results'[s][i] = results[s][i]
      /\ results'[s][Len(results[s]) + 1] = y
  BY ResultFacts, results'[s] \in Seq(Stmts) DEF Appended
<1> SUFFICES ASSUME onlineAt'[s], ~missed', NEW i \in Nat, Stale(s, i)'
             PROVE  Settling(s, i)'
  BY DEF Known
<1>2. Stale(s, i) /\ i <= Len(results[s])
  <2>1. CASE i = 0 /\ shown'[s] # amount'
    BY <1>1, <2>1 DEF Stale
  <2>2. CASE i \in DOMAIN results'[s] /\ Old(results[s][i])'
    <3>1. i # Len(results[s]) + 1
      BY <1>1, <2>2 DEF Old
    <3>2. i \in DOMAIN results[s] /\ results'[s][i] = results[s][i]
      BY <1>1, <2>2, <3>1
    <3> QED BY <1>1, <2>2, <3>2 DEF Stale, Old
  <2> QED BY <2>1, <2>2 DEF Stale
<1>3. Settling(s, i)
  BY <1>2 DEF Known
<1>4. FreshAfter(s, i) => FreshAfter(s, i)'
  BY <1>1 DEF FreshAfter, Has
<1>5. Has(y) => FreshAfter(s, i)'
  <2>1. Len(results[s]) + 1 \in DOMAIN results'[s] /\ Len(results[s]) + 1 > i
    BY <1>1, <1>2
  <2> QED BY <1>1, <2>1 DEF FreshAfter, Has
<1> QED BY <1>3, <1>4, <1>5 DEF Settling

(* A statement that goes takes nothing with it that is known of u. *)
LEMMA RemovedNoted ==
  ASSUME NoticesTypes, NEW s \in Sites, NEW x, Removed(s, x), NEW u \in Sites, NEW y,
         UNCHANGED results \/ Appended(s, y)
  PROVE  /\ /\ x # Stmt("note", u, {})
            /\ x # Stmt("sync", u, {}) \/ s # u
            => (Coming(u) => Coming(u)')
         /\ notes'[u] = notes[u] => (Kept(u) => Kept(u)')
<1>1. ASSUME x # Stmt("note", u, {}), NEW t \in Sites, Noted(t, u) PROVE Noted(t, u)'
  <2>1. CASE Stmt("note", u, {}) \in DOMAIN stmts[t]
    BY <1>1, <2>1 DEF Removed, Noted
  <2>2. ASSUME NEW i \in DOMAIN results[t], results[t][i].op = "change"
        PROVE  Noted(t, u)'
    <3>1. CASE t = s /\ Appended(s, y)
      <4>1. /\ DOMAIN results'[s] = 1 .. Len(results'[s])
            /\ DOMAIN results[s] = 1 .. Len(results[s])
            /\ Len(results[s]) \in Nat
        BY <3>1, ResultFacts, results'[s] \in Seq(Stmts) DEF Appended
      <4>2. i \in DOMAIN results'[s] /\ results'[s][i] = results[s][i]
        BY <2>2, <3>1, <4>1 DEF Appended
      <4> QED BY <2>2, <3>1, <4>2 DEF Noted
    <3>2. CASE t # s \/ UNCHANGED results
      BY <2>2, <3>2 DEF Noted, Appended
    <3> QED BY <3>1, <3>2
  <2> QED BY <1>1, <2>1, <2>2 DEF Noted
<1>2. x # Stmt("sync", u, {}) \/ s # u =>
        (Stmt("sync", u, {}) \in DOMAIN stmts[u] => Stmt("sync", u, {}) \in DOMAIN stmts'[u])
  BY DEF Removed
<1>3. notes'[u] = notes[u] => (Kept(u) => Kept(u)')
  BY DEF Kept, Removed
<1> QED BY <1>1, <1>2, <1>3, NotedKept

LEMMA RunsKnown ==
  ASSUME NoticesTypes, NoticesRows, NEW s \in Sites, NEW x, Runs(s, x),
         NEW u \in Sites, Known(u)
  PROVE  Known(u)'
<1>1. /\ x \in DOMAIN stmts[s] /\ x \in Stmts /\ Waiting(s, x) /\ Removed(s, x)
      /\ UNCHANGED <<onlineAt, shown>>
  BY ExecutedRemoves DEF Runs, NoticesTypes, NoticeTypeOK, NoticesRows, Queues, clients
<1>2. \A op, to, ids : Stmt(op, to, ids).op = op /\ Stmt(op, to, ids).to = to
  BY DEF Stmt
<1> USE DEF past, tables
<1>3. CASE WriteNote(s, x)
  <2>1. UNCHANGED <<results, amount, missed>> /\ x.op = "note"
    BY <1>3 DEF WriteNote
  <2>2. CASE x.to = u
    <3>1. /\ notes \in [Sites -> SUBSET Nat] /\ nextNote[u] \in Nat
          /\ \A t \in Sites : \A y \in DOMAIN stmts[t] : y \in Stmts /\ Waiting(t, y)
      BY DEF NoticesTypes, NoticeTypeOK, NoticesRows, Queues
    <3>2. nextNote[u] \in notes'[u]
      BY <1>3, <2>2, <3>1 DEF WriteNote
    <3>3. \A y \in DOMAIN stmts[u] : y.op = "forget" => nextNote[u] \notin y.ids
      BY <3>1 DEF Waiting
    <3>4. DOMAIN stmts'[u] \subseteq DOMAIN stmts[u]
      BY <1>1 DEF Removed
    <3>5. Kept(u)'
      BY <3>2, <3>3, <3>4 DEF Kept
    <3> QED BY <3>5, ComingKnown
  <2>3. CASE x.to # u
    <3>1. notes'[u] = notes[u]
      <4>1. notes \in [Sites -> SUBSET Nat]
        BY DEF NoticesTypes, NoticeTypeOK
      <4> QED BY <1>3, <2>3, <4>1 DEF WriteNote
    <3>2. Coming(u) \/ Kept(u) => Coming(u)' \/ Kept(u)'
      BY <1>1, <1>2, <2>1, <2>3, <3>1, RemovedNoted
    <3> QED BY <1>1, <2>1, <3>2, SameAnswers
  <2> QED BY <2>2, <2>3
<1>4. CASE MakeChange(s, x)
  <2>1. Appended(s, x) /\ x.op = "change"
    BY <1>1, <1>4, AnswersAppend DEF MakeChange
  <2>2. Noted(s, u)'
    <3>1. DOMAIN results'[s] = 1 .. Len(results'[s]) /\ Len(results[s]) \in Nat
      BY <2>1, ResultFacts, results'[s] \in Seq(Stmts) DEF Appended
    <3>2. Len(results[s]) + 1 \in DOMAIN results'[s]
      BY <2>1, <3>1 DEF Appended
    <3> QED BY <2>1, <3>2 DEF Noted, Appended
  <2> QED BY <2>2, ComingKnown DEF Coming
<1>5. CASE Select(s, x)
  <2>1. PICK y : y = [x EXCEPT !.ids = Found(s, x.op)]
    OBVIOUS
  <2>2. y.op = x.op /\ y.ids = Found(s, x.op)
    BY <1>1, <2>1 DEF Stmts
  <2>3. y \in Stmts
    <3>1. Found(s, x.op) \in SUBSET Nat
      BY <1>1, <1>5 DEF Select, Found, NoticesTypes, NoticeTypeOK, Waiting
    <3> QED BY <1>1, <2>1, <3>1 DEF Stmts
  <2>4. Appended(s, y)
    BY <1>5, <2>1, <2>3, AnswersAppend DEF Select
  <2>5. UNCHANGED <<notes, amount, missed>> /\ x.op # "note"
    BY <1>5 DEF Select
  <2>6. ~Old(y) /\ (x.op = "sync" => Has(y))
    BY <2>2 DEF Old, Has, Found
  <2>7. CASE u = s
    <3>1. Coming(u) \/ Kept(u) => Coming(u)' \/ Kept(u)' \/ Has(y)
      BY <1>2, <2>4, <2>5, <2>6, <1>1, RemovedNoted
    <3> QED BY <1>1, <2>4, <2>5, <2>6, <2>7, <3>1, AddAnswer
  <2>8. CASE u # s
    <3>1. Coming(u) \/ Kept(u) => Coming(u)' \/ Kept(u)'
      BY <1>1, <1>2, <2>4, <2>5, <2>8, RemovedNoted
    <3>2. results'[u] = results[u]
      BY <2>4, <2>8 DEF Appended
    <3> QED BY <1>1, <2>5, <3>1, <3>2, SameAnswers
  <2> QED BY <2>7, <2>8
<1>6. CASE Forget(s, x)
  <2>1. UNCHANGED <<results, amount, missed>> /\ x.op = "forget"
    BY <1>6 DEF Forget
  <2>2. Coming(u) => Coming(u)'
    BY <1>1, <1>2, <2>1, RemovedNoted
  <2>3. Kept(u) => Kept(u)'
    <3>1. \A k \in notes[u] : (s = u => k \notin x.ids) => k \in notes'[u]
      <4>1. notes \in [Sites -> SUBSET Nat]
        BY DEF NoticesTypes, NoticeTypeOK
      <4> QED BY <1>6, <4>1 DEF Forget, Forgotten
    <3>2. DOMAIN stmts'[u] \subseteq DOMAIN stmts[u]
      BY <1>1 DEF Removed
    <3> QED BY <1>1, <2>1, <3>1, <3>2 DEF Kept
  <2> QED BY <1>1, <2>1, <2>2, <2>3, SameAnswers
<1>7. CASE Clear(s, x) \/ OpenCast(s, x)
  <2>1. UNCHANGED <<results, amount, missed, notes>> /\ x.op \in {"clear", "cast"}
    BY <1>7 DEF Clear, OpenCast
  <2>2. Coming(u) \/ Kept(u) => Coming(u)' \/ Kept(u)'
    BY <1>1, <1>2, <2>1, RemovedNoted
  <2> QED BY <1>1, <2>1, <2>2, SameAnswers
<1>8. CASE Fails(s, x)
  <2>1. /\ UNCHANGED <<results, amount, notes>>
        /\ missed' = (missed \/ x.op \in {"note", "sync"}) /\ missed \in BOOLEAN
    BY <1>8 DEF Fails, NoticesTypes, NoticeTypeOK
  <2>2. CASE x.op \in {"note", "sync"}
    BY <2>1, <2>2, OfflineKnown
  <2>3. CASE x.op \notin {"note", "sync"}
    <3>1. Coming(u) \/ Kept(u) => Coming(u)' \/ Kept(u)'
      BY <1>1, <1>2, <2>1, <2>3, RemovedNoted
    <3> QED BY <1>1, <2>1, <2>3, <3>1, SameAnswers
  <2> QED BY <2>2, <2>3
<1> QED BY <1>3, <1>4, <1>5, <1>6, <1>7, <1>8 DEF Runs

(* Nor does an answer that is taken, save that to a change. *)
LEMMA DroppedNoted ==
  ASSUME NoticesTypes, NEW s \in Sites, NEW u \in Sites,
         UNCHANGED results \/ (Dropped(s) /\ results[s][1].op # "change"),
         \A t \in Sites : DOMAIN stmts[t] \subseteq DOMAIN stmts'[t]
  PROVE  Coming(u) => Coming(u)'
<1>1. ASSUME NEW t \in Sites, Noted(t, u) PROVE Noted(t, u)'
  <2>1. CASE Stmt("note", u, {}) \in DOMAIN stmts[t]
    BY <2>1 DEF Noted
  <2>2. ASSUME NEW i \in DOMAIN results[t], results[t][i].op = "change"
        PROVE  Noted(t, u)'
    <3>1. CASE t = s /\ Dropped(s) /\ results[s][1].op # "change"
      <4>1. /\ DOMAIN results'[s] = 1 .. Len(results'[s])
            /\ DOMAIN results[s] = 1 .. Len(results[s])
            /\ Len(results'[s]) = Len(results[s]) - 1 /\ Len(results[s]) \in Nat
        BY <3>1, ResultFacts, results'[s] \in Seq(Stmts) DEF Dropped
      <4>2. i # 1
        BY <2>2, <3>1
      <4>3. i - 1 \in DOMAIN results'[s] /\ results'[s][i - 1] = results[s][i]
        BY <2>2, <3>1, <4>1, <4>2 DEF Dropped
      <4> QED BY <2>2, <3>1, <4>3 DEF Noted
    <3>2. CASE t # s \/ UNCHANGED results
      BY <2>2, <3>2 DEF Noted, Dropped
    <3> QED BY <3>1, <3>2
  <2> QED BY <1>1, <2>1, <2>2 DEF Noted
<1> QED BY <1>1, NotedKept

(* Notes for all servers are under way. *)
LEMMA AllNoted ==
  ASSUME NEW s \in Sites, Added(s, NoteAll(s)), NEW u \in Sites
  PROVE  Known(u)'
<1>1. Noted(s, u)'
  BY DEF Added, NoteAll, Noted
<1> QED BY <1>1, ComingKnown DEF Coming

LEMMA CallbackKnown ==
  ASSUME NoticesTypes, NoticesRows, NEW s \in Sites, Callback(s), NEW u \in Sites, Known(u)
  PROVE  Known(u)'
<1> USE DEF tables, past, clients
<1>1. CASE Changed(s)
  <2>1. Added(s, NoteAll(s))
    BY <1>1, QueueAdds DEF Changed
  <2> QED BY <2>1, AllNoted
<1>2. CASE GotNotes(s)
  <2>1. PICK sqls : sqls = IF Read(s) = {} THEN {}
                           ELSE SyncItem(s) \cup {Stmt("forget", s, Read(s))}
    OBVIOUS
  <2>2. /\ Added(s, sqls) /\ Dropped(s) /\ results[s][1].op = "notes"
        /\ UNCHANGED <<notes, amount, shown, onlineAt, missed>>
    BY <1>2, <2>1, QueueAdds, HeadFacts DEF GotNotes
  <2>3. Coming(u) => Coming(u)'
    <3>1. \A t \in Sites : DOMAIN stmts[t] \subseteq DOMAIN stmts'[t]
      BY <2>2 DEF Added
    <3> QED BY <2>2, <3>1, DroppedNoted
  <2>4. CASE u = s
    <3>1. ASSUME onlineAt[s], Read(s) # {} PROVE Coming(s)'
      BY <2>1, <2>2, <3>1 DEF SyncItem, Added, Coming
    <3>2. ASSUME Read(s) = {}, Kept(s) PROVE Kept(s)'
      BY <2>1, <2>2, <3>2 DEF Added, Kept
    <3>3. onlineAt'[u] /\ (Coming(u) \/ Kept(u)) => Coming(u)' \/ Kept(u)'
      BY <2>2, <2>3, <2>4, <3>1, <3>2
    <3> QED BY <2>2, <2>4, <3>3, TakeOther
  <2>5. CASE u # s
    <3>1. stmts'[u] = stmts[u] /\ results'[u] = results[u]
      BY <2>2, <2>5 DEF Added, Dropped
    <3>2. Kept(u) => Kept(u)'
      BY <2>2, <3>1 DEF Kept
    <3> QED BY <2>2, <2>3, <3>1, <3>2, SameAnswers
  <2> QED BY <2>4, <2>5
<1>3. CASE GotCasts(s)
  <2>1. PICK sqls : sqls = IF Read(s) = {} THEN {} ELSE {Stmt("clear", s, {Max(Read(s))})}
    OBVIOUS
  <2>2. /\ Added(s, sqls) /\ Dropped(s) /\ results[s][1].op = "casts"
        /\ UNCHANGED <<notes, amount, shown, onlineAt, missed>>
    BY <1>3, <2>1, QueueAdds, HeadFacts DEF GotCasts
  <2>3. Coming(u) => Coming(u)'
    <3>1. \A t \in Sites : DOMAIN stmts[t] \subseteq DOMAIN stmts'[t]
      BY <2>2 DEF Added
    <3> QED BY <2>2, <3>1, DroppedNoted
  <2>4. Kept(u) => Kept(u)'
    <3>1. \A z \in sqls : z.op # "forget"
      BY <2>1 DEF Stmt
    <3>2. \A z \in DOMAIN stmts'[u] : z.op = "forget" => z \in DOMAIN stmts[u]
      BY <2>2, <3>1 DEF Added
    <3> QED BY <2>2, <3>2 DEF Kept
  <2>5. CASE u = s
    BY <2>2, <2>3, <2>4, <2>5, TakeOther
  <2>6. CASE u # s
    BY <2>2, <2>3, <2>4, <2>6, SameAnswers DEF Dropped
  <2> QED BY <2>5, <2>6
<1>4. CASE GotAmount(s)
  <2>1. CASE u = s
    BY <1>4, <2>1, TakeAmount
  <2>2. CASE u # s
    <3>1. /\ Dropped(s) /\ results[s][1].op = "sync"
          /\ UNCHANGED <<stmts, notes, amount, onlineAt, missed>>
      BY <1>4, HeadFacts DEF GotAmount
    <3>2. shown'[u] = shown[u] /\ results'[u] = results[u]
      BY <1>4, <2>2, <3>1 DEF GotAmount, NoticesTypes, NoticeTypeOK, Dropped
    <3>3. Coming(u) => Coming(u)'
      BY <3>1, DroppedNoted
    <3>4. Kept(u) => Kept(u)'
      BY <3>1 DEF Kept
    <3> QED BY <3>1, <3>2, <3>3, <3>4, SameAnswers
  <2> QED BY <2>1, <2>2
<1> QED BY <1>1, <1>2, <1>3, <1>4 DEF Callback

(* Statements are added that delete no note. *)
LEMMA AddedKnown ==
  ASSUME NoticesTypes, NEW s \in Sites, NEW sqls, Added(s, sqls), UNCHANGED results,
         \A z \in sqls : z.op # "forget", NEW u \in Sites
  PROVE  /\ Coming(u) => Coming(u)'
         /\ notes'[u] = notes[u] => (Kept(u) => Kept(u)')
<1>1. /\ \A t \in Sites : DOMAIN stmts[t] \subseteq DOMAIN stmts'[t]
      /\ \A z \in DOMAIN stmts'[u] : z.op = "forget" => z \in DOMAIN stmts[u]
  BY DEF Added
<1> QED BY <1>1, DroppedNoted DEF Kept

LEMMA OtherKnown ==
  ASSUME NoticesTypes, NEW s \in Sites, NEW u \in Sites, Known(u)
  PROVE  /\ Change(s) => Known(u)'
         /\ Broadcast(s) => Known(u)'
         /\ Task(s) => Known(u)'
         /\ ChangeNow(s) => Known(u)'
         /\ Login(s) => Known(u)'
         /\ Logout(s) => Known(u)'
         /\ CommitCast(s) => Known(u)'
         /\ CenterTask => Known(u)'
         /\ Restart(s) => Known(u)'
<1> USE DEF tables, past, clients, queues
<1>1. \A op, to, ids : Stmt(op, to, ids).op = op
  BY DEF Stmt
<1>2. /\ onlineAt \in [Sites -> BOOLEAN] /\ shown \in [Sites -> Nat] /\ missed \in BOOLEAN
      /\ notes \in [Sites -> SUBSET Nat]
  BY DEF NoticesTypes, NoticeTypeOK
<1>3. ASSUME NEW sqls, Queue(s, sqls), \A z \in sqls : z.op # "forget",
             UNCHANGED <<results, notes, shown, amount, onlineAt, missed>>
      PROVE  Known(u)'
  <2>1. Added(s, sqls)
    BY <1>3, QueueAdds
  <2> QED BY <1>3, <2>1, AddedKnown, SameAnswers
<1>4. Change(s) => Known(u)'
  BY <1>1, <1>3 DEF Change
<1>5. Broadcast(s) => Known(u)'
  <2> DEFINE S == {Stmt("cast", t, {}) : t \in Servers}
  <2>1. \A z \in S : z.op # "forget"
    BY <1>1
  <2>2. Broadcast(s) => Queue(s, S)
    BY DEF Broadcast
  <2> HIDE DEF S
  <2> QED BY <1>3, <2>1, <2>2 DEF Broadcast
<1>6. Task(s) => Known(u)'
  <2> SUFFICES ASSUME Task(s) PROVE Known(u)'
    OBVIOUS
  <2>1. PICK op \in {"notes", "casts"} : Queue(s, {Stmt(op, s, {})})
    BY DEF Task
  <2>2. \A z \in {Stmt(op, s, {})} : z.op # "forget"
    BY <1>1
  <2> QED BY <1>3, <2>1, <2>2 DEF Task
<1>7. ChangeNow(s) => Known(u)'
  BY QueueAdds, AllNoted DEF ChangeNow
<1>8. Login(s) => Known(u)'
  <2> SUFFICES ASSUME Login(s) PROVE Known(u)'
    OBVIOUS
  <2>1. /\ Added(s, {Stmt("sync", s, {})})
        /\ UNCHANGED <<results, notes, amount, missed>>
        /\ \A z \in {Stmt("sync", s, {})} : z.op # "forget"
    BY <1>1, QueueAdds DEF Login
  <2>2. CASE u = s
    BY <2>1, <2>2, ComingKnown DEF Added, Coming
  <2>3. CASE u # s
    <3>1. onlineAt'[u] = onlineAt[u] /\ shown'[u] = shown[u]
      BY <1>2, <2>3 DEF Login
    <3> QED BY <2>1, <3>1, AddedKnown, SameAnswers
  <2> QED BY <2>2, <2>3
<1>9. Logout(s) => Known(u)'
  <2> SUFFICES ASSUME Logout(s) PROVE Known(u)'
    OBVIOUS
  <2>1. /\ UNCHANGED <<stmts, results, shown, notes, amount, missed>>
        /\ onlineAt'[u] => onlineAt[u]
    BY <1>2 DEF Logout
  <2>2. Coming(u) \/ Kept(u) => Coming(u)' \/ Kept(u)'
    BY <2>1 DEF Coming, Noted, Kept
  <2> QED BY <2>1, <2>2, SameAnswers
<1>10. CommitCast(s) => Known(u)'
  <2> SUFFICES ASSUME CommitCast(s) PROVE Known(u)'
    OBVIOUS
  <2>1. UNCHANGED <<stmts, results, shown, notes, amount, missed, onlineAt>>
    BY DEF CommitCast
  <2>2. Coming(u) \/ Kept(u) => Coming(u)' \/ Kept(u)'
    BY <2>1 DEF Coming, Noted, Kept
  <2> QED BY <2>1, <2>2, SameAnswers
<1>11. CenterTask => Known(u)'
  <2> SUFFICES ASSUME CenterTask PROVE Known(u)'
    OBVIOUS
  <2>1. Center \in Sites
    BY DEF Sites
  <2>2. PICK sqls : sqls = SyncItem(Center)
    OBVIOUS
  <2>3. /\ Added(Center, sqls) /\ \A z \in sqls : z.op # "forget"
        /\ UNCHANGED <<results, shown, amount, missed, onlineAt>>
    BY <1>1, <2>1, <2>2, QueueAdds DEF CenterTask, SyncItem
  <2>4. CASE u = Center /\ onlineAt[Center]
    <3>1. Coming(u)'
      BY <2>2, <2>3, <2>4 DEF SyncItem, Added, Coming
    <3> QED BY <3>1, ComingKnown
  <2>5. CASE u = Center /\ ~onlineAt[Center]
    BY <2>3, <2>5, OfflineKnown
  <2>6. CASE u # Center
    <3>1. notes'[u] = notes[u]
      BY <1>2, <2>6 DEF CenterTask
    <3> QED BY <2>1, <2>3, <3>1, AddedKnown, SameAnswers
  <2> QED BY <2>4, <2>5, <2>6
<1>12. Restart(s) => Known(u)'
  <2> SUFFICES ASSUME Restart(s), ~missed' PROVE Known(u)'
    BY OfflineKnown
  <2>1. CASE u = s
    <3>1. ~onlineAt'[u]
      BY <1>2, <2>1 DEF Restart
    <3> QED BY <3>1, OfflineKnown
  <2>2. CASE u # s
    <3>1. /\ stmts = [t \in Sites |-> stmts[t]] /\ results \in [Sites -> Seq(Stmts)]
          /\ stmts' = [stmts EXCEPT ![s] = EmptyBag]
          /\ results' = [results EXCEPT ![s] = <<>>]
      BY DEF Restart, NoticesTypes, Shape
    <3>2. \A t \in Sites : t # s => stmts'[t] = stmts[t] /\ results'[t] = results[t]
      BY <3>1
    <3>3. /\ ~missed /\ UNCHANGED <<shown, amount, notes>>
          /\ Stmt("note", Center, {}) \notin DOMAIN stmts[s]
          /\ \A t \in Servers : Stmt("note", t, {}) \notin DOMAIN stmts[s]
          /\ \A i \in DOMAIN results[s] : results[s][i].op # "change"
      BY DEF Restart
    <3>4. ~Noted(s, u)
      BY <3>3 DEF Noted, Sites
    <3>5. Coming(u) => Coming(u)'
      BY <2>2, <3>2, <3>4 DEF Coming, Noted
    <3>6. Kept(u) => Kept(u)'
      BY <2>2, <3>2, <3>3 DEF Kept
    <3>7. onlineAt'[u] = onlineAt[u]
      BY <1>2, <2>2 DEF Restart
    <3> QED BY <2>2, <3>2, <3>3, <3>5, <3>6, <3>7, SameAnswers
  <2> QED BY <2>1, <2>2
<1> QED BY <1>4, <1>5, <1>6, <1>7, <1>8, <1>9, <1>10, <1>11, <1>12

LEMMA KnownStep ==
  ASSUME NoticesTypes, NoticesRows, NEW u \in Sites, Known(u), [NoticeNext]_noticeVars
  PROVE  Known(u)'
<1>1. Servers \subseteq Sites /\ Homes \subseteq Sites
  BY NoticesAssumption DEF Sites
<1>2. ASSUME NEW s \in Sites, NEW ops, Execute(s, ops) PROVE Known(u)'
  BY <1>2, ExecuteRuns, RunsKnown
<1>3. CASE UNCHANGED noticeVars
  <2>1. UNCHANGED <<stmts, results, shown, notes, amount, missed, onlineAt>>
    BY <1>3 DEF noticeVars, tables, clients, queues, past
  <2>2. Coming(u) \/ Kept(u) => Coming(u)' \/ Kept(u)'
    BY <2>1 DEF Coming, Noted, Kept
  <2> QED BY <2>1, <2>2, SameAnswers
<1>4. ASSUME NEW s \in Servers,
             Change(s) \/ Broadcast(s) \/ Task(s) \/ CommitCast(s) \/ Restart(s)
      PROVE  Known(u)'
  BY <1>1, <1>4, OtherKnown
<1>5. ASSUME NEW s \in Homes, Login(s) \/ Logout(s) PROVE Known(u)'
  BY <1>1, <1>5, OtherKnown
<1>6. ASSUME NEW s \in Sites, ChangeNow(s) \/ Callback(s) PROVE Known(u)'
  BY <1>6, OtherKnown, CallbackKnown
<1>7. ASSUME CenterTask PROVE Known(u)'
  BY <1>7, OtherKnown DEF Sites
<1> QED BY <1>2, <1>3, <1>4, <1>5, <1>6, <1>7 DEF NoticeNext

-----------------------------------------------------------------------------
(* Notices: the theorems *)

LEMMA NoticesInvInit == NoticeInit => NoticesInv
<1> SUFFICES ASSUME NoticeInit PROVE NoticesInv
  OBVIOUS
<1>1. NoticesTypes
  <2>1. NoRow \in [id : Nat, to : Sites] /\ 0 \in 0 .. MaxEvents
    BY NoticesAssumption DEF NoRow, Sites
  <2>2. TableTypes
    BY <2>1 DEF NoticeInit, TableTypes
  <2>3. \A s \in Sites : stmts[s] = EmptyBag /\ results[s] = <<>>
    BY DEF NoticeInit
  <2>4. Shape
    <3>1. <<>> \in Seq(Stmts)
      OBVIOUS
    <3> QED BY <2>3, <3>1 DEF NoticeInit, Shape
  <2>5. QueueTypes
    BY <2>3, <2>4, EmptyFacts DEF QueueTypes
  <2> QED BY <2>1, <2>2, <2>5, TypesAre DEF NoticeInit
<1>2. DOMAIN <<>> = {}
  OBVIOUS
<1>3. NoticesRows
  BY <1>2, EmptyFacts DEF NoticeInit, NoticesRows, Rows, Openings, Queues, BroadcastHeard, Sites
<1>4. \A s \in Sites : Known(s)
  BY DEF NoticeInit, Known
<1> QED BY <1>1, <1>3, <1>4 DEF NoticesInv

LEMMA NoticesInvStep == NoticesInv /\ [NoticeNext]_noticeVars => NoticesInv'
<1> SUFFICES ASSUME NoticesInv, [NoticeNext]_noticeVars PROVE NoticesInv'
  OBVIOUS
<1>1. NoticesTypes /\ NoticesRows /\ \A s \in Sites : Known(s)
  BY DEF NoticesInv
<1>2. NoticesTypes'
  BY <1>1, NoticesTypesStep
<1>3. NoticesRows'
  BY <1>1, <1>2, NoticesRowsStep
<1>4. \A s \in Sites : Known(s)'
  BY <1>1, KnownStep
<1> QED BY <1>2, <1>3, <1>4 DEF NoticesInv

(* A client that shows an old amount is going to be sent another, unless a *)
(* fault lost the news: whatever servers, homes, changes and faults, and   *)
(* in whatever order the statements are executed (save_item_update_result, *)
(* sync_user_item, task_on_5sec).                                          *)
THEOREM StaleAmountsAreKnown == NoticeSpec => []ItemInv
<1>1. NoticesInv => ItemInv
  <2> SUFFICES ASSUME NoticesInv, NEW s \in Sites,
                      onlineAt[s], shown[s] # amount, ~missed, notes[s] = {}
               PROVE  \/ Stmt("sync", s, {}) \in DOMAIN stmts[s]
                      \/ \E i \in DOMAIN results[s] :
                           results[s][i].op = "sync" /\ results[s][i].ids = {amount}
                      \/ \E t \in Sites : \/ \E i \in DOMAIN results[t] :
                                               results[t][i].op = "change"
                                          \/ Stmt("note", s, {}) \in DOMAIN stmts[t]
    BY DEF ItemInv, StaleIsKnown, NoticesInv, NoticesTypes
  <2>1. Stale(s, 0)
    BY DEF Stale
  <2>2. Settling(s, 0)
    BY <2>1 DEF NoticesInv, Known
  <2> QED BY <2>2 DEF Settling, Coming, Noted, Kept, FreshAfter, Has
<1> QED BY <1>1, NoticesInvInit, NoticesInvStep, PTL DEF NoticeSpec

(* A broadcast is not deleted before its server has sent it, unless it was *)
(* committed behind one with a greater id ("where rowid <= maxid" of       *)
(* task_on_5sec): for every set of servers and any number of broadcasts.   *)
THEOREM BroadcastsAreHeard == NoticeSpec => []BroadcastHeard
<1>1. NoticesInv => BroadcastHeard
  BY DEF NoticesInv, NoticesRows
<1> QED BY <1>1, NoticesInvInit, NoticesInvStep, PTL DEF NoticeSpec

-----------------------------------------------------------------------------
(* Accounts: the inductive invariant *)

(* Statements that were taken are executed before a login is handled. *)
ThreadInv ==
  /\ thread \in [step : Steps, msg : Message \cup {NoMsg}, id : Pids \cup {None}]
  /\ thread.step = "free" => thread = Idle
  /\ thread.step # "free" => thread.id # None /\ thread.msg \in Message /\ batch = {}

(* The objects that handle_pending_logins has still to look at.            *)
Listed == ToSet(pending)

(* An object is held once: by the thread, in the list, or as the user's.   *)
(* None that exists is forgotten, and none that is gone is pointed to.     *)
Objects ==
  /\ thread.id # None => players[thread.id].user # None
  /\ \A p \in Listed : players[p].user # None /\ p # thread.id
  /\ \A i, j \in DOMAIN pending : pending[i] = pending[j] => i = j
  /\ \A u \in Users : online[u] # None =>
       players[online[u]].user = u /\ online[u] \notin {thread.id} \cup Listed
  /\ \A c \in Conns : client[c] # None => players[client[c]].user # None
  /\ \A p \in Pids : players[p].user # None =>
       p \in {thread.id, online[players[p].user]} \cup Listed

(* The user of an object made by a login by password is marked, and no     *)
(* statement waits that takes the mark, unless they have raced.            *)
Marks ==
  \A p \in Pids : players[p].marks =>
    \/ players[p].user \in raced
    \/ players[p].user \in isOnline /\ players[p].user \notin queued \cup batch

AccountTypes == TypeOK /\ ThreadInv
AccountsInv == AccountTypes /\ Objects /\ Marks /\ GoneUnmarked

-----------------------------------------------------------------------------
(* Accounts: types *)

LEMMA FieldTypes ==
  ASSUME AccountTypes, NEW p \in Pids
  PROVE  /\ players[p] \in Player \cup {Gone} /\ players[p].user \in Users \cup {None}
         /\ players[p].conn \in Conns \cup {None}
         /\ players[p].user # None => players[p] \in Player
         /\ players[p].user = None => players[p] = Gone /\ ~players[p].marks
<1>1. players[p] \in Player \cup {Gone}
  BY DEF AccountTypes, TypeOK
<1>2. CASE players[p] \in Player
  <2>1. players[p].user \in Users /\ players[p].conn \in Conns \cup {None}
    BY <1>2 DEF Player
  <2> QED BY <1>2, <2>1, AccountsAssumption
<1>3. CASE players[p] = Gone
  BY <1>3 DEF Gone
<1> QED BY <1>1, <1>2, <1>3

LEMMA HeldTypes ==
  ASSUME AccountTypes, Objects
  PROVE  /\ Listed \subseteq Pids
         /\ \A u \in Users : online[u] # None =>
              online[u] \in Pids /\ players[online[u]] \in Player
         /\ \A c \in Conns : client[c] # None =>
              client[c] \in Pids /\ players[client[c]] \in Player
         /\ thread.id # None => thread.id \in Pids /\ players[thread.id] \in Player
<1>1. /\ pending \in Seq(Pids) /\ online \in [Users -> Pids \cup {None}]
      /\ client \in [Conns -> Pids \cup {None}] /\ thread.id \in Pids \cup {None}
  BY DEF AccountTypes, TypeOK
<1>2. \A u \in Users : online[u] # None => players[online[u]].user # None
  BY AccountsAssumption DEF Objects
<1>3. Listed \subseteq Pids
  BY <1>1 DEF Listed, ToSet
<1> QED BY <1>1, <1>2, <1>3, FieldTypes DEF Objects

(* The objects as they are after some that keep their users and marks. *)
Alike(ps) ==
  /\ ps \in [Pids -> Player \cup {Gone}]
  /\ \A p \in Pids : ps[p].user = players[p].user /\ ps[p].marks = players[p].marks

LEMMA MarkLostAlike ==
  ASSUME AccountTypes, Objects, NEW c \in Conns
  PROVE  Alike(MarkLost(players, c))
<1>1. players \in [Pids -> Player \cup {Gone}]
  BY DEF AccountTypes, TypeOK
<1>2. CASE client[c] = None
  BY <1>1, <1>2 DEF MarkLost, Alike
<1>3. CASE client[c] # None
  <2> DEFINE q == client[c]
             w == [players[q] EXCEPT !.lost = TRUE]
  <2>1. q \in Pids /\ players[q] \in Player
    BY <1>3, HeldTypes
  <2>2. w \in Player /\ w.user = players[q].user /\ w.marks = players[q].marks
    BY <2>1 DEF Player
  <2>3. MarkLost(players, c) = [players EXCEPT ![q] = w]
    BY <1>3 DEF MarkLost
  <2> HIDE DEF q, w
  <2> QED BY <1>1, <2>1, <2>2, <2>3 DEF Alike
<1> QED BY <1>2, <1>3

LEMMA WithoutTypes ==
  ASSUME NEW ps \in [Pids -> Player \cup {Gone}], NEW p \in Pids
  PROVE  /\ Without(p, ps) \in [Pids -> Player \cup {Gone}]
         /\ \A q \in Pids : Without(p, ps)[q] = IF q = p THEN Gone ELSE ps[q]
BY DEF Without

LEMMA ClearedTypes ==
  ASSUME AccountTypes, NEW p
  PROVE  /\ Cleared(p) \in [Conns -> Pids \cup {None}]
         /\ \A c \in Conns : Cleared(p)[c] # None =>
              Cleared(p)[c] = client[c] /\ client[c] # p
BY DEF Cleared, AccountTypes, TypeOK

LEMMA NewPidIs ==
  ASSUME Room
  PROVE  NewPid \in Pids /\ players[NewPid] = Gone
BY DEF Room, NewPid

LEMMA GoneIs ==
  /\ Gone.user = None /\ Gone.conn = None /\ Gone.marks = FALSE
  /\ \A u, m : /\ [Gone EXCEPT !.user = u, !.marks = m].user = u
               /\ [Gone EXCEPT !.user = u, !.marks = m].marks = m
BY DEF Gone

LEMMA FreeThread ==
  ASSUME ThreadInv
  PROVE  /\ thread.step = "free" <=> thread = Idle
         /\ thread = Idle => thread.id = None /\ thread.msg = NoMsg
         /\ thread.step # "free" => thread # Idle
BY DEF ThreadInv, Idle

LEMMA IdleIs ==
  /\ Idle \in [step : Steps, msg : Message \cup {NoMsg}, id : Pids \cup {None}]
  /\ Idle.step = "free" /\ Idle.id = None
BY DEF Idle, Steps

(* A queued login. *)
LEMMA HeadTask ==
  ASSUME AccountTypes, tasks # <<>>
  PROVE  Head(tasks) \in Message /\ Tail(tasks) \in Seq(Message)
BY DEF AccountTypes, TypeOK

LEMMA BoundTypes ==
  ASSUME TypeOK, [Next]_vars
  PROVE  msgs' \in 0 .. MaxMsgs /\ faults' \in 0 .. MaxFaults
<1>1. /\ msgs \in 0 .. MaxMsgs /\ MaxMsgs \in Nat
      /\ faults \in 0 .. MaxFaults /\ MaxFaults \in Nat
  BY AccountsAssumption DEF TypeOK
<1>2. msgs' = msgs \/ (msgs < MaxMsgs /\ msgs' = msgs + 1)
  BY DEF Next, Close, Free, Connect, LoginMsg, TokenMsg, Push, Counted, Grab, ExecFails,
         Load, LoadFails, Hook, Enlist, ExecOffline, Sweep, Age, HandlePending,
         EnterFirst, EnterAgain, EnterInstead, EnterCrash, Crash, vars
<1>3. faults' = faults \/ (faults < MaxFaults /\ faults' = faults + 1)
  BY DEF Next, Close, Free, Connect, LoginMsg, TokenMsg, Grab, ExecFails,
         Load, LoadFails, Hook, Enlist, ExecOffline, Sweep, Age, HandlePending,
         EnterFirst, EnterAgain, EnterInstead, EnterCrash, Crash, vars
<1> QED BY <1>1, <1>2, <1>3

LEMMA TypesNext ==
  ASSUME sock' \in [Conns -> {"open", "closed", "gone"}], isLogin' \subseteq Conns,
         client' \in [Conns -> Pids \cup {None}], tasks' \in Seq(Message),
         players' \in [Pids -> Player \cup {Gone}], pending' \in Seq(Pids),
         online' \in [Users -> Pids \cup {None}], ThreadInv',
         queued' \cup batch' \cup isOnline' \cup raced' \cup leftover' \subseteq Users,
         msgs' \in 0 .. MaxMsgs, faults' \in 0 .. MaxFaults
  PROVE  AccountTypes'
<1>1. /\ thread'.step \in Steps /\ thread'.msg \in Message \cup {NoMsg}
      /\ thread'.id \in Pids \cup {None}
  BY DEF ThreadInv
<1>2. (queued \cup batch \cup isOnline \cup raced \cup leftover)' \subseteq Users
  OBVIOUS
<1> QED BY <1>1, <1>2 DEF AccountTypes, TypeOK

LEMMA TypesGive ==
  ASSUME AccountTypes
  PROVE  /\ sock \in [Conns -> {"open", "closed", "gone"}] /\ isLogin \subseteq Conns
         /\ client \in [Conns -> Pids \cup {None}] /\ tasks \in Seq(Message)
         /\ players \in [Pids -> Player \cup {Gone}] /\ pending \in Seq(Pids)
         /\ online \in [Users -> Pids \cup {None}] /\ ThreadInv
         /\ queued \cup batch \cup isOnline \cup raced \cup leftover \subseteq Users
         /\ msgs \in 0 .. MaxMsgs /\ faults \in 0 .. MaxFaults
BY DEF AccountTypes, TypeOK

(* What keeps its type and the thread's invariant in a step of the loop.   *)
LEMMA ThreadKept ==
  ASSUME ThreadInv, thread' = thread, batch' \subseteq batch
  PROVE  ThreadInv'
BY DEF ThreadInv

LEMMA ThreadIdle ==
  ASSUME thread' = Idle
  PROVE  ThreadInv'
BY IdleIs DEF ThreadInv

LEMMA RestartTypes ==
  ASSUME AccountTypes, NEW saved, Restarted(saved)
  PROVE  /\ sock' \in [Conns -> {"open", "closed", "gone"}] /\ isLogin' \subseteq Conns
         /\ client' \in [Conns -> Pids \cup {None}] /\ tasks' \in Seq(Message)
         /\ players' \in [Pids -> Player \cup {Gone}] /\ pending' \in Seq(Pids)
         /\ online' \in [Users -> Pids \cup {None}] /\ ThreadInv'
         /\ queued' \cup batch' \cup isOnline' \cup raced' \cup leftover' \subseteq Users
<1>1. ThreadInv'
  BY ThreadIdle DEF Restarted
<1>2. tasks' \in Seq(Message) /\ pending' \in Seq(Pids)
  <2>1. tasks' = <<>> /\ pending' = <<>>
    BY DEF Restarted
  <2> QED BY <2>1
<1> QED BY <1>1, <1>2, TypesGive DEF Restarted

LEMMA ConnTypes ==
  ASSUME AccountTypes, Objects, [Next]_vars, NEW c \in Conns,
         Close(c) \/ Free(c) \/ Connect(c) \/ \E u \in Users : LoginMsg(c, u) \/ TokenMsg(c, u)
  PROVE  AccountTypes'
<1>1. msgs' \in 0 .. MaxMsgs /\ faults' \in 0 .. MaxFaults
  BY BoundTypes DEF AccountTypes
<1>2. thread' = thread /\ batch' = batch
  BY DEF Close, Free, Connect, LoginMsg, TokenMsg, memory, statements
<1>3. ThreadInv'
  BY <1>2, TypesGive, ThreadKept
<1>4. UNCHANGED <<pending, online, queued, isOnline, raced, leftover>>
  BY DEF Close, Free, Connect, LoginMsg, TokenMsg, memory, statements, history
<1>5. tasks' \in Seq(Message)
  <2>1. ASSUME NEW u \in Users, NEW k \in Kinds
        PROVE  [kind |-> k, conn |-> c, user |-> u] \in Message
    BY DEF Message
  <2>2. ASSUME NEW u \in Users, NEW k \in Kinds, Push(k, c, u) PROVE tasks' \in Seq(Message)
    BY <2>1, <2>2, TypesGive DEF Push
  <2>3. "login" \in Kinds /\ "token" \in Kinds
    BY DEF Kinds
  <2>4. \/ tasks' = tasks
        \/ \E u \in Users : Push("login", c, u) \/ Push("token", c, u)
    BY DEF Close, Free, Connect, LoginMsg, TokenMsg, memory
  <2> QED BY <2>2, <2>3, <2>4, TypesGive
<1>6. players' \in [Pids -> Player \cup {Gone}]
  <2>1. CASE players' = MarkLost(players, c)
    BY <2>1, MarkLostAlike DEF Alike
  <2>2. CASE Free(c)
    <3>1. ASSUME NEW p \in Pids, players[p].conn = c
          PROVE  [players[p] EXCEPT !.conn = None] \in Player
      <4>1. players[p] # Gone
        <5>1. c # None
          BY AccountsAssumption
        <5> QED BY <3>1, <5>1 DEF Gone
      <4>2. players[p] \in Player
        BY <4>1, FieldTypes
      <4> QED BY <4>2 DEF Player
    <3>2. players' = [p \in Pids |-> IF players[p].conn = c THEN [players[p] EXCEPT !.conn = None]
                                     ELSE players[p]]
      BY <2>2 DEF Free
    <3>3. \A p \in Pids : (IF players[p].conn = c THEN [players[p] EXCEPT !.conn = None]
                           ELSE players[p]) \in Player \cup {Gone}
      BY <3>1, TypesGive
    <3> QED BY <3>2, <3>3
  <2>3. CASE players' = players
    BY <2>3, TypesGive
  <2> QED BY <2>1, <2>2, <2>3 DEF Close, Connect, LoginMsg, TokenMsg, memory
<1>7. client' \in [Conns -> Pids \cup {None}]
  BY TypesGive DEF Close, Free, Connect, LoginMsg, TokenMsg, connVars
<1>8. sock' \in [Conns -> {"open", "closed", "gone"}]
  BY TypesGive DEF Close, Free, Connect, LoginMsg, TokenMsg, connVars
<1>9. isLogin' \subseteq Conns
  BY TypesGive DEF Close, Free, Connect, LoginMsg, TokenMsg, connVars
<1> QED BY <1>1, <1>2, <1>3, <1>4, <1>5, <1>6, <1>7, <1>8, <1>9, TypesGive, TypesNext

LEMMA ThreadTypes ==
  ASSUME AccountTypes, Objects, [Next]_vars,
         \/ Grab \/ ExecFails \/ Load \/ LoadFails \/ Hook \/ Enlist
         \/ \E u \in Users : ExecOffline(u)
  PROVE  AccountTypes'
<1> USE DEF connVars, memory, statements, history
<1>1. msgs' \in 0 .. MaxMsgs /\ faults' \in 0 .. MaxFaults
  BY BoundTypes DEF AccountTypes
<1>2. sock' = sock /\ online' = online
  BY DEF Grab, ExecFails, Load, LoadFails, Hook, Enlist, ExecOffline
<1>3. isLogin' \subseteq Conns
  BY TypesGive DEF Grab, ExecFails, Load, LoadFails, Hook, Enlist, ExecOffline, Refused
<1>4. tasks' \in Seq(Message)
  BY TypesGive, HeadTask
     DEF Grab, ExecFails, Load, LoadFails, Hook, Enlist, ExecOffline, Takes
<1>5. CASE Grab \/ LoadFails
  <2>1. /\ thread' = Idle /\ batch' = queued /\ queued' = {}
        /\ UNCHANGED <<client, pending, players, isOnline, raced, leftover>>
    BY <1>5 DEF Grab, LoadFails, NextRound
  <2> QED BY <1>1, <1>2, <1>3, <1>4, <2>1, ThreadIdle, TypesGive, TypesNext
<1>6. CASE ExecFails \/ \E u \in Users : ExecOffline(u)
  <2>1. /\ batch' \subseteq batch /\ isOnline' \subseteq isOnline
        /\ leftover' \subseteq leftover \cup batch
        /\ UNCHANGED <<client, thread, pending, players, queued, raced>>
    BY <1>6 DEF ExecFails, ExecOffline
  <2>2. ThreadInv'
    BY <2>1, TypesGive, ThreadKept
  <2> QED BY <1>1, <1>2, <1>3, <1>4, <2>1, <2>2, TypesGive, TypesNext
<1>7. CASE Load
  <2>1. PICK u, m, p :
          /\ u = Head(tasks).user /\ m = (Head(tasks).kind = "login") /\ p = NewPid
    OBVIOUS
  <2>2. u \in Users /\ Head(tasks) \in Message
    BY <1>7, <2>1, HeadTask DEF Load, Takes, Message
  <2>3. p \in Pids /\ players[p] = Gone
    BY <1>7, <2>1, NewPidIs DEF Load
  <2>4. /\ players' = [players EXCEPT ![p] = [Gone EXCEPT !.user = u, !.marks = m]]
        /\ thread' = [step |-> "loaded", msg |-> Head(tasks), id |-> p]
        /\ isOnline' \subseteq isOnline \cup {u} /\ raced' \subseteq raced \cup {u}
        /\ batch' = {} /\ UNCHANGED <<client, pending, queued, leftover>>
    BY <1>7, <2>1 DEF Load, Takes
  <2>5. players' \in [Pids -> Player \cup {Gone}]
    <3>1. [Gone EXCEPT !.user = u, !.marks = m] \in Player
      <4>1. m \in BOOLEAN
        BY <2>1
      <4> QED BY <2>2, <4>1 DEF Gone, Player
    <3> QED BY <2>3, <2>4, <3>1, TypesGive
  <2>6. ThreadInv'
    <3>1. p # None
      BY <2>3, AccountsAssumption
    <3> QED BY <2>2, <2>3, <2>4, <3>1 DEF ThreadInv, Steps, Idle
  <2> QED BY <1>1, <1>2, <1>3, <1>4, <2>2, <2>4, <2>5, <2>6, TypesGive, TypesNext
<1>8. CASE Hook
  <2> DEFINE c == thread.msg.conn
             q == thread.id
             w == [players[q] EXCEPT !.conn = c]
  <2>1. thread.step = "loaded" /\ thread.msg \in Message /\ q # None /\ batch = {}
    BY <1>8, TypesGive DEF Hook, ThreadInv
  <2>2. c \in Conns /\ q \in Pids /\ players[q] \in Player
    BY <2>1, HeldTypes DEF Message
  <2>3. w \in Player
    BY <2>2 DEF Player
  <2>4. /\ thread' = [thread EXCEPT !.step = "hooked"]
        /\ players' = [players EXCEPT ![q] = w]
        /\ client' = [client EXCEPT ![c] = q]
        /\ UNCHANGED <<pending, queued, batch, isOnline, raced, leftover>>
    BY <1>8 DEF Hook
  <2>5. ThreadInv'
    BY <2>1, <2>4, TypesGive DEF ThreadInv, Steps, Idle
  <2> HIDE DEF c, q, w
  <2>6. /\ players' \in [Pids -> Player \cup {Gone}]
        /\ client' \in [Conns -> Pids \cup {None}]
    BY <2>2, <2>3, <2>4, TypesGive
  <2> QED BY <1>1, <1>2, <1>3, <1>4, <2>4, <2>5, <2>6, TypesGive, TypesNext
<1>9. CASE Enlist
  <2>1. /\ thread' = Idle /\ batch' = queued /\ queued' = {}
        /\ pending' = Append(pending, thread.id)
        /\ UNCHANGED <<client, players, isOnline, raced, leftover>>
    BY <1>9 DEF Enlist, NextRound
  <2>2. thread.id \in Pids
    BY <1>9, TypesGive DEF Enlist, ThreadInv
  <2>3. pending' \in Seq(Pids)
    BY <2>1, <2>2, TypesGive
  <2> QED BY <1>1, <1>2, <1>3, <1>4, <2>1, <2>3, ThreadIdle, TypesGive, TypesNext
<1> QED BY <1>5, <1>6, <1>7, <1>8, <1>9

(* The head of the list, and the rest.                                     *)
LEMMA PendingHead ==
  ASSUME AccountTypes, Objects, NEW p, NEW u, Pending(p, u)
  PROVE  /\ p \in Pids /\ p # None /\ u \in Users /\ players[p] \in Player
         /\ p \in Listed /\ p # thread.id /\ Tail(pending) \in Seq(Pids)
         /\ online[u] # None => online[u] \in Pids /\ online[u] # p
<1>1. pending \in Seq(Pids) /\ pending # <<>> /\ p = pending[1] /\ 1 \in DOMAIN pending
  BY TypesGive DEF Pending
<1>2. p \in Pids /\ p \in Listed /\ Tail(pending) \in Seq(Pids)
  BY <1>1 DEF Listed, ToSet
<1>3. players[p].user # None /\ p # thread.id /\ u = players[p].user /\ p # None
  BY <1>2, AccountsAssumption DEF Objects, Pending
<1>4. players[p] \in Player /\ u \in Users
  BY <1>2, <1>3, FieldTypes
<1>5. online[u] # None => online[u] \in Pids /\ online[u] # p
  BY <1>2, <1>4, HeldTypes DEF Objects
<1> QED BY <1>2, <1>3, <1>4, <1>5

LEMMA PickedWaits ==
  ASSUME AccountTypes, Objects, NEW p, NEW u, Pending(p, u), Picked(p)
  PROVE  /\ Listed' = Listed \ {p}
         /\ \A i, j \in DOMAIN pending' : pending'[i] = pending'[j] => i = j
<1> DEFINE s == pending
           t == Tail(pending)
<1>1. s \in Seq(Pids) /\ s # <<>> /\ p = s[1]
  BY TypesGive DEF Pending
<1>2. \A i, j \in DOMAIN s : s[i] = s[j] => i = j
  BY DEF Objects
<1> HIDE DEF s
<1>3. /\ Len(s) \in Nat \ {0} /\ DOMAIN s = 1 .. Len(s) /\ DOMAIN Tail(s) = 1 .. Len(s) - 1
      /\ \A i \in 1 .. Len(s) - 1 : Tail(s)[i] = s[i + 1]
  BY <1>1
<1>4. ToSet(Tail(s)) = ToSet(s) \ {p}
  <2>1. ASSUME NEW x \in ToSet(Tail(s)) PROVE x \in ToSet(s) /\ x # p
    <3>1. PICK i \in 1 .. Len(s) - 1 : x = Tail(s)[i]
      BY <1>3 DEF ToSet
    <3>2. i + 1 \in DOMAIN s /\ 1 \in DOMAIN s /\ i + 1 # 1 /\ x = s[i + 1]
      BY <1>3, <3>1
    <3> QED BY <1>1, <1>2, <3>2 DEF ToSet
  <2>2. ASSUME NEW x \in ToSet(s), x # p PROVE x \in ToSet(Tail(s))
    <3>1. PICK i \in 1 .. Len(s) : x = s[i]
      BY <1>3 DEF ToSet
    <3>2. i # 1
      BY <1>1, <2>2, <3>1
    <3>3. i - 1 \in DOMAIN Tail(s) /\ Tail(s)[i - 1] = s[i]
      BY <1>3, <3>1, <3>2
    <3> QED BY <3>1, <3>3 DEF ToSet
  <2> QED BY <2>1, <2>2
<1>5. \A i, j \in DOMAIN Tail(s) : Tail(s)[i] = Tail(s)[j] => i = j
  <2> SUFFICES ASSUME NEW i \in 1 .. Len(s) - 1, NEW j \in 1 .. Len(s) - 1,
                      Tail(s)[i] = Tail(s)[j]
               PROVE  i = j
    BY <1>3
  <2>1. i + 1 \in DOMAIN s /\ j + 1 \in DOMAIN s /\ s[i + 1] = s[j + 1]
    BY <1>3
  <2>2. i + 1 = j + 1
    BY <1>2, <2>1
  <2> QED BY <2>2
<1>6. pending' = Tail(s) /\ pending = s
  BY DEF Picked, s
<1> QED BY <1>4, <1>5, <1>6 DEF Listed

LEMMA LoopTypes ==
  ASSUME AccountTypes, Objects, [Next]_vars,
         \/ HandlePending \/ Crash \/ \E u \in Users : Sweep(u) \/ Age(u)
  PROVE  AccountTypes'
<1> USE DEF connVars, memory, statements, history
<1>1. msgs' \in 0 .. MaxMsgs /\ faults' \in 0 .. MaxFaults
  BY BoundTypes DEF AccountTypes
<1>2. ASSUME NEW saved, Restarted(saved) PROVE AccountTypes'
  BY <1>1, <1>2, RestartTypes, TypesNext
<1>3. ASSUME NEW p, NEW u, Pending(p, u), Picked(p), UNCHANGED thread, UNCHANGED batch
      PROVE  /\ ThreadInv' /\ pending' \in Seq(Pids)
             /\ p \in Pids /\ u \in Users
             /\ online[u] # None => online[u] \in Pids
  BY <1>3, PendingHead, ThreadKept, TypesGive DEF Picked
<1>4. ASSUME NEW p, NEW u, EnterFirst(p, u) PROVE AccountTypes'
  <2>1. /\ ThreadInv' /\ pending' \in Seq(Pids) /\ p \in Pids /\ u \in Users
    BY <1>3, <1>4 DEF EnterFirst
  <2>2. /\ UNCHANGED <<sock, client, tasks, players, queued, batch, isOnline, raced, leftover>>
        /\ isLogin' \subseteq isLogin /\ online' = [online EXCEPT ![u] = p]
    BY <1>4 DEF EnterFirst, Released
  <2>3. online' \in [Users -> Pids \cup {None}]
    BY <2>1, <2>2, TypesGive
  <2> QED BY <1>1, <2>1, <2>2, <2>3, TypesGive, TypesNext
<1>5. ASSUME NEW p, NEW u, EnterAgain(p, u) PROVE AccountTypes'
  <2>1. /\ ThreadInv' /\ pending' \in Seq(Pids) /\ p \in Pids /\ u \in Users
    BY <1>3, <1>5 DEF EnterAgain
  <2>2. /\ UNCHANGED <<sock, tasks, online, queued, batch, isOnline, raced, leftover>>
        /\ isLogin' \subseteq isLogin
        /\ players' = Without(p, players) /\ client' = Cleared(p)
    BY <1>5 DEF EnterAgain, Released
  <2>3. players' \in [Pids -> Player \cup {Gone}] /\ client' \in [Conns -> Pids \cup {None}]
    BY <2>1, <2>2, TypesGive, WithoutTypes, ClearedTypes
  <2> QED BY <1>1, <2>1, <2>2, <2>3, TypesGive, TypesNext
<1>6. ASSUME NEW p, NEW u, EnterInstead(p, u) PROVE AccountTypes'
  <2>1. /\ ThreadInv' /\ pending' \in Seq(Pids) /\ p \in Pids /\ u \in Users
        /\ online[u] \in Pids
    BY <1>3, <1>6 DEF EnterInstead
  <2>2. /\ UNCHANGED <<tasks, batch, isOnline, raced, leftover>> /\ queued' = queued
        /\ isLogin' \subseteq isLogin /\ online' = [online EXCEPT ![u] = p]
        /\ client' = Cleared(online[u])
        /\ \/ sock' = sock /\ players' = Without(online[u], players)
           \/ /\ \E c \in Conns : /\ sock' = [sock EXCEPT ![c] = "closed"]
                                  /\ players' = Without(online[u], MarkLost(players, c))
    <3>1. Socket(online[u]) \in Conns \cup {None}
      BY <2>1, FieldTypes DEF Socket
    <3> QED BY <1>6, <3>1 DEF EnterInstead, Released, Replaced
  <2>3. players' \in [Pids -> Player \cup {Gone}]
    <3>1. ASSUME NEW ps \in [Pids -> Player \cup {Gone}], players' = Without(online[u], ps)
          PROVE  players' \in [Pids -> Player \cup {Gone}]
      BY <2>1, <3>1, WithoutTypes
    <3>2. \A c \in Conns : MarkLost(players, c) \in [Pids -> Player \cup {Gone}]
      BY MarkLostAlike DEF Alike
    <3> QED BY <2>2, <3>1, <3>2, TypesGive
  <2>4. client' \in [Conns -> Pids \cup {None}] /\ online' \in [Users -> Pids \cup {None}]
    BY <2>1, <2>2, TypesGive, ClearedTypes
  <2>5. sock' \in [Conns -> {"open", "closed", "gone"}]
    BY <2>2, TypesGive
  <2> QED BY <1>1, <2>1, <2>2, <2>3, <2>4, <2>5, TypesGive, TypesNext
<1>7. ASSUME NEW u \in Users, Sweep(u) PROVE AccountTypes'
  <2>1. online[u] \in Pids
    BY <1>7, HeldTypes DEF Sweep
  <2>2. /\ UNCHANGED <<sock, isLogin, tasks, thread, pending, batch, isOnline, leftover>>
        /\ queued' = queued \cup {u} /\ raced' \subseteq raced \cup {u}
        /\ online' = [online EXCEPT ![u] = None]
        /\ players' = Without(online[u], players) /\ client' = Cleared(online[u])
    BY <1>7 DEF Sweep, Flow
  <2>3. /\ players' \in [Pids -> Player \cup {Gone}] /\ client' \in [Conns -> Pids \cup {None}]
        /\ online' \in [Users -> Pids \cup {None}]
    BY <2>1, <2>2, TypesGive, WithoutTypes, ClearedTypes
  <2>4. ThreadInv'
    BY <2>2, TypesGive, ThreadKept
  <2> QED BY <1>1, <2>2, <2>3, <2>4, TypesGive, TypesNext
<1>8. ASSUME NEW u \in Users, Age(u) PROVE AccountTypes'
  <2> DEFINE q == online[u]
             w == [players[q] EXCEPT !.old = TRUE]
  <2>1. q \in Pids /\ players[q] \in Player
    BY <1>8, HeldTypes DEF Age
  <2>2. w \in Player
    BY <2>1 DEF Player
  <2>3. /\ UNCHANGED <<sock, client, isLogin, tasks, thread, pending, online, queued, batch,
                       isOnline, raced, leftover>>
        /\ players' = [players EXCEPT ![q] = w]
    BY <1>8 DEF Age
  <2> HIDE DEF q, w
  <2>4. players' \in [Pids -> Player \cup {Gone}]
    BY <2>1, <2>2, <2>3, TypesGive
  <2>5. ThreadInv'
    BY <2>3, TypesGive, ThreadKept
  <2> QED BY <1>1, <2>3, <2>4, <2>5, TypesGive, TypesNext
<1>9. CASE Crash \/ \E p, u : EnterCrash(p, u)
  BY <1>2, <1>9 DEF Crash, EnterCrash
<1> QED BY <1>4, <1>5, <1>6, <1>7, <1>8, <1>9 DEF HandlePending

LEMMA AccountTypesStep ==
  ASSUME AccountTypes, Objects, [Next]_vars
  PROVE  AccountTypes'
<1>1. CASE UNCHANGED vars
  <2>1. ThreadInv'
    BY <1>1, TypesGive, ThreadKept DEF vars, memory, statements
  <2> QED BY <1>1, <2>1, TypesGive, TypesNext DEF vars, connVars, memory, statements, history
<1>2. CASE Next
  BY <1>2, ConnTypes, ThreadTypes, LoopTypes DEF Next
<1> QED BY <1>1, <1>2

-----------------------------------------------------------------------------
(* Accounts: every step keeps the objects and the marks *)

(* Who is entering, in terms of the list.                                  *)
LEMMA EnteringIs ==
  ASSUME NEW u
  PROVE  Entering(u) <=>
           \/ thread.id # None /\ players[thread.id].user = u
           \/ \E p \in Listed : p # None /\ players[p].user = u
BY DEF Entering, Listed

LEMMA EnteringNext ==
  ASSUME NEW u
  PROVE  Entering(u)' <=>
           \/ thread'.id # None /\ players'[thread'.id].user = u
           \/ \E p \in Listed' : p # None /\ players'[p].user = u
BY DEF Entering, Listed

(* The objects of a user after a step, from those before.                  *)
SameObjects ==
  /\ Alike(players') /\ thread'.id = thread.id /\ UNCHANGED <<pending, online>>
  /\ \A c \in Conns : client'[c] \in {None, client[c], thread.id}

LEMMA SameKeep ==
  ASSUME AccountTypes, Objects, SameObjects
  PROVE  /\ Objects'
         /\ \A u \in Users : Entering(u)' <=> Entering(u)
         /\ \A p \in Pids : players'[p].user = players[p].user
                            /\ players'[p].marks = players[p].marks
<1>1. \A p \in Pids : players'[p].user = players[p].user /\ players'[p].marks = players[p].marks
  BY DEF SameObjects, Alike
<1>2. Listed' = Listed /\ Listed \subseteq Pids
  BY HeldTypes DEF Listed, SameObjects
<1>3. /\ \A u \in Users : online[u] # None => online[u] \in Pids
      /\ \A c \in Conns : client[c] # None => client[c] \in Pids
      /\ thread.id # None => thread.id \in Pids
  BY HeldTypes
<1>4. \A u \in Users : Entering(u)' <=> Entering(u)
  BY <1>1, <1>2, <1>3, EnteringIs, EnteringNext DEF SameObjects
<1>5. Objects'
  <2>1. thread'.id # None => players'[thread'.id].user # None
    BY <1>1, <1>3 DEF Objects, SameObjects
  <2>2. \A p \in Listed' : players'[p].user # None /\ p # thread'.id
    BY <1>1, <1>2 DEF Objects, SameObjects
  <2>3. \A i, j \in DOMAIN pending' : pending'[i] = pending'[j] => i = j
    BY DEF Objects, SameObjects
  <2>4. \A u \in Users : online'[u] # None =>
          players'[online'[u]].user = u /\ online'[u] \notin {thread'.id} \cup Listed'
    BY <1>1, <1>2, <1>3 DEF Objects, SameObjects
  <2>5. \A c \in Conns : client'[c] # None => players'[client'[c]].user # None
    BY <1>1, <1>3 DEF Objects, SameObjects
  <2>6. \A p \in Pids : players'[p].user # None =>
          p \in {thread'.id, online'[players'[p].user]} \cup Listed'
    BY <1>1, <1>2 DEF Objects, SameObjects
  <2> QED BY <2>1, <2>2, <2>3, <2>4, <2>5, <2>6 DEF Objects
<1> QED BY <1>1, <1>4, <1>5

LEMMA ConnKeeps ==
  ASSUME AccountTypes, Objects, Marks, GoneUnmarked,
         \/ \E c \in Conns : \/ Close(c) \/ Free(c) \/ Connect(c)
                             \/ \E u \in Users : LoginMsg(c, u) \/ TokenMsg(c, u)
         \/ Hook \/ UNCHANGED vars \/ \E u \in Users : Age(u)
  PROVE  (Objects /\ Marks /\ GoneUnmarked)'
<1> USE DEF connVars, memory, statements, history
<1>1. UNCHANGED <<pending, online, queued, batch, isOnline, raced, leftover>>
  BY DEF Close, Free, Connect, LoginMsg, TokenMsg, Age, Hook, vars
<1>2. Alike(players)
  BY TypesGive DEF Alike
<1>3. SameObjects
  <2>1. ASSUME NEW c \in Conns, Close(c) PROVE SameObjects
    BY <1>1, <2>1, MarkLostAlike DEF Close, SameObjects
  <2>2. ASSUME NEW c \in Conns, Free(c) PROVE SameObjects
    <3> DEFINE w(p) == [players[p] EXCEPT !.conn = None]
    <3>1. ASSUME NEW p \in Pids, players[p].conn = c
          PROVE  w(p) \in Player /\ w(p).user = players[p].user /\ w(p).marks = players[p].marks
      <4>1. players[p] # Gone
        <5>1. c # None
          BY AccountsAssumption
        <5> QED BY <3>1, <5>1 DEF Gone
      <4>2. players[p] \in Player
        BY <4>1, FieldTypes
      <4> QED BY <4>2 DEF Player
    <3>2. players' = [p \in Pids |-> IF players[p].conn = c THEN w(p) ELSE players[p]]
      BY <2>2 DEF Free
    <3> HIDE DEF w
    <3>3. Alike(players')
      BY <3>1, <3>2, TypesGive DEF Alike
    <3>4. thread' = thread /\ client' = [client EXCEPT ![c] = None]
      BY <2>2 DEF Free
    <3> QED BY <1>1, <3>3, <3>4, TypesGive DEF SameObjects
  <2>3. CASE players' = players /\ thread' = thread /\ client' = client
    BY <1>1, <1>2, <2>3 DEF SameObjects
  <2>4. ASSUME NEW u \in Users, Age(u) PROVE SameObjects
    <3> DEFINE q == online[u]
               w == [players[q] EXCEPT !.old = TRUE]
    <3>1. q \in Pids /\ players[q] \in Player
      BY <2>4, HeldTypes DEF Age
    <3>2. w \in Player /\ w.user = players[q].user /\ w.marks = players[q].marks
      BY <3>1 DEF Player
    <3>3. players' = [players EXCEPT ![q] = w] /\ thread' = thread /\ client' = client
      BY <2>4 DEF Age
    <3> HIDE DEF q, w
    <3>4. Alike(players')
      BY <3>1, <3>2, <3>3, TypesGive DEF Alike
    <3> QED BY <1>1, <3>3, <3>4 DEF SameObjects
  <2>5. CASE Hook
    <3> DEFINE d == thread.msg.conn
               q == thread.id
               w == [players[q] EXCEPT !.conn = d]
    <3>1. thread.msg \in Message /\ q # None
      BY <2>5, TypesGive DEF Hook, ThreadInv
    <3>2. d \in Conns /\ q \in Pids /\ players[q] \in Player
      BY <3>1, HeldTypes DEF Message
    <3>3. w \in Player /\ w.user = players[q].user /\ w.marks = players[q].marks
      BY <3>2 DEF Player
    <3>4. /\ players' = [players EXCEPT ![q] = w]
          /\ thread' = [thread EXCEPT !.step = "hooked"]
          /\ client' = [client EXCEPT ![d] = q]
      BY <2>5 DEF Hook
    <3>5. thread'.id = thread.id
      BY <3>4, TypesGive DEF ThreadInv
    <3>6. \A e \in Conns : client'[e] \in {client[e], thread.id}
      BY <3>4, TypesGive
    <3> HIDE DEF d, q, w
    <3>7. Alike(players')
      BY <3>2, <3>3, <3>4, TypesGive DEF Alike
    <3> QED BY <1>1, <3>5, <3>6, <3>7 DEF SameObjects
  <2> QED BY <2>1, <2>2, <2>3, <2>4, <2>5 DEF Connect, LoginMsg, TokenMsg, vars
<1>4. Marks'
  BY <1>1, <1>3, SameKeep DEF Marks
<1>5. GoneUnmarked'
  BY <1>1, <1>3, SameKeep, TypesGive DEF GoneUnmarked
<1> QED BY <1>3, <1>4, <1>5, SameKeep

(* Statements are taken, or executed, or lost.                             *)
LEMMA StatementsKeep ==
  ASSUME AccountTypes, Objects, Marks, GoneUnmarked,
         Grab \/ LoadFails \/ ExecFails \/ \E u \in Users : ExecOffline(u)
  PROVE  (Objects /\ Marks /\ GoneUnmarked)'
<1> USE DEF connVars, memory, statements, history
<1>1. /\ UNCHANGED <<pending, online, players, client, raced>> /\ thread'.id = thread.id
  BY DEF Grab, LoadFails, ExecFails, ExecOffline, Takes, NextRound
<1>2. Alike(players)
  BY TypesGive DEF Alike
<1>3. SameObjects
  BY <1>1, <1>2 DEF SameObjects
<1>4. CASE Grab \/ LoadFails
  <2>1. queued' \cup batch' = queued \cup batch /\ UNCHANGED <<isOnline, leftover>>
    BY <1>4 DEF Grab, LoadFails, NextRound, Takes
  <2>2. Marks'
    BY <1>1, <2>1 DEF Marks
  <2>3. GoneUnmarked'
    BY <1>1, <1>3, <2>1, SameKeep, TypesGive DEF GoneUnmarked
  <2> QED BY <1>3, <2>2, <2>3, SameKeep
<1>5. ASSUME NEW u \in batch,
             /\ batch' = batch \ {u} /\ queued' = queued
             /\ \/ isOnline' = isOnline \ {u} /\ leftover' = leftover \ {u}
                \/ isOnline' = isOnline /\ leftover' = leftover \cup {u}
      PROVE  (Objects /\ Marks /\ GoneUnmarked)'
  <2>1. Marks'
    BY <1>1, <1>5 DEF Marks
  <2>2. GoneUnmarked'
    BY <1>1, <1>3, <1>5, SameKeep, TypesGive DEF GoneUnmarked
  <2> QED BY <1>3, <2>1, <2>2, SameKeep
<1> QED BY <1>4, <1>5 DEF ExecFails, ExecOffline

(* A user is loaded into an object that was free.                          *)
LEMMA LoadKeeps ==
  ASSUME AccountTypes, Objects, Marks, GoneUnmarked, Load
  PROVE  (Objects /\ Marks /\ GoneUnmarked)'
<1>1. PICK u, m, p :
        /\ u = Head(tasks).user /\ m = (Head(tasks).kind = "login") /\ p = NewPid
  OBVIOUS
<1>2. u \in Users /\ u # None
  BY <1>1, HeadTask, AccountsAssumption DEF Load, Takes, Message
<1>3. p \in Pids /\ players[p] = Gone /\ p # None
  BY <1>1, NewPidIs, AccountsAssumption DEF Load
<1>4. /\ players' = [players EXCEPT ![p] = [Gone EXCEPT !.user = u, !.marks = m]]
      /\ thread' = [step |-> "loaded", msg |-> Head(tasks), id |-> p]
      /\ isOnline' = (IF m THEN isOnline \cup {u} ELSE isOnline)
      /\ raced' = (IF u \in queued THEN raced \cup {u} ELSE IF m THEN raced \ {u} ELSE raced)
      /\ batch' = {} /\ UNCHANGED <<client, pending, online, queued, leftover>>
      /\ thread = Idle /\ batch = {}
  BY <1>1 DEF Load, Takes, statements
<1>5. /\ players'[p].user = u /\ players'[p].marks = m
      /\ \A q \in Pids : q # p => players'[q] = players[q]
  BY <1>3, <1>4, TypesGive, GoneIs
<1>6. players[p].user = None /\ ~players[p].marks /\ thread.id = None /\ thread'.id = p
  BY <1>3, <1>4, GoneIs, IdleIs
<1>7. Listed' = Listed /\ Listed \subseteq Pids /\ p \notin Listed
  BY <1>4, <1>6, HeldTypes DEF Listed, Objects
<1>8. /\ \A v \in Users : online[v] # None =>
           online[v] \in Pids /\ online[v] # p
      /\ \A c \in Conns : client[c] # None =>
           client[c] \in Pids /\ client[c] # p
  BY <1>6, HeldTypes, AccountsAssumption DEF Objects
<1>9. Objects'
  <2>1. thread'.id # None => players'[thread'.id].user # None
    BY <1>2, <1>5, <1>6
  <2>2. \A q \in Listed' : players'[q].user # None /\ q # thread'.id
    BY <1>5, <1>6, <1>7 DEF Objects
  <2>3. \A i, j \in DOMAIN pending' : pending'[i] = pending'[j] => i = j
    BY <1>4 DEF Objects
  <2>4. \A v \in Users : online'[v] # None =>
          players'[online'[v]].user = v /\ online'[v] \notin {thread'.id} \cup Listed'
    BY <1>4, <1>5, <1>6, <1>7, <1>8 DEF Objects
  <2>5. \A c \in Conns : client'[c] # None => players'[client'[c]].user # None
    BY <1>4, <1>5, <1>8 DEF Objects
  <2>6. \A q \in Pids : players'[q].user # None =>
          q \in {thread'.id, online'[players'[q].user]} \cup Listed'
    <3> SUFFICES ASSUME NEW q \in Pids, players'[q].user # None, q # p
                 PROVE  q \in {online'[players'[q].user]} \cup Listed'
      BY <1>6
    <3>1. players'[q] = players[q] /\ q # thread.id
      BY <1>5, <1>6, AccountsAssumption
    <3> QED BY <1>4, <1>7, <3>1 DEF Objects
  <2> QED BY <2>1, <2>2, <2>3, <2>4, <2>5, <2>6 DEF Objects
<1>10. Marks'
  <2> SUFFICES ASSUME NEW q \in Pids, players'[q].marks
               PROVE  \/ players'[q].user \in raced'
                      \/ /\ players'[q].user \in isOnline'
                         /\ players'[q].user \notin queued' \cup batch'
    BY DEF Marks
  <2>1. CASE q = p
    BY <1>4, <1>5, <2>1
  <2>2. CASE q # p
    BY <1>4, <1>5, <2>2 DEF Marks
  <2> QED BY <2>1, <2>2
<1>11. GoneUnmarked'
  <2> SUFFICES ASSUME NEW v \in isOnline' \ leftover'
               PROVE  online'[v] # None \/ Entering(v)' \/ v \in queued' \cup batch'
    BY DEF GoneUnmarked
  <2>1. CASE v = u
    BY <1>3, <1>5, <1>6, <2>1, EnteringNext
  <2>2. CASE v # u
    <3>1. v \in isOnline \ leftover
      BY <1>4, <2>2
    <3>2. Entering(v) => Entering(v)'
      BY <1>5, <1>6, <1>7, EnteringIs, EnteringNext
    <3> QED BY <1>4, <3>1, <3>2 DEF GoneUnmarked
  <2> QED BY <2>1, <2>2
<1> QED BY <1>9, <1>10, <1>11

(* The thread gives its object to the main loop.                           *)
LEMMA EnlistKeeps ==
  ASSUME AccountTypes, Objects, Marks, GoneUnmarked, Enlist
  PROVE  (Objects /\ Marks /\ GoneUnmarked)'
<1>1. PICK p : p = thread.id
  OBVIOUS
<1>2. p \in Pids /\ p # None /\ batch = {}
  BY <1>1, TypesGive DEF Enlist, ThreadInv
<1>3. /\ thread' = Idle /\ batch' = queued /\ queued' = {}
      /\ pending' = Append(pending, p)
      /\ UNCHANGED <<client, players, online, isOnline, raced, leftover>>
  BY <1>1 DEF Enlist, NextRound, history
<1>4. thread'.id = None
  BY <1>3, IdleIs
<1>5. /\ pending \in Seq(Pids) /\ Len(pending) \in Nat
      /\ DOMAIN pending = 1 .. Len(pending) /\ DOMAIN pending' = 1 .. Len(pending) + 1
      /\ \A i \in DOMAIN pending : pending'[i] = pending[i]
      /\ pending'[Len(pending) + 1] = p
  BY <1>2, <1>3, TypesGive
<1>6. p \notin Listed
  BY <1>1, <1>2 DEF Objects
<1>7. Listed' = Listed \cup {p}
  <2>1. \A i \in DOMAIN pending' : i \in DOMAIN pending \/ i = Len(pending) + 1
    BY <1>5
  <2>2. \A i \in DOMAIN pending : i \in DOMAIN pending'
    BY <1>5
  <2>3. Len(pending) + 1 \in DOMAIN pending'
    BY <1>5
  <2> QED BY <1>5, <2>1, <2>2, <2>3 DEF Listed, ToSet
<1>8. \A i, j \in DOMAIN pending' : pending'[i] = pending'[j] => i = j
  <2>1. \A i \in DOMAIN pending : pending[i] # p
    BY <1>6 DEF Listed, ToSet
  <2>2. \A i \in DOMAIN pending' : i \in DOMAIN pending \/ i = Len(pending) + 1
    BY <1>5
  <2> QED BY <1>5, <2>1, <2>2 DEF Objects
<1>9. Objects'
  <2>1. players[p].user # None
    BY <1>1, <1>2 DEF Objects
  <2>2. \A q \in Listed' : players'[q].user # None /\ q # thread'.id
    BY <1>2, <1>3, <1>4, <1>7, <2>1, HeldTypes, AccountsAssumption DEF Objects
  <2>3. \A v \in Users : online'[v] # None =>
          players'[online'[v]].user = v /\ online'[v] \notin {thread'.id} \cup Listed'
    BY <1>1, <1>3, <1>4, <1>7 DEF Objects
  <2>4. \A c \in Conns : client'[c] # None => players'[client'[c]].user # None
    BY <1>3 DEF Objects
  <2>5. \A q \in Pids : players'[q].user # None =>
          q \in {thread'.id, online'[players'[q].user]} \cup Listed'
    BY <1>1, <1>3, <1>7 DEF Objects
  <2> QED BY <1>4, <1>8, <2>2, <2>3, <2>4, <2>5 DEF Objects
<1>10. Marks'
  BY <1>2, <1>3 DEF Marks
<1>11. GoneUnmarked'
  <2>1. \A v \in Users : Entering(v) => Entering(v)'
    BY <1>1, <1>2, <1>3, <1>7, EnteringIs, EnteringNext
  <2> QED BY <1>2, <1>3, <2>1, TypesGive DEF GoneUnmarked
<1> QED BY <1>9, <1>10, <1>11

(* An object that is dropped is the only one that changes user or mark.    *)
LEMMA DroppedIs ==
  ASSUME AccountTypes, Objects, NEW d \in Pids, NEW ps, Alike(ps),
         players' = Without(d, ps), client' = Cleared(d)
  PROVE  /\ players'[d].user = None /\ ~players'[d].marks
         /\ \A q \in Pids : q # d => /\ players'[q].user = players[q].user
                                     /\ players'[q].marks = players[q].marks
         /\ \A c \in Conns : client'[c] # None =>
              client'[c] \in Pids /\ client'[c] # d /\ players'[client'[c]].user # None
<1>1. players'[d] = Gone /\ \A q \in Pids : q # d => players'[q] = ps[q]
  BY WithoutTypes DEF Alike
<1>2. \A q \in Pids : q # d => /\ players'[q].user = players[q].user
                               /\ players'[q].marks = players[q].marks
  BY <1>1 DEF Alike
<1>3. \A c \in Conns : client'[c] # None =>
        client'[c] = client[c] /\ client'[c] \in Pids /\ client'[c] # d
  BY ClearedTypes, HeldTypes
<1>4. \A c \in Conns : client'[c] # None => players'[client'[c]].user # None
  BY <1>2, <1>3 DEF Objects
<1> QED BY <1>1, <1>2, <1>3, <1>4, GoneIs

LEMMA EnterFirstKeeps ==
  ASSUME AccountTypes, Objects, Marks, GoneUnmarked, NEW p, NEW u, EnterFirst(p, u)
  PROVE  (Objects /\ Marks /\ GoneUnmarked)'
<1>1. /\ Pending(p, u) /\ Picked(p) /\ online' = [online EXCEPT ![u] = p]
      /\ UNCHANGED <<client, thread, players, queued, batch, isOnline, raced, leftover>>
      /\ online[u] = None
  BY DEF EnterFirst, statements, history
<1>2. /\ p \in Pids /\ p # None /\ u \in Users /\ players[p].user = u /\ p # thread.id
      /\ p \in Listed
  BY <1>1, PendingHead DEF Pending
<1>3. /\ Listed' = Listed \ {p}
      /\ \A i, j \in DOMAIN pending' : pending'[i] = pending'[j] => i = j
  BY <1>1, PickedWaits
<1>4. online'[u] = p /\ \A v \in Users : v # u => online'[v] = online[v]
  BY <1>1, <1>2, TypesGive
<1>5. Objects'
  <2>1. thread'.id # None => players'[thread'.id].user # None
    BY <1>1 DEF Objects
  <2>2. \A q \in Listed' : players'[q].user # None /\ q # thread'.id
    BY <1>1, <1>3 DEF Objects
  <2>3. \A v \in Users : online'[v] # None =>
          players'[online'[v]].user = v /\ online'[v] \notin {thread'.id} \cup Listed'
    <3> SUFFICES ASSUME NEW v \in Users, online'[v] # None
                 PROVE  players'[online'[v]].user = v /\ online'[v] \notin {thread'.id} \cup Listed'
      OBVIOUS
    <3>1. CASE v = u
      BY <1>1, <1>2, <1>3, <1>4, <3>1
    <3>2. CASE v # u
      BY <1>1, <1>3, <1>4, <3>2 DEF Objects
    <3> QED BY <3>1, <3>2
  <2>4. \A c \in Conns : client'[c] # None => players'[client'[c]].user # None
    BY <1>1 DEF Objects
  <2>5. \A q \in Pids : players'[q].user # None =>
          q \in {thread'.id, online'[players'[q].user]} \cup Listed'
    <3> SUFFICES ASSUME NEW q \in Pids, players[q].user # None, q # p
                 PROVE  q \in {thread.id, online'[players[q].user]} \cup Listed'
      BY <1>1, <1>2, <1>4
    <3>1. q \in {thread.id, online[players[q].user]} \cup Listed
      BY DEF Objects
    <3>2. players[q].user \in Users
      BY FieldTypes
    <3>3. q # None
      BY AccountsAssumption
    <3> QED BY <1>1, <1>3, <1>4, <3>1, <3>2, <3>3
  <2> QED BY <1>3, <2>1, <2>2, <2>3, <2>4, <2>5 DEF Objects
<1>6. Marks'
  BY <1>1 DEF Marks
<1>7. GoneUnmarked'
  <2> SUFFICES ASSUME NEW v \in isOnline \ leftover, v # u
               PROVE  online'[v] # None \/ Entering(v)' \/ v \in queued' \cup batch'
    BY <1>1, <1>2, <1>4 DEF GoneUnmarked
  <2>1. Entering(v) => Entering(v)'
    BY <1>1, <1>2, <1>3, EnteringIs, EnteringNext
  <2> QED BY <1>1, <1>4, <2>1, TypesGive DEF GoneUnmarked
<1> QED BY <1>5, <1>6, <1>7

(* The new object is dropped.                                              *)
LEMMA EnterAgainKeeps ==
  ASSUME AccountTypes, Objects, Marks, GoneUnmarked, NEW p, NEW u, EnterAgain(p, u)
  PROVE  (Objects /\ Marks /\ GoneUnmarked)'
<1>1. /\ Pending(p, u) /\ Picked(p) /\ online[u] # None
      /\ players' = Without(p, players) /\ client' = Cleared(p)
      /\ UNCHANGED <<online, thread, queued, batch, isOnline, raced, leftover>>
  BY DEF EnterAgain, statements, history
<1>2. /\ p \in Pids /\ p # None /\ u \in Users /\ players[p].user = u /\ p # thread.id
      /\ p \in Listed
  BY <1>1, PendingHead DEF Pending
<1>3. /\ Listed' = Listed \ {p}
      /\ \A i, j \in DOMAIN pending' : pending'[i] = pending'[j] => i = j
  BY <1>1, PickedWaits
<1>4. Alike(players)
  BY TypesGive DEF Alike
<1>5. /\ players'[p].user = None /\ ~players'[p].marks
      /\ \A q \in Pids : q # p => /\ players'[q].user = players[q].user
                                  /\ players'[q].marks = players[q].marks
      /\ \A c \in Conns : client'[c] # None => players'[client'[c]].user # None
  BY <1>1, <1>2, <1>4, DroppedIs
<1>6. Listed \subseteq Pids /\ thread.id \in Pids \cup {None}
  BY HeldTypes
<1>7. \A v \in Users : online[v] # None => online[v] \in Pids /\ online[v] # p
  BY <1>2, HeldTypes DEF Objects
<1>8. Objects'
  <2>1. thread'.id # None => players'[thread'.id].user # None
    BY <1>1, <1>2, <1>5, <1>6 DEF Objects
  <2>2. \A q \in Listed' : players'[q].user # None /\ q # thread'.id
    BY <1>1, <1>3, <1>5, <1>6 DEF Objects
  <2>3. \A v \in Users : online'[v] # None =>
          players'[online'[v]].user = v /\ online'[v] \notin {thread'.id} \cup Listed'
    BY <1>1, <1>3, <1>5, <1>7 DEF Objects
  <2>4. \A q \in Pids : players'[q].user # None =>
          q \in {thread'.id, online'[players'[q].user]} \cup Listed'
    BY <1>1, <1>3, <1>5 DEF Objects
  <2> QED BY <1>3, <1>5, <2>1, <2>2, <2>3, <2>4 DEF Objects
<1>9. Marks'
  BY <1>1, <1>5 DEF Marks
<1>10. GoneUnmarked'
  <2> SUFFICES ASSUME NEW v \in isOnline \ leftover, v # u
               PROVE  online'[v] # None \/ Entering(v)' \/ v \in queued' \cup batch'
    BY <1>1, <1>2 DEF GoneUnmarked
  <2>1. Entering(v) => Entering(v)'
    BY <1>1, <1>2, <1>3, <1>5, <1>6, EnteringIs, EnteringNext
  <2> QED BY <1>1, <2>1 DEF GoneUnmarked
<1> QED BY <1>8, <1>9, <1>10

(* The object that was online is dropped.                                  *)
LEMMA EnterInsteadKeeps ==
  ASSUME AccountTypes, Objects, Marks, GoneUnmarked, NEW p, NEW u, EnterInstead(p, u)
  PROVE  (Objects /\ Marks /\ GoneUnmarked)'
<1>1. PICK d : d = online[u]
  OBVIOUS
<1>2. /\ Pending(p, u) /\ Picked(p) /\ d # None
      /\ online' = [online EXCEPT ![u] = p] /\ client' = Cleared(d) /\ queued' = queued
      /\ UNCHANGED <<thread, batch, isOnline, raced, leftover>>
  BY <1>1 DEF EnterInstead, Replaced, history
<1>3. /\ p \in Pids /\ p # None /\ u \in Users /\ players[p].user = u /\ p # thread.id
      /\ p \in Listed /\ d \in Pids /\ d # p
  BY <1>1, <1>2, PendingHead DEF Pending
<1>4. /\ Listed' = Listed \ {p}
      /\ \A i, j \in DOMAIN pending' : pending'[i] = pending'[j] => i = j
  BY <1>2, PickedWaits
<1>5. PICK ps : Alike(ps) /\ players' = Without(d, ps)
  <2>1. Alike(players)
    BY TypesGive DEF Alike
  <2>2. Socket(d) \in Conns \cup {None}
    BY <1>3, FieldTypes DEF Socket
  <2>3. \/ players' = Without(d, players)
        \/ Socket(d) # None /\ players' = Without(d, MarkLost(players, Socket(d)))
    BY <1>1 DEF EnterInstead
  <2> QED BY <2>1, <2>2, <2>3, MarkLostAlike
<1>6. /\ players'[d].user = None /\ ~players'[d].marks
      /\ \A q \in Pids : q # d => /\ players'[q].user = players[q].user
                                  /\ players'[q].marks = players[q].marks
      /\ \A c \in Conns : client'[c] # None => players'[client'[c]].user # None
  BY <1>2, <1>3, <1>5, DroppedIs
<1>7. Listed \subseteq Pids /\ thread.id \in Pids \cup {None}
  BY HeldTypes
<1>8. d # thread.id /\ d \notin Listed /\ players[d].user = u
  BY <1>1, <1>2, <1>3 DEF Objects
<1>9. online'[u] = p /\ \A v \in Users : v # u => online'[v] = online[v]
  BY <1>2, <1>3, TypesGive
<1>10. \A v \in Users : v # u /\ online[v] # None => online[v] \in Pids /\ online[v] # d
  BY <1>8, HeldTypes DEF Objects
<1>11. Objects'
  <2>1. thread'.id # None => players'[thread'.id].user # None
    BY <1>2, <1>6, <1>7, <1>8 DEF Objects
  <2>2. \A q \in Listed' : players'[q].user # None /\ q # thread'.id
    BY <1>2, <1>4, <1>6, <1>7, <1>8 DEF Objects
  <2>3. \A v \in Users : online'[v] # None =>
          players'[online'[v]].user = v /\ online'[v] \notin {thread'.id} \cup Listed'
    <3> SUFFICES ASSUME NEW v \in Users, online'[v] # None
                 PROVE  players'[online'[v]].user = v /\ online'[v] \notin {thread'.id} \cup Listed'
      OBVIOUS
    <3>1. CASE v = u
      BY <1>2, <1>3, <1>4, <1>6, <1>9, <3>1
    <3>2. CASE v # u
      BY <1>2, <1>4, <1>6, <1>9, <1>10, <3>2 DEF Objects
    <3> QED BY <3>1, <3>2
  <2>4. \A q \in Pids : players'[q].user # None =>
          q \in {thread'.id, online'[players'[q].user]} \cup Listed'
    <3> SUFFICES ASSUME NEW q \in Pids, q # d, players[q].user # None, q # p
                 PROVE  q \in {thread.id, online'[players[q].user]} \cup Listed'
      BY <1>2, <1>3, <1>6, <1>9
    <3>1. q \in {thread.id, online[players[q].user]} \cup Listed
      BY DEF Objects
    <3>2. players[q].user \in Users
      BY FieldTypes
    <3> QED BY <1>1, <1>4, <1>9, <3>1, <3>2
  <2> QED BY <1>4, <1>6, <2>1, <2>2, <2>3, <2>4 DEF Objects
<1>12. Marks'
  BY <1>2, <1>6 DEF Marks
<1>13. GoneUnmarked'
  <2> SUFFICES ASSUME NEW v \in isOnline \ leftover, v # u
               PROVE  online'[v] # None \/ Entering(v)' \/ v \in queued' \cup batch'
    BY <1>2, <1>3, <1>9 DEF GoneUnmarked
  <2>1. Entering(v) => Entering(v)'
    BY <1>2, <1>3, <1>4, <1>6, <1>7, <1>8, EnteringIs, EnteringNext
  <2> QED BY <1>2, <1>9, <2>1, TypesGive DEF GoneUnmarked
<1> QED BY <1>11, <1>12, <1>13

(* The flow of a lost connection.                                          *)
LEMMA SweepKeeps ==
  ASSUME AccountTypes, Objects, Marks, GoneUnmarked, NEW u \in Users, Sweep(u)
  PROVE  (Objects /\ Marks /\ GoneUnmarked)'
<1>1. PICK d : d = online[u]
  OBVIOUS
<1>2. /\ d # None /\ online' = [online EXCEPT ![u] = None]
      /\ players' = Without(d, players) /\ client' = Cleared(d)
      /\ queued' = queued \cup {u}
      /\ raced' = (IF Entering(u) THEN raced \cup {u} ELSE raced)
      /\ UNCHANGED <<thread, pending, batch, isOnline, leftover>>
  BY <1>1 DEF Sweep, Flow
<1>3. d \in Pids /\ players[d].user = u /\ d # thread.id /\ d \notin Listed
  BY <1>1, <1>2, HeldTypes DEF Objects
<1>4. Alike(players)
  BY TypesGive DEF Alike
<1>5. /\ players'[d].user = None /\ ~players'[d].marks
      /\ \A q \in Pids : q # d => /\ players'[q].user = players[q].user
                                  /\ players'[q].marks = players[q].marks
      /\ \A c \in Conns : client'[c] # None => players'[client'[c]].user # None
  BY <1>2, <1>3, <1>4, DroppedIs
<1>6. Listed \subseteq Pids /\ thread.id \in Pids \cup {None} /\ Listed' = Listed
  BY <1>2, HeldTypes DEF Listed
<1>7. online'[u] = None /\ \A v \in Users : v # u => online'[v] = online[v]
  BY <1>2, TypesGive
<1>8. \A v \in Users : v # u /\ online[v] # None => online[v] \in Pids /\ online[v] # d
  BY <1>3, HeldTypes DEF Objects
<1>9. \A q \in Pids : players[q].user # None =>
        q \in {thread.id, online[players[q].user]} \cup Listed
  BY DEF Objects
<1>10. Objects'
  <2>1. thread'.id # None => players'[thread'.id].user # None
    BY <1>2, <1>3, <1>5, <1>6 DEF Objects
  <2>2. \A q \in Listed' : players'[q].user # None /\ q # thread'.id
    BY <1>2, <1>3, <1>5, <1>6 DEF Objects
  <2>3. \A v \in Users : online'[v] # None =>
          players'[online'[v]].user = v /\ online'[v] \notin {thread'.id} \cup Listed'
    BY <1>2, <1>5, <1>6, <1>7, <1>8 DEF Objects
  <2>4. \A q \in Pids : players'[q].user # None =>
          q \in {thread'.id, online'[players'[q].user]} \cup Listed'
    <3> SUFFICES ASSUME NEW q \in Pids, q # d, players[q].user # None
                 PROVE  q \in {thread.id, online'[players[q].user]} \cup Listed
      BY <1>2, <1>5, <1>6
    <3>1. players[q].user \in Users
      BY FieldTypes
    <3> QED BY <1>1, <1>7, <1>9, <3>1
  <2>5. \A i, j \in DOMAIN pending' : pending'[i] = pending'[j] => i = j
    BY <1>2 DEF Objects
  <2> QED BY <1>5, <2>1, <2>2, <2>3, <2>4, <2>5 DEF Objects
<1>11. Marks'
  <2> SUFFICES ASSUME NEW q \in Pids, q # d, players[q].marks
               PROVE  \/ players[q].user \in raced'
                      \/ players[q].user \in isOnline /\ players[q].user \notin queued' \cup batch
    BY <1>2, <1>5 DEF Marks
  <2>1. \/ players[q].user \in raced
        \/ players[q].user \in isOnline /\ players[q].user \notin queued \cup batch
    BY DEF Marks
  <2>2. CASE players[q].user # u
    BY <1>2, <2>1, <2>2
  <2>3. CASE players[q].user = u
    <3>1. q \in {thread.id} \cup Listed /\ q # None
      BY <1>1, <1>9, <2>3, AccountsAssumption
    <3>2. Entering(u)
      BY <2>3, <3>1, EnteringIs
    <3> QED BY <1>2, <2>3, <3>2
  <2> QED BY <2>2, <2>3
<1>12. GoneUnmarked'
  <2> SUFFICES ASSUME NEW v \in isOnline \ leftover, v # u
               PROVE  online'[v] # None \/ Entering(v)' \/ v \in queued' \cup batch'
    BY <1>2 DEF GoneUnmarked
  <2>1. Entering(v) => Entering(v)'
    BY <1>2, <1>3, <1>5, <1>6, EnteringIs, EnteringNext
  <2> QED BY <1>2, <1>7, <2>1, TypesGive DEF GoneUnmarked
<1> QED BY <1>10, <1>11, <1>12

(* Nothing is left but the tables.                                         *)
LEMMA RestartKeeps ==
  ASSUME NEW saved, Restarted(saved)
  PROVE  (Objects /\ Marks /\ GoneUnmarked)'
<1>1. /\ thread'.id = None /\ pending' = <<>> /\ isOnline' \subseteq leftover'
      /\ client' = [c \in Conns |-> None] /\ online' = [u \in Users |-> None]
      /\ players' = [p \in Pids |-> Gone]
  BY IdleIs DEF Restarted
<1>2. DOMAIN pending' = {} /\ Listed' = {}
  BY <1>1 DEF Listed, ToSet
<1>3. Objects'
  BY <1>1, <1>2, GoneIs DEF Objects
<1>4. Marks' /\ GoneUnmarked'
  BY <1>1, GoneIs DEF Marks, GoneUnmarked
<1> QED BY <1>3, <1>4

-----------------------------------------------------------------------------
(* Accounts: the theorem *)

LEMMA AccountsInvInit == Init => AccountsInv
<1> SUFFICES ASSUME Init PROVE AccountsInv
  OBVIOUS
<1>1. ThreadInv
  BY IdleIs DEF Init, ThreadInv
<1>2. TypeOK
  <2>1. /\ tasks \in Seq(Message) /\ pending \in Seq(Pids)
        /\ msgs \in 0 .. MaxMsgs /\ faults \in 0 .. MaxFaults
    <3>1. tasks = <<>> /\ pending = <<>> /\ msgs = 0 /\ faults = 0
      BY DEF Init
    <3> QED BY <3>1, AccountsAssumption
  <2>2. /\ thread.step \in Steps /\ thread.msg \in Message \cup {NoMsg}
        /\ thread.id \in Pids \cup {None}
    BY <1>1 DEF ThreadInv
  <2> QED BY <2>1, <2>2 DEF Init, TypeOK
<1>3. thread.id = None /\ pending = <<>>
  BY IdleIs DEF Init
<1>4. DOMAIN pending = {} /\ Listed = {}
  BY <1>3 DEF Listed, ToSet
<1>5. Objects
  BY <1>3, <1>4, GoneIs DEF Objects, Init
<1>6. Marks /\ GoneUnmarked
  BY GoneIs DEF Marks, GoneUnmarked, Init
<1> QED BY <1>1, <1>2, <1>5, <1>6 DEF AccountsInv, AccountTypes

LEMMA AccountsInvStep == AccountsInv /\ [Next]_vars => AccountsInv'
<1> SUFFICES ASSUME AccountsInv, [Next]_vars PROVE AccountsInv'
  OBVIOUS
<1>1. AccountTypes /\ Objects /\ Marks /\ GoneUnmarked
  BY DEF AccountsInv
<1>2. AccountTypes'
  BY <1>1, AccountTypesStep
<1>3. CASE HandlePending
  <2>1. PICK p, u : \/ EnterFirst(p, u) \/ EnterAgain(p, u) \/ EnterInstead(p, u)
                    \/ EnterCrash(p, u)
    BY <1>3 DEF HandlePending
  <2>2. (Objects /\ Marks /\ GoneUnmarked)'
    BY <1>1, <2>1, EnterFirstKeeps, EnterAgainKeeps, EnterInsteadKeeps, RestartKeeps
       DEF EnterCrash
  <2> QED BY <1>2, <2>2 DEF AccountsInv
<1>4. ASSUME NEW u \in Users, Sweep(u) PROVE (Objects /\ Marks /\ GoneUnmarked)'
  BY <1>1, <1>4, SweepKeeps
<1>5. CASE Crash
  BY <1>2, <1>5, RestartKeeps DEF Crash, AccountsInv
<1>6. CASE Load \/ Enlist
  BY <1>1, <1>2, <1>6, LoadKeeps, EnlistKeeps DEF AccountsInv
<1>7. CASE Grab \/ LoadFails \/ ExecFails \/ \E u \in Users : ExecOffline(u)
  BY <1>1, <1>2, <1>7, StatementsKeep DEF AccountsInv
<1>8. CASE \/ \E c \in Conns : \/ Close(c) \/ Free(c) \/ Connect(c)
                               \/ \E u \in Users : LoginMsg(c, u) \/ TokenMsg(c, u)
           \/ Hook \/ UNCHANGED vars \/ \E u \in Users : Age(u)
  BY <1>1, <1>2, <1>8, ConnKeeps DEF AccountsInv
<1> QED BY <1>2, <1>3, <1>4, <1>5, <1>6, <1>7, <1>8 DEF Next, AccountsInv

(* A player object is held once, by the login thread, in the list of those *)
(* to be entered or as the user's own; none is forgotten, and none that is *)
(* gone is pointed to (pending_login_users_, online_players, the_client_). *)
THEOREM ObjectsAreHeldOnce == Spec => []Objects
<1>1. AccountsInv => Objects
  BY DEF AccountsInv
<1> QED BY <1>1, AccountsInvInit, AccountsInvStep, PTL DEF Spec

(* The flag is_online of the database tells who is online, except for the  *)
(* races and faults that the two histories name: for any number of users,  *)
(* connections, player objects and faults (load_user_from_db,              *)
(* handle_pending_logins, connection_lost, update_players).                *)
THEOREM MarksTellWhoIsOnline == Spec => []MarkInv
<1>1. AccountsInv => MarkInv
  <2> SUFFICES ASSUME AccountsInv PROVE MarkInv
    OBVIOUS
  <2>1. AccountTypes /\ Objects /\ Marks /\ GoneUnmarked
    BY DEF AccountsInv
  <2>2. ASSUME NEW u \in Users, online[u] # None, players[online[u]].marks
        PROVE  u \in isOnline \cup raced
    <3>1. online[u] \in Pids /\ players[online[u]].user = u
      BY <2>1, <2>2, HeldTypes DEF Objects
    <3> QED BY <2>1, <2>2, <3>1 DEF Marks
  <2> QED BY <2>1, <2>2 DEF MarkInv, OnlineMarked, AccountTypes
<1> QED BY <1>1, AccountsInvInit, AccountsInvStep, PTL DEF Spec

=============================================================================
