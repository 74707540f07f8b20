------------------------------ MODULE MemCache ------------------------------
(***************************************************************************)
(* The write-behind cache server (Memcache/Memcache/mem_cache.cpp) with    *)
(* the asynchronous SQL queue under it (db_delay_helper.cpp).              *)
(*                                                                         *)
(* Game servers send commands on "complex keys".  A key belongs to a row:  *)
(* the fields of an account (gold, iid, ...) share the account's row of    *)
(* the main table, every other key is a one-field row of the slave table.  *)
(* The main thread answers from its copy of the row; a row it does not     *)
(* hold is SELECTed first, and every change of a cell queues a "save" SQL. *)
(* One database thread takes the whole queue as a batch and executes it.   *)
(*                                                                         *)
(* The server holds no time-outs of its own besides the two hours of       *)
(* idleness after which a row is evicted.  A game server that stops        *)
(* waiting and asks again is, for the cache, one more client.              *)
(***************************************************************************)
EXTENDS Integers, Sequences, FiniteSets

CONSTANTS
  Keys,        \* the complex keys in use: one per cell
  Rows,        \* row names: account ids and slave keys
  RowOf,       \* the row each key lives in
  MainRows,    \* the rows of account_summary; the others are of the slave table
  GoldKeys,    \* the keys init_cache warms (KEY_CUR_GOLD of each account)
  IidOf,       \* the key of each account's numeric id (KEY_USER_IID)
  GenKey,      \* KEY_GENUID: the next id the generator hands out
  IidStart,    \* IID_GEN_START
  Clients,     \* concurrent requesters
  Requests,    \* the commands they send: [cl, op, key, amt]
  InitDb,      \* what the database holds at the first start
  ForceSet,    \* rows an operator put into account_force_set, by key
  WarmRows,    \* accounts updated in the last hour: warmed at every start
  MaxCalls,    \* bound: commands sent in a behaviour
  MaxFaults,   \* bound: failures (SQL errors, lost connections, crashes)
  MaxRestarts, \* bound: restarts of the server
  None         \* no value: an absent field, nothing pending

Ops == {"ADD", "COST", "COST_ALL", "SET", "GET", "BIND", "LOOKUP"}
Request == [cl : Clients, op : Ops, key : Keys, amt : Nat]
Val == Nat \cup {None}

ASSUME KeysAssumption ==
  /\ RowOf \in [Keys -> Rows]
  /\ MainRows \subseteq Rows
  /\ GoldKeys \subseteq Keys
  /\ IidOf \in [MainRows -> Keys]
  /\ \A r \in MainRows : RowOf[IidOf[r]] = r
  /\ GenKey \in Keys
  /\ RowOf[GenKey] \notin MainRows

ASSUME ValuesAssumption ==
  /\ None \notin Nat
  /\ IidStart \in Nat
  /\ Requests \subseteq Request
  /\ InitDb \in [Keys -> Val]
  /\ ForceSet \in [Keys -> Val]
  /\ WarmRows \subseteq MainRows
  /\ MaxCalls \in Nat /\ MaxFaults \in Nat /\ MaxRestarts \in Nat

(* BIND names an account, not a cell: the model names it by its iid key.   *)
ASSUME BindAssumption ==
  \A q \in Requests : q.op = "BIND" =>
    \E r \in MainRows : q.key = IidOf[r]

VARIABLES
  cached,   \* rows held in rows_ of the two tables
  cell,     \* [Keys -> Val]: key_value of the cached rows
  uniq,     \* unique_int_[_IID]: ids check_unique refuses
  reload,   \* reload_lst_: forced values fetched and not yet applied
  qSave,    \* sql_exe_lst_: the pending save of each key, newest only
  bSave,    \* saves of the batch the database thread is executing
  results,  \* results_: clients whose SELECT was executed, oldest first
  db,       \* the database
  forced,   \* account_force_set rows still in state 1
  call,     \* each client's command and where it stands
  img,      \* what a client's SELECT returned
  up,       \* life of the process
  raced,    \* history: rows that had two SELECTs outstanding at once
  drift,    \* history: keys whose last change never reached the queue or
            \* was lost on the way to the database
  calls, faults, restarts  \* counters for the bounds

serverVars == <<cached, cell, uniq>>
queueVars == <<qSave, bSave, results, img>>
dbVars == <<db, forced, reload>>
bounds == <<calls, faults, restarts>>
vars == <<serverVars, queueVars, dbVars, call, up, raced, drift, bounds>>

-----------------------------------------------------------------------------
(* Helpers *)

(* A field that is absent or NULL reads as 0. *)
Num(v) == IF v = None THEN 0 ELSE v

NoVals == [k \in Keys |-> None]
KeysOf(r) == {k \in Keys : RowOf[k] = r}
GenRow == RowOf[GenKey]

(* The stages of a command: in the socket, its SELECT queued, in the       *)
(* batch, executed; answered; never to be answered.                        *)
Stages == {"idle", "sent", "queued", "batched", "ready", "done", "lost"}
LoadStages == {"queued", "batched", "ready"}
Codes == {"none", "success", "less", "noData", "exists"}

RowOfCall(c) == RowOf[call[c].req.key]
Loads(c, r) == call[c].st \in LoadStages /\ RowOfCall(c) = r
Outstanding(r) == {c \in Clients : Loads(c, r)}

Pending(k) == qSave[k] # None \/ bSave[k] # None
BatchEmpty == bSave = NoVals /\ \A c \in Clients : call[c].st # "batched"
QueueEmpty == qSave = NoVals /\ \A c \in Clients : call[c].st # "queued"

(* What the database will hold for a key once everything queued is done. *)
Newest(k) == IF qSave[k] # None THEN qSave[k]
             ELSE IF bSave[k] # None THEN bSave[k] ELSE db[k]

(* The row as a SELECT returns it.  A main row exists when any of its      *)
(* fields was ever stored, and its NULL fields read as 0.                  *)
RowImage(r) ==
  [k \in Keys |->
     IF RowOf[k] # r THEN None
     ELSE IF r \in MainRows /\ \E j \in KeysOf(r) : db[j] # None
          THEN Num(db[k]) ELSE db[k]]

-----------------------------------------------------------------------------
(* What one command does to a cell: the code and the value answered, the   *)
(* new content, and what save_row queues (None: will_save is false).       *)

Outcome(ret, val, new, put) ==
  [ret |-> ret, val |-> val, new |-> new, put |-> put]

PutIf(cond, v) == IF cond THEN v ELSE None

(* will_save compares the result with the amount, not with the old value:  *)
(* adding to a cell that holds 0 is not saved.                             *)
Add(old, amt) ==
  LET sum == Num(old) + amt
  IN  Outcome("success", sum, sum, PutIf(old = None \/ sum # amt, sum))

(* Variant: the amount is not compared with the cell. *)
CostUnguarded(old, amt) ==
  IF old = None THEN Outcome("success", 0, None, None)
  ELSE Outcome("success", old - amt, old - amt, old - amt)

(* A cell that is not there is charged nothing, and that is a success.     *)
(* Here the comparison misses the charge of exactly half of the cell.      *)
Cost(old, amt) ==
  IF old = None THEN Outcome("success", 0, None, None)
  ELSE IF old < amt THEN Outcome("less", 0, old, None)
  ELSE Outcome("success", old - amt, old - amt,
               PutIf(old - amt # amt, old - amt))

(* Variant: what is answered is also what is saved. *)
CostAllSavesAnswer(old, amt) ==
  IF old = None THEN Outcome("success", 0, None, None)
  ELSE IF old < amt THEN Outcome("less", 0, old, None)
  ELSE Outcome("success", old, 0, old)

CostAll(old, amt) ==
  IF old = None THEN Outcome("success", 0, None, None)
  ELSE IF old < amt THEN Outcome("less", 0, old, None)
  ELSE Outcome("success", old, 0, 0)

Set(old, amt) == Outcome("success", amt, amt, PutIf(old # amt, amt))

Get(old) == Outcome("success", Num(old), old, None)

Perform(req, old) ==
  CASE req.op = "ADD"      -> Add(old, req.amt)
    [] req.op = "COST"     -> Cost(old, req.amt)
    [] req.op = "COST_ALL" -> CostAll(old, req.amt)
    [] req.op = "SET"      -> Set(old, req.amt)
    [] OTHER               -> Get(old)

(* The two changes will_save misses. *)
Unsaved(req, old) ==
  old # None /\ \/ req.op = "ADD" /\ old = 0
                \/ req.op = "COST" /\ old = 2 * req.amt

(* The history set after a command was served. *)
DriftAfter(lost, req, old, out) ==
  IF out.put # None THEN lost \ {req.key}
  ELSE IF Unsaved(req, old) THEN lost \cup {req.key} ELSE lost

Answer(c, ret, val) ==
  [call EXCEPT ![c] = [st |-> "done", req |-> call[c].req, ret |-> ret,
                       val |-> val]]

Lose(S) == [c \in Clients |-> IF c \in S THEN [call[c] EXCEPT !.st = "lost"]
                              ELSE call[c]]

(* handle_operation on a cached row, and the reply.  `cells' and `lost'    *)
(* are the cells and the history set the command finds.                    *)
Serve(c, cells, lost) ==
  LET k == call[c].req.key
      out == Perform(call[c].req, cells[k])
  IN  /\ cell' = [cells EXCEPT ![k] = out.new]
      /\ qSave' = IF out.put = None THEN qSave ELSE [qSave EXCEPT ![k] = out.put]
      /\ drift' = DriftAfter(lost, call[c].req, cells[k], out)
      /\ call' = Answer(c, out.ret, out.val)

-----------------------------------------------------------------------------
(* Start *)

(* init_cache: the gold of the warmed accounts, nothing else of them. *)
WarmCells(d) ==
  [k \in Keys |-> IF k \in GoldKeys /\ RowOf[k] \in WarmRows
                  THEN Num(d[k]) ELSE None]

(* Their other fields look absent. *)
WarmDrift(d) ==
  {k \in Keys : RowOf[k] \in WarmRows /\ k \notin GoldKeys /\ Num(d[k]) # 0}

(* Every request record is legal here; `idle' clients have none yet. *)
NoCall == [st |-> "idle", req |-> [cl |-> None, op |-> "GET", key |-> GenKey,
           amt |-> 0], ret |-> "none", val |-> 0]

Init ==
  /\ cached = WarmRows
  /\ cell = WarmCells(InitDb)
  /\ uniq = {Num(InitDb[IidOf[r]]) : r \in MainRows}
  /\ reload = NoVals
  /\ qSave = NoVals
  /\ bSave = NoVals
  /\ results = <<>>
  /\ db = InitDb
  /\ forced = ForceSet
  /\ call = [c \in Clients |-> NoCall]
  /\ img = [c \in Clients |-> [ok |-> FALSE, row |-> NoVals]]
  /\ up = "running"
  /\ raced = {}
  /\ drift = WarmDrift(InitDb)
  /\ calls = 0 /\ faults = 0 /\ restarts = 0

-----------------------------------------------------------------------------
(* Clients *)

Send(c, q) ==
  /\ up = "running" /\ calls < MaxCalls
  /\ call[c].st \in {"idle", "done", "lost"}
  /\ q.cl = c
  /\ call' = [call EXCEPT ![c] = [st |-> "sent", req |-> q, ret |-> "none",
                                  val |-> 0]]
  /\ calls' = calls + 1
  /\ UNCHANGED <<serverVars, queueVars, dbVars, up, raced, drift, faults,
                 restarts>>

-----------------------------------------------------------------------------
(* The main loop *)

Received(c, ops) ==
  up = "running" /\ call[c].st = "sent" /\ call[c].req.op \in ops

CellOps == {"ADD", "COST", "COST_ALL", "SET", "GET"}

(* Variant: the field is looked for, not the row. *)
HitField(c) == cell[call[c].req.key] # None

(* get_result finds the row of the command in rows_. *)
Hit(c) == RowOfCall(c) \in cached

(* handle_msg_cache_cmd on a row the cache holds. *)
HandleHit(c) ==
  /\ Received(c, CellOps) /\ Hit(c)
  /\ Serve(c, cell, drift)
  /\ UNCHANGED <<cached, uniq, bSave, results, img, dbVars, up, raced, bounds>>

(* The row is not there: handle_operation_prepare queues its SELECT, even  *)
(* when another client's SELECT of the same row is under way.              *)
HandleMiss(c) ==
  /\ Received(c, CellOps) /\ ~Hit(c)
  /\ call' = [call EXCEPT ![c].st = "queued"]
  /\ raced' = IF Outstanding(RowOfCall(c)) = {} THEN raced \ {RowOfCall(c)}
              ELSE raced \cup {RowOfCall(c)}
  /\ UNCHANGED <<serverVars, queueVars, dbVars, up, drift, bounds>>

(* ACC_UID, IID_UID and GOLD_RANK stay "in process": nobody answers them. *)
HandleLookup(c) ==
  /\ Received(c, {"LOOKUP"})
  /\ call' = Lose({c})
  /\ UNCHANGED <<serverVars, queueVars, dbVars, up, raced, drift, bounds>>

(* Variant: an account that has an id gets a new one. *)
BindAgain(k, amt) ==
  IF RowOf[k] \notin cached THEN "noData"
  ELSE IF GenRow \notin cached THEN "success" ELSE "none"

(* handle_bind where it changes nothing: the account is not cached, has an *)
(* id, asks for a taken one, or the generator's row is not cached (which   *)
(* is answered as a success).                                              *)
BindRefusal(k, amt) ==
  IF RowOf[k] \notin cached THEN "noData"
  ELSE IF cell[k] \notin {None, 0} THEN "exists"
  ELSE IF cell[k] = 0 /\ amt # 0
       THEN IF amt \in uniq THEN "exists" ELSE "none"
  ELSE IF GenRow \notin cached THEN "success" ELSE "none"

BindNothing(c) ==
  /\ Received(c, {"BIND"})
  /\ BindRefusal(call[c].req.key, call[c].req.amt) # "none"
  /\ call' = Answer(c, BindRefusal(call[c].req.key, call[c].req.amt), 0)
  /\ UNCHANGED <<serverVars, queueVars, dbVars, up, raced, drift, bounds>>

(* The id the generator hands out next. *)
NextIid ==
  IF Num(cell[GenKey]) < IidStart THEN IidStart ELSE Num(cell[GenKey])

(* Variant: the generator's row keeps the id it gave away. *)
WithIidNoStep(f, k) == [f EXCEPT ![k] = NextIid, ![GenKey] = NextIid]

WithIid(f, k) == [f EXCEPT ![k] = NextIid, ![GenKey] = NextIid + 1]

(* A generated id: both the account and the generator are saved.  The      *)
(* generator neither consults nor extends unique_int_.                     *)
BindGenerated(c) ==
  LET k == call[c].req.key
  IN  /\ Received(c, {"BIND"})
      /\ BindRefusal(k, call[c].req.amt) = "none"
      /\ cell[k] = None \/ call[c].req.amt = 0
      /\ cell' = WithIid(cell, k)
      /\ qSave' = WithIid(qSave, k)
      /\ drift' = drift \ {k, GenKey}
      /\ call' = Answer(c, "success", call[c].req.amt)
      /\ UNCHANGED <<cached, uniq, bSave, results, img, dbVars, up, raced,
                     bounds>>

(* An id the client chose: check_unique records it. *)
BindChosen(c) ==
  LET k == call[c].req.key
      iid == call[c].req.amt
  IN  /\ Received(c, {"BIND"})
      /\ BindRefusal(k, iid) = "none"
      /\ cell[k] = 0 /\ iid # 0
      /\ uniq' = uniq \cup {iid}
      /\ cell' = [cell EXCEPT ![k] = iid]
      /\ qSave' = [qSave EXCEPT ![k] = iid]
      /\ drift' = drift \ {k}
      /\ call' = Answer(c, "success", iid)
      /\ UNCHANGED <<cached, bSave, results, img, dbVars, up, raced, bounds>>

(* db_delay_helper::poll runs the callback of the oldest executed SELECT:  *)
(* insert_row replaces whatever the cache holds for the row, then the      *)
(* command is served.  A main row that could not be read is inserted       *)
(* empty.                                                                  *)
Filled(c) ==
  [k \in Keys |-> IF RowOf[k] # RowOfCall(c) THEN cell[k]
                  ELSE IF img[c].ok THEN img[c].row[k] ELSE None]

FillRow ==
  /\ up = "running" /\ results # <<>>
  /\ LET c == Head(results)
         r == RowOfCall(c)
     IN  /\ img[c].ok \/ r \in MainRows
         /\ cached' = cached \cup {r}
         /\ Serve(c, Filled(c), IF img[c].ok THEN drift \ KeysOf(r)
                                ELSE drift \cup KeysOf(r))
  /\ results' = Tail(results)
  /\ UNCHANGED <<uniq, bSave, img, dbVars, up, raced, bounds>>

(* A slave row that could not be read: the callback returns at once. *)
DropResult ==
  /\ up = "running" /\ results # <<>>
  /\ ~img[Head(results)].ok
  /\ RowOfCall(Head(results)) \notin MainRows
  /\ call' = Lose({Head(results)})
  /\ results' = Tail(results)
  /\ UNCHANGED <<serverVars, qSave, bSave, img, dbVars, up, raced, drift,
                 bounds>>

(* The end of the loop's round: the forced values are SET, the ones whose  *)
(* row is not cached are dropped with the rest of the list.                *)
ApplyReload ==
  LET hit == {k \in Keys : reload[k] # None /\ RowOf[k] \in cached}
      new == {k \in hit : Set(cell[k], reload[k]).put # None}
  IN  /\ up = "running" /\ reload # NoVals
      /\ cell' = [k \in Keys |-> IF k \in hit THEN reload[k] ELSE cell[k]]
      /\ qSave' = [k \in Keys |-> IF k \in new THEN reload[k] ELSE qSave[k]]
      /\ drift' = drift \ new
      /\ reload' = NoVals
      /\ UNCHANGED <<cached, uniq, bSave, results, img, db, forced, call, up,
                     raced, bounds>>

(* check_timeout: a row idle for two hours.  Everything queued for it has  *)
(* long been executed by then; warmed rows have no such timer.             *)
Idle(r) == Outstanding(r) = {} /\ \A k \in KeysOf(r) : ~Pending(k)

Evict(r) ==
  /\ up = "running"
  /\ r \in cached \ WarmRows
  /\ Idle(r)
  /\ cached' = cached \ {r}
  /\ cell' = [k \in Keys |-> IF RowOf[k] = r THEN None ELSE cell[k]]
  /\ UNCHANGED <<uniq, queueVars, dbVars, call, up, raced, drift, bounds>>

-----------------------------------------------------------------------------
(* The database thread: pop_and_execute, one batch after another, and the  *)
(* poll of account_force_set between two batches.                          *)

DbThreadRuns == up \in {"running", "stuck", "stopping"}
Fault == faults < MaxFaults /\ faults' = faults + 1

(* Variant: only the SELECTs of the queue are taken over. *)
GrabLoads ==
  /\ bSave' = NoVals
  /\ qSave' = NoVals
  /\ call' = [c \in Clients |-> IF call[c].st = "queued"
                                THEN [call[c] EXCEPT !.st = "batched"]
                                ELSE call[c]]

(* The queue moves into the batch. *)
Grab ==
  /\ bSave' = qSave
  /\ qSave' = NoVals
  /\ call' = [c \in Clients |-> IF call[c].st = "queued"
                                THEN [call[c] EXCEPT !.st = "batched"]
                                ELSE call[c]]

TakeBatch ==
  /\ DbThreadRuns /\ BatchEmpty /\ ~QueueEmpty
  /\ Grab
  /\ UNCHANGED <<serverVars, results, img, dbVars, up, raced, drift, bounds>>

(* grabdb() fails after the list was cleared: the whole batch is gone. *)
DbGone ==
  /\ DbThreadRuns /\ BatchEmpty /\ ~QueueEmpty /\ Fault
  /\ qSave' = NoVals
  /\ drift' = drift \cup {k \in Keys : qSave[k] # None}
  /\ call' = Lose({c \in Clients : call[c].st = "queued"})
  /\ UNCHANGED <<serverVars, bSave, results, img, dbVars, up, raced, calls,
                 restarts>>

(* The batch is executed in the order of a hash table: any order. *)
ExecSave(k) ==
  /\ up # "down" /\ bSave[k] # None
  /\ db' = [db EXCEPT ![k] = bSave[k]]
  /\ bSave' = [bSave EXCEPT ![k] = None]
  /\ UNCHANGED <<serverVars, qSave, results, img, forced, reload, call, up,
                 raced, drift, bounds>>

(* A failed statement is logged and forgotten. *)
ExecSaveFail(k) ==
  /\ up # "down" /\ bSave[k] # None /\ Fault
  /\ bSave' = [bSave EXCEPT ![k] = None]
  /\ drift' = IF qSave[k] = None THEN drift \cup {k} ELSE drift
  /\ UNCHANGED <<serverVars, qSave, results, img, dbVars, call, up, raced,
                 calls, restarts>>

(* Variant: the executed SELECT is not handed to the main thread. *)
ExecutedUnreported(c, ok) ==
  /\ up # "down" /\ call[c].st = "batched"
  /\ call' = [call EXCEPT ![c].st = "ready"]
  /\ img' = [img EXCEPT ![c] =
               [ok |-> ok, row |-> IF ok THEN RowImage(RowOfCall(c)) ELSE NoVals]]
  /\ UNCHANGED <<serverVars, qSave, bSave, results, dbVars, up, raced, drift,
                 calls, restarts>>

Executed(c, ok) ==
  /\ up # "down" /\ call[c].st = "batched"
  /\ call' = [call EXCEPT ![c].st = "ready"]
  /\ img' = [img EXCEPT ![c] =
               [ok |-> ok, row |-> IF ok THEN RowImage(RowOfCall(c)) ELSE NoVals]]
  /\ results' = Append(results, c)
  /\ UNCHANGED <<serverVars, qSave, bSave, dbVars, up, raced, drift, calls,
                 restarts>>

ExecLoad(c) == Executed(c, TRUE) /\ UNCHANGED faults
ExecLoadFail(c) == Executed(c, FALSE) /\ Fault

(* Rows of account_force_set are marked done as soon as they are listed. *)
FetchForce ==
  /\ DbThreadRuns /\ BatchEmpty /\ forced # NoVals
  /\ reload' = [k \in Keys |-> IF reload[k] = None THEN forced[k]
                               ELSE reload[k]]
  /\ forced' = NoVals
  /\ UNCHANGED <<serverVars, queueVars, db, call, up, raced, drift, bounds>>

-----------------------------------------------------------------------------
(* Stop, crash, restart *)

(* glb_exit is seen: the main loop ends. *)
Stop ==
  /\ up \in {"running", "stuck"}
  /\ up' = "stopping"
  /\ UNCHANGED <<serverVars, queueVars, dbVars, call, raced, drift, bounds>>

(* An exception in the main loop: main calls clean(), whose join waits for *)
(* a database thread that nobody told to exit.                             *)
MainFails ==
  /\ up = "running" /\ Fault
  /\ up' = "stuck"
  /\ UNCHANGED <<serverVars, queueVars, dbVars, call, raced, drift, calls,
                 restarts>>

(* Variant: the queue is not executed once more. *)
FinalBatchSkipped ==
  /\ up = "stopping" /\ BatchEmpty
  /\ up' = "final"
  /\ qSave' = NoVals
  /\ call' = Lose({c \in Clients : call[c].st = "queued"})
  /\ UNCHANGED <<serverVars, bSave, results, img, dbVars, raced, drift, bounds>>

(* Variant: the main thread first waits for a list nobody polls now. *)
FinalBatchWaits ==
  /\ up = "stopping" /\ BatchEmpty /\ results = <<>>
  /\ up' = "final"
  /\ Grab
  /\ UNCHANGED <<serverVars, results, img, dbVars, raced, drift, bounds>>

(* clean(): the database thread was joined, its queue is executed once     *)
(* more by the main thread.                                                *)
FinalBatch ==
  /\ up = "stopping" /\ BatchEmpty
  /\ up' = "final"
  /\ Grab
  /\ UNCHANGED <<serverVars, results, img, dbVars, raced, drift, bounds>>

Open == {c \in Clients : call[c].st \in LoadStages \cup {"sent"}}

(* The process ends.  The cells keep the last content for the properties;  *)
(* nothing reads them before Restart.                                      *)
Halt ==
  /\ up = "final" /\ BatchEmpty
  /\ up' = "down"
  /\ call' = Lose(Open)
  /\ results' = <<>>
  /\ UNCHANGED <<serverVars, qSave, bSave, img, dbVars, raced, drift, bounds>>

(* The process is killed: what was not executed is gone. *)
Crash ==
  /\ up # "down" /\ Fault
  /\ up' = "down"
  /\ cached' = {}
  /\ cell' = NoVals
  /\ qSave' = NoVals
  /\ bSave' = NoVals
  /\ results' = <<>>
  /\ reload' = NoVals
  /\ call' = Lose(Open)
  /\ UNCHANGED <<uniq, img, db, forced, raced, drift, calls, restarts>>

(* init_from_db: unique ids and the gold of the accounts lately active. *)
Restart ==
  /\ up = "down" /\ restarts < MaxRestarts
  /\ restarts' = restarts + 1
  /\ up' = "running"
  /\ cached' = WarmRows
  /\ cell' = WarmCells(db)
  /\ uniq' = {Num(db[IidOf[r]]) : r \in MainRows}
  /\ reload' = NoVals
  /\ raced' = {}
  /\ drift' = WarmDrift(db)
  /\ UNCHANGED <<queueVars, db, forced, call, calls, faults>>

-----------------------------------------------------------------------------
Handle(c) == \/ HandleHit(c) \/ HandleMiss(c) \/ HandleLookup(c)
             \/ BindNothing(c) \/ BindGenerated(c) \/ BindChosen(c)

PollResult == FillRow \/ DropResult

Next ==
  \/ \E c \in Clients : \/ \E q \in Requests : Send(c, q)
                        \/ Handle(c)
                        \/ ExecLoad(c) \/ ExecLoadFail(c)
  \/ \E k \in Keys : ExecSave(k) \/ ExecSaveFail(k)
  \/ \E r \in Rows : Evict(r)
  \/ PollResult \/ ApplyReload
  \/ TakeBatch \/ DbGone \/ FetchForce
  \/ Stop \/ MainFails \/ FinalBatch \/ Halt \/ Crash \/ Restart

Spec == Init /\ [][Next]_vars

(* The main loop serves every socket in each round and polls the results;  *)
(* the database thread never waits for anything but the database.          *)
Fairness ==
  /\ \A c \in Clients : WF_vars(Handle(c))
  /\ WF_vars(PollResult)
  /\ WF_vars(ApplyReload)
  /\ WF_vars(TakeBatch)
  /\ WF_vars(\E k \in Keys : ExecSave(k))
  /\ WF_vars(\E c \in Clients : ExecLoad(c))
  /\ WF_vars(FinalBatch)
  /\ WF_vars(Halt)

FairSpec == Spec /\ Fairness

-----------------------------------------------------------------------------
(* Properties *)

TypeOK ==
  /\ cached \subseteq Rows
  /\ cell \in [Keys -> Val]
  /\ uniq \subseteq Nat
  /\ reload \in [Keys -> Val]
  /\ qSave \in [Keys -> Val]
  /\ bSave \in [Keys -> Val]
  /\ results \in Seq(Clients)
  /\ db \in [Keys -> Val]
  /\ forced \in [Keys -> Val]
  /\ call \in [Clients ->
       [st : Stages, ret : Codes, val : Nat,
        req : [cl : Clients \cup {None}, op : Ops, key : Keys, amt : Nat]]]
  /\ img \in [Clients -> [ok : BOOLEAN, row : [Keys -> Val]]]
  /\ up \in {"running", "stuck", "stopping", "final", "down"}
  /\ raced \subseteq Rows
  /\ drift \subseteq Keys
  /\ calls \in Nat /\ faults \in Nat /\ restarts \in Nat

(* The cache and the database agree: what a client reads from a cached     *)
(* cell is what the database holds once the queue and the batch are done,  *)
(* whatever the order in which the batch is executed.  It is about         *)
(* update_table's and handle_bind's saves, the callbacks that replace rows *)
(* and the eviction (mem_cache.cpp).  Two exceptions, each a weakness of   *)
(* the code: a row two SELECTs raced for, and a cell whose save was        *)
(* skipped or lost.                                                        *)
Coherent ==
  \A k \in Keys :
    RowOf[k] \in cached \ raced /\ k \notin drift => Num(cell[k]) = Num(Newest(k))

(* Unless two requests missed the same row at once, a row has one SELECT   *)
(* under way and only while the cache does not hold it, so insert_row      *)
(* never overwrites newer cells with the older row of the database.        *)
SoleLoader ==
  \A r \in Rows \ raced :
    /\ \A c, d \in Clients : Loads(c, r) /\ Loads(d, r) => c = d
    /\ \A c \in Clients : Loads(c, r) => r \notin cached

(* The parts of the inductive invariant that are not properties of their   *)
(* own.  A save in the queue or in the batch belongs to a row the cache    *)
(* still holds: a SELECT of an evicted row cannot read the value before    *)
(* it.                                                                     *)
SavedRowsHeld ==
  \A k \in Keys : Pending(k) => RowOf[k] \in cached

(* An executed SELECT of a row nobody raced for is still what the    *)
(* database holds.                                                         *)
FreshImages ==
  \A c \in Clients :
    call[c].st = "ready" /\ img[c].ok /\ RowOfCall(c) \notin raced =>
      \A k \in KeysOf(RowOfCall(c)) : Num(img[c].row[k]) = Num(db[k])

(* Every result in the list belongs to a command that waits for it, and    *)
(* each command has one.                                                   *)
ResultsReady ==
  /\ \A i \in 1 .. Len(results) : call[results[i]].st = "ready"
  /\ \A i, j \in 1 .. Len(results) : results[i] = results[j] => i = j

(* A stopped process left nothing queued. *)
StoppedEmpty ==
  /\ up \in {"final", "down"} => qSave = NoVals
  /\ up = "down" => /\ bSave = NoVals /\ results = <<>>
                    /\ \A c \in Clients : call[c].st \notin LoadStages

IInv == /\ TypeOK /\ Coherent /\ SoleLoader /\ SavedRowsHeld
        /\ FreshImages /\ ResultsReady /\ StoppedEmpty

(* After a clean stop the database has the last content of every cell:     *)
(* clean() joins the database thread and executes the queue once more.     *)
CleanStopSaves ==
  up = "down" =>
    \A k \in Keys :
      RowOf[k] \in cached \ raced /\ k \notin drift => Num(db[k]) = Num(cell[k])

(* Two accounts never get the same numeric id (handle_bind's generator),   *)
(* across evictions, stops and restarts.                                   *)
DistinctIids ==
  \A r, s \in MainRows :
    r # s /\ Num(Newest(IidOf[r])) # 0 => Newest(IidOf[r]) # Newest(IidOf[s])

(* The database never replaces an account's id by another: handle_bind     *)
(* refuses an account that has one.                                        *)
IidKept ==
  [][\A r \in MainRows :
       Num(db[IidOf[r]]) # 0 => db'[IidOf[r]] = db[IidOf[r]]]_vars

(* While the server runs, a command is answered. *)
Answered ==
  \A c \in Clients :
    call[c].st = "sent" ~> call[c].st = "done" \/ up # "running"

(* A change the queue took reaches the database: a cached cell and the     *)
(* database are equal again and again, or the cell is one of the           *)
(* exceptions of Coherent.                                                 *)
EventuallySaved ==
  \A k \in Keys :
    []<>(\/ RowOf[k] \notin cached \ raced \/ k \in drift
         \/ Num(cell[k]) = Num(db[k]))

(* A stop that was asked for completes. *)
StopCompletes == up = "stopping" ~> up = "down"

(* check_timeout says that a row leaves the cache only once all its data   *)
(* is in the database ("shuju quanbu dou luodi le, cai yichu huancun").    *)
EvictedOnlySaved ==
  [][\A k \in Keys :
       RowOf[k] \in cached \ cached' /\ up' = "running"
         => Num(cell[k]) = Num(db[k])]_vars
=============================================================================
