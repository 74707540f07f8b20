------------------------------ MODULE Rewards ------------------------------
(***************************************************************************)
(* What a player receives from the coordinator (koko_coordinate): mails    *)
(* and their attachments, present bags, the daily and the serial login     *)
(* prizes, the daily VIP mail, what the player buys, and the items that he *)
(* uses or sends to a friend (msg_client.cpp, koko_coordinate.cpp).        *)
(*                                                                         *)
(* All of them work in the same way.  A request puts a SELECT on the       *)
(* delayed SQL queue (db_delay_helper.cpp).  The database thread takes the *)
(* whole queue as a batch and executes it in the order of a hash table.    *)
(* The callback runs in the main loop's poll, decides on the row it was    *)
(* given, hands out the items with synchronous calls, and puts the         *)
(* statement that marks the reward as taken on the same queue.  Between    *)
(* the SELECT and the mark other requests for the same row may be served,  *)
(* a batch may be lost, and midnight may pass.                             *)
(*                                                                         *)
(* One player.  What is not in the repository is modelled from its use:    *)
(* the steps of a transaction (BEGIN_TRANS ... END_TRANS) run one per      *)
(* round of the main loop, and update_user_item is a stored procedure.     *)
(***************************************************************************)
EXTENDS Integers, Sequences, FiniteSets, Sums

CONSTANTS
  OwnMails,     \* mails to the player
  ForeignMails, \* mails to another player
  SysMails,     \* mails to everybody, uid 'system'
  AttachOf,     \* user_mail.attach_state: 0 nothing attached, 1 not taken, 2 taken
  Presents,     \* present bags
  SignKey,      \* the player's row of user_sign_prize
  VipKey,       \* the player's row of user_last_login_time
  Goods,        \* what can be bought
  Limit,        \* how many of it per day, 0 for no limit
  Frame,        \* is it a head frame
  Activity,     \* is it offered by an activity, once per player
  Filled,       \* is there an item in it
  Price,        \* its prices, charged one after the other
  Currencies, InitBal,  \* gold, tickets, items
  Yield,        \* to_item_: what one of them turns into when it is used
  NItems,       \* items in a mail or a present
  WeekLen,      \* days in a week, and prizes in a week: 7
  InitDay, InitSign,
  Requests,     \* what the client may ask
  MaxCalls,     \* bound: requests
  MaxFaults,    \* bound: SQL errors, lost connections, kills
  MaxIssues,    \* bound: presents handed out by the lucky dial
  MaxDays       \* bound: midnights

Mails == OwnMails \cup ForeignMails \cup SysMails
Calls == 1 .. MaxCalls
Items == 1 .. NItems

(* A row of user_sign_prize: taken is serial_state, one decimal digit per  *)
(* serial prize; last is the day of last_sign_time.                        *)
SignRow == [there : BOOLEAN, days : Nat, serial : Nat, taken : SUBSET (1 .. 3),
            last : Nat]
NoSign == [there |-> FALSE, days |-> 0, serial |-> 0, taken |-> {}, last |-> 0]

Ops == {"detail", "delete", "deleteAll", "attach", "arrive", "present",
        "signList", "sign", "buy", "vip", "send", "sendPwd", "use"}

(* What a request is about exists, and a login prize is one of the four    *)
(* (other requests are refused and change nothing).                        *)
About(r) ==
  /\ r.op \in {"detail", "delete", "attach"} => r.at \in Mails
  /\ r.op = "present" => r.at \in Presents
  /\ r.op = "buy" => r.at \in Goods
  /\ r.op \in {"use", "send", "sendPwd"} => r.at \in Currencies
  /\ r.op = "sign" => r.n \in 0 .. 3
  /\ r.op = "buy" /\ (Frame[r.at] \/ Activity[r.at]) => r.n = 1

ASSUME RewardsAssumption ==
  /\ OwnMails \cap ForeignMails = {} /\ SysMails \cap (OwnMails \cup ForeignMails) = {}
  /\ Presents \cap Mails = {}
  /\ IsFiniteSet(Goods) /\ IsFiniteSet(Currencies)
  /\ AttachOf \in [Mails -> 0 .. 2]
  /\ Limit \in [Goods -> Nat] /\ Frame \in [Goods -> BOOLEAN]
  /\ Activity \in [Goods -> BOOLEAN] /\ \A g \in Goods : Activity[g] => Limit[g] = 0
  /\ Filled \in [Goods -> BOOLEAN] /\ \A g \in Goods : Frame[g] => Filled[g]
  /\ Price \in [Goods -> Seq([cur : Currencies, num : Nat])]
  /\ Yield \in [Currencies -> Seq([cur : Currencies, num : Nat])]
  /\ InitBal \in [Currencies -> Nat]
  /\ NItems \in Nat \ {0} /\ WeekLen \in Nat \ {0}
  /\ InitDay \in Nat \ {0}
  /\ \A r \in Requests : r.op \in Ops /\ r.n \in Nat /\ About(r)
  /\ {MaxCalls, MaxFaults, MaxIssues, MaxDays} \subseteq Nat

(* The row is one that the coordinator wrote, on one day. *)
ASSUME InitSignAssumption ==
  /\ InitSign \in SignRow /\ InitSign.last <= InitDay
  /\ InitSign.days <= (InitSign.last % WeekLen) + 1
  /\ ~InitSign.there => InitSign = NoSign

VARIABLES
  db,       \* the tables
  day,      \* the database's date
  bal,      \* the player's balances
  calls,    \* the requests and where each of them stands
  queue,    \* statements that change something: queued,
  batch,    \* ... and in the batch under execution
  results,  \* executed SELECTs, for the next poll
  given,    \* ledger: items handed out per mail and present,
  failed,   \* ... items that a mail's callback could not hand out,
  strayed,  \* ... attachments handed to the account "system",
  issued,   \* ... how often a present was handed out by the lucky dial,
  signed,   \* ... daily prizes today,
  serials,  \* ... serial prizes in this cycle,
  vips,     \* ... VIP mails today,
  bought,   \* ... units bought,
  today,    \* ... units bought today,
  unserved, \* ... charged, and neither refunded nor served,
  sent,     \* ... units that arrived at a friend,
  used,     \* ... units used
  raced,    \* history: rows on which two requests overlapped, presents given
            \* again before they were marked,
  open,     \* history: rewards handed out whose mark was lost
  late,     \* history: midnight passed during a request for a login prize
  faults

sqlVars == <<queue, batch, results>>
claimed == <<given, failed, strayed, issued, signed, serials, vips>>
paidFor == <<bought, today, unserved, sent, used>>
ledger == <<claimed, paidFor>>
history == <<raced, open, late>>
vars == <<db, day, bal, calls, sqlVars, ledger, history, faults>>

-----------------------------------------------------------------------------
(* Rows, statements, requests *)

NoMail == [there |-> FALSE, state |-> 0, attach |-> 0]
MailRow == [there : BOOLEAN, state : 0 .. 2, attach : 0 .. 2]

(* What a SELECT returned. *)
Image == [mail : MailRow, mails : SUBSET Mails, sign : SignRow, n : Nat]
NoImage == [mail |-> NoMail, mails |-> {}, sign |-> NoSign, n |-> 0]

(* The SELECTs, and the statements that change something. *)
StepNames == {"row", "own", "system", "mail", "slave", "limit", "activity", "frame",
              "friend", "barred", "friendBarred", "password"}
Kinds == {"read", "drop", "readSys", "newSys", "takenSys", "hideSys", "bag", "sign",
          "serial", "reset", "newSign", "num", "frame", "activity", "vip"}

Call == [req : Requests, st : {"queue", "batch", "got", "error", "ready",
                               "done", "lost"},
         todo : Seq(StepNames), seen : BOOLEAN, img : Image]

Write == [call : Calls, kind : Kinds, mails : SUBSET Mails, sign : SignRow]

Wr(c, kind, mails, sign) ==
  [call |-> c, kind |-> kind, mails |-> mails, sign |-> sign]

(* The SELECTs of a request, in their order. *)
Steps(r) ==
  CASE r.op = "buy" -> (IF Limit[r.at] > 0 THEN <<"limit">> ELSE <<>>)
                       \o (IF Activity[r.at] THEN <<"activity">> ELSE <<>>)
                       \o (IF Frame[r.at] THEN <<"frame">> ELSE <<>>)
    [] r.op = "send" -> <<"friend", "barred", "friendBarred">>
    [] r.op = "sendPwd" -> <<"password", "friend", "barred", "friendBarred">>
    [] r.op = "use" -> <<>>
    [] r.op = "deleteAll" -> <<"own", "system">>
    [] r.op = "delete" /\ r.at \in SysMails -> <<"mail", "slave">>
    [] OTHER -> <<"row">>

(* The rows a request is about. *)
Targets(r) ==
  CASE r.op = "deleteAll" -> OwnMails \cup SysMails
    [] r.op = "arrive" -> SysMails
    [] r.op \in {"sign", "signList"} -> {SignKey}
    [] r.op = "vip" -> {VipKey}
    [] r.op \in {"send", "sendPwd", "use"} -> {}
    [] OTHER -> {r.at}

InUse == DOMAIN calls
Pending == queue \cup batch

(* It has read, and what it changes is not in the database yet. *)
InFlight(c) ==
  \/ calls[c].seen /\ calls[c].st \notin {"done", "lost"}
  \/ \E w \in Pending : w.call = c

Busy == UNION {Targets(calls[c].req) : c \in {x \in InUse : InFlight(x)}}
MarksOf(ws) == UNION {Targets(calls[w.call].req) : w \in ws}

Fault == faults < MaxFaults /\ faults' = faults + 1

Week(d) == d \div WeekLen

(* What the SELECTs of login prizes compute about now(). *)
IsToday(img) == img.sign.last = img.n
IsSerial(img) == img.sign.last > 0 /\ img.sign.last + 1 = img.n
IsThisWeek(img) == img.sign.last > 0 /\ Week(img.sign.last) = Week(img.n)

Init ==
  /\ db = [mail |-> [m \in Mails |->
                       [there |-> TRUE, state |-> 0, attach |-> AttachOf[m]]],
           slave |-> [m \in SysMails |-> NoMail],
           bag |-> [p \in Presents |-> 1],
           sign |-> InitSign,
           num |-> [g \in Goods |-> 0], numDay |-> [g \in Goods |-> 0],
           frames |-> {}, acts |-> {}, vipDay |-> 0]
  /\ day = InitDay /\ bal = InitBal
  /\ calls = <<>>
  /\ queue = {} /\ batch = {} /\ results = <<>>
  /\ given = [x \in Mails \cup Presents |-> [i \in Items |-> 0]]
  /\ failed = [m \in Mails |-> [i \in Items |-> 0]]
  /\ strayed = [m \in SysMails |-> 0]
  /\ issued = [p \in Presents |-> 1]
  /\ signed = 0 /\ vips = 0
  /\ serials = [t \in 1 .. 3 |-> IF t \in InitSign.taken THEN 1 ELSE 0]
  /\ bought = [g \in Goods |-> 0] /\ today = [g \in Goods |-> 0]
  /\ unserved = [c \in Currencies |-> 0]
  /\ sent = [c \in Currencies |-> 0] /\ used = [c \in Currencies |-> 0]
  /\ raced = {} /\ open = {} /\ late = FALSE
  /\ faults = 0

-----------------------------------------------------------------------------
(* Requests *)

Start(r) ==
  /\ Len(calls) < MaxCalls
  /\ calls' = Append(calls, [req |-> r, todo |-> Steps(r), seen |-> FALSE,
                             st |-> IF Steps(r) = <<>> THEN "ready" ELSE "queue",
                             img |-> NoImage])
  /\ UNCHANGED <<db, day, bal, sqlVars, ledger, history, faults>>

-----------------------------------------------------------------------------
(* The database thread *)

Selects(st) == {c \in InUse : calls[c].st = st}

TakeBatch ==
  /\ batch = {} /\ Selects("batch") = {}
  /\ queue # {} \/ Selects("queue") # {}
  /\ batch' = queue /\ queue' = {}
  /\ calls' = [c \in InUse |-> IF calls[c].st = "queue"
                               THEN [calls[c] EXCEPT !.st = "batch"]
                               ELSE calls[c]]
  /\ UNCHANGED <<db, day, bal, results, ledger, history, faults>>

(* The connection is gone: the statements are dropped, no callback runs. *)
DbGone ==
  /\ Fault
  /\ batch = {} /\ Selects("batch") = {}
  /\ queue # {} \/ Selects("queue") # {}
  /\ queue' = {}
  /\ calls' = [c \in InUse |-> IF calls[c].st = "queue"
                               THEN [calls[c] EXCEPT !.st = "lost"]
                               ELSE calls[c]]
  /\ open' = open \cup MarksOf(queue)
  /\ UNCHANGED <<db, day, bal, batch, results, ledger, raced, late>>

Deletable(row) == row.there /\ row.state = 1 /\ row.attach # 1

(* Variant: the columns of user_mail alone. *)
SysRowShared(m) == db.mail[m]

(* A mail to everybody as this player sees it: the slave row, or the mail. *)
SysRow(m) ==
  IF db.slave[m].there THEN db.slave[m] ELSE db.mail[m]

ImageOf(r, step) ==
  CASE step = "own" ->
         [NoImage EXCEPT !.mails = {m \in OwnMails : Deletable(db.mail[m])}]
    [] step = "system" ->
         [NoImage EXCEPT !.mails = {m \in SysMails : Deletable(db.slave[m])}]
    [] step = "slave" -> [NoImage EXCEPT !.mail = db.slave[r.at]]
    [] step = "limit" ->
         [NoImage EXCEPT !.n = IF db.numDay[r.at] = day THEN db.num[r.at] ELSE 0]
    [] step = "frame" -> [NoImage EXCEPT !.n = IF r.at \in db.frames THEN 1 ELSE 0]
    [] step = "activity" -> [NoImage EXCEPT !.n = IF r.at \in db.acts THEN 1 ELSE 0]
    [] r.op \in {"send", "sendPwd"} -> NoImage
    [] r.op = "arrive" ->
         [NoImage EXCEPT !.mails = {m \in SysMails : ~db.slave[m].there}]
    [] r.op = "present" -> [NoImage EXCEPT !.n = db.bag[r.at]]
    [] r.op \in {"sign", "signList"} ->
         [NoImage EXCEPT !.sign = db.sign, !.n = day]
    [] r.op = "vip" -> [NoImage EXCEPT !.n = IF db.vipDay = day THEN 1 ELSE 0]
    [] OTHER -> [NoImage EXCEPT !.mail =
                   IF r.at \in SysMails THEN SysRow(r.at) ELSE db.mail[r.at]]

ExecSelect(c) ==
  LET call == calls[c]
  IN  /\ call.st = "batch"
      /\ calls' = [calls EXCEPT ![c] =
           [call EXCEPT !.st = "got", !.seen = TRUE, !.todo = Tail(call.todo),
                        !.img = ImageOf(call.req, Head(call.todo))]]
      /\ results' = Append(results, c)
      /\ raced' = raced \cup
           (Targets(call.req) \cap
            UNION {Targets(calls[x].req) : x \in {y \in InUse \ {c} : InFlight(y)}})
      /\ UNCHANGED <<db, day, bal, queue, batch, ledger, open, late, faults>>

(* Variant: a failed SELECT leaves no result behind. *)
ExecSelectFailSilent(c) ==
  /\ Fault
  /\ calls[c].st = "batch"
  /\ calls' = [calls EXCEPT ![c].st = "error"]
  /\ UNCHANGED <<db, day, bal, queue, batch, results, ledger, history>>

ExecSelectFail(c) ==
  /\ Fault
  /\ calls[c].st = "batch"
  /\ calls' = [calls EXCEPT ![c].st = "error"]
  /\ results' = Append(results, c)
  /\ UNCHANGED <<db, day, bal, queue, batch, ledger, history>>

(* What a statement makes of the tables; it may find its row gone. *)
SetState(rows, ms, state) ==
  [m \in DOMAIN rows |-> IF m \in ms /\ rows[m].there
                         THEN [rows[m] EXCEPT !.state = state] ELSE rows[m]]

Applied(w) ==
  LET at == calls[w.call].req.at
      n == calls[w.call].req.n
  IN  CASE w.kind = "read" -> [db EXCEPT !.mail = SetState(db.mail, w.mails, 1)]
        [] w.kind = "drop" ->
             [db EXCEPT !.mail = [m \in Mails |->
                IF m \in w.mails THEN NoMail ELSE db.mail[m]]]
        [] w.kind = "readSys" ->  \* INSERT, or state = 1 if the row is there
             [db EXCEPT !.slave[at] =
                [there |-> TRUE, state |-> 1,
                 attach |-> IF db.slave[at].there THEN db.slave[at].attach
                            ELSE calls[w.call].img.mail.attach]]
        [] w.kind = "newSys" ->  \* one INSERT per mail, refused if the row is there
             [db EXCEPT !.slave = [m \in SysMails |->
                IF m \in w.mails /\ ~db.slave[m].there
                THEN [there |-> TRUE, state |-> 0, attach |-> AttachOf[m]]
                ELSE db.slave[m]]]
        [] w.kind = "takenSys" ->
             [db EXCEPT !.slave[at] = [there |-> TRUE, state |-> 2, attach |-> 2]]
        [] w.kind = "hideSys" ->
             [db EXCEPT !.slave =
                SetState(db.slave, {m \in w.mails : Deletable(db.slave[m])}, 2)]
        [] w.kind = "bag" -> [db EXCEPT !.bag[at] = 2]
        [] w.kind = "sign" -> [db EXCEPT !.sign = [w.sign EXCEPT !.last = day]]
        [] w.kind = "serial" -> [db EXCEPT !.sign.taken = w.sign.taken]
        [] w.kind = "reset" -> [db EXCEPT !.sign.serial = 0, !.sign.taken = {}]
        [] w.kind = "newSign" ->
             IF db.sign.there THEN db
             ELSE [db EXCEPT !.sign = [NoSign EXCEPT !.there = TRUE]]
        [] w.kind = "num" ->
             [db EXCEPT !.num[at] = IF db.numDay[at] = day THEN db.num[at] + n ELSE n,
                        !.numDay[at] = day]
        [] w.kind = "frame" -> [db EXCEPT !.frames = db.frames \cup {at}]
        [] w.kind = "activity" -> [db EXCEPT !.acts = db.acts \cup {at}]
        [] w.kind = "vip" -> [db EXCEPT !.vipDay = day]

ExecWrite(w) ==
  /\ w \in batch
  /\ batch' = batch \ {w}
  /\ db' = Applied(w)
  /\ serials' = IF w.kind = "reset" \/ (w.kind = "sign" /\ w.sign.taken = {})
                THEN [t \in 1 .. 3 |-> 0] ELSE serials
  /\ UNCHANGED <<day, bal, calls, queue, results, given, failed, strayed, issued,
                 signed, vips, paidFor, history, faults>>

ExecWriteFail(w) ==
  /\ Fault
  /\ w \in batch
  /\ batch' = batch \ {w}
  /\ open' = open \cup MarksOf({w})
  /\ UNCHANGED <<db, day, bal, calls, queue, results, ledger, raced, late>>

-----------------------------------------------------------------------------
(* The main loop: how a callback or a transaction ends *)

Polled(c) == results # <<>> /\ c = Head(results)

(* The callback of a request that decides on its (last) SELECT. *)
Decides(c, op) ==
  /\ Polled(c) /\ calls[c].st = "got" /\ calls[c].req.op = op
  /\ calls[c].todo = <<>>
  /\ results' = Tail(results)

Done(c, writes) ==
  /\ calls' = [calls EXCEPT ![c].st = "done"]
  /\ queue' = queue \cup writes

(* The SELECT failed: the client is told so. *)
CallbackError(c) ==
  /\ Polled(c) /\ calls[c].st = "error"
  /\ results' = Tail(results)
  /\ calls' = [calls EXCEPT ![c].st = "done"]
  /\ UNCHANGED <<db, day, bal, queue, batch, ledger, history, faults>>

-----------------------------------------------------------------------------
(* Mails *)

DetailRefused(c) ==
  LET row == calls[c].img.mail
  IN  calls[c].req.at \in ForeignMails \/ ~row.there \/ row.state = 2

(* msg_get_mail_detail: a mail that was not read yet is marked as read. *)
Detail(c) ==
  LET m == calls[c].req.at
      kind == IF m \in SysMails THEN "readSys" ELSE "read"
  IN  /\ Decides(c, "detail")
      /\ Done(c, IF ~DetailRefused(c) /\ calls[c].img.mail.state = 0
                 THEN {Wr(c, kind, {m}, NoSign)} ELSE {})
      /\ UNCHANGED <<db, day, bal, batch, ledger, history, faults>>

(* msg_del_mail, a mail to the player: read, and nothing left to take. *)
DeleteOwn(c) ==
  LET m == calls[c].req.at
  IN  /\ Decides(c, "delete") /\ m \notin SysMails
      /\ Done(c, IF m \notin ForeignMails /\ Deletable(calls[c].img.mail)
                 THEN {Wr(c, "drop", {m}, NoSign)} ELSE {})
      /\ UNCHANGED <<db, day, bal, batch, ledger, history, faults>>

(* A mail to everybody: a second SELECT reads the slave row. *)
NextSelect(c) ==
  /\ Polled(c) /\ calls[c].st = "got" /\ calls[c].todo # <<>>
  /\ calls[c].req.op = "delete"
  /\ results' = Tail(results)
  /\ calls' = [calls EXCEPT ![c].st = "queue"]
  /\ UNCHANGED <<db, day, bal, queue, batch, ledger, history, faults>>

(* ... and its state is set at once. *)
DeleteSys(c) ==
  LET m == calls[c].req.at
  IN  /\ Decides(c, "delete") /\ m \in SysMails
      /\ Done(c, {})
      /\ db' = IF Deletable(calls[c].img.mail)
               THEN [db EXCEPT !.slave = SetState(db.slave, {m}, 2)] ELSE db
      /\ UNCHANGED <<day, bal, batch, ledger, history, faults>>

(* msg_get_mail_attach refuses a mail to somebody else, or one without     *)
(* anything to take; for a mail to everybody it does not look.             *)
AttachRefused(c) ==
  LET m == calls[c].req.at
      row == calls[c].img.mail
  IN  \/ ~row.there
      \/ m \notin SysMails /\ (m \in ForeignMails \/ row.attach # 1)

AttachRefuse(c) ==
  /\ Decides(c, "attach") /\ AttachRefused(c)
  /\ Done(c, {})
  /\ UNCHANGED <<db, day, bal, batch, ledger, history, faults>>

(* Each attachment is handed out on its own; one that fails is logged.     *)
AttachOwn(c) ==
  LET m == calls[c].req.at
  IN  /\ Decides(c, "attach") /\ ~AttachRefused(c) /\ m \notin SysMails
      /\ \E bad \in SUBSET Items :
           /\ IF bad = {} THEN UNCHANGED faults ELSE Fault
           /\ given' = [given EXCEPT ![m] =
                [i \in Items |-> given[m][i] + IF i \in bad THEN 0 ELSE 1]]
           /\ failed' = [failed EXCEPT ![m] =
                [i \in Items |-> failed[m][i] + IF i \in bad THEN 1 ELSE 0]]
      /\ Done(c, {Wr(c, "drop", {m}, NoSign)})
      /\ UNCHANGED <<db, day, bal, batch, strayed, issued, signed, serials, vips,
                     paidFor, history>>

(* The attachments of a mail to everybody go to its uid.  All that the     *)
(* slave row says is written for the player.                               *)
AttachSys(c) ==
  LET m == calls[c].req.at
  IN  /\ Decides(c, "attach") /\ ~AttachRefused(c) /\ m \in SysMails
      /\ strayed' = [strayed EXCEPT ![m] = strayed[m] + 1]
      /\ Done(c, {Wr(c, "takenSys", {m}, NoSign)})
      /\ UNCHANGED <<db, day, bal, batch, given, failed, issued, signed, serials,
                     vips, paidFor, history, faults>>

(* send_system_mail at a login: a slave row for each mail that has none. *)
Arrive(c) ==
  /\ Decides(c, "arrive")
  /\ Done(c, IF calls[c].img.mails = {} THEN {}
             ELSE {Wr(c, "newSys", calls[c].img.mails, NoSign)})
  /\ UNCHANGED <<db, day, bal, batch, ledger, history, faults>>

(* msg_del_all_mail: the callbacks of its two SELECTs. *)
DeleteAll(c) ==
  LET ms == calls[c].img.mails
      kind == IF calls[c].todo = <<>> THEN "hideSys" ELSE "drop"
  IN  /\ Polled(c) /\ calls[c].st = "got" /\ calls[c].req.op = "deleteAll"
      /\ results' = Tail(results)
      /\ calls' = [calls EXCEPT ![c].st =
                     IF calls[c].todo = <<>> THEN "done" ELSE "ready"]
      /\ queue' = IF ms = {} THEN queue ELSE queue \cup {Wr(c, kind, ms, NoSign)}
      /\ UNCHANGED <<db, day, bal, batch, ledger, history, faults>>

-----------------------------------------------------------------------------
(* Presents, VIP mails *)

(* Variant: the SELECT does not ask for state 1. *)
PresentRefusedNever(c) == FALSE

PresentRefused(c) == calls[c].img.n # 1

PresentRefuse(c) ==
  /\ Decides(c, "present") /\ PresentRefused(c)
  /\ Done(c, {})
  /\ UNCHANGED <<db, day, bal, batch, ledger, history, faults>>

Gives(x, is) ==
  given' = [given EXCEPT ![x] =
              [i \in Items |-> given[x][i] + IF i \in is THEN 1 ELSE 0]]

Present(c) ==
  /\ Decides(c, "present") /\ ~PresentRefused(c)
  /\ Gives(calls[c].req.at, Items)
  /\ Done(c, {Wr(c, "bag", {}, NoSign)})
  /\ UNCHANGED <<db, day, bal, batch, failed, strayed, issued, signed, serials,
                 vips, paidFor, history, faults>>

(* update_item stops at the first item that fails: those before it stay    *)
(* handed out, and the present is not marked.                              *)
PresentBroken(c) ==
  /\ Fault
  /\ Decides(c, "present") /\ ~PresentRefused(c)
  /\ \E k \in 0 .. NItems - 1 : Gives(calls[c].req.at, 1 .. k)
  /\ Done(c, {})
  /\ open' = open \cup Targets(calls[c].req)
  /\ UNCHANGED <<db, day, bal, batch, failed, strayed, issued, signed, serials,
                 vips, paidFor, raced, late>>

(* It was handed out, and the statement that marks it is on its way.       *)
BagMarked(p) == \E w \in Pending : w.kind = "bag" /\ calls[w.call].req.at = p

(* The lucky dial gives the present again (one_lucky_dial): its handler    *)
(* runs in the main loop and writes at once, also between the statements   *)
(* of a batch. One that waits to be claimed is the same as before; one     *)
(* whose mark is on its way is new, and will be marked all the same.       *)
Issue(p) ==
  /\ issued[p] <= MaxIssues
  /\ db' = [db EXCEPT !.bag[p] = 1]
  /\ issued' = [issued EXCEPT ![p] = issued[p] +
                  IF db.bag[p] = 1 /\ ~BagMarked(p) THEN 0 ELSE 1]
  /\ raced' = IF BagMarked(p) THEN raced \cup {p} ELSE raced
  /\ UNCHANGED <<day, bal, calls, sqlVars, given, failed, strayed, signed,
                 serials, vips, paidFor, open, late, faults>>

(* send_daily_present_to_vip: the first login of a day sends a mail, which *)
(* then is one like any other.                                             *)
Vip(c) ==
  LET first == calls[c].img.n = 0
  IN  /\ Decides(c, "vip")
      /\ vips' = vips + IF first THEN 1 ELSE 0
      /\ Done(c, IF first THEN {Wr(c, "vip", {}, NoSign)} ELSE {})
      /\ UNCHANGED <<db, day, bal, batch, given, failed, strayed, issued, signed,
                     serials, paidFor, history, faults>>

-----------------------------------------------------------------------------
(* Transactions: a callback keeps what it read, or ends with a refusal *)

(* The SELECT whose result a request was given. *)
StepRead(c) == LET steps == Steps(calls[c].req)
               IN  steps[Len(steps) - Len(calls[c].todo)]

LimitRefused(c) ==
  LET r == calls[c].req
  IN  StepRead(c) = "limit" /\ calls[c].img.n + r.n > Limit[r.at]

(* CHECK_EXISTS: the frame is there, the activity was used. *)
ExistsRefused(c) == StepRead(c) \in {"frame", "activity"} /\ calls[c].img.n = 1

(* Who a present is sent to, whether one of the two is barred, and the     *)
(* password, are found in tables that nothing here changes.                *)
MayRefuse(c, refused) ==
  CASE calls[c].req.op = "buy" -> refused = (LimitRefused(c) \/ ExistsRefused(c))
    [] calls[c].req.op = "sign" -> refused = ~calls[c].img.sign.there
    [] OTHER -> refused \in BOOLEAN

TransRead(c) ==
  /\ Polled(c) /\ calls[c].st = "got"
  /\ calls[c].req.op \in {"sign", "buy", "send", "sendPwd"}
  /\ results' = Tail(results)
  /\ \E refused \in BOOLEAN :
       /\ MayRefuse(c, refused)
       /\ calls' = [calls EXCEPT ![c].st = IF refused THEN "done" ELSE "ready"]
  /\ UNCHANGED <<db, day, bal, queue, batch, ledger, history, faults>>

(* transaction_controller::step: the next SELECT. *)
TransNext(c) ==
  /\ calls[c].st = "ready" /\ calls[c].todo # <<>>
  /\ calls' = [calls EXCEPT ![c].st = "queue"]
  /\ UNCHANGED <<db, day, bal, sqlVars, ledger, history, faults>>

(* ... or the function at the end. *)
Runs(c, op) ==
  calls[c].st = "ready" /\ calls[c].todo = <<>> /\ calls[c].req.op = op

-----------------------------------------------------------------------------
(* Login prizes: msg_get_login_prize, type 0 for the day, 1 to 3 serial *)

(* The row that the daily prize of img makes; last is set by the UPDATE. *)
SignedRow(img) ==
  LET row == img.sign
      more == IsSerial(img)
      full == more /\ row.serial + 1 >= 9 /\ row.taken = 1 .. 3
  IN  [there |-> TRUE, last |-> row.last,
       days |-> (IF IsThisWeek(img) THEN row.days ELSE 0) + 1,
       serial |-> IF more /\ ~full THEN row.serial + 1 ELSE 1,
       taken |-> IF more /\ ~full THEN row.taken ELSE {}]

(* Variant: today is not looked at. *)
SignRefusedNotToday(c) ==
  LET img == calls[c].img
      t == calls[c].req.n
  IN  IF t = 0 THEN SignedRow(img).days > WeekLen
      ELSE t \in img.sign.taken \/ img.sign.serial < 3 * t

SignRefused(c) ==
  LET img == calls[c].img
      t == calls[c].req.n
  IN  IF t = 0 THEN IsToday(img) \/ SignedRow(img).days > WeekLen
      ELSE t \in img.sign.taken \/ img.sign.serial < 3 * t

SignRefuse(c) ==
  /\ Runs(c, "sign") /\ SignRefused(c)
  /\ Done(c, {})
  /\ UNCHANGED <<db, day, bal, batch, results, ledger, history, faults>>

Sign(c) ==
  /\ Runs(c, "sign") /\ calls[c].req.n = 0 /\ ~SignRefused(c)
  /\ signed' = signed + 1
  /\ Done(c, {Wr(c, "sign", {}, SignedRow(calls[c].img))})
  /\ UNCHANGED <<db, day, bal, batch, results, given, failed, strayed, issued,
                 serials, vips, paidFor, history, faults>>

(* serial_state with the digit of this prize. *)
TakenWith(c) ==
  [calls[c].img.sign EXCEPT !.taken = calls[c].img.sign.taken \cup {calls[c].req.n}]

Serial(c) ==
  LET t == calls[c].req.n
  IN  /\ Runs(c, "sign") /\ t > 0 /\ ~SignRefused(c)
      /\ serials' = [serials EXCEPT ![t] = serials[t] + 1]
      /\ Done(c, {Wr(c, "serial", {}, TakenWith(c))})
      /\ UNCHANGED <<db, day, bal, batch, results, given, failed, strayed, issued,
                     signed, vips, paidFor, history, faults>>

(* update_item fails: nothing is marked, some of the prize may be given. *)
SignBroken(c) ==
  /\ Fault
  /\ Runs(c, "sign") /\ ~SignRefused(c)
  /\ Done(c, {})
  /\ open' = open \cup {SignKey}
  /\ UNCHANGED <<db, day, bal, batch, results, ledger, raced, late>>

(* msg_get_login_prize_list: adds the row, or ends a cycle. *)
SignList(c) ==
  LET img == calls[c].img
      ends == ~IsToday(img) /\ (~IsSerial(img) \/ img.sign.taken = 1 .. 3)
  IN  /\ Decides(c, "signList")
      /\ Done(c, IF ~img.sign.there THEN {Wr(c, "newSign", {}, NoSign)}
                 ELSE IF ends THEN {Wr(c, "reset", {}, NoSign)} ELSE {})
      /\ UNCHANGED <<db, day, bal, batch, ledger, history, faults>>

-----------------------------------------------------------------------------
(* Purchases: msg_buy_item, msg_buy_item_by_activity *)

(* What the items js of a list are in one currency. *)
Amount(list, js, cur) ==
  SumOver([j \in js |-> IF list[j].cur = cur THEN list[j].num ELSE 0], js)

Cost(g, js, cur) == Amount(Price[g], js, cur)

(* The balances when the prices js of n units were charged. *)
After(g, js, n) == [cur \in Currencies |-> bal[cur] - n * Cost(g, js, cur)]

Affordable(g, k, n) == \A cur \in Currencies : After(g, 1 .. k, n)[cur] >= 0

(* Variant: the price that failed is refunded as well. *)
RefundsAll(k, bad) == (1 .. k) \ bad

Refunds(k, bad) == (1 .. k - 1) \ bad

(* Charging stops at price k: there is not enough, or the call fails.  The *)
(* prices before it are refunded; a refund may fail, which is only logged. *)
BuyRefused(c) ==
  LET g == calls[c].req.at
      n == calls[c].req.n
  IN  /\ Runs(c, "buy")
      /\ \E k \in DOMAIN Price[g] :
           /\ Affordable(g, k - 1, n)
           /\ \E bad \in SUBSET (1 .. k - 1) :
                /\ IF Affordable(g, k, n) \/ bad # {} THEN Fault
                                                      ELSE UNCHANGED faults
                /\ bal' = [cur \in Currencies |->
                     After(g, 1 .. k - 1, n)[cur] + n * Cost(g, Refunds(k, bad), cur)]
                /\ unserved' = [cur \in Currencies |->
                     unserved[cur] + n * Cost(g, bad, cur)]
      /\ Done(c, {})
      /\ UNCHANGED <<db, day, batch, results, claimed, bought, today, sent, used,
                     history>>

Paid(c) ==
  LET g == calls[c].req.at
      n == calls[c].req.n
  IN  /\ Runs(c, "buy") /\ Affordable(g, Len(Price[g]), n)
      /\ bal' = After(g, DOMAIN Price[g], n)

Purchase(c, marks) ==
  LET g == calls[c].req.at
      n == calls[c].req.n
      frame == IF Frame[g] THEN {"frame"} ELSE {}
  IN  /\ Paid(c)
      /\ bought' = [bought EXCEPT ![g] = bought[g] + n]
      /\ today' = [today EXCEPT ![g] = today[g] + n]
      /\ Done(c, {Wr(c, kind, {}, NoSign) : kind \in marks \cup frame})
      /\ UNCHANGED <<db, day, batch, results, claimed, unserved, sent, used, history,
                     faults>>

Buy(c) ==
  LET g == calls[c].req.at
  IN  /\ Runs(c, "buy") /\ ~Activity[g]
      /\ Purchase(c, IF Limit[g] > 0 THEN {"num"} ELSE {})

(* log_buy_goods_by_activity, which the next request looks at, has a row   *)
(* only for what has a price and an item.                                  *)
Logged(g) == Price[g] # <<>> /\ Filled[g]

BuyByActivity(c) ==
  LET g == calls[c].req.at
  IN  /\ Runs(c, "buy") /\ Activity[g]
      /\ Purchase(c, IF Logged(g) THEN {"activity"} ELSE {})

(* The items cannot be handed out: the charge stays. *)
BuyBroken(c) ==
  LET g == calls[c].req.at
      n == calls[c].req.n
  IN  /\ Fault
      /\ Paid(c) /\ Filled[g]
      /\ unserved' = [cur \in Currencies |->
                        unserved[cur] + n * Cost(g, DOMAIN Price[g], cur)]
      /\ Done(c, {})
      /\ UNCHANGED <<db, day, batch, results, claimed, bought, today, sent, used,
                     history>>

-----------------------------------------------------------------------------
(* Items: msg_use_present, msg_transfer_gold_to_game, msg_send_present,    *)
(* msg_send_present_by_pwd                                                 *)

(* The charge that comes first; there may not be enough, or it fails. *)
Charges(c) == bal[calls[c].req.at] >= calls[c].req.n

ItemRefused(c) ==
  /\ Runs(c, "use") \/ Runs(c, "send") \/ Runs(c, "sendPwd")
  /\ IF Charges(c) THEN Fault ELSE UNCHANGED faults
  /\ Done(c, {})
  /\ UNCHANGED <<db, day, bal, batch, results, ledger, history>>

(* What it turns into is added one by one, up to the first that fails.     *)
(* msg_transfer_gold_to_game turns gold into gold of the games like that.  *)
Use(c) ==
  LET x == calls[c].req.at
      n == calls[c].req.n
      all == DOMAIN Yield[x]
      Without(cur) == IF cur = x THEN bal[cur] - n ELSE bal[cur]
  IN  /\ Runs(c, "use") /\ Charges(c)
      /\ \E k \in 0 .. Len(Yield[x]) :
           /\ IF k < Len(Yield[x]) THEN Fault ELSE UNCHANGED faults
           /\ bal' = [cur \in Currencies |->
                        Without(cur) + n * Amount(Yield[x], 1 .. k, cur)]
           /\ unserved' = [cur \in Currencies |->
                             unserved[cur] + n * Amount(Yield[x], all \ (1 .. k), cur)]
      /\ used' = [used EXCEPT ![x] = used[x] + n]
      /\ Done(c, {})
      /\ UNCHANGED <<db, day, batch, results, claimed, bought, today, sent, history>>

(* Whether the addition succeeded is not looked at: the friend gets a mail *)
(* about the present in any case.                                          *)
Send(c) ==
  LET x == calls[c].req.at
      n == calls[c].req.n
  IN  /\ Runs(c, "send") \/ Runs(c, "sendPwd")
      /\ Charges(c)
      /\ bal' = [bal EXCEPT ![x] = bal[x] - n]
      /\ \/ sent' = [sent EXCEPT ![x] = sent[x] + n] /\ UNCHANGED <<unserved, faults>>
         \/ /\ Fault
            /\ unserved' = [unserved EXCEPT ![x] = unserved[x] + n]
            /\ UNCHANGED sent
      /\ Done(c, {})
      /\ UNCHANGED <<db, day, batch, results, claimed, bought, today, used, history>>

-----------------------------------------------------------------------------
NextDay ==
  /\ day < InitDay + MaxDays
  /\ day' = day + 1
  /\ signed' = 0 /\ vips' = 0 /\ today' = [g \in Goods |-> 0]
  /\ late' = (late \/ SignKey \in Busy)
  /\ UNCHANGED <<db, bal, calls, sqlVars, given, failed, strayed, issued, serials,
                 bought, unserved, sent, used, raced, open, faults>>

(* The process is killed: what is in memory is gone. *)
Kill ==
  /\ Fault
  /\ calls' = [c \in InUse |-> IF calls[c].st = "done" THEN calls[c]
                               ELSE [calls[c] EXCEPT !.st = "lost"]]
  /\ queue' = {} /\ batch' = {} /\ results' = <<>>
  /\ open' = open \cup MarksOf(Pending)
  /\ UNCHANGED <<db, day, bal, ledger, raced, late>>

Callback(c) ==
  \/ CallbackError(c) \/ NextSelect(c) \/ TransRead(c)
  \/ Detail(c) \/ DeleteOwn(c) \/ DeleteSys(c) \/ DeleteAll(c) \/ Arrive(c)
  \/ AttachRefuse(c) \/ AttachOwn(c) \/ AttachSys(c)
  \/ PresentRefuse(c) \/ Present(c) \/ PresentBroken(c) \/ Vip(c) \/ SignList(c)

Step(c) ==
  \/ TransNext(c) \/ SignRefuse(c) \/ Sign(c) \/ Serial(c) \/ SignBroken(c)
  \/ BuyRefused(c) \/ Buy(c) \/ BuyByActivity(c) \/ BuyBroken(c)
  \/ ItemRefused(c) \/ Use(c) \/ Send(c)

Next ==
  \/ \E r \in Requests : Start(r)
  \/ TakeBatch \/ DbGone
  \/ \E c \in InUse : ExecSelect(c) \/ ExecSelectFail(c) \/ Callback(c) \/ Step(c)
  \/ \E w \in batch : ExecWrite(w) \/ ExecWriteFail(w)
  \/ \E p \in Presents : Issue(p)
  \/ NextDay \/ Kill

Spec == Init /\ [][Next]_vars

(* The main loop polls and steps in each of its rounds, the database       *)
(* thread works through its queue.                                         *)
Fairness ==
  /\ WF_vars(TakeBatch)
  /\ WF_vars(\E w \in batch : ExecWrite(w))
  /\ WF_vars(\E c \in InUse : ExecSelect(c))
  /\ WF_vars(\E c \in InUse : Callback(c))
  /\ WF_vars(\E c \in InUse : Step(c))

FairSpec == Spec /\ Fairness

-----------------------------------------------------------------------------
(* Properties *)

TypeOK ==
  /\ db.mail \in [Mails -> MailRow] /\ db.slave \in [SysMails -> MailRow]
  /\ db.bag \in [Presents -> 1 .. 2] /\ db.sign \in SignRow
  /\ db.num \in [Goods -> Nat] /\ db.numDay \in [Goods -> Nat]
  /\ db.frames \cup db.acts \subseteq Goods /\ db.vipDay \in Nat
  /\ day \in Nat /\ bal \in [Currencies -> Nat]
  /\ calls \in Seq(Call) /\ Len(calls) <= MaxCalls
  /\ \A w \in Pending : w \in Write /\ w.call \in InUse
  /\ \A i \in DOMAIN results : calls[results[i]].st \in {"got", "error"}
  /\ faults \in 0 .. MaxFaults

Settled(x) == x \notin raced \cup open

(* A mail's attachments are handed out once, a present as often as the     *)
(* dial gave it, unless two requests about it overlapped or its mark was   *)
(* lost: every callback decides on the row its own SELECT saw, and the     *)
(* dial writes that row at any moment between.                             *)
GrantedOnce ==
  \A i \in Items :
    /\ \A m \in OwnMails : Settled(m) => given[m][i] <= 1
    /\ \A p \in Presents : Settled(p) => given[p][i] <= issued[p]

(* One daily prize and one VIP mail a day, each serial prize once in a     *)
(* cycle, under the same condition; also when midnight falls between the   *)
(* SELECT, the handing out and the UPDATE that stores now().               *)
PrizedOnce ==
  /\ Settled(SignKey) => signed <= 1 /\ \A t \in 1 .. 3 : serials[t] <= 1
  /\ Settled(VipKey) => vips <= 1

(* serial_state remembers each serial prize of the cycle that was handed   *)
(* out, or its UPDATE is on the way.                                       *)
SerialKept ==
  Settled(SignKey) =>
    \A t \in 1 .. 3 :
      serials[t] > 0 =>
        \/ t \in db.sign.taken
        \/ \E w \in Pending : w.kind = "serial" /\ t \in w.sign.taken

(* Who has not signed yet today finds a prize in the week's list, for      *)
(* sign_days starts again with the week; unless midnight fell between an   *)
(* earlier SELECT and the UPDATE that stored the new day with it.          *)
PrizeListed ==
  ~late =>
    \A c \in InUse :
      calls[c].req.op = "sign" /\ calls[c].img.sign.there /\ ~IsToday(calls[c].img)
        => SignedRow(calls[c].img).days <= WeekLen

(* Nothing is taken away unused: a mail of the player with attachments     *)
(* only leaves the table after each of them was handed out or failed, and  *)
(* a present is marked only after it was handed out; except for one that   *)
(* the dial gave before the earlier one was marked, which is lost.         *)
TakenOnlyGiven ==
  /\ \A m \in OwnMails :
       AttachOf[m] = 1 /\ ~db.mail[m].there =>
         \A i \in Items : given[m][i] + failed[m][i] > 0
  /\ \A m \in ForeignMails : db.mail[m].there
  /\ \A p \in Presents :
       db.bag[p] = 2 /\ p \notin raced =>
         \A i \in Items : given[p][i] >= issued[p]

(* Rewards are handed out, and marked, once and in this order; with the    *)
(* types of the variables.                                                 *)
ClaimInv == TypeOK /\ GrantedOnce /\ TakenOnlyGiven

(* The login prizes: each once, none forgotten, none out of the list. *)
PrizeInv == PrizedOnce /\ SerialKept /\ PrizeListed

(* A mail to everybody that the player deleted, or took, does not come     *)
(* back, neither by a mark as read nor at the next login.                  *)
StaysDeleted ==
  [][\A m \in SysMails \ raced :
       db.slave[m].state = 2 => db'.slave[m].state = 2]_vars

(* The daily limit of a good, one purchase of a head frame, and one in an  *)
(* activity, under the same condition. What an activity offers free of     *)
(* charge, or without an item, is excepted: its purchase is not logged,    *)
(* and the SELECT that is to refuse the next one finds nothing.            *)
LimitKept ==
  \A g \in Goods :
    Settled(g) =>
      /\ Limit[g] > 0 => today[g] <= Limit[g]
      /\ Frame[g] \/ (Activity[g] /\ Logged(g)) => bought[g] <= 1

(* What left the balances is what the purchases cost, what was sent to a   *)
(* friend or turned into something else, and what a failed refund or a     *)
(* failed delivery kept.                                                   *)
ChargedForGoods ==
  \A cur \in Currencies :
    InitBal[cur] - bal[cur] =
      unserved[cur] + sent[cur] + used[cur] +
      SumOver([g \in Goods |-> bought[g] * Cost(g, DOMAIN Price[g], cur)], Goods) -
      SumOver([x \in Currencies |-> used[x] * Amount(Yield[x], DOMAIN Yield[x], cur)],
              Currencies)

(* Purchases keep to the limits and are paid. *)
PurchaseInv == LimitKept /\ ChargedForGoods

(* Every request is answered, unless the connection or the process is lost *)
(* on the way: no step of a transaction waits for one that never comes.    *)
EveryRequestAnswered ==
  \A c \in Calls :
    c \in InUse ~> c \in InUse /\ calls[c].st \in {"done", "lost"}
=============================================================================
