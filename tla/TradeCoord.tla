----------------------------- MODULE TradeCoord -----------------------------
(***************************************************************************)
(* The currency trades of the coordinator (koko_coordinate): a game server *)
(* moves money between a player's platform account and the game in two     *)
(* phases, prepare and commit, under an order number sn.                   *)
(*                                                                         *)
(* msg_koko_trade_inout::handle_this and do_trade (msg_client.cpp) keep    *)
(* the orders in glb_trades, the charge itself is a call of a stored       *)
(* procedure on the delayed SQL queue, its callback (common.cpp) runs in   *)
(* the main loop, and a sweep at the end of every round of the loop        *)
(* (koko_coordinate.cpp) drops the orders that are done and takes back     *)
(* those that failed or waited for more than two seconds.                  *)
(*                                                                         *)
(* Not in the repository, and modelled from how this code uses them: the   *)
(* stored procedure update_user_item, and the game server's side of the    *)
(* two phases (game_service_base has the older, one-phase side).           *)
(***************************************************************************)
EXTENDS Integers, Sequences

CONSTANTS
  Sns,        \* order numbers: one trade each
  Dir,        \* direction: 0 charge an amount, 1 charge everything, 2 pay in
  Cur,        \* the currency the message names in the high half of dir_
  Cnt,        \* the amount the message names (none for direction 1)
  Currencies, \* the platform's currencies
  GoldGame,   \* item_id_gold_game, the currency of a dir_ without high half
  InitBal,    \* what the player has on the platform
  Repeated,   \* phases in which the game server repeats an unanswered message
  MaxRepeats, \* bound: repeated messages
  MaxFaults,  \* bound: SQL errors, broken connections, crashes
  NoOrder     \* glb_trades holds nothing for the number

ASSUME TradesAssumption ==
  /\ Dir \in [Sns -> {0, 1, 2}]
  /\ Cur \in [Sns -> Currencies]
  /\ Cnt \in [Sns -> Nat]
  /\ GoldGame \in Currencies
  /\ InitBal \in [Currencies -> Nat]
  /\ Repeated \subseteq {"prepare", "commit"}
  /\ MaxRepeats \in Nat /\ MaxFaults \in Nat

VARIABLES
  orders,    \* glb_trades
  stmts,     \* calls of update_user_item in the SQL queue or its batch
  results,   \* their results, for the next poll
  turn,      \* where the main loop stands: poll, msgs, sweep
  todo,      \* messages picked up and not handled yet in this round
  bal,       \* the player's balance on the platform
  inbox,     \* messages from the game server
  outbox,    \* answers on their way to it
  conn,      \* which connection to the game server is the current one
  game,      \* the game server's view of each trade
  charged,   \* ledger of each number: taken from the platform account,
  kept,      \* ... of it by orders that were committed,
  refunded,  \* ... given back,
  lost,      \* ... neither, after a failed refund or a crash;
  added,     \* paid in
  early,     \* history: numbers committed before their charge was executed
  overtaken, \* history: numbers committed and then taken back by the sweep
  renewed,   \* history: "everything" charged a second time under its number
  taken,     \* history: commits of a payment in, from the one that queued it on
  repeats, faults  \* counters for the bounds

coordVars == <<orders, turn, todo>>
sqlVars == <<stmts, results, bal>>
netVars == <<inbox, outbox, conn>>
ledger == <<charged, kept, refunded, lost, added>>
history == <<early, overtaken, renewed, taken>>
bounds == <<repeats, faults>>
vars == <<coordVars, sqlVars, netVars, game, ledger, history, bounds>>

-----------------------------------------------------------------------------
(* Helpers *)

(* trade_state_: 0 the query is running, 1 it is done, 2 success, 3 failed; *)
(* old: tc_ shows more than two seconds; cur: what the high half of the     *)
(* message's dir_ stands for now.                                           *)
Order == [state : 0 .. 3, value : Nat, cur : Currencies, old : BOOLEAN,
          conn : Nat]

ASSUME NoOrderAssumption == NoOrder \notin Order

Stmt == [dir : {0, 1, 2}, cur : Currencies, cnt : Nat, conn : Nat]
Result == [sn : Sns, ok : BOOLEAN, val : Nat, conn : Nat]
Phase == {"prepare", "commit"}
Message == [sn : Sns, phase : Phase]
Reply == [sn : Sns, phase : Phase, ok : BOOLEAN, cnt : Nat]

Live(sn) == orders[sn] # NoOrder
PayIn(sn) == Dir[sn] = 2

(* What an order has charged and not settled. *)
Held(sn) == IF Live(sn) /\ ~PayIn(sn) THEN orders[sn].value ELSE 0

(* A charge whose callback has not run yet. *)
Waiting(sn) == {i \in DOMAIN results : results[i].sn = sn}
InResults(sn) ==
  IF PayIn(sn) \/ Waiting(sn) = {} THEN 0
  ELSE results[CHOOSE i \in Waiting(sn) : TRUE].val

Without(s, i) ==
  [j \in 1 .. Len(s) - 1 |-> IF j < i THEN s[j] ELSE s[j + 1]]

Answer(sn, phase, ok, cnt) ==
  outbox' = Append(outbox, [sn |-> sn, phase |-> phase, ok |-> ok, cnt |-> cnt])

Fault == faults < MaxFaults /\ faults' = faults + 1

Init ==
  /\ orders = [sn \in Sns |-> NoOrder]
  /\ stmts = [sn \in Sns |-> <<>>]
  /\ results = <<>>
  /\ turn = "poll" /\ todo = 0
  /\ bal = InitBal
  /\ inbox = <<>> /\ outbox = <<>> /\ conn = 0
  /\ game = [sn \in Sns |-> [st |-> "idle", cnt |-> 0]]
  /\ charged = [sn \in Sns |-> 0] /\ kept = [sn \in Sns |-> 0]
  /\ refunded = [sn \in Sns |-> 0] /\ lost = [sn \in Sns |-> 0]
  /\ added = [sn \in Sns |-> 0]
  /\ early = {} /\ overtaken = {} /\ renewed = {} /\ taken = [sn \in Sns |-> 0]
  /\ repeats = 0 /\ faults = 0

-----------------------------------------------------------------------------
(* The game server.  For a payment in, it has taken the money from the     *)
(* player before it starts the trade, and gives it back when it fails.     *)

GameStart(sn) ==
  /\ game[sn].st = "idle"
  /\ game' = [game EXCEPT ![sn].st = "prepare"]
  /\ inbox' = Append(inbox, [sn |-> sn, phase |-> "prepare"])
  /\ UNCHANGED <<coordVars, sqlVars, outbox, conn, ledger, history, bounds>>

(* An unanswered message is sent again, as long as it takes: a trade of    *)
(* platform_koko.h counts its requests (retry_), and the coordinator has   *)
(* answers for a number it knows.  The commit of a payment in never is     *)
(* answered with a success.                                                *)
GameRepeat(sn) ==
  /\ game[sn].st \in Repeated
  /\ repeats < MaxRepeats /\ repeats' = repeats + 1
  /\ inbox' = Append(inbox, [sn |-> sn, phase |-> game[sn].st])
  /\ UNCHANGED <<coordVars, sqlVars, outbox, conn, game, ledger, history,
                 faults>>

(* An answer to the phase the trade is in; any other is ignored. *)
GameAnswered ==
  LET r == Head(outbox)
      now == game[r.sn]
  IN  /\ outbox # <<>>
      /\ outbox' = Tail(outbox)
      /\ game' = [game EXCEPT ![r.sn] =
           IF r.phase # now.st THEN now
           ELSE IF ~r.ok THEN [now EXCEPT !.st = "failed"]
           ELSE IF now.st = "prepare" THEN [st |-> "commit", cnt |-> r.cnt]
           ELSE [now EXCEPT !.st = "done"]]
      /\ inbox' = IF r.phase = now.st /\ r.ok /\ now.st = "prepare"
                  THEN Append(inbox, [sn |-> r.sn, phase |-> "commit"])
                  ELSE inbox
      /\ UNCHANGED <<coordVars, sqlVars, conn, ledger, history, bounds>>

(* The connection breaks and is made anew: what was on it is lost, and an  *)
(* answer through the old socket fails.                                    *)
Break ==
  /\ Fault
  /\ conn' = conn + 1
  /\ inbox' = <<>> /\ outbox' = <<>> /\ todo' = 0
  /\ UNCHANGED <<orders, turn, sqlVars, game, ledger, history, repeats>>

-----------------------------------------------------------------------------
(* The database thread: the queued calls in any order *)

Executed(sn, i, ok, val) ==
  LET s == stmts[sn][i]
  IN  /\ stmts' = [stmts EXCEPT ![sn] = Without(stmts[sn], i)]
      /\ results' = Append(results, [sn |-> sn, ok |-> ok, val |-> val,
                                     conn |-> s.conn])

(* update_user_item takes the amount, or everything there is. *)
ExecCharge(sn, i) ==
  LET s == stmts[sn][i]
      amt == IF s.dir = 1 THEN bal[s.cur] ELSE s.cnt
  IN  /\ s.dir \in {0, 1} /\ amt <= bal[s.cur]
      /\ Executed(sn, i, TRUE, amt)
      /\ bal' = [bal EXCEPT ![s.cur] = bal[s.cur] - amt]
      /\ charged' = [charged EXCEPT ![sn] = charged[sn] + amt]
      /\ UNCHANGED <<coordVars, netVars, game, kept, refunded, lost, added,
                     history, bounds>>

(* Less than the amount is there. *)
ExecShort(sn, i) ==
  LET s == stmts[sn][i]
  IN  /\ s.dir = 0 /\ s.cnt > bal[s.cur]
      /\ Executed(sn, i, FALSE, 0)
      /\ UNCHANGED <<coordVars, bal, netVars, game, ledger, history, bounds>>

ExecAdd(sn, i) ==
  LET s == stmts[sn][i]
  IN  /\ s.dir = 2
      /\ Executed(sn, i, TRUE, s.cnt)
      /\ bal' = [bal EXCEPT ![s.cur] = bal[s.cur] + s.cnt]
      /\ added' = [added EXCEPT ![sn] = added[sn] + s.cnt]
      /\ UNCHANGED <<coordVars, netVars, game, charged, kept, refunded, lost,
                     history, bounds>>

(* Variant: the callback's code and amount are swapped. *)
ExecErrorSwapped(sn, i) ==
  /\ Fault
  /\ Executed(sn, i, FALSE, -1)
  /\ UNCHANGED <<coordVars, bal, netVars, game, ledger, history, repeats>>

ExecError(sn, i) ==
  /\ Fault
  /\ Executed(sn, i, FALSE, 0)
  /\ UNCHANGED <<coordVars, bal, netVars, game, ledger, history, repeats>>

Execute(sn) ==
  \E i \in DOMAIN stmts[sn] : ExecCharge(sn, i) \/ ExecShort(sn, i) \/ ExecAdd(sn, i)

(* The connection to the database is gone: the queue is dropped and no     *)
(* callback runs.                                                          *)
DbGone ==
  /\ Fault
  /\ \E sn \in Sns : stmts[sn] # <<>>
  /\ stmts' = [sn \in Sns |-> <<>>]
  /\ UNCHANGED <<coordVars, results, bal, netVars, game, ledger, history,
                 repeats>>

-----------------------------------------------------------------------------
(* The main loop: poll *)

Polls == turn = "poll" /\ results # <<>>

(* Variant: the order notes the message's amount in both directions. *)
OrderChargedCnt(o, sn, r) ==
  [o EXCEPT !.state = IF r.conn = conn THEN 1 ELSE 3,
            !.value = IF PayIn(sn) THEN o.value ELSE Cnt[sn],
            !.old = FALSE]

(* What do_trade's callback notes in the order after a success.  If the    *)
(* answer cannot be sent the order failed.                                 *)
OrderCharged(o, sn, r) ==
  [o EXCEPT !.state = IF r.conn = conn THEN 1 ELSE 3,
            !.value = CASE Dir[sn] = 0 -> Cnt[sn]
                        [] Dir[sn] = 1 -> r.val
                        [] OTHER       -> o.value,
            !.old = FALSE]

CallbackOk ==
  LET r == Head(results)
  IN  /\ Polls /\ r.ok /\ Live(r.sn)
      /\ results' = Tail(results)
      /\ orders' = [orders EXCEPT ![r.sn] = OrderCharged(orders[r.sn], r.sn, r)]
      /\ IF r.conn = conn THEN Answer(r.sn, "prepare", TRUE, r.val)
                          ELSE UNCHANGED outbox
      /\ UNCHANGED <<turn, todo, stmts, bal, inbox, conn, game, ledger,
                     history, bounds>>

CallbackFailed ==
  LET r == Head(results)
  IN  /\ Polls /\ ~r.ok /\ Live(r.sn)
      /\ results' = Tail(results)
      /\ orders' = [orders EXCEPT ![r.sn] = NoOrder]
      /\ IF r.conn = conn THEN Answer(r.sn, "prepare", FALSE, 0)
                          ELSE UNCHANGED outbox
      /\ UNCHANGED <<turn, todo, stmts, bal, inbox, conn, game, ledger,
                     history, bounds>>

(* The order is gone: the callback returns, nobody is answered. *)
CallbackOrphan ==
  /\ Polls /\ ~Live(Head(results).sn)
  /\ results' = Tail(results)
  /\ UNCHANGED <<coordVars, stmts, bal, netVars, game, ledger, history, bounds>>

Callback == CallbackOk \/ CallbackFailed \/ CallbackOrphan

EndPoll ==
  /\ turn = "poll" /\ results = <<>>
  /\ turn' = "msgs" /\ todo' = Len(inbox)
  /\ UNCHANGED <<orders, sqlVars, netVars, game, ledger, history, bounds>>

-----------------------------------------------------------------------------
(* The main loop: msg_koko_trade_inout::handle_this *)

Handles(phase) ==
  /\ turn = "msgs" /\ todo > 0 /\ inbox # <<>>
  /\ Head(inbox).phase = phase
  /\ inbox' = Tail(inbox) /\ todo' = todo - 1

NewOrder(sn, state, value, cur) ==
  [state |-> state, value |-> value, cur |-> cur, old |-> FALSE, conn |-> conn]

Push(sn, cur, sock) ==
  stmts' = [stmts EXCEPT ![sn] =
    Append(stmts[sn], [dir |-> Dir[sn], cur |-> cur, cnt |-> Cnt[sn],
                       conn |-> sock])]

(* A new charge.  do_trade cuts the currency out of dir_. *)
PrepareCharge ==
  LET sn == Head(inbox).sn
  IN  /\ Handles("prepare") /\ ~Live(sn) /\ ~PayIn(sn)
      /\ orders' = [orders EXCEPT ![sn] = NewOrder(sn, 0, 0, GoldGame)]
      /\ Push(sn, Cur[sn], conn)
      /\ renewed' = IF Dir[sn] = 1 /\ charged[sn] > 0 THEN renewed \cup {sn}
                    ELSE renewed
      /\ UNCHANGED <<turn, results, bal, outbox, conn, game, ledger, early,
                     overtaken, taken, bounds>>

(* Variant: the payment in is queued with the prepare. *)
PreparePayInNow ==
  LET sn == Head(inbox).sn
  IN  /\ Handles("prepare") /\ ~Live(sn) /\ PayIn(sn)
      /\ orders' = [orders EXCEPT ![sn] = NewOrder(sn, 1, Cnt[sn], Cur[sn])]
      /\ Answer(sn, "prepare", TRUE, Cnt[sn])
      /\ Push(sn, Cur[sn], conn)
      /\ UNCHANGED <<turn, results, bal, conn, game, ledger, history, bounds>>

(* A new payment in is only noted. *)
PreparePayIn ==
  LET sn == Head(inbox).sn
  IN  /\ Handles("prepare") /\ ~Live(sn) /\ PayIn(sn)
      /\ orders' = [orders EXCEPT ![sn] = NewOrder(sn, 1, Cnt[sn], Cur[sn])]
      /\ Answer(sn, "prepare", TRUE, Cnt[sn])
      /\ UNCHANGED <<turn, sqlVars, conn, game, ledger, history, bounds>>

(* A prepare for a known order is a success, whatever the order's state.   *)
PrepareKnown ==
  LET sn == Head(inbox).sn
  IN  /\ Handles("prepare") /\ Live(sn)
      /\ Answer(sn, "prepare", TRUE, 0)
      /\ UNCHANGED <<orders, turn, sqlVars, conn, game, ledger, history, bounds>>

TakenAgain(sn) ==
  taken' = [taken EXCEPT ![sn] = IF taken[sn] > 0 THEN taken[sn] + 1 ELSE 0]

(* Variant: an order that is gone is taken for a committed one. *)
CommitUnknownOk ==
  LET sn == Head(inbox).sn
  IN  /\ Handles("commit") /\ ~Live(sn)
      /\ Answer(sn, "commit", TRUE, 0)
      /\ TakenAgain(sn)
      /\ UNCHANGED <<orders, turn, sqlVars, conn, game, ledger, early, overtaken,
                     renewed, bounds>>

CommitUnknown ==
  LET sn == Head(inbox).sn
  IN  /\ Handles("commit") /\ ~Live(sn)
      /\ Answer(sn, "commit", FALSE, 0)
      /\ TakenAgain(sn)
      /\ UNCHANGED <<orders, turn, sqlVars, conn, game, ledger, early, overtaken,
                     renewed, bounds>>

(* Variant: only direction 0 is answered. *)
CommitChargeSilent ==
  LET sn == Head(inbox).sn
  IN  /\ Handles("commit") /\ Live(sn) /\ ~PayIn(sn)
      /\ orders' = [orders EXCEPT ![sn].state = 2]
      /\ early' = IF orders[sn].state = 0 THEN early \cup {sn} ELSE early
      /\ IF Dir[sn] = 0 THEN Answer(sn, "commit", TRUE, 0) ELSE UNCHANGED outbox
      /\ UNCHANGED <<turn, sqlVars, conn, game, ledger, overtaken, renewed,
                     taken, bounds>>

CommitCharge ==
  LET sn == Head(inbox).sn
  IN  /\ Handles("commit") /\ Live(sn) /\ ~PayIn(sn)
      /\ orders' = [orders EXCEPT ![sn].state = 2]
      /\ early' = IF orders[sn].state = 0 THEN early \cup {sn} ELSE early
      /\ Answer(sn, "commit", TRUE, 0)
      /\ UNCHANGED <<turn, sqlVars, conn, game, ledger, overtaken, renewed,
                     taken, bounds>>

(* The payment is queued, also when it was queued before in this round;    *)
(* its callback is to answer.                                              *)
CommitPayIn ==
  LET sn == Head(inbox).sn
  IN  /\ Handles("commit") /\ Live(sn) /\ PayIn(sn)
      /\ orders' = [orders EXCEPT ![sn].state = 2, ![sn].cur = GoldGame]
      /\ Push(sn, orders[sn].cur, orders[sn].conn)
      /\ taken' = [taken EXCEPT ![sn] = taken[sn] + 1]
      /\ UNCHANGED <<turn, results, bal, outbox, conn, game, ledger, early,
                     overtaken, renewed, bounds>>

HandlePrepare == PrepareCharge \/ PreparePayIn \/ PrepareKnown
HandleCommit == CommitUnknown \/ CommitCharge \/ CommitPayIn

EndMsgs ==
  /\ turn = "msgs" /\ todo = 0
  /\ turn' = "sweep"
  /\ UNCHANGED <<orders, todo, sqlVars, netVars, game, ledger, history, bounds>>

-----------------------------------------------------------------------------
(* The main loop: the sweep over glb_trades *)

(* Two seconds pass since the order was made or its charge executed. *)
Age(sn) ==
  /\ Live(sn) /\ ~orders[sn].old
  /\ orders' = [orders EXCEPT ![sn].old = TRUE]
  /\ UNCHANGED <<turn, todo, sqlVars, netVars, game, ledger, history, bounds>>

(* Variant: an order whose query is done waits for its commit for ever. *)
TimedOutLate(o) == o.old /\ o.state \notin {0, 1}

(* time_out() turns every state but 0 into a failure. *)
TimedOut(o) == o.old /\ o.state # 0
Failed(o) == o.state = 3 \/ TimedOut(o)

(* A committed order is dropped, its charge stays. *)
SweepDone(sn) ==
  /\ turn = "sweep" /\ Live(sn)
  /\ orders[sn].state = 2 /\ ~Failed(orders[sn])
  /\ orders' = [orders EXCEPT ![sn] = NoOrder]
  /\ kept' = [kept EXCEPT ![sn] = kept[sn] + Held(sn)]
  /\ UNCHANGED <<turn, todo, sqlVars, netVars, game, charged, refunded, lost,
                 added, history, bounds>>

(* do_rollback gives the value back in the currency dir_ still names, and  *)
(* nothing for a payment in.                                               *)
Drop(sn) ==
  /\ turn = "sweep" /\ Live(sn) /\ Failed(orders[sn])
  /\ orders' = [orders EXCEPT ![sn] = NoOrder]
  /\ overtaken' = IF orders[sn].state = 2 THEN overtaken \cup {sn} ELSE overtaken

SweepFailed(sn) ==
  /\ Drop(sn)
  /\ bal' = [bal EXCEPT ![orders[sn].cur] = bal[orders[sn].cur] + Held(sn)]
  /\ refunded' = [refunded EXCEPT ![sn] = refunded[sn] + Held(sn)]
  /\ UNCHANGED <<turn, todo, stmts, results, netVars, game, charged, kept,
                 lost, added, early, renewed, taken, bounds>>

(* The refund fails: that is logged, and the order is dropped anyway. *)
SweepLost(sn) ==
  /\ Drop(sn) /\ ~PayIn(sn) /\ Fault
  /\ lost' = [lost EXCEPT ![sn] = lost[sn] + Held(sn)]
  /\ UNCHANGED <<turn, todo, sqlVars, netVars, game, charged, kept, refunded,
                 added, early, renewed, taken, repeats>>

Sweep(sn) == SweepDone(sn) \/ SweepFailed(sn)

(* Every order was visited. *)
EndSweep ==
  /\ turn = "sweep"
  /\ \A sn \in Sns : Live(sn) => orders[sn].state # 2 /\ ~Failed(orders[sn])
  /\ turn' = "poll"
  /\ UNCHANGED <<orders, todo, sqlVars, netVars, game, ledger, history, bounds>>

(* The coordinator dies or is stopped: clean() does not poll, glb_trades   *)
(* and every charge not committed are forgotten.                           *)
Crash ==
  /\ Fault
  /\ orders' = [sn \in Sns |-> NoOrder]
  /\ stmts' = [sn \in Sns |-> <<>>]
  /\ results' = <<>>
  /\ turn' = "poll" /\ todo' = 0
  /\ conn' = conn + 1 /\ inbox' = <<>> /\ outbox' = <<>>
  /\ kept' = [sn \in Sns |-> IF Live(sn) /\ orders[sn].state = 2
                             THEN kept[sn] + Held(sn) ELSE kept[sn]]
  /\ lost' = [sn \in Sns |-> lost[sn] + InResults(sn) +
                             IF Live(sn) /\ orders[sn].state = 2
                             THEN 0 ELSE Held(sn)]
  /\ UNCHANGED <<bal, game, charged, refunded, added, history, repeats>>

-----------------------------------------------------------------------------
Loop == EndPoll \/ EndMsgs \/ EndSweep

Next ==
  \/ \E sn \in Sns : \/ GameStart(sn) \/ GameRepeat(sn)
                     \/ Execute(sn)
                     \/ \E i \in DOMAIN stmts[sn] : ExecError(sn, i)
                     \/ Age(sn) \/ Sweep(sn) \/ SweepLost(sn)
  \/ GameAnswered \/ Break \/ DbGone \/ Crash
  \/ Callback \/ HandlePrepare \/ HandleCommit \/ Loop

Spec == Init /\ [][Next]_vars

(* The loop never blocks, the database thread works through its queue,     *)
(* time passes, and the game server reads its answers.                     *)
Fairness ==
  /\ WF_vars(Callback) /\ WF_vars(HandlePrepare) /\ WF_vars(HandleCommit)
  /\ WF_vars(Loop)
  /\ WF_vars(GameAnswered)
  /\ \A sn \in Sns : WF_vars(Execute(sn)) /\ WF_vars(Age(sn)) /\ WF_vars(Sweep(sn))

FairSpec == Spec /\ Fairness

-----------------------------------------------------------------------------
(* Properties *)

TypeOK ==
  /\ orders \in [Sns -> Order \cup {NoOrder}]
  /\ stmts \in [Sns -> Seq(Stmt)]
  /\ results \in Seq(Result)
  /\ turn \in {"poll", "msgs", "sweep"}
  /\ todo \in Nat
  /\ bal \in [Currencies -> Nat]
  /\ inbox \in Seq(Message)
  /\ outbox \in Seq(Reply)
  /\ conn \in Nat
  /\ game \in [Sns -> [st : {"idle", "prepare", "commit", "done", "failed"},
                       cnt : Nat]]
  /\ charged \in [Sns -> Nat] /\ kept \in [Sns -> Nat]
  /\ refunded \in [Sns -> Nat] /\ lost \in [Sns -> Nat]
  /\ added \in [Sns -> Nat]
  /\ early \subseteq Sns /\ overtaken \subseteq Sns /\ renewed \subseteq Sns
  /\ taken \in [Sns -> Nat]
  /\ repeats \in Nat /\ faults \in Nat

(* Every amount taken from the platform account is kept by a committed     *)
(* order, given back, still held by its order, or on its way to it; the    *)
(* only other end is a refund that failed or a crash.  It is about the     *)
(* value_ that do_trade's callback, the sweep and do_rollback hand on.     *)
(* Exception: a number that was committed while its query was running.     *)
Accounted ==
  \A sn \in Sns \ early :
    ~PayIn(sn) =>
      charged[sn] = kept[sn] + refunded[sn] + lost[sn] + Held(sn) + InResults(sn)

(* Why Accounted is inductive: no number is ever charged twice at a time.   *)
(* While its call or the result of its call is on the way, the order is in *)
(* state 0, where the sweep leaves it alone, and holds nothing yet.        *)
OneCharge(sn) ==
  /\ Len(stmts[sn]) <= 1
  /\ \A i, j \in Waiting(sn) : i = j
  /\ stmts[sn] # <<>> => Waiting(sn) = {}
  /\ stmts[sn] # <<>> \/ Waiting(sn) # {} => Live(sn) /\ orders[sn].state = 0
  /\ Live(sn) /\ orders[sn].state = 0 => orders[sn].value = 0

(* A call and its result are about their order's message. *)
CallsTrue ==
  /\ \A sn \in Sns : \A i \in DOMAIN stmts[sn] :
       stmts[sn][i].dir = Dir[sn] /\ stmts[sn][i].cnt = Cnt[sn]
  /\ \A i \in DOMAIN results :
       /\ ~results[i].ok => results[i].val = 0
       /\ results[i].ok /\ Dir[results[i].sn] = 0 =>
            results[i].val = Cnt[results[i].sn]

IInv ==
  /\ TypeOK /\ Accounted /\ CallsTrue
  /\ \A sn \in Sns \ early : ~PayIn(sn) => OneCharge(sn)

(* What the game server pays out is covered by money the platform keeps,   *)
(* unless the commit came before the charge or was overtaken by the sweep, *)
(* or the amount is one that a second "charge everything" replaced.        *)
CreditBacked ==
  \A sn \in Sns \ (early \cup overtaken \cup renewed) :
    ~PayIn(sn) /\ game[sn].st = "done" =>
      (IF Dir[sn] = 0 THEN Cnt[sn] ELSE game[sn].cnt) <= kept[sn] + Held(sn)

(* The money of a payment in is paid in, or given back by the game server  *)
(* for which the payment failed ("if the request to the platform failed,   *)
(* give the money back"), and that once: through a prepare that is         *)
(* repeated after the time-out, a commit that was lost and is repeated, a  *)
(* broken connection and a crash.                                          *)
(* Exception: a commit comes after the one that queued the payment.  The   *)
(* coordinator drops the order in the same round and answers nothing, so   *)
(* this takes no more than the game server to repeat its commit.  Then it  *)
(* is refused, the money is given back and paid in, or, in the same round, *)
(* the payment is queued a second time.                                    *)
Queued(sn) == Len(stmts[sn]) * Cnt[sn]
GivenBack(sn) == IF game[sn].st = "failed" THEN Cnt[sn] ELSE 0

PaidOrGivenBack ==
  \A sn \in Sns :
    PayIn(sn) /\ taken[sn] <= 1 =>
      added[sn] + Queued(sn) + GivenBack(sn) <= Cnt[sn]

(* The refund goes to the currency that was charged ("the exchange failed, *)
(* take it back").                                                         *)
RefundSameCurrency ==
  [][\A sn \in Sns :
       refunded'[sn] > refunded[sn] => bal'[Cur[sn]] > bal[Cur[sn]]]_vars

(* An order leaves glb_trades sooner or later, committed, failed or timed  *)
(* out; only one whose call was dropped with the database connection stays *)
(* in state 0, which nothing times out.                                    *)
Stuck(sn) ==
  /\ Live(sn) /\ orders[sn].state = 0
  /\ stmts[sn] = <<>> /\ Waiting(sn) = {}

OrderSettles == \A sn \in Sns : Live(sn) ~> ~Live(sn) \/ Stuck(sn)

(* Without a fault a charge is answered to its end, and a payment in is at *)
(* least prepared.                                                         *)
Answered ==
  \A sn \in Sns :
    game[sn].st = "prepare" \/ (~PayIn(sn) /\ game[sn].st = "commit")
      ~> \/ faults > 0
         \/ game[sn].st \in (IF PayIn(sn) THEN {"commit", "failed"}
                                           ELSE {"done", "failed"})
=============================================================================
