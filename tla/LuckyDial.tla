----------------------------- MODULE LuckyDial -----------------------------
(***************************************************************************)
(* The lucky dial (msg_play_lucky_dial of the coordinator's                *)
(* msg_client.cpp): a fee is charged, a number of prizes are drawn and     *)
(* handed out one after the other, and when a draw fails the prizes are to *)
(* be taken back and the fee returned.                                     *)
(*                                                                         *)
(* The handler runs in the main loop and executes its statements one by    *)
(* one; between two of them the tables belong to others: to the            *)
(* coordinator of another player who dials, and to the servers where the   *)
(* player spends what he has.  Here each user is at a coordinator of his   *)
(* own.                                                                    *)
(***************************************************************************)
EXTENDS Integers, Sequences, FiniteSets, Sums

CONSTANTS
  Users,
  Prizes, Top,     \* dial_conf: its prizes, and the biggest one
  MaxLucky,        \* max_lucky_value_ of Top
  Stock,           \* [Prizes -> Nat]: limit_sys_num_, 0 for no limit
  Times,           \* times_ of a request: 1 and 5 in the code
  Fee,             \* [Times -> Nat]: cost_num
  SerialAt,        \* the serial_times_ that deal a present
  Money,           \* bound: what each user has to pay with
  MaxFaults        \* bound: failed statements and stops

ASSUME DialAssumption ==
  /\ Top \in Prizes /\ Times \subseteq Nat \ {0} /\ MaxLucky \in Nat \ {0}
  /\ Stock \in [Prizes -> Nat] /\ Fee \in [Times -> Nat \ {0}]
  /\ IsFiniteSet(Users) /\ SerialAt \subseteq Nat /\ Money \in [Users -> Nat] /\ MaxFaults \in Nat

VARIABLES
  dial,     \* the request of each user, as far as it has come
  money,    \* what he has of the item that is the fee
  have,     \* [Users -> [Prizes -> Nat]]: what he has of the prizes
  log,      \* [Users -> [Prizes -> Nat]]: log_lucky_dial, of today
  row,      \* user_serial_lucky
  bag,      \* the users who were dealt the present of a series
  since,    \* history: draws of a user since Top was his for his lucky value
  astray,   \* history: users of whom a draw was not marked or a stop hit one
  over,     \* history: prizes handed out on a stock that was no longer true
  faults    \* counter for the bound

purse == <<money, have>>
tables == <<log, row, bag>>
history == <<since, astray, over>>
vars == <<dial, purse, tables, history, faults>>

-----------------------------------------------------------------------------
Phases == {"idle", "read", "draw", "stock", "grant", "log", "mark", "present",
           "undo", "refund", "done"}
NoPrize == "none"

(* `vid' are the prizes drawn; `value', `serial', `known' what was read of  *)
(* the row.  `kept', `paid', `failed' and `spent' tell what became of the   *)
(* request: prizes that are his, whether the fee was kept, statements that  *)
(* failed, and whether he had spent a prize that was to be taken back.      *)
Dial == [phase : Phases, times : Times \cup {0}, vid : Seq(Prizes), index : Int,
         prize : Prizes \cup {NoPrize}, value : Nat, serial : Nat, known : BOOLEAN,
         kept : Int, paid : BOOLEAN, failed : Nat, spent : BOOLEAN]

NoDial == [phase |-> "idle", times |-> 0, vid |-> <<>>, index |-> 0, prize |-> NoPrize,
           value |-> 0, serial |-> 0, known |-> FALSE,
           kept |-> 0, paid |-> FALSE, failed |-> 0, spent |-> FALSE]

NoRow == [value |-> -1, serial |-> 0]
Row == [value : Nat, serial : Nat]

Nothing == [p \in Prizes |-> 0]

Init ==
  /\ dial = [u \in Users |-> NoDial]
  /\ money = Money
  /\ have = [u \in Users |-> Nothing] /\ log = [u \in Users |-> Nothing]
  /\ row = [u \in Users |-> NoRow] /\ bag = {}
  /\ since = [u \in Users |-> 0] /\ astray = {} /\ over = {}
  /\ faults = 0

At(u, phase) == dial[u].phase = phase

(* The request of u goes on as d. *)
Goes(u, d) == dial' = [dial EXCEPT ![u] = d]

Fault == faults < MaxFaults /\ faults' = faults + 1
Failing(d) == [d EXCEPT !.failed = @ + 1]

Done(d) == [NoDial EXCEPT !.phase = "done", !.times = d.times, !.kept = d.kept,
                          !.paid = d.paid, !.failed = d.failed, !.spent = d.spent]

-----------------------------------------------------------------------------
(* The fee: a failed charge ends the request. *)
Play(u, n) ==
  /\ dial[u].phase \in {"idle", "done"}
  /\ money[u] >= Fee[n]
  /\ money' = [money EXCEPT ![u] = @ - Fee[n]]
  /\ Goes(u, [NoDial EXCEPT !.phase = "read", !.times = n, !.paid = TRUE])
  /\ UNCHANGED <<have, tables, history, faults>>

(* The row of the user; a failed SELECT is taken for no row. *)
Read(u) ==
  LET d == [dial[u] EXCEPT !.phase = "draw"]
      none == [d EXCEPT !.known = FALSE, !.value = 0, !.serial = 0]
  IN  /\ At(u, "read")
      /\ \/ /\ Goes(u, IF row[u] = NoRow THEN none
                       ELSE [d EXCEPT !.known = TRUE, !.value = row[u].value,
                                      !.serial = row[u].serial])
            /\ UNCHANGED faults
         \/ Goes(u, Failing(none)) /\ Fault
      /\ UNCHANGED <<purse, tables, history>>

(* The lucky value is full: the biggest prize, whatever is in stock. *)
DrawTop(u) ==
  /\ At(u, "draw") /\ dial[u].value >= MaxLucky
  /\ Goes(u, [dial[u] EXCEPT !.phase = "grant", !.prize = Top])
  /\ over' = over \cup {Top}
  /\ UNCHANGED <<purse, tables, since, astray, faults>>

(* At random.  A number that belongs to no prize, and a prize that the user *)
(* has had too often or too recently, lead to another draw.                *)
Draw(u, p) ==
  /\ At(u, "draw") /\ dial[u].value < MaxLucky
  /\ Goes(u, [dial[u] EXCEPT !.phase = IF Stock[p] = 0 THEN "grant" ELSE "stock",
                             !.prize = p])
  /\ UNCHANGED <<purse, tables, history, faults>>

(* The prizes of p handed out today, to all. *)
Sold(p) == SumOver([u \in Users |-> log[u][p]], Users)

(* Variant: one more is handed out than there are. *)
InStockOne(p) == Sold(p) <= Stock[p]

InStock(p) == Sold(p) < Stock[p]

(* Variant: nothing is taken back. *)
LastDrawnNone(d) == 0

(* index, after a draw that failed before its prize was known *)
LastDrawn(d) == Len(d.vid) - 1

(* A failed SELECT fails the draw, and with it the request. *)
Check(u) ==
  LET d == dial[u]
  IN  /\ At(u, "stock")
      /\ \/ /\ Goes(u, [d EXCEPT !.phase = IF InStock(d.prize) THEN "grant" ELSE "draw"])
            /\ UNCHANGED faults
         \/ /\ Goes(u, Failing([d EXCEPT !.phase = "undo", !.index = LastDrawn(d)]))
            /\ Fault
      /\ UNCHANGED <<purse, tables, history>>

(* update_user_item adds the prize; that it fails is only logged. *)
Grant(u) ==
  LET d == [dial[u] EXCEPT !.phase = "log"]
  IN  /\ At(u, "grant")
      /\ \/ /\ have' = [have EXCEPT ![u][d.prize] = @ + 1]
            /\ Goes(u, [d EXCEPT !.kept = @ + 1])
            /\ UNCHANGED faults
         \/ Goes(u, Failing(d)) /\ Fault /\ UNCHANGED have
      /\ UNCHANGED <<money, tables, history>>

(* Another request has looked at the stock of p and not logged its prize. *)
Looking(u, p) ==
  \E v \in Users \ {u} : dial[v].phase \in {"grant", "log"} /\ dial[v].prize = p

Log(u) ==
  LET d == [dial[u] EXCEPT !.phase = "mark"]
      p == d.prize
  IN  /\ At(u, "log")
      /\ \/ /\ log' = [log EXCEPT ![u][p] = @ + 1]
            /\ over' = IF Looking(u, p) THEN over \cup {p} ELSE over
            /\ Goes(u, d)
            /\ UNCHANGED faults
         \/ /\ Goes(u, Failing(d)) /\ Fault
            /\ over' = over \cup {p}
            /\ UNCHANGED log
      /\ UNCHANGED <<purse, row, bag, since, astray>>

(* Variant: the value stays full. *)
NextValueFull(v) == v + 1

NextValue(v) == IF v >= MaxLucky THEN 0 ELSE v + 1

(* The draw is done: the next one, or the answer. *)
Drawn(d) ==
  IF Len(d.vid) + 1 = d.times THEN Done(d)
  ELSE [d EXCEPT !.phase = "read", !.vid = Append(@, d.prize), !.prize = NoPrize]

(* UPDATE, or INSERT when no row was read: it fails where there is one. *)
Mark(u) ==
  LET d == dial[u]
      serial == d.serial + 1
      next == IF serial \in SerialAt THEN [d EXCEPT !.phase = "present"] ELSE Drawn(d)
      works == d.known \/ row[u] = NoRow
      draws == IF d.value >= MaxLucky THEN 0 ELSE since[u] + 1
  IN  /\ At(u, "mark")
      /\ since' = [since EXCEPT ![u] = draws]
      /\ \/ /\ works
            /\ row' = [row EXCEPT ![u] = [value |-> NextValue(d.value), serial |-> serial]]
            /\ Goes(u, next) /\ UNCHANGED <<astray, faults>>
         \/ /\ ~works
            /\ Goes(u, next) /\ astray' = astray \cup {u} /\ UNCHANGED <<row, faults>>
         \/ /\ works
            /\ Goes(u, Failing(next)) /\ astray' = astray \cup {u} /\ Fault
            /\ UNCHANGED row
      /\ UNCHANGED <<purse, log, bag, over>>

(* INSERT ... ON DUPLICATE KEY UPDATE state = 1 *)
Present(u) ==
  /\ At(u, "present")
  /\ \/ bag' = bag \cup {u} /\ Goes(u, Drawn(dial[u])) /\ UNCHANGED faults
     \/ UNCHANGED bag /\ Goes(u, Failing(Drawn(dial[u]))) /\ Fault
  /\ UNCHANGED <<purse, log, row, history>>

-----------------------------------------------------------------------------
(* A failed request: the prizes from the last down to the second, then the *)
(* fee.  A prize that cannot be taken back ends it.                        *)

(* Variant: the loop ends at the first prize exactly. *)
TakenBackAtFirst(d) == d.index = 0

TakenBack(d) == d.index <= 0

TakeBack(u) ==
  LET d == dial[u]
      p == d.vid[d.index + 1]
  IN  /\ At(u, "undo") /\ d.index > 0
      /\ \/ /\ have[u][p] > 0
            /\ have' = [have EXCEPT ![u][p] = @ - 1]
            /\ Goes(u, [d EXCEPT !.index = @ - 1, !.kept = @ - 1])
            /\ UNCHANGED faults
         \/ /\ have[u][p] = 0
            /\ Goes(u, [Done(d) EXCEPT !.spent = TRUE])
            /\ UNCHANGED <<have, faults>>
         \/ /\ Goes(u, Failing(Done(d))) /\ Fault
            /\ UNCHANGED have
      /\ UNCHANGED <<money, tables, history>>

Refund(u) ==
  LET d == Done(dial[u])
  IN  /\ At(u, "undo") /\ TakenBack(dial[u])
      /\ \/ /\ money' = [money EXCEPT ![u] = @ + Fee[d.times]]
            /\ Goes(u, [d EXCEPT !.paid = FALSE]) /\ UNCHANGED faults
         \/ Goes(u, Failing(d)) /\ Fault /\ UNCHANGED money
      /\ UNCHANGED <<have, tables, history>>

-----------------------------------------------------------------------------
(* The player, at other servers *)
Spend(u, p) ==
  /\ have[u][p] > 0
  /\ have' = [have EXCEPT ![u][p] = @ - 1]
  /\ UNCHANGED <<dial, money, tables, history, faults>>

(* The coordinator stops in the middle; nothing resumes a request. *)
Stop(u) ==
  /\ dial[u].phase \notin {"idle", "done"} /\ Fault
  /\ Goes(u, NoDial) /\ astray' = astray \cup {u}
  /\ over' = IF At(u, "log") THEN over \cup {dial[u].prize} ELSE over
  /\ UNCHANGED <<purse, tables, since>>

Statement(u) ==
  \/ Read(u) \/ DrawTop(u) \/ (\E p \in Prizes : Draw(u, p)) \/ Check(u)
  \/ Grant(u) \/ Log(u) \/ Mark(u) \/ Present(u) \/ TakeBack(u) \/ Refund(u)

Next ==
  \E u \in Users :
    \/ \E n \in Times : Play(u, n)
    \/ Statement(u)
    \/ \E p \in Prizes : Spend(u, p)
    \/ Stop(u)

Spec == Init /\ [][Next]_vars

(* The handler goes on, and a draw at random hits every prize some time. *)
FairSpec ==
  /\ Spec
  /\ \A u \in Users : /\ WF_vars(Statement(u))
                      /\ SF_vars(\E p \in Prizes : Stock[p] = 0 /\ Draw(u, p))

-----------------------------------------------------------------------------
(* Properties *)

TypeOK ==
  /\ dial \in [Users -> Dial]
  /\ money \in [Users -> Nat]
  /\ {have, log} \subseteq [Users -> [Prizes -> Nat]]
  /\ row \in [Users -> Row \cup {NoRow}]
  /\ since \in [Users -> Nat]
  /\ bag \cup astray \subseteq Users /\ over \subseteq Prizes
  /\ faults \in 0 .. MaxFaults

(* A request that is done has its fee kept and its prizes handed out, but  *)
(* for those whose grant failed, or its fee returned and no prize left but *)
(* the first; both are missing only when he had spent a prize, or a second *)
(* statement failed.                                                       *)
FeeOrPrizes ==
  \A u \in Users :
    LET d == dial[u]
    IN  At(u, "done") =>
          IF d.paid THEN d.spent \/ d.failed > 1 \/ d.kept + d.failed >= d.times
          ELSE d.kept <= 1

(* With the types of the variables. *)
DialInv == TypeOK /\ FeeOrPrizes

(* No more of a prize are handed out than are in stock, save when a full   *)
(* lucky value gave it, when two requests looked at the stock at once, or  *)
(* when a prize was not logged.                                            *)
StockKept ==
  \A p \in Prizes \ over : Stock[p] # 0 => Sold(p) <= Stock[p]

(* The biggest prize comes for a full lucky value only after as many draws *)
(* since it last came so; a draw that was not marked may spoil that.       *)
TopEarned ==
  [][\A u \in Users \ astray : DrawTop(u) => since[u] >= MaxLucky]_vars

(* Every request ends, while there is a prize without a limit. *)
DialEnds == \A u \in Users : []<>(dial[u].phase \in {"idle", "done"})
=============================================================================
