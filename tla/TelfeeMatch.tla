---------------------------- MODULE TelfeeMatch ----------------------------
(***************************************************************************)
(* The phone-fee matches of a game server (telfee_match.cpp and its        *)
(* messages in msg_client_common.cpp): players register and pay, are asked *)
(* to join, sit down, and are ranked when the match ends.                  *)
(*                                                                         *)
(* A match goes round its states by timers, and is pushed on by messages   *)
(* of the coordinator ("koko").  A new timer replaces the pointer to the   *)
(* old one, which stays armed: its handler holds it (schedule_task.h).     *)
(***************************************************************************)
EXTENDS Integers, FiniteSets

CONSTANTS
  Matches,     \* 1 .. n: the ids, in the order of the_matches_
  AutoMatches, \* matches that go round by themselves: auto_change_state_
  Players,
  MaxMsgs      \* bound: messages of players and of the coordinator

ASSUME TelfeeAssumption ==
  /\ Matches \subseteq Nat \ {0} /\ IsFiniteSet(Matches)
  /\ AutoMatches \subseteq Matches
  /\ MaxMsgs \in Nat

Timers == {"start", "begin", "end", "register"}
States == {"none", "init", "register", "start", "balance", "end"}

(* An entry of registers_: absent; 0, asked, agreed, refused. *)
Entries == {"absent", "fresh", "asked", "agreed", "refused"}

VARIABLES
  state,   \* state_ of each match; "none": not in the_matches_
  armed,   \* [Matches -> [Timers -> Nat]]: timers that will fire
  regs,    \* registers_
  seats,   \* the players in init_scores_: the coordinator sent them here
  scores,  \* the players in vscores_
  at,      \* the_game_ of each player: the match he plays in, or 0
  online,  \* players_
  booked, refunded, \* history: registrations of a player, fees given back
  entered, ranked,  \* history: times he sat down, got a result
  msgs      \* counter for the bound

matchVars == <<state, armed, seats, scores>>
feeVars == <<booked, refunded>>
playVars == <<entered, ranked>>
telfeeVars == <<matchVars, regs, at, online, feeVars, playVars, msgs>>

Zero == [p \in Players |-> 0]
AllOff == [t \in Timers |-> 0]

TelfeeInit ==
  /\ state = [m \in Matches |-> IF m \in AutoMatches THEN "register" ELSE "none"]
  /\ armed = [m \in Matches |-> IF m \in AutoMatches THEN [AllOff EXCEPT !["start"] = 1]
                                ELSE AllOff]
  /\ regs = [m \in Matches |-> [p \in Players |-> "absent"]]
  /\ seats = [m \in Matches |-> {}]
  /\ scores = [m \in Matches |-> {}]
  /\ at = [p \in Players |-> 0]
  /\ online = Players
  /\ booked = Zero /\ refunded = Zero
  /\ entered = Zero /\ ranked = Zero
  /\ msgs = 0

Message == msgs < MaxMsgs /\ msgs' = msgs + 1

-----------------------------------------------------------------------------
(* The states of a match.  `a' are its timers once the one that fired is   *)
(* off.                                                                    *)

Arm(a, t) == [a EXCEPT ![t] = @ + 1]
Armed(m, a) == armed' = [armed EXCEPT ![m] = a]
Enter(m, st) == state' = [state EXCEPT ![m] = st]

(* enter_wait_register_state: a match of its own schedules its start. *)
EnterRegister(m, a) ==
  /\ Armed(m, IF m \in AutoMatches THEN Arm(a, "start") ELSE a)
  /\ seats' = [seats EXCEPT ![m] = {}]
  /\ Enter(m, "register")
  /\ UNCHANGED <<scores, at, ranked>>

(* enter_wait_start_state: nothing to do when it is there already. *)
EnterStart(m, a) ==
  IF state[m] = "start" THEN /\ Armed(m, a)
                             /\ UNCHANGED state
  ELSE /\ Armed(m, Arm(a, "begin"))
       /\ Enter(m, "start")

(* Variant: the end of the match is not scheduled. *)
EnterBalanceNoTimer(m, a) ==
  /\ Armed(m, a)
  /\ Enter(m, "balance")
  /\ UNCHANGED <<seats, scores, at, ranked>>

(* enter_wait_balance_state: play begins, from whatever state. *)
EnterBalance(m, a) ==
  /\ Armed(m, Arm(a, "end"))
  /\ Enter(m, "balance")
  /\ UNCHANGED <<seats, scores, at, ranked>>

(* Variant: the scores are not cleared. *)
DoBalanceKeeps(m) ==
  /\ at' = [p \in Players |-> IF at[p] = m THEN 0 ELSE at[p]]
  /\ ranked' = [p \in Players |-> IF p \in scores[m] \cap online THEN ranked[p] + 1
                                  ELSE ranked[p]]
  /\ UNCHANGED scores

(* do_balance: the games stop, who is online gets his result and prize. *)
DoBalance(m) ==
  /\ at' = [p \in Players |-> IF at[p] = m THEN 0 ELSE at[p]]
  /\ ranked' = [p \in Players |-> IF p \in scores[m] \cap online THEN ranked[p] + 1
                                  ELSE ranked[p]]
  /\ scores' = [scores EXCEPT ![m] = {}]

(* enter_wait_end_state: not a second time. *)
EnterEnd(m, a) ==
  IF state[m] = "end" THEN /\ Armed(m, a)
                           /\ UNCHANGED <<state, scores, at, ranked>>
  ELSE /\ DoBalance(m)
       /\ Armed(m, Arm(a, "register"))
       /\ Enter(m, "end")

-----------------------------------------------------------------------------
(* Timers: one that was armed fires, whatever the match is doing now. *)

Off(m, t) == [armed[m] EXCEPT ![t] = @ - 1]

Fires(m, t) == armed[m][t] > 0

FireRegister(m) ==
  /\ Fires(m, "register")
  /\ EnterRegister(m, Off(m, "register"))
  /\ UNCHANGED <<regs, online, feeVars, entered, msgs>>

FireStart(m) ==
  /\ Fires(m, "start")
  /\ EnterStart(m, Off(m, "start"))
  /\ UNCHANGED <<regs, seats, scores, at, online, feeVars, playVars, msgs>>

FireBegin(m) ==
  /\ Fires(m, "begin")
  /\ EnterBalance(m, Off(m, "begin"))
  /\ UNCHANGED <<regs, online, feeVars, entered, msgs>>

FireEnd(m) ==
  /\ Fires(m, "end")
  /\ EnterEnd(m, Off(m, "end"))
  /\ UNCHANGED <<regs, seats, online, feeVars, entered, msgs>>

-----------------------------------------------------------------------------
(* The main loop *)

(* Entries distribute_player_to_match erases. *)
Erased(e) == e \in {"agreed", "refused"}

(* distribute_player_to_match looks at the registered players who are      *)
(* online and have a seat: a fresh one is asked, one who agreed leaves the *)
(* game he is in and sits down.                                            *)
Reached(m) ==
  {p \in Players : regs[m][p] # "absent" /\ p \in online /\ p \in seats[m]}

Sitting(m) == {p \in Reached(m) : regs[m][p] = "agreed"}

Asks(m, p) ==
  IF p \notin Reached(m) THEN regs[m][p]
  ELSE IF Erased(regs[m][p]) THEN "absent"
  ELSE IF regs[m][p] = "fresh" THEN "asked" ELSE regs[m][p]

(* update: once a second it also drops the scores of the players who are   *)
(* no longer in a game of this match.                                      *)
Update(m) ==
  /\ state[m] \in {"start", "balance"}
  /\ regs' = [regs EXCEPT ![m] = [p \in Players |-> Asks(m, p)]]
  /\ at' = [p \in Players |-> IF p \in Sitting(m) THEN m ELSE at[p]]
  /\ entered' = [p \in Players |-> IF p \in Sitting(m) THEN entered[p] + 1
                                   ELSE entered[p]]
  /\ \E refresh \in BOOLEAN :
       scores' = [scores EXCEPT ![m] =
                    {p \in @ \cup Sitting(m) :
                       refresh => p \notin online \/ at'[p] = m}]
  /\ <<regs, scores>>' # <<regs, scores>>
  /\ UNCHANGED <<state, armed, seats, online, feeVars, ranked, msgs>>

-----------------------------------------------------------------------------
(* Messages of the players *)

Known(m) == state[m] # "none"

SetEntry(m, p, e) == regs' = [regs EXCEPT ![m][p] = e]

(* msg_register_match_req: charged, then registered. *)
Register(p, m) ==
  /\ Message /\ p \in online /\ Known(m) /\ regs[m][p] = "absent"
  /\ SetEntry(m, p, "fresh")
  /\ booked' = [booked EXCEPT ![p] = @ + 1]
  /\ UNCHANGED <<matchVars, at, online, refunded, playVars>>

(* Variant: the fees are given back, the registrations stay. *)
CancelledKept(p) == regs

(* What a cancellation leaves of the registrations. *)
Cancelled(p) == [m \in Matches |-> [regs[m] EXCEPT ![p] = "absent"]]

(* The same message, to cancel: all registrations of the player. *)
Cancel(p) ==
  LET mine == {m \in Matches : regs[m][p] # "absent"}
  IN  /\ Message /\ p \in online /\ mine # {}
      /\ regs' = Cancelled(p)
      /\ refunded' = [refunded EXCEPT ![p] = @ + Cardinality(mine)]
      /\ UNCHANGED <<matchVars, at, online, booked, playVars>>

(* msg_enter_match_game_req: registers without a fee, or anew. *)
EnterGame(p, m) ==
  /\ Message /\ p \in online /\ Known(m)
  /\ SetEntry(m, p, "fresh")
  /\ booked' = [booked EXCEPT ![p] = @ + 1]
  /\ UNCHANGED <<matchVars, at, online, refunded, playVars>>

(* msg_agree_to_join_match: it does not say which match; the first one the *)
(* player is registered for is taken, asked or not.                        *)
Agree(p, e) ==
  /\ Message /\ p \in online
  /\ \E m \in Matches :
       /\ regs[m][p] # "absent"
       /\ \A n \in Matches : n < m => regs[n][p] = "absent"
       /\ SetEntry(m, p, e)
  /\ UNCHANGED <<matchVars, at, online, feeVars, playVars>>

(* A player leaves his game, or is out of it. *)
LeaveGame(p) ==
  /\ Message /\ at[p] # 0
  /\ at' = [at EXCEPT ![p] = 0]
  /\ UNCHANGED <<matchVars, regs, online, feeVars, playVars>>

(* Logging off and on again: a new player object, in no game. *)
LogOff(p) ==
  /\ Message /\ p \in online
  /\ online' = online \ {p}
  /\ at' = [at EXCEPT ![p] = 0]
  /\ UNCHANGED <<matchVars, regs, feeVars, playVars>>

LogOn(p) ==
  /\ p \notin online
  /\ online' = online \cup {p}
  /\ UNCHANGED <<matchVars, regs, at, feeVars, playVars, msgs>>

-----------------------------------------------------------------------------
(* Messages of the coordinator *)

(* msg_player_distribute creates a match the server does not know, and     *)
(* starts the match, whatever it is doing.                                 *)
Distribute(p, m) ==
  /\ Message
  /\ EnterStart(m, armed[m])
  /\ seats' = [seats EXCEPT ![m] = @ \cup {p}]
  /\ UNCHANGED <<regs, scores, at, online, feeVars, playVars>>

(* msg_match_end *)
MatchEnd(m) ==
  /\ Message /\ Known(m)
  /\ EnterEnd(m, armed[m])
  /\ UNCHANGED <<regs, seats, online, feeVars, entered>>

-----------------------------------------------------------------------------
Fire(m) == FireRegister(m) \/ FireStart(m) \/ FireBegin(m) \/ FireEnd(m)

TelfeeNext ==
  \/ \E m \in Matches : Fire(m) \/ Update(m) \/ MatchEnd(m)
  \/ \E p \in Players : \/ Cancel(p) \/ LeaveGame(p) \/ LogOff(p) \/ LogOn(p)
                        \/ \E e \in {"agreed", "refused"} : Agree(p, e)
                        \/ \E m \in Matches : \/ Register(p, m) \/ EnterGame(p, m)
                                              \/ Distribute(p, m)

TelfeeSpec == TelfeeInit /\ [][TelfeeNext]_telfeeVars

(* Timers fire; the main loop polls them and updates every match. *)
TelfeeFairness ==
  \A m \in Matches : /\ WF_telfeeVars(FireRegister(m)) /\ WF_telfeeVars(FireStart(m))
                     /\ WF_telfeeVars(FireBegin(m)) /\ WF_telfeeVars(FireEnd(m))

TelfeeFairSpec == TelfeeSpec /\ TelfeeFairness

-----------------------------------------------------------------------------
(* Properties *)

TelfeeTypeOK ==
  /\ state \in [Matches -> States]
  /\ armed \in [Matches -> [Timers -> Nat]]
  /\ regs \in [Matches -> [Players -> Entries]]
  /\ seats \in [Matches -> SUBSET Players]
  /\ scores \in [Matches -> SUBSET Players]
  /\ at \in [Players -> Matches \cup {0}]
  /\ online \subseteq Players
  /\ booked \in [Players -> Nat] /\ refunded \in [Players -> Nat]
  /\ entered \in [Players -> Nat] /\ ranked \in [Players -> Nat]
  /\ msgs \in 0 .. MaxMsgs

Registered(p) == {m \in Matches : regs[m][p] # "absent"}
Scored(p) == {m \in Matches : p \in scores[m]}

(* A player gets at most one result, and prize, each time he sat down,     *)
(* however timers and messages end his matches: do_balance leaves no score *)
(* behind, and a player who sits down twice has one score.                 *)
PrizedPerEntry ==
  \A p \in Players : ranked[p] + Cardinality(Scored(p)) <= entered[p]

(* A registration is used once: it is given back, or the player sits down, *)
(* or he refuses.  Never are more fees given back, and more players seated *)
(* on them, than there were registrations (msg_register_match_req,         *)
(* distribute_player_to_match).                                            *)
RegistrationUsedOnce ==
  \A p \in Players :
    refunded[p] + entered[p] + Cardinality(Registered(p)) <= booked[p]

(* With the types of the variables. *)
FeeInv == TelfeeTypeOK /\ RegistrationUsedOnce

(* A match that was started comes to its balance, in spite of old timers   *)
(* that put it into other states meanwhile: each state it gets into has a  *)
(* timer of its own.                                                       *)
MatchEnds ==
  \A m \in Matches : state[m] \in {"start", "balance"} ~> state[m] = "end"
=============================================================================
