---------------------------- MODULE CacheClient ----------------------------
(***************************************************************************)
(* Game servers and the cache: the blocking calls of memcache_helper       *)
(* (mem_cache_helper.h) over mem_cache_client (MemCacheClient.h), composed *)
(* with AtomicStore, the promise that the cache server is shown to keep.   *)
(*                                                                         *)
(* The one main thread of a game server sends a command, then polls the    *)
(* socket for at most a second.  Its answer may come later, the connection *)
(* may close, the cache may stop.  What the thread does with the gold is a *)
(* job: a transfer between two players (msg_trade_gold_req), taking all    *)
(* the gold of a player out, or giving gold that comes from elsewhere.     *)
(***************************************************************************)
EXTENDS Integers, FiniteSets, Sums

CONSTANTS
  Servers,   \* game servers
  Accounts,  \* the gold cells of the players
  Gold,      \* [Accounts -> Nat]: their gold at the start
  Jobs,      \* what the servers may be asked to do
  TradeCap,  \* [Accounts -> Nat]: gold that may not be transferred
  Tax,       \* trade_tax_, in 1/10000 of the amount
  MaxJobs,   \* bound: jobs in a behaviour
  MaxTries,  \* bound: repetitions of an addition within the five seconds
  MaxFaults, \* bound: lost connections, crashes and stops
  None       \* no value

Kinds == {"transfer", "take", "give"}
Job == [kind : Kinds, from : Accounts, to : Accounts, amt : Nat]

(* Every command of a server has a sequence number: sn_gen_. *)
Seqs == 1 .. MaxJobs * (3 + MaxTries)
Commands == Servers \X Seqs

ASSUME CacheClientAssumption ==
  /\ IsFiniteSet(Servers) /\ IsFiniteSet(Accounts)
  /\ Gold \in [Accounts -> Nat]
  /\ TradeCap \in [Accounts -> Nat] /\ Tax \in 0 .. 10000
  /\ Jobs \subseteq Job /\ None \notin Nat
  /\ MaxJobs \in Nat /\ MaxTries \in Nat /\ MaxFaults \in Nat

VARIABLES
  val, kept, loose, mode, ask, blind,  \* the cache: see AtomicStore
  absent,  \* cells that no row holds yet: nothing was ever put into them
  conn,    \* s_ of each server: is it working
  live,    \* commands sent on that connection and not read yet
  sn,      \* sn_gen_
  job,     \* what the main thread is busy with
  stage,   \* the command of the job it is at
  phase,   \* "idle", "send", "wait" (polls), "again" (-2: one more addition)
  tries,   \* repetitions of the addition so far
  taken,   \* history: gold taken out, as reported to the servers
  given,   \* history: gold the servers were asked to put in
  crashed, \* history: the cache process was killed
  jobs, faults  \* counters for the bounds

storeVars == <<val, kept, loose, mode, ask, blind, absent>>
taskVars == <<job, stage, phase, tries>>
history == <<taken, given, crashed>>
bounds == <<jobs, faults>>
vars == <<storeVars, conn, live, sn, taskVars, history, bounds>>

Requests == [op : {"ADD", "COST", "COST_ALL", "GET"}, key : Accounts, amt : Nat]

Cache == INSTANCE AtomicStore WITH
           Keys <- Accounts, Clients <- Commands, GenKey <- None, IidStart <- 0,
           InitVal <- Gold, Forced <- [k \in Accounts |-> None]

Init ==
  /\ loose = {} /\ val = Gold /\ kept = [k \in Accounts |-> {Gold[k]}]
  /\ mode = "on" /\ blind = {}
  /\ ask = [c \in Commands |-> [st |-> "idle", req |-> None, ret |-> "none", val |-> 0]]
  /\ Cache!Init
  /\ absent = {k \in Accounts : Gold[k] = 0}
  /\ conn = [g \in Servers |-> TRUE]
  /\ live = [g \in Servers |-> {}]
  /\ sn = [g \in Servers |-> 0]
  /\ job = [g \in Servers |-> None]
  /\ stage = [g \in Servers |-> "none"]
  /\ phase = [g \in Servers |-> "idle"]
  /\ tries = [g \in Servers |-> 0]
  /\ taken = 0 /\ given = 0 /\ crashed = FALSE
  /\ jobs = 0 /\ faults = 0

-----------------------------------------------------------------------------
(* The main thread *)

(* The first command of a job. *)
First(kind) == CASE kind = "transfer" -> "get"
                 [] kind = "take" -> "all"
                 [] kind = "give" -> "add"

Start(g, j) ==
  /\ phase[g] = "idle" /\ jobs < MaxJobs
  /\ jobs' = jobs + 1
  /\ job' = [job EXCEPT ![g] = j]
  /\ stage' = [stage EXCEPT ![g] = First(j.kind)]
  /\ phase' = [phase EXCEPT ![g] = "send"]
  /\ given' = IF j.kind = "give" THEN given + j.amt ELSE given
  /\ UNCHANGED <<storeVars, conn, live, sn, tries, taken, crashed, faults>>

(* What a transfer leaves after the tax. *)
Net(amt) == (amt * (10000 - Tax)) \div 10000

(* The command of each stage. *)
Command(st, j) ==
  CASE st = "get" -> [op |-> "GET", key |-> j.from, amt |-> 0]
    [] st = "cost" -> [op |-> "COST", key |-> j.from, amt |-> j.amt]
    [] st = "all" -> [op |-> "COST_ALL", key |-> j.from, amt |-> 0]
    [] st = "add" -> [op |-> "ADD", key |-> j.to,
                      amt |-> IF j.kind = "transfer" THEN Net(j.amt) ELSE j.amt]

(* Only what lies over the cap is transferred.  A cap that could not be    *)
(* read is 0.                                                              *)
MayTransfer(j, credit) ==
  \E cap \in {0, TradeCap[j.from]} : credit > cap /\ credit - cap >= j.amt

(* The handler returns to the main loop. *)
Idle(g) ==
  /\ job' = [job EXCEPT ![g] = None]
  /\ stage' = [stage EXCEPT ![g] = "none"]
  /\ phase' = [phase EXCEPT ![g] = "idle"]
  /\ tries' = [tries EXCEPT ![g] = 0]

Proceed(g, st) ==
  /\ stage' = [stage EXCEPT ![g] = st]
  /\ phase' = [phase EXCEPT ![g] = "send"]
  /\ UNCHANGED <<job, tries>>

(* apply_cost: what the server takes for a charge. *)
Charged(code) == code = "success"

(* send_cache_cmd returns to its caller.  A balance that could not be read *)
(* is 0; an addition is repeated when the connection was closed; whatever  *)
(* else becomes of it, give_currency returns a success.                    *)
Returns(g, code, v) ==
  LET j == job[g]
  IN  /\ \/ /\ stage[g] = "get"
            /\ LET credit == IF code = "success" THEN v ELSE 0
               IN  \/ MayTransfer(j, credit) /\ Proceed(g, "cost")
                   \/ credit - TradeCap[j.from] < j.amt /\ Idle(g)
         \/ stage[g] = "cost" /\ Charged(code) /\ Proceed(g, "add")
         \/ stage[g] = "cost" /\ ~Charged(code) /\ Idle(g)
         \/ stage[g] = "all" /\ Idle(g)
         \/ /\ stage[g] = "add" /\ code = "closed"
            /\ phase' = [phase EXCEPT ![g] = "again"]
            /\ UNCHANGED <<job, stage, tries>>
         \/ stage[g] = "add" /\ code # "closed" /\ Idle(g)
      /\ taken' = IF stage[g] = "all" /\ code = "success" THEN taken + v ELSE taken

(* The cells stay as they are. *)
CellsSame == UNCHANGED <<val, kept, loose, absent>>

(* do_send_cache_cmd writes to the socket.  Nobody reads it any more when  *)
(* the main loop of the cache has ended.                                   *)
SendCmd(g) ==
  /\ phase[g] = "send" /\ conn[g]
  /\ sn' = [sn EXCEPT ![g] = @ + 1]
  /\ live' = [live EXCEPT ![g] = @ \cup {sn[g] + 1}]
  /\ phase' = [phase EXCEPT ![g] = "wait"]
  /\ CellsSame
  /\ IF mode = "on" THEN Cache!Issue(<<g, sn[g] + 1>>, Command(stage[g], job[g]))
     ELSE UNCHANGED storeVars
  /\ UNCHANGED <<conn, job, stage, tries, history, bounds>>

SendFails(g) ==
  /\ phase[g] = "send" /\ ~conn[g]
  /\ sn' = [sn EXCEPT ![g] = @ + 1]
  /\ Returns(g, "closed", 0)
  /\ UNCHANGED <<storeVars, conn, live, given, crashed, bounds>>

(* Variant: any answer will do. *)
AnyAnswer(g, n) == n <= sn[g]

(* An answer to an earlier command is in the socket too. *)
OwnSequence(g, n) == n = sn[g]

Arrived(g) == {n \in live[g] : ask[<<g, n>>].st = "done"}

(* get_cache_result takes the answers from the socket until it has its own. *)
ReadAnswer(g) ==
  /\ phase[g] = "wait" /\ conn[g]
  /\ \E n \in Arrived(g) :
       /\ live' = [live EXCEPT ![g] = @ \ {n}]
       /\ IF OwnSequence(g, n)
          THEN Returns(g, ask[<<g, n>>].ret, ask[<<g, n>>].val)
          ELSE UNCHANGED <<taskVars, taken>>
  /\ UNCHANGED <<storeVars, conn, sn, given, crashed, bounds>>

(* No answer within a second. *)
TimeOut(g) ==
  /\ phase[g] = "wait" /\ conn[g]
  /\ Returns(g, "timeout", 0)
  /\ UNCHANGED <<storeVars, conn, live, sn, given, crashed, bounds>>

ClosedMeanwhile(g) ==
  /\ phase[g] = "wait" /\ ~conn[g]
  /\ Returns(g, "closed", 0)
  /\ UNCHANGED <<storeVars, conn, live, sn, given, crashed, bounds>>

(* Variant: the loop connects again, as its comment has it. *)
RepeatReconnected(g) ==
  /\ phase[g] = "again" /\ tries[g] < MaxTries
  /\ tries' = [tries EXCEPT ![g] = @ + 1]
  /\ phase' = [phase EXCEPT ![g] = "send"]
  /\ conn' = [conn EXCEPT ![g] = mode = "on"]
  /\ UNCHANGED <<storeVars, live, sn, job, stage, history, bounds>>

(* give_currency sends the addition once more, on the same socket: only    *)
(* the main loop, which this thread left to get here, connects again.      *)
Repeat(g) ==
  /\ phase[g] = "again" /\ tries[g] < MaxTries
  /\ tries' = [tries EXCEPT ![g] = @ + 1]
  /\ phase' = [phase EXCEPT ![g] = "send"]
  /\ UNCHANGED <<storeVars, conn, live, sn, job, stage, history, bounds>>

(* Variant: it waits until there is a connection. *)
GiveUpConnected(g) ==
  /\ phase[g] = "again" /\ conn[g]
  /\ Idle(g)
  /\ UNCHANGED <<storeVars, conn, live, sn, history, bounds>>

(* The five seconds are over. *)
GiveUp(g) ==
  /\ phase[g] = "again"
  /\ Idle(g)
  /\ UNCHANGED <<storeVars, conn, live, sn, history, bounds>>

(* main_thread_update: keep_alive makes new sockets. *)
Reconnect(g) ==
  /\ phase[g] = "idle" /\ ~conn[g] /\ mode = "on"
  /\ conn' = [conn EXCEPT ![g] = TRUE]
  /\ UNCHANGED <<storeVars, live, sn, taskVars, history, bounds>>

(* handle_no_sync_msg throws away what came late. *)
DropLate(g) ==
  /\ phase[g] = "idle" /\ Arrived(g) # {}
  /\ live' = [live EXCEPT ![g] = @ \ Arrived(g)]
  /\ UNCHANGED <<storeVars, conn, sn, taskVars, history, bounds>>

-----------------------------------------------------------------------------
(* The network and the cache *)

Fault == faults < MaxFaults /\ faults' = faults + 1

ConnLost(g) ==
  /\ conn[g] /\ Fault
  /\ conn' = [conn EXCEPT ![g] = FALSE]
  /\ live' = [live EXCEPT ![g] = {}]
  /\ UNCHANGED <<storeVars, sn, taskVars, history, jobs>>

(* Which of the contents the store allows a cell has: once something was   *)
(* put into it there is a row, also when the gold is spent.                *)
Content(k) == IF k \in absent THEN None ELSE val[k]

(* The cache executes a command whenever it gets to it, also one whose     *)
(* sender has stopped waiting.  A command it loses is one it never gets to. *)
Execute(c) ==
  LET k == ask[c].req.key
      e == Cache!Effect(ask[c].req.op, Content(k), ask[c].req.amt)
  IN  /\ ask[c].st = "open"
      /\ val' = [val EXCEPT ![k] = Cache!Num(e.new)]
      /\ absent' = IF e.new = None THEN absent ELSE absent \ {k}
      /\ Cache!Answers(c, e.ret, e.val)
      /\ kept' = [kept EXCEPT ![k] = @ \cup {val'[k]}] /\ loose' = {}
      /\ Cache!Execute(c)
      /\ UNCHANGED <<conn, live, sn, taskVars, history, bounds>>

(* Its last batch.  What it writes before makes a crash less harmful only. *)
Flush ==
  /\ mode = "off" /\ \E k \in Accounts : kept[k] # {val[k]}
  /\ kept' = [k \in Accounts |-> {val[k]}] /\ UNCHANGED <<val, loose, absent>>
  /\ ask' = ask /\ blind' = {} /\ Cache!Internal
  /\ UNCHANGED <<conn, live, sn, taskVars, history, bounds>>

ShutCache ==
  /\ Fault /\ CellsSame /\ Cache!Shut
  /\ UNCHANGED <<conn, live, sn, taskVars, history, jobs>>

Disconnected ==
  /\ conn' = [g \in Servers |-> FALSE]
  /\ live' = [g \in Servers |-> {}]

CloseCache ==
  /\ CellsSame /\ Cache!Close /\ Disconnected
  /\ UNCHANGED <<sn, taskVars, history, bounds>>

CrashCache ==
  /\ Fault /\ loose' = {}
  /\ val' \in {v \in [Accounts -> UNION {kept[k] : k \in Accounts}] :
               \A k \in Accounts : v[k] \in kept[k]}
  /\ kept' = [k \in Accounts |-> {val'[k]}]
  /\ absent' \in {absent, absent \cup {k \in Accounts : Gold[k] = 0 /\ val'[k] = 0}}
  /\ Cache!Crash /\ Disconnected
  /\ crashed' = TRUE
  /\ UNCHANGED <<sn, taskVars, taken, given, jobs>>

ReopenCache ==
  /\ CellsSame /\ Cache!Reopen
  /\ UNCHANGED <<conn, live, sn, taskVars, history, bounds>>

-----------------------------------------------------------------------------
Call(g) == \/ SendCmd(g) \/ SendFails(g) \/ ReadAnswer(g) \/ TimeOut(g)
           \/ ClosedMeanwhile(g)

Next ==
  \/ \E g \in Servers : \/ \E j \in Jobs : Start(g, j)
                        \/ Call(g) \/ Repeat(g) \/ GiveUp(g)
                        \/ Reconnect(g) \/ DropLate(g) \/ ConnLost(g)
  \/ \E c \in Commands : Execute(c)
  \/ Flush \/ ShutCache \/ CloseCache \/ CrashCache \/ ReopenCache

Spec == Init /\ [][Next]_vars

(* The thread goes on polling, and its clocks run. *)
Fairness == \A g \in Servers : WF_vars(Call(g)) /\ WF_vars(GiveUp(g))

FairSpec == Spec /\ Fairness

-----------------------------------------------------------------------------
(* Properties *)

TypeOK ==
  /\ val \in [Accounts -> Nat] /\ kept \in [Accounts -> SUBSET Nat]
  /\ absent \subseteq Accounts /\ loose = {} /\ blind = {}
  /\ mode \in {"on", "off", "closed"}
  /\ ask \in [Commands -> [st : {"idle", "open", "done", "lost"},
                           req : Requests \cup {None},
                           ret : {"none", "success", "less"}, val : Nat]]
  /\ \A c \in Commands : ask[c].st # "idle" => ask[c].req \in Requests
  /\ conn \in [Servers -> BOOLEAN]
  /\ live \in [Servers -> SUBSET Seqs]
  /\ sn \in [Servers -> 0 .. MaxJobs * (3 + MaxTries)]
  /\ job \in [Servers -> Job \cup {None}]
  /\ stage \in [Servers -> {"none", "get", "cost", "all", "add"}]
  /\ phase \in [Servers -> {"idle", "send", "wait", "again"}]
  /\ tries \in [Servers -> 0 .. MaxTries]
  /\ taken \in Nat /\ given \in Nat /\ crashed \in BOOLEAN
  /\ jobs \in 0 .. MaxJobs /\ faults \in 0 .. MaxFaults

(* However commands, answers, time-outs and lost connections interleave,   *)
(* the servers together never put more gold into the cells, or pass more   *)
(* on, than was there and than they were asked to put in: an addition is   *)
(* not done twice, and nobody is paid with gold that was not charged       *)
(* (apply_cost, give_currency, get_cache_result).  A killed cache, which   *)
(* falls back cell by cell, is the exception.                              *)
NoGoldMade == ~crashed => SumOver(val, Accounts) + taken <= SumOver(Gold, Accounts) + given

(* When a transfer goes on to pay the target, the charge of this very      *)
(* transfer was executed: its answer is not that of an earlier command     *)
(* that came late (get_cache_result compares the sequence numbers).        *)
PaidFirst ==
  \A g \in Servers :
    stage[g] = "add" /\ phase[g] = "send" /\ tries[g] = 0
    /\ job[g].kind = "transfer" =>
      /\ ask[<<g, sn[g]>>].st = "done" /\ ask[<<g, sn[g]>>].ret = "success"
      /\ ask[<<g, sn[g]>>].req = Command("cost", job[g])

(* Of all the additions give_currency sends for one gift, at most one gets *)
(* to the cache: after a -2 the socket stays closed until the main loop    *)
(* has the thread back.                                                    *)
GivenOnce ==
  \A g \in Servers :
    stage[g] = "add" =>
      LET first == sn[g] - tries[g] + (IF phase[g] = "send" THEN 1 ELSE 0)
      IN  Cardinality({n \in Seqs : n \in first .. sn[g] /\ ask[<<g, n>>].st # "idle"}) <= 1

(* A gift is paid for and added once; with the types of the variables. *)
GiftInv == TypeOK /\ PaidFirst /\ GivenOnce

(* The main thread gets out of every job, also when the cache is gone for  *)
(* good: each wait has its deadline.                                       *)
CallReturns == \A g \in Servers : phase[g] # "idle" ~> phase[g] = "idle"
=============================================================================
