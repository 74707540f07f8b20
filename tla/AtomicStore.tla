---------------------------- MODULE AtomicStore ----------------------------
(***************************************************************************)
(* What the cache server promises to the game servers (mem_cache.cpp seen  *)
(* from outside): one number per key, every command executed at one        *)
(* instant between its arrival and its answer, and after a crash each      *)
(* number falls back to a value it had since it was last stored.           *)
(*                                                                         *)
(* `loose' are the cells about which the store promises nothing at         *)
(* present.  Which cells these are is the business of the implementation.  *)
(***************************************************************************)
EXTENDS Integers

CONSTANTS
  Keys,      \* the complex keys
  Clients,   \* callers, each with one command at a time
  Requests,  \* the commands they may send: [cl, op, key, amt]
  GenKey,    \* the key whose number is the next id to be given away
  IidStart,  \* the first id
  InitVal,   \* [Keys -> Nat]: what is stored at the beginning
  Forced,    \* values an operator may force, by key
  None       \* no value

VARIABLES
  val,    \* [Keys -> Nat]: the number of each key
  kept,   \* [Keys -> SUBSET Nat]: what a crash may leave of it
  loose,  \* keys without a promise
  mode,   \* "on"; "off": no longer serving; "closed": the process ended
  ask,    \* [Clients -> [st, req, ret, val]]: the commands and their answers
  blind   \* callers whose command will find nothing: the cell is unreadable

vars == <<val, kept, loose, mode, ask, blind>>

Num(v) == IF v = None THEN 0 ELSE v

CellOps == {"ADD", "COST", "COST_ALL", "SET", "GET"}

(* An empty cell holds 0 or is absent; a caller cannot tell in advance.    *)
Contents(n) == IF n = 0 THEN {0, None} ELSE {n}

Reply(ret, v, new) == [ret |-> ret, val |-> v, new |-> new]

(* The effect of a command on a cell. *)
Effect(op, old, amt) ==
  CASE op = "ADD" -> Reply("success", Num(old) + amt, Num(old) + amt)
    [] op = "SET" -> Reply("success", amt, amt)
    [] op \in {"COST", "COST_ALL"} /\ old = None -> Reply("success", 0, None)
    [] op \in {"COST", "COST_ALL"} /\ old # None /\ old < amt ->
         Reply("less", 0, old)
    [] op = "COST" /\ old # None /\ old >= amt ->
         Reply("success", old - amt, old - amt)
    [] op = "COST_ALL" /\ old # None /\ old >= amt -> Reply("success", old, 0)
    [] OTHER -> Reply("success", Num(old), old)

(* Only the cells in S are written.  A written cell may be lost again, so  *)
(* what a crash may leave grows by the new value; of the others it shrinks *)
(* towards what they hold.                                                 *)
Writes(S) ==
  \A k \in Keys \ loose' :
    /\ val'[k] \in kept'[k]
    /\ k \notin loose =>
         IF k \in S THEN kept'[k] \subseteq kept[k] \cup {val'[k]}
         ELSE val'[k] = val[k] /\ kept'[k] \subseteq kept[k]

Open == {c \in Clients : ask[c].st = "open"}

(* The open commands in S will never be answered. *)
Lost(S) == [c \in Clients |-> IF c \in S THEN [ask[c] EXCEPT !.st = "lost"]
                              ELSE ask[c]]

Answers(c, ret, v) ==
  ask' = [ask EXCEPT ![c] = [st |-> "done", req |-> ask[c].req, ret |-> ret,
                             val |-> v]]

Init ==
  /\ \A k \in Keys \ loose : val[k] = InitVal[k] /\ kept[k] = {val[k]}
  /\ mode = "on" /\ blind = {}
  /\ \A c \in Clients : ask[c].st = "idle"

Issue(c, q) ==
  /\ mode = "on" /\ ask[c].st # "open"
  /\ ask' = [ask EXCEPT ![c] = [st |-> "open", req |-> q, ret |-> "none",
                                val |-> 0]]
  /\ Writes({}) /\ UNCHANGED <<mode, blind>>

(* A command on one cell.  What it answers and writes follows from what    *)
(* the cell held, unless there is no promise about it; where the cell      *)
(* cannot be read, it is executed on an absent one.                        *)
Execute(c) ==
  LET q == ask[c].req
  IN  /\ mode = "on" /\ ask[c].st = "open" /\ q.op \in CellOps
      /\ Answers(c, ask'[c].ret, ask'[c].val)
      /\ c \in blind \/ q.key \notin loose \cup loose' =>
           \E old \in IF c \in blind THEN {None} ELSE Contents(val[q.key]) :
             LET e == Effect(q.op, old, q.amt)
             IN  /\ ask'[c].ret = e.ret /\ ask'[c].val = e.val
                 /\ val'[q.key] = Num(e.new)
      /\ blind' = blind \ {c}
      /\ Writes({q.key}) /\ UNCHANGED mode

Asked(c, op) == mode = "on" /\ ask[c].st = "open" /\ ask[c].req.op = op

(* An account that has no id gets the one it asks for, *)
BindChosen(c) ==
  LET q == ask[c].req
  IN  /\ Asked(c, "BIND") /\ q.amt # 0
      /\ val[q.key] = 0 /\ val'[q.key] = q.amt
      /\ Answers(c, "success", q.amt)
      /\ Writes({q.key}) /\ UNCHANGED <<mode, blind>>

(* or the next one of the generator, *)
BindNext(c) ==
  LET q == ask[c].req
  IN  /\ Asked(c, "BIND")
      /\ val[q.key] = 0
      /\ val'[q.key] = IF val[GenKey] < IidStart THEN IidStart ELSE val[GenKey]
      /\ val'[GenKey] = val'[q.key] + 1
      /\ Answers(c, "success", q.amt)
      /\ Writes({q.key, GenKey}) /\ UNCHANGED <<mode, blind>>

(* or nothing. *)
BindRefused(c) ==
  /\ Asked(c, "BIND")
  /\ Answers(c, ask'[c].ret, 0)
  /\ Writes({}) /\ UNCHANGED <<mode, blind>>

(* An operator forces values. *)
Force ==
  /\ mode = "on"
  /\ \A k \in Keys : val'[k] \in {val[k], Num(Forced[k])}
  /\ Writes({k \in Keys : Forced[k] # None}) /\ UNCHANGED <<mode, ask, blind>>

(* Nothing a caller sees: values become durable, cells become loose or are *)
(* repaired, commands are given up, or find a cell that is unreadable.     *)
Internal ==
  /\ \E S \in SUBSET Open : ask' = Lost(S)
  /\ blind' \subseteq Clients
  /\ Writes({}) /\ UNCHANGED mode

Shut == mode = "on" /\ mode' = "off" /\ Writes({}) /\ UNCHANGED <<ask, blind>>

(* A clean end: nothing but the present value can be found again. *)
Close ==
  /\ mode = "off" /\ mode' = "closed"
  /\ \A k \in Keys \ loose : kept[k] = {val[k]}
  /\ ask' = Lost(Open) /\ blind' = {}
  /\ Writes({})

(* A crash: each cell falls back to one of the kept values. *)
Crash ==
  /\ mode # "closed" /\ mode' = "closed"
  /\ \A k \in Keys \ (loose \cup loose') :
       val'[k] \in kept[k] /\ kept'[k] = {val'[k]}
  /\ \A k \in loose \ loose' : val'[k] \in kept'[k]
  /\ ask' = Lost(Open) /\ blind' = {}

Reopen == mode = "closed" /\ mode' = "on" /\ Writes({}) /\ UNCHANGED <<ask, blind>>

Next ==
  \/ \E c \in Clients : \/ \E q \in Requests : Issue(c, q)
                        \/ Execute(c) \/ BindChosen(c) \/ BindNext(c)
                        \/ BindRefused(c)
  \/ Force \/ Internal \/ Shut \/ Close \/ Crash \/ Reopen

Spec == Init /\ [][Next]_vars
=============================================================================
