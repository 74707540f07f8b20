------------------------- MODULE GameServiceProofs -------------------------
(***************************************************************************)
(* Theorems about two parts of the game service.                           *)
(*                                                                         *)
(* CacheClient, for every set of game servers and accounts, any jobs, and  *)
(* any number of repetitions and faults: no gold is made, and a gift is    *)
(* paid for and added once.                                                *)
(*                                                                         *)
(* TelfeeMatch, for every set of matches and players and any number of     *)
(* messages: type correctness, each registration is used once, and a       *)
(* player gets at most one result each time he sits down.                  *)
(***************************************************************************)
EXTENDS CacheClient, TelfeeMatch, SumTheorems

-----------------------------------------------------------------------------
(* CacheClient: the inductive invariant *)

(* Where the thread of a server is. *)
ThreadInv ==
  \A g \in Servers :
    /\ phase[g] = "idle" <=> stage[g] = "none"
    /\ stage[g] # "none" => job[g] \in Jobs
    /\ stage[g] \in {"get", "cost"} => job[g].kind = "transfer"
    /\ stage[g] = "all" => job[g].kind = "take"
    /\ stage[g] = "add" => job[g].kind \in {"transfer", "give"}
    /\ stage[g] # "add" => tries[g] = 0 /\ phase[g] # "again"

(* While an addition is repeated the connection stays closed. *)
ClosedInv ==
  \A g \in Servers : tries[g] > 0 \/ phase[g] = "again" => ~conn[g]

(* The number of commands a job may still send. *)
Left(g) ==
  CASE stage[g] = "none" -> 0
    [] stage[g] = "get" -> 2 + MaxTries + (IF phase[g] = "send" THEN 1 ELSE 0)
    [] stage[g] = "cost" -> 1 + MaxTries + (IF phase[g] = "send" THEN 1 ELSE 0)
    [] stage[g] = "all" -> IF phase[g] = "send" THEN 1 ELSE 0
    [] stage[g] = "add" -> MaxTries - tries[g] + (IF phase[g] = "send" THEN 1 ELSE 0)

SequenceInv ==
  \A g \in Servers : sn[g] + Left(g) <= jobs * (3 + MaxTries)

(* The last command of a server is that of its stage, and none follows. *)
LastCommand(g) ==
  /\ \A n \in Seqs : n > sn[g] => ask[<<g, n>>].st = "idle" /\ n \notin live[g]
  /\ phase[g] \in {"wait", "again"} \/ (stage[g] = "add" /\ job[g].kind = "transfer")
       => sn[g] >= 1
  /\ phase[g] = "wait" /\ ask[<<g, sn[g]>>].st # "idle"
       => ask[<<g, sn[g]>>].req = Command(stage[g], job[g])

CommandInv == \A g \in Servers : LastCommand(g)

(* The first addition of a gift is the only one the cache may have seen. *)
FirstAdd(g) == sn[g] - tries[g] + (IF phase[g] = "send" THEN 1 ELSE 0)

RepeatInv ==
  \A g \in Servers : stage[g] = "add" =>
    \A n \in Seqs : n > FirstAdd(g) => ask[<<g, n>>].st = "idle"

(* What is charged is charged to a cell that is there. *)
ThereInv ==
  ~crashed =>
       /\ \A c \in Commands :
            /\ ask[c].st = "done" /\ ask[c].req.op = "GET" /\ ask[c].val > 0
                 => ask[c].req.key \notin absent
            /\ ask[c].st = "open" /\ ask[c].req.op = "COST"
                 => ask[c].req.key \notin absent
       /\ \A g \in Servers : stage[g] = "cost" => job[g].from \notin absent

(* Gold on its way: in an addition that the cache has yet to execute, or   *)
(* in an answer that its server has yet to read; *)
WeightOf(c) ==
  IF ask[c].st = "open" /\ ask[c].req.op = "ADD" THEN ask[c].req.amt
  ELSE IF ask[c].st = "done" /\ ask[c].ret = "success" /\ c[2] \in live[c[1]]
       THEN IF ask[c].req.op = "COST" THEN ask[c].req.amt
            ELSE IF ask[c].req.op = "COST_ALL" THEN ask[c].val ELSE 0
       ELSE 0

Weight == [c \in Commands |-> WeightOf(c)]

(* or in the hands of a server that is about to send it on. *)
HeldBy(g) ==
  IF stage[g] = "add" /\ phase[g] = "send" /\ tries[g] = 0
  THEN Command("add", job[g]).amt ELSE 0

Held == [g \in Servers |-> HeldBy(g)]

GoldInv ==
  ~crashed => SumOver(val, Accounts) + SumOver(Weight, Commands)
                + SumOver(Held, Servers) + taken
              <= SumOver(Gold, Accounts) + given

ClientInv ==
  /\ TypeOK /\ ThreadInv /\ ClosedInv /\ SequenceInv /\ CommandInv
  /\ RepeatInv /\ PaidFirst /\ ThereInv

-----------------------------------------------------------------------------
(* What the operators compute *)

(* The tax takes something or nothing. *)
LEMMA NetFacts ==
  ASSUME NEW amt \in Nat
  PROVE  Net(amt) \in Nat /\ Net(amt) <= amt
<1> DEFINE t == 10000 - Tax
           m == amt * t
<1>1. t \in 0 .. 10000
  BY CacheClientAssumption
<1>2. m \in Nat /\ m <= amt * 10000
  <2> HIDE DEF t
  <2>1. amt * t \in Nat /\ amt * t <= amt * 10000
    BY <1>1
  <2> QED BY <2>1
<1>3. Net(amt) = m \div 10000
  BY DEF Net
<1> HIDE DEF m
<1> QED BY <1>2, <1>3

LEMMA CommandFacts ==
  ASSUME NEW j \in Jobs
  PROVE  /\ \A st \in {"get", "cost", "all", "add"} : Command(st, j) \in Requests
         /\ Command("get", j) = [op |-> "GET", key |-> j.from, amt |-> 0]
         /\ Command("cost", j) = [op |-> "COST", key |-> j.from, amt |-> j.amt]
         /\ Command("all", j) = [op |-> "COST_ALL", key |-> j.from, amt |-> 0]
         /\ Command("add", j).op = "ADD"
         /\ Command("add", j).amt \in Nat
         /\ j.kind = "give" => Command("add", j).amt = j.amt
         /\ Command("add", j).amt <= j.amt
         /\ j.amt \in Nat /\ j.from \in Accounts
<1>1. j \in Job
  BY CacheClientAssumption
<1>2. j.amt \in Nat /\ j.from \in Accounts /\ j.to \in Accounts
  BY <1>1 DEF Job
<1>3. Net(j.amt) \in Nat /\ Net(j.amt) <= j.amt
  BY <1>2, NetFacts
<1> QED BY <1>2, <1>3 DEF Command, Requests

(* A command answers and leaves numbers; only an addition makes a cell     *)
(* fuller, and only a charge of an absent cell charges nothing.            *)
LEMMA EffectFacts ==
  ASSUME NEW q \in Requests, NEW old \in Nat \cup {None},
         NEW e, e = Cache!Effect(q.op, old, q.amt)
  PROVE  /\ e.ret \in {"success", "less"} /\ e.val \in Nat
         /\ Cache!Num(e.new) \in Nat
         /\ e.new = None => old = None
         /\ q.op = "ADD" => /\ Cache!Num(e.new) = Cache!Num(old) + q.amt
                            /\ e.new # None
         /\ q.op = "COST" /\ e.ret = "success" /\ old # None
              => Cache!Num(e.new) + q.amt <= Cache!Num(old)
         /\ q.op = "COST_ALL" /\ e.ret = "success"
              => Cache!Num(e.new) + e.val <= Cache!Num(old)
         /\ q.op # "ADD" => Cache!Num(e.new) <= Cache!Num(old)
         /\ q.op = "GET" => e.val = Cache!Num(old)
<1>1. q.op \in {"ADD", "COST", "COST_ALL", "GET"} /\ q.amt \in Nat
  BY DEF Requests
<1>2. None \notin Nat
  BY CacheClientAssumption
<1>3. CASE q.op = "ADD"
  BY <1>1, <1>2, <1>3 DEF Cache!Effect, Cache!Reply, Cache!Num
<1>4. CASE q.op = "COST"
  BY <1>1, <1>2, <1>4 DEF Cache!Effect, Cache!Reply, Cache!Num
<1>5. CASE q.op = "COST_ALL"
  BY <1>1, <1>2, <1>5 DEF Cache!Effect, Cache!Reply, Cache!Num
<1>6. CASE q.op = "GET"
  BY <1>1, <1>2, <1>6 DEF Cache!Effect, Cache!Reply, Cache!Num
<1> QED BY <1>1, <1>3, <1>4, <1>5, <1>6

(* There is a sequence number left for every command of every job. *)
LEMMA SequenceFacts ==
  ASSUME TypeOK, ThreadInv, SequenceInv, NEW g \in Servers
  PROVE  /\ sn[g] \in Nat /\ Left(g) \in Nat
         /\ phase[g] = "send" => sn[g] + 1 \in Seqs
         /\ sn[g] >= 1 => sn[g] \in Seqs
<1> DEFINE B == 3 + MaxTries
<1>1. /\ jobs \in Nat /\ MaxJobs \in Nat /\ B \in Nat /\ jobs <= MaxJobs
      /\ MaxTries \in Nat
  BY CacheClientAssumption DEF TypeOK
<1>2. jobs * B \in Nat /\ MaxJobs * B \in Nat /\ jobs * B <= MaxJobs * B
  <2> HIDE DEF B
  <2> QED BY <1>1
<1>3. sn[g] \in 0 .. MaxJobs * B /\ tries[g] \in 0 .. MaxTries
      /\ stage[g] \in {"none", "get", "cost", "all", "add"}
  BY DEF TypeOK
<1>4. Left(g) \in Nat /\ (phase[g] = "send" => Left(g) >= 1)
  BY <1>1, <1>3 DEF Left, ThreadInv
<1>5. sn[g] + Left(g) <= jobs * B
  BY DEF SequenceInv
<1>6. Seqs = 1 .. MaxJobs * B
  BY DEF Seqs
<1> HIDE DEF B, Left
<1> QED BY <1>2, <1>3, <1>4, <1>5, <1>6

-----------------------------------------------------------------------------
(* What a step may do *)

(* A call that returns goes on to the next command or ends the job. *)
Goes(g, code, v) ==
  \/ /\ stage[g] = "get" /\ code = "success" /\ v > 0
     /\ stage' = [stage EXCEPT ![g] = "cost"]
     /\ phase' = [phase EXCEPT ![g] = "send"]
     /\ UNCHANGED <<job, tries, taken>>
  \/ /\ stage[g] = "cost" /\ code = "success"
     /\ stage' = [stage EXCEPT ![g] = "add"]
     /\ phase' = [phase EXCEPT ![g] = "send"]
     /\ UNCHANGED <<job, tries, taken>>
  \/ /\ stage[g] = "add" /\ code = "closed"
     /\ phase' = [phase EXCEPT ![g] = "again"]
     /\ UNCHANGED <<job, stage, tries, taken>>
  \/ /\ Idle(g)
     /\ taken' = IF stage[g] = "all" /\ code = "success" THEN taken + v ELSE taken

LEMMA ReturnsGoes ==
  ASSUME TypeOK, ThreadInv, NEW g \in Servers, phase[g] # "idle",
         NEW code, NEW v \in Nat, Returns(g, code, v)
  PROVE  Goes(g, code, v)
<1>1. job[g] \in Job
  BY CacheClientAssumption DEF ThreadInv
<1>2. TradeCap[job[g].from] \in Nat
  BY <1>1, CacheClientAssumption DEF Job
<1>3. CASE stage[g] = "get"
  <2> DEFINE credit == IF code = "success" THEN v ELSE 0
  <2>1. taken' = taken
    BY <1>3 DEF Returns
  <2>2. CASE MayTransfer(job[g], credit) /\ Proceed(g, "cost")
    <3>1. credit > 0
      BY <1>2, <2>2 DEF MayTransfer
    <3>2. code = "success" /\ v > 0
      BY <3>1
    <3> QED BY <1>3, <2>1, <2>2, <3>2 DEF Goes, Proceed
  <2>3. CASE Idle(g)
    BY <1>3, <2>1, <2>3 DEF Goes
  <2> QED BY <1>3, <2>2, <2>3 DEF Returns
<1>4. CASE stage[g] = "cost"
  BY <1>4 DEF Returns, Goes, Proceed, Charged
<1>5. CASE stage[g] = "all"
  BY <1>5 DEF Returns, Goes
<1>6. CASE stage[g] = "add"
  BY <1>6 DEF Returns, Goes
<1> QED BY <1>3, <1>4, <1>5, <1>6 DEF ThreadInv, TypeOK

(* The network and the cache, when it executes nothing, only lose things.  *)
Quiet ==
  /\ UNCHANGED <<sn, job, stage, phase, tries, taken, given>>
  /\ \A g \in Servers : conn'[g] => conn[g] \/ phase[g] = "idle"
  /\ \A g \in Servers : live'[g] \subseteq live[g]
  /\ \A c \in Commands :
       \/ ask'[c] = ask[c]
       \/ ask[c].st = "open" /\ ask'[c] = [ask[c] EXCEPT !.st = "lost"]
  /\ jobs' \in Nat /\ jobs' >= jobs
  /\ crashed' \/ (crashed' = crashed /\ val' = val /\ absent' = absent)

Quietly ==
  \/ \E g \in Servers : Reconnect(g) \/ DropLate(g) \/ ConnLost(g)
  \/ Flush \/ ShutCache \/ CloseCache \/ CrashCache \/ ReopenCache

LEMMA OpenLost ==
  ASSUME TypeOK, NEW a, a = Cache!Lost(Cache!Open)
  PROVE  /\ a \in [Commands -> [st : {"idle", "open", "done", "lost"},
                                req : Requests \cup {None},
                                ret : {"none", "success", "less"}, val : Nat]]
         /\ \A c \in Commands : a[c].st # "idle" => a[c].req \in Requests
         /\ \A c \in Commands :
              \/ a[c] = ask[c]
              \/ ask[c].st = "open" /\ a[c] = [ask[c] EXCEPT !.st = "lost"]
<1> DEFINE A == [st : {"idle", "open", "done", "lost"}, req : Requests \cup {None},
                 ret : {"none", "success", "less"}, val : Nat]
<1>1. ASSUME NEW c \in Commands
      PROVE  /\ [ask[c] EXCEPT !.st = "lost"] \in A
             /\ [ask[c] EXCEPT !.st = "lost"].req = ask[c].req
             /\ ask[c] \in A /\ (ask[c].st # "idle" => ask[c].req \in Requests)
  <2>1. ask[c] \in A /\ (ask[c].st # "idle" => ask[c].req \in Requests)
    BY DEF TypeOK
  <2> HIDE DEF Requests
  <2> QED BY <2>1
<1>2. a = [c \in Commands |-> IF c \in Cache!Open THEN [ask[c] EXCEPT !.st = "lost"]
                              ELSE ask[c]]
  BY DEF Cache!Lost
<1>3. \A c \in Cache!Open : ask[c].st = "open"
  BY DEF Cache!Open
<1> HIDE DEF A, Cache!Open
<1>4. a \in [Commands -> A]
  BY <1>1, <1>2
<1>5. \A c \in Commands : a[c].st # "idle" => a[c].req \in Requests
  BY <1>1, <1>2, <1>3
<1>6. \A c \in Commands :
        \/ a[c] = ask[c]
        \/ ask[c].st = "open" /\ a[c] = [ask[c] EXCEPT !.st = "lost"]
  BY <1>2, <1>3
<1> QED BY <1>4, <1>5, <1>6 DEF A

LEMMA QuietlyIsQuiet ==
  ASSUME TypeOK, Quietly
  PROVE  TypeOK' /\ Quiet
<1> USE DEF storeVars, taskVars, history, bounds
<1>1. ASSUME NEW g \in Servers, Reconnect(g) PROVE TypeOK' /\ Quiet
  BY <1>1 DEF Reconnect, TypeOK, Quiet
<1>2. ASSUME NEW g \in Servers, DropLate(g) PROVE TypeOK' /\ Quiet
  BY <1>2 DEF DropLate, TypeOK, Quiet
<1>3. ASSUME NEW g \in Servers, ConnLost(g) PROVE TypeOK' /\ Quiet
  BY <1>3, CacheClientAssumption DEF ConnLost, Fault, TypeOK, Quiet
<1>4. CASE Flush
  BY <1>4 DEF Flush, TypeOK, Quiet, Cache!Internal
<1>5. CASE ShutCache
  BY <1>5, CacheClientAssumption DEF ShutCache, Fault, CellsSame, Cache!Shut, TypeOK, Quiet
<1>6. CASE CloseCache
  <2>1. ask' = Cache!Lost(Cache!Open)
    BY <1>6 DEF CloseCache, Cache!Close
  <2>2. /\ ask' \in [Commands -> [st : {"idle", "open", "done", "lost"},
                                   req : Requests \cup {None},
                                   ret : {"none", "success", "less"}, val : Nat]]
        /\ \A c \in Commands : ask'[c].st # "idle" => ask'[c].req \in Requests
        /\ \A c \in Commands :
             \/ ask'[c] = ask[c]
             \/ ask[c].st = "open" /\ ask'[c] = [ask[c] EXCEPT !.st = "lost"]
    BY <2>1, OpenLost
  <2> QED BY <1>6, <2>2
          DEF CloseCache, CellsSame, Cache!Close, Disconnected, TypeOK, Quiet
<1>7. CASE CrashCache
  <2>1. ask' = Cache!Lost(Cache!Open)
    BY <1>7 DEF CrashCache, Cache!Crash
  <2>2. val' \in [Accounts -> Nat] /\ kept' \in [Accounts -> SUBSET Nat]
    <3>1. UNION {kept[k] : k \in Accounts} \subseteq Nat
      BY DEF TypeOK
    <3>2. val' \in [Accounts -> UNION {kept[k] : k \in Accounts}]
      BY <1>7 DEF CrashCache
    <3>3. val' \in [Accounts -> Nat]
      BY <3>1, <3>2
    <3>4. kept' = [k \in Accounts |-> {val'[k]}]
      BY <1>7 DEF CrashCache
    <3> QED BY <3>3, <3>4
  <2>3. absent' \subseteq Accounts /\ loose' = {} /\ blind' = {} /\ mode' = "closed"
    BY <1>7 DEF CrashCache, Cache!Crash, TypeOK
  <2>4. /\ conn' \in [Servers -> BOOLEAN] /\ live' \in [Servers -> SUBSET Seqs]
        /\ \A g \in Servers : ~conn'[g] /\ live'[g] = {}
    BY <1>7 DEF CrashCache, Disconnected
  <2>5. /\ UNCHANGED <<sn, job, stage, phase, tries, taken, given, jobs>>
        /\ crashed' = TRUE /\ faults' \in 0 .. MaxFaults
    BY <1>7, CacheClientAssumption DEF CrashCache, Fault, TypeOK
  <2>6. /\ ask' \in [Commands -> [st : {"idle", "open", "done", "lost"},
                                   req : Requests \cup {None},
                                   ret : {"none", "success", "less"}, val : Nat]]
        /\ \A c \in Commands : ask'[c].st # "idle" => ask'[c].req \in Requests
        /\ \A c \in Commands :
             \/ ask'[c] = ask[c]
             \/ ask[c].st = "open" /\ ask'[c] = [ask[c] EXCEPT !.st = "lost"]
    BY <2>1, OpenLost
  <2> QED BY <2>2, <2>3, <2>4, <2>5, <2>6 DEF TypeOK, Quiet
<1>8. CASE ReopenCache
  BY <1>8 DEF ReopenCache, CellsSame, Cache!Reopen, TypeOK, Quiet
<1> QED BY <1>1, <1>2, <1>3, <1>4, <1>5, <1>6, <1>7, <1>8 DEF Quietly

-----------------------------------------------------------------------------
(* The invariant is kept *)

LEMMA QuietKeepsClient ==
  ASSUME ClientInv, TypeOK', Quiet
  PROVE  ClientInv'
<1>1. UNCHANGED <<sn, job, stage, phase, tries>>
  BY DEF Quiet
<1>2. \A c \in Commands :
        \/ ask'[c] = ask[c]
        \/ ask[c].st = "open" /\ ask'[c].st = "lost" /\ ask'[c].req = ask[c].req
  <2> SUFFICES ASSUME NEW c \in Commands, ask'[c] = [ask[c] EXCEPT !.st = "lost"]
               PROVE  ask'[c].st = "lost" /\ ask'[c].req = ask[c].req
    BY DEF Quiet
  <2>1. ask[c] \in [st : {"idle", "open", "done", "lost"}, req : Requests \cup {None},
                    ret : {"none", "success", "less"}, val : Nat]
    BY DEF ClientInv, TypeOK
  <2> HIDE DEF Requests
  <2> QED BY <2>1
<1>3. \A g \in Servers : /\ \A n \in Seqs : <<g, n>> \in Commands
                         /\ sn[g] \in Nat
                         /\ sn[g] >= 1 => sn[g] \in Seqs
  BY SequenceFacts DEF ClientInv, Commands
<1>4. ThreadInv'
  BY <1>1 DEF ClientInv, ThreadInv
<1>5. ClosedInv'
  BY <1>1 DEF ClientInv, ClosedInv, Quiet, ThreadInv
<1>6. SequenceInv'
  <2>1. \A g \in Servers : Left(g)' = Left(g)
    BY <1>1 DEF Left
  <2>2. jobs * (3 + MaxTries) <= jobs' * (3 + MaxTries)
    <3> DEFINE B == 3 + MaxTries
    <3>1. jobs \in Nat /\ jobs' \in Nat /\ jobs' >= jobs /\ B \in Nat
      BY CacheClientAssumption DEF Quiet, ClientInv, TypeOK
    <3> HIDE DEF B
    <3>2. PICK d \in Nat : jobs' = jobs + d
      BY <3>1
    <3>3. jobs' * B = jobs * B + d * B /\ d * B \in Nat /\ jobs * B \in Nat
      BY <3>1, <3>2
    <3>4. jobs * B <= jobs' * B
      BY <3>3
    <3> QED BY <3>4 DEF B
  <2>3. \A g \in Servers : Left(g) \in Nat
    BY SequenceFacts DEF ClientInv
  <2>4. jobs * (3 + MaxTries) \in Nat /\ jobs' * (3 + MaxTries) \in Nat
    BY CacheClientAssumption DEF Quiet, ClientInv, TypeOK
  <2> HIDE DEF Left
  <2> QED BY <1>1, <1>3, <2>1, <2>2, <2>3, <2>4 DEF ClientInv, SequenceInv
<1>7. CommandInv'
  <2> SUFFICES ASSUME NEW g \in Servers
               PROVE  LastCommand(g)'
    BY DEF CommandInv
  <2>1. \A n \in Seqs : n > sn[g] => ask'[<<g, n>>].st = "idle" /\ n \notin live'[g]
    <3>1. live'[g] \subseteq live[g]
      BY DEF Quiet
    <3> QED BY <1>2, <1>3, <3>1 DEF ClientInv, CommandInv, LastCommand
  <2>2. phase[g] \in {"wait", "again"} \/ (stage[g] = "add" /\ job[g].kind = "transfer")
          => sn[g] >= 1
    BY DEF ClientInv, CommandInv, LastCommand
  <2>3. phase[g] = "wait" /\ ask'[<<g, sn[g]>>].st # "idle"
         => ask'[<<g, sn[g]>>].req = Command(stage[g], job[g])
    BY <1>2, <1>3, <2>2 DEF ClientInv, CommandInv, LastCommand
  <2>4. Command(stage[g], job[g])' = Command(stage[g], job[g])
    BY <1>1 DEF Command, Net
  <2> HIDE DEF Command
  <2> QED BY <1>1, <2>1, <2>2, <2>3, <2>4 DEF LastCommand
<1>8. RepeatInv'
  <2>1. \A g \in Servers : FirstAdd(g)' = FirstAdd(g)
    BY <1>1 DEF FirstAdd
  <2> HIDE DEF FirstAdd
  <2> QED BY <1>1, <1>2, <1>3, <2>1 DEF ClientInv, RepeatInv
<1>9. PaidFirst'
  <2> SUFFICES ASSUME NEW g \in Servers,
                      stage[g] = "add" /\ phase[g] = "send" /\ tries[g] = 0
                      /\ job[g].kind = "transfer"
               PROVE  /\ ask'[<<g, sn[g]>>].st = "done"
                      /\ ask'[<<g, sn[g]>>].ret = "success"
                      /\ ask'[<<g, sn[g]>>].req = Command("cost", job[g])'
    BY <1>1 DEF PaidFirst
  <2>1. /\ ask[<<g, sn[g]>>].st = "done" /\ ask[<<g, sn[g]>>].ret = "success"
        /\ ask[<<g, sn[g]>>].req = Command("cost", job[g])
    BY DEF ClientInv, PaidFirst
  <2>2. Command("cost", job[g])' = Command("cost", job[g])
    BY <1>1 DEF Command, Net
  <2>3. sn[g] \in Seqs
    BY <1>3 DEF ClientInv, CommandInv, LastCommand
  <2> QED BY <1>2, <1>3, <2>1, <2>2, <2>3
<1>10. ThereInv'
  <2> HIDE DEF Commands
  <2> QED BY <1>1, <1>2 DEF ClientInv, ThereInv, Quiet
<1> QED BY <1>4, <1>5, <1>6, <1>7, <1>8, <1>9, <1>10 DEF ClientInv

(* One more job leaves room for the commands of one more job. *)
LEMMA RoomGrows ==
  ASSUME TypeOK, jobs' = jobs + 1
  PROVE  /\ jobs' * (3 + MaxTries) = jobs * (3 + MaxTries) + 3 + MaxTries
         /\ jobs * (3 + MaxTries) \in Nat
<1> DEFINE B == 3 + MaxTries
<1>1. jobs \in Nat /\ B \in Nat /\ MaxTries \in Nat
  BY CacheClientAssumption DEF TypeOK
<1>2. (jobs + 1) * B = jobs * B + B /\ jobs * B \in Nat
  <2> HIDE DEF B
  <2> QED BY <1>1
<1>3. jobs' * B = jobs * B + B
  BY <1>2
<1> QED BY <1>1, <1>2, <1>3

LEMMA StartKeepsClient ==
  ASSUME ClientInv, NEW g \in Servers, NEW j \in Jobs, Start(g, j)
  PROVE  ClientInv'
<1> USE DEF storeVars, taskVars, history, bounds
<1>1. j \in Job /\ MaxTries \in Nat /\ MaxJobs \in Nat /\ j.amt \in Nat /\ j.kind \in Kinds
  BY CacheClientAssumption DEF Job
<1>2. /\ phase[g] = "idle" /\ stage[g] = "none" /\ tries[g] = 0
      /\ job' = [job EXCEPT ![g] = j] /\ phase' = [phase EXCEPT ![g] = "send"]
      /\ stage' = [stage EXCEPT ![g] = First(j.kind)]
      /\ jobs < MaxJobs /\ jobs' = jobs + 1
      /\ UNCHANGED <<storeVars, conn, live, sn, tries, taken, crashed, faults>>
  BY DEF Start, ClientInv, ThreadInv
<1>3. /\ First(j.kind) \in {"get", "all", "add"}
      /\ First(j.kind) = "get" <=> j.kind = "transfer"
      /\ First(j.kind) = "all" <=> j.kind = "take"
      /\ First(j.kind) = "add" <=> j.kind = "give"
  BY <1>1 DEF First, Kinds
<1>4. TypeOK'
  <2>1. given' \in Nat
    BY <1>1 DEF Start, ClientInv, TypeOK
  <2> HIDE DEF First
  <2> QED BY <1>1, <1>2, <1>3, <2>1 DEF ClientInv, TypeOK
<1>5. ThreadInv'
  <2> HIDE DEF First
  <2> QED BY <1>2, <1>3 DEF ClientInv, ThreadInv, TypeOK
<1>6. ClosedInv'
  BY <1>2 DEF ClientInv, ClosedInv, TypeOK
<1>7. SequenceInv'
  <2>1. \A h \in Servers \ {g} : Left(h)' = Left(h)
    BY <1>2 DEF Left, ClientInv, TypeOK
  <2>2. Left(g)' <= 3 + MaxTries /\ Left(g)' \in Nat /\ Left(g) = 0
    <3> HIDE DEF First
    <3> QED BY <1>1, <1>2, <1>3 DEF Left, ClientInv, TypeOK
  <2>3. \A h \in Servers : sn[h] \in Nat /\ Left(h) \in Nat
    BY SequenceFacts DEF ClientInv
  <2>4. /\ jobs' * (3 + MaxTries) = jobs * (3 + MaxTries) + 3 + MaxTries
        /\ jobs * (3 + MaxTries) \in Nat
    BY <1>2, RoomGrows DEF ClientInv
  <2> DEFINE m == jobs * (3 + MaxTries)
             n == jobs' * (3 + MaxTries)
  <2>5. \A h \in Servers : sn[h] + Left(h) <= m
    BY DEF ClientInv, SequenceInv
  <2>6. n = m + 3 + MaxTries /\ m \in Nat
    BY <2>4
  <2> HIDE DEF m, n, Left
  <2>7. \A h \in Servers : sn[h] + Left(h)' <= n
    BY <1>1, <2>1, <2>2, <2>3, <2>5, <2>6
  <2> QED BY <1>2, <2>7 DEF SequenceInv, n
<1>8. CommandInv'
  <2> SUFFICES ASSUME NEW h \in Servers PROVE LastCommand(h)'
    BY DEF CommandInv
  <2>1. LastCommand(h)
    BY DEF ClientInv, CommandInv
  <2>2. CASE h # g
    <3> HIDE DEF First
    <3>1. Command(stage[h], job[h])' = Command(stage[h], job[h])
      <4>1. stage'[h] = stage[h] /\ job'[h] = job[h]
        BY <1>2, <2>2 DEF ClientInv, TypeOK
      <4> QED BY <4>1 DEF Command, Net
    <3> HIDE DEF Command
    <3> QED BY <1>2, <2>1, <2>2, <3>1 DEF LastCommand, ClientInv, TypeOK
  <2>3. CASE h = g
    <3> HIDE DEF First
    <3> QED BY <1>2, <1>3, <2>1, <2>3 DEF LastCommand, ClientInv, TypeOK
  <2> QED BY <2>2, <2>3
<1>9. RepeatInv'
  <2> SUFFICES ASSUME NEW h \in Servers, stage'[h] = "add", NEW n \in Seqs, n > FirstAdd(h)'
               PROVE  ask[<<h, n>>].st = "idle"
    BY <1>2 DEF RepeatInv
  <2>1. CASE h # g
    BY <1>2, <2>1 DEF ClientInv, TypeOK, RepeatInv, FirstAdd
  <2>2. CASE h = g
    <3>1. n > sn[g] /\ n \in Nat /\ sn[g] \in Nat
      BY <1>2, <2>2, SequenceFacts DEF FirstAdd, ClientInv, TypeOK, Seqs
    <3> QED BY <2>2, <3>1 DEF ClientInv, CommandInv, LastCommand
  <2> QED BY <2>1, <2>2
<1>10. PaidFirst'
  <2> SUFFICES ASSUME NEW h \in Servers,
                      stage'[h] = "add" /\ phase'[h] = "send" /\ tries[h] = 0
                      /\ job'[h].kind = "transfer"
               PROVE  /\ ask[<<h, sn[h]>>].st = "done"
                      /\ ask[<<h, sn[h]>>].ret = "success"
                      /\ ask[<<h, sn[h]>>].req = Command("cost", job[h])'
    BY <1>2 DEF PaidFirst
  <2>1. h # g
    BY <1>2, <1>3 DEF ClientInv, TypeOK
  <2>2. job'[h] = job[h] /\ Command("cost", job[h])' = Command("cost", job[h])
    BY <1>2, <2>1 DEF Command, Net, ClientInv, TypeOK
  <2> QED BY <1>2, <2>1, <2>2 DEF ClientInv, TypeOK, PaidFirst
<1>11. ThereInv'
  <2> HIDE DEF First
  <2> QED BY <1>2, <1>3 DEF ClientInv, ThereInv, TypeOK
<1> QED BY <1>4, <1>5, <1>6, <1>7, <1>8, <1>9, <1>10, <1>11 DEF ClientInv

(* A call of server g returns, after a failed send or while it waits, or   *)
(* the repetition of an addition ends.                                     *)
Back(g, code, v) ==
  /\ phase[g] \in {"send", "wait", "again"} /\ v \in Nat /\ Goes(g, code, v)
  /\ \/ sn' = sn /\ phase[g] # "send"
     \/ sn' = [sn EXCEPT ![g] = @ + 1] /\ phase[g] = "send"
  /\ live' \in [Servers -> SUBSET Seqs]
  /\ \A h \in Servers : live'[h] \subseteq live[h]
  /\ code = "closed" => ~conn[g]
  /\ code = "success" =>
       /\ phase[g] = "wait" /\ ask[<<g, sn[g]>>].st = "done"
       /\ ask[<<g, sn[g]>>].ret = "success" /\ ask[<<g, sn[g]>>].val = v
       /\ sn[g] \in live[g] /\ sn[g] \notin live'[g]
  /\ UNCHANGED <<storeVars, conn, given, crashed, bounds>>

LEMMA BackIs ==
  ASSUME ClientInv, NEW g \in Servers
  PROVE  /\ SendFails(g) => Back(g, "closed", 0)
         /\ TimeOut(g) => Back(g, "timeout", 0)
         /\ ClosedMeanwhile(g) => Back(g, "closed", 0)
         /\ GiveUp(g) => Back(g, "timeout", 0)
         /\ ReadAnswer(g) => \/ \E code, v : Back(g, code, v)
                             \/ Quiet /\ TypeOK'
<1> USE DEF ClientInv
<1> SUFFICES ASSUME TypeOK, ThreadInv
             PROVE  /\ SendFails(g) => Back(g, "closed", 0)
                    /\ TimeOut(g) => Back(g, "timeout", 0)
                    /\ ClosedMeanwhile(g) => Back(g, "closed", 0)
                    /\ GiveUp(g) => Back(g, "timeout", 0)
                    /\ ReadAnswer(g) => \/ \E code, v : Back(g, code, v)
                                        \/ Quiet /\ TypeOK'
  OBVIOUS
<1>1. SendFails(g) => Back(g, "closed", 0)
  BY ReturnsGoes DEF SendFails, Back, TypeOK
<1>2. TimeOut(g) => Back(g, "timeout", 0)
  BY ReturnsGoes DEF TimeOut, Back, TypeOK
<1>3. ClosedMeanwhile(g) => Back(g, "closed", 0)
  BY ReturnsGoes DEF ClosedMeanwhile, Back, TypeOK
<1>4. GiveUp(g) => Back(g, "timeout", 0)
  <2> SUFFICES ASSUME GiveUp(g) PROVE Back(g, "timeout", 0)
    OBVIOUS
  <2>1. phase[g] = "again" /\ taken' = taken /\ Idle(g)
    BY DEF GiveUp, history
  <2>2. Goes(g, "timeout", 0)
    BY <2>1 DEF Goes
  <2> QED BY <2>1, <2>2 DEF GiveUp, Back, history, TypeOK
<1>5. ASSUME ReadAnswer(g)
      PROVE  (\E code, v : Back(g, code, v)) \/ (Quiet /\ TypeOK')
  <2>1. /\ phase[g] = "wait" /\ conn[g]
        /\ UNCHANGED <<storeVars, conn, sn, given, crashed, bounds>>
    BY <1>5 DEF ReadAnswer
  <2>2. PICK n \in Arrived(g) :
          /\ live' = [live EXCEPT ![g] = @ \ {n}]
          /\ IF OwnSequence(g, n)
             THEN Returns(g, ask[<<g, n>>].ret, ask[<<g, n>>].val)
             ELSE UNCHANGED <<taskVars, taken>>
    BY <1>5 DEF ReadAnswer
  <2>3. n \in live[g] /\ ask[<<g, n>>].st = "done" /\ n \in Seqs
    BY DEF Arrived, TypeOK
  <2>4. <<g, n>> \in Commands
    BY <2>3 DEF Commands
  <2>5. ask[<<g, n>>].ret \in {"none", "success", "less"} /\ ask[<<g, n>>].val \in Nat
    <3> HIDE DEF Requests
    <3> QED BY <2>4 DEF TypeOK
  <2>6. live' \in [Servers -> SUBSET Seqs] /\ \A h \in Servers : live'[h] \subseteq live[h]
    BY <2>2 DEF TypeOK
  <2>7. CASE n = sn[g]
    <3>1. Returns(g, ask[<<g, n>>].ret, ask[<<g, n>>].val)
      BY <2>2, <2>7 DEF OwnSequence
    <3>2. Goes(g, ask[<<g, n>>].ret, ask[<<g, n>>].val)
      BY <2>1, <2>5, <3>1, ReturnsGoes
    <3>3. ask[<<g, n>>].ret # "closed"
      BY <2>5
    <3>4. n \notin live'[g]
      BY <2>2 DEF TypeOK
    <3>5. Back(g, ask[<<g, n>>].ret, ask[<<g, n>>].val)
      BY <2>1, <2>3, <2>5, <2>6, <2>7, <3>2, <3>3, <3>4 DEF Back
    <3> QED BY <3>5
  <2>8. CASE n # sn[g]
    <3>1. UNCHANGED <<taskVars, taken>>
      BY <2>2, <2>8 DEF OwnSequence
    <3>2. Quiet
      BY <2>1, <2>6, <3>1 DEF Quiet, storeVars, taskVars, bounds, TypeOK
    <3>3. TypeOK'
      <4> HIDE DEF Requests
      <4> QED BY <2>1, <2>6, <3>1 DEF storeVars, taskVars, bounds, TypeOK
    <3> QED BY <3>2, <3>3
  <2> QED BY <2>7, <2>8
<1> QED BY <1>1, <1>2, <1>3, <1>4, <1>5

LEMMA BackKeepsClient ==
  ASSUME ClientInv, NEW g \in Servers, NEW code, NEW v, Back(g, code, v)
  PROVE  ClientInv'
<1> USE DEF ClientInv, storeVars, bounds
<1>1. /\ UNCHANGED <<val, kept, loose, mode, ask, blind, absent, conn, given, crashed,
                     jobs, faults>>
      /\ \A h \in Servers \ {g} :
           /\ sn'[h] = sn[h] /\ stage'[h] = stage[h] /\ phase'[h] = phase[h]
           /\ job'[h] = job[h] /\ tries'[h] = tries[h]
  BY DEF Back, Goes, Idle, TypeOK
<1>2. /\ sn[g] \in Nat /\ Left(g) \in Nat /\ (phase[g] = "send" => sn[g] + 1 \in Seqs)
      /\ sn[g] >= 1 => sn[g] \in Seqs
  BY SequenceFacts
<1>3. /\ tries[g] \in 0 .. MaxTries /\ MaxTries \in Nat
      /\ stage[g] \in {"get", "cost", "all", "add"}
      /\ job[g] \in Jobs /\ job[g] \in Job
      /\ phase[g] \in {"send", "wait", "again"}
  BY CacheClientAssumption DEF Back, TypeOK, ThreadInv
<1>4. \/ sn'[g] = sn[g] /\ phase[g] # "send"
      \/ sn'[g] = sn[g] + 1 /\ phase[g] = "send"
  BY DEF Back, TypeOK
(* What becomes of the thread. *)
<1>5. \/ /\ stage[g] = "get" /\ code = "success" /\ v > 0 /\ stage'[g] = "cost"
         /\ phase'[g] = "send" /\ tries'[g] = tries[g] /\ job'[g] = job[g]
      \/ /\ stage[g] = "cost" /\ code = "success" /\ stage'[g] = "add"
         /\ phase'[g] = "send" /\ tries'[g] = tries[g] /\ job'[g] = job[g]
      \/ /\ stage[g] = "add" /\ code = "closed" /\ stage'[g] = "add"
         /\ phase'[g] = "again" /\ tries'[g] = tries[g] /\ job'[g] = job[g]
      \/ /\ stage'[g] = "none" /\ phase'[g] = "idle" /\ tries'[g] = 0 /\ job'[g] = None
  BY DEF Back, Goes, Idle, TypeOK
<1>6. code = "success" =>
        /\ phase[g] = "wait" /\ sn[g] \in Seqs /\ <<g, sn[g]>> \in Commands
        /\ ask[<<g, sn[g]>>].st = "done" /\ ask[<<g, sn[g]>>].ret = "success"
        /\ ask[<<g, sn[g]>>].val = v
        /\ ask[<<g, sn[g]>>].req = Command(stage[g], job[g])
  BY <1>2 DEF Back, CommandInv, LastCommand, Commands
<1>7. TypeOK'
  <2>1. sn' \in [Servers -> 0 .. MaxJobs * (3 + MaxTries)]
    BY <1>2 DEF Back, TypeOK, Seqs
  <2>2. taken' \in Nat
    BY DEF Back, Goes, TypeOK
  <2>3. /\ job' \in [Servers -> Job \cup {None}]
        /\ stage' \in [Servers -> {"none", "get", "cost", "all", "add"}]
        /\ phase' \in [Servers -> {"idle", "send", "wait", "again"}]
        /\ tries' \in [Servers -> 0 .. MaxTries]
    BY <1>3 DEF Back, Goes, Idle, TypeOK
  <2>4. live' \in [Servers -> SUBSET Seqs]
    BY DEF Back
  <2> HIDE DEF Requests
  <2> QED BY <1>1, <2>1, <2>2, <2>3, <2>4 DEF TypeOK
<1>8. ThreadInv'
  <2> SUFFICES ASSUME NEW h \in Servers
               PROVE  /\ phase'[h] = "idle" <=> stage'[h] = "none"
                      /\ stage'[h] # "none" => job'[h] \in Jobs
                      /\ stage'[h] \in {"get", "cost"} => job'[h].kind = "transfer"
                      /\ stage'[h] = "all" => job'[h].kind = "take"
                      /\ stage'[h] = "add" => job'[h].kind \in {"transfer", "give"}
                      /\ stage'[h] # "add" => tries'[h] = 0 /\ phase'[h] # "again"
    BY DEF ThreadInv
  <2>1. CASE h = g
    BY <1>3, <1>5, <2>1 DEF ThreadInv
  <2>2. CASE h # g
    BY <1>1, <2>2 DEF ThreadInv
  <2> QED BY <2>1, <2>2
<1>9. ClosedInv'
  <2>1. tries'[g] > 0 \/ phase'[g] = "again" => ~conn[g]
    BY <1>3, <1>5 DEF Back, ClosedInv
  <2> QED BY <1>1, <2>1 DEF ClosedInv
<1>10. SequenceInv'
  <2>1. \A h \in Servers \ {g} : Left(h)' = Left(h)
    BY <1>1 DEF Left
  <2>2. sn'[g] + Left(g)' <= sn[g] + Left(g)
    <3>1. stage[g] # "add" => tries[g] = 0
      BY DEF ThreadInv
    <3>2. code = "success" => phase[g] = "wait"
      BY <1>6
    <3> QED BY <1>2, <1>3, <1>4, <1>5, <3>1, <3>2 DEF Left
  <2>3. jobs * (3 + MaxTries) \in Nat /\ Left(g)' \in Nat /\ sn'[g] \in Nat
    <3>1. jobs * (3 + MaxTries) \in Nat
      BY CacheClientAssumption DEF TypeOK
    <3>2. Left(g)' \in Nat
      BY <1>3, <1>5 DEF Left
    <3> QED BY <1>2, <1>4, <3>1, <3>2
  <2> DEFINE m == jobs * (3 + MaxTries)
  <2>4. \A h \in Servers : sn[h] + Left(h) <= m
    BY DEF SequenceInv
  <2> HIDE DEF m, Left
  <2>5. sn'[g] + Left(g)' <= m
    BY <1>2, <2>2, <2>3, <2>4 DEF m
  <2>6. \A h \in Servers : sn'[h] + Left(h)' <= m
    BY <1>1, <2>1, <2>4, <2>5
  <2> QED BY <1>1, <2>6 DEF SequenceInv, m
<1>11. CommandInv'
  <2> SUFFICES ASSUME NEW h \in Servers PROVE LastCommand(h)'
    BY DEF CommandInv
  <2>1. LastCommand(h) /\ live'[h] \subseteq live[h]
    BY DEF CommandInv, Back
  <2>2. CASE h # g
    <3>1. Command(stage[h], job[h])' = Command(stage[h], job[h])
      <4>1. stage'[h] = stage[h] /\ job'[h] = job[h]
        BY <1>1, <2>2
      <4> QED BY <4>1 DEF Command, Net
    <3> HIDE DEF Command
    <3> QED BY <1>1, <2>1, <2>2, <3>1 DEF LastCommand
  <2>3. CASE h = g
    <3>1. phase'[g] # "wait"
      BY <1>5
    <3>2. \A n \in Seqs : n > sn'[g] => n > sn[g]
      BY <1>2, <1>4 DEF Seqs
    <3>3. phase'[g] = "again" \/ (stage'[g] = "add" /\ job'[g].kind = "transfer")
            => sn'[g] >= 1
      <4>1. stage[g] = "add" /\ phase[g] = "wait" => sn[g] >= 1
        BY <2>1, <2>3 DEF LastCommand
      <4>2. phase[g] = "again" => sn[g] >= 1
        BY <2>1, <2>3 DEF LastCommand
      <4>3. code = "success" => sn[g] >= 1
        BY <1>6, <2>1, <2>3 DEF LastCommand
      <4> QED BY <1>2, <1>3, <1>4, <1>5, <4>1, <4>2, <4>3
    <3> QED BY <1>1, <2>1, <2>3, <3>1, <3>2, <3>3 DEF LastCommand
  <2> QED BY <2>2, <2>3
<1>12. RepeatInv'
  <2> SUFFICES ASSUME NEW h \in Servers, stage'[h] = "add", NEW n \in Seqs, n > FirstAdd(h)'
               PROVE  ask[<<h, n>>].st = "idle"
    BY <1>1 DEF RepeatInv
  <2>1. CASE h # g
    BY <1>1, <2>1 DEF RepeatInv, FirstAdd
  <2>2. CASE h = g /\ stage[g] = "cost"
    <3>1. tries[g] = 0 /\ sn'[g] = sn[g]
      BY <1>3, <1>4, <1>5, <1>6, <2>2 DEF ThreadInv
    <3>2. n > sn[g]
      BY <1>2, <1>5, <2>2, <3>1 DEF FirstAdd, Seqs
    <3> QED BY <2>2, <3>2 DEF CommandInv, LastCommand
  <2>3. CASE h = g /\ stage[g] # "cost"
    <3>1. stage[g] = "add" /\ phase'[g] = "again" /\ tries'[g] = tries[g]
      BY <1>3, <1>5, <2>3
    <3>2. FirstAdd(g)' = FirstAdd(g)
      BY <1>2, <1>3, <1>4, <3>1 DEF FirstAdd
    <3> QED BY <2>3, <3>1, <3>2 DEF RepeatInv
  <2> QED BY <2>1, <2>2, <2>3
<1>13. PaidFirst'
  <2> SUFFICES ASSUME NEW h \in Servers,
                      stage'[h] = "add" /\ phase'[h] = "send" /\ tries'[h] = 0
                      /\ job'[h].kind = "transfer"
               PROVE  /\ ask[<<h, sn'[h]>>].st = "done"
                      /\ ask[<<h, sn'[h]>>].ret = "success"
                      /\ ask[<<h, sn'[h]>>].req = Command("cost", job[h])'
    BY <1>1 DEF PaidFirst
  <2>1. CASE h # g
    <3>1. Command("cost", job[h])' = Command("cost", job[h])
      BY <1>1, <2>1 DEF Command, Net
    <3> QED BY <1>1, <2>1, <3>1 DEF PaidFirst
  <2>2. CASE h = g
    <3>1. stage[g] = "cost" /\ code = "success" /\ job'[g] = job[g]
      BY <1>5, <2>2
    <3>2. sn'[g] = sn[g] /\ ask[<<g, sn[g]>>].req = Command("cost", job[g])
      BY <1>4, <1>6, <3>1
    <3>3. Command("cost", job[g])' = Command("cost", job[g])
      BY <3>1 DEF Command, Net
    <3> QED BY <1>6, <2>2, <3>1, <3>2, <3>3
  <2> QED BY <2>1, <2>2
<1>14. ThereInv'
  <2> SUFFICES ASSUME ~crashed, NEW h \in Servers, stage'[h] = "cost"
               PROVE  job'[h].from \notin absent
    BY <1>1 DEF ThereInv
  <2>1. CASE h # g
    BY <1>1, <2>1 DEF ThereInv
  <2>2. CASE h = g
    <3>1. stage[g] = "get" /\ code = "success" /\ v > 0 /\ job'[g] = job[g]
      BY <1>5, <2>2
    <3>2. Command("get", job[g]) = [op |-> "GET", key |-> job[g].from, amt |-> 0]
      BY <1>3, CommandFacts
    <3> QED BY <1>6, <2>2, <3>1, <3>2 DEF ThereInv
  <2> QED BY <2>1, <2>2
<1> QED BY <1>7, <1>8, <1>9, <1>10, <1>11, <1>12, <1>13, <1>14

LEMMA RepeatKeepsClient ==
  ASSUME ClientInv, NEW g \in Servers, Repeat(g)
  PROVE  ClientInv'
<1> USE DEF ClientInv, storeVars, history, bounds
<1>1. /\ phase[g] = "again" /\ stage[g] = "add" /\ ~conn[g]
      /\ tries[g] \in 0 .. MaxTries /\ tries[g] < MaxTries /\ MaxTries \in Nat
      /\ tries' = [tries EXCEPT ![g] = @ + 1] /\ phase' = [phase EXCEPT ![g] = "send"]
      /\ UNCHANGED <<storeVars, conn, live, sn, job, stage, history, bounds>>
  BY CacheClientAssumption DEF Repeat, ThreadInv, ClosedInv, TypeOK
<1>2. sn[g] \in Nat /\ \A h \in Servers : sn[h] \in Nat
  BY SequenceFacts
<1>3. /\ tries'[g] = tries[g] + 1 /\ phase'[g] = "send" /\ tries'[g] # 0
      /\ \A h \in Servers \ {g} : tries'[h] = tries[h] /\ phase'[h] = phase[h]
  BY <1>1 DEF TypeOK
<1>4. TypeOK'
  <2>1. tries' \in [Servers -> 0 .. MaxTries] /\ phase' \in [Servers -> {"idle", "send", "wait", "again"}]
    BY <1>1 DEF TypeOK
  <2> HIDE DEF Requests
  <2> QED BY <1>1, <2>1 DEF TypeOK
<1>5. ThreadInv'
  BY <1>1, <1>3 DEF ThreadInv
<1>6. ClosedInv'
  BY <1>1, <1>3 DEF ClosedInv
<1>7. SequenceInv'
  <2>1. \A h \in Servers : Left(h)' = Left(h)
    BY <1>1, <1>3 DEF Left
  <2> HIDE DEF Left
  <2> QED BY <1>1, <2>1 DEF SequenceInv
<1>8. CommandInv'
  <2> SUFFICES ASSUME NEW h \in Servers PROVE LastCommand(h)'
    BY DEF CommandInv
  <2>1. LastCommand(h) /\ LastCommand(g)
    BY DEF CommandInv
  <2>2. Command(stage[h], job[h])' = Command(stage[h], job[h])
    BY <1>1 DEF Command, Net
  <2> HIDE DEF Command
  <2> QED BY <1>1, <1>3, <2>1, <2>2 DEF LastCommand
<1>9. RepeatInv'
  <2>1. \A h \in Servers : FirstAdd(h)' = FirstAdd(h)
    BY <1>1, <1>2, <1>3 DEF FirstAdd
  <2> HIDE DEF FirstAdd
  <2> QED BY <1>1, <2>1 DEF RepeatInv
<1>10. PaidFirst'
  <2> SUFFICES ASSUME NEW h \in Servers,
                      stage[h] = "add" /\ phase'[h] = "send" /\ tries'[h] = 0
                      /\ job[h].kind = "transfer"
               PROVE  /\ ask[<<h, sn[h]>>].st = "done"
                      /\ ask[<<h, sn[h]>>].ret = "success"
                      /\ ask[<<h, sn[h]>>].req = Command("cost", job[h])'
    BY <1>1 DEF PaidFirst
  <2>1. h # g
    BY <1>3
  <2>2. Command("cost", job[h])' = Command("cost", job[h])
    BY <1>1 DEF Command, Net
  <2> QED BY <1>3, <2>1, <2>2 DEF PaidFirst
<1>11. ThereInv'
  BY <1>1 DEF ThereInv
<1> QED BY <1>4, <1>5, <1>6, <1>7, <1>8, <1>9, <1>10, <1>11

(* What a command that is sent changes. *)
Sent(g, n, q) ==
  /\ phase[g] = "send" /\ conn[g] /\ tries[g] = 0
  /\ n = sn[g] + 1 /\ n \in Seqs /\ <<g, n>> \in Commands /\ q \in Requests
  /\ q = Command(stage[g], job[g]) /\ ask[<<g, n>>].st = "idle"
  /\ \/ ask' = ask
     \/ ask' = [ask EXCEPT ![<<g, n>>] = [st |-> "open", req |-> q, ret |-> "none",
                                          val |-> 0]]
  /\ sn' = [sn EXCEPT ![g] = n] /\ live' = [live EXCEPT ![g] = @ \cup {n}]
  /\ phase' = [phase EXCEPT ![g] = "wait"]
  /\ UNCHANGED <<val, kept, loose, mode, blind, absent, conn, job, stage, tries,
                 history, bounds>>

LEMMA SendCmdIs ==
  ASSUME ClientInv, NEW g \in Servers, SendCmd(g)
  PROVE  Sent(g, sn[g] + 1, Command(stage[g], job[g]))
<1> USE DEF ClientInv
<1> DEFINE n == sn[g] + 1
           q == Command(stage[g], job[g])
<1>1. /\ phase[g] = "send" /\ conn[g] /\ tries[g] = 0 /\ stage[g] # "none"
      /\ job[g] \in Jobs
  BY DEF SendCmd, ClosedInv, ThreadInv, TypeOK
<1>2. n \in Seqs /\ sn[g] \in Nat
  BY <1>1, SequenceFacts
<1>3. <<g, n>> \in Commands
  BY <1>2 DEF Commands
<1>4. q \in Requests
  <2>1. stage[g] \in {"get", "cost", "all", "add"}
    BY <1>1 DEF TypeOK
  <2> QED BY <1>1, <2>1, CommandFacts
<1>5. ask[<<g, n>>].st = "idle"
  <2>1. n > sn[g] /\ LastCommand(g)
    BY <1>2 DEF CommandInv
  <2> HIDE DEF n
  <2> QED BY <1>2, <2>1 DEF LastCommand
<1>6. /\ \/ ask' = ask
         \/ ask' = [ask EXCEPT ![<<g, n>>] = [st |-> "open", req |-> q, ret |-> "none",
                                              val |-> 0]]
      /\ UNCHANGED <<val, kept, loose, mode, blind, absent>>
  <2> HIDE DEF Requests
  <2> QED BY DEF SendCmd, Cache!Issue, CellsSame, storeVars
<1>7. /\ sn' = [sn EXCEPT ![g] = n] /\ live' = [live EXCEPT ![g] = @ \cup {n}]
      /\ phase' = [phase EXCEPT ![g] = "wait"]
      /\ UNCHANGED <<conn, job, stage, tries, history, bounds>>
  BY DEF SendCmd, TypeOK
<1> QED BY <1>1, <1>2, <1>3, <1>4, <1>5, <1>6, <1>7 DEF Sent

LEMMA SentKeepsClient ==
  ASSUME ClientInv, NEW g \in Servers, NEW n, NEW q, Sent(g, n, q)
  PROVE  ClientInv'
<1> USE DEF ClientInv, history, bounds
<1>1. /\ phase[g] = "send" /\ tries[g] = 0 /\ n = sn[g] + 1 /\ n \in Seqs
      /\ <<g, n>> \in Commands /\ q \in Requests /\ q = Command(stage[g], job[g])
      /\ ask[<<g, n>>].st = "idle" /\ stage[g] # "none" /\ job[g] \in Jobs
      /\ UNCHANGED <<val, kept, loose, mode, blind, absent, conn, job, stage, tries,
                     history, bounds>>
  BY DEF Sent, ThreadInv, TypeOK
<1>2. /\ sn'[g] = n /\ phase'[g] = "wait" /\ live'[g] = live[g] \cup {n}
      /\ \A h \in Servers \ {g} : /\ sn'[h] = sn[h] /\ phase'[h] = phase[h]
                                  /\ live'[h] = live[h]
  BY DEF Sent, TypeOK
<1>3. /\ sn[g] \in Nat /\ n \in Nat /\ Left(g) \in Nat
      /\ \A h \in Servers : sn[h] \in Nat /\ (sn[h] >= 1 => sn[h] \in Seqs)
  BY <1>1, SequenceFacts
<1>4. /\ ask'[<<g, n>>].st \in {"idle", "open"}
      /\ ask'[<<g, n>>].st = "open" => ask'[<<g, n>>].req = q
      /\ \A c \in Commands \ {<<g, n>>} : ask'[c] = ask[c]
  <2> HIDE DEF Requests, Commands
  <2> QED BY <1>1 DEF Sent, TypeOK
<1>5. TypeOK'
  <2>1. [st |-> "open", req |-> q, ret |-> "none", val |-> 0] \in
          [st : {"idle", "open", "done", "lost"}, req : Requests \cup {None},
           ret : {"none", "success", "less"}, val : Nat]
    BY <1>1
  <2>2. /\ ask' \in [Commands -> [st : {"idle", "open", "done", "lost"},
                           req : Requests \cup {None},
                           ret : {"none", "success", "less"}, val : Nat]]
        /\ \A c \in Commands : ask'[c].st # "idle" => ask'[c].req \in Requests
    <3> DEFINE A == [st : {"idle", "open", "done", "lost"}, req : Requests \cup {None},
                     ret : {"none", "success", "less"}, val : Nat]
               e == [st |-> "open", req |-> q, ret |-> "none", val |-> 0]
    <3>1. e \in A /\ ask \in [Commands -> A] /\ (ask' = ask \/ ask' = [ask EXCEPT ![<<g, n>>] = e])
      BY <2>1 DEF Sent, TypeOK
    <3>2. ask' \in [Commands -> A]
      <4> HIDE DEF A, e, Commands
      <4> QED BY <3>1
    <3>3. \A c \in Commands : ask'[c].st # "idle" => ask'[c].req \in Requests
      <4> HIDE DEF Requests, Commands
      <4> QED BY <1>1, <1>4 DEF TypeOK
    <3> QED BY <3>2, <3>3
  <2>3. /\ sn' \in [Servers -> 0 .. MaxJobs * (3 + MaxTries)]
        /\ live' \in [Servers -> SUBSET Seqs]
        /\ phase' \in [Servers -> {"idle", "send", "wait", "again"}]
    BY <1>1 DEF Sent, TypeOK, Seqs
  <2> HIDE DEF Requests
  <2> QED BY <1>1, <2>2, <2>3 DEF TypeOK
<1>6. ThreadInv'
  BY <1>1, <1>2 DEF ThreadInv
<1>7. ClosedInv'
  BY <1>1, <1>2 DEF ClosedInv
<1>8. SequenceInv'
  <2>1. \A h \in Servers \ {g} : Left(h)' = Left(h)
    BY <1>1, <1>2 DEF Left
  <2>2. Left(g)' = Left(g) - 1
    <3>1. stage[g] \in {"get", "cost", "all", "add"} /\ MaxTries \in Nat
      BY <1>1, CacheClientAssumption DEF TypeOK
    <3> QED BY <1>1, <1>2, <3>1 DEF Left
  <2> HIDE DEF Left
  <2>3. \A h \in Servers : sn'[h] + Left(h)' = sn[h] + Left(h)
    BY <1>1, <1>2, <1>3, <2>1, <2>2
  <2> QED BY <1>1, <2>3 DEF SequenceInv
<1>9. CommandInv'
  <2> SUFFICES ASSUME NEW h \in Servers PROVE LastCommand(h)'
    BY DEF CommandInv
  <2>1. LastCommand(h)
    BY DEF CommandInv
  <2>2. Command(stage[h], job[h])' = Command(stage[h], job[h])
    BY <1>1 DEF Command, Net
  <2>3. CASE h # g
    <3>1. \A i \in Seqs : <<h, i>> \in Commands \ {<<g, n>>}
      BY <2>3 DEF Commands
    <3> HIDE DEF Command, Commands, Seqs
    <3> QED BY <1>1, <1>2, <1>3, <1>4, <2>1, <2>2, <2>3, <3>1 DEF LastCommand
  <2>4. CASE h = g
    <3>1. \A i \in Seqs : i > n => /\ <<g, i>> \in Commands \ {<<g, n>>}
                                   /\ i > sn[g] /\ i # n
      BY <1>1, <1>3 DEF Commands, Seqs
    <3>2. \A i \in Seqs : i > n => ask'[<<g, i>>].st = "idle" /\ i \notin live'[g]
      BY <1>2, <1>4, <2>1, <2>4, <3>1 DEF LastCommand
    <3>3. n >= 1
      BY <1>1, <1>3
    <3>4. ask'[<<g, n>>].st # "idle" => ask'[<<g, n>>].req = q
      BY <1>4
    <3> HIDE DEF Command, Commands, Seqs
    <3> QED BY <1>1, <1>2, <2>2, <2>4, <3>2, <3>3, <3>4 DEF LastCommand
  <2> QED BY <2>3, <2>4
<1>10. RepeatInv'
  <2> SUFFICES ASSUME NEW h \in Servers, stage[h] = "add", NEW i \in Seqs, i > FirstAdd(h)'
               PROVE  ask'[<<h, i>>].st = "idle"
    BY <1>1 DEF RepeatInv
  <2>1. CASE h # g
    <3>1. <<h, i>> \in Commands \ {<<g, n>>}
      BY <2>1 DEF Commands
    <3>2. FirstAdd(h)' = FirstAdd(h)
      BY <1>1, <1>2, <2>1 DEF FirstAdd
    <3> QED BY <1>4, <3>1, <3>2 DEF RepeatInv
  <2>2. CASE h = g
    <3>1. i > n /\ i > sn[g]
      BY <1>1, <1>2, <1>3, <2>2 DEF FirstAdd, Seqs
    <3>2. <<g, i>> \in Commands \ {<<g, n>>}
      BY <1>3, <3>1 DEF Commands
    <3> QED BY <1>4, <2>2, <3>1, <3>2 DEF CommandInv, LastCommand
  <2> QED BY <2>1, <2>2
<1>11. PaidFirst'
  <2> SUFFICES ASSUME NEW h \in Servers,
                      stage[h] = "add" /\ phase'[h] = "send" /\ tries[h] = 0
                      /\ job[h].kind = "transfer"
               PROVE  /\ ask'[<<h, sn'[h]>>].st = "done"
                      /\ ask'[<<h, sn'[h]>>].ret = "success"
                      /\ ask'[<<h, sn'[h]>>].req = Command("cost", job[h])'
    BY <1>1 DEF PaidFirst
  <2>1. h # g
    BY <1>2
  <2>2. Command("cost", job[h])' = Command("cost", job[h])
    BY <1>1 DEF Command, Net
  <2>3. sn[h] \in Seqs
    BY <1>2, <1>3, <2>1 DEF CommandInv, LastCommand
  <2>4. ask'[<<h, sn[h]>>] = ask[<<h, sn[h]>>]
    BY <1>4, <2>1, <2>3 DEF Commands
  <2> QED BY <1>2, <2>1, <2>2, <2>4 DEF PaidFirst
<1>12. ThereInv'
  <2> SUFFICES ASSUME ~crashed, NEW c \in Commands
               PROVE  /\ ask'[c].st = "done" /\ ask'[c].req.op = "GET" /\ ask'[c].val > 0
                           => ask'[c].req.key \notin absent
                      /\ ask'[c].st = "open" /\ ask'[c].req.op = "COST"
                           => ask'[c].req.key \notin absent
    BY <1>1 DEF ThereInv
  <2>1. CASE c # <<g, n>>
    BY <1>4, <2>1 DEF ThereInv
  <2>2. CASE c = <<g, n>>
    <3>1. ask'[c].st = "open" => ask'[c].req = q
      BY <1>4, <2>2
    <3>2. q.op = "COST" => stage[g] = "cost" /\ q.key = job[g].from
      <4>1. stage[g] \in {"get", "cost", "all", "add"}
        BY <1>1 DEF TypeOK
      <4>2. /\ Command("get", job[g]).op = "GET" /\ Command("all", job[g]).op = "COST_ALL"
            /\ Command("add", job[g]).op = "ADD"
            /\ Command("cost", job[g]).key = job[g].from
        BY <1>1, CommandFacts
      <4> HIDE DEF Command
      <4> QED BY <1>1, <4>1, <4>2
    <3>3. ask'[c].st # "done"
      BY <1>4, <2>2
    <3> QED BY <3>1, <3>2, <3>3 DEF ThereInv
  <2> QED BY <2>1, <2>2
<1> QED BY <1>5, <1>6, <1>7, <1>8, <1>9, <1>10, <1>11, <1>12

(* The command c has the effect e. *)
Executed(c, k, q, e) ==
  /\ c \in Commands /\ q \in Requests /\ k \in Accounts
  /\ ask[c].st = "open" /\ q = ask[c].req /\ k = q.key
  /\ e = Cache!Effect(q.op, Content(k), q.amt)
  /\ val' = [val EXCEPT ![k] = Cache!Num(e.new)]
  /\ kept' = [kept EXCEPT ![k] = @ \cup {val'[k]}]
  /\ absent' = IF e.new = None THEN absent ELSE absent \ {k}
  /\ ask' = [ask EXCEPT ![c] = [st |-> "done", req |-> q, ret |-> e.ret, val |-> e.val]]
  /\ UNCHANGED <<loose, mode, blind, conn, live, sn, taskVars, history, bounds>>

LEMMA ExecuteIs ==
  ASSUME ClientInv, NEW c \in Commands, Execute(c)
  PROVE  \E k, q, e : Executed(c, k, q, e)
<1> USE DEF ClientInv
<1> DEFINE q == ask[c].req
           k == q.key
           e == Cache!Effect(q.op, Content(k), q.amt)
<1>1. ask[c].st = "open"
  BY DEF Execute
<1>2. q \in Requests
  <2> HIDE DEF Requests
  <2> QED BY <1>1 DEF TypeOK
<1>3. k \in Accounts
  BY <1>2 DEF Requests
<1>4. /\ val' = [val EXCEPT ![k] = Cache!Num(e.new)]
      /\ absent' = (IF e.new = None THEN absent ELSE absent \ {k})
      /\ kept' = [kept EXCEPT ![k] = @ \cup {val'[k]}]
      /\ Cache!Answers(c, e.ret, e.val)
      /\ loose' = {} /\ Cache!Execute(c)
      /\ UNCHANGED <<conn, live, sn, taskVars, history, bounds>>
  BY DEF Execute
<1>5. /\ ask' = [ask EXCEPT ![c] = [st |-> "done", req |-> q, ret |-> e.ret,
                                    val |-> e.val]]
  BY <1>4 DEF Cache!Answers
<1>6. UNCHANGED <<loose, mode, blind>>
  BY <1>4 DEF Cache!Execute, TypeOK
<1> HIDE DEF e, q
<1>7. Executed(c, k, q, e)
  BY <1>1, <1>2, <1>3, <1>4, <1>5, <1>6 DEF Executed, e, q
<1> QED BY <1>7

LEMMA ExecutedEffect ==
  ASSUME ClientInv, NEW c, NEW k, NEW q, NEW e, Executed(c, k, q, e)
  PROVE  /\ e.ret \in {"success", "less"} /\ e.val \in Nat
         /\ Cache!Num(e.new) \in Nat /\ val[k] \in Nat /\ q.amt \in Nat
         /\ e.new = None => k \in absent
         /\ q.op = "ADD" => /\ Cache!Num(e.new) <= val[k] + q.amt
                            /\ e.new # None
         /\ q.op = "COST" /\ e.ret = "success" /\ k \notin absent
              => Cache!Num(e.new) + q.amt <= val[k]
         /\ q.op = "COST_ALL" /\ e.ret = "success"
              => Cache!Num(e.new) + e.val <= val[k]
         /\ q.op # "ADD" => Cache!Num(e.new) <= val[k]
         /\ q.op = "GET" /\ e.val > 0 => k \notin absent
<1> DEFINE old == Content(k)
<1>1. k \in Accounts /\ q \in Requests /\ e = Cache!Effect(q.op, old, q.amt)
  BY DEF Executed
<1>2. val[k] \in Nat /\ None \notin Nat /\ q.amt \in Nat
  BY <1>1, CacheClientAssumption DEF ClientInv, TypeOK, Requests
<1>3. old = IF k \in absent THEN None ELSE val[k]
  BY DEF Content
<1>4. Cache!Num(old) \in Nat /\ Cache!Num(old) <= val[k]
      /\ (k \in absent => Cache!Num(old) = 0)
      /\ old \in Nat \cup {None} /\ (old = None => k \in absent)
  BY <1>2, <1>3 DEF Cache!Num
<1> HIDE DEF old, Cache!Num
<1>5. /\ e.ret \in {"success", "less"} /\ e.val \in Nat
      /\ Cache!Num(e.new) \in Nat
      /\ e.new = None => old = None
      /\ q.op = "ADD" => /\ Cache!Num(e.new) = Cache!Num(old) + q.amt
                         /\ e.new # None
      /\ q.op = "COST" /\ e.ret = "success" /\ old # None
           => Cache!Num(e.new) + q.amt <= Cache!Num(old)
      /\ q.op = "COST_ALL" /\ e.ret = "success"
           => Cache!Num(e.new) + e.val <= Cache!Num(old)
      /\ q.op # "ADD" => Cache!Num(e.new) <= Cache!Num(old)
      /\ q.op = "GET" => e.val = Cache!Num(old)
  BY <1>1, <1>4, EffectFacts
<1> QED BY <1>2, <1>4, <1>5

LEMMA ExecutedKeepsClient ==
  ASSUME ClientInv, NEW c, NEW k, NEW q, NEW e, Executed(c, k, q, e)
  PROVE  ClientInv'
<1> USE DEF ClientInv, taskVars, history, bounds
<1>1. /\ c \in Commands /\ q \in Requests /\ k \in Accounts
      /\ ask[c].st = "open" /\ q = ask[c].req /\ k = q.key
      /\ UNCHANGED <<loose, mode, blind, conn, live, sn, taskVars, history, bounds>>
  BY DEF Executed
<1>2. /\ e.ret \in {"success", "less"} /\ e.val \in Nat /\ Cache!Num(e.new) \in Nat
      /\ (q.op = "GET" /\ e.val > 0 => k \notin absent)
  BY ExecutedEffect
<1>3. absent' \subseteq absent
  BY DEF Executed
<1>4. /\ ask'[c].st = "done" /\ ask'[c].req = q /\ ask'[c].val = e.val
      /\ \A d \in Commands : ask'[d].req = ask[d].req
      /\ \A d \in Commands \ {c} : ask'[d] = ask[d]
  <2> HIDE DEF Requests, Commands
  <2> QED BY <1>1 DEF Executed, TypeOK
<1>5. TypeOK'
  <2> DEFINE A == [st : {"idle", "open", "done", "lost"}, req : Requests \cup {None},
                   ret : {"none", "success", "less"}, val : Nat]
             a == [st |-> "done", req |-> q, ret |-> e.ret, val |-> e.val]
  <2>1. a \in A
    <3> HIDE DEF Requests
    <3> QED BY <1>1, <1>2
  <2>2. ask \in [Commands -> A] /\ ask' = [ask EXCEPT ![c] = a]
    BY DEF Executed, TypeOK
  <2>3. ask' \in [Commands -> A]
    <3> HIDE DEF A, a, Commands
    <3> QED BY <2>1, <2>2
  <2>4. \A d \in Commands : ask'[d].st # "idle" => ask'[d].req \in Requests
    <3> HIDE DEF Requests, Commands
    <3> QED BY <1>1, <1>4 DEF TypeOK
  <2>5. val' \in [Accounts -> Nat] /\ val'[k] \in Nat
    <3> HIDE DEF Cache!Num
    <3> QED BY <1>1, <1>2 DEF Executed, TypeOK
  <2>6. kept' \in [Accounts -> SUBSET Nat]
    <3>1. kept' = [kept EXCEPT ![k] = kept[k] \cup {val'[k]}]
      BY DEF Executed
    <3> QED BY <1>1, <2>5, <3>1 DEF TypeOK
  <2>7. absent' \subseteq Accounts
    BY <1>3 DEF TypeOK
  <2> HIDE DEF Requests
  <2> QED BY <1>1, <2>3, <2>4, <2>5, <2>6, <2>7 DEF TypeOK
<1>6. ThreadInv' /\ ClosedInv' /\ SequenceInv'
  BY <1>1 DEF ThreadInv, ClosedInv, SequenceInv, Left
<1>7. \A h \in Servers : \A n \in Seqs : <<h, n>> \in Commands
  BY DEF Commands
<1>8. \A h \in Servers : sn[h] >= 1 => sn[h] \in Seqs
  BY SequenceFacts
<1>9. \A d \in Commands : ask[d].st # "open" => ask'[d] = ask[d]
  BY <1>1, <1>4
<1>10. CommandInv'
  <2> SUFFICES ASSUME NEW h \in Servers PROVE LastCommand(h)'
    BY DEF CommandInv
  <2>1. LastCommand(h)
    BY DEF CommandInv
  <2>2. Command(stage[h], job[h])' = Command(stage[h], job[h])
    BY <1>1 DEF Command, Net
  <2>3. \A n \in Seqs : n > sn[h] => ask'[<<h, n>>].st = "idle" /\ n \notin live[h]
    <3> HIDE DEF Commands, Seqs
    <3> QED BY <1>7, <1>9, <2>1 DEF LastCommand
  <2>4. phase[h] = "wait" /\ ask'[<<h, sn[h]>>].st # "idle"
          => ask'[<<h, sn[h]>>].req = Command(stage[h], job[h])
    <3> SUFFICES ASSUME phase[h] = "wait", ask'[<<h, sn[h]>>].st # "idle"
                 PROVE  ask'[<<h, sn[h]>>].req = Command(stage[h], job[h])
      OBVIOUS
    <3>1. <<h, sn[h]>> \in Commands
      BY <1>7, <1>8, <2>1 DEF LastCommand
    <3>2. ask[<<h, sn[h]>>].st # "idle"
      BY <1>9, <3>1
    <3> HIDE DEF Command, Commands
    <3> QED BY <1>4, <2>1, <3>1, <3>2 DEF LastCommand
  <2> HIDE DEF Command, Commands, Seqs
  <2> QED BY <1>1, <2>1, <2>2, <2>3, <2>4 DEF LastCommand
<1>11. RepeatInv'
  <2>1. \A h \in Servers : FirstAdd(h)' = FirstAdd(h)
    BY <1>1 DEF FirstAdd
  <2> HIDE DEF FirstAdd, Seqs, Commands
  <2> QED BY <1>1, <1>7, <1>9, <2>1 DEF RepeatInv
<1>12. PaidFirst'
  <2> SUFFICES ASSUME NEW h \in Servers,
                      stage[h] = "add" /\ phase[h] = "send" /\ tries[h] = 0
                      /\ job[h].kind = "transfer"
               PROVE  /\ ask'[<<h, sn[h]>>].st = "done"
                      /\ ask'[<<h, sn[h]>>].ret = "success"
                      /\ ask'[<<h, sn[h]>>].req = Command("cost", job[h])'
    BY <1>1 DEF PaidFirst
  <2>1. Command("cost", job[h])' = Command("cost", job[h])
    BY <1>1 DEF Command, Net
  <2>2. <<h, sn[h]>> \in Commands
    BY <1>7, <1>8 DEF CommandInv, LastCommand
  <2> QED BY <1>9, <2>1, <2>2 DEF PaidFirst
<1>13. ThereInv'
  <2> SUFFICES ASSUME ~crashed
               PROVE  /\ \A d \in Commands :
                           /\ ask'[d].st = "done" /\ ask'[d].req.op = "GET" /\ ask'[d].val > 0
                                => ask'[d].req.key \notin absent'
                           /\ ask'[d].st = "open" /\ ask'[d].req.op = "COST"
                                => ask'[d].req.key \notin absent'
                      /\ \A g \in Servers : stage[g] = "cost" => job[g].from \notin absent'
    BY <1>1 DEF ThereInv
  <2> HIDE DEF Commands
  <2> QED BY <1>1, <1>2, <1>3, <1>4 DEF ThereInv
<1> QED BY <1>5, <1>6, <1>10, <1>11, <1>12, <1>13

-----------------------------------------------------------------------------
(* The gold *)

LEMMA CommandsFinite == IsFiniteSet(Commands)
<1>1. IsFiniteSet(Seqs)
  BY FS_Interval, CacheClientAssumption DEF Seqs
<1> QED BY <1>1, FS_Product, CacheClientAssumption DEF Commands

Amounts ==
  /\ \A c \in Commands : Weight[c] \in Nat
  /\ \A g \in Servers : Held[g] \in Nat
  /\ \A k \in Accounts : val[k] \in Nat /\ Gold[k] \in Nat
  /\ SumOver(val, Accounts) \in Int /\ SumOver(Gold, Accounts) \in Int
  /\ SumOver(Weight, Commands) \in Int /\ SumOver(Held, Servers) \in Int
  /\ taken \in Nat /\ given \in Nat

LEMMA AmountTypes == ClientInv => Amounts
<1> SUFFICES ASSUME ClientInv PROVE Amounts
  OBVIOUS
<1>1. ASSUME NEW c \in Commands PROVE Weight[c] \in Nat
  <2>1. ask[c].val \in Nat /\ (ask[c].st # "idle" => ask[c].req \in Requests)
    <3> HIDE DEF Requests
    <3> QED BY DEF ClientInv, TypeOK
  <2>2. ask[c].st # "idle" => ask[c].req.amt \in Nat
    BY <2>1 DEF Requests
  <2> QED BY <2>1, <2>2 DEF Weight, WeightOf
<1>2. ASSUME NEW g \in Servers PROVE Held[g] \in Nat
  <2>1. CASE stage[g] = "add"
    <3>1. job[g] \in Jobs
      BY <2>1 DEF ClientInv, ThreadInv
    <3>2. Command("add", job[g]).amt \in Nat
      BY <3>1, CommandFacts
    <3> HIDE DEF Command
    <3> QED BY <3>2 DEF Held, HeldBy
  <2>2. CASE stage[g] # "add"
    BY <2>2 DEF Held, HeldBy
  <2> QED BY <2>1, <2>2
<1>3. \A k \in Accounts : val[k] \in Nat /\ Gold[k] \in Nat
  BY CacheClientAssumption DEF ClientInv, TypeOK
<1>4. IsFiniteSet(Accounts) /\ IsFiniteSet(Servers)
  BY CacheClientAssumption
<1>5. SumOver(val, Accounts) \in Int /\ SumOver(Gold, Accounts) \in Int
  <2>1. \A k \in Accounts : val[k] \in Int /\ Gold[k] \in Int
    BY <1>3
  <2> QED BY <1>4, <2>1, SumType
<1>6. SumOver(Weight, Commands) \in Int
  <2>1. \A c \in Commands : Weight[c] \in Int
    BY <1>1
  <2> HIDE DEF Weight
  <2> QED BY <2>1, CommandsFinite, SumType
<1>7. SumOver(Held, Servers) \in Int
  <2>1. \A g \in Servers : Held[g] \in Int
    BY <1>2
  <2> HIDE DEF Held
  <2> QED BY <1>4, <2>1, SumType
<1> QED BY <1>1, <1>2, <1>3, <1>5, <1>6, <1>7 DEF ClientInv, TypeOK, Amounts

LEMMA AmountTypesNext == ClientInv' => Amounts'
BY AmountTypes, PTL

(* If nothing on its way becomes more, its sum does not. *)
LEMMA LessOnItsWay ==
  ASSUME ClientInv, ClientInv'
  PROVE  /\ (\A c \in Commands : WeightOf(c)' <= WeightOf(c))
              => SumOver(Weight, Commands)' <= SumOver(Weight, Commands)
         /\ (\A g \in Servers : HeldBy(g)' <= HeldBy(g))
              => SumOver(Held, Servers)' <= SumOver(Held, Servers)
<1>1. ASSUME \A c \in Commands : WeightOf(c)' <= WeightOf(c)
      PROVE  SumOver(Weight, Commands)' <= SumOver(Weight, Commands)
  <2> DEFINE w == [c \in Commands |-> WeightOf(c)']
  <2>1. Weight' = w
    BY DEF Weight
  <2>2. \A c \in Commands : w[c] \in Int /\ Weight[c] \in Int /\ w[c] <= Weight[c]
    <3>1. \A c \in Commands : Weight'[c] \in Nat
      BY AmountTypesNext DEF Amounts
    <3> HIDE DEF WeightOf
    <3> QED BY <1>1, <2>1, <3>1, AmountTypes DEF Amounts, Weight
  <2> HIDE DEF w, Weight
  <2>3. SumOver(w, Commands) <= SumOver(Weight, Commands)
    BY <2>2, CommandsFinite, SumAtMost
  <2> QED BY <2>1, <2>3
<1>2. ASSUME \A g \in Servers : HeldBy(g)' <= HeldBy(g)
      PROVE  SumOver(Held, Servers)' <= SumOver(Held, Servers)
  <2> DEFINE w == [g \in Servers |-> HeldBy(g)']
  <2>1. Held' = w
    BY DEF Held
  <2>2. \A g \in Servers : w[g] \in Int /\ Held[g] \in Int /\ w[g] <= Held[g]
    <3>1. \A g \in Servers : Held'[g] \in Nat
      BY AmountTypesNext DEF Amounts
    <3> HIDE DEF HeldBy
    <3> QED BY <1>2, <2>1, <3>1, AmountTypes DEF Amounts, Held
  <2>3. IsFiniteSet(Servers)
    BY CacheClientAssumption
  <2> HIDE DEF w, Held
  <2>4. SumOver(w, Servers) <= SumOver(Held, Servers)
    BY <2>2, <2>3, SumAtMost
  <2> QED BY <2>1, <2>4
<1> QED BY <1>1, <1>2

(* If it changes in one place, its sum changes by as much. *)
LEMMA WeightChanges ==
  ASSUME ClientInv, ClientInv', NEW z \in Commands,
         \A c \in Commands \ {z} : WeightOf(c)' = WeightOf(c)
  PROVE  SumOver(Weight, Commands)'
           = SumOver(Weight, Commands) + (WeightOf(z)' - WeightOf(z))
<1> DEFINE w == [c \in Commands |-> WeightOf(c)']
<1>1. Weight' = w
  BY DEF Weight
<1>2. \A c \in Commands : w[c] \in Int /\ Weight[c] \in Int
  <2>1. \A c \in Commands : Weight'[c] \in Nat
    BY AmountTypesNext DEF Amounts
  <2> HIDE DEF w
  <2> QED BY <1>1, <2>1, AmountTypes DEF Amounts
<1>3. \A c \in Commands \ {z} : w[c] = Weight[c]
  BY DEF Weight
<1>4. w[z] = WeightOf(z)' /\ Weight[z] = WeightOf(z)
  BY DEF Weight
<1> HIDE DEF w, Weight, WeightOf
<1>5. SumOver(w, Commands) = SumOver(Weight, Commands) + (w[z] - Weight[z])
  BY <1>2, <1>3, CommandsFinite, SumChange
<1> QED BY <1>1, <1>4, <1>5

LEMMA HeldChanges ==
  ASSUME ClientInv, ClientInv', NEW z \in Servers,
         \A g \in Servers \ {z} : HeldBy(g)' = HeldBy(g)
  PROVE  SumOver(Held, Servers)' = SumOver(Held, Servers) + (HeldBy(z)' - HeldBy(z))
<1> DEFINE w == [g \in Servers |-> HeldBy(g)']
<1>1. Held' = w
  BY DEF Held
<1>2. \A g \in Servers : w[g] \in Int /\ Held[g] \in Int
  <2>1. \A g \in Servers : Held'[g] \in Nat
    BY AmountTypesNext DEF Amounts
  <2> HIDE DEF w
  <2> QED BY <1>1, <2>1, AmountTypes DEF Amounts
<1>3. \A g \in Servers \ {z} : w[g] = Held[g]
  BY DEF Held
<1>4. w[z] = HeldBy(z)' /\ Held[z] = HeldBy(z)
  BY DEF Held
<1>5. IsFiniteSet(Servers)
  BY CacheClientAssumption
<1> HIDE DEF w, Held, HeldBy
<1>6. SumOver(w, Servers) = SumOver(Held, Servers) + (w[z] - Held[z])
  BY <1>2, <1>3, <1>5, SumChange
<1> QED BY <1>1, <1>4, <1>6

(* If besides an answer is read, its gold is no longer on its way. *)
LEMMA OneIsRead ==
  ASSUME ClientInv, ClientInv', NEW z \in Commands, WeightOf(z)' = 0,
         \A c \in Commands : WeightOf(c)' <= WeightOf(c)
  PROVE  SumOver(Weight, Commands)' <= SumOver(Weight, Commands) - WeightOf(z)
<1> DEFINE w == [c \in Commands |-> WeightOf(c)']
           e == [c \in Commands |-> IF c = z THEN 0 ELSE WeightOf(c)]
<1>1. Weight' = w
  BY DEF Weight
<1>2. \A c \in Commands : WeightOf(c) \in Nat /\ WeightOf(c)' \in Nat
  <2>1. \A c \in Commands : Weight'[c] \in Nat
    BY AmountTypesNext DEF Amounts
  <2>2. \A c \in Commands : Weight[c] \in Nat
    BY AmountTypes DEF Amounts
  <2>3. \A c \in Commands : Weight'[c] = w[c] /\ Weight[c] = WeightOf(c)
    BY <1>1 DEF Weight
  <2> HIDE DEF WeightOf, Weight
  <2> QED BY <2>1, <2>2, <2>3
<1> HIDE DEF WeightOf
<1>3. \A c \in Commands : /\ w[c] \in Int /\ e[c] \in Int /\ w[c] <= e[c]
                          /\ Weight[c] \in Int /\ (c # z => e[c] = Weight[c])
  BY <1>2 DEF Weight
<1>4. e[z] = 0 /\ Weight[z] = WeightOf(z)
  BY DEF Weight
<1> HIDE DEF w, e, Weight
<1>5. SumOver(w, Commands) <= SumOver(e, Commands)
  BY <1>3, CommandsFinite, SumAtMost
<1>6. SumOver(e, Commands) = SumOver(Weight, Commands) + (e[z] - Weight[z])
  BY <1>3, CommandsFinite, SumChange
<1>7. /\ SumOver(Weight, Commands) \in Int /\ WeightOf(z) \in Nat
      /\ SumOver(w, Commands) \in Int
  <2>1. SumOver(w, Commands) \in Int /\ SumOver(Weight, Commands) \in Int
    BY <1>3, CommandsFinite, SumType
  <2> QED BY <1>2, <2>1
<1> QED BY <1>1, <1>4, <1>5, <1>6, <1>7

LEMMA QuietMakesNoGold ==
  ASSUME ClientInv, ClientInv', GoldInv, Quiet
  PROVE  GoldInv'
<1> SUFFICES ASSUME ~crashed' PROVE GoldInv'
  BY DEF GoldInv
<1>1. UNCHANGED <<val, taken, given, stage, phase, tries, job>> /\ ~crashed
  BY DEF Quiet
<1>2. \A g \in Servers : HeldBy(g)' <= HeldBy(g)
  <2> SUFFICES ASSUME NEW g \in Servers PROVE HeldBy(g)' <= HeldBy(g)
    OBVIOUS
  <2>1. HeldBy(g)' = HeldBy(g)
    BY <1>1 DEF HeldBy, Command, Net
  <2>2. HeldBy(g) \in Nat
    BY AmountTypes DEF Amounts, Held
  <2> HIDE DEF HeldBy
  <2> QED BY <2>1, <2>2
<1>3. \A c \in Commands : WeightOf(c)' <= WeightOf(c)
  <2> SUFFICES ASSUME NEW c \in Commands PROVE WeightOf(c)' <= WeightOf(c)
    OBVIOUS
  <2>1. WeightOf(c) \in Nat
    BY AmountTypes DEF Amounts, Weight
  <2>2. c[1] \in Servers
    BY DEF Commands
  <2>3. live'[c[1]] \subseteq live[c[1]]
    BY <2>2 DEF Quiet
  <2>4. CASE ask'[c] = ask[c]
    BY <2>1, <2>3, <2>4 DEF WeightOf
  <2>5. CASE ask[c].st = "open" /\ ask'[c] = [ask[c] EXCEPT !.st = "lost"]
    <3>1. ask[c] \in [st : {"idle", "open", "done", "lost"}, req : Requests \cup {None},
                      ret : {"none", "success", "less"}, val : Nat]
      BY DEF ClientInv, TypeOK
    <3>2. ask'[c].st = "lost"
      <4> HIDE DEF Requests
      <4> QED BY <2>5, <3>1
    <3>3. WeightOf(c)' = 0
      BY <3>2 DEF WeightOf
    <3> QED BY <2>1, <3>3
  <2> QED BY <2>4, <2>5 DEF Quiet
<1>4. /\ SumOver(Weight, Commands)' <= SumOver(Weight, Commands)
      /\ SumOver(Held, Servers)' <= SumOver(Held, Servers)
  BY <1>2, <1>3, LessOnItsWay
<1>5. Amounts /\ Amounts'
  BY AmountTypes, AmountTypesNext
<1> QED BY <1>1, <1>4, <1>5 DEF GoldInv, Amounts

LEMMA StartMakesNoGold ==
  ASSUME ClientInv, ClientInv', GoldInv, NEW g \in Servers, NEW j \in Jobs, Start(g, j)
  PROVE  GoldInv'
<1> USE DEF storeVars
<1>1. /\ stage[g] = "none" /\ tries' = tries
      /\ job' = [job EXCEPT ![g] = j] /\ phase' = [phase EXCEPT ![g] = "send"]
      /\ stage' = [stage EXCEPT ![g] = First(j.kind)]
      /\ given' = IF j.kind = "give" THEN given + j.amt ELSE given
      /\ UNCHANGED <<val, ask, live, taken, crashed>>
  BY DEF Start, ClientInv, ThreadInv
<1>2. /\ job'[g] = j /\ stage'[g] = First(j.kind) /\ phase'[g] = "send" /\ tries'[g] = tries[g]
      /\ \A h \in Servers \ {g} : /\ stage'[h] = stage[h] /\ job'[h] = job[h]
                                  /\ phase'[h] = phase[h] /\ tries'[h] = tries[h]
  <2> HIDE DEF First
  <2> QED BY <1>1 DEF ClientInv, TypeOK
<1>3. Weight' = Weight
  BY <1>1 DEF Weight, WeightOf
<1>4. SumOver(Held, Servers)' = SumOver(Held, Servers) + (HeldBy(g)' - HeldBy(g))
  <2>1. \A h \in Servers \ {g} : HeldBy(h)' = HeldBy(h)
    BY <1>2 DEF HeldBy, Command, Net
  <2> HIDE DEF HeldBy
  <2> QED BY <2>1, HeldChanges
<1>5. HeldBy(g) = 0 /\ HeldBy(g)' = IF j.kind = "give" THEN j.amt ELSE 0
  <2>1. HeldBy(g) = 0
    BY <1>1 DEF HeldBy
  <2>2. /\ j.kind = "give" => First(j.kind) = "add"
        /\ j.kind # "give" => First(j.kind) # "add"
    <3>1. j.kind \in {"transfer", "take", "give"}
      BY CacheClientAssumption DEF Job, Kinds
    <3> QED BY <3>1 DEF First
  <2>3. tries[g] = 0
    BY <1>1 DEF ClientInv, ThreadInv
  <2>4. j.kind = "give" => Command("add", j).amt = j.amt
    BY CommandFacts
  <2>5. Command("add", job[g])' = Command("add", j)
    BY <1>2 DEF Command, Net
  <2> HIDE DEF First, Command
  <2>6. HeldBy(g)' = IF stage'[g] = "add" THEN Command("add", j).amt ELSE 0
    BY <1>2, <2>3, <2>5 DEF HeldBy
  <2> QED BY <1>2, <2>1, <2>2, <2>4, <2>6
<1>6. j.amt \in Nat
  BY CommandFacts
<1>7. Amounts /\ Amounts'
  BY AmountTypes, AmountTypesNext
<1> HIDE DEF HeldBy
<1> QED BY <1>1, <1>3, <1>4, <1>5, <1>6, <1>7 DEF GoldInv, Amounts

LEMMA RepeatMakesNoGold ==
  ASSUME ClientInv, ClientInv', GoldInv, NEW g \in Servers, Repeat(g)
  PROVE  GoldInv'
<1> USE DEF storeVars, history
<1>1. /\ phase[g] = "again" /\ tries' = [tries EXCEPT ![g] = @ + 1]
      /\ phase' = [phase EXCEPT ![g] = "send"]
      /\ UNCHANGED <<val, ask, live, job, stage, taken, given, crashed>>
      /\ tries[g] \in Nat
  BY DEF Repeat, ClientInv, TypeOK
<1>2. tries'[g] # 0 /\ \A h \in Servers \ {g} : tries'[h] = tries[h] /\ phase'[h] = phase[h]
  BY <1>1 DEF ClientInv, TypeOK
<1>3. Weight' = Weight
  BY <1>1 DEF Weight, WeightOf
<1>4. \A h \in Servers : HeldBy(h)' = HeldBy(h)
  <2>1. \A h \in Servers : Command("add", job[h])' = Command("add", job[h])
    BY <1>1 DEF Command, Net
  <2> HIDE DEF Command
  <2> QED BY <1>1, <1>2, <2>1 DEF HeldBy
<1>5. Held' = Held
  <2> HIDE DEF HeldBy
  <2> QED BY <1>4 DEF Held
<1> QED BY <1>1, <1>3, <1>5 DEF GoldInv

LEMMA SentMakesNoGold ==
  ASSUME ClientInv, ClientInv', GoldInv, NEW g \in Servers, NEW n, NEW q, Sent(g, n, q)
  PROVE  GoldInv'
<1> DEFINE z == <<g, n>>
<1>1. /\ phase[g] = "send" /\ tries[g] = 0 /\ n \in Seqs /\ z \in Commands
      /\ q \in Requests /\ q = Command(stage[g], job[g]) /\ ask[z].st = "idle"
      /\ UNCHANGED <<val, job, stage, tries, taken, given, crashed>>
  BY DEF Sent, history
<1>2. /\ phase'[g] = "wait" /\ live'[g] = live[g] \cup {n}
      /\ \A h \in Servers \ {g} : phase'[h] = phase[h] /\ live'[h] = live[h]
  BY DEF Sent, ClientInv, TypeOK
<1>3. /\ ask'[z].st \in {"idle", "open"} /\ (ask'[z].st = "open" => ask'[z].req = q)
      /\ \A c \in Commands \ {z} : ask'[c] = ask[c]
  <2> HIDE DEF Requests, Commands
  <2> QED BY <1>1 DEF Sent, ClientInv, TypeOK
<1>4. SumOver(Weight, Commands)' = SumOver(Weight, Commands) + (WeightOf(z)' - WeightOf(z))
  <2>1. ASSUME NEW c \in Commands \ {z} PROVE WeightOf(c)' = WeightOf(c)
    <3>1. c = <<c[1], c[2]>> /\ c[1] \in Servers
      BY DEF Commands
    <3>2. c[2] \in live'[c[1]] <=> c[2] \in live[c[1]]
      <4>1. CASE c[1] = g
        <5>1. c[2] # n
          BY <3>1, <4>1
        <5> QED BY <1>2, <4>1, <5>1
      <4>2. CASE c[1] # g
        BY <1>2, <3>1, <4>2
      <4> QED BY <4>1, <4>2
    <3>3. ask'[c] = ask[c]
      BY <1>3
    <3> QED BY <3>2, <3>3 DEF WeightOf
  <2> HIDE DEF WeightOf, z
  <2> QED BY <1>1, <2>1, WeightChanges
<1>5. SumOver(Held, Servers)' = SumOver(Held, Servers) + (HeldBy(g)' - HeldBy(g))
  <2>1. \A h \in Servers \ {g} : HeldBy(h)' = HeldBy(h)
    BY <1>1, <1>2 DEF HeldBy, Command, Net
  <2> HIDE DEF HeldBy
  <2> QED BY <2>1, HeldChanges
<1>6. WeightOf(z) = 0 /\ HeldBy(g)' = 0
  BY <1>1, <1>2 DEF WeightOf, HeldBy
<1>7. WeightOf(z)' <= HeldBy(g) /\ WeightOf(z)' \in Nat /\ HeldBy(g) \in Nat
  <2>1. q.amt \in Nat
    BY <1>1 DEF Requests
  <2>2. WeightOf(z)' = IF ask'[z].st = "open" /\ q.op = "ADD" THEN q.amt ELSE 0
    BY <1>3 DEF WeightOf
  <2>3. q.op = "ADD" => stage[g] = "add"
    <3>1. stage[g] \in {"get", "cost", "all", "add"} /\ job[g] \in Jobs
      BY <1>1 DEF ClientInv, ThreadInv, TypeOK
    <3>2. /\ Command("get", job[g]).op = "GET" /\ Command("all", job[g]).op = "COST_ALL"
          /\ Command("cost", job[g]).op = "COST"
      BY <3>1, CommandFacts
    <3> HIDE DEF Command
    <3> QED BY <1>1, <3>1, <3>2
  <2>4. stage[g] = "add" => HeldBy(g) = q.amt
    <3> HIDE DEF Command
    <3> QED BY <1>1 DEF HeldBy
  <2>5. HeldBy(g) \in Nat
    BY AmountTypes DEF Amounts, Held
  <2> HIDE DEF HeldBy, WeightOf
  <2> QED BY <2>1, <2>2, <2>3, <2>4, <2>5
<1>8. Amounts /\ Amounts'
  BY AmountTypes, AmountTypesNext
<1> HIDE DEF HeldBy, WeightOf, z
<1> QED BY <1>1, <1>4, <1>5, <1>6, <1>7, <1>8 DEF GoldInv, Amounts

LEMMA ExecutedMakesNoGold ==
  ASSUME ClientInv, ClientInv', GoldInv, NEW c, NEW k, NEW q, NEW e, Executed(c, k, q, e)
  PROVE  GoldInv'
<1> SUFFICES ASSUME ~crashed PROVE GoldInv'
  BY DEF GoldInv, Executed, history
<1>1. /\ c \in Commands /\ q \in Requests /\ k \in Accounts
      /\ ask[c].st = "open" /\ q = ask[c].req /\ k = q.key
      /\ UNCHANGED <<live, job, stage, phase, tries, taken, given, crashed>>
  BY DEF Executed, taskVars, history
<1>2. /\ ask'[c].st = "done" /\ ask'[c].req = q /\ ask'[c].val = e.val /\ ask'[c].ret = e.ret
      /\ \A d \in Commands \ {c} : ask'[d] = ask[d]
  <2> HIDE DEF Requests, Commands
  <2> QED BY <1>1 DEF Executed, ClientInv, TypeOK
<1>3. /\ Cache!Num(e.new) \in Nat /\ val[k] \in Nat /\ q.amt \in Nat /\ e.val \in Nat
      /\ q.op = "ADD" => Cache!Num(e.new) <= val[k] + q.amt
      /\ q.op = "COST" /\ e.ret = "success" /\ k \notin absent
           => Cache!Num(e.new) + q.amt <= val[k]
      /\ q.op = "COST_ALL" /\ e.ret = "success" => Cache!Num(e.new) + e.val <= val[k]
      /\ q.op # "ADD" => Cache!Num(e.new) <= val[k]
  BY ExecutedEffect
<1>4. val'[k] = Cache!Num(e.new) /\ \A i \in Accounts \ {k} : val'[i] = val[i]
  <2> HIDE DEF Cache!Num
  <2> QED BY <1>1 DEF Executed, ClientInv, TypeOK
<1>5. SumOver(val, Accounts)' = SumOver(val, Accounts) + (val'[k] - val[k])
  <2>1. \A i \in Accounts : val[i] \in Int /\ val'[i] \in Int
    BY AmountTypes, AmountTypesNext DEF Amounts
  <2>2. IsFiniteSet(Accounts)
    BY CacheClientAssumption
  <2> DEFINE w == val'
  <2>3. \A i \in Accounts : val[i] \in Int /\ w[i] \in Int
    BY <2>1
  <2>4. \A i \in Accounts \ {k} : w[i] = val[i]
    BY <1>4
  <2> HIDE DEF w
  <2>5. SumOver(w, Accounts) = SumOver(val, Accounts) + (w[k] - val[k])
    <3>1. k \in Accounts
      BY <1>1
    <3>2. \A i \in Accounts : val[i] \in Int
      BY <2>3
    <3> QED BY <2>2, <2>3, <2>4, <3>1, SumChange
  <2> QED BY <2>5 DEF w
<1>6. SumOver(Weight, Commands)' = SumOver(Weight, Commands) + (WeightOf(c)' - WeightOf(c))
  <2>1. \A d \in Commands \ {c} : WeightOf(d)' = WeightOf(d)
    BY <1>1, <1>2 DEF WeightOf
  <2> HIDE DEF WeightOf
  <2> QED BY <1>1, <2>1, WeightChanges
<1>7. Held' = Held
  BY <1>1 DEF Held, HeldBy, Command, Net
<1>8. val'[k] + WeightOf(c)' <= val[k] + WeightOf(c)
  <2>1. WeightOf(c) = IF q.op = "ADD" THEN q.amt ELSE 0
    BY <1>1 DEF WeightOf
  <2>2. WeightOf(c)' = IF e.ret = "success" /\ c[2] \in live[c[1]]
                       THEN IF q.op = "COST" THEN q.amt
                            ELSE IF q.op = "COST_ALL" THEN e.val ELSE 0
                       ELSE 0
    BY <1>1, <1>2 DEF WeightOf
  <2>3. q.op = "COST" => k \notin absent
    BY <1>1 DEF ClientInv, ThereInv
  <2>4. q.op \in {"ADD", "COST", "COST_ALL", "GET"}
    BY <1>1 DEF Requests
  <2> HIDE DEF WeightOf, Cache!Num
  <2> QED BY <1>3, <1>4, <2>1, <2>2, <2>3, <2>4
<1>9. WeightOf(c)' \in Nat /\ WeightOf(c) \in Nat /\ val'[k] \in Nat
  <2>1. Weight[c] \in Nat /\ Weight'[c] \in Nat /\ val'[k] \in Nat
    BY <1>1, AmountTypes, AmountTypesNext DEF Amounts
  <2>2. Weight[c] = WeightOf(c) /\ Weight'[c] = WeightOf(c)'
    <3> HIDE DEF WeightOf
    <3> QED BY <1>1 DEF Weight
  <2> QED BY <2>1, <2>2
<1>10. Amounts /\ Amounts'
  BY AmountTypes, AmountTypesNext
<1> HIDE DEF WeightOf
<1> QED BY <1>1, <1>3, <1>5, <1>6, <1>7, <1>8, <1>9, <1>10 DEF GoldInv, Amounts

LEMMA BackMakesNoGold ==
  ASSUME ClientInv, ClientInv', GoldInv, NEW g \in Servers, NEW code, NEW v,
         Back(g, code, v)
  PROVE  GoldInv'
<1>0. PICK m : m = sn[g]
  OBVIOUS
<1> DEFINE z == <<g, m>>
<1>1. /\ UNCHANGED <<val, ask, given, crashed>> /\ v \in Nat
      /\ \A h \in Servers : live'[h] \subseteq live[h]
      /\ \A h \in Servers \ {g} :
           /\ stage'[h] = stage[h] /\ phase'[h] = phase[h]
           /\ job'[h] = job[h] /\ tries'[h] = tries[h]
  BY DEF Back, Goes, Idle, storeVars, ClientInv, TypeOK
<1>2. \A c \in Commands : WeightOf(c) \in Nat /\ WeightOf(c)' <= WeightOf(c)
  <2> SUFFICES ASSUME NEW c \in Commands
               PROVE  WeightOf(c) \in Nat /\ WeightOf(c)' <= WeightOf(c)
    OBVIOUS
  <2>1. WeightOf(c) \in Nat
    BY AmountTypes DEF Amounts, Weight
  <2>2. c[1] \in Servers
    BY DEF Commands
  <2> QED BY <1>1, <2>1, <2>2 DEF WeightOf
<1>3. HeldBy(g) \in Nat
  BY AmountTypes DEF Amounts, Held
<1>4. \A h \in Servers \ {g} : HeldBy(h)' = HeldBy(h)
  BY <1>1 DEF HeldBy, Command, Net
<1>5. SumOver(Held, Servers)' = SumOver(Held, Servers) + (HeldBy(g)' - HeldBy(g))
  <2> HIDE DEF HeldBy
  <2> QED BY <1>4, HeldChanges
<1>6. SumOver(Weight, Commands)' <= SumOver(Weight, Commands)
  <2> HIDE DEF WeightOf
  <2> QED BY <1>2, LessOnItsWay
<1>7. Amounts /\ Amounts'
  BY AmountTypes, AmountTypesNext
(* An answer that is read is no longer on its way. *)
<1>8. code = "success" => /\ SumOver(Weight, Commands)' <= SumOver(Weight, Commands) - WeightOf(z)
                          /\ z \in Commands /\ phase[g] = "wait" /\ ask[z].val = v
                          /\ ask[z].req = Command(stage[g], job[g])
                          /\ ask[z].st = "done" /\ ask[z].ret = "success"
                          /\ sn[g] \in live[g]
  <2> SUFFICES ASSUME code = "success"
               PROVE  /\ SumOver(Weight, Commands)' <= SumOver(Weight, Commands) - WeightOf(z)
                      /\ z \in Commands /\ phase[g] = "wait" /\ ask[z].val = v
                      /\ ask[z].req = Command(stage[g], job[g])
                      /\ ask[z].st = "done" /\ ask[z].ret = "success"
                      /\ sn[g] \in live[g]
    OBVIOUS
  <2>1. /\ phase[g] = "wait" /\ ask[z].st = "done" /\ ask[z].ret = "success"
        /\ ask[z].val = v /\ sn[g] \in live[g] /\ sn[g] \notin live'[g]
    BY <1>0 DEF Back
  <2>2. sn[g] \in Seqs /\ ask[z].req = Command(stage[g], job[g])
    BY <1>0, <2>1, SequenceFacts DEF ClientInv, CommandInv, LastCommand
  <2>3. z \in Commands
    BY <1>0, <2>2 DEF Commands
  <2>4. WeightOf(z)' = 0
    <3>1. m \notin live'[g] /\ ask'[z].st = "done"
      BY <1>0, <1>1, <2>1
    <3> QED BY <3>1 DEF WeightOf
  <2>5. SumOver(Weight, Commands)' <= SumOver(Weight, Commands) - WeightOf(z)
    <3> HIDE DEF WeightOf, z
    <3> QED BY <1>2, <2>3, <2>4, OneIsRead
  <2> HIDE DEF WeightOf, Command
  <2> QED BY <2>1, <2>2, <2>3, <2>5
<1>9. stage[g] # "none" /\ job[g] \in Jobs
  BY DEF Back, ClientInv, ThreadInv, TypeOK
<1>10. CASE /\ stage[g] = "cost" /\ code = "success"
            /\ stage' = [stage EXCEPT ![g] = "add"]
            /\ phase' = [phase EXCEPT ![g] = "send"]
            /\ UNCHANGED <<job, tries, taken>>
  <2>1. HeldBy(g) = 0
    BY <1>10 DEF HeldBy
  <2>2. HeldBy(g)' <= job[g].amt
    <3>1. /\ Command("add", job[g]).amt <= job[g].amt /\ job[g].amt \in Nat
          /\ Command("add", job[g]).amt \in Nat
      BY <1>9, CommandFacts
    <3>2. Command("add", job[g])' = Command("add", job[g])
      BY <1>10 DEF Command, Net
    <3> HIDE DEF Command
    <3> QED BY <3>1, <3>2 DEF HeldBy
  <2>3. WeightOf(z) = job[g].amt
    <3>1. Command("cost", job[g]) = [op |-> "COST", key |-> job[g].from, amt |-> job[g].amt]
      BY <1>9, CommandFacts
    <3>2. ask[z].req.op = "COST" /\ ask[z].req.amt = job[g].amt
      BY <1>8, <1>10, <3>1
    <3> QED BY <1>0, <1>8, <1>10, <3>2 DEF WeightOf
  <2>4. job[g].amt \in Nat /\ HeldBy(g)' \in Nat
    BY <1>9, CommandFacts, AmountTypesNext DEF Amounts, Held
  <2> HIDE DEF HeldBy, WeightOf, z
  <2> QED BY <1>1, <1>5, <1>7, <1>8, <1>10, <2>1, <2>2, <2>3, <2>4 DEF GoldInv, Amounts
<1>11. CASE /\ Idle(g)
            /\ taken' = IF stage[g] = "all" /\ code = "success" THEN taken + v ELSE taken
  <2>1. HeldBy(g)' = 0
    BY <1>11 DEF Idle, HeldBy, ClientInv, TypeOK
  <2>2. CASE stage[g] = "all" /\ code = "success"
    <3>1. Command("all", job[g]) = [op |-> "COST_ALL", key |-> job[g].from, amt |-> 0]
      BY <1>9, CommandFacts
    <3>2. ask[z].req.op = "COST_ALL"
      BY <1>8, <2>2, <3>1
    <3>3. WeightOf(z) = v
      BY <1>0, <1>8, <2>2, <3>2 DEF WeightOf
    <3> HIDE DEF HeldBy, WeightOf, z
    <3> QED BY <1>1, <1>3, <1>5, <1>7, <1>8, <1>11, <2>1, <2>2, <3>3 DEF GoldInv, Amounts
  <2>3. CASE ~(stage[g] = "all" /\ code = "success")
    <3> HIDE DEF HeldBy, WeightOf, z
    <3> QED BY <1>1, <1>3, <1>5, <1>6, <1>7, <1>11, <2>1, <2>3 DEF GoldInv, Amounts
  <2> QED BY <2>2, <2>3
<1>12. CASE stage[g] = "get" /\ stage' = [stage EXCEPT ![g] = "cost"] /\ taken' = taken
  <2>1. HeldBy(g)' = 0
    BY <1>12 DEF HeldBy, ClientInv, TypeOK
  <2> HIDE DEF HeldBy
  <2> QED BY <1>1, <1>3, <1>5, <1>6, <1>7, <1>12, <2>1 DEF GoldInv, Amounts
<1>13. CASE phase' = [phase EXCEPT ![g] = "again"] /\ taken' = taken
  <2>1. HeldBy(g)' = 0
    BY <1>13 DEF HeldBy, ClientInv, TypeOK
  <2> HIDE DEF HeldBy
  <2> QED BY <1>1, <1>3, <1>5, <1>6, <1>7, <1>13, <2>1 DEF GoldInv, Amounts
<1> QED BY <1>10, <1>11, <1>12, <1>13 DEF Back, Goes

-----------------------------------------------------------------------------
(* Every step *)

LEMMA ClientInit == Init => ClientInv /\ GoldInv
<1> SUFFICES ASSUME Init PROVE ClientInv /\ GoldInv
  OBVIOUS
<1>1. /\ val = Gold /\ kept = [k \in Accounts |-> {Gold[k]}] /\ loose = {} /\ blind = {}
      /\ mode = "on" /\ absent \subseteq Accounts
      /\ ask = [c \in Commands |-> [st |-> "idle", req |-> None, ret |-> "none", val |-> 0]]
      /\ sn = [g \in Servers |-> 0] /\ live = [g \in Servers |-> {}]
      /\ conn = [g \in Servers |-> TRUE]
      /\ job = [g \in Servers |-> None] /\ stage = [g \in Servers |-> "none"]
      /\ phase = [g \in Servers |-> "idle"] /\ tries = [g \in Servers |-> 0]
      /\ taken = 0 /\ given = 0 /\ crashed = FALSE /\ jobs = 0 /\ faults = 0
  BY DEF Init
<1>2. /\ MaxJobs \in Nat /\ MaxTries \in Nat /\ MaxFaults \in Nat
      /\ Gold \in [Accounts -> Nat]
  BY CacheClientAssumption
<1>3. \A c \in Commands : ask[c].st = "idle"
  BY <1>1
<1>4. TypeOK
  <2>1. MaxJobs * (3 + MaxTries) \in Nat
    BY <1>2
  <2>2. [st |-> "idle", req |-> None, ret |-> "none", val |-> 0] \in
          [st : {"idle", "open", "done", "lost"}, req : Requests \cup {None},
           ret : {"none", "success", "less"}, val : Nat]
    OBVIOUS
  <2>3. /\ ask \in [Commands -> [st : {"idle", "open", "done", "lost"},
                           req : Requests \cup {None},
                           ret : {"none", "success", "less"}, val : Nat]]
        /\ \A c \in Commands : ask[c].st # "idle" => ask[c].req \in Requests
    BY <1>1, <1>3, <2>2
  <2>4. /\ sn \in [Servers -> 0 .. MaxJobs * (3 + MaxTries)]
        /\ tries \in [Servers -> 0 .. MaxTries]
        /\ jobs \in 0 .. MaxJobs /\ faults \in 0 .. MaxFaults
    BY <1>1, <1>2, <2>1
  <2>5. /\ live \in [Servers -> SUBSET Seqs] /\ conn \in [Servers -> BOOLEAN]
        /\ job \in [Servers -> Job \cup {None}]
        /\ stage \in [Servers -> {"none", "get", "cost", "all", "add"}]
        /\ phase \in [Servers -> {"idle", "send", "wait", "again"}]
    <3> HIDE DEF Seqs
    <3> QED BY <1>1
  <2>6. /\ val \in [Accounts -> Nat] /\ kept \in [Accounts -> SUBSET Nat]
    BY <1>1, <1>2
  <2> HIDE DEF Requests
  <2> QED BY <1>1, <2>3, <2>4, <2>5, <2>6 DEF TypeOK
<1>5. ThreadInv /\ ClosedInv
  BY <1>1 DEF ThreadInv, ClosedInv
<1>6. SequenceInv
  <2>1. \A g \in Servers : Left(g) = 0
    BY <1>1 DEF Left
  <2>2. jobs * (3 + MaxTries) = 0
    BY <1>1, <1>2
  <2> HIDE DEF Left
  <2> QED BY <1>1, <2>1, <2>2 DEF SequenceInv
<1>7. \A g \in Servers : \A n \in Seqs : <<g, n>> \in Commands
  BY DEF Commands
<1>8. CommandInv
  BY <1>1, <1>3, <1>7 DEF CommandInv, LastCommand
<1>9. RepeatInv /\ PaidFirst
  BY <1>1 DEF RepeatInv, PaidFirst
<1>10. ThereInv
  BY <1>1, <1>3 DEF ThereInv
<1>11. ClientInv
  BY <1>4, <1>5, <1>6, <1>8, <1>9, <1>10 DEF ClientInv
<1>12. SumOver(Weight, Commands) = 0
  <2>1. Weight = [c \in Commands |-> 0]
    BY <1>3 DEF Weight, WeightOf
  <2> QED BY <2>1, CommandsFinite, SumZero
<1>13. SumOver(Held, Servers) = 0
  <2>1. Held = [g \in Servers |-> 0]
    BY <1>1 DEF Held, HeldBy
  <2> QED BY <2>1, SumZero, CacheClientAssumption
<1>14. GoldInv
  <2>1. SumOver(Gold, Accounts) \in Int
    BY <1>11, AmountTypes DEF Amounts
  <2> QED BY <1>1, <1>12, <1>13, <2>1 DEF GoldInv
<1> QED BY <1>11, <1>14

(* A step of the next-state relation is one of those above. *)
LEMMA StepKinds ==
  ASSUME ClientInv, Next
  PROVE  \/ Quiet /\ TypeOK'
         \/ \E g \in Servers : \/ \E j \in Jobs : Start(g, j)
                               \/ \E code, v : Back(g, code, v)
                               \/ Repeat(g)
                               \/ \E n, q : Sent(g, n, q)
         \/ \E c, k, q, e : Executed(c, k, q, e)
<1>1. Quietly => Quiet /\ TypeOK'
  BY QuietlyIsQuiet DEF ClientInv
<1>2. ASSUME NEW g \in Servers,
             SendFails(g) \/ ReadAnswer(g) \/ TimeOut(g) \/ ClosedMeanwhile(g) \/ GiveUp(g)
      PROVE  (\E code, v : Back(g, code, v)) \/ (Quiet /\ TypeOK')
  BY <1>2, BackIs
<1>3. ASSUME NEW g \in Servers, SendCmd(g)
      PROVE  \E n, q : Sent(g, n, q)
  BY <1>3, SendCmdIs
<1>4. ASSUME NEW c \in Commands, Execute(c)
      PROVE  \E k, q, e : Executed(c, k, q, e)
  BY <1>4, ExecuteIs
<1>5. \/ Quietly
      \/ \E g \in Servers :
           \/ \E j \in Jobs : Start(g, j)
           \/ SendFails(g) \/ ReadAnswer(g) \/ TimeOut(g) \/ ClosedMeanwhile(g) \/ GiveUp(g)
           \/ SendCmd(g) \/ Repeat(g)
      \/ \E c \in Commands : Execute(c)
  BY DEF Next, Call, Quietly
<1> QED BY <1>1, <1>2, <1>3, <1>4, <1>5

LEMMA ClientStep == ClientInv /\ GoldInv /\ [Next]_vars => ClientInv' /\ GoldInv'
<1> SUFFICES ASSUME ClientInv, GoldInv, [Next]_vars PROVE ClientInv' /\ GoldInv'
  OBVIOUS
<1>1. CASE Quiet /\ TypeOK'
  BY <1>1, QuietKeepsClient, QuietMakesNoGold
<1>2. ASSUME NEW g \in Servers, NEW j \in Jobs, Start(g, j) PROVE ClientInv' /\ GoldInv'
  BY <1>2, StartKeepsClient, StartMakesNoGold
<1>3. ASSUME NEW g \in Servers, NEW code, NEW v, Back(g, code, v)
      PROVE  ClientInv' /\ GoldInv'
  BY <1>3, BackKeepsClient, BackMakesNoGold
<1>4. ASSUME NEW g \in Servers, Repeat(g) PROVE ClientInv' /\ GoldInv'
  BY <1>4, RepeatKeepsClient, RepeatMakesNoGold
<1>5. ASSUME NEW g \in Servers, NEW n, NEW q, Sent(g, n, q) PROVE ClientInv' /\ GoldInv'
  BY <1>5, SentKeepsClient, SentMakesNoGold
<1>6. ASSUME NEW c, NEW k, NEW q, NEW e, Executed(c, k, q, e) PROVE ClientInv' /\ GoldInv'
  BY <1>6, ExecutedKeepsClient, ExecutedMakesNoGold
<1>7. CASE UNCHANGED vars
  <2>1. /\ UNCHANGED <<val, kept, loose, mode, ask, blind, absent, conn, live, sn, job,
                       stage, phase, tries, taken, given, crashed, jobs, faults>>
    BY <1>7 DEF vars, storeVars, taskVars, history, bounds
  <2>2. TypeOK'
    <3> HIDE DEF Requests
    <3> QED BY <2>1 DEF ClientInv, TypeOK
  <2>3. Quiet
    BY <2>1 DEF Quiet, ClientInv, TypeOK
  <2> QED BY <2>2, <2>3, QuietKeepsClient, QuietMakesNoGold
<1>8. CASE Next
  BY <1>1, <1>2, <1>3, <1>4, <1>5, <1>6, <1>8, StepKinds
<1> QED BY <1>7, <1>8

-----------------------------------------------------------------------------
(* The theorems *)

LEMMA RepeatedOnce == ClientInv => GivenOnce
<1> SUFFICES ASSUME ClientInv, NEW g \in Servers, stage[g] = "add"
             PROVE  Cardinality({n \in Seqs : n \in FirstAdd(g) .. sn[g]
                                              /\ ask[<<g, n>>].st # "idle"}) <= 1
  BY DEF GivenOnce, FirstAdd
<1> DEFINE S == {n \in Seqs : n \in FirstAdd(g) .. sn[g] /\ ask[<<g, n>>].st # "idle"}
<1>1. S \subseteq {FirstAdd(g)}
  <2>1. FirstAdd(g) \in Int
    BY SequenceFacts DEF ClientInv, TypeOK, FirstAdd
  <2>2. \A n \in S : n \in Seqs /\ n \in Int /\ n >= FirstAdd(g) /\ ask[<<g, n>>].st # "idle"
    BY <2>1 DEF Seqs
  <2>3. \A n \in S : ~(n > FirstAdd(g))
    BY <2>2 DEF ClientInv, RepeatInv
  <2> HIDE DEF FirstAdd
  <2> QED BY <2>1, <2>2, <2>3
<1>2. IsFiniteSet({FirstAdd(g)}) /\ Cardinality({FirstAdd(g)}) = 1
  BY FS_Singleton
<1> HIDE DEF S
<1>3. Cardinality(S) <= 1
  BY <1>1, <1>2, FS_Subset
<1> QED BY <1>3 DEF S

(* However commands, answers, time-outs and lost connections interleave,   *)
(* with any number of servers, accounts, jobs and repetitions: the target  *)
(* of a transfer is paid after its charge was executed, and of the         *)
(* additions that give_currency sends for a gift the cache sees one.       *)
THEOREM GiftsPaidAndGivenOnce == Spec => []GiftInv
<1>1. Spec => [](ClientInv /\ GoldInv)
  BY ClientInit, ClientStep, PTL DEF Spec
<1>2. ClientInv => GiftInv
  BY RepeatedOnce DEF GiftInv, ClientInv
<1> QED BY <1>1, <1>2, PTL

(* As long as the cache was not killed, the servers have not taken out or  *)
(* put into the cells more gold than there was and than they were asked to *)
(* give.                                                                   *)
THEOREM GoldIsNotMade == Spec => []NoGoldMade
<1>1. Spec => [](ClientInv /\ GoldInv)
  BY ClientInit, ClientStep, PTL DEF Spec
<1>2. ClientInv /\ GoldInv => NoGoldMade
  <2> SUFFICES ASSUME ClientInv, GoldInv, ~crashed
               PROVE  SumOver(val, Accounts) + taken <= SumOver(Gold, Accounts) + given
    BY DEF NoGoldMade
  <2>1. Amounts
    BY AmountTypes
  <2>2. SumOver(Weight, Commands) >= 0
    <3> DEFINE o == [c \in Commands |-> 0]
    <3>1. SumOver(o, Commands) = 0
      BY CommandsFinite, SumZero
    <3>2. \A c \in Commands : o[c] \in Int /\ Weight[c] \in Int /\ o[c] <= Weight[c]
      BY <2>1 DEF Amounts
    <3> HIDE DEF o, Weight
    <3>3. SumOver(o, Commands) <= SumOver(Weight, Commands)
      BY <3>2, CommandsFinite, SumAtMost
    <3> QED BY <2>1, <3>1, <3>3 DEF Amounts
  <2>3. SumOver(Held, Servers) >= 0
    <3> DEFINE o == [g \in Servers |-> 0]
    <3>1. SumOver(o, Servers) = 0
      BY SumZero, CacheClientAssumption
    <3>2. \A g \in Servers : o[g] \in Int /\ Held[g] \in Int /\ o[g] <= Held[g]
      BY <2>1 DEF Amounts
    <3>3. IsFiniteSet(Servers)
      BY CacheClientAssumption
    <3> HIDE DEF o, Held
    <3>4. SumOver(o, Servers) <= SumOver(Held, Servers)
      BY <3>2, <3>3, SumAtMost
    <3> QED BY <2>1, <3>1, <3>4 DEF Amounts
  <2> QED BY <2>1, <2>2, <2>3 DEF GoldInv, Amounts
<1> QED BY <1>1, <1>2, PTL

-----------------------------------------------------------------------------
(* Types *)

LEMMA TelfeeTypeInit == TelfeeInit => TelfeeTypeOK
BY TelfeeAssumption
   DEF TelfeeInit, TelfeeTypeOK, States, Timers, Entries, AllOff, Zero

(* Switching a timer off and on keeps the timers' type. *)
LEMMA OffType ==
  ASSUME TelfeeTypeOK, NEW m \in Matches, NEW t \in Timers, Fires(m, t)
  PROVE  Off(m, t) \in [Timers -> Nat]
<1>1. armed[m] \in [Timers -> Nat] /\ armed[m][t] > 0
  BY DEF TelfeeTypeOK, Fires
<1> QED BY <1>1 DEF Off

LEMMA ArmType ==
  ASSUME NEW a \in [Timers -> Nat], NEW t \in Timers
  PROVE  Arm(a, t) \in [Timers -> Nat]
BY DEF Arm

(* What each way into a state makes of the match's variables. *)
MatchTypes ==
  /\ state \in [Matches -> States]
  /\ armed \in [Matches -> [Timers -> Nat]]
  /\ seats \in [Matches -> SUBSET Players]
  /\ scores \in [Matches -> SUBSET Players]
  /\ at \in [Players -> Matches \cup {0}]
  /\ ranked \in [Players -> Nat]

LEMMA DoBalanceType ==
  ASSUME TelfeeTypeOK, NEW m \in Matches, DoBalance(m)
  PROVE  /\ scores' \in [Matches -> SUBSET Players]
         /\ at' \in [Players -> Matches \cup {0}]
         /\ ranked' \in [Players -> Nat]
<1>1. \A p \in Players : ranked[p] \in Nat /\ at[p] \in Matches \cup {0}
  BY DEF TelfeeTypeOK
<1> QED BY <1>1 DEF DoBalance, TelfeeTypeOK

LEMMA EnterTypes ==
  ASSUME TelfeeTypeOK, NEW m \in Matches, NEW a \in [Timers -> Nat]
  PROVE  /\ EnterRegister(m, a) => MatchTypes'
         /\ EnterStart(m, a) => /\ state' \in [Matches -> States]
                                /\ armed' \in [Matches -> [Timers -> Nat]]
         /\ EnterBalance(m, a) => MatchTypes'
         /\ EnterEnd(m, a) /\ UNCHANGED seats => MatchTypes'
<1> USE DEF Timers, States
<1>1. \A t \in Timers : Arm(a, t) \in [Timers -> Nat]
  BY ArmType
<1>2. EnterRegister(m, a) => MatchTypes'
  BY <1>1 DEF EnterRegister, Armed, Enter, MatchTypes, TelfeeTypeOK
<1>3. EnterStart(m, a) => /\ state' \in [Matches -> States]
                          /\ armed' \in [Matches -> [Timers -> Nat]]
  BY <1>1 DEF EnterStart, Armed, Enter, TelfeeTypeOK
<1>4. EnterBalance(m, a) => MatchTypes'
  BY <1>1 DEF EnterBalance, Armed, Enter, MatchTypes, TelfeeTypeOK
<1>5. ASSUME EnterEnd(m, a), UNCHANGED seats PROVE MatchTypes'
  <2>1. CASE state[m] = "end"
    BY <1>5, <2>1 DEF EnterEnd, Armed, MatchTypes, TelfeeTypeOK
  <2>2. CASE state[m] # "end"
    <3>1. DoBalance(m) /\ Armed(m, Arm(a, "register")) /\ Enter(m, "end")
      BY <1>5, <2>2 DEF EnterEnd
    <3>2. /\ state' \in [Matches -> States]
          /\ armed' \in [Matches -> [Timers -> Nat]]
      BY <1>1, <3>1 DEF Armed, Enter, TelfeeTypeOK
    <3> QED BY <1>5, <3>1, <3>2, DoBalanceType DEF MatchTypes, TelfeeTypeOK
  <2> QED BY <2>1, <2>2
<1> QED BY <1>2, <1>3, <1>4, <1>5

LEMMA TelfeeTypeStep == TelfeeTypeOK /\ [TelfeeNext]_telfeeVars => TelfeeTypeOK'
<1> SUFFICES ASSUME TelfeeTypeOK, [TelfeeNext]_telfeeVars PROVE TelfeeTypeOK'
  OBVIOUS
<1> USE TelfeeAssumption
<1>1. ASSUME NEW m \in Matches, Fire(m) PROVE TelfeeTypeOK'
  <2>1. \A t \in Timers : Fires(m, t) => Off(m, t) \in [Timers -> Nat]
    BY OffType
  <2>2. CASE FireRegister(m)
    <3>1. Off(m, "register") \in [Timers -> Nat]
      BY <2>1, <2>2 DEF FireRegister, Timers
    <3> QED BY <2>2, <3>1, EnterTypes DEF FireRegister, feeVars, TelfeeTypeOK, MatchTypes
  <2>3. CASE FireStart(m)
    <3>1. Off(m, "start") \in [Timers -> Nat]
      BY <2>1, <2>3 DEF FireStart, Timers
    <3> QED BY <2>3, <3>1, EnterTypes DEF FireStart, feeVars, playVars, TelfeeTypeOK
  <2>4. CASE FireBegin(m)
    <3>1. Off(m, "begin") \in [Timers -> Nat]
      BY <2>1, <2>4 DEF FireBegin, Timers
    <3> QED BY <2>4, <3>1, EnterTypes DEF FireBegin, feeVars, TelfeeTypeOK, MatchTypes
  <2>5. CASE FireEnd(m)
    <3>1. Off(m, "end") \in [Timers -> Nat]
      BY <2>1, <2>5 DEF FireEnd, Timers
    <3> QED BY <2>5, <3>1, EnterTypes DEF FireEnd, feeVars, TelfeeTypeOK, MatchTypes
  <2> QED BY <1>1, <2>2, <2>3, <2>4, <2>5 DEF Fire
<1>2. ASSUME NEW m \in Matches, Update(m) PROVE TelfeeTypeOK'
  <2>1. \A p \in Players : /\ Asks(m, p) \in Entries
                           /\ at[p] \in Matches \cup {0} /\ entered[p] \in Nat
    BY DEF Asks, Entries, TelfeeTypeOK
  <2>2. regs' \in [Matches -> [Players -> Entries]]
    BY <1>2, <2>1 DEF Update, TelfeeTypeOK
  <2>3. at' \in [Players -> Matches \cup {0}] /\ entered' \in [Players -> Nat]
    BY <1>2, <2>1 DEF Update
  <2>4. Sitting(m) \subseteq Players
    BY DEF Sitting, Reached
  <2>5. scores' \in [Matches -> SUBSET Players]
    BY <1>2, <2>4 DEF Update, TelfeeTypeOK
  <2> QED BY <1>2, <2>2, <2>3, <2>5 DEF Update, TelfeeTypeOK, feeVars
<1>3. ASSUME NEW m \in Matches, MatchEnd(m) PROVE TelfeeTypeOK'
  <2>1. armed[m] \in [Timers -> Nat]
    BY DEF TelfeeTypeOK
  <2> QED BY <1>3, <2>1, EnterTypes
          DEF MatchEnd, Message, feeVars, TelfeeTypeOK, MatchTypes
<1>4. ASSUME NEW p \in Players, Cancel(p) PROVE TelfeeTypeOK'
  <2>1. Cardinality({m \in Matches : regs[m][p] # "absent"}) \in Nat
    BY FS_Subset, FS_CardinalityType
  <2>2. Cancelled(p) \in [Matches -> [Players -> Entries]]
    BY DEF Cancelled, Entries, TelfeeTypeOK
  <2> QED BY <1>4, <2>1, <2>2 DEF Cancel, Message, matchVars, playVars, TelfeeTypeOK
<1>5. ASSUME NEW p \in Players, LeaveGame(p) \/ LogOff(p) \/ LogOn(p) PROVE TelfeeTypeOK'
  BY <1>5 DEF LeaveGame, LogOff, LogOn, Message, matchVars, feeVars, playVars, TelfeeTypeOK
<1>6. ASSUME NEW p \in Players, NEW e \in {"agreed", "refused"}, Agree(p, e)
      PROVE  TelfeeTypeOK'
  BY <1>6 DEF Agree, SetEntry, Message, matchVars, feeVars, playVars, TelfeeTypeOK, Entries
<1>7. ASSUME NEW p \in Players, NEW m \in Matches, Register(p, m) \/ EnterGame(p, m)
      PROVE  TelfeeTypeOK'
  <2>1. regs' \in [Matches -> [Players -> Entries]]
    BY <1>7 DEF Register, EnterGame, SetEntry, TelfeeTypeOK, Entries
  <2>2. booked' \in [Players -> Nat]
    BY <1>7 DEF Register, EnterGame, TelfeeTypeOK
  <2>3. msgs' \in 0 .. MaxMsgs
    BY <1>7 DEF Register, EnterGame, Message, TelfeeTypeOK
  <2> QED BY <1>7, <2>1, <2>2, <2>3 DEF Register, EnterGame, matchVars, playVars, TelfeeTypeOK
<1>8. ASSUME NEW p \in Players, NEW m \in Matches, Distribute(p, m) PROVE TelfeeTypeOK'
  <2>1. armed[m] \in [Timers -> Nat]
    BY DEF TelfeeTypeOK
  <2> QED BY <1>8, <2>1, EnterTypes DEF Distribute, Message, feeVars, playVars, TelfeeTypeOK
<1>9. CASE UNCHANGED telfeeVars
  BY <1>9 DEF telfeeVars, matchVars, feeVars, playVars, TelfeeTypeOK
<1> QED BY <1>1, <1>2, <1>3, <1>4, <1>5, <1>6, <1>7, <1>8, <1>9 DEF TelfeeNext

(* The variables keep their types; no timer is switched off twice. *)
THEOREM TelfeeTypeCorrect == TelfeeSpec => []TelfeeTypeOK
BY TelfeeTypeInit, TelfeeTypeStep, PTL DEF TelfeeSpec

-----------------------------------------------------------------------------
(* Counting *)

(* A set of matches that loses or gains at most one. *)
LEMMA CountLess ==
  ASSUME NEW S \in SUBSET Matches, NEW T \in SUBSET S
  PROVE  /\ Cardinality(S) \in Nat /\ Cardinality(T) \in Nat
         /\ Cardinality(T) <= Cardinality(S)
BY FS_Subset, FS_CardinalityType, TelfeeAssumption

LEMMA CountWithout ==
  ASSUME NEW S \in SUBSET Matches, NEW m \in S
  PROVE  Cardinality(S \ {m}) = Cardinality(S) - 1
BY FS_Subset, FS_RemoveElement, TelfeeAssumption

LEMMA CountWith ==
  ASSUME NEW S \in SUBSET Matches, NEW m \in Matches
  PROVE  /\ Cardinality(S \cup {m}) \in Nat
         /\ Cardinality(S \cup {m}) <= Cardinality(S) + 1
<1>1. IsFiniteSet(S) /\ Cardinality(S) \in Nat
  BY FS_Subset, FS_CardinalityType, TelfeeAssumption
<1> QED BY <1>1, FS_AddElement

LEMMA CountNone == Cardinality({}) = 0
BY FS_EmptySet

(* The two promises, for one player. *)
Used(p) == refunded[p] + entered[p] + Cardinality(Registered(p)) <= booked[p]
Prized(p) == ranked[p] + Cardinality(Scored(p)) <= entered[p]

LEMMA Counts ==
  ASSUME TelfeeTypeOK, NEW p \in Players
  PROVE  /\ refunded[p] \in Nat /\ entered[p] \in Nat /\ booked[p] \in Nat
         /\ ranked[p] \in Nat
         /\ Registered(p) \in SUBSET Matches /\ Cardinality(Registered(p)) \in Nat
         /\ Scored(p) \in SUBSET Matches /\ Cardinality(Scored(p)) \in Nat
<1>1. Registered(p) \in SUBSET Matches /\ Scored(p) \in SUBSET Matches
  BY DEF Registered, Scored
<1> QED BY <1>1, CountLess DEF TelfeeTypeOK

(* A step that changes none of the counters of a player, and adds nothing  *)
(* to his registrations or scores. *)
LEMMA UsedSame ==
  ASSUME TelfeeTypeOK, NEW p \in Players, Used(p),
         UNCHANGED <<refunded, entered, booked>>,
         \A m \in Matches : regs'[m][p] # "absent" => regs[m][p] # "absent"
  PROVE  Used(p)'
<1>1. Registered(p)' \subseteq Registered(p)
  BY DEF Registered
<1>2. Cardinality(Registered(p)') <= Cardinality(Registered(p))
  BY <1>1, Counts, CountLess
<1>3. Cardinality(Registered(p)') \in Nat
  BY <1>1, Counts, CountLess
<1> QED BY <1>2, <1>3, Counts DEF Used

LEMMA PrizedSame ==
  ASSUME TelfeeTypeOK, NEW p \in Players, Prized(p), UNCHANGED <<ranked, entered, scores>>
  PROVE  Prized(p)'
BY DEF Prized, Scored

-----------------------------------------------------------------------------
(* Registrations *)

LEMMA UsedUpdate ==
  ASSUME TelfeeTypeOK, NEW m \in Matches, Update(m), NEW p \in Players, Used(p)
  PROVE  Used(p)'
<1>1. /\ regs' = [regs EXCEPT ![m] = [q \in Players |-> Asks(m, q)]]
      /\ entered' = [q \in Players |-> IF q \in Sitting(m) THEN entered[q] + 1
                                       ELSE entered[q]]
      /\ UNCHANGED <<booked, refunded>>
  BY DEF Update, feeVars
<1>2. \A n \in Matches : n # m => regs'[n] = regs[n]
  BY <1>1 DEF TelfeeTypeOK
<1>3. regs'[m][p] = Asks(m, p)
  BY <1>1 DEF TelfeeTypeOK
<1>4. Asks(m, p) # "absent" => regs[m][p] # "absent"
  BY DEF Asks, Erased
<1>5. CASE p \in Sitting(m)
  <2>1. regs[m][p] = "agreed" /\ Asks(m, p) = "absent"
    BY <1>5 DEF Sitting, Asks, Erased
  <2>2. m \in Registered(p) /\ Registered(p)' = Registered(p) \ {m}
    BY <1>2, <1>3, <2>1 DEF Registered
  <2>3. Cardinality(Registered(p)') = Cardinality(Registered(p)) - 1
    BY <2>2, Counts, CountWithout
  <2>4. entered'[p] = entered[p] + 1
    BY <1>1, <1>5
  <2> QED BY <1>1, <2>3, <2>4, Counts DEF Used
<1>6. CASE p \notin Sitting(m)
  <2>1. Registered(p)' \subseteq Registered(p)
    BY <1>2, <1>3, <1>4 DEF Registered
  <2>2. /\ Cardinality(Registered(p)') <= Cardinality(Registered(p))
        /\ Cardinality(Registered(p)') \in Nat
    BY <2>1, Counts, CountLess
  <2>3. entered'[p] = entered[p]
    BY <1>1, <1>6
  <2> QED BY <1>1, <2>2, <2>3, Counts DEF Used
<1> QED BY <1>5, <1>6

LEMMA UsedRegister ==
  ASSUME TelfeeTypeOK, NEW q \in Players, NEW m \in Matches, Register(q, m) \/ EnterGame(q, m),
         NEW p \in Players, Used(p)
  PROVE  Used(p)'
<1>1. /\ regs' = [regs EXCEPT ![m][q] = "fresh"]
      /\ booked' = [booked EXCEPT ![q] = @ + 1]
      /\ UNCHANGED <<refunded, entered>>
  BY DEF Register, EnterGame, SetEntry, playVars
<1>2. CASE p = q
  <2>1. Registered(p)' = Registered(p) \cup {m}
    BY <1>1, <1>2 DEF Registered, TelfeeTypeOK
  <2>2. /\ Cardinality(Registered(p)') <= Cardinality(Registered(p)) + 1
        /\ Cardinality(Registered(p)') \in Nat
    BY <2>1, Counts, CountWith
  <2>3. booked'[p] = booked[p] + 1
    BY <1>1, <1>2 DEF TelfeeTypeOK
  <2> QED BY <1>1, <2>2, <2>3, Counts DEF Used
<1>3. CASE p # q
  <2>1. \A n \in Matches : regs'[n][p] = regs[n][p]
    BY <1>1, <1>3 DEF TelfeeTypeOK
  <2>2. booked'[p] = booked[p]
    BY <1>1, <1>3 DEF TelfeeTypeOK
  <2>3. Registered(p)' = Registered(p)
    BY <2>1 DEF Registered
  <2> QED BY <1>1, <2>2, <2>3 DEF Used
<1> QED BY <1>2, <1>3

LEMMA UsedCancel ==
  ASSUME TelfeeTypeOK, NEW q \in Players, Cancel(q), NEW p \in Players, Used(p)
  PROVE  Used(p)'
<1>1. /\ regs' = [m \in Matches |-> [regs[m] EXCEPT ![q] = "absent"]]
      /\ refunded' = [refunded EXCEPT ![q] = @ + Cardinality(Registered(q))]
      /\ UNCHANGED <<booked, entered>>
  BY DEF Cancel, Cancelled, Registered, playVars
<1>2. CASE p = q
  <2>1. Registered(p)' = {}
    BY <1>1, <1>2 DEF Registered, TelfeeTypeOK
  <2>2. refunded'[p] = refunded[p] + Cardinality(Registered(p))
    BY <1>1, <1>2 DEF TelfeeTypeOK
  <2> QED BY <1>1, <2>1, <2>2, Counts, CountNone DEF Used
<1>3. CASE p # q
  <2>1. \A n \in Matches : regs'[n][p] = regs[n][p]
    BY <1>1, <1>3 DEF TelfeeTypeOK
  <2>2. refunded'[p] = refunded[p]
    BY <1>1, <1>3 DEF TelfeeTypeOK
  <2>3. Registered(p)' = Registered(p)
    BY <2>1 DEF Registered
  <2> QED BY <1>1, <2>2, <2>3 DEF Used
<1> QED BY <1>2, <1>3

LEMMA UsedAgree ==
  ASSUME TelfeeTypeOK, NEW q \in Players, NEW e \in {"agreed", "refused"}, Agree(q, e),
         NEW p \in Players, Used(p)
  PROVE  Used(p)'
<1>1. PICK m \in Matches : regs[m][q] # "absent" /\ regs' = [regs EXCEPT ![m][q] = e]
  BY DEF Agree, SetEntry
<1>2. \A n \in Matches : regs'[n][p] # "absent" => regs[n][p] # "absent"
  BY <1>1 DEF TelfeeTypeOK
<1> QED BY <1>2, UsedSame DEF Agree, feeVars, playVars

LEMMA UsedStep ==
  ASSUME TelfeeTypeOK, [TelfeeNext]_telfeeVars, NEW p \in Players, Used(p)
  PROVE  Used(p)'
<1>1. ASSUME NEW m \in Matches, Fire(m) \/ MatchEnd(m) PROVE Used(p)'
  <2>1. UNCHANGED <<regs, refunded, entered, booked>>
    BY <1>1 DEF Fire, FireRegister, FireStart, FireBegin, FireEnd, MatchEnd,
                feeVars, playVars
  <2> QED BY <2>1, UsedSame
<1>2. ASSUME NEW q \in Players, LeaveGame(q) \/ LogOff(q) \/ LogOn(q) PROVE Used(p)'
  <2>1. UNCHANGED <<regs, refunded, entered, booked>>
    BY <1>2 DEF LeaveGame, LogOff, LogOn, feeVars, playVars
  <2> QED BY <2>1, UsedSame
<1>3. ASSUME NEW q \in Players, NEW m \in Matches, Distribute(q, m) PROVE Used(p)'
  <2>1. UNCHANGED <<regs, refunded, entered, booked>>
    BY <1>3 DEF Distribute, feeVars, playVars
  <2> QED BY <2>1, UsedSame
<1>4. CASE UNCHANGED telfeeVars
  BY <1>4, UsedSame DEF telfeeVars, feeVars, playVars
<1> QED BY <1>1, <1>2, <1>3, <1>4, UsedUpdate, UsedRegister, UsedCancel, UsedAgree
        DEF TelfeeNext

(* A registration of a match is given back, or the player sits down on it, *)
(* or he refuses: for any number of matches, players and messages.         *)
THEOREM FeesUsedOnce == TelfeeSpec => []FeeInv
<1>1. TelfeeInit => FeeInv
  <2>1. ASSUME TelfeeInit, NEW p \in Players PROVE Registered(p) = {}
    BY <2>1 DEF TelfeeInit, Registered
  <2>2. ASSUME TelfeeInit, NEW p \in Players
        PROVE  refunded[p] = 0 /\ entered[p] = 0 /\ booked[p] = 0
    BY <2>2 DEF TelfeeInit, Zero
  <2>3. TelfeeInit => RegistrationUsedOnce
    BY <2>1, <2>2, CountNone DEF RegistrationUsedOnce
  <2> QED BY <2>3, TelfeeTypeInit DEF FeeInv
<1>2. FeeInv /\ [TelfeeNext]_telfeeVars => FeeInv'
  BY TelfeeTypeStep, UsedStep DEF FeeInv, RegistrationUsedOnce, Used
<1> QED BY <1>1, <1>2, PTL DEF TelfeeSpec

-----------------------------------------------------------------------------
(* Results *)

LEMMA PrizedBalance ==
  ASSUME TelfeeTypeOK, NEW m \in Matches, DoBalance(m), UNCHANGED entered,
         NEW p \in Players, Prized(p)
  PROVE  Prized(p)'
<1>1. /\ scores' = [scores EXCEPT ![m] = {}]
      /\ ranked'[p] = IF p \in scores[m] \cap online THEN ranked[p] + 1 ELSE ranked[p]
  BY DEF DoBalance
<1>2. Scored(p)' = Scored(p) \ {m}
  BY <1>1 DEF Scored, TelfeeTypeOK
<1>3. CASE p \in scores[m]
  <2>1. m \in Scored(p)
    BY <1>3 DEF Scored
  <2>2. Cardinality(Scored(p)') = Cardinality(Scored(p)) - 1
    BY <1>2, <2>1, Counts, CountWithout
  <2>3. ranked'[p] = ranked[p] + 1 \/ ranked'[p] = ranked[p]
    BY <1>1
  <2> QED BY <2>2, <2>3, Counts DEF Prized
<1>4. CASE p \notin scores[m]
  <2>1. Scored(p)' = Scored(p)
    BY <1>2, <1>4 DEF Scored
  <2> QED BY <1>1, <1>4, <2>1 DEF Prized
<1> QED BY <1>3, <1>4

LEMMA PrizedEnd ==
  ASSUME TelfeeTypeOK, NEW m \in Matches, NEW a, EnterEnd(m, a), UNCHANGED entered,
         NEW p \in Players, Prized(p)
  PROVE  Prized(p)'
BY PrizedBalance, PrizedSame DEF EnterEnd

LEMMA PrizedUpdate ==
  ASSUME TelfeeTypeOK, NEW m \in Matches, Update(m), NEW p \in Players, Prized(p)
  PROVE  Prized(p)'
<1>1. /\ entered' = [q \in Players |-> IF q \in Sitting(m) THEN entered[q] + 1
                                       ELSE entered[q]]
      /\ UNCHANGED ranked
  BY DEF Update
<1>2. PICK S \in SUBSET (scores[m] \cup Sitting(m)) : scores' = [scores EXCEPT ![m] = S]
  BY DEF Update
<1>3. /\ \A n \in Matches : n # m => scores'[n] = scores[n]
      /\ scores'[m] = S
  BY <1>2 DEF TelfeeTypeOK
<1>4. CASE p \in Sitting(m)
  <2>1. Scored(p)' \subseteq Scored(p) \cup {m}
    BY <1>3 DEF Scored
  <2>2. /\ Cardinality(Scored(p) \cup {m}) \in Nat
        /\ Cardinality(Scored(p) \cup {m}) <= Cardinality(Scored(p)) + 1
    BY Counts, CountWith
  <2>3. /\ Cardinality(Scored(p)') \in Nat
        /\ Cardinality(Scored(p)') <= Cardinality(Scored(p) \cup {m})
    <3>1. Scored(p) \cup {m} \in SUBSET Matches
      BY Counts
    <3> QED BY <2>1, <3>1, CountLess
  <2>4. entered'[p] = entered[p] + 1
    BY <1>1, <1>4
  <2> QED BY <1>1, <2>2, <2>3, <2>4, Counts DEF Prized
<1>5. CASE p \notin Sitting(m)
  <2>1. Scored(p)' \subseteq Scored(p)
    BY <1>2, <1>3, <1>5 DEF Scored
  <2>2. /\ Cardinality(Scored(p)') \in Nat
        /\ Cardinality(Scored(p)') <= Cardinality(Scored(p))
    BY <2>1, Counts, CountLess
  <2>3. entered'[p] = entered[p]
    BY <1>1, <1>5
  <2> QED BY <1>1, <2>2, <2>3, Counts DEF Prized
<1> QED BY <1>4, <1>5

LEMMA PrizedStep ==
  ASSUME TelfeeTypeOK, [TelfeeNext]_telfeeVars, NEW p \in Players, Prized(p)
  PROVE  Prized(p)'
<1>1. ASSUME NEW m \in Matches, Fire(m) PROVE Prized(p)'
  <2>1. CASE FireRegister(m) \/ FireStart(m) \/ FireBegin(m)
    <3>1. UNCHANGED <<ranked, entered, scores>>
      BY <2>1 DEF FireRegister, FireStart, FireBegin, EnterRegister, EnterBalance,
                  playVars
    <3> QED BY <3>1, PrizedSame
  <2>2. CASE FireEnd(m)
    BY <2>2, PrizedEnd DEF FireEnd
  <2> QED BY <1>1, <2>1, <2>2 DEF Fire
<1>2. ASSUME NEW m \in Matches, MatchEnd(m) PROVE Prized(p)'
  BY <1>2, PrizedEnd DEF MatchEnd
<1>3. ASSUME NEW q \in Players,
             \/ Cancel(q) \/ LeaveGame(q) \/ LogOff(q) \/ LogOn(q)
             \/ \E e \in {"agreed", "refused"} : Agree(q, e)
             \/ \E m \in Matches : Register(q, m) \/ EnterGame(q, m) \/ Distribute(q, m)
      PROVE  Prized(p)'
  <2>1. UNCHANGED <<ranked, entered, scores>>
    BY <1>3 DEF Cancel, LeaveGame, LogOff, LogOn, Agree, Register, EnterGame,
                Distribute, matchVars, playVars
  <2> QED BY <2>1, PrizedSame
<1>4. CASE UNCHANGED telfeeVars
  BY <1>4, PrizedSame DEF telfeeVars, matchVars, playVars
<1> QED BY <1>1, <1>2, <1>3, <1>4, PrizedUpdate DEF TelfeeNext

(* A player has no more results, and prizes, than times he sat down,       *)
(* whatever timers and messages end the matches.                           *)
THEOREM PrizedOnce == TelfeeSpec => []PrizedPerEntry
<1>1. TelfeeInit => TelfeeTypeOK /\ PrizedPerEntry
  <2>1. ASSUME TelfeeInit, NEW p \in Players PROVE Scored(p) = {}
    BY <2>1 DEF TelfeeInit, Scored
  <2>2. ASSUME TelfeeInit, NEW p \in Players PROVE ranked[p] = 0 /\ entered[p] = 0
    BY <2>2 DEF TelfeeInit, Zero
  <2>3. TelfeeInit => PrizedPerEntry
    BY <2>1, <2>2, CountNone DEF PrizedPerEntry
  <2> QED BY <2>3, TelfeeTypeInit
<1>2. TelfeeTypeOK /\ PrizedPerEntry /\ [TelfeeNext]_telfeeVars => (TelfeeTypeOK /\ PrizedPerEntry)'
  BY TelfeeTypeStep, PrizedStep DEF PrizedPerEntry, Prized
<1> QED BY <1>1, <1>2, PTL DEF TelfeeSpec
=============================================================================
