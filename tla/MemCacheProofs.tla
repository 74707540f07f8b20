--------------------------- MODULE MemCacheProofs ---------------------------
(***************************************************************************)
(* Theorems about MemCache for every set of keys, rows, clients and        *)
(* requests: type correctness, the agreement of cache and database, that   *)
(* the cache server implements AtomicStore, and the accounts' numeric ids. *)
(***************************************************************************)
EXTENDS MemCacheRefinement, TLAPS

(* What a served command leaves in a cell is a value again. *)
LEMMA PerformType ==
  ASSUME NEW req \in [cl : Clients \cup {None}, op : Ops, key : Keys, amt : Nat],
         NEW old \in Val
  PROVE  Perform(req, old) \in
           [ret : Codes, val : Nat, new : Val, put : Val]
<1> USE ValuesAssumption DEF Val, Num, Outcome, PutIf, Codes
<1>1. Add(old, req.amt) \in [ret : Codes, val : Nat, new : Val, put : Val]
  BY DEF Add
<1>2. Cost(old, req.amt) \in [ret : Codes, val : Nat, new : Val, put : Val]
  BY DEF Cost
<1>3. CostAll(old, req.amt)
        \in [ret : Codes, val : Nat, new : Val, put : Val]
  BY DEF CostAll
<1>4. Set(old, req.amt) \in [ret : Codes, val : Nat, new : Val, put : Val]
  BY DEF Set
<1>5. Get(old) \in [ret : Codes, val : Nat, new : Val, put : Val]
  BY DEF Get
<1> QED BY <1>1, <1>2, <1>3, <1>4, <1>5 DEF Perform, Ops

(* A command that neither saves nor falls into a blind spot of will_save   *)
(* leaves the cell reading as before.                                      *)
LEMMA PerformKeeps ==
  ASSUME NEW req \in [cl : Clients \cup {None}, op : Ops, key : Keys, amt : Nat],
         NEW old \in Val,
         Perform(req, old).put = None,
         ~Unsaved(req, old)
  PROVE  Num(Perform(req, old).new) = Num(old)
<1> USE ValuesAssumption DEF Val, Num, Outcome, PutIf
<1>1. CASE req.op = "ADD"
  <2>1. Perform(req, old) = Add(old, req.amt)
    BY <1>1 DEF Perform
  <2> QED BY <1>1, <2>1 DEF Unsaved, Add
<1>2. CASE req.op = "COST"
  <2>1. Perform(req, old) = Cost(old, req.amt)
    BY <1>2 DEF Perform
  <2>2. CASE old = None
    BY <2>1, <2>2 DEF Cost
  <2>3. CASE old # None /\ old < req.amt
    BY <2>1, <2>3 DEF Cost
  <2>4. CASE old # None /\ ~(old < req.amt)
    <3>1. old \in Nat /\ req.amt \in Nat /\ old - req.amt \in Nat
      BY <2>4
    <3>2. Perform(req, old).put = PutIf(old - req.amt # req.amt, old - req.amt)
      BY <2>1, <2>4 DEF Cost
    <3>3. old - req.amt = req.amt
      BY <3>1, <3>2
    <3>4. old = 2 * req.amt
      BY <3>1, <3>3
    <3> QED BY <1>2, <2>4, <3>4 DEF Unsaved
  <2> QED BY <2>2, <2>3, <2>4
<1>3. CASE req.op = "COST_ALL"
  <2>1. Perform(req, old) = CostAll(old, req.amt)
    BY <1>3 DEF Perform
  <2>2. CASE old = None
    BY <2>1, <2>2 DEF CostAll
  <2>3. CASE old # None /\ old < req.amt
    BY <2>1, <2>3 DEF CostAll
  <2>4. CASE old # None /\ ~(old < req.amt)
    <3>1. Perform(req, old).put = 0
      BY <2>1, <2>4 DEF CostAll
    <3> QED BY <3>1
  <2> QED BY <2>2, <2>3, <2>4
<1>4. CASE req.op = "SET"
  <2>1. Perform(req, old) = Set(old, req.amt)
    BY <1>4 DEF Perform
  <2> QED BY <2>1 DEF Set
<1>5. CASE req.op \notin {"ADD", "COST", "COST_ALL", "SET"}
  <2>1. Perform(req, old) = Get(old)
    BY <1>5 DEF Perform
  <2> QED BY <2>1 DEF Get
<1> QED BY <1>1, <1>2, <1>3, <1>4, <1>5

(* What it queues is what it leaves in the cell. *)
LEMMA PerformPuts ==
  ASSUME NEW req \in [cl : Clients \cup {None}, op : Ops, key : Keys, amt : Nat],
         NEW old \in Val,
         Perform(req, old).put # None
  PROVE  Perform(req, old).new = Perform(req, old).put
<1> USE ValuesAssumption DEF Val, Num, Outcome, PutIf
<1>1. CASE req.op = "ADD"
  <2>1. Perform(req, old) = Add(old, req.amt)
    BY <1>1 DEF Perform
  <2> QED BY <2>1 DEF Add
<1>2. CASE req.op = "COST"
  <2>1. Perform(req, old) = Cost(old, req.amt)
    BY <1>2 DEF Perform
  <2> QED BY <2>1 DEF Cost
<1>3. CASE req.op = "COST_ALL"
  <2>1. Perform(req, old) = CostAll(old, req.amt)
    BY <1>3 DEF Perform
  <2> QED BY <2>1 DEF CostAll
<1>4. CASE req.op = "SET"
  <2>1. Perform(req, old) = Set(old, req.amt)
    BY <1>4 DEF Perform
  <2> QED BY <2>1 DEF Set
<1>5. CASE req.op \notin {"ADD", "COST", "COST_ALL", "SET"}
  <2>1. Perform(req, old) = Get(old)
    BY <1>5 DEF Perform
  <2> QED BY <2>1 DEF Get
<1> QED BY <1>1, <1>2, <1>3, <1>4, <1>5

LEMMA NoValsType == NoVals \in [Keys -> Val]
BY DEF NoVals, Val

LEMMA NumType == \A v \in Val : Num(v) \in Nat
BY DEF Num, Val

(* What Serve assigns, in one place. *)
LEMMA ServeType ==
  ASSUME NEW c \in Clients, NEW cells \in [Keys -> Val],
         NEW lost \in SUBSET Keys, TypeOK, Serve(c, cells, lost)
  PROVE  /\ cell' \in [Keys -> Val]
         /\ qSave' \in [Keys -> Val]
         /\ drift' \subseteq Keys
         /\ call' \in [Clients ->
              [st : Stages, ret : Codes, val : Nat,
               req : [cl : Clients \cup {None}, op : Ops, key : Keys, amt : Nat]]]
<1> DEFINE req == call[c].req
           out == Perform(req, cells[req.key])
<1>1. /\ req \in [cl : Clients \cup {None}, op : Ops, key : Keys, amt : Nat]
      /\ req.key \in Keys
      /\ cells[req.key] \in Val
  BY DEF TypeOK
<1>2. out \in [ret : Codes, val : Nat, new : Val, put : Val]
  BY <1>1, PerformType
<1> HIDE DEF out
<1>3. /\ cell' = [cells EXCEPT ![req.key] = out.new]
      /\ qSave' = IF out.put = None THEN qSave
                  ELSE [qSave EXCEPT ![req.key] = out.put]
      /\ drift' = DriftAfter(lost, req, cells[req.key], out)
      /\ call' = Answer(c, out.ret, out.val)
  BY DEF Serve, out
<1> HIDE DEF req
<1>4. cell' \in [Keys -> Val] /\ qSave' \in [Keys -> Val] /\ drift' \subseteq Keys
  BY <1>1, <1>2, <1>3 DEF TypeOK, DriftAfter, Val
<1>5. call' \in [Clients ->
         [st : Stages, ret : Codes, val : Nat,
          req : [cl : Clients \cup {None}, op : Ops, key : Keys, amt : Nat]]]
  BY <1>2, <1>3 DEF TypeOK, Answer, Stages
<1> QED BY <1>4, <1>5

LEMMA WarmType ==
  ASSUME NEW d \in [Keys -> Val]
  PROVE  /\ WarmCells(d) \in [Keys -> Val]
         /\ WarmDrift(d) \subseteq Keys
         /\ {Num(d[IidOf[r]]) : r \in MainRows} \subseteq Nat
BY KeysAssumption, NumType DEF WarmCells, WarmDrift, Val, Num

LEMMA InitType == Init => TypeOK
<1> SUFFICES ASSUME Init PROVE TypeOK
  OBVIOUS
<1>1. NoCall \in [st : Stages, ret : Codes, val : Nat,
        req : [cl : Clients \cup {None}, op : Ops, key : Keys, amt : Nat]]
  BY KeysAssumption DEF NoCall, Stages, Codes, Ops
<1>2. /\ cell \in [Keys -> Val] /\ drift \subseteq Keys /\ uniq \subseteq Nat
      /\ db \in [Keys -> Val] /\ forced \in [Keys -> Val]
  BY WarmType, ValuesAssumption DEF Init
<1>3. cached \subseteq Rows
  BY KeysAssumption, ValuesAssumption DEF Init
<1>4. /\ call \in [Clients ->
           [st : Stages, ret : Codes, val : Nat,
            req : [cl : Clients \cup {None}, op : Ops, key : Keys, amt : Nat]]]
      /\ img \in [Clients -> [ok : BOOLEAN, row : [Keys -> Val]]]
  BY <1>1, NoValsType DEF Init
<1> QED BY <1>2, <1>3, <1>4, NoValsType DEF Init, TypeOK

(* The type of the calls, written once. *)
CallType ==
  [Clients -> [st : Stages, ret : Codes, val : Nat,
               req : [cl : Clients \cup {None}, op : Ops, key : Keys, amt : Nat]]]

LEMMA CallTypes ==
  ASSUME TypeOK
  PROVE  /\ call \in CallType
         /\ \A c \in Clients : call[c].req.key \in Keys /\ RowOfCall(c) \in Rows
         /\ \A S \in SUBSET Clients : Lose(S) \in CallType
         /\ \A c \in Clients, ret \in Codes, val \in Nat :
              Answer(c, ret, val) \in CallType
         /\ \A c \in Clients, st \in Stages :
              [call EXCEPT ![c].st = st] \in CallType
<1>c. call \in CallType
  BY DEF TypeOK, CallType
<1> USE DEF CallType, Stages
<1>1. \A c \in Clients : call[c].req.key \in Keys /\ RowOfCall(c) \in Rows
  BY <1>c, KeysAssumption DEF RowOfCall
<1>2. \A S \in SUBSET Clients : Lose(S) \in CallType
  BY <1>c DEF Lose
<1>3. \A c \in Clients, ret \in Codes, val \in Nat :
        Answer(c, ret, val) \in CallType
  BY <1>c DEF Answer
<1>4. \A c \in Clients, st \in Stages : [call EXCEPT ![c].st = st] \in CallType
  BY <1>c
<1> QED BY <1>c, <1>1, <1>2, <1>3, <1>4

LEMMA RowImageType ==
  ASSUME TypeOK, NEW r \in Rows
  PROVE  RowImage(r) \in [Keys -> Val]
BY KeysAssumption DEF TypeOK, RowImage, Val, Num

LEMMA NextIidType ==
  ASSUME TypeOK
  PROVE  NextIid \in Nat
<1>1. cell[GenKey] \in Val
  BY KeysAssumption DEF TypeOK
<1>2. Num(cell[GenKey]) \in Nat
  BY <1>1, NumType
<1> QED BY <1>2, ValuesAssumption DEF NextIid

LEMMA WithIidType ==
  ASSUME TypeOK, NEW f \in [Keys -> Val], NEW k \in Keys
  PROVE  WithIid(f, k) \in [Keys -> Val]
<1> DEFINE n == NextIid
           g == [f EXCEPT ![k] = n]
<1>1. n \in Val /\ n + 1 \in Val /\ GenKey \in Keys
  BY NextIidType, KeysAssumption DEF Val
<1> HIDE DEF n
<1>2. g \in [Keys -> Val]
  BY <1>1
<1> HIDE DEF g
<1>3. [g EXCEPT ![GenKey] = n + 1] \in [Keys -> Val]
  BY <1>1, <1>2
<1> QED BY <1>3 DEF WithIid, n, g

LEMMA GrabType ==
  ASSUME TypeOK, Grab
  PROVE  /\ bSave' \in [Keys -> Val] /\ qSave' \in [Keys -> Val]
         /\ call' \in CallType
<1>1. bSave' \in [Keys -> Val] /\ qSave' \in [Keys -> Val]
  <2>1. qSave \in [Keys -> Val]
    BY DEF TypeOK
  <2> QED BY <2>1, NoValsType DEF Grab
<1>2. call' \in CallType
  <2>1. call \in CallType
    BY DEF TypeOK, CallType
  <2>2. ASSUME NEW c \in Clients
        PROVE  [call[c] EXCEPT !.st = "batched"] \in
                 [st : Stages, ret : Codes, val : Nat,
                  req : [cl : Clients \cup {None}, op : Ops, key : Keys,
                         amt : Nat]]
    BY <2>1 DEF CallType, Stages
  <2> QED BY <2>1, <2>2 DEF Grab, CallType
<1> QED BY <1>1, <1>2

LEMMA TypeStep == TypeOK /\ [Next]_vars => TypeOK'
<1> SUFFICES ASSUME TypeOK, [Next]_vars PROVE TypeOK'
  OBVIOUS
<1> USE DEF serverVars, queueVars, dbVars, bounds
<1>c. call \in CallType
  BY CallTypes
<1>1. ASSUME NEW c \in Clients, NEW q \in Requests, Send(c, q) PROVE TypeOK'
  <2>1. q \in Request
    BY ValuesAssumption
  <2>2. call' \in CallType
    BY <1>1, <1>c, <2>1 DEF Send, CallType, Request, Stages, Codes
  <2> QED BY <1>1, <2>2 DEF Send, TypeOK, CallType
<1>2. ASSUME NEW c \in Clients, HandleHit(c) PROVE TypeOK'
  BY <1>2, ServeType DEF HandleHit, TypeOK
<1>3. ASSUME NEW c \in Clients, HandleMiss(c) PROVE TypeOK'
  <2>1. call' \in CallType /\ RowOfCall(c) \in Rows
    BY <1>3, CallTypes DEF HandleMiss, Stages
  <2>2. raced' \subseteq Rows
    BY <1>3, <2>1 DEF HandleMiss, TypeOK
  <2> QED BY <1>3, <2>1, <2>2 DEF HandleMiss, TypeOK, CallType
<1>4. ASSUME NEW c \in Clients, HandleLookup(c) PROVE TypeOK'
  <2>1. call' \in CallType
    BY <1>4, CallTypes DEF HandleLookup
  <2> QED BY <1>4, <2>1 DEF HandleLookup, TypeOK, CallType
<1>5. ASSUME NEW c \in Clients, BindNothing(c) PROVE TypeOK'
  <2>1. call' \in CallType
    BY <1>5, CallTypes DEF BindNothing, BindRefusal, Codes
  <2> QED BY <1>5, <2>1 DEF BindNothing, TypeOK, CallType
<1>6. ASSUME NEW c \in Clients, BindGenerated(c) PROVE TypeOK'
  <2>1. call' \in CallType
    <3>1. call[c].req.amt \in Nat
      BY DEF TypeOK
    <3>2. call' = Answer(c, "success", call[c].req.amt)
      BY <1>6 DEF BindGenerated
    <3> QED BY <3>1, <3>2, CallTypes DEF Codes
  <2>2. call[c].req.key \in Keys /\ NextIid \in Nat /\ GenKey \in Keys
    BY CallTypes, NextIidType, KeysAssumption
  <2>3. cell' \in [Keys -> Val] /\ qSave' \in [Keys -> Val]
    BY <1>6, <2>2, WithIidType DEF BindGenerated, TypeOK
  <2>4. drift' \subseteq Keys
    BY <1>6 DEF BindGenerated, TypeOK
  <2> QED BY <1>6, <2>1, <2>3, <2>4 DEF BindGenerated, TypeOK, CallType
<1>7. ASSUME NEW c \in Clients, BindChosen(c) PROVE TypeOK'
  <2>1. call[c].req.amt \in Nat /\ call[c].req.key \in Keys
    BY DEF TypeOK
  <2>2. call' = Answer(c, "success", call[c].req.amt)
    BY <1>7 DEF BindChosen
  <2>3. call' \in CallType
    BY <2>1, <2>2, CallTypes DEF Codes
  <2>4. /\ cell' \in [Keys -> Val] /\ qSave' \in [Keys -> Val]
        /\ drift' \subseteq Keys /\ uniq' \subseteq Nat
    BY <1>7, <2>1 DEF BindChosen, TypeOK, Val
  <2> QED BY <1>7, <2>3, <2>4 DEF BindChosen, TypeOK, CallType
<1>8. ASSUME NEW c \in Clients, ExecLoad(c) \/ ExecLoadFail(c) PROVE TypeOK'
  <2>1. PICK ok \in BOOLEAN : Executed(c, ok) /\ (faults' = faults \/ Fault)
    BY <1>8 DEF ExecLoad, ExecLoadFail
  <2>2. call' \in CallType
    BY <2>1, CallTypes DEF Executed, Stages
  <2>3. img' \in [Clients -> [ok : BOOLEAN, row : [Keys -> Val]]]
    <3>1. RowImage(RowOfCall(c)) \in [Keys -> Val]
      BY CallTypes, RowImageType
    <3> QED BY <2>1, <3>1, NoValsType DEF Executed, TypeOK
  <2>4. results' \in Seq(Clients)
    BY <2>1 DEF Executed, TypeOK
  <2>5. faults' \in Nat
    BY <2>1 DEF Fault, TypeOK
  <2> QED BY <2>1, <2>2, <2>3, <2>4, <2>5 DEF Executed, TypeOK, CallType
<1>9. ASSUME NEW k \in Keys, ExecSave(k) \/ ExecSaveFail(k) PROVE TypeOK'
  <2>1. CASE ExecSave(k)
    BY <2>1 DEF ExecSave, TypeOK, Val
  <2>2. CASE ExecSaveFail(k)
    <3>1. bSave' \in [Keys -> Val] /\ drift' \subseteq Keys /\ faults' \in Nat
      BY <2>2 DEF ExecSaveFail, Fault, TypeOK, Val
    <3> QED BY <2>2, <3>1 DEF ExecSaveFail, TypeOK
  <2> QED BY <1>9, <2>1, <2>2
<1>10. ASSUME NEW r \in Rows, Evict(r) PROVE TypeOK'
  BY <1>10 DEF Evict, TypeOK, Val
<1>11. CASE FillRow
  <2> DEFINE c == Head(results)
  <2>1. c \in Clients /\ results' \in Seq(Clients)
    BY <1>11 DEF FillRow, TypeOK
  <2>2. RowOfCall(c) \in Rows
    BY <2>1, CallTypes
  <2>3. Filled(c) \in [Keys -> Val]
    BY <2>1 DEF Filled, TypeOK, Val
  <2>4. PICK lost \in SUBSET Keys : Serve(c, Filled(c), lost)
    BY <1>11 DEF FillRow, TypeOK, KeysOf
  <2>5. cached' \subseteq Rows
    BY <1>11, <2>2 DEF FillRow, TypeOK
  <2> HIDE DEF c
  <2>6. /\ cell' \in [Keys -> Val] /\ qSave' \in [Keys -> Val]
        /\ drift' \subseteq Keys /\ call' \in CallType
    BY <2>1, <2>3, <2>4, ServeType DEF CallType
  <2> QED BY <1>11, <2>1, <2>5, <2>6 DEF FillRow, TypeOK, CallType
<1>12. CASE DropResult
  <2>1. Head(results) \in Clients /\ results' \in Seq(Clients)
    BY <1>12 DEF DropResult, TypeOK
  <2>2. call' \in CallType
    BY <1>12, <2>1, CallTypes DEF DropResult
  <2> QED BY <1>12, <2>1, <2>2 DEF DropResult, TypeOK, CallType
<1>13. CASE ApplyReload
  BY <1>13, NoValsType DEF ApplyReload, TypeOK, Val
<1>14. CASE TakeBatch \/ FinalBatch
  BY <1>14, GrabType DEF TakeBatch, FinalBatch, TypeOK, CallType
<1>15. CASE DbGone
  <2>1. call' \in CallType
    BY <1>15, CallTypes DEF DbGone
  <2> QED BY <1>15, <2>1, NoValsType DEF DbGone, Fault, TypeOK, CallType
<1>16. CASE FetchForce
  BY <1>16, NoValsType DEF FetchForce, TypeOK
<1>17. CASE Stop \/ MainFails
  <2>1. faults' \in Nat
    BY <1>17 DEF Stop, MainFails, Fault, TypeOK
  <2> QED BY <1>17, <2>1 DEF Stop, MainFails, TypeOK
<1>18. CASE Halt \/ Crash
  <2>1. call' \in CallType
    BY <1>18, CallTypes DEF Halt, Crash, Open
  <2>2. faults' \in Nat
    BY <1>18 DEF Halt, Crash, Fault, TypeOK
  <2>3. CASE Halt
    BY <2>1, <2>3 DEF Halt, TypeOK, CallType
  <2>4. CASE Crash
    BY <2>1, <2>2, <2>4, NoValsType DEF Crash, TypeOK, CallType
  <2> QED BY <1>18, <2>3, <2>4
<1>19. CASE Restart
  <2>1. cached' \subseteq Rows
    BY <1>19, KeysAssumption, ValuesAssumption DEF Restart
  <2> QED BY <1>19, <2>1, WarmType, NoValsType DEF Restart, TypeOK
<1>20. CASE UNCHANGED vars
  BY <1>20 DEF vars, TypeOK
<1> QED BY <1>1, <1>2, <1>3, <1>4, <1>5, <1>6, <1>7, <1>8, <1>9, <1>10, <1>11,
           <1>12, <1>13, <1>14, <1>15, <1>16, <1>17, <1>18, <1>19, <1>20
        DEF Next, Handle, PollResult

(* The variables keep their types in every execution of the server.        *)
THEOREM TypeCorrect == Spec => []TypeOK
BY InitType, TypeStep, PTL DEF Spec

-----------------------------------------------------------------------------
(* The agreement of cache and database.                                    *)

(* Serve changes one cell: it queues what it leaves there, or the cell     *)
(* reads as before, or the key is one of the exceptions.                   *)
LEMMA ServeFacts ==
  ASSUME NEW c \in Clients, NEW cells \in [Keys -> Val],
         NEW lost \in SUBSET Keys, TypeOK, Serve(c, cells, lost),
         NEW k, k = call[c].req.key
  PROVE  /\ k \in Keys
         /\ \A j \in Keys :
              j # k => /\ cell'[j] = cells[j] /\ qSave'[j] = qSave[j]
                       /\ (j \in drift' <=> j \in lost)
         /\ \/ qSave'[k] # None /\ qSave'[k] = cell'[k]
            \/ qSave'[k] = qSave[k] /\ k \in drift'
            \/ /\ qSave'[k] = qSave[k] /\ Num(cell'[k]) = Num(cells[k])
               /\ (k \in drift' <=> k \in lost)
         /\ call'[c].st = "done"
         /\ \A d \in Clients \ {c} : call'[d] = call[d]
<1> DEFINE req == call[c].req
           out == Perform(req, cells[k])
<1>0. k = req.key
  OBVIOUS
<1>1. /\ req \in [cl : Clients \cup {None}, op : Ops, key : Keys, amt : Nat]
      /\ k \in Keys /\ cells[k] \in Val
  BY <1>0 DEF TypeOK
<1>2. out \in [ret : Codes, val : Nat, new : Val, put : Val]
  BY <1>1, PerformType
<1>3. out.put # None => out.new = out.put
  BY <1>1, PerformPuts
<1>4. out.put = None /\ ~Unsaved(req, cells[k]) => Num(out.new) = Num(cells[k])
  BY <1>1, PerformKeeps
<1> HIDE DEF out
<1>5. /\ cell' = [cells EXCEPT ![k] = out.new]
      /\ qSave' = IF out.put = None THEN qSave ELSE [qSave EXCEPT ![k] = out.put]
      /\ drift' = DriftAfter(lost, req, cells[k], out)
      /\ call' = Answer(c, out.ret, out.val)
  BY <1>0 DEF Serve, out
<1> HIDE DEF req
<1>6. \A j \in Keys :
        j # k => /\ cell'[j] = cells[j] /\ qSave'[j] = qSave[j]
                 /\ (j \in drift' <=> j \in lost)
  BY <1>0, <1>1, <1>5 DEF TypeOK, DriftAfter
<1>7. cell'[k] = out.new
  BY <1>1, <1>5
<1>8. CASE out.put # None
  <2>1. qSave'[k] = out.put
    BY <1>1, <1>5, <1>8 DEF TypeOK
  <2> QED BY <1>1, <1>3, <1>5, <1>6, <1>7, <1>8, <2>1 DEF Answer, TypeOK, req
<1>9. CASE out.put = None
  <2>1. qSave' = qSave
    BY <1>5, <1>9
  <2>2. CASE Unsaved(req, cells[k])
    <3>1. k \in drift'
      BY <1>0, <1>5, <1>9, <2>2 DEF DriftAfter
    <3> QED BY <1>1, <1>5, <1>6, <2>1, <3>1 DEF Answer, TypeOK, req
  <2>3. CASE ~Unsaved(req, cells[k])
    <3>1. drift' = lost
      BY <1>5, <1>9, <2>3 DEF DriftAfter
    <3>2. Num(cell'[k]) = Num(cells[k])
      BY <1>4, <1>7, <1>9, <2>3
    <3> QED BY <1>1, <1>5, <1>6, <2>1, <3>1, <3>2 DEF Answer, TypeOK, req
  <2> QED BY <2>2, <2>3
<1> QED BY <1>8, <1>9

(* How a step may treat the commands whose SELECT is under way. *)
NoNewLoad ==
  \A c \in Clients :
    call'[c].st \in LoadStages =>
      /\ call[c].st \in LoadStages /\ call'[c].req = call[c].req
      /\ call'[c].st = "ready" => call[c].st = "ready"

ReadyKept ==
  \A c \in Clients : call[c].st = "ready" => call'[c].st = "ready"

LEMMA QuietCalls ==
  ASSUME TypeOK,
         \/ \E c \in Clients :
              \/ \E q \in Requests : Send(c, q)
              \/ HandleHit(c) \/ HandleLookup(c) \/ BindNothing(c)
              \/ BindGenerated(c) \/ BindChosen(c)
         \/ Grab \/ DbGone \/ UNCHANGED call
  PROVE  NoNewLoad /\ ReadyKept
<1> USE DEF LoadStages, NoNewLoad, ReadyKept
<1>1. ASSUME NEW c \in Clients, NEW q \in Requests, Send(c, q)
      PROVE  NoNewLoad /\ ReadyKept
  BY <1>1 DEF Send, TypeOK
<1>2. ASSUME NEW c \in Clients, HandleHit(c) PROVE NoNewLoad /\ ReadyKept
  <2>1. call[c].st = "sent" /\ Serve(c, cell, drift)
    BY <1>2 DEF HandleHit, Received
  <2> QED BY <2>1, ServeFacts DEF TypeOK
<1>3. ASSUME NEW c \in Clients, HandleLookup(c) PROVE NoNewLoad /\ ReadyKept
  BY <1>3 DEF HandleLookup, Received, Lose, TypeOK
<1>4. ASSUME NEW c \in Clients,
             BindNothing(c) \/ BindGenerated(c) \/ BindChosen(c)
      PROVE  NoNewLoad /\ ReadyKept
  <2>1. call[c].st = "sent"
    BY <1>4 DEF BindNothing, BindGenerated, BindChosen, Received
  <2>2. \E ret, val : call' = Answer(c, ret, val)
    BY <1>4 DEF BindNothing, BindGenerated, BindChosen
  <2> QED BY <2>1, <2>2 DEF Answer, TypeOK
<1>5. CASE Grab
  BY <1>5 DEF Grab, TypeOK
<1>6. CASE DbGone
  BY <1>6 DEF DbGone, Lose, TypeOK
<1>7. CASE UNCHANGED call
  BY <1>7
<1> QED BY <1>1, <1>2, <1>3, <1>4, <1>5, <1>6, <1>7

LEMMA ClosedCalls ==
  ASSUME TypeOK, call' = Lose(Open)
  PROVE  \A c \in Clients : call'[c].st \notin LoadStages
BY DEF Lose, Open, LoadStages, TypeOK

LEMMA StoppedStep ==
  ASSUME TypeOK, StoppedEmpty, [Next]_vars
  PROVE  StoppedEmpty'
<1> USE DEF StoppedEmpty, serverVars, queueVars, dbVars, bounds
<1>1. CASE up' \notin {"final", "down"}
  BY <1>1
<1>2. CASE FinalBatch
  BY <1>2 DEF FinalBatch, Grab
<1>3. CASE Halt
  BY <1>3, ClosedCalls DEF Halt, BatchEmpty
<1>4. CASE Crash
  BY <1>4, ClosedCalls DEF Crash
<1>5. ASSUME NEW c \in Clients, ExecLoad(c) \/ ExecLoadFail(c)
      PROVE  StoppedEmpty'
  BY <1>5 DEF ExecLoad, ExecLoadFail, Executed
<1>6. ASSUME NEW k \in Keys, ExecSave(k) \/ ExecSaveFail(k)
      PROVE  StoppedEmpty'
  BY <1>6 DEF ExecSave, ExecSaveFail
<1>7. CASE UNCHANGED vars
  BY <1>7 DEF vars
<1>8. ASSUME NEW c \in Clients, NEW q \in Requests, Send(c, q)
      PROVE  up' = "running"
  BY <1>8 DEF Send
<1>9. ASSUME NEW c \in Clients, Handle(c)
      PROVE  up' = "running"
  BY <1>9 DEF Handle, HandleHit, HandleMiss, HandleLookup, BindNothing,
              BindGenerated, BindChosen, Received
<1>10. ASSUME NEW r \in Rows, Evict(r) PROVE up' = "running"
  BY <1>10 DEF Evict
<1>11. CASE PollResult \/ ApplyReload \/ TakeBatch \/ DbGone \/ FetchForce
            \/ Stop \/ MainFails \/ Restart
  <2>1. up' \in {"running", "stuck", "stopping"}
    BY <1>11 DEF PollResult, FillRow, DropResult, ApplyReload, TakeBatch, DbGone,
                 FetchForce, Stop, MainFails, Restart, DbThreadRuns
  <2> QED BY <1>1, <2>1
<1> QED BY <1>1, <1>2, <1>3, <1>4, <1>5, <1>6, <1>7, <1>8, <1>9, <1>10, <1>11
        DEF Next

LEMMA ResultsSame ==
  ASSUME TypeOK, ResultsReady, ReadyKept, results' = results
  PROVE  ResultsReady'
<1>1. results \in Seq(Clients)
  BY DEF TypeOK
<1>2. \A i \in 1 .. Len(results) : results[i] \in Clients
  BY <1>1
<1> QED BY <1>2 DEF ResultsReady, ReadyKept

LEMMA ResultsStep ==
  ASSUME TypeOK, ResultsReady, [Next]_vars
  PROVE  ResultsReady'
<1> USE DEF serverVars, queueVars, dbVars, bounds
<1>1. ASSUME NEW c \in Clients,
             \/ \E q \in Requests : Send(c, q)
             \/ HandleHit(c) \/ HandleLookup(c) \/ BindNothing(c)
             \/ BindGenerated(c) \/ BindChosen(c)
      PROVE  ResultsReady'
  <2>1. results' = results
    BY <1>1 DEF Send, HandleHit, HandleLookup, BindNothing, BindGenerated,
                BindChosen
  <2> QED BY <1>1, <2>1, QuietCalls, ResultsSame
<1>2. ASSUME NEW c \in Clients, HandleMiss(c) PROVE ResultsReady'
  <2>1. ReadyKept
    BY <1>2 DEF HandleMiss, Received, ReadyKept, TypeOK
  <2> QED BY <1>2, <2>1, ResultsSame DEF HandleMiss
<1>3. ASSUME NEW c \in Clients, ExecLoad(c) \/ ExecLoadFail(c)
      PROVE  ResultsReady'
  <2> DEFINE n == Len(results)
  <2>1. /\ call[c].st = "batched" /\ results' = Append(results, c)
        /\ call' = [call EXCEPT ![c].st = "ready"]
    BY <1>3 DEF ExecLoad, ExecLoadFail, Executed
  <2>2. /\ Len(results') = n + 1 /\ n \in Nat /\ results'[n + 1] = c
        /\ \A i \in 1 .. n : results'[i] = results[i] /\ results[i] \in Clients
    BY <2>1 DEF TypeOK
  <2>3. \A i \in 1 .. n : results[i] # c
    BY <2>1, <2>2 DEF ResultsReady
  <2>4. \A d \in Clients : call'[d].st = IF d = c THEN "ready" ELSE call[d].st
    BY <2>1 DEF TypeOK
  <2>5. \A i \in 1 .. n + 1 : i \in 1 .. n \/ i = n + 1
    BY <2>2
  <2>6. \A i \in 1 .. n + 1 : call'[results'[i]].st = "ready"
    BY <2>2, <2>4, <2>5 DEF ResultsReady
  <2>7. \A i, j \in 1 .. n + 1 : results'[i] = results'[j] => i = j
    BY <2>2, <2>3, <2>5 DEF ResultsReady
  <2> QED BY <2>2, <2>6, <2>7 DEF ResultsReady
<1>4. CASE FillRow \/ DropResult
  <2> DEFINE c == Head(results)
             n == Len(results)
  <2>1. /\ results # <<>> /\ results' = Tail(results)
    BY <1>4 DEF FillRow, DropResult
  <2>2. /\ n \in Nat /\ n > 0 /\ c = results[1] /\ c \in Clients
        /\ Len(results') = n - 1
        /\ \A i \in 1 .. n - 1 :
             i + 1 \in 1 .. n /\ results'[i] = results[i + 1]
             /\ results[i + 1] \in Clients
    BY <2>1 DEF TypeOK
  <2>3. \A i \in 1 .. n - 1 : results'[i] # c
    <3> SUFFICES ASSUME NEW i \in 1 .. n - 1, results[i + 1] = results[1]
                 PROVE  FALSE
      BY <2>2
    <3>1. i + 1 = 1
      BY <2>2 DEF ResultsReady
    <3> QED BY <3>1
  <2>4. \A d \in Clients \ {c} : call'[d] = call[d]
    <3>1. CASE FillRow
      <4>1. PICK lost \in SUBSET Keys : Serve(c, Filled(c), lost)
        BY <3>1 DEF FillRow, TypeOK, KeysOf
      <4>2. Filled(c) \in [Keys -> Val]
        BY <2>2 DEF Filled, TypeOK, Val
      <4> HIDE DEF c
      <4> QED BY <2>2, <4>1, <4>2, ServeFacts
    <3>2. CASE DropResult
      BY <3>2 DEF DropResult, Lose
    <3> QED BY <1>4, <3>1, <3>2
  <2> HIDE DEF c
  <2>5. \A i \in 1 .. n - 1 : call'[results'[i]].st = "ready"
    BY <2>2, <2>3, <2>4 DEF ResultsReady
  <2>6. \A i, j \in 1 .. n - 1 : results'[i] = results'[j] => i = j
    <3> SUFFICES ASSUME NEW i \in 1 .. n - 1, NEW j \in 1 .. n - 1,
                        results[i + 1] = results[j + 1]
                 PROVE  i = j
      BY <2>2
    <3>1. i + 1 = j + 1
      BY <2>2 DEF ResultsReady
    <3> QED BY <3>1
  <2> QED BY <2>2, <2>5, <2>6 DEF ResultsReady
<1>5. CASE Halt \/ Crash
  <2>1. results' = <<>>
    BY <1>5 DEF Halt, Crash
  <2>2. Len(results') = 0
    BY <2>1
  <2> QED BY <2>2 DEF ResultsReady
<1>6. CASE TakeBatch \/ FinalBatch \/ DbGone
  <2>1. results' = results /\ (Grab \/ DbGone)
    BY <1>6 DEF TakeBatch, FinalBatch, DbGone
  <2> QED BY <2>1, QuietCalls, ResultsSame
<1>7. ASSUME \/ \E k \in Keys : ExecSave(k) \/ ExecSaveFail(k)
             \/ \E r \in Rows : Evict(r)
             \/ ApplyReload \/ FetchForce \/ Stop \/ MainFails \/ Restart
             \/ UNCHANGED vars
      PROVE  ResultsReady'
  <2>1. UNCHANGED <<results, call>>
    BY <1>7 DEF ExecSave, ExecSaveFail, Evict, ApplyReload, FetchForce, Stop,
                MainFails, Restart, vars
  <2> QED BY <2>1, QuietCalls, ResultsSame
<1> QED BY <1>1, <1>2, <1>3, <1>4, <1>5, <1>6, <1>7
        DEF Next, Handle, PollResult

(* FillRow, with the names its proofs use: the command whose SELECT        *)
(* returned, its row, the cells after insert_row and the exceptions then.  *)
LEMMA FillFacts ==
  ASSUME IInv, FillRow
  PROVE  LET c == Head(results)
             r == RowOfCall(c)
             lost == IF img[c].ok THEN drift \ KeysOf(r) ELSE drift \cup KeysOf(r)
         IN  /\ c \in Clients /\ r \in Rows /\ call[c].st = "ready" /\ Loads(c, r)
             /\ Filled(c) \in [Keys -> Val] /\ lost \in SUBSET Keys
             /\ Serve(c, Filled(c), lost)
             /\ cached' = cached \cup {r} /\ up = "running"
             /\ UNCHANGED <<bSave, db, img, raced>>
<1> DEFINE c == Head(results)
           r == RowOfCall(c)
<1>0. TypeOK
  BY DEF IInv
<1>1. results # <<>> /\ results \in Seq(Clients)
  BY <1>0 DEF FillRow, TypeOK
<1>2. c \in Clients /\ c = results[1] /\ 1 \in 1 .. Len(results)
  BY <1>1
<1>3. call[c].st = "ready"
  BY <1>2 DEF IInv, ResultsReady
<1>4. r \in Rows
  BY <1>0, <1>2, CallTypes
<1>5. Filled(c) \in [Keys -> Val]
  BY <1>0, <1>2 DEF Filled, TypeOK, Val
<1>6. Loads(c, r)
  BY <1>3 DEF Loads, LoadStages
<1>7. /\ drift \ KeysOf(r) \in SUBSET Keys /\ drift \cup KeysOf(r) \in SUBSET Keys
  BY <1>0 DEF TypeOK, KeysOf
<1> QED BY <1>2, <1>3, <1>4, <1>5, <1>6, <1>7
        DEF FillRow, dbVars

(* Rows leave the cache only when nothing is queued for them, and saves    *)
(* are queued for rows that are there.                                     *)
LEMMA HeldStep ==
  ASSUME IInv, [Next]_vars
  PROVE  SavedRowsHeld'
<1> USE DEF serverVars, queueVars, dbVars, bounds
<1>0. TypeOK /\ SavedRowsHeld /\ StoppedEmpty
  BY DEF IInv
<1>1. CASE UNCHANGED <<cached, qSave, bSave>>
  BY <1>0, <1>1 DEF SavedRowsHeld, Pending
<1>2. ASSUME NEW c \in Clients, HandleHit(c) PROVE SavedRowsHeld'
  <2>1. /\ Serve(c, cell, drift) /\ RowOf[call[c].req.key] \in cached
        /\ UNCHANGED <<cached, bSave>>
    BY <1>2 DEF HandleHit, Hit, RowOfCall
  <2>2. \A j \in Keys : j = call[c].req.key \/ qSave'[j] = qSave[j]
    <3>1. cell \in [Keys -> Val] /\ drift \in SUBSET Keys
      BY <1>0 DEF TypeOK
    <3> QED BY <1>0, <2>1, <3>1, ServeFacts
  <2> QED BY <1>0, <2>1, <2>2 DEF SavedRowsHeld, Pending
<1>3. ASSUME NEW c \in Clients, BindGenerated(c) \/ BindChosen(c)
      PROVE  SavedRowsHeld'
  <2> DEFINE k == call[c].req.key
  <2>1. k \in Keys /\ GenKey \in Keys /\ RowOf[k] \in cached
        /\ UNCHANGED <<cached, bSave>>
    BY <1>0, <1>3, CallTypes, KeysAssumption
       DEF BindGenerated, BindChosen, BindRefusal
  <2>2. \A j \in Keys : j = k \/ qSave'[j] = qSave[j]
                         \/ (j = GenKey /\ GenRow \in cached)
    <3>1. CASE BindGenerated(c)
      <4>1. GenRow \in cached
        BY <3>1, ValuesAssumption DEF BindGenerated, BindRefusal
      <4>2. \A j \in Keys \ {k, GenKey} : qSave'[j] = qSave[j]
        BY <1>0, <3>1 DEF BindGenerated, WithIid, TypeOK
      <4> QED BY <4>1, <4>2
    <3>2. CASE BindChosen(c)
      <4>1. qSave' = [qSave EXCEPT ![k] = call[c].req.amt]
        BY <3>2 DEF BindChosen
      <4> QED BY <1>0, <2>1, <4>1 DEF TypeOK
    <3> QED BY <1>3, <3>1, <3>2
  <2> QED BY <1>0, <2>1, <2>2 DEF SavedRowsHeld, Pending, GenRow
<1>4. CASE FillRow
  <2> DEFINE c == Head(results)
             r == RowOfCall(c)
             lost == IF img[c].ok THEN drift \ KeysOf(r) ELSE drift \cup KeysOf(r)
  <2>1. /\ c \in Clients /\ Filled(c) \in [Keys -> Val] /\ lost \in SUBSET Keys
        /\ Serve(c, Filled(c), lost)
        /\ cached' = cached \cup {r} /\ bSave' = bSave
    BY <1>4, FillFacts
  <2> HIDE DEF c, lost
  <2>2. \A j \in Keys : j = call[c].req.key \/ qSave'[j] = qSave[j]
    BY <1>0, <2>1, ServeFacts
  <2> QED BY <1>0, <2>1, <2>2 DEF SavedRowsHeld, Pending, RowOfCall
<1>5. CASE ApplyReload
  BY <1>0, <1>5 DEF ApplyReload, SavedRowsHeld, Pending, TypeOK
<1>6. ASSUME NEW r \in Rows, Evict(r) PROVE SavedRowsHeld'
  BY <1>0, <1>6 DEF Evict, Idle, KeysOf, SavedRowsHeld, Pending
<1>7. ASSUME NEW k \in Keys, ExecSave(k) \/ ExecSaveFail(k)
      PROVE  SavedRowsHeld'
  BY <1>0, <1>7 DEF ExecSave, ExecSaveFail, SavedRowsHeld, Pending, TypeOK
<1>8. CASE TakeBatch \/ FinalBatch
  BY <1>0, <1>8 DEF TakeBatch, FinalBatch, Grab, SavedRowsHeld, Pending, NoVals
<1>9. CASE DbGone \/ Crash
  BY <1>0, <1>9 DEF DbGone, Crash, SavedRowsHeld, Pending, NoVals
<1>10. CASE Restart
  BY <1>0, <1>10 DEF Restart, StoppedEmpty, SavedRowsHeld, Pending, NoVals
<1>11. ASSUME NEW c \in Clients,
              \/ \E q \in Requests : Send(c, q)
              \/ HandleMiss(c) \/ HandleLookup(c) \/ BindNothing(c)
              \/ ExecLoad(c) \/ ExecLoadFail(c)
       PROVE  SavedRowsHeld'
  BY <1>1, <1>11 DEF Send, HandleMiss, HandleLookup, BindNothing, ExecLoad,
                     ExecLoadFail, Executed
<1>12. CASE DropResult \/ FetchForce \/ Stop \/ MainFails \/ Halt
            \/ UNCHANGED vars
  BY <1>1, <1>12 DEF DropResult, FetchForce, Stop, MainFails, Halt, vars
<1> QED BY <1>2, <1>3, <1>4, <1>5, <1>6, <1>7, <1>8, <1>9, <1>10, <1>11, <1>12
        DEF Next, Handle, PollResult

LEMMA LoaderKept ==
  ASSUME TypeOK, SoleLoader, NoNewLoad, cached' \subseteq cached, raced \subseteq raced'
  PROVE  SoleLoader'
<1>1. ASSUME NEW c \in Clients, NEW r \in Rows, Loads(c, r)' PROVE Loads(c, r)
  BY <1>1 DEF Loads, RowOfCall, NoNewLoad
<1> QED BY <1>1 DEF SoleLoader

(* Steps that start no load and enlarge neither the cache nor the history  *)
(* of races the other way.                                                 *)
LEMMA LoaderQuiet ==
  ASSUME TypeOK,
         \/ \E c \in Clients :
              \/ \E q \in Requests : Send(c, q)
              \/ HandleHit(c) \/ HandleLookup(c) \/ BindNothing(c)
              \/ BindGenerated(c) \/ BindChosen(c)
         \/ TakeBatch \/ FinalBatch \/ DbGone
         \/ \E k \in Keys : ExecSave(k) \/ ExecSaveFail(k)
         \/ \E r \in Rows : Evict(r)
         \/ ApplyReload \/ FetchForce \/ Stop \/ MainFails \/ UNCHANGED vars
  PROVE  NoNewLoad /\ cached' \subseteq cached /\ raced' = raced
<1> USE DEF serverVars, queueVars, dbVars, bounds
<1>1. ASSUME NEW c \in Clients,
             \/ \E q \in Requests : Send(c, q)
             \/ HandleHit(c) \/ HandleLookup(c) \/ BindNothing(c)
             \/ BindGenerated(c) \/ BindChosen(c)
      PROVE  NoNewLoad /\ cached' \subseteq cached /\ raced' = raced
  <2>1. UNCHANGED <<cached, raced>>
    BY <1>1 DEF Send, HandleHit, HandleLookup, BindNothing, BindGenerated,
                BindChosen
  <2> QED BY <1>1, <2>1, QuietCalls
<1>2. CASE TakeBatch \/ FinalBatch \/ DbGone
  <2>1. UNCHANGED <<cached, raced>> /\ (Grab \/ DbGone)
    BY <1>2 DEF TakeBatch, FinalBatch, DbGone
  <2> QED BY <2>1, QuietCalls
<1>3. ASSUME \/ \E k \in Keys : ExecSave(k) \/ ExecSaveFail(k)
             \/ \E r \in Rows : Evict(r)
             \/ ApplyReload \/ FetchForce \/ Stop \/ MainFails \/ UNCHANGED vars
      PROVE  NoNewLoad /\ cached' \subseteq cached /\ raced' = raced
  <2>1. cached' \subseteq cached /\ raced' = raced /\ UNCHANGED call
    BY <1>3 DEF ExecSave, ExecSaveFail, Evict, ApplyReload, FetchForce, Stop,
                MainFails, vars
  <2> QED BY <2>1, QuietCalls
<1> QED BY <1>1, <1>2, <1>3

LEMMA LoaderStep ==
  ASSUME IInv, [Next]_vars
  PROVE  SoleLoader'
<1> USE DEF serverVars, queueVars, dbVars, bounds
<1>0. TypeOK /\ SoleLoader /\ StoppedEmpty
  BY DEF IInv
<1>1. ASSUME \/ \E c \in Clients :
                  \/ \E q \in Requests : Send(c, q)
                  \/ HandleHit(c) \/ HandleLookup(c) \/ BindNothing(c)
                  \/ BindGenerated(c) \/ BindChosen(c)
             \/ TakeBatch \/ FinalBatch \/ DbGone
             \/ \E k \in Keys : ExecSave(k) \/ ExecSaveFail(k)
             \/ \E r \in Rows : Evict(r)
             \/ ApplyReload \/ FetchForce \/ Stop \/ MainFails
             \/ UNCHANGED vars
      PROVE  SoleLoader'
  BY <1>0, <1>1, LoaderQuiet, LoaderKept
<1>2. ASSUME NEW c \in Clients, HandleMiss(c) PROVE SoleLoader'
  <2> DEFINE r == RowOfCall(c)
  <2>1. /\ \A d \in Clients, s \in Rows :
             Loads(d, s)' <=> Loads(d, s) \/ (d = c /\ s = r)
        /\ r \in Rows
    <3>1. /\ call' = [call EXCEPT ![c].st = "queued"] /\ call[c].st = "sent"
          /\ call \in CallType /\ r \in Rows
      BY <1>0, <1>2, CallTypes DEF HandleMiss, Received
    <3>2. \A d \in Clients :
            /\ call'[d].req = call[d].req
            /\ call'[d].st = IF d = c THEN "queued" ELSE call[d].st
      BY <3>1 DEF CallType
    <3> QED BY <3>1, <3>2 DEF Loads, LoadStages, RowOfCall
  <2>2. /\ cached' = cached /\ r \notin cached
        /\ raced' = IF Outstanding(r) = {} THEN raced \ {r} ELSE raced \cup {r}
    BY <1>2 DEF HandleMiss, Hit
  <2> HIDE DEF r
  <2>3. \A d \in Clients : Loads(d, r) => r \in raced'
    BY <2>2 DEF Outstanding
  <2>4. SUFFICES ASSUME NEW s \in Rows \ raced'
                 PROVE  /\ \A d, e \in Clients : Loads(d, s)' /\ Loads(e, s)' => d = e
                        /\ \A d \in Clients : Loads(d, s)' => s \notin cached'
    BY DEF SoleLoader
  <2>5. CASE s = r
    BY <2>1, <2>2, <2>3, <2>5
  <2>6. CASE s # r
    <3>1. s \notin raced
      BY <2>2, <2>6
    <3> QED BY <1>0, <2>1, <2>2, <2>6, <3>1 DEF SoleLoader
  <2> QED BY <2>5, <2>6
<1>3. ASSUME NEW c \in Clients, ExecLoad(c) \/ ExecLoadFail(c)
      PROVE  SoleLoader'
  <2>1. /\ \A d \in Clients, s \in Rows : Loads(d, s)' <=> Loads(d, s)
        /\ UNCHANGED <<cached, raced>>
    <3>1. /\ call' = [call EXCEPT ![c].st = "ready"] /\ call[c].st = "batched"
          /\ call \in CallType /\ UNCHANGED <<cached, raced>>
      BY <1>0, <1>3, CallTypes DEF ExecLoad, ExecLoadFail, Executed
    <3>2. \A d \in Clients :
            /\ call'[d].req = call[d].req
            /\ call'[d].st = IF d = c THEN "ready" ELSE call[d].st
      BY <3>1 DEF CallType
    <3> QED BY <3>1, <3>2 DEF Loads, LoadStages, RowOfCall
  <2> QED BY <1>0, <2>1 DEF SoleLoader
<1>4. CASE FillRow
  <2> DEFINE c == Head(results)
             r == RowOfCall(c)
             lost == IF img[c].ok THEN drift \ KeysOf(r) ELSE drift \cup KeysOf(r)
  <2>1. /\ c \in Clients /\ r \in Rows /\ Loads(c, r)
        /\ Filled(c) \in [Keys -> Val] /\ lost \in SUBSET Keys
        /\ Serve(c, Filled(c), lost)
        /\ cached' = cached \cup {r} /\ raced' = raced
    BY <1>4, FillFacts
  <2> HIDE DEF c, lost
  <2>2. call'[c].st = "done" /\ \A d \in Clients \ {c} : call'[d] = call[d]
    BY <1>0, <2>1, ServeFacts
  <2>3. \A d \in Clients, s \in Rows : Loads(d, s)' => Loads(d, s) /\ d # c
    BY <2>2 DEF Loads, LoadStages, RowOfCall
  <2> HIDE DEF r
  <2> QED BY <1>0, <2>1, <2>3 DEF SoleLoader
<1>5. CASE DropResult
  <2>1. NoNewLoad /\ UNCHANGED <<cached, raced>>
    BY <1>0, <1>5 DEF DropResult, Lose, NoNewLoad, LoadStages, TypeOK
  <2> QED BY <1>0, <2>1, LoaderKept
<1>6. CASE Halt \/ Crash
  <2>1. \A c \in Clients : call'[c].st \notin LoadStages
    BY <1>0, <1>6, ClosedCalls DEF Halt, Crash
  <2> QED BY <2>1 DEF SoleLoader, Loads
<1>7. CASE Restart
  <2>1. \A c \in Clients : call'[c].st \notin LoadStages
    BY <1>0, <1>7 DEF Restart, StoppedEmpty
  <2> QED BY <2>1 DEF SoleLoader, Loads
<1> QED BY <1>1, <1>2, <1>3, <1>4, <1>5, <1>6, <1>7
        DEF Next, Handle, PollResult

LEMMA FreshKept ==
  ASSUME TypeOK, FreshImages, NoNewLoad, UNCHANGED <<img, db>>, raced' = raced
  PROVE  FreshImages'
<1>1. ASSUME NEW c \in Clients, call'[c].st = "ready"
      PROVE  call[c].st = "ready" /\ RowOfCall(c)' = RowOfCall(c)
  BY <1>1 DEF NoNewLoad, LoadStages, RowOfCall
<1> QED BY <1>1 DEF FreshImages

LEMMA FreshStep ==
  ASSUME IInv, [Next]_vars
  PROVE  FreshImages'
<1> USE DEF serverVars, queueVars, dbVars, bounds
<1>0. TypeOK /\ FreshImages /\ SoleLoader /\ SavedRowsHeld /\ StoppedEmpty
  BY DEF IInv
<1>1. ASSUME \/ \E c \in Clients :
                  \/ \E q \in Requests : Send(c, q)
                  \/ HandleHit(c) \/ HandleLookup(c) \/ BindNothing(c)
                  \/ BindGenerated(c) \/ BindChosen(c)
             \/ TakeBatch \/ FinalBatch \/ DbGone
             \/ \E k \in Keys : ExecSaveFail(k)
             \/ \E r \in Rows : Evict(r)
             \/ ApplyReload \/ FetchForce \/ Stop \/ MainFails
             \/ UNCHANGED vars
      PROVE  FreshImages'
  <2>1. UNCHANGED <<img, db>>
    BY <1>1 DEF Send, HandleHit, HandleLookup, BindNothing, BindGenerated,
                BindChosen, TakeBatch, FinalBatch, DbGone, ExecSaveFail, Evict,
                ApplyReload, FetchForce, Stop, MainFails, vars
  <2> QED BY <1>0, <1>1, <2>1, LoaderQuiet, FreshKept
<1>2. ASSUME NEW c \in Clients, HandleMiss(c) PROVE FreshImages'
  <2> DEFINE r == RowOfCall(c)
  <2>1. /\ call' = [call EXCEPT ![c].st = "queued"] /\ call \in CallType
        /\ raced' = IF Outstanding(r) = {} THEN raced \ {r} ELSE raced \cup {r}
        /\ UNCHANGED <<img, db>>
    BY <1>0, <1>2, CallTypes DEF HandleMiss
  <2>2. \A d \in Clients :
          call'[d].st = "ready" => call[d].st = "ready" /\ call'[d].req = call[d].req
    BY <2>1 DEF CallType
  <2> HIDE DEF r
  <2>3. \A d \in Clients :
          call[d].st = "ready" /\ RowOfCall(d) \notin raced' => RowOfCall(d) \notin raced
    BY <2>1 DEF Outstanding, Loads, LoadStages
  <2> QED BY <1>0, <2>1, <2>2, <2>3 DEF FreshImages, RowOfCall
<1>3. ASSUME NEW c \in Clients, ExecLoad(c) \/ ExecLoadFail(c)
      PROVE  FreshImages'
  <2>1. PICK ok \in BOOLEAN : Executed(c, ok)
    BY <1>3 DEF ExecLoad, ExecLoadFail
  <2> DEFINE r == RowOfCall(c)
             new == [ok |-> ok, row |-> IF ok THEN RowImage(r) ELSE NoVals]
  <2>2. /\ call' = [call EXCEPT ![c].st = "ready"] /\ call \in CallType
        /\ img' = [img EXCEPT ![c] = new]
        /\ UNCHANGED <<db, raced>>
    BY <1>0, <2>1, CallTypes DEF Executed
  <2>3. \A d \in Clients :
          /\ call'[d].req = call[d].req
          /\ d # c => call'[d].st = call[d].st /\ img'[d] = img[d]
    BY <1>0, <2>2 DEF CallType, TypeOK
  <2>4. img'[c] = new
    BY <1>0, <2>2 DEF TypeOK
  <2>5. new.ok => \A k \in KeysOf(r) : Num(new.row[k]) = Num(db[k])
    <3> SUFFICES ASSUME ok, NEW k \in KeysOf(r)
                 PROVE  Num(RowImage(r)[k]) = Num(db[k])
      OBVIOUS
    <3>1. k \in Keys /\ RowOf[k] = r
      BY DEF KeysOf
    <3>2. RowImage(r)[k] = db[k] \/ RowImage(r)[k] = Num(db[k])
      BY <3>1 DEF RowImage
    <3>3. Num(Num(db[k])) = Num(db[k])
      BY ValuesAssumption DEF Num
    <3> QED BY <3>2, <3>3
  <2> HIDE DEF new
  <2>6. \A d \in Clients : RowOfCall(d)' = RowOfCall(d)
    BY <2>3 DEF RowOfCall
  <2>7. ASSUME NEW d \in Clients, call'[d].st = "ready", img'[d].ok,
               RowOfCall(d)' \notin raced', NEW k \in KeysOf(RowOfCall(d)')
        PROVE  Num(img'[d].row[k]) = Num(db'[k])
    <3>2. CASE d = c
      BY <2>2, <2>4, <2>5, <2>6, <2>7, <3>2
    <3>3. CASE d # c
      BY <1>0, <2>2, <2>3, <2>6, <2>7, <3>3 DEF FreshImages
    <3> QED BY <3>2, <3>3
  <2> QED BY <2>7 DEF FreshImages, KeysOf
<1>4. CASE FillRow
  <2> DEFINE c == Head(results)
             r == RowOfCall(c)
             lost == IF img[c].ok THEN drift \ KeysOf(r) ELSE drift \cup KeysOf(r)
  <2>1. /\ c \in Clients /\ Filled(c) \in [Keys -> Val] /\ lost \in SUBSET Keys
        /\ Serve(c, Filled(c), lost) /\ UNCHANGED <<db, img, raced>>
    BY <1>4, FillFacts
  <2> HIDE DEF c, lost
  <2>2. call'[c].st = "done" /\ \A d \in Clients \ {c} : call'[d] = call[d]
    BY <1>0, <2>1, ServeFacts
  <2>3. NoNewLoad
    BY <2>2 DEF NoNewLoad, LoadStages
  <2> QED BY <1>0, <2>1, <2>3, FreshKept
<1>5. CASE DropResult
  <2>1. NoNewLoad /\ UNCHANGED <<img, db, raced>>
    BY <1>0, <1>5 DEF DropResult, Lose, NoNewLoad, LoadStages, TypeOK
  <2> QED BY <1>0, <2>1, FreshKept
<1>6. ASSUME NEW k \in Keys, ExecSave(k) PROVE FreshImages'
  <2>1. /\ UNCHANGED <<call, img, raced>>
        /\ db' = [db EXCEPT ![k] = bSave[k]] /\ RowOf[k] \in cached
    BY <1>0, <1>6 DEF ExecSave, SavedRowsHeld, Pending
  <2>2. ASSUME NEW c \in Clients, call[c].st = "ready", RowOfCall(c) \notin raced
        PROVE  RowOfCall(c) # RowOf[k]
    <3>1. Loads(c, RowOfCall(c)) /\ RowOfCall(c) \in Rows
      BY <1>0, <2>2, CallTypes DEF Loads, LoadStages
    <3> QED BY <1>0, <2>1, <2>2, <3>1 DEF SoleLoader
  <2>3. \A j \in Keys : j # k => db'[j] = db[j]
    BY <1>0, <2>1 DEF TypeOK
  <2>4. \A c \in Clients : RowOfCall(c)' = RowOfCall(c)
    BY <2>1 DEF RowOfCall
  <2> QED BY <1>0, <2>1, <2>2, <2>3, <2>4 DEF FreshImages, KeysOf
<1>7. CASE Halt \/ Crash
  <2>1. \A c \in Clients : call'[c].st \notin LoadStages
    BY <1>0, <1>7, ClosedCalls DEF Halt, Crash
  <2> QED BY <2>1 DEF FreshImages, LoadStages
<1>8. CASE Restart
  <2>1. \A c \in Clients : call'[c].st \notin LoadStages
    BY <1>0, <1>8 DEF Restart, StoppedEmpty
  <2> QED BY <2>1 DEF FreshImages, LoadStages
<1> QED BY <1>1, <1>2, <1>3, <1>4, <1>5, <1>6, <1>7, <1>8
        DEF Next, Handle, PollResult

LEMMA CoherentKept ==
  ASSUME Coherent, UNCHANGED <<cached, raced, cell, drift, qSave, bSave, db>>
  PROVE  Coherent'
BY DEF Coherent, Newest

(* A command served on cells that agree with the database leaves them so. *)
LEMMA CoherentServe ==
  ASSUME NEW c \in Clients, NEW cells \in [Keys -> Val], NEW lost \in SUBSET Keys,
         TypeOK, Serve(c, cells, lost), UNCHANGED <<bSave, db, raced>>,
         \A j \in Keys : RowOf[j] \in cached' \ raced /\ j \notin lost
                         => Num(cells[j]) = Num(Newest(j))
  PROVE  Coherent'
<1> DEFINE k == call[c].req.key
<1>1. k \in Keys
  BY DEF TypeOK
<1>2. /\ \A j \in Keys :
           j # k => /\ cell'[j] = cells[j] /\ qSave'[j] = qSave[j]
                    /\ (j \in drift' <=> j \in lost)
      /\ \/ qSave'[k] # None /\ qSave'[k] = cell'[k]
         \/ qSave'[k] = qSave[k] /\ k \in drift'
         \/ /\ qSave'[k] = qSave[k] /\ Num(cell'[k]) = Num(cells[k])
            /\ (k \in drift' <=> k \in lost)
  BY ServeFacts
<1> HIDE DEF k
<1>3. ASSUME NEW j \in Keys, RowOf[j] \in cached' \ raced', j \notin drift'
      PROVE  Num(cell'[j]) = Num(Newest(j)')
  <2>1. CASE j # k
    BY <1>2, <1>3, <2>1 DEF Newest
  <2>2. CASE j = k
    BY <1>2, <1>3, <2>2 DEF Newest
  <2> QED BY <2>1, <2>2
<1>4. \A j \in Keys : Num(Newest(j))' = Num(Newest(j)') /\ Num(cell[j])' = Num(cell'[j])
  BY DEF Num
<1> QED BY <1>3, <1>4 DEF Coherent

LEMMA CoherentStep ==
  ASSUME IInv, [Next]_vars
  PROVE  Coherent'
<1> USE DEF serverVars, queueVars, dbVars, bounds
<1>0. TypeOK /\ Coherent /\ FreshImages /\ SoleLoader /\ SavedRowsHeld
      /\ StoppedEmpty
  BY DEF IInv
<1>1. ASSUME NEW c \in Clients, HandleHit(c) PROVE Coherent'
  <2>1. /\ Serve(c, cell, drift) /\ UNCHANGED <<bSave, db, raced, cached>>
    BY <1>1 DEF HandleHit
  <2>2. cell \in [Keys -> Val] /\ drift \in SUBSET Keys
    BY <1>0 DEF TypeOK
  <2>3. \A j \in Keys : RowOf[j] \in cached' \ raced /\ j \notin drift
                        => Num(cell[j]) = Num(Newest(j))
    BY <1>0, <2>1 DEF Coherent
  <2> QED BY <1>0, <2>1, <2>2, <2>3, CoherentServe
<1>2. CASE FillRow
  <2> DEFINE c == Head(results)
             r == RowOfCall(c)
             lost == IF img[c].ok THEN drift \ KeysOf(r) ELSE drift \cup KeysOf(r)
  <2>1. /\ c \in Clients /\ r \in Rows /\ Loads(c, r) /\ call[c].st = "ready"
        /\ Filled(c) \in [Keys -> Val] /\ lost \in SUBSET Keys
        /\ Serve(c, Filled(c), lost)
        /\ cached' = cached \cup {r} /\ UNCHANGED <<bSave, db, raced>>
    BY <1>2, FillFacts
  <2>2. ASSUME NEW j \in Keys, RowOf[j] \in cached' \ raced, j \notin lost
        PROVE  Num(Filled(c)[j]) = Num(Newest(j))
    <3>1. CASE RowOf[j] # r
      <4>1. RowOf[j] \in cached \ raced /\ j \notin drift
        BY <2>1, <2>2, <3>1 DEF KeysOf
      <4>2. Filled(c)[j] = cell[j]
        BY <3>1 DEF Filled
      <4> QED BY <1>0, <4>1, <4>2 DEF Coherent
    <3>2. CASE RowOf[j] = r
      <4>1. img[c].ok /\ j \in KeysOf(r)
        BY <2>2, <3>2 DEF KeysOf
      <4>2. r \notin raced
        BY <2>2, <3>2
      <4>3. r \notin cached
        BY <1>0, <2>1, <4>2 DEF SoleLoader
      <4>4. Newest(j) = db[j]
        BY <1>0, <3>2, <4>3 DEF SavedRowsHeld, Pending, Newest
      <4>5. Filled(c)[j] = img[c].row[j]
        BY <3>2, <4>1 DEF Filled
      <4>6. Num(img[c].row[j]) = Num(db[j])
        BY <1>0, <2>1, <4>1, <4>2 DEF FreshImages
      <4> QED BY <4>4, <4>5, <4>6
    <3> QED BY <3>1, <3>2
  <2> HIDE DEF c, lost
  <2> QED BY <1>0, <2>1, <2>2, CoherentServe
<1>3. ASSUME NEW c \in Clients, BindGenerated(c) \/ BindChosen(c)
      PROVE  Coherent'
  <2> DEFINE k == call[c].req.key
  <2>1. PICK K \in SUBSET Keys :
          /\ \A j \in Keys \ K : cell'[j] = cell[j] /\ qSave'[j] = qSave[j]
          /\ \A j \in K : cell'[j] = qSave'[j] /\ qSave'[j] # None
          /\ drift' = drift \ K
    <3>1. k \in Keys /\ GenKey \in Keys /\ NextIid \in Nat
      BY <1>0, CallTypes, NextIidType, KeysAssumption
    <3>2. CASE BindGenerated(c)
      <4>1. /\ cell' = WithIid(cell, k) /\ qSave' = WithIid(qSave, k)
            /\ drift' = drift \ {k, GenKey}
        BY <3>2 DEF BindGenerated
      <4>2. NextIid # None /\ NextIid + 1 # None
        BY <3>1, ValuesAssumption
      <4> {k, GenKey} \in SUBSET Keys
        BY <3>1
      <4> WITNESS {k, GenKey} \in SUBSET Keys
      <4> QED BY <1>0, <3>1, <4>1, <4>2 DEF WithIid, TypeOK
    <3>3. CASE BindChosen(c)
      <4> DEFINE iid == call[c].req.amt
      <4>1. /\ cell' = [cell EXCEPT ![k] = iid] /\ qSave' = [qSave EXCEPT ![k] = iid]
            /\ drift' = drift \ {k}
        BY <3>3 DEF BindChosen
      <4>2. iid # None
        BY <1>0, ValuesAssumption DEF TypeOK
      <4> HIDE DEF iid
      <4> {k} \in SUBSET Keys
        BY <3>1
      <4> WITNESS {k} \in SUBSET Keys
      <4> QED BY <1>0, <3>1, <4>1, <4>2 DEF TypeOK
    <3> QED BY <1>3, <3>2, <3>3
  <2>2. UNCHANGED <<cached, raced, bSave, db>>
    BY <1>3 DEF BindGenerated, BindChosen
  <2> QED BY <1>0, <2>1, <2>2 DEF Coherent, Newest
<1>4. CASE ApplyReload
  <2> DEFINE hit == {k \in Keys : reload[k] # None /\ RowOf[k] \in cached}
             new == {k \in hit : Set(cell[k], reload[k]).put # None}
  <2>1. /\ cell' = [k \in Keys |-> IF k \in hit THEN reload[k] ELSE cell[k]]
        /\ qSave' = [k \in Keys |-> IF k \in new THEN reload[k] ELSE qSave[k]]
        /\ drift' = drift \ new /\ UNCHANGED <<cached, raced, bSave, db>>
    BY <1>4 DEF ApplyReload
  <2>2. \A k \in hit : k \notin new => reload[k] = cell[k]
    BY DEF Set, Outcome, PutIf
  <2>3. \A k \in Keys : \/ cell'[k] = qSave'[k] /\ qSave'[k] # None
                        \/ /\ cell'[k] = cell[k] /\ qSave'[k] = qSave[k]
                           /\ (k \in drift' <=> k \in drift)
    BY <2>1, <2>2
  <2> HIDE DEF hit, new
  <2> QED BY <1>0, <2>1, <2>3 DEF Coherent, Newest
<1>5. ASSUME NEW r \in Rows, Evict(r) PROVE Coherent'
  BY <1>0, <1>5 DEF Evict, Coherent, Newest
<1>6. CASE TakeBatch \/ FinalBatch
  <2>1. /\ bSave = NoVals /\ bSave' = qSave /\ qSave' = NoVals
        /\ UNCHANGED <<cached, raced, cell, drift, db>>
    BY <1>6 DEF TakeBatch, FinalBatch, Grab, BatchEmpty
  <2>2. \A k \in Keys : Newest(k)' = Newest(k)
    BY <2>1 DEF Newest, NoVals
  <2> QED BY <1>0, <2>1, <2>2 DEF Coherent, Num
<1>7. CASE DbGone
  BY <1>0, <1>7 DEF DbGone, Coherent, Newest, NoVals
<1>8. ASSUME NEW k \in Keys, ExecSave(k) PROVE Coherent'
  <2>1. /\ bSave[k] # None /\ db' = [db EXCEPT ![k] = bSave[k]]
        /\ bSave' = [bSave EXCEPT ![k] = None]
        /\ UNCHANGED <<cached, raced, cell, drift, qSave>>
    BY <1>8 DEF ExecSave
  <2>2. \A j \in Keys : Newest(j)' = Newest(j)
    BY <1>0, <2>1 DEF Newest, TypeOK
  <2> QED BY <1>0, <2>1, <2>2 DEF Coherent, Num
<1>9. ASSUME NEW k \in Keys, ExecSaveFail(k) PROVE Coherent'
  <2>1. /\ bSave' = [bSave EXCEPT ![k] = None]
        /\ drift' = IF qSave[k] = None THEN drift \cup {k} ELSE drift
        /\ UNCHANGED <<cached, raced, cell, qSave, db>>
    BY <1>9 DEF ExecSaveFail
  <2>2. \A j \in Keys : j \notin drift' => j \notin drift /\ Newest(j)' = Newest(j)
    BY <1>0, <2>1 DEF Newest, TypeOK
  <2> QED BY <1>0, <2>1, <2>2 DEF Coherent, Num
<1>10. ASSUME NEW c \in Clients, HandleMiss(c) PROVE Coherent'
  <2>1. UNCHANGED <<cached, cell, drift, qSave, bSave, db>>
    BY <1>10 DEF HandleMiss
  <2>2. cached \ raced' \subseteq cached \ raced
    BY <1>10 DEF HandleMiss, Hit
  <2> QED BY <1>0, <2>1, <2>2 DEF Coherent, Newest
<1>11. CASE Crash
  BY <1>11 DEF Crash, Coherent
<1>12. CASE Restart
  <2>1. /\ cached' = WarmRows /\ cell' = WarmCells(db) /\ drift' = WarmDrift(db)
        /\ UNCHANGED <<qSave, bSave, db>> /\ qSave = NoVals /\ bSave = NoVals
    BY <1>0, <1>12 DEF Restart, StoppedEmpty
  <2>2. \A k \in Keys : Newest(k)' = db[k]
    BY <2>1 DEF Newest, NoVals
  <2>3. ASSUME NEW k \in Keys, RowOf[k] \in WarmRows, k \notin WarmDrift(db)
        PROVE  Num(WarmCells(db)[k]) = Num(db[k])
    BY <2>3, ValuesAssumption DEF WarmCells, WarmDrift, Num
  <2> QED BY <2>1, <2>2, <2>3 DEF Coherent, Num
<1>13. ASSUME NEW c \in Clients,
              \/ \E q \in Requests : Send(c, q)
              \/ HandleLookup(c) \/ BindNothing(c)
              \/ ExecLoad(c) \/ ExecLoadFail(c)
       PROVE  Coherent'
  <2>1. UNCHANGED <<cached, raced, cell, drift, qSave, bSave, db>>
    BY <1>13 DEF Send, HandleLookup, BindNothing, ExecLoad, ExecLoadFail, Executed
  <2> QED BY <1>0, <2>1, CoherentKept
<1>14. CASE DropResult \/ FetchForce \/ Stop \/ MainFails \/ Halt
            \/ UNCHANGED vars
  <2>1. UNCHANGED <<cached, raced, cell, drift, qSave, bSave, db>>
    BY <1>14 DEF DropResult, FetchForce, Stop, MainFails, Halt, vars
  <2> QED BY <1>0, <2>1, CoherentKept
<1> QED BY <1>1, <1>2, <1>3, <1>4, <1>5, <1>6, <1>7, <1>8, <1>9, <1>10, <1>11,
           <1>12, <1>13, <1>14
        DEF Next, Handle, PollResult

LEMMA InitInv == Init => IInv
<1> SUFFICES ASSUME Init PROVE IInv
  OBVIOUS
<1>1. TypeOK
  BY InitType
<1>2. Coherent
  <2>1. \A k \in Keys : Newest(k) = InitDb[k]
    BY DEF Init, Newest, NoVals
  <2>2. ASSUME NEW k \in Keys, RowOf[k] \in WarmRows, k \notin WarmDrift(InitDb)
        PROVE  Num(WarmCells(InitDb)[k]) = Num(InitDb[k])
    BY <2>2, ValuesAssumption DEF WarmCells, WarmDrift, Num
  <2> QED BY <2>1, <2>2 DEF Init, Coherent
<1>3. \A c \in Clients : call[c].st \notin LoadStages /\ call[c].st # "ready"
  BY DEF Init, NoCall, LoadStages
<1>4. SoleLoader /\ FreshImages /\ SavedRowsHeld
  BY <1>3 DEF SoleLoader, Loads, FreshImages, SavedRowsHeld, Pending, Init, NoVals
<1>5. ResultsReady /\ StoppedEmpty
  BY DEF ResultsReady, StoppedEmpty, Init
<1> QED BY <1>1, <1>2, <1>4, <1>5 DEF IInv

LEMMA InvStep == IInv /\ [Next]_vars => IInv'
BY TypeStep, CoherentStep, LoaderStep, HeldStep, FreshStep, ResultsStep, StoppedStep
   DEF IInv

(* All the parts of the inductive invariant hold in every behaviour of     *)
(* mem_cache.cpp's main loop and database thread.                          *)
THEOREM Invariance == Spec => []IInv
BY InitInv, InvStep, PTL DEF Spec

(* For every set of keys, rows, clients and requests, a cached cell reads  *)
(* as the database will once its queue is executed.                        *)
THEOREM CacheCoherent == Spec => []Coherent
<1>1. IInv => Coherent
  BY DEF IInv
<1> QED BY <1>1, Invariance, PTL

(* A callback never replaces a cached row unless two misses raced. *)
THEOREM OneLoader == Spec => []SoleLoader
<1>1. IInv => SoleLoader
  BY DEF IInv
<1> QED BY <1>1, Invariance, PTL

(* A clean stop leaves the database with every cell's last content. *)
THEOREM CleanStop == Spec => []CleanStopSaves
<1>1. IInv => CleanStopSaves
  BY DEF IInv, CleanStopSaves, StoppedEmpty, Coherent, Newest, NoVals
<1> QED BY <1>1, Invariance, PTL

-----------------------------------------------------------------------------
(* The cache server implements AtomicStore *)

(* What ApplyReload writes is what the operator put into the table.        *)
ReloadsForced ==
  \A k \in Keys : reload[k] \in {None, ForceSet[k]} /\ forced[k] \in {None, ForceSet[k]}

(* Only commands on a cell wait for a SELECT. *)
LoadOps == \A c \in Clients : call[c].st \in LoadStages => call[c].req.op \in CellOps

(* A command is one of the requests. *)
KnownReqs == \A c \in Clients : call[c].st # "idle" => call[c].req \in Requests

RInv == IInv /\ ReloadsForced /\ LoadOps /\ KnownReqs

LEMMA ReloadsStep == TypeOK /\ ReloadsForced /\ [Next]_vars => ReloadsForced'
<1> SUFFICES ASSUME TypeOK, ReloadsForced, [Next]_vars PROVE ReloadsForced'
  OBVIOUS
<1> USE DEF serverVars, queueVars, dbVars, bounds, ReloadsForced
<1>1. CASE UNCHANGED <<reload, forced>>
  BY <1>1
<1>2. CASE \/ ApplyReload \/ FetchForce \/ Crash \/ Restart
  BY <1>2, NoValsType DEF ApplyReload, FetchForce, Crash, Restart, NoVals, TypeOK
<1>3. ASSUME \/ \E c \in Clients : \/ \E q \in Requests : Send(c, q)
                                   \/ HandleHit(c) \/ HandleMiss(c) \/ HandleLookup(c)
                                   \/ BindNothing(c) \/ BindGenerated(c) \/ BindChosen(c)
                                   \/ ExecLoad(c) \/ ExecLoadFail(c)
             \/ \E k \in Keys : ExecSave(k) \/ ExecSaveFail(k)
             \/ \E r \in Rows : Evict(r)
             \/ FillRow \/ DropResult
             \/ TakeBatch \/ DbGone \/ Stop \/ MainFails \/ FinalBatch \/ Halt
             \/ UNCHANGED vars
      PROVE  UNCHANGED <<reload, forced>>
  BY <1>3 DEF Send, HandleHit, HandleMiss, HandleLookup, BindNothing, BindGenerated,
              BindChosen, ExecLoad, ExecLoadFail, Executed, ExecSave, ExecSaveFail,
              Evict, FillRow, DropResult, TakeBatch, DbGone, Stop, MainFails,
              FinalBatch, Halt, vars
<1> QED BY <1>1, <1>2, <1>3 DEF Next, Handle, PollResult

LEMMA LoadOpsStep ==
  ASSUME IInv, LoadOps, [Next]_vars
  PROVE  LoadOps'
<1> USE DEF serverVars, queueVars, dbVars, bounds
<1>0. TypeOK /\ call \in CallType
  BY CallTypes DEF IInv
<1>1. CASE NoNewLoad
  BY <1>1 DEF NoNewLoad, LoadOps
<1>2. ASSUME NEW c \in Clients, HandleMiss(c) PROVE LoadOps'
  <2>1. call[c].req.op \in CellOps /\ call' = [call EXCEPT ![c].st = "queued"]
    BY <1>2 DEF HandleMiss, Received
  <2> QED BY <1>0, <2>1 DEF LoadOps, CallType
<1>3. ASSUME NEW c \in Clients, ExecLoad(c) \/ ExecLoadFail(c) PROVE LoadOps'
  <2>1. call[c].st = "batched" /\ call' = [call EXCEPT ![c].st = "ready"]
    BY <1>3 DEF ExecLoad, ExecLoadFail, Executed
  <2>2. call[c].req.op \in CellOps
    BY <2>1 DEF LoadOps, LoadStages
  <2> QED BY <1>0, <2>1, <2>2 DEF LoadOps, CallType
<1>4. CASE FillRow
  <2> DEFINE c == Head(results)
             lost == IF img[c].ok THEN drift \ KeysOf(RowOfCall(c))
                     ELSE drift \cup KeysOf(RowOfCall(c))
  <2>1. /\ c \in Clients /\ Filled(c) \in [Keys -> Val] /\ lost \in SUBSET Keys
        /\ Serve(c, Filled(c), lost)
    BY <1>4, FillFacts
  <2> HIDE DEF c, lost
  <2>2. call'[c].st = "done" /\ \A d \in Clients \ {c} : call'[d] = call[d]
    BY <1>0, <2>1, ServeFacts
  <2> QED BY <2>2, <1>1 DEF NoNewLoad, LoadStages
<1>5. CASE DropResult
  BY <1>0, <1>1, <1>5 DEF DropResult, Lose, NoNewLoad, LoadStages, TypeOK
<1>6. CASE Halt \/ Crash
  BY <1>0, <1>6, ClosedCalls DEF Halt, Crash, LoadOps
<1>7. ASSUME \/ \E c \in Clients :
                  \/ \E q \in Requests : Send(c, q)
                  \/ HandleHit(c) \/ HandleLookup(c) \/ BindNothing(c)
                  \/ BindGenerated(c) \/ BindChosen(c)
             \/ TakeBatch \/ FinalBatch \/ DbGone
             \/ \E k \in Keys : ExecSave(k) \/ ExecSaveFail(k)
             \/ \E r \in Rows : Evict(r)
             \/ ApplyReload \/ FetchForce \/ Stop \/ MainFails \/ Restart
             \/ UNCHANGED vars
      PROVE  LoadOps'
  <2>1. CASE TakeBatch \/ FinalBatch
    BY <1>0, <1>1, <2>1, QuietCalls DEF TakeBatch, FinalBatch
  <2>2. CASE UNCHANGED call
    BY <1>0, <1>1, <2>2, QuietCalls
  <2>3. ASSUME \/ \E k \in Keys : ExecSave(k) \/ ExecSaveFail(k)
               \/ \E r \in Rows : Evict(r)
               \/ ApplyReload \/ FetchForce \/ Stop \/ MainFails \/ Restart
               \/ UNCHANGED vars
        PROVE  UNCHANGED call
    BY <2>3 DEF ExecSave, ExecSaveFail, Evict, ApplyReload, FetchForce, Stop,
                MainFails, Restart, vars
  <2> QED BY <1>0, <1>1, <1>7, <2>1, <2>2, <2>3, QuietCalls
<1> QED BY <1>2, <1>3, <1>4, <1>5, <1>6, <1>7 DEF Next, Handle, PollResult

(* Only Send brings a new command. *)
LEMMA KnownReqsStep ==
  ASSUME IInv, KnownReqs, [Next]_vars
  PROVE  KnownReqs'
<1> USE DEF serverVars, queueVars, dbVars, bounds
<1> DEFINE Kept == \A c \in Clients :
                     /\ call'[c].req = call[c].req
                     /\ call[c].st = "idle" => call'[c].st = "idle"
<1>0. TypeOK /\ call \in CallType
  BY CallTypes DEF IInv
<1>1. ASSUME NEW c \in Clients, NEW q \in Requests, Send(c, q) PROVE KnownReqs'
  BY <1>0, <1>1 DEF Send, KnownReqs, CallType
<1>2. ASSUME NEW c \in Clients, NEW ret, NEW val, call[c].st # "idle",
             call' = Answer(c, ret, val)
      PROVE  Kept
  BY <1>0, <1>2 DEF Answer, CallType
<1>16. ASSUME NEW c \in Clients, NEW st, call[c].st # "idle",
             call' = [call EXCEPT ![c].st = st]
      PROVE  Kept
  BY <1>0, <1>16 DEF CallType
<1> HIDE DEF Kept
<1>3. ASSUME NEW S \in SUBSET Clients, \A c \in S : call[c].st # "idle",
             call' = Lose(S)
      PROVE  Kept
  BY <1>0, <1>3 DEF Lose, CallType, Kept
<1>4. ASSUME Grab PROVE Kept
  BY <1>0, <1>4 DEF Grab, CallType, Kept
<1>5. ASSUME NEW c \in Clients, HandleHit(c) PROVE Kept
  <2>1. call[c].st # "idle"
    BY <1>5 DEF HandleHit, Received
  <2>2. PICK ret, val : call' = Answer(c, ret, val)
    BY <1>5 DEF HandleHit, Serve
  <2> QED BY <1>2, <2>1, <2>2
<1>6. ASSUME NEW c \in Clients, HandleMiss(c) \/ ExecLoad(c) \/ ExecLoadFail(c)
      PROVE  Kept
  <2>1. call[c].st # "idle"
    BY <1>6 DEF HandleMiss, ExecLoad, ExecLoadFail, Executed, Received
  <2>2. PICK st : call' = [call EXCEPT ![c].st = st]
    BY <1>6 DEF HandleMiss, ExecLoad, ExecLoadFail, Executed
  <2> QED BY <1>16, <2>1, <2>2
<1>7. ASSUME NEW c \in Clients, HandleLookup(c) PROVE Kept
  <2>1. call[c].st # "idle" /\ call' = Lose({c})
    BY <1>7 DEF HandleLookup, Received
  <2> QED BY <1>3, <2>1
<1>8. ASSUME NEW c \in Clients, BindNothing(c) \/ BindGenerated(c) \/ BindChosen(c)
      PROVE  Kept
  <2>1. call[c].st # "idle"
    BY <1>8 DEF BindNothing, BindGenerated, BindChosen, Received
  <2>2. PICK ret, val : call' = Answer(c, ret, val)
    BY <1>8 DEF BindNothing, BindGenerated, BindChosen
  <2> QED BY <1>2, <2>1, <2>2
<1>9. ASSUME FillRow PROVE Kept
  <2> DEFINE c == Head(results)
  <2>1. c \in Clients /\ call[c].st = "ready"
    BY <1>9, FillFacts
  <2>2. PICK ret, val : call' = Answer(c, ret, val)
    BY <1>9 DEF FillRow, Serve
  <2> QED BY <1>2, <2>1, <2>2
<1>10. ASSUME DropResult PROVE Kept
  <2> DEFINE c == Head(results)
  <2>1. c \in Clients /\ call[c].st = "ready" /\ call' = Lose({c})
    <3>1. results # <<>> /\ results \in Seq(Clients) /\ call' = Lose({c})
      BY <1>0, <1>10 DEF DropResult, TypeOK
    <3>2. c \in Clients /\ c = results[1] /\ 1 \in 1 .. Len(results)
      BY <3>1
    <3> QED BY <3>1, <3>2 DEF IInv, ResultsReady
  <2> QED BY <1>3, <2>1
<1>11. ASSUME Halt \/ Crash PROVE Kept
  <2>1. \A c \in Open : c \in Clients /\ call[c].st # "idle"
    BY DEF Open, LoadStages
  <2>2. call' = Lose(Open)
    BY <1>11 DEF Halt, Crash
  <2> QED BY <1>3, <2>1, <2>2
<1>12. ASSUME DbGone PROVE Kept
  <2>1. call' = Lose({c \in Clients : call[c].st = "queued"})
    BY <1>12 DEF DbGone
  <2> QED BY <1>3, <2>1
<1>13. ASSUME TakeBatch \/ FinalBatch PROVE Kept
  BY <1>4, <1>13 DEF TakeBatch, FinalBatch
<1>14. ASSUME \/ \E k \in Keys : ExecSave(k) \/ ExecSaveFail(k)
              \/ \E r \in Rows : Evict(r)
              \/ ApplyReload \/ FetchForce \/ Stop \/ MainFails \/ Restart
              \/ UNCHANGED vars
       PROVE  Kept
  <2>1. UNCHANGED call
    BY <1>14 DEF ExecSave, ExecSaveFail, Evict, ApplyReload, FetchForce, Stop,
                 MainFails, Restart, vars
  <2> QED BY <2>1 DEF Kept
<1>15. ASSUME Kept PROVE KnownReqs'
  <2>1. ASSUME NEW c \in Clients, call'[c].st # "idle" PROVE call'[c].req \in Requests
    BY <1>15, <2>1 DEF KnownReqs, Kept
  <2> QED BY <2>1 DEF KnownReqs
<1> QED BY <1>1, <1>5, <1>6, <1>7, <1>8, <1>9, <1>10, <1>11, <1>12, <1>13, <1>14, <1>15
        DEF Next, Handle, PollResult

LEMMA RInvariant == Spec => []RInv
<1>1. Init => ReloadsForced
  BY DEF Init, ReloadsForced, NoVals
<1>2. Init => LoadOps
  BY DEF Init, LoadOps, NoCall, LoadStages
<1>3. Init => KnownReqs
  BY DEF Init, KnownReqs, NoCall
<1>5. Init => RInv
  BY <1>1, <1>2, <1>3, InitInv DEF RInv
<1>4. RInv /\ [Next]_vars => RInv'
  BY InvStep, ReloadsStep, LoadOpsStep, KnownReqsStep DEF RInv, IInv
<1> QED BY <1>4, <1>5, PTL DEF Spec

-----------------------------------------------------------------------------
(* The mapping *)

(* The three values a cell may be found with. *)
LEMMA MappedCell ==
  ASSUME NEW k \in Keys
  PROVE  /\ StoreVal[k] = IF RowOf[k] \in cached THEN Num(cell[k]) ELSE Num(db[k])
         /\ StoreVal'[k] = IF RowOf[k] \in cached' THEN Num(cell'[k]) ELSE Num(db'[k])
         /\ StoreKept[k] = {Num(db[k])} \cup ({qSave[k], bSave[k]} \ {None})
         /\ StoreKept'[k] = {Num(db'[k])} \cup ({qSave'[k], bSave'[k]} \ {None})
         /\ k \in StoreLoose <=> k \in drift \/ RowOf[k] \in raced
         /\ k \in StoreLoose' <=> k \in drift' \/ RowOf[k] \in raced'
BY DEF StoreVal, StoreKept, StoreLoose

(* What a cell holds is among what a crash may leave of it. *)
HeldIsKept == \A k \in Keys \ StoreLoose : StoreVal[k] \in StoreKept[k]

LEMMA KeptHolds == IInv => HeldIsKept
<1> SUFFICES ASSUME IInv, NEW k \in Keys, k \notin StoreLoose
             PROVE  StoreVal[k] \in StoreKept[k]
  BY DEF HeldIsKept
<1>1. Num(Newest(k)) \in StoreKept[k]
  BY MappedCell DEF Newest, Num
<1>2. CASE RowOf[k] \in cached
  BY <1>1, <1>2, MappedCell DEF IInv, Coherent
<1>3. CASE RowOf[k] \notin cached
  BY <1>3, MappedCell
<1> QED BY <1>2, <1>3

LEMMA KeptHoldsNext == IInv' => HeldIsKept'
BY KeptHolds, PTL

(* The cells outside S keep their value, and what a crash may leave of     *)
(* them does not grow.                                                     *)
LEMMA WritesIntro ==
  ASSUME NEW S, IInv',
         \A k \in Keys \ (StoreLoose \cup StoreLoose') :
           IF k \in S THEN StoreKept'[k] \subseteq StoreKept[k] \cup {StoreVal'[k]}
           ELSE StoreVal'[k] = StoreVal[k] /\ StoreKept'[k] \subseteq StoreKept[k]
  PROVE  Store!Writes(S)
<1>1. \A k \in Keys \ StoreLoose' : StoreVal'[k] \in StoreKept'[k]
  BY KeptHoldsNext DEF HeldIsKept
<1> QED BY <1>1 DEF Store!Writes

(* Steps that touch neither cells nor queue nor database. *)
LEMMA WritesNothing ==
  ASSUME IInv', UNCHANGED <<cached, cell, db, qSave, bSave>>
  PROVE  Store!Writes({})
<1>1. \A k \in Keys : StoreVal'[k] = StoreVal[k] /\ StoreKept'[k] = StoreKept[k]
  BY MappedCell
<1> QED BY <1>1, WritesIntro

(* The commands as the store sees them. *)
LEMMA MappedAsk ==
  ASSUME TypeOK, NEW c \in Clients
  PROVE  /\ StoreAsk[c] = [st |-> IF call[c].st \in LoadStages \cup {"sent"} THEN "open"
                                  ELSE call[c].st,
                           req |-> call[c].req, ret |-> call[c].ret, val |-> call[c].val]
         /\ StoreAsk[c].st = "open" <=> call[c].st \in LoadStages \cup {"sent"}
         /\ StoreAsk[c].req = call[c].req
BY DEF TypeOK, StoreAsk, Stages, LoadStages

LEMMA MappedAskNext ==
  ASSUME TypeOK', NEW c \in Clients
  PROVE  /\ StoreAsk'[c] = [st |-> IF call'[c].st \in LoadStages \cup {"sent"} THEN "open"
                                   ELSE call'[c].st,
                            req |-> call'[c].req, ret |-> call'[c].ret,
                            val |-> call'[c].val]
         /\ StoreAsk'[c].st = "open" <=> call'[c].st \in LoadStages \cup {"sent"}
BY DEF TypeOK, StoreAsk, Stages, LoadStages

(* Initially nothing but the database's value can be found. *)
LEMMA MappedInit == Init => Store!Init
<1> SUFFICES ASSUME Init PROVE Store!Init
  OBVIOUS
<1>1. IInv
  BY InitInv
<1>2. ASSUME NEW k \in Keys, k \notin StoreLoose
      PROVE  StoreVal[k] = Num(InitDb[k]) /\ StoreKept[k] = {StoreVal[k]}
  <2>1. StoreKept[k] = {Num(InitDb[k])}
    BY MappedCell DEF Init, NoVals
  <2>2. StoreVal[k] \in StoreKept[k]
    BY <1>1, <1>2, KeptHolds DEF HeldIsKept
  <2> QED BY <2>1, <2>2
<1>3. \A c \in Clients : StoreAsk[c].st = "idle"
  BY <1>1, MappedAsk DEF Init, NoCall, IInv, LoadStages
<1>4. StoreMode = "on" /\ StoreBlind = {}
  BY DEF StoreMode, StoreBlind, Init, NoCall
<1> QED BY <1>2, <1>3, <1>4 DEF Store!Init

-----------------------------------------------------------------------------
(* A command on one cell *)

LEMMA PerformEffect ==
  ASSUME NEW req \in [cl : Clients \cup {None}, op : CellOps, key : Keys, amt : Nat],
         NEW old \in Val
  PROVE  LET out == Perform(req, old)
             e == Store!Effect(req.op, old, req.amt)
         IN  out.ret = e.ret /\ out.val = e.val /\ out.new = e.new
<1> USE ValuesAssumption DEF Val, Num, Outcome, PutIf, Perform, Store!Effect,
                             Store!Reply, Store!Num
<1>1. CASE req.op = "ADD"
  BY <1>1 DEF Add
<1>2. CASE req.op = "COST"
  BY <1>2 DEF Cost
<1>3. CASE req.op = "COST_ALL"
  BY <1>3 DEF CostAll
<1>4. CASE req.op = "SET"
  BY <1>4 DEF Set
<1>5. CASE req.op = "GET"
  BY <1>5 DEF Get
<1> QED BY <1>1, <1>2, <1>3, <1>4, <1>5 DEF CellOps

(* A command served on a cell that holds what the store says, or that      *)
(* could not be read, is an execution of the store.                        *)
LEMMA ServeExecutes ==
  ASSUME NEW c \in Clients, NEW cells \in [Keys -> Val], NEW lost \in SUBSET Keys,
         IInv, IInv', Serve(c, cells, lost),
         call[c].st \in LoadStages \cup {"sent"}, call[c].req.op \in CellOps,
         up = "running", RowOfCall(c) \in cached',
         UNCHANGED <<up, bSave, db, img>>,
         NEW k, k = call[c].req.key,
         \A j \in Keys \ {k} :
           j \notin StoreLoose \cup StoreLoose' => StoreVal'[j] = StoreVal[j],
         c \in StoreBlind => cells[k] = None,
         c \notin StoreBlind /\ k \notin StoreLoose =>
           cells[k] \in Store!Contents(StoreVal[k])
  PROVE  Store!Execute(c)
<1> DEFINE req == call[c].req
           out == Perform(req, cells[k])
<1>0. TypeOK /\ TypeOK'
  BY DEF IInv
<1>1. /\ req \in [cl : Clients \cup {None}, op : CellOps, key : Keys, amt : Nat]
      /\ req \in [cl : Clients \cup {None}, op : Ops, key : Keys, amt : Nat]
      /\ k \in Keys /\ k = req.key /\ cells[k] \in Val
  BY <1>0 DEF TypeOK
<1>2. out \in [ret : Codes, val : Nat, new : Val, put : Val]
  BY <1>1, PerformType
<1>3. LET e == Store!Effect(req.op, cells[k], req.amt)
      IN  out.ret = e.ret /\ out.val = e.val /\ out.new = e.new
  BY <1>1, PerformEffect
<1> HIDE DEF out
<1>4. /\ cell' = [cells EXCEPT ![k] = out.new]
      /\ call' = Answer(c, out.ret, out.val)
  BY <1>1 DEF Serve, out
<1> HIDE DEF req
<1>5. StoreVal'[k] = Num(out.new)
  <2>1. cell'[k] = out.new
    BY <1>1, <1>4
  <2> QED BY <1>1, <2>1, MappedCell DEF RowOfCall, req
<1>6. Store!Writes({k})
  <2>0. \A j \in Keys \ {k} : qSave'[j] = qSave[j]
    BY <1>0, ServeFacts
  <2>1. ASSUME NEW j \in Keys \ {k} PROVE StoreKept'[j] = StoreKept[j]
    BY <2>0, MappedCell DEF StoreKept
  <2>2. qSave'[k] = qSave[k] \/ (qSave'[k] # None /\ qSave'[k] = cell'[k])
    BY <1>0, ServeFacts
  <2>3. StoreKept'[k] \subseteq StoreKept[k] \cup {StoreVal'[k]}
    <3>1. CASE qSave'[k] = qSave[k]
      BY <1>1, <3>1, MappedCell
    <3>2. CASE qSave'[k] # None /\ qSave'[k] = cell'[k]
      <4>0. cell'[k] = out.new
        BY <1>1, <1>4
      <4>1. StoreVal'[k] = qSave'[k]
        BY <1>5, <3>2, <4>0 DEF Num
      <4> QED BY <1>1, <4>1, MappedCell
    <3> QED BY <2>2, <3>1, <3>2
  <2> QED BY <2>1, <2>3, WritesIntro
<1>7. /\ StoreMode = "on" /\ StoreMode' = StoreMode
      /\ StoreAsk[c].st = "open" /\ StoreAsk[c].req = req
  <2>1. StoreMode = "on" /\ StoreMode' = StoreMode
    BY DEF StoreMode
  <2>2. StoreAsk[c].st = "open"
    BY <1>0, MappedAsk
  <2>3. StoreAsk[c].req = req
    BY <1>0, MappedAsk DEF req
  <2> QED BY <2>1, <2>2, <2>3
<1>8. /\ StoreAsk' = [StoreAsk EXCEPT ![c] =
             [st |-> "done", req |-> req, ret |-> out.ret, val |-> out.val]]
      /\ StoreBlind' = StoreBlind \ {c}
      /\ StoreAsk'[c].ret = out.ret /\ StoreAsk'[c].val = out.val
  <2>1. call' = [call EXCEPT ![c] = [st |-> "done", req |-> req, ret |-> out.ret,
                                     val |-> out.val]]
    BY <1>4 DEF Answer, req
  <2>2. call \in CallType
    BY <1>0, CallTypes
  <2>6. call'[c] = [st |-> "done", req |-> req, ret |-> out.ret, val |-> out.val]
        /\ \A d \in Clients \ {c} : call'[d] = call[d]
    BY <2>1, <2>2 DEF CallType
  <2>7. StoreAsk'[c] = [st |-> "done", req |-> req, ret |-> out.ret, val |-> out.val]
    BY <1>0, <2>6, MappedAskNext DEF LoadStages
  <2>8. ASSUME NEW d \in Clients \ {c} PROVE StoreAsk'[d] = StoreAsk[d]
    <3>1. call'[d] = call[d]
      BY <2>6
    <3> QED BY <3>1 DEF StoreAsk
  <2>3. StoreAsk' = [StoreAsk EXCEPT ![c] =
             [st |-> "done", req |-> req, ret |-> out.ret, val |-> out.val]]
    <3>1. /\ StoreAsk = [d \in Clients |-> StoreAsk[d]]
          /\ StoreAsk' = [d \in Clients |-> StoreAsk'[d]]
      BY DEF StoreAsk
    <3> QED BY <2>7, <2>8, <3>1
  <2>4. StoreBlind' = StoreBlind \ {c}
    BY <2>1, <2>2 DEF StoreBlind, CallType
  <2>5. StoreAsk'[c] = [st |-> "done", req |-> req, ret |-> out.ret, val |-> out.val]
    BY <2>3 DEF StoreAsk
  <2> QED BY <2>3, <2>4, <2>5
<1>9. c \in StoreBlind \/ k \notin StoreLoose \cup StoreLoose' =>
        cells[k] \in IF c \in StoreBlind THEN {None} ELSE Store!Contents(StoreVal[k])
  OBVIOUS
<1>10. Num(out.new) = Store!Num(out.new)
  BY DEF Num, Store!Num
<1>11. Store!Answers(c, StoreAsk'[c].ret, StoreAsk'[c].val)
  BY <1>7, <1>8 DEF Store!Answers
<1>12. req.op \in Store!CellOps
  BY <1>1 DEF Store!CellOps, CellOps
<1>13. c \in StoreBlind \/ k \notin StoreLoose \cup StoreLoose' =>
         \E old \in IF c \in StoreBlind THEN {None} ELSE Store!Contents(StoreVal[k]) :
           LET e == Store!Effect(req.op, old, req.amt)
           IN  /\ StoreAsk'[c].ret = e.ret /\ StoreAsk'[c].val = e.val
               /\ StoreVal'[k] = Store!Num(e.new)
  BY <1>3, <1>5, <1>8, <1>9, <1>10
<1> QED BY <1>1, <1>6, <1>7, <1>8, <1>11, <1>12, <1>13 DEF Store!Execute

-----------------------------------------------------------------------------
(* The other steps *)

(* A command that changes hands inside the server is still open. *)
LEMMA SameAsk ==
  ASSUME TypeOK, TypeOK',
         \A c \in Clients :
           \/ call'[c] = call[c]
           \/ /\ call[c].st \in LoadStages \cup {"sent"}
              /\ call'[c].st \in LoadStages \cup {"sent"}
              /\ call'[c].req = call[c].req /\ call'[c].ret = call[c].ret
              /\ call'[c].val = call[c].val
  PROVE  StoreAsk' = Store!Lost({})
<1>1. ASSUME NEW c \in Clients PROVE StoreAsk'[c] = StoreAsk[c]
  <2>1. CASE call'[c] = call[c]
    BY <2>1 DEF StoreAsk
  <2>2. CASE call'[c] # call[c]
    BY <2>2 DEF StoreAsk
  <2> QED BY <2>1, <2>2
<1> QED BY <1>1 DEF StoreAsk, Store!Lost

LEMMA LoseAsk ==
  ASSUME TypeOK, TypeOK', NEW S \in SUBSET Clients, call' = Lose(S)
  PROVE  StoreAsk' = Store!Lost(S)
<1>0. call \in CallType
  BY CallTypes
<1>1. ASSUME NEW c \in S PROVE StoreAsk'[c] = [StoreAsk[c] EXCEPT !.st = "lost"]
  <2>1. call'[c] = [call[c] EXCEPT !.st = "lost"]
    BY <1>1 DEF Lose
  <2>2. /\ call'[c].st = "lost" /\ call'[c].req = call[c].req
        /\ call'[c].ret = call[c].ret /\ call'[c].val = call[c].val
    BY <1>0, <1>1, <2>1 DEF CallType
  <2>3. "lost" \notin LoadStages \cup {"sent"}
    BY DEF LoadStages
  <2>4. StoreAsk'[c] = [st |-> "lost", req |-> call[c].req, ret |-> call[c].ret,
                        val |-> call[c].val]
    BY <1>1, <2>2, <2>3, MappedAskNext
  <2>5. StoreAsk[c] = [st |-> StoreAsk[c].st, req |-> call[c].req,
                       ret |-> call[c].ret, val |-> call[c].val]
    BY <1>1 DEF StoreAsk
  <2> QED BY <2>4, <2>5
<1>2. ASSUME NEW c \in Clients \ S PROVE StoreAsk'[c] = StoreAsk[c]
  <2>1. call'[c] = call[c]
    BY <1>2 DEF Lose
  <2> QED BY <2>1 DEF StoreAsk
<1> QED BY <1>1, <1>2 DEF StoreAsk, Store!Lost

LEMMA OpenAsk ==
  ASSUME TypeOK
  PROVE  Store!Open = Open
BY MappedAsk DEF Store!Open, Open

LEMMA ToInternal ==
  ASSUME TypeOK, StoreMode' = StoreMode, Store!Writes({}),
         NEW S \in SUBSET Open, StoreAsk' = Store!Lost(S)
  PROVE  Store!Internal
<1>1. StoreBlind' \subseteq Clients
  BY DEF StoreBlind
<1> QED BY <1>1, OpenAsk DEF Store!Internal

LEMMA SendStep ==
  ASSUME RInv, IInv', NEW c \in Clients, NEW q \in Requests, Send(c, q)
  PROVE  Store!Issue(c, q)
<1>0. TypeOK /\ TypeOK' /\ call \in CallType
  BY CallTypes DEF RInv, IInv
<1>1. /\ up = "running" /\ up' = up
      /\ call[c].st \in {"idle", "done", "lost"}
      /\ call' = [call EXCEPT ![c] = [st |-> "sent", req |-> q, ret |-> "none", val |-> 0]]
      /\ UNCHANGED <<cached, cell, db, qSave, bSave, img>>
  BY DEF Send, serverVars, queueVars, dbVars
<1>2. /\ call'[c] = [st |-> "sent", req |-> q, ret |-> "none", val |-> 0]
      /\ \A d \in Clients \ {c} : call'[d] = call[d]
  BY <1>0, <1>1 DEF CallType
<1>3. StoreAsk'[c] = [st |-> "open", req |-> q, ret |-> "none", val |-> 0]
  BY <1>0, <1>2, MappedAskNext
<1>4. \A d \in Clients \ {c} : StoreAsk'[d] = StoreAsk[d]
  BY <1>2 DEF StoreAsk
<1>5. StoreAsk' = [StoreAsk EXCEPT ![c] = [st |-> "open", req |-> q, ret |-> "none",
                                          val |-> 0]]
  BY <1>3, <1>4 DEF StoreAsk
<1>6. StoreAsk[c].st # "open"
  BY <1>0, <1>1, MappedAsk DEF LoadStages
<1>7. StoreBlind' = StoreBlind
  <2>1. \A d \in Clients : call'[d].st = "ready" <=> call[d].st = "ready"
    BY <1>1, <1>2
  <2> QED BY <1>1, <2>1 DEF StoreBlind
<1>8. StoreMode = "on" /\ StoreMode' = StoreMode
  BY <1>1 DEF StoreMode
<1> QED BY <1>1, <1>5, <1>6, <1>7, <1>8, WritesNothing DEF Store!Issue

LEMMA HitStep ==
  ASSUME RInv, IInv', NEW c \in Clients, HandleHit(c)
  PROVE  Store!Execute(c)
<1> DEFINE k == call[c].req.key
<1>0. IInv /\ TypeOK /\ k \in Keys
  BY CallTypes DEF RInv, IInv
<1>1. /\ Serve(c, cell, drift) /\ call[c].st = "sent" /\ call[c].req.op \in CellOps
      /\ up = "running" /\ RowOfCall(c) \in cached
      /\ UNCHANGED <<cached, up, bSave, db, img>>
  BY DEF HandleHit, Received, Hit, dbVars
<1>2. cell \in [Keys -> Val] /\ drift \in SUBSET Keys
  BY <1>0 DEF TypeOK
<1>3. \A j \in Keys \ {k} : StoreVal'[j] = StoreVal[j]
  <2>1. \A j \in Keys \ {k} : cell'[j] = cell[j]
    BY <1>0, <1>1, <1>2, ServeFacts
  <2> QED BY <1>1, <2>1, MappedCell
<1>4. c \notin StoreBlind
  BY <1>1 DEF StoreBlind
<1>5. cell[k] \in Store!Contents(StoreVal[k])
  BY <1>0, <1>1, MappedCell DEF RowOfCall, Store!Contents, Num
<1> HIDE DEF k
<1> QED BY <1>0, <1>1, <1>2, <1>3, <1>4, <1>5, ServeExecutes DEF k

LEMMA AnswerAsk ==
  ASSUME TypeOK, TypeOK', NEW c \in Clients, NEW ret, NEW v,
         call[c].st = "sent", call' = Answer(c, ret, v), img' = img
  PROVE  /\ Store!Answers(c, ret, v) /\ StoreAsk'[c].ret = ret
         /\ StoreBlind' = StoreBlind
<1>1. /\ call'[c] = [st |-> "done", req |-> call[c].req, ret |-> ret, val |-> v]
      /\ \A d \in Clients \ {c} : call'[d] = call[d]
  BY CallTypes DEF Answer, CallType
<1>2. StoreAsk'[c] = [st |-> "done", req |-> call[c].req, ret |-> ret, val |-> v]
  BY <1>1, MappedAskNext DEF LoadStages
<1>3. ASSUME NEW d \in Clients \ {c} PROVE StoreAsk'[d] = StoreAsk[d]
  <2>1. call'[d] = call[d]
    BY <1>1
  <2> QED BY <2>1 DEF StoreAsk
<1>4. /\ StoreAsk = [d \in Clients |-> StoreAsk[d]]
      /\ StoreAsk' = [d \in Clients |-> StoreAsk'[d]]
  BY DEF StoreAsk
<1>5. StoreAsk[c].req = call[c].req
  BY MappedAsk
<1>6. StoreAsk' = [StoreAsk EXCEPT ![c] = [st |-> "done", req |-> StoreAsk[c].req,
                                          ret |-> ret, val |-> v]]
  BY <1>2, <1>3, <1>4, <1>5
<1>7. \A d \in Clients : call'[d].st = "ready" <=> call[d].st = "ready"
  BY <1>1
<1> QED BY <1>2, <1>6, <1>7 DEF Store!Answers, StoreBlind

LEMMA BindFacts ==
  ASSUME TypeOK, NEW c \in Clients, Received(c, {"BIND"})
  PROVE  Store!Asked(c, "BIND") /\ StoreAsk[c].req = call[c].req /\ StoreMode = "on"
BY MappedAsk DEF Received, Store!Asked, StoreMode

LEMMA BindNothingStep ==
  ASSUME RInv, IInv', NEW c \in Clients, BindNothing(c)
  PROVE  Store!BindRefused(c)
<1>0. TypeOK /\ TypeOK'
  BY DEF RInv, IInv
<1>1. PICK ret : call' = Answer(c, ret, 0)
  BY DEF BindNothing
<1>2. /\ Received(c, {"BIND"}) /\ call[c].st = "sent"
      /\ UNCHANGED <<cached, cell, db, qSave, bSave, img, up>>
  BY DEF BindNothing, Received, serverVars, queueVars, dbVars
<1>3. StoreMode' = StoreMode
  BY <1>2 DEF StoreMode
<1>4. Store!Answers(c, StoreAsk'[c].ret, 0) /\ StoreBlind' = StoreBlind
  BY <1>0, <1>1, <1>2, AnswerAsk
<1> QED BY <1>0, <1>2, <1>3, <1>4, BindFacts, WritesNothing DEF Store!BindRefused

(* BIND works on cached rows; it queues what it writes. *)
LEMMA BindChosenStep ==
  ASSUME RInv, IInv', NEW c \in Clients, BindChosen(c)
  PROVE  Store!BindChosen(c)
<1> DEFINE k == call[c].req.key
           iid == call[c].req.amt
<1>0. TypeOK /\ TypeOK' /\ k \in Keys /\ iid \in Nat
  BY CallTypes DEF RInv, IInv, TypeOK
<1>1. /\ Received(c, {"BIND"}) /\ call[c].st = "sent"
      /\ RowOf[k] \in cached /\ cell[k] = 0 /\ iid # 0
      /\ cell' = [cell EXCEPT ![k] = iid] /\ qSave' = [qSave EXCEPT ![k] = iid]
      /\ call' = Answer(c, "success", iid)
      /\ UNCHANGED <<cached, db, bSave, img, up>>
  <2>1. BindRefusal(k, iid) = "none"
    BY DEF BindChosen
  <2>2. RowOf[k] \in cached
    BY <2>1 DEF BindRefusal
  <2> QED BY <2>2 DEF BindChosen, Received, dbVars
<1> HIDE DEF k, iid
<1>2. StoreVal[k] = 0 /\ StoreVal'[k] = iid
  BY <1>0, <1>1, MappedCell, ValuesAssumption DEF TypeOK, Num
<1>3. Store!Writes({k})
  <2>1. ASSUME NEW j \in Keys \ {k}
        PROVE  StoreVal'[j] = StoreVal[j] /\ StoreKept'[j] = StoreKept[j]
    <3>1. cell'[j] = cell[j] /\ qSave'[j] = qSave[j]
      BY <1>0, <1>1 DEF TypeOK
    <3> QED BY <1>1, <3>1 DEF StoreVal, StoreKept
  <2>2. StoreKept'[k] \subseteq StoreKept[k] \cup {StoreVal'[k]}
    BY <1>0, <1>1, <1>2, MappedCell DEF TypeOK
  <2> QED BY <2>1, <2>2, WritesIntro
<1>4. StoreMode' = StoreMode
  BY <1>1 DEF StoreMode
<1>5. Store!Answers(c, "success", iid) /\ StoreBlind' = StoreBlind
  BY <1>0, <1>1, AnswerAsk
<1> QED BY <1>0, <1>1, <1>2, <1>3, <1>4, <1>5, BindFacts DEF Store!BindChosen, k, iid

LEMMA BindGeneratedStep ==
  ASSUME RInv, IInv', NEW c \in Clients, BindGenerated(c)
  PROVE  Store!BindNext(c)
<1> DEFINE k == call[c].req.key
           n == NextIid
<1>0. TypeOK /\ TypeOK' /\ k \in Keys /\ GenKey \in Keys /\ n \in Nat
  BY CallTypes, NextIidType, KeysAssumption DEF RInv, IInv
<1>1. /\ Received(c, {"BIND"}) /\ call[c].st = "sent" /\ call[c].req.op = "BIND"
      /\ RowOf[k] \in cached /\ RowOf[GenKey] \in cached /\ cell[k] \in {0, None}
      /\ cell' = WithIid(cell, k) /\ qSave' = WithIid(qSave, k)
      /\ call' = Answer(c, "success", call[c].req.amt)
      /\ UNCHANGED <<cached, db, bSave, img, up>>
  <2>1. /\ BindRefusal(k, call[c].req.amt) = "none"
        /\ cell[k] = None \/ call[c].req.amt = 0
    BY DEF BindGenerated
  <2>2. RowOf[k] \in cached /\ RowOf[GenKey] \in cached /\ cell[k] \in {0, None}
    BY <2>1, ValuesAssumption DEF BindRefusal, GenRow
  <2> QED BY <2>2 DEF BindGenerated, Received, dbVars
<1>2. k # GenKey
  <2>1. call[c].req \in Requests
    BY <1>1 DEF RInv, KnownReqs
  <2>2. \E r \in MainRows : k = IidOf[r]
    BY <1>1, <2>1, BindAssumption
  <2> QED BY <2>2, KeysAssumption
<1> HIDE DEF k, n
<1>3. /\ cell'[k] = n /\ cell'[GenKey] = n + 1
      /\ qSave'[k] = n /\ qSave'[GenKey] = n + 1
      /\ \A j \in Keys \ {k, GenKey} : cell'[j] = cell[j] /\ qSave'[j] = qSave[j]
  <2>1. cell \in [Keys -> Val] /\ qSave \in [Keys -> Val]
    BY <1>0 DEF TypeOK
  <2> QED BY <1>0, <1>1, <1>2, <2>1 DEF WithIid, n
<1>4. /\ StoreVal[k] = 0 /\ StoreVal'[k] = n /\ StoreVal'[GenKey] = n + 1
      /\ StoreVal[GenKey] = Num(cell[GenKey])
  <2>1. n # None /\ n + 1 # None
    BY <1>0, ValuesAssumption
  <2> QED BY <1>0, <1>1, <1>3, <2>1, MappedCell DEF Num
<1>5. n = IF StoreVal[GenKey] < IidStart THEN IidStart ELSE StoreVal[GenKey]
  BY <1>4 DEF n, NextIid
<1>6. Store!Writes({k, GenKey})
  <2>1. ASSUME NEW j \in Keys \ {k, GenKey}
        PROVE  StoreVal'[j] = StoreVal[j] /\ StoreKept'[j] = StoreKept[j]
    <3>1. cell'[j] = cell[j] /\ qSave'[j] = qSave[j]
      BY <1>3
    <3> QED BY <1>1, <3>1 DEF StoreVal, StoreKept
  <2>2. ASSUME NEW j \in {k, GenKey}
        PROVE  StoreKept'[j] \subseteq StoreKept[j] \cup {StoreVal'[j]}
    BY <1>0, <1>1, <1>3, <1>4, MappedCell
  <2> QED BY <2>1, <2>2, WritesIntro
<1>7. StoreMode' = StoreMode
  BY <1>1 DEF StoreMode
<1>8. Store!Answers(c, "success", call[c].req.amt) /\ StoreBlind' = StoreBlind
  BY <1>0, <1>1, AnswerAsk
<1> QED BY <1>0, <1>1, <1>4, <1>5, <1>6, <1>7, <1>8, BindFacts DEF Store!BindNext, k

(* The callback: the cells of the row become what the SELECT returned, and *)
(* the command that asked for them is executed.                            *)
LEMMA FillStep ==
  ASSUME RInv, IInv', FillRow
  PROVE  \E c \in Clients : Store!Execute(c)
<1> DEFINE c == Head(results)
           r == RowOfCall(c)
           lost == IF img[c].ok THEN drift \ KeysOf(r) ELSE drift \cup KeysOf(r)
           k == call[c].req.key
<1>0. IInv /\ TypeOK
  BY DEF RInv, IInv
<1>1. /\ c \in Clients /\ r \in Rows /\ Loads(c, r) /\ call[c].st = "ready"
      /\ Filled(c) \in [Keys -> Val] /\ lost \in SUBSET Keys
      /\ Serve(c, Filled(c), lost)
      /\ cached' = cached \cup {r} /\ up = "running"
      /\ UNCHANGED <<bSave, db, img, raced>>
  BY <1>0, FillFacts
<1>2. up' = up
  BY DEF FillRow
<1>3. k \in Keys /\ RowOf[k] = r /\ call[c].req.op \in CellOps
  BY <1>0, <1>1, CallTypes DEF RowOfCall, RInv, LoadOps, LoadStages
<1>4. r \notin raced => r \notin cached
  BY <1>0, <1>1 DEF IInv, SoleLoader
<1>5. \A j \in Keys : RowOf[j] = r => Filled(c)[j] = IF img[c].ok THEN img[c].row[j]
                                                     ELSE None
  BY DEF Filled
<1>6. \A j \in Keys : RowOf[j] # r => Filled(c)[j] = cell[j]
  BY DEF Filled
<1>7. img[c].ok /\ r \notin raced =>
        \A j \in Keys : RowOf[j] = r => Num(img[c].row[j]) = Num(db[j])
  BY <1>0, <1>1 DEF IInv, FreshImages, KeysOf
<1>8. c \in StoreBlind <=> ~img[c].ok
  BY <1>1 DEF StoreBlind
<1>9. \A j \in Keys : ~img[c].ok /\ RowOf[j] = r => j \in lost
  BY DEF KeysOf
<1> HIDE DEF c, r, lost, k
<1>10. \A j \in Keys \ {k} : cell'[j] = Filled(c)[j] /\ (j \in drift' <=> j \in lost)
  BY <1>0, <1>1, ServeFacts DEF k
<1>11. ASSUME NEW j \in Keys \ {k}, j \notin StoreLoose \cup StoreLoose'
       PROVE  StoreVal'[j] = StoreVal[j]
  <2>1. j \notin drift' /\ RowOf[j] \notin raced
    BY <1>11, MappedCell
  <2>2. CASE RowOf[j] # r
    BY <1>1, <1>6, <1>10, <2>2 DEF StoreVal
  <2>3. CASE RowOf[j] = r
    <3>1. img[c].ok /\ r \notin raced /\ r \notin cached
      BY <1>4, <1>9, <1>10, <2>1, <2>3
    <3>2. cell'[j] = img[c].row[j]
      BY <1>5, <1>10, <2>3, <3>1
    <3>3. StoreVal'[j] = Num(cell'[j]) /\ StoreVal[j] = Num(db[j])
      BY <1>1, <2>3, <3>1, MappedCell
    <3> QED BY <1>7, <2>3, <3>1, <3>2, <3>3
  <2> QED BY <2>2, <2>3
<1>12. c \in StoreBlind => Filled(c)[k] = None
  BY <1>3, <1>5, <1>8
<1>13. ASSUME c \notin StoreBlind, k \notin StoreLoose
       PROVE  Filled(c)[k] \in Store!Contents(StoreVal[k])
  <2>1. img[c].ok /\ r \notin raced /\ r \notin cached
    BY <1>3, <1>4, <1>8, <1>13, MappedCell
  <2>2. Filled(c)[k] = img[c].row[k] /\ StoreVal[k] = Num(db[k])
    BY <1>3, <1>5, <2>1, MappedCell
  <2>3. StoreVal[k] = Num(Filled(c)[k])
    BY <1>3, <1>7, <2>1, <2>2
  <2> QED BY <2>3 DEF Store!Contents, Num
<1>14. /\ call[c].st \in LoadStages \cup {"sent"} /\ RowOfCall(c) \in cached'
       /\ UNCHANGED <<up, bSave, db, img>>
  BY <1>1, <1>2 DEF Loads, r
<1>15. Store!Execute(c)
  BY <1>0, <1>1, <1>3, <1>11, <1>12, <1>13, <1>14, ServeExecutes DEF k
<1> QED BY <1>1, <1>15

LEMMA DropStep ==
  ASSUME RInv, IInv', DropResult
  PROVE  Store!Internal
<1> DEFINE c == Head(results)
<1>0. IInv /\ TypeOK /\ TypeOK'
  BY DEF RInv, IInv
<1>1. results # <<>> /\ results \in Seq(Clients)
  BY <1>0 DEF DropResult, TypeOK
<1>2. c \in Clients /\ c = results[1] /\ 1 \in 1 .. Len(results)
  BY <1>1
<1>3. call[c].st = "ready" /\ call' = Lose({c})
  BY <1>0, <1>2 DEF IInv, ResultsReady, DropResult
<1>4. UNCHANGED <<cached, cell, db, qSave, bSave, up>>
  BY DEF DropResult, serverVars, dbVars
<1>5. StoreMode' = StoreMode
  BY <1>4 DEF StoreMode
<1> HIDE DEF c
<1>6. {c} \in SUBSET Open
  BY <1>2, <1>3 DEF Open, LoadStages
<1>7. StoreAsk' = Store!Lost({c})
  BY <1>0, <1>2, <1>3, LoseAsk
<1> QED BY <1>0, <1>4, <1>5, <1>6, <1>7, WritesNothing, ToInternal

(* Steps that only move a command on, or concern neither cells nor         *)
(* commands.                                                               *)
LEMMA QuietStep ==
  ASSUME RInv, IInv',
         \/ \E c \in Clients : HandleMiss(c) \/ ExecLoad(c) \/ ExecLoadFail(c)
         \/ FetchForce
  PROVE  Store!Internal
<1> USE DEF serverVars, queueVars, dbVars
<1>0. TypeOK /\ TypeOK' /\ call \in CallType
  BY CallTypes DEF RInv, IInv
<1>1. UNCHANGED <<cached, cell, db, qSave, bSave, up>>
  BY DEF HandleMiss, ExecLoad, ExecLoadFail, Executed, FetchForce
<1>2. StoreMode' = StoreMode
  BY <1>1 DEF StoreMode
<1>3. StoreAsk' = Store!Lost({})
  <2>1. ASSUME NEW c \in Clients, HandleMiss(c) \/ ExecLoad(c) \/ ExecLoadFail(c)
        PROVE  StoreAsk' = Store!Lost({})
    <3>1. /\ call[c].st \in {"sent", "batched"}
          /\ \/ call' = [call EXCEPT ![c].st = "queued"]
             \/ call' = [call EXCEPT ![c].st = "ready"]
      BY <2>1 DEF HandleMiss, Received, ExecLoad, ExecLoadFail, Executed
    <3>2. /\ call'[c].st \in {"queued", "ready"} /\ call'[c].req = call[c].req
          /\ call'[c].ret = call[c].ret /\ call'[c].val = call[c].val
          /\ \A d \in Clients \ {c} : call'[d] = call[d]
      BY <1>0, <3>1 DEF CallType
    <3> QED BY <1>0, <3>1, <3>2, SameAsk DEF LoadStages
  <2>2. CASE FetchForce
    BY <1>0, <2>2, SameAsk DEF FetchForce
  <2> QED BY <2>1, <2>2
<1>4. {} \in SUBSET Open
  OBVIOUS
<1> QED BY <1>0, <1>1, <1>2, <1>3, <1>4, WritesNothing, ToInternal

(* A lookup is never answered. *)
LEMMA LookupStep ==
  ASSUME RInv, IInv', NEW c \in Clients, HandleLookup(c)
  PROVE  Store!Internal
<1>0. TypeOK /\ TypeOK'
  BY DEF RInv, IInv
<1>1. /\ call[c].st = "sent" /\ call' = Lose({c})
      /\ UNCHANGED <<cached, cell, db, qSave, bSave, up>>
  BY DEF HandleLookup, Received, serverVars, queueVars, dbVars
<1>2. StoreMode' = StoreMode
  BY <1>1 DEF StoreMode
<1>3. {c} \in SUBSET Open
  BY <1>1 DEF Open
<1>4. StoreAsk' = Store!Lost({c})
  BY <1>0, <1>1, LoseAsk
<1> QED BY <1>0, <1>1, <1>2, <1>3, <1>4, WritesNothing, ToInternal
-----------------------------------------------------------------------------
(* Steps of the queue and of the process *)

(* Commands and results that stay as they are look the same outside. *)
LEMMA SameOutside ==
  ASSUME UNCHANGED <<call, img>>
  PROVE  StoreAsk' = StoreAsk /\ StoreBlind' = StoreBlind
<1>1. \A c \in Clients : StoreAsk'[c] = StoreAsk[c]
  BY DEF StoreAsk
<1>2. StoreAsk' = [c \in Clients |-> StoreAsk'[c]] /\ StoreAsk = [c \in Clients |-> StoreAsk[c]]
  BY DEF StoreAsk
<1> QED BY <1>1, <1>2 DEF StoreBlind

(* What ApplyReload writes, an operator forced. *)
LEMMA ReloadStep ==
  ASSUME RInv, IInv', ApplyReload
  PROVE  Store!Force
<1> DEFINE hit == {k \in Keys : reload[k] # None /\ RowOf[k] \in cached}
<1>0. TypeOK
  BY DEF RInv, IInv
<1>1. /\ up = "running" /\ up' = up
      /\ UNCHANGED <<call, img, cached, db, bSave>>
      /\ \A k \in Keys : cell'[k] = IF k \in hit THEN reload[k] ELSE cell[k]
      /\ \A k \in Keys : qSave'[k] = qSave[k] \/ (k \in hit /\ qSave'[k] = reload[k])
  BY DEF ApplyReload
<1>2. \A k \in hit : reload[k] = ForceSet[k] /\ ForceSet[k] # None /\ RowOf[k] \in cached
  BY DEF RInv, ReloadsForced
<1> HIDE DEF hit
<1>3. ASSUME NEW k \in Keys \ hit
      PROVE  StoreVal'[k] = StoreVal[k] /\ StoreKept'[k] = StoreKept[k]
  <2>1. cell'[k] = cell[k] /\ qSave'[k] = qSave[k]
    BY <1>1, <1>3
  <2> QED BY <1>1, <2>1, MappedCell
<1>4. ASSUME NEW k \in Keys, k \in hit
      PROVE  /\ StoreVal'[k] = Num(ForceSet[k])
             /\ StoreKept'[k] \subseteq StoreKept[k] \cup {StoreVal'[k]}
  <2>1. cell'[k] = ForceSet[k] /\ RowOf[k] \in cached' /\ ForceSet[k] # None
    BY <1>1, <1>2, <1>4
  <2>2. StoreVal'[k] = Num(ForceSet[k]) /\ Num(ForceSet[k]) = ForceSet[k]
    BY <2>1, MappedCell DEF Num
  <2>3. qSave'[k] = qSave[k] \/ qSave'[k] = ForceSet[k]
    BY <1>1, <1>2
  <2> QED BY <1>1, <2>2, <2>3, MappedCell
<1>5. Store!Writes({k \in Keys : ForceSet[k] # None})
  <2>1. \A k \in Keys : k \in hit => ForceSet[k] # None
    BY <1>2
  <2>2. \A k \in Keys : StoreKept'[k] \subseteq StoreKept[k] \cup {StoreVal'[k]}
    BY <1>3, <1>4
  <2>3. \A k \in Keys : ForceSet[k] = None =>
           StoreVal'[k] = StoreVal[k] /\ StoreKept'[k] \subseteq StoreKept[k]
    BY <1>3, <2>1
  <2> QED BY <2>2, <2>3, WritesIntro
<1>6. \A k \in Keys : StoreVal'[k] \in {StoreVal[k], Store!Num(ForceSet[k])}
  BY <1>3, <1>4 DEF Num, Store!Num
<1>7. StoreMode = "on" /\ StoreMode' = StoreMode
  BY <1>1 DEF StoreMode
<1> QED BY <1>1, <1>5, <1>6, <1>7, SameOutside DEF Store!Force

(* Nothing is queued for an evicted row, so the database holds its cells. *)
LEMMA EvictStep ==
  ASSUME RInv, IInv', NEW r \in Rows, Evict(r)
  PROVE  Store!Internal
<1>0. TypeOK /\ TypeOK'
  BY DEF RInv, IInv
<1>1. /\ r \in cached /\ Idle(r) /\ cached' = cached \ {r}
      /\ \A k \in Keys : RowOf[k] # r => cell'[k] = cell[k]
      /\ UNCHANGED <<call, up, db, qSave, bSave, raced, drift>>
  BY DEF Evict, queueVars, dbVars
<1>2. ASSUME NEW k \in Keys, k \notin StoreLoose PROVE StoreVal'[k] = StoreVal[k]
  <2>1. CASE RowOf[k] # r
    BY <1>1, <2>1, MappedCell
  <2>2. CASE RowOf[k] = r
    <3>1. Newest(k) = db[k]
      BY <1>1, <2>2 DEF Idle, KeysOf, Pending, Newest
    <3>2. Num(cell[k]) = Num(db[k])
      BY <1>1, <1>2, <2>2, <3>1, MappedCell DEF RInv, IInv, Coherent
    <3> QED BY <1>1, <2>2, <3>2, MappedCell
  <2> QED BY <2>1, <2>2
<1>3. \A k \in Keys : StoreKept'[k] = StoreKept[k]
  BY <1>1, MappedCell
<1>4. Store!Writes({})
  BY <1>2, <1>3, WritesIntro
<1>5. StoreAsk' = Store!Lost({})
  BY <1>0, <1>1, SameAsk
<1>6. StoreMode' = StoreMode
  BY <1>1 DEF StoreMode
<1> QED BY <1>0, <1>4, <1>5, <1>6, ToInternal

(* The queue becomes the batch: the same values are pending. *)
LEMMA GrabStep ==
  ASSUME RInv, IInv', TakeBatch \/ FinalBatch
  PROVE  Store!Internal
<1>0. TypeOK /\ TypeOK' /\ call \in CallType
  BY CallTypes DEF RInv, IInv
<1>1. /\ Grab /\ BatchEmpty
      /\ UNCHANGED <<cached, cell, db>>
      /\ up' = up \/ (up = "stopping" /\ up' = "final")
  BY DEF TakeBatch, FinalBatch, serverVars, dbVars
<1>2. ASSUME NEW k \in Keys
      PROVE  StoreVal'[k] = StoreVal[k] /\ StoreKept'[k] = StoreKept[k]
  <2>1. bSave[k] = None /\ bSave'[k] = qSave[k] /\ qSave'[k] = None
    BY <1>1 DEF Grab, BatchEmpty, NoVals
  <2>2. StoreVal'[k] = StoreVal[k]
    BY <1>1, MappedCell
  <2>3. /\ StoreKept[k] = {Num(db[k])} \cup ({qSave[k], None} \ {None})
        /\ StoreKept'[k] = {Num(db[k])} \cup ({None, qSave[k]} \ {None})
    BY <1>1, <2>1 DEF StoreKept
  <2> QED BY <2>2, <2>3
<1>3. Store!Writes({})
  BY <1>2, WritesIntro
<1>4. StoreAsk' = Store!Lost({})
  <2>1. ASSUME NEW c \in Clients, call'[c] # call[c]
        PROVE  /\ call[c].st = "queued" /\ call'[c].st = "batched"
               /\ call'[c].req = call[c].req /\ call'[c].ret = call[c].ret
               /\ call'[c].val = call[c].val
    BY <1>0, <1>1, <2>1 DEF Grab, CallType
  <2> QED BY <1>0, <2>1, SameAsk DEF LoadStages
<1>5. StoreMode' = StoreMode
  BY <1>1 DEF StoreMode
<1> QED BY <1>0, <1>3, <1>4, <1>5, ToInternal

(* A lost queue: its saves are in drift, its commands are never answered. *)
LEMMA DbGoneStep ==
  ASSUME RInv, IInv', DbGone
  PROVE  Store!Internal
<1> DEFINE S == {c \in Clients : call[c].st = "queued"}
<1>0. TypeOK /\ TypeOK'
  BY DEF RInv, IInv
<1>1. /\ qSave' = NoVals /\ call' = Lose(S)
      /\ UNCHANGED <<cached, cell, db, bSave, up>>
  BY DEF DbGone, serverVars, dbVars
<1>2. S \in SUBSET Open /\ S \in SUBSET Clients
  BY DEF Open, LoadStages
<1> HIDE DEF S
<1>3. ASSUME NEW k \in Keys
      PROVE  StoreVal'[k] = StoreVal[k] /\ StoreKept'[k] \subseteq StoreKept[k]
  <2>1. qSave'[k] = None
    BY <1>1 DEF NoVals
  <2> QED BY <1>1, <2>1, MappedCell
<1>4. Store!Writes({})
  BY <1>3, WritesIntro
<1>5. StoreAsk' = Store!Lost(S)
  BY <1>0, <1>1, <1>2, LoseAsk
<1>6. StoreMode' = StoreMode
  BY <1>1 DEF StoreMode
<1> QED BY <1>0, <1>2, <1>4, <1>5, <1>6, ToInternal

(* A save becomes durable, or is lost. *)
LEMMA SaveStep ==
  ASSUME RInv, IInv', NEW k \in Keys, ExecSave(k) \/ ExecSaveFail(k)
  PROVE  Store!Internal
<1>0. TypeOK /\ TypeOK'
  BY DEF RInv, IInv
<1>1. /\ bSave[k] # None /\ bSave' = [bSave EXCEPT ![k] = None]
      /\ db' = [db EXCEPT ![k] = bSave[k]] \/ db' = db
      /\ UNCHANGED <<cached, cell, qSave, call, up>>
  BY DEF ExecSave, ExecSaveFail, serverVars, dbVars
<1>2. RowOf[k] \in cached
  BY <1>1 DEF RInv, IInv, SavedRowsHeld, Pending
<1>3. ASSUME NEW j \in Keys \ {k}
      PROVE  StoreVal'[j] = StoreVal[j] /\ StoreKept'[j] = StoreKept[j]
  <2>1. bSave'[j] = bSave[j] /\ db'[j] = db[j]
    BY <1>0, <1>1 DEF TypeOK
  <2> QED BY <1>1, <2>1, MappedCell
<1>4. StoreVal'[k] = StoreVal[k]
  BY <1>1, <1>2, MappedCell
<1>5. StoreKept'[k] \subseteq StoreKept[k]
  <2>1. bSave'[k] = None /\ db'[k] \in {db[k], bSave[k]}
    BY <1>0, <1>1 DEF TypeOK
  <2>2. Num(db'[k]) \in StoreKept[k]
    BY <1>1, <2>1, MappedCell DEF Num
  <2> QED BY <1>1, <2>1, <2>2, MappedCell
<1>6. Store!Writes({})
  BY <1>3, <1>4, <1>5, WritesIntro
<1>7. StoreAsk' = Store!Lost({})
  BY <1>0, <1>1, SameAsk
<1>8. StoreMode' = StoreMode
  BY <1>1 DEF StoreMode
<1> QED BY <1>0, <1>6, <1>7, <1>8, ToInternal

(* The main loop ends. *)
LEMMA StopStep ==
  ASSUME RInv, IInv', Stop \/ MainFails
  PROVE  Store!Shut \/ Store!Internal
<1>0. TypeOK /\ TypeOK'
  BY DEF RInv, IInv
<1>1. /\ up \in {"running", "stuck"} /\ up' \in {"stuck", "stopping"}
      /\ UNCHANGED <<call, img, cached, cell, db, qSave, bSave>>
  BY DEF Stop, MainFails, serverVars, queueVars, dbVars
<1>2. Store!Writes({})
  BY <1>1, WritesNothing
<1>3. CASE up = "running"
  <2>1. StoreMode = "on" /\ StoreMode' = "off"
    BY <1>1, <1>3 DEF StoreMode
  <2> QED BY <1>1, <1>2, <2>1, SameOutside DEF Store!Shut
<1>4. CASE up = "stuck"
  <2>1. StoreMode' = StoreMode
    BY <1>1, <1>4 DEF StoreMode
  <2>2. StoreAsk' = Store!Lost({})
    BY <1>0, <1>1, SameAsk
  <2> QED BY <1>0, <1>2, <2>1, <2>2, ToInternal
<1> QED BY <1>1, <1>3, <1>4

(* A closed process has nobody to answer. *)
LEMMA ClosedAsk ==
  ASSUME TypeOK, TypeOK', call' = Lose(Open)
  PROVE  StoreAsk' = Store!Lost(Store!Open) /\ StoreBlind' = {}
<1>1. Open \in SUBSET Clients
  BY DEF Open
<1>2. StoreAsk' = Store!Lost(Store!Open)
  BY <1>1, LoseAsk, OpenAsk
<1>3. \A c \in Clients : call'[c].st # "ready"
  BY ClosedCalls DEF LoadStages
<1> QED BY <1>2, <1>3 DEF StoreBlind

LEMMA HaltStep ==
  ASSUME RInv, IInv', Halt
  PROVE  Store!Close
<1>0. IInv /\ TypeOK /\ TypeOK'
  BY DEF RInv, IInv
<1>1. /\ up = "final" /\ up' = "down" /\ call' = Lose(Open) /\ BatchEmpty
      /\ UNCHANGED <<cached, cell, db, qSave, bSave>>
  BY DEF Halt, serverVars, dbVars
<1>2. ASSUME NEW k \in Keys \ StoreLoose PROVE StoreKept[k] = {StoreVal[k]}
  <2>1. qSave[k] = None /\ bSave[k] = None
    BY <1>0, <1>1 DEF IInv, StoppedEmpty, BatchEmpty, NoVals
  <2>2. StoreKept[k] = {Num(db[k])}
    BY <2>1, MappedCell
  <2>3. StoreVal[k] \in StoreKept[k]
    BY <1>0, KeptHolds DEF HeldIsKept
  <2> QED BY <2>2, <2>3
<1>3. StoreMode = "off" /\ StoreMode' = "closed"
  BY <1>1 DEF StoreMode
<1>4. Store!Writes({})
  BY <1>1, WritesNothing
<1> QED BY <1>0, <1>1, <1>2, <1>3, <1>4, ClosedAsk DEF Store!Close

(* A crash leaves the database: one of the kept values. *)
LEMMA CrashStep ==
  ASSUME RInv, IInv', Crash
  PROVE  Store!Crash
<1>0. IInv /\ TypeOK /\ TypeOK'
  BY DEF RInv, IInv
<1>1. /\ up # "down" /\ up' = "down" /\ call' = Lose(Open) /\ cached' = {}
      /\ qSave' = NoVals /\ bSave' = NoVals
      /\ UNCHANGED <<db, raced, drift>>
  BY DEF Crash
<1>2. ASSUME NEW k \in Keys
      PROVE  StoreVal'[k] \in StoreKept[k] /\ StoreKept'[k] = {StoreVal'[k]}
  <2>1. qSave'[k] = None /\ bSave'[k] = None
    BY <1>1 DEF NoVals
  <2>2. StoreVal'[k] = Num(db[k])
    BY <1>1, MappedCell
  <2>3. StoreKept'[k] = {Num(db[k])}
    BY <1>1, <2>1 DEF StoreKept
  <2>4. Num(db[k]) \in StoreKept[k]
    BY DEF StoreKept
  <2> QED BY <2>2, <2>3, <2>4
<1>3. StoreMode # "closed" /\ StoreMode' = "closed"
  BY <1>0, <1>1 DEF StoreMode
<1>4. StoreAsk' = Store!Lost(Store!Open) /\ StoreBlind' = {}
  BY <1>0, <1>1, ClosedAsk
<1>5. StoreLoose \subseteq Keys
  BY DEF StoreLoose
<1> QED BY <1>2, <1>3, <1>4, <1>5 DEF Store!Crash

(* The warmed cells hold what the database has, or are in drift. *)
LEMMA RestartStep ==
  ASSUME RInv, IInv', Restart
  PROVE  Store!Reopen
<1>0. IInv /\ TypeOK
  BY DEF RInv, IInv
<1>1. /\ up = "down" /\ up' = "running" /\ cached' = WarmRows
      /\ cell' = WarmCells(db) /\ drift' = WarmDrift(db)
      /\ UNCHANGED <<call, img, db, qSave, bSave>>
  BY DEF Restart, queueVars
<1>2. ASSUME NEW k \in Keys \ StoreLoose PROVE StoreVal[k] = Num(db[k])
  <2>1. qSave[k] = None /\ bSave[k] = None
    BY <1>0, <1>1 DEF IInv, StoppedEmpty, NoVals
  <2>2. StoreKept[k] = {Num(db[k])}
    BY <2>1, MappedCell
  <2> QED BY <1>0, <2>2, KeptHolds DEF HeldIsKept
<1>3. ASSUME NEW k \in Keys \ StoreLoose' PROVE StoreVal'[k] = Num(db[k])
  <2>1. k \notin WarmDrift(db)
    BY <1>1, MappedCell
  <2>2. CASE RowOf[k] \in WarmRows
    <3>1. cell'[k] = IF k \in GoldKeys THEN Num(db[k]) ELSE None
      BY <1>1, <2>2 DEF WarmCells
    <3>2. Num(db[k]) # None
      BY <1>0, NumType, ValuesAssumption DEF TypeOK
    <3>3. k \notin GoldKeys => Num(db[k]) = 0
      BY <2>1, <2>2 DEF WarmDrift
    <3>4. Num(cell'[k]) = Num(db[k])
      BY <3>1, <3>2, <3>3 DEF Num
    <3> QED BY <1>1, <2>2, <3>4, MappedCell
  <2>3. CASE RowOf[k] \notin WarmRows
    BY <1>1, <2>3, MappedCell
  <2> QED BY <2>2, <2>3
<1>4. \A k \in Keys : StoreKept'[k] = StoreKept[k]
  BY <1>1, MappedCell
<1>5. Store!Writes({})
  BY <1>2, <1>3, <1>4, WritesIntro
<1>6. StoreMode = "closed" /\ StoreMode' = "on"
  BY <1>1 DEF StoreMode
<1> QED BY <1>1, <1>5, <1>6, SameOutside DEF Store!Reopen

LEMMA SameStore ==
  ASSUME UNCHANGED vars
  PROVE  UNCHANGED Store!vars
<1>1. UNCHANGED <<cached, cell, db, qSave, bSave, drift, raced, up, call, img>>
  BY DEF vars, serverVars, queueVars, dbVars
<1>2. \A k \in Keys : StoreVal'[k] = StoreVal[k] /\ StoreKept'[k] = StoreKept[k]
  BY <1>1, MappedCell
<1>3. /\ StoreVal = [k \in Keys |-> StoreVal[k]] /\ StoreVal' = [k \in Keys |-> StoreVal'[k]]
      /\ StoreKept = [k \in Keys |-> StoreKept[k]]
      /\ StoreKept' = [k \in Keys |-> StoreKept'[k]]
  BY DEF StoreVal, StoreKept
<1>4. StoreVal' = StoreVal /\ StoreKept' = StoreKept
  BY <1>2, <1>3
<1> QED BY <1>1, <1>4, SameOutside DEF StoreLoose, StoreMode, Store!vars

LEMMA RefinementStep ==
  ASSUME RInv, IInv', [Next]_vars
  PROVE  Store!Next \/ UNCHANGED Store!vars
<1>1. ASSUME NEW c \in Clients, NEW q \in Requests, Send(c, q) PROVE Store!Next
  BY <1>1, SendStep DEF Store!Next
<1>2. ASSUME NEW c \in Clients, Handle(c) PROVE Store!Next
  <2>1. CASE HandleHit(c)
    BY <2>1, HitStep DEF Store!Next
  <2>2. CASE HandleMiss(c)
    BY <2>2, QuietStep DEF Store!Next
  <2>3. CASE HandleLookup(c)
    BY <2>3, LookupStep DEF Store!Next
  <2>4. CASE BindNothing(c)
    BY <2>4, BindNothingStep DEF Store!Next
  <2>5. CASE BindGenerated(c)
    BY <2>5, BindGeneratedStep DEF Store!Next
  <2>6. CASE BindChosen(c)
    BY <2>6, BindChosenStep DEF Store!Next
  <2> QED BY <1>2, <2>1, <2>2, <2>3, <2>4, <2>5, <2>6 DEF Handle
<1>3. ASSUME NEW c \in Clients, ExecLoad(c) \/ ExecLoadFail(c) PROVE Store!Next
  BY <1>3, QuietStep DEF Store!Next
<1>4. ASSUME NEW k \in Keys, ExecSave(k) \/ ExecSaveFail(k) PROVE Store!Next
  BY <1>4, SaveStep DEF Store!Next
<1>5. ASSUME NEW r \in Rows, Evict(r) PROVE Store!Next
  BY <1>5, EvictStep DEF Store!Next
<1>6. CASE PollResult
  BY <1>6, FillStep, DropStep DEF PollResult, Store!Next
<1>7. CASE ApplyReload
  BY <1>7, ReloadStep DEF Store!Next
<1>8. CASE TakeBatch \/ FinalBatch
  BY <1>8, GrabStep DEF Store!Next
<1>9. CASE DbGone
  BY <1>9, DbGoneStep DEF Store!Next
<1>10. CASE FetchForce
  BY <1>10, QuietStep DEF Store!Next
<1>11. CASE Stop \/ MainFails
  BY <1>11, StopStep DEF Store!Next
<1>12. CASE Halt
  BY <1>12, HaltStep DEF Store!Next
<1>13. CASE Crash
  BY <1>13, CrashStep DEF Store!Next
<1>14. CASE Restart
  BY <1>14, RestartStep DEF Store!Next
<1>15. CASE UNCHANGED vars
  BY <1>15, SameStore
<1> QED BY <1>1, <1>2, <1>3, <1>4, <1>5, <1>6, <1>7, <1>8, <1>9, <1>10, <1>11,
           <1>12, <1>13, <1>14, <1>15 DEF Next

(* The cache server (mem_cache.cpp over db_delay_helper.cpp) implements    *)
(* the abstract store: whatever the interleaving of its main loop, its     *)
(* database thread, failures, stops and restarts, a command is executed at *)
(* one instant on what the store holds, and a crash goes back to a value   *)
(* that is stored or was on its way to the database.                       *)
THEOREM Implements == Spec => ImplementsStore
<1>1. RInv /\ RInv' /\ [Next]_vars => [Store!Next]_(Store!vars)
  BY RefinementStep DEF RInv
<1> QED BY <1>1, MappedInit, RInvariant, PTL DEF Spec, ImplementsStore, Store!Spec
-----------------------------------------------------------------------------
(* Numeric ids *)

IidKeys == {IidOf[r] : r \in MainRows}
IdKeys == IidKeys \cup {GenKey}

(* The ids are written by BIND alone: no game server changes one, or the   *)
(* generator, as it changes gold, and no operator forces one.              *)
BoundOnly ==
  /\ \A q \in Requests :
       q.op \in {"ADD", "COST", "COST_ALL", "SET"} => q.key \notin IdKeys
  /\ \A k \in IdKeys : ForceSet[k] = None

(* The ids that game servers choose lie below those of the generator,      *)
(* which does not consult unique_int_.                                     *)
ChosenBelow == \A q \in Requests : q.op = "BIND" => q.amt < IidStart

(* At the first start the accounts' ids differ, and the generator is       *)
(* beyond those it gave out.                                               *)
DistinctAtStart ==
  \A r \in MainRows :
    /\ Num(InitDb[IidOf[r]]) >= IidStart => Num(InitDb[IidOf[r]]) < Num(InitDb[GenKey])
    /\ \A s \in MainRows :
         r # s /\ Num(InitDb[IidOf[r]]) # 0 => InitDb[IidOf[r]] # InitDb[IidOf[s]]

(* The ids an account has: in the database, in the batch, in the queue. *)
Ids(r) ==
  {Num(db[IidOf[r]]), Num(bSave[IidOf[r]]), Num(qSave[IidOf[r]])} \ {0}

(* What has to hold of the ids together: an id is one check_unique knows   *)
(* or one behind the generator, and no two accounts share any.             *)
IdsKnown ==
  \A r \in MainRows : \A i \in Ids(r) :
    IF i < IidStart THEN i \in uniq ELSE i < Num(Newest(GenKey))

IdsDisjoint ==
  \A r, s \in MainRows : r # s => Ids(r) \cap Ids(s) = {}

IdsInv == IdsKnown /\ IdsDisjoint

(* Once an account has an id in the database, nothing else is under way;   *)
(* nor behind an id in the batch.                                          *)
OneId ==
  \A k \in IidKeys :
    /\ Num(db[k]) # 0 => ~Pending(k)
    /\ Num(bSave[k]) # 0 => qSave[k] = None

LEMMA IdKeysKnown ==
  /\ IdKeys \subseteq Keys /\ GenKey \notin IidKeys
  /\ \A r \in MainRows : IidOf[r] \in IidKeys /\ IidOf[r] \in IdKeys
  /\ \A r, s \in MainRows : IidOf[r] = IidOf[s] => r = s
BY KeysAssumption DEF IdKeys, IidKeys

(* A command on a cell leaves the queued ids alone: it is a GET. *)
LEMMA ServeIds ==
  ASSUME RInv, BoundOnly, NEW c \in Clients, call[c].st # "idle",
         call[c].req.op \in CellOps, NEW cells \in [Keys -> Val],
         NEW lost \in SUBSET Keys, Serve(c, cells, lost)
  PROVE  \A k \in IdKeys : qSave'[k] = qSave[k]
<1>1. TypeOK /\ call[c].req \in Requests
  BY DEF RInv, IInv, KnownReqs
<1>2. CASE call[c].req.key \in IdKeys
  <2>1. call[c].req.op = "GET"
    BY <1>1, <1>2 DEF BoundOnly, CellOps
  <2>2. Perform(call[c].req, cells[call[c].req.key]).put = None
    BY <2>1 DEF Perform, Get, Outcome
  <2> QED BY <2>2 DEF Serve
<1>3. CASE call[c].req.key \notin IdKeys
  BY <1>1, <1>3, ServeFacts, IdKeysKnown
<1> QED BY <1>2, <1>3

(* What the queue and the database thread do with a cell that no command   *)
(* changes.                                                                *)
Taken(k) ==
  bSave[k] = None /\ bSave'[k] = qSave[k] /\ qSave'[k] = None /\ db'[k] = db[k]

Stored(k) ==
  bSave[k] # None /\ bSave'[k] = None /\ qSave'[k] = qSave[k] /\ db'[k] = bSave[k]

Dropped(k) ==
  /\ db'[k] = db[k] /\ bSave'[k] \in {None, bSave[k]} /\ qSave'[k] \in {None, qSave[k]}
  /\ \/ bSave'[k] = bSave[k] /\ qSave'[k] = qSave[k]
     \/ qSave[k] # None /\ qSave'[k] = qSave[k]
     \/ k \in drift'
     \/ Crash

Moved(k) == Taken(k) \/ Stored(k) \/ Dropped(k)

LEMMA MovedSame ==
  ASSUME NEW k \in Keys, UNCHANGED <<qSave, bSave, db>>
  PROVE  Moved(k)
BY DEF Moved, Dropped

(* Every step but a BIND only moves the ids on, and extends unique_int_    *)
(* nowhere but at a start.                                                 *)
LEMMA IdsMove ==
  ASSUME RInv, BoundOnly, [Next]_vars
  PROVE  \/ \E c \in Clients : BindGenerated(c) \/ BindChosen(c)
         \/ /\ \A k \in IdKeys : Moved(k)
            /\ uniq' = uniq \/ Restart
<1> DEFINE Calm == (\A k \in IdKeys : Moved(k)) /\ (uniq' = uniq \/ Restart)
<1> USE DEF serverVars, queueVars, dbVars, bounds
<1>0. TypeOK /\ IdKeys \subseteq Keys /\ ReloadsForced /\ LoadOps
  BY IdKeysKnown DEF RInv, IInv
<1>1. ASSUME NEW c \in Clients, HandleHit(c) PROVE Calm
  <2>1. call[c].st # "idle" /\ call[c].req.op \in CellOps /\ Serve(c, cell, drift)
    BY <1>1 DEF HandleHit, Received
  <2>2. cell \in [Keys -> Val] /\ drift \in SUBSET Keys
    BY <1>0 DEF TypeOK
  <2>3. \A k \in IdKeys : qSave'[k] = qSave[k]
    BY <2>1, <2>2, ServeIds
  <2>4. UNCHANGED <<bSave, db, uniq>>
    BY <1>1 DEF HandleHit
  <2> QED BY <2>3, <2>4 DEF Moved, Dropped
<1>2. ASSUME FillRow PROVE Calm
  <2> DEFINE c == Head(results)
             lost == IF img[c].ok THEN drift \ KeysOf(RowOfCall(c))
                     ELSE drift \cup KeysOf(RowOfCall(c))
  <2>1. /\ c \in Clients /\ Filled(c) \in [Keys -> Val] /\ lost \in SUBSET Keys
        /\ Serve(c, Filled(c), lost) /\ call[c].st = "ready"
    BY <1>0, <1>2, FillFacts DEF RInv, IInv
  <2> HIDE DEF c, lost
  <2>2. call[c].st # "idle" /\ call[c].req.op \in CellOps
    BY <1>0, <2>1 DEF LoadOps, LoadStages
  <2>3. \A k \in IdKeys : qSave'[k] = qSave[k]
    BY <2>1, <2>2, ServeIds
  <2>4. UNCHANGED <<bSave, db, uniq>>
    BY <1>2 DEF FillRow
  <2> QED BY <2>3, <2>4 DEF Moved, Dropped
<1>3. ASSUME ApplyReload PROVE Calm
  <2>1. \A k \in IdKeys : reload[k] = None
    BY <1>0 DEF ReloadsForced, BoundOnly
  <2>2. \A k \in IdKeys : qSave'[k] = qSave[k]
    BY <1>0, <1>3, <2>1 DEF ApplyReload, TypeOK
  <2>3. UNCHANGED <<bSave, db, uniq>>
    BY <1>3 DEF ApplyReload
  <2> QED BY <2>2, <2>3 DEF Moved, Dropped
<1>4. ASSUME TakeBatch \/ FinalBatch PROVE Calm
  <2>1. /\ bSave = NoVals /\ bSave' = qSave /\ qSave' = NoVals
        /\ UNCHANGED <<db, uniq>>
    BY <1>4 DEF TakeBatch, FinalBatch, Grab, BatchEmpty
  <2> QED BY <1>0, <2>1 DEF NoVals, Moved, Taken
<1>5. ASSUME DbGone PROVE Calm
  <2>1. /\ qSave' = NoVals /\ drift' = drift \cup {k \in Keys : qSave[k] # None}
        /\ UNCHANGED <<bSave, db, uniq>>
    BY <1>5 DEF DbGone
  <2> QED BY <1>0, <2>1 DEF NoVals, Moved, Dropped
<1>6. ASSUME NEW j \in Keys, ExecSave(j) PROVE Calm
  <2>1. /\ bSave[j] # None /\ db' = [db EXCEPT ![j] = bSave[j]]
        /\ bSave' = [bSave EXCEPT ![j] = None] /\ UNCHANGED <<qSave, uniq>>
    BY <1>6 DEF ExecSave
  <2> QED BY <1>0, <2>1 DEF Moved, Stored, Dropped, TypeOK
<1>7. ASSUME NEW j \in Keys, ExecSaveFail(j) PROVE Calm
  <2>1. /\ bSave' = [bSave EXCEPT ![j] = None] /\ UNCHANGED <<qSave, db, uniq>>
        /\ drift' = IF qSave[j] = None THEN drift \cup {j} ELSE drift
    BY <1>7 DEF ExecSaveFail
  <2> QED BY <1>0, <2>1 DEF Moved, Dropped, TypeOK
<1>8. ASSUME Crash PROVE Calm
  <2>1. qSave' = NoVals /\ bSave' = NoVals /\ UNCHANGED <<db, uniq>>
    BY <1>8 DEF Crash
  <2> QED BY <1>0, <1>8, <2>1 DEF NoVals, Moved, Dropped
<1>9. ASSUME \/ \E c \in Clients : \/ \E q \in Requests : Send(c, q)
                                   \/ HandleMiss(c) \/ HandleLookup(c) \/ BindNothing(c)
                                   \/ ExecLoad(c) \/ ExecLoadFail(c)
             \/ \E r \in Rows : Evict(r)
             \/ DropResult \/ FetchForce \/ Stop \/ MainFails \/ Halt \/ Restart
             \/ UNCHANGED vars
      PROVE  Calm
  <2>1. UNCHANGED <<qSave, bSave, db>> /\ (uniq' = uniq \/ Restart)
    BY <1>9 DEF Send, HandleMiss, HandleLookup, BindNothing, ExecLoad, ExecLoadFail,
                Executed, Evict, DropResult, FetchForce, Stop, MainFails, Halt,
                Restart, vars
  <2> QED BY <1>0, <2>1, MovedSame
<1> HIDE DEF Calm
<1>10. Calm \/ \E c \in Clients : BindGenerated(c) \/ BindChosen(c)
  BY <1>1, <1>2, <1>3, <1>4, <1>5, <1>6, <1>7, <1>8, <1>9 DEF Next, Handle, PollResult
<1> QED BY <1>10 DEF Calm

(* While nothing of the generator is lost, it stays where it is. *)
LEMMA GeneratorKept ==
  ASSUME TypeOK, Moved(GenKey), GenKey \notin drift', Crash => ~Pending(GenKey)
  PROVE  Newest(GenKey)' = Newest(GenKey)
<1>1. GenKey \in Keys
  BY KeysAssumption
<1>2. CASE Taken(GenKey)
  BY <1>2 DEF Taken, Newest
<1>3. CASE Stored(GenKey)
  BY <1>3 DEF Stored, Newest
<1>4. CASE Dropped(GenKey)
  BY <1>1, <1>4 DEF Dropped, Newest, Pending
<1> QED BY <1>2, <1>3, <1>4 DEF Moved

(* The ids of an account that only move on are some of those it had. *)
LEMMA IdsShrink ==
  ASSUME NEW r \in MainRows, Moved(IidOf[r])
  PROVE  Ids(r)' \subseteq Ids(r)
<1>1. Num(None) = 0
  BY DEF Num
<1>2. \/ Taken(IidOf[r]) \/ Stored(IidOf[r]) \/ Dropped(IidOf[r])
  BY DEF Moved
<1> DEFINE k == IidOf[r]
<1>3. /\ db'[k] \in {db[k], bSave[k]}
      /\ bSave'[k] \in {None, bSave[k], qSave[k]}
      /\ qSave'[k] \in {None, qSave[k]}
  BY <1>2 DEF Taken, Stored, Dropped
<1>4. {Num(db'[k]), Num(bSave'[k]), Num(qSave'[k])}
        \subseteq {Num(db[k]), Num(bSave[k]), Num(qSave[k]), 0}
  BY <1>1, <1>3
<1> QED BY <1>4 DEF Ids

LEMMA IdsNat ==
  ASSUME TypeOK, NEW r \in MainRows
  PROVE  Ids(r) \subseteq Nat
<1>1. IidOf[r] \in Keys
  BY IdKeysKnown
<1> QED BY <1>1, NumType DEF Ids, TypeOK

(* What BIND finds: the account is cached, has no id, and the generator's  *)
(* row is there to give one.                                               *)
LEMMA BindFinds ==
  ASSUME RInv, NEW c \in Clients, BindGenerated(c) \/ BindChosen(c)
  PROVE  \E r \in MainRows :
           /\ call[c].req.key = IidOf[r] /\ call[c].req \in Requests
           /\ call[c].req.op = "BIND" /\ call[c].req.amt \in Nat
           /\ r \in cached /\ cell[IidOf[r]] \in {None, 0}
           /\ BindGenerated(c) => GenRow \in cached
           /\ BindChosen(c) => call[c].req.amt \notin uniq
<1>1. /\ call[c].st = "sent" /\ call[c].req.op = "BIND"
      /\ BindRefusal(call[c].req.key, call[c].req.amt) = "none"
  BY DEF BindGenerated, BindChosen, Received
<1>2. call[c].req \in Requests /\ call[c].req.amt \in Nat
  BY <1>1, ValuesAssumption DEF RInv, KnownReqs, Request
<1>3. PICK r \in MainRows : call[c].req.key = IidOf[r]
  BY <1>1, <1>2, BindAssumption
<1>4. RowOf[IidOf[r]] = r
  BY KeysAssumption
<1>5. r \in cached /\ cell[IidOf[r]] \in {None, 0}
  BY <1>1, <1>3, <1>4 DEF BindRefusal
<1>6. ASSUME BindGenerated(c) PROVE GenRow \in cached
  BY <1>1, <1>3, <1>5, <1>6, ValuesAssumption DEF BindRefusal, BindGenerated
<1>7. ASSUME BindChosen(c) PROVE call[c].req.amt \notin uniq
  BY <1>1, <1>3, <1>5, <1>7, ValuesAssumption DEF BindRefusal, BindChosen
<1> QED BY <1>1, <1>2, <1>3, <1>5, <1>6, <1>7

(* A generated id is behind no other: the cell of the generator, of a row  *)
(* nobody raced for and with nothing lost, is what was last given out.     *)
LEMMA GeneratedFresh ==
  ASSUME RInv, IdsInv, GenKey \notin drift, GenRow \notin raced,
         NEW c \in Clients, BindGenerated(c)
  PROVE  IdsInv'
<1>0. TypeOK /\ Coherent /\ GenKey \in Keys
  BY KeysAssumption DEF RInv, IInv
<1>1. PICK r0 \in MainRows :
        /\ call[c].req.key = IidOf[r0] /\ r0 \in cached /\ GenRow \in cached
  BY BindFinds
<1> DEFINE k == IidOf[r0]
           n == NextIid
           top == Num(Newest(GenKey))
<1>2. k \in Keys /\ k # GenKey
  BY IdKeysKnown DEF IidKeys
<1>3. /\ qSave' = WithIid(qSave, k) /\ UNCHANGED <<bSave, db, uniq>>
  BY <1>1 DEF BindGenerated, queueVars, dbVars
<1>4. Num(cell[GenKey]) = top
  BY <1>0, <1>1 DEF Coherent, GenRow
<1>5. n \in Nat /\ top \in Nat /\ n >= IidStart /\ n >= top
  <2>1. Num(cell[GenKey]) \in Nat
    BY <1>0, NumType DEF TypeOK
  <2> QED BY <1>4, <2>1, ValuesAssumption DEF NextIid
<1>6. /\ qSave'[k] = n /\ qSave'[GenKey] = n + 1
      /\ \A j \in Keys \ {k, GenKey} : qSave'[j] = qSave[j]
  BY <1>0, <1>2, <1>3 DEF WithIid, TypeOK
<1> HIDE DEF n
<1>7. Num(Newest(GenKey)') = n + 1
  BY <1>5, <1>6, ValuesAssumption DEF Newest, Num
<1>8. Ids(r0)' \subseteq Ids(r0) \cup {n}
  <2>1. Num(qSave'[k]) = n
    BY <1>5, <1>6, ValuesAssumption DEF Num
  <2> QED BY <1>3, <2>1 DEF Ids
<1>9. \A r \in MainRows \ {r0} : Ids(r)' = Ids(r)
  <2> TAKE r \in MainRows \ {r0}
  <2>1. IidOf[r] \in Keys \ {k, GenKey}
    BY IdKeysKnown DEF IidKeys
  <2> QED BY <1>3, <1>6, <2>1 DEF Ids
<1>10. \A r \in MainRows : \A i \in Ids(r) : i \in Nat /\ i # n
  <2> TAKE r \in MainRows
  <2> TAKE i \in Ids(r)
  <2>1. i \in Nat
    BY <1>0, IdsNat
  <2>2. i < IidStart \/ i < top
    BY DEF IdsInv, IdsKnown
  <2> HIDE DEF top
  <2> QED BY <1>5, <2>1, <2>2, ValuesAssumption
<1>11. IdsDisjoint'
  BY <1>8, <1>9, <1>10 DEF IdsInv, IdsDisjoint
<1>12. IdsKnown'
  <2> SUFFICES ASSUME NEW r \in MainRows, NEW i \in Ids(r)'
               PROVE  IF i < IidStart THEN i \in uniq' ELSE i < Num(Newest(GenKey)')
    BY DEF IdsKnown
  <2>1. CASE i = n
    <3>1. ~(i < IidStart) /\ i < n + 1
      BY <1>5, <2>1, ValuesAssumption
    <3> QED BY <1>7, <3>1
  <2>2. CASE i # n
    <3>1. i \in Ids(r) /\ i \in Nat
      BY <1>8, <1>9, <1>10, <2>2
    <3>2. IF i < IidStart THEN i \in uniq ELSE i < top
      BY <3>1 DEF IdsInv, IdsKnown
    <3> HIDE DEF top
    <3>3. i < top => i < n + 1
      BY <1>5, <3>1
    <3> QED BY <1>3, <1>7, <3>2, <3>3
  <2> QED BY <2>1, <2>2
<1> QED BY <1>11, <1>12 DEF IdsInv

(* A chosen id is one check_unique did not know. *)
LEMMA ChosenFresh ==
  ASSUME RInv, IdsInv, ChosenBelow, NEW c \in Clients, BindChosen(c)
  PROVE  IdsInv'
<1>0. TypeOK /\ GenKey \in Keys
  BY KeysAssumption DEF RInv, IInv
<1>1. PICK r0 \in MainRows :
        /\ call[c].req.key = IidOf[r0] /\ call[c].req \in Requests
        /\ call[c].req.op = "BIND" /\ call[c].req.amt \in Nat
        /\ call[c].req.amt \notin uniq
  BY BindFinds
<1> DEFINE k == IidOf[r0]
           n == call[c].req.amt
<1>2. k \in Keys /\ k # GenKey
  BY IdKeysKnown DEF IidKeys
<1>3. /\ qSave' = [qSave EXCEPT ![k] = n] /\ uniq' = uniq \cup {n}
      /\ UNCHANGED <<bSave, db>>
  BY <1>1 DEF BindChosen, dbVars
<1>4. n \in Nat /\ n < IidStart /\ n \notin uniq
  BY <1>1 DEF ChosenBelow
<1> HIDE DEF n
<1>5. qSave'[k] = n /\ \A j \in Keys \ {k} : qSave'[j] = qSave[j]
  BY <1>0, <1>2, <1>3 DEF TypeOK
<1>6. Newest(GenKey)' = Newest(GenKey)
  BY <1>0, <1>2, <1>3, <1>5 DEF Newest
<1>7. Ids(r0)' \subseteq Ids(r0) \cup {n}
  <2>1. Num(qSave'[k]) = n
    BY <1>4, <1>5, ValuesAssumption DEF Num
  <2> QED BY <1>3, <2>1 DEF Ids
<1>8. \A r \in MainRows \ {r0} : Ids(r)' = Ids(r)
  <2> TAKE r \in MainRows \ {r0}
  <2>1. IidOf[r] \in Keys \ {k}
    BY IdKeysKnown
  <2> QED BY <1>3, <1>5, <2>1 DEF Ids
<1>9. \A r \in MainRows : n \notin Ids(r)
  BY <1>4 DEF IdsInv, IdsKnown
<1>10. IdsDisjoint'
  BY <1>7, <1>8, <1>9 DEF IdsInv, IdsDisjoint
<1>11. IdsKnown'
  <2> SUFFICES ASSUME NEW r \in MainRows, NEW i \in Ids(r)'
               PROVE  IF i < IidStart THEN i \in uniq' ELSE i < Num(Newest(GenKey)')
    BY DEF IdsKnown
  <2>1. CASE i = n
    BY <1>3, <1>4, <2>1
  <2>2. CASE i # n
    <3>1. i \in Ids(r)
      BY <1>7, <1>8, <2>2
    <3> QED BY <1>3, <1>6, <3>1 DEF IdsInv, IdsKnown
  <2> QED BY <2>1, <2>2
<1> QED BY <1>10, <1>11 DEF IdsInv

(* At a start nothing is under way, and unique_int_ is read anew. *)
LEMMA UniqRead ==
  ASSUME RInv, Restart, NEW r \in MainRows, NEW i \in Ids(r)'
  PROVE  i \in uniq'
<1>1. /\ qSave = NoVals /\ bSave = NoVals /\ UNCHANGED <<qSave, bSave, db>>
      /\ uniq' = {Num(db[IidOf[s]]) : s \in MainRows}
  BY DEF Restart, RInv, IInv, StoppedEmpty, queueVars
<1>2. IidOf[r] \in Keys
  BY IdKeysKnown
<1>3. i = Num(db[IidOf[r]])
  BY <1>1, <1>2 DEF Ids, NoVals, Num
<1> QED BY <1>1, <1>3

LEMMA IdsStep ==
  ASSUME RInv, IdsInv, BoundOnly, ChosenBelow, [Next]_vars,
         GenKey \notin drift, GenRow \notin raced, GenKey \notin drift',
         [Crash => ~Pending(GenKey)]_vars
  PROVE  IdsInv'
<1>0. TypeOK
  BY DEF RInv, IInv
<1>1. ASSUME NEW c \in Clients, BindGenerated(c) \/ BindChosen(c) PROVE IdsInv'
  BY <1>1, GeneratedFresh, ChosenFresh
<1>2. CASE UNCHANGED vars
  BY <1>2 DEF IdsInv, IdsKnown, IdsDisjoint, Ids, Newest, vars, serverVars,
              queueVars, dbVars
<1>3. ASSUME \A k \in IdKeys : Moved(k), uniq' = uniq \/ Restart,
             Crash => ~Pending(GenKey)
      PROVE  IdsInv'
  <2>1. Newest(GenKey)' = Newest(GenKey)
    BY <1>0, <1>3, GeneratorKept DEF IdKeys
  <2>2. \A r \in MainRows : Ids(r)' \subseteq Ids(r)
    BY <1>3, IdsShrink, IdKeysKnown
  <2>3. IdsDisjoint'
    BY <2>2 DEF IdsInv, IdsDisjoint
  <2>4. IdsKnown'
    <3> SUFFICES ASSUME NEW r \in MainRows, NEW i \in Ids(r)'
                 PROVE  IF i < IidStart THEN i \in uniq' ELSE i < Num(Newest(GenKey)')
      BY DEF IdsKnown
    <3>1. IF i < IidStart THEN i \in uniq ELSE i < Num(Newest(GenKey))
      BY <2>2 DEF IdsInv, IdsKnown
    <3>2. i \in uniq => i \in uniq'
      BY <1>3, UniqRead
    <3> QED BY <2>1, <3>1, <3>2
  <2> QED BY <2>3, <2>4 DEF IdsInv
<1> QED BY <1>1, <1>2, <1>3, IdsMove

LEMMA IdsInit == DistinctAtStart /\ Init => IdsInv
<1> SUFFICES ASSUME DistinctAtStart, Init PROVE IdsInv
  OBVIOUS
<1>1. /\ db = InitDb /\ qSave = NoVals /\ bSave = NoVals
      /\ uniq = {Num(InitDb[IidOf[r]]) : r \in MainRows}
  BY DEF Init
<1>2. \A r \in MainRows : IidOf[r] \in Keys /\ InitDb[IidOf[r]] \in Val
  BY IdKeysKnown, ValuesAssumption
<1>3. \A r \in MainRows : \A i \in Ids(r) : i = Num(InitDb[IidOf[r]]) /\ i # 0
  BY <1>1, <1>2 DEF Ids, NoVals, Num
<1>4. Newest(GenKey) = InitDb[GenKey]
  BY <1>1, KeysAssumption DEF Newest, NoVals
<1>5. IdsKnown
  <2> SUFFICES ASSUME NEW r \in MainRows, NEW i \in Ids(r)
               PROVE  IF i < IidStart THEN i \in uniq ELSE i < Num(Newest(GenKey))
    BY DEF IdsKnown
  <2>1. i = Num(InitDb[IidOf[r]]) /\ i \in Nat
    BY <1>2, <1>3, NumType
  <2>2. i >= IidStart => i < Num(InitDb[GenKey])
    BY <2>1 DEF DistinctAtStart
  <2>3. i \in uniq
    BY <1>1, <2>1
  <2> QED BY <1>4, <2>1, <2>2, <2>3, ValuesAssumption
<1>6. IdsDisjoint
  <2> SUFFICES ASSUME NEW r \in MainRows, NEW s \in MainRows, r # s,
                      NEW i, i \in Ids(r), i \in Ids(s)
               PROVE  FALSE
    BY DEF IdsDisjoint
  <2>1. Num(InitDb[IidOf[r]]) = i /\ Num(InitDb[IidOf[s]]) = i /\ i # 0
    BY <1>3
  <2>2. InitDb[IidOf[r]] = i /\ InitDb[IidOf[s]] = i
    BY <2>1 DEF Num
  <2> QED BY <2>1, <2>2 DEF DistinctAtStart
<1> QED BY <1>5, <1>6 DEF IdsInv

LEMMA IdsDiffer ==
  ASSUME TypeOK, IdsDisjoint
  PROVE  DistinctIids
<1> SUFFICES ASSUME NEW r \in MainRows, NEW s \in MainRows, r # s,
                    Num(Newest(IidOf[r])) # 0, Newest(IidOf[r]) = Newest(IidOf[s])
             PROVE  FALSE
  BY DEF DistinctIids
<1> DEFINE i == Num(Newest(IidOf[r]))
<1>1. i \in Ids(r)
  BY DEF Ids, Newest
<1>2. i \in Ids(s)
  BY DEF Ids, Newest
<1> QED BY <1>1, <1>2 DEF IdsDisjoint

(* Two accounts never have the same id, whatever is evicted, fails and is  *)
(* started again, as long as the generator keeps its count: no two SELECTs *)
(* race for its row, none of its saves is dropped, and the process is not  *)
(* killed before one is stored.                                            *)
THEOREM IdsDistinct ==
  ASSUME BoundOnly, ChosenBelow, DistinctAtStart
  PROVE  /\ Spec
         /\ [](GenKey \notin drift /\ GenRow \notin raced)
         /\ [][Crash => ~Pending(GenKey)]_vars
         => []DistinctIids
<1> DEFINE Counts == GenKey \notin drift /\ GenRow \notin raced
           NoLoss == Crash => ~Pending(GenKey)
<1>1. Init => IdsInv
  BY IdsInit
<1>2. RInv /\ IdsInv /\ Counts /\ Counts' /\ [Next]_vars /\ [NoLoss]_vars => IdsInv'
  BY IdsStep
<1>3. RInv /\ IdsInv => DistinctIids
  BY IdsDiffer DEF RInv, IInv, IdsInv
<1> HIDE DEF Counts
<1>4. Spec /\ []Counts /\ [][NoLoss]_vars => []IdsInv
  BY <1>1, <1>2, RInvariant, PTL DEF Spec
<1>5. Spec /\ []Counts /\ [][NoLoss]_vars => []DistinctIids
  BY <1>3, <1>4, RInvariant, PTL
<1> QED BY <1>5 DEF Counts

(* The cells of the accounts' ids read as the database will. *)
IdsHeld == \A r \in MainRows : r \notin raced /\ IidOf[r] \notin drift

(* An account that has no id in the cache has none in the database, and    *)
(* none on the way there.                                                  *)
LEMMA NothingUnderWay ==
  ASSUME RInv, OneId, IdsHeld, NEW r \in MainRows, r \in cached,
         cell[IidOf[r]] \in {None, 0}
  PROVE  Num(db[IidOf[r]]) = 0 /\ Num(bSave[IidOf[r]]) = 0
<1> DEFINE k == IidOf[r]
<1>1. k \in Keys /\ k \in IidKeys /\ RowOf[k] = r
  BY IdKeysKnown, KeysAssumption
<1>2. Num(cell[k]) = 0
  BY DEF Num
<1>3. Num(Newest(k)) = 0
  BY <1>1, <1>2 DEF RInv, IInv, Coherent, IdsHeld
<1>4. Num(None) = 0
  BY DEF Num
<1>5. /\ Num(db[k]) # 0 => qSave[k] = None /\ bSave[k] = None
      /\ Num(bSave[k]) # 0 => qSave[k] = None
  BY <1>1 DEF OneId, Pending
<1>6. Num(bSave[k]) = 0
  BY <1>3, <1>4, <1>5 DEF Newest
<1> QED BY <1>3, <1>5, <1>6 DEF Newest

LEMMA OneIdStep ==
  ASSUME RInv, OneId, IdsHeld, BoundOnly, [Next]_vars
  PROVE  OneId'
<1>0. TypeOK /\ IidKeys \subseteq Keys /\ IidKeys \subseteq IdKeys /\ GenKey \notin IidKeys
  BY IdKeysKnown DEF RInv, IInv, IdKeys
<1>1. ASSUME NEW c \in Clients, BindGenerated(c) \/ BindChosen(c) PROVE OneId'
  <2>1. PICK r \in MainRows :
          call[c].req.key = IidOf[r] /\ r \in cached /\ cell[IidOf[r]] \in {None, 0}
    BY <1>1, BindFinds
  <2> DEFINE k == IidOf[r]
  <2>2. Num(db[k]) = 0 /\ Num(bSave[k]) = 0
    BY <2>1, NothingUnderWay
  <2>3. UNCHANGED <<bSave, db>>
    BY <1>1 DEF BindGenerated, BindChosen, dbVars
  <2>4. \A j \in IidKeys \ {k} : qSave'[j] = qSave[j]
    BY <1>0, <1>1, <2>1 DEF BindGenerated, BindChosen, WithIid, TypeOK
  <2> QED BY <2>2, <2>3, <2>4 DEF OneId, Pending
<1>2. ASSUME \A k \in IdKeys : Moved(k) PROVE OneId'
  <2> SUFFICES ASSUME NEW k \in IidKeys
               PROVE  /\ Num(db'[k]) # 0 => qSave'[k] = None /\ bSave'[k] = None
                      /\ Num(bSave'[k]) # 0 => qSave'[k] = None
    BY DEF OneId, Pending
  <2>1. /\ Num(db[k]) # 0 => qSave[k] = None /\ bSave[k] = None
        /\ Num(bSave[k]) # 0 => qSave[k] = None
    BY DEF OneId, Pending
  <2>2. Num(None) = 0
    BY DEF Num
  <2>3. Moved(k)
    BY <1>0, <1>2
  <2>4. CASE Taken(k)
    BY <2>1, <2>2, <2>4 DEF Taken
  <2>5. CASE Stored(k)
    BY <2>1, <2>2, <2>5 DEF Stored
  <2>6. CASE Dropped(k)
    BY <2>1, <2>2, <2>6 DEF Dropped
  <2> QED BY <2>3, <2>4, <2>5, <2>6 DEF Moved
<1> QED BY <1>1, <1>2, IdsMove

LEMMA IdStays ==
  ASSUME RInv, OneId, BoundOnly, [Next]_vars
  PROVE  \A r \in MainRows :
           Num(db[IidOf[r]]) # 0 => db'[IidOf[r]] = db[IidOf[r]]
<1> SUFFICES ASSUME NEW r \in MainRows, Num(db[IidOf[r]]) # 0
             PROVE  db'[IidOf[r]] = db[IidOf[r]]
  OBVIOUS
<1>1. IidOf[r] \in IidKeys /\ IidOf[r] \in IdKeys
  BY IdKeysKnown
<1>2. bSave[IidOf[r]] = None
  BY <1>1 DEF OneId, Pending
<1>3. ASSUME NEW c \in Clients, BindGenerated(c) \/ BindChosen(c) PROVE UNCHANGED db
  BY <1>3 DEF BindGenerated, BindChosen, dbVars
<1>4. ASSUME \A k \in IdKeys : Moved(k) PROVE db'[IidOf[r]] = db[IidOf[r]]
  BY <1>1, <1>2, <1>4 DEF Moved, Taken, Stored, Dropped
<1> QED BY <1>3, <1>4, IdsMove

(* The database never replaces an account's id, through crashes, dropped   *)
(* batches of other rows and restarts, as long as the cache is right about *)
(* the ids it holds: nobody raced for an account's row, and none looks     *)
(* absent because it was warmed with its gold only or could not be read.   *)
THEOREM IdsKept ==
  ASSUME BoundOnly
  PROVE  Spec /\ []IdsHeld => IidKept
<1> DEFINE Stays == \A r \in MainRows :
                      Num(db[IidOf[r]]) # 0 => db'[IidOf[r]] = db[IidOf[r]]
<1>1. Init => OneId
  <2>1. IidKeys \subseteq Keys
    BY KeysAssumption DEF IidKeys
  <2>2. Init => qSave = NoVals /\ bSave = NoVals
    BY DEF Init
  <2>3. \A k \in IidKeys : NoVals[k] = None
    BY <2>1 DEF NoVals
  <2> QED BY <2>2, <2>3 DEF OneId, Pending, Num
<1>2. RInv /\ OneId /\ IdsHeld /\ [Next]_vars => OneId'
  BY OneIdStep
<1>3. RInv /\ OneId /\ [Next]_vars => Stays
  BY IdStays
<1>4. [][Stays]_vars <=> IidKept
  BY DEF IidKept
<1> HIDE DEF Stays
<1>5. RInv /\ OneId /\ [Next]_vars => [Stays]_vars
  BY <1>3
<1>6. Spec /\ []IdsHeld => [](RInv /\ OneId)
  BY <1>1, <1>2, RInvariant, PTL DEF Spec
<1> QED BY <1>4, <1>5, <1>6, PTL DEF Spec

=============================================================================
