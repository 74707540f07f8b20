-------------------------- MODULE TradeCoordProofs --------------------------
(***************************************************************************)
(* Theorems about TradeCoord for every set of trades, every amount and     *)
(* every number of repeats and faults: type correctness, the account of    *)
(* what was charged, the cover of what the game server pays out, and that  *)
(* a payment in is paid in or given back, once.                            *)
(***************************************************************************)
EXTENDS TradeCoord, TLAPS

(* Taking the i-th call out of a queue leaves a queue of the other calls. *)
LEMMA WithoutType ==
  ASSUME NEW S, NEW s \in Seq(S), NEW i \in DOMAIN s
  PROVE  /\ Without(s, i) \in Seq(S)
         /\ Len(Without(s, i)) = Len(s) - 1
<1>1. Len(s) \in Nat /\ DOMAIN s = 1 .. Len(s) /\ i \in 1 .. Len(s)
  OBVIOUS
<1>2. Len(s) - 1 \in Nat
  BY <1>1
<1>3. \A j \in 1 .. Len(s) - 1 : (IF j < i THEN s[j] ELSE s[j + 1]) \in S
  BY <1>1
<1>4. Without(s, i) \in [1 .. Len(s) - 1 -> S]
  BY <1>3 DEF Without
<1> QED BY <1>2, <1>4

(* Each call that is left was in the queue before. *)
LEMMA WithoutElements ==
  ASSUME NEW S, NEW s \in Seq(S), NEW i \in DOMAIN s,
         NEW j \in DOMAIN Without(s, i)
  PROVE  \E k \in DOMAIN s : Without(s, i)[j] = s[k]
<1>1. /\ Len(s) \in Nat /\ DOMAIN s = 1 .. Len(s) /\ i \in 1 .. Len(s)
      /\ DOMAIN Without(s, i) = 1 .. Len(s) - 1
  BY DEF Without
<1>2. CASE j < i
  <2>1. j \in DOMAIN s /\ Without(s, i)[j] = s[j]
    BY <1>1, <1>2 DEF Without
  <2> QED BY <2>1
<1>3. CASE ~(j < i)
  <2>1. j + 1 \in DOMAIN s /\ Without(s, i)[j] = s[j + 1]
    BY <1>1, <1>3 DEF Without
  <2> QED BY <2>1
<1> QED BY <1>2, <1>3

-----------------------------------------------------------------------------
(* Type correctness *)

LEMMA HeldType == ASSUME TypeOK, NEW sn \in Sns PROVE Held(sn) \in Nat
BY DEF TypeOK, Held, Live, Order

LEMMA InResultsType ==
  ASSUME TypeOK, NEW sn \in Sns
  PROVE  InResults(sn) \in Nat
<1>1. CASE PayIn(sn) \/ Waiting(sn) = {}
  BY <1>1 DEF InResults
<1>2. CASE ~(PayIn(sn) \/ Waiting(sn) = {})
  <2> DEFINE c == CHOOSE i \in Waiting(sn) : TRUE
  <2>1. c \in Waiting(sn)
    BY <1>2
  <2>2. InResults(sn) = results[c].val
    BY <1>2 DEF InResults
  <2> HIDE DEF c
  <2>3. results[c] \in Result
    BY <2>1 DEF Waiting, TypeOK
  <2> QED BY <2>2, <2>3 DEF Result
<1> QED BY <1>1, <1>2

(* What one executed call changes, whatever its outcome. *)
LEMMA ExecutedType ==
  ASSUME TypeOK, NEW sn \in Sns, NEW i \in DOMAIN stmts[sn],
         NEW ok \in BOOLEAN, NEW val \in Nat, Executed(sn, i, ok, val)
  PROVE  stmts' \in [Sns -> Seq(Stmt)] /\ results' \in Seq(Result)
<1>1. stmts[sn] \in Seq(Stmt)
  BY DEF TypeOK
<1>2. stmts[sn][i] \in Stmt
  BY <1>1
<1>3. Without(stmts[sn], i) \in Seq(Stmt)
  BY <1>1, WithoutType
<1>4. [sn |-> sn, ok |-> ok, val |-> val, conn |-> stmts[sn][i].conn] \in Result
  BY <1>2 DEF Stmt, Result
<1> QED BY <1>3, <1>4 DEF Executed, TypeOK

(* The message the loop handles. *)
LEMMA HandlesType ==
  ASSUME TypeOK, NEW phase, Handles(phase)
  PROVE  /\ Head(inbox) \in Message /\ Head(inbox).sn \in Sns
         /\ inbox' \in Seq(Message) /\ todo' \in Nat
<1>1. inbox \in Seq(Message) /\ inbox # <<>>
  BY DEF TypeOK, Handles
<1>2. Head(inbox) \in Message /\ Tail(inbox) \in Seq(Message)
  BY <1>1
<1>3. todo \in Nat /\ todo > 0 /\ inbox' = Tail(inbox) /\ todo' = todo - 1
  BY DEF Handles, TypeOK
<1> QED BY <1>2, <1>3 DEF Message

LEMMA AnswerType ==
  ASSUME TypeOK, NEW sn \in Sns, NEW phase \in Phase, NEW ok \in BOOLEAN,
         NEW cnt \in Nat, Answer(sn, phase, ok, cnt)
  PROVE  outbox' \in Seq(Reply)
BY DEF Answer, TypeOK, Reply

(* A call put into the queue. *)
LEMMA PushType ==
  ASSUME TypeOK, NEW sn \in Sns, NEW cur \in Currencies, NEW sock \in Nat,
         Push(sn, cur, sock)
  PROVE  stmts' \in [Sns -> Seq(Stmt)]
<1>1. [dir |-> Dir[sn], cur |-> cur, cnt |-> Cnt[sn], conn |-> sock] \in Stmt
  BY TradesAssumption DEF Stmt
<1> QED BY <1>1 DEF Push, TypeOK

LEMMA TypeInit == Init => TypeOK
BY TradesAssumption DEF Init, TypeOK

(* A step of the game server, the network or the database. *)
LEMMA TypeOutside ==
  ASSUME TypeOK,
         \/ \E sn \in Sns : \/ GameStart(sn) \/ GameRepeat(sn) \/ Execute(sn)
                            \/ \E i \in DOMAIN stmts[sn] : ExecError(sn, i)
         \/ GameAnswered \/ Break \/ DbGone \/ Crash
  PROVE  TypeOK'
<1> USE DEF coordVars, sqlVars, netVars, ledger, history, bounds
<1>1. ASSUME NEW sn \in Sns, GameStart(sn) PROVE TypeOK'
  <2>1. inbox' \in Seq(Message)
    BY <1>1 DEF GameStart, TypeOK, Message, Phase
  <2> QED BY <1>1, <2>1 DEF GameStart, TypeOK
<1>2. ASSUME NEW sn \in Sns, GameRepeat(sn) PROVE TypeOK'
  <2>1. game[sn].st \in Phase
    BY <1>2, TradesAssumption DEF GameRepeat, Phase
  <2>2. inbox' \in Seq(Message)
    <3>1. [sn |-> sn, phase |-> game[sn].st] \in Message
      BY <2>1 DEF Message
    <3>2. inbox \in Seq(Message)
      BY DEF TypeOK
    <3> QED BY <1>2, <3>1, <3>2 DEF GameRepeat
  <2>3. repeats' \in Nat
    BY <1>2 DEF GameRepeat, TypeOK
  <2> QED BY <1>2, <2>2, <2>3 DEF GameRepeat, TypeOK
<1>3. ASSUME NEW sn \in Sns, Execute(sn) PROVE TypeOK'
  <2>1. PICK i \in DOMAIN stmts[sn] :
          ExecCharge(sn, i) \/ ExecShort(sn, i) \/ ExecAdd(sn, i)
    BY <1>3 DEF Execute
  <2>2. stmts[sn][i] \in Stmt
    BY DEF TypeOK
  <2>3. CASE ExecCharge(sn, i)
    <3> DEFINE s == stmts[sn][i]
               amt == IF s.dir = 1 THEN bal[s.cur] ELSE s.cnt
    <3>1. s.cur \in Currencies /\ amt \in Nat /\ bal[s.cur] \in Nat
      BY <2>2 DEF Stmt, TypeOK
    <3>2. /\ Executed(sn, i, TRUE, amt) /\ amt <= bal[s.cur]
          /\ bal' = [bal EXCEPT ![s.cur] = bal[s.cur] - amt]
          /\ charged' = [charged EXCEPT ![sn] = charged[sn] + amt]
      BY <2>3 DEF ExecCharge
    <3> HIDE DEF s, amt
    <3>3. bal[s.cur] - amt \in Nat /\ charged[sn] + amt \in Nat
      <4>1. charged[sn] \in Nat
        BY DEF TypeOK
      <4> QED BY <3>1, <3>2, <4>1
    <3>4. bal' \in [Currencies -> Nat] /\ charged' \in [Sns -> Nat]
      BY <3>2, <3>3 DEF TypeOK
    <3>5. stmts' \in [Sns -> Seq(Stmt)] /\ results' \in Seq(Result)
      BY <3>1, <3>2, ExecutedType
    <3> QED BY <2>3, <3>4, <3>5 DEF ExecCharge, TypeOK
  <2>4. CASE ExecShort(sn, i)
    <3>1. Executed(sn, i, FALSE, 0)
      BY <2>4 DEF ExecShort
    <3>2. stmts' \in [Sns -> Seq(Stmt)] /\ results' \in Seq(Result)
      BY <3>1, ExecutedType
    <3> QED BY <2>4, <3>2 DEF ExecShort, TypeOK
  <2>5. CASE ExecAdd(sn, i)
    <3> DEFINE s == stmts[sn][i]
    <3>1. s.cur \in Currencies /\ s.cnt \in Nat
      BY <2>2 DEF Stmt
    <3>2. /\ Executed(sn, i, TRUE, s.cnt)
          /\ bal' = [bal EXCEPT ![s.cur] = bal[s.cur] + s.cnt]
          /\ added' = [added EXCEPT ![sn] = added[sn] + s.cnt]
      BY <2>5 DEF ExecAdd
    <3> HIDE DEF s
    <3>3. bal' \in [Currencies -> Nat] /\ added' \in [Sns -> Nat]
      <4>1. bal[s.cur] + s.cnt \in Nat /\ added[sn] + s.cnt \in Nat
        <5>1. bal[s.cur] \in Nat /\ added[sn] \in Nat
          BY <3>1 DEF TypeOK
        <5> QED BY <3>1, <5>1
      <4> QED BY <3>2, <4>1 DEF TypeOK
    <3>4. stmts' \in [Sns -> Seq(Stmt)] /\ results' \in Seq(Result)
      BY <3>1, <3>2, ExecutedType
    <3> QED BY <2>5, <3>3, <3>4 DEF ExecAdd, TypeOK
  <2> QED BY <2>1, <2>3, <2>4, <2>5
<1>4. ASSUME NEW sn \in Sns, NEW i \in DOMAIN stmts[sn], ExecError(sn, i)
      PROVE  TypeOK'
  <2>1. Executed(sn, i, FALSE, 0)
    BY <1>4 DEF ExecError
  <2>2. stmts' \in [Sns -> Seq(Stmt)] /\ results' \in Seq(Result)
    BY <2>1, ExecutedType
  <2>3. faults' \in Nat
    BY <1>4 DEF ExecError, Fault, TypeOK
  <2> QED BY <1>4, <2>2, <2>3 DEF ExecError, TypeOK
<1>5. CASE GameAnswered
  <2> DEFINE r == Head(outbox)
             now == game[r.sn]
  <2>1. r \in Reply /\ outbox' \in Seq(Reply)
    BY <1>5 DEF GameAnswered, TypeOK
  <2>2. r.sn \in Sns /\ r.cnt \in Nat
    BY <2>1 DEF Reply
  <2>3. game' \in [Sns -> [st : {"idle", "prepare", "commit", "done", "failed"},
                           cnt : Nat]]
    <3>1. now \in [st : {"idle", "prepare", "commit", "done", "failed"},
                   cnt : Nat]
      BY <2>2 DEF TypeOK
    <3>2. (IF r.phase # now.st THEN now
           ELSE IF ~r.ok THEN [now EXCEPT !.st = "failed"]
           ELSE IF now.st = "prepare" THEN [st |-> "commit", cnt |-> r.cnt]
           ELSE [now EXCEPT !.st = "done"])
            \in [st : {"idle", "prepare", "commit", "done", "failed"},
                 cnt : Nat]
      BY <2>2, <3>1
    <3> QED BY <1>5, <2>2, <3>2 DEF GameAnswered, TypeOK
  <2>4. inbox' \in Seq(Message)
    <3>1. [sn |-> r.sn, phase |-> "commit"] \in Message
      BY <2>2 DEF Message, Phase
    <3> HIDE DEF r
    <3>2. inbox' = inbox
          \/ inbox' = Append(inbox, [sn |-> r.sn, phase |-> "commit"])
      BY <1>5 DEF GameAnswered, r
    <3>3. inbox \in Seq(Message)
      BY DEF TypeOK
    <3> QED BY <3>1, <3>2, <3>3
  <2> QED BY <1>5, <2>1, <2>3, <2>4 DEF GameAnswered, TypeOK
<1>6. CASE Break
  BY <1>6 DEF Break, Fault, TypeOK
<1>7. CASE DbGone
  <2>1. stmts' \in [Sns -> Seq(Stmt)]
    BY <1>7 DEF DbGone
  <2>2. faults' \in Nat
    BY <1>7 DEF DbGone, Fault, TypeOK
  <2> QED BY <1>7, <2>1, <2>2 DEF DbGone, TypeOK
<1>8. CASE Crash
  <2>1. \A sn \in Sns : Held(sn) \in Nat /\ InResults(sn) \in Nat
    BY HeldType, InResultsType
  <2>2. kept' \in [Sns -> Nat]
    <3>1. ASSUME NEW sn \in Sns
          PROVE  (IF Live(sn) /\ orders[sn].state = 2
                  THEN kept[sn] + Held(sn) ELSE kept[sn]) \in Nat
      <4>1. kept[sn] \in Nat
        BY DEF TypeOK
      <4>2. kept[sn] + Held(sn) \in Nat
        BY <2>1, <4>1
      <4> QED BY <4>1, <4>2
    <3> QED BY <1>8, <3>1 DEF Crash
  <2>3. lost' \in [Sns -> Nat]
    <3>1. ASSUME NEW sn \in Sns
          PROVE  lost[sn] + InResults(sn) +
                 (IF Live(sn) /\ orders[sn].state = 2 THEN 0 ELSE Held(sn)) \in Nat
      <4> DEFINE rest == IF Live(sn) /\ orders[sn].state = 2
                         THEN 0 ELSE Held(sn)
      <4>1. lost[sn] \in Nat
        BY DEF TypeOK
      <4>2. rest \in Nat
        BY <2>1
      <4> HIDE DEF rest
      <4>3. lost[sn] + InResults(sn) + rest \in Nat
        BY <2>1, <4>1, <4>2
      <4> QED BY <4>3 DEF rest
    <3> QED BY <1>8, <3>1 DEF Crash
  <2> QED BY <1>8, <2>2, <2>3 DEF Crash, Fault, TypeOK
<1> QED BY <1>1, <1>2, <1>3, <1>4, <1>5, <1>6, <1>7, <1>8

(* A step of the main loop. *)
LEMMA TypeLoop ==
  ASSUME TypeOK,
         \/ \E sn \in Sns : Age(sn) \/ Sweep(sn) \/ SweepLost(sn)
         \/ Callback \/ HandlePrepare \/ HandleCommit \/ Loop
  PROVE  TypeOK'
<1> USE DEF coordVars, sqlVars, netVars, ledger, history, bounds
<1>h. \A sn \in Sns : Held(sn) \in Nat
  BY HeldType
<1>1. ASSUME NEW sn \in Sns, Age(sn) PROVE TypeOK'
  <2>1. orders[sn] \in Order
    BY <1>1 DEF Age, Live, TypeOK
  <2>2. [orders[sn] EXCEPT !.old = TRUE] \in Order
    BY <2>1 DEF Order
  <2>3. orders' \in [Sns -> Order \cup {NoOrder}]
    BY <1>1, <2>2 DEF Age, TypeOK
  <2> QED BY <1>1, <2>3 DEF Age, TypeOK
<1>2. ASSUME NEW sn \in Sns, SweepDone(sn) PROVE TypeOK'
  <2>1. kept' \in [Sns -> Nat]
    <3>1. kept[sn] + Held(sn) \in Nat
      <4>1. kept[sn] \in Nat
        BY DEF TypeOK
      <4> QED BY <1>h, <4>1
    <3> QED BY <1>2, <3>1 DEF SweepDone, TypeOK
  <2> QED BY <1>2, <2>1 DEF SweepDone, TypeOK
<1>3. ASSUME NEW sn \in Sns, Drop(sn)
      PROVE  /\ orders' \in [Sns -> Order \cup {NoOrder}]
             /\ overtaken' \subseteq Sns
             /\ orders[sn] \in Order
  BY <1>3 DEF Drop, Live, TypeOK
<1>4. ASSUME NEW sn \in Sns, SweepFailed(sn) PROVE TypeOK'
  <2>1. Drop(sn)
    BY <1>4 DEF SweepFailed
  <2>2. bal' \in [Currencies -> Nat] /\ refunded' \in [Sns -> Nat]
    <3> DEFINE cur == orders[sn].cur
    <3>1. cur \in Currencies
      BY <1>3, <2>1 DEF Order
    <3>2. /\ bal' = [bal EXCEPT ![cur] = bal[cur] + Held(sn)]
          /\ refunded' = [refunded EXCEPT ![sn] = refunded[sn] + Held(sn)]
      BY <1>4 DEF SweepFailed
    <3> HIDE DEF cur
    <3>3. bal[cur] \in Nat /\ refunded[sn] \in Nat
      BY <3>1 DEF TypeOK
    <3>4. bal[cur] + Held(sn) \in Nat /\ refunded[sn] + Held(sn) \in Nat
      BY <1>h, <3>3
    <3> QED BY <3>2, <3>4 DEF TypeOK
  <2> QED BY <1>3, <1>4, <2>1, <2>2 DEF SweepFailed, TypeOK
<1>5. ASSUME NEW sn \in Sns, SweepLost(sn) PROVE TypeOK'
  <2>1. Drop(sn) /\ Fault
    BY <1>5 DEF SweepLost
  <2>2. lost' \in [Sns -> Nat]
    <3>1. lost[sn] + Held(sn) \in Nat
      <4>1. lost[sn] \in Nat
        BY DEF TypeOK
      <4> QED BY <1>h, <4>1
    <3> QED BY <1>5, <3>1 DEF SweepLost, TypeOK
  <2>3. faults' \in Nat
    BY <2>1 DEF Fault, TypeOK
  <2> QED BY <1>3, <1>5, <2>1, <2>2, <2>3 DEF SweepLost, TypeOK
<1>6. CASE Callback
  <2> DEFINE r == Head(results)
  <2>1. results # <<>> /\ r \in Result /\ results' \in Seq(Result)
    <3>1. results # <<>> /\ results' = Tail(results)
      BY <1>6 DEF Callback, CallbackOk, CallbackFailed, CallbackOrphan, Polls
    <3> QED BY <3>1 DEF TypeOK
  <2>2. r.sn \in Sns /\ r.val \in Nat
    BY <2>1 DEF Result
  <2>3. CASE CallbackOk
    <3>1. orders[r.sn] \in Order
      BY <2>2, <2>3 DEF CallbackOk, Live, TypeOK
    <3>2. OrderCharged(orders[r.sn], r.sn, r) \in Order
      <4>1. Cnt[r.sn] \in Nat
        BY <2>2, TradesAssumption
      <4> DEFINE v == CASE Dir[r.sn] = 0 -> Cnt[r.sn]
                        [] Dir[r.sn] = 1 -> r.val
                        [] OTHER         -> orders[r.sn].value
                 st == IF r.conn = conn THEN 1 ELSE 3
      <4>2. v \in Nat
        BY <2>2, <3>1, <4>1 DEF Order
      <4>3. st \in 0 .. 3
        OBVIOUS
      <4>4. OrderCharged(orders[r.sn], r.sn, r) =
              [orders[r.sn] EXCEPT !.state = st, !.value = v, !.old = FALSE]
        BY DEF OrderCharged
      <4> HIDE DEF v, st
      <4> QED BY <3>1, <4>2, <4>3, <4>4 DEF Order
    <3>3. orders' \in [Sns -> Order \cup {NoOrder}]
      BY <2>3, <3>2 DEF CallbackOk, TypeOK
    <3>4. outbox' \in Seq(Reply)
      <4>1. Answer(r.sn, "prepare", TRUE, r.val) \/ outbox' = outbox
        BY <2>3 DEF CallbackOk
      <4>2. outbox \in Seq(Reply) /\ "prepare" \in Phase
        BY DEF TypeOK, Phase
      <4> QED BY <2>2, <4>1, <4>2, AnswerType
    <3> QED BY <2>1, <2>3, <3>3, <3>4 DEF CallbackOk, TypeOK
  <2>4. CASE CallbackFailed
    <3>1. orders' \in [Sns -> Order \cup {NoOrder}]
      BY <2>4 DEF CallbackFailed, TypeOK
    <3>2. outbox' \in Seq(Reply)
      <4>1. Answer(r.sn, "prepare", FALSE, 0) \/ outbox' = outbox
        BY <2>4 DEF CallbackFailed
      <4>2. outbox \in Seq(Reply) /\ "prepare" \in Phase
        BY DEF TypeOK, Phase
      <4> QED BY <2>2, <4>1, <4>2, AnswerType
    <3> QED BY <2>1, <2>4, <3>1, <3>2 DEF CallbackFailed, TypeOK
  <2>5. CASE CallbackOrphan
    BY <2>1, <2>5 DEF CallbackOrphan, TypeOK
  <2> QED BY <1>6, <2>3, <2>4, <2>5 DEF Callback
<1>7. CASE HandlePrepare
  <2> DEFINE sn == Head(inbox).sn
  <2>1. Handles("prepare")
    BY <1>7 DEF HandlePrepare, PrepareCharge, PreparePayIn, PrepareKnown
  <2>2. sn \in Sns /\ inbox' \in Seq(Message) /\ todo' \in Nat
    BY <2>1, HandlesType
  <2>3. Cur[sn] \in Currencies /\ Cnt[sn] \in Nat /\ conn \in Nat
    BY <2>2, TradesAssumption DEF TypeOK
  <2>4. "prepare" \in Phase
    BY DEF Phase
  <2>5. CASE PrepareCharge
    <3>1. Push(sn, Cur[sn], conn)
      BY <2>5 DEF PrepareCharge
    <3>2. stmts' \in [Sns -> Seq(Stmt)]
      BY <2>2, <2>3, <3>1, PushType
    <3>3. NewOrder(sn, 0, 0, GoldGame) \in Order
      BY <2>3, TradesAssumption DEF NewOrder, Order
    <3>4. orders' \in [Sns -> Order \cup {NoOrder}]
      BY <2>5, <3>3 DEF PrepareCharge, TypeOK
    <3>5. renewed' \subseteq Sns
      BY <2>2, <2>5 DEF PrepareCharge, TypeOK
    <3> QED BY <2>2, <2>5, <3>2, <3>4, <3>5 DEF PrepareCharge, TypeOK
  <2>6. CASE PreparePayIn
    <3>1. Answer(sn, "prepare", TRUE, Cnt[sn])
      BY <2>6 DEF PreparePayIn
    <3>2. outbox' \in Seq(Reply)
      BY <2>2, <2>3, <2>4, <3>1, AnswerType
    <3>3. NewOrder(sn, 1, Cnt[sn], Cur[sn]) \in Order
      BY <2>3 DEF NewOrder, Order
    <3>4. orders' \in [Sns -> Order \cup {NoOrder}]
      BY <2>6, <3>3 DEF PreparePayIn, TypeOK
    <3> QED BY <2>2, <2>6, <3>2, <3>4 DEF PreparePayIn, TypeOK
  <2>7. CASE PrepareKnown
    <3>1. Answer(sn, "prepare", TRUE, 0)
      BY <2>7 DEF PrepareKnown
    <3>2. outbox' \in Seq(Reply)
      BY <2>2, <2>4, <3>1, AnswerType
    <3> QED BY <2>2, <2>7, <3>2 DEF PrepareKnown, TypeOK
  <2> QED BY <1>7, <2>5, <2>6, <2>7 DEF HandlePrepare
<1>8. CASE HandleCommit
  <2> DEFINE sn == Head(inbox).sn
  <2>1. Handles("commit")
    BY <1>8 DEF HandleCommit, CommitUnknown, CommitCharge, CommitPayIn
  <2>2. sn \in Sns /\ inbox' \in Seq(Message) /\ todo' \in Nat
    BY <2>1, HandlesType
  <2>3. "commit" \in Phase
    BY DEF Phase
  <2>4. CASE CommitUnknown
    <3>1. Answer(sn, "commit", FALSE, 0)
      BY <2>4 DEF CommitUnknown
    <3>2. outbox' \in Seq(Reply)
      BY <2>2, <2>3, <3>1, AnswerType
    <3>3. taken' \in [Sns -> Nat]
      <4>1. taken \in [Sns -> Nat]
        BY DEF TypeOK
      <4>2. PICK n \in Nat : taken' = [taken EXCEPT ![sn] = n]
        <5>1. taken[sn] \in Nat
          BY <2>2, <4>1
        <5>2. (IF taken[sn] > 0 THEN taken[sn] + 1 ELSE 0) \in Nat
          BY <5>1
        <5> QED BY <2>4, <5>2 DEF CommitUnknown, TakenAgain
      <4> QED BY <2>2, <4>1, <4>2
    <3> QED BY <2>2, <2>4, <3>2, <3>3 DEF CommitUnknown, TypeOK
  <2>5. CASE CommitCharge
    <3>1. Answer(sn, "commit", TRUE, 0)
      BY <2>5 DEF CommitCharge
    <3>2. outbox' \in Seq(Reply)
      BY <2>2, <2>3, <3>1, AnswerType
    <3>3. orders[sn] \in Order
      BY <2>2, <2>5 DEF CommitCharge, Live, TypeOK
    <3>4. [orders[sn] EXCEPT !.state = 2] \in Order
      BY <3>3 DEF Order
    <3>5. orders' \in [Sns -> Order \cup {NoOrder}]
      BY <2>2, <2>5, <3>4 DEF CommitCharge, TypeOK
    <3>6. early' \subseteq Sns
      BY <2>2, <2>5 DEF CommitCharge, TypeOK
    <3> QED BY <2>2, <2>5, <3>2, <3>5, <3>6 DEF CommitCharge, TypeOK
  <2>6. CASE CommitPayIn
    <3>1. orders[sn] \in Order
      BY <2>2, <2>6 DEF CommitPayIn, Live, TypeOK
    <3>2. Push(sn, orders[sn].cur, orders[sn].conn)
      BY <2>6 DEF CommitPayIn
    <3>3. stmts' \in [Sns -> Seq(Stmt)]
      BY <2>2, <3>1, <3>2, PushType DEF Order
    <3>4. [orders[sn] EXCEPT !.state = 2, !.cur = GoldGame] \in Order
      <4>1. GoldGame \in Currencies
        BY TradesAssumption
      <4>2. 2 \in 0 .. 3
        OBVIOUS
      <4>3. \A o \in Order :
              [o EXCEPT !.state = 2, !.cur = GoldGame] \in Order
        BY <4>1, <4>2 DEF Order
      <4> QED BY <3>1, <4>3
    <3>5. orders' = [orders EXCEPT ![sn] =
                       [orders[sn] EXCEPT !.state = 2, !.cur = GoldGame]]
      BY <2>2, <2>6, <3>1 DEF CommitPayIn, TypeOK, Order
    <3>6. orders' \in [Sns -> Order \cup {NoOrder}]
      BY <3>4, <3>5 DEF TypeOK
    <3>7. taken' \in [Sns -> Nat]
      <4>1. taken \in [Sns -> Nat]
        BY DEF TypeOK
      <4>2. PICK n \in Nat : taken' = [taken EXCEPT ![sn] = n]
        <5>1. taken[sn] + 1 \in Nat
          BY <2>2, <4>1
        <5> QED BY <2>6, <5>1 DEF CommitPayIn
      <4> QED BY <2>2, <4>1, <4>2
    <3> QED BY <2>2, <2>6, <3>3, <3>6, <3>7 DEF CommitPayIn, TypeOK
  <2> QED BY <1>8, <2>4, <2>5, <2>6 DEF HandleCommit
<1>9. CASE Loop
  BY <1>9 DEF Loop, EndPoll, EndMsgs, EndSweep, TypeOK
<1> QED BY <1>1, <1>2, <1>4, <1>5, <1>6, <1>7, <1>8, <1>9 DEF Sweep

LEMMA TypeStep == TypeOK /\ [Next]_vars => TypeOK'
<1> SUFFICES ASSUME TypeOK, [Next]_vars PROVE TypeOK'
  OBVIOUS
<1>1. CASE Next
  BY <1>1, TypeOutside, TypeLoop DEF Next
<1>2. CASE UNCHANGED vars
  BY <1>2 DEF vars, coordVars, sqlVars, netVars, ledger, history, bounds, TypeOK
<1> QED BY <1>1, <1>2

-----------------------------------------------------------------------------
(* The account of one number *)

Account(sn) ==
  charged[sn] = kept[sn] + refunded[sn] + lost[sn] + Held(sn) + InResults(sn)

Good(sn) == OneCharge(sn) /\ Account(sn)

(* The ledger of a number is as it was. *)
LedgerKept(sn) ==
  /\ charged'[sn] = charged[sn] /\ kept'[sn] = kept[sn]
  /\ refunded'[sn] = refunded[sn] /\ lost'[sn] = lost[sn]

(* The order of a number is there or not, holds what it held, and waits    *)
(* for its query or not, as before.                                        *)
OrderKept(sn) ==
  /\ orders'[sn] = NoOrder <=> orders[sn] = NoOrder
  /\ orders[sn] # NoOrder =>
       /\ orders'[sn].value = orders[sn].value
       /\ orders'[sn].state = 0 <=> orders[sn].state = 0

LEMMA LedgerTypes ==
  ASSUME TypeOK, NEW sn \in Sns
  PROVE  /\ charged[sn] \in Nat /\ kept[sn] \in Nat /\ refunded[sn] \in Nat
         /\ lost[sn] \in Nat /\ Held(sn) \in Nat /\ InResults(sn) \in Nat
<1>1. /\ charged[sn] \in Nat /\ kept[sn] \in Nat /\ refunded[sn] \in Nat
      /\ lost[sn] \in Nat
  BY DEF TypeOK
<1> QED BY <1>1, HeldType, InResultsType

(* A step that leaves a number's calls, order and ledger alone. *)
LEMMA Untouched ==
  ASSUME NEW sn \in Sns, Good(sn), LedgerKept(sn), OrderKept(sn),
         stmts'[sn] = stmts[sn], results' = results
  PROVE  Good(sn)'
<1>1. Waiting(sn)' = Waiting(sn)
  BY DEF Waiting
<1>2. InResults(sn)' = InResults(sn)
  BY <1>1 DEF InResults
<1>3. Held(sn)' = Held(sn)
  BY DEF Held, Live, OrderKept
<1>4. Account(sn)'
  BY <1>2, <1>3 DEF Good, Account, LedgerKept
<1>5. OneCharge(sn)'
  BY <1>1 DEF Good, OneCharge, OrderKept, Live
<1> QED BY <1>4, <1>5 DEF Good

(* With one result on the way, that is what the number waits for. *)
LEMMA OneResult ==
  ASSUME NEW sn \in Sns, ~PayIn(sn), NEW i \in Waiting(sn),
         \A j, k \in Waiting(sn) : j = k
  PROVE  InResults(sn) = results[i].val
<1>1. (CHOOSE j \in Waiting(sn) : TRUE) = i
  OBVIOUS
<1> QED BY <1>1 DEF InResults

(* A new result is one more for its number and changes no other. *)
LEMMA ResultAdded ==
  ASSUME TypeOK, NEW r \in Result, results' = Append(results, r),
         NEW sn \in Sns
  PROVE  /\ r.sn # sn => /\ Waiting(sn)' = Waiting(sn)
                         /\ InResults(sn)' = InResults(sn)
         /\ r.sn = sn /\ Waiting(sn) = {} /\ ~PayIn(sn) =>
              /\ Waiting(sn)' = {Len(results) + 1}
              /\ InResults(sn)' = r.val
<1>1. /\ results \in Seq(Result) /\ Len(results) \in Nat
      /\ DOMAIN results = 1 .. Len(results)
      /\ DOMAIN results' = 1 .. Len(results) + 1
      /\ \A i \in 1 .. Len(results) : results'[i] = results[i]
      /\ results'[Len(results) + 1] = r
  BY DEF TypeOK
<1>2. ASSUME r.sn # sn
      PROVE  Waiting(sn)' = Waiting(sn) /\ InResults(sn)' = InResults(sn)
  <2>1. Waiting(sn)' = Waiting(sn)
    BY <1>1, <1>2 DEF Waiting
  <2>2. CASE Waiting(sn) = {}
    BY <2>1, <2>2 DEF InResults
  <2>3. CASE Waiting(sn) # {}
    <3> DEFINE c == CHOOSE i \in Waiting(sn) : TRUE
    <3>1. c \in Waiting(sn)
      BY <2>3
    <3>2. c = (CHOOSE i \in Waiting(sn) : TRUE)
      OBVIOUS
    <3> HIDE DEF c
    <3>3. c \in 1 .. Len(results)
      BY <1>1, <3>1 DEF Waiting
    <3>4. results'[c].val = results[c].val
      BY <1>1, <3>3
    <3> QED BY <2>1, <3>2, <3>4 DEF InResults
  <2> QED BY <2>1, <2>2, <2>3
<1>3. ASSUME r.sn = sn, Waiting(sn) = {}, ~PayIn(sn)
      PROVE  /\ Waiting(sn)' = {Len(results) + 1}
             /\ InResults(sn)' = r.val
  <2>1. Waiting(sn)' = {Len(results) + 1}
    BY <1>1, <1>3 DEF Waiting
  <2>2. (CHOOSE i \in Waiting(sn)' : TRUE) = Len(results) + 1
    BY <2>1
  <2> QED BY <1>1, <1>3, <2>1, <2>2 DEF InResults
<1> QED BY <1>2, <1>3

(* Taking the first result from the list. *)
LEMMA ResultTaken ==
  ASSUME TypeOK, results # <<>>, results' = Tail(results),
         NEW sn \in Sns, ~PayIn(sn), \A i, j \in Waiting(sn) : i = j
  PROVE  /\ \A i, j \in Waiting(sn)' : i = j
         /\ Head(results).sn # sn =>
              /\ Waiting(sn)' = {} <=> Waiting(sn) = {}
              /\ InResults(sn)' = InResults(sn)
         /\ Head(results).sn = sn =>
              /\ Waiting(sn) # {} /\ InResults(sn) = Head(results).val
              /\ Waiting(sn)' = {} /\ InResults(sn)' = 0
<1>1. /\ results \in Seq(Result) /\ Len(results) \in Nat
      /\ Len(results) > 0 /\ Head(results) = results[1]
      /\ DOMAIN results = 1 .. Len(results)
      /\ DOMAIN results' = 1 .. Len(results) - 1
      /\ \A i \in 1 .. Len(results) - 1 : results'[i] = results[i + 1]
  BY DEF TypeOK
<1>2. \A i \in Waiting(sn)' : i \in Nat /\ i + 1 \in Waiting(sn)
  BY <1>1 DEF Waiting
<1>3. \A i, j \in Waiting(sn)' : i = j
  BY <1>2
<1>4. ASSUME Head(results).sn # sn
      PROVE  /\ Waiting(sn)' = {} <=> Waiting(sn) = {}
             /\ InResults(sn)' = InResults(sn)
  <2>1. \A i \in Waiting(sn) : i \in Nat /\ i - 1 \in Waiting(sn)'
    BY <1>1, <1>4 DEF Waiting
  <2>2. CASE Waiting(sn) = {}
    <3>1. Waiting(sn)' = {}
      BY <1>2, <2>2
    <3> QED BY <2>2, <3>1 DEF InResults
  <2>3. CASE Waiting(sn) # {}
    <3>1. PICK i \in Waiting(sn)' : TRUE
      BY <2>1, <2>3
    <3>2. InResults(sn) = results[i + 1].val
      BY <1>2, OneResult
    <3>3. (CHOOSE j \in Waiting(sn)' : TRUE) = i
      BY <1>3
    <3>4. results'[i] = results[i + 1]
      BY <1>1 DEF Waiting
    <3> QED BY <2>3, <3>1, <3>2, <3>3, <3>4 DEF InResults
  <2> QED BY <2>2, <2>3
<1>5. ASSUME Head(results).sn = sn
      PROVE  /\ Waiting(sn) # {} /\ InResults(sn) = Head(results).val
             /\ Waiting(sn)' = {} /\ InResults(sn)' = 0
  <2>1. 1 \in Waiting(sn)
    BY <1>1, <1>5 DEF Waiting
  <2>2. Waiting(sn)' = {}
    <3> SUFFICES ASSUME NEW i \in Waiting(sn)' PROVE FALSE
      OBVIOUS
    <3>1. i \in 1 .. Len(results) - 1
      BY <1>1 DEF Waiting
    <3>2. i + 1 = 1
      BY <1>2, <2>1
    <3> QED BY <3>1, <3>2
  <2> QED BY <1>1, <2>1, <2>2, OneResult DEF InResults
<1> QED BY <1>3, <1>4, <1>5

-----------------------------------------------------------------------------
(* Calls and results keep to their order's message *)

LEMMA CallsOfPush ==
  ASSUME TypeOK, CallsTrue, NEW sn \in Sns, NEW cur \in Currencies,
         NEW sock \in Nat, Push(sn, cur, sock), results' = results
  PROVE  CallsTrue'
<1> DEFINE s == [dir |-> Dir[sn], cur |-> cur, cnt |-> Cnt[sn], conn |-> sock]
<1>1. stmts' = [stmts EXCEPT ![sn] = Append(stmts[sn], s)]
  BY DEF Push
<1>2. s.dir = Dir[sn] /\ s.cnt = Cnt[sn]
  OBVIOUS
<1> HIDE DEF s
<1>3. ASSUME NEW t \in Sns, NEW i \in DOMAIN stmts'[t]
      PROVE  stmts'[t][i].dir = Dir[t] /\ stmts'[t][i].cnt = Cnt[t]
  <2>1. stmts[t] \in Seq(Stmt)
    BY DEF TypeOK
  <2>2. CASE t # sn
    <3>1. stmts'[t] = stmts[t]
      BY <1>1, <2>2 DEF TypeOK
    <3> QED BY <1>3, <3>1 DEF CallsTrue
  <2>3. CASE t = sn
    <3>1. stmts'[t] = Append(stmts[t], s)
      BY <1>1, <2>3 DEF TypeOK
    <3>2. CASE i \in 1 .. Len(stmts[t])
      <4>1. stmts'[t][i] = stmts[t][i] /\ i \in DOMAIN stmts[t]
        BY <2>1, <3>1, <3>2
      <4> QED BY <4>1 DEF CallsTrue
    <3>3. CASE i \notin 1 .. Len(stmts[t])
      <4>1. stmts'[t][i] = s
        BY <1>3, <2>1, <3>1, <3>3
      <4> QED BY <1>2, <2>3, <4>1
    <3> QED BY <3>2, <3>3
  <2> QED BY <2>2, <2>3
<1> QED BY <1>3 DEF CallsTrue

LEMMA CallsOfExecuted ==
  ASSUME TypeOK, CallsTrue, NEW sn \in Sns, NEW i \in DOMAIN stmts[sn],
         NEW ok \in BOOLEAN, NEW val \in Nat, Executed(sn, i, ok, val),
         ~ok => val = 0,
         ok /\ Dir[sn] = 0 => val = Cnt[sn]
  PROVE  CallsTrue'
<1> DEFINE r == [sn |-> sn, ok |-> ok, val |-> val, conn |-> stmts[sn][i].conn]
<1>1. /\ stmts' = [stmts EXCEPT ![sn] = Without(stmts[sn], i)]
      /\ results' = Append(results, r)
  BY DEF Executed
<1>2. ASSUME NEW t \in Sns, NEW j \in DOMAIN stmts'[t]
      PROVE  stmts'[t][j].dir = Dir[t] /\ stmts'[t][j].cnt = Cnt[t]
  <2>1. stmts[t] \in Seq(Stmt)
    BY DEF TypeOK
  <2>2. PICK k \in DOMAIN stmts[t] : stmts'[t][j] = stmts[t][k]
    <3>1. CASE t # sn
      BY <1>1, <1>2, <3>1 DEF TypeOK
    <3>2. CASE t = sn
      <4>1. stmts'[t] = Without(stmts[t], i)
        BY <1>1, <3>2 DEF TypeOK
      <4> QED BY <1>2, <2>1, <3>2, <4>1, WithoutElements
    <3> QED BY <3>1, <3>2
  <2> QED BY <2>2 DEF CallsTrue
<1>3. r.sn = sn /\ r.ok = ok /\ r.val = val
  OBVIOUS
<1> HIDE DEF r
<1>4. ASSUME NEW j \in DOMAIN results'
      PROVE  /\ ~results'[j].ok => results'[j].val = 0
             /\ results'[j].ok /\ Dir[results'[j].sn] = 0 =>
                  results'[j].val = Cnt[results'[j].sn]
  <2>1. results \in Seq(Result)
    BY DEF TypeOK
  <2>2. CASE j \in 1 .. Len(results)
    <3>1. results'[j] = results[j] /\ j \in DOMAIN results
      BY <1>1, <2>1, <2>2
    <3> QED BY <3>1 DEF CallsTrue
  <2>3. CASE j \notin 1 .. Len(results)
    <3>1. results'[j] = r
      BY <1>1, <1>4, <2>1, <2>3
    <3> QED BY <1>3, <3>1
  <2> QED BY <2>2, <2>3
<1> QED BY <1>2, <1>4 DEF CallsTrue

LEMMA CallsOfPoll ==
  ASSUME TypeOK, CallsTrue, results # <<>>, results' = Tail(results),
         stmts' = stmts
  PROVE  CallsTrue'
<1>1. results \in Seq(Result)
  BY DEF TypeOK
<1>2. ASSUME NEW j \in DOMAIN results'
      PROVE  j + 1 \in DOMAIN results /\ results'[j] = results[j + 1]
  BY <1>1, <1>2
<1> QED BY <1>2 DEF CallsTrue

(* The amount that one executed call takes from the account. *)
LEMMA ExecutedCases ==
  ASSUME TypeOK, CallsTrue, NEW sn \in Sns, NEW i \in DOMAIN stmts[sn],
         ExecCharge(sn, i) \/ ExecShort(sn, i) \/ ExecAdd(sn, i)
           \/ ExecError(sn, i)
  PROVE  \E ok \in BOOLEAN, val \in Nat :
           /\ Executed(sn, i, ok, val)
           /\ ~ok => val = 0
           /\ ok /\ Dir[sn] = 0 => val = Cnt[sn]
           /\ \A t \in Sns :
                /\ t # sn => charged'[t] = charged[t]
                /\ ~PayIn(sn) => charged'[sn] = charged[sn] + val
<1> DEFINE s == stmts[sn][i]
<1>1. s \in Stmt /\ s.dir = Dir[sn] /\ s.cnt = Cnt[sn]
  BY DEF CallsTrue, TypeOK
<1>2. charged \in [Sns -> Nat] /\ Cnt[sn] \in Nat
  BY TradesAssumption DEF TypeOK
<1>3. CASE ExecCharge(sn, i)
  <2> DEFINE amt == IF s.dir = 1 THEN bal[s.cur] ELSE s.cnt
  <2>1. amt \in Nat /\ (Dir[sn] = 0 => amt = Cnt[sn])
    <3>1. s.cur \in Currencies /\ s.cnt \in Nat
      BY <1>1 DEF Stmt
    <3>2. bal[s.cur] \in Nat
      BY <3>1 DEF TypeOK
    <3> QED BY <1>1, <3>1, <3>2
  <2>2. /\ Executed(sn, i, TRUE, amt)
        /\ charged' = [charged EXCEPT ![sn] = charged[sn] + amt]
    BY <1>3 DEF ExecCharge
  <2> HIDE DEF amt
  <2>3. \A t \in Sns : /\ t # sn => charged'[t] = charged[t]
                       /\ charged'[sn] = charged[sn] + amt
    BY <1>2, <2>2
  <2> QED BY <2>1, <2>2, <2>3
<1>4. CASE ExecShort(sn, i) \/ ExecError(sn, i)
  <2>1. Executed(sn, i, FALSE, 0) /\ charged' = charged
    BY <1>4 DEF ExecShort, ExecError, ledger
  <2>2. charged'[sn] = charged[sn] + 0
    BY <1>2, <2>1
  <2> QED BY <2>1, <2>2
<1>5. CASE ExecAdd(sn, i)
  <2>1. Executed(sn, i, TRUE, s.cnt) /\ charged' = charged /\ s.dir = 2
    BY <1>5 DEF ExecAdd
  <2>2. PayIn(sn) /\ s.cnt \in Nat
    BY <1>1, <1>2, <2>1 DEF PayIn
  <2> QED BY <1>1, <2>1, <2>2
<1> QED BY <1>3, <1>4, <1>5

LEMMA CallsStep == TypeOK /\ CallsTrue /\ [Next]_vars => CallsTrue'
<1> SUFFICES ASSUME TypeOK, CallsTrue, [Next]_vars PROVE CallsTrue'
  OBVIOUS
<1> USE DEF coordVars, sqlVars, netVars, ledger, history, bounds
<1>1. ASSUME NEW sn \in Sns, NEW i \in DOMAIN stmts[sn],
             ExecCharge(sn, i) \/ ExecShort(sn, i) \/ ExecAdd(sn, i)
               \/ ExecError(sn, i)
      PROVE  CallsTrue'
  BY <1>1, ExecutedCases, CallsOfExecuted
<1>2. CASE Callback
  <2>1. results # <<>> /\ results' = Tail(results) /\ stmts' = stmts
    BY <1>2 DEF Callback, CallbackOk, CallbackFailed, CallbackOrphan, Polls
  <2> QED BY <2>1, CallsOfPoll
<1>3. CASE PrepareCharge
  <2> DEFINE sn == Head(inbox).sn
  <2>1. Handles("prepare") /\ Push(sn, Cur[sn], conn) /\ results' = results
    BY <1>3 DEF PrepareCharge
  <2>2. sn \in Sns
    BY <2>1, HandlesType
  <2> HIDE DEF sn
  <2>3. Cur[sn] \in Currencies /\ conn \in Nat
    BY <2>2, TradesAssumption DEF TypeOK
  <2> QED BY <2>1, <2>2, <2>3, CallsOfPush
<1>4. CASE CommitPayIn
  <2> DEFINE sn == Head(inbox).sn
  <2>1. /\ Handles("commit") /\ Live(sn) /\ results' = results
        /\ Push(sn, orders[sn].cur, orders[sn].conn)
    BY <1>4 DEF CommitPayIn
  <2>2. sn \in Sns
    BY <2>1, HandlesType
  <2> HIDE DEF sn
  <2>3. orders[sn].cur \in Currencies /\ orders[sn].conn \in Nat
    BY <2>1, <2>2 DEF Live, TypeOK, Order
  <2> QED BY <2>1, <2>2, <2>3, CallsOfPush
<1>5. CASE DbGone \/ Crash
  <2>1. stmts' = [sn \in Sns |-> <<>>] /\ (results' = results \/ results' = <<>>)
    BY <1>5 DEF DbGone, Crash
  <2> QED BY <2>1 DEF CallsTrue
<1>6. CASE \/ \E sn \in Sns : \/ GameStart(sn) \/ GameRepeat(sn) \/ Age(sn)
                              \/ Sweep(sn) \/ SweepLost(sn)
           \/ GameAnswered \/ Break \/ PreparePayIn \/ PrepareKnown
           \/ CommitUnknown \/ CommitCharge \/ Loop \/ UNCHANGED vars
  <2>1. stmts' = stmts /\ results' = results
    BY <1>6 DEF GameStart, GameRepeat, Age, Sweep, SweepDone, SweepFailed,
                SweepLost, GameAnswered, Break, PreparePayIn, PrepareKnown,
                CommitUnknown, CommitCharge, Loop, EndPoll, EndMsgs, EndSweep,
                vars
  <2> QED BY <2>1 DEF CallsTrue
<1> QED BY <1>1, <1>2, <1>3, <1>4, <1>5, <1>6
        DEF Next, Execute, HandlePrepare, HandleCommit

-----------------------------------------------------------------------------
(* Every number is charged once at a time, and its account agrees *)

(* An executed call moves what it took into its result. *)
LEMMA GoodExecuted ==
  ASSUME TypeOK, NEW sn \in Sns, NEW i \in DOMAIN stmts[sn],
         NEW ok \in BOOLEAN, NEW val \in Nat, Executed(sn, i, ok, val),
         NEW t \in Sns, ~PayIn(t), Good(t),
         charged'[t] = IF t = sn THEN charged[t] + val ELSE charged[t],
         orders' = orders, kept' = kept, refunded' = refunded, lost' = lost
  PROVE  Good(t)'
<1> DEFINE r == [sn |-> sn, ok |-> ok, val |-> val, conn |-> stmts[sn][i].conn]
<1>1. /\ stmts[sn] \in Seq(Stmt) /\ stmts[sn][i] \in Stmt
      /\ stmts' = [stmts EXCEPT ![sn] = Without(stmts[sn], i)]
      /\ results' = Append(results, r)
  <2>1. stmts[sn] \in Seq(Stmt)
    BY DEF TypeOK
  <2>2. stmts[sn][i] \in Stmt
    BY <2>1
  <2> QED BY <2>1, <2>2 DEF Executed
<1>2. r \in Result /\ r.sn = sn /\ r.val = val
  BY <1>1 DEF Result, Stmt
<1> HIDE DEF r
<1>3. Held(t)' = Held(t)
  BY DEF Held, Live
<1>4. /\ charged[t] \in Nat /\ kept[t] \in Nat /\ refunded[t] \in Nat
      /\ lost[t] \in Nat /\ Held(t) \in Nat /\ InResults(t) \in Nat
  BY LedgerTypes
<1>5. CASE t # sn
  <2>1. stmts'[t] = stmts[t]
    BY <1>1, <1>5 DEF TypeOK
  <2>2. Waiting(t)' = Waiting(t) /\ InResults(t)' = InResults(t)
    BY <1>1, <1>2, <1>5, ResultAdded
  <2>3. OneCharge(t)'
    BY <2>1, <2>2 DEF Good, OneCharge, Live
  <2>4. Account(t)'
    BY <1>3, <1>5, <2>2 DEF Good, Account
  <2> QED BY <2>3, <2>4 DEF Good
<1>6. CASE t = sn
  <2>1. /\ stmts[t] # <<>> /\ Len(stmts[t]) = 1
        /\ Waiting(t) = {} /\ Live(t) /\ orders[t].state = 0
    <3>1. stmts[t] # <<>> /\ Len(stmts[t]) \in Nat /\ Len(stmts[t]) > 0
      BY <1>1, <1>6
    <3>2. OneCharge(t)
      BY DEF Good
    <3>3. Len(stmts[t]) <= 1
      BY <3>2 DEF OneCharge
    <3>4. Waiting(t) = {} /\ Live(t) /\ orders[t].state = 0
      BY <3>1, <3>2 DEF OneCharge
    <3>5. Len(stmts[t]) = 1
      <4> DEFINE n == Len(stmts[t])
      <4>1. n \in Nat /\ n > 0 /\ n <= 1
        BY <3>1, <3>3
      <4> HIDE DEF n
      <4>2. n = 1
        BY <4>1
      <4> QED BY <4>2 DEF n
    <3> QED BY <3>1, <3>4, <3>5
  <2>2. stmts'[t] = <<>> /\ Len(stmts'[t]) = 0
    <3>1. stmts'[t] = Without(stmts[t], i)
      BY <1>1, <1>6 DEF TypeOK
    <3>2. stmts'[t] \in Seq(Stmt) /\ Len(stmts'[t]) = 0
      BY <1>1, <1>6, <2>1, <3>1, WithoutType
    <3> QED BY <3>2
  <2>3. Waiting(t)' = {Len(results) + 1} /\ InResults(t)' = val
    BY <1>1, <1>2, <1>6, <2>1, ResultAdded
  <2>4. InResults(t) = 0
    BY <2>1 DEF InResults
  <2>5. OneCharge(t)'
    BY <2>1, <2>2, <2>3 DEF Good, OneCharge, Live
  <2>6. charged'[t] = charged[t] + val
    BY <1>6
  <2>7. charged[t] = kept[t] + refunded[t] + lost[t] + Held(t)
    BY <1>4, <2>4 DEF Good, Account
  <2>8. Account(t)'
    BY <1>3, <1>4, <2>3, <2>6, <2>7 DEF Account
  <2> QED BY <2>5, <2>8 DEF Good
<1> QED BY <1>5, <1>6

(* The order after its callback holds the amount that was charged. *)
LEMMA ChargedOrder ==
  ASSUME NEW o \in Order, NEW t \in Sns, NEW r, r.val \in Nat,
         Dir[t] = 1 \/ (Dir[t] = 0 /\ r.val = Cnt[t])
  PROVE  /\ OrderCharged(o, t, r) \in Order
         /\ OrderCharged(o, t, r).state \in {1, 3}
         /\ OrderCharged(o, t, r).value = r.val
<1> DEFINE st == IF r.conn = conn THEN 1 ELSE 3
<1>1. st \in {1, 3} /\ st \in 0 .. 3
  OBVIOUS
<1>2. (CASE Dir[t] = 0 -> Cnt[t] [] Dir[t] = 1 -> r.val [] OTHER -> o.value)
        = r.val
  OBVIOUS
<1>3. OrderCharged(o, t, r) =
        [o EXCEPT !.state = st, !.value = r.val, !.old = FALSE]
  BY <1>2 DEF OrderCharged
<1> HIDE DEF st
<1> QED BY <1>1, <1>3 DEF Order

(* A callback moves the result into the order, or finds it empty. *)
LEMMA GoodCallback ==
  ASSUME TypeOK, CallsTrue, Callback, NEW t \in Sns, ~PayIn(t), Good(t)
  PROVE  Good(t)'
<1> USE DEF coordVars, sqlVars, netVars, ledger, history, bounds
<1> DEFINE r == Head(results)
<1>1. /\ results # <<>> /\ results' = Tail(results) /\ stmts' = stmts
      /\ charged' = charged /\ kept' = kept /\ refunded' = refunded
      /\ lost' = lost
  BY DEF Callback, CallbackOk, CallbackFailed, CallbackOrphan, Polls
<1>2. /\ r \in Result /\ r.sn \in Sns /\ r.val \in Nat
      /\ ~r.ok => r.val = 0
      /\ r.ok /\ Dir[r.sn] = 0 => r.val = Cnt[r.sn]
  <2>1. results \in Seq(Result) /\ 1 \in DOMAIN results /\ r = results[1]
    BY <1>1 DEF TypeOK
  <2>2. r \in Result
    BY <2>1
  <2>3. /\ ~results[1].ok => results[1].val = 0
        /\ results[1].ok /\ Dir[results[1].sn] = 0 =>
             results[1].val = Cnt[results[1].sn]
    BY <2>1 DEF CallsTrue
  <2> QED BY <2>1, <2>2, <2>3 DEF Result
<1>3. /\ charged[t] \in Nat /\ kept[t] \in Nat /\ refunded[t] \in Nat
      /\ lost[t] \in Nat /\ Held(t) \in Nat /\ InResults(t) \in Nat
  BY LedgerTypes
<1>4. \A i, j \in Waiting(t) : i = j
  BY DEF Good, OneCharge
<1>5. \A i, j \in Waiting(t)' : i = j
  BY <1>1, <1>4, ResultTaken
<1>6. CASE r.sn # t
  <2>1. (Waiting(t)' = {} <=> Waiting(t) = {}) /\ InResults(t)' = InResults(t)
    BY <1>1, <1>4, <1>6, ResultTaken
  <2>2. orders'[t] = orders[t]
    BY <1>2, <1>6 DEF Callback, CallbackOk, CallbackFailed, CallbackOrphan, TypeOK
  <2>3. OneCharge(t)'
    BY <1>1, <1>5, <2>1, <2>2 DEF Good, OneCharge, Live
  <2>4. Held(t)' = Held(t)
    BY <2>2 DEF Held, Live
  <2> QED BY <1>1, <2>1, <2>3, <2>4 DEF Good, Account
<1>7. CASE r.sn = t
  <2>1. /\ Waiting(t) # {} /\ InResults(t) = r.val
        /\ Waiting(t)' = {} /\ InResults(t)' = 0
    BY <1>1, <1>4, <1>7, ResultTaken
  <2>2. /\ stmts[t] = <<>> /\ Live(t) /\ orders[t].state = 0
        /\ orders[t].value = 0
    BY <2>1 DEF Good, OneCharge
  <2>3. orders[t] \in Order /\ Held(t) = 0
    BY <2>2 DEF Held, Live, TypeOK
  <2>4. charged[t] = kept[t] + refunded[t] + lost[t] + r.val
    BY <1>3, <2>1, <2>3 DEF Good, Account
  <2>5. CASE CallbackOk
    <3>1. r.ok /\ orders' = [orders EXCEPT ![t] = OrderCharged(orders[t], t, r)]
      BY <1>7, <2>5 DEF CallbackOk
    <3>2. orders'[t] = OrderCharged(orders[t], t, r)
      BY <3>1 DEF TypeOK
    <3>3. ASSUME Dir[t] = 0
          PROVE  /\ orders'[t] \in Order /\ orders'[t].state \in {1, 3}
                 /\ orders'[t].value = r.val
      <4>1. r.val = Cnt[t]
        BY <1>2, <1>7, <3>1, <3>3
      <4> QED BY <1>2, <2>3, <3>2, <3>3, <4>1, ChargedOrder
    <3>4. ASSUME Dir[t] = 1
          PROVE  /\ orders'[t] \in Order /\ orders'[t].state \in {1, 3}
                 /\ orders'[t].value = r.val
      BY <1>2, <2>3, <3>2, <3>4, ChargedOrder
    <3>5. Dir[t] \in {0, 1}
      BY TradesAssumption DEF PayIn
    <3>6. /\ orders'[t] # NoOrder /\ orders'[t].state \in {1, 3}
          /\ orders'[t].value = r.val
      <4>1. /\ orders'[t] \in Order /\ orders'[t].state \in {1, 3}
            /\ orders'[t].value = r.val
        BY <3>3, <3>4, <3>5
      <4> QED BY <4>1, NoOrderAssumption
    <3>7. Held(t)' = r.val
      BY <3>6 DEF Held, Live
    <3>8. OneCharge(t)'
      BY <1>1, <1>5, <2>1, <2>2, <3>6 DEF OneCharge, Live, Good
    <3>9. Account(t)'
      BY <1>1, <1>2, <1>3, <2>1, <2>4, <3>7 DEF Account
    <3> QED BY <3>8, <3>9 DEF Good
  <2>6. CASE CallbackFailed
    <3>1. ~r.ok /\ orders' = [orders EXCEPT ![t] = NoOrder]
      BY <1>7, <2>6 DEF CallbackFailed
    <3>2. orders'[t] = NoOrder
      BY <3>1 DEF TypeOK
    <3>3. Held(t)' = 0
      BY <3>2 DEF Held, Live
    <3>4. OneCharge(t)'
      BY <1>1, <1>5, <2>1, <2>2, <3>2 DEF OneCharge, Live, Good
    <3>5. Account(t)'
      BY <1>1, <1>2, <1>3, <2>1, <2>4, <3>1, <3>3 DEF Account
    <3> QED BY <3>4, <3>5 DEF Good
  <2>7. CASE CallbackOrphan
    BY <1>7, <2>2, <2>7 DEF CallbackOrphan
  <2> QED BY <2>5, <2>6, <2>7 DEF Callback
<1> QED BY <1>6, <1>7

(* The sweep moves what an order holds into the ledger. *)
LEMMA GoodSweep ==
  ASSUME TypeOK, NEW sn \in Sns, Sweep(sn) \/ SweepLost(sn),
         NEW t \in Sns, ~PayIn(t), Good(t)
  PROVE  Good(t)'
<1> USE DEF coordVars, sqlVars, netVars, ledger, history, bounds
<1>1. /\ stmts' = stmts /\ results' = results /\ charged' = charged
      /\ orders' = [orders EXCEPT ![sn] = NoOrder]
      /\ Live(sn) /\ orders[sn].state # 0
  BY DEF Sweep, SweepDone, SweepFailed, SweepLost, Drop, Failed, TimedOut
<1>2. /\ charged[t] \in Nat /\ kept[t] \in Nat /\ refunded[t] \in Nat
      /\ lost[t] \in Nat /\ Held(t) \in Nat /\ InResults(t) \in Nat
  BY LedgerTypes
<1>3. CASE t # sn
  <2>1. orders'[t] = orders[t]
    BY <1>1, <1>3 DEF TypeOK
  <2>2. LedgerKept(t)
    BY <1>1, <1>3 DEF Sweep, SweepDone, SweepFailed, SweepLost, TypeOK, LedgerKept
  <2> QED BY <1>1, <2>1, <2>2, Untouched DEF OrderKept
<1>4. CASE t = sn
  <2>1. orders'[t] = NoOrder
    BY <1>1, <1>4 DEF TypeOK
  <2>2. stmts[t] = <<>> /\ Waiting(t) = {}
    BY <1>1, <1>4 DEF Good, OneCharge
  <2>3. Waiting(t)' = {} /\ InResults(t) = 0 /\ InResults(t)' = 0
    BY <1>1, <2>2 DEF Waiting, InResults
  <2>4. Held(t)' = 0
    BY <2>1 DEF Held, Live
  <2>5. OneCharge(t)'
    BY <1>1, <2>1, <2>2, <2>3 DEF Good, OneCharge, Live
  <2>6. kept'[t] + refunded'[t] + lost'[t]
          = kept[t] + refunded[t] + lost[t] + Held(t)
    <3>1. CASE SweepDone(t)
      <4>1. /\ kept'[t] = kept[t] + Held(t)
            /\ refunded' = refunded /\ lost' = lost
        BY <3>1 DEF SweepDone, TypeOK
      <4> QED BY <1>2, <4>1
    <3>2. CASE SweepFailed(t)
      <4>1. /\ refunded'[t] = refunded[t] + Held(t)
            /\ kept' = kept /\ lost' = lost
        BY <3>2 DEF SweepFailed, TypeOK
      <4> QED BY <1>2, <4>1
    <3>3. CASE SweepLost(t)
      <4>1. /\ lost'[t] = lost[t] + Held(t)
            /\ kept' = kept /\ refunded' = refunded
        BY <3>3 DEF SweepLost, TypeOK
      <4> QED BY <1>2, <4>1
    <3> QED BY <1>4, <3>1, <3>2, <3>3 DEF Sweep
  <2>7. kept'[t] \in Nat /\ refunded'[t] \in Nat /\ lost'[t] \in Nat
    <3>1. TypeOK'
      BY TypeLoop
    <3> QED BY <3>1 DEF TypeOK
  <2>8. charged[t] = kept[t] + refunded[t] + lost[t] + Held(t) + InResults(t)
    BY DEF Good, Account
  <2>9. Account(t)'
    BY <1>1, <1>2, <2>3, <2>4, <2>6, <2>7, <2>8 DEF Account
  <2> QED BY <2>5, <2>9 DEF Good
<1> QED BY <1>3, <1>4

(* A crash takes every charge out of the orders and off the queue. *)
LEMMA GoodCrash ==
  ASSUME TypeOK, Crash, NEW t \in Sns, ~PayIn(t), Good(t)
  PROVE  Good(t)'
<1> USE DEF coordVars, sqlVars, netVars, ledger, history, bounds
<1>1. /\ orders'[t] = NoOrder /\ stmts'[t] = <<>> /\ results' = <<>>
      /\ charged' = charged /\ refunded' = refunded
  BY DEF Crash
<1>2. /\ charged[t] \in Nat /\ kept[t] \in Nat /\ refunded[t] \in Nat
      /\ lost[t] \in Nat /\ Held(t) \in Nat /\ InResults(t) \in Nat
  BY LedgerTypes
<1>3. Waiting(t)' = {} /\ InResults(t)' = 0 /\ Held(t)' = 0
  BY <1>1 DEF Waiting, InResults, Held, Live
<1>4. OneCharge(t)'
  BY <1>1, <1>3 DEF OneCharge, Live
<1>5. kept'[t] + lost'[t] = kept[t] + lost[t] + Held(t) + InResults(t)
  <2>1. CASE Live(t) /\ orders[t].state = 2
    <3>1. kept'[t] = kept[t] + Held(t) /\ lost'[t] = lost[t] + InResults(t) + 0
      BY <2>1 DEF Crash
    <3> QED BY <1>2, <3>1
  <2>2. CASE ~(Live(t) /\ orders[t].state = 2)
    <3>1. kept'[t] = kept[t] /\ lost'[t] = lost[t] + InResults(t) + Held(t)
      BY <2>2 DEF Crash
    <3> QED BY <1>2, <3>1
  <2> QED BY <2>1, <2>2
<1>6. kept'[t] \in Nat /\ lost'[t] \in Nat
  <2>1. TypeOK'
    BY TypeOutside
  <2> QED BY <2>1 DEF TypeOK
<1>7. charged[t] = kept[t] + refunded[t] + lost[t] + Held(t) + InResults(t)
  BY DEF Good, Account
<1>8. charged[t] = kept'[t] + refunded[t] + lost'[t]
  BY <1>2, <1>5, <1>6, <1>7
<1>9. kept'[t] + refunded[t] + lost'[t] + 0 + 0
        = kept'[t] + refunded[t] + lost'[t]
  BY <1>2, <1>6
<1>10. Account(t)'
  BY <1>1, <1>3, <1>8, <1>9 DEF Account
<1> QED BY <1>4, <1>10 DEF Good

(* A prepare or a commit of a number that was not committed too early. *)
LEMMA GoodHandled ==
  ASSUME TypeOK, HandlePrepare \/ HandleCommit,
         NEW t \in Sns \ early', ~PayIn(t), Good(t)
  PROVE  Good(t)'
<1> USE DEF coordVars, sqlVars, netVars, ledger, history, bounds
<1> DEFINE sn == Head(inbox).sn
<1>1. sn \in Sns
  <2>1. PICK phase : Handles(phase)
    BY DEF HandlePrepare, PrepareCharge, PreparePayIn, PrepareKnown,
           HandleCommit, CommitUnknown, CommitCharge, CommitPayIn
  <2> QED BY <2>1, HandlesType
<1>2. /\ charged' = charged /\ kept' = kept /\ refunded' = refunded
      /\ lost' = lost /\ results' = results
  BY DEF HandlePrepare, PrepareCharge, PreparePayIn, PrepareKnown,
         HandleCommit, CommitUnknown, CommitCharge, CommitPayIn
<1>3. LedgerKept(t)
  BY <1>2 DEF LedgerKept
<1>4. CASE PrepareCharge /\ t = sn
  <2>1. orders[t] = NoOrder /\ stmts[t] = <<>> /\ Waiting(t) = {}
    BY <1>4 DEF PrepareCharge, Live, Good, OneCharge
  <2>2. orders'[t] = NewOrder(t, 0, 0, GoldGame)
    BY <1>1, <1>4 DEF PrepareCharge, TypeOK
  <2>3. orders'[t] # NoOrder
    <3>1. orders'[t] \in Order
      <4>1. GoldGame \in Currencies /\ conn \in Nat
        BY TradesAssumption DEF TypeOK
      <4> QED BY <2>2, <4>1 DEF NewOrder, Order
    <3> QED BY <3>1, NoOrderAssumption
  <2>4. orders'[t].state = 0 /\ orders'[t].value = 0
    BY <2>2 DEF NewOrder
  <2>5. Len(stmts'[t]) = 1
    <3>1. Push(t, Cur[t], conn)
      BY <1>4 DEF PrepareCharge
    <3> QED BY <2>1, <3>1 DEF Push, TypeOK
  <2>6. Waiting(t)' = {} /\ InResults(t)' = InResults(t)
    BY <1>2, <2>1 DEF Waiting, InResults
  <2>7. Held(t)' = 0 /\ Held(t) = 0
    BY <2>1, <2>4 DEF Held, Live
  <2>8. OneCharge(t)'
    BY <2>3, <2>4, <2>5, <2>6 DEF OneCharge, Live
  <2>9. Account(t)'
    BY <1>2, <2>6, <2>7 DEF Good, Account
  <2> QED BY <2>8, <2>9 DEF Good
<1>5. CASE CommitCharge /\ t = sn
  <2>1. orders[t].state # 0 /\ orders[t] # NoOrder
    BY <1>5 DEF CommitCharge, Live
  <2>2. orders'[t] = [orders[t] EXCEPT !.state = 2] /\ orders[t] \in Order
    BY <1>5, <2>1 DEF CommitCharge, TypeOK
  <2>3. orders'[t] \in Order /\ orders'[t].value = orders[t].value
        /\ orders'[t].state = 2
    BY <2>2 DEF Order
  <2>4. OrderKept(t)
    BY <2>1, <2>3, NoOrderAssumption DEF OrderKept
  <2>5. stmts' = stmts
    BY <1>5 DEF CommitCharge
  <2> QED BY <1>2, <1>3, <2>4, <2>5, Untouched
<1>6. CASE ~((PrepareCharge \/ CommitCharge) /\ t = sn)
  <2>1. orders'[t] = orders[t] /\ stmts'[t] = stmts[t]
    <3>1. CASE PrepareKnown \/ CommitUnknown
      BY <3>1 DEF PrepareKnown, CommitUnknown
    <3>2. CASE PreparePayIn \/ CommitPayIn
      <4>1. PayIn(sn)
        BY <3>2 DEF PreparePayIn, CommitPayIn
      <4>2. t # sn
        BY <4>1
      <4> QED BY <3>2, <4>2 DEF PreparePayIn, CommitPayIn, Push, TypeOK
    <3>3. CASE PrepareCharge \/ CommitCharge
      <4>1. t # sn
        BY <1>6, <3>3
      <4> QED BY <3>3, <4>1 DEF PrepareCharge, CommitCharge, Push, TypeOK
    <3> QED BY <3>1, <3>2, <3>3 DEF HandlePrepare, HandleCommit
  <2> QED BY <1>2, <1>3, <2>1, Untouched DEF OrderKept
<1> QED BY <1>4, <1>5, <1>6

LEMMA GoodStep ==
  ASSUME TypeOK, CallsTrue, [Next]_vars,
         NEW t \in Sns \ early', ~PayIn(t), Good(t)
  PROVE  Good(t)'
<1> USE DEF coordVars, sqlVars, netVars, ledger, history, bounds
<1>1. ASSUME NEW sn \in Sns, NEW i \in DOMAIN stmts[sn],
             ExecCharge(sn, i) \/ ExecShort(sn, i) \/ ExecAdd(sn, i)
               \/ ExecError(sn, i)
      PROVE  Good(t)'
  <2>1. PICK ok \in BOOLEAN, val \in Nat :
          /\ Executed(sn, i, ok, val)
          /\ \A u \in Sns : /\ u # sn => charged'[u] = charged[u]
                            /\ ~PayIn(sn) => charged'[sn] = charged[sn] + val
    BY <1>1, ExecutedCases
  <2>2. charged'[t] = IF t = sn THEN charged[t] + val ELSE charged[t]
    BY <2>1
  <2>3. orders' = orders /\ kept' = kept /\ refunded' = refunded /\ lost' = lost
    BY <1>1 DEF ExecCharge, ExecShort, ExecAdd, ExecError
  <2> QED BY <2>1, <2>2, <2>3, GoodExecuted
<1>2. CASE Callback
  BY <1>2, GoodCallback
<1>3. CASE \E sn \in Sns : Sweep(sn) \/ SweepLost(sn)
  BY <1>3, GoodSweep
<1>4. CASE Crash
  BY <1>4, GoodCrash
<1>5. CASE HandlePrepare \/ HandleCommit
  BY <1>5, GoodHandled
<1>6. CASE DbGone
  <2>1. /\ stmts'[t] = <<>> /\ results' = results /\ orders' = orders
        /\ charged' = charged /\ kept' = kept /\ refunded' = refunded
        /\ lost' = lost
    BY <1>6 DEF DbGone
  <2>2. Waiting(t)' = Waiting(t) /\ InResults(t)' = InResults(t)
        /\ Held(t)' = Held(t)
    BY <2>1 DEF Waiting, InResults, Held, Live
  <2>3. OneCharge(t)'
    BY <2>1, <2>2 DEF Good, OneCharge, Live
  <2>4. Account(t)'
    BY <2>1, <2>2 DEF Good, Account
  <2> QED BY <2>3, <2>4 DEF Good
<1>7. CASE \E sn \in Sns : Age(sn)
  <2>1. PICK sn \in Sns : Age(sn)
    BY <1>7
  <2>2. /\ stmts' = stmts /\ results' = results /\ LedgerKept(t)
        /\ orders' = [orders EXCEPT ![sn].old = TRUE]
    BY <2>1 DEF Age, LedgerKept
  <2>3. OrderKept(t)
    <3>1. CASE t # sn
      BY <2>2, <3>1 DEF OrderKept, TypeOK
    <3>2. CASE t = sn
      <4>1. orders[t] \in Order
        BY <2>1, <3>2 DEF Age, Live, TypeOK
      <4>2. orders'[t] = [orders[t] EXCEPT !.old = TRUE]
        BY <2>2, <3>2 DEF TypeOK
      <4>3. orders'[t] \in Order /\ orders'[t].value = orders[t].value
            /\ orders'[t].state = orders[t].state
        BY <4>1, <4>2 DEF Order
      <4> QED BY <4>1, <4>3, NoOrderAssumption DEF OrderKept
    <3> QED BY <3>1, <3>2
  <2> QED BY <2>2, <2>3, Untouched
<1>8. CASE \/ \E sn \in Sns : GameStart(sn) \/ GameRepeat(sn)
           \/ GameAnswered \/ Break \/ Loop \/ UNCHANGED vars
  <2>1. /\ stmts' = stmts /\ results' = results /\ orders' = orders
        /\ LedgerKept(t)
    BY <1>8 DEF GameStart, GameRepeat, GameAnswered, Break, Loop, EndPoll,
                EndMsgs, EndSweep, vars, LedgerKept
  <2> QED BY <2>1, Untouched DEF OrderKept
<1> QED BY <1>1, <1>2, <1>3, <1>4, <1>5, <1>6, <1>7, <1>8 DEF Next, Execute

-----------------------------------------------------------------------------
(* The theorems *)

LEMMA EarlyGrows ==
  ASSUME [Next]_vars
  PROVE  early \subseteq early'
<1> USE DEF history
<1>1. CASE CommitCharge
  BY <1>1 DEF CommitCharge
<1>2. CASE \E sn \in Sns : \/ Age(sn) \/ Sweep(sn) \/ SweepLost(sn)
  BY <1>2 DEF Age, Sweep, SweepDone, SweepFailed, SweepLost
<1>3. CASE \E sn \in Sns : \/ Execute(sn)
                          \/ \E i \in DOMAIN stmts[sn] : ExecError(sn, i)
  BY <1>3 DEF Execute, ExecCharge, ExecShort, ExecAdd, ExecError
<1>4. CASE \/ \E sn \in Sns : GameStart(sn) \/ GameRepeat(sn)
           \/ GameAnswered \/ Break \/ DbGone \/ Crash
  BY <1>4 DEF GameStart, GameRepeat, GameAnswered, Break, DbGone, Crash
<1>5. CASE Callback \/ Loop \/ UNCHANGED vars
  BY <1>5 DEF Callback, CallbackOk, CallbackFailed, CallbackOrphan, Loop,
              EndPoll, EndMsgs, EndSweep, vars
<1>6. CASE HandlePrepare \/ CommitUnknown \/ CommitPayIn
  BY <1>6 DEF HandlePrepare, PrepareCharge, PreparePayIn, PrepareKnown,
              CommitUnknown, CommitPayIn
<1> QED BY <1>1, <1>2, <1>3, <1>4, <1>5, <1>6 DEF Next, HandleCommit

LEMMA InitInv == Init => IInv
<1> SUFFICES ASSUME Init PROVE IInv
  OBVIOUS
<1>1. TypeOK
  BY TypeInit
<1>2. CallsTrue
  BY DEF Init, CallsTrue
<1>3. ASSUME NEW sn \in Sns, ~PayIn(sn) PROVE Good(sn)
  <2>1. Waiting(sn) = {} /\ InResults(sn) = 0 /\ Held(sn) = 0
    BY DEF Init, Waiting, InResults, Held, Live
  <2>2. Account(sn)
    BY <2>1 DEF Init, Account
  <2>3. OneCharge(sn)
    BY <2>1 DEF Init, OneCharge, Live
  <2> QED BY <2>2, <2>3 DEF Good
<1> QED BY <1>1, <1>2, <1>3 DEF IInv, Accounted, Good, Account

LEMMA InvStep == IInv /\ [Next]_vars => IInv'
<1> SUFFICES ASSUME IInv, [Next]_vars PROVE IInv'
  OBVIOUS
<1>1. TypeOK'
  BY TypeStep DEF IInv
<1>2. CallsTrue'
  BY CallsStep DEF IInv
<1>3. ASSUME NEW sn \in Sns \ early', ~PayIn(sn) PROVE Good(sn)'
  <2>1. sn \in Sns \ early
    BY EarlyGrows
  <2>2. Good(sn)
    BY <1>3, <2>1 DEF IInv, Accounted, Good, Account
  <2> QED BY <1>3, <2>2, GoodStep DEF IInv
<1>4. \A sn \in Sns : PayIn(sn)' <=> PayIn(sn)
  BY DEF PayIn
<1> QED BY <1>1, <1>2, <1>3, <1>4 DEF IInv, Accounted, Good, Account

(* The inductive invariant: the account of every number, with the facts    *)
(* that make it inductive, is preserved by the loop, the database thread,  *)
(* the network, the game server and a crash.                               *)
THEOREM Invariance == Spec => []IInv
BY InitInv, InvStep, PTL DEF Spec

(* Orders, calls, results, messages and balances keep their types; no      *)
(* balance is ever charged below zero.                                     *)
THEOREM TypeCorrect == Spec => []TypeOK
<1>1. IInv => TypeOK
  BY DEF IInv
<1> QED BY <1>1, Invariance, PTL

(* Whatever the number of trades, their amounts and the faults: what the   *)
(* stored procedure took is kept by a committed order, refunded by the     *)
(* sweep, lost in a failed refund or a crash, or still on its way.         *)
THEOREM ChargesAccounted == Spec => []Accounted
<1>1. IInv => Accounted
  BY DEF IInv
<1> QED BY <1>1, Invariance, PTL

-----------------------------------------------------------------------------
(* What is on its way about one number *)

(* It has got further than its prepare. *)
Begun(sn) == game[sn].st \notin {"idle", "prepare"}

(* Its prepares and commits in the inbox; the answers to it, those to a    *)
(* commit, and the refusals among them.                                    *)
Prepares(sn) ==
  {i \in DOMAIN inbox : inbox[i].sn = sn /\ inbox[i].phase = "prepare"}
Asks(sn) == {i \in DOMAIN inbox : inbox[i].sn = sn /\ inbox[i].phase = "commit"}
Replies(sn) == {i \in DOMAIN outbox : outbox[i].sn = sn}
Settles(sn) == {i \in Replies(sn) : outbox[i].phase = "commit"}
Refusals(sn) == {i \in Replies(sn) : ~outbox[i].ok}

(* What is in the inbox was in it before, in this order. *)
InboxKept ==
  \E d \in {0, 1} : \A i \in DOMAIN inbox' :
    i \in Nat /\ i + d \in DOMAIN inbox /\ inbox'[i] = inbox[i + d]

InboxGrows(m) ==
  /\ Len(inbox) \in Nat /\ DOMAIN inbox = 1 .. Len(inbox)
  /\ DOMAIN inbox' = 1 .. Len(inbox) + 1
  /\ \A i \in 1 .. Len(inbox) : inbox'[i] = inbox[i]
  /\ inbox'[Len(inbox) + 1] = m

(* Every answer to the number was on its way before. *)
RepliesKept(sn) ==
  \A i \in Replies(sn)' : \E j \in Replies(sn) : outbox'[i] = outbox[j]

LEMMA InboxTail ==
  ASSUME TypeOK, inbox # <<>>, inbox' = Tail(inbox)
  PROVE  InboxKept /\ Head(inbox) = inbox[1] /\ 1 \in DOMAIN inbox
<1>1. /\ inbox \in Seq(Message) /\ Len(inbox) \in Nat /\ Len(inbox) > 0
      /\ DOMAIN inbox = 1 .. Len(inbox) /\ Head(inbox) = inbox[1]
      /\ DOMAIN inbox' = 1 .. Len(inbox) - 1
      /\ \A i \in 1 .. Len(inbox) - 1 : inbox'[i] = inbox[i + 1]
  BY DEF TypeOK
<1>2. \A i \in DOMAIN inbox' :
        i \in Nat /\ i + 1 \in DOMAIN inbox /\ inbox'[i] = inbox[i + 1]
  BY <1>1
<1> QED BY <1>1, <1>2 DEF InboxKept

LEMMA InboxSame ==
  ASSUME TypeOK, inbox' = inbox \/ inbox' = <<>>
  PROVE  InboxKept
<1>1. inbox \in Seq(Message) /\ DOMAIN inbox = 1 .. Len(inbox)
  BY DEF TypeOK
<1>2. \A i \in DOMAIN inbox' :
        i \in Nat /\ i + 0 \in DOMAIN inbox /\ inbox'[i] = inbox[i + 0]
  BY <1>1
<1> QED BY <1>2 DEF InboxKept

LEMMA InboxAppend ==
  ASSUME TypeOK, NEW m \in Message, inbox' = Append(inbox, m)
  PROVE  InboxGrows(m)
<1>1. inbox \in Seq(Message)
  BY DEF TypeOK
<1> QED BY <1>1 DEF InboxGrows

LEMMA RepliesTail ==
  ASSUME TypeOK, outbox # <<>>, outbox' = Tail(outbox), NEW sn \in Sns
  PROVE  /\ RepliesKept(sn)
         /\ Head(outbox).sn = sn =>
              1 \in Replies(sn) /\ outbox[1] = Head(outbox)
<1>1. /\ outbox \in Seq(Reply) /\ Len(outbox) \in Nat /\ Len(outbox) > 0
      /\ DOMAIN outbox = 1 .. Len(outbox) /\ Head(outbox) = outbox[1]
      /\ DOMAIN outbox' = 1 .. Len(outbox) - 1
      /\ \A i \in 1 .. Len(outbox) - 1 : outbox'[i] = outbox[i + 1]
  BY DEF TypeOK
<1>2. \A i \in Replies(sn)' : i + 1 \in Replies(sn) /\ outbox'[i] = outbox[i + 1]
  BY <1>1 DEF Replies
<1> QED BY <1>1, <1>2 DEF RepliesKept, Replies

LEMMA RepliesAppend ==
  ASSUME TypeOK, NEW r \in Reply, outbox' = Append(outbox, r), NEW sn \in Sns
  PROVE  \A i \in Replies(sn)' :
           \/ \E j \in Replies(sn) : outbox'[i] = outbox[j]
           \/ outbox'[i] = r /\ r.sn = sn
<1>1. /\ outbox \in Seq(Reply) /\ Len(outbox) \in Nat
      /\ DOMAIN outbox = 1 .. Len(outbox)
      /\ DOMAIN outbox' = 1 .. Len(outbox) + 1
      /\ \A i \in 1 .. Len(outbox) : outbox'[i] = outbox[i]
      /\ outbox'[Len(outbox) + 1] = r
  BY DEF TypeOK
<1> QED BY <1>1 DEF Replies

LEMMA RepliesSame ==
  ASSUME TypeOK, outbox' = outbox \/ outbox' = <<>>, NEW sn \in Sns
  PROVE  RepliesKept(sn)
BY DEF RepliesKept, Replies

LEMMA HeadReply ==
  ASSUME TypeOK, outbox # <<>>
  PROVE  /\ Head(outbox).sn \in Sns /\ Head(outbox).cnt \in Nat
         /\ Head(outbox).phase \in Phase
<1>1. outbox \in Seq(Reply)
  BY DEF TypeOK
<1>2. Head(outbox) \in Reply
  BY <1>1
<1> QED BY <1>2 DEF Reply

LEMMA HeadResult ==
  ASSUME TypeOK, results # <<>>
  PROVE  Head(results).sn \in Sns /\ Head(results).val \in Nat
<1>1. results \in Seq(Result)
  BY DEF TypeOK
<1>2. Head(results) \in Result
  BY <1>1
<1> QED BY <1>2 DEF Result

(* A step of the database thread, of time or of the sweep sends nothing,   *)
(* and the game server does not move.                                      *)
LEMMA NothingSent ==
  ASSUME \/ \E t \in Sns : \/ Execute(t) \/ Age(t) \/ Sweep(t) \/ SweepLost(t)
                           \/ \E i \in DOMAIN stmts[t] : ExecError(t, i)
         \/ DbGone \/ Loop \/ UNCHANGED vars
  PROVE  inbox' = inbox /\ outbox' = outbox /\ game' = game
<1> USE DEF coordVars, sqlVars, netVars, ledger, history, bounds
<1>1. ASSUME NEW t \in Sns, NEW i \in DOMAIN stmts[t],
             ExecCharge(t, i) \/ ExecShort(t, i) \/ ExecAdd(t, i)
               \/ ExecError(t, i)
      PROVE  inbox' = inbox /\ outbox' = outbox /\ game' = game
  BY <1>1 DEF ExecCharge, ExecShort, ExecAdd, ExecError
<1>2. CASE \E t \in Sns : Age(t) \/ Sweep(t) \/ SweepLost(t)
  BY <1>2 DEF Age, Sweep, SweepDone, SweepFailed, SweepLost
<1>3. CASE DbGone \/ Loop \/ UNCHANGED vars
  BY <1>3 DEF DbGone, Loop, EndPoll, EndMsgs, EndSweep, vars
<1> QED BY <1>1, <1>2, <1>3 DEF Execute

(* What the game server sends: prepares before one is answered, a commit   *)
(* when it waits for the answer to one.                                    *)
Sends(t, phase) ==
  /\ InboxGrows([sn |-> t, phase |-> phase])
  /\ phase = "prepare" => ~Begun(t)
  /\ phase = "commit" => game'[t].st = "commit"

LEMMA InboxMoves ==
  ASSUME TypeOK, [Next]_vars
  PROVE  InboxKept \/ \E t \in Sns, phase \in Phase : Sends(t, phase)
<1> USE DEF coordVars, sqlVars, netVars, ledger, history, bounds
<1>1. ASSUME NEW t \in Sns, GameStart(t) PROVE Sends(t, "prepare")
  <2>1. [sn |-> t, phase |-> "prepare"] \in Message
    BY DEF Message, Phase
  <2>2. InboxGrows([sn |-> t, phase |-> "prepare"])
    BY <1>1, <2>1, InboxAppend DEF GameStart
  <2>3. ~Begun(t)
    BY <1>1 DEF GameStart, Begun
  <2> QED BY <2>2, <2>3 DEF Sends
<1>2. ASSUME NEW t \in Sns, GameRepeat(t)
      PROVE  game[t].st \in Phase /\ Sends(t, game[t].st)
  <2>1. game[t].st \in Phase /\ game' = game
    BY <1>2, TradesAssumption DEF GameRepeat, Phase
  <2>2. [sn |-> t, phase |-> game[t].st] \in Message
    BY <2>1 DEF Message
  <2>3. InboxGrows([sn |-> t, phase |-> game[t].st])
    BY <1>2, <2>2, InboxAppend DEF GameRepeat
  <2>4. game[t].st = "prepare" => ~Begun(t)
    BY DEF Begun
  <2> QED BY <2>1, <2>3, <2>4 DEF Sends
<1>3. CASE GameAnswered
  <2> DEFINE r == Head(outbox)
  <2>1. r.sn \in Sns /\ "commit" \in Phase
    BY <1>3, HeadReply DEF GameAnswered, Phase
  <2>2. [sn |-> r.sn, phase |-> "commit"] \in Message
    BY <2>1 DEF Message
  <2>3. CASE r.phase = game[r.sn].st /\ r.ok /\ game[r.sn].st = "prepare"
    <3>1. inbox' = Append(inbox, [sn |-> r.sn, phase |-> "commit"])
      BY <1>3, <2>3 DEF GameAnswered
    <3>2. InboxGrows([sn |-> r.sn, phase |-> "commit"])
      BY <2>2, <3>1, InboxAppend
    <3>3. game'[r.sn].st = "commit"
      BY <1>3, <2>1, <2>3 DEF GameAnswered, TypeOK
    <3>4. Sends(r.sn, "commit")
      BY <3>2, <3>3 DEF Sends
    <3> QED BY <2>1, <3>4
  <2>4. CASE ~(r.phase = game[r.sn].st /\ r.ok /\ game[r.sn].st = "prepare")
    <3>1. inbox' = inbox
      BY <1>3, <2>4 DEF GameAnswered
    <3> QED BY <3>1, InboxSame
  <2> QED BY <2>3, <2>4
<1>4. CASE HandlePrepare \/ HandleCommit
  <2>1. inbox # <<>> /\ inbox' = Tail(inbox)
    BY <1>4 DEF HandlePrepare, PrepareCharge, PreparePayIn, PrepareKnown,
           HandleCommit, CommitUnknown, CommitCharge, CommitPayIn, Handles
  <2> QED BY <2>1, InboxTail
<1>5. CASE Break \/ Crash
  BY <1>5, InboxSame DEF Break, Crash
<1>6. CASE \/ DbGone \/ Callback \/ Loop \/ UNCHANGED vars
           \/ \E t \in Sns : \/ Execute(t) \/ Age(t) \/ Sweep(t) \/ SweepLost(t)
                             \/ \E i \in DOMAIN stmts[t] : ExecError(t, i)
  <2>1. CASE Callback
    BY <2>1, InboxSame DEF Callback, CallbackOk, CallbackFailed, CallbackOrphan
  <2> QED BY <1>6, <2>1, InboxSame, NothingSent
<1>7. "prepare" \in Phase
  BY DEF Phase
<1> QED BY <1>1, <1>2, <1>3, <1>4, <1>5, <1>6, <1>7 DEF Next

(* A commit comes in while the game server waits for the answer to one. *)
LEMMA AskMoves ==
  ASSUME TypeOK, [Next]_vars, NEW sn \in Sns, Asks(sn) = {}, Asks(sn)' # {}
  PROVE  game'[sn].st = "commit"
<1>1. CASE InboxKept
  <2>1. PICK d \in {0, 1} : \A i \in DOMAIN inbox' :
               i \in Nat /\ i + d \in DOMAIN inbox /\ inbox'[i] = inbox[i + d]
    BY <1>1 DEF InboxKept
  <2>2. \A i \in Asks(sn)' : i + d \in Asks(sn)
    BY <2>1 DEF Asks
  <2> QED BY <2>2
<1>2. ASSUME NEW t \in Sns, NEW phase \in Phase, Sends(t, phase)
      PROVE  game'[sn].st = "commit"
  <2>1. /\ Len(inbox) \in Nat /\ DOMAIN inbox = 1 .. Len(inbox)
        /\ DOMAIN inbox' = 1 .. Len(inbox) + 1
        /\ \A i \in 1 .. Len(inbox) : inbox'[i] = inbox[i]
        /\ inbox'[Len(inbox) + 1].sn = t /\ inbox'[Len(inbox) + 1].phase = phase
    BY <1>2 DEF Sends, InboxGrows
  <2>2. \A i \in Asks(sn)' : i \in Asks(sn) \/ (t = sn /\ phase = "commit")
    BY <2>1 DEF Asks
  <2> QED BY <1>2, <2>2 DEF Sends
<1> QED BY <1>1, <1>2, InboxMoves

(* How an answer comes about: by the charge's callback, by the handler of  *)
(* a prepare, or by that of a commit.                                      *)
AnsweredBy(sn, r) ==
  \/ CallbackOk /\ Head(results).sn = sn /\ r.phase = "prepare" /\ r.ok
       /\ r.cnt = Head(results).val
  \/ CallbackFailed /\ Head(results).sn = sn /\ r.phase = "prepare" /\ r.cnt = 0
  \/ PreparePayIn /\ Head(inbox).sn = sn /\ r.phase = "prepare" /\ r.ok
  \/ PrepareKnown /\ r.phase = "prepare" /\ r.ok /\ r.cnt = 0
  \/ CommitUnknown /\ Head(inbox).sn = sn /\ r.phase = "commit" /\ ~r.ok
       /\ r.cnt = 0
  \/ CommitCharge /\ Head(inbox).sn = sn /\ r.phase = "commit" /\ r.cnt = 0

LEMMA ReplyMoves ==
  ASSUME TypeOK, [Next]_vars, NEW sn \in Sns, NEW i \in Replies(sn)'
  PROVE  \/ \E j \in Replies(sn) : outbox'[i] = outbox[j]
         \/ AnsweredBy(sn, outbox'[i])
<1> USE DEF coordVars, sqlVars, netVars, ledger, history, bounds
<1>1. ASSUME NEW t \in Sns, NEW phase \in Phase, NEW ok \in BOOLEAN,
             NEW cnt \in Nat, Answer(t, phase, ok, cnt)
      PROVE  \/ \E j \in Replies(sn) : outbox'[i] = outbox[j]
             \/ /\ t = sn /\ outbox'[i].phase = phase /\ outbox'[i].ok = ok
                /\ outbox'[i].cnt = cnt
  <2> DEFINE r == [sn |-> t, phase |-> phase, ok |-> ok, cnt |-> cnt]
  <2>1. r \in Reply /\ outbox' = Append(outbox, r)
    BY <1>1 DEF Reply, Answer
  <2>2. r.sn = t /\ r.phase = phase /\ r.ok = ok /\ r.cnt = cnt
    OBVIOUS
  <2> HIDE DEF r
  <2> QED BY <2>1, <2>2, RepliesAppend
<1>2. ASSUME outbox' = outbox \/ outbox' = <<>> \/ (outbox # <<>> /\ outbox' = Tail(outbox))
      PROVE  \E j \in Replies(sn) : outbox'[i] = outbox[j]
  BY <1>2, RepliesSame, RepliesTail DEF RepliesKept
<1>3. "prepare" \in Phase /\ "commit" \in Phase
  BY DEF Phase
<1>4. CASE Callback
  <2> DEFINE t == Head(results).sn
  <2>1. t \in Sns /\ Head(results).val \in Nat
    <3>1. results # <<>>
      BY <1>4 DEF Callback, CallbackOk, CallbackFailed, CallbackOrphan, Polls
    <3> QED BY <3>1, HeadResult
  <2>2. CASE CallbackOk
    <3>1. outbox' = outbox \/ Answer(t, "prepare", TRUE, Head(results).val)
      BY <2>2 DEF CallbackOk
    <3> QED BY <1>1, <1>2, <1>3, <2>1, <2>2, <3>1 DEF AnsweredBy
  <2>3. CASE CallbackFailed
    <3>1. outbox' = outbox \/ Answer(t, "prepare", FALSE, 0)
      BY <2>3 DEF CallbackFailed
    <3> QED BY <1>1, <1>2, <1>3, <2>1, <2>3, <3>1 DEF AnsweredBy
  <2>4. CASE CallbackOrphan
    BY <1>2, <2>4 DEF CallbackOrphan
  <2> QED BY <1>4, <2>2, <2>3, <2>4 DEF Callback
<1>5. CASE HandlePrepare \/ HandleCommit
  <2> DEFINE t == Head(inbox).sn
  <2>1. t \in Sns /\ Cnt[t] \in Nat
    <3>1. PICK phase : Handles(phase)
      BY <1>5 DEF HandlePrepare, PrepareCharge, PreparePayIn, PrepareKnown,
             HandleCommit, CommitUnknown, CommitCharge, CommitPayIn
    <3> QED BY <3>1, HandlesType, TradesAssumption
  <2>2. CASE PrepareCharge \/ CommitPayIn
    BY <1>2, <2>2 DEF PrepareCharge, CommitPayIn
  <2>3. CASE PreparePayIn
    <3>1. Answer(t, "prepare", TRUE, Cnt[t])
      BY <2>3 DEF PreparePayIn
    <3> QED BY <1>1, <1>3, <2>1, <2>3, <3>1 DEF AnsweredBy
  <2>4. CASE PrepareKnown
    <3>1. Answer(t, "prepare", TRUE, 0)
      BY <2>4 DEF PrepareKnown
    <3> QED BY <1>1, <1>3, <2>1, <2>4, <3>1 DEF AnsweredBy
  <2>5. CASE CommitUnknown
    <3>1. Answer(t, "commit", FALSE, 0)
      BY <2>5 DEF CommitUnknown
    <3> QED BY <1>1, <1>3, <2>1, <2>5, <3>1 DEF AnsweredBy
  <2>6. CASE CommitCharge
    <3>1. Answer(t, "commit", TRUE, 0)
      BY <2>6 DEF CommitCharge
    <3> QED BY <1>1, <1>3, <2>1, <2>6, <3>1 DEF AnsweredBy
  <2> QED BY <1>5, <2>2, <2>3, <2>4, <2>5, <2>6 DEF HandlePrepare, HandleCommit
<1>6. CASE GameAnswered \/ Break \/ Crash
  BY <1>2, <1>6 DEF GameAnswered, Break, Crash
<1>7. CASE \/ DbGone \/ Loop \/ UNCHANGED vars
           \/ \E t \in Sns : \/ GameStart(t) \/ GameRepeat(t)
                             \/ Execute(t) \/ Age(t) \/ Sweep(t) \/ SweepLost(t)
                             \/ \E k \in DOMAIN stmts[t] : ExecError(t, k)
  <2>1. CASE \E t \in Sns : GameStart(t) \/ GameRepeat(t)
    BY <1>2, <2>1 DEF GameStart, GameRepeat
  <2> QED BY <1>2, <1>7, <2>1, NothingSent
<1> QED BY <1>4, <1>5, <1>6, <1>7 DEF Next

(* How the game server's view of a trade moves. *)
LEMMA GameMoves ==
  ASSUME TypeOK, [Next]_vars, NEW sn \in Sns
  PROVE  \/ game'[sn] = game[sn]
         \/ GameStart(sn)
         \/ /\ GameAnswered /\ outbox # <<>> /\ outbox' = Tail(outbox)
            /\ Head(outbox).sn = sn /\ Head(outbox).phase = game[sn].st
            /\ game'[sn] =
                 IF ~Head(outbox).ok THEN [game[sn] EXCEPT !.st = "failed"]
                 ELSE IF game[sn].st = "prepare"
                      THEN [st |-> "commit", cnt |-> Head(outbox).cnt]
                 ELSE [game[sn] EXCEPT !.st = "done"]
<1> USE DEF coordVars, sqlVars, netVars, ledger, history, bounds
<1>1. ASSUME NEW t \in Sns, GameStart(t)
      PROVE  game'[sn] = game[sn] \/ GameStart(sn)
  <2>1. CASE t # sn
    BY <1>1, <2>1 DEF GameStart, TypeOK
  <2> QED BY <1>1, <2>1
<1>2. CASE GameAnswered
  <2> DEFINE r == Head(outbox)
  <2>1. r.sn \in Sns /\ outbox # <<>> /\ outbox' = Tail(outbox)
    <3>1. outbox # <<>> /\ outbox' = Tail(outbox)
      BY <1>2 DEF GameAnswered
    <3> QED BY <3>1, HeadReply
  <2>2. CASE r.sn # sn
    BY <1>2, <2>1, <2>2 DEF GameAnswered, TypeOK
  <2>3. CASE r.sn = sn
    <3>1. game'[sn] = IF r.phase # game[sn].st THEN game[sn]
             ELSE IF ~r.ok THEN [game[sn] EXCEPT !.st = "failed"]
             ELSE IF game[sn].st = "prepare" THEN [st |-> "commit", cnt |-> r.cnt]
             ELSE [game[sn] EXCEPT !.st = "done"]
      BY <1>2, <2>3 DEF GameAnswered, TypeOK
    <3> QED BY <1>2, <2>1, <2>3, <3>1
  <2> QED BY <2>2, <2>3
<1>3. CASE \/ DbGone \/ Loop \/ Break \/ Crash \/ Callback \/ HandlePrepare
           \/ HandleCommit \/ UNCHANGED vars
           \/ \E t \in Sns : \/ GameRepeat(t)
                             \/ Execute(t) \/ Age(t) \/ Sweep(t) \/ SweepLost(t)
                             \/ \E k \in DOMAIN stmts[t] : ExecError(t, k)
  <2>1. CASE Break \/ Crash \/ \E t \in Sns : GameRepeat(t)
    BY <2>1 DEF Break, Crash, GameRepeat
  <2>2. CASE Callback \/ HandlePrepare \/ HandleCommit
    BY <2>2 DEF Callback, CallbackOk, CallbackFailed, CallbackOrphan,
                HandlePrepare, PrepareCharge, PreparePayIn, PrepareKnown,
                HandleCommit, CommitUnknown, CommitCharge, CommitPayIn
  <2> QED BY <1>3, <2>1, <2>2, NothingSent
<1> QED BY <1>1, <1>2, <1>3 DEF Next

(* A payment in that has no call in the queue gets one from its commit     *)
(* only, and is not paid in by any step.                                   *)
LEMMA PayMoves ==
  ASSUME TypeOK, [Next]_vars, NEW sn \in Sns, PayIn(sn), stmts[sn] = <<>>
  PROVE  /\ added'[sn] = added[sn]
         /\ stmts'[sn] = <<>> \/ (CommitPayIn /\ Head(inbox).sn = sn)
         /\ Waiting(sn) = {} => Waiting(sn)' = {}
<1> USE DEF coordVars, sqlVars, netVars, ledger, history, bounds
<1>1. ASSUME NEW t \in Sns, NEW i \in DOMAIN stmts[t],
             ExecCharge(t, i) \/ ExecShort(t, i) \/ ExecAdd(t, i)
               \/ ExecError(t, i)
      PROVE  /\ added'[sn] = added[sn] /\ stmts'[sn] = <<>>
             /\ Waiting(sn) = {} => Waiting(sn)' = {}
  <2>1. t # sn
    BY <1>1
  <2>2. added'[sn] = added[sn]
    BY <1>1, <2>1 DEF ExecCharge, ExecShort, ExecAdd, ExecError, TypeOK
  <2>3. stmts[t][i] \in Stmt /\ bal[stmts[t][i].cur] \in Nat
    <3>1. stmts[t] \in Seq(Stmt)
      BY DEF TypeOK
    <3>2. stmts[t][i] \in Stmt
      BY <3>1
    <3> QED BY <3>2 DEF TypeOK, Stmt
  <2>4. PICK ok \in BOOLEAN, val \in Nat : Executed(t, i, ok, val)
    <3>1. CASE ExecCharge(t, i)
      <4> DEFINE amt == IF stmts[t][i].dir = 1 THEN bal[stmts[t][i].cur]
                        ELSE stmts[t][i].cnt
      <4>1. amt \in Nat /\ Executed(t, i, TRUE, amt)
        BY <2>3, <3>1 DEF ExecCharge, Stmt
      <4> HIDE DEF amt
      <4> QED BY <4>1
    <3>2. CASE ExecAdd(t, i)
      <4>1. stmts[t][i].cnt \in Nat /\ Executed(t, i, TRUE, stmts[t][i].cnt)
        BY <2>3, <3>2 DEF ExecAdd, Stmt
      <4> QED BY <4>1
    <3>3. CASE ExecShort(t, i) \/ ExecError(t, i)
      <4>1. Executed(t, i, FALSE, 0)
        BY <3>3 DEF ExecShort, ExecError
      <4> QED BY <4>1
    <3> QED BY <1>1, <3>1, <3>2, <3>3
  <2> DEFINE r == [sn |-> t, ok |-> ok, val |-> val, conn |-> stmts[t][i].conn]
  <2>5. r \in Result /\ r.sn = t
    BY <2>3 DEF Result, Stmt
  <2>6. results' = Append(results, r)
    BY <2>4 DEF Executed
  <2>7. stmts'[sn] = <<>>
    BY <2>1, <2>4 DEF Executed, TypeOK
  <2> HIDE DEF r
  <2>8. Waiting(sn)' = Waiting(sn)
    BY <2>1, <2>5, <2>6, ResultAdded
  <2> QED BY <2>2, <2>7, <2>8
<1>2. CASE Callback
  <2>1. /\ results # <<>> /\ results' = Tail(results) /\ stmts' = stmts
        /\ added' = added
    BY <1>2 DEF Callback, CallbackOk, CallbackFailed, CallbackOrphan, Polls
  <2>2. results \in Seq(Result)
    BY DEF TypeOK
  <2>3. \A i \in DOMAIN results' : i + 1 \in DOMAIN results
                                   /\ results'[i] = results[i + 1]
    BY <2>1, <2>2
  <2>4. \A i \in Waiting(sn)' : i + 1 \in Waiting(sn)
    BY <2>3 DEF Waiting
  <2> QED BY <2>1, <2>4
<1>3. CASE PrepareCharge \/ CommitPayIn
  <2> DEFINE t == Head(inbox).sn
  <2>1. /\ added' = added /\ results' = results
        /\ PrepareCharge => ~PayIn(t)
        /\ \E m : stmts' = [stmts EXCEPT ![t] = m]
    BY <1>3 DEF PrepareCharge, CommitPayIn, Push
  <2>2. Waiting(sn)' = Waiting(sn)
    BY <2>1 DEF Waiting
  <2>3. t # sn => stmts'[sn] = <<>>
    BY <2>1 DEF TypeOK
  <2> QED BY <1>3, <2>1, <2>2, <2>3
<1>4. CASE DbGone \/ Crash
  <2>1. /\ added' = added /\ stmts'[sn] = <<>>
        /\ results' = results \/ results' = <<>>
    BY <1>4 DEF DbGone, Crash
  <2> QED BY <2>1 DEF Waiting
<1>5. CASE \/ \E t \in Sns : \/ GameStart(t) \/ GameRepeat(t) \/ Age(t)
                             \/ Sweep(t) \/ SweepLost(t)
           \/ GameAnswered \/ Break \/ PreparePayIn \/ PrepareKnown
           \/ CommitUnknown \/ CommitCharge \/ Loop \/ UNCHANGED vars
  <2>1. stmts' = stmts /\ results' = results /\ added' = added
    BY <1>5 DEF GameStart, GameRepeat, Age, Sweep, SweepDone, SweepFailed,
                SweepLost, GameAnswered, Break, PreparePayIn, PrepareKnown,
                CommitUnknown, CommitCharge, Loop, EndPoll, EndMsgs, EndSweep,
                vars
  <2> QED BY <2>1 DEF Waiting
<1> QED BY <1>1, <1>2, <1>3, <1>4, <1>5
        DEF Next, Execute, HandlePrepare, HandleCommit

-----------------------------------------------------------------------------
(* A payment in is paid in or given back, once *)

Unpaid(sn) == added[sn] = 0 /\ stmts[sn] = <<>>
Refused(sn) == Settles(sn) # {} \/ game[sn].st = "failed"
PreparesFirst(sn) == \A i \in Asks(sn), j \in Prepares(sn) : j < i

(* Why PaidOrGivenBack is inductive.  The game server sends prepares until *)
(* one is answered and commits after that, so behind a commit no prepare   *)
(* comes in.  A commit that is refused therefore finds no order, and none  *)
(* will be made: if none queued the payment before, none ever will.  The   *)
(* one that queues the payment is not refused, and nobody answers it.      *)
PayInOnce(sn) ==
  /\ PreparesFirst(sn)
  /\ ~Begun(sn) => /\ taken[sn] = 0 /\ Asks(sn) = {}
                   /\ Settles(sn) = {} /\ Refusals(sn) = {}
  /\ game[sn].st # "done" /\ \A i \in Settles(sn) : ~outbox[i].ok
  /\ taken[sn] = 0 => Unpaid(sn) /\ Waiting(sn) = {}
  /\ taken[sn] = 0 /\ Refused(sn) => ~Live(sn) /\ Prepares(sn) = {}
  /\ taken[sn] = 1 => ~Refused(sn) /\ added[sn] + Queued(sn) <= Cnt[sn]

(* No prepare gets behind a commit. *)
LEMMA InboxOrdered ==
  ASSUME TypeOK, [Next]_vars, NEW sn \in Sns, PreparesFirst(sn),
         ~Begun(sn) => Asks(sn) = {}
  PROVE  /\ PreparesFirst(sn)'
         /\ Begun(sn) /\ Prepares(sn) = {} => Prepares(sn)' = {}
<1>1. CASE InboxKept
  <2>1. PICK d \in {0, 1} : \A i \in DOMAIN inbox' :
               i \in Nat /\ i + d \in DOMAIN inbox /\ inbox'[i] = inbox[i + d]
    BY <1>1 DEF InboxKept
  <2>2. \A i \in Asks(sn)' : i \in Nat /\ i + d \in Asks(sn)
    BY <2>1 DEF Asks
  <2>3. \A i \in Prepares(sn)' : i \in Nat /\ i + d \in Prepares(sn)
    BY <2>1 DEF Prepares
  <2>4. ASSUME NEW i \in Asks(sn)', NEW j \in Prepares(sn)' PROVE j < i
    <3>1. j + d < i + d /\ i \in Nat /\ j \in Nat
      BY <2>2, <2>3 DEF PreparesFirst
    <3> QED BY <3>1
  <2> QED BY <2>2, <2>3, <2>4 DEF PreparesFirst
<1>2. ASSUME NEW t \in Sns, NEW phase \in Phase, Sends(t, phase)
      PROVE  /\ PreparesFirst(sn)'
             /\ Begun(sn) /\ Prepares(sn) = {} => Prepares(sn)' = {}
  <2>1. /\ Len(inbox) \in Nat /\ DOMAIN inbox = 1 .. Len(inbox)
        /\ DOMAIN inbox' = 1 .. Len(inbox) + 1
        /\ \A i \in 1 .. Len(inbox) : inbox'[i] = inbox[i]
        /\ inbox'[Len(inbox) + 1].sn = t /\ inbox'[Len(inbox) + 1].phase = phase
    BY <1>2 DEF Sends, InboxGrows
  <2>2. \A i \in Asks(sn)' :
          i \in Asks(sn) \/ (i = Len(inbox) + 1 /\ t = sn /\ phase = "commit")
    BY <2>1 DEF Asks
  <2>3. \A i \in Prepares(sn)' :
          i \in Prepares(sn) \/ (i = Len(inbox) + 1 /\ t = sn /\ phase = "prepare")
    BY <2>1 DEF Prepares
  <2>4. \A i \in Prepares(sn) : i \in Nat /\ i < Len(inbox) + 1
    BY <2>1 DEF Prepares
  <2>5. t = sn /\ phase = "prepare" => ~Begun(sn) /\ Asks(sn) = {}
    BY <1>2 DEF Sends
  <2>6. PreparesFirst(sn)'
    <3>1. CASE t = sn /\ phase = "prepare"
      <4>1. Asks(sn)' = {}
        BY <2>2, <2>5, <3>1
      <4> QED BY <4>1 DEF PreparesFirst
    <3>2. CASE ~(t = sn /\ phase = "prepare")
      <4>1. \A j \in Prepares(sn)' : j \in Prepares(sn)
        BY <2>3, <3>2
      <4> QED BY <2>2, <2>4, <4>1 DEF PreparesFirst
    <3> QED BY <3>1, <3>2
  <2>7. Begun(sn) /\ Prepares(sn) = {} => Prepares(sn)' = {}
    BY <2>3, <2>5
  <2> QED BY <2>6, <2>7
<1> QED BY <1>1, <1>2, InboxMoves

(* The handler of a commit takes it from the inbox, and no prepare is      *)
(* behind it.                                                              *)
LEMMA CommitTaken ==
  ASSUME TypeOK, CommitUnknown \/ CommitCharge \/ CommitPayIn,
         NEW sn \in Sns, Head(inbox).sn = sn
  PROVE  /\ Asks(sn) # {}
         /\ PreparesFirst(sn) => Prepares(sn)' = {}
<1>1. inbox # <<>> /\ inbox' = Tail(inbox) /\ Head(inbox).phase = "commit"
  BY DEF CommitUnknown, CommitCharge, CommitPayIn, Handles
<1>2. /\ inbox \in Seq(Message) /\ Len(inbox) \in Nat /\ Len(inbox) > 0
      /\ DOMAIN inbox = 1 .. Len(inbox) /\ Head(inbox) = inbox[1]
      /\ DOMAIN inbox' = 1 .. Len(inbox) - 1
      /\ \A i \in 1 .. Len(inbox) - 1 : inbox'[i] = inbox[i + 1]
  BY <1>1 DEF TypeOK
<1>3. 1 \in Asks(sn)
  BY <1>1, <1>2 DEF Asks
<1>4. ASSUME PreparesFirst(sn), NEW j \in Prepares(sn)' PROVE FALSE
  <2>1. j \in 1 .. Len(inbox) - 1 /\ j + 1 \in Prepares(sn)
    BY <1>2 DEF Prepares
  <2>2. j + 1 < 1
    BY <1>3, <1>4, <2>1 DEF PreparesFirst
  <2> QED BY <1>2, <2>1, <2>2
<1> QED BY <1>3, <1>4

(* Answers to a commit, and refusals, about a payment in. *)
LEMMA PayReplies ==
  ASSUME TypeOK, [Next]_vars, NEW sn \in Sns, PayIn(sn)
  PROVE  /\ Settles(sn) = {} /\ Settles(sn)' # {} =>
              CommitUnknown /\ Head(inbox).sn = sn
         /\ Settles(sn) \cup Refusals(sn) = {} /\ Refusals(sn)' # {} =>
              \/ CommitUnknown /\ Head(inbox).sn = sn
              \/ Waiting(sn) # {}
         /\ (\A i \in Settles(sn) : ~outbox[i].ok) =>
              \A i \in Settles(sn)' : ~outbox'[i].ok
<1>1. \A i \in Replies(sn)' : (\E j \in Replies(sn) : outbox'[i] = outbox[j])
                              \/ AnsweredBy(sn, outbox'[i])
  BY ReplyMoves
<1>2. CommitCharge => Head(inbox).sn # sn
  BY DEF CommitCharge
<1>3. CallbackFailed /\ Head(results).sn = sn => Waiting(sn) # {}
  <2> SUFFICES ASSUME CallbackFailed, Head(results).sn = sn
               PROVE  1 \in Waiting(sn)
    OBVIOUS
  <2>1. results \in Seq(Result) /\ results # <<>>
    BY DEF TypeOK, CallbackFailed, Polls
  <2> QED BY <2>1 DEF Waiting
<1>4. ASSUME Settles(sn) = {}, NEW i \in Settles(sn)'
      PROVE  CommitUnknown /\ Head(inbox).sn = sn
  <2>1. i \in Replies(sn)' /\ outbox'[i].phase = "commit"
    BY DEF Settles
  <2>2. AnsweredBy(sn, outbox'[i])
    BY <1>1, <1>4, <2>1 DEF Settles
  <2> QED BY <1>2, <2>1, <2>2 DEF AnsweredBy
<1>5. ASSUME Settles(sn) \cup Refusals(sn) = {}, NEW i \in Refusals(sn)'
      PROVE  \/ CommitUnknown /\ Head(inbox).sn = sn
             \/ Waiting(sn) # {}
  <2>1. i \in Replies(sn)' /\ ~outbox'[i].ok
    BY DEF Refusals
  <2>2. AnsweredBy(sn, outbox'[i])
    BY <1>1, <1>5, <2>1 DEF Refusals
  <2> QED BY <1>2, <1>3, <2>1, <2>2 DEF AnsweredBy
<1>6. ASSUME \A i \in Settles(sn) : ~outbox[i].ok, NEW i \in Settles(sn)'
      PROVE  ~outbox'[i].ok
  <2>1. i \in Replies(sn)' /\ outbox'[i].phase = "commit"
    BY DEF Settles
  <2>2. CASE \E j \in Replies(sn) : outbox'[i] = outbox[j]
    <3>1. PICK j \in Replies(sn) : outbox'[i] = outbox[j]
      BY <2>2
    <3>2. j \in Settles(sn)
      BY <2>1, <3>1 DEF Settles
    <3> QED BY <1>6, <3>1, <3>2
  <2>3. CASE AnsweredBy(sn, outbox'[i])
    BY <1>2, <2>1, <2>3 DEF AnsweredBy
  <2> QED BY <1>1, <2>1, <2>2, <2>3
<1> QED BY <1>4, <1>5, <1>6

(* An order is made by a prepare for its number. *)
LEMMA OrderMade ==
  ASSUME TypeOK, [Next]_vars, NEW sn \in Sns, ~Live(sn), Live(sn)'
  PROVE  Prepares(sn) # {}
<1> USE DEF coordVars, sqlVars, netVars, ledger, history, bounds
<1>1. CASE PrepareCharge \/ PreparePayIn
  <2>1. /\ inbox # <<>> /\ inbox' = Tail(inbox) /\ Head(inbox).phase = "prepare"
        /\ \E o : orders' = [orders EXCEPT ![Head(inbox).sn] = o]
    BY <1>1 DEF PrepareCharge, PreparePayIn, Handles
  <2>2. Head(inbox).sn = sn
    BY <2>1 DEF Live, TypeOK
  <2>3. 1 \in Prepares(sn)
    BY <2>1, <2>2, InboxTail DEF Prepares
  <2> QED BY <2>3
<1>2. CASE CallbackOk \/ CallbackFailed
  <2>1. /\ Live(Head(results).sn)
        /\ \E o : orders' = [orders EXCEPT ![Head(results).sn] = o]
    BY <1>2 DEF CallbackOk, CallbackFailed
  <2> QED BY <2>1 DEF Live, TypeOK
<1>3. CASE CommitCharge \/ CommitPayIn
  <2>1. /\ Live(Head(inbox).sn)
        /\ \A t \in Sns : t # Head(inbox).sn => orders'[t] = orders[t]
    BY <1>3 DEF CommitCharge, CommitPayIn, TypeOK
  <2> QED BY <2>1 DEF Live
<1>4. ASSUME NEW t \in Sns, Age(t) PROVE FALSE
  BY <1>4 DEF Age, Live, TypeOK
<1>5. ASSUME NEW t \in Sns, Sweep(t) \/ SweepLost(t) PROVE FALSE
  <2>1. orders' = [orders EXCEPT ![t] = NoOrder]
    BY <1>5 DEF Sweep, SweepDone, SweepFailed, SweepLost, Drop
  <2> QED BY <2>1 DEF Live, TypeOK
<1>6. CASE Crash
  BY <1>6 DEF Crash, Live
<1>7. ASSUME NEW t \in Sns, NEW i \in DOMAIN stmts[t],
             ExecCharge(t, i) \/ ExecShort(t, i) \/ ExecAdd(t, i)
               \/ ExecError(t, i)
      PROVE  FALSE
  <2>1. orders' = orders
    BY <1>7 DEF ExecCharge, ExecShort, ExecAdd, ExecError
  <2> QED BY <2>1 DEF Live
<1>8. CASE \/ \E t \in Sns : GameStart(t) \/ GameRepeat(t)
           \/ GameAnswered \/ Break \/ DbGone \/ CallbackOrphan \/ PrepareKnown
           \/ CommitUnknown \/ Loop \/ UNCHANGED vars
  <2>1. orders' = orders
    BY <1>8 DEF GameStart, GameRepeat, GameAnswered, Break, DbGone,
                CallbackOrphan, PrepareKnown, CommitUnknown, Loop, EndPoll,
                EndMsgs, EndSweep, vars
  <2> QED BY <2>1 DEF Live
<1> QED BY <1>1, <1>2, <1>3, <1>4, <1>5, <1>6, <1>7, <1>8
        DEF Execute, Next, Callback, HandlePrepare, HandleCommit

LEMMA QueuedSum ==
  ASSUME NEW n \in Nat, NEW c \in Nat
  PROVE  /\ n * c \in Nat /\ 0 * c = 0 /\ 1 * c = c
         /\ n > 0 => (n - 1) * c \in Nat /\ (n - 1) * c + c = n * c
OBVIOUS

LEMMA QueuedLess ==
  ASSUME NEW n \in Nat, NEW c \in Nat, n > 0, NEW a, NEW b,
         a = n * c, b = (n - 1) * c
  PROVE  a = b + c /\ b \in Nat
BY QueuedSum

(* Apart from the handler of its commit, nothing adds to a payment in. *)
LEMMA PayKept ==
  ASSUME TypeOK, CallsTrue, [Next]_vars, NEW sn \in Sns, PayIn(sn),
         ~(CommitPayIn /\ Head(inbox).sn = sn)
  PROVE  added'[sn] + Queued(sn)' <= added[sn] + Queued(sn)
<1> USE DEF coordVars, sqlVars, netVars, ledger, history, bounds
<1>0. /\ stmts[sn] \in Seq(Stmt) /\ Len(stmts[sn]) \in Nat /\ added[sn] \in Nat
      /\ Cnt[sn] \in Nat /\ Dir[sn] = 2
  BY TradesAssumption DEF TypeOK, PayIn
<1>1. ASSUME stmts'[sn] = stmts[sn] \/ stmts'[sn] = <<>>, added'[sn] = added[sn]
      PROVE  added'[sn] + Queued(sn)' <= added[sn] + Queued(sn)
  <2>1. Queued(sn)' = Queued(sn) \/ Queued(sn)' = 0
    <3>1. stmts'[sn] = <<>> => Len(stmts'[sn]) = 0
      OBVIOUS
    <3> QED BY <1>0, <1>1, <3>1, QueuedSum DEF Queued
  <2>2. Queued(sn) \in Nat
    BY <1>0, QueuedSum DEF Queued
  <2> QED BY <1>0, <1>1, <2>1, <2>2
<1>2. ASSUME NEW t \in Sns, NEW i \in DOMAIN stmts[t],
             ExecCharge(t, i) \/ ExecShort(t, i) \/ ExecAdd(t, i)
               \/ ExecError(t, i)
      PROVE  added'[sn] + Queued(sn)' <= added[sn] + Queued(sn)
  <2>1. stmts' = [stmts EXCEPT ![t] = Without(stmts[t], i)]
    BY <1>2 DEF ExecCharge, ExecShort, ExecAdd, ExecError, Executed
  <2>2. CASE t # sn
    <3>1. stmts'[sn] = stmts[sn]
      BY <2>1, <2>2 DEF TypeOK
    <3>2. added'[sn] = added[sn]
      BY <1>2, <2>2 DEF ExecCharge, ExecShort, ExecAdd, ExecError, TypeOK
    <3> QED BY <1>1, <3>1, <3>2
  <2>3. CASE t = sn
    <3>1. Len(stmts'[sn]) = Len(stmts[sn]) - 1 /\ Len(stmts[sn]) > 0
      <4>1. Len(Without(stmts[sn], i)) = Len(stmts[sn]) - 1
        BY <1>0, <2>3, WithoutType
      <4>2. stmts'[sn] = Without(stmts[sn], i)
        BY <2>1, <2>3 DEF TypeOK
      <4> QED BY <1>0, <1>2, <2>3, <4>1, <4>2
    <3>2. stmts[t][i].dir = 2 /\ stmts[t][i].cnt = Cnt[sn]
      BY <1>0, <2>3 DEF CallsTrue
    <3>3. added'[sn] = added[sn] \/ added'[sn] = added[sn] + Cnt[sn]
      <4>1. CASE ExecAdd(t, i)
        BY <2>3, <3>2, <4>1 DEF ExecAdd, TypeOK
      <4>2. CASE ExecShort(t, i) \/ ExecError(t, i)
        BY <4>2 DEF ExecShort, ExecError
      <4>3. CASE ExecCharge(t, i)
        BY <3>2, <4>3 DEF ExecCharge
      <4> QED BY <1>2, <4>1, <4>2, <4>3
    <3>4. /\ Queued(sn) = Queued(sn)' + Cnt[sn]
          /\ Queued(sn)' \in Nat
      <4>1. /\ Queued(sn) = Len(stmts[sn]) * Cnt[sn]
            /\ Queued(sn)' = (Len(stmts[sn]) - 1) * Cnt[sn]
        BY <3>1 DEF Queued
      <4> DEFINE a == Queued(sn)
                 b == Queued(sn)'
                 n == Len(stmts[sn])
      <4>2. n \in Nat /\ n > 0 /\ Cnt[sn] \in Nat
        BY <1>0, <3>1
      <4>3. a = n * Cnt[sn] /\ b = (n - 1) * Cnt[sn]
        BY <4>1
      <4> HIDE DEF a, b, n
      <4>4. a = b + Cnt[sn] /\ b \in Nat
        BY <4>2, <4>3, QueuedLess
      <4> QED BY <4>4 DEF a, b
    <3> QED BY <1>0, <3>3, <3>4
  <2> QED BY <2>2, <2>3
<1>3. CASE PrepareCharge \/ CommitPayIn
  <2> DEFINE t == Head(inbox).sn
  <2>1. /\ added' = added
        /\ PrepareCharge => ~PayIn(t)
        /\ \E m : stmts' = [stmts EXCEPT ![t] = m]
    BY <1>3 DEF PrepareCharge, CommitPayIn, Push
  <2>2. stmts'[sn] = stmts[sn]
    BY <1>3, <2>1 DEF TypeOK
  <2> QED BY <1>1, <2>1, <2>2
<1>4. CASE DbGone \/ Crash
  <2>1. added' = added /\ stmts'[sn] = <<>>
    BY <1>4 DEF DbGone, Crash
  <2> QED BY <1>1, <2>1
<1>5. CASE \/ \E t \in Sns : \/ GameStart(t) \/ GameRepeat(t) \/ Age(t)
                             \/ Sweep(t) \/ SweepLost(t)
           \/ GameAnswered \/ Break \/ Callback \/ PreparePayIn \/ PrepareKnown
           \/ CommitUnknown \/ CommitCharge \/ Loop \/ UNCHANGED vars
  <2>1. stmts' = stmts /\ added' = added
    BY <1>5 DEF GameStart, GameRepeat, Age, Sweep, SweepDone, SweepFailed,
                SweepLost, GameAnswered, Break, PreparePayIn, PrepareKnown,
                CommitUnknown, CommitCharge, Loop, EndPoll, EndMsgs, EndSweep,
                Callback, CallbackOk, CallbackFailed, CallbackOrphan, vars
  <2> QED BY <1>1, <2>1
<1> QED BY <1>2, <1>3, <1>4, <1>5
        DEF Next, Execute, HandlePrepare, HandleCommit

(* Only the handler of a commit counts it. *)
LEMMA TakenMoves ==
  ASSUME TypeOK, [Next]_vars, NEW sn \in Sns,
         ~((CommitUnknown \/ CommitPayIn) /\ Head(inbox).sn = sn)
  PROVE  taken'[sn] = taken[sn]
<1> USE DEF coordVars, sqlVars, netVars, ledger, history, bounds
<1>1. CASE CommitUnknown \/ CommitPayIn
  <2>1. \E n : taken' = [taken EXCEPT ![Head(inbox).sn] = n]
    BY <1>1 DEF CommitUnknown, CommitPayIn, TakenAgain
  <2> QED BY <1>1, <2>1 DEF TypeOK
<1>2. ASSUME NEW t \in Sns, NEW i \in DOMAIN stmts[t],
             ExecCharge(t, i) \/ ExecShort(t, i) \/ ExecAdd(t, i)
               \/ ExecError(t, i)
      PROVE  taken' = taken
  BY <1>2 DEF ExecCharge, ExecShort, ExecAdd, ExecError
<1>3. ASSUME NEW t \in Sns, GameStart(t) \/ GameRepeat(t) \/ Age(t) \/ Sweep(t)
                              \/ SweepLost(t)
      PROVE  taken' = taken
  BY <1>3 DEF GameStart, GameRepeat, Age, Sweep, SweepDone, SweepFailed, SweepLost
<1>4. CASE Callback \/ HandlePrepare \/ CommitCharge
  BY <1>4 DEF Callback, CallbackOk, CallbackFailed, CallbackOrphan,
              HandlePrepare, PrepareCharge, PreparePayIn, PrepareKnown,
              CommitCharge
<1>5. CASE GameAnswered \/ Break \/ DbGone \/ Crash \/ Loop \/ UNCHANGED vars
  BY <1>5 DEF GameAnswered, Break, DbGone, Crash, Loop, EndPoll, EndMsgs,
              EndSweep, vars
<1> QED BY <1>1, <1>2, <1>3, <1>4, <1>5 DEF Next, Execute, HandleCommit

(* The game server reads the answer it waits for. *)
PayAnswered(sn) ==
  GameAnswered /\ Head(outbox).sn = sn /\ Head(outbox).phase = game[sn].st

LEMMA PayInAnswered ==
  ASSUME TypeOK, NEW sn \in Sns, PayIn(sn), PayInOnce(sn), PayAnswered(sn)
  PROVE  PayInOnce(sn)'
<1> USE DEF coordVars, sqlVars, netVars, ledger, history, bounds
<1> DEFINE r == Head(outbox)
<1>0. PayAnswered(sn) => [Next]_vars
  BY DEF PayAnswered, Next
<1>1. /\ outbox # <<>> /\ outbox' = Tail(outbox) /\ stmts' = stmts
      /\ added' = added /\ results' = results /\ orders' = orders
      /\ taken' = taken
  BY DEF PayAnswered, GameAnswered
<1>2. 1 \in Replies(sn) /\ outbox[1] = r
  BY <1>1, RepliesTail DEF PayAnswered
<1>3. r.phase \in Phase /\ r.phase = game[sn].st
  <2>1. r \in Reply
    BY <1>1 DEF TypeOK
  <2> QED BY <2>1 DEF Reply, PayAnswered
<1>4. /\ Waiting(sn)' = Waiting(sn) /\ (Unpaid(sn)' <=> Unpaid(sn))
      /\ Queued(sn)' = Queued(sn) /\ (Live(sn)' <=> Live(sn))
  BY <1>1 DEF Waiting, Unpaid, Queued, Live
<1>5. /\ Settles(sn) = {} => Settles(sn)' = {}
      /\ Refusals(sn) = {} => Refusals(sn)' = {}
  <2>1. \A i \in Replies(sn)' : \E j \in Replies(sn) : outbox'[i] = outbox[j]
    BY <1>1, RepliesTail DEF RepliesKept
  <2> QED BY <2>1 DEF Settles, Refusals
<1>6. game[sn] \in [st : {"idle", "prepare", "commit", "done", "failed"}, cnt : Nat]
  BY DEF TypeOK
<1>7. game'[sn] = IF ~r.ok THEN [game[sn] EXCEPT !.st = "failed"]
                  ELSE IF game[sn].st = "prepare"
                       THEN [st |-> "commit", cnt |-> r.cnt]
                  ELSE [game[sn] EXCEPT !.st = "done"]
  BY DEF PayAnswered, GameAnswered, TypeOK
<1>8. /\ PreparesFirst(sn)'
      /\ Begun(sn) /\ Prepares(sn) = {} => Prepares(sn)' = {}
  BY <1>0, InboxOrdered DEF PayInOnce
<1>9. \A i \in Settles(sn)' : ~outbox'[i].ok
  BY <1>0, PayReplies DEF PayInOnce
<1>10. CASE game[sn].st = "prepare"
  <2>1. /\ ~Begun(sn) /\ taken[sn] = 0 /\ Settles(sn) = {} /\ Refusals(sn) = {}
    BY <1>10 DEF Begun, PayInOnce
  <2>2. r.ok
    BY <1>2, <2>1 DEF Refusals
  <2>3. game'[sn].st = "commit"
    BY <1>7, <1>10, <2>2
  <2>4. ~Refused(sn)'
    BY <1>5, <2>1, <2>3 DEF Refused
  <2> QED BY <1>1, <1>4, <1>8, <1>9, <2>1, <2>3, <2>4 DEF PayInOnce, Begun
<1>11. CASE game[sn].st = "commit"
  <2>1. 1 \in Settles(sn) /\ ~r.ok
    BY <1>2, <1>3, <1>11 DEF Settles, PayInOnce
  <2>2. Refused(sn) /\ Begun(sn)
    BY <1>11, <2>1 DEF Refused, Begun
  <2>3. game'[sn].st = "failed"
    BY <1>6, <1>7, <2>1
  <2>4. taken'[sn] # 1
    BY <1>1, <2>2 DEF PayInOnce
  <2> QED BY <1>1, <1>4, <1>8, <1>9, <2>2, <2>3, <2>4 DEF PayInOnce, Begun
<1> QED BY <1>3, <1>10, <1>11 DEF Phase

(* A commit that finds no order. *)
LEMMA PayInRefused ==
  ASSUME TypeOK, NEW sn \in Sns, PayIn(sn), PayInOnce(sn),
         CommitUnknown, Head(inbox).sn = sn
  PROVE  PayInOnce(sn)'
<1> USE DEF coordVars, sqlVars, netVars, ledger, history, bounds
<1>0. [Next]_vars
  BY DEF Next, HandleCommit
<1>1. /\ stmts' = stmts /\ added' = added /\ results' = results
      /\ orders' = orders /\ game' = game /\ ~Live(sn)
      /\ taken'[sn] = IF taken[sn] > 0 THEN taken[sn] + 1 ELSE 0
  BY DEF CommitUnknown, TakenAgain, TypeOK
<1>2. taken[sn] \in Nat
  BY DEF TypeOK
<1>3. Begun(sn) /\ Prepares(sn)' = {}
  BY CommitTaken DEF PayInOnce
<1>4. PreparesFirst(sn)'
  BY <1>3 DEF PreparesFirst
<1>5. \A i \in Settles(sn)' : ~outbox'[i].ok
  BY <1>0, PayReplies DEF PayInOnce
<1>6. /\ Waiting(sn)' = Waiting(sn) /\ (Unpaid(sn)' <=> Unpaid(sn))
      /\ (Live(sn)' <=> Live(sn)) /\ (Begun(sn)' <=> Begun(sn))
  BY <1>1 DEF Waiting, Unpaid, Live, Begun
<1>7. taken'[sn] # 1 /\ (taken'[sn] = 0 => taken[sn] = 0)
  BY <1>1, <1>2
<1> QED BY <1>1, <1>3, <1>4, <1>5, <1>6, <1>7 DEF PayInOnce

(* The commit that queues the payment, or does so again. *)
LEMMA PayInTaken ==
  ASSUME TypeOK, NEW sn \in Sns, PayIn(sn), PayInOnce(sn),
         CommitPayIn, Head(inbox).sn = sn
  PROVE  PayInOnce(sn)'
<1> USE DEF coordVars, sqlVars, netVars, ledger, history, bounds
<1>0. [Next]_vars
  BY DEF Next, HandleCommit
<1>1. /\ added' = added /\ results' = results /\ outbox' = outbox
      /\ game' = game /\ Live(sn) /\ taken'[sn] = taken[sn] + 1
      /\ \E c : stmts'[sn] = Append(stmts[sn], c)
  BY DEF CommitPayIn, Push, TypeOK
<1>2. taken[sn] \in Nat /\ added[sn] \in Nat /\ Cnt[sn] \in Nat
  BY TradesAssumption DEF TypeOK
<1>3. Begun(sn) /\ Prepares(sn)' = {}
  BY CommitTaken DEF PayInOnce
<1>4. PreparesFirst(sn)'
  BY <1>3 DEF PreparesFirst
<1>5. /\ Settles(sn)' = Settles(sn) /\ (Begun(sn)' <=> Begun(sn))
      /\ (Refused(sn)' <=> Refused(sn))
  BY <1>1 DEF Settles, Replies, Begun, Refused
<1>6. \A i \in Settles(sn)' : ~outbox'[i].ok
  BY <1>1, <1>5 DEF PayInOnce
<1>7. ASSUME taken'[sn] = 1
      PROVE  ~Refused(sn)' /\ added'[sn] + Queued(sn)' <= Cnt[sn]
  <2>1. taken[sn] = 0
    BY <1>1, <1>2, <1>7
  <2>2. Unpaid(sn) /\ ~Refused(sn)
    BY <1>1, <2>1 DEF PayInOnce
  <2>3. Len(stmts'[sn]) = 1
    <3>1. PICK c : stmts'[sn] = Append(stmts[sn], c)
      BY <1>1
    <3>2. stmts[sn] = <<>>
      BY <2>2 DEF Unpaid
    <3> QED BY <3>1, <3>2
  <2>4. Queued(sn)' = Cnt[sn]
    BY <1>2, <2>3, QueuedSum DEF Queued
  <2> QED BY <1>1, <1>2, <1>5, <2>2, <2>4 DEF Unpaid
<1>8. taken'[sn] # 0
  BY <1>1, <1>2
<1> QED BY <1>1, <1>3, <1>4, <1>5, <1>6, <1>7, <1>8 DEF PayInOnce

LEMMA PayInStep ==
  ASSUME TypeOK, CallsTrue, [Next]_vars, NEW sn \in Sns, PayIn(sn), PayInOnce(sn)
  PROVE  PayInOnce(sn)'
<1>1. CASE PayAnswered(sn)
  BY <1>1, PayInAnswered
<1>2. CASE (CommitUnknown \/ CommitPayIn) /\ Head(inbox).sn = sn
  BY <1>2, PayInRefused, PayInTaken
<1>3. CASE ~PayAnswered(sn) /\ ~((CommitUnknown \/ CommitPayIn) /\ Head(inbox).sn = sn)
  <2>1. \/ game'[sn].st = game[sn].st
        \/ game[sn].st = "idle" /\ game'[sn].st = "prepare"
    <3>1. GameStart(sn) => game[sn].st = "idle" /\ game'[sn].st = "prepare"
      BY DEF GameStart, TypeOK
    <3> QED BY <1>3, <3>1, GameMoves DEF PayAnswered
  <2>2. /\ Begun(sn)' <=> Begun(sn)
        /\ game'[sn].st = "failed" <=> game[sn].st = "failed"
        /\ game'[sn].st # "done"
    BY <2>1 DEF Begun, PayInOnce
  <2>3. taken'[sn] = taken[sn]
    BY <1>3, TakenMoves
  <2>4. /\ PreparesFirst(sn)'
        /\ Begun(sn) /\ Prepares(sn) = {} => Prepares(sn)' = {}
    BY InboxOrdered DEF PayInOnce
  <2>5. /\ Settles(sn) = {} => Settles(sn)' = {}
        /\ Settles(sn) = {} /\ Refusals(sn) = {} /\ Waiting(sn) = {}
             => Refusals(sn)' = {}
        /\ \A i \in Settles(sn)' : ~outbox'[i].ok
    BY <1>3, PayReplies DEF PayInOnce
  <2>6. Refused(sn)' => Refused(sn)
    BY <2>2, <2>5 DEF Refused
  <2>7. taken'[sn] = 0 => Unpaid(sn)' /\ Waiting(sn)' = {}
    BY <1>3, <2>3, PayMoves DEF PayInOnce, Unpaid
  <2>8. ~Begun(sn)' => /\ taken'[sn] = 0 /\ Asks(sn)' = {}
                       /\ Settles(sn)' = {} /\ Refusals(sn)' = {}
    <3>1. ~Begun(sn)' => (Asks(sn) = {} => Asks(sn)' = {})
      BY AskMoves DEF Begun
    <3> QED BY <2>2, <2>3, <2>5, <3>1 DEF PayInOnce
  <2>9. taken'[sn] = 0 /\ Refused(sn)' => ~Live(sn)' /\ Prepares(sn)' = {}
    <3> SUFFICES ASSUME taken'[sn] = 0, Refused(sn)'
                 PROVE  ~Live(sn)' /\ Prepares(sn)' = {}
      OBVIOUS
    <3>1. Refused(sn) /\ ~Live(sn) /\ Prepares(sn) = {}
      BY <2>3, <2>6 DEF PayInOnce
    <3>2. Begun(sn)
      BY <3>1 DEF Refused, Begun, PayInOnce
    <3> QED BY <2>4, <3>1, <3>2, OrderMade
  <2>10. taken'[sn] = 1 => ~Refused(sn)' /\ added'[sn] + Queued(sn)' <= Cnt[sn]
    <3> SUFFICES ASSUME taken'[sn] = 1
                 PROVE  ~Refused(sn)' /\ added'[sn] + Queued(sn)' <= Cnt[sn]
      OBVIOUS
    <3>1. ~Refused(sn) /\ added[sn] + Queued(sn) <= Cnt[sn]
      BY <2>3 DEF PayInOnce
    <3>2. added'[sn] + Queued(sn)' <= added[sn] + Queued(sn)
      BY <1>3, PayKept
    <3>3. /\ added[sn] \in Nat /\ added'[sn] \in Nat /\ Cnt[sn] \in Nat
          /\ Queued(sn) \in Nat /\ Queued(sn)' \in Nat
      <4>1. TypeOK'
        BY TypeStep
      <4>2. /\ stmts[sn] \in Seq(Stmt) /\ stmts'[sn] \in Seq(Stmt)'
            /\ added[sn] \in Nat /\ added'[sn] \in Nat /\ Cnt[sn] \in Nat
        BY <4>1, TradesAssumption DEF TypeOK
      <4>3. Len(stmts[sn]) \in Nat /\ Len(stmts'[sn]) \in Nat
        BY <4>2
      <4> QED BY <4>2, <4>3, QueuedSum DEF Queued
    <3> QED BY <2>6, <3>1, <3>2, <3>3
  <2> QED BY <2>2, <2>4, <2>5, <2>7, <2>8, <2>9, <2>10 DEF PayInOnce
<1> QED BY <1>1, <1>2, <1>3

PayInInv == \A sn \in Sns : PayIn(sn) => PayInOnce(sn)

LEMMA PayInInit == Init => PayInInv
BY DEF Init, PayInInv, PayInOnce, PreparesFirst, Asks, Prepares, Settles,
       Refusals, Replies, Refused, Begun, Unpaid, Waiting

(* The money of a payment in is paid in or given back to the player by the *)
(* game server, never both and never twice: for every number of trades,    *)
(* repeated prepares and commits, broken connections and crashes, as long  *)
(* as no commit comes after the one that queued the payment.               *)
THEOREM PaymentsOnce == Spec => []PaidOrGivenBack
<1>1. IInv /\ PayInInv /\ [Next]_vars => PayInInv'
  <2> SUFFICES ASSUME IInv, PayInInv, [Next]_vars,
                      NEW sn \in Sns, PayIn(sn)
               PROVE  PayInOnce(sn)'
    BY DEF PayInInv, PayIn
  <2> QED BY PayInStep DEF PayInInv, IInv
<1>2. IInv /\ PayInInv => PaidOrGivenBack
  <2> SUFFICES ASSUME IInv, PayInInv, NEW sn \in Sns, PayIn(sn), taken[sn] <= 1
               PROVE  added[sn] + Queued(sn) + GivenBack(sn) <= Cnt[sn]
    BY DEF PaidOrGivenBack
  <2>1. taken[sn] \in Nat /\ added[sn] \in Nat /\ Cnt[sn] \in Nat
    BY TradesAssumption DEF IInv, TypeOK
  <2>2. PayInOnce(sn) /\ taken[sn] \in {0, 1}
    BY <2>1 DEF PayInInv
  <2>3. CASE taken[sn] = 0
    <3>1. added[sn] = 0 /\ stmts[sn] = <<>>
      BY <2>2, <2>3 DEF PayInOnce, Unpaid
    <3>2. Queued(sn) = 0
      BY <2>1, <3>1, QueuedSum DEF Queued
    <3> QED BY <2>1, <3>1, <3>2 DEF GivenBack
  <2>4. CASE taken[sn] = 1
    <3>1. /\ added[sn] + Queued(sn) <= Cnt[sn]
          /\ game[sn].st # "failed"
      BY <2>2, <2>4 DEF PayInOnce, Refused
    <3>2. Queued(sn) \in Nat
      <4>1. Len(stmts[sn]) \in Nat
        BY DEF IInv, TypeOK
      <4> QED BY <2>1, <4>1, QueuedSum DEF Queued
    <3> QED BY <2>1, <3>1, <3>2 DEF GivenBack
  <2> QED BY <2>2, <2>3, <2>4
<1> QED BY <1>1, <1>2, PayInInit, Invariance, PTL DEF Spec

-----------------------------------------------------------------------------
(* What the game server pays out is covered *)

(* The order is there or not, with the value and the state it had. *)
OrderStays(sn) ==
  /\ orders'[sn] = NoOrder <=> orders[sn] = NoOrder
  /\ Live(sn) => /\ orders'[sn].value = orders[sn].value
                 /\ orders'[sn].state = orders[sn].state

(* Every result the number waits for was on its way before. *)
ResultsKept(sn) ==
  \A i \in Waiting(sn)' : \E j \in Waiting(sn) : results'[i] = results[j]

(* One call of the number is executed. *)
ExecutedOne(sn, i) ==
  \/ ExecCharge(sn, i) \/ ExecShort(sn, i) \/ ExecAdd(sn, i) \/ ExecError(sn, i)

(* How the order of a charge moves. *)
LEMMA OrderMoves ==
  ASSUME TypeOK, [Next]_vars, NEW sn \in Sns, ~PayIn(sn)
  PROVE  \/ OrderStays(sn)
         \/ CallbackOk /\ Head(results).sn = sn
         \/ CallbackFailed /\ Head(results).sn = sn
         \/ SweepDone(sn) \/ SweepFailed(sn) \/ SweepLost(sn) \/ Crash
         \/ PrepareCharge /\ Head(inbox).sn = sn
         \/ CommitCharge /\ Head(inbox).sn = sn
<1> USE DEF coordVars, sqlVars, netVars, ledger, history, bounds
<1>1. ASSUME orders'[sn] = orders[sn] PROVE OrderStays(sn)
  BY <1>1 DEF OrderStays
<1>2. ASSUME NEW t \in Sns, Age(t) PROVE OrderStays(sn)
  <2>1. CASE t # sn
    <3>1. orders'[sn] = orders[sn]
      BY <1>2, <2>1 DEF Age, TypeOK
    <3> QED BY <1>1, <3>1
  <2>2. CASE t = sn
    <3>1. orders[sn] \in Order
      BY <1>2, <2>2 DEF Age, Live, TypeOK
    <3>2. orders'[sn] = [orders[sn] EXCEPT !.old = TRUE]
      BY <1>2, <2>2 DEF Age, TypeOK
    <3>3. /\ orders'[sn] \in Order /\ orders'[sn].value = orders[sn].value
          /\ orders'[sn].state = orders[sn].state
      BY <3>1, <3>2 DEF Order
    <3> QED BY <3>1, <3>3, NoOrderAssumption DEF OrderStays
  <2> QED BY <2>1, <2>2
<1>3. ASSUME NEW t \in Sns, SweepDone(t) \/ SweepFailed(t) \/ SweepLost(t)
      PROVE  OrderStays(sn) \/ SweepDone(sn) \/ SweepFailed(sn) \/ SweepLost(sn)
  <2>1. CASE t # sn
    <3>1. orders'[sn] = orders[sn]
      BY <1>3, <2>1 DEF SweepDone, SweepFailed, SweepLost, Drop, TypeOK
    <3> QED BY <1>1, <3>1
  <2> QED BY <1>3, <2>1
<1>4. CASE Callback
  <2>1. CASE Head(results).sn # sn
    <3>1. orders'[sn] = orders[sn]
      BY <1>4, <2>1 DEF Callback, CallbackOk, CallbackFailed, CallbackOrphan, TypeOK
    <3> QED BY <1>1, <3>1
  <2>2. CASE CallbackOrphan
    BY <1>1, <2>2 DEF CallbackOrphan
  <2> QED BY <1>4, <2>1, <2>2 DEF Callback
<1>5. CASE HandlePrepare \/ HandleCommit
  <2> DEFINE t == Head(inbox).sn
  <2>1. CASE PrepareKnown \/ CommitUnknown
    BY <1>1, <2>1 DEF PrepareKnown, CommitUnknown
  <2>2. CASE PreparePayIn \/ CommitPayIn
    <3>1. t # sn
      BY <2>2 DEF PreparePayIn, CommitPayIn
    <3>2. orders'[sn] = orders[sn]
      BY <2>2, <3>1 DEF PreparePayIn, CommitPayIn, TypeOK
    <3> QED BY <1>1, <3>2
  <2>3. CASE PrepareCharge \/ CommitCharge
    <3>1. CASE t # sn
      <4>1. orders'[sn] = orders[sn]
        BY <2>3, <3>1 DEF PrepareCharge, CommitCharge, TypeOK
      <4> QED BY <1>1, <4>1
    <3> QED BY <2>3, <3>1
  <2> QED BY <1>5, <2>1, <2>2, <2>3 DEF HandlePrepare, HandleCommit
<1>6. ASSUME NEW t \in Sns, NEW i \in DOMAIN stmts[t], ExecutedOne(t, i)
      PROVE  OrderStays(sn)
  BY <1>1, <1>6 DEF ExecutedOne, ExecCharge, ExecShort, ExecAdd, ExecError
<1>7. CASE \/ \E t \in Sns : GameStart(t) \/ GameRepeat(t)
           \/ GameAnswered \/ Break \/ DbGone \/ Loop \/ UNCHANGED vars
  BY <1>1, <1>7 DEF GameStart, GameRepeat, GameAnswered, Break, DbGone, Loop,
                    EndPoll, EndMsgs, EndSweep, vars
<1> QED BY <1>2, <1>3, <1>4, <1>5, <1>6, <1>7
        DEF Next, Execute, ExecutedOne, Sweep

(* Only an executed call charges or adds a result. *)
LEMMA ChargeMoves ==
  ASSUME TypeOK, CallsTrue, [Next]_vars, NEW sn \in Sns
  PROVE  /\ charged[sn] \in Nat /\ charged'[sn] \in Nat
         /\ \/ charged'[sn] = charged[sn] /\ ResultsKept(sn)
            \/ \E i \in DOMAIN stmts[sn] : ExecutedOne(sn, i)
<1> USE DEF coordVars, sqlVars, netVars, ledger, history, bounds
<1>0. charged[sn] \in Nat /\ charged'[sn] \in Nat
  <2>1. TypeOK'
    BY TypeStep
  <2> QED BY <2>1 DEF TypeOK
<1>1. ASSUME NEW t \in Sns, NEW i \in DOMAIN stmts[t], ExecutedOne(t, i)
      PROVE  \/ charged'[sn] = charged[sn] /\ ResultsKept(sn)
             \/ \E k \in DOMAIN stmts[sn] : ExecutedOne(sn, k)
  <2>1. CASE t = sn
    BY <1>1, <2>1
  <2>2. CASE t # sn
    <3>1. PICK ok \in BOOLEAN, val \in Nat :
            Executed(t, i, ok, val) /\ charged'[sn] = charged[sn]
      BY <1>1, <2>2, ExecutedCases DEF ExecutedOne
    <3> DEFINE r == [sn |-> t, ok |-> ok, val |-> val, conn |-> stmts[t][i].conn]
    <3>2. r \in Result /\ r.sn = t /\ results' = Append(results, r)
      <4>1. stmts[t] \in Seq(Stmt)
        BY DEF TypeOK
      <4>2. stmts[t][i] \in Stmt
        BY <4>1
      <4> QED BY <3>1, <4>2 DEF Executed, Result, Stmt
    <3> HIDE DEF r
    <3>3. /\ results \in Seq(Result)
          /\ \A j \in Waiting(sn)' : j \in DOMAIN results /\ results'[j] = results[j]
      <4>1. results \in Seq(Result)
        BY DEF TypeOK
      <4> QED BY <2>2, <3>2, <4>1 DEF Waiting
    <3>4. ResultsKept(sn)
      BY <3>3 DEF ResultsKept, Waiting
    <3> QED BY <3>1, <3>4
  <2> QED BY <2>1, <2>2
<1>2. ASSUME charged' = charged,
             results' = results \/ results' = <<>>
               \/ (results # <<>> /\ results' = Tail(results))
      PROVE  charged'[sn] = charged[sn] /\ ResultsKept(sn)
  <2>1. results \in Seq(Result)
    BY DEF TypeOK
  <2>2. ASSUME NEW j \in Waiting(sn)'
        PROVE  \E k \in Waiting(sn) : results'[j] = results[k]
    <3>1. CASE results' = results \/ results' = <<>>
      BY <3>1 DEF Waiting
    <3>2. CASE results # <<>> /\ results' = Tail(results)
      <4>1. j + 1 \in DOMAIN results /\ results'[j] = results[j + 1]
        BY <2>1, <3>2 DEF Waiting
      <4>2. j + 1 \in Waiting(sn)
        BY <4>1 DEF Waiting
      <4> QED BY <4>1, <4>2
    <3> QED BY <1>2, <3>1, <3>2
  <2> QED BY <1>2, <2>2 DEF ResultsKept
<1>3. CASE Callback
  <2>1. charged' = charged /\ results # <<>> /\ results' = Tail(results)
    BY <1>3 DEF Callback, CallbackOk, CallbackFailed, CallbackOrphan, Polls
  <2> QED BY <1>0, <1>2, <2>1
<1>4. CASE \/ \E t \in Sns : Age(t) \/ Sweep(t) \/ SweepLost(t)
           \/ HandlePrepare \/ HandleCommit
  <2>1. charged' = charged /\ results' = results
    <3>1. CASE \E t \in Sns : Age(t) \/ Sweep(t) \/ SweepLost(t)
      BY <3>1 DEF Age, Sweep, SweepDone, SweepFailed, SweepLost
    <3>2. CASE HandlePrepare \/ HandleCommit
      BY <3>2 DEF HandlePrepare, PrepareCharge, PreparePayIn, PrepareKnown,
                  HandleCommit, CommitUnknown, CommitCharge, CommitPayIn
    <3> QED BY <1>4, <3>1, <3>2
  <2> QED BY <1>0, <1>2, <2>1
<1>5. CASE \/ \E t \in Sns : GameStart(t) \/ GameRepeat(t)
           \/ GameAnswered \/ Break \/ Crash \/ DbGone \/ Loop \/ UNCHANGED vars
  <2>1. charged' = charged /\ (results' = results \/ results' = <<>>)
    BY <1>5 DEF GameStart, GameRepeat, GameAnswered, Break, Crash, DbGone, Loop,
                EndPoll, EndMsgs, EndSweep, vars
  <2> QED BY <1>0, <1>2, <2>1
<1> QED BY <1>0, <1>1, <1>3, <1>4, <1>5 DEF Next, Execute, ExecutedOne

(* What an executed call of a charge leaves: its result, and nothing else  *)
(* on the way.                                                             *)
LEMMA ExecutedMoves ==
  ASSUME TypeOK, CallsTrue, NEW sn \in Sns, ~PayIn(sn), OneCharge(sn),
         NEW i \in DOMAIN stmts[sn], ExecutedOne(sn, i)
  PROVE  \E ok \in BOOLEAN, val \in Nat :
           /\ charged'[sn] = charged[sn] + val
           /\ stmts[sn] # <<>> /\ stmts'[sn] = <<>>
           /\ \A j \in Waiting(sn)' : results'[j].ok = ok /\ results'[j].val = val
           /\ Live(sn) /\ orders[sn].state = 0 /\ orders' = orders
<1>1. PICK ok \in BOOLEAN, val \in Nat :
        Executed(sn, i, ok, val) /\ charged'[sn] = charged[sn] + val
  BY ExecutedCases DEF ExecutedOne
<1>2. stmts[sn] \in Seq(Stmt) /\ results \in Seq(Result)
  BY DEF TypeOK
<1>3. stmts[sn] # <<>> /\ Len(stmts[sn]) = 1 /\ stmts[sn][i] \in Stmt
  <2>1. stmts[sn] # <<>> /\ Len(stmts[sn]) \in Nat /\ Len(stmts[sn]) > 0
    BY <1>2
  <2>2. Len(stmts[sn]) <= 1
    BY DEF OneCharge
  <2> DEFINE n == Len(stmts[sn])
  <2> HIDE DEF n
  <2>3. n \in Nat /\ n > 0 /\ n <= 1 => n = 1
    OBVIOUS
  <2>4. stmts[sn][i] \in Stmt
    BY <1>2
  <2> QED BY <2>1, <2>2, <2>3, <2>4 DEF n
<1>4. Waiting(sn) = {} /\ Live(sn) /\ orders[sn].state = 0
  BY <1>3 DEF OneCharge
<1>5. stmts'[sn] = <<>>
  <2>1. stmts'[sn] = Without(stmts[sn], i)
    BY <1>1 DEF Executed, TypeOK
  <2>2. /\ Without(stmts[sn], i) \in Seq(Stmt)
        /\ Len(Without(stmts[sn], i)) = Len(stmts[sn]) - 1
    BY <1>2, WithoutType
  <2> QED BY <1>3, <2>1, <2>2
<1> DEFINE r == [sn |-> sn, ok |-> ok, val |-> val, conn |-> stmts[sn][i].conn]
<1>6. r \in Result /\ r.sn = sn /\ r.ok = ok /\ r.val = val
  <2>1. stmts[sn][i].conn \in Nat
    BY <1>3 DEF Stmt
  <2> QED BY <2>1 DEF Result
<1>7. results' = Append(results, r)
  BY <1>1 DEF Executed
<1> HIDE DEF r
<1>8. \A j \in Waiting(sn)' : results'[j] = r
  <2>1. Waiting(sn)' = {Len(results) + 1}
    BY <1>4, <1>6, <1>7, ResultAdded
  <2> QED BY <1>2, <1>7, <2>1
<1>9. orders' = orders
  BY DEF ExecutedOne, ExecCharge, ExecShort, ExecAdd, ExecError, coordVars
<1> QED BY <1>1, <1>3, <1>4, <1>5, <1>6, <1>8, <1>9

(* The amount an order has to hold, and the one the game server pays out. *)
Due(sn) == IF Dir[sn] = 0 THEN Cnt[sn] ELSE charged[sn]
Credit(sn) == IF Dir[sn] = 0 THEN Cnt[sn] ELSE game[sn].cnt

(* An order whose charge is done holds what was charged, and so does the   *)
(* result it waits for; a number is charged "everything" once.             *)
Amounts(sn) ==
  /\ Live(sn) /\ orders[sn].state # 0 => orders[sn].value = Due(sn)
  /\ Dir[sn] = 1 =>
       /\ stmts[sn] # <<>> => charged[sn] = 0
       /\ \A i \in Waiting(sn) : results[i].ok => results[i].val = charged[sn]

(* No answer names more than was charged, and the game server never had a  *)
(* higher amount.                                                          *)
Quoted(sn) ==
  Dir[sn] = 1 => /\ \A i \in Replies(sn) : outbox[i].cnt <= charged[sn]
                 /\ game[sn].cnt <= charged[sn]

(* A commit, or an answer to one, is about a trade that was prepared. *)
Asked(sn) == Asks(sn) # {} \/ Settles(sn) # {} => Begun(sn)

(* The game server pays out, or is told to; and what it pays out is kept,  *)
(* or held by a committed order.                                           *)
Promised(sn) == game[sn].st = "done" \/ \E i \in Settles(sn) : outbox[i].ok
Backed(sn) ==
  \/ Credit(sn) <= kept[sn]
  \/ Live(sn) /\ orders[sn].state = 2 /\ Credit(sn) <= orders[sn].value

CreditInv(sn) ==
  /\ Amounts(sn) /\ Quoted(sn) /\ Asked(sn)
  /\ Promised(sn) => Backed(sn)

(* Why CreditBacked is inductive. *)
BackedInv ==
  \A sn \in Sns \ (early \cup overtaken \cup renewed) :
    ~PayIn(sn) => CreditInv(sn)

(* The calls of a charge go, or one is queued with its new order. *)
LEMMA StmtMoves ==
  ASSUME TypeOK, [Next]_vars, NEW sn \in Sns, ~PayIn(sn)
  PROVE  \/ stmts'[sn] = stmts[sn]
         \/ stmts'[sn] = <<>>
         \/ PrepareCharge /\ Head(inbox).sn = sn
         \/ \E i \in DOMAIN stmts[sn] : ExecutedOne(sn, i)
<1> USE DEF coordVars, sqlVars, netVars, ledger, history, bounds
<1>1. ASSUME NEW t \in Sns, NEW i \in DOMAIN stmts[t], ExecutedOne(t, i)
      PROVE  \/ stmts'[sn] = stmts[sn]
             \/ \E k \in DOMAIN stmts[sn] : ExecutedOne(sn, k)
  <2>1. CASE t # sn
    <3>1. \E m : stmts' = [stmts EXCEPT ![t] = m]
      BY <1>1 DEF ExecutedOne, ExecCharge, ExecShort, ExecAdd, ExecError, Executed
    <3> QED BY <2>1, <3>1 DEF TypeOK
  <2> QED BY <1>1, <2>1
<1>2. CASE PrepareCharge \/ CommitPayIn
  <2> DEFINE t == Head(inbox).sn
  <2>1. \E m : stmts' = [stmts EXCEPT ![t] = m]
    BY <1>2 DEF PrepareCharge, CommitPayIn, Push
  <2>2. t # sn => stmts'[sn] = stmts[sn]
    BY <2>1 DEF TypeOK
  <2>3. CommitPayIn => t # sn
    BY DEF CommitPayIn
  <2> QED BY <1>2, <2>2, <2>3
<1>3. CASE DbGone \/ Crash
  BY <1>3 DEF DbGone, Crash
<1>4. CASE Callback \/ PreparePayIn \/ PrepareKnown \/ CommitUnknown \/ CommitCharge
  BY <1>4 DEF Callback, CallbackOk, CallbackFailed, CallbackOrphan,
              PreparePayIn, PrepareKnown, CommitUnknown, CommitCharge
<1>5. CASE \E t \in Sns : \/ GameStart(t) \/ GameRepeat(t) \/ Age(t)
                          \/ Sweep(t) \/ SweepLost(t)
  BY <1>5 DEF GameStart, GameRepeat, Age, Sweep, SweepDone, SweepFailed,
              SweepLost
<1>6. CASE GameAnswered \/ Break \/ Loop \/ UNCHANGED vars
  BY <1>6 DEF GameAnswered, Break, Loop, EndPoll, EndMsgs, EndSweep, vars
<1> QED BY <1>1, <1>2, <1>3, <1>4, <1>5, <1>6
        DEF Next, Execute, ExecutedOne, HandlePrepare, HandleCommit

LEMMA HistoryGrows ==
  ASSUME [Next]_vars
  PROVE  overtaken \subseteq overtaken' /\ renewed \subseteq renewed'
<1> USE DEF history
<1>1. CASE \E sn \in Sns : Age(sn) \/ SweepDone(sn) \/ SweepFailed(sn) \/ SweepLost(sn)
  BY <1>1 DEF Age, SweepDone, SweepFailed, SweepLost, Drop
<1>2. ASSUME NEW sn \in Sns, NEW i \in DOMAIN stmts[sn], ExecutedOne(sn, i)
      PROVE  overtaken' = overtaken /\ renewed' = renewed
  BY <1>2 DEF ExecutedOne, ExecCharge, ExecShort, ExecAdd, ExecError
<1>3. CASE \/ \E sn \in Sns : GameStart(sn) \/ GameRepeat(sn)
           \/ GameAnswered \/ Break \/ DbGone \/ Crash
  BY <1>3 DEF GameStart, GameRepeat, GameAnswered, Break, DbGone, Crash
<1>4. CASE Callback \/ Loop \/ UNCHANGED vars
  BY <1>4 DEF Callback, CallbackOk, CallbackFailed, CallbackOrphan, Loop,
              EndPoll, EndMsgs, EndSweep, vars
<1>5. CASE HandlePrepare \/ HandleCommit
  BY <1>5 DEF HandlePrepare, PrepareCharge, PreparePayIn, PrepareKnown,
              HandleCommit, CommitUnknown, CommitPayIn, CommitCharge
<1> QED BY <1>1, <1>2, <1>3, <1>4, <1>5 DEF Next, Execute, ExecutedOne, Sweep

(* The callback's result is the one its number waits for. *)
LEMMA CallbackFacts ==
  ASSUME TypeOK, CallsTrue, CallbackOk \/ CallbackFailed, NEW sn \in Sns,
         ~PayIn(sn), OneCharge(sn), Head(results).sn = sn
  PROVE  /\ 1 \in Waiting(sn) /\ results[1] = Head(results)
         /\ Waiting(sn)' = {}
         /\ Live(sn) /\ orders[sn].state = 0 /\ stmts[sn] = <<>>
         /\ stmts' = stmts /\ charged' = charged
         /\ CallbackFailed => ~Live(sn)'
         /\ CallbackOk => /\ Head(results).ok /\ Live(sn)'
                          /\ orders'[sn].state \in {1, 3}
                          /\ orders'[sn].value = Head(results).val
                          /\ Dir[sn] = 0 => Head(results).val = Cnt[sn]
<1> USE DEF ledger
<1>1. /\ results \in Seq(Result) /\ results # <<>> /\ results' = Tail(results)
      /\ stmts' = stmts /\ charged' = charged
  BY DEF CallbackOk, CallbackFailed, Polls, TypeOK
<1>2. 1 \in Waiting(sn) /\ results[1] = Head(results)
  BY <1>1 DEF Waiting
<1>3. Waiting(sn)' = {}
  <2>1. \A i, j \in Waiting(sn) : i = j
    BY DEF OneCharge
  <2> QED BY <1>1, <2>1, ResultTaken
<1>4. Live(sn) /\ orders[sn].state = 0 /\ stmts[sn] = <<>>
  BY <1>2 DEF OneCharge
<1>5. ASSUME CallbackFailed PROVE ~Live(sn)'
  BY <1>5 DEF CallbackFailed, Live, TypeOK
<1>6. ASSUME CallbackOk
      PROVE  /\ Head(results).ok /\ Live(sn)'
             /\ orders'[sn].state \in {1, 3}
             /\ orders'[sn].value = Head(results).val
             /\ Dir[sn] = 0 => Head(results).val = Cnt[sn]
  <2> DEFINE r == Head(results)
  <2>1. r.ok /\ (Dir[sn] = 0 => r.val = Cnt[sn])
    <3>1. r.ok
      BY <1>6 DEF CallbackOk
    <3>2. 1 \in DOMAIN results
      BY <1>2 DEF Waiting
    <3>3. results[1].ok /\ Dir[results[1].sn] = 0 => results[1].val = Cnt[results[1].sn]
      BY <3>2 DEF CallsTrue
    <3> QED BY <1>2, <3>1, <3>3
  <2>2. orders[sn] \in Order /\ r.val \in Nat
    BY <1>1, <1>4, HeadResult DEF Live, TypeOK
  <2>3. orders'[sn] = OrderCharged(orders[sn], sn, r)
    BY <1>6 DEF CallbackOk, TypeOK
  <2>4. Dir[sn] = 1 \/ (Dir[sn] = 0 /\ r.val = Cnt[sn])
    BY <2>1, TradesAssumption DEF PayIn
  <2> HIDE DEF r
  <2>5. /\ orders'[sn] \in Order /\ orders'[sn].state \in {1, 3}
        /\ orders'[sn].value = r.val
    BY <2>2, <2>3, <2>4, ChargedOrder
  <2>6. Live(sn)'
    BY <2>5, NoOrderAssumption DEF Live
  <2> QED BY <2>1, <2>5, <2>6 DEF r
<1> QED BY <1>1, <1>2, <1>3, <1>4, <1>5, <1>6

LEMMA AmountsStep ==
  ASSUME TypeOK, CallsTrue, [Next]_vars,
         NEW sn \in Sns \ (early' \cup renewed'), ~PayIn(sn), OneCharge(sn),
         Amounts(sn)
  PROVE  Amounts(sn)'
<1> USE DEF coordVars, sqlVars, netVars, ledger, history, bounds
<1>1. Dir[sn] \in {0, 1} /\ charged[sn] \in Nat
  BY TradesAssumption DEF PayIn, TypeOK
<1>2. ASSUME NEW i \in DOMAIN stmts[sn], ExecutedOne(sn, i)
      PROVE  Amounts(sn)'
  <2>1. PICK ok \in BOOLEAN, val \in Nat :
          /\ charged'[sn] = charged[sn] + val
          /\ stmts[sn] # <<>> /\ stmts'[sn] = <<>>
          /\ \A j \in Waiting(sn)' : results'[j].ok = ok /\ results'[j].val = val
          /\ Live(sn) /\ orders[sn].state = 0 /\ orders' = orders
    BY <1>2, ExecutedMoves
  <2>2. Dir[sn] = 1 => charged[sn] = 0
    BY <2>1 DEF Amounts
  <2>3. Dir[sn] = 1 => charged'[sn] = val
    BY <2>1, <2>2
  <2> QED BY <2>1, <2>3 DEF Amounts, Live
<1>3. CASE (CallbackOk \/ CallbackFailed) /\ Head(results).sn = sn
  <2> DEFINE r == Head(results)
  <2>1. /\ 1 \in Waiting(sn) /\ results[1] = r
        /\ Waiting(sn)' = {} /\ stmts[sn] = <<>> /\ stmts' = stmts
        /\ charged' = charged
        /\ CallbackFailed => ~Live(sn)'
        /\ CallbackOk => /\ r.ok /\ orders'[sn].value = r.val
                         /\ Dir[sn] = 0 => r.val = Cnt[sn]
    BY <1>3, CallbackFacts
  <2>2. ASSUME CallbackOk PROVE r.val = Due(sn)'
    <3>1. Dir[sn] = 1 => r.val = charged[sn]
      BY <2>1, <2>2 DEF Amounts
    <3> QED BY <1>1, <2>1, <2>2, <3>1 DEF Due
  <2> HIDE DEF r
  <2> QED BY <1>3, <2>1, <2>2 DEF Amounts
<1>4. ASSUME ~(\E i \in DOMAIN stmts[sn] : ExecutedOne(sn, i)),
             ~((CallbackOk \/ CallbackFailed) /\ Head(results).sn = sn)
      PROVE  Amounts(sn)'
  <2>1. charged'[sn] = charged[sn] /\ ResultsKept(sn)
    BY <1>4, ChargeMoves
  <2>2. Due(sn)' = Due(sn)
    BY <2>1 DEF Due
  <2>3. Dir[sn] = 1 =>
          \A i \in Waiting(sn)' : results'[i].ok => results'[i].val = charged'[sn]
    <3> SUFFICES ASSUME Dir[sn] = 1, NEW i \in Waiting(sn)', results'[i].ok
                 PROVE  results'[i].val = charged'[sn]
      OBVIOUS
    <3>1. PICK j \in Waiting(sn) : results'[i] = results[j]
      BY <2>1 DEF ResultsKept
    <3> QED BY <2>1, <3>1 DEF Amounts
  <2>4. Dir[sn] = 1 /\ stmts'[sn] # <<>> => charged'[sn] = 0
    <3>1. CASE PrepareCharge /\ Head(inbox).sn = sn
      <4>1. Dir[sn] = 1 /\ charged[sn] > 0 => sn \in renewed'
        BY <3>1 DEF PrepareCharge
      <4>2. Dir[sn] = 1 => ~(charged[sn] > 0)
        BY <4>1
      <4> QED BY <1>1, <2>1, <4>2
    <3> QED BY <1>4, <2>1, <3>1, StmtMoves DEF Amounts
  <2>5. Live(sn)' /\ orders'[sn].state # 0 => orders'[sn].value = Due(sn)'
    <3>1. CASE OrderStays(sn)
      BY <2>2, <3>1 DEF OrderStays, Amounts, Live
    <3>2. CASE SweepDone(sn) \/ SweepFailed(sn) \/ SweepLost(sn) \/ Crash
      <4>1. orders'[sn] = NoOrder
        BY <3>2 DEF SweepDone, SweepFailed, SweepLost, Drop, Crash, TypeOK
      <4> QED BY <4>1 DEF Live
    <3>3. CASE PrepareCharge /\ Head(inbox).sn = sn
      <4>1. orders'[sn] = NewOrder(sn, 0, 0, GoldGame)
        BY <3>3 DEF PrepareCharge, TypeOK
      <4> QED BY <4>1 DEF NewOrder
    <3>4. CASE CommitCharge /\ Head(inbox).sn = sn
      <4>1. Live(sn) /\ orders'[sn] = [orders[sn] EXCEPT !.state = 2]
            /\ orders[sn] \in Order
        BY <3>4 DEF CommitCharge, Live, TypeOK
      <4>2. orders[sn].state # 0
        BY <3>4 DEF CommitCharge
      <4>3. orders'[sn].value = orders[sn].value
        BY <4>1 DEF Order
      <4> QED BY <2>2, <4>1, <4>2, <4>3 DEF Amounts
    <3> QED BY <1>4, <3>1, <3>2, <3>3, <3>4, OrderMoves
  <2> QED BY <2>3, <2>4, <2>5 DEF Amounts
<1> QED BY <1>2, <1>3, <1>4

LEMMA QuotedStep ==
  ASSUME TypeOK, CallsTrue, [Next]_vars, NEW sn \in Sns, ~PayIn(sn),
         OneCharge(sn), Amounts(sn), Quoted(sn)
  PROVE  Quoted(sn)'
<1> SUFFICES ASSUME Dir[sn] = 1 PROVE Quoted(sn)'
  BY DEF Quoted
<1>1. charged[sn] \in Nat /\ charged'[sn] \in Nat /\ charged[sn] <= charged'[sn]
  <2>1. charged[sn] \in Nat /\ charged'[sn] \in Nat
    BY ChargeMoves
  <2>2. \/ charged'[sn] = charged[sn]
        \/ \E i \in DOMAIN stmts[sn] : ExecutedOne(sn, i)
    BY ChargeMoves
  <2>3. ASSUME NEW i \in DOMAIN stmts[sn], ExecutedOne(sn, i)
        PROVE  \E val \in Nat : charged'[sn] = charged[sn] + val
    BY <2>3, ExecutedMoves
  <2> QED BY <2>1, <2>2, <2>3
<1>2. /\ game[sn].cnt \in Nat /\ game[sn].cnt <= charged[sn]
      /\ outbox \in Seq(Reply) /\ outbox' \in Seq(Reply)
      /\ \A i \in Replies(sn) : outbox[i].cnt \in Nat /\ outbox[i].cnt <= charged[sn]
  <2>1. TypeOK'
    BY TypeStep
  <2>2. \A i \in Replies(sn) : outbox[i].cnt \in Nat
    <3>1. outbox \in Seq(Reply)
      BY DEF TypeOK
    <3>2. \A i \in DOMAIN outbox : outbox[i] \in Reply
      BY <3>1
    <3> QED BY <3>2 DEF Replies, Reply
  <2> QED BY <2>1, <2>2 DEF Quoted, TypeOK
<1>3. ASSUME NEW i \in Replies(sn)' PROVE outbox'[i].cnt <= charged'[sn]
  <2>1. CASE \E j \in Replies(sn) : outbox'[i] = outbox[j]
    BY <1>1, <1>2, <2>1
  <2>2. CASE AnsweredBy(sn, outbox'[i])
    <3>1. CASE CallbackOk /\ Head(results).sn = sn /\ outbox'[i].cnt = Head(results).val
      <4>1. Head(results).val = charged[sn]
        <5>1. 1 \in Waiting(sn) /\ results[1] = Head(results) /\ Head(results).ok
          BY <3>1, CallbackFacts
        <5> QED BY <5>1 DEF Amounts
      <4> QED BY <1>1, <3>1, <4>1
    <3>2. CASE outbox'[i].cnt = 0
      BY <1>1, <3>2
    <3>3. ~(PreparePayIn /\ Head(inbox).sn = sn)
      BY DEF PreparePayIn
    <3> QED BY <2>2, <3>1, <3>2, <3>3 DEF AnsweredBy
  <2> QED BY <2>1, <2>2, ReplyMoves
<1>4. game'[sn].cnt <= charged'[sn]
  <2>1. CASE game'[sn] = game[sn]
    BY <1>1, <1>2, <2>1
  <2>2. CASE GameStart(sn)
    <3>1. game'[sn].cnt = game[sn].cnt
      BY <2>2 DEF GameStart, TypeOK
    <3> QED BY <1>1, <1>2, <3>1
  <2>3. CASE /\ outbox # <<>> /\ outbox' = Tail(outbox) /\ Head(outbox).sn = sn
             /\ game'[sn] =
                  IF ~Head(outbox).ok THEN [game[sn] EXCEPT !.st = "failed"]
                  ELSE IF game[sn].st = "prepare"
                       THEN [st |-> "commit", cnt |-> Head(outbox).cnt]
                  ELSE [game[sn] EXCEPT !.st = "done"]
    <3>1. 1 \in Replies(sn) /\ outbox[1] = Head(outbox)
      BY <2>3, RepliesTail
    <3>2. Head(outbox).cnt \in Nat /\ Head(outbox).cnt <= charged[sn]
      BY <1>2, <3>1
    <3>3. game[sn] \in [st : {"idle", "prepare", "commit", "done", "failed"},
                        cnt : Nat]
      BY DEF TypeOK
    <3>4. \/ game'[sn].cnt = game[sn].cnt
          \/ game'[sn].cnt = Head(outbox).cnt
      BY <2>3, <3>3
    <3>5. CASE game'[sn].cnt = game[sn].cnt
      BY <1>1, <1>2, <3>5
    <3>6. CASE game'[sn].cnt = Head(outbox).cnt
      BY <1>1, <3>2, <3>6
    <3> QED BY <3>4, <3>5, <3>6
  <2> QED BY <2>1, <2>2, <2>3, GameMoves
<1> QED BY <1>3, <1>4 DEF Quoted

(* Once a trade is prepared it stays so, and its amount is fixed. *)
LEMMA BegunStays ==
  ASSUME TypeOK, [Next]_vars, NEW sn \in Sns
  PROVE  /\ Begun(sn) => Begun(sn)' /\ game'[sn].cnt = game[sn].cnt
         /\ PayAnswered(sn) => Begun(sn)'
<1>1. game[sn] \in [st : {"idle", "prepare", "commit", "done", "failed"},
                    cnt : Nat]
  BY DEF TypeOK
<1>2. CASE game'[sn] = game[sn] /\ ~PayAnswered(sn)
  BY <1>2 DEF Begun
<1>3. CASE GameStart(sn) /\ ~PayAnswered(sn)
  BY <1>3 DEF GameStart, Begun
<1>4. CASE PayAnswered(sn)
  <2> DEFINE r == Head(outbox)
  <2>1. r.phase \in Phase /\ r.phase = game[sn].st
    BY <1>4, HeadReply DEF PayAnswered, GameAnswered
  <2>2. game'[sn] = IF ~r.ok THEN [game[sn] EXCEPT !.st = "failed"]
                    ELSE IF game[sn].st = "prepare"
                         THEN [st |-> "commit", cnt |-> r.cnt]
                    ELSE [game[sn] EXCEPT !.st = "done"]
    BY <1>4 DEF PayAnswered, GameAnswered, TypeOK
  <2> HIDE DEF r
  <2>3. game'[sn].st \in {"failed", "commit", "done"}
    BY <1>1, <2>2
  <2>4. game[sn].st = "commit" => game'[sn].cnt = game[sn].cnt
    BY <1>1, <2>2
  <2>5. Begun(sn) => game[sn].st = "commit"
    BY <2>1 DEF Begun, Phase
  <2> QED BY <2>3, <2>4, <2>5 DEF Begun
<1> QED BY <1>2, <1>3, <1>4, GameMoves DEF PayAnswered

LEMMA AskedStep ==
  ASSUME TypeOK, [Next]_vars, NEW sn \in Sns, Asked(sn)
  PROVE  Asked(sn)'
<1>1. ASSUME Asks(sn) = {}, Asks(sn)' # {} PROVE Begun(sn)'
  BY <1>1, AskMoves DEF Begun
<1>2. ASSUME Settles(sn) = {}, NEW i \in Settles(sn)' PROVE Begun(sn)
  <2>1. i \in Replies(sn)' /\ outbox'[i].phase = "commit"
    BY DEF Settles
  <2>2. AnsweredBy(sn, outbox'[i])
    BY <1>2, <2>1, ReplyMoves DEF Settles
  <2>3. (CommitUnknown \/ CommitCharge) /\ Head(inbox).sn = sn
    BY <2>1, <2>2 DEF AnsweredBy
  <2> QED BY <2>3, CommitTaken DEF Asked
<1>3. Begun(sn) => Begun(sn)'
  BY BegunStays
<1> QED BY <1>1, <1>2, <1>3 DEF Asked

LEMMA KeptMoves ==
  ASSUME TypeOK, [Next]_vars, NEW sn \in Sns, ~PayIn(sn)
  PROVE  /\ kept[sn] \in Nat /\ kept'[sn] \in Nat /\ kept[sn] <= kept'[sn]
         /\ SweepDone(sn) \/ Crash =>
              (Live(sn) /\ orders[sn].state = 2 => orders[sn].value <= kept'[sn])
<1> USE DEF ledger
<1>1. kept[sn] \in Nat /\ kept'[sn] \in Nat /\ Held(sn) \in Nat
  <2>1. TypeOK'
    BY TypeStep
  <2> QED BY <2>1, LedgerTypes DEF TypeOK
<1>2. ASSUME NEW t \in Sns, SweepDone(t)
      PROVE  /\ kept'[sn] = kept[sn] \/ kept'[sn] = kept[sn] + Held(sn)
             /\ t = sn => kept'[sn] = kept[sn] + Held(sn)
  BY <1>2 DEF SweepDone, TypeOK
<1>3. ASSUME Crash
      PROVE  /\ kept'[sn] = kept[sn] \/ kept'[sn] = kept[sn] + Held(sn)
             /\ Live(sn) /\ orders[sn].state = 2 => kept'[sn] = kept[sn] + Held(sn)
  BY <1>3 DEF Crash
<1>4. ASSUME NEW t \in Sns, NEW i \in DOMAIN stmts[t], ExecutedOne(t, i)
      PROVE  kept' = kept
  BY <1>4 DEF ExecutedOne, ExecCharge, ExecShort, ExecAdd, ExecError
<1>5. ASSUME Callback \/ HandlePrepare \/ HandleCommit PROVE kept' = kept
  BY <1>5 DEF Callback, CallbackOk, CallbackFailed, CallbackOrphan,
              HandlePrepare, PrepareCharge, PreparePayIn, PrepareKnown,
              HandleCommit, CommitUnknown, CommitCharge, CommitPayIn
<1>6. ASSUME NEW t \in Sns, GameStart(t) \/ GameRepeat(t) \/ Age(t)
                              \/ SweepFailed(t) \/ SweepLost(t)
      PROVE  kept' = kept
  BY <1>6 DEF GameStart, GameRepeat, Age, SweepFailed, SweepLost
<1>7. ASSUME GameAnswered \/ Break \/ DbGone \/ Loop \/ UNCHANGED vars
      PROVE  kept' = kept
  BY <1>7 DEF GameAnswered, Break, DbGone, Loop, EndPoll, EndMsgs, EndSweep, vars
<1>8. kept'[sn] = kept[sn] \/ kept'[sn] = kept[sn] + Held(sn)
  BY <1>2, <1>3, <1>4, <1>5, <1>6, <1>7 DEF Next, Execute, ExecutedOne, Sweep
<1>9. ASSUME SweepDone(sn) \/ Crash, Live(sn), orders[sn].state = 2
      PROVE  orders[sn].value <= kept'[sn]
  <2>1. kept'[sn] = kept[sn] + Held(sn)
    BY <1>2, <1>3, <1>9
  <2>2. Held(sn) = orders[sn].value
    BY <1>9 DEF Held
  <2> QED BY <1>1, <2>1, <2>2
<1> QED BY <1>1, <1>8, <1>9

(* A trade is promised by the handler of its commit only. *)
LEMMA PromiseMoves ==
  ASSUME TypeOK, [Next]_vars, NEW sn \in Sns, Promised(sn)'
  PROVE  Promised(sn) \/ (CommitCharge /\ Head(inbox).sn = sn)
<1>1. CASE game'[sn].st = "done"
  <2>1. CASE game'[sn] = game[sn]
    BY <1>1, <2>1 DEF Promised
  <2>2. ~GameStart(sn)
    BY <1>1 DEF GameStart, TypeOK
  <2>3. CASE /\ outbox # <<>> /\ outbox' = Tail(outbox)
             /\ Head(outbox).sn = sn /\ Head(outbox).phase = game[sn].st
             /\ game'[sn] =
                  IF ~Head(outbox).ok THEN [game[sn] EXCEPT !.st = "failed"]
                  ELSE IF game[sn].st = "prepare"
                       THEN [st |-> "commit", cnt |-> Head(outbox).cnt]
                  ELSE [game[sn] EXCEPT !.st = "done"]
    <3>1. 1 \in Replies(sn) /\ outbox[1] = Head(outbox)
      BY <2>3, RepliesTail
    <3>2. game[sn] \in [st : {"idle", "prepare", "commit", "done", "failed"},
                        cnt : Nat]
      BY DEF TypeOK
    <3>3. Head(outbox).ok /\ game[sn].st # "prepare"
      BY <1>1, <2>3, <3>2
    <3>4. Head(outbox).phase = "commit"
      BY <2>3, <3>3, HeadReply DEF Phase
    <3> QED BY <3>1, <3>3, <3>4 DEF Promised, Settles
  <2> QED BY <2>1, <2>2, <2>3, GameMoves
<1>2. CASE \E i \in Settles(sn)' : outbox'[i].ok
  <2>1. PICK i \in Settles(sn)' : outbox'[i].ok
    BY <1>2
  <2>2. i \in Replies(sn)' /\ outbox'[i].phase = "commit"
    BY DEF Settles
  <2>3. CASE \E j \in Replies(sn) : outbox'[i] = outbox[j]
    BY <2>1, <2>2, <2>3 DEF Promised, Settles
  <2>4. CASE AnsweredBy(sn, outbox'[i])
    BY <2>1, <2>2, <2>4 DEF AnsweredBy
  <2> QED BY <2>2, <2>3, <2>4, ReplyMoves
<1> QED BY <1>1, <1>2 DEF Promised

LEMMA BackedStep ==
  ASSUME TypeOK, CallsTrue, [Next]_vars,
         NEW sn \in Sns \ (early' \cup overtaken' \cup renewed'),
         ~PayIn(sn), OneCharge(sn), CreditInv(sn), Promised(sn)'
  PROVE  Backed(sn)'
<1>1. /\ kept[sn] \in Nat /\ kept'[sn] \in Nat /\ kept[sn] <= kept'[sn]
      /\ Cnt[sn] \in Nat /\ charged[sn] \in Nat /\ game[sn].cnt \in Nat
      /\ Dir[sn] \in {0, 1}
  BY KeptMoves, TradesAssumption DEF TypeOK, PayIn
<1>2. Credit(sn) \in Nat
  BY <1>1 DEF Credit
<1>3. CASE CommitCharge /\ Head(inbox).sn = sn
  <2>1. /\ Live(sn) /\ orders'[sn] = [orders[sn] EXCEPT !.state = 2]
        /\ orders[sn] \in Order /\ orders[sn].state # 0 /\ game' = game
    BY <1>3 DEF CommitCharge, Live, TypeOK
  <2>2. /\ Live(sn)' /\ orders'[sn].state = 2
        /\ orders'[sn].value = orders[sn].value
    <3>1. /\ orders'[sn] \in Order /\ orders'[sn].state = 2
          /\ orders'[sn].value = orders[sn].value
      BY <2>1 DEF Order
    <3> QED BY <3>1, NoOrderAssumption DEF Live
  <2>3. orders[sn].value = Due(sn)
    BY <2>1 DEF CreditInv, Amounts
  <2>4. Credit(sn) <= Due(sn)
    BY <1>1 DEF Credit, Due, CreditInv, Quoted
  <2>5. Credit(sn)' = Credit(sn)
    BY <2>1 DEF Credit
  <2> QED BY <2>2, <2>3, <2>4, <2>5 DEF Backed
<1>4. CASE ~(CommitCharge /\ Head(inbox).sn = sn)
  <2>1. Promised(sn) /\ Backed(sn)
    BY <1>4, PromiseMoves DEF CreditInv
  <2>2. Begun(sn)
    BY <2>1 DEF Promised, CreditInv, Asked, Begun
  <2>3. Credit(sn)' = Credit(sn)
    BY <2>2, BegunStays DEF Credit
  <2>4. CASE Credit(sn) <= kept[sn]
    BY <1>1, <1>2, <2>3, <2>4 DEF Backed
  <2>5. CASE Live(sn) /\ orders[sn].state = 2 /\ Credit(sn) <= orders[sn].value
    <3>1. CASE OrderStays(sn)
      BY <2>3, <2>5, <3>1 DEF OrderStays, Backed, Live
    <3>2. ~((CallbackOk \/ CallbackFailed) /\ Head(results).sn = sn)
      BY <2>5, CallbackFacts
    <3>3. CASE SweepDone(sn) \/ Crash
      <4>1. orders[sn].value <= kept'[sn] /\ orders[sn].value \in Nat
        BY <2>5, <3>3, KeptMoves DEF Live, TypeOK, Order
      <4> QED BY <1>1, <1>2, <2>3, <2>5, <4>1 DEF Backed
    <3>4. ~(SweepFailed(sn) \/ SweepLost(sn))
      BY <2>5 DEF SweepFailed, SweepLost, Drop
    <3>5. ~(PrepareCharge /\ Head(inbox).sn = sn)
      BY <2>5 DEF PrepareCharge
    <3> QED BY <1>4, <3>1, <3>2, <3>3, <3>4, <3>5, OrderMoves
  <2> QED BY <2>1, <2>4, <2>5 DEF Backed
<1> QED BY <1>3, <1>4

LEMMA BackedInit == Init => BackedInv
<1> SUFFICES ASSUME Init, NEW sn \in Sns, ~PayIn(sn) PROVE CreditInv(sn)
  BY DEF BackedInv
<1>1. /\ orders[sn] = NoOrder /\ stmts[sn] = <<>> /\ results = <<>>
      /\ inbox = <<>> /\ outbox = <<>> /\ charged[sn] = 0
      /\ game[sn] = [st |-> "idle", cnt |-> 0]
  BY DEF Init
<1>2. Amounts(sn)
  BY <1>1 DEF Amounts, Live, Waiting
<1>3. Quoted(sn) /\ Asked(sn) /\ ~Promised(sn)
  BY <1>1 DEF Quoted, Asked, Promised, Asks, Settles, Replies
<1> QED BY <1>2, <1>3 DEF CreditInv

(* What the game server pays out for a charge is covered by money that the *)
(* platform keeps, whatever is repeated, lost or broken: but for a commit  *)
(* before the charge, one that the sweep overtook, and a second "charge    *)
(* everything" under the same number.                                      *)
THEOREM CreditCovered == Spec => []CreditBacked
<1>1. IInv /\ BackedInv /\ [Next]_vars => BackedInv'
  <2> SUFFICES ASSUME IInv, BackedInv, [Next]_vars,
                      NEW sn \in Sns \ (early' \cup overtaken' \cup renewed'),
                      ~PayIn(sn)
               PROVE  CreditInv(sn)'
    BY DEF BackedInv, PayIn
  <2>1. sn \in Sns \ (early \cup overtaken \cup renewed)
    BY EarlyGrows, HistoryGrows
  <2>2. TypeOK /\ CallsTrue /\ OneCharge(sn) /\ CreditInv(sn)
    BY <2>1 DEF IInv, BackedInv
  <2>3. Amounts(sn)'
    BY <2>2, AmountsStep DEF CreditInv
  <2>4. Quoted(sn)' /\ Asked(sn)'
    BY <2>2, QuotedStep, AskedStep DEF CreditInv
  <2>5. Promised(sn)' => Backed(sn)'
    BY <2>2, BackedStep
  <2> QED BY <2>3, <2>4, <2>5 DEF CreditInv
<1>2. IInv /\ BackedInv => CreditBacked
  <2> SUFFICES ASSUME IInv, BackedInv,
                      NEW sn \in Sns \ (early \cup overtaken \cup renewed),
                      ~PayIn(sn), game[sn].st = "done"
               PROVE  Credit(sn) <= kept[sn] + Held(sn)
    BY DEF CreditBacked, Credit
  <2>1. Backed(sn) /\ TypeOK
    BY DEF BackedInv, CreditInv, Promised, IInv
  <2>2. /\ kept[sn] \in Nat /\ Held(sn) \in Nat /\ Credit(sn) \in Nat
    BY <2>1, LedgerTypes, TradesAssumption DEF Credit, TypeOK
  <2>3. CASE Credit(sn) <= kept[sn]
    BY <2>2, <2>3
  <2>4. CASE Live(sn) /\ Credit(sn) <= orders[sn].value
    <3>1. Held(sn) = orders[sn].value
      BY <2>4 DEF Held
    <3> QED BY <2>2, <2>4, <3>1
  <2> QED BY <2>1, <2>3, <2>4 DEF Backed
<1> QED BY <1>1, <1>2, BackedInit, Invariance, PTL DEF Spec

=============================================================================
