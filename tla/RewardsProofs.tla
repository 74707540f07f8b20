--------------------------- MODULE RewardsProofs ---------------------------
(***************************************************************************)
(* Theorems about Rewards for every set of mails, presents and goods, any  *)
(* prices, limits and weeks, and every number of requests, faults, dealt   *)
(* presents and midnights.                                                 *)
(*                                                                         *)
(* They all rest on the same argument.  A request is in flight from its    *)
(* SELECT until its statements are executed.  While a row is not raced,    *)
(* one request at most is in flight on it (Alone), so what a callback      *)
(* decides on is still what the table says, and what it hands out is       *)
(* remembered by the row or by a statement that is on its way.             *)
(***************************************************************************)
EXTENDS Rewards, SumTheorems, TLAPS

-----------------------------------------------------------------------------
(* The invariants *)

Db == [mail : [Mails -> MailRow], slave : [SysMails -> MailRow],
       bag : [Presents -> 1 .. 2], sign : SignRow,
       num : [Goods -> Nat], numDay : [Goods -> Nat],
       frames : SUBSET Goods, acts : SUBSET Goods, vipDay : Nat]

Stages == {"queue", "batch", "got", "error", "ready", "done", "lost"}

LedgerType ==
  /\ given \in [Mails \cup Presents -> [Items -> Nat]]
  /\ failed \in [Mails -> [Items -> Nat]]
  /\ strayed \in [SysMails -> Nat] /\ issued \in [Presents -> Nat]
  /\ signed \in Nat /\ vips \in Nat /\ serials \in [1 .. 3 -> Nat]
  /\ bought \in [Goods -> Nat] /\ today \in [Goods -> Nat]
  /\ unserved \in [Currencies -> Nat] /\ sent \in [Currencies -> Nat]
  /\ used \in [Currencies -> Nat] /\ late \in BOOLEAN

(* The SELECTs that a request has before it are the last of its steps. *)
CallFits(c) ==
  LET steps == Steps(calls[c].req)
      todo == calls[c].todo
  IN  /\ Len(todo) <= Len(steps)
      /\ \A i \in DOMAIN todo : todo[i] = steps[Len(steps) - Len(todo) + i]
      /\ calls[c].st \in {"queue", "batch"} => todo # <<>>
      /\ calls[c].st = "got" => calls[c].seen /\ Len(todo) < Len(steps)
      /\ ~calls[c].seen => Len(todo) = Len(steps)

(* The kind of the statement says whose it is. *)
PutsFits(r, w) ==
  /\ w.kind = "read" => r.op = "detail" /\ w.mails = {r.at} /\ r.at \in OwnMails
  /\ w.kind = "drop" => w.mails \subseteq OwnMails /\ w.mails \subseteq Targets(r)
  /\ w.kind = "readSys" => r.op = "detail" /\ r.at \in SysMails
  /\ w.kind = "newSys" => r.op = "arrive" /\ w.mails \subseteq SysMails
  /\ w.kind = "takenSys" => r.op = "attach" /\ r.at \in SysMails
  /\ w.kind = "hideSys" => r.op = "deleteAll" /\ w.mails \subseteq SysMails
  /\ w.kind = "bag" => r.op = "present"
  /\ w.kind \in {"sign", "serial"} => r.op = "sign"
  /\ w.kind \in {"reset", "newSign"} => r.op = "signList"
  /\ w.kind \in {"num", "frame", "activity"} => r.op = "buy"
  /\ w.kind = "vip" => r.op = "vip"

WriteFits(w) ==
  /\ w \in Write /\ w.call \in InUse /\ calls[w.call].seen
  /\ calls[w.call].st = "done" \/ calls[w.call].req.op = "deleteAll"
  /\ PutsFits(calls[w.call].req, w)

(* The mails that were read to be written. *)
ImagesInv ==
  \A c \in InUse : calls[c].st = "got" =>
    /\ calls[c].req.op = "arrive" => calls[c].img.mails \subseteq SysMails
    /\ calls[c].req.op = "deleteAll" =>
         calls[c].img.mails \subseteq IF calls[c].todo = <<>> THEN SysMails ELSE OwnMails

CallsInv ==
  /\ calls \in Seq(Call) /\ Len(calls) <= MaxCalls
  /\ \A c \in InUse : CallFits(c)

WritesInv == \A w \in Pending : WriteFits(w)

ResultsInv ==
  /\ results \in Seq(InUse)
  /\ \A i, j \in DOMAIN results : results[i] = results[j] => i = j
  /\ \A i \in DOMAIN results : calls[results[i]].st \in {"got", "error"}

PlainInv ==
  /\ db \in Db /\ day \in Nat /\ bal \in [Currencies -> Nat]
  /\ faults \in 0 .. MaxFaults /\ LedgerType

(* No two requests are in flight on a row that is not raced. *)
Alone ==
  \A c, d \in InUse : c # d /\ InFlight(c) /\ InFlight(d) =>
    Targets(calls[c].req) \cap Targets(calls[d].req) \subseteq raced

BaseInv == CallsInv /\ ImagesInv /\ WritesInv /\ ResultsInv /\ PlainInv

-----------------------------------------------------------------------------
(* The operators *)

LEMMA RequestFacts ==
  ASSUME NEW r \in Requests
  PROVE  r.op \in Ops /\ r.n \in Nat /\ About(r)
BY RewardsAssumption

(* Which SELECTs a request makes. *)
StepFits(r, s) ==
  /\ s \in StepNames
  /\ s \in {"limit", "activity", "frame"} <=> r.op = "buy"
  /\ s \in {"own", "system"} <=> r.op = "deleteAll"
  /\ s \in {"mail", "slave"} <=> r.op = "delete" /\ r.at \in SysMails
  /\ r.op # "use"

LEMMA Optional ==
  ASSUME NEW S, NEW a \in BOOLEAN, NEW e \in S, NEW x, x = IF a THEN <<e>> ELSE <<>>
  PROVE  x \in Seq(S) /\ Len(x) = (IF a THEN 1 ELSE 0) /\ \A i \in 1 .. Len(x) : x[i] = e
<1>1. ASSUME a PROVE x \in Seq(S) /\ Len(x) = 1 /\ x[1] = e
  BY <1>1
<1>2. ASSUME ~a PROVE x \in Seq(S) /\ Len(x) = 0
  BY <1>2
<1>3. Len(x) = IF a THEN 1 ELSE 0
  BY <1>1, <1>2
<1> QED BY <1>1, <1>2, <1>3

LEMMA BuySteps ==
  ASSUME NEW r \in Requests, r.op = "buy"
  PROVE  /\ Steps(r) \in Seq(StepNames)
         /\ \A i \in DOMAIN Steps(r) : Steps(r)[i] \in {"limit", "activity", "frame"}
         /\ Limit[r.at] > 0 => \E i \in DOMAIN Steps(r) : Steps(r)[i] = "limit"
         /\ Activity[r.at] => \E i \in DOMAIN Steps(r) : Steps(r)[i] = "activity"
         /\ Frame[r.at] => \E i \in DOMAIN Steps(r) : Steps(r)[i] = "frame"
<1> DEFINE a == Limit[r.at] > 0
           b == Activity[r.at]
           d == Frame[r.at]
           s == Steps(r)
           x == IF a THEN <<"limit">> ELSE <<>>
           y == IF b THEN <<"activity">> ELSE <<>>
           z == IF d THEN <<"frame">> ELSE <<>>
<1>1. s = (x \o y) \o z
  BY DEF Steps
<1>2. a \in BOOLEAN /\ b \in BOOLEAN /\ d \in BOOLEAN
  BY RequestFacts, RewardsAssumption DEF About
<1>3. "limit" \in StepNames /\ "activity" \in StepNames /\ "frame" \in StepNames
  BY DEF StepNames
<1> HIDE DEF a, b, d, s
<1>4. x \in Seq(StepNames) /\ Len(x) = (IF a THEN 1 ELSE 0) /\ \A i \in 1 .. Len(x) : x[i] = "limit"
  BY <1>2, <1>3, Optional
<1>5. y \in Seq(StepNames) /\ Len(y) = (IF b THEN 1 ELSE 0) /\ \A i \in 1 .. Len(y) : y[i] = "activity"
  BY <1>2, <1>3, Optional
<1>6. z \in Seq(StepNames) /\ Len(z) = (IF d THEN 1 ELSE 0) /\ \A i \in 1 .. Len(z) : z[i] = "frame"
  BY <1>2, <1>3, Optional
<1> HIDE DEF x, y, z
<1>7. s \in Seq(StepNames) /\ Len(s) = Len(x) + Len(y) + Len(z)
  BY <1>1, <1>4, <1>5, <1>6
<1>8. \A i \in 1 .. Len(s) : s[i] = IF i <= Len(x) THEN "limit"
                                    ELSE IF i <= Len(x) + Len(y) THEN "activity" ELSE "frame"
  BY <1>1, <1>4, <1>5, <1>6, <1>7
<1>9. DOMAIN s = 1 .. Len(s)
  BY <1>7
<1>10. a => s[1] = "limit" /\ 1 \in 1 .. Len(s)
  BY <1>4, <1>5, <1>6, <1>7, <1>8
<1>11. b => s[Len(x) + 1] = "activity" /\ Len(x) + 1 \in 1 .. Len(s)
  BY <1>4, <1>5, <1>6, <1>7, <1>8
<1>12. d => s[Len(s)] = "frame" /\ Len(s) \in 1 .. Len(s)
  BY <1>4, <1>5, <1>6, <1>7, <1>8
<1>13. /\ s \in Seq(StepNames)
       /\ \A i \in DOMAIN s : s[i] \in {"limit", "activity", "frame"}
       /\ a => \E i \in DOMAIN s : s[i] = "limit"
       /\ b => \E i \in DOMAIN s : s[i] = "activity"
       /\ d => \E i \in DOMAIN s : s[i] = "frame"
  BY <1>7, <1>8, <1>9, <1>10, <1>11, <1>12
<1> QED BY <1>13 DEF a, b, d, s

LEMMA OtherSteps ==
  ASSUME NEW r \in Requests, r.op # "buy"
  PROVE  /\ Steps(r) \in Seq(StepNames)
         /\ r.op = "deleteAll" => Len(Steps(r)) = 2 /\ Steps(r)[1] = "own" /\ Steps(r)[2] = "system"
         /\ r.op \notin {"deleteAll", "send", "sendPwd", "delete", "use"} => Len(Steps(r)) = 1
         /\ r.op \in {"send", "sendPwd"} => Len(Steps(r)) > 1
         /\ \A i \in DOMAIN Steps(r) : StepFits(r, Steps(r)[i])
<1>0. r.op \in Ops
  BY RequestFacts
<1>2. ASSUME r.op = "send" PROVE Steps(r) = <<"friend", "barred", "friendBarred">>
  BY <1>2 DEF Steps
<1>3. ASSUME r.op = "sendPwd" PROVE Steps(r) = <<"password", "friend", "barred", "friendBarred">>
  BY <1>3 DEF Steps
<1>4. ASSUME r.op = "use" PROVE Steps(r) = <<>>
  BY <1>4 DEF Steps
<1>5. ASSUME r.op = "deleteAll" PROVE Steps(r) = <<"own", "system">>
  BY <1>5 DEF Steps
<1>6. ASSUME r.op = "delete" /\ r.at \in SysMails PROVE Steps(r) = <<"mail", "slave">>
  BY <1>6 DEF Steps
<1>7. ASSUME r.op \notin {"buy", "send", "sendPwd", "use", "deleteAll"},
             ~(r.op = "delete" /\ r.at \in SysMails)
      PROVE  Steps(r) = <<"row">>
  BY <1>7 DEF Steps
<1> DEFINE Goal(s) ==
         /\ s \in Seq(StepNames)
         /\ r.op = "deleteAll" => Len(s) = 2 /\ s[1] = "own" /\ s[2] = "system"
         /\ r.op \notin {"deleteAll", "send", "sendPwd", "delete", "use"} => Len(s) = 1
         /\ r.op \in {"send", "sendPwd"} => Len(s) > 1
         /\ \A i \in DOMAIN s : StepFits(r, s[i])
<1>12. ASSUME r.op = "send" PROVE Goal(<<"friend", "barred", "friendBarred">>)
  <2> DEFINE s == <<"friend", "barred", "friendBarred">>
  <2>1. s \in Seq(StepNames)
    BY DEF StepNames
  <2>2. \A i \in DOMAIN s : StepFits(r, s[i])
    BY <1>12 DEF StepFits, StepNames
  <2> QED BY <1>12, <2>1, <2>2
<1>13. ASSUME r.op = "sendPwd" PROVE Goal(<<"password", "friend", "barred", "friendBarred">>)
  <2> DEFINE s == <<"password", "friend", "barred", "friendBarred">>
  <2>1. s \in Seq(StepNames)
    BY DEF StepNames
  <2>2. \A i \in DOMAIN s : StepFits(r, s[i])
    BY <1>13 DEF StepFits, StepNames
  <2> QED BY <1>13, <2>1, <2>2
<1>14. ASSUME r.op = "use" PROVE Goal(<<>>)
  BY <1>14
<1>15. ASSUME r.op = "deleteAll" PROVE Goal(<<"own", "system">>)
  <2> DEFINE s == <<"own", "system">>
  <2>1. s \in Seq(StepNames)
    BY DEF StepNames
  <2>2. \A i \in DOMAIN s : StepFits(r, s[i])
    BY <1>15 DEF StepFits, StepNames
  <2> QED BY <1>15, <2>1, <2>2
<1>16. ASSUME r.op = "delete" /\ r.at \in SysMails PROVE Goal(<<"mail", "slave">>)
  <2> DEFINE s == <<"mail", "slave">>
  <2>1. s \in Seq(StepNames)
    BY DEF StepNames
  <2>2. \A i \in DOMAIN s : StepFits(r, s[i])
    BY <1>16 DEF StepFits, StepNames
  <2> QED BY <1>16, <2>1, <2>2
<1>17. ASSUME r.op \notin {"buy", "send", "sendPwd", "use", "deleteAll"},
             ~(r.op = "delete" /\ r.at \in SysMails)
       PROVE Goal(<<"row">>)
  <2> DEFINE s == <<"row">>
  <2>1. s \in Seq(StepNames)
    BY DEF StepNames
  <2>2. \A i \in DOMAIN s : StepFits(r, s[i])
    BY <1>17 DEF StepFits, StepNames
  <2> QED BY <1>17, <2>1, <2>2
<1>20. Goal(Steps(r))
  <2> HIDE DEF Goal
  <2> QED BY <1>2, <1>3, <1>4, <1>5, <1>6, <1>7, <1>12, <1>13, <1>14, <1>15, <1>16, <1>17
<1> QED BY <1>20

LEMMA StepsType ==
  ASSUME NEW r \in Requests
  PROVE  /\ Steps(r) \in Seq(StepNames)
         /\ \A i \in DOMAIN Steps(r) : StepFits(r, Steps(r)[i])
<1>1. ASSUME r.op = "buy" PROVE \A i \in DOMAIN Steps(r) : StepFits(r, Steps(r)[i])
  <2> SUFFICES ASSUME NEW i \in DOMAIN Steps(r) PROVE StepFits(r, Steps(r)[i])
    OBVIOUS
  <2>1. Steps(r)[i] \in {"limit", "activity", "frame"}
    BY <1>1, BuySteps
  <2> QED BY <1>1, <2>1 DEF StepFits, StepNames
<1> QED BY <1>1, BuySteps, OtherSteps

(* What a SELECT returns is an image. *)
LEMMA ImageType ==
  ASSUME db \in Db, day \in Nat, NEW r \in Requests, NEW s, StepFits(r, s)
  PROVE  ImageOf(r, s) \in Image
<1>0. r.op \in Ops /\ About(r) /\ r.n \in Nat
  BY RequestFacts
<1>1. NoImage \in Image
  BY DEF NoImage, Image, NoMail, MailRow, NoSign, SignRow
<1>2. \A ms \in SUBSET Mails : [NoImage EXCEPT !.mails = ms] \in Image
  BY <1>1 DEF Image, NoImage
<1>3. \A row \in MailRow : [NoImage EXCEPT !.mail = row] \in Image
  BY <1>1 DEF Image, NoImage
<1>4. \A n \in Nat : [NoImage EXCEPT !.n = n] \in Image
  BY <1>1 DEF Image, NoImage
<1>5. \A row \in SignRow, n \in Nat : [NoImage EXCEPT !.sign = row, !.n = n] \in Image
  BY <1>1 DEF Image, NoImage
<1>6. /\ db.mail \in [Mails -> MailRow] /\ db.slave \in [SysMails -> MailRow]
      /\ db.bag \in [Presents -> 1 .. 2] /\ db.sign \in SignRow /\ db.num \in [Goods -> Nat]
  BY DEF Db
<1> HIDE DEF NoImage
<1>7. ASSUME s \in {"own", "system"} PROVE ImageOf(r, s) \in Image
  <2> DEFINE own == {m \in OwnMails : Deletable(db.mail[m])}
             sys == {m \in SysMails : Deletable(db.slave[m])}
  <2>1. own \in SUBSET Mails /\ sys \in SUBSET Mails
    BY DEF Mails
  <2>2. s = "own" => ImageOf(r, s) = [NoImage EXCEPT !.mails = own]
    BY DEF ImageOf, StepFits
  <2>3. s = "system" => ImageOf(r, s) = [NoImage EXCEPT !.mails = sys]
    BY DEF ImageOf, StepFits
  <2> HIDE DEF own, sys
  <2> QED BY <1>2, <1>7, <2>1, <2>2, <2>3
<1>8. ASSUME s = "slave" PROVE ImageOf(r, s) \in Image
  <2>1. db.slave[r.at] \in MailRow
    BY <1>6, <1>8 DEF StepFits
  <2>2. ImageOf(r, s) = [NoImage EXCEPT !.mail = db.slave[r.at]]
    BY <1>8 DEF ImageOf, StepFits
  <2> QED BY <1>3, <2>1, <2>2
<1>9. ASSUME s \in {"limit", "activity", "frame"} PROVE ImageOf(r, s) \in Image
  <2> DEFINE num == IF db.numDay[r.at] = day THEN db.num[r.at] ELSE 0
             one == IF r.at \in db.frames THEN 1 ELSE 0
             act == IF r.at \in db.acts THEN 1 ELSE 0
  <2>1. num \in Nat /\ one \in Nat /\ act \in Nat
    BY <1>0, <1>6, <1>9 DEF StepFits, About
  <2>2. s = "limit" => ImageOf(r, s) = [NoImage EXCEPT !.n = num]
    BY DEF ImageOf, StepFits
  <2>3. s = "frame" => ImageOf(r, s) = [NoImage EXCEPT !.n = one]
    BY DEF ImageOf, StepFits
  <2>4. s = "activity" => ImageOf(r, s) = [NoImage EXCEPT !.n = act]
    BY DEF ImageOf, StepFits
  <2> HIDE DEF num, one, act
  <2> QED BY <1>4, <1>9, <2>1, <2>2, <2>3, <2>4
<1>10. ASSUME s \notin {"own", "system", "slave", "limit", "activity", "frame"}
       PROVE  ImageOf(r, s) \in Image
  <2>1. ASSUME r.op \in {"send", "sendPwd"} PROVE ImageOf(r, s) \in Image
    BY <1>1, <1>10, <2>1 DEF ImageOf
  <2>2. ASSUME r.op = "arrive" PROVE ImageOf(r, s) \in Image
    <3> DEFINE new == {m \in SysMails : ~db.slave[m].there}
    <3>1. new \in SUBSET Mails
      BY DEF Mails
    <3>2. ImageOf(r, s) = [NoImage EXCEPT !.mails = new]
      BY <1>10, <2>2 DEF ImageOf
    <3> HIDE DEF new
    <3> QED BY <1>2, <3>1, <3>2
  <2>3. ASSUME r.op = "present" PROVE ImageOf(r, s) \in Image
    <3>1. db.bag[r.at] \in Nat
      BY <1>0, <1>6, <2>3 DEF About
    <3>2. ImageOf(r, s) = [NoImage EXCEPT !.n = db.bag[r.at]]
      BY <1>10, <2>3 DEF ImageOf
    <3> QED BY <1>4, <3>1, <3>2
  <2>4. ASSUME r.op \in {"sign", "signList"} PROVE ImageOf(r, s) \in Image
    <3>1. ImageOf(r, s) = [NoImage EXCEPT !.sign = db.sign, !.n = day]
      BY <1>10, <2>4 DEF ImageOf
    <3> QED BY <1>5, <1>6, <3>1
  <2>5. ASSUME r.op = "vip" PROVE ImageOf(r, s) \in Image
    <3> DEFINE one == IF db.vipDay = day THEN 1 ELSE 0
    <3>1. one \in Nat
      OBVIOUS
    <3>2. ImageOf(r, s) = [NoImage EXCEPT !.n = one]
      BY <1>10, <2>5 DEF ImageOf
    <3> HIDE DEF one
    <3> QED BY <1>4, <3>1, <3>2
  <2>6. ASSUME r.op \in {"detail", "delete", "attach"} PROVE ImageOf(r, s) \in Image
    <3> DEFINE row == IF r.at \in SysMails THEN SysRow(r.at) ELSE db.mail[r.at]
    <3>1. row \in MailRow
      BY <1>0, <1>6, <2>6 DEF About, SysRow
    <3>2. ImageOf(r, s) = [NoImage EXCEPT !.mail = row]
      BY <1>10, <2>6 DEF ImageOf
    <3> HIDE DEF row
    <3> QED BY <1>3, <3>1, <3>2
  <2> QED BY <1>0, <1>10, <2>1, <2>2, <2>3, <2>4, <2>5, <2>6 DEF Ops, StepFits
<1> QED BY <1>7, <1>8, <1>9, <1>10

(* The request c goes on to the stage s. *)
Sets(c, s) == calls' = [calls EXCEPT ![c].st = s]

LEMMA SetsPuts ==
  ASSUME calls \in Seq(Call), NEW c \in InUse, NEW s \in Stages, Sets(c, s)
  PROVE  /\ calls' \in Seq(Call) /\ Len(calls') = Len(calls) /\ InUse' = InUse
         /\ calls'[c].st = s
         /\ \A d \in InUse : /\ calls'[d].req = calls[d].req /\ calls'[d].todo = calls[d].todo
                             /\ calls'[d].seen = calls[d].seen /\ calls'[d].img = calls[d].img
                             /\ d # c => calls'[d].st = calls[d].st
<1>1. calls[c] \in Call
  BY DEF InUse
<1>2. [calls[c] EXCEPT !.st = s] \in Call
  BY <1>1 DEF Call, Stages
<1>3. calls' = [calls EXCEPT ![c] = [calls[c] EXCEPT !.st = s]]
  BY DEF Sets
<1>4. calls'[c] = [calls[c] EXCEPT !.st = s]
  BY <1>3 DEF InUse
<1>5. /\ calls' \in Seq(Call) /\ Len(calls') = Len(calls) /\ InUse' = InUse
      /\ \A d \in InUse \ {c} : calls'[d] = calls[d]
  <2> DEFINE v == [calls[c] EXCEPT !.st = s]
  <2> HIDE DEF v
  <2> QED BY <1>2, <1>3 DEF InUse, v
<1>6. /\ calls'[c].st = s /\ calls'[c].req = calls[c].req /\ calls'[c].todo = calls[c].todo
      /\ calls'[c].seen = calls[c].seen /\ calls'[c].img = calls[c].img
  BY <1>1, <1>4 DEF Call
<1> QED BY <1>5, <1>6

(* The tables after a statement. *)
LEMMA AppliedFields ==
  ASSUME db \in Db, NEW w
  PROVE  LET t == Applied(w)
             at == calls[w.call].req.at
             n == calls[w.call].req.n
         IN  w.kind \in Kinds =>
             /\ t.mail = CASE w.kind = "read" -> SetState(db.mail, w.mails, 1)
                           [] w.kind = "drop" -> [m \in Mails |-> IF m \in w.mails THEN NoMail
                                                                  ELSE db.mail[m]]
                           [] OTHER -> db.mail
             /\ w.kind \notin {"readSys", "newSys", "takenSys", "hideSys"} => t.slave = db.slave
             /\ t.bag = IF w.kind = "bag" THEN [db.bag EXCEPT ![at] = 2] ELSE db.bag
             /\ w.kind \notin {"sign", "serial", "reset", "newSign"} => t.sign = db.sign
             /\ t.num = IF w.kind = "num"
                        THEN [db.num EXCEPT ![at] = IF db.numDay[at] = day THEN db.num[at] + n ELSE n]
                        ELSE db.num
             /\ t.numDay = IF w.kind = "num" THEN [db.numDay EXCEPT ![at] = day] ELSE db.numDay
             /\ t.frames = IF w.kind = "frame" THEN db.frames \cup {at} ELSE db.frames
             /\ t.acts = IF w.kind = "activity" THEN db.acts \cup {at} ELSE db.acts
             /\ t.vipDay = IF w.kind = "vip" THEN day ELSE db.vipDay
BY DEF Applied, Kinds, Db

-----------------------------------------------------------------------------
(* What the actions do to the requests, their results and the queue *)

(* A callback takes the first result; the request ends, goes on to its     *)
(* next SELECT, or waits for the next round of the main loop.              *)
Answers(c) ==
  /\ Polled(c) /\ results' = Tail(results) /\ batch' = batch /\ queue \subseteq queue'
  /\ calls[c].st \in {"got", "error"}
  /\ \/ Sets(c, "done")
     \/ Sets(c, "ready") /\ (TransRead(c) \/ (DeleteAll(c) /\ calls[c].todo # <<>>))
     \/ Sets(c, "queue") /\ NextSelect(c)

LEMMA CallbackAnswers ==
  ASSUME NEW c \in InUse, Callback(c)
  PROVE  Answers(c)
<1>1. ASSUME CallbackError(c) \/ NextSelect(c) \/ TransRead(c) PROVE Answers(c)
  BY <1>1 DEF CallbackError, NextSelect, TransRead, Answers, Sets
<1>2. ASSUME Detail(c) \/ DeleteOwn(c) \/ DeleteSys(c) \/ Arrive(c) PROVE Answers(c)
  BY <1>2 DEF Detail, DeleteOwn, DeleteSys, Arrive, Decides, Done, Answers, Sets
<1>3. ASSUME AttachRefuse(c) \/ AttachOwn(c) \/ AttachSys(c) \/ Vip(c) PROVE Answers(c)
  BY <1>3 DEF AttachRefuse, AttachOwn, AttachSys, Vip, Decides, Done, Answers, Sets
<1>4. ASSUME PresentRefuse(c) \/ Present(c) \/ PresentBroken(c) \/ SignList(c) PROVE Answers(c)
  BY <1>4 DEF PresentRefuse, Present, PresentBroken, SignList, Decides, Done, Answers, Sets
<1>5. ASSUME DeleteAll(c) PROVE Answers(c)
  BY <1>5 DEF DeleteAll, Answers, Sets
<1> QED BY <1>1, <1>2, <1>3, <1>4, <1>5 DEF Callback

(* A step of a transaction ends the request, or puts its next SELECT. *)
Proceeds(c) ==
  /\ calls[c].st = "ready" /\ results' = results
  /\ batch' = batch /\ queue \subseteq queue'
  /\ \/ Sets(c, "done") /\ calls[c].todo = <<>>
     \/ Sets(c, "queue") /\ TransNext(c)

LEMMA StepProceeds ==
  ASSUME NEW c \in InUse, Step(c)
  PROVE  Proceeds(c)
<1>1. ASSUME TransNext(c) PROVE Proceeds(c)
  BY <1>1 DEF TransNext, Proceeds, Sets, sqlVars
<1>2. ASSUME SignRefuse(c) \/ Sign(c) \/ Serial(c) \/ SignBroken(c) PROVE Proceeds(c)
  BY <1>2 DEF SignRefuse, Sign, Serial, SignBroken, Runs, Done, Proceeds, Sets
<1>3. ASSUME Buy(c) \/ BuyByActivity(c) PROVE Proceeds(c)
  BY <1>3 DEF Buy, BuyByActivity, Purchase, Paid, Runs, Done, Proceeds, Sets
<1>4. ASSUME BuyRefused(c) \/ BuyBroken(c) PROVE Proceeds(c)
  BY <1>4 DEF BuyRefused, BuyBroken, Paid, Runs, Done, Proceeds, Sets
<1>5. ASSUME ItemRefused(c) \/ Use(c) \/ Send(c) PROVE Proceeds(c)
  BY <1>5 DEF ItemRefused, Use, Send, Runs, Done, Proceeds, Sets
<1> QED BY <1>1, <1>2, <1>3, <1>4, <1>5 DEF Step

(* The statement w that the request c puts on the queue. *)
Puts(c, w) ==
  LET r == calls[c].req
      img == calls[c].img
  IN  \/ /\ Detail(c) /\ ~DetailRefused(c) /\ img.mail.state = 0
         /\ w = Wr(c, IF r.at \in SysMails THEN "readSys" ELSE "read", {r.at}, NoSign)
      \/ /\ DeleteOwn(c) /\ r.at \notin ForeignMails /\ Deletable(img.mail)
         /\ w = Wr(c, "drop", {r.at}, NoSign)
      \/ AttachOwn(c) /\ w = Wr(c, "drop", {r.at}, NoSign)
      \/ /\ DeleteAll(c)
         /\ w = Wr(c, IF calls[c].todo = <<>> THEN "hideSys" ELSE "drop", img.mails, NoSign)
      \/ AttachSys(c) /\ w = Wr(c, "takenSys", {r.at}, NoSign)
      \/ Arrive(c) /\ w = Wr(c, "newSys", img.mails, NoSign)
      \/ Present(c) /\ w = Wr(c, "bag", {}, NoSign)
      \/ Vip(c) /\ img.n = 0 /\ w = Wr(c, "vip", {}, NoSign)
      \/ SignList(c) /\ w = Wr(c, "newSign", {}, NoSign)
      \/ SignList(c) /\ img.sign.there /\ w = Wr(c, "reset", {}, NoSign)
      \/ Sign(c) /\ w = Wr(c, "sign", {}, SignedRow(img))
      \/ Serial(c) /\ w = Wr(c, "serial", {}, TakenWith(c))
      \/ Buy(c) /\ Limit[r.at] > 0 /\ w = Wr(c, "num", {}, NoSign)
      \/ BuyByActivity(c) /\ Logged(r.at) /\ w = Wr(c, "activity", {}, NoSign)
      \/ (Buy(c) \/ BuyByActivity(c)) /\ Frame[r.at] /\ w = Wr(c, "frame", {}, NoSign)

LEMMA CallbackPuts ==
  ASSUME NEW c \in InUse, Callback(c), NEW w \in queue' \ queue
  PROVE  Puts(c, w)
<1>1. ~(CallbackError(c) \/ NextSelect(c) \/ TransRead(c))
  BY DEF CallbackError, NextSelect, TransRead
<1>2. ~(DeleteSys(c) \/ AttachRefuse(c) \/ PresentRefuse(c) \/ PresentBroken(c))
  BY DEF DeleteSys, AttachRefuse, PresentRefuse, PresentBroken, Done
<1>3. ASSUME Detail(c) PROVE Puts(c, w)
  BY <1>3 DEF Detail, Done, Puts
<1>4. ASSUME DeleteOwn(c) PROVE Puts(c, w)
  BY <1>4 DEF DeleteOwn, Done, Puts
<1>5. ASSUME DeleteAll(c) PROVE Puts(c, w)
  BY <1>5 DEF DeleteAll, Puts
<1>6. ASSUME AttachOwn(c) PROVE Puts(c, w)
  BY <1>6 DEF AttachOwn, Done, Puts
<1>7. ASSUME AttachSys(c) PROVE Puts(c, w)
  BY <1>7 DEF AttachSys, Done, Puts
<1>8. ASSUME Arrive(c) PROVE Puts(c, w)
  BY <1>8 DEF Arrive, Done, Puts
<1>9. ASSUME Present(c) PROVE Puts(c, w)
  BY <1>9 DEF Present, Done, Puts
<1>10. ASSUME Vip(c) PROVE Puts(c, w)
  BY <1>10 DEF Vip, Done, Puts
<1>11. ASSUME SignList(c) PROVE Puts(c, w)
  BY <1>11 DEF SignList, Done, Puts
<1> QED BY <1>1, <1>2, <1>3, <1>4, <1>5, <1>6, <1>7, <1>8, <1>9, <1>10, <1>11 DEF Callback

LEMMA StepPuts ==
  ASSUME NEW c \in InUse, Step(c), NEW w \in queue' \ queue
  PROVE  Puts(c, w)
<1>1. ~(TransNext(c) \/ SignRefuse(c) \/ SignBroken(c))
  BY DEF TransNext, SignRefuse, SignBroken, Done, sqlVars
<1>2. ~(BuyRefused(c) \/ BuyBroken(c))
  BY DEF BuyRefused, BuyBroken, Done
<1>3. ~(ItemRefused(c) \/ Use(c) \/ Send(c))
  BY DEF ItemRefused, Use, Send, Done
<1>4. ASSUME Sign(c) PROVE Puts(c, w)
  BY <1>4 DEF Sign, Done, Puts
<1>5. ASSUME Serial(c) PROVE Puts(c, w)
  BY <1>5 DEF Serial, Done, Puts
<1>6. ASSUME Buy(c) PROVE Puts(c, w)
  BY <1>6 DEF Buy, Purchase, Done, Puts
<1>7. ASSUME BuyByActivity(c) PROVE Puts(c, w)
  BY <1>7 DEF BuyByActivity, Purchase, Done, Puts
<1> QED BY <1>1, <1>2, <1>3, <1>4, <1>5, <1>6, <1>7 DEF Step

(* The requests as the next state has them. *)
LEMMA CallMoves ==
  ASSUME CallsInv, ResultsInv, [Next]_vars, NEW d \in InUse
  PROVE  /\ d \in InUse' /\ calls'[d].req = calls[d].req
         /\ \/ ExecSelect(d)
            \/ /\ calls'[d].todo = calls[d].todo /\ calls'[d].seen = calls[d].seen
               /\ calls'[d].img = calls[d].img
               /\ calls'[d].st = "got" => calls[d].st = "got"
         /\ calls'[d].st = "ready" => calls[d].st = "ready" \/ TransRead(d)
                                      \/ (DeleteAll(d) /\ calls[d].todo # <<>>)
         /\ calls'[d].st = "queue" => \/ calls[d].st = "queue"
                                      \/ TransNext(d) \/ NextSelect(d)
         /\ calls'[d].st = "batch" => calls[d].st \in {"queue", "batch"}
         /\ calls[d].st = "done" => calls'[d].st = "done"
         /\ calls[d].st = "lost" => calls'[d].st = "lost"
<1> DEFINE Goal ==
         /\ d \in InUse' /\ calls'[d].req = calls[d].req
         /\ \/ ExecSelect(d)
            \/ /\ calls'[d].todo = calls[d].todo /\ calls'[d].seen = calls[d].seen
               /\ calls'[d].img = calls[d].img
               /\ calls'[d].st = "got" => calls[d].st = "got"
         /\ calls'[d].st = "ready" => calls[d].st = "ready" \/ TransRead(d)
                                      \/ (DeleteAll(d) /\ calls[d].todo # <<>>)
         /\ calls'[d].st = "queue" => \/ calls[d].st = "queue"
                                      \/ TransNext(d) \/ NextSelect(d)
         /\ calls'[d].st = "batch" => calls[d].st \in {"queue", "batch"}
         /\ calls[d].st = "done" => calls'[d].st = "done"
         /\ calls[d].st = "lost" => calls'[d].st = "lost"
<1>0. calls \in Seq(Call) /\ calls[d] \in Call
  BY DEF CallsInv, InUse
<1>1. ASSUME calls' = calls PROVE Goal
  BY <1>1 DEF InUse
<1>2. ASSUME NEW r \in Requests, Start(r) PROVE Goal
  <2>1. calls' = Append(calls, [req |-> r, todo |-> Steps(r), seen |-> FALSE,
                                st |-> IF Steps(r) = <<>> THEN "ready" ELSE "queue",
                                img |-> NoImage])
    BY <1>2 DEF Start
  <2>2. InUse' = 1 .. Len(calls) + 1 /\ calls'[d] = calls[d]
    BY <1>0, <2>1 DEF InUse
  <2> QED BY <1>0, <2>2 DEF InUse
<1>3. ASSUME TakeBatch \/ DbGone PROVE Goal
  <2>1. ASSUME TakeBatch PROVE Goal
    BY <1>0, <2>1 DEF TakeBatch, InUse, Call
  <2>2. ASSUME DbGone PROVE Goal
    BY <1>0, <2>2 DEF DbGone, InUse, Call
  <2> QED BY <1>3, <2>1, <2>2
<1>4. ASSUME Kill PROVE Goal
  BY <1>0, <1>4 DEF Kill, InUse, Call
<1>5. ASSUME NEW c \in InUse, ExecSelect(c) PROVE Goal
  <2>1. c = d => ExecSelect(d) /\ d \in InUse' /\ calls'[d].req = calls[d].req
                 /\ calls'[d].st = "got" /\ calls[d].st = "batch"
    BY <1>0, <1>5 DEF ExecSelect, InUse, Call
  <2>2. c # d => calls'[d] = calls[d] /\ d \in InUse'
    BY <1>0, <1>5 DEF ExecSelect, InUse
  <2> QED BY <2>1, <2>2
<1>6. ASSUME NEW c \in InUse, ExecSelectFail(c) PROVE Goal
  <2>1. Sets(c, "error") /\ calls[c].st = "batch"
    BY <1>6 DEF ExecSelectFail, Sets
  <2>2. "error" \in Stages
    BY DEF Stages
  <2> QED BY <1>0, <2>1, <2>2, SetsPuts
<1>7. ASSUME NEW c \in InUse, Callback(c) PROVE Goal
  <2>1. Answers(c)
    BY <1>7, CallbackAnswers
  <2>2. {"done", "ready", "queue"} \subseteq Stages
    BY DEF Stages
  <2>3. PICK s \in {"done", "ready", "queue"} :
          /\ Sets(c, s) /\ calls[c].st \in {"got", "error"}
          /\ s = "ready" => TransRead(c) \/ (DeleteAll(c) /\ calls[c].todo # <<>>)
          /\ s = "queue" => NextSelect(c)
    BY <2>1 DEF Answers
  <2>4. s \in Stages
    BY <2>2, <2>3
  <2> QED BY <1>0, <2>3, <2>4, SetsPuts
<1>8. ASSUME NEW c \in InUse, Step(c) PROVE Goal
  <2>1. Proceeds(c)
    BY <1>8, StepProceeds
  <2>2. {"done", "queue"} \subseteq Stages
    BY DEF Stages
  <2>3. PICK s \in {"done", "queue"} :
          Sets(c, s) /\ calls[c].st = "ready" /\ (s = "queue" => TransNext(c))
    BY <2>1 DEF Proceeds
  <2>4. s \in Stages
    BY <2>2, <2>3
  <2> QED BY <1>0, <2>3, <2>4, SetsPuts
<1>9. ASSUME NEW w \in batch, ExecWrite(w) \/ ExecWriteFail(w) PROVE calls' = calls
  BY <1>9 DEF ExecWrite, ExecWriteFail
<1>10. ASSUME NEW p \in Presents, Issue(p) PROVE calls' = calls
  BY <1>10 DEF Issue
<1>11. ASSUME NextDay \/ UNCHANGED vars PROVE calls' = calls
  BY <1>11 DEF NextDay, vars
<1>12. Goal
  <2> HIDE DEF Goal
  <2> QED BY <1>1, <1>2, <1>3, <1>4, <1>5, <1>6, <1>7, <1>8, <1>9, <1>10, <1>11 DEF Next
<1> QED BY <1>12

(* A request that is new. *)
LEMMA NewCall ==
  ASSUME CallsInv, ResultsInv, [Next]_vars, NEW d \in InUse', d \notin InUse
  PROVE  \E r \in Requests :
           /\ Start(r) /\ d = Len(calls) + 1
           /\ calls'[d].req = r /\ calls'[d].todo = Steps(r) /\ calls'[d].seen = FALSE
           /\ calls'[d].st = IF Steps(r) = <<>> THEN "ready" ELSE "queue"
           /\ calls'[d].img = NoImage
<1>0. calls \in Seq(Call)
  BY DEF CallsInv
<1>1. ASSUME NEW r \in Requests, Start(r)
      PROVE  /\ d = Len(calls) + 1
             /\ calls'[d].req = r /\ calls'[d].todo = Steps(r) /\ calls'[d].seen = FALSE
             /\ calls'[d].st = IF Steps(r) = <<>> THEN "ready" ELSE "queue"
             /\ calls'[d].img = NoImage
  <2> DEFINE new == [req |-> r, todo |-> Steps(r), seen |-> FALSE,
                     st |-> IF Steps(r) = <<>> THEN "ready" ELSE "queue", img |-> NoImage]
  <2>1. calls' = Append(calls, new)
    BY <1>1 DEF Start
  <2>2. /\ new.req = r /\ new.todo = Steps(r) /\ new.seen = FALSE
        /\ new.st = IF Steps(r) = <<>> THEN "ready" ELSE "queue"
        /\ new.img = NoImage
    OBVIOUS
  <2> HIDE DEF new
  <2>3. InUse' = 1 .. Len(calls) + 1 /\ calls'[Len(calls) + 1] = new
    BY <1>0, <2>1 DEF InUse
  <2>4. d = Len(calls) + 1
    BY <1>0, <2>3 DEF InUse
  <2> QED BY <2>2, <2>3, <2>4
<1>2. ASSUME TakeBatch \/ DbGone \/ Kill PROVE InUse' = InUse
  <2>1. \A x \in InUse' : x \in InUse
    BY <1>0, <1>2 DEF TakeBatch, DbGone, Kill, InUse
  <2>2. \A x \in InUse : x \in InUse'
    BY <1>0, <1>2 DEF TakeBatch, DbGone, Kill, InUse
  <2> QED BY <2>1, <2>2
<1>3. ASSUME NEW c \in InUse, ExecSelect(c) \/ ExecSelectFail(c) PROVE InUse' = InUse
  BY <1>0, <1>3 DEF ExecSelect, ExecSelectFail, InUse
<1>4. ASSUME NEW c \in InUse, Callback(c) \/ Step(c) PROVE InUse' = InUse
  <2>1. \E s : Sets(c, s)
    BY <1>4, CallbackAnswers, StepProceeds DEF Answers, Proceeds
  <2> QED BY <1>0, <2>1 DEF Sets, InUse
<1>5. ASSUME NEW w \in batch, ExecWrite(w) \/ ExecWriteFail(w) PROVE InUse' = InUse
  BY <1>5 DEF ExecWrite, ExecWriteFail, InUse
<1>6. ASSUME NEW p \in Presents, Issue(p) PROVE InUse' = InUse
  BY <1>6 DEF Issue, InUse
<1>7. ASSUME NextDay \/ UNCHANGED vars PROVE InUse' = InUse
  BY <1>7 DEF NextDay, vars, InUse
<1>8. \E r \in Requests : Start(r)
  BY <1>2, <1>3, <1>4, <1>5, <1>6, <1>7 DEF Next
<1> QED BY <1>1, <1>8

(* What a SELECT does to its request. *)
LEMMA ReadPuts ==
  ASSUME CallsInv, NEW c \in InUse, ExecSelect(c)
  PROVE  /\ calls[c].st = "batch" /\ calls'[c].st = "got" /\ calls'[c].seen = TRUE
         /\ calls[c].todo # <<>>
         /\ calls'[c].req = calls[c].req /\ calls'[c].todo = Tail(calls[c].todo)
         /\ calls'[c].img = ImageOf(calls[c].req, Head(calls[c].todo))
         /\ StepFits(calls[c].req, Head(calls[c].todo))
         /\ LET steps == Steps(calls[c].req)
            IN  /\ Len(steps) - Len(calls[c].todo) \in Nat
                /\ Head(calls[c].todo) = steps[Len(steps) - Len(calls[c].todo) + 1]
                /\ Len(calls'[c].todo) = Len(calls[c].todo) - 1
<1> DEFINE steps == Steps(calls[c].req)
           todo == calls[c].todo
<1>0. calls \in Seq(Call) /\ calls[c] \in Call /\ CallFits(c)
  BY DEF CallsInv, InUse
<1>1. /\ calls[c].st = "batch" /\ calls'[c].st = "got" /\ calls'[c].seen = TRUE
      /\ calls'[c].req = calls[c].req /\ calls'[c].todo = Tail(todo)
      /\ calls'[c].img = ImageOf(calls[c].req, Head(todo))
  BY <1>0 DEF ExecSelect, InUse, Call
<1>2. todo # <<>> /\ todo \in Seq(StepNames) /\ calls[c].req \in Requests
  BY <1>0, <1>1 DEF CallFits, Call
<1>3. steps \in Seq(StepNames) /\ \A i \in DOMAIN steps : StepFits(calls[c].req, steps[i])
  BY <1>2, StepsType
<1>4. /\ Len(todo) <= Len(steps)
      /\ \A i \in DOMAIN todo : todo[i] = steps[Len(steps) - Len(todo) + i]
  BY <1>0 DEF CallFits
<1> HIDE DEF steps, todo
<1>5. 1 \in DOMAIN todo /\ Head(todo) = todo[1] /\ Len(todo) \in Nat \ {0} /\ Len(steps) \in Nat
      /\ Len(Tail(todo)) = Len(todo) - 1
  BY <1>2, <1>3
<1>6. Head(todo) = steps[Len(steps) - Len(todo) + 1] /\ Len(steps) - Len(todo) + 1 \in DOMAIN steps
  BY <1>3, <1>4, <1>5
<1>7. StepFits(calls[c].req, Head(todo)) /\ Len(steps) - Len(todo) \in Nat
  BY <1>3, <1>4, <1>5, <1>6
<1> QED BY <1>1, <1>2, <1>5, <1>6, <1>7 DEF steps, todo

LEMMA CallsType ==
  ASSUME CallsInv, ResultsInv, PlainInv, [Next]_vars
  PROVE  calls' \in Seq(Call) /\ Len(calls') <= MaxCalls
<1> DEFINE Goal == calls' \in Seq(Call) /\ Len(calls') <= MaxCalls
<1>0. calls \in Seq(Call) /\ Len(calls) <= MaxCalls /\ MaxCalls \in Nat
  BY RewardsAssumption DEF CallsInv
<1>1. ASSUME calls' = calls PROVE Goal
  BY <1>0, <1>1
<1>2. ASSUME NEW r \in Requests, Start(r) PROVE Goal
  <2> DEFINE new == [req |-> r, todo |-> Steps(r), seen |-> FALSE,
                     st |-> IF Steps(r) = <<>> THEN "ready" ELSE "queue", img |-> NoImage]
  <2>1. calls' = Append(calls, new) /\ Len(calls) < MaxCalls
    BY <1>2 DEF Start
  <2>2. NoImage \in Image
    BY DEF NoImage, Image, NoMail, MailRow, NoSign, SignRow
  <2>3. new \in Call
    BY <2>2, StepsType DEF Call
  <2> HIDE DEF new
  <2> QED BY <1>0, <2>1, <2>3
<1>3. ASSUME NEW f \in [InUse -> Call], calls' = f PROVE Goal
  <2>1. Len(calls) \in Nat /\ InUse = 1 .. Len(calls)
    BY <1>0 DEF InUse
  <2>2. f \in Seq(Call) /\ Len(f) = Len(calls)
    BY <2>1, <1>3
  <2> QED BY <1>0, <1>3, <2>2
<1>4. \A d \in InUse : calls[d] \in Call
  BY <1>0 DEF InUse
<1>5. ASSUME TakeBatch PROVE Goal
  <2>1. \A d \in InUse : [calls[d] EXCEPT !.st = "batch"] \in Call
    BY <1>4 DEF Call
  <2> DEFINE f == [c \in InUse |-> IF calls[c].st = "queue"
                                   THEN [calls[c] EXCEPT !.st = "batch"] ELSE calls[c]]
  <2>2. f \in [InUse -> Call] /\ calls' = f
    BY <1>4, <1>5, <2>1 DEF TakeBatch
  <2> HIDE DEF f
  <2> QED BY <1>3, <2>2
<1>6. ASSUME DbGone PROVE Goal
  <2>1. \A d \in InUse : [calls[d] EXCEPT !.st = "lost"] \in Call
    BY <1>4 DEF Call
  <2> DEFINE f == [c \in InUse |-> IF calls[c].st = "queue"
                                   THEN [calls[c] EXCEPT !.st = "lost"] ELSE calls[c]]
  <2>2. f \in [InUse -> Call] /\ calls' = f
    BY <1>4, <1>6, <2>1 DEF DbGone
  <2> HIDE DEF f
  <2> QED BY <1>3, <2>2
<1>7. ASSUME Kill PROVE Goal
  <2>1. \A d \in InUse : [calls[d] EXCEPT !.st = "lost"] \in Call
    BY <1>4 DEF Call
  <2> DEFINE f == [c \in InUse |-> IF calls[c].st = "done" THEN calls[c]
                                   ELSE [calls[c] EXCEPT !.st = "lost"]]
  <2>2. f \in [InUse -> Call] /\ calls' = f
    BY <1>4, <1>7, <2>1 DEF Kill
  <2> HIDE DEF f
  <2> QED BY <1>3, <2>2
<1>8. ASSUME NEW c \in InUse, ExecSelect(c) PROVE Goal
  <2> DEFINE v == [calls[c] EXCEPT !.st = "got", !.seen = TRUE, !.todo = Tail(calls[c].todo),
                        !.img = ImageOf(calls[c].req, Head(calls[c].todo))]
  <2>1. calls[c].todo # <<>> /\ StepFits(calls[c].req, Head(calls[c].todo))
    BY <1>8, ReadPuts
  <2>2. ImageOf(calls[c].req, Head(calls[c].todo)) \in Image
    BY <1>4, <2>1, ImageType DEF PlainInv, Call
  <2>3. Tail(calls[c].todo) \in Seq(StepNames)
    <3>1. calls[c].todo \in Seq(StepNames)
      BY <1>4 DEF Call
    <3> QED BY <2>1, <3>1
  <2>4. v \in Call
    BY <1>4, <2>2, <2>3 DEF Call
  <2>5. calls' = [calls EXCEPT ![c] = v]
    BY <1>8 DEF ExecSelect
  <2> HIDE DEF v
  <2> QED BY <1>0, <2>4, <2>5 DEF InUse
<1>9. ASSUME NEW c \in InUse, NEW s \in Stages, Sets(c, s) PROVE Goal
  BY <1>0, <1>9, SetsPuts
<1>10. ASSUME NEW c \in InUse, ExecSelectFail(c) \/ Callback(c) \/ Step(c) PROVE Goal
  <2>1. \E s \in {"error", "done", "ready", "queue"} : Sets(c, s)
    <3>1. ASSUME ExecSelectFail(c) PROVE Sets(c, "error")
      BY <3>1 DEF ExecSelectFail, Sets
    <3> QED BY <1>10, <3>1, CallbackAnswers, StepProceeds DEF Answers, Proceeds
  <2>2. {"error", "done", "ready", "queue"} \subseteq Stages
    BY DEF Stages
  <2> QED BY <1>9, <2>1, <2>2
<1>11. ASSUME NEW w \in batch, ExecWrite(w) \/ ExecWriteFail(w) PROVE calls' = calls
  BY <1>11 DEF ExecWrite, ExecWriteFail
<1>12. ASSUME NEW p \in Presents, Issue(p) PROVE calls' = calls
  BY <1>12 DEF Issue
<1>13. ASSUME NextDay \/ UNCHANGED vars PROVE calls' = calls
  BY <1>13 DEF NextDay, vars
<1>14. Goal
  <2> HIDE DEF Goal
  <2> QED BY <1>1, <1>2, <1>5, <1>6, <1>7, <1>8, <1>10, <1>11, <1>12, <1>13 DEF Next
<1> QED BY <1>14

LEMMA CallsStep ==
  ASSUME CallsInv, ResultsInv, PlainInv, [Next]_vars
  PROVE  CallsInv'
<1>1. ASSUME NEW d \in InUse PROVE CallFits(d)'
  <2> DEFINE r == calls[d].req
             steps == Steps(r)
             todo == calls[d].todo
  <2>1. CallFits(d) /\ calls[d] \in Call
    BY DEF CallsInv, InUse
  <2>2. calls'[d].req = r
    BY CallMoves
  <2>3. steps \in Seq(StepNames) /\ todo \in Seq(StepNames)
    BY <2>1, StepsType DEF Call
  <2>4. CASE ExecSelect(d)
    <3>1. /\ calls'[d].st = "got" /\ calls'[d].seen = TRUE /\ todo # <<>>
          /\ calls'[d].todo = Tail(todo)
      BY <2>4, ReadPuts
    <3>2. /\ Len(todo) <= Len(steps)
          /\ \A i \in DOMAIN todo : todo[i] = steps[Len(steps) - Len(todo) + i]
      BY <2>1 DEF CallFits
    <3> HIDE DEF steps, todo
    <3>3. /\ Len(Tail(todo)) = Len(todo) - 1 /\ DOMAIN Tail(todo) = 1 .. Len(todo) - 1
          /\ \A i \in DOMAIN Tail(todo) : Tail(todo)[i] = todo[i + 1] /\ i + 1 \in DOMAIN todo
      BY <2>3, <3>1
    <3>4. Len(todo) \in Nat \ {0} /\ Len(steps) \in Nat
      BY <2>3, <3>1
    <3>5. Len(Tail(todo)) < Len(steps) /\ Len(Tail(todo)) <= Len(steps)
      BY <3>2, <3>3, <3>4
    <3>6. \A i \in DOMAIN Tail(todo) : Tail(todo)[i] = steps[Len(steps) - Len(Tail(todo)) + i]
      <4> SUFFICES ASSUME NEW i \in DOMAIN Tail(todo)
                   PROVE  Tail(todo)[i] = steps[Len(steps) - Len(Tail(todo)) + i]
        OBVIOUS
      <4>1. i \in Nat
        BY <3>3, <3>4
      <4>2. Tail(todo)[i] = steps[Len(steps) - Len(todo) + (i + 1)]
        BY <3>2, <3>3
      <4>3. Len(steps) - Len(todo) + (i + 1) = Len(steps) - Len(Tail(todo)) + i
        BY <3>3, <3>4, <4>1
      <4> QED BY <4>2, <4>3
    <3> QED BY <2>2, <3>1, <3>5, <3>6 DEF CallFits, steps, todo
  <2>5. CASE ~ExecSelect(d)
    <3>1. /\ calls'[d].todo = todo /\ calls'[d].seen = calls[d].seen
          /\ calls'[d].st = "got" => calls[d].st = "got"
          /\ calls'[d].st = "queue" => calls[d].st = "queue" \/ TransNext(d) \/ NextSelect(d)
          /\ calls'[d].st = "batch" => calls[d].st \in {"queue", "batch"}
      BY <2>5, CallMoves
    <3>2. TransNext(d) \/ NextSelect(d) => todo # <<>>
      BY DEF TransNext, NextSelect
    <3> HIDE DEF todo
    <3> QED BY <2>1, <2>2, <3>1, <3>2 DEF CallFits, todo
  <2> QED BY <2>4, <2>5
<1>2. ASSUME NEW d \in InUse', d \notin InUse PROVE CallFits(d)'
  <2>1. PICK r \in Requests :
           /\ calls'[d].req = r /\ calls'[d].todo = Steps(r) /\ calls'[d].seen = FALSE
           /\ calls'[d].st = IF Steps(r) = <<>> THEN "ready" ELSE "queue"
    BY <1>2, NewCall
  <2>2. Steps(r) \in Seq(StepNames)
    BY StepsType
  <2> DEFINE s == Steps(r)
  <2>3. Len(s) <= Len(s) /\ \A i \in DOMAIN s : s[i] = s[Len(s) - Len(s) + i]
    <3> HIDE DEF s
    <3>1. s \in Seq(StepNames)
      BY <2>2 DEF s
    <3> QED BY <3>1
  <2> QED BY <2>1, <2>3 DEF CallFits
<1>3. \A d \in InUse' : CallFits(d)'
  BY <1>1, <1>2
<1> QED BY <1>3, CallsType DEF CallsInv

LEMMA SignedRowType ==
  ASSUME NEW img \in Image
  PROVE  SignedRow(img) \in SignRow
<1>1. img.sign \in SignRow /\ img.sign.last \in Nat /\ img.sign.days \in Nat
      /\ img.sign.serial \in Nat /\ img.sign.taken \in SUBSET (1 .. 3)
  BY DEF Image, SignRow
<1> DEFINE more == IsSerial(img)
           full == more /\ img.sign.serial + 1 >= 9 /\ img.sign.taken = 1 .. 3
<1>2. SignedRow(img) = [there |-> TRUE, last |-> img.sign.last,
         days |-> (IF IsThisWeek(img) THEN img.sign.days ELSE 0) + 1,
         serial |-> IF more /\ ~full THEN img.sign.serial + 1 ELSE 1,
         taken |-> IF more /\ ~full THEN img.sign.taken ELSE {}]
  BY DEF SignedRow
<1> HIDE DEF more, full
<1>3. /\ (IF IsThisWeek(img) THEN img.sign.days ELSE 0) + 1 \in Nat
      /\ (IF more /\ ~full THEN img.sign.serial + 1 ELSE 1) \in Nat
      /\ (IF more /\ ~full THEN img.sign.taken ELSE {}) \in SUBSET (1 .. 3)
  BY <1>1
<1> QED BY <1>1, <1>2, <1>3 DEF SignRow

(* A statement has the kind and the fields that Wr gives it. *)
LEMMA WrFields ==
  ASSUME NEW c, NEW kind, NEW mails, NEW sign
  PROVE  LET w == Wr(c, kind, mails, sign)
         IN  w.call = c /\ w.kind = kind /\ w.mails = mails /\ w.sign = sign
BY DEF Wr

LEMMA WrType ==
  ASSUME NEW c \in Calls, NEW kind \in Kinds, NEW mails \in SUBSET Mails, NEW sign \in SignRow
  PROVE  Wr(c, kind, mails, sign) \in Write
BY DEF Wr, Write

(* A request that puts a statement has read its row. *)
LEMMA PutsSeen ==
  ASSUME CallsInv, NEW c \in InUse, NEW w, Puts(c, w)
  PROVE  calls[c].seen /\ calls[c] \in Call /\ calls[c].st \in {"got", "ready"}
<1>0. calls[c] \in Call /\ CallFits(c)
  BY DEF CallsInv, InUse
<1>1. ASSUME calls[c].st = "got" PROVE calls[c].seen
  BY <1>0, <1>1 DEF CallFits
<1>2. ASSUME Steps(calls[c].req) # <<>>, calls[c].todo = <<>> PROVE calls[c].seen
  <2>1. Steps(calls[c].req) \in Seq(StepNames) /\ calls[c].seen \in BOOLEAN
    BY <1>0, StepsType DEF Call
  <2>2. Len(Steps(calls[c].req)) # 0
    BY <1>2, <2>1
  <2> QED BY <1>0, <1>2, <2>1, <2>2 DEF CallFits
<1>3. ASSUME Detail(c) \/ DeleteOwn(c) \/ DeleteAll(c) \/ AttachOwn(c) \/ AttachSys(c) \/ Arrive(c)
      PROVE  calls[c].st = "got"
  BY <1>3 DEF Detail, DeleteOwn, DeleteAll, AttachOwn, AttachSys, Arrive, Decides
<1>4. ASSUME Present(c) \/ Vip(c) \/ SignList(c)
      PROVE  calls[c].st = "got"
  BY <1>4 DEF Present, Vip, SignList, Decides
<1>5. ASSUME Sign(c) \/ Serial(c)
      PROVE  calls[c].st = "ready" /\ calls[c].seen
  <2>1. calls[c].st = "ready" /\ calls[c].todo = <<>> /\ calls[c].req.op = "sign"
    BY <1>5 DEF Sign, Serial, Runs
  <2>2. Len(Steps(calls[c].req)) = 1
    BY <1>0, <2>1, OtherSteps DEF Call
  <2>3. Steps(calls[c].req) # <<>>
    BY <2>2
  <2> QED BY <1>2, <2>1, <2>3
<1>6. ASSUME Buy(c) \/ BuyByActivity(c),
             Limit[calls[c].req.at] > 0 \/ Activity[calls[c].req.at] \/ Frame[calls[c].req.at]
      PROVE  calls[c].st = "ready" /\ calls[c].seen
  <2>1. calls[c].st = "ready" /\ calls[c].todo = <<>> /\ calls[c].req.op = "buy"
    BY <1>6 DEF Buy, BuyByActivity, Runs
  <2>2. calls[c].req \in Requests
    BY <1>0 DEF Call
  <2>3. \E i : i \in DOMAIN Steps(calls[c].req)
    BY <1>6, <2>1, <2>2, BuySteps
  <2>4. Steps(calls[c].req) # <<>>
    BY <2>3
  <2> QED BY <1>2, <2>1, <2>4
<1>7. BuyByActivity(c) => Activity[calls[c].req.at]
  BY DEF BuyByActivity
<1> QED BY <1>0, <1>1, <1>3, <1>4, <1>5, <1>6, <1>7 DEF Puts

(* ... and is done with it, but for the mails of "delete all". *)
LEMMA PutsEnds ==
  ASSUME CallsInv, NEW c \in InUse, NEW w, Puts(c, w)
  PROVE  Sets(c, "done") \/ DeleteAll(c)
<1>1. ASSUME Detail(c) \/ DeleteOwn(c) \/ AttachOwn(c) \/ AttachSys(c) \/ Arrive(c)
      PROVE  Sets(c, "done")
  BY <1>1 DEF Detail, DeleteOwn, AttachOwn, AttachSys, Arrive, Done, Sets
<1>2. ASSUME Present(c) \/ Vip(c) \/ SignList(c) \/ Sign(c) \/ Serial(c)
      PROVE  Sets(c, "done")
  BY <1>2 DEF Present, Vip, SignList, Sign, Serial, Done, Sets
<1>3. ASSUME Buy(c) \/ BuyByActivity(c)
      PROVE  Sets(c, "done")
  BY <1>3 DEF Buy, BuyByActivity, Purchase, Done, Sets
<1> QED BY <1>1, <1>2, <1>3 DEF Puts

(* The two SELECTs of "delete all". *)
LEMMA DeleteAllReads ==
  ASSUME CallsInv, NEW c \in InUse, ExecSelect(c), calls[c].req.op = "deleteAll"
  PROVE  IF calls'[c].todo = <<>> THEN Head(calls[c].todo) = "system"
                                  ELSE Head(calls[c].todo) = "own"
<1> DEFINE steps == Steps(calls[c].req)
           todo == calls[c].todo
<1>0. calls[c] \in Call
  BY DEF CallsInv, InUse
<1>1. /\ Len(steps) - Len(todo) \in Nat /\ Head(todo) = steps[Len(steps) - Len(todo) + 1]
      /\ Len(calls'[c].todo) = Len(todo) - 1 /\ calls'[c].todo = Tail(todo) /\ todo # <<>>
  BY ReadPuts
<1>2. Len(steps) = 2 /\ steps[1] = "own" /\ steps[2] = "system"
  BY <1>0, OtherSteps DEF Call
<1>3. todo \in Seq(StepNames)
  BY <1>0 DEF Call
<1> HIDE DEF steps, todo
<1>4. Len(todo) \in 1 .. 2 /\ Tail(todo) \in Seq(StepNames)
  BY <1>1, <1>2, <1>3
<1>5. calls'[c].todo = <<>> <=> Len(todo) = 1
  BY <1>1, <1>3, <1>4
<1>6. Len(todo) = 1 => Head(todo) = "system"
  BY <1>1, <1>2
<1>7. Len(todo) # 1 => Head(todo) = "own"
  <2>1. Len(todo) # 1 => Len(todo) = 2
    BY <1>4
  <2>2. Len(todo) = 2 => Len(steps) - Len(todo) + 1 = 1
    BY <1>2
  <2> QED BY <1>1, <1>2, <2>1, <2>2
<1>8. IF calls'[c].todo = <<>> THEN Head(todo) = "system" ELSE Head(todo) = "own"
  BY <1>5, <1>6, <1>7
<1> QED BY <1>8 DEF todo

LEMMA ReadsStep ==
  ASSUME CallsInv, ResultsInv, ImagesInv, PlainInv, [Next]_vars
  PROVE  ImagesInv'
<1> SUFFICES ASSUME NEW c \in InUse', calls'[c].st = "got"
             PROVE  /\ calls'[c].req.op = "arrive" => calls'[c].img.mails \subseteq SysMails
                    /\ calls'[c].req.op = "deleteAll" =>
                         calls'[c].img.mails \subseteq
                            IF calls'[c].todo = <<>> THEN SysMails ELSE OwnMails
  BY DEF ImagesInv
<1>1. c \in InUse
  BY NewCall
<1>2. CASE ~ExecSelect(c)
  BY <1>1, <1>2, CallMoves DEF ImagesInv
<1>3. CASE ExecSelect(c)
  <2> DEFINE r == calls[c].req
             h == Head(calls[c].todo)
  <2>1. calls'[c].req = r /\ calls'[c].img = ImageOf(r, h) /\ StepFits(r, h)
    BY <1>1, <1>3, ReadPuts
  <2>2. r.op = "arrive" => ImageOf(r, h).mails = {m \in SysMails : ~db.slave[m].there}
    BY <2>1 DEF StepFits, ImageOf, NoImage
  <2>3. h = "own" => ImageOf(r, h).mails = {m \in OwnMails : Deletable(db.mail[m])}
    BY <2>1 DEF StepFits, ImageOf, NoImage
  <2>4. h = "system" => ImageOf(r, h).mails = {m \in SysMails : Deletable(db.slave[m])}
    BY <2>1 DEF StepFits, ImageOf, NoImage
  <2>5. r.op = "deleteAll" => IF calls'[c].todo = <<>> THEN h = "system" ELSE h = "own"
    BY <1>1, <1>3, DeleteAllReads
  <2> QED BY <2>1, <2>2, <2>3, <2>4, <2>5
<1> QED BY <1>2, <1>3

LEMMA PutsType ==
  ASSUME CallsInv, ImagesInv, NEW c \in InUse, NEW w, Puts(c, w)
  PROVE  w \in Write /\ w.call = c /\ PutsFits(calls[c].req, w)
<1> DEFINE r == calls[c].req
           img == calls[c].img
<1>0. calls[c] \in Call /\ r \in Requests /\ img \in Image /\ c \in Calls
  <2>1. calls[c] \in Call
    BY DEF CallsInv, InUse
  <2>2. calls \in Seq(Call) /\ Len(calls) <= MaxCalls /\ MaxCalls \in Nat
    BY RewardsAssumption DEF CallsInv
  <2>3. c \in 1 .. Len(calls) /\ Len(calls) \in Nat
    BY <2>2 DEF InUse
  <2>4. c \in Calls
    BY <2>2, <2>3 DEF Calls
  <2> QED BY <2>1, <2>4 DEF Call
<1>1. r.op \in Ops /\ About(r)
  BY <1>0, RequestFacts
<1>2. NoSign \in SignRow
  BY DEF NoSign, SignRow
<1>3. img.mails \in SUBSET Mails /\ img.sign \in SignRow
  BY <1>0 DEF Image
<1> DEFINE Good(kind, mails, sign) == kind \in Kinds /\ mails \in SUBSET Mails /\ sign \in SignRow
                                      /\ PutsFits(r, Wr(c, kind, mails, sign))
<1>4. ASSUME NEW kind, NEW mails, NEW sign, Good(kind, mails, sign), w = Wr(c, kind, mails, sign)
      PROVE  w \in Write /\ w.call = c /\ PutsFits(r, w)
  BY <1>0, <1>4, WrType, WrFields
<1>5. ASSUME Detail(c), ~DetailRefused(c) 
      PROVE  Good(IF r.at \in SysMails THEN "readSys" ELSE "read", {r.at}, NoSign)
  <2>1. r.op = "detail" /\ r.at \notin ForeignMails
    BY <1>5 DEF Detail, Decides, DetailRefused
  <2> QED BY <1>1, <1>2, <2>1, WrFields DEF About, Kinds, PutsFits, Mails
<1>6. ASSUME (DeleteOwn(c) /\ r.at \notin ForeignMails) \/ AttachOwn(c)
      PROVE  Good("drop", {r.at}, NoSign)
  <2>1. r.op \in {"delete", "attach"} /\ r.at \notin ForeignMails /\ r.at \notin SysMails
    BY <1>6 DEF DeleteOwn, AttachOwn, Decides, AttachRefused
  <2>2. Targets(r) = {r.at}
    BY <2>1 DEF Targets
  <2> QED BY <1>1, <1>2, <2>1, <2>2, WrFields DEF About, Kinds, PutsFits, Mails
<1>7. ASSUME DeleteAll(c)
      PROVE  Good(IF calls[c].todo = <<>> THEN "hideSys" ELSE "drop", img.mails, NoSign)
  <2>1. r.op = "deleteAll" /\ img.mails \subseteq IF calls[c].todo = <<>> THEN SysMails ELSE OwnMails
    BY <1>7 DEF DeleteAll, ImagesInv
  <2>2. Targets(r) = OwnMails \cup SysMails
    BY <2>1 DEF Targets
  <2> QED BY <1>2, <1>3, <2>1, <2>2, WrFields DEF Kinds, PutsFits
<1>8. ASSUME AttachSys(c) PROVE Good("takenSys", {r.at}, NoSign)
  <2>1. r.op = "attach" /\ r.at \in SysMails
    BY <1>8 DEF AttachSys, Decides
  <2> QED BY <1>1, <1>2, <2>1, WrFields DEF About, Kinds, PutsFits
<1>9. ASSUME Arrive(c) PROVE Good("newSys", img.mails, NoSign)
  <2>1. r.op = "arrive" /\ img.mails \subseteq SysMails
    BY <1>9 DEF Arrive, Decides, ImagesInv
  <2> QED BY <1>2, <1>3, <2>1, WrFields DEF Kinds, PutsFits
<1>10. ASSUME Present(c) PROVE Good("bag", {}, NoSign)
  BY <1>2, <1>10, WrFields DEF Present, Decides, Kinds, PutsFits
<1>11. ASSUME Vip(c) PROVE Good("vip", {}, NoSign)
  BY <1>2, <1>11, WrFields DEF Vip, Decides, Kinds, PutsFits
<1>12. ASSUME SignList(c) PROVE Good("newSign", {}, NoSign) /\ Good("reset", {}, NoSign)
  BY <1>2, <1>12, WrFields DEF SignList, Decides, Kinds, PutsFits
<1>13. ASSUME Sign(c) PROVE Good("sign", {}, SignedRow(img))
  <2>1. r.op = "sign"
    BY <1>13 DEF Sign, Runs
  <2>2. SignedRow(img) \in SignRow
    BY <1>0, SignedRowType
  <2> QED BY <2>1, <2>2, WrFields DEF Kinds, PutsFits
<1>14. ASSUME Serial(c) PROVE Good("serial", {}, TakenWith(c))
  <2>1. r.op = "sign" /\ r.n > 0
    BY <1>14 DEF Serial, Runs
  <2>2. r.n \in 1 .. 3
    BY <1>1, <2>1 DEF About
  <2>3. TakenWith(c) \in SignRow
    BY <1>3, <2>2 DEF TakenWith, SignRow
  <2> QED BY <2>1, <2>3, WrFields DEF Kinds, PutsFits
<1>15. ASSUME Buy(c) \/ BuyByActivity(c), NEW kind \in {"num", "activity", "frame"}
       PROVE  Good(kind, {}, NoSign)
  <2>1. r.op = "buy"
    BY <1>15 DEF Buy, BuyByActivity, Runs
  <2> QED BY <1>2, <1>15, <2>1, WrFields DEF Kinds, PutsFits
<1>16. \E kind, mails, sign : Good(kind, mails, sign) /\ w = Wr(c, kind, mails, sign)
  <2> HIDE DEF Good
  <2>1. CASE \/ (Detail(c) /\ ~DetailRefused(c)
                 /\ w = Wr(c, IF r.at \in SysMails THEN "readSys" ELSE "read", {r.at}, NoSign))
             \/ (DeleteOwn(c) /\ r.at \notin ForeignMails /\ w = Wr(c, "drop", {r.at}, NoSign))
             \/ (AttachOwn(c) /\ w = Wr(c, "drop", {r.at}, NoSign))
    BY <1>5, <1>6, <2>1
  <2>2. CASE \/ (DeleteAll(c) /\ w = Wr(c, IF calls[c].todo = <<>> THEN "hideSys" ELSE "drop",
                                        img.mails, NoSign))
             \/ (AttachSys(c) /\ w = Wr(c, "takenSys", {r.at}, NoSign))
             \/ (Arrive(c) /\ w = Wr(c, "newSys", img.mails, NoSign))
    BY <1>7, <1>8, <1>9, <2>2
  <2>3. CASE \/ (Present(c) /\ w = Wr(c, "bag", {}, NoSign))
             \/ (Vip(c) /\ w = Wr(c, "vip", {}, NoSign))
             \/ (SignList(c) /\ w = Wr(c, "newSign", {}, NoSign))
             \/ (SignList(c) /\ w = Wr(c, "reset", {}, NoSign))
    BY <1>10, <1>11, <1>12, <2>3
  <2>4. CASE \/ (Sign(c) /\ w = Wr(c, "sign", {}, SignedRow(img)))
             \/ (Serial(c) /\ w = Wr(c, "serial", {}, TakenWith(c)))
    BY <1>13, <1>14, <2>4
  <2>5. CASE /\ Buy(c) \/ BuyByActivity(c)
             /\ \E kind \in {"num", "activity", "frame"} : w = Wr(c, kind, {}, NoSign)
    BY <1>15, <2>5
  <2> QED BY <2>1, <2>2, <2>3, <2>4, <2>5 DEF Puts
<1> HIDE DEF Good
<1> QED BY <1>4, <1>16

(* The statements as the next state has them. *)
LEMMA WriteMoves ==
  ASSUME CallsInv, ResultsInv, [Next]_vars, NEW w \in Pending'
  PROVE  w \in Pending \/ \E c \in InUse : Puts(c, w)
<1>1. ASSUME queue' = queue /\ batch' = batch PROVE w \in Pending
  BY <1>1 DEF Pending
<1>2. ASSUME NEW r \in Requests, Start(r) PROVE w \in Pending
  BY <1>2 DEF Start, sqlVars, Pending
<1>3. ASSUME TakeBatch \/ DbGone \/ Kill PROVE w \in Pending
  BY <1>3 DEF TakeBatch, DbGone, Kill, Pending
<1>4. ASSUME NEW c \in InUse, ExecSelect(c) \/ ExecSelectFail(c) PROVE w \in Pending
  BY <1>4 DEF ExecSelect, ExecSelectFail, Pending
<1>5. ASSUME NEW c \in InUse, Callback(c) PROVE w \in Pending \/ Puts(c, w)
  <2>1. batch' = batch
    BY <1>5, CallbackAnswers DEF Answers
  <2> QED BY <1>5, <2>1, CallbackPuts DEF Pending
<1>6. ASSUME NEW c \in InUse, Step(c) PROVE w \in Pending \/ Puts(c, w)
  <2>1. batch' = batch
    BY <1>6, StepProceeds DEF Proceeds
  <2> QED BY <1>6, <2>1, StepPuts DEF Pending
<1>7. ASSUME NEW v \in batch, ExecWrite(v) \/ ExecWriteFail(v) PROVE w \in Pending
  BY <1>7 DEF ExecWrite, ExecWriteFail, Pending
<1>8. ASSUME NEW p \in Presents, Issue(p) PROVE w \in Pending
  BY <1>8 DEF Issue, sqlVars, Pending
<1>9. ASSUME NextDay \/ UNCHANGED vars PROVE w \in Pending
  BY <1>9 DEF NextDay, vars, sqlVars, Pending
<1> QED BY <1>2, <1>3, <1>4, <1>5, <1>6, <1>7, <1>8, <1>9 DEF Next

LEMMA WritesStep ==
  ASSUME CallsInv, ResultsInv, ImagesInv, WritesInv, [Next]_vars
  PROVE  WritesInv'
<1> SUFFICES ASSUME NEW w \in Pending' PROVE WriteFits(w)'
  BY DEF WritesInv
<1>1. CASE w \in Pending
  <2>1. WriteFits(w)
    BY <1>1 DEF WritesInv
  <2> DEFINE d == w.call
  <2>2. d \in InUse /\ calls[d].seen
    BY <2>1 DEF WriteFits
  <2>3. d \in InUse' /\ calls'[d].req = calls[d].req
        /\ (calls[d].st = "done" => calls'[d].st = "done")
    BY <2>2, CallMoves
  <2>4. calls'[d].seen
    BY <2>2, CallMoves, ReadPuts
  <2> QED BY <2>1, <2>2, <2>3, <2>4 DEF WriteFits
<1>2. ASSUME NEW c \in InUse, Puts(c, w) PROVE WriteFits(w)'
  <2>1. w \in Write /\ w.call = c /\ PutsFits(calls[c].req, w)
    BY <1>2, PutsType
  <2>2. calls[c].seen /\ calls[c].st \in {"got", "ready"}
    BY <1>2, PutsSeen
  <2>3. c \in InUse' /\ calls'[c].req = calls[c].req
    BY CallMoves
  <2>4. calls'[c].seen
    BY <2>2, CallMoves, ReadPuts
  <2>5. calls'[c].st = "done" \/ calls[c].req.op = "deleteAll"
    <3>1. Sets(c, "done") => calls'[c].st = "done"
      BY SetsPuts DEF CallsInv, Stages
    <3>2. DeleteAll(c) => calls[c].req.op = "deleteAll"
      BY DEF DeleteAll
    <3> QED BY <1>2, <3>1, <3>2, PutsEnds
  <2> QED BY <2>1, <2>3, <2>4, <2>5 DEF WriteFits
<1> QED BY <1>1, <1>2, WriteMoves

(* A result waits until its callback runs, or the process is killed. *)
LEMMA ResultWaits ==
  ASSUME CallsInv, ResultsInv, [Next]_vars, NEW d \in InUse, calls[d].st \in {"got", "error"}
  PROVE  \/ Kill
         \/ Callback(d) /\ results' = Tail(results) /\ results # <<>> /\ Head(results) = d
         \/ calls'[d].st = calls[d].st
<1>0. calls \in Seq(Call) /\ calls[d] \in Call /\ {"error", "done", "ready", "queue"} \subseteq Stages
  BY DEF CallsInv, InUse, Stages
<1>1. ASSUME NEW r \in Requests, Start(r) PROVE calls'[d].st = calls[d].st
  <2> DEFINE new == [req |-> r, todo |-> Steps(r), seen |-> FALSE,
                     st |-> IF Steps(r) = <<>> THEN "ready" ELSE "queue", img |-> NoImage]
  <2>1. calls' = Append(calls, new)
    BY <1>1 DEF Start
  <2> HIDE DEF new
  <2>2. calls'[d] = calls[d]
    BY <1>0, <2>1 DEF InUse
  <2> QED BY <2>2
<1>2. ASSUME TakeBatch PROVE calls'[d].st = calls[d].st
  BY <1>2 DEF TakeBatch
<1>3. ASSUME DbGone PROVE calls'[d].st = calls[d].st
  BY <1>3 DEF DbGone
<1>4. ASSUME NEW c \in InUse, ExecSelect(c) PROVE calls'[d].st = calls[d].st
  <2>1. c # d
    BY <1>4 DEF ExecSelect
  <2>2. calls'[d] = calls[d]
    BY <1>0, <1>4, <2>1 DEF ExecSelect, InUse
  <2> QED BY <2>2
<1>5. ASSUME NEW c \in InUse, ExecSelectFail(c) PROVE calls'[d].st = calls[d].st
  <2>1. c # d /\ Sets(c, "error")
    BY <1>5 DEF ExecSelectFail, Sets
  <2> QED BY <1>0, <2>1, SetsPuts
<1>6. ASSUME NEW c \in InUse, Callback(c), c # d PROVE calls'[d].st = calls[d].st
  <2>1. \E s \in {"done", "ready", "queue"} : Sets(c, s)
    BY <1>6, CallbackAnswers DEF Answers
  <2> QED BY <1>0, <1>6, <2>1, SetsPuts
<1>7. ASSUME Callback(d) PROVE results' = Tail(results) /\ results # <<>> /\ Head(results) = d
  BY <1>7, CallbackAnswers DEF Answers, Polled
<1>8. ASSUME NEW c \in InUse, Step(c) PROVE calls'[d].st = calls[d].st
  <2>1. Proceeds(c)
    BY <1>8, StepProceeds
  <2>2. c # d /\ \E s \in {"done", "queue"} : Sets(c, s)
    BY <2>1 DEF Proceeds
  <2> QED BY <1>0, <2>2, SetsPuts
<1>9. ASSUME NEW w \in batch, ExecWrite(w) \/ ExecWriteFail(w) PROVE calls' = calls
  BY <1>9 DEF ExecWrite, ExecWriteFail
<1>10. ASSUME NEW p \in Presents, Issue(p) PROVE calls' = calls
  BY <1>10 DEF Issue
<1>11. ASSUME NextDay \/ UNCHANGED vars PROVE calls' = calls
  BY <1>11 DEF NextDay, vars
<1> QED BY <1>1, <1>2, <1>3, <1>4, <1>5, <1>6, <1>7, <1>8, <1>9, <1>10, <1>11 DEF Next

(* What becomes of the results. *)
LEMMA ResultMoves ==
  ASSUME [Next]_vars
  PROVE  \/ results' = results
         \/ results' = <<>> /\ Kill
         \/ \E c \in InUse : \/ results' = Append(results, c) /\ (ExecSelect(c) \/ ExecSelectFail(c))
                             \/ results' = Tail(results) /\ Callback(c)
<1>1. ASSUME NEW r \in Requests, Start(r) PROVE results' = results
  BY <1>1 DEF Start, sqlVars
<1>2. ASSUME TakeBatch \/ DbGone PROVE results' = results
  BY <1>2 DEF TakeBatch, DbGone
<1>3. ASSUME Kill PROVE results' = <<>>
  BY <1>3 DEF Kill
<1>4. ASSUME NEW c \in InUse, ExecSelect(c) \/ ExecSelectFail(c) PROVE results' = Append(results, c)
  BY <1>4 DEF ExecSelect, ExecSelectFail
<1>5. ASSUME NEW c \in InUse, Callback(c) PROVE results' = Tail(results)
  BY <1>5, CallbackAnswers DEF Answers
<1>6. ASSUME NEW c \in InUse, Step(c) PROVE results' = results
  BY <1>6, StepProceeds DEF Proceeds
<1>7. ASSUME NEW w \in batch, ExecWrite(w) \/ ExecWriteFail(w) PROVE results' = results
  BY <1>7 DEF ExecWrite, ExecWriteFail
<1>8. ASSUME NEW p \in Presents, Issue(p) PROVE results' = results
  BY <1>8 DEF Issue, sqlVars
<1>9. ASSUME NextDay \/ UNCHANGED vars PROVE results' = results
  BY <1>9 DEF NextDay, vars, sqlVars
<1> QED BY <1>1, <1>2, <1>3, <1>4, <1>5, <1>6, <1>7, <1>8, <1>9 DEF Next

LEMMA ResultsStep ==
  ASSUME CallsInv, ResultsInv, [Next]_vars
  PROVE  ResultsInv'
<1>0. /\ results \in Seq(InUse)
      /\ \A i, j \in DOMAIN results : results[i] = results[j] => i = j
      /\ \A i \in DOMAIN results : results[i] \in InUse /\ calls[results[i]].st \in {"got", "error"}
  BY DEF ResultsInv
<1>1. InUse \subseteq InUse'
  BY CallMoves
<1>2. CASE Kill
  BY <1>2 DEF Kill, ResultsInv
<1>3. CASE results' = results /\ ~Kill
  <2>1. \A i \in DOMAIN results : ~(Callback(results[i]) /\ results' = Tail(results) /\ results # <<>>)
    <3>1. results # <<>> => Tail(results) # results
      <4>1. results # <<>> => Len(Tail(results)) = Len(results) - 1 /\ Len(results) \in Nat
        BY <1>0
      <4> QED BY <4>1
    <3> QED BY <1>3, <3>1
  <2>2. \A i \in DOMAIN results : calls'[results[i]].st \in {"got", "error"}
    BY <1>0, <1>3, <2>1, ResultWaits
  <2>3. results \in Seq(InUse')
    BY <1>0, <1>1
  <2> QED BY <1>0, <1>3, <2>2, <2>3 DEF ResultsInv
<1>4. ASSUME NEW c \in InUse, results' = Append(results, c), ExecSelect(c) \/ ExecSelectFail(c)
      PROVE  ResultsInv'
  <2>1. calls[c].st = "batch" /\ calls'[c].st \in {"got", "error"}
    <3>1. ASSUME ExecSelectFail(c) PROVE calls[c].st = "batch" /\ calls'[c].st = "error"
      <4>1. Sets(c, "error") /\ calls[c].st = "batch"
        BY <3>1 DEF ExecSelectFail, Sets
      <4> QED BY <4>1, SetsPuts DEF CallsInv, Stages
    <3> QED BY <1>4, <3>1, ReadPuts
  <2>2. \A i \in DOMAIN results : results[i] # c
    BY <1>0, <2>1
  <2>3. ~Kill
    <3>1. Kill => results' = <<>>
      BY DEF Kill
    <3>2. Len(results') = Len(results) + 1 /\ Len(results) \in Nat
      BY <1>0, <1>4
    <3> QED BY <3>1, <3>2
  <2>4. results' # Tail(results) \/ results = <<>>
    <3>1. Len(results') = Len(results) + 1 /\ Len(results) \in Nat
      BY <1>0, <1>4
    <3>2. results # <<>> => Len(Tail(results)) = Len(results) - 1
      BY <1>0
    <3> QED BY <3>1, <3>2
  <2>5. \A i \in DOMAIN results : calls'[results[i]].st \in {"got", "error"}
    BY <1>0, <2>3, <2>4, ResultWaits
  <2>6. results' \in Seq(InUse')
    <3>1. results \in Seq(InUse') /\ c \in InUse'
      BY <1>0, <1>1
    <3> QED BY <1>4, <3>1
  <2>7. DOMAIN results' = DOMAIN results \cup {Len(results) + 1}
    BY <1>0, <1>4
  <2>8. /\ \A i \in DOMAIN results : results'[i] = results[i]
        /\ results'[Len(results) + 1] = c
    BY <1>0, <1>4
  <2>9. \A i \in DOMAIN results' : calls'[results'[i]].st \in {"got", "error"}
    BY <2>1, <2>5, <2>7, <2>8
  <2>10. \A i, j \in DOMAIN results' : results'[i] = results'[j] => i = j
    BY <1>0, <2>2, <2>7, <2>8
  <2> QED BY <2>6, <2>9, <2>10 DEF ResultsInv
<1>5. ASSUME NEW c \in InUse, results' = Tail(results), Callback(c), ~Kill
      PROVE  ResultsInv'
  <2>1. results # <<>> /\ Head(results) = c
    BY <1>5, CallbackAnswers DEF Answers, Polled
  <2>2. /\ Len(results) \in Nat \ {0} /\ results[1] = c /\ 1 \in DOMAIN results
        /\ DOMAIN Tail(results) = 1 .. Len(results) - 1 /\ Tail(results) \in Seq(InUse)
    BY <1>0, <2>1
  <2>3. \A i \in DOMAIN Tail(results) : /\ Tail(results)[i] = results[i + 1]
                                        /\ i + 1 \in DOMAIN results /\ i + 1 # 1 /\ i \in Nat
    BY <1>0, <2>2
  <2>4. \A i \in DOMAIN Tail(results) : Tail(results)[i] # c
    BY <1>0, <2>2, <2>3
  <2>5. \A i \in DOMAIN Tail(results) : Tail(results)[i] \in InUse
                                        /\ calls'[Tail(results)[i]].st \in {"got", "error"}
    <3> SUFFICES ASSUME NEW i \in DOMAIN Tail(results)
                 PROVE  Tail(results)[i] \in InUse
                        /\ calls'[Tail(results)[i]].st \in {"got", "error"}
      OBVIOUS
    <3> DEFINE d == Tail(results)[i]
    <3>1. d \in InUse /\ calls[d].st \in {"got", "error"} /\ d # c
      BY <1>0, <2>3, <2>4
    <3> HIDE DEF d
    <3>2. calls'[d].st = calls[d].st
      BY <1>5, <2>1, <3>1, ResultWaits
    <3> QED BY <3>1, <3>2 DEF d
  <2>6. \A i, j \in DOMAIN Tail(results) : Tail(results)[i] = Tail(results)[j] => i = j
    <3> SUFFICES ASSUME NEW i \in DOMAIN Tail(results), NEW j \in DOMAIN Tail(results),
                        Tail(results)[i] = Tail(results)[j]
                 PROVE  i = j
      OBVIOUS
    <3>1. i + 1 = j + 1 /\ i \in Nat /\ j \in Nat
      BY <1>0, <2>3
    <3> QED BY <3>1
  <2>7. results' \in Seq(InUse')
    BY <1>1, <1>5, <2>2
  <2> QED BY <1>5, <2>5, <2>6, <2>7 DEF ResultsInv
<1> QED BY <1>2, <1>3, <1>4, <1>5, ResultMoves

(* Which actions change the tables, the balances, the ledger and the       *)
(* histories.                                                              *)
Still == UNCHANGED <<db, day, bal, ledger, history>>

LEMMA StillActions ==
  ASSUME NEW c, \/ CallbackError(c) \/ NextSelect(c) \/ TransRead(c) \/ Detail(c)
                \/ DeleteOwn(c) \/ DeleteAll(c) \/ Arrive(c) \/ AttachRefuse(c)
                \/ PresentRefuse(c) \/ SignList(c) \/ TransNext(c) \/ SignRefuse(c)
                \/ ItemRefused(c) \/ ExecSelectFail(c)
  PROVE  Still
<1>1. CallbackError(c) \/ NextSelect(c) \/ TransRead(c) \/ Detail(c) => Still
  BY DEF CallbackError, NextSelect, TransRead, Detail, Still
<1>2. DeleteOwn(c) \/ DeleteAll(c) \/ Arrive(c) \/ AttachRefuse(c) => Still
  BY DEF DeleteOwn, DeleteAll, Arrive, AttachRefuse, Still
<1>3. PresentRefuse(c) \/ SignList(c) \/ TransNext(c) \/ SignRefuse(c) => Still
  BY DEF PresentRefuse, SignList, TransNext, SignRefuse, Still
<1>4. ItemRefused(c) \/ ExecSelectFail(c) => Still
  BY DEF ItemRefused, ExecSelectFail, Still
<1> QED BY <1>1, <1>2, <1>3, <1>4

LEMMA Moves ==
  ASSUME [Next]_vars
  PROVE  /\ \/ db' = db
            \/ \E c \in InUse : DeleteSys(c)
            \/ \E w \in batch : ExecWrite(w)
            \/ \E p \in Presents : Issue(p)
         /\ \/ day' = day
            \/ NextDay
         /\ \/ bal' = bal
            \/ \E c \in InUse : \/ BuyRefused(c) \/ Buy(c) \/ BuyByActivity(c)
                                \/ BuyBroken(c) \/ Use(c) \/ Send(c)
         /\ \/ given' = given
            \/ \E c \in InUse : AttachOwn(c) \/ Present(c) \/ PresentBroken(c)
         /\ \/ failed' = failed
            \/ \E c \in InUse : AttachOwn(c)
         /\ \/ strayed' = strayed
            \/ \E c \in InUse : AttachSys(c)
         /\ \/ issued' = issued
            \/ \E p \in Presents : Issue(p)
         /\ \/ signed' = signed
            \/ \E c \in InUse : Sign(c)
            \/ NextDay
         /\ \/ serials' = serials
            \/ \E c \in InUse : Serial(c)
            \/ \E w \in batch : ExecWrite(w)
         /\ \/ vips' = vips
            \/ \E c \in InUse : Vip(c)
            \/ NextDay
         /\ \/ bought' = bought
            \/ \E c \in InUse : Buy(c) \/ BuyByActivity(c)
         /\ \/ today' = today
            \/ \E c \in InUse : Buy(c) \/ BuyByActivity(c)
            \/ NextDay
         /\ \/ unserved' = unserved
            \/ \E c \in InUse : BuyRefused(c) \/ BuyBroken(c) \/ Use(c) \/ Send(c)
         /\ \/ sent' = sent
            \/ \E c \in InUse : Send(c)
         /\ \/ used' = used
            \/ \E c \in InUse : Use(c)
         /\ \/ raced' = raced
            \/ \E c \in InUse : ExecSelect(c)
            \/ \E p \in Presents : Issue(p)
         /\ \/ open' = open
            \/ \E c \in InUse : PresentBroken(c) \/ SignBroken(c)
            \/ \E w \in batch : ExecWriteFail(w)
            \/ DbGone
            \/ Kill
         /\ \/ late' = late
            \/ NextDay
         /\ raced \subseteq raced' /\ open \subseteq open' /\ (late => late')
<1> USE DEF Still, ledger, claimed, paidFor, history
<1>1. ASSUME NEW c \in InUse, ExecSelect(c) PROVE UNCHANGED <<db, day, bal, given,
       failed, strayed, issued, signed, serials, vips, bought, today, unserved, sent, used,
       open, late>> /\ raced \subseteq raced'
  BY <1>1 DEF ExecSelect
<1>2. ASSUME NEW c \in InUse, DeleteSys(c) PROVE UNCHANGED <<day, bal, given, failed,
       strayed, issued, signed, serials, vips, bought, today, unserved, sent, used, raced,
       open, late>>
  BY <1>2 DEF DeleteSys
<1>3. ASSUME NEW c \in InUse, AttachOwn(c) PROVE UNCHANGED <<db, day, bal, strayed,
       issued, signed, serials, vips, bought, today, unserved, sent, used, raced, open,
       late>>
  BY <1>3 DEF AttachOwn
<1>4. ASSUME NEW c \in InUse, AttachSys(c) PROVE UNCHANGED <<db, day, bal, given,
       failed, issued, signed, serials, vips, bought, today, unserved, sent, used, raced,
       open, late>>
  BY <1>4 DEF AttachSys
<1>5. ASSUME NEW c \in InUse, Present(c) PROVE UNCHANGED <<db, day, bal, failed,
       strayed, issued, signed, serials, vips, bought, today, unserved, sent, used, raced,
       open, late>>
  BY <1>5 DEF Present
<1>6. ASSUME NEW c \in InUse, PresentBroken(c) PROVE UNCHANGED <<db, day, bal,
       failed, strayed, issued, signed, serials, vips, bought, today, unserved, sent, used,
       raced, late>> /\ open \subseteq open'
  BY <1>6 DEF PresentBroken
<1>7. ASSUME NEW c \in InUse, Vip(c) PROVE UNCHANGED <<db, day, bal, given, failed,
       strayed, issued, signed, serials, bought, today, unserved, sent, used, raced, open,
       late>>
  BY <1>7 DEF Vip
<1>8. ASSUME NEW c \in InUse, Sign(c) PROVE UNCHANGED <<db, day, bal, given, failed,
       strayed, issued, serials, vips, bought, today, unserved, sent, used, raced, open,
       late>>
  BY <1>8 DEF Sign
<1>9. ASSUME NEW c \in InUse, Serial(c) PROVE UNCHANGED <<db, day, bal, given,
       failed, strayed, issued, signed, vips, bought, today, unserved, sent, used, raced,
       open, late>>
  BY <1>9 DEF Serial
<1>10. ASSUME NEW c \in InUse, SignBroken(c) PROVE UNCHANGED <<db, day, bal, given,
       failed, strayed, issued, signed, serials, vips, bought, today, unserved, sent, used,
       raced, late>> /\ open \subseteq open'
  BY <1>10 DEF SignBroken
<1>11. ASSUME NEW c \in InUse, BuyRefused(c) PROVE UNCHANGED <<db, day, given,
       failed, strayed, issued, signed, serials, vips, bought, today, sent, used, raced,
       open, late>>
  BY <1>11 DEF BuyRefused
<1>12. ASSUME NEW c \in InUse, Buy(c) PROVE UNCHANGED <<db, day, given, failed,
       strayed, issued, signed, serials, vips, unserved, sent, used, raced, open, late>>
  BY <1>12 DEF Buy, Purchase
<1>13. ASSUME NEW c \in InUse, BuyByActivity(c) PROVE UNCHANGED <<db, day, given,
       failed, strayed, issued, signed, serials, vips, unserved, sent, used, raced, open,
       late>>
  BY <1>13 DEF BuyByActivity, Purchase
<1>14. ASSUME NEW c \in InUse, BuyBroken(c) PROVE UNCHANGED <<db, day, given, failed,
       strayed, issued, signed, serials, vips, bought, today, sent, used, raced, open,
       late>>
  BY <1>14 DEF BuyBroken
<1>15. ASSUME NEW c \in InUse, Use(c) PROVE UNCHANGED <<db, day, given, failed,
       strayed, issued, signed, serials, vips, bought, today, sent, raced, open, late>>
  BY <1>15 DEF Use
<1>16. ASSUME NEW c \in InUse, Send(c) PROVE UNCHANGED <<db, day, given, failed,
       strayed, issued, signed, serials, vips, bought, today, used, raced, open, late>>
  BY <1>16 DEF Send
<1>17. ASSUME NEW w \in batch, ExecWrite(w) PROVE UNCHANGED <<day, bal, given,
       failed, strayed, issued, signed, vips, bought, today, unserved, sent, used, raced,
       open, late>>
  BY <1>17 DEF ExecWrite
<1>18. ASSUME NEW w \in batch, ExecWriteFail(w) PROVE UNCHANGED <<db, day, bal,
       given, failed, strayed, issued, signed, serials, vips, bought, today, unserved, sent,
       used, raced, late>> /\ open \subseteq open'
  BY <1>18 DEF ExecWriteFail
<1>19. ASSUME NEW p \in Presents, Issue(p) PROVE UNCHANGED <<day, bal, given, failed,
       strayed, signed, serials, vips, bought, today, unserved, sent, used, open, late>> /\
       raced \subseteq raced'
  BY <1>19 DEF Issue
<1>20. ASSUME DbGone PROVE UNCHANGED <<db, day, bal, given, failed, strayed, issued,
       signed, serials, vips, bought, today, unserved, sent, used, raced, late>>
             /\ open \subseteq open'
  BY <1>20 DEF DbGone
<1>21. ASSUME NextDay PROVE UNCHANGED <<db, bal, given, failed, strayed, issued,
       serials, bought, unserved, sent, used, raced, open>> /\ (late => late')
  BY <1>21 DEF NextDay
<1>22. ASSUME Kill PROVE UNCHANGED <<db, day, bal, given, failed, strayed, issued,
       signed, serials, vips, bought, today, unserved, sent, used, raced, late>>
             /\ open \subseteq open'
  BY <1>22 DEF Kill
<1>23. ASSUME NEW r \in Requests, Start(r) PROVE Still
  BY <1>23 DEF Start
<1>24. ASSUME TakeBatch \/ UNCHANGED vars PROVE Still
  BY <1>24 DEF TakeBatch, vars
<1> DEFINE Noisy1(c) == \/ ExecSelect(c) \/ DeleteSys(c) \/ AttachOwn(c) \/ AttachSys(c)
                       \/ Present(c) \/ PresentBroken(c) \/ Vip(c) \/ Sign(c)
           Noisy2(c) == \/ Serial(c) \/ SignBroken(c) \/ BuyRefused(c) \/ Buy(c)
                       \/ BuyByActivity(c) \/ BuyBroken(c) \/ Use(c) \/ Send(c)
<1>25. \/ Still
       \/ \E c \in InUse : Noisy1(c)
       \/ \E c \in InUse : Noisy2(c)
       \/ \E w \in batch : ExecWrite(w) \/ ExecWriteFail(w)
       \/ \E p \in Presents : Issue(p)
       \/ DbGone \/ NextDay \/ Kill
  <2> HIDE DEF Still
  <2>1. ASSUME NEW c \in InUse, Callback(c) PROVE Still \/ Noisy1(c) \/ Noisy2(c)
    BY <2>1, StillActions DEF Callback
  <2>2. ASSUME NEW c \in InUse, Step(c) PROVE Still \/ Noisy1(c) \/ Noisy2(c)
    BY <2>2, StillActions DEF Step
  <2>3. ASSUME NEW c \in InUse, ExecSelect(c) \/ ExecSelectFail(c) PROVE Still \/ Noisy1(c)
    BY <2>3, StillActions
  <2> HIDE DEF Noisy1, Noisy2
  <2> QED BY <1>23, <1>24, <2>1, <2>2, <2>3 DEF Next
<1>26. \/ db' = db
       \/ \E c \in InUse : DeleteSys(c)
       \/ \E w \in batch : ExecWrite(w)
       \/ \E p \in Presents : Issue(p)
  <2>1. \A c \in InUse : Noisy1(c) => db' = db \/ DeleteSys(c)
    BY <1>1, <1>2, <1>3, <1>4, <1>5, <1>6, <1>7, <1>8
  <2>2. \A c \in InUse : Noisy2(c) => db' = db
    BY <1>9, <1>10, <1>11, <1>12, <1>13, <1>14, <1>15, <1>16
  <2>3. \A w \in batch : ExecWrite(w) \/ ExecWriteFail(w) => db' = db \/ ExecWrite(w)
    BY <1>17, <1>18
  <2> HIDE DEF Noisy1, Noisy2
  <2> QED BY <1>19, <1>20, <1>21, <1>22, <1>25, <2>1, <2>2, <2>3
<1>27. \/ day' = day
       \/ NextDay
  <2>1. \A c \in InUse : Noisy1(c) => day' = day
    BY <1>1, <1>2, <1>3, <1>4, <1>5, <1>6, <1>7, <1>8
  <2>2. \A c \in InUse : Noisy2(c) => day' = day
    BY <1>9, <1>10, <1>11, <1>12, <1>13, <1>14, <1>15, <1>16
  <2>3. \A w \in batch : ExecWrite(w) \/ ExecWriteFail(w) => day' = day
    BY <1>17, <1>18
  <2> HIDE DEF Noisy1, Noisy2
  <2> QED BY <1>19, <1>20, <1>21, <1>22, <1>25, <2>1, <2>2, <2>3
<1>28. \/ bal' = bal
       \/ \E c \in InUse : \/ BuyRefused(c) \/ Buy(c) \/ BuyByActivity(c)
                           \/ BuyBroken(c) \/ Use(c) \/ Send(c)
  <2>1. \A c \in InUse : Noisy1(c) => bal' = bal
    BY <1>1, <1>2, <1>3, <1>4, <1>5, <1>6, <1>7, <1>8
  <2>2. \A c \in InUse : Noisy2(c) => bal' = bal \/ BuyRefused(c) \/ Buy(c) \/ BuyByActivity(c) \/ BuyBroken(c) \/ Use(c) \/ Send(c)
    BY <1>9, <1>10, <1>11, <1>12, <1>13, <1>14, <1>15, <1>16
  <2>3. \A w \in batch : ExecWrite(w) \/ ExecWriteFail(w) => bal' = bal
    BY <1>17, <1>18
  <2> HIDE DEF Noisy1, Noisy2
  <2> QED BY <1>19, <1>20, <1>21, <1>22, <1>25, <2>1, <2>2, <2>3
<1>29. \/ given' = given
       \/ \E c \in InUse : AttachOwn(c) \/ Present(c) \/ PresentBroken(c)
  <2>1. \A c \in InUse : Noisy1(c) => given' = given \/ AttachOwn(c) \/ Present(c) \/ PresentBroken(c)
    BY <1>1, <1>2, <1>3, <1>4, <1>5, <1>6, <1>7, <1>8
  <2>2. \A c \in InUse : Noisy2(c) => given' = given
    BY <1>9, <1>10, <1>11, <1>12, <1>13, <1>14, <1>15, <1>16
  <2>3. \A w \in batch : ExecWrite(w) \/ ExecWriteFail(w) => given' = given
    BY <1>17, <1>18
  <2> HIDE DEF Noisy1, Noisy2
  <2> QED BY <1>19, <1>20, <1>21, <1>22, <1>25, <2>1, <2>2, <2>3
<1>30. \/ failed' = failed
       \/ \E c \in InUse : AttachOwn(c)
  <2>1. \A c \in InUse : Noisy1(c) => failed' = failed \/ AttachOwn(c)
    BY <1>1, <1>2, <1>3, <1>4, <1>5, <1>6, <1>7, <1>8
  <2>2. \A c \in InUse : Noisy2(c) => failed' = failed
    BY <1>9, <1>10, <1>11, <1>12, <1>13, <1>14, <1>15, <1>16
  <2>3. \A w \in batch : ExecWrite(w) \/ ExecWriteFail(w) => failed' = failed
    BY <1>17, <1>18
  <2> HIDE DEF Noisy1, Noisy2
  <2> QED BY <1>19, <1>20, <1>21, <1>22, <1>25, <2>1, <2>2, <2>3
<1>31. \/ strayed' = strayed
       \/ \E c \in InUse : AttachSys(c)
  <2>1. \A c \in InUse : Noisy1(c) => strayed' = strayed \/ AttachSys(c)
    BY <1>1, <1>2, <1>3, <1>4, <1>5, <1>6, <1>7, <1>8
  <2>2. \A c \in InUse : Noisy2(c) => strayed' = strayed
    BY <1>9, <1>10, <1>11, <1>12, <1>13, <1>14, <1>15, <1>16
  <2>3. \A w \in batch : ExecWrite(w) \/ ExecWriteFail(w) => strayed' = strayed
    BY <1>17, <1>18
  <2> HIDE DEF Noisy1, Noisy2
  <2> QED BY <1>19, <1>20, <1>21, <1>22, <1>25, <2>1, <2>2, <2>3
<1>32. \/ issued' = issued
       \/ \E p \in Presents : Issue(p)
  <2>1. \A c \in InUse : Noisy1(c) => issued' = issued
    BY <1>1, <1>2, <1>3, <1>4, <1>5, <1>6, <1>7, <1>8
  <2>2. \A c \in InUse : Noisy2(c) => issued' = issued
    BY <1>9, <1>10, <1>11, <1>12, <1>13, <1>14, <1>15, <1>16
  <2>3. \A w \in batch : ExecWrite(w) \/ ExecWriteFail(w) => issued' = issued
    BY <1>17, <1>18
  <2> HIDE DEF Noisy1, Noisy2
  <2> QED BY <1>19, <1>20, <1>21, <1>22, <1>25, <2>1, <2>2, <2>3
<1>33. \/ signed' = signed
       \/ \E c \in InUse : Sign(c)
       \/ NextDay
  <2>1. \A c \in InUse : Noisy1(c) => signed' = signed \/ Sign(c)
    BY <1>1, <1>2, <1>3, <1>4, <1>5, <1>6, <1>7, <1>8
  <2>2. \A c \in InUse : Noisy2(c) => signed' = signed
    BY <1>9, <1>10, <1>11, <1>12, <1>13, <1>14, <1>15, <1>16
  <2>3. \A w \in batch : ExecWrite(w) \/ ExecWriteFail(w) => signed' = signed
    BY <1>17, <1>18
  <2> HIDE DEF Noisy1, Noisy2
  <2> QED BY <1>19, <1>20, <1>21, <1>22, <1>25, <2>1, <2>2, <2>3
<1>34. \/ serials' = serials
       \/ \E c \in InUse : Serial(c)
       \/ \E w \in batch : ExecWrite(w)
  <2>1. \A c \in InUse : Noisy1(c) => serials' = serials
    BY <1>1, <1>2, <1>3, <1>4, <1>5, <1>6, <1>7, <1>8
  <2>2. \A c \in InUse : Noisy2(c) => serials' = serials \/ Serial(c)
    BY <1>9, <1>10, <1>11, <1>12, <1>13, <1>14, <1>15, <1>16
  <2>3. \A w \in batch : ExecWrite(w) \/ ExecWriteFail(w) => serials' = serials \/ ExecWrite(w)
    BY <1>17, <1>18
  <2> HIDE DEF Noisy1, Noisy2
  <2> QED BY <1>19, <1>20, <1>21, <1>22, <1>25, <2>1, <2>2, <2>3
<1>35. \/ vips' = vips
       \/ \E c \in InUse : Vip(c)
       \/ NextDay
  <2>1. \A c \in InUse : Noisy1(c) => vips' = vips \/ Vip(c)
    BY <1>1, <1>2, <1>3, <1>4, <1>5, <1>6, <1>7, <1>8
  <2>2. \A c \in InUse : Noisy2(c) => vips' = vips
    BY <1>9, <1>10, <1>11, <1>12, <1>13, <1>14, <1>15, <1>16
  <2>3. \A w \in batch : ExecWrite(w) \/ ExecWriteFail(w) => vips' = vips
    BY <1>17, <1>18
  <2> HIDE DEF Noisy1, Noisy2
  <2> QED BY <1>19, <1>20, <1>21, <1>22, <1>25, <2>1, <2>2, <2>3
<1>36. \/ bought' = bought
       \/ \E c \in InUse : Buy(c) \/ BuyByActivity(c)
  <2>1. \A c \in InUse : Noisy1(c) => bought' = bought
    BY <1>1, <1>2, <1>3, <1>4, <1>5, <1>6, <1>7, <1>8
  <2>2. \A c \in InUse : Noisy2(c) => bought' = bought \/ Buy(c) \/ BuyByActivity(c)
    BY <1>9, <1>10, <1>11, <1>12, <1>13, <1>14, <1>15, <1>16
  <2>3. \A w \in batch : ExecWrite(w) \/ ExecWriteFail(w) => bought' = bought
    BY <1>17, <1>18
  <2> HIDE DEF Noisy1, Noisy2
  <2> QED BY <1>19, <1>20, <1>21, <1>22, <1>25, <2>1, <2>2, <2>3
<1>37. \/ today' = today
       \/ \E c \in InUse : Buy(c) \/ BuyByActivity(c)
       \/ NextDay
  <2>1. \A c \in InUse : Noisy1(c) => today' = today
    BY <1>1, <1>2, <1>3, <1>4, <1>5, <1>6, <1>7, <1>8
  <2>2. \A c \in InUse : Noisy2(c) => today' = today \/ Buy(c) \/ BuyByActivity(c)
    BY <1>9, <1>10, <1>11, <1>12, <1>13, <1>14, <1>15, <1>16
  <2>3. \A w \in batch : ExecWrite(w) \/ ExecWriteFail(w) => today' = today
    BY <1>17, <1>18
  <2> HIDE DEF Noisy1, Noisy2
  <2> QED BY <1>19, <1>20, <1>21, <1>22, <1>25, <2>1, <2>2, <2>3
<1>38. \/ unserved' = unserved
       \/ \E c \in InUse : BuyRefused(c) \/ BuyBroken(c) \/ Use(c) \/ Send(c)
  <2>1. \A c \in InUse : Noisy1(c) => unserved' = unserved
    BY <1>1, <1>2, <1>3, <1>4, <1>5, <1>6, <1>7, <1>8
  <2>2. \A c \in InUse : Noisy2(c) => unserved' = unserved \/ BuyRefused(c) \/ BuyBroken(c) \/ Use(c) \/ Send(c)
    BY <1>9, <1>10, <1>11, <1>12, <1>13, <1>14, <1>15, <1>16
  <2>3. \A w \in batch : ExecWrite(w) \/ ExecWriteFail(w) => unserved' = unserved
    BY <1>17, <1>18
  <2> HIDE DEF Noisy1, Noisy2
  <2> QED BY <1>19, <1>20, <1>21, <1>22, <1>25, <2>1, <2>2, <2>3
<1>39. \/ sent' = sent
       \/ \E c \in InUse : Send(c)
  <2>1. \A c \in InUse : Noisy1(c) => sent' = sent
    BY <1>1, <1>2, <1>3, <1>4, <1>5, <1>6, <1>7, <1>8
  <2>2. \A c \in InUse : Noisy2(c) => sent' = sent \/ Send(c)
    BY <1>9, <1>10, <1>11, <1>12, <1>13, <1>14, <1>15, <1>16
  <2>3. \A w \in batch : ExecWrite(w) \/ ExecWriteFail(w) => sent' = sent
    BY <1>17, <1>18
  <2> HIDE DEF Noisy1, Noisy2
  <2> QED BY <1>19, <1>20, <1>21, <1>22, <1>25, <2>1, <2>2, <2>3
<1>40. \/ used' = used
       \/ \E c \in InUse : Use(c)
  <2>1. \A c \in InUse : Noisy1(c) => used' = used
    BY <1>1, <1>2, <1>3, <1>4, <1>5, <1>6, <1>7, <1>8
  <2>2. \A c \in InUse : Noisy2(c) => used' = used \/ Use(c)
    BY <1>9, <1>10, <1>11, <1>12, <1>13, <1>14, <1>15, <1>16
  <2>3. \A w \in batch : ExecWrite(w) \/ ExecWriteFail(w) => used' = used
    BY <1>17, <1>18
  <2> HIDE DEF Noisy1, Noisy2
  <2> QED BY <1>19, <1>20, <1>21, <1>22, <1>25, <2>1, <2>2, <2>3
<1>41. \/ raced' = raced
       \/ \E c \in InUse : ExecSelect(c)
       \/ \E p \in Presents : Issue(p)
  <2>1. \A c \in InUse : Noisy1(c) => raced' = raced \/ ExecSelect(c)
    BY <1>1, <1>2, <1>3, <1>4, <1>5, <1>6, <1>7, <1>8
  <2>2. \A c \in InUse : Noisy2(c) => raced' = raced
    BY <1>9, <1>10, <1>11, <1>12, <1>13, <1>14, <1>15, <1>16
  <2>3. \A w \in batch : ExecWrite(w) \/ ExecWriteFail(w) => raced' = raced
    BY <1>17, <1>18
  <2> HIDE DEF Noisy1, Noisy2
  <2> QED BY <1>19, <1>20, <1>21, <1>22, <1>25, <2>1, <2>2, <2>3
<1>42. \/ open' = open
       \/ \E c \in InUse : PresentBroken(c) \/ SignBroken(c)
       \/ \E w \in batch : ExecWriteFail(w)
       \/ DbGone
       \/ Kill
  <2>1. \A c \in InUse : Noisy1(c) => open' = open \/ PresentBroken(c)
    BY <1>1, <1>2, <1>3, <1>4, <1>5, <1>6, <1>7, <1>8
  <2>2. \A c \in InUse : Noisy2(c) => open' = open \/ SignBroken(c)
    BY <1>9, <1>10, <1>11, <1>12, <1>13, <1>14, <1>15, <1>16
  <2>3. \A w \in batch : ExecWrite(w) \/ ExecWriteFail(w) => open' = open \/ ExecWriteFail(w)
    BY <1>17, <1>18
  <2> HIDE DEF Noisy1, Noisy2
  <2> QED BY <1>19, <1>20, <1>21, <1>22, <1>25, <2>1, <2>2, <2>3
<1>43. \/ late' = late
       \/ NextDay
  <2>1. \A c \in InUse : Noisy1(c) => late' = late
    BY <1>1, <1>2, <1>3, <1>4, <1>5, <1>6, <1>7, <1>8
  <2>2. \A c \in InUse : Noisy2(c) => late' = late
    BY <1>9, <1>10, <1>11, <1>12, <1>13, <1>14, <1>15, <1>16
  <2>3. \A w \in batch : ExecWrite(w) \/ ExecWriteFail(w) => late' = late
    BY <1>17, <1>18
  <2> HIDE DEF Noisy1, Noisy2
  <2> QED BY <1>19, <1>20, <1>21, <1>22, <1>25, <2>1, <2>2, <2>3
<1>44. raced \subseteq raced' /\ open \subseteq open' /\ (late => late')
  <2>1. \A c \in InUse : Noisy1(c) => raced \subseteq raced' /\ open \subseteq open' /\ (late => late')
    BY <1>1, <1>2, <1>3, <1>4, <1>5, <1>6, <1>7, <1>8
  <2>2. \A c \in InUse : Noisy2(c) => raced \subseteq raced' /\ open \subseteq open' /\ (late => late')
    BY <1>9, <1>10, <1>11, <1>12, <1>13, <1>14, <1>15, <1>16
  <2> HIDE DEF Noisy1, Noisy2
  <2> QED BY <1>17, <1>18, <1>19, <1>20, <1>21, <1>22, <1>25, <2>1, <2>2
<1> QED BY <1>26, <1>27, <1>28, <1>29, <1>30, <1>31, <1>32, <1>33, <1>34, <1>35, <1>36,
        <1>37, <1>38, <1>39, <1>40, <1>41, <1>42, <1>43, <1>44

LEMMA FaultMoves ==
  ASSUME [Next]_vars
  PROVE  faults' = faults \/ Fault
<1> DEFINE Goal == faults' = faults \/ Fault
<1>1. ASSUME NEW c, \/ CallbackError(c) \/ NextSelect(c) \/ TransRead(c) \/ Detail(c)
                    \/ DeleteOwn(c) \/ DeleteSys(c) \/ DeleteAll(c) \/ Arrive(c)
      PROVE  Goal
  BY <1>1 DEF CallbackError, NextSelect, TransRead, Detail, DeleteOwn, DeleteSys, DeleteAll,
              Arrive
<1>2. ASSUME NEW c, \/ AttachRefuse(c) \/ AttachOwn(c) \/ AttachSys(c) \/ PresentRefuse(c)
                    \/ Present(c) \/ PresentBroken(c) \/ Vip(c) \/ SignList(c)
      PROVE  Goal
  BY <1>2 DEF AttachRefuse, AttachOwn, AttachSys, PresentRefuse, Present, PresentBroken, Vip,
              SignList
<1>3. ASSUME NEW c, TransNext(c) \/ SignRefuse(c) \/ Sign(c) \/ Serial(c) \/ SignBroken(c)
      PROVE  Goal
  BY <1>3 DEF TransNext, SignRefuse, Sign, Serial, SignBroken
<1>4. ASSUME NEW c, \/ BuyRefused(c) \/ Buy(c) \/ BuyByActivity(c) \/ BuyBroken(c)
                    \/ ItemRefused(c) \/ Use(c) \/ Send(c)
      PROVE  Goal
  <2>1. Buy(c) \/ BuyByActivity(c) \/ BuyBroken(c) => Goal
    BY DEF Buy, BuyByActivity, Purchase, BuyBroken
  <2>2. BuyRefused(c) => Goal
    BY DEF BuyRefused
  <2>3. ItemRefused(c) => Goal
    BY DEF ItemRefused
  <2>4. Use(c) => Goal
    BY DEF Use
  <2>5. Send(c) => Goal
    BY DEF Send
  <2> QED BY <1>4, <2>1, <2>2, <2>3, <2>4, <2>5
<1>5. ASSUME NEW c \in InUse, ExecSelect(c) \/ ExecSelectFail(c) PROVE Goal
  BY <1>5 DEF ExecSelect, ExecSelectFail
<1>6. ASSUME NEW w \in batch, ExecWrite(w) \/ ExecWriteFail(w) PROVE Goal
  BY <1>6 DEF ExecWrite, ExecWriteFail
<1>7. ASSUME NEW r \in Requests, Start(r) PROVE Goal
  BY <1>7 DEF Start
<1>8. ASSUME NEW p \in Presents, Issue(p) PROVE Goal
  BY <1>8 DEF Issue
<1>9. ASSUME TakeBatch \/ DbGone \/ NextDay \/ Kill \/ UNCHANGED vars PROVE Goal
  BY <1>9 DEF TakeBatch, DbGone, NextDay, Kill, vars
<1>10. ASSUME NEW c \in InUse, Callback(c) PROVE Goal
  <2> HIDE DEF Goal
  <2> QED BY <1>1, <1>2, <1>10 DEF Callback
<1>11. ASSUME NEW c \in InUse, Step(c) PROVE Goal
  <2> HIDE DEF Goal
  <2> QED BY <1>3, <1>4, <1>11 DEF Step
<1> HIDE DEF Goal
<1>12. Goal
  BY <1>5, <1>6, <1>7, <1>8, <1>9, <1>10, <1>11 DEF Next
<1> QED BY <1>12 DEF Goal

-----------------------------------------------------------------------------
(* Amounts *)

Lists == Seq([cur : Currencies, num : Nat])

LEMMA ElementOf ==
  ASSUME NEW S, NEW s \in Seq(S)
  PROVE  \A i \in DOMAIN s : s[i] \in S
OBVIOUS

LEMMA ProductNat ==
  ASSUME NEW m \in Nat, NEW n \in Nat
  PROVE  m * n \in Nat
OBVIOUS

LEMMA AmountType ==
  ASSUME NEW list \in Lists, NEW js \in SUBSET (DOMAIN list), NEW cur
  PROVE  IsFiniteSet(js) /\ Amount(list, js, cur) \in Nat
<1> DEFINE f == [j \in js |-> IF list[j].cur = cur THEN list[j].num ELSE 0]
           z == [j \in js |-> 0]
<1>1. DOMAIN list = 1 .. Len(list) /\ Len(list) \in Nat
  BY DEF Lists
<1>2. IsFiniteSet(js)
  <2> DEFINE all == 1 .. Len(list)
  <2>0. 1 \in Int /\ Len(list) \in Int
    BY <1>1
  <2>1. IsFiniteSet(all)
    BY <2>0, FS_Interval
  <2>2. js \in SUBSET all
    BY <1>1
  <2> HIDE DEF all
  <2> QED BY <2>1, <2>2, FS_Subset
<1>3. \A j \in js : f[j] \in Nat /\ z[j] = 0
  <2>1. \A j \in DOMAIN list : list[j] \in [cur : Currencies, num : Nat]
    BY ElementOf DEF Lists
  <2>2. \A j \in js : list[j].num \in Nat
    BY <2>1
  <2> QED BY <2>2
<1>4. SumOver(f, js) \in Int
  <2> HIDE DEF f
  <2> QED BY <1>2, <1>3, SumType
<1>5. SumOver(z, js) <= SumOver(f, js)
  <2> HIDE DEF f, z
  <2>1. \A j \in js : z[j] \in Int /\ f[j] \in Int /\ z[j] <= f[j]
    BY <1>3
  <2> QED BY <1>2, <2>1, SumAtMost
<1>6. SumOver(z, js) = 0
  BY <1>2, SumZero
<1>7. SumOver(f, js) \in Nat
  <2> HIDE DEF f, z
  <2> QED BY <1>4, <1>5, <1>6
<1> QED BY <1>2, <1>7 DEF Amount

LEMMA CostType ==
  ASSUME NEW g \in Goods, NEW js \in SUBSET (DOMAIN Price[g]), NEW cur, NEW n \in Nat
  PROVE  Cost(g, js, cur) \in Nat /\ n * Cost(g, js, cur) \in Nat
<1>1. Price[g] \in Lists
  BY RewardsAssumption DEF Lists
<1>2. Cost(g, js, cur) \in Nat
  BY <1>1, AmountType DEF Cost
<1> HIDE DEF Cost
<1> QED BY <1>2, ProductNat

LEMMA YieldType ==
  ASSUME NEW x \in Currencies, NEW js \in SUBSET (DOMAIN Yield[x]), NEW cur, NEW n \in Nat
  PROVE  Amount(Yield[x], js, cur) \in Nat /\ n * Amount(Yield[x], js, cur) \in Nat
<1>1. Yield[x] \in Lists
  BY RewardsAssumption DEF Lists
<1>2. Amount(Yield[x], js, cur) \in Nat
  BY <1>1, AmountType
<1> QED BY <1>2, ProductNat

(* What is asked for is bought, used or sent. *)
LEMMA AskedType ==
  ASSUME CallsInv, NEW c \in InUse
  PROVE  /\ calls[c].req \in Requests /\ calls[c].req.n \in Nat
         /\ calls[c].req.op = "buy" => calls[c].req.at \in Goods
         /\ calls[c].req.op \in {"use", "send", "sendPwd"} => calls[c].req.at \in Currencies
<1>1. calls[c] \in Call
  BY DEF CallsInv, InUse
<1>2. calls[c].req \in Requests
  BY <1>1 DEF Call
<1> QED BY <1>2, RequestFacts DEF About

(* Charging never leaves less than nothing. *)
LEMMA ChargeType ==
  ASSUME bal \in [Currencies -> Nat], NEW g \in Goods, NEW n \in Nat, NEW k \in Nat,
         1 .. k \subseteq DOMAIN Price[g], Affordable(g, k, n)
  PROVE  After(g, 1 .. k, n) \in [Currencies -> Nat]
<1> DEFINE f == After(g, 1 .. k, n)
<1>1. ASSUME NEW cur \in Currencies PROVE f[cur] \in Nat
  <2>1. n * Cost(g, 1 .. k, cur) \in Nat /\ bal[cur] \in Nat
    BY CostType
  <2>2. f[cur] = bal[cur] - n * Cost(g, 1 .. k, cur)
    BY DEF After
  <2>3. f[cur] >= 0
    BY DEF Affordable
  <2> DEFINE p == n * Cost(g, 1 .. k, cur)
  <2> HIDE DEF p, f
  <2>4. f[cur] = bal[cur] - p /\ p \in Nat
    BY <2>1, <2>2 DEF p
  <2> QED BY <2>1, <2>3, <2>4
<1>2. f = [cur \in Currencies |-> f[cur]]
  BY DEF After
<1> HIDE DEF f
<1>3. f \in [Currencies -> Nat]
  BY <1>1, <1>2
<1> QED BY <1>3 DEF f

-----------------------------------------------------------------------------
(* Types *)

LEMMA SetStateType ==
  ASSUME NEW S, NEW rows \in [S -> MailRow], NEW ms, NEW state \in 0 .. 2
  PROVE  /\ SetState(rows, ms, state) \in [S -> MailRow]
         /\ \A m \in S : LET row == SetState(rows, ms, state)[m]
                         IN  /\ row.there = rows[m].there /\ row.attach = rows[m].attach
                             /\ row.state = IF m \in ms /\ rows[m].there THEN state
                                            ELSE rows[m].state
<1>1. \A m \in S : rows[m] \in MailRow
  OBVIOUS
<1>2. \A row \in MailRow : /\ [row EXCEPT !.state = state] \in MailRow
                           /\ [row EXCEPT !.state = state].there = row.there
                           /\ [row EXCEPT !.state = state].attach = row.attach
                           /\ [row EXCEPT !.state = state].state = state
  BY DEF MailRow
<1>3. \A m \in S : SetState(rows, ms, state)[m] =
                     IF m \in ms /\ rows[m].there THEN [rows[m] EXCEPT !.state = state] ELSE rows[m]
  BY DEF SetState
<1>4. \A m \in S : SetState(rows, ms, state)[m] \in MailRow
  BY <1>1, <1>2, <1>3
<1>5. SetState(rows, ms, state) = [m \in S |-> SetState(rows, ms, state)[m]]
  BY DEF SetState
<1>6. SetState(rows, ms, state) \in [S -> MailRow]
  BY <1>4, <1>5
<1> QED BY <1>1, <1>2, <1>3, <1>6

LEMMA AppliedType ==
  ASSUME db \in Db, day \in Nat, CallsInv, NEW w, WriteFits(w)
  PROVE  Applied(w) \in Db
<1> DEFINE r == calls[w.call].req
           at == r.at
           n == r.n
<1>0. /\ w \in Write /\ w.kind \in Kinds /\ w.call \in InUse /\ PutsFits(r, w)
      /\ w.sign \in SignRow /\ w.mails \in SUBSET Mails
  BY DEF WriteFits, Write
<1>1. calls[w.call] \in Call /\ r \in Requests
  <2>1. calls[w.call] \in Call
    BY <1>0 DEF CallsInv, InUse
  <2> QED BY <2>1 DEF Call
<1>2. n \in Nat /\ About(r)
  BY <1>1, RequestFacts
<1>3. /\ db.mail \in [Mails -> MailRow] /\ db.slave \in [SysMails -> MailRow]
      /\ db.bag \in [Presents -> 1 .. 2] /\ db.sign \in SignRow
      /\ db.num \in [Goods -> Nat] /\ db.numDay \in [Goods -> Nat]
      /\ db.frames \in SUBSET Goods /\ db.acts \in SUBSET Goods /\ db.vipDay \in Nat
  BY DEF Db
<1>4. /\ \A x \in [Mails -> MailRow] : [db EXCEPT !.mail = x] \in Db
      /\ \A x \in [SysMails -> MailRow] : [db EXCEPT !.slave = x] \in Db
      /\ \A x \in [Presents -> 1 .. 2] : [db EXCEPT !.bag = x] \in Db
      /\ \A x \in SignRow : [db EXCEPT !.sign = x] \in Db
      /\ \A x, y \in [Goods -> Nat] : [db EXCEPT !.num = x, !.numDay = y] \in Db
  BY DEF Db
<1>5. /\ \A x \in SUBSET Goods : [db EXCEPT !.frames = x] \in Db
      /\ \A x \in SUBSET Goods : [db EXCEPT !.acts = x] \in Db
      /\ [db EXCEPT !.vipDay = day] \in Db
  BY DEF Db
<1>6. ASSUME w.kind = "read" PROVE Applied(w) \in Db
  <2> DEFINE x == SetState(db.mail, w.mails, 1)
  <2>1. Applied(w) = [db EXCEPT !.mail = x]
    BY <1>6 DEF Applied
  <2>2. x \in [Mails -> MailRow]
    BY <1>3, SetStateType
  <2> HIDE DEF x
  <2> QED BY <1>4, <2>1, <2>2
<1>7. ASSUME w.kind = "drop" PROVE Applied(w) \in Db
  <2> DEFINE x == [m \in Mails |-> IF m \in w.mails THEN NoMail ELSE db.mail[m]]
  <2>1. Applied(w) = [db EXCEPT !.mail = x]
    BY <1>7 DEF Applied
  <2>2. x \in [Mails -> MailRow]
    BY <1>3 DEF NoMail, MailRow
  <2> HIDE DEF x
  <2> QED BY <1>4, <2>1, <2>2
<1>8. ASSUME w.kind = "readSys" PROVE Applied(w) \in Db
  <2> DEFINE v == [there |-> TRUE, state |-> 1,
                   attach |-> IF db.slave[at].there THEN db.slave[at].attach
                              ELSE calls[w.call].img.mail.attach]
             x == [db.slave EXCEPT ![at] = v]
  <2>1. Applied(w) = [db EXCEPT !.slave = x]
    BY <1>8 DEF Applied
  <2>2. v \in MailRow
    <3>1. db.slave[at] \in MailRow /\ calls[w.call].img.mail \in MailRow
      BY <1>0, <1>1, <1>3, <1>8 DEF PutsFits, Call, Image
    <3>2. db.slave[at].attach \in 0 .. 2 /\ calls[w.call].img.mail.attach \in 0 .. 2
      BY <3>1 DEF MailRow
    <3> QED BY <3>2 DEF MailRow
  <2> HIDE DEF v
  <2>3. x \in [SysMails -> MailRow]
    BY <1>3, <2>2
  <2> HIDE DEF x
  <2> QED BY <1>4, <2>1, <2>3
<1>9. ASSUME w.kind = "newSys" PROVE Applied(w) \in Db
  <2> DEFINE x == [m \in SysMails |->
                     IF m \in w.mails /\ ~db.slave[m].there
                     THEN [there |-> TRUE, state |-> 0, attach |-> AttachOf[m]]
                     ELSE db.slave[m]]
  <2>1. Applied(w) = [db EXCEPT !.slave = x]
    BY <1>9 DEF Applied
  <2>2. \A m \in SysMails : [there |-> TRUE, state |-> 0, attach |-> AttachOf[m]] \in MailRow
    BY RewardsAssumption DEF Mails, MailRow
  <2>3. x \in [SysMails -> MailRow]
    BY <1>3, <2>2
  <2> HIDE DEF x
  <2> QED BY <1>4, <2>1, <2>3
<1>10. ASSUME w.kind = "takenSys" PROVE Applied(w) \in Db
  <2> DEFINE v == [there |-> TRUE, state |-> 2, attach |-> 2]
             x == [db.slave EXCEPT ![at] = v]
  <2>1. Applied(w) = [db EXCEPT !.slave = x]
    BY <1>10 DEF Applied
  <2>2. v \in MailRow /\ at \in SysMails
    BY <1>0, <1>10 DEF MailRow, PutsFits
  <2> HIDE DEF v
  <2>3. x \in [SysMails -> MailRow]
    BY <1>3, <2>2
  <2> HIDE DEF x
  <2> QED BY <1>4, <2>1, <2>3
<1>11. ASSUME w.kind = "hideSys" PROVE Applied(w) \in Db
  <2> DEFINE x == SetState(db.slave, {m \in w.mails : Deletable(db.slave[m])}, 2)
  <2>1. Applied(w) = [db EXCEPT !.slave = x]
    BY <1>11 DEF Applied
  <2>2. x \in [SysMails -> MailRow]
    BY <1>3, SetStateType
  <2> HIDE DEF x
  <2> QED BY <1>4, <2>1, <2>2
<1>12. ASSUME w.kind = "bag" PROVE Applied(w) \in Db
  <2> DEFINE x == [db.bag EXCEPT ![at] = 2]
  <2>1. Applied(w) = [db EXCEPT !.bag = x]
    BY <1>12 DEF Applied
  <2>2. x \in [Presents -> 1 .. 2]
    <3>1. at \in Presents
      BY <1>0, <1>2, <1>12 DEF PutsFits, About
    <3> QED BY <1>3, <3>1
  <2> HIDE DEF x
  <2> QED BY <1>4, <2>1, <2>2
<1>13. ASSUME w.kind \in {"sign", "serial", "reset", "newSign"} PROVE Applied(w) \in Db
  <2>1. ASSUME NEW x \in SignRow, Applied(w) = [db EXCEPT !.sign = x] PROVE Applied(w) \in Db
    BY <1>4, <2>1
  <2>2. CASE w.kind = "sign"
    <3>1. Applied(w) = [db EXCEPT !.sign = [w.sign EXCEPT !.last = day]]
      BY <2>2 DEF Applied
    <3>2. [w.sign EXCEPT !.last = day] \in SignRow
      BY <1>0 DEF SignRow
    <3> QED BY <2>1, <3>1, <3>2
  <2>3. CASE w.kind = "serial"
    <3>1. Applied(w) = [db EXCEPT !.sign = [db.sign EXCEPT !.taken = w.sign.taken]]
      BY <2>3 DEF Applied, Db
    <3>2. [db.sign EXCEPT !.taken = w.sign.taken] \in SignRow
      BY <1>0, <1>3 DEF SignRow
    <3> QED BY <2>1, <3>1, <3>2
  <2>4. CASE w.kind = "reset"
    <3>1. Applied(w) = [db EXCEPT !.sign = [db.sign EXCEPT !.serial = 0, !.taken = {}]]
      BY <2>4 DEF Applied, Db
    <3>2. [db.sign EXCEPT !.serial = 0, !.taken = {}] \in SignRow
      BY <1>3 DEF SignRow
    <3> QED BY <2>1, <3>1, <3>2
  <2>5. CASE w.kind = "newSign"
    <3>1. Applied(w) = IF db.sign.there THEN db
                       ELSE [db EXCEPT !.sign = [NoSign EXCEPT !.there = TRUE]]
      BY <2>5 DEF Applied
    <3>2. [NoSign EXCEPT !.there = TRUE] \in SignRow
      BY DEF NoSign, SignRow
    <3> QED BY <2>1, <3>1, <3>2
  <2> QED BY <1>13, <2>2, <2>3, <2>4, <2>5
<1>14. ASSUME w.kind = "num" PROVE Applied(w) \in Db
  <2> DEFINE v == IF db.numDay[at] = day THEN db.num[at] + n ELSE n
             x == [db.num EXCEPT ![at] = v]
             y == [db.numDay EXCEPT ![at] = day]
  <2>1. Applied(w) = [db EXCEPT !.num = x, !.numDay = y]
    BY <1>14 DEF Applied, Db
  <2>2. at \in Goods
    BY <1>0, <1>2, <1>14 DEF PutsFits, About
  <2>3. v \in Nat
    BY <1>2, <1>3, <2>2
  <2> HIDE DEF v
  <2>4. x \in [Goods -> Nat] /\ y \in [Goods -> Nat]
    BY <1>3, <2>3
  <2> HIDE DEF x, y
  <2> QED BY <1>4, <2>1, <2>4
<1>15. ASSUME w.kind \in {"frame", "activity"} PROVE Applied(w) \in Db
  <2>1. at \in Goods
    BY <1>0, <1>2, <1>15 DEF PutsFits, About
  <2>2. db.frames \cup {at} \in SUBSET Goods /\ db.acts \cup {at} \in SUBSET Goods
    BY <1>3, <2>1
  <2>3. /\ w.kind = "frame" => Applied(w) = [db EXCEPT !.frames = db.frames \cup {at}]
        /\ w.kind = "activity" => Applied(w) = [db EXCEPT !.acts = db.acts \cup {at}]
    BY DEF Applied
  <2> QED BY <1>5, <1>15, <2>2, <2>3
<1>16. ASSUME w.kind = "vip" PROVE Applied(w) \in Db
  BY <1>5, <1>16 DEF Applied
<1> QED BY <1>0, <1>6, <1>7, <1>8, <1>9, <1>10, <1>11, <1>12, <1>13, <1>14, <1>15, <1>16
        DEF Kinds

(* A mail to everybody is deleted at once. *)
LEMMA DeleteSysPuts ==
  ASSUME db \in Db, NEW c \in InUse, DeleteSys(c)
  PROVE  LET m == calls[c].req.at
         IN  /\ db' \in Db /\ m \in SysMails
             /\ db'.mail = db.mail /\ db'.bag = db.bag /\ db'.sign = db.sign
             /\ db'.num = db.num /\ db'.numDay = db.numDay /\ db'.frames = db.frames
             /\ db'.acts = db.acts /\ db'.vipDay = db.vipDay
             /\ db'.slave = IF Deletable(calls[c].img.mail)
                            THEN SetState(db.slave, {m}, 2) ELSE db.slave
<1> DEFINE m == calls[c].req.at
           x == SetState(db.slave, {m}, 2)
<1>1. x \in [SysMails -> MailRow]
  BY SetStateType DEF Db
<1>2. /\ m \in SysMails
      /\ db' = IF Deletable(calls[c].img.mail) THEN [db EXCEPT !.slave = x] ELSE db
  BY DEF DeleteSys
<1> HIDE DEF x
<1>3. /\ [db EXCEPT !.slave = x] \in Db /\ [db EXCEPT !.slave = x].slave = x
      /\ LET t == [db EXCEPT !.slave = x]
         IN  /\ t.mail = db.mail /\ t.bag = db.bag /\ t.sign = db.sign
             /\ t.num = db.num /\ t.numDay = db.numDay /\ t.frames = db.frames
             /\ t.acts = db.acts /\ t.vipDay = db.vipDay
  BY <1>1 DEF Db
<1> QED BY <1>2, <1>3 DEF x

(* A present is dealt at once. *)
LEMMA IssuePuts ==
  ASSUME db \in Db, NEW p \in Presents, Issue(p)
  PROVE  /\ db' \in Db
         /\ db'.mail = db.mail /\ db'.slave = db.slave /\ db'.sign = db.sign
         /\ db'.num = db.num /\ db'.numDay = db.numDay /\ db'.frames = db.frames
         /\ db'.acts = db.acts /\ db'.vipDay = db.vipDay
         /\ db'.bag = [db.bag EXCEPT ![p] = 1]
<1> DEFINE x == [db.bag EXCEPT ![p] = 1]
<1>1. x \in [Presents -> 1 .. 2]
  BY DEF Db
<1>2. db' = [db EXCEPT !.bag = x]
  BY DEF Issue
<1> HIDE DEF x
<1> QED BY <1>1, <1>2 DEF Db, x

LEMMA DbStep ==
  ASSUME db \in Db, day \in Nat, CallsInv, WritesInv, [Next]_vars
  PROVE  db' \in Db
<1>1. ASSUME NEW w \in batch, ExecWrite(w) PROVE db' \in Db
  <2>1. db' = Applied(w) /\ WriteFits(w)
    BY <1>1 DEF ExecWrite, WritesInv, Pending
  <2> QED BY <2>1, AppliedType
<1> QED BY <1>1, DeleteSysPuts, IssuePuts, Moves

(* The prices that were charged before the one that was not. *)
LEMMA PricesFacts ==
  ASSUME NEW g \in Goods
  PROVE  /\ Len(Price[g]) \in Nat /\ DOMAIN Price[g] = 1 .. Len(Price[g])
         /\ \A k \in DOMAIN Price[g] : \A bad :
              /\ k - 1 \in Nat /\ 1 .. k - 1 \subseteq DOMAIN Price[g]
              /\ Refunds(k, bad) \subseteq 1 .. k - 1
<1>1. Price[g] \in Lists
  BY RewardsAssumption DEF Lists
<1>2. Len(Price[g]) \in Nat /\ DOMAIN Price[g] = 1 .. Len(Price[g])
  BY <1>1 DEF Lists
<1>3. \A k \in DOMAIN Price[g] : k - 1 \in Nat /\ 1 .. k - 1 \subseteq DOMAIN Price[g]
  BY <1>2
<1> QED BY <1>2, <1>3 DEF Refunds

LEMMA YieldFacts ==
  ASSUME NEW x \in Currencies
  PROVE  /\ Len(Yield[x]) \in Nat /\ DOMAIN Yield[x] = 1 .. Len(Yield[x])
         /\ \A k \in 0 .. Len(Yield[x]) : 1 .. k \subseteq DOMAIN Yield[x]
<1>1. Yield[x] \in Lists
  BY RewardsAssumption DEF Lists
<1>2. Len(Yield[x]) \in Nat /\ DOMAIN Yield[x] = 1 .. Len(Yield[x])
  BY <1>1 DEF Lists
<1> QED BY <1>2

(* A purchase that is refused moves the price of what is not refunded from *)
(* the balances to what is unserved.                                       *)
LEMMA RefusedPays ==
  ASSUME CallsInv, PlainInv, NEW c \in InUse, BuyRefused(c)
  PROVE  \E k \in Nat : \E bad \in SUBSET (1 .. k) :
           LET g == calls[c].req.at
               n == calls[c].req.n
               back == (1 .. k) \ bad
           IN  /\ g \in Goods /\ n \in Nat /\ 1 .. k \subseteq DOMAIN Price[g]
               /\ bal' \in [Currencies -> Nat] /\ unserved' \in [Currencies -> Nat]
               /\ \A cur \in Currencies :
                    /\ bal'[cur] = bal[cur] - n * Cost(g, 1 .. k, cur) + n * Cost(g, back, cur)
                    /\ unserved'[cur] = unserved[cur] + n * Cost(g, bad, cur)
<1> DEFINE g == calls[c].req.at
           n == calls[c].req.n
<1>0. g \in Goods /\ n \in Nat
  <2>1. calls[c].req.op = "buy"
    BY DEF BuyRefused, Runs
  <2> QED BY <2>1, AskedType
<1>1. PICK j \in DOMAIN Price[g] :
        /\ Affordable(g, j - 1, n)
        /\ \E bad \in SUBSET (1 .. j - 1) :
             /\ bal' = [cur \in Currencies |->
                          After(g, 1 .. j - 1, n)[cur] + n * Cost(g, Refunds(j, bad), cur)]
             /\ unserved' = [cur \in Currencies |-> unserved[cur] + n * Cost(g, bad, cur)]
  BY DEF BuyRefused
<1> DEFINE k == j - 1
<1>2. PICK bad \in SUBSET (1 .. k) :
        /\ bal' = [cur \in Currencies |->
                     After(g, 1 .. k, n)[cur] + n * Cost(g, Refunds(j, bad), cur)]
        /\ unserved' = [cur \in Currencies |-> unserved[cur] + n * Cost(g, bad, cur)]
  BY <1>1
<1> DEFINE back == (1 .. k) \ bad
<1>3. k \in Nat /\ 1 .. k \subseteq DOMAIN Price[g] /\ Refunds(j, bad) = back
  BY <1>0, <1>1, PricesFacts DEF Refunds
<1>4. Affordable(g, k, n)
  BY <1>1
<1>5. bal \in [Currencies -> Nat] /\ unserved \in [Currencies -> Nat]
  BY DEF PlainInv, LedgerType
<1> HIDE DEF k, g, n
<1>6. After(g, 1 .. k, n) \in [Currencies -> Nat]
  BY <1>0, <1>3, <1>4, <1>5, ChargeType
<1>7. ASSUME NEW cur \in Currencies
      PROVE  /\ n * Cost(g, back, cur) \in Nat /\ n * Cost(g, bad, cur) \in Nat
             /\ bal'[cur] = After(g, 1 .. k, n)[cur] + n * Cost(g, back, cur)
             /\ unserved'[cur] = unserved[cur] + n * Cost(g, bad, cur)
             /\ After(g, 1 .. k, n)[cur] = bal[cur] - n * Cost(g, 1 .. k, cur)
  <2>1. back \in SUBSET (DOMAIN Price[g]) /\ bad \in SUBSET (DOMAIN Price[g])
    BY <1>3
  <2> HIDE DEF back
  <2>2. n * Cost(g, back, cur) \in Nat /\ n * Cost(g, bad, cur) \in Nat
    BY <1>0, <2>1, CostType
  <2> QED BY <1>2, <1>3, <2>2 DEF After
<1> HIDE DEF back
<1>8. \A cur \in Currencies : bal'[cur] \in Nat /\ unserved'[cur] \in Nat
  BY <1>5, <1>6, <1>7
<1>9. bal' \in [Currencies -> Nat]
  <2>1. bal' = [cur \in Currencies |-> bal'[cur]]
    BY <1>2
  <2> QED BY <1>8, <2>1
<1>10. unserved' \in [Currencies -> Nat]
  <2>1. unserved' = [cur \in Currencies |-> unserved'[cur]]
    BY <1>2
  <2> QED BY <1>8, <2>1
<1>11. /\ k \in Nat /\ bad \in SUBSET (1 .. k)
       /\ g \in Goods /\ n \in Nat /\ 1 .. k \subseteq DOMAIN Price[g]
       /\ bal' \in [Currencies -> Nat] /\ unserved' \in [Currencies -> Nat]
       /\ \A cur \in Currencies :
            /\ bal'[cur] = bal[cur] - n * Cost(g, 1 .. k, cur) + n * Cost(g, back, cur)
            /\ unserved'[cur] = unserved[cur] + n * Cost(g, bad, cur)
  BY <1>0, <1>2, <1>3, <1>7, <1>9, <1>10
<1> QED BY <1>11 DEF g, n, back

(* A purchase that is paid. *)
LEMMA PaidPays ==
  ASSUME CallsInv, PlainInv, NEW c \in InUse, Paid(c)
  PROVE  LET g == calls[c].req.at
             n == calls[c].req.n
         IN  /\ g \in Goods /\ n \in Nat
             /\ bal' \in [Currencies -> Nat]
             /\ \A cur \in Currencies :
                  /\ n * Cost(g, DOMAIN Price[g], cur) \in Nat
                  /\ bal'[cur] = bal[cur] - n * Cost(g, DOMAIN Price[g], cur)
<1> DEFINE g == calls[c].req.at
           n == calls[c].req.n
<1>0. g \in Goods /\ n \in Nat
  <2>1. calls[c].req.op = "buy"
    BY DEF Paid, Runs
  <2> QED BY <2>1, AskedType
<1>1. Affordable(g, Len(Price[g]), n) /\ bal' = After(g, DOMAIN Price[g], n)
  BY DEF Paid
<1>2. Len(Price[g]) \in Nat /\ DOMAIN Price[g] = 1 .. Len(Price[g])
  BY <1>0, PricesFacts
<1>3. bal \in [Currencies -> Nat]
  BY DEF PlainInv
<1> HIDE DEF g, n
<1>4. bal' \in [Currencies -> Nat]
  BY <1>0, <1>1, <1>2, <1>3, ChargeType
<1>5. \A cur \in Currencies :
        /\ n * Cost(g, DOMAIN Price[g], cur) \in Nat
        /\ bal'[cur] = bal[cur] - n * Cost(g, DOMAIN Price[g], cur)
  BY <1>0, <1>1, CostType DEF After
<1> QED BY <1>0, <1>4, <1>5 DEF g, n

(* An item that is used. *)
LEMMA UsePays ==
  ASSUME CallsInv, PlainInv, NEW c \in InUse, Use(c)
  PROVE  \E k \in Nat :
           LET x == calls[c].req.at
               n == calls[c].req.n
               rest == (DOMAIN Yield[x]) \ (1 .. k)
           IN  /\ x \in Currencies /\ n \in Nat /\ 1 .. k \subseteq DOMAIN Yield[x]
               /\ bal' \in [Currencies -> Nat] /\ unserved' \in [Currencies -> Nat]
               /\ used' = [used EXCEPT ![x] = used[x] + n]
               /\ \A cur \in Currencies :
                    /\ bal'[cur] = bal[cur] - (IF cur = x THEN n ELSE 0)
                                   + n * Amount(Yield[x], 1 .. k, cur)
                    /\ unserved'[cur] = unserved[cur] + n * Amount(Yield[x], rest, cur)
<1> DEFINE x == calls[c].req.at
           n == calls[c].req.n
           Without(cur) == IF cur = x THEN bal[cur] - n ELSE bal[cur]
<1>0. x \in Currencies /\ n \in Nat /\ bal[x] >= n
  <2>1. calls[c].req.op = "use" /\ Charges(c)
    BY DEF Use, Runs
  <2> QED BY <2>1, AskedType DEF Charges
<1>1. PICK k \in 0 .. Len(Yield[x]) :
        /\ bal' = [cur \in Currencies |-> Without(cur) + n * Amount(Yield[x], 1 .. k, cur)]
        /\ unserved' = [cur \in Currencies |->
             unserved[cur] + n * Amount(Yield[x], (DOMAIN Yield[x]) \ (1 .. k), cur)]
  BY DEF Use
<1>2. used' = [used EXCEPT ![x] = used[x] + n]
  BY DEF Use
<1> DEFINE rest == (DOMAIN Yield[x]) \ (1 .. k)
           got == 1 .. k
<1>3. k \in Nat /\ got \in SUBSET (DOMAIN Yield[x]) /\ rest \in SUBSET (DOMAIN Yield[x])
  BY <1>0, <1>1, YieldFacts
<1>4. bal \in [Currencies -> Nat] /\ unserved \in [Currencies -> Nat]
  BY DEF PlainInv, LedgerType
<1>5. /\ bal' = [cur \in Currencies |-> Without(cur) + n * Amount(Yield[x], got, cur)]
      /\ unserved' = [cur \in Currencies |-> unserved[cur] + n * Amount(Yield[x], rest, cur)]
  BY <1>1
<1> HIDE DEF rest, got, x, n
<1>6. \A cur \in Currencies : /\ n * Amount(Yield[x], got, cur) \in Nat
                              /\ n * Amount(Yield[x], rest, cur) \in Nat
  BY <1>0, <1>3, YieldType
<1>7. \A cur \in Currencies : Without(cur) \in Nat
                              /\ Without(cur) = bal[cur] - (IF cur = x THEN n ELSE 0)
  BY <1>0, <1>4
<1> HIDE DEF Without
<1>8. \A cur \in Currencies :
        /\ bal'[cur] = Without(cur) + n * Amount(Yield[x], got, cur)
        /\ unserved'[cur] = unserved[cur] + n * Amount(Yield[x], rest, cur)
  BY <1>5
<1>9. \A cur \in Currencies : bal'[cur] \in Nat /\ unserved'[cur] \in Nat
  BY <1>4, <1>6, <1>7, <1>8
<1>10. bal' \in [Currencies -> Nat]
  <2>1. bal' = [cur \in Currencies |-> bal'[cur]]
    BY <1>5
  <2> QED BY <1>9, <2>1
<1>11. unserved' \in [Currencies -> Nat]
  <2>1. unserved' = [cur \in Currencies |-> unserved'[cur]]
    BY <1>5
  <2> QED BY <1>9, <2>1
<1>12. /\ k \in Nat /\ x \in Currencies /\ n \in Nat /\ got \subseteq DOMAIN Yield[x]
       /\ bal' \in [Currencies -> Nat] /\ unserved' \in [Currencies -> Nat]
       /\ used' = [used EXCEPT ![x] = used[x] + n]
       /\ \A cur \in Currencies :
            /\ bal'[cur] = bal[cur] - (IF cur = x THEN n ELSE 0)
                           + n * Amount(Yield[x], got, cur)
            /\ unserved'[cur] = unserved[cur] + n * Amount(Yield[x], rest, cur)
  BY <1>0, <1>2, <1>3, <1>7, <1>8, <1>10, <1>11 DEF x, n
<1> QED BY <1>12 DEF x, n, rest, got

(* An item that is sent. *)
LEMMA SendPays ==
  ASSUME CallsInv, PlainInv, NEW c \in InUse, Send(c)
  PROVE  LET x == calls[c].req.at
             n == calls[c].req.n
         IN  /\ x \in Currencies /\ n \in Nat
             /\ bal' \in [Currencies -> Nat] /\ bal' = [bal EXCEPT ![x] = bal[x] - n]
             /\ \/ sent' = [sent EXCEPT ![x] = sent[x] + n] /\ unserved' = unserved
                \/ unserved' = [unserved EXCEPT ![x] = unserved[x] + n] /\ sent' = sent
<1> DEFINE x == calls[c].req.at
           n == calls[c].req.n
<1>0. x \in Currencies /\ n \in Nat /\ bal[x] >= n
  <2>1. calls[c].req.op \in {"send", "sendPwd"} /\ Charges(c)
    BY DEF Send, Runs
  <2> QED BY <2>1, AskedType DEF Charges
<1>1. /\ bal' = [bal EXCEPT ![x] = bal[x] - n]
      /\ \/ sent' = [sent EXCEPT ![x] = sent[x] + n] /\ unserved' = unserved
         \/ unserved' = [unserved EXCEPT ![x] = unserved[x] + n] /\ sent' = sent
  BY DEF Send
<1>2. bal' \in [Currencies -> Nat]
  <2>1. bal \in [Currencies -> Nat]
    BY DEF PlainInv
  <2>2. bal[x] - n \in Nat
    BY <1>0, <2>1
  <2> QED BY <1>1, <2>1, <2>2
<1> QED BY <1>0, <1>1, <1>2

LEMMA BalancesStep ==
  ASSUME CallsInv, PlainInv, [Next]_vars
  PROVE  bal' \in [Currencies -> Nat] /\ unserved' \in [Currencies -> Nat]
         /\ sent' \in [Currencies -> Nat] /\ used' \in [Currencies -> Nat]
<1>0. /\ bal \in [Currencies -> Nat] /\ unserved \in [Currencies -> Nat]
      /\ sent \in [Currencies -> Nat] /\ used \in [Currencies -> Nat]
  BY DEF PlainInv, LedgerType
<1>1. ASSUME NEW c \in InUse, Buy(c) \/ BuyByActivity(c) PROVE bal' \in [Currencies -> Nat]
  <2>1. Paid(c)
    BY <1>1 DEF Buy, BuyByActivity, Purchase
  <2> QED BY <2>1, PaidPays
<1>2. ASSUME NEW c \in InUse, BuyBroken(c)
      PROVE  bal' \in [Currencies -> Nat] /\ unserved' \in [Currencies -> Nat]
  <2> DEFINE g == calls[c].req.at
             n == calls[c].req.n
  <2>1. /\ Paid(c)
        /\ unserved' = [cur \in Currencies |->
                          unserved[cur] + n * Cost(g, DOMAIN Price[g], cur)]
    BY <1>2 DEF BuyBroken
  <2>2. /\ bal' \in [Currencies -> Nat]
        /\ \A cur \in Currencies : n * Cost(g, DOMAIN Price[g], cur) \in Nat
    BY <2>1, PaidPays
  <2>3. \A cur \in Currencies : unserved[cur] + n * Cost(g, DOMAIN Price[g], cur) \in Nat
    BY <1>0, <2>2
  <2> QED BY <2>1, <2>2, <2>3
<1>3. ASSUME NEW c \in InUse, BuyRefused(c)
      PROVE  bal' \in [Currencies -> Nat] /\ unserved' \in [Currencies -> Nat]
  BY <1>3, RefusedPays
<1>4. ASSUME NEW c \in InUse, Use(c)
      PROVE  bal' \in [Currencies -> Nat] /\ unserved' \in [Currencies -> Nat]
             /\ used' \in [Currencies -> Nat]
  <2> DEFINE x == calls[c].req.at
             n == calls[c].req.n
  <2>1. /\ x \in Currencies /\ n \in Nat /\ used' = [used EXCEPT ![x] = used[x] + n]
        /\ bal' \in [Currencies -> Nat] /\ unserved' \in [Currencies -> Nat]
    BY <1>4, UsePays
  <2> HIDE DEF x, n
  <2> QED BY <1>0, <2>1
<1>5. ASSUME NEW c \in InUse, Send(c)
      PROVE  bal' \in [Currencies -> Nat] /\ unserved' \in [Currencies -> Nat]
             /\ sent' \in [Currencies -> Nat]
  <2> DEFINE x == calls[c].req.at
             n == calls[c].req.n
  <2>1. /\ x \in Currencies /\ n \in Nat /\ bal' \in [Currencies -> Nat]
        /\ \/ sent' = [sent EXCEPT ![x] = sent[x] + n] /\ unserved' = unserved
           \/ unserved' = [unserved EXCEPT ![x] = unserved[x] + n] /\ sent' = sent
    BY <1>5, SendPays
  <2> HIDE DEF x, n
  <2>2. unserved[x] + n \in Nat /\ sent[x] + n \in Nat
    BY <1>0, <2>1
  <2> QED BY <1>0, <2>1, <2>2
<1>6. bal' \in [Currencies -> Nat]
  BY <1>0, <1>1, <1>2, <1>3, <1>4, <1>5, Moves
<1>7. unserved' \in [Currencies -> Nat]
  BY <1>0, <1>2, <1>3, <1>4, <1>5, Moves
<1>8. sent' \in [Currencies -> Nat] /\ used' \in [Currencies -> Nat]
  BY <1>0, <1>4, <1>5, Moves
<1> QED BY <1>6, <1>7, <1>8

LEMMA BoughtStep ==
  ASSUME CallsInv, PlainInv, [Next]_vars
  PROVE  bought' \in [Goods -> Nat] /\ today' \in [Goods -> Nat]
<1>0. bought \in [Goods -> Nat] /\ today \in [Goods -> Nat]
  BY DEF PlainInv, LedgerType
<1>1. ASSUME NEW c \in InUse, Buy(c) \/ BuyByActivity(c)
      PROVE  bought' \in [Goods -> Nat] /\ today' \in [Goods -> Nat]
  <2> DEFINE g == calls[c].req.at
             n == calls[c].req.n
  <2>1. /\ Paid(c)
        /\ bought' = [bought EXCEPT ![g] = bought[g] + n]
        /\ today' = [today EXCEPT ![g] = today[g] + n]
    BY <1>1 DEF Buy, BuyByActivity, Purchase
  <2>2. g \in Goods /\ n \in Nat
    BY <2>1, PaidPays
  <2> HIDE DEF g, n
  <2>3. bought[g] + n \in Nat /\ today[g] + n \in Nat
    BY <1>0, <2>2
  <2> QED BY <1>0, <2>1, <2>3
<1>2. ASSUME NextDay PROVE today' \in [Goods -> Nat]
  BY <1>2 DEF NextDay
<1>3. bought' \in [Goods -> Nat]
  BY <1>0, <1>1, Moves
<1>4. today' \in [Goods -> Nat]
  BY <1>0, <1>1, <1>2, Moves
<1> QED BY <1>3, <1>4

(* What an attachment's callback hands out. *)
LEMMA AttachGives ==
  ASSUME CallsInv, PlainInv, NEW c \in InUse, AttachOwn(c)
  PROVE  LET m == calls[c].req.at
         IN  /\ m \in OwnMails /\ calls[c].req.op = "attach" /\ calls[c].st = "got"
             /\ calls[c].img.mail.there /\ calls[c].img.mail.attach = 1
             /\ given' \in [Mails \cup Presents -> [Items -> Nat]]
             /\ failed' \in [Mails -> [Items -> Nat]]
             /\ \A x \in Mails \cup Presents : x # m => given'[x] = given[x]
             /\ \A x \in Mails : x # m => failed'[x] = failed[x]
             /\ \A i \in Items : /\ given'[m][i] \in {given[m][i], given[m][i] + 1}
                                 /\ failed'[m][i] >= failed[m][i]
                                 /\ given'[m][i] + failed'[m][i] > 0
<1> DEFINE m == calls[c].req.at
<1>0. calls[c].req \in Requests
  BY AskedType
<1>1. /\ calls[c].req.op = "attach" /\ calls[c].st = "got" /\ m \notin SysMails
      /\ calls[c].img.mail.there /\ calls[c].img.mail.attach = 1 /\ m \notin ForeignMails
  BY DEF AttachOwn, Decides, AttachRefused
<1>2. m \in OwnMails /\ m \in Mails
  BY <1>0, <1>1, RequestFacts DEF About, Mails
<1>3. PICK bad \in SUBSET Items :
        /\ given' = [given EXCEPT ![m] =
             [i \in Items |-> given[m][i] + IF i \in bad THEN 0 ELSE 1]]
        /\ failed' = [failed EXCEPT ![m] =
             [i \in Items |-> failed[m][i] + IF i \in bad THEN 1 ELSE 0]]
  BY DEF AttachOwn
<1>4. /\ given \in [Mails \cup Presents -> [Items -> Nat]]
      /\ failed \in [Mails -> [Items -> Nat]]
  BY DEF PlainInv, LedgerType
<1> DEFINE f == [i \in Items |-> given[m][i] + IF i \in bad THEN 0 ELSE 1]
           h == [i \in Items |-> failed[m][i] + IF i \in bad THEN 1 ELSE 0]
<1> HIDE DEF m
<1>5. given[m] \in [Items -> Nat] /\ failed[m] \in [Items -> Nat]
  BY <1>2, <1>4
<1>6. \A i \in Items : /\ f[i] \in {given[m][i], given[m][i] + 1} /\ f[i] \in Nat
                       /\ h[i] >= failed[m][i] /\ h[i] \in Nat /\ f[i] + h[i] > 0
  BY <1>5
<1>7. f \in [Items -> Nat] /\ h \in [Items -> Nat]
  BY <1>5
<1>8. given' = [given EXCEPT ![m] = f] /\ failed' = [failed EXCEPT ![m] = h]
  BY <1>3
<1> HIDE DEF f, h
<1>9. /\ given' \in [Mails \cup Presents -> [Items -> Nat]]
      /\ failed' \in [Mails -> [Items -> Nat]]
      /\ given'[m] = f /\ failed'[m] = h
      /\ \A x \in Mails \cup Presents : x # m => given'[x] = given[x]
      /\ \A x \in Mails : x # m => failed'[x] = failed[x]
  BY <1>2, <1>4, <1>7, <1>8
<1> QED BY <1>1, <1>2, <1>6, <1>9 DEF m

(* What a present's callback hands out. *)
LEMMA PresentGives ==
  ASSUME CallsInv, PlainInv, NEW c \in InUse, Present(c) \/ PresentBroken(c)
  PROVE  LET p == calls[c].req.at
         IN  /\ p \in Presents /\ calls[c].req.op = "present" /\ calls[c].st = "got"
             /\ calls[c].img.n = 1
             /\ given' \in [Mails \cup Presents -> [Items -> Nat]]
             /\ \A x \in Mails \cup Presents : x # p => given'[x] = given[x]
             /\ \A i \in Items : /\ given'[p][i] \in {given[p][i], given[p][i] + 1}
                                 /\ Present(c) => given'[p][i] = given[p][i] + 1
             /\ PresentBroken(c) => p \in open'
<1> DEFINE p == calls[c].req.at
<1>0. calls[c].req \in Requests
  BY AskedType
<1>1. calls[c].req.op = "present" /\ calls[c].st = "got" /\ calls[c].img.n = 1
  BY DEF Present, PresentBroken, Decides, PresentRefused
<1>2. p \in Presents /\ Targets(calls[c].req) = {p}
  BY <1>0, <1>1, RequestFacts DEF About, Targets
<1>3. PICK is : Gives(p, is) /\ (Present(c) => is = Items)
  BY DEF Present, PresentBroken
<1>4. PresentBroken(c) => p \in open'
  BY <1>2 DEF PresentBroken
<1>5. given \in [Mails \cup Presents -> [Items -> Nat]]
  BY DEF PlainInv, LedgerType
<1> HIDE DEF p
<1> DEFINE f == [i \in Items |-> given[p][i] + IF i \in is THEN 1 ELSE 0]
<1>6. given[p] \in [Items -> Nat]
  BY <1>2, <1>5
<1>7. f \in [Items -> Nat] /\ \A i \in Items : /\ f[i] \in {given[p][i], given[p][i] + 1}
                                               /\ Present(c) => f[i] = given[p][i] + 1
  BY <1>3, <1>6
<1>8. given' = [given EXCEPT ![p] = f]
  BY <1>3 DEF Gives
<1> HIDE DEF f
<1>9. /\ given' \in [Mails \cup Presents -> [Items -> Nat]] /\ given'[p] = f
      /\ \A x \in Mails \cup Presents : x # p => given'[x] = given[x]
  BY <1>2, <1>5, <1>7, <1>8
<1> QED BY <1>1, <1>2, <1>4, <1>7, <1>9 DEF p

LEMMA ClaimedStep ==
  ASSUME CallsInv, PlainInv, [Next]_vars
  PROVE  /\ given' \in [Mails \cup Presents -> [Items -> Nat]]
         /\ failed' \in [Mails -> [Items -> Nat]]
         /\ strayed' \in [SysMails -> Nat] /\ issued' \in [Presents -> Nat]
         /\ signed' \in Nat /\ vips' \in Nat /\ serials' \in [1 .. 3 -> Nat]
         /\ late' \in BOOLEAN
<1>0. /\ given \in [Mails \cup Presents -> [Items -> Nat]]
      /\ failed \in [Mails -> [Items -> Nat]]
      /\ strayed \in [SysMails -> Nat] /\ issued \in [Presents -> Nat]
      /\ signed \in Nat /\ vips \in Nat /\ serials \in [1 .. 3 -> Nat]
      /\ late \in BOOLEAN
  BY DEF PlainInv, LedgerType
<1>1. given' \in [Mails \cup Presents -> [Items -> Nat]]
  BY <1>0, AttachGives, PresentGives, Moves
<1>2. failed' \in [Mails -> [Items -> Nat]]
  BY <1>0, AttachGives, Moves
<1>3. strayed' \in [SysMails -> Nat]
  <2>1. ASSUME NEW c \in InUse, AttachSys(c) PROVE strayed' \in [SysMails -> Nat]
    <3>1. calls[c].req.at \in SysMails
          /\ strayed' = [strayed EXCEPT ![calls[c].req.at] = strayed[calls[c].req.at] + 1]
      BY <2>1 DEF AttachSys
    <3> QED BY <1>0, <3>1
  <2> QED BY <1>0, <2>1, Moves
<1>4. issued' \in [Presents -> Nat]
  <2>1. ASSUME NEW p \in Presents, Issue(p) PROVE issued' \in [Presents -> Nat]
    <3> DEFINE v == issued[p] + IF db.bag[p] = 1 /\ ~BagMarked(p) THEN 0 ELSE 1
    <3>1. issued' = [issued EXCEPT ![p] = v]
      BY <2>1 DEF Issue
    <3>2. v \in Nat
      BY <1>0
    <3> HIDE DEF v
    <3> QED BY <1>0, <3>1, <3>2
  <2> QED BY <1>0, <2>1, Moves
<1>5. signed' \in Nat
  <2>1. \A c : Sign(c) => signed' = signed + 1
    BY DEF Sign
  <2>2. NextDay => signed' = 0
    BY DEF NextDay
  <2> QED BY <1>0, <2>1, <2>2, Moves
<1>6. vips' \in Nat
  <2>1. \A c : Vip(c) => vips' \in {vips, vips + 1}
    <3>1. ASSUME NEW c, Vip(c) PROVE vips' \in {vips, vips + 1}
      <4>1. vips' = vips + IF calls[c].img.n = 0 THEN 1 ELSE 0
        BY <3>1 DEF Vip
      <4> QED BY <1>0, <4>1
    <3> QED BY <3>1
  <2>2. NextDay => vips' = 0
    BY DEF NextDay
  <2> QED BY <1>0, <2>1, <2>2, Moves
<1>7. serials' \in [1 .. 3 -> Nat]
  <2>1. ASSUME NEW c \in InUse, Serial(c) PROVE serials' \in [1 .. 3 -> Nat]
    <3>1. serials' = [serials EXCEPT ![calls[c].req.n] = serials[calls[c].req.n] + 1]
          /\ calls[c].req.op = "sign" /\ calls[c].req.n > 0
      BY <2>1 DEF Serial, Runs
    <3>2. calls[c].req.n \in 1 .. 3
      BY <3>1, AskedType, RequestFacts DEF About
    <3> QED BY <1>0, <3>1, <3>2
  <2>2. ASSUME NEW w \in batch, ExecWrite(w) PROVE serials' \in [1 .. 3 -> Nat]
    <3>1. serials' = [t \in 1 .. 3 |-> 0] \/ serials' = serials
      BY <2>2 DEF ExecWrite
    <3> QED BY <1>0, <3>1
  <2> QED BY <1>0, <2>1, <2>2, Moves
<1>8. late' \in BOOLEAN
  <2>1. NextDay => late' \in BOOLEAN
    BY DEF NextDay
  <2> QED BY <1>0, <2>1, Moves
<1> QED BY <1>1, <1>2, <1>3, <1>4, <1>5, <1>6, <1>7, <1>8

LEMMA PlainStep ==
  ASSUME CallsInv, WritesInv, PlainInv, [Next]_vars
  PROVE  PlainInv'
<1>1. db' \in Db
  BY DbStep DEF PlainInv
<1>2. day' \in Nat
  <2>1. day \in Nat
    BY DEF PlainInv
  <2>2. NextDay => day' = day + 1
    BY DEF NextDay
  <2> QED BY <2>1, <2>2, Moves
<1>3. faults' \in 0 .. MaxFaults
  <2>1. faults \in 0 .. MaxFaults /\ MaxFaults \in Nat
    BY RewardsAssumption DEF PlainInv
  <2> QED BY <2>1, FaultMoves DEF Fault
<1>4. LedgerType'
  BY ClaimedStep, BoughtStep, BalancesStep DEF LedgerType
<1> QED BY <1>1, <1>2, <1>3, <1>4, BalancesStep DEF PlainInv

LEMMA BaseInit ==
  ASSUME Init
  PROVE  BaseInv
<1>1. InUse = {} /\ Pending = {} /\ calls \in Seq(Call) /\ Len(calls) = 0
  BY DEF Init, InUse, Pending
<1>2. ImagesInv /\ WritesInv
  BY <1>1 DEF ImagesInv, WritesInv
<1>3. CallsInv
  BY <1>1, RewardsAssumption DEF CallsInv
<1>4. ResultsInv
  BY DEF Init, ResultsInv
<1>5. db \in Db
  <2> DEFINE mail == [m \in Mails |-> [there |-> TRUE, state |-> 0, attach |-> AttachOf[m]]]
             slave == [m \in SysMails |-> NoMail]
  <2>1. mail \in [Mails -> MailRow]
    BY RewardsAssumption DEF MailRow
  <2>2. slave \in [SysMails -> MailRow]
    BY DEF MailRow, NoMail
  <2>3. db = [mail |-> mail, slave |-> slave, bag |-> [p \in Presents |-> 1], sign |-> InitSign,
              num |-> [g \in Goods |-> 0], numDay |-> [g \in Goods |-> 0],
              frames |-> {}, acts |-> {}, vipDay |-> 0]
    BY DEF Init
  <2> HIDE DEF mail, slave
  <2> QED BY <2>1, <2>2, <2>3, InitSignAssumption DEF Db
<1>6. day \in Nat /\ bal \in [Currencies -> Nat] /\ faults \in 0 .. MaxFaults
  BY RewardsAssumption DEF Init
<1>7. LedgerType
  BY DEF Init, LedgerType
<1> QED BY <1>2, <1>3, <1>4, <1>5, <1>6, <1>7 DEF BaseInv, PlainInv

LEMMA BaseStep ==
  ASSUME BaseInv, [Next]_vars
  PROVE  BaseInv'
BY CallsStep, ReadsStep, WritesStep, ResultsStep, PlainStep DEF BaseInv

LEMMA BaseTypes ==
  ASSUME BaseInv
  PROVE  TypeOK
<1>1. /\ db.mail \in [Mails -> MailRow] /\ db.slave \in [SysMails -> MailRow]
      /\ db.bag \in [Presents -> 1 .. 2] /\ db.sign \in SignRow
      /\ db.num \in [Goods -> Nat] /\ db.numDay \in [Goods -> Nat]
      /\ db.frames \cup db.acts \subseteq Goods /\ db.vipDay \in Nat
  BY DEF BaseInv, PlainInv, Db
<1>2. \A w \in Pending : w \in Write /\ w.call \in InUse
  BY DEF BaseInv, WritesInv, WriteFits
<1> QED BY <1>1, <1>2 DEF BaseInv, PlainInv, CallsInv, ResultsInv, TypeOK

(* The variables have their types in every state. *)
THEOREM TypeCorrect == Spec => []TypeOK
<1>1. BaseInv /\ UNCHANGED vars => BaseInv'
  BY BaseStep
<1>2. BaseInv /\ [Next]_vars => BaseInv'
  BY BaseStep
<1> QED BY <1>2, BaseInit, BaseTypes, PTL DEF Spec

-----------------------------------------------------------------------------
(* One request at a time on a row *)

(* A request comes into flight with its SELECT. *)
LEMMA FlightMoves ==
  ASSUME BaseInv, [Next]_vars, NEW c \in InUse', InFlight(c)'
  PROVE  /\ c \in InUse /\ calls'[c].req = calls[c].req
         /\ InFlight(c) \/ ExecSelect(c)
<1>1. CASE calls'[c].seen /\ calls'[c].st \notin {"done", "lost"}
  <2>1. c \in InUse
    BY <1>1, NewCall DEF BaseInv
  <2>2. /\ calls'[c].req = calls[c].req
        /\ ExecSelect(c) \/ calls'[c].seen = calls[c].seen
        /\ calls[c].st \notin {"done", "lost"}
    BY <1>1, <2>1, CallMoves DEF BaseInv
  <2> QED BY <1>1, <2>1, <2>2 DEF InFlight
<1>2. ASSUME NEW w \in Pending', w.call = c
      PROVE  c \in InUse /\ InFlight(c)
  <2>1. CASE w \in Pending
    BY <1>2, <2>1 DEF BaseInv, WritesInv, WriteFits, InFlight
  <2>2. ASSUME NEW d \in InUse, Puts(d, w) PROVE c \in InUse /\ InFlight(c)
    <3>1. w.call = d
      BY <2>2, PutsType DEF BaseInv
    <3>2. calls[d].seen /\ calls[d].st \in {"got", "ready"}
      BY <2>2, PutsSeen DEF BaseInv
    <3> QED BY <1>2, <3>1, <3>2 DEF InFlight
  <2> QED BY <2>1, <2>2, WriteMoves DEF BaseInv
<1>3. c \in InUse => calls'[c].req = calls[c].req
  BY CallMoves DEF BaseInv
<1> QED BY <1>1, <1>2, <1>3 DEF InFlight

LEMMA AloneStep ==
  ASSUME BaseInv, Alone, [Next]_vars
  PROVE  Alone'
<1> SUFFICES ASSUME NEW c \in InUse', NEW d \in InUse', c # d, InFlight(c)', InFlight(d)'
             PROVE  Targets(calls'[c].req) \cap Targets(calls'[d].req) \subseteq raced'
  BY DEF Alone
<1>1. /\ c \in InUse /\ calls'[c].req = calls[c].req /\ (InFlight(c) \/ ExecSelect(c))
      /\ d \in InUse /\ calls'[d].req = calls[d].req /\ (InFlight(d) \/ ExecSelect(d))
  BY FlightMoves
<1>2. CASE InFlight(c) /\ InFlight(d)
  <2>1. Targets(calls[c].req) \cap Targets(calls[d].req) \subseteq raced
    BY <1>1, <1>2 DEF Alone
  <2>2. raced \subseteq raced'
    BY Moves
  <2> QED BY <1>1, <2>1, <2>2
<1>3. ASSUME NEW x \in InUse, NEW y \in InUse, x # y, ExecSelect(x), InFlight(y)
      PROVE  Targets(calls[x].req) \cap Targets(calls[y].req) \subseteq raced'
  BY <1>3 DEF ExecSelect
<1>4. ~(ExecSelect(c) /\ ExecSelect(d))
  <2>1. results \in Seq(InUse)
    BY DEF BaseInv, ResultsInv
  <2>2. ExecSelect(c) /\ ExecSelect(d) => Append(results, c) = Append(results, d)
    BY DEF ExecSelect
  <2>3. Append(results, c) = Append(results, d) => c = d
    BY <1>1, <2>1
  <2> QED BY <2>2, <2>3
<1> QED BY <1>1, <1>2, <1>3, <1>4

(* A statement leaves the queue when it is executed; otherwise the reward  *)
(* it marks stays open.                                                    *)
LEMMA WriteGoes ==
  ASSUME BaseInv, [Next]_vars, NEW w \in Pending, w \notin Pending'
  PROVE  (w \in batch /\ ExecWrite(w)) \/ Targets(calls[w.call].req) \subseteq open'
<1>1. ~(queue \subseteq queue' /\ batch' = batch)
  BY DEF Pending
<1>2. ~(\E r \in Requests : Start(r))
  BY <1>1 DEF Start, sqlVars
<1>3. ~TakeBatch
  BY DEF TakeBatch, Pending
<1>4. DbGone => Targets(calls[w.call].req) \subseteq open'
  BY DEF DbGone, MarksOf, Pending
<1>5. ~(\E c \in InUse : ExecSelect(c) \/ ExecSelectFail(c))
  BY <1>1 DEF ExecSelect, ExecSelectFail
<1>6. ~(\E c \in InUse : Callback(c))
  BY <1>1, CallbackAnswers DEF Answers
<1>7. ~(\E c \in InUse : Step(c))
  BY <1>1, StepProceeds DEF Proceeds
<1>8. ASSUME NEW v \in batch, ExecWrite(v) PROVE v = w
  BY <1>8 DEF ExecWrite, Pending
<1>9. ASSUME NEW v \in batch, ExecWriteFail(v) PROVE Targets(calls[w.call].req) \subseteq open'
  <2>1. v = w
    BY <1>9 DEF ExecWriteFail, Pending
  <2> QED BY <1>9, <2>1 DEF ExecWriteFail, MarksOf
<1>10. ~(\E p \in Presents : Issue(p))
  BY <1>1 DEF Issue, sqlVars
<1>11. ~(NextDay \/ UNCHANGED vars)
  BY <1>1 DEF NextDay, vars, sqlVars
<1>12. Kill => Targets(calls[w.call].req) \subseteq open'
  BY DEF Kill, MarksOf
<1> QED BY <1>2, <1>3, <1>4, <1>5, <1>6, <1>7, <1>8, <1>9, <1>10, <1>11, <1>12 DEF Next

(* While a request decides on a row, no statement about it is on its way,  *)
LEMMA NoOtherWrite ==
  ASSUME BaseInv, Alone, NEW c \in InUse, calls[c].seen, calls[c].st \notin {"done", "lost"},
         calls[c].req.op # "deleteAll", NEW x \in Targets(calls[c].req), x \notin raced,
         NEW w \in Pending, x \in Targets(calls[w.call].req)
  PROVE  FALSE
<1>1. WriteFits(w)
  BY DEF BaseInv, WritesInv
<1>2. w.call \in InUse /\ InFlight(w.call) /\ InFlight(c)
  BY <1>1 DEF WriteFits, InFlight
<1>3. w.call # c
  BY <1>1 DEF WriteFits
<1> QED BY <1>2, <1>3 DEF Alone

(* and no other request decides on it.                                     *)
LEMMA NoOtherCall ==
  ASSUME Alone, NEW c \in InUse, NEW d \in InUse, InFlight(c), InFlight(d),
         NEW x \in Targets(calls[c].req), x \in Targets(calls[d].req), x \notin raced
  PROVE  c = d
BY DEF Alone

-----------------------------------------------------------------------------
(* Presents *)

(* A present that is to be handed out is not marked; one is marked after   *)
(* it was handed out, and handed out again only after it was dealt again.  *)
BagReads ==
  \A c \in InUse :
    calls[c].req.op = "present" /\ calls[c].req.at \notin raced /\ calls[c].st = "got"
      /\ calls[c].img.n = 1 => db.bag[calls[c].req.at] = 1

BagWrites ==
  \A w \in Pending :
    LET p == calls[w.call].req.at
    IN  w.kind = "bag" /\ p \notin raced => \A i \in Items : given[p][i] >= issued[p]

BagRows ==
  \A p \in Presents \ raced : \A i \in Items :
    /\ given[p][i] >= issued[p] - 1
    /\ db.bag[p] = 2 => given[p][i] >= issued[p]

BagGiven ==
  \A p \in Presents : Settled(p) => \A i \in Items :
    /\ given[p][i] <= issued[p]
    /\ db.bag[p] = 1 => given[p][i] < issued[p] \/ BagMarked(p)

BagInv == BagReads /\ BagWrites /\ BagRows /\ BagGiven

(* Who writes the row of a present. *)
LEMMA BagMoves ==
  ASSUME BaseInv, [Next]_vars, NEW p \in Presents
  PROVE  \/ db'.bag[p] = db.bag[p]
         \/ \E w \in batch : /\ ExecWrite(w) /\ w.kind = "bag" /\ calls[w.call].req.at = p
                             /\ p \in Targets(calls[w.call].req) /\ db'.bag[p] = 2
         \/ Issue(p) /\ db'.bag[p] = 1
<1>0. db \in Db /\ db.bag \in [Presents -> 1 .. 2]
  BY DEF BaseInv, PlainInv, Db
<1>1. ASSUME NEW w \in batch, ExecWrite(w), db'.bag[p] # db.bag[p]
      PROVE  w.kind = "bag" /\ calls[w.call].req.at = p /\ db'.bag[p] = 2
             /\ p \in Targets(calls[w.call].req)
  <2>1. WriteFits(w)
    BY DEF BaseInv, WritesInv, Pending
  <2>2. db' = Applied(w) /\ w.kind \in Kinds
    BY <1>1, <2>1 DEF ExecWrite, WriteFits, Write
  <2>3. db'.bag = IF w.kind = "bag" THEN [db.bag EXCEPT ![calls[w.call].req.at] = 2] ELSE db.bag
    BY <1>0, <2>2, AppliedFields
  <2>4. w.kind = "bag" /\ calls[w.call].req.at = p /\ db'.bag[p] = 2
    BY <1>0, <1>1, <2>3
  <2> QED BY <2>1, <2>4 DEF WriteFits, PutsFits, Targets
<1>2. ASSUME NEW c \in InUse, DeleteSys(c) PROVE db'.bag = db.bag
  BY <1>0, <1>2, DeleteSysPuts
<1>3. ASSUME NEW q \in Presents, Issue(q) PROVE db'.bag = [db.bag EXCEPT ![q] = 1]
  BY <1>0, <1>3, IssuePuts
<1> QED BY <1>0, <1>1, <1>2, <1>3, Moves

(* Who hands it out, and who deals it. *)
LEMMA PresentMoves ==
  ASSUME BaseInv, [Next]_vars, NEW p \in Presents
  PROVE  /\ \A i \in Items : given'[p][i] >= given[p][i]
         /\ \/ given'[p] = given[p]
            \/ \E c \in InUse : /\ Present(c) \/ PresentBroken(c)
                                /\ calls[c].req.at = p
                                /\ \A i \in Items : given'[p][i] \in {given[p][i], given[p][i] + 1}
         /\ \/ issued'[p] = issued[p]
            \/ Issue(p) /\ issued'[p] = issued[p] + 1 /\ (db.bag[p] = 2 \/ p \in raced')
<1>0. /\ given \in [Mails \cup Presents -> [Items -> Nat]] /\ issued \in [Presents -> Nat]
      /\ db.bag \in [Presents -> 1 .. 2] /\ p \in Mails \cup Presents /\ p \notin Mails
  BY RewardsAssumption DEF BaseInv, PlainInv, LedgerType, Db
<1>1. given[p] \in [Items -> Nat]
  BY <1>0
<1>2. ASSUME NEW c \in InUse, AttachOwn(c) PROVE given'[p] = given[p]
  <2>1. calls[c].req.at \in OwnMails
    BY <1>2, AttachGives DEF BaseInv
  <2> QED BY <1>0, <1>2, <2>1, AttachGives DEF BaseInv, Mails
<1>3. ASSUME NEW c \in InUse, Present(c) \/ PresentBroken(c)
      PROVE  \/ given'[p] = given[p]
             \/ calls[c].req.at = p /\ \A i \in Items : given'[p][i] \in {given[p][i], given[p][i] + 1}
  BY <1>0, <1>3, PresentGives DEF BaseInv
<1>4. \/ given'[p] = given[p]
      \/ \E c \in InUse : /\ Present(c) \/ PresentBroken(c)
                          /\ calls[c].req.at = p
                          /\ \A i \in Items : given'[p][i] \in {given[p][i], given[p][i] + 1}
  BY <1>2, <1>3, Moves
<1>5. \A i \in Items : given'[p][i] >= given[p][i]
  BY <1>1, <1>4
<1>6. ASSUME NEW q \in Presents, Issue(q)
      PROVE  \/ issued'[p] = issued[p]
             \/ Issue(p) /\ issued'[p] = issued[p] + 1 /\ (db.bag[p] = 2 \/ p \in raced')
  <2> DEFINE k == IF db.bag[q] = 1 /\ ~BagMarked(q) THEN 0 ELSE 1
  <2>1. issued' = [issued EXCEPT ![q] = issued[q] + k]
    BY <1>6 DEF Issue
  <2>2. k \in {0, 1} /\ (k = 1 => db.bag[q] # 1 \/ q \in raced')
    <3>1. BagMarked(q) => q \in raced'
      BY <1>6 DEF Issue
    <3> QED BY <3>1
  <2> HIDE DEF k
  <2>3. PICK n \in {0, 1} : /\ issued' = [issued EXCEPT ![q] = issued[q] + n]
                            /\ n = 1 => db.bag[q] # 1 \/ q \in raced'
    BY <2>1, <2>2
  <2>4. q # p => issued'[p] = issued[p]
    BY <1>0, <2>3
  <2>5. q = p => issued'[p] = issued[p] + n
    BY <1>0, <2>3
  <2>6. db.bag[p] # 1 => db.bag[p] = 2
    BY <1>0
  <2> QED BY <1>0, <1>6, <2>3, <2>4, <2>5, <2>6
<1>7. \/ issued'[p] = issued[p]
      \/ Issue(p) /\ issued'[p] = issued[p] + 1 /\ (db.bag[p] = 2 \/ p \in raced')
  BY <1>6, Moves
<1> QED BY <1>4, <1>5, <1>7

LEMMA BagReadsStep ==
  ASSUME BaseInv, Alone, BagInv, [Next]_vars
  PROVE  BagReads'
<1> SUFFICES ASSUME NEW c \in InUse', calls'[c].req.op = "present", calls'[c].req.at \notin raced',
                    calls'[c].st = "got", calls'[c].img.n = 1
             PROVE  db'.bag[calls'[c].req.at] = 1
  BY DEF BagReads
<1>1. c \in InUse
  BY NewCall DEF BaseInv
<1> DEFINE p == calls[c].req.at
<1>2. calls'[c].req = calls[c].req /\ calls[c].req.op = "present" /\ p \notin raced
  BY <1>1, CallMoves, Moves DEF BaseInv
<1>3. calls[c].req \in Requests /\ p \in Presents /\ Targets(calls[c].req) = {p}
  BY <1>1, <1>2, AskedType, RequestFacts DEF BaseInv, About, Targets
<1>4. CASE ExecSelect(c)
  <2> DEFINE h == Head(calls[c].todo)
  <2>1. calls'[c].img = ImageOf(calls[c].req, h) /\ StepFits(calls[c].req, h)
    BY <1>1, <1>4, ReadPuts DEF BaseInv
  <2>2. ImageOf(calls[c].req, h).n = db.bag[p]
    BY <1>2, <2>1 DEF StepFits, ImageOf, NoImage
  <2>3. db' = db
    BY <1>4 DEF ExecSelect
  <2> QED BY <1>2, <2>1, <2>2, <2>3
<1>5. CASE ~ExecSelect(c)
  <2>1. calls[c].st = "got" /\ calls[c].img.n = 1 /\ calls[c].seen
    BY <1>1, <1>5, CallMoves DEF BaseInv, CallsInv, CallFits
  <2>2. db.bag[p] = 1
    BY <1>1, <1>2, <2>1 DEF BagInv, BagReads
  <2>3. ~(\E w \in batch : p \in Targets(calls[w.call].req))
    BY <1>1, <1>2, <1>3, <2>1, NoOtherWrite DEF Pending
  <2> QED BY <1>2, <1>3, <2>2, <2>3, BagMoves
<1> QED BY <1>4, <1>5

LEMMA BagWritesStep ==
  ASSUME BaseInv, Alone, BagInv, [Next]_vars
  PROVE  BagWrites'
<1> SUFFICES ASSUME NEW w \in Pending', w.kind = "bag", calls'[w.call].req.at \notin raced',
                    NEW i \in Items
             PROVE  given'[calls'[w.call].req.at][i] >= issued'[calls'[w.call].req.at]
  BY DEF BagWrites
<1> DEFINE c == w.call
           p == calls[c].req.at
<1>1. CASE w \in Pending
  <2>1. WriteFits(w)
    BY <1>1 DEF BaseInv, WritesInv
  <2>2. c \in InUse /\ calls[c].req.op = "present" /\ calls'[c].req = calls[c].req
    BY <2>1, CallMoves DEF BaseInv, WriteFits, PutsFits
  <2>3. p \in Presents /\ Targets(calls[c].req) = {p} /\ p \notin raced
    BY <2>2, AskedType, RequestFacts, Moves DEF BaseInv, About, Targets
  <2>4. given[p][i] >= issued[p] /\ given[p][i] \in Nat /\ issued[p] \in Nat
    BY <1>1, <2>3 DEF BagInv, BagWrites, BaseInv, PlainInv, LedgerType
  <2>5. ~Issue(p)
    <3>1. BagMarked(p)
      BY <1>1 DEF BagMarked
    <3>2. Issue(p) => p \in raced'
      BY <3>1 DEF Issue
    <3> QED BY <2>2, <3>2
  <2>6. given'[p][i] >= given[p][i] /\ issued'[p] = issued[p]
    BY <2>3, <2>5, PresentMoves
  <2>7. given'[p][i] \in Nat
    BY <2>3, PlainStep DEF BaseInv, PlainInv, LedgerType
  <2> QED BY <2>2, <2>4, <2>6, <2>7
<1>2. ASSUME NEW d \in InUse, Puts(d, w)
      PROVE  given'[p][i] >= issued'[p] /\ calls'[c].req = calls[c].req
  <2>1. w.call = d
    BY <1>2, PutsType DEF BaseInv
  <2>2. Present(d)
    BY <1>2 DEF Puts, Wr
  <2>3. p \in Presents /\ given'[p][i] = given[p][i] + 1
    BY <2>1, <2>2, PresentGives DEF BaseInv
  <2>4. calls'[c].req = calls[c].req /\ p \notin raced
    BY <2>1, CallMoves, Moves DEF BaseInv
  <2>5. given[p][i] >= issued[p] - 1 /\ given[p][i] \in Nat /\ issued[p] \in Nat
    BY <2>3, <2>4 DEF BagInv, BagRows, BaseInv, PlainInv, LedgerType
  <2>6. issued' = issued
    BY <2>2 DEF Present
  <2> QED BY <2>3, <2>4, <2>5, <2>6
<1> QED BY <1>1, <1>2, WriteMoves DEF BaseInv

LEMMA BagRowsStep ==
  ASSUME BaseInv, Alone, BagInv, [Next]_vars
  PROVE  BagRows'
<1> SUFFICES ASSUME NEW p \in Presents, p \notin raced', NEW i \in Items
             PROVE  /\ given'[p][i] >= issued'[p] - 1
                    /\ db'.bag[p] = 2 => given'[p][i] >= issued'[p]
  BY DEF BagRows
<1>1. p \notin raced
  BY Moves
<1>2. /\ given[p][i] >= issued[p] - 1
      /\ db.bag[p] = 2 => given[p][i] >= issued[p]
  BY <1>1 DEF BagInv, BagRows
<1>3. /\ given[p][i] \in Nat /\ issued[p] \in Nat /\ given'[p][i] \in Nat /\ issued'[p] \in Nat
      /\ given'[p][i] >= given[p][i]
  BY PlainStep, PresentMoves DEF BaseInv, PlainInv, LedgerType
<1>4. issued'[p] = issued[p] \/ (issued'[p] = issued[p] + 1 /\ db.bag[p] = 2 /\ Issue(p))
  BY PresentMoves
<1>5. given'[p][i] >= issued'[p] - 1
  BY <1>2, <1>3, <1>4
<1>6. ASSUME db'.bag[p] = 2 PROVE given'[p][i] >= issued'[p]
  <2>1. Issue(p) => db'.bag[p] = 1
    <3>1. db.bag \in [Presents -> 1 .. 2] /\ db \in Db
      BY DEF BaseInv, PlainInv, Db
    <3>2. Issue(p) => db'.bag = [db.bag EXCEPT ![p] = 1]
      BY <3>1, IssuePuts
    <3> QED BY <3>1, <3>2
  <2>2. issued'[p] = issued[p]
    BY <1>4, <1>6, <2>1
  <2>3. CASE db.bag[p] = 2
    BY <1>2, <1>3, <2>2, <2>3
  <2>4. ASSUME NEW w \in batch, w.kind = "bag", calls[w.call].req.at = p
        PROVE  given[p][i] >= issued[p]
    BY <1>1, <2>4 DEF BagInv, BagWrites, Pending
  <2>5. db.bag[p] = 2 \/ \E w \in batch : w.kind = "bag" /\ calls[w.call].req.at = p
    BY <1>6, <2>1, BagMoves
  <2> QED BY <1>3, <2>2, <2>3, <2>4, <2>5
<1> QED BY <1>5, <1>6

LEMMA BagGivenStep ==
  ASSUME BaseInv, Alone, BagInv, [Next]_vars
  PROVE  BagGiven'
<1> SUFFICES ASSUME NEW p \in Presents, Settled(p)', NEW i \in Items
             PROVE  /\ given'[p][i] <= issued'[p]
                    /\ db'.bag[p] = 1 => given'[p][i] < issued'[p] \/ BagMarked(p)'
  BY DEF BagGiven
<1>1. Settled(p) /\ p \notin raced /\ p \notin open' /\ p \notin raced'
  BY Moves DEF Settled
<1>2. /\ given[p][i] <= issued[p]
      /\ db.bag[p] = 1 => given[p][i] < issued[p] \/ BagMarked(p)
  BY <1>1 DEF BagInv, BagGiven
<1>3. given[p][i] \in Nat /\ issued[p] \in Nat /\ db.bag[p] \in 1 .. 2
  BY DEF BaseInv, PlainInv, LedgerType, Db
<1>4. issued'[p] = issued[p] \/ (issued'[p] = issued[p] + 1 /\ db.bag[p] = 2 /\ Issue(p))
  BY <1>1, PresentMoves
<1>5. ASSUME NEW c \in InUse, Present(c) \/ PresentBroken(c), calls[c].req.at = p,
             given'[p][i] \in {given[p][i], given[p][i] + 1}
      PROVE  /\ given'[p][i] <= issued'[p]
             /\ BagMarked(p)'
  <2>1. /\ Present(c) /\ calls[c].req.op = "present" /\ calls[c].st = "got" /\ calls[c].img.n = 1
    BY <1>1, <1>5, PresentGives DEF BaseInv
  <2>2. db.bag[p] = 1
    BY <1>1, <1>5, <2>1 DEF BagInv, BagReads
  <2>3. Targets(calls[c].req) = {p} /\ calls[c].seen
    BY <1>5, <2>1 DEF Targets, BaseInv, CallsInv, CallFits
  <2>4. ~BagMarked(p)
    <3>1. ASSUME NEW w \in Pending, w.kind = "bag", calls[w.call].req.at = p
          PROVE  p \in Targets(calls[w.call].req)
      BY <3>1 DEF BaseInv, WritesInv, WriteFits, PutsFits, Targets
    <3> QED BY <1>1, <2>1, <2>3, <3>1, NoOtherWrite DEF BagMarked
  <2>5. issued' = issued /\ Wr(c, "bag", {}, NoSign) \in queue'
    BY <2>1 DEF Present, Done
  <2>6. calls'[c].req = calls[c].req
    BY CallMoves DEF BaseInv
  <2>7. BagMarked(p)'
    <3> DEFINE v == Wr(c, "bag", {}, NoSign)
    <3>1. v.kind = "bag" /\ v.call = c
      BY DEF Wr
    <3>2. v \in Pending'
      BY <2>5 DEF Pending
    <3> HIDE DEF v
    <3> QED BY <1>5, <2>6, <3>1, <3>2 DEF BagMarked
  <2> QED BY <1>2, <1>3, <1>5, <2>2, <2>4, <2>5, <2>7
<1>6. ASSUME given'[p] = given[p]
      PROVE  /\ given'[p][i] <= issued'[p]
             /\ db'.bag[p] = 1 => given'[p][i] < issued'[p] \/ BagMarked(p)'
  <2>1. given'[p][i] <= issued'[p]
    BY <1>2, <1>3, <1>4, <1>6
  <2>2. CASE issued'[p] = issued[p] + 1
    BY <1>2, <1>3, <1>6, <2>2
  <2>3. ASSUME issued'[p] = issued[p], db'.bag[p] = 1
        PROVE  given'[p][i] < issued'[p] \/ BagMarked(p)'
    <3>1. db.bag[p] = 1
      <4>1. ASSUME Issue(p), db.bag[p] = 2 PROVE FALSE
        <5>1. issued' = [issued EXCEPT ![p] = issued[p] + 1]
          BY <4>1 DEF Issue
        <5>2. issued \in [Presents -> Nat]
          BY DEF BaseInv, PlainInv, LedgerType
        <5>3. issued'[p] = issued[p] + 1
          BY <4>1, <5>1, <5>2
        <5> QED BY <1>3, <2>3, <5>3
      <4>2. db.bag[p] = 1 \/ db.bag[p] = 2
        BY <1>3
      <4> QED BY <2>3, <4>1, <4>2, BagMoves
    <3>2. CASE given[p][i] < issued[p]
      BY <1>6, <2>3, <3>2
    <3>3. ASSUME NEW w \in Pending, w.kind = "bag", calls[w.call].req.at = p
          PROVE  BagMarked(p)'
      <4>1. w.call \in InUse /\ p \in Targets(calls[w.call].req)
        BY <3>3 DEF BaseInv, WritesInv, WriteFits, PutsFits, Targets
      <4>2. calls'[w.call].req = calls[w.call].req
        BY <4>1, CallMoves DEF BaseInv
      <4>3. ~ExecWrite(w)
        <5>1. WriteFits(w) /\ db.bag \in [Presents -> 1 .. 2] /\ db \in Db
          BY DEF BaseInv, WritesInv, PlainInv, Db
        <5>2. ExecWrite(w) => db' = Applied(w)
          BY DEF ExecWrite
        <5>3. Applied(w).bag = [db.bag EXCEPT ![p] = 2]
          BY <3>3, <5>1, AppliedFields DEF WriteFits, Write
        <5> QED BY <2>3, <5>1, <5>2, <5>3
      <4>4. w \in Pending'
        BY <1>1, <4>1, <4>3, WriteGoes
      <4> QED BY <3>3, <4>2, <4>4 DEF BagMarked
    <3> QED BY <1>2, <3>1, <3>2, <3>3 DEF BagMarked
  <2> QED BY <1>4, <2>1, <2>2, <2>3
<1> QED BY <1>5, <1>6, PresentMoves

LEMMA BagInit ==
  ASSUME Init
  PROVE  BagInv
<1>1. InUse = {} /\ Pending = {}
  BY DEF Init, InUse, Pending
<1>2. \A p \in Presents : /\ issued[p] = 1 /\ db.bag[p] = 1
                          /\ \A i \in Items : given[p][i] = 0
  BY DEF Init
<1> QED BY <1>1, <1>2 DEF BagInv, BagReads, BagWrites, BagRows, BagGiven

LEMMA BagStep ==
  ASSUME BaseInv, Alone, BagInv, [Next]_vars
  PROVE  BagInv'
BY BagReadsStep, BagWritesStep, BagRowsStep, BagGivenStep DEF BagInv

-----------------------------------------------------------------------------
(* Mails to the player *)

(* A callback sees the attachments of its mail as they were sent, and the  *)
(* mail is still there when they are handed out.                           *)
MailCalls ==
  \A c \in InUse :
    LET r == calls[c].req
        img == calls[c].img
    IN  /\ r.op \in {"detail", "delete", "attach"} /\ r.at \notin SysMails /\ img.mail.there
             => img.mail.attach = AttachOf[r.at]
        /\ r.op = "attach" /\ r.at \in OwnMails \ raced /\ calls[c].st = "got" /\ img.mail.there
             => db.mail[r.at].there
        /\ r.op = "deleteAll" /\ calls[c].st = "got" /\ calls[c].todo # <<>>
             => \A m \in img.mails : AttachOf[m] # 1

(* What can be taken is not deleted before it was handed out, or failed. *)
MailWrites ==
  \A w \in Pending : w.kind = "drop" =>
    \A m \in w.mails : AttachOf[m] = 1 => \A i \in Items : given[m][i] + failed[m][i] > 0

MailDropped(m) == \E w \in Pending : w.kind = "drop" /\ m \in w.mails

MailRows ==
  /\ \A m \in Mails : db.mail[m].there => db.mail[m].attach = AttachOf[m]
  /\ \A m \in OwnMails : AttachOf[m] = 1 /\ ~db.mail[m].there =>
        \A i \in Items : given[m][i] + failed[m][i] > 0
  /\ \A m \in ForeignMails : db.mail[m].there

MailGiven ==
  \A m \in OwnMails : Settled(m) => \A i \in Items :
    /\ given[m][i] <= 1
    /\ given[m][i] > 0 => ~db.mail[m].there \/ MailDropped(m)

MailInv == MailCalls /\ MailWrites /\ MailRows /\ MailGiven

(* Who writes the row of a mail. *)
LEMMA MailMoves ==
  ASSUME BaseInv, [Next]_vars, NEW m \in Mails
  PROVE  \/ db'.mail[m].there = db.mail[m].there /\ db'.mail[m].attach = db.mail[m].attach
         \/ \E w \in batch : /\ ExecWrite(w) /\ w.kind = "drop" /\ m \in w.mails
                             /\ m \in OwnMails /\ m \in Targets(calls[w.call].req)
                             /\ ~db'.mail[m].there
<1>0. db \in Db /\ db.mail \in [Mails -> MailRow]
  BY DEF BaseInv, PlainInv, Db
<1>1. ASSUME NEW w \in batch, ExecWrite(w)
      PROVE  \/ db'.mail[m].there = db.mail[m].there /\ db'.mail[m].attach = db.mail[m].attach
             \/ /\ w.kind = "drop" /\ m \in w.mails /\ ~db'.mail[m].there
                /\ m \in OwnMails /\ m \in Targets(calls[w.call].req)
  <2>1. WriteFits(w)
    BY DEF BaseInv, WritesInv, Pending
  <2>2. db' = Applied(w) /\ w.kind \in Kinds
    BY <1>1, <2>1 DEF ExecWrite, WriteFits, Write
  <2>3. db'.mail = CASE w.kind = "read" -> SetState(db.mail, w.mails, 1)
                     [] w.kind = "drop" -> [x \in Mails |-> IF x \in w.mails THEN NoMail
                                                            ELSE db.mail[x]]
                     [] OTHER -> db.mail
    BY <1>0, <2>2, AppliedFields
  <2>4. ASSUME w.kind = "read"
        PROVE  db'.mail[m].there = db.mail[m].there /\ db'.mail[m].attach = db.mail[m].attach
    <3>1. db'.mail = SetState(db.mail, w.mails, 1)
      BY <2>3, <2>4
    <3> QED BY <1>0, <3>1, SetStateType
  <2>5. ASSUME w.kind = "drop"
        PROVE  IF m \in w.mails THEN db'.mail[m] = NoMail ELSE db'.mail[m] = db.mail[m]
    BY <2>3, <2>5
  <2>6. ASSUME w.kind = "drop", m \in w.mails
        PROVE  m \in OwnMails /\ m \in Targets(calls[w.call].req)
    BY <2>1, <2>6 DEF WriteFits, PutsFits
  <2>7. ASSUME w.kind \notin {"read", "drop"} PROVE db'.mail = db.mail
    BY <2>3, <2>7
  <2>8. ~NoMail.there
    BY DEF NoMail
  <2> QED BY <2>4, <2>5, <2>6, <2>7, <2>8
<1>2. ASSUME NEW c \in InUse, DeleteSys(c) PROVE db'.mail = db.mail
  BY <1>0, <1>2, DeleteSysPuts
<1>3. ASSUME NEW q \in Presents, Issue(q) PROVE db'.mail = db.mail
  BY <1>0, <1>3, IssuePuts
<1> QED BY <1>1, <1>2, <1>3, Moves

(* Who hands out the attachments of a mail to the player. *)
LEMMA AttachMoves ==
  ASSUME BaseInv, [Next]_vars, NEW m \in OwnMails
  PROVE  /\ \A i \in Items : /\ given[m][i] \in Nat /\ failed[m][i] \in Nat
                             /\ given'[m][i] \in Nat /\ failed'[m][i] \in Nat
                             /\ given'[m][i] >= given[m][i] /\ failed'[m][i] >= failed[m][i]
         /\ \/ given'[m] = given[m]
            \/ \E c \in InUse : AttachOwn(c) /\ calls[c].req.at = m
<1>0. /\ given \in [Mails \cup Presents -> [Items -> Nat]] /\ failed \in [Mails -> [Items -> Nat]]
      /\ given' \in [Mails \cup Presents -> [Items -> Nat]] /\ failed' \in [Mails -> [Items -> Nat]]
      /\ m \in Mails \cup Presents /\ m \notin Presents /\ m \in Mails
  BY PlainStep, RewardsAssumption DEF BaseInv, PlainInv, LedgerType, Mails
<1>1. \A i \in Items : /\ given[m][i] \in Nat /\ failed[m][i] \in Nat
                       /\ given'[m][i] \in Nat /\ failed'[m][i] \in Nat
  BY <1>0
<1>2. ASSUME NEW c \in InUse, Present(c) \/ PresentBroken(c) PROVE given'[m] = given[m]
  BY <1>0, <1>2, PresentGives DEF BaseInv
<1>3. ASSUME NEW c \in InUse, AttachOwn(c)
      PROVE  /\ calls[c].req.at # m => given'[m] = given[m] /\ failed'[m] = failed[m]
             /\ calls[c].req.at = m => \A i \in Items : /\ given'[m][i] \in {given[m][i], given[m][i] + 1}
                                                        /\ failed'[m][i] >= failed[m][i]
  BY <1>0, <1>3, AttachGives DEF BaseInv
<1>4. \/ given'[m] = given[m]
      \/ \E c \in InUse : AttachOwn(c) /\ calls[c].req.at = m
  BY <1>2, <1>3, Moves
<1>5. \A i \in Items : given'[m][i] >= given[m][i]
  BY <1>1, <1>3, <1>4
<1>6. \A i \in Items : failed'[m][i] >= failed[m][i]
  BY <1>1, <1>3, Moves
<1> QED BY <1>1, <1>4, <1>5, <1>6

LEMMA MailCallsStep ==
  ASSUME BaseInv, Alone, MailInv, [Next]_vars
  PROVE  MailCalls'
<1> SUFFICES ASSUME NEW c \in InUse'
             PROVE  LET r == calls'[c].req
                        img == calls'[c].img
                    IN  /\ r.op \in {"detail", "delete", "attach"} /\ r.at \notin SysMails
                           /\ img.mail.there => img.mail.attach = AttachOf[r.at]
                        /\ r.op = "attach" /\ r.at \in OwnMails \ raced' /\ calls'[c].st = "got"
                           /\ img.mail.there => db'.mail[r.at].there
                        /\ r.op = "deleteAll" /\ calls'[c].st = "got" /\ calls'[c].todo # <<>>
                             => \A m \in img.mails : AttachOf[m] # 1
  BY DEF MailCalls
<1>1. CASE c \notin InUse
  <2>1. calls'[c].img = NoImage /\ calls'[c].st # "got"
    BY <1>1, NewCall DEF BaseInv
  <2>2. ~NoImage.mail.there
    BY DEF NoImage, NoMail
  <2> QED BY <2>1, <2>2
<1>2. CASE c \in InUse /\ ExecSelect(c)
  <2> DEFINE r == calls[c].req
             h == Head(calls[c].todo)
  <2>1. calls'[c].req = r /\ calls'[c].img = ImageOf(r, h) /\ StepFits(r, h) /\ db' = db
    BY <1>2, ReadPuts DEF BaseInv, ExecSelect
  <2>2. r \in Requests
    BY <1>2, AskedType DEF BaseInv
  <2>3. ASSUME r.op \in {"detail", "delete", "attach"}, r.at \notin SysMails
        PROVE  ImageOf(r, h).mail = db.mail[r.at] /\ r.at \in Mails
    <3>1. r.at \in Mails
      BY <2>2, <2>3, RequestFacts DEF About
    <3>2. ImageOf(r, h) = [NoImage EXCEPT !.mail = db.mail[r.at]]
      BY <2>1, <2>3 DEF StepFits, ImageOf
    <3> QED BY <3>1, <3>2 DEF NoImage
  <2>4. ASSUME r.op = "deleteAll", calls'[c].todo # <<>>
        PROVE  \A m \in ImageOf(r, h).mails : m \in OwnMails /\ Deletable(db.mail[m])
    <3>1. h = "own"
      BY <1>2, <2>4, DeleteAllReads DEF BaseInv
    <3>2. ImageOf(r, h).mails = {m \in OwnMails : Deletable(db.mail[m])}
      BY <2>1, <2>4, <3>1 DEF StepFits, ImageOf, NoImage
    <3> QED BY <3>2
  <2>5. \A m \in OwnMails : Deletable(db.mail[m]) => AttachOf[m] # 1
    BY DEF Deletable, MailInv, MailRows, Mails
  <2>6. ASSUME r.op \in {"detail", "delete", "attach"}, r.at \notin SysMails,
               db.mail[r.at].there, r.at \in Mails
        PROVE  db.mail[r.at].attach = AttachOf[r.at]
    BY <2>6 DEF MailInv, MailRows
  <2>7. ASSUME r.op = "attach", r.at \in OwnMails PROVE r.at \notin SysMails
    BY <2>7, RewardsAssumption
  <2> DEFINE img == ImageOf(r, h)
  <2> HIDE DEF img, r
  <2> QED BY <2>1, <2>3, <2>4, <2>5, <2>6, <2>7 DEF img
<1>3. CASE c \in InUse /\ ~ExecSelect(c)
  <2> DEFINE r == calls[c].req
             img == calls[c].img
  <2>1. /\ calls'[c].req = r /\ calls'[c].img = img /\ calls'[c].todo = calls[c].todo
        /\ calls'[c].st = "got" => calls[c].st = "got"
        /\ raced \subseteq raced'
    BY <1>3, CallMoves, Moves DEF BaseInv
  <2>2. /\ r.op \in {"detail", "delete", "attach"} /\ r.at \notin SysMails
           /\ img.mail.there => img.mail.attach = AttachOf[r.at]
        /\ r.op = "deleteAll" /\ calls[c].st = "got" /\ calls[c].todo # <<>>
             => \A m \in img.mails : AttachOf[m] # 1
    BY <1>3 DEF MailInv, MailCalls
  <2>3. ASSUME r.op = "attach", r.at \in OwnMails, r.at \notin raced, calls[c].st = "got",
               img.mail.there
        PROVE  db'.mail[r.at].there
    <3>1. db.mail[r.at].there
      BY <1>3, <2>3 DEF MailInv, MailCalls
    <3>2. r.at \in Targets(r) /\ calls[c].seen /\ r.at \in Mails
      BY <1>3, <2>3 DEF Targets, BaseInv, CallsInv, CallFits, Mails
    <3>3. ~(\E w \in batch : r.at \in Targets(calls[w.call].req))
      BY <1>3, <2>3, <3>2, NoOtherWrite DEF Pending
    <3> QED BY <3>1, <3>2, <3>3, MailMoves
  <2> QED BY <2>1, <2>2, <2>3
<1> QED BY <1>1, <1>2, <1>3

LEMMA MailWritesStep ==
  ASSUME BaseInv, MailInv, [Next]_vars
  PROVE  MailWrites'
<1> SUFFICES ASSUME NEW w \in Pending', w.kind = "drop", NEW m \in w.mails, AttachOf[m] = 1,
                    NEW i \in Items
             PROVE  given'[m][i] + failed'[m][i] > 0
  BY DEF MailWrites
<1>1. CASE w \in Pending
  <2>1. m \in OwnMails
    BY <1>1 DEF BaseInv, WritesInv, WriteFits, PutsFits
  <2>2. given[m][i] + failed[m][i] > 0
    BY <1>1 DEF MailInv, MailWrites
  <2> QED BY <2>1, <2>2, AttachMoves
<1>2. ASSUME NEW c \in InUse, Puts(c, w) PROVE given'[m][i] + failed'[m][i] > 0
  <2> DEFINE r == calls[c].req
             img == calls[c].img
  <2>1. CASE DeleteOwn(c) /\ r.at \notin ForeignMails /\ Deletable(img.mail)
             /\ w = Wr(c, "drop", {r.at}, NoSign)
    <3>1. m = r.at /\ r.op = "delete" /\ r.at \notin SysMails
      BY <2>1 DEF Wr, DeleteOwn, Decides
    <3>2. img.mail.there /\ img.mail.attach # 1
      BY <2>1 DEF Deletable
    <3> QED BY <1>2, <3>1, <3>2 DEF MailInv, MailCalls
  <2>2. CASE AttachOwn(c) /\ w = Wr(c, "drop", {r.at}, NoSign)
    <3>1. m = r.at
      BY <2>2 DEF Wr
    <3> QED BY <1>2, <2>2, <3>1, AttachGives DEF BaseInv
  <2>3. CASE DeleteAll(c) /\ w = Wr(c, IF calls[c].todo = <<>> THEN "hideSys" ELSE "drop",
                                    img.mails, NoSign)
    <3>1. m \in img.mails /\ calls[c].todo # <<>> /\ r.op = "deleteAll" /\ calls[c].st = "got"
      BY <2>3 DEF Wr, DeleteAll
    <3> QED BY <1>2, <3>1 DEF MailInv, MailCalls
  <2>4. \/ DeleteOwn(c) /\ r.at \notin ForeignMails /\ Deletable(img.mail)
           /\ w = Wr(c, "drop", {r.at}, NoSign)
        \/ AttachOwn(c) /\ w = Wr(c, "drop", {r.at}, NoSign)
        \/ DeleteAll(c) /\ w = Wr(c, IF calls[c].todo = <<>> THEN "hideSys" ELSE "drop",
                                  img.mails, NoSign)
    BY <1>2 DEF Puts, Wr
  <2> QED BY <2>1, <2>2, <2>3, <2>4
<1> QED BY <1>1, <1>2, WriteMoves DEF BaseInv

LEMMA MailRowsStep ==
  ASSUME BaseInv, MailInv, [Next]_vars
  PROVE  MailRows'
<1>1. ASSUME NEW m \in Mails, db'.mail[m].there PROVE db'.mail[m].attach = AttachOf[m]
  BY <1>1, MailMoves DEF MailInv, MailRows
<1>2. ASSUME NEW m \in OwnMails, AttachOf[m] = 1, ~db'.mail[m].there, NEW i \in Items
      PROVE  given'[m][i] + failed'[m][i] > 0
  <2>1. m \in Mails
    BY DEF Mails
  <2>2. given[m][i] + failed[m][i] > 0
    <3>1. CASE ~db.mail[m].there
      BY <1>2, <3>1 DEF MailInv, MailRows
    <3>2. ASSUME NEW w \in batch, w.kind = "drop", m \in w.mails
          PROVE  given[m][i] + failed[m][i] > 0
      BY <1>2, <3>2 DEF MailInv, MailWrites, Pending
    <3> QED BY <1>2, <2>1, <3>1, <3>2, MailMoves
  <2> QED BY <2>2, AttachMoves
<1>3. ASSUME NEW m \in ForeignMails PROVE db'.mail[m].there
  <2>1. m \in Mails /\ m \notin OwnMails
    BY RewardsAssumption DEF Mails
  <2> QED BY <2>1, MailMoves DEF MailInv, MailRows
<1> QED BY <1>1, <1>2, <1>3 DEF MailRows

LEMMA MailGivenStep ==
  ASSUME BaseInv, Alone, MailInv, [Next]_vars
  PROVE  MailGiven'
<1> SUFFICES ASSUME NEW m \in OwnMails, Settled(m)', NEW i \in Items
             PROVE  /\ given'[m][i] <= 1
                    /\ given'[m][i] > 0 => ~db'.mail[m].there \/ MailDropped(m)'
  BY DEF MailGiven
<1>1. Settled(m) /\ m \notin raced /\ m \notin open'
  BY Moves DEF Settled
<1>2. /\ given[m][i] <= 1 /\ given[m][i] \in Nat
      /\ given[m][i] > 0 => ~db.mail[m].there \/ MailDropped(m)
  BY <1>1, AttachMoves DEF MailInv, MailGiven
<1>3. m \in Mails
  BY DEF Mails
<1>4. CASE given'[m] = given[m]
  <2>1. ASSUME ~db.mail[m].there PROVE ~db'.mail[m].there
    BY <1>3, <2>1, MailMoves
  <2>2. ASSUME NEW w \in Pending, w.kind = "drop", m \in w.mails
        PROVE  ~db'.mail[m].there \/ MailDropped(m)'
    <3>1. m \in Targets(calls[w.call].req) /\ WriteFits(w)
      BY <2>2 DEF BaseInv, WritesInv, WriteFits, PutsFits
    <3>2. ASSUME ExecWrite(w) PROVE ~db'.mail[m].there
      <4>1. db' = Applied(w) /\ w.kind \in Kinds /\ db \in Db
        BY <3>1, <3>2 DEF ExecWrite, WriteFits, Write, BaseInv, PlainInv
      <4>2. db'.mail = [x \in Mails |-> IF x \in w.mails THEN NoMail ELSE db.mail[x]]
        BY <2>2, <4>1, AppliedFields
      <4> QED BY <1>3, <2>2, <4>2 DEF NoMail
    <3>3. w \in Pending' \/ ExecWrite(w)
      BY <1>1, <3>1, WriteGoes
    <3> QED BY <2>2, <3>2, <3>3 DEF MailDropped
  <2> QED BY <1>2, <1>4, <2>1, <2>2 DEF MailDropped
<1>5. ASSUME NEW c \in InUse, AttachOwn(c), calls[c].req.at = m
      PROVE  given'[m][i] <= 1 /\ MailDropped(m)'
  <2>1. /\ calls[c].req.op = "attach" /\ calls[c].st = "got" /\ calls[c].img.mail.there
        /\ given'[m][i] \in {given[m][i], given[m][i] + 1}
    BY <1>5, AttachGives DEF BaseInv
  <2>2. db.mail[m].there
    BY <1>1, <1>5, <2>1 DEF MailInv, MailCalls
  <2>3. m \in Targets(calls[c].req) /\ calls[c].seen
    BY <1>5, <2>1 DEF Targets, BaseInv, CallsInv, CallFits
  <2>4. ~MailDropped(m)
    <3>1. ASSUME NEW w \in Pending, w.kind = "drop", m \in w.mails
          PROVE  m \in Targets(calls[w.call].req)
      BY <3>1 DEF BaseInv, WritesInv, WriteFits, PutsFits
    <3> QED BY <1>1, <2>1, <2>3, <3>1, NoOtherWrite DEF MailDropped
  <2>5. Wr(c, "drop", {m}, NoSign) \in Pending'
    BY <1>5 DEF AttachOwn, Done, Pending
  <2>6. MailDropped(m)'
    BY <2>5, WrFields DEF MailDropped
  <2> QED BY <1>2, <2>1, <2>2, <2>4, <2>6
<1> QED BY <1>4, <1>5, AttachMoves

LEMMA MailInit ==
  ASSUME Init
  PROVE  MailInv
<1>1. InUse = {} /\ Pending = {}
  BY DEF Init, InUse, Pending
<1>2. \A m \in Mails : db.mail[m].there /\ db.mail[m].attach = AttachOf[m]
  BY DEF Init
<1>3. \A m \in OwnMails : m \in Mails /\ \A i \in Items : given[m][i] = 0
  BY DEF Init, Mails
<1>4. ForeignMails \subseteq Mails
  BY DEF Mails
<1> QED BY <1>1, <1>2, <1>3, <1>4 DEF MailInv, MailCalls, MailWrites, MailRows, MailGiven

LEMMA MailStep ==
  ASSUME BaseInv, Alone, MailInv, [Next]_vars
  PROVE  MailInv'
BY MailCallsStep, MailWritesStep, MailRowsStep, MailGivenStep DEF MailInv

-----------------------------------------------------------------------------
(* What is handed out *)

ClaimIInv == BaseInv /\ Alone /\ MailInv /\ BagInv

LEMMA AloneInit ==
  ASSUME Init
  PROVE  Alone
BY DEF Init, Alone, InUse

LEMMA ClaimFacts ==
  ASSUME ClaimIInv
  PROVE  ClaimInv
<1>1. TypeOK
  BY BaseTypes DEF ClaimIInv
<1>2. GrantedOnce
  BY DEF ClaimIInv, MailInv, MailGiven, BagInv, BagGiven, GrantedOnce
<1>3. TakenOnlyGiven
  <2>1. \A p \in Presents : p \notin raced => p \in Presents \ raced
    OBVIOUS
  <2>2. MailRows /\ BagRows
    BY DEF ClaimIInv, MailInv, BagInv
  <2>3. \A p \in Presents : db.bag[p] = 2 /\ p \notin raced =>
           \A i \in Items : given[p][i] >= issued[p]
    BY <2>1, <2>2 DEF BagRows
  <2> QED BY <2>2, <2>3 DEF MailRows, TakenOnlyGiven
<1> QED BY <1>1, <1>2, <1>3 DEF ClaimInv

(* A mail's attachments are handed out once and a present as often as it   *)
(* was dealt, unless two requests overlapped on it or its mark was lost;   *)
(* and neither leaves the tables before it was handed out, unless the      *)
(* present was dealt again before it was marked.  The dial deals at any    *)
(* moment, also between the statements of a batch.                         *)
THEOREM RewardsOnce == Spec => []ClaimInv
<1>1. Init => ClaimIInv
  BY BaseInit, AloneInit, MailInit, BagInit DEF ClaimIInv
<1>2. ClaimIInv /\ [Next]_vars => ClaimIInv'
  BY BaseStep, AloneStep, MailStep, BagStep DEF ClaimIInv
<1> QED BY <1>1, <1>2, ClaimFacts, PTL DEF Spec

-----------------------------------------------------------------------------
(* Mails to everybody *)

(* A mail that was not read when its callback looked is not deleted when   *)
(* it is marked as read.                                                   *)
SysReads ==
  \A c \in InUse :
    LET m == calls[c].req.at
    IN  calls[c].req.op = "detail" /\ m \in SysMails \ raced /\ calls[c].st = "got"
          /\ calls[c].img.mail.state = 0 => db.slave[m].state # 2

SysWrites ==
  \A w \in Pending :
    LET m == calls[w.call].req.at
    IN  w.kind = "readSys" /\ m \notin raced => db.slave[m].state # 2

SysRows == \A m \in SysMails : ~db.slave[m].there => db.slave[m].state = 0

SysInv == SysReads /\ SysWrites /\ SysRows

(* Who writes what the player did with a mail to everybody. *)
LEMMA SlaveMoves ==
  ASSUME BaseInv, SysRows, [Next]_vars, NEW m \in SysMails
  PROVE  /\ ~db'.slave[m].there => db'.slave[m].state = 0
         /\ \/ db'.slave[m].state = db.slave[m].state
            \/ \E w \in batch : /\ ExecWrite(w) /\ w.kind = "readSys"
                                /\ calls[w.call].req.at = m /\ db'.slave[m].state = 1
            \/ db'.slave[m].state = 2 /\ \E w \in batch :
                 /\ ExecWrite(w) /\ w.kind \in {"takenSys", "hideSys"}
                 /\ m \in Targets(calls[w.call].req)
            \/ db'.slave[m].state = 2 /\ \E c \in InUse :
                 DeleteSys(c) /\ calls[c].req.at = m
<1> DEFINE old == db.slave[m]
           new == db'.slave[m]
<1>0. db \in Db /\ db.slave \in [SysMails -> MailRow]
  BY DEF BaseInv, PlainInv, Db
<1>1. ~old.there => old.state = 0
  BY DEF SysRows
<1>2. ASSUME NEW w \in batch, ExecWrite(w)
      PROVE  /\ ~new.there => new.state = 0
             /\ \/ new.state = old.state
                \/ w.kind = "readSys" /\ calls[w.call].req.at = m /\ new.state = 1
                \/ new.state = 2 /\ w.kind \in {"takenSys", "hideSys"}
                   /\ m \in Targets(calls[w.call].req)
  <2> DEFINE at == calls[w.call].req.at
  <2>1. WriteFits(w) /\ w.kind \in Kinds
    BY DEF BaseInv, WritesInv, Pending, WriteFits, Write
  <2>2. db' = Applied(w)
    BY <1>2 DEF ExecWrite
  <2>3. CASE w.kind \notin {"readSys", "newSys", "takenSys", "hideSys"}
    <3>1. new = old
      BY <1>0, <2>1, <2>2, <2>3, AppliedFields
    <3> QED BY <1>1, <3>1
  <2>4. CASE w.kind = "readSys"
    <3>1. at \in SysMails
      BY <2>1, <2>4 DEF WriteFits, PutsFits
    <3> DEFINE row == [there |-> TRUE, state |-> 1,
                       attach |-> IF db.slave[at].there THEN db.slave[at].attach
                                  ELSE calls[w.call].img.mail.attach]
    <3>2. row.there /\ row.state = 1
      OBVIOUS
    <3>3. db' = [db EXCEPT !.slave = [db.slave EXCEPT ![at] = row]]
      BY <2>2, <2>4 DEF Applied
    <3> HIDE DEF row, at
    <3>4. db'.slave = [db.slave EXCEPT ![at] = row]
      BY <1>0, <3>3 DEF Db
    <3>5. (m = at => new = row) /\ (m # at => new = old)
      BY <1>0, <3>4
    <3> QED BY <1>1, <2>4, <3>2, <3>5 DEF at
  <2>5. CASE w.kind = "newSys"
    <3> DEFINE fresh == [there |-> TRUE, state |-> 0, attach |-> AttachOf[m]]
    <3>1. db' = [db EXCEPT !.slave = [x \in SysMails |->
                   IF x \in w.mails /\ ~db.slave[x].there
                   THEN [there |-> TRUE, state |-> 0, attach |-> AttachOf[x]]
                   ELSE db.slave[x]]]
      BY <2>2, <2>5 DEF Applied
    <3>2. new = IF m \in w.mails /\ ~old.there THEN fresh ELSE old
      BY <1>0, <3>1 DEF Db
    <3>3. fresh.there /\ fresh.state = 0
      OBVIOUS
    <3> HIDE DEF fresh, new, old
    <3> QED BY <1>1, <3>2, <3>3
  <2>6. CASE w.kind = "takenSys"
    <3>1. at \in SysMails /\ Targets(calls[w.call].req) = {at}
      BY <2>1, <2>6 DEF WriteFits, PutsFits, Targets
    <3> DEFINE row == [there |-> TRUE, state |-> 2, attach |-> 2]
    <3>2. row.there /\ row.state = 2
      OBVIOUS
    <3>3. db' = [db EXCEPT !.slave = [db.slave EXCEPT ![at] = row]]
      BY <2>2, <2>6 DEF Applied
    <3> HIDE DEF row, at
    <3>4. db'.slave = [db.slave EXCEPT ![at] = row]
      BY <1>0, <3>3 DEF Db
    <3>5. (m = at => new = row) /\ (m # at => new = old)
      BY <1>0, <3>4
    <3> QED BY <1>1, <2>6, <3>1, <3>2, <3>5
  <2>7. CASE w.kind = "hideSys"
    <3>1. m \in Targets(calls[w.call].req)
      BY <2>1, <2>7 DEF WriteFits, PutsFits, Targets
    <3> DEFINE ms == {x \in w.mails : Deletable(db.slave[x])}
    <3>2. db'.slave = SetState(db.slave, ms, 2)
      BY <1>0, <2>2, <2>7 DEF Applied, Db
    <3> HIDE DEF ms
    <3>3. /\ new.there = old.there
          /\ new.state = IF m \in ms /\ old.there THEN 2 ELSE old.state
      BY <1>0, <3>2, SetStateType
    <3> QED BY <1>1, <2>7, <3>1, <3>3
  <2> QED BY <2>1, <2>3, <2>4, <2>5, <2>6, <2>7 DEF Kinds
<1>3. ASSUME NEW c \in InUse, DeleteSys(c)
      PROVE  /\ ~new.there => new.state = 0
             /\ new.state = old.state \/ (new.state = 2 /\ calls[c].req.at = m)
  <2> DEFINE at == calls[c].req.at
  <2>1. db'.slave = db.slave \/ db'.slave = SetState(db.slave, {at}, 2)
    BY <1>0, <1>3, DeleteSysPuts
  <2>2. CASE db'.slave = SetState(db.slave, {at}, 2)
    <3>1. /\ new.there = old.there
          /\ new.state = IF m \in {at} /\ old.there THEN 2 ELSE old.state
      BY <1>0, <2>2, SetStateType
    <3> QED BY <1>1, <3>1
  <2> QED BY <1>1, <2>1, <2>2
<1>4. ASSUME NEW q \in Presents, Issue(q) PROVE new = old
  BY <1>0, <1>4, IssuePuts
<1>5. CASE db' = db
  BY <1>1, <1>5
<1> QED BY <1>1, <1>2, <1>3, <1>4, <1>5, Moves

(* While a request is in flight on a mail to everybody, nothing else       *)
(* deletes it.                                                             *)
LEMMA SlaveKept ==
  ASSUME BaseInv, Alone, SysRows, [Next]_vars, NEW c \in InUse, InFlight(c),
         calls[c].req.op = "detail", calls[c].req.at \in SysMails \ raced,
         db.slave[calls[c].req.at].state # 2
  PROVE  db'.slave[calls[c].req.at].state # 2
<1> DEFINE m == calls[c].req.at
<1>1. m \in SysMails /\ m \in Targets(calls[c].req) /\ m \notin raced
  BY DEF Targets
<1>2. ASSUME NEW w \in batch, w.kind \in {"takenSys", "hideSys"}, m \in Targets(calls[w.call].req)
      PROVE  FALSE
  <2>1. w.call \in InUse /\ calls[w.call].req.op \in {"attach", "deleteAll"}
    BY <1>2 DEF BaseInv, WritesInv, WriteFits, PutsFits, Pending
  <2>2. InFlight(w.call)
    BY DEF InFlight, Pending
  <2> QED BY <1>1, <1>2, <2>1, <2>2, NoOtherCall
<1>3. ASSUME NEW d \in InUse, DeleteSys(d), calls[d].req.at = m PROVE FALSE
  <2>1. calls[d].req.op = "delete" /\ calls[d].st = "got"
    BY <1>3 DEF DeleteSys, Decides
  <2>2. InFlight(d) /\ m \in Targets(calls[d].req)
    BY <1>3, <2>1 DEF InFlight, Targets, BaseInv, CallsInv, CallFits
  <2> QED BY <1>1, <2>1, <2>2, NoOtherCall
<1> QED BY <1>1, <1>2, <1>3, SlaveMoves

LEMMA SysStep ==
  ASSUME BaseInv, Alone, SysInv, [Next]_vars
  PROVE  SysInv'
<1>0. SysReads /\ SysWrites /\ SysRows
  BY DEF SysInv
<1>1. SysRows'
  BY <1>0, SlaveMoves DEF SysRows
<1>2. ASSUME NEW c \in InUse', calls'[c].req.op = "detail", calls'[c].req.at \in SysMails \ raced',
             calls'[c].st = "got", calls'[c].img.mail.state = 0
      PROVE  db'.slave[calls'[c].req.at].state # 2
  <2>1. c \in InUse
    BY <1>2, NewCall DEF BaseInv
  <2> DEFINE r == calls[c].req
             m == r.at
  <2>2. calls'[c].req = r /\ r.op = "detail" /\ m \in SysMails \ raced
    BY <1>2, <2>1, CallMoves, Moves DEF BaseInv
  <2>3. CASE ExecSelect(c)
    <3> DEFINE h == Head(calls[c].todo)
    <3>1. calls'[c].img = ImageOf(r, h) /\ StepFits(r, h) /\ db' = db
      BY <2>1, <2>3, ReadPuts DEF BaseInv, ExecSelect
    <3>2. ImageOf(r, h) = [NoImage EXCEPT !.mail = SysRow(m)]
      BY <2>2, <3>1 DEF StepFits, ImageOf
    <3>3. ImageOf(r, h).mail = SysRow(m)
      BY <3>2 DEF NoImage
    <3>4. SysRow(m).state = 0
      BY <1>2, <3>1, <3>3
    <3> QED BY <1>0, <2>2, <3>1, <3>4 DEF SysRow, SysRows
  <2>4. CASE ~ExecSelect(c)
    <3>1. calls[c].st = "got" /\ calls[c].img.mail.state = 0
      BY <1>2, <2>1, <2>4, CallMoves DEF BaseInv
    <3>2. db.slave[m].state # 2 /\ InFlight(c)
      BY <1>0, <2>1, <2>2, <3>1 DEF SysReads, InFlight, BaseInv, CallsInv, CallFits
    <3> QED BY <1>0, <2>1, <2>2, <3>2, SlaveKept
  <2> QED BY <2>3, <2>4
<1>3. ASSUME NEW w \in Pending', w.kind = "readSys", calls'[w.call].req.at \notin raced'
      PROVE  db'.slave[calls'[w.call].req.at].state # 2
  <2> DEFINE c == w.call
             m == calls[c].req.at
  <2>1. CASE w \in Pending
    <3>1. c \in InUse /\ calls[c].req.op = "detail" /\ m \in SysMails
      BY <1>3, <2>1 DEF BaseInv, WritesInv, WriteFits, PutsFits
    <3>2. calls'[c].req = calls[c].req /\ m \notin raced
      BY <1>3, <3>1, CallMoves, Moves DEF BaseInv
    <3>3. db.slave[m].state # 2 /\ InFlight(c)
      BY <1>0, <1>3, <2>1, <3>2 DEF SysWrites, InFlight
    <3> QED BY <1>0, <3>1, <3>2, <3>3, SlaveKept
  <2>2. ASSUME NEW d \in InUse, Puts(d, w)
        PROVE  db'.slave[calls'[c].req.at].state # 2
    <3>1. c = d /\ calls'[d].req = calls[d].req /\ raced \subseteq raced'
      BY <2>2, PutsType, CallMoves, Moves DEF BaseInv
    <3>2. Detail(d) /\ calls[d].img.mail.state = 0 /\ calls[d].req.at \in SysMails
      BY <1>3, <2>2 DEF Puts, Wr
    <3>3. calls[d].req.op = "detail" /\ calls[d].st = "got" /\ db' = db
      BY <3>2 DEF Detail, Decides
    <3> QED BY <1>0, <1>3, <3>1, <3>2, <3>3 DEF SysReads
  <2> QED BY <2>1, <2>2, WriteMoves DEF BaseInv
<1>4. SysReads'
  BY <1>2 DEF SysReads
<1>5. SysWrites'
  BY <1>3 DEF SysWrites
<1> QED BY <1>1, <1>4, <1>5 DEF SysInv

LEMMA SysInit ==
  ASSUME Init
  PROVE  SysInv
<1>1. InUse = {} /\ Pending = {}
  BY DEF Init, InUse, Pending
<1>2. \A m \in SysMails : db.slave[m].state = 0
  BY DEF Init, NoMail
<1> QED BY <1>1, <1>2 DEF SysInv, SysReads, SysWrites, SysRows

LEMMA DeletedStays ==
  ASSUME BaseInv, SysInv, [Next]_vars, NEW m \in SysMails \ raced, db.slave[m].state = 2
  PROVE  db'.slave[m].state = 2
<1>1. ASSUME NEW w \in batch, w.kind = "readSys", calls[w.call].req.at = m PROVE FALSE
  BY <1>1 DEF SysInv, SysWrites, Pending
<1> QED BY <1>1, SlaveMoves DEF SysInv

(* A mail to everybody that the player deleted, or took, stays deleted,    *)
(* for a callback that marks it as read, and a login that adds the mails   *)
(* he has not got, decide on what their SELECTs saw.                       *)
THEOREM DeletedMails == Spec => StaysDeleted
<1> DEFINE Inv == BaseInv /\ Alone /\ SysInv
           Stays == \A m \in SysMails \ raced :
                      db.slave[m].state = 2 => db'.slave[m].state = 2
<1>1. Init => Inv
  BY BaseInit, AloneInit, SysInit
<1>2. Inv /\ [Next]_vars => Inv'
  BY BaseStep, AloneStep, SysStep
<1>3. Inv /\ [Next]_vars => Stays
  BY DeletedStays
<1>4. [][Stays]_vars <=> StaysDeleted
  BY DEF StaysDeleted
<1> HIDE DEF Inv, Stays
<1>5. Inv /\ [Next]_vars => [Stays]_vars
  BY <1>3
<1> QED BY <1>1, <1>2, <1>4, <1>5, PTL DEF Spec

-----------------------------------------------------------------------------
(* VIP mails *)

VipReads ==
  \A c \in InUse :
    calls[c].req.op = "vip" /\ VipKey \notin raced /\ calls[c].st = "got" /\ calls[c].img.n = 0
      => db.vipDay # day

VipMarked == \E w \in Pending : w.kind = "vip"

VipGiven ==
  Settled(VipKey) => /\ vips <= 1
                     /\ vips > 0 => db.vipDay = day \/ VipMarked

VipRows == db.vipDay <= day

VipInv == VipReads /\ VipGiven /\ VipRows

LEMMA VipMoves ==
  ASSUME BaseInv, [Next]_vars
  PROVE  /\ \/ db'.vipDay = db.vipDay
            \/ \E w \in batch : /\ ExecWrite(w) /\ w.kind = "vip" /\ db'.vipDay = day
                                /\ VipKey \in Targets(calls[w.call].req) /\ day' = day
         /\ day \in Nat /\ db.vipDay \in Nat /\ day' \in {day, day + 1}
<1>0. db \in Db /\ day \in Nat /\ db.vipDay \in Nat
  BY DEF BaseInv, PlainInv, Db
<1>1. ASSUME NEW w \in batch, ExecWrite(w)
      PROVE  \/ db'.vipDay = db.vipDay
             \/ w.kind = "vip" /\ db'.vipDay = day /\ VipKey \in Targets(calls[w.call].req)
                /\ day' = day
  <2>1. WriteFits(w)
    BY DEF BaseInv, WritesInv, Pending
  <2>2. db' = Applied(w) /\ w.kind \in Kinds /\ day' = day
    BY <1>1, <2>1 DEF ExecWrite, WriteFits, Write
  <2>3. db'.vipDay = IF w.kind = "vip" THEN day ELSE db.vipDay
    BY <1>0, <2>2, AppliedFields
  <2>4. w.kind = "vip" => VipKey \in Targets(calls[w.call].req)
    BY <2>1 DEF WriteFits, PutsFits, Targets
  <2> QED BY <2>2, <2>3, <2>4
<1>2. ASSUME NEW c \in InUse, DeleteSys(c) PROVE db'.vipDay = db.vipDay
  BY <1>0, <1>2, DeleteSysPuts
<1>3. ASSUME NEW q \in Presents, Issue(q) PROVE db'.vipDay = db.vipDay
  BY <1>0, <1>3, IssuePuts
<1>4. NextDay => day' = day + 1
  BY DEF NextDay
<1> QED BY <1>0, <1>1, <1>2, <1>3, <1>4, Moves

LEMMA VipStep ==
  ASSUME BaseInv, Alone, VipInv, [Next]_vars
  PROVE  VipInv'
<1>0. /\ db.vipDay <= day /\ day \in Nat /\ db.vipDay \in Nat /\ day' \in {day, day + 1}
      /\ VipReads /\ VipGiven
  BY VipMoves DEF VipInv, VipRows
<1>1. VipRows'
  BY <1>0, VipMoves DEF VipRows
<1>2. ASSUME NEW c \in InUse', calls'[c].req.op = "vip", VipKey \notin raced',
             calls'[c].st = "got", calls'[c].img.n = 0
      PROVE  db'.vipDay # day'
  <2>1. c \in InUse
    BY <1>2, NewCall DEF BaseInv
  <2> DEFINE r == calls[c].req
  <2>2. calls'[c].req = r /\ r.op = "vip" /\ VipKey \notin raced /\ Targets(r) = {VipKey}
    BY <1>2, <2>1, CallMoves, Moves DEF BaseInv, Targets
  <2>3. CASE ExecSelect(c)
    <3> DEFINE h == Head(calls[c].todo)
    <3>1. calls'[c].img = ImageOf(r, h) /\ StepFits(r, h) /\ db' = db /\ day' = day
      BY <2>1, <2>3, ReadPuts DEF BaseInv, ExecSelect
    <3>2. ImageOf(r, h).n = IF db.vipDay = day THEN 1 ELSE 0
      BY <2>2, <3>1 DEF StepFits, ImageOf, NoImage
    <3> QED BY <1>2, <3>1, <3>2
  <2>4. CASE ~ExecSelect(c)
    <3>1. calls[c].st = "got" /\ calls[c].img.n = 0 /\ calls[c].seen
      BY <1>2, <2>1, <2>4, CallMoves DEF BaseInv, CallsInv, CallFits
    <3>2. db.vipDay # day
      BY <1>0, <2>1, <2>2, <3>1 DEF VipReads
    <3>3. ~(\E w \in batch : VipKey \in Targets(calls[w.call].req))
      BY <2>1, <2>2, <3>1, NoOtherWrite DEF Pending
    <3> QED BY <1>0, <3>2, <3>3, VipMoves
  <2> QED BY <2>3, <2>4
<1>3. VipReads'
  BY <1>2 DEF VipReads
<1>4. ASSUME Settled(VipKey)'
      PROVE  /\ vips' <= 1
             /\ vips' > 0 => db'.vipDay = day' \/ VipMarked'
  <2>1. Settled(VipKey) /\ VipKey \notin raced /\ VipKey \notin open'
    BY <1>4, Moves DEF Settled
  <2>2. vips \in Nat /\ vips <= 1 /\ (vips > 0 => db.vipDay = day \/ VipMarked)
    BY <1>0, <2>1 DEF VipGiven, BaseInv, PlainInv, LedgerType
  <2>3. \A w \in Pending : w.kind = "vip" => VipKey \in Targets(calls[w.call].req)
    BY DEF BaseInv, WritesInv, WriteFits, PutsFits, Targets
  <2>4. CASE NextDay
    BY <2>4 DEF NextDay
  <2>5. ASSUME NEW c \in InUse, Vip(c), vips' # vips
        PROVE  vips' = 1 /\ VipMarked'
    <3>1. vips' = vips + IF calls[c].img.n = 0 THEN 1 ELSE 0
      BY <2>5 DEF Vip
    <3>2. calls[c].img.n = 0 /\ vips' = vips + 1
      BY <2>2, <2>5, <3>1
    <3>3. calls[c].req.op = "vip" /\ calls[c].st = "got" /\ Wr(c, "vip", {}, NoSign) \in queue'
      BY <2>5, <3>2 DEF Vip, Decides, Done
    <3>4. Targets(calls[c].req) = {VipKey} /\ calls[c].seen
      BY <3>3 DEF Targets, BaseInv, CallsInv, CallFits
    <3>5. db.vipDay # day
      BY <1>0, <2>1, <3>2, <3>3 DEF VipReads
    <3>6. ~VipMarked
      BY <2>1, <2>3, <3>3, <3>4, NoOtherWrite DEF VipMarked
    <3>7. VipMarked'
      BY <3>3, WrFields DEF VipMarked, Pending
    <3> QED BY <2>2, <3>2, <3>5, <3>6, <3>7
  <2>6. ASSUME vips' = vips, day' = day, vips > 0
        PROVE  db'.vipDay = day' \/ VipMarked'
    <3>1. CASE db.vipDay = day
      BY <2>6, <3>1, VipMoves
    <3>2. ASSUME NEW w \in Pending, w.kind = "vip" PROVE db'.vipDay = day' \/ VipMarked'
      <4>1. ASSUME ExecWrite(w) PROVE db'.vipDay = day'
        <5>1. db' = Applied(w) /\ w.kind \in Kinds /\ db \in Db
          BY <3>2, <4>1 DEF ExecWrite, Kinds, BaseInv, PlainInv
        <5> QED BY <2>6, <3>2, <5>1, AppliedFields
      <4>2. w \in Pending' \/ ExecWrite(w)
        BY <2>1, <2>3, <3>2, WriteGoes
      <4> QED BY <3>2, <4>1, <4>2 DEF VipMarked
    <3> QED BY <2>2, <2>6, <3>1, <3>2 DEF VipMarked
  <2>7. NextDay \/ day' = day
    BY Moves
  <2>8. vips' = vips \/ NextDay \/ \E c \in InUse : Vip(c)
    BY Moves
  <2> QED BY <2>2, <2>4, <2>5, <2>6, <2>7, <2>8
<1>5. VipGiven'
  BY <1>4 DEF VipGiven
<1> QED BY <1>1, <1>3, <1>5 DEF VipInv

LEMMA VipInit ==
  ASSUME Init
  PROVE  VipInv
<1>1. InUse = {}
  BY DEF Init, InUse
<1>2. db.vipDay = 0 /\ vips = 0 /\ day \in Nat
  BY RewardsAssumption DEF Init
<1> QED BY <1>1, <1>2 DEF VipInv, VipReads, VipGiven, VipRows

-----------------------------------------------------------------------------
(* Login prizes *)

(* sign_days counts the days of one week. *)
DaysOk(row) == row.days <= (row.last % WeekLen) + 1

SignRows ==
  /\ day > 0 /\ db.sign.last <= day
  /\ ~db.sign.there => db.sign = NoSign
  /\ ~late => DaysOk(db.sign)

(* What a callback read is what the row says, unless midnight or another   *)
(* request came between.                                                   *)
SignCalls ==
  \A c \in InUse :
    LET img == calls[c].img
    IN  /\ calls[c].req.op \in {"sign", "signList"} /\ img.sign.there => db.sign.there
        /\ calls[c].req.op = "sign" =>
             /\ img.sign.last <= img.n /\ img.n <= day
             /\ ~late => DaysOk(img.sign)
             /\ calls[c].st = "ready" => img.sign.there /\ calls[c].seen
             /\ calls[c].seen /\ calls[c].st \in {"got", "ready"} =>
                  /\ ~late => img.n = day
                  /\ SignKey \notin raced => img.sign = db.sign

(* A statement keeps the serial prizes of the row, or ends the cycle. *)
SignWrites ==
  \A w \in Pending :
    /\ w.kind \in {"sign", "serial", "reset"} => db.sign.there
    /\ w.kind = "serial" /\ SignKey \notin raced => db.sign.taken \subseteq w.sign.taken
    /\ w.kind = "sign" =>
         /\ w.sign.there
         /\ SignKey \notin raced => w.sign.taken \in {{}, db.sign.taken}
         /\ ~late => w.sign.days <= (day % WeekLen) + 1

(* A login prize puts one statement. *)
SignOnce ==
  \A v, w \in Pending :
    v.call = w.call /\ calls[w.call].req.op = "sign" => v = w

SerialMarked(t) == \E w \in Pending : w.kind = "serial" /\ t \in w.sign.taken
SignMarked == \E w \in Pending : w.kind = "sign"

SignGiven ==
  Settled(SignKey) =>
    /\ signed <= 1
    /\ signed > 0 => db.sign.last = day \/ SignMarked
    /\ \A t \in 1 .. 3 : /\ serials[t] <= 1
                         /\ serials[t] > 0 => t \in db.sign.taken \/ SerialMarked(t)

SignInv == SignRows /\ SignCalls /\ SignWrites /\ SignOnce /\ SignGiven

(* Days of a week: the later one has the greater number in it. *)
LEMMA WeekDays ==
  ASSUME NEW a \in Nat, NEW w \in Nat \ {0}
  PROVE  a % w \in Nat /\ a % w <= w - 1
OBVIOUS

LEMMA SameWeek ==
  ASSUME NEW a \in Nat, NEW b \in Nat, NEW w \in Nat \ {0}, a < b, a \div w = b \div w
  PROVE  a % w < b % w
BY Z3

(* The row of today's prize is one that the week allows. *)
LEMMA SignedDays ==
  ASSUME NEW img \in Image, DaysOk(img.sign), img.sign.last <= img.n, ~IsToday(img)
  PROVE  SignedRow(img).days <= (img.n % WeekLen) + 1
<1> DEFINE row == img.sign
           a == row.last
           n == img.n
           this == IsThisWeek(img)
           full == IsSerial(img) /\ row.serial + 1 >= 9 /\ row.taken = 1 .. 3
<1>1. SignedRow(img).days = (IF this THEN row.days ELSE 0) + 1
  BY DEF SignedRow
<1>2. a \in Nat /\ n \in Nat /\ row.days \in Nat /\ WeekLen \in Nat \ {0}
  BY RewardsAssumption DEF Image, SignRow
<1>3. a # n /\ a <= n /\ row.days <= (a % WeekLen) + 1
  BY DEF IsToday, DaysOk
<1>4. this => a \div WeekLen = n \div WeekLen
  BY DEF IsThisWeek, Week
<1> HIDE DEF row, a, n, this
<1>5. a < n
  BY <1>2, <1>3
<1>6. a % WeekLen \in Nat /\ n % WeekLen \in Nat
  BY <1>2, WeekDays
<1>7. CASE this
  <2>1. a % WeekLen < n % WeekLen
    BY <1>2, <1>4, <1>5, <1>7, SameWeek
  <2>2. row.days + 1 <= (n % WeekLen) + 1
    BY <1>2, <1>3, <1>6, <2>1
  <2> QED BY <1>1, <1>7, <2>2 DEF n, row
<1>8. CASE ~this
  BY <1>1, <1>6, <1>8 DEF n, row
<1> QED BY <1>7, <1>8

(* Who writes the row of the login prizes. *)
LEMMA SignMoves ==
  ASSUME BaseInv, SignRows, SignWrites, [Next]_vars
  PROVE  \/ db'.sign = db.sign
         \/ \E w \in batch :
              /\ ExecWrite(w) /\ SignKey \in Targets(calls[w.call].req)
              /\ \/ w.kind = "sign" /\ db'.sign = [w.sign EXCEPT !.last = day]
                 \/ w.kind = "serial" /\ db'.sign = [db.sign EXCEPT !.taken = w.sign.taken]
                 \/ w.kind = "reset"
                    /\ db'.sign = [db.sign EXCEPT !.serial = 0, !.taken = {}]
                 \/ w.kind = "newSign" /\ db.sign = NoSign
                    /\ db'.sign = [NoSign EXCEPT !.there = TRUE]
<1>0. db \in Db
  BY DEF BaseInv, PlainInv
<1>1. ASSUME NEW w \in batch, ExecWrite(w), db'.sign # db.sign
      PROVE  /\ SignKey \in Targets(calls[w.call].req)
             /\ \/ w.kind = "sign" /\ db'.sign = [w.sign EXCEPT !.last = day]
                \/ w.kind = "serial" /\ db'.sign = [db.sign EXCEPT !.taken = w.sign.taken]
                \/ w.kind = "reset"
                   /\ db'.sign = [db.sign EXCEPT !.serial = 0, !.taken = {}]
                \/ w.kind = "newSign" /\ db.sign = NoSign
                   /\ db'.sign = [NoSign EXCEPT !.there = TRUE]
  <2>1. WriteFits(w)
    BY DEF BaseInv, WritesInv, Pending
  <2>2. db' = Applied(w) /\ w.kind \in Kinds
    BY <1>1, <2>1 DEF ExecWrite, WriteFits, Write
  <2>3. w.kind \in {"sign", "serial", "reset", "newSign"}
    BY <1>0, <1>1, <2>2, AppliedFields
  <2>4. SignKey \in Targets(calls[w.call].req)
    BY <2>1, <2>3 DEF WriteFits, PutsFits, Targets
  <2>5. w.kind = "sign" => db'.sign = [w.sign EXCEPT !.last = day]
    BY <1>0, <2>2 DEF Applied, Db
  <2>6. w.kind = "serial" => db'.sign = [db.sign EXCEPT !.taken = w.sign.taken]
    BY <1>0, <2>2 DEF Applied, Db
  <2>7. w.kind = "reset" => db'.sign = [db.sign EXCEPT !.serial = 0, !.taken = {}]
    BY <1>0, <2>2 DEF Applied, Db
  <2>8. ASSUME w.kind = "newSign"
        PROVE  db.sign = NoSign /\ db'.sign = [NoSign EXCEPT !.there = TRUE]
    <3>1. db' = IF db.sign.there THEN db ELSE [db EXCEPT !.sign = [NoSign EXCEPT !.there = TRUE]]
      BY <2>2, <2>8 DEF Applied
    <3>2. ~db.sign.there
      BY <1>1, <3>1
    <3> QED BY <1>0, <3>1, <3>2 DEF SignRows, Db
  <2> QED BY <2>3, <2>4, <2>5, <2>6, <2>7, <2>8
<1>2. ASSUME NEW c \in InUse, DeleteSys(c) PROVE db'.sign = db.sign
  BY <1>0, <1>2, DeleteSysPuts
<1>3. ASSUME NEW q \in Presents, Issue(q) PROVE db'.sign = db.sign
  BY <1>0, <1>3, IssuePuts
<1> QED BY <1>1, <1>2, <1>3, Moves

(* ... field by field. *)
LEMMA SignFields ==
  ASSUME BaseInv, SignRows, SignWrites, [Next]_vars
  PROVE  LET old == db.sign
             new == db'.sign
         IN  /\ old.there => new.there
             /\ new.there \/ new = old
             /\ new = old \/ \E w \in batch :
                  /\ ExecWrite(w) /\ SignKey \in Targets(calls[w.call].req)
                  /\ \/ w.kind = "sign" /\ new.last = day /\ new.days = w.sign.days
                        /\ new.taken = w.sign.taken
                     \/ w.kind = "serial" /\ new.last = old.last /\ new.days = old.days
                        /\ new.taken = w.sign.taken
                     \/ w.kind = "reset" /\ new.last = old.last /\ new.days = old.days
                        /\ new.taken = {}
                     \/ w.kind = "newSign" /\ new.last = 0 /\ old.last = 0 /\ new.days = 0
                        /\ old.taken = {} /\ new.taken = {}
<1>0. db.sign \in SignRow /\ NoSign \in SignRow
  BY DEF BaseInv, PlainInv, Db, NoSign, SignRow
<1>1. CASE db'.sign = db.sign
  BY <1>1
<1>2. ASSUME NEW w \in batch, ExecWrite(w), SignKey \in Targets(calls[w.call].req),
             w.kind = "sign", db'.sign = [w.sign EXCEPT !.last = day]
      PROVE  /\ db'.sign.there /\ db'.sign.last = day /\ db'.sign.days = w.sign.days
             /\ db'.sign.taken = w.sign.taken
  <2>1. w.sign \in SignRow /\ w.sign.there
    BY <1>2 DEF BaseInv, WritesInv, WriteFits, Write, SignWrites, Pending
  <2> QED BY <1>2, <2>1 DEF SignRow
<1>3. ASSUME NEW w \in batch, ExecWrite(w), SignKey \in Targets(calls[w.call].req),
             w.kind = "serial", db'.sign = [db.sign EXCEPT !.taken = w.sign.taken]
      PROVE  /\ db'.sign.there /\ db'.sign.last = db.sign.last
             /\ db'.sign.days = db.sign.days /\ db'.sign.taken = w.sign.taken
  <2>1. db.sign.there
    BY <1>3 DEF SignWrites, Pending
  <2> QED BY <1>0, <1>3, <2>1 DEF SignRow
<1>4. ASSUME NEW w \in batch, ExecWrite(w), SignKey \in Targets(calls[w.call].req),
             w.kind = "reset", db'.sign = [db.sign EXCEPT !.serial = 0, !.taken = {}]
      PROVE  /\ db'.sign.there /\ db'.sign.last = db.sign.last
             /\ db'.sign.days = db.sign.days /\ db'.sign.taken = {}
  <2>1. db.sign.there
    BY <1>4 DEF SignWrites, Pending
  <2> QED BY <1>0, <1>4, <2>1 DEF SignRow
<1>5. ASSUME NEW w \in batch, ExecWrite(w), SignKey \in Targets(calls[w.call].req),
             w.kind = "newSign", db.sign = NoSign, db'.sign = [NoSign EXCEPT !.there = TRUE]
      PROVE  /\ db'.sign.there /\ db'.sign.last = 0 /\ db.sign.last = 0 /\ db'.sign.days = 0
             /\ db'.sign.taken = {} /\ db.sign.taken = {}
  BY <1>5 DEF NoSign
<1> QED BY <1>1, <1>2, <1>3, <1>4, <1>5, SignMoves

(* Midnight during a login prize is remembered. *)
LEMMA DayMoves ==
  ASSUME BaseInv, [Next]_vars, NEW c \in InUse, InFlight(c), Targets(calls[c].req) = {SignKey}
  PROVE  day' = day \/ late'
<1>1. SignKey \in Busy
  BY DEF Busy
<1> QED BY <1>1, Moves DEF NextDay

LEMMA SignRowsStep ==
  ASSUME BaseInv, SignRows, SignWrites, [Next]_vars
  PROVE  SignRows'
<1>0. /\ day \in Nat /\ db.sign \in SignRow /\ day > 0 /\ db.sign.last <= day
      /\ day' \in {day, day + 1} /\ (late => late')
  <2>1. NextDay => day' = day + 1
    BY DEF NextDay
  <2> QED BY <2>1, Moves DEF BaseInv, PlainInv, Db, SignRows
<1>1. db.sign.last \in Nat /\ db.sign.days \in Nat /\ WeekLen \in Nat \ {0}
  BY <1>0, RewardsAssumption DEF SignRow
<1>2. day' > 0
  BY <1>0
<1>3. db'.sign.last \in {db.sign.last, day}
  BY SignFields
<1>4. db'.sign.last <= day'
  BY <1>0, <1>1, <1>3
<1>5. ~db'.sign.there => db'.sign = NoSign
  BY SignFields DEF SignRows
<1>6. ASSUME ~late' PROVE DaysOk(db'.sign)
  <2>1. ~late /\ db.sign.days <= (db.sign.last % WeekLen) + 1
    BY <1>0, <1>6 DEF SignRows, DaysOk
  <2>2. CASE db'.sign.days = db.sign.days /\ db'.sign.last = db.sign.last
    BY <2>1, <2>2 DEF DaysOk
  <2>3. ASSUME NEW w \in batch, w.kind = "sign", db'.sign.last = day, db'.sign.days = w.sign.days
        PROVE  DaysOk(db'.sign)
    BY <2>1, <2>3 DEF SignWrites, Pending, DaysOk
  <2>4. CASE db'.sign.last = 0 /\ db'.sign.days = 0
    <3>1. 0 % WeekLen \in Nat
      BY <1>1, WeekDays
    <3> QED BY <2>4, <3>1 DEF DaysOk
  <2>5. \/ db'.sign.days = db.sign.days /\ db'.sign.last = db.sign.last
        \/ \E w \in batch : w.kind = "sign" /\ db'.sign.last = day /\ db'.sign.days = w.sign.days
        \/ db'.sign.last = 0 /\ db'.sign.days = 0
    BY SignFields
  <2> QED BY <2>2, <2>3, <2>4, <2>5
<1> QED BY <1>2, <1>4, <1>5, <1>6 DEF SignRows

LEMMA SignedFields ==
  ASSUME NEW img
  PROVE  SignedRow(img).there /\ SignedRow(img).taken \in {{}, img.sign.taken}
BY DEF SignedRow

(* What a login prize puts on the queue. *)
LEMMA SignPuts ==
  ASSUME NEW c, NEW w, Puts(c, w)
  PROVE  /\ calls[c].req.op = "sign" \/ w.kind \in {"sign", "serial"} =>
              \/ Sign(c) /\ w = Wr(c, "sign", {}, SignedRow(calls[c].img))
              \/ Serial(c) /\ w = Wr(c, "serial", {}, TakenWith(c))
         /\ w.kind = "reset" => SignList(c) /\ calls[c].img.sign.there
<1>1. ASSUME Detail(c) \/ DeleteOwn(c) \/ AttachOwn(c) \/ AttachSys(c) \/ Arrive(c)
      PROVE  calls[c].req.op # "sign"
  BY <1>1 DEF Detail, DeleteOwn, AttachOwn, AttachSys, Arrive, Decides
<1>2. ASSUME DeleteAll(c) \/ Present(c) \/ Vip(c) \/ SignList(c) PROVE calls[c].req.op # "sign"
  BY <1>2 DEF DeleteAll, Present, Vip, SignList, Decides
<1>3. ASSUME Buy(c) \/ BuyByActivity(c) PROVE calls[c].req.op # "sign"
  BY <1>3 DEF Buy, BuyByActivity, Runs
<1> QED BY <1>1, <1>2, <1>3 DEF Puts, Wr

LEMMA SignCallsStep ==
  ASSUME BaseInv, Alone, SignInv, [Next]_vars
  PROVE  SignCalls'
<1>0. /\ SignRows /\ SignCalls /\ SignWrites
      /\ day \in Nat /\ day' \in {day, day + 1} /\ (late => late') /\ raced \subseteq raced'
      /\ db.sign.there => db'.sign.there
  <2>1. NextDay => day' = day + 1
    BY DEF NextDay
  <2>2. SignRows /\ SignCalls /\ SignWrites
    BY DEF SignInv
  <2>3. db.sign.there => db'.sign.there
    BY <2>2, SignFields
  <2> QED BY <2>1, <2>2, <2>3, Moves DEF BaseInv, PlainInv
<1> SUFFICES ASSUME NEW c \in InUse'
             PROVE  LET img == calls'[c].img
                    IN  /\ calls'[c].req.op \in {"sign", "signList"} /\ img.sign.there
                             => db'.sign.there
                        /\ calls'[c].req.op = "sign" =>
                             /\ img.sign.last <= img.n /\ img.n <= day'
                             /\ ~late' => DaysOk(img.sign)
                             /\ calls'[c].st = "ready" => img.sign.there /\ calls'[c].seen
                             /\ calls'[c].seen /\ calls'[c].st \in {"got", "ready"} =>
                                  /\ ~late' => img.n = day'
                                  /\ SignKey \notin raced' => img.sign = db'.sign
  BY DEF SignCalls, DaysOk
<1>1. CASE c \notin InUse
  <2>1. PICK r \in Requests :
          /\ calls'[c].req = r /\ calls'[c].img = NoImage /\ ~calls'[c].seen
          /\ calls'[c].st = IF Steps(r) = <<>> THEN "ready" ELSE "queue"
    BY <1>1, NewCall DEF BaseInv
  <2>2. r.op = "sign" => Steps(r) # <<>>
    <3>1. r.op = "sign" => Len(Steps(r)) = 1
      BY OtherSteps
    <3>2. Len(<<>>) = 0
      OBVIOUS
    <3> QED BY <3>1, <3>2
  <2>3. 0 % WeekLen \in Nat
    BY WeekDays, RewardsAssumption
  <2>4. ~NoImage.sign.there /\ NoImage.sign.last = 0 /\ NoImage.n = 0 /\ DaysOk(NoImage.sign)
    BY <2>3 DEF NoImage, NoSign, DaysOk
  <2> QED BY <1>0, <2>1, <2>2, <2>4
<1>2. CASE c \in InUse /\ ExecSelect(c)
  <2> DEFINE r == calls[c].req
             h == Head(calls[c].todo)
  <2>1. /\ calls'[c].req = r /\ calls'[c].img = ImageOf(r, h) /\ StepFits(r, h)
        /\ calls'[c].st = "got"
        /\ db' = db /\ day' = day /\ late' = late
    BY <1>2, ReadPuts DEF BaseInv, ExecSelect
  <2>2. ASSUME r.op \in {"sign", "signList"}
        PROVE  ImageOf(r, h).sign = db.sign /\ ImageOf(r, h).n = day
    <3>1. ImageOf(r, h) = [NoImage EXCEPT !.sign = db.sign, !.n = day]
      BY <2>1, <2>2 DEF StepFits, ImageOf
    <3> QED BY <3>1 DEF NoImage
  <2>3. db.sign.last <= day /\ (~late => DaysOk(db.sign))
    BY <1>0 DEF SignRows
  <2> DEFINE img == ImageOf(r, h)
  <2> HIDE DEF img, r
  <2> QED BY <1>0, <2>1, <2>2, <2>3 DEF img
<1>3. CASE c \in InUse /\ ~ExecSelect(c)
  <2> DEFINE r == calls[c].req
             img == calls[c].img
  <2>1. /\ calls'[c].req = r /\ calls'[c].img = img /\ calls'[c].seen = calls[c].seen
        /\ calls'[c].st = "got" => calls[c].st = "got"
        /\ calls'[c].st = "ready" => \/ calls[c].st = "ready" \/ TransRead(c)
                                     \/ DeleteAll(c)
    BY <1>3, CallMoves DEF BaseInv
  <2>2. r.op \in {"sign", "signList"} /\ img.sign.there => db.sign.there
    BY <1>0, <1>3 DEF SignCalls
  <2>3. ASSUME r.op = "sign"
        PROVE  /\ img.sign.last <= img.n /\ img.n <= day'
               /\ ~late' => DaysOk(img.sign)
    <3>1. img.n <= day /\ img.n \in Nat /\ img.sign.last <= img.n /\ (~late => DaysOk(img.sign))
      <4>1. calls[c] \in Call
        BY <1>3 DEF BaseInv, CallsInv, InUse
      <4> QED BY <1>0, <1>3, <2>3, <4>1 DEF SignCalls, Call, Image
    <3> QED BY <1>0, <3>1
  <2>4. ASSUME r.op = "sign", calls'[c].st = "ready"
        PROVE  img.sign.there /\ calls[c].seen
    <3>1. ~DeleteAll(c)
      BY <2>4 DEF DeleteAll
    <3>2. ASSUME TransRead(c) PROVE img.sign.there /\ calls[c].seen
      <4>1. PICK refused \in BOOLEAN :
              MayRefuse(c, refused) /\ calls' = [calls EXCEPT ![c].st = IF refused THEN "done" ELSE "ready"]
        BY <3>2 DEF TransRead
      <4>2. refused = ~img.sign.there
        BY <2>4, <4>1 DEF MayRefuse
      <4>3. ~refused
        <5>1. refused => Sets(c, "done")
          BY <4>1 DEF Sets
        <5>2. Sets(c, "done") => calls'[c].st = "done"
          BY <1>3, SetsPuts DEF BaseInv, CallsInv, Stages
        <5> QED BY <2>4, <5>1, <5>2
      <4>4. calls[c].seen
        BY <1>3, <3>2 DEF TransRead, BaseInv, CallsInv, CallFits
      <4> QED BY <4>2, <4>3, <4>4
    <3> QED BY <1>0, <1>3, <2>1, <2>4, <3>1, <3>2 DEF SignCalls
  <2>5. ASSUME r.op = "sign", calls[c].seen, calls'[c].st \in {"got", "ready"}
        PROVE  /\ ~late' => img.n = day'
               /\ SignKey \notin raced' => img.sign = db'.sign
    <3>1. calls[c].st \in {"got", "ready"}
      <4>1. ~DeleteAll(c)
        BY <2>5 DEF DeleteAll
      <4>2. TransRead(c) => calls[c].st = "got"
        BY DEF TransRead
      <4> QED BY <2>1, <2>5, <4>1, <4>2
    <3>2. /\ ~late => img.n = day
          /\ SignKey \notin raced => img.sign = db.sign
      BY <1>0, <1>3, <2>5, <3>1 DEF SignCalls
    <3>3. InFlight(c) /\ Targets(r) = {SignKey}
      BY <2>5, <3>1 DEF InFlight, Targets
    <3>4. day' = day \/ late'
      BY <1>3, <3>3, DayMoves
    <3>5. ASSUME SignKey \notin raced PROVE db'.sign = db.sign
      <4>1. ~(\E w \in batch : SignKey \in Targets(calls[w.call].req))
        BY <1>3, <2>5, <3>1, <3>3, <3>5, NoOtherWrite DEF Pending
      <4> QED BY <1>0, <4>1, SignMoves
    <3> QED BY <1>0, <3>2, <3>4, <3>5
  <2> QED BY <1>0, <2>1, <2>2, <2>3, <2>4, <2>5
<1> QED BY <1>1, <1>2, <1>3

(* Another statement about the row is not on its way with this one. *)
LEMMA SignAlone ==
  ASSUME BaseInv, Alone, SignOnce, SignKey \notin raced,
         NEW v \in Pending, NEW w \in Pending, w.kind \in {"sign", "serial"},
         SignKey \in Targets(calls[v.call].req)
  PROVE  v = w
<1>1. /\ v.call \in InUse /\ w.call \in InUse /\ InFlight(v.call) /\ InFlight(w.call)
      /\ calls[w.call].req.op = "sign" /\ SignKey \in Targets(calls[w.call].req)
  BY DEF BaseInv, WritesInv, WriteFits, PutsFits, Targets, InFlight
<1>2. v.call = w.call
  BY <1>1, NoOtherCall
<1> QED BY <1>1, <1>2 DEF SignOnce

LEMMA SignWritesStep ==
  ASSUME BaseInv, Alone, SignInv, [Next]_vars
  PROVE  SignWrites'
<1>0. /\ SignRows /\ SignCalls /\ SignWrites /\ SignOnce
      /\ (late => late') /\ raced \subseteq raced'
      /\ db.sign.there => db'.sign.there
  <2>1. SignRows /\ SignCalls /\ SignWrites /\ SignOnce
    BY DEF SignInv
  <2>2. db.sign.there => db'.sign.there
    BY <2>1, SignFields
  <2> QED BY <2>1, <2>2, Moves
<1> SUFFICES ASSUME NEW w \in Pending'
             PROVE  /\ w.kind \in {"sign", "serial", "reset"} => db'.sign.there
                    /\ w.kind = "serial" /\ SignKey \notin raced' => db'.sign.taken \subseteq w.sign.taken
                    /\ w.kind = "sign" =>
                         /\ w.sign.there
                         /\ SignKey \notin raced' => w.sign.taken \in {{}, db'.sign.taken}
                         /\ ~late' => w.sign.days <= (day' % WeekLen) + 1
  BY DEF SignWrites
<1>1. CASE w \in Pending
  <2>1. /\ w.kind \in {"sign", "serial", "reset"} => db.sign.there
        /\ w.kind = "serial" /\ SignKey \notin raced => db.sign.taken \subseteq w.sign.taken
        /\ w.kind = "sign" =>
             /\ w.sign.there
             /\ SignKey \notin raced => w.sign.taken \in {{}, db.sign.taken}
             /\ ~late => w.sign.days <= (day % WeekLen) + 1
    BY <1>0, <1>1 DEF SignWrites
  <2>2. ASSUME w.kind \in {"sign", "serial"}, SignKey \notin raced
        PROVE  db'.sign.taken \in {db.sign.taken, w.sign.taken}
    <3>1. ASSUME NEW v \in batch, SignKey \in Targets(calls[v.call].req) PROVE v = w
      BY <1>0, <1>1, <2>2, <3>1, SignAlone DEF Pending
    <3> QED BY <1>0, <2>2, <3>1, SignFields
  <2>3. w.kind = "sign" => day' = day \/ late'
    <3>1. ASSUME w.kind = "sign"
          PROVE  w.call \in InUse /\ InFlight(w.call) /\ Targets(calls[w.call].req) = {SignKey}
      BY <1>1, <3>1 DEF BaseInv, WritesInv, WriteFits, PutsFits, Targets, InFlight
    <3> QED BY <3>1, DayMoves
  <2> QED BY <1>0, <2>1, <2>2, <2>3
<1>2. ASSUME NEW c \in InUse, Puts(c, w)
      PROVE  /\ w.kind \in {"sign", "serial", "reset"} => db'.sign.there
             /\ w.kind = "serial" /\ SignKey \notin raced' => db'.sign.taken \subseteq w.sign.taken
             /\ w.kind = "sign" =>
                  /\ w.sign.there
                  /\ SignKey \notin raced' => w.sign.taken \in {{}, db'.sign.taken}
                  /\ ~late' => w.sign.days <= (day' % WeekLen) + 1
  <2> DEFINE img == calls[c].img
  <2>0. calls[c].seen /\ calls[c] \in Call /\ img \in Image
    BY <1>2, PutsSeen DEF BaseInv, Call
  <2>1. ASSUME Sign(c), w = Wr(c, "sign", {}, SignedRow(img))
        PROVE  /\ w.sign.there /\ db'.sign.there
               /\ SignKey \notin raced' => w.sign.taken \in {{}, db'.sign.taken}
               /\ ~late' => w.sign.days <= (day' % WeekLen) + 1
    <3>1. calls[c].req.op = "sign" /\ calls[c].st = "ready" /\ db' = db /\ day' = day
          /\ ~IsToday(img) /\ w.sign = SignedRow(img)
      BY <2>1 DEF Sign, Runs, SignRefused, Wr
    <3>2. /\ img.sign.last <= img.n /\ img.sign.there
          /\ ~late => DaysOk(img.sign) /\ img.n = day
          /\ SignKey \notin raced => img.sign = db.sign
      BY <1>0, <2>0, <3>1 DEF SignCalls
    <3>3. db.sign.there
      BY <1>0, <3>1, <3>2 DEF SignCalls
    <3>4. ~late => w.sign.days <= (day % WeekLen) + 1
      BY <2>0, <3>1, <3>2, SignedDays
    <3> HIDE DEF img
    <3>5. w.sign.there /\ w.sign.taken \in {{}, img.sign.taken}
      BY <3>1, SignedFields
    <3> QED BY <1>0, <3>1, <3>2, <3>3, <3>4, <3>5
  <2>2. ASSUME Serial(c), w = Wr(c, "serial", {}, TakenWith(c))
        PROVE  /\ db'.sign.there
               /\ SignKey \notin raced' => db'.sign.taken \subseteq w.sign.taken
    <3>1. calls[c].req.op = "sign" /\ calls[c].st = "ready" /\ db' = db /\ w.sign = TakenWith(c)
      BY <2>2 DEF Serial, Runs, Wr
    <3>2. /\ img.sign.there
          /\ SignKey \notin raced => img.sign = db.sign
      BY <1>0, <2>0, <3>1 DEF SignCalls
    <3>3. db.sign.there
      BY <1>0, <3>1, <3>2 DEF SignCalls
    <3>4. img.sign.taken \subseteq w.sign.taken
      BY <2>0, <3>1 DEF TakenWith, Image, SignRow
    <3> QED BY <1>0, <3>1, <3>2, <3>3, <3>4
  <2>3. ASSUME SignList(c), img.sign.there PROVE db'.sign.there
    BY <1>0, <2>3 DEF SignCalls, SignList, Decides
  <2>4. w.kind = "reset" => SignList(c) /\ img.sign.there
    BY <1>2, SignPuts
  <2>5. w.kind = "sign" => Sign(c) /\ w = Wr(c, "sign", {}, SignedRow(img))
    BY <1>2, SignPuts, WrFields
  <2>6. w.kind = "serial" => Serial(c) /\ w = Wr(c, "serial", {}, TakenWith(c))
    BY <1>2, SignPuts, WrFields
  <2> HIDE DEF img
  <2> QED BY <2>1, <2>2, <2>3, <2>4, <2>5, <2>6
<1> QED BY <1>1, <1>2, WriteMoves DEF BaseInv

LEMMA SignOnceStep ==
  ASSUME BaseInv, SignOnce, [Next]_vars
  PROVE  SignOnce'
<1> SUFFICES ASSUME NEW v \in Pending', NEW w \in Pending', v.call = w.call,
                    calls'[w.call].req.op = "sign"
             PROVE  v = w
  BY DEF SignOnce
<1>1. ASSUME NEW x \in Pending, x.call = w.call
      PROVE  /\ w.call \in InUse /\ calls[w.call].req.op = "sign" /\ calls[w.call].st = "done"
  BY <1>1, CallMoves DEF BaseInv, WritesInv, WriteFits
<1>2. ASSUME NEW x, NEW c \in InUse, Puts(c, x), x.call = w.call
      PROVE  /\ c = w.call /\ calls[c].req.op = "sign" /\ calls[c].st # "done"
             /\ \/ Sign(c) /\ x = Wr(c, "sign", {}, SignedRow(calls[c].img))
                \/ Serial(c) /\ x = Wr(c, "serial", {}, TakenWith(c))
  <2>1. c = w.call /\ calls[c].st # "done"
    BY <1>2, PutsType, PutsSeen DEF BaseInv
  <2>2. calls[c].req.op = "sign"
    BY <2>1, CallMoves DEF BaseInv
  <2> QED BY <1>2, <2>1, <2>2, SignPuts
<1>3. CASE v \in Pending /\ w \in Pending
  BY <1>1, <1>3 DEF SignOnce
<1>4. ~(Sign(w.call) /\ Serial(w.call))
  <2>1. Sign(w.call) => calls[w.call].req.n = 0
    BY DEF Sign
  <2>2. Serial(w.call) => calls[w.call].req.n > 0
    BY DEF Serial
  <2> QED BY <2>1, <2>2
<1> QED BY <1>1, <1>2, <1>3, <1>4, WriteMoves DEF BaseInv

LEMMA SignGivenStep ==
  ASSUME BaseInv, Alone, SignInv, [Next]_vars
  PROVE  SignGiven'
<1> SUFFICES ASSUME Settled(SignKey)'
             PROVE  /\ signed' <= 1
                    /\ signed' > 0 => db'.sign.last = day' \/ SignMarked'
                    /\ \A t \in 1 .. 3 :
                         /\ serials'[t] <= 1
                         /\ serials'[t] > 0 => t \in db'.sign.taken \/ SerialMarked(t)'
  BY DEF SignGiven
<1>0. SignRows /\ SignCalls /\ SignWrites /\ SignOnce
  BY DEF SignInv
<1>1. SignKey \notin raced /\ SignKey \notin open' /\ Settled(SignKey)
  BY Moves DEF Settled
<1>2. /\ signed \in Nat /\ signed <= 1
      /\ signed > 0 => db.sign.last = day \/ SignMarked
      /\ \A t \in 1 .. 3 : /\ serials[t] \in Nat /\ serials[t] <= 1
                           /\ serials[t] > 0 => t \in db.sign.taken \/ SerialMarked(t)
  BY <1>1 DEF SignInv, SignGiven, BaseInv, PlainInv, LedgerType
<1>3. \A w \in Pending : w.kind \in {"sign", "serial", "reset", "newSign"}
                           => SignKey \in Targets(calls[w.call].req)
  BY DEF BaseInv, WritesInv, WriteFits, PutsFits, Targets
<1>4. \A w \in Pending : w.kind \in {"sign", "serial"} => w \in Pending' \/ (w \in batch /\ ExecWrite(w))
  BY <1>1, <1>3, WriteGoes
<1>5. ASSUME NEW w, ExecWrite(w) PROVE batch' = batch \ {w} /\ db' = Applied(w) /\ day' = day
  BY <1>5 DEF ExecWrite
<1>6. db \in Db /\ db.sign \in SignRow /\ day \in Nat
  BY DEF BaseInv, PlainInv, Db
\* one callback decides on a row that nothing else is about to write
<1>7. ASSUME NEW c \in InUse, Runs(c, "sign"), calls[c].seen
      PROVE  ~SignMarked /\ \A t \in 1 .. 3 : ~SerialMarked(t)
  <2>1. calls[c].st = "ready" /\ calls[c].req.op = "sign" /\ Targets(calls[c].req) = {SignKey}
    BY <1>7 DEF Runs, Targets
  <2> QED BY <1>1, <1>3, <1>7, <2>1, NoOtherWrite DEF SignMarked, SerialMarked
<1>8. ASSUME NEW c \in InUse, Runs(c, "sign")
      PROVE  /\ calls[c].seen /\ calls[c].img.sign = db.sign
             /\ calls[c].img.sign.last <= calls[c].img.n /\ calls[c].img.n <= day
             /\ calls[c].img \in Image
  <2>1. calls[c].st = "ready" /\ calls[c].req.op = "sign" /\ calls[c] \in Call
    BY <1>8 DEF Runs, BaseInv, CallsInv, InUse
  <2>2. calls[c].seen
    BY <1>0, <2>1 DEF SignCalls
  <2> QED BY <1>0, <1>1, <2>1, <2>2 DEF SignCalls, Call
\* the prize of the day
<1>9. ASSUME NEW c \in InUse, Sign(c) PROVE signed' <= 1 /\ SignMarked'
  <2>1. Runs(c, "sign") /\ signed' = signed + 1 /\ ~IsToday(calls[c].img)
        /\ Wr(c, "sign", {}, SignedRow(calls[c].img)) \in queue'
    BY <1>9 DEF Sign, SignRefused, Done
  <2>2. ~SignMarked
    BY <1>7, <1>8, <2>1
  <2>3. db.sign.last # day
    <3>1. calls[c].img.sign.last # calls[c].img.n
      BY <2>1 DEF IsToday
    <3>2. calls[c].img.n \in Nat /\ calls[c].img.sign.last \in Nat
      BY <1>8, <2>1 DEF Image, SignRow
    <3> QED BY <1>6, <1>8, <2>1, <3>1, <3>2
  <2>4. SignMarked'
    BY <2>1, WrFields DEF SignMarked, Pending
  <2> QED BY <1>2, <2>1, <2>2, <2>3, <2>4
<1>10. ASSUME signed' = signed, day' = day, signed > 0
       PROVE  db'.sign.last = day' \/ SignMarked'
  <2>1. CASE db.sign.last = day
    <3>1. day > 0
      BY <1>0 DEF SignRows
    <3>2. db'.sign.last \in {db.sign.last, day} \/ db.sign.last = 0
      BY <1>0, SignFields
    <3> QED BY <1>10, <2>1, <3>1, <3>2
  <2>2. ASSUME NEW w \in Pending, w.kind = "sign" PROVE db'.sign.last = day' \/ SignMarked'
    <3>1. ASSUME ExecWrite(w) PROVE db'.sign.last = day
      <4>1. db'.sign = [w.sign EXCEPT !.last = day]
        BY <1>5, <1>6, <2>2, <3>1 DEF Applied, Db
      <4>2. w.sign \in SignRow
        BY DEF BaseInv, WritesInv, WriteFits, Write
      <4> QED BY <4>1, <4>2 DEF SignRow
    <3> QED BY <1>4, <1>10, <2>2, <3>1 DEF SignMarked
  <2> QED BY <1>2, <1>10, <2>1, <2>2 DEF SignMarked
<1>11. signed' <= 1 /\ (signed' > 0 => db'.sign.last = day' \/ SignMarked')
  <2>1. NextDay => signed' = 0
    BY DEF NextDay
  <2>2. NextDay \/ day' = day
    BY Moves
  <2>3. signed' = signed \/ NextDay \/ \E c \in InUse : Sign(c)
    BY Moves
  <2> QED BY <1>2, <1>9, <1>10, <2>1, <2>2, <2>3
\* the serial prizes
<1>12. ASSUME NEW c \in InUse, Serial(c), NEW t \in 1 .. 3
       PROVE  /\ serials'[t] <= 1
              /\ serials'[t] > 0 => t \in db'.sign.taken \/ SerialMarked(t)'
  <2> DEFINE k == calls[c].req.n
             w == Wr(c, "serial", {}, TakenWith(c))
  <2>1. /\ Runs(c, "sign") /\ db' = db /\ batch' = batch /\ queue' = queue \cup {w}
        /\ serials' = [serials EXCEPT ![k] = serials[k] + 1] /\ k > 0
        /\ k \notin calls[c].img.sign.taken
    BY <1>12 DEF Serial, SignRefused, Done
  <2>2. k \in 1 .. 3
    <3>1. calls[c].req.op = "sign"
      BY <2>1 DEF Runs
    <3> QED BY <2>1, <3>1, AskedType, RequestFacts DEF BaseInv, About
  <2>3. ~SerialMarked(k) /\ k \notin db.sign.taken
    BY <1>7, <1>8, <2>1, <2>2
  <2>4. serials[k] = 0
    BY <1>2, <2>2, <2>3
  <2>5. serials \in [1 .. 3 -> Nat]
    BY DEF BaseInv, PlainInv, LedgerType
  <2>6. w.kind = "serial" /\ k \in w.sign.taken
    <3>1. calls[c].img.sign \in SignRow
      BY <1>8, <2>1 DEF Image
    <3>2. k \in TakenWith(c).taken
      BY <3>1 DEF TakenWith, SignRow
    <3> QED BY <3>2, WrFields
  <2> HIDE DEF w, k
  <2>7. w \in Pending'
    BY <2>1 DEF Pending
  <2>8. CASE t = k
    <3>1. serials'[t] = 1
      BY <2>1, <2>2, <2>4, <2>5, <2>8
    <3>2. SerialMarked(t)'
      BY <2>6, <2>7, <2>8 DEF SerialMarked
    <3> QED BY <3>1, <3>2
  <2>9. CASE t # k
    <3>1. serials'[t] = serials[t]
      BY <2>1, <2>2, <2>5, <2>9
    <3>2. SerialMarked(t) => SerialMarked(t)'
      BY <2>1 DEF SerialMarked, Pending
    <3> QED BY <1>2, <2>1, <3>1, <3>2
  <2> QED BY <2>8, <2>9
<1>13. ASSUME NEW w \in batch, ExecWrite(w), NEW t \in 1 .. 3
       PROVE  /\ serials'[t] <= 1
              /\ serials'[t] > 0 => t \in db'.sign.taken \/ SerialMarked(t)'
  <2>1. serials' = IF w.kind = "reset" \/ (w.kind = "sign" /\ w.sign.taken = {})
                   THEN [i \in 1 .. 3 |-> 0] ELSE serials
    BY <1>13 DEF ExecWrite
  <2>2. CASE w.kind = "reset" \/ (w.kind = "sign" /\ w.sign.taken = {})
    BY <2>1, <2>2
  <2>3. CASE ~(w.kind = "reset" \/ (w.kind = "sign" /\ w.sign.taken = {}))
    <3>1. serials' = serials
      BY <2>1, <2>3
    <3>2. db.sign.taken \subseteq db'.sign.taken
      <4>1. ASSUME NEW v \in batch, ExecWrite(v) PROVE v = w
        BY <1>13, <4>1 DEF ExecWrite
      <4>2. w.kind = "sign" => w.sign.taken = db.sign.taken
        BY <1>0, <1>1, <2>3 DEF SignWrites, Pending
      <4>3. w.kind = "serial" => db.sign.taken \subseteq w.sign.taken
        BY <1>0, <1>1 DEF SignWrites, Pending
      <4> QED BY <1>0, <2>3, <4>1, <4>2, <4>3, SignFields
    <3>3. ASSUME NEW v \in Pending, v.kind = "serial", t \in v.sign.taken
          PROVE  t \in db'.sign.taken \/ SerialMarked(t)'
      <4>1. ASSUME ExecWrite(v) PROVE db'.sign.taken = v.sign.taken
        <5>1. db'.sign = [db.sign EXCEPT !.taken = v.sign.taken]
          BY <1>5, <1>6, <3>3, <4>1 DEF Applied, Db
        <5> QED BY <1>6, <5>1 DEF SignRow
      <4> QED BY <1>4, <3>3, <4>1 DEF SerialMarked
    <3> QED BY <1>2, <3>1, <3>2, <3>3 DEF SerialMarked
  <2> QED BY <2>2, <2>3
<1>14. ASSUME serials' = serials, ~(\E w \in batch : ExecWrite(w)), NEW t \in 1 .. 3
       PROVE  /\ serials'[t] <= 1
              /\ serials'[t] > 0 => t \in db'.sign.taken \/ SerialMarked(t)'
  <2>1. db'.sign = db.sign
    BY <1>0, <1>14, SignMoves
  <2>2. SerialMarked(t) => SerialMarked(t)'
    BY <1>4, <1>14 DEF SerialMarked
  <2> QED BY <1>2, <1>14, <2>1, <2>2
<1>15. ASSUME NEW t \in 1 .. 3
       PROVE  /\ serials'[t] <= 1
              /\ serials'[t] > 0 => t \in db'.sign.taken \/ SerialMarked(t)'
  BY <1>12, <1>13, <1>14, Moves
<1> QED BY <1>11, <1>15

LEMMA SignInit ==
  ASSUME Init
  PROVE  SignInv
<1>1. InUse = {} /\ Pending = {}
  BY DEF Init, InUse, Pending
<1>2. db.sign = InitSign /\ day = InitDay /\ signed = 0 /\ late = FALSE
      /\ serials = [t \in 1 .. 3 |-> IF t \in InitSign.taken THEN 1 ELSE 0]
  BY DEF Init
<1>3. SignRows
  BY <1>2, InitSignAssumption, RewardsAssumption DEF SignRows, DaysOk
<1>4. SignGiven
  BY <1>2 DEF SignGiven
<1> QED BY <1>1, <1>3, <1>4 DEF SignInv, SignCalls, SignWrites, SignOnce

LEMMA SignStep ==
  ASSUME BaseInv, Alone, SignInv, [Next]_vars
  PROVE  SignInv'
BY SignRowsStep, SignCallsStep, SignWritesStep, SignOnceStep, SignGivenStep DEF SignInv

LEMMA PrizeFacts ==
  ASSUME BaseInv, SignInv, VipInv
  PROVE  PrizeInv
<1>1. PrizedOnce
  BY DEF SignInv, SignGiven, VipInv, VipGiven, PrizedOnce
<1>2. SerialKept
  BY DEF SignInv, SignGiven, SerialMarked, SerialKept
<1>3. ASSUME ~late, NEW c \in InUse, calls[c].req.op = "sign", ~IsToday(calls[c].img)
      PROVE  SignedRow(calls[c].img).days <= WeekLen
  <2> DEFINE img == calls[c].img
  <2>1. calls[c] \in Call
    BY DEF BaseInv, CallsInv, InUse
  <2>2. img \in Image /\ DaysOk(img.sign) /\ img.sign.last <= img.n
    BY <1>3, <2>1 DEF SignInv, SignCalls, Call
  <2>3. SignedRow(img).days <= (img.n % WeekLen) + 1 /\ SignedRow(img).days \in Nat
    BY <1>3, <2>2, SignedDays, SignedRowType DEF SignRow
  <2>4. img.n % WeekLen \in Nat /\ img.n % WeekLen <= WeekLen - 1 /\ WeekLen \in Nat
    BY <2>2, WeekDays, RewardsAssumption DEF Image
  <2> HIDE DEF img
  <2> QED BY <2>3, <2>4 DEF img
<1>4. PrizeListed
  BY <1>3 DEF PrizeListed
<1> QED BY <1>1, <1>2, <1>4 DEF PrizeInv

(* One prize and one VIP mail a day, each serial prize once in a cycle and *)
(* remembered, and a day's prize that the week's list has: unless requests *)
(* overlapped on the row, a mark was lost, or (for the list) midnight fell *)
(* between a SELECT and its UPDATE.                                        *)
THEOREM PrizesOnce == Spec => []PrizeInv
<1> DEFINE Inv == BaseInv /\ Alone /\ SignInv /\ VipInv
<1>1. Init => Inv
  BY BaseInit, AloneInit, SignInit, VipInit
<1>2. Inv /\ [Next]_vars => Inv'
  BY BaseStep, AloneStep, SignStep, VipStep
<1>3. Inv => PrizeInv
  BY PrizeFacts
<1> HIDE DEF Inv
<1> QED BY <1>1, <1>2, <1>3, PTL DEF Spec

-----------------------------------------------------------------------------
(* Limits of purchases *)

(* What was bought of a good today, as the table has it. *)
NumToday(g) == IF db.numDay[g] = day THEN db.num[g] ELSE 0

(* How many of its SELECTs a purchase has judged. *)
Judged(c) ==
  Len(Steps(calls[c].req)) - Len(calls[c].todo) - IF calls[c].st = "got" THEN 1 ELSE 0

(* The SELECT s leaves room for n more of the good g. *)
Allows(g, n, s) ==
  /\ s = "limit" => NumToday(g) + n <= Limit[g]
  /\ s = "frame" => g \notin db.frames
  /\ s = "activity" => g \notin db.acts

(* What it returned for g is what the tables say. *)
Shows(g, n, s) ==
  /\ s = "limit" => NumToday(g) <= n
  /\ s = "frame" /\ n # 1 => g \notin db.frames
  /\ s = "activity" /\ n # 1 => g \notin db.acts

Buying(c, g) ==
  /\ calls[c].req.op = "buy" /\ calls[c].req.at = g
  /\ calls[c].seen /\ calls[c].st \notin {"done", "lost", "error"}

BuyCalls ==
  \A c \in InUse : \A g \in Goods \ raced : Buying(c, g) =>
    /\ calls[c].st = "got" => Shows(g, calls[c].img.n, StepRead(c))
    /\ \A i \in 1 .. Judged(c) : Allows(g, calls[c].req.n, Steps(calls[c].req)[i])

(* It is to be bought once: the purchase is noted for the next one.        *)
Once(g) == Activity[g] /\ Logged(g)

BuyMarked(g, kind) == \E w \in Pending : w.kind = kind /\ calls[w.call].req.at = g

BuyGiven ==
  \A g \in Goods : Settled(g) =>
    /\ Limit[g] > 0 =>
         /\ today[g] <= Limit[g]
         /\ \/ today[g] <= NumToday(g)
            \/ \E w \in Pending : /\ w.kind = "num" /\ calls[w.call].req.at = g
                                  /\ today[g] <= NumToday(g) + calls[w.call].req.n
    /\ Frame[g] \/ Once(g) => bought[g] <= 1
    /\ Frame[g] /\ bought[g] > 0 => g \in db.frames \/ BuyMarked(g, "frame")
    /\ Once(g) /\ bought[g] > 0 => g \in db.acts \/ BuyMarked(g, "activity")

BuyRows == \A g \in Goods : db.numDay[g] <= day

BuyInv == BuyRows /\ BuyCalls /\ BuyGiven

LEMMA GoodsFields ==
  ASSUME db \in Db, NEW w, w.kind \in Kinds, db' = Applied(w)
  PROVE  LET at == calls[w.call].req.at
             n == calls[w.call].req.n
             more == IF db.numDay[at] = day THEN db.num[at] + n ELSE n
         IN  /\ db'.num = IF w.kind = "num" THEN [db.num EXCEPT ![at] = more] ELSE db.num
             /\ db'.numDay = IF w.kind = "num" THEN [db.numDay EXCEPT ![at] = day] ELSE db.numDay
             /\ db'.frames = IF w.kind = "frame" THEN db.frames \cup {at} ELSE db.frames
             /\ db'.acts = IF w.kind = "activity" THEN db.acts \cup {at} ELSE db.acts
BY AppliedFields

(* What a statement of a purchase writes. *)
LEMMA GoodsExec ==
  ASSUME BaseInv, BuyRows, [Next]_vars, NEW g \in Goods, NEW w \in batch, ExecWrite(w),
         w.kind \in {"num", "frame", "activity"}
  PROVE  /\ db'.numDay[g] <= day'
         /\ g # calls[w.call].req.at =>
              /\ NumToday(g)' = NumToday(g)
              /\ g \in db'.frames <=> g \in db.frames
              /\ g \in db'.acts <=> g \in db.acts
         /\ g = calls[w.call].req.at =>
              /\ g \in Targets(calls[w.call].req)
              /\ NumToday(g)' = NumToday(g) + IF w.kind = "num" THEN calls[w.call].req.n ELSE 0
              /\ g \in db'.frames <=> g \in db.frames \/ w.kind = "frame"
              /\ g \in db'.acts <=> g \in db.acts \/ w.kind = "activity"
<1> DEFINE at == calls[w.call].req.at
           n == calls[w.call].req.n
           more == IF db.numDay[at] = day THEN db.num[at] + n ELSE n
<1>0. /\ db \in Db /\ day \in Nat /\ db.num \in [Goods -> Nat] /\ db.numDay \in [Goods -> Nat]
      /\ db' \in Db /\ day' \in Nat /\ db'.num \in [Goods -> Nat] /\ db'.numDay \in [Goods -> Nat]
  BY PlainStep DEF BaseInv, PlainInv, Db
<1>8. NumToday(g) \in Nat /\ NumToday(g)' \in Nat
  BY <1>0 DEF NumToday
<1>9. db.numDay[g] <= day /\ db.numDay[g] \in Nat
  BY <1>0 DEF BuyRows
<1>1. WriteFits(w) /\ w.kind \in Kinds /\ db' = Applied(w) /\ day' = day
  BY DEF BaseInv, WritesInv, Pending, WriteFits, Write, ExecWrite
<1>2. /\ db'.num = IF w.kind = "num" THEN [db.num EXCEPT ![at] = more] ELSE db.num
      /\ db'.numDay = IF w.kind = "num" THEN [db.numDay EXCEPT ![at] = day] ELSE db.numDay
      /\ db'.frames = IF w.kind = "frame" THEN db.frames \cup {at} ELSE db.frames
      /\ db'.acts = IF w.kind = "activity" THEN db.acts \cup {at} ELSE db.acts
  BY <1>0, <1>1, GoodsFields
<1>3. w.kind \in {"num", "frame", "activity"}
  OBVIOUS
<1>4. w.call \in InUse /\ calls[w.call].req.op = "buy"
  BY <1>1, <1>3 DEF WriteFits, PutsFits
<1>5. at \in Goods /\ n \in Nat /\ Targets(calls[w.call].req) = {at}
  BY <1>4, AskedType DEF BaseInv, Targets
<1>6. CASE w.kind = "num"
  <2>1. db'.num = [db.num EXCEPT ![at] = more] /\ db'.numDay = [db.numDay EXCEPT ![at] = day]
        /\ db'.frames = db.frames /\ db'.acts = db.acts
    BY <1>2, <1>6
  <2>2. ASSUME at # g PROVE db'.num[g] = db.num[g] /\ db'.numDay[g] = db.numDay[g]
    <3> HIDE DEF at, more
    <3> QED BY <1>0, <1>5, <2>1, <2>2
  <2>3. ASSUME at = g PROVE db'.num[g] = more /\ db'.numDay[g] = day
    <3> HIDE DEF at, more
    <3> QED BY <1>0, <1>5, <2>1, <2>3
  <2>4. CASE at # g
    BY <1>9, <1>1, <2>1, <2>2, <2>4 DEF NumToday
  <2>5. CASE at = g
    <3>1. NumToday(g)' = more
      BY <1>1, <2>3, <2>5 DEF NumToday
    <3>2. more = NumToday(g) + n
      <4>1. db.num[g] \in Nat
        BY <1>0
      <4> QED BY <1>5, <2>5, <4>1 DEF NumToday
    <3>3. db'.numDay[g] <= day'
      BY <1>0, <1>1, <2>3, <2>5
    <3> QED BY <1>5, <1>6, <2>1, <2>5, <3>1, <3>2, <3>3
  <2> QED BY <2>4, <2>5
<1>7. CASE w.kind \in {"frame", "activity"}
  <2>1. db'.num = db.num /\ db'.numDay = db.numDay
    BY <1>2, <1>7
  <2>2. NumToday(g)' = NumToday(g) /\ db'.numDay[g] <= day'
    BY <1>9, <1>1, <2>1 DEF NumToday
  <2>3. /\ at # g => (g \in db'.frames <=> g \in db.frames) /\ (g \in db'.acts <=> g \in db.acts)
        /\ at = g => /\ g \in db'.frames <=> g \in db.frames \/ w.kind = "frame"
                     /\ g \in db'.acts <=> g \in db.acts \/ w.kind = "activity"
    BY <1>2
  <2> QED BY <1>8, <1>5, <1>7, <2>2, <2>3
<1> QED BY <1>3, <1>6, <1>7

(* Who writes what was bought of a good. *)
LEMMA GoodsMoves ==
  ASSUME BaseInv, BuyRows, [Next]_vars, NEW g \in Goods
  PROVE  /\ db'.numDay[g] <= day' /\ NumToday(g) \in Nat /\ NumToday(g)' \in Nat
         /\ \/ /\ NumToday(g)' = NumToday(g) \/ (NextDay /\ NumToday(g)' = 0)
               /\ g \in db'.frames <=> g \in db.frames
               /\ g \in db'.acts <=> g \in db.acts
            \/ \E w \in batch :
                 /\ ExecWrite(w) /\ calls[w.call].req.at = g /\ g \in Targets(calls[w.call].req)
                 /\ NumToday(g)' = NumToday(g) + IF w.kind = "num" THEN calls[w.call].req.n ELSE 0
                 /\ g \in db'.frames <=> g \in db.frames \/ w.kind = "frame"
                 /\ g \in db'.acts <=> g \in db.acts \/ w.kind = "activity"
<1>0. /\ db \in Db /\ day \in Nat /\ db.num \in [Goods -> Nat] /\ db.numDay \in [Goods -> Nat]
      /\ db' \in Db /\ day' \in Nat /\ db'.num \in [Goods -> Nat] /\ db'.numDay \in [Goods -> Nat]
  BY PlainStep DEF BaseInv, PlainInv, Db
<1>1. NumToday(g) \in Nat /\ NumToday(g)' \in Nat
  BY <1>0 DEF NumToday
<1>2. db.numDay[g] <= day /\ db.numDay[g] \in Nat
  BY <1>0 DEF BuyRows
<1>3. NextDay => day' = day + 1 /\ db' = db
  BY DEF NextDay
<1> DEFINE Same == /\ db'.num = db.num /\ db'.numDay = db.numDay
                   /\ db'.frames = db.frames /\ db'.acts = db.acts
<1>4. ASSUME Same
      PROVE  /\ db'.numDay[g] <= day'
             /\ NumToday(g)' = NumToday(g) \/ (NextDay /\ NumToday(g)' = 0)
  <2>1. CASE day' = day
    BY <1>2, <1>4, <2>1 DEF NumToday
  <2>2. CASE NextDay
    BY <1>0, <1>2, <1>3, <1>4, <2>2 DEF NumToday
  <2> QED BY <2>1, <2>2, Moves
<1>5. ASSUME NEW w \in batch, ExecWrite(w), ~Same
      PROVE  w.kind \in {"num", "frame", "activity"}
  <2>1. w.kind \in Kinds /\ db' = Applied(w)
    BY <1>5 DEF BaseInv, WritesInv, Pending, WriteFits, Write, ExecWrite
  <2> QED BY <1>0, <1>5, <2>1, AppliedFields
<1>6. ASSUME NEW c \in InUse, DeleteSys(c) PROVE Same
  BY <1>0, <1>6, DeleteSysPuts
<1>7. ASSUME NEW q \in Presents, Issue(q) PROVE Same
  BY <1>0, <1>7, IssuePuts
<1>8. Same \/ \E w \in batch : ExecWrite(w)
  BY <1>6, <1>7, Moves
<1>9. CASE Same
  <2>1. /\ g \in db'.frames <=> g \in db.frames
        /\ g \in db'.acts <=> g \in db.acts
    BY <1>9
  <2> QED BY <1>1, <1>4, <1>9, <2>1
<1>10. ASSUME NEW w \in batch, ExecWrite(w), ~Same
       PROVE  /\ db'.numDay[g] <= day'
              /\ \/ /\ NumToday(g)' = NumToday(g)
                    /\ g \in db'.frames <=> g \in db.frames
                    /\ g \in db'.acts <=> g \in db.acts
                 \/ /\ calls[w.call].req.at = g /\ g \in Targets(calls[w.call].req)
                    /\ NumToday(g)' = NumToday(g) + IF w.kind = "num" THEN calls[w.call].req.n ELSE 0
                    /\ g \in db'.frames <=> g \in db.frames \/ w.kind = "frame"
                    /\ g \in db'.acts <=> g \in db.acts \/ w.kind = "activity"
  BY <1>5, <1>10, GoodsExec
<1> HIDE DEF Same
<1> QED BY <1>1, <1>8, <1>9, <1>10

(* A transaction goes on when what it read does not refuse it. *)
LEMMA TransGoes ==
  ASSUME NEW c \in InUse, TransRead(c), calls \in Seq(Call)
  PROVE  /\ calls[c].st = "got" /\ calls'[c].st \in {"done", "ready"}
         /\ calls[c].req.op = "buy" /\ calls'[c].st = "ready"
              => ~LimitRefused(c) /\ ~ExistsRefused(c)
<1>1. PICK refused \in BOOLEAN :
        /\ MayRefuse(c, refused)
        /\ calls' = [calls EXCEPT ![c].st = IF refused THEN "done" ELSE "ready"]
  BY DEF TransRead
<1>2. calls'[c].st = IF refused THEN "done" ELSE "ready"
  <2> DEFINE st == IF refused THEN "done" ELSE "ready"
  <2>1. st \in Stages /\ Sets(c, st)
    BY <1>1 DEF Stages, Sets
  <2> HIDE DEF st
  <2>2. calls'[c].st = st
    BY <2>1, SetsPuts
  <2> QED BY <2>2 DEF st
<1>3. calls[c].st = "got"
  BY DEF TransRead
<1> QED BY <1>1, <1>2, <1>3 DEF MayRefuse

(* A purchase sees the tables as they are, as long as it is alone. *)
LEMMA BuyCallsStep ==
  ASSUME BaseInv, Alone, BuyInv, [Next]_vars
  PROVE  BuyCalls'
<1> SUFFICES ASSUME NEW c \in InUse', NEW g \in Goods, g \notin raced', Buying(c, g)'
             PROVE  (/\ calls[c].st = "got" => Shows(g, calls[c].img.n, StepRead(c))
                     /\ \A i \in 1 .. Judged(c) : Allows(g, calls[c].req.n, Steps(calls[c].req)[i]))'
  BY DEF BuyCalls
<1>0. c \in InUse
  BY NewCall DEF BaseInv, Buying
<1> DEFINE r == calls[c].req
           todo == calls[c].todo
           steps == Steps(r)
<1>1. /\ calls'[c].req = r /\ r.op = "buy" /\ r.at = g /\ calls'[c].seen
      /\ calls'[c].st \notin {"done", "lost", "error"} /\ g \notin raced
  BY <1>0, CallMoves, Moves DEF BaseInv, Buying
<1>2. /\ r \in Requests /\ r.n \in Nat /\ Targets(r) = {g}
      /\ steps \in Seq(StepNames) /\ todo \in Seq(StepNames) /\ CallFits(c)
  <2>1. calls[c] \in Call /\ CallFits(c)
    BY <1>0 DEF BaseInv, CallsInv, InUse
  <2> QED BY <1>0, <1>1, <2>1, AskedType, StepsType DEF BaseInv, Call, Targets
<1>3. CASE ExecSelect(c)
  <2> DEFINE h == Head(todo)
             img == calls'[c].img
  <2>1. /\ calls[c].st = "batch" /\ calls'[c].st = "got" /\ todo # <<>>
        /\ img = ImageOf(r, h) /\ StepFits(r, h)
        /\ Len(steps) - Len(todo) \in Nat /\ h = steps[Len(steps) - Len(todo) + 1]
        /\ Len(calls'[c].todo) = Len(todo) - 1
    BY <1>0, <1>3, ReadPuts DEF BaseInv
  <2>2. db' = db /\ day' = day
    BY <1>3 DEF ExecSelect
  <2>3. Len(steps) \in Nat /\ Len(todo) \in Nat
    BY <1>2
  <2>4. StepRead(c)' = h /\ Judged(c)' = Len(steps) - Len(todo) /\ Judged(c) = Judged(c)'
    <3>1. Len(steps) - (Len(todo) - 1) = Len(steps) - Len(todo) + 1
      BY <2>3
    <3>2. StepRead(c)' = steps[Len(steps) - (Len(todo) - 1)]
      BY <1>1, <2>1 DEF StepRead
    <3>3. Judged(c)' = Len(steps) - (Len(todo) - 1) - 1
      BY <1>1, <2>1 DEF Judged
    <3>4. Judged(c) = Len(steps) - Len(todo) - 0
      BY <2>1 DEF Judged
    <3> HIDE DEF steps, todo, h
    <3> QED BY <2>1, <2>3, <3>1, <3>2, <3>3, <3>4
  <2>5. Shows(g, img.n, h)
    <3>1. h = "limit" => img.n = NumToday(g)
      BY <1>1, <2>1 DEF StepFits, ImageOf, NoImage, NumToday
    <3>2. h = "frame" => img.n = IF g \in db.frames THEN 1 ELSE 0
      BY <1>1, <2>1 DEF StepFits, ImageOf, NoImage
    <3>3. h = "activity" => img.n = IF g \in db.acts THEN 1 ELSE 0
      BY <1>1, <2>1 DEF StepFits, ImageOf, NoImage
    <3>4. NumToday(g) \in Nat
      BY GoodsMoves DEF BuyInv
    <3> QED BY <3>1, <3>2, <3>3, <3>4 DEF Shows
  <2>6. \A i \in 1 .. Judged(c) : Allows(g, r.n, steps[i])
    <3>1. CASE calls[c].seen
      BY <1>0, <1>1, <2>1, <3>1 DEF BuyInv, BuyCalls, Buying
    <3>2. CASE ~calls[c].seen
      <4>1. Len(todo) = Len(steps)
        BY <1>2, <3>2 DEF CallFits
      <4> QED BY <2>3, <2>4, <4>1
    <3> QED BY <3>1, <3>2
  <2>7. /\ h = "limit" => NumToday(g)' <= img.n
        /\ h = "frame" /\ img.n # 1 => g \notin db'.frames
        /\ h = "activity" /\ img.n # 1 => g \notin db'.acts
    <3> HIDE DEF h, img
    <3> QED BY <2>2, <2>5 DEF Shows, NumToday
  <2>8. \A i \in 1 .. Judged(c) :
          /\ steps[i] = "limit" => NumToday(g)' + r.n <= Limit[g]
          /\ steps[i] = "frame" => g \notin db'.frames
          /\ steps[i] = "activity" => g \notin db'.acts
    <3> HIDE DEF steps
    <3> QED BY <2>2, <2>6 DEF Allows, NumToday
  <2>9. /\ StepRead(c)' = h /\ Judged(c)' = Judged(c)
        /\ Steps(calls'[c].req) = steps /\ calls'[c].req.n = r.n /\ calls'[c].img = img
    BY <1>1, <2>4
  <2> HIDE DEF steps, img, h
  <2> QED BY <2>7, <2>8, <2>9 DEF Shows, Allows
<1>4. CASE ~ExecSelect(c)
  <2>1. /\ calls'[c].img = calls[c].img /\ calls'[c].seen = calls[c].seen /\ calls'[c].todo = todo
        /\ calls'[c].st = "got" => calls[c].st = "got"
        /\ calls'[c].st = "ready" => calls[c].st = "ready" \/ TransRead(c) \/ DeleteAll(c)
        /\ calls'[c].st = "queue" => calls[c].st = "queue" \/ TransNext(c) \/ NextSelect(c)
        /\ calls'[c].st = "batch" => calls[c].st \in {"queue", "batch"}
    BY <1>0, <1>4, CallMoves DEF BaseInv
  <2>2. ~DeleteAll(c) /\ ~NextSelect(c)
    BY <1>1 DEF DeleteAll, NextSelect
  <2>3. (TransNext(c) => calls[c].st = "ready") /\ (TransRead(c) => calls[c].st = "got")
    BY DEF TransNext, TransRead
  <2>4. calls'[c].st \in Stages
    <3>1. calls'[c] \in Call
      BY CallsType DEF BaseInv, InUse
    <3> QED BY <3>1 DEF Call, Stages
  <2>5. /\ calls[c].st \in {"queue", "batch", "got", "ready"}
        /\ (calls'[c].st = "got" <=> calls[c].st = "got") \/ TransRead(c)
    BY <1>1, <2>1, <2>2, <2>3, <2>4 DEF Stages
  <2>6. /\ calls[c].st = "got" => Shows(g, calls[c].img.n, StepRead(c))
        /\ \A i \in 1 .. Judged(c) : Allows(g, r.n, steps[i])
    BY <1>0, <1>1, <2>1, <2>5 DEF BuyInv, BuyCalls, Buying
  <2>7. /\ NumToday(g) \in Nat /\ NumToday(g)' \in Nat /\ NumToday(g)' <= NumToday(g)
        /\ g \in db'.frames <=> g \in db.frames
        /\ g \in db'.acts <=> g \in db.acts
    <3>1. ~(\E w \in batch : g \in Targets(calls[w.call].req))
      BY <1>0, <1>1, <1>2, <2>1, <2>5, NoOtherWrite DEF Pending
    <3> QED BY <3>1, GoodsMoves DEF BuyInv
  <2>8. \A s : Allows(g, r.n, s) =>
          /\ s = "limit" => NumToday(g)' + r.n <= Limit[g]
          /\ s = "frame" => g \notin db'.frames
          /\ s = "activity" => g \notin db'.acts
    <3>1. Limit[g] \in Nat
      BY RewardsAssumption
    <3> QED BY <1>2, <2>7, <3>1 DEF Allows
  <2>9. /\ Steps(calls'[c].req) = steps /\ calls'[c].req.n = r.n /\ StepRead(c)' = StepRead(c)
    BY <1>1, <2>1 DEF StepRead
  <2>10. calls'[c].st = "got" =>
           /\ StepRead(c) = "limit" => NumToday(g)' <= calls'[c].img.n
           /\ StepRead(c) = "frame" /\ calls'[c].img.n # 1 => g \notin db'.frames
           /\ StepRead(c) = "activity" /\ calls'[c].img.n # 1 => g \notin db'.acts
    <3>1. calls[c].img.n \in Nat
      <4>1. calls[c] \in Call
        BY <1>0 DEF BaseInv, CallsInv, InUse
      <4> QED BY <4>1 DEF Call, Image
    <3> QED BY <2>1, <2>6, <2>7, <3>1 DEF Shows
  <2>11. \A i \in 1 .. Judged(c)' : Allows(g, r.n, steps[i])
    <3>1. CASE calls'[c].st = "got" <=> calls[c].st = "got"
      <4>1. Judged(c)' = Judged(c)
        BY <1>1, <2>1, <3>1 DEF Judged
      <4> QED BY <2>6, <4>1
    <3>2. CASE TransRead(c)
      <4>1. calls[c].st = "got" /\ calls'[c].st = "ready"
        BY <1>0, <1>1, <3>2, TransGoes DEF BaseInv, CallsInv
      <4>2. ~LimitRefused(c) /\ ~ExistsRefused(c)
        BY <1>0, <1>1, <3>2, <4>1, TransGoes DEF BaseInv, CallsInv
      <4>3. Len(steps) \in Nat /\ Len(todo) \in Nat
        BY <1>2
      <4>4. Judged(c)' = Len(steps) - Len(todo) /\ Judged(c) = Len(steps) - Len(todo) - 1
        <5>1. Judged(c)' = Len(steps) - Len(todo) - 0
          BY <1>1, <2>1, <4>1 DEF Judged
        <5>2. Judged(c) = Len(steps) - Len(todo) - 1
          BY <4>1 DEF Judged
        <5> HIDE DEF steps, todo
        <5> QED BY <4>3, <5>1, <5>2
      <4>5. StepRead(c) = steps[Len(steps) - Len(todo)]
        BY DEF StepRead
      <4>6. Allows(g, r.n, StepRead(c))
        <5>1. calls[c].img.n \in Nat /\ Limit[g] \in Nat
          <6>1. calls[c] \in Call
            BY <1>0 DEF BaseInv, CallsInv, InUse
          <6> QED BY <6>1, RewardsAssumption DEF Call, Image
        <5> QED BY <1>1, <1>2, <2>6, <2>7, <4>1, <4>2, <5>1
                DEF Allows, Shows, LimitRefused, ExistsRefused
      <4> HIDE DEF steps, todo, r
      <4> QED BY <2>6, <4>3, <4>4, <4>5, <4>6
    <3> QED BY <2>5, <3>1, <3>2
  <2>12. \A i \in 1 .. Judged(c)' :
           /\ steps[i] = "limit" => NumToday(g)' + r.n <= Limit[g]
           /\ steps[i] = "frame" => g \notin db'.frames
           /\ steps[i] = "activity" => g \notin db'.acts
    BY <2>8, <2>11
  <2> HIDE DEF steps, r, todo
  <2> QED BY <2>9, <2>10, <2>12 DEF Shows, Allows
<1> QED BY <1>3, <1>4

(* Who buys, and what is put on the queue for it. *)
LEMMA BoughtMoves ==
  ASSUME BaseInv, [Next]_vars, NEW g \in Goods
  PROVE  /\ bought[g] \in Nat /\ today[g] \in Nat /\ bought'[g] \in Nat /\ today'[g] \in Nat
         /\ \/ bought'[g] = bought[g] /\ (today'[g] = today[g] \/ (NextDay /\ today'[g] = 0))
            \/ \E c \in InUse :
                 /\ Runs(c, "buy") /\ calls[c].req.at = g /\ db' = db /\ day' = day
                 /\ bought'[g] = bought[g] + calls[c].req.n
                 /\ today'[g] = today[g] + calls[c].req.n
                 /\ Frame[g] => Wr(c, "frame", {}, NoSign) \in Pending'
                 /\ Once(g) => Wr(c, "activity", {}, NoSign) \in Pending'
                 /\ ~Activity[g] /\ Limit[g] > 0 => Wr(c, "num", {}, NoSign) \in Pending'
<1>0. /\ bought \in [Goods -> Nat] /\ today \in [Goods -> Nat]
      /\ bought' \in [Goods -> Nat] /\ today' \in [Goods -> Nat]
  BY PlainStep DEF BaseInv, PlainInv, LedgerType
<1>1. bought[g] \in Nat /\ today[g] \in Nat /\ bought'[g] \in Nat /\ today'[g] \in Nat
  BY <1>0
<1> DEFINE Buys(c) ==
             /\ Runs(c, "buy") /\ calls[c].req.at = g /\ db' = db /\ day' = day
             /\ bought'[g] = bought[g] + calls[c].req.n
             /\ today'[g] = today[g] + calls[c].req.n
             /\ Frame[g] => Wr(c, "frame", {}, NoSign) \in Pending'
             /\ Once(g) => Wr(c, "activity", {}, NoSign) \in Pending'
             /\ ~Activity[g] /\ Limit[g] > 0 => Wr(c, "num", {}, NoSign) \in Pending'
<1>2. ASSUME NEW c \in InUse, Buy(c) \/ BuyByActivity(c)
      PROVE  \/ bought'[g] = bought[g] /\ today'[g] = today[g]
             \/ Buys(c)
  <2> DEFINE at == calls[c].req.at
             n == calls[c].req.n
             frame == IF Frame[at] THEN {"frame"} ELSE {}
             marks == IF Activity[at]
                        THEN (IF Logged(at) THEN {"activity"} ELSE {})
                        ELSE (IF Limit[at] > 0 THEN {"num"} ELSE {})
  <2>1. /\ Runs(c, "buy") /\ Purchase(c, marks)
    BY <1>2 DEF Buy, BuyByActivity
  <2>2. /\ bought' = [bought EXCEPT ![at] = bought[at] + n]
        /\ today' = [today EXCEPT ![at] = today[at] + n]
        /\ queue' = queue \cup {Wr(c, kind, {}, NoSign) : kind \in marks \cup frame}
        /\ db' = db /\ day' = day
    BY <2>1 DEF Purchase, Done
  <2>3. at \in Goods /\ n \in Nat
    BY <2>1, AskedType DEF Runs, BaseInv
  <2>4. ASSUME at # g PROVE bought'[g] = bought[g] /\ today'[g] = today[g]
    <3> HIDE DEF at, n
    <3> QED BY <1>0, <2>2, <2>3, <2>4
  <2>5. ASSUME at = g PROVE bought'[g] = bought[g] + n /\ today'[g] = today[g] + n
    <3> HIDE DEF at, n
    <3> QED BY <1>0, <2>2, <2>3, <2>5
  <2>6. \A kind \in marks \cup frame : Wr(c, kind, {}, NoSign) \in Pending'
    <3> HIDE DEF marks, frame
    <3> QED BY <2>2 DEF Pending
  <2>7. /\ Frame[at] => "frame" \in marks \cup frame
        /\ Once(at) => "activity" \in marks \cup frame
        /\ ~Activity[at] /\ Limit[at] > 0 => "num" \in marks \cup frame
    BY DEF Once
  <2>8. CASE at # g
    BY <2>4, <2>8
  <2>9. CASE at = g
    <3> HIDE DEF marks, frame
    <3> QED BY <2>1, <2>2, <2>5, <2>6, <2>7, <2>9
  <2> QED BY <2>8, <2>9
<1>3. NextDay => today'[g] = 0 /\ bought' = bought
  BY DEF NextDay
<1>4. CASE \E c \in InUse : Buy(c) \/ BuyByActivity(c)
  BY <1>1, <1>2, <1>4
<1>5. CASE ~(\E c \in InUse : Buy(c) \/ BuyByActivity(c))
  <2>1. bought' = bought /\ (today' = today \/ NextDay)
    BY <1>5, Moves
  <2> QED BY <1>1, <1>3, <2>1
<1> QED BY <1>4, <1>5

(* A purchase that is carried out was judged on all of its SELECTs. *)
LEMMA BuyAllowed ==
  ASSUME BaseInv, BuyInv, NEW c \in InUse, Runs(c, "buy"), NEW g \in Goods \ raced,
         calls[c].req.at = g
  PROVE  /\ Limit[g] > 0 => calls[c].seen /\ NumToday(g) + calls[c].req.n <= Limit[g]
         /\ Frame[g] => calls[c].seen /\ g \notin db.frames
         /\ Activity[g] => calls[c].seen /\ g \notin db.acts
<1> DEFINE r == calls[c].req
           todo == calls[c].todo
           steps == Steps(r)
<1>1. /\ r.op = "buy" /\ calls[c].st = "ready" /\ todo = <<>> /\ r \in Requests
  BY AskedType DEF Runs, BaseInv
<1>2. steps \in Seq(StepNames) /\ Len(steps) \in Nat /\ Len(todo) = 0
  BY <1>1, StepsType
<1>3. ~calls[c].seen => Len(steps) = 0
  BY <1>1, <1>2 DEF BaseInv, CallsInv, CallFits
<1>4. \A i \in DOMAIN steps : calls[c].seen /\ Allows(g, r.n, steps[i])
  <2>1. DOMAIN steps = 1 .. Len(steps)
    BY <1>2
  <2>2. ~calls[c].seen => DOMAIN steps = {}
    BY <1>2, <1>3, <2>1
  <2>3. Judged(c) = Len(steps) - Len(todo) - 0
    BY <1>1 DEF Judged
  <2>4. Judged(c) = Len(steps)
    <3> HIDE DEF steps, todo
    <3> QED BY <1>2, <2>3
  <2>5. calls[c].seen => Buying(c, g)
    BY <1>1 DEF Buying
  <2>6. calls[c].seen => \A i \in 1 .. Judged(c) : Allows(g, r.n, steps[i])
    BY <2>5 DEF BuyInv, BuyCalls
  <2> HIDE DEF steps, r
  <2> QED BY <2>1, <2>2, <2>4, <2>6
<1>5. /\ Limit[g] > 0 => \E i \in DOMAIN steps : steps[i] = "limit"
      /\ Activity[g] => \E i \in DOMAIN steps : steps[i] = "activity"
      /\ Frame[g] => \E i \in DOMAIN steps : steps[i] = "frame"
  BY <1>1, BuySteps
<1> HIDE DEF steps
<1> QED BY <1>4, <1>5 DEF Allows

LEMMA BuyGivenStep ==
  ASSUME BaseInv, Alone, BuyInv, [Next]_vars
  PROVE  BuyGiven'
<1> SUFFICES ASSUME NEW g \in Goods, Settled(g)'
             PROVE  (/\ Limit[g] > 0 =>
                          /\ today[g] <= Limit[g]
                          /\ \/ today[g] <= NumToday(g)
                             \/ \E w \in Pending : /\ w.kind = "num" /\ calls[w.call].req.at = g
                                                   /\ today[g] <= NumToday(g) + calls[w.call].req.n
                     /\ Frame[g] \/ Once(g) => bought[g] <= 1
                     /\ Frame[g] /\ bought[g] > 0 => g \in db.frames \/ BuyMarked(g, "frame")
                     /\ Once(g) /\ bought[g] > 0 => g \in db.acts \/ BuyMarked(g, "activity"))'
  BY DEF BuyGiven
<1> DEFINE Noted(w, kind) == w.kind = kind /\ calls[w.call].req.at = g
<1>0. Settled(g) /\ g \notin raced /\ g \notin open' /\ Limit[g] \in Nat
  BY Moves, RewardsAssumption DEF Settled
<1>1. /\ NumToday(g) \in Nat /\ NumToday(g)' \in Nat
      /\ bought[g] \in Nat /\ today[g] \in Nat /\ bought'[g] \in Nat /\ today'[g] \in Nat
  BY GoodsMoves, BoughtMoves DEF BuyInv
<1>2. /\ Limit[g] > 0 =>
           /\ today[g] <= Limit[g]
           /\ \/ today[g] <= NumToday(g)
              \/ \E w \in Pending : Noted(w, "num") /\ today[g] <= NumToday(g) + calls[w.call].req.n
      /\ Frame[g] \/ Once(g) => bought[g] <= 1
      /\ Frame[g] /\ bought[g] > 0 => g \in db.frames \/ BuyMarked(g, "frame")
      /\ Once(g) /\ bought[g] > 0 => g \in db.acts \/ BuyMarked(g, "activity")
  BY <1>0 DEF BuyInv, BuyGiven
<1>3. ASSUME NEW w \in Pending, NEW kind \in {"num", "frame", "activity"}, Noted(w, kind)
      PROVE  /\ g \in Targets(calls[w.call].req) /\ calls[w.call].req.n \in Nat
             /\ w.call \in InUse /\ calls'[w.call].req = calls[w.call].req
             /\ \/ w \in Pending'
                \/ /\ NumToday(g)' = NumToday(g) + IF kind = "num" THEN calls[w.call].req.n ELSE 0
                   /\ kind = "frame" => g \in db'.frames
                   /\ kind = "activity" => g \in db'.acts
  <2>1. WriteFits(w)
    BY DEF BaseInv, WritesInv
  <2>2. w.call \in InUse /\ calls[w.call].req.op = "buy"
    BY <1>3, <2>1 DEF WriteFits, PutsFits
  <2>3. g \in Targets(calls[w.call].req) /\ calls[w.call].req.n \in Nat
    BY <1>3, <2>2, AskedType DEF Targets, BaseInv
  <2>4. calls'[w.call].req = calls[w.call].req
    BY <2>2, CallMoves DEF BaseInv
  <2>5. w \in Pending' \/ (w \in batch /\ ExecWrite(w))
    BY <1>0, <2>3, WriteGoes
  <2>6. ASSUME w \in batch, ExecWrite(w)
        PROVE  /\ NumToday(g)' = NumToday(g) + IF kind = "num" THEN calls[w.call].req.n ELSE 0
               /\ kind = "frame" => g \in db'.frames
               /\ kind = "activity" => g \in db'.acts
    BY <1>3, <2>6, GoodsExec DEF BuyInv
  <2> QED BY <2>2, <2>3, <2>4, <2>5, <2>6
<1>4. /\ g \in db.frames => g \in db'.frames
      /\ g \in db.acts => g \in db'.acts
  BY GoodsMoves DEF BuyInv
<1>5. CASE bought'[g] = bought[g] /\ (today'[g] = today[g] \/ (NextDay /\ today'[g] = 0))
  <2>1. /\ Frame[g] /\ bought'[g] > 0 => g \in db'.frames \/ BuyMarked(g, "frame")'
        /\ Once(g) /\ bought'[g] > 0 => g \in db'.acts \/ BuyMarked(g, "activity")'
    BY <1>2, <1>3, <1>4, <1>5 DEF BuyMarked
  <2>2. ASSUME Limit[g] > 0
        PROVE  /\ today'[g] <= Limit[g]
               /\ \/ today'[g] <= NumToday(g)'
                  \/ \E w \in Pending' : /\ w.kind = "num" /\ calls'[w.call].req.at = g
                                         /\ today'[g] <= NumToday(g)' + calls'[w.call].req.n
    <3>1. today'[g] <= Limit[g]
      BY <1>0, <1>1, <1>2, <1>5, <2>2
    <3>2. CASE today'[g] = 0
      BY <1>1, <3>1, <3>2
    <3>3. CASE today'[g] = today[g] /\ today[g] > 0
      <4>1. NumToday(g)' >= NumToday(g) \/ (NextDay /\ today'[g] = 0)
        <5>1. NextDay => today'[g] = 0
          BY DEF NextDay
        <5>2. ASSUME NEW w \in batch, ExecWrite(w), g \in Targets(calls[w.call].req),
                     NumToday(g)' = NumToday(g) + IF w.kind = "num" THEN calls[w.call].req.n ELSE 0
              PROVE  NumToday(g)' >= NumToday(g)
          <6>1. calls[w.call].req.n \in Nat
            <7>1. w.call \in InUse
              BY DEF BaseInv, WritesInv, WriteFits, Pending
            <7> QED BY <7>1, AskedType DEF BaseInv
          <6> QED BY <1>1, <5>2, <6>1
        <5> QED BY <1>1, <5>1, <5>2, GoodsMoves DEF BuyInv
      <4>2. NumToday(g)' >= NumToday(g)
        BY <3>3, <4>1
      <4>3. CASE today[g] <= NumToday(g)
        BY <1>1, <3>1, <3>3, <4>2, <4>3
      <4>4. ASSUME NEW w \in Pending, Noted(w, "num"), today[g] <= NumToday(g) + calls[w.call].req.n
            PROVE  \/ today'[g] <= NumToday(g)'
                   \/ \E v \in Pending' : /\ v.kind = "num" /\ calls'[v.call].req.at = g
                                          /\ today'[g] <= NumToday(g)' + calls'[v.call].req.n
        <5>1. /\ calls[w.call].req.n \in Nat /\ calls'[w.call].req = calls[w.call].req
              /\ w \in Pending' \/ NumToday(g)' = NumToday(g) + calls[w.call].req.n
          BY <1>3, <4>4
        <5>2. CASE w \in Pending'
          <6>1. today'[g] <= NumToday(g)' + calls'[w.call].req.n
            BY <1>1, <3>3, <4>2, <4>4, <5>1
          <6> QED BY <4>4, <5>1, <5>2, <6>1
        <5> QED BY <3>3, <4>4, <5>1, <5>2
      <4> QED BY <1>2, <2>2, <3>1, <4>3, <4>4
    <3> QED BY <1>1, <1>5, <3>2, <3>3
  <2> QED BY <1>2, <1>5, <2>1, <2>2
<1>6. ASSUME NEW c \in InUse, Runs(c, "buy"), calls[c].req.at = g, db' = db, day' = day,
             bought'[g] = bought[g] + calls[c].req.n, today'[g] = today[g] + calls[c].req.n,
             Frame[g] => Wr(c, "frame", {}, NoSign) \in Pending',
             Once(g) => Wr(c, "activity", {}, NoSign) \in Pending',
             ~Activity[g] /\ Limit[g] > 0 => Wr(c, "num", {}, NoSign) \in Pending'
      PROVE  /\ Limit[g] > 0 =>
                  /\ today'[g] <= Limit[g]
                  /\ \E w \in Pending' : /\ w.kind = "num" /\ calls'[w.call].req.at = g
                                         /\ today'[g] <= NumToday(g)' + calls'[w.call].req.n
             /\ Frame[g] \/ Once(g) => bought'[g] <= 1
             /\ Frame[g] => BuyMarked(g, "frame")'
             /\ Once(g) => BuyMarked(g, "activity")'
  <2> DEFINE n == calls[c].req.n
  <2>1. /\ n \in Nat /\ calls[c].req \in Requests /\ calls[c].req.op = "buy"
        /\ calls[c].st = "ready" /\ g \in Targets(calls[c].req)
        /\ calls'[c].req = calls[c].req
    BY <1>6, AskedType, CallMoves DEF Runs, Targets, BaseInv
  <2>2. /\ Limit[g] > 0 => calls[c].seen /\ NumToday(g) + n <= Limit[g]
        /\ Frame[g] => calls[c].seen /\ g \notin db.frames
        /\ Activity[g] => calls[c].seen /\ g \notin db.acts
    BY <1>0, <1>6, BuyAllowed
  <2>3. ASSUME calls[c].seen, NEW w \in Pending, NEW kind \in {"num", "frame", "activity"},
               Noted(w, kind)
        PROVE  FALSE
    BY <1>0, <1>3, <2>1, <2>3, NoOtherWrite
  <2>4. NumToday(g)' = NumToday(g)
    BY <1>6 DEF NumToday
  <2>5. /\ Frame[g] => BuyMarked(g, "frame")'
        /\ Once(g) => BuyMarked(g, "activity")'
    BY <1>6, <2>1, WrFields DEF BuyMarked
  <2>6. Frame[g] \/ Once(g) => bought'[g] <= 1
    <3>1. Frame[g] \/ Once(g) => n = 1
      BY <1>6, <2>1, RequestFacts DEF About, Once
    <3>2. Frame[g] => bought[g] = 0
      BY <1>1, <1>2, <2>2, <2>3 DEF BuyMarked
    <3>3. Once(g) => bought[g] = 0
      BY <1>1, <1>2, <2>2, <2>3 DEF BuyMarked, Once
    <3> QED BY <1>6, <3>1, <3>2, <3>3
  <2>7. ASSUME Limit[g] > 0
        PROVE  /\ today'[g] <= Limit[g]
               /\ \E w \in Pending' : /\ w.kind = "num" /\ calls'[w.call].req.at = g
                                      /\ today'[g] <= NumToday(g)' + calls'[w.call].req.n
    <3>1. today[g] <= NumToday(g)
      BY <1>2, <2>2, <2>3, <2>7
    <3>2. today'[g] <= NumToday(g) + n /\ NumToday(g) + n <= Limit[g]
      BY <1>1, <1>6, <2>1, <2>2, <2>7, <3>1
    <3>3. today'[g] <= Limit[g]
      BY <1>0, <1>1, <2>1, <3>2
    <3>4. ~Activity[g]
      BY <1>0, <2>7, RewardsAssumption
    <3>5. Wr(c, "num", {}, NoSign) \in Pending'
      BY <1>6, <2>7, <3>4
    <3> QED BY <1>6, <2>1, <2>4, <3>2, <3>3, <3>5, WrFields
  <2> QED BY <2>5, <2>6, <2>7
<1>7. CASE \E c \in InUse :
             /\ Runs(c, "buy") /\ calls[c].req.at = g /\ db' = db /\ day' = day
             /\ bought'[g] = bought[g] + calls[c].req.n
             /\ today'[g] = today[g] + calls[c].req.n
             /\ Frame[g] => Wr(c, "frame", {}, NoSign) \in Pending'
             /\ Once(g) => Wr(c, "activity", {}, NoSign) \in Pending'
             /\ ~Activity[g] /\ Limit[g] > 0 => Wr(c, "num", {}, NoSign) \in Pending'
  BY <1>6, <1>7
<1> QED BY <1>5, <1>7, BoughtMoves

LEMMA BuyInit ==
  ASSUME Init
  PROVE  BuyInv
<1>1. InUse = {} /\ day \in Nat
  BY RewardsAssumption DEF Init, InUse
<1>2. \A g \in Goods : db.numDay[g] = 0 /\ today[g] = 0 /\ bought[g] = 0 /\ NumToday(g) = 0
  BY DEF Init, NumToday
<1>3. BuyCalls /\ BuyRows
  BY <1>1, <1>2 DEF BuyCalls, BuyRows
<1>4. BuyGiven
  BY <1>2, RewardsAssumption DEF BuyGiven
<1> QED BY <1>3, <1>4 DEF BuyInv

LEMMA BuyStep ==
  ASSUME BaseInv, Alone, BuyInv, [Next]_vars
  PROVE  BuyInv'
<1>1. BuyRows'
  BY GoodsMoves DEF BuyInv, BuyRows
<1> QED BY <1>1, BuyCallsStep, BuyGivenStep DEF BuyInv

LEMMA LimitFacts ==
  ASSUME BuyInv
  PROVE  LimitKept
BY DEF BuyInv, BuyGiven, LimitKept, Once

-----------------------------------------------------------------------------
(* What purchases cost *)

(* A list's sums are those of a part and of the rest. *)
LEMMA AmountSplit ==
  ASSUME NEW list \in Lists, NEW js \in SUBSET (DOMAIN list), NEW ks \in SUBSET js, NEW cur
  PROVE  Amount(list, js, cur) = Amount(list, ks, cur) + Amount(list, js \ ks, cur)
<1> DEFINE num(j) == IF list[j].cur = cur THEN list[j].num ELSE 0
           f == [j \in js |-> num(j)]
           rest == js \ ks
           d == [j \in ks |-> num(j)]
           e == [j \in rest |-> num(j)]
<1>1. IsFiniteSet(js) /\ IsFiniteSet(ks) /\ IsFiniteSet(rest)
  BY AmountType, FS_Subset
<1>2. \A j \in js : f[j] \in Int
  <2>1. \A j \in DOMAIN list : list[j] \in [cur : Currencies, num : Nat]
    BY ElementOf DEF Lists
  <2>2. \A j \in js : list[j].num \in Nat
    BY <2>1
  <2> QED BY <2>2
<1>3. /\ \A j \in ks : d[j] = f[j] /\ d[j] \in Int
      /\ \A j \in rest : e[j] = f[j] /\ e[j] \in Int
  BY <1>2
<1>4. SumOver(d, ks) = SumOver(f, ks)
  <2> HIDE DEF d, f
  <2> QED BY <1>1, <1>3, SumSame
<1>5. SumOver(e, rest) = SumOver(f, rest)
  <2> HIDE DEF e, f, rest
  <2> QED BY <1>1, <1>3, SumSame
<1>6. SumOver(f, js) = SumOver(f, js \cap ks) + SumOver(f, js \ ks)
  <2> HIDE DEF f
  <2> QED BY <1>1, <1>2, SumSplit
<1>7. js \cap ks = ks
  OBVIOUS
<1>8. /\ Amount(list, js, cur) = SumOver(f, js) /\ Amount(list, ks, cur) = SumOver(d, ks)
      /\ Amount(list, rest, cur) = SumOver(e, rest)
  BY DEF Amount
<1> HIDE DEF d, e, f
<1> QED BY <1>4, <1>5, <1>6, <1>7, <1>8

LEMMA Distributes ==
  ASSUME NEW n \in Nat, NEW a \in Nat, NEW b \in Nat
  PROVE  n * (a + b) = n * a + n * b
OBVIOUS

LEMMA CostSplit ==
  ASSUME NEW g \in Goods, NEW js \in SUBSET (DOMAIN Price[g]), NEW ks \in SUBSET js, NEW cur,
         NEW n \in Nat
  PROVE  n * Cost(g, js, cur) = n * Cost(g, ks, cur) + n * Cost(g, js \ ks, cur)
<1>1. Price[g] \in Lists
  BY RewardsAssumption DEF Lists
<1>2. Cost(g, js, cur) = Cost(g, ks, cur) + Cost(g, js \ ks, cur)
  BY <1>1, AmountSplit DEF Cost
<1>3. Cost(g, ks, cur) \in Nat /\ Cost(g, js \ ks, cur) \in Nat
  BY CostType
<1> QED BY <1>2, <1>3, Distributes

LEMMA YieldSplit ==
  ASSUME NEW x \in Currencies, NEW js \in SUBSET (DOMAIN Yield[x]), NEW ks \in SUBSET js,
         NEW cur, NEW n \in Nat
  PROVE  n * Amount(Yield[x], js, cur)
           = n * Amount(Yield[x], ks, cur) + n * Amount(Yield[x], js \ ks, cur)
<1>1. Yield[x] \in Lists
  BY RewardsAssumption DEF Lists
<1>2. Amount(Yield[x], js, cur) = Amount(Yield[x], ks, cur) + Amount(Yield[x], js \ ks, cur)
  BY <1>1, AmountSplit
<1>3. Amount(Yield[x], ks, cur) \in Nat /\ Amount(Yield[x], js \ ks, cur) \in Nat
  BY YieldType
<1> QED BY <1>2, <1>3, Distributes

(* What the units b of the goods cost, and what the units u were turned    *)
(* into, in one currency.                                                  *)
Sold(b, cur) == SumOver([g \in Goods |-> b[g] * Cost(g, DOMAIN Price[g], cur)], Goods)
Turned(u, cur) ==
  SumOver([x \in Currencies |-> u[x] * Amount(Yield[x], DOMAIN Yield[x], cur)], Currencies)

LEMMA SoldType ==
  ASSUME NEW b \in [Goods -> Nat], NEW cur
  PROVE  Sold(b, cur) \in Int
<1> DEFINE f == [g \in Goods |-> b[g] * Cost(g, DOMAIN Price[g], cur)]
<1>1. \A g \in Goods : f[g] \in Int
  <2> SUFFICES ASSUME NEW g \in Goods PROVE b[g] * Cost(g, DOMAIN Price[g], cur) \in Int
    OBVIOUS
  <2> QED BY CostType
<1> HIDE DEF f
<1>2. SumOver(f, Goods) \in Int
  BY <1>1, RewardsAssumption, SumType
<1> QED BY <1>2 DEF Sold, f

LEMMA SoldMore ==
  ASSUME NEW b \in [Goods -> Nat], NEW z \in Goods, NEW n \in Nat, NEW cur
  PROVE  Sold([b EXCEPT ![z] = b[z] + n], cur)
           = Sold(b, cur) + n * Cost(z, DOMAIN Price[z], cur)
<1> DEFINE c == [b EXCEPT ![z] = b[z] + n]
           f == [g \in Goods |-> b[g] * Cost(g, DOMAIN Price[g], cur)]
           e == [g \in Goods |-> c[g] * Cost(g, DOMAIN Price[g], cur)]
<1>1. c \in [Goods -> Nat] /\ c[z] = b[z] + n /\ \A g \in Goods \ {z} : c[g] = b[g]
  OBVIOUS
<1> HIDE DEF c
<1>2. \A g \in Goods : f[g] \in Int /\ e[g] \in Int
  <2> SUFFICES ASSUME NEW g \in Goods
               PROVE  /\ b[g] * Cost(g, DOMAIN Price[g], cur) \in Int
                      /\ c[g] * Cost(g, DOMAIN Price[g], cur) \in Int
    OBVIOUS
  <2>1. b[g] \in Nat /\ c[g] \in Nat
    BY <1>1
  <2> QED BY <2>1, CostType
<1>3. \A g \in Goods \ {z} : e[g] = f[g]
  BY <1>1
<1>4. e[z] = f[z] + n * Cost(z, DOMAIN Price[z], cur)
  <2> DEFINE p == Cost(z, DOMAIN Price[z], cur)
  <2>1. p \in Nat /\ b[z] \in Nat
    BY CostType
  <2>2. e[z] = (b[z] + n) * p /\ f[z] = b[z] * p
    BY <1>1
  <2> HIDE DEF p, e, f
  <2>3. (b[z] + n) * p = b[z] * p + n * p
    BY <2>1
  <2> QED BY <2>2, <2>3 DEF p
<1>5. n * Cost(z, DOMAIN Price[z], cur) \in Nat
  BY CostType
<1> HIDE DEF e, f
<1>6. SumOver(e, Goods) = SumOver(f, Goods) + (e[z] - f[z])
  <2>1. IsFiniteSet(Goods)
    BY RewardsAssumption
  <2> QED BY <1>2, <1>3, <2>1, SumChange
<1>7. SumOver(e, Goods) = SumOver(f, Goods) + n * Cost(z, DOMAIN Price[z], cur)
  BY <1>2, <1>4, <1>5, <1>6
<1> QED BY <1>7 DEF Sold, c, e, f

LEMMA TurnedType ==
  ASSUME NEW u \in [Currencies -> Nat], NEW cur
  PROVE  Turned(u, cur) \in Int
<1> DEFINE f == [x \in Currencies |-> u[x] * Amount(Yield[x], DOMAIN Yield[x], cur)]
<1>1. \A x \in Currencies : f[x] \in Int
  <2> SUFFICES ASSUME NEW x \in Currencies PROVE u[x] * Amount(Yield[x], DOMAIN Yield[x], cur) \in Int
    OBVIOUS
  <2> QED BY YieldType
<1> HIDE DEF f
<1>2. SumOver(f, Currencies) \in Int
  BY <1>1, RewardsAssumption, SumType
<1> QED BY <1>2 DEF Turned, f

LEMMA TurnedMore ==
  ASSUME NEW u \in [Currencies -> Nat], NEW z \in Currencies, NEW n \in Nat, NEW cur
  PROVE  Turned([u EXCEPT ![z] = u[z] + n], cur)
           = Turned(u, cur) + n * Amount(Yield[z], DOMAIN Yield[z], cur)
<1> DEFINE c == [u EXCEPT ![z] = u[z] + n]
           f == [x \in Currencies |-> u[x] * Amount(Yield[x], DOMAIN Yield[x], cur)]
           e == [x \in Currencies |-> c[x] * Amount(Yield[x], DOMAIN Yield[x], cur)]
<1>1. c \in [Currencies -> Nat] /\ c[z] = u[z] + n /\ \A x \in Currencies \ {z} : c[x] = u[x]
  OBVIOUS
<1> HIDE DEF c
<1>2. \A x \in Currencies : f[x] \in Int /\ e[x] \in Int
  <2> SUFFICES ASSUME NEW x \in Currencies
               PROVE  /\ u[x] * Amount(Yield[x], DOMAIN Yield[x], cur) \in Int
                      /\ c[x] * Amount(Yield[x], DOMAIN Yield[x], cur) \in Int
    OBVIOUS
  <2>1. u[x] \in Nat /\ c[x] \in Nat
    BY <1>1
  <2> QED BY <2>1, YieldType
<1>3. \A x \in Currencies \ {z} : e[x] = f[x]
  BY <1>1
<1>4. e[z] = f[z] + n * Amount(Yield[z], DOMAIN Yield[z], cur)
  <2> DEFINE p == Amount(Yield[z], DOMAIN Yield[z], cur)
  <2>1. p \in Nat /\ u[z] \in Nat
    BY YieldType
  <2>2. e[z] = (u[z] + n) * p /\ f[z] = u[z] * p
    BY <1>1
  <2> HIDE DEF p, e, f
  <2>3. (u[z] + n) * p = u[z] * p + n * p
    BY <2>1
  <2> QED BY <2>2, <2>3 DEF p
<1>5. n * Amount(Yield[z], DOMAIN Yield[z], cur) \in Nat
  BY YieldType
<1> HIDE DEF e, f
<1>6. SumOver(e, Currencies) = SumOver(f, Currencies) + (e[z] - f[z])
  <2>1. IsFiniteSet(Currencies)
    BY RewardsAssumption
  <2> QED BY <1>2, <1>3, <2>1, SumChange
<1>7. SumOver(e, Currencies) = SumOver(f, Currencies) + n * Amount(Yield[z], DOMAIN Yield[z], cur)
  BY <1>2, <1>4, <1>5, <1>6
<1> QED BY <1>7 DEF Turned, c, e, f

(* The balance sheet: what the player has, and where the rest of what he   *)
(* had went.  No step changes its sum.                                     *)
Sheet(cur) ==
  bal[cur] + unserved[cur] + sent[cur] + used[cur] + Sold(bought, cur) - Turned(used, cur)

LEMMA SheetTypes ==
  ASSUME BaseInv, NEW cur \in Currencies
  PROVE  /\ bal \in [Currencies -> Nat] /\ unserved \in [Currencies -> Nat]
         /\ sent \in [Currencies -> Nat] /\ used \in [Currencies -> Nat]
         /\ bought \in [Goods -> Nat]
         /\ bal[cur] \in Nat /\ unserved[cur] \in Nat /\ sent[cur] \in Nat /\ used[cur] \in Nat
         /\ Sold(bought, cur) \in Int /\ Turned(used, cur) \in Int
BY SoldType, TurnedType DEF BaseInv, PlainInv, LedgerType

LEMMA RefusedKeeps ==
  ASSUME BaseInv, NEW cur \in Currencies, NEW c \in InUse, BuyRefused(c)
  PROVE  Sheet(cur)' = Sheet(cur)
<1> DEFINE g == calls[c].req.at
           n == calls[c].req.n
<1>1. bought' = bought /\ sent' = sent /\ used' = used
  BY DEF BuyRefused
<1>2. PICK k \in Nat : \E bad \in SUBSET (1 .. k) :
        /\ g \in Goods /\ n \in Nat /\ 1 .. k \subseteq DOMAIN Price[g]
        /\ bal'[cur] = bal[cur] - n * Cost(g, 1 .. k, cur) + n * Cost(g, (1 .. k) \ bad, cur)
        /\ unserved'[cur] = unserved[cur] + n * Cost(g, bad, cur)
  BY RefusedPays DEF BaseInv
<1> DEFINE all == 1 .. k
<1>3. PICK bad \in SUBSET all :
        /\ g \in Goods /\ n \in Nat /\ all \subseteq DOMAIN Price[g]
        /\ bal'[cur] = bal[cur] - n * Cost(g, all, cur) + n * Cost(g, all \ bad, cur)
        /\ unserved'[cur] = unserved[cur] + n * Cost(g, bad, cur)
  BY <1>2
<1> HIDE DEF all, g, n
<1>4. n * Cost(g, all, cur) = n * Cost(g, bad, cur) + n * Cost(g, all \ bad, cur)
  BY <1>3, CostSplit
<1>5. n * Cost(g, bad, cur) \in Nat /\ n * Cost(g, all \ bad, cur) \in Nat
  <2>1. bad \in SUBSET (DOMAIN Price[g]) /\ all \ bad \in SUBSET (DOMAIN Price[g])
    BY <1>3
  <2> QED BY <1>3, <2>1, CostType
<1> DEFINE i == n * Cost(g, bad, cur)
           j == n * Cost(g, all \ bad, cur)
<1>6. bal'[cur] = bal[cur] - (i + j) + j /\ unserved'[cur] = unserved[cur] + i
  BY <1>3, <1>4
<1>7. i \in Nat /\ j \in Nat
  BY <1>5
<1> HIDE DEF i, j
<1> QED BY <1>1, <1>6, <1>7, SheetTypes DEF Sheet

LEMMA BoughtKeeps ==
  ASSUME BaseInv, NEW cur \in Currencies, NEW c \in InUse, Buy(c) \/ BuyByActivity(c)
  PROVE  Sheet(cur)' = Sheet(cur)
<1> DEFINE g == calls[c].req.at
           n == calls[c].req.n
           i == n * Cost(g, DOMAIN Price[g], cur)
<1>1. /\ Paid(c) /\ unserved' = unserved /\ sent' = sent /\ used' = used
      /\ bought' = [bought EXCEPT ![g] = bought[g] + n]
  BY DEF Buy, BuyByActivity, Purchase
<1>2. g \in Goods /\ n \in Nat /\ i \in Nat /\ bal'[cur] = bal[cur] - i
  BY <1>1, PaidPays DEF BaseInv
<1>3. Sold(bought', cur) = Sold(bought, cur) + i
  <2>1. bought \in [Goods -> Nat]
    BY SheetTypes
  <2> HIDE DEF g, n
  <2>2. g \in Goods /\ n \in Nat /\ bought' = [bought EXCEPT ![g] = bought[g] + n]
    BY <1>1, <1>2
  <2>3. Sold([bought EXCEPT ![g] = bought[g] + n], cur)
          = Sold(bought, cur) + n * Cost(g, DOMAIN Price[g], cur)
    BY <2>1, <2>2, SoldMore, Zenon
  <2> QED BY <2>2, <2>3, Zenon DEF i
<1> HIDE DEF i
<1> QED BY <1>1, <1>2, <1>3, SheetTypes DEF Sheet

LEMMA BrokenKeeps ==
  ASSUME BaseInv, NEW cur \in Currencies, NEW c \in InUse, BuyBroken(c)
  PROVE  Sheet(cur)' = Sheet(cur)
<1> DEFINE g == calls[c].req.at
           n == calls[c].req.n
           i == n * Cost(g, DOMAIN Price[g], cur)
<1>1. /\ Paid(c) /\ bought' = bought /\ sent' = sent /\ used' = used
      /\ unserved' = [x \in Currencies |-> unserved[x] + n * Cost(g, DOMAIN Price[g], x)]
  BY DEF BuyBroken
<1>2. i \in Nat /\ bal'[cur] = bal[cur] - i
  BY <1>1, PaidPays DEF BaseInv
<1>3. unserved'[cur] = unserved[cur] + i
  BY <1>1
<1> HIDE DEF i
<1> QED BY <1>1, <1>2, <1>3, SheetTypes DEF Sheet

LEMMA UseKeeps ==
  ASSUME BaseInv, NEW cur \in Currencies, NEW c \in InUse, Use(c)
  PROVE  Sheet(cur)' = Sheet(cur)
<1> DEFINE x == calls[c].req.at
           n == calls[c].req.n
<1>1. bought' = bought /\ sent' = sent
  BY DEF Use
<1>2. PICK k \in Nat :
        /\ x \in Currencies /\ n \in Nat /\ 1 .. k \subseteq DOMAIN Yield[x]
        /\ used' = [used EXCEPT ![x] = used[x] + n]
        /\ bal'[cur] = bal[cur] - (IF cur = x THEN n ELSE 0) + n * Amount(Yield[x], 1 .. k, cur)
        /\ unserved'[cur] = unserved[cur] + n * Amount(Yield[x], (DOMAIN Yield[x]) \ (1 .. k), cur)
  BY UsePays DEF BaseInv
<1> DEFINE all == DOMAIN Yield[x]
           part == 1 .. k
           i == n * Amount(Yield[x], part, cur)
           j == n * Amount(Yield[x], all \ part, cur)
           o == IF cur = x THEN n ELSE 0
<1>3. /\ x \in Currencies /\ n \in Nat /\ part \in SUBSET all
      /\ used' = [used EXCEPT ![x] = used[x] + n]
      /\ bal'[cur] = bal[cur] - o + i /\ unserved'[cur] = unserved[cur] + j
  BY <1>2
<1> HIDE DEF x, n, part
<1>4. n * Amount(Yield[x], all, cur) = i + j
  <2>1. all \in SUBSET (DOMAIN Yield[x])
    OBVIOUS
  <2> HIDE DEF all, i, j, o
  <2>2. n * Amount(Yield[x], all, cur)
          = n * Amount(Yield[x], part, cur) + n * Amount(Yield[x], all \ part, cur)
    BY <1>3, <2>1, YieldSplit
  <2> QED BY <2>2 DEF i, j
<1>5. i \in Nat /\ j \in Nat
  BY <1>3, YieldType
<1>6. Turned(used', cur) = Turned(used, cur) + n * Amount(Yield[x], all, cur)
  <2>1. used \in [Currencies -> Nat]
    BY SheetTypes
  <2> HIDE DEF i, j, o, part
  <2>2. used' = [used EXCEPT ![x] = used[x] + n]
    BY <1>3
  <2>3. x \in Currencies /\ n \in Nat
    BY <1>3
  <2>4. Turned([used EXCEPT ![x] = used[x] + n], cur)
          = Turned(used, cur) + n * Amount(Yield[x], DOMAIN Yield[x], cur)
    BY <2>1, <2>3, TurnedMore, ZenonT(30)
  <2> QED BY <2>2, <2>4, Zenon DEF all
<1>7. used'[cur] = used[cur] + o /\ o \in Nat
  BY <1>3, SheetTypes
<1>8. Turned(used', cur) = Turned(used, cur) + (i + j)
  BY <1>4, <1>6
<1> HIDE DEF i, j, o, all
<1> QED BY <1>1, <1>3, <1>5, <1>7, <1>8, SheetTypes DEF Sheet

LEMMA SendKeeps ==
  ASSUME BaseInv, NEW cur \in Currencies, NEW c \in InUse, Send(c)
  PROVE  Sheet(cur)' = Sheet(cur)
<1> DEFINE x == calls[c].req.at
           n == calls[c].req.n
           o == IF cur = x THEN n ELSE 0
<1>1. bought' = bought /\ used' = used
  BY DEF Send
<1>2. /\ x \in Currencies /\ n \in Nat /\ bal' = [bal EXCEPT ![x] = bal[x] - n]
      /\ \/ sent' = [sent EXCEPT ![x] = sent[x] + n] /\ unserved' = unserved
         \/ unserved' = [unserved EXCEPT ![x] = unserved[x] + n] /\ sent' = sent
  BY SendPays DEF BaseInv
<1> HIDE DEF x, n
<1>3. bal'[cur] = bal[cur] - o /\ o \in Nat
  BY <1>2, SheetTypes
<1>4. \/ sent'[cur] = sent[cur] + o /\ unserved'[cur] = unserved[cur]
      \/ unserved'[cur] = unserved[cur] + o /\ sent'[cur] = sent[cur]
  BY <1>2, SheetTypes
<1> HIDE DEF o
<1> QED BY <1>1, <1>3, <1>4, SheetTypes DEF Sheet

LEMMA SheetKept ==
  ASSUME BaseInv, [Next]_vars, NEW cur \in Currencies
  PROVE  Sheet(cur)' = Sheet(cur)
<1>1. CASE UNCHANGED <<bal, unserved, sent, used, bought>>
  BY <1>1 DEF Sheet
<1> QED BY <1>1, Moves, RefusedKeeps, BoughtKeeps, BrokenKeeps, UseKeeps, SendKeeps

SheetInv == \A cur \in Currencies : Sheet(cur) = InitBal[cur]

LEMMA SheetInit ==
  ASSUME Init
  PROVE  SheetInv
<1> SUFFICES ASSUME NEW cur \in Currencies PROVE Sheet(cur) = InitBal[cur]
  BY DEF SheetInv
<1>1. /\ bal = InitBal /\ InitBal[cur] \in Nat
      /\ unserved[cur] = 0 /\ sent[cur] = 0
      /\ bought = [g \in Goods |-> 0] /\ used = [x \in Currencies |-> 0]
  BY RewardsAssumption DEF Init
<1>2. Sold(bought, cur) = 0
  <2> DEFINE f == [g \in Goods |-> bought[g] * Cost(g, DOMAIN Price[g], cur)]
             z == [g \in Goods |-> 0]
  <2>1. \A g \in Goods : z[g] = 0 /\ f[g] = 0
    <3> SUFFICES ASSUME NEW g \in Goods PROVE bought[g] * Cost(g, DOMAIN Price[g], cur) = 0
      OBVIOUS
    <3> DEFINE p == Cost(g, DOMAIN Price[g], cur)
    <3>1. p \in Nat /\ bought[g] = 0
      BY <1>1, CostType
    <3> HIDE DEF p
    <3>2. bought[g] * p = 0
      BY <3>1
    <3> QED BY <3>2 DEF p
  <2>2. SumOver(z, Goods) = 0
    BY RewardsAssumption, SumZero
  <2> HIDE DEF f, z
  <2>3. SumOver(z, Goods) = SumOver(f, Goods)
    <3>1. IsFiniteSet(Goods)
      BY RewardsAssumption
    <3> QED BY <2>1, <3>1, SumSame
  <2> QED BY <2>2, <2>3 DEF Sold, f
<1>3. Turned(used, cur) = 0
  <2> DEFINE f == [x \in Currencies |-> used[x] * Amount(Yield[x], DOMAIN Yield[x], cur)]
             z == [x \in Currencies |-> 0]
  <2>1. \A x \in Currencies : z[x] = 0 /\ f[x] = 0
    <3> SUFFICES ASSUME NEW x \in Currencies
                 PROVE  used[x] * Amount(Yield[x], DOMAIN Yield[x], cur) = 0
      OBVIOUS
    <3> DEFINE p == Amount(Yield[x], DOMAIN Yield[x], cur)
    <3>1. p \in Nat /\ used[x] = 0
      BY <1>1, YieldType
    <3> HIDE DEF p
    <3>2. used[x] * p = 0
      BY <3>1
    <3> QED BY <3>2 DEF p
  <2>2. SumOver(z, Currencies) = 0
    BY RewardsAssumption, SumZero
  <2> HIDE DEF f, z
  <2>3. SumOver(z, Currencies) = SumOver(f, Currencies)
    <3>1. IsFiniteSet(Currencies)
      BY RewardsAssumption
    <3> QED BY <2>1, <3>1, SumSame
  <2> QED BY <2>2, <2>3 DEF Turned, f
<1>4. bal[cur] = InitBal[cur] /\ used[cur] = 0
  BY <1>1
<1> QED BY <1>1, <1>2, <1>3, <1>4 DEF Sheet

LEMMA SheetFacts ==
  ASSUME BaseInv, SheetInv
  PROVE  ChargedForGoods
<1> SUFFICES ASSUME NEW cur \in Currencies
             PROVE  InitBal[cur] - bal[cur] =
                      unserved[cur] + sent[cur] + used[cur] + Sold(bought, cur) - Turned(used, cur)
  BY Zenon DEF ChargedForGoods, Sold, Turned
<1>1. Sheet(cur) = InitBal[cur] /\ InitBal[cur] \in Nat
  BY RewardsAssumption DEF SheetInv
<1> QED BY <1>1, SheetTypes DEF Sheet

(* Purchases keep to the limits of the day, and to one head frame and one  *)
(* in an activity that notes it, for each was judged on what the tables    *)
(* still say when it is carried out; and whatever charges, refunds and     *)
(* deliveries fail, all that left the balances is accounted for.           *)
THEOREM PurchasesPaid == Spec => []PurchaseInv
<1> DEFINE Inv == BaseInv /\ Alone /\ BuyInv /\ SheetInv
<1>1. Init => Inv
  BY BaseInit, AloneInit, BuyInit, SheetInit
<1>2. Inv /\ [Next]_vars => Inv'
  <2>1. ASSUME Inv, [Next]_vars PROVE SheetInv'
    BY <2>1, SheetKept DEF SheetInv
  <2> QED BY <2>1, BaseStep, AloneStep, BuyStep
<1>3. Inv => PurchaseInv
  BY LimitFacts, SheetFacts DEF PurchaseInv
<1> HIDE DEF Inv
<1> QED BY <1>1, <1>2, <1>3, PTL DEF Spec

=============================================================================
