-------------------------- MODULE LuckyDialProofs --------------------------
(***************************************************************************)
(* Theorems about LuckyDial for every set of users and prizes, every stock *)
(* and fee, and any number of faults: what becomes of the fee and of the   *)
(* prizes of a request, when the lucky value deals the biggest prize, and  *)
(* that no more of a prize are handed out than there are.                  *)
(***************************************************************************)
EXTENDS LuckyDial, SumTheorems

-----------------------------------------------------------------------------
(* The inductive invariants *)

Drawing == {"read", "draw", "stock", "grant"}
Dealt == {"log", "mark", "present"}  \* the prize is handed out, or its grant failed

(* What a request in each phase has: a prize for each draw, but for those  *)
(* whose grant failed.                                                     *)
Progress(d) ==
  /\ d.phase \in Drawing \cup Dealt =>
       /\ d.times \in Times /\ Len(d.vid) < d.times
       /\ d.paid = TRUE
  /\ d.phase \in Drawing => d.kept <= Len(d.vid) /\ d.kept + d.failed >= Len(d.vid)
  /\ d.phase \in Dealt => /\ d.kept <= Len(d.vid) + 1
                           /\ d.kept + d.failed >= Len(d.vid) + 1
  /\ d.phase \in {"stock", "grant", "log", "mark", "present"} => d.prize \in Prizes
  /\ d.phase = "undo" => /\ d.index < Len(d.vid)
                         /\ d.kept <= d.index + 1 /\ d.failed >= 1
                         /\ d.times \in Times /\ d.paid = TRUE
  /\ d.phase = "done" =>
       IF d.paid THEN d.spent \/ d.failed > 1 \/ d.kept + d.failed >= d.times
       ELSE d.kept <= 1

ProgressInv == \A u \in Users : Progress(dial[u])

(* The lucky value of a row, and the one a request works with, are no more *)
(* than the draws since the biggest prize.                                 *)
Valued == {"draw", "stock", "grant", "log", "mark"}

ValueInv ==
  \A u \in Users \ astray :
    /\ row[u] # NoRow => row[u].value <= since[u]
    /\ dial[u].phase \in Valued => dial[u].value <= since[u]

(* While a request has looked at the stock and not logged its prize, there *)
(* is one left for it.                                                     *)
StockInv ==
  \A p \in Prizes \ over :
    Stock[p] # 0 =>
      /\ Sold(p) <= Stock[p]
      /\ (\E u \in Users : dial[u].phase \in {"grant", "log"} /\ dial[u].prize = p)
           => Sold(p) < Stock[p]

-----------------------------------------------------------------------------
(* Types *)

LEMMA DialInit == Init => TypeOK /\ ProgressInv /\ ValueInv
<1> SUFFICES ASSUME Init PROVE TypeOK /\ ProgressInv /\ ValueInv
  OBVIOUS
<1>1. NoDial \in Dial
  BY DEF NoDial, Dial, Phases
<1>2. Nothing \in [Prizes -> Nat]
  BY DEF Nothing
<1>3. TypeOK
  BY <1>1, <1>2, DialAssumption DEF Init, TypeOK
<1>4. Progress(NoDial)
  BY DEF Progress, NoDial, Drawing, Dealt
<1>5. ProgressInv
  BY <1>4 DEF Init, ProgressInv
<1>6. ValueInv
  BY DEF Init, ValueInv, NoDial, Valued
<1> QED BY <1>3, <1>5, <1>6

LEMMA DialFields ==
  ASSUME NEW d \in Dial
  PROVE  /\ d.kept \in Int /\ d.failed \in Nat /\ d.index \in Int /\ d.times \in Nat
         /\ d.vid \in Seq(Prizes) /\ Len(d.vid) \in Nat /\ d.value \in Nat
         /\ d.serial \in Nat /\ d.known \in BOOLEAN /\ d.paid \in BOOLEAN
         /\ d.spent \in BOOLEAN /\ d.prize \in Prizes \cup {NoPrize}
         /\ d.phase \in Phases
<1>1. Times \cup {0} \subseteq Nat
  BY DialAssumption
<1>2. d.times \in Times \cup {0} /\ d.vid \in Seq(Prizes)
  BY DEF Dial
<1>3. d.times \in Nat /\ Len(d.vid) \in Nat
  BY <1>1, <1>2
<1> QED BY <1>2, <1>3 DEF Dial

(* The answer, and a request of which a statement failed. *)
Answer(d, e) ==
  /\ e.phase = "done" /\ e.times = d.times
  /\ e.kept = d.kept /\ e.paid = d.paid /\ e.failed = d.failed /\ e.spent = d.spent

OneMore(d, e) ==
  /\ e.phase = d.phase /\ e.times = d.times /\ e.vid = d.vid /\ e.index = d.index
  /\ e.prize = d.prize /\ e.value = d.value
  /\ e.kept = d.kept /\ e.paid = d.paid /\ e.failed = d.failed + 1 /\ e.spent = d.spent

LEMMA DoneType ==
  ASSUME NEW d \in Dial
  PROVE  Done(d) \in Dial /\ Answer(d, Done(d))
<1>1. NoDial \in Dial
  BY DEF NoDial, Dial, Phases
<1>2. Answer(d, Done(d))
  BY <1>1 DEF Answer, Done, Dial
<1>3. Done(d) \in Dial
  BY <1>1 DEF Done, Dial, Phases
<1> QED BY <1>2, <1>3

LEMMA FailingType ==
  ASSUME NEW d \in Dial
  PROVE  Failing(d) \in Dial /\ OneMore(d, Failing(d))
<1>1. Failing(d) = [d EXCEPT !.failed = d.failed + 1] /\ d.failed + 1 \in Nat
  BY DEF Failing, Dial
<1>2. Failing(d) \in Dial
  BY <1>1 DEF Dial
<1>3. OneMore(d, Failing(d))
  BY <1>1 DEF OneMore, Dial
<1> QED BY <1>2, <1>3

(* One more failed statement leaves a request as far as it is, unless it   *)
(* is the second that ends it.                                             *)
LEMMA FailingProgress ==
  ASSUME NEW d \in Dial, Progress(d)
  PROVE  Progress(Failing(d))
<1>1. OneMore(d, Failing(d))
  BY FailingType
<1>2. /\ d.kept \in Int /\ d.failed \in Nat /\ d.index \in Int /\ d.times \in Nat
      /\ Len(d.vid) \in Nat
  BY DialFields
<1>3. d.phase = "done" => (IF d.paid THEN d.spent \/ d.failed > 1 \/ d.kept + d.failed >= d.times
                           ELSE d.kept <= 1)
  BY DEF Progress
<1>4. d.phase = "done" =>
        (IF d.paid THEN d.spent \/ d.failed + 1 > 1 \/ d.kept + (d.failed + 1) >= d.times
         ELSE d.kept <= 1)
  BY <1>2, <1>3
<1> QED BY <1>1, <1>2, <1>4 DEF OneMore, Progress, Drawing, Dealt

(* A draw that is done has the next one follow, or the answer. *)
LEMMA DrawnProgress ==
  ASSUME NEW d \in Dial, Progress(d), d.phase \in {"mark", "present"}
  PROVE  /\ Drawn(d) \in Dial /\ Progress(Drawn(d))
         /\ Drawn(d).phase \in {"read", "done"}
<1>1. /\ d.kept \in Int /\ d.failed \in Nat /\ d.times \in Nat
      /\ d.vid \in Seq(Prizes) /\ Len(d.vid) \in Nat
      /\ d.times \in Times /\ d.prize \in Prizes
  BY DialFields DEF Progress, Dealt
<1>2. /\ Len(d.vid) < d.times /\ d.paid = TRUE
      /\ d.kept <= Len(d.vid) + 1 /\ d.kept + d.failed >= Len(d.vid) + 1
  BY DEF Progress, Dealt
<1>3. CASE Len(d.vid) + 1 = d.times
  <2>1. Drawn(d) = Done(d)
    BY <1>3 DEF Drawn
  <2>2. Answer(d, Done(d)) /\ Done(d) \in Dial
    BY DoneType
  <2> QED BY <1>1, <1>2, <1>3, <2>1, <2>2 DEF Answer, Progress, Drawing, Dealt
<1>4. CASE Len(d.vid) + 1 # d.times
  <2> DEFINE e == [d EXCEPT !.phase = "read", !.vid = Append(@, d.prize),
                            !.prize = NoPrize]
             v == Append(d.vid, d.prize)
  <2>1. Drawn(d) = e
    BY <1>4 DEF Drawn
  <2>2. v \in Seq(Prizes) /\ Len(v) = Len(d.vid) + 1
    BY <1>1
  <2>3. /\ e \in Dial /\ e.phase = "read" /\ e.vid = v /\ e.times = d.times
        /\ e.kept = d.kept /\ e.failed = d.failed /\ e.paid = d.paid
    BY <2>2 DEF Dial, Phases
  <2> HIDE DEF e, v
  <2>4. Progress(e)
    BY <1>1, <1>2, <1>4, <2>2, <2>3 DEF Progress, Drawing, Dealt
  <2> QED BY <2>1, <2>3, <2>4
<1> QED BY <1>3, <1>4

-----------------------------------------------------------------------------
(* Every action keeps the types and the progress. *)

RequestInv == dial \in [Users -> Dial] /\ ProgressInv

TablesType ==
  /\ money \in [Users -> Nat]
  /\ {have, log} \subseteq [Users -> [Prizes -> Nat]]
  /\ row \in [Users -> Row \cup {NoRow}]
  /\ since \in [Users -> Nat]
  /\ bag \cup astray \subseteq Users /\ over \subseteq Prizes
  /\ faults \in 0 .. MaxFaults

LEMMA GoesOn ==
  ASSUME RequestInv, NEW u \in Users, NEW d \in Dial, Progress(d), Goes(u, d)
  PROVE  RequestInv'
BY DEF RequestInv, ProgressInv, Goes

(* The request a statement of user u is about. *)
LEMMA AtDial ==
  ASSUME RequestInv, NEW u \in Users
  PROVE  dial[u] \in Dial /\ Progress(dial[u])
BY DEF RequestInv, ProgressInv

LEMMA PlayStep ==
  ASSUME RequestInv, NEW u \in Users, NEW n \in Times, Play(u, n)
  PROVE  RequestInv'
<1> DEFINE d == [NoDial EXCEPT !.phase = "read", !.times = n, !.paid = TRUE]
<1>1. NoDial \in Dial /\ NoDial.vid = <<>> /\ NoDial.kept = 0 /\ NoDial.failed = 0
  BY DEF NoDial, Dial, Phases
<1>2. /\ d \in Dial /\ d.phase = "read" /\ d.times = n /\ d.paid = TRUE
      /\ d.vid = <<>> /\ d.kept = 0 /\ d.failed = 0
  BY <1>1 DEF Dial, Phases
<1>3. Goes(u, d)
  BY DEF Play
<1> HIDE DEF d
<1>4. n \in Nat \ {0}
  BY DialAssumption
<1>5. Progress(d)
  BY <1>2, <1>4 DEF Progress, Drawing, Dealt
<1> QED BY <1>2, <1>3, <1>5, GoesOn

(* A request that only goes to another phase of drawing. *)
Same(d, e) ==
  /\ e.times = d.times /\ e.vid = d.vid /\ e.kept = d.kept /\ e.paid = d.paid
  /\ e.failed = d.failed /\ e.spent = d.spent

LEMMA DrawingStep ==
  ASSUME NEW d \in Dial, Progress(d), NEW e \in Dial, Same(d, e),
         \/ d.phase \in Drawing /\ e.phase \in Drawing
         \/ d.phase \in Dealt /\ e.phase \in Dealt,
         e.phase \notin {"read", "draw"} => e.prize \in Prizes
  PROVE  Progress(e)
BY DialFields DEF Progress, Same, Drawing, Dealt

LEMMA ReadStep ==
  ASSUME RequestInv, TablesType, NEW u \in Users, Read(u)
  PROVE  RequestInv'
<1> DEFINE d == [dial[u] EXCEPT !.phase = "draw"]
           none == [d EXCEPT !.known = FALSE, !.value = 0, !.serial = 0]
           some == [d EXCEPT !.known = TRUE, !.value = row[u].value,
                             !.serial = row[u].serial]
<1>1. dial[u] \in Dial /\ Progress(dial[u]) /\ dial[u].phase = "read"
  BY AtDial DEF Read, At
<1>2. d \in Dial /\ d.phase = "draw" /\ Same(dial[u], d)
  BY <1>1 DEF Dial, Phases, Same
<1>3. none \in Dial /\ none.phase = "draw" /\ Same(dial[u], none)
  BY <1>2 DEF Dial, Same
<1>4. row[u] # NoRow => some \in Dial /\ some.phase = "draw" /\ Same(dial[u], some)
  <2> SUFFICES ASSUME row[u] # NoRow
               PROVE some \in Dial /\ some.phase = "draw" /\ Same(dial[u], some)
    OBVIOUS
  <2>1. row[u].value \in Nat /\ row[u].serial \in Nat
    BY DEF TablesType, Row
  <2> DEFINE v == row[u].value
             n == row[u].serial
  <2>2. some = [d EXCEPT !.known = TRUE, !.value = v, !.serial = n]
    OBVIOUS
  <2> HIDE DEF d, some, v, n
  <2>3. some \in Dial /\ some.phase = d.phase /\ Same(d, some)
    BY <1>2, <2>1, <2>2 DEF Dial, Same, v, n
  <2> QED BY <1>2, <2>3 DEF Same
<1>5. Goes(u, IF row[u] = NoRow THEN none ELSE some) \/ Goes(u, Failing(none))
  BY DEF Read
<1> HIDE DEF d, none, some
<1>6. Progress(none) /\ (row[u] # NoRow => Progress(some))
  BY <1>1, <1>3, <1>4, DrawingStep DEF Drawing
<1>7. Failing(none) \in Dial /\ Progress(Failing(none))
  BY <1>3, <1>6, FailingType, FailingProgress
<1> QED BY <1>3, <1>4, <1>5, <1>6, <1>7, GoesOn

LEMMA DrawTopStep ==
  ASSUME RequestInv, NEW u \in Users, DrawTop(u)
  PROVE  RequestInv'
<1> DEFINE e == [dial[u] EXCEPT !.phase = "grant", !.prize = Top]
<1>1. dial[u] \in Dial /\ Progress(dial[u]) /\ dial[u].phase = "draw" /\ Goes(u, e)
  BY AtDial DEF DrawTop, At
<1>2. e \in Dial /\ e.phase = "grant" /\ e.prize \in Prizes /\ Same(dial[u], e)
  BY <1>1, DialAssumption DEF Dial, Phases, Same
<1> HIDE DEF e
<1> QED BY <1>1, <1>2, DrawingStep, GoesOn DEF Drawing

LEMMA DrawStep ==
  ASSUME RequestInv, NEW u \in Users, NEW p \in Prizes, Draw(u, p)
  PROVE  RequestInv'
<1> DEFINE e == [dial[u] EXCEPT !.phase = IF Stock[p] = 0 THEN "grant" ELSE "stock",
                                !.prize = p]
<1>1. dial[u] \in Dial /\ Progress(dial[u]) /\ dial[u].phase = "draw" /\ Goes(u, e)
  BY AtDial DEF Draw, At
<1>2. e \in Dial /\ e.phase \in {"grant", "stock"} /\ e.prize = p /\ Same(dial[u], e)
  BY <1>1 DEF Dial, Phases, Same
<1> HIDE DEF e
<1> QED BY <1>1, <1>2, DrawingStep, GoesOn DEF Drawing

LEMMA CheckStep ==
  ASSUME RequestInv, NEW u \in Users, Check(u)
  PROVE  RequestInv'
<1> DEFINE d == dial[u]
           e == [d EXCEPT !.phase = IF InStock(d.prize) THEN "grant" ELSE "draw"]
           f == [d EXCEPT !.phase = "undo", !.index = LastDrawn(d)]
<1>1. d \in Dial /\ Progress(d) /\ d.phase = "stock"
  BY AtDial DEF Check, At
<1>2. Goes(u, e) \/ Goes(u, Failing(f))
  BY DEF Check
<1>3. d.prize \in Prizes
  BY <1>1 DEF Progress
<1>4. e \in Dial /\ e.phase \in {"grant", "draw"} /\ e.prize = d.prize /\ Same(d, e)
  BY <1>1 DEF Dial, Phases, Same
<1>5. LastDrawn(d) \in Int /\ LastDrawn(d) = Len(d.vid) - 1 /\ Len(d.vid) \in Nat
  BY <1>1, DialFields DEF LastDrawn
<1>6. /\ f \in Dial /\ f.phase = "undo" /\ f.index = Len(d.vid) - 1 /\ f.vid = d.vid
      /\ f.kept = d.kept /\ f.times = d.times /\ f.paid = d.paid /\ f.failed = d.failed
  BY <1>1, <1>5 DEF Dial, Phases
<1> HIDE DEF e, f
<1>7. Failing(f) \in Dial /\ OneMore(f, Failing(f))
  BY <1>6, FailingType
<1>8. /\ d.kept <= Len(d.vid) /\ d.times \in Times /\ d.paid = TRUE
      /\ d.kept \in Int /\ d.failed \in Nat
  BY <1>1, DialFields DEF Progress, Drawing
<1> HIDE DEF d
<1>9. Progress(Failing(f))
  BY <1>5, <1>6, <1>7, <1>8 DEF OneMore, Progress, Drawing, Dealt
<1> QED BY <1>1, <1>2, <1>3, <1>4, <1>7, <1>9, DrawingStep, GoesOn DEF Drawing

LEMMA GrantStep ==
  ASSUME RequestInv, NEW u \in Users, Grant(u)
  PROVE  RequestInv'
<1> DEFINE d == dial[u]
           e == [d EXCEPT !.phase = "log"]
           g == [e EXCEPT !.kept = @ + 1]
<1>1. d \in Dial /\ Progress(d) /\ d.phase = "grant"
  BY AtDial DEF Grant, At
<1>2. Goes(u, g) \/ Goes(u, Failing(e))
  BY DEF Grant
<1>3. /\ d.times \in Times /\ Len(d.vid) < d.times /\ d.paid = TRUE /\ d.prize \in Prizes
      /\ d.kept <= Len(d.vid) /\ d.kept + d.failed >= Len(d.vid)
      /\ d.kept \in Int /\ d.failed \in Nat /\ Len(d.vid) \in Nat
  BY <1>1, DialFields DEF Progress, Drawing
<1>4. e \in Dial /\ e.phase = "log" /\ e.prize = d.prize /\ Same(d, e)
  BY <1>1 DEF Dial, Phases, Same
<1>5. /\ g \in Dial /\ g.phase = "log" /\ g.prize = d.prize /\ g.times = d.times
      /\ g.vid = d.vid /\ g.kept = d.kept + 1 /\ g.paid = d.paid /\ g.failed = d.failed
  <2>1. g = [e EXCEPT !.kept = d.kept + 1] /\ d.kept + 1 \in Int
    BY <1>3, <1>4 DEF Same
  <2> HIDE DEF d, e, g
  <2>2. /\ g \in Dial /\ g.phase = e.phase /\ g.prize = e.prize /\ g.times = e.times
        /\ g.vid = e.vid /\ g.kept = d.kept + 1 /\ g.paid = e.paid /\ g.failed = e.failed
    BY <1>4, <2>1 DEF Dial
  <2> QED BY <1>4, <2>2 DEF Same
<1>6. Failing(e) \in Dial /\ OneMore(e, Failing(e))
  BY <1>4, FailingType
<1> HIDE DEF d, e, g
<1>7. Progress(g)
  BY <1>3, <1>5 DEF Progress, Drawing, Dealt
<1>8. Progress(Failing(e))
  BY <1>3, <1>4, <1>6 DEF OneMore, Same, Progress, Drawing, Dealt
<1> QED BY <1>2, <1>5, <1>6, <1>7, <1>8, GoesOn

LEMMA LogStep ==
  ASSUME RequestInv, NEW u \in Users, Log(u)
  PROVE  RequestInv'
<1> DEFINE e == [dial[u] EXCEPT !.phase = "mark"]
<1>1. dial[u] \in Dial /\ Progress(dial[u]) /\ dial[u].phase = "log"
  BY AtDial DEF Log, At
<1>2. Goes(u, e) \/ Goes(u, Failing(e))
  BY DEF Log
<1>3. e \in Dial /\ e.phase = "mark" /\ e.prize = dial[u].prize /\ Same(dial[u], e)
  BY <1>1 DEF Dial, Phases, Same
<1>4. dial[u].prize \in Prizes
  BY <1>1 DEF Progress
<1> HIDE DEF e
<1>5. Progress(e)
  BY <1>1, <1>3, <1>4, DrawingStep DEF Dealt
<1> QED BY <1>2, <1>3, <1>5, FailingType, FailingProgress, GoesOn

LEMMA MarkStep ==
  ASSUME RequestInv, NEW u \in Users, Mark(u)
  PROVE  RequestInv'
<1> DEFINE d == dial[u]
           e == [d EXCEPT !.phase = "present"]
           next == IF d.serial + 1 \in SerialAt THEN e ELSE Drawn(d)
<1>1. d \in Dial /\ Progress(d) /\ d.phase = "mark"
  BY AtDial DEF Mark, At
<1>2. Goes(u, next) \/ Goes(u, Failing(next))
  BY DEF Mark
<1>3. e \in Dial /\ e.phase = "present" /\ e.prize = d.prize /\ Same(d, e)
  BY <1>1 DEF Dial, Phases, Same
<1>4. d.prize \in Prizes
  BY <1>1 DEF Progress
<1> HIDE DEF e
<1>5. Progress(e)
  BY <1>1, <1>3, <1>4, DrawingStep DEF Dealt
<1>6. next \in Dial /\ Progress(next)
  BY <1>1, <1>3, <1>5, DrawnProgress
<1> HIDE DEF next
<1> QED BY <1>2, <1>6, FailingType, FailingProgress, GoesOn

LEMMA PresentStep ==
  ASSUME RequestInv, NEW u \in Users, Present(u)
  PROVE  RequestInv'
<1>1. dial[u] \in Dial /\ Progress(dial[u]) /\ dial[u].phase = "present"
  BY AtDial DEF Present, At
<1>2. Drawn(dial[u]) \in Dial /\ Progress(Drawn(dial[u]))
  BY <1>1, DrawnProgress
<1>3. Goes(u, Drawn(dial[u])) \/ Goes(u, Failing(Drawn(dial[u])))
  BY DEF Present
<1> QED BY <1>2, <1>3, FailingType, FailingProgress, GoesOn

LEMMA TakeBackStep ==
  ASSUME RequestInv, NEW u \in Users, TakeBack(u)
  PROVE  RequestInv'
<1> DEFINE d == dial[u]
           g == [d EXCEPT !.index = @ - 1, !.kept = @ - 1]
           s == [Done(d) EXCEPT !.spent = TRUE]
<1>1. d \in Dial /\ Progress(d) /\ d.phase = "undo" /\ d.index > 0
  BY AtDial DEF TakeBack, At
<1>2. Goes(u, g) \/ Goes(u, s) \/ Goes(u, Failing(Done(d)))
  BY DEF TakeBack
<1>3. /\ d.index < Len(d.vid) /\ d.kept <= d.index + 1 /\ d.failed >= 1
      /\ d.times \in Times /\ d.paid = TRUE
      /\ d.kept \in Int /\ d.index \in Int /\ d.failed \in Nat /\ Len(d.vid) \in Nat
  BY <1>1, DialFields DEF Progress
<1>4. /\ g \in Dial /\ g.phase = "undo" /\ g.index = d.index - 1 /\ g.kept = d.kept - 1
      /\ g.vid = d.vid /\ g.times = d.times /\ g.paid = d.paid /\ g.failed = d.failed
  <2> DEFINE i == d.index - 1
             k == d.kept - 1
  <2>1. i \in Int /\ k \in Int /\ g = [d EXCEPT !.index = i, !.kept = k]
    BY <1>3
  <2> HIDE DEF d, g, i, k
  <2>2. /\ g \in Dial /\ g.phase = d.phase /\ g.index = i /\ g.kept = k
        /\ g.vid = d.vid /\ g.times = d.times /\ g.paid = d.paid /\ g.failed = d.failed
    BY <1>1, <2>1 DEF Dial
  <2> QED BY <1>1, <2>2 DEF i, k
<1>5. Done(d) \in Dial /\ Answer(d, Done(d))
  BY <1>1, DoneType
<1>6. s \in Dial /\ s.phase = "done" /\ s.spent = TRUE /\ s.paid = TRUE
  BY <1>3, <1>5 DEF Dial, Answer
<1>7. Failing(Done(d)) \in Dial /\ OneMore(Done(d), Failing(Done(d)))
  BY <1>5, FailingType
<1> HIDE DEF g, s, d
<1>8. Progress(g)
  BY <1>3, <1>4 DEF Progress, Drawing, Dealt
<1>9. Progress(s)
  BY <1>6 DEF Progress, Drawing, Dealt
<1>10. Progress(Failing(Done(d)))
  BY <1>3, <1>5, <1>7 DEF Answer, OneMore, Progress, Drawing, Dealt
<1> QED BY <1>2, <1>4, <1>6, <1>7, <1>8, <1>9, <1>10, GoesOn

LEMMA RefundStep ==
  ASSUME RequestInv, NEW u \in Users, Refund(u)
  PROVE  RequestInv'
<1> DEFINE d == dial[u]
           e == Done(d)
           r == [e EXCEPT !.paid = FALSE]
<1>1. d \in Dial /\ Progress(d) /\ d.phase = "undo" /\ d.index <= 0
  BY AtDial DEF Refund, At, TakenBack
<1>2. Goes(u, r) \/ Goes(u, Failing(e))
  BY DEF Refund
<1>3. /\ d.kept <= d.index + 1 /\ d.failed >= 1 /\ d.paid = TRUE
      /\ d.kept \in Int /\ d.index \in Int /\ d.failed \in Nat
  BY <1>1, DialFields DEF Progress
<1>4. e \in Dial /\ Answer(d, e)
  BY <1>1, DoneType
<1> HIDE DEF e
<1>5. r \in Dial /\ r.phase = "done" /\ r.paid = FALSE /\ r.kept = d.kept
  BY <1>4 DEF Dial, Answer
<1>6. Failing(e) \in Dial /\ OneMore(e, Failing(e))
  BY <1>4, FailingType
<1> HIDE DEF d, r
<1>7. Progress(r)
  BY <1>1, <1>3, <1>5 DEF Progress, Drawing, Dealt
<1>8. Progress(Failing(e))
  BY <1>3, <1>4, <1>6 DEF Answer, OneMore, Progress, Drawing, Dealt
<1> QED BY <1>2, <1>4, <1>5, <1>6, <1>7, <1>8, GoesOn

LEMMA RequestStep == RequestInv /\ TablesType /\ [Next]_vars => RequestInv'
<1> SUFFICES ASSUME RequestInv, TablesType, [Next]_vars PROVE RequestInv'
  OBVIOUS
<1>1. ASSUME NEW u \in Users, NEW n \in Times, Play(u, n) PROVE RequestInv'
  BY <1>1, PlayStep
<1>2. ASSUME NEW u \in Users, Statement(u) PROVE RequestInv'
  BY <1>2, ReadStep, DrawTopStep, DrawStep, CheckStep, GrantStep, LogStep, MarkStep,
     PresentStep, TakeBackStep, RefundStep DEF Statement
<1>3. ASSUME NEW u \in Users, NEW p \in Prizes, Spend(u, p) PROVE RequestInv'
  BY <1>3 DEF Spend, RequestInv, ProgressInv
<1>4. ASSUME NEW u \in Users, Stop(u) PROVE RequestInv'
  <2>1. NoDial \in Dial /\ Progress(NoDial)
    BY DEF NoDial, Dial, Phases, Progress, Drawing, Dealt
  <2> QED BY <1>4, <2>1, GoesOn DEF Stop
<1>5. CASE UNCHANGED vars
  BY <1>5 DEF vars, RequestInv, ProgressInv
<1> QED BY <1>1, <1>2, <1>3, <1>4, <1>5 DEF Next

LEMMA Bump ==
  ASSUME NEW f \in [Users -> [Prizes -> Nat]], NEW u \in Users, NEW p \in Prizes,
         NEW n \in Nat
  PROVE  [f EXCEPT ![u][p] = n] \in [Users -> [Prizes -> Nat]]
OBVIOUS

LEMMA CellType ==
  ASSUME TablesType, NEW u \in Users, NEW p \in Prizes
  PROVE  have[u][p] \in Nat /\ log[u][p] \in Nat
BY DEF TablesType

LEMMA TablesStep == RequestInv /\ TablesType /\ [Next]_vars => TablesType'
<1> SUFFICES ASSUME RequestInv, TablesType, [Next]_vars PROVE TablesType'
  OBVIOUS
<1> USE DialAssumption DEF history, tables, purse
<1>0. /\ money \in [Users -> Nat] /\ have \in [Users -> [Prizes -> Nat]]
      /\ log \in [Users -> [Prizes -> Nat]] /\ over \subseteq Prizes
  BY DEF TablesType
<1>1. ASSUME Fault PROVE faults' \in 0 .. MaxFaults
  BY <1>1 DEF Fault, TablesType
<1>2. ASSUME NEW u \in Users, NEW n \in Times, Play(u, n) PROVE TablesType'
  <2>1. money[u] - Fee[n] \in Nat
    BY <1>2 DEF Play, TablesType
  <2> QED BY <1>2, <2>1 DEF Play, TablesType
<1>3. ASSUME NEW u \in Users, Read(u) \/ (\E p \in Prizes : Draw(u, p)) \/ Check(u)
      PROVE TablesType'
  BY <1>1, <1>3 DEF Read, Draw, Check, TablesType
<1>4. ASSUME NEW u \in Users, DrawTop(u) PROVE TablesType'
  BY <1>4 DEF DrawTop, TablesType
<1>5. ASSUME NEW u \in Users, Grant(u) PROVE TablesType'
  <2>1. dial[u] \in Dial /\ Progress(dial[u]) /\ dial[u].phase = "grant"
    BY <1>5, AtDial DEF Grant, At
  <2>2. dial[u].prize \in Prizes
    BY <2>1 DEF Progress
  <2>3. have[u][dial[u].prize] + 1 \in Nat
    BY <2>2, CellType
  <2> DEFINE d == [dial[u] EXCEPT !.phase = "log"]
             p == d.prize
  <2>7. p = dial[u].prize
    BY <2>1 DEF Dial
  <2>8. have' = [have EXCEPT ![u][p] = have[u][p] + 1] \/ have' = have
    BY <1>5 DEF Grant
  <2> HIDE DEF p
  <2>4. have' \in [Users -> [Prizes -> Nat]]
    BY <1>0, <2>2, <2>3, <2>7, <2>8, Bump
  <2>5. faults' \in 0 .. MaxFaults
    BY <1>1, <1>5 DEF Grant, TablesType
  <2> QED BY <1>5, <2>4, <2>5 DEF Grant, TablesType
<1>6. ASSUME NEW u \in Users, Log(u) PROVE TablesType'
  <2>1. dial[u] \in Dial /\ Progress(dial[u]) /\ dial[u].phase = "log"
    BY <1>6, AtDial DEF Log, At
  <2>2. dial[u].prize \in Prizes
    BY <2>1 DEF Progress
  <2>3. log[u][dial[u].prize] + 1 \in Nat
    BY <2>2, CellType
  <2> DEFINE d == [dial[u] EXCEPT !.phase = "mark"]
             p == d.prize
  <2>7. p = dial[u].prize
    BY <2>1 DEF Dial
  <2>8. /\ log' = [log EXCEPT ![u][p] = log[u][p] + 1] \/ log' = log
        /\ over' \subseteq over \cup {p}
    BY <1>6 DEF Log
  <2> HIDE DEF p
  <2>4. log' \in [Users -> [Prizes -> Nat]] /\ over' \subseteq Prizes
    <3>1. log' \in [Users -> [Prizes -> Nat]]
      BY <1>0, <2>2, <2>3, <2>7, <2>8, Bump
    <3>2. over' \subseteq Prizes
      BY <1>0, <2>2, <2>7, <2>8
    <3> QED BY <3>1, <3>2
  <2>5. faults' \in 0 .. MaxFaults
    BY <1>1, <1>6 DEF Log, TablesType
  <2> QED BY <1>6, <2>4, <2>5 DEF Log, TablesType
<1>7. ASSUME NEW u \in Users, Mark(u) PROVE TablesType'
  <2>1. dial[u].value \in Nat /\ dial[u].serial + 1 \in Nat
    BY AtDial, DialFields
  <2>2. NextValue(dial[u].value) \in Nat
    BY <2>1 DEF NextValue
  <2>3. [value |-> NextValue(dial[u].value), serial |-> dial[u].serial + 1] \in Row
    BY <2>1, <2>2 DEF Row
  <2>4. row' \in [Users -> Row \cup {NoRow}]
    BY <1>7, <2>3 DEF Mark, TablesType
  <2>5. faults' \in 0 .. MaxFaults
    BY <1>1, <1>7 DEF Mark, TablesType
  <2>6. since' \in [Users -> Nat] /\ astray' \subseteq Users
    BY <1>7 DEF Mark, TablesType
  <2> QED BY <1>7, <2>4, <2>5, <2>6 DEF Mark, TablesType
<1>8. ASSUME NEW u \in Users, Present(u) PROVE TablesType'
  BY <1>1, <1>8 DEF Present, TablesType
<1>9. ASSUME NEW u \in Users, TakeBack(u) PROVE TablesType'
  <2> DEFINE d == dial[u]
             p == d.vid[d.index + 1]
  <2>1. /\ d \in Dial /\ d.index > 0 /\ d.index < Len(d.vid) /\ d.index \in Int
        /\ d.vid \in Seq(Prizes)
    BY <1>9, AtDial, DialFields DEF TakeBack, At, Progress
  <2>2. p \in Prizes
    BY <2>1
  <2>3. have[u][p] \in Nat
    BY <2>2, CellType
  <2>4. have' \in [Users -> [Prizes -> Nat]]
    BY <1>9, <2>2, <2>3 DEF TakeBack, TablesType
  <2>5. faults' \in 0 .. MaxFaults
    BY <1>1, <1>9 DEF TakeBack, TablesType
  <2> QED BY <1>9, <2>4, <2>5 DEF TakeBack, TablesType
<1>10. ASSUME NEW u \in Users, Refund(u) PROVE TablesType'
  <2>1. dial[u].times \in Times
    BY <1>10, AtDial DEF Refund, At, Progress
  <2>2. Fee[dial[u].times] \in Nat /\ money[u] \in Nat
    BY <2>1 DEF TablesType
  <2>3. Done(dial[u]).times = dial[u].times
    BY AtDial, DoneType DEF Answer
  <2>6. \/ money' = [money EXCEPT ![u] = money[u] + Fee[dial[u].times]]
        \/ money' = money
    BY <1>10, <2>3 DEF Refund
  <2>4. money' \in [Users -> Nat]
    <3>1. money[u] + Fee[dial[u].times] \in Nat
      BY <2>2
    <3> QED BY <1>0, <2>6, <3>1
  <2>5. faults' \in 0 .. MaxFaults
    BY <1>1, <1>10 DEF Refund, TablesType
  <2> QED BY <1>10, <2>4, <2>5 DEF Refund, TablesType
<1>11. ASSUME NEW u \in Users, NEW p \in Prizes, Spend(u, p) PROVE TablesType'
  <2>1. have[u][p] - 1 \in Nat
    BY <1>11, CellType DEF Spend
  <2> QED BY <1>11, <2>1 DEF Spend, TablesType
<1>12. ASSUME NEW u \in Users, Stop(u) PROVE TablesType'
  <2>1. At(u, "log") => dial[u].prize \in Prizes
    BY AtDial DEF At, Progress
  <2>2. over' \subseteq Prizes
    BY <1>12, <2>1 DEF Stop, TablesType
  <2> QED BY <1>1, <1>12, <2>2 DEF Stop, TablesType
<1>13. CASE UNCHANGED vars
  BY <1>13 DEF vars, TablesType
<1> QED BY <1>2, <1>3, <1>4, <1>5, <1>6, <1>7, <1>8, <1>9, <1>10, <1>11, <1>12, <1>13
        DEF Next, Statement

-----------------------------------------------------------------------------
(* The lucky value: only Mark writes it, and what makes the row older than  *)
(* the request is astray.                                                  *)

LEMMA ValueStep == RequestInv /\ TablesType /\ ValueInv /\ [Next]_vars => ValueInv'
<1> SUFFICES ASSUME RequestInv, TablesType, ValueInv, [Next]_vars,
                    NEW v \in Users, v \notin astray'
             PROVE  /\ row'[v] # NoRow => row'[v].value <= since'[v]
                    /\ dial'[v].phase \in Valued => dial'[v].value <= since'[v]
  BY DEF ValueInv
<1> DEFINE Kept == /\ row'[v] # NoRow => row'[v].value <= since'[v]
                   /\ dial'[v].phase \in Valued => dial'[v].value <= since'[v]
<1> USE DEF history, tables, purse
<1>1. ASSUME UNCHANGED <<row, since>>, astray \subseteq astray', dial'[v] = dial[v]
      PROVE  Kept
  BY <1>1 DEF ValueInv
<1>2. ASSUME UNCHANGED <<row, since>>, astray \subseteq astray',
             \/ dial'[v].phase \notin Valued
             \/ dial'[v].value = dial[v].value /\ dial[v].phase \in Valued
             \/ v \notin astray => dial'[v].value <= since[v]
      PROVE  Kept
  BY <1>2 DEF ValueInv, TablesType
<1>2a. since[v] \in Nat
  BY DEF TablesType
<1>3. dial \in [Users -> Dial]
  BY DEF RequestInv
<1>4. \A u \in Users : dial[u] \in Dial /\ Progress(dial[u])
  BY AtDial
<1>5. ASSUME NEW u \in Users, NEW d, Goes(u, d), UNCHANGED <<row, since>>,
             astray \subseteq astray',
             \/ d.phase \notin Valued
             \/ d.value = dial[u].value /\ dial[u].phase \in Valued
             \/ u \notin astray => d.value <= since[u]
      PROVE  Kept
  <2>1. CASE u = v
    <3>1. dial'[v] = d
      BY <1>3, <1>5, <2>1 DEF Goes
    <3> QED BY <1>2, <1>5, <2>1, <3>1
  <2>2. CASE u # v
    <3>1. dial'[v] = dial[v]
      BY <1>3, <1>5, <2>2 DEF Goes
    <3> QED BY <1>1, <1>5, <3>1
  <2> QED BY <2>1, <2>2
<1>6. ASSUME NEW u \in Users, NEW n \in Times, Play(u, n)
      PROVE  Kept
  <2> DEFINE d == [NoDial EXCEPT !.phase = "read", !.times = n, !.paid = TRUE]
  <2>1. NoDial \in Dial
    BY DEF NoDial, Dial, Phases
  <2>2. d.phase \notin Valued
    BY <2>1 DEF Dial, Valued
  <2>3. Goes(u, d) /\ UNCHANGED <<row, since, astray>>
    BY <1>6 DEF Play
  <2> HIDE DEF d
  <2> QED BY <1>5, <2>2, <2>3
<1>7. ASSUME NEW u \in Users, Read(u) PROVE Kept
  <2> DEFINE d == [dial[u] EXCEPT !.phase = "draw"]
             none == [d EXCEPT !.known = FALSE, !.value = 0, !.serial = 0]
             some == [d EXCEPT !.known = TRUE, !.value = row[u].value,
                               !.serial = row[u].serial]
  <2>1. d \in Dial
    BY <1>4 DEF Dial, Phases
  <2>2. none \in Dial /\ none.value = 0 /\ Failing(none).value = 0
    <3>1. none \in Dial /\ none.value = 0
      BY <2>1 DEF Dial
    <3> HIDE DEF none
    <3> QED BY <3>1, FailingType DEF OneMore
  <2>3. some.value = row[u].value
    <3> HIDE DEF d
    <3> QED BY <2>1 DEF Dial
  <2>4. UNCHANGED <<row, since, astray>>
    BY <1>7 DEF Read
  <2>5. Goes(u, IF row[u] = NoRow THEN none ELSE some) \/ Goes(u, Failing(none))
    BY <1>7 DEF Read
  <2> HIDE DEF d, none, some
  <2>6. CASE Goes(u, Failing(none))
    <3>1. Failing(none).value <= since[u]
      BY <2>2 DEF TablesType
    <3> QED BY <1>5, <2>4, <2>6, <3>1
  <2>7. CASE row[u] = NoRow /\ Goes(u, none)
    <3>1. none.value <= since[u]
      BY <2>2 DEF TablesType
    <3> QED BY <1>5, <2>4, <2>7, <3>1
  <2>8. CASE row[u] # NoRow /\ Goes(u, some)
    <3>1. u \notin astray => some.value <= since[u]
      BY <2>3, <2>8 DEF ValueInv
    <3> QED BY <1>5, <2>4, <2>8, <3>1
  <2> QED BY <2>5, <2>6, <2>7, <2>8
<1>8. ASSUME NEW u \in Users, DrawTop(u) PROVE Kept
  <2> DEFINE e == [dial[u] EXCEPT !.phase = "grant", !.prize = Top]
  <2>1. e.value = dial[u].value /\ dial[u].phase \in Valued
    BY <1>4, <1>8 DEF DrawTop, At, Dial, Valued
  <2>2. Goes(u, e) /\ UNCHANGED <<row, since, astray>>
    BY <1>8 DEF DrawTop
  <2> HIDE DEF e
  <2> QED BY <1>5, <2>1, <2>2
<1>9. ASSUME NEW u \in Users, NEW p \in Prizes, Draw(u, p) PROVE Kept
  <2> DEFINE e == [dial[u] EXCEPT !.phase = IF Stock[p] = 0 THEN "grant" ELSE "stock",
                                  !.prize = p]
  <2>1. e.value = dial[u].value /\ dial[u].phase \in Valued
    BY <1>4, <1>9 DEF Draw, At, Dial, Valued
  <2>2. Goes(u, e) /\ UNCHANGED <<row, since, astray>>
    BY <1>9 DEF Draw
  <2> HIDE DEF e
  <2> QED BY <1>5, <2>1, <2>2
<1>10. ASSUME NEW u \in Users, Check(u) PROVE Kept
  <2> DEFINE d == dial[u]
             e == [d EXCEPT !.phase = IF InStock(d.prize) THEN "grant" ELSE "draw"]
             f == [d EXCEPT !.phase = "undo", !.index = LastDrawn(d)]
  <2>1. d \in Dial /\ d.phase \in Valued /\ LastDrawn(d) \in Int
    BY <1>4, <1>10, DialFields DEF Check, At, Valued, LastDrawn
  <2>2. e.value = d.value
    BY <2>1 DEF Dial
  <2>3. f \in Dial /\ f.phase = "undo"
    BY <2>1 DEF Dial, Phases
  <2>4. (Goes(u, e) \/ Goes(u, Failing(f))) /\ UNCHANGED <<row, since, astray>>
    BY <1>10 DEF Check
  <2> HIDE DEF e, f
  <2>5. Failing(f).phase \notin Valued
    BY <2>3, FailingType DEF OneMore, Valued
  <2> HIDE DEF d
  <2> QED BY <1>5, <2>1, <2>2, <2>4, <2>5 DEF d
<1>11. ASSUME NEW u \in Users, Grant(u) PROVE Kept
  <2> DEFINE e == [dial[u] EXCEPT !.phase = "log"]
             g == [e EXCEPT !.kept = @ + 1]
  <2>1. e \in Dial /\ e.value = dial[u].value /\ dial[u].phase \in Valued
    BY <1>4, <1>11 DEF Grant, At, Dial, Valued, Phases
  <2>2. (Goes(u, g) \/ Goes(u, Failing(e))) /\ UNCHANGED <<row, since, astray>>
    BY <1>11 DEF Grant
  <2> HIDE DEF e
  <2>3. g.value = e.value
    BY <2>1 DEF Dial
  <2> HIDE DEF g
  <2>4. Failing(e).value = e.value
    BY <2>1, FailingType DEF OneMore
  <2> QED BY <1>5, <2>1, <2>2, <2>3, <2>4
<1>12. ASSUME NEW u \in Users, Log(u) PROVE Kept
  <2> DEFINE e == [dial[u] EXCEPT !.phase = "mark"]
  <2>1. e \in Dial /\ e.value = dial[u].value /\ dial[u].phase \in Valued
    BY <1>4, <1>12 DEF Log, At, Dial, Valued, Phases
  <2>2. (Goes(u, e) \/ Goes(u, Failing(e))) /\ UNCHANGED <<row, since, astray>>
    BY <1>12 DEF Log
  <2> HIDE DEF e
  <2>3. Failing(e).value = e.value
    BY <2>1, FailingType DEF OneMore
  <2> QED BY <1>5, <2>1, <2>2, <2>3
<1>13. ASSUME NEW u \in Users, Mark(u) PROVE Kept
  <2> DEFINE d == dial[u]
             e == [d EXCEPT !.phase = "present"]
             next == IF d.serial + 1 \in SerialAt THEN e ELSE Drawn(d)
             new == [value |-> NextValue(d.value), serial |-> d.serial + 1]
  <2>1. d \in Dial /\ Progress(d) /\ d.phase = "mark"
    BY <1>4, <1>13 DEF Mark, At
  <2>2. next \in Dial /\ next.phase \notin Valued
    <3>1. e \in Dial /\ e.phase = "present"
      BY <2>1 DEF Dial, Phases
    <3> HIDE DEF e, d
    <3> QED BY <2>1, <3>1, DrawnProgress DEF Valued
  <2>3. Failing(next).phase \notin Valued
    <3> HIDE DEF next
    <3> QED BY <2>2, FailingType DEF OneMore
  <2>4. /\ Goes(u, next) \/ Goes(u, Failing(next))
        /\ since' = [since EXCEPT ![u] = IF d.value >= MaxLucky THEN 0 ELSE since[u] + 1]
        /\ \/ row' = [row EXCEPT ![u] = new] /\ astray' = astray
           \/ row' = row /\ astray' = astray \cup {u}
    BY <1>13 DEF Mark
  <2>5. d.value \in Nat /\ MaxLucky \in Nat \ {0}
    BY <2>1, DialFields, DialAssumption
  <2>6. CASE u = v
    <3>1. /\ row' = [row EXCEPT ![u] = new] /\ v \notin astray
          /\ row'[v] = new /\ new.value = NextValue(d.value)
      BY <2>4, <2>6 DEF TablesType
    <3>2. d.value <= since[v]
      BY <2>1, <2>6, <3>1 DEF ValueInv, Valued
    <3>3. since'[v] = IF d.value >= MaxLucky THEN 0 ELSE since[v] + 1
      BY <2>4, <2>6 DEF TablesType
    <3>4. NextValue(d.value) <= since'[v]
      <4> HIDE DEF d
      <4> QED BY <1>2a, <2>5, <3>2, <3>3 DEF NextValue
    <3>5. dial'[v].phase \notin Valued
      <4> HIDE DEF next
      <4> QED BY <1>3, <2>2, <2>3, <2>4, <2>6 DEF Goes
    <3> QED BY <3>1, <3>4, <3>5
  <2>7. CASE u # v
    <3>1. dial'[v] = dial[v] /\ since'[v] = since[v] /\ row'[v] = row[v] /\ v \notin astray
      <4> HIDE DEF next, new
      <4> QED BY <1>3, <2>4, <2>7 DEF Goes, TablesType
    <3> QED BY <3>1 DEF ValueInv
  <2> QED BY <2>6, <2>7
<1>14. ASSUME NEW u \in Users, Present(u) PROVE Kept
  <2>1. dial[u].phase = "present" /\ dial[u] \in Dial /\ Progress(dial[u])
    BY <1>4, <1>14 DEF Present, At
  <2>2. Drawn(dial[u]) \in Dial /\ Drawn(dial[u]).phase \notin Valued
    BY <2>1, DrawnProgress DEF Valued
  <2>3. Failing(Drawn(dial[u])).phase \notin Valued
    BY <2>2, FailingType DEF OneMore
  <2>4. /\ Goes(u, Drawn(dial[u])) \/ Goes(u, Failing(Drawn(dial[u])))
        /\ UNCHANGED <<row, since, astray>>
    BY <1>14 DEF Present
  <2> QED BY <1>5, <2>2, <2>3, <2>4
<1>15. ASSUME NEW u \in Users, TakeBack(u) PROVE Kept
  <2> DEFINE d == dial[u]
             g == [d EXCEPT !.index = @ - 1, !.kept = @ - 1]
             s == [Done(d) EXCEPT !.spent = TRUE]
  <2>1. d \in Dial /\ d.phase = "undo"
    BY <1>4, <1>15 DEF TakeBack, At
  <2>2. Done(d) \in Dial /\ Done(d).phase = "done"
    BY <2>1, DoneType DEF Answer
  <2>3. g.phase = "undo"
    BY <2>1 DEF Dial
  <2>4. s.phase = "done"
    BY <2>2 DEF Dial
  <2>5. Failing(Done(d)).phase = "done"
    BY <2>2, FailingType DEF OneMore
  <2>6. /\ Goes(u, g) \/ Goes(u, s) \/ Goes(u, Failing(Done(d)))
        /\ UNCHANGED <<row, since, astray>>
    BY <1>15 DEF TakeBack
  <2> HIDE DEF g, s
  <2> QED BY <1>5, <2>3, <2>4, <2>5, <2>6 DEF Valued
<1>16. ASSUME NEW u \in Users, Refund(u) PROVE Kept
  <2> DEFINE e == Done(dial[u])
             r == [e EXCEPT !.paid = FALSE]
  <2>1. e \in Dial /\ e.phase = "done"
    BY <1>4, DoneType DEF Answer
  <2>2. (Goes(u, r) \/ Goes(u, Failing(e))) /\ UNCHANGED <<row, since, astray>>
    BY <1>16 DEF Refund
  <2> HIDE DEF e
  <2>3. r.phase = "done" /\ Failing(e).phase = "done"
    BY <2>1, FailingType DEF Dial, OneMore
  <2> HIDE DEF r
  <2> QED BY <1>5, <2>2, <2>3 DEF Valued
<1>17. ASSUME NEW u \in Users, NEW p \in Prizes, Spend(u, p) PROVE Kept
  BY <1>1, <1>17 DEF Spend
<1>18. ASSUME NEW u \in Users, Stop(u) PROVE Kept
  <2>1. NoDial.phase \notin Valued
    BY DEF NoDial, Valued
  <2>2. Goes(u, NoDial) /\ UNCHANGED <<row, since>> /\ astray \subseteq astray'
    BY <1>18 DEF Stop
  <2> QED BY <1>5, <2>1, <2>2
<1>19. CASE UNCHANGED vars
  BY <1>1, <1>19 DEF vars
<1> QED BY <1>6, <1>7, <1>8, <1>9, <1>10, <1>11, <1>12, <1>13, <1>14, <1>15, <1>16,
           <1>17, <1>18, <1>19 DEF Next, Statement

-----------------------------------------------------------------------------
(* The stock *)

Due(u, p) == dial[u].phase \in {"grant", "log"} /\ dial[u].prize = p

LEMMA SoldType ==
  ASSUME TablesType, NEW p \in Prizes
  PROVE  Sold(p) \in Int
<1> DEFINE f == [u \in Users |-> log[u][p]]
<1>1. \A u \in Users : f[u] \in Int
  BY DEF TablesType
<1> HIDE DEF f
<1>2. SumOver(f, Users) \in Int
  BY <1>1, SumType, DialAssumption
<1> QED BY <1>2 DEF Sold, f

(* No prize is logged, and nobody has newly looked at the stock of p. *)
LEMMA StockSame ==
  ASSUME StockInv, log' = log, over \subseteq over', NEW p \in Prizes \ over', Stock[p] # 0,
         \A u \in Users : Due(u, p)' => Due(u, p)
  PROVE  /\ Sold(p)' <= Stock[p]
         /\ (\E u \in Users : Due(u, p)') => Sold(p)' < Stock[p]
<1>1. Sold(p)' = Sold(p)
  BY DEF Sold
<1> QED BY <1>1 DEF StockInv, Due

LEMMA SoldOneMore ==
  ASSUME TablesType, NEW u \in Users, NEW q \in Prizes, NEW p \in Prizes,
         log' = [log EXCEPT ![u][q] = log[u][q] + 1]
  PROVE  Sold(p)' = IF p = q THEN Sold(p) + 1 ELSE Sold(p)
<1> DEFINE f == [v \in Users |-> log[v][p]]
           e == [v \in Users |-> log'[v][p]]
<1>1. log \in [Users -> [Prizes -> Nat]]
  BY DEF TablesType
<1>2. /\ \A v \in Users : f[v] \in Int /\ e[v] \in Int
      /\ \A v \in Users \ {u} : e[v] = f[v]
      /\ e[u] - f[u] = IF p = q THEN 1 ELSE 0
      /\ IsFiniteSet(Users)
  BY <1>1, DialAssumption
<1>3. Sold(p) = SumOver(f, Users) /\ Sold(p)' = SumOver(e, Users)
  BY DEF Sold
<1> HIDE DEF e, f
<1>4. SumOver(e, Users) = SumOver(f, Users) + (e[u] - f[u])
  BY <1>2, SumChange
<1>5. SumOver(f, Users) \in Int
  BY <1>2, SumType
<1> QED BY <1>2, <1>3, <1>4, <1>5

LEMMA StockStep == RequestInv /\ TablesType /\ StockInv /\ [Next]_vars => StockInv'
<1> SUFFICES ASSUME RequestInv, TablesType, StockInv, [Next]_vars,
                    NEW p \in Prizes, p \notin over', Stock[p] # 0
             PROVE  /\ Sold(p)' <= Stock[p]
                    /\ (\E u \in Users : Due(u, p)') => Sold(p)' < Stock[p]
  BY DEF StockInv, Due
<1> DEFINE Enough == /\ Sold(p)' <= Stock[p]
                     /\ (\E u \in Users : Due(u, p)') => Sold(p)' < Stock[p]
<1> USE DEF history, tables, purse
<1>1. /\ dial \in [Users -> Dial] /\ \A u \in Users : dial[u] \in Dial /\ Progress(dial[u])
      /\ Sold(p) \in Int /\ Stock[p] \in Nat
  BY AtDial, SoldType, DialAssumption DEF RequestInv
<1>2. ASSUME NEW u \in Users, NEW d, Goes(u, d), log' = log, over \subseteq over',
             \/ d.phase \notin {"grant", "log"} \/ d.prize # p
             \/ Due(u, p) \/ Sold(p) < Stock[p]
      PROVE  Enough
  <2>1. \A v \in Users : dial'[v] = IF v = u THEN d ELSE dial[v]
    BY <1>1, <1>2 DEF Goes
  <2>2. CASE Sold(p) < Stock[p]
    <3>1. Sold(p)' = Sold(p)
      BY <1>2 DEF Sold
    <3> QED BY <1>1, <2>2, <3>1
  <2>3. CASE d.phase \notin {"grant", "log"} \/ d.prize # p \/ Due(u, p)
    <3>1. \A v \in Users : Due(v, p)' => Due(v, p)
      BY <2>1, <2>3 DEF Due
    <3> QED BY <1>2, <3>1, StockSame
  <2> QED BY <1>2, <2>2, <2>3
<1>3. ASSUME NEW u \in Users, NEW n \in Times, Play(u, n) PROVE Enough
  <2> DEFINE d == [NoDial EXCEPT !.phase = "read", !.times = n, !.paid = TRUE]
  <2>1. NoDial \in Dial
    BY DEF NoDial, Dial, Phases
  <2>2. d.phase \notin {"grant", "log"}
    BY <2>1 DEF Dial
  <2>3. Goes(u, d) /\ UNCHANGED <<log, over>>
    BY <1>3 DEF Play
  <2> HIDE DEF d
  <2> QED BY <1>2, <2>2, <2>3
<1>4. ASSUME NEW u \in Users, Read(u) PROVE Enough
  <2> DEFINE d == [dial[u] EXCEPT !.phase = "draw"]
             none == [d EXCEPT !.known = FALSE, !.value = 0, !.serial = 0]
             some == [d EXCEPT !.known = TRUE, !.value = row[u].value,
                               !.serial = row[u].serial]
  <2>1. d \in Dial /\ d.phase = "draw"
    BY <1>1 DEF Dial, Phases
  <2>2. none \in Dial /\ none.phase = "draw"
    BY <2>1 DEF Dial
  <2>3. some.phase = "draw"
    <3> HIDE DEF d
    <3> QED BY <2>1 DEF Dial
  <2>4. UNCHANGED <<log, over>>
    BY <1>4 DEF Read
  <2>5. Goes(u, IF row[u] = NoRow THEN none ELSE some) \/ Goes(u, Failing(none))
    BY <1>4 DEF Read
  <2> HIDE DEF d, none, some
  <2>6. Failing(none).phase = "draw"
    BY <2>2, FailingType DEF OneMore
  <2> QED BY <1>2, <2>2, <2>3, <2>4, <2>5, <2>6
<1>5. ASSUME NEW u \in Users, DrawTop(u) PROVE Enough
  <2> DEFINE e == [dial[u] EXCEPT !.phase = "grant", !.prize = Top]
  <2>1. e.prize = Top
    BY <1>1 DEF Dial
  <2>2. Goes(u, e) /\ log' = log /\ over' = over \cup {Top}
    BY <1>5 DEF DrawTop
  <2> HIDE DEF e
  <2> QED BY <1>2, <2>1, <2>2
<1>6. ASSUME NEW u \in Users, NEW q \in Prizes, Draw(u, q) PROVE Enough
  <2> DEFINE e == [dial[u] EXCEPT !.phase = IF Stock[q] = 0 THEN "grant" ELSE "stock",
                                  !.prize = q]
  <2>1. e.prize = q /\ e.phase = IF Stock[q] = 0 THEN "grant" ELSE "stock"
    BY <1>1 DEF Dial
  <2>2. Goes(u, e) /\ log' = log /\ over' = over
    BY <1>6 DEF Draw
  <2> HIDE DEF e
  <2> QED BY <1>2, <2>1, <2>2
<1>7. ASSUME NEW u \in Users, Check(u) PROVE Enough
  <2> DEFINE d == dial[u]
             e == [d EXCEPT !.phase = IF InStock(d.prize) THEN "grant" ELSE "draw"]
             f == [d EXCEPT !.phase = "undo", !.index = LastDrawn(d)]
  <2>1. d \in Dial /\ d.phase = "stock" /\ LastDrawn(d) \in Int
    BY <1>1, <1>7, DialFields DEF Check, At, LastDrawn
  <2>2. e.prize = d.prize /\ e.phase = IF InStock(d.prize) THEN "grant" ELSE "draw"
    BY <2>1 DEF Dial
  <2>3. f \in Dial /\ f.phase = "undo"
    BY <2>1 DEF Dial, Phases
  <2>4. (Goes(u, e) \/ Goes(u, Failing(f))) /\ UNCHANGED <<log, over>>
    BY <1>7 DEF Check
  <2> HIDE DEF e, f
  <2>5. Failing(f).phase = "undo"
    BY <2>3, FailingType DEF OneMore
  <2>6. e.phase = "grant" /\ e.prize = p => Sold(p) < Stock[p]
    <3> HIDE DEF d
    <3> QED BY <2>2 DEF InStock
  <2> QED BY <1>2, <2>2, <2>4, <2>5, <2>6
<1>8. ASSUME NEW u \in Users, Grant(u) PROVE Enough
  <2> DEFINE e == [dial[u] EXCEPT !.phase = "log"]
             g == [e EXCEPT !.kept = @ + 1]
  <2>1. e \in Dial /\ e.prize = dial[u].prize /\ dial[u].phase = "grant"
    BY <1>1, <1>8 DEF Grant, At, Dial, Phases
  <2>2. (Goes(u, g) \/ Goes(u, Failing(e))) /\ UNCHANGED <<log, over>>
    BY <1>8 DEF Grant
  <2> HIDE DEF e
  <2>3. g.prize = e.prize
    BY <2>1 DEF Dial
  <2> HIDE DEF g
  <2>4. Failing(e).prize = e.prize
    BY <2>1, FailingType DEF OneMore
  <2> QED BY <1>2, <2>1, <2>2, <2>3, <2>4 DEF Due
<1>9. ASSUME NEW u \in Users, Log(u) PROVE Enough
  <2> DEFINE e == [dial[u] EXCEPT !.phase = "mark"]
             q == e.prize
  <2>1. e \in Dial /\ e.phase = "mark" /\ q = dial[u].prize /\ dial[u].phase = "log"
    BY <1>1, <1>9 DEF Log, At, Dial, Phases
  <2>2. q \in Prizes
    BY <1>1, <2>1 DEF Progress
  <2>3. \/ /\ log' = [log EXCEPT ![u][q] = log[u][q] + 1]
           /\ over' = IF Looking(u, q) THEN over \cup {q} ELSE over
           /\ Goes(u, e)
        \/ Goes(u, Failing(e)) /\ over' = over \cup {q} /\ log' = log
    BY <1>9 DEF Log
  <2> HIDE DEF e, q
  <2>4. Failing(e).phase = "mark"
    BY <2>1, FailingType DEF OneMore
  <2>5. CASE Goes(u, Failing(e)) /\ over' = over \cup {q} /\ log' = log
    BY <1>2, <2>4, <2>5
  <2>6. CASE /\ log' = [log EXCEPT ![u][q] = log[u][q] + 1]
             /\ over' = IF Looking(u, q) THEN over \cup {q} ELSE over
             /\ Goes(u, e)
    <3>1. \A v \in Users : dial'[v] = IF v = u THEN e ELSE dial[v]
      BY <1>1, <2>6 DEF Goes
    <3>2. Sold(p)' = IF p = q THEN Sold(p) + 1 ELSE Sold(p)
      BY <2>2, <2>6, SoldOneMore
    <3>3. p \notin over
      BY <2>6
    <3>4. CASE p = q
      <4>1. Due(u, p) /\ Sold(p) < Stock[p]
        BY <2>1, <3>3, <3>4 DEF Due, StockInv
      <4>2. \A v \in Users \ {u} : ~Due(v, p)
        BY <2>6, <3>4 DEF Looking, Due
      <4>3. \A v \in Users : ~Due(v, p)'
        BY <2>1, <3>1, <4>2 DEF Due
      <4> QED BY <1>1, <3>2, <3>4, <4>1, <4>3
    <3>5. CASE p # q
      <4>1. \A v \in Users : Due(v, p)' => Due(v, p)
        BY <2>1, <3>1 DEF Due
      <4> QED BY <3>2, <3>3, <3>5, <4>1 DEF StockInv, Due
    <3> QED BY <3>4, <3>5
  <2> QED BY <2>3, <2>5, <2>6
<1>10. ASSUME NEW u \in Users, Mark(u) PROVE Enough
  <2> DEFINE d == dial[u]
             e == [d EXCEPT !.phase = "present"]
             next == IF d.serial + 1 \in SerialAt THEN e ELSE Drawn(d)
  <2>1. d \in Dial /\ Progress(d) /\ d.phase = "mark"
    BY <1>1, <1>10 DEF Mark, At
  <2>2. next \in Dial /\ next.phase \notin {"grant", "log"}
    <3>1. e \in Dial /\ e.phase = "present"
      BY <2>1 DEF Dial, Phases
    <3> HIDE DEF e, d
    <3> QED BY <2>1, <3>1, DrawnProgress
  <2>3. (Goes(u, next) \/ Goes(u, Failing(next))) /\ UNCHANGED <<log, over>>
    BY <1>10 DEF Mark
  <2> HIDE DEF next
  <2>4. Failing(next).phase \notin {"grant", "log"}
    BY <2>2, FailingType DEF OneMore
  <2> QED BY <1>2, <2>2, <2>3, <2>4
<1>11. ASSUME NEW u \in Users, Present(u) PROVE Enough
  <2>1. dial[u].phase = "present" /\ dial[u] \in Dial /\ Progress(dial[u])
    BY <1>1, <1>11 DEF Present, At
  <2>2. Drawn(dial[u]) \in Dial /\ Drawn(dial[u]).phase \notin {"grant", "log"}
    BY <2>1, DrawnProgress
  <2>3. Failing(Drawn(dial[u])).phase \notin {"grant", "log"}
    BY <2>2, FailingType DEF OneMore
  <2>4. /\ Goes(u, Drawn(dial[u])) \/ Goes(u, Failing(Drawn(dial[u])))
        /\ UNCHANGED <<log, over>>
    BY <1>11 DEF Present
  <2> QED BY <1>2, <2>2, <2>3, <2>4
<1>12. ASSUME NEW u \in Users, TakeBack(u) PROVE Enough
  <2> DEFINE d == dial[u]
             g == [d EXCEPT !.index = @ - 1, !.kept = @ - 1]
             s == [Done(d) EXCEPT !.spent = TRUE]
  <2>1. d \in Dial /\ d.phase = "undo"
    BY <1>1, <1>12 DEF TakeBack, At
  <2>2. Done(d) \in Dial /\ Done(d).phase = "done"
    BY <2>1, DoneType DEF Answer
  <2>3. g.phase = "undo"
    BY <2>1 DEF Dial
  <2>4. s.phase = "done"
    BY <2>2 DEF Dial
  <2>5. Failing(Done(d)).phase = "done"
    BY <2>2, FailingType DEF OneMore
  <2>6. /\ Goes(u, g) \/ Goes(u, s) \/ Goes(u, Failing(Done(d)))
        /\ UNCHANGED <<log, over>>
    BY <1>12 DEF TakeBack
  <2> HIDE DEF g, s
  <2> QED BY <1>2, <2>3, <2>4, <2>5, <2>6
<1>13. ASSUME NEW u \in Users, Refund(u) PROVE Enough
  <2> DEFINE e == Done(dial[u])
             r == [e EXCEPT !.paid = FALSE]
  <2>1. e \in Dial /\ e.phase = "done"
    BY <1>1, DoneType DEF Answer
  <2>2. (Goes(u, r) \/ Goes(u, Failing(e))) /\ UNCHANGED <<log, over>>
    BY <1>13 DEF Refund
  <2> HIDE DEF e
  <2>3. r.phase = "done" /\ Failing(e).phase = "done"
    BY <2>1, FailingType DEF Dial, OneMore
  <2> HIDE DEF r
  <2> QED BY <1>2, <2>2, <2>3
<1>14. ASSUME NEW u \in Users, NEW q \in Prizes, Spend(u, q) PROVE Enough
  <2>1. UNCHANGED <<log, over, dial>>
    BY <1>14 DEF Spend
  <2> QED BY <2>1, StockSame DEF Due
<1>15. ASSUME NEW u \in Users, Stop(u) PROVE Enough
  <2>1. NoDial.phase = "idle"
    BY DEF NoDial
  <2>2. Goes(u, NoDial) /\ log' = log /\ over \subseteq over'
    BY <1>15 DEF Stop
  <2> QED BY <1>2, <2>1, <2>2
<1>16. CASE UNCHANGED vars
  <2>1. UNCHANGED <<log, over, dial>>
    BY <1>16 DEF vars
  <2> QED BY <2>1, StockSame DEF Due
<1> QED BY <1>3, <1>4, <1>5, <1>6, <1>7, <1>8, <1>9, <1>10, <1>11, <1>12, <1>13,
           <1>14, <1>15, <1>16 DEF Next, Statement

LEMMA StockInit == Init => StockInv
<1> SUFFICES ASSUME Init, NEW p \in Prizes, Stock[p] # 0
             PROVE Sold(p) <= Stock[p] /\ ~\E u \in Users : Due(u, p)
  BY DEF StockInv, Due
<1> DEFINE f == [u \in Users |-> log[u][p]]
           e == [u \in Users |-> 0]
<1>1. \A u \in Users : f[u] = 0 /\ e[u] = 0
  BY DEF Init, Nothing
<1>2. SumOver(f, Users) = SumOver(e, Users)
  <2> HIDE DEF f, e
  <2> QED BY <1>1, SumSame, DialAssumption
<1>3. SumOver(e, Users) = 0
  BY SumZero, DialAssumption
<1>4. Sold(p) = 0
  BY <1>2, <1>3 DEF Sold
<1>5. ~\E u \in Users : Due(u, p)
  BY DEF Init, NoDial, Due
<1> QED BY <1>4, <1>5, DialAssumption

-----------------------------------------------------------------------------
(* The theorems *)

DialIInv == RequestInv /\ TablesType /\ ValueInv /\ StockInv

LEMMA DialInductive == Spec => []DialIInv
<1>1. Init => DialIInv
  BY DialInit, StockInit DEF DialIInv, RequestInv, TablesType, TypeOK
<1>2. DialIInv /\ [Next]_vars => DialIInv'
  BY RequestStep, TablesStep, ValueStep, StockStep DEF DialIInv
<1> QED BY <1>1, <1>2, PTL DEF Spec

(* Whatever statement fails and whatever the player spends meanwhile, a    *)
(* dial that is answered has its fee kept and its prizes handed out, or    *)
(* its fee returned and no prize left but the first (msg_play_lucky_dial). *)
THEOREM FeeKeptForPrizes == Spec => []DialInv
<1>1. DialIInv => DialInv
  BY DEF DialIInv, RequestInv, TablesType, ProgressInv, Progress, DialInv, TypeOK,
         FeeOrPrizes, At
<1> QED BY <1>1, DialInductive, PTL

(* Although the stock is looked at, and the prize logged some statements   *)
(* later, no more of a prize are handed out than there are, unless one of  *)
(* the gaps that `over' names was met (is_prize_out, log_lucky_dial).      *)
THEOREM StockIsKept == Spec => []StockKept
<1>1. DialIInv => StockKept
  BY DEF DialIInv, StockInv, StockKept
<1> QED BY <1>1, DialInductive, PTL

(* The lucky value deals the biggest prize only after as many draws, for   *)
(* users none of whose draws went unmarked (choose_a_prize, the statements *)
(* on user_serial_lucky).                                                  *)
THEOREM TopIsEarned == Spec => TopEarned
<1>1. DialIInv /\ [Next]_vars =>
        [\A u \in Users \ astray : DrawTop(u) => since[u] >= MaxLucky]_vars
  <2> SUFFICES ASSUME DialIInv, NEW u \in Users \ astray, DrawTop(u)
               PROVE since[u] >= MaxLucky
    OBVIOUS
  <2>1. dial[u].phase = "draw" /\ dial[u].value >= MaxLucky /\ dial[u].value \in Nat
    BY AtDial, DialFields DEF DialIInv, DrawTop, At
  <2>2. dial[u].value <= since[u] /\ since[u] \in Nat /\ MaxLucky \in Nat
    BY <2>1, DialAssumption DEF DialIInv, ValueInv, Valued, TablesType
  <2> HIDE DEF DialIInv
  <2> QED BY <2>1, <2>2
<1> QED BY <1>1, DialInductive, PTL DEF Spec, TopEarned
=============================================================================
