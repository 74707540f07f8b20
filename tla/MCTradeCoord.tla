---------------------------- MODULE MCTradeCoord ----------------------------
(***************************************************************************)
(* Instances of TradeCoord for TLC: trades of one player in two currencies *)
(***************************************************************************)
EXTENDS TradeCoord, TLC

(* A charge of everything and a payment in of gold. *)
AllInDir == ("all" :> 1) @@ ("in" :> 2)
AllInCur == ("all" :> "gold_game") @@ ("in" :> "gold")
AllInCnt == ("all" :> 0) @@ ("in" :> 1)
AllInBal == ("gold_game" :> 3) @@ ("gold" :> 0)

(* A charge in gold. *)
GoldDir == "part" :> 0
GoldCur == "part" :> "gold"
GoldCnt == "part" :> 2
GoldBal == ("gold_game" :> 0) @@ ("gold" :> 3)
=============================================================================
