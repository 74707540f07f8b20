---------------------------- MODULE MCLuckyDial ----------------------------
(***************************************************************************)
(* An instance of LuckyDial for TLC: one big prize of which there is one,  *)
(* and a small one without a limit.                                        *)
(***************************************************************************)
EXTENDS LuckyDial, TLC

OneBig == ("big" :> 1) @@ ("small" :> 0)
TwoFees == (1 :> 1) @@ (3 :> 2)
ThreeDraws == ("a" :> 2) @@ ("b" :> 1)
=============================================================================
