----------------------------- MODULE MCMemCache -----------------------------
(***************************************************************************)
(* Instances of MemCache for TLC: one account with a gold cell and an id,  *)
(* or three accounts with the id alone, and the slave row of the id        *)
(* generator.                                                              *)
(***************************************************************************)
EXTENDS MemCacheRefinement, TLC

CONSTANTS c1, c2  \* two game servers

Req(c, op, key, amt) == [cl |-> c, op |-> op, key |-> key, amt |-> amt]

(* One account and one slave row. *)
OneKeys == {"a_gold", "a_iid", "gen"}
OneRowOf == ("a_gold" :> "a") @@ ("a_iid" :> "a") @@ ("gen" :> "gen")
OneIidOf == "a" :> "a_iid"
OneDb == ("a_gold" :> 2) @@ ("a_iid" :> None) @@ ("gen" :> None)
OneNoForce == [k \in OneKeys |-> None]
OneForce == ("a_gold" :> 5) @@ ("a_iid" :> None) @@ ("gen" :> None)

(* The two game servers change the same gold: every command, sums that    *)
(* meet both blind spots of will_save, charges that are too high.          *)
MCGoldRequests ==
  {Req(c2, "ADD", "a_gold", 2),
   Req(c1, "COST", "a_gold", 1), Req(c2, "COST_ALL", "a_gold", 1),
   Req(c1, "SET", "gen", 1), Req(c2, "LOOKUP", "a_iid", 0)}

(* Two accounts, each served by one game server, and a third one that      *)
(* has id 1 already.  c1 also reads the generator's row, which brings it   *)
(* into the cache, and asks for the id 1 and for the free id 2.            *)
ThreeKeys == {"a_iid", "b_iid", "d_iid", "gen"}
ThreeRowOf == ("a_iid" :> "a") @@ ("b_iid" :> "b") @@ ("d_iid" :> "d")
              @@ ("gen" :> "gen")
ThreeIidOf == ("a" :> "a_iid") @@ ("b" :> "b_iid") @@ ("d" :> "d_iid")
ThreeDb == ("a_iid" :> 0) @@ ("b_iid" :> None) @@ ("d_iid" :> 1)
           @@ ("gen" :> None)
NoForce == [k \in ThreeKeys |-> None]

MCBindRequests ==
  {Req(c1, "GET", "gen", 0), Req(c1, "GET", "a_iid", 0),
   Req(c2, "GET", "b_iid", 0), Req(c1, "BIND", "a_iid", 0),
   Req(c1, "BIND", "a_iid", 1), Req(c1, "BIND", "a_iid", 2),
   Req(c2, "BIND", "b_iid", 0)}

=============================================================================
