--------------------------- MODULE MCCacheClient ---------------------------
EXTENDS CacheClient, TLC

CONSTANTS g1, g2, a, b

(* Two players; some of the gold of one may not be transferred, the other has none yet. *)
mcGold == (a :> 3) @@ (b :> 0)
mcCap == (a :> 1) @@ (b :> 0)

mcJobs ==
  {[kind |-> "transfer", from |-> a, to |-> b, amt |-> 2],
   [kind |-> "take", from |-> a, to |-> a, amt |-> 0],
   [kind |-> "take", from |-> b, to |-> b, amt |-> 0],
   [kind |-> "give", from |-> a, to |-> a, amt |-> 1]}
=============================================================================
