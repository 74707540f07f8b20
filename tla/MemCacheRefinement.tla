------------------------- MODULE MemCacheRefinement -------------------------
(***************************************************************************)
(* The cache server implements AtomicStore.  The number of a key is the    *)
(* cell of a cached row and what the database holds of another one; a      *)
(* crash leaves the database's value or one that is queued or in the       *)
(* batch.  No promise is made about the keys in drift and the rows two     *)
(* SELECTs raced for.                                                      *)
(***************************************************************************)
EXTENDS MemCache

StoreVal == [k \in Keys |-> Num(IF RowOf[k] \in cached THEN cell[k] ELSE db[k])]

StoreKept ==
  [k \in Keys |-> {Num(db[k])} \cup ({qSave[k], bSave[k]} \ {None})]

StoreLoose == {k \in Keys : k \in drift \/ RowOf[k] \in raced}

StoreMode == IF up = "running" THEN "on" ELSE IF up = "down" THEN "closed"
             ELSE "off"

StoreAsk ==
  [c \in Clients |->
     [st |-> IF call[c].st \in LoadStages \cup {"sent"} THEN "open" ELSE call[c].st,
      req |-> call[c].req, ret |-> call[c].ret, val |-> call[c].val]]

StoreBlind == {c \in Clients : call[c].st = "ready" /\ ~img[c].ok}

Store == INSTANCE AtomicStore WITH
           InitVal <- [k \in Keys |-> Num(InitDb[k])], Forced <- ForceSet,
           val <- StoreVal, kept <- StoreKept, loose <- StoreLoose,
           mode <- StoreMode, ask <- StoreAsk,
           blind <- StoreBlind

(* Seen from the game servers, the cache server with its queue, batches,   *)
(* evictions, failures and restarts is a store that executes each command  *)
(* at one instant, loses nothing at a clean stop and goes back to a stored *)
(* or pending value at a crash (mem_cache.cpp, db_delay_helper.cpp).       *)
ImplementsStore == Store!Spec
=============================================================================
