--------------------------- MODULE MCAccountCache ---------------------------
(***************************************************************************)
(* A pool that is required from the start and a tick array discovered      *)
(* later, two slots with two write versions in the second, two forks.  The *)
(* batches hold both accounts at one version, one account twice in both    *)
(* orders, and a conflict after a good update.                             *)
(***************************************************************************)
EXTENDS AccountCache

CONSTANTS pool, ticks, main, other

MCSlotOf == [v \in Versions |-> IF v = 1 THEN 1 ELSE 2]

Upd(k, v, f) == [key |-> k, version |-> v, fork |-> f]

MCBatches ==
    {<<Upd(pool, v, main)>> : v \in Versions}
        \cup {<<Upd(pool, v, main), Upd(ticks, v, main)>> : v \in {1, 3}}
        \cup {<<Upd(ticks, 3, main), Upd(ticks, 2, main)>>, <<Upd(ticks, 1, main), Upd(ticks, 2, main)>>}
        \cup {<<Upd(pool, 3, main), Upd(ticks, 2, other)>>, <<Upd(pool, 2, main), Upd(pool, 2, other)>>}
=============================================================================
