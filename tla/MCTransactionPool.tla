------------------------- MODULE MCTransactionPool -------------------------
(***************************************************************************)
(* Three transactions for two slots and a queue of one, with two attempts  *)
(* and two providers: a retry meets a full queue and full slots.           *)
(***************************************************************************)
EXTENDS TransactionPool

CONSTANTS t1, t2, t3

\* One Critical, two Low.
MCPriority == [t \in {t1, t2, t3} |-> IF t = t1 THEN 0 ELSE 3]
=============================================================================
