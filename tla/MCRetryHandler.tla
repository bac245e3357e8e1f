--------------------------- MODULE MCRetryHandler ---------------------------
(***************************************************************************)
(* Two calls, the second without a timeout, of up to three attempts with   *)
(* delays of one and two ticks, through a circuit that opens at two        *)
(* failures: failures of one call refuse the retries of the other.         *)
(***************************************************************************)
EXTENDS RetryHandler

CONSTANTS c1, c2
=============================================================================
