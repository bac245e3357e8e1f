-------------------------- MODULE MCAsyncExecutor --------------------------
(***************************************************************************)
(* Two providers per call are enough for one lane to win, fail or hang     *)
(* while the other acknowledges, and for a fallback.  p1 and p2 return the *)
(* same signature, p3 another, so a call has two receipts that are equal   *)
(* or two that must be told apart.                                         *)
(***************************************************************************)
EXTENDS AsyncExecutor, TLC

CONSTANTS p1, p2, p3, s1, s2

MCSigOf == p1 :> s1 @@ p2 :> s1 @@ p3 :> s2

\* No client, one client, and two.
MCOrders == {<<>>, <<p1>>, <<p1, p2>>, <<p1, p3>>}
=============================================================================
