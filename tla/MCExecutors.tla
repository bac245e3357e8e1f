---------------------------- MODULE MCExecutors ----------------------------
(***************************************************************************)
(* The cache through two starts and two stops, then with one account and   *)
(* with contexts, and both executors with two clients and two rounds in    *)
(* front of a cache that is started and stopped once.                      *)
(***************************************************************************)
EXTENDS Executors

CONSTANTS k1, s1, s2, a, b, j1

Bound(generations, keys, ctx, executes) ==
    [generations |-> generations, keys |-> keys, context |-> ctx, executes |-> executes]
MCBounds == {Bound(4, {}, FALSE, FALSE), Bound(2, {}, TRUE, FALSE),
             Bound(2, {k1}, FALSE, FALSE), Bound(1, {k1}, TRUE, FALSE),
             Bound(1, {}, FALSE, TRUE)}
=============================================================================
