------------------------- MODULE MCTradeSubmission -------------------------
(***************************************************************************)
(* Trades over no route, Default alone, one relay and Default, and two     *)
(* relays, paid flat or from every table that two edits make: every rule   *)
(* about tips and nonces decides one of them.                              *)
(***************************************************************************)
EXTENDS TradeSubmission

Route(type, min, limit) == [type |-> type, min |-> min, limit |-> limit]

\* Default has no minimum.
Default == Route("Default", 0, 0)
Jito == Route("Jito", 2, 0)
Limited == Route("Jito", 1, 2)

RouteLists ==
    {<<>>, <<Default>>, <<Jito>>, <<Jito, Default>>, <<Limited, Default>>,
     <<Route("Node1", 1, 0), Jito>>}

Flat == {[rows |-> FALSE, flat |-> t] : t \in {0, 2}}
Table == {[rows |-> TRUE, flat |-> 0]}

Trade(routes, gas, waits, simulate, blockhash) ==
    [routes : routes, gas : gas, direction : {"Buy"}, withTip : BOOLEAN, checkMinTip : BOOLEAN,
     nonce : BOOLEAN, wait : waits, simulate : simulate, blockhash : blockhash]

MCRequests ==
    Trade(RouteLists, Flat, {"first", "all", "confirmed"}, BOOLEAN, {TRUE})
        \cup Trade({<<Jito, Default>>}, Table, {"first"}, {FALSE}, {TRUE})
        \cup Trade({<<Limited>>}, Table, {"confirmed"}, {FALSE}, {TRUE})
        \cup Trade({<<>>, <<Default>>}, Flat, {"first"}, {FALSE}, {FALSE})
=============================================================================
