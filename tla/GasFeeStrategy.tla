--------------------------- MODULE GasFeeStrategy ---------------------------
(***************************************************************************)
(* The strategy table of src/common/gas-fee-strategy.ts: what a trade pays *)
(* on each route, in each direction.  A route has one Normal row, or a row *)
(* with a low tip and one with a high tip, which are then two fee lanes of *)
(* one trade.  Compute units and prices are left out: of a row's values a  *)
(* trade's outcome depends on the tip.                                     *)
(***************************************************************************)
EXTENDS Naturals, FiniteSets, Functions

CONSTANTS RelayTypes,  \* the types setGlobalFeeStrategy knows, besides Default
          Tips,        \* the tips a program sets
          MaxEdits     \* bound: changes of the table

ASSUME GasAssumption == Tips \subseteq Nat /\ MaxEdits \in Nat /\ "Default" \notin RelayTypes

VARIABLES strategies,  \* the rows that are set: a tip by type, direction and kind
          edits

gasVars == <<strategies, edits>>

Directions == {"Buy", "Sell"}
Kinds == {"Normal", "LowTipHighCuPrice", "HighTipLowCuPrice"}
Key == (RelayTypes \cup {"Default"}) \X Directions \X Kinds

InitGas == strategies = [k \in {} |-> 0] /\ edits = 0

------------------------------------------------------------------------------
(* set: a Normal row drives out the pair, and either of the pair a Normal one. *)

Conflicting(kind) == IF kind = "Normal" THEN Kinds \ {"Normal"} ELSE {"Normal"}

\* The rows in `new` are set; nothing else of their routes and kinds is lost.
WithRows(table, new) ==
    LET dropped == UNION {{<<k[1], k[2], c>> : c \in Conflicting(k[3])} : k \in DOMAIN new}
        kept == DOMAIN table \ dropped
    IN  [k \in kept \cup DOMAIN new |-> IF k \in DOMAIN new THEN new[k] ELSE table[k]]

Edit(table) == edits < MaxEdits /\ edits' = edits + 1 /\ strategies' = table

SetRow == \E k \in Key, tip \in Tips : Edit(WithRows(strategies, [j \in {k} |-> tip]))

\* One Normal row for every route; the RPC node is paid no tip.
SetGlobalFeeStrategy == \E tip \in [Directions -> Tips] :
    Edit(WithRows(strategies, [k \in Key \cap (RelayTypes \cup {"Default"}) \X Directions \X {"Normal"} |->
                                  IF k[1] = "Default" THEN 0 ELSE tip[k[2]]]))

\* The Normal row of a route is replaced by the two.
SetHighLowFeeStrategies == \E types \in SUBSET RelayTypes, d \in Directions, low, high \in Tips :
    Edit(WithRows(strategies, [k \in types \X {d} \X (Kinds \ {"Normal"}) |->
                                  IF k[3] = "HighTipLowCuPrice" THEN high ELSE low]))

Delete == \E k \in DOMAIN strategies : Edit(Restrict(strategies, DOMAIN strategies \ {k}))

DeleteAll == \E t \in RelayTypes \cup {"Default"}, d \in Directions :
    Edit(Restrict(strategies, DOMAIN strategies \ ({t} \X {d} \X Kinds)))

\* updateBuyTip and updateSellTip: in every row of the direction, Default's too.
UpdateTip == \E d \in Directions, tip \in Tips :
    Edit([k \in DOMAIN strategies |-> IF k[2] = d THEN tip ELSE strategies[k]])

Clear == Edit([k \in {} |-> 0])

NextGas ==
    \/ SetRow \/ SetGlobalFeeStrategy \/ SetHighLowFeeStrategies
    \/ Delete \/ DeleteAll \/ UpdateTip \/ Clear

------------------------------------------------------------------------------
\* getStrategies, for one route: the kinds of row it has in a direction.
RowsOf(type, d) == {kind \in Kinds : <<type, d, kind>> \in DOMAIN strategies}

\* Types of the table; whatever was set, deleted and overwritten, a route has a Normal
\* row or the pair, never both.
GasTypeOK ==
    /\ DOMAIN strategies \subseteq Key /\ \A k \in DOMAIN strategies : strategies[k] \in Nat
    /\ edits \in 0..MaxEdits
    /\ \A t \in RelayTypes \cup {"Default"}, d \in Directions :
           "Normal" \in RowsOf(t, d) => RowsOf(t, d) = {"Normal"}
=============================================================================
