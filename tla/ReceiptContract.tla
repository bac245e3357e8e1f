-------------------------- MODULE ReceiptContract --------------------------
(***************************************************************************)
(* What every submission path of the SDK promises its caller: the answer   *)
(* names a transaction some provider acknowledged, and it never drops an   *)
(* acknowledgement it already has.  A caller that is told "failed" without *)
(* a signature may safely trade again; one that is given a signature must  *)
(* look at the chain first.                                                *)
(***************************************************************************)
CONSTANTS Receipts,   \* acknowledgements a provider can give
          NoReceipt   \* an answer without one, outside Receipts

VARIABLES acked,      \* the acknowledgements received so far
          answer      \* what the caller was told, or Open

vars == <<acked, answer>>

Open == [success |-> FALSE, receipt |-> NoReceipt, closed |-> FALSE]

Answers == [success : BOOLEAN, receipt : Receipts \cup {NoReceipt}, closed : BOOLEAN]

TypeOK == acked \subseteq Receipts /\ answer \in Answers

Init == acked = {} /\ answer = Open

\* A provider's acknowledgement reaches the executor; one that arrives after
\* the answer changes nothing the caller sees.
Acknowledge(r) ==
    /\ acked' = acked \cup {r}
    /\ UNCHANGED answer

\* A successful answer names an acknowledged transaction.
Succeed(r) ==
    /\ ~answer.closed
    /\ r \in acked
    /\ answer' = [success |-> TRUE, receipt |-> r, closed |-> TRUE]
    /\ UNCHANGED acked

\* A failure still names an acknowledged transaction, when there is one.
Fail(r) ==
    /\ ~answer.closed
    /\ r \in acked \/ (r = NoReceipt /\ acked = {})
    /\ answer' = [success |-> FALSE, receipt |-> r, closed |-> TRUE]
    /\ UNCHANGED acked

Next ==
    \/ \E r \in Receipts : Acknowledge(r) \/ Succeed(r)
    \/ \E r \in Receipts \cup {NoReceipt} : Fail(r)

Spec == Init /\ [][Next]_vars
=============================================================================
