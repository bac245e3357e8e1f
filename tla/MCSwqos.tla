------------------------------ MODULE MCSwqos ------------------------------
EXTENDS Swqos, TLC

Made(by, type, transport) ==
    [made |-> by, type |-> type, transport |-> transport, custom |-> FALSE, key |-> TRUE,
     enabled |-> TRUE]

CONSTANTS p1, p2, c1, c2

Setup(a, b, kinds1, kinds2, n) ==
    [config |-> p1 :> a @@ p2 :> b, kinds |-> c1 :> kinds1 @@ c2 :> kinds2, changes |-> n]
All == {"direct", "cached", "failover", "all"}

\* One configuration for each way to send and to read an answer, two calls at once
\* where a connection is kept, and a client that is not enabled.
MCSetups ==
    LET By(type) == Made("factory", type, "unset")
        Http(type) == Made("factory", type, "Http")
        Class(type) == Made("class", type, "unset")
        Off(config) == [config EXCEPT !.enabled = FALSE]
        NoKey == [By("Glaive") EXCEPT !.key = FALSE]
    IN  {Setup(By("Astralane"), By("BlockRazor"), {"direct", "cached"}, {"direct"}, 0),
         Setup(By("Astralane"), By("BlockRazor"), All, {}, 2),
         Setup(By("Jito"), By("Lightspeed"), All, {}, 2),
         Setup(By("Temporal"), By("Soyas"), All, {}, 2),
         Setup(Http("Glaive"), By("Default"), All, {}, 2),
         Setup(Class("Triton"), By("FlashBlock"), All, {}, 2),
         Setup(Class("Bloxroute"), Class("Jito"), {"failover", "all", "bundle"}, {}, 2),
         Setup(By("Node1"), NoKey, {"failover", "direct"}, {"failover"}, 1),
         Setup(By("Node1"), Off(By("Helius")), {"failover", "all", "bundle"}, {}, 2),
         Setup(By("Node1"), By("NextBlock"), All, {}, 1)}

Tx(id) == [id |-> id, single |-> TRUE, fits |-> TRUE]
Good == Tx("good")
Long == [Tx("long") EXCEPT !.fits = FALSE]
Multi == [Tx("multi") EXCEPT !.single = FALSE]

MCBatches == {<<Good>>, <<Multi>>, <<Good, Long>>}
=============================================================================
