------------------------------ MODULE MCBridge ------------------------------
(***************************************************************************)
(* Small instances of Bridge for TLC.                                      *)
(***************************************************************************)
EXTENDS BridgeChecks

CONSTANTS t1, t2, r1, r2, r3, r4, page, image, font, script, moz, alt

\* One tab for all requests; or a tab for r1 and another for the rest.
OneTab == [r \in Req |-> t1]
TwoTabs == [r \in Req |-> IF r = r1 THEN t1 ELSE t2]

\* Every request asks for the same URL; or each for another one.
SameUrl == [r \in Req |-> page]
OwnUrl == [r \in Req |-> IF r = r1 THEN page ELSE IF r = r2 THEN image
                          ELSE IF r = r3 THEN font ELSE script]

\* One UA for all; or r3 has its own.
SameUA == [r \in Req |-> moz]
OddUA == [r \in Req |-> IF r = r3 THEN alt ELSE moz]

\* The top-level document is r1's, and r4's, which the guard refuses.
Documents == [r \in Req |-> r \in {r1, r4}]

Yes == [r \in Req |-> TRUE]
No == [r \in Req |-> FALSE]
=============================================================================
