---------------------------- MODULE MCMetadata ----------------------------
(* An address launched by two creators, by one of them twice.              *)
EXTENDS Metadata

Launch(tx, log, creator) == [tx |-> tx, log |-> log, creator |-> creator]

\* alice edits in two tabs, bob in one.
ThreeEditors == {"tab1", "tab2", "bob"}
TheirWallets == [e \in ThreeEditors |-> IF e = "bob" THEN {"bob"} ELSE {"alice"}]
TheirRequests == [e \in ThreeEditors |-> 1]

TwoCreators == {Launch(1, 0, "alice"), Launch(1, 3, "alice"), Launch(2, 0, "bob")}
OneKind     == {"metadata"}
=============================================================================
