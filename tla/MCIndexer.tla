----------------------------- MODULE MCIndexer -----------------------------
(***************************************************************************)
(* A small instance of Indexer: one tree of blocks with two forks.         *)
(***************************************************************************)
EXTENDS Indexer, TLC

\* g - a1 - a2, with b1 - b2 forking at g and c2 at a1; g is the first indexed block.
ForkTree == {"g", "a1", "a2", "b1", "b2", "c2"}
ForkParent ==
  "g" :> NoBlock @@ "a1" :> "g" @@ "a2" :> "a1" @@ "b1" :> "g" @@ "b2" :> "b1" @@ "c2" :> "a1"
ForkHeight == "g" :> 0 @@ "a1" :> 1 @@ "a2" :> 2 @@ "b1" :> 1 @@ "b2" :> 2 @@ "c2" :> 2
ForkLogs == {"a1", "b2", "c2"}

=============================================================================
