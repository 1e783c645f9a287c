---------------------------- MODULE IndexerProofs ----------------------------
(***************************************************************************)
(* Proofs about Indexer, for every tree of blocks, every chunk size, start *)
(* block and search depth, and for providers of every kind.                *)
(***************************************************************************)
EXTENDS Indexer, WellFoundedInduction, TLAPS

-----------------------------------------------------------------------------
(* Type correctness. *)

\* Every canonical header is a block.
LEMMA CanonIsHash == ASSUME TypeOK PROVE canon \subseteq Hash /\ canon # {}
  BY DEF TypeOK, Chains, IsChain

\* A Step that returns an error leaves well-typed variables.
LEMMA FailType == ASSUME TypeOK, NEW class \in Failures, Fail(class) PROVE TypeOK'
  BY DEF TypeOK, Fail, Forget, chainVars, dbVars, NoState, NoHeads, Watermarks, Heads, Pcs

\* So does a read at a height without a header.
LEMMA NoHeaderType == ASSUME TypeOK, NEW n, NoHeader(n) PROVE TypeOK'
  BY FailType DEF NoHeader, Failures

\* The start of a recovery keeps the types.
LEMMA BeginRecoveryType == ASSUME TypeOK, NEW h \in Hash, BeginRecovery(h) PROVE TypeOK'
  <1>1. CASE \E class \in Failures : Fail(class)
    BY <1>1, FailType
  <1>2. CASE ~ \E class \in Failures : Fail(class)
    BY <1>2, TreeAssumption
    DEF BeginRecovery, TypeOK, Failures, chainVars, dbVars, Pcs
  <1> QED BY <1>1, <1>2

\* One iteration of the promotion loop keeps the types.
LEMMA PromoteType ==
  ASSUME TypeOK, NEW target \in {"safe", "finalized"}, NEW remote,
         NEW next \in Pcs, Promote(target, remote, next)
  PROVE  TypeOK'
  <1>1. CASE \E class \in Failures : Fail(class)
    BY <1>1, FailType
  <1>2. CASE ~ \E class \in Failures : Fail(class)
    <2> DEFINE locals == {b \in chunk \cup Indexed : Height[b] = PromotionNumber(remote)}
    <2>1. locals \subseteq Hash
      BY DEF TypeOK, Indexed
    <2>2. PICK local \in locals \cup {NoBlock} :
            /\ nx' = nx \/ (nx' = [nx EXCEPT ![target] = local])
            /\ pc' = next
            /\ UNCHANGED <<chainVars, dbVars, readVars, cursor, previous, chunk, logs,
                           walkVars, health, failure, crashes>>
      BY <1>2 DEF Promote, NoHeader, Failures
    <2>3. nx' \in Watermarks
      BY <2>1, <2>2 DEF TypeOK, Watermarks
    <2> HIDE DEF locals
    <2> QED BY <2>2, <2>3 DEF TypeOK, chainVars, dbVars, readVars, walkVars
  <1> QED BY <1>1, <1>2

\* The provider, crashes and restarts keep the types.
LEMMA EnvironmentType ==
  ASSUME TypeOK, Provider \/ Crash \/ Restart
  PROVE  TypeOK'
  <1>1. CASE Provider
    <2>1. ASSUME NEW c \in Chains, NewHead(c) PROVE TypeOK'
      <3>1. canon' \in Chains /\ c \subseteq Hash /\ canon' = c
        BY <2>1 DEF NewHead, Chains
      <3>2. /\ safeTag' \in c /\ finalTag' \in Hash /\ orphans' \subseteq Hash
            /\ keptSafe' \in BOOLEAN
        BY <2>1, <3>1, CanonIsHash DEF NewHead, TypeOK
      <3> QED BY <2>1, <3>1, <3>2 DEF NewHead, TypeOK, dbVars, procVars
    <2>2. CASE AdvanceSafe
      BY <2>2 DEF AdvanceSafe, TypeOK, dbVars, procVars
    <2>3. CASE AdvanceFinalized
      BY <2>3, CanonIsHash DEF AdvanceFinalized, TypeOK, dbVars, procVars
    <2> QED BY <1>1, <2>1, <2>2, <2>3 DEF Provider
  <1>2. CASE Crash
    BY <1>2 DEF TypeOK, Crash, Forget, chainVars, dbVars, NoState, NoHeads, Watermarks, Heads,
                Pcs, Failures
  <1>3. CASE Restart
    BY <1>3 DEF TypeOK, Restart, chainVars, dbVars, readVars, chunkVars, walkVars, Pcs, Failures
  <1> QED BY <1>1, <1>2, <1>3

\* Every step of the engine keeps the types.
LEMMA EngineType == ASSUME TypeOK, Engine PROVE TypeOK'
  <1> USE CanonIsHash
  <1>1. CASE ReadState
    BY <1>1 DEF ReadState, TypeOK, chainVars, dbVars, walkVars, Pcs
  <1>2. CASE ReadLatest
    BY <1>2 DEF ReadLatest, Tips, TypeOK, chainVars, dbVars, chunkVars, walkVars, Pcs, Heads
  <1>3. CASE ReadSafe
    BY <1>3 DEF ReadSafe, TypeOK, chainVars, dbVars, chunkVars, walkVars, Pcs, Heads
  <1>4. CASE ReadFinalized
    <2>1. CASE Fail("heads")
      BY <2>1, FailType DEF Failures
    <2>2. CASE ~Fail("heads")
      BY <1>4, <2>2 DEF ReadFinalized, TypeOK, chainVars, dbVars, chunkVars, walkVars, Pcs, Heads
    <2> QED BY <2>1, <2>2
  <1>5. CASE CheckSafe
    <2>1. CASE \E class \in Failures : Fail(class)
      BY <2>1, FailType
    <2>2. CASE ~ \E class \in Failures : Fail(class)
      BY <1>5, <2>2 DEF CheckSafe, NoHeader, Failures, TypeOK, chainVars, dbVars, readVars,
                        chunkVars, walkVars, Pcs
    <2> QED BY <2>1, <2>2
  <1>6. CASE CheckObserved
    <2>1. CASE \E class \in Failures : Fail(class)
      BY <2>1, FailType
    <2>2. CASE \E h \in Hash : BeginRecovery(h)
      BY <2>2, BeginRecoveryType
    <2>3. CASE /\ pc' = "chunk"
               /\ cursor' = From
               /\ previous' = st.observed
               /\ UNCHANGED <<chainVars, dbVars, readVars, chunk, logs, nx, walkVars,
                              health, failure, crashes>>
      BY <2>3, TreeAssumption, SettingsAssumption
      DEF From, TypeOK, chainVars, dbVars, readVars, walkVars, Pcs, Watermarks
    <2> QED BY <1>6, <2>1, <2>2, <2>3 DEF CheckObserved, NoHeader, Failures, HeaderByNumber
  <1>7. CASE ReadHeader
    <2>1. CASE \E class \in Failures : Fail(class)
      BY <2>1, FailType
    <2>2. CASE \E h \in Hash : BeginRecovery(h)
      BY <2>2, BeginRecoveryType
    <2>3. CASE \E h \in Hash :
                 /\ chunk' = chunk \cup {h}
                 /\ previous' = h
                 /\ cursor' = cursor + 1
                 /\ UNCHANGED <<chainVars, dbVars, pc, readVars, logs, nx, walkVars,
                                health, failure, crashes>>
      BY <2>3 DEF TypeOK, chainVars, dbVars, readVars, walkVars
    <2> QED BY <1>7, <2>1, <2>2, <2>3 DEF ReadHeader, NoHeader, Failures, HeaderByNumber
  <1>8. CASE EndChunk
    BY <1>8 DEF EndChunk, Forget, TypeOK, chainVars, dbVars, readVars, chunkVars, walkVars, Pcs,
                NoState, NoHeads, Watermarks, Heads
  <1>9. CASE Discover
    <2>1. CASE Fail("canonical")
      BY <2>1, FailType DEF Failures
    <2>2. CASE ~Fail("canonical")
      BY <1>9, <2>2 DEF Discover, TypeOK, chainVars, dbVars, readVars, walkVars, Pcs
    <2> QED BY <2>1, <2>2
  <1>10. CASE RecheckHeader
    <2>1. CASE \E class \in Failures : Fail(class)
      BY <2>1, FailType
    <2>2. CASE ~ \E class \in Failures : Fail(class)
      BY <1>10, <2>2 DEF RecheckHeader, NoHeader, Failures, TypeOK, chainVars, dbVars, readVars,
                         walkVars, Pcs, Watermarks
    <2> QED BY <2>1, <2>2
  <1>11. CASE PromoteSafe
    BY <1>11, PromoteType DEF PromoteSafe, Pcs
  <1>12. CASE PromoteFinalized
    BY <1>12, PromoteType DEF PromoteFinalized, Pcs
  <1>13. CASE Commit
    <2>1. CASE Fail("conflict")
      BY <2>1, FailType DEF Failures
    <2>2. CASE ~Fail("conflict")
      <3>1. \A b \in Hash : CommittedStatus(b) \in Statuses
        BY DEF CommittedStatus, UpsertIndexedBlock, PromoteIndexedBlocks, Statuses, TypeOK
      <3> QED BY <1>13, <2>2, <3>1
              DEF Commit, Forget, TypeOK, chainVars, Pcs, NoState, NoHeads, Watermarks, Heads
    <2> QED BY <2>1, <2>2
  <1>14. CASE ReadCandidate
    <2>1. CASE \E class \in Failures : Fail(class)
      BY <2>1, FailType
    <2>2. CASE ~ \E class \in Failures : Fail(class)
      BY <1>14, <2>2 DEF ReadCandidate, NoHeader, HeaderByNumber, Failures, TypeOK, chainVars,
                         dbVars, readVars
    <2> QED BY <2>1, <2>2
  <1>15. CASE EndWalk
    BY <1>15 DEF EndWalk, TypeOK, chainVars, dbVars, readVars, chunkVars, walkVars, Pcs
  <1>16. CASE RecordReorg
    <2>1. CASE \E class \in Failures : Fail(class)
      BY <2>1, FailType
    <2>2. CASE ~ \E class \in Failures : Fail(class)
      BY <1>16, <2>2 DEF RecordReorg, NoHeader, Failures, TypeOK, chainVars, readVars, chunkVars,
                         walkVars, Pcs
    <2> QED BY <2>1, <2>2
  <1>17. CASE RecoverReorg
    <2>1. CASE Fail("recovery")
      BY <2>1, FailType DEF Failures
    <2>2. CASE ~Fail("recovery")
      BY <1>17, <2>2 DEF RecoverReorg, CommonAncestors, RecoveredState, CompleteReorg, Forget,
                         TypeOK, chainVars, Pcs, NoState, NoHeads, Watermarks, Heads, Statuses
    <2> QED BY <2>1, <2>2
  <1> QED BY <1>1, <1>2, <1>3, <1>4, <1>5, <1>6, <1>7, <1>8, <1>9, <1>10, <1>11, <1>12,
             <1>13, <1>14, <1>15, <1>16, <1>17 DEF Engine

\* The variables of the indexer always have their types.
THEOREM TypeCorrect == Spec => []TypeOK
  <1>1. Init => TypeOK
    BY TreeAssumption
    DEF Init, TypeOK, Chains, NoState, NoHeads, Watermarks, Heads, Statuses, Pcs, Failures
  <1>2. TypeOK /\ [Next]_vars => TypeOK'
    <2> SUFFICES ASSUME TypeOK, [Next]_vars PROVE TypeOK'
      OBVIOUS
    <2>1. CASE Next
      BY <2>1, EnvironmentType, EngineType DEF Next
    <2>2. CASE UNCHANGED vars
      BY <2>2 DEF vars, TypeOK
    <2> QED BY <2>1, <2>2
  <1> QED BY <1>1, <1>2, PTL DEF Spec

-----------------------------------------------------------------------------
(* The inductive invariant. *)

\* What only reads the database keeps everything that is said of the database alone.
LEMMA DbSame ==
  ASSUME IInv, UNCHANGED <<status, sync>>
  PROVE  LedgerDense' /\ LinkedLedger' /\ FinalityMatchesWatermarks'
  BY DEF IInv, LedgerDense, LinkedLedger, FinalityMatchesWatermarks, WatermarksOrdered,
         HeightOf, Indexed

\* The conjuncts about Step's memory and the control state.
MemoryInv ==
  /\ StateIsCurrent
  /\ ChunkLinked
  /\ NextIsRaised
  /\ HeadsKnown
  /\ PromotionOrdered
  /\ CandidatesAboveSafe
  /\ NoIntegrityFailure

\* They hold trivially where Step is not running.
LEMMA MemoryEmpty ==
  ASSUME chunk = {}, candidates = {}, pc \in {"idle", "down"}, NoIntegrityFailure
  PROVE  MemoryInv
  BY DEF MemoryInv, StateIsCurrent, ChunkLinked, NextIsRaised, HeadsKnown, PromotionOrdered,
         CandidatesAboveSafe, Working, Reading, Promoting, Linking, Recovering

\* A step that reads or writes only the provider's variables keeps them.
LEMMA MemorySame ==
  ASSUME IInv, UNCHANGED <<status, sync, pc, st, nx, hd, cursor, previous, chunk, candidates,
                           failure>>
  PROVE  MemoryInv'
  BY DEF IInv, MemoryInv, StateIsCurrent, ChunkLinked, NextIsRaised, HeadsKnown,
         PromotionOrdered, CandidatesAboveSafe, NoIntegrityFailure, Raised, HeightOf, From,
         CandidateFloor, PromotionNumber, Indexed, Working, Reading, Promoting, Linking, Recovering

\* An error other than an integrity failure keeps the invariant.
LEMMA FailInv ==
  ASSUME IInv, NEW class \in Failures \ {"missing", "conflict"}, Fail(class)
  PROVE  LedgerDense' /\ LinkedLedger' /\ FinalityMatchesWatermarks' /\ MemoryInv'
  <1>1. LedgerDense' /\ LinkedLedger' /\ FinalityMatchesWatermarks'
    BY DbSame DEF Fail, dbVars
  <1>2. MemoryInv'
    BY DEF Fail, Forget, NoIntegrityFailure,
           MemoryInv, StateIsCurrent, ChunkLinked, NextIsRaised, HeadsKnown, PromotionOrdered,
           CandidatesAboveSafe, Working, Reading, Promoting, Linking, Recovering
  <1> QED BY <1>1, <1>2

\* The start of a recovery.
LEMMA BeginRecoveryInv ==
  ASSUME IInv, Working, candidates = {}, NEW h \in Hash, BeginRecovery(h)
  PROVE  LedgerDense' /\ LinkedLedger' /\ FinalityMatchesWatermarks' /\ MemoryInv'
  <1>1. CASE Fail("recovery") \/ Fail("safe")
    BY <1>1, FailInv DEF Failures
  <1>2. CASE ~(Fail("recovery") \/ Fail("safe"))
    <2>1. LedgerDense' /\ LinkedLedger' /\ FinalityMatchesWatermarks'
      BY <1>2, DbSame DEF BeginRecovery, dbVars
    <2>2. MemoryInv'
      BY <1>2
      DEF BeginRecovery, dbVars, IInv, MemoryInv, StateIsCurrent, ChunkLinked, NextIsRaised,
          HeadsKnown, PromotionOrdered, CandidatesAboveSafe, NoIntegrityFailure, Working,
          Reading, Promoting, Linking, Recovering
    <2> QED BY <2>1, <2>2
  <1> QED BY <1>1, <1>2

\* Init satisfies the invariant.
LEMMA InitInv == Init => IInv
  <1> SUFFICES ASSUME Init PROVE IInv
    OBVIOUS
  <1>1. TypeOK
    BY TreeAssumption
    DEF Init, TypeOK, Chains, NoState, NoHeads, Watermarks, Heads, Statuses, Pcs, Failures
  <1>2. MemoryInv
    BY MemoryEmpty DEF Init, NoIntegrityFailure
  <1>3. LedgerDense /\ LinkedLedger /\ FinalityMatchesWatermarks
    BY SettingsAssumption
    DEF Init, LedgerDense, LinkedLedger, FinalityMatchesWatermarks, WatermarksOrdered,
        HeightOf, Indexed, NoState
  <1> QED BY <1>1, <1>2, <1>3 DEF IInv, MemoryInv

\* The provider, crashes and restarts keep the invariant.
LEMMA EnvironmentInv ==
  ASSUME IInv, Provider \/ Crash \/ Restart
  PROVE  LedgerDense' /\ LinkedLedger' /\ FinalityMatchesWatermarks' /\ MemoryInv'
  <1>1. UNCHANGED <<status, sync>>
    BY DEF Provider, NewHead, AdvanceSafe, AdvanceFinalized, Crash, Restart, dbVars
  <1>2. LedgerDense' /\ LinkedLedger' /\ FinalityMatchesWatermarks'
    BY <1>1, DbSame
  <1>3. CASE Provider
    BY <1>1, <1>2, <1>3, MemorySame
    DEF Provider, NewHead, AdvanceSafe, AdvanceFinalized, procVars
  <1>4. CASE Crash \/ Restart
    <2>1. chunk' = {} /\ candidates' = {} /\ pc' \in {"idle", "down"} /\ failure' = "none"
      BY <1>4 DEF Crash, Restart, Forget, IInv, ChunkLinked, CandidatesAboveSafe, Linking,
                  Promoting, Recovering, chunkVars, walkVars
    <2> QED
      BY <1>2, <2>1
      DEF NoIntegrityFailure, MemoryInv, StateIsCurrent, ChunkLinked, NextIsRaised, HeadsKnown,
          PromotionOrdered, CandidatesAboveSafe, Working, Reading, Promoting, Linking, Recovering
  <1> QED BY <1>3, <1>4

\* The steps up to the checks of the stored blocks.
LEMMA HeadsInv ==
  ASSUME IInv, ReadState \/ ReadLatest \/ ReadSafe \/ ReadFinalized \/ CheckSafe
  PROVE  LedgerDense' /\ LinkedLedger' /\ FinalityMatchesWatermarks' /\ MemoryInv'
  <1> USE DEF MemoryInv, StateIsCurrent, ChunkLinked, NextIsRaised, HeadsKnown,
              PromotionOrdered, CandidatesAboveSafe, NoIntegrityFailure,
              Working, Reading, Promoting, Linking, Recovering
  <1>1. CASE Fail("heads") \/ Fail("rpc") \/ Fail("safe")
    BY <1>1, FailInv DEF Failures
  <1>2. CASE ~(Fail("heads") \/ Fail("rpc") \/ Fail("safe"))
    <2>1. LedgerDense' /\ LinkedLedger' /\ FinalityMatchesWatermarks'
      BY <1>2, DbSame
      DEF ReadState, ReadLatest, ReadSafe, ReadFinalized, CheckSafe, NoHeader, dbVars
    <2>2. CASE ReadState
      BY <2>1, <2>2 DEF ReadState, IInv, dbVars, walkVars
    <2>3. CASE ReadLatest
      BY <2>1, <2>3 DEF ReadLatest, IInv, dbVars, chunkVars, walkVars
    <2>4. CASE ReadSafe
      BY <2>1, <2>4, CanonIsHash DEF ReadSafe, IInv, TypeOK, Heads, dbVars, chunkVars, walkVars
    <2>5. CASE ReadFinalized
      BY <2>1, <2>5, <1>2
      DEF ReadFinalized, HeadsOrdered, IInv, TypeOK, Heads, dbVars, chunkVars, walkVars
    <2>6. CASE CheckSafe
      BY <2>1, <2>6, <1>2
      DEF CheckSafe, NoHeader, IInv, dbVars, readVars, chunkVars, walkVars
    <2> QED BY <2>2, <2>3, <2>4, <2>5, <2>6
  <1> QED BY <1>1, <1>2

\* The check of the observed block starts an empty chunk on top of it.
LEMMA CheckObservedInv ==
  ASSUME IInv, CheckObserved
  PROVE  LedgerDense' /\ LinkedLedger' /\ FinalityMatchesWatermarks' /\ MemoryInv'
  <1> USE DEF MemoryInv, StateIsCurrent, ChunkLinked, NextIsRaised, HeadsKnown,
              PromotionOrdered, CandidatesAboveSafe, NoIntegrityFailure,
              Working, Reading, Promoting, Linking, Recovering
  <1>0. pc = "checkObserved" /\ candidates = {} /\ Working
    BY DEF CheckObserved, IInv
  <1>1. CASE Fail("rpc") \/ Fail("safe")
    BY <1>1, FailInv DEF Failures
  <1>2. CASE \E h \in Hash : BeginRecovery(h)
    BY <1>0, <1>2, BeginRecoveryInv
  <1>3. CASE /\ pc' = "chunk"
             /\ cursor' = From
             /\ previous' = st.observed
             /\ UNCHANGED <<chainVars, dbVars, readVars, chunk, logs, nx, walkVars,
                            health, failure, crashes>>
    <2>1. LedgerDense' /\ LinkedLedger' /\ FinalityMatchesWatermarks'
      BY <1>3, DbSame DEF dbVars
    <2>2. From' = From /\ From \in Int /\ HeightOf(st.observed) < From
      BY <1>3, TreeAssumption, SettingsAssumption
      DEF From, HeightOf, readVars, IInv, TypeOK, Watermarks
    <2>3. chunk' = {} /\ candidates' = {}
      BY <1>0, <1>3 DEF IInv, walkVars
    <2>4. ChunkLinked'
      BY <1>3, <2>2, <2>3, TreeAssumption DEF HeightOf, readVars, IInv, TypeOK, Watermarks
    <2> QED BY <1>0, <1>3, <2>1, <2>3, <2>4 DEF IInv, dbVars, readVars, walkVars
  <1> QED BY <1>1, <1>2, <1>3, CanonIsHash
          DEF CheckObserved, NoHeader, HeaderByNumber, IInv

\* An accepted header extends the chunk by one block.
LEMMA ReadHeaderInv ==
  ASSUME IInv, ReadHeader
  PROVE  LedgerDense' /\ LinkedLedger' /\ FinalityMatchesWatermarks' /\ MemoryInv'
  <1> USE DEF Working, Reading, Promoting, Linking, Recovering
  <1>0. pc = "chunk" /\ candidates = {} /\ Working
    BY DEF ReadHeader, IInv, CandidatesAboveSafe
  <1>1. CASE Fail("rpc") \/ Fail("safe")
    BY <1>1, FailInv DEF Failures
  <1>2. CASE \E h \in Hash : BeginRecovery(h)
    BY <1>0, <1>2, BeginRecoveryInv
  <1>3. ASSUME NEW h \in Hash, Height[h] = cursor, Links(h),
               chunk' = chunk \cup {h}, previous' = h, cursor' = cursor + 1,
               UNCHANGED <<chainVars, dbVars, pc, readVars, logs, nx, walkVars,
                           health, failure, crashes>>
        PROVE  LedgerDense' /\ LinkedLedger' /\ FinalityMatchesWatermarks' /\ MemoryInv'
    <2>1. LedgerDense' /\ LinkedLedger' /\ FinalityMatchesWatermarks'
      BY <1>3, DbSame DEF dbVars
    <2>2. From' = From /\ From \in Nat /\ st' = st
      BY <1>3, TreeAssumption, SettingsAssumption
      DEF From, readVars, IInv, TypeOK, Watermarks
    <2>3. \A b \in Hash : Height[b] \in Nat
      BY TreeAssumption
    <2>4. chunk \subseteq Hash /\ previous \in Hash \cup {NoBlock} /\ NoBlock \notin Hash
      BY TreeAssumption DEF IInv, TypeOK
    <2>5. ChunkLinked
      BY DEF IInv
    <2>6. ASSUME chunk = {} PROVE ChunkLinked'
      <3>1. Height[h] = From /\ previous = st.observed /\ chunk' = {h}
        BY <1>0, <1>3, <2>5, <2>6 DEF ChunkLinked
      <3>2. st.observed \in {NoBlock, Parent[h]}
        BY <1>3, <3>1 DEF Links
      <3>3. \A n \in From..HeightOf(h) : n = Height[h]
        BY <2>2, <2>3, <2>4, <3>1 DEF HeightOf
      <3> QED BY <1>0, <1>3, <2>2, <2>3, <2>4, <3>1, <3>2, <3>3 DEF ChunkLinked
    <2>7. ASSUME chunk # {} PROVE ChunkLinked'
      <3>1. /\ previous \in chunk
            /\ Height[h] = Height[previous] + 1
            /\ Parent[h] = previous
        BY <1>0, <1>3, <2>4, <2>5, <2>7 DEF ChunkLinked, Links
      <3>2. \A b \in chunk' :
              /\ From <= Height[b]
              /\ Height[b] <= Height[h]
              /\ Height[b] > From => Parent[b] \in chunk'
              /\ Height[b] = From => st.observed \in {NoBlock, Parent[b]}
        BY <1>0, <1>3, <2>2, <2>3, <2>4, <2>5, <3>1 DEF ChunkLinked
      <3>3. \A a, b \in chunk' : Height[a] = Height[b] => a = b
        BY <1>0, <1>3, <2>3, <2>4, <2>5, <3>1 DEF ChunkLinked
      <3>4. \A n \in From..HeightOf(h) : \E b \in chunk' : Height[b] = n
        <4> TAKE n \in From..HeightOf(h)
        <4>1. n \in From..HeightOf(previous) \/ n = Height[h]
          BY <2>2, <2>3, <2>4, <3>1 DEF HeightOf
        <4> QED BY <1>0, <1>3, <2>5, <4>1 DEF ChunkLinked
      <3> QED BY <1>0, <1>3, <2>2, <2>4, <3>1, <3>2, <3>3, <3>4 DEF ChunkLinked, HeightOf
    <2>8. ChunkLinked'
      BY <2>6, <2>7
    <2> QED BY <1>0, <1>3, <2>1, <2>2, <2>8
            DEF IInv, MemoryInv, StateIsCurrent, NextIsRaised, HeadsKnown, PromotionOrdered,
                CandidatesAboveSafe, NoIntegrityFailure, dbVars, readVars, walkVars
  <1> QED BY <1>1, <1>2, <1>3, CanonIsHash
          DEF ReadHeader, NoHeader, HeaderByNumber, IInv

\* Facts about heights that the remaining lemmas share.
LEMMA HeightFacts ==
  ASSUME IInv
  PROVE  /\ \A b \in Hash : Height[b] \in Nat /\ HeightOf(b) = Height[b]
         /\ HeightOf(NoBlock) = -1
         /\ Indexed \subseteq Hash
         /\ chunk \subseteq Hash
         /\ From \in Nat
         /\ From >= StartBlock \/ st.observed # NoBlock
         /\ st.observed # NoBlock => From = HeightOf(st.observed) + 1
         /\ st.observed = NoBlock => From = StartBlock
         /\ HeightOf(st.observed) \in Int
         /\ HeightOf(previous) \in Int
  <1>1. \A b \in Hash : Height[b] \in Nat /\ HeightOf(b) = Height[b]
    BY TreeAssumption DEF HeightOf
  <1>2. Indexed \subseteq Hash /\ chunk \subseteq Hash
    BY DEF IInv, TypeOK, Indexed
  <1>3. st.observed \in Hash \cup {NoBlock} /\ previous \in Hash \cup {NoBlock}
    BY DEF IInv, TypeOK, Watermarks
  <1> QED BY <1>1, <1>2, <1>3, SettingsAssumption DEF From, HeightOf

\* While a chunk is held, `previous` is at the observed block or above it.
LEMMA PreviousAbove ==
  ASSUME IInv, Linking
  PROVE  HeightOf(sync.observed) <= HeightOf(previous)
  <1>1. st = sync
    BY DEF IInv, StateIsCurrent, Linking, Promoting, Working
  <1>2. CASE chunk = {}
    BY <1>1, <1>2, HeightFacts DEF IInv, ChunkLinked
  <1>3. CASE chunk # {}
    <2>1. previous \in chunk /\ From <= Height[previous]
      BY <1>3 DEF IInv, ChunkLinked
    <2>2. HeightOf(st.observed) < From
      BY HeightFacts
    <2> QED BY <1>1, <2>1, <2>2, HeightFacts
  <1> QED BY <1>2, <1>3

\* The end of the header loop and the two checks after it.
LEMMA ChunkDoneInv ==
  ASSUME IInv, EndChunk \/ Discover \/ RecheckHeader
  PROVE  LedgerDense' /\ LinkedLedger' /\ FinalityMatchesWatermarks' /\ MemoryInv'
  <1> USE DEF Working, Reading, Promoting, Linking, Recovering
  <1>0. pc \in {"chunk", "logs", "recheck"} /\ st = sync /\ nx = st /\ candidates = {}
    BY DEF EndChunk, Discover, RecheckHeader, IInv, StateIsCurrent, NextIsRaised,
           CandidatesAboveSafe
  <1>1. CASE Fail("rpc") \/ Fail("canonical")
    BY <1>1, FailInv DEF Failures
  <1>2. CASE ~(Fail("rpc") \/ Fail("canonical"))
    <2>1. LedgerDense' /\ LinkedLedger' /\ FinalityMatchesWatermarks'
      BY <1>2, DbSame DEF EndChunk, Discover, RecheckHeader, NoHeader, dbVars
    <2>2. CASE pc' = "idle"
      <3>1. chunk' = {} /\ candidates' = {} /\ UNCHANGED failure
        BY <1>2, <2>2
        DEF EndChunk, Discover, RecheckHeader, NoHeader, Forget
      <3> QED BY <2>1, <2>2, <3>1
              DEF IInv, MemoryInv, StateIsCurrent, ChunkLinked, NextIsRaised, HeadsKnown,
                  PromotionOrdered, CandidatesAboveSafe, NoIntegrityFailure
    <2>3. CASE pc' # "idle"
      <3>1. /\ pc' \in {"logs", "recheck", "promoteSafe"}
            /\ UNCHANGED <<status, sync, st, hd, previous, chunk, candidates, failure>>
            /\ pc' # "promoteSafe" => nx' = nx
            /\ pc' = "promoteSafe" => /\ nx' = [nx EXCEPT !.observed = previous]
                                      /\ previous # NoBlock
        <4>1. CASE EndChunk
          BY <1>0, <2>3, <4>1
          DEF EndChunk, dbVars, readVars, chunkVars, walkVars, IInv, ChunkLinked, TypeOK, Watermarks
        <4>2. CASE Discover
          BY <1>2, <2>3, <4>2 DEF Discover, dbVars, readVars, walkVars
        <4>3. CASE RecheckHeader
          BY <1>2, <2>3, <4>3, CanonIsHash, TreeAssumption
          DEF RecheckHeader, UnchangedTip, NoHeader, HeaderByNumber, dbVars, readVars, walkVars, IInv
        <4> QED BY <4>1, <4>2, <4>3
      <3>2. ChunkLinked'
        BY <1>0, <3>1 DEF IInv, ChunkLinked, From, HeightOf
      <3>3. pc' = "promoteSafe" =>
              /\ nx'.observed = previous /\ nx'.safe = sync.safe
              /\ nx'.finalized = sync.finalized
        BY <1>0, <3>1 DEF IInv, TypeOK, Watermarks
      <3>4. /\ HeightOf(sync.safe) <= HeightOf(previous)
            /\ HeightOf(sync.finalized) <= HeightOf(sync.safe)
        <4>1. HeightOf(sync.observed) <= HeightOf(previous)
          BY <1>0, PreviousAbove
        <4>2. \A w \in {sync.safe, sync.finalized, sync.observed, previous} : HeightOf(w) \in Int
          BY HeightFacts DEF IInv, TypeOK, Watermarks
        <4> QED BY <4>1, <4>2 DEF IInv, LinkedLedger, WatermarksOrdered
      <3>5. NextIsRaised'
        BY <1>0, <3>1, <3>3 DEF NextIsRaised, Raised
      <3>6. PromotionOrdered'
        BY <1>0, <3>1, <3>3, <3>4 DEF PromotionOrdered, HeightOf
      <3>7. HeadsKnown' /\ StateIsCurrent' /\ CandidatesAboveSafe' /\ NoIntegrityFailure'
        BY <1>0, <3>1 DEF IInv, HeadsKnown, StateIsCurrent, CandidatesAboveSafe, NoIntegrityFailure
      <3> QED BY <2>1, <3>2, <3>5, <3>6, <3>7 DEF MemoryInv
    <2> QED BY <2>2, <2>3
  <1> QED BY <1>1, <1>2

\* Every number from StartBlock to the block about to be observed has a local block.
LEMMA LocalExists ==
  ASSUME IInv, Promoting, NEW n \in Nat, StartBlock <= n, n <= Height[nx.observed]
  PROVE  \E b \in chunk \cup Indexed : Height[b] = n
  <1>1. st = sync /\ nx.observed = previous /\ previous \in Hash /\ ChunkLinked
    BY DEF IInv, TypeOK, StateIsCurrent, NextIsRaised, Working, Promoting
  <1>2. CASE n >= From
    <2>1. n \in From..HeightOf(previous)
      BY <1>1, <1>2, HeightFacts
    <2> QED BY <1>1, <2>1 DEF ChunkLinked, Linking
  <1>3. CASE n < From
    <2>1. n \in StartBlock..HeightOf(sync.observed)
      BY <1>1, <1>3, HeightFacts, SettingsAssumption
    <2> QED BY <2>1 DEF IInv, LedgerDense
  <1> QED BY <1>2, <1>3, HeightFacts

\* What one iteration of the promotion loop does when it does not fail, and that it
\* never misses the local block.
LEMMA PromoteEffect ==
  ASSUME IInv, Promoting, NEW target \in {"safe", "finalized"}, NEW remote \in Hash,
         NEW next \in Pcs, Promote(target, remote, next)
  PROVE  \/ Fail("rpc") \/ Fail("canonical")
         \/ /\ pc' = next
            /\ UNCHANGED <<chainVars, dbVars, readVars, cursor, previous, chunk, logs,
                           walkVars, health, failure, crashes>>
            /\ \/ /\ UNCHANGED nx
                  /\ \/ PromotionNumber(remote) < StartBlock
                     \/ PromotionNumber(remote) <= HeightOf(nx[target])
               \/ \E local \in chunk \cup Indexed :
                    /\ nx' = [nx EXCEPT ![target] = local]
                    /\ Height[local] = PromotionNumber(remote)
                    /\ PromotionNumber(remote) >= StartBlock
                    /\ PromotionNumber(remote) > HeightOf(nx[target])
  <1> DEFINE number == PromotionNumber(remote)
             locals == {b \in chunk \cup Indexed : Height[b] = number}
  <1>1. ASSUME number >= StartBlock PROVE locals # {}
    <2>1. nx.observed \in Hash
      BY DEF IInv, TypeOK, NextIsRaised
    <2>2. number \in Nat /\ number <= Height[nx.observed]
      BY <2>1, HeightFacts DEF PromotionNumber, Min2
    <2> QED BY <1>1, <2>2, LocalExists
  <1> QED BY <1>1 DEF Promote, NoHeader

\* Promotion of the safe watermark.
LEMMA PromoteSafeInv ==
  ASSUME IInv, PromoteSafe
  PROVE  LedgerDense' /\ LinkedLedger' /\ FinalityMatchesWatermarks' /\ MemoryInv'
  <1> USE DEF Working, Reading, Promoting, Linking, Recovering
  <1>0. /\ pc = "promoteSafe" /\ st = sync /\ candidates = {}
        /\ hd.safe \in Hash /\ nx \in Watermarks /\ st \in Watermarks
        /\ nx.observed = previous /\ previous \in Hash /\ nx.finalized = st.finalized
    BY DEF PromoteSafe, IInv, TypeOK, StateIsCurrent, HeadsKnown, NextIsRaised, PromotionOrdered,
           CandidatesAboveSafe
  <1>1. CASE Fail("rpc") \/ Fail("canonical")
    BY <1>1, FailInv DEF Failures
  <1>2. CASE ~(Fail("rpc") \/ Fail("canonical"))
    <2>1. /\ pc' = "promoteFinalized"
          /\ UNCHANGED <<status, sync, st, hd, cursor, previous, chunk, candidates, failure>>
          /\ \/ /\ UNCHANGED nx
                /\ \/ PromotionNumber(hd.safe) < StartBlock
                   \/ PromotionNumber(hd.safe) <= HeightOf(nx.safe)
             \/ \E local \in chunk \cup Indexed :
                  /\ nx' = [nx EXCEPT !.safe = local]
                  /\ Height[local] = PromotionNumber(hd.safe)
                  /\ PromotionNumber(hd.safe) >= StartBlock
                  /\ PromotionNumber(hd.safe) > HeightOf(nx.safe)
      BY <1>0, <1>2, PromoteEffect DEF PromoteSafe, Pcs, dbVars, readVars, walkVars
    <2>2. LedgerDense' /\ LinkedLedger' /\ FinalityMatchesWatermarks'
      BY <2>1, DbSame
    <2>3. ChunkLinked'
      BY <1>0, <2>1 DEF IInv, ChunkLinked, From, HeightOf
    <2>4. HeadsKnown' /\ StateIsCurrent' /\ CandidatesAboveSafe' /\ NoIntegrityFailure'
      BY <1>0, <2>1 DEF IInv, HeadsKnown, StateIsCurrent, CandidatesAboveSafe, NoIntegrityFailure
    <2>5. PromotionNumber(hd.safe) \in Nat /\ PromotionNumber(hd.safe) <= Height[previous]
      BY <1>0, HeightFacts DEF PromotionNumber, Min2
    <2>6. \A w \in {st.safe, st.finalized, nx.safe} : HeightOf(w) \in Int
      BY <1>0, HeightFacts DEF Watermarks
    <2>7. CASE UNCHANGED nx
      <3>1. NextIsRaised'
        BY <1>0, <2>1, <2>7 DEF IInv, NextIsRaised, Raised, Indexed, HeightOf
      <3>2. PromotionNumber(hd.safe) < StartBlock \/ PromotionNumber(hd.safe) <= HeightOf(nx.safe)
        BY <2>1, <2>7, <2>6, <2>5, <1>0, HeightFacts DEF Watermarks
      <3>3. PromotionOrdered'
        BY <1>0, <2>1, <2>7, <3>2 DEF IInv, PromotionOrdered, PromotionNumber, HeightOf
      <3> QED BY <2>2, <2>3, <2>4, <3>1, <3>3 DEF MemoryInv
    <2>8. CASE nx' # nx
      <3>1. PICK local \in chunk \cup Indexed :
              /\ nx' = [nx EXCEPT !.safe = local]
              /\ Height[local] = PromotionNumber(hd.safe)
              /\ PromotionNumber(hd.safe) > HeightOf(nx.safe)
        BY <2>1, <2>8
      <3>2. /\ nx'.safe = local /\ nx'.observed = previous /\ nx'.finalized = st.finalized
            /\ local \in Hash /\ HeightOf(local) = PromotionNumber(hd.safe)
        BY <1>0, <3>1, HeightFacts DEF Watermarks
      <3>3. HeightOf(nx.safe) >= HeightOf(st.safe)
        BY <1>0, <2>6 DEF IInv, NextIsRaised, Raised
      <3>4. NextIsRaised'
        <4>1. Raised("safe")'
          BY <1>0, <2>1, <2>6, <3>1, <3>2, <3>3, <2>5 DEF Raised, Indexed, HeightOf
        <4>2. Raised("finalized")'
          BY <1>0, <2>1, <3>2 DEF Raised
        <4> QED BY <1>0, <2>1, <3>2, <4>1, <4>2 DEF IInv, NextIsRaised
      <3>5. HeightOf(st.finalized) <= HeightOf(nx.safe)
        BY <1>0 DEF IInv, PromotionOrdered
      <3>6. PromotionNumber(hd.safe)' = PromotionNumber(hd.safe)
        BY <1>0, <2>1, <3>2 DEF PromotionNumber
      <3>7. HeightOf(local) <= HeightOf(previous) /\ HeightOf(st.finalized) <= HeightOf(local)
        BY <1>0, <2>5, <2>6, <3>1, <3>2, <3>5, HeightFacts
      <3>8. PromotionOrdered'
        BY <1>0, <2>1, <2>5, <3>2, <3>6, <3>7 DEF PromotionOrdered, HeightOf
      <3> QED BY <2>2, <2>3, <2>4, <3>4, <3>8 DEF MemoryInv
    <2> QED BY <2>7, <2>8
  <1> QED BY <1>1, <1>2

\* Promotion of the finalized watermark: it cannot overtake the safe one, because the
\* heads are ordered and the safe watermark has just been raised as far as it goes.
LEMMA PromoteFinalizedInv ==
  ASSUME IInv, PromoteFinalized
  PROVE  LedgerDense' /\ LinkedLedger' /\ FinalityMatchesWatermarks' /\ MemoryInv'
  <1> USE DEF Working, Reading, Promoting, Linking, Recovering
  <1>0. /\ pc = "promoteFinalized" /\ st = sync /\ candidates = {}
        /\ hd.finalized \in Hash /\ hd.safe \in Hash
        /\ Height[hd.finalized] <= Height[hd.safe]
        /\ nx \in Watermarks /\ st \in Watermarks
        /\ nx.observed = previous /\ previous \in Hash /\ nx.finalized = st.finalized
    BY DEF PromoteFinalized, IInv, TypeOK, StateIsCurrent, HeadsKnown, NextIsRaised,
           PromotionOrdered, CandidatesAboveSafe
  <1>1. CASE Fail("rpc") \/ Fail("canonical")
    BY <1>1, FailInv DEF Failures
  <1>2. CASE ~(Fail("rpc") \/ Fail("canonical"))
    <2>1. /\ pc' = "commit"
          /\ UNCHANGED <<status, sync, st, hd, cursor, previous, chunk, candidates, failure>>
          /\ \/ UNCHANGED nx
             \/ \E local \in chunk \cup Indexed :
                  /\ nx' = [nx EXCEPT !.finalized = local]
                  /\ Height[local] = PromotionNumber(hd.finalized)
                  /\ PromotionNumber(hd.finalized) >= StartBlock
                  /\ PromotionNumber(hd.finalized) > HeightOf(nx.finalized)
      BY <1>0, <1>2, PromoteEffect DEF PromoteFinalized, Pcs, dbVars, readVars, walkVars
    <2>2. LedgerDense' /\ LinkedLedger' /\ FinalityMatchesWatermarks'
      BY <2>1, DbSame
    <2>3. ChunkLinked'
      BY <1>0, <2>1 DEF IInv, ChunkLinked, From, HeightOf
    <2>4. HeadsKnown' /\ StateIsCurrent' /\ CandidatesAboveSafe' /\ NoIntegrityFailure'
      BY <1>0, <2>1 DEF IInv, HeadsKnown, StateIsCurrent, CandidatesAboveSafe, NoIntegrityFailure
    <2>5. /\ HeightOf(nx.safe) <= HeightOf(nx.observed)
          /\ HeightOf(st.finalized) <= HeightOf(nx.safe)
          /\ \/ PromotionNumber(hd.safe) < StartBlock
             \/ PromotionNumber(hd.safe) <= HeightOf(nx.safe)
      BY <1>0 DEF IInv, PromotionOrdered
    <2>6. CASE UNCHANGED nx
      <3>1. NextIsRaised'
        BY <1>0, <2>1, <2>6 DEF IInv, NextIsRaised, Raised, Indexed, HeightOf
      <3>2. PromotionOrdered'
        BY <1>0, <2>1, <2>5, <2>6 DEF PromotionOrdered, HeightOf
      <3> QED BY <2>2, <2>3, <2>4, <3>1, <3>2 DEF MemoryInv
    <2>7. CASE nx' # nx
      <3>1. PICK local \in chunk \cup Indexed :
              /\ nx' = [nx EXCEPT !.finalized = local]
              /\ Height[local] = PromotionNumber(hd.finalized)
              /\ PromotionNumber(hd.finalized) >= StartBlock
              /\ PromotionNumber(hd.finalized) > HeightOf(nx.finalized)
        BY <2>1, <2>7
      <3>2. /\ nx'.safe = nx.safe /\ nx'.observed = previous /\ nx'.finalized = local
            /\ local \in Hash /\ HeightOf(local) = PromotionNumber(hd.finalized)
        BY <1>0, <3>1, HeightFacts DEF Watermarks
      <3>3. NextIsRaised'
        <4>1. Raised("finalized")'
          BY <1>0, <2>1, <3>1, <3>2 DEF Raised, Indexed, HeightOf
        <4>2. Raised("safe")'
          BY <1>0, <2>1, <3>2 DEF IInv, NextIsRaised, Raised, Indexed, HeightOf
        <4> QED BY <1>0, <2>1, <3>2, <4>1, <4>2 DEF IInv, NextIsRaised
      <3>4. PromotionNumber(hd.finalized) <= PromotionNumber(hd.safe)
        BY <1>0, HeightFacts DEF PromotionNumber, Min2
      <3>5. /\ PromotionNumber(hd.finalized) \in Nat /\ PromotionNumber(hd.safe) \in Nat
            /\ HeightOf(nx.safe) \in Int
        BY <1>0, HeightFacts DEF PromotionNumber, Min2, Watermarks
      <3>6. HeightOf(local) <= HeightOf(nx.safe)
        BY <2>5, <3>1, <3>2, <3>4, <3>5, SettingsAssumption
      <3>7. PromotionOrdered'
        BY <1>0, <2>1, <2>5, <3>2, <3>6 DEF PromotionOrdered, HeightOf
      <3> QED BY <2>2, <2>3, <2>4, <3>3, <3>7 DEF MemoryInv
    <2> QED BY <2>6, <2>7
  <1> QED BY <1>1, <1>2

\* What the commit transaction finds: no conflict, and watermarks in order.
LEMMA CommitReady ==
  ASSUME IInv, pc = "commit"
  PROVE  /\ ~RowConflict
         /\ WatermarksOrdered(nx)
         /\ st = sync
         /\ \A b \in chunk : HeightOf(sync.observed) < Height[b] /\ StartBlock <= Height[b]
         /\ HeightOf(sync.observed) <= HeightOf(nx.observed)
  <1> USE DEF Working, Promoting, Linking
  <1>1. st = sync /\ nx.observed = previous
    BY DEF IInv, StateIsCurrent, NextIsRaised
  <1>2. \A b \in chunk : From <= Height[b]
    BY DEF IInv, ChunkLinked
  <1>3. HeightOf(sync.observed) < From /\ StartBlock <= From
    <2>1. CASE st.observed = NoBlock
      BY <1>1, <2>1, HeightFacts, SettingsAssumption
    <2>2. CASE st.observed # NoBlock
      <3>1. st.observed \in Indexed
        BY <1>1, <2>2 DEF IInv, LinkedLedger
      <3>2. StartBlock <= Height[st.observed]
        BY <3>1 DEF IInv, LinkedLedger
      <3> QED BY <1>1, <2>2, <3>1, <3>2, HeightFacts, SettingsAssumption
    <2> QED BY <2>1, <2>2
  <1>4. \A b \in chunk : HeightOf(sync.observed) < Height[b] /\ StartBlock <= Height[b]
    BY <1>1, <1>2, <1>3, HeightFacts, SettingsAssumption
  <1>5. ~RowConflict
    <2> SUFFICES ASSUME NEW a \in Indexed, NEW b \in chunk, Height[a] = Height[b] PROVE FALSE
      BY DEF RowConflict
    <2>1. Height[a] <= HeightOf(sync.observed)
      BY DEF IInv, LinkedLedger
    <2> QED BY <1>1, <1>4, <2>1, HeightFacts
  <1>6. WatermarksOrdered(nx)
    BY DEF IInv, PromotionOrdered, WatermarksOrdered
  <1>7. HeightOf(sync.observed) <= HeightOf(nx.observed)
    BY <1>1, PreviousAbove
  <1> QED BY <1>1, <1>4, <1>5, <1>6, <1>7

\* The status the commit gives to each row.
LEMMA CommittedRows ==
  ASSUME IInv, pc = "commit", NEW b \in Hash
  PROVE  /\ CommittedStatus(b) # "absent" <=> b \in Indexed \cup chunk
         /\ b \in Indexed \cup chunk =>
              CommittedStatus(b) = IF Height[b] <= HeightOf(nx.finalized) THEN "finalized"
                                   ELSE IF Height[b] <= HeightOf(nx.safe) THEN "safe"
                                   ELSE "observed"
  <1>1. CommittedStatus(b) # "absent" <=> b \in Indexed \cup chunk
    BY DEF CommittedStatus, UpsertIndexedBlock, PromoteIndexedBlocks, Indexed
  <1> DEFINE fin == HeightOf(st.finalized)
             safe == HeightOf(st.safe)
             fin2 == HeightOf(nx.finalized)
             safe2 == HeightOf(nx.safe)
             s0 == UpsertIndexedBlock(status[b], b)
  <1>2. fin \in Int /\ safe \in Int /\ fin2 \in Int /\ safe2 \in Int /\ Height[b] \in Nat
    BY HeightFacts DEF IInv, TypeOK, Watermarks
  <1>3. fin <= fin2 /\ safe <= safe2 /\ fin <= safe /\ fin2 <= safe2
    <2>1. fin <= fin2 /\ safe <= safe2
      BY <1>2 DEF IInv, NextIsRaised, Raised, Promoting
    <2>2. fin <= safe /\ fin2 <= safe2
      BY CommitReady DEF IInv, LinkedLedger, WatermarksOrdered
    <2> QED BY <2>1, <2>2
  <1>4. ASSUME b \in Indexed \cup chunk
        PROVE  s0 = IF Height[b] <= fin THEN "finalized"
                    ELSE IF Height[b] <= safe THEN "safe" ELSE "observed"
    <2>1. CASE b \in chunk
      <3>1. HeightOf(sync.observed) < Height[b] /\ safe <= HeightOf(sync.observed)
        BY <2>1, CommitReady DEF IInv, LinkedLedger, WatermarksOrdered
      <3>2. HeightOf(sync.observed) \in Int
        BY HeightFacts, CommitReady
      <3>3. ~(Height[b] <= fin) /\ ~(Height[b] <= safe)
        BY <1>2, <1>3, <3>1, <3>2
      <3> QED BY <2>1, <3>3 DEF UpsertIndexedBlock
    <2>2. CASE b \notin chunk
      BY <1>4, <2>2, CommitReady DEF UpsertIndexedBlock, IInv, FinalityMatchesWatermarks
    <2> QED BY <2>1, <2>2
  <1>5. CommittedStatus(b) =
          PromoteIndexedBlocks(PromoteIndexedBlocks(s0, b, "safe", safe, safe2),
                               b, "finalized", fin, fin2)
    BY DEF CommittedStatus
  <1> HIDE DEF fin, safe, fin2, safe2, s0
  <1>6. ASSUME b \in Indexed \cup chunk
        PROVE  CommittedStatus(b) = IF Height[b] <= fin2 THEN "finalized"
                                    ELSE IF Height[b] <= safe2 THEN "safe" ELSE "observed"
    BY <1>2, <1>3, <1>4, <1>5, <1>6 DEF PromoteIndexedBlocks
  <1> QED BY <1>1, <1>6 DEF fin2, safe2

\* The commit transaction.
LEMMA CommitInv ==
  ASSUME IInv, Commit
  PROVE  LedgerDense' /\ LinkedLedger' /\ FinalityMatchesWatermarks' /\ MemoryInv'
  <1>0. pc = "commit"
    BY DEF Commit
  <1>1. /\ status' = [b \in Hash |-> CommittedStatus(b)]
        /\ sync' = nx /\ pc' = "idle" /\ chunk' = {} /\ candidates' = {} /\ failure' = failure
    BY <1>0, CommitReady DEF Commit, Forget
  <1>2. Indexed' = Indexed \cup chunk
    BY <1>0, <1>1, CommittedRows, HeightFacts DEF Indexed
  <1>3. FinalityMatchesWatermarks'
    BY <1>0, <1>1, <1>2, CommittedRows, HeightFacts DEF FinalityMatchesWatermarks, HeightOf
  <1>4. /\ st = sync /\ nx.observed = previous /\ previous \in Hash /\ ChunkLinked /\ Linking
        /\ Promoting /\ nx \in Watermarks /\ HeightOf(previous) = Height[previous]
    BY <1>0, HeightFacts
    DEF IInv, TypeOK, StateIsCurrent, NextIsRaised, Working, Promoting, Linking
  <1>5. LedgerDense'
    <2> SUFFICES ASSUME NEW n \in StartBlock..HeightOf(nx.observed)
                 PROVE  \E b \in Indexed \cup chunk : Height[b] = n
      BY <1>1, <1>2 DEF LedgerDense, HeightOf
    <2> QED BY <1>4, LocalExists, SettingsAssumption
  <1>6. \A b \in Indexed' : /\ StartBlock <= Height[b]
                            /\ Height[b] <= HeightOf(nx.observed)
                            /\ Height[b] > StartBlock => Parent[b] \in Indexed'
    <2>1. ASSUME NEW b \in Indexed
          PROVE  /\ StartBlock <= Height[b]
                 /\ Height[b] <= HeightOf(nx.observed)
                 /\ Height[b] > StartBlock => Parent[b] \in Indexed'
      <3>1. /\ StartBlock <= Height[b]
            /\ Height[b] <= HeightOf(sync.observed)
            /\ Height[b] > StartBlock => Parent[b] \in Indexed
        BY DEF IInv, LinkedLedger
      <3> QED BY <1>0, <1>2, <1>4, <3>1, CommitReady, HeightFacts
    <2>2. ASSUME NEW b \in chunk
          PROVE  /\ StartBlock <= Height[b]
                 /\ Height[b] <= HeightOf(nx.observed)
                 /\ Height[b] > StartBlock => Parent[b] \in Indexed'
      <3>1. StartBlock <= Height[b] /\ Height[b] <= Height[previous] /\ From <= Height[b]
        BY <1>0, <1>4, CommitReady DEF ChunkLinked
      <3>2. CASE Height[b] > From
        BY <1>2, <1>4, <3>1, <3>2 DEF ChunkLinked
      <3>3. CASE Height[b] = From /\ st.observed # NoBlock
        <4>1. Parent[b] = st.observed /\ st.observed \in Indexed
          BY <1>4, <3>3 DEF ChunkLinked, IInv, LinkedLedger
        <4> QED BY <1>2, <1>4, <3>1, <4>1
      <3>4. CASE Height[b] = From /\ st.observed = NoBlock
        BY <1>4, <3>1, <3>4, HeightFacts, SettingsAssumption
      <3> QED BY <3>1, <3>2, <3>3, <3>4, HeightFacts
    <2> QED BY <1>2, <2>1, <2>2
  <1>7. \A a, b \in Indexed' : Height[a] = Height[b] => a = b
    <2>1. \A a, b \in Indexed : Height[a] = Height[b] => a = b
      BY DEF IInv, LinkedLedger
    <2>2. \A a, b \in chunk : Height[a] = Height[b] => a = b
      BY <1>4 DEF ChunkLinked
    <2>3. \A a \in Indexed, b \in chunk : Height[a] # Height[b] \/ a = b
      BY <1>0, CommitReady DEF RowConflict
    <2> QED BY <1>2, <2>1, <2>2, <2>3
  <1>8. \A w \in {nx.observed, nx.safe, nx.finalized} : w = NoBlock \/ w \in Indexed'
    <2>1. nx.observed \in Indexed'
      BY <1>2, <1>4 DEF ChunkLinked, IInv, LinkedLedger, TypeOK, NextIsRaised
    <2>2. /\ nx.safe = NoBlock \/ nx.safe \in Indexed'
          /\ nx.finalized = NoBlock \/ nx.finalized \in Indexed'
      BY <1>2, <1>4 DEF IInv, NextIsRaised, Raised, LinkedLedger
    <2> QED BY <2>1, <2>2
  <1>9. LinkedLedger'
    BY <1>0, <1>1, <1>6, <1>7, <1>8, CommitReady DEF LinkedLedger, WatermarksOrdered, HeightOf
  <1>10. MemoryInv'
    BY <1>1
    DEF IInv, MemoryInv, StateIsCurrent, ChunkLinked, NextIsRaised, HeadsKnown, PromotionOrdered,
        CandidatesAboveSafe, NoIntegrityFailure, Working, Reading, Promoting, Linking, Recovering
  <1> QED BY <1>3, <1>5, <1>9, <1>10

\* The walk and the first recovery transaction only read the ledger.
LEMMA WalkInv ==
  ASSUME IInv, ReadCandidate \/ EndWalk \/ RecordReorg
  PROVE  LedgerDense' /\ LinkedLedger' /\ FinalityMatchesWatermarks' /\ MemoryInv'
  <1> USE DEF Working, Reading, Promoting, Linking, Recovering
  <1>1. CASE Fail("rpc") \/ Fail("recovery") \/ Fail("safe")
    BY <1>1, FailInv DEF Failures
  <1>2. CASE ~(Fail("rpc") \/ Fail("recovery") \/ Fail("safe"))
    <2>1. /\ pc \in {"walk", "record"} /\ pc' \in {"walk", "record", "recover"}
          /\ UNCHANGED <<status, sync, st, hd, nx, chunk, failure>>
          /\ \A c \in candidates' : c \in candidates \/ Height[c] >= CandidateFloor
      <3>1. CASE ReadCandidate
        BY <1>2, <3>1
        DEF ReadCandidate, Walking, NoHeader, HeaderByNumber, dbVars, readVars
      <3>2. CASE EndWalk
        BY <1>2, <3>2 DEF EndWalk, dbVars, readVars, chunkVars, walkVars
      <3>3. CASE RecordReorg
        BY <1>2, <3>3 DEF RecordReorg, NoHeader, readVars, chunkVars, walkVars
      <3> QED BY <3>1, <3>2, <3>3
    <2>2. LedgerDense' /\ LinkedLedger' /\ FinalityMatchesWatermarks'
      BY <2>1, DbSame
    <2>3. CandidatesAboveSafe'
      BY <2>1 DEF IInv, CandidatesAboveSafe, CandidateFloor, HeightOf
    <2> QED BY <2>1, <2>2, <2>3
            DEF IInv, MemoryInv, StateIsCurrent, ChunkLinked, NextIsRaised, HeadsKnown,
                PromotionOrdered, NoIntegrityFailure
  <1> QED BY <1>1, <1>2

\* What the second recovery transaction does when it finds its ancestor: it keeps
\* the blocks up to the ancestor, which is stored and not below the safe block.
LEMMA RecoverEffect ==
  ASSUME IInv, RecoverReorg, ~Fail("recovery")
  PROVE  \E a \in Indexed :
           /\ HeightOf(sync.safe) <= Height[a]
           /\ status' = [b \in Hash |-> IF Height[b] > Height[a] THEN "absent" ELSE status[b]]
           /\ events' = {b \in events : Height[b] <= Height[a]}
           /\ sync' = [sync EXCEPT !.observed = a]
           /\ pc' = "idle" /\ chunk' = {} /\ candidates' = {} /\ failure' = failure
           /\ Indexed' = {b \in Indexed : Height[b] <= Height[a]}
  <1>1. pc = "recover" /\ st = sync
    BY DEF RecoverReorg, IInv, StateIsCurrent, Working
  <1>2. PICK a \in CommonAncestors :
          /\ status' = [b \in Hash |-> IF Height[b] > Height[a] THEN "absent" ELSE status[b]]
          /\ events' = {b \in events : Height[b] <= Height[a]}
          /\ sync' = RecoveredState(a)
          /\ pc' = "idle" /\ chunk' = {} /\ candidates' = {} /\ failure' = failure
    BY DEF RecoverReorg, Forget
  <1>3. a \in candidates /\ a \in Indexed
    BY DEF CommonAncestors
  <1>4. HeightOf(sync.safe) <= Height[a]
    <2>1. Height[a] >= CandidateFloor
      BY <1>1, <1>3 DEF IInv, CandidatesAboveSafe, Recovering
    <2>2. HeightOf(st.safe) \in Int /\ Height[a] \in Nat
      BY <1>3, HeightFacts DEF IInv, TypeOK, Watermarks
    <2> QED BY <1>1, <2>1, <2>2, SettingsAssumption DEF CandidateFloor, Max2
  <1>5. Indexed' = {b \in Indexed : Height[b] <= Height[a]}
    BY <1>2, <1>3, HeightFacts DEF Indexed
  <1> QED BY <1>1, <1>2, <1>3, <1>4, <1>5 DEF RecoveredState

\* The rollback.
LEMMA RecoverInv ==
  ASSUME IInv, RecoverReorg
  PROVE  LedgerDense' /\ LinkedLedger' /\ FinalityMatchesWatermarks' /\ MemoryInv'
  <1>1. CASE Fail("recovery")
    BY <1>1, FailInv DEF Failures
  <1>2. CASE ~Fail("recovery")
    <2>1. PICK a \in Indexed :
            /\ HeightOf(sync.safe) <= Height[a]
            /\ status' = [b \in Hash |-> IF Height[b] > Height[a] THEN "absent" ELSE status[b]]
            /\ sync' = [sync EXCEPT !.observed = a]
            /\ pc' = "idle" /\ chunk' = {} /\ candidates' = {} /\ failure' = failure
            /\ Indexed' = {b \in Indexed : Height[b] <= Height[a]}
      BY <1>2, RecoverEffect
    <2>2. sync \in Watermarks
      BY DEF IInv, TypeOK
    <2>3. sync'.observed = a /\ sync'.safe = sync.safe /\ sync'.finalized = sync.finalized
      BY <2>1, <2>2 DEF Watermarks
    <2>4. a \in Hash /\ HeightOf(a) = Height[a] /\ Height[a] \in Nat
      BY HeightFacts
    <2>5. Height[a] <= HeightOf(sync.observed) /\ HeightOf(sync.observed) \in Int
      BY <2>2, HeightFacts DEF IInv, LinkedLedger, Watermarks
    <2>6. LedgerDense'
      <3> SUFFICES ASSUME NEW n \in StartBlock..Height[a]
                   PROVE  \E b \in Indexed' : Height[b] = n
        BY <2>3, <2>4 DEF LedgerDense, HeightOf
      <3>1. n \in StartBlock..HeightOf(sync.observed)
        BY <2>4, <2>5, SettingsAssumption
      <3>2. PICK b \in Indexed : Height[b] = n
        BY <3>1 DEF IInv, LedgerDense
      <3> QED BY <2>1, <2>4, <3>2, SettingsAssumption
    <2>7. \A b \in Indexed' : /\ StartBlock <= Height[b]
                              /\ Height[b] <= Height[a]
                              /\ Height[b] > StartBlock => Parent[b] \in Indexed'
      <3> TAKE b \in Indexed'
      <3>1. /\ b \in Indexed /\ Height[b] <= Height[a] /\ StartBlock <= Height[b]
            /\ Height[b] > StartBlock => Parent[b] \in Indexed
        BY <2>1 DEF IInv, LinkedLedger
      <3>2. Parent[b] \in Indexed => Height[Parent[b]] <= Height[a]
        <4>1. Parent[b] \in Indexed => Height[b] = Height[Parent[b]] + 1
          BY <3>1, HeightFacts, TreeAssumption
        <4> QED BY <2>4, <3>1, <4>1, HeightFacts
      <3> QED BY <2>1, <3>1, <3>2
    <2>8. \A b, c \in Indexed' : Height[b] = Height[c] => b = c
      BY <2>1 DEF IInv, LinkedLedger
    <2>9. \A w \in {sync'.observed, sync'.safe, sync'.finalized} : w = NoBlock \/ w \in Indexed'
      <3>1. HeightOf(sync.finalized) <= HeightOf(sync.safe)
        BY DEF IInv, LinkedLedger, WatermarksOrdered
      <3>2. HeightOf(sync.finalized) \in Int /\ HeightOf(sync.safe) \in Int
        BY <2>2, HeightFacts DEF Watermarks
      <3>3. \A w \in {sync.safe, sync.finalized} :
              w = NoBlock \/ (w \in Indexed /\ HeightOf(w) = Height[w] /\ HeightOf(w) <= Height[a])
        BY <2>1, <2>4, <3>1, <3>2, HeightFacts DEF IInv, LinkedLedger
      <3> QED BY <2>1, <2>3, <2>4, <3>3
    <2>10. LinkedLedger'
      BY <2>1, <2>3, <2>4, <2>7, <2>8, <2>9 DEF IInv, LinkedLedger, WatermarksOrdered, HeightOf
    <2>11. FinalityMatchesWatermarks'
      BY <2>1, <2>3, HeightFacts DEF IInv, FinalityMatchesWatermarks, HeightOf
    <2>12. MemoryInv'
      BY <2>1
      DEF IInv, MemoryInv, StateIsCurrent, ChunkLinked, NextIsRaised, HeadsKnown,
          PromotionOrdered, CandidatesAboveSafe, NoIntegrityFailure, Working, Reading, Promoting,
          Linking, Recovering
    <2> QED BY <2>6, <2>10, <2>11, <2>12
  <1> QED BY <1>1, <1>2

\* Every step keeps the invariant.
LEMMA StepInv == ASSUME IInv, [Next]_vars PROVE IInv'
  <1>1. TypeOK'
    BY EnvironmentType, EngineType DEF IInv, Next, vars, TypeOK
  <1>2. LedgerDense' /\ LinkedLedger' /\ FinalityMatchesWatermarks' /\ MemoryInv'
    <2>1. CASE UNCHANGED vars
      BY <2>1, DbSame, MemorySame DEF vars
    <2>2. CASE Provider \/ Crash \/ Restart
      BY <2>2, EnvironmentInv
    <2>3. CASE Engine
      BY <2>3, HeadsInv, CheckObservedInv, ReadHeaderInv, ChunkDoneInv, PromoteSafeInv,
         PromoteFinalizedInv, CommitInv, WalkInv, RecoverInv DEF Engine
    <2> QED BY <2>1, <2>2, <2>3 DEF Next
  <1> QED BY <1>1, <1>2 DEF IInv, MemoryInv

\* The invariant holds in every reachable state.
THEOREM Invariant == Spec => []IInv
  BY InitInv, StepInv, PTL DEF Spec

\* The stored blocks are always one gapless, linked chain from StartBlock to the
\* observed watermark, and every watermark names one of them.
THEOREM LedgerIsLinked == Spec => []LinkedLedger
  BY Invariant, PTL DEF IInv

\* The finality column always agrees with the watermarks.
THEOREM FinalityIsConsistent == Spec => []FinalityMatchesWatermarks
  BY Invariant, PTL DEF IInv

\* Step never raises one of its internal integrity errors.
THEOREM NeverCorrupt == Spec => []NoIntegrityFailure
  BY Invariant, PTL DEF IInv

\* Only the commit and the rollback write the ledger.
LEMMA OnlyTwoWriters ==
  ASSUME IInv, Next, ~(pc = "commit" /\ Commit), ~RecoverReorg
  PROVE  UNCHANGED <<status, events, sync>>
  <1>1. CASE Provider \/ Crash \/ Restart
    BY <1>1 DEF Provider, NewHead, AdvanceSafe, AdvanceFinalized, Crash, Restart, dbVars
  <1>2. CASE ReadState \/ ReadLatest \/ ReadSafe \/ ReadFinalized \/ CheckSafe
    BY <1>2 DEF ReadState, ReadLatest, ReadSafe, ReadFinalized, CheckSafe, NoHeader, Fail, dbVars
  <1>3. CASE CheckObserved \/ ReadHeader
    BY <1>3 DEF CheckObserved, ReadHeader, BeginRecovery, NoHeader, Fail, dbVars
  <1>4. CASE EndChunk \/ Discover \/ RecheckHeader
    BY <1>4 DEF EndChunk, Discover, RecheckHeader, NoHeader, Fail, dbVars
  <1>5. CASE PromoteSafe \/ PromoteFinalized
    BY <1>5 DEF PromoteSafe, PromoteFinalized, Promote, NoHeader, Fail, dbVars
  <1>6. CASE ReadCandidate \/ EndWalk \/ RecordReorg
    BY <1>6 DEF ReadCandidate, EndWalk, RecordReorg, NoHeader, Fail, dbVars
  <1>7. ~Commit
    BY DEF Commit
  <1> QED BY <1>1, <1>2, <1>3, <1>4, <1>5, <1>6, <1>7 DEF Next, Engine

\* No step touches what is at or below the safe watermark, for every provider, also
\* one that reorganises blocks it has tagged safe or finalized.
THEOREM SafePrefixIsStable == Spec => SafePrefixStable
  <1>1. IInv /\ [Next]_vars => [KeepsSafePrefix]_vars
    <2> SUFFICES ASSUME IInv, Next PROVE KeepsSafePrefix
      OBVIOUS
    <2>1. CASE pc = "commit" /\ Commit
      <3>1. /\ status' = [b \in Hash |-> CommittedStatus(b)]
            /\ events' = events \cup logs /\ sync' = nx /\ st = sync
        BY <2>1, CommitReady DEF Commit
      <3>2. Indexed \subseteq Indexed'
        BY <2>1, <3>1, CommittedRows, HeightFacts DEF Indexed
      <3>3. Raised("safe") /\ Raised("finalized")
        BY <2>1 DEF IInv, NextIsRaised, Promoting
      <3> QED BY <3>1, <3>2, <3>3 DEF KeepsSafePrefix, Raised
    <2>2. CASE RecoverReorg
      <3>1. CASE Fail("recovery")
        BY <3>1 DEF Fail, dbVars, KeepsSafePrefix, Indexed
      <3>2. CASE ~Fail("recovery")
        <4>1. PICK a \in Indexed :
                /\ HeightOf(sync.safe) <= Height[a]
                /\ events' = {b \in events : Height[b] <= Height[a]}
                /\ sync' = [sync EXCEPT !.observed = a]
                /\ Indexed' = {b \in Indexed : Height[b] <= Height[a]}
          BY <2>2, <3>2, RecoverEffect
        <4>2. \A b \in Indexed : Height[b] <= HeightOf(sync.safe) => Height[b] <= Height[a]
          BY <4>1, HeightFacts DEF IInv, TypeOK, Watermarks
        <4> QED BY <4>1, <4>2 DEF KeepsSafePrefix, IInv, TypeOK, Watermarks
      <3> QED BY <3>1, <3>2
    <2>3. CASE ~(pc = "commit" /\ Commit) /\ ~RecoverReorg
      BY <2>3, OnlyTwoWriters DEF KeepsSafePrefix, Indexed
    <2> QED BY <2>1, <2>2, <2>3
  <1> QED BY <1>1, Invariant, PTL DEF Spec, SafePrefixStable

-----------------------------------------------------------------------------
(* Chains. *)

\* A set of naturals has a least element.
LEMMA LeastNatural ==
  ASSUME NEW T \in SUBSET Nat, T # {}
  PROVE  \E n \in T : \A m \in T : n <= m
  <1> DEFINE less == OpToRel(<, Nat)
  <1>1. IsWellFoundedOn(less, Nat)
    BY NatLessThanWellFounded
  <1>2. \A x, y \in Nat : x < y => <<x, y>> \in less
    BY DEF OpToRel
  <1> HIDE DEF less
  <1>3. PICK x \in T : \A y \in T : ~(<<y, x>> \in less)
    BY <1>1, WFMin
  <1>4. ASSUME NEW y \in T PROVE x <= y
    <2>1. ~(y < x)
      BY <1>2, <1>3
    <2> QED BY <2>1
  <1> QED BY <1>3, <1>4

\* Two chains that share a block share its ancestors.
LEMMA SharedAncestors ==
  ASSUME NEW c \in Chains, NEW d \in Chains, NEW p \in c \cap d,
         NEW b \in c, Height[b] <= Height[p]
  PROVE  b \in d
  <1> SUFFICES ASSUME b \notin d PROVE FALSE
    OBVIOUS
  <1>1. /\ c \subseteq Hash /\ d \subseteq Hash
        /\ \A x \in c : Parent[x] = NoBlock \/ Parent[x] \in c
        /\ \A x \in d : Parent[x] = NoBlock \/ Parent[x] \in d
        /\ \A x, y \in c : Height[x] = Height[y] => x = y
    BY DEF Chains, IsChain
  <1>2. \A x \in Hash : /\ Height[x] \in Nat
                        /\ Parent[x] = NoBlock => Height[x] = 0
                        /\ Parent[x] # NoBlock => Height[x] = Height[Parent[x]] + 1
    BY TreeAssumption
  <1> DEFINE T == {n \in Nat : \E x \in c \cap d : Height[x] = n /\ Height[b] <= n}
  <1>3. Height[p] \in T
    BY <1>1, <1>2
  <1>4. PICK n \in T : \A m \in T : n <= m
    BY <1>3, LeastNatural
  <1>5. PICK x \in c \cap d : Height[x] = n /\ Height[b] <= n
    BY <1>4
  <1>6. Height[b] < n
    BY <1>1, <1>2, <1>5
  <1>7. /\ Parent[x] \in c \cap d
        /\ Height[Parent[x]] = n - 1 /\ Height[b] <= n - 1 /\ n - 1 \in Nat
    BY <1>1, <1>2, <1>5, <1>6
  <1>8. n - 1 \in T
    BY <1>7
  <1> QED BY <1>4, <1>8

\* Only the provider changes the chain and its tags.
LEMMA ProviderOnly ==
  ASSUME Engine \/ Crash \/ Restart
  PROVE  UNCHANGED chainVars
  <1>1. CASE Crash \/ Restart
    BY <1>1 DEF Crash, Restart
  <1>2. CASE ReadState \/ ReadLatest \/ ReadSafe \/ ReadFinalized \/ CheckSafe
    BY <1>2 DEF ReadState, ReadLatest, ReadSafe, ReadFinalized, CheckSafe, NoHeader, Fail
  <1>3. CASE CheckObserved \/ ReadHeader
    BY <1>3 DEF CheckObserved, ReadHeader, BeginRecovery, NoHeader, Fail
  <1>4. CASE EndChunk \/ Discover \/ RecheckHeader
    BY <1>4 DEF EndChunk, Discover, RecheckHeader, NoHeader, Fail
  <1>5. CASE PromoteSafe \/ PromoteFinalized \/ Commit
    BY <1>5 DEF PromoteSafe, PromoteFinalized, Promote, Commit, NoHeader, Fail
  <1>6. CASE ReadCandidate \/ EndWalk \/ RecordReorg \/ RecoverReorg
    BY <1>6 DEF ReadCandidate, EndWalk, RecordReorg, RecoverReorg, NoHeader, Fail
  <1> QED BY <1>1, <1>2, <1>3, <1>4, <1>5, <1>6 DEF Engine

-----------------------------------------------------------------------------
(* A provider that keeps its safe blocks. *)

\* A block the provider has tagged safe, or an ancestor of one.
Anchored(b) == b \in canon /\ Height[b] <= Height[safeTag]

\* Every block that is, or is about to become, the stored safe block is anchored, and so is
\* the head it was promoted from.
SafeAnchored ==
  /\ sync.safe = NoBlock \/ Anchored(sync.safe)
  /\ Promoting => nx.safe = NoBlock \/ Anchored(nx.safe)
  /\ pc \in {"finalized", "checkSafe", "checkObserved"} \/ Linking => Anchored(hd.safe)
  /\ failure # "safe"

\* An honest provider keeps anchored blocks anchored.
LEMMA AnchoredStays ==
  ASSUME IInv, keptSafe', [Next]_vars, NEW b \in Hash, Anchored(b)
  PROVE  Anchored(b)'
  <1>1. \A x \in Hash : Height[x] \in Nat
    BY TreeAssumption
  <1>2. canon \in Chains /\ safeTag \in canon /\ canon \subseteq Hash
    BY CanonIsHash DEF IInv, TypeOK
  <1>3. ASSUME NEW c \in Chains, NewHead(c) PROVE Anchored(b)'
    <2>1. safeTag \in c /\ canon' = c /\ safeTag' = safeTag
      BY <1>3 DEF NewHead
    <2>2. b \in c
      BY <1>2, <2>1, SharedAncestors DEF Anchored
    <2> QED BY <2>1, <2>2 DEF Anchored
  <1>4. CASE AdvanceSafe
    BY <1>1, <1>2, <1>4 DEF AdvanceSafe, Anchored
  <1>5. CASE AdvanceFinalized \/ UNCHANGED vars
    BY <1>5 DEF AdvanceFinalized, Anchored, vars
  <1>6. CASE Engine \/ Crash \/ Restart
    BY <1>6, ProviderOnly DEF chainVars, Anchored
  <1> QED BY <1>3, <1>4, <1>5, <1>6 DEF Next, Provider

\* An error of another class keeps what is said of the safe blocks.
LEMMA FailSafe ==
  ASSUME IInv, keptSafe', [Next]_vars, SafeAnchored, NEW class \in Failures \ {"safe"}, Fail(class)
  PROVE  SafeAnchored'
  <1>1. sync.safe \in Hash \cup {NoBlock}
    BY DEF IInv, TypeOK, Watermarks
  <1>2. sync' = sync /\ pc' = "down" /\ failure' = class
    BY DEF Fail, dbVars
  <1> QED BY <1>1, <1>2, AnchoredStays
      DEF SafeAnchored, Promoting, Linking

\* So does a step that neither writes the watermarks nor reads the safe head.
LEMMA QuietSafe ==
  ASSUME IInv, keptSafe', [Next]_vars, SafeAnchored, UNCHANGED <<sync, nx, hd>>,
         failure' \in {"none", failure},
         Promoting' => Promoting,
         (pc \in {"finalized", "checkSafe", "checkObserved"} \/ Linking)'
           => (pc \in {"finalized", "checkSafe", "checkObserved"} \/ Linking)
  PROVE  SafeAnchored'
  <1>1. /\ sync.safe \in Hash \cup {NoBlock} /\ nx.safe \in Hash \cup {NoBlock}
        /\ hd.safe \in Hash \cup {NoBlock}
    BY DEF IInv, TypeOK, Watermarks, Heads
  <1>2. NoBlock \notin canon
    BY CanonIsHash, TreeAssumption DEF IInv
  <1>3. \A b \in Hash \cup {NoBlock} : Anchored(b) => b \in Hash /\ Anchored(b)'
    BY <1>2, AnchoredStays DEF Anchored
  <1> QED BY <1>1, <1>3 DEF SafeAnchored

\* The stored observed block is at or above the floor of a recovery, and canonical when it
\* is the safe block.
LEMMA ObservedAboveSafe ==
  ASSUME IInv, SafeAnchored, Working, st.observed # NoBlock
  PROVE  /\ st.observed \in Hash /\ Height[st.observed] \in Nat
         /\ CandidateFloor \in Int /\ CandidateFloor <= Height[st.observed]
         /\ HeightOf(st.safe) \in Int /\ HeightOf(st.safe) <= Height[st.observed]
         /\ AtOrBelowSafe(st.observed) => st.observed = st.safe /\ st.observed \in canon
  <1>1. st = sync
    BY DEF IInv, StateIsCurrent
  <1>2. st.observed \in Indexed /\ (st.safe = NoBlock \/ st.safe \in Indexed)
    BY <1>1 DEF IInv, LinkedLedger
  <1>3. /\ st.observed \in Hash /\ Height[st.observed] \in Nat
        /\ HeightOf(st.observed) = Height[st.observed] /\ HeightOf(st.safe) \in Int
        /\ st.safe # NoBlock => HeightOf(st.safe) = Height[st.safe]
        /\ st.safe = NoBlock => HeightOf(st.safe) = -1
    BY <1>2, HeightFacts
  <1>4. StartBlock <= Height[st.observed] /\ HeightOf(st.safe) <= Height[st.observed]
    BY <1>1, <1>2, <1>3 DEF IInv, LinkedLedger, WatermarksOrdered
  <1>5. AtOrBelowSafe(st.observed) => st.observed = st.safe /\ st.observed \in canon
    <2> SUFFICES ASSUME AtOrBelowSafe(st.observed)
                 PROVE  st.observed = st.safe /\ st.observed \in canon
      OBVIOUS
    <2>1. st.safe # NoBlock /\ Height[st.safe] = Height[st.observed]
      BY <1>3, <1>4 DEF AtOrBelowSafe
    <2>2. st.safe = st.observed
      BY <1>2, <2>1 DEF IInv, LinkedLedger
    <2> QED BY <1>1, <2>1, <2>2 DEF SafeAnchored, Anchored
  <1>6. CandidateFloor \in Int /\ CandidateFloor <= Height[st.observed]
    BY <1>3, <1>4, SettingsAssumption DEF CandidateFloor, Max2
  <1> QED BY <1>3, <1>4, <1>5, <1>6

\* A recovery that starts at or above the observed block is never refused as a violation.
LEMMA BeginRecoverySafe ==
  ASSUME IInv, keptSafe', [Next]_vars, SafeAnchored, Working, Linking \/ pc = "checkObserved",
         NEW h \in Hash, BeginRecovery(h),
         st.observed # NoBlock => Height[h] >= Height[st.observed]
  PROVE  SafeAnchored'
  <1>1. CASE st.observed = NoBlock
    BY <1>1, FailSafe DEF BeginRecovery, Failures
  <1>2. CASE st.observed # NoBlock
    <2>1. Height[h] >= CandidateFloor
      BY <1>2, ObservedAboveSafe, HeightFacts
    <2>2. ~(Height[h] < CandidateFloor)
      BY <1>2, <2>1, ObservedAboveSafe, HeightFacts
    <2>3. pc' = "walk" /\ UNCHANGED <<sync, nx, hd, failure>>
      BY <1>2, <2>2 DEF BeginRecovery, dbVars
    <2> QED BY <2>3, QuietSafe DEF Promoting, Linking
  <1> QED BY <1>1, <1>2

\* The reads of the state and the heads.
LEMMA HeadsSafe ==
  ASSUME IInv, keptSafe', SafeAnchored,
         ReadState \/ ReadLatest \/ ReadSafe \/ ReadFinalized
  PROVE  SafeAnchored'
  <1>0. [Next]_vars
    BY DEF Next, Engine
  <1>1. /\ sync.safe \in Hash \cup {NoBlock} /\ hd \in Heads
        /\ canon \subseteq Hash /\ NoBlock \notin Hash /\ safeTag \in canon
    BY CanonIsHash, TreeAssumption DEF IInv, TypeOK, Watermarks
  <1>2. sync' = sync => (sync.safe = NoBlock \/ Anchored(sync.safe)')
    BY <1>0, <1>1, AnchoredStays DEF SafeAnchored
  <1>3. CASE ReadState
    BY <1>2, <1>3 DEF ReadState, dbVars, SafeAnchored, Promoting, Linking
  <1>4. CASE ReadLatest
    BY <1>2, <1>4 DEF ReadLatest, dbVars, SafeAnchored, Promoting, Linking
  <1>5. CASE ReadSafe
    <2>1. safeTag \in canon' /\ Height[safeTag] <= Height[safeTag'] /\ UNCHANGED sync
      BY <1>1, <1>5, TreeAssumption DEF ReadSafe, chainVars, dbVars
    <2>2. hd'.safe = safeTag
      BY <1>1, <1>5 DEF ReadSafe, Heads
    <2>3. Anchored(hd.safe)'
      BY <2>1, <2>2 DEF Anchored
    <2> QED BY <1>2, <1>5, <2>1, <2>3
        DEF ReadSafe, SafeAnchored, Promoting, Linking
  <1>6. CASE ReadFinalized
    <2>1. CASE Fail("heads")
      BY <1>0, <2>1, FailSafe DEF Failures
    <2>2. CASE ~Fail("heads")
      <3>1. /\ hd' = [hd EXCEPT !.finalized = finalTag] /\ pc = "finalized" /\ pc' = "checkSafe"
            /\ UNCHANGED <<sync, failure>>
        BY <1>6, <2>2 DEF ReadFinalized, dbVars
      <3>2. hd'.safe = hd.safe /\ hd.safe \in Hash /\ Anchored(hd.safe)
        BY <1>1, <3>1 DEF Heads, SafeAnchored, Anchored
      <3>3. Anchored(hd.safe)'
        <4>1. UNCHANGED <<canon, safeTag, hd.safe>>
          BY <1>6, <2>2, <3>2 DEF ReadFinalized, chainVars
        <4> QED BY <3>2, <4>1 DEF Anchored
      <3> QED BY <1>2, <3>1, <3>2, <3>3
          DEF SafeAnchored, Promoting, Linking
    <2> QED BY <2>1, <2>2
  <1> QED BY <1>3, <1>4, <1>5, <1>6

\* The checks of the stored blocks find no violation.
LEMMA ChecksSafe ==
  ASSUME IInv, keptSafe', SafeAnchored, CheckSafe \/ CheckObserved
  PROVE  SafeAnchored'
  <1>0. [Next]_vars
    BY DEF Next, Engine
  <1>1. \A a, b \in canon : Height[a] = Height[b] => a = b
    BY DEF IInv, TypeOK, Chains, IsChain
  <1>2. st = sync /\ Working
    BY DEF CheckSafe, CheckObserved, IInv, StateIsCurrent, Working
  <1>3. CASE Fail("rpc")
    BY <1>0, <1>3, FailSafe DEF Failures
  <1>4. CASE CheckSafe /\ ~Fail("rpc")
    <2>1. st.safe = NoBlock \/ st.safe \in canon
      BY <1>2 DEF SafeAnchored, Anchored
    <2>2. ~ \E h \in HeaderByNumber(Height[st.safe]) : st.safe # NoBlock /\ h # st.safe
      BY <1>1, <2>1 DEF HeaderByNumber
    <2>3. pc = "checkSafe" /\ pc' = "checkObserved" /\ UNCHANGED <<sync, nx, hd, failure>>
      BY <1>4, <2>2 DEF CheckSafe, NoHeader, dbVars, readVars, chunkVars
    <2> QED BY <1>0, <2>3, QuietSafe DEF Promoting, Linking
  <1>5. CASE CheckObserved /\ ~Fail("rpc")
    <2>1. pc = "checkObserved"
      BY <1>5 DEF CheckObserved
    <2>2. CASE /\ st.observed # NoBlock
               /\ \E h \in HeaderByNumber(Height[st.observed]) :
                    /\ h # st.observed
                    /\ IF AtOrBelowSafe(st.observed) THEN Fail("safe") ELSE BeginRecovery(h)
      <3>1. PICK h \in HeaderByNumber(Height[st.observed]) :
              /\ h # st.observed
              /\ IF AtOrBelowSafe(st.observed) THEN Fail("safe") ELSE BeginRecovery(h)
        BY <2>2
      <3>2. h \in canon /\ h \in Hash /\ Height[h] = Height[st.observed]
        BY CanonIsHash DEF HeaderByNumber, IInv
      <3>3. ~AtOrBelowSafe(st.observed)
        BY <1>1, <1>2, <2>2, <3>1, <3>2, ObservedAboveSafe
      <3>4. Height[h] >= Height[st.observed]
        BY <3>2, HeightFacts
      <3> QED BY <1>0, <1>2, <2>1, <3>1, <3>2, <3>3, <3>4, BeginRecoverySafe
    <2>3. CASE pc' = "chunk" /\ UNCHANGED <<sync, nx, hd, failure>>
      BY <1>0, <2>1, <2>3, QuietSafe DEF Promoting, Linking
    <2> QED BY <1>5, <2>2, <2>3 DEF CheckObserved, NoHeader, dbVars, readVars
  <1> QED BY <1>3, <1>4, <1>5

\* Neither does the header loop: the block on top of the safe block links to it.
LEMMA ChunkSafe ==
  ASSUME IInv, keptSafe', SafeAnchored, ReadHeader \/ EndChunk \/ Discover \/ RecheckHeader
  PROVE  SafeAnchored'
  <1>0. [Next]_vars
    BY DEF Next, Engine
  <1>1. pc \in {"chunk", "logs", "recheck"} /\ Linking /\ Working /\ st = sync /\ nx = st
    BY DEF ReadHeader, EndChunk, Discover, RecheckHeader, IInv, StateIsCurrent, NextIsRaised,
           Linking, Working, Reading
  <1>2. CASE Fail("rpc") \/ Fail("canonical")
    BY <1>0, <1>2, FailSafe DEF Failures
  <1>3. CASE ReadHeader /\ ~Fail("rpc")
    <2>1. PICK h \in HeaderByNumber(cursor) :
            \/ ~Links(h) /\ IF AtOrBelowSafe(previous) THEN Fail("safe") ELSE BeginRecovery(h)
            \/ pc' = pc /\ UNCHANGED <<sync, nx, hd, failure>>
      BY <1>3 DEF ReadHeader, NoHeader, dbVars, readVars
    <2>2. h \in canon /\ h \in Hash /\ Height[h] = cursor
      BY CanonIsHash DEF HeaderByNumber, IInv
    <2>3. CASE pc' = pc /\ UNCHANGED <<sync, nx, hd, failure>>
      BY <1>0, <2>3, QuietSafe DEF Promoting, Linking
    <2>4. CASE ~Links(h) /\ IF AtOrBelowSafe(previous) THEN Fail("safe") ELSE BeginRecovery(h)
      <3>1. /\ previous # NoBlock /\ previous \in Hash /\ Parent[h] # previous
            /\ cursor = (IF chunk = {} THEN From ELSE Height[previous] + 1)
            /\ chunk = {} => previous = st.observed
            /\ chunk # {} => From <= Height[previous]
        BY <1>1, <1>3, <2>4 DEF ReadHeader, Links, IInv, TypeOK, ChunkLinked
      <3>2. st.observed # NoBlock => Height[h] >= Height[st.observed]
        BY <2>2, <3>1, HeightFacts DEF IInv, TypeOK, Watermarks
      <3>3. ~AtOrBelowSafe(previous)
        <4>1. CASE chunk = {}
          <5>1. Height[h] = Height[previous] + 1 /\ previous = st.observed
            BY <2>2, <3>1, <4>1 DEF From
          <5>2. Parent[h] \in canon /\ Height[Parent[h]] = Height[previous]
            <6>1. Height[h] # 0 /\ Height[previous] \in Nat
              BY <3>1, <5>1, HeightFacts
            <6>2. Parent[h] # NoBlock
              BY <2>2, <6>1, TreeAssumption
            <6>3. Parent[h] \in canon /\ Height[h] = Height[Parent[h]] + 1 /\ Parent[h] \in Hash
              BY <2>2, <6>2, TreeAssumption DEF IInv, TypeOK, Chains, IsChain
            <6> QED BY <5>1, <6>1, <6>3, HeightFacts
          <5>3. previous \notin canon
            BY <3>1, <5>2 DEF IInv, TypeOK, Chains, IsChain
          <5> QED BY <1>1, <3>1, <5>1, <5>3, ObservedAboveSafe
        <4>2. CASE chunk # {}
          <5>1. HeightOf(sync.safe) <= HeightOf(sync.observed) /\ HeightOf(sync.safe) \in Int
            BY HeightFacts DEF IInv, LinkedLedger, WatermarksOrdered, TypeOK, Watermarks
          <5>2. HeightOf(sync.observed) < From
            BY <1>1, HeightFacts
          <5> QED BY <1>1, <3>1, <4>2, <5>1, <5>2, HeightFacts DEF AtOrBelowSafe
        <4> QED BY <4>1, <4>2
      <3> QED BY <1>0, <1>1, <2>2, <2>4, <3>2, <3>3, BeginRecoverySafe
    <2> QED BY <2>1, <2>3, <2>4
  <1>4. CASE (EndChunk \/ Discover \/ RecheckHeader) /\ ~(Fail("rpc") \/ Fail("canonical"))
    <2>1. /\ UNCHANGED <<sync, failure>>
          /\ pc' = "idle" \/ hd' = hd
          /\ nx'.safe = sync.safe \/ pc' = "idle"
          /\ pc' \in {"idle", "logs", "recheck", "promoteSafe"}
      <3>1. nx \in Watermarks
        BY DEF IInv, TypeOK
      <3>2. CASE EndChunk
        BY <1>1, <3>2 DEF EndChunk, dbVars, readVars, chunkVars
      <3>3. CASE Discover
        BY <1>1, <1>4, <3>3 DEF Discover, dbVars, readVars
      <3>4. CASE RecheckHeader
        BY <1>1, <1>4, <3>1, <3>4 DEF RecheckHeader, NoHeader, dbVars, readVars, Watermarks
      <3> QED BY <1>4, <3>2, <3>3, <3>4
    <2>2. sync.safe = NoBlock \/ Anchored(sync.safe)'
      <3>1. sync.safe \in Hash \cup {NoBlock}
        BY DEF IInv, TypeOK, Watermarks
      <3> QED BY <1>0, <2>1, <3>1, AnchoredStays DEF SafeAnchored
    <2>3. UNCHANGED <<canon, safeTag>>
      BY <1>4, ProviderOnly DEF Engine, chainVars
    <2>4. pc' # "idle" => Anchored(hd.safe)'
      BY <1>1, <2>1, <2>3 DEF SafeAnchored, Anchored
    <2>5. pc' # "idle" => nx'.safe = NoBlock \/ Anchored(nx.safe)'
      BY <2>1, <2>3 DEF SafeAnchored, Anchored
    <2> QED BY <2>1, <2>2, <2>4, <2>5
        DEF SafeAnchored, Promoting, Linking
  <1> QED BY <1>2, <1>3, <1>4

\* A promoted block is at or below the provider's safe head.
LEMMA PromoteStaysSafe ==
  ASSUME IInv, keptSafe', SafeAnchored, PromoteSafe \/ PromoteFinalized
  PROVE  SafeAnchored'
  <1>0. [Next]_vars
    BY DEF Next, Engine
  <1>1. /\ pc \in {"promoteSafe", "promoteFinalized"} /\ Promoting /\ Linking
        /\ nx \in Watermarks /\ hd.safe \in Hash /\ hd.finalized \in Hash
    BY DEF PromoteSafe, PromoteFinalized, Promoting, Linking, IInv, TypeOK, HeadsKnown
  <1>2. UNCHANGED <<canon, safeTag>>
    BY ProviderOnly DEF Engine, chainVars
  <1>3. CASE Fail("rpc") \/ Fail("canonical")
    BY <1>0, <1>3, FailSafe DEF Failures
  <1>4. CASE ~(Fail("rpc") \/ Fail("canonical"))
    <2>1. /\ pc' \in {"promoteFinalized", "commit"} /\ UNCHANGED <<sync, hd, failure>>
          /\ \/ nx' = nx
             \/ \E local \in canon \cap Hash : /\ nx' = [nx EXCEPT !.safe = local]
                                               /\ Height[local] = PromotionNumber(hd.safe)
             \/ \E local : nx' = [nx EXCEPT !.finalized = local]
      <3>1. CASE PromoteSafe
        <4>1. Promote("safe", hd.safe, "promoteFinalized")
          BY <3>1 DEF PromoteSafe
        <4>2. /\ pc' = "promoteFinalized" /\ UNCHANGED <<sync, hd, failure>>
          BY <1>1, <1>4, <4>1, PromoteEffect DEF dbVars, readVars, Pcs
        <4>3. \/ nx' = nx
              \/ \E local : \E h \in HeaderByNumber(PromotionNumber(hd.safe)) :
                   h = local /\ nx' = [nx EXCEPT !["safe"] = local]
          BY <1>1, <1>4, <4>1, <4>2 DEF Promote, NoHeader, Fail
        <4> QED BY <4>2, <4>3, CanonIsHash DEF HeaderByNumber, IInv
      <3>2. CASE PromoteFinalized
        <4>1. Promote("finalized", hd.finalized, "commit")
          BY <3>2 DEF PromoteFinalized
        <4>2. /\ pc' = "commit" /\ UNCHANGED <<sync, hd, failure>>
              /\ nx' = nx \/ \E local : nx' = [nx EXCEPT !["finalized"] = local]
          BY <1>1, <1>4, <4>1, PromoteEffect DEF dbVars, readVars, Pcs
        <4> QED BY <4>2
      <3> QED BY <3>1, <3>2
    <2>2. nx'.safe = NoBlock \/ Anchored(nx.safe)'
      <3>1. nx.safe = NoBlock \/ Anchored(nx.safe)
        BY <1>1 DEF SafeAnchored
      <3>2. CASE nx'.safe = nx.safe
        BY <1>2, <3>1, <3>2 DEF Anchored
      <3>3. ASSUME NEW local \in canon \cap Hash, nx' = [nx EXCEPT !.safe = local],
                   Height[local] = PromotionNumber(hd.safe)
            PROVE  nx'.safe = NoBlock \/ Anchored(nx.safe)'
        <4>1. nx'.safe = local
          BY <1>1, <3>3 DEF Watermarks
        <4>2. nx.observed \in Hash
          BY <1>1 DEF IInv, TypeOK, NextIsRaised
        <4>3. Height[local] <= Height[hd.safe]
          BY <1>1, <3>3, <4>2, HeightFacts DEF PromotionNumber, Min2
        <4>4. Height[hd.safe] <= Height[safeTag] /\ safeTag \in Hash
          BY <1>1, CanonIsHash DEF SafeAnchored, Anchored, IInv, TypeOK
        <4>5. Height[local] <= Height[safeTag]
          BY <1>1, <4>3, <4>4, HeightFacts
        <4> QED BY <1>2, <4>1, <4>5 DEF Anchored
      <3> QED BY <1>1, <2>1, <3>2, <3>3 DEF Watermarks
    <2>3. sync.safe = NoBlock \/ Anchored(sync.safe)'
      BY <1>2, <2>1 DEF SafeAnchored, Anchored
    <2>4. Anchored(hd.safe)'
      BY <1>1, <1>2, <2>1 DEF SafeAnchored, Anchored
    <2> QED BY <2>1, <2>2, <2>3, <2>4 DEF SafeAnchored
  <1> QED BY <1>3, <1>4

\* The commit and the recovery.
LEMMA WritesSafe ==
  ASSUME IInv, keptSafe', SafeAnchored,
         Commit \/ ReadCandidate \/ EndWalk \/ RecordReorg \/ RecoverReorg
  PROVE  SafeAnchored'
  <1>0. [Next]_vars
    BY DEF Next, Engine
  <1>1. UNCHANGED <<canon, safeTag>>
    BY ProviderOnly DEF Engine, chainVars
  <1>2. CASE Fail("rpc") \/ Fail("recovery")
    BY <1>0, <1>2, FailSafe DEF Failures
  <1>3. CASE Commit
    <2>1. pc = "commit" /\ sync' = nx /\ pc' = "idle" /\ failure' = failure
      BY <1>3, CommitReady DEF Commit
    <2>2. nx.safe = NoBlock \/ Anchored(nx.safe)
      BY <2>1 DEF SafeAnchored, Promoting
    <2>3. sync'.safe = NoBlock \/ Anchored(sync.safe)'
      BY <1>1, <2>1, <2>2 DEF Anchored
    <2> QED BY <2>1, <2>3 DEF SafeAnchored, Promoting, Linking
  <1>4. CASE (ReadCandidate \/ EndWalk \/ RecordReorg) /\ ~(Fail("rpc") \/ Fail("recovery"))
    <2>1. /\ pc' \in {"walk", "record", "recover"} /\ UNCHANGED <<sync, nx, hd, failure>>
      <3>1. CASE ReadCandidate \/ EndWalk
        BY <1>4, <3>1 DEF ReadCandidate, EndWalk, NoHeader, dbVars, readVars, chunkVars
      <3>2. CASE RecordReorg
        <4>1. pc = "record"
          BY <3>2 DEF RecordReorg
        <4>2. ASSUME NEW a \in CommonAncestors PROVE ~(Height[a] < HeightOf(st.safe))
          <5>1. Height[a] >= CandidateFloor /\ a \in Hash
            BY <4>1, HeightFacts DEF CommonAncestors, IInv, CandidatesAboveSafe, Recovering
          <5>2. HeightOf(st.safe) \in Int /\ Height[a] \in Nat
            BY <5>1, HeightFacts DEF IInv, TypeOK, Watermarks
          <5> QED BY <5>1, <5>2, SettingsAssumption DEF CandidateFloor, Max2
        <4> QED BY <1>4, <3>2, <4>2 DEF RecordReorg, NoHeader, readVars, chunkVars
      <3> QED BY <1>4, <3>1, <3>2
    <2> QED BY <1>0, <2>1, QuietSafe DEF Promoting, Linking
  <1>5. CASE RecoverReorg /\ ~Fail("recovery")
    <2>1. PICK a : sync' = [sync EXCEPT !.observed = a] /\ pc' = "idle" /\ failure' = failure
      BY <1>5, RecoverEffect
    <2>2. sync'.safe = sync.safe
      BY <2>1 DEF IInv, TypeOK, Watermarks
    <2>3. sync'.safe = NoBlock \/ Anchored(sync.safe)'
      BY <1>1, <2>2 DEF SafeAnchored, Anchored
    <2> QED BY <2>1, <2>3 DEF SafeAnchored, Promoting, Linking
  <1> QED BY <1>2, <1>3, <1>4, <1>5

LEMMA SafeStep ==
  ASSUME IInv, keptSafe', SafeAnchored, [Next]_vars
  PROVE  SafeAnchored'
  <1>1. CASE Provider \/ UNCHANGED vars
    <2>1. UNCHANGED <<sync, nx, hd, pc, failure>>
      BY <1>1 DEF Provider, NewHead, AdvanceSafe, AdvanceFinalized, dbVars, procVars, vars
    <2> QED BY <2>1, QuietSafe DEF Promoting, Linking
  <1>2. CASE Crash \/ Restart
    <2>1. /\ UNCHANGED sync /\ pc' \in {"idle", "down"} /\ failure' = "none"
      BY <1>2 DEF Crash, Restart, dbVars
    <2>2. sync.safe \in Hash \cup {NoBlock}
      BY DEF IInv, TypeOK, Watermarks
    <2> QED BY <2>1, <2>2, AnchoredStays
        DEF SafeAnchored, Promoting, Linking
  <1>3. CASE Engine
    BY <1>3, HeadsSafe, ChecksSafe, ChunkSafe, PromoteStaysSafe, WritesSafe DEF Engine
  <1> QED BY <1>1, <1>2, <1>3 DEF Next

LEMMA SafeInit == Init => SafeAnchored
  BY DEF Init, SafeAnchored, NoState, Promoting, Linking

\* A provider that has kept its safe blocks after a step had kept them before it.
LEMMA KeptBefore == ASSUME [Next]_vars, keptSafe' PROVE keptSafe
  <1>1. CASE Provider \/ UNCHANGED vars
    BY <1>1 DEF Provider, NewHead, AdvanceSafe, AdvanceFinalized, vars
  <1>2. CASE Engine \/ Crash \/ Restart
    BY <1>2, ProviderOnly DEF chainVars
  <1> QED BY <1>1, <1>2 DEF Next

\* What is said of the safe blocks holds as long as the provider keeps them.
LEMMA AnchoredWhileKept == Spec => [](keptSafe => SafeAnchored)
  <1>1. IInv /\ (keptSafe => SafeAnchored) /\ [Next]_vars => (keptSafe => SafeAnchored)'
    BY SafeStep, KeptBefore
  <1> QED BY <1>1, SafeInit, Invariant, PTL DEF Spec

\* As long as the provider has kept the blocks it tagged safe, the stored safe block is on
\* its canonical chain, however its other blocks are reorganised between Step's reads.
THEOREM SafeBlockIsCanonical == Spec => []SafeIsCanonical
  <1>1. (keptSafe => SafeAnchored) => SafeIsCanonical
    BY DEF SafeAnchored, SafeIsCanonical, Anchored
  <1> QED BY <1>1, AnchoredWhileKept, PTL

\* Until it has abandoned one, ErrSafeViolation is not raised.
THEOREM NoViolationRaised == Spec => []NoFalseSafeViolation
  <1>1. (keptSafe => SafeAnchored) => NoFalseSafeViolation
    BY DEF SafeAnchored, NoFalseSafeViolation
  <1> QED BY <1>1, AnchoredWhileKept, PTL

-----------------------------------------------------------------------------
(* A provider that does not return to a block it has abandoned (~Readopt): *)
(* the events are those of the stored blocks, a rollback removes only      *)
(* abandoned blocks, and what operators are shown is true.  The invariant  *)
(* speaks of `orphans`, the history of the chain.                          *)

\* Every block Step or the ledger holds was canonical once, and an abandoned block is not
\* canonical any more.
BlocksKnown ==
  /\ canon \cap orphans = {}
  /\ Indexed \cup chunk \cup candidates \subseteq canon \cup orphans

\* While recoverReorg runs, every height from the cursor up to the detected tip has a
\* candidate, and a stored block at that height is the candidate or has been abandoned.
RecoveryCovers ==
  Recovering =>
    /\ st.observed \in Hash /\ tip \in Hash
    /\ Height[st.observed] <= Height[tip]
    /\ \A n \in (cursor + 1)..Height[tip] : \E d \in candidates : Height[d] = n
    /\ \A d \in candidates : /\ cursor < Height[d]
                             /\ \A b \in Indexed : Height[b] = Height[d] => b = d \/ b \in orphans

\* The ancestor found by the first recovery transaction is still there for the second.
AncestorStays == pc = "recover" => CommonAncestors # {}

\* The chunk stays inside the range for which logs are asked.
ChunkInRange == pc \in {"chunk", "logs"} => \A b \in chunk : Height[b] <= To

\* The logs are those of the chunk, unless its last block was abandoned before they were read.
LogsMatch ==
  /\ Promoting => logs = chunk \cap LogBlocks
  /\ pc = "recheck" => logs = chunk \cap LogBlocks \/ previous \in orphans
  /\ ~Promoting /\ pc # "recheck" => logs = {}

\* What the engine keeps when its provider never returns to an abandoned block.
OInv ==
  /\ BlocksKnown
  /\ RecoveryCovers
  /\ AncestorStays
  /\ ChunkInRange
  /\ LogsMatch
  /\ EventsComplete
  /\ OperatorsSeeTruth

-----------------------------------------------------------------------------
(* Helpers. *)

\* The history grows: a block that was canonical once stays known, an abandoned one stays so.
LEMMA HistoryGrows ==
  ASSUME ~Readopt, BlocksKnown, [Next]_vars
  PROVE  /\ canon' \cap orphans' = {}
         /\ canon \cup orphans \subseteq canon' \cup orphans'
         /\ orphans \subseteq orphans'
  <1>1. ASSUME NEW c \in Chains, NewHead(c)
        PROVE  /\ canon' \cap orphans' = {}
               /\ canon \cup orphans \subseteq canon' \cup orphans'
               /\ orphans \subseteq orphans'
    <2>1. canon' = c /\ orphans' = orphans \cup (canon \ c) /\ c \cap orphans = {}
      BY <1>1 DEF NewHead
    <2> QED BY <2>1
  <1>2. CASE AdvanceSafe \/ AdvanceFinalized \/ UNCHANGED vars
    BY <1>2 DEF AdvanceSafe, AdvanceFinalized, vars, BlocksKnown
  <1>3. CASE Engine \/ Crash \/ Restart
    BY <1>3, ProviderOnly DEF chainVars, BlocksKnown
  <1> QED BY <1>1, <1>2, <1>3 DEF Next, Provider

\* What is said of the database stays true while nobody writes it.
LEMMA LedgerSame ==
  ASSUME ~Readopt, OInv, [Next]_vars, UNCHANGED <<status, events>>,
         health' \in {NoBlock, health}, OpenReorgsExplained'
  PROVE  EventsComplete' /\ OperatorsSeeTruth' /\ Indexed' = Indexed
  <1>1. Indexed' = Indexed
    BY DEF Indexed
  <1>2. orphans \subseteq orphans'
    BY HistoryGrows DEF OInv
  <1> QED BY <1>1, <1>2 DEF OInv, EventsComplete, OperatorsSeeTruth, HealthReportsCommitted

\* Blocks stay known while Step takes only canonical ones into its memory.
LEMMA KnownStays ==
  ASSUME ~Readopt, OInv, [Next]_vars,
         Indexed' \cup chunk' \cup candidates' \subseteq Indexed \cup chunk \cup candidates \cup canon
  PROVE  BlocksKnown'
  <1>1. /\ canon' \cap orphans' = {}
        /\ canon \cup orphans \subseteq canon' \cup orphans'
    BY HistoryGrows DEF OInv
  <1> QED BY <1>1 DEF OInv, BlocksKnown

\* A process that has forgotten everything keeps the rest.
LEMMA ForgottenInv ==
  ASSUME ~Readopt, OInv, [Next]_vars, UNCHANGED <<status, events>>,
         chunk' = {}, candidates' = {}, logs' = {}, pc' \in {"down", "idle"},
         health' \in {NoBlock, health}, OpenReorgsExplained'
  PROVE  OInv'
  <1>1. EventsComplete' /\ OperatorsSeeTruth' /\ Indexed' = Indexed
    BY LedgerSame
  <1>2. BlocksKnown'
    BY <1>1, KnownStays
  <1> QED BY <1>1, <1>2
      DEF OInv, RecoveryCovers, AncestorStays, ChunkInRange, LogsMatch, Recovering, Promoting

\* An error anywhere but between the two recovery transactions.
LEMMA FailHistory ==
  ASSUME ~Readopt, OInv, [Next]_vars, pc # "recover", NEW class, Fail(class)
  PROVE  OInv'
  <1>1. UNCHANGED <<status, events, openReorgs, crashes>>
    BY DEF Fail, dbVars
  <1>2. OpenReorgsExplained'
    BY <1>1 DEF Fail, OInv, OperatorsSeeTruth, OpenReorgsExplained
  <1> QED BY <1>1, <1>2, ForgottenInv DEF Fail, Forget

\* The provider and stuttering steps.
LEMMA ProviderHistory ==
  ASSUME IInv, ~Readopt, OInv, Provider \/ UNCHANGED vars
  PROVE  OInv'
  <1>0. [Next]_vars
    BY DEF Next
  <1>1. UNCHANGED <<dbVars, procVars, failure, crashes>>
    BY DEF Provider, NewHead, AdvanceSafe, AdvanceFinalized, vars, dbVars, procVars
  <1>2. UNCHANGED <<status, events, openReorgs, pc, st, hd, cursor, previous, chunk, logs, tip,
                    candidates, health, crashes>>
    BY <1>1 DEF dbVars, procVars
  <1>3. OpenReorgsExplained'
    BY <1>2 DEF OInv, OperatorsSeeTruth, OpenReorgsExplained
  <1>4. EventsComplete' /\ OperatorsSeeTruth' /\ Indexed' = Indexed
    BY <1>0, <1>2, <1>3, LedgerSame
  <1>5. BlocksKnown'
    BY <1>0, <1>2, <1>4, KnownStays
  <1>6. orphans \subseteq orphans'
    BY <1>0, HistoryGrows DEF OInv
  <1>7. RecoveryCovers' /\ AncestorStays'
    BY <1>2, <1>4, <1>6 DEF OInv, RecoveryCovers, AncestorStays, CommonAncestors, Recovering
  <1>8. ChunkInRange' /\ LogsMatch'
    BY <1>2, <1>6 DEF OInv, ChunkInRange, LogsMatch, To, From, Promoting
  <1> QED BY <1>4, <1>5, <1>7, <1>8 DEF OInv

\* Deaths and restarts.
LEMMA CrashHistory ==
  ASSUME IInv, ~Readopt, OInv, Crash \/ Restart
  PROVE  OInv'
  <1>0. [Next]_vars
    BY DEF Next
  <1>1. UNCHANGED <<status, events, openReorgs>>
    BY DEF Crash, Restart, dbVars
  <1>2. openReorgs \in Int /\ crashes \in Nat
    BY DEF IInv, TypeOK
  <1>3. CASE Crash
    <2>1. OpenReorgsExplained'
      BY <1>1, <1>2, <1>3 DEF Crash, OInv, OperatorsSeeTruth, OpenReorgsExplained
    <2> QED BY <1>0, <1>1, <1>3, <2>1, ForgottenInv DEF Crash, Forget
  <1>4. CASE Restart
    <2>1. pc = "down" /\ pc' = "idle" /\ UNCHANGED <<chunk, logs, candidates, health, crashes>>
      BY <1>4 DEF Restart, chunkVars, walkVars
    <2>2. chunk = {} /\ candidates = {} /\ logs = {}
      BY <2>1 DEF IInv, ChunkLinked, CandidatesAboveSafe, Linking, Promoting, Recovering,
                  OInv, LogsMatch
    <2>3. OpenReorgsExplained'
      BY <1>1, <2>1 DEF OInv, OperatorsSeeTruth, OpenReorgsExplained
    <2> QED BY <1>0, <1>1, <2>1, <2>2, <2>3, ForgottenInv
  <1> QED BY <1>3, <1>4

-----------------------------------------------------------------------------
(* The reads of Step. *)

\* A step that keeps the database, the health surface and the death count, outside the
\* second recovery transaction, explains the open incidents as before.
LEMMA ReorgsSame ==
  ASSUME OInv, UNCHANGED <<openReorgs, crashes>>, pc # "recover", pc' # "recover"
  PROVE  OpenReorgsExplained'
  BY DEF OInv, OperatorsSeeTruth, OpenReorgsExplained

\* The reads of the state and the heads, and the check of the safe block.
LEMMA HeadsHistory ==
  ASSUME IInv, ~Readopt, OInv,
         ReadState \/ ReadLatest \/ ReadSafe \/ ReadFinalized \/ CheckSafe
  PROVE  OInv'
  <1>0. [Next]_vars
    BY DEF Next, Engine
  <1>1. pc \in {"idle", "latest", "safe", "finalized", "checkSafe"}
    BY DEF ReadState, ReadLatest, ReadSafe, ReadFinalized, CheckSafe
  <1>2. CASE \E class : Fail(class)
    BY <1>0, <1>1, <1>2, FailHistory
  <1>3. CASE ~ \E class : Fail(class)
    <2>1. /\ UNCHANGED <<status, events, openReorgs, chunk, logs, candidates, health, crashes>>
          /\ pc' \in {"latest", "safe", "finalized", "checkSafe", "checkObserved"}
      BY <1>3 DEF ReadState, ReadLatest, ReadSafe, ReadFinalized, CheckSafe, NoHeader,
                  dbVars, chunkVars, walkVars
    <2>2. EventsComplete' /\ OperatorsSeeTruth' /\ Indexed' = Indexed
      BY <1>0, <1>1, <2>1, ReorgsSame, LedgerSame
    <2>3. BlocksKnown'
      BY <1>0, <2>1, <2>2, KnownStays
    <2>4. logs = {}
      BY <1>1 DEF OInv, LogsMatch, Promoting
    <2> QED BY <2>1, <2>2, <2>3, <2>4
        DEF OInv, RecoveryCovers, AncestorStays, ChunkInRange, LogsMatch, Recovering, Promoting
  <1> QED BY <1>2, <1>3

\* The start of a recovery: no candidate yet, and the detected tip is not below the
\* observed block.
LEMMA BeginRecoveryHistory ==
  ASSUME IInv, ~Readopt, OInv, [Next]_vars, pc \in {"checkObserved", "chunk"},
         NEW h \in Hash, BeginRecovery(h),
         st.observed # NoBlock => Height[st.observed] <= Height[h]
  PROVE  OInv'
  <1>1. CASE \E class : Fail(class)
    BY <1>1, FailHistory
  <1>2. CASE ~ \E class : Fail(class)
    <2>1. /\ st.observed # NoBlock /\ pc' = "walk" /\ tip' = h /\ cursor' = Height[h]
          /\ chunk' = {}
          /\ UNCHANGED <<status, events, openReorgs, st, logs, candidates, health, crashes>>
      BY <1>2 DEF BeginRecovery, dbVars
    <2>2. EventsComplete' /\ OperatorsSeeTruth' /\ Indexed' = Indexed
      BY <2>1, ReorgsSame, LedgerSame
    <2>3. BlocksKnown'
      BY <2>1, <2>2, KnownStays
    <2>4. candidates = {} /\ logs = {}
      BY DEF IInv, CandidatesAboveSafe, Recovering, OInv, LogsMatch, Promoting
    <2>5. st.observed \in Hash /\ Height[h] \in Nat
      BY <2>1, TreeAssumption DEF IInv, TypeOK, Watermarks
    <2>6. RecoveryCovers'
      BY <2>1, <2>4, <2>5 DEF RecoveryCovers
    <2> QED BY <2>1, <2>2, <2>3, <2>4, <2>6
        DEF OInv, AncestorStays, ChunkInRange, LogsMatch, Promoting
  <1> QED BY <1>1, <1>2

\* The check of the observed block.
LEMMA CheckObservedHistory ==
  ASSUME IInv, ~Readopt, OInv, CheckObserved
  PROVE  OInv'
  <1>0. [Next]_vars /\ pc = "checkObserved"
    BY DEF Next, Engine, CheckObserved
  <1>1. CASE \E class : Fail(class)
    BY <1>0, <1>1, FailHistory
  <1>2. CASE \E h \in HeaderByNumber(Height[st.observed]) : BeginRecovery(h)
    <2>1. PICK h \in HeaderByNumber(Height[st.observed]) : BeginRecovery(h)
      BY <1>2
    <2>2. h \in Hash /\ Height[h] = Height[st.observed]
      BY CanonIsHash DEF HeaderByNumber, IInv
    <2>3. Height[st.observed] <= Height[h]
      BY <2>2, HeightFacts
    <2> QED BY <1>0, <2>1, <2>2, <2>3, BeginRecoveryHistory
  <1>3. CASE /\ pc' = "chunk"
             /\ UNCHANGED <<status, events, openReorgs, chunk, logs, candidates, health, crashes>>
    <2>1. EventsComplete' /\ OperatorsSeeTruth' /\ Indexed' = Indexed
      BY <1>0, <1>3, ReorgsSame, LedgerSame
    <2>2. BlocksKnown'
      BY <1>0, <1>3, <2>1, KnownStays
    <2>3. logs = {} /\ chunk = {}
      BY <1>0 DEF OInv, LogsMatch, Promoting, IInv, ChunkLinked, Linking
    <2> QED BY <1>3, <2>1, <2>2, <2>3
        DEF OInv, RecoveryCovers, AncestorStays, ChunkInRange, LogsMatch, Recovering, Promoting
  <1> QED BY <1>1, <1>2, <1>3 DEF CheckObserved, NoHeader, dbVars, walkVars

\* One header: it extends the chunk inside the range, or starts a recovery above the
\* observed block.
LEMMA ReadHeaderHistory ==
  ASSUME IInv, ~Readopt, OInv, ReadHeader
  PROVE  OInv'
  <1>0. [Next]_vars /\ pc = "chunk" /\ cursor <= To
    BY DEF Next, Engine, ReadHeader
  <1>1. CASE \E class : Fail(class)
    BY <1>0, <1>1, FailHistory
  <1>2. ASSUME NEW h \in HeaderByNumber(cursor), BeginRecovery(h) PROVE OInv'
    <2>1. h \in Hash /\ Height[h] = cursor
      BY CanonIsHash DEF HeaderByNumber, IInv
    <2>2. /\ cursor = (IF chunk = {} THEN From ELSE Height[previous] + 1)
          /\ chunk # {} => From <= Height[previous] /\ previous \in Hash
      BY <1>0, HeightFacts DEF IInv, ChunkLinked, Linking
    <2>3. From <= Height[h]
      BY <2>1, <2>2, HeightFacts
    <2>4. st.observed # NoBlock => Height[st.observed] <= Height[h]
      BY <2>1, <2>3, HeightFacts DEF IInv, TypeOK, Watermarks
    <2> QED BY <1>0, <1>2, <2>1, <2>4, BeginRecoveryHistory
  <1>3. ASSUME NEW h \in HeaderByNumber(cursor),
               chunk' = chunk \cup {h}, previous' = h, pc' = pc,
               UNCHANGED <<status, events, openReorgs, st, hd, logs, candidates, health, crashes>>
        PROVE  OInv'
    <2>1. h \in canon /\ Height[h] = cursor
      BY DEF HeaderByNumber
    <2>2. EventsComplete' /\ OperatorsSeeTruth' /\ Indexed' = Indexed
      BY <1>0, <1>3, ReorgsSame, LedgerSame
    <2>3. BlocksKnown'
      BY <1>0, <1>3, <2>1, <2>2, KnownStays
    <2>4. To' = To
      BY <1>3 DEF To, From
    <2>5. ChunkInRange'
      BY <1>0, <1>3, <2>1, <2>4 DEF OInv, ChunkInRange
    <2> QED BY <1>0, <1>3, <2>2, <2>3, <2>5
        DEF OInv, RecoveryCovers, AncestorStays, LogsMatch, Recovering, Promoting
  <1> QED BY <1>1, <1>2, <1>3 DEF ReadHeader, NoHeader, dbVars, readVars, walkVars

\* The end of the header loop.
LEMMA EndChunkHistory ==
  ASSUME IInv, ~Readopt, OInv, EndChunk
  PROVE  OInv'
  <1>0. [Next]_vars /\ pc = "chunk" /\ logs = {}
    BY DEF Next, Engine, EndChunk, OInv, LogsMatch, Promoting
  <1>1. UNCHANGED <<status, events, openReorgs, health, crashes>> /\ pc' # "recover"
    BY DEF EndChunk, dbVars
  <1>2. OpenReorgsExplained'
    BY <1>0, <1>1, ReorgsSame
  <1>3. CASE pc' = "idle" /\ Forget
    BY <1>0, <1>1, <1>2, <1>3, ForgottenInv DEF Forget
  <1>4. CASE /\ pc' = IF chunk = {} THEN "promoteSafe" ELSE "logs"
             /\ UNCHANGED <<st, hd, previous, chunk, logs, candidates>>
    <2>1. EventsComplete' /\ OperatorsSeeTruth' /\ Indexed' = Indexed
      BY <1>0, <1>1, <1>2, LedgerSame
    <2>2. BlocksKnown'
      BY <1>0, <1>4, <2>1, KnownStays
    <2>3. ChunkInRange'
      BY <1>0, <1>4 DEF OInv, ChunkInRange, To, From
    <2>4. LogsMatch'
      BY <1>0, <1>4 DEF LogsMatch, Promoting
    <2> QED BY <1>4, <2>1, <2>2, <2>3, <2>4
        DEF OInv, RecoveryCovers, AncestorStays, Recovering
  <1> QED BY <1>3, <1>4 DEF EndChunk, readVars, chunkVars, walkVars

-----------------------------------------------------------------------------
(* The logs, the promotion and the commit. *)

\* A chunk whose last block is canonical is canonical: its blocks are linked without a gap.
LEMMA ChunkIsCanonical ==
  ASSUME IInv, Linking, previous \in canon, NEW b \in chunk
  PROVE  b \in canon
  <1> SUFFICES ASSUME b \notin canon PROVE FALSE
    OBVIOUS
  <1>1. /\ previous \in chunk /\ chunk \subseteq Hash
        /\ \A x \in chunk : /\ From <= Height[x] /\ Height[x] <= Height[previous]
                            /\ Height[x] > From => Parent[x] \in chunk
        /\ \A x, y \in chunk : Height[x] = Height[y] => x = y
        /\ \A n \in From..HeightOf(previous) : \E x \in chunk : Height[x] = n
    BY HeightFacts DEF IInv, ChunkLinked
  <1>2. \A x \in canon : Parent[x] = NoBlock \/ Parent[x] \in canon
    BY DEF IInv, TypeOK, Chains, IsChain
  <1>3. /\ From \in Nat /\ HeightOf(previous) = Height[previous]
        /\ \A x \in Hash : /\ Height[x] \in Nat
                           /\ Parent[x] # NoBlock => Height[x] = Height[Parent[x]] + 1
        /\ NoBlock \notin Hash
    BY <1>1, HeightFacts, TreeAssumption
  <1> DEFINE T == {n \in Nat : \E x \in chunk \cap canon : Height[x] = n /\ Height[b] <= n}
  <1>4. Height[previous] \in T
    BY <1>1, <1>3
  <1>5. PICK n \in T : \A m \in T : n <= m
    BY <1>4, LeastNatural
  <1>6. PICK x \in chunk \cap canon : Height[x] = n /\ Height[b] <= n
    BY <1>5
  <1>7. Height[b] < n /\ From <= Height[b]
    BY <1>1, <1>3, <1>6
  <1>8. Parent[x] \in chunk /\ Parent[x] # NoBlock /\ Parent[x] \in canon
    BY <1>1, <1>2, <1>3, <1>6, <1>7
  <1>9. Height[Parent[x]] = n - 1 /\ Height[b] <= n - 1 /\ n - 1 \in Nat
    BY <1>1, <1>3, <1>6, <1>7, <1>8
  <1>10. n - 1 \in T
    BY <1>8, <1>9
  <1> QED BY <1>5, <1>10

\* Discover asks for the whole range of the chunk, so it finds the logs of a canonical chunk.
LEMMA DiscoverHistory ==
  ASSUME IInv, ~Readopt, OInv, Discover
  PROVE  OInv'
  <1>0. [Next]_vars /\ pc = "logs" /\ Linking
    BY DEF Next, Engine, Discover, Linking
  <1>1. CASE \E class : Fail(class)
    BY <1>0, <1>1, FailHistory
  <1>2. CASE ~ \E class : Fail(class)
    <2> DEFINE found == {b \in canon \cap LogBlocks : From <= Height[b] /\ Height[b] <= To}
    <2>1. /\ found \subseteq chunk /\ logs' = found /\ pc' = "recheck"
          /\ UNCHANGED <<status, events, openReorgs, previous, chunk, candidates, health, crashes,
                         orphans>>
      BY <1>2 DEF Discover, dbVars, walkVars, chainVars
    <2>2. EventsComplete' /\ OperatorsSeeTruth' /\ Indexed' = Indexed
      BY <1>0, <2>1, ReorgsSame, LedgerSame
    <2>3. BlocksKnown'
      BY <1>0, <2>1, <2>2, KnownStays
    <2>4. logs' = chunk \cap LogBlocks \/ previous \in orphans
      <3>1. CASE chunk = {}
        BY <2>1, <3>1
      <3>2. CASE chunk # {} /\ previous \in canon
        <4>1. \A b \in chunk : From <= Height[b] /\ Height[b] <= To
          BY <1>0 DEF IInv, ChunkLinked, OInv, ChunkInRange
        <4>2. chunk \subseteq canon
          BY <1>0, <3>2, ChunkIsCanonical
        <4> QED BY <2>1, <4>1, <4>2
      <3>3. CASE chunk # {} /\ previous \notin canon
        BY <1>0, <3>3 DEF IInv, ChunkLinked, OInv, BlocksKnown
      <3> QED BY <3>1, <3>2, <3>3
    <2>5. LogsMatch'
      BY <2>1, <2>4 DEF LogsMatch, Promoting
    <2> QED BY <2>1, <2>2, <2>3, <2>5
        DEF OInv, RecoveryCovers, AncestorStays, ChunkInRange, Recovering
  <1> QED BY <1>1, <1>2

\* A last header that is canonical after the logs were read was not abandoned before.
LEMMA RecheckHistory ==
  ASSUME IInv, ~Readopt, OInv, RecheckHeader
  PROVE  OInv'
  <1>0. [Next]_vars /\ pc = "recheck"
    BY DEF Next, Engine, RecheckHeader
  <1>1. CASE \E class : Fail(class)
    BY <1>0, <1>1, FailHistory
  <1>2. CASE ~ \E class : Fail(class)
    <2>1. /\ previous \in canon /\ pc' = "promoteSafe"
          /\ UNCHANGED <<status, events, openReorgs, chunk, logs, candidates, health, crashes>>
      BY <1>2 DEF RecheckHeader, HeaderByNumber, UnchangedTip, NoHeader, dbVars, walkVars
    <2>2. EventsComplete' /\ OperatorsSeeTruth' /\ Indexed' = Indexed
      BY <1>0, <2>1, ReorgsSame, LedgerSame
    <2>3. BlocksKnown'
      BY <1>0, <2>1, <2>2, KnownStays
    <2>4. logs = chunk \cap LogBlocks
      BY <1>0, <2>1 DEF OInv, LogsMatch, BlocksKnown
    <2>5. LogsMatch'
      BY <2>1, <2>4 DEF LogsMatch, Promoting
    <2> QED BY <2>1, <2>2, <2>3, <2>5
        DEF OInv, RecoveryCovers, AncestorStays, ChunkInRange, Recovering
  <1> QED BY <1>1, <1>2

\* Promotion moves only the watermarks that will be written.
LEMMA PromoteHistory ==
  ASSUME IInv, ~Readopt, OInv, PromoteSafe \/ PromoteFinalized
  PROVE  OInv'
  <1>0. [Next]_vars /\ pc \in {"promoteSafe", "promoteFinalized"} /\ Promoting
    BY DEF Next, Engine, PromoteSafe, PromoteFinalized, Promoting
  <1>1. CASE \E class : Fail(class)
    BY <1>0, <1>1, FailHistory
  <1>2. CASE ~ \E class : Fail(class)
    <2>0. hd.safe \in Hash /\ hd.finalized \in Hash
      BY <1>0 DEF IInv, HeadsKnown, Linking
    <2>1. /\ pc' \in {"promoteFinalized", "commit"}
          /\ UNCHANGED <<status, events, openReorgs, chunk, logs, candidates, health, crashes>>
      <3>1. CASE PromoteSafe
        BY <1>0, <1>2, <2>0, <3>1, PromoteEffect DEF PromoteSafe, Pcs, dbVars, walkVars
      <3>2. CASE PromoteFinalized
        BY <1>0, <1>2, <2>0, <3>2, PromoteEffect DEF PromoteFinalized, Pcs, dbVars, walkVars
      <3> QED BY <3>1, <3>2
    <2>2. EventsComplete' /\ OperatorsSeeTruth' /\ Indexed' = Indexed
      BY <1>0, <2>1, ReorgsSame, LedgerSame
    <2>3. BlocksKnown'
      BY <1>0, <2>1, <2>2, KnownStays
    <2>4. LogsMatch'
      BY <1>0, <2>1 DEF OInv, LogsMatch, Promoting
    <2> QED BY <2>1, <2>2, <2>3, <2>4
        DEF OInv, RecoveryCovers, AncestorStays, ChunkInRange, Recovering
  <1> QED BY <1>1, <1>2

\* The commit stores the chunk with its events and publishes a stored block.
LEMMA CommitHistory ==
  ASSUME IInv, ~Readopt, OInv, Commit
  PROVE  OInv' /\ Indexed \subseteq Indexed'
  <1>0. [Next]_vars /\ pc = "commit" /\ Promoting /\ Linking
    BY DEF Next, Engine, Commit, Promoting, Linking
  <1>1. /\ status' = [b \in Hash |-> CommittedStatus(b)] /\ events' = events \cup logs
        /\ health' = nx.observed /\ pc' = "idle" /\ chunk' = {} /\ logs' = {} /\ candidates' = {}
        /\ UNCHANGED <<openReorgs, crashes>>
    BY <1>0, CommitReady DEF Commit, Forget
  <1>2. Indexed' = Indexed \cup chunk
    BY <1>0, <1>1, CommittedRows, HeightFacts DEF Indexed
  <1>3. EventsComplete'
    BY <1>0, <1>1, <1>2 DEF OInv, EventsComplete, LogsMatch
  <1>4. nx.observed \in Indexed'
    <2>1. nx.observed = previous /\ previous # NoBlock
      BY <1>0 DEF IInv, NextIsRaised
    <2>2. CASE chunk = {}
      BY <1>0, <1>2, <2>1, <2>2
      DEF IInv, ChunkLinked, StateIsCurrent, Working, LinkedLedger
    <2>3. CASE chunk # {}
      BY <1>0, <1>2, <2>1, <2>3 DEF IInv, ChunkLinked
    <2> QED BY <2>2, <2>3
  <1>5. OperatorsSeeTruth'
    BY <1>0, <1>1, <1>4, ReorgsSame DEF OperatorsSeeTruth, HealthReportsCommitted
  <1>6. BlocksKnown'
    BY <1>0, <1>1, <1>2, KnownStays
  <1> QED BY <1>1, <1>2, <1>3, <1>5, <1>6
      DEF OInv, RecoveryCovers, AncestorStays, ChunkInRange, LogsMatch, Recovering, Promoting

-----------------------------------------------------------------------------
(* The recovery. *)

\* One candidate: the header at its height is canonical, so a different stored block there
\* has been abandoned.
LEMMA ReadCandidateHistory ==
  ASSUME IInv, ~Readopt, OInv, ReadCandidate
  PROVE  OInv'
  <1>0. [Next]_vars /\ pc = "walk" /\ Recovering
    BY DEF Next, Engine, ReadCandidate, Recovering
  <1>1. CASE \E class : Fail(class)
    BY <1>0, <1>1, FailHistory
  <1>2. CASE ~ \E class : Fail(class)
    <2>1. PICK h \in canon :
            /\ Height[h] = cursor /\ candidates' = candidates \cup {h} /\ cursor' = cursor - 1
            /\ pc' = pc
            /\ UNCHANGED <<orphans, status, events, openReorgs, st, chunk, logs, tip, health,
                           crashes>>
      BY <1>2 DEF ReadCandidate, HeaderByNumber, NoHeader, dbVars, readVars, chainVars
    <2>2. EventsComplete' /\ OperatorsSeeTruth' /\ Indexed' = Indexed
      BY <1>0, <2>1, ReorgsSame, LedgerSame
    <2>3. BlocksKnown'
      BY <1>0, <2>1, <2>2, KnownStays
    <2>4. \A b \in Indexed : Height[b] = Height[h] => b = h \/ b \in orphans
      BY <2>1 DEF IInv, TypeOK, Chains, IsChain, OInv, BlocksKnown
    <2>5. RecoveryCovers'
      <3>1. cursor \in Int /\ tip \in Hash /\ Height[tip] \in Nat /\ h \in Hash
        BY <1>0, TreeAssumption, CanonIsHash DEF IInv, TypeOK, OInv, RecoveryCovers
      <3>2. \A d \in candidates' : cursor' < Height[d]
        BY <1>0, <2>1, <3>1, HeightFacts DEF OInv, RecoveryCovers, IInv, TypeOK
      <3>3. ASSUME NEW n \in (cursor' + 1)..Height[tip] PROVE \E d \in candidates' : Height[d] = n
        BY <1>0, <2>1, <3>1 DEF OInv, RecoveryCovers
      <3>4. \A d \in candidates' : \A b \in Indexed' :
              Height[b] = Height[d] => b = d \/ b \in orphans'
        BY <1>0, <2>1, <2>2, <2>4 DEF OInv, RecoveryCovers
      <3> QED BY <1>0, <2>1, <3>2, <3>3, <3>4 DEF OInv, RecoveryCovers
    <2> QED BY <1>0, <2>1, <2>2, <2>3, <2>5
        DEF OInv, AncestorStays, ChunkInRange, LogsMatch, Promoting
  <1> QED BY <1>1, <1>2

\* The end of the walk and the first recovery transaction.
LEMMA RecordHistory ==
  ASSUME IInv, ~Readopt, OInv, EndWalk \/ RecordReorg
  PROVE  OInv'
  <1>0. [Next]_vars /\ pc \in {"walk", "record"} /\ Recovering
    BY DEF Next, Engine, EndWalk, RecordReorg, Recovering
  <1>1. CASE \E class : Fail(class)
    BY <1>0, <1>1, FailHistory
  <1>2. CASE ~ \E class : Fail(class)
    <2>1. /\ \/ pc' = "record" /\ openReorgs' = openReorgs
             \/ pc' = "recover" /\ CommonAncestors # {} /\ openReorgs' = openReorgs + 1
          /\ UNCHANGED <<orphans, status, events, st, cursor, previous, chunk, logs, tip,
                         candidates, health, crashes>>
      BY <1>2 DEF EndWalk, RecordReorg, NoHeader, dbVars, readVars, chainVars, chunkVars, walkVars
    <2>2. openReorgs \in Int /\ crashes \in Nat
      BY DEF IInv, TypeOK
    <2>3. OpenReorgsExplained'
      BY <1>0, <2>1, <2>2 DEF OInv, OperatorsSeeTruth, OpenReorgsExplained
    <2>4. EventsComplete' /\ OperatorsSeeTruth' /\ Indexed' = Indexed
      BY <1>0, <2>1, <2>3, LedgerSame
    <2>5. BlocksKnown'
      BY <1>0, <2>1, <2>4, KnownStays
    <2>6. RecoveryCovers'
      BY <1>0, <2>1, <2>4 DEF OInv, RecoveryCovers
    <2>7. AncestorStays'
      BY <2>1, <2>4 DEF AncestorStays, CommonAncestors
    <2> QED BY <1>0, <2>1, <2>4, <2>5, <2>6, <2>7
        DEF OInv, ChunkInRange, LogsMatch, Promoting
  <1> QED BY <1>1, <1>2

\* The second one: a stored block above the highest stored candidate has been abandoned.
LEMMA RecoverHistory ==
  ASSUME IInv, ~Readopt, OInv, RecoverReorg
  PROVE  OInv' /\ \A b \in Indexed : b \in Indexed' \/ b \in orphans
  <1>0. [Next]_vars /\ pc = "recover" /\ Recovering /\ CommonAncestors # {}
    BY DEF Next, Engine, RecoverReorg, Recovering, OInv, AncestorStays
  <1>1. PICK a \in CommonAncestors :
          /\ status' = [b \in Hash |-> IF Height[b] > Height[a] THEN "absent" ELSE status[b]]
          /\ events' = {b \in events : Height[b] <= Height[a]}
          /\ openReorgs' = openReorgs - 1 /\ pc' = "idle"
          /\ chunk' = {} /\ logs' = {} /\ candidates' = {}
          /\ UNCHANGED <<orphans, health, crashes>>
    BY <1>0 DEF RecoverReorg, CompleteReorg, Forget, chainVars
  <1>2. /\ a \in Hash /\ a \in candidates /\ a \in Indexed
        /\ \A b \in candidates \cap Indexed : Height[b] <= Height[a]
    BY HeightFacts DEF CommonAncestors
  <1>3. Indexed' = {b \in Indexed : Height[b] <= Height[a]}
    BY <1>1, <1>2, HeightFacts DEF Indexed
  <1>4. ASSUME NEW b \in Indexed, ~(Height[b] <= Height[a]) PROVE b \in orphans
    <2>1. /\ st = sync /\ st.observed \in Hash /\ tip \in Hash
          /\ Height[st.observed] <= Height[tip] /\ cursor < Height[a] /\ cursor \in Int
      BY <1>0, <1>2 DEF IInv, TypeOK, StateIsCurrent, Working, OInv, RecoveryCovers
    <2>2. Height[b] <= Height[st.observed] /\ b \in Hash
      BY <2>1, HeightFacts DEF IInv, LinkedLedger
    <2>3. Height[b] \in (cursor + 1)..Height[tip]
      BY <1>2, <1>4, <2>1, <2>2, HeightFacts
    <2>4. PICK d \in candidates : Height[d] = Height[b]
      BY <1>0, <2>3 DEF OInv, RecoveryCovers
    <2>5. d \notin Indexed
      BY <1>2, <1>4, <2>4
    <2> QED BY <1>0, <2>4, <2>5 DEF OInv, RecoveryCovers
  <1>5. EventsComplete'
    BY <1>1, <1>3 DEF OInv, EventsComplete
  <1>6. OperatorsSeeTruth'
    <2>1. OpenReorgsExplained'
      BY <1>0, <1>1 DEF OInv, OperatorsSeeTruth, OpenReorgsExplained, IInv, TypeOK
    <2>2. HealthReportsCommitted'
      BY <1>1, <1>3, <1>4 DEF OInv, OperatorsSeeTruth, HealthReportsCommitted
    <2> QED BY <2>1, <2>2 DEF OperatorsSeeTruth
  <1>7. BlocksKnown'
    BY <1>0, <1>1, <1>3, KnownStays
  <1>8. OInv'
    BY <1>1, <1>5, <1>6, <1>7
    DEF OInv, RecoveryCovers, AncestorStays, ChunkInRange, LogsMatch, Recovering, Promoting
  <1> QED BY <1>3, <1>4, <1>8

-----------------------------------------------------------------------------
(* The theorems. *)

LEMMA HistoryInit == Init => OInv
  BY DEF Init, OInv, BlocksKnown, RecoveryCovers, AncestorStays, ChunkInRange, LogsMatch,
         EventsComplete, OperatorsSeeTruth, OpenReorgsExplained, HealthReportsCommitted,
         Recovering, Promoting, Indexed

LEMMA HistoryStep ==
  ASSUME IInv, ~Readopt, OInv, [Next]_vars
  PROVE  OInv'
  BY ProviderHistory, CrashHistory, HeadsHistory, CheckObservedHistory, ReadHeaderHistory,
     EndChunkHistory, DiscoverHistory, RecheckHistory, PromoteHistory, CommitHistory,
     ReadCandidateHistory, RecordHistory, RecoverHistory
  DEF Next, Engine

\* With a provider that never returns to a block it has abandoned, what Step and recoverReorg
\* hold was canonical when they read it, and the logs and candidates tell what has left the
\* chain since (engine.go, reorg.go).
THEOREM HistoryInvariant == ASSUME ~Readopt PROVE Spec => []OInv
  <1>1. IInv /\ OInv /\ [Next]_vars => OInv'
    BY HistoryStep
  <1> QED BY <1>1, HistoryInit, Invariant, PTL DEF Spec

\* With such a provider exactly the logs of the stored blocks are stored, although headers
\* and logs are read one after the other from a chain that moves (Step's recheck of the
\* last header).
THEOREM EventsAreComplete == ASSUME ~Readopt PROVE Spec => []EventsComplete
  <1>1. OInv => EventsComplete
    BY DEF OInv
  <1> QED BY <1>1, HistoryInvariant, PTL

\* Operators are shown no progress that was not committed, and an incident stays open only
\* when the process died while handling it (health.go, indexer_reorgs).
THEOREM OperatorsAreToldTruth == ASSUME ~Readopt PROVE Spec => []OperatorsSeeTruth
  <1>1. OInv => OperatorsSeeTruth
    BY DEF OInv
  <1> QED BY <1>1, HistoryInvariant, PTL

\* A rollback removes only blocks the provider has abandoned: the ancestor recoverReorg finds
\* is never below the fork.
THEOREM OnlyOrphansRollBack == ASSUME ~Readopt PROVE Spec => RollsBackOnlyOrphans
  <1>1. IInv /\ OInv /\ [Next]_vars => [\A b \in Indexed : b \in Indexed' \/ b \in orphans]_vars
    <2> SUFFICES ASSUME IInv, OInv, Next PROVE \A b \in Indexed : b \in Indexed' \/ b \in orphans
      OBVIOUS
    <2>1. CASE Commit
      BY <2>1, CommitHistory
    <2>2. CASE RecoverReorg
      BY <2>2, RecoverHistory
    <2>3. CASE ~Commit /\ ~RecoverReorg
      BY <2>3, OnlyTwoWriters DEF Indexed
    <2> QED BY <2>1, <2>2, <2>3
  <1> QED BY <1>1, Invariant, HistoryInvariant, PTL DEF Spec, RollsBackOnlyOrphans
=============================================================================
