------------------------------- MODULE Indexer -------------------------------
(***************************************************************************)
(* The chain indexer of backend/internal/indexer: Engine.Step reads block  *)
(* headers and logs from an RPC provider and commits them, one chunk at a  *)
(* time, to the PostgreSQL ledger; recoverReorg rolls the ledger back when *)
(* the provider has switched to another branch.                            *)
(*                                                                         *)
(* Every RPC read and every database transaction of the Go code is one     *)
(* action, so the provider's chain can change between any two of them and  *)
(* the process can die between any two of them.  The database is durable;  *)
(* everything the engine holds in memory is lost when the process dies.    *)
(*                                                                         *)
(* Blocks are identified by their hash.  Parent and Height are constant    *)
(* functions of the hash, as they are for real headers.                    *)
(***************************************************************************)
EXTENDS Integers, FiniteSets

CONSTANTS
  Hash,          \* hashes of the blocks the provider may ever serve
  NoBlock,       \* Go's nil *IndexedBlock; also the parent of the first block
  Parent,        \* Parent[b]: the parent hash in b's header
  Height,        \* Height[b]: the block number in b's header
  LogBlocks,     \* the blocks that contain logs of the deployment's contracts
  StartBlock,    \* Settings.StartBlock
  ChunkSize,     \* Settings.ChunkSize
  SearchDepth,   \* Settings.ReorgSearchDepth
  Readopt,       \* TRUE: a block that left the canonical chain may come back
  MaxFaults      \* bound on Faults

ASSUME TreeAssumption ==
  /\ NoBlock \notin Hash
  /\ Parent \in [Hash -> Hash \cup {NoBlock}]
  /\ Height \in [Hash -> Nat]
  /\ \A b \in Hash :
       IF Parent[b] = NoBlock THEN Height[b] = 0 ELSE Height[b] = Height[Parent[b]] + 1
  /\ LogBlocks \subseteq Hash

ASSUME SettingsAssumption ==
  /\ StartBlock \in Nat
  /\ ChunkSize \in Nat \ {0}
  /\ SearchDepth \in Nat \ {0}
  /\ Readopt \in BOOLEAN
  /\ MaxFaults \in Nat

VARIABLES
  canon,       \* the provider's canonical chain, a set of hashes
  safeTag,     \* the block the provider reports for the tag "safe"
  finalTag,    \* the block the provider reports for the tag "finalized"
  orphans,     \* blocks that were canonical once and are not any more: history
  keptSafe,    \* the provider has abandoned no block it had tagged safe: history
  status,      \* indexed_blocks: finality_status of a stored block, else "absent"
  events,      \* the event tables: blocks whose logs have been ingested
  sync,        \* sync_state: the three watermarks
  openReorgs,  \* rows of indexer_reorgs that have no outcome yet
  pc,          \* where Step is
  st,          \* Step's local `state`, as read from the database
  nx,          \* the state Step is going to write
  hd,          \* the three heads the provider returned
  cursor,      \* the loop variable `number`
  previous,    \* Step's local `previous`: the last linked header
  chunk,       \* Step's local `blocks`
  logs,        \* blocks of the logs Discover returned
  tip,         \* recoverReorg's parameter `tip`
  candidates,  \* recoverReorg's local `candidates`
  health,      \* the observed block HealthTracker reports
  failure,     \* class of the error that ended the last process
  crashes      \* process deaths so far that Step did not cause

chainVars == <<canon, safeTag, finalTag, orphans, keptSafe>>
dbVars    == <<status, events, sync, openReorgs>>
readVars  == <<st, hd>>
chunkVars == <<previous, chunk, logs, nx>>
walkVars  == <<tip, candidates>>
procVars  == <<pc, st, nx, hd, cursor, previous, chunk, logs, tip, candidates, health>>
vars == <<canon, safeTag, finalTag, orphans, keptSafe, status, events, sync, openReorgs,
          pc, st, nx, hd, cursor, previous, chunk, logs, tip, candidates,
          health, failure, crashes>>

-----------------------------------------------------------------------------
(* Blocks and chains. *)

\* A set of hashes that is one chain from the first block to some tip.
IsChain(c) ==
  /\ c # {}
  /\ \A b \in c : Parent[b] = NoBlock \/ Parent[b] \in c
  /\ \A a, b \in c : Height[a] = Height[b] => a = b

Chains == {c \in SUBSET Hash : IsChain(c)}

\* Go compares block numbers of possibly nil blocks; nil counts as -1.
HeightOf(b) == IF b = NoBlock THEN -1 ELSE Height[b]

\* The tip of a chain: its highest block.
Tips(c) == {t \in c : \A b \in c : Height[b] <= Height[t]}

\* HeaderByNumber: the provider's header at a height; empty when it has none.
HeaderByNumber(n) == {h \in canon : Height[h] = n}

Min2(a, b) == IF a <= b THEN a ELSE b
Max2(a, b) == IF a >= b THEN a ELSE b

\* Rows of indexed_blocks.
Indexed == {b \in Hash : status[b] # "absent"}

Watermarks == [observed : Hash \cup {NoBlock},
               safe : Hash \cup {NoBlock},
               finalized : Hash \cup {NoBlock}]
NoState == [observed |-> NoBlock, safe |-> NoBlock, finalized |-> NoBlock]

Heads == [latest : Hash \cup {NoBlock}, safe : Hash \cup {NoBlock},
          finalized : Hash \cup {NoBlock}]
NoHeads == [latest |-> NoBlock, safe |-> NoBlock, finalized |-> NoBlock]

Statuses == {"absent", "observed", "safe", "finalized"}

Failures == {"none", "rpc", "heads", "canonical", "safe", "recovery", "missing", "conflict"}

Pcs == {"down", "idle", "latest", "safe", "finalized", "checkSafe", "checkObserved",
        "chunk", "logs", "recheck", "promoteSafe", "promoteFinalized", "commit",
        "walk", "record", "recover"}

Init ==
  /\ canon \in {c \in Chains : \A b \in c : Height[b] = 0}
  /\ safeTag \in canon
  /\ finalTag \in canon
  /\ orphans = {}
  /\ keptSafe = TRUE
  /\ status = [b \in Hash |-> "absent"]
  /\ events = {}
  /\ sync = NoState
  /\ openReorgs = 0
  /\ pc = "idle"
  /\ st = NoState
  /\ nx = NoState
  /\ hd = NoHeads
  /\ cursor = 0
  /\ previous = NoBlock
  /\ chunk = {}
  /\ logs = {}
  /\ tip = NoBlock
  /\ candidates = {}
  /\ health = NoBlock
  /\ failure = "none"
  /\ crashes = 0

-----------------------------------------------------------------------------
(* The provider. *)

\* What goes wrong outside Step and is bounded: process deaths, and a provider that ceases
\* to keep its safe blocks.
Faults == crashes + IF keptSafe THEN 0 ELSE 1

\* The provider adopts another head: it extends its chain or replaces part of it.
NewHead(c) ==
  /\ c # canon
  /\ safeTag \in c \/ Faults < MaxFaults
  /\ Readopt \/ c \cap orphans = {}
  /\ canon' = c
  /\ orphans' = IF Readopt THEN orphans ELSE orphans \cup (canon \ c)
  /\ keptSafe' = (keptSafe /\ safeTag \in c)
  /\ IF safeTag \in c
       THEN UNCHANGED <<safeTag, finalTag>>
       ELSE \E s \in c : \E f \in c : Height[f] <= Height[s] /\ safeTag' = s /\ finalTag' = f
  /\ UNCHANGED <<dbVars, procVars, failure, crashes>>

\* The provider's safe tag moves up its canonical chain.
AdvanceSafe ==
  /\ \E b \in canon : Height[b] > Height[safeTag] /\ safeTag' = b
  /\ UNCHANGED <<canon, finalTag, orphans, keptSafe, dbVars, procVars, failure, crashes>>

\* The finalized tag follows it.
AdvanceFinalized ==
  /\ \E b \in canon : /\ Height[finalTag] < Height[b]
                      /\ Height[b] <= Height[safeTag]
                      /\ finalTag' = b
  /\ UNCHANGED <<canon, safeTag, orphans, keptSafe, dbVars, procVars, failure, crashes>>

-----------------------------------------------------------------------------
(* The process. *)

\* Memory of a Step that has returned, or of a process that has exited.
Forget ==
  /\ st' = NoState
  /\ nx' = NoState
  /\ hd' = NoHeads
  /\ cursor' = 0
  /\ previous' = NoBlock
  /\ chunk' = {}
  /\ logs' = {}
  /\ tip' = NoBlock
  /\ candidates' = {}

\* Step returns an error: Run returns it and the process exits.
Fail(class) ==
  /\ pc' = "down"
  /\ failure' = class
  /\ health' = NoBlock
  /\ Forget
  /\ UNCHANGED <<chainVars, dbVars, crashes>>

\* An RPC read at height n that finds no header there is an RPC failure.
NoHeader(n) == HeaderByNumber(n) = {} /\ Fail("rpc")

\* The process is killed, loses its database session or times out on an RPC call.
Crash ==
  /\ pc # "down"
  /\ Faults < MaxFaults
  /\ crashes' = crashes + 1
  /\ pc' = "down"
  /\ failure' = "none"
  /\ health' = NoBlock
  /\ Forget
  /\ UNCHANGED <<chainVars, dbVars>>

\* The supervisor starts the process again.
Restart ==
  /\ pc = "down"
  /\ pc' = "idle"
  /\ failure' = "none"
  /\ UNCHANGED <<chainVars, dbVars, readVars, chunkVars, walkVars, cursor, health, crashes>>

-----------------------------------------------------------------------------
(* Step: the state, the heads and the saved blocks. *)

\* The first transaction of Step.
ReadState ==
  /\ pc = "idle"
  /\ st' = sync
  /\ nx' = sync
  /\ pc' = "latest"
  /\ UNCHANGED <<chainVars, dbVars, hd, cursor, previous, chunk, logs, walkVars,
                 health, failure, crashes>>

\* Heads makes three calls; the chain may move between them.
ReadLatest ==
  /\ pc = "latest"
  /\ \E t \in Tips(canon) : hd' = [hd EXCEPT !.latest = t]
  /\ pc' = "safe"
  /\ UNCHANGED <<chainVars, dbVars, st, cursor, chunkVars, walkVars, health, failure, crashes>>

ReadSafe ==
  /\ pc = "safe"
  /\ hd' = [hd EXCEPT !.safe = safeTag]
  /\ pc' = "finalized"
  /\ UNCHANGED <<chainVars, dbVars, st, cursor, chunkVars, walkVars, health, failure, crashes>>

\* Mutant: the order of the heads is not checked.
HeadsUnchecked(f) == TRUE

\* The provider's tags must be ordered although they were read one by one.
HeadsOrdered(f) == Height[hd.safe] <= Height[hd.latest] /\ Height[f] <= Height[hd.safe]

ReadFinalized ==
  /\ pc = "finalized"
  /\ \/ ~HeadsOrdered(finalTag) /\ Fail("heads")
     \/ /\ HeadsOrdered(finalTag)
        /\ hd' = [hd EXCEPT !.finalized = finalTag]
        /\ pc' = "checkSafe"
        /\ UNCHANGED <<chainVars, dbVars, st, cursor, chunkVars, walkVars,
                       health, failure, crashes>>

\* recoverReorg refuses without an observed tip or below the search floor;
\* otherwise it starts its walk at the detected tip b.
CandidateFloor == Max2(StartBlock, HeightOf(st.safe))

BeginRecovery(b) ==
  \/ st.observed = NoBlock /\ Fail("recovery")
  \/ st.observed # NoBlock /\ Height[b] < CandidateFloor /\ Fail("safe")
  \/ /\ st.observed # NoBlock
     /\ Height[b] >= CandidateFloor
     /\ pc' = "walk"
     /\ tip' = b
     /\ cursor' = Height[b]
     /\ previous' = NoBlock
     /\ chunk' = {}
     /\ UNCHANGED <<chainVars, dbVars, st, nx, hd, logs, candidates, health, failure, crashes>>

\* The lowest block number the chunk may hold, and the highest.
From == IF st.observed = NoBlock THEN StartBlock ELSE Height[st.observed] + 1
To == IF Height[hd.latest] - From >= ChunkSize THEN From + ChunkSize - 1
                                               ELSE Height[hd.latest]

\* Mutant: the comparison with the safe watermark is turned round.
AtOrAboveSafe(b) == Height[b] >= HeightOf(st.safe)

\* A mismatch at or below the stored safe block is not recoverable.
AtOrBelowSafe(b) == Height[b] <= HeightOf(st.safe)

\* The stored safe block must still be canonical.
CheckSafe ==
  /\ pc = "checkSafe"
  /\ \/ st.safe # NoBlock /\ NoHeader(Height[st.safe])
     \/ /\ st.safe # NoBlock
        /\ \E h \in HeaderByNumber(Height[st.safe]) : h # st.safe
        /\ Fail("safe")
     \/ /\ st.safe \in HeaderByNumber(HeightOf(st.safe)) \cup {NoBlock}
        /\ pc' = "checkObserved"
        /\ UNCHANGED <<chainVars, dbVars, readVars, cursor, chunkVars, walkVars,
                       health, failure, crashes>>

\* So must the stored observed block; above the safe block a mismatch is a reorg.
CheckObserved ==
  /\ pc = "checkObserved"
  /\ \/ st.observed # NoBlock /\ NoHeader(Height[st.observed])
     \/ /\ st.observed # NoBlock
        /\ \E h \in HeaderByNumber(Height[st.observed]) :
             /\ h # st.observed
             /\ IF AtOrBelowSafe(st.observed) THEN Fail("safe") ELSE BeginRecovery(h)
     \/ /\ st.observed \in HeaderByNumber(HeightOf(st.observed)) \cup {NoBlock}
        /\ pc' = "chunk"
        /\ cursor' = From
        /\ previous' = st.observed
        /\ UNCHANGED <<chainVars, dbVars, readVars, chunk, logs, nx, walkVars,
                       health, failure, crashes>>

-----------------------------------------------------------------------------
(* Step: the chunk. *)

\* Mutant: a header is accepted whatever its parent.
LinksAlways(h) == TRUE

\* The header's parent is the block read or stored before it.
Links(h) == previous = NoBlock \/ Parent[h] = previous

\* One iteration of the header loop.
ReadHeader ==
  /\ pc = "chunk"
  /\ cursor <= To
  /\ \/ NoHeader(cursor)
     \/ \E h \in HeaderByNumber(cursor) :
          \/ /\ ~Links(h)
             /\ IF AtOrBelowSafe(previous) THEN Fail("safe") ELSE BeginRecovery(h)
          \/ /\ Links(h)
             /\ chunk' = chunk \cup {h}
             /\ previous' = h
             /\ cursor' = cursor + 1
             /\ UNCHANGED <<chainVars, dbVars, pc, readVars, logs, nx, walkVars,
                            health, failure, crashes>>

\* The loop is over.  Without new blocks Step goes on to promotion, or returns
\* when nothing has been observed yet.
EndChunk ==
  /\ pc = "chunk"
  /\ cursor > To
  /\ IF chunk = {} /\ st.observed = NoBlock
       THEN pc' = "idle" /\ Forget
       ELSE /\ pc' = IF chunk = {} THEN "promoteSafe" ELSE "logs"
            /\ UNCHANGED <<readVars, cursor, chunkVars, walkVars>>
  /\ UNCHANGED <<chainVars, dbVars, health, failure, crashes>>

\* Discover returns the logs the provider now has in the chunk's range; a log of
\* a block other than the header read for its number is a canonical mismatch.
Discover ==
  /\ pc = "logs"
  /\ LET found == {b \in canon \cap LogBlocks : From <= Height[b] /\ Height[b] <= To}
     IN \/ ~(found \subseteq chunk) /\ Fail("canonical")
        \/ /\ found \subseteq chunk
           /\ logs' = found
           /\ pc' = "recheck"
           /\ UNCHANGED <<chainVars, dbVars, readVars, cursor, previous, chunk, nx, walkVars,
                          health, failure, crashes>>

\* Mutant: the recheck accepts any header.
UnchangedAlways(h) == TRUE

\* The header read after the logs is the one the chunk ended with.
UnchangedTip(h) == h = previous

\* The last header of the chunk is read once more after the logs.
RecheckHeader ==
  /\ pc = "recheck"
  /\ \/ NoHeader(To)
     \/ (\E h \in HeaderByNumber(To) : ~UnchangedTip(h)) /\ Fail("canonical")
     \/ /\ \E h \in HeaderByNumber(To) : UnchangedTip(h)
        /\ nx' = [nx EXCEPT !.observed = previous]
        /\ pc' = "promoteSafe"
        /\ UNCHANGED <<chainVars, dbVars, readVars, cursor, previous, chunk, logs, walkVars,
                       health, failure, crashes>>

-----------------------------------------------------------------------------
(* Step: promotion and commit. *)

\* The highest block of the tag's range that has been processed locally.
PromotionNumber(remote) == Min2(Height[remote], Height[nx.observed])

\* One iteration of the promotion loop: target is "safe" or "finalized".
Promote(target, remote, next) ==
  LET number == PromotionNumber(remote)
      locals == {b \in chunk \cup Indexed : Height[b] = number}
      continue == /\ pc' = next
                  /\ UNCHANGED <<chainVars, dbVars, readVars, cursor, previous, chunk, logs,
                                 walkVars, health, failure, crashes>>
  IN \/ /\ number < StartBlock \/ number <= HeightOf(nx[target])
        /\ continue
        /\ UNCHANGED nx
     \/ /\ number >= StartBlock /\ number > HeightOf(nx[target])
        /\ \/ locals = {} /\ Fail("missing")
           \/ locals # {} /\ NoHeader(number)
           \/ \E local \in locals : \E h \in HeaderByNumber(number) :
                \/ /\ h # local \/ (number = Height[remote] /\ local # remote)
                   /\ Fail("canonical")
                \/ /\ h = local /\ (number = Height[remote] => local = remote)
                   /\ nx' = [nx EXCEPT ![target] = local]
                   /\ continue

\* Mutant: the safe watermark follows the latest head.
PromoteSafeToLatest ==
  /\ pc = "promoteSafe"
  /\ Promote("safe", hd.latest, "promoteFinalized")

PromoteSafe ==
  /\ pc = "promoteSafe"
  /\ Promote("safe", hd.safe, "promoteFinalized")

PromoteFinalized ==
  /\ pc = "promoteFinalized"
  /\ Promote("finalized", hd.finalized, "commit")

\* UpsertIndexedBlock inserts a row, or resets the status of an identical one.
UpsertIndexedBlock(s, b) == IF b \in chunk THEN "observed" ELSE s

\* Mutant: the row at the watermark itself is left out.
PromoteBelow(s, b, target, from, upto) ==
  IF s # "absent" /\ from < Height[b] /\ Height[b] < upto THEN target ELSE s

\* PromoteIndexedBlocks raises the rows in (from, upto] to the target status.
PromoteIndexedBlocks(s, b, target, from, upto) ==
  IF s # "absent" /\ from < Height[b] /\ Height[b] <= upto
    THEN IF target = "finalized" \/ s = "finalized" THEN "finalized" ELSE "safe"
    ELSE s

\* The status of b after the commit transaction.
CommittedStatus(b) ==
  LET upserted == UpsertIndexedBlock(status[b], b)
      safe == PromoteIndexedBlocks(upserted, b, "safe",
                                   HeightOf(st.safe), HeightOf(nx.safe))
  IN PromoteIndexedBlocks(safe, b, "finalized",
                          HeightOf(st.finalized), HeightOf(nx.finalized))

\* The CHECK constraints of sync_state.
WatermarksOrdered(s) ==
  /\ HeightOf(s.safe) <= HeightOf(s.observed)
  /\ HeightOf(s.finalized) <= HeightOf(s.safe)

\* A different block is stored at the number of a block of the chunk.
RowConflict == \E a \in Indexed : \E b \in chunk : Height[a] = Height[b] /\ a # b

\* Mutant: the new state is published before the transaction.
CommitPublishingFirst ==
  /\ pc = "commit"
  /\ health' = nx.observed
  /\ IF health # nx.observed
       THEN UNCHANGED <<dbVars, pc, readVars, chunkVars, cursor, walkVars>>
       ELSE /\ status' = [b \in Hash |-> CommittedStatus(b)]
            /\ events' = events \cup logs
            /\ sync' = nx
            /\ pc' = "idle"
            /\ Forget
            /\ UNCHANGED openReorgs
  /\ UNCHANGED <<chainVars, failure, crashes>>

\* The write transaction.  It commits blocks, events, finality and watermarks
\* together; OnCommitted then publishes the new state to the health surface.
Commit ==
  /\ pc = "commit"
  /\ \/ /\ RowConflict \/ ~WatermarksOrdered(nx)
        /\ Fail("conflict")
     \/ /\ ~RowConflict /\ WatermarksOrdered(nx)
        /\ status' = [b \in Hash |-> CommittedStatus(b)]
        /\ events' = events \cup logs
        /\ sync' = nx
        /\ health' = nx.observed
        /\ pc' = "idle"
        /\ Forget
        /\ UNCHANGED <<chainVars, openReorgs, failure, crashes>>

-----------------------------------------------------------------------------
(* recoverReorg. *)

\* The walk reads one header per iteration, from the detected tip down to the
\* floor or until SearchDepth candidates are collected.
Walking == cursor >= CandidateFloor /\ Height[tip] - cursor < SearchDepth

ReadCandidate ==
  /\ pc = "walk"
  /\ Walking
  /\ \/ NoHeader(cursor)
     \/ \E h \in HeaderByNumber(cursor) :
          \/ /\ \/ cursor = Height[tip] /\ h # tip
                \/ previous # NoBlock /\ Parent[previous] # h
             /\ Fail("recovery")
          \/ /\ cursor = Height[tip] => h = tip
             /\ previous # NoBlock => Parent[previous] = h
             /\ candidates' = candidates \cup {h}
             /\ previous' = h
             /\ cursor' = cursor - 1
             /\ UNCHANGED <<chainVars, dbVars, pc, readVars, chunk, logs, nx, tip,
                            health, failure, crashes>>

EndWalk ==
  /\ pc = "walk"
  /\ ~Walking
  /\ pc' = "record"
  /\ UNCHANGED <<chainVars, dbVars, readVars, chunkVars, walkVars, cursor,
                 health, failure, crashes>>

\* Mutant: the lowest stored block among the candidates.
LowestAncestors ==
  {a \in candidates \cap Indexed :
     \A b \in candidates \cap Indexed : Height[a] <= Height[b]}

\* FindCommonAncestor: the highest stored block among the candidates.
CommonAncestors ==
  {a \in candidates \cap Indexed :
     \A b \in candidates \cap Indexed : Height[b] <= Height[a]}

\* The first recovery transaction: find the ancestor, read the detected tip once
\* more and write the incident row.
RecordReorg ==
  /\ pc = "record"
  /\ \/ CommonAncestors = {} /\ Fail("recovery")
     \/ \E a \in CommonAncestors :
          \/ Height[a] >= Height[st.observed] /\ Fail("recovery")
          \/ Height[a] < Height[st.observed] /\ Height[a] < HeightOf(st.safe) /\ Fail("safe")
          \/ /\ Height[a] < Height[st.observed] /\ Height[a] >= HeightOf(st.safe)
             /\ \/ NoHeader(Height[tip])
                \/ (\E h \in HeaderByNumber(Height[tip]) : h # tip) /\ Fail("recovery")
                \/ /\ tip \in HeaderByNumber(Height[tip])
                   /\ openReorgs' = openReorgs + 1
                   /\ pc' = "recover"
                   /\ UNCHANGED <<chainVars, status, events, sync, readVars, chunkVars,
                                  walkVars, cursor, health, failure, crashes>>

\* Mutant: the rollback clears all watermarks.
ClearedState(a) == [NoState EXCEPT !.observed = a]

\* The watermarks after a rollback to a: only the observed one moves.
RecoveredState(a) == [st EXCEPT !.observed = a]

\* Mutant: the incident row is never given its outcome.
LeaveReorgOpen == UNCHANGED openReorgs

\* The incident row gets its outcome.
CompleteReorg == openReorgs' = openReorgs - 1

\* The second recovery transaction: delete events and blocks above the ancestor,
\* reset the observed watermark and complete the incident row.
RecoverReorg ==
  /\ pc = "recover"
  /\ \/ CommonAncestors = {} /\ Fail("recovery")
     \/ \E a \in CommonAncestors :
          /\ status' = [b \in Hash |-> IF Height[b] > Height[a] THEN "absent" ELSE status[b]]
          /\ events' = {b \in events : Height[b] <= Height[a]}
          /\ sync' = RecoveredState(a)
          /\ CompleteReorg
          /\ pc' = "idle"
          /\ Forget
          /\ UNCHANGED <<chainVars, health, failure, crashes>>

-----------------------------------------------------------------------------
Provider == (\E c \in Chains : NewHead(c)) \/ AdvanceSafe \/ AdvanceFinalized

Engine ==
  \/ ReadState \/ ReadLatest \/ ReadSafe \/ ReadFinalized
  \/ CheckSafe \/ CheckObserved
  \/ ReadHeader \/ EndChunk \/ Discover \/ RecheckHeader
  \/ PromoteSafe \/ PromoteFinalized \/ Commit
  \/ ReadCandidate \/ EndWalk \/ RecordReorg \/ RecoverReorg

Next == Provider \/ Engine \/ Crash \/ Restart

Spec == Init /\ [][Next]_vars

\* Run calls Step again without end and the supervisor restarts a dead process.
FairSpec == Spec /\ WF_vars(Engine) /\ WF_vars(Restart)

-----------------------------------------------------------------------------
(* Properties. *)

TypeOK ==
  /\ canon \in Chains
  /\ safeTag \in canon
  /\ finalTag \in Hash
  /\ orphans \subseteq Hash
  /\ keptSafe \in BOOLEAN
  /\ status \in [Hash -> Statuses]
  /\ events \subseteq Hash
  /\ sync \in Watermarks
  /\ openReorgs \in Int
  /\ pc \in Pcs
  /\ st \in Watermarks
  /\ nx \in Watermarks
  /\ hd \in Heads
  /\ cursor \in Int
  /\ previous \in Hash \cup {NoBlock}
  /\ chunk \subseteq Hash
  /\ logs \subseteq Hash
  /\ tip \in Hash \cup {NoBlock}
  /\ candidates \subseteq Hash
  /\ health \in Hash \cup {NoBlock}
  /\ failure \in Failures
  /\ crashes \in Nat

\* The stored blocks are one unbroken parent-linked chain from StartBlock to the
\* observed watermark: Step's header loop, the atomic commit and the rollback of
\* recoverReorg never leave a gap, a fork or a row above the watermark, whatever
\* the provider does between two reads and wherever the process dies.
LinkedLedger ==
  /\ \A b \in Indexed : /\ StartBlock <= Height[b]
                        /\ Height[b] <= HeightOf(sync.observed)
                        /\ Height[b] > StartBlock => Parent[b] \in Indexed
  /\ \A a, b \in Indexed : Height[a] = Height[b] => a = b
  /\ \A w \in {sync.observed, sync.safe, sync.finalized} : w = NoBlock \/ w \in Indexed
  /\ WatermarksOrdered(sync)

\* Exactly the stored blocks have their events stored: a log read by Discover
\* after the provider has moved to another branch never enters the ledger, and no
\* log of a committed block is missed.  It rests on the recheck of the chunk's
\* last header and on the provider not going back to an abandoned block.
EventsComplete == events = Indexed \cap LogBlocks

\* finality_status of every row agrees with the watermarks of sync_state, although
\* PromoteIndexedBlocks only touches the rows above the previous watermark and a
\* rollback touches no status at all.
FinalityMatchesWatermarks ==
  \A b \in Indexed :
    status[b] = IF Height[b] <= HeightOf(sync.finalized) THEN "finalized"
                ELSE IF Height[b] <= HeightOf(sync.safe) THEN "safe"
                ELSE "observed"

\* As long as the provider has kept the blocks it tagged safe, the indexer stores no safe
\* watermark off its canonical chain, although the tag is read long before the
\* promotion commits.
SafeIsCanonical == keptSafe => sync.safe = NoBlock \/ sync.safe \in canon

\* ErrSafeViolation, which stops ingestion until an operator steps in, is raised only
\* after the provider has abandoned a safe block, however its unsafe blocks are
\* reorganised while Step and recoverReorg read them.
NoFalseSafeViolation == keptSafe => failure # "safe"

\* Step never meets the states it treats as internal errors: a promotion block
\* that is not stored, a different row at the number of a new block, or
\* watermarks that break the CHECK constraints of sync_state.
NoIntegrityFailure == failure \notin {"missing", "conflict"}

\* An incident row stays without outcome only when the process died between the
\* two transactions of recoverReorg.
OpenReorgsExplained == openReorgs <= crashes + (IF pc = "recover" THEN 1 ELSE 0)

\* The health surface never reports uncommitted progress: the block it shows is stored,
\* or was stored and has left the chain.  (recoverReorg publishes nothing, so until the
\* next commit the block it has rolled back is still shown.)
HealthReportsCommitted ==
  health = NoBlock \/ health \in Indexed \cup orphans

\* What operators are shown is true: an open incident is one that a crash left behind or
\* the one being handled, and reported progress has been committed.
OperatorsSeeTruth ==
  /\ OpenReorgsExplained
  /\ HealthReportsCommitted

\* A step that keeps the blocks and events at or below the safe watermark and does
\* not move the safe or finalized watermark except upwards.
KeepsSafePrefix ==
  /\ \A b \in Indexed : Height[b] <= HeightOf(sync.safe) =>
       b \in Indexed' /\ (b \in events => b \in events')
  /\ sync'.safe = sync.safe \/ HeightOf(sync'.safe) > HeightOf(sync.safe)
  /\ sync'.finalized = sync.finalized \/ HeightOf(sync'.finalized) > HeightOf(sync.finalized)

\* No step removes a block or events at or below the stored safe watermark, moves
\* the safe or finalized watermark down or replaces the block it names, even for a
\* provider that reorganises safe blocks.
SafePrefixStable == [][KeepsSafePrefix]_vars

\* A rollback removes only blocks that have left the canonical chain: the ancestor
\* recoverReorg finds is never below the real fork point.
RollsBackOnlyOrphans == [][\A b \in Indexed : b \in Indexed' \/ b \in orphans]_vars

\* When the provider keeps its safe blocks and ends on one chain of full height, the
\* indexer ends with that chain observed, after every rollback, failed Step and restart on
\* the way.  (A chain replaced at StartBlock, or deeper than ReorgSearchDepth, fails every
\* Step from then on, as the code means it to: such trees are not of this property.)
CatchesUp ==
  []keptSafe /\ <>[](\E b \in canon : b \notin {Parent[c] : c \in Hash})
    => <>[](sync.observed \in Tips(canon))

-----------------------------------------------------------------------------
(* The inductive invariant behind LinkedLedger, FinalityMatchesWatermarks,  *)
(* NoIntegrityFailure and SafePrefixStable.                                 *)

Working == pc \notin {"idle", "down"}
Reading == pc \in {"latest", "safe", "finalized", "checkSafe", "checkObserved", "chunk",
                   "logs", "recheck"}
Promoting == pc \in {"promoteSafe", "promoteFinalized", "commit"}
Linking == pc \in {"chunk", "logs", "recheck"} \/ Promoting
Recovering == pc \in {"walk", "record", "recover"}

\* Step holds the stored watermarks: nobody else writes them while it runs.
StateIsCurrent == Working => st = sync

\* The stored blocks have no gap.
LedgerDense ==
  \A n \in StartBlock..HeightOf(sync.observed) : \E b \in Indexed : Height[b] = n

\* The blocks Step holds continue the ledger: a gapless linked chain on top of the
\* observed block that ends in `previous`.
ChunkLinked ==
  IF Linking
    THEN /\ chunk = {} => previous = st.observed
         /\ chunk # {} => previous \in chunk
         /\ \A b \in chunk :
              /\ From <= Height[b]
              /\ Height[b] <= Height[previous]
              /\ Height[b] > From => Parent[b] \in chunk
              /\ Height[b] = From => st.observed \in {NoBlock, Parent[b]}
         /\ \A a, b \in chunk : Height[a] = Height[b] => a = b
         /\ \A n \in From..HeightOf(previous) : \E b \in chunk : Height[b] = n
         /\ pc = "chunk" => cursor = IF chunk = {} THEN From ELSE Height[previous] + 1
    ELSE chunk = {}

\* A watermark Step is about to write is the stored one or a higher local block.
Raised(target) ==
  \/ nx[target] = st[target]
  \/ nx[target] \in chunk \cup Indexed /\ HeightOf(nx[target]) > HeightOf(st[target])

\* The state Step is about to write.
NextIsRaised ==
  /\ Reading => nx = st
  /\ Promoting => /\ nx.observed = previous
                  /\ previous # NoBlock
                  /\ Raised("safe")
                  /\ Raised("finalized")

\* The heads are known and ordered once they have been read.
HeadsKnown ==
  /\ pc \in {"finalized", "checkSafe", "checkObserved"} \/ Linking => hd.safe \in Hash
  /\ pc \in {"checkSafe", "checkObserved"} \/ Linking =>
       hd.finalized \in Hash /\ Height[hd.finalized] <= Height[hd.safe]

\* Promotion keeps the watermarks ordered: finalized follows safe follows observed.
PromotionOrdered ==
  /\ Promoting => HeightOf(nx.safe) <= HeightOf(nx.observed)
  /\ Promoting => HeightOf(st.finalized) <= HeightOf(nx.safe)
  /\ pc = "promoteFinalized" =>
       \/ PromotionNumber(hd.safe) < StartBlock
       \/ PromotionNumber(hd.safe) <= HeightOf(nx.safe)
  /\ pc \in {"promoteSafe", "promoteFinalized"} => nx.finalized = st.finalized
  /\ pc = "commit" => HeightOf(nx.finalized) <= HeightOf(nx.safe)

\* recoverReorg never considers an ancestor below the stored safe block.
CandidatesAboveSafe ==
  IF Recovering THEN \A c \in candidates : Height[c] >= CandidateFloor ELSE candidates = {}

\* What every step of the engine, the provider and a crash preserves: the ledger with
\* the memory of the Step in progress.  Step may commit what it holds because the
\* blocks it has linked, the watermarks it will write and the candidates of a
\* recovery still fit the stored ledger at every point where the provider moves.
IInv ==
  /\ TypeOK
  /\ StateIsCurrent
  /\ LedgerDense
  /\ ChunkLinked
  /\ NextIsRaised
  /\ HeadsKnown
  /\ PromotionOrdered
  /\ CandidatesAboveSafe
  /\ LinkedLedger
  /\ FinalityMatchesWatermarks
  /\ NoIntegrityFailure

=============================================================================
