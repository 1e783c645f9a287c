----------------------------- MODULE Discovery -----------------------------
(***************************************************************************)
(* Discovery of the logs of a block range (backend/internal/chain).        *)
(*                                                                         *)
(* A pass first fetches the factory's logs; every launch among them adds   *)
(* three emitters (curve, token, pair) whose logs are fetched from the     *)
(* block of the launch on; then come the emitters known before the pass.   *)
(* Addresses are queried in batches.  A query that the provider finds too  *)
(* large is split in two block ranges, a transient error is retried.       *)
(* The chain may change between two queries of a pass.                     *)
(***************************************************************************)
EXTENDS Integers, FiniteSets, SequencesExt

CONSTANTS
  Tokens,     \* launched tokens, as numbers
  From, To,   \* the block range of a pass
  Forks,      \* chains the provider may serve: sets of logs
  BatchSize,  \* addressBatchSize
  MaxRetries, \* RPCConfig.MaxRetries
  MaxLogs,    \* the provider refuses a query that matches more logs
  Errors      \* other errors of the provider

ASSUME DiscoveryAssumption ==
  /\ From \in Nat /\ To \in Nat /\ From <= To
  /\ Tokens \subseteq Nat \ {0} /\ IsFiniteSet(Tokens)
  /\ BatchSize \in Nat \ {0} /\ MaxRetries \in Nat /\ MaxLogs \in Nat

VARIABLES
  fork,     \* logs of the chain that the provider serves
  moved,    \* the chain changed during the pass
  known,    \* tokens known before the pass
  jobs,     \* queries still to make: block range and addresses
  stage,    \* "idle", "factory", "emitters", "done", "failed"
  attempt,  \* attempts of the first query so far
  found,    \* logs received, in the order of the replies
  reply     \* what the last reply was and what followed from it

vars == <<fork, moved, known, jobs, stage, attempt, found, reply>>

Kinds == <<"curve", "token", "pair">>

Factory == [kind |-> "factory", token |-> 0]
Emitter(kind, t) == [kind |-> kind, token |-> t]

\* A log: its coordinates, the hash of its block, its emitter, and the token it launches.
LogAt(block, index, hash, emitter) ==
  [block |-> block, index |-> index, hash |-> hash, emitter |-> emitter]

IsLaunch(log) == log.emitter.kind = "factory" /\ log.emitter.token # 0

\* Address that the log was emitted from.
AddressOf(log) == IF log.emitter.kind = "factory" THEN Factory ELSE log.emitter

\* Logs of the factory and of tokens' contracts.
IsLog(log) ==
  /\ log.block \in Nat /\ log.index \in Nat
  /\ log.emitter \in [kind : {"factory"}, token : Tokens \cup {0}]
                     \cup [kind : {"curve", "token", "pair"}, token : Tokens]

\* A chain has finitely many logs, one at each position.
ASSUME ChainAssumption ==
  \A f \in Forks :
    /\ IsFiniteSet(f)
    /\ \A log \in f : IsLog(log)
    /\ \A a, b \in f : a.block = b.block /\ a.index = b.index => a = b

-----------------------------------------------------------------------------
(* Errors of the provider: an HTTP status, a JSON-RPC code, or a cause,    *)
(* and what the message speaks of.                                         *)

Error(http, code, cause, about) ==
  [http |-> http, code |-> code, cause |-> cause, about |-> about]

TooLarge == Error(0, -32000, "rpc", "capacity")

ASSUME ErrorsAssumption == TooLarge \notin Errors

IsCapacityError(e) ==
  \/ e.http = 413
  \/ e.code \in {-32003, -32005}
  \/ e.about = "capacity"

IsRetryable(e) ==
  CASE e.cause = "canceled" -> FALSE
    [] e.cause \in {"deadline", "network"} -> TRUE
    [] e.cause = "http" -> e.http = 429 \/ e.http >= 500
    [] e.cause = "rpc" -> e.code <= -32000 /\ e.code >= -32099

-----------------------------------------------------------------------------
(* Queries.                                                                *)

Matching(job, logs) ==
  {log \in logs : /\ job.from <= log.block /\ log.block <= job.to
                  /\ AddressOf(log) \in job.addresses}

\* The elements of a set of numbers in ascending order.
Ascending(S) ==
  [i \in 1..Cardinality(S) |-> CHOOSE x \in S : Cardinality({y \in S : y < x}) = i - 1]

InOrder(S) ==
  LET Before(a, b) == a.block < b.block \/ (a.block = b.block /\ a.index < b.index)
  IN [i \in 1..Cardinality(S) |-> CHOOSE x \in S : Cardinality({y \in S : Before(y, x)}) = i - 1]

\* fetch: the addresses in ascending order, cut in batches.
Batches(from, to, addresses) ==
  LET sorted == Ascending({a.token : a \in addresses})
      count == (Len(sorted) + BatchSize - 1) \div BatchSize
      Batch(i) == {a \in addresses : \E k \in 1..Len(sorted) :
                     a.token = sorted[k] /\ (k - 1) \div BatchSize = i - 1}
  IN [i \in 1..count |-> [from |-> from, to |-> to, addresses |-> Batch(i)]]

ForEachKind(from, to, tokens) ==
  FlattenSeq([k \in 1..3 |-> Batches(from, to, {Emitter(Kinds[k], t) : t \in tokens})])

\* Mutant: the block in the middle is in both halves.
HalvesOverlap(job) ==
  LET middle == job.from + (job.to - job.from) \div 2
  IN <<[job EXCEPT !.to = middle], [job EXCEPT !.from = middle]>>

\* fetchRange: the two ranges of a query that is too large.
Halves(job) ==
  LET middle == job.from + (job.to - job.from) \div 2
  IN <<[job EXCEPT !.to = middle], [job EXCEPT !.from = middle + 1]>>

Launches(logs) == {log \in logs : IsLaunch(log)}

\* Mutant: new emitters are fetched from the block after the launch.
AfterFactoryLate(logs) ==
  LET blocks == Ascending({log.block : log \in Launches(logs)})
      Fresh(b) == {log.emitter.token : log \in {x \in Launches(logs) : x.block = b}}
  IN FlattenSeq([i \in 1..Len(blocks) |-> ForEachKind(blocks[i] + 1, To, Fresh(blocks[i]))])
     \o ForEachKind(From, To, known)

\* Discover, after the factory's logs: launches by block, then the known emitters.
AfterFactory(logs) ==
  LET blocks == Ascending({log.block : log \in Launches(logs)})
      Fresh(b) == {log.emitter.token : log \in {x \in Launches(logs) : x.block = b}}
  IN FlattenSeq([i \in 1..Len(blocks) |-> ForEachKind(blocks[i], To, Fresh(blocks[i]))])
     \o ForEachKind(From, To, known)

\* Two logs with the same coordinates that differ.
Conflicting(logs) ==
  \E i, j \in DOMAIN logs :
    logs[i].block = logs[j].block /\ logs[i].index = logs[j].index /\ logs[i] # logs[j]

\* Mutant: logs are returned as they came.
DeduplicateNothing(logs) == logs

\* deduplicateAndSort, when no two logs conflict.
DeduplicateAndSort(logs) == InOrder(Range(logs))

-----------------------------------------------------------------------------
NoReply == [error |-> Error(0, 0, "none", "none"), then |-> "none"]
Then(e, what) == reply' = [error |-> e, then |-> what]

Init ==
  /\ fork \in Forks
  /\ moved = FALSE
  /\ known \in SUBSET Tokens
  /\ jobs = <<>> /\ stage = "idle" /\ attempt = 0 /\ found = <<>>
  /\ reply = NoReply

\* Discover.  The known tokens were launched before the range.
Discover ==
  /\ stage = "idle"
  /\ \A log \in Launches(fork) : log.emitter.token \in known <=> log.block < From
  /\ stage' = "factory"
  /\ jobs' = Batches(From, To, {Factory})
  /\ UNCHANGED <<fork, moved, known, attempt, found, reply>>

Failed == stage' = "failed" /\ jobs' = <<>> /\ UNCHANGED found

\* Mutant: a range of two blocks is not split.
OnErrorEarly(e) ==
  IF IsCapacityError(e)
  THEN IF Head(jobs).from + 1 < Head(jobs).to
       THEN /\ Then(e, "split")
            /\ jobs' = Halves(Head(jobs)) \o Tail(jobs)
            /\ attempt' = 0
            /\ UNCHANGED <<stage, found>>
       ELSE Then(e, "capacity") /\ attempt' = 0 /\ Failed
  ELSE Then(e, "fail") /\ attempt' = 0 /\ Failed

\* What retry and fetchRange do with an error.
OnError(e) ==
  \/ /\ IsCapacityError(e)
     /\ Head(jobs).from < Head(jobs).to
     /\ Then(e, "split")
     /\ jobs' = Halves(Head(jobs)) \o Tail(jobs)
     /\ attempt' = 0
     /\ UNCHANGED <<stage, found>>
  \/ /\ IsCapacityError(e)
     /\ Head(jobs).from = Head(jobs).to
     /\ Then(e, "capacity")
     /\ attempt' = 0
     /\ Failed
  \/ /\ ~IsCapacityError(e) /\ IsRetryable(e) /\ attempt < MaxRetries
     /\ Then(e, "retry")
     /\ attempt' = attempt + 1
     /\ UNCHANGED <<jobs, stage, found>>
  \/ /\ ~IsCapacityError(e) /\ (IsRetryable(e) => attempt = MaxRetries)
     /\ Then(e, "fail")
     /\ attempt' = 0
     /\ Failed

InPass == stage \in {"factory", "emitters"} /\ jobs # <<>>

Answered ==
  LET logs == found \o InOrder(Matching(Head(jobs), fork))
  IN /\ Cardinality(Matching(Head(jobs), fork)) <= MaxLogs
     /\ found' = logs
     /\ attempt' = 0
     /\ reply' = NoReply
     /\ IF stage = "factory" /\ Len(jobs) = 1
        THEN stage' = "emitters" /\ jobs' = AfterFactory(Range(logs))
        ELSE stage' = stage /\ jobs' = Tail(jobs)

\* The provider answers, or refuses a query that matches too much.
Query ==
  /\ InPass
  /\ \/ Answered
     \/ /\ Cardinality(Matching(Head(jobs), fork)) > MaxLogs
        /\ OnError(TooLarge)
  /\ UNCHANGED <<fork, moved, known>>

\* The provider fails for another reason.
ProviderError ==
  /\ InPass
  /\ \E e \in Errors : OnError(e)
  /\ UNCHANGED <<fork, moved, known>>

\* A log of another address, or a launch whose pair is not the factory's.
BadLog ==
  /\ InPass
  /\ Failed
  /\ Then(Error(0, 0, "none", "none"), "fail")
  /\ attempt' = 0
  /\ UNCHANGED <<fork, moved, known>>

\* The end of Discover.
Finish ==
  /\ stage = "emitters" /\ jobs = <<>>
  /\ IF Conflicting(found) THEN stage' = "failed" /\ found' = found
     ELSE stage' = "done" /\ found' = DeduplicateAndSort(found)
  /\ UNCHANGED <<fork, moved, known, jobs, attempt, reply>>

Reorg ==
  /\ InPass
  /\ \E f \in Forks \ {fork} : fork' = f
  /\ moved' = TRUE
  /\ UNCHANGED <<known, jobs, stage, attempt, found, reply>>

Next == Discover \/ Query \/ ProviderError \/ BadLog \/ Finish \/ Reorg

\* The process keeps working on a pass; every call returns, with logs or an error.
Fairness == WF_vars(Discover \/ Query \/ ProviderError \/ BadLog \/ Finish)

Spec == Init /\ [][Next]_vars /\ Fairness

-----------------------------------------------------------------------------
(* Logs of the range from the factory, from tokens launched before, and    *)
(* from tokens launched in the range, these from the launch block on.      *)
Wanted ==
  {log \in fork :
     /\ From <= log.block /\ log.block <= To
     /\ \/ log.emitter.kind = "factory"
        \/ log.emitter.token \in known
        \/ \E l \in Launches(fork) :
             /\ l.emitter.token = log.emitter.token
             /\ From <= l.block /\ l.block <= log.block}

(* A pass over an unchanged chain returns exactly the logs of the range    *)
(* that belong to the protocol, each once and in order, however ranges     *)
(* were split, emitters batched and replies retried.                       *)
DiscoversExactly == stage = "done" /\ ~moved => found = InOrder(Wanted)

(* Whatever the chain did, the result has one log for each position, and   *)
(* each of its logs is of some chain that the provider served.             *)
OnePerPosition ==
  stage = "done" =>
    /\ \A i, j \in DOMAIN found : i < j =>
         \/ found[i].block < found[j].block
         \/ found[i].block = found[j].block /\ found[i].index < found[j].index
    /\ Range(found) \subseteq UNION Forks

(* A pass over an unchanged chain gives up for capacity only when one      *)
(* block has too many logs for one query.                                  *)
SplitsUntilAccepted ==
  stage = "failed" /\ reply.then = "capacity" /\ ~moved /\ reply.error = TooLarge =>
    \E b \in From..To, a \in {AddressOf(log) : log \in fork} :
      Cardinality({log \in fork : log.block = b /\ AddressOf(log).kind = a.kind}) > MaxLogs

(* A pass ends: splitting, retrying and refetching stop.                   *)
PassEnds == stage \in {"factory", "emitters"} ~> stage \in {"done", "failed"}

(* Every wanted log once and in order, however the pass was split, retried *)
(* and merged.                                                             *)
LogsOnceInOrder ==
  /\ DiscoversExactly
  /\ OnePerPosition
=============================================================================
