----------------------------- MODULE Aggregation -----------------------------
(***************************************************************************)
(* The aggregation workers of backend/internal/stats on the durable queue  *)
(* aggregation_dirty: ingestion marks a token dirty in the transaction     *)
(* that stores its events; a worker claims dirty tokens in batches,        *)
(* recomputes their token_stats and the protocol totals from the ledger,   *)
(* and deletes the claims it has completed.                                *)
(*                                                                         *)
(* A worker runs on the connection pool, one autocommitted statement after *)
(* another, beside the engine's ingestion and recovery transactions.  The  *)
(* pool is not the session that holds the ownership lock, so the worker of *)
(* a process that has lost it goes on beside the worker of its successor,  *)
(* until the process ends; both may have the same configured               *)
(* INDEXER_WORKER_ID.                                                      *)
(*                                                                         *)
(* A recomputation is one statement, but a long one: it reads a snapshot   *)
(* when it starts and writes when it ends, and other transactions may      *)
(* commit in between.  Each is therefore two actions.  When its client     *)
(* dies or loses the connection, the server may still finish it.           *)
(***************************************************************************)
EXTENDS Integers, Sequences, FiniteSets

CONSTANTS
  Tokens,         \* token addresses
  LaunchPrice,    \* price of a launch, by the factory's initial reserves
  TradePrices,    \* prices trades may reach
  WorkerID,       \* WorkerID[w]: Worker.WorkerID, configured, of the w-th process
  BatchSize,      \* Worker.BatchSize
  Window,         \* the 24 hours of the *_24h columns
  MaxIngestions,  \* bound on transactions that ingest
  MaxRecoveries,  \* bound on reorg recoveries
  MaxFailures,    \* bound on failed computations, dead processes and lost sessions
  MaxTime         \* bound on the clock

ASSUME AggregationAssumption ==
  /\ LaunchPrice \in Nat \ {0}
  /\ TradePrices \subseteq Nat \ {0}
  /\ BatchSize \in Nat \ {0}
  /\ Window \in Nat \ {0}
  /\ MaxIngestions \in Nat
  /\ MaxRecoveries \in Nat
  /\ MaxFailures \in Nat
  /\ MaxTime \in Nat

\* The indexer processes, numbered as they start: one for each failure is enough.
Workers == 1..(MaxFailures + 1)

VARIABLES
  now,         \* the database's clock
  ledger,      \* canonical launches and trades in chain order
  dirty,       \* aggregation_dirty: one row per token, generation 0 for no row
  generation,  \* aggregation_dirty_generation_seq
  stats,       \* token_stats
  protocol,    \* protocol_stats
  owner,       \* the process that owns the deployment, the last one started
  pc,          \* where each worker's drain is
  claims,      \* the worker's claims that are not computed yet
  computed,    \* the worker's claims that are computed and not completed yet
  statement,   \* what the worker's running statement has read and will write
  lingering,   \* statements without a client that the server may still finish
  recoveries,  \* recoveries so far
  failures,    \* failures so far
  version,     \* history: transactions of the engine so far
  changed,     \* history: the last of them that changed the token's events
  recovered,   \* history: the last of them that was a recovery of the token
  newest,      \* history: the newest version any write of the token's statistics had read
  totalled,    \* history: the newest version any write of the totals had read
  tainted      \* history: a statement from before the token's last recovery wrote after it

queueVars == <<dirty, generation>>
tableVars == <<stats, protocol, newest, totalled, tainted>>
ledgerVars == <<ledger, version, changed, recovered, recoveries>>
workVars == <<pc, claims, computed, statement>>
vars == <<now, ledger, dirty, generation, stats, protocol, owner, pc, claims, computed,
          statement, lingering, recoveries, failures, version, changed, recovered, newest,
          totalled, tainted>>

Prices == {LaunchPrice} \cup TradePrices
Events == [token : Tokens, launch : BOOLEAN, price : Prices, time : Nat]

\* The rows a recomputation of t reads in the ledger l, by their place in it.
EventsOf(t, l) == {i \in DOMAIN l : l[i].token = t}
Launched(t, l) == \E i \in DOMAIN l : l[i].token = t /\ l[i].launch

\* The highest price of the launch and the candles; 0 without any.
High(t, l) ==
  LET prices == {l[i].price : i \in EventsOf(t, l)}
  IN IF prices = {} THEN 0 ELSE CHOOSE p \in prices : \A q \in prices : q <= p

\* The events of the last 24 hours at time n.
Recent(t, l, n) == Cardinality({i \in EventsOf(t, l) : l[i].time + Window > n})

\* A row of token_stats.  `trades` stands for the columns that are recomputed from the
\* projections alone (spot price, capitalisation, liquidity, holders), `recent` for the
\* *_24h columns, which also depend on now(), kept in asOf (updated_at); `ath` is also fed
\* by its own previous value.  read is history: the version the statement had read.
NoStats == [trades |-> 0, recent |-> 0, asOf |-> 0, ath |-> 0, read |-> 0]
NoRow == [gen |-> 0, claimed |-> 0, by |-> "none", expired |-> FALSE]

Max2(a, b) == IF a >= b THEN a ELSE b

\* RecomputeTokenStats of t in the ledger l of version v, at time n, with the stored
\* all-time high previous.
Recomputed(t, l, v, n, previous) ==
  [trades |-> Cardinality(EventsOf(t, l)), recent |-> Recent(t, l, n), asOf |-> n,
   ath |-> Max2(previous, High(t, l)), read |-> v]

\* A running statement: RecomputeTokenStats of a token, which it found or not, or the
\* transaction of RecomputeProtocolAggregates.
NoStatement == [kind |-> "none", token |-> "none", found |-> FALSE, row |-> NoStats]
TokenStatement(t) ==
  [kind |-> "token", token |-> t, found |-> Launched(t, ledger),
   row |-> Recomputed(t, ledger, version, now, stats[t].ath)]

\* protocol_stats: `events` stands for its all-time columns; the *_24h ones age like recent.
NoTotals == [events |-> 0, read |-> 0]
ProtocolStatement ==
  [kind |-> "protocol", token |-> "none", found |-> FALSE,
   row |-> [NoStats EXCEPT !.trades = Len(ledger), !.read = version]]

Init ==
  /\ now = 0
  /\ ledger = << >>
  /\ dirty = [t \in Tokens |-> NoRow]
  /\ generation = 0
  /\ stats = [t \in Tokens |-> NoStats]
  /\ protocol = NoTotals
  /\ owner = 1
  /\ pc = [w \in Workers |-> IF w = 1 THEN "idle" ELSE "down"]
  /\ claims = [w \in Workers |-> {}]
  /\ computed = [w \in Workers |-> {}]
  /\ statement = [w \in Workers |-> NoStatement]
  /\ lingering = {}
  /\ recoveries = 0
  /\ failures = 0
  /\ version = 0
  /\ changed = [t \in Tokens |-> 0]
  /\ recovered = [t \in Tokens |-> 0]
  /\ newest = [t \in Tokens |-> 0]
  /\ totalled = 0
  /\ tainted = [t \in Tokens |-> FALSE]

-----------------------------------------------------------------------------
(* What a statement does to the tables when it ends. *)

\* The INSERT ... ON CONFLICT of RecomputeTokenStats replaces every column by what the
\* statement has computed from its snapshot.
WriteStats(s) ==
  /\ stats' = [stats EXCEPT ![s.token] = s.row]
  /\ newest' = [newest EXCEPT ![s.token] = Max2(@, s.row.read)]
  /\ tainted' = [tainted EXCEPT ![s.token] = @ \/ s.row.read < recovered[s.token]]

\* A token the statement did not find gets no row; one that has disappeared since is a
\* foreign-key error.
Orphaned(s) == s.found /\ ~Launched(s.token, ledger)
EndTokenStatement(s) ==
  /\ IF s.found /\ ~Orphaned(s) THEN WriteStats(s) ELSE UNCHANGED <<stats, newest, tainted>>
  /\ UNCHANGED <<protocol, totalled>>

EndProtocolStatement(s) ==
  /\ protocol' = [events |-> s.row.trades, read |-> s.row.read]
  /\ totalled' = Max2(totalled, s.row.read)
  /\ UNCHANGED <<stats, newest, tainted>>

\* The protocol transactions that have not ended, and whether one of them holds rows of
\* protocol_daily: those it has deleted, or those it has inserted for the days it found.
Transactions ==
  {statement[w] : w \in {v \in Workers : pc[v] = "protocol"}}
    \cup {s \in lingering : s.kind = "protocol"}
DaysLocked == \E s \in Transactions : protocol.events > 0 \/ s.row.trades > 0

-----------------------------------------------------------------------------
(* The engine's transactions. *)

\* Mutant: a row that is already there is left as it is.
MarkedOnce(row, gen) == IF row.gen = 0 THEN [NoRow EXCEPT !.gen = gen] ELSE row

\* MarkTokenDirty: insert the row or give it a new generation; a claim stays.
Marked(row, gen) == [row EXCEPT !.gen = gen]

\* Ingestion of a launch or a trade, and the mark, in one transaction.
Ingest(e) ==
  /\ version - recoveries < MaxIngestions
  /\ e.launch # Launched(e.token, ledger)
  /\ e.price \in IF e.launch THEN {LaunchPrice} ELSE TradePrices
  /\ ledger' = Append(ledger, e)
  /\ version' = version + 1
  /\ changed' = [changed EXCEPT ![e.token] = version + 1]
  /\ generation' = generation + 1
  /\ dirty' = [dirty EXCEPT ![e.token] = Marked(@, generation + 1)]
  /\ UNCHANGED <<now, tableVars, owner, workVars, lingering, recovered, recoveries, failures>>

\* The recovery transaction of recoverReorg: the ledger is cut after n events.
\* Affected tokens that survive are rebuilt, marked dirty and recomputed without
\* their previous all-time high; those whose launch is gone lose every row.  It
\* recomputes the totals too, and waits for the rows of protocol_daily they need.
Recover(n) ==
  LET kept == SubSeq(ledger, 1, n)
      affected == {ledger[i].token : i \in (n + 1)..Len(ledger)}
      surviving == {t \in affected : Launched(t, kept)}
  IN /\ recoveries < MaxRecoveries
     /\ ~DaysLocked
     /\ ledger' = kept
     /\ \E order \in {f \in [surviving -> 1..Cardinality(surviving)] :
                        \A s, t \in surviving : f[s] = f[t] => s = t} :
          dirty' = [t \in Tokens |->
                      IF t \in surviving THEN Marked(dirty[t], generation + order[t])
                      ELSE IF t \in affected THEN NoRow ELSE dirty[t]]
     /\ generation' = generation + Cardinality(surviving)
     /\ stats' = [t \in Tokens |->
                    IF t \in surviving THEN Recomputed(t, kept, version + 1, now, 0)
                    ELSE IF t \in affected THEN NoStats ELSE stats[t]]
     /\ protocol' = [events |-> Len(kept), read |-> version + 1]
     /\ recoveries' = recoveries + 1
     /\ version' = version + 1
     /\ changed' = [t \in Tokens |-> IF t \in affected THEN version + 1 ELSE changed[t]]
     /\ recovered' = [t \in Tokens |-> IF t \in affected THEN version + 1 ELSE recovered[t]]
     /\ newest' = [t \in Tokens |-> IF t \in affected THEN version + 1 ELSE newest[t]]
     /\ totalled' = version + 1
     /\ tainted' = [t \in Tokens |-> t \notin affected /\ tainted[t]]
     /\ UNCHANGED <<now, owner, workVars, lingering, failures>>

\* Hours pass; nothing marks a token whose *_24h columns they change.
Tick ==
  /\ now < MaxTime
  /\ now' = now + 1
  /\ UNCHANGED <<ledgerVars, queueVars, tableVars, owner, workVars, lingering, failures>>

\* Thirty seconds pass since claimed_at.
ExpireLease(t) ==
  /\ dirty[t].claimed # 0
  /\ ~dirty[t].expired
  /\ dirty' = [dirty EXCEPT ![t].expired = TRUE]
  /\ UNCHANGED <<now, ledgerVars, generation, tableVars, owner, workVars, lingering, failures>>

-----------------------------------------------------------------------------
(* The worker's drain. *)

\* Mutant: the lease of a claim never ends.
ClaimableWithoutLease(row) == row.gen # 0 /\ row.claimed < row.gen

\* The WHERE clause of ClaimAggregationDirty.
Claimable(row) == row.gen # 0 /\ (row.claimed < row.gen \/ row.expired)

\* Its SET clause.
ClaimedRow(row, w) ==
  [gen |-> row.gen, claimed |-> row.gen, by |-> WorkerID[w], expired |-> FALSE]

\* ClaimAggregationDirty: the oldest claimable rows, at most BatchSize of them.
Claim(w) ==
  LET eligible == {t \in Tokens : Claimable(dirty[t])}
      batch == {t \in eligible :
                  Cardinality({s \in eligible : dirty[s].gen < dirty[t].gen}) < BatchSize}
  IN /\ pc[w] = "idle"
     /\ batch # {}
     /\ dirty' = [t \in Tokens |->
                    IF t \in batch THEN ClaimedRow(dirty[t], w) ELSE dirty[t]]
     /\ claims' = [claims EXCEPT ![w] = {[token |-> t, gen |-> dirty[t].gen] : t \in batch}]
     /\ pc' = [pc EXCEPT ![w] = "compute"]
     /\ UNCHANGED <<now, ledgerVars, generation, tableVars, owner, computed, statement,
                    lingering, failures>>

\* RecomputeTokenStats starts for one claim and reads the ledger.
BeginCompute(w, c) ==
  /\ pc[w] = "compute"
  /\ c \in claims[w]
  /\ statement' = [statement EXCEPT ![w] = TokenStatement(c.token)]
  /\ pc' = [pc EXCEPT ![w] = "write"]
  /\ UNCHANGED <<now, ledgerVars, queueVars, tableVars, owner, claims, computed, lingering,
                 failures>>

\* It ends; after an error the claim stays in the queue for a retry.
EndCompute(w, c) ==
  /\ pc[w] = "write"
  /\ c \in claims[w]
  /\ c.token = statement[w].token
  /\ EndTokenStatement(statement[w])
  /\ claims' = [claims EXCEPT ![w] = @ \ {c}]
  /\ computed' = [computed EXCEPT ![w] = IF Orphaned(statement[w]) THEN @ ELSE @ \cup {c}]
  /\ statement' = [statement EXCEPT ![w] = NoStatement]
  /\ pc' = [pc EXCEPT ![w] = "compute"]
  /\ UNCHANGED <<now, ledgerVars, queueVars, owner, lingering, failures>>

\* The client of w's statement is gone; the server has given it up, or has not.
Abandon(w) ==
  /\ statement' = [statement EXCEPT ![w] = NoStatement]
  /\ lingering' \in {lingering, lingering \cup ({statement[w]} \ {NoStatement})}
  /\ UNCHANGED <<now, ledgerVars, queueVars, tableVars, owner>>

\* The statement fails and OnError is called; the batch goes on.
FailCompute(w, c) ==
  /\ pc[w] = "write"
  /\ c \in claims[w]
  /\ c.token = statement[w].token
  /\ failures < MaxFailures
  /\ failures' = failures + 1
  /\ Abandon(w)
  /\ claims' = [claims EXCEPT ![w] = @ \ {c}]
  /\ pc' = [pc EXCEPT ![w] = "compute"]
  /\ UNCHANGED computed

\* RecomputeProtocolAggregates runs once for the batch, unless nothing was computed.  Its
\* last statement reads the totals, after the transaction has the rows of protocol_daily.
BeginProtocol(w) ==
  /\ pc[w] = "compute"
  /\ claims[w] = {}
  /\ IF computed[w] = {}
       THEN pc' = [pc EXCEPT ![w] = "idle"] /\ UNCHANGED statement
       ELSE /\ ~DaysLocked
            /\ statement' = [statement EXCEPT ![w] = ProtocolStatement]
            /\ pc' = [pc EXCEPT ![w] = "protocol"]
  /\ UNCHANGED <<now, ledgerVars, queueVars, tableVars, owner, claims, computed, lingering,
                 failures>>

EndProtocol(w) ==
  /\ pc[w] = "protocol"
  /\ EndProtocolStatement(statement[w])
  /\ statement' = [statement EXCEPT ![w] = NoStatement]
  /\ pc' = [pc EXCEPT ![w] = "complete"]
  /\ UNCHANGED <<now, ledgerVars, queueVars, owner, claims, computed, lingering, failures>>

\* Its error becomes the result of every claim of the batch: none is completed.
FailProtocol(w) ==
  /\ pc[w] = "protocol"
  /\ failures < MaxFailures
  /\ failures' = failures + 1
  /\ Abandon(w)
  /\ computed' = [computed EXCEPT ![w] = {}]
  /\ pc' = [pc EXCEPT ![w] = "idle"]
  /\ UNCHANGED claims

\* Mutant: completion does not compare the generation of the row.
CompletesAny(row, c, w) == row.claimed = c.gen /\ row.by = WorkerID[w]

\* The WHERE clause of CompleteAggregationDirty.
Completes(row, c, w) == row.gen = c.gen /\ row.claimed = c.gen /\ row.by = WorkerID[w]

Complete(w, c) ==
  /\ pc[w] = "complete"
  /\ c \in computed[w]
  /\ dirty' = IF Completes(dirty[c.token], c, w)
                THEN [dirty EXCEPT ![c.token] = NoRow] ELSE dirty
  /\ computed' = [computed EXCEPT ![w] = @ \ {c}]
  /\ pc' = [pc EXCEPT ![w] = IF computed[w] = {c} THEN "idle" ELSE "complete"]
  /\ UNCHANGED <<now, ledgerVars, generation, tableVars, owner, claims, statement, lingering,
                 failures>>

\* The process ends: it dies, a claim or completion fails and ends Run, or it has noticed
\* that it lost the ownership.
Exit(w) ==
  /\ pc[w] # "down"
  /\ w = owner => failures < MaxFailures
  /\ failures' = IF w = owner THEN failures + 1 ELSE failures
  /\ Abandon(w)
  /\ pc' = [pc EXCEPT ![w] = "down"]
  /\ claims' = [claims EXCEPT ![w] = {}]
  /\ computed' = [computed EXCEPT ![w] = {}]

\* The next process gets the ownership lock, once the session that held it is gone: the
\* process of that session may be running still.
Start ==
  /\ owner <= MaxFailures
  /\ pc[owner] = "down" \/ failures < MaxFailures
  /\ failures' = IF pc[owner] = "down" THEN failures ELSE failures + 1
  /\ owner' = owner + 1
  /\ pc' = [pc EXCEPT ![owner + 1] = "idle"]
  /\ UNCHANGED <<now, ledgerVars, queueVars, tableVars, claims, computed, statement, lingering>>

\* The server finishes a statement whose client is gone.
FinishLate(s) ==
  /\ lingering' = lingering \ {s}
  /\ IF s.kind = "token" THEN EndTokenStatement(s) ELSE EndProtocolStatement(s)
  /\ UNCHANGED <<now, ledgerVars, queueVars, owner, workVars, failures>>

-----------------------------------------------------------------------------
Engine ==
  \/ \E e \in [token : Tokens, launch : BOOLEAN, price : Prices, time : {now}] : Ingest(e)
  \/ \E n \in 0..(Len(ledger) - 1) : Recover(n)

Drain(w) ==
  \/ Claim(w)
  \/ \E c \in claims[w] : BeginCompute(w, c) \/ EndCompute(w, c)
  \/ BeginProtocol(w) \/ EndProtocol(w)
  \/ \E c \in computed[w] : Complete(w, c)

Fault(w) == (\E c \in claims[w] : FailCompute(w, c)) \/ FailProtocol(w) \/ Exit(w)

Server == \E s \in lingering : FinishLate(s)

Next ==
  \/ Engine
  \/ Tick
  \/ \E t \in Tokens : ExpireLease(t)
  \/ \E w \in Workers : Drain(w) \/ Fault(w)
  \/ Start
  \/ Server

Spec == Init /\ [][Next]_vars

\* Run polls every five seconds whether or not it was notified, leases end with
\* time, the supervisor starts a process for one that has ended, and the server ends
\* every statement.
FairSpec ==
  /\ Spec
  /\ \A w \in Workers : WF_vars(Drain(w))
  /\ WF_vars(pc[owner] = "down" /\ Start)
  /\ \A t \in Tokens : WF_vars(ExpireLease(t))
  /\ WF_vars(Server)

-----------------------------------------------------------------------------
(* Properties. *)

StatsRow == [trades : Nat, recent : Nat, asOf : Nat, ath : Nat, read : Nat]
Statement == [kind : {"none", "token", "protocol"}, token : Tokens \cup {"none"},
              found : BOOLEAN, row : StatsRow]

\* The constraint aggregation_dirty_claim_not_ahead is part of the type.
Row == [gen : Nat, claimed : Nat, by : {WorkerID[w] : w \in Workers} \cup {"none"},
        expired : BOOLEAN]

TypeOK ==
  /\ now \in Nat
  /\ ledger \in Seq(Events)
  /\ dirty \in [Tokens -> Row]
  /\ \A t \in Tokens : dirty[t].claimed <= dirty[t].gen
  /\ generation \in Nat
  /\ stats \in [Tokens -> StatsRow]
  /\ protocol \in [events : Nat, read : Nat]
  /\ owner \in Workers
  /\ pc \in [Workers -> {"idle", "compute", "write", "protocol", "complete", "down"}]
  /\ \A w \in Workers : claims[w] \cup computed[w] \subseteq [token : Tokens, gen : Nat]
  /\ statement \in [Workers -> Statement]
  /\ lingering \subseteq Statement
  /\ recoveries \in Nat
  /\ failures \in Nat
  /\ version \in Nat
  /\ changed \in [Tokens -> Nat]
  /\ recovered \in [Tokens -> Nat]
  /\ newest \in [Tokens -> Nat]
  /\ totalled \in Nat
  /\ tainted \in [Tokens -> BOOLEAN]

\* The statistics of t are those of the ledger, the *_24h columns as of updated_at.
Current(t) ==
  /\ stats[t].trades = Cardinality(EventsOf(t, ledger))
  /\ stats[t].recent = Recent(t, ledger, stats[t].asOf)

\* The row of t was last written by a statement that a newer one had overtaken.
Overtaken(t) == stats[t].read < newest[t]

\* A launched token without a queue row has current statistics, unless the statement that
\* wrote them last was overtaken by one with a newer snapshot: the generation compared by
\* CompleteAggregationDirty never lets any worker drop a mark made after its statement took
\* its snapshot.  (Nothing stops an overtaken statement of the pool from writing last, and
\* then no row of the queue brings the token back.)
CleanMeansCurrent ==
  \A t \in Tokens : dirty[t].gen = 0 /\ Launched(t, ledger) => Current(t) \/ Overtaken(t)

\* When the queue is empty the protocol totals are those of the ledger, although they are
\* recomputed once per batch and after the token statistics of the batch; with the same
\* exception.
QuietMeansTotalled ==
  (\A t \in Tokens : dirty[t].gen = 0) =>
    protocol.events = Len(ledger) \/ protocol.read < totalled

\* What is not in the queue needs no work: neither a token's statistics nor, once the queue
\* is empty, the protocol totals, however many processes run the worker, die or lose a
\* statement that the server finishes later.
QueueHonest ==
  /\ TypeOK
  /\ CleanMeansCurrent
  /\ QuietMeansTotalled

\* The all-time high is never above that of the ledger, unless a statement that read before
\* the token's last recovery wrote after it; and the high of a token without a queue row is
\* never below that of the ledger, unless its last statement was overtaken.  (The worker's
\* statements are not serialised with the recovery transaction: one that is late brings the
\* high of a removed trade back, and every later recomputation keeps it.)
HighSurvives ==
  \A t \in Tokens : Launched(t, ledger) =>
    /\ stats[t].ath > High(t, ledger) => tainted[t]
    /\ dirty[t].gen = 0 /\ stats[t].ath < High(t, ledger) => Overtaken(t)

\* The queue runs empty once ingestion stops, although claims are abandoned by
\* failed computations and dead processes and only their leases release them.
QueueDrains == <>[](\A t \in Tokens : dirty[t].gen = 0)
=============================================================================
