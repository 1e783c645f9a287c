---------------------------- MODULE Projections ----------------------------
(***************************************************************************)
(* The event ledger of the indexer and the token projections kept from it: *)
(* tokens, token_reserves, holder_balances and candles.                    *)
(*                                                                         *)
(* The projections are computed twice.  A chunk that is committed applies  *)
(* each newly inserted event to them in log order (LedgerRouter.Apply and  *)
(* the Ingest methods of Adapter); a recovery deletes the events above the *)
(* common ancestor and lets rebuild_token_projections compute the rows of  *)
(* every affected token from what is left.                                 *)
(*                                                                         *)
(* The chain is the environment: a transaction is a call of a contract,    *)
(* its logs are the ones the contracts emit, in their order.  A call that  *)
(* was rolled back may be mined again, in another block.                   *)
(***************************************************************************)
EXTENDS Integers, FiniteSets, SequencesExt

CONSTANTS
    Tokens,      \* launched tokens; a token also names its curve and its pair
    Users,       \* accounts that trade and transfer
    Prices,      \* execution prices of trades
    Widths,      \* candle intervals, as numbers of blocks
    Ops,         \* contract calls that occur
    Supply,      \* total supply of a token
    LpTokens,    \* part of the supply that graduation moves to the pair
    MaxTxs,      \* bound on the number of transactions
    MaxHeight    \* bound on the number of blocks

ASSUME SupplyAssumption == /\ Supply \in Nat /\ LpTokens \in Nat
                           /\ 0 < LpTokens /\ LpTokens < Supply
ASSUME BoundsAssumption == /\ MaxTxs \in Nat /\ MaxHeight \in Nat
                           /\ Widths \subseteq Nat \ {0}
                           /\ Prices \subseteq Nat \ {0}

VARIABLES
    db,        \* the tables, see Tables
    height,    \* number of the last stored block
    txs,       \* calls by transaction hash, the hash being the position
    marked,    \* tokens the last write transaction marked dirty
    refused    \* a chunk was refused, the engine stopped

vars == <<db, height, txs, marked, refused>>

NoRow == <<>>
Addresses == Users \cup {"zero", "curve", "pair"}

-----------------------------------------------------------------------------
(* Logs.  The event tables differ in their columns; what the projections   *)
(* read of them is kept.                                                   *)

LaunchLog(t) == [kind |-> "launch", token |-> t]
TradeLog(t, p) == [kind |-> "trade", token |-> t, price |-> p]
GraduationLog(t) == [kind |-> "graduation", token |-> t]
TransferLog(t, f, to, v) ==
    [kind |-> "transfer", token |-> t, from |-> f, to |-> to, value |-> v]
SyncLog(t) == [kind |-> "sync", token |-> t]
SwapLog(t, p) == [kind |-> "swap", token |-> t, price |-> p]
LiquidityLog(k, t) == [kind |-> k, token |-> t]
ClaimLog(k, t) == [kind |-> k, token |-> t]
FactoryLog(k) == [kind |-> k]

ClaimKinds == {"creator_fees", "protocol_fees", "refund_credit", "refund_claim"}
PairKinds == {"sync", "swap", "mint", "burn"}
FactoryKinds == {"launch_fees", "launch_pause", "trading_pause", "engine",
                 "defaults", "treasury"}
TokenKinds == {"launch", "trade", "graduation", "transfer"} \cup ClaimKinds

-----------------------------------------------------------------------------
(* The chain: what a call does in a state given by the rows mined so far.  *)

Of(rows, k, t) == {r \in rows : r.log.kind = k /\ r.log.token = t}

OnChain(rows, t, a) ==
    LET moves == Of(rows, "transfer", t)
        In(r) == IF r.log.to = a THEN r.log.value ELSE 0
        Out(r) == IF r.log.from = a THEN r.log.value ELSE 0
    IN MapThenSumSet(In, moves) - MapThenSumSet(Out, moves)

Launched(rows, t) == Of(rows, "launch", t) # {}
Graduated(rows, t) == Of(rows, "graduation", t) # {}
OnCurve(rows, t) == Launched(rows, t) /\ ~Graduated(rows, t)

Calls ==
    UNION {
      [op : {"launch"} \cap Ops, token : Tokens],
      [op : {"launchBuy", "buy", "sell", "graduate"} \cap Ops, token : Tokens, user : Users, price : Prices],
      [op : {"transfer"} \cap Ops, token : Tokens, user : Users, to : Users, value : {0, 1}],
      [op : {"swapBuy", "swapSell"} \cap Ops, token : Tokens, user : Users, price : Prices \cup {0}],
      [op : {"donate", "mint", "burn"} \cap Ops, token : Tokens, user : Users],
      [op : {"claim"} \cap Ops, token : Tokens, kind : ClaimKinds],
      [op : {"factory"} \cap Ops, kind : FactoryKinds]}

(* The guard of a call: the contracts revert otherwise and log nothing.    *)
Succeeds(c, rows) ==
    CASE c.op \in {"launch", "launchBuy"} -> ~Launched(rows, c.token)
      [] c.op = "buy" -> OnCurve(rows, c.token) /\ OnChain(rows, c.token, "curve") > LpTokens + 1
      [] c.op = "graduate" -> OnCurve(rows, c.token) /\ OnChain(rows, c.token, "curve") > LpTokens
      [] c.op = "sell" -> OnCurve(rows, c.token) /\ OnChain(rows, c.token, c.user) > 0
      [] c.op = "transfer" -> Launched(rows, c.token) /\ OnChain(rows, c.token, c.user) >= c.value
      [] c.op = "swapBuy" -> Graduated(rows, c.token) /\ OnChain(rows, c.token, "pair") > 1
      [] c.op = "swapSell" -> Graduated(rows, c.token) /\ OnChain(rows, c.token, c.user) > 0
      [] c.op = "donate" -> Launched(rows, c.token)
      [] c.op = "mint" -> Graduated(rows, c.token) /\ OnChain(rows, c.token, c.user) > 0
      [] c.op = "burn" -> Graduated(rows, c.token) /\ OnChain(rows, c.token, "pair") > 1
      [] c.op = "claim" -> Launched(rows, c.token)
      [] c.op = "factory" -> TRUE

LogsOf(c, rows) ==
    LET t == c.token
        rest == OnChain(rows, t, "curve") - LpTokens
        launch == <<TransferLog(t, "zero", "curve", Supply), LaunchLog(t)>>
    IN CASE c.op = "launch" -> launch
         [] c.op = "launchBuy" ->
              launch \o <<TradeLog(t, c.price), TransferLog(t, "curve", c.user, 1)>>
         [] c.op = "buy" -> <<TradeLog(t, c.price), TransferLog(t, "curve", c.user, 1)>>
         [] c.op = "sell" -> <<TradeLog(t, c.price), TransferLog(t, c.user, "curve", 1)>>
         [] c.op = "graduate" ->
              <<TradeLog(t, c.price), TransferLog(t, "curve", c.user, rest),
                TransferLog(t, "curve", "pair", LpTokens),
                SyncLog(t), LiquidityLog("mint", t), GraduationLog(t)>>
         [] c.op = "transfer" -> <<TransferLog(t, c.user, c.to, c.value)>>
         [] c.op = "swapBuy" -> <<TransferLog(t, "pair", c.user, 1), SyncLog(t), SwapLog(t, c.price)>>
         [] c.op = "swapSell" -> <<TransferLog(t, c.user, "pair", 1), SyncLog(t), SwapLog(t, c.price)>>
         [] c.op = "donate" -> <<SyncLog(t)>>
         [] c.op = "mint" -> <<TransferLog(t, c.user, "pair", 1), SyncLog(t), LiquidityLog("mint", t)>>
         [] c.op = "burn" -> <<TransferLog(t, "pair", c.user, 1), SyncLog(t), LiquidityLog("burn", t)>>
         [] c.op = "claim" -> <<ClaimLog(c.kind, t)>>
         [] c.op = "factory" -> <<FactoryLog(c.kind)>>

(* The rows of a transaction mined in block n behind `before` other logs.  *)
RowsOf(tx, n, before, rows) ==
    LET logs == LogsOf(tx.call, rows)
    IN [i \in 1..Len(logs) |-> [block |-> n, tx |-> tx.id, ix |-> before + i, log |-> logs[i]]]

-----------------------------------------------------------------------------
(* Tables.                                                                 *)

NoToken == [phase |-> "none", at |-> NoRow]

EmptyTables ==
    [rows     |-> {},
     tokens   |-> [t \in Tokens |-> NoToken],
     reserves |-> [t \in Tokens |-> NoRow],
     holders  |-> [t \in Tokens |-> <<>>],
     candles  |-> [t \in Tokens |-> <<>>],
     dirty    |-> {},
     ok       |-> TRUE]

At(r) == <<r.block, r.ix>>

Later(a, b) == a[1] > b[1] \/ (a[1] = b[1] /\ a[2] > b[2])

With(f, k, v) == [x \in DOMAIN f \cup {k} |-> IF x = k THEN v ELSE f[x]]

MarkTokenDirty(d, t) == [d EXCEPT !.dirty = @ \cup {t}]

MarkPairTokenDirty(d, t) ==
    IF d.tokens[t].phase = "none" THEN d ELSE MarkTokenDirty(d, t)

Inserted(d, r) == [d EXCEPT !.rows = @ \cup {r}]

(* Rows with the key of r: hash and log index in the table of its kind.    *)
SameKey(rows, r) ==
    {s \in rows : s.tx = r.tx /\ s.ix = r.ix /\ s.log.kind = r.log.kind}

(* Mutant: a column of the comparison never matches.                       *)
MatchesNothing(rows, r) == FALSE

MatchesEvent(rows, r) == r \in rows

(* The row of market_trades, if the event is one with a price.             *)
Sync(rows, r) == {s \in Of(rows, "sync", r.log.token) : s.tx = r.tx /\ s.ix < r.ix}

IsMarketTrade(d, r) ==
    /\ \/ r.log.kind = "trade"
       \/ /\ r.log.kind = "swap"
          /\ d.tokens[r.log.token].phase # "none"
          /\ Sync(d.rows, r) # {}
    /\ r.log.price # 0

Bucket(w, n) == (n - 1) \div w

(* Mutant: the closing price is that of the first trade.                   *)
MergedKeepingClose(c, p) ==
    [c EXCEPT !.high = IF p > @ THEN p ELSE @, !.low = IF p < @ THEN p ELSE @,
              !.volume = @ + p, !.count = @ + 1]

Merged(c, p) ==
    [c EXCEPT !.high = IF p > @ THEN p ELSE @, !.low = IF p < @ THEN p ELSE @,
              !.close = p, !.volume = @ + p, !.count = @ + 1]

NewCandle(p) ==
    [open |-> p, high |-> p, low |-> p, close |-> p, volume |-> p, count |-> 1]

ApplyMarketTradeCandles(d, r) ==
    LET t == r.log.token
        p == r.log.price
        old == d.candles[t]
        keys == {<<w, Bucket(w, r.block)>> : w \in Widths}
    IN IF ~IsMarketTrade(d, r) THEN d
       ELSE [d EXCEPT !.candles[t] =
               [k \in DOMAIN old \cup keys |->
                  IF k \notin keys THEN old[k]
                  ELSE IF k \in DOMAIN old THEN Merged(old[k], p) ELSE NewCandle(p)]]

NewerReserve(d, r, source) ==
    LET old == d.reserves[r.log.token]
    IN IF old = NoRow \/ Later(At(r), old.at)
       THEN [d EXCEPT !.reserves[r.log.token] = [source |-> source, at |-> At(r)]]
       ELSE d

ApplyTradeReserve(d, r) == NewerReserve(d, r, "curve")

ApplyPoolSyncReserve(d, r) ==
    IF d.tokens[r.log.token].phase = "graduated" THEN NewerReserve(d, r, "pair") ELSE d

ApplyTokenLaunch(d, r) ==
    [d EXCEPT !.tokens[r.log.token] =
        IF @.phase = "none" THEN [phase |-> "curve", at |-> NoRow] ELSE @]

ApplyGraduation(d, r) ==
    [d EXCEPT !.tokens[r.log.token] =
        IF @.phase = "none" THEN @ ELSE [phase |-> "graduated", at |-> At(r)]]

NoBalance == [balance |-> 0, first |-> 0]

(* The two legs of a transfer; the zero address only receives.             *)
Deltas(g) ==
    LET legs == (IF g.from = "zero" THEN {} ELSE {g.from}) \cup {g.to}
    IN [a \in legs |-> (IF a = g.to THEN g.value ELSE 0)
                       - (IF a = g.from /\ a # "zero" THEN g.value ELSE 0)]

BalanceOf(d, t, a) == IF a \in DOMAIN d.holders[t] THEN d.holders[t][a] ELSE NoBalance

TransferFits(d, r) ==
    LET delta == Deltas(r.log)
    IN \A a \in DOMAIN delta : BalanceOf(d, r.log.token, a).balance + delta[a] >= 0

(* Mutant: an emptied account keeps its acquisition block.                 *)
ApplyTransferKeepingFirst(d, r) ==
    LET t == r.log.token
        delta == Deltas(r.log)
        New(a) == LET old == BalanceOf(d, t, a)
                  IN [balance |-> old.balance + delta[a],
                      first |-> IF old.balance = 0 THEN r.block ELSE old.first]
    IN [d EXCEPT !.holders[t] =
          [a \in DOMAIN @ \cup DOMAIN delta |-> IF a \in DOMAIN delta THEN New(a) ELSE @[a]]]

(* 0 stands for NULL: blocks are numbered from 1.                          *)
ApplyTransfer(d, r) ==
    LET t == r.log.token
        delta == Deltas(r.log)
        New(a) == LET old == BalanceOf(d, t, a)
                      sum == old.balance + delta[a]
                  IN [balance |-> sum,
                      first |-> IF sum = 0 THEN 0
                                ELSE IF old.balance = 0 THEN r.block ELSE old.first]
    IN [d EXCEPT !.holders[t] =
          [a \in DOMAIN @ \cup DOMAIN delta |-> IF a \in DOMAIN delta THEN New(a) ELSE @[a]]]

-----------------------------------------------------------------------------
(* Ingestion of one new event, by kind.                                    *)

IngestTokenLaunch(d, r) == MarkTokenDirty(ApplyTokenLaunch(d, r), r.log.token)

IngestTrade(d, r) ==
    MarkTokenDirty(ApplyMarketTradeCandles(ApplyTradeReserve(d, r), r), r.log.token)

IngestGraduation(d, r) == MarkTokenDirty(ApplyGraduation(d, r), r.log.token)

(* Mutant: a transfer does not mark its token.                             *)
IngestTransferUnmarked(d, r) ==
    IF TransferFits(d, r) THEN ApplyTransfer(d, r) ELSE [d EXCEPT !.ok = FALSE]

IngestTransfer(d, r) ==
    IF TransferFits(d, r) THEN MarkTokenDirty(ApplyTransfer(d, r), r.log.token)
    ELSE [d EXCEPT !.ok = FALSE]

IngestPoolSync(d, r) == MarkPairTokenDirty(ApplyPoolSyncReserve(d, r), r.log.token)

IngestPoolSwap(d, r) == MarkPairTokenDirty(ApplyMarketTradeCandles(d, r), r.log.token)

IngestClaim(d, r) == MarkTokenDirty(d, r.log.token)

IngestLiquidity(d, r) == MarkPairTokenDirty(d, r.log.token)

(* LedgerRouter.apply                                                      *)
Route(d, r) ==
    LET k == r.log.kind
    IN CASE k = "launch" -> IngestTokenLaunch(d, r)
         [] k = "trade" -> IngestTrade(d, r)
         [] k = "graduation" -> IngestGraduation(d, r)
         [] k = "transfer" -> IngestTransfer(d, r)
         [] k = "sync" -> IngestPoolSync(d, r)
         [] k = "swap" -> IngestPoolSwap(d, r)
         [] k \in {"mint", "burn"} -> IngestLiquidity(d, r)
         [] k \in ClaimKinds -> IngestClaim(d, r)
         [] k \in FactoryKinds -> d

(* A projection is touched only by an event whose insert added a row; an   *)
(* event that is stored with another payload aborts the transaction.       *)
Ingest(d, r) ==
    IF ~d.ok THEN d
    ELSE IF SameKey(d.rows, r) = {} THEN Route(Inserted(d, r), r)
    ELSE IF MatchesEvent(d.rows, r) THEN d
    ELSE [d EXCEPT !.ok = FALSE]

(* The router's checks over a whole chunk, before any event is applied.    *)
ChunkAccepted(d, chunk) ==
    LET rows == Range(chunk)
        tokens == {r \in d.rows \cup rows : r.log.kind = "launch"}
    IN \A r \in {s \in rows : s.log.kind = "trade"} :
         /\ \A g \in Of(rows, "graduation", r.log.token) : r.block <= g.block
         /\ \A l \in {s \in tokens : s.log.token = r.log.token} : r.block >= l.block

ApplyChunk(d, chunk) ==
    IF ChunkAccepted(d, chunk) THEN FoldLeft(Ingest, d, chunk) ELSE [d EXCEPT !.ok = FALSE]

-----------------------------------------------------------------------------
(* rebuild_token_projections: the rows of one token from the event tables. *)

Greatest(S) == CHOOSE a \in S : \A b \in S : a = b \/ Later(a, b)

RebuiltToken(rows, t) ==
    LET grads == {At(r) : r \in Of(rows, "graduation", t)}
    IN IF grads = {} THEN [phase |-> "curve", at |-> NoRow]
       ELSE [phase |-> "graduated", at |-> Greatest(grads)]

RebuiltReserve(rows, t) ==
    LET sources == Of(rows, "trade", t)
                   \cup (IF Graduated(rows, t) THEN Of(rows, "sync", t) ELSE {})
        last == Greatest({At(r) : r \in sources})
        row == CHOOSE r \in sources : At(r) = last
    IN IF sources = {} THEN NoRow
       ELSE [source |-> IF row.log.kind = "trade" THEN "curve" ELSE "pair", at |-> last]

RebuiltHolders(rows, t) ==
    LET moves == Of(rows, "transfer", t)
        Legs(a) == {r \in moves : a \in DOMAIN Deltas(r.log)}
        After(a, r) == MapThenSumSet(LAMBDA s : Deltas(s.log)[a],
                                     {s \in Legs(a) : ~Later(At(s), At(r))})
        Acquired(a) == {r.block : r \in {s \in Legs(a) : /\ After(a, s) = Deltas(s.log)[a]
                                                         /\ After(a, s) > 0}}
        Total(a) == MapThenSumSet(LAMBDA s : Deltas(s.log)[a], Legs(a))
    IN [a \in {b \in Addresses : Legs(b) # {}} |->
          [balance |-> Total(a),
           first |-> IF Total(a) = 0 THEN 0 ELSE Max(Acquired(a))]]

RebuiltCandles(d, t) ==
    LET trades == {r \in Of(d.rows, "trade", t) \cup Of(d.rows, "swap", t) : IsMarketTrade(d, r)}
        In(k) == {r \in trades : Bucket(k[1], r.block) = k[2]}
        keys == {<<w, Bucket(w, r.block)>> : w \in Widths, r \in trades}
        Candle(S) ==
          [open |-> (CHOOSE r \in S : \A s \in S : r = s \/ Later(At(s), At(r))).log.price,
           high |-> Max({r.log.price : r \in S}),
           low |-> Min({r.log.price : r \in S}),
           close |-> (CHOOSE r \in S : \A s \in S : r = s \/ Later(At(r), At(s))).log.price,
           volume |-> MapThenSumSet(LAMBDA r : r.log.price, S),
           count |-> Cardinality(S)]
    IN [k \in keys |-> Candle(In(k))]

(* Mutant: the row in tokens is left as it is.                             *)
RebuildKeepingPhase(d, t) ==
    MarkTokenDirty([d EXCEPT !.reserves[t] = RebuiltReserve(d.rows, t),
                             !.holders[t] = RebuiltHolders(d.rows, t),
                             !.candles[t] = RebuiltCandles(d, t)], t)

RebuildToken(d, t) ==
    LET e == [d EXCEPT !.tokens[t] = RebuiltToken(d.rows, t)]
    IN MarkTokenDirty([e EXCEPT !.reserves[t] = RebuiltReserve(d.rows, t),
                                !.holders[t] = RebuiltHolders(d.rows, t),
                                !.candles[t] = RebuiltCandles(e, t)], t)

ClearOrphanProjections(d, t) ==
    [d EXCEPT !.tokens[t] = NoToken, !.reserves[t] = NoRow, !.holders[t] = <<>>,
              !.candles[t] = <<>>, !.dirty = @ \ {t}]

RebuildTokenProjections(d, t) ==
    IF Launched(d.rows, t) THEN RebuildToken(d, t) ELSE ClearOrphanProjections(d, t)

(* Mutant: pool events are not traced to their token.                      *)
AffectedByTokenOnly(d, n) ==
    {r.log.token : r \in {s \in d.rows : s.block > n /\ s.log.kind \in TokenKinds}}

AffectedTokensAbove(d, n) ==
    LET above == {r \in d.rows : r.block > n}
    IN {r.log.token : r \in {s \in above : s.log.kind \in TokenKinds}}
       \cup {t \in Tokens : /\ d.tokens[t].phase # "none"
                            /\ \E r \in above : r.log.kind \in PairKinds /\ r.log.token = t}

(* Mutant: the first orphaned block stays.                                 *)
DeleteFromNext(d, n) == [d EXCEPT !.rows = {r \in @ : r.block <= n + 1}]

DeleteCanonicalAbove(d, n) == [d EXCEPT !.rows = {r \in @ : r.block <= n}]

Recovered(d, n) ==
    FoldSet(LAMBDA t, e : RebuildTokenProjections(e, t),
            DeleteCanonicalAbove(d, n), AffectedTokensAbove(d, n))

-----------------------------------------------------------------------------
Init ==
    /\ db = EmptyTables
    /\ height = 0
    /\ txs = <<>>
    /\ marked = {}
    /\ refused = FALSE

(* Transactions that can be mined next: new ones, and rolled back ones.    *)
Mineable(calls, rows) ==
    (IF Len(calls) < MaxTxs
     THEN {[id |-> Len(calls) + 1, call |-> c] : c \in {c \in Calls : Succeeds(c, rows)}} ELSE {})
    \cup {[id |-> i, call |-> calls[i]] :
            i \in {j \in 1..Len(calls) : (\A r \in rows : r.tx # j) /\ Succeeds(calls[j], rows)}}

Known(calls, tx) == IF tx.id > Len(calls) THEN Append(calls, tx.call) ELSE calls

(* The write transaction of Engine.Step for the rows of a chunk.           *)
Write(chunk, n, calls) ==
    LET d == ApplyChunk([db EXCEPT !.dirty = {}], chunk)
    IN /\ txs' = calls
       /\ IF d.ok THEN /\ db' = [d EXCEPT !.dirty = {}]
                       /\ height' = n
                       /\ marked' = d.dirty
                       /\ UNCHANGED refused
          ELSE /\ refused' = TRUE
               /\ UNCHANGED <<db, height, marked>>

(* A chunk of one transaction.                                             *)
CommitOne ==
    /\ ~refused
    /\ height < MaxHeight
    /\ \E tx \in Mineable(txs, db.rows) :
         Write(RowsOf(tx, height + 1, 0, db.rows), height + 1, Known(txs, tx))

(* A chunk of two, in one block or in two.                                 *)
CommitTwo ==
    /\ ~refused
    /\ \E tx \in Mineable(txs, db.rows), gap \in {0, 1} :
         LET first == RowsOf(tx, height + 1, 0, db.rows)
             rows == db.rows \cup Range(first)
             calls == Known(txs, tx)
             n == height + 1 + gap
         IN /\ n <= MaxHeight
            /\ \E tx2 \in Mineable(calls, rows) :
                 Write(first \o RowsOf(tx2, n, IF gap = 0 THEN Len(first) ELSE 0, rows),
                       n, Known(calls, tx2))

(* A stored block is delivered again, after a commit whose outcome was not *)
(* known.                                                                  *)
Replay ==
    /\ ~refused
    /\ \E n \in 1..height :
         LET stored == {r \in db.rows : r.block = n}
             chunk == [i \in 1..Cardinality(stored) |-> CHOOSE r \in stored : r.ix = i]
         IN Write(chunk, height, txs)

(* The second transaction of recoverReorg, without statistics.             *)
Recover ==
    /\ ~refused
    /\ \E n \in 0..(height - 1) :
         LET d == Recovered([db EXCEPT !.dirty = {}], n)
         IN /\ db' = [d EXCEPT !.dirty = {}]
            /\ marked' = d.dirty
            /\ height' = n
    /\ UNCHANGED <<txs, refused>>

Next == CommitOne \/ CommitTwo \/ Replay \/ Recover

Spec == Init /\ [][Next]_vars

-----------------------------------------------------------------------------
(* Tables have the shape of the migrations; every row is at or below the   *)
(* height, and its transaction is known (adapter.go: Insert*, tokens,      *)
(* token_reserves, holder_balances, candles).                              *)
TypeOK ==
    /\ height \in 0..MaxHeight
    /\ Len(txs) <= MaxTxs
    /\ \A r \in db.rows : r.block \in 1..height /\ r.tx \in DOMAIN txs /\ r.ix \in Nat
    /\ \A t \in Tokens : db.tokens[t].phase \in {"none", "curve", "graduated"}
    /\ \A t \in Tokens : DOMAIN db.holders[t] \subseteq Addresses
    /\ \A t \in Tokens : \A k \in DOMAIN db.candles[t] : k[1] \in Widths
    /\ marked \subseteq Tokens
    /\ refused \in BOOLEAN

(* No sequence of contract transactions, replays and recoveries is refused *)
(* by the router's order checks, by NegativeBalanceError or by a key that  *)
(* a recovery left behind (adapter.go: insertEvent, IngestTransfer).       *)
NeverRefused == ~refused

(* The phase kept by ApplyGraduationProjection and across recoveries is    *)
(* the one rebuild_token_projections would compute.                        *)
PhaseAgrees ==
    \A t \in Tokens :
      db.tokens[t] = IF Launched(db.rows, t) THEN RebuiltToken(db.rows, t) ELSE NoToken

(* Balances and acquisition blocks kept transfer by transfer equal the     *)
(* windowed fold of the rebuild, zero and self transfers included.         *)
HoldersAgree ==
    \A t \in Tokens :
      db.holders[t] = IF Launched(db.rows, t) THEN RebuiltHolders(db.rows, t) ELSE <<>>

(* Candles kept trade by trade equal the rebuild's, for curve trades and   *)
(* pool swaps, across replays and recoveries.                              *)
CandlesAgree ==
    \A t \in Tokens :
      db.candles[t] = IF Launched(db.rows, t) THEN RebuiltCandles(db, t) ELSE <<>>

(* The reserves kept event by event equal the rebuild's.  This is what     *)
(* docs/plans/2026-09-05-backend-indexer.md asks of the writer.            *)
ReservesAgree ==
    \A t \in Tokens :
      db.reserves[t] = IF Launched(db.rows, t) THEN RebuiltReserve(db.rows, t) ELSE NoRow

(* They do agree except right after a graduation: the writer still shows   *)
(* the last trade while the rebuild shows the Sync of the same transaction.*)
ReservesAgreeOnceSynced ==
    \A t \in Tokens :
      \/ ~Launched(db.rows, t) /\ db.reserves[t] = NoRow
      \/ Launched(db.rows, t) /\ db.reserves[t] = RebuiltReserve(db.rows, t)
      \/ /\ db.tokens[t].phase = "graduated"
         /\ db.reserves[t].source = "curve"
         /\ \A s \in Of(db.rows, "sync", t) : Later(db.tokens[t].at, At(s))

(* A write transaction that changes what is shown of a token marks the     *)
(* token for the aggregation worker, unless it removes the token.          *)
ChangeMarksDirty ==
    [][\A t \in Tokens :
         \/ db'.tokens[t].phase = "none"
         \/ t \in marked'
         \/ /\ db'.tokens[t] = db.tokens[t] /\ db'.reserves[t] = db.reserves[t]
            /\ db'.holders[t] = db.holders[t] /\ db'.candles[t] = db.candles[t]]_vars

(* The two implementations of the projections agree: what the events of    *)
(* chunks and replays wrote one by one is what rebuild_token_projections   *)
(* computes from the rows, whatever was rolled back in between.            *)
RebuildAgrees ==
    /\ TypeOK
    /\ PhaseAgrees
    /\ HoldersAgree
    /\ CandlesAgree
    /\ ReservesAgreeOnceSynced
=============================================================================
