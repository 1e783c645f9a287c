------------------------------- MODULE Paging -------------------------------
(***************************************************************************)
(* The public listings: token cards, trades, holders and candles.          *)
(*                                                                         *)
(* One request is one read-only REPEATABLE READ transaction: it reads the  *)
(* observed block, then a page of rows.  The cursor it returns names that  *)
(* block, the request and the key of the last row; a later request with    *)
(* the cursor is answered only while the observed block is the same.       *)
(*                                                                         *)
(* Between requests the indexer commits blocks and rolls them back, the    *)
(* aggregation worker rewrites token_stats, and time passes.  The tables   *)
(* other than token_stats are functions of the observed chain (modules     *)
(* Indexer and Projections), so the chain stands for them, and for the     *)
(* hash of its last block.                                                 *)
(***************************************************************************)
EXTENDS Integers, FiniteSets, SequencesExt

CONSTANTS
  Tokens,     \* addresses, as positive numbers
  Holders,    \* addresses; 0 is the token's curve, which listings leave out
  Blocks,     \* blocks that may be mined: sequences of events
  Requests,   \* requests that clients make
  Limits,     \* page sizes
  MaxBlocks,  \* bound on the length of the chain
  MaxNow      \* bound on the server's clock

ASSUME PagingAssumption ==
  /\ Tokens \subseteq Nat \ {0} /\ Holders \subseteq Nat
  /\ Limits \subseteq Nat \ {0}
  /\ MaxBlocks \in Nat /\ MaxNow \in Nat

VARIABLES
  chain,    \* observed canonical blocks
  stats,    \* token_stats: market capitalisation and 24h volume of a token
  now,      \* clock of the API server
  session   \* a client that reads a listing page by page

vars == <<chain, stats, now, session>>

NoKey == <<>>                       \* before the first row
NoCursor == [endpoint |-> "none"]
NoTime == 0                         \* a time the request does not give

-----------------------------------------------------------------------------
(* Events of a chain, in the order (block_number, log_index).              *)

LaunchOf(t) == [kind |-> "launch", token |-> t]
GraduationOf(t) == [kind |-> "graduate", token |-> t]
TradeOf(t, price, eth) == [kind |-> "trade", token |-> t, price |-> price, eth |-> eth]
TransferOf(t, from, to, amount) ==
  [kind |-> "transfer", token |-> t, from |-> from, to |-> to, amount |-> amount]

Positions(c, kind, t) ==
  {q \in UNION {{n} \X (1..Len(c[n])) : n \in 1..Len(c)} :
     c[q[1]][q[2]].kind = kind /\ c[q[1]][q[2]].token = t}

At(c, q) == c[q[1]][q[2]]

Launched(c) == {t \in Tokens : Positions(c, "launch", t) # {}}

LaunchBlock(c, t) == (CHOOSE q \in Positions(c, "launch", t) : TRUE)[1]

Phase(c, t) == IF Positions(c, "graduate", t) = {} THEN "curve" ELSE "graduated"

RECURSIVE Total(_, _)
Total(c, S) ==
  IF S = {} THEN 0
  ELSE LET q == CHOOSE x \in S : TRUE IN At(c, q).eth + Total(c, S \ {q})

RECURSIVE Lex(_, _)
\* Comparison of row values, (a, b) < (c, d).
Lex(a, b) == a # <<>> /\ (Head(a) < Head(b) \/ (Head(a) = Head(b) /\ Lex(Tail(a), Tail(b))))

Earliest(S) == CHOOSE q \in S : \A r \in S : r = q \/ Lex(q, r)
Latest(S) == CHOOSE q \in S : \A r \in S : r = q \/ Lex(r, q)

\* token_stats as the aggregation worker computes it (module Aggregation).
Computed(c, t) ==
  LET trades == Positions(c, "trade", t)
  IN [cap |-> IF trades = {} THEN 0 ELSE At(c, Latest(trades)).price,
      volume |-> Total(c, trades)]

Balance(c, t, h) ==
  LET moved == Positions(c, "transfer", t)
      In == {q \in moved : At(c, q).to = h}
      Out == {q \in moved : At(c, q).from = h}
      Amount(S) == FoldLeft(LAMBDA n, q : n + At(c, q).amount, 0, SetToSeq(S))
  IN Amount(In) - Amount(Out)

-----------------------------------------------------------------------------
(* Candles.  Block n is mined in hour n.  A group ("6h") is GroupHours     *)
(* long and a day DayHours.                                                *)

GroupHours == 2
DayHours == 4

Bucket(hour, width) == (hour \div width) * width

\* Rows of candles: one per bucket with a trade.
StoredCandles(c, t, width) ==
  LET trades == Positions(c, "trade", t)
  IN {LET own == {q \in trades : Bucket(q[1], width) = start}
          prices == {At(c, q).price : q \in own}
      IN [start |-> start, open |-> At(c, Earliest(own)).price, close |-> At(c, Latest(own)).price,
          high |-> Max(prices), low |-> Min(prices),
          volume |-> Total(c, own), count |-> Cardinality(own)]
      : start \in {Bucket(q[1], width) : q \in trades}}

\* A NUMERIC as the driver decodes it: an integer without trailing zeros, and an exponent.
RECURSIVE NumericInt(_)
NumericInt(n) == IF n # 0 /\ n % 10 = 0 THEN NumericInt(n \div 10) ELSE n

\* candleNumeric keeps the integer of the NUMERIC.
CandleNumeric(n) == NumericInt(n)

\* One row of ListCandlesAggregated, for a group G of stored candles.
Aggregated(G) ==
  LET first == CHOOSE x \in G : \A y \in G : x.start <= y.start
      last == CHOOSE x \in G : \A y \in G : x.start >= y.start
      Sum(f(_)) == FoldLeft(LAMBDA n, x : n + f(x), 0, SetToSeq(G))
  IN [start |-> first.start,
      open |-> CandleNumeric(first.open), close |-> CandleNumeric(last.close),
      high |-> CandleNumeric(Max({x.high : x \in G})),
      low |-> CandleNumeric(Min({x.low : x \in G})),
      volume |-> CandleNumeric(Sum(LAMBDA x : x.volume)), count |-> Sum(LAMBDA x : x.count)]

-----------------------------------------------------------------------------
(* Queries: a set of rows, each with its ordering key.                     *)

Ascending(r) == r.endpoint = "candles" \/ r.sort = "oldest"

\* ORDER BY
Before(r, a, b) == IF Ascending(r) THEN Lex(a, b) ELSE Lex(b, a)

\* Mutant: addresses do not break ties.
FollowsByFirst(r, after, key) ==
  after = NoKey \/ (IF Ascending(r) THEN after[1] < key[1] ELSE key[1] < after[1])

\* The keyset predicate, of the same order.
Follows(r, after, key) == after = NoKey \/ Before(r, after, key)

\* Tokens of a phase whose name, symbol or address the search matches.
Cards(r, c) == {t \in Launched(c) : Phase(c, t) = r.phase /\ t \in r.search}

\* ListTokenCardsNewest and ListTokenCardsOldest
CardsByLaunch(r, c) == {[key |-> <<LaunchBlock(c, t), t>>, item |-> t] : t \in Cards(r, c)}

\* ListTokenCardsMarketCap
CardsByMarketCap(r, c, st) == {[key |-> <<st[t].cap, t>>, item |-> t] : t \in Cards(r, c)}

\* ListTokenCardsVolume
CardsByVolume(r, c, st) == {[key |-> <<st[t].volume, t>>, item |-> t] : t \in Cards(r, c)}

\* The query that ReadTokenCards chooses.
TokenCards(r, c, st) ==
  CASE r.sort \in {"newest", "oldest"} -> CardsByLaunch(r, c)
    [] r.sort = "market_cap" -> CardsByMarketCap(r, c, st)
    [] r.sort = "volume_24h" -> CardsByVolume(r, c, st)

\* ListMarketTrades
MarketTrades(r, c) == {[key |-> q, item |-> At(c, q)] : q \in Positions(c, "trade", r.token)}

\* ListTokenHolders
TokenHolders(r, c) ==
  {[key |-> <<Balance(c, r.token, h), h>>, item |-> h]
     : h \in {x \in Holders \ {0} : Balance(c, r.token, x) > 0}}

\* ListStoredCandles, and ListCandlesAggregated from an hour on.
Candles(r, c, from, to) ==
  LET width == IF r.sort \in {"1d", "all"} THEN DayHours ELSE 1
      stored == {x \in StoredCandles(c, r.token, width) : from <= x.start /\ x.start < to}
      group == IF r.sort = "all" THEN DayHours ELSE GroupHours
      items == IF r.sort \in {"1h", "1d"} THEN stored
               ELSE {Aggregated({x \in stored : Bucket(x.start, group) = g})
                       : g \in {Bucket(x.start, group) : x \in stored}}
  IN {[key |-> <<x.start>>, item |-> x] : x \in items}

\* The end of the range: the server's clock when the request names none.
To(r) == IF r.to = NoTime THEN now ELSE r.to

\* Rows that follow the key of a cursor, or all rows.
Rows(r, c, st, after) ==
  LET all == CASE r.endpoint = "tokens" -> TokenCards(r, c, st)
               [] r.endpoint = "trades" -> MarketTrades(r, c)
               [] r.endpoint = "holders" -> TokenHolders(r, c)
               [] r.endpoint = "candles" ->
                    IF r.sort \in {"6h", "all"} /\ after # NoKey
                    THEN Candles(r, c, after[1] + 1, To(r))
                    ELSE Candles(r, c, r.from, To(r))
  IN {x \in all : Follows(r, after, x.key)}

\* ORDER BY: the i-th row has i - 1 rows before it.
Sorted(r, S) ==
  [i \in 1..Cardinality(S) |->
     CHOOSE x \in S : Cardinality({y \in S : Before(r, y.key, x.key)}) = i - 1]

-----------------------------------------------------------------------------
(* Cursors.                                                                *)

\* observedIdentity
Identity == [number |-> Len(chain), hash |-> chain]

\* cursorFilter: what must not change between pages.
CursorFilter(r) ==
  CASE r.endpoint = "tokens" -> <<r.phase, r.search>>
    [] r.endpoint \in {"trades", "holders"} -> <<r.token>>
    [] r.endpoint = "candles" -> <<r.token, r.from, To(r)>>

CursorOf(r, key) ==
  [snapshot |-> Identity, endpoint |-> r.endpoint, sort |-> r.sort,
   filters |-> CursorFilter(r), key |-> key]

\* Mutant: only the height of the snapshot is compared.
ValidateRequestByHeight(cursor, r) ==
  IF cursor.endpoint # r.endpoint \/ cursor.sort # r.sort \/ cursor.filters # CursorFilter(r)
  THEN "invalid_cursor"
  ELSE IF cursor.snapshot.number # Len(chain) THEN "cursor_invalidated" ELSE "none"

\* Cursor.ValidateRequest
ValidateRequest(cursor, r) ==
  IF cursor.endpoint # r.endpoint \/ cursor.sort # r.sort \/ cursor.filters # CursorFilter(r)
  THEN "invalid_cursor"
  ELSE IF cursor.snapshot # Identity THEN "cursor_invalidated" ELSE "none"


\* A full page has a next cursor, at its last row.
NextCursor(r, rows, limit) ==
  IF Len(rows) >= limit THEN CursorOf(r, rows[limit].key) ELSE NoCursor

\* Why a request is refused before its rows are read: no observed block, no
\* such token, or a cursor that does not fit.
Refusal(r, cursor) ==
  CASE chain = <<>> -> "snapshot_unavailable"
    [] chain # <<>> /\ r.endpoint # "tokens" /\ r.token \notin Launched(chain) -> "token_not_found"
    [] OTHER -> IF cursor = NoCursor THEN "none" ELSE ValidateRequest(cursor, r)

\* ReadTokenCards, ListTrades, ListHolders, CandleReader.List
Respond(r, cursor, limit) ==
  LET refusal == Refusal(r, cursor)
      rows == Sorted(r, Rows(r, chain, stats, IF cursor = NoCursor THEN NoKey ELSE cursor.key))
  IN IF refusal # "none" THEN [code |-> refusal, items |-> <<>>, next |-> NoCursor]
     ELSE [code |-> "ok",
           items |-> [i \in 1..(IF Len(rows) < limit THEN Len(rows) ELSE limit) |-> rows[i].item],
           next |-> NextCursor(r, rows, limit)]

-----------------------------------------------------------------------------
Closed == [code |-> "closed"]

\* No row in token_stats: the queries read zeros.
NoStats == [cap |-> 0, volume |-> 0]

Init ==
  /\ chain = <<>>
  /\ stats = [t \in Tokens |-> NoStats]
  /\ now = MaxBlocks + 1
  /\ session = Closed

\* The indexer commits a block (module Indexer).
Commit ==
  /\ Len(chain) < MaxBlocks
  /\ \E b \in Blocks :
       /\ \A i \in 1..Len(b) :
            IF b[i].kind = "launch" THEN b[i].token \notin Launched(chain)
            ELSE b[i].token \in Launched(chain) /\ (b[i].kind = "graduate" => Phase(chain, b[i].token) = "curve")
       /\ \A i \in 1..Len(b) : b[i].kind = "transfer" =>
            b[i].from = 0 \/ Balance(chain, b[i].token, b[i].from) >= b[i].amount
       /\ chain' = Append(chain, b)
  /\ UNCHANGED <<stats, now, session>>

\* Recovery deletes the blocks above the common ancestor and recomputes the
\* statistics of the tokens they touched.
Rollback ==
  /\ \E n \in 1..(Len(chain) - 1) :
       LET kept == SubSeq(chain, 1, n)
           affected == UNION {{chain[m][i].token : i \in DOMAIN chain[m]} : m \in (n + 1)..Len(chain)}
       IN /\ chain' = kept
          /\ stats' = [t \in Tokens |-> IF t \notin affected THEN stats[t]
                                        ELSE IF t \in Launched(kept) THEN Computed(kept, t) ELSE NoStats]
  /\ UNCHANGED <<now, session>>

\* The aggregation worker recomputes a token.
Recompute ==
  /\ \E t \in Launched(chain) :
       stats[t] # Computed(chain, t) /\ stats' = [stats EXCEPT ![t] = Computed(chain, t)]
  /\ UNCHANGED <<chain, now, session>>

Tick ==
  /\ now < MaxBlocks + 1 + MaxNow
  /\ now' = now + 1
  /\ UNCHANGED <<chain, stats, session>>

\* Orders that depend on token_stats, and the column they depend on.
ByMetric(r) == r.sort \in {"market_cap", "volume_24h"}
Metric(r, st, t) == IF r.sort = "market_cap" THEN st[t].cap ELSE st[t].volume

\* Tokens with another metric than on the first page of a session.
Moved(s) ==
  {t \in Tokens : /\ ByMetric(s.request)
                  /\ Metric(s.request, stats, t) # Metric(s.request, s.stats, t)}

\* First page of a listing.
Open ==
  /\ session.code = "closed"
  /\ \E r \in Requests, limit \in Limits :
       LET a == Respond(r, NoCursor, limit)
       IN session' = [request |-> r, changed |-> FALSE, snapshot |-> Identity,
                      stats |-> IF ByMetric(r) THEN stats ELSE <<>>, moved |-> {},
                      code |-> a.code, items |-> a.items, cursor |-> a.next]
  /\ UNCHANGED <<chain, stats, now>>

\* A further page: with the request of the first one, or with another request.
Follow ==
  /\ session.code = "ok" /\ session.cursor # NoCursor
  /\ \E r \in Requests, limit \in Limits :
       LET a == Respond(r, session.cursor, limit)
       IN session' = [session EXCEPT !.changed = r # session.request, !.code = a.code,
                                     !.moved = @ \cup Moved(session),
                                     !.items = @ \o a.items, !.cursor = a.next]
  /\ UNCHANGED <<chain, stats, now>>

Close ==
  /\ session.code # "closed"
  /\ session' = Closed
  /\ UNCHANGED <<chain, stats, now>>

Next == Commit \/ Rollback \/ Recompute \/ Tick \/ Open \/ Follow \/ Close

Spec == Init /\ [][Next]_vars

-----------------------------------------------------------------------------
Reading == session.code = "ok"
Finished == Reading /\ session.cursor = NoCursor

\* The whole listing as of the session's snapshot.
Listing ==
  LET r == session.request
      rows == Sorted(r, Rows(r, session.snapshot.hash, IF ByMetric(r) THEN session.stats ELSE stats, NoKey))
  IN [i \in 1..Len(rows) |-> rows[i].item]

Group(r, start) == Bucket(start, IF r.sort = "all" THEN DayHours ELSE GroupHours)

\* Row i is the rest of a 6h group whose first candles a page ended with: the cursor holds
\* the start of the group's first candle, and the next page begins right after it.
IsRest(items, i) ==
  /\ session.request.sort = "6h"
  /\ \E j \in 1..(i - 1) : Group(session.request, items[i].start) = Group(session.request, items[j].start)

\* What is left of a list without the rests of groups and without the tokens whose metric the
\* worker has rewritten between two pages, which a cursor does not notice.
Settled(items) ==
  LET kept == {i \in DOMAIN items :
                 ~IsRest(items, i) /\ (session.request.endpoint = "tokens" => items[i] \notin session.moved)}
  IN [i \in 1..Cardinality(kept) |->
        items[CHOOSE k \in kept : Cardinality({h \in kept : h < k}) = i - 1]]

(* The pages that a client collects through the cursors of one listing are *)
(* the listing as of its snapshot, in order, with no row repeated or left  *)
(* out, however the chain moved between the requests.  Only tokens whose   *)
(* metric was rewritten meanwhile may be missing or listed twice, and a    *)
(* page of 6h candles may begin with the rest of the last page's group.    *)
PagesAreListing ==
  Reading =>
    IF Finished THEN Settled(session.items) = Settled(Listing)
    ELSE IsPrefix(Settled(session.items), Settled(Listing))

\* A range that ends "now" is another range in the next second.
EndsNow(r) == r.endpoint = "candles" /\ r.to = NoTime

(* A cursor is refused for a reason: "invalid" when the client changed the *)
(* request or left the end of a candle range open, "invalidated" when the  *)
(* chain changed; and it is never accepted for another request.            *)
RefusalJustified ==
  [][Reading /\ session'.code # "closed" =>
       /\ session'.code = "invalid_cursor" => session'.changed \/ EndsNow(session.request)
       /\ session'.code = "cursor_invalidated" => session.snapshot # Identity
       /\ session'.code = "ok" => ~session'.changed /\ session.snapshot = Identity]_session

(* A finished listing of token cards names every token of the phase once,  *)
(* in every order that the API offers, unless its metric was rewritten     *)
(* while the listing was read.                                             *)
EveryTokenOnce ==
  Finished /\ session.request.endpoint = "tokens" =>
    /\ IsInjective(Settled(session.items))
    /\ Range(Settled(session.items)) =
         {t \in Launched(session.snapshot.hash) \ session.moved :
            Phase(session.snapshot.hash, t) = session.request.phase /\ t \in session.request.search}

(* A finished listing of 6h or all candles accounts for every trade in the *)
(* stored candles of the range: the first candle of a group counts all its *)
(* trades, and its volume is theirs, without the zeros at its end.  Daily  *)
(* groups have no other candle; a 6h group may come again in part.         *)
RollupsSumUp ==
  Finished /\ session.request.sort \in {"6h", "all"} =>
    LET r == session.request
        width == IF r.sort = "all" THEN DayHours ELSE 1
        traded == {q \in Positions(session.snapshot.hash, "trade", r.token) :
                     r.from <= Bucket(q[1], width) /\ Bucket(q[1], width) < To(r)}
        own(g) == {q \in traded : Group(r, q[1]) = g}
        candles == Settled(session.items)
    IN /\ {Group(r, candles[i].start) : i \in DOMAIN candles} = {Group(r, q[1]) : q \in traded}
       /\ \A i, j \in DOMAIN candles : Group(r, candles[i].start) = Group(r, candles[j].start) => i = j
       /\ \A i \in DOMAIN candles :
            LET trades == own(Group(r, candles[i].start))
            IN /\ candles[i].count = Cardinality(trades)
               /\ candles[i].volume = CandleNumeric(Total(session.snapshot.hash, trades))

=============================================================================
