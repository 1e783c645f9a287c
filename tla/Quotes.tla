------------------------------- MODULE Quotes -------------------------------
(***************************************************************************)
(* Quotes of the API.  A bonding curve trades on chain; the indexer stores *)
(* its trades and fee claims, and after graduation the reserves of the     *)
(* pair; a quote reads the stored rows in one snapshot, rebuilds the       *)
(* curve's state from them and runs the backend's copy of the arithmetic   *)
(* (GoCurve) on the amount of the request.                                 *)
(*                                                                         *)
(* The chain may roll back to any earlier state: the rows above it are     *)
(* removed with it (module Indexer).                                       *)
(***************************************************************************)
EXTENDS GoCurve, FiniteSets

CONSTANTS
  AllParameters,  \* curve parameters that are tried
  Trades,         \* trade sizes on chain
  PoolReserves,   \* reserves of the pair, after graduation
  Texts,          \* amounts of requests, as sequences of characters
  MaxRows         \* bound on the rows of the token

Chain == INSTANCE CurveMath

NotDigit == 10   \* a character that is not one of the digits 0..9

\* The parameters and amounts of the contracts are uint256.
ASSUME QuotesAssumption ==
  /\ AllParameters \subseteq Chain!CurveParameters
  /\ \A q \in AllParameters : q.totalSupply <= MaxUint
  /\ Trades \subseteq Nat
  /\ PoolReserves \subseteq 0..MaxUint
  /\ Texts \subseteq Seq(0..NotDigit)
  /\ MaxRows \in Nat

VARIABLES
  p,        \* parameters of the token, as stored in tokens
  market,   \* state of the curve contract
  history,  \* its earlier states, one per row
  rows,     \* trades, claims and pair reserves of the token, in log order
  answer    \* outcome of the last request against the present market

vars == <<p, market, history, rows, answer>>

NoAnswer == [side |-> "none", text |-> <<>>, reply |-> [code |-> "none"]]

-----------------------------------------------------------------------------
(* Texts.  A character is a digit 0..9, or NotDigit.                       *)

\* SetString in base 10.
Value(s) ==
  LET value[k \in 0..Len(s)] == IF k = 0 THEN 0 ELSE 10 * value[k - 1] + s[k]
  IN value[Len(s)]

\* decimal
Format[n \in Nat] == IF n < 10 THEN <<n>> ELSE Append(Format[n \div 10], n % 10)

\* The 78 characters of the largest uint256.
MaxLength == Len(Format[MaxUint])

\* Mutant: leading zeros are accepted.
CanonicalLoosely(s) ==
  s # <<>> /\ Len(s) <= MaxLength /\ (\A i \in DOMAIN s : s[i] # NotDigit) /\ Value(s) <= MaxUint

\* parseCanonicalUint256 accepts s.
Canonical(s) ==
  /\ s # <<>>
  /\ Len(s) <= MaxLength
  /\ Len(s) > 1 => s[1] # 0
  /\ \A i \in DOMAIN s : s[i] # NotDigit
  /\ Value(s) <= MaxUint

-----------------------------------------------------------------------------
(* The stored rows and the state rebuilt from them.                        *)

TradeRow(q, graduates) ==
  [kind |-> "trade", eth |-> q.newEth, token |-> q.newToken,
   protocolFee |-> q.fees.protocol, creatorFee |-> q.fees.creator, graduates |-> graduates]

ClaimRow(k, amount) == [kind |-> k, amount |-> amount]

SyncRow(eth, token) == [kind |-> "sync", eth |-> eth, token |-> token]

\* Positions of the rows of one table.
Of(rs, k) == {i \in DOMAIN rs : rs[i].kind = k}

\* The sum of a column is the number of its units, each counted with its row.
Units(rs, k, field) == UNION {{i} \X (1..rs[i][field]) : i \in Of(rs, k)}
SumOf(rs, k, field) == Cardinality(Units(rs, k, field))

Positive(n) == IF n > 0 THEN n ELSE 0

\* token_reserves: a trade on the curve or a Sync of the pair, whichever is the last.
Priced(rs) == Of(rs, "trade") \cup Of(rs, "sync")
LastPriced(rs) == rs[CHOOSE i \in Priced(rs) : \A j \in Priced(rs) : j <= i]
EthReserve(q, rs) == IF Priced(rs) = {} THEN q.initialVirtualEth ELSE LastPriced(rs).eth
TokenReserve(q, rs) == IF Priced(rs) = {} THEN q.initialVirtualToken ELSE LastPriced(rs).token

\* tokens.phase
Phase(rs) == IF \E i \in Of(rs, "trade") : rs[i].graduates THEN "graduated" ELSE "curve"

\* Mutant: claims are not subtracted.
ReadQuoteStateGross(q, rs) ==
  [phase |-> Phase(rs), virtualEth |-> EthReserve(q, rs), virtualToken |-> TokenReserve(q, rs),
   protocolFees |-> SumOf(rs, "trade", "protocolFee"),
   creatorFees |-> SumOf(rs, "trade", "creatorFee")]

\* GetTokenQuoteState
ReadQuoteState(q, rs) ==
  [phase |-> Phase(rs), virtualEth |-> EthReserve(q, rs), virtualToken |-> TokenReserve(q, rs),
   protocolFees |-> Positive(SumOf(rs, "trade", "protocolFee")
                             - SumOf(rs, "protocol_claim", "amount")),
   creatorFees |-> Positive(SumOf(rs, "trade", "creatorFee")
                            - SumOf(rs, "creator_claim", "amount"))]

\* Service.Quote
ServiceQuote(side, amount) ==
  LET s == ReadQuoteState(p, rows)
  IN IF NewParameters(p) # "none" THEN [error |-> NewParameters(p)]
     ELSE IF NewState(s) # "none" THEN [error |-> NewState(s)]
     ELSE IF side = "buy" THEN Buy(s, p, amount) ELSE Sell(s, p, amount)

\* Mutant: an amount too small to trade is an internal error.
CodeWithoutDust(error) ==
  IF error \in {"none", "wrong_phase", "oversell", "zero_input"} THEN error ELSE "quote_failed"

\* The error's code in QuoteRoutes.handle.
Code(error) ==
  IF error \in {"none", "wrong_phase", "oversell", "zero_input", "zero_output"}
  THEN error ELSE "quote_failed"

\* QuoteRoutes.handle
Handle(side, text) ==
  IF ~Canonical(text) THEN [code |-> "bad_amount"]
  ELSE LET q == ServiceQuote(side, Value(text))
       IN IF q.error # "none" THEN [code |-> Code(q.error)]
          ELSE [code |-> "ok", input |-> text, output |-> Format[q.output], refund |-> Format[q.refund],
                fees |-> q.fees, graduates |-> q.graduates,
                nextEth |-> q.next.virtualEth, nextToken |-> q.next.virtualToken]

-----------------------------------------------------------------------------
Init ==
  /\ p \in AllParameters
  /\ market = [phase |-> "none"]
  /\ history = <<>>
  /\ rows = <<>>
  /\ answer = NoAnswer

\* The factory deploys the curve: validateParameters and initialize.
Launch ==
  /\ market.phase = "none"
  /\ Chain!ValidParameters(p)
  /\ Invariant(p) <= MaxUint /\ FinalVirtualEth(p) <= MaxUint
  /\ market' = [phase |-> "curve", virtualEth |-> p.initialVirtualEth,
                virtualToken |-> p.initialVirtualToken, protocolFees |-> 0, creatorFees |-> 0]
  /\ UNCHANGED <<p, history, rows, answer>>

Log(row, next) ==
  /\ Len(rows) < MaxRows
  /\ rows' = Append(rows, row)
  /\ history' = Append(history, market)
  /\ market' = next
  /\ answer' = NoAnswer
  /\ UNCHANGED p

ContractBuys(gross) ==
  Chain!QuoteBuy(Invariant(p), market.virtualEth, market.virtualToken, FinalVirtualToken(p),
                 gross, p.tradeFeeBps, p.protocolShareBps)

ContractSells(tokens) ==
  Chain!QuoteSell(Invariant(p), market.virtualEth, market.virtualToken,
                  p.initialVirtualToken - market.virtualToken,
                  tokens, p.tradeFeeBps, p.protocolShareBps)

ChainBuy ==
  /\ market.phase = "curve"
  /\ \E gross \in Trades : \E q \in ContractBuys(gross) :
       Log(TradeRow(q, q.graduates),
           Advanced(market, IF q.graduates THEN "graduated" ELSE "curve", q.newEth, q.newToken, q.fees))

ChainSell ==
  /\ market.phase = "curve"
  /\ \E tokens \in Trades : \E q \in ContractSells(tokens) :
       Log(TradeRow(q, FALSE), Advanced(market, "curve", q.newEth, q.newToken, q.fees))

ClaimProtocolFees ==
  /\ market.phase # "none" /\ market.protocolFees > 0
  /\ Log(ClaimRow("protocol_claim", market.protocolFees), [market EXCEPT !.protocolFees = 0])

ClaimCreatorFees ==
  /\ market.phase # "none" /\ market.creatorFees > 0
  /\ Log(ClaimRow("creator_claim", market.creatorFees), [market EXCEPT !.creatorFees = 0])

\* The pair's reserves change: the Sync of the graduation itself, which only a rebuild of the
\* projection takes (module Projections), or one of a later swap, mint or burn.
PoolSync ==
  /\ market.phase = "graduated"
  /\ \E eth, token \in PoolReserves : Log(SyncRow(eth, token), market)

Rollback ==
  \E n \in 0..(Len(rows) - 1) :
    /\ rows' = SubSeq(rows, 1, n)
    /\ history' = SubSeq(history, 1, n)
    /\ market' = history[n + 1]
    /\ answer' = NoAnswer
    /\ UNCHANGED p

Ask ==
  /\ market.phase # "none"
  /\ \E side \in {"buy", "sell"}, text \in Texts :
       answer' = [side |-> side, text |-> text, reply |-> Handle(side, text)]
  /\ UNCHANGED <<p, market, history, rows>>

Next == Launch \/ ChainBuy \/ ChainSell \/ ClaimProtocolFees \/ ClaimCreatorFees \/ PoolSync
        \/ Rollback \/ Ask

Spec == Init /\ [][Next]_vars

-----------------------------------------------------------------------------
(* NewParameters accepts what the factory accepts, no more and no less, as *)
(* long as the products fit.                                               *)
ParametersAgree ==
  NewParameters(p) = "none"
    <=> /\ Chain!ValidParameters(p)
        /\ Invariant(p) <= MaxUint /\ FinalVirtualEth(p) <= MaxUint

\* The state s that was read is the market m, but for the reserves of a graduated token: they
\* are those of its pair.
StandsFor(s, m) ==
  /\ s.phase = m.phase
  /\ s.protocolFees = m.protocolFees /\ s.creatorFees = m.creatorFees
  /\ m.phase = "curve" => s.virtualEth = m.virtualEth /\ s.virtualToken = m.virtualToken

(* The phase and the accrued fees that GetTokenQuoteState rebuilds from    *)
(* the rows are the contract's, whatever was traded, claimed and rolled    *)
(* back; so are the reserves, as long as the token trades on the curve.    *)
RebuildsMarket == market.phase # "none" => StandsFor(ReadQuoteState(p, rows), market)

\* What the contract would do with an amount now.
Contract(side, amount) ==
  IF market.phase = "graduated" THEN {}
  ELSE IF side = "buy" THEN ContractBuys(amount) ELSE ContractSells(amount)

\* The reserves after the trade are wider than a uint256.
ReserveTooWide(side, amount) ==
  /\ market.phase = "curve"
  /\ side = "buy"
  /\ market.virtualEth + amount - Chain!TotalFee(amount, p.tradeFeeBps) > MaxUint

\* The quote q and the contract's result c are the same trade.
SameTrade(side, q, c) ==
  /\ q.fees = c.fees
  /\ q.next.virtualEth = c.newEth /\ q.next.virtualToken = c.newToken
  /\ side = "buy" => q.output = c.tokensOut /\ q.refund = c.refund /\ q.graduates = c.graduates
  /\ side = "sell" => q.output = c.ethOut

QuotedAsTraded(side, amount) ==
  LET q == ServiceQuote(side, amount)
  IN IF q.error = "none" THEN \E c \in Contract(side, amount) : SameTrade(side, q, c)
     ELSE \A c \in Contract(side, amount) :
            ReserveTooWide(side, amount) \/ FeesOverflow(market, c.fees)

(* For every amount, the service quotes what the contract would do now,    *)
(* and refuses only what the contract would revert, unless the reserves or *)
(* the accrued fees would be wider than a uint256.                         *)
ServiceFaithful ==
  market.phase # "none" =>
    \A side \in {"buy", "sell"}, amount \in 0..MaxUint : QuotedAsTraded(side, amount)

\* A request is answered with the numbers that the contract would return now, and refused
\* only when the contract would revert or a result is wider than a uint256.
AnswersLikeContract(a) ==
  LET amount == Value(a.text)
      Same(c) == /\ a.reply.fees = c.fees
                 /\ a.reply.nextEth = c.newEth /\ a.reply.nextToken = c.newToken
                 /\ a.side = "buy" =>
                      /\ Value(a.reply.output) = c.tokensOut
                      /\ Value(a.reply.refund) = c.refund
                      /\ a.reply.graduates = c.graduates
                 /\ a.side = "sell" => Value(a.reply.output) = c.ethOut
  IN IF a.reply.code = "ok" THEN \E c \in Contract(a.side, amount) : Same(c)
     ELSE \A c \in Contract(a.side, amount) :
            ReserveTooWide(a.side, amount) \/ FeesOverflow(market, c.fees)

Oversold(side, amount) == side = "sell" /\ amount > TokensSold(p, market)

\* Fees accrued so far, or with this trade, are wider than a uint256.
FeesTooWide(side, amount) ==
  \/ ~Fits(market.protocolFees) \/ ~Fits(market.creatorFees)
  \/ \E c \in Contract(side, amount) : FeesOverflow(market, c.fees)

\* The refusal names the reason, and an internal error is reported only for a result that
\* is wider than a uint256.
RefusalExplained(a) ==
  LET amount == Value(a.text)
      code == a.reply.code
  IN /\ code = "wrong_phase" => market.phase = "graduated"
     /\ code = "zero_input" => amount = 0
     /\ code = "oversell" => Oversold(a.side, amount)
     /\ code = "zero_output" =>
          market.phase = "curve" /\ amount > 0 /\ ~Oversold(a.side, amount)
     /\ code = "quote_failed" => ReserveTooWide(a.side, amount) \/ FeesTooWide(a.side, amount)

\* An amount has one accepted spelling, the one that responses use.
OneSpelling(a) ==
  a.reply.code # "bad_amount" <=> \E n \in 0..MaxUint : a.text = Format[n]

(* A quote is what the contract would do with the transaction: the same    *)
(* amounts when it succeeds, a refusal with its true reason when it would  *)
(* revert, and a refusal of every amount not spelt canonically.            *)
QuoteFaithful ==
  answer.reply.code # "none" =>
    /\ OneSpelling(answer)
    /\ answer.reply.code # "bad_amount" => AnswersLikeContract(answer) /\ RefusalExplained(answer)

-----------------------------------------------------------------------------
(* The contract's rounding against reference definitions, at the positions *)
(* of a curve with parameters q.                                           *)

\* Positions before the curve graduates, and the token reserve there.
Positions(q) == q.initialVirtualEth..(FinalVirtualEth(q) - 1)
TokenAt(q, eth) == Chain!CeilDiv(Invariant(q), eth)
BuyAt(q, eth, gross, fee) ==
  Chain!QuoteBuy(Invariant(q), eth, TokenAt(q, eth), FinalVirtualToken(q),
                 gross, fee, q.protocolShareBps)
Net(gross, fee) == gross - Chain!TotalFee(gross, fee)

\* The least amount that leaves at least `net` after the fee.
LeastGross(net, fee) ==
  CHOOSE g \in 1..(net * Bps) : Net(g, fee) >= net /\ \A h \in 1..(g - 1) : Net(h, fee) < net

\* exactGrossForNet returns that least amount, and it leaves exactly `net`: the cut final
\* buy neither overcharges nor undershoots.
GrossIsLeast(q, eth, fee) ==
  LET net == FinalVirtualEth(q) - eth
  IN /\ Chain!ExactGrossForNet(net, fee) = LeastGross(net, fee)
     /\ Net(LeastGross(net, fee), fee) = net

\* The most tokens that keep the product of the reserves at the invariant or above, or all
\* that are left.
MostTokens(q, eth, net) ==
  LET fits == {t \in 0..(TokenAt(q, eth) - FinalVirtualToken(q)) :
                 (eth + net) * (TokenAt(q, eth) - t) >= Invariant(q)}
  IN CHOOSE t \in fits : \A u \in fits : u <= t

\* A buy gives out the most tokens; it is cut, and the rest refunded, only when the
\* supplied ETH reaches past the end of the curve.
BuyIsMaximal(q, eth, gross, fee) ==
  \A b \in BuyAt(q, eth, gross, fee) :
    /\ b.tokensOut = MostTokens(q, eth, Net(gross, fee))
    /\ b.used + b.refund = gross
    /\ b.refund > 0 => eth + Net(gross, fee) > FinalVirtualEth(q)
    /\ b.newEth = eth + b.used - b.fees.total
    /\ b.graduates <=> b.newEth = FinalVirtualEth(q)

\* A buy reverts for no other reason than a dust amount that buys no token: in
\* particular a buy past the end never underflows its refund.
BuyRevertsOnlyOnDust(q, eth, gross, fee) ==
  BuyAt(q, eth, gross, fee) = {} =>
    Chain!CeilDiv(Invariant(q), eth + Net(gross, fee)) = TokenAt(q, eth)

(* The contract's rounding, at every position of every curve, for every    *)
(* trade and every fee rate below 100%: the cut final buy is charged the   *)
(* least gross amount, a buy gives the most tokens, and only dust reverts. *)
(* It is evaluated once for each curve, before it trades.                  *)
RoundsLikeReference ==
  market.phase = "none" /\ Chain!ValidParameters(p) =>
    \A eth \in Positions(p), fee \in 0..(Bps - 1) :
      /\ GrossIsLeast(p, eth, fee)
      /\ \A gross \in 1..MaxUint :
           BuyIsMaximal(p, eth, gross, fee) /\ BuyRevertsOnlyOnDust(p, eth, gross, fee)
=============================================================================
