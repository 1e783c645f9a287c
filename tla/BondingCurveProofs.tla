-------------------------- MODULE BondingCurveProofs --------------------------
(***************************************************************************)
(* Proofs about BondingCurve, for every set of accounts, every valid set   *)
(* of curve parameters, every fee schedule and all amounts of ETH.         *)
(***************************************************************************)
EXTENDS BondingCurve, FiniteSetTheorems, TLAPS

-----------------------------------------------------------------------------
(* The arithmetic of CurveMath. *)

\* What integer division returns.
LEMMA DivBounds ==
  ASSUME NEW a \in Int, NEW b \in Nat \ {0}
  PROVE  (a \div b) \in Int /\ b * (a \div b) <= a /\ a < b * (a \div b) + b
  OBVIOUS

\* And nothing else does.
LEMMA DivUnique ==
  ASSUME NEW a \in Int, NEW b \in Nat \ {0}, NEW q \in Int, b * q <= a, a < b * q + b
  PROVE  a \div b = q
  OBVIOUS

\* A product grows with its factors.
LEMMA ProductGrows ==
  ASSUME NEW a \in Nat, NEW b \in Nat, NEW c \in Nat, a <= b
  PROVE  a * c <= b * c /\ c * a <= c * b /\ a * c \in Nat
  OBVIOUS

LEMMA SumOfFive ==
  ASSUME NEW a \in Nat, NEW b \in Nat, NEW c \in Nat, NEW d \in Nat, NEW e \in Nat
  PROVE  a + b + c + d + e \in Nat
  OBVIOUS

\* A share of an amount is part of it.
LEMMA ShareIsPart ==
  ASSUME NEW amount \in Nat, NEW bps \in Nat, bps <= Bps
  PROVE  /\ (amount * bps) \div Bps \in Nat
         /\ (amount * bps) \div Bps <= amount
  <1> DEFINE part == (amount * bps) \div Bps
  <1>1. Bps \in Nat \ {0}
    BY BpsAssumption
  <1>2. amount * bps \in Nat /\ amount * bps <= amount * Bps
    BY <1>1, ProductGrows
  <1>3. part \in Int /\ Bps * part <= amount * bps /\ amount * bps < Bps * part + Bps
    BY <1>1, <1>2, DivBounds
  <1> HIDE DEF part
  <1>4. part >= 0
    BY <1>1, <1>2, <1>3
  <1>5. part <= amount
    <2> SUFFICES ASSUME part >= amount + 1 PROVE FALSE
      BY <1>3
    <2>1. Bps * part >= Bps * (amount + 1)
      BY <1>1, <1>3, <1>4, ProductGrows
    <2> QED BY <1>1, <1>2, <1>3, <2>1
  <1> QED BY <1>3, <1>4, <1>5 DEF part

\* Rounding up returns the least quotient that covers the numerator.
LEMMA CeilDivBounds ==
  ASSUME NEW n \in Nat \ {0}, NEW d \in Nat \ {0}
  PROVE  /\ CeilDiv(n, d) \in Nat \ {0}
         /\ CeilDiv(n, d) * d >= n
         /\ (CeilDiv(n, d) - 1) * d < n
  <1> DEFINE q == (n - 1) \div d
  <1>1. q \in Int /\ d * q <= n - 1 /\ n - 1 < d * q + d
    BY DivBounds
  <1>2. CeilDiv(n, d) = q + 1
    BY DEF CeilDiv
  <1> HIDE DEF q
  <1>3. q >= 0
    BY <1>1
  <1>4. (q + 1) * d = d * q + d /\ q * d = d * q
    BY <1>1
  <1> QED BY <1>1, <1>2, <1>3, <1>4

LEMMA CeilDivLeast ==
  ASSUME NEW n \in Nat \ {0}, NEW d \in Nat \ {0}, NEW c \in Nat, c * d >= n
  PROVE  CeilDiv(n, d) <= c
  <1> DEFINE r == CeilDiv(n, d)
  <1>1. r \in Nat \ {0} /\ (r - 1) * d < n
    BY CeilDivBounds
  <1> HIDE DEF r
  <1> SUFFICES ASSUME c <= r - 1 PROVE FALSE
    BY <1>1 DEF r
  <1>2. c * d <= (r - 1) * d
    BY <1>1, ProductGrows
  <1> QED BY <1>1, <1>2

\* splitFees: the two fees are amounts and add up to the total, which is part of the gross.
LEMMA SplitFeesAddUp ==
  ASSUME NEW gross \in Nat, NEW feeBps \in Nat, feeBps <= Bps,
         NEW shareBps \in Nat, shareBps <= Bps,
         NEW fees, fees = SplitFees(gross, feeBps, shareBps)
  PROVE  /\ fees.total \in Nat /\ fees.total <= gross
         /\ fees.protocol \in Nat /\ fees.creator \in Nat
         /\ fees.total = fees.protocol + fees.creator
         /\ fees.total = TotalFee(gross, feeBps)
  <1> DEFINE total == TotalFee(gross, feeBps)
             protocol == ProtocolFee(total, shareBps)
  <1>1. total \in Nat /\ total <= gross
    BY ShareIsPart DEF TotalFee
  <1>2. protocol \in Nat /\ protocol <= total
    BY <1>1, ShareIsPart DEF ProtocolFee
  <1>3. fees = [total |-> total, protocol |-> protocol, creator |-> total - protocol]
    BY DEF SplitFees
  <1> HIDE DEF total, protocol
  <1>4. fees.total \in Nat /\ fees.total <= gross /\ fees.protocol \in Nat
        /\ fees.creator \in Nat /\ fees.total = fees.protocol + fees.creator
    BY <1>1, <1>2, <1>3
  <1> QED BY <1>3, <1>4 DEF total

\* exactGrossForNet leaves exactly the net amount after the fee.
LEMMA ExactGrossIsExact ==
  ASSUME NEW net \in Nat \ {0}, NEW feeBps \in Nat, feeBps < Bps
  PROVE  /\ ExactGrossForNet(net, feeBps) \in Nat \ {0}
         /\ ExactGrossForNet(net, feeBps) - TotalFee(ExactGrossForNet(net, feeBps), feeBps) = net
  <1> DEFINE rest == Bps - feeBps
             q == ((net - 1) * Bps) \div rest
  <1>1. Bps \in Nat \ {0} /\ rest \in Nat \ {0}
    BY BpsAssumption
  <1>2. (net - 1) * Bps \in Nat
    BY <1>1
  <1> HIDE DEF rest
  <1>3. q \in Int /\ rest * q <= (net - 1) * Bps /\ (net - 1) * Bps < rest * q + rest
    BY <1>1, <1>2, DivBounds
  <1>4. ExactGrossForNet(net, feeBps) = q + 1
    BY DEF ExactGrossForNet, rest
  <1> HIDE DEF q
  <1>5. q >= 0
    BY <1>1, <1>2, <1>3
  <1>6. rest * q = Bps * q - feeBps * q /\ rest = Bps - feeBps
    BY <1>1, <1>3 DEF rest
  <1>7. (net - 1) * Bps = Bps * net - Bps /\ (q + 1) * feeBps = feeBps * q + feeBps
        /\ Bps * (q + 1 - net) = Bps * q + Bps - Bps * net
    BY <1>1, <1>3
  <1>8. ((q + 1) * feeBps) \div Bps = q + 1 - net
    <2>1. (q + 1) * feeBps \in Int /\ q + 1 - net \in Int
      BY <1>3
    <2>2. Bps * (q + 1 - net) <= (q + 1) * feeBps /\ (q + 1) * feeBps < Bps * (q + 1 - net) + Bps
      <3>1. /\ Bps * q \in Int /\ feeBps * q \in Int /\ Bps * net \in Int
        BY <1>1, <1>3
      <3> QED BY <1>1, <1>3, <1>6, <1>7, <3>1
    <2> QED BY <1>1, <2>1, <2>2, DivUnique
  <1> QED BY <1>3, <1>4, <1>5, <1>8 DEF TotalFee

-----------------------------------------------------------------------------
(* The inductive invariant. *)

\* The ETH reserve at the end of the curve.
FinalEth == Params.initialVirtualEth + Params.graduationEth

\* The reserves stay between the two ends of the curve, and only a graduated market is at
\* its end: a trading market is short of it in ETH and in tokens.
ReservesInRange ==
  /\ Params.initialVirtualEth <= virtualEth
  /\ virtualToken <= Params.initialVirtualToken
  /\ phase = "Curve" => virtualEth < FinalEth /\ FinalToken < virtualToken
  /\ phase = "Graduated" => virtualEth = FinalEth /\ virtualToken = FinalToken

\* The refunds can be counted.
RefundsCounted == IsFiniteSet(CreditedWei) /\ RefundsAddUp

IInv ==
  /\ TypeOK
  /\ AccountingExact
  /\ RefundsCounted
  /\ InventoryCovered
  /\ PairHoldsBoughtOnly
  /\ OnCurve
  /\ ReservesInRange

\* What validateParameters guarantees.
LEMMA ParameterFacts ==
  /\ Params.totalSupply \in Nat /\ Params.curveTokens \in Nat /\ Params.lpTokens \in Nat
  /\ Params.totalSupply = Params.curveTokens + Params.lpTokens
  /\ Params.graduationEth \in Nat \ {0}
  /\ Params.initialVirtualEth \in Nat \ {0} /\ Params.initialVirtualToken \in Nat \ {0}
  /\ Params.tradeFeeBps \in Nat /\ Params.tradeFeeBps < Bps /\ Params.tradeFeeBps <= Bps
  /\ Params.protocolShareBps \in Nat /\ Params.protocolShareBps <= Bps
  /\ K \in Nat \ {0} /\ K = Params.initialVirtualEth * Params.initialVirtualToken
  /\ FinalToken \in Nat \ {0} /\ FinalToken = Params.initialVirtualToken - Params.curveTokens
  /\ FinalToken < Params.initialVirtualToken
  /\ FinalEth \in Nat \ {0} /\ FinalEth = Params.initialVirtualEth + Params.graduationEth
  /\ CeilDiv(K, FinalToken) = FinalEth /\ CeilDiv(K, FinalEth) = FinalToken
  /\ FinalEth * FinalToken >= K /\ (FinalEth - 1) * FinalToken < K
  <1>1. /\ Params.totalSupply \in Nat /\ Params.curveTokens \in Nat /\ Params.lpTokens \in Nat
        /\ Params.graduationEth \in Nat
        /\ Params.initialVirtualEth \in Nat /\ Params.initialVirtualToken \in Nat
        /\ Params.tradeFeeBps \in Nat /\ Params.protocolShareBps \in Nat
    BY MarketAssumption DEF CurveParameters
  <1>2. /\ Params.totalSupply = Params.curveTokens + Params.lpTokens
        /\ Params.lpTokens > 0 /\ Params.curveTokens > Params.lpTokens
        /\ Params.graduationEth > 0 /\ Params.initialVirtualEth > 0
        /\ Params.initialVirtualToken > Params.curveTokens
        /\ Params.tradeFeeBps < Bps /\ Params.protocolShareBps <= Bps
        /\ CeilDiv(K, FinalToken) = FinalEth /\ CeilDiv(K, FinalEth) = FinalToken
    BY MarketAssumption DEF ValidParameters, K, FinalToken, FinalEth
  <1>3. K \in Nat \ {0} /\ K = Params.initialVirtualEth * Params.initialVirtualToken
    BY <1>1, <1>2 DEF K
  <1>4. /\ FinalToken \in Nat \ {0} /\ FinalToken = Params.initialVirtualToken - Params.curveTokens
        /\ FinalToken < Params.initialVirtualToken
        /\ FinalEth \in Nat \ {0} /\ FinalEth = Params.initialVirtualEth + Params.graduationEth
    BY <1>1, <1>2 DEF FinalToken, FinalEth
  <1>5. FinalEth * FinalToken >= K /\ (FinalEth - 1) * FinalToken < K
    BY <1>2, <1>3, <1>4, CeilDivBounds
  <1> QED BY <1>1, <1>2, <1>3, <1>4, <1>5, BpsAssumption

-----------------------------------------------------------------------------
(* Pending refunds. *)

Wei(refunds) == UNION {{u} \X (1..refunds[u]) : u \in Users}

\* A credit of some account adds that many wei.
LEMMA WeiAdded ==
  ASSUME NEW f \in [Users -> Nat], NEW u \in Users, NEW a \in Nat, IsFiniteSet(Wei(f)),
         NEW g \in [Users -> Nat], g[u] = f[u] + a, \A v \in Users \ {u} : g[v] = f[v]
  PROVE  IsFiniteSet(Wei(g)) /\ Cardinality(Wei(g)) = Cardinality(Wei(f)) + a
  <1> DEFINE range == (f[u] + 1)..(f[u] + a)
             new == {u} \X range
  <1>1. f[u] \in Nat /\ g \in [Users -> Nat] /\ g[u] = f[u] + a
        /\ \A v \in Users : v # u => g[v] = f[v]
    OBVIOUS
  <1>2. IsFiniteSet(range) /\ Cardinality(range) = a
    <2>1. f[u] + 1 \in Int /\ f[u] + a \in Int
      BY <1>1
    <2>2. /\ IsFiniteSet(range)
          /\ Cardinality(range) = IF f[u] + 1 > f[u] + a THEN 0 ELSE (f[u] + a) - (f[u] + 1) + 1
      BY <2>1, FS_Interval, Zenon
    <2> QED BY <1>1, <2>2
  <1> HIDE DEF range
  <1>3. IsFiniteSet(new) /\ Cardinality(new) = a
    <2>1. IsFiniteSet({u}) /\ Cardinality({u}) = 1
      BY FS_Singleton, Zenon
    <2>2. IsFiniteSet(new) /\ Cardinality(new) = Cardinality({u}) * Cardinality(range)
      BY <1>2, <2>1, FS_Product, Zenon
    <2> QED BY <1>2, <2>1, <2>2
  <1>4. Wei(g) = Wei(f) \cup new
    <2>1. ASSUME NEW x \in Wei(g) PROVE x \in Wei(f) \cup new
      <3>1. PICK v \in Users : \E i \in 1..g[v] : x = <<v, i>>
        BY DEF Wei
      <3>2. PICK i \in 1..g[v] : x = <<v, i>>
        BY <3>1
      <3>3. CASE v = u /\ i > f[u]
        BY <1>1, <3>2, <3>3 DEF range
      <3>4. CASE ~(v = u /\ i > f[u])
        <4>1. i \in 1..f[v]
          BY <1>1, <3>2, <3>4
        <4> QED BY <3>2, <4>1 DEF Wei
      <3> QED BY <3>3, <3>4
    <2>2. ASSUME NEW x \in Wei(f) PROVE x \in Wei(g)
      <3>1. PICK v \in Users : \E i \in 1..f[v] : x = <<v, i>>
        BY DEF Wei
      <3>2. \E i \in 1..g[v] : x = <<v, i>>
        BY <1>1, <3>1
      <3> QED BY <3>2 DEF Wei
    <2>3. ASSUME NEW x \in new PROVE x \in Wei(g)
      <3>1. \E i \in 1..g[u] : x = <<u, i>>
        BY <1>1 DEF range
      <3> QED BY <3>1 DEF Wei
    <2> QED BY <2>1, <2>2, <2>3
  <1>5. Wei(f) \cap new = {}
    BY <1>1 DEF Wei, range
  <1> HIDE DEF new
  <1>6. Cardinality(Wei(f)) \in Nat /\ Cardinality(Wei(f) \cap new) = 0
    BY <1>5, FS_CardinalityType, FS_EmptySet
  <1>7. IsFiniteSet(Wei(f) \cup new) /\ Cardinality(Wei(f) \cup new)
          = Cardinality(Wei(f)) + Cardinality(new) - Cardinality(Wei(f) \cap new)
    BY <1>3, FS_Union
  <1>8. IsFiniteSet(Wei(g)) /\ Cardinality(Wei(g)) = Cardinality(Wei(f) \cup new)
    BY <1>4, <1>7, Zenon
  <1> QED BY <1>3, <1>6, <1>7, <1>8

\* A claim takes the wei of its account away and no others.
LEMMA WeiClaimed ==
  ASSUME NEW f \in [Users -> Nat], NEW u \in Users, IsFiniteSet(Wei(f)),
         NEW g \in [Users -> Nat], g[u] = 0, \A v \in Users \ {u} : g[v] = f[v]
  PROVE  /\ IsFiniteSet(Wei(g)) /\ Cardinality(Wei(g)) \in Nat
         /\ Cardinality(Wei(g)) = Cardinality(Wei(f)) - f[u]
  <1>1. g \in [Users -> Nat] /\ f[u] \in Nat /\ \A v \in Users : 1..g[v] \subseteq 1..f[v]
    OBVIOUS
  <1>2. Wei(g) \subseteq Wei(f)
    BY <1>1 DEF Wei
  <1>3. IsFiniteSet(Wei(g)) /\ Cardinality(Wei(g)) \in Nat
    BY <1>2, FS_Subset, FS_CardinalityType
  <1>4. f[u] = g[u] + f[u] /\ \A v \in Users \ {u} : f[v] = g[v]
    BY <1>1
  <1>5. Cardinality(Wei(f)) = Cardinality(Wei(g)) + f[u]
    BY <1>1, <1>3, <1>4, WeiAdded
  <1> QED BY <1>1, <1>3, <1>5

\* _sendOrCredit keeps the total equal to the sum.
LEMMA CreditStep ==
  ASSUME TypeOK, RefundsCounted, NEW recipient \in Users, NEW amount \in Nat,
         NEW sent \in BOOLEAN, CreditUnlessSent(recipient, amount, sent)
  PROVE  /\ pendingRefunds' \in [Users -> Nat] /\ totalPending' \in Nat
         /\ totalPending' = totalPending + IF sent THEN 0 ELSE amount
         /\ RefundsCounted'
  <1> DEFINE credit == IF sent THEN 0 ELSE amount
  <1>1. credit \in Nat
    OBVIOUS
  <1>2. /\ pendingRefunds' = [pendingRefunds EXCEPT ![recipient] = @ + credit]
        /\ totalPending' = totalPending + credit
    BY DEF CreditUnlessSent
  <1>3. CreditedWei = Wei(pendingRefunds) /\ CreditedWei' = Wei(pendingRefunds')
    BY DEF CreditedWei, Wei
  <1>4. pendingRefunds \in [Users -> Nat] /\ totalPending \in Nat
    BY DEF TypeOK
  <1> HIDE DEF credit
  <1>5. IsFiniteSet(Wei(pendingRefunds))
    BY <1>3 DEF RefundsCounted
  <1>6. /\ IsFiniteSet(Wei(pendingRefunds'))
        /\ Cardinality(Wei(pendingRefunds')) = Cardinality(Wei(pendingRefunds)) + credit
    <2>1. pendingRefunds' \in [Users -> Nat]
      BY <1>1, <1>2, <1>4
    <2>2. /\ pendingRefunds'[recipient] = pendingRefunds[recipient] + credit
          /\ \A v \in Users \ {recipient} : pendingRefunds'[v] = pendingRefunds[v]
      BY <1>1, <1>2, <1>4
    <2> QED BY <1>1, <1>4, <1>5, <2>1, <2>2, WeiAdded
  <1>7. RefundsCounted'
    BY <1>2, <1>3, <1>6 DEF RefundsCounted, RefundsAddUp
  <1>8. pendingRefunds' \in [Users -> Nat] /\ totalPending' \in Nat
    BY <1>1, <1>2, <1>4
  <1> QED BY <1>2, <1>7, <1>8 DEF credit

\* When nobody is credited the refunds stay counted.
LEMMA RefundsSame ==
  ASSUME RefundsCounted, pendingRefunds' = pendingRefunds, totalPending' = totalPending
  PROVE  RefundsCounted'
  BY DEF RefundsCounted, RefundsAddUp, CreditedWei

-----------------------------------------------------------------------------
(* Quotes. *)

\* A pair of reserves on the curve, rounded in its favour.
OnCurveAt(eth, token) ==
  /\ eth * token >= K
  /\ eth * (token - 1) < K \/ (eth - 1) * token < K

\* What the quote of a buy says: it is paid for to the wei, it ends on the curve, and it
\* graduates the market exactly when it reaches both ends of the curve.
BuyQuoted(q, gross) ==
  /\ q.refund \in Nat /\ q.fees.protocol \in Nat /\ q.fees.creator \in Nat
  /\ q.newEth \in Nat /\ q.newToken \in Nat
  /\ q.newEth >= virtualEth
  /\ q.newToken < virtualToken /\ q.tokensOut = virtualToken - q.newToken
  /\ q.newEth + q.fees.protocol + q.fees.creator + q.refund = virtualEth + gross
  /\ OnCurveAt(q.newEth, q.newToken)
  /\ q.graduates \in BOOLEAN
  /\ q.graduates => q.newEth = FinalEth /\ q.newToken = FinalToken
  /\ ~q.graduates => q.newEth < FinalEth /\ q.newToken > FinalToken

LEMMA BuyQuoteFacts ==
  ASSUME TypeOK, ReservesInRange, phase = "Curve",
         NEW gross \in Nat \ {0}, NEW q \in BuyQuotes(gross)
  PROVE  BuyQuoted(q, gross)
  <1> DEFINE fees == SplitFees(gross, Params.tradeFeeBps, Params.protocolShareBps)
             candidateEth == virtualEth + gross - fees.total
             candidateToken == CeilDiv(K, candidateEth)
             used == ExactGrossForNet(FinalEth - virtualEth, Params.tradeFeeBps)
             cut == SplitFees(used, Params.tradeFeeBps, Params.protocolShareBps)
  <1>0. FinalEth \in Nat \ {0} /\ FinalToken \in Nat \ {0}
    BY ParameterFacts
  <1>1. /\ virtualEth \in Nat /\ virtualToken \in Nat
        /\ virtualEth < FinalEth /\ FinalToken < virtualToken
        /\ virtualEth >= Params.initialVirtualEth
    BY DEF TypeOK, ReservesInRange
  <1>2. /\ fees.total \in Nat /\ fees.total <= gross
        /\ fees.protocol \in Nat /\ fees.creator \in Nat
        /\ fees.total = fees.protocol + fees.creator
    BY ParameterFacts, SplitFeesAddUp
  <1>3. FinalEth - virtualEth \in Nat \ {0}
    BY <1>1, ParameterFacts
  <1>4. used \in Nat \ {0} /\ used - TotalFee(used, Params.tradeFeeBps) = FinalEth - virtualEth
    BY <1>3, ParameterFacts, ExactGrossIsExact
  <1> HIDE DEF used
  <1>5. /\ cut.protocol \in Nat /\ cut.creator \in Nat
        /\ used = cut.protocol + cut.creator + FinalEth - virtualEth
    <2>1. /\ cut.total \in Nat /\ cut.protocol \in Nat /\ cut.creator \in Nat
          /\ cut.total = cut.protocol + cut.creator
          /\ cut.total = TotalFee(used, Params.tradeFeeBps)
      BY <1>4, ParameterFacts, SplitFeesAddUp
    <2> HIDE DEF cut
    <2> QED BY <1>1, <1>4, <2>1, ParameterFacts
  <1> HIDE DEF fees, cut
  <1>6. candidateEth \in Nat \ {0} /\ candidateEth >= virtualEth
    BY <1>1, <1>2, ParameterFacts
  <1> HIDE DEF candidateEth
  <1>7. /\ candidateToken \in Nat \ {0}
        /\ candidateToken * candidateEth >= K
        /\ (candidateToken - 1) * candidateEth < K
    BY <1>6, ParameterFacts, CeilDivBounds
  <1> DEFINE quote == IF candidateEth > FinalEth
                        THEN [used |-> used, refund |-> gross - used, fees |-> cut,
                              newEth |-> FinalEth, newToken |-> FinalToken,
                              tokensOut |-> virtualToken - FinalToken, graduates |-> TRUE]
                        ELSE [used |-> gross, refund |-> 0, fees |-> fees,
                              newEth |-> candidateEth, newToken |-> candidateToken,
                              tokensOut |-> virtualToken - candidateToken,
                              graduates |-> candidateToken = FinalToken]
  <1>8. q = quote /\ candidateToken < virtualToken /\ q.tokensOut > 0 /\ q.refund >= 0
    BY ParameterFacts
    DEF BuyQuotes, QuoteBuy, candidateEth, fees, used, cut
  <1>9. CASE candidateEth > FinalEth
    <2>1. /\ q.refund = gross - used /\ q.fees = cut /\ q.newEth = FinalEth
          /\ q.newToken = FinalToken /\ q.tokensOut = virtualToken - FinalToken
          /\ q.graduates
      BY <1>8, <1>9
    <2>2. OnCurveAt(q.newEth, q.newToken)
      BY <2>1, ParameterFacts DEF OnCurveAt
    <2>3. q.fees.protocol = cut.protocol /\ q.fees.creator = cut.creator /\ q.refund >= 0
      BY <1>8, <2>1
    <2>4. gross - used >= 0 /\ gross - used \in Nat
      BY <1>4, <2>1, <2>3
    <2>5. /\ q.refund \in Nat /\ q.newEth >= virtualEth
          /\ q.newEth + q.fees.protocol + q.fees.creator + q.refund = virtualEth + gross
      BY <1>0, <1>1, <1>4, <1>5, <2>1, <2>3, <2>4
    <2> QED BY <1>1, <1>5, <2>1, <2>2, <2>3, <2>5, ParameterFacts DEF BuyQuoted
  <1>10. CASE candidateEth <= FinalEth
    <2>1. /\ q.refund = 0 /\ q.fees = fees /\ q.newEth = candidateEth
          /\ q.newToken = candidateToken /\ q.tokensOut = virtualToken - candidateToken
          /\ q.graduates \in BOOLEAN /\ (q.graduates <=> candidateToken = FinalToken)
      <3>1. ~(candidateEth > FinalEth)
        BY <1>6, <1>10, ParameterFacts
      <3> HIDE DEF candidateToken
      <3> QED BY <1>8, <3>1
    <2>2. candidateToken >= FinalToken
      <3>1. candidateToken * FinalEth >= candidateToken * candidateEth
        BY <1>6, <1>7, <1>10, ParameterFacts, ProductGrows
      <3>2. candidateToken * FinalEth >= K
        BY <1>6, <1>7, <3>1, ParameterFacts
      <3> QED BY <1>7, <3>2, ParameterFacts, CeilDivLeast
    <2>3. candidateToken = FinalToken <=> candidateEth = FinalEth
      <3>1. ASSUME candidateEth = FinalEth PROVE candidateToken = FinalToken
        BY <3>1, ParameterFacts
      <3>2. ASSUME candidateToken = FinalToken PROVE candidateEth = FinalEth
        <4>1. candidateEth * FinalToken >= K
          BY <1>6, <1>7, <3>2, ParameterFacts
        <4>2. FinalEth <= candidateEth
          BY <1>6, <4>1, ParameterFacts, CeilDivLeast
        <4> QED BY <1>6, <1>10, <4>2, ParameterFacts
      <3> QED BY <3>1, <3>2
    <2> HIDE DEF candidateToken
    <2>4. OnCurveAt(q.newEth, q.newToken)
      <3>1. candidateToken * candidateEth = candidateEth * candidateToken
            /\ (candidateToken - 1) * candidateEth = candidateEth * (candidateToken - 1)
        BY <1>6, <1>7
      <3> QED BY <1>7, <2>1, <3>1 DEF OnCurveAt
    <2>5. q.newEth + q.fees.protocol + q.fees.creator + q.refund = virtualEth + gross
      BY <1>1, <1>2, <2>1 DEF candidateEth
    <2>6. /\ q.graduates \in BOOLEAN
          /\ q.graduates => q.newEth = FinalEth /\ q.newToken = FinalToken
          /\ ~q.graduates => q.newEth < FinalEth /\ q.newToken > FinalToken
      BY <1>6, <1>7, <1>10, <2>1, <2>2, <2>3, ParameterFacts
    <2>7. /\ q.refund \in Nat /\ q.fees.protocol \in Nat /\ q.fees.creator \in Nat
          /\ q.newEth \in Nat /\ q.newToken \in Nat /\ q.newEth >= virtualEth
          /\ q.newToken < virtualToken /\ q.tokensOut = virtualToken - q.newToken
      BY <1>2, <1>6, <1>7, <1>8, <2>1
    <2> QED BY <2>4, <2>5, <2>6, <2>7 DEF BuyQuoted
  <1> QED BY <1>6, <1>9, <1>10, ParameterFacts

\* What the quote of a sale says: the reserve pays the seller and the fees to the wei, and
\* the sale ends on the curve, not beyond its beginning.
SellQuoted(q, tokensIn) ==
  /\ q.ethOut \in Nat /\ q.fees.protocol \in Nat /\ q.fees.creator \in Nat
  /\ q.newEth \in Nat /\ q.newToken = virtualToken + tokensIn
  /\ q.newEth >= Params.initialVirtualEth /\ q.newEth < virtualEth
  /\ q.newToken <= Params.initialVirtualToken
  /\ q.newEth + q.fees.protocol + q.fees.creator + q.ethOut = virtualEth
  /\ OnCurveAt(q.newEth, q.newToken)

LEMMA SellQuoteFacts ==
  ASSUME TypeOK, ReservesInRange, NEW tokensIn \in Nat \ {0}, NEW q \in SellQuotes(tokensIn)
  PROVE  SellQuoted(q, tokensIn)
  <1> DEFINE newToken == virtualToken + tokensIn
             newEth == CeilDiv(K, newToken)
             ethGross == virtualEth - newEth
             fees == SplitFees(ethGross, Params.tradeFeeBps, Params.protocolShareBps)
  <1>1. virtualEth \in Nat /\ virtualToken \in Nat /\ newToken \in Nat \ {0}
    BY DEF TypeOK
  <1>2. newEth \in Nat \ {0} /\ newEth * newToken >= K /\ (newEth - 1) * newToken < K
    BY <1>1, ParameterFacts, CeilDivBounds
  <1>3. /\ q = [ethGross |-> ethGross, ethOut |-> ethGross - fees.total, fees |-> fees,
                newEth |-> newEth, newToken |-> newToken]
        /\ tokensIn <= Sold /\ q.ethGross > 0 /\ q.ethOut > 0
    BY DEF SellQuotes, QuoteSell
  <1> HIDE DEF newEth
  <1>4. newToken <= Params.initialVirtualToken
    BY <1>1, <1>3, ParameterFacts DEF Sold, TokensSold
  <1>5. ethGross \in Nat \ {0}
    BY <1>1, <1>2, <1>3
  <1> HIDE DEF newToken
  <1>6. newEth >= Params.initialVirtualEth
    <2> SUFFICES ASSUME newEth <= Params.initialVirtualEth - 1 PROVE FALSE
      BY <1>2, ParameterFacts
    <2>1. newEth * newToken <= newEth * Params.initialVirtualToken
      BY <1>1, <1>2, <1>4, ParameterFacts, ProductGrows
    <2>2. newEth * Params.initialVirtualToken
            <= (Params.initialVirtualEth - 1) * Params.initialVirtualToken
      BY <1>2, ParameterFacts, ProductGrows
    <2>3. (Params.initialVirtualEth - 1) * Params.initialVirtualToken
            = K - Params.initialVirtualToken
      <3>1. ASSUME NEW a \in Nat, NEW b \in Nat PROVE (a - 1) * b = a * b - b
        OBVIOUS
      <3> QED BY <3>1, ParameterFacts
    <2> QED BY <1>1, <1>2, <2>1, <2>2, <2>3, ParameterFacts
  <1>7. /\ fees.total \in Nat /\ fees.protocol \in Nat /\ fees.creator \in Nat
        /\ fees.total = fees.protocol + fees.creator
    BY <1>5, ParameterFacts, SplitFeesAddUp
  <1>8. OnCurveAt(newEth, newToken)
    BY <1>2 DEF OnCurveAt
  <1> HIDE DEF fees
  <1> QED BY <1>1, <1>2, <1>3, <1>4, <1>5, <1>6, <1>7, <1>8 DEF SellQuoted, newToken

-----------------------------------------------------------------------------
(* Every step keeps the invariant. *)

LEMMA InitInv == Init => IInv
  <1> SUFFICES ASSUME Init PROVE IInv
    OBVIOUS
  <1>1. TypeOK
    BY ParameterFacts, MarketAssumption DEF Init, TypeOK, Addresses
  <1>2. CreditedWei = {}
    BY DEF Init, CreditedWei
  <1>3. RefundsCounted
    BY <1>2, FS_EmptySet DEF Init, RefundsCounted, RefundsAddUp
  <1>4. AccountingExact
    BY ParameterFacts DEF Init, AccountingExact, RequiredBalance, RealCurveEth
  <1>5. InventoryCovered /\ PairHoldsBoughtOnly
    BY ParameterFacts, MarketAssumption
    DEF Init, InventoryCovered, PairHoldsBoughtOnly, Sold, TokensSold, Addresses
  <1>6. OnCurve
    <2>1. ASSUME NEW a \in Nat \ {0}, NEW b \in Nat \ {0} PROVE (a - 1) * b < a * b
      OBVIOUS
    <2> QED BY <2>1, ParameterFacts DEF Init, OnCurve
  <1>7. ReservesInRange
    BY ParameterFacts DEF Init, ReservesInRange
  <1> QED BY <1>1, <1>3, <1>4, <1>5, <1>6, <1>7 DEF IInv

\* What an ERC-20 transfer does to the balances.
LEMMA MovedFacts ==
  ASSUME TypeOK, NEW from \in Addresses, NEW to \in Addresses, NEW amount \in Nat,
         amount <= tokens[from]
  PROVE  /\ Moved(from, to, amount) \in [Addresses -> Nat]
         /\ \A a \in Addresses \ {from, to} : Moved(from, to, amount)[a] = tokens[a]
         /\ from = to => Moved(from, to, amount) = tokens
         /\ from # to => /\ Moved(from, to, amount)[from] = tokens[from] - amount
                         /\ Moved(from, to, amount)[to] = tokens[to] + amount
  <1>1. tokens \in [Addresses -> Nat] /\ tokens[from] \in Nat /\ tokens[to] \in Nat
    BY DEF TypeOK
  <1>2. tokens[from] - amount \in Nat /\ tokens[from] - amount + amount = tokens[from]
        /\ tokens[to] + amount \in Nat
    BY <1>1
  <1>3. CASE from = to
    <2> DEFINE less == [tokens EXCEPT ![from] = @ - amount]
    <2>1. Moved(from, to, amount) = [less EXCEPT ![from] = @ + amount]
      BY <1>3 DEF Moved
    <2>2. less \in [Addresses -> Nat] /\ less[from] + amount = tokens[from]
          /\ \A a \in Addresses \ {from} : less[a] = tokens[a]
      BY <1>1, <1>2
    <2> HIDE DEF less
    <2>3. Moved(from, to, amount) = tokens
      BY <1>1, <2>1, <2>2
    <2> QED BY <1>1, <1>3, <2>3
  <1>4. CASE from # to
    BY <1>1, <1>2, <1>4 DEF Moved
  <1> QED BY <1>3, <1>4

\* A buy, the one that graduates the market included.
LEMMA BuyStep ==
  ASSUME IInv, NEW payer \in Users, NEW refundTo \in Users, NEW to \in Recipients,
         NEW sent \in BOOLEAN, NEW gross \in 1..wallet[payer], Buy(payer, to, refundTo, gross, sent)
  PROVE  IInv'
  <1> DEFINE returned(q) == IF sent THEN q.refund ELSE 0
             spent(q) == IF q.graduates THEN Params.graduationEth ELSE 0
             bought(q) == Moved(Curve, to, q.tokensOut)
  <1>1. PICK q \in BuyQuotes(gross) :
          /\ q.tokensOut <= tokens[Curve]
          /\ q.graduates => bought(q)[Pair] = 0
          /\ virtualEth' = q.newEth
          /\ virtualToken' = q.newToken
          /\ protocolFees' = protocolFees + q.fees.protocol
          /\ creatorFees' = creatorFees + q.fees.creator
          /\ phase' = IF q.graduates THEN "Graduated" ELSE "Curve"
          /\ tokens' = IF q.graduates
                         THEN [bought(q) EXCEPT ![Curve] = @ - Params.lpTokens,
                                                ![Pair] = @ + Params.lpTokens]
                         ELSE bought(q)
          /\ pairWeth' = pairWeth + spent(q)
          /\ CreditUnlessSent(refundTo, q.refund, sent)
          /\ balance' = balance + gross - spent(q) - returned(q)
          /\ wallet' = [[wallet EXCEPT ![payer] = @ - gross] EXCEPT ![refundTo] = @ + returned(q)]
          /\ seeded' = seeded + IF to = Pair THEN q.tokensOut ELSE 0
    BY DEF Buy, AccrueFees, GraduationPairValid, WrappedEth
  <1>2. phase = "Curve" /\ gross \in Nat \ {0} /\ gross <= wallet[payer]
        /\ paused' = paused /\ forced' = forced
    BY DEF Buy, TradingAllowed, IInv, TypeOK
  <1>3. BuyQuoted(q, gross)
    BY <1>2, BuyQuoteFacts DEF IInv
  <1>4. /\ q.refund \in Nat /\ q.fees.protocol \in Nat /\ q.fees.creator \in Nat
        /\ q.newEth \in Nat /\ q.newToken \in Nat /\ q.newEth >= virtualEth
        /\ q.newToken < virtualToken /\ q.tokensOut = virtualToken - q.newToken
        /\ q.newEth + q.fees.protocol + q.fees.creator + q.refund = virtualEth + gross
        /\ OnCurveAt(q.newEth, q.newToken)
        /\ q.graduates \in BOOLEAN
        /\ q.graduates => q.newEth = FinalEth /\ q.newToken = FinalToken
        /\ ~q.graduates => q.newEth < FinalEth /\ q.newToken > FinalToken
    BY <1>3 DEF BuyQuoted
  <1>5. /\ returned(q) \in Nat /\ spent(q) \in Nat
        /\ returned(q) + (IF sent THEN 0 ELSE q.refund) = q.refund
    BY <1>4, ParameterFacts
  <1>6. /\ pendingRefunds' \in [Users -> Nat] /\ totalPending' \in Nat
        /\ totalPending' = totalPending + IF sent THEN 0 ELSE q.refund
        /\ RefundsCounted'
    BY <1>1, <1>4, CreditStep DEF IInv
  <1>7. /\ virtualEth \in Nat /\ virtualToken \in Nat /\ creatorFees \in Nat
        /\ protocolFees \in Nat /\ totalPending \in Nat /\ balance \in Nat /\ forced \in Nat
        /\ wallet \in [Users -> Nat] /\ tokens \in [Addresses -> Nat]
        /\ pairWeth \in Nat /\ paused \in BOOLEAN
        /\ virtualEth >= Params.initialVirtualEth
        /\ virtualToken <= Params.initialVirtualToken
    BY DEF IInv, TypeOK, ReservesInRange
  <1>8. AccountingExact'
    <2>1. balance = virtualEth - Params.initialVirtualEth + creatorFees + protocolFees
                      + totalPending + forced
      BY <1>2 DEF IInv, AccountingExact, RequiredBalance, RealCurveEth
    <2>0. /\ virtualEth' = q.newEth
          /\ protocolFees' = protocolFees + q.fees.protocol
          /\ creatorFees' = creatorFees + q.fees.creator
          /\ balance' = balance + gross - spent(q) - returned(q)
      BY <1>1
    <2>2. CASE q.graduates
      <3>1. phase' = "Graduated" /\ spent(q) = FinalEth - Params.initialVirtualEth
            /\ q.newEth = FinalEth
        BY <1>1, <1>4, <2>2, ParameterFacts
      <3>2. RequiredBalance' = creatorFees' + protocolFees' + totalPending'
        <4>1. creatorFees' \in Nat /\ protocolFees' \in Nat
          BY <1>1, <1>4, <1>7
        <4> QED BY <1>6, <3>1, <4>1 DEF RequiredBalance
      <3> HIDE DEF spent, returned
      <3>3. FinalEth \in Nat /\ Params.initialVirtualEth \in Nat
        BY ParameterFacts
      <3>4. totalPending' = totalPending + (q.refund - returned(q)) /\ forced' = forced
        BY <1>2, <1>4, <1>5, <1>6, <1>7
      <3>5. balance' = balance + gross - (FinalEth - Params.initialVirtualEth) - returned(q)
        BY <2>0, <3>1
      <3>6. FinalEth + q.fees.protocol + q.fees.creator + q.refund = virtualEth + gross
        BY <1>4, <3>1
      <3>7. balance' = creatorFees' + protocolFees' + totalPending' + forced'
        <4>1. ASSUME NEW e \in Nat, NEW f \in Nat, NEW i \in Nat, NEW g \in Nat, NEW r \in Nat,
                     NEW ret \in Nat, NEW fp \in Nat, NEW fc \in Nat, NEW c \in Nat, NEW p \in Nat,
                     NEW t \in Nat, NEW x \in Nat, f + fp + fc + r = e + g
              PROVE  (e - i + c + p + t + x) + g - (f - i) - ret
                       = (c + fc) + (p + fp) + (t + (r - ret)) + x
          BY <4>1
        <4>2. gross \in Nat /\ q.refund \in Nat /\ q.fees.protocol \in Nat /\ q.fees.creator \in Nat
              /\ returned(q) \in Nat
          BY <1>2, <1>4, <1>5
        <4> QED BY <1>7, <2>0, <2>1, <3>3, <3>4, <3>5, <3>6, <4>1, <4>2
      <3> QED BY <3>2, <3>7 DEF AccountingExact
    <2>3. CASE ~q.graduates
      <3>1. phase' = "Curve" /\ spent(q) = 0
        BY <1>1, <2>3
      <3>2. RequiredBalance' = (virtualEth' - Params.initialVirtualEth) + creatorFees'
                                 + protocolFees' + totalPending'
        BY <3>1 DEF RequiredBalance, RealCurveEth
      <3> HIDE DEF spent, returned
      <3>3. Params.initialVirtualEth \in Nat
        BY ParameterFacts
      <3>4. totalPending' = totalPending + (q.refund - returned(q)) /\ forced' = forced
        BY <1>2, <1>4, <1>5, <1>6, <1>7
      <3>5. balance' = balance + gross - returned(q)
        <4>1. ASSUME NEW b \in Nat, NEW g \in Nat, NEW r \in Nat PROVE b + g - 0 - r = b + g - r
          OBVIOUS
        <4> QED BY <1>2, <1>5, <1>7, <2>0, <3>1, <4>1
      <3>6. virtualEth' + q.fees.protocol + q.fees.creator + q.refund = virtualEth + gross
        BY <1>4, <2>0
      <3>7. balance' = (virtualEth' - Params.initialVirtualEth) + creatorFees' + protocolFees'
                         + totalPending' + forced'
        <4>1. gross \in Nat /\ q.refund \in Nat /\ q.fees.protocol \in Nat /\ q.fees.creator \in Nat
              /\ returned(q) \in Nat /\ virtualEth' \in Nat /\ virtualEth \in Nat
              /\ creatorFees \in Nat /\ protocolFees \in Nat /\ totalPending \in Nat
              /\ forced \in Nat
          BY <1>2, <1>4, <1>5, <1>7, <2>0
        <4>2. virtualEth + gross - returned(q)
                = virtualEth' + q.fees.creator + q.fees.protocol + (q.refund - returned(q))
          BY <3>6, <4>1
        <4>3. balance' = (virtualEth + gross - returned(q)) - Params.initialVirtualEth
                           + creatorFees + protocolFees + totalPending + forced
          BY <2>1, <3>3, <3>5, <4>1
        <4>4. q.refund - returned(q) \in Int
          BY <4>1
        <4>5. ASSUME NEW r \in Int
              PROVE  (virtualEth' + q.fees.creator + q.fees.protocol + r) - Params.initialVirtualEth
                       + creatorFees + protocolFees + totalPending + forced
                       = (virtualEth' - Params.initialVirtualEth) + (creatorFees + q.fees.creator)
                           + (protocolFees + q.fees.protocol) + (totalPending + r) + forced
          BY <3>3, <4>1, <4>5
        <4> QED BY <2>0, <3>4, <4>2, <4>3, <4>4, <4>5
      <3> QED BY <3>2, <3>7 DEF AccountingExact
    <2> QED BY <1>4, <2>2, <2>3
  <1>9. ReservesInRange'
    BY <1>1, <1>4, <1>7, ParameterFacts DEF ReservesInRange
  <1>10. OnCurve'
    BY <1>1, <1>4 DEF OnCurveAt, OnCurve
  <1>11. tokens' \in [Addresses -> Nat] /\ InventoryCovered' /\ PairHoldsBoughtOnly'
    <2>1. /\ Curve \in Addresses /\ Pair \in Addresses /\ to \in Addresses /\ Curve # Pair
      BY MarketAssumption DEF Addresses
    <2>2. q.tokensOut \in Nat
      BY <1>4, <1>7
    <2>3. TypeOK
      BY DEF IInv
    <2>4. /\ bought(q) \in [Addresses -> Nat]
          /\ bought(q)[Curve] >= tokens[Curve] - q.tokensOut
          /\ bought(q)[Pair] = tokens[Pair] + IF to = Pair THEN q.tokensOut ELSE 0
      <3>1. CASE to = Curve
        BY <1>1, <1>7, <2>1, <2>2, <2>3, <3>1, MovedFacts
      <3>2. CASE to # Curve
        BY <1>1, <1>7, <2>1, <2>2, <2>3, <3>2, MovedFacts
      <3> QED BY <3>1, <3>2
    <2> HIDE DEF bought
    <2>5. tokens[Curve] \in Nat /\ tokens[Pair] \in Nat
      BY <1>7, <2>1
    <2>6. tokens[Curve] >= Params.lpTokens + Params.curveTokens
                             - (Params.initialVirtualToken - virtualToken)
      BY <1>2 DEF IInv, InventoryCovered, Sold, TokensSold
    <2>7. bought(q)[Curve] >= Params.lpTokens + Params.curveTokens
                                - (Params.initialVirtualToken - q.newToken)
      BY <1>4, <1>7, <2>1, <2>4, <2>5, <2>6, ParameterFacts
    <2>8. CASE q.graduates
      <3>1. bought(q)[Curve] - Params.lpTokens \in Nat
        <4>1. q.newToken = Params.initialVirtualToken - Params.curveTokens
          BY <1>4, <2>8, ParameterFacts
        <4>2. bought(q)[Curve] \in Nat
          BY <2>1, <2>4
        <4> QED BY <2>7, <4>1, <4>2, ParameterFacts
      <3>2. bought(q)[Pair] + Params.lpTokens \in Nat
        BY <2>1, <2>4, ParameterFacts
      <3>3. tokens' \in [Addresses -> Nat]
        BY <1>1, <2>1, <2>4, <2>8, <3>1, <3>2
      <3>4. phase' # "Curve"
        BY <1>1, <2>8
      <3> QED BY <3>3, <3>4 DEF InventoryCovered, PairHoldsBoughtOnly
    <2>9. CASE ~q.graduates
      <3>1. tokens' = bought(q)
        BY <1>1, <2>9
      <3>2. InventoryCovered'
        BY <1>1, <2>7, <3>1 DEF InventoryCovered, Sold, TokensSold
      <3>3. PairHoldsBoughtOnly'
        BY <1>1, <1>2, <2>4, <3>1 DEF IInv, PairHoldsBoughtOnly
      <3> QED BY <2>4, <3>1, <3>2, <3>3
    <2> QED BY <1>4, <2>8, <2>9
  <1>12. wallet' \in [Users -> Nat]
    <2>1. [wallet EXCEPT ![payer] = @ - gross] \in [Users -> Nat]
      BY <1>2, <1>7
    <2> HIDE DEF returned
    <2> QED BY <1>1, <1>5, <2>1
  <1>13. balance' \in Nat
    <2> DEFINE curveEth == IF phase' = "Curve" THEN virtualEth' - Params.initialVirtualEth ELSE 0
    <2>1. creatorFees' \in Nat /\ protocolFees' \in Nat /\ totalPending' \in Nat /\ forced' \in Nat
      BY <1>1, <1>2, <1>4, <1>6, <1>7
    <2>2. curveEth \in Nat
      BY <1>1, <1>4, <1>7, ParameterFacts
    <2>3. balance' = curveEth + creatorFees' + protocolFees' + totalPending' + forced'
      BY <1>8 DEF AccountingExact, RequiredBalance, RealCurveEth
    <2> HIDE DEF curveEth
    <2> QED BY <2>1, <2>2, <2>3, SumOfFive, Zenon
  <1>14. TypeOK'
    <2>1. /\ virtualEth' \in Nat /\ virtualToken' \in Nat /\ creatorFees' \in Nat
          /\ protocolFees' \in Nat /\ phase' \in {"Curve", "Graduated"}
      BY <1>1, <1>4, <1>7
    <2>2. pairWeth' \in Nat
      BY <1>1, <1>5, <1>7
    <2>3. seeded' \in Nat
      <3>1. seeded \in Nat /\ q.tokensOut \in Nat
        BY <1>4, <1>7 DEF IInv, TypeOK
      <3> QED BY <1>1, <3>1
    <2> QED BY <1>2, <1>6, <1>7, <1>11, <1>12, <1>13, <2>1, <2>2, <2>3 DEF TypeOK
  <1> QED BY <1>6, <1>8, <1>9, <1>10, <1>11, <1>14 DEF IInv

\* A sale.
LEMMA SellStep ==
  ASSUME IInv, NEW seller \in Users, NEW to \in Users, NEW sent \in BOOLEAN,
         NEW tokensIn \in 1..tokens[seller], Sell(seller, to, tokensIn, sent)
  PROVE  IInv'
  <1> DEFINE paid(q) == IF sent THEN q.ethOut ELSE 0
  <1>1. PICK q \in SellQuotes(tokensIn) :
          /\ virtualEth' = q.newEth
          /\ virtualToken' = q.newToken
          /\ protocolFees' = protocolFees + q.fees.protocol
          /\ creatorFees' = creatorFees + q.fees.creator
          /\ tokens' = Moved(seller, Curve, tokensIn)
          /\ CreditUnlessSent(to, q.ethOut, sent)
          /\ balance' = balance - paid(q)
          /\ wallet' = [wallet EXCEPT ![to] = @ + paid(q)]
    BY DEF Sell, AccrueFees, PullTokens
  <1>2. /\ virtualEth \in Nat /\ virtualToken \in Nat /\ creatorFees \in Nat
        /\ protocolFees \in Nat /\ totalPending \in Nat /\ balance \in Nat /\ forced \in Nat
        /\ wallet \in [Users -> Nat] /\ tokens \in [Addresses -> Nat]
        /\ pairWeth \in Nat /\ paused \in BOOLEAN
        /\ virtualEth >= Params.initialVirtualEth
        /\ virtualEth < FinalEth /\ FinalToken < virtualToken
    BY DEF IInv, TypeOK, ReservesInRange, Sell, TradingAllowed
  <1>3. seller \in Addresses /\ Curve \in Addresses /\ Pair \in Addresses
        /\ seller # Curve /\ seller # Pair /\ Curve # Pair
    BY MarketAssumption DEF Addresses
  <1>4. /\ phase = "Curve" /\ phase' = "Curve" /\ tokensIn \in Nat \ {0}
        /\ tokensIn <= tokens[seller]
        /\ pairWeth' = pairWeth /\ paused' = paused /\ forced' = forced
        /\ seeded' = seeded /\ seeded \in Nat
    BY <1>2, <1>3 DEF Sell, TradingAllowed, IInv, TypeOK
  <1>5. SellQuoted(q, tokensIn)
    BY <1>4, SellQuoteFacts DEF IInv
  <1>6. /\ q.ethOut \in Nat /\ q.fees.protocol \in Nat /\ q.fees.creator \in Nat
        /\ q.newEth \in Nat /\ q.newToken = virtualToken + tokensIn
        /\ q.newEth >= Params.initialVirtualEth /\ q.newEth < virtualEth
        /\ q.newToken <= Params.initialVirtualToken
        /\ q.newEth + q.fees.protocol + q.fees.creator + q.ethOut = virtualEth
        /\ OnCurveAt(q.newEth, q.newToken)
    BY <1>5 DEF SellQuoted
  <1>7. paid(q) \in Nat /\ paid(q) + (IF sent THEN 0 ELSE q.ethOut) = q.ethOut
    BY <1>6
  <1>8. /\ pendingRefunds' \in [Users -> Nat] /\ totalPending' \in Nat
        /\ totalPending' = totalPending + IF sent THEN 0 ELSE q.ethOut
        /\ RefundsCounted'
    BY <1>1, <1>6, CreditStep DEF IInv
  <1> HIDE DEF paid
  <1>9. Params.initialVirtualEth \in Nat
    BY ParameterFacts
  <1>10. creatorFees' \in Nat /\ protocolFees' \in Nat /\ virtualEth' \in Nat /\ virtualToken' \in Nat
         /\ virtualEth' - Params.initialVirtualEth \in Nat
    BY <1>1, <1>2, <1>6, <1>9
  <1>11. balance' = (virtualEth' - Params.initialVirtualEth) + creatorFees' + protocolFees'
                      + totalPending' + forced'
    <2>1. balance = (virtualEth - Params.initialVirtualEth) + creatorFees + protocolFees
                      + totalPending + forced
      BY <1>4 DEF IInv, AccountingExact, RequiredBalance, RealCurveEth
    <2>2. totalPending' = totalPending + (q.ethOut - paid(q)) /\ forced' = forced
      BY <1>2, <1>4, <1>6, <1>7, <1>8
    <2>3. /\ virtualEth' = q.newEth /\ creatorFees' = creatorFees + q.fees.creator
          /\ protocolFees' = protocolFees + q.fees.protocol /\ balance' = balance - paid(q)
      BY <1>1
    <2>4. /\ virtualEth \in Nat /\ creatorFees \in Nat /\ protocolFees \in Nat
          /\ totalPending \in Nat /\ forced \in Nat /\ q.newEth \in Nat /\ q.ethOut \in Nat
          /\ q.fees.protocol \in Nat /\ q.fees.creator \in Nat /\ paid(q) \in Nat
          /\ q.newEth + q.fees.protocol + q.fees.creator + q.ethOut = virtualEth
      BY <1>2, <1>6, <1>7
    <2>5. ((virtualEth - Params.initialVirtualEth) + creatorFees + protocolFees + totalPending
            + forced) - paid(q)
            = (q.newEth - Params.initialVirtualEth) + (creatorFees + q.fees.creator)
                + (protocolFees + q.fees.protocol) + (totalPending + (q.ethOut - paid(q))) + forced
      BY <1>9, <2>4, SMTT(60)
    <2> QED BY <2>1, <2>2, <2>3, <2>5
  <1>12. AccountingExact'
    BY <1>4, <1>11 DEF AccountingExact, RequiredBalance, RealCurveEth
  <1>13. balance' \in Nat
    <2>1. forced' \in Nat
      BY <1>2, <1>4
    <2> QED BY <1>8, <1>10, <1>11, <2>1, SumOfFive, Zenon
  <1>14. ReservesInRange'
    BY <1>1, <1>2, <1>4, <1>6, ParameterFacts DEF ReservesInRange
  <1>15. OnCurve'
    BY <1>1, <1>6 DEF OnCurveAt, OnCurve
  <1>16. tokens' \in [Addresses -> Nat] /\ InventoryCovered' /\ PairHoldsBoughtOnly'
    <2>1. TypeOK
      BY DEF IInv
    <2>2. /\ tokens' \in [Addresses -> Nat]
          /\ tokens'[Curve] = tokens[Curve] + tokensIn /\ tokens'[Pair] = tokens[Pair]
      BY <1>1, <1>3, <1>4, <2>1, MovedFacts
    <2>3. tokens[Curve] >= Params.lpTokens + Params.curveTokens
                             - (Params.initialVirtualToken - virtualToken)
      BY <1>4 DEF IInv, InventoryCovered, Sold, TokensSold
    <2>4. tokens[Curve] \in Nat
      BY <1>2, <1>3
    <2>5. tokens'[Curve] >= Params.lpTokens + Params.curveTokens
                             - (Params.initialVirtualToken - virtualToken')
      BY <1>1, <1>2, <1>4, <1>6, <2>2, <2>3, <2>4, ParameterFacts
    <2> QED BY <1>4, <2>2, <2>5
        DEF IInv, InventoryCovered, PairHoldsBoughtOnly, Sold, TokensSold
  <1>17. wallet' \in [Users -> Nat]
    BY <1>1, <1>2, <1>7
  <1>18. TypeOK'
    BY <1>2, <1>4, <1>8, <1>10, <1>13, <1>16, <1>17 DEF TypeOK
  <1> QED BY <1>8, <1>12, <1>14, <1>15, <1>16, <1>18 DEF IInv

\* Reserves that nobody moves stay where they are.
LEMMA ReservesSame ==
  ASSUME IInv, UNCHANGED <<phase, virtualEth, virtualToken>>
  PROVE  OnCurve' /\ ReservesInRange'
  BY DEF IInv, OnCurve, ReservesInRange

\* Tokens that nobody moves still cover what they covered.
LEMMA TokensSame ==
  ASSUME IInv, UNCHANGED <<phase, virtualToken, tokens, seeded>>
  PROVE  InventoryCovered' /\ PairHoldsBoughtOnly'
  BY DEF IInv, InventoryCovered, PairHoldsBoughtOnly, Sold, TokensSold

\* What the curve holds, split into what it owes.
LEMMA BalanceSplit ==
  ASSUME IInv
  PROVE  \E owed \in Nat :
           /\ owed = IF phase = "Curve" THEN virtualEth - Params.initialVirtualEth ELSE 0
           /\ balance = owed + creatorFees + protocolFees + totalPending + forced
  BY ParameterFacts DEF IInv, TypeOK, ReservesInRange, AccountingExact, RequiredBalance, RealCurveEth

\* A step that moves no reserve keeps the invariant when it books every wei it moves.
LEMMA BookedStep ==
  ASSUME IInv, UNCHANGED <<phase, virtualEth, virtualToken, seeded>>,
         creatorFees' \in Nat, protocolFees' \in Nat, totalPending' \in Nat, forced' \in Nat,
         pendingRefunds' \in [Users -> Nat], wallet' \in [Users -> Nat],
         tokens' \in [Addresses -> Nat], pairWeth' \in Nat, paused' \in BOOLEAN,
         RefundsCounted', InventoryCovered', PairHoldsBoughtOnly',
         balance' = balance + (creatorFees' - creatorFees) + (protocolFees' - protocolFees)
                      + (totalPending' - totalPending) + (forced' - forced)
  PROVE  IInv'
  <1>1. PICK owed \in Nat :
          /\ owed = IF phase = "Curve" THEN virtualEth - Params.initialVirtualEth ELSE 0
          /\ balance = owed + creatorFees + protocolFees + totalPending + forced
    BY BalanceSplit
  <1>2. creatorFees \in Nat /\ protocolFees \in Nat /\ totalPending \in Nat /\ forced \in Nat
    BY DEF IInv, TypeOK
  <1>3. balance' = owed + creatorFees' + protocolFees' + totalPending' + forced'
    BY <1>1, <1>2
  <1>4. AccountingExact'
    BY <1>1, <1>3 DEF AccountingExact, RequiredBalance, RealCurveEth
  <1>5. balance' \in Nat
    <2>1. owed + creatorFees' + protocolFees' + totalPending' + forced' \in Nat
      BY SumOfFive
    <2> QED BY <1>3, <2>1, Zenon
  <1>6. TypeOK'
    BY <1>5 DEF IInv, TypeOK
  <1> QED BY <1>4, <1>6, ReservesSame DEF IInv

\* The claims of the creator and of the treasury.
LEMMA ClaimFeesStep ==
  ASSUME IInv, ClaimCreatorFees \/ ClaimProtocolFees
  PROVE  IInv'
  <1>1. /\ UNCHANGED <<phase, virtualEth, virtualToken, pendingRefunds, totalPending, tokens,
                       pairWeth, paused, forced, seeded>>
        /\ \/ /\ creatorFees' = 0 /\ protocolFees' = protocolFees
              /\ balance' = balance - creatorFees
              /\ wallet' = [wallet EXCEPT ![Creator] = @ + creatorFees]
           \/ /\ protocolFees' = 0 /\ creatorFees' = creatorFees
              /\ balance' = balance - protocolFees
              /\ wallet' = [wallet EXCEPT ![Treasury] = @ + protocolFees]
    BY DEF ClaimCreatorFees, ClaimProtocolFees
  <1>2. TypeOK
    BY DEF IInv
  <1>3. creatorFees' \in Nat /\ protocolFees' \in Nat /\ wallet' \in [Users -> Nat]
    BY <1>1, <1>2, MarketAssumption DEF TypeOK
  <1>4. balance' = balance + (creatorFees' - creatorFees) + (protocolFees' - protocolFees)
                     + (totalPending' - totalPending) + (forced' - forced)
    BY <1>1, <1>2 DEF TypeOK
  <1>5. RefundsCounted' /\ InventoryCovered' /\ PairHoldsBoughtOnly'
    <2>1. RefundsCounted
      BY DEF IInv
    <2> QED BY <1>1, <2>1, RefundsSame, TokensSame
  <1>6. /\ UNCHANGED <<phase, virtualEth, virtualToken, seeded>>
        /\ totalPending' \in Nat /\ forced' \in Nat /\ pendingRefunds' \in [Users -> Nat]
        /\ tokens' \in [Addresses -> Nat] /\ pairWeth' \in Nat /\ paused' \in BOOLEAN
    BY <1>1, <1>2 DEF TypeOK
  <1> QED BY <1>3, <1>4, <1>5, <1>6, BookedStep

\* An account claims its refund: the total covers it, because it is the sum.
LEMMA ClaimRefundStep ==
  ASSUME IInv, NEW u \in Users, ClaimRefund(u)
  PROVE  IInv'
  <1>1. /\ UNCHANGED <<phase, virtualEth, virtualToken, creatorFees, protocolFees, tokens,
                       pairWeth, paused, forced, seeded>>
        /\ pendingRefunds' = [pendingRefunds EXCEPT ![u] = 0]
        /\ totalPending' = totalPending - pendingRefunds[u]
        /\ balance' = balance - pendingRefunds[u]
        /\ wallet' = [wallet EXCEPT ![u] = @ + pendingRefunds[u]]
    BY DEF ClaimRefund
  <1>2. TypeOK
    BY DEF IInv
  <1>3. /\ pendingRefunds \in [Users -> Nat] /\ pendingRefunds[u] \in Nat
        /\ pendingRefunds' \in [Users -> Nat] /\ pendingRefunds'[u] = 0
        /\ \A v \in Users \ {u} : pendingRefunds'[v] = pendingRefunds[v]
    BY <1>1, <1>2 DEF TypeOK
  <1>4. CreditedWei = Wei(pendingRefunds) /\ CreditedWei' = Wei(pendingRefunds')
    BY DEF CreditedWei, Wei
  <1>5. IsFiniteSet(Wei(pendingRefunds)) /\ totalPending = Cardinality(Wei(pendingRefunds))
    BY <1>4 DEF IInv, RefundsCounted, RefundsAddUp
  <1>6. /\ IsFiniteSet(Wei(pendingRefunds')) /\ Cardinality(Wei(pendingRefunds')) \in Nat
        /\ Cardinality(Wei(pendingRefunds')) = Cardinality(Wei(pendingRefunds)) - pendingRefunds[u]
    BY <1>3, <1>5, WeiClaimed
  <1>7. totalPending' = Cardinality(Wei(pendingRefunds')) /\ totalPending' \in Nat
    BY <1>1, <1>5, <1>6
  <1>8. RefundsCounted'
    BY <1>4, <1>6, <1>7 DEF RefundsCounted, RefundsAddUp
  <1>9. wallet' \in [Users -> Nat]
    BY <1>1, <1>2, <1>3 DEF TypeOK
  <1>10. balance' = balance + (creatorFees' - creatorFees) + (protocolFees' - protocolFees)
                      + (totalPending' - totalPending) + (forced' - forced)
    BY <1>1, <1>2, <1>3 DEF TypeOK
  <1>11. InventoryCovered' /\ PairHoldsBoughtOnly'
    BY <1>1, TokensSame
  <1>12. /\ UNCHANGED <<phase, virtualEth, virtualToken, seeded>>
         /\ creatorFees' \in Nat /\ protocolFees' \in Nat /\ forced' \in Nat
         /\ tokens' \in [Addresses -> Nat] /\ pairWeth' \in Nat /\ paused' \in BOOLEAN
    BY <1>1, <1>2 DEF TypeOK
  <1> QED BY <1>3, <1>7, <1>8, <1>9, <1>10, <1>11, <1>12, BookedStep

\* A token transfer of a user: before graduation it reaches neither the curve nor the pair.
LEMMA TransferStep ==
  ASSUME IInv, NEW from \in Users, NEW to \in Addresses, NEW amount \in 1..tokens[from],
         Transfer(from, to, amount)
  PROVE  IInv'
  <1>1. /\ UNCHANGED <<phase, virtualEth, virtualToken, creatorFees, protocolFees,
                       pendingRefunds, totalPending, balance, wallet, pairWeth, paused, forced, seeded>>
        /\ tokens' = Moved(from, to, amount)
        /\ phase = "Graduated" \/ (from \notin {Curve, Pair} /\ to \notin {Curve, Pair})
    BY DEF Transfer, TransferAllowed, curveVars
  <1>2. TypeOK
    BY DEF IInv
  <1>3. from \in Addresses /\ Curve \in Addresses /\ Pair \in Addresses
    BY DEF Addresses
  <1>4. amount \in Nat /\ amount <= tokens[from]
    BY <1>2, <1>3 DEF TypeOK
  <1>5. /\ tokens' \in [Addresses -> Nat]
        /\ phase = "Curve" => tokens'[Curve] = tokens[Curve] /\ tokens'[Pair] = tokens[Pair]
    BY <1>1, <1>2, <1>3, <1>4, MovedFacts
  <1>6. InventoryCovered' /\ PairHoldsBoughtOnly'
    BY <1>1, <1>5
    DEF IInv, InventoryCovered, PairHoldsBoughtOnly, Sold, TokensSold
  <1>7. RefundsCounted'
    <2>1. RefundsCounted
      BY DEF IInv
    <2> QED BY <1>1, <2>1, RefundsSame
  <1>8. balance' = balance + (creatorFees' - creatorFees) + (protocolFees' - protocolFees)
                     + (totalPending' - totalPending) + (forced' - forced)
    BY <1>1, <1>2 DEF TypeOK
  <1>9. /\ UNCHANGED <<phase, virtualEth, virtualToken, seeded>>
        /\ creatorFees' \in Nat /\ protocolFees' \in Nat /\ forced' \in Nat
        /\ totalPending' \in Nat /\ pendingRefunds' \in [Users -> Nat]
        /\ wallet' \in [Users -> Nat] /\ pairWeth' \in Nat /\ paused' \in BOOLEAN
    BY <1>1, <1>2 DEF TypeOK
  <1> QED BY <1>5, <1>6, <1>7, <1>8, <1>9, BookedStep

\* The factory's pause, forced ETH and donated WETH.
LEMMA OutsideStep ==
  ASSUME IInv,
         \/ \E p \in BOOLEAN : SetTradingPaused(p)
         \/ \E u \in Users : ForceEth(u) \/ DonateWeth(u)
  PROVE  IInv'
  <1>1. /\ UNCHANGED <<phase, virtualEth, virtualToken, creatorFees, protocolFees,
                       pendingRefunds, totalPending, tokens, seeded>>
        /\ paused' \in BOOLEAN
    BY DEF IInv, TypeOK, SetTradingPaused, ForceEth, DonateWeth, curveVars
  <1>2. TypeOK
    BY DEF IInv
  <1>3. /\ wallet' \in [Users -> Nat] /\ pairWeth' \in Nat /\ forced' \in Nat
        /\ balance' = balance + (forced' - forced)
    <2>1. CASE \E p \in BOOLEAN : SetTradingPaused(p)
      BY <1>2, <2>1 DEF TypeOK, SetTradingPaused
    <2>2. CASE \E u \in Users : ForceEth(u)
      BY <1>2, <2>2 DEF TypeOK, ForceEth
    <2>3. CASE \E u \in Users : DonateWeth(u)
      BY <1>2, <2>3 DEF TypeOK, DonateWeth
    <2> QED BY <2>1, <2>2, <2>3
  <1>4. balance' = balance + (creatorFees' - creatorFees) + (protocolFees' - protocolFees)
                     + (totalPending' - totalPending) + (forced' - forced)
    BY <1>1, <1>2, <1>3 DEF TypeOK
  <1>5. RefundsCounted' /\ InventoryCovered' /\ PairHoldsBoughtOnly'
    <2>1. RefundsCounted
      BY DEF IInv
    <2> QED BY <1>1, <2>1, RefundsSame, TokensSame
  <1>6. /\ creatorFees' \in Nat /\ protocolFees' \in Nat /\ totalPending' \in Nat
        /\ pendingRefunds' \in [Users -> Nat] /\ tokens' \in [Addresses -> Nat]
    BY <1>1, <1>2 DEF TypeOK
  <1> QED BY <1>1, <1>3, <1>4, <1>5, <1>6, BookedStep

LEMMA StepInv == ASSUME IInv, [Next]_vars PROVE IInv'
  <1>1. CASE \E payer, refundTo \in Users : \E to \in Recipients : \E sent \in BOOLEAN :
               \E gross \in 1..wallet[payer] : Buy(payer, to, refundTo, gross, sent)
    BY <1>1, BuyStep
  <1>2. CASE \E seller, to \in Users : \E sent \in BOOLEAN :
               \E tokensIn \in 1..tokens[seller] : Sell(seller, to, tokensIn, sent)
    BY <1>2, SellStep
  <1>3. CASE ClaimCreatorFees \/ ClaimProtocolFees
    BY <1>3, ClaimFeesStep
  <1>4. CASE \E u \in Users : ClaimRefund(u)
    BY <1>4, ClaimRefundStep
  <1>5. CASE \E from \in Users : \E to \in Addresses :
               \E amount \in 1..tokens[from] : Transfer(from, to, amount)
    BY <1>5, TransferStep
  <1>6. CASE \/ \E p \in BOOLEAN : SetTradingPaused(p)
             \/ \E u \in Users : ForceEth(u) \/ DonateWeth(u)
    BY <1>6, OutsideStep
  <1>7. CASE UNCHANGED vars
    BY <1>7
    DEF vars, IInv, TypeOK, AccountingExact, RequiredBalance, RealCurveEth, RefundsCounted,
        RefundsAddUp, CreditedWei, InventoryCovered, PairHoldsBoughtOnly, OnCurve,
        ReservesInRange, Sold, TokensSold
  <1> QED BY <1>1, <1>2, <1>3, <1>4, <1>5, <1>6, <1>7 DEF Next

-----------------------------------------------------------------------------
(* The theorems. *)

\* The invariant holds in every market: BondingCurveV1 books every wei it moves, keeps its
\* reserves on the curve between its two ends and its inventory covered.
THEOREM MarketInvariant == Spec => []IInv
  <1>1. Init => IInv
    BY InitInv
  <1>2. IInv /\ [Next]_vars => IInv'
    BY StepInv
  <1> QED BY <1>1, <1>2, PTL DEF Spec

\* Whoever trades and whoever receives the tokens, the market owes exactly what it holds, in
\* ETH, in refunds and in tokens, and the pair holds no token that the curve did not send it
\* for a buyer: no claim, sale or funding of the pool can fail for lack of ETH or tokens.
THEOREM MarketIsSolvent == Spec => []Solvent
  <1>1. IInv => Solvent
    BY DEF IInv, Solvent, RefundsCounted
  <1> QED BY <1>1, MarketInvariant, PTL

\* The ETH is accounted for to the wei whoever receives the tokens.
THEOREM AccountingIsExact == Spec => []AccountingExact
  <1>1. IInv => AccountingExact
    BY DEF IInv
  <1> QED BY <1>1, MarketInvariant, PTL

\* The reserves never leave the curve, however many buys and sales round them.
THEOREM ReservesOnCurve == Spec => []OnCurve
  <1>1. IInv => OnCurve
    BY DEF IInv
  <1> QED BY <1>1, MarketInvariant, PTL

\* A market graduates exactly when its curve is sold out with the graduation ETH raised.
THEOREM GraduationAtBoundary == Spec => []GraduatesAtBoundary
  <1>1. ASSUME IInv PROVE GraduatesAtBoundary
    <2>1. virtualEth \in Nat /\ virtualToken \in Nat /\ phase \in {"Curve", "Graduated"}
      BY <1>1 DEF IInv, TypeOK
    <2>2. /\ phase = "Curve" => virtualEth < FinalEth /\ FinalToken < virtualToken
          /\ phase = "Graduated" => virtualEth = FinalEth /\ virtualToken = FinalToken
      BY <1>1 DEF IInv, ReservesInRange
    <2> QED BY <2>1, <2>2, ParameterFacts
        DEF GraduatesAtBoundary, Sold, TokensSold, RealCurveEth
  <1> QED BY <1>1, MarketInvariant, PTL

\* Once graduated, or while paused, no step moves the reserves or adds to a fee or refund.
THEOREM TradingDoesEnd == Spec => TradingEnds
  <1> DEFINE Ended == phase = "Graduated" \/ paused =>
                        /\ phase' = phase /\ virtualEth' = virtualEth
                        /\ virtualToken' = virtualToken
                        /\ creatorFees' <= creatorFees /\ protocolFees' <= protocolFees
                        /\ totalPending' <= totalPending
  <1>1. ASSUME IInv, [Next]_vars PROVE [Ended]_vars
    <2> SUFFICES ASSUME Next, phase = "Graduated" \/ paused PROVE Ended
      BY <1>1
    <2>1. /\ creatorFees \in Nat /\ protocolFees \in Nat /\ totalPending \in Nat
          /\ pendingRefunds \in [Users -> Nat]
      BY <1>1 DEF IInv, TypeOK
    <2>2. ~TradingAllowed
      BY DEF TradingAllowed
    <2>3. CASE ClaimCreatorFees \/ ClaimProtocolFees
      BY <2>1, <2>3 DEF ClaimCreatorFees, ClaimProtocolFees
    <2>4. CASE \E u \in Users : ClaimRefund(u)
      BY <2>1, <2>4 DEF ClaimRefund
    <2>5. CASE \E from \in Users : \E to \in Addresses :
                 \E amount \in 1..tokens[from] : Transfer(from, to, amount)
      BY <2>1, <2>5 DEF Transfer, curveVars
    <2>6. CASE \/ \E p \in BOOLEAN : SetTradingPaused(p)
               \/ \E u \in Users : ForceEth(u) \/ DonateWeth(u)
      BY <2>1, <2>6 DEF SetTradingPaused, ForceEth, DonateWeth, curveVars
    <2> QED BY <2>2, <2>3, <2>4, <2>5, <2>6 DEF Next, Buy, Sell
  <1> QED BY <1>1, MarketInvariant, PTL DEF Spec, TradingEnds
=============================================================================
