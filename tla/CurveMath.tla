------------------------------ MODULE CurveMath ------------------------------
(***************************************************************************)
(* contracts/src/libraries/CurveMath.sol: the integer arithmetic of the    *)
(* constant-product bonding curve.  A function that may revert returns a   *)
(* set: empty when the call reverts, otherwise its single result.          *)
(***************************************************************************)
EXTENDS Integers

CONSTANT Bps   \* BPS_DENOMINATOR, 10000 in the contract

ASSUME BpsAssumption == Bps \in Nat \ {0}

CurveParameters == [totalSupply : Nat, curveTokens : Nat, lpTokens : Nat,
                    graduationEth : Nat, initialVirtualEth : Nat,
                    initialVirtualToken : Nat, tradeFeeBps : Nat, protocolShareBps : Nat]

\* Mutant: division that rounds down.
FloorDiv(numerator, denominator) == numerator \div denominator

CeilDiv(numerator, denominator) ==
  IF numerator = 0 THEN 0 ELSE (numerator - 1) \div denominator + 1

\* splitFees: both divisions round down; the creator gets what is left of the fee.
TotalFee(gross, feeBps) == (gross * feeBps) \div Bps
ProtocolFee(totalFee, shareBps) == (totalFee * shareBps) \div Bps

SplitFees(gross, feeBps, shareBps) ==
  LET total == TotalFee(gross, feeBps)
      protocol == ProtocolFee(total, shareBps)
  IN [total |-> total, protocol |-> protocol, creator |-> total - protocol]

\* Mutant: the gross amount is rounded down.
TruncatedGrossForNet(net, feeBps) == (net * Bps) \div (Bps - feeBps)

\* Mutant: one too many on top of the rounded-up amount.
PaddedGrossForNet(net, feeBps) == CeilDiv(net * Bps, Bps - feeBps) + 1

\* exactGrossForNet, for net > 0: the smallest gross amount that leaves net after fees.
ExactGrossForNet(net, feeBps) == ((net - 1) * Bps) \div (Bps - feeBps) + 1

\* quoteBuy: a buy that would cross the end of the curve is cut at the boundary and
\* the rest is refunded.
QuoteBuy(k, virtualEth, virtualToken, finalToken, gross, feeBps, shareBps) ==
  LET fees == SplitFees(gross, feeBps, shareBps)
      candidateEth == virtualEth + gross - fees.total
      candidateToken == CeilDiv(k, candidateEth)
      finalEth == CeilDiv(k, finalToken)
      used == ExactGrossForNet(finalEth - virtualEth, feeBps)
      cut == SplitFees(used, feeBps, shareBps)
      quote == IF candidateEth > finalEth
                 THEN [used |-> used, refund |-> gross - used, fees |-> cut,
                       newEth |-> finalEth, newToken |-> finalToken,
                       tokensOut |-> virtualToken - finalToken, graduates |-> TRUE]
                 ELSE [used |-> gross, refund |-> 0, fees |-> fees,
                       newEth |-> candidateEth, newToken |-> candidateToken,
                       tokensOut |-> virtualToken - candidateToken,
                       graduates |-> candidateToken = finalToken]
  IN {q \in {quote} : /\ gross > 0
                      /\ candidateToken < virtualToken
                      /\ q.tokensOut > 0
                      /\ q.refund >= 0}

\* quoteSell.
QuoteSell(k, virtualEth, virtualToken, soldTokens, tokensIn, feeBps, shareBps) ==
  LET newToken == virtualToken + tokensIn
      newEth == CeilDiv(k, newToken)
      ethGross == virtualEth - newEth
      fees == SplitFees(ethGross, feeBps, shareBps)
      quote == [ethGross |-> ethGross, ethOut |-> ethGross - fees.total, fees |-> fees,
                newEth |-> newEth, newToken |-> newToken]
  IN {q \in {quote} : /\ tokensIn > 0
                      /\ tokensIn <= soldTokens
                      /\ q.ethGross > 0
                      /\ q.ethOut > 0}

TokensSold(initialVirtualToken, virtualToken) == initialVirtualToken - virtualToken

RealCurveEth(virtualEth, initialVirtualEth) == virtualEth - initialVirtualEth

\* validateParameters accepts p.
ValidParameters(p) ==
  LET k == p.initialVirtualEth * p.initialVirtualToken
      finalToken == p.initialVirtualToken - p.curveTokens
      finalEth == p.initialVirtualEth + p.graduationEth
  IN /\ p.totalSupply = p.curveTokens + p.lpTokens
     /\ p.lpTokens > 0
     /\ p.curveTokens > p.lpTokens
     /\ p.graduationEth > 0
     /\ p.initialVirtualEth > 0
     /\ p.initialVirtualToken > p.curveTokens
     /\ p.tradeFeeBps < Bps
     /\ p.protocolShareBps <= Bps
     /\ CeilDiv(k, finalToken) = finalEth
     /\ CeilDiv(k, finalEth) = finalToken
=============================================================================
