------------------------------ MODULE GoCurve ------------------------------
(***************************************************************************)
(* backend/internal/curve: the API's copy of the curve arithmetic.  It     *)
(* works on unbounded integers and checks after each operation that the    *)
(* result is a uint256.  A function that may fail names its first error,   *)
(* and what it returns when the error is "none".                           *)
(***************************************************************************)
EXTENDS Integers, Sequences

CONSTANTS
  Bps,      \* bpsDenominator
  MaxUint   \* maxUint256

ASSUME WidthAssumption == Bps \in Nat \ {0} /\ MaxUint \in Nat \ {0}

\* A list of <<condition, error>>, in the order in which the code returns them.
FirstError(checks) ==
  LET failed == {i \in 1..Len(checks) : checks[i][1]}
  IN IF failed = {} THEN "none"
     ELSE checks[CHOOSE i \in failed : \A j \in failed : i <= j][2]

\* copyUint256
Fits(n) == 0 <= n /\ n <= MaxUint

MulDiv(x, y, denominator) == (x * y) \div denominator

\* ceilDiv; its callers have checked the denominator.
CeilQuo(numerator, denominator) ==
  IF numerator = 0 \/ denominator = 0 THEN 0 ELSE (numerator - 1) \div denominator + 1

\* Mutant: the creator's share is rounded on its own.
SplitFeesTwice(gross, feeBps, shareBps) ==
  LET total == MulDiv(gross, feeBps, Bps)
  IN [total |-> total, protocol |-> MulDiv(total, shareBps, Bps),
      creator |-> MulDiv(total, Bps - shareBps, Bps)]

SplitFees(gross, feeBps, shareBps) ==
  LET total == MulDiv(gross, feeBps, Bps)
      protocol == MulDiv(total, shareBps, Bps)
  IN [total |-> total, protocol |-> protocol, creator |-> total - protocol]

ExactGrossForNet(net, feeBps) == MulDiv(net - 1, Bps, Bps - feeBps) + 1

Invariant(p) == p.initialVirtualEth * p.initialVirtualToken
FinalVirtualToken(p) == p.initialVirtualToken - p.curveTokens
FinalVirtualEth(p) == p.initialVirtualEth + p.graduationEth

\* Mutant: the boundary is checked in one direction only.
NewParametersHalf(p) ==
  FirstError(<<
    <<p.curveTokens + p.lpTokens > MaxUint, "overflow">>,
    <<p.totalSupply # p.curveTokens + p.lpTokens, "supply">>,
    <<p.lpTokens = 0 \/ p.curveTokens <= p.lpTokens, "allocation">>,
    <<p.graduationEth = 0, "graduation">>,
    <<p.initialVirtualEth = 0 \/ p.initialVirtualToken <= p.curveTokens, "reserves">>,
    <<p.tradeFeeBps >= Bps, "fee">>,
    <<p.protocolShareBps > Bps, "share">>,
    <<Invariant(p) > MaxUint \/ FinalVirtualEth(p) > MaxUint, "overflow">>,
    <<CeilQuo(Invariant(p), FinalVirtualToken(p)) # FinalVirtualEth(p), "boundary">> >>)

NewParameters(p) ==
  FirstError(<<
    <<p.curveTokens + p.lpTokens > MaxUint, "overflow">>,
    <<p.totalSupply # p.curveTokens + p.lpTokens, "supply">>,
    <<p.lpTokens = 0 \/ p.curveTokens <= p.lpTokens, "allocation">>,
    <<p.graduationEth = 0, "graduation">>,
    <<p.initialVirtualEth = 0 \/ p.initialVirtualToken <= p.curveTokens, "reserves">>,
    <<p.tradeFeeBps >= Bps, "fee">>,
    <<p.protocolShareBps > Bps, "share">>,
    <<Invariant(p) > MaxUint \/ FinalVirtualEth(p) > MaxUint, "overflow">>,
    <<\/ CeilQuo(Invariant(p), FinalVirtualToken(p)) # FinalVirtualEth(p)
      \/ CeilQuo(Invariant(p), FinalVirtualEth(p)) # FinalVirtualToken(p), "boundary">> >>)

\* NewState, and validateState again in every operation.
NewState(s) ==
  FirstError(<<
    <<~Fits(s.virtualEth) \/ ~Fits(s.virtualToken), "amount">>,
    <<~Fits(s.protocolFees) \/ ~Fits(s.creatorFees), "amount">> >>)

\* State after a trade, with the fees accrued so far.
Advanced(s, phase, eth, token, fees) ==
  [phase |-> phase, virtualEth |-> eth, virtualToken |-> token,
   protocolFees |-> s.protocolFees + fees.protocol, creatorFees |-> s.creatorFees + fees.creator]

FeesOverflow(s, fees) ==
  s.protocolFees + fees.protocol > MaxUint \/ s.creatorFees + fees.creator > MaxUint

Buy(s, p, gross) ==
  LET supplied == SplitFees(gross, p.tradeFeeBps, p.protocolShareBps)
      candidateEth == s.virtualEth + gross - supplied.total
      candidateToken == CeilQuo(Invariant(p), candidateEth)
      finalToken == FinalVirtualToken(p)
      finalEth == CeilQuo(Invariant(p), finalToken)
      cut == candidateEth > finalEth
      used == IF cut THEN ExactGrossForNet(finalEth - s.virtualEth, p.tradeFeeBps) ELSE gross
      fees == IF cut THEN SplitFees(used, p.tradeFeeBps, p.protocolShareBps) ELSE supplied
      newEth == IF cut THEN finalEth ELSE candidateEth
      newToken == IF cut THEN finalToken ELSE candidateToken
      graduates == cut \/ candidateToken = finalToken
  IN [error |-> FirstError(<<
        <<s.phase # "curve", "wrong_phase">>,
        <<NewState(s) # "none", NewState(s)>>,
        <<~Fits(gross), "amount">>,
        <<gross = 0, "zero_input">>,
        <<candidateEth > MaxUint, "overflow">>,
        <<candidateEth = 0 \/ finalToken = 0, "division">>,
        <<candidateToken >= s.virtualToken, "zero_output">>,
        <<cut /\ s.virtualEth >= finalEth, "internal">>,
        <<used > MaxUint \/ used > gross, "overflow">>,
        <<newToken > s.virtualToken, "overflow">>,
        <<newToken = s.virtualToken, "zero_output">>,
        <<FeesOverflow(s, fees), "overflow">> >>),
      output |-> s.virtualToken - newToken, refund |-> gross - used, fees |-> fees,
      graduates |-> graduates,
      next |-> Advanced(s, IF graduates THEN "graduated" ELSE "curve", newEth, newToken, fees)]

TokensSold(p, s) == p.initialVirtualToken - s.virtualToken

Sell(s, p, tokens) ==
  LET newToken == s.virtualToken + tokens
      newEth == CeilQuo(Invariant(p), newToken)
      ethGross == s.virtualEth - newEth
      fees == SplitFees(ethGross, p.tradeFeeBps, p.protocolShareBps)
  IN [error |-> FirstError(<<
        <<s.phase # "curve", "wrong_phase">>,
        <<NewState(s) # "none", NewState(s)>>,
        <<~Fits(tokens), "amount">>,
        <<tokens = 0, "zero_input">>,
        <<TokensSold(p, s) < 0, "overflow">>,
        <<tokens > TokensSold(p, s), "oversell">>,
        <<newToken > MaxUint, "overflow">>,
        <<newToken = 0, "division">>,
        <<ethGross < 0, "overflow">>,
        <<ethGross = 0 \/ ethGross = fees.total, "zero_output">>,
        <<FeesOverflow(s, fees), "overflow">> >>),
      output |-> ethGross - fees.total, refund |-> 0, fees |-> fees, graduates |-> FALSE,
      next |-> Advanced(s, "curve", newEth, newToken, fees)]
=============================================================================
