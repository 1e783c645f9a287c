----------------------------- MODULE BondingCurve -----------------------------
(***************************************************************************)
(* One launched market: contracts/src/BondingCurveV1.sol with the token    *)
(* contracts/src/LaunchToken.sol it sells, from the end of initialize.     *)
(*                                                                         *)
(* An Ethereum transaction is atomic and every entry point is              *)
(* nonReentrant, so each external function is one action.  A call that     *)
(* reverts changes nothing and is no step.  What may happen inside a       *)
(* transaction is that the receiver of ETH refuses it; the choice is made  *)
(* afresh at every send.  minTokensOut, minEthOut and deadline only turn a *)
(* trade into a revert, so they are left out.                              *)
(***************************************************************************)
EXTENDS CurveMath, FiniteSets

CONSTANTS
  Users,       \* externally owned accounts and contracts that trade
  Creator,     \* _creator
  Treasury,    \* _protocolTreasury
  Curve,       \* address of the curve
  Pair,        \* address of the canonical Uniswap v2 pair
  Recipients,  \* addresses that buyers name as tokenRecipient
  Params,      \* the snapshotted CurveParameters
  Wealth       \* ETH each user starts with: bounds every amount

ASSUME MarketAssumption ==
  /\ Creator \in Users
  /\ Treasury \in Users
  /\ Curve \notin Users
  /\ Pair \notin Users
  /\ Curve # Pair
  /\ Recipients \subseteq Users \cup {Curve, Pair}
  /\ Params \in CurveParameters
  /\ ValidParameters(Params)
  /\ Wealth \in Nat

VARIABLES
  phase,          \* _phase, and _graduated of the token
  virtualEth,     \* _virtualEthReserve
  virtualToken,   \* _virtualTokenReserve
  creatorFees,    \* _unclaimedCreatorFees
  protocolFees,   \* _unclaimedProtocolFees
  pendingRefunds, \* _pendingRefunds
  totalPending,   \* _totalPendingRefunds
  balance,        \* ETH the curve holds
  wallet,         \* ETH each user holds
  tokens,         \* ERC-20 balances of the launched token
  pairWeth,       \* WETH the pair holds
  paused,         \* tradingPaused of the factory
  forced,         \* ETH pushed into the curve without a call: history
  seeded          \* tokens bought for the pair: history

curveVars == <<phase, virtualEth, virtualToken, creatorFees, protocolFees,
               pendingRefunds, totalPending>>
vars == <<phase, virtualEth, virtualToken, creatorFees, protocolFees, pendingRefunds,
          totalPending, balance, wallet, tokens, pairWeth, paused, forced, seeded>>

Addresses == Users \cup {Curve, Pair}

K == Params.initialVirtualEth * Params.initialVirtualToken
FinalToken == Params.initialVirtualToken - Params.curveTokens
Sold == TokensSold(Params.initialVirtualToken, virtualToken)

\* initialize, after the token's constructor has minted the supply to the curve.
Init ==
  /\ phase = "Curve"
  /\ virtualEth = Params.initialVirtualEth
  /\ virtualToken = Params.initialVirtualToken
  /\ creatorFees = 0
  /\ protocolFees = 0
  /\ pendingRefunds = [u \in Users |-> 0]
  /\ totalPending = 0
  /\ balance = 0
  /\ wallet = [u \in Users |-> Wealth]
  /\ tokens = [a \in Addresses |-> IF a = Curve THEN Params.totalSupply ELSE 0]
  /\ pairWeth = 0
  /\ paused = FALSE
  /\ forced = 0
  /\ seeded = 0

-----------------------------------------------------------------------------
\* Mutant: the factory's pause is ignored.
AllowedWhilePaused == phase = "Curve"

\* _requireTradingAllowed.
TradingAllowed == phase = "Curve" /\ ~paused

\* Mutant: the end of the curve is one token off.
BuyQuotesEarly(gross) ==
  QuoteBuy(K, virtualEth, virtualToken, FinalToken + 1, gross,
           Params.tradeFeeBps, Params.protocolShareBps)

BuyQuotes(gross) ==
  QuoteBuy(K, virtualEth, virtualToken, FinalToken, gross,
           Params.tradeFeeBps, Params.protocolShareBps)

SellQuotes(tokensIn) ==
  QuoteSell(K, virtualEth, virtualToken, Sold, tokensIn,
            Params.tradeFeeBps, Params.protocolShareBps)

\* Mutant: the failed send is credited to the recipient but not to the total.
CreditRecipientOnly(recipient, amount, sent) ==
  /\ pendingRefunds' = [pendingRefunds EXCEPT ![recipient] = @ + IF sent THEN 0 ELSE amount]
  /\ UNCHANGED totalPending

\* The bookkeeping of _sendOrCredit: a refused send becomes a pending refund.
CreditUnlessSent(recipient, amount, sent) ==
  /\ pendingRefunds' = [pendingRefunds EXCEPT ![recipient] = @ + IF sent THEN 0 ELSE amount]
  /\ totalPending' = totalPending + IF sent THEN 0 ELSE amount

AccrueFees(fees) ==
  /\ protocolFees' = protocolFees + fees.protocol
  /\ creatorFees' = creatorFees + fees.creator

\* An ERC-20 transfer of the launched token.
Moved(from, to, amount) == [[tokens EXCEPT ![from] = @ - amount] EXCEPT ![to] = @ + amount]

\* _validateGraduationPair on the token balances bal: the pair holds none of the
\* token.  Without tokens it can have neither a token reserve nor LP supply.
GraduationPairValid(bal) == bal[Pair] = 0

\* Mutant: graduation wraps all the ETH the curve holds.
WrapBalance(held) == held

\* The ETH that _graduate wraps and sends to the pair.
WrappedEth(held) == Params.graduationEth

\* buy and buyFor: the payer pays gross, the tokens go to `to`, and the excess of
\* the buy that ends the curve is returned to refundTo after graduation.
Buy(payer, to, refundTo, gross, sent) ==
  /\ TradingAllowed
  /\ gross <= wallet[payer]
  /\ \E q \in BuyQuotes(gross) :
       LET bought == Moved(Curve, to, q.tokensOut)
           spent == IF q.graduates THEN WrappedEth(balance + gross) ELSE 0
           returned == IF sent THEN q.refund ELSE 0
       IN /\ q.tokensOut <= tokens[Curve]
          /\ q.refund = 0 => sent
          /\ q.graduates => GraduationPairValid(bought)
          /\ virtualEth' = q.newEth
          /\ virtualToken' = q.newToken
          /\ AccrueFees(q.fees)
          /\ phase' = IF q.graduates THEN "Graduated" ELSE "Curve"
          /\ tokens' = IF q.graduates
                         THEN [bought EXCEPT ![Curve] = @ - Params.lpTokens,
                                             ![Pair] = @ + Params.lpTokens]
                         ELSE bought
          /\ pairWeth' = pairWeth + spent
          /\ CreditUnlessSent(refundTo, q.refund, sent)
          /\ balance' = balance + gross - spent - returned
          /\ wallet' = [[wallet EXCEPT ![payer] = @ - gross] EXCEPT ![refundTo] = @ + returned]
          /\ seeded' = seeded + IF to = Pair THEN q.tokensOut ELSE 0
  /\ UNCHANGED <<paused, forced>>

\* Mutant: the tokens sold stay with the seller.
PullNothing(seller, tokensIn) == UNCHANGED tokens

\* transferFrom of the seller's tokens to the curve.
PullTokens(seller, tokensIn) == tokens' = Moved(seller, Curve, tokensIn)

\* sell: the curve pulls the tokens and pays the recipient.
Sell(seller, to, tokensIn, sent) ==
  /\ TradingAllowed
  /\ tokensIn <= tokens[seller]
  /\ \E q \in SellQuotes(tokensIn) :
       LET paid == IF sent THEN q.ethOut ELSE 0
       IN /\ virtualEth' = q.newEth
          /\ virtualToken' = q.newToken
          /\ AccrueFees(q.fees)
          /\ PullTokens(seller, tokensIn)
          /\ CreditUnlessSent(to, q.ethOut, sent)
          /\ balance' = balance - paid
          /\ wallet' = [wallet EXCEPT ![to] = @ + paid]
  /\ UNCHANGED <<phase, pairWeth, paused, forced, seeded>>

\* A claim pays out in full or reverts.
ClaimCreatorFees ==
  /\ creatorFees > 0
  /\ creatorFees' = 0
  /\ balance' = balance - creatorFees
  /\ wallet' = [wallet EXCEPT ![Creator] = @ + creatorFees]
  /\ UNCHANGED <<phase, virtualEth, virtualToken, protocolFees, pendingRefunds,
                 totalPending, tokens, pairWeth, paused, forced, seeded>>

ClaimProtocolFees ==
  /\ protocolFees > 0
  /\ protocolFees' = 0
  /\ balance' = balance - protocolFees
  /\ wallet' = [wallet EXCEPT ![Treasury] = @ + protocolFees]
  /\ UNCHANGED <<phase, virtualEth, virtualToken, creatorFees, pendingRefunds,
                 totalPending, tokens, pairWeth, paused, forced, seeded>>

ClaimRefund(u) ==
  /\ pendingRefunds[u] > 0
  /\ pendingRefunds' = [pendingRefunds EXCEPT ![u] = 0]
  /\ totalPending' = totalPending - pendingRefunds[u]
  /\ balance' = balance - pendingRefunds[u]
  /\ wallet' = [wallet EXCEPT ![u] = @ + pendingRefunds[u]]
  /\ UNCHANGED <<phase, virtualEth, virtualToken, creatorFees, protocolFees,
                 tokens, pairWeth, paused, forced, seeded>>

\* Mutant: the token has no transfer restriction.
TransferAlways(from, to) == TRUE

\* _update: before graduation only the curve moves tokens into or out of the curve
\* and the pair.
TransferAllowed(from, to) ==
  phase = "Graduated" \/ (from \notin {Curve, Pair} /\ to \notin {Curve, Pair})

\* A user's own ERC-20 transfer.
Transfer(from, to, amount) ==
  /\ amount <= tokens[from]
  /\ TransferAllowed(from, to)
  /\ tokens' = Moved(from, to, amount)
  /\ UNCHANGED <<curveVars, balance, wallet, pairWeth, paused, forced, seeded>>

\* setTradingPaused of the factory.
SetTradingPaused(p) ==
  /\ paused # p
  /\ paused' = p
  /\ UNCHANGED <<curveVars, balance, wallet, tokens, pairWeth, forced, seeded>>

\* ETH can be forced into any account, and WETH donated to the pair.
ForceEth(u) ==
  /\ wallet[u] > 0
  /\ wallet' = [wallet EXCEPT ![u] = @ - 1]
  /\ balance' = balance + 1
  /\ forced' = forced + 1
  /\ UNCHANGED <<curveVars, tokens, pairWeth, paused, seeded>>

DonateWeth(u) ==
  /\ wallet[u] > 0
  /\ wallet' = [wallet EXCEPT ![u] = @ - 1]
  /\ pairWeth' = pairWeth + 1
  /\ UNCHANGED <<curveVars, balance, tokens, paused, forced, seeded>>

Next ==
  \/ \E payer, refundTo \in Users : \E to \in Recipients : \E sent \in BOOLEAN :
       \E gross \in 1..wallet[payer] : Buy(payer, to, refundTo, gross, sent)
  \/ \E seller, to \in Users : \E sent \in BOOLEAN :
       \E tokensIn \in 1..tokens[seller] : Sell(seller, to, tokensIn, sent)
  \/ ClaimCreatorFees
  \/ ClaimProtocolFees
  \/ \E u \in Users : ClaimRefund(u)
  \/ \E from \in Users : \E to \in Addresses :
       \E amount \in 1..tokens[from] : Transfer(from, to, amount)
  \/ \E p \in BOOLEAN : SetTradingPaused(p)
  \/ \E u \in Users : ForceEth(u) \/ DonateWeth(u)

Spec == Init /\ [][Next]_vars

-----------------------------------------------------------------------------
(* Properties. *)

TypeOK ==
  /\ phase \in {"Curve", "Graduated"}
  /\ virtualEth \in Nat
  /\ virtualToken \in Nat
  /\ creatorFees \in Nat
  /\ protocolFees \in Nat
  /\ pendingRefunds \in [Users -> Nat]
  /\ totalPending \in Nat
  /\ balance \in Nat
  /\ wallet \in [Users -> Nat]
  /\ tokens \in [Addresses -> Nat]
  /\ pairWeth \in Nat
  /\ paused \in BOOLEAN
  /\ forced \in Nat
  /\ seeded \in Nat

\* What _assertAccountingInvariant requires the curve to hold.
RequiredBalance ==
  (IF phase = "Curve" THEN RealCurveEth(virtualEth, Params.initialVirtualEth) ELSE 0)
    + creatorFees + protocolFees + totalPending

\* The curve holds exactly what it owes, plus ETH that was forced into it: the
\* assertion at the end of every entry point never reverts a trade or a claim, and
\* no rounding, cut final buy or refused send leaves ETH behind.
AccountingExact == balance = RequiredBalance + forced

\* Every wei that an account may still claim.
CreditedWei == UNION {{u} \X (1..pendingRefunds[u]) : u \in Users}

\* The total of pending refunds is the sum over the accounts, so that no
\* sequence of refused sends and claims can make a claimRefund underflow.
RefundsAddUp == totalPending = Cardinality(CreditedWei)

\* The reserves stay on the curve, rounded in its favour: their product is never below K,
\* and it would be with one token less (a buy rounds the token reserve up) or with one wei
\* less (a sale rounds the ETH reserve up).
OnCurve ==
  /\ virtualEth * virtualToken >= K
  /\ virtualEth * (virtualToken - 1) < K \/ (virtualEth - 1) * virtualToken < K

\* While the market trades, the curve holds the unsold tokens and the tokens for
\* the pool, so neither a buy nor graduation can fail for lack of inventory.
InventoryCovered ==
  phase = "Curve" => tokens[Curve] >= Params.lpTokens + Params.curveTokens - Sold

\* Graduation happens exactly when the curve is sold out with the graduation ETH
\* raised, and only then.
GraduatesAtBoundary ==
  phase = "Graduated" <=> /\ Sold = Params.curveTokens
                          /\ RealCurveEth(virtualEth, Params.initialVirtualEth)
                               = Params.graduationEth

\* Before graduation the pair holds exactly the tokens that buyers had the curve send to
\* it: no transfer of a user brings any there, and none leaves it.
PairHoldsBoughtOnly == phase = "Curve" => tokens[Pair] = seeded

\* The canonical pair holds none of the launched token before graduation, as the design
\* says of the transfer restriction; otherwise the buy that ends the curve reverts in
\* _validateGraduationPair.  The code does not keep it: _buy accepts the pair as
\* tokenRecipient, and the restriction exempts transfers the curve makes.
PairUnseeded == phase = "Curve" => tokens[Pair] = 0

\* Graduation is final: afterwards the reserves never move and fees and refunds
\* are only paid out; while trading is paused nothing moves the reserves either.
TradingEnds ==
  [][phase = "Graduated" \/ paused =>
       /\ phase' = phase /\ virtualEth' = virtualEth /\ virtualToken' = virtualToken
       /\ creatorFees' <= creatorFees /\ protocolFees' <= protocolFees
       /\ totalPending' <= totalPending]_vars

\* What the curve owes is what it holds: its ETH accounts for reserves, fees and refunds to
\* the wei, each account's refund is in the total, its tokens cover what is still to be
\* sold and the pool's share, and nobody but a buyer through the curve has put tokens into
\* the pair.  So no sequence of trades, refused sends and claims can make a claim, a sale
\* or the funding of the pool fail for lack of ETH or tokens.
Solvent ==
  /\ TypeOK
  /\ AccountingExact
  /\ RefundsAddUp
  /\ InventoryCovered
  /\ PairHoldsBoughtOnly
=============================================================================
