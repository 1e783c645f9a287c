--------------------------- MODULE MCBondingCurve ---------------------------
(***************************************************************************)
(* A market small enough to be sold out: K = 12, four curve tokens, two    *)
(* pool tokens, four ETH to graduation; fees are halves.                   *)
(***************************************************************************)
EXTENDS BondingCurve

CONSTANTS alice, bob

MCUsers == {alice, bob}
MCParams == [totalSupply |-> 6, curveTokens |-> 4, lpTokens |-> 2, graduationEth |-> 4,
             initialVirtualEth |-> 2, initialVirtualToken |-> 6,
             tradeFeeBps |-> 2, protocolShareBps |-> 2]
\* _buy refuses only the zero address.
MCRecipients == {alice, bob, Curve, Pair}
=============================================================================
