------------------------------ MODULE MCQuotes ------------------------------
(***************************************************************************)
(* Every small parameter set on both sides of validity, every trade on the *)
(* valid ones.                                                             *)
(***************************************************************************)
EXTENDS Quotes

CONSTANTS
  MaxEth,    \* bound on the initial virtual ETH and on a trade
  MaxToken   \* bound on the initial virtual token reserve

MCParameters ==
  [totalSupply : 3..(MaxToken + 1), curveTokens : 1..MaxToken, lpTokens : 0..2,
   graduationEth : 0..(2 * MaxToken), initialVirtualEth : 0..MaxEth,
   initialVirtualToken : 2..MaxToken,
   tradeFeeBps : {0, 1, Bps}, protocolShareBps : {1, Bps + 1}]

MCTexts == {Format[n] : n \in {0, 1, 2, 3, 5, 9, MaxUint - 2, MaxUint, MaxUint + 1}}
           \cup {<<>>, <<0, 5>>, <<NotDigit, 5>>, <<1, NotDigit>>, <<0, 0, 5>>, <<1, 0, 0, 0>>}

=============================================================================
