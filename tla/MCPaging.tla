------------------------------ MODULE MCPaging ------------------------------
(***************************************************************************)
(* Listings of two tokens launched in one block: cards in both orders and  *)
(* phases, trades and holders with ties, stored candles and rollups whose  *)
(* groups a page may split, with volumes that end in zeros.                *)
(***************************************************************************)
EXTENDS Paging

MCBlocks ==
  {<<LaunchOf(1), LaunchOf(2)>>,
   <<TransferOf(1, 0, 1, 1), TransferOf(1, 0, 2, 1), TradeOf(1, 1, 4), TradeOf(1, 10, 6)>>,
   <<GraduationOf(2)>>}

MCRequests ==
  [endpoint : {"tokens"}, sort : {"newest"}, phase : {"curve", "graduated"}, search : {Tokens}]
  \cup [endpoint : {"tokens"}, sort : {"oldest", "market_cap"}, phase : {"curve"}, search : {Tokens}]
  \cup [endpoint : {"tokens"}, sort : {"volume_24h"}, phase : {"curve"}, search : {{1}}]
  \cup [endpoint : {"holders", "trades"}, sort : {"newest"}, token : {1}]
  \cup [endpoint : {"candles"}, sort : {"6h", "all"}, token : {1}, from : {0}, to : {5}]
  \cup [endpoint : {"candles"}, sort : {"1h"}, token : {1}, from : {0}, to : {NoTime}]
=============================================================================
