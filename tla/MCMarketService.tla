--------------------------- MODULE MCMarketService ---------------------------
(* A finite instance of MarketService.                                        *)
EXTENDS MarketService

CONSTANTS btc, eth, r1, r2

\* The upper case of the names that clients send.
MCUpper == [x \in Spelling |-> IF x = "ETH" THEN eth ELSE btc]
=============================================================================
