--------------------------- MODULE MCMarketStream ---------------------------
(* A finite instance of MarketStream: two spellings of each symbol. *)
EXTENDS MarketStream

CONSTANTS btc, eth

\* "btc", "BTC" and "ETH" as clients may send them.
MCUpper == [x \in Spelling |-> IF x = "ETH" THEN eth ELSE btc]
=============================================================================
