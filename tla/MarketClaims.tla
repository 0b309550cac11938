---------------------------- MODULE MarketClaims ----------------------------
(***************************************************************************)
(* What the comments of the market service say that the code does not      *)
(* keep, checked alone.                                                    *)
(***************************************************************************)
EXTENDS MCMarketStream

\* BinanceWsAdapter: "close event will fire after error, triggering reconnect".
\* So a connection to Binance that is closed is tried again.
CloseReconnects == ws = "CLOSED" ~> ws = "CONNECTING"
=============================================================================
