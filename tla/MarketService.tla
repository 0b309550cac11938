---------------------------- MODULE MarketService ----------------------------
(***************************************************************************)
(* The market service whole: the market stream and the price service run   *)
(* in one process, over one cache and one Binance. Each component's module *)
(* is instantiated as it is; what they share is the newest ticker of each  *)
(* symbol at Binance (tick) and the cache. MarketStream's own cache        *)
(* variable is here `streamed`, the tickers the stream has cached, and     *)
(* every ticker that it caches goes to the shared cache too.               *)
(***************************************************************************)
EXTENDS Naturals, FiniteSets, Sequences

CONSTANTS
  Spelling, Symbol, Upper, Request,
  RetryMayFail, MaxSockets, MaxTick, MaxFrames, MaxTickers, MaxDrops

\* What the two components assume of them.
ASSUME ServiceAssumption ==
  /\ Upper \in [Spelling -> Symbol] /\ IsFiniteSet(Symbol)
  /\ MaxSockets \in Nat /\ MaxTick \in Nat \ {0} /\ MaxFrames \in Nat
  /\ MaxTickers \in Nat /\ MaxDrops \in Nat /\ RetryMayFail \in BOOLEAN

VARIABLES
  sockets, nextSocketId, closing, symbolRegistry, connectionRegistry,
  activeSymbols, ws, reconnecting, timer, frames, upstream, tickers, sent, drops,
  streamed,   \* streamed[y]: the last ticker of y that the stream cached
  tick, cache, source, stale, inFlight, calls, waits

Stream == INSTANCE MarketStream WITH cache <- streamed
Prices == INSTANCE PriceService

\* The variables of one component only.
streamVars == <<sockets, nextSocketId, closing, symbolRegistry, connectionRegistry,
  activeSymbols, ws, reconnecting, timer, frames, upstream, tickers, sent, drops,
  streamed>>
priceVars == <<inFlight, calls, waits>>
cacheVars == <<cache, source, stale>>

vars == <<streamVars, priceVars, cacheVars, tick>>

-----------------------------------------------------------------------------
(* A step of the stream *)

\* Mutated form: the stream's entries get no new updatedAt.
RenewedNever == {}

\* The symbols whose entries the stream's step replaces, with a new updatedAt.
Renewed == {y \in Symbol : streamed'[y] # streamed[y]}

\* _handleIncomingTicker's cache.set on the cache that the price service reads.
CacheStreamed ==
  /\ cache' = [y \in Symbol |->
                 IF streamed'[y] # streamed[y] THEN streamed'[y] ELSE cache[y]]
  /\ source' = [y \in Symbol |->
                  IF streamed'[y] # streamed[y] THEN "stream" ELSE source[y]]
  /\ stale' = stale \ Renewed

StreamStep == Stream!Next /\ CacheStreamed /\ UNCHANGED priceVars

PriceStep == (Prices!Serving \/ Prices!Answering) /\ UNCHANGED streamVars

\* The TTL of an entry runs out.
Expiry == \E y \in Symbol : Prices!Expire(y) /\ UNCHANGED streamVars

-----------------------------------------------------------------------------
(* The specification *)

Init == Stream!Init /\ Prices!Init

Next == StreamStep \/ PriceStep \/ Expiry

Spec == Init /\ [][Next]_vars

Fairness == Stream!Fairness /\ Prices!Fairness

FairSpec == Spec /\ Fairness

-----------------------------------------------------------------------------
(* Properties *)

\* The service as a whole is a price service: the tickers that the real stream
\* writes, in the order in which it handles them across reconnects, are the ones
\* that PriceService takes a stream to write.
PricesImplemented == Prices!Spec

\* A symbol that clients go on holding is streamed by Binance in the end,
\* whatever REST requests do in between.
HeldIsStreamed == Stream!HeldIsStreamed

\* Every GET /prices is answered, whatever the stream does in between.
PricesAnswered == Prices!PricesAnswered
=============================================================================
