------------------------ MODULE MarketService_proofs ------------------------
(***************************************************************************)
(* Proofs that each component of the market service goes on behaving as    *)
(* its own module says when both run together, over one cache.             *)
(***************************************************************************)
EXTENDS MarketService, TLAPS

StreamProofs == INSTANCE MarketStream_proofs WITH cache <- streamed

\* The constants are what both components assume of theirs.
LEMMA ComponentAssumptions ==
  /\ StreamProofs!UpperAssumption /\ StreamProofs!SymbolAssumption
  /\ StreamProofs!BoundAssumption /\ Prices!TickAssumption
BY ServiceAssumption DEF IsFiniteSet, StreamProofs!IsFiniteSet,
   StreamProofs!UpperAssumption, StreamProofs!SymbolAssumption,
   StreamProofs!BoundAssumption, Prices!TickAssumption

\* Tickers are in order, and newer than what the stream has cached.
Ahead == StreamProofs!TickersTyped /\ StreamProofs!TickersAhead

\* An entry that the stream wrote is still the last ticker it brought.
Linked ==
  /\ cache = [y \in Symbol |-> cache[y]] /\ source = [y \in Symbol |-> source[y]]
  /\ \A y \in Symbol : source[y] = "stream" => cache[y] = streamed[y]

-----------------------------------------------------------------------------
(* The stream *)

\* A step of the price service, or the end of a TTL, leaves the stream alone.
LEMMA PriceStepQuiet ==
  ASSUME PriceStep \/ Expiry
  PROVE  UNCHANGED <<streamVars, tick>>
BY DEF PriceStep, Expiry, Prices!Serving, Prices!Answering, Prices!Serve,
   Prices!Compute, Prices!Complete, Prices!Fail, Prices!Expire

\* Every step is one of the stream, or leaves it alone.
LEMMA StreamSimulated == [Next]_vars => [Stream!Next]_(Stream!vars)
<1> SUFFICES ASSUME [Next]_vars PROVE Stream!Next \/ UNCHANGED Stream!vars
  OBVIOUS
<1>1. CASE StreamStep
  BY <1>1 DEF StreamStep
<1>2. CASE UNCHANGED <<streamVars, tick>>
  BY <1>2 DEF streamVars, Stream!vars, Stream!client, Stream!registries,
     Stream!adapter, Stream!network
<1> QED
  BY <1>1, <1>2, PriceStepQuiet DEF Next, vars

\* The market service is a market stream: nothing that GET /prices does
\* disturbs subscriptions, the connection to Binance or what clients are sent.
LEMMA ImplementsStream == Spec => Stream!Spec
<1>1. Init => Stream!Init
  BY DEF Init
<1> QED
  BY <1>1, StreamSimulated, PTL DEF Spec, Stream!Spec

-----------------------------------------------------------------------------
(* The tickers that the stream brings *)

\* What a step of the stream does to the tickers.
LEMMA StreamCases ==
  ASSUME Stream!Next
  PROVE  \/ StreamProofs!HandleTicker
         \/ \E y \in Symbol : StreamProofs!Publish(y)
         \/ tickers' = <<>> /\ UNCHANGED <<tick, streamed>>
         \/ UNCHANGED <<tickers, tick, streamed>>
<1>1. CASE Stream!HandleTicker
  BY <1>1 DEF Stream!HandleTicker, Stream!Receivers, Stream!Subscribers, Stream!client,
     Stream!registries, Stream!adapter, StreamProofs!HandleTicker, StreamProofs!Receivers,
     StreamProofs!Subscribers, StreamProofs!client, StreamProofs!registries,
     StreamProofs!adapter
<1>2. ASSUME NEW y \in Symbol, Stream!Publish(y) PROVE StreamProofs!Publish(y)
  BY <1>2 DEF Stream!Publish, Stream!client, Stream!registries, Stream!adapter,
     StreamProofs!Publish, StreamProofs!client, StreamProofs!registries,
     StreamProofs!adapter
<1>3. CASE Stream!Open \/ Stream!ConnectFails \/ Stream!Drop \/ Stream!Close
           \/ Stream!Reconnect \/ Stream!HandleFrame
  BY <1>3 DEF Stream!Open, Stream!ConnectFails, Stream!Drop, Stream!Close,
     Stream!Reconnect, Stream!HandleFrame, Stream!network
<1>4. CASE Stream!Clients
  BY <1>4 DEF Stream!Clients, Stream!Connect, Stream!StartClose, Stream!Disconnect,
     Stream!Subscribe, Stream!Unsubscribe, Stream!network
<1> QED
  BY <1>1, <1>2, <1>3, <1>4 DEF Stream!Next, Stream!Binance

\* Tickers stay in order, and newer than those the stream has cached.
LEMMA AheadKept == Ahead /\ [Next]_vars => Ahead'
<1> SUFFICES ASSUME Ahead, [Next]_vars PROVE Ahead'
  OBVIOUS
<1>1. CASE StreamStep
  <2>1. CASE StreamProofs!HandleTicker
    <3>1. StreamProofs!TickersAhead'
      BY <2>1, StreamProofs!HandleTickerAhead, ComponentAssumptions DEF Ahead
    <3>2. StreamProofs!TickersTyped'
      <4>1. /\ tickers # <<>> /\ tickers' = Tail(tickers) /\ tick' = tick
            /\ streamed' = [streamed EXCEPT ![Head(tickers).symbol] = Head(tickers).tick]
        BY <2>1 DEF StreamProofs!HandleTicker
      <4>2. tickers' \in Seq(StreamProofs!Ticker) /\ Head(tickers) \in StreamProofs!Ticker
        BY <4>1 DEF Ahead, StreamProofs!TickersTyped
      <4>3. Head(tickers).symbol \in Symbol /\ Head(tickers).tick \in 0 .. MaxTick
        BY <4>2, ServiceAssumption DEF StreamProofs!Ticker
      <4> QED
        BY <4>1, <4>2, <4>3 DEF Ahead, StreamProofs!TickersTyped
    <3> QED
      BY <3>1, <3>2 DEF Ahead
  <2>2. ASSUME NEW y \in Symbol, StreamProofs!Publish(y) PROVE Ahead'
    <3>1. StreamProofs!TickersAhead'
      BY <2>2, StreamProofs!PublishAhead, ComponentAssumptions DEF Ahead
    <3>2. StreamProofs!TickersTyped'
      <4> DEFINE t == [symbol |-> y, tick |-> tick'[y]]
      <4>1. /\ tick[y] < MaxTick /\ tick' = [tick EXCEPT ![y] = @ + 1]
            /\ streamed' = streamed
            /\ tickers' = tickers \/ tickers' = Append(tickers, t)
        BY <2>2 DEF StreamProofs!Publish
      <4>2. tick' \in [Symbol -> 1 .. MaxTick]
        BY <4>1, ServiceAssumption DEF Ahead, StreamProofs!TickersTyped
      <4>3. t \in StreamProofs!Ticker
        BY <4>2 DEF StreamProofs!Ticker
      <4> HIDE DEF t
      <4>4. tickers \in Seq(StreamProofs!Ticker)
        BY DEF Ahead, StreamProofs!TickersTyped
      <4>5. tickers' \in Seq(StreamProofs!Ticker)
        BY <4>1, <4>3, <4>4
      <4> QED
        BY <4>1, <4>2, <4>5 DEF Ahead, StreamProofs!TickersTyped
    <3> QED
      BY <3>1, <3>2 DEF Ahead
  <2>3. CASE tickers' = <<>> /\ UNCHANGED <<tick, streamed>>
    BY <2>3 DEF Ahead, StreamProofs!TickersTyped, StreamProofs!TickersAhead
  <2>4. CASE UNCHANGED <<tickers, tick, streamed>>
    BY <2>4 DEF Ahead, StreamProofs!TickersTyped, StreamProofs!TickersAhead
  <2> QED
    BY <1>1, <2>1, <2>2, <2>3, <2>4, StreamCases DEF StreamStep
<1>2. CASE UNCHANGED <<streamVars, tick>>
  BY <1>2 DEF streamVars, Ahead, StreamProofs!TickersTyped, StreamProofs!TickersAhead
<1> QED
  BY <1>1, <1>2, PriceStepQuiet DEF Next, vars

\* A handled ticker is newer than the stream's last one of its symbol.
LEMMA HandledTicker ==
  ASSUME Ahead, StreamProofs!HandleTicker
  PROVE  \E y \in Symbol, t \in 1 .. MaxTick :
           /\ streamed[y] < t /\ t <= tick[y] /\ streamed[y] \in Nat
           /\ streamed' = [streamed EXCEPT ![y] = t] /\ tick' = tick
<1> DEFINE t == Head(tickers)
<1>1. /\ tickers # <<>> /\ tick' = tick /\ streamed' = [streamed EXCEPT ![t.symbol] = t.tick]
  BY DEF StreamProofs!HandleTicker
<1>2. t = tickers[1] /\ 1 \in DOMAIN tickers /\ t \in StreamProofs!Ticker
  BY <1>1 DEF Ahead, StreamProofs!TickersTyped
<1>3. streamed[t.symbol] < t.tick /\ t.tick <= tick[t.symbol]
  BY <1>2 DEF Ahead, StreamProofs!TickersAhead
<1>4. t.symbol \in Symbol /\ t.tick \in 1 .. MaxTick
  BY <1>2 DEF StreamProofs!Ticker
<1> HIDE DEF t
<1>5. streamed[t.symbol] \in Nat
  BY <1>4, ServiceAssumption DEF Ahead, StreamProofs!TickersTyped
<1> QED
  BY <1>1, <1>3, <1>4, <1>5

-----------------------------------------------------------------------------
(* The price service *)

\* A ticker that the stream caches is one that PriceService takes a stream to
\* write, and keeps the entry linked.
LEMMA WriteSimulated ==
  ASSUME Linked, CacheStreamed, UNCHANGED <<priceVars, tick>>,
         NEW y \in Symbol, NEW t \in 1 .. MaxTick,
         streamed \in [Symbol -> 0 .. MaxTick],
         streamed[y] < t, t <= tick[y], streamed' = [streamed EXCEPT ![y] = t]
  PROVE  Prices!StreamWrites(y, t) /\ Linked'
<1>1. streamed'[y] = t /\ t # streamed[y] /\ \A z \in Symbol \ {y} : streamed'[z] = streamed[z]
  OBVIOUS
<1>2. Renewed = {y}
  BY <1>1 DEF Renewed
<1>3. cache' = [cache EXCEPT ![y] = t] /\ source' = [source EXCEPT ![y] = "stream"]
  BY <1>1 DEF Linked, CacheStreamed
<1>4. source[y] = "stream" => t > cache[y]
  BY DEF Linked
<1>5. Linked'
  BY <1>1, <1>3 DEF Linked
<1> QED
  BY <1>2, <1>3, <1>4, <1>5 DEF Prices!StreamWrites, CacheStreamed, priceVars

\* A step of the stream that caches nothing changes no entry.
LEMMA CacheKept ==
  ASSUME Linked, CacheStreamed, UNCHANGED streamed
  PROVE  UNCHANGED <<cache, source, stale>> /\ Linked'
<1>1. UNCHANGED <<cache, source, stale>>
  BY DEF Linked, CacheStreamed, Renewed
<1> QED
  BY <1>1 DEF Linked

\* A step of the price service keeps the entries linked: what it writes it
\* writes as "rest".
LEMMA PriceStepLinked ==
  ASSUME Linked, PriceStep \/ Expiry
  PROVE  Linked'
<1>1. UNCHANGED streamed
  BY PriceStepQuiet DEF streamVars
<1>2. CASE UNCHANGED <<cache, source>>
  BY <1>1, <1>2 DEF Linked
<1>3. ASSUME NEW c, Prices!Complete(c) PROVE Linked'
  <2>1. /\ cache' = [cache EXCEPT ![c.symbol] = c.answer]
        /\ source' = [source EXCEPT ![c.symbol] = "rest"]
    BY <1>3 DEF Prices!Complete
  <2> QED
    BY <1>1, <2>1 DEF Linked
<1> QED
  BY <1>2, <1>3 DEF PriceStep, Expiry, Prices!Serving, Prices!Answering, Prices!Serve,
     Prices!Compute, Prices!Fail, Prices!Expire

\* Every step is one of the price service, or leaves it alone.
LEMMA PricesSimulated ==
  Ahead /\ Linked /\ [Next]_vars => [Prices!Next]_(Prices!vars) /\ Linked'
<1> SUFFICES ASSUME Ahead, Linked, [Next]_vars
             PROVE  (Prices!Next \/ UNCHANGED Prices!vars) /\ Linked'
  OBVIOUS
<1>1. CASE StreamStep
  <2>1. CASE StreamProofs!HandleTicker
    <3>1. PICK y \in Symbol, t \in 1 .. MaxTick :
            /\ streamed[y] < t /\ t <= tick[y] /\ streamed[y] \in Nat
            /\ streamed' = [streamed EXCEPT ![y] = t] /\ tick' = tick
      BY <2>1, HandledTicker
    <3>2. Prices!StreamWrites(y, t) /\ Linked'
      BY <1>1, <3>1, WriteSimulated DEF StreamStep, Ahead, StreamProofs!TickersTyped
    <3> QED
      BY <3>2 DEF Prices!Next, Prices!Around
  <2>2. ASSUME NEW y \in Symbol, StreamProofs!Publish(y)
        PROVE  Prices!Next /\ Linked'
    <3>1. tick[y] < MaxTick /\ tick' = [tick EXCEPT ![y] = @ + 1] /\ UNCHANGED streamed
      BY <2>2 DEF StreamProofs!Publish
    <3>2. UNCHANGED <<cache, source, stale>> /\ Linked'
      BY <1>1, <3>1, CacheKept DEF StreamStep
    <3>3. Prices!Move(y)
      BY <1>1, <3>1, <3>2 DEF StreamStep, priceVars, Prices!Move
    <3> QED
      BY <3>2, <3>3 DEF Prices!Next, Prices!Around
  <2>3. CASE UNCHANGED <<tick, streamed>>
    BY <1>1, <2>3, CacheKept DEF StreamStep, priceVars, Prices!vars
  <2> QED
    BY <1>1, <2>1, <2>2, <2>3, StreamCases DEF StreamStep
<1>2. CASE PriceStep \/ Expiry
  BY <1>2, PriceStepLinked DEF PriceStep, Expiry, Prices!Next, Prices!Around
<1>3. CASE UNCHANGED vars
  BY <1>3 DEF vars, streamVars, priceVars, cacheVars, Linked, Prices!vars
<1> QED
  BY <1>1, <1>2, <1>3 DEF Next

\* PricesImplemented: the market service is a price service. What the real stream
\* writes into the shared cache, across reconnects and lost tickers, is what
\* PriceService takes a stream to write, so all that is proved of it holds here.
THEOREM ImplementsPrices == Spec => PricesImplemented
<1>1. Init => Ahead /\ Linked /\ Prices!Init
  <2>1. ASSUME Init PROVE Linked
    BY <2>1 DEF Init, Prices!Init, Linked
  <2>2. ASSUME Init PROVE Ahead
    BY <2>2, ServiceAssumption DEF Init, Stream!Init, Ahead, StreamProofs!TickersTyped,
       StreamProofs!TickersAhead
  <2> QED
    BY <2>1, <2>2 DEF Init
<1>2. Ahead /\ Linked /\ [Next]_vars => (Ahead /\ Linked)' /\ [Prices!Next]_(Prices!vars)
  BY AheadKept, PricesSimulated
<1> QED
  BY <1>1, <1>2, PTL DEF Spec, PricesImplemented, Prices!Spec

-----------------------------------------------------------------------------
(* What is proved of each component holds of the service *)

PriceProofs == INSTANCE PriceService_proofs

\* The stream that the proofs are about is the stream of this module.
LEMMA SameStream == Stream!Spec => StreamProofs!Spec
<1>1. Stream!Init => StreamProofs!Init
  BY DEF Stream!Init, StreamProofs!Init
<1>2. Stream!vars = StreamProofs!vars /\ Stream!vars' = StreamProofs!vars'
  BY DEF Stream!vars, Stream!client, Stream!registries, Stream!adapter, Stream!network,
     StreamProofs!vars, StreamProofs!client, StreamProofs!registries,
     StreamProofs!adapter, StreamProofs!network
<1>3. Stream!Next => StreamProofs!Next
  <2>1. \A method, ys : Stream!Send(method, ys) <=> StreamProofs!Send(method, ys)
    BY DEF Stream!Send, Stream!Frames, Stream!IsReady, Stream!SetToSeqs,
           Stream!Cardinality, StreamProofs!Send, StreamProofs!Frames,
           StreamProofs!IsReady, StreamProofs!SetToSeqs, StreamProofs!Cardinality
  <2>2. Stream!Binance => StreamProofs!Binance
    BY DEF Stream!Binance, Stream!Open, Stream!ConnectFails, Stream!Drop, Stream!Close,
           Stream!Reconnect, Stream!HandleFrame, Stream!HandleTicker, Stream!Publish,
           Stream!ScheduleReconnect, Stream!ResubscribeAll, Stream!Applied,
           Stream!Receivers, Stream!Subscribers, Stream!client, Stream!registries,
           Stream!adapter, Stream!network, StreamProofs!Binance, StreamProofs!Open,
           StreamProofs!ConnectFails, StreamProofs!Drop, StreamProofs!Close,
           StreamProofs!Reconnect, StreamProofs!HandleFrame, StreamProofs!HandleTicker,
           StreamProofs!Publish, StreamProofs!ScheduleReconnect,
           StreamProofs!ResubscribeAll, StreamProofs!Applied, StreamProofs!Receivers,
           StreamProofs!Subscribers, StreamProofs!client, StreamProofs!registries,
           StreamProofs!adapter, StreamProofs!network
  <2>3. \A s, gone : Stream!RemoveSocket(s, gone) <=> StreamProofs!RemoveSocket(s, gone)
    BY <2>1 DEF Stream!RemoveSocket, Stream!Subscribers, Stream!RefCount,
           StreamProofs!RemoveSocket, StreamProofs!Subscribers, StreamProofs!RefCount
  <2>4. \A s, names : Stream!Subscribe(s, names) => StreamProofs!Subscribe(s, names)
    BY <2>1 DEF Stream!Subscribe, Stream!Normalised, Stream!NewFor, Stream!Subscribers,
           Stream!Holds, Stream!RefCount, Stream!client, Stream!adapter,
           Stream!network, StreamProofs!Subscribe, StreamProofs!Normalised,
           StreamProofs!NewFor, StreamProofs!Subscribers, StreamProofs!Holds,
           StreamProofs!RefCount, StreamProofs!client, StreamProofs!adapter,
           StreamProofs!network
  <2>5. \A s, names : Stream!Unsubscribe(s, names) => StreamProofs!Unsubscribe(s, names)
    BY <2>3 DEF Stream!Unsubscribe, Stream!Normalised, Stream!HeldBy, Stream!Subscribers,
           Stream!Holds, Stream!client, Stream!adapter, Stream!network,
           StreamProofs!Unsubscribe, StreamProofs!Normalised, StreamProofs!HeldBy,
           StreamProofs!Subscribers, StreamProofs!Holds, StreamProofs!client,
           StreamProofs!adapter, StreamProofs!network
  <2>6. \A s : Stream!Disconnect(s) => StreamProofs!Disconnect(s)
    BY <2>3 DEF Stream!Disconnect, Stream!HeldBy, Stream!Subscribers, Stream!Holds,
           Stream!client, Stream!adapter, Stream!network, StreamProofs!Disconnect,
           StreamProofs!HeldBy, StreamProofs!Subscribers, StreamProofs!Holds,
           StreamProofs!client, StreamProofs!adapter, StreamProofs!network
  <2>7. Stream!Connect => StreamProofs!Connect
    BY DEF Stream!Connect, Stream!SocketId, Stream!registries, Stream!client,
           Stream!adapter, Stream!network, StreamProofs!Connect,
           StreamProofs!SocketId, StreamProofs!registries, StreamProofs!client,
           StreamProofs!adapter, StreamProofs!network
  <2>8. \A s : Stream!StartClose(s) => StreamProofs!StartClose(s)
    BY DEF Stream!StartClose, Stream!registries, Stream!client, Stream!adapter,
           Stream!network, StreamProofs!StartClose, StreamProofs!registries,
           StreamProofs!client, StreamProofs!adapter, StreamProofs!network
  <2>9. Stream!Clients => StreamProofs!Clients
    BY <2>4, <2>5, <2>6, <2>7, <2>8 DEF Stream!Clients, StreamProofs!Clients
  <2> QED
    BY <2>2, <2>9 DEF Stream!Next, StreamProofs!Next
<1>4. [Stream!Next]_(Stream!vars) => [StreamProofs!Next]_(StreamProofs!vars)
  BY <1>2, <1>3
<1> QED
  BY <1>1, <1>4, PTL DEF Stream!Spec, StreamProofs!Spec

\* So is the price service.
LEMMA SamePrices == Prices!Spec => PriceProofs!Spec
<1>1. Prices!Init => PriceProofs!Init
  BY DEF Prices!Init, PriceProofs!Init
<1>2. Prices!vars = PriceProofs!vars /\ Prices!vars' = PriceProofs!vars'
  BY DEF Prices!vars, PriceProofs!vars
<1>3. Prices!Next => PriceProofs!Next
  BY DEF Prices!Next, Prices!Serving, Prices!Answering, Prices!Around, Prices!Serve,
     Prices!Compute, Prices!Complete, Prices!Fail, Prices!Move, Prices!Expire,
     Prices!StreamWrites, Prices!Called, Prices!Missing, Prices!Refreshed,
     Prices!Settled, Prices!Release, PriceProofs!Next, PriceProofs!Serving,
     PriceProofs!Answering, PriceProofs!Around, PriceProofs!Serve, PriceProofs!Compute,
     PriceProofs!Complete, PriceProofs!Fail, PriceProofs!Move, PriceProofs!Expire,
     PriceProofs!StreamWrites, PriceProofs!Called, PriceProofs!Missing,
     PriceProofs!Refreshed, PriceProofs!Settled, PriceProofs!Release
<1>4. [Prices!Next]_(Prices!vars) => [PriceProofs!Next]_(PriceProofs!vars)
  BY <1>2, <1>3
<1> QED
  BY <1>1, <1>4, PTL DEF Prices!Spec, PriceProofs!Spec

\* In the service as a whole the registries agree, Binance streams what clients hold
\* once it has read the frames under way, and tickers are sent in order, whatever
\* GET /prices does.
THEOREM StreamHolds ==
  Spec => /\ [](Stream!RefCounts /\ Stream!Mirrored /\ Stream!UpstreamAgrees)
          /\ Stream!SentInOrder
<1>1. StreamProofs!UpperAssumption /\ StreamProofs!SymbolAssumption
      /\ StreamProofs!BoundAssumption
  BY ComponentAssumptions
<1>2. /\ StreamProofs!RefCounts => Stream!RefCounts
      /\ StreamProofs!Mirrored => Stream!Mirrored
  BY DEF Stream!RefCounts, Stream!Mirrored, Stream!Subscribers, Stream!Holds,
     Stream!SocketId, Stream!Cardinality, StreamProofs!RefCounts,
     StreamProofs!Mirrored, StreamProofs!Subscribers, StreamProofs!Holds,
     StreamProofs!SocketId, StreamProofs!Cardinality
<1>3. StreamProofs!UpstreamAgrees => Stream!UpstreamAgrees
  BY DEF Stream!UpstreamAgrees, Stream!IsReady, Stream!WillStream, Stream!KeptFrom,
     StreamProofs!UpstreamAgrees, StreamProofs!IsReady, StreamProofs!WillStream,
     StreamProofs!KeptFrom
<1>4. [\A m \in sent' : m.symbol \in StreamProofs!Holds(m.socket)
                       /\ m.tick > streamed[m.symbol]]_(StreamProofs!vars)
      => [\A m \in sent' : m.symbol \in Stream!Holds(m.socket)
                          /\ m.tick > streamed[m.symbol]]_(Stream!vars)
  BY DEF Stream!vars, Stream!client, Stream!registries, Stream!adapter, Stream!network,
     Stream!Holds, StreamProofs!vars, StreamProofs!client, StreamProofs!registries,
     StreamProofs!adapter, StreamProofs!network, StreamProofs!Holds
<1>5. StreamProofs!Spec => /\ [](StreamProofs!RefCounts /\ StreamProofs!Mirrored)
                           /\ []StreamProofs!UpstreamAgrees /\ StreamProofs!SentInOrder
  BY <1>1, StreamProofs!RefCountsHold, StreamProofs!MirroredHolds,
     StreamProofs!UpstreamAgreesHolds, StreamProofs!SentInOrderHolds, PTL
<1> QED
  BY <1>2, <1>3, <1>4, <1>5, SameStream, ImplementsStream, PTL
     DEF Stream!SentInOrder, StreamProofs!SentInOrder

\* In the service as a whole no two REST calls for a symbol last at a time, nobody
\* waits for one that is not there, and a price goes back only between the two
\* paths, with the real stream as the second writer of the cache.
THEOREM PricesHold ==
  Spec => []Prices!InFlightAgrees /\ Prices!BackOnlyBetweenPaths
<1>1. PriceProofs!TickAssumption
  BY ServiceAssumption DEF PriceProofs!TickAssumption
<1>2. PriceProofs!InFlightAgrees => Prices!InFlightAgrees
  BY DEF Prices!InFlightAgrees, PriceProofs!InFlightAgrees
<1>3. Prices!vars = PriceProofs!vars /\ Prices!vars' = PriceProofs!vars'
  BY DEF Prices!vars, PriceProofs!vars
<1>4. [\A y \in Symbol : cache'[y] < cache[y] => source'[y] # source[y]]_(PriceProofs!vars)
      => [\A y \in Symbol : cache'[y] < cache[y] => source'[y] # source[y]]_(Prices!vars)
  BY <1>3
<1>5. PriceProofs!Spec => []PriceProofs!InFlightAgrees /\ PriceProofs!BackOnlyBetweenPaths
  BY <1>1, PriceProofs!InFlightAgreesHolds, PriceProofs!BackOnlyBetweenPathsHolds, PTL
<1> QED
  BY <1>2, <1>4, <1>5, SamePrices, ImplementsPrices, PTL
     DEF PricesImplemented, Prices!BackOnlyBetweenPaths, PriceProofs!BackOnlyBetweenPaths
=============================================================================
