---------------------------- MODULE MarketStream ----------------------------
(***************************************************************************)
(* The real-time side of the market service: client sockets subscribe to   *)
(* symbols (WebSocketGateway), the symbols somebody wants are subscribed   *)
(* at Binance (MarketStreamManager), over one connection that is replaced  *)
(* when it closes (BinanceWsAdapter), and the tickers that come back go to *)
(* the cache and to the subscribers.                                       *)
(*                                                                         *)
(* Node runs one handler at a time, so a handler is one action. What       *)
(* happens on the network between two handlers is the state of the         *)
(* connection: the frames under way to Binance, the tickers under way to   *)
(* the service, and what Binance has subscribed.                           *)
(***************************************************************************)
EXTENDS Naturals, FiniteSets, SequencesExt

CONSTANTS
  Spelling,      \* the symbol names that clients send
  Symbol,        \* the same in upper case, as the registries and Binance know them
  Upper,         \* Upper[x]: x.toUpperCase()
  RetryMayFail,  \* can an attempt to reconnect fail?
  MaxSockets,    \* bound: client sockets that ever connect
  MaxTick,       \* bound: tickers that Binance computes per symbol
  MaxFrames,     \* bound: frames under way to Binance when a client is served
  MaxTickers,    \* bound: tickers under way to the service
  MaxDrops       \* bound: connections to Binance that are lost

ASSUME UpperAssumption == Upper \in [Spelling -> Symbol]

\* An exchange lists finitely many symbols.
ASSUME SymbolAssumption == IsFiniteSet(Symbol)

ASSUME BoundAssumption ==
  /\ MaxSockets \in Nat /\ MaxTick \in Nat \ {0} /\ MaxFrames \in Nat
  /\ MaxTickers \in Nat /\ MaxDrops \in Nat /\ RetryMayFail \in BOOLEAN

VARIABLES
  sockets,             \* WebSocketGateway: ids of the client sockets it knows
  nextSocketId,        \* WebSocketGateway: the next id, never used twice
  closing,             \* sockets no longer OPEN whose close event is to come
  symbolRegistry,      \* symbol -> its subscribers and their number
  connectionRegistry,  \* socket -> the symbols it holds
  activeSymbols,       \* BinanceWsAdapter: the symbols to subscribe at Binance
  ws,                  \* readyState of the connection to Binance
  reconnecting,        \* BinanceWsAdapter: a reconnect is on its way
  timer,               \* the 3 s timer of _scheduleReconnect is pending
  frames,              \* SUBSCRIBE and UNSUBSCRIBE frames on the connection
  upstream,            \* symbols that Binance streams on the connection
  tickers,             \* tickers on the connection, not yet handled
  tick,                \* tick[y]: event time of Binance's newest ticker of y
  cache,               \* cache[y]: event time of the ticker it cached for y, 0 if none
  sent,                \* the tickers that the last step sent to clients
  drops                \* connections lost so far

client == <<sockets, nextSocketId, closing>>
registries == <<symbolRegistry, connectionRegistry, activeSymbols>>
adapter == <<ws, reconnecting, timer>>
network == <<frames, upstream, tickers, tick, drops>>
vars == <<client, registries, adapter, network, cache, sent>>

SocketId == 1 .. MaxSockets

Entry == [subscribers : SUBSET SocketId, refCount : Nat]

Frame == [method : {"SUBSCRIBE", "UNSUBSCRIBE"}, symbols : SUBSET Symbol]

Ticker == [symbol : Symbol, tick : 1 .. MaxTick]

-----------------------------------------------------------------------------
(* The connection to Binance *)

IsReady == ws = "OPEN"

\* One frame for each symbol of ys, in the order of the client's list.
Frames(method, ys) ==
  {[i \in DOMAIN q |-> [method |-> method, symbols |-> {q[i]}]] : q \in SetToSeqs(ys)}

\* Mutated form: only the open handler sends anything.
SendNothing(method, ys) == frames' = frames

\* The sends of the adapter's subscribe and unsubscribe: nothing unless ready.
Send(method, ys) ==
  IF IsReady THEN \E fs \in Frames(method, ys) : frames' = frames \o fs
  ELSE frames' = frames

\* _scheduleReconnect: at most one timer, and none while an attempt it started
\* has not opened.
ScheduleReconnect ==
  /\ reconnecting' = TRUE
  /\ timer' = (timer \/ ~reconnecting)

\* Mutated form: the open handler does not resubscribe.
ResubscribeNothing == <<>>

\* _resubscribeAll: one frame with every active symbol.
ResubscribeAll ==
  IF activeSymbols = {} THEN <<>>
  ELSE <<[method |-> "SUBSCRIBE", symbols |-> activeSymbols]>>

\* 'open'.
Open ==
  /\ ws = "CONNECTING" /\ ws' = "OPEN"
  /\ reconnecting' = FALSE
  /\ frames' = ResubscribeAll
  /\ sent' = {}
  /\ UNCHANGED <<client, registries, timer, upstream, tickers, tick, drops, cache>>

\* 'error' and 'close' of an attempt that fails.
ConnectFails ==
  /\ ws = "CONNECTING" /\ (reconnecting => RetryMayFail)
  /\ drops < MaxDrops /\ drops' = drops + 1
  /\ ws' = "CLOSED"
  /\ ScheduleReconnect
  /\ sent' = {}
  /\ UNCHANGED <<client, registries, frames, upstream, tickers, tick, cache>>

\* The connection is lost: from here on nothing is sent any more.
Drop ==
  /\ ws = "OPEN" /\ ws' = "CLOSING"
  /\ drops < MaxDrops /\ drops' = drops + 1
  /\ frames' = <<>> /\ upstream' = {}
  /\ sent' = {}
  /\ UNCHANGED <<client, registries, reconnecting, timer, tickers, tick, cache>>

\* 'close'. Tickers not handled by now are lost.
Close ==
  /\ ws = "CLOSING" /\ ws' = "CLOSED"
  /\ tickers' = <<>>
  /\ ScheduleReconnect
  /\ sent' = {}
  /\ UNCHANGED <<client, registries, frames, upstream, tick, drops, cache>>

\* The timer fires: _connect.
Reconnect ==
  /\ timer /\ timer' = FALSE
  /\ ws' = "CONNECTING"
  /\ sent' = {}
  /\ UNCHANGED <<client, registries, reconnecting, network, cache>>

-----------------------------------------------------------------------------
(* Binance, as the adapter uses it *)

Applied(subscribed, f) ==
  IF f.method = "SUBSCRIBE" THEN subscribed \cup f.symbols
  ELSE subscribed \ f.symbols

HandleFrame ==
  /\ ws = "OPEN" /\ frames # <<>>
  /\ upstream' = Applied(upstream, Head(frames))
  /\ frames' = Tail(frames)
  /\ sent' = {}
  /\ UNCHANGED <<client, registries, adapter, tickers, tick, drops, cache>>

\* Binance computes a ticker of y, and sends it if it streams y.
Publish(y) ==
  /\ tick[y] < MaxTick /\ tick' = [tick EXCEPT ![y] = @ + 1]
  /\ IF ws = "OPEN" /\ y \in upstream
     THEN /\ Len(tickers) < MaxTickers
          /\ tickers' = Append(tickers, [symbol |-> y, tick |-> tick'[y]])
     ELSE UNCHANGED tickers
  /\ sent' = {}
  /\ UNCHANGED <<client, registries, adapter, frames, upstream, drops, cache>>

-----------------------------------------------------------------------------
(* Clients *)

Subscribers(y) ==
  IF y \in DOMAIN symbolRegistry THEN symbolRegistry[y].subscribers ELSE {}
RefCount(y) ==
  IF y \in DOMAIN symbolRegistry THEN symbolRegistry[y].refCount ELSE 0
Holds(s) ==
  IF s \in DOMAIN connectionRegistry THEN connectionRegistry[s] ELSE {}

\* 'connection'.
Connect ==
  /\ nextSocketId <= MaxSockets
  /\ sockets' = sockets \cup {nextSocketId}
  /\ nextSocketId' = nextSocketId + 1
  /\ sent' = {}
  /\ UNCHANGED <<closing, registries, adapter, network, cache>>

\* The client's socket starts to close; its close event, and messages it has
\* already received, are still to come.
StartClose(s) ==
  /\ s \in sockets \ closing
  /\ closing' = closing \cup {s}
  /\ sent' = {}
  /\ UNCHANGED <<sockets, nextSocketId, registries, adapter, network, cache>>

\* Mutated form: subscribe and unsubscribe take the names as they come.
AsGiven(names) == names

\* The symbols that a list of names stands for.
Normalised(names) == {Upper[x] : x \in names}

\* Mutated form: _subscribeOne does not look for the socket among the
\* subscribers.
NewForAny(s, ys) == ys

\* The symbols of a message that s does not hold yet: a symbol that it holds, or
\* that an earlier item of the list has just added, changes nothing.
NewFor(s, ys) == {y \in ys : s \notin Subscribers(y)}

\* _handleMessage and MarketStreamManager.subscribe for the whole list of a message.
Subscribe(s, names) ==
  LET new == NewFor(s, Normalised(names))
      opened == new \ DOMAIN symbolRegistry IN
  /\ s \in sockets /\ Len(frames) < MaxFrames
  /\ symbolRegistry' = [y \in DOMAIN symbolRegistry \cup new |->
       IF y \in new
       THEN [subscribers |-> Subscribers(y) \cup {s}, refCount |-> RefCount(y) + 1]
       ELSE symbolRegistry[y]]
  /\ connectionRegistry' =
       IF new = {} THEN connectionRegistry
       ELSE [t \in DOMAIN connectionRegistry \cup {s} |->
               IF t = s THEN Holds(s) \cup new ELSE connectionRegistry[t]]
  /\ activeSymbols' = activeSymbols \cup opened
  /\ Send("SUBSCRIBE", opened)
  /\ sent' = {}
  /\ UNCHANGED <<client, adapter, upstream, tickers, tick, drops, cache>>

\* Mutated form: _removeSocketFromSymbol does not look for the socket among the
\* subscribers.
HeldByAny(s, ys) == ys \cap DOMAIN symbolRegistry

\* The symbols of a list that s holds.
HeldBy(s, ys) == {y \in ys : s \in Subscribers(y)}

\* _removeSocketFromSymbol for each of gone: the last subscriber of a symbol
\* takes the subscription at Binance with it.
RemoveSocket(s, gone) ==
  LET ended == {y \in gone : RefCount(y) - 1 = 0} IN
  /\ symbolRegistry' = [y \in DOMAIN symbolRegistry \ ended |->
       IF y \in gone
       THEN [subscribers |-> Subscribers(y) \ {s}, refCount |-> RefCount(y) - 1]
       ELSE symbolRegistry[y]]
  /\ activeSymbols' = activeSymbols \ ended
  /\ Send("UNSUBSCRIBE", ended)
  /\ sent' = {}

\* _handleMessage and MarketStreamManager.unsubscribe for the whole list of a message.
Unsubscribe(s, names) ==
  LET gone == HeldBy(s, Normalised(names))
      left == Holds(s) \ gone IN
  /\ s \in sockets /\ Len(frames) < MaxFrames
  /\ RemoveSocket(s, gone)
  /\ connectionRegistry' =
       IF left = {}
       THEN [t \in DOMAIN connectionRegistry \ {s} |-> connectionRegistry[t]]
       ELSE [connectionRegistry EXCEPT ![s] = left]
  /\ UNCHANGED <<client, adapter, upstream, tickers, tick, drops, cache>>

\* 'close' of a client socket: MarketStreamManager.disconnect, then the gateway
\* forgets the socket.
Disconnect(s) ==
  /\ s \in closing
  /\ RemoveSocket(s, HeldBy(s, Holds(s)))
  /\ connectionRegistry' =
       [t \in DOMAIN connectionRegistry \ {s} |-> connectionRegistry[t]]
  /\ sockets' = sockets \ {s} /\ closing' = closing \ {s}
  /\ UNCHANGED <<nextSocketId, adapter, upstream, tickers, tick, drops, cache>>

\* Mutated form: every connected socket is sent every ticker.
ReceiversAll(y) == sockets \ closing

\* The sockets a ticker is sent to: subscribed, known to the gateway and OPEN.
Receivers(y) == (Subscribers(y) \cap sockets) \ closing

\* _handleMessage of the adapter and _handleIncomingTicker.
HandleTicker ==
  /\ ws \in {"OPEN", "CLOSING"} /\ tickers # <<>>
  /\ LET t == Head(tickers) IN
       /\ cache' = [cache EXCEPT ![t.symbol] = t.tick]
       /\ sent' = {[socket |-> s, symbol |-> t.symbol, tick |-> t.tick] :
                     s \in Receivers(t.symbol)}
  /\ tickers' = Tail(tickers)
  /\ UNCHANGED <<client, registries, adapter, frames, upstream, tick, drops>>

-----------------------------------------------------------------------------
(* The specification *)

\* After bootstrap: no client yet, the first connection attempt under way.
Init ==
  /\ sockets = {} /\ nextSocketId = 1 /\ closing = {}
  /\ symbolRegistry = <<>> /\ connectionRegistry = <<>> /\ activeSymbols = {}
  /\ ws = "CONNECTING" /\ reconnecting = FALSE /\ timer = FALSE
  /\ frames = <<>> /\ upstream = {} /\ tickers = <<>> /\ drops = 0
  /\ tick = [y \in Symbol |-> 1] /\ cache = [y \in Symbol |-> 0]
  /\ sent = {}

Clients ==
  \/ Connect
  \/ \E s \in sockets :
       \/ StartClose(s) \/ Disconnect(s)
       \/ \E names \in SUBSET Spelling : Subscribe(s, names) \/ Unsubscribe(s, names)

Binance ==
  \/ Open \/ ConnectFails \/ Drop \/ Close \/ Reconnect
  \/ HandleFrame \/ HandleTicker \/ \E y \in Symbol : Publish(y)

Next == Clients \/ Binance

Spec == Init /\ [][Next]_vars

\* The event loop delivers close events and timers, the network answers a
\* connection attempt, and Binance reads the frames it gets.
Fairness ==
  /\ WF_vars(Open) /\ WF_vars(Close) /\ WF_vars(Reconnect) /\ WF_vars(HandleFrame)

FairSpec == Spec /\ Fairness

-----------------------------------------------------------------------------
(* Properties *)

\* The variables stay in their types.
TypeOK ==
  /\ sockets \subseteq SocketId /\ closing \subseteq sockets
  /\ nextSocketId \in 1 .. MaxSockets + 1
  /\ DOMAIN symbolRegistry \subseteq Symbol
  /\ symbolRegistry \in [DOMAIN symbolRegistry -> Entry]
  /\ DOMAIN connectionRegistry \subseteq SocketId
  /\ connectionRegistry \in [DOMAIN connectionRegistry -> SUBSET Symbol]
  /\ activeSymbols \subseteq Symbol
  /\ ws \in {"CONNECTING", "OPEN", "CLOSING", "CLOSED"}
  /\ reconnecting \in BOOLEAN /\ timer \in BOOLEAN
  /\ frames \in Seq(Frame) /\ upstream \subseteq Symbol
  /\ tickers \in Seq(Ticker) /\ drops \in Nat
  /\ tick \in [Symbol -> 1 .. MaxTick] /\ cache \in [Symbol -> 0 .. MaxTick]
  /\ sent \subseteq [socket : SocketId, symbol : Symbol, tick : 1 .. MaxTick]

\* The reference count of a symbol is the number of its subscribers, and the
\* symbols that are counted are the ones the adapter keeps subscribed, whatever
\* repeated, overlapping or unmatched subscribe, unsubscribe and close events
\* the sockets send.
RefCounts ==
  /\ activeSymbols = DOMAIN symbolRegistry
  /\ \A y \in DOMAIN symbolRegistry :
       /\ symbolRegistry[y].refCount = Cardinality(symbolRegistry[y].subscribers)
       /\ symbolRegistry[y].subscribers # {}

\* The two registries are each other's inverse, and hold no socket that the
\* gateway has forgotten.
Mirrored ==
  /\ DOMAIN connectionRegistry \subseteq sockets
  /\ \A s \in DOMAIN connectionRegistry : connectionRegistry[s] # {}
  /\ \A s \in SocketId, y \in Symbol : s \in Subscribers(y) <=> y \in Holds(s)

\* No frame from the i-th on unsubscribes y.
KeptFrom(y, i) == \A j \in DOMAIN frames :
  j >= i /\ y \in frames[j].symbols => frames[j].method = "SUBSCRIBE"

\* Binance streams y once it has read the frames under way: after y was last
\* subscribed no frame unsubscribes it.
WillStream(y) ==
  \/ y \in upstream /\ KeptFrom(y, 1)
  \/ \E i \in DOMAIN frames : y \in frames[i].symbols /\ KeptFrom(y, i)

\* Once Binance has read the frames under way it streams exactly the symbols
\* that some client holds, across lost connections and whatever was subscribed
\* or dropped while none was open.
UpstreamAgrees ==
  IsReady => activeSymbols = {y \in Symbol : WillStream(y)}

\* A client is sent only tickers of symbols it holds, each newer than every
\* ticker of its symbol that the stream has brought before, also after a
\* reconnect.
SentInOrder ==
  [][\A m \in sent' : m.symbol \in Holds(m.socket) /\ m.tick > cache[m.symbol]]_vars

\* What clients see is a set of subscriptions, each client's own, and tickers of
\* what it holds: the counts and the two registries are that set's bookkeeping.
Subs == INSTANCE Subscriptions WITH
  Client <- SocketId, Time <- 1 .. MaxTick, wanted <- activeSymbols,
  held <- UNION {Subscribers(y) \X {y} : y \in DOMAIN symbolRegistry}
SubscriptionsImplemented == Subs!Spec

\* A symbol that clients go on holding is streamed by Binance in the end.
HeldIsStreamed ==
  \A y \in Symbol : y \in activeSymbols ~> (y \in upstream \/ y \notin activeSymbols)
=============================================================================
