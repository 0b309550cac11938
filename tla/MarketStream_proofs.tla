------------------------ MODULE MarketStream_proofs ------------------------
(***************************************************************************)
(* Proofs that the registries of the market service stay consistent with   *)
(* each other and with the adapter, for any number of sockets and symbols, *)
(* that what Binance streams agrees with what the adapter keeps active,    *)
(* through lost connections and whatever frames are under way, and that    *)
(* what clients see is the abstract set of subscriptions.                  *)
(***************************************************************************)
EXTENDS MarketStream, FiniteSetTheorems, TLAPS

\* The three parts are inductive together.
Inv == TypeOK /\ RefCounts /\ Mirrored

\* Sets of sockets and of symbols are finite, and can be counted.
LEMMA FiniteSides ==
  /\ \A S \in SUBSET SocketId : IsFiniteSet(S) /\ Cardinality(S) \in Nat
  /\ \A Y \in SUBSET Symbol : IsFiniteSet(Y) /\ Cardinality(Y) \in Nat
<1>1. IsFiniteSet(SocketId)
  BY FS_Interval, BoundAssumption DEF SocketId
<1>2. ASSUME NEW S \in SUBSET SocketId PROVE IsFiniteSet(S)
  BY <1>1, FS_Subset
<1>3. ASSUME NEW Y \in SUBSET Symbol PROVE IsFiniteSet(Y)
  BY SymbolAssumption, FS_Subset
<1> QED
  BY <1>2, <1>3, FS_CardinalityType

\* What is sent to Binance is a sequence of frames.
LEMMA SendTyped ==
  ASSUME frames \in Seq(Frame), NEW ys \in SUBSET Symbol,
         NEW method \in {"SUBSCRIBE", "UNSUBSCRIBE"}, Send(method, ys)
  PROVE  frames' \in Seq(Frame)
<1>1. ASSUME NEW fs \in Frames(method, ys) PROVE fs \in Seq(Frame)
  <2>1. PICK q \in SetToSeqs(ys) :
          fs = [i \in DOMAIN q |-> [method |-> method, symbols |-> {q[i]}]]
    BY DEF Frames
  <2>2. q \in [1 .. Cardinality(ys) -> ys] /\ Cardinality(ys) \in Nat
    BY <2>1, FiniteSides DEF SetToSeqs
  <2>3. fs \in [1 .. Cardinality(ys) -> Frame]
    BY <2>1, <2>2 DEF Frame
  <2> QED
    BY <2>2, <2>3
<1>2. CASE IsReady
  <2>1. PICK fs \in Frames(method, ys) : frames' = frames \o fs
    BY <1>2 DEF Send
  <2>2. fs \in Seq(Frame)
    BY <1>1, <2>1
  <2> QED
    BY <2>1, <2>2
<1>3. CASE ~IsReady
  BY <1>3 DEF Send
<1> QED
  BY <1>2, <1>3

\* A step that leaves the registries alone and forgets no socket.
LEMMA QuietInv ==
  ASSUME Inv, TypeOK', UNCHANGED registries, sockets \subseteq sockets'
  PROVE  Inv'
BY DEF Inv, registries, RefCounts, Mirrored, Subscribers, Holds

\* The initial state: nobody is connected.
LEMMA InitInv == Init => Inv
<1> SUFFICES ASSUME Init PROVE Inv
  OBVIOUS
<1>2. /\ DOMAIN symbolRegistry = {} /\ DOMAIN connectionRegistry = {}
      /\ symbolRegistry = [y \in {} |-> 0] /\ connectionRegistry = [y \in {} |-> 0]
  BY DEF Init
<1>1. TypeOK
  <2>1. /\ symbolRegistry \in [DOMAIN symbolRegistry -> Entry]
        /\ connectionRegistry \in [DOMAIN connectionRegistry -> SUBSET Symbol]
    BY <1>2
  <2>2. frames \in Seq(Frame) /\ tickers \in Seq(Ticker)
    BY DEF Init
  <2>3. nextSocketId \in 1 .. MaxSockets + 1
    BY BoundAssumption DEF Init
  <2>4. /\ tick \in [Symbol -> 1 .. MaxTick] /\ cache \in [Symbol -> 0 .. MaxTick]
    BY BoundAssumption DEF Init
  <2> QED
    BY <1>2, <2>1, <2>2, <2>3, <2>4 DEF Init, TypeOK
<1>3. RefCounts /\ Mirrored
  BY <1>2 DEF Init, RefCounts, Mirrored, Subscribers, Holds
<1> QED
  BY <1>1, <1>3 DEF Inv

\* The steps of the connection to Binance, and a new client.
LEMMA NetworkInv ==
  ASSUME Inv, Binance \/ Connect \/ \E s \in sockets : StartClose(s)
  PROVE  Inv'
<1>1. TypeOK
  BY DEF Inv
<1>2. CASE Open
  <2>1. [method |-> "SUBSCRIBE", symbols |-> activeSymbols] \in Frame
    BY <1>1 DEF Frame, TypeOK
  <2>2. ResubscribeAll \in Seq(Frame)
    BY <2>1 DEF ResubscribeAll
  <2> QED
    BY <1>1, <1>2, <2>2, QuietInv DEF Open, TypeOK, client, registries
<1>3. CASE ConnectFails
  BY <1>1, <1>3, QuietInv
     DEF ConnectFails, ScheduleReconnect, TypeOK, client, registries
<1>4. CASE Drop
  BY <1>1, <1>4, QuietInv DEF Drop, TypeOK, client, registries
<1>5. CASE Close
  BY <1>1, <1>5, QuietInv DEF Close, ScheduleReconnect, TypeOK, client, registries
<1>6. CASE Reconnect
  BY <1>1, <1>6, QuietInv DEF Reconnect, TypeOK, client, registries, network
<1>7. CASE HandleFrame
  <2>1. Head(frames) \in Frame /\ Tail(frames) \in Seq(Frame)
    BY <1>1, <1>7 DEF HandleFrame, TypeOK
  <2>2. upstream' \subseteq Symbol
    BY <1>1, <1>7, <2>1 DEF HandleFrame, Applied, Frame, TypeOK
  <2> QED
    BY <1>1, <1>7, <2>1, <2>2, QuietInv
       DEF HandleFrame, TypeOK, client, registries, adapter
<1>8. CASE HandleTicker
  <2>1. Head(tickers) \in Ticker /\ Tail(tickers) \in Seq(Ticker)
    BY <1>1, <1>8 DEF HandleTicker, TypeOK
  <2>2. cache' \in [Symbol -> 0 .. MaxTick]
    <3>1. /\ Head(tickers).symbol \in Symbol /\ Head(tickers).tick \in 0 .. MaxTick
      BY <2>1, BoundAssumption DEF Ticker
    <3> QED
      BY <1>1, <1>8, <3>1 DEF HandleTicker, TypeOK
  <2>3. sent' \subseteq [socket : SocketId, symbol : Symbol, tick : 1 .. MaxTick]
    BY <1>1, <1>8, <2>1 DEF HandleTicker, Receivers, Ticker, TypeOK
  <2> QED
    BY <1>1, <1>8, <2>1, <2>2, <2>3, QuietInv
       DEF HandleTicker, TypeOK, client, registries, adapter
<1>9. ASSUME NEW y \in Symbol, Publish(y) PROVE Inv'
  <2>1. tick[y] + 1 \in 1 .. MaxTick
    BY <1>1, <1>9, BoundAssumption DEF Publish, TypeOK
  <2>2. tick' \in [Symbol -> 1 .. MaxTick] /\ tick'[y] = tick[y] + 1
    BY <1>1, <1>9, <2>1, BoundAssumption DEF Publish, TypeOK
  <2>3. tickers' \in Seq(Ticker)
    <3>1. [symbol |-> y, tick |-> tick'[y]] \in Ticker
      BY <2>1, <2>2 DEF Ticker
    <3>2. tickers' = tickers \/ tickers' = Append(tickers, [symbol |-> y, tick |-> tick'[y]])
      BY <1>9 DEF Publish
    <3>3. tickers \in Seq(Ticker)
      BY <1>1 DEF TypeOK
    <3> QED
      BY <3>1, <3>2, <3>3
  <2> QED
    BY <1>1, <1>9, <2>2, <2>3, QuietInv DEF Publish, TypeOK, client, registries, adapter
<1>10. CASE Connect
  <2>1. /\ sockets' \subseteq SocketId /\ sockets \subseteq sockets'
        /\ nextSocketId' \in 1 .. MaxSockets + 1
    BY <1>1, <1>10, BoundAssumption DEF Connect, TypeOK, SocketId
  <2> QED
    BY <1>1, <1>10, <2>1, QuietInv
       DEF Connect, TypeOK, registries, adapter, network
<1>11. ASSUME NEW s \in sockets, StartClose(s) PROVE Inv'
  BY <1>1, <1>11, QuietInv DEF StartClose, TypeOK, registries, adapter, network
<1> QED
  BY <1>2, <1>3, <1>4, <1>5, <1>6, <1>7, <1>8, <1>9, <1>10, <1>11 DEF Binance

\* What the registries say of one symbol and of one socket.
LEMMA Counted ==
  ASSUME Inv
  PROVE  /\ \A y : Subscribers(y) \in SUBSET SocketId
         /\ \A y : RefCount(y) = Cardinality(Subscribers(y)) /\ RefCount(y) \in Nat
         /\ \A t \in SocketId : Holds(t) \in SUBSET DOMAIN symbolRegistry
         /\ DOMAIN symbolRegistry \subseteq Symbol
<1>1. TypeOK /\ RefCounts /\ Mirrored
  BY DEF Inv
<1>2. \A y : Subscribers(y) \in SUBSET SocketId
  BY <1>1 DEF TypeOK, Subscribers, Entry
<1>3. ASSUME NEW y PROVE RefCount(y) = Cardinality(Subscribers(y))
  BY <1>1, FS_EmptySet DEF RefCounts, RefCount, Subscribers
<1>4. \A y : RefCount(y) \in Nat
  BY <1>2, <1>3, FiniteSides
<1>5. ASSUME NEW t \in SocketId, NEW y \in Holds(t) PROVE y \in DOMAIN symbolRegistry
  <2>1. y \in Symbol
    BY <1>1, <1>5 DEF TypeOK, Holds
  <2> QED
    BY <1>1, <1>5, <2>1 DEF Mirrored, Subscribers
<1> QED
  BY <1>1, <1>2, <1>3, <1>4, <1>5 DEF TypeOK

\* A subscription adds the socket once to each symbol it is new to, and counts it
\* there once.
LEMMA SubscribeInv ==
  ASSUME Inv, NEW s \in sockets, NEW names \in SUBSET Spelling, Subscribe(s, names)
  PROVE  Inv'
<1> DEFINE new == NewFor(s, Normalised(names))
           opened == new \ DOMAIN symbolRegistry
<1>1. TypeOK /\ RefCounts /\ Mirrored /\ s \in SocketId
  BY DEF Inv, TypeOK
<1>2. new \subseteq Symbol /\ \A y \in new : s \notin Subscribers(y)
  BY UpperAssumption DEF NewFor, Normalised
<1>3. /\ symbolRegistry' = [y \in DOMAIN symbolRegistry \cup new |->
           IF y \in new
           THEN [subscribers |-> Subscribers(y) \cup {s}, refCount |-> RefCount(y) + 1]
           ELSE symbolRegistry[y]]
      /\ connectionRegistry' =
           IF new = {} THEN connectionRegistry
           ELSE [t \in DOMAIN connectionRegistry \cup {s} |->
                   IF t = s THEN Holds(s) \cup new ELSE connectionRegistry[t]]
      /\ activeSymbols' = activeSymbols \cup opened
      /\ Send("SUBSCRIBE", opened) /\ sent' = {}
      /\ UNCHANGED <<client, adapter, upstream, tickers, tick, drops, cache>>
  BY DEF Subscribe
<1> HIDE DEF new
<1>4. /\ \A y : Subscribers(y)' = IF y \in new THEN Subscribers(y) \cup {s}
                                  ELSE Subscribers(y)
      /\ \A y \in new : symbolRegistry'[y].refCount = RefCount(y) + 1
      /\ \A y \in DOMAIN symbolRegistry \ new : symbolRegistry'[y] = symbolRegistry[y]
      /\ DOMAIN symbolRegistry' = DOMAIN symbolRegistry \cup new
  BY <1>3 DEF Subscribers
<1>5. \A t : Holds(t)' = IF t = s THEN Holds(s) \cup new ELSE Holds(t)
  BY <1>3 DEF Holds
<1>6. TypeOK'
  <2>1. symbolRegistry' \in [DOMAIN symbolRegistry' -> Entry]
    BY <1>1, <1>2, <1>3, Counted DEF TypeOK, Entry
  <2>2. /\ DOMAIN connectionRegistry' \subseteq SocketId
        /\ connectionRegistry' \in [DOMAIN connectionRegistry' -> SUBSET Symbol]
    BY <1>1, <1>2, <1>3 DEF TypeOK, Holds
  <2>3. frames' \in Seq(Frame)
    BY <1>1, <1>2, <1>3, SendTyped DEF TypeOK
  <2>4. DOMAIN symbolRegistry' \subseteq Symbol /\ activeSymbols' \subseteq Symbol
    BY <1>1, <1>2, <1>3 DEF TypeOK
  <2> QED
    BY <1>1, <1>3, <2>1, <2>2, <2>3, <2>4 DEF TypeOK, client, adapter
<1>7. RefCounts'
  <2>1. activeSymbols' = DOMAIN symbolRegistry'
    BY <1>1, <1>3 DEF RefCounts
  <2>2. ASSUME NEW y \in DOMAIN symbolRegistry'
        PROVE  /\ symbolRegistry'[y].refCount = Cardinality(symbolRegistry'[y].subscribers)
               /\ symbolRegistry'[y].subscribers # {}
    <3>1. CASE y \in new
      <4>1. /\ symbolRegistry'[y].subscribers = Subscribers(y) \cup {s}
            /\ symbolRegistry'[y].refCount = RefCount(y) + 1
        BY <1>3, <3>1
      <4>2. IsFiniteSet(Subscribers(y)) /\ RefCount(y) = Cardinality(Subscribers(y))
        BY Counted, FiniteSides
      <4>3. Cardinality(Subscribers(y) \cup {s}) = Cardinality(Subscribers(y)) + 1
        BY <1>2, <3>1, <4>2, FS_AddElement
      <4> QED
        BY <4>1, <4>2, <4>3
    <3>2. CASE y \notin new
      BY <1>1, <1>4, <3>2 DEF RefCounts
    <3> QED
      BY <3>1, <3>2
  <2> QED
    BY <2>1, <2>2 DEF RefCounts
<1>8. Mirrored'
  <2>1. DOMAIN connectionRegistry' \subseteq sockets'
    BY <1>1, <1>3 DEF Mirrored, client
  <2>2. \A t \in DOMAIN connectionRegistry' : connectionRegistry'[t] # {}
    BY <1>1, <1>3 DEF Mirrored
  <2>3. \A t \in SocketId, y \in Symbol : t \in Subscribers(y)' <=> y \in Holds(t)'
    BY <1>1, <1>4, <1>5 DEF Mirrored
  <2> QED
    BY <2>1, <2>2, <2>3 DEF Mirrored
<1> QED
  BY <1>6, <1>7, <1>8 DEF Inv

\* Taking a socket away from symbols that it holds keeps every count right and
\* leaves it with none of them.
LEMMA RemoveSocketInv ==
  ASSUME Inv, NEW s \in SocketId, NEW gone \in SUBSET Symbol, RemoveSocket(s, gone),
         \A y \in gone : s \in Subscribers(y)
  PROVE  /\ RefCounts' /\ frames' \in Seq(Frame) /\ sent' = {}
         /\ DOMAIN symbolRegistry' \subseteq Symbol
         /\ symbolRegistry' \in [DOMAIN symbolRegistry' -> Entry]
         /\ activeSymbols' \subseteq Symbol
         /\ \A y : Subscribers(y)' = IF y \in gone THEN Subscribers(y) \ {s}
                                     ELSE Subscribers(y)
<1> DEFINE ended == {y \in gone : RefCount(y) - 1 = 0}
<1>1. TypeOK /\ RefCounts
  BY DEF Inv
<1>2. /\ symbolRegistry' = [y \in DOMAIN symbolRegistry \ ended |->
           IF y \in gone
           THEN [subscribers |-> Subscribers(y) \ {s}, refCount |-> RefCount(y) - 1]
           ELSE symbolRegistry[y]]
      /\ activeSymbols' = activeSymbols \ ended
      /\ Send("UNSUBSCRIBE", ended) /\ sent' = {}
  BY DEF RemoveSocket
<1>3. ASSUME NEW y \in gone
      PROVE  /\ y \in DOMAIN symbolRegistry
             /\ Cardinality(Subscribers(y) \ {s}) = RefCount(y) - 1
             /\ RefCount(y) - 1 \in Nat
             /\ RefCount(y) - 1 = 0 <=> Subscribers(y) \ {s} = {}
  <2>1. s \in Subscribers(y) /\ y \in DOMAIN symbolRegistry
    BY DEF Subscribers
  <2>2. IsFiniteSet(Subscribers(y)) /\ RefCount(y) = Cardinality(Subscribers(y))
    BY Counted, FiniteSides
  <2>3. /\ IsFiniteSet(Subscribers(y) \ {s})
        /\ Cardinality(Subscribers(y) \ {s}) = RefCount(y) - 1
    <3> DEFINE S == Subscribers(y)
    <3>1. IsFiniteSet(S) /\ s \in S
      BY <2>1, <2>2
    <3> HIDE DEF S
    <3>2. IsFiniteSet(S \ {s}) /\ Cardinality(S \ {s}) = Cardinality(S) - 1
      BY <3>1, FS_RemoveElement
    <3> QED
      BY <2>2, <3>2 DEF S
  <2>4. Cardinality(Subscribers(y) \ {s}) \in Nat
    BY <2>3, FS_CardinalityType
  <2>5. Cardinality(Subscribers(y) \ {s}) = 0 <=> Subscribers(y) \ {s} = {}
    BY <2>3, FS_EmptySet
  <2> QED
    BY <2>1, <2>3, <2>4, <2>5
<1>4. ended \in SUBSET Symbol
  OBVIOUS
<1>5. \A y \in ended : y \in gone /\ Subscribers(y) \ {s} = {}
  BY <1>3
<1>6. \A y \in gone \ ended : Subscribers(y) \ {s} # {}
  BY <1>3
<1> HIDE DEF ended
<1>7. RefCounts'
  <2>1. activeSymbols' = DOMAIN symbolRegistry'
    BY <1>1, <1>2 DEF RefCounts
  <2>2. ASSUME NEW y \in DOMAIN symbolRegistry'
        PROVE  /\ symbolRegistry'[y].refCount = Cardinality(symbolRegistry'[y].subscribers)
               /\ symbolRegistry'[y].subscribers # {}
    BY <1>1, <1>2, <1>3, <1>6 DEF RefCounts
  <2> QED
    BY <2>1, <2>2 DEF RefCounts
<1>8. frames' \in Seq(Frame)
  BY <1>1, <1>2, <1>4, SendTyped DEF TypeOK
<1>9. /\ DOMAIN symbolRegistry' \subseteq Symbol /\ activeSymbols' \subseteq Symbol
      /\ symbolRegistry' \in [DOMAIN symbolRegistry' -> Entry]
  <2>1. ASSUME NEW y \in DOMAIN symbolRegistry' PROVE symbolRegistry'[y] \in Entry
    <3>1. CASE y \in gone
      BY <1>2, <1>3, <2>1, <3>1, Counted DEF Entry
    <3>2. CASE y \notin gone
      BY <1>1, <1>2, <2>1, <3>2 DEF TypeOK
    <3> QED
      BY <3>1, <3>2
  <2>2. symbolRegistry' = [y \in DOMAIN symbolRegistry' |-> symbolRegistry'[y]]
    BY <1>2
  <2> QED
    BY <1>1, <1>2, <2>1, <2>2 DEF TypeOK
<1>10. ASSUME NEW y
       PROVE Subscribers(y)' = IF y \in gone THEN Subscribers(y) \ {s} ELSE Subscribers(y)
  <2>1. CASE y \in ended
    BY <1>2, <1>5, <2>1 DEF Subscribers
  <2>2. CASE y \notin ended
    BY <1>2, <1>3, <2>2 DEF Subscribers
  <2> QED
    BY <2>1, <2>2
<1> QED
  BY <1>2, <1>7, <1>8, <1>9, <1>10

\* An unsubscription takes away what the socket holds of the list.
LEMMA UnsubscribeInv ==
  ASSUME Inv, NEW s \in sockets, NEW names \in SUBSET Spelling, Unsubscribe(s, names)
  PROVE  Inv'
<1> DEFINE gone == HeldBy(s, Normalised(names))
           left == Holds(s) \ gone
<1>1. TypeOK /\ RefCounts /\ Mirrored /\ s \in SocketId
  BY DEF Inv, TypeOK
<1>2. gone \in SUBSET Symbol /\ \A y \in gone : s \in Subscribers(y)
  BY UpperAssumption DEF HeldBy, Normalised
<1>3. /\ RemoveSocket(s, gone)
      /\ connectionRegistry' =
           IF left = {}
           THEN [t \in DOMAIN connectionRegistry \ {s} |-> connectionRegistry[t]]
           ELSE [connectionRegistry EXCEPT ![s] = left]
      /\ UNCHANGED <<client, adapter, upstream, tickers, tick, drops, cache>>
  BY DEF Unsubscribe
<1> HIDE DEF gone
<1>4. /\ RefCounts' /\ frames' \in Seq(Frame) /\ sent' = {}
      /\ DOMAIN symbolRegistry' \subseteq Symbol
      /\ symbolRegistry' \in [DOMAIN symbolRegistry' -> Entry]
      /\ activeSymbols' \subseteq Symbol
      /\ \A y : Subscribers(y)' = IF y \in gone THEN Subscribers(y) \ {s}
                                  ELSE Subscribers(y)
  BY <1>1, <1>2, <1>3, RemoveSocketInv
<1>5. left \subseteq Symbol /\ (left # {} => s \in DOMAIN connectionRegistry)
  BY <1>1 DEF TypeOK, Holds
<1>6. \A t : Holds(t)' = IF t = s THEN left ELSE Holds(t)
  BY <1>3, <1>5 DEF Holds
<1>7. TypeOK'
  <2>1. /\ DOMAIN connectionRegistry' \subseteq DOMAIN connectionRegistry
        /\ connectionRegistry' \in [DOMAIN connectionRegistry' -> SUBSET Symbol]
    BY <1>1, <1>3, <1>5 DEF TypeOK
  <2> QED
    BY <1>1, <1>3, <1>4, <2>1 DEF TypeOK, client, adapter
<1>8. Mirrored'
  <2>1. DOMAIN connectionRegistry' \subseteq sockets'
    BY <1>1, <1>3 DEF Mirrored, client
  <2>2. \A t \in DOMAIN connectionRegistry' : connectionRegistry'[t] # {}
    BY <1>1, <1>3 DEF Mirrored
  <2>3. \A t \in SocketId, y \in Symbol : t \in Subscribers(y)' <=> y \in Holds(t)'
    BY <1>1, <1>4, <1>6 DEF Mirrored
  <2> QED
    BY <2>1, <2>2, <2>3 DEF Mirrored
<1> QED
  BY <1>4, <1>7, <1>8 DEF Inv

\* A socket that closes takes all it holds with it.
LEMMA DisconnectInv ==
  ASSUME Inv, NEW s \in sockets, Disconnect(s)
  PROVE  Inv'
<1> DEFINE gone == HeldBy(s, Holds(s))
<1>1. TypeOK /\ RefCounts /\ Mirrored /\ s \in SocketId
  BY DEF Inv, TypeOK
<1>2. gone \in SUBSET Symbol /\ \A y \in gone : s \in Subscribers(y)
  BY <1>1 DEF HeldBy, Holds, TypeOK
<1>3. gone = Holds(s)
  BY <1>1, <1>2 DEF HeldBy, Holds, Mirrored, TypeOK
<1>4. /\ RemoveSocket(s, gone)
      /\ connectionRegistry' =
           [t \in DOMAIN connectionRegistry \ {s} |-> connectionRegistry[t]]
      /\ sockets' = sockets \ {s} /\ closing' = closing \ {s}
      /\ UNCHANGED <<nextSocketId, adapter, upstream, tickers, tick, drops, cache>>
  BY DEF Disconnect
<1> HIDE DEF gone
<1>5. /\ RefCounts' /\ frames' \in Seq(Frame) /\ sent' = {}
      /\ DOMAIN symbolRegistry' \subseteq Symbol
      /\ symbolRegistry' \in [DOMAIN symbolRegistry' -> Entry]
      /\ activeSymbols' \subseteq Symbol
      /\ \A y : Subscribers(y)' = IF y \in gone THEN Subscribers(y) \ {s}
                                  ELSE Subscribers(y)
  BY <1>1, <1>2, <1>4, RemoveSocketInv
<1>6. \A t : Holds(t)' = IF t = s THEN {} ELSE Holds(t)
  BY <1>4 DEF Holds
<1>7. TypeOK'
  <2>1. /\ DOMAIN connectionRegistry' \subseteq DOMAIN connectionRegistry
        /\ connectionRegistry' \in [DOMAIN connectionRegistry' -> SUBSET Symbol]
    BY <1>1, <1>4 DEF TypeOK
  <2> QED
    BY <1>1, <1>4, <1>5, <2>1 DEF TypeOK, adapter
<1>8. Mirrored'
  <2>1. DOMAIN connectionRegistry' \subseteq sockets'
    BY <1>1, <1>4 DEF Mirrored
  <2>2. \A t \in DOMAIN connectionRegistry' : connectionRegistry'[t] # {}
    BY <1>1, <1>4 DEF Mirrored
  <2>3. \A t \in SocketId, y \in Symbol : t \in Subscribers(y)' <=> y \in Holds(t)'
    BY <1>1, <1>3, <1>5, <1>6 DEF Mirrored
  <2> QED
    BY <2>1, <2>2, <2>3 DEF Mirrored
<1> QED
  BY <1>5, <1>7, <1>8 DEF Inv

\* Every step keeps the three parts.
LEMMA NextInv == Inv /\ [Next]_vars => Inv'
<1> SUFFICES ASSUME Inv, [Next]_vars PROVE Inv'
  OBVIOUS
<1>1. CASE Binance
  BY <1>1, NetworkInv
<1>2. CASE Clients
  BY <1>2, NetworkInv, SubscribeInv, UnsubscribeInv, DisconnectInv DEF Clients
<1>3. CASE UNCHANGED vars
  BY <1>3 DEF vars, client, registries, adapter, network, Inv, TypeOK, RefCounts,
     Mirrored, Subscribers, Holds
<1> QED
  BY <1>1, <1>2, <1>3 DEF Next

\* The variables of the market stream stay in their types.
THEOREM TypeCorrectness == Spec => []TypeOK
<1>1. Inv => TypeOK
  BY DEF Inv
<1> QED
  BY <1>1, InitInv, NextInv, PTL DEF Spec

\* The count of a symbol is the number of its subscribers, and the adapter keeps
\* exactly the counted symbols, for any number of sockets and symbols.
THEOREM RefCountsHold == Spec => []RefCounts
<1>1. Inv => RefCounts
  BY DEF Inv
<1> QED
  BY <1>1, InitInv, NextInv, PTL DEF Spec

\* The two registries mirror each other and hold no forgotten socket.
THEOREM MirroredHolds == Spec => []Mirrored
<1>1. Inv => Mirrored
  BY DEF Inv
<1> QED
  BY <1>1, InitInv, NextInv, PTL DEF Spec

-----------------------------------------------------------------------------
(* Tickers *)

\* The tickers on the connection are newer than what the stream has cached, and
\* in the order in which Binance computed them.
TickersAhead ==
  /\ \A y \in Symbol : cache[y] <= tick[y]
  /\ \A i \in DOMAIN tickers :
       cache[tickers[i].symbol] < tickers[i].tick
       /\ tickers[i].tick <= tick[tickers[i].symbol]
  /\ \A i, j \in DOMAIN tickers :
       i < j /\ tickers[i].symbol = tickers[j].symbol => tickers[i].tick < tickers[j].tick

\* The types of what carries tickers.
TickersTyped ==
  /\ tickers \in Seq(Ticker)
  /\ tick \in [Symbol -> 1 .. MaxTick] /\ cache \in [Symbol -> 0 .. MaxTick]

\* The first ticker becomes the cached one; those behind it are newer still.
LEMMA HandleTickerAhead ==
  ASSUME TickersTyped, TickersAhead, HandleTicker
  PROVE  TickersAhead'
<1> DEFINE t == Head(tickers)
<1>1. /\ tickers # <<>> /\ tickers' = Tail(tickers) /\ tick' = tick
      /\ cache' = [cache EXCEPT ![t.symbol] = t.tick]
  BY DEF HandleTicker
<1>2. /\ tickers \in Seq(Ticker) /\ t \in Ticker /\ t = tickers[1] /\ Len(tickers) \in Nat
      /\ Len(tickers) > 0 /\ DOMAIN tickers = 1 .. Len(tickers)
  BY <1>1 DEF TickersTyped
<1>3. /\ DOMAIN Tail(tickers) = 1 .. Len(tickers) - 1
      /\ \A i \in 1 .. Len(tickers) - 1 : Tail(tickers)[i] = tickers[i + 1]
  BY <1>1, <1>2
<1>4. /\ t.symbol \in Symbol /\ t.tick \in Nat /\ cache[t.symbol] < t.tick
      /\ t.tick <= tick[t.symbol]
  BY <1>2 DEF TickersAhead, Ticker
<1> HIDE DEF t
<1>5. \A y \in Symbol : cache'[y] <= tick'[y]
  BY <1>1, <1>4 DEF TickersAhead, TickersTyped
<1>6. ASSUME NEW i \in DOMAIN tickers'
      PROVE  /\ cache'[tickers'[i].symbol] < tickers'[i].tick
             /\ tickers'[i].tick <= tick'[tickers'[i].symbol]
  <2>1. /\ i + 1 \in DOMAIN tickers /\ tickers'[i] = tickers[i + 1] /\ 1 \in DOMAIN tickers
        /\ tickers[i + 1] \in Ticker /\ 1 < i + 1
    BY <1>1, <1>2, <1>3
  <2>2. tickers[i + 1].symbol = t.symbol => t.tick < tickers[i + 1].tick
    BY <1>2, <2>1 DEF TickersAhead
  <2> QED
    BY <1>1, <1>4, <2>1, <2>2 DEF TickersAhead, TickersTyped, Ticker
<1>7. ASSUME NEW i \in DOMAIN tickers', NEW j \in DOMAIN tickers', i < j,
             tickers'[i].symbol = tickers'[j].symbol
      PROVE  tickers'[i].tick < tickers'[j].tick
  <2>1. /\ i + 1 \in DOMAIN tickers /\ tickers'[i] = tickers[i + 1]
        /\ j + 1 \in DOMAIN tickers /\ tickers'[j] = tickers[j + 1] /\ i + 1 < j + 1
    BY <1>1, <1>2, <1>3, <1>7
  <2> QED
    BY <1>7, <2>1 DEF TickersAhead
<1> QED
  BY <1>5, <1>6, <1>7 DEF TickersAhead

\* A new ticker is newer than every other, cached or on its way.
LEMMA PublishAhead ==
  ASSUME TickersTyped, TickersAhead, NEW y \in Symbol, Publish(y)
  PROVE  TickersAhead'
<1> DEFINE t == [symbol |-> y, tick |-> tick'[y]]
<1>1. /\ cache' = cache /\ tick' = [tick EXCEPT ![y] = @ + 1]
      /\ tickers' = tickers \/ tickers' = Append(tickers, t)
  BY DEF Publish
<1>2. /\ tick[y] \in Nat /\ tick'[y] = tick[y] + 1 /\ t.symbol = y /\ t.tick = tick[y] + 1
      /\ \A z \in Symbol : tick[z] \in Nat /\ cache[z] \in Nat /\ tick[z] <= tick'[z]
  BY <1>1 DEF TickersTyped
<1>3. /\ tickers \in Seq(Ticker) /\ Len(tickers) \in Nat
      /\ \A i \in DOMAIN tickers : tickers[i].symbol \in Symbol /\ tickers[i].tick \in Nat
      /\ DOMAIN tickers = 1 .. Len(tickers)
  <2>1. tickers \in Seq(Ticker)
    BY DEF TickersTyped
  <2>2. \A i \in DOMAIN tickers : tickers[i] \in Ticker
    BY <2>1
  <2>3. \A x \in Ticker : x.symbol \in Symbol /\ x.tick \in Nat
    BY DEF Ticker
  <2> QED
    BY <2>1, <2>2, <2>3
<1> HIDE DEF t
<1>4. \A i \in DOMAIN tickers' :
        \/ i \in DOMAIN tickers /\ tickers'[i] = tickers[i]
        \/ i = Len(tickers) + 1 /\ tickers'[i] = t
  BY <1>1, <1>3
<1>5. \A z \in Symbol : cache'[z] <= tick'[z]
  BY <1>1, <1>2 DEF TickersAhead
<1>6. ASSUME NEW i \in DOMAIN tickers'
      PROVE  /\ cache'[tickers'[i].symbol] < tickers'[i].tick
             /\ tickers'[i].tick <= tick'[tickers'[i].symbol]
  <2>1. CASE i \in DOMAIN tickers /\ tickers'[i] = tickers[i]
    <3> DEFINE z == tickers[i].symbol
    <3>1. /\ z \in Symbol /\ tickers[i].tick \in Nat /\ cache[z] < tickers[i].tick
          /\ tickers[i].tick <= tick[z]
      BY <1>3, <2>1 DEF TickersAhead
    <3> HIDE DEF z
    <3>2. cache'[z] < tickers[i].tick /\ tickers[i].tick <= tick'[z]
      BY <1>1, <1>2, <3>1
    <3> QED
      BY <2>1, <3>2 DEF z
  <2>2. CASE tickers'[i] = t
    <3>1. cache[y] <= tick[y]
      BY DEF TickersAhead
    <3> QED
      BY <1>1, <1>2, <2>2, <3>1
  <2> QED
    BY <1>4, <2>1, <2>2
<1>7. ASSUME NEW i \in DOMAIN tickers', NEW j \in DOMAIN tickers', i < j,
             tickers'[i].symbol = tickers'[j].symbol
      PROVE  tickers'[i].tick < tickers'[j].tick
  <2>1. i \in DOMAIN tickers /\ tickers'[i] = tickers[i]
    <3>1. j \in 1 .. Len(tickers) + 1
      BY <1>3, <1>4
    <3> QED
      BY <1>3, <1>4, <1>7, <3>1
  <2>2. CASE j \in DOMAIN tickers /\ tickers'[j] = tickers[j]
    BY <1>7, <2>1, <2>2 DEF TickersAhead
  <2>3. CASE tickers'[j] = t
    <3>1. tickers[i].symbol = y /\ tickers[i].tick <= tick[y] /\ tickers[i].tick \in Nat
      BY <1>2, <1>3, <1>7, <2>1, <2>3 DEF TickersAhead
    <3> QED
      BY <1>2, <2>1, <2>3, <3>1
  <2> QED
    BY <1>4, <2>2, <2>3
<1> QED
  BY <1>5, <1>6, <1>7 DEF TickersAhead

\* All other steps leave the tickers alone, or lose them with the connection.
LEMMA NextAhead == TickersTyped /\ TickersAhead /\ [Next]_vars => TickersAhead'
<1> SUFFICES ASSUME TickersTyped, TickersAhead, [Next]_vars PROVE TickersAhead'
  OBVIOUS
<1>1. CASE UNCHANGED <<tickers, tick, cache>>
  BY <1>1 DEF TickersAhead
<1>2. CASE Close
  BY <1>2 DEF Close, TickersAhead
<1> QED
  BY <1>1, <1>2, HandleTickerAhead, PublishAhead
     DEF Next, Clients, Binance, vars, network, Open, ConnectFails, Drop, Reconnect,
         HandleFrame, Connect, StartClose, Subscribe, Unsubscribe, Disconnect

\* The stream's invariants together.
StreamInv == Inv /\ TickersAhead

\* Registries and tickers keep their invariants, whatever the connection goes through.
THEOREM StreamInvariance == Spec => []StreamInv
<1>1. Init => StreamInv
  <2>1. ASSUME Init PROVE TickersAhead
    BY <2>1 DEF Init, TickersAhead
  <2> QED
    BY <2>1, InitInv DEF StreamInv
<1>2. StreamInv /\ [Next]_vars => StreamInv'
  BY NextInv, NextAhead DEF StreamInv, Inv, TypeOK, TickersTyped
<1> QED
  BY <1>1, <1>2, PTL DEF Spec

\* A handled ticker goes to sockets that hold its symbol, and is newer than every
\* ticker of it before; no other step sends anything.
LEMMA StepSentInOrder ==
  ASSUME StreamInv, [Next]_vars, NEW m \in sent', sent' # sent \/ ~UNCHANGED vars
  PROVE  m.symbol \in Holds(m.socket) /\ m.tick > cache[m.symbol]
<1>1. HandleTicker
  BY DEF Next, Clients, Binance, Open, ConnectFails, Drop, Close, Reconnect, HandleFrame,
     Publish, Connect, StartClose, Subscribe, Unsubscribe, Disconnect, RemoveSocket, vars
<1> DEFINE t == Head(tickers)
<1>2. t = tickers[1] /\ 1 \in DOMAIN tickers /\ t \in Ticker
  BY <1>1 DEF HandleTicker, StreamInv, Inv, TypeOK
<1>3. m.socket \in Receivers(t.symbol) /\ m.symbol = t.symbol /\ m.tick = t.tick
  BY <1>1 DEF HandleTicker
<1> HIDE DEF t
<1>4. m.tick > cache[m.symbol]
  BY <1>2, <1>3 DEF StreamInv, TickersAhead, Ticker, Inv, TypeOK
<1>5. m.socket \in SocketId /\ m.socket \in Subscribers(m.symbol) /\ m.symbol \in Symbol
  BY <1>2, <1>3 DEF Receivers, StreamInv, Inv, TypeOK, Ticker
<1> QED
  BY <1>4, <1>5 DEF StreamInv, Inv, Mirrored

\* SentInOrder: _handleIncomingTicker sends a ticker only to sockets that hold
\* its symbol, and never one older than it sent before, whatever the connections
\* to Binance went through.
THEOREM SentInOrderHolds == Spec => SentInOrder
<1>1. StreamInv /\ [Next]_vars =>
        [\A m \in sent' : m.symbol \in Holds(m.socket) /\ m.tick > cache[m.symbol]]_vars
  BY StepSentInOrder
<1> QED
  BY <1>1, StreamInvariance, PTL DEF Spec, SentInOrder

-----------------------------------------------------------------------------
(* What Binance streams, and the abstract set of subscriptions *)

\* A permutation of a finite set holds every element of it.
LEMMA SeqsOnto ==
  ASSUME NEW ys \in SUBSET Symbol, NEW q \in SetToSeqs(ys)
  PROVE  /\ q \in [1 .. Cardinality(ys) -> ys] /\ Cardinality(ys) \in Nat
         /\ \A y \in ys : \E i \in DOMAIN q : q[i] = y
<1> DEFINE n == Cardinality(ys)
           image == {q[i] : i \in 1 .. n}
<1>1. /\ IsFiniteSet(ys) /\ n \in Nat /\ q \in [1 .. n -> ys]
      /\ \A i, j \in 1 .. n : i # j => q[i] # q[j]
  BY FiniteSides DEF SetToSeqs
<1> HIDE DEF n
<1>2. q \in Bijection(1 .. n, image)
  BY <1>1 DEF Bijection, Injection, Surjection, IsInjective
<1>3. image \in SUBSET ys
  BY <1>1
<1> HIDE DEF image
<1>4. Cardinality(image) = n
  <2>1. ExistsBijection(1 .. n, image)
    BY <1>2 DEF ExistsBijection
  <2> QED
    BY <1>1, <2>1, FS_CountingElements
<1>5. image = ys
  <2>1. Cardinality(ys) = Cardinality(image)
    BY <1>4 DEF n
  <2> QED
    BY <1>1, <1>3, <2>1, FS_Subset
<1> QED
  BY <1>1, <1>5 DEF n, image

\* A function on a prefix of the naturals is a sequence.
LEMMA FunctionIsSeq ==
  ASSUME NEW T, NEW n \in Nat, NEW f \in [1 .. n -> T]
  PROVE  f \in Seq(T) /\ Len(f) = n
OBVIOUS

\* While the connection is open, the adapter's subscribe and unsubscribe put one
\* frame for each symbol behind those under way.
LEMMA SendAppends ==
  ASSUME NEW ys \in SUBSET Symbol, NEW method, Send(method, ys), IsReady
  PROVE  \E fs : /\ fs \in Seq([method : {method}, symbols : {{y} : y \in ys}])
                 /\ frames' = frames \o fs
                 /\ \A y \in ys : \E i \in DOMAIN fs : fs[i].symbols = {y}
<1> DEFINE T == [method : {method}, symbols : {{y} : y \in ys}]
<1>1. PICK fs \in Frames(method, ys) : frames' = frames \o fs
  BY DEF Send
<1>2. PICK q \in SetToSeqs(ys) :
        fs = [i \in DOMAIN q |-> [method |-> method, symbols |-> {q[i]}]]
  BY <1>1 DEF Frames
<1>3. /\ q \in [1 .. Cardinality(ys) -> ys] /\ Cardinality(ys) \in Nat
      /\ \A y \in ys : \E i \in DOMAIN q : q[i] = y
  BY SeqsOnto
<1>4. fs \in [1 .. Cardinality(ys) -> T]
  BY <1>2, <1>3
<1>5. fs \in Seq(T)
  <2> HIDE DEF T
  <2> QED
    BY <1>3, <1>4, FunctionIsSeq
<1>6. \A y \in ys : \E i \in DOMAIN fs : fs[i].symbols = {y}
  BY <1>2, <1>3
<1> QED
  BY <1>1, <1>5, <1>6

\* us is xs with zs behind, element by element.
Appended(us, xs, zs) ==
  /\ Len(xs) \in Nat /\ DOMAIN xs = 1 .. Len(xs)
  /\ DOMAIN zs \subseteq Nat \ {0}
  /\ \A i \in DOMAIN xs : i \in DOMAIN us /\ us[i] = xs[i]
  /\ \A j \in DOMAIN zs : Len(xs) + j \in DOMAIN us /\ us[Len(xs) + j] = zs[j]
  /\ \A i \in DOMAIN us : i \in DOMAIN xs \/ \E j \in DOMAIN zs : i = Len(xs) + j

\* A concatenation is that.
LEMMA Concatenated ==
  ASSUME NEW S, NEW T, NEW xs \in Seq(S), NEW zs \in Seq(T)
  PROVE  Appended(xs \o zs, xs, zs)
<1> DEFINE us == xs \o zs
<1>1. Len(xs) \in Nat /\ Len(zs) \in Nat /\ DOMAIN xs = 1 .. Len(xs) /\ DOMAIN zs = 1 .. Len(zs)
  OBVIOUS
<1>2. DOMAIN us = 1 .. Len(xs) + Len(zs)
  BY <1>1
<1>3. \A i \in DOMAIN xs : i \in DOMAIN us /\ us[i] = xs[i]
  BY <1>1, <1>2
<1>4. \A j \in DOMAIN zs : Len(xs) + j \in DOMAIN us /\ us[Len(xs) + j] = zs[j]
  BY <1>1, <1>2
<1>5. ASSUME NEW i \in DOMAIN us, i \notin DOMAIN xs
      PROVE  \E j \in DOMAIN zs : i = Len(xs) + j
  <2>1. i - Len(xs) \in DOMAIN zs /\ i = Len(xs) + (i - Len(xs))
    BY <1>1, <1>2, <1>5
  <2> QED
    BY <2>1
<1>6. DOMAIN zs \subseteq Nat \ {0}
  BY <1>1
<1> HIDE DEF us
<1>7. Appended(us, xs, zs)
  BY <1>1, <1>3, <1>4, <1>5, <1>6 DEF Appended
<1> QED
  BY <1>7 DEF us

\* fs holds one frame for each symbol of ys, and frames' is frames with fs behind.
FramesAdded(fs, method, ys) ==
  /\ \A j \in DOMAIN fs : fs[j].method = method /\ \E z \in ys : fs[j].symbols = {z}
  /\ \A z \in ys : \E j \in DOMAIN fs : fs[j].symbols = {z}
  /\ Appended(frames', frames, fs)

\* Sending for the symbols ys adds a frame for each of them and no other.
LEMMA FramesSent ==
  ASSUME TypeOK, NEW ys \in SUBSET Symbol, NEW method, Send(method, ys), IsReady
  PROVE  \E fs : FramesAdded(fs, method, ys)
<1> DEFINE T == [method : {method}, symbols : {{y} : y \in ys}]
<1>1. PICK fs : /\ fs \in Seq(T)
                /\ frames' = frames \o fs
                /\ \A z \in ys : \E i \in DOMAIN fs : fs[i].symbols = {z}
  BY SendAppends
<1>2. \A j \in DOMAIN fs : fs[j] \in T
  <2> HIDE DEF T
  <2> QED
    BY <1>1
<1>3. \A j \in DOMAIN fs : fs[j].method = method /\ \E z \in ys : fs[j].symbols = {z}
  BY <1>2
<1>4. frames \in Seq(Frame)
  BY DEF TypeOK
<1> HIDE DEF T
<1>5. fs \in Seq(T)
  BY <1>1
<1>6. frames' = frames \o fs
  BY <1>1
<1>7. Appended(frames \o fs, frames, fs)
  BY <1>4, <1>5, Concatenated
<1> QED
  BY <1>1, <1>3, <1>6, <1>7 DEF FramesAdded

\* SUBSCRIBE frames add their symbols to what Binance will stream.
LEMMA SubscribeWillStream ==
  ASSUME TypeOK, NEW ys \in SUBSET Symbol, Send("SUBSCRIBE", ys), IsReady,
         upstream' = upstream, NEW y \in Symbol
  PROVE  WillStream(y)' <=> (WillStream(y) \/ y \in ys)
<1>2. PICK fs : FramesAdded(fs, "SUBSCRIBE", ys)
  BY FramesSent
<1>1. FramesAdded(fs, "SUBSCRIBE", ys)
  BY <1>2
<1> USE DEF FramesAdded, Appended
<1>4. \A i \in DOMAIN frames \cup {1} : KeptFrom(y, i)' <=> KeptFrom(y, i)
  BY <1>1 DEF KeptFrom
<1>5. ASSUME NEW i \in DOMAIN frames', i \notin DOMAIN frames PROVE KeptFrom(y, i)'
  <2>1. PICK k \in DOMAIN fs : i = Len(frames) + k
    BY <1>1, <1>5
  <2>2. \A j \in DOMAIN frames' : j >= i => j \notin DOMAIN frames
    BY <1>1, <2>1
  <2>3. \A j \in DOMAIN frames' : j >= i => frames'[j].method = "SUBSCRIBE"
    BY <1>1, <2>2
  <2> QED
    BY <2>3 DEF KeptFrom
<1>6. ASSUME y \in ys PROVE WillStream(y)'
  <2>1. PICK k \in DOMAIN fs : fs[k].symbols = {y}
    BY <1>1, <1>6
  <2>2. /\ Len(frames) + k \in DOMAIN frames' /\ y \in frames'[Len(frames) + k].symbols
        /\ Len(frames) + k \notin DOMAIN frames
    BY <1>1, <2>1
  <2> QED
    BY <1>5, <2>2 DEF WillStream
<1>7. ASSUME WillStream(y) PROVE WillStream(y)'
  BY <1>1, <1>4, <1>7 DEF WillStream
<1>8. ASSUME WillStream(y)', y \notin ys PROVE WillStream(y)
  <2>1. CASE y \in upstream' /\ KeptFrom(y, 1)'
    BY <1>4, <2>1 DEF WillStream
  <2>2. ASSUME NEW i \in DOMAIN frames', y \in frames'[i].symbols, KeptFrom(y, i)'
        PROVE  WillStream(y)
    <3>1. i \in DOMAIN frames
      BY <1>1, <1>8, <2>2
    <3> QED
      BY <1>1, <1>4, <2>2, <3>1 DEF WillStream
  <2> QED
    BY <1>8, <2>1, <2>2 DEF WillStream
<1> QED
  BY <1>6, <1>7, <1>8

\* UNSUBSCRIBE frames take their symbols from what Binance will stream.
LEMMA UnsubscribeWillStream ==
  ASSUME TypeOK, NEW ys \in SUBSET Symbol, Send("UNSUBSCRIBE", ys), IsReady,
         upstream' = upstream, NEW y \in Symbol
  PROVE  WillStream(y)' <=> (WillStream(y) /\ y \notin ys)
<1>2. PICK fs : FramesAdded(fs, "UNSUBSCRIBE", ys)
  BY FramesSent
<1>1. FramesAdded(fs, "UNSUBSCRIBE", ys)
  BY <1>2
<1> USE DEF FramesAdded, Appended
<1>4. ASSUME y \notin ys
      PROVE  /\ \A i \in DOMAIN frames' : y \in frames'[i].symbols => i \in DOMAIN frames
             /\ \A i \in DOMAIN frames \cup {1} : KeptFrom(y, i)' <=> KeptFrom(y, i)
  <2>1. \A i \in DOMAIN frames' : y \in frames'[i].symbols => i \in DOMAIN frames
    BY <1>1, <1>4
  <2> QED
    BY <1>1, <2>1 DEF KeptFrom
<1>5. ASSUME y \notin ys PROVE WillStream(y)' <=> WillStream(y)
  BY <1>1, <1>4, <1>5 DEF WillStream
<1>6. ASSUME y \in ys PROVE ~WillStream(y)'
  <2>1. PICK k \in DOMAIN fs : fs[k].symbols = {y} /\ fs[k].method = "UNSUBSCRIBE"
    BY <1>1, <1>6
  <2>2. /\ Len(frames) + k \in DOMAIN frames' /\ y \in frames'[Len(frames) + k].symbols
        /\ frames'[Len(frames) + k].method # "SUBSCRIBE" /\ k \in Nat \ {0}
    BY <1>1, <2>1
  <2>3. \A i \in DOMAIN frames : ~KeptFrom(y, i)' /\ ~KeptFrom(y, 1)'
    BY <1>1, <2>2 DEF KeptFrom
  <2>4. ~KeptFrom(y, 1)'
    BY <1>1, <2>2 DEF KeptFrom
  <2>5. ASSUME NEW i \in DOMAIN frames', y \in frames'[i].symbols, KeptFrom(y, i)'
        PROVE  FALSE
    <3>1. frames'[i].method = "SUBSCRIBE"
      <4>1. i >= i
        <5>1. i \in Nat
          BY <1>1, <2>5
        <5> QED
          BY <5>1
      <4> QED
        BY <2>5, <4>1 DEF KeptFrom
    <3>2. i \in DOMAIN frames
      BY <1>1, <2>5, <3>1
    <3> QED
      BY <2>3, <2>5, <3>2
  <2> QED
    BY <2>4, <2>5 DEF WillStream
<1> QED
  BY <1>5, <1>6

\* A frame that Binance reads leaves what it will stream as it was.
LEMMA HandleFrameWillStream ==
  ASSUME TypeOK, HandleFrame, NEW y \in Symbol
  PROVE  WillStream(y)' <=> WillStream(y)
<1> DEFINE f == frames[1]
<1>1. /\ frames \in Seq(Frame) /\ frames # <<>> /\ frames' = Tail(frames)
      /\ upstream' = Applied(upstream, f)
  BY DEF HandleFrame, TypeOK
<1>2. /\ Len(frames) \in Nat /\ DOMAIN frames = 1 .. Len(frames) /\ 1 \in DOMAIN frames
      /\ DOMAIN frames' = 1 .. Len(frames) - 1
      /\ \A i \in DOMAIN frames' : frames'[i] = frames[i + 1]
      /\ f \in Frame
  BY <1>1
<1>3. f.method \in {"SUBSCRIBE", "UNSUBSCRIBE"} /\ "SUBSCRIBE" # "UNSUBSCRIBE"
  BY <1>2 DEF Frame
<1>4. \A i \in DOMAIN frames' : i + 1 \in DOMAIN frames /\ i + 1 > 1 /\ i \in Nat
  BY <1>2
<1>5. \A i \in DOMAIN frames : i = 1 \/ (i - 1 \in DOMAIN frames' /\ i = (i - 1) + 1)
  BY <1>2
<1>6. ASSUME NEW i \in DOMAIN frames' \cup {1} PROVE KeptFrom(y, i)' <=> KeptFrom(y, i + 1)
  <2>1. ASSUME KeptFrom(y, i + 1), NEW j \in DOMAIN frames', j >= i, y \in frames'[j].symbols
        PROVE  frames'[j].method = "SUBSCRIBE"
    <3>1. j + 1 \in DOMAIN frames /\ j + 1 >= i + 1 /\ frames'[j] = frames[j + 1]
      BY <1>2, <1>4, <2>1
    <3> QED
      BY <2>1, <3>1 DEF KeptFrom
  <2>2. ASSUME KeptFrom(y, i)', NEW j \in DOMAIN frames, j >= i + 1, y \in frames[j].symbols
        PROVE  frames[j].method = "SUBSCRIBE"
    <3>1. j - 1 \in DOMAIN frames' /\ j - 1 >= i /\ frames'[j - 1] = frames[j]
      BY <1>2, <1>4, <1>5, <2>2
    <3> QED
      BY <2>2, <3>1 DEF KeptFrom
  <2> QED
    BY <2>1, <2>2 DEF KeptFrom
<1>7. KeptFrom(y, 1) <=> ((y \in f.symbols => f.method = "SUBSCRIBE") /\ KeptFrom(y, 2))
  <2>1. \A i \in DOMAIN frames : (i >= 1) /\ (i = 1 \/ i >= 2) /\ (i >= 2 => i >= 1)
    BY <1>2
  <2>2. KeptFrom(y, 1) => (y \in f.symbols => f.method = "SUBSCRIBE") /\ KeptFrom(y, 2)
    BY <1>2, <2>1 DEF KeptFrom
  <2>3. ASSUME y \in f.symbols => f.method = "SUBSCRIBE", KeptFrom(y, 2)
        PROVE  KeptFrom(y, 1)
    BY <2>1, <2>3 DEF KeptFrom
  <2> QED
    BY <2>2, <2>3
<1>8. KeptFrom(y, 1)' <=> KeptFrom(y, 2)
  BY <1>6
<1>9. (\E i \in DOMAIN frames' : y \in frames'[i].symbols /\ KeptFrom(y, i)')
        <=> (\E i \in DOMAIN frames : i # 1 /\ y \in frames[i].symbols /\ KeptFrom(y, i))
  <2>1. ASSUME NEW i \in DOMAIN frames', y \in frames'[i].symbols, KeptFrom(y, i)'
        PROVE  \E k \in DOMAIN frames : k # 1 /\ y \in frames[k].symbols /\ KeptFrom(y, k)
    <3>1. /\ i + 1 \in DOMAIN frames /\ i + 1 # 1 /\ y \in frames[i + 1].symbols
          /\ KeptFrom(y, i + 1)
      BY <1>2, <1>4, <1>6, <2>1
    <3> QED
      BY <3>1
  <2>2. ASSUME NEW i \in DOMAIN frames, i # 1, y \in frames[i].symbols, KeptFrom(y, i)
        PROVE  \E k \in DOMAIN frames' : y \in frames'[k].symbols /\ KeptFrom(y, k)'
    <3>1. /\ i - 1 \in DOMAIN frames' /\ y \in frames'[i - 1].symbols
          /\ KeptFrom(y, (i - 1) + 1) /\ (i - 1) + 1 = i
      BY <1>2, <1>5, <2>2
    <3>2. KeptFrom(y, i - 1)'
      BY <1>6, <3>1
    <3> QED
      BY <3>1, <3>2
  <2> QED
    BY <2>1, <2>2
<1>10. WillStream(y) <=> \/ y \in upstream /\ KeptFrom(y, 1)
                         \/ y \in f.symbols /\ KeptFrom(y, 1)
                         \/ \E i \in DOMAIN frames :
                              i # 1 /\ y \in frames[i].symbols /\ KeptFrom(y, i)
  BY <1>2 DEF WillStream
<1>11. WillStream(y)' <=> \/ y \in upstream' /\ KeptFrom(y, 2)
                          \/ \E i \in DOMAIN frames :
                               i # 1 /\ y \in frames[i].symbols /\ KeptFrom(y, i)
  BY <1>8, <1>9 DEF WillStream
<1>12. y \in upstream' <=> IF f.method = "SUBSCRIBE" THEN y \in upstream \/ y \in f.symbols
                          ELSE y \in upstream /\ y \notin f.symbols
  BY <1>1 DEF Applied
<1> QED
  BY <1>3, <1>7, <1>10, <1>11, <1>12

\* UpstreamAgrees is inductive with this: only an open connection has anything
\* subscribed, and it is not open when the timer of a reconnect fires.
Streaming ==
  /\ UpstreamAgrees
  /\ ws # "OPEN" => upstream = {}
  /\ timer => ws = "CLOSED"

\* A step that leaves what Binance will stream and the active symbols alone.
LEMMA SameStreaming ==
  ASSUME Streaming, ws' = ws, timer' = timer, activeSymbols' = activeSymbols,
         frames' = frames, upstream' = upstream
  PROVE  Streaming'
BY DEF Streaming, UpstreamAgrees, IsReady, WillStream, KeptFrom

\* The handlers of the connection to Binance.
LEMMA ConnectionStreaming ==
  ASSUME TypeOK, Streaming, Open \/ ConnectFails \/ Drop \/ Close \/ Reconnect \/ HandleFrame
  PROVE  Streaming'
<1>1. CASE Open
  <2>1. /\ ws' = "OPEN" /\ timer' = timer /\ ~timer /\ upstream' = {} /\ activeSymbols' = activeSymbols
        /\ frames' = ResubscribeAll
    BY <1>1 DEF Open, registries, Streaming
  <2>2. \A y \in Symbol : WillStream(y)' <=> y \in activeSymbols
    <3>1. CASE activeSymbols = {}
      BY <2>1, <3>1 DEF WillStream, ResubscribeAll
    <3>2. CASE activeSymbols # {}
      <4>1. /\ DOMAIN frames' = {1} /\ frames'[1].symbols = activeSymbols
            /\ frames'[1].method = "SUBSCRIBE"
        BY <2>1, <3>2 DEF ResubscribeAll
      <4> QED
        BY <2>1, <4>1 DEF WillStream, KeptFrom
    <3> QED
      BY <3>1, <3>2
  <2> QED
    BY <2>1, <2>2 DEF Streaming, UpstreamAgrees, IsReady, TypeOK
<1>2. CASE ConnectFails
  BY <1>2 DEF ConnectFails, Streaming, UpstreamAgrees, IsReady
<1>3. CASE Drop
  BY <1>3 DEF Drop, Streaming, UpstreamAgrees, IsReady
<1>4. CASE Close
  BY <1>4 DEF Close, Streaming, UpstreamAgrees, IsReady
<1>5. CASE Reconnect
  BY <1>5 DEF Reconnect, Streaming, UpstreamAgrees, IsReady, network
<1>6. CASE HandleFrame
  <2>1. /\ ws' = "OPEN" /\ ws = "OPEN" /\ timer' = timer /\ activeSymbols' = activeSymbols
    BY <1>6 DEF HandleFrame, adapter, registries
  <2>2. \A y \in Symbol : WillStream(y)' <=> WillStream(y)
    BY <1>6, HandleFrameWillStream
  <2> QED
    BY <2>1, <2>2 DEF Streaming, UpstreamAgrees, IsReady
<1> QED
  BY <1>1, <1>2, <1>3, <1>4, <1>5, <1>6

\* The handlers of the clients' messages and close events.
LEMMA ClientStreaming ==
  ASSUME Inv, Streaming,
         NEW s \in sockets, NEW names \in SUBSET Spelling,
         Subscribe(s, names) \/ Unsubscribe(s, names) \/ Disconnect(s)
  PROVE  Streaming'
<1>1. /\ ws' = ws /\ timer' = timer /\ upstream' = upstream /\ TypeOK
      /\ activeSymbols = DOMAIN symbolRegistry
  BY DEF Subscribe, Unsubscribe, Disconnect, adapter, Inv, RefCounts
<1>2. CASE Subscribe(s, names)
  <2> DEFINE opened == NewFor(s, Normalised(names)) \ DOMAIN symbolRegistry
  <2>1. /\ activeSymbols' = activeSymbols \cup opened /\ Send("SUBSCRIBE", opened)
        /\ opened \in SUBSET Symbol
    BY <1>2, UpperAssumption DEF Subscribe, NewFor, Normalised
  <2> HIDE DEF opened
  <2>2. IsReady => \A y \in Symbol : WillStream(y)' <=> (WillStream(y) \/ y \in opened)
    BY <1>1, <2>1, SubscribeWillStream
  <2> QED
    BY <1>1, <2>1, <2>2 DEF Streaming, UpstreamAgrees, IsReady, TypeOK
<1>3. ASSUME NEW gone \in SUBSET DOMAIN symbolRegistry, RemoveSocket(s, gone)
      PROVE  Streaming'
  <2> DEFINE ended == {y \in gone : RefCount(y) - 1 = 0}
  <2>1. /\ activeSymbols' = activeSymbols \ ended /\ Send("UNSUBSCRIBE", ended)
        /\ ended \in SUBSET Symbol
    BY <1>1, <1>3 DEF RemoveSocket, TypeOK
  <2> HIDE DEF ended
  <2>2. IsReady => \A y \in Symbol : WillStream(y)' <=> (WillStream(y) /\ y \notin ended)
    BY <1>1, <2>1, UnsubscribeWillStream
  <2> QED
    BY <1>1, <2>1, <2>2 DEF Streaming, UpstreamAgrees, IsReady, TypeOK
<1>4. \A ys : HeldBy(s, ys) \in SUBSET DOMAIN symbolRegistry
  BY DEF HeldBy, Subscribers
<1> QED
  BY <1>2, <1>3, <1>4 DEF Unsubscribe, Disconnect

\* Every step preserves Streaming.
LEMMA NextStreaming == Inv /\ Streaming /\ [Next]_vars => Streaming'
<1> SUFFICES ASSUME Inv, Streaming, [Next]_vars PROVE Streaming'
  OBVIOUS
<1>1. CASE Open \/ ConnectFails \/ Drop \/ Close \/ Reconnect \/ HandleFrame
  BY <1>1, ConnectionStreaming DEF Inv
<1>2. CASE \E s \in sockets : \/ Disconnect(s)
                              \/ \E names \in SUBSET Spelling :
                                   Subscribe(s, names) \/ Unsubscribe(s, names)
  BY <1>2, ClientStreaming
<1>3. CASE \/ HandleTicker \/ Connect \/ UNCHANGED vars \/ \E y \in Symbol : Publish(y)
           \/ \E s \in sockets : StartClose(s)
  BY <1>3, SameStreaming
     DEF HandleTicker, Connect, Publish, StartClose, vars, registries, adapter, network
<1> QED
  BY <1>1, <1>2, <1>3 DEF Next, Clients, Binance

\* UpstreamAgrees: through every loss of the connection and every subscription
\* and removal made while none was open, what _resubscribeAll and the frames of
\* subscribe and unsubscribe leave at Binance is what the registries count.
THEOREM UpstreamAgreesHolds == Spec => []UpstreamAgrees
<1>1. Init => Streaming
  BY DEF Init, Streaming, UpstreamAgrees, IsReady
<1>2. Inv /\ Streaming /\ [Next]_vars => Streaming'
  BY NextStreaming
<1>3. StreamInv => Inv
  BY DEF StreamInv
<1>4. Streaming => UpstreamAgrees
  BY DEF Streaming
<1> QED
  BY <1>1, <1>2, <1>3, <1>4, StreamInvariance, PTL DEF Spec

-----------------------------------------------------------------------------
(* The abstract subscriptions *)

\* The pairs of clients and symbols that the registry of symbols stands for.
held == UNION {Subscribers(y) \X {y} : y \in DOMAIN symbolRegistry}

\* The pairs are those that the registry's entries list.
LEMMA HeldPairs ==
  ASSUME NEW p
  PROVE  p \in held <=> \E y \in DOMAIN symbolRegistry :
                          \E s \in symbolRegistry[y].subscribers : p = <<s, y>>
BY DEF held, Subscribers

\* Subscribe and removal of a socket change the pairs of that socket only.
LEMMA ChangeImplemented ==
  ASSUME Inv, Inv', NEW s \in sockets, NEW names \in SUBSET Spelling,
         Subscribe(s, names) \/ Unsubscribe(s, names) \/ Disconnect(s)
  PROVE  Subs!Next
<1>1. s \in SocketId
  BY DEF Inv, TypeOK
<1>2. sent' = {}
  BY DEF Subscribe, Unsubscribe, Disconnect, RemoveSocket
<1>3. \A s_1 \in SocketId, y \in Symbol : <<s_1, y>> \in held <=> s_1 \in Subscribers(y)
  BY HeldPairs DEF Subscribers
<1>4. activeSymbols' = {y \in Symbol : \E c \in SocketId : <<c, y>> \in held'}
  <2>1. \A y : y \in activeSymbols' <=> y \in DOMAIN symbolRegistry'
    BY DEF Inv, RefCounts
  <2>2. \A y \in DOMAIN symbolRegistry' :
          /\ y \in Symbol /\ symbolRegistry'[y].subscribers # {}
          /\ symbolRegistry'[y].subscribers \subseteq SocketId
    BY DEF Inv, RefCounts, TypeOK, Entry
  <2>3. \A p : p \in held' <=> \E y \in DOMAIN symbolRegistry' :
                          \E c \in symbolRegistry'[y].subscribers : p = <<c, y>>
    BY DEF held, Subscribers
  <2>4. ASSUME NEW y \in Symbol
        PROVE  y \in activeSymbols' <=> \E c \in SocketId : <<c, y>> \in held'
    <3>1. ASSUME y \in activeSymbols' PROVE \E c \in SocketId : <<c, y>> \in held'
      <4>1. PICK c : c \in symbolRegistry'[y].subscribers
        BY <2>1, <2>2, <3>1
      <4> QED
        BY <2>1, <2>2, <2>3, <3>1, <4>1
    <3>2. ASSUME NEW c \in SocketId, <<c, y>> \in held' PROVE y \in activeSymbols'
      <4>1. PICK z \in DOMAIN symbolRegistry' : \E d \in symbolRegistry'[z].subscribers : <<c, y>> = <<d, z>>
        BY <2>3, <3>2
      <4> QED
        BY <2>1, <4>1
    <3> QED
      BY <3>1, <3>2
  <2>5. activeSymbols' \subseteq Symbol
    BY DEF Inv, TypeOK
  <2> QED
    BY <2>4, <2>5
<1>5. \A p : p \in held' <=> \E y \in DOMAIN symbolRegistry' :
                          \E c \in symbolRegistry'[y].subscribers : p = <<c, y>>
  BY DEF held, Subscribers
<1>6. CASE Subscribe(s, names)
  <2> DEFINE new == NewFor(s, Normalised(names))
  <2>1. new \in SUBSET Symbol
    BY UpperAssumption DEF NewFor, Normalised
  <2>2. symbolRegistry' = [y \in DOMAIN symbolRegistry \cup new |->
          IF y \in new
          THEN [subscribers |-> Subscribers(y) \cup {s}, refCount |-> RefCount(y) + 1]
          ELSE symbolRegistry[y]]
    BY <1>6 DEF Subscribe
  <2> HIDE DEF new
  <2>3. held' = held \cup ({s} \X new)
    <3>1. ASSUME NEW p PROVE p \in held' <=> p \in held \/ \E y \in new : p = <<s, y>>
      <4>1. p \in held' <=> \E y \in DOMAIN symbolRegistry \cup new :
              IF y \in new THEN \E c \in Subscribers(y) \cup {s} : p = <<c, y>>
              ELSE \E c \in symbolRegistry[y].subscribers : p = <<c, y>>
        <5>1. /\ DOMAIN symbolRegistry' = DOMAIN symbolRegistry \cup new
              /\ \A y \in DOMAIN symbolRegistry \cup new :
                   symbolRegistry'[y].subscribers =
                     IF y \in new THEN Subscribers(y) \cup {s} ELSE symbolRegistry[y].subscribers
          BY <2>2
        <5> QED
          BY <1>5, <5>1
      <4>2. p \in held <=> \E y : \E c \in Subscribers(y) : p = <<c, y>>
        BY HeldPairs DEF Subscribers
      <4>3. \A y \in DOMAIN symbolRegistry : Subscribers(y) = symbolRegistry[y].subscribers
        BY DEF Subscribers
      <4>4. \A y : y \notin DOMAIN symbolRegistry => Subscribers(y) = {}
        BY DEF Subscribers
      <4> QED
        BY <4>1, <4>2, <4>3, <4>4
    <3> QED
      BY <3>1
  <2> QED
    BY <1>1, <1>2, <1>4, <2>1, <2>3 DEF Subs!Next, Subs!Change, Subs!HeldSymbols, held
<1>7. ASSUME NEW gone \in SUBSET Symbol, gone \subseteq {y \in Symbol : s \in Subscribers(y)},
             RemoveSocket(s, gone)
      PROVE  Subs!Next
  <2> DEFINE ended == {y \in gone : RefCount(y) - 1 = 0}
  <2>1. symbolRegistry' = [y \in DOMAIN symbolRegistry \ ended |->
          IF y \in gone
          THEN [subscribers |-> Subscribers(y) \ {s}, refCount |-> RefCount(y) - 1]
          ELSE symbolRegistry[y]]
    BY <1>7 DEF RemoveSocket
  <2>2. \A y \in ended : symbolRegistry[y].subscribers = {s} /\ y \in gone
    <3>1. ASSUME NEW y \in ended PROVE symbolRegistry[y].subscribers = {s}
      <4>1. /\ y \in DOMAIN symbolRegistry /\ s \in symbolRegistry[y].subscribers
            /\ symbolRegistry[y].refCount = Cardinality(symbolRegistry[y].subscribers)
            /\ symbolRegistry[y].refCount - 1 = 0 /\ symbolRegistry[y] \in Entry
        BY <1>7 DEF Subscribers, RefCount, Inv, RefCounts, TypeOK
      <4>2. /\ Cardinality(symbolRegistry[y].subscribers) = 1
            /\ IsFiniteSet(symbolRegistry[y].subscribers)
        BY <4>1, FiniteSides DEF Entry
      <4>3. PICK z : symbolRegistry[y].subscribers = {z}
        BY <4>2, FS_Singleton
      <4> QED
        BY <4>1, <4>3
    <3> QED
      BY <3>1
  <2> HIDE DEF ended
  <2>3. held' = held \ ({s} \X gone)
    <3>1. ASSUME NEW p PROVE p \in held' <=> p \in held /\ ~\E y \in gone : p = <<s, y>>
      <4>1. \A y \in DOMAIN symbolRegistry : Subscribers(y) = symbolRegistry[y].subscribers
        BY DEF Subscribers
      <4>2. p \in held' <=> \E y \in DOMAIN symbolRegistry \ ended :
              \E c \in symbolRegistry[y].subscribers : p = <<c, y>> /\ (y \in gone => c # s)
        BY <1>5, <2>1, <4>1
      <4> QED
        BY <2>2, <4>2, HeldPairs
    <3> QED
      BY <3>1
  <2> QED
    BY <1>1, <1>2, <1>4, <2>3 DEF Subs!Next, Subs!Change, Subs!HeldSymbols, held
<1>8. \A ys : HeldBy(s, ys) \subseteq {y \in Symbol : s \in Subscribers(y)}
  BY DEF HeldBy, Subscribers, Inv, TypeOK
<1> QED
  BY <1>6, <1>7, <1>8 DEF Unsubscribe, Disconnect

\* Every step maps to a change of one client's subscriptions, a delivery or nothing.
LEMMA NextImplemented == StreamInv /\ StreamInv' /\ [Next]_vars => [Subs!Next]_Subs!vars
<1> SUFFICES ASSUME StreamInv, StreamInv', [Next]_vars PROVE [Subs!Next]_Subs!vars
  OBVIOUS
<1>1. CASE UNCHANGED vars
  BY <1>1 DEF vars, registries, Subs!vars, Subscribers
<1>2. CASE HandleTicker
  <2> DEFINE t == Head(tickers)
  <2>1. t \in Ticker
    BY <1>2 DEF HandleTicker, StreamInv, Inv, TypeOK
  <2>2. /\ UNCHANGED registries
        /\ sent' = {[socket |-> s, symbol |-> t.symbol, tick |-> t.tick] : s \in Receivers(t.symbol)}
    BY <1>2 DEF HandleTicker
  <2> HIDE DEF t
  <2>3. t.symbol \in Symbol /\ t.tick \in 1 .. MaxTick
    BY <2>1 DEF Ticker
  <2>4. \A s \in Receivers(t.symbol) : s \in SocketId /\ <<s, t.symbol>> \in held
    BY HeldPairs DEF Receivers, Subscribers, StreamInv, Inv, TypeOK
  <2>5. held' = held /\ activeSymbols' = activeSymbols
    BY <2>2 DEF held, registries, Subscribers
  <2>6. sent' \subseteq {[socket |-> s, symbol |-> t.symbol, tick |-> t.tick] :
                          s \in {s \in SocketId : <<s, t.symbol>> \in held}}
    BY <2>2, <2>4
  <2>7. Subs!Deliver(t.symbol, t.tick)
    BY <2>5, <2>6 DEF Subs!Deliver, held
  <2> QED
    BY <2>3, <2>7 DEF Subs!Next
<1>3. CASE \E s \in sockets : \/ Disconnect(s)
                              \/ \E names \in SUBSET Spelling :
                                   Subscribe(s, names) \/ Unsubscribe(s, names)
  BY <1>3, ChangeImplemented DEF StreamInv
<1>4. CASE \/ Open \/ ConnectFails \/ Drop \/ Close \/ Reconnect \/ HandleFrame \/ Connect
           \/ \E y \in Symbol : Publish(y)
           \/ \E s \in sockets : StartClose(s)
  <2>1. sent' = {} /\ UNCHANGED registries
    BY <1>4 DEF Open, ConnectFails, Drop, Close, Reconnect, HandleFrame, Connect, Publish,
       StartClose, registries
  <2> QED
    BY <2>1 DEF registries, Subscribers, Subs!Next, Subs!Quiet
<1> QED
  BY <1>1, <1>2, <1>3, <1>4 DEF Next, Clients, Binance

\* SubscriptionsImplemented: the registries, their counts and the connection to
\* Binance keep the abstract promise for any number of sockets and symbols.
THEOREM ImplementsSubscriptions == Spec => SubscriptionsImplemented
<1>1. Init => Subs!Init
  BY DEF Init, Subs!Init
<1>2. StreamInv /\ StreamInv' /\ [Next]_vars => [Subs!Next]_Subs!vars
  BY NextImplemented
<1> QED
  BY <1>1, <1>2, StreamInvariance, PTL DEF Spec, SubscriptionsImplemented, Subs!Spec
=============================================================================
