------------------------- MODULE PriceService_proofs -------------------------
(***************************************************************************)
(* Proofs about PriceService for any symbols, requests and number of       *)
(* tickers: types, the agreement of the in-flight map with the calls, and  *)
(* that neither way into the cache goes back on its own.                   *)
(***************************************************************************)
EXTENDS PriceService, TLAPS

\* Why a REST answer is never older than the REST answer it replaces: only one
\* call per symbol lasts at a time, so while a computed answer is on its way the
\* entry can become newer only through the stream.
AnswersAhead ==
  /\ \A y \in Symbol : cache[y] <= tick[y]
  /\ \A c \in calls :
       /\ c.answer <= tick[c.symbol]
       /\ c.answer # 0 /\ source[c.symbol] = "rest" => cache[c.symbol] <= c.answer

\* The inductive invariant.
Inv == TypeOK /\ InFlightAgrees /\ AnswersAhead

\* The initial state satisfies the invariant: nothing cached, nothing called.
LEMMA InitInv == Init => Inv
BY TickAssumption DEF Init, Inv, TypeOK, InFlightAgrees, AnswersAhead, Call

\* Serving a request calls only for symbols without a call, and waits only for
\* symbols that have one then.
LEMMA ServeInv ==
  ASSUME Inv, NEW r \in Request, NEW ys \in SUBSET Symbol, Serve(r, ys)
  PROVE  Inv'
<1> DEFINE wanted == Called(Missing(ys) \cup Refreshed(ys))
<1>1. /\ wanted \subseteq Symbol /\ wanted \cap inFlight = {}
      /\ Missing(ys) \subseteq inFlight \cup wanted /\ Missing(ys) \subseteq Symbol
  BY DEF Called, Missing, Refreshed
<1>2. /\ inFlight' = inFlight \cup wanted
      /\ calls' = calls \cup [symbol : wanted, answer : {0}]
      /\ waits' = [waits EXCEPT ![r] = Missing(ys)]
      /\ UNCHANGED <<tick, cache, source, stale>>
  BY DEF Serve
<1> HIDE DEF wanted
<1>3. TypeOK'
  BY <1>1, <1>2, TickAssumption DEF Inv, TypeOK, Call
<1>4. InFlightAgrees'
  <2>1. \A c \in calls' : c \in calls \/ (c.symbol \in wanted /\ c.answer = 0
                                          /\ c = [symbol |-> c.symbol, answer |-> 0])
    BY <1>2
  <2>2. \A y \in wanted : [symbol |-> y, answer |-> 0] \in calls'
    BY <1>2
  <2>3. inFlight' = {c.symbol : c \in calls'}
    <3>1. \A y \in inFlight' : \E c \in calls' : y = c.symbol
      BY <1>2, <2>2 DEF Inv, InFlightAgrees
    <3>2. \A c \in calls' : c.symbol \in inFlight'
      BY <1>2, <2>1 DEF Inv, InFlightAgrees
    <3> QED BY <3>1, <3>2
  <2>4. \A c, d \in calls' : c.symbol = d.symbol => c = d
    BY <1>1, <2>1 DEF Inv, InFlightAgrees
  <2>5. \A q \in Request : waits'[q] \subseteq inFlight'
    BY <1>1, <1>2 DEF Inv, InFlightAgrees, TypeOK
  <2> QED BY <2>3, <2>4, <2>5 DEF InFlightAgrees
<1>5. AnswersAhead'
  <2>1. \A c \in calls' : c \in calls \/ (c.symbol \in Symbol /\ c.answer = 0)
    BY <1>1, <1>2
  <2> QED BY <1>2, <2>1 DEF Inv, AnswersAhead, TypeOK
<1> QED BY <1>3, <1>4, <1>5 DEF Inv

\* Binance's answer is its newest ticker, which is no older than the cached one.
LEMMA ComputeInv ==
  ASSUME Inv, NEW c, Compute(c)
  PROVE  Inv'
<1> DEFINE answered == [c EXCEPT !.answer = tick[c.symbol]]
<1>1. /\ c \in calls /\ c \in Call /\ answered \in Call
      /\ answered.symbol = c.symbol /\ answered.answer = tick[c.symbol]
  BY DEF Compute, Inv, TypeOK, Call
<1>2. calls' = (calls \ {c}) \cup {answered}
  BY DEF Compute
<1>3. UNCHANGED <<tick, cache, source, stale, inFlight, waits>>
  BY DEF Compute
<1> HIDE DEF answered
<1>4. TypeOK'
  BY <1>1, <1>2, <1>3 DEF Inv, TypeOK
<1>5. InFlightAgrees'
  BY <1>1, <1>2, <1>3 DEF Inv, InFlightAgrees
<1>6. AnswersAhead'
  BY <1>1, <1>2, <1>3 DEF Inv, AnswersAhead, TypeOK, Call
<1> QED BY <1>4, <1>5, <1>6 DEF Inv

\* A call that ends takes its in-flight entry and all that waited for it along.
LEMMA SettledAgrees ==
  ASSUME Inv, NEW c \in calls, Settled(c),
         waits' \in [Request -> SUBSET Symbol],
         \A r \in Request : waits'[r] \subseteq waits[r] \ {c.symbol}
  PROVE  InFlightAgrees'
BY DEF Settled, Inv, InFlightAgrees

\* A call that returns preserves the invariant.
LEMMA CompleteInv ==
  ASSUME Inv, NEW c, Complete(c)
  PROVE  Inv'
<1>1. c \in calls /\ c.symbol \in Symbol /\ c.answer \in 1 .. MaxTick
  BY TickAssumption DEF Complete, Inv, TypeOK, Call
<1>2. TypeOK'
  BY <1>1 DEF Complete, Settled, Inv, TypeOK
<1>3. InFlightAgrees'
  <2>1. waits' \in [Request -> SUBSET Symbol]
    BY <1>2 DEF TypeOK
  <2>2. \A r \in Request : waits'[r] \subseteq waits[r] \ {c.symbol}
    BY DEF Complete
  <2> QED BY <1>1, <2>1, <2>2, SettledAgrees DEF Complete
<1>4. AnswersAhead'
  BY <1>1 DEF Complete, Settled, Inv, AnswersAhead, TypeOK, InFlightAgrees
<1> QED BY <1>2, <1>3, <1>4 DEF Inv

\* A call that fails preserves the invariant.
LEMMA FailInv ==
  ASSUME Inv, NEW c, Fail(c)
  PROVE  Inv'
<1>1. c \in calls /\ c.symbol \in Symbol
  BY DEF Fail, Inv, TypeOK, Call
<1>2. TypeOK'
  BY DEF Fail, Settled, Release, Inv, TypeOK
<1>3. InFlightAgrees'
  <2>1. waits' \in [Request -> SUBSET Symbol]
    BY <1>2 DEF TypeOK
  <2>2. \A r \in Request : waits'[r] \subseteq waits[r] \ {c.symbol}
    BY DEF Fail, Release
  <2> QED BY <1>1, <2>1, <2>2, SettledAgrees DEF Fail
<1>4. AnswersAhead'
  BY DEF Fail, Settled, Inv, AnswersAhead
<1> QED BY <1>2, <1>3, <1>4 DEF Inv

\* What happens around the service leaves calls and requests alone; a ticker of
\* the stream takes the entry over, so that no answer is compared with it.
LEMMA AroundInv ==
  ASSUME Inv, Around
  PROVE  Inv'
<1> PICK y \in Symbol : Move(y) \/ Expire(y) \/ \E t \in 1 .. MaxTick : StreamWrites(y, t)
  BY DEF Around
<1>1. UNCHANGED <<inFlight, calls, waits>>
  BY DEF Move, Expire, StreamWrites
<1>2. InFlightAgrees'
  BY <1>1 DEF Inv, InFlightAgrees
<1>3. CASE Move(y)
  <2>1. TypeOK'
    BY <1>3, TickAssumption DEF Move, Inv, TypeOK
  <2>2. AnswersAhead'
    BY <1>3 DEF Move, Inv, TypeOK, AnswersAhead, Call
  <2> QED BY <1>2, <2>1, <2>2 DEF Inv
<1>4. CASE Expire(y)
  BY <1>2, <1>4 DEF Expire, Inv, TypeOK, AnswersAhead
<1>5. ASSUME NEW t \in 1 .. MaxTick, StreamWrites(y, t) PROVE Inv'
  <2>1. TypeOK'
    BY <1>5 DEF StreamWrites, Inv, TypeOK
  <2>2. AnswersAhead'
    BY <1>5 DEF StreamWrites, Inv, TypeOK, AnswersAhead, Call
  <2> QED BY <1>2, <2>1, <2>2 DEF Inv
<1> QED BY <1>3, <1>4, <1>5

\* Every step keeps the invariant.
LEMMA NextInv == Inv /\ [Next]_vars => Inv'
<1> SUFFICES ASSUME Inv, [Next]_vars PROVE Inv'
  OBVIOUS
<1>1. ASSUME Serving PROVE Inv'
  BY <1>1, ServeInv DEF Serving
<1>2. ASSUME Answering PROVE Inv'
  BY <1>2, ComputeInv, CompleteInv, FailInv DEF Answering
<1>3. ASSUME UNCHANGED vars PROVE Inv'
  BY <1>3 DEF vars, Inv, TypeOK, InFlightAgrees, AnswersAhead
<1> QED BY <1>1, <1>2, <1>3, AroundInv DEF Next

\* The invariant holds in every behaviour of the price service.
THEOREM Invariance == Spec => []Inv
BY InitInv, NextInv, PTL DEF Spec

\* TypeOK: the cache, the in-flight map, the calls and the waiting requests of
\* PriceService stay in their types.
THEOREM TypeCorrectness == Spec => []TypeOK
BY Invariance, PTL DEF Inv

\* InFlightAgrees: fetchAndCache never has two calls for a symbol, its finally
\* leaves no entry behind, and no request waits for a call that is not there.
THEOREM InFlightAgreesHolds == Spec => []InFlightAgrees
BY Invariance, PTL DEF Inv

\* A step of the price service puts no REST answer over a newer REST answer, no
\* stream ticker over a newer stream ticker, and nothing over an entry by losing it.
LEMMA StepBackOnlyBetweenPaths ==
  ASSUME Inv, [Next]_vars, NEW y \in Symbol, cache'[y] < cache[y]
  PROVE  source'[y] # source[y]
<1>1. cache'[y] # cache[y]
  BY DEF Inv, TypeOK
<1>2. (\E c : Complete(c)) \/ (\E z \in Symbol, t \in 1 .. MaxTick : StreamWrites(z, t))
  BY <1>1 DEF Next, Serving, Answering, Around, Serve, Compute, Fail, Move, Expire, vars
<1>3. ASSUME NEW c, Complete(c) PROVE source'[y] # source[y]
  <2>1. y = c.symbol /\ cache'[y] = c.answer /\ source'[y] = "rest"
    BY <1>1, <1>3 DEF Complete, Inv, TypeOK
  <2>2. c \in calls /\ c.answer # 0 /\ c \in Call
    BY <1>3 DEF Complete, Inv, TypeOK
  <2>3. source[y] = "rest" => cache[y] <= c.answer
    BY <2>1, <2>2 DEF Inv, AnswersAhead
  <2>4. cache[y] \in Nat /\ c.answer \in Nat
    BY <2>2, TickAssumption DEF Inv, TypeOK, Call
  <2> QED BY <2>1, <2>3, <2>4
<1>4. ASSUME NEW z \in Symbol, NEW t \in 1 .. MaxTick, StreamWrites(z, t)
      PROVE  source'[y] # source[y]
  BY <1>1, <1>4 DEF StreamWrites, Inv, TypeOK
<1> QED BY <1>2, <1>3, <1>4

\* BackOnlyBetweenPaths: the sharing of calls through inFlight keeps REST
\* answers in order, so a price goes back only where the two paths meet.
THEOREM BackOnlyBetweenPathsHolds == Spec => BackOnlyBetweenPaths
<1>1. Inv /\ [Next]_vars =>
        (\A y \in Symbol : cache'[y] < cache[y] => source'[y] # source[y])
  BY StepBackOnlyBetweenPaths
<1> QED BY <1>1, Invariance, PTL DEF Spec, BackOnlyBetweenPaths
=============================================================================
