---------------------------- MODULE PriceService ----------------------------
(***************************************************************************)
(* GET /prices: tickers from a cache that is refreshed from Binance's REST *)
(* API when an entry is missing or older than the TTL. Calls to Binance    *)
(* are shared through the inFlight map, a missing ticker is waited for,    *)
(* an old one is answered at once and refreshed in the background. The     *)
(* market stream writes the same cache.                                    *)
(*                                                                         *)
(* What an ended call does (the cache entry, inFlight, the requests that   *)
(* waited) happens in the microtasks of one turn of the event loop, and is *)
(* one action.                                                             *)
(***************************************************************************)
EXTENDS Naturals, FiniteSets

CONSTANTS
  Symbol,    \* the symbols in upper case, as the cache knows them
  Request,   \* slots for requests that wait
  MaxTick    \* bound: the tickers that Binance computes per symbol

ASSUME TickAssumption == MaxTick \in Nat \ {0}

VARIABLES
  tick,      \* tick[y]: event time of Binance's newest ticker of y
  cache,     \* cache[y]: event time of the cached ticker, 0 if there is none
  source,    \* source[y]: who wrote the entry of y, "none" if nobody did
  stale,     \* the symbols whose entry is older than the TTL
  inFlight,  \* the keys of the inFlight map
  calls,     \* REST calls that have not ended; answer is 0 until Binance computes it
  waits      \* waits[r]: the symbols whose calls r awaits, {} when r is answered

vars == <<tick, cache, source, stale, inFlight, calls, waits>>

Call == [symbol : Symbol, answer : 0 .. MaxTick]

-----------------------------------------------------------------------------
(* Serving a request *)

\* Case C: nothing is cached.
Missing(ys) == {y \in ys : cache[y] = 0}

\* Case B: the entry is older than the TTL.
Refreshed(ys) == (ys \ Missing(ys)) \cap stale

\* Mutated form: fetchAndCache does not look for a call in flight.
CalledAlways(ys) == ys

\* fetchAndCache starts a call unless one for the symbol is in flight.
Called(ys) == ys \ inFlight

\* GET /prices for the symbols ys. Without a missing one it is answered in the
\* same turn; else Promise.all waits for the calls of the missing ones.
Serve(r, ys) ==
  LET wanted == Called(Missing(ys) \cup Refreshed(ys)) IN
  /\ waits[r] = {}
  /\ inFlight' = inFlight \cup wanted
  /\ calls' = calls \cup [symbol : wanted, answer : {0}]
  /\ waits' = [waits EXCEPT ![r] = Missing(ys)]
  /\ UNCHANGED <<tick, cache, source, stale>>

-----------------------------------------------------------------------------
(* Calls to Binance *)

\* Binance computes the answer; what it says may be old when it arrives.
Compute(c) ==
  /\ c \in calls /\ c.answer = 0
  /\ calls' = (calls \ {c}) \cup {[c EXCEPT !.answer = tick[c.symbol]]}
  /\ UNCHANGED <<tick, cache, source, stale, inFlight, waits>>

\* Mutated form: the in-flight entry goes only when the call succeeds.
SettledIfAnswered(c) ==
  /\ calls' = calls \ {c}
  /\ inFlight' = IF c.answer # 0 THEN inFlight \ {c.symbol} ELSE inFlight

\* finally: the call leaves the in-flight map, however it ended.
Settled(c) ==
  /\ calls' = calls \ {c}
  /\ inFlight' = inFlight \ {c.symbol}

\* The call returns: the ticker is cached, and whoever waited has it. A request
\* that waits for nothing more is answered with 200.
Complete(c) ==
  /\ c \in calls /\ c.answer # 0
  /\ Settled(c)
  /\ cache' = [cache EXCEPT ![c.symbol] = c.answer]
  /\ source' = [source EXCEPT ![c.symbol] = "rest"]
  /\ stale' = stale \ {c.symbol}
  /\ waits' = [r \in Request |-> waits[r] \ {c.symbol}]
  /\ UNCHANGED tick

\* Mutated form: a failed background refresh is not told apart from a failed
\* fetch, and the waiting requests go on waiting.
ReleaseNobody(c) == waits

\* Promise.all rejects: a request that waited for the symbol is answered with
\* 502, whatever else it waited for.
Release(c) == [r \in Request |-> IF c.symbol \in waits[r] THEN {} ELSE waits[r]]

\* The call fails. A background refresh fails silently; the entry stays.
Fail(c) ==
  /\ c \in calls
  /\ Settled(c)
  /\ waits' = Release(c)
  /\ UNCHANGED <<tick, cache, source, stale>>

-----------------------------------------------------------------------------
(* What happens around the service *)

\* Binance has a newer ticker of y.
Move(y) ==
  /\ tick[y] < MaxTick
  /\ tick' = [tick EXCEPT ![y] = @ + 1]
  /\ UNCHANGED <<cache, source, stale, inFlight, calls, waits>>

\* The TTL of an entry runs out.
Expire(y) ==
  /\ cache[y] # 0 /\ y \notin stale
  /\ stale' = stale \cup {y}
  /\ UNCHANGED <<tick, cache, source, inFlight, calls, waits>>

\* The market stream caches a ticker: one that it was sent some time ago, but
\* newer than the last it cached.
StreamWrites(y, t) ==
  /\ t <= tick[y] /\ (source[y] = "stream" => t > cache[y])
  /\ cache' = [cache EXCEPT ![y] = t]
  /\ source' = [source EXCEPT ![y] = "stream"]
  /\ stale' = stale \ {y}
  /\ UNCHANGED <<tick, inFlight, calls, waits>>

-----------------------------------------------------------------------------
(* The specification *)

Init ==
  /\ tick = [y \in Symbol |-> 1]
  /\ cache = [y \in Symbol |-> 0] /\ source = [y \in Symbol |-> "none"]
  /\ stale = {} /\ inFlight = {} /\ calls = {}
  /\ waits = [r \in Request |-> {}]

Serving == \E r \in Request, ys \in SUBSET Symbol : ys # {} /\ Serve(r, ys)

Answering == \E c \in calls : Compute(c) \/ Complete(c) \/ Fail(c)

Around ==
  \E y \in Symbol :
    Move(y) \/ Expire(y) \/ \E t \in 1 .. MaxTick : StreamWrites(y, t)

Next == Serving \/ Answering \/ Around

Spec == Init /\ [][Next]_vars

\* Every REST call ends, with an answer or an error. (The code sets no timeout:
\* this is what the network and Binance are trusted with.)
EndCall(y) == \E c \in calls : c.symbol = y /\ (Complete(c) \/ Fail(c))

Fairness == \A y \in Symbol : WF_vars(EndCall(y))

FairSpec == Spec /\ Fairness

-----------------------------------------------------------------------------
(* Properties *)

\* The variables stay in their types.
TypeOK ==
  /\ tick \in [Symbol -> 1 .. MaxTick]
  /\ cache \in [Symbol -> 0 .. MaxTick]
  /\ source \in [Symbol -> {"none", "rest", "stream"}]
  /\ stale \subseteq Symbol /\ inFlight \subseteq Symbol
  /\ calls \subseteq Call
  /\ waits \in [Request -> SUBSET Symbol]

\* The in-flight map and the calls agree: one call per symbol however requests
\* and background refreshes overlap, an entry in the map exactly while its call
\* lasts, and nobody waits for a symbol that no call will answer.
InFlightAgrees ==
  /\ inFlight = {c.symbol : c \in calls}
  /\ \A c, d \in calls : c.symbol = d.symbol => c = d
  /\ \A r \in Request : waits[r] \subseteq inFlight

\* A cached price is never lost, and goes back only where the two ways into the
\* cache meet: neither REST answers nor stream tickers ever replace a price of
\* their own by an older one, whatever is late, refreshed or retried.
BackOnlyBetweenPaths ==
  [][\A y \in Symbol : cache'[y] < cache[y] => source'[y] # source[y]]_vars

\* A request that waits is answered in the end, also when calls fail.
PricesAnswered == \A r \in Request : waits[r] # {} ~> waits[r] = {}
=============================================================================
