---------------------------- MODULE Subscriptions ----------------------------
(***************************************************************************)
(* What the market service promises its clients, without counts,           *)
(* registries, sockets that close or connections to Binance: a client      *)
(* changes its own subscriptions and nobody else's, the service wants from *)
(* Binance what some client holds and nothing else, and a ticker goes only *)
(* to clients that hold its symbol.                                        *)
(***************************************************************************)
CONSTANTS
  Client,   \* the clients
  Symbol,   \* the symbols
  Time      \* event times of tickers

VARIABLES
  held,     \* the subscriptions: pairs of a client and a symbol
  wanted,   \* the symbols wanted from Binance
  sent      \* the tickers that the last step sent

vars == <<held, wanted, sent>>

\* The symbols that some client holds.
HeldSymbols == {y \in Symbol : \E s \in Client : <<s, y>> \in held}

Init == held = {} /\ wanted = {} /\ sent = {}

\* Client s subscribes to ys, or drops ys.
Change(s, ys) ==
  /\ \/ held' = held \cup ({s} \X ys)
     \/ held' = held \ ({s} \X ys)
  /\ wanted' = HeldSymbols'
  /\ sent' = {}

\* A ticker of y arrives. A client that is leaving may miss it.
Deliver(y, t) ==
  /\ sent' \subseteq {[socket |-> s, symbol |-> y, tick |-> t] :
                        s \in {s \in Client : <<s, y>> \in held}}
  /\ UNCHANGED <<held, wanted>>

\* Anything else that happens sends nothing.
Quiet == sent' = {} /\ UNCHANGED <<held, wanted>>

Next ==
  \/ Quiet
  \/ \E y \in Symbol, t \in Time : Deliver(y, t)
  \/ \E s \in Client, ys \in SUBSET Symbol : Change(s, ys)

Spec == Init /\ [][Next]_vars
=============================================================================
