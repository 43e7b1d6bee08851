------------------------------- MODULE Price -------------------------------
(***************************************************************************)
(* The price of Bitcoin: ConnectivityService.fetch_price and its cache of  *)
(* the last price (src/services/connectivity.py), the answer of /api/info  *)
(* that NodeService.dashboard_info builds (src/services/node.py), and what *)
(* fetchInfo makes of it in the page (src/static/js/app.js): the price     *)
(* panel and the dot of the internet connection.  The page polls, and asks *)
(* again when the user picks a currency; its answers may overtake each     *)
(* other.  Other pages, with currencies of their own, share the cache.     *)
(*                                                                         *)
(* An amount is known by the currency it was quoted in.  The prompt that   *)
(* fetchInfo may also lead to is not part of this module.                  *)
(***************************************************************************)
CONSTANTS
  Currencies,  \* the currencies to choose from
  Requests     \* the requests under way at a time

ASSUME PriceAssumption == "none" \notin Currencies

VARIABLES
  known,      \* last_known_price: the currency its amount is in, or "none"
  knownCode,  \* last_price_currency
  net,        \* internet_state
  request,    \* each request, on its way through the server and back
  chosen,     \* btcCurrency, the currency the page shows
  dot,        \* the state that the page's internet-dot shows
  panel       \* the price panel

server == <<known, knownCode, net>>
page   == <<chosen, dot, panel>>
vars   == <<known, knownCode, net, request, chosen, dot, panel>>

NetStates == {"green", "yellow", "red"}
Amounts   == Currencies \cup {"none"}

\* A request: where it is, whether the page waits for it, its currency, and
\* the answer's btc_price, last_known_price, last_price_currency and
\* internet_state.
NoRequest == [at |-> "free", mine |-> FALSE, currency |-> "none",
              price |-> "none", last |-> "none", lastCode |-> "none",
              net |-> "green"]

Sent(c, mine) == [NoRequest EXCEPT !.at = "sent", !.mine = mine, !.currency = c]

\* The panel: a price, the last price with asterisks, or dashes.
Dashes          == [kind |-> "dashes", amount |-> "none", symbol |-> "none"]
Live(a, s)      == [kind |-> "live", amount |-> a, symbol |-> s]
LastKnown(a, s) == [kind |-> "last", amount |-> a, symbol |-> s]

-----------------------------------------------------------------------------
Init ==
  /\ known = "none" /\ knownCode \in Currencies /\ net = "green"
  /\ request = [r \in Requests |-> NoRequest]
  /\ chosen \in Currencies /\ dot = "green" /\ panel = Dashes

(***************************************************************************)
(* Requests.                                                               *)
(***************************************************************************)

\* Mutant: the poll was set up with the currency of that time.
ValueAtStart == CHOOSE c \in Currencies : TRUE

\* `/api/info?currency=${btcCurrency}`
AskedFor == chosen

\* fetchInfo, by the timer.
Poll(r) ==
  /\ request[r].at = "free"
  /\ request' = [request EXCEPT ![r] = Sent(AskedFor, TRUE)]
  /\ UNCHANGED <<server, page>>

\* A click in the currency menu, which calls fetchInfo at once.
PickCurrency(r, c) ==
  /\ request[r].at = "free"
  /\ chosen' = c
  /\ request' = [request EXCEPT ![r] = Sent(c, TRUE)]
  /\ UNCHANGED <<server, dot, panel>>

\* Another page's request, or one of /api/mempool.
OtherRequest(r, c) ==
  /\ request[r].at = "free"
  /\ request' = [request EXCEPT ![r] = Sent(c, FALSE)]
  /\ UNCHANGED <<server, page>>

(***************************************************************************)
(* fetch_price and dashboard_info, in a thread of the server.              *)
(***************************************************************************)

\* Mutant: the cached price is returned whatever its currency.
AnyCached(c) == known

\* _cached_price
Cached(c) == IF knownCode = c THEN known ELSE "none"

Priced(r, a) == [request EXCEPT ![r].at = "priced", ![r].price = a]

\* In the red state the cache answers.
Gate(r) ==
  /\ request[r].at = "sent"
  /\ request' = IF net = "red" THEN Priced(r, Cached(request[r].currency))
                ELSE [request EXCEPT ![r].at = "asking"]
  /\ UNCHANGED <<server, page>>

\* last_known_price and last_price_currency, under the lock.
Note(c) == known' = c /\ knownCode' = c

\* Coinbase answers; network_success may turn the state green.
Quoted(r) ==
  /\ request[r].at = "asking"
  /\ Note(request[r].currency)
  /\ net' \in {net, "green"}
  /\ request' = Priced(r, request[r].currency)
  /\ UNCHANGED page

\* No price: network_failure turns the state yellow.
NotQuoted(r) ==
  /\ request[r].at = "asking"
  /\ net' = "yellow"
  /\ request' = [request EXCEPT ![r].at = "fallback"]
  /\ UNCHANGED <<known, knownCode, page>>

\* The cache is read after the failure has been reported.
FallBack(r) ==
  /\ request[r].at = "fallback"
  /\ request' = Priced(r, Cached(request[r].currency))
  /\ UNCHANGED <<server, page>>

\* snapshot, after the price; only the page's own answers are followed.
Answer(r) ==
  /\ request[r].at = "priced"
  /\ request' = [request EXCEPT ![r] =
       IF request[r].mine
       THEN [request[r] EXCEPT !.at = "answered", !.last = known,
                               !.lastCode = knownCode, !.net = net]
       ELSE NoRequest]
  /\ UNCHANGED <<server, page>>

Serve(r) == Gate(r) \/ Quoted(r) \/ NotQuoted(r) \/ FallBack(r) \/ Answer(r)

(***************************************************************************)
(* The page.                                                               *)
(***************************************************************************)

\* Mutant: a missing price is shown as the last known one in any case.
AlwaysLastKnown(answer) == TRUE

\* else if (info.last_known_price)
HasLastKnown(answer) == answer.last # "none"

\* updateBtcPricePanel
Panel(answer) ==
  IF answer.price # "none" THEN Live(answer.price, chosen)
  ELSE IF HasLastKnown(answer) THEN LastKnown(answer.last, answer.lastCode)
  ELSE Dashes

\* updateInternetDot
Dot(state) == state

\* The rest of fetchInfo.
Receive(r) ==
  /\ request[r].at = "answered"
  /\ panel' = Panel(request[r])
  /\ dot' = Dot(request[r].net)
  /\ request' = [request EXCEPT ![r] = NoRequest]
  /\ UNCHANGED <<server, chosen>>

\* The answer does not arrive, or is an error: the page stays as it is.
Lose(r) ==
  /\ request[r].at = "answered"
  /\ request' = [request EXCEPT ![r] = NoRequest]
  /\ UNCHANGED <<server, page>>

-----------------------------------------------------------------------------
\* The monitor and the lookup thread (module Connectivity) move the state.
NetworkChange ==
  /\ net' \in NetStates \ {net}
  /\ UNCHANGED <<known, knownCode, request, page>>

Next ==
  \/ NetworkChange
  \/ \E r \in Requests : \/ Poll(r) \/ Serve(r) \/ Receive(r) \/ Lose(r)
                         \/ \E c \in Currencies : \/ PickCurrency(r, c)
                                                  \/ OtherRequest(r, c)

Spec == Init /\ [][Next]_vars

\* The timer goes on, requests end by their time-outs, and some answers
\* arrive.  (That a request may have to wait for a free place is due to the
\* bound on requests only.)
FairSpec ==
  /\ Spec
  /\ SF_vars(\E r \in Requests : Poll(r))
  /\ \A r \in Requests : WF_vars(Serve(r)) /\ SF_vars(Receive(r))

-----------------------------------------------------------------------------
(***************************************************************************)
(* Properties.                                                             *)
(***************************************************************************)
TypeOK ==
  /\ known \in Amounts /\ knownCode \in Currencies /\ net \in NetStates
  /\ request \in [Requests ->
       [at : {"free", "sent", "asking", "fallback", "priced", "answered"},
        mine : BOOLEAN, currency : Amounts, price : Amounts, last : Amounts,
        lastCode : Amounts, net : NetStates]]
  /\ chosen \in Currencies /\ dot \in NetStates
  /\ panel \in {Dashes} \cup [kind : {"live", "last"}, amount : Currencies,
                              symbol : Currencies]

\* The price of an answer is in the currency that was asked for, although
\* other requests overwrite the cache with prices in theirs while this one
\* waits for Coinbase.
PriceIsAsRequested ==
  \A r \in Requests : request[r].price \in {"none", request[r].currency}

\* The last price, which may be of a currency that is no longer chosen, is
\* shown with its own symbol.
LastPriceIsLabelled == panel.kind = "last" => panel.amount = panel.symbol

\* Whatever overtakes what, some time after the last choice no price of
\* another currency is shown as one of the chosen.
SettlesOnChoice ==
  <>[][UNCHANGED chosen]_vars
    => <>[](panel.kind = "live" => panel.amount = panel.symbol)

=============================================================================
