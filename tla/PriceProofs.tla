---------------------------- MODULE PriceProofs ----------------------------
(***************************************************************************)
(* Theorems about Price, for any currencies and any number of requests.    *)
(***************************************************************************)
EXTENDS Price, TLAPS

Answers ==
  [at : {"free", "sent", "asking", "fallback", "priced", "answered"},
   mine : BOOLEAN, currency : Amounts, price : Amounts, last : Amounts,
   lastCode : Amounts, net : NetStates]

\* The two fields of the cache belong together, and so do their copies in an
\* answer and in the panel.
Pair(a, c) == a # "none" => a = c

\* What a request carries.
Good(q) == /\ q \in Answers
           /\ q.at \in {"sent", "asking", "fallback", "priced"}
                => q.currency \in Currencies
           /\ q.price \in {"none", q.currency}
           /\ Pair(q.last, q.lastCode)

CacheInv == /\ known \in Amounts /\ knownCode \in Currencies
            /\ Pair(known, knownCode) /\ net \in NetStates

RequestsInv == /\ request \in [Requests -> Answers]
               /\ \A r \in Requests : Good(request[r])

PageInv == /\ chosen \in Currencies /\ dot \in NetStates
           /\ panel \in {Dashes} \cup
                [kind : {"live", "last"}, amount : Currencies,
                 symbol : Currencies]
           /\ LastPriceIsLabelled

Inv == CacheInv /\ RequestsInv /\ PageInv

-----------------------------------------------------------------------------
LEMMA NoRequestIsGood == Good(NoRequest)
BY PriceAssumption DEF NoRequest, Good, Answers, Amounts, NetStates, Pair

LEMMA SentIsGood ==
  ASSUME NEW c \in Currencies, NEW mine \in BOOLEAN
  PROVE  Good(Sent(c, mine))
<1>1. NoRequest \in Answers /\ c \in Amounts /\ "sent" \in
        {"free", "sent", "asking", "fallback", "priced", "answered"}
  BY NoRequestIsGood DEF Good, Amounts
<1>2. /\ Sent(c, mine) \in Answers
      /\ Sent(c, mine).currency = c
      /\ Sent(c, mine).price = NoRequest.price
      /\ Sent(c, mine).last = NoRequest.last
  BY <1>1 DEF Sent, Answers
<1>3. NoRequest.price = "none" /\ NoRequest.last = "none"
  BY DEF NoRequest
<1> QED BY <1>2, <1>3 DEF Good, Pair

LEMMA InitInv == Init => Inv
BY NoRequestIsGood, PriceAssumption
   DEF Init, Inv, CacheInv, RequestsInv, PageInv, Good, Amounts, NetStates,
       Pair, LastPriceIsLabelled, Dashes

\* Putting a good request in place keeps the requests good.
LEMMA PutGood ==
  ASSUME RequestsInv, NEW r \in Requests, NEW q, Good(q),
         request' = [request EXCEPT ![r] = q]
  PROVE  RequestsInv'
BY DEF RequestsInv, Good

\* The cached price is one of the currency that was asked for.
LEMMA CachedIsAsked ==
  ASSUME CacheInv, NEW c \in Currencies
  PROVE  Cached(c) \in {"none", c}
BY DEF CacheInv, Cached, Pair

LEMMA PricedIsGood ==
  ASSUME RequestsInv, NEW r \in Requests, NEW a,
         request[r].at \in {"sent", "asking", "fallback"},
         a \in {"none", request[r].currency}, request' = Priced(r, a)
  PROVE  RequestsInv'
<1> DEFINE q == [request[r] EXCEPT !.at = "priced", !.price = a]
<1>1. request[r] \in Answers /\ Good(request[r])
  BY DEF RequestsInv
<1>2. a \in Amounts
  BY <1>1 DEF Good, Amounts
<1>3. Good(q)
  BY <1>1, <1>2 DEF Good, Answers
<1>4. request' = [request EXCEPT ![r] = q]
  BY <1>1 DEF Priced, RequestsInv
<1> QED BY <1>3, <1>4, PutGood

LEMMA ServeInv ==
  ASSUME Inv, NEW r \in Requests, Serve(r)
  PROVE  Inv'
<1>0. Good(request[r]) /\ request[r] \in Answers
  BY DEF Inv, RequestsInv
<1>1. request[r].at \in {"sent", "asking", "fallback"}
        => request[r].currency \in Currencies
  BY <1>0 DEF Good
<1>2. UNCHANGED page
  BY DEF Serve, Gate, Quoted, NotQuoted, FallBack, Answer
<1>3. PageInv'
  BY <1>2 DEF Inv, PageInv, page, LastPriceIsLabelled
<1>4. CacheInv'
  <2>1. CASE Quoted(r)
    BY <1>1, <2>1
       DEF Quoted, Note, Inv, CacheInv, Amounts, Pair, NetStates
  <2>2. CASE NotQuoted(r)
    BY <2>2 DEF NotQuoted, Inv, CacheInv, NetStates
  <2>3. CASE Gate(r) \/ FallBack(r) \/ Answer(r)
    BY <2>3 DEF Gate, FallBack, Answer, Inv, CacheInv, server
  <2> QED BY <2>1, <2>2, <2>3 DEF Serve
<1>5. RequestsInv'
  <2> USE DEF Inv
  <2>1. CASE Gate(r)
    <3>1. CASE net = "red"
      BY <1>1, <2>1, <3>1, CachedIsAsked, PricedIsGood DEF Gate
    <3>2. CASE net # "red"
      <4>1. Good([request[r] EXCEPT !.at = "asking"])
        BY <1>0, <1>1, <2>1 DEF Gate, Good, Answers
      <4>2. request' = [request EXCEPT
                          ![r] = [request[r] EXCEPT !.at = "asking"]]
        BY <2>1, <3>2 DEF Gate, RequestsInv
      <4> QED BY <4>1, <4>2, PutGood
    <3> QED BY <3>1, <3>2
  <2>2. CASE Quoted(r)
    BY <2>2, PricedIsGood DEF Quoted
  <2>3. CASE NotQuoted(r)
    <3>1. Good([request[r] EXCEPT !.at = "fallback"])
      BY <1>0, <1>1, <2>3 DEF NotQuoted, Good, Answers
    <3>2. request' = [request EXCEPT
                        ![r] = [request[r] EXCEPT !.at = "fallback"]]
      BY <2>3 DEF NotQuoted, RequestsInv
    <3> QED BY <3>1, <3>2, PutGood
  <2>4. CASE FallBack(r)
    BY <1>1, <2>4, CachedIsAsked, PricedIsGood DEF FallBack
  <2>5. CASE Answer(r)
    <3>1. CASE request[r].mine
      <4> DEFINE q == [request[r] EXCEPT !.at = "answered", !.last = known,
                                         !.lastCode = knownCode, !.net = net]
      <4>1. Good(q)
        BY <1>0 DEF CacheInv, Good, Answers, Amounts
      <4>2. request' = [request EXCEPT ![r] = q]
        BY <2>5, <3>1 DEF Answer
      <4> QED BY <4>1, <4>2, PutGood
    <3>2. CASE ~request[r].mine
      BY <2>5, <3>2, NoRequestIsGood, PutGood DEF Answer
    <3> QED BY <3>1, <3>2
  <2> QED BY <2>1, <2>2, <2>3, <2>4, <2>5 DEF Serve
<1> QED BY <1>3, <1>4, <1>5 DEF Inv

LEMMA NextInv == Inv /\ [Next]_vars => Inv'
<1> SUFFICES ASSUME Inv, [Next]_vars PROVE Inv'
  OBVIOUS
<1>1. CASE NetworkChange
  BY <1>1 DEF NetworkChange, page, Inv, CacheInv, RequestsInv, PageInv,
              LastPriceIsLabelled
<1>2. ASSUME NEW r \in Requests, Poll(r) PROVE Inv'
  <2>1. Good(Sent(AskedFor, TRUE))
    BY SentIsGood DEF Inv, PageInv, AskedFor
  <2>2. RequestsInv'
    BY <1>2, <2>1, PutGood DEF Poll, Inv
  <2> QED BY <1>2, <2>2 DEF Poll, server, page, Inv, CacheInv, PageInv,
             LastPriceIsLabelled
<1>3. ASSUME NEW r \in Requests, NEW c \in Currencies,
             PickCurrency(r, c) \/ OtherRequest(r, c)
      PROVE  Inv'
  <2>1. RequestsInv'
    BY <1>3, SentIsGood, PutGood DEF PickCurrency, OtherRequest, Inv
  <2> QED BY <1>3, <2>1 DEF PickCurrency, OtherRequest, server, page, Inv,
             CacheInv, PageInv, LastPriceIsLabelled
<1>4. ASSUME NEW r \in Requests, Receive(r) PROVE Inv'
  <2>1. RequestsInv'
    BY <1>4, NoRequestIsGood, PutGood DEF Receive, Inv
  <2>2. Good(request[r]) /\ request[r] \in Answers /\ chosen \in Currencies
    BY DEF Inv, RequestsInv, PageInv
  <2>3. dot' \in NetStates
    BY <1>4, <2>2 DEF Receive, Dot, Answers
  <2>4. /\ panel' \in {Dashes} \cup [kind : {"live", "last"},
                          amount : Currencies, symbol : Currencies]
        /\ panel'.kind = "last" => panel'.amount = panel'.symbol
    <3>1. CASE request[r].price # "none"
      <4>1. panel' = Live(request[r].price, chosen)
        BY <1>4, <3>1 DEF Receive, Panel
      <4> QED BY <2>2, <3>1, <4>1 DEF Live, Answers, Amounts
    <3>2. CASE request[r].price = "none" /\ HasLastKnown(request[r])
      <4>1. panel' = LastKnown(request[r].last, request[r].lastCode)
        BY <1>4, <3>2 DEF Receive, Panel
      <4>2. request[r].last = request[r].lastCode
            /\ request[r].last \in Currencies
        BY <2>2, <3>2 DEF HasLastKnown, Good, Pair, Answers, Amounts
      <4> QED BY <4>1, <4>2 DEF LastKnown
    <3>3. CASE request[r].price = "none" /\ ~HasLastKnown(request[r])
      BY <1>4, <3>3 DEF Receive, Panel, Dashes
    <3> QED BY <3>1, <3>2, <3>3
  <2> QED BY <1>4, <2>1, <2>3, <2>4 DEF Receive, server, Inv, CacheInv,
             PageInv, LastPriceIsLabelled
<1>5. ASSUME NEW r \in Requests, Lose(r) PROVE Inv'
  <2>1. RequestsInv'
    BY <1>5, NoRequestIsGood, PutGood DEF Lose, Inv
  <2> QED BY <1>5, <2>1 DEF Lose, server, page, Inv, CacheInv, PageInv,
             LastPriceIsLabelled
<1>6. CASE UNCHANGED vars
  BY <1>6 DEF vars, Inv, CacheInv, RequestsInv, PageInv, LastPriceIsLabelled
<1> QED BY <1>1, <1>2, <1>3, <1>4, <1>5, <1>6, ServeInv DEF Next

LEMMA InvHolds == Spec => []Inv
BY InitInv, NextInv, PTL DEF Spec

\* Every variable stays in its domain.
THEOREM TypeCorrect == Spec => []TypeOK
<1>1. Inv => TypeOK
  BY DEF Inv, CacheInv, RequestsInv, PageInv, TypeOK, Answers
<1> QED BY <1>1, InvHolds, PTL

\* No answer carries a price of a currency other than the one asked for.
THEOREM AnswersAreAsRequested == Spec => []PriceIsAsRequested
<1>1. Inv => PriceIsAsRequested
  BY DEF Inv, RequestsInv, Good, PriceIsAsRequested
<1> QED BY <1>1, InvHolds, PTL

\* The last price is shown with the symbol of the currency it was quoted in.
THEOREM LastPriceHasItsSymbol == Spec => []LastPriceIsLabelled
<1>1. Inv => LastPriceIsLabelled
  BY DEF Inv, PageInv
<1> QED BY <1>1, InvHolds, PTL
=============================================================================
