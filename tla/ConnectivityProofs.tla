------------------------- MODULE ConnectivityProofs -------------------------
(***************************************************************************)
(* Proofs about Connectivity, for any set of calling threads.  Only the    *)
(* monitor sets the state red, and it leaves its loop only when it sees    *)
(* the green state or the stop: with TypeOK, RedIsWatched is inductive.    *)
(***************************************************************************)
EXTENDS Connectivity, TLAPS

LEMMA InitType == Init => TypeOK
<1> SUFFICES ASSUME Init PROVE TypeOK
  OBVIOUS
<1>1. successes \in 0..(SuccessesNeeded - 1)
  BY DEF Init, SuccessesNeeded
<1>2. stopped \in BOOLEAN
  BY DEF Init
<1> QED BY <1>1, <1>2 DEF Init, TypeOK

LEMMA CountSuccessType ==
  ASSUME TypeOK, CountSuccess
  PROVE  successes' \in 0..(SuccessesNeeded - 1)
         /\ since' \in {"none", "recent", "old"}
BY DEF TypeOK, CountSuccess, Completes, SuccessesNeeded

LEMMA CallerType ==
  ASSUME TypeOK, NEW c \in Callers, Request(c) \/ Caller(c)
  PROVE  TypeOK'
<1> USE DEF TypeOK
<1>1. CASE Request(c)
  BY <1>1 DEF Request
<1>2. CASE RequestSucceeds(c)
  BY <1>2, CountSuccessType DEF RequestSucceeds
<1>3. CASE CallerSetsGreen(c)
  BY <1>3 DEF CallerSetsGreen
<1>4. CASE RequestFails(c)
  BY <1>4 DEF RequestFails, SuccessesNeeded
<1>5. CASE CallerSetsYellow(c)
  BY <1>5 DEF CallerSetsYellow
<1>6. CASE EnsureChecker(c)
  BY <1>6 DEF EnsureChecker, Ensured
<1> QED BY <1>1, <1>2, <1>3, <1>4, <1>5, <1>6 DEF Caller

LEMMA CheckerType == TypeOK /\ Checker => TypeOK'
<1> SUFFICES ASSUME TypeOK, Checker PROVE TypeOK'
  OBVIOUS
<1> USE DEF TypeOK
<1>1. CASE CheckTop
  BY <1>1 DEF CheckTop
<1>2. CASE ProbeSucceeds
  BY <1>2, CountSuccessType DEF ProbeSucceeds
<1>3. CASE CheckerSetsGreen
  BY <1>3 DEF CheckerSetsGreen
<1>4. CASE ProbeFails
  BY <1>4 DEF ProbeFails, SuccessesNeeded
<1>5. CASE CheckerSetsRed
  BY <1>5 DEF CheckerSetsRed
<1>6. CASE CheckWait
  BY <1>6 DEF CheckWait
<1>7. CASE CheckerEnds
  BY <1>7 DEF CheckerEnds
<1> QED BY <1>1, <1>2, <1>3, <1>4, <1>5, <1>6, <1>7 DEF Checker

\* The count of successes never reaches the number that turns the state
\* green, and every other variable stays in its domain.
THEOREM TypeCorrect == Spec => []TypeOK
<1>1. TypeOK /\ [Next]_vars => TypeOK'
  <2> SUFFICES ASSUME TypeOK, [Next]_vars PROVE TypeOK'
    OBVIOUS
  <2>1. CASE TenSecondsPass \/ InternetChanges \/ Stop \/ UNCHANGED vars
    BY <2>1 DEF TypeOK, TenSecondsPass, InternetChanges, Stop, vars
  <2> QED BY <2>1, CallerType, CheckerType DEF Next
<1> QED BY InitType, <1>1, PTL DEF Spec

\* While the state is red the monitor is in its loop, or the application is
\* stopping: the red state cannot be left without anyone looking.
THEOREM RedStateIsWatched == Spec => []RedIsWatched
<1>1. Init => RedIsWatched
  BY DEF Init, RedIsWatched
<1>2. RedIsWatched /\ [Next]_vars => RedIsWatched'
  <2> SUFFICES ASSUME RedIsWatched, [Next]_vars PROVE RedIsWatched'
    OBVIOUS
  <2> USE DEF RedIsWatched, Watching
  <2>1. ASSUME NEW c \in Callers, Request(c) \/ Caller(c)
        PROVE  RedIsWatched'
    BY <2>1 DEF Request, Caller, RequestSucceeds, CallerSetsGreen,
                RequestFails, CallerSetsYellow, EnsureChecker, Ensured
  <2>2. CASE CheckTop
    BY <2>2 DEF CheckTop, StopSeen, MayLeave
  <2>3. CASE Checker /\ ~CheckTop
    BY <2>3 DEF Checker, ProbeSucceeds, CheckerSetsGreen, ProbeFails,
                CheckerSetsRed, CheckWait, CheckerEnds
  <2>4. CASE TenSecondsPass \/ InternetChanges \/ Stop \/ UNCHANGED vars
    BY <2>4 DEF TenSecondsPass, InternetChanges, Stop, vars
  <2> QED BY <2>1, <2>2, <2>3, <2>4 DEF Next
<1> QED BY <1>1, <1>2, PTL DEF Spec
=============================================================================
