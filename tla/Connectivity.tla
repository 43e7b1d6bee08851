---------------------------- MODULE Connectivity ----------------------------
(***************************************************************************)
(* ConnectivityService (src/services/connectivity.py): the green, yellow   *)
(* or red state of the internet connection.  The threads that call out     *)
(* (price requests, the geolocation lookup) report each success and        *)
(* failure; the first failure starts the "connectivity-monitor" thread,    *)
(* which probes until the state is green again.  A report and the change   *)
(* of state it leads to are two lock regions, so are the monitor's look at *)
(* the clock and the change to red: each region is one action.             *)
(*                                                                         *)
(* The counters of the geolocation API and of its prompt, which no branch  *)
(* of these methods reads, are left out; the price is in Price.            *)
(***************************************************************************)
EXTENDS Naturals

CONSTANT Callers  \* the threads that make outgoing requests

VARIABLES
  state,      \* internet_state
  successes,  \* consecutive_successes
  since,      \* failure_started_at: "none", "recent", "old" (10 s or more)
  caller,     \* where each calling thread is
  checker,    \* where the monitor thread is; "none" when it is not alive
  up,         \* whether www.google.com answers the probes
  stopped     \* stop_event

vars == <<state, successes, since, caller, checker, up, stopped>>

\* The successes in a row that turn the state green again.
SuccessesNeeded == 4

-----------------------------------------------------------------------------
Init ==
  /\ state = "green" /\ successes = 0 /\ since = "none"
  /\ caller = [c \in Callers |-> "idle"]
  /\ checker = "none"
  /\ up \in BOOLEAN /\ stopped = FALSE

(***************************************************************************)
(* network_success, shared by the callers and the monitor.                 *)
(***************************************************************************)

\* Mutant: the success that completes the row is kept in the count.
CompletesLate == state # "green" /\ successes = SuccessesNeeded

\* This success completes the row.
Completes == state # "green" /\ successes + 1 = SuccessesNeeded

\* Mutant: successes are counted in the yellow state only.
CountInYellow ==
  /\ successes' = IF Completes THEN 0
                  ELSE IF state # "yellow" THEN successes ELSE successes + 1
  /\ since' = IF Completes THEN "none" ELSE since

\* The lock region of network_success.
CountSuccess ==
  /\ successes' = IF Completes THEN 0
                  ELSE IF state = "green" THEN successes ELSE successes + 1
  /\ since' = IF Completes THEN "none" ELSE since

(***************************************************************************)
(* A calling thread: fetch_price, or _fetch_geo in the lookup thread.      *)
(***************************************************************************)

\* fetch_price makes no request in the red state; _fetch_geo needs green.
Request(c) ==
  /\ caller[c] = "idle" /\ state # "red"
  /\ caller' = [caller EXCEPT ![c] = "request"]
  /\ UNCHANGED <<state, successes, since, checker, up, stopped>>

\* The request succeeds: network_success up to its _set_state.
RequestSucceeds(c) ==
  /\ caller[c] = "request"
  /\ CountSuccess
  /\ caller' = [caller EXCEPT ![c] = IF Completes THEN "green" ELSE "idle"]
  /\ UNCHANGED <<state, checker, up, stopped>>

CallerSetsGreen(c) ==
  /\ caller[c] = "green"
  /\ state' = "green"
  /\ caller' = [caller EXCEPT ![c] = "idle"]
  /\ UNCHANGED <<successes, since, checker, up, stopped>>

\* The request fails: the lock region of network_failure.
RequestFails(c) ==
  /\ caller[c] = "request"
  /\ successes' = 0
  /\ since' = IF state = "green" THEN "recent" ELSE since
  /\ caller' = [caller EXCEPT ![c] = "yellow"]
  /\ UNCHANGED <<state, checker, up, stopped>>

CallerSetsYellow(c) ==
  /\ caller[c] = "yellow"
  /\ state' = "yellow"
  /\ caller' = [caller EXCEPT ![c] = "ensure"]
  /\ UNCHANGED <<successes, since, checker, up, stopped>>

\* The thread that _ensure_checker leaves running; is_alive also holds of a
\* thread that is about to return.
Ensured == IF checker = "none" THEN "top" ELSE checker

EnsureChecker(c) ==
  /\ caller[c] = "ensure"
  /\ checker' = Ensured
  /\ caller' = [caller EXCEPT ![c] = "idle"]
  /\ UNCHANGED <<state, successes, since, up, stopped>>

Caller(c) == \/ RequestSucceeds(c) \/ CallerSetsGreen(c) \/ RequestFails(c)
             \/ CallerSetsYellow(c) \/ EnsureChecker(c)

(***************************************************************************)
(* The monitor thread, _check_loop.                                        *)
(***************************************************************************)

\* Mutant: the monitor leaves once the state is no longer yellow.
MayLeaveRed == state # "yellow"

\* The monitor's work is done.
MayLeave == state = "green"

\* while not self._stop_event.is_set()
StopSeen == stopped

CheckTop ==
  /\ checker = "top"
  /\ checker' = IF StopSeen \/ MayLeave THEN "leaving" ELSE "probe"
  /\ UNCHANGED <<state, successes, since, caller, up, stopped>>

\* The probe is answered: network_success up to its _set_state.
ProbeSucceeds ==
  /\ checker = "probe" /\ up
  /\ CountSuccess
  /\ checker' = IF Completes THEN "green" ELSE "wait"
  /\ UNCHANGED <<state, caller, up, stopped>>

CheckerSetsGreen ==
  /\ checker = "green"
  /\ state' = "green"
  /\ checker' = "wait"
  /\ UNCHANGED <<successes, since, caller, up, stopped>>

\* The probe fails: the count starts again and the clock is read.
ProbeFails ==
  /\ checker = "probe" /\ ~up
  /\ successes' = 0
  /\ checker' = IF since = "old" THEN "red" ELSE "wait"
  /\ UNCHANGED <<state, since, caller, up, stopped>>

CheckerSetsRed ==
  /\ checker = "red"
  /\ state' = "red"
  /\ checker' = "wait"
  /\ UNCHANGED <<successes, since, caller, up, stopped>>

CheckWait ==
  /\ checker = "wait"
  /\ checker' = "top"
  /\ UNCHANGED <<state, successes, since, caller, up, stopped>>

\* The thread ends some time after _check_loop has returned.
CheckerEnds ==
  /\ checker = "leaving"
  /\ checker' = "none"
  /\ UNCHANGED <<state, successes, since, caller, up, stopped>>

Checker == \/ CheckTop \/ ProbeSucceeds \/ CheckerSetsGreen \/ ProbeFails
           \/ CheckerSetsRed \/ CheckWait \/ CheckerEnds

(***************************************************************************)
(* The world outside.                                                      *)
(***************************************************************************)
TenSecondsPass ==
  /\ since = "recent" /\ since' = "old"
  /\ UNCHANGED <<state, successes, caller, checker, up, stopped>>

InternetChanges ==
  /\ up' = ~up
  /\ UNCHANGED <<state, successes, since, caller, checker, stopped>>

\* AppRuntime.stop
Stop ==
  /\ ~stopped /\ stopped' = TRUE
  /\ UNCHANGED <<state, successes, since, caller, checker, up>>

Next == \/ \E c \in Callers : Request(c) \/ Caller(c)
        \/ Checker
        \/ TenSecondsPass \/ InternetChanges \/ Stop

Spec == Init /\ [][Next]_vars

\* A request ends by its timeout, and every thread keeps running.
FairSpec == Spec /\ WF_vars(Checker) /\ \A c \in Callers : WF_vars(Caller(c))

-----------------------------------------------------------------------------
(***************************************************************************)
(* Properties.                                                             *)
(***************************************************************************)

\* The monitor is in its loop, where it will look at the state again.
Watching == checker \in {"top", "probe", "green", "red", "wait"}

TypeOK ==
  /\ state \in {"green", "yellow", "red"}
  /\ successes \in 0..(SuccessesNeeded - 1)
  /\ since \in {"none", "recent", "old"}
  /\ caller \in [Callers -> {"idle", "request", "green", "yellow", "ensure"}]
  /\ checker \in {"none", "top", "probe", "green", "red", "wait", "leaving"}
  /\ up \in BOOLEAN /\ stopped \in BOOLEAN

\* In the red state no price is requested and no host looked up, so nothing
\* but the monitor can notice that the internet is back: the monitor is
\* always in its loop then, unless the application stops.
RedIsWatched == state = "red" => Watching \/ stopped

\* The state does not get stuck while the monitor runs: if the internet is
\* back for good and no request fails any more (a failed one would put its
\* caller in "yellow"), the state turns green.
RecoversWhileWatched ==
  <>[](up /\ \A c \in Callers : caller[c] # "yellow")
    => (Watching ~> (state = "green" \/ stopped))

\* The dot of the yellow state tells the user "Detecting connection issues,
\* retrying...": someone is retrying, or about to start the monitor.  The
\* code does not keep this (see the findings in the README).
YellowMeansRetrying ==
  state = "yellow" => \/ Watching \/ stopped
                      \/ \E c \in Callers : caller[c] # "idle"
=============================================================================
