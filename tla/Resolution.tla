----------------------------- MODULE Resolution -----------------------------
(***************************************************************************)
(* What PeerService promises of the places of its peers, without threads,  *)
(* queue or database: a service that owes lookups.                         *)
(*                                                                         *)
(* Whoever is owed a lookup stays owed until there is an entry that says   *)
(* what came of it: a place, or "unavailable" once ip-api.com has been     *)
(* asked in vain.  A lookup that is put off also makes an entry, so that   *)
(* the dashboard stops waiting, but it is still owed.  Nothing is owed to  *)
(* a private host and nobody is asked about one.                           *)
(*                                                                         *)
(* PeerGeo implements this (its property Implements).                      *)
(***************************************************************************)
CONSTANTS
  Hosts,        \* the hosts peers connect from
  PublicHosts,  \* those a lookup may be made of
  Found         \* what a lookup may find

VARIABLES
  entry,  \* what is known of each host
  owed,   \* the hosts whose lookup has been promised and is not over
  asked   \* the hosts ip-api.com has been asked about

vars == <<entry, owed, asked>>

Init == entry = [h \in Hosts |-> "absent"] /\ owed = {} /\ asked = {}

\* A peer on a private network needs no lookup.
KnowPrivate(h) ==
  /\ h \notin PublicHosts
  /\ entry' = [entry EXCEPT ![h] = "private"]
  /\ UNCHANGED <<owed, asked>>

Promise(h) ==
  /\ h \in PublicHosts
  /\ owed' = owed \cup {h}
  /\ UNCHANGED <<entry, asked>>

Ask(h) ==
  /\ h \in owed
  /\ asked' = asked \cup {h}
  /\ UNCHANGED <<entry, owed>>

\* The lookup yields a place, fails, or is put off.
Note(h) ==
  /\ h \in owed
  /\ \E e \in Found \cup {"unavailable"} : entry' = [entry EXCEPT ![h] = e]
  /\ UNCHANGED <<owed, asked>>

\* The promise is kept: a place is known, or there is none to be had.
Keep(h) ==
  /\ h \in owed
  /\ entry[h] \in Found \/ (entry[h] = "unavailable" /\ h \in asked)
  /\ owed' = owed \ {h}
  /\ UNCHANGED <<entry, asked>>

Next == \E h \in Hosts : \/ KnowPrivate(h) \/ Promise(h) \/ Ask(h)
                         \/ Note(h) \/ Keep(h)

Spec == Init /\ [][Next]_vars
=============================================================================
