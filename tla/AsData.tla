------------------------------- MODULE AsData -------------------------------
(***************************************************************************)
(* What the AS panels of the dashboard know of a list of peers: the groups *)
(* by autonomous system, the donut's segments, and the sets of peers that  *)
(* a row stands for (src/static/js/as-distribution.js).  The list is known *)
(* by the set of its peers, because ids are given out in the order of the  *)
(* list; what a peer reports about itself never changes.                   *)
(***************************************************************************)
EXTENDS Integers, FiniteSets

CONSTANTS
  Peers,        \* ids of peers
  Systems,      \* names of autonomous systems
  Nets,         \* the public networks, ipv4 and ipv6
  As,           \* the system of a peer, None for a peer without one
  Net,          \* the network of a peer
  Direction,    \* IN or OUT, as the server reports it
  MaxSegments,  \* MAX_SEGMENTS, 8 in the code
  None          \* null

ASSUME AsDataAssumption ==
  /\ Peers \subseteq Nat /\ IsFiniteSet(Peers)
  /\ "Others" \notin Systems /\ None # "Others"
  /\ None \notin Systems /\ None \notin Nets /\ None \notin Peers
  /\ As \in [Peers -> Systems \cup {None}]
  /\ Net \in [Peers -> Nets]
  /\ Direction \in [Peers -> {"IN", "OUT"}]
  /\ MaxSegments \in Nat \ {0}

\* A peer id is also tested as a truth value: 0 counts as none.
Truthy(p) == p # None /\ p # 0

-----------------------------------------------------------------------------
Groups(P)        == {As[p] : p \in P} \ {None}
GroupPeers(P, a) == {p \in P : As[p] = a}

\* The groups' order: by size, and equal ones as they appear in the list.
Before(P, a, b) ==
  LET size(x) == Cardinality(GroupPeers(P, x)) IN
  \/ size(a) > size(b)
  \/ /\ size(a) = size(b)
     /\ \E p \in GroupPeers(P, a) : \A q \in GroupPeers(P, b) : p < q

TopGroups(P) ==
  {a \in Groups(P) :
     Cardinality({b \in Groups(P) : Before(P, b, a)}) < MaxSegments}

HasOthers(P) == Groups(P) # TopGroups(P)
Segments(P)  == TopGroups(P) \cup (IF HasOthers(P) THEN {"Others"} ELSE {})

\* A segment or a group that the list still has.
Known(P, a) == a \in Segments(P) \cup Groups(P)

\* The peers of a segment, of a group outside the segments, or of neither.
PeersOf(P, a) == IF a = "Others"
                 THEN {p \in P : As[p] \in Groups(P) \ TopGroups(P)}
                 ELSE {p \in P : As[p] = a /\ a # None}

\* The peers that lines can be drawn to: those of some segment.
Linked(P) == {p \in P : As[p] # None}

\* The leading provider of an insight.  Which one leads is data: for the
\* most stable one the first of the list stands, for a ranking the last.
Leader(P, k) ==
  LET ids == Linked(P) IN
  IF ids = {} THEN None
  ELSE As[CHOOSE p \in ids : \A q \in ids : IF k = "insight-stable" THEN p <= q
                                                                  ELSE p >= q]
=============================================================================
