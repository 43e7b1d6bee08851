--------------------------- MODULE PeerGeoProofs ---------------------------
(***************************************************************************)
(* Proofs about PeerGeo, for any set of hosts, any answers of the node and *)
(* a queue of any length.                                                  *)
(*                                                                         *)
(* The invariants of PeerGeo are not inductive as they stand.  The parts   *)
(* below say what the program counters of the two threads imply about the  *)
(* data they share.                                                        *)
(***************************************************************************)
EXTENDS PeerGeo, TLAPS

\* Element-wise uniqueness, as in QueuedOnce.
Unique(s) == \A i, j \in 1..Len(s) : s[i] = s[j] => i = j

\* The refresh thread has marked h and is about to put it in the queue.
Putting(h) == refreshPc = "put" /\ Scanning(h)

-----------------------------------------------------------------------------
(* The parts of the inductive invariant.                                   *)

\* Where the refresh thread works on a peer there is one.
WorkInv == refreshPc \in {"private", "mark", "put"} => todo # <<>>

\* Only public hosts get as far as the queue.
ScanInv ==
  \A h \in Hosts : refreshPc \in {"mark", "put"} /\ Scanning(h)
                     => h \in PublicHosts

\* A host on its way through the lookup is marked, or was looked up before.
MarkedInv ==
  \A h \in Hosts : In(h, queue) \/ Putting(h) \/ InFlight(h)
                     => h \in pending \/ cache[h] # "absent"

\* The queue has no duplicates, nor will the coming put make one.
UniqueInv == Unique(queue) /\ \A h \in Hosts : Putting(h) => ~In(h, queue)

\* A host that was found absent from the cache and is in the queue has been
\* there all the time: its mark stands, and no lookup of it has begun.
MarkInv ==
  \A h \in Hosts : refreshPc = "mark" /\ Scanning(h) /\ In(h, queue)
                     => /\ h \in pending /\ cache[h] = "absent"
                        /\ ~InFlight(h) /\ ~In(h, deferred)

\* Only a host that was looked up before is looked up and queued at once.
TwiceInv ==
  \A h \in Hosts : InFlight(h) /\ (In(h, queue) \/ Putting(h))
                     => cache[h] # "absent"

\* A postponed host has its (unavailable) entry, or is about to get it.
DeferredInv ==
  \A h \in Hosts : In(h, deferred)
                     => \/ cache[h] # "absent"
                        \/ host = h /\ geoPc = "store"

StoredInv == geoPc = "discard" => cache[host] # "absent"

\* What the lookup thread knows of its host.
AskedInv ==
  /\ geoPc \in {"calling", "save"} => host \in asked
  /\ geoPc = "store" /\ data = "none" => host \in asked \/ In(host, deferred)
  /\ geoPc = "discard" /\ cache[host] = "unavailable"
       => host \in asked \/ In(host, deferred)

\* A call made while lookups are off had passed the gate before.
OffInv ==
  /\ offCalls <= 1
  /\ dbOnly /\ offCalls = 1 => geoPc # "issue"
  /\ ~dbOnly => offCalls = 0

-----------------------------------------------------------------------------
(* Facts about sequences.                                                  *)

LEMMA AppendIn ==
  ASSUME NEW S, NEW s \in Seq(S), NEW y \in S, NEW x
  PROVE  In(x, Append(s, y)) <=> In(x, s) \/ x = y
BY DEF In

LEMMA HeadTailIn ==
  ASSUME NEW S, NEW s \in Seq(S), s # <<>>, NEW x
  PROVE  In(x, s) <=> x = Head(s) \/ In(x, Tail(s))
<1>1. ASSUME In(x, s), x # Head(s) PROVE In(x, Tail(s))
  <2>1. PICK i \in 1..Len(s) : s[i] = x
    BY <1>1 DEF In
  <2>2. i - 1 \in 1..Len(Tail(s)) /\ Tail(s)[i - 1] = x
    BY <1>1, <2>1
  <2> QED BY <2>2 DEF In
<1>2. ASSUME x = Head(s) PROVE In(x, s)
  <2>1. 1 \in 1..Len(s) /\ s[1] = x
    BY <1>2
  <2> QED BY <2>1 DEF In
<1>3. ASSUME In(x, Tail(s)) PROVE In(x, s)
  <2>1. PICK i \in 1..Len(Tail(s)) : Tail(s)[i] = x
    BY <1>3 DEF In
  <2>2. i + 1 \in 1..Len(s) /\ s[i + 1] = x
    BY <2>1
  <2> QED BY <2>2 DEF In
<1> QED BY <1>1, <1>2, <1>3

LEMMA HeadTailType ==
  ASSUME NEW S, NEW s \in Seq(S), s # <<>>
  PROVE  Head(s) \in S /\ Tail(s) \in Seq(S)
OBVIOUS

LEMMA AppendType ==
  ASSUME NEW S, NEW s \in Seq(S), NEW y \in S
  PROVE  Append(s, y) \in Seq(S) /\ Append(s, y) # <<>>
<1>1. Append(s, y) \in Seq(S)
  OBVIOUS
<1>2. Len(Append(s, y)) = Len(s) + 1 /\ Len(s) \in Nat
  OBVIOUS
<1>3. Len(<<>>) = 0
  OBVIOUS
<1>4. Append(s, y) # <<>>
  BY <1>2, <1>3
<1> QED BY <1>1, <1>4

LEMMA AppendUnique ==
  ASSUME NEW S, NEW s \in Seq(S), NEW y \in S, Unique(s), ~In(y, s)
  PROVE  Unique(Append(s, y))
BY DEF Unique, In

LEMMA TailUnique ==
  ASSUME NEW S, NEW s \in Seq(S), s # <<>>, Unique(s)
  PROVE  Unique(Tail(s)) /\ ~In(Head(s), Tail(s))
BY DEF Unique, In

\* An answer of the node is a sequence of hosts.
LEMMA PeerListsAreSequences == PeerLists \subseteq Seq(Hosts)
BY PeerGeoAssumption DEF PeerLists

-----------------------------------------------------------------------------
(* The variables stay in their domains.                                    *)

TypeInv == TypeOK /\ WorkInv

LEMMA TypeInvInit == Init => TypeInv
<1> SUFFICES ASSUME Init PROVE TypeInv
  OBVIOUS
<1>1. db \in [Hosts -> GeoData]
  BY DEF Init, GeoData
<1>2. cache \in [Hosts -> CacheEntry] /\ net \in NetStates
      /\ data \in GeoData
  BY DEF Init, CacheEntry, NetStates, GeoData
<1>3. /\ peers \in Seq(Hosts) /\ todo \in Seq(Hosts)
      /\ queue \in Seq(Hosts) /\ deferred \in Seq(Hosts)
  BY DEF Init
<1>4. /\ fromDb \in BOOLEAN /\ skipApi \in BOOLEAN
      /\ dbOnly \in BOOLEAN /\ stopped \in BOOLEAN
  BY DEF Init
<1>5. pending \subseteq Hosts /\ asked \subseteq Hosts /\ offCalls \in Nat
  BY DEF Init
<1> QED BY <1>1, <1>2, <1>3, <1>4, <1>5 DEF Init, TypeInv, TypeOK, WorkInv

\* The refresh thread's steps.
LEMMA TypeInvRefresh == TypeInv /\ Refresh => TypeInv'
<1> SUFFICES ASSUME TypeInv, Refresh PROVE TypeInv'
  OBVIOUS
<1> USE DEF TypeInv, TypeOK, WorkInv, geoVars, envVars, history
<1>1. ASSUME todo # <<>>
      PROVE  Head(todo) \in Hosts /\ Tail(todo) \in Seq(Hosts)
  BY <1>1, HeadTailType
<1>2. CASE RefreshPoll
  BY <1>2, PeerListsAreSequences DEF RefreshPoll
<1>3. CASE RefreshScan
  BY <1>3, <1>1 DEF RefreshScan
<1>4. CASE RefreshPrivate
  <2>1. todo' \in Seq(Hosts) /\ cache' \in [Hosts -> CacheEntry]
    BY <1>4, <1>1 DEF RefreshPrivate, CacheEntry
  <2> QED BY <1>4, <2>1 DEF RefreshPrivate
<1>5. CASE RefreshMark
  <2>1. todo' \in Seq(Hosts) /\ pending' \subseteq Hosts
    BY <1>5, <1>1 DEF RefreshMark
  <2> QED BY <1>5, <2>1 DEF RefreshMark
<1>6. CASE RefreshPut
  <2>1. todo' \in Seq(Hosts) /\ queue' \in Seq(Hosts)
    BY <1>6, <1>1, AppendType DEF RefreshPut, Put
  <2> QED BY <1>6, <2>1 DEF RefreshPut
<1>7. CASE RefreshSleep
  BY <1>7 DEF RefreshSleep
<1> QED BY <1>2, <1>3, <1>4, <1>5, <1>6, <1>7 DEF Refresh

\* The lookup thread's steps.
LEMMA TypeInvLookup == TypeInv /\ Lookup => TypeInv'
<1> SUFFICES ASSUME TypeInv, Lookup PROVE TypeInv'
  OBVIOUS
<1> USE DEF TypeInv, TypeOK, WorkInv, refreshVars, envVars, history
<1>1. CASE GeoGet
  BY <1>1, HeadTailType DEF GeoGet
<1>2. CASE GeoTimeout
  BY <1>2 DEF GeoTimeout
<1>3. CASE GeoRetry
  <2>1. deferred' \in Seq(Hosts) /\ host' \in Hosts
    BY <1>3, HeadTailType DEF GeoRetry, PopFirst
  <2>2. geoPc' \in {"read", "get", "exited"}
    BY <1>3 DEF GeoRetry, NextTurn
  <2> QED BY <1>3, <2>1, <2>2 DEF GeoRetry
<1>4. CASE GeoRead
  BY <1>4 DEF GeoRead, GeoData
<1>5. CASE GeoGate
  <2>1. deferred' \in Seq(Hosts)
    BY <1>5, AppendType DEF GeoGate, Defer
  <2>2. skipApi' \in BOOLEAN /\ geoPc' \in {"issue", "store"}
    BY <1>5 DEF GeoGate
  <2> QED BY <1>5, <2>1, <2>2 DEF GeoGate
<1>6. CASE GeoCall
  BY <1>6 DEF GeoCall
<1>7. CASE GeoCallFails
  BY <1>7 DEF GeoCallFails, NetStates
<1>8. CASE GeoCallRefused
  BY <1>8 DEF GeoCallRefused
<1>9. CASE GeoCallSucceeds
  BY <1>9 DEF GeoCallSucceeds, NetStates, GeoData
<1>10. CASE GeoSave
  BY <1>10 DEF GeoSave
<1>11. CASE GeoStore
  <2>1. cache' \in [Hosts -> CacheEntry]
    BY <1>11 DEF GeoStore, Entry, GeoData, CacheEntry
  <2> QED BY <1>11, <2>1 DEF GeoStore
<1>12. CASE GeoDiscard
  BY <1>12 DEF GeoDiscard, Discarded, NextTurn, GeoData
<1>13. CASE GeoPause
  BY <1>13 DEF GeoPause, NextTurn
<1> QED BY <1>1, <1>2, <1>3, <1>4, <1>5, <1>6, <1>7, <1>8, <1>9, <1>10,
           <1>11, <1>12, <1>13 DEF Lookup

LEMMA TypeInvEnvironment == TypeInv /\ Environment => TypeInv'
<1> SUFFICES ASSUME TypeInv, Environment PROVE TypeInv'
  OBVIOUS
<1> USE DEF TypeInv, TypeOK, WorkInv, refreshVars, geoVars
<1>1. CASE NetworkChange
  BY <1>1 DEF NetworkChange, history
<1>2. CASE ToggleDbOnly
  BY <1>2 DEF ToggleDbOnly
<1>3. CASE DatasetRow
  BY <1>3 DEF DatasetRow, envVars, history, GeoData
<1>4. CASE Stop
  BY <1>4 DEF Stop, history
<1> QED BY <1>1, <1>2, <1>3, <1>4 DEF Environment

\* TypeInv is an invariant; the theorems below rest on it.
LEMMA TypeInvHolds == Spec => []TypeInv
<1>1. TypeInv /\ UNCHANGED vars => TypeInv'
  BY DEF TypeInv, TypeOK, WorkInv, vars
<1>2. TypeInv /\ [Next]_vars => TypeInv'
  BY <1>1, TypeInvRefresh, TypeInvLookup, TypeInvEnvironment DEF Next
<1> QED BY TypeInvInit, <1>2, PTL DEF Spec

\* No step of either thread takes a variable out of its domain.
THEOREM TypeCorrect == Spec => []TypeOK
<1>1. TypeInv => TypeOK
  BY DEF TypeInv
<1> QED BY TypeInvHolds, <1>1, PTL

-----------------------------------------------------------------------------
(* Once lookups are off, at most one more call is made: the gate is passed *)
(* only while they are on, so the lookup that already passed it is the     *)
(* only one that can still call.                                           *)
THEOREM OneCallAfterOff == Spec => []AtMostOneCallAfterOff
<1>1. Init => OffInv
  BY DEF Init, OffInv
<1>2. TypeOK /\ OffInv /\ [Next]_vars => OffInv'
  <2> SUFFICES ASSUME TypeOK, OffInv, [Next]_vars PROVE OffInv'
    OBVIOUS
  <2> USE DEF OffInv, TypeOK, envVars, history
  <2>1. CASE Refresh
    BY <2>1 DEF Refresh, RefreshPoll, RefreshScan, RefreshPrivate,
                RefreshMark, RefreshPut, RefreshSleep, geoVars
  <2>2. CASE GeoGate
    BY <2>2 DEF GeoGate, Online
  <2>3. CASE GeoCall
    BY <2>3 DEF GeoCall
  <2>4. CASE GeoGet \/ GeoTimeout \/ GeoRetry \/ GeoRead
    BY <2>4 DEF GeoGet, GeoTimeout, GeoRetry, GeoRead, NextTurn
  <2>5. CASE GeoCallFails \/ GeoCallRefused \/ GeoCallSucceeds \/ GeoSave
    BY <2>5 DEF GeoCallFails, GeoCallRefused, GeoCallSucceeds, GeoSave
  <2>6. CASE GeoStore \/ GeoDiscard \/ GeoPause
    BY <2>6 DEF GeoStore, GeoDiscard, GeoPause, NextTurn
  <2>7. CASE Environment
    BY <2>7 DEF Environment, NetworkChange, ToggleDbOnly, DatasetRow, Stop,
                geoVars
  <2>8. CASE UNCHANGED vars
    BY <2>8 DEF vars
  <2> QED BY <2>1, <2>2, <2>3, <2>4, <2>5, <2>6, <2>7, <2>8 DEF Next, Lookup
<1>3. OffInv => AtMostOneCallAfterOff
  BY DEF OffInv, AtMostOneCallAfterOff
<1> QED BY <1>1, <1>2, <1>3, TypeCorrect, PTL DEF Spec

-----------------------------------------------------------------------------
(* No private host reaches the geolocation service.                        *)
PrivacyInv == ScanInv /\ OnlyPublicHostsLeave

LEMMA PrivacyInvStep == TypeInv /\ PrivacyInv /\ [Next]_vars => PrivacyInv'
<1> SUFFICES ASSUME TypeInv, PrivacyInv, [Next]_vars PROVE PrivacyInv'
  OBVIOUS
<1> USE DEF PrivacyInv, ScanInv, OnlyPublicHostsLeave, InFlight, Scanning
<1>1. CASE UNCHANGED <<todo, refreshPc, queue, deferred, host, geoPc>>
  BY <1>1
<1>2. CASE RefreshPoll \/ RefreshPrivate \/ RefreshSleep
  BY <1>2 DEF RefreshPoll, RefreshPrivate, RefreshSleep, geoVars
<1>3. CASE RefreshScan \/ RefreshMark
  BY <1>3 DEF RefreshScan, RefreshMark, MayLookUp, geoVars
<1>4. CASE RefreshPut
  <2>1. todo # <<>> /\ Head(todo) \in Hosts /\ queue \in Seq(Hosts)
    BY <1>4, HeadTailType DEF RefreshPut, TypeInv, WorkInv, TypeOK
  <2>2. \A h \in Hosts : In(h, queue') => In(h, queue) \/ h = Head(todo)
    BY <1>4, <2>1, AppendIn DEF RefreshPut, Put
  <2>3. Head(todo) \in PublicHosts
    BY <1>4, <2>1 DEF RefreshPut
  <2> QED BY <1>4, <2>2, <2>3 DEF RefreshPut, geoVars
<1>5. CASE GeoGet
  <2>1. queue # <<>> /\ queue \in Seq(Hosts)
    BY <1>5 DEF GeoGet, TypeInv, TypeOK
  <2>2. \A h \in Hosts : In(h, queue') => In(h, queue)
    BY <1>5, <2>1, HeadTailIn DEF GeoGet
  <2>3. In(host', queue)
    BY <1>5, <2>1, HeadTailIn DEF GeoGet
  <2> QED BY <1>5, <2>2, <2>3 DEF GeoGet, refreshVars
<1>6. CASE GeoRetry
  <2>1. deferred \in Seq(Hosts)
    BY DEF TypeInv, TypeOK
  <2>2. \A h \in Hosts : In(h, deferred') => In(h, deferred)
    BY <1>6, <2>1, HeadTailIn DEF GeoRetry, PopFirst
  <2>3. geoPc' = "read" => In(host', deferred)
    BY <1>6, <2>1, HeadTailIn DEF GeoRetry, NextTurn
  <2> QED BY <1>6, <2>2, <2>3 DEF GeoRetry, NextTurn, refreshVars
<1>7. CASE GeoGate
  <2>1. deferred \in Seq(Hosts) /\ host \in Hosts
    BY DEF TypeInv, TypeOK
  <2>2. deferred' = deferred \/ deferred' = Append(deferred, host)
    BY <1>7 DEF GeoGate, Defer
  <2>3. \A h \in Hosts : In(h, deferred') => In(h, deferred) \/ h = host
    BY <2>1, <2>2, AppendIn
  <2> QED BY <1>7, <2>1, <2>3 DEF GeoGate, refreshVars
<1>8. CASE GeoTimeout \/ GeoRead \/ GeoCall \/ GeoCallFails
  BY <1>8 DEF GeoTimeout, GeoRead, GeoCall, GeoCallFails, refreshVars
<1>9. CASE GeoCallRefused \/ GeoCallSucceeds \/ GeoSave
  BY <1>9 DEF GeoCallRefused, GeoCallSucceeds, GeoSave, refreshVars
<1>10. CASE GeoStore \/ GeoDiscard \/ GeoPause
  BY <1>10 DEF GeoStore, GeoDiscard, GeoPause, NextTurn, refreshVars
<1>11. CASE Environment
  BY <1>1, <1>11 DEF Environment, NetworkChange, ToggleDbOnly, DatasetRow,
                     Stop, refreshVars, geoVars
<1>12. CASE UNCHANGED vars
  BY <1>1, <1>12 DEF vars
<1> QED BY <1>2, <1>3, <1>4, <1>5, <1>6, <1>7, <1>8, <1>9, <1>10, <1>11,
           <1>12 DEF Next, Refresh, Lookup

THEOREM OnlyPublicLeave == Spec => []OnlyPublicHostsLeave
<1>1. Init => PrivacyInv
  BY DEF Init, PrivacyInv, ScanInv, OnlyPublicHostsLeave, InFlight, In
<1>2. PrivacyInv => OnlyPublicHostsLeave
  BY DEF PrivacyInv
<1> QED BY <1>1, <1>2, PrivacyInvStep, TypeInvHolds, PTL DEF Spec

-----------------------------------------------------------------------------
(* The queue holds a host at most once.                                    *)
QueueInv == /\ MarkedInv /\ UniqueInv /\ MarkInv /\ TwiceInv
            /\ DeferredInv /\ StoredInv

\* What a step of the refresh thread does to the invariant.
LEMMA QueueInvRefresh == TypeInv /\ QueueInv /\ Refresh => QueueInv'
<1> SUFFICES ASSUME TypeInv, QueueInv, Refresh PROVE QueueInv'
  OBVIOUS
<1> USE DEF QueueInv, MarkedInv, UniqueInv, MarkInv, TwiceInv, DeferredInv,
            StoredInv, Putting, InFlight, Scanning, geoVars
<1>1. CASE RefreshPoll \/ RefreshSleep
  BY <1>1 DEF RefreshPoll, RefreshSleep
<1>2. CASE RefreshScan
  BY <1>2 DEF RefreshScan
<1>3. CASE RefreshPrivate
  <2>1. \A h \in Hosts : cache'[h] = "absent" => cache[h] = "absent"
    BY <1>3 DEF RefreshPrivate, TypeInv, TypeOK
  <2>2. cache'[host] = "absent" => cache[host] = "absent"
    BY <2>1 DEF TypeInv, TypeOK
  <2> QED BY <1>3, <2>1, <2>2 DEF RefreshPrivate
<1>4. CASE RefreshMark
  BY <1>4 DEF RefreshMark, AlreadyPending
<1>5. CASE RefreshPut
  <2>1. todo # <<>> /\ Head(todo) \in Hosts /\ queue \in Seq(Hosts)
    BY <1>5, HeadTailType DEF RefreshPut, TypeInv, WorkInv, TypeOK
  <2>2. \A h \in Hosts : In(h, queue') <=> In(h, queue) \/ h = Head(todo)
    BY <1>5, <2>1, AppendIn DEF RefreshPut, Put
  <2>3. Unique(queue')
    BY <1>5, <2>1, AppendUnique DEF RefreshPut, Put
  <2> QED BY <1>5, <2>1, <2>2, <2>3 DEF RefreshPut
<1> QED BY <1>1, <1>2, <1>3, <1>4, <1>5 DEF Refresh

\* What a step of the lookup thread does to it.
LEMMA QueueInvLookup == TypeInv /\ QueueInv /\ Lookup => QueueInv'
<1> SUFFICES ASSUME TypeInv, QueueInv, Lookup PROVE QueueInv'
  OBVIOUS
<1> USE DEF QueueInv, MarkedInv, UniqueInv, MarkInv, TwiceInv, DeferredInv,
            StoredInv, Putting, InFlight, Scanning, refreshVars
<1>1. CASE GeoGet
  <2>1. queue # <<>> /\ queue \in Seq(Hosts)
    BY <1>1 DEF GeoGet, TypeInv, TypeOK
  <2>2. Unique(queue') /\ ~In(host', queue')
    BY <1>1, <2>1, TailUnique DEF GeoGet
  <2>3. \A h \in Hosts : In(h, queue) <=> In(h, queue') \/ h = host'
    BY <1>1, <2>1, HeadTailIn DEF GeoGet
  <2>4. host' \in Hosts
    BY <1>1, <2>1, HeadTailType DEF GeoGet
  <2> QED BY <1>1, <2>2, <2>3, <2>4 DEF GeoGet
<1>2. CASE GeoRetry
  <2>1. deferred \in Seq(Hosts)
    BY DEF TypeInv, TypeOK
  <2>2. \A h \in Hosts : In(h, deferred') => In(h, deferred)
    BY <1>2, <2>1, HeadTailIn DEF GeoRetry, PopFirst
  <2>3. geoPc' = "read" => host' \in Hosts /\ In(host', deferred)
    BY <1>2, <2>1, HeadTailIn, HeadTailType DEF GeoRetry, NextTurn
  <2> QED BY <1>2, <2>2, <2>3 DEF GeoRetry, NextTurn
<1>3. CASE GeoGate
  <2>1. deferred \in Seq(Hosts) /\ host \in Hosts
    BY DEF TypeInv, TypeOK
  <2>2. \/ deferred' = deferred
        \/ deferred' = Append(deferred, host) /\ geoPc' = "store"
    BY <1>3 DEF GeoGate, Defer
  <2>3. \A h \in Hosts : In(h, deferred')
          => In(h, deferred) \/ (h = host /\ geoPc' = "store")
    <3>1. CASE deferred' = deferred
      BY <3>1
    <3>2. CASE deferred' = Append(deferred, host) /\ geoPc' = "store"
      BY <3>2, <2>1, AppendIn
    <3> QED BY <2>2, <3>1, <3>2
  <2> QED BY <1>3, <2>1, <2>3 DEF GeoGate
<1>4. CASE GeoTimeout \/ GeoRead \/ GeoCall \/ GeoCallFails
  BY <1>4 DEF GeoTimeout, GeoRead, GeoCall, GeoCallFails
<1>5. CASE GeoCallRefused \/ GeoCallSucceeds \/ GeoSave
  BY <1>5 DEF GeoCallRefused, GeoCallSucceeds, GeoSave
<1>6. CASE GeoStore
  <2>1. cache'[host] # "absent"
    BY <1>6, PeerGeoAssumption DEF GeoStore, Entry, TypeInv, TypeOK, GeoData
  <2>2. \A h \in Hosts : h # host => cache'[h] = cache[h]
    BY <1>6 DEF GeoStore, TypeInv, TypeOK
  <2> QED BY <1>6, <2>1, <2>2 DEF GeoStore
<1>7. CASE GeoDiscard
  <2>1. \A h \in Hosts : h # host => (h \in pending' <=> h \in pending)
    BY <1>7 DEF GeoDiscard, Discarded
  <2> QED BY <1>7, <2>1 DEF GeoDiscard, NextTurn
<1>8. CASE GeoPause
  BY <1>8 DEF GeoPause, NextTurn
<1> QED BY <1>1, <1>2, <1>3, <1>4, <1>5, <1>6, <1>7, <1>8 DEF Lookup

LEMMA QueueInvInit == Init => QueueInv
BY DEF Init, QueueInv, MarkedInv, UniqueInv, MarkInv, TwiceInv, DeferredInv,
       StoredInv, Unique, Putting, InFlight, In

LEMMA QueueInvStep == TypeInv /\ QueueInv /\ [Next]_vars => QueueInv'
<1> SUFFICES ASSUME QueueInv,
                    UNCHANGED <<todo, refreshPc, queue, pending, cache,
                                deferred, geoPc, host>>
             PROVE  QueueInv'
  BY QueueInvRefresh, QueueInvLookup
     DEF Next, Environment, NetworkChange, ToggleDbOnly, DatasetRow, Stop,
         vars, refreshVars, geoVars
<1> QED BY DEF QueueInv, MarkedInv, UniqueInv, MarkInv, TwiceInv,
               DeferredInv, StoredInv, Putting, InFlight, Scanning

\* However the threads interleave, a host is in the queue at most once.
THEOREM HostQueuedOnce == Spec => []QueuedOnce
<1>1. QueueInv => QueuedOnce
  BY DEF QueueInv, UniqueInv, Unique, QueuedOnce
<1> QED BY <1>1, QueueInvInit, QueueInvStep, TypeInvHolds, PTL DEF Spec

-----------------------------------------------------------------------------
(* A mark is never orphaned.                                               *)
LEMMA OutstandingStep ==
  TypeInv /\ PendingIsOutstanding /\ [Next]_vars => PendingIsOutstanding'
<1> SUFFICES ASSUME TypeInv, PendingIsOutstanding, [Next]_vars
             PROVE  PendingIsOutstanding'
  OBVIOUS
<1> USE DEF PendingIsOutstanding, InFlight, Scanning
<1>1. CASE UNCHANGED <<todo, refreshPc, queue, pending, host, geoPc>>
  BY <1>1
<1>2. CASE RefreshPoll \/ RefreshScan \/ RefreshPrivate \/ RefreshSleep
  BY <1>2 DEF RefreshPoll, RefreshScan, RefreshPrivate, RefreshSleep, geoVars
<1>3. CASE RefreshMark
  BY <1>3 DEF RefreshMark, AlreadyPending, TypeInv, WorkInv, geoVars
<1>4. CASE RefreshPut
  <2>1. todo # <<>> /\ Head(todo) \in Hosts /\ queue \in Seq(Hosts)
    BY <1>4, HeadTailType DEF RefreshPut, TypeInv, WorkInv, TypeOK
  <2>2. \A h \in Hosts : In(h, queue') <=> In(h, queue) \/ h = Head(todo)
    BY <1>4, <2>1, AppendIn DEF RefreshPut, Put
  <2> QED BY <1>4, <2>2 DEF RefreshPut, geoVars, TypeInv, TypeOK
<1>5. CASE GeoGet
  <2>1. queue # <<>> /\ queue \in Seq(Hosts)
    BY <1>5 DEF GeoGet, TypeInv, TypeOK
  <2>2. \A h \in Hosts : In(h, queue) => In(h, queue') \/ h = host'
    BY <1>5, <2>1, HeadTailIn DEF GeoGet
  <2> QED BY <1>5, <2>2 DEF GeoGet, refreshVars, TypeInv, TypeOK
<1>6. CASE GeoRetry
  BY <1>6 DEF GeoRetry, refreshVars, NextTurn
<1>7. CASE GeoTimeout \/ GeoRead \/ GeoGate \/ GeoCall \/ GeoCallFails
  BY <1>7 DEF GeoTimeout, GeoRead, GeoGate, GeoCall, GeoCallFails, refreshVars
<1>8. CASE GeoCallRefused \/ GeoCallSucceeds \/ GeoSave \/ GeoStore
  BY <1>8 DEF GeoCallRefused, GeoCallSucceeds, GeoSave, GeoStore, refreshVars
<1>9. CASE GeoDiscard \/ GeoPause
  BY <1>9 DEF GeoDiscard, Discarded, GeoPause, NextTurn, refreshVars
<1>10. CASE Environment
  BY <1>1, <1>10 DEF Environment, NetworkChange, ToggleDbOnly, DatasetRow,
                     Stop, refreshVars, geoVars
<1>11. CASE UNCHANGED vars
  BY <1>1, <1>11 DEF vars
<1> QED BY <1>2, <1>3, <1>4, <1>5, <1>6, <1>7, <1>8, <1>9, <1>10, <1>11
        DEF Next, Refresh, Lookup

\* Whoever refuses a marked host can rely on a lookup that is under way.
THEOREM MarksAreOutstanding == Spec => []PendingIsOutstanding
<1>1. Init => PendingIsOutstanding
  BY DEF Init, PendingIsOutstanding
<1> QED BY <1>1, OutstandingStep, TypeInvHolds, PTL DEF Spec

-----------------------------------------------------------------------------
(* A lookup that was skipped is not forgotten.                             *)
SkipInv == AskedInv /\ SkippedIsRemembered

LEMMA SkipInvStep == TypeInv /\ SkipInv /\ [Next]_vars => SkipInv'
<1> SUFFICES ASSUME TypeInv, SkipInv, [Next]_vars PROVE SkipInv'
  OBVIOUS
<1> USE DEF SkipInv, AskedInv, SkippedIsRemembered, InFlight
<1>1. CASE UNCHANGED <<cache, deferred, host, data, geoPc, asked>>
  BY <1>1
<1>2. CASE Refresh
  <2>1. CASE RefreshPrivate
    <3>1. \A h \in Hosts :
            cache'[h] = "unavailable" => cache[h] = "unavailable"
      BY <2>1 DEF RefreshPrivate, TypeInv, TypeOK
    <3> QED BY <2>1, <3>1 DEF RefreshPrivate, geoVars, history, TypeInv, TypeOK
  <2>2. CASE ~RefreshPrivate
    BY <1>1, <1>2, <2>2 DEF Refresh, RefreshPoll, RefreshScan, RefreshMark,
                            RefreshPut, RefreshSleep, geoVars, history
  <2> QED BY <2>1, <2>2
<1>3. CASE GeoRetry
  <2>1. deferred \in Seq(Hosts)
    BY DEF TypeInv, TypeOK
  <2>2. \A h \in Hosts : In(h, deferred)
          => In(h, deferred') \/ (h = host' /\ geoPc' = "read")
    <3>1. CASE deferred' = deferred
      BY <3>1
    <3>2. CASE /\ deferred # <<>> /\ deferred' = Tail(deferred)
               /\ host' = Head(deferred) /\ geoPc' = "read"
      BY <3>2, <2>1, HeadTailIn
    <3> QED BY <1>3, <3>1, <3>2 DEF GeoRetry, PopFirst
  <2> QED BY <1>3, <2>2 DEF GeoRetry, NextTurn, history
<1>4. CASE GeoGate
  <2>1. deferred \in Seq(Hosts) /\ host \in Hosts
    BY DEF TypeInv, TypeOK
  <2>2. \A h \in Hosts : In(h, deferred) => In(h, deferred')
    <3>1. \A h \in Hosts : In(h, deferred) => In(h, Append(deferred, host))
      BY <2>1, AppendIn
    <3> QED BY <1>4, <3>1 DEF GeoGate, Defer
  <2>3. data = "none" /\ geoPc' = "store" => In(host, deferred')
    <3>1. In(host, Append(deferred, host))
      BY <2>1, AppendIn
    <3> QED BY <1>4, <3>1 DEF GeoGate, Defer
  <2> QED BY <1>4, <2>1, <2>2, <2>3 DEF GeoGate, history
<1>5. CASE GeoCall
  BY <1>5 DEF GeoCall, TypeInv, TypeOK
<1>6. CASE GeoGet \/ GeoTimeout \/ GeoRead
  BY <1>6 DEF GeoGet, GeoTimeout, GeoRead, history
<1>7. CASE GeoCallFails \/ GeoCallRefused \/ GeoCallSucceeds \/ GeoSave
  BY <1>7 DEF GeoCallFails, GeoCallRefused, GeoCallSucceeds, GeoSave, history
<1>8. CASE GeoStore
  <2>1. /\ cache'[host] = Entry(data)
        /\ \A h \in Hosts : h # host => cache'[h] = cache[h]
    BY <1>8 DEF GeoStore, TypeInv, TypeOK
  <2>2. Entry(data) = "unavailable" => data = "none"
    BY PeerGeoAssumption DEF Entry, TypeInv, TypeOK, GeoData
  <2> QED BY <1>8, <2>1, <2>2 DEF GeoStore, history, TypeInv, TypeOK
<1>9. CASE GeoDiscard \/ GeoPause
  BY <1>9 DEF GeoDiscard, GeoPause, NextTurn, history, TypeInv, TypeOK
<1>10. CASE Environment
  BY <1>1, <1>10 DEF Environment, NetworkChange, ToggleDbOnly, DatasetRow,
                     Stop, refreshVars, geoVars, history
<1>11. CASE UNCHANGED vars
  BY <1>1, <1>11 DEF vars
<1> QED BY <1>2, <1>3, <1>4, <1>5, <1>6, <1>7, <1>8, <1>9, <1>10, <1>11
        DEF Next, Lookup

\* A lookup skipped while the API could not be used stays on the list.
THEOREM SkippedLookupsRemembered == Spec => []SkippedIsRemembered
<1>1. Init => SkipInv
  BY DEF Init, SkipInv, AskedInv, SkippedIsRemembered
<1>2. SkipInv => SkippedIsRemembered
  BY DEF SkipInv
<1> QED BY <1>1, <1>2, SkipInvStep, TypeInvHolds, PTL DEF Spec

-----------------------------------------------------------------------------
(* The threads implement the service of module Resolution.                 *)

\* A private entry is made only of a private host.
PrivateInv ==
  \A h \in Hosts : (refreshPc = "private" /\ Scanning(h)) \/ cache[h] = "private"
                     => h \notin PublicHosts

LEMMA PrivateInvStep == TypeInv /\ PrivateInv /\ [Next]_vars => PrivateInv'
<1> SUFFICES ASSUME TypeInv, PrivateInv, [Next]_vars PROVE PrivateInv'
  OBVIOUS
<1> USE DEF PrivateInv, Scanning
<1>1. CASE UNCHANGED <<todo, refreshPc, cache>>
  BY <1>1
<1>2. CASE RefreshPoll \/ RefreshMark \/ RefreshPut \/ RefreshSleep
  BY <1>2 DEF RefreshPoll, RefreshMark, RefreshPut, RefreshSleep
<1>3. CASE RefreshScan
  BY <1>3 DEF RefreshScan, MayLookUp
<1>4. CASE RefreshPrivate
  <2>1. Scanning(Head(todo)) /\ refreshPc = "private" /\ refreshPc' = "scan"
    BY <1>4 DEF RefreshPrivate, TypeInv, WorkInv
  <2>2. \A h \in Hosts : cache'[h] = "private" => cache[h] = "private" \/ h = Head(todo)
    BY <1>4 DEF RefreshPrivate, TypeInv, TypeOK
  <2> QED BY <2>1, <2>2
<1>5. CASE GeoStore
  <2>1. Entry(data) # "private"
    BY PeerGeoAssumption DEF Entry, TypeInv, TypeOK, GeoData
  <2>2. \A h \in Hosts : cache'[h] = "private" => cache[h] = "private"
    BY <1>5, <2>1 DEF GeoStore, TypeInv, TypeOK
  <2> QED BY <1>5, <2>2 DEF GeoStore, refreshVars
<1>6. CASE Lookup /\ ~GeoStore
  BY <1>1, <1>6 DEF Lookup, GeoGet, GeoTimeout, GeoRetry, GeoRead, GeoGate, GeoCall,
       GeoCallFails, GeoCallRefused, GeoCallSucceeds, GeoSave, GeoDiscard,
       GeoPause, refreshVars
<1>7. CASE Environment
  BY <1>1, <1>7 DEF Environment, NetworkChange, ToggleDbOnly, DatasetRow,
                    Stop, refreshVars
<1>8. CASE UNCHANGED vars
  BY <1>1, <1>8 DEF vars
<1> QED BY <1>2, <1>3, <1>4, <1>5, <1>6, <1>7, <1>8 DEF Next, Refresh

\* A lookup is owed to h.
Owes(h) == In(h, queue) \/ In(h, deferred) \/ InFlight(h) \/ Putting(h)

LEMMA OwedIsOwes == Owed = {h \in Hosts : Owes(h)}
BY DEF Owed, Owes, Putting

LEMMA OwedIsOwesNext == Owed' = {h \in Hosts : Owes(h)'}
BY DEF Owed, Owes, Putting

\* Steps of the refresh thread.
LEMMA ServiceRefresh ==
  TypeInv /\ PrivacyInv /\ PrivateInv /\ Refresh => [Service!Next]_(Service!vars)
<1> SUFFICES ASSUME TypeInv, PrivacyInv, PrivateInv, Refresh PROVE [Service!Next]_(Service!vars)
  OBVIOUS
<1> USE OwedIsOwes, OwedIsOwesNext
<1>s. ASSUME UNCHANGED <<cache, asked>>, \A h \in Hosts : Owes(h)' <=> Owes(h)
      PROVE  UNCHANGED Service!vars
  BY <1>s DEF Service!vars
<1>1. CASE RefreshPoll \/ RefreshScan \/ RefreshSleep
  <2>1. UNCHANGED <<queue, deferred, geoPc, host, cache, asked>>
    BY <1>1 DEF RefreshPoll, RefreshScan, RefreshSleep, geoVars, history
  <2>2. refreshPc # "put" /\ refreshPc' # "put"
    BY <1>1 DEF RefreshPoll, RefreshScan, RefreshSleep
  <2> QED BY <1>s, <2>1, <2>2 DEF Owes, InFlight, Putting
<1>2. CASE RefreshPrivate
  <2> DEFINE h == Head(todo)
  <2>1. h \in Hosts /\ h \notin PublicHosts
    BY <1>2, HeadTailType DEF RefreshPrivate, TypeInv, TypeOK, WorkInv, PrivateInv, Scanning
  <2>2. UNCHANGED <<queue, deferred, geoPc, host, asked>>
    BY <1>2 DEF RefreshPrivate, geoVars, history
  <2>3. refreshPc # "put" /\ refreshPc' # "put"
    BY <1>2 DEF RefreshPrivate
  <2>4. Owed' = Owed
    BY <2>2, <2>3 DEF Owes, InFlight, Putting
  <2>5. Service!KnowPrivate(h)
    BY <1>2, <2>1, <2>2, <2>4 DEF RefreshPrivate, Service!KnowPrivate
  <2> QED BY <2>1, <2>5 DEF Service!Next
<1>3. CASE RefreshMark
  <2> DEFINE h == Head(todo)
  <2>1. h \in Hosts /\ h \in PublicHosts
    BY <1>3, HeadTailType
       DEF RefreshMark, TypeInv, TypeOK, WorkInv, PrivacyInv, ScanInv, Scanning
  <2>2. UNCHANGED <<queue, deferred, geoPc, host, cache, asked>> /\ refreshPc = "mark"
    BY <1>3 DEF RefreshMark, geoVars, history
  <2>3. CASE AlreadyPending(h)
    <3>1. refreshPc' # "put"
      BY <1>3, <2>3 DEF RefreshMark
    <3> QED BY <1>s, <2>2, <3>1 DEF Owes, InFlight, Putting
  <2>4. CASE ~AlreadyPending(h)
    <3>1. refreshPc' = "put" /\ todo' = todo /\ todo # <<>>
      BY <1>3, <2>4 DEF RefreshMark, TypeInv, WorkInv
    <3>2. \A x \in Hosts : Owes(x)' <=> Owes(x) \/ x = h
      BY <2>2, <3>1 DEF Owes, InFlight, Putting, Scanning
    <3>3. Owed' = Owed \cup {h}
      BY <2>1, <3>2
    <3> QED BY <2>1, <2>2, <3>3 DEF Service!Next, Service!Promise
  <2> QED BY <2>3, <2>4
<1>4. CASE RefreshPut
  <2>1. todo # <<>> /\ Head(todo) \in Hosts /\ queue \in Seq(Hosts)
    BY <1>4, HeadTailType DEF RefreshPut, TypeInv, WorkInv, TypeOK
  <2>2. \A h \in Hosts : In(h, queue') <=> In(h, queue) \/ h = Head(todo)
    BY <1>4, <2>1, AppendIn DEF RefreshPut, Put
  <2>3. UNCHANGED <<deferred, geoPc, host, cache, asked>>
    BY <1>4 DEF RefreshPut, geoVars, history
  <2>4. refreshPc = "put" /\ refreshPc' = "scan"
    BY <1>4 DEF RefreshPut
  <2>5. \A h \in Hosts : Owes(h)' <=> Owes(h)
    BY <2>1, <2>2, <2>3, <2>4 DEF Owes, InFlight, Putting, Scanning
  <2> QED BY <1>s, <2>3, <2>5
<1> QED BY <1>1, <1>2, <1>3, <1>4 DEF Refresh

\* Steps of the lookup thread.
LEMMA ServiceLookup ==
  TypeInv /\ PrivacyInv /\ PrivateInv /\ StoredInv /\ SkipInv /\ Lookup
    => [Service!Next]_(Service!vars)
<1> SUFFICES ASSUME TypeInv, PrivacyInv, PrivateInv, StoredInv, SkipInv, Lookup
             PROVE  [Service!Next]_(Service!vars)
  OBVIOUS
<1> USE OwedIsOwes, OwedIsOwesNext
<1>s. ASSUME UNCHANGED <<cache, asked>>, \A h \in Hosts : Owes(h)' <=> Owes(h)
      PROVE  UNCHANGED Service!vars
  BY <1>s DEF Service!vars
<1>t. host \in Hosts /\ queue \in Seq(Hosts) /\ deferred \in Seq(Hosts)
  BY DEF TypeInv, TypeOK
<1>1. CASE GeoGet
  <2>1. \A h \in Hosts : In(h, queue) <=> In(h, queue') \/ h = host'
    BY <1>1, <1>t, HeadTailIn DEF GeoGet
  <2>2. UNCHANGED <<todo, refreshPc, deferred, cache, asked>>
    BY <1>1 DEF GeoGet, refreshVars, history
  <2>3. geoPc = "get" /\ geoPc' = "read"
    BY <1>1 DEF GeoGet
  <2>4. \A h \in Hosts : Owes(h)' <=> Owes(h)
    BY <2>1, <2>2, <2>3 DEF Owes, InFlight, Putting, Scanning
  <2> QED BY <1>s, <2>2, <2>4
<1>2. CASE GeoRetry
  <2>1. UNCHANGED <<todo, refreshPc, queue, cache, asked>> /\ geoPc = "empty"
    BY <1>2 DEF GeoRetry, refreshVars, history
  <2>2. CASE /\ deferred # <<>> /\ deferred' = Tail(deferred)
             /\ host' = Head(deferred) /\ geoPc' = "read"
    <3>1. \A h \in Hosts : In(h, deferred) <=> In(h, deferred') \/ h = host'
      BY <1>t, <2>2, HeadTailIn
    <3>2. \A h \in Hosts : Owes(h)' <=> Owes(h)
      BY <2>1, <2>2, <3>1 DEF Owes, InFlight, Putting, Scanning
    <3> QED BY <1>s, <2>1, <3>2
  <2>3. CASE UNCHANGED <<host, deferred>> /\ geoPc' \in {"get", "exited"}
    <3>1. \A h \in Hosts : Owes(h)' <=> Owes(h)
      BY <2>1, <2>3 DEF Owes, InFlight, Putting, Scanning
    <3> QED BY <1>s, <2>1, <3>1
  <2> QED BY <1>2, <2>2, <2>3 DEF GeoRetry, PopFirst, NextTurn
<1>3. CASE GeoGate
  <2>1. UNCHANGED <<todo, refreshPc, queue, host, cache, asked>>
    BY <1>3 DEF GeoGate, refreshVars, history
  <2>2. geoPc = "gate" /\ geoPc' \in {"issue", "store"}
    BY <1>3 DEF GeoGate
  <2>3. deferred' \in {deferred, Append(deferred, host)}
    BY <1>3 DEF GeoGate, Defer
  <2>4. \A h \in Hosts : h # host => (In(h, deferred') <=> In(h, deferred))
    <3>1. CASE deferred' = deferred
      BY <3>1
    <3>2. CASE deferred' = Append(deferred, host)
      <4>1. \A h : In(h, Append(deferred, host)) <=> In(h, deferred) \/ h = host
        BY <1>t, AppendIn
      <4> QED BY <3>2, <4>1
    <3> QED BY <2>3, <3>1, <3>2
  <2>5. InFlight(host) /\ InFlight(host)'
    BY <2>1, <2>2 DEF InFlight
  <2>6. \A h \in Hosts : h # host => (Owes(h)' <=> Owes(h))
    BY <2>1, <2>4 DEF Owes, InFlight, Putting, Scanning
  <2>7. Owes(host) /\ (Owes(host))'
    BY <2>1, <2>5 DEF Owes, InFlight
  <2>8. \A h \in Hosts : Owes(h)' <=> Owes(h)
    BY <2>1, <2>6, <2>7 DEF Owes, InFlight, Putting, Scanning
  <2> QED BY <1>s, <2>1, <2>8
<1>4. CASE GeoTimeout \/ GeoPause
  <2>1. UNCHANGED <<todo, refreshPc, queue, deferred, host, cache, asked>>
    BY <1>4 DEF GeoTimeout, GeoPause, refreshVars, history
  <2>2. geoPc \in {"get", "pause"} /\ geoPc' \in {"empty", "get", "exited"}
    BY <1>4 DEF GeoTimeout, GeoPause, NextTurn
  <2>3. \A h \in Hosts : Owes(h)' <=> Owes(h)
    BY <2>1, <2>2 DEF Owes, InFlight, Putting, Scanning
  <2> QED BY <1>s, <2>1, <2>3
<1>5. CASE GeoRead \/ GeoCallFails \/ GeoCallRefused \/ GeoCallSucceeds \/ GeoSave
  <2>1. UNCHANGED <<todo, refreshPc, queue, deferred, host, cache, asked>>
    BY <1>5 DEF GeoRead, GeoCallFails, GeoCallRefused, GeoCallSucceeds, GeoSave,
                refreshVars, history
  <2>2. /\ geoPc \in {"read", "calling", "save"}
        /\ geoPc' \in {"gate", "save", "store"}
    BY <1>5 DEF GeoRead, GeoCallFails, GeoCallRefused, GeoCallSucceeds, GeoSave
  <2>3. \A h \in Hosts : Owes(h)' <=> Owes(h)
    BY <2>1, <2>2 DEF Owes, InFlight, Putting, Scanning
  <2> QED BY <1>s, <2>1, <2>3
<1>6. CASE GeoCall
  <2>1. UNCHANGED <<todo, refreshPc, queue, deferred, host, cache>>
    BY <1>6 DEF GeoCall, refreshVars
  <2>2. geoPc = "issue" /\ geoPc' = "calling"
    BY <1>6 DEF GeoCall
  <2>3. \A h \in Hosts : Owes(h)' <=> Owes(h)
    BY <2>1, <2>2 DEF Owes, InFlight, Putting, Scanning
  <2>4. host \in Owed /\ Owed' = Owed
    BY <1>t, <2>2, <2>3 DEF Owes, InFlight
  <2>5. Service!Ask(host)
    BY <1>6, <2>1, <2>4 DEF GeoCall, Service!Ask
  <2> QED BY <1>t, <2>5 DEF Service!Next
<1>7. CASE GeoStore
  <2>1. UNCHANGED <<todo, refreshPc, queue, deferred, host, asked>>
    BY <1>7 DEF GeoStore, refreshVars, history
  <2>2. geoPc = "store" /\ geoPc' = "discard"
    BY <1>7 DEF GeoStore
  <2>3. \A h \in Hosts : Owes(h)' <=> Owes(h)
    BY <2>1, <2>2 DEF Owes, InFlight, Putting, Scanning
  <2>4. host \in Owed /\ Owed' = Owed
    BY <1>t, <2>2, <2>3 DEF Owes, InFlight
  <2>5. Entry(data) \in Found \cup {"unavailable"}
    BY DEF Entry, TypeInv, TypeOK, GeoData
  <2>6. Service!Note(host)
    BY <1>7, <2>1, <2>4, <2>5 DEF GeoStore, Service!Note
  <2> QED BY <1>t, <2>6 DEF Service!Next
<1>8. CASE GeoDiscard
  <2>1. UNCHANGED <<todo, refreshPc, queue, deferred, host, cache, asked>>
    BY <1>8 DEF GeoDiscard, refreshVars, history
  <2>2. geoPc = "discard" /\ geoPc' \in {"get", "exited", "pause"}
    BY <1>8 DEF GeoDiscard, NextTurn
  <2>3. \A h \in Hosts : h # host => (Owes(h)' <=> Owes(h))
    BY <2>1, <2>2 DEF Owes, InFlight, Putting, Scanning
  <2>4. Owes(host) /\ InFlight(host)
    BY <2>2 DEF Owes, InFlight
  <2>5. CASE \A h \in Hosts : h = host => Owes(h)'
    BY <1>s, <1>t, <2>1, <2>3, <2>4, <2>5 DEF Owes
  <2>6. CASE ~ \A h \in Hosts : h = host => Owes(h)'
    <3>1. Owed' = Owed \ {host}
      BY <2>3, <2>6
    <3>2. host \in Owed
      BY <1>t, <2>4
    <3>3. ~In(host, deferred)
      BY <2>1, <2>6 DEF Owes
    <3>4. cache[host] # "absent" /\ cache[host] # "private"
      BY <1>t, <2>2, <2>4 DEF StoredInv, PrivateInv, PrivacyInv, OnlyPublicHostsLeave
    <3>5. cache[host] \in Found \/ cache[host] = "unavailable"
      BY <1>t, <3>4 DEF TypeInv, TypeOK, CacheEntry
    <3>6. cache[host] = "unavailable" => host \in asked
      BY <2>2, <3>3 DEF SkipInv, AskedInv
    <3>7. Service!Keep(host)
      BY <2>1, <3>1, <3>2, <3>5, <3>6 DEF Service!Keep
    <3> QED BY <1>t, <3>7 DEF Service!Next
  <2> QED BY <2>5, <2>6
<1> QED BY <1>1, <1>2, <1>3, <1>4, <1>5, <1>6, <1>7, <1>8 DEF Lookup

\* Every step of the program is a step of the service, or none.
LEMMA ServiceStep ==
  TypeInv /\ PrivacyInv /\ PrivateInv /\ StoredInv /\ SkipInv /\ [Next]_vars
    => [Service!Next]_(Service!vars)
<1> SUFFICES ASSUME TypeInv, PrivacyInv, PrivateInv, StoredInv, SkipInv, [Next]_vars
             PROVE  [Service!Next]_(Service!vars)
  OBVIOUS
<1>1. ASSUME UNCHANGED <<todo, refreshPc, queue, deferred, geoPc, host, cache, asked>>
      PROVE  UNCHANGED Service!vars
  BY <1>1 DEF Service!vars, Owed, InFlight, Scanning
<1>2. CASE Environment
  BY <1>1, <1>2 DEF Environment, NetworkChange, ToggleDbOnly, DatasetRow, Stop,
                    refreshVars, geoVars, history
<1>3. CASE UNCHANGED vars
  BY <1>1, <1>3 DEF vars
<1> QED BY <1>2, <1>3, ServiceRefresh, ServiceLookup DEF Next

\* The threads, the queue and the postponed lookups implement a service that
\* keeps its promises: a lookup once owed is never lost, and counted as done
\* only with a place found or after a call of ip-api.com.
THEOREM ServiceImplemented == Spec => Implements
<1>1. Init => Service!Init
  BY DEF Init, Service!Init, Owed, InFlight, Scanning, In
<1>2. Init => PrivacyInv /\ PrivateInv /\ QueueInv /\ SkipInv
  <2>1. Init => PrivacyInv /\ PrivateInv /\ SkipInv
    BY DEF Init, PrivacyInv, ScanInv, OnlyPublicHostsLeave, InFlight, In, PrivateInv,
           SkipInv, AskedInv, SkippedIsRemembered
  <2>2. Init => QueueInv
    BY QueueInvInit
  <2> QED BY <2>1, <2>2
<1>3. QueueInv => StoredInv
  BY DEF QueueInv
<1> QED BY <1>1, <1>2, <1>3, TypeInvHolds, PrivacyInvStep, PrivateInvStep, QueueInvStep,
           SkipInvStep, ServiceStep, PTL DEF Spec, Implements, Service!Spec
=============================================================================
