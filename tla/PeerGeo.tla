------------------------------ MODULE PeerGeo ------------------------------
(***************************************************************************)
(* PeerService (src/services/peers.py): the "peer-refresh" thread polls    *)
(* the node and hands unknown public hosts to a queue; the "geoip-lookup"  *)
(* thread takes them from the queue, asks the SQLite database, then        *)
(* ip-api.com, and fills the cache that GET /api/peers reads.  Each lock   *)
(* region is one action, and everything between two regions is a point     *)
(* where the other thread, a dashboard request or the connectivity monitor *)
(* may run.                                                                *)
(***************************************************************************)
EXTENDS Naturals, Sequences

CONSTANTS
  Hosts,        \* the peer hosts the node may report
  PublicHosts,  \* the hosts for which is_public_address holds
  GeoEnabled,   \* settings.geoip_enabled: the database is used at all
  Found,        \* the data a lookup may yield: with a "city", with "nocity"
  MaxPeers      \* bound: peers in one getpeerinfo answer

ASSUME PeerGeoAssumption ==
  /\ PublicHosts \subseteq Hosts
  /\ GeoEnabled \in BOOLEAN
  /\ Found \subseteq {"city", "nocity"}
  /\ MaxPeers \in Nat

VARIABLES
  peers,      \* _peers: the hosts of the last getpeerinfo answer
  todo,       \* the peers the refresh loop has not scanned yet
  refreshPc,  \* where the refresh thread is
  queue,      \* _geo_queue
  pending,    \* _pending
  cache,      \* _geo_cache
  deferred,   \* _geo_loop's local list of postponed lookups
  geoPc,      \* where the lookup thread is
  host,       \* _geo_loop's host
  data,       \* _geo_loop's data
  fromDb,     \* _geo_loop's from_database
  skipApi,    \* _geo_loop's skip_api
  db,         \* the rows of geo_cache
  net,        \* connectivity.internet_state
  dbOnly,     \* connectivity.geoip_api_disabled
  stopped,    \* stop_event
  asked,      \* history: hosts ip-api.com has been asked about
  offCalls    \* history: API calls begun since lookups were last toggled

refreshVars == <<peers, todo, refreshPc>>
geoVars     == <<deferred, geoPc, host, data, fromDb, skipApi>>
envVars     == <<net, dbOnly, stopped>>
history     == <<asked, offCalls>>
vars == <<peers, todo, refreshPc, queue, pending, cache, deferred, geoPc,
          host, data, fromDb, skipApi, db, net, dbOnly, stopped, asked,
          offCalls>>

\* What a lookup yields, nothing included.
GeoData == Found \cup {"none"}
CacheEntry == Found \cup {"absent", "private", "unavailable"}
NetStates  == {"green", "yellow", "red"}
PeerLists  == UNION {[1..n -> Hosts] : n \in 0..MaxPeers}

\* x occurs in the sequence s.
In(x, s) == \E i \in 1..Len(s) : s[i] = x

\* The host the refresh thread is working on, and the lookup in progress.
Scanning(h) == todo # <<>> /\ Head(todo) = h
InFlight(h) == /\ host = h
               /\ geoPc \in {"read", "gate", "issue", "calling", "save",
                             "store", "discard"}

-----------------------------------------------------------------------------
Init ==
  /\ peers = <<>> /\ todo = <<>> /\ refreshPc = "poll"
  /\ queue = <<>> /\ pending = {}
  /\ cache = [h \in Hosts |-> "absent"]
  /\ deferred = <<>> /\ geoPc = "get"
  /\ host \in Hosts /\ data = "none" /\ fromDb = FALSE /\ skipApi = FALSE
  /\ db \in [Hosts -> IF GeoEnabled THEN GeoData ELSE {"none"}]
  /\ net = "green" /\ dbOnly = FALSE /\ stopped = FALSE
  /\ asked = {} /\ offCalls = 0

(***************************************************************************)
(* The refresh thread.                                                     *)
(***************************************************************************)

\* getpeerinfo answers (an RPC failure is the empty list) and the answer
\* replaces the published peers.
RefreshPoll ==
  /\ refreshPc = "poll"
  /\ \E answer \in PeerLists : peers' = answer /\ todo' = answer
  /\ refreshPc' = "scan"
  /\ UNCHANGED <<queue, pending, cache, geoVars, db, envVars, history>>

\* Mutant: every unknown host is looked up.
AnyHostLookedUp(h) == TRUE

\* is_public_address decides whether a host may be looked up.
MayLookUp(h) == h \in PublicHosts

\* The cache is read under its lock; what is found decides the next step.
RefreshScan ==
  /\ refreshPc = "scan" /\ todo # <<>>
  /\ IF cache[Head(todo)] # "absent"
       THEN todo' = Tail(todo) /\ UNCHANGED refreshPc
       ELSE /\ refreshPc' = IF MayLookUp(Head(todo)) THEN "mark" ELSE "private"
            /\ UNCHANGED todo
  /\ UNCHANGED <<peers, queue, pending, cache, geoVars, db, envVars, history>>

RefreshPrivate ==
  /\ refreshPc = "private"
  /\ cache' = [cache EXCEPT ![Head(todo)] = "private"]
  /\ todo' = Tail(todo) /\ refreshPc' = "scan"
  /\ UNCHANGED <<peers, queue, pending, geoVars, db, envVars, history>>

\* queue_geo_lookup returns early for a host that is already pending.
AlreadyPending(h) == h \in pending

\* queue_geo_lookup, inside _pending_lock.
RefreshMark ==
  /\ refreshPc = "mark"
  /\ IF AlreadyPending(Head(todo))
       THEN /\ todo' = Tail(todo) /\ refreshPc' = "scan"
            /\ UNCHANGED pending
       ELSE /\ pending' = pending \cup {Head(todo)}
            /\ refreshPc' = "put"
            /\ UNCHANGED todo
  /\ UNCHANGED <<peers, queue, cache, geoVars, db, envVars, history>>

\* Mutant: a bounded queue whose overflow is swallowed.
PutIfRoom(h) == IF queue = <<>> THEN Append(queue, h) ELSE queue

\* _geo_queue.put, on a queue without a bound.
Put(h) == Append(queue, h)

\* queue_geo_lookup, after the lock is released.
RefreshPut ==
  /\ refreshPc = "put"
  /\ queue' = Put(Head(todo))
  /\ todo' = Tail(todo) /\ refreshPc' = "scan"
  /\ UNCHANGED <<peers, pending, cache, geoVars, db, envVars, history>>

\* stop_event.wait(REFRESH_INTERVAL_SECONDS), then the loop's condition.
RefreshSleep ==
  /\ refreshPc = "scan" /\ todo = <<>>
  /\ refreshPc' = IF stopped THEN "exited" ELSE "poll"
  /\ UNCHANGED <<peers, todo, queue, pending, cache, geoVars, db, envVars,
                 history>>

Refresh == \/ RefreshPoll \/ RefreshScan \/ RefreshPrivate \/ RefreshMark
           \/ RefreshPut \/ RefreshSleep

(***************************************************************************)
(* The lookup thread.                                                      *)
(***************************************************************************)

\* The loop's condition, once a turn is over.
NextTurn == IF stopped THEN "exited" ELSE "get"

GeoGet ==
  /\ geoPc = "get"
  /\ queue # <<>>
  /\ host' = Head(queue) /\ queue' = Tail(queue)
  /\ geoPc' = "read"
  /\ UNCHANGED <<refreshVars, pending, cache, deferred, data, fromDb, skipApi,
                 db, envVars, history>>

\* get(timeout=0.5) raises queue.Empty.
GeoTimeout ==
  /\ geoPc = "get"
  /\ queue = <<>>
  /\ geoPc' = "empty"
  /\ UNCHANGED <<refreshVars, queue, pending, cache, deferred, host, data,
                 fromDb, skipApi, db, envVars, history>>

\* A snapshot that lets a lookup call the API.
Online == net = "green" /\ ~dbOnly

\* Mutant: the postponed lookup is read, not popped.
PeekFirst(lookups) == lookups

\* The postponed lookups without the first one.
PopFirst(lookups) == Tail(lookups)

\* Retries a postponed lookup once the snapshot says the API may be used.
GeoRetry ==
  /\ geoPc = "empty"
  /\ IF deferred # <<>> /\ Online
       THEN /\ host' = Head(deferred) /\ deferred' = PopFirst(deferred)
            /\ geoPc' = "read"
       ELSE geoPc' = NextTurn /\ UNCHANGED <<host, deferred>>
  /\ UNCHANGED <<refreshVars, queue, pending, cache, data, fromDb, skipApi,
                 db, envVars, history>>

\* GeoDatabase.get: the row, or None when there is none, when the database is
\* disabled or when SQLite raises.
GeoRead ==
  /\ geoPc = "read"
  /\ data' \in {"none"} \cup IF GeoEnabled THEN {db[host]} ELSE {}
  /\ fromDb' = (data' # "none")
  /\ geoPc' = "gate"
  /\ UNCHANGED <<refreshVars, queue, pending, cache, deferred, host, skipApi,
                 db, envVars, history>>

\* Mutant: a skipped lookup is dropped.
DropSkipped(h) == deferred

\* What happens to the postponed lookups when this one must be skipped.
Defer(h) == IF In(h, deferred) THEN deferred ELSE Append(deferred, h)

\* The second snapshot decides whether the API may be asked.
GeoGate ==
  /\ geoPc = "gate"
  /\ skipApi' = ~Online
  /\ IF data = "none" /\ skipApi'
       THEN deferred' = Defer(host)
       ELSE UNCHANGED deferred
  /\ geoPc' = IF data = "none" /\ ~skipApi' THEN "issue" ELSE "store"
  /\ UNCHANGED <<refreshVars, queue, pending, cache, host, data, fromDb, db,
                 envVars, history>>

\* _fetch_geo sends the request.
GeoCall ==
  /\ geoPc = "issue"
  /\ geoPc' = "calling"
  /\ asked' = asked \cup {host}
  /\ offCalls' = offCalls + (IF dbOnly THEN 1 ELSE 0)
  /\ UNCHANGED <<refreshVars, queue, pending, cache, deferred, host, data,
                 fromDb, skipApi, db, envVars>>

\* A network or HTTP failure: network_failure turns the state yellow.
GeoCallFails ==
  /\ geoPc = "calling"
  /\ net' = "yellow"
  /\ geoPc' = "store"
  /\ UNCHANGED <<refreshVars, queue, pending, cache, deferred, host, data,
                 fromDb, skipApi, db, dbOnly, stopped, history>>

\* An HTTP 200 whose status is not "success": no data, nothing reported.
GeoCallRefused ==
  /\ geoPc = "calling"
  /\ geoPc' = "store"
  /\ UNCHANGED <<refreshVars, queue, pending, cache, deferred, host, data,
                 fromDb, skipApi, db, envVars, history>>

\* Data; is_valid_geo_data accepts it or not, and network_success may be the
\* success that turns the state green again.
GeoCallSucceeds ==
  /\ geoPc = "calling"
  /\ data' \in Found
  /\ net' \in {net, "green"}
  /\ geoPc' \in {"save", "store"}
  /\ UNCHANGED <<refreshVars, queue, pending, cache, deferred, host, fromDb,
                 skipApi, db, dbOnly, stopped, history>>

\* GeoDatabase.save: an SQLite error is only printed.
GeoSave ==
  /\ geoPc = "save"
  /\ \/ GeoEnabled /\ db' = [db EXCEPT ![host] = data]
     \/ UNCHANGED db
  /\ geoPc' = "store"
  /\ UNCHANGED <<refreshVars, queue, pending, cache, deferred, host, data,
                 fromDb, skipApi, envVars, history>>

\* Mutant: a failed lookup is stored as it came.
StoredAsIs(d) == d

\* The cache entry of a lookup that yielded d.
Entry(d) == IF d = "none" THEN "unavailable" ELSE d

GeoStore ==
  /\ geoPc = "store"
  /\ cache' = [cache EXCEPT ![host] = Entry(data)]
  /\ geoPc' = "discard"
  /\ UNCHANGED <<refreshVars, queue, pending, deferred, host, data, fromDb,
                 skipApi, db, envVars, history>>

\* Mutant: only a lookup that found something clears the mark.
DiscardOnlyFound(h) == IF data = "none" THEN pending ELSE pending \ {h}

\* _pending once the lookup of h is over.
Discarded(h) == pending \ {h}

\* The lookup is over; a call to the API is followed by a pause.  What the
\* loop's locals hold is not read again, so they are cleared here.
GeoDiscard ==
  /\ geoPc = "discard"
  /\ pending' = Discarded(host)
  /\ geoPc' = IF fromDb \/ skipApi THEN NextTurn ELSE "pause"
  /\ data' = "none" /\ fromDb' = FALSE /\ skipApi' = FALSE
  /\ UNCHANGED <<refreshVars, queue, cache, deferred, host, db, envVars,
                 history>>

GeoPause ==
  /\ geoPc = "pause"
  /\ geoPc' = NextTurn
  /\ UNCHANGED <<refreshVars, queue, pending, cache, deferred, host, data,
                 fromDb, skipApi, db, envVars, history>>

Lookup == \/ GeoGet \/ GeoTimeout \/ GeoRetry \/ GeoRead \/ GeoGate \/ GeoCall
          \/ GeoCallFails \/ GeoCallRefused \/ GeoCallSucceeds \/ GeoSave
          \/ GeoStore \/ GeoDiscard \/ GeoPause

(***************************************************************************)
(* What list_peers tells a dashboard of a host.                            *)
(***************************************************************************)
LocationStatus(h) ==
  CASE h \notin PublicHosts      -> "private"
    [] cache[h] = "city"         -> "ok"
    [] cache[h] = "unavailable"  -> "unavailable"
    [] OTHER                     -> "pending"

(***************************************************************************)
(* The rest of the process, as far as these threads see it.                *)
(***************************************************************************)

\* The connectivity monitor (module Connectivity) moves the state.
NetworkChange ==
  /\ net' \in NetStates \ {net}
  /\ UNCHANGED <<refreshVars, queue, pending, cache, geoVars, db, dbOnly,
                 stopped, history>>

\* POST /api/geodb/toggle-db-only.
ToggleDbOnly ==
  /\ dbOnly' = ~dbOnly
  /\ offCalls' = 0
  /\ UNCHANGED <<refreshVars, queue, pending, cache, geoVars, db, net, stopped,
                 asked>>

\* GeoDatabase.update (module GeoUpdate) inserts a row of the dataset.
DatasetRow ==
  /\ GeoEnabled
  /\ \E h \in Hosts, d \in Found :
       db[h] = "none" /\ db' = [db EXCEPT ![h] = d]
  /\ UNCHANGED <<refreshVars, queue, pending, cache, geoVars, envVars, history>>

\* AppRuntime.stop sets the event.
Stop ==
  /\ ~stopped /\ stopped' = TRUE
  /\ UNCHANGED <<refreshVars, queue, pending, cache, geoVars, db, net, dbOnly,
                 history>>

Environment == NetworkChange \/ ToggleDbOnly \/ DatasetRow \/ Stop

Next == Refresh \/ Lookup \/ Environment

Spec == Init /\ [][Next]_vars

\* Both threads keep running: every blocking call they make has a timeout.
FairSpec == Spec /\ WF_vars(Refresh) /\ WF_vars(Lookup)

-----------------------------------------------------------------------------
(***************************************************************************)
(* Properties.                                                             *)
(***************************************************************************)

\* The variables stay in their domains.
TypeOK ==
  /\ peers \in Seq(Hosts) /\ todo \in Seq(Hosts)
  /\ refreshPc \in {"poll", "scan", "private", "mark", "put", "exited"}
  /\ queue \in Seq(Hosts) /\ pending \subseteq Hosts
  /\ cache \in [Hosts -> CacheEntry]
  /\ deferred \in Seq(Hosts)
  /\ geoPc \in {"get", "empty", "read", "gate", "issue", "calling", "save",
                "store", "discard", "pause", "exited"}
  /\ host \in Hosts /\ data \in GeoData
  /\ fromDb \in BOOLEAN /\ skipApi \in BOOLEAN
  /\ db \in [Hosts -> GeoData]
  /\ net \in NetStates /\ dbOnly \in BOOLEAN /\ stopped \in BOOLEAN
  /\ asked \subseteq Hosts /\ offCalls \in Nat

\* No private, onion, I2P or CJDNS host is ever sent to the geolocation
\* service: the queue, the postponed lookups and the lookup in progress hold
\* public hosts only.
OnlyPublicHostsLeave ==
  \A h \in Hosts : In(h, queue) \/ In(h, deferred) \/ InFlight(h)
                     => h \in PublicHosts

\* A pending mark is never orphaned: a marked host is in the queue, about to
\* be put there, or being looked up.  (queue_geo_lookup refuses marked hosts,
\* so a host whose mark outlived its lookup could never be looked up again.)
PendingIsOutstanding ==
  \A h \in pending : \/ In(h, queue)
                     \/ refreshPc = "put" /\ Scanning(h)
                     \/ InFlight(h)

\* A lookup that was skipped because the API could not be used is not
\* forgotten: a host shown as unavailable without ip-api.com ever having been
\* asked is still on the list of postponed lookups, or being retried.
SkippedIsRemembered ==
  \A h \in Hosts : cache[h] = "unavailable" /\ h \notin asked
                     => In(h, deferred) \/ InFlight(h)

\* However often the node reports a host, however many of its peers share it
\* and however the threads interleave, the queue holds it at most once.
QueuedOnce ==
  \A i, j \in 1..Len(queue) : queue[i] = queue[j] => i = j

\* Turning API lookups off lets at most the lookup that had already passed
\* the gate call the API; no later one does.
AtMostOneCallAfterOff == offCalls <= 1

\* Every peer the node reports gets an entry in the cache, unless the
\* application stops: no lookup is lost between the two threads.
EveryPeerIsResolved ==
  \A h \in Hosts : In(h, peers) ~> (cache[h] # "absent" \/ stopped)

\* Once the internet is back for good and lookups stay allowed, the postponed
\* lookups are all carried out.
DeferredLookupsDrain ==
  <>[]Online => <>[](deferred = <<>> \/ stopped)

\* The threads, the queue and the list of postponed lookups are one way to keep
\* the promises of Resolution: a host is owed its lookup from its mark to the
\* end of the lookup, and as long as the lookup is postponed.
Owed == {h \in Hosts : \/ In(h, queue) \/ In(h, deferred) \/ InFlight(h)
                       \/ refreshPc = "put" /\ Scanning(h)}

Service == INSTANCE Resolution WITH entry <- cache, owed <- Owed

\* No step of the two threads loses a promised lookup or counts it as done
\* without a place or a call of ip-api.com, and none makes an entry that no
\* lookup stands behind.
Implements == Service!Spec

=============================================================================
