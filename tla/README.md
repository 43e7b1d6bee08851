# Bitcoin Peer Map: specifications and proofs

Bitcoin Peer Map is a dashboard for a Bitcoin Core/Knots node: a FastAPI
application (`src/`, Python) that polls the node over RPC, locates its peers,
and serves a page (`src/static/js`) that draws them on a map and lets its user
disconnect, ban and add peers.  This directory holds TLA+ models of the parts
of it where threads, requests, answers, timers, failures and the user's clicks
interleave, TLC configurations that check them on small instances, and TLAPS
proofs of their invariants for every instance.

Paths below are those of the repository; `file:line` is the line in the source
the sentence is about.

## 1. The system

| Part | State | Operations | Runs in |
| --- | --- | --- | --- |
| Peer service, `services/peers.py`, `network.py` | published peers, queue of hosts to locate, pending marks, cache of locations, postponed lookups, known addresses | refresh loop, lookup loop, `queue_geo_lookup`, `list_peers` | threads `peer-refresh`, `geoip-lookup`; request threads |
| Connectivity, `services/connectivity.py` | internet state, successes in a row, start of the failure, API failures, prompt count and time, API switch, last price and its currency | `network_failure`, `network_success`, monitor loop, `fetch_price`, `toggle_geoip_api`, `acknowledge_prompt`, `snapshot` | thread `connectivity-monitor`; every thread that calls out |
| GeoIP database, `services/geoip.py` | `geo.db`, staging directory `tmp/`, update lock | `initialize`, `get`, `save`, `update`, `stats` | start, lookup thread, request threads |
| Preferences, `preferences.py`, `runtime.py` | `settings.json`, the switch in memory, save lock | `load`, `save`, toggle | start, request threads |
| Node service, `services/node.py` | none | `dashboard_info`, `mempool`, `blockchain`, `disconnect`, `ban`, `unban`, `bans`, `clear_bans`, `connect` | request threads; the node's RPC |
| Runtime, `runtime.py`, `main.py`, `app.py` | stop event, threads | start, stop, waiting for the node | main thread |
| System metrics, `services/system_metrics.py` | smoothed samples | sampler, event stream | thread `system-metrics` |
| RPC client, settings, routes: `rpc.py`, `settings.py`, `api/*.py` | none | calls, parsing, dispatch | |
| Page, `static/js/app.js` | last peers and nodes on the canvas, filters, private-network mode, selection, currency, dialogs, timers, event stream | polling, rendering, dialogs, map input | browser, one thread of callbacks; several pages may be open |
| AS distribution, `static/js/as-distribution.js` | groups by AS, score, donut, selection, sub-filters, tooltips, insights, popup, history of panels | aggregation, navigation, drawing | browser |

How they interact.  The refresh thread hands unknown public hosts to the lookup
thread through a queue and a set of marks; both, and every request, read or
write the cache.  The lookup thread asks `geo.db`, which an update merges a
dataset into at the same time.  Every outgoing call reports its success or
failure to the connectivity service, whose state in turn decides which calls
are made.  The page polls `/api/peers` and `/api/info`; answers can overtake
each other; user actions are chains of calls, each of which may fail, and what
they act upon may be gone.  Each peer list that arrives is also handed to the
AS distribution and to the private-network mode, which rebuild their panels,
lines and filters from it under whatever the user has selected, pinned or
points at; the two modes close each other.  The only things that outlive the
process are `geo.db` and `settings.json`.

What is hard here, and what each part promises:

- *Peer service.*  Two threads and a check-then-act on cache, marks and queue.
  Every reported peer must be resolved; no host may be queued twice, stranded
  by an orphaned mark, or forgotten when its lookup was postponed; no private
  host may leave for ip-api.com; switching the API off must take effect.
- *Connectivity.*  Report and change of state are separate lock regions and the
  monitor is started and ends concurrently with both.  Red must always be
  watched, as in red nothing else calls out; recovery must be noticed.
- *GeoIP database.*  Six ways to fail in one update under one lock, concurrent
  saves, kills.  The lock and the staging file must be given back, no row lost.
- *Preferences.*  Unlocked toggles, a locked save in steps, kills.  The file
  must be whole, follow memory, and survive restarts.
- *Peer actions.*  Ban is lookup, setban, disconnect on a stale table.  A ban
  must hit its peer, a failed one disconnect nobody, a reported success be one.
- *Price.*  A cache of one currency shared by pages with different ones.
- *AS distribution.*  Some seventy functions share twenty-three variables and
  call each other in states that are half set; a refresh comes between any two
  of the user's steps.  Panel, selection and tooltips must agree, no filter may
  outlive what explains it, a repeated refresh must change nothing, and Escape
  or the map must lead out of everything.
- *Private-network mode.*  The same with timers: the panel opens 200 ms and the
  peer is selected 300 ms after the entry, the popup comes 350 ms later, what
  closes is hidden 350 or 500 ms later, and a poll may enter the mode by
  itself.  What leaving takes away must not come back, the panel must be the
  selected network's and the popup the selected peer's.

## 2. Modules

Each component has a module with its state, `Init`, one action per lock region,
RPC call, handler or file operation, `Spec`, where it says anything about
progress `FairSpec`, and its properties; a module `...Proofs` with its
theorems; and `MC...` configurations, with an `MC...` module where constants
need one.  Definitions marked *Mutant* in a comment are plausible wrong
versions of the definition after them; TLC refutes the property with each (see
`PROJECT.json`), so every property can fail.

**PeerGeo** - `PeerService` with both its threads.  `peers`, `queue`,
`pending`, `cache` are the attributes of these names; `todo`/`refreshPc` and
`deferred`/`host`/`data`/`fromDb`/`skipApi`/`geoPc` the locals and positions of
the two loops.  `RefreshPoll` is one turn of `_refresh_loop`'s RPC,
`RefreshScan`..`RefreshPut` the handling of one peer cut at each lock;
`GeoGet`..`GeoPause` is `_geo_loop`, cut at each lock, at the snapshot of the
connectivity state and at the HTTP call.  The state of the internet and the
switch change at any time.  An entry of the cache is only what the code tells
apart: private, unavailable, found with or without a city.

**Resolution** - the abstract specification of the same service, without
threads, queue, marks or database: for each host an entry, whether a lookup of
it is owed, and whether ip-api.com has been asked about it.  A promise is kept
only by a place, or by "unavailable" after a request has been made.  PeerGeo
implements it (`Implements == Service!Spec`): `entry` is the cache, and a
lookup is owed from its mark until the lookup thread is done with the host,
wherever it is meanwhile - about to be put into the queue, in it, in the
thread's hands, or on the postponed list.  Every step of the two threads is a
step of Resolution or a stutter.

**Connectivity** - `network_failure`, `network_success` and `_check_loop`.
Each report is two actions because `_set_state` takes the lock again
(connectivity.py:43, :60); the thread that `_ensure_checker` finds alive may be
about to return (`checker = "leaving"`).  Time is one event, the tenth second
of a failure.

**GeoUpdate** - `GeoDatabase.initialize`, `save` and `update`, each failing
branch an action that leads to the `finally` clause.  That clause unlinks the
staging file and then releases the lock; an `unlink` that raises skips the
release, and the lock is then held until the restart.  `file` tells a missing `geo.db` from
one that a connection has created without the table; rows remember where they
come from.  Kills and the removal of `geo.db` are external.

**Preferences** - `PreferenceStore.load` and `save` file operation by file
operation, the unlocked read and write of the toggle, start, kill, and an
operator's edit while the process is down.

**PeerActions** - the dialog, the ban list and the peer table of the page with
the `NodeService` calls they make, on a node whose connections change.  An
answer may be an error before or after the node has acted.  `op[d]` is one
dialog or API client; `served`, `poll` and `table` are the list's way from the
node to the page.  The node gives ids out in order and never again until it is
restarted, which the model does not do: bans and disconnects name their peer by
its id, so `BanHitsItsPeer`, `SuccessIsTrue` and `GoneForGood` rest on that.

**Price** - `fetch_price`, the price part of `dashboard_info`, the currency
menu and `fetchInfo`'s panel and dot.  An amount is represented by the currency
it was quoted in, which is what can be wrong about it.

**AsData** - what the AS distribution knows of a list of peers: the groups by
system in their order, the donut's segments with the collective one, "Others",
the peers of a segment or group, the leader of an insight.  The summary's
categories leave out a peer whose system is not known.  A list is the set
of its peers, because the node gives ids out in the order of the list.  Which
provider leads an insight is data; a fixed choice stands for it.

**AsPanel** - the AS distribution's user interface, one record `ui` whose
fields carry the names of the code's variables (the comment at its head gives
the pairs).  A handler is an operator from one record to the next, composed of
the operators for the functions it calls, in the code's order - so what one
function clears and the next sets again shows.  `Rows` are the rows the panel
in front of the user was built with, `TipProviders`, `TipPeers` and `TipLinks`
what an open tooltip offers; a click acts on what is there.  The pointer is on
one thing at a time: a rebuilt row or segment has not seen it enter.  `Refresh`
is `update()` with all it calls.  The popup's removal is a timer of its own.
One kind of category, the networks, stands for all seven the summary lists, and
the direction for all that a provider's panel lists, as the code treats them
alike.

**PrivateNet** - the private-network mode in the same style.  `entry` holds the
timers of entries that have not run, `coming` the popups that a timer will
show, `hides` the timers that will hide panel and donut, `hidden` what is
hidden: until its timer runs, what fades can still be clicked, in the mode or
out of it.  The user may act at any time.  Timers of one kind run in the order
of their due times, those of different kinds in any order.

External (marked in `PROJECT.json`): the node's own connects, disconnects and
expiring bans; the internet; kills and operators; the browser.

Further abstractions.  Between the page's dialog and the server requests always
end with the server's answer; that an answer can be an error after the node has
acted covers what a lost answer would add.  JSON, SQL and HTML are left out
except where a property is about what they hold.  In AsPanel and PrivateNet the
map's camera, colours, texts and animations are left out: nothing reads them
back.

## 3. Runs

| Run | Instance | States | Shows |
| --- | --- | --- | --- |
| `peer_geo` | 2 public hosts (symmetric), 1 private, answers of up to one peer, database on | 6.1 M | no private host leaves; marks, queue and postponed lookups are consistent |
| `peer_geo_live` | 2 public hosts, database off, fair threads | 440 k | peers get resolved, postponed lookups drain, every step is one of Resolution or none |
| `connectivity` | 2 calling threads and the monitor, fair | 17 k | red is watched, recovery is noticed |
| `connectivity_yellow` | 1 calling thread | violation | the finding of section 6 |
| `preferences` | 2 togglers, 2 kills, edits, override, fair | 17 k | the file follows memory, is whole, survives restarts |
| `geo_update` | 2 updaters, 2 hosts, any dataset, removal, 2 kills, fair | 10 k | lock and staging tidy, rows kept, the message true, updates end |
| `peer_actions` | 1 dialog or client, an IPv4 and an onion host, 2 connections, 2 polls that may overtake each other, fair | 705 k | bans hit their peer, reports are true, a failed ban disconnects nobody, departed peers leave the table for good |
| `price` | 2 currencies, 2 requests, fair | 410 k | prices are in the currency asked for, the page settles |
| `as_panel` | 2 peers of 2 systems in 1 network, 1 segment besides Others, the ten kinds of row, donut, panel, title, map, Escape | 258 k | panel, selection and tooltips agree, a repeated refresh changes nothing, there is a way out |
| `as_popup` | 2 peers of 2 networks, popup with its timer, network panels, chips, map, private mode, hidden diagram | 310 k | the same across popup, network panels and the other mode, and no filter outlives its tooltip while something is selected |
| `private_net` | 2 peers of onion (ids 0 and 1), i2p without peers, polls, all timers | 1.9 M | what leaving clears stays cleared but for late timers of the entry; panel, popup and lines are those of the selection |
| `private_net_left` | 1 peer | violation | the second finding of section 6 |

Why these bounds are enough.  The threads of PeerGeo handle one host each at a
time; two public hosts let each hold a different one while both compete for
queue and marks, and a third, private, takes the other branch.  A peer list of
one already repeats a host, as the list is polled again.  In Connectivity two
callers and the monitor reach every order of two reports and a change of state.
In GeoUpdate and Preferences two threads suffice for the one lock, and two
kills for a restart that meets what the restart before left.  Two connections
of two hosts are what a wrong or stale id needs; two polls, or requests, are
what overtaking needs.  One dialog suffices in PeerActions: to a dialog another
one is what the node does, connections that end and bans that are lifted at any
time, and the theorems are about any number of them.  In AsPanel two peers of two systems with one segment
make every kind of target exist at once: a system with a segment of its own, one
in Others, a category both share and, as refreshes bring nobody, one peer or
both, groups that lose, gain and change their members under a selection.
`as_popup` puts the peers into different networks, so that a panel of one can
be replaced by that of the other.  In PrivateNet two peers are the selected and
another one, of which the one with id 1 comes and goes and the other has the id
0, because the code tests ids as truth values; two networks are the selected and
another one, which an entry or a chip chooses also if it has no peers.  The safety properties
listed in section 5 are proved without any bound.

Bounds in guards: `MaxPeers` (PeerGeo: length of an answer; PeerActions: the
node's connections), `MaxCrashes`, `MaxTimers` (AsPanel: removals of popups
under way), `MaxLate` (PrivateNet: the timers of earlier entries that may be
pending at an entry), `Again` (PrivateNet: what several timers may be about to
hide).  `Inputs`,
`Kinds` and `Snapshots` of AsPanel say which of the user's actions, rows and
lists of peers an instance has.  `CHECK_DEADLOCK FALSE` is said for Preferences
only: once the kills are used up a start that failed is final.

## 4. Fairness

- PeerGeo, weak for each thread: every blocking call there has a time-out
  (`get(timeout=0.5)`, `requests` and RPC time-outs, `stop_event.wait`).
- Connectivity, weak for the monitor and for a caller that has begun: the probe
  has a time-out of two seconds, requests of five and ten.
- GeoUpdate, weak for an update under way: connect and read time-outs, and a
  bound on the size of the download.
- Preferences, weak for each thread, strong for taking the lock: waiting
  threads are woken, but `threading.Lock` promises no order.
- PeerActions, weak for the refresh loop and for some poll being sent, as the
  page's timer sends them; strong for a poll's answer and its arrival: answers
  may be lost, but not for ever all of them.  None for dialogs and clients.
- Price, weak for the server's threads and the timers, strong for an answer's
  arrival.  `Price` asks for strong fairness of
  polling only because its bound on requests may make a poll wait.

None is assumed of the user, the node, the internet or the operator, and none at
all by AsPanel and PrivateNet.  That one can leave whatever has been opened
(`WayOut`) is therefore said of states: six times Escape, or six clicks on the
map, lead from each of them to the page at rest.  The proof shows that five keys
or four clicks are enough.

## 5. Theorems

All are of the form `Spec => []P` or `Spec => [][A]_vars`, for any finite or
infinite sets of hosts, threads, dialogs, requests, currencies, peers, systems
and networks that satisfy the `ASSUME`s of the modules (which say that markers
such as `"free"` or `None` are not members of these sets; `GeoUpdate` also that
hosts and updaters are finite, since rows are counted, and `AsData` that the
peers are, since groups are).

| Module | Theorems | Argument |
| --- | --- | --- |
| PeerGeoProofs | TypeCorrect, OneCallAfterOff, OnlyPublicLeave, HostQueuedOnce, MarksAreOutstanding, SkippedLookupsRemembered | `PendingIsOutstanding` and `QueuedOnce` are not inductive alone: a host may be put into the queue because its mark was absent, so the proof carries which hosts are marked while they are queued, about to be put or in flight, and that these places exclude each other. |
| | ServiceImplemented: `Spec => Implements` | The initial states map to Resolution's; under the invariants above each action of the two threads is one of Resolution's actions or leaves entry, promise and calls as they are. |
| ConnectivityProofs | TypeCorrect, RedStateIsWatched | Red is set by the monitor only, so it is in its loop then; it may leave on green only, and no thread but the monitor can start another. |
| GeoUpdateProofs | TypeCorrect, LockGivenBack, StagingStaysTidy, RowsSurviveUpdates, UpToDateIsTrue | The lock's holder is the one updater not idle, or one whose `unlink` raised, which has gone and left lock and file behind; hence only the holder has a file and a count, and rows grow between its count and its merge. |
| PreferencesProofs | TypeCorrect, FileCatchesUp, SwitchSurvives, FileNeverTorn | Whenever memory and file differ some thread is still on its way to dump the switch, as it reads it under the lock after its own write. |
| PeerActionsProofs | TypeCorrect, OnlyIpAddressesBanned, BansHitTheirPeers, ReportsAreTrue, FailedBanDisconnectsNobody | Ids are given out once: what a dialog has found out about an id stays true. |
| PriceProofs | TypeCorrect, AnswersAreAsRequested, LastPriceHasItsSymbol | Amount and currency of the cache belong together, hence in every copy. |
| AsPanelProofs | SelectionAgrees: `ViewsAgree` for every set of rows, inputs and lists of peers | `ViewsAgree` becomes inductive with one companion: rows and links that select a provider exist only in focused mode and name one.  Operators that draw, filter, build rows or hide tooltips take away and add nothing (relation `Less`), so each handler needs an argument only for what it selects.  Hypothesis `NoneIsNoTip`: null is not a tooltip. |
| | TypeCorrect: `TypeOK` | With `ViewsAgree`'s invariant and one more (`Kept`): a popup is open in the focused mode only, a pinned tooltip is of the kind of the filter's row, a category and an insight are not in force together, and nothing selected means no tooltip and no filter.  A refresh needs these to find a row's peers again.  Each operator has a lemma on its domain and on the fields it may change. |
| | FilterHasItsTooltip: `FilterKeepsItsTooltip` | For every set of inputs, network chips included.  A companion, `Clean`, says that a filter has its tooltip and that, with nothing selected, there is neither filter nor network panel; every handler, each call of it included, keeps it where it holds, and a step from a selection with its tooltip starts in it. |
| | AlwaysAWayOut: `WayOut` | Two measures count what is open: popup, second tooltip, pinned tooltip, provider or network, and the focused mode itself.  Each Escape lowers the one, each click on the map the other, and whatever brings them to zero is the plain map.  The first never exceeds five and the second four, so fewer keys than the property's six do. |
| | RefreshSettles: `PollSettles` | For each of the three panels, what a refresh paints is written in closed form, as a function of the list of peers, the selection, the pinned row and the insight; the refresh leaves these as it found them, so the next one paints the same.  Hypothesis `NoneIsNoFilter`: null is not a filter either. |
| PrivateNetProofs | TypeCorrect | One lemma for each operator. |
| | LeavingSticks: `LeavingIsFinal` | With one companion: no preview is saved without a tooltip, as the pointer's leaving would put it back.  The exit clears every field; out of the mode and with nothing hidden pending there is nothing left that a click could reach, so only the timers of an entry remain. |
| | PanelFollowsSelection: `PanelIsOfSelection` | By handlers: each one that changes the selected network opens its panel, closes the panel with the selection or starts the timer that opens it; the exception, `Overtaken`, names the two kinds of late timer. |
| | PopupFollowsSelection: `PopupIsOfSelection` | Every operator but `SelectPrivatePeer` only takes away from selection, popup and what is on its way. |
| | LinesHaveReasons: `LinesAreExplained` | Inductive with: nothing is saved without a tooltip.  Hypothesis: null is not a tooltip. |

Every invariant and action property that a passing run checks is thus a theorem
as well.  Only model-checked: all liveness (`EveryPeerIsResolved`,
`DeferredLookupsDrain`, `RecoversWhileWatched`, `UpdateEnds`, `GoneForGood`,
`SettlesOnChoice`), since the proof system does not reason about fairness and
ENABLED here.

## 6. Findings and disagreements

Two runs violate their property.

- `YellowMeansRetrying` (connectivity.py:64): a failure that meets the monitor
  after it has seen green and before its thread has ended starts none; the state
  stays yellow, which the page explains as "retrying..." (app.js:4429), with
  nobody retrying until the next call.
- `NothingStays` (app.js:1554): nothing calls the two timers of an entry back
  when the mode is left, and what they do does not ask for the mode.  The run's
  trace enters with a click on the small donut, leaves, and lets the entry's and
  the exit's timers run: the panel slides over the public map and stays there,
  and as the exit's timer then gives it the class `hidden`, it cannot be clicked
  any more.  With a dot instead of the donut a peer is selected and its popup
  shown out of the mode.  The comment over the exit says "return to normal
  public view" (app.js:1565).  `LeavingIsFinal` says what does hold: the handlers
  clear all, and after the fading only a timer of an entry brings anything back.

Further disagreements between the code and what it says of itself were met
while modelling.  The models do what the code does; the properties leave these
cases out.

Backend and dialogs:

- geoip.py:282: an `unlink` that raises in the `finally` clause skips the
  release, and until the restart every update is answered "Geo database update
  already in progress" (geoip.py:207) though none is.  `LockIsHeldByUpdate`
  names this end as the only one that keeps the lock.
- peers.py:246: a peer that was found without a city falls through to "pending"
  for ever; the page counts it under "Locating N peers..." (app.js:5549).
- preferences.py:33: a `settings.json` that is valid JSON and no object raises
  at start, where tests/test_preferences.py:18 is named "invalid preferences
  fall back to defaults".
- node.py:171, app.js:6672: a `listbanned` that failed is shown as "No banned
  IPs".

AS distribution:

- as-distribution.js:6562 and :6583 look for the words "outbound" and
  "inbound", the server says "OUT" and "IN" (peers.py:265): the next refresh
  empties the filter of a pinned direction row, where the comments say that it
  refreshes the peers.  `PollSettles` compares the second refresh with the first
  and does not see this.
- A network panel that was opened from the plain map, with neither the summary
  nor a provider selected, loses a pinned row's tooltip and keeps its filter in
  two ways: by Escape, which restores the table for a selected summary or
  provider only, where the comment says "Restore to full summary or AS state"
  (as-distribution.js:5371-5380), and by a click on the map
  (as-distribution.js:5461), where the comments say "everything returns to
  default positions" and "Deselect everything".  The table then hides peers and
  nothing says why until the next refresh or click.  `FilterKeepsItsTooltip`
  leaves out these states and no others: it is about every step from a selected
  summary or provider.
- The timer that removes a popup takes whatever popup is there
  (as-distribution.js:5541).

Private-network mode:

- The timers of the exit hide panel and donut also if the mode has been entered
  again before they run; closing one network and choosing another within 350 ms
  hides the new panel in the same way.  And the panel of an entry opens after
  200 ms for the entry's network, also if a chip has chosen another one
  meanwhile.  These two are the `Overtaken` of `PanelIsOfSelection`.
- Closing an insight deselects its peer and leaves the popup open;
  `PopupIsOfSelection` is silent while no peer is selected.
- Selecting another peer while an insight is pinned deselects it at once, and an
  insight's hover clears the line of the selected peer when it ends.
- A row clicked again after a poll is pinned anew instead of unpinned, as the
  poll has built another row; the rectangle of an insight whose row a poll
  rebuilds under the pointer stays.
- After a click on a segment and Back, `pnHoveredNet` stays at the segment, and
  with it the lines to that network's peers (app.js:3260), of which
  `LinesAreExplained` does not speak.
- A peer with id 0 counts as none for an entry and for insights.
- The two-stage deselection at app.js:7444-7470 cannot be reached: a map click
  in the mode has returned before.

Other behaviour that no document contradicts: a recovery resets the prompt's
backoff (connectivity.py:58); an unavailable host is never asked about again
(peers.py:110); rows saved between the count and the merge of an update are
counted as new (geoip.py:265), so the "+N new entries" may be too many, where
`UpToDateMeansNothingNew` is about N = 0 only; two concurrent toggles may cancel out or be lost
(runtime.py:67); a price that was asked for before a change of currency is shown
with the new symbol until the next answer (app.js:4353); the node's ids start
again when it restarts, so a dialog opened before may act on another peer.

## 7. Not modelled, and why

- *API failures and the prompt* (connectivity.py, app.js): the count, its
  backoff and the acknowledgement by several pages keep no state that the
  modelled parts read, except the switch, which PeerGeo lets change at any time.
- *The page's hourly update timer*: what two updates do to the database is
  GeoUpdate's; the timer adds a message.
- *Event stream and system metrics*: each sends or smooths the last value
  (floating point), and nothing acts on it but the display.
- *RPC client, settings, routes*: conversions without state; their errors are
  the failing branches of the modules that call them.
- *Start and stop order* (runtime.py, main.py): one sequence in one thread; each
  thread's stop is in its module.
- *Known addresses* (`refresh_known_addresses`): a list that is replaced as a
  whole.
- *The map's drawing*: fading nodes, network badges, columns of the table,
  camera, animation, texts, colours.  Output, or state that no other part reads.
- *The score of a system and what an insight ranks by*: numbers that only order
  the rows; any order is covered by a fixed choice as no property depends on it.
- *Templates, styles, assets, tests, packaging*: no behaviour of the running
  program.
