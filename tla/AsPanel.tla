------------------------------ MODULE AsPanel ------------------------------
(***************************************************************************)
(* Selection and navigation of the AS distribution: the donut's segments,  *)
(* the detail panel with its summary, provider and network views, the rows *)
(* of the panel and the two levels of tooltips they open, the insights,    *)
(* the peer popup, and the refresh that runs through all of it every ten   *)
(* seconds (src/static/js/as-distribution.js).                             *)
(*                                                                         *)
(* The code's handlers are sequences of assignments and of calls to each   *)
(* other; here a handler is an operator from the state of the user         *)
(* interface, a record, to the next one.  Left out: what is only drawn     *)
(* (the text in the donut's centre, colours, positions, scrolling), the    *)
(* map's zoom, and openMultiPeerPopup, which nothing calls.                *)
(***************************************************************************)
EXTENDS AsData

CONSTANTS
  Kinds,     \* the kinds of rows that the panel offers
  Inputs,    \* what the user does, beside moving the pointer over the panel
  Snapshots, \* the peer lists that a refresh may bring
  MaxTimers  \* closings of the popup that may be pending at a time

ASSUME AsPanelAssumption ==
  Snapshots \subseteq SUBSET Peers /\ {} \in Snapshots /\ MaxTimers \in Nat

VARIABLE ui

(***************************************************************************)
(* The fields of ui, with the names of the code:                           *)
(*   peers       lastPeersRaw, with asGroups and donutSegments             *)
(*   sel         selectedAs             summary  summarySelected           *)
(*   focused     donutFocused           net      activeNetworkPanel        *)
(*   panel       what the detail panel shows, and of which list            *)
(*   history     panelHistory is not empty                                 *)
(*   others      othersListOpen         hoverAll hoveredAll                *)
(*   sub         subFilterCategory and -Label (the row) and -PeerIds       *)
(*   tip         the sub-tooltip, whether it is pinned, by which row, and  *)
(*               whether that row is still in the panel                    *)
(*   subsub      the sub-sub-tooltip's provider and peers                  *)
(*   insight     insightActiveAsNum     rect     insightRectVisible        *)
(*   legend      legendFocusAs          hovered  hoveredPeerId             *)
(*   popup       peerPopupEl            detail   peerDetailActive          *)
(*   selPeer     selectedPeerId         timers   closings not yet run      *)
(*   filter      asFilterPeerIds of app.js: table rows shown, dots not dim *)
(*   lines       the peers that app.js draws lines to                      *)
(*   over        what the pointer is on                                    *)
(***************************************************************************)
AsOrOthers == Systems \cup {"Others"}
Ranking    == {"insight-fastest", "insight-data-bytessent", "insight-data-bytesrecv"}
Insights   == Ranking \cup {"insight-stable"}
CategoryKinds == {"cat", "net"}
AllKinds   == CategoryKinds \cup Insights \cup
              {"conn-provider", "conn-out", "conn-in", "conn-others", "all-providers",
               "nav", "conntype", "provider"}
Row(k, v)  == [k |-> k, v |-> v]
RowSet     == [k : AllKinds, v : AsOrOthers \cup Nets \cup {"IN", "OUT", None}]

Closed   == [kind |-> "closed", of |-> None, at |-> {}, back |-> FALSE]
PanelSet == [kind : {"closed", "summary", "provider", "network"},
             of : AsOrOthers \cup Nets \cup {None}, at : SUBSET Peers, back : BOOLEAN]

SubSet    == [row : RowSet, ids : SUBSET Peers] \cup {None}
TipSet    == [row : RowSet, ids : SUBSET Peers, pinned : BOOLEAN, live : BOOLEAN] \cup {None}
SubsubSet == [as : Systems, ids : SUBSET Peers] \cup {None}
PopupSet  == [peer : Peers, visible : BOOLEAN] \cup {None}
Places    == {"row", "prov", "peer", "seg", "title", "others"}

Pinned(u) == u.tip # None /\ u.tip.pinned
AnyPin(u) == Pinned(u) \/ u.subsub # None

-----------------------------------------------------------------------------
(***************************************************************************)
(* Lines and filter.                                                       *)
(***************************************************************************)

\* _filterPeerTable and _dimMapPeers, called in pairs, set one variable.
Filter(u, ids) == [u EXCEPT !.filter = ids]
Draw(u, ids)   == [u EXCEPT !.lines = ids]
Show(u, ids)   == Draw(Filter(u, ids), ids)

ActivateHoverAll(u) ==
  IF Segments(u.peers) = {} THEN u ELSE Draw(u, Linked(u.peers))

PreviewSummaryLines(u, ids) ==
  LET v == Filter(u, ids) IN
  IF Segments(u.peers) = {} THEN v ELSE Draw(v, ids \cap Linked(u.peers))

PreviewProviderLines(u, ids) ==
  LET v == Filter(u, ids) IN IF u.sel = None THEN v ELSE Draw(v, ids)

ShowAll(u) == ActivateHoverAll(Filter(u, None))

(***************************************************************************)
(* Tooltips.                                                               *)
(***************************************************************************)
\* Mutant: the second tooltip fades but stays pinned.
HideSubSubOnlyDims(u) == [u EXCEPT !.legend = None]

HideSubSubTooltip(u) == [u EXCEPT !.subsub = None, !.legend = None]
HideSubTooltip(u)    == HideSubSubTooltip([u EXCEPT !.tip = None])

ShowSubTooltip(u, row, ids, pin) ==
  [HideSubSubTooltip(u) EXCEPT
     !.tip = [row |-> row, ids |-> ids, pinned |-> pin, live |-> TRUE]]

ClearLegendFocus(u) == IF u.subsub # None THEN u ELSE [u EXCEPT !.legend = None]

\* Lines and filter after the pointer has left a row or a provider.
RestoreSummaryFromPreview(u) ==
  IF u.detail THEN u
  ELSE IF u.subsub # None THEN Show(u, u.subsub.ids)
  ELSE IF u.sub # None /\ u.sub.ids # {} THEN PreviewSummaryLines(u, u.sub.ids)
  ELSE IF Pinned(u) /\ u.sub # None /\ u.sub.row.k \in Ranking /\ u.tip.ids # {}
  THEN LET first == Leader(u.tip.ids, u.sub.row.k)
       IN  Show([u EXCEPT !.legend = first], PeersOf(u.tip.ids, first))
  ELSE IF u.insight # None
  THEN LET ids == PeersOf(u.peers, u.insight)
           v   == Filter([u EXCEPT !.legend = u.insight], ids)
       IN  IF ids = {} THEN v ELSE Draw(v, ids)
  ELSE ShowAll(u)

RestoreProviderFromPreview(u) ==
  IF u.detail THEN u
  ELSE IF u.sub # None /\ u.sub.ids # {} THEN PreviewProviderLines(u, u.sub.ids)
  ELSE IF u.sel # None THEN Show(u, PeersOf(u.peers, u.sel))
  ELSE u

(***************************************************************************)
(* The peer popup.                                                         *)
(***************************************************************************)

\* The element fades out, and the timer removes it 200 ms later.
ClosePeerPopup(u) ==
  LET v == [u EXCEPT !.detail = FALSE, !.selPeer = None,
                     !.popup = IF @ = None THEN @ ELSE [@ EXCEPT !.visible = FALSE],
                     !.timers = IF u.popup = None THEN @ ELSE @ + 1]
  IN  IF v.summary
      THEN IF v.insight # None THEN Show(v, PeersOf(v.peers, v.insight))
           ELSE IF v.sub # None /\ v.sub.ids # {} THEN PreviewSummaryLines(v, v.sub.ids)
           ELSE ShowAll(v)
      ELSE IF v.sel # None
      THEN IF Known(v.peers, v.sel) THEN Show(v, PeersOf(v.peers, v.sel)) ELSE v
      ELSE Draw(Filter(v, None), {})

\* The first line of the handlers that make room for something else.
MakeRoom(u) == IF u.detail THEN ClosePeerPopup(u) ELSE u

(***************************************************************************)
(* The panel's views.  A body built anew has new rows: the pointer is on   *)
(* none of them yet, and a pinned tooltip's row is gone.                   *)
(***************************************************************************)
BuildPanel(u, kind, of) ==
  [u EXCEPT !.panel = [kind |-> kind, of |-> of, at |-> u.peers, back |-> u.history],
            !.tip   = IF @ = None THEN @ ELSE [@ EXCEPT !.live = FALSE],
            !.over  = IF @ # None /\ @[1] = "row" THEN None ELSE @]

OpenPanel(u, a) ==
  LET v == MakeRoom(u) IN
  IF Known(v.peers, a) THEN BuildPanel(v, "provider", a) ELSE v

OpenSummaryPanel(u) == BuildPanel(MakeRoom(u), "summary", None)

\* The element under the pointer stays where it is while the panel fades.
ClosePanel(u) == [u EXCEPT !.panel = Closed]

\* The donut drawn anew has new segments, as the panel has new rows.
RenderDonut(u) ==
  [u EXCEPT !.over = IF @ # None /\ @[1] = "seg" THEN None ELSE @]

ShowOthersList(u) ==
  IF HasOthers(u.peers) THEN [u EXCEPT !.others = PeersOf(u.peers, "Others")] ELSE u

DropSub(u) == [u EXCEPT !.sub = None]

(***************************************************************************)
(* Selecting and deselecting.                                              *)
(***************************************************************************)
DeselectSummary(u) ==
  IF ~u.summary THEN u
  ELSE LET v == HideSubTooltip([u EXCEPT !.summary = FALSE, !.history = FALSE,
                                         !.sub = None, !.insight = None])
       IN  Filter(Draw(ClosePanel([v EXCEPT !.rect = FALSE]), {}), None)

Deselect(u) ==
  LET n == [u EXCEPT !.net = None] IN
  IF n.summary THEN DeselectSummary(n)
  ELSE LET v == HideSubTooltip([n EXCEPT !.detail = FALSE, !.sel = None,
                                         !.sub = None, !.others = None])
       IN  RenderDonut(Draw(Filter(ClosePanel([v EXCEPT !.rect = FALSE]), None), {}))

SelectSummary(u) ==
  LET v == IF u.sel # None THEN Deselect(u) ELSE u
  IN  OpenSummaryPanel(ActivateHoverAll([v EXCEPT !.summary = TRUE, !.hoverAll = FALSE]))

EnterFocusedMode(u) ==
  IF u.focused THEN u
  ELSE SelectSummary(ActivateHoverAll([u EXCEPT !.focused = TRUE, !.hoverAll = FALSE]))

ExitFocusedMode(u) ==
  IF ~u.focused THEN u
  ELSE LET v == [u EXCEPT !.focused = FALSE, !.detail = FALSE, !.net = None,
                          !.others = None, !.rect = FALSE]
           w == IF v.summary THEN DeselectSummary(v)
                ELSE IF v.sel # None THEN Deselect(v) ELSE ClosePanel(v)
       IN  RenderDonut(Draw(Filter([w EXCEPT !.hoverAll = FALSE], None), {}))

\* Mutant: the filter outlives the tooltip.
ClearSubFilterKeepsSub(u) ==
  LET v == HideSubTooltip(u) IN
  IF v.sel # None /\ Known(v.peers, v.sel) THEN Show(v, PeersOf(v.peers, v.sel)) ELSE v

ClearSubFilter(u) ==
  LET v == HideSubTooltip(DropSub(u)) IN
  IF v.sel # None /\ Known(v.peers, v.sel) THEN Show(v, PeersOf(v.peers, v.sel)) ELSE v

ClearSummarySubFilter(u) ==
  LET v == Filter([HideSubTooltip([DropSub(u) EXCEPT !.insight = None])
                     EXCEPT !.rect = FALSE], None)
  IN  RenderDonut(IF v.summary THEN ActivateHoverAll(v) ELSE v)

\* Mutant: the summary stays selected behind the provider.
NavigateKeepsSummary(u, a) ==
  LET v == [u EXCEPT !.history = @ \/ u.summary \/ u.sel # None, !.sub = None]
      w == OpenPanel([HideSubTooltip(v) EXCEPT !.sel = a], a)
  IN  Show(w, PeersOf(w.peers, a))

NavigateToProvider(u, a) ==
  LET v == [u EXCEPT !.history = @ \/ u.summary \/ u.sel # None, !.summary = FALSE,
                     !.sub = None]
  IN  LET w == OpenPanel([HideSubTooltip(v) EXCEPT !.sel = a], a)
      IN  Show(w, PeersOf(w.peers, a))

NavigateBack(u) ==
  LET v == [HideSubTooltip([u EXCEPT !.others = None, !.net = None, !.detail = FALSE,
                                     !.sel = None, !.sub = None, !.insight = None,
                                     !.history = FALSE]) EXCEPT !.rect = FALSE]
  IN  IF v.focused THEN ShowAll(OpenSummaryPanel([v EXCEPT !.summary = TRUE]))
      ELSE Deselect(v)

\* From a provider of Others back to the segment and its list.
BackToOthersList(u) ==
  IF ~HasOthers(u.peers) THEN u
  ELSE LET v == OpenPanel([HideSubTooltip(DropSub(u)) EXCEPT !.sel = "Others"], "Others")
       IN  ShowOthersList(Show(v, PeersOf(v.peers, "Others")))

NetPeers(P, n) == {p \in P : Net[p] = n}

\* The summary's categories leave the peers without an AS out.
CategoryPeers(P, n) == NetPeers(Linked(P), n)

OpenNetworkPanel(u, n) ==
  LET v == MakeRoom(u)
      w == [v EXCEPT !.focused = TRUE, !.net = n,
                     !.history = IF v.net = n THEN @ ELSE TRUE]
      x == BuildPanel(w, "network", n)
  IN  IF NetPeers(x.peers, n) = {} THEN x
      ELSE ActivateHoverAll(Filter(x, NetPeers(x.peers, n)))

\* Mutants: the provider selected before stays so; the network does.
LeaveNetworkKeepsSel(u) ==
  ShowAll(OpenSummaryPanel([u EXCEPT !.net = None, !.summary = TRUE, !.history = FALSE]))
LeaveNetworkKeepsNet(u) ==
  ShowAll(OpenSummaryPanel([u EXCEPT !.sel = None, !.summary = TRUE, !.history = FALSE]))

\* From the network's panel to the summary: map click and Escape.
LeaveNetworkPanel(u) ==
  LET v == [u EXCEPT !.net = None, !.sel = None]
      w == IF AnyPin(v) THEN DropSub(HideSubTooltip(v)) ELSE v
  IN  RenderDonut(ShowAll(OpenSummaryPanel([w EXCEPT !.summary = TRUE, !.history = FALSE])))

OpenPeerDetailPanel(u, p) ==
  LET open(w) == [w EXCEPT !.detail = TRUE, !.selPeer = p]
      v == open([u EXCEPT !.popup = None])
      w == IF v.focused THEN v
           ELSE LET f == [v EXCEPT !.focused = TRUE]
                IN  open(IF ~f.summary /\ f.sel = None THEN SelectSummary(f) ELSE f)
      x == IF As[p] = None THEN w ELSE Draw(w, {p})
  IN  [Filter(x, {p}) EXCEPT !.popup = [peer |-> p, visible |-> TRUE]]

SegmentClickOf(u, a) ==
  LET r == IF u.detail THEN ClosePeerPopup(u) ELSE u
      v == DeselectSummary(RenderDonut([r EXCEPT !.focused = TRUE]))
  IN  IF v.sel = a
      THEN SelectSummary(Filter(ClosePanel(HideSubTooltip(
             [v EXCEPT !.others = None, !.sel = None, !.sub = None])), None))
      ELSE LET w == [HideSubTooltip(DropSub(v)) EXCEPT !.others = None, !.sel = a]
               x == OpenPanel(w, a)
               y == Show(x, PeersOf(x.peers, a))
           IN  IF a \notin Segments(w.peers) THEN w
               ELSE IF a = "Others" THEN ShowOthersList(y) ELSE y

-----------------------------------------------------------------------------
(***************************************************************************)
(* The rows of the panel, of the list that it was built from.  One kind of *)
(* category, the networks, stands for all that summary and network panel   *)
(* list, and the direction for all that a provider's panel lists.          *)
(***************************************************************************)
SummaryRows(P) ==
  LET top == TopGroups(P)
      with(d) == {a \in top : \E p \in GroupPeers(P, a) : Direction[p] = d}
  IN  {Row("cat", Net[p]) : p \in Linked(P)}
      \cup {Row("conn-provider", a) : a \in top} \cup {Row("nav", a) : a \in top}
      \cup {Row("conn-out", a) : a \in with("OUT")} \cup {Row("conn-in", a) : a \in with("IN")}
      \cup (IF HasOthers(P) THEN {Row("conn-others", "Others")} ELSE {})
      \cup (IF Groups(P) = {} THEN {}
            ELSE {Row(k, None) : k \in Ranking \cup {"all-providers"}}
                 \cup {Row("insight-stable", Leader(P, "insight-stable"))})

ProviderRows(P, a) ==
  {Row("conntype", Direction[p]) : p \in PeersOf(P, a)}
  \cup (IF a = "Others" THEN {Row("provider", As[p]) : p \in PeersOf(P, a)} ELSE {})

Rows(u) ==
  LET P   == u.panel.at
      all == CASE u.panel.kind = "closed"   -> {}
               [] u.panel.kind = "summary"  -> SummaryRows(P)
               [] u.panel.kind = "provider" -> ProviderRows(P, u.panel.of)
               [] OTHER -> \* a network's
                    IF NetPeers(P, u.panel.of) = {} THEN {} ELSE {Row("net", u.panel.of)}
  IN  {r \in all : r.k \in Kinds}

\* The peers of a row: those it was built with, or for an insight and for
\* the list of all providers those of the click.
Heading(P, d, ids) == {p \in ids : Direction[p] = d}
RowIds(u, row) ==
  LET P == u.panel.at IN
  CASE row.k = "cat"           -> CategoryPeers(P, row.v)
    [] row.k = "net"           -> NetPeers(P, row.v)
    [] row.k = "conn-out"      -> Heading(P, "OUT", GroupPeers(P, row.v))
    [] row.k = "conn-in"       -> Heading(P, "IN", GroupPeers(P, row.v))
    [] row.k = "conntype"      -> Heading(P, row.v, PeersOf(P, u.panel.of))
    [] row.k \in {"provider", "conn-provider", "conn-others", "nav"} -> PeersOf(P, row.v)
    [] row.k \in Ranking \cup {"all-providers"} -> Linked(u.peers)
    [] row.k = "insight-stable" -> PeersOf(u.peers, Leader(u.peers, row.k))

PinTip(u, row) == ShowSubTooltip(u, row, RowIds(u, row), TRUE)
FloatTip(u, row) == ShowSubTooltip(u, row, RowIds(u, row), FALSE)
IsOwnRow(u, row) == Pinned(u) /\ u.tip.live /\ u.tip.row = row
LeaveInsight(u) == IF u.insight = None THEN u ELSE [u EXCEPT !.insight = None, !.rect = FALSE]
Focus(u, a) == [u EXCEPT !.legend = a]
RectIfFocused(u) == [u EXCEPT !.rect = @ \/ u.focused]

\* A second click on the row that has the tooltip pinned.
ToggleOff(u) ==
  LET v == Filter(DropSub(HideSubTooltip(u)), None)
  IN  IF v.summary THEN ActivateHoverAll(v) ELSE v
ToggleInsightOff(u) ==
  LET v == Filter([DropSub(HideSubTooltip(u)) EXCEPT !.insight = None, !.rect = FALSE], None)
  IN  IF v.summary THEN ActivateHoverAll(v) ELSE v

ApplySummarySubFilter(u, row) ==
  IF u.sub # None /\ u.sub.row.v = row.v THEN ClearSummarySubFilter(u)
  ELSE PreviewSummaryLines([LeaveInsight(u) EXCEPT !.sub = [row |-> row, ids |-> RowIds(u, row)]],
                           RowIds(u, row))

ApplySubFilter(u, row) ==
  LET ids == RowIds(u, row)
      v   == Filter([u EXCEPT !.sub = [row |-> row, ids |-> ids]], ids)
  IN  IF u.sub # None /\ u.sub.row = row THEN ClearSubFilter(u)
      ELSE IF u.sel # None /\ Known(u.peers, u.sel) THEN Draw(v, ids) ELSE v

CategoryClick(u, row) ==
  LET v == MakeRoom(u) IN
  IF IsOwnRow(v, row) THEN ClearSummarySubFilter(HideSubTooltip(v))
  ELSE PinTip(ApplySummarySubFilter(v, row), row)

\* Rows of Connections by Provider: the total, its two directions, Others.
PinRow(u, row) ==
  [LeaveInsight(PinTip(u, row)) EXCEPT !.sub = [row |-> row, ids |-> RowIds(u, row)]]

ProviderTotalClick(u, row) ==
  LET v == MakeRoom(u) IN
  IF IsOwnRow(v, row) THEN ToggleOff(v) ELSE Show(PinRow(v, row), RowIds(v, row))

DirectionClick(u, row) ==
  IF IsOwnRow(u, row) THEN ToggleOff(u) ELSE Filter(PinRow(u, row), RowIds(u, row))

OthersRowClick(u, row) ==
  LET v == MakeRoom(u) IN
  IF IsOwnRow(v, row) THEN ToggleOff(v)
  ELSE PreviewSummaryLines(PinRow(v, row), RowIds(v, row))

AllProvidersClick(u, row) ==
  LET v == MakeRoom(u) IN
  IF IsOwnRow(v, row) THEN ToggleOff(v)
  ELSE [PinTip(v, row) EXCEPT !.sub = [row |-> row, ids |-> {}]]

\* The insights: the leading provider's peers, of a ranking or of its row.
InsightPin(u, row, ids, lead) ==
  LET v == [PinTip(u, row) EXCEPT !.sub = [row |-> row, ids |-> ids], !.insight = lead]
  IN  IF lead = None THEN u ELSE Focus(Show(RectIfFocused(v), PeersOf(u.peers, lead)), lead)

RankingClick(u, row) ==
  LET v == MakeRoom(u) IN
  IF IsOwnRow(v, row) THEN ToggleInsightOff(v)
  ELSE InsightPin(v, row, {}, Leader(v.peers, row.k))

\* There is one row of the most stable provider; its tooltip names the one
\* that leads at the click.
StableClick(u, row) ==
  LET v    == MakeRoom(u)
      lead == Leader(v.peers, row.k)
  IN  IF Pinned(v) /\ v.tip.live /\ v.tip.row.k = row.k THEN ToggleInsightOff(v)
      ELSE InsightPin(v, Row(row.k, lead), PeersOf(v.peers, lead), lead)

ProviderRowClick(u, row) ==
  IF IsOwnRow(u, row) THEN ClearSubFilter(HideSubTooltip(u))
  ELSE PinTip(ApplySubFilter(u, row), row)

RowClick(u, row) ==
  CASE row.k \in CategoryKinds  -> CategoryClick(u, row)
    [] row.k = "conn-provider"  -> ProviderTotalClick(u, row)
    [] row.k \in {"conn-out", "conn-in"} -> DirectionClick(u, row)
    [] row.k = "conn-others"    -> OthersRowClick(u, row)
    [] row.k = "all-providers"  -> AllProvidersClick(u, row)
    [] row.k \in Ranking        -> RankingClick(u, row)
    [] row.k = "insight-stable" -> StableClick(u, row)
    [] row.k = "nav"            -> NavigateToProvider(u, row.v)
    [] row.k \in {"conntype", "provider"} -> ProviderRowClick(u, row)

RankingPreview(u, row) ==
  LET lead == Leader(u.peers, row.k)
      v    == RectIfFocused(Show(FloatTip(u, row), PeersOf(u.peers, lead)))
  IN  IF lead = None THEN u ELSE Focus(v, lead)

\* The row shows the peers of the provider that it was built with, by now
\* perhaps none, and the tooltip those of the one that leads.
StablePreview(u, row) ==
  LET ids == PeersOf(u.peers, row.v)
      v   == Filter(IF Leader(u.peers, row.k) = None THEN Focus(u, row.v)
                    ELSE RectIfFocused(FloatTip(u, row)), ids)
  IN  IF ids = {} THEN v ELSE Draw(v, ids)

\* Nothing is previewed beside a pinned tooltip or a popup.
RowEnter(u, row) ==
  LET v == [u EXCEPT !.over = <<"row", row>>] IN
  IF Pinned(u) \/ u.detail THEN v
  ELSE CASE row.k \in CategoryKinds \cup {"conn-others"} ->
              PreviewSummaryLines(FloatTip(v, row), RowIds(v, row))
         [] row.k \in {"conn-provider", "conn-out", "conn-in"} ->
              Show(FloatTip(v, row), RowIds(v, row))
         [] row.k \in {"conntype", "provider"} ->
              PreviewProviderLines(FloatTip(v, row), RowIds(v, row))
         [] row.k = "nav"           -> Show(Focus(v, row.v), PeersOf(v.peers, row.v))
         [] row.k \in Ranking       -> RankingPreview(v, row)
         [] row.k = "insight-stable" -> StablePreview(v, row)
         [] row.k = "all-providers" -> v

RowLeave(u, row) ==
  LET v == [u EXCEPT !.over = None] IN
  IF Pinned(u) \/ u.detail \/ row.k = "all-providers" THEN v
  ELSE IF row.k \in {"conntype", "provider"} THEN RestoreProviderFromPreview(HideSubTooltip(v))
  ELSE IF row.k \in Insights
  THEN RestoreSummaryFromPreview([HideSubTooltip(v) EXCEPT !.rect = FALSE])
  ELSE IF row.k = "nav" THEN RestoreSummaryFromPreview(ClearLegendFocus(v))
  ELSE RestoreSummaryFromPreview(HideSubTooltip(v))

(***************************************************************************)
(* Inside a pinned tooltip: the providers of a category or a ranking, and  *)
(* the peers of a provider, which the second tooltip lists as well.        *)
(***************************************************************************)
ProviderTips == CategoryKinds \cup Ranking \cup {"conn-others", "all-providers"}
PeerTips     == {"conntype", "provider", "conn-provider", "conn-out", "conn-in", "insight-stable"}
NavTips      == {"all-providers", "conn-others", "conn-provider", "insight-stable"}

TipProviders(u) ==
  IF Pinned(u) /\ u.tip.row.k \in ProviderTips THEN {As[p] : p \in u.tip.ids} \ {None} ELSE {}
TipPeers(u) ==
  (IF Pinned(u) /\ u.tip.row.k \in PeerTips THEN u.tip.ids ELSE {})
  \cup (IF u.subsub # None THEN u.subsub.ids ELSE {})
TipLinks(u) ==
  IF ~Pinned(u) \/ u.tip.row.k \notin NavTips THEN {}
  ELSE IF u.tip.row.k = "conn-others" THEN TipProviders(u) \cup {"Others"}
  ELSE IF u.tip.row.k \in ProviderTips THEN TipProviders(u)
  ELSE {u.tip.row.v}

RankingRect(u) == u.focused /\ u.rect /\ Pinned(u) /\ u.tip.row.k \in Ranking

ProviderEnter(u, a) ==
  LET v == [u EXCEPT !.over = <<"prov", a>>]
      w == Show(Focus(v, a), GroupPeers(u.tip.ids, a))
  IN  IF u.detail \/ u.subsub # None THEN v
      ELSE IF RankingRect(u) THEN [w EXCEPT !.insight = a] ELSE w

ProviderLeave(u) ==
  LET v == [u EXCEPT !.over = None] IN
  IF u.detail \/ u.subsub # None THEN v
  ELSE IF Pinned(u) /\ u.tip.row.k \in Ranking
  THEN IF u.rect THEN v ELSE RestoreSummaryFromPreview(v)
  ELSE RestoreSummaryFromPreview(ClearLegendFocus(v))

ProviderClick(u, a) ==
  LET ids == GroupPeers(u.tip.ids, a)
      v   == Show([Focus(u, a) EXCEPT !.subsub = [as |-> a, ids |-> ids]], ids)
  IN  IF RankingRect(u) THEN [v EXCEPT !.insight = a] ELSE v

ProviderLink(u, a) == NavigateToProvider(HideSubTooltip(u), a)

PeerEnter(u, p) ==
  LET v == [u EXCEPT !.over = <<"peer", p>>, !.hovered = p] IN
  IF v.summary THEN PreviewSummaryLines(v, {p})
  ELSE IF v.sel # None THEN PreviewProviderLines(v, {p}) ELSE v

PeerLeave(u) ==
  LET v == [u EXCEPT !.over = None, !.hovered = None] IN
  IF v.detail /\ Truthy(v.selPeer)
  THEN IF v.selPeer \notin v.peers THEN v
       ELSE IF As[v.selPeer] = None THEN Filter(v, {v.selPeer}) ELSE Show(v, {v.selPeer})
  ELSE IF v.summary THEN RestoreSummaryFromPreview(v)
  ELSE IF v.sel # None THEN RestoreProviderFromPreview(v) ELSE v

\* zoomToPeerOnly draws the line that openPeerDetailPanel draws again.
PeerClick(u, p) == IF p \in u.peers THEN OpenPeerDetailPanel(u, p) ELSE u

(***************************************************************************)
(* The donut, its title, the list of Others, the panel's buttons, the map, *)
(* the Escape key.                                                         *)
(***************************************************************************)
SegmentEnter(u, a) ==
  LET v == [u EXCEPT !.over = <<"seg", a>>] IN
  IF ~Pinned(u) /\ ~u.detail /\ u.sel = None /\ a \in Segments(u.peers)
  THEN Show(v, PeersOf(u.peers, a)) ELSE v

SegmentLeave(u) ==
  LET v == [u EXCEPT !.over = None] IN
  IF Pinned(u) \/ u.detail THEN v
  ELSE IF u.sel = None /\ u.summary /\ u.sub # None /\ u.sub.ids # {}
  THEN RestoreSummaryFromPreview(v)
  ELSE IF u.sel # None THEN v
  ELSE IF u.hoverAll \/ u.summary THEN ShowAll(v) ELSE Filter(Draw(v, {}), None)

TitleEnter(u) ==
  LET v == [u EXCEPT !.over = <<"title", None>>] IN
  IF u.sel # None \/ u.summary THEN v ELSE ActivateHoverAll([v EXCEPT !.hoverAll = TRUE])

TitleLeave(u) ==
  LET v == [u EXCEPT !.over = None] IN
  IF ~u.hoverAll \/ u.summary THEN v ELSE Draw([v EXCEPT !.hoverAll = FALSE], {})

\* The list of Others keeps the groups of the poll that it was opened at.
OthersEnter(u, a) == Show([u EXCEPT !.over = <<"others", a>>], GroupPeers(u.others, a))
OthersLeave(u) ==
  LET v == [u EXCEPT !.over = None] IN
  IF u.sel = "Others" THEN Show(v, IF u.others = None THEN {} ELSE u.others)
  ELSE IF u.sel # None /\ u.sel \in Groups(u.peers) \ TopGroups(u.peers)
  THEN Show(v, PeersOf(u.peers, u.sel)) ELSE ShowAll(v)
OthersClick(u, a) == IF u.sel = a THEN BackToOthersList(u) ELSE NavigateToProvider(u, a)

\* A click beside the panel's rows leaves the tooltips, not the insight.
BlankClick(u) ==
  LET v == HideSubTooltip(u) IN
  IF ~AnyPin(u) THEN u
  ELSE IF v.summary THEN ShowAll(DropSub(v))
  ELSE IF v.sel # None THEN ClearSubFilter(v) ELSE v

MapClick(u) ==
  IF u.net # None THEN LeaveNetworkPanel(u)
  ELSE IF u.detail THEN ClosePeerPopup(u)
  ELSE IF AnyPin(u) THEN BlankClick(u)
  ELSE IF u.sel # None
  THEN IF u.focused
       THEN SelectSummary([u EXCEPT !.others = None, !.history = FALSE, !.sel = None])
       ELSE Deselect([u EXCEPT !.history = FALSE])
  ELSE IF u.summary /\ ~u.focused THEN DeselectSummary(u) ELSE ExitFocusedMode(u)

EscapeSubSub(u) ==
  LET v == HideSubSubTooltip(u) IN
  IF ~v.summary THEN v
  ELSE IF v.sub # None /\ v.sub.ids # {} THEN PreviewSummaryLines(v, v.sub.ids) ELSE ShowAll(v)

EscapeTip(u) ==
  LET v == HideSubTooltip(u) IN
  IF v.summary THEN ClearSummarySubFilter(v) ELSE IF v.sel # None THEN ClearSubFilter(v) ELSE v

Escape(u) ==
  IF u.detail /\ u.popup # None THEN ClosePeerPopup(u)
  ELSE IF u.subsub # None THEN EscapeSubSub(u)
  ELSE IF Pinned(u)       THEN EscapeTip(u)
  ELSE IF u.net # None    THEN LeaveNetworkPanel(u)
  ELSE IF u.summary       THEN IF u.focused THEN ExitFocusedMode(u) ELSE DeselectSummary(u)
  ELSE IF u.sel # None    THEN Deselect(u)
  ELSE ExitFocusedMode(u)

CloseButton(u) == IF u.focused THEN ExitFocusedMode(u) ELSE Deselect(u)
RectClose(u) ==
  LET v == [u EXCEPT !.rect = FALSE, !.insight = None] IN
  IF v.summary THEN ClearSummarySubFilter(v) ELSE v
NetChip(u, n) == OpenNetworkPanel(EnterFocusedMode(u), n)
EnterPrivateNet(u) == ExitFocusedMode(Deselect(ClosePeerPopup(u)))
HideContainer(u) == IF u.sel # None THEN Deselect(u) ELSE u
TimerFires(u) == [u EXCEPT !.timers = @ - 1, !.popup = None]

(***************************************************************************)
(* A new peer list, every ten seconds.                                     *)
(***************************************************************************)
RefreshNetwork(u) ==
  IF u.subsub # None /\ u.subsub.ids # {} THEN Show(u, u.subsub.ids)
  ELSE IF u.sub # None /\ u.sub.ids # {} THEN PreviewSummaryLines(u, u.sub.ids)
  ELSE Filter(u, NetPeers(u.peers, u.net))

\* findPeerIdsByCategoryLabel, and the same of the summary's categories.
FreshIds(u) ==
  LET P == u.peers  row == u.sub.row IN
  IF u.sub = None THEN {}
  ELSE IF row.k = "conntype" THEN Heading(P, row.v, PeersOf(P, u.sel))
  ELSE IF row.k = "provider" /\ u.sel = "Others" THEN PeersOf(P, row.v) \cap PeersOf(P, "Others")
  ELSE {}
FreshCategory(u) ==
  IF u.sub # None /\ u.sub.row.k \in CategoryKinds THEN CategoryPeers(u.peers, u.sub.row.v) ELSE {}

Refilter(u, ids) == [u EXCEPT !.sub = [@ EXCEPT !.ids = ids]]

RefreshProvider(u) ==
  LET seg   == PeersOf(u.peers, u.sel)
      fresh == FreshIds(u)
      pin   == IF fresh # {} THEN Refilter(u, fresh) ELSE u
      built == OpenPanel(u, u.sel)
  IN  IF ~Known(u.peers, u.sel) THEN Deselect(u)
      ELSE IF AnyPin(u)
      THEN IF Truthy(u.hovered)
           THEN IF u.hovered \in u.peers THEN PreviewProviderLines(pin, {u.hovered}) ELSE pin
           ELSE Show(pin, IF pin.sub # None /\ pin.sub.ids # {} THEN pin.sub.ids ELSE seg)
      ELSE IF fresh # {} THEN Show(Refilter(built, fresh), fresh)
      ELSE IF u.sub # None THEN Show(HideSubTooltip(DropSub(built)), seg)
      ELSE Show(built, seg)

\* The peer under the pointer, if it is one of these, or all of them.
HoveredOr(u, ids) == IF Truthy(u.hovered) /\ u.hovered \in ids THEN {u.hovered} ELSE ids

RefreshSubSub(u) ==
  LET P      == u.peers
      group  == GroupPeers(P, u.subsub.as)
      parent == IF FreshCategory(u) # {} THEN FreshCategory(u)
                ELSE IF u.sub # None /\ u.sub.row.k = "conn-others" THEN PeersOf(P, "Others")
                ELSE {}
      ids    == IF parent = {} THEN group ELSE group \cap parent
      v      == IF parent = {} THEN u ELSE Refilter(u, parent)
  IN  IF group = {} THEN u
      ELSE Show([v EXCEPT !.subsub = [@ EXCEPT !.ids = ids]], HoveredOr(u, ids))

\* Mutant: the new peers are kept for later and the old ones shown.
RefreshListStale(u, ids) == PreviewSummaryLines(Refilter(u, ids), u.sub.ids)

\* A category, or one provider of it that the pointer is on.
RefreshList(u, ids) ==
  LET v == Refilter(u, ids) IN
  IF u.legend = None THEN PreviewSummaryLines(v, ids)
  ELSE IF u.legend \in Groups(u.peers) THEN Show(v, GroupPeers(u.peers, u.legend) \cap ids)
  ELSE v

\* The words that the server has for the direction are IN and OUT.
RefreshDirection(u, word) ==
  LET ids == {p \in GroupPeers(u.peers, u.sub.row.v) : Direction[p] = word}
  IN  Filter(Refilter(u, ids), ids)

RefreshSub(u) ==
  LET row   == u.sub.row
      group == GroupPeers(u.peers, row.v)
  IN  IF row.k \in CategoryKinds
      THEN IF FreshCategory(u) = {} THEN u ELSE RefreshList(u, FreshCategory(u))
      ELSE IF row.k = "conn-others"
      THEN IF HasOthers(u.peers) THEN RefreshList(u, PeersOf(u.peers, "Others")) ELSE u
      ELSE IF row.k \in Ranking
      THEN IF u.insight \in Groups(u.peers) THEN Show(u, GroupPeers(u.peers, u.insight)) ELSE u
      ELSE IF row.v \notin Groups(u.peers) THEN u
      ELSE CASE row.k = "insight-stable" ->
                  Show([Refilter(u, group) EXCEPT !.insight = row.v], group)
             [] row.k = "conn-provider" -> Show(Refilter(u, group), HoveredOr(u, group))
             [] row.k = "conn-out" -> RefreshDirection(u, "outbound")
             [] row.k = "conn-in"  -> RefreshDirection(u, "inbound")
             [] OTHER              -> u

RefreshSummary(u) ==
  LET built == OpenSummaryPanel(u)
      fresh == FreshCategory(u)
      ids   == PeersOf(u.peers, u.insight)
      lit   == Focus(Filter(built, ids), u.insight)
  IN  IF AnyPin(u)
      THEN IF u.subsub # None /\ GroupPeers(u.peers, u.subsub.as) # {} THEN RefreshSubSub(u)
           ELSE IF u.subsub # None THEN u
           ELSE IF u.sub # None    THEN RefreshSub(u)
           ELSE ActivateHoverAll(u)
      ELSE IF fresh # {} THEN PreviewSummaryLines(Refilter(built, fresh), fresh)
      ELSE IF u.sub # None /\ u.sub.row.k \in CategoryKinds
      THEN ActivateHoverAll(HideSubTooltip(DropSub(built)))
      ELSE IF u.insight # None THEN IF ids = {} THEN lit ELSE Draw(lit, ids)
      ELSE ActivateHoverAll(built)

\* The popup keeps everything but the list itself as it is.
Refresh(u, P) ==
  LET v == [u EXCEPT !.peers = P]
      d == RenderDonut(v)
      w == IF AnyPin(d) THEN d ELSE [d EXCEPT !.legend = None]
      x == IF w.sel # None THEN RefreshProvider(w) ELSE w
  IN  IF v.detail THEN v
      ELSE IF v.net # None THEN RefreshNetwork(d)
      ELSE IF x.summary THEN RefreshSummary(x) ELSE x

-----------------------------------------------------------------------------
Init ==
  ui = [peers |-> {}, sel |-> None, summary |-> FALSE, focused |-> FALSE, net |-> None,
        panel |-> Closed, history |-> FALSE, others |-> None, hoverAll |-> FALSE,
        sub |-> None, tip |-> None, subsub |-> None, insight |-> None, rect |-> FALSE,
        legend |-> None, hovered |-> None, popup |-> None, detail |-> FALSE,
        selPeer |-> None, timers |-> 0, filter |-> None, lines |-> {}, over |-> None]

\* A click elsewhere than on what has handlers for the pointer.
Away == ui.over = None
On(place) == ui.over # None /\ ui.over[1] = place

Uses(input) == input \in Inputs

PointOnPanel ==
  \/ Away /\ \E row \in Rows(ui) : ui' = RowEnter(ui, row)
  \/ Away /\ \E a \in TipProviders(ui) : ui' = ProviderEnter(ui, a)
  \/ Away /\ \E p \in TipPeers(ui) : ui' = PeerEnter(ui, p)
PointOnDonut ==
  \/ Uses("donut") /\ Away /\ \E a \in Segments(ui.peers) : ui' = SegmentEnter(ui, a)
  \/ Uses("title") /\ Away /\ ui' = TitleEnter(ui)
  \/ /\ Away /\ ui.others # None
     /\ \E a \in Groups(ui.others) : ui' = OthersEnter(ui, a)
PointAway ==
  \/ On("row")    /\ ui' = RowLeave(ui, ui.over[2])
  \/ On("prov")   /\ ui' = ProviderLeave(ui)
  \/ On("peer")   /\ ui' = PeerLeave(ui)
  \/ On("seg")    /\ ui' = SegmentLeave(ui)
  \/ On("title")  /\ ui' = TitleLeave(ui)
  \/ On("others") /\ ui' = OthersLeave(ui)

\* What the pointer was on may be gone without telling.
PointerLost ==
  /\ \/ On("prov") /\ ui.over[2] \notin TipProviders(ui)
     \/ On("peer") /\ ui.over[2] \notin TipPeers(ui)
     \/ On("others") /\ ui.others = None
  /\ ui' = [ui EXCEPT !.over = None]

ClickOnPanel ==
  \/ On("row")  /\ ui.over[2] \in Rows(ui) /\ ui' = RowClick(ui, ui.over[2])
  \/ On("prov") /\ ui.over[2] \in TipProviders(ui) /\ ui' = ProviderClick(ui, ui.over[2])
  \/ Uses("peer") /\ On("peer") /\ ui.over[2] \in TipPeers(ui) /\ ui' = PeerClick(ui, ui.over[2])
  \/ Away /\ \E a \in TipLinks(ui) : ui' = ProviderLink(ui, a)
  \/ Uses("panel") /\ Away /\ ui.panel # Closed /\ ui' = BlankClick(ui)
  \/ Uses("panel") /\ Away /\ ui.panel # Closed /\ ui' = CloseButton(ui)
  \/ Uses("panel") /\ Away /\ ui.panel.back /\ ui' = NavigateBack(ui)
  \/ Uses("panel") /\ Away /\ ui.rect /\ ui' = RectClose(ui)
ClickOnDonut ==
  \/ On("seg")    /\ ui' = SegmentClickOf(ui, ui.over[2])
  \/ On("title")  /\ ui' = EnterFocusedMode(ui)
  \/ On("others") /\ ui.others # None /\ ui' = OthersClick(ui, ui.over[2])
ClickElsewhere ==
  \/ Uses("map") /\ Away /\ ui' = MapClick(ui)
  \/ Uses("chip") /\ Away /\ \E n \in Nets : ui' = NetChip(ui, n)
  \/ Uses("private") /\ Away /\ ui' = EnterPrivateNet(ui)
  \/ Uses("private") /\ Away /\ ui' = HideContainer(ui)
  \/ Uses("peer") /\ Away /\ \E p \in ui.peers : ui' = OpenPeerDetailPanel(ui, p)
  \/ Uses("peer") /\ Away /\ ui.popup # None /\ ui' = ClosePeerPopup(ui)
PressEscape == Uses("escape") /\ ui' = Escape(ui)
\* Mutant: the timer of a popup that nobody has closed.
RemovePopupUnasked == ui' = TimerFires(ui)

RemovePopup == ui.timers > 0 /\ ui' = TimerFires(ui)
Poll        == \E P \in Snapshots : ui' = Refresh(ui, P)

Bounded == ui'.timers <= MaxTimers
Next ==
  /\ \/ PointOnPanel \/ PointOnDonut \/ PointAway \/ PointerLost
     \/ ClickOnPanel \/ ClickOnDonut \/ ClickElsewhere
     \/ PressEscape \/ RemovePopup \/ Poll
  /\ Bounded

Spec == Init /\ [][Next]_ui

-----------------------------------------------------------------------------
(***************************************************************************)
(* Properties.                                                             *)
(***************************************************************************)
Overs == {None} \cup ({"row"} \X RowSet) \cup ({"prov", "others"} \X Systems)
         \cup ({"peer"} \X Peers) \cup ({"seg"} \X AsOrOthers) \cup {<<"title", None>>}

UiSet ==
  [peers : SUBSET Peers, sel : AsOrOthers \cup {None}, summary : BOOLEAN, focused : BOOLEAN,
   net : Nets \cup {None}, panel : PanelSet, history : BOOLEAN, others : (SUBSET Peers) \cup {None},
   hoverAll : BOOLEAN, sub : SubSet, tip : TipSet, subsub : SubsubSet,
   insight : Systems \cup {None}, rect : BOOLEAN, legend : AsOrOthers \cup {None},
   hovered : Peers \cup {None}, popup : PopupSet, detail : BOOLEAN,
   selPeer : Peers \cup {None}, timers : 0..MaxTimers,
   filter : (SUBSET Peers) \cup {None}, lines : SUBSET Peers, over : Overs]

\* Every field stays in its domain, and the popups to be removed within
\* their bound.
TypeOK == ui \in UiSet

\* A provider and the summary are never selected at the same time, and out
\* of the focused mode nothing is selected at all: some twenty handlers set
\* the three flags one by one.
OneSelection ==
  /\ ~(ui.sel # None /\ ui.summary)
  /\ ~ui.focused => ui.sel = None /\ ~ui.summary /\ ui.net = None

\* The panel shows the summary while the summary is selected, and is closed
\* when nothing is.
PanelIsOfSelection ==
  ui.net = None =>
    /\ ui.summary => ui.panel.kind = "summary"
    /\ ui.sel = None /\ ~ui.summary => ui.panel = Closed

\* The second tooltip is open only beside a pinned first one.
TipsAreNested == ui.subsub # None => Pinned(ui)

\* Selection, panel and tooltips agree after every click, key and refresh.
ViewsAgree == OneSelection /\ PanelIsOfSelection /\ TipsAreNested

\* A row's filter is beside the pinned tooltip of that row.
SubIsPinned == ui.sub # None => Pinned(ui)

\* Nothing that happens while the summary or a provider is selected, a click,
\* a key, a refresh or a timer, takes the tooltip and leaves its filter: the
\* table would hide peers and nothing on the screen say why.  (In a network's
\* panel without them Escape and a click on the map do just that.)
FilterKeepsItsTooltip ==
  [][(ui.sel # None \/ ui.summary) /\ SubIsPinned => SubIsPinned']_ui

\* A second refresh with the same list changes neither the table's filter
\* nor the lines the first one left: what it shows depends on the list and on
\* what is selected, not on how often the server was asked.  It says nothing
\* of what the first one has taken away.
Shown(u) == [filter |-> u.filter, lines |-> u.lines]
PollSettles ==
  \A P \in Snapshots : Shown(Refresh(Refresh(ui, P), P)) = Shown(Refresh(ui, P))

\* From wherever the user has got to, six times Escape, or six clicks on the
\* empty map, lead back to the plain map with all peers in the table.
Resting == ui.sel = None /\ ~ui.summary /\ ui.net = None /\ ~ui.detail
IsOut(u) ==
  /\ u.sel = None /\ ~u.summary /\ u.net = None /\ ~u.detail /\ ~u.focused
  /\ u.sub = None /\ u.tip = None /\ u.panel = Closed /\ u.filter = None
SixTimes(Step(_), u) == Step(Step(Step(Step(Step(Step(u))))))
WayOut == Away /\ ~Resting => /\ IsOut(SixTimes(Escape, ui))
                             /\ IsOut(SixTimes(MapClick, ui))

=============================================================================
