----------------------------- MODULE PrivateNet -----------------------------
(***************************************************************************)
(* The private network mode of the map: a donut and a panel for the peers  *)
(* behind Tor, I2P and CJDNS, entered from the map, the table, a chip, the *)
(* small donut or the poll, and left in five ways (src/static/js/app.js).  *)
(*                                                                         *)
(* A handler is an operator from the state of the user interface, a        *)
(* record, to the next one, as in AsPanel.  What a handler leaves to a     *)
(* timer is an action of its own: the panel opens 200 ms and the peer is   *)
(* selected 300 ms after the entry, the popup comes 350 ms after the       *)
(* selection, and what fades out is hidden, and out of the user's reach,   *)
(* 350 or 500 ms later.  Nothing calls the timers of an entry back, and    *)
(* few handlers ask for the mode, so that much goes on out of it as well.  *)
(* Left out: the camera, the texts in the donut's centre,                  *)
(* highlightedPeerId, the network badges, and the AS distribution, which   *)
(* an entry tells to close.                                                *)
(***************************************************************************)
EXTENDS Naturals, Sequences, FiniteSets

CONSTANTS
  Peers,     \* the ids the node gives to its private peers, from 0
  Nets,      \* onion, i2p and cjdns
  Net,       \* the network of each of the peers
  Types,     \* the kinds of insights of the overview
  Snapshots, \* bound: the lists of private peers that a poll may bring
  MaxLate,   \* bound: the timers of earlier entries pending at an entry
  Again,     \* bound: the parts that several timers may be about to hide
  None

ASSUME PrivateNetAssumption ==
  /\ Peers \subseteq Nat /\ None \notin Peers
  /\ Net \in [Peers -> Nets] /\ None \notin Nets
  /\ Snapshots \subseteq SUBSET Peers /\ MaxLate \in Nat /\ Again \subseteq {"panel", "box"}

VARIABLE ui

(***************************************************************************)
(* The fields of ui, with the names of the code:                           *)
(*   peers    the alive nodes of private networks, as in lastPeers         *)
(*   mode     privateNetMode          net      pnSelectedNet               *)
(*   hover    pnHoveredNet            peer     privateNetSelectedPeer      *)
(*   line     privateNetLinePeer      preview  pnPreviewPeerIds            *)
(*   insight  pnInsightActiveType and -PeerId                              *)
(*   rect     pnInsightRectVisible                                         *)
(*   tip      the sub-tooltip, pnSubTooltipPinned, and whether its row     *)
(*            (pnPinnedSubSrc) is still in the panel                       *)
(*   saved    _savedPreviewPeerIds of the tooltip's element                *)
(*   panel    whether the detail panel is shown, and what it was built of: *)
(*            a network, or None for the overview, and the peers then        *)
(*   box      whether the donut's container is shown                       *)
(*   hidden   what bears the class hidden: the donut is off the page then, *)
(*            the panel out of the pointer's reach                         *)
(*   hides    the timers that will set that class                          *)
(*   popup    pnBigPopupEl            coming   popups a timer will show    *)
(*   entry    the timers of entries that have not run, in their order      *)
(*   list     the list of a dot's peers is shown                           *)
(*   group    groupedNodes            over     what the pointer is on      *)
(***************************************************************************)
PeerOrNone == Peers \cup {None}
NetOrNone  == Nets \cup {None}
IdsOrNone  == (SUBSET Peers) \cup {None}
InsightSet == [type : Types, peer : Peers]
TipSet     == [ids : SUBSET Peers, pinned : BOOLEAN, live : BOOLEAN]
StepSet    == [do : {"panel"}, of : NetOrNone] \cup [do : {"select"}, of : Peers]
Parts      == {"panel", "box"}
PlaceSet   == [segment : Nets] \cup [row : SUBSET Peers] \cup [insight : InsightSet]
              \cup [tip : Peers]

ASSUME NoneAssumption == None \notin TipSet

UiSet ==
  [peers : SUBSET Peers, mode : BOOLEAN, net : NetOrNone, hover : NetOrNone,
   peer : PeerOrNone, line : PeerOrNone, preview : IdsOrNone,
   insight : InsightSet \cup {None}, rect : BOOLEAN,
   tip : TipSet \cup {None}, saved : IdsOrNone,
   panel : [shown : BOOLEAN, of : NetOrNone, at : SUBSET Peers], box : BOOLEAN,
   hidden : SUBSET Parts, hides : SUBSET Parts,
   popup : PeerOrNone, coming : SUBSET Peers, entry : Seq(StepSet),
   list : BOOLEAN, group : IdsOrNone, over : PlaceSet \cup {None}]

Truthy(p)      == p # None /\ p # 0
NetPeers(P, n) == {p \in P : Net[p] = n}
Pinned(u)      == u.tip # None /\ u.tip.pinned
InsightPeer(u) == IF u.insight = None THEN None ELSE u.insight.peer
On(u, place)   == u.over # None /\ place \in DOMAIN u.over

-----------------------------------------------------------------------------
(***************************************************************************)
(* What is drawn anew.  A rebuilt row or segment has not seen the pointer  *)
(* enter, so it will not see it leave either.                              *)
(***************************************************************************)
RenderDonut(u) == [u EXCEPT !.over = IF On(u, "segment") THEN None ELSE @]

\* updatePnDetailPanel and, of None, updatePnOverviewPanel.
UpdatePanel(u, n) ==
  [u EXCEPT !.panel.of = n, !.panel.at = u.peers,
            !.tip  = IF @ = None THEN @ ELSE [@ EXCEPT !.live = FALSE],
            !.over = IF On(u, "row") \/ On(u, "insight") THEN None ELSE @]

RefreshPanel(u) == IF u.panel.shown THEN UpdatePanel(u, u.net) ELSE u

RestoreInsight(u) ==
  IF ~Truthy(InsightPeer(u)) THEN u
  ELSE [u EXCEPT !.line = u.insight.peer, !.preview = {u.insight.peer}, !.rect = TRUE]

UpdatePrivateNetUI(u) ==
  IF ~u.mode THEN u ELSE RestoreInsight(RefreshPanel(RenderDonut(u)))

-----------------------------------------------------------------------------
(***************************************************************************)
(* Tooltip, insight, popup, panel.                                         *)
(***************************************************************************)
\* Mutant: the preview that the tooltip's element has saved survives it.
HideTipKeepsSaved(u) == [u EXCEPT !.tip = None, !.preview = None]

HideSubTooltip(u) == [u EXCEPT !.tip = None, !.preview = None, !.saved = None]

HideRect(u) == [u EXCEPT !.rect = FALSE]

ClearInsight(u) ==
  RenderDonut([u EXCEPT !.insight = None, !.line = None, !.peer = None, !.preview = None])

DismissRect(u) == IF u.rect THEN ClearInsight(HideRect(u)) ELSE u

\* Mutant: the popup that is on its way is not called back.
ClosePopupOnly(u) == [u EXCEPT !.popup = None]

ClosePopup(u) == [u EXCEPT !.popup = None, !.coming = {}]

\* Mutant: the panel keeps the network it showed last.
OpenPanelAsItWas(u, n) ==
  [u EXCEPT !.panel.shown = TRUE, !.hidden = @ \ {"panel"}]

OpenDetailPanel(u, n) ==
  UpdatePanel([u EXCEPT !.panel.shown = TRUE, !.hidden = @ \ {"panel"}], n)

OpenOverviewPanel(u) == OpenDetailPanel([u EXCEPT !.net = None], None)

ClosePanel(u) ==
  [HideSubTooltip(u) EXCEPT !.panel.shown = FALSE, !.hides = @ \cup {"panel"}]

DeselectPeer(u) == [u EXCEPT !.peer = None, !.line = None]

\* Mutant: without the call of clearTimeout.
SelectKeepsTimer(u, p) ==
  IF p \notin u.peers THEN u
  ELSE LET v == HideSubTooltip([u EXCEPT !.peer = p, !.line = p, !.list = FALSE])
           w == IF InsightPeer(v) # p THEN DismissRect(v) ELSE v
       IN  UpdatePrivateNetUI([w EXCEPT !.popup = None, !.coming = @ \cup {p}])

SelectPrivatePeer(u, p) ==
  IF p \notin u.peers THEN u
  ELSE LET v == HideSubTooltip([u EXCEPT !.peer = p, !.line = p, !.list = FALSE])
           w == IF InsightPeer(v) # p THEN DismissRect(v) ELSE v
       IN  UpdatePrivateNetUI([w EXCEPT !.popup = None, !.coming = {p}])

-----------------------------------------------------------------------------
(***************************************************************************)
(* Entering and leaving.                                                   *)
(***************************************************************************)
\* Mutant: a peer is selected even where the entry names none.
EnterSelectsNone(u, p, n) ==
  IF u.mode THEN SelectPrivatePeer(u, p)
  ELSE [UpdatePrivateNetUI([u EXCEPT !.mode = TRUE, !.net = n, !.box = TRUE]) EXCEPT
          !.entry = @ \o <<[do |-> "panel", of |-> n], [do |-> "select", of |-> p]>>]

EnterPrivateNetMode(u, p, n) ==
  IF u.mode THEN IF Truthy(p) THEN SelectPrivatePeer(u, p) ELSE u
  ELSE LET v == HideSubTooltip([u EXCEPT !.mode = TRUE, !.net = n, !.list = FALSE,
                                         !.group = None, !.box = TRUE,
                                         !.hidden = @ \ {"box"}])
           panel  == <<[do |-> "panel", of |-> n]>>
           select == IF Truthy(p) THEN <<[do |-> "select", of |-> p]>> ELSE <<>>
       IN  [UpdatePrivateNetUI(v) EXCEPT !.entry = @ \o panel \o select]

ExitPrivateNetMode(u) ==
  IF ~u.mode THEN u
  ELSE LET v == HideSubTooltip(HideRect(DeselectPeer(
                  [u EXCEPT !.mode = FALSE, !.net = None, !.hover = None,
                            !.insight = None])))
       IN  ClosePopup([v EXCEPT !.box = FALSE, !.panel.shown = FALSE,
                                !.hides = Parts, !.list = FALSE, !.group = None])

Init ==
  ui = [peers |-> {}, mode |-> FALSE, net |-> None, hover |-> None, peer |-> None,
        line |-> None, preview |-> None, insight |-> None, rect |-> FALSE,
        tip |-> None, saved |-> None, panel |-> [shown |-> FALSE, of |-> None, at |-> {}],
        box |-> FALSE, hidden |-> Parts, hides |-> {}, popup |-> None,
        coming |-> {}, entry |-> <<>>, list |-> FALSE, group |-> None, over |-> None]

\* A click beside everything whose hover the module follows.
Aside  == ui.over = None
Inside == Aside /\ ui.mode
Room   == ui.mode \/ Len(ui.entry) <= MaxLate

\* What fades is still there to be clicked, until it is hidden.
BoxReady   == "box" \notin ui.hidden
PanelReady == "panel" \notin ui.hidden

(* A dot of the map whose peers are all private, or a row of the table.    *)
EnterWithPeer ==
  /\ Aside /\ Room
  /\ \E p \in ui.peers : ui' = EnterPrivateNetMode(ui, p, None)

(* The small donut's centre, its segments and legend, or the AS panel.     *)
EnterWithNet ==
  /\ Aside /\ Room
  /\ \E n \in NetOrNone : ui' = EnterPrivateNetMode(ui, None, n)

(* A chip of the bar enters, or switches the network.                      *)
Chip ==
  /\ Aside /\ Room
  /\ \E n \in Nets :
       ui' = IF ~ui.mode THEN EnterPrivateNetMode(ui, None, n)
             ELSE UpdatePrivateNetUI(OpenDetailPanel([ui EXCEPT !.net = n], n))

(* The donut's button, the panel's, a public chip, a double click, the     *)
(* reset of the zoom, and the setting that hides the small donut.          *)
Exit == Inside /\ ui' = ExitPrivateNetMode(ui)

(* Peers come and go; a node with none but private peers enters by itself. *)
Poll ==
  \E P \in Snapshots :
    LET v == UpdatePrivateNetUI([ui EXCEPT !.peers = P])
    IN  \/ ui' = v
        \/ ~ui.mode /\ Room /\ P # {} /\ ui' = EnterPrivateNetMode(v, None, None)

-----------------------------------------------------------------------------
(***************************************************************************)
(* The donut.                                                              *)
(***************************************************************************)
SegmentHover ==
  /\ Aside /\ BoxReady
  /\ \E n \in Nets :
       /\ NetPeers(ui.peers, n) # {}
       /\ ui' = [ui EXCEPT !.over  = [segment |-> n],
                           !.hover = IF ui.net # None \/ ui.peer # None THEN @ ELSE n]

SegmentLeave ==
  /\ On(ui, "segment")
  /\ ui' = [ui EXCEPT !.over  = None,
                      !.hover = IF ui.net # None \/ ui.peer # None THEN @ ELSE None]

SegmentClick ==
  /\ BoxReady /\ On(ui, "segment")
  /\ LET n == ui.over.segment
         v == DismissRect(ui)
     IN  ui' = UpdatePrivateNetUI(
                 IF v.net = n THEN ClosePanel([v EXCEPT !.net = None])
                 ELSE OpenDetailPanel([v EXCEPT !.net = n], n))

CenterClick ==
  /\ Aside /\ BoxReady
  /\ LET v == IF ui.peer # None THEN ClosePopup(DeselectPeer(ui)) ELSE ui
     IN  ui' = UpdatePrivateNetUI(OpenOverviewPanel(v))

RectClose == Aside /\ BoxReady /\ ui.rect /\ ui' = ClearInsight(HideRect(ui))

-----------------------------------------------------------------------------
(***************************************************************************)
(* The panel: rows of peers with their tooltip, and insights.              *)
(***************************************************************************)
\* The overview's rows are the networks and what all peers share; a
\* network's rows are what its peers share.
RowIds == IF ui.panel.of = None
          THEN {NetPeers(ui.panel.at, n) : n \in Nets} \cup {ui.panel.at}
          ELSE {NetPeers(ui.panel.at, ui.panel.of)}

RowEnter ==
  /\ Aside /\ PanelReady
  /\ \E ids \in RowIds \ {{}} :
       LET v == [ui EXCEPT !.over = [row |-> ids]]
       IN  ui' = IF Pinned(v) \/ v.insight # None THEN v
                 ELSE [v EXCEPT !.preview = ids,
                         !.tip = [ids |-> ids, pinned |-> FALSE, live |-> TRUE]]

RowLeave ==
  /\ On(ui, "row")
  /\ LET v == [ui EXCEPT !.over = None]
     IN  ui' = IF Pinned(v) \/ v.insight # None THEN v ELSE HideSubTooltip(v)

\* A row unpins the tooltip that it has pinned, and pins its own otherwise.
RowClick ==
  /\ PanelReady /\ On(ui, "row")
  /\ LET v   == DismissRect(ui)
         ids == ui.over.row
         own == Pinned(v) /\ v.tip.live /\ v.tip.ids = ids
     IN  ui' = IF own THEN HideSubTooltip(v)
               ELSE [v EXCEPT !.preview = ids,
                       !.tip = [ids |-> ids, pinned |-> TRUE, live |-> TRUE]]

BodyClick == Aside /\ PanelReady /\ Pinned(ui) /\ ui' = HideSubTooltip(ui)

\* An insight's row names the best peer by its measure, which any may be.
InsightEnter ==
  /\ Aside /\ PanelReady /\ ui.panel.of = None
  /\ \E i \in InsightSet :
       LET v == [ui EXCEPT !.over = [insight |-> i]]
       IN  /\ i.peer \in ui.panel.at
           /\ ui' = IF \/ v.insight # None \/ Pinned(v)
                       \/ ~Truthy(i.peer) \/ i.peer \notin ui.peers THEN v
                    ELSE [v EXCEPT !.rect = TRUE, !.preview = {i.peer}, !.line = i.peer]

InsightLeave ==
  /\ On(ui, "insight")
  /\ LET v == [ui EXCEPT !.over = None]
     IN  ui' = IF v.insight # None \/ Pinned(v) THEN v
               ELSE [HideRect(v) EXCEPT !.preview = None, !.line = None]

InsightClick ==
  /\ PanelReady /\ On(ui, "insight")
  /\ LET i == ui.over.insight IN
     /\ Truthy(i.peer)
     /\ ui' = IF ui.insight = i THEN ClearInsight(HideRect(ui))
              ELSE IF i.peer \notin ui.peers THEN ui
              ELSE SelectPrivatePeer([ui EXCEPT !.insight = i, !.rect = TRUE,
                                        !.line = i.peer, !.preview = {i.peer}], i.peer)

Back ==
  /\ Aside /\ PanelReady /\ ui.panel.of # None
  /\ ui' = UpdatePrivateNetUI(UpdatePanel(HideSubTooltip([ui EXCEPT !.net = None]), None))

-----------------------------------------------------------------------------
(***************************************************************************)
(* The peers of a pinned tooltip.  The element that is hidden under the    *)
(* pointer sees it leave afterwards.                                       *)
(***************************************************************************)
TipEnter ==
  /\ Aside /\ Pinned(ui)
  /\ \E p \in ui.tip.ids :
       ui' = [ui EXCEPT !.over = [tip |-> p], !.preview = {p},
                        !.saved = IF @ = None THEN ui.preview ELSE @]

TipLeave ==
  /\ On(ui, "tip")
  /\ ui' = [ui EXCEPT !.over = None, !.preview = ui.saved, !.saved = None]

TipClick ==
  /\ On(ui, "tip") /\ Pinned(ui)
  /\ ui' = SelectPrivatePeer(ui, ui.over.tip)

-----------------------------------------------------------------------------
(***************************************************************************)
(* The map, the list of a dot's peers, the popup.                          *)
(***************************************************************************)
DotClick ==
  /\ Inside
  /\ \E G \in (SUBSET ui.peers) \ {{}} :
       ui' = IF Cardinality(G) > 1 THEN [ui EXCEPT !.group = G, !.list = TRUE]
             ELSE SelectPrivatePeer(ui, CHOOSE p \in G : TRUE)

SeaClick ==
  /\ Inside
  /\ LET v == HideSubTooltip(ClosePopup([DeselectPeer(ui) EXCEPT !.list = FALSE]))
     IN  ui' = UpdatePrivateNetUI(DismissRect(v))

ListClick ==
  /\ Aside /\ ui.list
  /\ \E p \in ui.group : ui' = SelectPrivatePeer([ui EXCEPT !.list = FALSE], p)

ListClose == Aside /\ ui.list /\ ui' = [ui EXCEPT !.list = FALSE, !.group = None]

PopupClose ==
  /\ Aside /\ ui.popup # None
  /\ ui' = UpdatePrivateNetUI(DeselectPeer(ClosePopup(ui)))

-----------------------------------------------------------------------------
(***************************************************************************)
(* Timers.                                                                 *)
(***************************************************************************)
\* By their due times: panels open in the order of the entries, peers are
\* selected in that order, and a panel may open before a peer of an earlier
\* entry is selected.
Due(i) == \A j \in 1..(i - 1) : ui.entry[i].do = "panel" /\ ui.entry[j].do = "select"

Without(steps, i) ==
  [j \in 1..(Len(steps) - 1) |-> IF j < i THEN steps[j] ELSE steps[j + 1]]

EntryTimer ==
  \E i \in 1..Len(ui.entry) :
    /\ Due(i)
    /\ LET step == ui.entry[i]
           v    == [ui EXCEPT !.entry = Without(@, i)]
       IN  ui' = IF step.do = "select" THEN SelectPrivatePeer(v, step.of)
                 ELSE IF step.of = None THEN OpenOverviewPanel(v)
                 ELSE OpenDetailPanel(v, step.of)

PopupTimer ==
  \E p \in ui.coming :
    ui' = [ui EXCEPT !.coming = @ \ {p}, !.popup = IF p \in ui.peers THEN p ELSE None]

\* A part that has faded several times has as many timers.
HideTimer ==
  \E x \in ui.hides : \E more \in SUBSET ({x} \cap Again) :
    ui' = [ui EXCEPT !.hides = (@ \ {x}) \cup more, !.hidden = @ \cup {x}]

Input ==
  \/ EnterWithPeer \/ EnterWithNet \/ Chip \/ Exit
  \/ SegmentClick \/ CenterClick \/ RectClose
  \/ RowClick \/ BodyClick \/ InsightClick \/ Back \/ TipClick
  \/ DotClick \/ SeaClick \/ ListClick \/ ListClose \/ PopupClose

Pointer ==
  \/ SegmentHover \/ SegmentLeave \/ RowEnter \/ RowLeave
  \/ InsightEnter \/ InsightLeave \/ TipEnter \/ TipLeave

Timer == EntryTimer \/ PopupTimer \/ HideTimer

Next == Input \/ Pointer \/ Poll \/ Timer

Spec == Init /\ [][Next]_ui

-----------------------------------------------------------------------------
TypeOK == ui \in UiSet

(* Nothing of the mode is left: no selection, line, tooltip, insight, list *)
(* or popup, none on its way, and no panel or donut.                       *)
Nothing(u) ==
  /\ u.peer = None /\ u.line = None /\ u.net = None /\ u.hover = None
  /\ u.preview = None /\ u.insight = None /\ ~u.rect /\ u.tip = None
  /\ ~u.list /\ u.group = None /\ u.popup = None /\ u.coming = {}
  /\ ~u.panel.shown /\ ~u.box

(* Leaving takes away all that the other handlers and their timers have    *)
(* set, and once the rest has faded nothing of it comes back out of the    *)
(* mode, by no pointer, poll or timer, but for the timers of the entry     *)
(* itself, which nothing calls back.                                       *)
LeavingIsFinal ==
  [][~ui'.mode /\ (ui.mode \/ (Nothing(ui) /\ ui.hides = {}))
       => Nothing(ui') \/ EntryTimer]_ui

(* "Exit private network mode: return to normal public view" (app.js,      *)
(* above exitPrivateNetMode): out of the mode nothing of it is left, at    *)
(* the latest when the timers of entry and exit have run.                  *)
NothingStays == ~ui.mode /\ ui.entry = <<>> /\ ui.hides = {} => Nothing(ui)

(* The panel is the selected network's and can be used, and a selected     *)
(* network has its panel open, or soon will.                               *)
PanelAgrees(u) ==
  /\ u.panel.shown => u.panel.of = u.net /\ "panel" \notin u.hidden
  /\ u.net # None => \/ u.panel.shown
                     \/ \E i \in 1..Len(u.entry) : u.entry[i].do = "panel"

(* A timer that something else has overtaken: the panel opens for a        *)
(* network that is no longer selected, or is hidden after it was opened    *)
(* again.                                                                  *)
Overtaken ==
  \/ EntryTimer /\ ui'.panel.of \notin {ui.net, None}
  \/ HideTimer /\ ui.panel.shown

(* Panel and selected network part in no other way, whatever the donut,    *)
(* the chips, the panel's buttons and the polls do to the two of them.     *)
PanelIsOfSelection == [][PanelAgrees(ui) => PanelAgrees(ui') \/ Overtaken]_ui

(* While a peer is selected the popup, there or on its way, is that        *)
(* peer's: a selection calls back the popup of the one before.  (Closing   *)
(* an insight deselects its peer and leaves the popup where it is.)        *)
PopupIsOfSelection ==
  ui.peer # None => ui.coming \cup {ui.popup} \subseteq {ui.peer, None}

(* Lines to previewed peers and to a single one have their reason on the   *)
(* screen: a preview belongs to a tooltip or to the insight's rectangle,   *)
(* and the line of one peer to the selected peer or to the rectangle.      *)
(* None returns when the pointer leaves a tooltip after it was hidden.     *)
(* (The lines of a network under the pointer are not among these.)         *)
LinesAreExplained ==
  /\ ui.preview # None => ui.tip # None \/ ui.rect
  /\ ui.line # None => ui.line = ui.peer \/ ui.rect
=============================================================================
