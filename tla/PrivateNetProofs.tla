-------------------------- MODULE PrivateNetProofs --------------------------
(***************************************************************************)
(* Proofs about the private network mode, for any peers and networks.      *)
(*                                                                         *)
(* The handlers are built from some fifteen operators on the record ui.    *)
(* A lemma for each of them says that it keeps the record in its type and  *)
(* which of the fields that matter it leaves alone; the steps of the       *)
(* specification then follow from these lemmas alone.                      *)
(***************************************************************************)
EXTENDS PrivateNet, SequenceTheorems, TLAPS

\* What only a choice of network, an entry or an exit changes.
SameMode(u, v) == v.mode = u.mode /\ v.net = u.net /\ v.entry = u.entry

-----------------------------------------------------------------------------
(***************************************************************************)
(* The operators keep the type.                                            *)
(***************************************************************************)
LEMMA RenderDonutType ==
  ASSUME NEW u \in UiSet
  PROVE  RenderDonut(u) \in UiSet /\ SameMode(u, RenderDonut(u))
BY DEF UiSet, SameMode, RenderDonut

LEMMA UpdatePanelType ==
  ASSUME NEW u \in UiSet, NEW n \in NetOrNone
  PROVE  UpdatePanel(u, n) \in UiSet /\ SameMode(u, UpdatePanel(u, n))
BY DEF UiSet, SameMode, UpdatePanel, TipSet

LEMMA RefreshPanelType ==
  ASSUME NEW u \in UiSet
  PROVE  RefreshPanel(u) \in UiSet /\ SameMode(u, RefreshPanel(u))
BY UpdatePanelType DEF UiSet, SameMode, RefreshPanel

LEMMA RestoreInsightType ==
  ASSUME NEW u \in UiSet
  PROVE  RestoreInsight(u) \in UiSet /\ SameMode(u, RestoreInsight(u))
<1> DEFINE p == u.insight.peer
<1>1. CASE ~Truthy(InsightPeer(u))
  BY <1>1 DEF SameMode, RestoreInsight
<1>2. CASE Truthy(InsightPeer(u))
  <2>1. u.insight \in InsightSet
    BY <1>2 DEF UiSet, Truthy, InsightPeer
  <2>2. p \in Peers
    BY <2>1 DEF InsightSet
  <2> HIDE DEF p
  <2>3. [u EXCEPT !.line = p, !.preview = {p}, !.rect = TRUE] \in UiSet
    BY <2>2 DEF UiSet, PeerOrNone, IdsOrNone
  <2>4. SameMode(u, [u EXCEPT !.line = p, !.preview = {p}, !.rect = TRUE])
    BY DEF UiSet, SameMode
  <2>5. QED
    BY <1>2, <2>3, <2>4 DEF RestoreInsight, p
<1>3. QED
  BY <1>1, <1>2

LEMMA UpdatePrivateNetUIType ==
  ASSUME NEW u \in UiSet
  PROVE  UpdatePrivateNetUI(u) \in UiSet /\ SameMode(u, UpdatePrivateNetUI(u))
BY RenderDonutType, RefreshPanelType, RestoreInsightType DEF SameMode, UpdatePrivateNetUI

LEMMA HideSubTooltipType ==
  ASSUME NEW u \in UiSet
  PROVE  HideSubTooltip(u) \in UiSet /\ SameMode(u, HideSubTooltip(u))
BY DEF UiSet, SameMode, HideSubTooltip, IdsOrNone

LEMMA HideRectType ==
  ASSUME NEW u \in UiSet
  PROVE  HideRect(u) \in UiSet /\ SameMode(u, HideRect(u))
BY DEF UiSet, SameMode, HideRect

LEMMA ClearInsightType ==
  ASSUME NEW u \in UiSet
  PROVE  ClearInsight(u) \in UiSet /\ SameMode(u, ClearInsight(u))
<1> DEFINE v == [u EXCEPT !.insight = None, !.line = None, !.peer = None, !.preview = None]
<1>1. v \in UiSet /\ SameMode(u, v)
  BY DEF UiSet, SameMode, PeerOrNone, IdsOrNone
<1>2. QED
  BY <1>1, RenderDonutType DEF SameMode, ClearInsight

LEMMA DismissRectType ==
  ASSUME NEW u \in UiSet
  PROVE  DismissRect(u) \in UiSet /\ SameMode(u, DismissRect(u))
BY HideRectType, ClearInsightType DEF SameMode, DismissRect

LEMMA ClosePopupType ==
  ASSUME NEW u \in UiSet
  PROVE  ClosePopup(u) \in UiSet /\ SameMode(u, ClosePopup(u))
BY DEF UiSet, SameMode, ClosePopup, PeerOrNone

LEMMA DeselectPeerType ==
  ASSUME NEW u \in UiSet
  PROVE  DeselectPeer(u) \in UiSet /\ SameMode(u, DeselectPeer(u))
BY DEF UiSet, SameMode, DeselectPeer, PeerOrNone

LEMMA OpenDetailPanelType ==
  ASSUME NEW u \in UiSet, NEW n \in NetOrNone
  PROVE  OpenDetailPanel(u, n) \in UiSet /\ SameMode(u, OpenDetailPanel(u, n))
<1> DEFINE v == [u EXCEPT !.panel.shown = TRUE, !.hidden = @ \ {"panel"}]
<1>1. v \in UiSet /\ SameMode(u, v)
  BY DEF UiSet, SameMode
<1>2. QED
  BY <1>1, UpdatePanelType DEF SameMode, OpenDetailPanel

LEMMA OpenOverviewPanelType ==
  ASSUME NEW u \in UiSet
  PROVE  OpenOverviewPanel(u) \in UiSet /\ OpenOverviewPanel(u).mode = u.mode /\ OpenOverviewPanel(u).net = None /\ OpenOverviewPanel(u).entry = u.entry
<1> DEFINE v == [u EXCEPT !.net = None]
<1>1. v \in UiSet /\ v.mode = u.mode /\ v.net = None /\ v.entry = u.entry
  BY DEF UiSet, NetOrNone
<1>2. None \in NetOrNone
  BY DEF NetOrNone
<1>3. QED
  BY <1>1, <1>2, OpenDetailPanelType DEF SameMode, OpenOverviewPanel

LEMMA ClosePanelType ==
  ASSUME NEW u \in UiSet
  PROVE  ClosePanel(u) \in UiSet /\ SameMode(u, ClosePanel(u))
BY HideSubTooltipType DEF UiSet, SameMode, ClosePanel, Parts

LEMMA SelectPrivatePeerType ==
  ASSUME NEW u \in UiSet, NEW p \in Peers
  PROVE  SelectPrivatePeer(u, p) \in UiSet /\ SameMode(u, SelectPrivatePeer(u, p))
<1> DEFINE v == HideSubTooltip([u EXCEPT !.peer = p, !.line = p, !.list = FALSE])
           w == IF InsightPeer(v) # p THEN DismissRect(v) ELSE v
           x == [w EXCEPT !.popup = None, !.coming = {p}]
<1>1. [u EXCEPT !.peer = p, !.line = p, !.list = FALSE] \in UiSet
      /\ SameMode(u, [u EXCEPT !.peer = p, !.line = p, !.list = FALSE])
  BY DEF UiSet, SameMode, PeerOrNone
<1>2. v \in UiSet /\ SameMode(u, v)
  BY <1>1, HideSubTooltipType DEF SameMode
<1>3. w \in UiSet /\ SameMode(u, w)
  BY <1>2, DismissRectType DEF SameMode
<1> HIDE DEF w
<1>4. x \in UiSet /\ SameMode(u, x)
  <2>1. {p} \in SUBSET Peers /\ None \in PeerOrNone
    BY DEF PeerOrNone
  <2>2. x \in UiSet
    BY <1>3, <2>1 DEF UiSet
  <2>3. SameMode(w, x)
    BY <1>3 DEF UiSet, SameMode
  <2>4. QED
    BY <1>3, <2>2, <2>3 DEF SameMode
<1>5. QED
  BY <1>4, UpdatePrivateNetUIType DEF SameMode, SelectPrivatePeer, w

-----------------------------------------------------------------------------
(***************************************************************************)
(* Entering and leaving.                                                   *)
(***************************************************************************)
PanelStep(n)  == [do |-> "panel", of |-> n]
SelectStep(p) == [do |-> "select", of |-> p]
Longer(s, p, n) ==
  s \o <<PanelStep(n)>> \o (IF Truthy(p) THEN <<SelectStep(p)>> ELSE <<>>)

LEMMA LongerType ==
  ASSUME NEW s \in Seq(StepSet), NEW p \in PeerOrNone, NEW n \in NetOrNone
  PROVE  Longer(s, p, n) \in Seq(StepSet)
<1>1. PanelStep(n) \in StepSet
  BY DEF StepSet, PanelStep
<1>2. s \o <<PanelStep(n)>> \in Seq(StepSet)
  BY <1>1
<1>3. CASE Truthy(p)
  <2>1. SelectStep(p) \in StepSet
    BY <1>3 DEF StepSet, SelectStep, Truthy, PeerOrNone
  <2> DEFINE t == s \o <<PanelStep(n)>>
             z == SelectStep(p)
  <2> HIDE DEF t, z
  <2>2. t \in Seq(StepSet) /\ z \in StepSet
    BY <1>2, <2>1 DEF t, z
  <2>3. t \o <<z>> \in Seq(StepSet)
    BY <2>2
  <2>4. QED
    BY <1>3, <2>3 DEF Longer, t, z
<1>4. CASE ~Truthy(p)
  <2> DEFINE t == s \o <<PanelStep(n)>>
  <2> HIDE DEF t
  <2>1. t \in Seq(StepSet)
    BY <1>2 DEF t
  <2>2. t \o <<>> \in Seq(StepSet)
    BY <2>1
  <2>3. QED
    BY <1>4, <2>2 DEF Longer, t
<1>5. QED
  BY <1>3, <1>4

\* An entry appends the step that opens its panel, whatever the selection.
LEMMA LongerOpens ==
  ASSUME NEW s \in Seq(StepSet), NEW p \in PeerOrNone, NEW n \in NetOrNone
  PROVE  LET l == Longer(s, p, n) IN \E i \in 1..Len(l) : l[i].do = "panel"
<1> DEFINE q == IF Truthy(p) THEN <<SelectStep(p)>> ELSE <<>>
           a == PanelStep(n)
           l == Longer(s, p, n)
<1>1. q \in Seq({SelectStep(p)}) /\ a.do = "panel"
  <2> DEFINE z == SelectStep(p)
  <2>1. a.do = "panel"
    BY DEF PanelStep
  <2> HIDE DEF z
  <2>2. <<z>> \in Seq({z}) /\ <<>> \in Seq({z})
    OBVIOUS
  <2>3. q \in Seq({z})
    <3>1. CASE Truthy(p)
      BY <2>2, <3>1 DEF z
    <3>2. CASE ~Truthy(p)
      BY <2>2, <3>2
    <3>3. QED
      BY <3>1, <3>2
  <2>4. QED
    BY <2>1, <2>3 DEF z
<1>2. l = s \o <<a>> \o q
  BY DEF Longer
<1> HIDE DEF q, a, l
<1> DEFINE k == Len(s) + 1
<1>3. k \in 1..Len(l) /\ l[k] = a
  <2>1. Len(s) \in Nat /\ Len(q) \in Nat
    BY <1>1
  <2>2. Len(s \o <<a>>) = k /\ (s \o <<a>>)[k] = a
    BY <2>1
  <2>3. Len(l) = k + Len(q)
    BY <1>1, <1>2, <2>2
  <2>4. l[k] = (s \o <<a>>)[k]
    BY <1>1, <1>2, <2>1, <2>2
  <2>5. QED
    BY <2>1, <2>2, <2>3, <2>4
<1>4. QED
  BY <1>1, <1>3 DEF l

LEMMA EnterType ==
  ASSUME NEW u \in UiSet, NEW p \in PeerOrNone, NEW n \in NetOrNone, ~u.mode
  PROVE  LET e == EnterPrivateNetMode(u, p, n) IN
         e \in UiSet /\ e.mode /\ e.net = n /\ e.entry = Longer(u.entry, p, n)
<1> DEFINE v == [u EXCEPT !.mode = TRUE, !.net = n, !.list = FALSE, !.group = None,
                          !.box = TRUE, !.hidden = @ \ {"box"}]
           w == UpdatePrivateNetUI(HideSubTooltip(v))
<1>1. v \in UiSet /\ v.mode /\ v.net = n /\ v.entry = u.entry
  BY DEF UiSet, IdsOrNone
<1>2. w \in UiSet /\ w.mode /\ w.net = n /\ w.entry = u.entry
  BY <1>1, HideSubTooltipType, UpdatePrivateNetUIType DEF SameMode
<1> HIDE DEF v
<1>3. EnterPrivateNetMode(u, p, n) = [w EXCEPT !.entry = Longer(@, p, n)]
  <2>1. CASE Truthy(p)
    BY <2>1 DEF EnterPrivateNetMode, Longer, PanelStep, SelectStep, v
  <2>2. CASE ~Truthy(p)
    BY <2>2 DEF EnterPrivateNetMode, Longer, PanelStep, v
  <2>3. QED
    BY <2>1, <2>2
<1> DEFINE s == Longer(u.entry, p, n)
<1>4. s \in Seq(StepSet) /\ s = Longer(w.entry, p, n)
  BY <1>2, LongerType DEF UiSet
<1> HIDE DEF w, s
<1>5. [w EXCEPT !.entry = s] \in UiSet
  BY <1>2, <1>4 DEF UiSet
<1>6. /\ [w EXCEPT !.entry = s].mode = w.mode /\ [w EXCEPT !.entry = s].net = w.net
      /\ [w EXCEPT !.entry = s].entry = s
  BY <1>2 DEF UiSet
<1>7. EnterPrivateNetMode(u, p, n) = [w EXCEPT !.entry = s]
  BY <1>3, <1>4
<1>8. QED
  BY <1>2, <1>5, <1>6, <1>7 DEF s

LEMMA EnterAgainType ==
  ASSUME NEW u \in UiSet, NEW p \in PeerOrNone, NEW n \in NetOrNone, u.mode
  PROVE  EnterPrivateNetMode(u, p, n) \in UiSet
         /\ SameMode(u, EnterPrivateNetMode(u, p, n))
BY SelectPrivatePeerType DEF EnterPrivateNetMode, SameMode, Truthy, PeerOrNone

LEMMA ExitType ==
  ASSUME NEW u \in UiSet, u.mode
  PROVE  LET e == ExitPrivateNetMode(u) IN
         /\ e \in UiSet /\ ~e.mode /\ Nothing(e) /\ e.saved = None
         /\ e.entry = u.entry /\ e.hides = Parts
<1> DEFINE a == [u EXCEPT !.mode = FALSE, !.net = None, !.hover = None, !.insight = None]
           v == HideSubTooltip(HideRect(DeselectPeer(a)))
<1>1. a \in UiSet /\ ~a.mode /\ a.net = None /\ a.hover = None /\ a.insight = None
      /\ a.entry = u.entry
  BY DEF UiSet, NetOrNone
<1> HIDE DEF a
<1>2. v \in UiSet
  BY <1>1, DeselectPeerType, HideRectType, HideSubTooltipType
<1>3. /\ ~v.mode /\ v.net = None /\ v.hover = None /\ v.insight = None
      /\ v.peer = None /\ v.line = None /\ ~v.rect /\ v.tip = None
      /\ v.preview = None /\ v.saved = None /\ v.entry = u.entry
  BY <1>1 DEF UiSet, DeselectPeer, HideRect, HideSubTooltip
<1> DEFINE w == [v EXCEPT !.box = FALSE, !.panel.shown = FALSE, !.hides = Parts,
                          !.list = FALSE, !.group = None]
<1>4. ExitPrivateNetMode(u) = ClosePopup(w)
  BY DEF ExitPrivateNetMode, a
<1> HIDE DEF v
<1>5. w \in UiSet /\ ~w.panel.shown
  <2>1. Parts \in SUBSET Parts /\ None \in IdsOrNone
    BY DEF IdsOrNone
  <2>2. QED
    BY <1>2, <2>1 DEF UiSet
<1>6. /\ ~w.mode /\ w.net = None /\ w.hover = None /\ w.insight = None
      /\ w.peer = None /\ w.line = None /\ ~w.rect /\ w.tip = None
      /\ w.preview = None /\ w.saved = None /\ w.entry = u.entry
      /\ ~w.box /\ ~w.list /\ w.group = None /\ w.hides = Parts
  BY <1>2, <1>3 DEF UiSet
<1> HIDE DEF w
<1> DEFINE x == ClosePopup(w)
<1>7. x \in UiSet /\ SameMode(w, x)
  BY <1>5, ClosePopupType
<1>8. /\ x.popup = None /\ x.coming = {} /\ ~x.panel.shown /\ x.hover = None
      /\ x.insight = None /\ x.peer = None /\ x.line = None /\ ~x.rect /\ x.tip = None
      /\ x.preview = None /\ x.saved = None /\ ~x.box /\ ~x.list /\ x.group = None
      /\ x.hides = Parts
  BY <1>5, <1>6 DEF UiSet, ClosePopup
<1> HIDE DEF x
<1>9. QED
  BY <1>4, <1>6, <1>7, <1>8 DEF x, SameMode, Nothing

-----------------------------------------------------------------------------
(***************************************************************************)
(* The steps that neither enter nor leave.                                 *)
(***************************************************************************)
Stays(u) == u \in UiSet /\ u.mode = ui.mode /\ u.entry = ui.entry

LEMMA OverType ==
  ASSUME NEW u \in UiSet
  PROVE  /\ On(u, "segment") => u.over.segment \in Nets
         /\ On(u, "row") => u.over.row \in SUBSET Peers
         /\ On(u, "insight") => u.over.insight \in InsightSet
         /\ On(u, "tip") => u.over.tip \in Peers
<1>1. u.over \in PlaceSet \cup {None}
  BY DEF UiSet
<1>2. ASSUME u.over # None
      PROVE  \/ u.over \in [segment : Nets] \/ u.over \in [row : SUBSET Peers]
             \/ u.over \in [insight : InsightSet] \/ u.over \in [tip : Peers]
  BY <1>1, <1>2 DEF PlaceSet
<1>3. QED
  BY <1>2 DEF On

LEMMA TipType ==
  ASSUME NEW u \in UiSet, Pinned(u)
  PROVE  u.tip.ids \in SUBSET Peers
BY DEF UiSet, Pinned, TipSet

LEMMA SegmentSteps ==
  ASSUME TypeOK, SegmentHover \/ SegmentLeave \/ SegmentClick
  PROVE  Stays(ui')
<1> USE DEF TypeOK
<1>1. CASE SegmentHover
  <2>1. PICK n \in Nets :
          ui' = [ui EXCEPT !.over  = [segment |-> n],
                           !.hover = IF ui.net # None \/ ui.peer # None THEN @ ELSE n]
    BY <1>1 DEF SegmentHover
  <2> DEFINE o == [segment |-> n]
             h == IF ui.net # None \/ ui.peer # None THEN ui.hover ELSE n
  <2>2. o \in PlaceSet \cup {None}
    BY DEF PlaceSet
  <2>3. h \in NetOrNone
    BY DEF UiSet, NetOrNone
  <2>4. ui' = [ui EXCEPT !.over = o, !.hover = h]
    BY <2>1
  <2> HIDE DEF o, h
  <2>5. QED
    BY <2>2, <2>3, <2>4 DEF UiSet, Stays
<1>2. CASE SegmentLeave
  BY <1>2 DEF SegmentLeave, UiSet, Stays, NetOrNone
<1>3. CASE SegmentClick
  <2> DEFINE n == ui.over.segment
             v == DismissRect(ui)
             a == [v EXCEPT !.net = None]
             b == [v EXCEPT !.net = n]
  <2>1. n \in Nets
    BY <1>3, OverType DEF SegmentClick
  <2>2. v \in UiSet /\ SameMode(ui, v)
    BY DismissRectType
  <2> HIDE DEF n, v
  <2>3. a \in UiSet /\ a.mode = ui.mode /\ a.entry = ui.entry
    BY <2>2 DEF UiSet, SameMode, NetOrNone
  <2>4. b \in UiSet /\ b.mode = ui.mode /\ b.entry = ui.entry
    BY <2>1, <2>2 DEF UiSet, SameMode, NetOrNone
  <2> HIDE DEF a, b
  <2>5. Stays(UpdatePrivateNetUI(ClosePanel(a)))
    BY <2>3, ClosePanelType, UpdatePrivateNetUIType DEF SameMode, Stays
  <2>6. Stays(UpdatePrivateNetUI(OpenDetailPanel(b, n)))
    BY <2>1, <2>4, OpenDetailPanelType, UpdatePrivateNetUIType DEF SameMode, Stays, NetOrNone
  <2>7. QED
    BY <1>3, <2>5, <2>6 DEF SegmentClick, a, b, n, v
<1>4. QED
  BY <1>1, <1>2, <1>3

LEMMA DonutSteps ==
  ASSUME TypeOK, CenterClick \/ RectClose
  PROVE  Stays(ui')
<1> USE DEF TypeOK
<1>1. CASE CenterClick
  <2> DEFINE v == IF ui.peer # None THEN ClosePopup(DeselectPeer(ui)) ELSE ui
  <2>1. Stays(v)
    BY DeselectPeerType, ClosePopupType DEF SameMode, Stays
  <2>2. ui' = UpdatePrivateNetUI(OpenOverviewPanel(v))
    BY <1>1 DEF CenterClick
  <2> HIDE DEF v
  <2>3. QED
    BY <2>1, <2>2, OpenOverviewPanelType, UpdatePrivateNetUIType DEF SameMode, Stays
<1>2. CASE RectClose
  BY <1>2, HideRectType, ClearInsightType DEF RectClose, SameMode, Stays
<1>3. QED
  BY <1>1, <1>2

LEMMA RowIdsType == TypeOK => RowIds \subseteq SUBSET Peers
BY DEF TypeOK, UiSet, RowIds, NetPeers

LEMMA RowSteps ==
  ASSUME TypeOK, RowEnter \/ RowLeave \/ RowClick \/ BodyClick
  PROVE  Stays(ui')
<1> USE DEF TypeOK
<1>1. CASE RowEnter
  <2>1. PICK ids \in RowIds \ {{}} :
          LET v == [ui EXCEPT !.over = [row |-> ids]] IN
          ui' = IF Pinned(v) \/ v.insight # None THEN v
                ELSE [v EXCEPT !.preview = ids,
                        !.tip = [ids |-> ids, pinned |-> FALSE, live |-> TRUE]]
    BY <1>1 DEF RowEnter
  <2> DEFINE v == [ui EXCEPT !.over = [row |-> ids]]
             tip == [ids |-> ids, pinned |-> FALSE, live |-> TRUE]
  <2>2. ids \in SUBSET Peers
    BY RowIdsType
  <2>3. [row |-> ids] \in PlaceSet \cup {None}
    BY <2>2 DEF PlaceSet
  <2>4. Stays(v)
    BY <2>3 DEF UiSet, Stays
  <2>5. ids \in IdsOrNone /\ tip \in TipSet
    BY <2>2 DEF IdsOrNone, TipSet
  <2>6. ui' = v \/ ui' = [v EXCEPT !.preview = ids, !.tip = tip]
    BY <2>1
  <2> HIDE DEF v, tip
  <2>7. Stays([v EXCEPT !.preview = ids, !.tip = tip])
    BY <2>4, <2>5 DEF UiSet, Stays
  <2>8. QED
    BY <2>4, <2>6, <2>7
<1>2. CASE RowLeave
  <2>1. Stays([ui EXCEPT !.over = None])
    BY DEF UiSet, Stays
  <2>2. QED
    BY <1>2, <2>1, HideSubTooltipType DEF RowLeave, SameMode, Stays
<1>3. CASE RowClick
  <2> DEFINE v == DismissRect(ui)
             ids == ui.over.row
             tip == [ids |-> ids, pinned |-> TRUE, live |-> TRUE]
  <2>1. ids \in SUBSET Peers
    BY <1>3, OverType DEF RowClick
  <2>2. Stays(v)
    BY DismissRectType DEF SameMode, Stays
  <2>3. ids \in IdsOrNone /\ tip \in TipSet
    BY <2>1 DEF IdsOrNone, TipSet
  <2>4. ui' = HideSubTooltip(v) \/ ui' = [v EXCEPT !.preview = ids, !.tip = tip]
    BY <1>3 DEF RowClick
  <2> HIDE DEF v, ids, tip
  <2>5. Stays(HideSubTooltip(v))
    BY <2>2, HideSubTooltipType DEF SameMode, Stays
  <2>6. Stays([v EXCEPT !.preview = ids, !.tip = tip])
    BY <2>2, <2>3 DEF UiSet, Stays
  <2>7. QED
    BY <2>4, <2>5, <2>6
<1>4. CASE BodyClick
  BY <1>4, HideSubTooltipType DEF BodyClick, SameMode, Stays
<1>5. QED
  BY <1>1, <1>2, <1>3, <1>4

LEMMA InsightSteps ==
  ASSUME TypeOK, InsightEnter \/ InsightLeave \/ InsightClick
  PROVE  Stays(ui')
<1> USE DEF TypeOK
<1>1. CASE InsightEnter
  <2>1. PICK i \in InsightSet :
          LET v == [ui EXCEPT !.over = [insight |-> i]] IN
          ui' = v \/ ui' = [v EXCEPT !.rect = TRUE, !.preview = {i.peer}, !.line = i.peer]
    BY <1>1 DEF InsightEnter
  <2> DEFINE v == [ui EXCEPT !.over = [insight |-> i]]
             p == i.peer
  <2>2. [insight |-> i] \in PlaceSet \cup {None}
    BY DEF PlaceSet
  <2>3. Stays(v)
    BY <2>2 DEF UiSet, Stays
  <2>4. {p} \in IdsOrNone /\ p \in PeerOrNone
    BY DEF InsightSet, IdsOrNone, PeerOrNone
  <2>5. ui' = v \/ ui' = [v EXCEPT !.rect = TRUE, !.preview = {p}, !.line = p]
    BY <2>1
  <2> HIDE DEF v, p
  <2>6. QED
    BY <2>3, <2>4, <2>5 DEF UiSet, Stays
<1>2. CASE InsightLeave
  <2> DEFINE v == [ui EXCEPT !.over = None]
             w == HideRect(v)
  <2>1. Stays(v)
    BY DEF UiSet, Stays
  <2>2. ui' = v \/ ui' = [w EXCEPT !.preview = None, !.line = None]
    BY <1>2 DEF InsightLeave
  <2>3. Stays(w)
    BY <2>1, HideRectType DEF SameMode, Stays
  <2>4. None \in IdsOrNone /\ None \in PeerOrNone
    BY DEF IdsOrNone, PeerOrNone
  <2> HIDE DEF v, w
  <2>5. Stays([w EXCEPT !.preview = None, !.line = None])
    BY <2>3, <2>4 DEF UiSet, Stays
  <2>6. QED
    BY <2>1, <2>2, <2>5
<1>3. CASE InsightClick
  <2> DEFINE i == ui.over.insight
             p == i.peer
             v == [ui EXCEPT !.insight = i, !.rect = TRUE, !.line = p, !.preview = {p}]
  <2>1. i \in InsightSet
    BY <1>3, OverType DEF InsightClick
  <2>2. p \in Peers
    BY <2>1 DEF InsightSet
  <2>3. \/ ui' = ClearInsight(HideRect(ui)) \/ ui' = ui \/ ui' = SelectPrivatePeer(v, p)
    BY <1>3 DEF InsightClick
  <2> HIDE DEF i, p
  <2>4. Stays(v)
    BY <2>1, <2>2 DEF UiSet, Stays, PeerOrNone, IdsOrNone
  <2> HIDE DEF v
  <2>5. QED
    BY <2>2, <2>3, <2>4, HideRectType, ClearInsightType, SelectPrivatePeerType
    DEF SameMode, Stays
<1>4. QED
  BY <1>1, <1>2, <1>3

LEMMA PanelSteps ==
  ASSUME TypeOK, Back \/ (Chip /\ ui.mode)
  PROVE  Stays(ui')
<1> USE DEF TypeOK
<1>1. None \in NetOrNone /\ Nets \subseteq NetOrNone
  BY DEF NetOrNone
<1>2. ASSUME NEW n \in NetOrNone
      PROVE  Stays([ui EXCEPT !.net = n])
  BY <1>2 DEF UiSet, Stays
<1>3. CASE Back
  <2> DEFINE v == [ui EXCEPT !.net = None]
  <2>1. Stays(v)
    BY <1>1, <1>2
  <2>2. ui' = UpdatePrivateNetUI(UpdatePanel(HideSubTooltip(v), None))
    BY <1>3 DEF Back
  <2> HIDE DEF v
  <2>3. Stays(HideSubTooltip(v))
    BY <2>1, HideSubTooltipType DEF SameMode, Stays
  <2>4. Stays(UpdatePanel(HideSubTooltip(v), None))
    BY <1>1, <2>3, UpdatePanelType DEF SameMode, Stays
  <2>5. QED
    BY <2>2, <2>4, UpdatePrivateNetUIType DEF SameMode, Stays
<1>4. CASE Chip /\ ui.mode
  <2>1. PICK n \in Nets :
          ui' = UpdatePrivateNetUI(OpenDetailPanel([ui EXCEPT !.net = n], n))
    BY <1>4 DEF Chip
  <2> DEFINE v == [ui EXCEPT !.net = n]
  <2>2. Stays(v)
    BY <1>1, <1>2
  <2> HIDE DEF v
  <2>3. n \in NetOrNone
    BY <1>1
  <2>4. Stays(OpenDetailPanel(v, n))
    BY <2>2, <2>3, OpenDetailPanelType DEF SameMode, Stays
  <2>5. ui' = UpdatePrivateNetUI(OpenDetailPanel(v, n))
    BY <2>1 DEF v
  <2>6. QED
    BY <2>4, <2>5, UpdatePrivateNetUIType DEF SameMode, Stays
<1>5. QED
  BY <1>3, <1>4

LEMMA TipSteps ==
  ASSUME TypeOK, TipEnter \/ TipLeave \/ TipClick
  PROVE  Stays(ui')
<1> USE DEF TypeOK
<1>1. CASE TipEnter
  <2>1. PICK p \in ui.tip.ids :
          ui' = [ui EXCEPT !.over = [tip |-> p], !.preview = {p},
                           !.saved = IF @ = None THEN ui.preview ELSE @]
    BY <1>1 DEF TipEnter
  <2>2. p \in Peers
    BY <1>1, <2>1, TipType DEF TipEnter
  <2>3. [tip |-> p] \in PlaceSet \cup {None} /\ {p} \in IdsOrNone
    BY <2>2 DEF PlaceSet, IdsOrNone
  <2>4. QED
    BY <2>1, <2>3 DEF UiSet, Stays
<1>2. CASE TipLeave
  <2>1. None \in IdsOrNone
    BY DEF IdsOrNone
  <2>2. QED
    BY <1>2, <2>1 DEF TipLeave, UiSet, Stays
<1>3. CASE TipClick
  BY <1>3, OverType, SelectPrivatePeerType DEF TipClick, SameMode, Stays
<1>4. QED
  BY <1>1, <1>2, <1>3

LEMMA MapSteps ==
  ASSUME TypeOK, DotClick \/ SeaClick \/ ListClick \/ ListClose \/ PopupClose
  PROVE  Stays(ui')
<1> USE DEF TypeOK
<1>1. CASE DotClick
  <2>1. PICK G \in (SUBSET ui.peers) \ {{}} :
          \/ ui' = [ui EXCEPT !.group = G, !.list = TRUE]
          \/ ui' = SelectPrivatePeer(ui, CHOOSE p \in G : TRUE)
    BY <1>1 DEF DotClick
  <2>2. G \in IdsOrNone /\ (CHOOSE p \in G : TRUE) \in Peers
    BY DEF UiSet, IdsOrNone
  <2>3. Stays([ui EXCEPT !.group = G, !.list = TRUE])
    BY <2>2 DEF UiSet, Stays
  <2>4. QED
    BY <2>1, <2>2, <2>3, SelectPrivatePeerType DEF SameMode, Stays
<1>2. CASE SeaClick
  <2> DEFINE a == DeselectPeer(ui)
             b == [a EXCEPT !.list = FALSE]
  <2>1. Stays(a)
    BY DeselectPeerType DEF SameMode, Stays
  <2> HIDE DEF a
  <2>2. Stays(b)
    BY <2>1 DEF UiSet, Stays
  <2>3. ui' = UpdatePrivateNetUI(DismissRect(HideSubTooltip(ClosePopup(b))))
    BY <1>2 DEF SeaClick, a
  <2> HIDE DEF b
  <2>4. QED
    BY <2>2, <2>3, ClosePopupType, HideSubTooltipType, DismissRectType,
       UpdatePrivateNetUIType DEF SameMode, Stays
<1>3. CASE ListClick
  <2>1. PICK p \in ui.group : ui' = SelectPrivatePeer([ui EXCEPT !.list = FALSE], p)
    BY <1>3 DEF ListClick
  <2> DEFINE v == [ui EXCEPT !.list = FALSE]
  <2>2. Stays(v)
    BY DEF UiSet, Stays
  <2>3. CASE p \in Peers
    BY <2>1, <2>2, <2>3, SelectPrivatePeerType DEF SameMode, Stays
  <2>4. CASE p \notin Peers
    <3>1. p \notin v.peers
      BY <2>4, <2>2 DEF UiSet, Stays
    <3>2. QED
      BY <2>1, <2>2, <3>1 DEF SelectPrivatePeer
  <2>5. QED
    BY <2>3, <2>4
<1>4. CASE ListClose
  <2>1. None \in IdsOrNone
    BY DEF IdsOrNone
  <2>2. QED
    BY <1>4, <2>1 DEF ListClose, UiSet, Stays
<1>5. CASE PopupClose
  BY <1>5, ClosePopupType, DeselectPeerType, UpdatePrivateNetUIType
  DEF PopupClose, SameMode, Stays
<1>6. QED
  BY <1>1, <1>2, <1>3, <1>4, <1>5

LEMMA TimerSteps ==
  ASSUME TypeOK, PopupTimer \/ HideTimer
  PROVE  Stays(ui')
<1> USE DEF TypeOK
<1>1. CASE PopupTimer
  <2>1. PICK p \in ui.coming :
          ui' = [ui EXCEPT !.coming = @ \ {p},
                           !.popup = IF p \in ui.peers THEN p ELSE None]
    BY <1>1 DEF PopupTimer
  <2>2. (IF p \in ui.peers THEN p ELSE None) \in PeerOrNone
    BY DEF UiSet, PeerOrNone
  <2>3. QED
    BY <2>1, <2>2 DEF UiSet, Stays
<1>2. CASE HideTimer
  <2>1. PICK x \in ui.hides : \E more \in SUBSET {x} :
          ui' = [ui EXCEPT !.hides = (@ \ {x}) \cup more, !.hidden = @ \cup {x}]
    BY <1>2 DEF HideTimer
  <2>2. PICK more \in SUBSET {x} :
          ui' = [ui EXCEPT !.hides = (ui.hides \ {x}) \cup more,
                           !.hidden = ui.hidden \cup {x}]
    BY <2>1
  <2> DEFINE h == (ui.hides \ {x}) \cup more
             d == ui.hidden \cup {x}
  <2>3. h \in SUBSET Parts /\ d \in SUBSET Parts
    BY DEF UiSet
  <2> HIDE DEF h, d
  <2>4. ui' = [ui EXCEPT !.hides = h, !.hidden = d]
    BY <2>2 DEF h, d
  <2>5. QED
    BY <2>3, <2>4 DEF UiSet, Stays
<1>3. QED
  BY <1>1, <1>2

-----------------------------------------------------------------------------
(***************************************************************************)
(* The steps that enter, leave or go on with an entry.                     *)
(***************************************************************************)
LEMMA WithoutType ==
  ASSUME NEW s \in Seq(StepSet), NEW i \in 1..Len(s)
  PROVE  /\ Without(s, i) \in Seq(StepSet) /\ Len(Without(s, i)) = Len(s) - 1
         /\ \A j \in 1..Len(s) : j < i => Without(s, i)[j] = s[j]
         /\ \A j \in 1..Len(s) : i < j => Without(s, i)[j - 1] = s[j]
<1> DEFINE m == Len(s) - 1
           w == [j \in 1..m |-> IF j < i THEN s[j] ELSE s[j + 1]]
<1>1. Len(s) \in Nat /\ m \in Nat /\ i \in Nat
  OBVIOUS
<1>2. \A j \in 1..m : (IF j < i THEN s[j] ELSE s[j + 1]) \in StepSet
  BY <1>1
<1>3. w \in [1..m -> StepSet]
  BY <1>2
<1>4. w \in Seq(StepSet)
  BY <1>1, <1>3, SeqDef
<1>5. Len(w) = m
  BY <1>1, <1>3, <1>4, LenProperties
<1>6. \A j \in 1..Len(s) : (j < i => w[j] = s[j]) /\ (i < j => w[j - 1] = s[j])
  BY <1>1
<1>7. Without(s, i) = w
  BY DEF Without
<1> HIDE DEF w
<1>8. QED
  BY <1>4, <1>5, <1>6, <1>7

\* What a timer of an entry does: one of the steps that are due.
LEMMA EntryStep ==
  ASSUME TypeOK, EntryTimer
  PROVE  \E i \in 1..Len(ui.entry) :
           LET step == ui.entry[i]
               v    == [ui EXCEPT !.entry = Without(ui.entry, i)]
           IN  /\ step \in StepSet /\ v \in UiSet
               /\ ui' = IF step.do = "select" THEN SelectPrivatePeer(v, step.of)
                        ELSE IF step.of = None THEN OpenOverviewPanel(v)
                        ELSE OpenDetailPanel(v, step.of)
<1>1. ui \in UiSet /\ ui.entry \in Seq(StepSet)
  BY DEF TypeOK, UiSet
<1>2. PICK i \in 1..Len(ui.entry) :
        LET step == ui.entry[i]
            v    == [ui EXCEPT !.entry = Without(ui.entry, i)]
        IN  ui' = IF step.do = "select" THEN SelectPrivatePeer(v, step.of)
                  ELSE IF step.of = None THEN OpenOverviewPanel(v)
                  ELSE OpenDetailPanel(v, step.of)
  BY DEF EntryTimer
<1>3. ui.entry[i] \in StepSet
  BY <1>1
<1> DEFINE rest == Without(ui.entry, i)
<1>4. rest \in Seq(StepSet)
  BY <1>1, WithoutType
<1> HIDE DEF rest
<1>5. [ui EXCEPT !.entry = rest] \in UiSet
  BY <1>1, <1>4 DEF UiSet
<1>6. QED
  BY <1>2, <1>3, <1>5 DEF rest

LEMMA EntrySteps ==
  ASSUME TypeOK, EntryTimer
  PROVE  ui' \in UiSet /\ ui'.mode = ui.mode
<1>1. PICK i \in 1..Len(ui.entry) :
        LET step == ui.entry[i]
            v    == [ui EXCEPT !.entry = Without(ui.entry, i)]
        IN  /\ step \in StepSet /\ v \in UiSet
            /\ ui' = IF step.do = "select" THEN SelectPrivatePeer(v, step.of)
                     ELSE IF step.of = None THEN OpenOverviewPanel(v)
                     ELSE OpenDetailPanel(v, step.of)
  BY EntryStep
<1> DEFINE step == ui.entry[i]
           v    == [ui EXCEPT !.entry = Without(ui.entry, i)]
<1>2. v.mode = ui.mode
  BY DEF TypeOK, UiSet
<1>3. /\ step \in StepSet /\ v \in UiSet
      /\ ui' = IF step.do = "select" THEN SelectPrivatePeer(v, step.of)
               ELSE IF step.of = None THEN OpenOverviewPanel(v)
               ELSE OpenDetailPanel(v, step.of)
  BY <1>1
<1> HIDE DEF step, v
<1>4. CASE step.do = "select"
  <2>1. step.of \in Peers
    BY <1>3, <1>4 DEF StepSet
  <2>2. QED
    BY <1>2, <1>3, <1>4, <2>1, SelectPrivatePeerType DEF SameMode
<1>5. CASE step.do # "select"
  <2>1. step.of \in NetOrNone
    BY <1>3, <1>5 DEF StepSet
  <2>2. QED
    BY <1>2, <1>3, <1>5, <2>1, OpenOverviewPanelType, OpenDetailPanelType
    DEF SameMode
<1>6. QED
  BY <1>4, <1>5

\* An entry, in the mode or from outside, ends in the mode.
LEMMA EnterSteps ==
  ASSUME TypeOK, EnterWithPeer \/ EnterWithNet \/ (Chip /\ ~ui.mode)
  PROVE  ui' \in UiSet /\ ui'.mode
<1> USE DEF TypeOK
<1>1. ASSUME NEW p \in PeerOrNone, NEW n \in NetOrNone
      PROVE  EnterPrivateNetMode(ui, p, n) \in UiSet /\ EnterPrivateNetMode(ui, p, n).mode
  <2>1. CASE ui.mode
    BY <2>1, EnterAgainType DEF SameMode
  <2>2. CASE ~ui.mode
    BY <2>2, EnterType
  <2>3. ui.mode \in BOOLEAN
    BY DEF UiSet
  <2>4. QED
    BY <2>1, <2>2, <2>3
<1>2. \E p \in PeerOrNone, n \in NetOrNone : ui' = EnterPrivateNetMode(ui, p, n)
  <2>1. CASE EnterWithPeer
    BY <2>1 DEF EnterWithPeer, UiSet, PeerOrNone, NetOrNone
  <2>2. CASE EnterWithNet
    BY <2>2 DEF EnterWithNet, PeerOrNone
  <2>3. CASE Chip /\ ~ui.mode
    BY <2>3 DEF Chip, PeerOrNone, NetOrNone
  <2>4. QED
    BY <2>1, <2>2, <2>3
<1>3. QED
  BY <1>1, <1>2

\* A poll changes the peers, and may be an entry.
LEMMA PollSteps ==
  ASSUME TypeOK, Poll
  PROVE  /\ ui' \in UiSet
         /\ ui.mode => ui'.mode
         /\ ~ui'.mode => \E P \in SUBSET Peers : ui' = [ui EXCEPT !.peers = P]
<1> USE DEF TypeOK
<1>1. PICK P \in SUBSET Peers :
        LET v == UpdatePrivateNetUI([ui EXCEPT !.peers = P])
        IN  ui' = v \/ (~ui.mode /\ ui' = EnterPrivateNetMode(v, None, None))
  BY PrivateNetAssumption DEF Poll
<1> DEFINE u == [ui EXCEPT !.peers = P]
           v == UpdatePrivateNetUI(u)
<1>2. u \in UiSet /\ u.mode = ui.mode
  BY DEF UiSet
<1>3. ui' = v \/ (~ui.mode /\ ui' = EnterPrivateNetMode(v, None, None))
  BY <1>1
<1> HIDE DEF u
<1>4. v \in UiSet /\ v.mode = ui.mode
  BY <1>2, UpdatePrivateNetUIType DEF SameMode
<1>5. CASE ui' = v
  <2>1. ~v.mode => ui' = u
    BY <1>2, <1>4, <1>5 DEF UpdatePrivateNetUI
  <2>2. QED
    BY <1>4, <1>5, <2>1 DEF u
<1>6. CASE ~ui.mode /\ ui' = EnterPrivateNetMode(v, None, None)
  <2>1. None \in PeerOrNone /\ None \in NetOrNone /\ ~v.mode
    BY <1>4, <1>6 DEF PeerOrNone, NetOrNone
  <2> HIDE DEF v
  <2>2. QED
    BY <1>4, <1>6, <2>1, EnterType
<1>7. QED
  BY <1>3, <1>5, <1>6

LEMMA ExitSteps ==
  ASSUME TypeOK, Exit
  PROVE  ui' \in UiSet /\ ~ui'.mode /\ Nothing(ui') /\ ui'.saved = None
         /\ ui'.entry = ui.entry /\ ui'.hides = Parts
BY ExitType DEF TypeOK, Exit, Inside

-----------------------------------------------------------------------------
(***************************************************************************)
(* The theorems.                                                           *)
(***************************************************************************)
Staying ==
  \/ Pointer \/ SegmentClick \/ CenterClick \/ RectClose \/ RowClick \/ BodyClick
  \/ InsightClick \/ Back \/ (Chip /\ ui.mode) \/ TipClick \/ DotClick \/ SeaClick
  \/ ListClick \/ ListClose \/ PopupClose \/ PopupTimer \/ HideTimer
Entering == EnterWithPeer \/ EnterWithNet \/ (Chip /\ ~ui.mode)

LEMMA Cases ==
  Next <=> Staying \/ Entering \/ Exit \/ Poll \/ EntryTimer
BY DEF Next, Input, Timer, Staying, Entering

LEMMA StayingSteps == TypeOK /\ Staying => Stays(ui')
BY SegmentSteps, DonutSteps, RowSteps, InsightSteps, PanelSteps, TipSteps, MapSteps,
   TimerSteps
DEF Staying, Pointer

LEMMA InitType == Init => TypeOK /\ Nothing(ui) /\ ui.saved = None /\ ui.entry = <<>>
<1>1. <<>> \in Seq(StepSet)
  OBVIOUS
<1>2. QED
  BY <1>1 DEF Init, TypeOK, UiSet, Nothing, PeerOrNone, NetOrNone, IdsOrNone

(* Every field of the interface stays in its domain, whatever the user,    *)
(* the poll and the timers do and in whatever order.                       *)
THEOREM TypeCorrect == Spec => []TypeOK
<1>1. Init => TypeOK
  BY InitType
<1>2. TypeOK /\ [Next]_ui => TypeOK'
  <2> SUFFICES ASSUME TypeOK, [Next]_ui PROVE TypeOK'
    OBVIOUS
  <2>1. CASE Staying
    BY <2>1, StayingSteps DEF Stays, TypeOK
  <2>2. CASE Entering
    BY <2>2, EnterSteps DEF Entering, TypeOK
  <2>3. CASE Exit
    BY <2>3, ExitSteps DEF TypeOK
  <2>4. CASE Poll
    BY <2>4, PollSteps DEF TypeOK
  <2>5. CASE EntryTimer
    BY <2>5, EntrySteps DEF TypeOK
  <2>6. CASE UNCHANGED ui
    BY <2>6 DEF TypeOK
  <2>7. QED
    BY <2>1, <2>2, <2>3, <2>4, <2>5, <2>6, Cases
<1>3. QED
  BY <1>1, <1>2, PTL DEF Spec

-----------------------------------------------------------------------------
(***************************************************************************)
(* The popup.  Every operator but SelectPrivatePeer takes away from the    *)
(* selection, the popup and what is on its way, and adds nothing.          *)
(***************************************************************************)
Less(u, v) ==
  /\ v.peer \in {u.peer, None} /\ v.popup \in {u.popup, None} /\ v.coming \subseteq u.coming

PopupOk(u) == u.peer # None => u.coming \cup {u.popup} \subseteq {u.peer, None}

LEMMA LessIsOk ==
  ASSUME NEW u, NEW v, Less(u, v), PopupOk(u)
  PROVE  PopupOk(v)
BY DEF Less, PopupOk

LEMMA LessOfLess ==
  ASSUME NEW u, NEW v, NEW w, Less(u, v), Less(v, w)
  PROVE  Less(u, w)
BY DEF Less

LEMMA PanelLess ==
  ASSUME NEW u \in UiSet, NEW n \in NetOrNone
  PROVE  /\ Less(u, RenderDonut(u)) /\ Less(u, UpdatePanel(u, n))
         /\ Less(u, RefreshPanel(u)) /\ Less(u, RestoreInsight(u))
         /\ Less(u, OpenDetailPanel(u, n)) /\ Less(u, ClosePanel(u))
<1>1. Less(u, RenderDonut(u)) /\ Less(u, UpdatePanel(u, n)) /\ Less(u, RefreshPanel(u))
  BY DEF UiSet, Less, RenderDonut, UpdatePanel, RefreshPanel
<1>2. Less(u, RestoreInsight(u))
  BY DEF UiSet, Less, RestoreInsight
<1>3. Less(u, OpenDetailPanel(u, n))
  BY DEF UiSet, Less, OpenDetailPanel, UpdatePanel
<1>4. Less(u, ClosePanel(u))
  BY DEF UiSet, Less, ClosePanel, HideSubTooltip
<1>5. QED
  BY <1>1, <1>2, <1>3, <1>4

LEMMA OverviewLess ==
  ASSUME NEW u \in UiSet
  PROVE  Less(u, OpenOverviewPanel(u))
BY DEF UiSet, Less, OpenOverviewPanel, OpenDetailPanel, UpdatePanel

LEMMA ClearLess ==
  ASSUME NEW u \in UiSet
  PROVE  /\ Less(u, HideSubTooltip(u)) /\ Less(u, HideRect(u)) /\ Less(u, ClearInsight(u))
         /\ Less(u, DismissRect(u)) /\ Less(u, ClosePopup(u)) /\ Less(u, DeselectPeer(u))
<1>1. Less(u, HideSubTooltip(u)) /\ Less(u, HideRect(u)) /\ Less(u, ClosePopup(u))
      /\ Less(u, DeselectPeer(u))
  BY DEF UiSet, Less, HideSubTooltip, HideRect, ClosePopup, DeselectPeer
<1>2. Less(u, ClearInsight(u))
  BY DEF UiSet, Less, ClearInsight, RenderDonut
<1>3. Less(u, DismissRect(u))
  BY DEF UiSet, Less, DismissRect, HideRect, ClearInsight, RenderDonut
<1>4. QED
  BY <1>1, <1>2, <1>3

LEMMA RefreshLess ==
  ASSUME NEW u \in UiSet
  PROVE  Less(u, UpdatePrivateNetUI(u))
<1> DEFINE v == RenderDonut(u)
           w == RefreshPanel(v)
<1>1. None \in NetOrNone
  BY DEF NetOrNone
<1>2. v \in UiSet /\ Less(u, v)
  BY <1>1, RenderDonutType, PanelLess
<1> HIDE DEF v
<1>3. w \in UiSet /\ Less(v, w)
  BY <1>1, <1>2, RefreshPanelType, PanelLess
<1> HIDE DEF w
<1>4. Less(w, RestoreInsight(w))
  BY <1>1, <1>3, PanelLess
<1>5. Less(u, RestoreInsight(w))
  BY <1>2, <1>3, <1>4, LessOfLess
<1>6. Less(u, u)
  BY DEF UiSet, Less
<1>7. QED
  BY <1>5, <1>6 DEF UpdatePrivateNetUI, v, w

LEMMA SelectIsOk ==
  ASSUME NEW u \in UiSet, NEW p \in Peers, PopupOk(u)
  PROVE  PopupOk(SelectPrivatePeer(u, p))
<1> DEFINE a == [u EXCEPT !.peer = p, !.line = p, !.list = FALSE]
           v == HideSubTooltip(a)
           w == IF InsightPeer(v) # p THEN DismissRect(v) ELSE v
           x == [w EXCEPT !.popup = None, !.coming = {p}]
<1>1. a \in UiSet /\ a.peer = p
  BY DEF UiSet, PeerOrNone
<1> HIDE DEF a
<1>2. v \in UiSet /\ v.peer = p
  BY <1>1, HideSubTooltipType DEF UiSet, HideSubTooltip
<1> HIDE DEF v
<1>3. w \in UiSet /\ w.peer \in {p, None}
  <2>1. Less(v, DismissRect(v)) /\ DismissRect(v) \in UiSet
    BY <1>2, ClearLess, DismissRectType
  <2>2. QED
    BY <1>2, <2>1 DEF Less
<1> HIDE DEF w
<1>4. x \in UiSet /\ PopupOk(x)
  <2>1. {p} \in SUBSET Peers /\ None \in PeerOrNone
    BY DEF PeerOrNone
  <2>2. x \in UiSet
    BY <1>3, <2>1 DEF UiSet
  <2>3. x.peer = w.peer /\ x.popup = None /\ x.coming = {p}
    BY <1>3 DEF UiSet
  <2>4. QED
    BY <1>3, <2>2, <2>3 DEF PopupOk
<1> HIDE DEF x
<1>5. PopupOk(UpdatePrivateNetUI(x))
  BY <1>4, RefreshLess, LessIsOk
<1>6. CASE p \notin u.peers
  BY <1>6 DEF SelectPrivatePeer
<1>7. CASE p \in u.peers
  <2>1. SelectPrivatePeer(u, p) = UpdatePrivateNetUI(x)
    BY <1>7 DEF SelectPrivatePeer, x, w, v, a
  <2>2. QED
    BY <1>5, <2>1
<1>8. QED
  BY <1>6, <1>7

LEMMA EnterIsOk ==
  ASSUME NEW u \in UiSet, NEW p \in PeerOrNone, NEW n \in NetOrNone, PopupOk(u)
  PROVE  PopupOk(EnterPrivateNetMode(u, p, n))
<1>1. CASE u.mode
  BY <1>1, SelectIsOk DEF EnterPrivateNetMode, Truthy, PeerOrNone
<1>2. CASE ~u.mode
  <2> DEFINE a == [u EXCEPT !.mode = TRUE, !.net = n, !.list = FALSE, !.group = None,
                            !.box = TRUE, !.hidden = @ \ {"box"}]
             v == HideSubTooltip(a)
             w == UpdatePrivateNetUI(v)
  <2>1. a \in UiSet /\ PopupOk(a)
    <3>1. None \in IdsOrNone
      BY DEF IdsOrNone
    <3>2. a \in UiSet
      BY <3>1 DEF UiSet
    <3>3. a.peer = u.peer /\ a.popup = u.popup /\ a.coming = u.coming
      BY DEF UiSet
    <3>4. QED
      BY <3>2, <3>3 DEF PopupOk
  <2> HIDE DEF a
  <2>2. v \in UiSet /\ PopupOk(v)
    BY <2>1, HideSubTooltipType, ClearLess, LessIsOk
  <2> HIDE DEF v
  <2>3. w \in UiSet /\ PopupOk(w)
    BY <2>2, UpdatePrivateNetUIType, RefreshLess, LessIsOk
  <2>4. \E s : EnterPrivateNetMode(u, p, n) = [w EXCEPT !.entry = s]
    BY <1>2 DEF EnterPrivateNetMode, w, v, a
  <2> HIDE DEF w
  <2>5. PICK s : EnterPrivateNetMode(u, p, n) = [w EXCEPT !.entry = s]
    BY <2>4
  <2>6. QED
    BY <2>3, <2>5 DEF UiSet, PopupOk
<1>3. QED
  BY <1>1, <1>2

Fine(u) == u \in UiSet /\ PopupOk(u)

LEMMA FineOperators ==
  ASSUME NEW u, Fine(u), NEW n \in NetOrNone
  PROVE  /\ Fine(UpdatePanel(u, n)) /\ Fine(OpenDetailPanel(u, n)) /\ Fine(ClosePanel(u))
         /\ Fine(OpenOverviewPanel(u)) /\ Fine(UpdatePrivateNetUI(u))
         /\ Fine(HideSubTooltip(u)) /\ Fine(HideRect(u)) /\ Fine(ClearInsight(u))
         /\ Fine(DismissRect(u)) /\ Fine(ClosePopup(u)) /\ Fine(DeselectPeer(u))
<1> USE DEF Fine
<1>1. Fine(UpdatePanel(u, n)) /\ Fine(OpenDetailPanel(u, n)) /\ Fine(ClosePanel(u))
  BY PanelLess, LessIsOk, UpdatePanelType, OpenDetailPanelType, ClosePanelType
<1>2. Fine(OpenOverviewPanel(u)) /\ Fine(UpdatePrivateNetUI(u))
  BY OverviewLess, RefreshLess, LessIsOk, OpenOverviewPanelType, UpdatePrivateNetUIType
<1>3. Fine(HideSubTooltip(u)) /\ Fine(HideRect(u)) /\ Fine(ClearInsight(u))
  BY ClearLess, LessIsOk, HideSubTooltipType, HideRectType, ClearInsightType
<1>4. Fine(DismissRect(u)) /\ Fine(ClosePopup(u)) /\ Fine(DeselectPeer(u))
  BY ClearLess, LessIsOk, DismissRectType, ClosePopupType, DeselectPeerType
<1>5. QED
  BY <1>1, <1>2, <1>3, <1>4

LEMMA FineAgain ==
  ASSUME NEW u, Fine(u), NEW v \in UiSet,
         v.peer = u.peer, v.popup = u.popup, v.coming = u.coming
  PROVE  Fine(v)
BY DEF Fine, PopupOk

\* What the pointer does never concerns the popup.
LEMMA PointerIsFine ==
  ASSUME Fine(ui), TypeOK', Pointer
  PROVE  Fine(ui')
<1>1. ui \in UiSet /\ ui' \in UiSet
  BY DEF Fine, TypeOK
<1>2. ui'.peer = ui.peer /\ ui'.popup = ui.popup /\ ui'.coming = ui.coming
  <2>1. CASE SegmentHover \/ SegmentLeave
    BY <1>1, <2>1 DEF UiSet, SegmentHover, SegmentLeave
  <2>2. CASE RowEnter \/ RowLeave
    <3>1. CASE RowEnter
      BY <1>1, <3>1 DEF UiSet, RowEnter
    <3>2. CASE RowLeave
      <4>1. \/ ui' = [ui EXCEPT !.over = None]
            \/ ui' = HideSubTooltip([ui EXCEPT !.over = None])
        BY <3>2 DEF RowLeave
      <4>2. QED
        BY <1>1, <4>1 DEF UiSet, HideSubTooltip
    <3>3. QED
      BY <2>2, <3>1, <3>2
  <2>3. CASE InsightEnter \/ InsightLeave
    <3>1. CASE InsightEnter
      <4>1. PICK i \in InsightSet :
              LET v == [ui EXCEPT !.over = [insight |-> i]] IN
              ui' = v \/ ui' = [v EXCEPT !.rect = TRUE, !.preview = {i.peer}, !.line = i.peer]
        BY <3>1 DEF InsightEnter
      <4>2. QED
        BY <1>1, <4>1 DEF UiSet
    <3>2. CASE InsightLeave
      <4> DEFINE v == [ui EXCEPT !.over = None]
      <4>1. ui' = v \/ ui' = [HideRect(v) EXCEPT !.preview = None, !.line = None]
        BY <3>2 DEF InsightLeave
      <4>2. QED
        BY <1>1, <4>1 DEF UiSet, HideRect
    <3>3. QED
      BY <2>3, <3>1, <3>2
  <2>4. CASE TipEnter \/ TipLeave
    BY <1>1, <2>4 DEF UiSet, TipEnter, TipLeave
  <2>5. QED
    BY <2>1, <2>2, <2>3, <2>4 DEF Pointer
<1>3. QED
  BY <1>1, <1>2, FineAgain

\* A choice of network, and what else leaves the selection as it is.
LEMMA NetIsFine ==
  ASSUME NEW u, Fine(u), NEW n \in NetOrNone
  PROVE  Fine([u EXCEPT !.net = n])
<1>1. [u EXCEPT !.net = n] \in UiSet
  BY DEF Fine, UiSet
<1>2. QED
  BY <1>1, FineAgain DEF Fine, UiSet

LEMMA PanelIsFine ==
  ASSUME Fine(ui), SegmentClick \/ CenterClick \/ RectClose \/ Back \/ (Chip /\ ui.mode)
  PROVE  Fine(ui')
<1>1. None \in NetOrNone /\ Nets \subseteq NetOrNone
  BY DEF NetOrNone
<1>2. CASE SegmentClick
  <2> DEFINE n == ui.over.segment
             v == DismissRect(ui)
             a == [v EXCEPT !.net = None]
             b == [v EXCEPT !.net = n]
  <2>1. n \in NetOrNone
    BY <1>1, <1>2, OverType DEF SegmentClick, Fine
  <2>2. Fine(v)
    BY <1>1, FineOperators
  <2>3. \/ ui' = UpdatePrivateNetUI(ClosePanel(a))
        \/ ui' = UpdatePrivateNetUI(OpenDetailPanel(b, n))
    BY <1>2 DEF SegmentClick
  <2> HIDE DEF n, v
  <2>4. Fine(a) /\ Fine(b)
    BY <1>1, <2>1, <2>2, NetIsFine
  <2> HIDE DEF a, b
  <2>5. QED
    BY <2>1, <2>3, <2>4, FineOperators
<1>3. CASE CenterClick
  <2> DEFINE v == IF ui.peer # None THEN ClosePopup(DeselectPeer(ui)) ELSE ui
  <2>1. Fine(v)
    BY <1>1, FineOperators
  <2>2. ui' = UpdatePrivateNetUI(OpenOverviewPanel(v))
    BY <1>3 DEF CenterClick
  <2> HIDE DEF v
  <2>3. QED
    BY <1>1, <2>1, <2>2, FineOperators
<1>4. CASE RectClose
  BY <1>1, <1>4, FineOperators DEF RectClose
<1>5. CASE Back
  <2> DEFINE v == [ui EXCEPT !.net = None]
  <2>1. ui' = UpdatePrivateNetUI(UpdatePanel(HideSubTooltip(v), None))
    BY <1>5 DEF Back
  <2>2. Fine(v)
    BY <1>1, NetIsFine
  <2> HIDE DEF v
  <2>3. QED
    BY <1>1, <2>1, <2>2, FineOperators
<1>6. CASE Chip /\ ui.mode
  <2>1. PICK n \in Nets :
          ui' = UpdatePrivateNetUI(OpenDetailPanel([ui EXCEPT !.net = n], n))
    BY <1>6 DEF Chip
  <2> DEFINE v == [ui EXCEPT !.net = n]
  <2>2. Fine(v)
    BY <1>1, NetIsFine
  <2> HIDE DEF v
  <2>3. QED
    BY <1>1, <2>1, <2>2, FineOperators DEF v
<1>7. QED
  BY <1>2, <1>3, <1>4, <1>5, <1>6

LEMMA RowIsFine ==
  ASSUME Fine(ui), TypeOK', RowClick \/ BodyClick \/ InsightClick
  PROVE  Fine(ui')
<1>1. None \in NetOrNone /\ ui \in UiSet /\ ui' \in UiSet
  BY DEF NetOrNone, Fine, TypeOK
<1>2. CASE RowClick
  <2> DEFINE v   == DismissRect(ui)
             ids == ui.over.row
             tip == [ids |-> ids, pinned |-> TRUE, live |-> TRUE]
  <2>1. Fine(v)
    BY <1>1, FineOperators
  <2>2. ui' = HideSubTooltip(v) \/ ui' = [v EXCEPT !.preview = ids, !.tip = tip]
    BY <1>2 DEF RowClick
  <2> HIDE DEF v, ids, tip
  <2>3. ASSUME ui' = [v EXCEPT !.preview = ids, !.tip = tip]
        PROVE  Fine(ui')
    BY <1>1, <2>1, <2>3, FineAgain DEF Fine, UiSet
  <2>4. QED
    BY <1>1, <2>1, <2>2, <2>3, FineOperators
<1>3. CASE BodyClick
  BY <1>1, <1>3, FineOperators DEF BodyClick
<1>4. CASE InsightClick
  <2> DEFINE i == ui.over.insight
             p == i.peer
             v == [ui EXCEPT !.insight = i, !.rect = TRUE, !.line = p, !.preview = {p}]
  <2>1. i \in InsightSet
    BY <1>1, <1>4, OverType DEF InsightClick
  <2>2. p \in Peers
    BY <2>1 DEF InsightSet
  <2>3. \/ ui' = ClearInsight(HideRect(ui)) \/ ui' = ui \/ ui' = SelectPrivatePeer(v, p)
    BY <1>4 DEF InsightClick
  <2> HIDE DEF i, p
  <2>4. v \in UiSet
    BY <1>1, <2>1, <2>2 DEF UiSet, PeerOrNone, IdsOrNone
  <2>5. Fine(v)
    BY <1>1, <2>4, FineAgain DEF UiSet
  <2> HIDE DEF v
  <2>6. PopupOk(SelectPrivatePeer(v, p))
    BY <2>2, <2>5, SelectIsOk DEF Fine
  <2>7. Fine(ClearInsight(HideRect(ui)))
    BY <1>1, FineOperators
  <2>8. QED
    BY <1>1, <2>3, <2>6, <2>7 DEF Fine
<1>5. QED
  BY <1>2, <1>3, <1>4

LEMMA MapIsFine ==
  ASSUME Fine(ui), TypeOK',
         TipClick \/ DotClick \/ SeaClick \/ ListClick \/ ListClose \/ PopupClose
  PROVE  Fine(ui')
<1>1. None \in NetOrNone /\ ui \in UiSet /\ ui' \in UiSet /\ PopupOk(ui)
  BY DEF NetOrNone, Fine, TypeOK
<1>2. CASE TipClick
  BY <1>1, <1>2, OverType, SelectIsOk DEF TipClick, Fine
<1>3. CASE DotClick
  <2>1. PICK G \in (SUBSET ui.peers) \ {{}} :
          \/ ui' = [ui EXCEPT !.group = G, !.list = TRUE]
          \/ ui' = SelectPrivatePeer(ui, CHOOSE p \in G : TRUE)
    BY <1>3 DEF DotClick
  <2>2. (CHOOSE p \in G : TRUE) \in Peers
    BY <1>1 DEF UiSet
  <2>3. ASSUME ui' = [ui EXCEPT !.group = G, !.list = TRUE]
        PROVE  Fine(ui')
    BY <1>1, <2>3, FineAgain DEF UiSet
  <2>4. QED
    BY <1>1, <2>1, <2>2, <2>3, SelectIsOk DEF Fine
<1>4. CASE SeaClick
  <2> DEFINE a == DeselectPeer(ui)
             b == [a EXCEPT !.list = FALSE]
  <2>1. Fine(a)
    BY <1>1, FineOperators
  <2> HIDE DEF a
  <2>2. b \in UiSet /\ b.peer = a.peer /\ b.popup = a.popup /\ b.coming = a.coming
    BY <2>1 DEF Fine, UiSet
  <2>3. Fine(b)
    BY <2>1, <2>2, FineAgain
  <2>4. ui' = UpdatePrivateNetUI(DismissRect(HideSubTooltip(ClosePopup(b))))
    BY <1>4 DEF SeaClick, a
  <2> HIDE DEF b
  <2>5. QED
    BY <1>1, <2>3, <2>4, FineOperators
<1>5. CASE ListClick
  <2>1. PICK p \in ui.group : ui' = SelectPrivatePeer([ui EXCEPT !.list = FALSE], p)
    BY <1>5 DEF ListClick
  <2> DEFINE v == [ui EXCEPT !.list = FALSE]
  <2>2. v \in UiSet /\ v.peers \subseteq Peers
    BY <1>1 DEF UiSet
  <2>3. Fine(v)
    BY <1>1, <2>2, FineAgain DEF UiSet
  <2> HIDE DEF v
  <2>4. CASE p \in Peers
    BY <1>1, <2>1, <2>3, <2>4, SelectIsOk DEF Fine, v
  <2>5. CASE p \notin Peers
    BY <2>1, <2>2, <2>3, <2>5 DEF SelectPrivatePeer, v
  <2>6. QED
    BY <2>4, <2>5
<1>6. CASE ListClose
  <2>1. ui' = [ui EXCEPT !.list = FALSE, !.group = None]
    BY <1>6 DEF ListClose
  <2>2. QED
    BY <1>1, <2>1, FineAgain DEF UiSet
<1>7. CASE PopupClose
  BY <1>1, <1>7, FineOperators DEF PopupClose
<1>8. QED
  BY <1>2, <1>3, <1>4, <1>5, <1>6, <1>7

LEMMA TimerIsFine ==
  ASSUME Fine(ui), TypeOK', Timer
  PROVE  Fine(ui')
<1>1. ui \in UiSet /\ ui' \in UiSet /\ PopupOk(ui)
  BY DEF Fine, TypeOK
<1>2. CASE EntryTimer
  <2>1. PICK i \in 1..Len(ui.entry) :
          LET step == ui.entry[i]
              v    == [ui EXCEPT !.entry = Without(ui.entry, i)]
          IN  /\ step \in StepSet /\ v \in UiSet
              /\ ui' = IF step.do = "select" THEN SelectPrivatePeer(v, step.of)
                       ELSE IF step.of = None THEN OpenOverviewPanel(v)
                       ELSE OpenDetailPanel(v, step.of)
    BY <1>1, <1>2, EntryStep DEF TypeOK
  <2> DEFINE step == ui.entry[i]
             v    == [ui EXCEPT !.entry = Without(ui.entry, i)]
  <2>2. /\ step \in StepSet /\ v \in UiSet
        /\ ui' = IF step.do = "select" THEN SelectPrivatePeer(v, step.of)
                 ELSE IF step.of = None THEN OpenOverviewPanel(v)
                 ELSE OpenDetailPanel(v, step.of)
    BY <2>1
  <2>3. v.peer = ui.peer /\ v.popup = ui.popup /\ v.coming = ui.coming
    BY <1>1 DEF UiSet
  <2> HIDE DEF step, v
  <2>4. Fine(v)
    BY <2>2, <2>3, FineAgain
  <2>5. CASE step.do = "select"
    <3>1. step.of \in Peers
      BY <2>2, <2>5 DEF StepSet
    <3>2. QED
      BY <1>1, <2>2, <2>4, <2>5, <3>1, SelectIsOk DEF Fine
  <2>6. CASE step.do # "select"
    <3>1. step.of \in NetOrNone
      BY <2>2, <2>6 DEF StepSet
    <3>2. QED
      BY <2>2, <2>4, <2>6, <3>1, FineOperators
  <2>7. QED
    BY <2>5, <2>6
<1>3. CASE PopupTimer
  <2>1. PICK p \in ui.coming :
          ui' = [ui EXCEPT !.coming = @ \ {p},
                           !.popup = IF p \in ui.peers THEN p ELSE None]
    BY <1>3 DEF PopupTimer
  <2>2. /\ ui'.peer = ui.peer /\ ui'.coming = ui.coming \ {p}
        /\ ui'.popup \in {p, None}
    BY <1>1, <2>1 DEF UiSet
  <2>3. QED
    BY <1>1, <2>2 DEF Fine, PopupOk
<1>4. CASE HideTimer
  <2>1. ui'.peer = ui.peer /\ ui'.popup = ui.popup /\ ui'.coming = ui.coming
    BY <1>1, <1>4 DEF HideTimer, UiSet
  <2>2. QED
    BY <1>1, <2>1, FineAgain
<1>5. QED
  BY <1>2, <1>3, <1>4 DEF Timer

LEMMA EntryIsFine ==
  ASSUME Fine(ui), TypeOK', Entering \/ Exit \/ Poll
  PROVE  Fine(ui')
<1>1. ui \in UiSet /\ ui' \in UiSet /\ PopupOk(ui)
  BY DEF Fine, TypeOK
<1>2. CASE Entering
  <2>1. \E p \in PeerOrNone, n \in NetOrNone : ui' = EnterPrivateNetMode(ui, p, n)
    <3>1. CASE EnterWithPeer
      BY <1>1, <3>1 DEF EnterWithPeer, UiSet, PeerOrNone, NetOrNone
    <3>2. CASE EnterWithNet
      BY <3>2 DEF EnterWithNet, PeerOrNone
    <3>3. CASE Chip /\ ~ui.mode
      BY <3>3 DEF Chip, PeerOrNone, NetOrNone
    <3>4. QED
      BY <1>2, <3>1, <3>2, <3>3 DEF Entering
  <2>2. QED
    BY <1>1, <2>1, EnterIsOk DEF Fine
<1>3. CASE Exit
  <2>1. Nothing(ui')
    BY <1>1, <1>3, ExitSteps DEF TypeOK
  <2>2. QED
    BY <1>1, <2>1 DEF Nothing, Fine, PopupOk
<1>4. CASE Poll
  <2>1. PICK P \in SUBSET Peers :
          LET v == UpdatePrivateNetUI([ui EXCEPT !.peers = P])
          IN  ui' = EnterPrivateNetMode(v, None, None) \/ ui' = v
    BY <1>4, PrivateNetAssumption DEF Poll
  <2> DEFINE u == [ui EXCEPT !.peers = P]
             v == UpdatePrivateNetUI(u)
  <2>2. u \in UiSet
    BY <1>1 DEF UiSet
  <2>3. Fine(u)
    BY <1>1, <2>2, FineAgain DEF UiSet
  <2> HIDE DEF u
  <2>4. None \in NetOrNone /\ None \in PeerOrNone
    BY DEF NetOrNone, PeerOrNone
  <2>5. Fine(v)
    BY <2>3, <2>4, FineOperators
  <2>6. ui' = EnterPrivateNetMode(v, None, None) \/ ui' = v
    BY <2>1 DEF u
  <2> HIDE DEF v
  <2>7. QED
    BY <1>1, <2>4, <2>5, <2>6, EnterIsOk DEF Fine
<1>5. QED
  BY <1>2, <1>3, <1>4

(* However fast peers are chosen, the popup that is there or on its way is *)
(* that of the selected peer: selectPrivatePeer calls back the timer of    *)
(* the one before.                                                         *)
THEOREM PopupFollowsSelection == Spec => []PopupIsOfSelection
<1>1. Init => PopupIsOfSelection
  BY DEF Init, PopupIsOfSelection
<1>2. TypeOK /\ TypeOK' /\ PopupIsOfSelection /\ [Next]_ui => PopupIsOfSelection'
  <2> SUFFICES ASSUME TypeOK, TypeOK', PopupIsOfSelection, [Next]_ui
               PROVE  PopupIsOfSelection'
    OBVIOUS
  <2>1. Fine(ui)
    BY DEF Fine, TypeOK, PopupOk, PopupIsOfSelection
  <2>2. Fine(ui')
    <3>1. CASE Pointer
      BY <2>1, <3>1, PointerIsFine
    <3>2. CASE Timer
      BY <2>1, <3>2, TimerIsFine
    <3>3. CASE Poll
      BY <2>1, <3>3, EntryIsFine
    <3>4. CASE Input
      <4>1. ui.mode \in BOOLEAN
        BY DEF TypeOK, UiSet
      <4>2. QED
        BY <2>1, <3>4, <4>1, EntryIsFine, PanelIsFine, RowIsFine, MapIsFine
        DEF Input, Entering
    <3>5. CASE UNCHANGED ui
      BY <2>1, <3>5
    <3>6. QED
      BY <3>1, <3>2, <3>3, <3>4, <3>5 DEF Next
  <2>3. QED
    BY <2>2 DEF Fine, PopupOk, PopupIsOfSelection
<1>3. QED
  BY <1>1, <1>2, TypeCorrect, PTL DEF Spec

-----------------------------------------------------------------------------
(***************************************************************************)
(* The panel.  Every operator but those that open or close it leaves it    *)
(* as it is, or has it show the selected network.                          *)
(***************************************************************************)
SameShow(u, v) ==
  /\ v.panel.shown = u.panel.shown /\ v.box = u.box
  /\ v.hidden = u.hidden /\ v.hides = u.hides

Calm(u, v) ==
  SameMode(u, v) /\ SameShow(u, v) /\ v.panel.of \in {u.panel.of, u.net}

LEMMA CalmOfCalm ==
  ASSUME NEW u, NEW v, NEW w, Calm(u, v), Calm(v, w)
  PROVE  Calm(u, w)
BY DEF Calm, SameMode, SameShow

LEMMA ClearCalm ==
  ASSUME NEW u \in UiSet
  PROVE  /\ Calm(u, HideSubTooltip(u)) /\ Calm(u, HideRect(u)) /\ Calm(u, RenderDonut(u))
         /\ Calm(u, ClosePopup(u)) /\ Calm(u, DeselectPeer(u)) /\ Calm(u, ClearInsight(u))
<1>1. /\ Calm(u, HideSubTooltip(u)) /\ Calm(u, HideRect(u)) /\ Calm(u, RenderDonut(u))
      /\ Calm(u, ClosePopup(u)) /\ Calm(u, DeselectPeer(u))
  BY DEF UiSet, Calm, SameMode, SameShow, HideSubTooltip, HideRect, RenderDonut, ClosePopup, DeselectPeer
<1>2. Calm(u, ClearInsight(u))
  BY DEF UiSet, Calm, SameMode, SameShow, ClearInsight, RenderDonut
<1>3. QED
  BY <1>1, <1>2

LEMMA DismissCalm ==
  ASSUME NEW u \in UiSet
  PROVE  Calm(u, DismissRect(u))
<1>1. Calm(u, HideRect(u)) /\ HideRect(u) \in UiSet
  BY ClearCalm, HideRectType
<1>2. Calm(HideRect(u), ClearInsight(HideRect(u)))
  BY <1>1, ClearCalm
<1>3. Calm(u, u)
  BY DEF Calm, SameMode, SameShow
<1>4. QED
  BY <1>1, <1>2, <1>3, CalmOfCalm DEF DismissRect

LEMMA RefreshCalm ==
  ASSUME NEW u \in UiSet
  PROVE  Calm(u, UpdatePrivateNetUI(u))
<1> DEFINE v == RenderDonut(u)
           w == RefreshPanel(v)
           x == RestoreInsight(w)
<1>1. v \in UiSet /\ Calm(u, v)
  BY RenderDonutType, ClearCalm
<1> HIDE DEF v
<1>2. w \in UiSet /\ Calm(v, w)
  <2>1. Calm(v, UpdatePanel(v, v.net))
    BY <1>1 DEF UiSet, Calm, SameMode, SameShow, UpdatePanel
  <2>2. Calm(v, v)
    BY DEF Calm, SameMode, SameShow
  <2>3. QED
    BY <1>1, <2>1, <2>2, RefreshPanelType DEF RefreshPanel
<1> HIDE DEF w
<1>3. Calm(w, x)
  BY <1>2 DEF UiSet, Calm, SameMode, SameShow, RestoreInsight
<1> HIDE DEF x
<1>4. Calm(u, u)
  BY DEF Calm, SameMode, SameShow
<1>5. QED
  BY <1>1, <1>2, <1>3, <1>4, CalmOfCalm DEF UpdatePrivateNetUI, v, w, x

LEMMA SelectCalm ==
  ASSUME NEW u \in UiSet, NEW p \in Peers
  PROVE  Calm(u, SelectPrivatePeer(u, p))
<1> DEFINE a == [u EXCEPT !.peer = p, !.line = p, !.list = FALSE]
           v == HideSubTooltip(a)
           w == IF InsightPeer(v) # p THEN DismissRect(v) ELSE v
           x == [w EXCEPT !.popup = None, !.coming = {p}]
<1>1. a \in UiSet /\ Calm(u, a)
  BY DEF UiSet, PeerOrNone, Calm, SameMode, SameShow
<1> HIDE DEF a
<1>2. v \in UiSet /\ Calm(a, v)
  BY <1>1, HideSubTooltipType, ClearCalm
<1> HIDE DEF v
<1>3. w \in UiSet /\ Calm(v, w)
  <2>1. Calm(v, v)
    BY DEF Calm, SameMode, SameShow
  <2>2. QED
    BY <1>2, <2>1, DismissRectType, DismissCalm
<1> HIDE DEF w
<1>4. x \in UiSet /\ Calm(w, x)
  <2>1. {p} \in SUBSET Peers /\ None \in PeerOrNone
    BY DEF PeerOrNone
  <2>2. x \in UiSet
    BY <1>3, <2>1 DEF UiSet
  <2>3. Calm(w, x)
    BY <1>3 DEF UiSet, Calm, SameMode, SameShow
  <2>4. QED
    BY <2>2, <2>3
<1> HIDE DEF x
<1>5. Calm(x, UpdatePrivateNetUI(x))
  BY <1>4, RefreshCalm
<1>6. Calm(u, x)
  <2>1. Calm(u, v)
    BY <1>1, <1>2, CalmOfCalm
  <2>2. Calm(u, w)
    BY <1>3, <2>1, CalmOfCalm
  <2>3. QED
    BY <1>4, <2>2, CalmOfCalm
<1>7. CASE p \notin u.peers
  BY <1>7 DEF SelectPrivatePeer, Calm, SameMode, SameShow
<1>8. CASE p \in u.peers
  <2>1. SelectPrivatePeer(u, p) = UpdatePrivateNetUI(x)
    BY <1>8 DEF SelectPrivatePeer, x, w, v, a
  <2>2. QED
    BY <1>5, <1>6, <2>1, CalmOfCalm
<1>9. QED
  BY <1>7, <1>8

\* What a step may make of ui without touching the panel.
Kept(v) == v \in UiSet /\ Calm(ui, v)

LEMMA KeptOperators ==
  ASSUME NEW u, Kept(u)
  PROVE  /\ Kept(UpdatePrivateNetUI(u)) /\ Kept(HideSubTooltip(u)) /\ Kept(HideRect(u))
         /\ Kept(ClearInsight(u)) /\ Kept(DismissRect(u)) /\ Kept(ClosePopup(u))
         /\ Kept(DeselectPeer(u)) /\ \A p \in Peers : Kept(SelectPrivatePeer(u, p))
<1>1. u \in UiSet /\ Calm(ui, u)
  BY DEF Kept
<1>2. Kept(UpdatePrivateNetUI(u)) /\ \A p \in Peers : Kept(SelectPrivatePeer(u, p))
  BY <1>1, RefreshCalm, SelectCalm, UpdatePrivateNetUIType, SelectPrivatePeerType,
     CalmOfCalm DEF Kept
<1>3. Kept(HideSubTooltip(u)) /\ Kept(HideRect(u)) /\ Kept(ClearInsight(u))
  BY <1>1, ClearCalm, HideSubTooltipType, HideRectType, ClearInsightType, CalmOfCalm DEF Kept
<1>4. Kept(DismissRect(u)) /\ Kept(ClosePopup(u)) /\ Kept(DeselectPeer(u))
  BY <1>1, ClearCalm, DismissCalm, DismissRectType, ClosePopupType, DeselectPeerType,
     CalmOfCalm DEF Kept
<1>5. QED
  BY <1>2, <1>3, <1>4

LEMMA KeptAgain ==
  ASSUME NEW u, Kept(u), NEW v \in UiSet, v.mode = u.mode, v.net = u.net,
         v.entry = u.entry, v.panel = u.panel, v.box = u.box, v.hidden = u.hidden,
         v.hides = u.hides
  PROVE  Kept(v)
BY DEF Kept, Calm, SameMode, SameShow

-----------------------------------------------------------------------------
(***************************************************************************)
(* The steps that do not touch the panel.                                  *)
(***************************************************************************)
LEMMA StartKept == TypeOK => Kept(ui)
BY DEF TypeOK, Kept, Calm, SameMode, SameShow

LEMMA PointerKept ==
  ASSUME TypeOK, TypeOK', Pointer
  PROVE  Kept(ui')
<1>1. ui \in UiSet /\ ui' \in UiSet /\ Kept(ui)
  BY StartKept DEF TypeOK
<1>2. \/ SegmentHover \/ SegmentLeave \/ RowEnter \/ RowLeave
      \/ InsightEnter \/ InsightLeave \/ TipEnter \/ TipLeave
  BY DEF Pointer
<1>3. CASE SegmentHover
  BY <1>1, <1>3, KeptAgain DEF SegmentHover, UiSet
<1>4. CASE SegmentLeave
  BY <1>1, <1>4, KeptAgain DEF SegmentLeave, UiSet
<1>5. CASE RowEnter
  <2>1. PICK ids \in RowIds \ {{}} :
          LET v == [ui EXCEPT !.over = [row |-> ids]] IN
          ui' = IF Pinned(v) \/ v.insight # None THEN v
                ELSE [v EXCEPT !.preview = ids,
                        !.tip = [ids |-> ids, pinned |-> FALSE, live |-> TRUE]]
    BY <1>5 DEF RowEnter
  <2> DEFINE o   == [row |-> ids]
             v   == [ui EXCEPT !.over = o]
             tip == [ids |-> ids, pinned |-> FALSE, live |-> TRUE]
  <2>2. ui' = v \/ ui' = [v EXCEPT !.preview = ids, !.tip = tip]
    BY <2>1
  <2> HIDE DEF tip
  <2>3. o \in PlaceSet \cup {None}
    BY <1>1, RowIdsType DEF PlaceSet, TypeOK
  <2> HIDE DEF o
  <2>4. v \in UiSet
    BY <1>1, <2>3 DEF UiSet
  <2>5. Kept(v)
    BY <1>1, <2>4, KeptAgain DEF UiSet
  <2> HIDE DEF v
  <2>6. CASE ui' = [v EXCEPT !.preview = ids, !.tip = tip]
    BY <1>1, <2>4, <2>5, <2>6, KeptAgain DEF UiSet
  <2>7. QED
    BY <2>2, <2>5, <2>6
<1>6. CASE RowLeave
  <2> DEFINE v == [ui EXCEPT !.over = None]
  <2>1. v \in UiSet
    BY <1>1 DEF UiSet
  <2>2. Kept(v)
    BY <1>1, <2>1, KeptAgain DEF UiSet
  <2>3. ui' = v \/ ui' = HideSubTooltip(v)
    BY <1>6 DEF RowLeave
  <2> HIDE DEF v
  <2>4. QED
    BY <2>2, <2>3, KeptOperators
<1>7. CASE InsightEnter
  <2>1. PICK i \in InsightSet :
          LET v == [ui EXCEPT !.over = [insight |-> i]] IN
          ui' = v \/ ui' = [v EXCEPT !.rect = TRUE, !.preview = {i.peer}, !.line = i.peer]
    BY <1>7 DEF InsightEnter
  <2> DEFINE o == [insight |-> i]
             v == [ui EXCEPT !.over = o]
  <2>2. ui' = v \/ ui' = [v EXCEPT !.rect = TRUE, !.preview = {i.peer}, !.line = i.peer]
    BY <2>1
  <2>3. o \in PlaceSet \cup {None}
    BY <2>1 DEF PlaceSet
  <2> HIDE DEF o
  <2>4. v \in UiSet
    BY <1>1, <2>3 DEF UiSet
  <2>5. Kept(v)
    BY <1>1, <2>4, KeptAgain DEF UiSet
  <2> HIDE DEF v
  <2>6. CASE ui' = [v EXCEPT !.rect = TRUE, !.preview = {i.peer}, !.line = i.peer]
    BY <1>1, <2>4, <2>5, <2>6, KeptAgain DEF UiSet
  <2>7. QED
    BY <2>2, <2>5, <2>6
<1>8. CASE InsightLeave
  <2> DEFINE v == [ui EXCEPT !.over = None]
  <2>1. ui' = v \/ ui' = [HideRect(v) EXCEPT !.preview = None, !.line = None]
    BY <1>8 DEF InsightLeave
  <2>2. v \in UiSet
    BY <1>1 DEF UiSet
  <2>3. Kept(v)
    BY <1>1, <2>2, KeptAgain DEF UiSet
  <2> HIDE DEF v
  <2> DEFINE r == HideRect(v)
  <2>4. Kept(r) /\ r \in UiSet
    BY <2>3, KeptOperators DEF Kept
  <2> HIDE DEF r
  <2>5. CASE ui' = [r EXCEPT !.preview = None, !.line = None]
    BY <1>1, <2>4, <2>5, KeptAgain DEF UiSet
  <2>6. QED
    BY <2>1, <2>3, <2>5 DEF r
<1>9. CASE TipEnter
  BY <1>1, <1>9, KeptAgain DEF TipEnter, UiSet
<1>10. CASE TipLeave
  BY <1>1, <1>10, KeptAgain DEF TipLeave, UiSet
<1>11. QED
  BY <1>2, <1>3, <1>4, <1>5, <1>6, <1>7, <1>8, <1>9, <1>10

LEMMA RowKept ==
  ASSUME TypeOK, TypeOK', RectClose \/ RowClick \/ BodyClick \/ InsightClick \/ TipClick
  PROVE  Kept(ui')
<1>1. ui \in UiSet /\ ui' \in UiSet /\ Kept(ui)
  BY StartKept DEF TypeOK
<1>2. CASE RectClose
  BY <1>1, <1>2, KeptOperators DEF RectClose
<1>3. CASE RowClick
  <2> DEFINE v   == DismissRect(ui)
             ids == ui.over.row
             tip == [ids |-> ids, pinned |-> TRUE, live |-> TRUE]
  <2>1. Kept(v)
    BY <1>1, KeptOperators
  <2>2. ui' = HideSubTooltip(v) \/ ui' = [v EXCEPT !.preview = ids, !.tip = tip]
    BY <1>3 DEF RowClick
  <2> HIDE DEF v, ids, tip
  <2>3. ASSUME ui' = [v EXCEPT !.preview = ids, !.tip = tip]
        PROVE  Kept(ui')
    BY <1>1, <2>1, <2>3, KeptAgain DEF Kept, UiSet
  <2>4. QED
    BY <2>1, <2>2, <2>3, KeptOperators
<1>4. CASE BodyClick
  BY <1>1, <1>4, KeptOperators DEF BodyClick
<1>5. CASE InsightClick
  <2> DEFINE i == ui.over.insight
             p == i.peer
             v == [ui EXCEPT !.insight = i, !.rect = TRUE, !.line = p, !.preview = {p}]
  <2>1. i \in InsightSet
    BY <1>1, <1>5, OverType DEF InsightClick
  <2>2. p \in Peers
    BY <2>1 DEF InsightSet
  <2>3. \/ ui' = ClearInsight(HideRect(ui)) \/ ui' = ui \/ ui' = SelectPrivatePeer(v, p)
    BY <1>5 DEF InsightClick
  <2> HIDE DEF i, p
  <2>4. v \in UiSet
    BY <1>1, <2>1, <2>2 DEF UiSet, PeerOrNone, IdsOrNone
  <2>5. Kept(v)
    BY <1>1, <2>4, KeptAgain DEF UiSet
  <2> HIDE DEF v
  <2>6. Kept(ClearInsight(HideRect(ui)))
    BY <1>1, KeptOperators
  <2>7. QED
    BY <1>1, <2>2, <2>3, <2>5, <2>6, KeptOperators
<1>6. CASE TipClick
  BY <1>1, <1>6, OverType, KeptOperators DEF TipClick
<1>7. QED
  BY <1>2, <1>3, <1>4, <1>5, <1>6

LEMMA MapKept ==
  ASSUME TypeOK, TypeOK', DotClick \/ SeaClick \/ ListClick \/ ListClose \/ PopupClose
  PROVE  Kept(ui')
<1>1. ui \in UiSet /\ ui' \in UiSet /\ Kept(ui)
  BY StartKept DEF TypeOK
<1>2. CASE DotClick
  <2>1. PICK G \in (SUBSET ui.peers) \ {{}} :
          \/ ui' = [ui EXCEPT !.group = G, !.list = TRUE]
          \/ ui' = SelectPrivatePeer(ui, CHOOSE p \in G : TRUE)
    BY <1>2 DEF DotClick
  <2>2. (CHOOSE p \in G : TRUE) \in Peers
    BY <1>1 DEF UiSet
  <2>3. ASSUME ui' = [ui EXCEPT !.group = G, !.list = TRUE]
        PROVE  Kept(ui')
    BY <1>1, <2>3, KeptAgain DEF UiSet
  <2>4. QED
    BY <1>1, <2>1, <2>2, <2>3, KeptOperators
<1>3. CASE SeaClick
  <2> DEFINE a == DeselectPeer(ui)
             b == [a EXCEPT !.list = FALSE]
  <2>1. Kept(a)
    BY <1>1, KeptOperators
  <2> HIDE DEF a
  <2>2. b \in UiSet /\ b.mode = a.mode /\ b.net = a.net /\ b.entry = a.entry
        /\ b.panel = a.panel /\ b.box = a.box /\ b.hidden = a.hidden /\ b.hides = a.hides
    BY <2>1 DEF Kept, UiSet
  <2>3. Kept(b)
    BY <2>1, <2>2, KeptAgain
  <2>4. ui' = UpdatePrivateNetUI(DismissRect(HideSubTooltip(ClosePopup(b))))
    BY <1>3 DEF SeaClick, a
  <2> HIDE DEF b
  <2>5. Kept(DismissRect(HideSubTooltip(ClosePopup(b))))
    BY <2>3, KeptOperators
  <2>6. QED
    BY <2>4, <2>5, KeptOperators
<1>4. CASE ListClick
  <2>1. PICK p \in ui.group : ui' = SelectPrivatePeer([ui EXCEPT !.list = FALSE], p)
    BY <1>4 DEF ListClick
  <2> DEFINE v == [ui EXCEPT !.list = FALSE]
  <2>2. v \in UiSet /\ v.peers \subseteq Peers
    BY <1>1 DEF UiSet
  <2>3. Kept(v)
    BY <1>1, <2>2, KeptAgain DEF UiSet
  <2> HIDE DEF v
  <2>4. CASE p \in Peers
    BY <2>1, <2>3, <2>4, KeptOperators DEF v
  <2>5. CASE p \notin Peers
    BY <2>1, <2>2, <2>3, <2>5 DEF SelectPrivatePeer, v
  <2>6. QED
    BY <2>4, <2>5
<1>5. CASE ListClose
  <2>1. ui' = [ui EXCEPT !.list = FALSE, !.group = None]
    BY <1>5 DEF ListClose
  <2>2. QED
    BY <1>1, <2>1, KeptAgain DEF UiSet
<1>6. CASE PopupClose
  BY <1>1, <1>6, KeptOperators DEF PopupClose
<1>7. QED
  BY <1>2, <1>3, <1>4, <1>5, <1>6

LEMMA LaterKept ==
  ASSUME TypeOK, TypeOK', PopupTimer
  PROVE  Kept(ui')
<1>1. ui \in UiSet /\ ui' \in UiSet /\ Kept(ui)
  BY StartKept DEF TypeOK
<1>2. QED
  BY <1>1, KeptAgain DEF PopupTimer, UiSet

-----------------------------------------------------------------------------
(***************************************************************************)
(* The steps that open or close the panel, or choose a network.            *)
(***************************************************************************)
LEMMA CalmAgrees ==
  ASSUME NEW u, NEW v, Calm(u, v), PanelAgrees(u)
  PROVE  PanelAgrees(v)
BY DEF Calm, SameMode, SameShow, PanelAgrees

LEMMA OpenAgrees ==
  ASSUME NEW u \in UiSet, NEW n \in NetOrNone
  PROVE  /\ OpenDetailPanel(u, n).panel.of = n /\ OpenDetailPanel(u, n).net = u.net
         /\ u.net = n => PanelAgrees(OpenDetailPanel(u, n))
<1> DEFINE v == [u EXCEPT !.panel.shown = TRUE, !.hidden = @ \ {"panel"}]
           w == UpdatePanel(v, n)
<1>1. v \in UiSet /\ v.net = u.net /\ v.panel.shown /\ "panel" \notin v.hidden
  BY DEF UiSet
<1> HIDE DEF v
<1>2. w.net = u.net /\ w.panel.shown /\ w.panel.of = n /\ "panel" \notin w.hidden
  BY <1>1 DEF UiSet, UpdatePanel
<1>3. OpenDetailPanel(u, n) = w
  BY DEF OpenDetailPanel, v
<1> HIDE DEF w
<1>4. QED
  BY <1>2, <1>3 DEF PanelAgrees

LEMMA OverviewAgrees ==
  ASSUME NEW u \in UiSet
  PROVE  PanelAgrees(OpenOverviewPanel(u))
<1> DEFINE v == [u EXCEPT !.net = None]
<1>1. None \in NetOrNone
  BY DEF NetOrNone
<1>2. v \in UiSet /\ v.net = None
  BY <1>1 DEF UiSet
<1> HIDE DEF v
<1>3. QED
  BY <1>1, <1>2, OpenAgrees DEF OpenOverviewPanel, v

LEMMA PanelStepsAgree ==
  ASSUME TypeOK, PanelAgrees(ui), SegmentClick \/ CenterClick \/ Back \/ (Chip /\ ui.mode)
  PROVE  PanelAgrees(ui')
<1>1. ui \in UiSet /\ None \in NetOrNone /\ Nets \subseteq NetOrNone
  BY DEF TypeOK, NetOrNone
<1>2. ASSUME NEW u \in UiSet, PanelAgrees(u), ui' = UpdatePrivateNetUI(u)
      PROVE  PanelAgrees(ui')
  BY <1>2, RefreshCalm, CalmAgrees
<1>3. CASE SegmentClick
  <2> DEFINE n == ui.over.segment
             v == DismissRect(ui)
             a == [v EXCEPT !.net = None]
             b == [v EXCEPT !.net = n]
  <2>1. n \in NetOrNone
    BY <1>1, <1>3, OverType DEF SegmentClick
  <2>2. v \in UiSet
    BY <1>1, DismissRectType
  <2>3. \/ ui' = UpdatePrivateNetUI(ClosePanel(a))
        \/ ui' = UpdatePrivateNetUI(OpenDetailPanel(b, n))
    BY <1>3 DEF SegmentClick
  <2> HIDE DEF n, v
  <2>4. a \in UiSet /\ a.net = None /\ b \in UiSet /\ b.net = n
    BY <1>1, <2>1, <2>2 DEF UiSet
  <2> HIDE DEF a, b
  <2>5. ClosePanel(a) \in UiSet /\ OpenDetailPanel(b, n) \in UiSet
    BY <2>1, <2>4, ClosePanelType, OpenDetailPanelType
  <2>6. ClosePanel(a).net = None /\ ~ClosePanel(a).panel.shown
    BY <2>4 DEF UiSet, ClosePanel, HideSubTooltip
  <2>7. PanelAgrees(ClosePanel(a))
    BY <2>6 DEF PanelAgrees
  <2>8. PanelAgrees(OpenDetailPanel(b, n))
    BY <2>1, <2>4, OpenAgrees
  <2>9. QED
    BY <1>2, <2>3, <2>5, <2>7, <2>8
<1>4. CASE CenterClick
  <2> DEFINE v == IF ui.peer # None THEN ClosePopup(DeselectPeer(ui)) ELSE ui
  <2>1. v \in UiSet
    BY <1>1, DeselectPeerType, ClosePopupType
  <2>2. ui' = UpdatePrivateNetUI(OpenOverviewPanel(v))
    BY <1>4 DEF CenterClick
  <2> HIDE DEF v
  <2>3. OpenOverviewPanel(v) \in UiSet /\ PanelAgrees(OpenOverviewPanel(v))
    BY <2>1, OpenOverviewPanelType, OverviewAgrees
  <2>4. QED
    BY <1>2, <2>2, <2>3
<1>5. CASE Back
  <2> DEFINE v == [ui EXCEPT !.net = None]
             w == HideSubTooltip(v)
             x == UpdatePanel(w, None)
  <2>1. /\ v \in UiSet /\ v.net = None /\ v.panel.shown = ui.panel.shown
        /\ v.hidden = ui.hidden
    BY <1>1 DEF UiSet
  <2>2. ui' = UpdatePrivateNetUI(x)
    BY <1>5 DEF Back
  <2> HIDE DEF v
  <2>3. /\ w \in UiSet /\ w.net = None /\ w.panel.shown = ui.panel.shown
        /\ w.hidden = ui.hidden
    BY <2>1, HideSubTooltipType, ClearCalm DEF Calm, SameMode, SameShow
  <2> HIDE DEF w
  <2>4. /\ x \in UiSet /\ x.net = None /\ x.panel.of = None
        /\ x.panel.shown = ui.panel.shown /\ x.hidden = ui.hidden
    <3>1. x \in UiSet /\ SameMode(w, x)
      BY <1>1, <2>3, UpdatePanelType
    <3>2. x.panel.of = None /\ x.panel.shown = w.panel.shown /\ x.hidden = w.hidden
      BY <2>3 DEF UiSet, UpdatePanel
    <3>3. QED
      BY <2>3, <3>1, <3>2 DEF SameMode
  <2> HIDE DEF x
  <2>5. PanelAgrees(x)
    BY <2>4 DEF PanelAgrees
  <2>6. QED
    BY <1>2, <2>2, <2>4, <2>5
<1>6. CASE Chip /\ ui.mode
  <2>1. PICK n \in Nets :
          ui' = UpdatePrivateNetUI(OpenDetailPanel([ui EXCEPT !.net = n], n))
    BY <1>6 DEF Chip
  <2> DEFINE v == [ui EXCEPT !.net = n]
  <2>2. v \in UiSet /\ v.net = n /\ n \in NetOrNone
    BY <1>1 DEF UiSet
  <2> HIDE DEF v
  <2>3. OpenDetailPanel(v, n) \in UiSet /\ PanelAgrees(OpenDetailPanel(v, n))
    BY <2>2, OpenDetailPanelType, OpenAgrees
  <2>4. QED
    BY <1>2, <2>1, <2>3 DEF v
<1>7. QED
  BY <1>3, <1>4, <1>5, <1>6

\* A refresh in the mode builds a panel that is shown anew.
LEMMA RefreshAgrees ==
  ASSUME NEW u \in UiSet, u.mode
  PROVE  LET v == UpdatePrivateNetUI(u) IN v.panel.shown => v.panel.of = v.net
<1> DEFINE v == RenderDonut(u)
           w == RefreshPanel(v)
           x == RestoreInsight(w)
<1>1. v \in UiSet
  BY RenderDonutType
<1> HIDE DEF v
<1>2. w \in UiSet /\ (w.panel.shown => w.panel.of = w.net)
  <2>1. CASE v.panel.shown
    <3>1. w = UpdatePanel(v, v.net)
      BY <2>1 DEF RefreshPanel
    <3>2. w.panel.of = v.net /\ w.net = v.net
      <4>1. v.net \in NetOrNone
        BY <1>1 DEF UiSet
      <4>2. w.net = v.net
        BY <1>1, <3>1, <4>1, UpdatePanelType DEF SameMode
      <4>3. w.panel.of = v.net
        <5>1. ASSUME NEW n PROVE UpdatePanel(v, n).panel.of = n
          BY <1>1 DEF UiSet, UpdatePanel
        <5>2. QED
          BY <3>1, <5>1
      <4>4. QED
        BY <4>2, <4>3
    <3>3. QED
      BY <1>1, <3>2, RefreshPanelType
  <2>2. CASE ~v.panel.shown
    BY <1>1, <2>2 DEF RefreshPanel
  <2>3. QED
    BY <2>1, <2>2
<1> HIDE DEF w
<1>3. x.panel = w.panel /\ x.net = w.net
  BY <1>2 DEF UiSet, RestoreInsight
<1> HIDE DEF x
<1>4. QED
  BY <1>2, <1>3 DEF UpdatePrivateNetUI, v, w, x

LEMMA EnterAgrees ==
  ASSUME NEW u \in UiSet, NEW p \in PeerOrNone, NEW n \in NetOrNone, ~u.mode,
         PanelAgrees(u)
  PROVE  PanelAgrees(EnterPrivateNetMode(u, p, n))
<1> DEFINE a == [u EXCEPT !.mode = TRUE, !.net = n, !.list = FALSE, !.group = None,
                          !.box = TRUE, !.hidden = @ \ {"box"}]
           b == HideSubTooltip(a)
           w == UpdatePrivateNetUI(b)
           e == EnterPrivateNetMode(u, p, n)
<1>1. /\ a \in UiSet /\ a.mode /\ a.panel.shown = u.panel.shown
      /\ a.hidden = u.hidden \ {"box"}
  BY DEF UiSet, IdsOrNone
<1>2. \E s : e = [w EXCEPT !.entry = s]
  BY DEF EnterPrivateNetMode
<1> HIDE DEF a
<1>3. /\ b \in UiSet /\ b.mode /\ b.panel.shown = u.panel.shown
      /\ b.hidden = u.hidden \ {"box"}
  BY <1>1, HideSubTooltipType, ClearCalm DEF Calm, SameMode, SameShow
<1> HIDE DEF b
<1>4. w \in UiSet /\ w.panel.shown = u.panel.shown /\ w.hidden = u.hidden \ {"box"}
  BY <1>3, UpdatePrivateNetUIType, RefreshCalm DEF Calm, SameShow
<1>5. w.panel.shown => w.panel.of = w.net
  BY <1>3, RefreshAgrees
<1> HIDE DEF w
<1>6. e.panel = w.panel /\ e.net = w.net /\ e.hidden = w.hidden
  BY <1>2, <1>4 DEF UiSet
<1>7. \E i \in 1..Len(e.entry) : e.entry[i].do = "panel"
  <2> DEFINE s == u.entry
  <2>1. s \in Seq(StepSet)
    BY DEF UiSet
  <2>2. e.entry = Longer(s, p, n)
    BY EnterType
  <2> HIDE DEF s, e
  <2>3. QED
    BY <2>1, <2>2, LongerOpens
<1> HIDE DEF e
<1>8. PanelAgrees(e)
  BY <1>4, <1>5, <1>6, <1>7 DEF PanelAgrees
<1>9. QED
  BY <1>8 DEF e

LEMMA EntryAgrees ==
  ASSUME TypeOK, TypeOK', PanelAgrees(ui), Entering \/ Exit \/ Poll
  PROVE  PanelAgrees(ui')
<1>1. ui \in UiSet /\ ui.mode \in BOOLEAN /\ Kept(ui)
      /\ None \in NetOrNone /\ None \in PeerOrNone
  BY StartKept DEF TypeOK, UiSet, NetOrNone, PeerOrNone
<1>2. CASE Entering
  <2>1. PICK p \in PeerOrNone, n \in NetOrNone : ui' = EnterPrivateNetMode(ui, p, n)
    <3>1. CASE EnterWithPeer
      BY <1>1, <3>1 DEF EnterWithPeer, UiSet, PeerOrNone
    <3>2. CASE EnterWithNet
      BY <1>1, <3>2 DEF EnterWithNet
    <3>3. CASE Chip /\ ~ui.mode
      BY <1>1, <3>3 DEF Chip, NetOrNone
    <3>4. QED
      BY <1>2, <3>1, <3>2, <3>3 DEF Entering
  <2>2. CASE ui.mode
    <3>1. ui' = ui \/ (p \in Peers /\ ui' = SelectPrivatePeer(ui, p))
      BY <2>1, <2>2 DEF EnterPrivateNetMode, Truthy, PeerOrNone
    <3>2. Kept(ui')
      BY <1>1, <3>1, KeptOperators
    <3>3. QED
      BY <3>2, CalmAgrees DEF Kept
  <2>3. CASE ~ui.mode
    BY <1>1, <2>1, <2>3, EnterAgrees
  <2>4. QED
    BY <1>1, <2>2, <2>3
<1>3. CASE Exit
  BY <1>3, ExitSteps DEF Nothing, PanelAgrees
<1>4. CASE Poll
  <2>1. PICK P \in SUBSET Peers :
          LET v == UpdatePrivateNetUI([ui EXCEPT !.peers = P])
          IN  ui' = v \/ (~ui.mode /\ ui' = EnterPrivateNetMode(v, None, None))
    BY <1>4, PrivateNetAssumption DEF Poll
  <2> DEFINE u == [ui EXCEPT !.peers = P]
             v == UpdatePrivateNetUI(u)
  <2>2. u \in UiSet
    BY <1>1 DEF UiSet
  <2>3. Kept(u)
    BY <1>1, <2>2, KeptAgain DEF UiSet
  <2>4. ui' = v \/ (~ui.mode /\ ui' = EnterPrivateNetMode(v, None, None))
    BY <2>1
  <2> HIDE DEF u
  <2>5. Kept(v)
    BY <2>3, KeptOperators
  <2> HIDE DEF v
  <2>6. v \in UiSet /\ v.mode = ui.mode /\ PanelAgrees(v)
    BY <2>5, CalmAgrees DEF Kept, Calm, SameMode
  <2>7. QED
    BY <1>1, <2>4, <2>6, EnterAgrees
<1>5. QED
  BY <1>2, <1>3, <1>4

\* The one step that may part them: a panel for another network than the
\* selected one.
LEMMA EntryTimerAgrees ==
  ASSUME TypeOK, PanelAgrees(ui), EntryTimer
  PROVE  PanelAgrees(ui') \/ ui'.panel.of \notin {ui.net, None}
<1>1. PICK i \in 1..Len(ui.entry) :
        LET step == ui.entry[i]
            v    == [ui EXCEPT !.entry = Without(ui.entry, i)]
        IN  /\ step \in StepSet /\ v \in UiSet
            /\ ui' = IF step.do = "select" THEN SelectPrivatePeer(v, step.of)
                     ELSE IF step.of = None THEN OpenOverviewPanel(v)
                     ELSE OpenDetailPanel(v, step.of)
  BY EntryStep
<1> DEFINE rest == Without(ui.entry, i)
           step == ui.entry[i]
           v    == [ui EXCEPT !.entry = rest]
<1>2. /\ step \in StepSet /\ v \in UiSet
      /\ ui' = IF step.do = "select" THEN SelectPrivatePeer(v, step.of)
               ELSE IF step.of = None THEN OpenOverviewPanel(v)
               ELSE OpenDetailPanel(v, step.of)
  BY <1>1
<1>3. ui.entry \in Seq(StepSet) /\ None \in NetOrNone
  BY DEF TypeOK, UiSet, NetOrNone
<1>4. /\ v.net = ui.net /\ v.panel = ui.panel /\ v.hidden = ui.hidden
      /\ v.entry = rest
  BY DEF TypeOK, UiSet
<1>5. CASE step.do = "select"
  <2>1. step.of \in Peers
    BY <1>2, <1>5 DEF StepSet
  <2>2. ASSUME NEW j \in 1..Len(ui.entry), ui.entry[j].do = "panel"
        PROVE  \E k \in 1..Len(rest) : rest[k].do = "panel"
    <3>1. /\ Len(rest) = Len(ui.entry) - 1 /\ Len(ui.entry) \in Nat
          /\ j < i => rest[j] = ui.entry[j]
          /\ i < j => rest[j - 1] = ui.entry[j]
      <4> DEFINE s == ui.entry
      <4>1. s \in Seq(StepSet) /\ i \in 1..Len(s) /\ j \in 1..Len(s)
        BY <1>3
      <4> HIDE DEF s
      <4>2. /\ Len(Without(s, i)) = Len(s) - 1 /\ Len(s) \in Nat
            /\ j < i => Without(s, i)[j] = s[j]
            /\ i < j => Without(s, i)[j - 1] = s[j]
        BY <4>1, WithoutType
      <4>3. QED
        BY <4>2 DEF s
    <3>2. j < i \/ i < j
      <4>1. i # j
        BY <1>5, <2>2
      <4>2. QED
        BY <4>1
    <3> HIDE DEF rest
    <3>3. CASE j < i
      <4>1. j \in 1..Len(rest) /\ rest[j].do = "panel"
        BY <2>2, <3>1, <3>3
      <4>2. QED
        BY <4>1
    <3>4. CASE i < j
      <4>1. j - 1 \in 1..Len(rest) /\ rest[j - 1].do = "panel"
        BY <2>2, <3>1, <3>4
      <4>2. QED
        BY <4>1
    <3>5. QED
      BY <3>2, <3>3, <3>4
  <2> HIDE DEF v, rest, step
  <2>3. PanelAgrees(v)
    BY <1>4, <2>2 DEF PanelAgrees
  <2>4. Calm(v, ui')
    BY <1>2, <1>5, <2>1, SelectCalm
  <2>5. QED
    BY <2>3, <2>4, CalmAgrees
<1>6. CASE step.do # "select"
  <2>1. step.of \in NetOrNone
    BY <1>2, <1>6 DEF StepSet
  <2> HIDE DEF v, step
  <2>2. CASE step.of = None
    BY <1>2, <1>6, <2>2, OverviewAgrees
  <2>3. CASE step.of # None
    <3>1. ui' = OpenDetailPanel(v, step.of)
      BY <1>2, <1>6, <2>3
    <3>2. QED
      BY <1>2, <1>4, <2>1, <2>3, <3>1, OpenAgrees
  <2>4. QED
    BY <2>2, <2>3
<1>7. QED
  BY <1>5, <1>6

LEMMA HideTimerAgrees ==
  ASSUME TypeOK, PanelAgrees(ui), HideTimer, ~ui.panel.shown
  PROVE  PanelAgrees(ui')
<1>1. ui'.panel = ui.panel /\ ui'.net = ui.net /\ ui'.entry = ui.entry
  BY DEF TypeOK, UiSet, HideTimer
<1>2. QED
  BY <1>1 DEF PanelAgrees

(* Panel and selected network, once they agree, part only by a timer that  *)
(* something else has overtaken: one of an entry that opens the panel of   *)
(* another network (openPnDetailPanel is not called back), or one that     *)
(* hides a panel which was opened again.                                   *)
THEOREM PanelFollowsSelection == Spec => PanelIsOfSelection
<1>1. TypeOK /\ TypeOK' /\ [Next]_ui
        => [PanelAgrees(ui) => PanelAgrees(ui') \/ Overtaken]_ui
  <2> SUFFICES ASSUME TypeOK, TypeOK', Next, PanelAgrees(ui)
               PROVE  PanelAgrees(ui') \/ Overtaken
    OBVIOUS
  <2>1. CASE SegmentClick \/ CenterClick \/ Back \/ (Chip /\ ui.mode)
    BY <2>1, PanelStepsAgree
  <2>2. CASE \/ Pointer \/ RectClose \/ RowClick \/ BodyClick \/ InsightClick
             \/ TipClick \/ DotClick \/ SeaClick \/ ListClick \/ ListClose
             \/ PopupClose \/ PopupTimer
    <3>1. Kept(ui')
      BY <2>2, PointerKept, RowKept, MapKept, LaterKept
    <3>2. QED
      BY <3>1, CalmAgrees DEF Kept
  <2>3. CASE HideTimer
    BY <2>3, HideTimerAgrees DEF Overtaken
  <2>4. CASE Entering \/ Exit \/ Poll
    BY <2>4, EntryAgrees
  <2>5. CASE EntryTimer
    BY <2>5, EntryTimerAgrees DEF Overtaken
  <2>6. QED
    BY <2>1, <2>2, <2>3, <2>4, <2>5, Cases DEF Staying
<1>2. QED
  BY <1>1, TypeCorrect, PTL DEF Spec, PanelIsOfSelection

-----------------------------------------------------------------------------
(***************************************************************************)
(* The lines, and what is left out of the mode.  What a tooltip has saved  *)
(* is put back when the pointer leaves it, so the invariant also says that *)
(* nothing is saved without a tooltip; and that a part which is not shown  *)
(* is hidden, or will be, so that it cannot be clicked for long.           *)
(***************************************************************************)
Explained(u) ==
  /\ u.preview # None => u.tip # None \/ u.rect
  /\ u.line # None => u.line = u.peer \/ u.rect
  /\ u.saved # None => u.tip # None

Faded(u) ==
  /\ u.panel.shown \/ "panel" \in u.hidden \cup u.hides
  /\ u.box \/ "box" \in u.hidden \cup u.hides

Clear(u) == u \in UiSet /\ Explained(u) /\ Faded(u)

LEMMA ShowIsFaded ==
  ASSUME NEW u, NEW v, Faded(u), SameShow(u, v)
  PROVE  Faded(v)
BY DEF Faded, SameShow

LEMMA ClearAgain ==
  ASSUME NEW u, Clear(u), NEW v \in UiSet, v.preview = u.preview, v.line = u.line,
         v.saved = u.saved, v.tip = u.tip, v.peer = u.peer, v.rect = u.rect,
         SameShow(u, v)
  PROVE  Clear(v)
BY ShowIsFaded DEF Clear, Explained

LEMMA HidingIsClear ==
  ASSUME NEW u, Clear(u)
  PROVE  /\ Clear(RenderDonut(u)) /\ Clear(HideSubTooltip(u)) /\ Clear(ClosePopup(u))
         /\ Clear(DeselectPeer(u)) /\ Clear(DismissRect(u)) /\ Clear(ClearInsight(HideRect(u)))
         /\ Clear(ClosePanel(u))
<1>1. u \in UiSet /\ Faded(u) /\ Explained(u)
  BY DEF Clear
<1> DEFINE d == ClearInsight(HideRect(u))
<1>0. /\ Faded(RenderDonut(u)) /\ Faded(HideSubTooltip(u)) /\ Faded(ClosePopup(u))
      /\ Faded(DeselectPeer(u)) /\ Faded(d)
  <2>1. Calm(u, HideRect(u)) /\ HideRect(u) \in UiSet
    BY <1>1, ClearCalm, HideRectType
  <2>2. Calm(u, d)
    BY <1>1, <2>1, ClearCalm, CalmOfCalm
  <2>3. QED
    BY <1>1, <2>2, ClearCalm, ShowIsFaded DEF Calm
<1>2. Clear(RenderDonut(u))
  BY <1>0, <1>1, RenderDonutType DEF Clear, UiSet, Explained, RenderDonut
<1>3. Clear(HideSubTooltip(u))
  BY <1>0, <1>1, HideSubTooltipType DEF Clear, UiSet, Explained, HideSubTooltip
<1>4. Clear(ClosePopup(u)) /\ Clear(DeselectPeer(u))
  <2>1. ClosePopup(u) \in UiSet /\ DeselectPeer(u) \in UiSet
    BY <1>1, ClosePopupType, DeselectPeerType
  <2>2. Explained(ClosePopup(u))
    BY <1>1 DEF UiSet, Explained, ClosePopup
  <2>3. Explained(DeselectPeer(u))
    BY <1>1 DEF UiSet, Explained, DeselectPeer
  <2>4. QED
    BY <1>0, <2>1, <2>2, <2>3 DEF Clear
<1>5. Clear(ClearInsight(HideRect(u)))
  <2>1. HideRect(u) \in UiSet /\ ClearInsight(HideRect(u)) \in UiSet
    BY <1>1, HideRectType, ClearInsightType
  <2>2. Explained(ClearInsight(HideRect(u)))
    BY <1>1 DEF UiSet, Explained, ClearInsight, HideRect, RenderDonut
  <2>3. QED
    BY <1>0, <2>1, <2>2 DEF Clear
<1>6. Clear(DismissRect(u))
  BY <1>5 DEF DismissRect
<1>7. Clear(ClosePanel(u))
  <2>1. ClosePanel(u) \in UiSet
    BY <1>1, ClosePanelType
  <2> DEFINE w == HideSubTooltip(u)
  <2>2. ClosePanel(u) = [w EXCEPT !.panel.shown = FALSE, !.hides = @ \cup {"panel"}]
    BY DEF ClosePanel
  <2>3. w \in UiSet /\ Explained(w) /\ Faded(w)
    BY <1>3 DEF Clear
  <2> HIDE DEF w
  <2>4. Explained(ClosePanel(u))
    BY <2>2, <2>3 DEF UiSet, Explained
  <2>5. Faded(ClosePanel(u))
    BY <2>2, <2>3 DEF UiSet, Faded
  <2>6. QED
    BY <2>1, <2>4, <2>5 DEF Clear
<1>8. QED
  BY <1>2, <1>3, <1>4, <1>5, <1>6, <1>7

LEMMA TipStays ==
  ASSUME NEW u \in UiSet, u.tip # None, NEW n \in NetOrNone
  PROVE  UpdatePanel(u, n).tip # None
<1>1. u.tip \in TipSet
  BY DEF UiSet
<1> DEFINE tip == [u.tip EXCEPT !.live = FALSE]
<1>2. tip \in TipSet
  BY <1>1 DEF TipSet
<1>3. UpdatePanel(u, n).tip = tip
  BY DEF UiSet, UpdatePanel
<1>4. QED
  BY <1>2, <1>3, NoneAssumption

LEMMA PanelIsClear ==
  ASSUME NEW u, Clear(u), NEW n \in NetOrNone
  PROVE  /\ Clear(UpdatePanel(u, n)) /\ Clear(OpenDetailPanel(u, n))
         /\ Clear(OpenOverviewPanel(u)) /\ Clear(UpdatePrivateNetUI(u))
<1>1. None \in NetOrNone
  BY DEF NetOrNone
<1>2. ASSUME NEW v, Clear(v), NEW m \in NetOrNone
      PROVE  Clear(UpdatePanel(v, m))
  <2>1. v \in UiSet /\ UpdatePanel(v, m) \in UiSet
    BY <1>2, UpdatePanelType DEF Clear
  <2>2. /\ UpdatePanel(v, m).preview = v.preview /\ UpdatePanel(v, m).line = v.line
        /\ UpdatePanel(v, m).saved = v.saved /\ UpdatePanel(v, m).peer = v.peer
        /\ UpdatePanel(v, m).rect = v.rect /\ SameShow(v, UpdatePanel(v, m))
    BY <2>1 DEF UiSet, UpdatePanel, SameShow
  <2>3. v.tip # None => UpdatePanel(v, m).tip # None
    BY <2>1, TipStays
  <2>4. QED
    BY <1>2, <2>1, <2>2, <2>3, ShowIsFaded DEF Clear, Explained
<1>3. ASSUME NEW v, Clear(v), NEW m \in NetOrNone
      PROVE  Clear(OpenDetailPanel(v, m))
  <2> DEFINE w == [v EXCEPT !.panel.shown = TRUE, !.hidden = @ \ {"panel"}]
  <2>1. w \in UiSet
    BY <1>3 DEF Clear, UiSet
  <2>2. Clear(w)
    <3>1. Explained(w)
      BY <1>3 DEF Clear, UiSet, Explained
    <3>2. Faded(w)
      BY <1>3 DEF Clear, UiSet, Faded
    <3>3. QED
      BY <2>1, <3>1, <3>2 DEF Clear
  <2> HIDE DEF w
  <2>3. QED
    BY <1>2, <2>2 DEF OpenDetailPanel, w
<1>4. Clear(OpenOverviewPanel(u))
  <2> DEFINE w == [u EXCEPT !.net = None]
  <2>1. w \in UiSet
    BY <1>1 DEF Clear, UiSet
  <2>2. Clear(w)
    BY <2>1, ClearAgain DEF SameShow, Clear, UiSet
  <2> HIDE DEF w
  <2>3. QED
    BY <1>1, <1>3, <2>2 DEF OpenOverviewPanel, w
<1>5. ASSUME NEW v, Clear(v)
      PROVE  Clear(RestoreInsight(v))
  <2>1. v \in UiSet /\ RestoreInsight(v) \in UiSet
    BY <1>5, RestoreInsightType DEF Clear
  <2>2. Explained(RestoreInsight(v))
    BY <1>5, <2>1 DEF Clear, UiSet, Explained, RestoreInsight
  <2>3. SameShow(v, RestoreInsight(v))
    BY <2>1 DEF UiSet, SameShow, RestoreInsight
  <2>4. QED
    BY <1>5, <2>1, <2>2, <2>3, ShowIsFaded DEF Clear
<1>6. Clear(UpdatePrivateNetUI(u))
  <2>1. Clear(RenderDonut(u)) /\ RenderDonut(u).net \in NetOrNone
    BY HidingIsClear DEF Clear, UiSet
  <2>2. Clear(RefreshPanel(RenderDonut(u)))
    BY <1>2, <2>1 DEF RefreshPanel
  <2>3. QED
    BY <1>5, <2>2 DEF UpdatePrivateNetUI
<1>7. QED
  BY <1>2, <1>3, <1>4, <1>6

LEMMA SelectIsClear ==
  ASSUME NEW u, Clear(u), NEW p \in Peers
  PROVE  Clear(SelectPrivatePeer(u, p))
<1> DEFINE a == [u EXCEPT !.peer = p, !.line = p, !.list = FALSE]
           v == HideSubTooltip(a)
           w == IF InsightPeer(v) # p THEN DismissRect(v) ELSE v
           x == [w EXCEPT !.popup = None, !.coming = {p}]
<1>1. Clear(a)
  <2>1. a \in UiSet
    BY DEF Clear, UiSet, PeerOrNone
  <2>2. /\ a.peer = p /\ a.line = p /\ a.preview = u.preview /\ a.saved = u.saved
        /\ a.tip = u.tip /\ a.rect = u.rect /\ SameShow(u, a)
    BY DEF Clear, UiSet, SameShow
  <2>3. QED
    BY <2>1, <2>2, ShowIsFaded DEF Clear, Explained
<1> HIDE DEF a
<1>2. Clear(v)
  BY <1>1, HidingIsClear
<1> HIDE DEF v
<1>3. Clear(w)
  BY <1>2, HidingIsClear
<1> HIDE DEF w
<1>4. Clear(x)
  <2>1. {p} \in SUBSET Peers /\ None \in PeerOrNone
    BY DEF PeerOrNone
  <2>2. x \in UiSet
    BY <1>3, <2>1 DEF Clear, UiSet
  <2>3. QED
    BY <1>3, <2>2, ClearAgain DEF SameShow, Clear, UiSet
<1> HIDE DEF x
<1>5. Clear(UpdatePrivateNetUI(x))
  BY <1>4, PanelIsClear DEF NetOrNone
<1>6. SelectPrivatePeer(u, p) \in {u, UpdatePrivateNetUI(x)}
  BY DEF SelectPrivatePeer, x, w, v, a
<1>7. QED
  BY <1>5, <1>6

LEMMA EnterIsClear ==
  ASSUME NEW u, Clear(u), NEW p \in PeerOrNone, NEW n \in NetOrNone
  PROVE  Clear(EnterPrivateNetMode(u, p, n))
<1>1. CASE u.mode
  BY <1>1, SelectIsClear DEF EnterPrivateNetMode, Truthy, PeerOrNone
<1>2. CASE ~u.mode
  <2> DEFINE a == [u EXCEPT !.mode = TRUE, !.net = n, !.list = FALSE, !.group = None,
                            !.box = TRUE, !.hidden = @ \ {"box"}]
             w == UpdatePrivateNetUI(HideSubTooltip(a))
  <2>1. a \in UiSet
    BY DEF Clear, UiSet, IdsOrNone
  <2>2. Clear(a)
    <3>1. Explained(a)
      BY DEF Clear, UiSet, Explained
    <3>2. Faded(a)
      BY DEF Clear, UiSet, Faded
    <3>3. QED
      BY <2>1, <3>1, <3>2 DEF Clear
  <2> HIDE DEF a
  <2>3. Clear(w)
    BY <2>2, HidingIsClear, PanelIsClear
  <2>4. \E t : EnterPrivateNetMode(u, p, n) = [w EXCEPT !.entry = t]
    BY <1>2 DEF EnterPrivateNetMode, w, a
  <2> HIDE DEF w
  <2>5. PICK t : EnterPrivateNetMode(u, p, n) = [w EXCEPT !.entry = t]
    BY <2>4
  <2>6. EnterPrivateNetMode(u, p, n) \in UiSet
    BY <1>2, EnterType DEF Clear
  <2>7. QED
    BY <2>3, <2>5, <2>6, ClearAgain DEF SameShow, Clear, UiSet
<1>3. QED
  BY <1>1, <1>2

LEMMA PointerIsClear ==
  ASSUME Clear(ui), TypeOK', Pointer
  PROVE  Clear(ui')
<1>1. ui \in UiSet /\ ui' \in UiSet /\ Explained(ui)
  BY DEF Clear, TypeOK
<1>0. Faded(ui')
  BY PointerKept, ShowIsFaded DEF Clear, TypeOK, Kept, Calm
<1>2. \/ SegmentHover \/ SegmentLeave \/ RowEnter \/ RowLeave
      \/ InsightEnter \/ InsightLeave \/ TipEnter \/ TipLeave
  BY DEF Pointer
<1>3. CASE SegmentHover
  BY <1>1, <1>3, ClearAgain DEF SameShow, SegmentHover, UiSet
<1>4. CASE SegmentLeave
  BY <1>1, <1>4, ClearAgain DEF SameShow, SegmentLeave, UiSet
<1>5. CASE RowEnter
  <2>1. PICK ids \in RowIds \ {{}} :
          LET v == [ui EXCEPT !.over = [row |-> ids]] IN
          ui' = IF Pinned(v) \/ v.insight # None THEN v
                ELSE [v EXCEPT !.preview = ids,
                        !.tip = [ids |-> ids, pinned |-> FALSE, live |-> TRUE]]
    BY <1>5 DEF RowEnter
  <2> DEFINE v == [ui EXCEPT !.over = [row |-> ids]]
             tip == [ids |-> ids, pinned |-> FALSE, live |-> TRUE]
  <2>2. ids \in SUBSET Peers
    BY <1>1, RowIdsType DEF TypeOK
  <2>3. tip # None
    <3>1. tip \in TipSet
      BY <2>2 DEF TipSet
    <3>2. QED
      BY <3>1, NoneAssumption
  <2>4. ui' = v \/ ui' = [v EXCEPT !.preview = ids, !.tip = tip]
    BY <2>1
  <2> HIDE DEF tip
  <2>5. CASE ui' = v
    BY <1>1, <2>5, ClearAgain DEF SameShow, UiSet
  <2>6. CASE ui' = [v EXCEPT !.preview = ids, !.tip = tip]
    <3>1. ui'.tip = tip /\ ui'.line = ui.line /\ ui'.peer = ui.peer /\ ui'.rect = ui.rect
      BY <1>1, <2>6 DEF UiSet
    <3>2. QED
      BY <1>0, <1>1, <2>3, <3>1 DEF Clear, Explained
  <2>7. QED
    BY <2>4, <2>5, <2>6
<1>6. CASE RowLeave
  <2> DEFINE v == [ui EXCEPT !.over = None]
  <2>1. v \in UiSet
    BY <1>1 DEF UiSet
  <2>2. Clear(v)
    BY <1>1, <2>1, ClearAgain DEF SameShow, UiSet
  <2>3. ui' = v \/ ui' = HideSubTooltip(v)
    BY <1>6 DEF RowLeave
  <2> HIDE DEF v
  <2>4. QED
    BY <2>2, <2>3, HidingIsClear
<1>7. CASE InsightEnter
  <2>1. PICK i \in InsightSet :
          LET v == [ui EXCEPT !.over = [insight |-> i]] IN
          ui' = v \/ ui' = [v EXCEPT !.rect = TRUE, !.preview = {i.peer}, !.line = i.peer]
    BY <1>7 DEF InsightEnter
  <2> DEFINE v == [ui EXCEPT !.over = [insight |-> i]]
  <2>2. CASE ui' = v
    BY <1>1, <2>2, ClearAgain DEF SameShow, UiSet
  <2>3. CASE ui' = [v EXCEPT !.rect = TRUE, !.preview = {i.peer}, !.line = i.peer]
    <3>1. ui'.rect /\ ui'.saved = ui.saved /\ ui'.tip = ui.tip
      BY <1>1, <2>3 DEF UiSet
    <3>2. QED
      BY <1>0, <1>1, <3>1 DEF Clear, Explained
  <2>4. QED
    BY <2>1, <2>2, <2>3
<1>8. CASE InsightLeave
  <2> DEFINE v == [ui EXCEPT !.over = None]
             w == [HideRect(v) EXCEPT !.preview = None, !.line = None]
  <2>1. ui' = v \/ ui' = w
    BY <1>8 DEF InsightLeave
  <2>2. CASE ui' = v
    BY <1>1, <2>2, ClearAgain DEF SameShow, UiSet
  <2>3. CASE ui' = w
    <3>1. ui'.preview = None /\ ui'.line = None /\ ui'.saved = ui.saved /\ ui'.tip = ui.tip
      BY <1>1, <2>3 DEF UiSet, HideRect
    <3>2. QED
      BY <1>0, <1>1, <3>1 DEF Clear, Explained
  <2>4. QED
    BY <2>1, <2>2, <2>3
<1>9. CASE TipEnter
  <2>1. ui'.tip = ui.tip /\ ui'.line = ui.line /\ ui'.peer = ui.peer /\ ui'.rect = ui.rect
    BY <1>1, <1>9 DEF TipEnter, UiSet
  <2>2. ui.tip # None
    BY <1>9 DEF TipEnter, Pinned
  <2>3. QED
    BY <1>0, <1>1, <2>1, <2>2 DEF Clear, Explained
<1>10. CASE TipLeave
  <2>1. /\ ui'.preview = ui.saved /\ ui'.saved = None /\ ui'.tip = ui.tip
        /\ ui'.line = ui.line /\ ui'.peer = ui.peer /\ ui'.rect = ui.rect
    BY <1>1, <1>10 DEF TipLeave, UiSet
  <2>2. QED
    BY <1>0, <1>1, <2>1 DEF Clear, Explained
<1>11. QED
  BY <1>2, <1>3, <1>4, <1>5, <1>6, <1>7, <1>8, <1>9, <1>10

LEMMA NetIsClear ==
  ASSUME NEW u, Clear(u), NEW n \in NetOrNone
  PROVE  Clear([u EXCEPT !.net = n])
<1>1. [u EXCEPT !.net = n] \in UiSet
  BY DEF Clear, UiSet
<1>2. QED
  BY <1>1, ClearAgain DEF SameShow, Clear, UiSet

LEMMA NavigationIsClear ==
  ASSUME Clear(ui),
         SegmentClick \/ CenterClick \/ RectClose \/ Back \/ (Chip /\ ui.mode)
  PROVE  Clear(ui')
<1>1. None \in NetOrNone /\ Nets \subseteq NetOrNone
  BY DEF NetOrNone
<1>2. CASE SegmentClick
  <2> DEFINE n == ui.over.segment
             v == DismissRect(ui)
             a == [v EXCEPT !.net = None]
             b == [v EXCEPT !.net = n]
  <2>1. n \in NetOrNone
    BY <1>1, <1>2, OverType DEF SegmentClick, Clear
  <2>2. Clear(v)
    BY HidingIsClear
  <2>3. \/ ui' = UpdatePrivateNetUI(ClosePanel(a))
        \/ ui' = UpdatePrivateNetUI(OpenDetailPanel(b, n))
    BY <1>2 DEF SegmentClick
  <2> HIDE DEF n, v
  <2>4. Clear(a) /\ Clear(b)
    BY <1>1, <2>1, <2>2, NetIsClear
  <2> HIDE DEF a, b
  <2>5. Clear(ClosePanel(a)) /\ Clear(OpenDetailPanel(b, n))
    BY <2>1, <2>4, HidingIsClear, PanelIsClear
  <2>6. QED
    BY <1>1, <2>3, <2>5, PanelIsClear
<1>3. CASE CenterClick
  <2> DEFINE v == IF ui.peer # None THEN ClosePopup(DeselectPeer(ui)) ELSE ui
  <2>1. Clear(v)
    BY HidingIsClear
  <2>2. ui' = UpdatePrivateNetUI(OpenOverviewPanel(v))
    BY <1>3 DEF CenterClick
  <2> HIDE DEF v
  <2>3. Clear(OpenOverviewPanel(v))
    BY <1>1, <2>1, PanelIsClear
  <2>4. QED
    BY <1>1, <2>2, <2>3, PanelIsClear
<1>4. CASE RectClose
  BY <1>4, HidingIsClear DEF RectClose
<1>5. CASE Back
  <2> DEFINE v == [ui EXCEPT !.net = None]
  <2>1. ui' = UpdatePrivateNetUI(UpdatePanel(HideSubTooltip(v), None))
    BY <1>5 DEF Back
  <2>2. Clear(v)
    BY <1>1, NetIsClear
  <2> HIDE DEF v
  <2>3. Clear(UpdatePanel(HideSubTooltip(v), None))
    BY <1>1, <2>2, HidingIsClear, PanelIsClear
  <2>4. QED
    BY <1>1, <2>1, <2>3, PanelIsClear
<1>6. CASE Chip /\ ui.mode
  <2>1. PICK n \in Nets :
          ui' = UpdatePrivateNetUI(OpenDetailPanel([ui EXCEPT !.net = n], n))
    BY <1>6 DEF Chip
  <2> DEFINE v == [ui EXCEPT !.net = n]
  <2>2. Clear(v)
    BY <1>1, NetIsClear
  <2> HIDE DEF v
  <2>3. Clear(OpenDetailPanel(v, n))
    BY <1>1, <2>2, PanelIsClear
  <2>4. QED
    BY <1>1, <2>1, <2>3, PanelIsClear DEF v
<1>7. QED
  BY <1>2, <1>3, <1>4, <1>5, <1>6

LEMMA RowIsClear ==
  ASSUME Clear(ui), TypeOK', RowClick \/ BodyClick \/ InsightClick
  PROVE  Clear(ui')
<1>1. ui \in UiSet /\ ui' \in UiSet
  BY DEF Clear, TypeOK
<1>2. CASE RowClick
  <2> DEFINE v   == DismissRect(ui)
             ids == ui.over.row
             tip == [ids |-> ids, pinned |-> TRUE, live |-> TRUE]
  <2>1. Clear(v)
    BY HidingIsClear
  <2>2. tip # None
    <3>1. ids \in SUBSET Peers
      BY <1>1, <1>2, OverType DEF RowClick
    <3>2. tip \in TipSet
      BY <3>1 DEF TipSet
    <3>3. QED
      BY <3>2, NoneAssumption
  <2>3. ui' = HideSubTooltip(v) \/ ui' = [v EXCEPT !.preview = ids, !.tip = tip]
    BY <1>2 DEF RowClick
  <2> HIDE DEF v, ids, tip
  <2>4. CASE ui' = [v EXCEPT !.preview = ids, !.tip = tip]
    <3>1. /\ ui'.tip = tip /\ ui'.line = v.line /\ ui'.peer = v.peer /\ ui'.rect = v.rect
          /\ SameShow(v, ui')
      BY <2>1, <2>4 DEF Clear, UiSet, SameShow
    <3>2. QED
      BY <1>1, <2>1, <2>2, <3>1, ShowIsFaded DEF Clear, Explained
  <2>5. QED
    BY <2>1, <2>3, <2>4, HidingIsClear
<1>3. CASE BodyClick
  BY <1>3, HidingIsClear DEF BodyClick
<1>4. CASE InsightClick
  <2> DEFINE i == ui.over.insight
             p == i.peer
             v == [ui EXCEPT !.insight = i, !.rect = TRUE, !.line = p, !.preview = {p}]
  <2>1. i \in InsightSet
    BY <1>1, <1>4, OverType DEF InsightClick
  <2>2. p \in Peers
    BY <2>1 DEF InsightSet
  <2>3. \/ ui' = ClearInsight(HideRect(ui)) \/ ui' = ui \/ ui' = SelectPrivatePeer(v, p)
    BY <1>4 DEF InsightClick
  <2> HIDE DEF i, p
  <2>4. v \in UiSet
    BY <1>1, <2>1, <2>2 DEF UiSet, PeerOrNone, IdsOrNone
  <2>5. v.rect /\ v.saved = ui.saved /\ v.tip = ui.tip /\ SameShow(ui, v)
    BY <1>1 DEF UiSet, SameShow
  <2>6. Clear(v)
    BY <2>4, <2>5, ShowIsFaded DEF Clear, Explained
  <2> HIDE DEF v
  <2>7. QED
    BY <2>2, <2>3, <2>6, HidingIsClear, SelectIsClear
<1>5. QED
  BY <1>2, <1>3, <1>4

LEMMA MapIsClear ==
  ASSUME Clear(ui), TypeOK',
         TipClick \/ DotClick \/ SeaClick \/ ListClick \/ ListClose \/ PopupClose
  PROVE  Clear(ui')
<1>1. None \in NetOrNone /\ ui \in UiSet /\ ui' \in UiSet
  BY DEF NetOrNone, Clear, TypeOK
<1>2. CASE TipClick
  BY <1>1, <1>2, OverType, SelectIsClear DEF TipClick
<1>3. CASE DotClick
  <2>1. PICK G \in (SUBSET ui.peers) \ {{}} :
          \/ ui' = [ui EXCEPT !.group = G, !.list = TRUE]
          \/ ui' = SelectPrivatePeer(ui, CHOOSE p \in G : TRUE)
    BY <1>3 DEF DotClick
  <2>2. (CHOOSE p \in G : TRUE) \in Peers
    BY <1>1 DEF UiSet
  <2>3. ASSUME ui' = [ui EXCEPT !.group = G, !.list = TRUE]
        PROVE  Clear(ui')
    BY <1>1, <2>3, ClearAgain DEF SameShow, UiSet
  <2>4. QED
    BY <2>1, <2>2, <2>3, SelectIsClear
<1>4. CASE SeaClick
  <2> DEFINE a == DeselectPeer(ui)
             b == [a EXCEPT !.list = FALSE]
  <2>1. Clear(a)
    BY HidingIsClear
  <2> HIDE DEF a
  <2>2. b \in UiSet
    BY <2>1 DEF Clear, UiSet
  <2>3. Clear(b)
    BY <2>1, <2>2, ClearAgain DEF SameShow, Clear, UiSet
  <2>4. ui' = UpdatePrivateNetUI(DismissRect(HideSubTooltip(ClosePopup(b))))
    BY <1>4 DEF SeaClick, a
  <2> HIDE DEF b
  <2>5. Clear(DismissRect(HideSubTooltip(ClosePopup(b))))
    BY <2>3, HidingIsClear
  <2>6. QED
    BY <1>1, <2>4, <2>5, PanelIsClear
<1>5. CASE ListClick
  <2>1. PICK p \in ui.group : ui' = SelectPrivatePeer([ui EXCEPT !.list = FALSE], p)
    BY <1>5 DEF ListClick
  <2> DEFINE v == [ui EXCEPT !.list = FALSE]
  <2>2. v \in UiSet /\ v.peers \subseteq Peers
    BY <1>1 DEF UiSet
  <2>3. Clear(v)
    BY <1>1, <2>2, ClearAgain DEF SameShow, UiSet
  <2> HIDE DEF v
  <2>4. CASE p \in Peers
    BY <2>1, <2>3, <2>4, SelectIsClear DEF v
  <2>5. CASE p \notin Peers
    BY <2>1, <2>2, <2>3, <2>5 DEF SelectPrivatePeer, v
  <2>6. QED
    BY <2>4, <2>5
<1>6. CASE ListClose
  <2>1. ui' = [ui EXCEPT !.list = FALSE, !.group = None]
    BY <1>6 DEF ListClose
  <2>2. QED
    BY <1>1, <2>1, ClearAgain DEF SameShow, UiSet
<1>7. CASE PopupClose
  <2>1. Clear(DeselectPeer(ClosePopup(ui)))
    BY HidingIsClear
  <2>2. QED
    BY <1>1, <1>7, <2>1, PanelIsClear DEF PopupClose
<1>8. QED
  BY <1>2, <1>3, <1>4, <1>5, <1>6, <1>7

LEMMA TimerIsClear ==
  ASSUME Clear(ui), TypeOK', Timer
  PROVE  Clear(ui')
<1>1. ui \in UiSet /\ ui' \in UiSet
  BY DEF Clear, TypeOK
<1>2. CASE EntryTimer
  <2>1. PICK i \in 1..Len(ui.entry) :
          LET step == ui.entry[i]
              v    == [ui EXCEPT !.entry = Without(ui.entry, i)]
          IN  /\ step \in StepSet /\ v \in UiSet
              /\ ui' = IF step.do = "select" THEN SelectPrivatePeer(v, step.of)
                       ELSE IF step.of = None THEN OpenOverviewPanel(v)
                       ELSE OpenDetailPanel(v, step.of)
    BY <1>1, <1>2, EntryStep DEF TypeOK
  <2> DEFINE step == ui.entry[i]
             v    == [ui EXCEPT !.entry = Without(ui.entry, i)]
  <2>2. /\ step \in StepSet /\ v \in UiSet
        /\ ui' = IF step.do = "select" THEN SelectPrivatePeer(v, step.of)
                 ELSE IF step.of = None THEN OpenOverviewPanel(v)
                 ELSE OpenDetailPanel(v, step.of)
    BY <2>1
  <2>3. Clear(v)
    BY <1>1, <2>2, ClearAgain DEF SameShow, UiSet
  <2> HIDE DEF step, v
  <2>4. CASE step.do = "select"
    <3>1. step.of \in Peers
      BY <2>2, <2>4 DEF StepSet
    <3>2. QED
      BY <2>2, <2>3, <2>4, <3>1, SelectIsClear
  <2>5. CASE step.do # "select"
    <3>1. step.of \in NetOrNone
      BY <2>2, <2>5 DEF StepSet
    <3>2. QED
      BY <2>2, <2>3, <2>5, <3>1, PanelIsClear
  <2>6. QED
    BY <2>4, <2>5
<1>3. CASE PopupTimer
  BY <1>1, <1>3, ClearAgain DEF SameShow, PopupTimer, UiSet
<1>4. CASE HideTimer
  <2>1. PICK x \in ui.hides : \E more \in SUBSET {x} :
          ui' = [ui EXCEPT !.hides = (@ \ {x}) \cup more, !.hidden = @ \cup {x}]
    BY <1>4 DEF HideTimer
  <2>2. /\ ui'.panel.shown = ui.panel.shown /\ ui'.box = ui.box
        /\ ui.hidden \cup ui.hides \subseteq ui'.hidden \cup ui'.hides
    BY <1>1, <2>1 DEF UiSet
  <2>3. Explained(ui')
    BY <1>1, <2>1 DEF UiSet, Clear, Explained
  <2>4. QED
    BY <1>1, <2>2, <2>3 DEF Clear, Faded
<1>5. QED
  BY <1>2, <1>3, <1>4 DEF Timer

LEMMA EntryIsClear ==
  ASSUME Clear(ui), TypeOK', Entering \/ Exit \/ Poll
  PROVE  Clear(ui')
<1>1. ui \in UiSet /\ ui' \in UiSet /\ None \in NetOrNone /\ None \in PeerOrNone
  BY DEF Clear, TypeOK, NetOrNone, PeerOrNone
<1>2. CASE Entering
  <2>1. \E p \in PeerOrNone, n \in NetOrNone : ui' = EnterPrivateNetMode(ui, p, n)
    <3>1. CASE EnterWithPeer
      BY <1>1, <3>1 DEF EnterWithPeer, UiSet, PeerOrNone
    <3>2. CASE EnterWithNet
      BY <1>1, <3>2 DEF EnterWithNet
    <3>3. CASE Chip /\ ~ui.mode
      BY <1>1, <3>3 DEF Chip, NetOrNone
    <3>4. QED
      BY <1>2, <3>1, <3>2, <3>3 DEF Entering
  <2>2. QED
    BY <2>1, EnterIsClear
<1>3. CASE Exit
  <2>1. Nothing(ui') /\ ui'.saved = None /\ ui'.hides = Parts
    BY <1>1, <1>3, ExitSteps DEF TypeOK
  <2>2. QED
    BY <1>1, <2>1 DEF Nothing, Clear, Explained, Faded, Parts
<1>4. CASE Poll
  <2>1. PICK P \in SUBSET Peers :
          LET v == UpdatePrivateNetUI([ui EXCEPT !.peers = P])
          IN  ui' = EnterPrivateNetMode(v, None, None) \/ ui' = v
    BY <1>4, PrivateNetAssumption DEF Poll
  <2> DEFINE u == [ui EXCEPT !.peers = P]
             v == UpdatePrivateNetUI(u)
  <2>2. u \in UiSet
    BY <1>1 DEF UiSet
  <2>3. Clear(u)
    BY <1>1, <2>2, ClearAgain DEF SameShow, UiSet
  <2>4. ui' = EnterPrivateNetMode(v, None, None) \/ ui' = v
    BY <2>1
  <2> HIDE DEF u
  <2>5. Clear(v)
    BY <1>1, <2>3, PanelIsClear
  <2> HIDE DEF v
  <2>6. QED
    BY <1>1, <2>4, <2>5, EnterIsClear
<1>5. QED
  BY <1>2, <1>3, <1>4

LEMMA ClearStep == TypeOK /\ TypeOK' /\ Clear(ui) /\ [Next]_ui => Clear(ui')
<1> SUFFICES ASSUME TypeOK, TypeOK', Clear(ui), [Next]_ui
             PROVE  Clear(ui')
  OBVIOUS
<1>1. ui.mode \in BOOLEAN
  BY DEF TypeOK, UiSet
<1>2. CASE Pointer
  BY <1>2, PointerIsClear
<1>3. CASE Timer
  BY <1>3, TimerIsClear
<1>4. CASE Poll
  BY <1>4, EntryIsClear
<1>5. CASE Input
  BY <1>1, <1>5, EntryIsClear, NavigationIsClear, RowIsClear, MapIsClear
  DEF Input, Entering
<1>6. CASE UNCHANGED ui
  BY <1>6
<1>7. QED
  BY <1>2, <1>3, <1>4, <1>5, <1>6 DEF Next

Clarity == Clear(ui)

LEMMA ClearAlways == Spec => []Clarity
<1>1. Init => Clarity
  BY InitType DEF Init, TypeOK, Clarity, Clear, Explained, Faded, Parts
<1>2. TypeOK /\ TypeOK' /\ Clarity /\ [Next]_ui => Clarity'
  BY ClearStep DEF Clarity
<1>3. QED
  BY <1>1, <1>2, TypeCorrect, PTL DEF Spec

(* Every previewed peer and every line to a single one has its reason on   *)
(* the screen, in every order of clicks, pointer moves, polls and timers.  *)
THEOREM LinesHaveReasons == Spec => []LinesAreExplained
<1>1. Clarity => LinesAreExplained
  BY DEF Clarity, Clear, Explained, LinesAreExplained
<1>2. QED
  BY <1>1, ClearAlways, PTL

-----------------------------------------------------------------------------
(***************************************************************************)
(* Leaving.  Out of the mode, when all has faded, the donut and the panel  *)
(* are hidden, so that nothing of them can be entered or clicked, and no   *)
(* preview is saved for the pointer's leaving to put back.                 *)
(***************************************************************************)
Gone(u) == ~u.mode /\ Nothing(u) /\ u.hides = {}

LEMMA GonePointer ==
  ASSUME Clear(ui), Gone(ui), Pointer
  PROVE  Nothing(ui')
<1>1. /\ ui \in UiSet /\ ui.saved = None
      /\ "panel" \in ui.hidden /\ "box" \in ui.hidden
  BY DEF Clear, Explained, Faded, Gone, Nothing
<1>2. \/ SegmentHover \/ SegmentLeave \/ RowEnter \/ RowLeave
      \/ InsightEnter \/ InsightLeave \/ TipEnter \/ TipLeave
  BY DEF Pointer
<1>3. ~SegmentHover /\ ~RowEnter /\ ~InsightEnter /\ ~TipEnter
  BY <1>1 DEF SegmentHover, RowEnter, InsightEnter, TipEnter, BoxReady, PanelReady,
     Pinned, Gone, Nothing
<1>4. CASE SegmentLeave
  BY <1>1, <1>4 DEF SegmentLeave, UiSet, Gone, Nothing
<1>5. CASE RowLeave
  <2>1. ui' = [ui EXCEPT !.over = None] \/ ui' = HideSubTooltip([ui EXCEPT !.over = None])
    BY <1>5 DEF RowLeave
  <2>2. QED
    BY <1>1, <2>1 DEF UiSet, Gone, Nothing, HideSubTooltip
<1>6. CASE InsightLeave
  <2> DEFINE v == [ui EXCEPT !.over = None]
  <2>1. ui' = v \/ ui' = [HideRect(v) EXCEPT !.preview = None, !.line = None]
    BY <1>6 DEF InsightLeave
  <2>2. v \in UiSet /\ Nothing(v)
    BY <1>1 DEF UiSet, Gone, Nothing
  <2> HIDE DEF v
  <2> DEFINE r == HideRect(v)
  <2>3. r \in UiSet /\ Nothing(r)
    BY <2>2, HideRectType DEF HideRect, UiSet, Nothing
  <2> HIDE DEF r
  <2>4. CASE ui' = [r EXCEPT !.preview = None, !.line = None]
    BY <2>3, <2>4 DEF UiSet, Nothing
  <2>5. QED
    BY <2>1, <2>2, <2>4 DEF r
<1>7. CASE TipLeave
  BY <1>1, <1>7 DEF TipLeave, UiSet, Gone, Nothing
<1>8. QED
  BY <1>2, <1>3, <1>4, <1>5, <1>6, <1>7

LEMMA GoneSteps ==
  ASSUME Clear(ui), Gone(ui), Staying
  PROVE  Pointer
<1>1. "panel" \in ui.hidden /\ "box" \in ui.hidden /\ ~ui.mode
  BY DEF Clear, Faded, Gone, Nothing
<1>2. /\ ~SegmentClick /\ ~CenterClick /\ ~RectClose /\ ~RowClick /\ ~BodyClick
      /\ ~InsightClick /\ ~Back
  BY <1>1 DEF SegmentClick, CenterClick, RectClose, RowClick, BodyClick, InsightClick, Back,
     BoxReady, PanelReady
<1>3. /\ ~TipClick /\ ~DotClick /\ ~SeaClick /\ ~ListClick /\ ~ListClose
      /\ ~PopupClose /\ ~PopupTimer /\ ~HideTimer
  BY <1>1 DEF TipClick, DotClick, SeaClick, ListClick, ListClose, PopupClose, PopupTimer,
     HideTimer, Inside, Pinned, Gone, Nothing
<1>4. QED
  BY <1>1, <1>2, <1>3 DEF Staying

LEMMA GonePoll ==
  ASSUME TypeOK, Nothing(ui), Poll, ~ui'.mode
  PROVE  Nothing(ui')
<1>1. PICK P \in SUBSET Peers : ui' = [ui EXCEPT !.peers = P]
  BY PollSteps
<1>2. QED
  BY <1>1 DEF TypeOK, UiSet, Nothing

(* exitPrivateNetMode takes away all that the mode has put up, and out of  *)
(* the mode, when the donut and the panel have faded, only a timer of an   *)
(* entry, which nothing calls back, brings anything of it back.            *)
THEOREM LeavingSticks == Spec => LeavingIsFinal
<1>1. TypeOK /\ Clarity /\ [Next]_ui
        => [~ui'.mode /\ (ui.mode \/ (Nothing(ui) /\ ui.hides = {}))
              => Nothing(ui') \/ EntryTimer]_ui
  <2> SUFFICES ASSUME TypeOK, Clear(ui), Next, ~ui'.mode,
                      ui.mode \/ (Nothing(ui) /\ ui.hides = {}), ~EntryTimer
               PROVE  Nothing(ui')
    BY DEF Clarity
  <2>1. ~Entering
    BY EnterSteps DEF Entering
  <2>2. CASE Exit
    BY <2>2, ExitSteps
  <2>3. CASE Staying
    <3>1. ~ui.mode
      BY <2>3, StayingSteps DEF Stays
    <3>2. Gone(ui)
      BY <3>1 DEF Gone
    <3>3. QED
      BY <2>3, <3>2, GoneSteps, GonePointer
  <2>4. CASE Poll
    <3>1. ~ui.mode
      BY <2>4, PollSteps
    <3>2. QED
      BY <2>4, <3>1, GonePoll
  <2>5. QED
    BY <2>1, <2>2, <2>3, <2>4, Cases
<1>2. QED
  BY <1>1, TypeCorrect, ClearAlways, PTL DEF Spec, LeavingIsFinal
=============================================================================
