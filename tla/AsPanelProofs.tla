---------------------------- MODULE AsPanelProofs ----------------------------
(***************************************************************************)
(* Proofs about the AS distribution's panel, for any peers, systems, rows  *)
(* and inputs, in four parts:                                              *)
(*   1. selection, panel and tooltips agree;                               *)
(*   2. every field keeps its domain, and under a selection no filter is   *)
(*      left without the tooltip that explains it;                         *)
(*   3. whatever is open, a few keys or clicks on the map close it;        *)
(*   4. a refresh with nothing new changes nothing.                        *)
(*                                                                         *)
(* Some seventy operators make up the handlers.  Most of them only draw,   *)
(* filter, or take tooltips away; relation Less says so of an operator     *)
(* once and for all, and whatever is Less keeps the invariant of part 1.   *)
(* The few that select, deselect and build the panel have a lemma each on  *)
(* what they leave behind, because they call each other in states in which *)
(* the invariant does not hold.  Parts 2 to 4 stand on the parts before.   *)
(***************************************************************************)
EXTENDS AsPanel, TLAPS, FiniteSetTheorems, WellFoundedInduction


Names ==
  {"peers", "sel", "summary", "focused", "net", "panel", "history", "others", "hoverAll",
   "sub", "tip", "subsub", "insight", "rect", "legend", "hovered", "popup", "detail",
   "selPeer", "timers", "filter", "lines", "over"}
IsUi(u) == DOMAIN u = Names

-----------------------------------------------------------------------------
(***************************************************************************)
(* The invariant.  ViewsAgree alone is not inductive: a row or a link of a *)
(* tooltip selects a provider whatever is selected, so it may only be on   *)
(* the screen in the focused mode and has to name a provider.              *)
(***************************************************************************)
TipNames   == {"row", "ids", "pinned", "live"}
IsTip(tip) == tip # None => DOMAIN tip = TipNames

\* The assumption of all parts: no tooltip is None.
NoneIsNoTip == DOMAIN None # TipNames

Views(u) ==
  /\ ~(u.sel # None /\ u.summary)
  /\ ~u.focused => u.sel = None /\ ~u.summary /\ u.net = None /\ u.others = None
  /\ u.net = None => /\ u.summary => u.panel.kind = "summary"
                     /\ u.sel = None /\ ~u.summary => u.panel = Closed
  /\ u.panel.kind = "summary" => u.sel # None \/ u.summary

\* What hangs over the panel: tooltips and the pointer.
Hung(u) ==
  /\ IsTip(u.tip)
  /\ u.subsub # None => Pinned(u)
  /\ Pinned(u) /\ u.tip.row.k \in {"conn-provider", "insight-stable"} => u.tip.row.v # None
  /\ u.over # None /\ u.over[1] \in {"seg", "others"} => u.over[2] # None

\* A pinned tooltip that links to providers stands beside a selection.
Linking(u) == Pinned(u) /\ u.tip.row.k \in NavTips => u.sel # None \/ u.summary

Agree(u) == IsUi(u) /\ Views(u) /\ Hung(u) /\ Linking(u)

-----------------------------------------------------------------------------
(***************************************************************************)
(* Relations between a state of the interface and a later one.             *)
(***************************************************************************)
SameTip(s, t) ==
  \/ t = s
  \/ s # None /\ t # None /\ DOMAIN t = DOMAIN s /\ t.pinned = s.pinned /\ t.row = s.row

\* No tooltip and no place of the pointer is new.
Calm(u, v) ==
  /\ IsUi(v)
  /\ v.over \in {u.over, None}
  /\ \/ SameTip(u.tip, v.tip) /\ (v.subsub # None => u.subsub # None)
     \/ v.tip = None /\ v.subsub = None

Flags(u, v) ==
  /\ v.sel = u.sel /\ v.summary = u.summary /\ v.focused = u.focused /\ v.net = u.net
  /\ v.others = u.others

Less(u, v) == Calm(u, v) /\ Flags(u, v) /\ v.panel = u.panel

LEMMA CalmOfCalm ==
  ASSUME NEW u, NEW v, NEW w, Calm(u, v), Calm(v, w)
  PROVE  Calm(u, w)
BY DEF Calm, SameTip

LEMMA LessOfLess ==
  ASSUME NEW u, NEW v, NEW w, Less(u, v), Less(v, w)
  PROVE  Less(u, w)
BY CalmOfCalm DEF Less, Flags

LEMMA LessOfItself ==
  ASSUME NEW u, IsUi(u)
  PROVE  Less(u, u)
BY DEF Less, Flags, Calm, SameTip

LEMMA CalmHangs ==
  ASSUME NEW u, NEW v, Hung(u), Calm(u, v)
  PROVE  Hung(v)
BY DEF Hung, Calm, SameTip, IsTip, Pinned

\* What links beside a selection does so beside any other.
LEMMA CalmLinks ==
  ASSUME NEW u, NEW v, Linking(u), Calm(u, v),
         u.sel # None \/ u.summary => v.sel # None \/ v.summary
  PROVE  Linking(v)
BY DEF Linking, Calm, SameTip, Pinned

LEMMA LessAgrees ==
  ASSUME NEW u, NEW v, Agree(u), Less(u, v)
  PROVE  Agree(v)
<1>1. IsUi(v) /\ Hung(v) /\ Linking(v)
  BY CalmHangs, CalmLinks DEF Agree, Less, Flags, Calm
<1>2. Views(v)
  BY DEF Agree, Less, Flags, Views
<1>3. QED
  BY <1>1, <1>2 DEF Agree

-----------------------------------------------------------------------------
(***************************************************************************)
(* Operators that only draw, filter and take away.                         *)
(***************************************************************************)
LEMMA SetField ==
  ASSUME NEW u, IsUi(u), NEW x
  PROVE  /\ Less(u, [u EXCEPT !.peers = x]) /\ Less(u, [u EXCEPT !.sub = x])
         /\ Less(u, [u EXCEPT !.legend = x]) /\ Less(u, [u EXCEPT !.insight = x])
         /\ Less(u, [u EXCEPT !.rect = x]) /\ Less(u, [u EXCEPT !.hoverAll = x])
         /\ Less(u, [u EXCEPT !.history = x]) /\ Less(u, [u EXCEPT !.over = None])
         /\ Less(u, [u EXCEPT !.hovered = x]) /\ Less(u, [u EXCEPT !.popup = x])
         /\ Less(u, [u EXCEPT !.timers = x]) /\ Less(u, [u EXCEPT !.detail = x])
         /\ Less(u, [u EXCEPT !.selPeer = x])
<1> USE DEF IsUi, Names, Less, Flags, Calm, SameTip
<1>1. Less(u, [u EXCEPT !.peers = x]) /\ Less(u, [u EXCEPT !.sub = x])
      /\ Less(u, [u EXCEPT !.legend = x]) /\ Less(u, [u EXCEPT !.insight = x])
  OBVIOUS
<1>2. Less(u, [u EXCEPT !.rect = x]) /\ Less(u, [u EXCEPT !.hoverAll = x])
      /\ Less(u, [u EXCEPT !.history = x]) /\ Less(u, [u EXCEPT !.over = None])
  OBVIOUS
<1>3. Less(u, [u EXCEPT !.hovered = x]) /\ Less(u, [u EXCEPT !.popup = x])
      /\ Less(u, [u EXCEPT !.timers = x])
  OBVIOUS
<1>4. Less(u, [u EXCEPT !.detail = x]) /\ Less(u, [u EXCEPT !.selPeer = x])
  OBVIOUS
<1>5. QED
  BY <1>1, <1>2, <1>3, <1>4

LEMMA DrawLess ==
  ASSUME NEW u, IsUi(u), NEW ids
  PROVE  Less(u, Filter(u, ids)) /\ Less(u, Draw(u, ids)) /\ Less(u, Show(u, ids))
<1>1. \A w : IsUi(w) => Less(w, Filter(w, ids)) /\ Less(w, Draw(w, ids))
  BY DEF IsUi, Names, Less, Flags, Calm, SameTip, Filter, Draw
<1>2. IsUi(Filter(u, ids))
  BY <1>1 DEF Less, Calm
<1>3. QED
  BY <1>1, <1>2, LessOfLess DEF Show

LEMMA LinesLess ==
  ASSUME NEW u, IsUi(u), NEW ids
  PROVE  /\ Less(u, ActivateHoverAll(u)) /\ Less(u, ShowAll(u))
         /\ Less(u, PreviewSummaryLines(u, ids)) /\ Less(u, PreviewProviderLines(u, ids))
<1>1. \A w, x : IsUi(w) => IsUi(Filter(w, x)) /\ Less(w, Filter(w, x)) /\ Less(w, Draw(w, x))
  BY DrawLess DEF Less, Calm
<1>2. \A w : IsUi(w) => Less(w, ActivateHoverAll(w))
  BY <1>1, LessOfItself DEF ActivateHoverAll
<1>3. Less(u, ShowAll(u))
  BY <1>1, <1>2, LessOfLess DEF ShowAll
<1>4. Less(u, PreviewSummaryLines(u, ids))
  BY <1>1, LessOfLess DEF PreviewSummaryLines
<1>5. Less(u, PreviewProviderLines(u, ids))
  BY <1>1, LessOfLess DEF PreviewProviderLines
<1>6. QED
  BY <1>2, <1>3, <1>4, <1>5

LEMMA TipLess ==
  ASSUME NEW u, IsUi(u)
  PROVE  /\ Less(u, HideSubSubTooltip(u)) /\ Less(u, HideSubTooltip(u))
         /\ HideSubTooltip(u).tip = None /\ HideSubTooltip(u).subsub = None
         /\ Less(u, ClearLegendFocus(u)) /\ Less(u, RenderDonut(u)) /\ Less(u, DropSub(u))
<1> USE DEF IsUi, Names, Less, Flags, Calm, SameTip
<1>1. Less(u, HideSubSubTooltip(u))
  BY DEF HideSubSubTooltip
<1>2. Less(u, HideSubTooltip(u))
      /\ HideSubTooltip(u).tip = None /\ HideSubTooltip(u).subsub = None
  BY DEF HideSubTooltip, HideSubSubTooltip
<1>3. Less(u, ClearLegendFocus(u)) /\ Less(u, RenderDonut(u)) /\ Less(u, DropSub(u))
  BY DEF ClearLegendFocus, RenderDonut, DropSub
<1>4. QED
  BY <1>1, <1>2, <1>3

\* The form in which these lemmas are used below.
LEMMA LessIsUi ==
  ASSUME NEW u, NEW v, Less(u, v)
  PROVE  IsUi(v)
BY DEF Less, Calm

LEMMA RestoreLess ==
  ASSUME NEW u, IsUi(u)
  PROVE  Less(u, RestoreSummaryFromPreview(u)) /\ Less(u, RestoreProviderFromPreview(u))
<1>1. Less(u, RestoreSummaryFromPreview(u))
  <2>1. \A a : IsUi([u EXCEPT !.legend = a]) /\ Less(u, [u EXCEPT !.legend = a])
    BY SetField, LessIsUi
  <2>2. \A a, ids : Less(u, Show([u EXCEPT !.legend = a], ids))
    BY <2>1, DrawLess, LessOfLess
  <2>3. \A a, ids, x : LET v == Filter([u EXCEPT !.legend = a], ids)
                       IN  Less(u, v) /\ Less(u, Draw(v, x))
    <3> TAKE a, ids, x
    <3> DEFINE v == Filter([u EXCEPT !.legend = a], ids)
    <3>1. Less(u, v)
      BY <2>1, DrawLess, LessOfLess
    <3>2. Less(v, Draw(v, x))
      BY <3>1, LessIsUi, DrawLess
    <3>3. QED
      BY <3>1, <3>2, LessOfLess
  <2>4. \A ids : Less(u, Show(u, ids)) /\ Less(u, PreviewSummaryLines(u, ids))
    BY DrawLess, LinesLess
  <2>5. Less(u, u) /\ Less(u, ShowAll(u))
    BY LessOfItself, LinesLess
  <2>6. QED
    BY <2>2, <2>3, <2>4, <2>5 DEF RestoreSummaryFromPreview
<1>2. Less(u, RestoreProviderFromPreview(u))
  BY DrawLess, LinesLess, LessOfItself DEF RestoreProviderFromPreview
<1>3. QED
  BY <1>1, <1>2

LEMMA ClosePopupLess ==
  ASSUME NEW u, IsUi(u)
  PROVE  Less(u, ClosePeerPopup(u)) /\ Less(u, MakeRoom(u))
<1> DEFINE v == [u EXCEPT !.detail = FALSE, !.selPeer = None,
                          !.popup = IF @ = None THEN @ ELSE [@ EXCEPT !.visible = FALSE],
                          !.timers = IF u.popup = None THEN @ ELSE @ + 1]
<1>1. Less(u, v)
  BY DEF IsUi, Names, Less, Flags, Calm, SameTip
<1>2. \/ \E ids : ClosePeerPopup(u) = Show(v, ids)
      \/ \E ids : ClosePeerPopup(u) = PreviewSummaryLines(v, ids)
      \/ ClosePeerPopup(u) = ShowAll(v) \/ ClosePeerPopup(u) = v
      \/ ClosePeerPopup(u) = Draw(Filter(v, None), {})
  BY DEF ClosePeerPopup
<1> HIDE DEF v
<1>3. IsUi(v)
  BY <1>1, LessIsUi
<1>4. Less(v, Filter(v, None)) /\ Less(Filter(v, None), Draw(Filter(v, None), {}))
  BY <1>3, DrawLess, LessIsUi
<1>5. Less(v, ClosePeerPopup(u))
  BY <1>2, <1>3, <1>4, DrawLess, LinesLess, LessOfItself, LessOfLess
<1>6. Less(u, ClosePeerPopup(u))
  BY <1>1, <1>5, LessOfLess
<1>7. QED
  BY <1>6, LessOfItself DEF MakeRoom

LEMMA ClearLess ==
  ASSUME NEW u, IsUi(u)
  PROVE  /\ Less(u, ClearSubFilter(u)) /\ Less(u, ClearSummarySubFilter(u))
         /\ Less(u, ToggleOff(u)) /\ Less(u, ToggleInsightOff(u))
<1>1. ASSUME NEW w, Less(u, w), NEW ids
      PROVE  /\ Less(u, Filter(w, ids)) /\ Less(u, Show(w, ids))
             /\ Less(u, ActivateHoverAll(w)) /\ Less(u, RenderDonut(w))
             /\ Less(u, HideSubTooltip(w)) /\ Less(u, DropSub(w))
             /\ Less(u, [w EXCEPT !.insight = None])
             /\ Less(u, [w EXCEPT !.rect = FALSE])
             /\ Less(u, [w EXCEPT !.insight = None, !.rect = FALSE])
  <2>1. IsUi(w)
    BY <1>1, LessIsUi
  <2>2. Less(w, [w EXCEPT !.insight = None, !.rect = FALSE])
    BY <2>1 DEF IsUi, Names, Less, Flags, Calm, SameTip
  <2>3. QED
    BY <1>1, <2>1, <2>2, DrawLess, LinesLess, TipLess, SetField, LessOfLess
<1>2. Less(u, u)
  BY LessOfItself
<1>3. Less(u, HideSubTooltip(DropSub(u))) /\ Less(u, DropSub(HideSubTooltip(u)))
  BY <1>1, <1>2
<1>4. Less(u, ClearSubFilter(u))
  BY <1>1, <1>3 DEF ClearSubFilter
<1>5. Less(u, ClearSummarySubFilter(u))
  <2>1. Less(u, HideSubTooltip([DropSub(u) EXCEPT !.insight = None]))
    BY <1>1, <1>2
  <2>2. QED
    BY <1>1, <2>1 DEF ClearSummarySubFilter
<1>6. Less(u, ToggleOff(u))
  BY <1>1, <1>3 DEF ToggleOff
<1>7. Less(u, ToggleInsightOff(u))
  BY <1>1, <1>3 DEF ToggleInsightOff
<1>8. QED
  BY <1>4, <1>5, <1>6, <1>7

-----------------------------------------------------------------------------
(***************************************************************************)
(* Building and closing the panel, selecting and deselecting.              *)
(***************************************************************************)
LEMMA BuildPanelEffect ==
  ASSUME NoneIsNoTip, NEW u, IsUi(u), IsTip(u.tip), NEW kind, NEW of
  PROVE  LET v == BuildPanel(u, kind, of) IN
         Calm(u, v) /\ Flags(u, v) /\ v.panel.kind = kind
<1> DEFINE v == BuildPanel(u, kind, of)
<1>1. IsUi(v) /\ Flags(u, v) /\ v.over \in {u.over, None} /\ v.subsub = u.subsub
  BY DEF IsUi, Names, Flags, BuildPanel
<1>2. v.panel.kind = kind
  BY DEF IsUi, Names, BuildPanel
<1>3. v.tip = IF u.tip = None THEN u.tip ELSE [u.tip EXCEPT !.live = FALSE]
  BY DEF IsUi, Names, BuildPanel
<1>4. SameTip(u.tip, v.tip)
  <2>1. CASE u.tip = None
    BY <1>3, <2>1 DEF SameTip
  <2>2. CASE u.tip # None
    <3>1. DOMAIN v.tip = TipNames
      BY <1>3, <2>2 DEF IsTip
    <3>2. v.tip # None
      BY <3>1 DEF NoneIsNoTip
    <3>3. QED
      BY <1>3, <2>2, <3>2 DEF SameTip, IsTip, TipNames
  <2>3. QED
    BY <2>1, <2>2
<1>5. QED
  BY <1>1, <1>2, <1>4 DEF Calm

LEMMA OpenPanelEffect ==
  ASSUME NoneIsNoTip, NEW u, IsUi(u), IsTip(u.tip), NEW a
  PROVE  LET v == OpenPanel(u, a) IN
         Calm(u, v) /\ Flags(u, v) /\ (v.panel = u.panel \/ v.panel.kind = "provider")
<1> DEFINE m == MakeRoom(u)
<1>1. Less(u, m) /\ IsUi(m)
  BY ClosePopupLess, LessIsUi
<1>2. IsTip(m.tip)
  BY <1>1 DEF Less, Calm, SameTip, IsTip
<1>3. OpenPanel(u, a) = IF Known(m.peers, a) THEN BuildPanel(m, "provider", a) ELSE m
  BY DEF OpenPanel
<1> HIDE DEF m
<1> DEFINE b == BuildPanel(m, "provider", a)
<1>4. Calm(m, b) /\ Flags(m, b) /\ b.panel.kind = "provider"
  BY <1>1, <1>2, BuildPanelEffect
<1> HIDE DEF b
<1>5. Calm(u, b) /\ Flags(u, b)
  BY <1>1, <1>4, CalmOfCalm DEF Less, Flags
<1>6. QED
  BY <1>1, <1>3, <1>4, <1>5 DEF Less, b

LEMMA OpenSummaryPanelEffect ==
  ASSUME NoneIsNoTip, NEW u, IsUi(u), IsTip(u.tip)
  PROVE  LET v == OpenSummaryPanel(u) IN
         Calm(u, v) /\ Flags(u, v) /\ v.panel.kind = "summary"
<1> DEFINE m == MakeRoom(u)
<1>1. Less(u, m) /\ IsUi(m)
  BY ClosePopupLess, LessIsUi
<1>2. IsTip(m.tip)
  BY <1>1 DEF Less, Calm, SameTip, IsTip
<1>3. OpenSummaryPanel(u) = BuildPanel(m, "summary", None)
  BY DEF OpenSummaryPanel
<1> HIDE DEF m
<1> DEFINE b == BuildPanel(m, "summary", None)
<1>4. Calm(m, b) /\ Flags(m, b) /\ b.panel.kind = "summary"
  BY <1>1, <1>2, BuildPanelEffect
<1> HIDE DEF b
<1>5. Calm(u, b) /\ Flags(u, b)
  BY <1>1, <1>4, CalmOfCalm DEF Less, Flags
<1>6. QED
  BY <1>3, <1>4, <1>5 DEF b

\* The effect of Filter, Draw and RenderDonut after a panel has been closed.
NoTips(v) == v.tip = None /\ v.subsub = None

LEMMA NoTipsStay ==
  ASSUME NEW u, NEW v, NoTips(u), Less(u, v)
  PROVE  NoTips(v)
BY DEF NoTips, Less, Calm, SameTip

LEMMA DeselectSummaryEffect ==
  ASSUME NEW u, IsUi(u)
  PROVE  LET v == DeselectSummary(u) IN
         /\ ~u.summary => v = u
         /\ u.summary => /\ Calm(u, v) /\ NoTips(v) /\ v.panel = Closed /\ ~v.summary
                         /\ v.sel = u.sel /\ v.focused = u.focused /\ v.net = u.net
                         /\ v.others = u.others
<1>1. CASE ~u.summary
  BY <1>1 DEF DeselectSummary
<1>2. CASE u.summary
  <2> DEFINE a == [u EXCEPT !.summary = FALSE, !.history = FALSE, !.sub = None,
                            !.insight = None]
             h == HideSubTooltip(a)
             c == ClosePanel([h EXCEPT !.rect = FALSE])
             d == Filter(Draw(c, {}), None)
  <2>1. /\ Calm(u, a) /\ ~a.summary /\ a.sel = u.sel /\ a.focused = u.focused
        /\ a.net = u.net /\ a.others = u.others /\ a.panel = u.panel
    BY DEF IsUi, Names, Calm, SameTip
  <2> HIDE DEF a
  <2>2. Less(a, h) /\ NoTips(h) /\ IsUi(h)
    BY <2>1, TipLess, LessIsUi DEF Calm, NoTips
  <2> HIDE DEF h
  <2>3. Calm(h, c) /\ Flags(h, c) /\ NoTips(c) /\ c.panel = Closed
    BY <2>2 DEF IsUi, Names, Calm, SameTip, Flags, NoTips, ClosePanel
  <2> HIDE DEF c
  <2>4. Less(c, Draw(c, {})) /\ IsUi(Draw(c, {}))
    BY <2>3, DrawLess, LessIsUi DEF Calm
  <2>5. Less(c, d)
    BY <2>4, DrawLess, LessOfLess
  <2>6. DeselectSummary(u) = d
    BY <1>2 DEF DeselectSummary, c, h, a
  <2> HIDE DEF d
  <2>7. Calm(u, d)
    BY <2>1, <2>2, <2>3, <2>5, CalmOfCalm DEF Less
  <2>8. NoTips(d)
    BY <2>3, <2>5, NoTipsStay
  <2>9. QED
    BY <1>2, <2>1, <2>2, <2>3, <2>5, <2>6, <2>7, <2>8 DEF Less, Flags
<1>3. QED
  BY <1>1, <1>2

Nothing(v) == v.sel = None /\ ~v.summary /\ v.net = None /\ v.panel = Closed /\ NoTips(v)

LEMMA DeselectEffect ==
  ASSUME NEW u, IsUi(u), ~(u.sel # None /\ u.summary)
  PROVE  LET v == Deselect(u) IN
         /\ Calm(u, v) /\ Nothing(v) /\ v.focused = u.focused
         /\ v.others \in {u.others, None}
<1> DEFINE n == [u EXCEPT !.net = None]
<1>1. /\ Calm(u, n) /\ n.summary = u.summary /\ n.sel = u.sel /\ n.net = None
      /\ n.focused = u.focused /\ n.others = u.others
  BY DEF IsUi, Names, Calm, SameTip
<1> HIDE DEF n
<1>2. CASE n.summary
  <2>1. Deselect(u) = DeselectSummary(n)
    BY <1>2 DEF Deselect, n
  <2>2. LET v == DeselectSummary(n) IN
        /\ Calm(n, v) /\ NoTips(v) /\ v.panel = Closed /\ ~v.summary
        /\ v.sel = n.sel /\ v.focused = n.focused /\ v.net = n.net /\ v.others = n.others
    BY <1>1, <1>2, DeselectSummaryEffect DEF Calm
  <2>3. n.sel = None
    BY <1>1, <1>2
  <2>4. QED
    BY <1>1, <2>1, <2>2, <2>3, CalmOfCalm DEF Nothing
<1>3. CASE ~n.summary
  <2> DEFINE a == [n EXCEPT !.detail = FALSE, !.sel = None, !.sub = None, !.others = None]
             h == HideSubTooltip(a)
             c == ClosePanel([h EXCEPT !.rect = FALSE])
             d == Draw(Filter(c, None), {})
  <2>1. /\ Calm(n, a) /\ ~a.summary /\ a.sel = None /\ a.focused = n.focused
        /\ a.net = n.net /\ a.others = None
    BY <1>1, <1>3 DEF IsUi, Names, Calm, SameTip
  <2> HIDE DEF a
  <2>2. Less(a, h) /\ NoTips(h) /\ IsUi(h)
    BY <2>1, TipLess, LessIsUi DEF Calm, NoTips
  <2> HIDE DEF h
  <2>3. Calm(h, c) /\ Flags(h, c) /\ NoTips(c) /\ c.panel = Closed
    BY <2>2 DEF IsUi, Names, Calm, SameTip, Flags, NoTips, ClosePanel
  <2> HIDE DEF c
  <2>4. Less(c, Filter(c, None)) /\ IsUi(Filter(c, None))
    BY <2>3, DrawLess, LessIsUi DEF Calm
  <2>5. Less(c, d) /\ IsUi(d)
    BY <2>4, DrawLess, LessOfLess, LessIsUi
  <2>6. Deselect(u) = RenderDonut(d)
    BY <1>3 DEF Deselect, d, c, h, a, n
  <2> HIDE DEF d
  <2>7. Less(c, RenderDonut(d))
    BY <2>5, TipLess, LessOfLess
  <2> DEFINE v == RenderDonut(d)
  <2> HIDE DEF v
  <2>8. Calm(u, v) /\ NoTips(v)
    BY <1>1, <2>1, <2>2, <2>3, <2>7, CalmOfCalm, NoTipsStay DEF Less, v
  <2>9. QED
    BY <1>1, <2>1, <2>2, <2>3, <2>6, <2>7, <2>8 DEF Less, Flags, Nothing, v
<1>4. QED
  BY <1>2, <1>3

-----------------------------------------------------------------------------
(***************************************************************************)
(* What is selected: nothing, the summary, or a provider.                  *)
(***************************************************************************)
LEMMA NothingAgrees ==
  ASSUME NEW v, IsUi(v), Hung(v), Nothing(v), ~v.focused => v.others = None
  PROVE  Agree(v)
BY DEF Agree, Views, Linking, Nothing, NoTips, Pinned, Closed

LEMMA SummaryAgrees ==
  ASSUME NEW v, IsUi(v), Hung(v), v.sel = None, v.summary, v.focused,
         v.panel.kind = "summary"
  PROVE  Agree(v)
BY DEF Agree, Views, Linking

LEMMA ProviderAgrees ==
  ASSUME NEW v, IsUi(v), Hung(v), v.sel # None, ~v.summary, v.focused
  PROVE  Agree(v)
BY DEF Agree, Views, Linking

LEMMA DeselectAgrees ==
  ASSUME NEW u, Agree(u)
  PROVE  Agree(Deselect(u))
<1> DEFINE v == Deselect(u)
<1>1. Calm(u, v) /\ Nothing(v) /\ v.focused = u.focused /\ v.others \in {u.others, None}
  BY DeselectEffect DEF Agree, Views
<1> HIDE DEF v
<1>2. IsUi(v) /\ Hung(v) /\ (~v.focused => v.others = None)
  BY <1>1, CalmHangs DEF Agree, Views, Calm
<1>3. QED
  BY <1>1, <1>2, NothingAgrees DEF v

LEMMA SelectSummaryEffect ==
  ASSUME NoneIsNoTip, NEW u, IsUi(u), IsTip(u.tip), ~(u.sel # None /\ u.summary)
  PROVE  LET v == SelectSummary(u) IN
         /\ Calm(u, v) /\ v.sel = None /\ v.summary /\ v.focused = u.focused
         /\ v.panel.kind = "summary"
<1> DEFINE d == IF u.sel # None THEN Deselect(u) ELSE u
           s == [d EXCEPT !.summary = TRUE, !.hoverAll = FALSE]
           a == ActivateHoverAll(s)
           v == OpenSummaryPanel(a)
<1>1. Calm(u, d) /\ d.sel = None /\ d.focused = u.focused
  BY DeselectEffect, LessOfItself DEF Nothing, Less
<1> HIDE DEF d
<1>2. Calm(d, s) /\ s.sel = None /\ s.summary /\ s.focused = u.focused
  BY <1>1 DEF IsUi, Names, Calm, SameTip
<1> HIDE DEF s
<1>3. Less(s, a)
  BY <1>2, LinesLess DEF Calm
<1> HIDE DEF a
<1>4. Calm(u, a)
  BY <1>1, <1>2, <1>3, CalmOfCalm DEF Less
<1>5. IsUi(a) /\ IsTip(a.tip)
  BY <1>4 DEF Calm, SameTip, IsTip
<1>6. Calm(a, v) /\ Flags(a, v) /\ v.panel.kind = "summary"
  BY <1>5, OpenSummaryPanelEffect
<1>7. SelectSummary(u) = v
  BY DEF SelectSummary, v, a, s, d
<1> HIDE DEF v
<1>8. Calm(u, v)
  BY <1>4, <1>6, CalmOfCalm
<1>9. QED
  BY <1>2, <1>3, <1>6, <1>7, <1>8 DEF Less, Flags

LEMMA SelectSummaryAgrees ==
  ASSUME NoneIsNoTip, NEW u, IsUi(u), Hung(u), ~(u.sel # None /\ u.summary), u.focused
  PROVE  Agree(SelectSummary(u)) /\ SelectSummary(u).focused
<1> DEFINE v == SelectSummary(u)
<1>1. /\ Calm(u, v) /\ v.sel = None /\ v.summary /\ v.focused = u.focused
      /\ v.panel.kind = "summary"
  BY SelectSummaryEffect DEF Hung
<1> HIDE DEF v
<1>2. IsUi(v) /\ Hung(v)
  BY <1>1, CalmHangs DEF Calm
<1>3. QED
  BY <1>1, <1>2, SummaryAgrees DEF v

LEMMA EnterFocusedAgrees ==
  ASSUME NoneIsNoTip, NEW u, Agree(u)
  PROVE  Agree(EnterFocusedMode(u)) /\ EnterFocusedMode(u).focused
<1>1. CASE u.focused
  BY <1>1 DEF EnterFocusedMode
<1>2. CASE ~u.focused
  <2> DEFINE f == [u EXCEPT !.focused = TRUE, !.hoverAll = FALSE]
             a == ActivateHoverAll(f)
  <2>1. Calm(u, f) /\ f.focused /\ f.sel = u.sel /\ f.summary = u.summary
    BY DEF Agree, IsUi, Names, Calm, SameTip
  <2> HIDE DEF f
  <2>2. Less(f, a)
    BY <2>1, LinesLess DEF Calm
  <2> HIDE DEF a
  <2>3. Calm(u, a)
    BY <2>1, <2>2, CalmOfCalm DEF Less
  <2>4. IsUi(a) /\ Hung(a) /\ a.focused /\ ~(a.sel # None /\ a.summary)
    BY <2>1, <2>2, <2>3, CalmHangs DEF Agree, Views, Less, Flags, Calm
  <2>5. EnterFocusedMode(u) = SelectSummary(a)
    BY <1>2 DEF EnterFocusedMode, a, f
  <2>6. QED
    BY <2>4, <2>5, SelectSummaryAgrees
<1>3. QED
  BY <1>1, <1>2

LEMMA ExitFocusedAgrees ==
  ASSUME NEW u, Agree(u)
  PROVE  Agree(ExitFocusedMode(u))
<1>1. CASE ~u.focused
  BY <1>1 DEF ExitFocusedMode
<1>2. CASE u.focused
  <2> DEFINE a == [u EXCEPT !.focused = FALSE, !.detail = FALSE, !.net = None,
                            !.others = None, !.rect = FALSE]
             w == IF a.summary THEN DeselectSummary(a)
                  ELSE IF a.sel # None THEN Deselect(a) ELSE ClosePanel(a)
             h == [w EXCEPT !.hoverAll = FALSE]
             v == RenderDonut(Draw(Filter(h, None), {}))
  <2>1. ExitFocusedMode(u) = v
    BY <1>2 DEF ExitFocusedMode
  <2>2. /\ Calm(u, a) /\ a.sel = u.sel /\ a.summary = u.summary /\ ~a.focused
        /\ a.net = None /\ a.others = None
    BY DEF Agree, IsUi, Names, Calm, SameTip
  <2> HIDE DEF a
  <2>3. /\ Calm(a, w) /\ w.sel = None /\ ~w.summary /\ ~w.focused /\ w.net = None
        /\ w.others = None /\ w.panel = Closed
        /\ NoTips(w) \/ (~u.summary /\ u.sel = None)
    <3>1. ~(a.sel # None /\ a.summary) /\ IsUi(a)
      BY <2>2 DEF Agree, Views, Calm
    <3>2. CASE a.summary
      BY <2>2, <3>1, <3>2, DeselectSummaryEffect
    <3>3. CASE ~a.summary /\ a.sel # None
      BY <2>2, <3>1, <3>3, DeselectEffect DEF Nothing
    <3>4. CASE ~a.summary /\ a.sel = None
      <4>1. w = ClosePanel(a)
        BY <3>4
      <4>2. Calm(a, ClosePanel(a)) /\ Flags(a, ClosePanel(a)) /\ ClosePanel(a).panel = Closed
        BY <3>1 DEF ClosePanel, IsUi, Names, Calm, SameTip, Flags
      <4>3. QED
        BY <2>2, <3>4, <4>1, <4>2 DEF Flags
    <3>5. QED
      BY <3>2, <3>3, <3>4
  <2> HIDE DEF w
  <2>4. Less(w, v)
    <3>1. Less(w, h) /\ IsUi(h)
      BY <2>3, SetField, LessIsUi DEF Calm
    <3> HIDE DEF h
    <3>2. Less(h, Filter(h, None)) /\ IsUi(Filter(h, None))
      BY <3>1, DrawLess, LessIsUi
    <3>3. Less(Filter(h, None), Draw(Filter(h, None), {})) /\ IsUi(Draw(Filter(h, None), {}))
      BY <3>2, DrawLess, LessIsUi
    <3>4. QED
      BY <3>1, <3>2, <3>3, TipLess, LessOfLess
  <2> HIDE DEF v
  <2>5. Calm(u, v)
    BY <2>2, <2>3, <2>4, CalmOfCalm DEF Less
  <2>6. IsUi(v) /\ Hung(v)
    BY <2>5, CalmHangs DEF Agree, Calm
  <2>7. /\ v.sel = None /\ ~v.summary /\ ~v.focused /\ v.net = None
        /\ v.others = None /\ v.panel = Closed
    BY <2>3, <2>4 DEF Less, Flags
  <2>8. Linking(v)
    <3>1. CASE NoTips(w)
      BY <2>4, <3>1, NoTipsStay DEF Linking, NoTips, Pinned
    <3>2. CASE ~u.summary /\ u.sel = None
      BY <2>5, <3>2, CalmLinks DEF Agree
    <3>3. QED
      BY <2>3, <3>1, <3>2
  <2>9. QED
    BY <2>1, <2>6, <2>7, <2>8 DEF Agree, Views, Closed
<1>3. QED
  BY <1>1, <1>2

-----------------------------------------------------------------------------
(***************************************************************************)
(* From one view to another.                                               *)
(***************************************************************************)
\* A provider selected in the focused mode, by a state a that may not agree.
LEMMA OpenProviderAgrees ==
  ASSUME NoneIsNoTip, NEW a, IsUi(a), Hung(a), a.sel # None, ~a.summary, a.focused, NEW x
  PROVE  /\ Agree(OpenPanel(a, x)) /\ OpenPanel(a, x).sel # None
         /\ ~OpenPanel(a, x).summary /\ OpenPanel(a, x).focused
<1> DEFINE v == OpenPanel(a, x)
<1>1. Calm(a, v) /\ Flags(a, v)
  BY OpenPanelEffect DEF Hung
<1> HIDE DEF v
<1>2. IsUi(v) /\ Hung(v)
  BY <1>1, CalmHangs DEF Calm
<1>3. QED
  BY <1>1, <1>2, ProviderAgrees DEF Flags, v

LEMMA ShowAgrees ==
  ASSUME NEW u, Agree(u), NEW ids
  PROVE  Agree(Show(u, ids)) /\ Agree(Filter(u, ids)) /\ Agree(Draw(u, ids)) /\ Agree(ShowAll(u))
         /\ Agree(PreviewSummaryLines(u, ids)) /\ Agree(PreviewProviderLines(u, ids))
         /\ Agree(ActivateHoverAll(u)) /\ Flags(u, Show(u, ids))
<1>1. Less(u, Show(u, ids)) /\ Less(u, Filter(u, ids)) /\ Less(u, Draw(u, ids))
      /\ Less(u, ShowAll(u)) /\ Less(u, PreviewSummaryLines(u, ids))
      /\ Less(u, PreviewProviderLines(u, ids)) /\ Less(u, ActivateHoverAll(u))
  BY DrawLess, LinesLess DEF Agree
<1>2. QED
  BY <1>1, LessAgrees DEF Less

LEMMA NavigateAgrees ==
  ASSUME NoneIsNoTip, NEW u, Agree(u), u.focused, NEW a, a # None
  PROVE  Agree(NavigateToProvider(u, a))
<1> DEFINE b == [u EXCEPT !.history = @ \/ u.summary \/ u.sel # None, !.summary = FALSE,
                          !.sub = None]
           h == HideSubTooltip(b)
           s == [h EXCEPT !.sel = a]
           w == OpenPanel(s, a)
<1>1. Calm(u, b) /\ ~b.summary /\ b.focused
  BY DEF Agree, IsUi, Names, Calm, SameTip
<1> HIDE DEF b
<1>2. Less(b, h)
  BY <1>1, TipLess DEF Calm
<1> HIDE DEF h
<1>3. Calm(h, s) /\ s.sel = a /\ ~s.summary /\ s.focused
  BY <1>1, <1>2 DEF Less, Flags, IsUi, Names, Calm, SameTip
<1>4. NavigateToProvider(u, a) = Show(w, PeersOf(w.peers, a))
  BY DEF NavigateToProvider, s, h, b
<1> HIDE DEF s
<1>5. IsUi(s) /\ Hung(s)
  BY <1>1, <1>2, <1>3, CalmHangs DEF Agree, Less, Calm
<1>6. Agree(w)
  BY <1>3, <1>5, OpenProviderAgrees
<1>7. QED
  BY <1>4, <1>6, ShowAgrees

LEMMA NavigateBackAgrees ==
  ASSUME NoneIsNoTip, NEW u, Agree(u)
  PROVE  Agree(NavigateBack(u))
<1> DEFINE a == [u EXCEPT !.others = None, !.net = None, !.detail = FALSE, !.sel = None,
                          !.sub = None, !.insight = None, !.history = FALSE]
           h == HideSubTooltip(a)
           v == [h EXCEPT !.rect = FALSE]
           s == [v EXCEPT !.summary = TRUE]
           p == OpenSummaryPanel(s)
<1>1. /\ Calm(u, a) /\ a.sel = None /\ a.others = None /\ a.summary = u.summary
      /\ a.focused = u.focused
  BY DEF Agree, IsUi, Names, Calm, SameTip
<1> HIDE DEF a
<1>2. Less(a, h) /\ IsUi(h)
  BY <1>1, TipLess, LessIsUi DEF Calm
<1> HIDE DEF h
<1>3. Less(a, v) /\ IsUi(v)
  BY <1>2, SetField, LessOfLess, LessIsUi
<1>4. NavigateBack(u) = IF v.focused THEN ShowAll(p) ELSE Deselect(v)
  BY DEF NavigateBack, h, a
<1> HIDE DEF v
<1>5. Calm(u, v) /\ v.sel = None /\ v.others = None /\ v.focused = u.focused
  BY <1>1, <1>3, CalmOfCalm DEF Less, Flags
<1>6. CASE v.focused
  <2>1. Calm(v, s) /\ s.sel = None /\ s.summary /\ s.focused
    BY <1>3, <1>5, <1>6 DEF IsUi, Names, Calm, SameTip
  <2> HIDE DEF s
  <2>2. Hung(s) /\ IsUi(s)
    BY <1>5, <2>1, CalmHangs DEF Agree, Calm
  <2>3. Calm(s, p) /\ Flags(s, p) /\ p.panel.kind = "summary"
    BY <2>2, OpenSummaryPanelEffect DEF Hung
  <2> HIDE DEF p
  <2>4. Agree(p)
    BY <2>1, <2>2, <2>3, CalmHangs, SummaryAgrees DEF Flags, Calm
  <2>5. QED
    BY <1>4, <1>6, <2>4, ShowAgrees
<1>7. CASE ~v.focused
  <2> DEFINE d == Deselect(v)
  <2>1. Calm(v, d) /\ Nothing(d) /\ d.others \in {v.others, None}
    BY <1>3, <1>5, DeselectEffect
  <2> HIDE DEF d
  <2>2. IsUi(d) /\ Hung(d)
    BY <1>5, <2>1, CalmHangs DEF Agree, Calm
  <2>3. Agree(d)
    BY <1>5, <2>1, <2>2, NothingAgrees
  <2>4. QED
    BY <1>4, <1>7, <2>3 DEF d
<1>8. QED
  BY <1>6, <1>7

LEMMA OthersListAgrees ==
  ASSUME NEW u, Agree(u), u.focused
  PROVE  Agree(ShowOthersList(u))
<1>1. CASE HasOthers(u.peers)
  <2> DEFINE v == [u EXCEPT !.others = PeersOf(u.peers, "Others")]
  <2>1. /\ Calm(u, v) /\ v.sel = u.sel /\ v.summary = u.summary /\ v.focused = u.focused
        /\ v.net = u.net /\ v.panel = u.panel
    BY DEF Agree, IsUi, Names, Calm, SameTip
  <2>2. ShowOthersList(u) = v
    BY <1>1 DEF ShowOthersList
  <2> HIDE DEF v
  <2>3. IsUi(v) /\ Hung(v) /\ Linking(v)
    BY <2>1, CalmHangs, CalmLinks DEF Agree, Calm
  <2>4. Views(v)
    BY <2>1 DEF Agree, Views
  <2>5. QED
    BY <2>2, <2>3, <2>4 DEF Agree
<1>2. CASE ~HasOthers(u.peers)
  BY <1>2 DEF ShowOthersList
<1>3. QED
  BY <1>1, <1>2

LEMMA BackToOthersAgrees ==
  ASSUME NoneIsNoTip, NEW u, Agree(u), u.sel # None
  PROVE  Agree(BackToOthersList(u))
<1> DEFINE h == HideSubTooltip(DropSub(u))
           s == [h EXCEPT !.sel = "Others"]
           v == OpenPanel(s, "Others")
           w == Show(v, PeersOf(v.peers, "Others"))
<1>1. Less(u, h)
  <2>1. Less(u, DropSub(u)) /\ IsUi(DropSub(u))
    BY TipLess, LessIsUi DEF Agree
  <2>2. QED
    BY <2>1, TipLess, LessOfLess
<1> HIDE DEF h
<1>2. u.focused /\ ~u.summary
  BY DEF Agree, Views
<1>3. Calm(h, s) /\ s.sel # None /\ ~s.summary /\ s.focused
  BY <1>1, <1>2, AsDataAssumption DEF Less, Flags, IsUi, Names, Calm, SameTip
<1>4. BackToOthersList(u) = IF HasOthers(u.peers) THEN ShowOthersList(w) ELSE u
  BY DEF BackToOthersList, s, h
<1> HIDE DEF s
<1>5. IsUi(s) /\ Hung(s)
  BY <1>1, <1>3, CalmHangs DEF Agree, Less, Calm
<1>6. Agree(v) /\ v.focused
  BY <1>3, <1>5, OpenProviderAgrees
<1> HIDE DEF v
<1>7. Agree(w) /\ w.focused
  BY <1>6, ShowAgrees DEF Flags
<1> HIDE DEF w
<1>8. QED
  BY <1>4, <1>7, OthersListAgrees

LEMMA OpenNetworkAgrees ==
  ASSUME NoneIsNoTip, NEW u, Agree(u), NEW n, n # None
  PROVE  Agree(OpenNetworkPanel(u, n))
<1> DEFINE m == MakeRoom(u)
           w == [m EXCEPT !.focused = TRUE, !.net = n, !.history = IF m.net = n THEN @ ELSE TRUE]
           x == BuildPanel(w, "network", n)
<1>1. Less(u, m) /\ Agree(m)
  BY ClosePopupLess, LessAgrees DEF Agree
<1> HIDE DEF m
<1>2. /\ Calm(m, w) /\ w.focused /\ w.net = n /\ w.sel = m.sel /\ w.summary = m.summary
  BY <1>1 DEF Agree, IsUi, Names, Calm, SameTip
<1>3. OpenNetworkPanel(u, n) = IF NetPeers(x.peers, n) = {} THEN x
                               ELSE ActivateHoverAll(Filter(x, NetPeers(x.peers, n)))
  BY DEF OpenNetworkPanel, m
<1> HIDE DEF w
<1>4. IsUi(w) /\ Hung(w)
  BY <1>1, <1>2, CalmHangs DEF Agree, Calm
<1>5. Calm(w, x) /\ Flags(w, x) /\ x.panel.kind = "network"
  BY <1>4, BuildPanelEffect DEF Hung
<1> HIDE DEF x
<1>6. Calm(m, x)
  BY <1>2, <1>5, CalmOfCalm
<1>7. IsUi(x) /\ Hung(x) /\ Linking(x)
  BY <1>1, <1>2, <1>5, <1>6, CalmHangs, CalmLinks DEF Agree, Flags, Calm
<1>8. Views(x)
  BY <1>1, <1>2, <1>5 DEF Agree, Views, Flags
<1>9. Agree(x)
  BY <1>7, <1>8 DEF Agree
<1>10. QED
  BY <1>3, <1>9, ShowAgrees

LEMMA LeaveNetworkAgrees ==
  ASSUME NoneIsNoTip, NEW u, Agree(u), u.focused
  PROVE  Agree(LeaveNetworkPanel(u))
<1> DEFINE v == [u EXCEPT !.net = None, !.sel = None]
           w == IF AnyPin(v) THEN DropSub(HideSubTooltip(v)) ELSE v
           s == [w EXCEPT !.summary = TRUE, !.history = FALSE]
           p == OpenSummaryPanel(s)
<1>1. Calm(u, v) /\ v.sel = None /\ v.focused
  BY DEF Agree, IsUi, Names, Calm, SameTip
<1> HIDE DEF v
<1>2. Less(v, w)
  <2>1. IsUi(v) /\ Less(v, v)
    BY <1>1, LessOfItself DEF Calm
  <2>2. Less(v, DropSub(HideSubTooltip(v)))
    BY <2>1, TipLess, LessIsUi, LessOfLess
  <2>3. QED
    BY <2>1, <2>2
<1> HIDE DEF w
<1>3. Calm(w, s) /\ s.sel = None /\ s.summary /\ s.focused
  BY <1>1, <1>2 DEF Less, Flags, IsUi, Names, Calm, SameTip
<1>4. LeaveNetworkPanel(u) = RenderDonut(ShowAll(p))
  BY DEF LeaveNetworkPanel, s, w, v
<1> HIDE DEF s
<1>5. Calm(u, s)
  BY <1>1, <1>2, <1>3, CalmOfCalm DEF Less
<1>6. IsUi(s) /\ Hung(s)
  BY <1>5, CalmHangs DEF Agree, Calm
<1>7. Calm(s, p) /\ Flags(s, p) /\ p.panel.kind = "summary"
  BY <1>6, OpenSummaryPanelEffect DEF Hung
<1> HIDE DEF p
<1>8. Agree(p)
  BY <1>3, <1>6, <1>7, CalmHangs, SummaryAgrees DEF Flags, Calm
<1>9. Agree(ShowAll(p))
  BY <1>8, ShowAgrees
<1>10. QED
  BY <1>4, <1>9, TipLess, LessAgrees DEF Agree

LEMMA OpenPeerAgrees ==
  ASSUME NoneIsNoTip, NEW u, Agree(u), NEW p
  PROVE  Agree(OpenPeerDetailPanel(u, p))
<1> DEFINE open(w) == [w EXCEPT !.detail = TRUE, !.selPeer = p]
           v == open([u EXCEPT !.popup = None])
           f == [v EXCEPT !.focused = TRUE]
           w == IF v.focused THEN v
                ELSE open(IF ~f.summary /\ f.sel = None THEN SelectSummary(f) ELSE f)
           x == IF As[p] = None THEN w ELSE Draw(w, {p})
           y == Filter(x, {p})
<1>1. ASSUME NEW a, Agree(a)
      PROVE  Agree(open(a)) /\ Agree([a EXCEPT !.popup = [peer |-> p, visible |-> TRUE]])
             /\ Agree([a EXCEPT !.popup = None])
  <2>1. Less(a, open(a))
    BY <1>1 DEF Agree, IsUi, Names, Less, Flags, Calm, SameTip
  <2>2. Less(a, [a EXCEPT !.popup = [peer |-> p, visible |-> TRUE]])
        /\ Less(a, [a EXCEPT !.popup = None])
    BY <1>1, SetField DEF Agree
  <2>3. QED
    BY <1>1, <2>1, <2>2, LessAgrees
<1>2. Agree(v)
  BY <1>1
<1>3. OpenPeerDetailPanel(u, p) = [y EXCEPT !.popup = [peer |-> p, visible |-> TRUE]]
  BY DEF OpenPeerDetailPanel
<1> HIDE DEF v, open
<1>4. Agree(w)
  <2>1. CASE v.focused
    BY <1>2, <2>1
  <2>2. CASE ~v.focused
    <3>1. Calm(v, f) /\ f.sel = None /\ ~f.summary /\ f.focused
      BY <1>2, <2>2 DEF Agree, Views, IsUi, Names, Calm, SameTip
    <3> HIDE DEF f
    <3>2. IsUi(f) /\ Hung(f)
      BY <1>2, <3>1, CalmHangs DEF Agree, Calm
    <3>3. Agree(SelectSummary(f))
      BY <3>1, <3>2, SelectSummaryAgrees
    <3>4. QED
      BY <1>1, <2>2, <3>1, <3>3
  <2>3. QED
    BY <2>1, <2>2
<1> HIDE DEF w
<1>5. Agree(x)
  BY <1>4, ShowAgrees
<1> HIDE DEF x
<1>6. QED
  BY <1>1, <1>3, <1>5, ShowAgrees

LEMMA SegmentClickAgrees ==
  ASSUME NoneIsNoTip, NEW u, Agree(u), NEW a, a # None
  PROVE  Agree(SegmentClickOf(u, a))
<1> DEFINE r == IF u.detail THEN ClosePeerPopup(u) ELSE u
           f == [r EXCEPT !.focused = TRUE]
           d == RenderDonut(f)
           v == DeselectSummary(d)
<1>1. Agree(r)
  BY ClosePopupLess, LessAgrees DEF Agree
<1> HIDE DEF r
<1>2. Calm(r, f) /\ f.focused /\ f.sel = r.sel /\ f.summary = r.summary
  BY <1>1 DEF Agree, IsUi, Names, Calm, SameTip
<1> HIDE DEF f
<1>3. Less(f, d)
  BY <1>2, TipLess DEF Calm
<1> HIDE DEF d
<1>4. Calm(r, d) /\ d.focused /\ ~(d.sel # None /\ d.summary)
  BY <1>1, <1>2, <1>3, CalmOfCalm DEF Less, Flags, Agree, Views
<1>5. Calm(d, v) /\ v.focused /\ ~v.summary
  <2>1. IsUi(d) /\ Less(d, d)
    BY <1>4, LessOfItself DEF Calm
  <2>2. QED
    BY <1>4, <2>1, DeselectSummaryEffect DEF Less
<1> HIDE DEF v
<1>6. Calm(r, v) /\ IsUi(v) /\ Hung(v)
  BY <1>1, <1>4, <1>5, CalmOfCalm, CalmHangs DEF Agree, Calm
<1>7. CASE v.sel = a
  <2> DEFINE b == [v EXCEPT !.others = None, !.sel = None, !.sub = None]
             h == HideSubTooltip(b)
             c == ClosePanel(h)
             e == Filter(c, None)
  <2>1. Calm(v, b) /\ b.sel = None /\ ~b.summary /\ b.focused
    BY <1>5, <1>6 DEF IsUi, Names, Calm, SameTip
  <2> HIDE DEF b
  <2>2. Less(b, h) /\ IsUi(h)
    BY <2>1, TipLess, LessIsUi DEF Calm
  <2> HIDE DEF h
  <2>3. Calm(h, c) /\ Flags(h, c)
    BY <2>2 DEF IsUi, Names, Calm, SameTip, Flags, ClosePanel
  <2> HIDE DEF c
  <2>4. Less(c, e)
    BY <2>3, DrawLess DEF Calm
  <2>5. SegmentClickOf(u, a) = SelectSummary(e)
    BY <1>7 DEF SegmentClickOf, r, f, d, v, b, h, c
  <2> HIDE DEF e
  <2>6. Calm(v, e)
    BY <2>1, <2>2, <2>3, <2>4, CalmOfCalm DEF Less
  <2>7. IsUi(e) /\ Hung(e) /\ e.sel = None /\ e.focused
    BY <1>6, <2>1, <2>2, <2>3, <2>4, <2>6, CalmHangs DEF Less, Flags, Calm
  <2>8. QED
    BY <2>5, <2>7, SelectSummaryAgrees
<1>8. CASE v.sel # a
  <2> DEFINE b == DropSub(v)
             h == HideSubTooltip(b)
             w == [h EXCEPT !.others = None, !.sel = a]
             x == OpenPanel(w, a)
             y == Show(x, PeersOf(x.peers, a))
  <2>1. Less(v, b) /\ IsUi(b)
    BY <1>6, TipLess, LessIsUi
  <2> HIDE DEF b
  <2>2. Less(v, h) /\ IsUi(h)
    BY <2>1, TipLess, LessOfLess, LessIsUi
  <2> HIDE DEF h
  <2>3. Calm(h, w) /\ w.sel # None /\ ~w.summary /\ w.focused
    BY <1>5, <2>2 DEF Less, Flags, IsUi, Names, Calm, SameTip
  <2>4. SegmentClickOf(u, a) = IF a \notin Segments(w.peers) THEN w
                               ELSE IF a = "Others" THEN ShowOthersList(y) ELSE y
    BY <1>8 DEF SegmentClickOf, r, f, d, v, b, h
  <2> HIDE DEF w
  <2>5. IsUi(w) /\ Hung(w)
    BY <1>6, <2>2, <2>3, CalmHangs DEF Less, Calm
  <2>6. Agree(w)
    BY <2>3, <2>5, ProviderAgrees
  <2>7. Agree(x) /\ x.focused
    BY <2>3, <2>5, OpenProviderAgrees
  <2> HIDE DEF x
  <2>8. Agree(y) /\ y.focused
    BY <2>7, ShowAgrees DEF Flags
  <2> HIDE DEF y
  <2>9. QED
    BY <2>4, <2>6, <2>8, OthersListAgrees
<1>9. QED
  BY <1>7, <1>8

-----------------------------------------------------------------------------
(***************************************************************************)
(* The rows of the panel and their tooltips.                               *)
(***************************************************************************)
LEMMA SummaryRowFacts ==
  ASSUME NEW P, NEW row \in SummaryRows(P)
  PROVE  /\ row.k \in AllKinds \ {"net", "conntype", "provider"}
         /\ row.k \in {"conn-provider", "nav"} => row.v # None
<1>1. \A a \in TopGroups(P) : a # None
  BY DEF TopGroups, Groups
<1>2. \/ \E p \in P : row = Row("cat", Net[p])
      \/ \E a \in TopGroups(P) : \/ row = Row("conn-provider", a) \/ row = Row("nav", a)
                                \/ row = Row("conn-out", a) \/ row = Row("conn-in", a)
      \/ row = Row("conn-others", "Others")
      \/ \E k \in Ranking \cup {"all-providers"} : row = Row(k, None)
      \/ row = Row("insight-stable", Leader(P, "insight-stable"))
  BY DEF SummaryRows, Linked
<1>3. \A k, a : Row(k, a).k = k /\ Row(k, a).v = a
  BY DEF Row
<1>4. row.k \in AllKinds \ {"net", "conntype", "provider"}
  BY <1>2, <1>3 DEF AllKinds, CategoryKinds, Insights, Ranking
<1>5. row.k \in {"conn-provider", "nav"} => row.v # None
  BY <1>1, <1>2, <1>3 DEF Ranking
<1>6. QED
  BY <1>4, <1>5

LEMMA RowFacts ==
  ASSUME NEW u, Agree(u), NEW row \in Rows(u)
  PROVE  /\ row.k \in AllKinds
         /\ row.k \in NavTips \cup {"nav"} => u.sel # None \/ u.summary
         /\ row.k \in {"conn-provider", "nav"} => row.v # None
         /\ row.k = "nav" => u.focused
<1> DEFINE P == u.panel.at
<1>1. \/ u.panel.kind = "summary" /\ row \in SummaryRows(P)
      \/ row \in ProviderRows(P, u.panel.of) \/ row = Row("net", u.panel.of)
  BY DEF Rows
<1> HIDE DEF P
<1>2. CASE u.panel.kind = "summary" /\ row \in SummaryRows(P)
  <2>1. row.k \in AllKinds /\ (row.k \in {"conn-provider", "nav"} => row.v # None)
    BY <1>2, SummaryRowFacts
  <2>2. (u.sel # None \/ u.summary) /\ u.focused
    BY <1>2 DEF Agree, Views
  <2>3. QED
    BY <2>1, <2>2
<1>3. CASE row \in ProviderRows(P, u.panel.of)
  <2>1. row.k \in {"conntype", "provider"}
    BY <1>3 DEF ProviderRows, Row
  <2>2. QED
    BY <2>1 DEF AllKinds, NavTips
<1>4. CASE row = Row("net", u.panel.of)
  <2>1. row.k = "net"
    BY <1>4 DEF Row
  <2>2. QED
    BY <2>1 DEF AllKinds, CategoryKinds, NavTips
<1>5. QED
  BY <1>1, <1>2, <1>3, <1>4

\* A tooltip, floating where none is pinned, or pinned by one of the rows.
LEMMA ShowTipAgrees ==
  ASSUME NEW u, Agree(u), NEW row, NEW ids, NEW pin \in BOOLEAN,
         pin => /\ row.k \in NavTips => u.sel # None \/ u.summary
                /\ row.k \in {"conn-provider", "insight-stable"} => row.v # None
  PROVE  /\ Agree(ShowSubTooltip(u, row, ids, pin))
         /\ Flags(u, ShowSubTooltip(u, row, ids, pin))
<1> DEFINE h == HideSubSubTooltip(u)
           tip == [row |-> row, ids |-> ids, pinned |-> pin, live |-> TRUE]
           v == [h EXCEPT !.tip = tip]
<1>1. Less(u, h) /\ h.subsub = None
  BY DEF Agree, IsUi, Names, Less, Flags, Calm, SameTip, HideSubSubTooltip
<1>2. ShowSubTooltip(u, row, ids, pin) = v
  BY DEF ShowSubTooltip
<1>3. Agree(h)
  BY <1>1, LessAgrees
<1> HIDE DEF h
<1>4. DOMAIN tip = TipNames /\ tip.row = row /\ tip.pinned = pin
  BY DEF TipNames
<1> HIDE DEF tip
<1>5. IsUi(v) /\ Flags(h, v) /\ v.panel = h.panel /\ v.over = h.over /\ v.tip = tip
      /\ v.subsub = None
  BY <1>1, <1>3 DEF Agree, IsUi, Names, Flags
<1> HIDE DEF v
<1>6. Views(v)
  BY <1>3, <1>5 DEF Agree, Views, Flags
<1>7. Hung(v)
  BY <1>3, <1>4, <1>5 DEF Agree, Hung, IsTip, Pinned
<1>8. Linking(v)
  BY <1>1, <1>4, <1>5 DEF Linking, Pinned, Less, Flags
<1>9. Flags(u, v)
  BY <1>1, <1>5 DEF Less, Flags
<1>10. QED
  BY <1>2, <1>5, <1>6, <1>7, <1>8, <1>9 DEF Agree

LEMMA TakeAwayAgrees ==
  ASSUME NEW u, Agree(u)
  PROVE  /\ Agree(MakeRoom(u)) /\ Agree(ClosePeerPopup(u)) /\ Flags(u, MakeRoom(u))
         /\ Agree(HideSubTooltip(u)) /\ Agree(HideSubSubTooltip(u)) /\ Agree(DropSub(u))
         /\ Agree(ClearLegendFocus(u)) /\ Agree(RenderDonut(u))
         /\ Agree(ClearSubFilter(u)) /\ Agree(ClearSummarySubFilter(u))
         /\ Agree(ToggleOff(u)) /\ Agree(ToggleInsightOff(u))
         /\ Agree(RestoreSummaryFromPreview(u)) /\ Agree(RestoreProviderFromPreview(u))
<1>1. IsUi(u)
  BY DEF Agree
<1>2. /\ Agree(MakeRoom(u)) /\ Agree(ClosePeerPopup(u)) /\ Flags(u, MakeRoom(u))
  BY <1>1, ClosePopupLess, LessAgrees DEF Less
<1>3. /\ Agree(HideSubTooltip(u)) /\ Agree(HideSubSubTooltip(u)) /\ Agree(DropSub(u))
      /\ Agree(ClearLegendFocus(u)) /\ Agree(RenderDonut(u))
  BY <1>1, TipLess, LessAgrees
<1>4. /\ Agree(ClearSubFilter(u)) /\ Agree(ClearSummarySubFilter(u))
      /\ Agree(ToggleOff(u)) /\ Agree(ToggleInsightOff(u))
  BY <1>1, ClearLess, LessAgrees
<1>5. Agree(RestoreSummaryFromPreview(u)) /\ Agree(RestoreProviderFromPreview(u))
  BY <1>1, RestoreLess, LessAgrees
<1>6. QED
  BY <1>2, <1>3, <1>4, <1>5

LEMMA SetAgrees ==
  ASSUME NEW u, Agree(u), NEW x
  PROVE  /\ Agree([u EXCEPT !.sub = x]) /\ Agree([u EXCEPT !.insight = x])
         /\ Agree([u EXCEPT !.rect = x]) /\ Agree([u EXCEPT !.hoverAll = x])
         /\ Agree([u EXCEPT !.hovered = x]) /\ Agree([u EXCEPT !.over = None])
         /\ Agree([u EXCEPT !.history = x]) /\ Agree([u EXCEPT !.peers = x])
         /\ Agree([u EXCEPT !.insight = None, !.rect = FALSE])
         /\ Agree(Focus(u, x)) /\ Agree(RectIfFocused(u)) /\ Agree(LeaveInsight(u))
<1>1. IsUi(u)
  BY DEF Agree
<1>2. Less(u, [u EXCEPT !.insight = None, !.rect = FALSE])
  BY <1>1 DEF IsUi, Names, Less, Flags, Calm, SameTip
<1>3. /\ Agree([u EXCEPT !.sub = x]) /\ Agree([u EXCEPT !.insight = x])
      /\ Agree([u EXCEPT !.rect = x]) /\ Agree([u EXCEPT !.hoverAll = x])
      /\ Agree([u EXCEPT !.hovered = x]) /\ Agree([u EXCEPT !.over = None])
      /\ Agree([u EXCEPT !.history = x]) /\ Agree([u EXCEPT !.peers = x])
  BY <1>1, SetField, LessAgrees
<1>4. Agree([u EXCEPT !.insight = None, !.rect = FALSE])
  BY <1>2, LessAgrees
<1>5. Agree(Focus(u, x))
  BY <1>1, SetField, LessAgrees DEF Focus
<1>6. Agree(RectIfFocused(u))
  BY <1>1, SetField, LessAgrees DEF RectIfFocused
<1>7. Agree(LeaveInsight(u))
  BY <1>4 DEF LeaveInsight
<1>8. QED
  BY <1>3, <1>4, <1>5, <1>6, <1>7

\* What RowFacts says of a row, where the row is about to be pinned.
Pinnable(u, row) ==
  /\ row.k \in NavTips => u.sel # None \/ u.summary
  /\ row.k \in {"conn-provider", "insight-stable"} => row.v # None

LEMMA PinAgrees ==
  ASSUME NEW u, Agree(u), NEW row, Pinnable(u, row)
  PROVE  Agree(PinTip(u, row)) /\ Agree(PinRow(u, row))
<1>1. Agree(PinTip(u, row))
  BY ShowTipAgrees DEF PinTip, Pinnable
<1>2. Agree(LeaveInsight(PinTip(u, row)))
  BY <1>1, SetAgrees
<1>3. Agree(PinRow(u, row))
  BY <1>2, SetAgrees DEF PinRow
<1>4. QED
  BY <1>1, <1>3

LEMMA FloatAgrees ==
  ASSUME NEW u, Agree(u), NEW row
  PROVE  Agree(FloatTip(u, row))
BY ShowTipAgrees DEF FloatTip

LEMMA SubFilterAgrees ==
  ASSUME NEW u, Agree(u), NEW row, Pinnable(u, row)
  PROVE  Agree(PinTip(ApplySummarySubFilter(u, row), row))
         /\ Agree(PinTip(ApplySubFilter(u, row), row))
<1> DEFINE s == ApplySummarySubFilter(u, row)
           t == ApplySubFilter(u, row)
           ids == RowIds(u, row)
           a == [LeaveInsight(u) EXCEPT !.sub = [row |-> row, ids |-> ids]]
           b == [u EXCEPT !.sub = [row |-> row, ids |-> ids]]
           f == Filter(b, ids)
<1>1. IsUi(u)
  BY DEF Agree
<1>2. Less(u, a) /\ Less(u, b)
  <2>1. Less(u, LeaveInsight(u))
    BY <1>1 DEF IsUi, Names, Less, Flags, Calm, SameTip, LeaveInsight
  <2>2. QED
    BY <1>1, <2>1, SetField, LessOfLess, LessIsUi
<1>3. Less(u, ClearSummarySubFilter(u)) /\ Less(u, ClearSubFilter(u))
  BY <1>1, ClearLess
<1> HIDE DEF a, b, ids
<1>4. Less(u, PreviewSummaryLines(a, ids)) /\ Less(u, f)
  BY <1>2, LinesLess, DrawLess, LessOfLess, LessIsUi
<1>5. Less(u, Draw(f, ids))
  BY <1>4, DrawLess, LessOfLess, LessIsUi
<1>6. Less(u, s)
  BY <1>3, <1>4 DEF ApplySummarySubFilter, a, ids
<1>7. Less(u, t)
  BY <1>3, <1>4, <1>5 DEF ApplySubFilter, f, b, ids
<1> HIDE DEF s, t, f
<1>8. Agree(s) /\ Agree(t) /\ Pinnable(s, row) /\ Pinnable(t, row)
  BY <1>6, <1>7, LessAgrees DEF Less, Flags, Pinnable
<1>9. QED
  BY <1>8, PinAgrees DEF s, t

LEMMA InsightPinAgrees ==
  ASSUME NEW u, Agree(u), NEW row, NEW ids, NEW lead, lead # None => Pinnable(u, row)
  PROVE  Agree(InsightPin(u, row, ids, lead))
<1>1. CASE lead = None
  BY <1>1 DEF InsightPin
<1>2. CASE lead # None
  <2> DEFINE p == PinTip(u, row)
             v == [p EXCEPT !.sub = [row |-> row, ids |-> ids], !.insight = lead]
  <2>1. Agree(p)
    BY <1>2, PinAgrees
  <2> HIDE DEF p
  <2>2. Agree([p EXCEPT !.sub = [row |-> row, ids |-> ids]])
    BY <2>1, SetAgrees
  <2>3. v = [[p EXCEPT !.sub = [row |-> row, ids |-> ids]] EXCEPT !.insight = lead]
    BY <2>1 DEF Agree, IsUi, Names
  <2>4. Agree(v)
    BY <2>2, <2>3, SetAgrees
  <2>5. InsightPin(u, row, ids, lead)
          = Focus(Show(RectIfFocused(v), PeersOf(u.peers, lead)), lead)
    BY <1>2 DEF InsightPin, p
  <2> HIDE DEF v
  <2>6. Agree(RectIfFocused(v))
    BY <2>4, SetAgrees
  <2>7. Agree(Show(RectIfFocused(v), PeersOf(u.peers, lead)))
    BY <2>6, ShowAgrees
  <2>8. Agree(Focus(Show(RectIfFocused(v), PeersOf(u.peers, lead)), lead))
    BY <2>7, SetAgrees
  <2>9. QED
    BY <2>5, <2>8
<1>3. QED
  BY <1>1, <1>2

LEMMA RowClickAgrees ==
  ASSUME NoneIsNoTip, NEW u, Agree(u), NEW row \in Rows(u)
  PROVE  Agree(RowClick(u, row))
<1> DEFINE m == MakeRoom(u)
<1>1. Agree(m) /\ Flags(u, m)
  BY TakeAwayAgrees
<1>2. row.k # "insight-stable" => Pinnable(u, row) /\ Pinnable(m, row)
  BY <1>1, RowFacts DEF Pinnable, Flags
<1>3. \A v : Agree(v) => Agree(ClearSummarySubFilter(HideSubTooltip(v)))
                         /\ Agree(ClearSubFilter(HideSubTooltip(v)))
  BY TakeAwayAgrees
<1> HIDE DEF m
<1>4. CASE row.k \in CategoryKinds
  <2>1. CategoryClick(u, row) = IF IsOwnRow(m, row) THEN ClearSummarySubFilter(HideSubTooltip(m))
                                ELSE PinTip(ApplySummarySubFilter(m, row), row)
    BY DEF CategoryClick, m
  <2>2. Pinnable(m, row)
    BY <1>2, <1>4 DEF CategoryKinds
  <2>3. RowClick(u, row) = CategoryClick(u, row)
    BY <1>4 DEF RowClick, CategoryKinds, Ranking
  <2>4. QED
    BY <1>1, <1>3, <2>1, <2>2, <2>3, SubFilterAgrees
<1>5. CASE row.k = "conn-provider"
  <2>1. ProviderTotalClick(u, row) = IF IsOwnRow(m, row) THEN ToggleOff(m)
                           ELSE Show(PinRow(m, row), RowIds(m, row))
    BY DEF ProviderTotalClick, m
  <2>2. RowClick(u, row) = ProviderTotalClick(u, row)
    BY <1>5 DEF RowClick, CategoryKinds, Ranking
  <2>3. QED
    BY <1>1, <1>2, <1>5, <2>1, <2>2, TakeAwayAgrees, PinAgrees, ShowAgrees
<1>6. CASE row.k \in {"conn-out", "conn-in"}
  <2>1. RowClick(u, row) = IF IsOwnRow(u, row) THEN ToggleOff(u)
                           ELSE Filter(PinRow(u, row), RowIds(u, row))
    BY <1>6 DEF RowClick, CategoryKinds, Ranking, DirectionClick
  <2>2. QED
    BY <1>2, <1>6, <2>1, TakeAwayAgrees, PinAgrees, ShowAgrees
<1>7. CASE row.k = "conn-others"
  <2>1. OthersRowClick(u, row) = IF IsOwnRow(m, row) THEN ToggleOff(m)
                           ELSE PreviewSummaryLines(PinRow(m, row), RowIds(m, row))
    BY DEF OthersRowClick, m
  <2>2. RowClick(u, row) = OthersRowClick(u, row)
    BY <1>7 DEF RowClick, CategoryKinds, Ranking
  <2>3. QED
    BY <1>1, <1>2, <1>7, <2>1, <2>2, TakeAwayAgrees, PinAgrees, ShowAgrees
<1>8. CASE row.k = "all-providers"
  <2>1. AllProvidersClick(u, row) = IF IsOwnRow(m, row) THEN ToggleOff(m)
                           ELSE [PinTip(m, row) EXCEPT !.sub = [row |-> row, ids |-> {}]]
    BY DEF AllProvidersClick, m
  <2>2. RowClick(u, row) = AllProvidersClick(u, row)
    BY <1>8 DEF RowClick, CategoryKinds, Ranking
  <2>3. QED
    <3>1. Agree(PinTip(m, row))
      BY <1>1, <1>2, <1>8, PinAgrees
    <3>2. Agree([PinTip(m, row) EXCEPT !.sub = [row |-> row, ids |-> {}]])
      BY <3>1, SetAgrees
    <3>3. Agree(ToggleOff(m))
      BY <1>1, TakeAwayAgrees
    <3>4. QED
      BY <2>1, <2>2, <3>2, <3>3
<1>9. CASE row.k \in Ranking
  <2>1. RowClick(u, row) = IF IsOwnRow(m, row) THEN ToggleInsightOff(m)
                           ELSE InsightPin(m, row, {}, Leader(m.peers, row.k))
    BY <1>9 DEF RowClick, CategoryKinds, Ranking, RankingClick, m
  <2>2. Pinnable(m, row)
    BY <1>2, <1>9 DEF Ranking
  <2>3. QED
    BY <1>1, <2>1, <2>2, TakeAwayAgrees, InsightPinAgrees
<1>10. CASE row.k = "insight-stable"
  <2> DEFINE lead == Leader(m.peers, row.k)
  <2>1. \/ RowClick(u, row) = ToggleInsightOff(m)
        \/ RowClick(u, row) = InsightPin(m, Row(row.k, lead), PeersOf(m.peers, lead), lead)
    BY <1>10 DEF RowClick, CategoryKinds, Ranking, StableClick, m
  <2>2. lead # None => Pinnable(m, Row(row.k, lead))
    <3>1. m.sel # None \/ m.summary
      BY <1>1, <1>10, RowFacts DEF NavTips, Flags
    <3>2. QED
      BY <3>1 DEF Pinnable, Row
  <2> HIDE DEF lead
  <2>3. QED
    BY <1>1, <2>1, <2>2, TakeAwayAgrees, InsightPinAgrees
<1>11. CASE row.k = "nav"
  <2>1. RowClick(u, row) = NavigateToProvider(u, row.v)
    BY <1>11 DEF RowClick, CategoryKinds, Ranking
  <2>2. QED
    BY <1>11, <2>1, RowFacts, NavigateAgrees
<1>12. CASE row.k \in {"conntype", "provider"}
  <2>1. RowClick(u, row) = IF IsOwnRow(u, row) THEN ClearSubFilter(HideSubTooltip(u))
                           ELSE PinTip(ApplySubFilter(u, row), row)
    BY <1>12 DEF RowClick, CategoryKinds, Ranking, ProviderRowClick
  <2>2. QED
    BY <1>2, <1>3, <1>12, <2>1, SubFilterAgrees
<1>13. row.k \in AllKinds
  BY RowFacts
<1>14. QED
  BY <1>4, <1>5, <1>6, <1>7, <1>8, <1>9, <1>10, <1>11, <1>12, <1>13
  DEF AllKinds, Insights

-----------------------------------------------------------------------------
(***************************************************************************)
(* The pointer.                                                            *)
(***************************************************************************)
LEMMA PointAgrees ==
  ASSUME NEW u, Agree(u), NEW place, NEW x, place \in {"seg", "others"} => x # None
  PROVE  /\ Agree([u EXCEPT !.over = <<place, x>>])
         /\ Flags(u, [u EXCEPT !.over = <<place, x>>])
<1> DEFINE o == <<place, x>>
           v == [u EXCEPT !.over = o]
<1>1. o[1] = place /\ o[2] = x
  OBVIOUS
<1> HIDE DEF o
<1>2. IsUi(v) /\ Flags(u, v) /\ v.panel = u.panel /\ v.over = o /\ v.tip = u.tip
      /\ v.subsub = u.subsub
  BY DEF Agree, IsUi, Names, Flags
<1> HIDE DEF v
<1>3. Views(v) /\ Linking(v)
  BY <1>2 DEF Agree, Views, Linking, Flags, Pinned
<1>4. Hung(v)
  BY <1>1, <1>2 DEF Agree, Hung, Pinned
<1>5. QED
  BY <1>2, <1>3, <1>4 DEF Agree, v, o

LEMMA InsightPreviewAgrees ==
  ASSUME NEW u, Agree(u), NEW row
  PROVE  Agree(RankingPreview(u, row)) /\ Agree(StablePreview(u, row))
<1> DEFINE lead == Leader(u.peers, row.k)
           of   == PeersOf(u.peers, row.v)
           f    == FloatTip(u, row)
<1>1. \A v : Agree(v) => Agree(RectIfFocused(v))
  BY SetAgrees
<1>2. \A v : Agree(v) => \A a : Agree(Focus(v, a))
  BY SetAgrees
<1>3. Agree(f)
  BY FloatAgrees
<1> HIDE DEF f
<1>4. Agree(RankingPreview(u, row))
  <2>1. Agree(Show(f, PeersOf(u.peers, lead)))
    BY <1>3, ShowAgrees
  <2> HIDE DEF lead
  <2>2. QED
    BY <1>1, <1>2, <2>1 DEF RankingPreview, lead, f
<1>5. Agree(StablePreview(u, row))
  <2> DEFINE w == IF lead = None THEN Focus(u, row.v) ELSE RectIfFocused(f)
             v == Filter(w, of)
  <2>1. Agree(w)
    BY <1>1, <1>2, <1>3
  <2> HIDE DEF w
  <2>2. Agree(v)
    BY <2>1, ShowAgrees
  <2> HIDE DEF v
  <2>3. Agree(Draw(v, of))
    BY <2>2, ShowAgrees
  <2>4. StablePreview(u, row) = IF of = {} THEN v ELSE Draw(v, of)
    BY DEF StablePreview, v, w, f
  <2>5. QED
    BY <2>2, <2>3, <2>4
<1>6. QED
  BY <1>4, <1>5

LEMMA RowEnterAgrees ==
  ASSUME NEW u, Agree(u), NEW row \in Rows(u)
  PROVE  Agree(RowEnter(u, row))
<1> DEFINE v == [u EXCEPT !.over = <<"row", row>>]
<1>1. Agree(v)
  BY PointAgrees
<1>2. row.k \in AllKinds
  BY RowFacts
<1> HIDE DEF v
<1> DEFINE ids == RowIds(v, row)
           f   == FloatTip(v, row)
           n   == PeersOf(v.peers, row.v)
<1>3. \/ RowEnter(u, row) = v
      \/ RowEnter(u, row) = PreviewSummaryLines(f, ids)
      \/ RowEnter(u, row) = Show(f, ids)
      \/ RowEnter(u, row) = PreviewProviderLines(f, ids)
      \/ RowEnter(u, row) = Show(Focus(v, row.v), n)
      \/ RowEnter(u, row) = RankingPreview(v, row)
      \/ RowEnter(u, row) = StablePreview(v, row)
  BY <1>2 DEF RowEnter, v, AllKinds, CategoryKinds, Insights, Ranking
<1> HIDE DEF ids, n
<1>4. Agree(f)
  BY <1>1, FloatAgrees
<1>5. Agree(PreviewSummaryLines(f, ids)) /\ Agree(Show(f, ids))
      /\ Agree(PreviewProviderLines(f, ids))
  BY <1>4, ShowAgrees
<1>6. Agree(Focus(v, row.v))
  BY <1>1, SetAgrees
<1>7. Agree(Show(Focus(v, row.v), n))
  BY <1>6, ShowAgrees
<1>8. Agree(RankingPreview(v, row)) /\ Agree(StablePreview(v, row))
  BY <1>1, InsightPreviewAgrees
<1>9. QED
  BY <1>1, <1>3, <1>5, <1>7, <1>8

LEMMA RowLeaveAgrees ==
  ASSUME NEW u, Agree(u), NEW row
  PROVE  Agree(RowLeave(u, row))
<1> DEFINE v == [u EXCEPT !.over = None]
           h == HideSubTooltip(v)
           r == [h EXCEPT !.rect = FALSE]
           c == ClearLegendFocus(v)
<1>1. Agree(v)
  BY SetAgrees
<1> HIDE DEF v
<1>2. Agree(h) /\ Agree(c)
  BY <1>1, TakeAwayAgrees
<1> HIDE DEF h, c
<1>3. Agree(r)
  BY <1>2, SetAgrees
<1> HIDE DEF r
<1>4. \/ RowLeave(u, row) = v \/ RowLeave(u, row) = RestoreProviderFromPreview(h)
      \/ RowLeave(u, row) = RestoreSummaryFromPreview(r)
      \/ RowLeave(u, row) = RestoreSummaryFromPreview(c)
      \/ RowLeave(u, row) = RestoreSummaryFromPreview(h)
  BY DEF RowLeave, v, h, r, c
<1>5. QED
  BY <1>1, <1>2, <1>3, <1>4, TakeAwayAgrees

LEMMA ProviderPointAgrees ==
  ASSUME NEW u, Agree(u), NEW a
  PROVE  Agree(ProviderEnter(u, a)) /\ Agree(ProviderLeave(u))
<1>1. Agree(ProviderEnter(u, a))
  <2> DEFINE v == [u EXCEPT !.over = <<"prov", a>>]
             ids == GroupPeers(u.tip.ids, a)
             w == Show(Focus(v, a), ids)
  <2>1. Agree(v)
    BY PointAgrees
  <2> HIDE DEF v, ids
  <2>2. Agree(Focus(v, a))
    BY <2>1, SetAgrees
  <2>3. Agree(w)
    BY <2>2, ShowAgrees
  <2>4. \/ ProviderEnter(u, a) = v \/ ProviderEnter(u, a) = [w EXCEPT !.insight = a]
        \/ ProviderEnter(u, a) = w
    BY DEF ProviderEnter, v, ids
  <2> HIDE DEF w
  <2>5. Agree([w EXCEPT !.insight = a])
    BY <2>3, SetAgrees
  <2>6. QED
    BY <2>1, <2>3, <2>4, <2>5
<1>2. Agree(ProviderLeave(u))
  <2> DEFINE v == [u EXCEPT !.over = None]
  <2>1. Agree(v)
    BY SetAgrees
  <2>2. \/ ProviderLeave(u) = v \/ ProviderLeave(u) = RestoreSummaryFromPreview(v)
        \/ ProviderLeave(u) = RestoreSummaryFromPreview(ClearLegendFocus(v))
    BY DEF ProviderLeave
  <2> HIDE DEF v
  <2>3. Agree(ClearLegendFocus(v))
    BY <2>1, TakeAwayAgrees
  <2>4. QED
    BY <2>1, <2>2, <2>3, TakeAwayAgrees
<1>3. QED
  BY <1>1, <1>2

LEMMA PeerPointAgrees ==
  ASSUME NEW u, Agree(u), NEW p
  PROVE  Agree(PeerEnter(u, p)) /\ Agree(PeerLeave(u))
<1>1. Agree(PeerEnter(u, p))
  <2> DEFINE o == [u EXCEPT !.over = <<"peer", p>>]
             v == [o EXCEPT !.hovered = p]
  <2>1. Agree(o)
    BY PointAgrees
  <2>2. v = [u EXCEPT !.over = <<"peer", p>>, !.hovered = p]
    BY DEF Agree, IsUi, Names
  <2> HIDE DEF o
  <2>3. Agree(v)
    BY <2>1, SetAgrees
  <2> HIDE DEF v
  <2>4. \/ PeerEnter(u, p) = PreviewSummaryLines(v, {p})
        \/ PeerEnter(u, p) = PreviewProviderLines(v, {p}) \/ PeerEnter(u, p) = v
    BY <2>2 DEF PeerEnter
  <2>5. QED
    BY <2>3, <2>4, ShowAgrees
<1>2. Agree(PeerLeave(u))
  <2> DEFINE o == [u EXCEPT !.over = None]
             v == [o EXCEPT !.hovered = None]
  <2>1. Agree(o)
    BY SetAgrees
  <2>2. v = [u EXCEPT !.over = None, !.hovered = None]
    BY DEF Agree, IsUi, Names
  <2> HIDE DEF o
  <2>3. Agree(v)
    BY <2>1, SetAgrees
  <2> HIDE DEF v
  <2>4. \/ PeerLeave(u) = v \/ \E ids : PeerLeave(u) = Filter(v, ids)
        \/ \E ids : PeerLeave(u) = Show(v, ids)
        \/ PeerLeave(u) = RestoreSummaryFromPreview(v)
        \/ PeerLeave(u) = RestoreProviderFromPreview(v)
    BY <2>2 DEF PeerLeave
  <2>5. QED
    BY <2>3, <2>4, ShowAgrees, TakeAwayAgrees
<1>3. QED
  BY <1>1, <1>2

LEMMA SegmentPointAgrees ==
  ASSUME NEW u, Agree(u), NEW a, a # None
  PROVE  Agree(SegmentEnter(u, a)) /\ Agree(SegmentLeave(u))
<1>1. Agree(SegmentEnter(u, a))
  <2> DEFINE v == [u EXCEPT !.over = <<"seg", a>>]
  <2>1. Agree(v)
    BY PointAgrees
  <2>2. SegmentEnter(u, a) = v \/ SegmentEnter(u, a) = Show(v, PeersOf(u.peers, a))
    BY DEF SegmentEnter
  <2> HIDE DEF v
  <2>3. QED
    BY <2>1, <2>2, ShowAgrees
<1>2. Agree(SegmentLeave(u))
  <2> DEFINE v == [u EXCEPT !.over = None]
             d == Draw(v, {})
  <2>1. Agree(v)
    BY SetAgrees
  <2> HIDE DEF v
  <2>2. Agree(d)
    BY <2>1, ShowAgrees
  <2>3. \/ SegmentLeave(u) = v \/ SegmentLeave(u) = RestoreSummaryFromPreview(v)
        \/ SegmentLeave(u) = ShowAll(v) \/ SegmentLeave(u) = Filter(d, None)
    BY DEF SegmentLeave, v
  <2> HIDE DEF d
  <2>4. QED
    BY <2>1, <2>2, <2>3, ShowAgrees, TakeAwayAgrees
<1>3. QED
  BY <1>1, <1>2

LEMMA TitlePointAgrees ==
  ASSUME NEW u, Agree(u)
  PROVE  Agree(TitleEnter(u)) /\ Agree(TitleLeave(u))
<1>1. Agree(TitleEnter(u))
  <2> DEFINE v == [u EXCEPT !.over = <<"title", None>>]
             w == [v EXCEPT !.hoverAll = TRUE]
  <2>1. Agree(v)
    BY PointAgrees
  <2>2. TitleEnter(u) = v \/ TitleEnter(u) = ActivateHoverAll(w)
    BY DEF TitleEnter
  <2> HIDE DEF v
  <2>3. Agree(w)
    BY <2>1, SetAgrees
  <2> HIDE DEF w
  <2>4. QED
    BY <2>1, <2>2, <2>3, ShowAgrees
<1>2. Agree(TitleLeave(u))
  <2> DEFINE v == [u EXCEPT !.over = None]
             w == [v EXCEPT !.hoverAll = FALSE]
  <2>1. Agree(v)
    BY SetAgrees
  <2>2. TitleLeave(u) = v \/ TitleLeave(u) = Draw(w, {})
    BY DEF TitleLeave
  <2> HIDE DEF v
  <2>3. Agree(w)
    BY <2>1, SetAgrees
  <2> HIDE DEF w
  <2>4. QED
    BY <2>1, <2>2, <2>3, ShowAgrees
<1>3. QED
  BY <1>1, <1>2

LEMMA OthersPointAgrees ==
  ASSUME NoneIsNoTip, NEW u, Agree(u), NEW a, a # None, u.others # None
  PROVE  Agree(OthersEnter(u, a)) /\ Agree(OthersClick(u, a))
<1>1. Agree(OthersEnter(u, a))
  <2> DEFINE v == [u EXCEPT !.over = <<"others", a>>]
  <2>1. Agree(v)
    BY PointAgrees
  <2>2. OthersEnter(u, a) = Show(v, GroupPeers(u.others, a))
    BY DEF OthersEnter
  <2> HIDE DEF v
  <2>3. QED
    BY <2>1, <2>2, ShowAgrees
<1>2. Agree(OthersClick(u, a))
  <2>1. u.focused
    BY DEF Agree, Views
  <2>2. QED
    BY <2>1, BackToOthersAgrees, NavigateAgrees DEF OthersClick
<1>3. QED
  BY <1>1, <1>2

LEMMA OthersLeaveAgrees ==
  ASSUME NEW u, Agree(u)
  PROVE  Agree(OthersLeave(u))
<1> DEFINE v == [u EXCEPT !.over = None]
<1>1. Agree(v)
  BY SetAgrees
<1>2. (\E ids : OthersLeave(u) = Show(v, ids)) \/ OthersLeave(u) = ShowAll(v)
  BY DEF OthersLeave
<1> HIDE DEF v
<1>3. QED
  BY <1>1, <1>2, ShowAgrees

-----------------------------------------------------------------------------
(***************************************************************************)
(* Clicks in the tooltips and beside the panel, and the Escape key.        *)
(***************************************************************************)
LEMMA ProviderClickAgrees ==
  ASSUME NEW u, Agree(u), Pinned(u), NEW a
  PROVE  Agree(ProviderClick(u, a))
<1> DEFINE ids == GroupPeers(u.tip.ids, a)
           f == Focus(u, a)
           s == [f EXCEPT !.subsub = [as |-> a, ids |-> ids]]
           v == Show(s, ids)
<1>1. Agree(f) /\ Pinned(f)
  <2>1. Agree(f)
    BY SetAgrees
  <2>2. f.tip = u.tip
    BY DEF Focus, Agree, IsUi, Names
  <2>3. QED
    BY <2>1, <2>2 DEF Pinned
<1>2. ProviderClick(u, a) = v \/ ProviderClick(u, a) = [v EXCEPT !.insight = a]
  BY DEF ProviderClick
<1> HIDE DEF ids, f
<1>3. /\ IsUi(s) /\ Flags(f, s) /\ s.panel = f.panel /\ s.tip = f.tip /\ s.over = f.over
  BY <1>1 DEF Agree, IsUi, Names, Flags
<1> HIDE DEF s
<1>4. Agree(s)
  BY <1>1, <1>3 DEF Agree, Views, Hung, Linking, Pinned, Flags
<1>5. Agree(v)
  BY <1>4, ShowAgrees
<1> HIDE DEF v
<1>6. Agree([v EXCEPT !.insight = a])
  BY <1>5, SetAgrees
<1>7. QED
  BY <1>2, <1>5, <1>6

LEMMA ProviderLinkAgrees ==
  ASSUME NoneIsNoTip, NEW u, Agree(u), NEW a \in TipLinks(u)
  PROVE  Agree(ProviderLink(u, a))
<1> DEFINE h == HideSubTooltip(u)
<1>1. Pinned(u) /\ u.tip.row.k \in NavTips
  BY DEF TipLinks
<1>2. u.focused
  BY <1>1 DEF Agree, Linking, Views
<1>3. a # None
  <2>1. CASE u.tip.row.k \in ProviderTips
    BY <1>1, <2>1, AsDataAssumption DEF TipLinks, TipProviders
  <2>2. CASE u.tip.row.k \notin ProviderTips
    <3>1. a = u.tip.row.v
      BY <1>1, <2>2 DEF TipLinks, ProviderTips
    <3>2. u.tip.row.k \in {"conn-provider", "insight-stable"}
      BY <1>1, <2>2 DEF NavTips, ProviderTips
    <3>3. QED
      BY <1>1, <3>1, <3>2 DEF Agree, Hung
  <2>3. QED
    BY <2>1, <2>2
<1>4. Less(u, h)
  BY TipLess DEF Agree
<1>5. Agree(h) /\ h.focused
  BY <1>2, <1>4, LessAgrees DEF Less, Flags
<1>6. ProviderLink(u, a) = NavigateToProvider(h, a)
  BY DEF ProviderLink
<1> HIDE DEF h
<1>7. QED
  BY <1>3, <1>5, <1>6, NavigateAgrees

LEMMA BlankClickAgrees ==
  ASSUME NEW u, Agree(u)
  PROVE  Agree(BlankClick(u))
<1> DEFINE v == HideSubTooltip(u)
           d == DropSub(v)
<1>1. Agree(v)
  BY TakeAwayAgrees
<1> HIDE DEF v
<1>2. Agree(d)
  BY <1>1, TakeAwayAgrees
<1> HIDE DEF d
<1>3. BlankClick(u) = u \/ BlankClick(u) = ShowAll(d) \/ BlankClick(u) = ClearSubFilter(v)
      \/ BlankClick(u) = v
  BY DEF BlankClick, d, v
<1>4. QED
  BY <1>1, <1>2, <1>3, ShowAgrees, TakeAwayAgrees

LEMMA MapClickAgrees ==
  ASSUME NoneIsNoTip, NEW u, Agree(u)
  PROVE  Agree(MapClick(u))
<1> DEFINE s == [u EXCEPT !.others = None, !.history = FALSE, !.sel = None]
           h == [u EXCEPT !.history = FALSE]
<1>1. \/ u.net # None /\ MapClick(u) = LeaveNetworkPanel(u)
      \/ MapClick(u) = ClosePeerPopup(u) \/ MapClick(u) = BlankClick(u)
      \/ u.sel # None /\ u.focused /\ MapClick(u) = SelectSummary(s)
      \/ MapClick(u) = Deselect(h)
      \/ u.summary /\ ~u.focused
      \/ MapClick(u) = ExitFocusedMode(u)
  BY DEF MapClick
<1>2. ~(u.summary /\ ~u.focused) /\ (u.net # None => u.focused)
  BY DEF Agree, Views
<1>3. ASSUME u.focused
      PROVE  Agree(SelectSummary(s))
  <2>1. Calm(u, s) /\ s.sel = None /\ s.focused
    BY <1>3 DEF Agree, IsUi, Names, Calm, SameTip
  <2> HIDE DEF s
  <2>2. IsUi(s) /\ Hung(s)
    BY <2>1, CalmHangs DEF Agree, Calm
  <2>3. QED
    BY <2>1, <2>2, SelectSummaryAgrees
<1>4. Agree(h)
  BY SetAgrees
<1> HIDE DEF s, h
<1>5. QED
  BY <1>1, <1>2, <1>3, <1>4, LeaveNetworkAgrees, TakeAwayAgrees, BlankClickAgrees,
     DeselectAgrees, ExitFocusedAgrees

LEMMA EscapeAgrees ==
  ASSUME NoneIsNoTip, NEW u, Agree(u)
  PROVE  Agree(Escape(u))
<1> DEFINE s == HideSubSubTooltip(u)
           t == HideSubTooltip(u)
<1>1. Agree(s) /\ Agree(t)
  BY TakeAwayAgrees
<1> HIDE DEF s, t
<1>2. Agree(EscapeSubSub(u))
  <2>1. \/ EscapeSubSub(u) = s \/ EscapeSubSub(u) = PreviewSummaryLines(s, s.sub.ids)
        \/ EscapeSubSub(u) = ShowAll(s)
    BY DEF EscapeSubSub, s
  <2>2. QED
    BY <1>1, <2>1, ShowAgrees
<1>3. Agree(EscapeTip(u))
  <2>1. \/ EscapeTip(u) = t \/ EscapeTip(u) = ClearSummarySubFilter(t)
        \/ EscapeTip(u) = ClearSubFilter(t)
    BY DEF EscapeTip, t
  <2>2. QED
    BY <1>1, <2>1, TakeAwayAgrees
<1>4. \/ Escape(u) = ClosePeerPopup(u) \/ Escape(u) = EscapeSubSub(u)
      \/ Escape(u) = EscapeTip(u)
      \/ u.net # None /\ Escape(u) = LeaveNetworkPanel(u)
      \/ u.summary /\ ~u.focused
      \/ Escape(u) = ExitFocusedMode(u) \/ Escape(u) = Deselect(u)
  BY DEF Escape
<1>5. ~(u.summary /\ ~u.focused) /\ (u.net # None => u.focused)
  BY DEF Agree, Views
<1>6. QED
  BY <1>2, <1>3, <1>4, <1>5, TakeAwayAgrees, LeaveNetworkAgrees, ExitFocusedAgrees,
     DeselectAgrees

LEMMA ButtonsAgree ==
  ASSUME NEW u, Agree(u)
  PROVE  /\ Agree(CloseButton(u)) /\ Agree(RectClose(u)) /\ Agree(EnterPrivateNet(u))
         /\ Agree(HideContainer(u)) /\ Agree(TimerFires(u))
<1>1. Agree(CloseButton(u)) /\ Agree(HideContainer(u))
  BY ExitFocusedAgrees, DeselectAgrees DEF CloseButton, HideContainer
<1>2. Agree(RectClose(u))
  <2> DEFINE r == [u EXCEPT !.rect = FALSE]
             v == [r EXCEPT !.insight = None]
  <2>1. v = [u EXCEPT !.rect = FALSE, !.insight = None]
    BY DEF Agree, IsUi, Names
  <2>2. Agree(r)
    BY SetAgrees
  <2> HIDE DEF r
  <2>3. Agree(v)
    BY <2>2, SetAgrees
  <2> HIDE DEF v
  <2>4. RectClose(u) = v \/ RectClose(u) = ClearSummarySubFilter(v)
    BY <2>1 DEF RectClose
  <2>5. QED
    BY <2>3, <2>4, TakeAwayAgrees
<1>3. Agree(EnterPrivateNet(u))
  <2>1. Agree(ClosePeerPopup(u))
    BY TakeAwayAgrees
  <2>2. Agree(Deselect(ClosePeerPopup(u)))
    BY <2>1, DeselectAgrees
  <2>3. QED
    BY <2>2, ExitFocusedAgrees DEF EnterPrivateNet
<1>4. Agree(TimerFires(u))
  <2>1. Less(u, TimerFires(u))
    BY DEF TimerFires, Agree, IsUi, Names, Less, Flags, Calm, SameTip
  <2>2. QED
    BY <2>1, LessAgrees
<1>5. QED
  BY <1>1, <1>2, <1>3, <1>4

LEMMA NetChipAgrees ==
  ASSUME NoneIsNoTip, NEW u, Agree(u), NEW n, n # None
  PROVE  Agree(NetChip(u, n))
BY EnterFocusedAgrees, OpenNetworkAgrees DEF NetChip

-----------------------------------------------------------------------------
(***************************************************************************)
(* The refresh.                                                            *)
(***************************************************************************)
LEMMA RefilterAgrees ==
  ASSUME NEW u, Agree(u), NEW ids
  PROVE  Agree(Refilter(u, ids))
BY SetAgrees DEF Refilter

LEMMA RefreshNetworkAgrees ==
  ASSUME NEW u, Agree(u)
  PROVE  Agree(RefreshNetwork(u))
BY ShowAgrees DEF RefreshNetwork

LEMMA RefreshProviderAgrees ==
  ASSUME NoneIsNoTip, NEW u, Agree(u), u.sel # None
  PROVE  Agree(RefreshProvider(u))
<1> DEFINE fresh == FreshIds(u)
           pin   == IF fresh # {} THEN Refilter(u, fresh) ELSE u
           built == OpenPanel(u, u.sel)
           d     == DropSub(built)
           h     == HideSubTooltip(d)
           r     == Refilter(built, fresh)
<1>1. \/ RefreshProvider(u) = Deselect(u) \/ RefreshProvider(u) = pin
      \/ \E ids : RefreshProvider(u) = PreviewProviderLines(pin, ids)
      \/ \E ids : RefreshProvider(u) = Show(pin, ids)
      \/ \E ids : RefreshProvider(u) = Show(r, ids)
      \/ \E ids : RefreshProvider(u) = Show(h, ids)
      \/ \E ids : RefreshProvider(u) = Show(built, ids)
  BY DEF RefreshProvider
<1>2. Agree(pin)
  BY RefilterAgrees
<1>3. Agree(built)
  <2>1. u.focused /\ ~u.summary /\ IsUi(u) /\ Hung(u)
    BY DEF Agree, Views
  <2>2. QED
    BY <2>1, OpenProviderAgrees
<1> HIDE DEF pin, built, fresh
<1>4. Agree(d) /\ Agree(r)
  BY <1>3, TakeAwayAgrees, RefilterAgrees
<1> HIDE DEF d, r
<1>5. Agree(h)
  BY <1>4, TakeAwayAgrees
<1> HIDE DEF h
<1>6. QED
  BY <1>1, <1>2, <1>3, <1>4, <1>5, DeselectAgrees, ShowAgrees

LEMMA RefreshSubSubAgrees ==
  ASSUME NEW u, Agree(u), u.subsub # None
  PROVE  Agree(RefreshSubSub(u))
<1> DEFINE group  == GroupPeers(u.peers, u.subsub.as)
           parent == IF FreshCategory(u) # {} THEN FreshCategory(u)
                     ELSE IF u.sub # None /\ u.sub.row.k = "conn-others"
                     THEN PeersOf(u.peers, "Others") ELSE {}
           ids    == IF parent = {} THEN group ELSE group \cap parent
           v      == IF parent = {} THEN u ELSE Refilter(u, parent)
           w      == [v EXCEPT !.subsub = [@ EXCEPT !.ids = ids]]
<1>1. RefreshSubSub(u) = IF group = {} THEN u ELSE Show(w, HoveredOr(u, ids))
  BY DEF RefreshSubSub
<1> HIDE DEF group, parent, ids
<1>2. Agree(v) /\ v.subsub # None
  <2>1. \A x : Agree(Refilter(u, x)) /\ Refilter(u, x).subsub = u.subsub
    BY RefilterAgrees DEF Refilter, Agree, IsUi, Names
  <2>2. QED
    BY <2>1
<1> HIDE DEF v
<1>3. Less(v, w)
  BY <1>2 DEF Agree, IsUi, Names, Less, Flags, Calm, SameTip
<1>4. Agree(w)
  BY <1>2, <1>3, LessAgrees
<1> HIDE DEF w
<1>5. QED
  BY <1>1, <1>4, ShowAgrees

LEMMA RefreshSubAgrees ==
  ASSUME NEW u, Agree(u)
  PROVE  Agree(RefreshSub(u))
<1> DEFINE row   == u.sub.row
           group == GroupPeers(u.peers, row.v)
           r     == Refilter(u, group)
           s     == [r EXCEPT !.insight = row.v]
<1>1. \A ids : Agree(RefreshList(u, ids))
  <2> TAKE ids
  <2> DEFINE v == Refilter(u, ids)
  <2>1. Agree(v)
    BY RefilterAgrees
  <2>2. \/ RefreshList(u, ids) = PreviewSummaryLines(v, ids)
        \/ RefreshList(u, ids) = Show(v, GroupPeers(u.peers, u.legend) \cap ids)
        \/ RefreshList(u, ids) = v
    BY DEF RefreshList
  <2> HIDE DEF v
  <2>3. QED
    BY <2>1, <2>2, ShowAgrees
<1>2. \A word : Agree(RefreshDirection(u, word))
  <2>1. \A ids : Agree(Filter(Refilter(u, ids), ids))
    BY RefilterAgrees, ShowAgrees
  <2>2. QED
    BY <2>1 DEF RefreshDirection
<1>3. Agree(r)
  BY RefilterAgrees
<1>4. \/ RefreshSub(u) = u \/ \E ids : RefreshSub(u) = RefreshList(u, ids)
      \/ \E ids : RefreshSub(u) = Show(u, ids)
      \/ \E ids : RefreshSub(u) = Show(s, ids)
      \/ \E ids : RefreshSub(u) = Show(r, ids)
      \/ \E word : RefreshSub(u) = RefreshDirection(u, word)
  BY DEF RefreshSub
<1> HIDE DEF r
<1>5. Agree(s)
  BY <1>3, SetAgrees
<1> HIDE DEF s
<1>6. QED
  BY <1>1, <1>2, <1>3, <1>4, <1>5, ShowAgrees

LEMMA RefreshSummaryAgrees ==
  ASSUME NoneIsNoTip, NEW u, Agree(u), u.summary
  PROVE  Agree(RefreshSummary(u))
<1> DEFINE built == OpenSummaryPanel(u)
           fresh == FreshCategory(u)
           ids   == PeersOf(u.peers, u.insight)
           f     == Filter(built, ids)
           lit   == Focus(f, u.insight)
           d     == DropSub(built)
           h     == HideSubTooltip(d)
           r     == Refilter(built, fresh)
<1>1. \/ u.subsub # None /\ RefreshSummary(u) = RefreshSubSub(u)
      \/ RefreshSummary(u) = u \/ RefreshSummary(u) = RefreshSub(u)
      \/ RefreshSummary(u) = ActivateHoverAll(u)
      \/ RefreshSummary(u) = PreviewSummaryLines(r, fresh)
      \/ RefreshSummary(u) = ActivateHoverAll(h)
      \/ RefreshSummary(u) = lit \/ RefreshSummary(u) = Draw(lit, ids)
      \/ RefreshSummary(u) = ActivateHoverAll(built)
  BY DEF RefreshSummary
<1>2. Agree(built)
  <2>1. u.focused /\ u.sel = None
    BY DEF Agree, Views
  <2>2. Calm(u, built) /\ Flags(u, built) /\ built.panel.kind = "summary"
    BY OpenSummaryPanelEffect DEF Agree, Hung
  <2> HIDE DEF built
  <2>3. IsUi(built) /\ Hung(built)
    BY <2>2, CalmHangs DEF Agree, Calm
  <2>4. QED
    BY <2>1, <2>2, <2>3, SummaryAgrees DEF Flags
<1> HIDE DEF built, fresh, ids
<1>3. Agree(f) /\ Agree(d) /\ Agree(r)
  BY <1>2, ShowAgrees, TakeAwayAgrees, RefilterAgrees
<1> HIDE DEF f, d, r
<1>4. Agree(lit) /\ Agree(h)
  BY <1>3, SetAgrees, TakeAwayAgrees
<1> HIDE DEF lit, h
<1>5. QED
  BY <1>1, <1>2, <1>3, <1>4, RefreshSubSubAgrees, RefreshSubAgrees, ShowAgrees

LEMMA RefreshAgrees ==
  ASSUME NoneIsNoTip, NEW u, Agree(u), NEW P
  PROVE  Agree(Refresh(u, P))
<1> DEFINE v == [u EXCEPT !.peers = P]
           d == RenderDonut(v)
           w == IF AnyPin(d) THEN d ELSE [d EXCEPT !.legend = None]
           x == IF w.sel # None THEN RefreshProvider(w) ELSE w
<1>1. Refresh(u, P) = IF v.detail THEN v
                      ELSE IF v.net # None THEN RefreshNetwork(d)
                      ELSE IF x.summary THEN RefreshSummary(x) ELSE x
  BY DEF Refresh
<1>2. Agree(v)
  BY SetAgrees
<1> HIDE DEF v
<1>3. Agree(d)
  BY <1>2, TakeAwayAgrees
<1> HIDE DEF d
<1>4. Agree(w)
  <2>1. Less(d, [d EXCEPT !.legend = None])
    BY <1>3, SetField DEF Agree
  <2>2. QED
    BY <1>3, <2>1, LessAgrees
<1> HIDE DEF w
<1>5. Agree(x)
  BY <1>4, RefreshProviderAgrees
<1> HIDE DEF x
<1>6. QED
  BY <1>1, <1>2, <1>3, <1>5, RefreshNetworkAgrees, RefreshSummaryAgrees

-----------------------------------------------------------------------------
(***************************************************************************)
(* The invariant, and the theorem.                                         *)
(***************************************************************************)
LEMMA InitAgrees ==
  ASSUME Init
  PROVE  Agree(ui)
<1>1. IsUi(ui)
  BY DEF Init, IsUi, Names
<1>2. Views(ui)
  BY DEF Init, Views, Closed
<1>3. Hung(ui) /\ Linking(ui)
  BY DEF Init, Hung, Linking, IsTip, Pinned
<1>4. QED
  BY <1>1, <1>2, <1>3 DEF Agree

LEMMA SomeSegment ==
  ASSUME NEW P, NEW a \in Segments(P) \cup Groups(P)
  PROVE  a # None
BY AsDataAssumption DEF Segments, TopGroups, Groups

LEMMA NextAgrees ==
  ASSUME NoneIsNoTip, Agree(ui), [Next]_ui
  PROVE  Agree(ui')
<1>1. CASE PointOnPanel
  BY <1>1, RowEnterAgrees, ProviderPointAgrees, PeerPointAgrees DEF PointOnPanel
<1>2. CASE PointOnDonut
  <2>1. ASSUME NEW a \in Segments(ui.peers), ui' = SegmentEnter(ui, a)
        PROVE  Agree(ui')
    BY <2>1, SomeSegment, SegmentPointAgrees
  <2>2. ASSUME ui' = TitleEnter(ui)
        PROVE  Agree(ui')
    BY <2>2, TitlePointAgrees
  <2>3. ASSUME ui.others # None, NEW a \in Groups(ui.others), ui' = OthersEnter(ui, a)
        PROVE  Agree(ui')
    BY <2>3, SomeSegment, OthersPointAgrees
  <2>4. QED
    BY <1>2, <2>1, <2>2, <2>3 DEF PointOnDonut
<1>3. CASE PointAway
  <2>1. On("seg") => ui.over[2] # None
    BY DEF On, Agree, Hung
  <2>2. QED
    BY <1>3, <2>1, RowLeaveAgrees, ProviderPointAgrees, PeerPointAgrees, SegmentPointAgrees,
       TitlePointAgrees, OthersLeaveAgrees DEF PointAway
<1>4. CASE PointerLost
  BY <1>4, SetAgrees DEF PointerLost
<1>5. CASE ClickOnPanel
  <2>1. CASE On("row") /\ ui.over[2] \in Rows(ui) /\ ui' = RowClick(ui, ui.over[2])
    BY <2>1, RowClickAgrees
  <2>2. CASE ui.over[2] \in TipProviders(ui) /\ ui' = ProviderClick(ui, ui.over[2])
    <3>1. Pinned(ui)
      BY <2>2 DEF TipProviders
    <3>2. QED
      BY <2>2, <3>1, ProviderClickAgrees
  <2>3. CASE ui' = PeerClick(ui, ui.over[2])
    BY <2>3, OpenPeerAgrees DEF PeerClick
  <2>4. CASE \E a \in TipLinks(ui) : ui' = ProviderLink(ui, a)
    BY <2>4, ProviderLinkAgrees
  <2>5. CASE \/ ui' = BlankClick(ui) \/ ui' = CloseButton(ui) \/ ui' = NavigateBack(ui)
             \/ ui' = RectClose(ui)
    BY <2>5, BlankClickAgrees, ButtonsAgree, NavigateBackAgrees
  <2>6. QED
    BY <1>5, <2>1, <2>2, <2>3, <2>4, <2>5 DEF ClickOnPanel
<1>6. CASE ClickOnDonut
  <2>1. On("seg") \/ On("others") => ui.over[2] # None
    BY DEF On, Agree, Hung
  <2>2. QED
    BY <1>6, <2>1, SegmentClickAgrees, EnterFocusedAgrees, OthersPointAgrees DEF ClickOnDonut
<1>7. CASE ClickElsewhere
  <2>1. \A n \in Nets : n # None
    BY AsDataAssumption
  <2>2. CASE \E n \in Nets : ui' = NetChip(ui, n)
    BY <2>1, <2>2, NetChipAgrees
  <2>3. CASE \E p \in ui.peers : ui' = OpenPeerDetailPanel(ui, p)
    BY <2>3, OpenPeerAgrees
  <2>4. CASE \/ ui' = MapClick(ui) \/ ui' = EnterPrivateNet(ui) \/ ui' = HideContainer(ui)
             \/ ui' = ClosePeerPopup(ui)
    BY <2>4, MapClickAgrees, ButtonsAgree, TakeAwayAgrees
  <2>5. QED
    BY <1>7, <2>2, <2>3, <2>4 DEF ClickElsewhere
<1>8. CASE PressEscape
  BY <1>8, EscapeAgrees DEF PressEscape
<1>9. CASE RemovePopup
  BY <1>9, ButtonsAgree DEF RemovePopup
<1>10. CASE Poll
  BY <1>10, RefreshAgrees DEF Poll
<1>11. CASE UNCHANGED ui
  BY <1>11
<1>12. QED
  BY <1>1, <1>2, <1>3, <1>4, <1>5, <1>6, <1>7, <1>8, <1>9, <1>10, <1>11 DEF Next

LEMMA AgreeImpliesViews ==
  ASSUME Agree(ui)
  PROVE  ViewsAgree
<1>1. OneSelection
  BY DEF Agree, Views, OneSelection
<1>2. PanelIsOfSelection
  BY DEF Agree, Views, PanelIsOfSelection
<1>3. TipsAreNested
  BY DEF Agree, Hung, TipsAreNested
<1>4. QED
  BY <1>1, <1>2, <1>3 DEF ViewsAgree

\* For any peers, systems, rows and inputs: a provider and the summary are
\* never selected together, nothing is selected out of the focused mode, the
\* panel shows what is selected, and a second tooltip has its first one
\* (some twenty handlers of as-distribution.js set these fields one by one).
THEOREM SelectionAgrees ==
  ASSUME NoneIsNoTip
  PROVE  Spec => []ViewsAgree
<1>1. Init => Agree(ui)
  BY InitAgrees
<1>2. Agree(ui) /\ [Next]_ui => Agree(ui)'
  <2>1. SUFFICES ASSUME Agree(ui), [Next]_ui
                 PROVE  Agree(ui')
    OBVIOUS
  <2>2. QED
    BY <2>1, NextAgrees
<1>3. Agree(ui) => ViewsAgree
  BY AgreeImpliesViews
<1>4. QED
  BY <1>1, <1>2, <1>3, PTL DEF Spec
-----------------------------------------------------------------------------
(***************************************************************************)
(* Part 2: domains.  A few facts about sets first.                         *)
(***************************************************************************)
\* A finite set that is not empty has a least member in any strict order.
LEMMA FiniteHasLeast ==
  ASSUME NEW S, IsFiniteSet(S), S # {}, NEW R,
         \A p \in S : <<p, p>> \notin R,
         \A p, q, r \in S : <<p, q>> \in R /\ <<q, r>> \in R => <<p, r>> \in R
  PROVE  \E p \in S : \A q \in S : <<q, p>> \notin R
<1> DEFINE Bad == {X \in SUBSET S : X # {} /\ \A p \in X : \E q \in X : <<q, p>> \in R}
           Order == StrictSubsetOrdering(S)
<1>1. SUFFICES Bad = {}
  <2>1. S \notin Bad
    BY <1>1
  <2>2. QED
    BY <2>1
<1>2. SUFFICES ASSUME Bad # {} PROVE FALSE
  OBVIOUS
<1>3. Bad \subseteq SUBSET S
  OBVIOUS
<1>4. IsWellFoundedOn(Order, SUBSET S)
  BY FS_FiniteSubsetsOfFinite, FS_StrictSubsetOrderingWellFounded
<1>5. PICK X \in Bad : \A Y \in Bad : <<Y, X>> \notin Order
  <2> HIDE DEF Bad, Order
  <2>1. \E X \in Bad : \A Y \in Bad : ~(<<Y, X>> \in Order)
    BY <1>2, <1>3, <1>4, WFMin
  <2>2. QED
    BY <2>1
<1>6. PICK p \in X : TRUE
  OBVIOUS
\* What is below a member of X is smaller, and as bad as X.
<1> DEFINE Y == {q \in X : <<q, p>> \in R}
<1>7. Y # X /\ Y # {} /\ Y \subseteq X
  BY <1>6
<1>8. \A r \in Y : \E q \in Y : <<q, r>> \in R
  <2> TAKE r \in Y
  <2>1. PICK q \in X : <<q, r>> \in R
    OBVIOUS
  <2>2. q \in Y
    BY <1>6, <2>1
  <2>3. QED
    BY <2>1, <2>2
<1>9. Y \in Bad
  BY <1>7, <1>8
<1>10. <<Y, X>> \in Order
  BY <1>7 DEF StrictSubsetOrdering
<1>11. QED
  BY <1>5, <1>9, <1>10

LEMMA Extremes ==
  ASSUME NEW S \in SUBSET Nat, IsFiniteSet(S), S # {}
  PROVE  /\ \E p \in S : \A q \in S : p <= q
         /\ \E p \in S : \A q \in S : p >= q
<1>1. \E p \in S : \A q \in S : p <= q
  <2> DEFINE R == {e \in S \X S : e[1] < e[2]}
  <2>1. \A p, q \in S : <<p, q>> \in R <=> p < q
    OBVIOUS
  <2> HIDE DEF R
  <2>2. /\ \A p \in S : <<p, p>> \notin R
        /\ \A p, q, r \in S : <<p, q>> \in R /\ <<q, r>> \in R => <<p, r>> \in R
    BY <2>1
  <2>3. \E p \in S : \A q \in S : <<q, p>> \notin R
    BY <2>2, FiniteHasLeast
  <2>4. PICK p \in S : \A q \in S : ~(q < p)
    BY <2>1, <2>3
  <2>5. p \in Nat /\ \A q \in S : q \in Nat
    OBVIOUS
  <2>6. \A q \in S : p <= q
    BY <2>4, <2>5
  <2>7. QED
    BY <2>6
<1>2. \E p \in S : \A q \in S : p >= q
  <2> DEFINE R == {e \in S \X S : e[1] > e[2]}
  <2>1. \A p, q \in S : <<p, q>> \in R <=> p > q
    OBVIOUS
  <2> HIDE DEF R
  <2>2. /\ \A p \in S : <<p, p>> \notin R
        /\ \A p, q, r \in S : <<p, q>> \in R /\ <<q, r>> \in R => <<p, r>> \in R
    BY <2>1
  <2>3. \E p \in S : \A q \in S : <<q, p>> \notin R
    BY <2>2, FiniteHasLeast
  <2>4. PICK p \in S : \A q \in S : ~(q > p)
    BY <2>1, <2>3
  <2>5. p \in Nat /\ \A q \in S : q \in Nat
    OBVIOUS
  <2>6. \A q \in S : p >= q
    BY <2>4, <2>5
  <2>7. QED
    BY <2>6
<1>3. QED
  BY <1>1, <1>2

\* An insight's leading provider is a provider, or none.
LEMMA LeaderLeads ==
  ASSUME AsDataAssumption, NEW P \in SUBSET Peers, NEW k
  PROVE  /\ Leader(P, k) \in Systems \cup {None}
         /\ Linked(P) # {} => Leader(P, k) \in Systems
<1> DEFINE ids == Linked(P)
           l == CHOOSE p \in ids : \A q \in ids : IF k = "insight-stable" THEN p <= q ELSE p >= q
<1>1. ids \in SUBSET Nat /\ IsFiniteSet(ids)
  <2>1. ids \subseteq Peers
    BY DEF Linked
  <2>2. QED
    BY <2>1, FS_Subset DEF AsDataAssumption
<1>2. ids # {} => \E p \in ids : \A q \in ids : IF k = "insight-stable" THEN p <= q ELSE p >= q
  <2> HIDE DEF ids
  <2>1. QED
    BY <1>1, Extremes
<1>3. ids # {} => l \in ids
  <2> HIDE DEF ids
  <2>1. QED
    BY <1>2
<1>4. Leader(P, k) = IF ids = {} THEN None ELSE As[l]
  BY DEF Leader
<1>5. \A p \in ids : As[p] \in Systems
  BY DEF Linked, AsDataAssumption
<1> HIDE DEF l
<1>6. QED
  BY <1>3, <1>4, <1>5

StrictRows == {r \in RowSet : r.k \in {"nav", "conn-provider", "insight-stable"} => r.v \in Systems}
Tips == [row : StrictRows, ids : SUBSET Peers, pinned : BOOLEAN, live : BOOLEAN]

Ui ==
  [peers : SUBSET Peers, sel : AsOrOthers \cup {None}, summary : BOOLEAN, focused : BOOLEAN,
   net : Nets \cup {None}, panel : PanelSet, history : BOOLEAN, others : (SUBSET Peers) \cup {None},
   hoverAll : BOOLEAN, sub : SubSet, tip : Tips \cup {None}, subsub : SubsubSet,
   insight : Systems \cup {None}, rect : BOOLEAN, legend : AsOrOthers \cup {None},
   hovered : Peers \cup {None}, popup : PopupSet, detail : BOOLEAN,
   selPeer : Peers \cup {None}, timers : Nat,
   filter : (SUBSET Peers) \cup {None}, lines : SUBSET Peers, over : Overs]

Same(u, v, S) == \A n \in Names \ S : v[n] = u[n]

LEMMA UiFields ==
  ASSUME NEW u \in Ui
  PROVE  /\ IsUi(u)
         /\ u.peers \in SUBSET Peers /\ u.sel \in AsOrOthers \cup {None}
         /\ u.summary \in BOOLEAN /\ u.focused \in BOOLEAN /\ u.net \in Nets \cup {None}
         /\ u.panel \in PanelSet /\ u.history \in BOOLEAN
         /\ u.others \in (SUBSET Peers) \cup {None} /\ u.hoverAll \in BOOLEAN
         /\ u.sub \in SubSet /\ u.tip \in Tips \cup {None} /\ u.subsub \in SubsubSet
         /\ u.insight \in Systems \cup {None} /\ u.rect \in BOOLEAN
         /\ u.legend \in AsOrOthers \cup {None} /\ u.hovered \in Peers \cup {None}
         /\ u.popup \in PopupSet /\ u.detail \in BOOLEAN /\ u.selPeer \in Peers \cup {None}
         /\ u.timers \in Nat /\ u.filter \in (SUBSET Peers) \cup {None}
         /\ u.lines \in SUBSET Peers /\ u.over \in Overs
BY DEF Ui, IsUi, Names

LEMMA SetUi ==
  ASSUME NEW u \in Ui
  PROVE  /\ \A x \in SUBSET Peers : [u EXCEPT !.peers = x] \in Ui /\ [u EXCEPT !.lines = x] \in Ui
         /\ \A x \in AsOrOthers \cup {None} : [u EXCEPT !.sel = x] \in Ui
                                              /\ [u EXCEPT !.legend = x] \in Ui
         /\ \A x \in BOOLEAN : /\ [u EXCEPT !.summary = x] \in Ui /\ [u EXCEPT !.focused = x] \in Ui
                               /\ [u EXCEPT !.history = x] \in Ui /\ [u EXCEPT !.hoverAll = x] \in Ui
                               /\ [u EXCEPT !.rect = x] \in Ui /\ [u EXCEPT !.detail = x] \in Ui
         /\ \A x \in Nets \cup {None} : [u EXCEPT !.net = x] \in Ui
         /\ \A x \in PanelSet : [u EXCEPT !.panel = x] \in Ui
         /\ \A x \in (SUBSET Peers) \cup {None} : [u EXCEPT !.others = x] \in Ui
                                                 /\ [u EXCEPT !.filter = x] \in Ui
         /\ \A x \in SubSet : [u EXCEPT !.sub = x] \in Ui
         /\ \A x \in Tips \cup {None} : [u EXCEPT !.tip = x] \in Ui
         /\ \A x \in SubsubSet : [u EXCEPT !.subsub = x] \in Ui
         /\ \A x \in Systems \cup {None} : [u EXCEPT !.insight = x] \in Ui
         /\ \A x \in Peers \cup {None} : [u EXCEPT !.hovered = x] \in Ui /\ [u EXCEPT !.selPeer = x] \in Ui
         /\ \A x \in PopupSet : [u EXCEPT !.popup = x] \in Ui
         /\ \A x \in Nat : [u EXCEPT !.timers = x] \in Ui
         /\ \A x \in Overs : [u EXCEPT !.over = x] \in Ui
         /\ None \in SubSet /\ None \in SubsubSet /\ None \in PopupSet /\ None \in Overs
         /\ Closed \in PanelSet
<1>1. \A x \in SUBSET Peers : [u EXCEPT !.peers = x] \in Ui /\ [u EXCEPT !.lines = x] \in Ui
  BY DEF Ui
<1>2. \A x \in AsOrOthers \cup {None} : [u EXCEPT !.sel = x] \in Ui /\ [u EXCEPT !.legend = x] \in Ui
  BY DEF Ui
<1>3. \A x \in BOOLEAN : /\ [u EXCEPT !.summary = x] \in Ui /\ [u EXCEPT !.focused = x] \in Ui
                         /\ [u EXCEPT !.history = x] \in Ui
  BY DEF Ui
<1>4. \A x \in BOOLEAN : /\ [u EXCEPT !.hoverAll = x] \in Ui
                         /\ [u EXCEPT !.rect = x] \in Ui /\ [u EXCEPT !.detail = x] \in Ui
  BY DEF Ui
<1>5. \A x \in Nets \cup {None} : [u EXCEPT !.net = x] \in Ui
  BY DEF Ui
<1>6. \A x \in PanelSet : [u EXCEPT !.panel = x] \in Ui
  BY DEF Ui
<1>7. \A x \in (SUBSET Peers) \cup {None} : [u EXCEPT !.others = x] \in Ui /\ [u EXCEPT !.filter = x] \in Ui
  BY DEF Ui
<1>8. \A x \in SubSet : [u EXCEPT !.sub = x] \in Ui
  BY DEF Ui
<1>9. \A x \in Tips \cup {None} : [u EXCEPT !.tip = x] \in Ui
  BY DEF Ui
<1>10. \A x \in SubsubSet : [u EXCEPT !.subsub = x] \in Ui
  BY DEF Ui
<1>11. \A x \in Systems \cup {None} : [u EXCEPT !.insight = x] \in Ui
  BY DEF Ui
<1>12. \A x \in Peers \cup {None} : [u EXCEPT !.hovered = x] \in Ui /\ [u EXCEPT !.selPeer = x] \in Ui
  BY DEF Ui
<1>13. \A x \in PopupSet : [u EXCEPT !.popup = x] \in Ui
  BY DEF Ui
<1>14. \A x \in Nat : [u EXCEPT !.timers = x] \in Ui
  BY DEF Ui
<1>15. \A x \in Overs : [u EXCEPT !.over = x] \in Ui
  BY DEF Ui
<1>16. None \in SubSet /\ None \in SubsubSet /\ None \in PopupSet /\ None \in Overs
  BY DEF SubSet, SubsubSet, PopupSet, Overs
<1>17. Closed \in PanelSet
  BY DEF Closed, PanelSet
<1>18. QED
  BY <1>1, <1>2, <1>3, <1>4, <1>5, <1>6, <1>7, <1>8, <1>9, <1>10, <1>11, <1>12, <1>13, <1>14,
     <1>15, <1>16, <1>17

LEMMA SameOfSame ==
  ASSUME NEW u, NEW v, NEW w, NEW S, NEW T, Same(u, v, S), Same(v, w, T)
  PROVE  Same(u, w, S \cup T)
BY DEF Same

LEMMA DrawTyped ==
  ASSUME NEW u \in Ui, NEW ids \in SUBSET Peers
  PROVE  /\ Draw(u, ids) \in Ui /\ Filter(u, ids) \in Ui /\ Filter(u, None) \in Ui
         /\ Same(u, Draw(u, ids), {"lines"}) /\ Same(u, Filter(u, ids), {"filter"})
         /\ Same(u, Filter(u, None), {"filter"})
<1>1. Draw(u, ids) \in Ui /\ Same(u, Draw(u, ids), {"lines"})
  BY DEF Ui, Draw, Same, Names
<1>2. \A x \in (SUBSET Peers) \cup {None} : Filter(u, x) \in Ui /\ Same(u, Filter(u, x), {"filter"})
  BY DEF Ui, Filter, Same, Names
<1>3. QED
  BY <1>1, <1>2

LEMMA PeerSets ==
  ASSUME NEW P \in SUBSET Peers
  PROVE  /\ Linked(P) \in SUBSET Peers
         /\ \A a : PeersOf(P, a) \in SUBSET Peers /\ GroupPeers(P, a) \in SUBSET Peers
         /\ \A n : NetPeers(P, n) \in SUBSET Peers /\ CategoryPeers(P, n) \in SUBSET Peers
         /\ \A d : \A ids \in SUBSET Peers : Heading(P, d, ids) \in SUBSET Peers
BY DEF Linked, PeersOf, GroupPeers, NetPeers, CategoryPeers, Heading

LEMMA Providers ==
  ASSUME AsDataAssumption, NEW P \in SUBSET Peers
  PROVE  /\ Groups(P) \subseteq Systems /\ TopGroups(P) \subseteq Systems
         /\ Segments(P) \subseteq AsOrOthers
         /\ \A p \in P : As[p] \in Systems \cup {None}
<1>1. \A p \in P : As[p] \in Systems \cup {None}
  BY DEF AsDataAssumption
<1>2. Groups(P) \subseteq Systems
  BY <1>1 DEF Groups
<1>3. QED
  BY <1>1, <1>2 DEF TopGroups, Segments, AsOrOthers

LEMMA ShowTyped ==
  ASSUME NEW u \in Ui, NEW ids \in SUBSET Peers
  PROVE  Show(u, ids) \in Ui /\ Same(u, Show(u, ids), {"filter", "lines"})
<1>1. Filter(u, ids) \in Ui /\ Same(u, Filter(u, ids), {"filter"})
  BY DrawTyped
<1>2. Draw(Filter(u, ids), ids) \in Ui /\ Same(Filter(u, ids), Draw(Filter(u, ids), ids), {"lines"})
  BY <1>1, DrawTyped
<1>3. QED
  BY <1>1, <1>2 DEF Show, Same

LEMMA LinesTyped ==
  ASSUME NEW u \in Ui, NEW ids \in SUBSET Peers
  PROVE  /\ ActivateHoverAll(u) \in Ui /\ Same(u, ActivateHoverAll(u), {"lines"})
         /\ ShowAll(u) \in Ui /\ Same(u, ShowAll(u), {"filter", "lines"})
         /\ PreviewSummaryLines(u, ids) \in Ui
         /\ Same(u, PreviewSummaryLines(u, ids), {"filter", "lines"})
         /\ PreviewProviderLines(u, ids) \in Ui
         /\ Same(u, PreviewProviderLines(u, ids), {"filter", "lines"})
<1>1. \A w \in Ui : Linked(w.peers) \in SUBSET Peers
  BY UiFields, PeerSets
<1>2. \A w \in Ui : ActivateHoverAll(w) \in Ui /\ Same(w, ActivateHoverAll(w), {"lines"})
  BY <1>1, DrawTyped DEF ActivateHoverAll, Same
<1>3. /\ Filter(u, None) \in Ui /\ Same(u, Filter(u, None), {"filter"})
      /\ Filter(u, ids) \in Ui /\ Same(u, Filter(u, ids), {"filter"})
  BY DrawTyped
<1>4. ShowAll(u) \in Ui /\ Same(u, ShowAll(u), {"filter", "lines"})
  BY <1>2, <1>3 DEF ShowAll, Same
<1>5. \A x \in SUBSET Peers : LET v == Draw(Filter(u, ids), x) IN
        v \in Ui /\ Same(u, v, {"filter", "lines"})
  BY <1>3, DrawTyped DEF Same
<1>6. ids \cap Linked(u.peers) \in SUBSET Peers
  OBVIOUS
<1>7. /\ PreviewSummaryLines(u, ids) \in Ui
      /\ Same(u, PreviewSummaryLines(u, ids), {"filter", "lines"})
  BY <1>3, <1>5, <1>6 DEF PreviewSummaryLines, Same
<1>8. /\ PreviewProviderLines(u, ids) \in Ui
      /\ Same(u, PreviewProviderLines(u, ids), {"filter", "lines"})
  BY <1>3, <1>5 DEF PreviewProviderLines, Same
<1>9. QED
  BY <1>2, <1>4, <1>7, <1>8

LEMMA TipTyped ==
  ASSUME NEW u \in Ui
  PROVE  /\ HideSubSubTooltip(u) \in Ui /\ Same(u, HideSubSubTooltip(u), {"subsub", "legend"})
         /\ HideSubSubTooltip(u).subsub = None
         /\ HideSubTooltip(u) \in Ui /\ Same(u, HideSubTooltip(u), {"tip", "subsub", "legend"})
         /\ HideSubTooltip(u).tip = None /\ HideSubTooltip(u).subsub = None
         /\ ClearLegendFocus(u) \in Ui /\ Same(u, ClearLegendFocus(u), {"legend"})
         /\ RenderDonut(u) \in Ui /\ Same(u, RenderDonut(u), {"over"})
         /\ DropSub(u) \in Ui /\ Same(u, DropSub(u), {"sub"}) /\ DropSub(u).sub = None
<1>1. None \in SubsubSet
  BY DEF SubsubSet
<1>2. HideSubSubTooltip(u) \in Ui
  BY <1>1 DEF Ui, HideSubSubTooltip
<1>3. Same(u, HideSubSubTooltip(u), {"subsub", "legend"}) /\ HideSubSubTooltip(u).subsub = None
  BY DEF Ui, HideSubSubTooltip, Same, Names
<1>4. HideSubTooltip(u) \in Ui
  BY <1>1 DEF Ui, HideSubTooltip, HideSubSubTooltip
<1>5. /\ Same(u, HideSubTooltip(u), {"tip", "subsub", "legend"})
      /\ HideSubTooltip(u).tip = None /\ HideSubTooltip(u).subsub = None
  BY DEF Ui, HideSubTooltip, HideSubSubTooltip, Same, Names
<1>6. ClearLegendFocus(u) \in Ui /\ Same(u, ClearLegendFocus(u), {"legend"})
  BY DEF Ui, ClearLegendFocus, Same, Names
<1>7. RenderDonut(u) \in Ui /\ Same(u, RenderDonut(u), {"over"})
  BY DEF Ui, RenderDonut, Overs, Same, Names
<1>8. None \in SubSet
  BY DEF SubSet
<1>9. DropSub(u) \in Ui /\ Same(u, DropSub(u), {"sub"}) /\ DropSub(u).sub = None
  BY <1>8 DEF Ui, DropSub, Same, Names
<1>10. QED
  BY <1>2, <1>3, <1>4, <1>5, <1>6, <1>7, <1>9

LEMMA LegendTyped ==
  ASSUME NEW u \in Ui, NEW a \in AsOrOthers \cup {None}
  PROVE  [u EXCEPT !.legend = a] \in Ui /\ Same(u, [u EXCEPT !.legend = a], {"legend"})
BY DEF Ui, Same, Names

LEMMA RestoreTyped ==
  ASSUME AsDataAssumption, NEW u \in Ui
  PROVE  /\ RestoreSummaryFromPreview(u) \in Ui
         /\ Same(u, RestoreSummaryFromPreview(u), {"filter", "lines", "legend"})
         /\ RestoreProviderFromPreview(u) \in Ui
         /\ Same(u, RestoreProviderFromPreview(u), {"filter", "lines"})
<1>1. /\ u.subsub # None => u.subsub.ids \in SUBSET Peers
      /\ u.sub # None => u.sub.ids \in SUBSET Peers
      /\ u.tip # None => u.tip.ids \in SUBSET Peers
      /\ u.insight \in Systems \cup {None} /\ u.peers \in SUBSET Peers
  BY UiFields DEF SubsubSet, SubSet, Tips
<1>2. ASSUME NEW ids \in SUBSET Peers
      PROVE  /\ Show(u, ids) \in Ui /\ Same(u, Show(u, ids), {"filter", "lines", "legend"})
             /\ Same(u, Show(u, ids), {"filter", "lines"})
             /\ PreviewSummaryLines(u, ids) \in Ui
             /\ Same(u, PreviewSummaryLines(u, ids), {"filter", "lines", "legend"})
             /\ PreviewProviderLines(u, ids) \in Ui
             /\ Same(u, PreviewProviderLines(u, ids), {"filter", "lines"})
  BY ShowTyped, LinesTyped DEF Same
<1>3. ShowAll(u) \in Ui /\ Same(u, ShowAll(u), {"filter", "lines", "legend"})
      /\ Same(u, u, {"filter", "lines", "legend"}) /\ Same(u, u, {"filter", "lines"})
  BY LinesTyped DEF Same
<1>4. ASSUME NEW a \in Systems \cup {None}, NEW ids \in SUBSET Peers
      PROVE  LET v == [u EXCEPT !.legend = a] IN
             /\ Show(v, ids) \in Ui /\ Same(u, Show(v, ids), {"filter", "lines", "legend"})
             /\ Filter(v, ids) \in Ui /\ Same(u, Filter(v, ids), {"filter", "lines", "legend"})
             /\ Draw(Filter(v, ids), ids) \in Ui
             /\ Same(u, Draw(Filter(v, ids), ids), {"filter", "lines", "legend"})
  <2> DEFINE v == [u EXCEPT !.legend = a]
  <2>1. v \in Ui /\ Same(u, v, {"legend"})
    BY LegendTyped DEF AsOrOthers
  <2> HIDE DEF v
  <2>2. Show(v, ids) \in Ui /\ Same(v, Show(v, ids), {"filter", "lines"})
    BY <2>1, ShowTyped
  <2>3. Filter(v, ids) \in Ui /\ Same(v, Filter(v, ids), {"filter"})
    BY <2>1, DrawTyped
  <2>4. Same(u, Show(v, ids), {"filter", "lines", "legend"})
        /\ Same(u, Filter(v, ids), {"filter", "lines", "legend"})
    BY <2>1, <2>2, <2>3 DEF Same
  <2>5. QED
    BY <2>2, <2>3, <2>4 DEF v, Show
<1>5. \A ids \in SUBSET Peers : \A k : Leader(ids, k) \in Systems \cup {None}
  BY LeaderLeads
<1>6. \A P \in SUBSET Peers : \A a : PeersOf(P, a) \in SUBSET Peers
  BY PeerSets
<1>7. /\ RestoreSummaryFromPreview(u) \in Ui
      /\ Same(u, RestoreSummaryFromPreview(u), {"filter", "lines", "legend"})
  <2>1. u.tip # None => LET first == Leader(u.tip.ids, u.sub.row.k) IN
          first \in Systems \cup {None} /\ PeersOf(u.tip.ids, first) \in SUBSET Peers
    BY <1>1, <1>5, <1>6
  <2>2. PeersOf(u.peers, u.insight) \in SUBSET Peers
    BY <1>1, <1>6
  <2>3. QED
    BY <1>1, <1>2, <1>3, <1>4, <2>1, <2>2 DEF RestoreSummaryFromPreview, Pinned
<1>8. /\ RestoreProviderFromPreview(u) \in Ui
      /\ Same(u, RestoreProviderFromPreview(u), {"filter", "lines"})
  BY <1>1, <1>2, <1>3, <1>6 DEF RestoreProviderFromPreview
<1>9. QED
  BY <1>7, <1>8

\* What closing the popup changes.
PopupNames == {"detail", "selPeer", "popup", "timers", "filter", "lines"}

LEMMA ClosePopupTyped ==
  ASSUME NEW u \in Ui
  PROVE  LET v == ClosePeerPopup(u) IN
         v \in Ui /\ Same(u, v, PopupNames) /\ v.detail = FALSE
<1> DEFINE a == [u EXCEPT !.detail = FALSE, !.selPeer = None,
                          !.popup = IF @ = None THEN @ ELSE [@ EXCEPT !.visible = FALSE],
                          !.timers = IF u.popup = None THEN @ ELSE @ + 1]
<1>1. a \in Ui
  <2> DEFINE np == IF u.popup = None THEN u.popup ELSE [u.popup EXCEPT !.visible = FALSE]
             nt == IF u.popup = None THEN u.timers ELSE u.timers + 1
  <2>1. u.popup \in PopupSet /\ u.timers \in Nat
    BY UiFields
  <2>2. np \in PopupSet
    BY <2>1 DEF PopupSet
  <2>3. nt \in Nat
    BY <2>1
  <2>4. a = [u EXCEPT !.detail = FALSE, !.selPeer = None, !.popup = np, !.timers = nt]
    OBVIOUS
  <2> HIDE DEF np, nt, a
  <2>5. QED
    BY <2>2, <2>3, <2>4, SetUi
<1>2. Same(u, a, {"detail", "selPeer", "popup", "timers"}) /\ a.detail = FALSE
  BY DEF Ui, Same, Names
<1>3. ClosePeerPopup(u) = LET v == a IN
        IF v.summary
        THEN IF v.insight # None THEN Show(v, PeersOf(v.peers, v.insight))
             ELSE IF v.sub # None /\ v.sub.ids # {} THEN PreviewSummaryLines(v, v.sub.ids)
             ELSE ShowAll(v)
        ELSE IF v.sel # None
        THEN IF Known(v.peers, v.sel) THEN Show(v, PeersOf(v.peers, v.sel)) ELSE v
        ELSE Draw(Filter(v, None), {})
  BY DEF ClosePeerPopup
<1> HIDE DEF a
<1>4. /\ a.sub # None => a.sub.ids \in SUBSET Peers
      /\ PeersOf(a.peers, a.insight) \in SUBSET Peers /\ PeersOf(a.peers, a.sel) \in SUBSET Peers
  BY <1>1, UiFields, PeerSets DEF SubSet
<1>5. \A ids \in SUBSET Peers :
        /\ Show(a, ids) \in Ui /\ Same(a, Show(a, ids), {"filter", "lines"})
        /\ PreviewSummaryLines(a, ids) \in Ui
        /\ Same(a, PreviewSummaryLines(a, ids), {"filter", "lines"})
  BY <1>1, ShowTyped, LinesTyped
<1>6. ShowAll(a) \in Ui /\ Same(a, ShowAll(a), {"filter", "lines"})
  BY <1>1, LinesTyped
<1>7. Draw(Filter(a, None), {}) \in Ui /\ Same(a, Draw(Filter(a, None), {}), {"filter", "lines"})
  <2>1. Filter(a, None) \in Ui /\ Same(a, Filter(a, None), {"filter"})
    BY <1>1, DrawTyped
  <2>2. QED
    BY <2>1, DrawTyped DEF Same
<1>8. Same(a, a, {"filter", "lines"})
  BY DEF Same
<1>9. ClosePeerPopup(u) \in Ui /\ Same(a, ClosePeerPopup(u), {"filter", "lines"})
  BY <1>1, <1>3, <1>4, <1>5, <1>6, <1>7, <1>8
<1>10. QED
  BY <1>2, <1>9 DEF Same, PopupNames, Names

LEMMA MakeRoomTyped ==
  ASSUME NEW u \in Ui
  PROVE  LET v == MakeRoom(u) IN
         /\ v \in Ui /\ Same(u, v, PopupNames) /\ v.detail = FALSE
         /\ ~u.detail => v = u
<1>1. u.detail \in BOOLEAN
  BY UiFields
<1>2. QED
  BY <1>1, ClosePopupTyped DEF MakeRoom, Same

-----------------------------------------------------------------------------
(***************************************************************************)
(* Building the panel, selecting and deselecting.                          *)
(***************************************************************************)
\* A tooltip whose row has gone with the panel's old body.
Retipped(s, t) ==
  \/ s = None /\ t = None
  \/ s # None /\ t # None /\ t.pinned = s.pinned /\ t.row = s.row

LEMMA NoTipIsNone ==
  ASSUME NoneIsNoTip
  PROVE  None \notin Tips
BY DEF NoneIsNoTip, Tips, TipNames

LEMMA PanelUi ==
  ASSUME NEW u \in Ui, NEW panel \in PanelSet, NEW tip \in Tips \cup {None}, NEW over \in Overs
  PROVE  [u EXCEPT !.panel = panel, !.tip = tip, !.over = over] \in Ui
BY SetUi

LEMMA BuildTyped ==
  ASSUME NoneIsNoTip, NEW u \in Ui, NEW kind \in {"summary", "provider", "network"},
         NEW of \in AsOrOthers \cup Nets \cup {None}
  PROVE  LET v == BuildPanel(u, kind, of) IN
         /\ v \in Ui /\ Same(u, v, {"panel", "tip", "over"})
         /\ v.panel = [kind |-> kind, of |-> of, at |-> u.peers, back |-> u.history]
         /\ Retipped(u.tip, v.tip)
<1> DEFINE panel == [kind |-> kind, of |-> of, at |-> u.peers, back |-> u.history]
           tip == IF u.tip = None THEN u.tip ELSE [u.tip EXCEPT !.live = FALSE]
           over == IF u.over # None /\ u.over[1] = "row" THEN None ELSE u.over
<1>1. panel \in PanelSet
  BY UiFields DEF PanelSet
<1>2. tip \in Tips \cup {None}
  <2>1. u.tip \in Tips \cup {None}
    BY UiFields
  <2>2. QED
    BY <2>1 DEF Tips
<1>3. over \in Overs
  BY UiFields, SetUi
<1>4. BuildPanel(u, kind, of) = [u EXCEPT !.panel = panel, !.tip = tip, !.over = over]
  BY DEF BuildPanel
<1>5. Retipped(u.tip, tip)
  <2>1. u.tip \in Tips \cup {None}
    BY UiFields
  <2>2. u.tip # None => /\ [u.tip EXCEPT !.live = FALSE] \in Tips
                        /\ [u.tip EXCEPT !.live = FALSE].pinned = u.tip.pinned
                        /\ [u.tip EXCEPT !.live = FALSE].row = u.tip.row
    BY <2>1 DEF Tips
  <2>3. QED
    BY <2>2, NoTipIsNone DEF Retipped
<1> HIDE DEF panel, tip, over
<1>6. BuildPanel(u, kind, of) \in Ui
  <2>1. [u EXCEPT !.panel = panel, !.tip = tip, !.over = over] \in Ui
    <3>1. u \in Ui
      OBVIOUS
    <3>2. QED
      BY <3>1, <1>1, <1>2, <1>3, PanelUi
  <2>2. QED
    BY <2>1, <1>4
<1>7. LET v == BuildPanel(u, kind, of) IN
      Same(u, v, {"panel", "tip", "over"}) /\ v.panel = panel /\ v.tip = tip
  BY <1>4 DEF Ui, Same, Names
<1>8. QED
  BY <1>5, <1>6, <1>7 DEF panel

PanelNames == {"panel", "tip", "over"}

LEMMA OpenTyped ==
  ASSUME NoneIsNoTip, NEW u \in Ui
  PROVE  /\ \A a \in AsOrOthers : LET v == OpenPanel(u, a) IN
              /\ v \in Ui /\ Same(u, v, PopupNames \cup PanelNames) /\ v.detail = FALSE
              /\ ~u.detail => Same(u, v, PanelNames)
              /\ Retipped(u.tip, v.tip)
         /\ LET v == OpenSummaryPanel(u) IN
              /\ v \in Ui /\ Same(u, v, PopupNames \cup PanelNames) /\ v.detail = FALSE
              /\ ~u.detail => Same(u, v, PanelNames)
              /\ Retipped(u.tip, v.tip)
              /\ v.panel.kind = "summary"
<1> DEFINE m == MakeRoom(u)
<1>1. m \in Ui /\ Same(u, m, PopupNames) /\ m.detail = FALSE /\ (~u.detail => m = u)
  BY MakeRoomTyped
<1>2. m.tip = u.tip
  BY <1>1 DEF Same, PopupNames, Names
<1>3. /\ \A a : OpenPanel(u, a) = IF Known(m.peers, a) THEN BuildPanel(m, "provider", a) ELSE m
      /\ OpenSummaryPanel(u) = BuildPanel(m, "summary", None)
  BY DEF OpenPanel, OpenSummaryPanel
<1> HIDE DEF m
<1>4. ASSUME NEW v \in Ui, Same(m, v, PanelNames),
             Retipped(m.tip, v.tip)
      PROVE  /\ Same(u, v, PopupNames \cup PanelNames) /\ v.detail = FALSE
             /\ ~u.detail => Same(u, v, PanelNames)
             /\ Retipped(u.tip, v.tip)
  <2>1. Same(u, v, PopupNames \cup PanelNames)
    BY <1>1, <1>4, SameOfSame
  <2>2. v.detail = m.detail
    BY <1>4 DEF Same, PanelNames, Names
  <2>3. QED
    BY <1>1, <1>2, <1>4, <2>1, <2>2
<1>5. Same(m, m, PanelNames) /\ Retipped(m.tip, m.tip)
  BY <1>1, UiFields DEF Same, Retipped
<1>6. ASSUME NEW kind \in {"summary", "provider", "network"}, NEW of \in AsOrOthers \cup {None},
             NEW v, v = BuildPanel(m, kind, of)
      PROVE  /\ v \in Ui /\ Same(m, v, PanelNames) /\ v.panel.kind = kind
             /\ Retipped(m.tip, v.tip)
  <2>1. of \in AsOrOthers \cup Nets \cup {None}
    OBVIOUS
  <2>2. /\ v \in Ui /\ Same(m, v, PanelNames)
        /\ v.panel = [kind |-> kind, of |-> of, at |-> m.peers, back |-> m.history]
        /\ Retipped(m.tip, v.tip)
    BY <1>1, <1>6, <2>1, BuildTyped DEF PanelNames
  <2>3. QED
    BY <2>2
<1>7. ASSUME NEW v, v = OpenSummaryPanel(u)
      PROVE  /\ v \in Ui /\ Same(m, v, PanelNames) /\ v.panel.kind = "summary"
             /\ Retipped(m.tip, v.tip)
  BY <1>3, <1>6, <1>7
<1>8. ASSUME NEW a \in AsOrOthers, NEW v, v = OpenPanel(u, a)
      PROVE  /\ v \in Ui /\ Same(m, v, PanelNames)
             /\ Retipped(m.tip, v.tip)
  <2>1. CASE Known(m.peers, a)
    BY <1>3, <1>6, <1>8, <2>1
  <2>2. CASE ~Known(m.peers, a)
    BY <1>1, <1>3, <1>5, <1>8, <2>2
  <2>3. QED
    BY <2>1, <2>2
<1>9. QED
  BY <1>3, <1>4, <1>7, <1>8

LEMMA CloseTyped ==
  ASSUME NEW u \in Ui
  PROVE  /\ ClosePanel(u) \in Ui /\ Same(u, ClosePanel(u), {"panel"})
         /\ ClosePanel(u).panel = Closed
<1>1. ClosePanel(u) \in Ui
  BY SetUi DEF ClosePanel
<1>2. Same(u, ClosePanel(u), {"panel"}) /\ ClosePanel(u).panel = Closed
  BY DEF Ui, ClosePanel, Same, Names
<1>3. QED
  BY <1>1, <1>2

\* A panel that is closed, with no lines and with all peers in the table.
LEMMA CloseAllTyped ==
  ASSUME NEW u \in Ui
  PROVE  LET v == Filter(Draw(ClosePanel([u EXCEPT !.rect = FALSE]), {}), None)
             w == RenderDonut(Draw(Filter(ClosePanel([u EXCEPT !.rect = FALSE]), None), {}))
         IN  /\ v \in Ui /\ Same(u, v, {"rect", "panel", "filter", "lines"})
             /\ v.panel = Closed /\ v.filter = None
             /\ w \in Ui /\ Same(u, w, {"rect", "panel", "filter", "lines", "over"})
             /\ w.panel = Closed /\ w.filter = None
<1> DEFINE r == [u EXCEPT !.rect = FALSE]
           c == ClosePanel(r)
           d == Draw(c, {})
           v == Filter(d, None)
           f == Filter(c, None)
           e == Draw(f, {})
           w == RenderDonut(e)
<1>1. r \in Ui
  BY SetUi
<1>2. Same(u, r, {"rect"})
  BY DEF Ui, Same, Names
<1> HIDE DEF r
<1>3. c \in Ui /\ Same(r, c, {"panel"}) /\ c.panel = Closed
  BY <1>1, CloseTyped
<1> HIDE DEF c
<1>4. d \in Ui /\ Same(c, d, {"lines"}) /\ f \in Ui /\ Same(c, f, {"filter"})
  BY <1>3, DrawTyped
<1>5. f.filter = None
  BY <1>3 DEF Filter, Ui
<1> HIDE DEF d, f
<1>6. v \in Ui /\ Same(d, v, {"filter"}) /\ e \in Ui /\ Same(f, e, {"lines"})
  BY <1>4, DrawTyped
<1>7. v.filter = None
  BY <1>4 DEF Filter, Ui
<1> HIDE DEF v, e
<1>8. w \in Ui /\ Same(e, w, {"over"})
  BY <1>6, TipTyped
<1> HIDE DEF w
<1>9. Same(u, v, {"rect", "panel", "filter", "lines"}) /\ v.panel = Closed
  BY <1>2, <1>3, <1>4, <1>6 DEF Same, Names
<1>10. /\ Same(u, w, {"rect", "panel", "filter", "lines", "over"})
       /\ w.panel = Closed /\ w.filter = None
  BY <1>2, <1>3, <1>4, <1>5, <1>6, <1>8 DEF Same, Names
<1>11. QED
  BY <1>6, <1>7, <1>8, <1>9, <1>10 DEF c, d, e, f, r, v, w

\* Neither a filter nor a tooltip.
Bare(v) == v.sub = None /\ v.tip = None /\ v.subsub = None

ClearNames == {"sub", "tip", "subsub", "legend", "rect", "panel", "filter", "lines", "over"}

LEMMA DeselectSummaryTyped ==
  ASSUME NEW u \in Ui
  PROVE  LET v == DeselectSummary(u) IN
         /\ v \in Ui /\ ~v.summary /\ (~u.summary => v = u)
         /\ Same(u, v, ClearNames \cup {"summary", "history", "insight"})
         /\ u.summary => Bare(v) /\ v.panel = Closed /\ v.filter = None /\ v.insight = None
<1>1. CASE ~u.summary
  BY <1>1 DEF DeselectSummary, Same
<1>2. CASE u.summary
  <2> DEFINE a == [u EXCEPT !.summary = FALSE, !.history = FALSE, !.sub = None,
                            !.insight = None]
             h == HideSubTooltip(a)
             v == Filter(Draw(ClosePanel([h EXCEPT !.rect = FALSE]), {}), None)
  <2>1. a \in Ui
    BY SetUi
  <2>2. /\ Same(u, a, {"summary", "history", "sub", "insight"})
        /\ a.summary = FALSE /\ a.sub = None /\ a.insight = None
    BY DEF Ui, Same, Names
  <2> HIDE DEF a
  <2>3. /\ h \in Ui /\ Same(a, h, {"tip", "subsub", "legend"})
        /\ h.tip = None /\ h.subsub = None
    BY <2>1, TipTyped
  <2> HIDE DEF h
  <2>4. /\ v \in Ui /\ Same(h, v, {"rect", "panel", "filter", "lines"})
        /\ v.panel = Closed /\ v.filter = None
    BY <2>3, CloseAllTyped
  <2>5. DeselectSummary(u) = v
    BY <1>2 DEF DeselectSummary, a, h
  <2> HIDE DEF v
  <2>6. Same(u, v, ClearNames \cup {"summary", "history", "insight"})
    BY <2>2, <2>3, <2>4 DEF Same, ClearNames
  <2>7. ~v.summary /\ Bare(v) /\ v.insight = None
    BY <2>2, <2>3, <2>4 DEF Same, Names, Bare
  <2>8. QED
    BY <1>2, <2>4, <2>5, <2>6, <2>7
<1>3. QED
  BY <1>1, <1>2

LEMMA DeselectTyped ==
  ASSUME NEW u \in Ui
  PROVE  LET v == Deselect(u) IN
         /\ v \in Ui /\ ~v.summary /\ v.net = None /\ Bare(v) /\ v.panel = Closed
         /\ v.filter = None /\ v.focused = u.focused /\ v.peers = u.peers
         /\ v.popup = u.popup /\ v.hovered = u.hovered
         /\ v.insight \in {u.insight, None}
         /\ u.summary => v.sel = u.sel /\ v.detail = u.detail
         /\ ~u.summary => v.sel = None /\ ~v.detail /\ v.lines = {}
<1> DEFINE n == [u EXCEPT !.net = None]
<1>1. n \in Ui
  BY SetUi
<1>2. Same(u, n, {"net"}) /\ n.net = None
  BY DEF Ui, Same, Names
<1>3. Deselect(u) = IF n.summary THEN DeselectSummary(n)
        ELSE LET v == HideSubTooltip([n EXCEPT !.detail = FALSE, !.sel = None,
                                               !.sub = None, !.others = None])
             IN  RenderDonut(Draw(Filter(ClosePanel([v EXCEPT !.rect = FALSE]), None), {}))
  BY DEF Deselect
<1> HIDE DEF n
<1>4. CASE u.summary
  <2>1. n.summary
    BY <1>2, <1>4 DEF Same, Names
  <2> DEFINE v == DeselectSummary(n)
  <2>2. /\ v \in Ui /\ ~v.summary /\ Bare(v) /\ v.panel = Closed /\ v.filter = None
        /\ Same(n, v, ClearNames \cup {"summary", "history", "insight"})
    BY <1>1, <2>1, DeselectSummaryTyped
  <2>3. Deselect(u) = v
    BY <1>3, <2>1
  <2> HIDE DEF v
  <2>4. v.insight = None
    BY <1>1, <2>1, <2>3, DeselectSummaryTyped DEF v
  <2>5. /\ v.net = None /\ v.focused = u.focused /\ v.peers = u.peers
        /\ v.popup = u.popup /\ v.hovered = u.hovered /\ v.sel = u.sel /\ v.detail = u.detail
    BY <1>2, <2>2 DEF Same, Names, ClearNames
  <2>6. QED
    BY <1>4, <2>2, <2>3, <2>4, <2>5
<1>5. CASE ~u.summary
  <2>1. ~n.summary
    BY <1>2, <1>5 DEF Same, Names
  <2> DEFINE a == [n EXCEPT !.detail = FALSE, !.sel = None, !.sub = None, !.others = None]
             h == HideSubTooltip(a)
             f == Filter(ClosePanel([h EXCEPT !.rect = FALSE]), None)
             v == RenderDonut(Draw(f, {}))
  <2>2. a \in Ui
    BY <1>1, SetUi
  <2>3. /\ Same(n, a, {"detail", "sel", "sub", "others"})
        /\ a.detail = FALSE /\ a.sel = None /\ a.sub = None
    BY <1>1 DEF Ui, Same, Names
  <2> HIDE DEF a
  <2>4. /\ h \in Ui /\ Same(a, h, {"tip", "subsub", "legend"})
        /\ h.tip = None /\ h.subsub = None
    BY <2>2, TipTyped
  <2> HIDE DEF h
  <2>5. /\ v \in Ui /\ Same(h, v, {"rect", "panel", "filter", "lines", "over"})
        /\ v.panel = Closed /\ v.filter = None
    BY <2>4, CloseAllTyped
  <2>6. v.lines = {}
    <3>1. [h EXCEPT !.rect = FALSE] \in Ui
      BY <2>4, SetUi
    <3>2. ClosePanel([h EXCEPT !.rect = FALSE]) \in Ui
      BY <3>1, CloseTyped
    <3>3. f \in Ui
      BY <3>2, DrawTyped
    <3> HIDE DEF f
    <3>4. Draw(f, {}) \in Ui /\ Draw(f, {}).lines = {}
      BY <3>3, DrawTyped DEF Draw, Ui
    <3>5. Same(Draw(f, {}), v, {"over"})
      BY <3>4, TipTyped
    <3>6. QED
      BY <3>4, <3>5 DEF Same, Names
  <2>7. Deselect(u) = v
    BY <1>3, <2>1 DEF a, h
  <2> HIDE DEF v
  <2>8. /\ v.net = None /\ v.focused = u.focused /\ v.peers = u.peers /\ ~v.summary
        /\ v.popup = u.popup /\ v.hovered = u.hovered /\ v.sel = None /\ ~v.detail
        /\ v.insight = u.insight
    BY <1>2, <2>1, <2>3, <2>4, <2>5 DEF Same, Names
  <2>9. Bare(v)
    BY <2>3, <2>4, <2>5 DEF Same, Names, Bare
  <2>10. QED
    BY <1>5, <2>5, <2>6, <2>7, <2>8, <2>9
<1>6. u.summary \in BOOLEAN
  BY UiFields
<1>7. QED
  BY <1>4, <1>5

-----------------------------------------------------------------------------
(***************************************************************************)
(* Relations between a state of the interface and a later one.             *)
(***************************************************************************)
\* Filter, tooltips and insight are those of before, or gone; a filter may
\* only outlive its tooltip where the tooltip was not pinned.
Kin(u, v) ==
  /\ v.insight \in {u.insight, None} /\ v.sub \in {u.sub, None}
  /\ v.subsub \in {u.subsub, None}
  /\ v.tip = None \/ Retipped(u.tip, v.tip)
  /\ v.sub # None /\ v.tip = None => ~Pinned(u)

\* The selection is that of before.
Steady(u, v) ==
  /\ v.sel = u.sel /\ v.summary = u.summary /\ v.focused = u.focused /\ v.net = u.net
  /\ v.detail => u.detail

\* What a handler that only draws, points or closes the popup may change.
Outward ==
  {"peers", "panel", "history", "others", "hoverAll", "rect", "legend", "hovered", "popup",
   "selPeer", "timers", "filter", "lines", "over"}

LEMMA RetippedTwice ==
  ASSUME NEW r, NEW s, NEW t, Retipped(r, s), Retipped(s, t)
  PROVE  Retipped(r, t)
BY DEF Retipped

LEMMA KinOfKin ==
  ASSUME NEW u \in Ui, NEW v, NEW w, Kin(u, v), Kin(v, w)
  PROVE  Kin(u, w)
<1>1. w.tip = None \/ Retipped(u.tip, w.tip)
  BY DEF Kin, Retipped
<1>2. w.sub # None /\ w.tip = None => ~Pinned(u)
  <2>1. SUFFICES ASSUME w.sub # None, w.tip = None
                 PROVE  ~Pinned(u)
    OBVIOUS
  <2>2. v.sub # None /\ ~Pinned(v)
    BY <2>1 DEF Kin
  <2>3. CASE v.tip = None
    BY <2>2, <2>3 DEF Kin
  <2>4. CASE v.tip # None
    BY <2>2, <2>4 DEF Kin, Retipped, Pinned
  <2>5. QED
    BY <2>3, <2>4
<1>3. QED
  BY <1>1, <1>2 DEF Kin

LEMMA SameKin ==
  ASSUME NEW u \in Ui, NEW v \in Ui, Same(u, v, Outward)
  PROVE  Kin(u, v) /\ Steady(u, v) /\ v.detail = u.detail
<1>1. v.sel = u.sel /\ v.summary = u.summary /\ v.focused = u.focused /\ v.net = u.net
      /\ v.detail = u.detail /\ v.insight = u.insight /\ v.sub = u.sub /\ v.tip = u.tip
      /\ v.subsub = u.subsub
  BY DEF Same, Names, Outward
<1>2. u.tip \in Tips \cup {None}
  BY UiFields
<1>3. QED
  BY <1>1, <1>2 DEF Kin, Steady, Retipped, Pinned

LEMMA OpenKin ==
  ASSUME NoneIsNoTip, NEW u \in Ui
  PROVE  /\ \A a \in AsOrOthers : Kin(u, OpenPanel(u, a)) /\ Steady(u, OpenPanel(u, a))
         /\ Kin(u, OpenSummaryPanel(u)) /\ Steady(u, OpenSummaryPanel(u))
<1>1. ASSUME NEW v \in Ui, Same(u, v, PopupNames \cup PanelNames), v.detail = FALSE,
             Retipped(u.tip, v.tip)
      PROVE  Kin(u, v) /\ Steady(u, v)
  <2>1. v.sel = u.sel /\ v.summary = u.summary /\ v.focused = u.focused /\ v.net = u.net
        /\ v.insight = u.insight /\ v.sub = u.sub /\ v.subsub = u.subsub
    BY <1>1 DEF Same, Names, PopupNames, PanelNames
  <2>2. v.tip = None => ~Pinned(u)
    BY <1>1 DEF Retipped, Pinned
  <2>3. QED
    BY <1>1, <2>1, <2>2 DEF Kin, Steady
<1>2. QED
  BY <1>1, OpenTyped

-----------------------------------------------------------------------------
(***************************************************************************)
(* Selecting.                                                              *)
(***************************************************************************)
LEMMA SelectSummaryTyped ==
  ASSUME NoneIsNoTip, NEW u \in Ui, ~(u.sel # None /\ u.summary)
  PROVE  LET v == SelectSummary(u) IN
         /\ v \in Ui /\ Kin(u, v) /\ v.sel = None /\ v.summary /\ ~v.detail
         /\ v.focused = u.focused /\ v.net \in {u.net, None}
<1> DEFINE d == IF u.sel # None THEN Deselect(u) ELSE u
           a == [d EXCEPT !.summary = TRUE, !.hoverAll = FALSE]
           h == ActivateHoverAll(a)
           v == OpenSummaryPanel(h)
<1>1. d \in Ui /\ d.sel = None /\ d.focused = u.focused /\ d.net \in {u.net, None} /\ Kin(u, d)
  <2>1. CASE u.sel # None
    <3>1. LET w == Deselect(u) IN
          /\ w \in Ui /\ w.net = None /\ Bare(w) /\ w.focused = u.focused /\ w.sel = None
      BY <2>1, DeselectTyped
    <3>2. Deselect(u).insight \in {u.insight, None}
      BY DeselectTyped
    <3>3. QED
      BY <2>1, <3>1, <3>2 DEF Kin, Bare
  <2>2. CASE u.sel = None
    <3>1. Kin(u, u)
      BY SameKin DEF Same
    <3>2. QED
      BY <2>2, <3>1
  <2>3. QED
    BY <2>1, <2>2
<1>2. SelectSummary(u) = v
  BY DEF SelectSummary
<1> HIDE DEF d
<1>3. a \in Ui
  BY <1>1, SetUi
<1>4. Same(d, a, {"summary", "hoverAll"}) /\ a.summary = TRUE
  BY <1>1 DEF Ui, Same, Names
<1> HIDE DEF a
<1>5. h \in Ui /\ Same(a, h, {"lines"})
  BY <1>3, LinesTyped
<1> HIDE DEF h
<1>6. v \in Ui /\ v.detail = FALSE /\ Kin(h, v) /\ Steady(h, v)
  BY <1>5, OpenTyped, OpenKin
<1> HIDE DEF v
<1>7. /\ h.sel = d.sel /\ h.focused = d.focused /\ h.net = d.net /\ h.summary
      /\ h.insight = d.insight /\ h.sub = d.sub /\ h.tip = d.tip /\ h.subsub = d.subsub
  BY <1>4, <1>5 DEF Same, Names
<1>8. Kin(d, v)
  BY <1>6, <1>7 DEF Kin, Pinned
<1>9. Kin(u, v)
  BY <1>1, <1>8, KinOfKin
<1>10. QED
  BY <1>1, <1>2, <1>6, <1>7, <1>9 DEF Steady

LEMMA EnterFocusedTyped ==
  ASSUME NoneIsNoTip, NEW u \in Ui, ~(u.sel # None /\ u.summary)
  PROVE  LET v == EnterFocusedMode(u) IN
         /\ v \in Ui /\ Kin(u, v) /\ v.focused /\ (v.detail => u.detail)
         /\ u.focused => v = u
         /\ ~u.focused => v.sel = None /\ v.summary /\ v.net \in {u.net, None} /\ ~v.detail
<1>1. CASE u.focused
  <2>1. Kin(u, u)
    BY SameKin DEF Same
  <2>2. QED
    BY <1>1, <2>1 DEF EnterFocusedMode
<1>2. CASE ~u.focused
  <2> DEFINE a == [u EXCEPT !.focused = TRUE, !.hoverAll = FALSE]
             h == ActivateHoverAll(a)
             v == SelectSummary(h)
  <2>1. a \in Ui
    BY SetUi
  <2>2. Same(u, a, {"focused", "hoverAll"}) /\ a.focused = TRUE
    BY DEF Ui, Same, Names
  <2> HIDE DEF a
  <2>3. h \in Ui /\ Same(a, h, {"lines"})
    BY <2>1, LinesTyped
  <2> HIDE DEF h
  <2>4. /\ h.sel = u.sel /\ h.net = u.net /\ h.summary = u.summary /\ h.focused = TRUE
        /\ h.insight = u.insight /\ h.sub = u.sub /\ h.tip = u.tip /\ h.subsub = u.subsub
    BY <2>2, <2>3 DEF Same, Names
  <2>5. /\ v \in Ui /\ Kin(h, v) /\ v.sel = None /\ v.summary /\ ~v.detail
        /\ v.focused = h.focused /\ v.net \in {h.net, None}
    BY <2>3, <2>4, SelectSummaryTyped
  <2>6. EnterFocusedMode(u) = v
    BY <1>2 DEF EnterFocusedMode, h, a
  <2> HIDE DEF v
  <2>7. Kin(u, v)
    BY <2>4, <2>5 DEF Kin, Pinned
  <2>8. QED
    BY <1>2, <2>4, <2>5, <2>6, <2>7
<1>3. QED
  BY <1>1, <1>2

\* Out of the focused mode.  Tooltip and filter only go with a selection.
LEMMA ExitFocusedTyped ==
  ASSUME NEW u \in Ui, u.focused
  PROVE  LET v == ExitFocusedMode(u) IN
         /\ v \in Ui /\ ~v.focused /\ ~v.detail /\ v.net = None /\ v.panel = Closed
         /\ v.filter = None /\ ~v.summary
         /\ v.sel = IF u.summary THEN u.sel ELSE None
         /\ u.summary \/ u.sel # None => Bare(v)
         /\ ~u.summary /\ u.sel = None =>
              v.sub = u.sub /\ v.tip = u.tip /\ v.subsub = u.subsub /\ v.insight = u.insight
<1> DEFINE a == [u EXCEPT !.focused = FALSE, !.detail = FALSE, !.net = None,
                          !.others = None, !.rect = FALSE]
           w == IF a.summary THEN DeselectSummary(a)
                ELSE IF a.sel # None THEN Deselect(a) ELSE ClosePanel(a)
           b == [w EXCEPT !.hoverAll = FALSE]
           f == Filter(b, None)
           v == RenderDonut(Draw(f, {}))
<1>1. a \in Ui
  BY SetUi
<1>2. /\ Same(u, a, {"focused", "detail", "net", "others", "rect"})
      /\ a.focused = FALSE /\ a.detail = FALSE /\ a.net = None
  BY DEF Ui, Same, Names
<1>3. ExitFocusedMode(u) = v
  BY DEF ExitFocusedMode
<1> HIDE DEF a
<1>4. /\ w \in Ui /\ ~w.focused /\ ~w.detail /\ w.net = None /\ w.panel = Closed
      /\ ~w.summary /\ w.sel = IF a.summary THEN a.sel ELSE None
      /\ a.summary \/ a.sel # None => Bare(w)
      /\ ~a.summary /\ a.sel = None =>
              w.sub = a.sub /\ w.tip = a.tip /\ w.subsub = a.subsub /\ w.insight = a.insight
  <2>1. CASE a.summary
    <3>1. LET x == DeselectSummary(a) IN
          /\ x \in Ui /\ ~x.summary
          /\ Same(a, x, ClearNames \cup {"summary", "history", "insight"})
          /\ Bare(x) /\ x.panel = Closed
      BY <1>1, <2>1, DeselectSummaryTyped
    <3>2. LET x == DeselectSummary(a) IN
          x.focused = a.focused /\ x.detail = a.detail /\ x.net = a.net /\ x.sel = a.sel
      BY <3>1 DEF Same, Names, ClearNames
    <3>3. QED
      BY <1>2, <2>1, <3>1, <3>2
  <2>2. CASE ~a.summary /\ a.sel # None
    <3>1. LET x == Deselect(a) IN
          /\ x \in Ui /\ ~x.summary /\ x.net = None /\ Bare(x) /\ x.panel = Closed
          /\ x.focused = a.focused /\ x.sel = None /\ ~x.detail
      BY <1>1, <2>2, DeselectTyped
    <3>2. QED
      BY <1>2, <2>2, <3>1
  <2>3. CASE ~a.summary /\ a.sel = None
    <3>1. LET x == ClosePanel(a) IN
          x \in Ui /\ Same(a, x, {"panel"}) /\ x.panel = Closed
      BY <1>1, CloseTyped
    <3>2. w = ClosePanel(a)
      BY <2>3
    <3> HIDE DEF w
    <3>3. /\ w.focused = a.focused /\ w.detail = a.detail /\ w.net = a.net /\ w.sel = a.sel
          /\ w.summary = a.summary /\ w.insight = a.insight /\ w.sub = a.sub /\ w.tip = a.tip
          /\ w.subsub = a.subsub
      BY <3>1, <3>2 DEF Same, Names
    <3>4. QED
      BY <1>2, <2>3, <3>1, <3>2, <3>3
  <2>4. QED
    BY <2>1, <2>2, <2>3
<1> HIDE DEF w
<1>5. b \in Ui
  BY <1>4, SetUi
<1>6. Same(w, b, {"hoverAll"})
  BY <1>4 DEF Ui, Same, Names
<1> HIDE DEF b
<1>7. f \in Ui /\ Same(b, f, {"filter"})
  BY <1>5, DrawTyped
<1>14. f.filter = None
  BY <1>5 DEF Filter, Ui
<1> HIDE DEF f
<1>8. Draw(f, {}) \in Ui /\ Same(f, Draw(f, {}), {"lines"})
  BY <1>7, DrawTyped
<1>9. v \in Ui /\ Same(Draw(f, {}), v, {"over"})
  BY <1>8, TipTyped
<1> HIDE DEF v
<1>10. Same(w, v, {"hoverAll", "filter", "lines", "over"}) /\ v.filter = None
  BY <1>6, <1>7, <1>14, <1>8, <1>9 DEF Same, Names
<1>11. /\ v.focused = w.focused /\ v.detail = w.detail /\ v.net = w.net /\ v.panel = w.panel
       /\ v.summary = w.summary /\ v.sel = w.sel /\ v.insight = w.insight
       /\ v.sub = w.sub /\ v.tip = w.tip /\ v.subsub = w.subsub
  BY <1>10 DEF Same, Names
<1>12. a.summary = u.summary /\ a.sel = u.sel /\ a.sub = u.sub /\ a.tip = u.tip
       /\ a.subsub = u.subsub /\ a.insight = u.insight
  BY <1>2 DEF Same, Names
<1>13. QED
  BY <1>3, <1>4, <1>9, <1>10, <1>11, <1>12 DEF Bare

-----------------------------------------------------------------------------
(***************************************************************************)
(* Dropping the filter, navigating.                                        *)
(***************************************************************************)
LEMMA ClearTyped ==
  ASSUME NEW u \in Ui
  PROVE  /\ LET v == ClearSubFilter(u) IN
            /\ v \in Ui /\ Bare(v)
            /\ Same(u, v, {"sub", "tip", "subsub", "legend", "filter", "lines"})
         /\ LET v == ClearSummarySubFilter(u) IN
            /\ v \in Ui /\ Bare(v) /\ v.insight = None
            /\ Same(u, v, {"sub", "tip", "subsub", "insight", "legend", "rect", "filter",
                           "lines", "over"})
<1>1. LET v == ClearSubFilter(u) IN
      /\ v \in Ui /\ Bare(v)
      /\ Same(u, v, {"sub", "tip", "subsub", "legend", "filter", "lines"})
  <2> DEFINE d == DropSub(u)
             h == HideSubTooltip(d)
             s == Show(h, PeersOf(h.peers, h.sel))
  <2>1. d \in Ui /\ Same(u, d, {"sub"}) /\ d.sub = None
    BY TipTyped
  <2> HIDE DEF d
  <2>2. /\ h \in Ui /\ Same(d, h, {"tip", "subsub", "legend"})
        /\ h.tip = None /\ h.subsub = None
    BY <2>1, TipTyped
  <2> HIDE DEF h
  <2>3. PeersOf(h.peers, h.sel) \in SUBSET Peers
    BY <2>2, UiFields, PeerSets
  <2>4. s \in Ui /\ Same(h, s, {"filter", "lines"})
    BY <2>2, <2>3, ShowTyped
  <2>5. ClearSubFilter(u) = h \/ ClearSubFilter(u) = s
    BY DEF ClearSubFilter, h, d
  <2> HIDE DEF s
  <2>6. /\ Same(u, h, {"sub", "tip", "subsub", "legend", "filter", "lines"})
        /\ Same(u, s, {"sub", "tip", "subsub", "legend", "filter", "lines"})
    BY <2>1, <2>2, <2>4 DEF Same
  <2>7. Bare(h) /\ Bare(s)
    BY <2>1, <2>2, <2>4 DEF Same, Names, Bare
  <2>8. QED
    BY <2>2, <2>4, <2>5, <2>6, <2>7
<1>2. LET v == ClearSummarySubFilter(u) IN
      /\ v \in Ui /\ Bare(v) /\ v.insight = None
      /\ Same(u, v, {"sub", "tip", "subsub", "insight", "legend", "rect", "filter",
                     "lines", "over"})
  <2> DEFINE d == DropSub(u)
             i == [d EXCEPT !.insight = None]
             h == HideSubTooltip(i)
             r == [h EXCEPT !.rect = FALSE]
             f == Filter(r, None)
             l == IF f.summary THEN ActivateHoverAll(f) ELSE f
             v == RenderDonut(l)
  <2>1. d \in Ui /\ Same(u, d, {"sub"}) /\ d.sub = None
    BY TipTyped
  <2> HIDE DEF d
  <2>2. i \in Ui
    BY <2>1, SetUi
  <2>3. Same(d, i, {"insight"}) /\ i.insight = None
    BY <2>1 DEF Ui, Same, Names
  <2> HIDE DEF i
  <2>4. /\ h \in Ui /\ Same(i, h, {"tip", "subsub", "legend"})
        /\ h.tip = None /\ h.subsub = None
    BY <2>2, TipTyped
  <2> HIDE DEF h
  <2>5. r \in Ui
    BY <2>4, SetUi
  <2>6. Same(h, r, {"rect"})
    BY <2>4 DEF Ui, Same, Names
  <2> HIDE DEF r
  <2>7. f \in Ui /\ Same(r, f, {"filter"})
    BY <2>5, DrawTyped
  <2> HIDE DEF f
  <2>8. l \in Ui /\ Same(f, l, {"lines"})
    BY <2>7, LinesTyped DEF Same
  <2> HIDE DEF l
  <2>9. v \in Ui /\ Same(l, v, {"over"})
    BY <2>8, TipTyped
  <2>10. ClearSummarySubFilter(u) = v
    BY DEF ClearSummarySubFilter, d, i, h, r, f, l
  <2> HIDE DEF v
  <2>11. Same(u, h, {"sub", "tip", "subsub", "insight", "legend"})
    BY <2>1, <2>3, <2>4 DEF Same
  <2>12. Same(h, v, {"rect", "filter", "lines", "over"})
    BY <2>6, <2>7, <2>8, <2>9 DEF Same
  <2>13. Same(u, v, {"sub", "tip", "subsub", "insight", "legend", "rect", "filter",
                     "lines", "over"})
    BY <2>11, <2>12 DEF Same
  <2>14. h.sub = None /\ h.insight = None
    BY <2>1, <2>3, <2>4 DEF Same, Names
  <2>15. Bare(v) /\ v.insight = None
    BY <2>4, <2>12, <2>14 DEF Same, Names, Bare
  <2>16. QED
    BY <2>9, <2>10, <2>13, <2>15
<1>3. QED
  BY <1>1, <1>2

\* A filter and its tooltip dropped together, whatever was there before.
LEMMA BareKin ==
  ASSUME NEW u, NEW v, Bare(v), v.insight \in {u.insight, None}
  PROVE  Kin(u, v)
BY DEF Bare, Kin

LEMMA NavigateTyped ==
  ASSUME NoneIsNoTip, NEW u \in Ui, NEW a \in AsOrOthers
  PROVE  LET v == NavigateToProvider(u, a) IN
         /\ v \in Ui /\ Kin(u, v) /\ Bare(v) /\ v.sel = a /\ ~v.summary /\ ~v.detail
         /\ v.focused = u.focused /\ v.net = u.net
<1> DEFINE b == [u EXCEPT !.history = @ \/ u.summary \/ u.sel # None, !.summary = FALSE,
                          !.sub = None]
           h == HideSubTooltip(b)
           s == [h EXCEPT !.sel = a]
           w == OpenPanel(s, a)
           v == Show(w, PeersOf(w.peers, a))
<1>1. b \in Ui
  <2>1. (u.history \/ u.summary \/ u.sel # None) \in BOOLEAN
    OBVIOUS
  <2>2. QED
    BY <2>1, SetUi
<1>2. /\ Same(u, b, {"history", "summary", "sub"}) /\ b.summary = FALSE /\ b.sub = None
  BY DEF Ui, Same, Names
<1>3. NavigateToProvider(u, a) = v
  BY DEF NavigateToProvider
<1> HIDE DEF b
<1>4. h \in Ui /\ Same(b, h, {"tip", "subsub", "legend"}) /\ h.tip = None /\ h.subsub = None
  BY <1>1, TipTyped
<1> HIDE DEF h
<1>5. s \in Ui
  BY <1>4, SetUi
<1>6. Same(h, s, {"sel"}) /\ s.sel = a
  BY <1>4 DEF Ui, Same, Names
<1> HIDE DEF s
<1>7. w \in Ui /\ w.detail = FALSE /\ Steady(s, w) /\ Kin(s, w)
  BY <1>5, OpenTyped, OpenKin
<1> HIDE DEF w
<1>8. PeersOf(w.peers, a) \in SUBSET Peers
  BY <1>7, UiFields, PeerSets
<1>9. v \in Ui /\ Same(w, v, {"filter", "lines"})
  BY <1>7, <1>8, ShowTyped
<1> HIDE DEF v
<1>10. /\ s.focused = u.focused /\ s.net = u.net /\ s.summary = FALSE /\ s.insight = u.insight
       /\ Bare(s)
  BY <1>2, <1>4, <1>6 DEF Same, Names, Bare
<1>11. Bare(w) /\ w.insight \in {u.insight, None}
  BY <1>7, <1>10 DEF Kin, Bare, Retipped
<1>12. /\ v.sel = w.sel /\ v.summary = w.summary /\ v.detail = w.detail /\ Bare(v)
       /\ v.focused = w.focused /\ v.net = w.net /\ v.insight = w.insight
  BY <1>9, <1>11 DEF Same, Names, Bare
<1>13. Kin(u, v)
  BY <1>11, <1>12, BareKin
<1>14. QED
  BY <1>3, <1>6, <1>7, <1>9, <1>10, <1>12, <1>13 DEF Steady

LEMMA NavigateBackTyped ==
  ASSUME NoneIsNoTip, NEW u \in Ui
  PROVE  LET v == NavigateBack(u) IN
         /\ v \in Ui /\ Kin(u, v) /\ Bare(v) /\ v.sel = None /\ v.net = None /\ ~v.detail
         /\ v.focused = u.focused /\ (v.summary <=> u.focused)
<1> DEFINE b == [u EXCEPT !.others = None, !.net = None, !.detail = FALSE,
                          !.sel = None, !.sub = None, !.insight = None, !.history = FALSE]
           h == HideSubTooltip(b)
           r == [h EXCEPT !.rect = FALSE]
<1>1. b \in Ui
  BY SetUi
<1>2. /\ Same(u, b, {"others", "net", "detail", "sel", "sub", "insight", "history"})
      /\ b.net = None /\ b.detail = FALSE /\ b.sel = None /\ b.sub = None /\ b.insight = None
  BY DEF Ui, Same, Names
<1>3. NavigateBack(u) = IF r.focused THEN ShowAll(OpenSummaryPanel([r EXCEPT !.summary = TRUE]))
                        ELSE Deselect(r)
  BY DEF NavigateBack
<1> HIDE DEF b
<1>4. h \in Ui /\ Same(b, h, {"tip", "subsub", "legend"}) /\ h.tip = None /\ h.subsub = None
  BY <1>1, TipTyped
<1> HIDE DEF h
<1>5. r \in Ui
  BY <1>4, SetUi
<1>6. Same(h, r, {"rect"})
  BY <1>4 DEF Ui, Same, Names
<1> HIDE DEF r
<1>7. /\ Bare(r) /\ r.insight = None /\ r.sel = None /\ r.net = None /\ ~r.detail
      /\ r.focused = u.focused
  BY <1>2, <1>4, <1>6 DEF Same, Names, Bare
<1>8. CASE r.focused
  <2> DEFINE s == [r EXCEPT !.summary = TRUE]
             o == OpenSummaryPanel(s)
             v == ShowAll(o)
  <2>1. s \in Ui
    BY <1>5, SetUi
  <2>2. Same(r, s, {"summary"}) /\ s.summary = TRUE
    BY <1>5 DEF Ui, Same, Names
  <2>3. NavigateBack(u) = v
    BY <1>3, <1>8
  <2> HIDE DEF s
  <2>4. o \in Ui /\ o.detail = FALSE /\ Kin(s, o) /\ Steady(s, o)
    BY <2>1, OpenTyped, OpenKin
  <2> HIDE DEF o
  <2>5. v \in Ui /\ Same(o, v, {"filter", "lines"})
    BY <2>4, LinesTyped
  <2> HIDE DEF v
  <2>6. /\ Bare(s) /\ s.insight = None /\ s.sel = None /\ s.net = None /\ s.focused = r.focused
    BY <1>7, <2>2 DEF Same, Names, Bare
  <2>7. Bare(o) /\ o.insight = None
    BY <2>4, <2>6 DEF Kin, Bare, Retipped
  <2>8. /\ v.sel = o.sel /\ v.net = o.net /\ v.detail = o.detail /\ v.focused = o.focused
        /\ v.summary = o.summary /\ v.insight = o.insight /\ Bare(v)
    BY <2>5, <2>7 DEF Same, Names, Bare
  <2>9. Kin(u, v)
    BY <2>7, <2>8, BareKin
  <2>10. QED
    BY <1>7, <1>8, <2>2, <2>3, <2>4, <2>5, <2>6, <2>8, <2>9 DEF Steady
<1>9. CASE ~r.focused
  <2> DEFINE v == Deselect(r)
  <2>1. NavigateBack(u) = v
    BY <1>3, <1>9
  <2>2. /\ v \in Ui /\ ~v.summary /\ v.net = None /\ Bare(v) /\ v.focused = r.focused
        /\ v.insight \in {r.insight, None} /\ v.sel = None /\ ~v.detail
    <3>1. r.summary \in BOOLEAN
      BY <1>5, UiFields
    <3>2. QED
      BY <1>5, <1>7, <3>1, DeselectTyped
  <2> HIDE DEF v
  <2>3. Kin(u, v)
    BY <1>7, <2>2, BareKin
  <2>4. u.focused \in BOOLEAN
    BY UiFields
  <2>5. QED
    BY <1>7, <1>9, <2>1, <2>2, <2>3, <2>4
<1>10. QED
  BY <1>8, <1>9

LEMMA OthersListTyped ==
  ASSUME NEW u \in Ui
  PROVE  ShowOthersList(u) \in Ui /\ Same(u, ShowOthersList(u), {"others"})
<1>1. PeersOf(u.peers, "Others") \in SUBSET Peers
  BY UiFields, PeerSets
<1>2. [u EXCEPT !.others = PeersOf(u.peers, "Others")] \in Ui
  BY <1>1, SetUi
<1>3. \A x : Same(u, [u EXCEPT !.others = x], {"others"}) /\ Same(u, u, {"others"})
  BY DEF Ui, Same, Names
<1>4. QED
  BY <1>2, <1>3 DEF ShowOthersList

LEMMA BackToOthersTyped ==
  ASSUME NoneIsNoTip, NEW u \in Ui
  PROVE  LET v == BackToOthersList(u) IN
         /\ v \in Ui /\ Kin(u, v) /\ (v.detail => u.detail)
         /\ v = u \/ v.sel = "Others"
         /\ v.summary = u.summary /\ v.focused = u.focused /\ v.net = u.net
<1>1. CASE ~HasOthers(u.peers)
  <2>1. Kin(u, u)
    BY SameKin DEF Same
  <2>2. QED
    BY <1>1, <2>1 DEF BackToOthersList
<1>2. CASE HasOthers(u.peers)
  <2> DEFINE d == DropSub(u)
             h == HideSubTooltip(d)
             s == [h EXCEPT !.sel = "Others"]
             o == OpenPanel(s, "Others")
             w == Show(o, PeersOf(o.peers, "Others"))
             v == ShowOthersList(w)
  <2>1. d \in Ui /\ Same(u, d, {"sub"}) /\ d.sub = None
    BY TipTyped
  <2>2. BackToOthersList(u) = v
    BY <1>2 DEF BackToOthersList
  <2> HIDE DEF d
  <2>3. h \in Ui /\ Same(d, h, {"tip", "subsub", "legend"}) /\ h.tip = None /\ h.subsub = None
    BY <2>1, TipTyped
  <2> HIDE DEF h
  <2>4. s \in Ui
    BY <2>3, SetUi DEF AsOrOthers
  <2>5. Same(h, s, {"sel"}) /\ s.sel = "Others"
    BY <2>3 DEF Ui, Same, Names
  <2> HIDE DEF s
  <2>6. o \in Ui /\ o.detail = FALSE /\ Steady(s, o) /\ Kin(s, o)
    BY <2>4, OpenTyped, OpenKin DEF AsOrOthers
  <2> HIDE DEF o
  <2>7. PeersOf(o.peers, "Others") \in SUBSET Peers
    BY <2>6, UiFields, PeerSets
  <2>8. w \in Ui /\ Same(o, w, {"filter", "lines"})
    BY <2>6, <2>7, ShowTyped
  <2> HIDE DEF w
  <2>9. v \in Ui /\ Same(w, v, {"others"})
    BY <2>8, OthersListTyped
  <2> HIDE DEF v
  <2>10. /\ Bare(s) /\ s.insight = u.insight /\ s.summary = u.summary /\ s.focused = u.focused
         /\ s.net = u.net
    BY <2>1, <2>3, <2>5 DEF Same, Names, Bare
  <2>11. Bare(o) /\ o.insight \in {u.insight, None}
    BY <2>6, <2>10 DEF Kin, Bare, Retipped
  <2>12. /\ v.sel = o.sel /\ v.summary = o.summary /\ v.focused = o.focused /\ v.net = o.net
         /\ v.detail = o.detail /\ Bare(v) /\ v.insight = o.insight
    BY <2>8, <2>9, <2>11 DEF Same, Names, Bare
  <2>13. Kin(u, v)
    BY <2>11, <2>12, BareKin
  <2>14. QED
    BY <2>2, <2>5, <2>6, <2>9, <2>10, <2>12, <2>13 DEF Steady
<1>3. QED
  BY <1>1, <1>2

LEMMA OpenNetworkTyped ==
  ASSUME NoneIsNoTip, NEW u \in Ui, NEW n \in Nets
  PROVE  LET v == OpenNetworkPanel(u, n) IN
         /\ v \in Ui /\ Kin(u, v) /\ v.focused /\ v.net = n /\ ~v.detail
         /\ v.sel = u.sel /\ v.summary = u.summary
<1> DEFINE m == MakeRoom(u)
           w == [m EXCEPT !.focused = TRUE, !.net = n,
                          !.history = IF m.net = n THEN @ ELSE TRUE]
           x == BuildPanel(w, "network", n)
           f == Filter(x, NetPeers(x.peers, n))
           y == ActivateHoverAll(f)
<1>1. m \in Ui /\ Same(u, m, PopupNames) /\ m.detail = FALSE
  BY MakeRoomTyped
<1>2. OpenNetworkPanel(u, n) = IF NetPeers(x.peers, n) = {} THEN x ELSE y
  BY DEF OpenNetworkPanel
<1> HIDE DEF m
<1>3. w \in Ui
  <2>1. (IF m.net = n THEN m.history ELSE TRUE) \in BOOLEAN
    BY <1>1, UiFields
  <2>2. QED
    BY <1>1, <2>1, SetUi
<1>4. Same(m, w, {"focused", "net", "history"}) /\ w.focused = TRUE /\ w.net = n
  BY <1>1 DEF Ui, Same, Names
<1> HIDE DEF w
<1>5. x \in Ui /\ Same(w, x, {"panel", "tip", "over"}) /\ Retipped(w.tip, x.tip)
  BY <1>3, BuildTyped
<1> HIDE DEF x
<1>6. NetPeers(x.peers, n) \in SUBSET Peers
  BY <1>5, UiFields, PeerSets
<1>7. f \in Ui /\ Same(x, f, {"filter"})
  BY <1>5, <1>6, DrawTyped
<1> HIDE DEF f
<1>8. y \in Ui /\ Same(f, y, {"lines"})
  BY <1>7, LinesTyped
<1> HIDE DEF y
<1>9. ASSUME NEW v \in Ui, Same(x, v, {"filter", "lines"})
      PROVE  /\ Kin(u, v) /\ v.focused /\ v.net = n /\ ~v.detail
             /\ v.sel = u.sel /\ v.summary = u.summary
  <2>1. /\ m.tip = u.tip /\ m.sub = u.sub /\ m.subsub = u.subsub /\ m.insight = u.insight
        /\ m.sel = u.sel /\ m.summary = u.summary
    BY <1>1 DEF Same, Names, PopupNames
  <2>2. /\ w.tip = u.tip /\ w.sub = u.sub /\ w.subsub = u.subsub /\ w.insight = u.insight
        /\ w.sel = u.sel /\ w.summary = u.summary /\ ~w.detail
    BY <1>1, <1>4, <2>1 DEF Same, Names
  <2>3. /\ v.sub = u.sub /\ v.subsub = u.subsub /\ v.insight = u.insight /\ v.tip = x.tip
        /\ v.sel = u.sel /\ v.summary = u.summary /\ ~v.detail /\ v.focused /\ v.net = n
    BY <1>4, <1>5, <1>9, <2>2 DEF Same, Names
  <2>4. Kin(u, v)
    BY <1>5, <2>2, <2>3 DEF Kin, Retipped, Pinned
  <2>5. QED
    BY <2>3, <2>4
<1>10. Same(x, x, {"filter", "lines"}) /\ Same(x, y, {"filter", "lines"})
  BY <1>7, <1>8 DEF Same
<1>11. QED
  BY <1>2, <1>5, <1>8, <1>9, <1>10

LEMMA LeaveNetworkTyped ==
  ASSUME NoneIsNoTip, NEW u \in Ui
  PROVE  LET v == LeaveNetworkPanel(u) IN
         /\ v \in Ui /\ Kin(u, v) /\ v.sel = None /\ v.summary /\ v.net = None /\ ~v.detail
         /\ v.focused = u.focused
         /\ AnyPin(u) => Bare(v)
         /\ v.subsub = None /\ ~Pinned(v)
<1> DEFINE b == [u EXCEPT !.net = None, !.sel = None]
           h == HideSubTooltip(b)
           w == IF AnyPin(b) THEN DropSub(h) ELSE b
           s == [w EXCEPT !.summary = TRUE, !.history = FALSE]
           o == OpenSummaryPanel(s)
           l == ShowAll(o)
           v == RenderDonut(l)
<1>1. b \in Ui
  BY SetUi
<1>2. Same(u, b, {"net", "sel"}) /\ b.net = None /\ b.sel = None
  BY DEF Ui, Same, Names
<1>3. LeaveNetworkPanel(u) = v
  BY DEF LeaveNetworkPanel
<1> HIDE DEF b
<1>4. h \in Ui /\ Same(b, h, {"tip", "subsub", "legend"}) /\ h.tip = None /\ h.subsub = None
  BY <1>1, TipTyped
<1> HIDE DEF h
<1>5. DropSub(h) \in Ui /\ Same(h, DropSub(h), {"sub"}) /\ DropSub(h).sub = None
  BY <1>4, TipTyped
<1>6. /\ w \in Ui /\ w.net = None /\ w.sel = None /\ w.focused = u.focused
      /\ w.insight = u.insight
      /\ AnyPin(u) => Bare(w)
      /\ ~AnyPin(u) => w.sub = u.sub /\ w.tip = u.tip /\ w.subsub = u.subsub
  <2>1. b.tip = u.tip /\ b.subsub = u.subsub /\ b.sub = u.sub /\ b.focused = u.focused
        /\ b.insight = u.insight
    BY <1>2 DEF Same, Names
  <2>2. AnyPin(b) <=> AnyPin(u)
    BY <2>1 DEF AnyPin, Pinned
  <2>3. CASE AnyPin(u)
    <3>1. w = DropSub(h)
      BY <2>2, <2>3
    <3> HIDE DEF w
    <3>2. Bare(w) /\ w.net = None /\ w.sel = None /\ w.focused = u.focused
          /\ w.insight = u.insight
      BY <1>2, <1>4, <1>5, <2>1, <3>1 DEF Same, Names, Bare
    <3>3. QED
      BY <1>5, <2>3, <3>1, <3>2
  <2>4. CASE ~AnyPin(u)
    BY <1>1, <1>2, <2>1, <2>2, <2>4
  <2>5. QED
    BY <2>3, <2>4
<1> HIDE DEF w
<1>7. s \in Ui
  BY <1>6, SetUi
<1>8. Same(w, s, {"summary", "history"}) /\ s.summary = TRUE
  BY <1>6 DEF Ui, Same, Names
<1> HIDE DEF s
<1>9. o \in Ui /\ o.detail = FALSE /\ Steady(s, o) /\ Kin(s, o)
  BY <1>7, OpenTyped, OpenKin
<1> HIDE DEF o
<1>10. l \in Ui /\ Same(o, l, {"filter", "lines"})
  BY <1>9, LinesTyped
<1> HIDE DEF l
<1>11. v \in Ui /\ Same(l, v, {"over"})
  BY <1>10, TipTyped
<1> HIDE DEF v
<1>12. /\ v.sel = o.sel /\ v.summary = o.summary /\ v.net = o.net /\ v.detail = o.detail
       /\ v.focused = o.focused /\ v.insight = o.insight /\ v.sub = o.sub /\ v.tip = o.tip
       /\ v.subsub = o.subsub
  BY <1>10, <1>11 DEF Same, Names
<1>13. /\ s.sel = None /\ s.net = None /\ s.focused = u.focused /\ s.insight = w.insight
       /\ s.sub = w.sub /\ s.tip = w.tip /\ s.subsub = w.subsub
  BY <1>6, <1>8 DEF Same, Names
<1>14. CASE AnyPin(u)
  <2>1. Bare(v) /\ v.insight \in {u.insight, None}
    BY <1>6, <1>9, <1>12, <1>13, <1>14 DEF Kin, Bare, Retipped
  <2>2. Kin(u, v)
    BY <2>1, BareKin
  <2>3. ~Pinned(v)
    BY <2>1 DEF Bare, Pinned
  <2>4. QED
    BY <1>3, <1>8, <1>9, <1>11, <1>12, <1>13, <2>1, <2>2, <2>3 DEF Steady, Bare
<1>15. CASE ~AnyPin(u)
  <2>1. w.sub = u.sub /\ w.tip = u.tip /\ w.subsub = None /\ u.subsub = None
    BY <1>6, <1>15 DEF AnyPin
  <2>2. /\ v.insight \in {u.insight, None} /\ v.sub \in {u.sub, None} /\ v.subsub = None
        /\ v.tip = None \/ Retipped(u.tip, v.tip)
    BY <1>6, <1>9, <1>12, <1>13, <2>1 DEF Kin
  <2>3. ~Pinned(u) /\ ~Pinned(v)
    BY <1>15, <2>2 DEF AnyPin, Pinned, Retipped
  <2>4. Kin(u, v)
    BY <2>1, <2>2, <2>3 DEF Kin
  <2>5. QED
    BY <1>3, <1>8, <1>9, <1>11, <1>12, <1>13, <1>15, <2>2, <2>3, <2>4 DEF Steady
<1>16. QED
  BY <1>14, <1>15

LEMMA OpenPeerTyped ==
  ASSUME NoneIsNoTip, NEW u \in Ui, ~(u.sel # None /\ u.summary), NEW p \in Peers
  PROVE  LET v == OpenPeerDetailPanel(u, p) IN
         /\ v \in Ui /\ Kin(u, v) /\ v.focused
         /\ \/ /\ v.sel = u.sel /\ v.summary = u.summary /\ v.net = u.net
               /\ u.focused \/ u.sel # None \/ u.summary
            \/ v.sel = None /\ v.summary /\ v.net \in {u.net, None}
<1> DEFINE c == [u EXCEPT !.popup = None]
           v1 == [c EXCEPT !.detail = TRUE, !.selPeer = p]
           f == [v1 EXCEPT !.focused = TRUE]
           g == IF ~f.summary /\ f.sel = None THEN SelectSummary(f) ELSE f
           h == [g EXCEPT !.detail = TRUE, !.selPeer = p]
           w == IF v1.focused THEN v1 ELSE h
           x == IF As[p] = None THEN w ELSE Draw(w, {p})
           y == Filter(x, {p})
           v == [y EXCEPT !.popup = [peer |-> p, visible |-> TRUE]]
<1>1. OpenPeerDetailPanel(u, p) = v
  BY DEF OpenPeerDetailPanel
<1>2. c \in Ui
  BY SetUi
<1>3. Same(u, c, {"popup"})
  BY DEF Ui, Same, Names
<1> HIDE DEF c
<1>4. v1 \in Ui
  BY <1>2, SetUi
<1>5. Same(c, v1, {"detail", "selPeer"})
  BY <1>2 DEF Ui, Same, Names
<1> HIDE DEF v1
<1>6. f \in Ui
  BY <1>4, SetUi
<1>7. Same(v1, f, {"focused"}) /\ f.focused = TRUE
  BY <1>4 DEF Ui, Same, Names
<1> HIDE DEF f
<1>8. /\ v1.sel = u.sel /\ v1.summary = u.summary /\ v1.net = u.net /\ v1.focused = u.focused
      /\ v1.sub = u.sub /\ v1.tip = u.tip /\ v1.subsub = u.subsub /\ v1.insight = u.insight
  BY <1>3, <1>5 DEF Same, Names
<1>9. /\ f.sel = u.sel /\ f.summary = u.summary /\ f.net = u.net
      /\ f.sub = u.sub /\ f.tip = u.tip /\ f.subsub = u.subsub /\ f.insight = u.insight
  BY <1>7, <1>8 DEF Same, Names
<1>10. Kin(u, u)
  BY SameKin DEF Same
<1>11. /\ g \in Ui /\ Kin(u, g) /\ g.focused
       /\ \/ /\ g.sel = u.sel /\ g.summary = u.summary /\ g.net = u.net
             /\ u.sel # None \/ u.summary
          \/ g.sel = None /\ g.summary /\ g.net \in {u.net, None}
  <2>1. CASE ~f.summary /\ f.sel = None
    <3>1. LET s == SelectSummary(f) IN
          /\ s \in Ui /\ Kin(f, s) /\ s.sel = None /\ s.summary
          /\ s.focused = f.focused /\ s.net \in {f.net, None}
      BY <1>6, <2>1, SelectSummaryTyped
    <3>2. g = SelectSummary(f)
      BY <2>1
    <3> HIDE DEF g
    <3>3. Kin(u, g)
      BY <1>9, <3>1, <3>2 DEF Kin, Pinned
    <3>4. QED
      BY <1>7, <1>9, <3>1, <3>2, <3>3
  <2>2. CASE ~(~f.summary /\ f.sel = None)
    <3>1. g = f
      BY <2>2
    <3>2. Kin(u, f)
      BY <1>9, <1>10 DEF Kin, Pinned
    <3>3. QED
      BY <1>6, <1>7, <1>9, <2>2, <3>1, <3>2
  <2>3. QED
    BY <2>1, <2>2
<1> HIDE DEF g
<1>12. h \in Ui
  BY <1>11, SetUi
<1>13. Same(g, h, {"detail", "selPeer"})
  BY <1>11 DEF Ui, Same, Names
<1> HIDE DEF h
<1>14. /\ h.sel = g.sel /\ h.summary = g.summary /\ h.net = g.net /\ h.focused = g.focused
       /\ h.sub = g.sub /\ h.tip = g.tip /\ h.subsub = g.subsub /\ h.insight = g.insight
  BY <1>13 DEF Same, Names
<1>15. Kin(u, h) /\ Kin(u, v1)
  BY <1>8, <1>10, <1>11, <1>14 DEF Kin, Pinned
<1>16. /\ w \in Ui /\ Kin(u, w) /\ w.focused
       /\ \/ /\ w.sel = u.sel /\ w.summary = u.summary /\ w.net = u.net
             /\ u.focused \/ u.sel # None \/ u.summary
          \/ w.sel = None /\ w.summary /\ w.net \in {u.net, None}
  BY <1>4, <1>8, <1>11, <1>12, <1>14, <1>15
<1> HIDE DEF w
<1>17. {p} \in SUBSET Peers
  OBVIOUS
<1>18. x \in Ui /\ Same(w, x, {"lines"})
  BY <1>16, <1>17, DrawTyped DEF Same
<1> HIDE DEF x
<1>19. y \in Ui /\ Same(x, y, {"filter"})
  BY <1>17, <1>18, DrawTyped
<1> HIDE DEF y
<1>20. v \in Ui
  <2>1. [peer |-> p, visible |-> TRUE] \in PopupSet
    BY DEF PopupSet
  <2>2. QED
    BY <1>19, <2>1, SetUi
<1>21. Same(y, v, {"popup"})
  BY <1>19 DEF Ui, Same, Names
<1> HIDE DEF v
<1>22. Same(w, v, Outward)
  BY <1>18, <1>19, <1>21 DEF Same, Outward
<1>23. Kin(w, v) /\ Steady(w, v)
  BY <1>16, <1>20, <1>22, SameKin
<1>24. Kin(u, v)
  BY <1>16, <1>23, KinOfKin
<1>25. QED
  BY <1>1, <1>16, <1>20, <1>23, <1>24 DEF Steady

LEMMA SegmentClickTyped ==
  ASSUME NoneIsNoTip, AsDataAssumption, NEW u \in Ui, ~(u.sel # None /\ u.summary),
         NEW a \in AsOrOthers
  PROVE  LET v == SegmentClickOf(u, a) IN
         /\ v \in Ui /\ Kin(u, v) /\ Bare(v) /\ v.focused /\ ~v.detail
         /\ v.net \in {u.net, None}
         /\ \/ v.sel = None /\ v.summary
            \/ v.sel = a /\ ~v.summary
<1> DEFINE r == IF u.detail THEN ClosePeerPopup(u) ELSE u
           f == [r EXCEPT !.focused = TRUE]
           d == RenderDonut(f)
           b == DeselectSummary(d)
           \* the segment that was selected
           s1 == [b EXCEPT !.others = None, !.sel = None, !.sub = None]
           h1 == HideSubTooltip(s1)
           c1 == ClosePanel(h1)
           f1 == Filter(c1, None)
           \* another one
           s2 == DropSub(b)
           h2 == HideSubTooltip(s2)
           w == [h2 EXCEPT !.others = None, !.sel = a]
           x == OpenPanel(w, a)
           y == Show(x, PeersOf(x.peers, a))
<1>1. SegmentClickOf(u, a) =
        IF b.sel = a THEN SelectSummary(f1)
        ELSE IF a \notin Segments(w.peers) THEN w
        ELSE IF a = "Others" THEN ShowOthersList(y) ELSE y
  BY DEF SegmentClickOf
<1>2. r \in Ui /\ Same(u, r, PopupNames) /\ r.detail = FALSE
  BY MakeRoomTyped DEF MakeRoom
<1> HIDE DEF r
<1>3. f \in Ui
  BY <1>2, SetUi
<1>4. Same(r, f, {"focused"}) /\ f.focused = TRUE
  BY <1>2 DEF Ui, Same, Names
<1> HIDE DEF f
<1>5. d \in Ui /\ Same(f, d, {"over"})
  BY <1>3, TipTyped
<1> HIDE DEF d
<1>6. /\ b \in Ui /\ ~b.summary /\ (~d.summary => b = d)
      /\ Same(d, b, ClearNames \cup {"summary", "history", "insight"})
      /\ d.summary => Bare(b) /\ b.insight = None
  BY <1>5, DeselectSummaryTyped
<1> HIDE DEF b
<1>7. /\ f.sel = u.sel /\ f.net = u.net /\ f.insight = u.insight /\ ~f.detail
  BY <1>2, <1>4 DEF Same, Names, PopupNames
<1>8. /\ d.sel = u.sel /\ d.net = u.net /\ d.focused /\ d.insight = u.insight /\ ~d.detail
  BY <1>4, <1>5, <1>7 DEF Same, Names
<1>9. /\ b.sel = u.sel /\ b.net = u.net /\ b.focused /\ ~b.detail
      /\ b.insight \in {u.insight, None}
  BY <1>6, <1>8 DEF Same, Names, ClearNames
<1>10. CASE b.sel = a
  <2>1. s1 \in Ui
    BY <1>6, SetUi
  <2>2. Same(b, s1, {"others", "sel", "sub"}) /\ s1.sel = None /\ s1.sub = None
    BY <1>6 DEF Ui, Same, Names
  <2> HIDE DEF s1
  <2>3. h1 \in Ui /\ Same(s1, h1, {"tip", "subsub", "legend"})
        /\ h1.tip = None /\ h1.subsub = None
    BY <2>1, TipTyped
  <2> HIDE DEF h1
  <2>4. c1 \in Ui /\ Same(h1, c1, {"panel"})
    BY <2>3, CloseTyped
  <2> HIDE DEF c1
  <2>5. f1 \in Ui /\ Same(c1, f1, {"filter"})
    BY <2>4, DrawTyped
  <2> HIDE DEF f1
  <2>6. /\ s1.net = u.net /\ s1.focused /\ s1.insight = b.insight
    BY <1>9, <2>2 DEF Same, Names
  <2>7. /\ f1.sel = None /\ f1.net = u.net /\ f1.focused /\ f1.insight = b.insight /\ Bare(f1)
    BY <2>2, <2>3, <2>4, <2>5, <2>6 DEF Same, Names, Bare
  <2> DEFINE v == SelectSummary(f1)
  <2>8. /\ v \in Ui /\ Kin(f1, v) /\ v.sel = None /\ v.summary /\ ~v.detail
        /\ v.focused = f1.focused /\ v.net \in {f1.net, None}
    BY <2>5, <2>7, SelectSummaryTyped
  <2>9. SegmentClickOf(u, a) = v
    BY <1>1, <1>10
  <2> HIDE DEF v
  <2>10. Bare(v) /\ v.insight \in {u.insight, None}
    BY <1>9, <2>7, <2>8 DEF Kin, Bare, Retipped
  <2>11. QED
    BY <2>7, <2>8, <2>9, <2>10, BareKin
<1>11. CASE b.sel # a
  <2>1. s2 \in Ui /\ Same(b, s2, {"sub"}) /\ s2.sub = None
    BY <1>6, TipTyped
  <2> HIDE DEF s2
  <2>2. h2 \in Ui /\ Same(s2, h2, {"tip", "subsub", "legend"})
        /\ h2.tip = None /\ h2.subsub = None
    BY <2>1, TipTyped
  <2> HIDE DEF h2
  <2>3. w \in Ui
    BY <2>2, SetUi
  <2>4. Same(h2, w, {"others", "sel"}) /\ w.sel = a
    BY <2>2 DEF Ui, Same, Names
  <2>5. SegmentClickOf(u, a) = w \/ SegmentClickOf(u, a) = ShowOthersList(y)
        \/ SegmentClickOf(u, a) = y
    BY <1>1, <1>11
  <2> HIDE DEF w
  <2>6. x \in Ui /\ x.detail = FALSE /\ Steady(w, x) /\ Kin(w, x)
    BY <2>3, OpenTyped, OpenKin
  <2> HIDE DEF x
  <2>7. PeersOf(x.peers, a) \in SUBSET Peers
    BY <2>6, UiFields, PeerSets
  <2>8. y \in Ui /\ Same(x, y, {"filter", "lines"})
    BY <2>6, <2>7, ShowTyped
  <2> HIDE DEF y
  <2>9. ShowOthersList(y) \in Ui /\ Same(y, ShowOthersList(y), {"others"})
    BY <2>8, OthersListTyped
  <2>10. /\ w.net = u.net /\ w.focused /\ ~w.detail /\ w.insight \in {u.insight, None}
         /\ Bare(w) /\ ~w.summary
    <3>1. /\ s2.net = u.net /\ s2.focused /\ ~s2.detail /\ s2.insight = b.insight
          /\ ~s2.summary
      BY <1>6, <1>9, <2>1 DEF Same, Names
    <3>2. QED
      BY <1>9, <2>1, <2>2, <2>4, <3>1 DEF Same, Names, Bare
  <2>11. /\ x.net = u.net /\ x.focused /\ ~x.detail /\ x.insight \in {u.insight, None}
         /\ Bare(x) /\ ~x.summary /\ x.sel = a
    BY <2>4, <2>6, <2>10 DEF Kin, Bare, Retipped, Steady
  <2>12. ASSUME NEW v \in Ui, Same(x, v, {"filter", "lines", "others"})
         PROVE  /\ v.net = u.net /\ v.focused /\ ~v.detail /\ v.insight \in {u.insight, None}
                /\ Bare(v) /\ ~v.summary /\ v.sel = a
    BY <2>11, <2>12 DEF Same, Names, Bare
  <2>13. Same(x, y, {"filter", "lines", "others"})
         /\ Same(x, ShowOthersList(y), {"filter", "lines", "others"})
    BY <2>8, <2>9 DEF Same
  <2>14. ASSUME NEW v, v = w \/ v = y \/ v = ShowOthersList(y)
         PROVE  /\ v \in Ui
                /\ v.net = u.net /\ v.focused /\ ~v.detail /\ v.insight \in {u.insight, None}
                /\ Bare(v) /\ ~v.summary /\ v.sel = a
    BY <2>3, <2>4, <2>8, <2>9, <2>10, <2>12, <2>13, <2>14
  <2>15. QED
    BY <2>5, <2>14, BareKin
<1>12. QED
  BY <1>10, <1>11
-----------------------------------------------------------------------------
(***************************************************************************)
(* What the handlers keep.                                                 *)
(***************************************************************************)
\* A popup is open in the focused mode only, a pinned tooltip is that of the
\* filter, a category and an insight are not in force together, and where
\* nothing is selected there is neither tooltip nor filter.
Kept(u) ==
  /\ u.detail => u.focused
  /\ Pinned(u) /\ u.sub # None => u.sub.row.k = u.tip.row.k
  /\ u.sub # None /\ u.sub.row.k \in CategoryKinds => u.insight = None
  /\ u.focused /\ u.sel = None /\ ~u.summary /\ u.net = None => u.tip = None /\ u.sub = None

\* A filter has its tooltip and its selection, and no network's panel is open
\* without a selection.
Clean(u) ==
  /\ u.sub # None => Pinned(u)
  /\ u.sel # None \/ u.summary \/ (u.sub = None /\ u.net = None)

Good(u, v) == v \in Ui /\ (Kept(u) => Kept(v)) /\ (Clean(u) => Clean(v))

LEMMA GoodOfGood ==
  ASSUME NEW u, NEW v, NEW w, Good(u, v), Good(v, w)
  PROVE  Good(u, w)
BY DEF Good

LEMMA KinKept ==
  ASSUME NEW u \in Ui, NEW v \in Ui, Kin(u, v), Kept(u), v.detail => v.focused,
         v.sel # None \/ v.summary \/ v.net # None \/ Bare(v) \/ ~v.focused
  PROVE  Kept(v)
<1>1. Pinned(v) /\ v.sub # None =>
        Pinned(u) /\ u.sub # None /\ v.sub = u.sub /\ v.tip.row = u.tip.row
  BY DEF Kin, Pinned, Retipped
<1>2. Pinned(v) /\ v.sub # None => v.sub.row.k = v.tip.row.k
  BY <1>1 DEF Kept
<1>3. v.sub # None => v.sub = u.sub /\ u.sub # None
  BY DEF Kin
<1>4. v.sub # None /\ v.sub.row.k \in CategoryKinds => v.insight = None
  BY <1>3 DEF Kept, Kin
<1>5. QED
  BY <1>2, <1>4 DEF Kept, Bare

LEMMA KinPinned ==
  ASSUME NEW u \in Ui, NEW v \in Ui, Kin(u, v), u.sub # None => Pinned(u)
  PROVE  v.sub # None => Pinned(v)
<1>1. SUFFICES ASSUME v.sub # None PROVE Pinned(v)
  OBVIOUS
<1>2. v.sub = u.sub /\ Pinned(u)
  BY <1>1 DEF Kin
<1>3. QED
  BY <1>1, <1>2 DEF Kin, Pinned, Retipped

LEMMA KinClean ==
  ASSUME NEW u \in Ui, NEW v \in Ui, Kin(u, v), Clean(u),
         v.sel # None \/ v.summary \/ (Bare(v) /\ v.net = None)
  PROVE  Clean(v)
<1>1. v.sub # None => Pinned(v)
  BY KinPinned DEF Clean
<1>2. v.sel # None \/ v.summary \/ (v.sub = None /\ v.net = None)
  BY DEF Bare
<1>3. QED
  BY <1>1, <1>2 DEF Clean

LEMMA KinGood ==
  ASSUME NEW u \in Ui, NEW v \in Ui, Kin(u, v),
         v.detail => v.focused \/ (u.detail /\ v.focused = u.focused),
         v.sel # None \/ v.summary \/ (Bare(v) /\ v.net = None)
  PROVE  Good(u, v)
<1>1. Kept(u) => (v.detail => v.focused)
  BY DEF Kept
<1>2. QED
  BY <1>1, KinKept, KinClean DEF Good

\* The selection is that of before.
LEMMA UnmovedGood ==
  ASSUME NEW u \in Ui, NEW v \in Ui, Kin(u, v), v.sel = u.sel, v.summary = u.summary,
         v.focused = u.focused, v.net = u.net, v.detail => u.detail \/ u.focused
  PROVE  Good(u, v)
<1>1. ASSUME Kept(u) PROVE Kept(v)
  <2>1. v.detail => v.focused
    BY <1>1 DEF Kept
  <2>3. ASSUME v.focused, v.sel = None, ~v.summary, v.net = None
        PROVE  v.tip = None /\ v.sub = None
    <3>1. u.tip = None /\ u.sub = None
      BY <1>1, <2>3 DEF Kept
    <3>2. QED
      BY <3>1 DEF Kin, Retipped
  <2>4. Pinned(v) /\ v.sub # None =>
          Pinned(u) /\ u.sub # None /\ v.sub = u.sub /\ v.tip.row = u.tip.row
    BY DEF Kin, Pinned, Retipped
  <2>5. Pinned(v) /\ v.sub # None => v.sub.row.k = v.tip.row.k
    BY <1>1, <2>4 DEF Kept
  <2>6. v.sub # None => v.sub = u.sub /\ u.sub # None
    BY DEF Kin
  <2>7. v.sub # None /\ v.sub.row.k \in CategoryKinds => v.insight = None
    BY <1>1, <2>6 DEF Kept, Kin
  <2>8. QED
    BY <2>1, <2>3, <2>5, <2>7 DEF Kept
<1>2. ASSUME Clean(u) PROVE Clean(v)
  <2>1. v.sub # None => Pinned(v)
    BY <1>2, KinPinned DEF Clean
  <2>2. v.sel # None \/ v.summary \/ (v.sub = None /\ v.net = None)
    BY <1>2 DEF Clean, Kin
  <2>3. QED
    BY <2>1, <2>2 DEF Clean
<1>3. QED
  BY <1>1, <1>2 DEF Good

LEMMA SteadyGood ==
  ASSUME NEW u \in Ui, NEW v \in Ui, Kin(u, v), Steady(u, v)
  PROVE  Good(u, v)
BY UnmovedGood DEF Steady

LEMMA OutwardGood ==
  ASSUME NEW u \in Ui, NEW v \in Ui, Same(u, v, Outward)
  PROVE  Good(u, v)
BY SameKin, SteadyGood

LEMMA GoodOfItself ==
  ASSUME NEW u \in Ui
  PROVE  Good(u, u)
BY DEF Good

-----------------------------------------------------------------------------
(***************************************************************************)
(* The rows of the panel and their tooltips.                               *)
(***************************************************************************)
LEMMA SummaryRowsTyped ==
  ASSUME AsDataAssumption, NEW P \in SUBSET Peers, NEW row \in SummaryRows(P)
  PROVE  row \in StrictRows
<1>1. \/ \E p \in P : row = Row("cat", Net[p])
      \/ \E a \in TopGroups(P) : \/ row = Row("conn-provider", a) \/ row = Row("nav", a)
                                \/ row = Row("conn-out", a) \/ row = Row("conn-in", a)
      \/ row = Row("conn-others", "Others")
      \/ \E k \in Ranking \cup {"all-providers"} : row = Row(k, None)
      \/ Groups(P) # {} /\ row = Row("insight-stable", Leader(P, "insight-stable"))
  BY DEF SummaryRows, Linked
<1>2. \A k \in AllKinds, v \in AsOrOthers \cup Nets \cup {"IN", "OUT", None} :
        Row(k, v) \in RowSet /\ Row(k, v).k = k /\ Row(k, v).v = v
  BY DEF Row, RowSet
<1>3. {"cat", "conn-provider", "nav", "conn-out", "conn-in", "conn-others", "all-providers",
       "insight-stable"} \cup Ranking \subseteq AllKinds
  BY DEF AllKinds, CategoryKinds, Insights
<1>4. \A p \in P : Net[p] \in Nets
  BY DEF AsDataAssumption
<1>5. TopGroups(P) \subseteq Systems /\ Systems \subseteq AsOrOthers /\ "Others" \in AsOrOthers
  BY Providers DEF AsOrOthers
<1>6. Groups(P) # {} => Leader(P, "insight-stable") \in Systems
  <2>1. Groups(P) # {} => Linked(P) # {}
    BY DEF Groups, Linked
  <2>2. QED
    BY <2>1, LeaderLeads
<1>7. CASE \E p \in P : row = Row("cat", Net[p])
  BY <1>2, <1>3, <1>4, <1>7 DEF StrictRows
<1>8. CASE \E a \in TopGroups(P) : \/ row = Row("conn-provider", a) \/ row = Row("nav", a)
                                  \/ row = Row("conn-out", a) \/ row = Row("conn-in", a)
  <2>1. PICK a \in TopGroups(P), k \in {"conn-provider", "nav", "conn-out", "conn-in"} :
               row = Row(k, a)
    BY <1>8
  <2>2. a \in Systems /\ a \in AsOrOthers /\ k \in AllKinds
    BY <1>3, <1>5
  <2>3. row \in RowSet /\ row.v = a
    BY <1>2, <2>1, <2>2
  <2>4. QED
    BY <2>2, <2>3 DEF StrictRows
<1>9. CASE row = Row("conn-others", "Others")
  BY <1>2, <1>3, <1>5, <1>9 DEF StrictRows
<1>10. CASE \E k \in Ranking \cup {"all-providers"} : row = Row(k, None)
  <2>1. PICK k \in Ranking \cup {"all-providers"} : row = Row(k, None)
    BY <1>10
  <2>2. k \notin {"nav", "conn-provider", "insight-stable"} /\ k \in AllKinds
    BY <1>3 DEF Ranking
  <2>3. QED
    BY <1>2, <2>1, <2>2 DEF StrictRows
<1>11. CASE Groups(P) # {} /\ row = Row("insight-stable", Leader(P, "insight-stable"))
  BY <1>2, <1>3, <1>5, <1>6, <1>11 DEF StrictRows
<1>12. QED
  BY <1>1, <1>7, <1>8, <1>9, <1>10, <1>11

LEMMA RowsTyped ==
  ASSUME AsDataAssumption, NEW u \in Ui, NEW row \in Rows(u)
  PROVE  row \in StrictRows
<1> DEFINE P == u.panel.at
           of == u.panel.of
<1>1. P \in SUBSET Peers /\ of \in AsOrOthers \cup Nets \cup {None}
  BY UiFields DEF PanelSet
<1>2. \/ row \in SummaryRows(P)
      \/ row \in ProviderRows(P, of) \/ row = Row("net", of)
  BY DEF Rows
<1> HIDE DEF P, of
<1>3. CASE row \in SummaryRows(P)
  BY <1>1, <1>3, SummaryRowsTyped
<1>4. CASE row \in ProviderRows(P, of)
  <2>1. \/ \E p \in Peers : row = Row("conntype", Direction[p])
        \/ \E p \in Peers : row = Row("provider", As[p])
    <3>1. PeersOf(P, of) \subseteq Peers
      BY <1>1, PeerSets
    <3>2. QED
      BY <1>4, <3>1 DEF ProviderRows
  <2>2. \A p \in Peers : Direction[p] \in {"IN", "OUT"} /\ As[p] \in AsOrOthers \cup {None}
    BY DEF AsDataAssumption, AsOrOthers
  <2>3. \A v \in AsOrOthers \cup Nets \cup {"IN", "OUT", None} :
          Row("conntype", v) \in StrictRows /\ Row("provider", v) \in StrictRows
    BY DEF Row, RowSet, StrictRows, AllKinds
  <2>4. QED
    BY <2>1, <2>2, <2>3
<1>5. CASE row = Row("net", of)
  BY <1>1, <1>5 DEF Row, RowSet, StrictRows, AllKinds, CategoryKinds
<1>6. QED
  BY <1>2, <1>3, <1>4, <1>5

LEMMA RowIdsTyped ==
  ASSUME AsDataAssumption, NEW u \in Ui, NEW row \in RowSet
  PROVE  RowIds(u, row) \in SUBSET Peers
<1> DEFINE P == u.panel.at
<1>1. P \in SUBSET Peers /\ u.peers \in SUBSET Peers
  BY UiFields DEF PanelSet
<1>2. row.k \in AllKinds
  BY DEF RowSet
<1>3. \/ RowIds(u, row) = NetPeers(P, row.v)
      \/ RowIds(u, row) = CategoryPeers(P, row.v)
      \/ RowIds(u, row) = Heading(P, "OUT", GroupPeers(P, row.v))
      \/ RowIds(u, row) = Heading(P, "IN", GroupPeers(P, row.v))
      \/ RowIds(u, row) = Heading(P, row.v, PeersOf(P, u.panel.of))
      \/ RowIds(u, row) = PeersOf(P, row.v)
      \/ RowIds(u, row) = Linked(u.peers)
      \/ RowIds(u, row) = PeersOf(u.peers, Leader(u.peers, row.k))
  BY <1>2 DEF RowIds, AllKinds, CategoryKinds, Insights, Ranking
<1> HIDE DEF P
<1>4. QED
  BY <1>1, <1>3, PeerSets

\* The panel has rows where something is selected.
LEMMA RowSelected ==
  ASSUME NEW u, Agree(u), NEW row \in Rows(u)
  PROVE  u.sel # None \/ u.summary \/ u.net # None
<1>1. u.panel.kind # "closed"
  BY DEF Rows
<1>2. u.panel # Closed
  BY <1>1 DEF Closed
<1>3. QED
  BY <1>2 DEF Agree, Views

\* A tooltip that is shown, and the peers that it lists.
LEMMA ShowTipTyped ==
  ASSUME NEW u \in Ui, NEW row \in StrictRows, NEW ids \in SUBSET Peers, NEW pin \in BOOLEAN
  PROVE  LET v == ShowSubTooltip(u, row, ids, pin) IN
         /\ v \in Ui /\ Same(u, v, {"tip", "subsub", "legend"})
         /\ v.tip = [row |-> row, ids |-> ids, pinned |-> pin, live |-> TRUE]
         /\ v.subsub = None
<1> DEFINE h == HideSubSubTooltip(u)
           tip == [row |-> row, ids |-> ids, pinned |-> pin, live |-> TRUE]
           v == [h EXCEPT !.tip = tip]
<1>1. h \in Ui /\ Same(u, h, {"subsub", "legend"}) /\ h.subsub = None
  BY TipTyped
<1>2. ShowSubTooltip(u, row, ids, pin) = v
  BY DEF ShowSubTooltip
<1>3. tip \in Tips
  BY DEF Tips
<1> HIDE DEF h, tip
<1>4. v \in Ui
  BY <1>1, <1>3, SetUi
<1>5. Same(h, v, {"tip"}) /\ v.tip = tip
  BY <1>1 DEF Ui, Same, Names
<1> HIDE DEF v
<1>6. Same(u, v, {"tip", "subsub", "legend"}) /\ v.subsub = None
  BY <1>1, <1>5 DEF Same, Names
<1>7. QED
  BY <1>2, <1>4, <1>5, <1>6 DEF tip

\* What a handler that neither selects nor opens a popup may change.
Hangings == Outward \cup {"tip", "sub", "subsub", "insight"}

Selected(u) == u.sel # None \/ u.summary \/ u.net # None

\* A row's tooltip is pinned, with the row's filter or with none.
LEMMA PinnedGood ==
  ASSUME NEW u \in Ui, NEW v \in Ui, Selected(u), Same(u, v, Hangings), Pinned(v),
         v.sub # None => v.sub.row.k = v.tip.row.k,
         v.sub # None /\ v.sub.row.k \in CategoryKinds => v.insight = None
  PROVE  Good(u, v)
<1>1. /\ v.sel = u.sel /\ v.summary = u.summary /\ v.focused = u.focused /\ v.net = u.net
      /\ v.detail = u.detail
  BY DEF Same, Names, Hangings, Outward
<1>2. Kept(u) => Kept(v)
  BY <1>1 DEF Kept, Selected
<1>3. Clean(u) => Clean(v)
  BY <1>1 DEF Clean, Selected
<1>4. QED
  BY <1>2, <1>3 DEF Good

\* A tooltip that is not pinned is shown where none is.
LEMMA FloatingGood ==
  ASSUME NEW u \in Ui, NEW v \in Ui, Selected(u), Same(u, v, Hangings), ~Pinned(u), ~Pinned(v),
         v.sub = u.sub, v.insight = u.insight
  PROVE  Good(u, v)
<1>1. /\ v.sel = u.sel /\ v.summary = u.summary /\ v.focused = u.focused /\ v.net = u.net
      /\ v.detail = u.detail
  BY DEF Same, Names, Hangings, Outward
<1>2. Kept(u) => Kept(v)
  BY <1>1 DEF Kept, Selected
<1>3. Clean(u) => Clean(v)
  BY <1>1 DEF Clean, Selected
<1>4. QED
  BY <1>2, <1>3 DEF Good

\* Tooltips and filter are taken away together.
LEMMA BareGood ==
  ASSUME NEW u \in Ui, NEW v \in Ui, Bare(v), Same(u, v, Hangings)
  PROVE  Good(u, v)
<1>1. /\ v.sel = u.sel /\ v.summary = u.summary /\ v.focused = u.focused /\ v.net = u.net
      /\ v.detail = u.detail
  BY DEF Same, Names, Hangings, Outward
<1>2. Kept(u) => Kept(v)
  BY <1>1 DEF Kept, Bare, Pinned
<1>3. Clean(u) => Clean(v)
  BY <1>1 DEF Clean, Bare
<1>4. QED
  BY <1>2, <1>3 DEF Good

LEMMA RoomGood ==
  ASSUME NEW u \in Ui
  PROVE  /\ Good(u, MakeRoom(u)) /\ Good(u, ClosePeerPopup(u))
         /\ Same(u, MakeRoom(u), PopupNames) /\ Same(u, ClosePeerPopup(u), PopupNames)
         /\ ~MakeRoom(u).detail /\ ~ClosePeerPopup(u).detail
         /\ Selected(u) => Selected(MakeRoom(u))
<1>1. ASSUME NEW v \in Ui, Same(u, v, PopupNames), v.detail = FALSE
      PROVE  Good(u, v) /\ (Selected(u) => Selected(v))
  <2>1. /\ v.insight = u.insight /\ v.sub = u.sub /\ v.subsub = u.subsub /\ v.tip = u.tip
        /\ v.sel = u.sel /\ v.summary = u.summary /\ v.focused = u.focused /\ v.net = u.net
    BY <1>1 DEF Same, Names, PopupNames
  <2>2. Kin(u, v) /\ Steady(u, v)
    BY <1>1, <2>1 DEF Kin, Steady, Retipped, Pinned
  <2>3. QED
    BY <2>1, <2>2, SteadyGood DEF Selected
<1>2. QED
  BY <1>1, MakeRoomTyped, ClosePopupTyped

LEMMA FieldsTyped ==
  ASSUME NEW u \in Ui
  PROVE  /\ \A a \in AsOrOthers \cup {None} : Focus(u, a) \in Ui /\ Same(u, Focus(u, a), {"legend"})
         /\ RectIfFocused(u) \in Ui /\ Same(u, RectIfFocused(u), {"rect"})
         /\ LeaveInsight(u) \in Ui /\ Same(u, LeaveInsight(u), {"insight", "rect"})
         /\ LeaveInsight(u).insight = None
<1>1. \A a \in AsOrOthers \cup {None} : Focus(u, a) \in Ui /\ Same(u, Focus(u, a), {"legend"})
  BY LegendTyped DEF Focus
<1>2. RectIfFocused(u) \in Ui
  <2>1. (u.rect \/ u.focused) \in BOOLEAN
    BY UiFields
  <2>2. QED
    BY <2>1, SetUi DEF RectIfFocused
<1>3. Same(u, RectIfFocused(u), {"rect"})
  BY DEF Ui, RectIfFocused, Same, Names
<1>4. LeaveInsight(u) \in Ui
  <2>1. [u EXCEPT !.insight = None] \in Ui
    BY SetUi
  <2>2. [[u EXCEPT !.insight = None] EXCEPT !.rect = FALSE] \in Ui
    BY <2>1, SetUi
  <2>3. [u EXCEPT !.insight = None, !.rect = FALSE]
          = [[u EXCEPT !.insight = None] EXCEPT !.rect = FALSE]
    BY DEF Ui
  <2>4. QED
    BY <2>2, <2>3 DEF LeaveInsight
<1>5. Same(u, LeaveInsight(u), {"insight", "rect"}) /\ LeaveInsight(u).insight = None
  BY DEF Ui, LeaveInsight, Same, Names
<1>6. QED
  BY <1>1, <1>2, <1>3, <1>4, <1>5

LEMMA SubTyped ==
  ASSUME NEW u \in Ui, NEW row \in RowSet, NEW ids \in SUBSET Peers
  PROVE  LET v == [u EXCEPT !.sub = [row |-> row, ids |-> ids]] IN
         v \in Ui /\ Same(u, v, {"sub"}) /\ v.sub = [row |-> row, ids |-> ids]
<1> DEFINE s == [row |-> row, ids |-> ids]
<1>1. s \in SubSet
  BY DEF SubSet
<1> HIDE DEF s
<1>2. [u EXCEPT !.sub = s] \in Ui
  BY <1>1, SetUi
<1>3. Same(u, [u EXCEPT !.sub = s], {"sub"}) /\ [u EXCEPT !.sub = s].sub = s
  BY DEF Ui, Same, Names
<1>4. QED
  BY <1>2, <1>3 DEF s

LEMMA ToggleTyped ==
  ASSUME NEW u \in Ui
  PROVE  /\ ToggleOff(u) \in Ui /\ Bare(ToggleOff(u)) /\ Same(u, ToggleOff(u), Hangings)
         /\ ToggleInsightOff(u) \in Ui /\ Bare(ToggleInsightOff(u))
         /\ Same(u, ToggleInsightOff(u), Hangings)
<1> DEFINE h == HideSubTooltip(u)
           d == DropSub(h)
           i == [d EXCEPT !.insight = None, !.rect = FALSE]
           f == Filter(d, None)
           g == Filter(i, None)
<1>1. h \in Ui /\ Same(u, h, {"tip", "subsub", "legend"}) /\ h.tip = None /\ h.subsub = None
  BY TipTyped
<1> HIDE DEF h
<1>2. d \in Ui /\ Same(h, d, {"sub"}) /\ d.sub = None
  BY <1>1, TipTyped
<1> HIDE DEF d
<1>3. i \in Ui
  BY <1>2, SetUi
<1>4. Same(d, i, {"insight", "rect"})
  BY <1>2 DEF Ui, Same, Names
<1> HIDE DEF i
<1>5. f \in Ui /\ Same(d, f, {"filter"}) /\ g \in Ui /\ Same(i, g, {"filter"})
  BY <1>2, <1>3, DrawTyped
<1>6. /\ ToggleOff(u) = IF f.summary THEN ActivateHoverAll(f) ELSE f
      /\ ToggleInsightOff(u) = IF g.summary THEN ActivateHoverAll(g) ELSE g
  BY DEF ToggleOff, ToggleInsightOff, f, g, d, h, i
<1> HIDE DEF f, g
<1>7. /\ ToggleOff(u) \in Ui /\ Same(f, ToggleOff(u), {"lines"})
      /\ ToggleInsightOff(u) \in Ui /\ Same(g, ToggleInsightOff(u), {"lines"})
  BY <1>5, <1>6, LinesTyped DEF Same
<1>8. Same(u, ToggleOff(u), Hangings) /\ Same(u, ToggleInsightOff(u), Hangings)
  BY <1>1, <1>2, <1>4, <1>5, <1>7 DEF Same, Hangings, Outward
<1>9. Bare(f) /\ Bare(g)
  BY <1>1, <1>2, <1>4, <1>5 DEF Same, Names, Bare
<1>10. Bare(ToggleOff(u)) /\ Bare(ToggleInsightOff(u))
  BY <1>7, <1>9 DEF Same, Names, Bare
<1>11. QED
  BY <1>7, <1>8, <1>10

LEMMA SubFilterTyped ==
  ASSUME AsDataAssumption, NEW u \in Ui, NEW row \in RowSet
  PROVE  /\ LET s == ApplySummarySubFilter(u, row) IN
            /\ s \in Ui /\ Same(u, s, Hangings)
            /\ s.sub # None => s.sub.row = row /\ s.insight = None
         /\ LET t == ApplySubFilter(u, row) IN
            /\ t \in Ui /\ Same(u, t, Hangings)
            /\ t.sub # None => t.sub.row = row
<1> DEFINE ids == RowIds(u, row)
           sub == [row |-> row, ids |-> ids]
           l == LeaveInsight(u)
           a == [l EXCEPT !.sub = sub]
           b == [u EXCEPT !.sub = sub]
           s == ApplySummarySubFilter(u, row)
           t == ApplySubFilter(u, row)
<1>1. ids \in SUBSET Peers
  BY RowIdsTyped
<1>2. s = ClearSummarySubFilter(u) \/ s = PreviewSummaryLines(a, ids)
  BY DEF ApplySummarySubFilter
<1>3. t = ClearSubFilter(u) \/ t = Filter(b, ids) \/ t = Show(b, ids)
  BY DEF ApplySubFilter, Show
<1> HIDE DEF ids, s, t
<1>4. l \in Ui /\ Same(u, l, {"insight", "rect"}) /\ l.insight = None
  BY FieldsTyped
<1> HIDE DEF l
<1>5. a \in Ui /\ Same(l, a, {"sub"}) /\ a.sub = sub
  BY <1>1, <1>4, SubTyped
<1>6. b \in Ui /\ Same(u, b, {"sub"}) /\ b.sub = sub
  BY <1>1, SubTyped
<1>7. sub.row = row
  OBVIOUS
<1> HIDE DEF a, b, sub
<1>8. /\ ClearSummarySubFilter(u) \in Ui /\ Same(u, ClearSummarySubFilter(u), Hangings)
      /\ ClearSummarySubFilter(u).sub = None
      /\ ClearSubFilter(u) \in Ui /\ Same(u, ClearSubFilter(u), Hangings)
      /\ ClearSubFilter(u).sub = None
  BY ClearTyped DEF Same, Bare, Hangings, Outward
<1>9. LET p == PreviewSummaryLines(a, ids) IN
      p \in Ui /\ Same(u, p, Hangings) /\ p.sub = sub /\ p.insight = None
  <2> DEFINE p == PreviewSummaryLines(a, ids)
  <2>1. p \in Ui /\ Same(a, p, {"filter", "lines"})
    BY <1>1, <1>5, LinesTyped
  <2> HIDE DEF p
  <2>2. Same(u, p, Hangings)
    BY <1>4, <1>5, <2>1 DEF Same, Hangings, Outward
  <2>3. p.sub = sub /\ p.insight = None
    BY <1>4, <1>5, <2>1 DEF Same, Names
  <2>4. QED
    BY <2>1, <2>2, <2>3 DEF p
<1>10. ASSUME NEW p \in Ui, Same(b, p, {"filter", "lines"})
       PROVE  Same(u, p, Hangings) /\ p.sub = sub
  BY <1>6, <1>10 DEF Same, Names, Hangings, Outward
<1>11. s \in Ui /\ Same(u, s, Hangings) /\ (s.sub # None => s.sub.row = row /\ s.insight = None)
  BY <1>2, <1>7, <1>8, <1>9
<1>12. t \in Ui /\ Same(u, t, Hangings) /\ (t.sub # None => t.sub.row = row)
  <2>1. /\ Filter(b, ids) \in Ui /\ Same(b, Filter(b, ids), {"filter", "lines"})
        /\ Show(b, ids) \in Ui /\ Same(b, Show(b, ids), {"filter", "lines"})
    BY <1>1, <1>6, ShowTyped, DrawTyped DEF Same
  <2>2. QED
    BY <1>3, <1>7, <1>8, <1>10, <2>1
<1>13. QED
  BY <1>11, <1>12 DEF s, t

LEMMA PinTipTyped ==
  ASSUME AsDataAssumption, NEW u \in Ui, NEW row \in StrictRows
  PROVE  /\ PinTip(u, row) \in Ui /\ Same(u, PinTip(u, row), {"tip", "subsub", "legend"})
         /\ FloatTip(u, row) \in Ui /\ Same(u, FloatTip(u, row), {"tip", "subsub", "legend"})
         /\ ~Pinned(FloatTip(u, row))
<1>1. row \in RowSet
  BY DEF StrictRows
<1>2. RowIds(u, row) \in SUBSET Peers
  BY <1>1, RowIdsTyped
<1>3. \A pin \in BOOLEAN : LET v == ShowSubTooltip(u, row, RowIds(u, row), pin) IN
         /\ v \in Ui /\ Same(u, v, {"tip", "subsub", "legend"})
         /\ v.tip = [row |-> row, ids |-> RowIds(u, row), pinned |-> pin, live |-> TRUE]
  BY <1>2, ShowTipTyped
<1>4. /\ PinTip(u, row) \in Ui /\ Same(u, PinTip(u, row), {"tip", "subsub", "legend"})
      /\ FloatTip(u, row) \in Ui /\ Same(u, FloatTip(u, row), {"tip", "subsub", "legend"})
  BY <1>3 DEF PinTip, FloatTip
<1>5. FloatTip(u, row).tip.pinned = FALSE
  <2>1. FloatTip(u, row).tip
          = [row |-> row, ids |-> RowIds(u, row), pinned |-> FALSE, live |-> TRUE]
    BY <1>2, ShowTipTyped DEF FloatTip
  <2>2. QED
    BY <2>1
<1>6. QED
  BY <1>4, <1>5 DEF Pinned

LEMMA PinTipPins ==
  ASSUME NoneIsNoTip, AsDataAssumption, NEW u \in Ui, NEW row \in StrictRows
  PROVE  Pinned(PinTip(u, row)) /\ PinTip(u, row).tip.row = row
<1> DEFINE t == [row |-> row, ids |-> RowIds(u, row), pinned |-> TRUE, live |-> TRUE]
<1>1. row \in RowSet
  BY DEF StrictRows
<1>2. RowIds(u, row) \in SUBSET Peers
  BY <1>1, RowIdsTyped
<1>3. PinTip(u, row).tip = t
  BY <1>2, ShowTipTyped DEF PinTip
<1>4. t \in Tips
  BY <1>2 DEF Tips
<1>5. t # None
  BY <1>4, NoTipIsNone
<1>6. QED
  BY <1>3, <1>5 DEF Pinned

\* Pinned with its row's filter, or the filter of the same row dropped.
LEMMA PinFilterGood ==
  ASSUME NoneIsNoTip, AsDataAssumption, NEW u \in Ui, NEW s \in Ui, Selected(u),
         Same(u, s, Hangings), NEW row \in StrictRows, s.sub # None => s.sub.row = row,
         s.sub # None /\ row.k \in CategoryKinds => s.insight = None
  PROVE  Good(u, PinTip(s, row))
<1> DEFINE v == PinTip(s, row)
<1>1. v \in Ui /\ Same(s, v, {"tip", "subsub", "legend"})
  BY PinTipTyped
<1>2. Pinned(v) /\ v.tip.row = row
  BY PinTipPins
<1> HIDE DEF v
<1>3. v.sub = s.sub /\ v.insight = s.insight
  BY <1>1 DEF Same, Names
<1>4. Same(u, v, Hangings)
  BY <1>1 DEF Same, Hangings, Outward
<1>5. Good(u, v)
  BY <1>1, <1>2, <1>3, <1>4, PinnedGood
<1>6. QED
  BY <1>5 DEF v

\* A second click takes away tooltip and filter.
LEMMA OffGood ==
  ASSUME NEW u \in Ui
  PROVE  /\ Good(u, ToggleOff(u)) /\ Good(u, ToggleInsightOff(u))
         /\ Good(u, ClearSummarySubFilter(HideSubTooltip(u)))
         /\ Good(u, ClearSubFilter(HideSubTooltip(u)))
<1> DEFINE h == HideSubTooltip(u)
<1>1. Good(u, ToggleOff(u)) /\ Good(u, ToggleInsightOff(u))
  BY ToggleTyped, BareGood
<1>2. h \in Ui /\ Same(u, h, {"tip", "subsub", "legend"})
  BY TipTyped
<1> HIDE DEF h
<1>3. /\ ClearSummarySubFilter(h) \in Ui /\ Bare(ClearSummarySubFilter(h))
      /\ Same(u, ClearSummarySubFilter(h), Hangings)
      /\ ClearSubFilter(h) \in Ui /\ Bare(ClearSubFilter(h))
      /\ Same(u, ClearSubFilter(h), Hangings)
  BY <1>2, ClearTyped DEF Same, Hangings, Outward
<1>4. QED
  BY <1>1, <1>3, BareGood DEF h

LEMMA CategoryGood ==
  ASSUME NoneIsNoTip, AsDataAssumption, NEW u \in Ui, NEW row \in StrictRows, Selected(u)
  PROVE  /\ Good(u, CategoryClick(u, row))
         /\ row.k \notin CategoryKinds => Good(u, ProviderRowClick(u, row))
<1> DEFINE m == MakeRoom(u)
           s == ApplySummarySubFilter(m, row)
           t == ApplySubFilter(u, row)
<1>1. row \in RowSet
  BY DEF StrictRows
<1>2. m \in Ui /\ Good(u, m) /\ Selected(m)
  BY RoomGood DEF Good
<1>3. CategoryClick(u, row) = IF IsOwnRow(m, row) THEN ClearSummarySubFilter(HideSubTooltip(m))
                              ELSE PinTip(s, row)
  BY DEF CategoryClick
<1> HIDE DEF m
<1>4. s \in Ui /\ Same(m, s, Hangings) /\ (s.sub # None => s.sub.row = row /\ s.insight = None)
  BY <1>1, <1>2, SubFilterTyped
<1> HIDE DEF s
<1>5. Good(m, PinTip(s, row))
  BY <1>2, <1>4, PinFilterGood
<1>6. Good(m, CategoryClick(u, row))
  BY <1>2, <1>3, <1>5, OffGood
<1>7. t \in Ui /\ Same(u, t, Hangings) /\ (t.sub # None => t.sub.row = row)
  BY <1>1, SubFilterTyped
<1>8. ProviderRowClick(u, row) = IF IsOwnRow(u, row) THEN ClearSubFilter(HideSubTooltip(u))
                                 ELSE PinTip(t, row)
  BY DEF ProviderRowClick
<1> HIDE DEF t
<1>9. row.k \notin CategoryKinds => Good(u, PinTip(t, row))
  BY <1>7, PinFilterGood
<1>10. row.k \notin CategoryKinds => Good(u, ProviderRowClick(u, row))
  BY <1>8, <1>9, OffGood
<1>11. QED
  BY <1>2, <1>6, <1>10, GoodOfGood

\* Rows of the providers, of Others and of all providers.
LEMMA PinRowTyped ==
  ASSUME NoneIsNoTip, AsDataAssumption, NEW u \in Ui, NEW row \in StrictRows
  PROVE  LET v == PinRow(u, row) IN
         /\ v \in Ui /\ Same(u, v, Hangings) /\ Pinned(v) /\ v.tip.row = row
         /\ v.sub.row = row /\ v.insight = None
<1> DEFINE p == PinTip(u, row)
           l == LeaveInsight(p)
           ids == RowIds(u, row)
           sub == [row |-> row, ids |-> ids]
           v == [l EXCEPT !.sub = sub]
<1>1. p \in Ui /\ Same(u, p, {"tip", "subsub", "legend"}) /\ Pinned(p) /\ p.tip.row = row
  BY PinTipTyped, PinTipPins
<1>2. PinRow(u, row) = v
  BY DEF PinRow
<1> HIDE DEF p
<1>3. l \in Ui /\ Same(p, l, {"insight", "rect"}) /\ l.insight = None
  BY <1>1, FieldsTyped
<1> HIDE DEF l
<1>4. row \in RowSet
  BY DEF StrictRows
<1>5. ids \in SUBSET Peers
  BY <1>4, RowIdsTyped
<1> HIDE DEF ids
<1>6. v \in Ui /\ Same(l, v, {"sub"}) /\ v.sub = sub
  BY <1>3, <1>4, <1>5, SubTyped
<1>7. sub.row = row
  OBVIOUS
<1> HIDE DEF v, sub
<1>8. Same(u, v, Hangings)
  BY <1>1, <1>3, <1>6 DEF Same, Hangings, Outward
<1>9. v.tip = p.tip /\ v.insight = None
  BY <1>3, <1>6 DEF Same, Names
<1>10. QED
  BY <1>1, <1>2, <1>6, <1>7, <1>8, <1>9 DEF Pinned

LEMMA ProviderRowsGood ==
  ASSUME NoneIsNoTip, AsDataAssumption, NEW u \in Ui, NEW row \in StrictRows, Selected(u)
  PROVE  /\ Good(u, ProviderTotalClick(u, row)) /\ Good(u, DirectionClick(u, row))
         /\ Good(u, OthersRowClick(u, row))
         /\ row.k \notin CategoryKinds => Good(u, AllProvidersClick(u, row))
<1> DEFINE m == MakeRoom(u)
<1>1. m \in Ui /\ Good(u, m) /\ Selected(m)
  BY RoomGood DEF Good
<1>2. /\ ProviderTotalClick(u, row) = IF IsOwnRow(m, row) THEN ToggleOff(m)
                                      ELSE Show(PinRow(m, row), RowIds(m, row))
      /\ OthersRowClick(u, row) = IF IsOwnRow(m, row) THEN ToggleOff(m)
                                  ELSE PreviewSummaryLines(PinRow(m, row), RowIds(m, row))
      /\ AllProvidersClick(u, row)
           = IF IsOwnRow(m, row) THEN ToggleOff(m)
             ELSE [PinTip(m, row) EXCEPT !.sub = [row |-> row, ids |-> {}]]
      /\ DirectionClick(u, row) = IF IsOwnRow(u, row) THEN ToggleOff(u)
                                  ELSE Filter(PinRow(u, row), RowIds(u, row))
  BY DEF ProviderTotalClick, OthersRowClick, AllProvidersClick, DirectionClick
<1> HIDE DEF m
<1>3. row \in RowSet
  BY DEF StrictRows
<1>4. ASSUME NEW w \in Ui, Selected(w)
      PROVE  /\ Good(w, Show(PinRow(w, row), RowIds(w, row)))
             /\ Good(w, Filter(PinRow(w, row), RowIds(w, row)))
             /\ Good(w, PreviewSummaryLines(PinRow(w, row), RowIds(w, row)))
  <2> DEFINE p == PinRow(w, row)
             ids == RowIds(w, row)
  <2>1. /\ p \in Ui /\ Same(w, p, Hangings) /\ Pinned(p) /\ p.tip.row = row
        /\ p.sub.row = row /\ p.insight = None
    BY <1>4, PinRowTyped
  <2>2. ids \in SUBSET Peers
    BY <1>3, <1>4, RowIdsTyped
  <2> HIDE DEF p, ids
  <2>3. ASSUME NEW v \in Ui, Same(p, v, {"filter", "lines"})
        PROVE  Good(w, v)
    <3>1. v.tip = p.tip /\ v.sub = p.sub /\ v.insight = p.insight
      BY <2>3 DEF Same, Names
    <3>2. Same(w, v, Hangings)
      BY <2>1, <2>3 DEF Same, Hangings, Outward
    <3>3. Pinned(v)
      BY <2>1, <3>1 DEF Pinned
    <3>4. QED
      BY <1>4, <2>1, <2>3, <3>1, <3>2, <3>3, PinnedGood
  <2>4. Show(p, ids) \in Ui /\ Same(p, Show(p, ids), {"filter", "lines"})
    BY <2>1, <2>2, ShowTyped
  <2>5. Filter(p, ids) \in Ui /\ Same(p, Filter(p, ids), {"filter", "lines"})
    BY <2>1, <2>2, DrawTyped DEF Same
  <2>6. PreviewSummaryLines(p, ids) \in Ui /\ Same(p, PreviewSummaryLines(p, ids), {"filter", "lines"})
    BY <2>1, <2>2, LinesTyped
  <2>7. QED
    BY <2>3, <2>4, <2>5, <2>6 DEF p, ids
<1>5. ASSUME row.k \notin CategoryKinds
      PROVE  Good(m, [PinTip(m, row) EXCEPT !.sub = [row |-> row, ids |-> {}]])
  <2> DEFINE p == PinTip(m, row)
             sub == [row |-> row, ids |-> {}]
             v == [p EXCEPT !.sub = sub]
  <2>1. p \in Ui /\ Same(m, p, {"tip", "subsub", "legend"}) /\ Pinned(p) /\ p.tip.row = row
    BY <1>1, PinTipTyped, PinTipPins
  <2> HIDE DEF p
  <2>2. v \in Ui /\ Same(p, v, {"sub"}) /\ v.sub = sub
    BY <1>3, <2>1, SubTyped
  <2>3. sub.row = row
    OBVIOUS
  <2> HIDE DEF v, sub
  <2>4. Same(m, v, Hangings)
    BY <2>1, <2>2 DEF Same, Hangings, Outward
  <2>5. v.tip = p.tip
    BY <2>2 DEF Same, Names
  <2>6. Pinned(v)
    BY <2>1, <2>5 DEF Pinned
  <2>7. Good(m, v)
    BY <1>1, <1>5, <2>1, <2>2, <2>3, <2>4, <2>5, <2>6, PinnedGood
  <2>8. QED
    BY <2>7 DEF v, p, sub
<1>6. /\ Good(m, ProviderTotalClick(u, row)) /\ Good(u, DirectionClick(u, row))
      /\ Good(m, OthersRowClick(u, row))
      /\ row.k \notin CategoryKinds => Good(m, AllProvidersClick(u, row))
  BY <1>1, <1>2, <1>4, <1>5, OffGood
<1>7. QED
  BY <1>1, <1>6, GoodOfGood

LEMMA InsightPinGood ==
  ASSUME NoneIsNoTip, AsDataAssumption, NEW u \in Ui, Selected(u), NEW row,
         NEW ids \in SUBSET Peers, NEW lead \in Systems \cup {None},
         lead # None => row \in StrictRows /\ row.k \notin CategoryKinds
  PROVE  Good(u, InsightPin(u, row, ids, lead))
<1>1. CASE lead = None
  BY <1>1, GoodOfItself DEF InsightPin
<1>2. CASE lead # None
  <2> DEFINE p == PinTip(u, row)
             sub == [row |-> row, ids |-> ids]
             a == [p EXCEPT !.sub = sub]
             b == [a EXCEPT !.insight = lead]
             r == RectIfFocused(b)
             s == Show(r, PeersOf(u.peers, lead))
             v == Focus(s, lead)
  <2>1. row \in StrictRows /\ row \in RowSet /\ row.k \notin CategoryKinds
    BY <1>2 DEF StrictRows
  <2>2. p \in Ui /\ Same(u, p, {"tip", "subsub", "legend"}) /\ Pinned(p) /\ p.tip.row = row
    BY <2>1, PinTipTyped, PinTipPins
  <2>3. InsightPin(u, row, ids, lead) = v
    <3>1. [p EXCEPT !.sub = sub, !.insight = lead] = b
      BY <2>2 DEF Ui
    <3>2. InsightPin(u, row, ids, lead)
            = Focus(Show(RectIfFocused([p EXCEPT !.sub = sub, !.insight = lead]),
                         PeersOf(u.peers, lead)), lead)
      BY <1>2 DEF InsightPin
    <3> HIDE DEF p, b, sub
    <3>3. QED
      BY <3>1, <3>2
  <2> HIDE DEF p
  <2>4. a \in Ui /\ Same(p, a, {"sub"}) /\ a.sub = sub
    BY <2>1, <2>2, SubTyped
  <2>5. sub.row = row
    OBVIOUS
  <2> HIDE DEF a, sub
  <2>6. b \in Ui
    BY <2>4, SetUi
  <2>7. Same(a, b, {"insight"})
    BY <2>4 DEF Ui, Same, Names
  <2> HIDE DEF b
  <2>8. r \in Ui /\ Same(b, r, {"rect"})
    BY <2>6, FieldsTyped
  <2> HIDE DEF r
  <2>9. PeersOf(u.peers, lead) \in SUBSET Peers
    BY UiFields, PeerSets
  <2>10. s \in Ui /\ Same(r, s, {"filter", "lines"})
    BY <2>8, <2>9, ShowTyped
  <2> HIDE DEF s
  <2>11. v \in Ui /\ Same(s, v, {"legend"})
    <3>1. lead \in AsOrOthers \cup {None}
      BY DEF AsOrOthers
    <3>2. QED
      BY <2>10, <3>1, FieldsTyped
  <2> HIDE DEF v
  <2>12. Same(u, v, Hangings)
    BY <2>2, <2>4, <2>7, <2>8, <2>10, <2>11 DEF Same, Hangings, Outward
  <2>13. v.tip = p.tip /\ v.sub = sub
    BY <2>4, <2>7, <2>8, <2>10, <2>11 DEF Same, Names
  <2>14. Pinned(v)
    BY <2>2, <2>13 DEF Pinned
  <2>15. Good(u, v)
    BY <2>1, <2>2, <2>5, <2>11, <2>12, <2>13, <2>14, PinnedGood
  <2>16. QED
    BY <2>3, <2>15
<1>3. QED
  BY <1>1, <1>2

LEMMA InsightClicksGood ==
  ASSUME NoneIsNoTip, AsDataAssumption, NEW u \in Ui, NEW row \in StrictRows, Selected(u)
  PROVE  /\ row.k \in Ranking => Good(u, RankingClick(u, row))
         /\ row.k = "insight-stable" => Good(u, StableClick(u, row))
<1> DEFINE m == MakeRoom(u)
           lead == Leader(m.peers, row.k)
           stable == Row(row.k, lead)
           ids == PeersOf(m.peers, lead)
<1>1. m \in Ui /\ Good(u, m) /\ Selected(m)
  BY RoomGood DEF Good
<1>2. /\ RankingClick(u, row) = IF IsOwnRow(m, row) THEN ToggleInsightOff(m)
                                ELSE InsightPin(m, row, {}, lead)
      /\ StableClick(u, row) = ToggleInsightOff(m)
           \/ StableClick(u, row) = InsightPin(m, stable, ids, lead)
  BY DEF RankingClick, StableClick
<1> HIDE DEF m
<1>3. lead \in Systems \cup {None} /\ ids \in SUBSET Peers
  BY <1>1, UiFields, PeerSets, LeaderLeads
<1>4. row.k = "insight-stable" /\ lead # None =>
        stable \in StrictRows /\ stable.k \notin CategoryKinds
  BY <1>3 DEF StrictRows, RowSet, Row, AsOrOthers, CategoryKinds
<1> HIDE DEF lead, stable, ids
<1>5. ASSUME row.k \in Ranking PROVE Good(m, RankingClick(u, row))
  <2>1. row.k \notin CategoryKinds
    BY <1>5 DEF Ranking, CategoryKinds
  <2>2. Good(m, InsightPin(m, row, {}, lead))
    BY <1>1, <1>3, <2>1, InsightPinGood
  <2>3. QED
    BY <1>1, <1>2, <2>2, OffGood
<1>6. ASSUME row.k = "insight-stable" PROVE Good(m, StableClick(u, row))
  <2>1. Good(m, InsightPin(m, stable, ids, lead))
    BY <1>1, <1>3, <1>4, <1>6, InsightPinGood
  <2>2. QED
    BY <1>1, <1>2, <2>1, OffGood
<1>7. QED
  BY <1>1, <1>5, <1>6, GoodOfGood

LEMMA NavigateGood ==
  ASSUME NoneIsNoTip, NEW u \in Ui, NEW a \in AsOrOthers
  PROVE  Good(u, NavigateToProvider(u, a))
<1> DEFINE v == NavigateToProvider(u, a)
<1>1. v \in Ui /\ Kin(u, v) /\ ~v.detail /\ v.sel # None
  BY NavigateTyped, AsDataAssumption DEF AsOrOthers
<1> HIDE DEF v
<1>2. Good(u, v)
  BY <1>1, KinGood
<1>3. QED
  BY <1>2 DEF v

LEMMA RowClickGood ==
  ASSUME NoneIsNoTip, AsDataAssumption, NEW u \in Ui, Agree(u), NEW row \in Rows(u)
  PROVE  Good(u, RowClick(u, row))
<1>1. row \in StrictRows /\ Selected(u)
  BY RowsTyped, RowSelected DEF Selected
<1>2. row.k \in AllKinds
  BY <1>1 DEF StrictRows, RowSet
<1>3. \/ row.k \in CategoryKinds /\ RowClick(u, row) = CategoryClick(u, row)
      \/ RowClick(u, row) = ProviderTotalClick(u, row)
      \/ RowClick(u, row) = DirectionClick(u, row)
      \/ RowClick(u, row) = OthersRowClick(u, row)
      \/ row.k = "all-providers" /\ RowClick(u, row) = AllProvidersClick(u, row)
      \/ row.k \in Ranking /\ RowClick(u, row) = RankingClick(u, row)
      \/ row.k = "insight-stable" /\ RowClick(u, row) = StableClick(u, row)
      \/ row.k = "nav" /\ RowClick(u, row) = NavigateToProvider(u, row.v)
      \/ row.k \in {"conntype", "provider"} /\ RowClick(u, row) = ProviderRowClick(u, row)
  BY <1>2 DEF RowClick, AllKinds, CategoryKinds, Insights, Ranking
<1>4. row.k = "nav" => row.v \in AsOrOthers
  BY <1>1 DEF StrictRows, AsOrOthers
<1>5. row.k \in {"all-providers", "conntype", "provider"} => row.k \notin CategoryKinds
  BY DEF CategoryKinds
<1>6. QED
  BY <1>1, <1>3, <1>4, <1>5, CategoryGood, ProviderRowsGood, InsightClicksGood, NavigateGood

-----------------------------------------------------------------------------
(***************************************************************************)
(* The pointer.                                                            *)
(***************************************************************************)
LEMMA OverTyped ==
  ASSUME NEW u \in Ui, NEW o \in Overs
  PROVE  [u EXCEPT !.over = o] \in Ui /\ Same(u, [u EXCEPT !.over = o], {"over"})
<1>1. [u EXCEPT !.over = o] \in Ui
  BY SetUi
<1>2. Same(u, [u EXCEPT !.over = o], {"over"})
  BY DEF Ui, Same, Names
<1>3. QED
  BY <1>1, <1>2

\* A tooltip that is not pinned goes, and nothing else.
LEMMA HideGood ==
  ASSUME NEW u \in Ui, NEW v \in Ui, Same(u, v, Outward \cup {"tip", "subsub"}),
         v.tip = None, v.subsub = None, ~Pinned(u)
  PROVE  Good(u, v)
<1>1. /\ v.sel = u.sel /\ v.summary = u.summary /\ v.focused = u.focused /\ v.net = u.net
      /\ v.detail = u.detail /\ v.insight = u.insight /\ v.sub = u.sub
  BY DEF Same, Names, Outward
<1>2. Kin(u, v) /\ Steady(u, v)
  BY <1>1 DEF Kin, Steady
<1>3. QED
  BY <1>2, SteadyGood

LEMMA FloatsGood ==
  ASSUME AsDataAssumption, NEW u \in Ui, Selected(u), ~Pinned(u), NEW row \in StrictRows,
         NEW v \in Ui, Same(FloatTip(u, row), v, {"filter", "lines", "legend", "rect", "over"})
  PROVE  Good(u, v)
<1> DEFINE f == FloatTip(u, row)
<1>1. f \in Ui /\ Same(u, f, {"tip", "subsub", "legend"}) /\ ~Pinned(f)
  BY PinTipTyped
<1>2. Same(f, v, {"filter", "lines", "legend", "rect", "over"})
  OBVIOUS
<1> HIDE DEF f
<1>3. v.tip = f.tip /\ v.sub = u.sub /\ v.insight = u.insight
  BY <1>1, <1>2 DEF Same, Names
<1>4. Same(u, v, Hangings)
  BY <1>1, <1>2 DEF Same, Hangings, Outward
<1>5. ~Pinned(v)
  BY <1>1, <1>3 DEF Pinned
<1>6. QED
  BY <1>3, <1>4, <1>5, FloatingGood

LEMMA InsightPreviewGood ==
  ASSUME AsDataAssumption, NEW u \in Ui, Selected(u), ~Pinned(u), NEW row \in StrictRows
  PROVE  /\ Good(u, RankingPreview(u, row))
         /\ row.k = "insight-stable" => Good(u, StablePreview(u, row))
<1> DEFINE lead == Leader(u.peers, row.k)
           of == PeersOf(u.peers, row.v)
           f == FloatTip(u, row)
           shown == {"filter", "lines", "legend", "rect", "over"}
<1>1. lead \in AsOrOthers \cup {None} /\ PeersOf(u.peers, lead) \in SUBSET Peers
      /\ of \in SUBSET Peers
  BY UiFields, LeaderLeads, PeerSets DEF AsOrOthers
<1>2. f \in Ui
  BY PinTipTyped
<1>3. ASSUME NEW w \in Ui, Same(f, w, shown) PROVE Good(u, w)
  BY <1>3, FloatsGood
<1> HIDE DEF lead, of, f
<1>4. Good(u, RankingPreview(u, row))
  <2> DEFINE s == Show(f, PeersOf(u.peers, lead))
             v == RectIfFocused(s)
             w == Focus(v, lead)
  <2>1. RankingPreview(u, row) = IF lead = None THEN u ELSE w
    BY DEF RankingPreview, lead, f
  <2>2. s \in Ui /\ Same(f, s, {"filter", "lines"})
    BY <1>1, <1>2, ShowTyped
  <2> HIDE DEF s
  <2>3. v \in Ui /\ Same(s, v, {"rect"})
    BY <2>2, FieldsTyped
  <2> HIDE DEF v
  <2>4. w \in Ui /\ Same(v, w, {"legend"})
    BY <1>1, <2>3, FieldsTyped
  <2> HIDE DEF w
  <2>5. Same(f, w, shown)
    BY <2>2, <2>3, <2>4 DEF Same
  <2>6. QED
    BY <1>3, <2>1, <2>4, <2>5, GoodOfItself
<1>5. ASSUME row.k = "insight-stable" PROVE Good(u, StablePreview(u, row))
  <2>1. StablePreview(u, row) =
          LET w == IF lead = None THEN Focus(u, row.v) ELSE RectIfFocused(f)
          IN  IF of = {} THEN Filter(w, of) ELSE Draw(Filter(w, of), of)
    BY DEF StablePreview, lead, of, f
  <2>2. ASSUME NEW w \in Ui
        PROVE  LET v == IF of = {} THEN Filter(w, of) ELSE Draw(Filter(w, of), of) IN
               v \in Ui /\ Same(w, v, {"filter", "lines"})
    <3>1. Filter(w, of) \in Ui /\ Same(w, Filter(w, of), {"filter"})
      BY <1>1, DrawTyped
    <3>2. Show(w, of) \in Ui /\ Same(w, Show(w, of), {"filter", "lines"})
      BY <1>1, ShowTyped
    <3>3. QED
      BY <3>1, <3>2 DEF Show, Same
  <2>3. CASE lead = None
    <3> DEFINE w == Focus(u, row.v)
               v == IF of = {} THEN Filter(w, of) ELSE Draw(Filter(w, of), of)
    <3>1. row.v \in AsOrOthers \cup {None}
      BY <1>5 DEF StrictRows, AsOrOthers
    <3>2. w \in Ui /\ Same(u, w, {"legend"})
      BY <3>1, FieldsTyped
    <3> HIDE DEF w
    <3>3. v \in Ui /\ Same(w, v, {"filter", "lines"})
      BY <2>2, <3>2
    <3>4. StablePreview(u, row) = v
      BY <2>1, <2>3 DEF w
    <3> HIDE DEF v
    <3>5. Same(u, v, Outward)
      BY <3>2, <3>3 DEF Same, Outward
    <3>6. QED
      BY <3>3, <3>4, <3>5, OutwardGood
  <2>4. CASE lead # None
    <3> DEFINE w == RectIfFocused(f)
               v == IF of = {} THEN Filter(w, of) ELSE Draw(Filter(w, of), of)
    <3>1. w \in Ui /\ Same(f, w, {"rect"})
      BY <1>2, FieldsTyped
    <3> HIDE DEF w
    <3>2. v \in Ui /\ Same(w, v, {"filter", "lines"})
      BY <2>2, <3>1
    <3>3. StablePreview(u, row) = v
      BY <2>1, <2>4 DEF w
    <3> HIDE DEF v
    <3>4. Same(f, v, shown)
      BY <3>1, <3>2 DEF Same
    <3>5. QED
      BY <1>3, <3>2, <3>3, <3>4
  <2>5. QED
    BY <2>3, <2>4
<1>6. QED
  BY <1>4, <1>5

LEMMA RowEnterGood ==
  ASSUME AsDataAssumption, NEW u \in Ui, Agree(u), NEW row \in Rows(u)
  PROVE  Good(u, RowEnter(u, row))
<1> DEFINE o == <<"row", row>>
           v == [u EXCEPT !.over = o]
           f == FloatTip(v, row)
           ids == RowIds(v, row)
           n == Focus(v, row.v)
<1>1. row \in StrictRows /\ row \in RowSet
  BY RowsTyped DEF StrictRows
<1>2. Selected(u)
  BY RowSelected DEF Selected
<1>3. row.k \in AllKinds
  BY <1>1 DEF RowSet
<1>4. o \in Overs
  BY <1>1 DEF Overs
<1>5. RowEnter(u, row) = IF Pinned(u) \/ u.detail THEN v
        ELSE CASE row.k \in CategoryKinds \cup {"conn-others"} -> PreviewSummaryLines(f, ids)
               [] row.k \in {"conn-provider", "conn-out", "conn-in"} -> Show(f, ids)
               [] row.k \in {"conntype", "provider"} -> PreviewProviderLines(f, ids)
               [] row.k = "nav"           -> Show(n, PeersOf(v.peers, row.v))
               [] row.k \in Ranking       -> RankingPreview(v, row)
               [] row.k = "insight-stable" -> StablePreview(v, row)
               [] row.k = "all-providers" -> v
  BY DEF RowEnter
<1> HIDE DEF o
<1>6. v \in Ui /\ Same(u, v, {"over"})
  BY <1>4, OverTyped
<1> HIDE DEF v
<1>7. Good(u, v)
  <2>1. Same(u, v, Outward)
    BY <1>6 DEF Same, Outward
  <2>2. QED
    BY <1>6, <2>1, OutwardGood
<1>8. v.tip = u.tip /\ v.sel = u.sel /\ v.summary = u.summary /\ v.net = u.net
  BY <1>6 DEF Same, Names
<1>9. Selected(v) /\ (~Pinned(u) => ~Pinned(v))
  BY <1>2, <1>8 DEF Selected, Pinned
<1>10. ids \in SUBSET Peers
  BY <1>1, <1>6, RowIdsTyped
<1>11. f \in Ui
  BY <1>1, <1>6, PinTipTyped
<1>12. ASSUME ~Pinned(u)
       PROVE  Good(v, PreviewSummaryLines(f, ids)) /\ Good(v, Show(f, ids))
              /\ Good(v, PreviewProviderLines(f, ids))
  <2>1. ASSUME NEW w \in Ui, Same(f, w, {"filter", "lines"})
        PROVE  Good(v, w)
    <3>1. Same(f, w, {"filter", "lines", "legend", "rect", "over"})
      BY <2>1 DEF Same
    <3>2. QED
      BY <1>1, <1>6, <1>9, <1>12, <3>1, FloatsGood
  <2> HIDE DEF f
  <2>2. QED
    BY <1>10, <1>11, <2>1, ShowTyped, LinesTyped
<1>13. ASSUME row.k = "nav" PROVE Good(v, Show(n, PeersOf(v.peers, row.v)))
  <2>1. row.v \in AsOrOthers \cup {None}
    BY <1>1, <1>13 DEF StrictRows, AsOrOthers
  <2>2. n \in Ui /\ Same(v, n, {"legend"})
    BY <1>6, <2>1, FieldsTyped
  <2>3. PeersOf(v.peers, row.v) \in SUBSET Peers
    BY <1>6, UiFields, PeerSets
  <2> HIDE DEF n
  <2> DEFINE s == Show(n, PeersOf(v.peers, row.v))
  <2>4. s \in Ui /\ Same(n, s, {"filter", "lines"})
    BY <2>2, <2>3, ShowTyped
  <2> HIDE DEF s
  <2>5. Same(v, s, Outward)
    BY <2>2, <2>4 DEF Same, Outward
  <2>6. Good(v, s)
    BY <1>6, <2>4, <2>5, OutwardGood
  <2>7. QED
    BY <2>6 DEF s
<1>14. ASSUME ~Pinned(u)
       PROVE  /\ Good(v, RankingPreview(v, row))
              /\ row.k = "insight-stable" => Good(v, StablePreview(v, row))
  BY <1>1, <1>6, <1>9, <1>14, InsightPreviewGood
<1> HIDE DEF f, ids, n
<1>15. Good(v, v)
  BY <1>6, GoodOfItself
<1>16. CASE Pinned(u) \/ u.detail
  BY <1>5, <1>7, <1>16
<1>17. CASE ~(Pinned(u) \/ u.detail)
  <2>1. \/ RowEnter(u, row) = PreviewSummaryLines(f, ids) \/ RowEnter(u, row) = Show(f, ids)
        \/ RowEnter(u, row) = PreviewProviderLines(f, ids)
        \/ row.k = "nav" /\ RowEnter(u, row) = Show(n, PeersOf(v.peers, row.v))
        \/ RowEnter(u, row) = RankingPreview(v, row)
        \/ row.k = "insight-stable" /\ RowEnter(u, row) = StablePreview(v, row)
        \/ RowEnter(u, row) = v
    BY <1>3, <1>5, <1>17 DEF AllKinds, CategoryKinds, Insights, Ranking
  <2>2. Good(v, RowEnter(u, row))
    BY <1>12, <1>13, <1>14, <1>15, <1>17, <2>1
  <2>3. QED
    BY <1>7, <2>2, GoodOfGood
<1>18. QED
  BY <1>16, <1>17

LEMMA RowLeaveGood ==
  ASSUME AsDataAssumption, NEW u \in Ui, NEW row
  PROVE  Good(u, RowLeave(u, row))
<1> DEFINE v == [u EXCEPT !.over = None]
           h == HideSubTooltip(v)
           r == [h EXCEPT !.rect = FALSE]
           c == ClearLegendFocus(v)
<1>1. RowLeave(u, row) =
        IF Pinned(u) \/ u.detail \/ row.k = "all-providers" THEN v
        ELSE IF row.k \in {"conntype", "provider"} THEN RestoreProviderFromPreview(h)
        ELSE IF row.k \in Insights THEN RestoreSummaryFromPreview(r)
        ELSE IF row.k = "nav" THEN RestoreSummaryFromPreview(c)
        ELSE RestoreSummaryFromPreview(h)
  BY DEF RowLeave
<1>2. v \in Ui /\ Same(u, v, {"over"})
  BY OverTyped, SetUi
<1> HIDE DEF v
<1>3. h \in Ui /\ Same(v, h, {"tip", "subsub", "legend"}) /\ h.tip = None /\ h.subsub = None
      /\ c \in Ui /\ Same(v, c, {"legend"})
  BY <1>2, TipTyped
<1> HIDE DEF h, c
<1>4. r \in Ui
  BY <1>3, SetUi
<1>5. Same(h, r, {"rect"})
  BY <1>3 DEF Ui, Same, Names
<1> HIDE DEF r
<1>6. \A w \in Ui : /\ RestoreSummaryFromPreview(w) \in Ui /\ RestoreProviderFromPreview(w) \in Ui
                    /\ Same(w, RestoreSummaryFromPreview(w), {"filter", "lines", "legend"})
                    /\ Same(w, RestoreProviderFromPreview(w), {"filter", "lines", "legend"})
  BY RestoreTyped DEF Same
<1>7. \A w : Same(h, w, {"filter", "lines", "legend"}) \/ Same(r, w, {"filter", "lines", "legend"}) =>
        /\ Same(u, w, Outward \cup {"tip", "subsub"}) /\ w.tip = None /\ w.subsub = None
  BY <1>2, <1>3, <1>5 DEF Same, Outward, Names
<1>8. \A w : Same(c, w, {"filter", "lines", "legend"}) => Same(u, w, Outward)
  BY <1>2, <1>3 DEF Same, Outward
<1>9. Same(u, v, Outward)
  BY <1>2 DEF Same, Outward
<1>10. ~Pinned(u) => /\ Good(u, RestoreProviderFromPreview(h))
                     /\ Good(u, RestoreSummaryFromPreview(h))
                     /\ Good(u, RestoreSummaryFromPreview(r))
  BY <1>3, <1>4, <1>6, <1>7, HideGood
<1>11. Good(u, RestoreSummaryFromPreview(c)) /\ Good(u, v)
  BY <1>2, <1>3, <1>6, <1>8, <1>9, OutwardGood
<1>12. QED
  BY <1>1, <1>10, <1>11

-----------------------------------------------------------------------------
(***************************************************************************)
(* Inside the tooltips.                                                    *)
(***************************************************************************)
LEMMA TipListsTyped ==
  ASSUME AsDataAssumption, NEW u \in Ui
  PROVE  /\ TipProviders(u) \subseteq Systems /\ TipPeers(u) \subseteq Peers
         /\ TipLinks(u) \subseteq AsOrOthers
<1>1. u.tip # None => u.tip.ids \in SUBSET Peers /\ u.tip.row \in StrictRows
  BY UiFields DEF Tips
<1>2. u.subsub # None => u.subsub.ids \in SUBSET Peers
  BY UiFields DEF SubsubSet
<1>3. TipProviders(u) \subseteq Systems
  BY <1>1 DEF TipProviders, Pinned, AsDataAssumption
<1>4. TipPeers(u) \subseteq Peers
  BY <1>1, <1>2 DEF TipPeers, Pinned
<1>5. TipLinks(u) \subseteq AsOrOthers
  <2>1. CASE ~Pinned(u) \/ u.tip.row.k \notin NavTips
    BY <2>1 DEF TipLinks
  <2>2. CASE Pinned(u) /\ u.tip.row.k \in NavTips /\ u.tip.row.k \in ProviderTips
    BY <1>3, <2>2 DEF TipLinks, AsOrOthers
  <2>3. CASE Pinned(u) /\ u.tip.row.k \in NavTips /\ u.tip.row.k \notin ProviderTips
    <3>1. u.tip.row.k \in {"conn-provider", "insight-stable"}
      BY <2>3 DEF NavTips, ProviderTips
    <3>2. u.tip.row.v \in Systems
      BY <1>1, <2>3, <3>1 DEF Pinned, StrictRows
    <3>3. QED
      BY <2>3, <3>1, <3>2 DEF TipLinks, AsOrOthers
  <2>4. QED
    BY <2>1, <2>2, <2>3
<1>6. QED
  BY <1>3, <1>4, <1>5

\* The rectangle of a ranking moves to another provider.
LEMMA InsightMovesGood ==
  ASSUME NEW u \in Ui, NEW v \in Ui, Same(u, v, Outward \cup {"insight", "subsub"}),
         v.insight = u.insight \/ (Pinned(u) /\ u.tip.row.k \in Ranking)
  PROVE  Good(u, v)
<1>1. /\ v.sel = u.sel /\ v.summary = u.summary /\ v.focused = u.focused /\ v.net = u.net
      /\ v.detail = u.detail /\ v.tip = u.tip /\ v.sub = u.sub
  BY DEF Same, Names, Outward
<1>2. ASSUME Kept(u) PROVE Kept(v)
  <2>1. ASSUME v.sub # None, v.sub.row.k \in CategoryKinds
        PROVE  v.insight = None
    <3>1. u.tip.row.k \in Ranking => u.tip.row.k \notin CategoryKinds
      BY DEF Ranking, CategoryKinds
    <3>2. ~(Pinned(u) /\ u.tip.row.k \in Ranking)
      BY <1>1, <1>2, <2>1, <3>1 DEF Kept
    <3>3. QED
      BY <1>1, <1>2, <2>1, <3>2 DEF Kept
  <2>2. QED
    BY <1>1, <1>2, <2>1 DEF Kept, Pinned
<1>3. Clean(u) => Clean(v)
  BY <1>1 DEF Clean, Pinned
<1>4. QED
  BY <1>2, <1>3 DEF Good

LEMMA ProviderPointGood ==
  ASSUME AsDataAssumption, NEW u \in Ui
  PROVE  /\ \A a \in TipProviders(u) : Good(u, ProviderEnter(u, a))
         /\ Good(u, ProviderLeave(u))
<1>1. ASSUME NEW a \in TipProviders(u)
      PROVE  Good(u, ProviderEnter(u, a))
  <2> DEFINE o == <<"prov", a>>
             v == [u EXCEPT !.over = o]
             f == Focus(v, a)
             w == Show(f, GroupPeers(u.tip.ids, a))
             x == [w EXCEPT !.insight = a]
  <2>1. Pinned(u) /\ a \in Systems
    BY TipListsTyped DEF TipProviders
  <2>2. u.tip.ids \in SUBSET Peers
    BY <2>1, UiFields DEF Tips, Pinned
  <2>3. GroupPeers(u.tip.ids, a) \in SUBSET Peers
    BY <2>2, PeerSets
  <2>4. o \in Overs
    BY <2>1 DEF Overs
  <2>5. ProviderEnter(u, a) = IF u.detail \/ u.subsub # None THEN v
                              ELSE IF RankingRect(u) THEN x ELSE w
    BY DEF ProviderEnter
  <2> HIDE DEF o
  <2>6. v \in Ui /\ Same(u, v, {"over"})
    BY <2>4, OverTyped
  <2> HIDE DEF v
  <2>7. f \in Ui /\ Same(v, f, {"legend"})
    BY <2>1, <2>6, FieldsTyped DEF AsOrOthers
  <2> HIDE DEF f
  <2>8. w \in Ui /\ Same(f, w, {"filter", "lines"})
    BY <2>3, <2>7, ShowTyped
  <2> HIDE DEF w
  <2>9. x \in Ui
    BY <2>1, <2>8, SetUi
  <2>10. Same(w, x, {"insight"})
    BY <2>8 DEF Ui, Same, Names
  <2> HIDE DEF x
  <2>11. /\ Same(u, v, Outward) /\ Same(u, w, Outward)
         /\ Same(u, x, Outward \cup {"insight", "subsub"})
    BY <2>6, <2>7, <2>8, <2>10 DEF Same, Outward
  <2>12. Good(u, v) /\ Good(u, w)
    BY <2>6, <2>8, <2>11, OutwardGood
  <2>13. RankingRect(u) => Good(u, x)
    BY <2>9, <2>11, InsightMovesGood DEF RankingRect
  <2>14. QED
    BY <2>5, <2>12, <2>13
<1>2. Good(u, ProviderLeave(u))
  <2> DEFINE v == [u EXCEPT !.over = None]
             c == ClearLegendFocus(v)
  <2>1. v \in Ui /\ Same(u, v, {"over"})
    BY OverTyped, SetUi
  <2>2. \/ ProviderLeave(u) = v \/ ProviderLeave(u) = RestoreSummaryFromPreview(v)
        \/ ProviderLeave(u) = RestoreSummaryFromPreview(c)
    BY DEF ProviderLeave
  <2> HIDE DEF v
  <2>3. c \in Ui /\ Same(v, c, {"legend"})
    BY <2>1, TipTyped
  <2> HIDE DEF c
  <2>4. \A w \in Ui : /\ RestoreSummaryFromPreview(w) \in Ui
                      /\ Same(w, RestoreSummaryFromPreview(w), {"filter", "lines", "legend"})
    BY RestoreTyped
  <2>5. /\ Same(u, v, Outward) /\ Same(u, RestoreSummaryFromPreview(v), Outward)
        /\ Same(u, RestoreSummaryFromPreview(c), Outward)
    BY <2>1, <2>3, <2>4 DEF Same, Outward
  <2>6. QED
    BY <2>1, <2>2, <2>3, <2>4, <2>5, OutwardGood
<1>3. QED
  BY <1>1, <1>2

LEMMA ProviderClickGood ==
  ASSUME AsDataAssumption, NEW u \in Ui, NEW a \in TipProviders(u)
  PROVE  Good(u, ProviderClick(u, a))
<1> DEFINE ids == GroupPeers(u.tip.ids, a)
           s == [as |-> a, ids |-> ids]
           f == Focus(u, a)
           x == [f EXCEPT !.subsub = s]
           v == Show(x, ids)
           w == [v EXCEPT !.insight = a]
<1>1. Pinned(u) /\ a \in Systems
  BY TipListsTyped DEF TipProviders
<1>2. u.tip.ids \in SUBSET Peers
  BY <1>1, UiFields DEF Tips, Pinned
<1>3. ids \in SUBSET Peers
  BY <1>2, PeerSets
<1>4. s \in SubsubSet
  BY <1>1, <1>3 DEF SubsubSet
<1>5. ProviderClick(u, a) = IF RankingRect(u) THEN w ELSE v
  BY DEF ProviderClick
<1> HIDE DEF s, ids
<1>6. f \in Ui /\ Same(u, f, {"legend"})
  BY <1>1, FieldsTyped DEF AsOrOthers
<1> HIDE DEF f
<1>7. x \in Ui
  BY <1>4, <1>6, SetUi
<1>8. Same(f, x, {"subsub"})
  BY <1>6 DEF Ui, Same, Names
<1> HIDE DEF x
<1>9. v \in Ui /\ Same(x, v, {"filter", "lines"})
  BY <1>3, <1>7, ShowTyped
<1> HIDE DEF v
<1>10. w \in Ui
  BY <1>1, <1>9, SetUi
<1>11. Same(v, w, {"insight"})
  BY <1>9 DEF Ui, Same, Names
<1> HIDE DEF w
<1>12. /\ Same(u, v, Outward \cup {"insight", "subsub"})
       /\ Same(u, w, Outward \cup {"insight", "subsub"})
  BY <1>6, <1>8, <1>9, <1>11 DEF Same, Outward
<1>13. v.insight = u.insight
  BY <1>6, <1>8, <1>9 DEF Same, Names
<1>14. Good(u, v)
  BY <1>9, <1>12, <1>13, InsightMovesGood
<1>15. RankingRect(u) => Good(u, w)
  BY <1>10, <1>12, InsightMovesGood DEF RankingRect
<1>16. QED
  BY <1>5, <1>14, <1>15

LEMMA ProviderLinkGood ==
  ASSUME NoneIsNoTip, AsDataAssumption, NEW u \in Ui, NEW a \in AsOrOthers
  PROVE  Good(u, ProviderLink(u, a))
<1> DEFINE h == HideSubTooltip(u)
           v == NavigateToProvider(h, a)
<1>1. h \in Ui /\ Same(u, h, {"tip", "subsub", "legend"})
  BY TipTyped
<1> HIDE DEF h
<1>2. v \in Ui /\ Kin(h, v) /\ Bare(v) /\ ~v.detail /\ v.sel # None
  BY <1>1, NavigateTyped, AsDataAssumption DEF AsOrOthers
<1>3. ProviderLink(u, a) = v
  BY DEF ProviderLink, h
<1> HIDE DEF v
<1>4. h.insight = u.insight
  BY <1>1 DEF Same, Names
<1>5. Kin(u, v)
  BY <1>2, <1>4, BareKin DEF Kin
<1>6. Good(u, v)
  BY <1>2, <1>5, KinGood
<1>7. QED
  BY <1>3, <1>6

LEMMA PeerPointGood ==
  ASSUME AsDataAssumption, NEW u \in Ui
  PROVE  /\ \A p \in Peers : Good(u, PeerEnter(u, p))
         /\ Good(u, PeerLeave(u))
<1>1. ASSUME NEW o \in Overs, NEW p \in Peers \cup {None}
      PROVE  LET v == [u EXCEPT !.over = o, !.hovered = p] IN
             v \in Ui /\ Same(u, v, {"over", "hovered"})
  <2> DEFINE v == [u EXCEPT !.over = o, !.hovered = p]
  <2>1. v \in Ui
    BY SetUi
  <2>2. Same(u, v, {"over", "hovered"})
    BY DEF Ui, Same, Names
  <2>3. QED
    BY <2>1, <2>2
<1>2. ASSUME NEW v \in Ui, Same(u, v, {"over", "hovered"}), NEW w \in Ui,
             Same(v, w, {"filter", "lines", "legend"})
      PROVE  Good(u, w)
  <2>1. Same(u, w, Outward)
    BY <1>2 DEF Same, Outward
  <2>2. QED
    BY <1>2, <2>1, OutwardGood
<1>3. ASSUME NEW p \in Peers
      PROVE  Good(u, PeerEnter(u, p))
  <2> DEFINE o == <<"peer", p>>
             v == [u EXCEPT !.over = o, !.hovered = p]
  <2>1. \/ PeerEnter(u, p) = v \/ PeerEnter(u, p) = PreviewSummaryLines(v, {p})
        \/ PeerEnter(u, p) = PreviewProviderLines(v, {p})
    BY DEF PeerEnter
  <2>2. o \in Overs
    BY DEF Overs
  <2> HIDE DEF o
  <2>3. v \in Ui /\ Same(u, v, {"over", "hovered"})
    BY <1>1, <2>2
  <2> HIDE DEF v
  <2>4. {p} \in SUBSET Peers
    OBVIOUS
  <2>5. /\ PreviewSummaryLines(v, {p}) \in Ui /\ PreviewProviderLines(v, {p}) \in Ui
        /\ Same(v, PreviewSummaryLines(v, {p}), {"filter", "lines", "legend"})
        /\ Same(v, PreviewProviderLines(v, {p}), {"filter", "lines", "legend"})
        /\ Same(v, v, {"filter", "lines", "legend"})
    BY <2>3, <2>4, LinesTyped DEF Same
  <2>6. QED
    BY <1>2, <2>1, <2>3, <2>5
<1>4. Good(u, PeerLeave(u))
  <2> DEFINE v == [u EXCEPT !.over = None, !.hovered = None]
  <2>1. \/ PeerLeave(u) = v
        \/ Truthy(v.selPeer) /\ PeerLeave(u) = Filter(v, {v.selPeer})
        \/ Truthy(v.selPeer) /\ PeerLeave(u) = Show(v, {v.selPeer})
        \/ PeerLeave(u) = RestoreSummaryFromPreview(v)
        \/ PeerLeave(u) = RestoreProviderFromPreview(v)
    BY DEF PeerLeave
  <2>2. v \in Ui /\ Same(u, v, {"over", "hovered"})
    BY <1>1, SetUi
  <2> HIDE DEF v
  <2>3. Truthy(v.selPeer) => {v.selPeer} \in SUBSET Peers
    BY <2>2, UiFields DEF Truthy
  <2>4. Truthy(v.selPeer) =>
          /\ Filter(v, {v.selPeer}) \in Ui /\ Show(v, {v.selPeer}) \in Ui
          /\ Same(v, Filter(v, {v.selPeer}), {"filter", "lines", "legend"})
          /\ Same(v, Show(v, {v.selPeer}), {"filter", "lines", "legend"})
    BY <2>2, <2>3, ShowTyped, DrawTyped DEF Same
  <2>5. /\ RestoreSummaryFromPreview(v) \in Ui /\ RestoreProviderFromPreview(v) \in Ui
        /\ Same(v, RestoreSummaryFromPreview(v), {"filter", "lines", "legend"})
        /\ Same(v, RestoreProviderFromPreview(v), {"filter", "lines", "legend"})
        /\ Same(v, v, {"filter", "lines", "legend"})
    BY <2>2, RestoreTyped DEF Same
  <2>6. QED
    BY <1>2, <2>1, <2>2, <2>4, <2>5
<1>5. QED
  BY <1>3, <1>4

LEMMA OpenPeerGood ==
  ASSUME NoneIsNoTip, NEW u \in Ui, Agree(u), NEW p \in Peers
  PROVE  Good(u, OpenPeerDetailPanel(u, p))
<1> DEFINE v == OpenPeerDetailPanel(u, p)
<1>1. ~(u.sel # None /\ u.summary) /\ (u.sel # None \/ u.summary => u.focused)
  BY DEF Agree, Views
<1>2. /\ v \in Ui /\ Kin(u, v) /\ v.focused
      /\ \/ /\ v.sel = u.sel /\ v.summary = u.summary /\ v.net = u.net
            /\ u.focused \/ u.sel # None \/ u.summary
         \/ v.sel = None /\ v.summary /\ v.net \in {u.net, None}
  BY <1>1, OpenPeerTyped
<1> HIDE DEF v
<1>3. CASE v.sel = u.sel /\ v.summary = u.summary /\ v.net = u.net
           /\ (u.focused \/ u.sel # None \/ u.summary)
  <2>1. v.focused = u.focused
    BY <1>1, <1>2, <1>3, UiFields
  <2>2. Good(u, v)
    BY <1>1, <1>2, <1>3, <2>1, UnmovedGood
  <2>3. QED
    BY <2>2 DEF v
<1>4. CASE v.sel = None /\ v.summary /\ v.net \in {u.net, None}
  <2>1. Good(u, v)
    BY <1>2, <1>4, KinGood
  <2>2. QED
    BY <2>1 DEF v
<1>5. QED
  BY <1>2, <1>3, <1>4

-----------------------------------------------------------------------------
(***************************************************************************)
(* The donut, its title and the list of Others.                            *)
(***************************************************************************)
LEMMA AllShownTyped ==
  ASSUME NEW u \in Ui
  PROVE  LET v == Filter(Draw(u, {}), None) IN v \in Ui /\ Same(u, v, {"filter", "lines"})
<1>1. Draw(u, {}) \in Ui /\ Same(u, Draw(u, {}), {"lines"})
  BY DrawTyped
<1>2. QED
  BY <1>1, DrawTyped DEF Same

LEMMA DonutPointGood ==
  ASSUME AsDataAssumption, NEW u \in Ui
  PROVE  /\ \A a \in AsOrOthers : Good(u, SegmentEnter(u, a))
         /\ Good(u, SegmentLeave(u)) /\ Good(u, TitleEnter(u)) /\ Good(u, TitleLeave(u))
         /\ u.others # None => \A a \in Systems : Good(u, OthersEnter(u, a))
         /\ Good(u, OthersLeave(u))
<1>1. \A o \in Overs : LET v == [u EXCEPT !.over = o] IN v \in Ui /\ Same(u, v, {"over"})
  BY OverTyped
<1>2. ASSUME NEW v \in Ui, Same(u, v, {"over", "hoverAll"}), NEW w \in Ui,
             Same(v, w, {"filter", "lines", "legend"})
      PROVE  Good(u, w)
  <2>1. Same(u, w, Outward)
    BY <1>2 DEF Same, Outward
  <2>2. QED
    BY <1>2, <2>1, OutwardGood
<1>3. ASSUME NEW v \in Ui
      PROVE  /\ Same(v, v, {"filter", "lines", "legend"})
             /\ RestoreSummaryFromPreview(v) \in Ui
             /\ Same(v, RestoreSummaryFromPreview(v), {"filter", "lines", "legend"})
             /\ ShowAll(v) \in Ui /\ Same(v, ShowAll(v), {"filter", "lines", "legend"})
             /\ ActivateHoverAll(v) \in Ui
             /\ Same(v, ActivateHoverAll(v), {"filter", "lines", "legend"})
             /\ Draw(v, {}) \in Ui /\ Same(v, Draw(v, {}), {"filter", "lines", "legend"})
             /\ Filter(Draw(v, {}), None) \in Ui
             /\ Same(v, Filter(Draw(v, {}), None), {"filter", "lines", "legend"})
  <2>1. /\ RestoreSummaryFromPreview(v) \in Ui
        /\ Same(v, RestoreSummaryFromPreview(v), {"filter", "lines", "legend"})
    BY RestoreTyped
  <2>2. /\ ShowAll(v) \in Ui /\ Same(v, ShowAll(v), {"filter", "lines", "legend"})
        /\ ActivateHoverAll(v) \in Ui
        /\ Same(v, ActivateHoverAll(v), {"filter", "lines", "legend"})
    BY LinesTyped DEF Same
  <2>3. /\ Draw(v, {}) \in Ui /\ Same(v, Draw(v, {}), {"filter", "lines", "legend"})
    BY DrawTyped DEF Same
  <2>4. /\ Filter(Draw(v, {}), None) \in Ui
        /\ Same(v, Filter(Draw(v, {}), None), {"filter", "lines", "legend"})
    BY AllShownTyped DEF Same
  <2>5. QED
    BY <2>1, <2>2, <2>3, <2>4 DEF Same
<1>4. ASSUME NEW v \in Ui, NEW ids \in SUBSET Peers
      PROVE  Show(v, ids) \in Ui /\ Same(v, Show(v, ids), {"filter", "lines", "legend"})
  BY <1>4, ShowTyped DEF Same
<1>5. \A a : PeersOf(u.peers, a) \in SUBSET Peers
  BY UiFields, PeerSets
<1>6. ASSUME NEW a \in AsOrOthers PROVE Good(u, SegmentEnter(u, a))
  <2> DEFINE o == <<"seg", a>>
             v == [u EXCEPT !.over = o]
  <2>1. SegmentEnter(u, a) = v \/ SegmentEnter(u, a) = Show(v, PeersOf(u.peers, a))
    BY DEF SegmentEnter
  <2>2. o \in Overs
    BY DEF Overs
  <2> HIDE DEF o
  <2>3. v \in Ui /\ Same(u, v, {"over", "hoverAll"})
    BY <1>1, <2>2 DEF Same
  <2> HIDE DEF v
  <2>4. QED
    BY <1>2, <1>3, <1>4, <1>5, <2>1, <2>3
<1> DEFINE n == [u EXCEPT !.over = None]
<1>7. n \in Ui /\ Same(u, n, {"over", "hoverAll"})
  BY <1>1, SetUi DEF Same
<1>8. /\ \/ SegmentLeave(u) = n \/ SegmentLeave(u) = RestoreSummaryFromPreview(n)
         \/ SegmentLeave(u) = ShowAll(n) \/ SegmentLeave(u) = Filter(Draw(n, {}), None)
      /\ \/ TitleLeave(u) = n \/ TitleLeave(u) = Draw([n EXCEPT !.hoverAll = FALSE], {})
      /\ \/ OthersLeave(u) = Show(n, IF u.others = None THEN {} ELSE u.others)
         \/ OthersLeave(u) = Show(n, PeersOf(u.peers, u.sel)) \/ OthersLeave(u) = ShowAll(n)
  BY DEF SegmentLeave, TitleLeave, OthersLeave
<1>9. LET m == [n EXCEPT !.hoverAll = FALSE] IN m \in Ui /\ Same(u, m, {"over", "hoverAll"})
  <2>1. [n EXCEPT !.hoverAll = FALSE] \in Ui
    BY <1>7, SetUi
  <2>2. Same(n, [n EXCEPT !.hoverAll = FALSE], {"hoverAll"})
    BY <1>7 DEF Ui, Same, Names
  <2> HIDE DEF n
  <2>3. QED
    BY <1>7, <2>1, <2>2 DEF Same
<1> HIDE DEF n
<1>10. Good(u, SegmentLeave(u))
  BY <1>2, <1>3, <1>7, <1>8
<1>11. Good(u, TitleLeave(u))
  <2> DEFINE m == [n EXCEPT !.hoverAll = FALSE]
  <2>1. m \in Ui /\ Same(u, m, {"over", "hoverAll"})
    BY <1>9
  <2>2. TitleLeave(u) = n \/ TitleLeave(u) = Draw(m, {})
    BY <1>8
  <2> HIDE DEF m
  <2>3. QED
    BY <1>2, <1>3, <1>7, <2>1, <2>2
<1>12. Good(u, OthersLeave(u))
  <2>1. (IF u.others = None THEN {} ELSE u.others) \in SUBSET Peers
    BY UiFields
  <2>2. QED
    BY <1>2, <1>3, <1>4, <1>5, <1>7, <1>8, <2>1
<1>13. ASSUME u.others # None, NEW a \in Systems PROVE Good(u, OthersEnter(u, a))
  <2> DEFINE o == <<"others", a>>
             v == [u EXCEPT !.over = o]
             ids == GroupPeers(u.others, a)
  <2>1. OthersEnter(u, a) = Show(v, ids)
    BY DEF OthersEnter
  <2>2. o \in Overs
    BY DEF Overs
  <2> HIDE DEF o
  <2>3. v \in Ui /\ Same(u, v, {"over", "hoverAll"})
    BY <1>1, <2>2 DEF Same
  <2> HIDE DEF v
  <2>4. ids \in SUBSET Peers
    BY <1>13, UiFields, PeerSets
  <2> HIDE DEF ids
  <2>5. QED
    BY <1>2, <1>4, <2>1, <2>3, <2>4
<1>14. Good(u, TitleEnter(u))
  <2> DEFINE o == <<"title", None>>
             v == [u EXCEPT !.over = o]
             m == [v EXCEPT !.hoverAll = TRUE]
  <2>1. TitleEnter(u) = v \/ TitleEnter(u) = ActivateHoverAll(m)
    BY DEF TitleEnter
  <2>2. o \in Overs
    BY DEF Overs
  <2> HIDE DEF o
  <2>3. v \in Ui /\ Same(u, v, {"over", "hoverAll"})
    BY <1>1, <2>2 DEF Same
  <2> HIDE DEF v
  <2>4. m \in Ui
    BY <2>3, SetUi
  <2>5. Same(v, m, {"hoverAll"})
    BY <2>3 DEF Ui, Same, Names
  <2> HIDE DEF m
  <2>6. Same(u, m, {"over", "hoverAll"})
    BY <2>3, <2>5 DEF Same
  <2>7. QED
    BY <1>2, <1>3, <2>1, <2>3, <2>4, <2>6
<1>15. QED
  BY <1>6, <1>10, <1>11, <1>12, <1>13, <1>14

LEMMA OthersClickGood ==
  ASSUME NoneIsNoTip, AsDataAssumption, NEW u \in Ui, NEW a \in Systems
  PROVE  Good(u, OthersClick(u, a))
<1> DEFINE v == BackToOthersList(u)
<1>1. /\ v \in Ui /\ Kin(u, v) /\ (v.detail => u.detail) /\ (v = u \/ v.sel = "Others")
      /\ v.focused = u.focused /\ v.net = u.net
  BY BackToOthersTyped
<1>2. OthersClick(u, a) = v \/ OthersClick(u, a) = NavigateToProvider(u, a)
  BY DEF OthersClick
<1>3. "Others" # None
  BY DEF AsDataAssumption
<1> HIDE DEF v
<1>4. Good(u, v)
  BY <1>1, <1>3, KinGood, GoodOfItself
<1>5. QED
  BY <1>2, <1>4, NavigateGood DEF AsOrOthers

LEMMA SegmentClickGood ==
  ASSUME NoneIsNoTip, AsDataAssumption, NEW u \in Ui, Agree(u), NEW a \in AsOrOthers
  PROVE  Good(u, SegmentClickOf(u, a))
<1> DEFINE v == SegmentClickOf(u, a)
<1>1. v \in Ui /\ Kin(u, v) /\ ~v.detail /\ (v.sel = a \/ v.summary)
  BY SegmentClickTyped DEF Agree, Views
<1>2. a # None
  BY DEF AsDataAssumption, AsOrOthers
<1> HIDE DEF v
<1>3. Good(u, v)
  BY <1>1, <1>2, KinGood
<1>4. QED
  BY <1>3 DEF v

LEMMA EnterFocusedGood ==
  ASSUME NoneIsNoTip, NEW u \in Ui, Agree(u)
  PROVE  Good(u, EnterFocusedMode(u))
<1> DEFINE v == EnterFocusedMode(u)
<1>1. /\ v \in Ui /\ Kin(u, v) /\ v.focused /\ (u.focused => v = u)
      /\ ~u.focused => v.summary /\ v.net \in {u.net, None} /\ ~v.detail
  BY EnterFocusedTyped DEF Agree, Views
<1> HIDE DEF v
<1>2. Good(u, v)
  BY <1>1, KinGood, GoodOfItself
<1>3. QED
  BY <1>2 DEF v

-----------------------------------------------------------------------------
(***************************************************************************)
(* The buttons, the map and the Escape key.                                *)
(***************************************************************************)
LEMMA DeselectGood ==
  ASSUME NEW u \in Ui
  PROVE  Good(u, Deselect(u))
<1> DEFINE v == Deselect(u)
<1>1. /\ v \in Ui /\ Bare(v) /\ v.net = None /\ v.insight \in {u.insight, None}
      /\ v.focused = u.focused /\ (u.summary => v.detail = u.detail) /\ (~u.summary => ~v.detail)
  BY DeselectTyped
<1> HIDE DEF v
<1>2. Kin(u, v)
  BY <1>1, BareKin
<1>3. Good(u, v)
  BY <1>1, <1>2, KinGood
<1>4. QED
  BY <1>3 DEF v

LEMMA ExitFocusedGood ==
  ASSUME NEW u \in Ui
  PROVE  Good(u, ExitFocusedMode(u))
<1>1. CASE ~u.focused
  BY <1>1, GoodOfItself DEF ExitFocusedMode
<1>2. CASE u.focused
  <2> DEFINE v == ExitFocusedMode(u)
  <2>1. /\ v \in Ui /\ ~v.focused /\ ~v.detail /\ v.net = None
        /\ u.summary \/ u.sel # None => Bare(v)
        /\ ~u.summary /\ u.sel = None =>
             v.sub = u.sub /\ v.tip = u.tip /\ v.subsub = u.subsub /\ v.insight = u.insight
    BY <1>2, ExitFocusedTyped
  <2> HIDE DEF v
  <2>2. Kept(u) => Kept(v)
    BY <2>1 DEF Kept, Bare, Pinned
  <2>3. Clean(u) => Clean(v)
    BY <2>1 DEF Clean, Bare
  <2>4. QED
    BY <2>1, <2>2, <2>3 DEF Good, v
<1>3. QED
  BY <1>1, <1>2

LEMMA LeaveNetworkGood ==
  ASSUME NoneIsNoTip, NEW u \in Ui
  PROVE  Good(u, LeaveNetworkPanel(u))
<1> DEFINE v == LeaveNetworkPanel(u)
<1>1. v \in Ui /\ Kin(u, v) /\ v.summary /\ v.net = None /\ ~v.detail
  BY LeaveNetworkTyped
<1> HIDE DEF v
<1>2. Good(u, v)
  BY <1>1, KinGood
<1>3. QED
  BY <1>2 DEF v

\* The tooltips go where nothing but a network is selected.
LEMMA UntippedGood ==
  ASSUME NEW u \in Ui, NEW v \in Ui, Same(u, v, Outward \cup {"tip", "subsub"}),
         v.tip = None, u.sel = None, ~u.summary
  PROVE  Good(u, v)
<1>1. /\ v.sel = u.sel /\ v.summary = u.summary /\ v.focused = u.focused /\ v.net = u.net
      /\ v.detail = u.detail /\ v.sub = u.sub /\ v.insight = u.insight
  BY DEF Same, Names, Outward
<1>2. Kept(u) => Kept(v)
  BY <1>1 DEF Kept, Pinned
<1>3. Clean(u) => Clean(v)
  BY <1>1 DEF Clean
<1>4. QED
  BY <1>2, <1>3 DEF Good

LEMMA BlankClickGood ==
  ASSUME NEW u \in Ui
  PROVE  Good(u, BlankClick(u))
<1> DEFINE h == HideSubTooltip(u)
           d == DropSub(h)
           s == ShowAll(d)
           c == ClearSubFilter(h)
<1>1. BlankClick(u) = IF ~AnyPin(u) THEN u ELSE IF h.summary THEN s
                      ELSE IF h.sel # None THEN c ELSE h
  BY DEF BlankClick
<1>2. /\ h \in Ui /\ Same(u, h, {"tip", "subsub", "legend"})
      /\ h.tip = None /\ h.subsub = None
  BY TipTyped
<1> HIDE DEF h
<1>3. d \in Ui /\ Same(h, d, {"sub"}) /\ d.sub = None
  BY <1>2, TipTyped
<1> HIDE DEF d
<1>4. s \in Ui /\ Same(d, s, {"filter", "lines"})
  BY <1>3, LinesTyped
<1>5. c \in Ui /\ Bare(c) /\ Same(h, c, {"sub", "tip", "subsub", "legend", "filter", "lines"})
  BY <1>2, ClearTyped
<1> HIDE DEF s, c
<1>6. Same(u, s, Hangings) /\ Same(u, c, Hangings) /\ Same(u, h, Outward \cup {"tip", "subsub"})
  BY <1>2, <1>3, <1>4, <1>5 DEF Same, Hangings, Outward
<1>7. Bare(s)
  BY <1>2, <1>3, <1>4 DEF Same, Names, Bare
<1>8. Good(u, s) /\ Good(u, c)
  BY <1>4, <1>5, <1>6, <1>7, BareGood
<1>9. h.sel = u.sel /\ h.summary = u.summary
  BY <1>2 DEF Same, Names
<1>10. u.sel = None /\ ~u.summary => Good(u, h)
  BY <1>2, <1>6, UntippedGood
<1>11. QED
  BY <1>1, <1>8, <1>9, <1>10, GoodOfItself

LEMMA MapClickGood ==
  ASSUME NoneIsNoTip, NEW u \in Ui, Agree(u)
  PROVE  Good(u, MapClick(u))
<1> DEFINE s == [u EXCEPT !.others = None, !.history = FALSE, !.sel = None]
           h == [u EXCEPT !.history = FALSE]
           v == SelectSummary(s)
<1>1. \/ MapClick(u) = LeaveNetworkPanel(u)
      \/ MapClick(u) = ClosePeerPopup(u) \/ MapClick(u) = BlankClick(u)
      \/ MapClick(u) = v \/ MapClick(u) = Deselect(h)
      \/ u.summary /\ ~u.focused
      \/ MapClick(u) = ExitFocusedMode(u)
  BY DEF MapClick
<1>2. ~(u.summary /\ ~u.focused)
  BY DEF Agree, Views
<1>3. Good(u, v)
  <2>1. s \in Ui
    BY SetUi
  <2>2. Same(u, s, {"others", "history", "sel"}) /\ s.sel = None
    BY DEF Ui, Same, Names
  <2> HIDE DEF s
  <2>3. v \in Ui /\ Kin(s, v) /\ v.summary /\ ~v.detail /\ v.net \in {s.net, None}
    BY <2>1, <2>2, SelectSummaryTyped
  <2> HIDE DEF v
  <2>4. s.tip = u.tip /\ s.sub = u.sub /\ s.subsub = u.subsub /\ s.insight = u.insight
        /\ s.net = u.net
    BY <2>2 DEF Same, Names
  <2>5. Kin(u, v)
    BY <2>3, <2>4 DEF Kin, Pinned
  <2>6. QED
    BY <2>3, <2>4, <2>5, KinGood
<1>4. Good(u, Deselect(h))
  <2>1. h \in Ui
    BY SetUi
  <2>2. Same(u, h, Outward)
    BY DEF Ui, Same, Names, Outward
  <2> HIDE DEF h
  <2>3. QED
    BY <2>1, <2>2, OutwardGood, DeselectGood, GoodOfGood
<1> HIDE DEF s, h, v
<1>5. QED
  BY <1>1, <1>2, <1>3, <1>4, LeaveNetworkGood, RoomGood, BlankClickGood, ExitFocusedGood

LEMMA EscapeGood ==
  ASSUME NoneIsNoTip, NEW u \in Ui, Agree(u)
  PROVE  Good(u, Escape(u))
<1> DEFINE s == HideSubSubTooltip(u)
           t == HideSubTooltip(u)
<1>1. Good(u, EscapeSubSub(u))
  <2>1. \/ EscapeSubSub(u) = s
        \/ s.sub # None /\ EscapeSubSub(u) = PreviewSummaryLines(s, s.sub.ids)
        \/ EscapeSubSub(u) = ShowAll(s)
    BY DEF EscapeSubSub
  <2>2. s \in Ui /\ Same(u, s, {"subsub", "legend"}) /\ s.subsub = None
    BY TipTyped
  <2> HIDE DEF s
  <2>3. s.sub # None => s.sub.ids \in SUBSET Peers
    BY <2>2, UiFields DEF SubSet
  <2>4. ASSUME NEW w \in Ui, Same(s, w, {"filter", "lines"})
        PROVE  Good(u, w)
    <3>1. /\ w.sel = u.sel /\ w.summary = u.summary /\ w.focused = u.focused /\ w.net = u.net
          /\ w.detail = u.detail /\ w.tip = u.tip /\ w.sub = u.sub /\ w.insight = u.insight
          /\ w.subsub = None
      BY <2>2, <2>4 DEF Same, Names
    <3>2. Kin(u, w) /\ Steady(u, w)
      BY <3>1 DEF Kin, Steady, Retipped, Pinned
    <3>3. QED
      BY <2>4, <3>2, SteadyGood
  <2>5. /\ s.sub # None => /\ PreviewSummaryLines(s, s.sub.ids) \in Ui
                           /\ Same(s, PreviewSummaryLines(s, s.sub.ids), {"filter", "lines"})
        /\ ShowAll(s) \in Ui /\ Same(s, ShowAll(s), {"filter", "lines"})
        /\ Same(s, s, {"filter", "lines"})
    BY <2>2, <2>3, LinesTyped DEF Same
  <2>6. QED
    BY <2>1, <2>2, <2>4, <2>5
<1>2. Good(u, EscapeTip(u))
  <2>1. EscapeTip(u) = IF t.summary THEN ClearSummarySubFilter(t)
                       ELSE IF t.sel # None THEN ClearSubFilter(t) ELSE t
    BY DEF EscapeTip
  <2>2. t \in Ui /\ Same(u, t, {"tip", "subsub", "legend"}) /\ t.tip = None
    BY TipTyped
  <2>3. Good(u, ClearSummarySubFilter(t)) /\ Good(u, ClearSubFilter(t))
    BY OffGood
  <2> HIDE DEF t
  <2>4. Same(u, t, Outward \cup {"tip", "subsub"})
    BY <2>2 DEF Same, Outward
  <2>5. t.sel = u.sel /\ t.summary = u.summary
    BY <2>2 DEF Same, Names
  <2>6. u.sel = None /\ ~u.summary => Good(u, t)
    BY <2>2, <2>4, UntippedGood
  <2>7. QED
    BY <2>1, <2>3, <2>5, <2>6
<1>3. \/ Escape(u) = ClosePeerPopup(u) \/ Escape(u) = EscapeSubSub(u)
      \/ Escape(u) = EscapeTip(u)
      \/ Escape(u) = LeaveNetworkPanel(u)
      \/ u.summary /\ ~u.focused
      \/ Escape(u) = ExitFocusedMode(u) \/ Escape(u) = Deselect(u)
  BY DEF Escape
<1>4. ~(u.summary /\ ~u.focused)
  BY DEF Agree, Views
<1>5. QED
  BY <1>1, <1>2, <1>3, <1>4, RoomGood, LeaveNetworkGood, ExitFocusedGood, DeselectGood

LEMMA ButtonsGood ==
  ASSUME NoneIsNoTip, AsDataAssumption, NEW u \in Ui, Agree(u)
  PROVE  /\ Good(u, CloseButton(u)) /\ Good(u, RectClose(u)) /\ Good(u, EnterPrivateNet(u))
         /\ Good(u, HideContainer(u)) /\ Good(u, NavigateBack(u))
         /\ u.timers > 0 => Good(u, TimerFires(u))
<1>1. Good(u, CloseButton(u)) /\ Good(u, HideContainer(u))
  BY DeselectGood, ExitFocusedGood, GoodOfItself DEF CloseButton, HideContainer
<1>2. Good(u, EnterPrivateNet(u))
  <2> DEFINE c == ClosePeerPopup(u)
             d == Deselect(c)
  <2>1. Good(u, c) /\ c \in Ui
    BY RoomGood DEF Good
  <2> HIDE DEF c
  <2>2. Good(c, d) /\ d \in Ui
    BY <2>1, DeselectGood DEF Good
  <2> HIDE DEF d
  <2>3. Good(d, ExitFocusedMode(d))
    BY <2>2, ExitFocusedGood
  <2>4. Good(u, ExitFocusedMode(d))
    BY <2>1, <2>2, <2>3, GoodOfGood
  <2>5. QED
    BY <2>4 DEF EnterPrivateNet, c, d
<1>3. Good(u, RectClose(u))
  <2> DEFINE v == [u EXCEPT !.rect = FALSE, !.insight = None]
             c == ClearSummarySubFilter(v)
  <2>1. RectClose(u) = IF v.summary THEN c ELSE v
    BY DEF RectClose
  <2>2. v \in Ui
    BY SetUi
  <2>3. Same(u, v, {"rect", "insight"}) /\ v.insight = None
    BY DEF Ui, Same, Names
  <2> HIDE DEF v
  <2>4. Good(u, v)
    <3>1. /\ v.sel = u.sel /\ v.summary = u.summary /\ v.focused = u.focused /\ v.net = u.net
          /\ v.detail = u.detail /\ v.tip = u.tip /\ v.sub = u.sub /\ v.subsub = u.subsub
      BY <2>3 DEF Same, Names
    <3>2. Kin(u, v) /\ Steady(u, v)
      BY <2>3, <3>1 DEF Kin, Steady, Retipped, Pinned
    <3>3. QED
      BY <2>2, <3>2, SteadyGood
  <2>5. c \in Ui /\ Bare(c) /\ Same(v, c, Hangings)
    BY <2>2, ClearTyped DEF Same, Hangings, Outward
  <2>6. Good(v, c)
    BY <2>2, <2>5, BareGood
  <2>7. QED
    BY <2>1, <2>4, <2>6, GoodOfGood
<1>4. Good(u, NavigateBack(u))
  <2> DEFINE v == NavigateBack(u)
  <2>1. v \in Ui /\ Kin(u, v) /\ Bare(v) /\ v.net = None /\ ~v.detail
    BY NavigateBackTyped
  <2> HIDE DEF v
  <2>2. Good(u, v)
    BY <2>1, KinGood
  <2>3. QED
    BY <2>2 DEF v
<1>5. ASSUME u.timers > 0 PROVE Good(u, TimerFires(u))
  <2> DEFINE t == u.timers - 1
             v == [u EXCEPT !.timers = t, !.popup = None]
  <2>1. t \in Nat
    BY <1>5, UiFields
  <2>2. TimerFires(u) = v
    BY DEF TimerFires
  <2> HIDE DEF t
  <2>3. v \in Ui
    BY <2>1, SetUi
  <2>4. Same(u, v, Outward)
    BY DEF Ui, Same, Names, Outward
  <2>5. QED
    BY <2>2, <2>3, <2>4, OutwardGood
<1>6. QED
  BY <1>1, <1>2, <1>3, <1>4, <1>5

\* The chip of a network: its panel may open without a selection.
LEMMA NetChipKept ==
  ASSUME NoneIsNoTip, AsDataAssumption, NEW u \in Ui, Agree(u), NEW n \in Nets
  PROVE  LET v == NetChip(u, n) IN
         v \in Ui /\ (Kept(u) => Kept(v)) /\ (Clean(u) => (v.sub # None => Pinned(v)))
<1> DEFINE w == EnterFocusedMode(u)
           v == OpenNetworkPanel(w, n)
<1>1. w \in Ui /\ (Kept(u) => Kept(w)) /\ (Clean(u) => Clean(w))
  BY EnterFocusedGood DEF Good
<1>2. NetChip(u, n) = v
  BY DEF NetChip
<1> HIDE DEF w
<1>3. v \in Ui /\ Kin(w, v) /\ v.net = n /\ ~v.detail
  BY <1>1, OpenNetworkTyped
<1>4. n # None
  BY DEF AsDataAssumption
<1> HIDE DEF v
<1>5. Kept(w) => Kept(v)
  BY <1>1, <1>3, <1>4, KinKept
<1>6. Clean(w) => (v.sub # None => Pinned(v))
  BY <1>1, <1>3, KinPinned DEF Clean
<1>7. QED
  BY <1>1, <1>2, <1>3, <1>5, <1>6

-----------------------------------------------------------------------------
(***************************************************************************)
(* The refresh.                                                            *)
(***************************************************************************)
LEMMA RefilterTyped ==
  ASSUME NEW u \in Ui, u.sub # None, NEW ids \in SUBSET Peers
  PROVE  LET v == Refilter(u, ids) IN
         v \in Ui /\ Same(u, v, {"sub"}) /\ v.sub = [row |-> u.sub.row, ids |-> ids]
<1> DEFINE s == [u.sub EXCEPT !.ids = ids]
<1>1. u.sub \in [row : RowSet, ids : SUBSET Peers]
  BY UiFields DEF SubSet
<1>2. s = [row |-> u.sub.row, ids |-> ids] /\ s \in SubSet
  BY <1>1 DEF SubSet
<1>3. Refilter(u, ids) = [u EXCEPT !.sub = s]
  BY DEF Refilter, Ui
<1> HIDE DEF s
<1>4. Refilter(u, ids) \in Ui
  BY <1>2, <1>3, SetUi
<1>5. Same(u, Refilter(u, ids), {"sub"}) /\ Refilter(u, ids).sub = s
  BY <1>3 DEF Ui, Same, Names
<1>6. QED
  BY <1>2, <1>4, <1>5

\* The row of the filter stays when the peers of the row are found anew.
LEMMA RefilteredGood ==
  ASSUME NEW u \in Ui, NEW v \in Ui, Same(u, v, Outward \cup {"sub", "subsub", "insight"}),
         v.sub = u.sub \/ (u.sub # None /\ v.sub.row = u.sub.row),
         v.insight = u.insight \/ (u.sub # None /\ u.sub.row.k \notin CategoryKinds)
  PROVE  Good(u, v)
<1>1. /\ v.sel = u.sel /\ v.summary = u.summary /\ v.focused = u.focused /\ v.net = u.net
      /\ v.detail = u.detail /\ v.tip = u.tip
  BY DEF Same, Names, Outward
<1>2. Kept(u) => Kept(v)
  BY <1>1 DEF Kept, Pinned
<1>3. Clean(u) => Clean(v)
  BY <1>1 DEF Clean, Pinned
<1>4. QED
  BY <1>2, <1>3 DEF Good

LEMMA FreshTyped ==
  ASSUME NEW u \in Ui
  PROVE  /\ FreshIds(u) \in SUBSET Peers /\ FreshCategory(u) \in SUBSET Peers
         /\ u.sub = None => FreshIds(u) = {} /\ FreshCategory(u) = {}
         /\ \A ids \in SUBSET Peers : HoveredOr(u, ids) \in SUBSET Peers
<1>1. u.peers \in SUBSET Peers
  BY UiFields
<1>2. FreshIds(u) \in SUBSET Peers
  BY <1>1, PeerSets DEF FreshIds
<1>3. FreshCategory(u) \in SUBSET Peers
  BY <1>1, PeerSets DEF FreshCategory
<1>4. u.sub = None => FreshIds(u) = {} /\ FreshCategory(u) = {}
  BY DEF FreshIds, FreshCategory
<1>5. \A ids \in SUBSET Peers : HoveredOr(u, ids) \in SUBSET Peers
  BY DEF HoveredOr
<1>6. QED
  BY <1>2, <1>3, <1>4, <1>5

LEMMA LinesGood ==
  ASSUME NEW u \in Ui, NEW v \in Ui, Good(u, v), NEW w \in Ui,
         Same(v, w, {"filter", "lines", "legend"})
  PROVE  Good(u, w)
<1>1. Same(v, w, Outward)
  BY DEF Same, Outward
<1>2. QED
  BY <1>1, OutwardGood, GoodOfGood

LEMMA RefilterGood ==
  ASSUME NEW u \in Ui, u.sub # None, NEW ids \in SUBSET Peers
  PROVE  Good(u, Refilter(u, ids))
<1> DEFINE v == Refilter(u, ids)
<1>1. v \in Ui /\ Same(u, v, {"sub"}) /\ v.sub = [row |-> u.sub.row, ids |-> ids]
  BY RefilterTyped
<1> HIDE DEF v
<1>2. Same(u, v, Outward \cup {"sub", "subsub", "insight"}) /\ v.insight = u.insight
  BY <1>1 DEF Same, Names
<1>3. v.sub.row = u.sub.row
  BY <1>1
<1>4. Good(u, v)
  BY <1>1, <1>2, <1>3, RefilteredGood
<1>5. QED
  BY <1>4 DEF v

LEMMA ShownGood ==
  ASSUME NEW u \in Ui, NEW v \in Ui, Good(u, v), NEW ids \in SUBSET Peers
  PROVE  /\ Good(u, Show(v, ids)) /\ Good(u, Filter(v, ids)) /\ Good(u, Draw(v, ids))
         /\ Good(u, PreviewSummaryLines(v, ids)) /\ Good(u, PreviewProviderLines(v, ids))
         /\ Good(u, ActivateHoverAll(v))
<1>1. /\ Show(v, ids) \in Ui /\ Same(v, Show(v, ids), {"filter", "lines", "legend"})
  BY ShowTyped DEF Same
<1>2. /\ Filter(v, ids) \in Ui /\ Same(v, Filter(v, ids), {"filter", "lines", "legend"})
      /\ Draw(v, ids) \in Ui /\ Same(v, Draw(v, ids), {"filter", "lines", "legend"})
  BY DrawTyped DEF Same
<1>3. /\ PreviewSummaryLines(v, ids) \in Ui
      /\ Same(v, PreviewSummaryLines(v, ids), {"filter", "lines", "legend"})
      /\ PreviewProviderLines(v, ids) \in Ui
      /\ Same(v, PreviewProviderLines(v, ids), {"filter", "lines", "legend"})
  BY LinesTyped DEF Same
<1>4. /\ ActivateHoverAll(v) \in Ui /\ Same(v, ActivateHoverAll(v), {"filter", "lines", "legend"})
  BY LinesTyped DEF Same
<1>5. QED
  BY <1>1, <1>2, <1>3, <1>4, LinesGood

LEMMA RefreshNetworkGood ==
  ASSUME NEW u \in Ui
  PROVE  Good(u, RefreshNetwork(u))
<1>1. /\ u.subsub # None => u.subsub.ids \in SUBSET Peers
      /\ u.sub # None => u.sub.ids \in SUBSET Peers
      /\ NetPeers(u.peers, u.net) \in SUBSET Peers
  BY UiFields, PeerSets DEF SubsubSet, SubSet
<1>2. QED
  BY <1>1, GoodOfItself, ShownGood DEF RefreshNetwork

LEMMA OpenGood ==
  ASSUME NoneIsNoTip, NEW u \in Ui
  PROVE  /\ \A a \in AsOrOthers : LET v == OpenPanel(u, a) IN
              v \in Ui /\ Good(u, v) /\ v.sub = u.sub
         /\ LET v == OpenSummaryPanel(u) IN v \in Ui /\ Good(u, v) /\ v.sub = u.sub
<1>1. \A v : Same(u, v, PopupNames \cup PanelNames) => v.sub = u.sub
  BY DEF Same, Names, PopupNames, PanelNames
<1>2. ASSUME NEW a \in AsOrOthers, NEW v, v = OpenPanel(u, a)
      PROVE  v \in Ui /\ Good(u, v) /\ v.sub = u.sub
  <2>1. v \in Ui /\ Same(u, v, PopupNames \cup PanelNames)
    BY <1>2, OpenTyped
  <2>2. Kin(u, v) /\ Steady(u, v)
    BY <1>2, OpenKin
  <2>3. QED
    BY <1>1, <2>1, <2>2, SteadyGood
<1>3. ASSUME NEW v, v = OpenSummaryPanel(u)
      PROVE  v \in Ui /\ Good(u, v) /\ v.sub = u.sub
  <2>1. v \in Ui /\ Same(u, v, PopupNames \cup PanelNames)
    BY <1>3, OpenTyped
  <2>2. Kin(u, v) /\ Steady(u, v)
    BY <1>3, OpenKin
  <2>3. QED
    BY <1>1, <2>1, <2>2, SteadyGood
<1>4. QED
  BY <1>2, <1>3

\* The row is gone, and its tooltip with it.
LEMMA DroppedGood ==
  ASSUME NEW u \in Ui
  PROVE  LET v == HideSubTooltip(DropSub(u)) IN v \in Ui /\ Good(u, v)
<1> DEFINE d == DropSub(u)
           v == HideSubTooltip(d)
<1>1. d \in Ui /\ Same(u, d, {"sub"}) /\ d.sub = None
  BY TipTyped
<1> HIDE DEF d
<1>2. /\ v \in Ui /\ Same(d, v, {"tip", "subsub", "legend"})
      /\ v.tip = None /\ v.subsub = None
  BY <1>1, TipTyped
<1> HIDE DEF v
<1>3. Bare(v) /\ Same(u, v, Hangings)
  BY <1>1, <1>2 DEF Bare, Same, Names, Hangings, Outward
<1>4. v \in Ui /\ Good(u, v)
  BY <1>2, <1>3, BareGood
<1>5. QED
  BY <1>4 DEF v, d

LEMMA RefreshProviderGood ==
  ASSUME NoneIsNoTip, NEW u \in Ui, u.sel # None
  PROVE  Good(u, RefreshProvider(u))
<1> DEFINE seg   == PeersOf(u.peers, u.sel)
           fresh == FreshIds(u)
           pin   == IF fresh # {} THEN Refilter(u, fresh) ELSE u
           built == OpenPanel(u, u.sel)
           gone  == HideSubTooltip(DropSub(built))
           again == Refilter(built, fresh)
           all   == IF pin.sub # None /\ pin.sub.ids # {} THEN pin.sub.ids ELSE seg
<1>1. \/ RefreshProvider(u) = Deselect(u) \/ RefreshProvider(u) = pin
      \/ u.hovered \in u.peers /\ RefreshProvider(u) = PreviewProviderLines(pin, {u.hovered})
      \/ RefreshProvider(u) = Show(pin, all)
      \/ fresh # {} /\ RefreshProvider(u) = Show(again, fresh)
      \/ RefreshProvider(u) = Show(gone, seg) \/ RefreshProvider(u) = Show(built, seg)
  BY DEF RefreshProvider
<1>2. seg \in SUBSET Peers /\ u.peers \in SUBSET Peers /\ u.sel \in AsOrOthers
  BY UiFields, PeerSets
<1>3. fresh \in SUBSET Peers /\ (fresh # {} => u.sub # None)
  BY FreshTyped
<1> HIDE DEF seg, fresh
<1>4. pin \in Ui /\ Good(u, pin)
  BY <1>3, RefilterGood, RefilterTyped, GoodOfItself
<1> HIDE DEF pin
<1>5. all \in SUBSET Peers
  <2>1. pin.sub # None => pin.sub.ids \in SUBSET Peers
    BY <1>4, UiFields DEF SubSet
  <2>2. QED
    BY <1>2, <2>1
<1>6. built \in Ui /\ Good(u, built) /\ built.sub = u.sub
  BY <1>2, OpenGood
<1> HIDE DEF built
<1>7. gone \in Ui /\ Good(u, gone)
  BY <1>6, DroppedGood, GoodOfGood
<1>8. fresh # {} => again \in Ui /\ Good(u, again)
  BY <1>3, <1>6, RefilterGood, RefilterTyped, GoodOfGood
<1> HIDE DEF gone, again, all
<1>9. u.hovered \in u.peers => {u.hovered} \in SUBSET Peers
  BY <1>2
<1>10. QED
  BY <1>1, <1>2, <1>3, <1>4, <1>5, <1>6, <1>7, <1>8, <1>9, ShownGood, DeselectGood

LEMMA RefreshSubSubGood ==
  ASSUME NEW u \in Ui, u.subsub # None
  PROVE  Good(u, RefreshSubSub(u))
<1> DEFINE group  == GroupPeers(u.peers, u.subsub.as)
           parent == IF FreshCategory(u) # {} THEN FreshCategory(u)
                     ELSE IF u.sub # None /\ u.sub.row.k = "conn-others"
                     THEN PeersOf(u.peers, "Others") ELSE {}
           ids    == IF parent = {} THEN group ELSE group \cap parent
           v      == IF parent = {} THEN u ELSE Refilter(u, parent)
           s      == [v.subsub EXCEPT !.ids = ids]
           w      == [v EXCEPT !.subsub = s]
<1>1. RefreshSubSub(u) = IF group = {} THEN u ELSE Show([v EXCEPT !.subsub = [@ EXCEPT !.ids = ids]],
                                                        HoveredOr(u, ids))
  BY DEF RefreshSubSub
<1>2. group \in SUBSET Peers /\ parent \in SUBSET Peers /\ (parent # {} => u.sub # None)
  BY UiFields, PeerSets, FreshTyped
<1> HIDE DEF group, parent
<1>3. ids \in SUBSET Peers
  BY <1>2
<1> HIDE DEF ids
<1>4. v \in Ui /\ Good(u, v) /\ v.subsub = u.subsub
  <2>1. parent # {} => LET r == Refilter(u, parent) IN
          r \in Ui /\ Good(u, r) /\ r.subsub = u.subsub
    <3> HAVE parent # {}
    <3> DEFINE r == Refilter(u, parent)
    <3>1. r \in Ui /\ Good(u, r) /\ Same(u, r, {"sub"})
      BY <1>2, RefilterGood, RefilterTyped
    <3> HIDE DEF r
    <3>2. r.subsub = u.subsub
      BY <3>1 DEF Same, Names
    <3>3. QED
      BY <3>1, <3>2 DEF r
  <2>2. QED
    BY <2>1, GoodOfItself
<1> HIDE DEF v
<1>5. s \in SubsubSet
  <2>1. u.subsub \in [as : Systems, ids : SUBSET Peers]
    BY UiFields DEF SubsubSet
  <2>2. QED
    BY <1>3, <1>4, <2>1 DEF SubsubSet
<1>6. [v EXCEPT !.subsub = [@ EXCEPT !.ids = ids]] = w
  BY <1>4 DEF Ui
<1> HIDE DEF s
<1>7. w \in Ui
  BY <1>4, <1>5, SetUi
<1>8. Same(v, w, {"subsub"})
  BY <1>4 DEF Ui, Same, Names
<1>9. RefreshSubSub(u) = IF group = {} THEN u ELSE Show(w, HoveredOr(u, ids))
  BY <1>1, <1>6
<1> HIDE DEF w
<1>10. Good(v, w)
  <2>1. Same(v, w, Outward \cup {"sub", "subsub", "insight"})
        /\ w.sub = v.sub /\ w.insight = v.insight
    BY <1>8 DEF Same, Names
  <2>2. QED
    BY <1>4, <1>7, <2>1, RefilteredGood
<1>11. HoveredOr(u, ids) \in SUBSET Peers
  BY <1>3, FreshTyped
<1>12. Good(u, w)
  BY <1>4, <1>10, GoodOfGood
<1>13. QED
  BY <1>7, <1>9, <1>11, <1>12, ShownGood, GoodOfItself

LEMMA RefreshSubGood ==
  ASSUME AsDataAssumption, NEW u \in Ui, u.sub # None
  PROVE  Good(u, RefreshSub(u))
<1> DEFINE row   == u.sub.row
           group == GroupPeers(u.peers, row.v)
           r     == Refilter(u, group)
           s     == [r EXCEPT !.insight = row.v]
<1>1. u.peers \in SUBSET Peers /\ \A a : GroupPeers(u.peers, a) \in SUBSET Peers
  BY UiFields, PeerSets
<1>2. ASSUME NEW ids \in SUBSET Peers PROVE Good(u, RefreshList(u, ids))
  <2> DEFINE v == Refilter(u, ids)
  <2>1. v \in Ui /\ Good(u, v)
    BY RefilterGood, RefilterTyped
  <2>2. \/ RefreshList(u, ids) = PreviewSummaryLines(v, ids)
        \/ RefreshList(u, ids) = Show(v, GroupPeers(u.peers, u.legend) \cap ids)
        \/ RefreshList(u, ids) = v
    BY DEF RefreshList
  <2> HIDE DEF v
  <2> DEFINE lit == GroupPeers(u.peers, u.legend) \cap ids
  <2>3. lit \in SUBSET Peers
    OBVIOUS
  <2> HIDE DEF lit
  <2>4. Good(u, PreviewSummaryLines(v, ids)) /\ Good(u, Show(v, lit))
    BY <2>1, <2>3, ShownGood
  <2>5. QED
    BY <2>1, <2>2, <2>4 DEF lit
<1>3. ASSUME NEW word PROVE Good(u, RefreshDirection(u, word))
  <2> DEFINE ids == {p \in GroupPeers(u.peers, u.sub.row.v) : Direction[p] = word}
             v == Refilter(u, ids)
  <2>1. ids \in SUBSET Peers
    BY <1>1
  <2>2. RefreshDirection(u, word) = Filter(v, ids)
    BY DEF RefreshDirection
  <2> HIDE DEF ids
  <2>3. v \in Ui /\ Good(u, v)
    BY <2>1, RefilterGood, RefilterTyped
  <2> HIDE DEF v
  <2>4. Good(u, Filter(v, ids))
    BY <2>1, <2>3, ShownGood
  <2>5. QED
    BY <2>2, <2>4
<1>4. \/ RefreshSub(u) = u \/ RefreshSub(u) = RefreshList(u, FreshCategory(u))
      \/ RefreshSub(u) = RefreshList(u, PeersOf(u.peers, "Others"))
      \/ RefreshSub(u) = Show(u, GroupPeers(u.peers, u.insight))
      \/ row.v \in Groups(u.peers) /\ row.k = "insight-stable" /\ RefreshSub(u) = Show(s, group)
      \/ RefreshSub(u) = Show(r, HoveredOr(u, group))
      \/ RefreshSub(u) = RefreshDirection(u, "outbound")
      \/ RefreshSub(u) = RefreshDirection(u, "inbound")
  BY DEF RefreshSub
<1>5. group \in SUBSET Peers
  BY <1>1
<1> HIDE DEF row, group
<1>6. r \in Ui /\ Good(u, r) /\ Same(u, r, {"sub"}) /\ r.sub.row = u.sub.row
  <2>1. r \in Ui /\ Good(u, r) /\ Same(u, r, {"sub"})
    BY <1>5, RefilterGood, RefilterTyped
  <2>2. r.sub = [row |-> u.sub.row, ids |-> group]
    BY <1>5, RefilterTyped
  <2>3. QED
    BY <2>1, <2>2
<1> HIDE DEF r
<1>7. ASSUME row.v \in Groups(u.peers), row.k = "insight-stable"
      PROVE  s \in Ui /\ Good(u, s)
  <2>1. row.v \in Systems
    BY <1>1, <1>7, Providers
  <2>2. s \in Ui
    BY <1>6, <2>1, SetUi
  <2>3. Same(r, s, {"insight"})
    BY <1>6 DEF Ui, Same, Names
  <2> HIDE DEF s
  <2>4. Same(u, s, Outward \cup {"sub", "subsub", "insight"}) /\ s.sub = r.sub
    BY <1>6, <2>3 DEF Same, Names
  <2>5. u.sub.row.k \notin CategoryKinds
    BY <1>7 DEF row, CategoryKinds
  <2>6. QED
    BY <1>6, <2>2, <2>4, <2>5, RefilteredGood
<1> HIDE DEF s
<1>8. HoveredOr(u, group) \in SUBSET Peers /\ FreshCategory(u) \in SUBSET Peers
      /\ PeersOf(u.peers, "Others") \in SUBSET Peers
  BY <1>1, <1>5, FreshTyped, PeerSets
<1>9. QED
  BY <1>1, <1>2, <1>3, <1>4, <1>5, <1>6, <1>7, <1>8, ShownGood, GoodOfItself

LEMMA RefreshSummaryGood ==
  ASSUME NoneIsNoTip, AsDataAssumption, NEW u \in Ui
  PROVE  Good(u, RefreshSummary(u))
<1> DEFINE built == OpenSummaryPanel(u)
           fresh == FreshCategory(u)
           ids   == PeersOf(u.peers, u.insight)
           f     == Filter(built, ids)
           lit   == Focus(f, u.insight)
           gone  == HideSubTooltip(DropSub(built))
           again == Refilter(built, fresh)
<1>1. \/ u.subsub # None /\ RefreshSummary(u) = RefreshSubSub(u)
      \/ RefreshSummary(u) = u \/ (u.sub # None /\ RefreshSummary(u) = RefreshSub(u))
      \/ RefreshSummary(u) = ActivateHoverAll(u)
      \/ fresh # {} /\ RefreshSummary(u) = PreviewSummaryLines(again, fresh)
      \/ RefreshSummary(u) = ActivateHoverAll(gone)
      \/ RefreshSummary(u) = lit \/ RefreshSummary(u) = Draw(lit, ids)
      \/ RefreshSummary(u) = ActivateHoverAll(built)
  BY DEF RefreshSummary
<1>2. ids \in SUBSET Peers /\ {} \in SUBSET Peers
  BY UiFields, PeerSets
<1>3. fresh \in SUBSET Peers /\ (fresh # {} => u.sub # None)
  BY FreshTyped
<1>4. built \in Ui /\ Good(u, built) /\ built.sub = u.sub
  BY OpenGood
<1> HIDE DEF built, fresh, ids
<1>5. f \in Ui /\ Same(built, f, {"filter"})
  BY <1>2, <1>4, DrawTyped
<1> HIDE DEF f
<1>6. lit \in Ui /\ Same(f, lit, {"legend"})
  <2>1. u.insight \in AsOrOthers \cup {None}
    BY UiFields DEF AsOrOthers
  <2>2. QED
    BY <1>5, <2>1, FieldsTyped
<1> HIDE DEF lit
<1>7. Good(u, lit)
  <2>1. Same(built, lit, {"filter", "lines", "legend"})
    BY <1>5, <1>6 DEF Same
  <2>2. QED
    BY <1>4, <1>6, <2>1, LinesGood
<1>8. gone \in Ui /\ Good(u, gone)
  BY <1>4, DroppedGood, GoodOfGood
<1>9. fresh # {} => again \in Ui /\ Good(u, again)
  BY <1>3, <1>4, RefilterGood, RefilterTyped, GoodOfGood
<1> HIDE DEF gone, again
<1>10. Good(u, u)
  BY GoodOfItself
<1>11. Good(u, ActivateHoverAll(u)) /\ Good(u, ActivateHoverAll(gone))
       /\ Good(u, ActivateHoverAll(built)) /\ Good(u, Draw(lit, ids))
  BY <1>2, <1>4, <1>6, <1>7, <1>8, <1>10, ShownGood
<1>12. fresh # {} => Good(u, PreviewSummaryLines(again, fresh))
  BY <1>3, <1>9, ShownGood
<1>13. QED
  BY <1>1, <1>7, <1>10, <1>11, <1>12, RefreshSubSubGood, RefreshSubGood

LEMMA RefreshGood ==
  ASSUME NoneIsNoTip, AsDataAssumption, NEW u \in Ui, NEW P \in SUBSET Peers
  PROVE  Good(u, Refresh(u, P))
<1> DEFINE v == [u EXCEPT !.peers = P]
           d == RenderDonut(v)
           n == [d EXCEPT !.legend = None]
           w == IF AnyPin(d) THEN d ELSE n
           x == IF w.sel # None THEN RefreshProvider(w) ELSE w
<1>1. Refresh(u, P) = IF v.detail THEN v
                      ELSE IF v.net # None THEN RefreshNetwork(d)
                      ELSE IF x.summary THEN RefreshSummary(x) ELSE x
  BY DEF Refresh
<1>2. v \in Ui
  BY SetUi
<1>3. Same(u, v, {"peers"})
  BY DEF Ui, Same, Names
<1> HIDE DEF v
<1>4. d \in Ui /\ Same(v, d, {"over"})
  BY <1>2, TipTyped
<1> HIDE DEF d
<1>5. n \in Ui /\ Same(d, n, {"legend"})
  BY <1>4, LegendTyped
<1> HIDE DEF n
<1>6. Same(u, v, Outward) /\ Same(u, d, Outward) /\ Same(u, n, Outward)
  BY <1>3, <1>4, <1>5 DEF Same, Outward
<1>7. w \in Ui /\ Good(u, v) /\ Good(u, d) /\ Good(u, w)
  BY <1>2, <1>4, <1>5, <1>6, OutwardGood
<1> HIDE DEF w
<1>8. x \in Ui /\ Good(u, x)
  <2>1. w.sel # None => Good(w, RefreshProvider(w))
    BY <1>7, RefreshProviderGood
  <2>2. w.sel # None => RefreshProvider(w) \in Ui /\ Good(u, RefreshProvider(w))
    BY <1>7, <2>1, GoodOfGood DEF Good
  <2>3. QED
    BY <1>7, <2>2
<1> HIDE DEF x
<1>9. Good(u, RefreshNetwork(d)) /\ Good(u, RefreshSummary(x))
  BY <1>4, <1>7, <1>8, RefreshNetworkGood, RefreshSummaryGood, GoodOfGood
<1>10. QED
  BY <1>1, <1>7, <1>8, <1>9
-----------------------------------------------------------------------------
(***************************************************************************)
(* The invariant, and two theorems.                                        *)
(***************************************************************************)
\* The same of a step: the network chips may open a panel without a selection.
Moved(u, v) ==
  v \in Ui /\ (Kept(u) => Kept(v)) /\ (Clean(u) => (v.sub # None => Pinned(v)))

LEMMA GoodMoves ==
  ASSUME NEW u, NEW v, Good(u, v)
  PROVE  Moved(u, v)
BY DEF Good, Moved, Clean

LEMMA OverFacts ==
  ASSUME NEW u \in Ui, u.over # None
  PROVE  /\ u.over[1] = "seg" => u.over[2] \in AsOrOthers
         /\ u.over[1] = "others" => u.over[2] \in Systems
         /\ u.over[1] = "peer" => u.over[2] \in Peers
<1> DEFINE o == u.over
<1>1. o \in Overs
  BY UiFields
<1> HIDE DEF o
<1>2. \/ o \in {"row"} \X RowSet \/ o \in {"prov", "others"} \X Systems
      \/ o \in {"peer"} \X Peers \/ o \in {"seg"} \X AsOrOthers \/ o = <<"title", None>>
  BY <1>1 DEF Overs, o
<1>3. CASE o \in {"row"} \X RowSet
  BY <1>3 DEF o
<1>4. CASE o \in {"prov", "others"} \X Systems
  BY <1>4 DEF o
<1>5. CASE o \in {"peer"} \X Peers
  BY <1>5 DEF o
<1>6. CASE o \in {"seg"} \X AsOrOthers
  BY <1>6 DEF o
<1>7. CASE o = <<"title", None>>
  BY <1>7 DEF o
<1>8. QED
  BY <1>2, <1>3, <1>4, <1>5, <1>6, <1>7

LEMMA InitGood ==
  ASSUME Init, AsDataAssumption
  PROVE  ui \in Ui /\ Kept(ui) /\ Clean(ui)
<1>1. ui \in Ui
  <2>1. None \in SubSet /\ None \in SubsubSet /\ None \in PopupSet /\ None \in Overs
        /\ Closed \in PanelSet
    BY DEF SubSet, SubsubSet, PopupSet, Overs, PanelSet, Closed
  <2> HIDE DEF Closed
  <2>2. QED
    BY <2>1 DEF Init, Ui
<1>2. Kept(ui) /\ Clean(ui)
  BY DEF Init, Kept, Clean, Pinned
<1>3. QED
  BY <1>1, <1>2

LEMMA PointMoves ==
  ASSUME NoneIsNoTip, AsDataAssumption, AsPanelAssumption, ui \in Ui, Agree(ui),
         PointOnPanel \/ PointOnDonut \/ PointAway \/ PointerLost
  PROVE  Moved(ui, ui')
<1>1. CASE PointOnPanel
  <2>1. TipPeers(ui) \subseteq Peers
    BY TipListsTyped
  <2>2. QED
    BY <1>1, <2>1, RowEnterGood, ProviderPointGood, PeerPointGood, GoodMoves DEF PointOnPanel
<1>2. CASE PointOnDonut
  <2>1. ASSUME NEW a \in Segments(ui.peers), ui' = SegmentEnter(ui, a)
        PROVE  Good(ui, ui')
    <3>1. a \in AsOrOthers
      BY Providers, UiFields
    <3>2. QED
      BY <2>1, <3>1, DonutPointGood
  <2>2. ASSUME ui.others # None, NEW a \in Groups(ui.others), ui' = OthersEnter(ui, a)
        PROVE  Good(ui, ui')
    <3>1. ui.others \in SUBSET Peers
      BY <2>2, UiFields
    <3>2. a \in Systems
      BY <3>1, Providers
    <3>3. QED
      BY <2>2, <3>2, DonutPointGood
  <2>3. ui' = TitleEnter(ui) => Good(ui, ui')
    BY DonutPointGood
  <2>4. QED
    BY <1>2, <2>1, <2>2, <2>3, GoodMoves DEF PointOnDonut
<1>3. CASE PointAway
  BY <1>3, RowLeaveGood, ProviderPointGood, PeerPointGood, DonutPointGood, GoodMoves
  DEF PointAway
<1>4. CASE PointerLost
  <2>1. ui' = [ui EXCEPT !.over = None]
    BY <1>4 DEF PointerLost
  <2>2. ui' \in Ui /\ Same(ui, ui', {"over"})
    BY <2>1, OverTyped, SetUi
  <2>3. Same(ui, ui', Outward)
    BY <2>2 DEF Same, Outward
  <2>4. QED
    BY <2>2, <2>3, OutwardGood, GoodMoves
<1>5. QED
  BY <1>1, <1>2, <1>3, <1>4

LEMMA ClickMoves ==
  ASSUME NoneIsNoTip, AsDataAssumption, AsPanelAssumption, ui \in Ui, Agree(ui),
         ClickOnPanel \/ ClickOnDonut \/ ClickElsewhere
  PROVE  Moved(ui, ui')
<1>1. CASE ClickOnPanel
  <2>1. CASE ui.over[2] \in Rows(ui) /\ ui' = RowClick(ui, ui.over[2])
    BY <2>1, RowClickGood, GoodMoves
  <2>2. CASE ui.over[2] \in TipProviders(ui) /\ ui' = ProviderClick(ui, ui.over[2])
    BY <2>2, ProviderClickGood, GoodMoves
  <2>3. CASE ui.over[2] \in TipPeers(ui) /\ ui' = PeerClick(ui, ui.over[2])
    <3>1. ui.over[2] \in Peers
      BY <2>3, TipListsTyped
    <3>2. Good(ui, OpenPeerDetailPanel(ui, ui.over[2])) /\ Good(ui, ui)
      BY <3>1, OpenPeerGood, GoodOfItself
    <3>3. Good(ui, ui')
      BY <2>3, <3>2 DEF PeerClick
    <3>4. QED
      BY <3>3, GoodMoves
  <2>4. CASE \E a \in TipLinks(ui) : ui' = ProviderLink(ui, a)
    <3>1. \A a \in TipLinks(ui) : a \in AsOrOthers
      BY TipListsTyped
    <3>2. QED
      BY <2>4, <3>1, ProviderLinkGood, GoodMoves
  <2>5. CASE \/ ui' = BlankClick(ui) \/ ui' = CloseButton(ui) \/ ui' = NavigateBack(ui)
             \/ ui' = RectClose(ui)
    BY <2>5, BlankClickGood, ButtonsGood, GoodMoves
  <2>6. QED
    BY <1>1, <2>1, <2>2, <2>3, <2>4, <2>5 DEF ClickOnPanel
<1>2. CASE ClickOnDonut
  <2>1. CASE On("seg") /\ ui' = SegmentClickOf(ui, ui.over[2])
    <3>1. ui.over[2] \in AsOrOthers
      BY <2>1, OverFacts DEF On
    <3>2. QED
      BY <2>1, <3>1, SegmentClickGood, GoodMoves
  <2>2. CASE On("others") /\ ui' = OthersClick(ui, ui.over[2])
    <3>1. ui.over[2] \in Systems
      BY <2>2, OverFacts DEF On
    <3>2. QED
      BY <2>2, <3>1, OthersClickGood, GoodMoves
  <2>3. CASE ui' = EnterFocusedMode(ui)
    BY <2>3, EnterFocusedGood, GoodMoves
  <2>4. QED
    BY <1>2, <2>1, <2>2, <2>3 DEF ClickOnDonut
<1>3. CASE ClickElsewhere
  <2>1. CASE Uses("chip") /\ \E n \in Nets : ui' = NetChip(ui, n)
    BY <2>1, NetChipKept, AsDataAssumption DEF Moved
  <2>2. CASE \E p \in ui.peers : ui' = OpenPeerDetailPanel(ui, p)
    <3>1. \A p \in ui.peers : p \in Peers
      BY UiFields
    <3>2. QED
      BY <2>2, <3>1, OpenPeerGood, GoodMoves
  <2>3. CASE \/ ui' = MapClick(ui) \/ ui' = EnterPrivateNet(ui) \/ ui' = HideContainer(ui)
             \/ ui' = ClosePeerPopup(ui)
    BY <2>3, MapClickGood, ButtonsGood, RoomGood, GoodMoves
  <2>4. QED
    BY <1>3, <2>1, <2>2, <2>3 DEF ClickElsewhere
<1>4. QED
  BY <1>1, <1>2, <1>3

LEMMA NextMoves ==
  ASSUME NoneIsNoTip, AsDataAssumption, AsPanelAssumption, ui \in Ui, Agree(ui), [Next]_ui
  PROVE  Moved(ui, ui')
<1>1. CASE PressEscape
  BY <1>1, EscapeGood, GoodMoves DEF PressEscape
<1>2. CASE RemovePopup
  BY <1>2, ButtonsGood, GoodMoves DEF RemovePopup
<1>3. CASE Poll
  <2>1. \A P \in Snapshots : P \in SUBSET Peers
    BY DEF AsPanelAssumption
  <2>2. QED
    BY <1>3, <2>1, RefreshGood, GoodMoves DEF Poll
<1>4. CASE UNCHANGED ui
  BY <1>4, GoodOfItself, GoodMoves
<1>5. QED
  BY <1>1, <1>2, <1>3, <1>4, PointMoves, ClickMoves DEF Next

\* The invariant of the theorems: agreement, types, and what the handlers keep.
Sound == ui \in Ui /\ Agree(ui) /\ Kept(ui)

LEMMA SoundStays ==
  ASSUME NoneIsNoTip
  PROVE  (Init => Sound) /\ (Sound /\ [Next]_ui => Sound')
<1>1. Init => Sound
  BY InitAgrees, InitGood, AsDataAssumption DEF Sound
<1>2. ASSUME Sound, [Next]_ui PROVE Sound'
  <2>1. Agree(ui')
    BY <1>2, NextAgrees DEF Sound
  <2>2. Moved(ui, ui')
    BY <1>2, NextMoves, AsDataAssumption, AsPanelAssumption DEF Sound
  <2>3. QED
    BY <1>2, <2>1, <2>2 DEF Sound, Moved
<1>3. QED
  BY <1>1, <1>2

\* Every field of the interface's state stays in its domain: ids of peers in
\* lists, providers and never the group Others where one provider is meant, and
\* no more popups to be removed than the bound (the some seventy handlers of
\* as-distribution.js hand each other these values untyped).
THEOREM TypeCorrect ==
  ASSUME NoneIsNoTip
  PROVE  Spec => []TypeOK
<1> DEFINE TypedInv == Sound /\ ui.timers <= MaxTimers
<1>1. Init => TypedInv
  <2>1. Init => ui.timers <= MaxTimers
    BY AsPanelAssumption DEF Init
  <2>2. QED
    BY <2>1, SoundStays
<1>2. TypedInv /\ [Next]_ui => TypedInv'
  <2>1. ui.timers <= MaxTimers /\ [Next]_ui => (ui.timers <= MaxTimers)'
    BY DEF Next, Bounded
  <2>2. QED
    BY <2>1, SoundStays
<1>3. TypedInv => TypeOK
  <2> SUFFICES ASSUME TypedInv PROVE TypeOK
    OBVIOUS
  <2>1. ui.timers \in 0..MaxTimers
    BY UiFields, AsPanelAssumption DEF Sound
  <2>2. ui.tip \in TipSet
    <3>1. ui.tip \in Tips \cup {None}
      BY UiFields DEF Sound
    <3>2. QED
      BY <3>1 DEF Tips, TipSet, StrictRows
  <2>3. ui \in Ui
    BY DEF Sound
  <2>4. ui \in UiSet
    BY <2>1, <2>2, <2>3 DEF Ui, UiSet
  <2>5. QED
    BY <2>4 DEF TypeOK
<1> HIDE DEF TypedInv
<1>4. QED
  BY <1>1, <1>2, <1>3, PTL DEF Spec

\* Nothing that happens while the summary or a provider is selected takes the
\* pinned tooltip and leaves its filter: all handlers that take a tooltip away
\* drop the filter with it, as do those that deselect; network chips included.
THEOREM FilterHasItsTooltip ==
  ASSUME NoneIsNoTip
  PROVE  Spec => FilterKeepsItsTooltip
<1> DEFINE Step == (ui.sel # None \/ ui.summary) /\ SubIsPinned => SubIsPinned'
<1>1. Init => Sound
  BY SoundStays
<1>2. Sound /\ [Next]_ui => Sound'
  BY SoundStays
<1>3. Sound /\ [Next]_ui => [Step]_ui
  <2>1. SUFFICES ASSUME Sound, [Next]_ui, ui.sel # None \/ ui.summary, SubIsPinned
                 PROVE  SubIsPinned'
    OBVIOUS
  <2>2. Moved(ui, ui')
    BY <2>1, NextMoves, AsDataAssumption, AsPanelAssumption DEF Sound
  <2>3. Clean(ui)
    BY <2>1 DEF Clean, SubIsPinned
  <2>4. QED
    BY <2>2, <2>3 DEF Moved, SubIsPinned
<1>4. QED
  BY <1>1, <1>2, <1>3, PTL DEF Spec, FilterKeepsItsTooltip
-----------------------------------------------------------------------------
(***************************************************************************)
(* The way out: every key, and every click on the map, takes away one of   *)
(* the things that are open.                                               *)
(***************************************************************************)
\* What the invariant says of one state of the interface.
Sane(u) == u \in Ui /\ Agree(u) /\ Kept(u)

\* How many keys, or clicks on the map, it takes at most.
One(b)         == IF b THEN 1 ELSE 0
Base(u)        == IF u.net # None \/ u.sel # None THEN 2 ELSE 1
EscapeDepth(u) == One(u.detail /\ u.popup # None) + One(u.subsub # None) + One(Pinned(u)) + Base(u)
ClickDepth(u)  == One(u.detail) + One(AnyPin(u)) + Base(u)

LEMMA DepthsBounded ==
  ASSUME NEW u
  PROVE  EscapeDepth(u) \in 1..5 /\ ClickDepth(u) \in 1..4
BY DEF EscapeDepth, ClickDepth, One, Base

LEMMA ExitIsOut ==
  ASSUME NEW u, Sane(u), u.net = None, u.focused
  PROVE  IsOut(ExitFocusedMode(u))
<1> DEFINE v == ExitFocusedMode(u)
<1>1. /\ ~v.focused /\ ~v.detail /\ v.net = None /\ v.panel = Closed
      /\ v.filter = None /\ ~v.summary
      /\ v.sel = IF u.summary THEN u.sel ELSE None
      /\ u.summary \/ u.sel # None => Bare(v)
      /\ ~u.summary /\ u.sel = None => v.sub = u.sub /\ v.tip = u.tip
  BY ExitFocusedTyped DEF Sane
<1> HIDE DEF v
<1>2. v.sel = None
  BY <1>1 DEF Sane, Agree, Views
<1>3. v.sub = None /\ v.tip = None
  BY <1>1 DEF Sane, Kept, Bare
<1>4. QED
  BY <1>1, <1>2, <1>3 DEF IsOut, v

LEMMA ClosePopupNearer ==
  ASSUME NEW u \in Ui, u.detail
  PROVE  LET v == ClosePeerPopup(u) IN
         /\ v.focused = u.focused /\ ClickDepth(v) < ClickDepth(u)
         /\ u.popup # None => EscapeDepth(v) < EscapeDepth(u)
<1> DEFINE v == ClosePeerPopup(u)
<1>1. Same(u, v, PopupNames) /\ v.detail = FALSE
  BY ClosePopupTyped
<1> HIDE DEF v
<1>2. /\ v.sel = u.sel /\ v.net = u.net /\ v.tip = u.tip /\ v.subsub = u.subsub
      /\ v.focused = u.focused
  BY <1>1 DEF Same, Names, PopupNames
<1>3. Pinned(v) <=> Pinned(u)
  BY <1>2 DEF Pinned
<1>4. AnyPin(v) <=> AnyPin(u)
  BY <1>2, <1>3 DEF AnyPin
<1>5. Base(v) = Base(u) /\ Base(u) \in Nat
  BY <1>2 DEF Base
<1>6. ClickDepth(v) < ClickDepth(u)
  BY <1>1, <1>4, <1>5 DEF ClickDepth, One
<1>7. u.popup # None => EscapeDepth(v) < EscapeDepth(u)
  BY <1>1, <1>2, <1>3, <1>5 DEF EscapeDepth, One
<1>8. QED
  BY <1>2, <1>6, <1>7 DEF v

LEMMA LeaveNetworkNearer ==
  ASSUME NoneIsNoTip, NEW u \in Ui, u.net # None
  PROVE  LET v == LeaveNetworkPanel(u) IN
         /\ v.focused = u.focused /\ ClickDepth(v) < ClickDepth(u)
         /\ EscapeDepth(v) < EscapeDepth(u)
<1> DEFINE v == LeaveNetworkPanel(u)
<1>1. /\ v.sel = None /\ v.net = None /\ ~v.detail /\ v.focused = u.focused
      /\ v.subsub = None /\ ~Pinned(v)
  BY LeaveNetworkTyped
<1> HIDE DEF v
<1>2. ClickDepth(v) = 1 /\ EscapeDepth(v) = 1
  BY <1>1 DEF ClickDepth, EscapeDepth, One, Base, AnyPin
<1>3. ClickDepth(u) > 1 /\ EscapeDepth(u) > 1
  BY DEF ClickDepth, EscapeDepth, One, Base
<1>4. QED
  BY <1>1, <1>2, <1>3 DEF v

LEMMA EscapeSubSubNearer ==
  ASSUME NEW u \in Ui, u.subsub # None
  PROVE  LET v == EscapeSubSub(u) IN
         v.focused = u.focused /\ EscapeDepth(v) < EscapeDepth(u)
<1> DEFINE s == HideSubSubTooltip(u)
           v == EscapeSubSub(u)
<1>1. \/ v = s
      \/ s.sub # None /\ v = PreviewSummaryLines(s, s.sub.ids)
      \/ v = ShowAll(s)
  BY DEF EscapeSubSub
<1>2. s \in Ui /\ Same(u, s, {"subsub", "legend"}) /\ s.subsub = None
  BY TipTyped
<1> HIDE DEF s, v
<1>3. s.sub # None => s.sub.ids \in SUBSET Peers
  BY <1>2, UiFields DEF SubSet
<1>4. /\ s.sub # None => Same(s, PreviewSummaryLines(s, s.sub.ids), {"filter", "lines"})
      /\ Same(s, ShowAll(s), {"filter", "lines"}) /\ Same(s, s, {"filter", "lines"})
  BY <1>2, <1>3, LinesTyped DEF Same
<1>5. Same(s, v, {"filter", "lines"})
  BY <1>1, <1>4
<1>6. /\ v.sel = u.sel /\ v.net = u.net /\ v.tip = u.tip /\ v.subsub = None
      /\ v.focused = u.focused /\ v.detail = u.detail /\ v.popup = u.popup
  BY <1>2, <1>5 DEF Same, Names
<1>7. (Pinned(v) <=> Pinned(u)) /\ Base(v) = Base(u) /\ Base(u) \in Nat
  BY <1>6 DEF Pinned, Base
<1>8. EscapeDepth(v) < EscapeDepth(u)
  BY <1>6, <1>7 DEF EscapeDepth, One
<1>9. QED
  BY <1>6, <1>8 DEF v

LEMMA EscapeTipNearer ==
  ASSUME NEW u \in Ui, Pinned(u), u.subsub = None
  PROVE  LET v == EscapeTip(u) IN
         v.focused = u.focused /\ EscapeDepth(v) < EscapeDepth(u)
<1> DEFINE t == HideSubTooltip(u)
           v == EscapeTip(u)
<1>1. v = IF t.summary THEN ClearSummarySubFilter(t)
          ELSE IF t.sel # None THEN ClearSubFilter(t) ELSE t
  BY DEF EscapeTip
<1>2. t \in Ui /\ Same(u, t, {"tip", "subsub", "legend"}) /\ t.tip = None /\ t.subsub = None
  BY TipTyped
<1> HIDE DEF t, v
<1> DEFINE Cleared == {"sub", "tip", "subsub", "insight", "legend", "rect", "filter", "lines", "over"}
           p == ClearSummarySubFilter(t)
           q == ClearSubFilter(t)
<1>3. /\ Same(t, p, Cleared) /\ p.tip = None /\ p.subsub = None
      /\ q.tip = None /\ q.subsub = None
  BY <1>2, ClearTyped DEF Bare
<1>4. Same(t, q, Cleared)
  <2>1. Same(t, q, {"sub", "tip", "subsub", "legend", "filter", "lines"})
    BY <1>2, ClearTyped
  <2> HIDE DEF q
  <2>2. QED
    BY <2>1 DEF Same
<1>5. Same(t, v, Cleared) /\ v.tip = None /\ v.subsub = None
  <2> HIDE DEF p, q
  <2>1. Same(t, t, Cleared)
    BY DEF Same
  <2>2. QED
    BY <1>1, <1>2, <1>3, <1>4, <2>1 DEF p, q
<1> HIDE DEF p, q
<1>6. /\ v.sel = u.sel /\ v.net = u.net /\ v.focused = u.focused /\ v.detail = u.detail
      /\ v.popup = u.popup
  BY <1>2, <1>5 DEF Same, Names
<1>7. ~Pinned(v) /\ Base(v) = Base(u) /\ Base(u) \in Nat
  BY <1>5, <1>6 DEF Pinned, Base
<1>8. EscapeDepth(v) < EscapeDepth(u)
  BY <1>5, <1>6, <1>7 DEF EscapeDepth, One
<1>9. QED
  BY <1>6, <1>8 DEF v

LEMMA DeselectNearer ==
  ASSUME NEW u \in Ui, ~u.summary, u.sel # None
  PROVE  LET v == Deselect(u) IN
         v.focused = u.focused /\ EscapeDepth(v) < EscapeDepth(u)
<1> DEFINE v == Deselect(u)
<1>1. v.net = None /\ Bare(v) /\ v.focused = u.focused /\ v.sel = None /\ ~v.detail
  BY DeselectTyped
<1> HIDE DEF v
<1>2. EscapeDepth(v) = 1
  BY <1>1 DEF EscapeDepth, One, Base, Bare, Pinned
<1>3. EscapeDepth(u) > 1
  BY DEF EscapeDepth, One, Base
<1>4. QED
  BY <1>1, <1>2, <1>3 DEF v

LEMMA EscapeNearer ==
  ASSUME NoneIsNoTip, NEW u, Sane(u), u.focused
  PROVE  LET v == Escape(u) IN
         IsOut(v) \/ (v.focused /\ EscapeDepth(v) < EscapeDepth(u))
<1>1. u \in Ui
  BY DEF Sane
<1>2. \/ u.detail /\ u.popup # None /\ Escape(u) = ClosePeerPopup(u)
      \/ u.subsub # None /\ Escape(u) = EscapeSubSub(u)
      \/ u.subsub = None /\ Pinned(u) /\ Escape(u) = EscapeTip(u)
      \/ u.net # None /\ Escape(u) = LeaveNetworkPanel(u)
      \/ ~u.summary /\ u.sel # None /\ Escape(u) = Deselect(u)
      \/ u.net = None /\ Escape(u) = ExitFocusedMode(u)
  BY DEF Escape
<1>3. QED
  BY <1>1, <1>2, ClosePopupNearer, EscapeSubSubNearer, EscapeTipNearer, LeaveNetworkNearer,
     DeselectNearer, ExitIsOut

LEMMA BlankClickNearer ==
  ASSUME NEW u \in Ui, AnyPin(u)
  PROVE  LET v == BlankClick(u) IN
         v.focused = u.focused /\ ClickDepth(v) < ClickDepth(u)
<1> DEFINE h == HideSubTooltip(u)
           d == DropSub(h)
           s == ShowAll(d)
           c == ClearSubFilter(h)
           v == BlankClick(u)
           Cleared == {"sub", "tip", "subsub", "legend", "filter", "lines"}
<1>1. v = s \/ v = c \/ v = h
  BY DEF BlankClick
<1>2. h \in Ui /\ Same(u, h, Cleared) /\ h.tip = None /\ h.subsub = None
  <2>1. h \in Ui /\ Same(u, h, {"tip", "subsub", "legend"}) /\ h.tip = None /\ h.subsub = None
    BY TipTyped
  <2> HIDE DEF h
  <2>2. QED
    BY <2>1 DEF Same
<1> HIDE DEF h, v
<1>3. d \in Ui /\ Same(h, d, {"sub"})
  BY <1>2, TipTyped
<1> HIDE DEF d
<1>4. Same(d, s, {"filter", "lines"})
  BY <1>3, LinesTyped
<1>5. Bare(c) /\ Same(h, c, Cleared)
  BY <1>2, ClearTyped
<1> HIDE DEF s, c
<1>6. s.tip = None /\ s.subsub = None /\ c.tip = None /\ c.subsub = None
  BY <1>2, <1>3, <1>4, <1>5 DEF Same, Names, Bare
<1>7. Same(u, s, Cleared) /\ Same(u, c, Cleared)
  BY <1>2, <1>3, <1>4, <1>5 DEF Same
<1>8. Same(u, v, Cleared) /\ v.tip = None /\ v.subsub = None
  BY <1>1, <1>2, <1>6, <1>7
<1>9. v.sel = u.sel /\ v.net = u.net /\ v.focused = u.focused /\ v.detail = u.detail
  BY <1>8 DEF Same, Names
<1>10. ~AnyPin(v) /\ Base(v) = Base(u) /\ Base(u) \in Nat
  BY <1>8, <1>9 DEF AnyPin, Pinned, Base
<1>11. ClickDepth(v) < ClickDepth(u)
  BY <1>9, <1>10 DEF ClickDepth, One
<1>12. QED
  BY <1>9, <1>11 DEF v

LEMMA SelectSummaryNearer ==
  ASSUME NoneIsNoTip, NEW u \in Ui, u.net = None, ~AnyPin(u), u.sel # None, u.focused
  PROVE  LET v == SelectSummary([u EXCEPT !.others = None, !.history = FALSE, !.sel = None]) IN
         v.focused = u.focused /\ ClickDepth(v) < ClickDepth(u)
<1> DEFINE s == [u EXCEPT !.others = None, !.history = FALSE, !.sel = None]
           v == SelectSummary(s)
<1>1. s \in Ui
  BY SetUi
<1>2. /\ s.sel = None /\ s.tip = u.tip /\ s.subsub = u.subsub /\ s.net = u.net
      /\ s.focused = u.focused
  BY DEF Ui
<1> HIDE DEF s
<1>3. Kin(s, v) /\ v.sel = None /\ ~v.detail /\ v.net \in {s.net, None} /\ v.focused = s.focused
  BY <1>1, <1>2, SelectSummaryTyped
<1> HIDE DEF v
<1>4. ~AnyPin(v)
  BY <1>2, <1>3 DEF Kin, AnyPin, Pinned, Retipped
<1>5. ClickDepth(v) = 1
  BY <1>2, <1>3, <1>4 DEF ClickDepth, One, Base
<1>6. ClickDepth(u) > 1
  BY DEF ClickDepth, One, Base
<1>7. QED
  BY <1>2, <1>3, <1>5, <1>6 DEF v, s

LEMMA MapClickNearer ==
  ASSUME NoneIsNoTip, NEW u, Sane(u), u.focused
  PROVE  LET v == MapClick(u) IN
         IsOut(v) \/ (v.focused /\ ClickDepth(v) < ClickDepth(u))
<1> DEFINE s == SelectSummary([u EXCEPT !.others = None, !.history = FALSE, !.sel = None])
<1>1. u \in Ui
  BY DEF Sane
<1>2. \/ u.net # None /\ MapClick(u) = LeaveNetworkPanel(u)
      \/ u.detail /\ MapClick(u) = ClosePeerPopup(u)
      \/ AnyPin(u) /\ MapClick(u) = BlankClick(u)
      \/ u.net = None /\ ~AnyPin(u) /\ u.sel # None /\ MapClick(u) = s
      \/ u.net = None /\ MapClick(u) = ExitFocusedMode(u)
  BY DEF MapClick
<1>3. u.net = None /\ ~AnyPin(u) /\ u.sel # None => s.focused = u.focused /\ ClickDepth(s) < ClickDepth(u)
  BY <1>1, SelectSummaryNearer
<1> HIDE DEF s
<1>4. QED
  BY <1>1, <1>2, <1>3, ClosePopupNearer, BlankClickNearer, LeaveNetworkNearer, ExitIsOut

LEMMA OutStays ==
  ASSUME NEW u, Agree(u), IsOut(u)
  PROVE  Escape(u) = u /\ MapClick(u) = u
<1>1. ~AnyPin(u) /\ u.subsub = None /\ ~Pinned(u)
  BY DEF IsOut, AnyPin, Pinned, Agree, Hung
<1>2. ExitFocusedMode(u) = u
  BY DEF IsOut, ExitFocusedMode
<1>3. QED
  BY <1>1, <1>2 DEF IsOut, Escape, MapClick

\* Out already, or n keys from it at most.
EscapesLeft(u, n) == Sane(u) /\ (IsOut(u) \/ (u.focused /\ EscapeDepth(u) <= n))
ClicksLeft(u, n)  == Sane(u) /\ (IsOut(u) \/ (u.focused /\ ClickDepth(u) <= n))

LEMMA OneLess ==
  ASSUME NoneIsNoTip, NEW u, NEW n \in Nat
  PROVE  /\ EscapesLeft(u, n + 1) => EscapesLeft(Escape(u), n)
         /\ ClicksLeft(u, n + 1) => ClicksLeft(MapClick(u), n)
<1>1. Sane(u) => Sane(Escape(u)) /\ Sane(MapClick(u))
  BY EscapeAgrees, MapClickAgrees, EscapeGood, MapClickGood DEF Sane, Good
<1>2. ASSUME EscapesLeft(u, n + 1) PROVE EscapesLeft(Escape(u), n)
  <2>1. CASE IsOut(u)
    BY <1>1, <1>2, <2>1, OutStays DEF EscapesLeft, Sane
  <2>2. CASE u.focused /\ EscapeDepth(u) <= n + 1
    <3> DEFINE v == Escape(u)
    <3>1. Sane(v) /\ (IsOut(v) \/ (v.focused /\ EscapeDepth(v) < EscapeDepth(u)))
      BY <1>1, <1>2, <2>2, EscapeNearer DEF EscapesLeft
    <3> HIDE DEF v
    <3>2. EscapeDepth(v) \in Int /\ EscapeDepth(u) \in Int
      BY DepthsBounded
    <3>3. QED
      BY <2>2, <3>1, <3>2 DEF EscapesLeft, v
  <2>3. QED
    BY <1>2, <2>1, <2>2 DEF EscapesLeft
<1>3. ASSUME ClicksLeft(u, n + 1) PROVE ClicksLeft(MapClick(u), n)
  <2>1. CASE IsOut(u)
    BY <1>1, <1>3, <2>1, OutStays DEF ClicksLeft, Sane
  <2>2. CASE u.focused /\ ClickDepth(u) <= n + 1
    <3> DEFINE v == MapClick(u)
    <3>1. Sane(v) /\ (IsOut(v) \/ (v.focused /\ ClickDepth(v) < ClickDepth(u)))
      BY <1>1, <1>3, <2>2, MapClickNearer DEF ClicksLeft
    <3> HIDE DEF v
    <3>2. ClickDepth(v) \in Int /\ ClickDepth(u) \in Int
      BY DepthsBounded
    <3>3. QED
      BY <2>2, <3>1, <3>2 DEF ClicksLeft, v
  <2>3. QED
    BY <1>3, <2>1, <2>2 DEF ClicksLeft
<1>4. QED
  BY <1>2, <1>3

LEMMA SixEscapes ==
  ASSUME NoneIsNoTip, NEW u, EscapesLeft(u, 6)
  PROVE  IsOut(Escape(Escape(Escape(Escape(Escape(Escape(u)))))))
<1>1. \A w : \A n \in Nat : EscapesLeft(w, n + 1) => EscapesLeft(Escape(w), n)
  BY OneLess
<1>2. EscapesLeft(Escape(u), 5)
  BY <1>1, 6 = 5 + 1
<1>3. EscapesLeft(Escape(Escape(u)), 4)
  BY <1>1, <1>2, 5 = 4 + 1
<1>4. EscapesLeft(Escape(Escape(Escape(u))), 3)
  BY <1>1, <1>3, 4 = 3 + 1
<1>5. EscapesLeft(Escape(Escape(Escape(Escape(u)))), 2)
  BY <1>1, <1>4, 3 = 2 + 1
<1>6. EscapesLeft(Escape(Escape(Escape(Escape(Escape(u))))), 1)
  BY <1>1, <1>5, 2 = 1 + 1
<1>7. EscapesLeft(Escape(Escape(Escape(Escape(Escape(Escape(u)))))), 0)
  BY <1>1, <1>6, 1 = 0 + 1
<1>8. QED
  BY <1>7, DepthsBounded DEF EscapesLeft

LEMMA SixClicks ==
  ASSUME NoneIsNoTip, NEW u, ClicksLeft(u, 6)
  PROVE  IsOut(MapClick(MapClick(MapClick(MapClick(MapClick(MapClick(u)))))))
<1>1. \A w : \A n \in Nat : ClicksLeft(w, n + 1) => ClicksLeft(MapClick(w), n)
  BY OneLess
<1>2. ClicksLeft(MapClick(u), 5)
  BY <1>1, 6 = 5 + 1
<1>3. ClicksLeft(MapClick(MapClick(u)), 4)
  BY <1>1, <1>2, 5 = 4 + 1
<1>4. ClicksLeft(MapClick(MapClick(MapClick(u))), 3)
  BY <1>1, <1>3, 4 = 3 + 1
<1>5. ClicksLeft(MapClick(MapClick(MapClick(MapClick(u)))), 2)
  BY <1>1, <1>4, 3 = 2 + 1
<1>6. ClicksLeft(MapClick(MapClick(MapClick(MapClick(MapClick(u))))), 1)
  BY <1>1, <1>5, 2 = 1 + 1
<1>7. ClicksLeft(MapClick(MapClick(MapClick(MapClick(MapClick(MapClick(u)))))), 0)
  BY <1>1, <1>6, 1 = 0 + 1
<1>8. QED
  BY <1>7, DepthsBounded DEF ClicksLeft

LEMMA SaneHasWayOut ==
  ASSUME NoneIsNoTip, Sound
  PROVE  WayOut
<1> SUFFICES ASSUME ~Resting
             PROVE  IsOut(SixTimes(Escape, ui)) /\ IsOut(SixTimes(MapClick, ui))
  BY DEF WayOut
<1>1. Sane(ui)
  BY DEF Sound, Sane
<1>2. ui.focused
  BY <1>1 DEF Resting, Sane, Agree, Views, Kept
<1>3. EscapesLeft(ui, 6) /\ ClicksLeft(ui, 6)
  BY <1>1, <1>2, DepthsBounded DEF EscapesLeft, ClicksLeft
<1>4. QED
  BY <1>3, SixEscapes, SixClicks DEF SixTimes

\* From wherever the user has got to, for any peers, rows and inputs, six times
\* Escape or six clicks on the empty map lead back to the plain map: each one
\* takes away the popup, a tooltip, the network, the provider or the summary,
\* in the order in which the handlers ask for them, and none brings one back.
THEOREM AlwaysAWayOut ==
  ASSUME NoneIsNoTip
  PROVE  Spec => []WayOut
<1>1. (Init => Sound) /\ (Sound /\ [Next]_ui => Sound')
  BY SoundStays
<1>2. Sound => WayOut
  BY SaneHasWayOut
<1>3. QED
  BY <1>1, <1>2, PTL DEF Spec
-----------------------------------------------------------------------------
(***************************************************************************)
(* What a refresh shows.                                                   *)
(***************************************************************************)
\* The further assumption of part 4: no filter and no second tooltip is None.
NoneIsNoFilter == DOMAIN None # {"row", "ids"} /\ DOMAIN None # {"as", "ids"}

Both(ids)       == [filter |-> ids, lines |-> ids]
Marked(u, ids)  == [filter |-> ids, lines |-> u.lines]
Drawn(u, ids)   == IF Segments(u.peers) = {} THEN u.lines ELSE ids
Preview(u, ids) == [filter |-> ids, lines |-> Drawn(u, ids \cap Linked(u.peers))]
Hover(u)        == [filter |-> u.filter, lines |-> Drawn(u, Linked(u.peers))]

LEMMA Shows ==
  ASSUME NEW u \in Ui, NEW ids
  PROVE  /\ Shown(Show(u, ids)) = Both(ids) /\ Shown(Filter(u, ids)) = Marked(u, ids)
         /\ Shown(PreviewSummaryLines(u, ids)) = Preview(u, ids)
         /\ Shown(ActivateHoverAll(u)) = Hover(u)
         /\ u.sel # None => Shown(PreviewProviderLines(u, ids)) = Both(ids)
<1>1. /\ Filter(u, ids).filter = ids /\ Filter(u, ids).lines = u.lines
      /\ Filter(u, ids).peers = u.peers /\ Filter(u, ids).sel = u.sel
      /\ DOMAIN Filter(u, ids) = Names
  BY DEF Filter, Ui, Names
<1>2. ASSUME NEW v, DOMAIN v = Names, NEW x
      PROVE  Draw(v, x).lines = x /\ Draw(v, x).filter = v.filter
  BY <1>2 DEF Draw, Names
<1>3. DOMAIN u = Names
  BY UiFields DEF IsUi
<1>4. Shown(Show(u, ids)) = Both(ids) /\ Shown(Filter(u, ids)) = Marked(u, ids)
  BY <1>1, <1>2 DEF Shown, Show, Both, Marked
<1>5. Shown(PreviewSummaryLines(u, ids)) = Preview(u, ids)
  BY <1>1, <1>2 DEF Shown, PreviewSummaryLines, Preview, Drawn
<1>6. Shown(ActivateHoverAll(u)) = Hover(u)
  BY <1>2, <1>3 DEF Shown, ActivateHoverAll, Hover, Drawn
<1>7. u.sel # None => Shown(PreviewProviderLines(u, ids)) = Both(ids)
  BY <1>1, <1>2 DEF Shown, PreviewProviderLines, Both
<1>8. QED
  BY <1>4, <1>5, <1>6, <1>7

\* Shown once more, the same is shown.
LEMMA ShowsAgain ==
  ASSUME NEW u, NEW v, v.peers = u.peers
  PROVE  /\ Shown(v) = Hover(u) => Hover(v) = Shown(v)
         /\ \A ids : /\ Shown(v) = Preview(u, ids) => Preview(v, ids) = Shown(v)
                     /\ Shown(v) = Marked(u, ids) => Marked(v, ids) = Shown(v)
<1>1. ASSUME Shown(v) = Hover(u) PROVE Hover(v) = Shown(v)
  <2>1. v.filter = u.filter /\ v.lines = Drawn(u, Linked(u.peers))
    BY <1>1 DEF Shown, Hover
  <2>2. QED
    BY <2>1 DEF Shown, Hover, Drawn
<1>2. ASSUME NEW ids, Shown(v) = Preview(u, ids) PROVE Preview(v, ids) = Shown(v)
  <2>1. v.filter = ids /\ v.lines = Drawn(u, ids \cap Linked(u.peers))
    BY <1>2 DEF Shown, Preview
  <2>2. QED
    BY <2>1 DEF Shown, Preview, Drawn
<1>3. ASSUME NEW ids, Shown(v) = Marked(u, ids) PROVE Marked(v, ids) = Shown(v)
  BY <1>3 DEF Shown, Marked
<1>4. QED
  BY <1>1, <1>2, <1>3

\* What is shown depends on three fields.
LEMMA ShowsOf ==
  ASSUME NEW u, NEW v, v.peers = u.peers, v.lines = u.lines, v.filter = u.filter
  PROVE  /\ Shown(v) = Shown(u) /\ Hover(v) = Hover(u)
         /\ \A ids : Preview(v, ids) = Preview(u, ids) /\ Marked(v, ids) = Marked(u, ids)
BY DEF Shown, Hover, Preview, Marked, Drawn

\* What a refresh may change where a selection stays.
Passing == {"filter", "lines", "sub", "subsub", "legend", "insight", "panel", "over", "tip"}
Passed(u, v) == v \in Ui /\ Same(u, v, Passing) /\ (AnyPin(v) <=> AnyPin(u))

\* The filter's row, which the list of peers is looked up by, is that of before.
SameRow(u, v) ==
  \/ v.sub = u.sub
  \/ u.sub # None /\ v.sub # None /\ v.sub.row = u.sub.row

LEMMA RowAgain ==
  ASSUME NEW u, NEW v, v.peers = u.peers, v.sel = u.sel, SameRow(u, v)
  PROVE  FreshIds(v) = FreshIds(u) /\ FreshCategory(v) = FreshCategory(u)
BY DEF SameRow, FreshIds, FreshCategory

LEMMA Refilters ==
  ASSUME NoneIsNoFilter, NEW u \in Ui, u.sub # None, NEW ids \in SUBSET Peers
  PROVE  LET v == Refilter(u, ids) IN
         /\ Passed(u, v) /\ Same(u, v, {"sub"}) /\ v.sub # None /\ v.sub.row = u.sub.row
         /\ v.sub.ids = ids
<1> DEFINE v == Refilter(u, ids)
<1>1. v \in Ui /\ Same(u, v, {"sub"}) /\ v.sub = [row |-> u.sub.row, ids |-> ids]
  BY RefilterTyped
<1> HIDE DEF v
<1>2. Same(u, v, Passing)
  BY <1>1 DEF Same, Passing
<1>3. v.tip = u.tip /\ v.subsub = u.subsub
  BY <1>1 DEF Same, Names
<1>4. AnyPin(v) <=> AnyPin(u)
  BY <1>3 DEF AnyPin, Pinned
<1>5. v.sub # None
  BY <1>1 DEF NoneIsNoFilter
<1>6. QED
  BY <1>1, <1>2, <1>4, <1>5 DEF Passed, v

LEMMA PassedOn ==
  ASSUME NEW u, NEW v, NEW w \in Ui, Passed(u, v), Same(v, w, {"filter", "lines", "legend", "over"})
  PROVE  Passed(u, w)
<1>1. Same(u, w, Passing)
  BY DEF Passed, Same, Passing
<1>2. w.tip = v.tip /\ w.subsub = v.subsub
  BY DEF Same, Names
<1>3. AnyPin(w) <=> AnyPin(v)
  BY <1>2 DEF AnyPin, Pinned
<1>4. QED
  BY <1>1, <1>3 DEF Passed

-----------------------------------------------------------------------------
(***************************************************************************)
(* A provider's panel.                                                     *)
(***************************************************************************)
ProviderIds(u) ==
  IF FreshIds(u) # {} THEN FreshIds(u)
  ELSE IF AnyPin(u) /\ u.sub # None /\ u.sub.ids # {} THEN u.sub.ids
  ELSE PeersOf(u.peers, u.sel)

ProviderShown(u) ==
  IF AnyPin(u) /\ Truthy(u.hovered)
  THEN IF u.hovered \in u.peers THEN Both({u.hovered}) ELSE Shown(u)
  ELSE Both(ProviderIds(u))

\* A panel built anew, with or without what hung over it.
LEMMA BuiltPasses ==
  ASSUME NoneIsNoTip, NEW u \in Ui, ~u.detail
  PROVE  /\ u.sel # None => LET v == OpenPanel(u, u.sel) IN
               Passed(u, v) /\ Same(u, v, PanelNames)
         /\ LET v == OpenSummaryPanel(u) IN Passed(u, v) /\ Same(u, v, PanelNames)
<1>1. ASSUME NEW v \in Ui, Same(u, v, PanelNames), Retipped(u.tip, v.tip)
      PROVE  Passed(u, v)
  <2>1. Same(u, v, Passing)
    BY <1>1 DEF Same, Passing, PanelNames
  <2>2. v.subsub = u.subsub
    BY <1>1 DEF Same, Names, PanelNames
  <2>3. AnyPin(v) <=> AnyPin(u)
    BY <1>1, <2>2 DEF AnyPin, Pinned, Retipped
  <2>4. QED
    BY <1>1, <2>1, <2>3 DEF Passed
<1>2. u.sel # None => u.sel \in AsOrOthers
  BY UiFields
<1>3. u.sel # None => LET v == OpenPanel(u, u.sel) IN
        v \in Ui /\ Same(u, v, PanelNames) /\ Retipped(u.tip, v.tip)
  BY <1>2, OpenTyped
<1>4. LET v == OpenSummaryPanel(u) IN
        v \in Ui /\ Same(u, v, PanelNames) /\ Retipped(u.tip, v.tip)
  BY OpenTyped
<1>5. QED
  BY <1>1, <1>3, <1>4

LEMMA UnhungPasses ==
  ASSUME NEW u, NEW b, Passed(u, b), ~AnyPin(u)
  PROVE  LET v == HideSubTooltip(DropSub(b)) IN Passed(u, v) /\ v.sub = None
                                               /\ v.filter = b.filter /\ v.lines = b.lines
<1> DEFINE d == DropSub(b)
           v == HideSubTooltip(d)
<1>1. d \in Ui /\ Same(b, d, {"sub"}) /\ d.sub = None
  BY TipTyped DEF Passed
<1> HIDE DEF d
<1>2. v \in Ui /\ Same(d, v, {"tip", "subsub", "legend"}) /\ v.tip = None /\ v.subsub = None
  BY <1>1, TipTyped
<1> HIDE DEF v
<1>3. Same(u, v, Passing)
  BY <1>1, <1>2 DEF Passed, Same, Passing
<1>4. v.sub = None /\ v.filter = b.filter /\ v.lines = b.lines
  BY <1>1, <1>2 DEF Same, Names
<1>5. ~AnyPin(v)
  BY <1>2 DEF AnyPin, Pinned
<1>6. QED
  BY <1>2, <1>3, <1>4, <1>5 DEF Passed, v, d

LEMMA ShownPasses ==
  ASSUME NEW u, NEW b, Passed(u, b), NEW ids \in SUBSET Peers
  PROVE  /\ LET v == Show(b, ids) IN
            Passed(u, v) /\ Same(b, v, {"filter", "lines"}) /\ Shown(v) = Both(ids)
         /\ LET v == Filter(b, ids) IN
            Passed(u, v) /\ Same(b, v, {"filter", "lines"}) /\ Shown(v) = Marked(b, ids)
         /\ LET v == PreviewSummaryLines(b, ids) IN
            Passed(u, v) /\ Same(b, v, {"filter", "lines"}) /\ Shown(v) = Preview(b, ids)
         /\ LET v == ActivateHoverAll(b) IN
            Passed(u, v) /\ Same(b, v, {"filter", "lines"}) /\ Shown(v) = Hover(b)
         /\ b.sel # None => LET v == PreviewProviderLines(b, ids) IN
            Passed(u, v) /\ Same(b, v, {"filter", "lines"}) /\ Shown(v) = Both(ids)
<1>1. b \in Ui
  BY DEF Passed
<1>2. ASSUME NEW v \in Ui, Same(b, v, {"filter", "lines"})
      PROVE  Passed(u, v)
  <2>1. Same(b, v, {"filter", "lines", "legend", "over"})
    BY <1>2 DEF Same
  <2>2. QED
    BY <2>1, PassedOn
<1>3. Show(b, ids) \in Ui /\ Same(b, Show(b, ids), {"filter", "lines"})
  BY <1>1, ShowTyped
<1>4. Filter(b, ids) \in Ui /\ Same(b, Filter(b, ids), {"filter", "lines"})
  <2>1. Filter(b, ids) \in Ui /\ Same(b, Filter(b, ids), {"filter"})
    BY <1>1, DrawTyped
  <2>2. QED
    BY <2>1 DEF Same
<1>5. /\ PreviewSummaryLines(b, ids) \in Ui
      /\ Same(b, PreviewSummaryLines(b, ids), {"filter", "lines"})
      /\ PreviewProviderLines(b, ids) \in Ui
      /\ Same(b, PreviewProviderLines(b, ids), {"filter", "lines"})
  BY <1>1, LinesTyped
<1>6. ActivateHoverAll(b) \in Ui /\ Same(b, ActivateHoverAll(b), {"filter", "lines"})
  <2>1. ActivateHoverAll(b) \in Ui /\ Same(b, ActivateHoverAll(b), {"lines"})
    BY <1>1, LinesTyped
  <2>2. QED
    BY <2>1 DEF Same
<1>7. Passed(u, Show(b, ids)) /\ Passed(u, Filter(b, ids)) /\ Passed(u, ActivateHoverAll(b))
  BY <1>2, <1>3, <1>4, <1>6
<1>8. Passed(u, PreviewSummaryLines(b, ids)) /\ Passed(u, PreviewProviderLines(b, ids))
  BY <1>2, <1>5
<1>9. QED
  BY <1>1, <1>3, <1>4, <1>5, <1>6, <1>7, <1>8, Shows

\* What a refresh of a provider's panel shows, and leaves behind.
LEMMA ProviderPasses ==
  ASSUME NoneIsNoTip, NoneIsNoFilter, NEW u \in Ui, u.sel # None, ~u.detail,
         Known(u.peers, u.sel)
  PROVE  LET v == RefreshProvider(u) IN
         /\ Passed(u, v) /\ Shown(v) = ProviderShown(u)
         /\ FreshIds(u) # {} => SameRow(u, v)
         /\ FreshIds(u) = {} => v.sub = IF AnyPin(u) THEN u.sub ELSE None
<1> DEFINE seg   == PeersOf(u.peers, u.sel)
           fresh == FreshIds(u)
           pin   == IF fresh # {} THEN Refilter(u, fresh) ELSE u
           built == OpenPanel(u, u.sel)
           all   == IF pin.sub # None /\ pin.sub.ids # {} THEN pin.sub.ids ELSE seg
           gone  == HideSubTooltip(DropSub(built))
           again == Refilter(built, fresh)
           v     == RefreshProvider(u)
           Left  == /\ fresh # {} => SameRow(u, v)
                    /\ fresh = {} => v.sub = IF AnyPin(u) THEN u.sub ELSE None
<1>1. v = IF AnyPin(u)
          THEN IF Truthy(u.hovered)
               THEN IF u.hovered \in u.peers THEN PreviewProviderLines(pin, {u.hovered}) ELSE pin
               ELSE Show(pin, all)
          ELSE IF fresh # {} THEN Show(again, fresh)
          ELSE IF u.sub # None THEN Show(gone, seg) ELSE Show(built, seg)
  BY DEF RefreshProvider
<1>2. seg \in SUBSET Peers /\ u.peers \in SUBSET Peers
  BY UiFields, PeerSets
<1>3. fresh \in SUBSET Peers /\ (fresh # {} => u.sub # None)
  BY FreshTyped
<1>4. Passed(u, built) /\ Same(u, built, PanelNames)
  BY BuiltPasses
<1>5. ProviderShown(u) = IF AnyPin(u) /\ Truthy(u.hovered)
                         THEN IF u.hovered \in u.peers THEN Both({u.hovered}) ELSE Shown(u)
                         ELSE Both(IF fresh # {} THEN fresh
                                   ELSE IF AnyPin(u) /\ u.sub # None /\ u.sub.ids # {} THEN u.sub.ids
                                   ELSE seg)
  BY DEF ProviderShown, ProviderIds
<1> HIDE DEF seg, fresh, built, v
<1>6. Passed(u, u)
  BY DEF Passed, Same
<1>7. ASSUME AnyPin(u)
      PROVE  Passed(u, v) /\ Shown(v) = ProviderShown(u) /\ Left
  <2>1. /\ Passed(u, pin) /\ Same(u, pin, {"sub"}) /\ SameRow(u, pin) /\ (fresh = {} => pin.sub = u.sub)
        /\ fresh # {} => pin.sub # None /\ pin.sub.ids = fresh
    <3>1. CASE fresh # {}
      <4>1. LET r == Refilter(u, fresh) IN
            /\ Passed(u, r) /\ Same(u, r, {"sub"}) /\ r.sub # None /\ r.sub.row = u.sub.row
            /\ r.sub.ids = fresh
        BY <1>3, <3>1, Refilters
      <4>2. QED
        BY <1>3, <3>1, <4>1 DEF SameRow
    <3>2. CASE fresh = {}
      BY <1>6, <3>2 DEF SameRow, Same
    <3>3. QED
      BY <3>1, <3>2
  <2> HIDE DEF pin
  <2>2. /\ Shown(pin) = Shown(u) /\ pin.sel = u.sel
    BY <2>1 DEF Same, Names, Shown
  <2>3. all \in SUBSET Peers
    <3>1. pin.sub # None => pin.sub.ids \in SUBSET Peers
      BY <2>1, UiFields DEF SubSet, Passed
    <3>2. QED
      BY <1>2, <3>1
  <2>4. all = IF fresh # {} THEN fresh
              ELSE IF u.sub # None /\ u.sub.ids # {} THEN u.sub.ids ELSE seg
    BY <2>1
  <2> HIDE DEF all
  <2>5. ASSUME NEW x, Passed(u, x), Same(pin, x, {"filter", "lines"}), x = v
        PROVE  Left
    <3>1. x.sub = pin.sub
      BY <2>5 DEF Same, Names
    <3>2. QED
      BY <1>7, <2>1, <2>5, <3>1 DEF SameRow
  <2>6. CASE Truthy(u.hovered) /\ u.hovered \in u.peers
    <3> DEFINE x == PreviewProviderLines(pin, {u.hovered})
    <3>1. {u.hovered} \in SUBSET Peers
      BY <1>2, <2>6
    <3>2. Passed(u, x) /\ Same(pin, x, {"filter", "lines"}) /\ Shown(x) = Both({u.hovered})
      BY <2>1, <2>2, <3>1, ShownPasses
    <3>3. x = v
      BY <1>1, <1>7, <2>6
    <3> HIDE DEF x
    <3>4. QED
      BY <1>5, <1>7, <2>5, <2>6, <3>2, <3>3
  <2>7. CASE Truthy(u.hovered) /\ u.hovered \notin u.peers
    <3>1. pin = v
      BY <1>1, <1>7, <2>7
    <3>2. Same(pin, pin, {"filter", "lines"})
      BY DEF Same
    <3>3. QED
      BY <1>5, <1>7, <2>1, <2>2, <2>5, <2>7, <3>1, <3>2
  <2>8. CASE ~Truthy(u.hovered)
    <3> DEFINE x == Show(pin, all)
    <3>1. Passed(u, x) /\ Same(pin, x, {"filter", "lines"}) /\ Shown(x) = Both(all)
      BY <2>1, <2>3, ShownPasses
    <3>2. x = v
      BY <1>1, <1>7, <2>8
    <3> HIDE DEF x
    <3>3. QED
      BY <1>5, <1>7, <2>4, <2>5, <2>8, <3>1, <3>2
  <2>9. QED
    BY <2>6, <2>7, <2>8
<1> HIDE DEF pin, all
<1>8. ASSUME ~AnyPin(u)
      PROVE  Passed(u, v) /\ Shown(v) = ProviderShown(u) /\ Left
  <2>1. built.sub = u.sub
    BY <1>4 DEF Same, Names, PanelNames
  <2>2. CASE fresh # {}
    <3> DEFINE x == Show(again, fresh)
    <3>1. built \in Ui /\ built.sub # None /\ (AnyPin(built) <=> AnyPin(u))
      BY <1>3, <1>4, <2>1, <2>2 DEF Passed
    <3>2. Passed(built, again) /\ again.sub # None /\ again.sub.row = built.sub.row
      BY <1>3, <3>1, Refilters
    <3> HIDE DEF again
    <3>3. Passed(u, again)
      BY <1>4, <3>2 DEF Passed, Same
    <3>4. Passed(u, x) /\ Same(again, x, {"filter", "lines"}) /\ Shown(x) = Both(fresh)
      BY <1>3, <3>3, ShownPasses
    <3>5. x = v
      BY <1>1, <1>8, <2>2
    <3> HIDE DEF x
    <3>6. x.sub = again.sub
      BY <3>4 DEF Same, Names
    <3>7. SameRow(u, x)
      BY <1>3, <2>1, <2>2, <3>2, <3>6 DEF SameRow
    <3>8. QED
      BY <1>5, <1>8, <2>2, <3>4, <3>5, <3>7
  <2>3. CASE fresh = {} /\ u.sub # None
    <3> DEFINE x == Show(gone, seg)
    <3>1. Passed(u, gone) /\ gone.sub = None
      BY <1>4, <1>8, UnhungPasses
    <3> HIDE DEF gone
    <3>2. Passed(u, x) /\ Same(gone, x, {"filter", "lines"}) /\ Shown(x) = Both(seg)
      BY <1>2, <3>1, ShownPasses
    <3>3. x = v
      BY <1>1, <1>8, <2>3
    <3> HIDE DEF x
    <3>4. x.sub = None
      BY <3>1, <3>2 DEF Same, Names
    <3>5. QED
      BY <1>5, <1>8, <2>3, <3>2, <3>3, <3>4
  <2>4. CASE fresh = {} /\ u.sub = None
    <3> DEFINE x == Show(built, seg)
    <3>1. Passed(u, x) /\ Same(built, x, {"filter", "lines"}) /\ Shown(x) = Both(seg)
      BY <1>2, <1>4, ShownPasses
    <3>2. x = v
      BY <1>1, <1>8, <2>4
    <3> HIDE DEF x
    <3>3. x.sub = None
      BY <2>1, <2>4, <3>1 DEF Same, Names
    <3>4. QED
      BY <1>5, <1>8, <2>4, <3>1, <3>2, <3>3
  <2>5. QED
    BY <2>2, <2>3, <2>4
<1>9. QED
  BY <1>7, <1>8 DEF v, fresh

\* Nothing but the pointer and the legend differs at the next refresh.
LEMMA ProviderSettles ==
  ASSUME NoneIsNoTip, NoneIsNoFilter, NEW u \in Ui, u.sel # None, ~u.detail,
         Known(u.peers, u.sel), NEW w, Same(RefreshProvider(u), w, {"legend", "over"})
  PROVE  ProviderShown(w) = Shown(w)
<1> DEFINE v == RefreshProvider(u)
<1>1. /\ Passed(u, v) /\ Shown(v) = ProviderShown(u)
      /\ FreshIds(u) # {} => SameRow(u, v)
      /\ FreshIds(u) = {} => v.sub = IF AnyPin(u) THEN u.sub ELSE None
  BY ProviderPasses
<1>2. Same(v, w, {"legend", "over"})
  OBVIOUS
<1> HIDE DEF v
<1>3. /\ w.peers = u.peers /\ w.sel = u.sel /\ w.hovered = u.hovered
      /\ w.tip = v.tip /\ w.subsub = v.subsub /\ w.sub = v.sub
      /\ w.filter = v.filter /\ w.lines = v.lines
  BY <1>1, <1>2 DEF Passed, Same, Names, Passing
<1>4. AnyPin(w) <=> AnyPin(u)
  BY <1>1, <1>3 DEF Passed, AnyPin, Pinned
<1>5. FreshIds(w) = FreshIds(u)
  <2>1. CASE FreshIds(u) # {}
    BY <1>1, <1>3, <2>1, RowAgain DEF SameRow
  <2>2. CASE FreshIds(u) = {} /\ AnyPin(u)
    BY <1>1, <1>3, <2>2, RowAgain DEF SameRow
  <2>3. CASE FreshIds(u) = {} /\ ~AnyPin(u)
    BY <1>1, <1>3, <2>3 DEF FreshIds
  <2>4. QED
    BY <2>1, <2>2, <2>3
<1>6. Shown(w) = ProviderShown(u)
  BY <1>1, <1>3 DEF Shown
<1>7. ProviderIds(w) = ProviderIds(u)
  <2>1. CASE FreshIds(u) # {}
    BY <1>5, <2>1 DEF ProviderIds
  <2>2. CASE FreshIds(u) = {} /\ AnyPin(u)
    BY <1>1, <1>3, <1>4, <1>5, <2>2 DEF ProviderIds
  <2>3. CASE FreshIds(u) = {} /\ ~AnyPin(u)
    BY <1>3, <1>4, <1>5, <2>3 DEF ProviderIds
  <2>4. QED
    BY <2>1, <2>2, <2>3
<1>8. QED
  BY <1>3, <1>4, <1>6, <1>7 DEF ProviderShown

-----------------------------------------------------------------------------
(***************************************************************************)
(* The summary's panel: the second tooltip, and the filter of a row.       *)
(***************************************************************************)
Parent(u) ==
  IF FreshCategory(u) # {} THEN FreshCategory(u)
  ELSE IF u.sub # None /\ u.sub.row.k = "conn-others" THEN PeersOf(u.peers, "Others")
  ELSE {}

SubSubIds(u) ==
  LET group == GroupPeers(u.peers, u.subsub.as)
  IN  IF Parent(u) = {} THEN group ELSE group \cap Parent(u)

LEMMA SubSubPasses ==
  ASSUME NoneIsNoFilter, NEW u \in Ui, u.subsub # None, GroupPeers(u.peers, u.subsub.as) # {}
  PROVE  LET v == RefreshSubSub(u) IN
         /\ Passed(u, v) /\ Shown(v) = Both(HoveredOr(u, SubSubIds(u)))
         /\ SameRow(u, v) /\ v.subsub # None /\ v.subsub.as = u.subsub.as
<1> DEFINE ids == SubSubIds(u)
           r   == IF Parent(u) = {} THEN u ELSE Refilter(u, Parent(u))
           s   == [r.subsub EXCEPT !.ids = ids]
           w   == [r EXCEPT !.subsub = s]
           lit == HoveredOr(u, ids)
           v   == RefreshSubSub(u)
<1>1. v = Show([r EXCEPT !.subsub = [@ EXCEPT !.ids = ids]], lit)
  BY DEF RefreshSubSub, SubSubIds, Parent
<1>2. Parent(u) \in SUBSET Peers /\ (Parent(u) # {} => u.sub # None)
  BY UiFields, PeerSets, FreshTyped DEF Parent
<1>3. ids \in SUBSET Peers
  BY <1>2, UiFields, PeerSets DEF SubSubIds
<1> HIDE DEF ids, v
<1>4. lit \in SUBSET Peers
  BY <1>3, FreshTyped
<1>5. r \in Ui /\ Passed(u, r) /\ SameRow(u, r) /\ r.subsub = u.subsub
  <2>1. CASE Parent(u) # {}
    <3> DEFINE q == Refilter(u, Parent(u))
    <3>1. Passed(u, q) /\ Same(u, q, {"sub"}) /\ q.sub # None /\ q.sub.row = u.sub.row
      BY <1>2, <2>1, Refilters
    <3> HIDE DEF q
    <3>2. q.subsub = u.subsub
      BY <3>1 DEF Same, Names
    <3>3. q \in Ui /\ SameRow(u, q)
      BY <1>2, <2>1, <3>1 DEF Passed, SameRow
    <3>4. QED
      BY <2>1, <3>1, <3>2, <3>3 DEF q
  <2>2. CASE Parent(u) = {}
    BY <2>2 DEF Passed, Same, SameRow
  <2>3. QED
    BY <2>1, <2>2
<1> HIDE DEF r
<1>6. s \in SubsubSet /\ s.as = u.subsub.as /\ s # None
  <2>1. u.subsub \in [as : Systems, ids : SUBSET Peers]
    BY UiFields DEF SubsubSet
  <2>2. s = [as |-> u.subsub.as, ids |-> ids]
    BY <1>5, <2>1
  <2> HIDE DEF s
  <2>3. s \in SubsubSet
    BY <1>3, <2>1, <2>2 DEF SubsubSet
  <2>4. s # None
    BY <2>2 DEF NoneIsNoFilter
  <2>5. QED
    BY <2>2, <2>3, <2>4
<1>7. [r EXCEPT !.subsub = [@ EXCEPT !.ids = ids]] = w
  BY <1>5 DEF Ui
<1> HIDE DEF s
<1>8. w \in Ui
  BY <1>5, <1>6, SetUi
<1>9. Same(r, w, {"subsub"}) /\ w.subsub = s
  BY <1>5 DEF Ui, Same, Names
<1> HIDE DEF w
<1>10. Passed(u, w) /\ w.sub = r.sub
  <2>1. Same(u, w, Passing)
    BY <1>5, <1>9 DEF Passed, Same, Passing
  <2>2. AnyPin(w) /\ AnyPin(u)
    BY <1>6, <1>9 DEF AnyPin
  <2>3. w.sub = r.sub
    BY <1>9 DEF Same, Names
  <2>4. QED
    BY <1>8, <2>1, <2>2, <2>3 DEF Passed
<1> HIDE DEF lit
<1> DEFINE x == Show(w, lit)
<1>11. Passed(u, x) /\ Same(w, x, {"filter", "lines"}) /\ Shown(x) = Both(lit)
  BY <1>4, <1>10, ShownPasses
<1>12. x = v
  BY <1>1, <1>7
<1> HIDE DEF x
<1>13. x.sub = r.sub /\ x.subsub = s
  BY <1>9, <1>10, <1>11 DEF Same, Names
<1>14. QED
  BY <1>5, <1>6, <1>11, <1>12, <1>13 DEF v, lit, ids, SameRow

ListShown(u, ids) ==
  IF u.legend = None THEN Preview(u, ids)
  ELSE IF u.legend \in Groups(u.peers) THEN Both(GroupPeers(u.peers, u.legend) \cap ids)
  ELSE Shown(u)

\* The fields that the refresh of a filter leaves alone.
Undisturbed(u, v) ==
  /\ Passed(u, v) /\ SameRow(u, v) /\ v.legend = u.legend /\ v.subsub = u.subsub

LEMMA ListPasses ==
  ASSUME NoneIsNoFilter, NEW u \in Ui, u.sub # None, NEW ids \in SUBSET Peers
  PROVE  LET v == RefreshList(u, ids) IN
         Undisturbed(u, v) /\ v.insight = u.insight /\ Shown(v) = ListShown(u, ids)
<1> DEFINE r   == Refilter(u, ids)
           lit == GroupPeers(u.peers, u.legend) \cap ids
           v   == RefreshList(u, ids)
<1>1. v = IF u.legend = None THEN PreviewSummaryLines(r, ids)
          ELSE IF u.legend \in Groups(u.peers) THEN Show(r, lit) ELSE r
  BY DEF RefreshList
<1>2. ListShown(u, ids) = IF u.legend = None THEN Preview(u, ids)
                          ELSE IF u.legend \in Groups(u.peers) THEN Both(lit) ELSE Shown(u)
  BY DEF ListShown
<1>3. lit \in SUBSET Peers
  OBVIOUS
<1>4. Passed(u, r) /\ Same(u, r, {"sub"}) /\ r.sub # None /\ r.sub.row = u.sub.row
  BY Refilters
<1> HIDE DEF r, lit, v
<1>5. /\ r.peers = u.peers /\ r.lines = u.lines /\ r.filter = u.filter
  BY <1>4 DEF Same, Names
<1>6. Preview(r, ids) = Preview(u, ids) /\ Shown(r) = Shown(u)
  BY <1>5, ShowsOf
<1>7. /\ Passed(u, PreviewSummaryLines(r, ids))
      /\ Same(r, PreviewSummaryLines(r, ids), {"filter", "lines"})
      /\ Shown(PreviewSummaryLines(r, ids)) = Preview(u, ids)
  BY <1>4, <1>6, ShownPasses
<1>8. /\ Passed(u, Show(r, lit)) /\ Same(r, Show(r, lit), {"filter", "lines"})
      /\ Shown(Show(r, lit)) = Both(lit)
  BY <1>3, <1>4, ShownPasses
<1>9. Same(r, r, {"filter", "lines"})
  BY DEF Same
<1>10. Passed(u, v) /\ Same(r, v, {"filter", "lines"}) /\ Shown(v) = ListShown(u, ids)
  BY <1>1, <1>2, <1>4, <1>6, <1>7, <1>8, <1>9
<1>11. v.sub = r.sub /\ v.legend = u.legend /\ v.subsub = u.subsub /\ v.insight = u.insight
  BY <1>4, <1>10 DEF Same, Names
<1>12. QED
  BY <1>4, <1>10, <1>11 DEF Undisturbed, SameRow, v

\* The peers of a row's provider, whose direction is this word.
Worded(u, word) == {p \in GroupPeers(u.peers, u.sub.row.v) : Direction[p] = word}

RowShown(u) ==
  LET row   == u.sub.row
      group == GroupPeers(u.peers, row.v)
  IN  CASE row.k \in {"insight-stable"} -> Both(group)
        [] row.k = "conn-provider"    -> Both(HoveredOr(u, group))
        [] row.k = "conn-out"         -> Marked(u, Worded(u, "outbound"))
        [] row.k = "conn-in"          -> Marked(u, Worded(u, "inbound"))
        [] OTHER                      -> Shown(u)

SubShown(u) ==
  LET row == u.sub.row IN
  IF row.k \in CategoryKinds
  THEN IF FreshCategory(u) = {} THEN Shown(u) ELSE ListShown(u, FreshCategory(u))
  ELSE IF row.k = "conn-others"
  THEN IF HasOthers(u.peers) THEN ListShown(u, PeersOf(u.peers, "Others")) ELSE Shown(u)
  ELSE IF row.k \in Ranking
  THEN IF u.insight \in Groups(u.peers) THEN Both(GroupPeers(u.peers, u.insight)) ELSE Shown(u)
  ELSE IF row.v \notin Groups(u.peers) THEN Shown(u) ELSE RowShown(u)

\* A row's filter, with no second tooltip open.
LEMMA RowPasses ==
  ASSUME AsDataAssumption, NoneIsNoFilter, NEW u \in Ui, u.sub # None,
         u.sub.row.v \in Groups(u.peers), u.sub.row.k \notin CategoryKinds \cup Ranking,
         u.sub.row.k # "conn-others"
  PROVE  LET v == RefreshSub(u) IN
         /\ Undisturbed(u, v) /\ Shown(v) = RowShown(u)
<1> DEFINE row   == u.sub.row
           group == GroupPeers(u.peers, row.v)
           r     == Refilter(u, group)
           s     == [r EXCEPT !.insight = row.v]
           lit   == HoveredOr(u, group)
           out   == Worded(u, "outbound")
           in    == Worded(u, "inbound")
           v     == RefreshSub(u)
<1>1. v = CASE row.k = "insight-stable" -> Show(s, group)
            [] row.k = "conn-provider" -> Show(r, lit)
            [] row.k = "conn-out" -> Filter(Refilter(u, out), out)
            [] row.k = "conn-in"  -> Filter(Refilter(u, in), in)
            [] OTHER              -> u
  BY DEF RefreshSub, RefreshDirection, Worded
<1>2. RowShown(u) = CASE row.k = "insight-stable" -> Both(group)
                      [] row.k = "conn-provider"  -> Both(lit)
                      [] row.k = "conn-out"       -> Marked(u, out)
                      [] row.k = "conn-in"        -> Marked(u, in)
                      [] OTHER                    -> Shown(u)
  BY DEF RowShown
<1>3. group \in SUBSET Peers /\ out \in SUBSET Peers /\ in \in SUBSET Peers
  BY UiFields, PeerSets DEF Worded
<1>4. row.v \in Systems
  BY UiFields, Providers
<1> HIDE DEF group, out, in, v, row
<1>5. lit \in SUBSET Peers
  BY <1>3, FreshTyped
<1> HIDE DEF lit
<1>6. ASSUME NEW ids \in SUBSET Peers
      PROVE  /\ Undisturbed(u, Refilter(u, ids))
             /\ Marked(Refilter(u, ids), ids) = Marked(u, ids)
  <2> DEFINE q == Refilter(u, ids)
  <2>1. Passed(u, q) /\ Same(u, q, {"sub"}) /\ q.sub # None /\ q.sub.row = u.sub.row
    BY <1>6, Refilters
  <2> HIDE DEF q
  <2>2. q.legend = u.legend /\ q.subsub = u.subsub /\ q.lines = u.lines
    BY <2>1 DEF Same, Names
  <2>3. QED
    BY <2>1, <2>2 DEF Undisturbed, SameRow, Marked, q
<1>7. ASSUME NEW q, Undisturbed(u, q), NEW x, Passed(u, x), Same(q, x, {"filter", "lines"})
      PROVE  Undisturbed(u, x)
  <2>1. x.sub = q.sub /\ x.legend = q.legend /\ x.subsub = q.subsub
    BY <1>7 DEF Same, Names
  <2>2. QED
    BY <1>7, <2>1 DEF Undisturbed, SameRow
<1>8. ASSUME NEW q, Undisturbed(u, q), NEW ids \in SUBSET Peers
      PROVE  /\ Undisturbed(u, Show(q, ids)) /\ Shown(Show(q, ids)) = Both(ids)
             /\ Undisturbed(u, Filter(q, ids)) /\ Shown(Filter(q, ids)) = Marked(q, ids)
  <2>1. Passed(u, q)
    BY <1>8 DEF Undisturbed
  <2>2. /\ Passed(u, Show(q, ids)) /\ Same(q, Show(q, ids), {"filter", "lines"})
        /\ Passed(u, Filter(q, ids)) /\ Same(q, Filter(q, ids), {"filter", "lines"})
        /\ Shown(Show(q, ids)) = Both(ids) /\ Shown(Filter(q, ids)) = Marked(q, ids)
    BY <1>8, <2>1, ShownPasses
  <2>3. QED
    BY <1>7, <1>8, <2>2
<1>9. Undisturbed(u, r)
  BY <1>3, <1>6
<1> HIDE DEF r
<1>10. Undisturbed(u, s)
  <2>1. s \in Ui
    BY <1>4, <1>9, SetUi DEF Undisturbed, Passed
  <2>2. Same(r, s, {"insight"})
    BY <1>9 DEF Undisturbed, Passed, Ui, Same, Names
  <2> HIDE DEF s
  <2>3. Same(u, s, Passing)
    BY <1>9, <2>2 DEF Undisturbed, Passed, Same, Passing
  <2>4. s.sub = r.sub /\ s.legend = r.legend /\ s.subsub = r.subsub /\ s.tip = r.tip
    BY <2>2 DEF Same, Names
  <2>5. AnyPin(s) <=> AnyPin(r)
    BY <2>4 DEF AnyPin, Pinned
  <2>6. QED
    BY <1>9, <2>1, <2>3, <2>4, <2>5 DEF Undisturbed, Passed, SameRow
<1> HIDE DEF s
<1>11. Undisturbed(u, u)
  BY DEF Undisturbed, Passed, Same, SameRow
<1>12. CASE row.k = "insight-stable"
  BY <1>1, <1>2, <1>3, <1>8, <1>10, <1>12 DEF v
<1>13. CASE row.k = "conn-provider"
  BY <1>1, <1>2, <1>5, <1>8, <1>9, <1>13 DEF v
<1>14. CASE row.k = "conn-out"
  <2>1. Undisturbed(u, Refilter(u, out)) /\ Marked(Refilter(u, out), out) = Marked(u, out)
    BY <1>3, <1>6
  <2>2. QED
    BY <1>1, <1>2, <1>3, <1>8, <1>14, <2>1 DEF v
<1>15. CASE row.k = "conn-in"
  <2>1. Undisturbed(u, Refilter(u, in)) /\ Marked(Refilter(u, in), in) = Marked(u, in)
    BY <1>3, <1>6
  <2>2. QED
    BY <1>1, <1>2, <1>3, <1>8, <1>15, <2>1 DEF v
<1>16. CASE row.k \notin {"insight-stable", "conn-provider", "conn-out", "conn-in"}
  BY <1>1, <1>2, <1>11, <1>16 DEF v
<1>17. QED
  BY <1>12, <1>13, <1>14, <1>15, <1>16

LEMMA SubPasses ==
  ASSUME AsDataAssumption, NoneIsNoFilter, NEW u \in Ui, u.sub # None
  PROVE  LET v == RefreshSub(u) IN
         /\ Undisturbed(u, v) /\ Shown(v) = SubShown(u)
         /\ u.sub.row.k \in Ranking => v.insight = u.insight
<1> DEFINE row == u.sub.row
           v   == RefreshSub(u)
<1>1. Undisturbed(u, u)
  BY DEF Undisturbed, Passed, Same, SameRow
<1>2. \A a : GroupPeers(u.peers, a) \in SUBSET Peers /\ PeersOf(u.peers, a) \in SUBSET Peers
  BY UiFields, PeerSets
<1>3. FreshCategory(u) \in SUBSET Peers
  BY FreshTyped
<1>4. "conn-others" \notin CategoryKinds /\ \A k \in Ranking : k \notin CategoryKinds
  BY DEF CategoryKinds, Ranking
<1>5. CASE row.k \in CategoryKinds
  <2>1. v = IF FreshCategory(u) = {} THEN u ELSE RefreshList(u, FreshCategory(u))
    BY <1>5 DEF RefreshSub
  <2>2. SubShown(u) = IF FreshCategory(u) = {} THEN Shown(u) ELSE ListShown(u, FreshCategory(u))
    BY <1>5 DEF SubShown
  <2> HIDE DEF v
  <2>3. QED
    BY <1>1, <1>3, <1>4, <1>5, <2>1, <2>2, ListPasses DEF v
<1>6. CASE row.k = "conn-others"
  <2> DEFINE ids == PeersOf(u.peers, "Others")
  <2>1. v = IF HasOthers(u.peers) THEN RefreshList(u, ids) ELSE u
    BY <1>4, <1>6 DEF RefreshSub
  <2>2. SubShown(u) = IF HasOthers(u.peers) THEN ListShown(u, ids) ELSE Shown(u)
    BY <1>4, <1>6 DEF SubShown
  <2>3. ids \in SUBSET Peers
    BY <1>2
  <2>4. row.k \notin Ranking
    BY <1>6 DEF Ranking
  <2> HIDE DEF v, ids
  <2>5. QED
    BY <1>1, <2>1, <2>2, <2>3, <2>4, ListPasses DEF v
<1>7. CASE row.k \in Ranking
  <2> DEFINE ids == GroupPeers(u.peers, u.insight)
             x   == Show(u, ids)
  <2>1. row.k # "conn-others" /\ row.k \notin CategoryKinds
    BY <1>4, <1>7 DEF Ranking
  <2>2. v = IF u.insight \in Groups(u.peers) THEN x ELSE u
    BY <1>7, <2>1 DEF RefreshSub
  <2>3. SubShown(u) = IF u.insight \in Groups(u.peers) THEN Both(ids) ELSE Shown(u)
    BY <1>7, <2>1 DEF SubShown
  <2>4. Passed(u, x) /\ Same(u, x, {"filter", "lines"}) /\ Shown(x) = Both(ids)
    <3>1. Passed(u, u) /\ ids \in SUBSET Peers
      BY <1>1, <1>2 DEF Undisturbed
    <3>2. QED
      BY <3>1, ShownPasses
  <2> HIDE DEF v, x, ids
  <2>5. x.sub = u.sub /\ x.legend = u.legend /\ x.subsub = u.subsub /\ x.insight = u.insight
    BY <2>4 DEF Same, Names
  <2>6. Undisturbed(u, x)
    BY <2>4, <2>5 DEF Undisturbed, SameRow
  <2>7. QED
    BY <1>1, <2>2, <2>3, <2>4, <2>5, <2>6 DEF v
<1>8. CASE row.k \notin CategoryKinds \cup Ranking /\ row.k # "conn-others"
  <2>1. CASE row.v \notin Groups(u.peers)
    <3>1. v = u /\ SubShown(u) = Shown(u)
      BY <1>8, <2>1 DEF RefreshSub, SubShown
    <3>2. QED
      BY <1>1, <3>1
  <2>2. CASE row.v \in Groups(u.peers)
    <3>1. SubShown(u) = RowShown(u)
      BY <1>8, <2>2 DEF SubShown
    <3>2. Undisturbed(u, v) /\ Shown(v) = RowShown(u)
      BY <1>8, <2>2, RowPasses
    <3>3. QED
      BY <1>8, <3>1, <3>2
  <2>3. QED
    BY <2>1, <2>2
<1>9. QED
  BY <1>5, <1>6, <1>7, <1>8

\* What the next refresh shows of the same row.
LEMMA SubSettles ==
  ASSUME NEW u \in Ui, u.sub # None, NEW v, Undisturbed(u, v), Shown(v) = SubShown(u),
         v.sub # None, v.sub.row = u.sub.row, v.peers = u.peers, v.sel = u.sel,
         v.hovered = u.hovered, u.sub.row.k \in Ranking => v.insight = u.insight
  PROVE  SubShown(v) = Shown(v)
<1>1. FreshCategory(v) = FreshCategory(u)
  BY RowAgain DEF Undisturbed
<1>2. v.legend = u.legend
  BY DEF Undisturbed
<1>3. ASSUME NEW ids, Shown(v) = ListShown(u, ids) PROVE ListShown(v, ids) = Shown(v)
  BY <1>2, <1>3, ShowsAgain DEF ListShown
<1>4. \A w : Worded(v, w) = Worded(u, w)
  BY DEF Worded
<1>5. \A ids : HoveredOr(v, ids) = HoveredOr(u, ids)
  BY DEF HoveredOr
<1>6. Shown(v) = RowShown(u) => RowShown(v) = Shown(v)
  <2>1. /\ Shown(v) = Marked(u, Worded(u, "outbound")) => Marked(v, Worded(u, "outbound")) = Shown(v)
        /\ Shown(v) = Marked(u, Worded(u, "inbound")) => Marked(v, Worded(u, "inbound")) = Shown(v)
    BY ShowsAgain
  <2>2. QED
    BY <1>4, <1>5, <2>1 DEF RowShown
<1>7. QED
  BY <1>1, <1>3, <1>6 DEF SubShown

-----------------------------------------------------------------------------
(***************************************************************************)
(* The summary's panel as a whole.                                         *)
(***************************************************************************)
InsightShown(u) ==
  LET ids == PeersOf(u.peers, u.insight)
  IN  [filter |-> ids, lines |-> IF ids = {} THEN u.lines ELSE ids]

PinnedShown(u) ==
  IF u.subsub # None
  THEN IF GroupPeers(u.peers, u.subsub.as) # {} THEN Both(HoveredOr(u, SubSubIds(u))) ELSE Shown(u)
  ELSE IF u.sub # None THEN SubShown(u) ELSE Hover(u)

LooseShown(u) ==
  IF FreshCategory(u) # {} THEN Preview(u, FreshCategory(u))
  ELSE IF u.sub # None /\ u.sub.row.k \in CategoryKinds THEN Hover(u)
  ELSE IF u.insight # None THEN InsightShown(u) ELSE Hover(u)

LEMMA PinnedSettles ==
  ASSUME NoneIsNoTip, NoneIsNoFilter, AsDataAssumption, NEW u \in Ui, AnyPin(u),
         NEW w, Same(RefreshSummary(u), w, {"over"})
  PROVE  /\ Passed(u, RefreshSummary(u))
         /\ AnyPin(w) /\ PinnedShown(w) = Shown(w) /\ Shown(RefreshSummary(u)) = PinnedShown(u)
<1> DEFINE v == RefreshSummary(u)
<1>1. v = IF u.subsub # None /\ GroupPeers(u.peers, u.subsub.as) # {} THEN RefreshSubSub(u)
          ELSE IF u.subsub # None THEN u
          ELSE IF u.sub # None THEN RefreshSub(u) ELSE ActivateHoverAll(u)
  BY DEF RefreshSummary
<1>2. Same(v, w, {"over"})
  OBVIOUS
<1> HIDE DEF v
<1>3. /\ w.peers = v.peers /\ w.sel = v.sel /\ w.hovered = v.hovered /\ w.sub = v.sub
      /\ w.subsub = v.subsub /\ w.tip = v.tip /\ w.legend = v.legend /\ w.insight = v.insight
      /\ w.filter = v.filter /\ w.lines = v.lines
  BY <1>2 DEF Same, Names
<1>4. ASSUME Passed(u, v)
      PROVE  /\ w.peers = u.peers /\ w.sel = u.sel /\ w.hovered = u.hovered /\ AnyPin(w)
             /\ Shown(w) = Shown(v)
  <2>1. v.peers = u.peers /\ v.sel = u.sel /\ v.hovered = u.hovered
    BY <1>4 DEF Passed, Same, Names, Passing
  <2>2. AnyPin(v)
    BY <1>4 DEF Passed
  <2>3. AnyPin(w)
    BY <1>3, <2>2 DEF AnyPin, Pinned
  <2>4. QED
    BY <1>3, <2>1, <2>3 DEF Shown
<1>5. CASE u.subsub # None /\ GroupPeers(u.peers, u.subsub.as) # {}
  <2>1. /\ Passed(u, v) /\ Shown(v) = Both(HoveredOr(u, SubSubIds(u)))
        /\ SameRow(u, v) /\ v.subsub # None /\ v.subsub.as = u.subsub.as
    BY <1>1, <1>5, SubSubPasses
  <2>2. w.peers = u.peers /\ w.sel = u.sel /\ w.hovered = u.hovered /\ AnyPin(w) /\ Shown(w) = Shown(v)
    BY <1>4, <2>1
  <2>3. SameRow(u, w)
    BY <1>3, <2>1 DEF SameRow
  <2>4. FreshCategory(w) = FreshCategory(u)
    BY <2>2, <2>3, RowAgain
  <2>5. Parent(w) = Parent(u)
    BY <2>2, <2>3, <2>4 DEF Parent, SameRow
  <2>6. w.subsub # None /\ w.subsub.as = u.subsub.as
    BY <1>3, <2>1
  <2>7. SubSubIds(w) = SubSubIds(u)
    BY <2>2, <2>5, <2>6 DEF SubSubIds
  <2>8. HoveredOr(w, SubSubIds(w)) = HoveredOr(u, SubSubIds(u))
    BY <2>2, <2>7 DEF HoveredOr
  <2>9. PinnedShown(u) = Both(HoveredOr(u, SubSubIds(u)))
    BY <1>5 DEF PinnedShown
  <2>10. PinnedShown(w) = Both(HoveredOr(w, SubSubIds(w)))
    BY <1>5, <2>2, <2>6 DEF PinnedShown
  <2>11. QED
    BY <2>1, <2>2, <2>8, <2>9, <2>10 DEF v
<1>6. CASE u.subsub # None /\ GroupPeers(u.peers, u.subsub.as) = {}
  <2>1. v = u
    BY <1>1, <1>6
  <2>2. Passed(u, v)
    BY <2>1 DEF Passed, Same
  <2>3. w.peers = u.peers /\ AnyPin(w) /\ Shown(w) = Shown(v)
    BY <1>4, <2>2
  <2>4. PinnedShown(u) = Shown(u)
    BY <1>6 DEF PinnedShown
  <2>5. PinnedShown(w) = Shown(w)
    BY <1>3, <1>6, <2>1 DEF PinnedShown
  <2>6. QED
    BY <2>1, <2>2, <2>3, <2>4, <2>5 DEF v
<1>7. CASE u.subsub = None /\ u.sub # None
  <2>1. /\ Undisturbed(u, v) /\ Shown(v) = SubShown(u)
        /\ u.sub.row.k \in Ranking => v.insight = u.insight
    BY <1>1, <1>7, SubPasses
  <2>2. Passed(u, v) /\ v.subsub = None /\ v.sub # None /\ v.sub.row = u.sub.row
    BY <1>7, <2>1 DEF Undisturbed, SameRow
  <2>3. v.peers = u.peers /\ v.sel = u.sel /\ v.hovered = u.hovered
    BY <2>2 DEF Passed, Same, Names, Passing
  <2>4. w.peers = u.peers /\ w.sel = u.sel /\ w.hovered = u.hovered /\ AnyPin(w) /\ Shown(w) = Shown(v)
    BY <1>4, <2>2
  <2>5. SubShown(v) = Shown(v)
    BY <1>7, <2>1, <2>2, <2>3, SubSettles
  <2>6. PinnedShown(u) = SubShown(u)
    BY <1>7 DEF PinnedShown
  <2>7. PinnedShown(w) = SubShown(w)
    BY <1>3, <2>2 DEF PinnedShown
  <2>8. SubShown(w) = SubShown(v)
    <3>1. FreshCategory(w) = FreshCategory(v)
      BY <1>3 DEF FreshCategory
    <3>2. \A ids : ListShown(w, ids) = ListShown(v, ids)
      BY <1>3, ShowsOf DEF ListShown
    <3>3. \A word : Worded(w, word) = Worded(v, word)
      BY <1>3 DEF Worded
    <3>4. \A ids : HoveredOr(w, ids) = HoveredOr(v, ids)
      BY <1>3 DEF HoveredOr
    <3>5. \A ids : Marked(w, ids) = Marked(v, ids)
      BY <1>3, ShowsOf
    <3>6. RowShown(w) = RowShown(v)
      BY <1>3, <2>4, <3>3, <3>4, <3>5 DEF RowShown
    <3>7. QED
      BY <1>3, <2>4, <3>1, <3>2, <3>6 DEF SubShown
  <2>9. QED
    BY <2>1, <2>2, <2>4, <2>5, <2>6, <2>7, <2>8 DEF v
<1>8. CASE u.subsub = None /\ u.sub = None
  <2>1. Passed(u, u)
    BY DEF Passed, Same
  <2>2. v = ActivateHoverAll(u)
    BY <1>1, <1>8
  <2>3. Passed(u, v) /\ Same(u, v, {"filter", "lines"}) /\ Shown(v) = Hover(u)
    BY <2>1, <2>2, ShownPasses
  <2>4. v.subsub = None /\ v.sub = None /\ v.peers = u.peers
    BY <1>8, <2>3 DEF Same, Names
  <2>5. AnyPin(w) /\ Shown(w) = Shown(v)
    BY <1>4, <2>3
  <2>6. PinnedShown(u) = Hover(u)
    BY <1>8 DEF PinnedShown
  <2>7. PinnedShown(w) = Hover(w)
    BY <1>3, <2>4 DEF PinnedShown
  <2>8. Hover(w) = Hover(v) /\ Hover(v) = Shown(v)
    BY <1>3, <2>3, <2>4, ShowsOf, ShowsAgain
  <2>9. QED
    BY <2>3, <2>5, <2>6, <2>7, <2>8 DEF v
<1>9. QED
  BY <1>5, <1>6, <1>7, <1>8

LEMMA LooseSettles ==
  ASSUME NoneIsNoTip, NoneIsNoFilter, AsDataAssumption, NEW u \in Ui, Kept(u), ~AnyPin(u), ~u.detail,
         NEW w, Same(RefreshSummary(u), w, {"legend", "over"})
  PROVE  /\ Passed(u, RefreshSummary(u))
         /\ ~AnyPin(w) /\ LooseShown(w) = Shown(w) /\ Shown(RefreshSummary(u)) = LooseShown(u)
<1> DEFINE built == OpenSummaryPanel(u)
           fresh == FreshCategory(u)
           ids   == PeersOf(u.peers, u.insight)
           f     == Filter(built, ids)
           lit   == Focus(f, u.insight)
           gone  == HideSubTooltip(DropSub(built))
           again == Refilter(built, fresh)
           v     == RefreshSummary(u)
<1>1. v = IF fresh # {} THEN PreviewSummaryLines(again, fresh)
          ELSE IF u.sub # None /\ u.sub.row.k \in CategoryKinds THEN ActivateHoverAll(gone)
          ELSE IF u.insight # None THEN IF ids = {} THEN lit ELSE Draw(lit, ids)
          ELSE ActivateHoverAll(built)
  BY DEF RefreshSummary
<1>2. ids \in SUBSET Peers /\ fresh \in SUBSET Peers /\ (fresh # {} => u.sub # None /\ u.sub.row.k \in CategoryKinds)
  BY UiFields, PeerSets DEF FreshCategory
<1>3. Passed(u, built) /\ Same(u, built, PanelNames)
  BY BuiltPasses
<1>4. Same(v, w, {"legend", "over"})
  OBVIOUS
<1>5. LooseShown(u) = IF fresh # {} THEN Preview(u, fresh)
                      ELSE IF u.sub # None /\ u.sub.row.k \in CategoryKinds THEN Hover(u)
                      ELSE IF u.insight # None
                      THEN [filter |-> ids, lines |-> IF ids = {} THEN u.lines ELSE ids]
                      ELSE Hover(u)
  BY DEF LooseShown, InsightShown
<1> HIDE DEF built, v
<1>6. /\ built.sub = u.sub /\ built.peers = u.peers /\ built.filter = u.filter
      /\ built.lines = u.lines /\ built.insight = u.insight
  BY <1>3 DEF Same, Names, PanelNames
<1>7. /\ w.peers = v.peers /\ w.sel = v.sel /\ w.sub = v.sub /\ w.insight = v.insight
      /\ w.subsub = v.subsub /\ w.tip = v.tip /\ w.filter = v.filter /\ w.lines = v.lines
  BY <1>4 DEF Same, Names
<1>8. ASSUME Passed(u, v)
      PROVE  v.peers = u.peers /\ v.sel = u.sel /\ w.peers = u.peers /\ w.sel = u.sel /\ ~AnyPin(w)
             /\ Shown(w) = Shown(v)
  <2>1. v.peers = u.peers /\ v.sel = u.sel
    BY <1>8 DEF Passed, Same, Names, Passing
  <2>2. ~AnyPin(v)
    BY <1>8 DEF Passed
  <2>3. ~AnyPin(w)
    BY <1>7, <2>2 DEF AnyPin, Pinned
  <2>4. QED
    BY <1>7, <2>1, <2>3 DEF Shown
<1>9. CASE fresh # {}
  <2>1. built \in Ui /\ built.sub # None
    BY <1>2, <1>3, <1>6, <1>9 DEF Passed
  <2>2. /\ Passed(built, again) /\ Same(built, again, {"sub"})
        /\ again.sub # None /\ again.sub.row = u.sub.row
    BY <1>2, <1>6, <2>1, Refilters
  <2> HIDE DEF again
  <2>3. Passed(u, again)
    BY <1>3, <2>2 DEF Passed, Same
  <2>4. again.peers = u.peers /\ again.lines = u.lines /\ again.filter = u.filter
    BY <1>6, <2>2 DEF Same, Names
  <2> DEFINE x == PreviewSummaryLines(again, fresh)
  <2>5. Passed(u, x) /\ Same(again, x, {"filter", "lines"}) /\ Shown(x) = Preview(again, fresh)
    BY <1>2, <2>3, ShownPasses
  <2>6. x = v
    BY <1>1, <1>9
  <2> HIDE DEF x
  <2>7. x.sub = again.sub
    BY <2>5 DEF Same, Names
  <2>8. Preview(again, fresh) = Preview(u, fresh)
    BY <2>4, ShowsOf
  <2>9. /\ v.peers = u.peers /\ w.peers = u.peers /\ w.sel = u.sel /\ ~AnyPin(w)
        /\ Shown(w) = Shown(v)
    BY <1>8, <2>5, <2>6
  <2>10. FreshCategory(w) = fresh
    <3>1. SameRow(u, w)
      BY <1>2, <1>7, <1>9, <2>2, <2>6, <2>7 DEF SameRow
    <3>2. QED
      BY <2>9, <3>1, RowAgain
  <2>11. Shown(w) = Preview(u, fresh)
    BY <2>5, <2>6, <2>8, <2>9
  <2>12. Preview(w, fresh) = Shown(w)
    BY <2>9, <2>11, ShowsAgain
  <2>13. LooseShown(w) = Preview(w, fresh)
    BY <1>9, <2>10 DEF LooseShown
  <2>14. QED
    BY <1>5, <1>9, <2>5, <2>6, <2>8, <2>9, <2>12, <2>13 DEF v
<1> HIDE DEF again
<1>10. CASE fresh = {} /\ u.sub # None /\ u.sub.row.k \in CategoryKinds
  <2>1. Passed(u, gone) /\ gone.sub = None /\ gone.filter = u.filter /\ gone.lines = u.lines
    BY <1>3, <1>6, UnhungPasses
  <2>2. u.insight = None
    BY <1>10 DEF Kept
  <2>3. gone.peers = u.peers /\ gone.insight = u.insight
    <3> DEFINE d == DropSub(built)
               g == HideSubTooltip(d)
    <3>1. d \in Ui /\ Same(built, d, {"sub"})
      BY <1>3, TipTyped DEF Passed
    <3> HIDE DEF d
    <3>2. Same(d, g, {"tip", "subsub", "legend"})
      BY <3>1, TipTyped
    <3>3. g = gone
      BY DEF d
    <3> HIDE DEF g, gone
    <3>4. g.peers = built.peers /\ g.insight = built.insight
      BY <3>1, <3>2 DEF Same, Names
    <3>5. QED
      BY <1>6, <3>3, <3>4
  <2> HIDE DEF gone
  <2> DEFINE x == ActivateHoverAll(gone)
  <2>4. Passed(u, x) /\ Same(gone, x, {"filter", "lines"}) /\ Shown(x) = Hover(gone)
    BY <2>1, ShownPasses
  <2>5. x = v
    BY <1>1, <1>10
  <2> HIDE DEF x
  <2>6. x.sub = None /\ x.insight = None
    BY <2>1, <2>2, <2>3, <2>4 DEF Same, Names
  <2>7. Hover(gone) = Hover(u)
    BY <2>1, <2>3, ShowsOf
  <2>8. w.peers = u.peers /\ w.sel = u.sel /\ ~AnyPin(w) /\ Shown(w) = Shown(v)
    BY <1>8, <2>4, <2>5
  <2>9. LooseShown(w) = Hover(w)
    BY <1>7, <2>5, <2>6 DEF LooseShown, FreshCategory
  <2>10. Shown(w) = Hover(u)
    BY <2>4, <2>5, <2>7, <2>8
  <2>11. Hover(w) = Shown(w)
    BY <2>8, <2>10, ShowsAgain
  <2>12. QED
    BY <1>5, <1>10, <2>4, <2>5, <2>7, <2>8, <2>9, <2>11 DEF v
<1> HIDE DEF gone
<1>11. CASE fresh = {} /\ ~(u.sub # None /\ u.sub.row.k \in CategoryKinds) /\ u.insight # None
  <2> DEFINE x == IF ids = {} THEN lit ELSE Draw(lit, ids)
  <2>1. Passed(u, f) /\ Same(built, f, {"filter", "lines"}) /\ Shown(f) = Marked(built, ids)
    BY <1>2, <1>3, ShownPasses
  <2> HIDE DEF f
  <2>2. lit \in Ui /\ Same(f, lit, {"legend"})
    <3>1. u.insight \in AsOrOthers \cup {None}
      BY UiFields DEF AsOrOthers
    <3>2. QED
      BY <2>1, <3>1, FieldsTyped DEF Passed
  <2> HIDE DEF lit
  <2>3. Draw(lit, ids) \in Ui /\ Same(lit, Draw(lit, ids), {"lines"})
        /\ Draw(lit, ids).lines = ids
    <3>1. Draw(lit, ids) \in Ui /\ Same(lit, Draw(lit, ids), {"lines"})
      BY <1>2, <2>2, DrawTyped
    <3>2. Draw(lit, ids).lines = ids
      BY <2>2 DEF Draw, Ui
    <3>3. QED
      BY <3>1, <3>2
  <2>4. x \in Ui /\ Same(f, x, {"lines", "legend"}) /\ x.lines = IF ids = {} THEN f.lines ELSE ids
    <3>1. CASE ids = {}
      <4>1. lit.lines = f.lines
        BY <2>2 DEF Same, Names
      <4>2. Same(f, lit, {"lines", "legend"})
        BY <2>2 DEF Same
      <4>3. QED
        BY <2>2, <3>1, <4>1, <4>2
    <3>2. CASE ids # {}
      <4> DEFINE y == Draw(lit, ids)
      <4>1. y = x /\ y \in Ui /\ Same(lit, y, {"lines"}) /\ y.lines = ids
        BY <2>3, <3>2
      <4> HIDE DEF x, y
      <4>2. Same(f, y, {"lines", "legend"})
        BY <2>2, <4>1 DEF Same
      <4>3. QED
        BY <3>2, <4>1, <4>2
    <3>3. QED
      BY <3>1, <3>2
  <2>5. x = v
    BY <1>1, <1>11
  <2> HIDE DEF x
  <2>6. f.filter = ids /\ f.lines = u.lines
    BY <1>6, <2>1 DEF Shown, Marked
  <2>7. x.filter = ids /\ x.sub = u.sub /\ x.insight = u.insight
    <3>1. x.filter = f.filter /\ x.sub = f.sub /\ x.insight = f.insight
      BY <2>4 DEF Same, Names
    <3>2. f.sub = built.sub /\ f.insight = built.insight
      BY <2>1 DEF Same, Names
    <3>3. QED
      BY <1>6, <2>6, <3>1, <3>2
  <2>8. Passed(u, x)
    <3>1. Same(f, x, {"filter", "lines", "legend", "over"})
      BY <2>4 DEF Same
    <3>2. QED
      BY <2>1, <2>4, <3>1, PassedOn
  <2>9. Shown(x) = [filter |-> ids, lines |-> IF ids = {} THEN u.lines ELSE ids]
    BY <2>4, <2>6, <2>7 DEF Shown
  <2>10. w.peers = u.peers /\ w.sel = u.sel /\ ~AnyPin(w) /\ Shown(w) = Shown(v)
    BY <1>8, <2>5, <2>8
  <2>11. w.sub = u.sub /\ w.insight = u.insight /\ w.lines = x.lines /\ w.filter = x.filter
    BY <1>7, <2>5, <2>7
  <2>12. FreshCategory(w) = {}
    BY <1>11, <2>10, <2>11 DEF FreshCategory
  <2>13. PeersOf(w.peers, w.insight) = ids
    BY <2>10, <2>11
  <2>14. LooseShown(w) = InsightShown(w)
    BY <1>11, <2>11, <2>12 DEF LooseShown
  <2>15. InsightShown(w) = [filter |-> ids, lines |-> IF ids = {} THEN w.lines ELSE ids]
    BY <2>13 DEF InsightShown
  <2> HIDE DEF ids
  <2>16. InsightShown(w) = Shown(w)
    BY <2>4, <2>6, <2>7, <2>11, <2>15 DEF Shown
  <2>17. LooseShown(u) = Shown(v)
    BY <1>5, <1>11, <2>5, <2>9
  <2>18. QED
    BY <2>5, <2>8, <2>10, <2>14, <2>16, <2>17 DEF v
<1> HIDE DEF lit, f, ids
<1>12. CASE fresh = {} /\ ~(u.sub # None /\ u.sub.row.k \in CategoryKinds) /\ u.insight = None
  <2> DEFINE x == ActivateHoverAll(built)
  <2>1. Passed(u, x) /\ Same(built, x, {"filter", "lines"}) /\ Shown(x) = Hover(built)
    BY <1>2, <1>3, ShownPasses
  <2>2. x = v
    BY <1>1, <1>12
  <2> HIDE DEF x
  <2>3. x.sub = u.sub /\ x.insight = None
    BY <1>6, <1>12, <2>1 DEF Same, Names
  <2>4. Hover(built) = Hover(u)
    BY <1>6, ShowsOf
  <2>5. w.peers = u.peers /\ w.sel = u.sel /\ ~AnyPin(w) /\ Shown(w) = Shown(v)
    BY <1>8, <2>1, <2>2
  <2>6. w.sub = u.sub /\ w.insight = None
    BY <1>7, <2>2, <2>3
  <2>7. LooseShown(w) = Hover(w)
    BY <1>12, <2>5, <2>6 DEF LooseShown, FreshCategory
  <2>8. Hover(w) = Shown(w)
    BY <2>1, <2>2, <2>4, <2>5, ShowsAgain
  <2>9. QED
    BY <1>5, <1>12, <2>1, <2>2, <2>4, <2>5, <2>7, <2>8 DEF v
<1>13. QED
  BY <1>9, <1>10, <1>11, <1>12

-----------------------------------------------------------------------------
(***************************************************************************)
(* A refresh, and the next one.                                            *)
(***************************************************************************)
NetworkShown(u) ==
  IF u.subsub # None /\ u.subsub.ids # {} THEN Both(u.subsub.ids)
  ELSE IF u.sub # None /\ u.sub.ids # {} THEN Preview(u, u.sub.ids)
  ELSE Marked(u, NetPeers(u.peers, u.net))

LEMMA NetworkSettles ==
  ASSUME NEW u \in Ui
  PROVE  /\ Shown(RefreshNetwork(u)) = NetworkShown(u)
         /\ Same(u, RefreshNetwork(u), {"filter", "lines"})
         /\ \A w : Same(RefreshNetwork(u), w, {"over"}) => NetworkShown(w) = Shown(w)
<1> DEFINE v == RefreshNetwork(u)
           ids == NetPeers(u.peers, u.net)
<1>1. v = IF u.subsub # None /\ u.subsub.ids # {} THEN Show(u, u.subsub.ids)
          ELSE IF u.sub # None /\ u.sub.ids # {} THEN PreviewSummaryLines(u, u.sub.ids)
          ELSE Filter(u, ids)
  BY DEF RefreshNetwork
<1>2. /\ ids \in SUBSET Peers
      /\ u.subsub # None => u.subsub.ids \in SUBSET Peers
      /\ u.sub # None => u.sub.ids \in SUBSET Peers
  BY UiFields, PeerSets DEF SubSet, SubsubSet
<1>3. Passed(u, u)
  BY DEF Passed, Same
<1>4. \A x \in SUBSET Peers :
        /\ Same(u, Show(u, x), {"filter", "lines"}) /\ Shown(Show(u, x)) = Both(x)
        /\ Same(u, Filter(u, x), {"filter", "lines"}) /\ Shown(Filter(u, x)) = Marked(u, x)
        /\ Same(u, PreviewSummaryLines(u, x), {"filter", "lines"})
        /\ Shown(PreviewSummaryLines(u, x)) = Preview(u, x)
  BY <1>3, ShownPasses
<1>5. NetworkShown(u) = IF u.subsub # None /\ u.subsub.ids # {} THEN Both(u.subsub.ids)
                        ELSE IF u.sub # None /\ u.sub.ids # {} THEN Preview(u, u.sub.ids)
                        ELSE Marked(u, ids)
  BY DEF NetworkShown
<1> HIDE DEF v, ids
<1>6. Shown(v) = NetworkShown(u) /\ Same(u, v, {"filter", "lines"})
  BY <1>1, <1>2, <1>4, <1>5
<1>7. ASSUME NEW w, Same(v, w, {"over"}) PROVE NetworkShown(w) = Shown(w)
  <2>1. /\ w.subsub = u.subsub /\ w.sub = u.sub /\ w.peers = u.peers /\ w.net = u.net
        /\ w.filter = v.filter /\ w.lines = v.lines
    BY <1>6, <1>7 DEF Same, Names
  <2>2. Shown(w) = NetworkShown(u)
    BY <1>6, <2>1 DEF Shown
  <2>3. QED
    BY <2>1, <2>2, ShowsAgain DEF NetworkShown
<1>8. QED
  BY <1>6, <1>7 DEF v

\* What a refresh does before it looks at the selection.
Prepared(u) ==
  LET d == RenderDonut(u) IN IF AnyPin(d) THEN d ELSE [d EXCEPT !.legend = None]

LEMMA PreparedTyped ==
  ASSUME NEW u \in Ui
  PROVE  LET w == Prepared(u) IN
         /\ w \in Ui /\ Same(u, w, {"legend", "over"}) /\ (AnyPin(w) <=> AnyPin(u))
         /\ AnyPin(u) => Same(u, w, {"over"})
         /\ Good(u, w) /\ Shown(w) = Shown(u)
<1> DEFINE d == RenderDonut(u)
           n == [d EXCEPT !.legend = None]
           w == Prepared(u)
<1>1. w = IF AnyPin(d) THEN d ELSE n
  BY DEF Prepared
<1>2. d \in Ui /\ Same(u, d, {"over"})
  BY TipTyped
<1> HIDE DEF d, w
<1>3. n \in Ui /\ Same(d, n, {"legend"})
  BY <1>2, LegendTyped
<1> HIDE DEF n
<1>4. d.tip = u.tip /\ d.subsub = u.subsub
  BY <1>2 DEF Same, Names
<1>5. AnyPin(d) <=> AnyPin(u)
  BY <1>4 DEF AnyPin, Pinned
<1>6. w \in Ui /\ Same(u, w, {"legend", "over"}) /\ (AnyPin(u) => Same(u, w, {"over"}))
  BY <1>1, <1>2, <1>3, <1>5 DEF Same
<1>7. w.tip = u.tip /\ w.subsub = u.subsub /\ w.filter = u.filter /\ w.lines = u.lines
  BY <1>6 DEF Same, Names
<1>8. (AnyPin(w) <=> AnyPin(u)) /\ Shown(w) = Shown(u)
  BY <1>7 DEF AnyPin, Pinned, Shown
<1>9. Good(u, w)
  <2>1. Same(u, w, Outward)
    BY <1>6 DEF Same, Outward
  <2>2. QED
    BY <1>6, <2>1, OutwardGood
<1>10. QED
  BY <1>6, <1>8, <1>9 DEF w

LEMMA RefreshIs ==
  ASSUME NEW u \in Ui
  PROVE  LET w == Prepared(u)
             x == IF w.sel # None THEN RefreshProvider(w) ELSE w
         IN  Refresh(u, u.peers) = IF u.detail THEN u
                                   ELSE IF u.net # None THEN RefreshNetwork(RenderDonut(u))
                                   ELSE IF x.summary THEN RefreshSummary(x) ELSE x
<1>1. [u EXCEPT !.peers = u.peers] = u
  BY DEF Ui
<1>2. QED
  BY <1>1 DEF Refresh, Prepared

LEMMA NetworkPolls ==
  ASSUME NEW u \in Ui, ~u.detail, u.net # None
  PROVE  LET r == Refresh(u, u.peers) IN
         r.peers = u.peers /\ (r \in Ui => Shown(Refresh(r, u.peers)) = Shown(r))
<1> DEFINE d == RenderDonut(u)
           r == Refresh(u, u.peers)
           e == RenderDonut(r)
<1>1. r = RefreshNetwork(d)
  BY RefreshIs
<1>2. d \in Ui /\ Same(u, d, {"over"})
  BY TipTyped
<1> HIDE DEF d, r
<1>3. /\ Same(d, r, {"filter", "lines"})
      /\ \A w : Same(r, w, {"over"}) => NetworkShown(w) = Shown(w)
  BY <1>1, <1>2, NetworkSettles
<1>4. r.peers = u.peers /\ ~r.detail /\ r.net # None
  BY <1>2, <1>3 DEF Same, Names
<1>5. ASSUME r \in Ui PROVE Shown(Refresh(r, u.peers)) = Shown(r)
  <2>1. Refresh(r, u.peers) = RefreshNetwork(e)
    BY <1>4, <1>5, RefreshIs
  <2>2. e \in Ui /\ Same(r, e, {"over"})
    BY <1>5, TipTyped
  <2> HIDE DEF e
  <2>3. Shown(RefreshNetwork(e)) = NetworkShown(e) /\ NetworkShown(e) = Shown(e)
    BY <1>3, <2>2, NetworkSettles
  <2>4. Shown(e) = Shown(r)
    BY <2>2 DEF Same, Names, Shown
  <2>5. QED
    BY <2>1, <2>3, <2>4
<1>6. QED
  BY <1>4, <1>5 DEF r

LEMMA ProviderPolls ==
  ASSUME NoneIsNoTip, NoneIsNoFilter, NEW u \in Ui, ~u.detail, u.net = None, u.sel # None,
         ~u.summary
  PROVE  LET r == Refresh(u, u.peers) IN
         r.peers = u.peers /\ (r \in Ui => Shown(Refresh(r, u.peers)) = Shown(r))
<1> DEFINE q == Prepared(u)
           p == RefreshProvider(q)
           r == Refresh(u, u.peers)
           w == Prepared(r)
<1>1. q \in Ui /\ Same(u, q, {"legend", "over"})
  BY PreparedTyped
<1>2. r = LET x == IF q.sel # None THEN p ELSE q IN IF x.summary THEN RefreshSummary(x) ELSE x
  BY RefreshIs
<1> HIDE DEF q, r
<1>3. q.sel = u.sel /\ q.peers = u.peers /\ ~q.summary /\ ~q.detail /\ q.net = None
  BY <1>1 DEF Same, Names
<1>4. CASE ~Known(q.peers, q.sel)
  <2> DEFINE z == Deselect(q)
  <2>1. p = z
    BY <1>4 DEF RefreshProvider
  <2>2. z.sel = None /\ ~z.summary /\ ~z.detail /\ z.net = None /\ z.peers = q.peers
    BY <1>1, <1>3, DeselectTyped
  <2> HIDE DEF p, z
  <2>3. r = z
    BY <1>2, <1>3, <2>1, <2>2
  <2>4. ASSUME r \in Ui PROVE Shown(Refresh(r, u.peers)) = Shown(r)
    <3>1. w \in Ui /\ Same(r, w, {"legend", "over"}) /\ Shown(w) = Shown(r)
      BY <2>4, PreparedTyped
    <3>2. Refresh(r, r.peers) = LET x == IF w.sel # None THEN RefreshProvider(w) ELSE w
                                IN  IF x.summary THEN RefreshSummary(x) ELSE x
      BY <2>2, <2>3, <2>4, RefreshIs
    <3> HIDE DEF w
    <3>3. w.sel = None /\ ~w.summary
      BY <2>2, <2>3, <3>1 DEF Same, Names
    <3>4. QED
      BY <1>3, <2>2, <2>3, <3>1, <3>2, <3>3
  <2>5. QED
    BY <1>3, <2>2, <2>3, <2>4 DEF r
<1>5. CASE Known(q.peers, q.sel)
  <2>1. Passed(q, p)
    BY <1>1, <1>3, <1>5, ProviderPasses
  <2>2. \A x : Same(p, x, {"legend", "over"}) => ProviderShown(x) = Shown(x)
    BY <1>1, <1>3, <1>5, ProviderSettles
  <2> HIDE DEF p
  <2>3. p.sel = q.sel /\ p.peers = q.peers /\ ~p.summary /\ ~p.detail /\ p.net = None
    BY <1>3, <2>1 DEF Passed, Same, Names, Passing
  <2>4. r = p
    BY <1>2, <1>3, <2>3
  <2>5. ASSUME r \in Ui PROVE Shown(Refresh(r, u.peers)) = Shown(r)
    <3> DEFINE y == RefreshProvider(w)
    <3>1. w \in Ui /\ Same(r, w, {"legend", "over"}) /\ Shown(w) = Shown(r)
      BY <2>5, PreparedTyped
    <3>2. Refresh(r, r.peers) = LET x == IF w.sel # None THEN y ELSE w
                                IN  IF x.summary THEN RefreshSummary(x) ELSE x
      BY <2>3, <2>4, <2>5, RefreshIs
    <3> HIDE DEF w
    <3>3. w.sel = q.sel /\ w.peers = q.peers /\ ~w.summary /\ ~w.detail
      BY <2>3, <2>4, <3>1 DEF Same, Names
    <3>4. Passed(w, y) /\ Shown(y) = ProviderShown(w)
      BY <1>3, <1>5, <3>1, <3>3, ProviderPasses
    <3> HIDE DEF y
    <3>5. ~y.summary
      BY <3>3, <3>4 DEF Passed, Same, Names, Passing
    <3>6. Refresh(r, u.peers) = y
      BY <1>3, <2>3, <2>4, <3>2, <3>3, <3>5
    <3>7. ProviderShown(w) = Shown(w)
      BY <2>2, <2>4, <3>1
    <3>8. QED
      BY <3>1, <3>4, <3>6, <3>7
  <2>6. QED
    BY <1>3, <2>3, <2>4, <2>5 DEF r
<1>6. QED
  BY <1>4, <1>5

LEMMA SummaryPolls ==
  ASSUME NoneIsNoTip, NoneIsNoFilter, AsDataAssumption, NEW u \in Ui, Kept(u), ~u.detail,
         u.net = None, u.sel = None
  PROVE  LET r == Refresh(u, u.peers) IN
         r.peers = u.peers /\ (r \in Ui /\ Kept(r) => Shown(Refresh(r, u.peers)) = Shown(r))
<1> DEFINE q == Prepared(u)
           s == RefreshSummary(q)
           r == Refresh(u, u.peers)
           w == Prepared(r)
           t == RefreshSummary(w)
<1>1. q \in Ui /\ Same(u, q, {"legend", "over"}) /\ (AnyPin(q) <=> AnyPin(u)) /\ Good(u, q)
  BY PreparedTyped
<1>2. r = LET x == IF q.sel # None THEN RefreshProvider(q) ELSE q IN
          IF x.summary THEN RefreshSummary(x) ELSE x
  BY RefreshIs
<1> HIDE DEF q
<1>3. q.sel = None /\ q.peers = u.peers /\ (q.summary <=> u.summary) /\ ~q.detail /\ q.net = None
  BY <1>1 DEF Same, Names
<1>4. r = IF q.summary THEN s ELSE q
  BY <1>2, <1>3
<1> HIDE DEF r
<1>5. AnyPin(q) => /\ Passed(q, s)
                   /\ \A x : Same(s, x, {"over"}) => AnyPin(x) /\ PinnedShown(x) = Shown(x)
  <2> HIDE DEF s
  <2> SUFFICES ASSUME AnyPin(q)
               PROVE  /\ Passed(q, s)
                      /\ \A x : Same(s, x, {"over"}) => AnyPin(x) /\ PinnedShown(x) = Shown(x)
    OBVIOUS
  <2>1. \A x : Same(s, x, {"over"}) =>
          Passed(q, s) /\ AnyPin(x) /\ PinnedShown(x) = Shown(x)
    BY <1>1, PinnedSettles DEF s
  <2>2. Same(s, s, {"over"})
    BY DEF Same
  <2>3. QED
    BY <2>1, <2>2
<1>6. ~AnyPin(q) => /\ Passed(q, s)
                    /\ \A x : Same(s, x, {"legend", "over"}) => ~AnyPin(x) /\ LooseShown(x) = Shown(x)
  <2> HIDE DEF s
  <2> SUFFICES ASSUME ~AnyPin(q)
               PROVE  /\ Passed(q, s)
                      /\ \A x : Same(s, x, {"legend", "over"}) => ~AnyPin(x) /\ LooseShown(x) = Shown(x)
    OBVIOUS
  <2>1. Kept(q)
    BY <1>1 DEF Good
  <2>2. \A x : Same(s, x, {"legend", "over"}) =>
          Passed(q, s) /\ ~AnyPin(x) /\ LooseShown(x) = Shown(x)
    BY <1>1, <1>3, <2>1, LooseSettles DEF s
  <2>3. Same(s, s, {"legend", "over"})
    BY DEF Same
  <2>4. QED
    BY <2>2, <2>3
<1> HIDE DEF s
<1>7. Passed(q, r)
  <2>1. Passed(q, q)
    BY <1>1 DEF Passed, Same
  <2>2. QED
    BY <1>4, <1>5, <1>6, <2>1
<1>8. r.peers = u.peers /\ r.sel = None /\ ~r.detail /\ r.net = None /\ (r.summary <=> q.summary)
      /\ (AnyPin(r) <=> AnyPin(q))
  BY <1>3, <1>7 DEF Passed, Same, Names, Passing
<1>9. ASSUME r \in Ui, Kept(r) PROVE Shown(Refresh(r, u.peers)) = Shown(r)
  <2>1. /\ w \in Ui /\ Same(r, w, {"legend", "over"}) /\ (AnyPin(w) <=> AnyPin(r))
        /\ AnyPin(r) => Same(r, w, {"over"})
        /\ Good(r, w) /\ Shown(w) = Shown(r)
    BY <1>9, PreparedTyped
  <2>2. Refresh(r, r.peers) = LET x == IF w.sel # None THEN RefreshProvider(w) ELSE w
                              IN  IF x.summary THEN RefreshSummary(x) ELSE x
    BY <1>8, <1>9, RefreshIs
  <2> HIDE DEF w
  <2>3. w.sel = None /\ (w.summary <=> q.summary) /\ ~w.detail
    BY <1>8, <2>1 DEF Same, Names
  <2>4. Refresh(r, u.peers) = IF w.summary THEN t ELSE w
    BY <1>8, <2>2, <2>3
  <2>5. CASE ~q.summary
    BY <2>1, <2>3, <2>4, <2>5
  <2>6. CASE q.summary /\ AnyPin(q)
    <3>1. r = s /\ AnyPin(w)
      BY <1>4, <1>8, <2>1, <2>6
    <3>2. PinnedShown(w) = Shown(w)
      BY <1>5, <1>8, <2>1, <2>6, <3>1
    <3>3. Same(t, t, {"over"})
      BY DEF Same
    <3>4. Shown(t) = PinnedShown(w)
      BY <2>1, <3>1, <3>3, PinnedSettles
    <3>5. QED
      BY <2>1, <2>3, <2>4, <2>6, <3>2, <3>4
  <2>7. CASE q.summary /\ ~AnyPin(q)
    <3>1. r = s /\ ~AnyPin(w)
      BY <1>4, <1>8, <2>1, <2>7
    <3>2. LooseShown(w) = Shown(w)
      BY <1>6, <2>1, <2>7, <3>1
    <3>3. Kept(w)
      BY <1>9, <2>1 DEF Good
    <3>4. Same(t, t, {"legend", "over"})
      BY DEF Same
    <3>5. Shown(t) = LooseShown(w)
      BY <2>1, <2>3, <3>1, <3>3, <3>4, LooseSettles
    <3>6. QED
      BY <2>1, <2>3, <2>4, <2>7, <3>2, <3>5
  <2>8. QED
    BY <2>5, <2>6, <2>7
<1>10. QED
  BY <1>8, <1>9 DEF r

LEMMA SoundSettles ==
  ASSUME NoneIsNoTip, NoneIsNoFilter, AsDataAssumption, Sound, NEW P \in SUBSET Peers
  PROVE  Shown(Refresh(Refresh(ui, P), P)) = Shown(Refresh(ui, P))
<1> DEFINE v == [ui EXCEPT !.peers = P]
           r == Refresh(v, P)
<1>1. v \in Ui /\ v.peers = P /\ Same(ui, v, {"peers"})
  <2>1. v \in Ui
    BY SetUi DEF Sound
  <2>2. v.peers = P /\ Same(ui, v, {"peers"})
    BY DEF Sound, Ui, Same, Names
  <2>3. QED
    BY <2>1, <2>2
<1>2. Refresh(ui, P) = r
  <2>1. [v EXCEPT !.peers = P] = v
    BY DEF Sound, Ui
  <2>2. QED
    BY <2>1 DEF Refresh
<1> HIDE DEF v
<1>3. Kept(v)
  <2>1. Same(ui, v, Outward)
    BY <1>1 DEF Same, Outward
  <2>2. Good(ui, v)
    BY <1>1, <2>1, OutwardGood DEF Sound
  <2>3. QED
    BY <2>2 DEF Good, Sound
<1>4. ~(v.sel # None /\ v.summary)
  <2>1. v.sel = ui.sel /\ v.summary = ui.summary
    BY <1>1 DEF Same, Names
  <2>2. QED
    BY <2>1 DEF Sound, Agree, Views
<1>5. r \in Ui /\ Kept(r)
  BY <1>1, <1>3, RefreshGood DEF Good
<1>6. r = Refresh(v, v.peers)
  BY <1>1
<1> HIDE DEF r
<1>7. CASE v.detail
  <2>1. r = v
    BY <1>1, <1>6, <1>7, RefreshIs
  <2>2. QED
    BY <1>2, <1>1, <1>6, <2>1
<1>8. CASE ~v.detail /\ v.net # None
  BY <1>1, <1>2, <1>5, <1>6, <1>8, NetworkPolls
<1>9. CASE ~v.detail /\ v.net = None /\ v.sel # None
  BY <1>1, <1>2, <1>4, <1>5, <1>6, <1>9, ProviderPolls
<1>10. CASE ~v.detail /\ v.net = None /\ v.sel = None
  BY <1>1, <1>2, <1>3, <1>5, <1>6, <1>10, SummaryPolls
<1>11. QED
  BY <1>7, <1>8, <1>9, <1>10

\* Whatever is selected, pinned and pointed at, a second refresh with the same
\* list of peers changes neither the table's filter nor the lines: update and
\* the refreshes that it calls show what depends on the list and the selection
\* alone, not on how often the server was asked.
THEOREM RefreshSettles ==
  ASSUME NoneIsNoTip, NoneIsNoFilter
  PROVE  Spec => []PollSettles
<1>1. (Init => Sound) /\ (Sound /\ [Next]_ui => Sound')
  BY SoundStays
<1>2. Sound => PollSettles
  <2> SUFFICES ASSUME Sound, NEW P \in Snapshots
               PROVE  Shown(Refresh(Refresh(ui, P), P)) = Shown(Refresh(ui, P))
    BY DEF PollSettles
  <2>1. P \in SUBSET Peers
    BY AsPanelAssumption
  <2>2. QED
    BY <2>1, AsDataAssumption, SoundSettles
<1>3. QED
  BY <1>1, <1>2, PTL DEF Spec
=============================================================================
