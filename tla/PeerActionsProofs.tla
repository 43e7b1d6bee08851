------------------------- MODULE PeerActionsProofs -------------------------
(***************************************************************************)
(* Theorems about PeerActions, for any hosts, any number of dialogs and    *)
(* requests, and any number of connections.                                *)
(***************************************************************************)
EXTENDS PeerActions, TLAPS

USE DEF vars, node, view, Ids

-----------------------------------------------------------------------------
(***************************************************************************)
(* Types.  That only addresses of IPv4 and IPv6 peers get as far as setban *)
(* is part of them.                                                        *)
(***************************************************************************)
TypeInv ==
  /\ TypeOK /\ OnlyIpBanned
  /\ \A d \in Dialogs : op[d].pc = "setban" => op[d].host # "none"

OpsOK  ==
  /\ op \in [Dialogs -> Ops]
  /\ \A d \in Dialogs : op[d].pc = "setban" => op[d].host # "none"
BansOK == banView \in [at : {"closed", "loading", "shown"}, bans : SUBSET Hosts]

LEMMA TypeParts ==
  TypeInv <=> NodeOK /\ ListOK /\ OpsOK /\ BansOK /\ OnlyIpBanned
BY DEF TypeInv, TypeOK, OpsOK, BansOK

LEMMA LastIdIsNat ==
  TypeInv => /\ lastId \in Nat /\ lastId <= MaxPeers /\ MaxPeers \in Nat
             /\ connected \subseteq 1..lastId
<1> SUFFICES ASSUME TypeInv
             PROVE  /\ lastId \in Nat /\ lastId <= MaxPeers /\ MaxPeers \in Nat
                    /\ connected \subseteq 1..lastId
  OBVIOUS
<1>1. MaxPeers \in Nat
  BY PeerActionsAssumption
<1>2. lastId \in 0..MaxPeers /\ connected \subseteq 1..lastId
  BY DEF TypeInv, TypeOK, NodeOK
<1> QED BY <1>1, <1>2

\* A dialog that is about to ban has found the host.
Sound(r) == r \in Ops /\ (r.pc = "setban" => r.host # "none")

LEMMA NoOpType == NoOp \in Ops
BY PeerActionsAssumption DEF NoOp, Ops

LEMMA InitType == Init => TypeInv
<1> SUFFICES ASSUME Init PROVE TypeInv
  OBVIOUS
<1>1. NodeOK /\ OnlyIpBanned
  BY PeerActionsAssumption DEF Init, NodeOK, OnlyIpBanned
<1>2. ListOK
  BY DEF Init, ListOK, FreePoll
<1>3. OpsOK
  BY NoOpType DEF Init, OpsOK, NoOp
<1>4. BansOK
  BY DEF Init, BansOK, ClosedBans
<1> QED BY <1>1, <1>2, <1>3, <1>4, TypeParts

LEMMA NodeType == TypeInv /\ Node => TypeInv'
<1> SUFFICES ASSUME TypeInv, Node PROVE TypeInv'
  OBVIOUS
<1>1. /\ UNCHANGED <<view, op, banView>>
      /\ lastId <= lastId' /\ lastId' \in 0..MaxPeers
      /\ banned' \subseteq banned
  BY PeerActionsAssumption
     DEF Node, PeerConnects, BanExpires, PeerLeaves, TypeInv, TypeOK, NodeOK
<1>2. NodeOK'
  <2>1. CASE UNCHANGED <<lastId, hostOf>> /\ connected' \subseteq connected
    BY <1>1, <2>1 DEF TypeInv, TypeOK, NodeOK
  <2>2. ASSUME NEW h \in Hosts, PeerConnects(h) PROVE NodeOK'
    <3>1. hostOf' \in [Ids -> Hosts \cup {"none"}]
      BY <2>2 DEF PeerConnects, TypeInv, TypeOK, NodeOK
    <3>2. connected' \subseteq 1..lastId'
      BY <2>2, LastIdIsNat DEF PeerConnects
    <3> QED BY <1>1, <3>1, <3>2 DEF TypeInv, TypeOK, NodeOK
  <2> QED BY <2>1, <2>2 DEF Node, BanExpires, PeerLeaves
<1>3. ListOK'
  <2>1. lastId \in Nat /\ lastId' \in Nat /\ 1..lastId \subseteq 1..lastId'
    BY <1>1, LastIdIsNat
  <2> QED BY <1>1, <2>1 DEF TypeInv, TypeOK, ListOK
<1>4. OpsOK' /\ BansOK' /\ OnlyIpBanned'
  BY <1>1 DEF TypeInv, TypeOK, OpsOK, BansOK, OnlyIpBanned
<1> QED BY <1>2, <1>3, <1>4, TypeParts DEF TypeInv, TypeOK, OpsOK, BansOK

\* What a step of a dialog's work may write down.
LEMMA DialogOps ==
  ASSUME TypeInv, NEW d \in Dialogs, Choose(d) \/ Post(d) \/ Work(d)
  PROVE  \E r : Sound(r) /\ op' = [op EXCEPT ![d] = r]
<1> USE PeerActionsAssumption
<1>0. op[d] \in Ops /\ op \in [Dialogs -> Ops]
  BY DEF TypeInv, TypeOK
<1> DEFINE Gone(step) == [op[d] EXCEPT !.pc = step]
           Said(words) == [op[d] EXCEPT !.pc = "done", !.said = words]
<1>1. Sound(Gone("disconnect"))
  BY <1>0 DEF Ops, Sound
<1>2. \A words \in {"failed", "banned", "banned only", "disconnected",
                    "banned and disconnected"} : Sound(Said(words))
  BY <1>0 DEF Ops, Sound
<1>3. CASE Choose(d)
  <2>1. PICK i \in table, c \in {"disconnect", "ban"} :
          op' = [op EXCEPT ![d] = [NoOp EXCEPT
                   !.pc = IF c = "ban" THEN "lookup" ELSE "disconnect",
                   !.kind = c, !.id = i]]
    BY <1>3 DEF Choose, Choices
  <2>2. i \in 0..MaxPeers
    BY DEF TypeInv, TypeOK, ListOK, NodeOK
  <2>3. [NoOp EXCEPT !.pc = IF c = "ban" THEN "lookup" ELSE "disconnect",
                     !.kind = c, !.id = i] \in Ops
    BY <2>2, NoOpType DEF NoOp, Ops
  <2> QED BY <2>1, <2>3 DEF Sound, NoOp
<1>4. CASE Post(d)
  <2>1. PICK i \in Ids :
          op' = [op EXCEPT ![d] = [NoOp EXCEPT
                   !.pc = "lookup", !.kind = "post", !.id = i]]
    BY <1>4 DEF Post
  <2>2. [NoOp EXCEPT !.pc = "lookup", !.kind = "post", !.id = i] \in Ops
    <3>1. i \in 0..MaxPeers
      OBVIOUS
    <3> QED BY <3>1, NoOpType DEF NoOp, Ops
  <2> QED BY <2>1, <2>2 DEF Sound, NoOp
<1>5. CASE LookUp(d)
  <2>1. CASE Says(d, "failed")
    BY <1>2, <2>1 DEF Says
  <2>2. ASSUME NEW i \in Found(op[d].id), Bannable(i),
               op' = [op EXCEPT ![d].pc = "setban", ![d].host = hostOf[i]]
        PROVE  \E r : Sound(r) /\ op' = [op EXCEPT ![d] = r]
    <3>1. [op[d] EXCEPT !.pc = "setban", !.host = hostOf[i]] \in Ops
      BY <1>0, <2>2 DEF Bannable, Ops
    <3>2. op' = [op EXCEPT ![d] = [op[d] EXCEPT !.pc = "setban",
                                                !.host = hostOf[i]]]
      BY <1>0, <2>2
    <3> QED BY <1>0, <2>2, <3>1, <3>2 DEF Sound, Bannable, Ops
  <2> QED BY <1>5, <2>1, <2>2 DEF LookUp
<1>6. CASE BanFails(d) \/ SetBan(d) \/ DisconnectFails(d) \/ Disconnect(d)
  <2>1. \/ Goes(d, "disconnect")
        \/ \E words \in {"failed", "banned", "banned only", "disconnected",
                         "banned and disconnected"} : Says(d, words)
    BY <1>6 DEF BanFails, BanRefused, SetBan, DisconnectFails, RaisedAnswer,
                Disconnect
  <2>2. Goes(d, "disconnect") => op' = [op EXCEPT ![d] = Gone("disconnect")]
    BY <1>0 DEF Goes
  <2>3. ASSUME NEW words \in {"failed", "banned", "banned only",
                             "disconnected", "banned and disconnected"},
               Says(d, words)
        PROVE  op' = [op EXCEPT ![d] = Said(words)]
    BY <1>0, <2>3 DEF Says
  <2> HIDE DEF Gone, Said
  <2> QED BY <1>1, <1>2, <2>1, <2>2, <2>3
<1>7. CASE Dismiss(d)
  BY <1>7, NoOpType DEF Dismiss, Sound, NoOp
<1> QED BY <1>3, <1>4, <1>5, <1>6, <1>7 DEF Work

LEMMA DialogType == TypeInv /\ Dialog => TypeInv'
<1> SUFFICES ASSUME TypeInv, NEW d \in Dialogs,
                    Choose(d) \/ Post(d) \/ Work(d)
             PROVE  TypeInv'
  BY DEF Dialog
<1>1. UNCHANGED <<lastId, hostOf, view, banView>>
  BY DEF Choose, Post, Work, LookUp, BanFails, SetBan, DisconnectFails,
         Disconnect, Dismiss
<1>2. OpsOK'
  BY DialogOps DEF OpsOK, TypeInv, TypeOK, Sound
<1>3. connected' \subseteq connected
  BY DEF Choose, Post, Work, LookUp, BanFails, SetBan, DisconnectFails,
         Disconnect, Dismiss
<1>4. banned' \subseteq banned \cup {op[d].host}
      /\ (op[d].pc \notin {"setban"} => banned' = banned)
  BY DEF Choose, Post, Work, LookUp, BanFails, SetBan, DisconnectFails,
         Disconnect, Dismiss
<1>5. banned' \subseteq IpHosts
  <2>1. op[d].pc = "setban" => op[d].host \in IpHosts
    BY DEF TypeInv, TypeOK, Ops
  <2> QED BY <1>4, <2>1 DEF TypeInv, OnlyIpBanned
<1>6. NodeOK' /\ ListOK' /\ BansOK'
  BY <1>1, <1>3, <1>5, PeerActionsAssumption
     DEF TypeInv, TypeOK, NodeOK, ListOK, BansOK
<1> QED BY <1>2, <1>5, <1>6 DEF TypeInv, TypeOK, OpsOK, BansOK, OnlyIpBanned

LEMMA ListsType == TypeInv /\ (PeerList \/ BanList) => TypeInv'
<1> SUFFICES ASSUME TypeInv, PeerList \/ BanList PROVE TypeInv'
  OBVIOUS
<1> USE PeerActionsAssumption
<1>1. UNCHANGED <<lastId, hostOf, connected, op>> /\ banned' \subseteq banned
  BY DEF PeerList, Refresh, RefreshFails, SendPoll, AnswerPoll, ReceivePoll,
     LosePoll, BanList, OpenBans, ShowBans, ShowNoBans, CloseBans, ClearBans,
     Unban
<1>2. NodeOK' /\ OpsOK' /\ OnlyIpBanned'
  BY <1>1 DEF TypeInv, TypeOK, NodeOK, OpsOK, OnlyIpBanned
<1>3. ListOK'
  <2> USE DEF TypeInv, TypeOK, NodeOK, ListOK
  <2>1. CASE Refresh \/ RefreshFails
    BY <2>1 DEF Refresh, RefreshFails
  <2>2. ASSUME NEW p \in Polls, SendPoll(p) PROVE ListOK'
    BY <2>2 DEF SendPoll
  <2>3. ASSUME NEW p \in Polls, AnswerPoll(p) PROVE ListOK'
    <3>1. served \subseteq 1..lastId /\ 1..lastId \subseteq Ids
      BY PeerActionsAssumption
    <3>2. poll' = [poll EXCEPT ![p] = [at |-> "answered", peers |-> served]]
      BY <2>3 DEF AnswerPoll
    <3>3. [at |-> "answered", peers |-> served]
            \in [at : {"free", "sent", "answered"}, peers : SUBSET Ids]
      BY <3>1
    <3>4. poll' \in [Polls -> [at : {"free", "sent", "answered"},
                               peers : SUBSET Ids]]
      BY <3>2, <3>3
    <3>5. \A q \in Polls : poll'[q].peers \subseteq 1..lastId
      BY <3>1, <3>2
    <3> QED BY <2>3, <3>4, <3>5 DEF AnswerPoll
  <2>4. ASSUME NEW p \in Polls, ReceivePoll(p) PROVE ListOK'
    BY <2>4 DEF ReceivePoll, Shown, FreePoll
  <2>5. ASSUME NEW p \in Polls, LosePoll(p) PROVE ListOK'
    BY <2>5 DEF LosePoll, FreePoll
  <2>6. CASE BanList
    BY <2>6 DEF BanList, OpenBans, ShowBans, ShowNoBans, CloseBans, ClearBans,
       Unban
  <2> QED BY <2>1, <2>2, <2>3, <2>4, <2>5, <2>6 DEF PeerList
<1>4. BansOK'
  BY DEF TypeInv, TypeOK, NodeOK, BansOK, PeerList, Refresh, RefreshFails,
     SendPoll, AnswerPoll, ReceivePoll, LosePoll, BanList, OpenBans, ShowBans,
     ShowNoBans, CloseBans, ClearBans, Unban, LoadingBans, ClosedBans
<1> QED BY <1>2, <1>3, <1>4 DEF TypeInv, TypeOK, OpsOK, BansOK

LEMMA NextType == TypeInv /\ [Next]_vars => TypeInv'
<1>1. TypeInv /\ UNCHANGED vars => TypeInv'
  BY DEF TypeInv, TypeOK, NodeOK, ListOK, OnlyIpBanned
<1> QED BY <1>1, NodeType, DialogType, ListsType DEF Next

LEMMA TypeInvariant == Spec => []TypeInv
BY InitType, NextType, PTL DEF Spec

\* Every variable stays in its domain.
THEOREM TypeCorrect == Spec => []TypeOK
<1>1. TypeInv => TypeOK BY DEF TypeInv
<1> QED BY <1>1, TypeInvariant, PTL

\* No address other than of an IPv4 or IPv6 peer is ever banned.
THEOREM OnlyIpAddressesBanned == Spec => []OnlyIpBanned
<1>1. TypeInv => OnlyIpBanned BY DEF TypeInv
<1> QED BY <1>1, TypeInvariant, PTL

-----------------------------------------------------------------------------
(***************************************************************************)
(* What the dialogs know of their peers stays true because ids are not     *)
(* reused: a ban that has found its host, and a dialog that reports        *)
(* success, are about an id that the node has given out already, whose     *)
(* host no step changes and which no step connects again.                  *)
(***************************************************************************)
Known(d) ==
  /\ op[d].host # "none" => op[d].id \in 1..lastId
                            /\ op[d].host = hostOf[op[d].id]
  /\ op[d].said \in {"disconnected", "banned and disconnected"}
       => op[d].id \in 1..lastId /\ op[d].id \notin connected

KnownInv == \A d \in Dialogs : Known(d)

LEMMA InitKnown == Init => KnownInv
<1>1. Init => \A d \in Dialogs : op[d] = NoOp
  BY DEF Init
<1>2. NoOp.host = "none" /\ NoOp.said = "nothing"
  BY DEF NoOp
<1> QED BY <1>1, <1>2 DEF Known, KnownInv

LEMMA LaterIds == \A m, n \in Nat : m <= n => \A i \in 1..m : i \in 1..n
OBVIOUS

LEMMA ConnectKeepsIds ==
  ASSUME TypeInv, NEW h \in Hosts, PeerConnects(h)
  PROVE  /\ \A i \in 1..lastId : hostOf'[i] = hostOf[i]
         /\ connected' \cap (1..lastId) \subseteq connected
         /\ lastId <= lastId' /\ lastId' \in Nat /\ UNCHANGED op
<1>1. /\ lastId \in Nat /\ lastId < MaxPeers /\ MaxPeers \in Nat
      /\ lastId' = lastId + 1
      /\ hostOf' = [hostOf EXCEPT ![lastId + 1] = h]
      /\ connected' = connected \cup {lastId + 1}
      /\ UNCHANGED op
  BY LastIdIsNat DEF PeerConnects
<1>2. hostOf \in [1..MaxPeers -> Hosts \cup {"none"}]
  BY DEF TypeInv, TypeOK, NodeOK
<1>3. \A i \in 1..lastId : i \in 1..MaxPeers /\ i # lastId + 1
  BY <1>1
<1>4. \A i \in 1..lastId : hostOf'[i] = hostOf[i]
  BY <1>1, <1>2, <1>3
<1>5. connected' \cap (1..lastId) \subseteq connected
  BY <1>1, <1>3
<1>6. lastId <= lastId' /\ lastId' \in Nat
  BY <1>1
<1> QED BY <1>1, <1>4, <1>5, <1>6

USE DEF Known, KnownInv

\* Nothing else changes what is known of an id that has been given out.
LEMMA KnownKept ==
  ASSUME TypeInv, KnownInv, UNCHANGED op, lastId <= lastId', lastId' \in Nat,
         \A i \in 1..lastId : hostOf'[i] = hostOf[i],
         connected' \cap (1..lastId) \subseteq connected
  PROVE  KnownInv'
<1> SUFFICES ASSUME NEW d \in Dialogs PROVE Known(d)'
  OBVIOUS
<1>1. Known(d) /\ op'[d] = op[d]
  OBVIOUS
<1>2. \A i \in 1..lastId : i \in 1..lastId'
  BY LastIdIsNat, LaterIds
<1> QED BY <1>1, <1>2

LEMMA NextKnown == TypeInv /\ KnownInv /\ [Next]_vars => KnownInv'
<1> SUFFICES ASSUME TypeInv, KnownInv, [Next]_vars PROVE KnownInv'
  OBVIOUS
<1>0. /\ op \in [Dialogs -> Ops] /\ lastId \in Nat
      /\ hostOf \in [Ids -> Hosts \cup {"none"}]
      /\ connected \subseteq 1..lastId /\ lastId <= MaxPeers /\ MaxPeers \in Nat
  BY LastIdIsNat DEF TypeInv, TypeOK, NodeOK
<1>1. CASE Node
  <2>1. ASSUME NEW h \in Hosts, PeerConnects(h) PROVE KnownInv'
    BY <2>1, ConnectKeepsIds, KnownKept
  <2>2. ASSUME NEW h \in Hosts, BanExpires(h) PROVE KnownInv'
    BY <1>0, <2>2, KnownKept DEF BanExpires
  <2>3. ASSUME NEW i \in Ids, PeerLeaves(i) PROVE KnownInv'
    BY <1>0, <2>3, KnownKept DEF PeerLeaves
  <2> QED BY <1>1, <2>1, <2>2, <2>3 DEF Node
<1>2. ASSUME NEW d \in Dialogs, Choose(d) \/ Post(d) \/ Work(d)
      PROVE  KnownInv'
  <2>1. UNCHANGED <<lastId, hostOf>> /\ connected' \subseteq connected
    BY <1>2 DEF Choose, Post, Work, LookUp, BanFails, SetBan,
                DisconnectFails, Disconnect, Dismiss
  <2>2. ASSUME NEW e \in Dialogs, e # d PROVE op'[e] = op[e]
    BY <1>0, <1>2, <2>2, DialogOps
  <2>3. Known(d)'
    <3>1. CASE Choose(d) \/ Post(d) \/ Dismiss(d)
      <4>1. op'[d].host = "none" /\ op'[d].said = "nothing"
        <5>1. NoOp.host = "none" /\ NoOp.said = "nothing"
          BY DEF NoOp
        <5>2. CASE Dismiss(d)
          BY <1>0, <5>1, <5>2 DEF Dismiss
        <5>3. CASE Choose(d) \/ Post(d)
          <6>1. CASE Choose(d)
            <7>1. PICK i \in table, c \in {"disconnect", "ban"} :
                    op' = [op EXCEPT ![d] = [NoOp EXCEPT
                      !.pc = IF c = "ban" THEN "lookup" ELSE "disconnect",
                      !.kind = c, !.id = i]]
              BY <6>1 DEF Choose, Choices
            <7>2. op'[d] = [NoOp EXCEPT
                      !.pc = IF c = "ban" THEN "lookup" ELSE "disconnect",
                      !.kind = c, !.id = i]
              BY <1>0, <7>1
            <7> QED BY <7>2 DEF NoOp
          <6>2. CASE Post(d)
            <7>1. PICK i \in Ids :
                    op' = [op EXCEPT ![d] = [NoOp EXCEPT
                             !.pc = "lookup", !.kind = "post", !.id = i]]
              BY <6>2 DEF Post
            <7>2. op'[d] = [NoOp EXCEPT
                             !.pc = "lookup", !.kind = "post", !.id = i]
              BY <1>0, <7>1
            <7> QED BY <7>2 DEF NoOp
          <6> QED BY <5>3, <6>1, <6>2
        <5> QED BY <3>1, <5>2, <5>3
      <4> QED BY <4>1
    <3>2. ASSUME NEW i \in Found(op[d].id),
                 op' = [op EXCEPT ![d].pc = "setban", ![d].host = hostOf[i]]
          PROVE  Known(d)'
      <4>1. /\ i = op[d].id /\ i \in 1..lastId
            /\ op'[d].id = i /\ op'[d].host = hostOf[i]
            /\ op'[d].said = op[d].said
        <5>1. i = op[d].id /\ i \in connected /\ op[d] \in Ops
          BY <1>0, <3>2 DEF Found
        <5>2. op'[d] = [op[d] EXCEPT !.pc = "setban", !.host = hostOf[i]]
          BY <1>0, <3>2
        <5> QED BY <1>0, <5>1, <5>2 DEF Ops
      <4> QED BY <1>0, <2>1, <4>1
    <3>3. ASSUME NEW words, words \notin {"disconnected",
                                         "banned and disconnected"},
                 Says(d, words)
          PROVE  Known(d)'
      <4>1. /\ op'[d].id = op[d].id /\ op'[d].host = op[d].host
            /\ op'[d].said = words
        <5>1. op[d] \in Ops
                /\ op'[d] = [op[d] EXCEPT !.pc = "done", !.said = words]
          BY <1>0, <3>3 DEF Says
        <5> QED BY <5>1 DEF Ops
      <4> QED BY <2>1, <3>3, <4>1
    <3>4. CASE Goes(d, "disconnect")
      <4>1. /\ op'[d].id = op[d].id /\ op'[d].host = op[d].host
            /\ op'[d].said = op[d].said
        BY <1>0, <3>4 DEF Goes, Ops
      <4> QED BY <2>1, <4>1
    <3>5. CASE Disconnect(d)
      <4>1. /\ op'[d].id = op[d].id /\ op'[d].host = op[d].host
            /\ op[d].id \in connected /\ connected' = connected \ {op[d].id}
        BY <1>0, <3>5 DEF Disconnect, Says, Ops
      <4> QED BY <1>0, <2>1, <4>1
    <3>6. CASE LookUp(d)
      BY <3>2, <3>3, <3>6 DEF LookUp
    <3>7. CASE BanFails(d) \/ SetBan(d) \/ DisconnectFails(d)
      BY <3>3, <3>4, <3>7
         DEF BanFails, BanRefused, SetBan, DisconnectFails, RaisedAnswer
    <3> QED BY <1>2, <3>1, <3>5, <3>6, <3>7 DEF Work
  <2> QED BY <2>1, <2>2, <2>3
<1>3. CASE PeerList
  BY <1>0, <1>3, KnownKept DEF PeerList, Refresh, RefreshFails, SendPoll,
     AnswerPoll, ReceivePoll, LosePoll
<1>4. CASE BanList
  BY <1>0, <1>4, KnownKept DEF BanList, OpenBans, ShowBans, ShowNoBans,
     CloseBans, ClearBans, Unban
<1>5. CASE UNCHANGED vars
  BY <1>0, <1>5, KnownKept
<1> QED BY <1>1, <1>2, <1>3, <1>4, <1>5 DEF Next, Dialog

LEMMA KnownInvariant == Spec => []KnownInv
BY InitKnown, NextKnown, TypeInvariant, PTL DEF Spec

\* A ban hits the address of the peer it was asked for, whatever connects and
\* disconnects in the meantime.
THEOREM BansHitTheirPeers == Spec => []BanHitsItsPeer
<1>1. KnownInv => BanHitsItsPeer BY DEF BanHitsItsPeer
<1> QED BY <1>1, KnownInvariant, PTL

\* A peer reported as disconnected is, for as long as the report is shown.
THEOREM ReportsAreTrue == Spec => []SuccessIsTrue
<1>1. KnownInv => SuccessIsTrue BY DEF SuccessIsTrue
<1> QED BY <1>1, KnownInvariant, PTL

\* No dialog disconnects a peer whose ban failed.
THEOREM FailedBanDisconnectsNobody == Spec => NoDisconnectAfterFailure
<1>1. ASSUME TypeInv, [Next]_vars, NEW d \in Dialogs,
             op[d].pc \in {"lookup", "setban"}, op'[d].pc = "disconnect"
      PROVE  op'[d].host \in banned'
  <2>1. PICK e \in Dialogs : Choose(e) \/ Post(e) \/ Work(e)
    <3>1. op' # op BY <1>1
    <3> QED BY <1>1, <3>1 DEF Next, Node, PeerConnects, PeerLeaves,
         BanExpires, Dialog, PeerList, Refresh, RefreshFails, SendPoll,
         AnswerPoll, ReceivePoll, LosePoll, BanList, OpenBans, ShowBans,
         ShowNoBans, CloseBans, ClearBans, Unban
  <2>2. e = d
    BY <1>1, <2>1, DialogOps DEF TypeInv, TypeOK
  <2>3. op[d] \in Ops
    BY <1>1 DEF TypeInv, TypeOK
  <2>4. CASE SetBan(d)
    <3>1. op'[d].host = op[d].host
      <4>1. \/ op'[d] = [op[d] EXCEPT !.pc = "disconnect"]
            \/ \E words : op'[d] = [op[d] EXCEPT !.pc = "done", !.said = words]
        BY <1>1, <2>4 DEF SetBan, Goes, Says, TypeInv, TypeOK
      <4> QED BY <2>3, <4>1 DEF Ops
    <3> QED BY <2>4, <3>1 DEF SetBan
  <2>5. CASE Choose(d) \/ Post(d) \/ DisconnectFails(d) \/ Disconnect(d)
             \/ Dismiss(d)
    BY <1>1, <2>5 DEF Choose, Post, DisconnectFails, Disconnect, Dismiss
  <2>6. CASE LookUp(d) \/ BanFails(d)
    <3>1. op'[d].pc \in {"setban", "done"}
      BY <1>1, <2>6 DEF LookUp, BanFails, BanRefused, Says, TypeInv, TypeOK, Ops
    <3> QED BY <1>1, <3>1
  <2> QED BY <2>1, <2>2, <2>4, <2>5, <2>6 DEF Work
<1>2. TypeInv /\ [Next]_vars
        => [\A d \in Dialogs : op[d].pc \in {"lookup", "setban"}
              /\ op'[d].pc = "disconnect" => op'[d].host \in banned']_vars
  BY <1>1
<1> QED BY <1>2, TypeInvariant, PTL DEF Spec, NoDisconnectAfterFailure
=============================================================================
