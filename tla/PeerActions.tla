---------------------------- MODULE PeerActions ----------------------------
(***************************************************************************)
(* What the dashboard does to the node's peers: the dialog that            *)
(* disconnects or bans (showDisconnectDialog in src/static/js/app.js), the *)
(* ban list, and the NodeService methods they call                         *)
(* (src/services/node.py).  A ban is three RPC calls, a lookup of the peer *)
(* by its id, setban and disconnectnode; meanwhile the node's connections  *)
(* change by themselves, other dialogs and API clients are at work, and    *)
(* any call may fail, also after the node has carried it out.  The table   *)
(* the user picks from is refreshed by polling: PeerService's copy of the  *)
(* peers, then responses that may arrive in any order.                     *)
(*                                                                         *)
(* The node gives every connection a new id and never reuses one until it  *)
(* is restarted, which the model does not do.                              *)
(***************************************************************************)
EXTENDS Integers, FiniteSets

CONSTANTS
  Hosts,     \* the addresses peers connect from
  IpHosts,   \* those among them on IPv4 or IPv6
  Dialogs,   \* the dialogs and API requests at work at a time
  Polls,     \* the requests for the peer list under way at a time
  MaxPeers   \* bound: how many connections the node ever makes

ASSUME PeerActionsAssumption ==
  /\ IpHosts \subseteq Hosts /\ "none" \notin Hosts
  /\ MaxPeers \in Nat

Ids == 1..MaxPeers

VARIABLES
  lastId,     \* the id of the node's latest connection
  hostOf,     \* the address each id was given to; "none" before
  connected,  \* the ids of the connected peers
  banned,     \* the addresses listbanned reports
  served,     \* PeerService._peers: the peers that /api/peers reports
  table,      \* lastPeers: the peers the dashboard shows
  poll,       \* each peer list request, and the response it brings
  op,         \* each dialog's work
  banView     \* the ban list: whether it is open, and the addresses it shows

node == <<lastId, hostOf, connected, banned>>
view == <<served, table, poll>>
vars == <<lastId, hostOf, connected, banned, served, table, poll, op, banView>>

\* A dialog: the peer it is for, the choice made, the step its work is at,
\* the host that the ban has found, and the message at the end.
NoOp == [pc |-> "closed", kind |-> "disconnect", id |-> 0, host |-> "none",
         said |-> "nothing"]

FreePoll   == [at |-> "free", peers |-> {}]
ClosedBans == [at |-> "closed", bans |-> {}]
LoadingBans == [at |-> "loading", bans |-> {}]

-----------------------------------------------------------------------------
Init ==
  /\ lastId = 0 /\ hostOf = [i \in Ids |-> "none"]
  /\ connected = {} /\ banned = {}
  /\ served = {} /\ table = {}
  /\ poll = [p \in Polls |-> FreePoll]
  /\ op = [d \in Dialogs |-> NoOp]
  /\ banView = ClosedBans

(***************************************************************************)
(* The node.                                                               *)
(***************************************************************************)

\* A peer connects by itself, or because addnode onetry asked for it.
PeerConnects(h) ==
  /\ lastId < MaxPeers /\ h \notin banned
  /\ lastId' = lastId + 1
  /\ hostOf' = [hostOf EXCEPT ![lastId + 1] = h]
  /\ connected' = connected \cup {lastId + 1}
  /\ UNCHANGED <<banned, view, op, banView>>

PeerLeaves(i) ==
  /\ i \in connected
  /\ connected' = connected \ {i}
  /\ UNCHANGED <<lastId, hostOf, banned, view, op, banView>>

BanExpires(h) ==
  /\ h \in banned
  /\ banned' = banned \ {h}
  /\ UNCHANGED <<lastId, hostOf, connected, view, op, banView>>

(***************************************************************************)
(* The dialog.                                                             *)
(***************************************************************************)

\* The next step of d's work, or its last message.
Goes(d, step)   == op' = [op EXCEPT ![d].pc = step]
Says(d, words)  == op' = [op EXCEPT ![d].pc = "done", ![d].said = words]

\* canBan: only IPv4 and IPv6 peers are offered a ban.
Choices(i) == IF hostOf[i] \in IpHosts THEN {"disconnect", "ban"}
                                       ELSE {"disconnect"}

\* The user opens the dialog for a row of the table and makes a choice.
Choose(d) ==
  /\ op[d].pc = "closed"
  /\ \E i \in table : \E c \in Choices(i) :
       op' = [op EXCEPT ![d] = [NoOp EXCEPT
                !.pc = IF c = "ban" THEN "lookup" ELSE "disconnect",
                !.kind = c, !.id = i]]
  /\ UNCHANGED <<node, view, banView>>

\* Any client may post a ban, for any id.
Post(d) ==
  /\ op[d].pc = "closed"
  /\ \E i \in Ids : op' = [op EXCEPT ![d] = [NoOp EXCEPT
                             !.pc = "lookup", !.kind = "post", !.id = i]]
  /\ UNCHANGED <<node, view, banView>>

\* Mutant: the peers are taken for a list indexed by id.
Indexed(i) == {j \in connected : Cardinality({k \in connected : k < j}) = i - 1}

\* next(peer for peer in peers if peer.get("id") == int(peer_id))
Found(i) == {j \in connected : j = i}

\* Mutant: the network is left to the dialog to check.
AnyNetwork(i) == TRUE

\* peer_network in {"ipv4", "ipv6"}
Bannable(i) == hostOf[i] \in IpHosts

\* ban: getpeerinfo, the peer among its answer, and the peer's network.
LookUp(d) ==
  /\ op[d].pc = "lookup"
  /\ \/ \E i \in Found(op[d].id) :
          /\ Bannable(i)
          /\ op' = [op EXCEPT ![d].pc = "setban", ![d].host = hostOf[i]]
     \/ /\ \A i \in Found(op[d].id) : ~Bannable(i)
        /\ Says(d, "failed")
  /\ UNCHANGED <<node, view, banView>>

\* Mutant: the dialog goes on to disconnect whatever the ban answered.
DisconnectAnyway(d) == Goes(d, "disconnect")

\* A ban that did not succeed ends the dialog.
BanRefused(d) == Says(d, "failed")

\* getpeerinfo or setban raises; setban may have been carried out.
BanFails(d) ==
  /\ op[d].pc \in {"lookup", "setban"}
  /\ IF op[d].pc = "setban" THEN banned' \in {banned, banned \cup {op[d].host}}
                            ELSE UNCHANGED banned
  /\ BanRefused(d)
  /\ UNCHANGED <<lastId, hostOf, connected, view, banView>>

\* setban; the node may itself drop the peers of the banned address.
SetBan(d) ==
  /\ op[d].pc = "setban"
  /\ banned' = banned \cup {op[d].host}
  /\ connected' \in {connected,
                     {i \in connected : hostOf[i] # op[d].host}}
  /\ IF op[d].kind = "ban" THEN Goes(d, "disconnect") ELSE Says(d, "banned")
  /\ UNCHANGED <<lastId, hostOf, view, banView>>

\* Mutant: a peer that is not found is disconnected well enough, and so is
\* one whose disconnection raised.
AnyAnswer(d) == "disconnected"

\* The answer to a disconnect that raised.
RaisedAnswer(d) == IF op[d].kind = "ban" THEN "banned only" ELSE "failed"

\* disconnectnode raises: the peer is not connected, or the call failed,
\* before or after the node carried it out.
DisconnectFails(d) ==
  /\ op[d].pc = "disconnect"
  /\ connected' \in {connected, connected \ {op[d].id}}
  /\ Says(d, RaisedAnswer(d))
  /\ UNCHANGED <<lastId, hostOf, banned, view, banView>>

Disconnect(d) ==
  /\ op[d].pc = "disconnect" /\ op[d].id \in connected
  /\ connected' = connected \ {op[d].id}
  /\ Says(d, IF op[d].kind = "ban" THEN "banned and disconnected"
                                   ELSE "disconnected")
  /\ UNCHANGED <<lastId, hostOf, banned, view, banView>>

\* The notification goes away.
Dismiss(d) ==
  /\ op[d].pc = "done"
  /\ op' = [op EXCEPT ![d] = NoOp]
  /\ UNCHANGED <<node, view, banView>>

Work(d) == \/ LookUp(d) \/ BanFails(d) \/ SetBan(d) \/ DisconnectFails(d)
           \/ Disconnect(d) \/ Dismiss(d)

(***************************************************************************)
(* The peer list.                                                          *)
(***************************************************************************)

\* _refresh_loop: getpeerinfo; a call that fails leaves an empty list.
Refresh ==
  /\ served' = connected
  /\ UNCHANGED <<node, table, poll, op, banView>>

RefreshFails ==
  /\ served' = {}
  /\ UNCHANGED <<node, table, poll, op, banView>>

\* fetchPeers, by its timer or after a dialog.
SendPoll(p) ==
  /\ poll[p].at = "free"
  /\ poll' = [poll EXCEPT ![p].at = "sent"]
  /\ UNCHANGED <<node, served, table, op, banView>>

\* list_peers
AnswerPoll(p) ==
  /\ poll[p].at = "sent"
  /\ poll' = [poll EXCEPT ![p] = [at |-> "answered", peers |-> served]]
  /\ UNCHANGED <<node, served, table, op, banView>>

\* Mutant: peers once shown stay.
Merge(response) == table \cup response

\* lastPeers = peers
Shown(response) == response

ReceivePoll(p) ==
  /\ poll[p].at = "answered"
  /\ table' = Shown(poll[p].peers)
  /\ poll' = [poll EXCEPT ![p] = FreePoll]
  /\ UNCHANGED <<node, served, op, banView>>

\* The request is lost: the table stays.
LosePoll(p) ==
  /\ poll[p].at # "free"
  /\ poll' = [poll EXCEPT ![p] = FreePoll]
  /\ UNCHANGED <<node, served, table, op, banView>>

(***************************************************************************)
(* The ban list.                                                           *)
(***************************************************************************)

\* openBanModal and fetchBanList.
OpenBans ==
  /\ banView.at = "closed"
  /\ banView' = LoadingBans
  /\ UNCHANGED <<node, view, op>>

\* bans, and renderBanList of data.bans || [].
ShowBans ==
  /\ banView.at = "loading"
  /\ banView' = [at |-> "shown", bans |-> banned]
  /\ UNCHANGED <<node, view, op>>

\* listbanned raises: the answer carries an empty list and success: false,
\* which fetchBanList does not look at.
ShowNoBans ==
  /\ banView.at = "loading"
  /\ banView' = [at |-> "shown", bans |-> {}]
  /\ UNCHANGED <<node, view, op>>

CloseBans ==
  /\ banView.at # "closed"
  /\ banView' = ClosedBans
  /\ UNCHANGED <<node, view, op>>

\* unban, one address or none when the call fails, then fetchBanList.
Unban(h) ==
  /\ h \in banView.bans
  /\ banned' \in {banned, banned \ {h}}
  /\ banView' \in {banView, LoadingBans}
  /\ UNCHANGED <<lastId, hostOf, connected, view, op>>

ClearBans ==
  /\ banView.bans # {}
  /\ banned' \in {banned, {}}
  /\ banView' \in {banView, LoadingBans}
  /\ UNCHANGED <<lastId, hostOf, connected, view, op>>

-----------------------------------------------------------------------------
Node     == \/ \E h \in Hosts : PeerConnects(h) \/ BanExpires(h)
            \/ \E i \in Ids : PeerLeaves(i)
Dialog   == \E d \in Dialogs : Choose(d) \/ Post(d) \/ Work(d)
PeerList == \/ Refresh \/ RefreshFails
            \/ \E p \in Polls : \/ SendPoll(p) \/ AnswerPoll(p)
                                \/ ReceivePoll(p) \/ LosePoll(p)
BanList  == \/ OpenBans \/ ShowBans \/ ShowNoBans \/ CloseBans \/ ClearBans
            \/ \E h \in Hosts : Unban(h)

Next == Node \/ Dialog \/ PeerList \/ BanList

Spec == Init /\ [][Next]_vars

\* The refresh loop and the timers go on, requests end, and some succeed.
FairSpec ==
  /\ Spec
  /\ WF_vars(Refresh)
  /\ WF_vars(\E p \in Polls : SendPoll(p))
  /\ SF_vars(\E p \in Polls : AnswerPoll(p))
  /\ SF_vars(\E p \in Polls : ReceivePoll(p))

-----------------------------------------------------------------------------
(***************************************************************************)
(* Properties.                                                             *)
(***************************************************************************)
NodeOK ==
  /\ lastId \in 0..MaxPeers
  /\ hostOf \in [Ids -> Hosts \cup {"none"}]
  /\ connected \subseteq 1..lastId
  /\ banned \subseteq Hosts

ListOK ==
  /\ served \subseteq 1..lastId /\ table \subseteq 1..lastId
  /\ poll \in [Polls -> [at : {"free", "sent", "answered"}, peers : SUBSET Ids]]
  /\ \A p \in Polls : poll[p].peers \subseteq 1..lastId

Ops ==
  [pc : {"closed", "lookup", "setban", "disconnect", "done"},
   kind : {"disconnect", "ban", "post"}, id : 0..MaxPeers,
   host : IpHosts \cup {"none"},
   said : {"nothing", "failed", "banned", "banned only", "disconnected",
           "banned and disconnected"}]

TypeOK ==
  /\ NodeOK /\ ListOK
  /\ op \in [Dialogs -> Ops]
  /\ banView \in [at : {"closed", "loading", "shown"}, bans : SUBSET Hosts]

\* Only IPv4 and IPv6 addresses can be banned: whatever id the table, a
\* dialog that has gone stale or a client names.
OnlyIpBanned == banned \subseteq IpHosts

\* A ban hits the address of the very peer it was asked for, although peers
\* come and go between the table, the lookup and setban.
BanHitsItsPeer ==
  \A d \in Dialogs : op[d].host # "none" => op[d].host = hostOf[op[d].id]

\* "Ban first, then disconnect" (app.js): the dialog gets to the disconnect
\* only when the address is banned; a peer whose ban failed stays connected.
NoDisconnectAfterFailure ==
  [][\A d \in Dialogs : op[d].pc \in {"lookup", "setban"}
       /\ op'[d].pc = "disconnect" => op'[d].host \in banned']_vars

\* A success that is reported is one: the peer is gone, and stays away under
\* that id.
SuccessIsTrue ==
  \A d \in Dialogs :
    op[d].said \in {"disconnected", "banned and disconnected"}
      => op[d].id \notin connected

\* A peer that has left is taken off the table at some time for good, however
\* the responses overtake each other.
GoneForGood == \A i \in Ids : <>[](i \notin connected) => <>[](i \notin table)

=============================================================================
