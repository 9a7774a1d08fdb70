-------------------------- MODULE SessionSyncProofs --------------------------
(***************************************************************************)
(* Whose node it is: the syncs of a connection share one slot of           *)
(* connected_nodes, one union of GATT parameters and one counter.  Nothing *)
(* in the code ties a callback to the sync it belongs to, so what keeps    *)
(* them apart is the order of the callbacks, in the environments that the  *)
(* properties of Session name.                                             *)
(*                                                                         *)
(* The argument has five parts: what the node has is of the latest sync,   *)
(* in every environment; a sync finishes once, where the link holds; what  *)
(* is queued at the host is what the parameters are for; what a sync needs *)
(* is allocated; and what it was given is given back.                      *)
(***************************************************************************)
EXTENDS SessionProofs, SequenceTheorems

\* The cloud has the uplink of sync k, and has not given all of its answer.
Due(k) == up[k] \in {"fed", "closed", "gone"} /\ resp[k] = "open"
NoneDue == \A k \in Syncs : ~Due(k)
NoneOwed == \A k \in Syncs : ~Owed(k)

\* The host has nothing queued, and no subscription.
Resting == reqs = <<>> /\ ~sub

\* Sync k has not begun.
Fresh(k) == up[k] = "none" /\ down[k] = "none" /\ k \notin pack

\* The node is of the latest sync; nothing refers to it without a connection.
OfLatest ==
  /\ node.uplink \in {0, sync} /\ node.ctx \in {0, sync}
  /\ node.uplink # 0 => up[node.uplink] \in {"open", "fed"}
  /\ \A k \in Syncs : k > sync => Fresh(k)
  /\ link \in {"none", "creating"} => Resting /\ node.uplink = 0

\* Where the SDK is done before the next sync begins, it stays done until then.
Awaited ==
  "slow" \notin env =>
    /\ link = "creating" \/ work = "now" => NoneOwed
    /\ work = "now" => Resting /\ node.uplink = 0
    /\ \A k \in Syncs : Owed(k) => sync = k

OwnInv == Inv /\ OfLatest /\ Awaited

\* What the device feeds, and what is closed, is the uplink of the node.
Fed(k) == k = node.uplink /\ (sub \/ reqs # <<>>)

\* What the actions after the discovery do to the node and to the other syncs
LateMore ==
  /\ node'.uplink \in {0, node.uplink} /\ node'.ctx = node.ctx
  /\ node'.uplink # 0 => up'[node.uplink] \in {up[node.uplink], "fed"}
  /\ \A k \in Syncs : k > sync => Fresh(k)'
  /\ \A k \in Syncs : Due(k)' => Due(k) \/ Fed(k)
  /\ \A k \in Syncs : Owed(k)' => Owed(k) \/ Fed(k)
  /\ work' = "now" => work = "now"
  /\ Resting /\ NoneOwed => reqs' = <<>>

-----------------------------------------------------------------------------
(* The node is of the latest sync                                          *)

\* The late actions keep it.
LEMMA LateOwn ==
  ASSUME OwnInv, LateStep, RestType', LateMore
  PROVE  OwnInv'
<1>1. /\ Inv /\ OfLatest /\ Awaited
      /\ UNCHANGED <<app, env, scan, begun, sync, scratch>>
      /\ link' = link \/ (link = "up" /\ link' = "closing")
      /\ sub' => sub
  BY DEF OwnInv, LateStep, AppStep
<1>2. link # "up" /\ Resting => reqs' = <<>>
  BY <1>1 DEF LateStep, HostStep, Resting
<1>3. OfLatest'
  <2>1. node'.uplink \in {0, sync'} /\ node'.ctx \in {0, sync'}
    BY <1>1 DEF OfLatest, LateMore
  <2>2. node'.uplink # 0 => up'[node'.uplink] \in {"open", "fed"}
    BY <1>1 DEF OfLatest, LateMore
  <2>3. \A k \in Syncs : k > sync' => Fresh(k)'
    BY <1>1 DEF LateMore
  <2>4. link' \in {"none", "creating"} => Resting' /\ node'.uplink = 0
    BY <1>1, <1>2 DEF OfLatest, LateMore, Resting
  <2>5. QED
    BY <2>1, <2>2, <2>3, <2>4 DEF OfLatest
<1>4. Awaited'
  <2>1. SUFFICES ASSUME "slow" \notin env PROVE Awaited'
    BY <1>1 DEF Awaited
  <2>2. ASSUME Resting, NoneOwed PROVE NoneOwed'
    BY <2>2 DEF LateMore, Fed, Resting, NoneOwed
  <2>3. link' = "creating" => NoneOwed'
    BY <1>1, <2>1, <2>2 DEF Awaited, OfLatest
  <2>4. ASSUME work' = "now" PROVE NoneOwed' /\ Resting' /\ node'.uplink = 0
    <3>1. work = "now"
      BY <2>4 DEF LateMore
    <3>2. Resting /\ node.uplink = 0 /\ NoneOwed
      BY <1>1, <2>1, <3>1 DEF Awaited
    <3>3. QED
      BY <1>1, <2>2, <3>2 DEF LateMore, Resting
  <2>5. \A k \in Syncs : Owed(k)' => sync' = k
    <3>1. \A k \in Syncs : Fed(k) => sync = k
      BY <1>1, BoundAssumption DEF Fed, OfLatest, Syncs
    <3>2. \A k \in Syncs : Owed(k) => sync = k
      BY <1>1, <2>1 DEF Awaited
    <3>3. QED
      BY <1>1, <3>1, <3>2 DEF LateMore
  <2>6. QED
    BY <2>3, <2>4, <2>5 DEF Awaited
<1>5. Inv'
  BY <1>1, LateInv
<1>6. QED
  BY <1>3, <1>4, <1>5 DEF OwnInv

\* bt_finished schedules the work for later, or not at all.
LEMMA FinishedLater ==
  ASSUME NEW wk, Finished(link, wk), wk \in {"idle", "now", "later"}
  PROVE  work' = "now" => wk = "now"
BY DEF Finished

\* Nothing of the cloud's changes, for the steps that leave it and the node.
LEMMA StillMore ==
  ASSUME OwnInv, UNCHANGED <<sync, node, up, down, resp>>, pack' \subseteq pack,
         work' = "now" => work = "now", Resting => reqs' = <<>>
  PROVE  LateMore
<1>1. \A k \in Syncs : k > sync => Fresh(k)'
  BY DEF OwnInv, OfLatest, Fresh
<1>2. \A k \in Syncs : (Due(k)' => Due(k)) /\ (Owed(k)' => Owed(k))
  BY DEF Due, Owed
<1>3. QED
  BY <1>1, <1>2 DEF LateMore, Resting

\* handle_uplink_payload
LEMMA PayloadMore ==
  ASSUME OwnInv, NEW packet \in Packets, Payload(packet), sub \/ reqs # <<>>, link = "up",
         packet # "bad" => node.uplink # 0,
         UNCHANGED <<sync, down, resp, pack>>
  PROVE  LateMore
<1>1. /\ node.uplink \in 0 .. MaxSyncs /\ sync \in 0 .. MaxSyncs
      /\ up \in [Syncs -> {"none", "open", "fed", "closed", "stuck", "gone"}]
      /\ work \in {"idle", "now", "later"} /\ node.uplink \in {0, sync}
      /\ node \in NodeType
      /\ node.uplink # 0 => up[node.uplink] \in {"open", "fed"}
  BY DEF OwnInv, Inv, TypeOK, NodeType, OfLatest
<1>2. packet \in {"more", "last", "bad", "refused"}
  BY DEF Packets
<1>3. CASE packet = "bad"
  BY <1>1, <1>3, FinishedLater, StillMore DEF Payload, Resting
<1>4. CASE packet \in {"more", "last", "refused"}
  <2>1. PICK s \in {"fed", "closed"} :
          /\ up' = [up EXCEPT ![node.uplink] = s]
          /\ \/ s = "fed" /\ node' = node
             \/ node' = [node EXCEPT !.uplink = 0]
          /\ work' = "now" => work = "now"
    BY <1>1, <1>4, FinishedLater DEF Payload, appVars
  <2>2. node.uplink = sync /\ sync \in Syncs
    BY <1>1, <1>4, BoundAssumption DEF Syncs
  <2>3. up'[sync] = s /\ \A k \in Syncs : k # sync => up'[k] = up[k]
    BY <1>1, <2>1, <2>2
  <2>4. /\ node'.uplink \in {0, node.uplink} /\ node'.ctx = node.ctx
        /\ node'.uplink # 0 => s = "fed"
    BY <1>1, <2>1 DEF NodeType
  <2>5. \A k \in Syncs : k > sync => Fresh(k)'
    BY <1>1, <2>3, BoundAssumption DEF OwnInv, OfLatest, Fresh, Syncs
  <2>6. Fed(sync)
    BY <2>2 DEF Fed
  <2>7. \A k \in Syncs : k # sync => (Due(k)' => Due(k)) /\ (Owed(k)' => Owed(k))
    BY <2>3 DEF Due, Owed
  <2>8. QED
    BY <2>1, <2>2, <2>3, <2>4, <2>5, <2>6, <2>7 DEF LateMore, Resting
<1>5. QED
  BY <1>2, <1>3, <1>4

LEMMA DeviceMore ==
  ASSUME OwnInv, DeviceStep
  PROVE  LateMore
<1>1. PICK packet \in Packets : Indicated(packet) \/ ReadBack(packet)
  BY DEF DeviceStep
<1>2. /\ Payload(packet)
      /\ sub \/ reqs # <<>>
      /\ link = "up"
      /\ packet # "bad" => node.uplink # 0
      /\ UNCHANGED <<sync, down, resp, pack>>
  BY <1>1 DEF Indicated, ReadBack, Answered, Ok, syncVars
<1>3. QED
  BY <1>1, <1>2, PayloadMore DEF Indicated, ReadBack

\* An uplink that is closed: what was fed to it is owed as before.
LEMMA ClosedMore ==
  ASSUME OwnInv, UNCHANGED <<sync, down, resp, pack>>, sub \/ reqs # <<>>,
         up' = Closed(node.uplink), node' = [node EXCEPT !.uplink = 0],
         work' = "now" => work = "now"
  PROVE  LateMore
<1>1. /\ node \in NodeType /\ sync \in 0 .. MaxSyncs
      /\ up \in [Syncs -> {"none", "open", "fed", "closed", "stuck", "gone"}]
      /\ node.uplink \in {0, sync}
  BY DEF OwnInv, Inv, TypeOK, OfLatest
<1>2. node'.uplink = 0 /\ node'.ctx = node.ctx
  BY <1>1 DEF NodeType
<1>3. \A k \in Syncs : /\ up'[k] \in {"fed", "closed", "gone"} => up[k] \in {"fed", "closed", "gone"}
                       /\ up'[k] = "closed" => up[k] = "closed" \/ k = node.uplink
                       /\ up'[k] = "gone" => up[k] = "gone"
                       /\ up[k] = "none" => up'[k] = "none"
  BY <1>1 DEF Closed
<1>4. \A k \in Syncs : k > sync => Fresh(k)'
  BY <1>3 DEF OwnInv, OfLatest, Fresh
<1>5. \A k \in Syncs : (Due(k)' => Due(k)) /\ (Owed(k)' => Owed(k) \/ Fed(k))
  BY <1>3 DEF Due, Owed, Fed
<1>6. QED
  BY <1>2, <1>4, <1>5 DEF LateMore, Resting

\* The downlink of the latest sync goes on or ends; answers are only given.
LEMMA DownMore ==
  ASSUME OwnInv, UNCHANGED <<sync, up>>,
         node'.uplink = node.uplink, node'.ctx = node.ctx, pack' \subseteq pack,
         \A j \in Syncs : j > sync => down'[j] = down[j],
         \A j \in Syncs : resp'[j] = "open" => resp[j] = "open",
         work' = "now" => work = "now", Resting /\ NoneOwed => reqs' = <<>>
  PROVE  LateMore
<1>1. \A k \in Syncs : k > sync => Fresh(k)'
  BY DEF OwnInv, OfLatest, Fresh
<1>2. \A k \in Syncs : (Due(k)' => Due(k)) /\ (Owed(k)' => Owed(k))
  BY DEF Due, Owed
<1>3. QED
  BY <1>1, <1>2 DEF LateMore

\* What Abandon and Write do to the node, to down and to pack
DownPart ==
  /\ node'.uplink = node.uplink /\ node'.ctx = node.ctx /\ pack' \subseteq pack
  /\ \A j \in Syncs : j > sync => down'[j] = down[j]
  /\ work' = "now" => work = "now"

LEMMA AbandonMore ==
  ASSUME OwnInv, NEW rs, NEW ends, Abandon(rs, ends)
  PROVE  DownPart
<1>1. /\ node.ctx \in {0, sync} /\ sync \in 0 .. MaxSyncs
      /\ down \in [Syncs -> {"none", "null", "waiting", "writing", "aborted", "gone"}]
      /\ work \in {"idle", "now", "later"}
  BY DEF OwnInv, OfLatest, Inv, TypeOK
<1>2. CASE /\ \E d \in ends : down' = [down EXCEPT ![node.ctx] = d]
           /\ pack' = pack \ {node.pack}
           /\ Finished(link, work)
           /\ UNCHANGED <<node, fault>>
  <2>1. PICK d \in ends : down' = [down EXCEPT ![node.ctx] = d]
    BY <1>2
  <2>2. \A j \in Syncs : j > sync => down'[j] = down[j]
    BY <1>1, <2>1, BoundAssumption DEF Syncs
  <2>3. QED
    BY <1>1, <1>2, <2>2, FinishedLater DEF DownPart
<1>3. CASE UNCHANGED <<node, appVars, down, pack>>
  BY <1>3 DEF DownPart, appVars
<1>4. QED
  BY <1>2, <1>3 DEF Abandon

LEMMA WriteMore ==
  ASSUME OwnInv, NEW rs, Write(rs)
  PROVE  DownPart
<1>1. /\ node.ctx \in {0, sync} /\ sync \in 0 .. MaxSyncs
      /\ down \in [Syncs -> {"none", "null", "waiting", "writing", "aborted", "gone"}]
      /\ node \in NodeType
  BY DEF OwnInv, OfLatest, Inv, TypeOK
<1>2. CASE /\ node' = [node EXCEPT !.params = "write"]
           /\ down' = [down EXCEPT ![node.ctx] = "writing"]
           /\ UNCHANGED <<appVars, pack, fault>>
  <2>1. \A j \in Syncs : j > sync => down'[j] = down[j]
    BY <1>1, <1>2, BoundAssumption DEF Syncs
  <2>2. node'.uplink = node.uplink /\ node'.ctx = node.ctx
    BY <1>1, <1>2 DEF NodeType
  <2>3. QED
    BY <1>2, <2>1, <2>2 DEF DownPart, appVars
<1>3. CASE UNCHANGED <<node, appVars, down, pack>>
  BY <1>3 DEF DownPart, appVars
<1>4. CASE \E ends : Abandon(rs, ends)
  BY <1>4, AbandonMore
<1>5. QED
  BY <1>2, <1>3, <1>4 DEF Write

\* The answers to a read, a subscription and an unsubscription, and misuses
LEMMA UplinkAnswersMore ==
  ASSUME OwnInv, NEW err \in BOOLEAN,
         \/ LinkLost \/ ReadError \/ PayloadTooLate \/ Astray \/ Subscribed(err)
         \/ SubscriptionEnds \/ ExchangeWithoutContext
  PROVE  LateMore
<1>1. /\ UNCHANGED <<sync, down, resp, pack>> /\ (Resting => reqs' = <<>>)
      /\ UNCHANGED <<up, node, work>> \/ (SubscriptionTerminated /\ (sub \/ reqs # <<>>))
  BY DEF LinkLost, ReadError, PayloadTooLate, Astray, Subscribed, SubscriptionEnds, Fail,
         ExchangeWithoutContext, Answered, Resting, fixed, appVars, syncVars, hostVars,
         heapVars
<1>2. work \in {"idle", "now", "later"}
  BY DEF OwnInv, Inv, TypeOK
<1>3. CASE UNCHANGED <<up, node, work>>
  BY <1>1, <1>3, StillMore
<1>4. CASE SubscriptionTerminated /\ ~UNCHANGED <<up, node, work>>
  <2>1. /\ up' = Closed(node.uplink)
        /\ node' = [node EXCEPT !.uplink = 0]
        /\ Finished(link, work)
    BY <1>4 DEF SubscriptionTerminated, appVars
  <2>2. work' = "now" => work = "now"
    BY <1>2, <2>1, FinishedLater
  <2>3. QED
    BY <1>1, <1>4, <2>1, <2>2, ClosedMore
<1>5. QED
  BY <1>1, <1>3, <1>4

\* The cloud ends an uplink that it was owed.
LEMMA UplinkEndsMore ==
  ASSUME OwnInv, NEW k \in Syncs, NEW ok \in BOOLEAN, UplinkEnds(k, ok)
  PROVE  LateMore
<1>1. /\ node \in NodeType /\ sync \in 0 .. MaxSyncs
      /\ up \in [Syncs -> {"none", "open", "fed", "closed", "stuck", "gone"}]
      /\ resp \in [Syncs -> {"open", "last", "failed"}]
      /\ work \in {"idle", "now", "later"}
  BY DEF OwnInv, Inv, TypeOK
<1>2. /\ up[k] \in {"fed", "closed"} /\ up' = [up EXCEPT ![k] = "gone"]
      /\ (up[k] = "closed" /\ resp' = resp) \/ resp' = [resp EXCEPT ![k] = "failed"]
      /\ node' = [node EXCEPT !.uplink = 0]
      /\ UNCHANGED <<sync, down, pack>>
      /\ UNCHANGED appVars \/ Finished(link, work)
      /\ ~sub => reqs' = reqs
  BY DEF UplinkEnds, syncVars, hostVars
<1>3. /\ node'.uplink = 0 /\ node'.ctx = node.ctx
      /\ work' = "now" => work = "now"
  BY <1>1, <1>2, FinishedLater DEF NodeType, appVars
<1>4. \A j \in Syncs : j > sync => Fresh(j)'
  BY <1>1, <1>2 DEF OwnInv, OfLatest, Fresh
<1>5. \A j \in Syncs : (Due(j)' => Due(j)) /\ (Owed(j)' => Owed(j))
  BY <1>1, <1>2 DEF Due, Owed
<1>6. QED
  BY <1>2, <1>3, <1>4, <1>5 DEF LateMore, Resting

\* The cloud answers a sync that it owes an answer.
LEMMA ResponseMore ==
  ASSUME OwnInv, NEW k \in Syncs, EndCb(k) \/ \E last \in BOOLEAN : BlockCb(k, last)
  PROVE  LateMore
<1>1. /\ down \in [Syncs -> {"none", "null", "waiting", "writing", "aborted", "gone"}]
      /\ resp \in [Syncs -> {"open", "last", "failed"}]
      /\ sync \in 0 .. MaxSyncs
  BY DEF OwnInv, Inv, TypeOK
<1>2. /\ resp[k] = "open" /\ up[k] \in {"gone", "closed"}
      /\ UNCHANGED <<sync, up>>
      /\ \A j \in Syncs : resp'[j] = "open" => resp[j] = "open"
  BY <1>1 DEF EndCb, BlockCb, Responds, syncVars
<1>3. ~NoneOwed /\ ~(k > sync)
  <2>1. Owed(k)
    BY <1>2 DEF Owed
  <2>2. ~Fresh(k)
    BY <1>2 DEF Fresh
  <2>3. QED
    BY <2>1, <2>2 DEF NoneOwed, OwnInv, OfLatest
<1>4. DownPart
  <2>1. CASE Write(reqs)
    BY <2>1, WriteMore
  <2>2. CASE /\ UNCHANGED <<node, appVars, pack>>
             /\ down' = down \/ down' = [down EXCEPT ![k] = "gone"]
    BY <1>1, <1>3, <2>2 DEF DownPart, appVars
  <2>3. QED
    BY <2>1, <2>2 DEF EndCb, BlockCb
<1>5. QED
  BY <1>2, <1>3, <1>4, DownMore DEF DownPart

\* The answer to a write
LEMMA WrittenMore ==
  ASSUME OwnInv, Written
  PROVE  LateMore
<1>1. /\ node.ctx \in {0, sync} /\ sync \in 0 .. MaxSyncs
      /\ down \in [Syncs -> {"none", "null", "waiting", "writing", "aborted", "gone"}]
      /\ work \in {"idle", "now", "later"}
  BY DEF OwnInv, OfLatest, Inv, TypeOK
<1>2. UNCHANGED <<sync, up, resp>> /\ ~Resting
  BY DEF Written, Answered, Resting, syncVars
<1>3. DownPart
  <2>1. CASE Write(Tail(reqs))
    BY <2>1, WriteMore
  <2>2. CASE Abandon(Tail(reqs), AbortEnds(resp[node.ctx]))
    BY <2>2, AbandonMore
  <2>3. CASE EndDownlink /\ node' = node
    <3>1. \A j \in Syncs : j > sync => down'[j] = down[j]
      BY <1>1, <2>3, BoundAssumption DEF EndDownlink, Syncs
    <3>2. QED
      BY <1>1, <2>3, <3>1, FinishedLater DEF DownPart, EndDownlink
  <2>4. CASE UNCHANGED <<node, appVars, pack>> /\ down' = [down EXCEPT ![node.ctx] = "waiting"]
    <3>1. \A j \in Syncs : j > sync => down'[j] = down[j]
      BY <1>1, <2>4, BoundAssumption DEF Syncs
    <3>2. QED
      BY <2>4, <3>1 DEF DownPart, appVars
  <2>5. CASE UNCHANGED <<node, appVars, down, pack>>
    BY <2>5 DEF DownPart, appVars
  <2>6. QED
    BY <2>1, <2>2, <2>3, <2>4, <2>5 DEF Written
<1>4. QED
  BY <1>2, <1>3, DownMore DEF DownPart

-----------------------------------------------------------------------------
(* The discovery and the connections                                       *)

\* One discovery leads to the next, or the sync ends there.
EarlyStep ==
  /\ reqs # <<>> /\ Head(reqs) \in Early
  /\ UNCHANGED <<app, env, scan, begun, sync, sub, up, down, resp, scratch, pack, fault>>
  /\ node'.uplink = node.uplink /\ node'.ctx = node.ctx
  /\ node'.scratch = node.scratch /\ node'.pack = node.pack
  /\ \/ \E op \in Early :
          /\ link = "up" /\ UNCHANGED appVars
          /\ reqs' = Append(Tail(reqs), op)
          /\ node.params = ParamsOf(Head(reqs)) => node'.params = ParamsOf(op)
     \/ /\ reqs' = Tail(reqs)
        /\ \/ Finished(link, work)
           \/ (Error \/ "cloud" \in env) /\ UNCHANGED appVars

\* Uplink and downlink are started; d is what the downlink got.
Start(d, opened, source) ==
  /\ UNCHANGED <<app, env, scan, begun, sync, resp, fault>>
  /\ link # "up" => d = "noscratch"
  /\ link = "up" /\ "malloc" \notin env => d = "opened"
  /\ opened \/ "malloc" \in env
  /\ pack' = IF d = "noscratch" THEN pack ELSE pack \union {sync}
  /\ down' = [down EXCEPT ![sync] = IF d = "opened" THEN "waiting" ELSE "null"]
  /\ node'.uplink = IF opened THEN sync ELSE 0
  /\ node'.ctx = IF d = "opened" THEN sync ELSE 0
  /\ d = "opened" => node'.scratch = sync /\ node'.pack = sync
  /\ opened => node'.params = source
  /\ up' = IF opened THEN [up EXCEPT ![sync] = "open"] ELSE up
  /\ \/ /\ opened /\ link = "up" /\ UNCHANGED appVars
        /\ reqs' = Append(Tail(reqs), source)
        /\ sub' = (sub \/ source = "subscribe")
     \/ /\ ~opened \/ link # "up" \/ "gatt" \in env
        /\ Finished(link, work)
        /\ reqs' = Tail(reqs) /\ sub' = sub

Starts ==
  /\ reqs # <<>> /\ Head(reqs) \in Early
  /\ \E d \in {"noscratch", "nocontext", "opened"}, opened \in BOOLEAN,
        source \in {"read", "subscribe"} : Start(d, opened, source)

\* Two requests that are queued are told apart.
LEMMA AppendApart ==
  ASSUME NEW s \in Seq(Requests), NEW a \in Requests, NEW b \in Requests
  PROVE  Append(s, a) # s /\ (Append(s, a) = Append(s, b) => a = b)
<1>1. /\ Len(s) \in Nat /\ Len(Append(s, a)) = Len(s) + 1
      /\ Append(s, a)[Len(s) + 1] = a /\ Append(s, b)[Len(s) + 1] = b
  OBVIOUS
<1>2. Len(s) + 1 # Len(s)
  BY <1>1
<1>3. QED
  BY <1>1, <1>2, Zenon

LEMMA UplinkStarts ==
  ASSUME TypeOK, sync # 0, reqs # <<>>, Head(reqs) \in Early,
         NEW attrs \in SUBSET {"uplink", "downlink", "certs", "ccc"},
         UplinkStart(attrs, Tail(reqs)),
         UNCHANGED <<app, env, scan, begun, sync, fault>>
  PROVE  Starts
<1> DEFINE source == IF "ccc" \in attrs THEN "subscribe" ELSE "read"
<1>1. PICK d \in DownlinkStarts, opened \in BOOLEAN :
        LET mine == IF d = "noscratch" THEN {} ELSE {sync}
        IN /\ opened \/ "malloc" \in env
           /\ scratch' = scratch \union mine
           /\ pack' = pack \union mine
           /\ down' = [down EXCEPT ![sync] = IF d = "opened" THEN "waiting" ELSE "null"]
           /\ node' = [node EXCEPT !.attrs = attrs,
                                   !.scratch = IF mine = {} THEN @ ELSE sync,
                                   !.pack = IF mine = {} THEN @ ELSE sync,
                                   !.ctx = IF d = "opened" THEN sync ELSE 0,
                                   !.uplink = IF opened THEN sync ELSE 0,
                                   !.params = IF opened THEN source ELSE @]
           /\ IF opened
                THEN /\ up' = [up EXCEPT ![sync] = "open"]
                     /\ Request(link, work, Tail(reqs), source)
                     /\ sub' = (sub \/ reqs' = Append(Tail(reqs), "subscribe"))
                ELSE reqs' = Tail(reqs) /\ Finished(link, work) /\ UNCHANGED <<up, sub>>
           /\ UNCHANGED resp
  BY DEF UplinkStart
<1>2. source \in {"read", "subscribe"} /\ source \in Requests /\ "subscribe" \in Requests
  BY DEF Requests
<1> HIDE DEF source
<1>3. /\ node \in NodeType /\ Tail(reqs) \in Seq(Requests) /\ sub \in BOOLEAN
  BY PendingTail DEF TypeOK
<1>4. d \in {"noscratch", "nocontext", "opened"}
  BY DEF DownlinkStarts
<1>5. /\ link # "up" => d = "noscratch"
      /\ link = "up" /\ "malloc" \notin env => d = "opened"
  BY DEF DownlinkStarts
<1>6. pack' = IF d = "noscratch" THEN pack ELSE pack \union {sync}
  BY <1>1
<1>7. /\ node'.uplink = IF opened THEN sync ELSE 0
      /\ node'.ctx = IF d = "opened" THEN sync ELSE 0
      /\ d = "opened" => node'.scratch = sync /\ node'.pack = sync
      /\ opened => node'.params = source
  BY <1>1, <1>3 DEF NodeType
<1>8. \/ /\ opened /\ link = "up" /\ UNCHANGED appVars
         /\ reqs' = Append(Tail(reqs), source)
         /\ sub' = (sub \/ source = "subscribe")
      \/ /\ ~opened \/ link # "up" \/ "gatt" \in env
         /\ Finished(link, work)
         /\ reqs' = Tail(reqs) /\ sub' = sub
  <2>1. CASE ~opened
    BY <1>1, <2>1
  <2>2. CASE opened /\ link = "up" /\ reqs' = Append(Tail(reqs), source) /\ Unfinished(link, work)
    <3>1. reqs' = Append(Tail(reqs), "subscribe") <=> source = "subscribe"
      BY <1>2, <1>3, <2>2, AppendApart
    <3>2. sub' = (sub \/ source = "subscribe")
      BY <1>1, <2>2, <3>1
    <3>3. QED
      BY <2>2, <3>2 DEF Unfinished, appVars
  <2>3. CASE opened /\ (link # "up" \/ "gatt" \in env) /\ reqs' = Tail(reqs) /\ Finished(link, work)
    <3>1. reqs' # Append(Tail(reqs), "subscribe")
      BY <1>2, <1>3, <2>3, AppendApart
    <3>2. sub' = sub
      BY <1>1, <1>3, <2>3, <3>1
    <3>3. QED
      BY <2>3, <3>2
  <2>4. QED
    BY <1>1, <2>1, <2>2, <2>3 DEF Request
<1>9. /\ UNCHANGED <<app, env, scan, begun, sync, resp, fault>>
      /\ opened \/ "malloc" \in env
      /\ down' = [down EXCEPT ![sync] = IF d = "opened" THEN "waiting" ELSE "null"]
      /\ up' = IF opened THEN [up EXCEPT ![sync] = "open"] ELSE up
  BY <1>1
<1>10. Start(d, opened, source)
  BY <1>5, <1>6, <1>7, <1>8, <1>9 DEF Start
<1>11. QED
  BY <1>2, <1>4, <1>10 DEF Starts

LEMMA DiscoverySplit ==
  ASSUME Inv, DiscoveryStep, ~ExchangeWithoutContext
  PROVE  EarlyStep \/ Starts
<1>1. /\ TypeOK /\ node \in NodeType
      /\ node.attrs \subseteq {"uplink", "downlink", "certs", "ccc"}
  BY DEF Inv, TypeOK, NodeType
<1>2. /\ {"service16", "service128", "characteristics", "descriptors", "cert"} \subseteq Early
      /\ {"service16", "service128", "characteristics", "descriptors"} \subseteq Discovery
  BY DEF Early, Discovery
<1>3. ASSUME NEW op, Request(link, work, Tail(reqs), op)
      PROVE  \/ link = "up" /\ UNCHANGED appVars /\ reqs' = Append(Tail(reqs), op)
             \/ reqs' = Tail(reqs) /\ Finished(link, work)
  BY <1>3 DEF Request, Unfinished, appVars
<1>4. ASSUME NEW found \in BOOLEAN, Service(found)
      PROVE  EarlyStep
  <2>1. /\ reqs # <<>> /\ Head(reqs) \in {"service16", "service128"}
        /\ UNCHANGED <<app, env, scan, begun, sync, node, sub, up, down, resp, scratch, pack, fault>>
    BY <1>4 DEF Service, Answered, fixed, syncVars, heapVars
  <2>2. \/ Request(link, work, Tail(reqs), "characteristics")
        \/ Request(link, work, Tail(reqs), "service128")
        \/ reqs' = Tail(reqs) /\ Finished(link, work)
    BY <1>4 DEF Service
  <2>3. \/ reqs' = Tail(reqs) /\ Finished(link, work)
        \/ \E op \in {"characteristics", "service128"} :
             link = "up" /\ UNCHANGED appVars /\ reqs' = Append(Tail(reqs), op)
    BY <1>3, <2>2
  <2>4. node.params = ParamsOf(Head(reqs)) =>
          \A op \in {"characteristics", "service128"} : node'.params = ParamsOf(op)
    BY <1>2, <2>1 DEF ParamsOf
  <2>5. QED
    BY <1>2, <2>1, <2>3, <2>4 DEF EarlyStep
<1>5. ASSUME NEW found \in SUBSET {"uplink", "downlink", "certs"}, Characteristics(found)
      PROVE  EarlyStep
  <2>1. /\ reqs # <<>> /\ Head(reqs) = "characteristics"
        /\ UNCHANGED <<app, env, scan, begun, sync, sub, up, down, resp, scratch, pack, fault>>
        /\ node' = [node EXCEPT !.attrs = found]
    BY <1>5 DEF Characteristics, Answered, fixed, syncVars, heapVars
  <2>2. \/ Request(link, work, Tail(reqs), "descriptors")
        \/ reqs' = Tail(reqs) /\ Finished(link, work)
    BY <1>5 DEF Characteristics
  <2>3. \/ reqs' = Tail(reqs) /\ Finished(link, work)
        \/ link = "up" /\ UNCHANGED appVars /\ reqs' = Append(Tail(reqs), "descriptors")
    BY <1>3, <2>2
  <2>4. /\ node'.uplink = node.uplink /\ node'.ctx = node.ctx
        /\ node'.scratch = node.scratch /\ node'.pack = node.pack
        /\ node.params = ParamsOf(Head(reqs)) => node'.params = ParamsOf("descriptors")
    BY <1>1, <1>2, <2>1 DEF NodeType, ParamsOf
  <2>5. QED
    BY <1>2, <2>1, <2>3, <2>4 DEF EarlyStep
<1>6. ASSUME NEW ccc \in BOOLEAN, Descriptors(ccc)
      PROVE  EarlyStep \/ Starts
  <2> DEFINE attrs == node.attrs \union (IF ccc THEN {"ccc"} ELSE {})
  <2>1. /\ reqs # <<>> /\ Head(reqs) = "descriptors"
        /\ UNCHANGED <<app, env, scan, begun, sync, fault>>
    BY <1>6 DEF Descriptors, Answered, fixed, syncVars
  <2>2. attrs \in SUBSET {"uplink", "downlink", "certs", "ccc"}
    BY <1>1
  <2>3. \/ UplinkStart(attrs, Tail(reqs))
        \/ /\ node' = [node EXCEPT !.attrs = attrs, !.params = "cert"]
           /\ Request(link, work, Tail(reqs), "cert")
           /\ UNCHANGED <<sub, heapVars>>
    BY <1>6 DEF Descriptors
  <2> HIDE DEF attrs
  <2>4. CASE UplinkStart(attrs, Tail(reqs))
    <3>1. sync # 0
      BY <2>1 DEF Inv, Started
    <3>2. QED
      BY <1>1, <1>2, <2>1, <2>2, <2>4, <3>1, UplinkStarts
  <2>5. CASE /\ node' = [node EXCEPT !.attrs = attrs, !.params = "cert"]
             /\ Request(link, work, Tail(reqs), "cert")
             /\ UNCHANGED <<sub, heapVars>>
    <3>1. \/ reqs' = Tail(reqs) /\ Finished(link, work)
          \/ link = "up" /\ UNCHANGED appVars /\ reqs' = Append(Tail(reqs), "cert")
      BY <1>3, <2>5
    <3>2. /\ node'.uplink = node.uplink /\ node'.ctx = node.ctx
          /\ node'.scratch = node.scratch /\ node'.pack = node.pack
          /\ node'.params = ParamsOf("cert")
      BY <1>1, <2>5 DEF NodeType, ParamsOf, Discovery
    <3>3. UNCHANGED <<sub, up, down, resp, scratch, pack>>
      BY <2>5 DEF heapVars
    <3>4. QED
      BY <1>2, <2>1, <3>1, <3>2, <3>3 DEF EarlyStep
  <2>6. QED
    BY <2>3, <2>4, <2>5
<1>7. ASSUME Exchange
      PROVE  EarlyStep \/ Starts
  <2>1. /\ reqs # <<>> /\ Head(reqs) = "cert"
        /\ UNCHANGED <<app, env, scan, begun, sync, fault>>
    BY <1>7 DEF Exchange, Answered, fixed, syncVars
  <2>2. CASE UplinkStart(node.attrs, Tail(reqs))
    <3>1. sync # 0
      BY <2>1 DEF Inv, Started
    <3>2. QED
      BY <1>1, <1>2, <2>1, <2>2, <3>1, UplinkStarts
  <2>3. CASE /\ reqs' = Tail(reqs)
             /\ \/ Finished(link, work)
                \/ (Error \/ "cloud" \in env) /\ UNCHANGED appVars
             /\ UNCHANGED <<node, sub, heapVars>>
    <3>1. UNCHANGED <<node, sub, up, down, resp, scratch, pack>>
      BY <2>3 DEF heapVars
    <3>2. QED
      BY <1>2, <2>1, <2>3, <3>1 DEF EarlyStep
  <2>4. QED
    BY <1>7, <2>2, <2>3 DEF Exchange
<1>8. QED
  BY <1>4, <1>5, <1>6, <1>7 DEF DiscoveryStep

\* bt_finished, called with the connection that there is
LEMMA FinishedLink ==
  ASSUME Finished(link, work), work \in {"idle", "now", "later"}
  PROVE  link' = link \/ (link = "up" /\ link' = "closing")
BY DEF Finished

LEMMA EarlyOwn ==
  ASSUME OwnInv, EarlyStep, Inv'
  PROVE  OwnInv'
<1>1. /\ reqs # <<>>
      /\ UNCHANGED <<app, env, scan, begun, sync, sub, up, down, resp, scratch, pack, fault>>
      /\ node'.uplink = node.uplink /\ node'.ctx = node.ctx
      /\ UNCHANGED appVars \/ Finished(link, work)
      /\ OfLatest /\ Awaited /\ work \in {"idle", "now", "later"}
  BY DEF EarlyStep, OwnInv, Inv, TypeOK
<1>2. /\ link' = link \/ (link = "up" /\ link' = "closing")
      /\ work' = "now" => work = "now"
  BY <1>1, FinishedLink, FinishedLater DEF appVars
<1>3. link' \notin {"none", "creating"}
  BY <1>1, <1>2 DEF OfLatest, Resting
<1>4. OfLatest'
  BY <1>1, <1>3 DEF OfLatest, Fresh
<1>5. Awaited'
  <2>1. "slow" \notin env => work' # "now"
    BY <1>1, <1>2 DEF Awaited, Resting
  <2>2. \A k \in Syncs : Owed(k)' => Owed(k)
    BY <1>1 DEF Owed
  <2>3. QED
    BY <1>1, <1>3, <2>1, <2>2 DEF Awaited
<1>6. QED
  BY <1>4, <1>5 DEF OwnInv

LEMMA StartsOwn ==
  ASSUME OwnInv, Starts, Inv'
  PROVE  OwnInv'
<1>1. PICK d \in {"noscratch", "nocontext", "opened"}, opened \in BOOLEAN,
           source \in {"read", "subscribe"} : Start(d, opened, source)
  BY DEF Starts
<1>2. /\ reqs # <<>> /\ Head(reqs) \in Early
      /\ OfLatest /\ Awaited /\ Inv
      /\ work \in {"idle", "now", "later"}
      /\ up \in [Syncs -> {"none", "open", "fed", "closed", "stuck", "gone"}]
      /\ down \in [Syncs -> {"none", "null", "waiting", "writing", "aborted", "gone"}]
  BY DEF Starts, OwnInv, Inv, TypeOK
<1>3. sync \in Syncs
  BY <1>2, EarlyAlone
<1>4. /\ UNCHANGED <<env, sync, resp>>
      /\ UNCHANGED appVars \/ Finished(link, work)
      /\ node'.uplink = IF opened THEN sync ELSE 0
      /\ node'.ctx \in {0, sync}
      /\ up' = IF opened THEN [up EXCEPT ![sync] = "open"] ELSE up
      /\ \E s : down' = [down EXCEPT ![sync] = s]
      /\ pack' \subseteq pack \union {sync}
  BY <1>1 DEF Start
<1>5. /\ link' = link \/ (link = "up" /\ link' = "closing")
      /\ work' = "now" => work = "now"
  BY <1>2, <1>4, FinishedLink, FinishedLater DEF appVars
<1>6. link' \notin {"none", "creating"}
  BY <1>2, <1>5 DEF OfLatest, Resting
<1>7. \A k \in Syncs : k > sync => Fresh(k)'
  <2>1. sync \in Int
    BY <1>3 DEF Syncs
  <2>2. QED
    BY <1>2, <1>4, <2>1 DEF OfLatest, Fresh
<1>8. OfLatest'
  <2>1. node'.uplink # 0 => up'[node'.uplink] \in {"open", "fed"}
    BY <1>2, <1>3, <1>4
  <2>2. QED
    BY <1>4, <1>6, <1>7, <2>1 DEF OfLatest
<1>9. Awaited'
  <2>1. "slow" \notin env => work' # "now"
    BY <1>2, <1>5 DEF Awaited, Resting
  <2>2. \A k \in Syncs : Owed(k)' => Owed(k)
    BY <1>2, <1>3, <1>4 DEF Owed
  <2>3. QED
    BY <1>2, <1>4, <1>6, <2>1, <2>2 DEF Awaited
<1>10. QED
  BY <1>8, <1>9 DEF OwnInv

LEMMA ScanOwn ==
  ASSUME OwnInv, DeviceFound \/ ConnectFails, Inv'
  PROVE  OwnInv'
<1>1. /\ UNCHANGED <<app, env, work, counter, begun, sync, node, reqs, sub, up, down, resp,
                     scratch, pack, fault>>
      /\ link \in {"none", "creating"} /\ link' \in {"none", "creating"}
      /\ link' = "creating" => CloudKeepsUp
      /\ OfLatest /\ Awaited
  BY DEF OwnInv, Inv, ScanOrConnection, DeviceFound, ConnectFails, fixed, syncVars,
     hostVars, heapVars
<1>2. OfLatest'
  BY <1>1 DEF OfLatest, Fresh, Resting
<1>3. \A k \in Syncs : Owed(k)' <=> Owed(k)
  BY <1>1 DEF Owed
<1>4. Awaited'
  BY <1>1, <1>3 DEF Awaited, Resting, NoneOwed, CloudKeepsUp
<1>5. QED
  BY <1>2, <1>4 DEF OwnInv

\* A sync begins with nothing of the last one in the node, and nothing owed.
LEMMA BeginOwn ==
  ASSUME OwnInv, sync < MaxSyncs, sync' = sync + 1, node' = ClearedNode,
         UNCHANGED <<env, sub, up, down, resp, pack>>,
         work' # "now", "slow" \notin env => NoneOwed,
         link' \in {"none", "creating"} => link \in {"none", "creating"} /\ reqs' = reqs,
         Inv'
  PROVE  OwnInv'
<1>1. OfLatest /\ sync \in 0 .. MaxSyncs /\ MaxSyncs \in Nat
  BY BoundAssumption DEF OwnInv, Inv, TypeOK
<1>2. node'.uplink = 0 /\ node'.ctx = 0
  BY DEF ClearedNode
<1>3. \A k \in Syncs : k > sync' => Fresh(k)'
  <2>1. \A k \in Syncs : k > sync' => k > sync
    BY <1>1 DEF Syncs
  <2>2. QED
    BY <1>1, <2>1 DEF OfLatest, Fresh
<1>4. link' \in {"none", "creating"} => Resting'
  BY <1>1 DEF OfLatest, Resting
<1>5. OfLatest'
  BY <1>2, <1>3, <1>4 DEF OfLatest
<1>6. \A k \in Syncs : Owed(k)' <=> Owed(k)
  BY DEF Owed
<1>7. Awaited'
  BY <1>6 DEF Awaited, NoneOwed
<1>8. QED
  BY <1>5, <1>7 DEF OwnInv

LEMMA ConnectedOwn ==
  ASSUME OwnInv, Connected, Inv'
  PROVE  OwnInv'
<1>1. /\ UNCHANGED <<app, env, sub, up, down, resp, pack>>
      /\ link = "creating" /\ Inv /\ OfLatest /\ Awaited
      /\ work \in {"idle", "now", "later"}
  BY DEF OwnInv, Inv, TypeOK, Connected, fixed, heapVars
<1>2. CASE app = "gateway"
  <2>1. BtStart("up", work) /\ work = "idle" /\ sync < MaxSyncs
    BY <1>1, <1>2 DEF Connected, Inv, OneSync
  <2>2. sync' = sync + 1 /\ node' = ClearedNode /\ Request("up", work, reqs, "service16")
    BY <2>1 DEF BtStart
  <2>3. link' \in {"up", "closing"} /\ work' = "idle"
    BY <1>2, <2>1, <2>2 DEF Request, Finished, Unfinished
  <2>4. "slow" \notin env => NoneOwed
    BY <1>1 DEF Awaited
  <2>5. QED
    BY <1>1, <2>1, <2>2, <2>3, <2>4, BeginOwn
<1>3. CASE app # "gateway"
  <2>1. UNCHANGED <<sync, node, reqs>> /\ link' = "up"
    BY <1>1, <1>3 DEF Connected
  <2>2. OfLatest'
    BY <1>1, <2>1 DEF OfLatest, Fresh
  <2>3. \A k \in Syncs : Owed(k)' <=> Owed(k)
    BY <1>1 DEF Owed
  <2>4. Awaited'
    BY <1>1, <2>1, <2>3 DEF OfLatest, Awaited, Resting, NoneOwed
  <2>5. QED
    BY <2>2, <2>4 DEF OwnInv
<1>4. QED
  BY <1>2, <1>3

LEMMA SyncStartOwn ==
  ASSUME OwnInv, SyncStart, Inv'
  PROVE  OwnInv'
<1>1. /\ UNCHANGED <<app, env, sub, up, down, resp, pack>>
      /\ sync < MaxSyncs /\ work # "idle" /\ BtStart(link, "idle")
      /\ work = "later" => CloudKeepsUp
      /\ Awaited /\ work \in {"idle", "now", "later"}
  BY DEF OwnInv, Inv, TypeOK, SyncStart, fixed, heapVars
<1>2. sync' = sync + 1 /\ node' = ClearedNode /\ Request(link, "idle", reqs, "service16")
  BY <1>1 DEF BtStart
<1>3. /\ link' = link \/ (link = "up" /\ link' = "closing")
      /\ work' # "now"
      /\ link # "up" => reqs' = reqs
  BY <1>2 DEF Request, Finished, Unfinished
<1>4. "slow" \notin env => NoneOwed
  BY <1>1 DEF Awaited, CloudKeepsUp, NoneOwed
<1>5. QED
  BY <1>1, <1>2, <1>3, <1>4, BeginOwn

LEMMA DisconnectedOwn ==
  ASSUME OwnInv, Disconnected, Inv'
  PROVE  OwnInv'
<1>1. /\ UNCHANGED <<env, work, sync, reqs, sub, down, resp, pack>>
      /\ reqs = <<>> /\ ~sub /\ link' = "none"
      /\ node' = [node EXCEPT !.uplink = 0, !.scratch = 0]
      /\ up' = Closed(node.uplink) /\ OfLatest /\ Awaited
      /\ node \in NodeType
      /\ up \in [Syncs -> {"none", "open", "fed", "closed", "stuck", "gone"}]
  BY DEF OwnInv, Inv, TypeOK, Disconnected, fixed, syncVars, hostVars
<1>2. \A k \in Syncs : /\ up'[k] = "closed" => up[k] = "closed" \/ k = node.uplink
                       /\ up'[k] = "gone" => up[k] = "gone"
                       /\ up[k] = "none" => up'[k] = "none"
  BY <1>1 DEF Closed
<1>3. node'.uplink = 0 /\ node'.ctx = node.ctx
  BY <1>1 DEF NodeType
<1>4. \A k \in Syncs : k > sync => Fresh(k)'
  BY <1>1, <1>2 DEF OfLatest, Fresh
<1>5. OfLatest'
  BY <1>1, <1>3, <1>4 DEF OfLatest, Resting
<1>6. \A k \in Syncs : Owed(k)' => Owed(k) \/ k = node.uplink
  BY <1>1, <1>2 DEF Owed
<1>7. Awaited'
  <2>1. \A k \in Syncs : k = node.uplink => sync = k
    BY <1>1, BoundAssumption DEF OfLatest, Syncs
  <2>2. node.uplink = 0 => \A k \in Syncs : k # node.uplink
    BY BoundAssumption DEF Syncs
  <2>3. QED
    BY <1>1, <1>3, <1>6, <2>1, <2>2 DEF Awaited, Resting, NoneOwed
<1>8. QED
  BY <1>5, <1>7 DEF OwnInv

-----------------------------------------------------------------------------
(* The invariant of every environment                                      *)

LEMMA InitOwn ==
  ASSUME Init
  PROVE  OwnInv
<1>1. Inv
  BY InitInv
<1>2. /\ node.uplink = 0 /\ node.ctx = 0
      /\ \A k \in Syncs : Fresh(k) /\ ~Owed(k)
      /\ Resting /\ work = "idle" /\ sync = 0
  BY DEF Init, ClearedNode, Fresh, Owed, Resting
<1>3. OfLatest /\ Awaited
  BY <1>2 DEF OfLatest, Awaited, NoneOwed
<1>4. QED
  BY <1>1, <1>3 DEF OwnInv

\* What the actions after the discovery have in common
LEMMA LateSplit ==
  ASSUME OwnInv, Next
  PROVE  \/ LateStep /\ RestType' /\ LateMore
         \/ EarlyStep \/ Starts
         \/ DeviceFound \/ ConnectFails \/ Connected \/ SyncStart \/ Disconnected
<1>1. TypeOK /\ Inv
  BY DEF OwnInv, Inv
<1>2. CASE ConnectionStep
  <2>1. FALSE \in BOOLEAN
    OBVIOUS
  <2>2. CASE LinkLost
    BY <1>1, <2>1, <2>2, QuietLate, UplinkAnswersMore
  <2>3. QED
    BY <1>2, <2>2 DEF ConnectionStep
<1>3. CASE DiscoveryStep
  <2>1. FALSE \in BOOLEAN
    OBVIOUS
  <2>2. CASE ExchangeWithoutContext
    BY <1>1, <2>1, <2>2, QuietLate, UplinkAnswersMore
  <2>3. QED
    BY <1>1, <1>3, <2>2, DiscoverySplit
<1>4. CASE DeviceStep
  BY <1>1, <1>4, IndicatedLate, ReadBackLate, DeviceMore DEF DeviceStep
<1>5. CASE ReadError \/ PayloadTooLate \/ Astray \/ SubscriptionEnds
  <2>1. FALSE \in BOOLEAN
    OBVIOUS
  <2>2. LateMore
    BY <1>5, <2>1, UplinkAnswersMore
  <2>3. QED
    BY <1>1, <1>5, <2>2, QuietLate, EndedLate
<1>6. CASE \E err \in BOOLEAN : Subscribed(err)
  BY <1>1, <1>6, SubscribedLate, UplinkAnswersMore
<1>7. CASE Written
  BY <1>1, <1>7, WrittenLate, WrittenMore
<1>8. CASE CloudStep
  <2>1. PICK k \in Syncs :
          \/ \E ok \in BOOLEAN : UplinkEnds(k, ok)
          \/ EndCb(k) \/ \E last \in BOOLEAN : BlockCb(k, last)
    BY <1>8 DEF CloudStep
  <2>2. CASE \E ok \in BOOLEAN : UplinkEnds(k, ok)
    BY <1>1, <2>2, UplinkEndsLate, UplinkEndsMore
  <2>3. CASE EndCb(k) \/ \E last \in BOOLEAN : BlockCb(k, last)
    BY <1>1, <2>3, ResponseLate, ResponseMore
  <2>4. QED
    BY <2>1, <2>2, <2>3
<1>9. QED
  BY <1>2, <1>3, <1>4, <1>5, <1>6, <1>7, <1>8 DEF Next, AnswerStep

LEMMA NextOwn ==
  ASSUME OwnInv, [Next]_vars
  PROVE  OwnInv'
<1>1. Inv'
  BY NextInv DEF OwnInv
<1>2. CASE Next
  BY <1>1, <1>2, LateSplit, LateOwn, EarlyOwn, StartsOwn, ScanOwn, ConnectedOwn,
     SyncStartOwn,
     DisconnectedOwn
<1>3. CASE UNCHANGED vars
  <2>1. \A k \in Syncs : (Fresh(k)' <=> Fresh(k)) /\ (Owed(k)' <=> Owed(k))
    BY <1>3 DEF Fresh, Owed, vars, heapVars
  <2>2. UNCHANGED <<env, node, sync, up, link, reqs, sub, work>>
    BY <1>3 DEF vars, fixed, appVars, syncVars, hostVars, heapVars
  <2>3. OfLatest'
    BY <2>1, <2>2 DEF OwnInv, OfLatest, Resting
  <2>4. Awaited'
    BY <2>1, <2>2 DEF OwnInv, Awaited, Resting, NoneOwed
  <2>5. QED
    BY <1>1, <2>3, <2>4 DEF OwnInv
<1>4. QED
  BY <1>2, <1>3

\* The program and what may go wrong in it stay what they are.
LEMMA EnvStays ==
  ASSUME OwnInv, [Next]_vars
  PROVE  app' = app /\ env' = env
<1>1. CASE UNCHANGED vars
  BY <1>1 DEF vars, fixed
<1>2. CASE Next
  <2>1. \/ LateStep \/ EarlyStep \/ Starts
        \/ DeviceFound \/ ConnectFails \/ Connected \/ SyncStart \/ Disconnected
    BY <1>2, LateSplit
  <2>2. Starts => app' = app /\ env' = env
    BY DEF Starts, Start
  <2>3. QED
    BY <2>1, <2>2 DEF LateStep, EarlyStep, DeviceFound, ConnectFails, Connected, SyncStart,
       Disconnected, fixed
<1>3. QED
  BY <1>1, <1>2

LEMMA OwnAlways == Spec => []OwnInv
<1>1. Init => OwnInv
  BY InitOwn
<1>2. OwnInv /\ [Next]_vars => OwnInv'
  BY NextOwn
<1>3. QED
  BY <1>1, <1>2, PTL DEF Spec

-----------------------------------------------------------------------------
(* Where the link holds, a sync finishes once                              *)

Asked(op, s) == \E i \in 1 .. Len(s) : s[i] = op

\* The requests whose answer may finish the sync, or start its uplink
Final == Early \union {"write"}
FinalLast(s) == \A i \in 1 .. Len(s) : s[i] \in Final => i = Len(s)

\* A second write may be behind the first.
WritesLast(s) ==
  \A i \in 1 .. Len(s) :
    s[i] \in Final => i = Len(s) \/ (s[i] = "write" /\ s[i + 1] = "write")

\* The uplink of a sync that was given an answer
Ends == IF "fast" \in env THEN {"closed", "gone"} ELSE {"gone"}

\* Nothing is left that could finish a sync.
Spent ==
  /\ NoneDue /\ node.uplink = 0 /\ ~sub
  /\ ~Asked("write", reqs) /\ ~Pending(reqs)

\* How often custom_connect has counted, by what it does
Counted ==
  app = "custom" =>
    /\ link = "up" =>
         \/ work = "now" /\ begun = 0 /\ counter = 0
         \/ work = "idle" /\ begun = 1 /\ counter = 0
         \/ work = "later" /\ begun = 1 /\ counter = 1
         \/ work = "idle" /\ begun = 2 /\ counter = 1
    /\ link # "up" => work = "idle"
    /\ link = "closing" => begun = 2

\* What becomes of the uplink, by what is queued
QueueOnce ==
  /\ WritesLast(reqs)
  /\ "cloud" \notin env \/ resp[sync] = "open" => FinalLast(reqs)
  /\ Pending(reqs) => node.uplink = 0 /\ ~sub /\ Fresh(sync)
  /\ Asked("unsubscribe", reqs) => node.uplink = 0 /\ ~sub
  /\ Asked("read", reqs) => ~sub
  /\ Asked("write", reqs) => node.ctx = sync /\ down[sync] = "writing" /\ up[sync] \in Ends
  /\ sub => up[sync] \in {"open", "fed"}

\* What of each sync the cloud has answered, and which it still has to
AnswersOnce ==
  /\ \A k \in Syncs : resp[k] # "open" => up[k] \in Ends
  /\ \A k \in Syncs : Due(k) => k = sync

\* The end of the response comes when a write is in flight, and the first of two
\* writes ends the sync: the second one finds nothing any more, whatever its sync
\* is by then, and the program is over.
Doomed ==
  /\ "cloud" \in env /\ reqs # <<>> /\ Head(reqs) = "write"
  /\ node.params # "write" \/ ~Live(node.ctx)
  /\ NoneDue /\ ~sub /\ node.uplink = 0

Once ==
  CountedOnce =>
    /\ AnswersOnce /\ Counted
    /\ ~Doomed => QueueOnce /\ (work # "idle" \/ link # "up" => Spent)

OnceInv == OwnInv /\ Once

\* One more request
LEMMA AskedAppend ==
  ASSUME NEW s \in Seq(Requests), NEW op \in Requests
  PROVE  /\ \A x : Asked(x, Append(s, op)) <=> Asked(x, s) \/ x = op
         /\ Pending(Append(s, op)) => Pending(s) \/ op \in Early
         /\ op \in Early => Pending(Append(s, op))
         /\ ~Pending(s) /\ ~Asked("write", s) => FinalLast(Append(s, op))
         /\ ~Pending(s) /\ WritesLast(s) /\ op = "write" => WritesLast(Append(s, op))
<1>1. /\ Append(s, op) \in Seq(Requests)
      /\ Len(s) \in Nat
      /\ Len(Append(s, op)) = Len(s) + 1
      /\ \A i \in 1 .. Len(s) : Append(s, op)[i] = s[i]
      /\ Append(s, op)[Len(s) + 1] = op
  OBVIOUS
<1> DEFINE r == Append(s, op)
<1> HIDE DEF r
<1>2. /\ Len(s) \in Nat /\ Len(r) = Len(s) + 1
      /\ \A i \in 1 .. Len(s) : r[i] = s[i]
      /\ r[Len(s) + 1] = op
  BY <1>1 DEF r
<1>3. /\ \A i \in 1 .. Len(r) : i \in 1 .. Len(s) \/ i = Len(s) + 1
      /\ \A i \in 1 .. Len(s) : i \in 1 .. Len(r)
      /\ Len(s) + 1 \in 1 .. Len(r)
  BY <1>2
<1>4. \A x : Asked(x, r) <=> Asked(x, s) \/ x = op
  BY <1>2, <1>3 DEF Asked
<1>5. Pending(r) => Pending(s) \/ op \in Early
  BY <1>2, <1>3 DEF Pending
<1>6. op \in Early => Pending(r)
  BY <1>2, <1>3 DEF Pending
<1>7. ~Pending(s) /\ ~Asked("write", s) => FinalLast(r)
  BY <1>2, <1>3 DEF Pending, Asked, FinalLast, Final
<1>8. ASSUME ~Pending(s), WritesLast(s), op = "write"
      PROVE  WritesLast(r)
  <2>1. SUFFICES ASSUME NEW i \in 1 .. Len(s), s[i] \in Final
                 PROVE  r[i] = "write" /\ r[i + 1] = "write"
    BY <1>2, <1>3 DEF WritesLast
  <2>2. s[i] = "write"
    BY <1>8, <2>1 DEF Pending, Final
  <2>3. CASE i = Len(s)
    BY <1>2, <1>8, <2>2, <2>3
  <2>4. CASE i # Len(s)
    <3>1. s[i + 1] = "write"
      BY <1>8, <2>1, <2>4 DEF WritesLast
    <3>2. i + 1 \in 1 .. Len(s)
      BY <1>2, <2>4
    <3>3. QED
      BY <1>2, <2>2, <3>1, <3>2
  <2>5. QED
    BY <2>3, <2>4
<1>9. QED
  BY <1>4, <1>5, <1>6, <1>7, <1>8 DEF r

\* The oldest request is dropped.
LEMMA AskedTail ==
  ASSUME NEW s \in Seq(Requests), s # <<>>
  PROVE  /\ \A x : Asked(x, Tail(s)) => Asked(x, s)
         /\ Pending(Tail(s)) => Pending(s)
         /\ FinalLast(s) => FinalLast(Tail(s))
         /\ FinalLast(s) /\ Head(s) \in Final => Tail(s) = <<>>
         /\ WritesLast(s) => WritesLast(Tail(s))
         /\ WritesLast(s) /\ Head(s) \in Early => Tail(s) = <<>>
         /\ WritesLast(s) /\ Head(s) = "write" => Tail(s) = <<>> \/ Head(Tail(s)) = "write"
         /\ Asked(Head(s), s)
         /\ Head(s) \in Early => Pending(s)
<1>1. /\ Tail(s) \in Seq(Requests)
      /\ Len(s) \in Nat \ {0}
      /\ Len(Tail(s)) = Len(s) - 1
      /\ Head(s) = s[1]
      /\ \A i \in 1 .. Len(s) - 1 : Tail(s)[i] = s[i + 1]
  OBVIOUS
<1> DEFINE r == Tail(s)
<1>2. /\ r \in Seq(Requests) /\ Len(r) = Len(s) - 1
      /\ \A i \in 1 .. Len(r) : r[i] = s[i + 1]
  BY <1>1
<1> HIDE DEF r
<1>3. \A i \in 1 .. Len(r) : i + 1 \in 1 .. Len(s)
  BY <1>1, <1>2
<1>4. \A x : Asked(x, r) => Asked(x, s)
  BY <1>2, <1>3 DEF Asked
<1>5. Pending(r) => Pending(s)
  BY <1>2, <1>3 DEF Pending
<1>6. FinalLast(s) => FinalLast(r)
  <2>1. \A i \in 1 .. Len(r) : i + 1 = Len(s) => i = Len(r)
    <3>1. Len(s) \in Int /\ Len(r) \in Int /\ Len(r) + 1 = Len(s)
      BY <1>1, <1>2
    <3>2. QED
      BY <3>1
  <2>2. QED
    BY <1>2, <1>3, <2>1 DEF FinalLast
<1>7. FinalLast(s) /\ Head(s) \in Final => Tail(s) = <<>>
  <2>1. 1 \in 1 .. Len(s)
    BY <1>1
  <2>2. FinalLast(s) /\ Head(s) \in Final => Len(s) = 1
    BY <1>1, <2>1 DEF FinalLast
  <2>3. Len(s) = 1 => Tail(s) = <<>>
    BY LastRequest, Zenon
  <2>4. QED
    BY <2>2, <2>3, Zenon
<1>8. Asked(Head(s), s) /\ (Head(s) \in Early => Pending(s))
  <2>1. 1 \in 1 .. Len(s) /\ s[1] = Head(s)
    BY <1>1
  <2>2. QED
    BY <2>1 DEF Asked, Pending
<1>9. WritesLast(s) => WritesLast(r)
  <2>1. \A i \in 1 .. Len(r) : i + 1 = Len(s) \/ (r[i + 1] = s[i + 2] /\ s[i + 2] = s[(i + 1) + 1])
    <3>1. SUFFICES ASSUME NEW i \in 1 .. Len(r), i + 1 # Len(s)
                   PROVE  r[i + 1] = s[i + 2] /\ s[i + 2] = s[(i + 1) + 1]
      OBVIOUS
    <3>2. i + 1 \in 1 .. Len(r) /\ (i + 1) + 1 = i + 2
      <4>1. PICK m \in Int, n \in Int :
              m = Len(r) /\ n = Len(s) /\ m = n - 1 /\ i \in Int /\ 1 <= i /\ i <= m
        <5>1. Len(r) \in Int /\ Len(s) \in Int /\ Len(r) = Len(s) - 1
          BY <1>1, <1>2
        <5>2. i \in Int /\ 1 <= i /\ i <= Len(r)
          BY <3>1, <5>1
        <5>3. QED
          BY <5>1, <5>2
      <4>2. i + 1 # n
        BY <3>1, <4>1
      <4>3. i + 1 \in 1 .. m
        BY <4>1, <4>2
      <4>4. QED
        BY <4>1, <4>3
    <3>3. r[i + 1] = s[(i + 1) + 1]
      BY <1>2, <3>2
    <3>4. QED
      BY <3>2, <3>3
  <2>2. \A i \in 1 .. Len(r) : i + 1 = Len(s) => i = Len(r)
    <3>1. Len(s) \in Int /\ Len(r) \in Int /\ Len(r) + 1 = Len(s)
      BY <1>1, <1>2
    <3>2. QED
      BY <3>1
  <2>3. SUFFICES ASSUME WritesLast(s), NEW i \in 1 .. Len(r), r[i] \in Final, i # Len(r)
                 PROVE  r[i] = "write" /\ r[i + 1] = "write"
    BY DEF WritesLast
  <2>4. i + 1 # Len(s) /\ i + 1 \in 1 .. Len(s) /\ s[i + 1] \in Final
    BY <1>2, <1>3, <2>2, <2>3
  <2>5. s[i + 1] = "write" /\ s[(i + 1) + 1] = "write"
    BY <2>3, <2>4 DEF WritesLast
  <2>6. QED
    BY <1>2, <2>1, <2>4, <2>5
<1>10. ASSUME WritesLast(s)
       PROVE  /\ Head(s) \in Early => Tail(s) = <<>>
              /\ Head(s) = "write" => Tail(s) = <<>> \/ Head(Tail(s)) = "write"
  <2>1. 1 \in 1 .. Len(s) /\ 1 + 1 = 2 /\ Head(s) = s[1]
    BY <1>1
  <2>2. Head(s) \in Final => Len(s) = 1 \/ (s[1] = "write" /\ s[2] = "write")
    BY <1>10, <2>1 DEF WritesLast
  <2>3. Len(s) = 1 => Tail(s) = <<>>
    BY LastRequest, Zenon
  <2>4. Len(s) # 1 => Head(r) = s[2]
    <3>1. Len(r) \in Nat \ {0} \/ Len(s) = 1
      BY <1>1, <1>2
    <3>2. Len(s) # 1 => 1 \in 1 .. Len(r)
      BY <3>1
    <3>3. Len(s) # 1 => r[1] = s[2]
      BY <1>2, <2>1, <3>2
    <3>4. Head(r) = r[1]
      BY <1>2
    <3>5. QED
      BY <3>3, <3>4
  <2>5. "write" \notin Early /\ "write" \in Final /\ Early \subseteq Final
    BY DEF Early, Final, Discovery
  <2>6. QED
    BY <2>1, <2>2, <2>3, <2>4, <2>5 DEF r
<1>11. QED
  BY <1>4, <1>5, <1>6, <1>7, <1>8, <1>9, <1>10 DEF r

\* An empty queue
LEMMA AskedNone ==
  /\ \A x : ~Asked(x, <<>>)
  /\ ~Pending(<<>>) /\ FinalLast(<<>>)
<1>1. \A i \in 1 .. Len(<<>>) : FALSE
  OBVIOUS
<1>2. QED
  BY <1>1 DEF Asked, Pending, FinalLast

LEMMA NothingFinal ==
  ASSUME NEW s, ~Pending(s), ~Asked("write", s)
  PROVE  FinalLast(s) /\ WritesLast(s)
BY DEF Pending, Asked, FinalLast, WritesLast, Final

LEMMA FinalWritesLast ==
  ASSUME NEW s, FinalLast(s)
  PROVE  WritesLast(s)
BY DEF FinalLast, WritesLast

\* What the environment rules out
LEMMA OnceEnv ==
  ASSUME CountedOnce
  PROVE  /\ "drops" \notin env /\ "gatt" \notin env /\ "malloc" \notin env
         /\ "cloud" \in env => Ends = {"gone"}
         /\ Ends \subseteq {"closed", "gone"} /\ "gone" \in Ends
         /\ Error => link = "closing"
         /\ env' = env => CountedOnce' /\ Ends' = Ends
<1>1. /\ "drops" \notin env /\ "gatt" \notin env /\ "malloc" \notin env
      /\ ~({"cloud", "fast"} \subseteq env)
  BY DEF CountedOnce, Without
<1>2. env' = env => CountedOnce'
  BY DEF CountedOnce, Without
<1>3. env' = env => Ends' = Ends
  BY DEF Ends
<1>4. QED
  BY <1>1, <1>2, <1>3 DEF Ends, Error

\* Whatever could finish the sync, it has not finished.
LEMMA Unspent ==
  ASSUME OnceInv, CountedOnce, ~Doomed, ~Spent
  PROVE  link = "up" /\ work = "idle"
BY DEF OnceInv, Once

\* A sync finishes.
LEMMA EndCounted ==
  ASSUME OnceInv, CountedOnce, ~Doomed, ~Spent, UNCHANGED <<app, env, begun>>,
  Finished(link, work)
  PROVE  Counted'
<1>1. link = "up" /\ work = "idle" /\ Counted
  BY Unspent DEF OnceInv, Once
<1>2. Counted'
  <2>1. SUFFICES ASSUME app = "custom" PROVE Counted'
    BY DEF Counted
  <2>2. \/ begun = 1 /\ counter = 0
        \/ begun = 2 /\ counter = 1
    BY <1>1, <2>1 DEF Counted
  <2>3. CASE begun = 1 /\ counter = 0
    <3>1. link' = "up" /\ counter' = 1 /\ work' = "later"
      BY <1>1, <2>1, <2>3 DEF Finished
    <3>2. QED
      BY <2>3, <3>1 DEF Counted
  <2>4. CASE begun = 2 /\ counter = 1
    <3>1. link' = "closing" /\ work' = "idle"
      BY <1>1, <2>1, <2>4 DEF Finished
    <3>2. QED
      BY <2>4, <3>1 DEF Counted
  <2>5. QED
    BY <2>2, <2>3, <2>4
<1>3. QED
  BY <1>2

LEMMA EndOnce ==
  ASSUME OnceInv, CountedOnce, ~Doomed, ~Spent, UNCHANGED <<app, env, begun>>,
  Finished(link, work),
         AnswersOnce', QueueOnce', Spent'
  PROVE  Once'
BY EndCounted DEF Once

\* A sync goes on, or is over already.
LEMMA GoOnce ==
  ASSUME OnceInv, CountedOnce, ~Doomed, UNCHANGED <<app, env, begun, link, work, counter>>,
         AnswersOnce', QueueOnce', Spent => Spent'
  PROVE  Once'
<1>1. Counted /\ (work # "idle" \/ link # "up" => Spent)
  BY DEF OnceInv, Once
<1>2. Counted'
  BY <1>1 DEF Counted
<1>3. QED
  BY <1>1, <1>2 DEF Once

\* The answers of the cloud, if it is not given any by the step
LEMMA AnswersKept ==
  ASSUME OnceInv, CountedOnce, UNCHANGED <<env, sync, resp>>,
         \A k \in Syncs : up[k] \in Ends => up'[k] \in Ends,
         \A k \in Syncs : Due(k)' => Due(k) \/ k = sync
  PROVE  AnswersOnce'
<1>1. AnswersOnce /\ Ends' = Ends
  BY OnceEnv DEF OnceInv, Once
<1>2. QED
  BY <1>1 DEF AnswersOnce

\* A step that leaves the queue, or drops its oldest request, and the rest
LEMMA QueueKept ==
  ASSUME OnceInv, CountedOnce, ~Doomed, UNCHANGED <<env, sync, sub>>,
         node'.uplink = node.uplink, node'.ctx = node.ctx,
         reqs' = reqs \/ (reqs # <<>> /\ reqs' = Tail(reqs)),
         resp[sync] # "open" => resp'[sync] # "open",
         Asked("write", reqs') => down'[sync] = down[sync],
         UNCHANGED up, Pending(reqs') => UNCHANGED <<down, pack>>
  PROVE  QueueOnce'
<1>1. QueueOnce /\ Ends' = Ends /\ reqs \in Seq(Requests)
  BY OnceEnv DEF OnceInv, Once, OwnInv, Inv, TypeOK
<1>2. /\ \A x : Asked(x, reqs') => Asked(x, reqs)
      /\ Pending(reqs') => Pending(reqs)
      /\ WritesLast(reqs')
      /\ "cloud" \notin env \/ resp[sync] = "open" => FinalLast(reqs')
  BY <1>1, AskedTail DEF QueueOnce
<1>3. Pending(reqs') => Fresh(sync)'
  BY <1>1, <1>2 DEF QueueOnce, Fresh
<1>4. QED
  BY <1>1, <1>2, <1>3 DEF QueueOnce

LEMMA StillOnce ==
  ASSUME OnceInv, CountedOnce, ~Doomed,
         UNCHANGED <<app, env, begun, link, work, counter, sync, sub, up, resp, down,
         pack>>,
         node'.uplink = node.uplink, node'.ctx = node.ctx,
         reqs' = reqs \/ (reqs # <<>> /\ reqs' = Tail(reqs))
  PROVE  Once'
<1>1. QueueOnce'
  BY QueueKept
<1>2. \A k \in Syncs : Due(k)' <=> Due(k)
  BY DEF Due
<1>3. AnswersOnce'
  BY <1>2, AnswersKept
<1>4. reqs \in Seq(Requests)
  BY DEF OnceInv, OwnInv, Inv, TypeOK
<1>5. Spent => Spent'
  BY <1>2, <1>4, AskedTail DEF Spent, NoneDue
<1>6. QED
  BY <1>1, <1>3, <1>5, GoOnce

\* The answers that change nothing, where the link holds
LEMMA QuietOnce ==
  ASSUME OnceInv, CountedOnce, ~Doomed, NEW err \in BOOLEAN,
         \/ LinkLost \/ ReadError \/ PayloadTooLate \/ Astray \/ Subscribed(err)
         \/ SubscriptionEnds \/ ExchangeWithoutContext
  PROVE  Once'
<1>1. /\ reqs \in Seq(Requests) /\ sub \in BOOLEAN /\ "drops" \notin env
      /\ (Error => link = "closing") /\ QueueOnce
      /\ link # "up" => ~sub
  BY OnceEnv DEF OnceInv, Once, OwnInv, Inv, TypeOK, Spent
<1>2. CASE ReadError \/ PayloadTooLate \/ Astray \/ ExchangeWithoutContext
  <2>1. /\ UNCHANGED <<app, env, begun, link, work, counter, sync, sub, up, resp, down, pack, node>>
        /\ reqs' = reqs \/ (reqs # <<>> /\ reqs' = Tail(reqs))
    BY <1>2 DEF ReadError, PayloadTooLate, Astray, ExchangeWithoutContext, Fail, Answered,
       fixed, appVars, syncVars,
       hostVars, heapVars
  <2>2. QED
    BY <2>1, StillOnce
<1>3. CASE Subscribed(err)
  <2>1. /\ reqs # <<>> /\ reqs' = Tail(reqs)
        /\ UNCHANGED <<app, env, begun, sync, down, resp, pack>>
        /\ \/ Error /\ sub' = FALSE /\ (~sub => UNCHANGED <<up, node, appVars>>)
           \/ UNCHANGED <<sub, up, node, appVars>>
    BY <1>3 DEF Subscribed, Answered, fixed, syncVars
  <2>2. UNCHANGED <<sub, up, node, link, work, counter>>
    BY <1>1, <2>1 DEF appVars
  <2>3. QED
    BY <2>1, <2>2, StillOnce
<1>4. CASE SubscriptionEnds
  <2>1. CASE link = "closing" /\ sub
    BY <1>1, <2>1
  <2>2. CASE /\ Answered("unsubscribe") /\ reqs' = Tail(reqs) /\ UNCHANGED sub
             /\ SubscriptionTerminated \/ UNCHANGED <<up, node, appVars>>
    <3>1. reqs # <<>> /\ Head(reqs) = "unsubscribe"
      BY <2>2 DEF Answered
    <3>2. node.uplink = 0
      BY <1>1, <3>1, AskedTail DEF QueueOnce
    <3>3. UNCHANGED <<up, node, link, work, counter>>
      BY <2>2, <3>2 DEF SubscriptionTerminated, appVars
    <3>4. UNCHANGED <<app, env, begun, sync, down, resp, pack>>
      BY <1>4 DEF SubscriptionEnds, fixed, syncVars
    <3>5. QED
      BY <2>2, <3>1, <3>3, <3>4, StillOnce
  <2>3. QED
    BY <1>4, <2>1, <2>2 DEF SubscriptionEnds
<1>5. CASE LinkLost
  BY <1>1, <1>5 DEF LinkLost
<1>6. QED
  BY <1>2, <1>3, <1>4, <1>5

\* A packet of the device: an uplink is open, so its sync is not over.
LEMMA DeviceOnce ==
  ASSUME OnceInv, CountedOnce, ~Doomed, DeviceStep
  PROVE  Once'
<1>1. PICK packet \in Packets : Indicated(packet) \/ ReadBack(packet)
  BY DEF DeviceStep
<1>2. /\ AnswersOnce /\ QueueOnce /\ OfLatest /\ node \in NodeType /\ sync \in 0 .. MaxSyncs
      /\ up \in [Syncs -> {"none", "open", "fed", "closed", "stuck", "gone"}]
      /\ reqs \in Seq(Requests) /\ sub \in BOOLEAN
      /\ "gatt" \notin env /\ "malloc" \notin env /\ Ends \subseteq {"closed", "gone"}
  BY OnceEnv DEF OnceInv, Once, OwnInv, Inv, TypeOK
<1>3. packet \in {"more", "last"}
  BY <1>2 DEF Packets
<1>4. /\ node.uplink # 0 /\ Payload(packet)
      /\ UNCHANGED <<app, env, begun, sync, down, resp, pack>>
      /\ \/ /\ Indicated(packet) /\ sub
            /\ \/ packet = "more" /\ UNCHANGED <<sub, reqs>>
               \/ packet = "last" /\ sub' = FALSE /\ reqs' = Append(reqs, "unsubscribe")
         \/ /\ ReadBack(packet) /\ reqs # <<>> /\ Head(reqs) = "read" /\ UNCHANGED sub
            /\ reqs' = reqs \/ reqs' = Tail(reqs)
  BY <1>1, <1>3 DEF Indicated, ReadBack, Answered, fixed, syncVars, hostVars
<1>5. /\ node.uplink = sync /\ sync \in Syncs
      /\ up[sync] \in {"open", "fed"} /\ up[sync] \notin Ends
  BY <1>2, <1>4, BoundAssumption DEF OfLatest, Syncs
<1>6. /\ ~Spent /\ ~Pending(reqs) /\ ~Asked("unsubscribe", reqs) /\ ~Asked("write", reqs)
  BY <1>2, <1>4, <1>5 DEF Spent, QueueOnce
<1>7. PICK s \in {"fed", "closed"} :
        /\ up' = [up EXCEPT ![sync] = s]
        /\ packet = "more" => s = "fed" /\ node' = node
        /\ packet = "last" => node' = [node EXCEPT !.uplink = 0]
        /\ UNCHANGED appVars
  BY <1>3, <1>4, <1>5 DEF Payload
<1>8. /\ up'[sync] = s /\ \A k \in Syncs : k # sync => up'[k] = up[k]
      /\ node'.ctx = node.ctx
      /\ packet = "last" => node'.uplink = 0
  BY <1>2, <1>3, <1>5, <1>7 DEF NodeType
<1>9. AnswersOnce'
  <2>1. \A k \in Syncs : up[k] \in Ends => up'[k] \in Ends
    BY <1>5, <1>8
  <2>2. \A k \in Syncs : Due(k)' => Due(k) \/ k = sync
    BY <1>4, <1>8 DEF Due
  <2>3. QED
    BY <1>4, <2>1, <2>2, AnswersKept
<1>10. /\ ~Pending(reqs') /\ ~Asked("write", reqs')
       /\ Asked("unsubscribe", reqs') => node'.uplink = 0 /\ ~sub'
       /\ Asked("read", reqs') => ~sub'
  <2>1. CASE (reqs' = reqs \/ (reqs # <<>> /\ reqs' = Tail(reqs))) /\ UNCHANGED sub
    <3>1. \A x : Asked(x, reqs') => Asked(x, reqs)
      BY <1>2, <2>1, AskedTail
    <3>2. ~Pending(reqs')
      BY <1>2, <1>6, <2>1, AskedTail
    <3>3. ~Asked("unsubscribe", reqs') /\ ~Asked("write", reqs')
      BY <1>6, <3>1
    <3>4. Asked("read", reqs') => ~sub'
      BY <1>2, <1>4, <2>1, <3>1 DEF QueueOnce
    <3>5. QED
      BY <3>2, <3>3, <3>4
  <2>2. CASE packet = "last" /\ sub' = FALSE /\ reqs' = Append(reqs, "unsubscribe")
    <3>1. "unsubscribe" \in Requests /\ "unsubscribe" \notin Early
      BY DEF Requests, Early, Discovery
    <3>2. QED
      BY <1>2, <1>6, <1>8, <2>2, <3>1, AskedAppend
  <2>3. QED
    BY <1>4, <2>1, <2>2
<1>11. sub' => up'[sync] \in {"open", "fed"}
  <2>1. CASE packet = "more" \/ sub' = FALSE
    BY <1>7, <1>8, <2>1
  <2>2. CASE reqs # <<>> /\ Head(reqs) = "read" /\ UNCHANGED sub
    <3>1. ~sub
      BY <1>2, <2>2, AskedTail DEF QueueOnce
    <3>2. QED
      BY <2>2, <3>1
  <2>3. QED
    BY <1>4, <2>1, <2>2
<1>12. QueueOnce'
  BY <1>4, <1>10, <1>11, NothingFinal DEF QueueOnce
<1>13. QED
  BY <1>4, <1>6, <1>7, <1>9, <1>12, GoOnce DEF appVars

\* The cloud ends an uplink, which ends the sync if it does so with an error.
LEMMA UplinkEndsOnce ==
  ASSUME OnceInv, CountedOnce, ~Doomed, NEW k \in Syncs, NEW ok \in BOOLEAN, UplinkEnds(k,
  ok)
  PROVE  Once'
<1>1. /\ AnswersOnce /\ QueueOnce /\ OfLatest /\ node \in NodeType
      /\ up \in [Syncs -> {"none", "open", "fed", "closed", "stuck", "gone"}]
      /\ resp \in [Syncs -> {"open", "last", "failed"}]
      /\ reqs \in Seq(Requests) /\ sub \in BOOLEAN
      /\ "cloud" \in env => Ends = {"gone"}
      /\ Ends \subseteq {"closed", "gone"} /\ "gone" \in Ends
      /\ work # "idle" \/ link # "up" => Spent
  BY OnceEnv DEF OnceInv, Once, OwnInv, Inv, TypeOK
<1>2. /\ up[k] \in {"fed", "closed"} /\ up' = [up EXCEPT ![k] = "gone"]
      /\ node' = [node EXCEPT !.uplink = 0]
      /\ UNCHANGED <<app, env, begun, sync, down, pack>>
      /\ IF link = "up" /\ sub
           THEN sub' = FALSE /\ reqs' = Append(reqs, "unsubscribe")
           ELSE UNCHANGED <<sub, reqs>>
      /\ ok => up[k] = "closed" /\ UNCHANGED <<resp, appVars>>
      /\ ~ok => /\ "cloud" \in env /\ resp' = [resp EXCEPT ![k] = "failed"]
                /\ Finished(link, work)
  BY DEF UplinkEnds, fixed, syncVars, hostVars
<1>3. Ends' = Ends /\ node'.uplink = 0 /\ node'.ctx = node.ctx
  BY <1>1, <1>2, OnceEnv DEF NodeType
<1>4. \A j \in Syncs : Due(j)' => Due(j)
  BY <1>1, <1>2 DEF Due
<1>5. AnswersOnce'
  <2>1. \A j \in Syncs : resp'[j] # "open" => up'[j] \in Ends
    BY <1>1, <1>2 DEF AnswersOnce
  <2>2. QED
    BY <1>1, <1>2, <1>3, <1>4, <2>1 DEF AnswersOnce
<1>6. ~sub' /\ (sub => ~Pending(reqs) /\ ~Asked("write", reqs))
  <2>1. sub => link = "up"
    BY <1>1 DEF Spent
  <2>2. sub => up[sync] \notin Ends
    BY <1>1 DEF QueueOnce
  <2>3. QED
    BY <1>1, <1>2, <2>1, <2>2 DEF QueueOnce
<1>7. /\ WritesLast(reqs')
      /\ "cloud" \notin env \/ resp'[sync] = "open" => FinalLast(reqs')
      /\ Pending(reqs') => Pending(reqs)
      /\ Asked("write", reqs') => Asked("write", reqs)
  <2>1. CASE reqs' = reqs
    <3>1. ~(k > sync) /\ sync \in 0 .. MaxSyncs
      BY <1>1, <1>2 DEF OnceInv, OwnInv, Inv, TypeOK, OfLatest, Fresh
    <3>2. sync \in Syncs
      BY <3>1, BoundAssumption DEF Syncs
    <3>3. resp'[sync] = "open" => resp[sync] = "open"
      BY <1>1, <1>2, <3>2
    <3>4. QED
      BY <1>1, <1>2, <2>1, <3>3 DEF QueueOnce
  <2>2. CASE sub /\ reqs' = Append(reqs, "unsubscribe")
    <3>1. "unsubscribe" \in Requests /\ "unsubscribe" \notin Early
      BY DEF Requests, Early, Discovery
    <3>2. QED
      BY <1>1, <1>6, <2>2, <3>1, AskedAppend, FinalWritesLast
  <2>3. QED
    BY <1>2, <2>1, <2>2
<1>8. Pending(reqs) => Fresh(sync)'
  <2>1. SUFFICES ASSUME Pending(reqs) PROVE Fresh(sync)'
    OBVIOUS
  <2>2. Fresh(sync) /\ k # sync
    BY <1>1, <1>2, <2>1 DEF QueueOnce, Fresh
  <2>3. up'[sync] = up[sync]
    BY <1>1, <1>2, <2>2
  <2>4. QED
    BY <1>2, <2>2, <2>3 DEF Fresh
<1>9. Asked("write", reqs) => up'[sync] \in Ends
  BY <1>1, <1>2 DEF QueueOnce
<1>10. QueueOnce'
  BY <1>1, <1>2, <1>3, <1>6, <1>7, <1>8, <1>9 DEF QueueOnce
<1>11. CASE ok
  <2>1. Spent => Spent'
    BY <1>3, <1>4, <1>6, <1>7 DEF Spent, NoneDue
  <2>2. QED
    BY <1>2, <1>5, <1>10, <1>11, <2>1, GoOnce DEF appVars
<1>12. CASE ~ok
  <2>1. Due(k) /\ k = sync /\ up[sync] \notin Ends
    <3>1. up[k] \in {"fed", "closed"} /\ Ends = {"gone"}
      BY <1>1, <1>2, <1>12
    <3>2. up[k] \notin Ends
      BY <3>1
    <3>3. Due(k)
      BY <1>1, <3>1, <3>2 DEF AnswersOnce, Due
    <3>4. QED
      BY <1>1, <3>2, <3>3 DEF AnswersOnce
  <2>2. NoneDue'
    <3>1. resp'[k] = "failed"
      BY <1>1, <1>2, <1>12
    <3>2. ~Due(k)'
      BY <3>1 DEF Due
    <3>3. \A j \in Syncs : Due(j) => j = k
      BY <1>1, <2>1 DEF AnswersOnce
    <3>4. \A j \in Syncs : ~Due(j)'
      BY <1>4, <3>2, <3>3
    <3>5. QED
      BY <3>4 DEF NoneDue
  <2>3. ~Pending(reqs) /\ ~Asked("write", reqs)
    BY <1>1, <1>2, <2>1 DEF QueueOnce, Fresh
  <2>4. ~Spent /\ Spent'
    BY <1>3, <1>6, <1>7, <2>1, <2>2, <2>3 DEF Spent, NoneDue
  <2>5. QED
    BY <1>2, <1>5, <1>10, <1>12, <2>4, EndOnce
<1>13. QED
  BY <1>11, <1>12

\* write_downlink_characteristic queues at most one write, behind nothing final.
LEMMA WriteOnce ==
  ASSUME OnceInv, CountedOnce, ~Doomed, NEW rs \in Seq(Requests), Write(rs), link = "up",
         sync \in Syncs, WritesLast(rs), ~Pending(rs),
         ~Asked("write", rs) \/ ("cloud" \in env /\ resp'[sync] # "open"),
         \A x : Asked(x, rs) => Asked(x, reqs),
         up[sync] \in Ends, UNCHANGED <<env, sync, up, sub>>
  PROVE  /\ UNCHANGED <<link, work, counter>> /\ node'.uplink = node.uplink
         /\ (fault' = "downlink" /\ UNCHANGED <<node, reqs, down, pack>>) \/ QueueOnce'
<1>1. /\ node \in NodeType /\ OfLatest /\ QueueOnce
      /\ down \in [Syncs -> {"none", "null", "waiting", "writing", "aborted", "gone"}]
      /\ "gatt" \notin env /\ Ends' = Ends
  BY OnceEnv DEF OnceInv, Once, OwnInv, Inv, TypeOK
<1>2. \/ /\ Live(node.ctx)
         /\ node' = [node EXCEPT !.params = "write"]
         /\ down' = [down EXCEPT ![node.ctx] = "writing"]
         /\ reqs' = Append(rs, "write")
         /\ UNCHANGED <<appVars, pack>>
      \/ fault' = "downlink" /\ UNCHANGED <<node, reqs, appVars, down, pack>>
  BY <1>1 DEF Write
<1>3. CASE fault' = "downlink" /\ UNCHANGED <<node, reqs, appVars, down, pack>>
  BY <1>3 DEF appVars
<1>4. CASE /\ Live(node.ctx)
           /\ node' = [node EXCEPT !.params = "write"]
           /\ down' = [down EXCEPT ![node.ctx] = "writing"]
           /\ reqs' = Append(rs, "write")
           /\ UNCHANGED <<appVars, pack>>
  <2>1. node.ctx = sync
    BY <1>1, <1>4 DEF Live, OfLatest
  <2>2. down'[sync] = "writing"
    BY <1>1, <1>4, <2>1
  <2>3. node'.uplink = node.uplink /\ node'.ctx = sync
    BY <1>1, <1>4, <2>1 DEF NodeType
  <2>4. "write" \in Requests /\ "write" \notin Early
    BY DEF Requests, Early, Discovery
  <2>5. /\ \A x : Asked(x, reqs') => Asked(x, reqs) \/ x = "write"
        /\ ~Pending(reqs') /\ WritesLast(reqs')
        /\ "cloud" \notin env \/ resp'[sync] = "open" => FinalLast(reqs')
    BY <1>4, <2>4, AskedAppend
  <2>6. /\ Asked("unsubscribe", reqs') => Asked("unsubscribe", reqs)
        /\ Asked("read", reqs') => Asked("read", reqs)
    BY <2>5
  <2>7. QueueOnce'
    BY <1>1, <2>2, <2>3, <2>5, <2>6 DEF QueueOnce
  <2>8. QED
    BY <1>4, <2>3, <2>7 DEF appVars
<1>5. QED
  BY <1>2, <1>3, <1>4

\* The cloud answers: the write that this makes is the only one.
LEMMA ResponseOnce ==
  ASSUME OnceInv, CountedOnce, ~Doomed, NEW k \in Syncs,
  EndCb(k) \/ \E last \in BOOLEAN : BlockCb(k, last)
  PROVE  Once'
<1>1. /\ AnswersOnce /\ QueueOnce
      /\ down \in [Syncs -> {"none", "null", "waiting", "writing", "aborted", "gone"}]
      /\ resp \in [Syncs -> {"open", "last", "failed"}]
      /\ reqs \in Seq(Requests)
      /\ work # "idle" \/ link # "up" => Spent
      /\ "cloud" \in env => Ends = {"gone"}
  BY OnceEnv DEF OnceInv, Once, OwnInv, Inv, TypeOK
<1>2. /\ UNCHANGED <<app, env, begun, sync, sub, up>>
      /\ Responds(k)
      /\ \E a : resp' = [resp EXCEPT ![k] = a]
  BY DEF EndCb, BlockCb, fixed, syncVars
<1>3. /\ Due(k) /\ up[k] \in Ends /\ resp[k] = "open"
  BY <1>1, <1>2 DEF Responds, Due, Ends
<1>4. k = sync /\ ~Spent /\ link = "up"
  BY <1>1, <1>3 DEF AnswersOnce, Spent, NoneDue
<1>5. Ends' = Ends
  BY <1>2 DEF Ends
<1>6. \A j \in Syncs : Due(j)' => j = sync
  <2>1. \A j \in Syncs : j # sync => (Due(j)' => Due(j))
    BY <1>1, <1>2, <1>4 DEF Due
  <2>2. QED
    BY <1>1, <2>1 DEF AnswersOnce
<1>7. AnswersOnce'
  <2>1. \A j \in Syncs : resp'[j] # "open" => up[j] \in Ends
    BY <1>1, <1>2, <1>3 DEF AnswersOnce
  <2>2. QED
    BY <1>2, <1>5, <1>6, <2>1 DEF AnswersOnce
<1>8. ~Pending(reqs)
  BY <1>1, <1>3, <1>4 DEF QueueOnce, Fresh, Due
<1>9. CASE /\ Write(reqs)
           /\ down[k] # "writing" \/ ("cloud" \in env /\ resp' = [resp EXCEPT ![k] = "failed"])
  <2>1. /\ ~Asked("write", reqs) \/ ("cloud" \in env /\ resp'[sync] # "open")
        /\ WritesLast(reqs)
    BY <1>1, <1>4, <1>9 DEF QueueOnce
  <2>2. /\ UNCHANGED <<link, work, counter>> /\ node'.uplink = node.uplink
        /\ (fault' = "downlink" /\ UNCHANGED <<node, reqs, down, pack>>) \/ QueueOnce'
    BY <1>1, <1>2, <1>3, <1>4, <1>8, <1>9, <2>1, WriteOnce
  <2>3. QueueOnce'
    <3>1. CASE UNCHANGED <<node, reqs, down, pack>>
      BY <1>2, <1>3, <1>4, <3>1, QueueKept
    <3>2. QED
      BY <2>2, <3>1
  <2>4. QED
    BY <1>2, <1>4, <1>7, <2>2, <2>3, GoOnce
<1>10. CASE /\ UNCHANGED <<node, reqs, appVars, pack>>
            /\ \/ down' = down
               \/ down[k] = "aborted" /\ down' = [down EXCEPT ![k] = "gone"]
  <2>1. Asked("write", reqs') => down'[sync] = down[sync]
    BY <1>1, <1>4, <1>10 DEF QueueOnce
  <2>2. QueueOnce'
    BY <1>2, <1>3, <1>4, <1>8, <1>10, <2>1, QueueKept
  <2>3. QED
    BY <1>2, <1>4, <1>7, <1>10, <2>2, GoOnce DEF appVars
<1>11. QED
  BY <1>4, <1>9, <1>10 DEF EndCb, BlockCb

\* The answer to the write: the sync ends, or another write follows, or none.
LEMMA WrittenOnce ==
  ASSUME OnceInv, CountedOnce, ~Doomed, Written
  PROVE  Once'
<1>1. /\ AnswersOnce /\ QueueOnce /\ OfLatest
      /\ down \in [Syncs -> {"none", "null", "waiting", "writing", "aborted", "gone"}]
      /\ reqs \in Seq(Requests) /\ sync \in 0 .. MaxSyncs
      /\ Ends \subseteq {"closed", "gone"}
      /\ Error => link = "closing"
  BY OnceEnv DEF OnceInv, Once, OwnInv, Inv, TypeOK
<1>2. /\ reqs # <<>> /\ Head(reqs) = "write"
      /\ UNCHANGED <<app, env, begun, sync, sub, up, resp>>
  BY DEF Written, Answered, fixed, syncVars
<1>3. /\ Asked("write", reqs) /\ Tail(reqs) \in Seq(Requests) /\ WritesLast(Tail(reqs))
      /\ \A x : Asked(x, Tail(reqs)) => Asked(x, reqs)
      /\ Tail(reqs) = <<>> \/ Head(Tail(reqs)) = "write"
      /\ "cloud" \notin env \/ resp[sync] = "open" => Tail(reqs) = <<>>
  <2>1. "write" \in Final
    BY DEF Final
  <2>2. QED
    BY <1>1, <1>2, <2>1, AskedTail, PendingTail DEF QueueOnce
<1>4. ~Spent /\ link = "up"
  BY <1>3, Unspent DEF Spent
<1>5. sync \in Syncs
  BY <1>1, <1>2, BoundAssumption DEF OnceInv, OwnInv, Inv, Started, Syncs
<1>6. /\ node.ctx = sync /\ down[sync] = "writing" /\ up[sync] \in Ends
      /\ node.uplink = 0 /\ ~sub /\ ~Pending(reqs)
  <2>1. node.ctx = sync /\ down[sync] = "writing" /\ up[sync] \in Ends
    BY <1>1, <1>3 DEF QueueOnce
  <2>2. up[sync] \notin {"open", "fed", "none"}
    BY <1>1, <2>1
  <2>3. node.uplink = 0
    BY <1>1, <2>2 DEF OfLatest
  <2>4. QED
    BY <1>1, <2>1, <2>2, <2>3 DEF QueueOnce, Fresh
<1>7. AnswersOnce'
  BY <1>1, <1>2, OnceEnv DEF AnswersOnce, Due
<1>8. CASE EndDownlink /\ MayBeComplete(node.ctx) /\ reqs' = Tail(reqs) /\ UNCHANGED <<node, fault>>
  <2>1. Finished(link, work)
    BY <1>8 DEF EndDownlink
  <2>2. ~Due(sync)
    BY <1>6, <1>8 DEF MayBeComplete, Due
  <2>3. NoneDue'
    <3>1. \A k \in Syncs : ~Due(k)
      BY <1>1, <2>2 DEF AnswersOnce
    <3>2. QED
      BY <1>2, <3>1 DEF NoneDue, Due
  <2>4. CASE Tail(reqs) = <<>>
    <3>1. Spent'
      BY <1>2, <1>6, <1>8, <2>3, <2>4, AskedNone DEF Spent
    <3>2. QueueOnce'
      BY <1>2, <1>6, <1>8, <2>4, AskedNone, FinalWritesLast DEF QueueOnce
    <3>3. QED
      BY <1>2, <1>4, <1>7, <2>1, <3>1, <3>2, EndOnce
  <2>5. CASE Tail(reqs) # <<>>
    <3>1. ~Live(node.ctx)'
      BY <1>1, <1>5, <1>6, <1>8 DEF EndDownlink, Live
    <3>2. Doomed'
      BY <1>2, <1>3, <1>6, <1>8, <2>3, <2>5, <3>1 DEF Doomed
    <3>3. Counted'
      BY <1>2, <1>4, <2>1, EndCounted
    <3>4. QED
      BY <1>7, <3>2, <3>3 DEF Once
  <2>6. QED
    BY <2>4, <2>5
<1>9. CASE Write(Tail(reqs))
  <2>1. /\ UNCHANGED <<link, work, counter>> /\ node'.uplink = node.uplink
        /\ (fault' = "downlink" /\ UNCHANGED <<node, reqs, down, pack>>) \/ QueueOnce'
    <3>1. ~Pending(Tail(reqs))
      BY <1>1, <1>2, <1>6, AskedTail
    <3>2. ~Asked("write", Tail(reqs)) \/ ("cloud" \in env /\ resp'[sync] # "open")
      BY <1>2, <1>3, AskedNone
    <3>3. QED
      BY <1>2, <1>3, <1>4, <1>5, <1>6, <1>9, <3>1, <3>2, WriteOnce
  <2>2. QueueOnce'
    <3>1. CASE UNCHANGED <<node, reqs, down, pack>>
      BY <1>2, <3>1, QueueKept
    <3>2. QED
      BY <2>1, <3>1
  <2>3. QED
    BY <1>2, <1>4, <1>7, <2>1, <2>2, GoOnce
<1>10. CASE /\ down' = [down EXCEPT ![node.ctx] = "waiting"]
            /\ reqs' = Tail(reqs) /\ UNCHANGED <<node, appVars>>
            /\ resp[node.ctx] = "open"
  <2>1. QueueOnce'
    BY <1>2, <1>3, <1>6, <1>10, AskedNone, FinalWritesLast DEF QueueOnce
  <2>2. QED
    BY <1>2, <1>4, <1>7, <1>10, <2>1, GoOnce DEF appVars
<1>11. CASE UNCHANGED <<node, reqs, appVars, down, pack>>
  <2>1. QueueOnce'
    BY <1>2, <1>11, QueueKept
  <2>2. QED
    BY <1>2, <1>4, <1>7, <1>11, <2>1, GoOnce DEF appVars
<1>12. ~Error
  BY <1>1, <1>4
<1>13. QED
  BY <1>8, <1>9, <1>10, <1>11, <1>12 DEF Written

\* A discovery, or the start of the uplink, is the only thing under way.
LEMMA EarlyOnce ==
  ASSUME OnceInv, CountedOnce, ~Doomed, reqs # <<>>, Head(reqs) \in Early
  PROVE  /\ Tail(reqs) = <<>> /\ Tail(reqs) \in Seq(Requests) /\ sync \in Syncs
         /\ link = "up" /\ work = "idle" /\ ~Spent
         /\ node.uplink = 0 /\ ~sub /\ Fresh(sync) /\ resp[sync] = "open"
         /\ NoneDue
<1>1. /\ AnswersOnce /\ QueueOnce /\ Inv /\ reqs \in Seq(Requests)
      /\ Ends \subseteq {"closed", "gone"}
  BY OnceEnv DEF OnceInv, Once, OwnInv, Inv, TypeOK
<1>2. Pending(reqs) /\ Tail(reqs) = <<>>
  BY <1>1, AskedTail DEF QueueOnce, Final
<1>3. sync \in Syncs /\ Tail(reqs) \in Seq(Requests)
  BY <1>1, EarlyAlone
<1>4. node.uplink = 0 /\ ~sub /\ Fresh(sync)
  BY <1>1, <1>2 DEF QueueOnce
<1>5. up[sync] = "none" /\ up[sync] \notin Ends
  BY <1>1, <1>4 DEF Fresh
<1>6. resp[sync] = "open"
  BY <1>1, <1>3, <1>5 DEF AnswersOnce
<1>7. NoneDue
  BY <1>1, <1>5 DEF AnswersOnce, NoneDue, Due
<1>8. ~Spent /\ link = "up" /\ work = "idle"
  BY <1>2, Unspent DEF Spent
<1>9. QED
  BY <1>2, <1>3, <1>4, <1>6, <1>7, <1>8

LEMMA EarlyStepOnce ==
  ASSUME OnceInv, CountedOnce, ~Doomed, EarlyStep
  PROVE  Once'
<1>1. /\ reqs # <<>> /\ Head(reqs) \in Early
      /\ UNCHANGED <<app, env, scan, begun, sync, sub, up, down, resp, scratch, pack, fault>>
      /\ node'.uplink = node.uplink /\ node'.ctx = node.ctx
      /\ \/ \E op \in Early : UNCHANGED appVars /\ reqs' = Append(Tail(reqs), op)
         \/ /\ reqs' = Tail(reqs)
            /\ \/ Finished(link, work)
               \/ (Error \/ "cloud" \in env) /\ UNCHANGED appVars
  BY DEF EarlyStep
<1>2. /\ Tail(reqs) = <<>> /\ <<>> \in Seq(Requests) /\ sync \in Syncs
      /\ link = "up" /\ work = "idle" /\ ~Spent
      /\ node.uplink = 0 /\ ~sub /\ Fresh(sync) /\ NoneDue
  BY <1>1, EarlyOnce
<1>3. Fresh(sync)' /\ NoneDue'
  BY <1>1, <1>2 DEF Fresh, NoneDue, Due
<1>4. AnswersOnce'
  BY <1>1, <1>2, AnswersKept DEF Due
<1>5. CASE \E op \in Early : UNCHANGED appVars /\ reqs' = Append(Tail(reqs), op)
  <2>1. PICK op \in Early : UNCHANGED appVars /\ reqs' = Append(<<>>, op)
    BY <1>2, <1>5
  <2>2. op \in Requests /\ op \notin {"write", "unsubscribe", "read"}
    BY DEF Early, Requests, Discovery
  <2>3. FinalLast(reqs') /\ \A x : Asked(x, reqs') => x = op
    BY <1>2, <2>1, <2>2, AskedAppend, AskedNone
  <2>4. ~Asked("write", reqs') /\ ~Asked("unsubscribe", reqs') /\ ~Asked("read", reqs')
    BY <2>2, <2>3
  <2>5. QueueOnce'
    BY <1>1, <1>2, <1>3, <2>3, <2>4, FinalWritesLast DEF QueueOnce
  <2>6. QED
    BY <1>1, <1>2, <1>4, <2>1, <2>5, GoOnce DEF appVars
<1>6. CASE reqs' = Tail(reqs) /\ Finished(link, work)
  <2>1. QueueOnce'
    BY <1>1, <1>2, <1>6, AskedNone, FinalWritesLast DEF QueueOnce
  <2>2. Spent'
    BY <1>1, <1>2, <1>3, <1>6, AskedNone DEF Spent
  <2>3. QED
    BY <1>1, <1>2, <1>4, <1>6, <2>1, <2>2, EndOnce
<1>7. CASE reqs' = Tail(reqs) /\ UNCHANGED appVars
  <2>1. QueueOnce'
    BY <1>1, <1>2, <1>7, AskedNone, FinalWritesLast DEF QueueOnce
  <2>2. QED
    BY <1>1, <1>2, <1>4, <1>7, <2>1, GoOnce DEF appVars
<1>8. QED
  BY <1>1, <1>5, <1>6, <1>7

LEMMA StartsOnce ==
  ASSUME OnceInv, CountedOnce, ~Doomed, Starts
  PROVE  Once'
<1>1. PICK d \in {"noscratch", "nocontext", "opened"}, opened \in BOOLEAN,
           source \in {"read", "subscribe"} : Start(d, opened, source)
  BY DEF Starts
<1>2. /\ Tail(reqs) = <<>> /\ <<>> \in Seq(Requests) /\ sync \in Syncs
      /\ link = "up" /\ work = "idle" /\ ~Spent
      /\ node.uplink = 0 /\ ~sub /\ Fresh(sync) /\ NoneDue /\ resp[sync] = "open"
  BY EarlyOnce DEF Starts
<1>3. /\ UNCHANGED <<app, env, begun, sync, resp>>
      /\ up' = IF opened THEN [up EXCEPT ![sync] = "open"] ELSE up
      /\ \/ /\ opened /\ UNCHANGED appVars
            /\ reqs' = Append(<<>>, source)
            /\ sub' = (sub \/ source = "subscribe")
         \/ /\ ~opened /\ Finished(link, work) /\ node'.uplink = 0
            /\ reqs' = <<>> /\ sub' = sub
  BY <1>1, <1>2, OnceEnv DEF Start
<1>4. up \in [Syncs -> {"none", "open", "fed", "closed", "stuck", "gone"}] /\ up[sync] = "none"
  BY <1>2 DEF OnceInv, OwnInv, Inv, TypeOK, Fresh
<1>5. \A k \in Syncs : (Due(k)' => Due(k)) /\ (up[k] \in Ends => up'[k] \in Ends)
  <2>1. up[sync] \notin Ends
    BY <1>4 DEF Ends
  <2>2. QED
    BY <1>2, <1>3, <1>4, <2>1 DEF Due
<1>6. AnswersOnce'
  BY <1>3, <1>5, AnswersKept
<1>7. CASE /\ opened /\ UNCHANGED appVars
           /\ reqs' = Append(<<>>, source)
           /\ sub' = (sub \/ source = "subscribe")
  <2>1. source \in Requests /\ source \notin Early /\ source \notin {"write", "unsubscribe"}
    BY DEF Requests, Early, Discovery
  <2>2. FinalLast(reqs') /\ ~Pending(reqs') /\ \A x : Asked(x, reqs') => x = source
    BY <1>2, <1>7, <2>1, AskedAppend, AskedNone
  <2>3. ~Asked("write", reqs') /\ ~Asked("unsubscribe", reqs') /\ (Asked("read", reqs') => ~sub')
    BY <1>2, <1>7, <2>1, <2>2
  <2>4. up'[sync] = "open"
    BY <1>2, <1>3, <1>4, <1>7
  <2>5. QueueOnce'
    BY <1>3, <2>2, <2>3, <2>4, FinalWritesLast DEF QueueOnce
  <2>6. QED
    BY <1>2, <1>3, <1>6, <1>7, <2>5, GoOnce DEF appVars
<1>8. CASE /\ ~opened /\ Finished(link, work) /\ node'.uplink = 0
           /\ reqs' = <<>> /\ sub' = sub
  <2>1. QueueOnce'
    BY <1>2, <1>8, AskedNone, FinalWritesLast DEF QueueOnce
  <2>2. NoneDue'
    BY <1>2, <1>5 DEF NoneDue
  <2>3. Spent'
    BY <1>2, <1>8, <2>2, AskedNone DEF Spent
  <2>4. QED
    BY <1>2, <1>3, <1>6, <1>8, <2>1, <2>3, EndOnce
<1>9. QED
  BY <1>3, <1>7, <1>8

\* The scanner finds a device, or no connection comes about.
LEMMA ScanOnce ==
  ASSUME OnceInv, CountedOnce, ~Doomed, DeviceFound \/ ConnectFails
  PROVE  Once'
<1>1. /\ UNCHANGED <<app, env, work, counter, begun, sync, node, reqs, sub, up, down, resp, pack>>
      /\ link \in {"none", "creating"} /\ link' \in {"none", "creating"}
      /\ AnswersOnce /\ QueueOnce /\ Counted /\ Spent
  BY DEF OnceInv, Once, OwnInv, Inv, ScanOrConnection, DeviceFound, ConnectFails, fixed,
     syncVars,
     hostVars, heapVars
<1>2. \A k \in Syncs : Due(k)' <=> Due(k)
  BY <1>1 DEF Due
<1>3. AnswersOnce'
  BY <1>1, <1>2, AnswersKept
<1>4. QueueOnce'
  BY <1>1, QueueKept
<1>5. Counted'
  BY <1>1 DEF Counted
<1>6. Spent'
  BY <1>1, <1>2 DEF Spent, NoneDue
<1>7. QED
  BY <1>3, <1>4, <1>5, <1>6 DEF Once

\* Nothing refers to the next sync yet.
LEMMA BeginFresh ==
  ASSUME OwnInv, sync < MaxSyncs, sync' = sync + 1, UNCHANGED <<up, down, pack>>
  PROVE  Fresh(sync)'
<1>1. OfLatest /\ sync \in 0 .. MaxSyncs
  BY DEF OwnInv, Inv, TypeOK
<1>2. sync + 1 \in Syncs /\ sync + 1 > sync
  BY <1>1, BoundAssumption DEF Syncs
<1>3. Fresh(sync + 1)
  BY <1>1, <1>2 DEF OfLatest
<1>4. QED
  BY <1>3 DEF Fresh

\* A sync begins when the last one is over.
LEMMA BeginOnce ==
  ASSUME OnceInv, CountedOnce, ~Doomed, Spent, sync < MaxSyncs, sync' = sync + 1,
  node' = ClearedNode,
         UNCHANGED <<env, sub, up, down, resp, pack>>, reqs' = Append(reqs, "service16")
  PROVE  AnswersOnce' /\ QueueOnce'
<1>1. /\ AnswersOnce /\ QueueOnce /\ OfLatest /\ reqs \in Seq(Requests)
      /\ sync \in 0 .. MaxSyncs /\ Ends' = Ends
  BY OnceEnv DEF OnceInv, Once, OwnInv, Inv, TypeOK
<1>2. \A k \in Syncs : ~Due(k)'
  BY DEF Due, Spent, NoneDue
<1>3. AnswersOnce'
  BY <1>1, <1>2 DEF AnswersOnce
<1>4. node'.uplink = 0
  BY DEF ClearedNode
<1>5. Fresh(sync)'
  BY BeginFresh DEF OnceInv
<1>6. "service16" \in Requests /\ "service16" \in Early
  BY DEF Requests, Early, Discovery
<1>7. /\ FinalLast(reqs')
      /\ \A x : Asked(x, reqs') => Asked(x, reqs) \/ x = "service16"
  BY <1>1, <1>6, AskedAppend DEF Spent
<1>8. ~Asked("write", reqs') /\ ~sub'
  BY <1>7 DEF Spent
<1>9. QueueOnce'
  BY <1>4, <1>5, <1>7, <1>8, FinalWritesLast DEF QueueOnce
<1>10. QED
  BY <1>3, <1>9

LEMMA ConnectedOnce ==
  ASSUME OnceInv, CountedOnce, ~Doomed, Connected
  PROVE  Once'
<1>1. /\ UNCHANGED <<app, env, sub, up, down, resp, pack>>
      /\ link = "creating" /\ "gatt" \notin env
      /\ Counted /\ Spent /\ AnswersOnce /\ QueueOnce /\ Inv
  BY OnceEnv DEF OnceInv, Once, OwnInv, Connected, fixed, heapVars
<1>2. CASE app = "gateway"
  <2>1. BtStart("up", work) /\ work = "idle" /\ sync < MaxSyncs
    BY <1>1, <1>2 DEF Connected, Inv, OneSync
  <2>2. /\ sync' = sync + 1 /\ node' = ClearedNode /\ reqs' = Append(reqs, "service16")
        /\ link' = "up" /\ work' = "idle"
    BY <1>1, <2>1 DEF BtStart, Request, Unfinished
  <2>3. AnswersOnce' /\ QueueOnce'
    BY <1>1, <2>1, <2>2, BeginOnce
  <2>4. QED
    BY <1>1, <1>2, <2>2, <2>3 DEF Once, Counted
<1>3. CASE app # "gateway"
  <2>1. /\ UNCHANGED <<sync, node, reqs>>
        /\ link' = "up" /\ counter' = 0 /\ begun' = 0
        /\ work' = IF work = "idle" THEN "now" ELSE work
    BY <1>1, <1>3 DEF Connected
  <2>2. \A k \in Syncs : Due(k)' <=> Due(k)
    BY <1>1 DEF Due
  <2>3. AnswersOnce'
    BY <1>1, <2>1, <2>2, AnswersKept
  <2>4. QueueOnce'
    BY <1>1, <2>1, QueueKept
  <2>5. Spent'
    BY <1>1, <2>1, <2>2 DEF Spent, NoneDue
  <2>6. Counted'
    BY <1>1, <2>1 DEF Counted
  <2>7. QED
    BY <2>3, <2>4, <2>5, <2>6 DEF Once
<1>4. QED
  BY <1>2, <1>3

\* What a sync starts on, and that its first request is accepted
LEMMA SyncStartOnce ==
  ASSUME OnceInv, CountedOnce, ~Doomed, SyncStart
  PROVE  Once' /\ link = "up"
<1>1. /\ UNCHANGED <<app, env, sub, up, down, resp, pack>>
      /\ sync < MaxSyncs /\ work # "idle" /\ BtStart(link, "idle") /\ begun' = begun + 1
      /\ "gatt" \notin env
      /\ Counted /\ Spent /\ AppAssumption /\ app \in Apps /\ OneSync
  BY OnceEnv, AppAssumption DEF OnceInv, Once, OwnInv, Inv, TypeOK, SyncStart, fixed,
     heapVars
<1>2. app = "custom"
  BY <1>1, AppAssumption DEF OneSync
<1>3. link = "up"
  BY <1>1, <1>2 DEF Counted
<1>4. /\ sync' = sync + 1 /\ node' = ClearedNode /\ reqs' = Append(reqs, "service16")
      /\ link' = "up" /\ work' = "idle" /\ counter' = counter
  BY <1>1, <1>3 DEF BtStart, Request, Unfinished
<1>5. AnswersOnce' /\ QueueOnce'
  BY <1>1, <1>4, BeginOnce
<1>6. Counted'
  BY <1>1, <1>2, <1>3, <1>4 DEF Counted
<1>7. QED
  BY <1>3, <1>4, <1>5, <1>6 DEF Once

LEMMA DisconnectedOnce ==
  ASSUME OnceInv, CountedOnce, ~Doomed, Disconnected
  PROVE  Once'
<1>1. /\ UNCHANGED <<app, env, work, counter, begun, sync, reqs, sub, down, resp, pack>>
      /\ link = "closing" /\ link' = "none"
      /\ up' = Closed(node.uplink) /\ node' = [node EXCEPT !.uplink = 0, !.scratch = 0]
      /\ node \in NodeType /\ Counted /\ Spent
  BY DEF OnceInv, Once, OwnInv, Inv, TypeOK, Disconnected, fixed, syncVars, hostVars
<1>2. up' = up /\ node'.uplink = node.uplink /\ node'.ctx = node.ctx
  BY <1>1 DEF Spent, Closed, NodeType
<1>3. \A k \in Syncs : Due(k)' <=> Due(k)
  BY <1>1, <1>2 DEF Due
<1>4. AnswersOnce'
  BY <1>1, <1>2, <1>3, AnswersKept
<1>5. QueueOnce'
  BY <1>1, <1>2, QueueKept
<1>6. Spent' /\ Counted'
  BY <1>1, <1>2, <1>3 DEF Spent, NoneDue, Counted
<1>7. QED
  BY <1>4, <1>5, <1>6 DEF Once

\* What is left of a doomed sync: the host answers its write, to nothing, or the
\* work starts another sync first, which does not come to its first answer.
LEMMA DoomedOnce ==
  ASSUME OnceInv, CountedOnce, Doomed, Next
  PROVE  Once' /\ (SyncStart => link = "up")
<1>1. /\ reqs \in Seq(Requests) /\ reqs # <<>> /\ Head(reqs) = "write"
      /\ NoneDue /\ ~sub /\ node.uplink = 0 /\ AnswersOnce /\ Counted
      /\ node.params # "write" \/ ~Live(node.ctx)
      /\ link \notin {"none", "creating"} /\ "cloud" \in env
      /\ Ends = {"gone"} /\ "drops" \notin env /\ "gatt" \notin env
      /\ OneSync /\ app \in Apps
  BY OnceEnv DEF OnceInv, Once, OwnInv, Inv, TypeOK, OfLatest, Resting, Doomed
<1>2. ASSUME UNCHANGED <<app, env, begun, link, work, counter, sync, node, reqs, sub, up, resp, down>>
      PROVE  Once'
  <2>1. \A k \in Syncs : Due(k)' <=> Due(k)
    BY <1>2 DEF Due
  <2>2. AnswersOnce'
    BY <1>2, <2>1, AnswersKept
  <2>3. Counted'
    BY <1>1, <1>2 DEF Counted
  <2>4. Doomed'
    BY <1>1, <1>2, <2>1 DEF Doomed, NoneDue, Live
  <2>5. QED
    BY <2>2, <2>3, <2>4 DEF Once
<1>3. \A k \in Syncs : up[k] \notin {"fed", "closed"} /\ ~Responds(k)
  BY <1>1 DEF NoneDue, Due, AnswersOnce, Responds
<1>4. work # "idle" => app = "custom" /\ link = "up"
  BY <1>1, AppAssumption DEF OneSync, Counted
<1>5. CASE SyncStart
  <2>1. /\ UNCHANGED <<app, env, sub, up, down, resp, pack>>
        /\ sync < MaxSyncs /\ work # "idle" /\ BtStart(link, "idle") /\ begun' = begun + 1
    BY <1>5 DEF SyncStart, fixed, heapVars
  <2>2. app = "custom"
    BY <1>4, <2>1
  <2>3. link = "up"
    BY <1>4, <2>1
  <2>4. /\ sync' = sync + 1 /\ node' = ClearedNode /\ reqs' = Append(reqs, "service16")
        /\ link' = "up" /\ work' = "idle" /\ counter' = counter
    BY <1>1, <2>1, <2>3 DEF BtStart, Request, Unfinished
  <2>5. reqs' # <<>> /\ Head(reqs') = "write"
    BY <1>1, <2>4
  <2>6. \A k \in Syncs : ~Due(k)'
    BY <1>1, <2>1 DEF Due, NoneDue
  <2>7. Doomed'
    BY <1>1, <2>1, <2>4, <2>5, <2>6 DEF Doomed, ClearedNode, NoneDue
  <2>8. AnswersOnce'
    BY <1>1, <2>1, <2>6, OnceEnv DEF AnswersOnce
  <2>9. Counted'
    BY <1>1, <2>1, <2>2, <2>3, <2>4 DEF Counted
  <2>10. QED
    BY <2>3, <2>7, <2>8, <2>9 DEF Once
<1>6. CASE Written
  <2>1. Answered("write") /\ ~Live(node.ctx)
    BY <1>1, <1>6 DEF Written, Answered, ParamsOf, Discovery
  <2>2. UNCHANGED <<node, reqs, appVars, down, pack>>
    BY <1>6, <2>1 DEF Written, Abandon
  <2>3. UNCHANGED <<app, env, begun, sync, sub, up, resp>>
    BY <1>6 DEF Written, fixed, syncVars
  <2>4. QED
    BY <1>2, <1>4, <2>2, <2>3 DEF SyncStart, appVars
<1>7. CASE Astray
  <2>1. UNCHANGED <<app, env, begun, link, work, counter, sync, node, reqs, sub, up, resp, down>>
    BY <1>7 DEF Astray, Fail, fixed, appVars, syncVars, hostVars, heapVars
  <2>2. QED
    BY <1>2, <1>4, <2>1 DEF SyncStart
<1>8. ~DiscoveryStep /\ ~DeviceStep
  BY <1>1 DEF DiscoveryStep, Service, Characteristics, Descriptors, Exchange,
     ExchangeWithoutContext, DeviceStep, Indicated, ReadBack, Answered
<1>9. ~CloudStep
  BY <1>3 DEF CloudStep, UplinkEnds, BlockCb, EndCb
<1>10. ~(ReadError \/ PayloadTooLate \/ SubscriptionEnds \/ \E err \in BOOLEAN : Subscribed(err))
  BY <1>1 DEF ReadError, PayloadTooLate, SubscriptionEnds, Subscribed, Answered
<1>11. ~(DeviceFound \/ ConnectFails \/ Connected \/ LinkLost \/ Disconnected)
  BY <1>1 DEF OnceInv, OwnInv, Inv, ScanOrConnection, DeviceFound, ConnectFails, Connected,
     LinkLost, Disconnected
<1>12. QED
  BY <1>5, <1>6, <1>7, <1>8, <1>9, <1>10, <1>11 DEF Next, ConnectionStep, AnswerStep

LEMMA InitOnce ==
  ASSUME Init
  PROVE  OnceInv
<1>1. OwnInv
  BY InitOwn
<1>2. /\ reqs = <<>> /\ ~sub /\ node.uplink = 0
      /\ link = "none" /\ work = "idle"
      /\ \A k \in Syncs : ~Due(k) /\ resp[k] = "open"
  BY DEF Init, ClearedNode, Due
<1>3. AnswersOnce /\ QueueOnce /\ Counted /\ Spent
  BY <1>2, AskedNone, FinalWritesLast DEF AnswersOnce, QueueOnce, Counted, Spent, NoneDue
<1>4. QED
  BY <1>1, <1>3 DEF OnceInv, Once

LEMMA NextOnce ==
  ASSUME OnceInv, [Next]_vars
  PROVE  OnceInv'
<1>1. OwnInv' /\ Inv
  BY NextOwn DEF OnceInv, OwnInv
<1>2. CountedOnce' => CountedOnce
  BY EnvStays DEF OnceInv, CountedOnce, Without
<1>3. ASSUME CountedOnce, ~Doomed, Next PROVE Once'
  <2>1. CASE DiscoveryStep /\ ~ExchangeWithoutContext
    BY <1>1, <1>3, <2>1, DiscoverySplit, EarlyStepOnce, StartsOnce
  <2>2. CASE \/ LinkLost \/ ReadError \/ PayloadTooLate \/ Astray \/ SubscriptionEnds
             \/ ExchangeWithoutContext
    <3>1. FALSE \in BOOLEAN
      OBVIOUS
    <3>2. QED
      BY <1>3, <2>2, <3>1, QuietOnce
  <2>3. CASE \E err \in BOOLEAN : Subscribed(err)
    BY <1>3, <2>3, QuietOnce
  <2>4. CASE DeviceFound \/ ConnectFails \/ Connected \/ SyncStart \/ Disconnected
    BY <1>3, <2>4, ScanOnce, ConnectedOnce, SyncStartOnce, DisconnectedOnce
  <2>5. CASE DeviceStep \/ Written
    BY <1>3, <2>5, DeviceOnce, WrittenOnce
  <2>6. CASE CloudStep
    <3>1. PICK k \in Syncs :
            \/ \E ok \in BOOLEAN : UplinkEnds(k, ok)
            \/ EndCb(k) \/ \E last \in BOOLEAN : BlockCb(k, last)
      BY <2>6 DEF CloudStep
    <3>2. CASE \E ok \in BOOLEAN : UplinkEnds(k, ok)
      BY <1>3, <3>2, UplinkEndsOnce
    <3>3. CASE EndCb(k) \/ \E last \in BOOLEAN : BlockCb(k, last)
      BY <1>3, <3>3, ResponseOnce
    <3>4. QED
      BY <3>1, <3>2, <3>3
  <2>7. QED
    BY <1>3, <2>1, <2>2, <2>3, <2>4, <2>5, <2>6 DEF Next, ConnectionStep, AnswerStep
<1>4. ASSUME CountedOnce, UNCHANGED vars PROVE Once'
  <2>1. UNCHANGED <<app, env, begun, link, work, counter, sync, node, reqs, sub, up, resp, down, pack>>
    BY <1>4 DEF vars, fixed, appVars, syncVars, hostVars, heapVars
  <2>2. CASE ~Doomed
    BY <1>4, <2>1, <2>2, StillOnce
  <2>3. CASE Doomed
    <3>1. Doomed'
      BY <2>1, <2>3 DEF Doomed, NoneDue, Due, Live
    <3>2. AnswersOnce' /\ Counted'
      BY <1>4, <2>1 DEF OnceInv, Once, AnswersOnce, Ends, Due, Counted
    <3>3. QED
      BY <3>1, <3>2 DEF Once
  <2>4. QED
    BY <2>2, <2>3
<1>5. Once'
  BY <1>2, <1>3, <1>4, DoomedOnce DEF Once
<1>6. QED
  BY <1>1, <1>5 DEF OnceInv

LEMMA OnceAlways == Spec => []OnceInv
<1>1. Init => OnceInv
  BY InitOnce
<1>2. OnceInv /\ [Next]_vars => OnceInv'
  BY NextOnce
<1>3. QED
  BY <1>1, <1>2, PTL DEF Spec

\* custom_connect disconnects when it has synchronised twice: no path finishes a
\* sync twice, where the link and the memory hold and no error of the cloud meets
\* a fast answer.  A write that is queued behind the last one of a sync would, but
\* its answer is a use of freed memory.
THEOREM TwoSyncsAlways == Spec => []TwoSyncs
<1>1. OnceInv => TwoSyncs
  BY DEF OnceInv, Once, Counted, TwoSyncs
<1>2. QED
  BY <1>1, OnceAlways, PTL

\* No sync starts on a connection that is gone: in those environments the work
\* that starts the second one is never left over for the next connection.
THEOREM AlwaysStartsOnLiveLink == Spec => StartsOnLiveLink
<1> DEFINE Live1 == CountedOnce /\ sync' # sync => link \in {"up", "creating"}
<1>1. OnceInv /\ [Next]_vars => [Live1]_vars
  <2>1. SUFFICES ASSUME OnceInv, Next, CountedOnce, sync' # sync
                 PROVE  link \in {"up", "creating"}
    OBVIOUS
  <2>2. \/ LateStep \/ EarlyStep \/ Starts
        \/ DeviceFound \/ ConnectFails \/ Connected \/ SyncStart \/ Disconnected
    BY <2>1, LateSplit DEF OnceInv
  <2>3. Starts => sync' = sync
    BY DEF Starts, Start
  <2>4. Connected \/ SyncStart
    BY <2>1, <2>2, <2>3 DEF LateStep, EarlyStep, DeviceFound, ConnectFails, Disconnected,
       syncVars
  <2>5. QED
    BY <2>1, <2>4, SyncStartOnce, DoomedOnce DEF Connected
<1>2. QED
  BY <1>1, OnceAlways, PTL DEF Spec, StartsOnLiveLink

\* Whose answers the SDK still has to give, where it is done in time
LEMMA OwedOwn ==
  ASSUME OnceInv, InTime
  PROVE  /\ \A k \in Syncs : Owed(k) => k = sync
         /\ link = "creating" \/ work = "now" => NoneOwed
<1>1. CASE "slow" \notin env
  BY <1>1 DEF OnceInv, OwnInv, Awaited
<1>2. CASE "slow" \in env
  <2>1. CountedOnce /\ Ends = {"gone"}
    BY <1>2 DEF InTime, Without, CountedOnce, Ends
  <2>2. /\ \A k \in Syncs : (resp[k] # "open" => up[k] = "gone") /\ (Due(k) => k = sync)
        /\ work # "idle" \/ link # "up" => NoneDue
    BY <2>1 DEF OnceInv, Once, AnswersOnce, Spent, Doomed
  <2>3. \A k \in Syncs : Owed(k) => Due(k)
    BY <2>2 DEF Owed, Due
  <2>4. QED
    BY <2>2, <2>3 DEF NoneDue, NoneOwed
<1>3. QED
  BY <1>1, <1>2

\* What the SDK still owes it owes to the sync that has the node: it is awaited
\* before the next sync, or the downlink of the sync comes after all it owes.
THEOREM OwnNodeAlways == Spec => []OwnNode
<1>1. OnceInv => OwnNode
  BY OwedOwn DEF OwnNode
<1>2. QED
  BY <1>1, OnceAlways, PTL

-----------------------------------------------------------------------------
(* What is queued at the host is what the parameters are for               *)

\* Where no request and no allocation fails, and the device and the cloud keep
\* their order
InOrder == Without({"gatt", "cloud", "malloc", "fast"}) /\ InTime

\* What the host is at, by what is queued: the discovery, the certificates,
\* the uplink by reads or by indications, its end, and the downlink
Exploring ==
  /\ \E op \in Early : reqs = <<op>> /\ node.params = ParamsOf(op)
  /\ ~sub /\ node.uplink = 0 /\ Fresh(sync)

Reading ==
  /\ reqs = <<"read">> /\ node.params = "read"
  /\ ~sub /\ node.uplink = sync /\ sync # 0

Subscribing ==
  /\ reqs \in {<<>>, <<"subscribe">>} /\ node.params = "subscribe"
  /\ sub /\ node.uplink = sync /\ sync # 0

Leaving ==
  /\ reqs \in {<<"unsubscribe">>, <<"subscribe", "unsubscribe">>} /\ node.params = "subscribe"
  /\ ~sub /\ node.uplink = 0

Writing ==
  /\ reqs = <<"write">> /\ node.params = "write"
  /\ ~sub /\ node.ctx = sync /\ down[sync] = "writing" /\ up[sync] = "gone"

Phase == Resting \/ Exploring \/ Reading \/ Subscribing \/ Leaving \/ Writing

\* The next sync is scheduled when the last one is over.
Settled == work # "idle" => Resting /\ (link = "up" => NoneOwed)

Phases == InOrder => Phase /\ Settled

PhaseInv == OnceInv /\ Phases

LEMMA AppendTwo ==
  ASSUME NEW a, NEW b
  PROVE  Append(<<a>>, b) = <<a, b>>
<1> DEFINE s == Append(<<a>>, b)
           t == <<a, b>>
<1>1. s \in Seq({a, b}) /\ t \in Seq({a, b}) /\ Len(s) = 2 /\ Len(t) = 2
  OBVIOUS
<1>2. s[1] = a /\ s[2] = b /\ t[1] = a /\ t[2] = b
  OBVIOUS
<1> HIDE DEF s, t
<1>3. \A i \in 1 .. Len(s) : s[i] = t[i]
  BY <1>1, <1>2
<1>4. s = t
  BY <1>1, <1>3, SeqEqual
<1>5. QED
  BY <1>4 DEF s, t

\* The queues of the phases
LEMMA Queues ==
  /\ \A op : /\ Append(<<>>, op) = <<op>> /\ Tail(<<op>>) = <<>>
             /\ Head(<<op>>) = op /\ <<op>> # <<>>
  /\ Append(<<"subscribe">>, "unsubscribe") = <<"subscribe", "unsubscribe">>
  /\ Head(<<"subscribe", "unsubscribe">>) = "subscribe"
  /\ Tail(<<"subscribe", "unsubscribe">>) = <<"unsubscribe">>
  /\ <<"subscribe", "unsubscribe">> # <<>>
  /\ \E i \in DOMAIN <<"unsubscribe">> : <<"unsubscribe">>[i] = "unsubscribe"
  /\ \E i \in DOMAIN <<"subscribe", "unsubscribe">> :
       <<"subscribe", "unsubscribe">>[i] = "unsubscribe"
<1>1. ASSUME NEW op
      PROVE  /\ Append(<<>>, op) = <<op>> /\ Tail(<<op>>) = <<>>
             /\ Head(<<op>>) = op /\ <<op>> # <<>>
  <2>1. Append(<<>>, op) = <<op>>
    OBVIOUS
  <2>2. Tail(<<op>>) = <<>>
    OBVIOUS
  <2>3. Head(<<op>>) = op /\ <<op>> # <<>>
    OBVIOUS
  <2>4. QED
    BY <2>1, <2>2, <2>3
<1>2. /\ Append(<<"subscribe">>, "unsubscribe") = <<"subscribe", "unsubscribe">>
      /\ Head(<<"subscribe", "unsubscribe">>) = "subscribe"
      /\ Tail(<<"subscribe", "unsubscribe">>) = <<"unsubscribe">>
      /\ <<"subscribe", "unsubscribe">> # <<>>
  <2>1. Append(<<"subscribe">>, "unsubscribe") = <<"subscribe", "unsubscribe">>
    BY AppendTwo
  <2>2. Tail(<<"subscribe", "unsubscribe">>) = <<"unsubscribe">>
    OBVIOUS
  <2>3. Head(<<"subscribe", "unsubscribe">>) = "subscribe" /\ <<"subscribe", "unsubscribe">> # <<>>
    OBVIOUS
  <2>4. QED
    BY <2>1, <2>2, <2>3
<1>3. 1 \in DOMAIN <<"unsubscribe">> /\ <<"unsubscribe">>[1] = "unsubscribe"
  OBVIOUS
<1>4. /\ 2 \in DOMAIN <<"subscribe", "unsubscribe">>
      /\ <<"subscribe", "unsubscribe">>[2] = "unsubscribe"
  OBVIOUS
<1>5. QED
  BY <1>1, <1>2, <1>3, <1>4

\* The phase is known by the oldest request.
LEMMA PhaseHead ==
  ASSUME Phase, reqs # <<>>
  PROVE  /\ Head(reqs) \in Early => Exploring /\ Tail(reqs) = <<>>
         /\ Head(reqs) = "read" => Reading /\ Tail(reqs) = <<>>
         /\ Head(reqs) = "subscribe" =>
              \/ Subscribing /\ Tail(reqs) = <<>>
              \/ Leaving /\ Tail(reqs) = <<"unsubscribe">>
         /\ Head(reqs) = "unsubscribe" => Leaving /\ Tail(reqs) = <<>>
         /\ Head(reqs) = "write" => Writing /\ Tail(reqs) = <<>>
         /\ node.params = ParamsOf(Head(reqs))
<1>1. {"read", "subscribe", "unsubscribe", "write"} \intersect Early = {}
  BY DEF Early, Discovery
<1>2. /\ ParamsOf("read") = "read" /\ ParamsOf("write") = "write"
      /\ ParamsOf("subscribe") = "subscribe" /\ ParamsOf("unsubscribe") = "subscribe"
  BY DEF ParamsOf, Discovery
<1>3. CASE Exploring
  <2>1. PICK op \in Early : reqs = <<op>> /\ node.params = ParamsOf(op)
    BY <1>3 DEF Exploring
  <2>2. Head(reqs) = op /\ Tail(reqs) = <<>>
    BY <2>1, Queues
  <2>3. QED
    BY <1>1, <1>3, <2>1, <2>2
<1>4. CASE Reading
  <2>1. Head(reqs) = "read" /\ Tail(reqs) = <<>>
    BY <1>4, Queues DEF Reading
  <2>2. QED
    BY <1>1, <1>2, <1>4, <2>1 DEF Reading
<1>5. CASE Subscribing
  <2>1. Head(reqs) = "subscribe" /\ Tail(reqs) = <<>>
    BY <1>5, Queues DEF Subscribing
  <2>2. QED
    BY <1>1, <1>2, <1>5, <2>1 DEF Subscribing
<1>6. CASE Leaving
  <2>1. \/ Head(reqs) = "unsubscribe" /\ Tail(reqs) = <<>>
        \/ Head(reqs) = "subscribe" /\ Tail(reqs) = <<"unsubscribe">>
    BY <1>6, Queues DEF Leaving
  <2>2. QED
    BY <1>1, <1>2, <1>6, <2>1 DEF Leaving
<1>7. CASE Writing
  <2>1. Head(reqs) = "write" /\ Tail(reqs) = <<>>
    BY <1>7, Queues DEF Writing
  <2>2. QED
    BY <1>1, <1>2, <1>7, <2>1 DEF Writing
<1>8. QED
  BY <1>3, <1>4, <1>5, <1>6, <1>7 DEF Phase, Resting

\* What the environment rules out
LEMMA OrderEnv ==
  ASSUME InOrder
  PROVE  /\ "gatt" \notin env /\ "cloud" \notin env /\ "fast" \notin env
         /\ "malloc" \notin env /\ ~ExchangeWithoutContext
         /\ Error => link = "closing"
         /\ InTime
BY DEF InOrder, Without, Error, ExchangeWithoutContext

\* The answer of the cloud comes to the sync that has the node, in peace.
LEMMA ResponseOrder ==
  ASSUME PhaseInv, InOrder, NEW k \in Syncs, Responds(k)
  PROVE  /\ k = sync /\ up[sync] = "gone" /\ node.uplink = 0
         /\ Resting \/ Writing
         /\ link = "up" => work = "idle"
<1>1. /\ resp[k] = "open" /\ up[k] = "gone"
      /\ \A i \in DOMAIN reqs : reqs[i] # "unsubscribe"
  BY OrderEnv DEF Responds
<1>2. Owed(k) /\ k = sync
  BY <1>1, OwedOwn, OrderEnv DEF PhaseInv, Owed
<1>3. node.uplink = 0 /\ sync # 0
  BY <1>1, <1>2 DEF PhaseInv, OnceInv, OwnInv, OfLatest, Syncs
<1>4. ~Leaving
  BY <1>1, Queues DEF Leaving
<1>5. ~Exploring
  BY <1>1, <1>2 DEF Exploring, Fresh
<1>6. ~Reading /\ ~Subscribing
  BY <1>3 DEF Reading, Subscribing
<1>7. Resting \/ Writing
  BY <1>4, <1>5, <1>6 DEF PhaseInv, Phases, Phase
<1>8. link = "up" => work = "idle"
  BY <1>2 DEF PhaseInv, Phases, Settled, NoneOwed
<1>9. QED
  BY <1>1, <1>2, <1>3, <1>7, <1>8

\* The late actions keep the rest that there is.
LEMMA SettledKept ==
  ASSUME PhaseInv, InOrder, LateStep, LateMore,
         work' # "idle" => work # "idle" \/ (Resting' /\ (link' = "up" => NoneOwed'))
  PROVE  Settled'
<1>1. /\ link' = link \/ (link = "up" /\ link' = "closing")
      /\ sub' => sub
      /\ link # "up" /\ Resting => reqs' = <<>>
      /\ Settled
  BY DEF LateStep, AppStep, HostStep, Resting, PhaseInv, Phases
<1>2. CASE work = "idle"
  BY <1>2 DEF Settled
<1>3. CASE work # "idle" /\ link = "up"
  <2>1. Resting /\ NoneOwed
    BY <1>1, <1>3 DEF Settled
  <2>2. NoneOwed' /\ Resting'
    BY <1>1, <2>1 DEF LateMore, Fed, Resting, NoneOwed
  <2>3. QED
    BY <2>2 DEF Settled
<1>4. CASE work # "idle" /\ link # "up"
  BY <1>1, <1>4 DEF Settled, Resting
<1>5. QED
  BY <1>2, <1>3, <1>4

\* The scanner finds a device, or no connection comes about.
LEMMA ScanPhase ==
  ASSUME PhaseInv, InOrder, DeviceFound \/ ConnectFails
  PROVE  Phase' /\ Settled'
<1>1. /\ UNCHANGED <<work, reqs, sub>>
      /\ link' \in {"none", "creating"} /\ Resting
  BY DEF PhaseInv, OnceInv, OwnInv, OfLatest, Inv, ScanOrConnection, DeviceFound,
     ConnectFails,
     hostVars
<1>2. QED
  BY <1>1 DEF Phase, Settled, Resting

\* A sync begins with its first request, if it can make one.
LEMMA BeginPhase ==
  ASSUME PhaseInv, Resting, sync < MaxSyncs, sync' = sync + 1, node' = ClearedNode,
         UNCHANGED <<sub, up, down, pack>>,
         \/ reqs' = Append(reqs, "service16") /\ work' = "idle"
         \/ reqs' = reqs /\ link' # "up"
  PROVE  Phase' /\ Settled'
<1>1. Fresh(sync)' /\ ~sub'
  BY BeginFresh DEF PhaseInv, OnceInv, Resting
<1>2. CASE reqs' = Append(reqs, "service16") /\ work' = "idle"
  <2>1. reqs' = <<"service16">>
    BY <1>2, Queues DEF Resting
  <2>2. /\ "service16" \in Early
        /\ node'.params = ParamsOf("service16") /\ node'.uplink = 0
    BY DEF Early, Discovery, ParamsOf, ClearedNode
  <2>3. Exploring'
    BY <1>1, <2>1, <2>2 DEF Exploring
  <2>4. QED
    BY <1>2, <2>3 DEF Phase, Settled
<1>3. CASE reqs' = reqs /\ link' # "up"
  BY <1>1, <1>3 DEF Phase, Settled, Resting
<1>4. QED
  BY <1>2, <1>3

LEMMA ConnectedPhase ==
  ASSUME PhaseInv, InOrder, Connected
  PROVE  Phase' /\ Settled'
<1>1. /\ UNCHANGED <<sub, up, down, resp, pack>>
      /\ link = "creating" /\ "gatt" \notin env
      /\ Resting /\ NoneOwed /\ OneSync
  BY OrderEnv, OwedOwn DEF PhaseInv, OnceInv, OwnInv, OfLatest, Inv, Connected, heapVars
<1>2. CASE app = "gateway"
  <2>1. BtStart("up", work) /\ work = "idle" /\ sync < MaxSyncs
    BY <1>1, <1>2 DEF Connected, OneSync
  <2>2. /\ sync' = sync + 1 /\ node' = ClearedNode /\ reqs' = Append(reqs, "service16")
        /\ work' = "idle"
    BY <1>1, <2>1 DEF BtStart, Request, Unfinished
  <2>3. QED
    BY <1>1, <2>1, <2>2, BeginPhase
<1>3. CASE app # "gateway"
  <2>1. UNCHANGED reqs
    BY <1>1, <1>3 DEF Connected
  <2>2. Resting' /\ NoneOwed'
    BY <1>1, <2>1 DEF Resting, NoneOwed, Owed
  <2>3. QED
    BY <2>2 DEF Phase, Settled
<1>4. QED
  BY <1>2, <1>3

LEMMA SyncStartPhase ==
  ASSUME PhaseInv, InOrder, SyncStart
  PROVE  Phase' /\ Settled'
<1>1. /\ UNCHANGED <<sub, up, down, pack>>
      /\ sync < MaxSyncs /\ work # "idle" /\ BtStart(link, "idle")
      /\ "gatt" \notin env /\ Resting
  BY OrderEnv DEF PhaseInv, Phases, Settled, SyncStart, heapVars
<1>2. sync' = sync + 1 /\ node' = ClearedNode /\ Request(link, "idle", reqs, "service16")
  BY <1>1 DEF BtStart
<1>3. \/ reqs' = Append(reqs, "service16") /\ work' = "idle"
      \/ reqs' = reqs /\ link' # "up"
  BY <1>1, <1>2 DEF Request, Finished, Unfinished
<1>4. QED
  BY <1>1, <1>2, <1>3, BeginPhase

LEMMA DisconnectedPhase ==
  ASSUME Disconnected
  PROVE  Phase' /\ Settled'
BY DEF Disconnected, Phase, Settled, Resting, hostVars

LEMMA EarlyPhase ==
  ASSUME PhaseInv, InOrder, EarlyStep
  PROVE  Phase' /\ Settled'
<1>1. /\ reqs # <<>> /\ Head(reqs) \in Early
      /\ UNCHANGED <<env, sync, sub, up, down, resp, pack>>
      /\ node'.uplink = node.uplink
      /\ \/ \E op \in Early :
              /\ UNCHANGED appVars /\ reqs' = Append(Tail(reqs), op)
              /\ node.params = ParamsOf(Head(reqs)) => node'.params = ParamsOf(op)
         \/ /\ reqs' = Tail(reqs)
            /\ Finished(link, work) \/ UNCHANGED appVars
  BY DEF EarlyStep
<1>2. Exploring /\ Tail(reqs) = <<>> /\ node.params = ParamsOf(Head(reqs))
  BY <1>1, PhaseHead DEF PhaseInv, Phases
<1>3. ~sub /\ node.uplink = 0 /\ Fresh(sync)
  BY <1>2 DEF Exploring
<1>4. NoneOwed'
  <2>1. \A k \in Syncs : Owed(k) => k = sync
    BY OwedOwn, OrderEnv DEF PhaseInv
  <2>2. ~Owed(sync)
    BY <1>3 DEF Owed, Fresh
  <2>3. QED
    BY <1>1, <2>1, <2>2 DEF NoneOwed, Owed
<1>5. work = "idle"
  BY <1>1 DEF PhaseInv, Phases, Settled, Resting
<1>6. CASE \E op \in Early :
             /\ UNCHANGED appVars /\ reqs' = Append(Tail(reqs), op)
             /\ node.params = ParamsOf(Head(reqs)) => node'.params = ParamsOf(op)
  <2>1. PICK op \in Early : /\ UNCHANGED appVars /\ reqs' = Append(<<>>, op)
                            /\ node'.params = ParamsOf(op)
    BY <1>2, <1>6
  <2>2. reqs' = <<op>>
    BY <2>1, Queues
  <2>3. Exploring'
    BY <1>1, <1>3, <2>1, <2>2 DEF Exploring, Fresh
  <2>4. QED
    BY <1>5, <2>1, <2>3 DEF Phase, Settled, appVars
<1>7. CASE reqs' = Tail(reqs)
  BY <1>1, <1>2, <1>3, <1>4, <1>7 DEF Phase, Settled, Resting
<1>8. QED
  BY <1>1, <1>6, <1>7

LEMMA StartsPhase ==
  ASSUME PhaseInv, InOrder, Starts
  PROVE  Phase' /\ Settled'
<1>1. PICK d \in {"noscratch", "nocontext", "opened"}, opened \in BOOLEAN,
           source \in {"read", "subscribe"} : Start(d, opened, source)
  BY DEF Starts
<1>2. Exploring /\ Tail(reqs) = <<>> /\ reqs # <<>>
  BY PhaseHead DEF Starts, PhaseInv, Phases
<1>3. ~sub /\ node.uplink = 0 /\ Fresh(sync)
  BY <1>2 DEF Exploring
<1>4. /\ UNCHANGED <<sync, resp>>
      /\ node'.uplink = IF opened THEN sync ELSE 0
      /\ opened => node'.params = source
      /\ up' = IF opened THEN [up EXCEPT ![sync] = "open"] ELSE up
      /\ \/ /\ opened /\ UNCHANGED appVars
            /\ reqs' = Append(Tail(reqs), source)
            /\ sub' = (sub \/ source = "subscribe")
         \/ reqs' = Tail(reqs) /\ sub' = sub
  BY <1>1 DEF Start
<1>5. /\ sync \in Syncs /\ sync # 0
      /\ up \in [Syncs -> {"none", "open", "fed", "closed", "stuck", "gone"}]
  BY EarlyAlone DEF Starts, PhaseInv, OnceInv, OwnInv, Inv, TypeOK, Syncs
<1>6. NoneOwed'
  <2>1. \A k \in Syncs : Owed(k) => k = sync
    BY OwedOwn, OrderEnv DEF PhaseInv
  <2>2. up'[sync] \in {"none", "open"} /\ \A k \in Syncs : k # sync => up'[k] = up[k]
    BY <1>3, <1>4, <1>5 DEF Fresh
  <2>3. QED
    BY <1>4, <2>1, <2>2 DEF NoneOwed, Owed
<1>7. work = "idle"
  BY <1>2 DEF PhaseInv, Phases, Settled, Resting
<1>8. CASE /\ opened /\ UNCHANGED appVars
           /\ reqs' = Append(Tail(reqs), source)
           /\ sub' = (sub \/ source = "subscribe")
  <2>1. reqs' = <<source>>
    BY <1>2, <1>8, Queues
  <2>2. node'.params = source /\ node'.uplink = sync' /\ sync' # 0
    BY <1>4, <1>5, <1>8
  <2>3. Reading' \/ Subscribing'
    BY <1>3, <1>8, <2>1, <2>2 DEF Reading, Subscribing
  <2>4. QED
    BY <1>7, <1>8, <2>3 DEF Phase, Settled, appVars
<1>9. CASE reqs' = Tail(reqs) /\ sub' = sub
  BY <1>2, <1>3, <1>6, <1>9 DEF Phase, Settled, Resting
<1>10. QED
  BY <1>4, <1>8, <1>9

LEMMA QuietPhase ==
  ASSUME PhaseInv, InOrder, LinkLost \/ ReadError \/ PayloadTooLate \/ Astray
  PROVE  Phase' /\ Settled'
<1>1. /\ UNCHANGED <<work, node, sub, sync, up, down, pack>>
      /\ \/ reqs' = reqs
         \/ reqs # <<>> /\ Head(reqs) = "read" /\ reqs' = Tail(reqs)
  BY DEF LinkLost, ReadError, PayloadTooLate, Astray, Fail, Answered, appVars, syncVars,
     hostVars,
         heapVars
<1>2. Settled'
  <2>1. FALSE \in BOOLEAN
    OBVIOUS
  <2>2. LateMore /\ LateStep
    BY <2>1, QuietLate, UplinkAnswersMore DEF PhaseInv, OnceInv, OwnInv, Inv
  <2>3. QED
    BY <1>1, <2>2, SettledKept
<1>3. CASE reqs' = reqs
  <2>1. (Fresh(sync)' <=> Fresh(sync)) /\ Phase
    BY <1>1 DEF Fresh, PhaseInv, Phases
  <2>2. Phase'
    BY <1>1, <1>3, <2>1
       DEF Phase, Resting, Exploring, Reading, Subscribing, Leaving, Writing
  <2>3. QED
    BY <1>2, <2>2
<1>4. CASE reqs # <<>> /\ Head(reqs) = "read" /\ reqs' = Tail(reqs)
  <2>1. Reading /\ Tail(reqs) = <<>>
    BY <1>4, PhaseHead DEF PhaseInv, Phases
  <2>2. Resting'
    BY <1>1, <1>4, <2>1 DEF Reading, Resting
  <2>3. QED
    BY <1>2, <2>2 DEF Phase
<1>5. QED
  BY <1>1, <1>3, <1>4

\* The answer to the subscription
LEMMA SubscribedPhase ==
  ASSUME PhaseInv, InOrder, NEW err \in BOOLEAN, Subscribed(err)
  PROVE  Phase' /\ Settled'
<1>1. /\ reqs # <<>> /\ Head(reqs) = "subscribe" /\ reqs' = Tail(reqs)
      /\ UNCHANGED <<sync, down>>
      /\ \/ Error /\ sub' = FALSE /\ (~sub => UNCHANGED <<up, node, appVars>>)
         \/ UNCHANGED <<sub, up, node, appVars>>
  BY DEF Subscribed, Answered, syncVars
<1>2. LateStep /\ LateMore
  BY SubscribedLate, UplinkAnswersMore DEF PhaseInv, OnceInv, OwnInv, Inv
<1>3. \/ Subscribing /\ Tail(reqs) = <<>>
      \/ Leaving /\ Tail(reqs) = <<"unsubscribe">>
  BY <1>1, PhaseHead DEF PhaseInv, Phases
<1>4. CASE Subscribing /\ Tail(reqs) = <<>> /\ Error /\ sub' = FALSE
  <2>1. Resting' /\ link' # "up"
    <3>1. link = "closing"
      BY <1>4, OrderEnv
    <3>2. QED
      BY <1>1, <1>2, <1>4, <3>1 DEF Resting, LateStep, AppStep
  <2>2. QED
    BY <2>1 DEF Phase, Settled
<1>5. CASE Subscribing /\ Tail(reqs) = <<>> /\ UNCHANGED <<sub, up, node, appVars>>
  <2>1. Subscribing'
    BY <1>1, <1>5 DEF Subscribing
  <2>2. Settled'
    BY <1>2, <1>5, SettledKept DEF appVars
  <2>3. QED
    BY <2>1, <2>2 DEF Phase
<1>6. CASE Leaving /\ Tail(reqs) = <<"unsubscribe">>
  <2>1. UNCHANGED <<up, node, appVars>> /\ ~sub'
    BY <1>1, <1>6 DEF Leaving
  <2>2. Leaving'
    BY <1>1, <1>6, <2>1 DEF Leaving
  <2>3. Settled'
    BY <1>2, <2>1, SettledKept DEF appVars
  <2>4. QED
    BY <2>2, <2>3 DEF Phase
<1>7. QED
  BY <1>1, <1>3, <1>4, <1>5, <1>6

\* The end of the subscription
LEMMA EndedPhase ==
  ASSUME PhaseInv, InOrder, SubscriptionEnds
  PROVE  Phase' /\ Settled'
<1>1. LateStep /\ LateMore
  <2>1. FALSE \in BOOLEAN
    OBVIOUS
  <2>2. QED
    BY <2>1, EndedLate, UplinkAnswersMore DEF PhaseInv, OnceInv, OwnInv, Inv
<1>2. CASE /\ Answered("unsubscribe") /\ reqs' = Tail(reqs) /\ UNCHANGED sub
           /\ SubscriptionTerminated \/ UNCHANGED <<up, node, appVars>>
  <2>1. Leaving /\ Tail(reqs) = <<>>
    BY <1>2, PhaseHead DEF Answered, PhaseInv, Phases
  <2>2. Resting' /\ work' = work
    BY <1>2, <2>1 DEF Leaving, Resting, SubscriptionTerminated, appVars
  <2>3. Settled'
    BY <1>1, <2>2, SettledKept
  <2>4. QED
    BY <2>2, <2>3 DEF Phase
<1>3. CASE link = "closing" /\ reqs = <<>> /\ sub' = FALSE /\ UNCHANGED reqs
  <2>1. Resting' /\ link' # "up"
    BY <1>1, <1>3 DEF Resting, LateStep, AppStep
  <2>2. QED
    BY <2>1 DEF Phase, Settled
<1>4. QED
  BY <1>2, <1>3 DEF SubscriptionEnds

\* The packets of the device
LEMMA DevicePhase ==
  ASSUME PhaseInv, InOrder, DeviceStep
  PROVE  Phase' /\ Settled'
<1>1. PICK packet \in {"more", "last"} : Indicated(packet) \/ ReadBack(packet)
  BY OrderEnv DEF DeviceStep, Packets
<1>2. node \in NodeType /\ UNCHANGED <<sync, down>>
  BY <1>1 DEF PhaseInv, OnceInv, OwnInv, Inv, TypeOK, Indicated, ReadBack, syncVars
<1>3. /\ packet = "more" => node' = node
      /\ packet = "last" => node' = [node EXCEPT !.uplink = 0]
      /\ UNCHANGED appVars
  BY <1>1 DEF Indicated, ReadBack, Payload
<1>4. node'.params = node.params /\ (packet = "last" => node'.uplink = 0)
  BY <1>1, <1>2, <1>3 DEF NodeType
<1>5. Settled'
  <2>1. packet \in Packets
    BY <1>1 DEF Packets
  <2>2. LateStep /\ LateMore
    BY <1>1, <2>1, IndicatedLate, ReadBackLate, DeviceMore DEF PhaseInv, OnceInv, OwnInv,
       Inv
  <2>3. QED
    BY <1>3, <2>2, SettledKept DEF appVars
<1>6. CASE Indicated(packet)
  <2>1. Subscribing
    BY <1>6 DEF Indicated, PhaseInv, Phases, Phase, Resting, Exploring, Reading, Leaving,
       Writing
  <2>2. CASE packet = "more"
    <3>1. Subscribing'
      BY <1>2, <1>3, <1>6, <2>1, <2>2 DEF Indicated, Subscribing, hostVars
    <3>2. QED
      BY <1>5, <3>1 DEF Phase
  <2>3. CASE packet = "last"
    <3>1. sub' = FALSE /\ reqs' = Append(reqs, "unsubscribe")
      BY <1>6, <2>3 DEF Indicated
    <3>2. reqs' \in {<<"unsubscribe">>, <<"subscribe", "unsubscribe">>}
      BY <2>1, <3>1, Queues DEF Subscribing
    <3>3. Leaving'
      BY <1>4, <2>1, <2>3, <3>1, <3>2 DEF Leaving, Subscribing
    <3>4. QED
      BY <1>5, <3>3 DEF Phase
  <2>4. QED
    BY <1>1, <2>2, <2>3
<1>7. CASE ReadBack(packet)
  <2>1. Reading /\ Tail(reqs) = <<>> /\ UNCHANGED sub
    BY <1>7, PhaseHead DEF ReadBack, Answered, PhaseInv, Phases
  <2>2. CASE reqs' = Tail(reqs)
    <3>1. Resting'
      BY <2>1, <2>2 DEF Reading, Resting
    <3>2. QED
      BY <1>5, <3>1 DEF Phase
  <2>3. CASE packet = "more" /\ UNCHANGED reqs
    <3>1. Reading'
      BY <1>2, <1>3, <2>1, <2>3 DEF Reading
    <3>2. QED
      BY <1>5, <3>1 DEF Phase
  <2>4. QED
    BY <1>7, <2>2, <2>3 DEF ReadBack
<1>8. QED
  BY <1>1, <1>6, <1>7

\* The cloud ends the uplink of the sync that has the node, when the node has
\* forgotten it.
LEMMA UplinkEndsPhase ==
  ASSUME PhaseInv, InOrder, NEW k \in Syncs, NEW ok \in BOOLEAN, UplinkEnds(k, ok)
  PROVE  Phase' /\ Settled' /\ k = sync
<1>1. /\ ok /\ up[k] = "closed"
      /\ node' = [node EXCEPT !.uplink = 0]
      /\ UNCHANGED <<sync, appVars>>
      /\ node \in NodeType
  BY OrderEnv DEF UplinkEnds, PhaseInv, OnceInv, OwnInv, Inv, TypeOK, syncVars
<1>2. k = sync
  BY <1>1, OwedOwn, OrderEnv DEF PhaseInv, Owed
<1>3. node.uplink = 0
  BY <1>1, <1>2 DEF PhaseInv, OnceInv, OwnInv, OfLatest
<1>4. Resting \/ Leaving
  BY <1>1, <1>2, <1>3
     DEF PhaseInv, Phases, Phase, Exploring, Reading, Subscribing, Writing, Fresh
<1>5. UNCHANGED <<reqs, sub>>
  BY <1>4 DEF UplinkEnds, Resting, Leaving, hostVars
<1>6. node'.uplink = 0 /\ node'.params = node.params
  BY <1>1 DEF NodeType
<1>7. Phase'
  BY <1>4, <1>5, <1>6 DEF Phase, Resting, Leaving
<1>8. Settled'
  <2>1. LateStep /\ LateMore
    BY UplinkEndsLate, UplinkEndsMore DEF PhaseInv, OnceInv, OwnInv, Inv
  <2>2. QED
    BY <1>1, <2>1, SettledKept DEF appVars
<1>9. QED
  BY <1>2, <1>7, <1>8

\* write_downlink_characteristic, with nothing queued
LEMMA WritePhase ==
  ASSUME PhaseInv, InOrder, Write(<<>>), ~sub, up[sync] = "gone", UNCHANGED <<sync, sub, up>>
  PROVE  \/ UNCHANGED appVars /\ Writing'
         \/ Resting' /\ link' # "up"
         \/ UNCHANGED <<node, reqs, appVars, down, pack>>
<1>1. /\ node \in NodeType /\ node.ctx \in {0, sync} /\ "gatt" \notin env
      /\ down \in [Syncs -> {"none", "null", "waiting", "writing", "aborted", "gone"}]
      /\ sync \in 0 .. MaxSyncs
  BY OrderEnv DEF PhaseInv, OnceInv, OwnInv, Inv, TypeOK, OfLatest
<1>2. CASE link # "up" /\ Abandon(<<>>, {"aborted"})
  <2>1. \/ reqs' = <<>> /\ Finished(link, work)
        \/ UNCHANGED <<node, reqs, appVars, down, pack>>
    BY <1>2 DEF Abandon
  <2>2. Finished(link, work) => link' # "up"
    BY <1>2 DEF Finished
  <2>3. QED
    BY <2>1, <2>2 DEF Resting
<1>3. CASE UNCHANGED <<node, reqs, appVars, down, pack>>
  BY <1>3
<1>4. CASE /\ Live(node.ctx)
           /\ node' = [node EXCEPT !.params = "write"]
           /\ down' = [down EXCEPT ![node.ctx] = "writing"]
           /\ reqs' = Append(<<>>, "write")
           /\ UNCHANGED appVars
  <2>1. node.ctx = sync /\ sync \in Syncs
    BY <1>1, <1>4, BoundAssumption DEF Live, Syncs
  <2>2. node'.params = "write" /\ node'.ctx = sync /\ down'[sync] = "writing"
    BY <1>1, <1>4, <2>1 DEF NodeType
  <2>3. reqs' = <<"write">>
    BY <1>4, Queues
  <2>4. QED
    BY <1>4, <2>2, <2>3 DEF Writing
<1>5. QED
  BY <1>1, <1>2, <1>3, <1>4 DEF Write

\* The cloud answers.
LEMMA ResponsePhase ==
  ASSUME PhaseInv, InOrder, NEW k \in Syncs, EndCb(k) \/ \E last \in BOOLEAN : BlockCb(k,
  last)
  PROVE  Phase' /\ Settled'
<1>1. PICK last \in BOOLEAN : BlockCb(k, last)
  BY OrderEnv DEF EndCb
<1>2. /\ UNCHANGED <<sync, sub, up>> /\ Responds(k)
      /\ \/ down[k] = "waiting" /\ Write(reqs)
         \/ /\ UNCHANGED <<node, reqs, appVars>>
            /\ down' = down \/ (down[k] = "aborted" /\ down' = [down EXCEPT ![k] = "gone"])
  BY <1>1 DEF BlockCb, syncVars
<1>3. /\ k = sync /\ up[sync] = "gone"
      /\ Resting \/ Writing
  BY <1>2, ResponseOrder
<1>4. LateStep /\ LateMore
  BY <1>1, ResponseLate, ResponseMore DEF PhaseInv, OnceInv, OwnInv, Inv
<1>5. CASE UNCHANGED <<node, reqs, appVars>> /\ (down' = down \/ down[k] = "aborted")
  <2>1. Resting' \/ Writing'
    BY <1>2, <1>3, <1>5 DEF Resting, Writing
  <2>2. Settled'
    BY <1>4, <1>5, SettledKept DEF appVars
  <2>3. QED
    BY <2>1, <2>2 DEF Phase
<1>6. CASE down[k] = "waiting" /\ Write(reqs)
  <2>1. Resting /\ reqs = <<>> /\ ~sub
    BY <1>3, <1>6 DEF Writing, Resting
  <2>2. \/ UNCHANGED appVars /\ Writing'
        \/ Resting' /\ link' # "up"
        \/ UNCHANGED <<node, reqs, appVars, down, pack>>
    BY <1>2, <1>3, <1>6, <2>1, WritePhase
  <2>3. CASE Resting' /\ link' # "up"
    BY <2>3 DEF Phase, Settled
  <2>4. CASE UNCHANGED appVars /\ Writing'
    BY <1>4, <2>4, SettledKept DEF Phase, appVars
  <2>5. CASE UNCHANGED <<node, reqs, appVars, down, pack>>
    BY <1>2, <1>5, <2>5
  <2>6. QED
    BY <2>2, <2>3, <2>4, <2>5
<1>7. QED
  BY <1>2, <1>5, <1>6

\* The answer to the write
LEMMA WrittenPhase ==
  ASSUME PhaseInv, InOrder, Written
  PROVE  Phase' /\ Settled'
<1>1. /\ reqs # <<>> /\ Head(reqs) = "write"
      /\ UNCHANGED <<sync, sub, up, resp>>
  BY DEF Written, Answered, syncVars
<1>2. Writing /\ Tail(reqs) = <<>>
  BY <1>1, PhaseHead DEF PhaseInv, Phases
<1>3. ~sub /\ node.ctx = sync /\ up[sync] = "gone" /\ work = "idle"
  BY <1>1, <1>2 DEF Writing, PhaseInv, Phases, Settled, Resting
<1>4. CASE Write(<<>>)
  <2>1. \/ UNCHANGED appVars /\ Writing'
        \/ Resting' /\ link' # "up"
        \/ UNCHANGED <<node, reqs, appVars, down, pack>>
    BY <1>1, <1>3, <1>4, WritePhase
  <2>2. CASE UNCHANGED <<node, reqs, appVars, down, pack>>
    <3>1. Writing'
      BY <1>1, <1>2, <2>2 DEF Writing
    <3>2. QED
      BY <1>3, <2>2, <3>1 DEF Phase, Settled, appVars
  <2>3. QED
    BY <1>3, <2>1, <2>2 DEF Phase, Settled, appVars
<1>5. CASE Error /\ Abandon(<<>>, AbortEnds(resp[node.ctx]))
  <2>1. link = "closing"
    BY <1>5, OrderEnv
  <2>2. \/ reqs' = <<>> /\ Finished(link, work)
        \/ UNCHANGED <<node, reqs, appVars, down, pack>>
    BY <1>5 DEF Abandon
  <2>3. CASE reqs' = <<>> /\ Finished(link, work)
    <3>1. Resting' /\ link' # "up"
      BY <1>1, <1>3, <2>1, <2>3 DEF Resting, Finished
    <3>2. QED
      BY <3>1 DEF Phase, Settled
  <2>4. CASE UNCHANGED <<node, reqs, appVars, down, pack>>
    <3>1. Writing'
      BY <1>1, <1>2, <2>4 DEF Writing
    <3>2. QED
      BY <1>3, <2>4, <3>1 DEF Phase, Settled, appVars
  <2>5. QED
    BY <2>2, <2>3, <2>4
<1>6. CASE MayBeComplete(node.ctx) /\ EndDownlink /\ reqs' = <<>>
  <2>1. NoneOwed'
    <3>1. \A j \in Syncs : Owed(j) => j = sync
      BY OwedOwn, OrderEnv DEF PhaseInv
    <3>2. ~Owed(sync)
      BY <1>3, <1>6 DEF MayBeComplete, Owed
    <3>3. QED
      BY <1>1, <3>1, <3>2 DEF NoneOwed, Owed
  <2>2. Resting'
    BY <1>1, <1>3, <1>6 DEF Resting
  <2>3. QED
    BY <2>1, <2>2 DEF Phase, Settled
<1>7. CASE reqs' = <<>> /\ UNCHANGED appVars
  BY <1>1, <1>3, <1>7 DEF Phase, Settled, Resting, appVars
<1>8. CASE UNCHANGED <<node, reqs, appVars, down, pack>>
  <2>1. Writing'
    BY <1>1, <1>2, <1>8 DEF Writing
  <2>2. QED
    BY <1>3, <1>8, <2>1 DEF Phase, Settled, appVars
<1>9. QED
  BY <1>2, <1>4, <1>5, <1>6, <1>7, <1>8 DEF Written

LEMMA InitPhase ==
  ASSUME Init
  PROVE  PhaseInv
<1>1. OnceInv
  BY InitOnce
<1>2. Resting /\ work = "idle"
  BY DEF Init, Resting
<1>3. QED
  BY <1>1, <1>2 DEF PhaseInv, Phases, Phase, Settled

LEMMA NextPhase ==
  ASSUME PhaseInv, [Next]_vars
  PROVE  PhaseInv'
<1>1. OnceInv' /\ Inv
  BY NextOnce DEF PhaseInv, OnceInv, OwnInv
<1>2. InOrder' => InOrder
  BY EnvStays DEF PhaseInv, OnceInv, InOrder, InTime, Without
<1>3. ASSUME InOrder PROVE Phase' /\ Settled'
  <2>1. CASE DiscoveryStep
    BY <1>1, <1>3, <2>1, OrderEnv, DiscoverySplit, EarlyPhase, StartsPhase
  <2>2. CASE ConnectionStep \/ Disconnected
    BY <1>3, <2>2, ScanPhase, ConnectedPhase, SyncStartPhase, DisconnectedPhase, QuietPhase
       DEF ConnectionStep
  <2>3. CASE ReadError \/ PayloadTooLate \/ Astray \/ SubscriptionEnds
    BY <1>3, <2>3, QuietPhase, EndedPhase
  <2>4. CASE \E err \in BOOLEAN : Subscribed(err)
    BY <1>3, <2>4, SubscribedPhase
  <2>5. CASE DeviceStep \/ Written
    BY <1>3, <2>5, DevicePhase, WrittenPhase
  <2>6. CASE CloudStep
    <3>1. PICK k \in Syncs :
            \/ \E ok \in BOOLEAN : UplinkEnds(k, ok)
            \/ EndCb(k) \/ \E last \in BOOLEAN : BlockCb(k, last)
      BY <2>6 DEF CloudStep
    <3>2. CASE \E ok \in BOOLEAN : UplinkEnds(k, ok)
      BY <1>3, <3>2, UplinkEndsPhase
    <3>3. CASE EndCb(k) \/ \E last \in BOOLEAN : BlockCb(k, last)
      BY <1>3, <3>3, ResponsePhase
    <3>4. QED
      BY <3>1, <3>2, <3>3
  <2>7. CASE UNCHANGED vars
    <3>1. UNCHANGED <<work, link, node, reqs, sub, sync, up, down, resp, pack>>
      BY <2>7 DEF vars, appVars, syncVars, hostVars, heapVars
    <3>2. (Fresh(sync)' <=> Fresh(sync)) /\ \A k \in Syncs : Owed(k)' <=> Owed(k)
      BY <3>1 DEF Fresh, Owed
    <3>3. Phase /\ Settled
      BY <1>3 DEF PhaseInv, Phases
    <3>4. Phase'
      BY <3>1, <3>2, <3>3 DEF Phase, Resting, Exploring, Reading, Subscribing, Leaving,
         Writing
    <3>5. Settled'
      BY <3>1, <3>2, <3>3 DEF Settled, Resting, NoneOwed
    <3>6. QED
      BY <3>4, <3>5
  <2>8. QED
    BY <2>1, <2>2, <2>3, <2>4, <2>5, <2>6, <2>7 DEF Next, AnswerStep
<1>4. QED
  BY <1>1, <1>2, <1>3 DEF PhaseInv, Phases

LEMMA PhaseAlways == Spec => []PhaseInv
<1>1. Init => PhaseInv
  BY InitPhase
<1>2. PhaseInv /\ [Next]_vars => PhaseInv'
  BY NextPhase
<1>3. QED
  BY <1>1, <1>2, PTL DEF Spec

\* The members of the union of the node do not overwrite each other: whatever the
\* host has queued, it finds the parameters that it was given.  No request and no
\* allocation fails, and the cloud and the device keep their order.
THEOREM ParamsAlwaysOwned == Spec => []ParamsOwned
<1>1. PhaseInv => ParamsOwned
  <2>1. SUFFICES ASSUME PhaseInv, InOrder
                 PROVE  /\ sub => node.params = "subscribe"
                        /\ \A i \in DOMAIN reqs : node.params = ParamsOf(reqs[i])
    BY DEF ParamsOwned, InOrder
  <2>2. sub => node.params = "subscribe"
    BY <2>1 DEF PhaseInv, Phases, Phase, Resting, Exploring, Reading, Subscribing,
       Leaving, Writing
  <2>3. ASSUME NEW i \in DOMAIN reqs PROVE node.params = ParamsOf(reqs[i])
    <3>1. reqs # <<>>
      BY <2>3
    <3>2. node.params = ParamsOf(Head(reqs))
      BY <2>1, <3>1, PhaseHead DEF PhaseInv, Phases
    <3>3. CASE Len(reqs) = 1
      <4>1. reqs \in Seq(Requests)
        BY <2>1 DEF PhaseInv, OnceInv, OwnInv, Inv, TypeOK
      <4>2. reqs[i] = Head(reqs)
        BY <2>3, <3>3, <4>1
      <4>3. QED
        BY <3>2, <4>2
    <3>4. CASE reqs = <<"subscribe", "unsubscribe">>
      <4>1. reqs[i] \in {"subscribe", "unsubscribe"} /\ Head(reqs) = "subscribe"
        BY <2>3, <3>4
      <4>2. ParamsOf("subscribe") = ParamsOf("unsubscribe")
        BY DEF ParamsOf, Discovery
      <4>3. QED
        BY <3>2, <4>1, <4>2
    <3>5. Len(reqs) = 1 \/ reqs = <<"subscribe", "unsubscribe">>
      <4>1. \A op : Len(<<op>>) = 1
        OBVIOUS
      <4>2. Phase
        BY <2>1 DEF PhaseInv, Phases
      <4>3. QED
        BY <3>1, <4>1, <4>2
           DEF Phase, Resting, Exploring, Reading, Subscribing, Leaving, Writing
    <3>6. QED
      BY <3>3, <3>4, <3>5
  <2>4. QED
    BY <2>2, <2>3
<1>2. QED
  BY <1>1, PhaseAlways, PTL

-----------------------------------------------------------------------------
(* What a sync needs is allocated                                          *)

\* The downlink of the sync that has the node can be written.  The scratch buffer
\* goes with the connection; the next one has none before its sync begins.
Equipped ==
  sync # 0 /\ down[sync] \in {"waiting", "writing"} =>
    /\ node.ctx = sync /\ node.pack = sync /\ sync \in pack
    /\ link \in {"up", "closing"} /\ work = "idle" => node.scratch # 0

\* A downlink has ended when its sync has been answered, and has begun when the
\* device sends or the cloud has been sent anything.
Ended == \A k \in Syncs : resp[k] = "open" => down[k] # "gone"
Begun ==
  /\ \A k \in Syncs : up[k] \in {"fed", "closed", "gone"} => down[k] \notin {"none", "null"}
  /\ sub \/ reqs = <<"read">> => down[sync] = "waiting"

Supplied == Equipped /\ Ended /\ Begun /\ fault = "none"

Supplies == InOrder => Supplied

MemoryInv == PhaseInv /\ Supplies

\* bt_finished does not take the work back, nor make a connection.
LEMMA FinishedKeeps ==
  ASSUME Finished(link, work) \/ UNCHANGED appVars, work \in {"idle", "now", "later"}
  PROVE  /\ work' = "idle" => work = "idle"
         /\ link' \in {"up", "closing"} => link \in {"up", "closing"}
BY DEF Finished, appVars

\* The steps of the uplink leave the downlink what it has.
LEMMA UplinkSupplied ==
  ASSUME MemoryInv, InOrder, UNCHANGED <<sync, down, resp, pack, fault>>,
         node'.ctx = node.ctx, node'.pack = node.pack, node'.scratch = node.scratch,
         link' \in {"up", "closing"} /\ work' = "idle" => link \in {"up", "closing"} /\ work = "idle",
         \A k \in Syncs : up'[k] \in {"fed", "closed", "gone"} =>
                            up[k] \in {"fed", "closed", "gone"} \/ down[k] = "waiting",
         sub' \/ reqs' = <<"read">> => sub \/ reqs = <<"read">>
  PROVE  Supplied'
<1>1. Equipped /\ Ended /\ Begun /\ fault = "none"
  BY DEF MemoryInv, Supplies, Supplied
<1>2. Equipped'
  BY <1>1 DEF Equipped
<1>3. Ended'
  BY <1>1 DEF Ended
<1>4. Begun'
  BY <1>1 DEF Begun
<1>5. QED
  BY <1>1, <1>2, <1>3, <1>4 DEF Supplied

LEMMA QuietSupplied ==
  ASSUME MemoryInv, InOrder, LinkLost \/ ReadError \/ PayloadTooLate \/ Astray
  PROVE  Supplied'
<1>1. Phase /\ InOrder
  BY OrderEnv DEF MemoryInv, PhaseInv, Phases
<1>2. ~Astray
  <2>1. reqs # <<>> => node.params = ParamsOf(Head(reqs))
    BY <1>1, PhaseHead
  <2>2. sub => node.params = "subscribe"
    BY <1>1 DEF Phase, Resting, Exploring, Reading, Leaving, Writing, Subscribing
  <2>3. QED
    BY <2>1, <2>2 DEF Astray
<1>3. ~PayloadTooLate
  <2>1. ASSUME Answered("read") \/ sub PROVE node.uplink # 0
    <3>1. Reading \/ Subscribing
      BY <1>1, <2>1, PhaseHead DEF Answered, Phase, Resting, Exploring, Leaving, Writing
    <3>2. QED
      BY <3>1 DEF Reading, Subscribing
  <2>2. QED
    BY <2>1 DEF PayloadTooLate
<1>4. /\ UNCHANGED <<sync, node, sub, up, down, resp, pack, fault, work>>
      /\ link' \in {"up", "closing"} => link \in {"up", "closing"}
      /\ reqs' = reqs \/ (Answered("read") /\ reqs' = Tail(reqs))
  BY <1>2, <1>3 DEF LinkLost, ReadError, appVars, syncVars, hostVars, heapVars
<1>5. reqs' = <<"read">> => reqs = <<"read">>
  <2>1. Answered("read") => Tail(reqs) = <<>>
    BY <1>1, PhaseHead DEF Answered
  <2>2. QED
    BY <1>4, <2>1, Queues
<1>6. QED
  BY <1>4, <1>5, UplinkSupplied

\* The fields of the node that the uplink leaves
LEMMA NodeSupplied ==
  ASSUME MemoryInv, node' = node \/ node' = [node EXCEPT !.uplink = 0]
  PROVE  node'.ctx = node.ctx /\ node'.pack = node.pack /\ node'.scratch = node.scratch
<1>1. node \in NodeType
  BY DEF MemoryInv, PhaseInv, OnceInv, OwnInv, Inv, TypeOK
<1>2. QED
  BY <1>1 DEF NodeType

\* pouch_gateway_uplink_close gives the cloud nothing that it has not been given.
LEMMA ClosedSupplied ==
  ASSUME MemoryInv, up' = up \/ up' = Closed(node.uplink)
  PROVE  \A k \in Syncs : up'[k] \in {"fed", "closed", "gone"} => up[k] \in {"fed", "closed", "gone"}
<1>1. up \in [Syncs -> {"none", "open", "fed", "closed", "stuck", "gone"}]
  BY DEF MemoryInv, PhaseInv, OnceInv, OwnInv, Inv, TypeOK
<1>2. QED
  BY <1>1 DEF Closed

LEMMA EndedSupplied ==
  ASSUME MemoryInv, InOrder, SubscriptionEnds \/ \E err \in BOOLEAN : Subscribed(err)
  PROVE  Supplied'
<1>1. /\ UNCHANGED <<sync, down, resp, pack, fault>>
      /\ SubscriptionTerminated \/ UNCHANGED <<up, node, appVars>>
      /\ sub' => sub
      /\ \/ reqs' = reqs
         \/ reqs # <<>> /\ Head(reqs) \in {"subscribe", "unsubscribe"} /\ reqs' = Tail(reqs)
  BY DEF SubscriptionEnds, Subscribed, Answered, syncVars
<1>2. /\ up' = up \/ up' = Closed(node.uplink)
      /\ node' = node \/ node' = [node EXCEPT !.uplink = 0]
      /\ UNCHANGED appVars \/ Finished(link, work)
  BY <1>1 DEF SubscriptionTerminated
<1>3. /\ work' = "idle" => work = "idle"
      /\ link' \in {"up", "closing"} => link \in {"up", "closing"}
  BY <1>2, FinishedKeeps DEF MemoryInv, PhaseInv, OnceInv, OwnInv, Inv, TypeOK
<1>4. reqs' = <<"read">> => reqs = <<"read">>
  <2>1. Phase
    BY OrderEnv DEF MemoryInv, PhaseInv, Phases
  <2>2. CASE reqs # <<>> /\ Head(reqs) \in {"subscribe", "unsubscribe"} /\ reqs' = Tail(reqs)
    <3>1. reqs' \in {<<>>, <<"unsubscribe">>}
      BY <2>1, <2>2, PhaseHead
    <3>2. reqs' # <<"read">>
      <4>1. Head(<<"read">>) = "read" /\ Head(<<"unsubscribe">>) = "unsubscribe" /\ <<"read">> # <<>>
        BY Queues
      <4>2. QED
        BY <3>1, <4>1
    <3>3. QED
      BY <3>2
  <2>3. QED
    BY <1>1, <2>2
<1>5. QED
  BY <1>1, <1>2, <1>3, <1>4, NodeSupplied, ClosedSupplied, UplinkSupplied

LEMMA DeviceSupplied ==
  ASSUME MemoryInv, InOrder, DeviceStep
  PROVE  Supplied'
<1>1. PICK packet \in {"more", "last"} : Indicated(packet) \/ ReadBack(packet)
  BY OrderEnv DEF DeviceStep, Packets
<1>2. Phase /\ up \in [Syncs -> {"none", "open", "fed", "closed", "stuck", "gone"}]
  BY OrderEnv DEF MemoryInv, PhaseInv, Phases, OnceInv, OwnInv, Inv, TypeOK
<1>3. (sub \/ reqs = <<"read">>) /\ node.uplink = sync
  <2>1. CASE Indicated(packet)
    BY <1>2, <2>1
       DEF Indicated, Phase, Resting, Exploring, Reading, Subscribing, Leaving, Writing
  <2>2. CASE ReadBack(packet)
    BY <1>2, <2>2, PhaseHead DEF ReadBack, Answered, Reading
  <2>3. QED
    BY <1>1, <2>1, <2>2
<1>4. down[sync] = "waiting"
  BY <1>3 DEF MemoryInv, Supplies, Supplied, Begun
<1>5. /\ UNCHANGED <<sync, down, resp, pack, fault, appVars>>
      /\ \E s \in {"fed", "closed"} : up' = [up EXCEPT ![sync] = s]
      /\ node' = node \/ node' = [node EXCEPT !.uplink = 0]
  BY <1>1, <1>3 DEF Indicated, ReadBack, Payload, syncVars
<1>6. \A k \in Syncs : up'[k] \in {"fed", "closed", "gone"} =>
                         up[k] \in {"fed", "closed", "gone"} \/ down[k] = "waiting"
  BY <1>2, <1>4, <1>5
<1>7. UNCHANGED <<link, work>>
  BY <1>5 DEF appVars
<1>8. QED
  BY <1>3, <1>5, <1>6, <1>7, NodeSupplied, UplinkSupplied

LEMMA UplinkEndsSupplied ==
  ASSUME MemoryInv, InOrder, NEW k \in Syncs, NEW ok \in BOOLEAN, UplinkEnds(k, ok)
  PROVE  Supplied'
<1>1. /\ ok /\ up[k] = "closed" /\ up' = [up EXCEPT ![k] = "gone"]
      /\ UNCHANGED <<sync, down, resp, pack, fault, appVars>>
      /\ node' = [node EXCEPT !.uplink = 0]
      /\ up \in [Syncs -> {"none", "open", "fed", "closed", "stuck", "gone"}]
  BY OrderEnv
     DEF UplinkEnds, MemoryInv, PhaseInv, OnceInv, OwnInv, Inv, TypeOK, syncVars
<1>2. node.uplink = 0
  BY <1>1, OwedOwn, OrderEnv
     DEF MemoryInv, PhaseInv, OnceInv, OwnInv, OfLatest, Owed
<1>3. ~sub
  BY <1>2, OrderEnv DEF MemoryInv, PhaseInv, Phases, Phase, Resting, Exploring, Reading,
     Subscribing, Leaving, Writing
<1>4. UNCHANGED <<reqs, sub>>
  BY <1>3 DEF UplinkEnds, hostVars
<1>5. \A j \in Syncs : up'[j] \in {"fed", "closed", "gone"} => up[j] \in {"fed", "closed", "gone"}
  BY <1>1
<1>6. UNCHANGED <<link, work>>
  BY <1>1 DEF appVars
<1>7. QED
  BY <1>1, <1>4, <1>5, <1>6, NodeSupplied, UplinkSupplied

\* write_downlink_characteristic finds the context, the packetizer and the scratch
\* buffer of the sync: it writes, or gives the downlink up with the connection.
LEMMA WriteSupplied ==
  ASSUME MemoryInv, InOrder, Write(<<>>), ~sub, sync \in Syncs,
         down[sync] \in {"waiting", "writing"}, link = "up" => work = "idle",
         UNCHANGED <<sync, sub, up>>,
         \A j \in Syncs : resp'[j] = "open" => resp[j] = "open"
  PROVE  Supplied'
<1>1. /\ Equipped /\ Ended /\ Begun /\ fault = "none" /\ sync # 0
      /\ node \in NodeType /\ "gatt" \notin env
      /\ down \in [Syncs -> {"none", "null", "waiting", "writing", "aborted", "gone"}]
  BY OrderEnv
     DEF MemoryInv, Supplies, Supplied, PhaseInv, OnceInv, OwnInv, Inv, TypeOK, Syncs
<1>2. /\ node.ctx = sync /\ node.pack = sync /\ sync \in pack
      /\ link = "up" => node.scratch # 0
      /\ Live(node.ctx)
  BY <1>1 DEF Equipped, Live
<1>3. PICK s \in {"writing", "aborted"} :
        /\ down' = [down EXCEPT ![sync] = s] /\ UNCHANGED fault
        /\ \/ /\ s = "writing" /\ reqs' = Append(<<>>, "write")
              /\ node' = [node EXCEPT !.params = "write"]
              /\ UNCHANGED <<appVars, pack>>
           \/ s = "aborted" /\ reqs' = <<>>
  BY <1>1, <1>2 DEF Write, Abandon
<1>4. down'[sync] = s /\ \A j \in Syncs : j # sync => down'[j] = down[j]
  BY <1>1, <1>3
<1>5. Ended'
  BY <1>1, <1>3, <1>4 DEF Ended
<1>6. Begun'
  <2>1. reqs' # <<"read">>
    <3>1. reqs' \in {<<>>, <<"write">>}
      BY <1>3, Queues
    <3>2. Head(<<"read">>) = "read" /\ Head(<<"write">>) = "write" /\ <<"read">> # <<>>
      BY Queues
    <3>3. QED
      BY <3>1, <3>2
  <2>2. \A k \in Syncs : up'[k] \in {"fed", "closed", "gone"} => down'[k] \notin {"none", "null"}
    BY <1>1, <1>3, <1>4 DEF Begun
  <2>3. QED
    BY <2>1, <2>2 DEF Begun
<1>7. Equipped'
  <2>1. CASE s = "aborted"
    BY <1>4, <2>1 DEF Equipped
  <2>2. CASE s = "writing"
    <3>1. /\ node' = [node EXCEPT !.params = "write"]
          /\ UNCHANGED <<appVars, pack>>
      BY <1>3, <2>2
    <3>2. /\ node'.ctx = node.ctx /\ node'.pack = node.pack /\ node'.scratch = node.scratch
          /\ UNCHANGED <<link, work>>
      BY <1>1, <3>1 DEF NodeType, appVars
    <3>3. QED
      BY <1>1, <1>2, <3>1, <3>2 DEF Equipped
  <2>3. QED
    BY <2>1, <2>2
<1>8. QED
  BY <1>1, <1>3, <1>5, <1>6, <1>7 DEF Supplied

\* The cloud answers: the downlink is there, and has not ended.
LEMMA ResponseSupplied ==
  ASSUME MemoryInv, InOrder, NEW k \in Syncs, EndCb(k) \/ \E last \in BOOLEAN : BlockCb(k,
  last)
  PROVE  Supplied'
<1>1. PICK last \in BOOLEAN : BlockCb(k, last)
  BY OrderEnv DEF EndCb
<1>2. /\ UNCHANGED <<sync, sub, up>> /\ Responds(k)
      /\ resp' = [resp EXCEPT ![k] = IF last \/ down[k] = "aborted" THEN "last" ELSE "open"]
      /\ \/ down[k] = "waiting" /\ Write(reqs)
         \/ /\ down[k] = "aborted" /\ down' = [down EXCEPT ![k] = "gone"]
            /\ UNCHANGED <<node, reqs, appVars, pack, fault>>
         \/ down[k] \in {"null", "gone"}
         \/ UNCHANGED <<node, reqs, appVars, down, pack, fault>>
  BY <1>1 DEF BlockCb, syncVars
<1>3. /\ k = sync /\ up[sync] = "gone" /\ resp[k] = "open"
      /\ Resting \/ Writing
      /\ link = "up" => work = "idle"
  BY <1>2, ResponseOrder, OrderEnv DEF MemoryInv, Responds
<1>4. /\ Equipped /\ Ended /\ Begun /\ fault = "none"
      /\ down \in [Syncs -> {"none", "null", "waiting", "writing", "aborted", "gone"}]
      /\ resp \in [Syncs -> {"open", "last", "failed"}]
  BY DEF MemoryInv, Supplies, Supplied, PhaseInv, OnceInv, OwnInv, Inv, TypeOK
<1>5. \A j \in Syncs : resp'[j] = "open" => resp[j] = "open"
  BY <1>2, <1>3, <1>4
<1>6. CASE down[k] = "waiting" /\ Write(reqs)
  <2>1. reqs = <<>> /\ ~sub
    BY <1>3, <1>6 DEF Writing, Resting
  <2>2. QED
    BY <1>2, <1>3, <1>5, <1>6, <2>1, WriteSupplied
<1>7. CASE /\ down[k] = "aborted" /\ down' = [down EXCEPT ![k] = "gone"]
           /\ UNCHANGED <<node, reqs, appVars, pack, fault>>
  <2>1. down'[sync] = "gone" /\ \A j \in Syncs : j # sync => down'[j] = down[j]
    BY <1>3, <1>4, <1>7
  <2>2. resp'[sync] = "last"
    BY <1>2, <1>3, <1>4, <1>7
  <2>3. Equipped'
    BY <1>2, <2>1 DEF Equipped
  <2>4. Ended'
    BY <1>4, <1>5, <2>1, <2>2 DEF Ended
  <2>5. ~sub /\ reqs = <<>>
    BY <1>3, <1>7 DEF Writing, Resting
  <2>6. Begun'
    BY <1>2, <1>4, <1>7, <2>1, <2>5, Queues DEF Begun
  <2>7. QED
    BY <1>4, <1>7, <2>3, <2>4, <2>6 DEF Supplied
<1>8. CASE UNCHANGED <<node, reqs, appVars, down, pack, fault>>
  <2>1. UNCHANGED <<link, work>>
    BY <1>8 DEF appVars
  <2>2. Equipped' /\ Begun'
    BY <1>2, <1>4, <1>8, <2>1 DEF Equipped, Begun
  <2>3. Ended'
    BY <1>4, <1>5, <1>8 DEF Ended
  <2>4. QED
    BY <1>4, <1>8, <2>2, <2>3 DEF Supplied
<1>9. down[k] \notin {"null", "gone"}
  BY <1>3, <1>4 DEF Ended, Begun
<1>10. QED
  BY <1>2, <1>6, <1>7, <1>8, <1>9

\* The answer to the write
LEMMA WrittenSupplied ==
  ASSUME MemoryInv, InOrder, Written
  PROVE  Supplied'
<1>1. /\ reqs # <<>> /\ Head(reqs) = "write"
      /\ UNCHANGED <<sync, sub, up, resp>>
  BY DEF Written, Answered, syncVars
<1>2. Writing /\ Tail(reqs) = <<>>
  BY <1>1, PhaseHead, OrderEnv DEF MemoryInv, PhaseInv, Phases
<1>3. /\ Equipped /\ Ended /\ Begun /\ fault = "none" /\ sync \in Syncs /\ sync # 0
      /\ down \in [Syncs -> {"none", "null", "waiting", "writing", "aborted", "gone"}]
  <2>1. sync # 0 /\ sync \in 0 .. MaxSyncs
    BY <1>1 DEF MemoryInv, PhaseInv, OnceInv, OwnInv, Inv, Started, TypeOK
  <2>2. sync \in Syncs
    BY <2>1, BoundAssumption DEF Syncs
  <2>3. QED
    BY <2>1, <2>2 DEF MemoryInv, Supplies, Supplied, PhaseInv, OnceInv, OwnInv, Inv, TypeOK
<1>4. /\ ~sub /\ node.ctx = sync /\ down[sync] = "writing" /\ work = "idle"
      /\ node.pack = sync /\ sync \in pack /\ Live(node.ctx)
  <2>1. ~sub /\ node.ctx = sync /\ down[sync] = "writing"
    BY <1>2 DEF Writing
  <2>2. work = "idle"
    BY <1>1, OrderEnv DEF MemoryInv, PhaseInv, Phases, Settled, Resting
  <2>3. QED
    BY <1>3, <2>1, <2>2 DEF Equipped, Live
<1>5. CASE Write(<<>>)
  BY <1>1, <1>3, <1>4, <1>5, WriteSupplied
<1>6. CASE /\ reqs' = <<>> /\ UNCHANGED fault
           /\ \E s \in {"aborted", "gone", "waiting"} :
                /\ down' = [down EXCEPT ![sync] = s]
                /\ s = "gone" => resp[sync] # "open"
                /\ s = "waiting" => UNCHANGED <<node, appVars, pack>>
  <2>1. PICK s \in {"aborted", "gone", "waiting"} :
          /\ down' = [down EXCEPT ![sync] = s]
          /\ s = "gone" => resp[sync] # "open"
          /\ s = "waiting" => UNCHANGED <<node, appVars, pack>>
    BY <1>6
  <2>2. down'[sync] = s /\ \A j \in Syncs : j # sync => down'[j] = down[j]
    BY <1>3, <2>1
  <2>3. Ended'
    BY <1>1, <1>3, <2>1, <2>2 DEF Ended
  <2>4. Begun'
    BY <1>1, <1>3, <1>4, <1>6, <2>2, Queues DEF Begun
  <2>5. Equipped'
    <3>1. CASE s = "waiting"
      BY <1>1, <1>3, <1>4, <2>1, <3>1 DEF Equipped, appVars
    <3>2. CASE s # "waiting"
      BY <1>1, <2>2, <3>2 DEF Equipped
    <3>3. QED
      BY <3>1, <3>2
  <2>6. QED
    BY <1>3, <1>6, <2>3, <2>4, <2>5 DEF Supplied
<1>7. CASE Abandon(<<>>, AbortEnds(resp[sync]))
  <2>1. /\ \E d \in AbortEnds(resp[sync]) : down' = [down EXCEPT ![sync] = d]
        /\ reqs' = <<>> /\ UNCHANGED fault
    BY <1>4, <1>7 DEF Abandon
  <2>2. QED
    BY <1>6, <2>1 DEF AbortEnds
<1>8. CASE MayBeComplete(sync) /\ EndDownlink /\ reqs' = <<>> /\ UNCHANGED fault
  BY <1>4, <1>6, <1>8 DEF EndDownlink, MayBeComplete
<1>9. CASE /\ down' = [down EXCEPT ![sync] = "waiting"]
           /\ reqs' = <<>> /\ UNCHANGED <<node, appVars, pack, fault>>
  BY <1>6, <1>9
<1>10. QED
  BY <1>2, <1>4, <1>5, <1>7, <1>8, <1>9 DEF Written

LEMMA EarlySupplied ==
  ASSUME MemoryInv, InOrder, EarlyStep
  PROVE  Supplied'
<1>1. /\ reqs # <<>> /\ Head(reqs) \in Early
      /\ UNCHANGED <<sync, sub, up, down, resp, pack, fault>>
      /\ node'.ctx = node.ctx /\ node'.scratch = node.scratch /\ node'.pack = node.pack
      /\ UNCHANGED appVars \/ Finished(link, work)
      /\ reqs' = Tail(reqs) \/ \E op \in Early : reqs' = Append(Tail(reqs), op)
  BY DEF EarlyStep
<1>2. Tail(reqs) = <<>> /\ ~sub
  BY <1>1, PhaseHead, OrderEnv DEF MemoryInv, PhaseInv, Phases, Exploring
<1>3. reqs' # <<"read">>
  <2>1. reqs' = <<>> \/ \E op \in Early : reqs' = <<op>>
    BY <1>1, <1>2, Queues
  <2>2. Head(<<"read">>) = "read" /\ <<"read">> # <<>> /\ \A op : Head(<<op>>) = op
    BY Queues
  <2>3. "read" \notin Early
    BY DEF Early, Discovery
  <2>4. QED
    BY <2>1, <2>2, <2>3
<1>4. /\ work' = "idle" => work = "idle"
      /\ link' \in {"up", "closing"} => link \in {"up", "closing"}
  BY <1>1, FinishedKeeps DEF MemoryInv, PhaseInv, OnceInv, OwnInv, Inv, TypeOK
<1>5. QED
  BY <1>1, <1>2, <1>3, <1>4, UplinkSupplied

\* With memory, the downlink is opened where there is a connection.
LEMMA StartsSupplied ==
  ASSUME MemoryInv, InOrder, Starts
  PROVE  Supplied'
<1>1. PICK d \in {"noscratch", "nocontext", "opened"}, opened \in BOOLEAN,
           source \in {"read", "subscribe"} : Start(d, opened, source)
  BY DEF Starts
<1>2. Exploring /\ Tail(reqs) = <<>>
  BY PhaseHead, OrderEnv DEF Starts, MemoryInv, PhaseInv, Phases
<1>3. ~sub /\ Fresh(sync) /\ sync \in Syncs /\ sync # 0
  BY <1>2, EarlyAlone DEF Exploring, Starts, MemoryInv, PhaseInv, OnceInv, OwnInv, Syncs
<1>4. /\ Ended /\ Begun /\ fault = "none" /\ "malloc" \notin env /\ up[sync] = "none"
      /\ down \in [Syncs -> {"none", "null", "waiting", "writing", "aborted", "gone"}]
      /\ up \in [Syncs -> {"none", "open", "fed", "closed", "stuck", "gone"}]
  BY <1>3, OrderEnv
     DEF MemoryInv, Supplies, Supplied, PhaseInv, OnceInv, OwnInv, Inv, TypeOK, Fresh
<1>5. /\ UNCHANGED <<sync, resp, fault>> /\ opened
      /\ link # "up" => d = "noscratch"
      /\ link = "up" => d = "opened"
      /\ pack' = IF d = "noscratch" THEN pack ELSE pack \union {sync}
      /\ down' = [down EXCEPT ![sync] = IF d = "opened" THEN "waiting" ELSE "null"]
      /\ node'.ctx = IF d = "opened" THEN sync ELSE 0
      /\ d = "opened" => node'.scratch = sync /\ node'.pack = sync
      /\ up' = [up EXCEPT ![sync] = "open"]
      /\ \/ link = "up"
         \/ reqs' = Tail(reqs) /\ sub' = sub
  BY <1>1, <1>4 DEF Start
<1>6. /\ down'[sync] = IF link = "up" THEN "waiting" ELSE "null"
      /\ \A j \in Syncs : j # sync => down'[j] = down[j] /\ up'[j] = up[j]
      /\ up'[sync] = "open"
  BY <1>3, <1>4, <1>5
<1>7. Equipped'
  BY <1>3, <1>5, <1>6 DEF Equipped
<1>8. Ended'
  BY <1>4, <1>5, <1>6 DEF Ended
<1>9. Begun'
  <2>1. \A k \in Syncs : up'[k] \in {"fed", "closed", "gone"} => down'[k] \notin {"none", "null"}
    BY <1>4, <1>6 DEF Begun
  <2>2. sub' \/ reqs' = <<"read">> => down'[sync'] = "waiting"
    <3>1. sync' = sync /\ (link = "up" => down'[sync] = "waiting")
      BY <1>5, <1>6
    <3>2. ASSUME link # "up" PROVE ~sub' /\ reqs' # <<"read">>
      <4>1. reqs' = Tail(reqs) /\ sub' = sub
        BY <1>5, <3>2
      <4>2. \A op : <<op>> # <<>>
        BY Queues
      <4>3. QED
        BY <1>2, <1>3, <4>1, <4>2
    <3>3. QED
      BY <3>1, <3>2
  <2>3. QED
    BY <2>1, <2>2 DEF Begun
<1>10. QED
  BY <1>4, <1>5, <1>7, <1>8, <1>9 DEF Supplied

\* A sync that has just begun needs nothing yet.
LEMMA BeginSupplied ==
  ASSUME MemoryInv, InOrder, Resting, sync < MaxSyncs, sync' = sync + 1,
         UNCHANGED <<sub, up, down, resp, pack, fault>>,
         reqs' = Append(reqs, "service16") \/ reqs' = reqs
  PROVE  Supplied'
<1>1. Ended /\ Begun /\ fault = "none"
  BY DEF MemoryInv, Supplies, Supplied
<1>2. down'[sync'] = "none"
  BY BeginFresh DEF MemoryInv, PhaseInv, OnceInv, Fresh
<1>3. Equipped' /\ Ended'
  BY <1>1, <1>2 DEF Equipped, Ended
<1>4. reqs' # <<"read">> /\ ~sub'
  <2>1. reqs' \in {<<>>, <<"service16">>}
    BY Queues DEF Resting
  <2>2. Head(<<"read">>) = "read" /\ <<"read">> # <<>> /\ Head(<<"service16">>) = "service16"
    BY Queues
  <2>3. QED
    BY <2>1, <2>2 DEF Resting
<1>5. Begun'
  BY <1>1, <1>4 DEF Begun
<1>6. QED
  BY <1>1, <1>3, <1>5 DEF Supplied

LEMMA LinkSupplied ==
  ASSUME MemoryInv, InOrder,
  DeviceFound \/ ConnectFails \/ Connected \/ SyncStart \/ Disconnected
  PROVE  Supplied'
<1>1. /\ Equipped /\ Ended /\ Begun /\ fault = "none" /\ Inv /\ OfLatest /\ Phase /\ Settled
      /\ InOrder /\ "gatt" \notin env /\ node \in NodeType
  BY OrderEnv DEF MemoryInv, Supplies, Supplied, PhaseInv, Phases, OnceInv, OwnInv,
     Inv, TypeOK
<1>2. CASE DeviceFound \/ ConnectFails
  <2>1. /\ UNCHANGED <<work, sync, node, reqs, sub, up, down, resp, pack, fault>>
        /\ link' \in {"none", "creating"}
    BY <1>2 DEF DeviceFound, ConnectFails, syncVars, hostVars, heapVars
  <2>2. QED
    BY <2>1, UplinkSupplied
<1>3. CASE Connected
  <2>1. UNCHANGED <<sub, up, down, resp, pack, fault>> /\ link = "creating" /\ Resting
    BY <1>1, <1>3 DEF Connected, OfLatest, heapVars
  <2>2. CASE app = "gateway"
    <3>1. sync < MaxSyncs /\ BtStart("up", work)
      BY <1>1, <1>3, <2>1, <2>2 DEF Connected, Inv, OneSync
    <3>2. sync' = sync + 1 /\ (reqs' = Append(reqs, "service16") \/ reqs' = reqs)
      BY <3>1 DEF BtStart, Request
    <3>3. QED
      BY <2>1, <3>1, <3>2, BeginSupplied
  <2>3. CASE app # "gateway"
    <3>1. UNCHANGED <<sync, node, reqs>> /\ work' # "idle"
      BY <1>3, <2>3 DEF Connected
    <3>2. QED
      BY <2>1, <3>1, UplinkSupplied
  <2>4. QED
    BY <2>2, <2>3
<1>4. CASE SyncStart
  <2>1. /\ UNCHANGED <<sub, up, down, resp, pack, fault>>
        /\ sync < MaxSyncs /\ Resting /\ BtStart(link, "idle")
    BY <1>1, <1>4 DEF SyncStart, Settled, heapVars
  <2>2. sync' = sync + 1 /\ (reqs' = Append(reqs, "service16") \/ reqs' = reqs)
    BY <2>1 DEF BtStart, Request
  <2>3. QED
    BY <2>1, <2>2, BeginSupplied
<1>5. CASE Disconnected
  <2>1. /\ UNCHANGED <<sync, reqs, sub, down, resp, pack, fault>> /\ link' = "none"
        /\ up' = Closed(node.uplink)
        /\ node' = [node EXCEPT !.uplink = 0, !.scratch = 0]
    BY <1>5 DEF Disconnected, syncVars, hostVars
  <2>2. node'.ctx = node.ctx /\ node'.pack = node.pack
    BY <1>1, <2>1 DEF NodeType
  <2>3. Equipped'
    BY <1>1, <2>1, <2>2 DEF Equipped
  <2>4. Ended' /\ Begun'
    <3>1. \A k \in Syncs : up'[k] \in {"fed", "closed", "gone"} => up[k] \in {"fed", "closed", "gone"}
      BY <2>1, ClosedSupplied
    <3>2. QED
      BY <1>1, <2>1, <3>1 DEF Ended, Begun
  <2>5. QED
    BY <1>1, <2>1, <2>3, <2>4 DEF Supplied
<1>6. QED
  BY <1>2, <1>3, <1>4, <1>5

LEMMA InitMemory ==
  ASSUME Init
  PROVE  MemoryInv
<1>1. PhaseInv
  BY InitPhase
<1>2. /\ sync = 0 /\ ~sub /\ reqs = <<>> /\ fault = "none"
      /\ \A k \in Syncs : up[k] = "none" /\ down[k] = "none"
  BY DEF Init
<1>3. Supplied
  BY <1>2, Queues DEF Supplied, Equipped, Ended, Begun
<1>4. QED
  BY <1>1, <1>3 DEF MemoryInv, Supplies

LEMMA NextMemory ==
  ASSUME MemoryInv, [Next]_vars
  PROVE  MemoryInv'
<1>1. PhaseInv' /\ Inv
  BY NextPhase DEF MemoryInv, PhaseInv, OnceInv, OwnInv
<1>2. InOrder' => InOrder
  BY EnvStays DEF MemoryInv, PhaseInv, OnceInv, InOrder, InTime, Without
<1>3. ASSUME InOrder PROVE Supplied'
  <2>1. CASE DiscoveryStep
    BY <1>1, <1>3, <2>1, OrderEnv, DiscoverySplit, EarlySupplied, StartsSupplied
  <2>2. CASE ConnectionStep \/ Disconnected
    BY <1>3, <2>2, LinkSupplied, QuietSupplied DEF ConnectionStep
  <2>3. CASE ReadError \/ PayloadTooLate \/ Astray
    BY <1>3, <2>3, QuietSupplied
  <2>4. CASE SubscriptionEnds \/ \E err \in BOOLEAN : Subscribed(err)
    BY <1>3, <2>4, EndedSupplied
  <2>5. CASE DeviceStep \/ Written
    BY <1>3, <2>5, DeviceSupplied, WrittenSupplied
  <2>6. CASE CloudStep
    <3>1. PICK k \in Syncs :
            \/ \E ok \in BOOLEAN : UplinkEnds(k, ok)
            \/ EndCb(k) \/ \E last \in BOOLEAN : BlockCb(k, last)
      BY <2>6 DEF CloudStep
    <3>2. CASE \E ok \in BOOLEAN : UplinkEnds(k, ok)
      BY <1>3, <3>2, UplinkEndsSupplied
    <3>3. CASE EndCb(k) \/ \E last \in BOOLEAN : BlockCb(k, last)
      BY <1>3, <3>3, ResponseSupplied
    <3>4. QED
      BY <3>1, <3>2, <3>3
  <2>7. CASE UNCHANGED vars
    <3>1. UNCHANGED <<work, link, node, reqs, sub, sync, up, down, resp, pack, fault>>
      BY <2>7 DEF vars, appVars, syncVars, hostVars, heapVars
    <3>2. QED
      BY <1>3, <3>1, UplinkSupplied
  <2>8. QED
    BY <2>1, <2>2, <2>3, <2>4, <2>5, <2>6, <2>7 DEF Next, AnswerStep
<1>4. QED
  BY <1>1, <1>2, <1>3 DEF MemoryInv, Supplies

LEMMA MemoryAlways == Spec => []MemoryInv
<1>1. Init => MemoryInv
  BY InitMemory
<1>2. MemoryInv /\ [Next]_vars => MemoryInv'
  BY NextMemory
<1>3. QED
  BY <1>1, <1>2, PTL DEF Spec

\* No callback uses an uplink, a downlink or parameters that are not there, where
\* memory lasts, no request fails and the cloud is in time and in order.
THEOREM SessionMemorySafe == Spec => []MemorySafe
<1>1. MemoryInv => MemorySafe
  BY DEF MemoryInv, Supplies, Supplied, InOrder, MemorySafe
<1>2. QED
  BY <1>1, MemoryAlways, PTL

-----------------------------------------------------------------------------
(* A sync of the gateway leaves nothing                                    *)

Faultless == app = "gateway" /\ Without({"drops", "gatt", "cloud", "malloc", "fast"})

\* Nothing of sync k is allocated.
Clean(k) == up[k] \in {"none", "gone"} /\ ~Live(k) /\ k \notin pack

\* A sync has things allocated as long as it has the connection.
Cleaned == \A k \in Syncs : k # sync \/ link # "up" => Clean(k)

CleanInv == MemoryInv /\ (Faultless => Cleaned)

\* What the environment rules out
LEMMA FaultlessEnv ==
  ASSUME CleanInv, Faultless
  PROVE  /\ CountedOnce /\ InOrder
         /\ "drops" \notin env /\ "gatt" \notin env /\ "malloc" \notin env
         /\ ~ExchangeWithoutContext /\ ~Doomed
         /\ Error => link = "closing"
         /\ link # "up" => Spent
         /\ OnceInv /\ Inv /\ PhaseInv /\ Phase /\ Cleaned /\ app = "gateway" /\ work = "idle"
<1>1. /\ CountedOnce /\ InOrder /\ app = "gateway"
      /\ "drops" \notin env /\ "gatt" \notin env /\ "malloc" \notin env
  BY DEF Faultless, CountedOnce, InOrder, InTime, Without
<1>2. OnceInv /\ Inv /\ PhaseInv /\ Cleaned
  BY DEF CleanInv, MemoryInv, PhaseInv, OnceInv, OwnInv
<1>3. ~Doomed
  BY <1>1, OrderEnv DEF Doomed
<1>4. (link # "up" => Spent) /\ work = "idle" /\ Phase
  BY <1>1, <1>2, <1>3 DEF OnceInv, Once, Inv, OneSync, PhaseInv, Phases
<1>5. QED
  BY <1>1, <1>2, <1>3, <1>4, OrderEnv

\* A step that touches at most what the latest sync has, on its connection
LEMMA CleanKept ==
  ASSUME CleanInv, Faultless, UNCHANGED sync,
         \A k \in Syncs : k # sync \/ link # "up" =>
           up'[k] = up[k] /\ down'[k] = down[k] /\ (k \in pack' => k \in pack),
         link' # "up" /\ link = "up" /\ sync \in Syncs => Clean(sync)'
  PROVE  Cleaned'
<1>1. Cleaned
  BY FaultlessEnv
<1>2. ASSUME NEW k \in Syncs, k # sync \/ link # "up" PROVE Clean(k)'
  BY <1>1, <1>2 DEF Cleaned, Clean, Live
<1>3. ASSUME NEW k \in Syncs, k = sync, link = "up", link' # "up" PROVE Clean(k)'
  BY <1>3
<1>4. QED
  BY <1>2, <1>3 DEF Cleaned

\* No connection is lost and no subscription is ended by an error.
LEMMA QuietClean ==
  ASSUME CleanInv, Faultless, NEW err \in BOOLEAN,
         LinkLost \/ ReadError \/ PayloadTooLate \/ Astray \/ Subscribed(err) \/ SubscriptionEnds
  PROVE  Cleaned'
<1>1. /\ "drops" \notin env /\ (Error => link = "closing") /\ (link # "up" => ~sub) /\ Phase
  BY FaultlessEnv DEF Spent
<1>2. UNCHANGED <<link, sync, up, down, pack>>
  <2>1. CASE LinkLost \/ ReadError \/ PayloadTooLate \/ Astray
    BY <1>1, <2>1 DEF LinkLost, ReadError, PayloadTooLate, Astray, Fail, appVars,
       syncVars, heapVars
  <2>2. CASE Subscribed(err)
    BY <1>1, <2>2 DEF Subscribed, appVars, syncVars
  <2>3. CASE SubscriptionEnds
    <3>1. Answered("unsubscribe") => node.uplink = 0
      BY <1>1, PhaseHead DEF Answered, Leaving
    <3>2. QED
      BY <1>1, <2>3, <3>1 DEF SubscriptionEnds, SubscriptionTerminated, appVars, syncVars
  <2>4. QED
    BY <2>1, <2>2, <2>3
<1>3. QED
  BY <1>2, CleanKept

LEMMA DeviceClean ==
  ASSUME CleanInv, Faultless, DeviceStep
  PROVE  Cleaned'
<1>1. PICK packet \in {"more", "last"} : Indicated(packet) \/ ReadBack(packet)
  BY FaultlessEnv DEF DeviceStep, Packets
<1>2. /\ node.uplink # 0 /\ Payload(packet) /\ link = "up"
      /\ UNCHANGED <<sync, down, pack>>
  BY <1>1 DEF Indicated, ReadBack, Ok, syncVars
<1>3. node.uplink = sync
  BY <1>2, FaultlessEnv DEF OnceInv, OwnInv, OfLatest
<1>4. /\ \E s : up' = [up EXCEPT ![sync] = s]
      /\ UNCHANGED link
  BY <1>1, <1>2, <1>3 DEF Payload, appVars
<1>5. \A k \in Syncs : k # sync => up'[k] = up[k]
  BY <1>4, FaultlessEnv DEF Inv, TypeOK
<1>6. QED
  BY <1>2, <1>4, <1>5, CleanKept

LEMMA UplinkEndsClean ==
  ASSUME CleanInv, Faultless, NEW k \in Syncs, NEW ok \in BOOLEAN, UplinkEnds(k, ok)
  PROVE  Cleaned'
<1>1. k = sync
  BY FaultlessEnv, UplinkEndsPhase
<1>2. /\ up[sync] \in {"fed", "closed"} /\ up' = [up EXCEPT ![sync] = "gone"]
      /\ UNCHANGED <<sync, down, pack, appVars>>
  BY <1>1, FaultlessEnv, OrderEnv DEF UplinkEnds, syncVars
<1>3. link = "up" /\ UNCHANGED link
  BY <1>1, <1>2, FaultlessEnv DEF Cleaned, Clean, appVars
<1>4. \A j \in Syncs : j # sync => up'[j] = up[j]
  BY <1>2, FaultlessEnv DEF Inv, TypeOK
<1>5. QED
  BY <1>2, <1>3, <1>4, CleanKept

\* write_downlink_characteristic, on a connection
LEMMA WriteClean ==
  ASSUME CleanInv, Faultless, NEW rs, Write(rs), link = "up", UNCHANGED <<sync, up>>
  PROVE  Cleaned'
<1>1. /\ down \in [Syncs -> {"none", "null", "waiting", "writing", "aborted", "gone"}]
      /\ node.ctx \in {0, sync} /\ "gatt" \notin env
  BY FaultlessEnv DEF Inv, TypeOK, OnceInv, OwnInv, OfLatest
<1>2. /\ UNCHANGED <<link, pack>>
      /\ down' = down \/ (Live(node.ctx) /\ down' = [down EXCEPT ![node.ctx] = "writing"])
  BY <1>1 DEF Write, appVars
<1>3. \A k \in Syncs : k # sync => down'[k] = down[k]
  BY <1>1, <1>2 DEF Live
<1>4. QED
  BY <1>2, <1>3, CleanKept

LEMMA ResponseClean ==
  ASSUME CleanInv, Faultless, NEW k \in Syncs,
  EndCb(k) \/ \E last \in BOOLEAN : BlockCb(k, last)
  PROVE  Cleaned'
<1>1. UNCHANGED <<sync, up>> /\ Responds(k)
  BY DEF EndCb, BlockCb, syncVars
<1>2. k = sync /\ up[k] = "gone" /\ resp[k] = "open"
  BY <1>1, FaultlessEnv, ResponseOrder DEF Responds
<1>3. link = "up"
  BY <1>2, FaultlessEnv DEF Spent, NoneDue, Due
<1>4. CASE Write(reqs)
  BY <1>1, <1>3, <1>4, WriteClean
<1>5. CASE /\ UNCHANGED <<appVars, pack>>
           /\ down' = down \/ down' = [down EXCEPT ![k] = "gone"]
  <2>1. \A j \in Syncs : j # sync => down'[j] = down[j]
    BY <1>2, <1>5, FaultlessEnv DEF Inv, TypeOK
  <2>2. UNCHANGED link
    BY <1>5 DEF appVars
  <2>3. QED
    BY <1>1, <1>3, <1>5, <2>1, <2>2, CleanKept
<1>6. QED
  BY <1>4, <1>5 DEF EndCb, BlockCb

\* The downlink ends the sync: by then the cloud is done with the uplink, and the
\* context and the packetizer go with the downlink.
LEMMA WrittenClean ==
  ASSUME CleanInv, Faultless, Written
  PROVE  Cleaned'
<1>1. /\ reqs # <<>> /\ Head(reqs) = "write"
      /\ UNCHANGED <<sync, up>>
  BY DEF Written, Answered, syncVars
<1>2. /\ Writing /\ Tail(reqs) = <<>> /\ sync \in Syncs
      /\ down \in [Syncs -> {"none", "null", "waiting", "writing", "aborted", "gone"}]
  <2>1. sync # 0 /\ sync \in 0 .. MaxSyncs
    BY <1>1, FaultlessEnv DEF Inv, Started, TypeOK
  <2>2. sync \in Syncs
    BY <2>1, BoundAssumption DEF Syncs
  <2>3. QED
    BY <1>1, <2>2, FaultlessEnv, PhaseHead DEF Inv, TypeOK
<1>3. link = "up" /\ ~Error
  <2>1. Asked("write", reqs)
    BY <1>1, FaultlessEnv, AskedTail DEF Inv, TypeOK
  <2>2. QED
    BY <2>1, FaultlessEnv DEF Spent
<1>4. node.ctx = sync /\ node.pack = sync /\ down[sync] = "writing" /\ up[sync] = "gone"
  <2>1. node.ctx = sync /\ down[sync] = "writing" /\ up[sync] = "gone"
    BY <1>2 DEF Writing
  <2>2. Equipped /\ sync # 0
    BY <1>2, FaultlessEnv DEF CleanInv, MemoryInv, Supplies, Supplied, Syncs
  <2>3. QED
    BY <2>1, <2>2 DEF Equipped
<1>5. CASE Write(Tail(reqs))
  BY <1>1, <1>3, <1>5, WriteClean
<1>6. CASE EndDownlink
  <2>1. /\ down' = [down EXCEPT ![sync] = "gone"] /\ pack' = pack \ {sync}
    BY <1>4, <1>6 DEF EndDownlink
  <2>2. down'[sync] = "gone" /\ \A j \in Syncs : j # sync => down'[j] = down[j]
    BY <1>2, <2>1
  <2>3. Clean(sync)'
    BY <1>1, <1>4, <2>1, <2>2 DEF Clean, Live
  <2>4. QED
    BY <1>1, <1>3, <2>1, <2>2, <2>3, CleanKept
<1>7. CASE UNCHANGED <<appVars, pack>> /\ (down' = down \/ down' = [down EXCEPT ![sync] = "waiting"])
  <2>1. \A j \in Syncs : j # sync => down'[j] = down[j]
    BY <1>2, <1>7
  <2>2. UNCHANGED link
    BY <1>7 DEF appVars
  <2>3. QED
    BY <1>1, <1>3, <1>7, <2>1, <2>2, CleanKept
<1>8. QED
  BY <1>3, <1>4, <1>5, <1>6, <1>7 DEF Written

\* A discovery that ends the sync has allocated nothing; one that starts the uplink
\* does not end it.
LEMMA DiscoveryClean ==
  ASSUME CleanInv, Faultless, DiscoveryStep
  PROVE  Cleaned'
<1>1. OnceInv /\ CountedOnce /\ ~Doomed /\ (EarlyStep \/ Starts)
  BY FaultlessEnv, DiscoverySplit
<1>2. /\ sync \in Syncs /\ link = "up" /\ Fresh(sync)
      /\ up \in [Syncs -> {"none", "open", "fed", "closed", "stuck", "gone"}]
      /\ down \in [Syncs -> {"none", "null", "waiting", "writing", "aborted", "gone"}]
  BY <1>1, EarlyOnce, FaultlessEnv DEF EarlyStep, Starts, Inv, TypeOK
<1>3. CASE EarlyStep
  <2>1. UNCHANGED <<sync, up, down, pack>>
    BY <1>3 DEF EarlyStep
  <2>2. Clean(sync)'
    BY <1>2, <2>1 DEF Clean, Fresh, Live
  <2>3. QED
    BY <1>2, <2>1, <2>2, CleanKept
<1>4. CASE Starts
  <2>1. PICK d \in {"noscratch", "nocontext", "opened"}, opened \in BOOLEAN,
             source \in {"read", "subscribe"} : Start(d, opened, source)
    BY <1>4 DEF Starts
  <2>2. UNCHANGED <<sync, link>>
    BY <1>2, <2>1, FaultlessEnv DEF Start, appVars
  <2>3. /\ up' = up \/ up' = [up EXCEPT ![sync] = "open"]
        /\ \E s : down' = [down EXCEPT ![sync] = s]
        /\ pack' \subseteq pack \union {sync}
    BY <2>1 DEF Start
  <2>4. \A j \in Syncs : j # sync =>
          up'[j] = up[j] /\ down'[j] = down[j] /\ (j \in pack' => j \in pack)
    BY <1>2, <2>3
  <2>5. QED
    BY <1>2, <2>2, <2>4, CleanKept
<1>5. QED
  BY <1>1, <1>3, <1>4

LEMMA LinkClean ==
  ASSUME CleanInv, Faultless,
  DeviceFound \/ ConnectFails \/ Connected \/ SyncStart \/ Disconnected
  PROVE  Cleaned'
<1>1. /\ (link # "up" => node.uplink = 0) /\ Inv /\ Cleaned /\ app = "gateway" /\ work = "idle"
  BY FaultlessEnv DEF Spent
<1>2. CASE DeviceFound \/ ConnectFails
  <2>1. UNCHANGED <<sync, up, down, pack>> /\ link # "up"
    BY <1>1, <1>2 DEF DeviceFound, ConnectFails, Inv, ScanOrConnection, syncVars, heapVars
  <2>2. QED
    BY <2>1, CleanKept
<1>3. CASE Connected
  <2>1. UNCHANGED <<up, down, pack>> /\ link # "up"
    BY <1>3 DEF Connected, heapVars
  <2>2. QED
    BY <1>1, <2>1 DEF Cleaned, Clean, Live
<1>4. CASE SyncStart
  BY <1>1, <1>4 DEF SyncStart
<1>5. CASE Disconnected
  <2>1. UNCHANGED <<sync, up, down, pack>> /\ link # "up"
    BY <1>1, <1>5 DEF Disconnected, Closed, syncVars
  <2>2. QED
    BY <2>1, CleanKept
<1>6. QED
  BY <1>2, <1>3, <1>4, <1>5

LEMMA InitClean ==
  ASSUME Init
  PROVE  CleanInv
<1>1. MemoryInv
  BY InitMemory
<1>2. Cleaned
  BY DEF Init, Cleaned, Clean, Live
<1>3. QED
  BY <1>1, <1>2 DEF CleanInv

LEMMA NextClean ==
  ASSUME CleanInv, [Next]_vars
  PROVE  CleanInv'
<1>1. MemoryInv'
  BY NextMemory DEF CleanInv
<1>2. Faultless' => Faultless
  BY EnvStays DEF CleanInv, MemoryInv, PhaseInv, OnceInv, Faultless, Without
<1>3. ASSUME Faultless PROVE Cleaned'
  <2>1. CASE DiscoveryStep
    BY <1>3, <2>1, DiscoveryClean
  <2>2. CASE LinkLost \/ ReadError \/ PayloadTooLate \/ Astray \/ SubscriptionEnds
    <3>1. FALSE \in BOOLEAN
      OBVIOUS
    <3>2. QED
      BY <1>3, <2>2, <3>1, QuietClean
  <2>3. CASE \E err \in BOOLEAN : Subscribed(err)
    BY <1>3, <2>3, QuietClean
  <2>4. CASE DeviceFound \/ ConnectFails \/ Connected \/ SyncStart \/ Disconnected
    BY <1>3, <2>4, LinkClean
  <2>5. CASE DeviceStep \/ Written
    BY <1>3, <2>5, DeviceClean, WrittenClean
  <2>6. CASE CloudStep
    <3>1. PICK k \in Syncs :
            \/ \E ok \in BOOLEAN : UplinkEnds(k, ok)
            \/ EndCb(k) \/ \E last \in BOOLEAN : BlockCb(k, last)
      BY <2>6 DEF CloudStep
    <3>2. CASE \E ok \in BOOLEAN : UplinkEnds(k, ok)
      BY <1>3, <3>2, UplinkEndsClean
    <3>3. CASE EndCb(k) \/ \E last \in BOOLEAN : BlockCb(k, last)
      BY <1>3, <3>3, ResponseClean
    <3>4. QED
      BY <3>1, <3>2, <3>3
  <2>7. CASE UNCHANGED vars
    <3>1. UNCHANGED <<link, sync, up, down, pack>>
      BY <2>7 DEF vars, appVars, syncVars, heapVars
    <3>2. QED
      BY <1>3, <3>1, CleanKept
  <2>8. QED
    BY <2>1, <2>2, <2>3, <2>4, <2>5, <2>6, <2>7 DEF Next, ConnectionStep, AnswerStep
<1>4. QED
  BY <1>1, <1>2, <1>3 DEF CleanInv

\* A sync of the gateway in which nothing fails gives back the uplink, the downlink
\* context, the packetizer and the scratch buffer, whatever the cloud's pace.
THEOREM NothingEverLeft == Spec => []NothingLeft
<1>1. Init => CleanInv
  BY InitClean
<1>2. CleanInv /\ [Next]_vars => CleanInv'
  BY NextClean
<1>3. CleanInv => NothingLeft
  <2>1. SUFFICES ASSUME CleanInv, Faultless, link = "none"
                 PROVE  /\ scratch = {} /\ pack = {}
                        /\ \A k \in Syncs : up[k] \in {"none", "gone"} /\ ~Live(k)
    BY DEF NothingLeft, Faultless
  <2>2. Inv /\ Cleaned /\ app = "gateway"
    BY <2>1, FaultlessEnv
  <2>3. scratch = {} /\ pack \subseteq Syncs
    BY <2>1, <2>2 DEF Inv, OneSync, TypeOK
  <2>4. QED
    BY <2>1, <2>2, <2>3 DEF Cleaned, Clean
<1>4. QED
  BY <1>1, <1>2, <1>3, PTL DEF Spec
=============================================================================
