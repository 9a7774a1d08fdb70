--------------------------- MODULE SessionProofs ---------------------------
(***************************************************************************)
(* What holds of the gateway in every environment: its type, that it scans *)
(* when it has no connection, and that bt_stop finds the scratch buffer.   *)
(*                                                                         *)
(* Discovery is what makes the last one hard: bt_start clears the node, so *)
(* a buffer must not be there while a discovery is under way.  Everything  *)
(* but connecting and discovering changes little of what this rests on;    *)
(* LateStep says how little, and is shown of each action.                  *)
(***************************************************************************)
EXTENDS Session, TLAPS

\* The requests that come before the uplink and the downlink are started
Early == Discovery \union {"cert"}

Pending(s) == \E i \in 1 .. Len(s) : s[i] \in Early

\* Before the first sync nothing has been asked of the host.
Started ==
  /\ begun <= sync
  /\ sync = 0 => reqs = <<>> /\ ~sub /\ node.scratch = 0

\* The gateway application has one sync per connection, which starts with
\* nothing left of the last one.
OneSync ==
  app = "gateway" =>
    /\ work = "idle"
    /\ link = "creating" => sync < MaxSyncs
    /\ link \in {"none", "creating"} => reqs = <<>> /\ ~sub /\ scratch = {}
    /\ scratch \subseteq {node.scratch}
    /\ Pending(reqs) => Len(reqs) = 1 /\ ~sub /\ scratch = {} /\ node.scratch = 0

\* A second sync is scheduled or possible only if there was no more than one: work
\* that is left over from the last connection counts as the first.
Capped ==
  /\ app = "gateway" => begun <= 1
  /\ work # "idle" \/ counter = 0 => begun <= 1
  /\ app # "gateway" /\ work # "idle" /\ counter = 0 => begun = 0

Inv == TypeOK /\ Started /\ Capped /\ OneSync /\ ScanOrConnection

\* What bt_finished may do to the connection lk and the work wk
AppStep(lk, wk) ==
  /\ link' = lk \/ (lk = "up" /\ link' = "closing")
  /\ counter' \in 0 .. 2
  /\ work' \in {"idle", "now", "later"}
  /\ app = "gateway" => work' = wk
  /\ counter' = 0 => counter = 0
  /\ work' # wk => counter = 0 /\ counter' # 0

\* The host drops its oldest request and gets a new one, or not.
HostStep ==
  \E rs \in {reqs, Tail(reqs)} :
    /\ rs = reqs \/ reqs # <<>>
    /\ \/ reqs' = rs
       \/ /\ link = "up" /\ (sub \/ node.scratch # 0)
          /\ \E op \in Requests \ Early : reqs' = Append(rs, op)

LateStep ==
  /\ UNCHANGED <<app, env, scan, begun, sync, scratch>>
  /\ AppStep(link, work)
  /\ node'.scratch = node.scratch
  /\ sub' => sub
  /\ HostStep

\* The part of the type that LateStep says nothing of
RestType ==
  /\ node \in NodeType /\ sub \in BOOLEAN
  /\ up \in [Syncs -> {"none", "open", "fed", "closed", "stuck", "gone"}]
  /\ down \in [Syncs -> {"none", "null", "waiting", "writing", "aborted", "gone"}]
  /\ resp \in [Syncs -> {"open", "last", "failed"}]
  /\ pack \subseteq Syncs
  /\ fault \in {"none", "cert", "uplink", "downlink", "params"}

-----------------------------------------------------------------------------
(* Requests                                                                *)

\* One more request: only an early one is pending that was not before.
LEMMA PendingAppend ==
  ASSUME NEW s \in Seq(Requests), NEW op \in Requests
  PROVE  /\ Append(s, op) \in Seq(Requests)
         /\ Len(Append(s, op)) = Len(s) + 1
         /\ Append(s, op) # <<>>
         /\ Pending(Append(s, op)) => Pending(s) \/ op \in Early
<1>1. /\ Append(s, op) \in Seq(Requests)
      /\ Len(s) \in Nat
      /\ Len(Append(s, op)) = Len(s) + 1
      /\ \A i \in 1 .. Len(s) : Append(s, op)[i] = s[i]
      /\ Append(s, op)[Len(s) + 1] = op
  OBVIOUS
<1>2. Append(s, op) # <<>>
  BY <1>1
<1>3. ASSUME Pending(Append(s, op))
      PROVE  Pending(s) \/ op \in Early
  <2>1. PICK i \in 1 .. Len(Append(s, op)) : Append(s, op)[i] \in Early
    BY <1>3 DEF Pending
  <2>2. CASE i \in 1 .. Len(s)
    BY <2>1, <2>2, <1>1 DEF Pending
  <2>3. CASE i = Len(s) + 1
    BY <2>1, <2>3, <1>1
  <2>4. QED
    BY <2>1, <2>2, <2>3, <1>1
<1>4. QED
  BY <1>1, <1>2, <1>3

\* The oldest request is dropped.
LEMMA PendingTail ==
  ASSUME NEW s \in Seq(Requests), s # <<>>
  PROVE  /\ Tail(s) \in Seq(Requests)
         /\ Len(Tail(s)) = Len(s) - 1
         /\ Head(s) \in Requests
         /\ Head(s) \in Early => Pending(s)
         /\ Pending(Tail(s)) => Pending(s)
<1>1. /\ Tail(s) \in Seq(Requests)
      /\ Len(s) \in Nat \ {0}
      /\ Len(Tail(s)) = Len(s) - 1
      /\ Head(s) = s[1]
      /\ Head(s) \in Requests
  OBVIOUS
<1>2. \A i \in 1 .. Len(s) - 1 : Tail(s)[i] = s[i + 1]
  OBVIOUS
<1>3. ASSUME Pending(Tail(s))
      PROVE  Pending(s)
  <2>1. PICK i \in 1 .. Len(s) - 1 : s[i + 1] \in Early
    BY <1>1, <1>2, <1>3 DEF Pending
  <2>2. i + 1 \in 1 .. Len(s)
    BY <1>1
  <2>3. QED
    BY <2>1, <2>2 DEF Pending
<1>4. ASSUME Head(s) \in Early
      PROVE  Pending(s)
  <2>1. 1 \in 1 .. Len(s) /\ s[1] \in Early
    BY <1>1, <1>4
  <2>2. QED
    BY <2>1 DEF Pending
<1>5. QED
  BY <1>1, <1>3, <1>4

\* A queue of one request is empty without it; an empty one has none pending.
LEMMA LastRequest ==
  /\ ~Pending(<<>>)
  /\ \A s \in Seq(Requests) : Len(s) = 1 => Tail(s) = <<>> /\ s # <<>>
  /\ \A s \in Seq(Requests) : Len(s) = 0 => s = <<>>
<1>1. Len(<<>>) = 0
  OBVIOUS
<1>2. ~Pending(<<>>)
  BY <1>1 DEF Pending
<1>3. ASSUME NEW s \in Seq(Requests), Len(s) = 0
      PROVE  s = <<>>
  BY <1>3
<1>4. ASSUME NEW s \in Seq(Requests), Len(s) = 1
      PROVE  Tail(s) = <<>> /\ s # <<>>
  <2>1. s # <<>>
    <3>1. Len(s) # 0
      BY <1>4
    <3>2. QED
      BY <3>1, <1>1, Zenon
  <2>2. Len(Tail(s)) = 0 /\ Tail(s) \in Seq(Requests)
    BY <2>1, <1>4, PendingTail
  <2>3. QED
    BY <2>1, <2>2, <1>3
<1>5. QED
  BY <1>2, <1>3, <1>4

-----------------------------------------------------------------------------
(* What the actions have in common                                         *)

\* bt_finished leaves a connection up, or closes it.
LEMMA FinishedSteps ==
  ASSUME TypeOK, NEW lk, NEW wk \in {"idle", "now", "later"},
         Finished(lk, wk) \/ Unfinished(lk, wk)
  PROVE  AppStep(lk, wk)
<1>1. counter \in 0 .. 2
  BY DEF TypeOK
<1>2. CASE Finished(lk, wk)
  BY <1>1, <1>2 DEF Finished, AppStep
<1>3. CASE Unfinished(lk, wk)
  BY <1>1, <1>3 DEF Unfinished, AppStep
<1>4. QED
  BY <1>2, <1>3

\* A request is queued on a connection that is up, or refused.
LEMMA RequestSteps ==
  ASSUME TypeOK, NEW lk, NEW wk \in {"idle", "now", "later"}, NEW rs, NEW op,
         Request(lk, wk, rs, op)
  PROVE  /\ AppStep(lk, wk)
         /\ reqs' = rs \/ (lk = "up" /\ reqs' = Append(rs, op))
<1>1. CASE Finished(lk, wk) /\ reqs' = rs
  BY <1>1, FinishedSteps
<1>2. CASE lk = "up" /\ reqs' = Append(rs, op) /\ Unfinished(lk, wk)
  <2>1. AppStep(lk, wk)
    BY <1>2, FinishedSteps
  <2>2. link' = "up"
    BY <1>2 DEF Unfinished
  <2>3. QED
    BY <1>2, <2>1, <2>2
<1>3. QED
  BY <1>1, <1>2 DEF Request

\* The type after a late step, if its own part of it is kept
LEMMA LateType ==
  ASSUME TypeOK, LateStep, RestType'
  PROVE  TypeOK'
<1>1. PICK rs \in {reqs, Tail(reqs)} :
        /\ rs = reqs \/ reqs # <<>>
        /\ \/ reqs' = rs
           \/ \E op \in Requests : reqs' = Append(rs, op)
  BY DEF LateStep, HostStep
<1>2. rs \in Seq(Requests)
  <2>1. reqs \in Seq(Requests)
    BY DEF TypeOK
  <2>2. QED
    BY <1>1, <2>1, PendingTail
<1>3. reqs' \in Seq(Requests)
  BY <1>1, <1>2, PendingAppend
<1>4. /\ app' \in Apps /\ env' \in Envs /\ scan' \in BOOLEAN
      /\ begun' \in 0 .. 2 /\ sync' \in 0 .. MaxSyncs
      /\ scratch' \subseteq Syncs
  BY DEF LateStep, TypeOK
<1>5. /\ link' \in {"none", "creating", "up", "closing"}
      /\ work' \in {"idle", "now", "later"} /\ counter' \in 0 .. 2
  BY DEF LateStep, AppStep, TypeOK
<1>6. QED
  BY <1>3, <1>4, <1>5 DEF TypeOK, RestType

\* What bt_finished does to the counter and the work keeps their relation.
LEMMA AppCapped ==
  ASSUME Inv, AppStep(link, work), UNCHANGED <<app, begun>>
  PROVE  Capped'
BY DEF Inv, Capped, AppStep

\* A late step keeps what the invariant says beyond the type: it queues nothing
\* early, and nothing at all while something early is pending.
LEMMA LateKeeps ==
  ASSUME Inv, LateStep
  PROVE  Started' /\ Capped' /\ OneSync' /\ ScanOrConnection'
<1> USE DEF Inv
<1>1. /\ UNCHANGED <<app, env, scan, begun, sync, scratch>>
      /\ link' = link \/ (link = "up" /\ link' = "closing")
      /\ app = "gateway" => work' = work
      /\ node'.scratch = node.scratch
      /\ sub' => sub
  BY DEF LateStep, AppStep
<1>2. PICK rs \in {reqs, Tail(reqs)} :
        /\ rs = reqs \/ reqs # <<>>
        /\ \/ reqs' = rs
           \/ /\ link = "up" /\ (sub \/ node.scratch # 0)
              /\ \E op \in Requests \ Early : reqs' = Append(rs, op)
  BY DEF LateStep, HostStep
<1>3. reqs \in Seq(Requests)
  BY DEF TypeOK
<1>4. rs \in Seq(Requests) /\ (Pending(rs) => Pending(reqs))
  BY <1>2, <1>3, PendingTail
<1>5. reqs = <<>> /\ ~(sub \/ node.scratch # 0) => reqs' = <<>>
  BY <1>2
<1>6. reqs = <<>> /\ link # "up" => reqs' = <<>>
  BY <1>2
<1>7. Started'
  BY <1>1, <1>5 DEF Started
<1>8. ScanOrConnection'
  BY <1>1 DEF ScanOrConnection
<1>9. Pending(reqs') => Pending(reqs)
  <2>1. CASE reqs' = rs
    BY <2>1, <1>4
  <2>2. CASE \E op \in Requests \ Early : reqs' = Append(rs, op)
    <3>1. PICK op \in Requests \ Early : reqs' = Append(rs, op)
      BY <2>2
    <3>2. Pending(Append(rs, op)) => Pending(rs)
      BY <1>4, PendingAppend
    <3>3. QED
      BY <3>1, <3>2, <1>4
  <2>3. QED
    BY <1>2, <2>1, <2>2
<1>10. ASSUME app = "gateway", Pending(reqs')
       PROVE  Len(reqs') = 1
  <2>1. Len(reqs) = 1 /\ ~sub /\ node.scratch = 0
    BY <1>9, <1>10 DEF OneSync
  <2>2. reqs' = rs
    BY <1>2, <2>1
  <2>3. rs # Tail(reqs)
    BY <1>3, <1>10, <2>1, <2>2, LastRequest
  <2>4. QED
    BY <1>2, <2>1, <2>2, <2>3
<1>11. OneSync'
  BY <1>1, <1>6, <1>9, <1>10 DEF OneSync
<1>12. Capped'
  BY AppCapped DEF LateStep
<1>13. QED
  BY <1>7, <1>8, <1>11, <1>12

-----------------------------------------------------------------------------
(* The late actions                                                        *)

\* What the parts of the downlink's actions leave the rest to
DownlinkPart ==
  /\ AppStep(link, work) /\ HostStep
  /\ node' \in NodeType /\ node'.scratch = node.scratch
  /\ down' \in [Syncs -> {"none", "null", "waiting", "writing", "aborted", "gone"}]
  /\ pack' \subseteq Syncs
  /\ fault' \in {"none", "cert", "uplink", "downlink", "params"}

\* An action that changes nothing but the fault
LEMMA StayingSteps ==
  ASSUME TypeOK, link' = link, work' = work, counter' = counter
  PROVE  AppStep(link, work)
BY DEF TypeOK, AppStep

\* The host drops a request, or nothing.
LEMMA DroppingSteps ==
  ASSUME NEW rs \in {reqs, Tail(reqs)}, rs = reqs \/ reqs # <<>>, reqs' = rs
  PROVE  HostStep
BY DEF HostStep

\* The host gets a late request.
LEMMA QueueingSteps ==
  ASSUME NEW rs \in {reqs, Tail(reqs)}, rs = reqs \/ reqs # <<>>,
         link = "up", sub \/ node.scratch # 0,
         NEW op \in Requests \ Early, reqs' = Append(rs, op)
  PROVE  HostStep
BY DEF HostStep

\* No late request is an early one.
LEMMA LateRequests ==
  {"read", "subscribe", "unsubscribe", "write"} \subseteq Requests \ Early
BY DEF Requests, Early, Discovery

\* The error path of the downlink
LEMMA AbandonSteps ==
  ASSUME TypeOK, NEW rs \in {reqs, Tail(reqs)}, rs = reqs \/ reqs # <<>>,
         NEW ends \in SUBSET {"aborted", "gone"}, Abandon(rs, ends)
  PROVE  DownlinkPart
<1>1. work \in {"idle", "now", "later"} /\ node \in NodeType
  BY DEF TypeOK
<1>2. CASE /\ \E d \in ends : down' = [down EXCEPT ![node.ctx] = d]
           /\ pack' = pack \ {node.pack}
           /\ reqs' = rs /\ Finished(link, work)
           /\ UNCHANGED <<node, fault>>
  <2>1. AppStep(link, work)
    BY <1>1, <1>2, FinishedSteps
  <2>2. HostStep
    BY <1>2, DroppingSteps
  <2>3. down' \in [Syncs -> {"none", "null", "waiting", "writing", "aborted", "gone"}]
    BY <1>2 DEF TypeOK
  <2>4. node' = node /\ pack' \subseteq Syncs /\ fault' = fault
    BY <1>2 DEF TypeOK
  <2>5. QED
    BY <1>1, <2>1, <2>2, <2>3, <2>4 DEF DownlinkPart, TypeOK
<1>3. CASE /\ fault' = "downlink"
           /\ UNCHANGED <<node, reqs, appVars, down, pack>>
  <2>1. AppStep(link, work) /\ HostStep
    BY <1>3, StayingSteps, DroppingSteps DEF appVars
  <2>2. QED
    BY <1>1, <1>3, <2>1 DEF DownlinkPart, TypeOK
<1>4. QED
  BY <1>2, <1>3 DEF Abandon

\* write_downlink_characteristic
LEMMA WriteSteps ==
  ASSUME TypeOK, NEW rs \in {reqs, Tail(reqs)}, rs = reqs \/ reqs # <<>>, Write(rs)
  PROVE  DownlinkPart
<1>1. node \in NodeType /\ link \in {"none", "creating", "up", "closing"}
  BY DEF TypeOK
<1>2. CASE \E ends \in SUBSET {"aborted", "gone"} : Abandon(rs, ends)
  BY <1>2, AbandonSteps
<1>3. CASE /\ link = "up" /\ node.scratch # 0
           /\ node' = [node EXCEPT !.params = "write"]
           /\ down' = [down EXCEPT ![node.ctx] = "writing"]
           /\ reqs' = Append(rs, "write")
           /\ UNCHANGED <<appVars, pack, fault>>
  <2>1. AppStep(link, work) /\ link' = "up"
    BY <1>3, StayingSteps DEF appVars
  <2>2. HostStep
    BY <1>3, <2>1, QueueingSteps, LateRequests
  <2>3. node' \in NodeType /\ node'.scratch = node.scratch
    BY <1>1, <1>3 DEF NodeType
  <2>4. down' \in [Syncs -> {"none", "null", "waiting", "writing", "aborted", "gone"}]
    BY <1>3 DEF TypeOK
  <2>5. pack' = pack /\ fault' = fault
    BY <1>3
  <2>6. QED
    BY <2>1, <2>2, <2>3, <2>4, <2>5 DEF DownlinkPart, TypeOK
<1>4. CASE /\ fault' = "downlink"
           /\ UNCHANGED <<node, reqs, appVars, down, pack>>
  <2>1. AppStep(link, work) /\ HostStep
    BY <1>4, StayingSteps, DroppingSteps DEF appVars
  <2>2. QED
    BY <1>1, <1>4, <2>1 DEF DownlinkPart, TypeOK
<1>5. {"aborted"} \in SUBSET {"aborted", "gone"}
  OBVIOUS
<1>6. AbortEnds(resp'[node.ctx]) \in SUBSET {"aborted", "gone"}
  BY DEF AbortEnds
<1>7. CASE link # "up" /\ Abandon(rs, {"aborted"})
  BY <1>2, <1>5, <1>7
<1>8. CASE "gatt" \in env /\ Abandon(rs, AbortEnds(resp'[node.ctx]))
  BY <1>2, <1>6, <1>8
<1>9. QED
  BY <1>3, <1>4, <1>7, <1>8 DEF Write

\* What the parts of the uplink's actions leave the rest to
UplinkPart ==
  /\ AppStep(link, work)
  /\ node' \in NodeType /\ node'.scratch = node.scratch
  /\ up' \in [Syncs -> {"none", "open", "fed", "closed", "stuck", "gone"}]

\* pouch_gateway_uplink_close
LEMMA ClosedType ==
  ASSUME TypeOK, NEW u
  PROVE  Closed(u) \in [Syncs -> {"none", "open", "fed", "closed", "stuck", "gone"}]
BY DEF TypeOK, Closed

\* Nothing of the uplink changes, or node->uplink is cleared.
LEMMA NodeKept ==
  ASSUME TypeOK, node' = node \/ node' = [node EXCEPT !.uplink = 0]
  PROVE  node' \in NodeType /\ node'.scratch = node.scratch
<1>1. node \in NodeType /\ 0 \in 0 .. MaxSyncs
  BY BoundAssumption DEF TypeOK
<1>2. QED
  BY <1>1 DEF NodeType

\* handle_uplink_payload
LEMMA PayloadSteps ==
  ASSUME TypeOK, NEW packet \in Packets, Payload(packet)
  PROVE  UplinkPart /\ (packet \notin {"bad", "refused"} => link' = link)
<1>1. work \in {"idle", "now", "later"}
  BY DEF TypeOK
<1>2. packet \in {"more", "last", "bad", "refused"}
  BY DEF Packets
<1>3. CASE packet = "more"
  <2>1. up' = [up EXCEPT ![node.uplink] = "fed"] /\ node' = node /\ UNCHANGED appVars
    BY <1>3 DEF Payload
  <2>2. up' \in [Syncs -> {"none", "open", "fed", "closed", "stuck", "gone"}]
    BY <2>1 DEF TypeOK
  <2>3. QED
    BY <2>1, <2>2, NodeKept, StayingSteps DEF UplinkPart, appVars
<1>4. CASE packet = "last"
  <2>1. /\ up' = [up EXCEPT ![node.uplink] = "closed"]
        /\ node' = [node EXCEPT !.uplink = 0] /\ UNCHANGED appVars
    BY <1>4 DEF Payload
  <2>2. up' \in [Syncs -> {"none", "open", "fed", "closed", "stuck", "gone"}]
    BY <2>1 DEF TypeOK
  <2>3. QED
    BY <2>1, <2>2, NodeKept, StayingSteps DEF UplinkPart, appVars
<1>5. CASE packet \in {"bad", "refused"}
  <2>1. /\ Finished(link, work) /\ node' = node
        /\ up' = up \/ up' = [up EXCEPT ![node.uplink] = "fed"]
    BY <1>5 DEF Payload
  <2>2. AppStep(link, work)
    BY <1>1, <2>1, FinishedSteps
  <2>3. up' \in [Syncs -> {"none", "open", "fed", "closed", "stuck", "gone"}]
    BY <2>1 DEF TypeOK
  <2>4. QED
    BY <1>5, <2>1, <2>2, <2>3, NodeKept DEF UplinkPart
<1>6. QED
  BY <1>2, <1>3, <1>4, <1>5

\* tf_uplink_indicate_cb with NULL, if it is called at all
LEMMA TerminatedSteps ==
  ASSUME TypeOK, SubscriptionTerminated \/ UNCHANGED <<up, node, appVars>>
  PROVE  UplinkPart
<1>1. work \in {"idle", "now", "later"}
  BY DEF TypeOK
<1>2. CASE UNCHANGED <<up, node, appVars>>
  <2>1. AppStep(link, work)
    BY <1>2, StayingSteps DEF appVars
  <2>2. up' \in [Syncs -> {"none", "open", "fed", "closed", "stuck", "gone"}]
    BY <1>2 DEF TypeOK
  <2>3. QED
    BY <1>2, <2>1, <2>2, NodeKept DEF UplinkPart
<1>3. CASE /\ up' = Closed(node.uplink)
           /\ node' = [node EXCEPT !.uplink = 0]
           /\ Finished(link, work)
  <2>1. AppStep(link, work)
    BY <1>1, <1>3, FinishedSteps
  <2>2. QED
    BY <1>3, <2>1, ClosedType, NodeKept DEF UplinkPart
<1>4. QED
  BY <1>2, <1>3 DEF SubscriptionTerminated

\* An indication; after the last one, and a bad one, the host unsubscribes.
LEMMA IndicatedLate ==
  ASSUME TypeOK, NEW packet \in Packets, Indicated(packet)
  PROVE  LateStep /\ RestType'
<1>1. UplinkPart
  BY PayloadSteps DEF Indicated
<1>2. /\ UNCHANGED <<app, env, scan, begun, sync, scratch, down, resp, pack, fault>>
      /\ sub /\ link = "up"
      /\ \/ sub' = sub /\ reqs' = reqs
         \/ sub' = FALSE /\ reqs' = Append(reqs, "unsubscribe")
  BY DEF Indicated, fixed, syncVars, hostVars
<1>3. HostStep
  <2>1. CASE reqs' = reqs
    BY <2>1, DroppingSteps
  <2>2. CASE reqs' = Append(reqs, "unsubscribe")
    BY <1>2, <2>2, QueueingSteps, LateRequests
  <2>3. QED
    BY <1>2, <2>1, <2>2
<1>4. LateStep
  BY <1>1, <1>2, <1>3 DEF LateStep, UplinkPart
<1>5. RestType'
  BY <1>1, <1>2, <1>3 DEF RestType, UplinkPart, TypeOK
<1>6. QED
  BY <1>4, <1>5

\* A read
LEMMA ReadBackLate ==
  ASSUME TypeOK, NEW packet \in Packets, ReadBack(packet)
  PROVE  LateStep /\ RestType'
<1>1. UplinkPart
  BY PayloadSteps DEF ReadBack
<1>2. /\ UNCHANGED <<app, env, scan, begun, sync, scratch, sub, down, resp, pack, fault>>
      /\ reqs # <<>>
      /\ reqs' = reqs \/ reqs' = Tail(reqs)
  BY DEF ReadBack, Answered, fixed, syncVars
<1>3. HostStep
  BY <1>2, DroppingSteps
<1>4. LateStep
  BY <1>1, <1>2, <1>3 DEF LateStep, UplinkPart
<1>5. RestType'
  BY <1>1, <1>2, <1>3 DEF RestType, UplinkPart, TypeOK
<1>6. QED
  BY <1>4, <1>5

\* A misuse, and the error of a read
LEMMA QuietLate ==
  ASSUME TypeOK,
         LinkLost \/ ReadError \/ PayloadTooLate \/ Astray \/ ExchangeWithoutContext
  PROVE  LateStep /\ RestType'
<1>1. /\ UNCHANGED <<app, env, scan, work, counter, begun, sync, node, sub, up, down, resp,
                     scratch, pack>>
      /\ link' = link \/ (link = "up" /\ link' = "closing")
      /\ reqs' = reqs \/ (reqs # <<>> /\ reqs' = Tail(reqs))
      /\ fault' \in {fault, "cert", "uplink", "params"}
  BY DEF LinkLost, ReadError, PayloadTooLate, Astray, ExchangeWithoutContext, Fail,
     Answered, fixed, appVars, syncVars,
         hostVars, heapVars
<1>2. AppStep(link, work)
  BY <1>1 DEF AppStep, TypeOK
<1>3. HostStep
  BY <1>1, DroppingSteps
<1>4. LateStep
  BY <1>1, <1>2, <1>3 DEF LateStep
<1>5. RestType'
  BY <1>1, <1>2, <1>3 DEF RestType, TypeOK
<1>6. QED
  BY <1>4, <1>5

\* The answer to the subscription
LEMMA SubscribedLate ==
  ASSUME TypeOK, NEW err \in BOOLEAN, Subscribed(err)
  PROVE  LateStep /\ RestType'
<1>1. UplinkPart
  BY TerminatedSteps DEF Subscribed
<1>2. /\ UNCHANGED <<app, env, scan, begun, sync, scratch, down, resp, pack, fault>>
      /\ sub' = sub \/ sub' = FALSE
      /\ reqs # <<>> /\ reqs' = Tail(reqs)
  BY DEF Subscribed, Answered, fixed, syncVars
<1>3. HostStep
  BY <1>2, DroppingSteps
<1>4. LateStep
  BY <1>1, <1>2, <1>3 DEF LateStep, UplinkPart
<1>5. RestType'
  BY <1>1, <1>2, <1>3 DEF RestType, UplinkPart, TypeOK
<1>6. QED
  BY <1>4, <1>5

\* The end of the subscription
LEMMA EndedLate ==
  ASSUME TypeOK, SubscriptionEnds
  PROVE  LateStep /\ RestType'
<1>1. UplinkPart
  BY TerminatedSteps DEF SubscriptionEnds
<1>2. /\ UNCHANGED <<app, env, scan, begun, sync, scratch, down, resp, pack, fault>>
      /\ sub' = sub \/ sub' = FALSE
      /\ reqs' = reqs \/ (reqs # <<>> /\ reqs' = Tail(reqs))
  BY DEF SubscriptionEnds, Answered, fixed, syncVars
<1>3. HostStep
  BY <1>2, DroppingSteps
<1>4. LateStep
  BY <1>1, <1>2, <1>3 DEF LateStep, UplinkPart
<1>5. RestType'
  BY <1>1, <1>2, <1>3 DEF RestType, UplinkPart, TypeOK
<1>6. QED
  BY <1>4, <1>5

\* The cloud ends an uplink, of whatever sync.
LEMMA UplinkEndsLate ==
  ASSUME TypeOK, NEW k \in Syncs, NEW ok \in BOOLEAN, UplinkEnds(k, ok)
  PROVE  LateStep /\ RestType'
<1>1. /\ UNCHANGED <<app, env, scan, begun, sync, scratch, down, pack, fault>>
      /\ node' = [node EXCEPT !.uplink = 0]
      /\ \/ sub' = sub /\ reqs' = reqs
         \/ link = "up" /\ sub /\ sub' = FALSE /\ reqs' = Append(reqs, "unsubscribe")
      /\ UNCHANGED appVars \/ Finished(link, work)
  BY DEF UplinkEnds, fixed, syncVars, hostVars
<1>2. AppStep(link, work)
  <2>1. work \in {"idle", "now", "later"}
    BY DEF TypeOK
  <2>2. QED
    BY <1>1, <2>1, FinishedSteps, StayingSteps DEF appVars
<1>3. HostStep
  <2>1. CASE reqs' = reqs
    BY <2>1, DroppingSteps
  <2>2. CASE link = "up" /\ sub /\ reqs' = Append(reqs, "unsubscribe")
    BY <2>2, QueueingSteps, LateRequests
  <2>3. QED
    BY <1>1, <2>1, <2>2
<1>4. node' \in NodeType /\ node'.scratch = node.scratch
  BY <1>1, NodeKept
<1>5. /\ up' \in [Syncs -> {"none", "open", "fed", "closed", "stuck", "gone"}]
      /\ resp' \in [Syncs -> {"open", "last", "failed"}]
  BY DEF UplinkEnds, TypeOK
<1>6. LateStep
  BY <1>1, <1>2, <1>3, <1>4, <1>5 DEF LateStep
<1>7. RestType'
  BY <1>1, <1>2, <1>3, <1>4, <1>5 DEF RestType, TypeOK
<1>8. QED
  BY <1>6, <1>7

\* A block of the response, and its end with an error
LEMMA ResponseLate ==
  ASSUME TypeOK, NEW k \in Syncs,
         EndCb(k) \/ \E last \in BOOLEAN : BlockCb(k, last)
  PROVE  LateStep /\ RestType'
<1>1. /\ UNCHANGED <<app, env, scan, begun, sync, scratch, sub, up>>
      /\ resp' \in [Syncs -> {"open", "last", "failed"}]
  BY DEF EndCb, BlockCb, fixed, syncVars, TypeOK
<1>2. DownlinkPart
  <2>1. CASE Write(reqs)
    BY <2>1, WriteSteps
  <2>2. CASE /\ UNCHANGED <<node, reqs, appVars, pack>>
             /\ down' = down \/ down' = [down EXCEPT ![k] = "gone"]
             /\ fault' = fault \/ fault' = "downlink"
    <3>1. AppStep(link, work)
      BY <2>2, StayingSteps DEF appVars
    <3>2. HostStep
      BY <2>2, DroppingSteps
    <3>3. down' \in [Syncs -> {"none", "null", "waiting", "writing", "aborted", "gone"}]
      BY <2>2 DEF TypeOK
    <3>4. QED
      BY <2>2, <3>1, <3>2, <3>3 DEF DownlinkPart, TypeOK
  <2>3. QED
    BY <2>1, <2>2 DEF EndCb, BlockCb
<1>3. LateStep
  BY <1>1, <1>2 DEF LateStep, DownlinkPart
<1>4. RestType'
  BY <1>1, <1>2 DEF RestType, DownlinkPart, TypeOK
<1>5. QED
  BY <1>3, <1>4

\* The answer to a write
LEMMA WrittenLate ==
  ASSUME TypeOK, Written
  PROVE  LateStep /\ RestType'
<1>1. /\ UNCHANGED <<app, env, scan, begun, sync, scratch, sub, up, resp>>
      /\ reqs # <<>> /\ Tail(reqs) \in {reqs, Tail(reqs)}
      /\ work \in {"idle", "now", "later"}
  BY DEF Written, Answered, fixed, syncVars, TypeOK
<1>2. DownlinkPart
  <2>1. CASE Write(Tail(reqs))
    BY <1>1, <2>1, WriteSteps
  <2>2. CASE Abandon(Tail(reqs), AbortEnds(resp[node.ctx]))
    <3>1. AbortEnds(resp[node.ctx]) \in SUBSET {"aborted", "gone"}
      BY DEF AbortEnds
    <3>2. QED
      BY <1>1, <2>2, <3>1, AbandonSteps
  <2>3. CASE EndDownlink /\ reqs' = Tail(reqs) /\ UNCHANGED <<node, fault>>
    <3>1. AppStep(link, work)
      BY <1>1, <2>3, FinishedSteps DEF EndDownlink
    <3>2. HostStep
      BY <1>1, <2>3, DroppingSteps
    <3>3. /\ down' \in [Syncs -> {"none", "null", "waiting", "writing", "aborted", "gone"}]
          /\ pack' \subseteq Syncs
      BY <2>3 DEF EndDownlink, TypeOK
    <3>4. QED
      BY <2>3, <3>1, <3>2, <3>3 DEF DownlinkPart, TypeOK
  <2>4. CASE /\ down' = down \/ down' = [down EXCEPT ![node.ctx] = "waiting"]
             /\ reqs' = reqs \/ reqs' = Tail(reqs)
             /\ fault' = fault \/ fault' = "downlink"
             /\ UNCHANGED <<node, appVars, pack>>
    <3>1. AppStep(link, work)
      BY <2>4, StayingSteps DEF appVars
    <3>2. HostStep
      BY <1>1, <2>4, DroppingSteps
    <3>3. down' \in [Syncs -> {"none", "null", "waiting", "writing", "aborted", "gone"}]
      BY <2>4 DEF TypeOK
    <3>4. QED
      BY <2>4, <3>1, <3>2, <3>3 DEF DownlinkPart, TypeOK
  <2>5. QED
    BY <2>1, <2>2, <2>3, <2>4 DEF Written
<1>3. LateStep
  BY <1>1, <1>2 DEF LateStep, DownlinkPart
<1>4. RestType'
  BY <1>1, <1>2 DEF RestType, DownlinkPart, TypeOK
<1>5. QED
  BY <1>3, <1>4

-----------------------------------------------------------------------------
(* Discovery                                                               *)

\* An early request is the only one, and comes after a sync has begun.
LEMMA EarlyAlone ==
  ASSUME Inv, reqs # <<>>, Head(reqs) \in Early
  PROVE  /\ sync \in Syncs
         /\ Tail(reqs) \in Seq(Requests)
         /\ app = "gateway" =>
              /\ Tail(reqs) = <<>> /\ ~sub /\ scratch = {} /\ node.scratch = 0
              /\ link \notin {"none", "creating"} /\ work = "idle"
<1> USE DEF Inv
<1>1. reqs \in Seq(Requests) /\ sync \in 0 .. MaxSyncs
  BY DEF TypeOK
<1>2. Pending(reqs) /\ Tail(reqs) \in Seq(Requests)
  BY <1>1, PendingTail
<1>3. sync \in Syncs
  BY <1>1, BoundAssumption DEF Started, Syncs
<1>4. ASSUME app = "gateway"
      PROVE  /\ Len(reqs) = 1 /\ ~sub /\ scratch = {} /\ node.scratch = 0
             /\ link \notin {"none", "creating"} /\ work = "idle"
  BY <1>2, <1>4 DEF OneSync
<1>5. app = "gateway" => Tail(reqs) = <<>>
  BY <1>1, <1>4, LastRequest
<1>6. QED
  BY <1>2, <1>3, <1>4, <1>5

\* One discovery leads to the next, or ends.
LEMMA EarlyKeeps ==
  ASSUME Inv, reqs # <<>>, Head(reqs) \in Early, AppStep(link, work),
         UNCHANGED <<app, env, scan, begun, sync, sub, up, down, resp, scratch, pack,
         fault>>,
         node' \in NodeType, node'.scratch = node.scratch,
         NEW op \in Early, reqs' \in {Tail(reqs), Append(Tail(reqs), op)}
  PROVE  Inv'
<1>1. op \in Requests
  BY DEF Early, Requests
<1>2. reqs' \in Seq(Requests)
  BY <1>1, EarlyAlone, PendingAppend
<1>3. TypeOK'
  BY <1>2 DEF Inv, TypeOK, AppStep
<1>4. Started'
  <2>1. sync # 0
    BY EarlyAlone, BoundAssumption DEF Syncs
  <2>2. QED
    BY <2>1 DEF Inv, Started
<1>5. ScanOrConnection'
  BY DEF Inv, ScanOrConnection, AppStep
<1>6. ASSUME app = "gateway"
      PROVE  Pending(reqs') => Len(reqs') = 1
  <2>1. Tail(reqs) = <<>>
    BY <1>6, EarlyAlone
  <2>2. Len(Append(<<>>, op)) = 1
    OBVIOUS
  <2>3. QED
    BY <2>1, <2>2, LastRequest
<1>7. OneSync'
  <2>1. SUFFICES ASSUME app = "gateway" PROVE OneSync'
    BY DEF OneSync
  <2>2. /\ ~sub' /\ scratch' = {} /\ node'.scratch = 0
        /\ link' \notin {"none", "creating"} /\ work' = "idle"
    BY <2>1, EarlyAlone DEF AppStep
  <2>3. QED
    BY <1>6, <2>1, <2>2 DEF OneSync
<1>8. Capped'
  BY AppCapped
<1>9. QED
  BY <1>3, <1>4, <1>5, <1>7, <1>8 DEF Inv

\* The last discovery, or the certificate exchange, starts uplink and downlink.
LEMMA UplinkStartKeeps ==
  ASSUME Inv, reqs # <<>>, Head(reqs) \in Early,
         NEW attrs \in SUBSET {"uplink", "downlink", "certs", "ccc"},
         UplinkStart(attrs, Tail(reqs)),
         UNCHANGED <<app, env, scan, begun, sync, fault>>
  PROVE  Inv'
<1> DEFINE source == IF "ccc" \in attrs THEN "subscribe" ELSE "read"
<1>1. PICK d \in DownlinkStarts, opened \in BOOLEAN :
        LET mine == IF d = "noscratch" THEN {} ELSE {sync}
        IN /\ scratch' = scratch \union mine
           /\ pack' = pack \union mine
           /\ down' = [down EXCEPT ![sync] = IF d = "opened" THEN "waiting" ELSE "null"]
           /\ node' = [node EXCEPT !.attrs = attrs,
                                   !.scratch = IF mine = {} THEN @ ELSE sync,
                                   !.pack = IF mine = {} THEN @ ELSE sync,
                                   !.ctx = IF d = "opened" THEN sync ELSE 0,
                                   !.uplink = IF opened THEN sync ELSE 0,
                                   !.params = IF opened THEN source ELSE @]
           /\ IF opened
                THEN /\ up' = [up EXCEPT ![sync] = "open"]
                     /\ Request(link, work, Tail(reqs), source)
                     /\ sub' = (sub \/ reqs' = Append(Tail(reqs), "subscribe"))
                ELSE reqs' = Tail(reqs) /\ Finished(link, work) /\ UNCHANGED <<up, sub>>
           /\ UNCHANGED resp
  BY DEF UplinkStart
<1>2. /\ TypeOK /\ sync \in Syncs /\ Tail(reqs) \in Seq(Requests)
      /\ work \in {"idle", "now", "later"}
  BY EarlyAlone DEF Inv, TypeOK
<1>3. source \in Requests \ Early
  BY LateRequests
<1> HIDE DEF source
<1>4. AppStep(link, work) /\ reqs' \in {Tail(reqs), Append(Tail(reqs), source)}
  BY <1>1, <1>2, FinishedSteps, RequestSteps
<1>5. reqs' \in Seq(Requests)
  BY <1>2, <1>3, <1>4, PendingAppend
<1>6. /\ up' \in [Syncs -> {"none", "open", "fed", "closed", "stuck", "gone"}]
      /\ down' \in [Syncs -> {"none", "null", "waiting", "writing", "aborted", "gone"}]
      /\ resp' = resp
  BY <1>1, <1>2 DEF TypeOK
<1>7. scratch' \subseteq Syncs /\ pack' \subseteq Syncs
  BY <1>1, <1>2 DEF TypeOK
<1>8. sub' \in BOOLEAN
  BY <1>1, <1>2 DEF TypeOK
<1>9. node' \in NodeType
  <2>1. node \in NodeType /\ sync \in 0 .. MaxSyncs /\ 0 \in 0 .. MaxSyncs
    BY <1>2, BoundAssumption DEF TypeOK
  <2>2. source \in {"subscribe", "read"}
    BY DEF source
  <2>3. QED
    BY <1>1, <2>1, <2>2 DEF NodeType
<1>10. TypeOK'
  BY <1>2, <1>4, <1>5, <1>6, <1>7, <1>8, <1>9 DEF TypeOK, AppStep
<1>11. Started' /\ ScanOrConnection'
  BY <1>2, <1>4, BoundAssumption DEF Inv, Started, ScanOrConnection, AppStep, Syncs
<1>12. ASSUME app = "gateway"
       PROVE  ~Pending(reqs')
  <2>1. Tail(reqs) = <<>>
    BY <1>12, EarlyAlone
  <2>2. ~Pending(Tail(reqs))
    BY <2>1, LastRequest
  <2>3. ~Pending(Append(Tail(reqs), source))
    BY <1>2, <1>3, <2>2, PendingAppend
  <2>4. QED
    BY <1>4, <2>2, <2>3
<1>13. ASSUME app = "gateway"
       PROVE  scratch' \subseteq {node'.scratch}
  <2>1. scratch = {} /\ node \in NodeType
    BY <1>2, <1>13, EarlyAlone DEF TypeOK
  <2>2. QED
    BY <1>1, <2>1 DEF NodeType
<1>14. ASSUME app = "gateway"
       PROVE  link' \notin {"none", "creating"} /\ work' = "idle"
  BY <1>4, <1>14, EarlyAlone DEF AppStep
<1>15. OneSync'
  BY <1>12, <1>13, <1>14 DEF OneSync
<1>16. Capped'
  BY <1>4, AppCapped
<1>17. QED
  BY <1>10, <1>11, <1>15, <1>16 DEF Inv

\* The discovery actions
LEMMA DiscoveryKeeps ==
  ASSUME Inv, DiscoveryStep, ~ExchangeWithoutContext
  PROVE  Inv'
<1>1. /\ work \in {"idle", "now", "later"} /\ node \in NodeType /\ TypeOK
      /\ node.attrs \subseteq {"uplink", "downlink", "certs", "ccc"}
  BY DEF Inv, TypeOK, NodeType
<1>2. /\ {"service128", "characteristics", "descriptors", "cert"} \subseteq Early
      /\ {"service16", "service128"} \subseteq Early
  BY DEF Early, Discovery
<1>3. ASSUME NEW found \in BOOLEAN, Service(found)
      PROVE  Inv'
  <2>1. /\ reqs # <<>> /\ Head(reqs) \in Early
        /\ UNCHANGED <<app, env, scan, begun, sync, node, sub, up, down, resp, scratch, pack, fault>>
    BY <1>2, <1>3 DEF Service, Answered, fixed, syncVars, heapVars
  <2>2. \/ Request(link, work, Tail(reqs), "characteristics")
        \/ Request(link, work, Tail(reqs), "service128")
        \/ reqs' = Tail(reqs) /\ Finished(link, work)
    BY <1>3 DEF Service
  <2>3. \E op \in Early : reqs' \in {Tail(reqs), Append(Tail(reqs), op)} /\ AppStep(link, work)
    <3>1. CASE Request(link, work, Tail(reqs), "characteristics")
      <4>1. AppStep(link, work) /\ reqs' \in {Tail(reqs), Append(Tail(reqs), "characteristics")}
        BY <1>1, <3>1, RequestSteps
      <4>2. QED
        BY <1>2, <4>1
    <3>2. CASE Request(link, work, Tail(reqs), "service128")
      <4>1. AppStep(link, work) /\ reqs' \in {Tail(reqs), Append(Tail(reqs), "service128")}
        BY <1>1, <3>2, RequestSteps
      <4>2. QED
        BY <1>2, <4>1
    <3>3. CASE reqs' = Tail(reqs) /\ Finished(link, work)
      BY <1>1, <1>2, <3>3, FinishedSteps
    <3>4. QED
      BY <2>2, <3>1, <3>2, <3>3
  <2>4. QED
    BY <1>1, <2>1, <2>3, EarlyKeeps
<1>4. ASSUME NEW found \in SUBSET {"uplink", "downlink", "certs"}, Characteristics(found)
      PROVE  Inv'
  <2>1. /\ reqs # <<>> /\ Head(reqs) \in Early
        /\ UNCHANGED <<app, env, scan, begun, sync, sub, up, down, resp, scratch, pack, fault>>
        /\ node' = [node EXCEPT !.attrs = found]
    BY <1>2, <1>4 DEF Characteristics, Answered, fixed, syncVars, heapVars
  <2>2. \/ Request(link, work, Tail(reqs), "descriptors")
        \/ reqs' = Tail(reqs) /\ Finished(link, work)
    BY <1>4 DEF Characteristics
  <2>3. \E op \in Early : reqs' \in {Tail(reqs), Append(Tail(reqs), op)} /\ AppStep(link, work)
    <3>1. CASE Request(link, work, Tail(reqs), "descriptors")
      <4>1. AppStep(link, work) /\ reqs' \in {Tail(reqs), Append(Tail(reqs), "descriptors")}
        BY <1>1, <3>1, RequestSteps
      <4>2. QED
        BY <1>2, <4>1
    <3>2. CASE reqs' = Tail(reqs) /\ Finished(link, work)
      BY <1>1, <1>2, <3>2, FinishedSteps
    <3>3. QED
      BY <2>2, <3>1, <3>2
  <2>4. node' \in NodeType /\ node'.scratch = node.scratch
    BY <1>1, <2>1 DEF NodeType
  <2>5. QED
    BY <2>1, <2>3, <2>4, EarlyKeeps
<1>5. ASSUME NEW ccc \in BOOLEAN, Descriptors(ccc)
      PROVE  Inv'
  <2> DEFINE attrs == node.attrs \union (IF ccc THEN {"ccc"} ELSE {})
  <2>1. /\ reqs # <<>> /\ Head(reqs) \in Early
        /\ UNCHANGED <<app, env, scan, begun, sync, fault>>
    BY <1>2, <1>5 DEF Descriptors, Answered, fixed, syncVars
  <2>2. attrs \in SUBSET {"uplink", "downlink", "certs", "ccc"}
    BY <1>1
  <2>3. \/ UplinkStart(attrs, Tail(reqs))
        \/ /\ node' = [node EXCEPT !.attrs = attrs, !.params = "cert"]
           /\ Request(link, work, Tail(reqs), "cert")
           /\ UNCHANGED <<sub, heapVars>>
    BY <1>5 DEF Descriptors
  <2> HIDE DEF attrs
  <2>4. CASE UplinkStart(attrs, Tail(reqs))
    BY <2>1, <2>2, <2>4, UplinkStartKeeps
  <2>5. CASE /\ node' = [node EXCEPT !.attrs = attrs, !.params = "cert"]
             /\ Request(link, work, Tail(reqs), "cert")
             /\ UNCHANGED <<sub, heapVars>>
    <3>1. reqs' \in {Tail(reqs), Append(Tail(reqs), "cert")} /\ AppStep(link, work)
      BY <1>1, <2>5, RequestSteps
    <3>2. node' \in NodeType /\ node'.scratch = node.scratch
      BY <1>1, <2>2, <2>5 DEF NodeType
    <3>3. UNCHANGED <<sub, up, down, resp, scratch, pack>>
      BY <2>5 DEF heapVars
    <3>4. QED
      BY <1>2, <2>1, <3>1, <3>2, <3>3, EarlyKeeps
  <2>6. QED
    BY <2>3, <2>4, <2>5
<1>6. ASSUME Exchange
      PROVE  Inv'
  <2>1. /\ reqs # <<>> /\ Head(reqs) \in Early
        /\ UNCHANGED <<app, env, scan, begun, sync, fault>>
    BY <1>2, <1>6 DEF Exchange, Answered, fixed, syncVars
  <2>2. CASE UplinkStart(node.attrs, Tail(reqs))
    BY <1>1, <2>1, <2>2, UplinkStartKeeps
  <2>3. CASE /\ reqs' = Tail(reqs)
             /\ Finished(link, work) \/ UNCHANGED appVars
             /\ UNCHANGED <<node, sub, heapVars>>
    <3>1. AppStep(link, work)
      BY <1>1, <2>3, FinishedSteps, StayingSteps DEF appVars
    <3>2. UNCHANGED <<node, sub, up, down, resp, scratch, pack>>
      BY <2>3 DEF heapVars
    <3>3. QED
      BY <1>1, <1>2, <2>1, <2>3, <3>1, <3>2, EarlyKeeps
  <2>4. QED
    BY <1>6, <2>2, <2>3 DEF Exchange
<1>7. QED
  BY <1>3, <1>4, <1>5, <1>6 DEF DiscoveryStep

-----------------------------------------------------------------------------
(* Connections                                                             *)

\* pouch_gateway_bt_start, called with the connection lk and the work wk
LEMMA BtStartSteps ==
  ASSUME TypeOK, sync < MaxSyncs, NEW lk, NEW wk \in {"idle", "now", "later"}, BtStart(lk, wk)
  PROVE  /\ sync' = sync + 1 /\ sync' \in 1 .. MaxSyncs
         /\ node' \in NodeType /\ node'.scratch = 0
         /\ AppStep(lk, wk)
         /\ reqs' \in {reqs, Append(reqs, "service16")} /\ reqs' \in Seq(Requests)
<1>1. /\ sync \in 0 .. MaxSyncs /\ reqs \in Seq(Requests)
      /\ 0 \in 0 .. MaxSyncs /\ "service16" \in Requests
  BY BoundAssumption DEF TypeOK, Requests, Discovery
<1>2. sync' = sync + 1 /\ node' = ClearedNode /\ Request(lk, wk, reqs, "service16")
  BY DEF BtStart
<1>3. sync' \in 1 .. MaxSyncs
  BY <1>1, <1>2, BoundAssumption
<1>4. node' \in NodeType /\ node'.scratch = 0
  BY <1>1, <1>2 DEF ClearedNode, NodeType
<1>5. AppStep(lk, wk) /\ reqs' \in {reqs, Append(reqs, "service16")}
  BY <1>2, RequestSteps
<1>6. reqs' \in Seq(Requests)
  BY <1>1, <1>5, PendingAppend
<1>7. QED
  BY <1>2, <1>3, <1>4, <1>5, <1>6

\* The scan ends, in a connection or not.
LEMMA ScanKeeps ==
  ASSUME Inv, DeviceFound \/ ConnectFails
  PROVE  Inv'
<1>1. /\ UNCHANGED <<app, env, work, counter, begun, sync, node, reqs, sub, up, down, resp,
                     scratch, pack, fault>>
      /\ link \in {"none", "creating"} /\ link' \in {"none", "creating"}
      /\ scan' \in BOOLEAN /\ (scan' => link' = "none")
      /\ "scan" \notin env /\ link' = "none" => scan'
      /\ app = "gateway" /\ link' = "creating" => sync + 1 <= MaxSyncs
  BY DEF Inv, ScanOrConnection, DeviceFound, ConnectFails, ScanStart, SyncsPerConnection,
     fixed,
         syncVars, hostVars, heapVars
<1>2. TypeOK'
  BY <1>1 DEF Inv, TypeOK
<1>3. Started' /\ Capped' /\ ScanOrConnection'
  BY <1>1 DEF Inv, Started, Capped, ScanOrConnection
<1>4. sync \in Int /\ MaxSyncs \in Int
  BY BoundAssumption DEF Inv, TypeOK
<1>5. OneSync'
  BY <1>1, <1>4 DEF Inv, OneSync
<1>6. QED
  BY <1>2, <1>3, <1>5 DEF Inv

\* The connection is made, and in the gateway application its sync begins.
LEMMA ConnectedKeeps ==
  ASSUME Inv, Connected
  PROVE  Inv'
<1>1. /\ UNCHANGED <<app, env, scan, sub, up, down, resp, scratch, pack, fault>>
      /\ link = "creating" /\ TypeOK /\ ~scan
      /\ work \in {"idle", "now", "later"}
  BY DEF Inv, TypeOK, ScanOrConnection, Connected, fixed, heapVars
<1>2. 1 \in 0 .. MaxSyncs \/ MaxSyncs = 0
  BY BoundAssumption
<1>3. CASE app = "gateway"
  <2>1. /\ BtStart("up", work) /\ begun' = 1
        /\ sync < MaxSyncs /\ reqs = <<>> /\ ~sub /\ scratch = {} /\ work = "idle"
    BY <1>1, <1>3 DEF Inv, OneSync, Connected
  <2>2. /\ sync' = sync + 1 /\ sync' \in 1 .. MaxSyncs
        /\ node' \in NodeType /\ node'.scratch = 0
        /\ AppStep("up", work)
        /\ reqs' \in {<<>>, Append(<<>>, "service16")} /\ reqs' \in Seq(Requests)
    BY <1>1, <2>1, BtStartSteps
  <2>3. link' \in {"up", "closing"} /\ work' = "idle" /\ counter' \in 0 .. 2
    BY <1>3, <2>1, <2>2 DEF AppStep
  <2>4. begun' \in 0 .. 2 /\ begun' <= 1 /\ sync' \in 0 .. MaxSyncs
    BY <2>1, <2>2, BoundAssumption
  <2>5. TypeOK'
    BY <1>1, <2>2, <2>3, <2>4 DEF TypeOK
  <2>6. Started' /\ Capped' /\ ScanOrConnection'
    BY <1>1, <1>3, <2>1, <2>2, <2>3, <2>4, BoundAssumption DEF Started, Capped,
       ScanOrConnection
  <2>7. Pending(reqs') => Len(reqs') = 1
    <3>1. Len(Append(<<>>, "service16")) = 1
      OBVIOUS
    <3>2. QED
      BY <2>2, <3>1, LastRequest
  <2>8. OneSync'
    BY <1>1, <2>1, <2>2, <2>3, <2>7 DEF OneSync
  <2>9. QED
    BY <2>5, <2>6, <2>8 DEF Inv
<1>4. CASE app # "gateway"
  <2>1. /\ link' = "up" /\ counter' = 0 /\ begun' = 0
        /\ work' \in {"idle", "now", "later"}
        /\ UNCHANGED <<sync, node, reqs>>
    BY <1>1, <1>4 DEF Connected
  <2>2. TypeOK'
    BY <1>1, <2>1, BoundAssumption DEF TypeOK
  <2>3. Started' /\ Capped' /\ ScanOrConnection' /\ OneSync'
    BY <1>1, <1>4, <2>1 DEF Inv, TypeOK, Started, Capped, ScanOrConnection, OneSync
  <2>4. QED
    BY <2>2, <2>3 DEF Inv
<1>5. QED
  BY <1>3, <1>4

\* The delayed work of custom_connect, whatever has become of the connection
LEMMA SyncStartKeeps ==
  ASSUME Inv, SyncStart
  PROVE  Inv'
<1>1. /\ UNCHANGED <<app, env, scan, sub, up, down, resp, scratch, pack, fault>>
      /\ sync < MaxSyncs /\ begun' = begun + 1 /\ work # "idle"
      /\ BtStart(link, "idle")
      /\ TypeOK /\ app # "gateway"
  BY DEF Inv, OneSync, SyncStart, fixed, heapVars
<1>2. /\ sync' = sync + 1 /\ sync' \in 1 .. MaxSyncs
      /\ node' \in NodeType /\ AppStep(link, "idle") /\ reqs' \in Seq(Requests)
  BY <1>1, BtStartSteps
<1>3. sync' \in 0 .. MaxSyncs /\ begun' <= sync' /\ sync' # 0
  BY <1>1, <1>2, BoundAssumption DEF Inv, Started, TypeOK
<1>4. begun' \in 0 .. 2 /\ Capped'
  BY <1>1, <1>2 DEF Inv, Capped, TypeOK, AppStep
<1>5. TypeOK'
  BY <1>1, <1>2, <1>3, <1>4 DEF TypeOK, AppStep
<1>6. Started' /\ ScanOrConnection' /\ OneSync'
  BY <1>1, <1>2, <1>3 DEF Inv, Started, ScanOrConnection, OneSync, AppStep
<1>7. QED
  BY <1>4, <1>5, <1>6 DEF Inv

\* bt_stop frees what the node has, which in the gateway application is all.
LEMMA DisconnectedKeeps ==
  ASSUME Inv, Disconnected
  PROVE  Inv'
<1>1. /\ UNCHANGED <<app, env, work, counter, begun, sync, reqs, sub, down, resp, pack, fault>>
      /\ reqs = <<>> /\ ~sub /\ link' = "none"
      /\ scan' \in BOOLEAN /\ ("scan" \notin env => scan')
      /\ scratch' = scratch \ {node.scratch}
      /\ node' = [node EXCEPT !.uplink = 0, !.scratch = 0]
      /\ up' = Closed(node.uplink) /\ TypeOK
  BY DEF Inv, Disconnected, ScanStart, fixed, syncVars, hostVars
<1>2. node' \in NodeType /\ node'.scratch = 0
  <2>1. node \in NodeType /\ 0 \in 0 .. MaxSyncs
    BY <1>1, BoundAssumption DEF TypeOK
  <2>2. QED
    BY <1>1, <2>1 DEF NodeType
<1>3. up' \in [Syncs -> {"none", "open", "fed", "closed", "stuck", "gone"}]
  BY <1>1, ClosedType
<1>4. TypeOK'
  BY <1>1, <1>2, <1>3 DEF TypeOK
<1>5. Started' /\ Capped' /\ ScanOrConnection'
  BY <1>1, <1>2 DEF Inv, Started, Capped, ScanOrConnection
<1>6. OneSync'
  <2>1. ~Pending(reqs')
    BY <1>1, LastRequest
  <2>2. app = "gateway" => scratch' = {} /\ work' = "idle"
    BY <1>1 DEF Inv, OneSync
  <2>3. QED
    BY <1>1, <2>1, <2>2 DEF OneSync
<1>7. QED
  BY <1>4, <1>5, <1>6 DEF Inv

-----------------------------------------------------------------------------
(* The invariant                                                           *)

\* The late actions keep it.
LEMMA LateInv ==
  ASSUME Inv, LateStep, RestType'
  PROVE  Inv'
BY LateType, LateKeeps DEF Inv

LEMMA InitInv ==
  ASSUME Init
  PROVE  Inv
<1>1. 0 \in 0 .. MaxSyncs /\ Len(<<>>) = 0 /\ <<>> \in Seq(Requests)
  BY BoundAssumption
<1>2. node \in NodeType /\ node.scratch = 0
  BY <1>1 DEF Init, ClearedNode, NodeType
<1>3. TypeOK
  <2>1. scan \in BOOLEAN
    BY DEF Init
  <2>2. /\ up \in [Syncs -> {"none", "open", "fed", "closed", "stuck", "gone"}]
        /\ down \in [Syncs -> {"none", "null", "waiting", "writing", "aborted", "gone"}]
        /\ resp \in [Syncs -> {"open", "last", "failed"}]
    BY DEF Init
  <2>3. /\ app \in Apps /\ env \in Envs
        /\ link = "none" /\ work = "idle" /\ counter = 0 /\ begun = 0 /\ sync = 0
        /\ reqs = <<>> /\ sub = FALSE /\ scratch = {} /\ pack = {} /\ fault = "none"
    BY DEF Init
  <2>4. /\ link \in {"none", "creating", "up", "closing"}
        /\ work \in {"idle", "now", "later"}
        /\ fault \in {"none", "cert", "uplink", "downlink", "params"}
    BY <2>3
  <2>5. counter \in 0 .. 2
    BY <2>3
  <2>6. begun \in 0 .. 2 /\ sync \in 0 .. MaxSyncs
    BY <1>1, <2>3
  <2>7. reqs \in Seq(Requests)
    BY <1>1, <2>3
  <2>8. sub \in BOOLEAN
    BY <2>3, Zenon
  <2>9. scratch \subseteq Syncs /\ pack \subseteq Syncs
    BY <2>3
  <2>10. QED
    BY <1>2, <2>1, <2>2, <2>3, <2>4, <2>5, <2>6, <2>7, <2>8, <2>9 DEF TypeOK
<1>4. Started /\ Capped /\ ScanOrConnection
  BY <1>2 DEF Init, Started, Capped, ScanOrConnection
<1>5. OneSync
  BY <1>2, LastRequest DEF Init, OneSync
<1>6. QED
  BY <1>3, <1>4, <1>5 DEF Inv

LEMMA NextInv ==
  ASSUME Inv, [Next]_vars
  PROVE  Inv'
<1>1. TypeOK
  BY DEF Inv
<1>2. CASE DiscoveryStep
  BY <1>1, <1>2, DiscoveryKeeps, QuietLate, LateInv
<1>3. CASE ConnectionStep \/ Disconnected
  BY <1>1, <1>3, ScanKeeps, ConnectedKeeps, SyncStartKeeps, DisconnectedKeeps, QuietLate,
     LateInv
     DEF ConnectionStep
<1>4. CASE DeviceStep
  BY <1>1, <1>4, IndicatedLate, ReadBackLate, LateInv DEF DeviceStep
<1>5. CASE ReadError \/ PayloadTooLate \/ Astray
  BY <1>1, <1>5, QuietLate, LateInv
<1>6. CASE SubscriptionEnds \/ Written \/ \E err \in BOOLEAN : Subscribed(err)
  BY <1>1, <1>6, EndedLate, WrittenLate, SubscribedLate, LateInv
<1>7. CASE CloudStep
  <2>1. PICK k \in Syncs :
          \/ \E ok \in BOOLEAN : UplinkEnds(k, ok)
          \/ EndCb(k) \/ \E last \in BOOLEAN : BlockCb(k, last)
    BY <1>7 DEF CloudStep
  <2>2. CASE \E ok \in BOOLEAN : UplinkEnds(k, ok)
    BY <1>1, <2>2, UplinkEndsLate, LateInv
  <2>3. CASE EndCb(k) \/ \E last \in BOOLEAN : BlockCb(k, last)
    BY <1>1, <2>3, ResponseLate, LateInv
  <2>4. QED
    BY <2>1, <2>2, <2>3
<1>8. CASE UNCHANGED vars
  BY <1>8 DEF Inv, TypeOK, Started, Capped, OneSync, ScanOrConnection, NodeType, vars,
     fixed, appVars,
     syncVars, hostVars, heapVars
<1>9. QED
  BY <1>2, <1>3, <1>4, <1>5, <1>6, <1>7, <1>8 DEF Next, AnswerStep

THEOREM InvAlways == Spec => []Inv
<1>1. Init => Inv
  BY InitInv
<1>2. Inv /\ [Next]_vars => Inv'
  BY NextInv
<1>3. QED
  BY <1>1, <1>2, PTL DEF Spec

\* Every variable keeps its type, for both applications and in every environment.
THEOREM SessionTypeCorrect == Spec => []TypeOK
<1>1. Inv => TypeOK
  BY DEF Inv
<1>2. QED
  BY <1>1, InvAlways, PTL

\* The gateway scans exactly when it has no connection, unless the scanner fails:
\* bt_connected, bt_disconnected and device_found start it again on every path.
THEOREM AlwaysScanOrConnection == Spec => []ScanOrConnection
<1>1. Inv => ScanOrConnection
  BY DEF Inv
<1>2. QED
  BY <1>1, InvAlways, PTL

\* pouch_gateway_bt_stop finds each scratch buffer of the gateway application,
\* whatever has failed on the connection and however late the cloud reports.
THEOREM ScratchAlwaysReclaimed == Spec => []ScratchReclaimed
<1>1. Inv => ScratchReclaimed
  BY DEF Inv, OneSync, ScratchReclaimed
<1>2. QED
  BY <1>1, InvAlways, PTL

=============================================================================
