------------------------------ MODULE Session ------------------------------
(***************************************************************************)
(* The gateway from scan to scan: the scanner (lib/bt/scan.c), discovery   *)
(* and the node table (lib/bt/connect.c), the starts of the uplink and the *)
(* downlink, and the two applications that decide when to synchronise and  *)
(* when to disconnect: gateway/src/main.c and samples/custom_connect.      *)
(*                                                                         *)
(* The certificate exchange, the uplink and the downlink, each modelled    *)
(* step by step in a module of its own (Cert, Uplink, Downlink), appear    *)
(* here by what they ask of the host, how they end, and what they leave    *)
(* in the node and on the heap.  A callback of the host, the work queue or *)
(* the SDK is one step: this module is about the order of the callbacks.   *)
(*                                                                         *)
(* One device is connected at a time, and the host reuses the connection   *)
(* object, so all connections share one slot of connected_nodes and one    *)
(* bt_conn pointer.  Objects are named by the sync, the call of            *)
(* pouch_gateway_bt_start, that they were made in; 0 is NULL.              *)
(***************************************************************************)
EXTENDS Integers, Sequences

CONSTANTS
  Apps,      \* the applications: "gateway", "custom"
  Envs,      \* the environments, sets of what may go wrong in them (Troubles)
  MaxSyncs   \* bound: calls of pouch_gateway_bt_start

\* "drops": the connection is lost.  "gatt": a request is refused, answered
\* with an error, or with data that makes no sense.  "cloud": the SDK reports
\* an error.  "malloc": an allocation fails.  "scan": the scan does not start.
\* "slow": the SDK calls back for a sync when the next one has begun.  "lazy":
\* the device leaves a request unanswered for 5 s.  "fast": the response comes
\* before the device has confirmed the end of its uplink.
Troubles == {"drops", "gatt", "cloud", "malloc", "scan", "slow", "lazy", "fast"}

ASSUME AppAssumption == Apps \subseteq {"gateway", "custom"}
ASSUME EnvAssumption == Envs \subseteq SUBSET Troubles
ASSUME BoundAssumption == MaxSyncs \in Nat

Syncs == 1 .. MaxSyncs

VARIABLES
  app,      \* which application runs
  env,      \* what may go wrong
  scan,     \* the host scans
  link,     \* the connection: "none", "creating", "up", "closing"
  work,     \* sync_data.work: "idle", scheduled to run "now" or "later" (5 s)
  counter,  \* sync_data.counter: calls of bt_finished, counted up to 2
  begun,    \* history: syncs begun on this connection
  sync,     \* the latest sync, which is the one the node was cleared for
  node,     \* the slot of connected_nodes
  reqs,     \* GATT requests the host has queued, in their order
  sub,      \* the host's subscription list holds &node->subscribe_params
  up,       \* each sync's uplink
  down,     \* each sync's downlink context
  resp,     \* the SDK's response for each sync: "open", "last" given, "failed"
  scratch,  \* syncs whose downlink_scratch is allocated
  pack,     \* syncs whose downlink packetizer is allocated
  fault     \* first use of memory that is not there, or not what it was

appVars == <<link, work, counter>>
heapVars == <<up, down, resp, scratch, pack>>
hostVars == <<reqs, sub>>
syncVars == <<begun, sync>>
fixed == <<app, env>>
vars == <<fixed, scan, appVars, syncVars, node, hostVars, heapVars, fault>>

-----------------------------------------------------------------------------
(* The node and the requests of the host                                   *)

Discovery == {"service16", "service128", "characteristics", "descriptors"}
Requests == Discovery \union {"cert", "read", "subscribe", "unsubscribe", "write"}

\* The member of the node's union of GATT parameters that a request refers to.
ParamsOf(op) ==
  IF op \in Discovery THEN "discover"
  ELSE IF op = "unsubscribe" THEN "subscribe" ELSE op

\* memset, and the parameters of the discovery
ClearedNode ==
  [params |-> "discover", attrs |-> {}, uplink |-> 0, ctx |-> 0, scratch |-> 0,
   pack |-> 0]

Fail(f) ==
  /\ fault' = f
  /\ UNCHANGED <<fixed, scan, appVars, syncVars, node, hostVars, heapVars>>

\* The host answers its oldest request, with the parameters it finds there.
Answered(op) == reqs # <<>> /\ Head(reqs) = op /\ node.params = ParamsOf(op)
Ok == link = "up"
Error == link = "closing" \/ (link = "up" /\ "gatt" \in env)

-----------------------------------------------------------------------------
(* The applications                                                        *)

\* Mutant: every call schedules the work.
FinishedSchedules(lk, wk) ==
  /\ link' = IF lk = "up" /\ (app = "gateway" \/ counter > 0) THEN "closing" ELSE lk
  /\ counter' = IF app = "custom" /\ counter < 2 THEN counter + 1 ELSE counter
  /\ work' = IF app = "custom" /\ wk = "idle" THEN "later" ELSE wk

\* pouch_gateway_bt_finished, called with the connection lk and the work wk.
\* The gateway disconnects; custom_connect does so at the second call.
Finished(lk, wk) ==
  /\ link' = IF lk = "up" /\ (app = "gateway" \/ counter > 0) THEN "closing" ELSE lk
  /\ counter' = IF app = "custom" /\ counter < 2 THEN counter + 1 ELSE counter
  /\ work' = IF app = "custom" /\ counter = 0 /\ wk = "idle" THEN "later" ELSE wk

Unfinished(lk, wk) == link' = lk /\ work' = wk /\ UNCHANGED counter

\* bt_gatt_*, with rs queued already; a closed connection refuses.
Request(lk, wk, rs, op) ==
  \/ /\ lk = "up"
     /\ reqs' = Append(rs, op)
     /\ Unfinished(lk, wk)
  \/ /\ lk # "up" \/ "gatt" \in env
     /\ reqs' = rs
     /\ Finished(lk, wk)

\* pouch_gateway_bt_start
BtStart(lk, wk) ==
  /\ sync' = sync + 1
  /\ node' = ClearedNode
  /\ Request(lk, wk, reqs, "service16")

\* pouch_gateway_scan_start; a failure is logged.
ScanStart == scan' = TRUE \/ ("scan" \in env /\ scan' = FALSE)

Adverts ==
  [connectable: BOOLEAN, data: {"none", "uuid16", "uuid128"}, compatible: BOOLEAN,
   asks: BOOLEAN, named: BOOLEAN, near: BOOLEAN]

\* The filter of device_found, with that of data_cb.
Wanted(ad) ==
  /\ ad.connectable
  /\ ad.data # "none" /\ ad.compatible /\ ad.asks
  /\ app = "custom" => ad.data = "uuid16" /\ ad.named /\ ad.near

\* What the SDK will still report for sync k: the end of its uplink, or the
\* response.  An uplink that nobody closes does not end.
Owed(k) == up[k] = "closed" \/ (up[k] = "gone" /\ resp[k] = "open")
CloudKeepsUp == "slow" \in env \/ \A k \in Syncs : ~Owed(k)

\* The bound: a connection is only made if its syncs stay within MaxSyncs.
SyncsPerConnection == IF app = "gateway" THEN 1 ELSE 2

\* device_found: the scan is stopped and a connection created.
DeviceFound ==
  /\ scan
  /\ \E ad \in Adverts : Wanted(ad)
  /\ sync + SyncsPerConnection <= MaxSyncs /\ CloudKeepsUp
  /\ scan' = FALSE /\ link' = "creating"
  /\ UNCHANGED <<fixed, work, counter, syncVars, node, hostVars, heapVars, fault>>

\* Mutant: the scanner is not started again.
GiveUp ==
  /\ scan \/ link = "creating"
  /\ scan' = FALSE /\ link' = "none"
  /\ UNCHANGED <<fixed, work, counter, syncVars, node, hostVars, heapVars, fault>>

\* bt_conn_le_create has failed, or the connected callback reports an error.
ConnectFails ==
  /\ scan \/ link = "creating"
  /\ ScanStart /\ link' = "none"
  /\ UNCHANGED <<fixed, work, counter, syncVars, node, hostVars, heapVars, fault>>

\* Mutant: the counter goes on from the last connection.
ConnectedCountingOn ==
  /\ link = "creating"
  /\ IF app = "gateway"
       THEN BtStart("up", work) /\ begun' = 1
       ELSE /\ link' = "up" /\ begun' = 0
            /\ work' = IF work = "idle" THEN "now" ELSE work
            /\ UNCHANGED <<counter, sync, node, reqs>>
  /\ UNCHANGED <<fixed, scan, sub, heapVars, fault>>

\* bt_connected.  k_work_schedule leaves work alone that is scheduled already.
Connected ==
  /\ link = "creating"
  /\ IF app = "gateway"
       THEN BtStart("up", work) /\ begun' = 1
       ELSE /\ link' = "up" /\ counter' = 0 /\ begun' = 0
            /\ work' = IF work = "idle" THEN "now" ELSE work
            /\ UNCHANGED <<sync, node, reqs>>
  /\ UNCHANGED <<fixed, scan, sub, heapVars, fault>>

\* sync_start_handler
SyncStart ==
  /\ work # "idle"
  /\ sync < MaxSyncs
  /\ work = "later" => CloudKeepsUp /\ ("lazy" \in env \/ reqs = <<>>)
  /\ BtStart(link, "idle") /\ begun' = begun + 1
  /\ UNCHANGED <<fixed, scan, sub, heapVars, fault>>

LinkLost ==
  /\ link = "up" /\ "drops" \in env
  /\ link' = "closing"
  /\ UNCHANGED <<fixed, scan, work, counter, syncVars, node, hostVars, heapVars, fault>>

\* pouch_gateway_uplink_close; an uplink that was never fed has only a block of
\* length zero, which process_uplink skips: it does not end.
Closed(u) ==
  IF u = 0 THEN up
  ELSE [up EXCEPT ![u] = CASE @ = "fed" -> "closed" [] @ = "open" -> "stuck" [] OTHER -> @]

\* Mutant: pouch_gateway_downlink_cleanup is forgotten.
DisconnectedKeepsScratch ==
  /\ link = "closing"
  /\ reqs = <<>> /\ ~sub
  /\ up' = Closed(node.uplink)
  /\ node' = [node EXCEPT !.uplink = 0]
  /\ ScanStart /\ link' = "none"
  /\ UNCHANGED <<fixed, work, counter, syncVars, hostVars, down, resp, scratch, pack, fault>>

\* bt_disconnected, with pouch_gateway_bt_stop; the host has completed every
\* request and ended the subscription.
Disconnected ==
  /\ link = "closing"
  /\ reqs = <<>> /\ ~sub
  /\ up' = Closed(node.uplink)
  /\ scratch' = scratch \ {node.scratch}
  /\ node' = [node EXCEPT !.uplink = 0, !.scratch = 0]
  /\ ScanStart /\ link' = "none"
  /\ UNCHANGED <<fixed, work, counter, syncVars, hostVars, down, resp, pack, fault>>

-----------------------------------------------------------------------------
(* Discovery: the host calls with NULL at the end, and after an error       *)

\* Mutant: a missing service does not finish the sync.
ServiceOrNothing(found) ==
  \E op \in {"service16", "service128"} :
    /\ Answered(op)
    /\ IF found THEN Ok /\ Request(link, work, Tail(reqs), "characteristics")
       ELSE IF op = "service16" THEN Request(link, work, Tail(reqs), "service128")
       ELSE reqs' = Tail(reqs) /\ UNCHANGED appVars
    /\ UNCHANGED <<fixed, scan, syncVars, node, sub, heapVars, fault>>

\* discover_services
Service(found) ==
  \E op \in {"service16", "service128"} :
    /\ Answered(op)
    /\ IF found THEN Ok /\ Request(link, work, Tail(reqs), "characteristics")
       ELSE IF op = "service16" THEN Request(link, work, Tail(reqs), "service128")
       ELSE reqs' = Tail(reqs) /\ Finished(link, work)
    /\ UNCHANGED <<fixed, scan, syncVars, node, sub, heapVars, fault>>

\* discover_characteristics
Characteristics(found) ==
  /\ Answered("characteristics")
  /\ node' = [node EXCEPT !.attrs = found]
  /\ IF {"uplink", "downlink"} \subseteq found
       THEN Request(link, work, Tail(reqs), "descriptors")
       ELSE reqs' = Tail(reqs) /\ Finished(link, work)
  /\ UNCHANGED <<fixed, scan, syncVars, sub, heapVars, fault>>

\* pouch_gateway_downlink_start; the MTU of a closed connection is 0, which is
\* too small for a scratch buffer.
DownlinkStarts ==
  IF link # "up" THEN {"noscratch"}
  ELSE {"opened"} \union (IF "malloc" \in env THEN {"noscratch", "nocontext"} ELSE {})

\* pouch_gateway_uplink_start; attrs says whether the uplink has a CCC.  The
\* uplink is opened whether the downlink was or not.
UplinkStart(attrs, rs) ==
  \E d \in DownlinkStarts, opened \in BOOLEAN :
    LET k == sync
        source == IF "ccc" \in attrs THEN "subscribe" ELSE "read"
        mine == IF d = "noscratch" THEN {} ELSE {k}
    IN /\ opened \/ "malloc" \in env
       /\ scratch' = scratch \union mine
       /\ pack' = pack \union mine
       /\ down' = [down EXCEPT ![k] = IF d = "opened" THEN "waiting" ELSE "null"]
       /\ node' = [node EXCEPT !.attrs = attrs,
                               !.scratch = IF mine = {} THEN @ ELSE k,
                               !.pack = IF mine = {} THEN @ ELSE k,
                               !.ctx = IF d = "opened" THEN k ELSE 0,
                               !.uplink = IF opened THEN k ELSE 0,
                               !.params = IF opened THEN source ELSE @]
       /\ IF opened
            THEN /\ up' = [up EXCEPT ![k] = "open"]
                 /\ Request(link, work, rs, source)
                 /\ sub' = (sub \/ reqs' = Append(rs, "subscribe"))
            ELSE reqs' = rs /\ Finished(link, work) /\ UNCHANGED <<up, sub>>
       /\ UNCHANGED resp

\* discover_descriptors
Descriptors(ccc) ==
  /\ Answered("descriptors")
  /\ LET attrs == node.attrs \union (IF ccc THEN {"ccc"} ELSE {})
     IN IF "certs" \in attrs
          THEN /\ node' = [node EXCEPT !.attrs = attrs, !.params = "cert"]
               /\ Request(link, work, Tail(reqs), "cert")
               /\ UNCHANGED <<sub, heapVars>>
          ELSE UplinkStart(attrs, Tail(reqs))
  /\ UNCHANGED <<fixed, scan, syncVars, fault>>

\* The certificate exchange (module Cert) completes, ends in bt_finished (as it
\* does when the cloud refuses the certificate, or without a scratch buffer), or
\* stops without it: a read fails, or the download has left the store empty.
Exchange ==
  /\ Answered("cert")
  /\ \/ Ok /\ UplinkStart(node.attrs, Tail(reqs))
     \/ /\ reqs' = Tail(reqs)
        /\ \/ (Error \/ env \intersect {"cloud", "malloc"} # {}) /\ Finished(link, work)
           \/ (Error \/ "cloud" \in env) /\ UNCHANGED appVars
        /\ UNCHANGED <<node, sub, heapVars>>
  /\ UNCHANGED <<fixed, scan, syncVars, fault>>

\* pouch_gateway_server_cert_start and pouch_gateway_device_cert_start write to
\* what malloc returns.
ExchangeWithoutContext ==
  /\ Answered("cert") /\ Ok
  /\ "malloc" \in env
  /\ Fail("cert")

-----------------------------------------------------------------------------
(* The uplink                                                              *)

\* handle_uplink_payload: a packet of the pouch, its last one, a bad one, or one
\* whose bytes find no block any more (-ENOMEM).  The latter two finish the sync
\* but leave the uplink open.
Payload(packet) ==
  CASE packet = "more" ->
         up' = [up EXCEPT ![node.uplink] = "fed"] /\ UNCHANGED <<node, appVars>>
    [] packet = "last" ->
         /\ up' = [up EXCEPT ![node.uplink] = "closed"]
         /\ node' = [node EXCEPT !.uplink = 0]
         /\ UNCHANGED appVars
    [] packet = "bad" ->
         Finished(link, work) /\ UNCHANGED <<up, node>>
    [] packet = "refused" ->
         /\ up' = [up EXCEPT ![node.uplink] = "fed"]
         /\ Finished(link, work) /\ UNCHANGED node

Packets ==
  {"more", "last"} \union (IF "gatt" \in env THEN {"bad"} ELSE {})
                   \union (IF "malloc" \in env THEN {"refused"} ELSE {})

\* Mutant: the subscription goes on after the last packet.
IndicatedOn(packet) ==
  /\ sub /\ link = "up" /\ node.params = "subscribe"
  /\ packet # "bad" => node.uplink # 0
  /\ Payload(packet)
  /\ UNCHANGED hostVars
  /\ UNCHANGED <<fixed, scan, syncVars, down, resp, scratch, pack, fault>>

\* tf_uplink_indicate_cb; BT_GATT_ITER_STOP makes the host unsubscribe.
Indicated(packet) ==
  /\ sub /\ link = "up" /\ node.params = "subscribe"
  /\ packet # "bad" => node.uplink # 0
  /\ Payload(packet)
  /\ IF packet = "more" THEN UNCHANGED hostVars
     ELSE sub' = FALSE /\ reqs' = Append(reqs, "unsubscribe")
  /\ UNCHANGED <<fixed, scan, syncVars, down, resp, scratch, pack, fault>>

\* Mutant: the characteristic is read again whatever the packet was.
ReadBackAgain(packet) ==
  /\ Answered("read") /\ Ok
  /\ packet # "bad" => node.uplink # 0
  /\ Payload(packet)
  /\ UNCHANGED reqs
  /\ UNCHANGED <<fixed, scan, syncVars, sub, down, resp, scratch, pack, fault>>

\* tf_uplink_read_cb; a read that cannot be repeated ends it silently.
ReadBack(packet) ==
  /\ Answered("read") /\ Ok
  /\ packet # "bad" => node.uplink # 0
  /\ Payload(packet)
  /\ \/ packet = "more" /\ UNCHANGED reqs
     \/ (packet # "more" \/ "gatt" \in env) /\ reqs' = Tail(reqs)
  /\ UNCHANGED <<fixed, scan, syncVars, sub, down, resp, scratch, pack, fault>>

ReadError ==
  /\ Answered("read") /\ Error
  /\ reqs' = Tail(reqs)
  /\ UNCHANGED <<fixed, scan, appVars, syncVars, node, sub, heapVars, fault>>

\* A read or an indication that comes when the cloud has ended the uplink.
PayloadTooLate ==
  /\ node.uplink = 0 /\ link = "up"
  /\ Answered("read") \/ (sub /\ node.params = "subscribe")
  /\ Fail("uplink")

\* tf_uplink_indicate_cb with NULL
SubscriptionTerminated ==
  IF node.uplink = 0 THEN UNCHANGED <<up, node, appVars>>
  ELSE /\ up' = Closed(node.uplink)
       /\ node' = [node EXCEPT !.uplink = 0]
       /\ Finished(link, work)

\* The CCC is written, or the write fails and the host ends the subscription.
Subscribed(err) ==
  /\ Answered("subscribe")
  /\ reqs' = Tail(reqs)
  /\ IF err
       THEN /\ Error /\ sub' = FALSE
            /\ IF sub THEN SubscriptionTerminated ELSE UNCHANGED <<up, node, appVars>>
       ELSE Ok /\ UNCHANGED <<sub, up, node, appVars>>
  /\ UNCHANGED <<fixed, scan, syncVars, down, resp, scratch, pack, fault>>

\* The host calls with NULL when the device has confirmed the unsubscription,
\* and when the connection is gone.
SubscriptionEnds ==
  /\ \/ /\ Answered("unsubscribe") /\ reqs' = Tail(reqs) /\ UNCHANGED sub
        /\ \/ Ok /\ SubscriptionTerminated
           \/ Error /\ UNCHANGED <<up, node, appVars>>
     \/ /\ link = "closing" /\ reqs = <<>> /\ sub /\ node.params = "subscribe"
        /\ sub' = FALSE /\ UNCHANGED reqs
        /\ SubscriptionTerminated
  /\ UNCHANGED <<fixed, scan, syncVars, down, resp, scratch, pack, fault>>

\* block_upload_callback and uplink_end_cb: whatever sync has the node now, its
\* uplink is forgotten and its subscription ended.  A block of an uplink that was
\* not closed is answered before the next sync, unless the SDK is slow.
UplinkEnds(k, ok) ==
  /\ IF ok THEN up[k] = "closed"
     ELSE /\ "cloud" \in env
          /\ up[k] = "closed" \/ (up[k] = "fed" /\ (k = sync \/ "slow" \in env))
  /\ up' = [up EXCEPT ![k] = "gone"]
  /\ resp' = IF ok THEN resp ELSE [resp EXCEPT ![k] = "failed"]
  /\ node' = [node EXCEPT !.uplink = 0]
  /\ IF link = "up" /\ sub
       THEN sub' = FALSE /\ reqs' = Append(reqs, "unsubscribe")
       ELSE UNCHANGED hostVars
  /\ IF ok THEN UNCHANGED appVars ELSE Finished(link, work)
  /\ UNCHANGED <<fixed, scan, syncVars, down, scratch, pack, fault>>

-----------------------------------------------------------------------------
(* The downlink                                                            *)

Live(k) == k # 0 /\ down[k] \in {"waiting", "writing", "aborted"}

\* The error path of both callers of write_downlink_characteristic: abort leaves
\* the context to the next block_cb, unless the last packet has been made.
Abandon(rs, ends) ==
  IF Live(node.ctx) /\ node.pack \in pack
    THEN /\ \E d \in ends : down' = [down EXCEPT ![node.ctx] = d]
         /\ pack' = pack \ {node.pack}
         /\ reqs' = rs /\ Finished(link, work)
         /\ UNCHANGED <<node, fault>>
    ELSE /\ fault' = "downlink"
         /\ UNCHANGED <<node, reqs, appVars, down, pack>>

AbortEnds(response) == IF response = "open" THEN {"aborted"} ELSE {"aborted", "gone"}

\* write_downlink_characteristic finds data and writes them.
Write(rs) ==
  \/ link # "up" /\ Abandon(rs, {"aborted"})
  \/ /\ link = "up"
     /\ IF node.pack \in pack /\ node.scratch # 0 /\ Live(node.ctx)
          THEN \/ /\ node' = [node EXCEPT !.params = "write"]
                  /\ down' = [down EXCEPT ![node.ctx] = "writing"]
                  /\ reqs' = Append(rs, "write")
                  /\ UNCHANGED <<appVars, pack, fault>>
               \/ "gatt" \in env /\ Abandon(rs, AbortEnds(resp'[node.ctx]))
          ELSE /\ fault' = "downlink"
               /\ UNCHANGED <<node, reqs, appVars, down, pack>>

\* The SDK answers the last block of the uplink once it has reported it, unless
\* it is "fast", and not before the device is done with its uplink.
Responds(k) ==
  /\ resp[k] = "open"
  /\ up[k] = "gone" \/ (up[k] = "closed" /\ "fast" \in env)
  /\ "fast" \in env \/ \A i \in DOMAIN reqs : reqs[i] # "unsubscribe"

\* pouch_gateway_downlink_block_cb
BlockCb(k, last) ==
  /\ Responds(k)
  /\ resp' = [resp EXCEPT ![k] = IF last \/ down[k] = "aborted" THEN "last" ELSE "open"]
  /\ CASE down[k] = "waiting" -> Write(reqs)
       [] down[k] = "aborted" ->
            /\ down' = [down EXCEPT ![k] = "gone"]
            /\ UNCHANGED <<node, reqs, appVars, pack, fault>>
       [] down[k] \in {"null", "gone"} ->
            fault' = "downlink" /\ UNCHANGED <<node, reqs, appVars, down, pack>>
       [] OTHER -> UNCHANGED <<node, reqs, appVars, down, pack, fault>>
  /\ UNCHANGED <<fixed, scan, syncVars, sub, up, scratch>>

\* pouch_gateway_downlink_end_cb with an error.  The transport is kicked whenever
\* current_block is NULL: when it waits, and when what it is writing was the end
\* of the last block so far; then a second write is queued behind the first.
EndCb(k) ==
  /\ "cloud" \in env
  /\ Responds(k)
  /\ resp' = [resp EXCEPT ![k] = "failed"]
  /\ CASE down[k] = "waiting" -> Write(reqs)
       [] down[k] \in {"writing", "aborted"} ->
            Write(reqs) \/ UNCHANGED <<node, reqs, appVars, down, pack, fault>>
       [] OTHER -> fault' = "downlink" /\ UNCHANGED <<node, reqs, appVars, down, pack>>
  /\ UNCHANGED <<fixed, scan, syncVars, sub, up, scratch>>

\* Mutant: the downlink counts as complete before its last block.
CompleteAnyway(k) == TRUE

\* pouch_gateway_downlink_is_complete may hold: the last block was given, or the
\* downlink aborted.
MayBeComplete(k) == resp[k] # "open"

\* Mutant: pouch_gatt_packetizer_finish is forgotten.
EndWithoutPacketizer ==
  /\ down' = [down EXCEPT ![node.ctx] = "gone"]
  /\ UNCHANGED pack
  /\ Finished(link, work)

\* The normal end of a sync: the context and the packetizer are freed.
EndDownlink ==
  /\ down' = [down EXCEPT ![node.ctx] = "gone"]
  /\ pack' = pack \ {node.pack}
  /\ Finished(link, work)

\* write_response_cb: the downlink is complete, goes on, or has to wait.
Written ==
  /\ Answered("write")
  /\ UNCHANGED resp
  /\ \/ Error /\ Abandon(Tail(reqs), AbortEnds(resp[node.ctx]))
     \/ /\ Ok /\ Live(node.ctx) /\ node.pack \in pack
        /\ \/ /\ MayBeComplete(node.ctx)
              /\ EndDownlink
              /\ reqs' = Tail(reqs)
              /\ UNCHANGED <<node, fault>>
           \/ Write(Tail(reqs))
           \/ /\ resp[node.ctx] = "open"
              /\ down' = [down EXCEPT ![node.ctx] = "waiting"]
              /\ reqs' = Tail(reqs)
              /\ UNCHANGED <<node, appVars, pack, fault>>
     \/ /\ Ok /\ ~(Live(node.ctx) /\ node.pack \in pack)
        /\ fault' = "downlink"
        /\ UNCHANGED <<node, reqs, appVars, down, pack>>
  /\ UNCHANGED <<fixed, scan, syncVars, sub, up, scratch>>

-----------------------------------------------------------------------------
\* The host uses parameters that something else has overwritten.
Astray ==
  /\ \/ reqs # <<>> /\ node.params # ParamsOf(Head(reqs))
     \/ sub /\ link = "closing" /\ reqs = <<>> /\ node.params # "subscribe"
  /\ Fail("params")

\* main: the scanner is started once, after bt_enable.
Init ==
  /\ app \in Apps /\ env \in Envs
  /\ IF "scan" \in env THEN scan \in BOOLEAN ELSE scan = TRUE
  /\ link = "none" /\ work = "idle" /\ counter = 0
  /\ begun = 0 /\ sync = 0
  /\ node = [ClearedNode EXCEPT !.params = "none"]
  /\ reqs = <<>> /\ sub = FALSE
  /\ up = [k \in Syncs |-> "none"] /\ down = [k \in Syncs |-> "none"]
  /\ resp = [k \in Syncs |-> "open"]
  /\ scratch = {} /\ pack = {}
  /\ fault = "none"

ConnectionStep ==
  DeviceFound \/ ConnectFails \/ Connected \/ SyncStart \/ LinkLost

DiscoveryStep ==
  \/ \E found \in BOOLEAN : Service(found)
  \/ \E found \in SUBSET {"uplink", "downlink", "certs"} : Characteristics(found)
  \/ \E ccc \in BOOLEAN : Descriptors(ccc)
  \/ Exchange \/ ExchangeWithoutContext

DeviceStep == \E packet \in Packets : Indicated(packet) \/ ReadBack(packet)

AnswerStep ==
  \/ ReadError \/ PayloadTooLate \/ SubscriptionEnds
  \/ \E err \in BOOLEAN : Subscribed(err)
  \/ Written \/ Astray \/ Disconnected

CloudStep ==
  \E k \in Syncs :
    \/ \E ok \in BOOLEAN : UplinkEnds(k, ok)
    \/ \E last \in BOOLEAN : BlockCb(k, last)
    \/ EndCb(k)

Next ==
  /\ fault = "none"
  /\ ConnectionStep \/ DiscoveryStep \/ DeviceStep \/ AnswerStep \/ CloudStep

Spec == Init /\ [][Next]_vars

\* A connection is made or refused, the work queue runs, the host and the device
\* answer every request, the device comes to the end of its pouch and the SDK to
\* the end of the uplink and of the response.
Fairness ==
  /\ WF_vars(fault = "none" /\ Connected)
  /\ WF_vars(fault = "none" /\ SyncStart)
  /\ WF_vars(fault = "none" /\ (DiscoveryStep \/ AnswerStep))
  /\ WF_vars(fault = "none" /\ (Indicated("last") \/ ReadBack("last")))
  /\ \A k \in Syncs :
       /\ WF_vars(fault = "none" /\ UplinkEnds(k, TRUE))
       /\ WF_vars(fault = "none" /\ BlockCb(k, TRUE))

FairSpec == Spec /\ Fairness

-----------------------------------------------------------------------------
(* Properties                                                              *)

NodeType ==
  [params: {"none", "discover", "cert", "read", "subscribe", "write"},
   attrs: SUBSET {"uplink", "downlink", "certs", "ccc"},
   uplink: 0 .. MaxSyncs, ctx: 0 .. MaxSyncs, scratch: 0 .. MaxSyncs,
   pack: 0 .. MaxSyncs]

\* Every variable holds a value its C counterpart can hold.  In particular no
\* connection gets more than two syncs, wherever the delayed work comes from.
TypeOK ==
  /\ app \in Apps /\ env \in Envs
  /\ scan \in BOOLEAN /\ link \in {"none", "creating", "up", "closing"}
  /\ work \in {"idle", "now", "later"} /\ counter \in 0 .. 2
  /\ begun \in 0 .. 2 /\ sync \in 0 .. MaxSyncs
  /\ node \in NodeType
  /\ reqs \in Seq(Requests) /\ sub \in BOOLEAN
  /\ up \in [Syncs -> {"none", "open", "fed", "closed", "stuck", "gone"}]
  /\ down \in [Syncs -> {"none", "null", "waiting", "writing", "aborted", "gone"}]
  /\ resp \in [Syncs -> {"open", "last", "failed"}]
  /\ scratch \subseteq Syncs /\ pack \subseteq Syncs
  /\ fault \in {"none", "cert", "uplink", "downlink", "params"}

Without(troubles) == env \intersect troubles = {}

\* Where the SDK is done with a sync when the next one begins.
InTime == Without({"slow"}) \/ Without({"drops", "gatt", "malloc", "fast"})

\* What can make a sync finish twice, or leave its next one scheduled.
CountedOnce == Without({"drops", "gatt", "malloc"}) /\ ~({"cloud", "fast"} \subseteq env)

\* The gateway scans or has a connection, never both: whatever became of the
\* last connection, every path out of it starts the scanner again.
ScanOrConnection ==
  /\ scan => link = "none"
  /\ "scan" \notin env /\ link = "none" => scan

\* In the gateway application each scratch buffer is freed when its connection
\* ends, whatever else fails: bt_stop finds it in the node.
ScratchReclaimed == app = "gateway" /\ link = "none" /\ fault = "none" => scratch = {}

\* A sync of the gateway in which nothing fails leaves nothing on the heap: it
\* ends when the downlink does, and by then the uplink has ended.
NothingLeft ==
  app = "gateway" /\ Without({"drops", "gatt", "cloud", "malloc", "fast"})
    /\ link = "none"
  => /\ scratch = {} /\ pack = {}
     /\ \A k \in Syncs : up[k] \in {"none", "gone"} /\ ~Live(k)

\* The members of the union do not overwrite each other: what the host was given
\* is still there when it uses it.
ParamsOwned ==
  Without({"gatt", "cloud", "malloc", "fast"}) /\ InTime =>
    /\ sub => node.params = "subscribe"
    /\ \A i \in DOMAIN reqs : node.params = ParamsOf(reqs[i])

\* What the SDK still owes it owes to the sync that has the node.
OwnNode == InTime => \A k \in Syncs : Owed(k) => sync = k

\* No sync starts on a connection that is gone.
StartsOnLiveLink ==
  [][CountedOnce /\ sync' # sync => link \in {"up", "creating"}]_vars

\* The second sync of custom_connect takes place on the connection that is
\* maintained for it: bt_disconnected has not given up sync_data.conn.
SecondSyncConnected == [][sync' # sync /\ begun' = 2 => link # "none"]_vars

\* custom_connect disconnects after two syncs.
TwoSyncs ==
  app = "custom" /\ CountedOnce /\ link = "closing" => begun = 2

\* Nothing is used that is not there any more.
MemorySafe ==
  Without({"gatt", "cloud", "malloc", "fast"}) /\ InTime
  => fault = "none"

\* A connection ends, and not in a crash, also if it is lost, the scanner fails,
\* the SDK is slow or the device is lazy.  The bound may leave no sync for the work.
SessionEnds ==
  Without({"gatt", "cloud", "malloc", "fast"}) /\ InTime /\ link = "up"
    ~> link = "none" \/ (work # "idle" /\ sync = MaxSyncs)
=============================================================================
