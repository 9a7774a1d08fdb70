------------------------------- MODULE Uplink -------------------------------
(***************************************************************************)
(* One uplink of the gateway: the payloads that a Pouch device indicates,  *)
(* or the gateway reads (lib/bt/uplink.c), are packed into blocks, queued  *)
(* and handed one at a time to the Golioth SDK (lib/uplink.c).             *)
(*                                                                         *)
(* "bt" is the cooperative Bluetooth host thread: its handlers run to the  *)
(* end once begun.  "cloud" is the CoAP thread of the SDK, which reports   *)
(* the fate of a block in block_upload_callback; with Preempts "bt" may    *)
(* cut in between any two of its steps.  The bit SENDING is the lock under *)
(* which either thread runs process_uplink, and is kept while the SDK has  *)
(* a block.                                                                *)
(*                                                                         *)
(* The content of a block is named by the position of its first byte in    *)
(* the device's pouch and its length.                                      *)
(***************************************************************************)
EXTENDS Integers, Sequences

CONSTANTS
  Size,         \* CONFIG_GOLIOTH_BLOCKWISE_UPLOAD_MAX_BLOCK_SIZE
  Lens,         \* payload lengths of one GATT transfer
  MaxBytes,     \* bound: bytes of the pouch
  Transports,   \* how the device sends: "indicate", "read"
  Preempts,     \* "bt" may run in the middle of block_upload_callback
  CloudFails,   \* the SDK may report that a block was not delivered
  LocalFails,   \* the SDK may refuse a block at once
  MallocFails,  \* there may be no memory for a block
  GattFails,    \* a transfer may fail or carry a malformed packet
  LinkDrops,    \* the connection may be lost at any time
  NoBlock       \* NULL

ASSUME SizeAssumption == Size \in Nat \ {0}
\* An ATT payload is shorter than a block, so a write needs one new block.
ASSUME LensAssumption == Lens \subseteq 0 .. Size
ASSUME BoundAssumption == MaxBytes \in Nat
ASSUME TransportAssumption == Transports \subseteq {"indicate", "read"}
ASSUME EnvAssumption ==
  {Preempts, CloudFails, LocalFails, MallocFails, GattFails, LinkDrops} \subseteq BOOLEAN

Threads == {"cloud", "bt"}
Block == [from: Nat, len: 0 .. Size]
ASSUME NoBlockAssumption == NoBlock \notin Block

VARIABLES
  up,        \* the malloc'ed uplink: "live" or "freed"
  flags,     \* its CLOSED and SENDING bits
  wblock,    \* the block being filled
  rblock,    \* the block being sent
  queue,     \* the blocks that the list head reaches
  lost,      \* blocks hung on a removed node, which the head does not reach
  heap,      \* pouch_blocks allocated and not freed
  pc,        \* where each thread is in its handler
  closed,    \* the local "closed" of each process_uplink
  next,      \* of sys_slist_get: the node to be removed has a successor
  result,    \* the result that end_cb reports
  again,     \* handle_uplink_payload has its own close left to do
  sdk,       \* the SDK: "idle", or "busy" with a block
  status,    \* the status the SDK reports for it is GOLIOTH_OK
  sentLast,  \* history: a block was given to the SDK with is_last
  sent,      \* history: bytes of the pouch given to the SDK
  wrote,     \* history: bytes of the pouch accepted from the device
  outcome,   \* history: what end_cb reported
  node,      \* node->uplink is not NULL
  transport, \* how this device sends
  source,    \* its subscription or read: "on", "ending", "off"
  link,      \* "up", "down" (disconnected) or "stopped" (bt_stop has run)
  finished,  \* bt_finished was called: the application will disconnect
  fault      \* first access to memory that is gone; the program ends there

listVars == <<queue, lost>>
upVars == <<up, flags, wblock, rblock, listVars, heap>>
localVars == <<closed, next, result, again>>
sdkVars == <<sdk, status, sentLast, sent>>
btVars == <<node, transport, source, link, finished>>
restVars == <<sdkVars, wrote, outcome, btVars, fault>>
vars == <<upVars, pc, localVars, restVars>>

-----------------------------------------------------------------------------
\* The steps of sys_slist_get after it has moved the head.
TailSteps == {"tail?", "tail"}

UsesUplink == {"process", "closed?", "get", "unlink", "send", "unsend",
               "delivered", "free", "null", "cleanup"} \union TailSteps

Misuse(t) ==
  CASE pc[t] = "close2" /\ ~node -> "null"
    [] pc[t] \in UsesUplink /\ up = "freed" -> "uplink"
    [] OTHER -> "none"

At(t, p) ==
  /\ pc[t] = p
  /\ t = "cloud" => pc["bt"] = "idle"
  /\ Misuse(t) = "none"

Goto(t, p) == pc' = [pc EXCEPT ![t] = p]
Return(t) == Goto(t, IF t = "bt" /\ again THEN "close2" ELSE "idle")

\* A host callback begins.
HostRuns == pc["bt"] = "idle" /\ (Preempts \/ pc["cloud"] = "idle")

\* The first access through a dangling or NULL pointer; C promises nothing more.
Crash(t) ==
  /\ t = "cloud" => pc["bt"] = "idle"
  /\ Misuse(t) # "none"
  /\ fault' = Misuse(t)
  /\ UNCHANGED <<upVars, pc, localVars, sdkVars, wrote, outcome, btVars>>

BlocksIn(b) == IF b = NoBlock THEN 0 ELSE 1

-----------------------------------------------------------------------------
(* pouch_gateway_uplink_write and _close, on the host thread               *)

\* Mutant: the payload is appended to wblock without regard to its size.
WriteUnsplit(len) ==
  LET have == IF wblock = NoBlock THEN 0 ELSE wblock.len
      b == IF wblock = NoBlock THEN [from |-> wrote, len |-> len]
           ELSE [wblock EXCEPT !.len = have + len]
  IN  {[submit |-> <<>>, w |-> b, new |-> 1 - BlocksIn(wblock), ok |-> TRUE, n |-> len]}

\* The payload fits into wblock, or fills it and goes on in a new block, or
\* finds no memory for one; gives the blocks to submit, the wblock that is left,
\* the blocks allocated and the bytes taken.
WriteOutcomes(len) ==
  LET have == IF wblock = NoBlock THEN 0 ELSE wblock.len
      fill == IF wblock = NoBlock THEN 0 ELSE Size - have
      full == IF wblock = NoBlock THEN <<>> ELSE <<[wblock EXCEPT !.len = Size]>>
      rest == [from |-> wrote + fill, len |-> len - fill]
      fits == [wblock EXCEPT !.len = have + len]
  IN  IF len = 0 THEN {[submit |-> <<>>, w |-> wblock, new |-> 0, ok |-> TRUE, n |-> 0]}
      ELSE IF wblock # NoBlock /\ have + len <= Size
      THEN {[submit |-> <<>>, w |-> fits, new |-> 0, ok |-> TRUE, n |-> len]}
      ELSE {[submit |-> full, w |-> rest, new |-> 1, ok |-> TRUE, n |-> len]}
           \union {o \in {[submit |-> full, w |-> NoBlock, new |-> 0, ok |-> FALSE,
                           n |-> fill]} : MallocFails}

\* Mutant: the list is used as a stack.
SubmitFirst(blocks) == queue' = blocks \o queue /\ UNCHANGED lost

\* The tail is a node that the head no longer reaches: one being removed whose
\* removal has yet to set the tail, or one that was hung on a removed node.
TailAstray == lost # <<>> \/ pc["cloud"] \in TailSteps

\* submit_block for a full block and then, when closing, for what is left:
\* sys_slist_append hangs a node on the tail.
Submit(blocks) ==
  IF TailAstray THEN lost' = lost \o blocks /\ UNCHANGED queue
  ELSE queue' = queue \o blocks /\ UNCHANGED lost

\* The device's subscription or read loop ends: BT_GATT_ITER_STOP makes the host
\* unsubscribe, which it reports later; a read is just not repeated.
StopSource == source' = IF transport = "indicate" THEN "ending" ELSE "off"

\* handle_uplink_payload up to process_uplink
Payload(len, last) ==
  /\ HostRuns /\ node
  /\ source = "on" /\ link = "up"
  /\ up = "live"
  /\ wrote + len <= MaxBytes
  /\ \E o \in WriteOutcomes(len) :
       LET tail == IF o.ok /\ last /\ "CLOSED" \notin flags /\ o.w # NoBlock
                   THEN <<o.w>> ELSE <<>>
       IN /\ Submit(o.submit \o tail)
          /\ wblock' = IF tail = <<>> THEN o.w ELSE NoBlock
          /\ heap' = heap + o.new
          /\ wrote' = wrote + o.n
          /\ flags' = IF o.ok /\ last THEN flags \union {"CLOSED"} ELSE flags
          /\ again' = (o.ok /\ last)
          /\ IF o.ok THEN Goto("bt", "process") ELSE UNCHANGED pc
          /\ finished' = (finished \/ ~o.ok)
          /\ IF ~o.ok \/ last THEN StopSource
             ELSE \* bt_gatt_read may be refused: nobody is told
                  \/ UNCHANGED source
                  \/ (transport = "read" /\ GattFails /\ source' = "off")
  /\ UNCHANGED <<up, rblock, closed, next, result, sdkVars, outcome, node,
                 transport, link, fault>>

\* A payload for an uplink that has ended: node->uplink is NULL, or freed.
PayloadTooLate ==
  /\ HostRuns
  /\ source = "on" /\ link = "up"
  /\ ~node \/ up = "freed"
  /\ fault' = IF node THEN "uplink" ELSE "null"
  /\ UNCHANGED <<upVars, pc, localVars, sdkVars, wrote, outcome, btVars>>

\* The packet does not decode, or the read fails: the first ends the session.
BadPayload ==
  /\ HostRuns /\ GattFails
  /\ source = "on" /\ link = "up"
  /\ StopSource
  /\ \/ finished' = TRUE
     \/ (transport = "read" /\ UNCHANGED finished)
  /\ UNCHANGED <<upVars, pc, localVars, sdkVars, wrote, outcome, node, transport,
                 link, fault>>

\* pouch_gateway_uplink_close up to process_uplink
CloseUplink ==
  /\ flags' = flags \union {"CLOSED"}
  /\ IF "CLOSED" \notin flags /\ wblock # NoBlock
       THEN Submit(<<wblock>>) /\ wblock' = NoBlock
       ELSE UNCHANGED <<listVars, wblock>>
  /\ Goto("bt", "process")
  /\ UNCHANGED <<up, rblock, heap>>

\* handle_uplink_payload closes once more and forgets the uplink.
CloseAgain ==
  /\ At("bt", "close2")
  /\ CloseUplink
  /\ again' = FALSE
  /\ node' = FALSE
  /\ UNCHANGED <<closed, next, result, sdkVars, wrote, outcome, transport, source,
                 link, finished, fault>>

\* Closes node->uplink, if any, and forgets it.
CloseNode ==
  IF node THEN CloseUplink /\ node' = FALSE
  ELSE UNCHANGED <<upVars, pc, node>>

\* tf_uplink_indicate_cb with NULL data, at the end of the subscription
SubscriptionEnds ==
  /\ HostRuns
  /\ transport = "indicate"
  /\ source = "ending" \/ (source = "on" /\ link = "down")
  /\ source' = "off"
  /\ CloseNode
  /\ finished' = (finished \/ node)
  /\ UNCHANGED <<localVars, sdkVars, wrote, outcome, transport, link, fault>>

-----------------------------------------------------------------------------
(* process_uplink, on either thread                                        *)

\* Mutants: SENDING is only set, or only tested.
SetSending(t) ==
  /\ At(t, "process")
  /\ Goto(t, "closed?")
  /\ flags' = flags \union {"SENDING"}
  /\ UNCHANGED <<up, wblock, rblock, listVars, heap, localVars, restVars>>
TestSending(t) ==
  /\ At(t, "process")
  /\ IF "SENDING" \in flags THEN Return(t) ELSE Goto(t, "closed?")
  /\ UNCHANGED <<upVars, localVars, restVars>>

TestAndSetSending(t) ==
  /\ At(t, "process")
  /\ IF "SENDING" \in flags THEN Return(t) ELSE Goto(t, "closed?")
  /\ flags' = flags \union {"SENDING"}
  /\ UNCHANGED <<up, wblock, rblock, listVars, heap, localVars, restVars>>

ReadClosed(t) ==
  /\ At(t, "closed?")
  /\ closed' = [closed EXCEPT ![t] = "CLOSED" \in flags]
  /\ Goto(t, "get")
  /\ UNCHANGED <<upVars, next, result, again, restVars>>

\* sys_slist_get looks at the head; an empty list ends a closed uplink.
GetBlock(t) ==
  /\ At(t, "get")
  /\ IF queue = <<>>
       THEN /\ Goto(t, IF closed[t] THEN "end" ELSE "unsend")
            /\ result' = [result EXCEPT ![t] = "success"]
            /\ UNCHANGED next
       ELSE /\ next' = [next EXCEPT ![t] = Len(queue) > 1]
            /\ Goto(t, "unlink")
            /\ UNCHANGED result
  /\ UNCHANGED <<upVars, closed, again, restVars>>

\* ... moves the head to the successor it has read, so that a node appended
\* meanwhile to the last one hangs on the removed node,
Unlink(t) ==
  /\ At(t, "unlink")
  /\ rblock' = Head(queue)
  /\ IF next[t]
       THEN queue' = Tail(queue) /\ UNCHANGED lost /\ Goto(t, "send")
       ELSE queue' = <<>> /\ lost' = lost \o Tail(queue) /\ Goto(t, "tail?")
  /\ UNCHANGED <<up, flags, wblock, heap, localVars, restVars>>

\* tests whether the tail still is the removed node,
TestTail(t) ==
  /\ At(t, "tail?")
  /\ Goto(t, IF lost = <<>> THEN "tail" ELSE "send")
  /\ UNCHANGED <<upVars, localVars, restVars>>

\* and makes the empty head the tail: nodes appended after the test are reached
\* from neither, and those appended later are.
ResetTail(t) ==
  /\ At(t, "tail")
  /\ lost' = <<>>
  /\ Goto(t, "send")
  /\ UNCHANGED <<up, flags, wblock, rblock, queue, heap, localVars, restVars>>

\* A zero-length block is dropped, and SENDING given up.
SkipEmpty(t) ==
  /\ At(t, "send")
  /\ rblock.len = 0
  /\ rblock' = NoBlock
  /\ heap' = heap - 1
  /\ flags' = flags \ {"SENDING"}
  /\ Return(t)
  /\ UNCHANGED <<up, wblock, listVars, localVars, restVars>>

\* Mutant: a block sent off an empty list counts as the last, closed or not.
EmptyIsLast(t) == queue = <<>>

IsLastBlock(t) == queue = <<>> /\ closed[t]

\* golioth_gateway_uplink_block, which copies the block or refuses it
SendBlock(t) ==
  /\ At(t, "send")
  /\ rblock.len > 0
  /\ \/ /\ sdk' = "busy"
        /\ sentLast' = (sentLast \/ IsLastBlock(t))
        /\ sent' = rblock.from + rblock.len
        /\ Return(t)
        /\ UNCHANGED result
     \/ /\ LocalFails
        /\ result' = [result EXCEPT ![t] = "local"]
        /\ Goto(t, "end")
        /\ UNCHANGED <<sdk, sentLast, sent>>
  /\ UNCHANGED <<upVars, closed, next, again, status, wrote, outcome, btVars,
                 fault>>

ClearSending(t) ==
  /\ At(t, "unsend")
  /\ flags' = flags \ {"SENDING"}
  /\ Return(t)
  /\ UNCHANGED <<up, wblock, rblock, listVars, heap, localVars, restVars>>

\* Mutant: uplink_end_cb keeps node->uplink.
EndCbKeepsNode(t) ==
  /\ At(t, "end")
  /\ outcome' = result[t]
  /\ Goto(t, "unsubscribe")
  /\ UNCHANGED <<upVars, localVars, sdkVars, wrote, node, transport, source, link,
                 finished, fault>>

\* uplink_end_cb forgets the uplink,
EndCb(t) ==
  /\ At(t, "end")
  /\ node' = FALSE
  /\ outcome' = result[t]
  /\ Goto(t, "unsubscribe")
  /\ UNCHANGED <<upVars, localVars, sdkVars, wrote, transport, source, link,
                 finished, fault>>

\* unsubscribes, and finishes the connection unless all is well.
Unsubscribe(t) ==
  /\ At(t, "unsubscribe")
  /\ source' = IF transport = "indicate" /\ source = "on" THEN "ending" ELSE source
  /\ finished' = (finished \/ result[t] # "success")
  /\ Goto(t, "cleanup")
  /\ UNCHANGED <<upVars, localVars, sdkVars, wrote, outcome, node, transport, link,
                 fault>>

\* Mutant: the blocks still queued are not freed.
CleanupKeepsQueue(t) ==
  /\ At(t, "cleanup")
  /\ up' = "freed"
  /\ heap' = heap - BlocksIn(wblock) - BlocksIn(rblock)
  /\ queue' = <<>> /\ wblock' = NoBlock /\ rblock' = NoBlock
  /\ Return(t)
  /\ UNCHANGED <<flags, lost, localVars, restVars>>

\* cleanup_uplink
Cleanup(t) ==
  /\ At(t, "cleanup")
  /\ up' = "freed"
  /\ heap' = heap - Len(queue) - BlocksIn(wblock) - BlocksIn(rblock)
  /\ queue' = <<>> /\ wblock' = NoBlock /\ rblock' = NoBlock
  /\ Return(t)
  /\ UNCHANGED <<flags, lost, localVars, restVars>>

-----------------------------------------------------------------------------
(* block_upload_callback, on the CoAP thread                               *)

UploadCallback(ok) ==
  /\ pc["cloud"] = "idle" /\ pc["bt"] = "idle"
  /\ sdk = "busy"
  /\ ok \/ CloudFails
  /\ sdk' = "idle"
  /\ status' = ok
  /\ Goto("cloud", "delivered")
  /\ UNCHANGED <<upVars, localVars, sentLast, sent, wrote, outcome, btVars, fault>>

TestAndClearSending ==
  /\ At("cloud", "delivered")
  /\ IF "SENDING" \in flags THEN Goto("cloud", "free") ELSE Return("cloud")
  /\ flags' = flags \ {"SENDING"}
  /\ UNCHANGED <<up, wblock, rblock, listVars, heap, localVars, restVars>>

FreeSent ==
  /\ At("cloud", "free")
  /\ heap' = heap - BlocksIn(rblock)
  /\ Goto("cloud", "null")
  /\ UNCHANGED <<up, flags, wblock, rblock, listVars, localVars, restVars>>

\* Mutant: the next block is not looked for.
ForgetAndStop ==
  /\ At("cloud", "null")
  /\ rblock' = NoBlock
  /\ Goto("cloud", IF status THEN "idle" ELSE "end")
  /\ result' = [result EXCEPT !["cloud"] = "cloud"]
  /\ UNCHANGED <<up, flags, wblock, listVars, heap, closed, next, again, restVars>>

ForgetSent ==
  /\ At("cloud", "null")
  /\ rblock' = NoBlock
  /\ Goto("cloud", IF status THEN "process" ELSE "end")
  /\ result' = [result EXCEPT !["cloud"] = "cloud"]
  /\ UNCHANGED <<up, flags, wblock, listVars, heap, closed, next, again, restVars>>

-----------------------------------------------------------------------------
(* The connection                                                          *)

\* The application disconnects after bt_finished; the device may go away, and
\* once its uplink is done it goes away when the downlink is over.
Disconnect ==
  /\ HostRuns
  /\ link = "up"
  /\ finished \/ LinkDrops \/ (up = "freed" /\ source = "off")
  /\ link' = "down"
  /\ source' = IF transport = "read" THEN "off" ELSE source
  /\ UNCHANGED <<upVars, pc, localVars, sdkVars, wrote, outcome, node, transport,
                 finished, fault>>

\* The disconnected callback: pouch_gateway_uplink_cleanup
BtStop ==
  /\ HostRuns
  /\ link = "down" /\ source = "off"
  /\ link' = "stopped"
  /\ CloseNode
  /\ UNCHANGED <<localVars, sdkVars, wrote, outcome, transport, source, finished,
                 fault>>

-----------------------------------------------------------------------------
\* pouch_gateway_uplink_open
OpenUplink ==
  /\ up = "live" /\ flags = {}
  /\ wblock = [from |-> 0, len |-> 0] /\ rblock = NoBlock
  /\ queue = <<>> /\ lost = <<>> /\ heap = 1

\* pouch_gateway_uplink_start has subscribed to the characteristic or read it.
Init ==
  /\ OpenUplink
  /\ pc = [t \in Threads |-> "idle"]
  /\ closed = [t \in Threads |-> FALSE] /\ next = [t \in Threads |-> FALSE]
  /\ result = [t \in Threads |-> "success"] /\ again = FALSE
  /\ sdk = "idle" /\ status = TRUE /\ sentLast = FALSE /\ sent = 0
  /\ wrote = 0 /\ outcome = "none"
  /\ node = TRUE /\ transport \in Transports /\ source = "on"
  /\ link = "up" /\ finished = FALSE
  /\ fault = "none"

ProcessUplink(t) ==
  \/ TestAndSetSending(t) \/ ReadClosed(t) \/ GetBlock(t) \/ Unlink(t)
  \/ TestTail(t) \/ ResetTail(t)
  \/ SkipEmpty(t) \/ SendBlock(t) \/ ClearSending(t)
  \/ EndCb(t) \/ Unsubscribe(t) \/ Cleanup(t) \/ Crash(t)

CloudStep ==
  \/ \E ok \in BOOLEAN : UploadCallback(ok)
  \/ TestAndClearSending \/ FreeSent \/ ForgetSent
  \/ ProcessUplink("cloud")

BtStep == CloseAgain \/ ProcessUplink("bt")

Device == \E len \in Lens, last \in BOOLEAN : Payload(len, last)

\* Nothing is left to do, or the program has left the defined behaviour.
Ended ==
  /\ \/ fault # "none"
     \/ /\ link = "stopped" /\ sdk = "idle"
        /\ pc = [t \in Threads |-> "idle"]
  /\ UNCHANGED vars

Next ==
  \/ /\ fault = "none"
     /\ \/ CloudStep \/ BtStep \/ Device \/ PayloadTooLate \/ BadPayload
        \/ SubscriptionEnds \/ Disconnect \/ BtStop
  \/ Ended

Spec == Init /\ [][Next]_vars

\* Both threads are scheduled and the SDK answers every block; a device ends its
\* pouch; the host reports the end of subscriptions and connections.
Fairness ==
  /\ WF_vars(fault = "none" /\ CloudStep)
  /\ WF_vars(fault = "none" /\ BtStep)
  /\ WF_vars(fault = "none" /\ \E len \in Lens : Payload(len, TRUE))
  /\ WF_vars(fault = "none" /\ (PayloadTooLate \/ SubscriptionEnds \/ BtStop))
  /\ WF_vars(fault = "none" /\ finished /\ Disconnect)

FairSpec == Spec /\ Fairness

-----------------------------------------------------------------------------
(* Properties                                                              *)

Section == {"closed?", "get", "unlink", "send", "unsend"} \union TailSteps

\* Every variable holds a value its C counterpart can hold.
TypeOK ==
  /\ up \in {"live", "freed"}
  /\ flags \subseteq {"CLOSED", "SENDING"}
  /\ {wblock, rblock} \subseteq Block \union {NoBlock}
  /\ queue \in Seq(Block) /\ lost \in Seq(Block)
  /\ heap \in Int
  /\ pc \in [Threads -> {"idle", "close2", "end", "unsubscribe"} \union UsesUplink]
  /\ closed \in [Threads -> BOOLEAN] /\ next \in [Threads -> BOOLEAN]
  /\ result \in [Threads -> {"success", "local", "cloud"}]
  /\ again \in BOOLEAN /\ status \in BOOLEAN /\ sentLast \in BOOLEAN
  /\ sdk \in {"idle", "busy"}
  /\ sent \in Nat /\ wrote \in Nat
  /\ outcome \in {"none", "success", "local", "cloud"}
  /\ node \in BOOLEAN /\ transport \in Transports
  /\ source \in {"on", "ending", "off"}
  /\ link \in {"up", "down", "stopped"}
  /\ finished \in BOOLEAN
  /\ fault \in {"none", "null", "uplink"}

\* SENDING is a lock: the two threads are never both between taking it in
\* process_uplink and giving it up, and the SDK has no block meanwhile.
OneSender ==
  /\ ~(pc["cloud"] \in Section /\ pc["bt"] \in Section)
  /\ \A t \in Threads : pc[t] \in Section => "SENDING" \in flags /\ sdk = "idle"

\* The SDK gets the bytes of the pouch in their order, none twice; and without a
\* gap if the host cannot append a block in the middle of sys_slist_get.
UploadInOrder ==
  [][sdk = "idle" /\ sdk' = "busy" =>
       rblock'.from >= sent /\ (rblock'.from = sent \/ Preempts)]_vars

\* node->uplink is cleared before the uplink is freed, by whichever thread ends it.
NodeNeverDangles == node => up = "live"

\* The callback of a block with the SDK finds the uplink and its SENDING bit.
CallbackFindsUplink == sdk = "busy" => up = "live" /\ "SENDING" \in flags

\* When the uplink is freed, so are all its blocks.
NoLeak == up = "freed" => heap = 0

\* No thread uses an uplink that is gone.
MemorySafe == fault = "none"

\* An uplink that reports success gave the SDK every byte it had accepted and,
\* unless there was none, marked the last block.  IsUpload implies it.
SuccessIsComplete ==
  outcome = "success" => sent = wrote /\ (wrote > 0 => sentLast)

\* An uplink is a stream of blocks: each is full but the last, which is marked;
\* one is with the SDK at a time; success is reported of the whole pouch, and the
\* uplink freed after its report.
Upload ==
  INSTANCE UplinkStream WITH
    accepted <- wrote,
    closed <- "CLOSED" \in flags,
    given <- sent,
    busy <- sdk = "busy",
    marked <- sentLast,
    failed <- ~status,
    verdict <- outcome,
    freed <- up = "freed"

IsUpload == Upload!Spec

\* A closed uplink is processed to its end and cleaned up.
ClosedEnds == "CLOSED" \in flags ~> up = "freed"

\* The same for an uplink that was given at least one byte.
ClosedDataEnds == "CLOSED" \in flags /\ wrote > 0 ~> up = "freed"
=============================================================================
