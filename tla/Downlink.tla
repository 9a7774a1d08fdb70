------------------------------ MODULE Downlink ------------------------------
(***************************************************************************)
(* One downlink of the gateway: the blocks that the Golioth SDK receives   *)
(* from the cloud are queued (lib/downlink.c, lib/block.c) and written,    *)
(* one GATT write at a time, to the connected Pouch device                 *)
(* (lib/bt/downlink.c).                                                    *)
(*                                                                         *)
(* Two threads run this code.  "cloud" is the CoAP client thread of the    *)
(* Golioth SDK, which calls block_cb for each block and end_cb at the end  *)
(* of the request.  "bt" is the Bluetooth host thread, which calls         *)
(* write_response_cb.  A step is one access to shared state.  The host     *)
(* thread is cooperative and the CoAP thread preemptible, so "bt" may cut  *)
(* in between any two steps of "cloud" and then runs until it returns.     *)
(* What only one thread can observe is joined to the step before it.       *)
(*                                                                         *)
(* A pool block is named by the sequence number of its content: the slab   *)
(* hands out indistinguishable blocks, so `free' only counts them.         *)
(***************************************************************************)
EXTENDS Integers, Sequences

CONSTANTS
  NumBlocks,    \* CONFIG_POUCH_GATEWAY_NUM_BLOCKS: blocks in the pool
  Lens,         \* payload lengths of a CoAP block
  Room,         \* bytes of downlink payload in one GATT write
  MaxBlocks,    \* bound: blocks in the downlink
  MaxLag,       \* bound: responses that "bt" handles in one burst of "cloud"
  CloudFails,   \* the SDK may end the downlink with an error
  GattFails,    \* a GATT write may be refused or answered with an error
  LinkDrops,    \* the connection may be lost at any time
  SlowNode,     \* the device may be slower than the block timeout
  NoBlock       \* NULL

ASSUME PoolAssumption == NumBlocks \in Nat \ {0}
ASSUME LensAssumption == Lens \subseteq Nat \ {0}
ASSUME RoomAssumption == Room \in Nat \ {0}
ASSUME BoundAssumption == MaxBlocks \in Nat \ {0} /\ MaxLag \in Nat
ASSUME EnvAssumption == {CloudFails, GattFails, LinkDrops, SlowNode} \subseteq BOOLEAN

Threads == {"cloud", "bt"}

\* The content of a filled block; only the last one may be empty.
Block == [seq: 1 .. MaxBlocks, len: Lens \union {0}, last: BOOLEAN]
ASSUME NoBlockAssumption == NoBlock \notin Block

VARIABLES
  ctx,        \* the malloc'ed downlink context: "live" or "freed"
  flags,      \* its COMPLETE, ABORTED and (CLIENT_)WAITING bits
  queue,      \* block_queue
  current,    \* current_block
  offset,     \* bytes of current_block already copied
  free,       \* blocks left in the slab
  pc,         \* where each thread is in its handler
  room,       \* *dst_len of each thread's get_data
  ret,        \* what each thread's get_data returns
  sdk,        \* the SDK's request: "open", "last" block given, ended in "error"
  count,      \* block_cb calls so far
  exit,       \* where "cloud" goes on after pouch_gateway_downlink_close; "late"
              \* is "done" where block_cb has given up on a device that reads
  lag,        \* responses handled since the handler of "cloud" was resumed
  link,       \* "up", "down" (disconnected) or "stopped" (bt_stop has run)
  writes,     \* GATT writes whose response is outstanding
  packetizer, \* the Pouch packetizer of the node: "live" or "freed"
  finished,   \* bt_finished was called: the application will disconnect
  read,       \* history: last block that "get_data" reached, bytes read of it
  fault       \* first misuse of memory; the defined behaviour ends there

ctxVars == <<ctx, flags, queue, current, offset>>
cloudVars == <<sdk, count, exit>>
btVars == <<link, writes, packetizer, finished>>
getVars == <<room, ret>>
vars == <<ctxVars, free, pc, getVars, cloudVars, lag, btVars, read, fault>>

-----------------------------------------------------------------------------
\* pouch_gateway_downlink_close on the CoAP thread, and the flush before it
ClosePcs == {"flush", "held?", "release", "freeCtx", "freeRest"}

\* The steps of a handler that dereference or free the context, the packetizer,
\* and current_block.
UsesContext == {"abort?", "put", "current?", "waiting?", "endAbort", "endClose",
                "kick?", "complete?", "fetch", "copy", "abort", "close"} \union ClosePcs
UsesPacketizer == {"start", "fetch", "copy", "finish"}
UsesBlock(t) ==
  \/ pc[t] \in {"copy", "release"}
  \/ /\ t = "bt" /\ pc[t] \in {"close", "complete?"}
     /\ "COMPLETE" \in flags /\ current # NoBlock

\* current_block is NULL, or the CoAP thread has freed it and not yet the context.
BlockGone(t) == current = NoBlock \/ (t = "bt" /\ pc["cloud"] = "freeRest")

\* The host thread cuts into get_data to run it itself: a data race.
Races(t) == t = "bt" /\ pc["bt"] = "fetch" /\ pc["cloud"] \in {"fetch", "copy"}

Misuse(t) ==
  CASE pc[t] \in UsesContext /\ ctx = "freed" -> "context"
    [] pc[t] \in UsesPacketizer /\ packetizer = "freed" -> "packetizer"
    [] pc[t] = "copy" /\ link = "stopped" -> "scratch"
    [] UsesBlock(t) /\ BlockGone(t) -> "block"
    [] Races(t) -> "race"
    [] OTHER -> "none"

\* Thread t may take the step p: the host thread is never preempted.
At(t, p) ==
  /\ pc[t] = p
  /\ t = "cloud" => pc["bt"] = "idle"
  /\ Misuse(t) = "none"

Goto(t, p) == pc' = [pc EXCEPT ![t] = p]

\* A handler returns.  After its last callback the SDK makes no other.
Return(t) == Goto(t, IF t = "cloud" /\ sdk # "open" THEN "done" ELSE "idle")

\* The first access to memory that is gone, or freed for the second time; what C
\* does next is undefined.
Crash(t) ==
  /\ t = "cloud" => pc["bt"] = "idle"
  /\ Misuse(t) # "none"
  /\ fault' = Misuse(t)
  /\ UNCHANGED <<ctxVars, free, pc, getVars, cloudVars, lag, btVars, read>>

-----------------------------------------------------------------------------
(* lib/block.c and the helpers of lib/downlink.c                           *)

HeldBlocks == IF current = NoBlock \/ pc["cloud"] = "freeRest" THEN 0 ELSE 1

\* pouch_gateway_downlink_close: the queue is not flushed.
CloseContext ==
  /\ free' = free + HeldBlocks
  /\ current' = NoBlock
  /\ ctx' = "freed"
  /\ UNCHANGED <<flags, queue, offset>>

\* Close and go on at p.  The host thread is not interrupted; the CoAP thread
\* may be, between the test of current_block and each of the frees.
CloseThen(t, p) ==
  IF t = "bt"
    THEN CloseContext /\ Goto(t, p) /\ UNCHANGED exit
    ELSE Goto(t, "held?") /\ exit' = p /\ UNCHANGED <<ctxVars, free>>

TestHeld ==
  /\ At("cloud", "held?")
  /\ Goto("cloud", IF current = NoBlock THEN "freeCtx" ELSE "release")
  /\ UNCHANGED <<ctxVars, free, getVars, cloudVars, lag, btVars, read, fault>>

\* block_free of current_block, which is left dangling
FreeHeld ==
  /\ At("cloud", "release")
  /\ free' = free + 1
  /\ Goto("cloud", "freeRest")
  /\ UNCHANGED <<ctxVars, getVars, cloudVars, lag, btVars, read, fault>>

FreeContext ==
  \E p \in {"freeCtx", "freeRest"} :
    /\ At("cloud", p)
    /\ ctx' = "freed" /\ current' = NoBlock
    /\ Goto("cloud", IF exit = "late" THEN "done" ELSE exit)
    /\ UNCHANGED <<flags, queue, offset, free, getVars, cloudVars, lag, btVars, read,
                   fault>>

\* flush_block_queue and close, and block_cb returns an error.
StartFlush(why) == Goto("cloud", "flush") /\ exit' = why

\* Mutants: the flush takes the blocks off the queue without block_free, or is
\* forgotten.
FlushWithoutFree ==
  /\ At("cloud", "flush")
  /\ IF queue = <<>>
       THEN Goto("cloud", "held?") /\ UNCHANGED queue
       ELSE queue' = Tail(queue) /\ UNCHANGED pc
  /\ UNCHANGED <<ctx, flags, current, offset, free, getVars, cloudVars, lag, btVars,
                 read, fault>>
FlushForgotten ==
  /\ At("cloud", "flush")
  /\ Goto("cloud", "held?")
  /\ UNCHANGED <<ctxVars, free, getVars, cloudVars, lag, btVars, read, fault>>

\* One k_fifo_get of the loop, and block_free of what it returned: nobody else
\* has that block.
FlushOne ==
  /\ At("cloud", "flush")
  /\ IF queue = <<>>
       THEN Goto("cloud", "held?") /\ UNCHANGED <<queue, free>>
       ELSE queue' = Tail(queue) /\ free' = free + 1 /\ UNCHANGED pc
  /\ UNCHANGED <<ctx, flags, current, offset, getVars, cloudVars, lag, btVars, read,
                 fault>>

\* k_fifo_get(K_NO_WAIT) into current_block
TakeNext ==
  /\ current' = IF queue = <<>> THEN NoBlock ELSE Head(queue)
  /\ queue' = IF queue = <<>> THEN <<>> ELSE Tail(queue)

-----------------------------------------------------------------------------
(* pouch_gateway_downlink_block_cb, on the CoAP thread                     *)

\* The SDK has received one more block of the response.
BlockCb ==
  /\ pc["cloud"] = "idle" /\ pc["bt"] = "idle"
  /\ sdk = "open" /\ count < MaxBlocks
  /\ count' = count + 1
  /\ lag' = 0
  /\ Goto("cloud", "abort?")
  /\ UNCHANGED <<ctxVars, free, getVars, sdk, exit, btVars, read, fault>>

\* An aborted downlink ends here; GOLIOTH_ERR_NACK stops the SDK.
TestAborted ==
  /\ At("cloud", "abort?")
  /\ IF "ABORTED" \in flags
       THEN StartFlush("done")
       ELSE Goto("cloud", "alloc") /\ UNCHANGED exit
  /\ UNCHANGED <<ctxVars, free, getVars, sdk, count, lag, btVars, read, fault>>

\* k_mem_slab_alloc, which blocks while the slab is empty
BlockAlloc ==
  /\ At("cloud", "alloc")
  /\ free > 0
  /\ free' = free - 1
  /\ lag' = 0
  /\ Goto("cloud", "put")
  /\ UNCHANGED <<ctxVars, getVars, cloudVars, btVars, read, fault>>

\* Mutant: the slab is not waited for.
AllocNoWait ==
  /\ At("cloud", "alloc")
  /\ free = 0
  /\ StartFlush("done")
  /\ lag' = 0
  /\ UNCHANGED <<ctxVars, free, getVars, sdk, count, btVars, read, fault>>

\* CONFIG_POUCH_GATEWAY_DOWNLINK_BLOCK_TIMEOUT has passed.  Kconfig asks for a
\* timeout longer than the device takes for one block, so this needs a slow
\* device, which has a write to answer, or one that no longer reads.
BlockAllocTimeout ==
  /\ At("cloud", "alloc")
  /\ free = 0
  /\ IF "ABORTED" \in flags \/ link # "up" \/ writes = 0
       THEN StartFlush("done")
       ELSE SlowNode /\ StartFlush("late")
  /\ lag' = 0
  /\ UNCHANGED <<ctxVars, free, getVars, sdk, count, btVars, read, fault>>

\* Mutant: block_mark_last is forgotten.
PutUnmarked(len, last) ==
  /\ At("cloud", "put")
  /\ len = 0 => last
  /\ count = MaxBlocks => last
  /\ queue' = Append(queue, [seq |-> count, len |-> len, last |-> FALSE])
  /\ sdk' = IF last THEN "last" ELSE "open"
  /\ Goto("cloud", "current?")
  /\ UNCHANGED <<ctx, flags, current, offset, free, getVars, count, exit, lag,
                 btVars, read, fault>>

\* block_append, block_mark_last and k_fifo_put; the content of the block is
\* chosen here, the block is private to this thread before.
PutBlock(len, last) ==
  /\ At("cloud", "put")
  /\ len = 0 => last
  /\ count = MaxBlocks => last
  /\ queue' = Append(queue, [seq |-> count, len |-> len, last |-> last])
  /\ sdk' = IF last THEN "last" ELSE "open"
  /\ Goto("cloud", "current?")
  /\ UNCHANGED <<ctx, flags, current, offset, free, getVars, count, exit, lag,
                 btVars, read, fault>>

TestCurrent ==
  /\ At("cloud", "current?")
  /\ IF current = NoBlock THEN Goto("cloud", "waiting?") ELSE Return("cloud")
  /\ UNCHANGED <<ctxVars, free, getVars, cloudVars, lag, btVars, read, fault>>

\* Mutant: the transport is kicked whether it waits or not.
KickAlways ==
  /\ At("cloud", "waiting?")
  /\ Goto("cloud", "start")
  /\ flags' = flags \ {"WAITING"}
  /\ UNCHANGED <<ctx, queue, current, offset, free, getVars, cloudVars, lag,
                 btVars, read, fault>>

\* atomic_test_and_clear_bit, then data_available_cb
TestAndClearWaiting ==
  /\ At("cloud", "waiting?")
  /\ IF "WAITING" \in flags THEN Goto("cloud", "start") ELSE Return("cloud")
  /\ flags' = flags \ {"WAITING"}
  /\ UNCHANGED <<ctx, queue, current, offset, free, getVars, cloudVars, lag,
                 btVars, read, fault>>

-----------------------------------------------------------------------------
(* pouch_gateway_downlink_end_cb with an error; with GOLIOTH_OK it does    *)
(* nothing.  A request that gave its last block has succeeded.             *)

EndCb ==
  /\ CloudFails
  /\ pc["cloud"] = "idle" /\ pc["bt"] = "idle"
  /\ sdk = "open"
  /\ sdk' = "error"
  /\ lag' = 0
  /\ Goto("cloud", "endAbort")
  /\ UNCHANGED <<ctxVars, free, getVars, count, exit, btVars, read, fault>>

\* Whatever current_block says, CLIENT_WAITING is not consulted.
EndKick ==
  /\ At("cloud", "kick?")
  /\ IF current = NoBlock THEN Goto("cloud", "start") ELSE Return("cloud")
  /\ UNCHANGED <<ctxVars, free, getVars, cloudVars, lag, btVars, read, fault>>

-----------------------------------------------------------------------------
(* pouch_gateway_downlink_abort, called by end_cb and by both callers of   *)
(* write_downlink_characteristic, and the rest of their error paths        *)

SetAborted(t) ==
  \E hop \in {<<"abort", "close">>, <<"endAbort", "endClose">>} :
    /\ At(t, hop[1])
    /\ flags' = flags \union {"ABORTED"}
    /\ Goto(t, hop[2])
    /\ UNCHANGED <<ctx, queue, current, offset, free, getVars, cloudVars, lag,
                   btVars, read, fault>>

\* Mutant: abort frees the context at once.
CloseAtOnce(t) ==
  \E hop \in {<<"close", "finish">>, <<"endClose", "kick?">>} :
    /\ At(t, hop[1])
    /\ CloseThen(t, hop[2])
    /\ UNCHANGED <<getVars, sdk, count, lag, btVars, read, fault>>

CloseIfComplete(t) ==
  \E hop \in {<<"close", "finish">>, <<"endClose", "kick?">>} :
    /\ At(t, hop[1])
    /\ IF "COMPLETE" \in flags
         THEN CloseThen(t, hop[2])
         ELSE Goto(t, hop[2]) /\ UNCHANGED <<ctxVars, free, exit>>
    /\ UNCHANGED <<getVars, sdk, count, lag, btVars, read, fault>>

\* pouch_gatt_packetizer_finish and pouch_gateway_bt_finished
Finish(t) ==
  /\ At(t, "finish")
  /\ packetizer' = "freed"
  /\ finished' = TRUE
  /\ Return(t)
  /\ UNCHANGED <<ctxVars, free, getVars, cloudVars, lag, link, writes, read, fault>>

-----------------------------------------------------------------------------
(* write_downlink_characteristic and pouch_gateway_downlink_get_data, run  *)
(* by either thread                                                        *)

\* The MTU of a closed connection is 0, which is refused; otherwise the
\* packetizer calls get_data, which has nothing for a complete downlink.
StartGet(t) ==
  /\ At(t, "start")
  /\ room' = [room EXCEPT ![t] = Room]
  /\ IF link # "up"
       THEN Goto(t, "abort") /\ UNCHANGED ret
       ELSE IF "COMPLETE" \in flags
         THEN Goto(t, "send") /\ ret' = [ret EXCEPT ![t] = "nodata"]
         ELSE Goto(t, "fetch") /\ UNCHANGED ret
  /\ UNCHANGED <<ctxVars, free, cloudVars, lag, btVars, read, fault>>

\* Mutants: CLIENT_WAITING is set although a packet goes out, or never.
WaitAnyway(t) == IF "ABORTED" \in flags THEN {"COMPLETE"} ELSE {"WAITING"}
NeverWait(t) == IF "ABORTED" \in flags THEN {"COMPLETE"} ELSE {}

\* The bit that an empty queue makes get_data set, if any.
EmptyFlags(t) ==
  IF "ABORTED" \in flags THEN {"COMPLETE"}
  ELSE IF room[t] = Room THEN {"WAITING"} ELSE {}

Fetch(t) ==
  /\ At(t, "fetch")
  /\ IF current = NoBlock /\ queue = <<>>
       THEN /\ flags' = flags \union EmptyFlags(t)
            /\ ret' = [ret EXCEPT ![t] = IF "ABORTED" \in flags THEN "last" ELSE "again"]
            /\ Goto(t, "send")
            /\ UNCHANGED <<queue, current>>
       ELSE /\ IF current = NoBlock THEN TakeNext ELSE UNCHANGED <<queue, current>>
            /\ Goto(t, "copy")
            /\ UNCHANGED <<flags, ret>>
  /\ UNCHANGED <<ctx, offset, free, room, cloudVars, lag, btVars, read, fault>>

\* Mutant: the whole block is copied, however little room is left.
CopyWholeBlock(t) == current.len - offset

BytesToCopy(t) ==
  IF room[t] < current.len - offset THEN room[t] ELSE current.len - offset

\* Mutant: the next block is read from where the previous one ended.
OffsetKept(n) == offset + n

OffsetAfter(n) == IF offset + n = current.len THEN 0 ELSE offset + n

Copy(t) ==
  /\ At(t, "copy")
  /\ LET n == BytesToCopy(t)
         ends == offset + n = current.len
         last == ends /\ current.last
     IN /\ offset' = OffsetAfter(n)
        /\ room' = [room EXCEPT ![t] = @ - n]
        /\ read' = [seq |-> current.seq, off |-> offset + n]
        /\ IF ends
             THEN TakeNext /\ free' = free + 1
             ELSE UNCHANGED <<queue, current, free>>
        /\ flags' = IF last THEN flags \union {"COMPLETE"} ELSE flags
        /\ ret' = [ret EXCEPT ![t] = IF last THEN "last" ELSE "ok"]
        /\ Goto(t, IF last \/ room[t] = n THEN "send" ELSE "fetch")
  /\ UNCHANGED <<ctx, cloudVars, lag, btVars, fault>>

\* get_data gave the packetizer a packet to send.
HasPacket(t) ==
  \/ ret[t] \in {"ok", "last"}
  \/ ret[t] = "again" /\ room[t] < Room

\* bt_gatt_write is refused on a closed connection.
Send(t) ==
  /\ At(t, "send")
  /\ HasPacket(t)
  /\ \/ /\ link = "up"
        /\ writes' = writes + 1
        /\ Return(t)
     \/ /\ GattFails \/ link # "up"
        /\ Goto(t, "abort")
        /\ UNCHANGED writes
  /\ UNCHANGED <<ctxVars, free, getVars, cloudVars, lag, link, packetizer, finished,
                 read, fault>>

\* -ENODATA, which write_response_cb accepts and downlink_data_available does
\* not, or the error that the packetizer reports.
SendNothing(t) ==
  /\ At(t, "send")
  /\ ~HasPacket(t)
  /\ IF t = "bt" /\ ret[t] = "again" THEN Return(t) ELSE Goto(t, "abort")
  /\ UNCHANGED <<ctxVars, free, getVars, cloudVars, lag, btVars, read, fault>>

-----------------------------------------------------------------------------
(* write_response_cb, on the Bluetooth host thread, and the connection     *)

BurstEnded == pc["cloud"] \in {"idle", "alloc", "done"}

\* The host completes every outstanding request of a closed connection with
\* an error before it reports the disconnection.
WriteResponse(err) ==
  /\ pc["bt"] = "idle"
  /\ writes > 0
  /\ IF err THEN GattFails \/ link # "up" ELSE link = "up"
  /\ BurstEnded \/ lag < MaxLag
  /\ lag' = IF BurstEnded THEN lag ELSE lag + 1
  /\ writes' = writes - 1
  /\ Goto("bt", IF err THEN "abort" ELSE "complete?")
  /\ UNCHANGED <<ctxVars, free, getVars, cloudVars, link, packetizer, finished,
                 read, fault>>

TestComplete ==
  /\ At("bt", "complete?")
  /\ IF "COMPLETE" \in flags
       THEN CloseThen("bt", "finish")
       ELSE Goto("bt", "start") /\ UNCHANGED <<ctxVars, free, exit>>
  /\ UNCHANGED <<getVars, sdk, count, lag, btVars, read, fault>>

\* The application disconnects after bt_finished; the device may go away.
Disconnect ==
  /\ pc["bt"] = "idle"
  /\ link = "up"
  /\ finished \/ LinkDrops
  /\ link' = "down"
  /\ UNCHANGED <<ctxVars, free, pc, getVars, cloudVars, lag, writes, packetizer,
                 finished, read, fault>>

\* The disconnected callback calls pouch_gateway_bt_stop, which frees the
\* scratch buffer; nothing else of the downlink.
BtStop ==
  /\ pc["bt"] = "idle"
  /\ link = "down" /\ writes = 0
  /\ link' = "stopped"
  /\ UNCHANGED <<ctxVars, free, pc, getVars, cloudVars, lag, writes, packetizer,
                 finished, read, fault>>

-----------------------------------------------------------------------------
\* pouch_gateway_downlink_open
OpenContext ==
  /\ ctx = "live" /\ flags = {"WAITING"}
  /\ queue = <<>> /\ current = NoBlock /\ offset = 0

\* pouch_gateway_downlink_start has returned; the uplink opens the request.
Init ==
  /\ OpenContext
  /\ free = NumBlocks
  /\ pc = [t \in Threads |-> "idle"]
  /\ room = [t \in Threads |-> Room] /\ ret = [t \in Threads |-> "ok"]
  /\ sdk = "open" /\ count = 0 /\ exit = "done" /\ lag = 0
  /\ link = "up" /\ writes = 0 /\ packetizer = "live" /\ finished = FALSE
  /\ read = [seq |-> 0, off |-> 0]
  /\ fault = "none"

WriteCharacteristic(t) ==
  StartGet(t) \/ Fetch(t) \/ Copy(t) \/ Send(t) \/ SendNothing(t)

ErrorPath(t) == SetAborted(t) \/ CloseIfComplete(t) \/ Finish(t)

CloudStep ==
  \/ BlockCb \/ TestAborted \/ BlockAlloc \/ BlockAllocTimeout
  \/ \E len \in Lens \union {0}, last \in BOOLEAN : PutBlock(len, last)
  \/ TestCurrent \/ TestAndClearWaiting \/ EndCb \/ EndKick
  \/ FlushOne \/ TestHeld \/ FreeHeld \/ FreeContext
  \/ WriteCharacteristic("cloud") \/ ErrorPath("cloud") \/ Crash("cloud")

BtStep ==
  \/ TestComplete
  \/ WriteCharacteristic("bt") \/ ErrorPath("bt") \/ Crash("bt")

Response == \E err \in BOOLEAN : WriteResponse(err)

\* The session is over, or the program has left the defined behaviour.
Ended ==
  /\ \/ fault # "none"
     \/ pc = [cloud |-> "done", bt |-> "idle"] /\ link = "stopped"
  /\ UNCHANGED vars

Next ==
  \/ /\ fault = "none"
     /\ CloudStep \/ BtStep \/ Response \/ Disconnect \/ BtStop
  \/ Ended

Spec == Init /\ [][Next]_vars

\* Both threads are scheduled, the SDK goes on with the response or fails, the
\* host completes every request, disconnects when told to and reports it.
Fairness ==
  /\ WF_vars(fault = "none" /\ CloudStep)
  /\ WF_vars(fault = "none" /\ BtStep)
  /\ WF_vars(fault = "none" /\ Response)
  /\ WF_vars(fault = "none" /\ finished /\ Disconnect)
  /\ WF_vars(fault = "none" /\ BtStop)

FairSpec == Spec /\ Fairness

-----------------------------------------------------------------------------
(* Properties                                                              *)

ContextPcs == {"abort?", "alloc", "put", "current?", "waiting?", "endAbort",
               "endClose", "kick?", "done"}
GetPcs == {"start", "fetch", "copy", "send", "abort", "close", "finish"}

\* Every variable holds a value its C counterpart can hold.
ContextTypeOK ==
  /\ ctx \in {"live", "freed"}
  /\ flags \subseteq {"COMPLETE", "ABORTED", "WAITING"}
  /\ queue \in Seq(Block)
  /\ current \in Block \union {NoBlock}
  /\ offset \in Nat
  /\ free \in 0 .. NumBlocks
  /\ read \in [seq: 0 .. MaxBlocks, off: Nat]

ThreadTypeOK ==
  /\ pc \in [Threads -> {"idle", "complete?"} \union ContextPcs \union GetPcs
                           \union ClosePcs]
  /\ room \in [Threads -> 0 .. Room]
  /\ ret \in [Threads -> {"ok", "last", "again", "nodata"}]
  /\ sdk \in {"open", "last", "error"}
  /\ count \in 0 .. MaxBlocks
  /\ exit \in {"done", "late", "kick?", "finish"}
  /\ lag \in Nat

LinkTypeOK ==
  /\ link \in {"up", "down", "stopped"}
  /\ writes \in Nat
  /\ packetizer \in {"live", "freed"}
  /\ finished \in BOOLEAN
  /\ fault \in {"none", "context", "packetizer", "scratch", "block", "race"}

TypeOK == ContextTypeOK /\ ThreadTypeOK /\ LinkTypeOK

\* No block of the static slab is lost, on any path of block_cb, get_data, flush
\* and close, however they interleave: each is free, queued, current or in the
\* hands of block_cb.  A block that is freed twice is a fault, not a count.
PoolAccounted ==
  free + Len(queue) + HeldBlocks + (IF pc["cloud"] = "put" THEN 1 ELSE 0) = NumBlocks

\* Freeing the context strands no block: close frees only current_block, so the
\* queue must be empty whichever thread closes.
CloseStrandsNothing == ctx = "freed" => queue = <<>> /\ current = NoBlock

Unread == (IF current = NoBlock THEN <<>> ELSE <<current>>) \o queue

Given == IF pc["cloud"] \in {"abort?", "alloc", "put"} THEN count - 1 ELSE count

\* What the device gets is the cloud's response, until block_cb gives it up: the
\* blocks not yet read are the most recent ones in their order, and reading is
\* where it stopped.
StreamIntact ==
  ctx = "live" /\ fault = "none" /\ pc["cloud"] \notin ClosePcs =>
    /\ \A i \in DOMAIN Unread : Unread[i].seq = Given - Len(Unread) + i
    /\ IF offset = 0
         THEN read.seq = Given - Len(Unread)
         ELSE /\ current # NoBlock
              /\ read = [seq |-> current.seq, off |-> offset]
              /\ offset < current.len

\* The CoAP thread is inside data_available_cb.
InCallback ==
  \/ pc["cloud"] \in GetPcs
  \/ pc["cloud"] \in ClosePcs /\ exit = "finish"

\* The CLIENT_WAITING handshake: when block_cb calls data_available_cb no GATT
\* write is in flight, so the two threads are never both in get_data and
\* write_params and the scratch buffer are not reused under the host.
SingleConsumer ==
  InCallback /\ sdk # "error" => writes = 0 /\ pc["bt"] = "idle"

\* Until the downlink is over somebody will look at the queue again: a write is
\* in flight, or get_data found nothing and the next block_cb will call back.
NoLostWakeup ==
  /\ ctx = "live" /\ fault = "none" /\ ~finished
  /\ pc["bt"] = "idle" /\ ~InCallback
  => IF "WAITING" \in flags
       THEN /\ current = NoBlock
            /\ queue = <<>> \/ pc["cloud"] \in {"current?", "waiting?"}
       ELSE writes > 0

\* data_available_cb is called when there is data: downlink_data_available
\* aborts the session on -ENODATA.
KickHasData ==
  pc["cloud"] = "fetch" /\ sdk # "error" /\ room["cloud"] = Room => Unread # <<>>

\* No thread uses memory that the other has freed.
MemorySafe == fault = "none"

\* Once the Bluetooth side has given the connection up nobody writes to it,
\* unless the request of the cloud ends in an error.
QuietAfterFinish == [][finished /\ sdk # "error" => writes' <= writes]_vars

\* A response that the cloud completes is read to its end by the transport.
Delivered == sdk = "last" ~> "COMPLETE" \in flags

\* Nobody reads across a flush and close of the CoAP thread: nothing is handed over
\* while blocks are dropped, and the block in reading is not freed twice; unless
\* block_cb gives up on a device that still reads, for which Kconfig says that the
\* timeout should be larger than what it takes for one block.
FlushIsAlone ==
  [][pc["cloud"] \in ClosePcs /\ exit # "late" => read' = read /\ fault' # "block"]_vars

GivingUp == pc["cloud"] \in ClosePcs /\ exit \in {"done", "late"}

Phase ==
  IF ctx = "freed" THEN "closed"
  ELSE IF "COMPLETE" \in flags THEN "complete"
  ELSE IF GivingUp THEN "dropping" ELSE "open"

\* A downlink is a stream: each block of the cloud is handed over byte by byte, in
\* order and once, and without a gap until block_cb gives up and drops what is left;
\* otherwise the context is closed when the last byte was handed over, or when it
\* was aborted and is empty.
Stream ==
  INSTANCE DownlinkStream WITH
    pending <- Unread,
    pos <- IF ctx = "live" THEN offset ELSE 0,
    given <- Given,
    aborted <- "ABORTED" \in flags,
    phase <- Phase

IsStream == Stream!Spec

\* Whatever fails, the session does not hang: it ends in bt_stop or in a crash,
\* unless block_cb gives up on a device that still reads.
Finishes == <>(link = "stopped" \/ fault # "none" \/ exit = "late")

\* An aborted downlink is cleaned up in the end, at once or by the next block_cb.
AbortReclaims == "ABORTED" \in flags ~> ctx = "freed"
=============================================================================
