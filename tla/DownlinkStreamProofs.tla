------------------------ MODULE DownlinkStreamProofs ------------------------
(***************************************************************************)
(* Downlink implements DownlinkStream, for every pool, block length, GATT  *)
(* payload and environment, and what a stream has from being one.          *)
(*                                                                         *)
(* The step that is not obvious is Close: the stream must be empty, and    *)
(* the code tests the COMPLETE bit only.  Drained says that the bit is     *)
(* set for an empty queue that nobody will put a block into: because the   *)
(* last block is at the end of the queue (LastAtEnd), or because the       *)
(* request has failed.  A downlink that the transport has aborted is not   *)
(* read by anyone (Silent), so that it is not found empty too early.  And  *)
(* the CoAP thread, whose close takes several steps, frees either such a   *)
(* complete downlink or one that block_cb has given up (CloudCloses).      *)
(***************************************************************************)
EXTENDS DownlinkProofs

\* The host thread runs write_response_cb only.
HostPcs == pc["bt"] \in {"idle", "complete?"} \union GetPcs

\* An abort by the transport is the end of reading, as long as the request has
\* not failed: no write is in flight and nobody will find CLIENT_WAITING set.
Silent ==
  sdk # "error" =>
    /\ "ABORTED" \in flags =>
         /\ writes = 0 /\ \A t \in Threads : ~MayWrite(t)
         /\ "WAITING" \in flags =>
              pc["cloud"] \notin {"alloc", "put", "current?", "waiting?"}
    /\ "WAITING" \in flags =>
         /\ pc["bt"] \notin {"abort", "close", "finish"}
         /\ pc["bt"] = "send" => ret["bt"] # "nodata"

\* Nothing follows the last block.
LastAtEnd ==
  /\ current # NoBlock /\ current.last => queue = <<>> /\ sdk = "last"
  /\ \A i \in 1 .. Len(queue) : queue[i].last => i = Len(queue) /\ sdk = "last"

\* Until block_cb has dropped the downlink, an open request has a context.
OpenIsLive == sdk = "open" /\ pc["cloud"] # "done" => ctx = "live"

\* The CoAP thread frees a downlink that is complete, or that block_cb gives up.
CloudCloses ==
  pc["cloud"] \in ClosePcs =>
    /\ pc["cloud"] = "flush" => GivingUp
    /\ GivingUp => sdk = "open"
    /\ ~GivingUp => ctx = "freed" \/ "COMPLETE" \in flags

StreamInv ==
  /\ Sound /\ Handshake /\ EndCbOnly
  /\ HostPcs /\ Silent /\ LastAtEnd /\ Drained /\ OpenIsLive /\ CloudCloses
  /\ CloseStrandsNothing

USE DEF GivingUp

-----------------------------------------------------------------------------
(* Sequences                                                               *)

LEMMA QueueTail ==
  ASSUME queue \in Seq(Block), queue # <<>>
  PROVE  /\ Head(queue) = queue[1] /\ Head(queue) \in Block
         /\ Tail(queue) \in Seq(Block) /\ Len(Tail(queue)) = Len(queue) - 1
         /\ Len(queue) \in Nat \ {0}
         /\ \A i \in 1 .. Len(queue) - 1 : Tail(queue)[i] = queue[i + 1]
         /\ <<Head(queue)>> \o Tail(queue) = queue
OBVIOUS

LEMMA UnreadQueue ==
  ASSUME queue \in Seq(Block), current = NoBlock
  PROVE  Unread = queue
BY DEF Unread

LEMMA UnreadCurrent ==
  ASSUME queue \in Seq(Block), current \in Block
  PROVE  /\ Unread \in Seq(Block) /\ Unread # <<>>
         /\ Head(Unread) = current /\ Tail(Unread) = queue
<1>1. Unread = <<current>> \o queue
  BY NoBlockAssumption DEF Unread
<1>2. <<current>> \in Seq(Block) /\ Len(<<current>>) = 1 /\ <<current>>[1] = current
  OBVIOUS
<1>3. Len(Unread) = Len(queue) + 1 /\ Unread \in Seq(Block)
  BY <1>1, <1>2
<1>4. Head(Unread) = current
  BY <1>1, <1>2, <1>3
<1>5. Tail(Unread) = queue
  BY <1>1, <1>2, <1>3
<1>6. QED
  BY <1>3, <1>4, <1>5

\* k_fifo_put
LEMMA UnreadAppend ==
  ASSUME queue \in Seq(Block), NEW b \in Block, queue' = Append(queue, b),
         current' = current
  PROVE  Unread' = Append(Unread, b)
<1>1. CASE current = NoBlock
  BY <1>1 DEF Unread
<1>2. CASE current # NoBlock
  <2>1. Unread = <<current>> \o queue /\ Unread' = <<current>> \o Append(queue, b)
    BY <1>2 DEF Unread
  <2>2. QED
    BY <2>1
<1>3. QED
  BY <1>1, <1>2

\* k_fifo_get, into an empty current_block
LEMMA UnreadTake ==
  ASSUME queue \in Seq(Block), TakeNext
  PROVE  Unread' = queue
<1>1. CASE queue = <<>>
  BY <1>1 DEF TakeNext, Unread
<1>2. CASE queue # <<>>
  <2>1. current' = Head(queue) /\ queue' = Tail(queue) /\ current' # NoBlock
    BY <1>2, QueueTail, NoBlockAssumption DEF TakeNext
  <2>2. QED
    BY <1>2, <2>1, QueueTail DEF Unread
<1>3. QED
  BY <1>1, <1>2

-----------------------------------------------------------------------------
(* StreamInv is inductive.                                                 *)

\* A step of a handler that is taken finds the context.
LEMMA Alive ==
  ASSUME StreamInv, NEW t \in Threads, Misuse(t) = "none", pc[t] \in UsesContext
  PROVE  ctx = "live" /\ (pc[t] = "copy" => current # NoBlock)
BY DEF StreamInv, Sound, TypeOK, ContextTypeOK, Misuse, UsesContext, UsesBlock, BlockGone

LEMMA StreamInvInit == Init => StreamInv
<1>1. SUFFICES ASSUME Init PROVE StreamInv
  OBVIOUS
<1>2. Sound /\ Handshake /\ EndCbOnly
  BY <1>1, InitSound, InitHandshake
<1>3. HostPcs /\ Silent
  BY <1>1 DEF Init, OpenContext, HostPcs, Silent, Threads
<1>4. Len(<<>>) = 0
  OBVIOUS
<1>5. LastAtEnd /\ Drained /\ OpenIsLive /\ CloudCloses /\ CloseStrandsNothing
  BY <1>1, <1>4 DEF Init, OpenContext, LastAtEnd, Drained, OpenIsLive, CloseStrandsNothing,
                    CloudCloses, ClosePcs, Threads
<1>6. QED
  BY <1>2, <1>3, <1>5 DEF StreamInv

LEMMA SilentStep ==
  ASSUME StreamInv, [Next]_vars
  PROVE  HostPcs' /\ Silent'
<1>1. /\ ThreadTypeOK /\ InBlockCb /\ writes \in Nat
      /\ flags \subseteq {"COMPLETE", "ABORTED", "WAITING"}
      /\ HostPcs /\ Silent /\ Handshake /\ EndCbOnly
  BY DEF StreamInv, Sound, TypeOK, ContextTypeOK, LinkTypeOK
<1> USE <1>1 DEF ThreadTypeOK, InBlockCb, HostPcs, Silent, Handshake, EndCbOnly, MayWrite,
            InCallback, HasPacket, Threads, ContextPcs, GetPcs, ClosePcs, ctxVars,
            cloudVars, btVars,
            getVars, vars, At, Goto, Return
<1>2. CASE BlockCb \/ TestAborted \/ BlockAlloc \/ BlockAllocTimeout
  BY <1>2 DEF BlockCb, TestAborted, BlockAlloc, BlockAllocTimeout, StartFlush
<1>3. ASSUME NEW len \in Lens \union {0}, NEW last \in BOOLEAN, PutBlock(len, last)
      PROVE  HostPcs' /\ Silent'
  BY <1>3 DEF PutBlock
<1>4. CASE TestCurrent \/ TestAndClearWaiting
  BY <1>4 DEF TestCurrent, TestAndClearWaiting
<1>5. CASE EndCb \/ EndKick
  BY <1>5 DEF EndCb, EndKick
<1>6. ASSUME NEW t \in Threads, SetAborted(t) PROVE HostPcs' /\ Silent'
  <2>1. PICK hop \in {<<"abort", "close">>, <<"endAbort", "endClose">>} :
          /\ pc[t] = hop[1] /\ pc' = [pc EXCEPT ![t] = hop[2]]
          /\ flags' = flags \union {"ABORTED"} /\ (t = "cloud" => pc["bt"] = "idle")
          /\ UNCHANGED <<writes, sdk, ret, room, exit>>
    BY <1>6 DEF SetAborted
  <2>2. CASE t = "cloud"
    BY <2>1, <2>2
  <2>3. CASE t = "bt"
    BY <2>1, <2>3
  <2>4. QED
    BY <2>2, <2>3
<1>7. ASSUME NEW t \in Threads, CloseIfComplete(t) PROVE HostPcs' /\ Silent'
  BY <1>7 DEF CloseIfComplete, CloseThen, CloseContext
<1>8. ASSUME NEW t \in Threads, Finish(t) PROVE HostPcs' /\ Silent'
  BY <1>8 DEF Finish
<1>9. ASSUME NEW t \in Threads, StartGet(t) PROVE HostPcs' /\ Silent'
  BY <1>9 DEF StartGet
<1>10. ASSUME NEW t \in Threads, Fetch(t) PROVE HostPcs' /\ Silent'
  BY <1>10 DEF Fetch, EmptyFlags
<1>11. ASSUME NEW t \in Threads, Copy(t) PROVE HostPcs' /\ Silent'
  BY <1>11 DEF Copy
<1>12. ASSUME NEW t \in Threads, Send(t) PROVE HostPcs' /\ Silent'
  BY <1>12 DEF Send
<1>13. ASSUME NEW t \in Threads, SendNothing(t) PROVE HostPcs' /\ Silent'
  BY <1>13 DEF SendNothing
<1>14. ASSUME NEW t \in Threads, Crash(t) PROVE HostPcs' /\ Silent'
  BY <1>14 DEF Crash
<1>15. ASSUME NEW err \in BOOLEAN, WriteResponse(err) PROVE HostPcs' /\ Silent'
  BY <1>15 DEF WriteResponse
<1>16. CASE TestComplete
  BY <1>16 DEF TestComplete, CloseThen, CloseContext
<1>17. CASE Disconnect \/ BtStop \/ UNCHANGED vars
  BY <1>17 DEF Disconnect, BtStop
<1>18. CASE FlushOne \/ TestHeld \/ FreeHeld \/ FreeContext
  BY <1>18 DEF FlushOne, TestHeld, FreeHeld, FreeContext
<1>19. QED
  BY <1>2, <1>3, <1>4, <1>5, <1>6, <1>7, <1>8, <1>9, <1>10, <1>11, <1>12, <1>13, <1>14,
     <1>15, <1>16, <1>17, <1>18
     DEF Next, CloudStep, BtStep, Response, WriteCharacteristic, ErrorPath, Ended

\* What most steps leave alone
LEMMA SameContents ==
  ASSUME StreamInv, UNCHANGED <<ctx, queue, current>>,
         sdk' = sdk \/ (sdk = "open" /\ sdk' = "error"),
         "COMPLETE" \in flags' => "COMPLETE" \in flags
  PROVE  LastAtEnd' /\ Drained' /\ CloseStrandsNothing'
BY DEF StreamInv, LastAtEnd, Drained, CloseStrandsNothing

\* The context is freed with an empty queue: close finds it complete, or
\* flush_block_queue has emptied it.
LEMMA ClosedContents ==
  ASSUME StreamInv, ctx = "live",
         FreeContext \/ (CloseContext /\ "COMPLETE" \in flags)
  PROVE  LastAtEnd' /\ Drained' /\ CloseStrandsNothing'
<1>1. queue' = <<>> /\ current' = NoBlock /\ ctx' = "freed"
  BY DEF FreeContext, At, CloseContext, StreamInv, Drained, Sound, ClosedEmpty, ClosePcs
<1>2. Len(queue') = 0
  BY <1>1
<1>3. QED
  BY <1>1, <1>2 DEF LastAtEnd, Drained, CloseStrandsNothing

\* k_fifo_get keeps the last block at the end.
LEMMA TakenContents ==
  ASSUME StreamInv, TakeNext, current = NoBlock \/ ~current.last, sdk' = sdk
  PROVE  LastAtEnd'
<1>1. queue \in Seq(Block)
  BY DEF StreamInv, Sound, TypeOK, ContextTypeOK
<1>2. CASE queue = <<>>
  BY <1>2 DEF TakeNext, LastAtEnd
<1>3. CASE queue # <<>>
  <2>1. current' = queue[1] /\ queue' = Tail(queue) /\ Len(queue') = Len(queue) - 1
        /\ Len(queue) \in Nat \ {0}
        /\ \A i \in 1 .. Len(queue') : queue'[i] = queue[i + 1]
    BY <1>1, <1>3, QueueTail DEF TakeNext
  <2>2. \A i \in 1 .. Len(queue) : queue[i].last => i = Len(queue) /\ sdk = "last"
    BY DEF StreamInv, LastAtEnd
  <2>3. current'.last => queue' = <<>> /\ sdk = "last"
    <3>1. 1 \in 1 .. Len(queue)
      BY <2>1
    <3>2. current'.last => Len(queue) = 1 /\ sdk = "last"
      BY <2>1, <2>2, <3>1
    <3>3. Len(queue) = 1 => Tail(queue) = <<>>
      BY <1>1, <1>3, QueueTail, EmptySeq
    <3>4. QED
      BY <2>1, <3>2, <3>3
  <2>4. \A i \in 1 .. Len(queue') : queue'[i].last => i = Len(queue') /\ sdk = "last"
    <3>1. TAKE i \in 1 .. Len(queue')
    <3>2. i + 1 \in 1 .. Len(queue) /\ queue'[i] = queue[i + 1]
      BY <2>1
    <3>3. queue[i + 1].last => i + 1 = Len(queue) /\ sdk = "last"
      BY <2>2, <3>2
    <3>4. queue'[i].last => queue[i + 1].last
      BY <3>2
    <3>5. i + 1 = Len(queue) => i = Len(queue')
      <4>1. Len(queue') = Len(queue) - 1 /\ Len(queue) \in Nat /\ i \in Nat
        BY <2>1
      <4>2. QED
        BY <4>1
    <3>6. QED
      BY <3>3, <3>4, <3>5
  <2>5. QED
    BY <2>3, <2>4 DEF LastAtEnd
<1>4. QED
  BY <1>2, <1>3

LEMMA PutContents ==
  ASSUME StreamInv, NEW len \in Lens \union {0}, NEW last \in BOOLEAN, PutBlock(len, last)
  PROVE  LastAtEnd' /\ Drained' /\ CloseStrandsNothing'
<1> DEFINE b == [seq |-> count, len |-> len, last |-> last]
<1>1. queue \in Seq(Block) /\ sdk = "open" /\ ctx = "live"
  BY DEF StreamInv, Sound, TypeOK, ContextTypeOK, InBlockCb, PutBlock, At, Misuse,
     UsesContext
<1>2. /\ queue' = Append(queue, b) /\ current' = current /\ ctx' = ctx /\ flags' = flags
      /\ sdk' = IF last THEN "last" ELSE "open"
  BY DEF PutBlock
<1>3. /\ Len(queue') = Len(queue) + 1 /\ Len(queue) \in Nat
      /\ \A i \in 1 .. Len(queue) : queue'[i] = queue[i]
      /\ queue'[Len(queue) + 1] = b
  BY <1>1, <1>2
<1>4. /\ ~(current # NoBlock /\ current.last)
      /\ \A i \in 1 .. Len(queue) : ~queue[i].last
  BY <1>1 DEF StreamInv, LastAtEnd
<1>5. \A i \in 1 .. Len(queue') : queue'[i].last => i = Len(queue') /\ sdk' = "last"
  <2>1. TAKE i \in 1 .. Len(queue')
  <2>2. CASE i \in 1 .. Len(queue)
    BY <1>3, <1>4, <2>2
  <2>3. CASE i = Len(queue')
    BY <1>2, <1>3, <2>3
  <2>4. QED
    BY <1>3, <2>2, <2>3
<1>6. LastAtEnd'
  BY <1>2, <1>4, <1>5 DEF LastAtEnd
<1>7. Drained' /\ CloseStrandsNothing'
  BY <1>1, <1>2 DEF StreamInv, Drained, CloseStrandsNothing
<1>8. QED
  BY <1>6, <1>7

\* An aborted downlink is found empty only after a failure of the request, so
\* nothing more will be put.
LEMMA FetchContents ==
  ASSUME StreamInv, NEW t \in Threads, Fetch(t)
  PROVE  LastAtEnd' /\ Drained' /\ CloseStrandsNothing'
<1>1. /\ pc[t] = "fetch" /\ ctx = "live" /\ ctx' = ctx /\ sdk' = sdk
  BY Alive DEF Fetch, At, UsesContext, ctxVars, cloudVars
<1>2. "ABORTED" \in flags => sdk = "error"
  BY <1>1 DEF StreamInv, Silent, MayWrite
<1>3. CASE current = NoBlock /\ queue = <<>>
  <2>1. /\ flags' = flags \union EmptyFlags(t) /\ queue' = queue /\ current' = current
    BY <1>3 DEF Fetch
  <2>2. "COMPLETE" \in flags' => "COMPLETE" \in flags \/ "ABORTED" \in flags
    BY <2>1 DEF EmptyFlags
  <2>3. QED
    BY <1>1, <1>2, <1>3, <2>1, <2>2 DEF StreamInv, LastAtEnd, Drained, CloseStrandsNothing
<1>4. CASE current # NoBlock
  <2>1. UNCHANGED <<ctx, queue, current, flags>>
    BY <1>1, <1>4 DEF Fetch
  <2>2. QED
    BY <1>1, <2>1, SameContents
<1>5. CASE current = NoBlock /\ queue # <<>>
  <2>1. TakeNext /\ flags' = flags
    BY <1>5 DEF Fetch
  <2>2. LastAtEnd'
    BY <1>1, <1>5, <2>1, TakenContents
  <2>3. QED
    BY <1>1, <1>5, <2>1, <2>2 DEF StreamInv, Drained, CloseStrandsNothing
<1>6. QED
  BY <1>3, <1>4, <1>5

LEMMA CopyContents ==
  ASSUME StreamInv, NEW t \in Threads, Copy(t)
  PROVE  LastAtEnd' /\ Drained' /\ CloseStrandsNothing'
<1> DEFINE ends == offset + BytesToCopy(t) = current.len
<1>1. ctx = "live" /\ current # NoBlock /\ ctx' = ctx /\ sdk' = sdk
  BY Alive DEF Copy, At, UsesContext, cloudVars
<1>2. "COMPLETE" \notin flags
  BY <1>1 DEF StreamInv, Drained
<1>3. /\ ends => TakeNext
      /\ ~ends => UNCHANGED <<queue, current>>
      /\ flags' = IF ends /\ current.last THEN flags \union {"COMPLETE"} ELSE flags
  BY DEF Copy
<1> HIDE DEF ends
<1>4. CASE ends /\ current.last
  <2>1. queue = <<>> /\ sdk = "last"
    BY <1>1, <1>4 DEF StreamInv, LastAtEnd
  <2>2. queue' = <<>> /\ current' = NoBlock /\ Len(<<>>) = 0
    BY <1>3, <1>4, <2>1 DEF TakeNext
  <2>3. QED
    BY <1>1, <2>1, <2>2 DEF LastAtEnd, Drained, CloseStrandsNothing
<1>5. CASE ends /\ ~current.last
  <2>1. LastAtEnd'
    BY <1>1, <1>3, <1>5, TakenContents
  <2>2. QED
    BY <1>1, <1>2, <1>3, <1>5, <2>1 DEF Drained, CloseStrandsNothing
<1>6. CASE ~ends
  BY <1>1, <1>3, <1>6, SameContents
<1>7. QED
  BY <1>4, <1>5, <1>6

\* flush_block_queue takes blocks off the head of a queue without a last block.
LEMMA FlushContents ==
  ASSUME StreamInv, FlushOne
  PROVE  LastAtEnd' /\ Drained' /\ CloseStrandsNothing'
<1>1. /\ sdk = "open" /\ sdk' = sdk /\ ctx = "live" /\ queue \in Seq(Block)
      /\ UNCHANGED <<ctx, flags, current>>
  BY Alive DEF FlushOne, At, UsesContext, ClosePcs, Threads, StreamInv, CloudCloses, Sound,
               TypeOK, ContextTypeOK, cloudVars
<1>2. "COMPLETE" \notin flags
  BY <1>1 DEF StreamInv, Drained
<1>3. CASE queue = <<>>
  BY <1>1, <1>3, SameContents DEF FlushOne
<1>4. CASE queue # <<>>
  <2>1. queue' = Tail(queue) /\ Len(queue') = Len(queue) - 1 /\ Len(queue) \in Nat \ {0}
        /\ \A i \in 1 .. Len(queue') : queue'[i] = queue[i + 1]
    BY <1>1, <1>4, QueueTail DEF FlushOne
  <2>2. /\ current # NoBlock => ~current.last
        /\ \A i \in 1 .. Len(queue) : ~queue[i].last
    BY <1>1 DEF StreamInv, LastAtEnd
  <2>3. ASSUME NEW i \in 1 .. Len(queue') PROVE ~queue'[i].last
    <3>1. i + 1 \in 1 .. Len(queue) /\ queue'[i] = queue[i + 1]
      BY <2>1
    <3>2. QED
      BY <2>2, <3>1
  <2>4. QED
    BY <1>1, <1>2, <2>2, <2>3 DEF LastAtEnd, Drained, CloseStrandsNothing
<1>5. QED
  BY <1>3, <1>4

LEMMA ContentsStep ==
  ASSUME StreamInv, [Next]_vars
  PROVE  LastAtEnd' /\ Drained' /\ CloseStrandsNothing'
<1> USE DEF ctxVars, cloudVars, btVars, vars
<1>1. CASE \/ BlockCb \/ BlockAlloc \/ TestCurrent \/ TestAndClearWaiting \/ EndCb \/ EndKick
           \/ Disconnect \/ BtStop \/ UNCHANGED vars
  BY <1>1, SameContents
     DEF BlockCb, BlockAlloc, TestCurrent, TestAndClearWaiting, EndCb, EndKick, Disconnect,
         BtStop
<1>2. CASE TestAborted \/ BlockAllocTimeout \/ TestHeld \/ FreeHeld
  BY <1>2, SameContents DEF TestAborted, BlockAllocTimeout, TestHeld, FreeHeld
<1>3. CASE FreeContext
  <2>1. ctx = "live"
    BY <1>3, Alive DEF FreeContext, At, UsesContext, ClosePcs, Threads
  <2>2. QED
    BY <1>3, <2>1, ClosedContents
<1>4. ASSUME NEW t \in Threads,
             \/ SetAborted(t) \/ Finish(t) \/ StartGet(t) \/ Send(t) \/ SendNothing(t)
             \/ Crash(t)
      PROVE  LastAtEnd' /\ Drained' /\ CloseStrandsNothing'
  BY <1>4, SameContents DEF SetAborted, Finish, StartGet, Send, SendNothing, Crash
<1>5. ASSUME NEW t \in Threads, CloseIfComplete(t)
      PROVE  LastAtEnd' /\ Drained' /\ CloseStrandsNothing'
  <2>1. ctx = "live" /\ sdk' = sdk
    BY <1>5, Alive DEF CloseIfComplete, At, UsesContext
  <2>2. CASE "COMPLETE" \in flags
    BY <1>5, <2>1, <2>2, SameContents, ClosedContents DEF CloseIfComplete, CloseThen
  <2>3. CASE "COMPLETE" \notin flags
    BY <1>5, <2>1, <2>3, SameContents DEF CloseIfComplete
  <2>4. QED
    BY <2>2, <2>3
<1>6. CASE TestComplete
  <2>1. ctx = "live" /\ sdk' = sdk
    BY <1>6, Alive DEF TestComplete, At, UsesContext, Threads
  <2>2. QED
    BY <1>6, <2>1, SameContents, ClosedContents DEF TestComplete, CloseThen
<1>7. ASSUME NEW err \in BOOLEAN, WriteResponse(err)
      PROVE  LastAtEnd' /\ Drained' /\ CloseStrandsNothing'
  BY <1>7, SameContents DEF WriteResponse
<1>8. QED
  BY <1>1, <1>2, <1>3, <1>4, <1>5, <1>6, <1>7, PutContents, FetchContents, CopyContents,
     FlushContents
     DEF Next, CloudStep, BtStep, Response, WriteCharacteristic, ErrorPath, Ended, Threads

LEMMA LiveStep ==
  ASSUME StreamInv, [Next]_vars
  PROVE  OpenIsLive' /\ CloudCloses'
<1>1. /\ pc \in [Threads -> {"idle", "complete?"} \union ContextPcs \union GetPcs
                              \union ClosePcs]
      /\ HostPcs /\ OpenIsLive /\ InBlockCb /\ CloudCloses
      /\ exit \in {"done", "late", "kick?", "finish"}
      /\ ctx = "live" /\ "COMPLETE" \in flags => sdk # "open"
      /\ ctx \in {"live", "freed"}
  BY DEF StreamInv, Sound, TypeOK, ContextTypeOK, ThreadTypeOK, Drained
<1> USE <1>1 DEF OpenIsLive, CloudCloses, InBlockCb, HostPcs, Threads, ContextPcs, GetPcs,
            ClosePcs, ctxVars, cloudVars, btVars, getVars, vars, At, Goto, Return
<1>2. CASE BlockCb \/ BlockAlloc \/ TestCurrent \/ TestAndClearWaiting \/ EndCb \/ EndKick
  BY <1>2 DEF BlockCb, BlockAlloc, TestCurrent, TestAndClearWaiting, EndCb, EndKick
<1>3. CASE TestAborted \/ BlockAllocTimeout
  BY <1>3 DEF TestAborted, BlockAllocTimeout, StartFlush
<1>4. ASSUME NEW len \in Lens \union {0}, NEW last \in BOOLEAN, PutBlock(len, last)
      PROVE  OpenIsLive' /\ CloudCloses'
  BY <1>4 DEF PutBlock
<1>5. ASSUME NEW t \in Threads,
             \/ SetAborted(t) \/ Finish(t) \/ StartGet(t) \/ Fetch(t) \/ Copy(t) \/ Send(t)
             \/ SendNothing(t) \/ Crash(t)
      PROVE  OpenIsLive' /\ CloudCloses'
  BY <1>5 DEF SetAborted, Finish, StartGet, Fetch, Copy, Send, SendNothing, Crash
<1>6. ASSUME NEW t \in Threads, CloseIfComplete(t) PROVE OpenIsLive' /\ CloudCloses'
  <2>1. ctx = "live"
    BY <1>6, Alive DEF CloseIfComplete, UsesContext
  <2>2. QED
    BY <1>6, <2>1 DEF CloseIfComplete, CloseThen, CloseContext
<1>7. CASE TestComplete
  <2>1. ctx = "live"
    BY <1>7, Alive DEF TestComplete, UsesContext
  <2>2. QED
    BY <1>7, <2>1 DEF TestComplete, CloseThen, CloseContext
<1>8. ASSUME NEW err \in BOOLEAN, WriteResponse(err) PROVE OpenIsLive' /\ CloudCloses'
  BY <1>8 DEF WriteResponse
<1>9. CASE Disconnect \/ BtStop \/ UNCHANGED vars
  BY <1>9 DEF Disconnect, BtStop
<1>10. CASE FlushOne \/ TestHeld \/ FreeHeld
  BY <1>10 DEF FlushOne, TestHeld, FreeHeld
<1>11. CASE FreeContext
  <2>1. ctx = "live" /\ pc["cloud"] \in ClosePcs
    BY <1>11, Alive DEF FreeContext, UsesContext
  <2>2. /\ pc' = [pc EXCEPT !["cloud"] = IF exit = "late" THEN "done" ELSE exit]
        /\ sdk' = sdk /\ exit' = exit
    BY <1>11 DEF FreeContext
  <2>3. QED
    BY <2>1, <2>2
<1>12. QED
  BY <1>2, <1>3, <1>4, <1>5, <1>6, <1>7, <1>8, <1>9, <1>10, <1>11
     DEF Next, CloudStep, BtStep, Response, WriteCharacteristic, ErrorPath, Ended

LEMMA StreamInvStep == StreamInv /\ [Next]_vars => StreamInv'
<1>1. SUFFICES ASSUME StreamInv, [Next]_vars PROVE StreamInv'
  OBVIOUS
<1>2. Sound' /\ Handshake' /\ EndCbOnly'
  BY <1>1, StepSound, StepHandshake DEF StreamInv
<1>3. QED
  BY <1>1, <1>2, SilentStep, ContentsStep, LiveStep DEF StreamInv

\* Every variable keeps its type, in every environment and for every pool.
THEOREM TypeCorrect == Spec => []TypeOK
<1>1. StreamInv => TypeOK
  BY DEF StreamInv, Sound
<1>2. QED
  BY <1>1, StreamInvInit, StreamInvStep, PTL DEF Spec

\* No pool block is lost, whichever threads close, flush or read, in whatever order.
THEOREM PoolAlwaysAccounted == Spec => []PoolAccounted
<1>1. StreamInv => PoolAccounted
  BY DEF StreamInv, Sound
<1>2. QED
  BY <1>1, StreamInvInit, StreamInvStep, PTL DEF Spec

\* While the cloud has not failed the request, the CoAP thread is alone with the
\* queue, the scratch buffer and write_params whenever it reads them.
THEOREM AloneInGetData == Spec => []SingleConsumer
<1>1. StreamInv => SingleConsumer
  BY DEF StreamInv, Handshake, SingleConsumer
<1>2. QED
  BY <1>1, StreamInvInit, StreamInvStep, PTL DEF Spec

\* Freeing the context strands no block, although close frees only current_block:
\* whichever thread finds COMPLETE set, the queue is empty and stays so.
THEOREM NothingStranded == Spec => []CloseStrandsNothing
<1>1. StreamInv => CloseStrandsNothing
  BY DEF StreamInv
<1>2. QED
  BY <1>1, StreamInvInit, StreamInvStep, PTL DEF Spec

-----------------------------------------------------------------------------
(* Every step of the downlink is a step of the stream, or none.            *)

LEMMA StreamInit == Init => Stream!Init
<1>1. SUFFICES ASSUME Init PROVE Stream!Init
  OBVIOUS
<1>2. /\ ctx = "live" /\ flags = {"WAITING"} /\ queue = <<>> /\ current = NoBlock
      /\ offset = 0 /\ count = 0 /\ pc["cloud"] = "idle"
  BY <1>1 DEF Init, OpenContext, Threads
<1>3. Unread = <<>> /\ Given = 0
  BY <1>2 DEF Unread, Given
<1>4. QED
  BY <1>2, <1>3 DEF Stream!Init, Phase, ClosePcs

LEMMA SameDropping ==
  ASSUME SameClose, UNCHANGED exit
  PROVE  GivingUp' <=> GivingUp
BY DEF SameClose, GivingUp

\* Steps that the stream does not see
LEMMA Unseen ==
  ASSUME UNCHANGED <<ctx, offset>>, Unread' = Unread, Given' = Given,
         "COMPLETE" \in flags \/ (GivingUp' <=> GivingUp),
         "ABORTED" \in flags' <=> "ABORTED" \in flags,
         "COMPLETE" \in flags' <=> "COMPLETE" \in flags
  PROVE  UNCHANGED Stream!vars
BY DEF Stream!vars, Phase, GivingUp

LEMMA SameUnread ==
  ASSUME UNCHANGED <<queue, current>>
  PROVE  Unread' = Unread
BY DEF Unread

LEMMA CloseIsClose ==
  ASSUME StreamInv, ctx = "live", "COMPLETE" \in flags, Given' = Given,
         CloseContext \/ FreeContext
  PROVE  Stream!Close
<1>1. current = NoBlock /\ queue = <<>> /\ offset = 0
  BY DEF StreamInv, Drained, Sound, OffsetInside
<1>2. current' = NoBlock /\ queue' = <<>> /\ ctx' = "freed" /\ flags' = flags
  BY <1>1 DEF CloseContext, FreeContext
<1>3. Unread = <<>> /\ Unread' = <<>>
  BY <1>1, <1>2 DEF Unread
<1>4. QED
  BY <1>1, <1>2, <1>3 DEF Stream!Close, Phase

LEMMA GivenWhen ==
  ASSUME StreamInv
  PROVE  /\ Given = IF pc["cloud"] \in {"abort?", "alloc", "put"} THEN count - 1 ELSE count
         /\ count \in Nat
         /\ pc \in [Threads -> {"idle", "complete?"} \union ContextPcs \union GetPcs
                                \union ClosePcs]
BY BoundAssumption DEF Given, StreamInv, Sound, TypeOK, ThreadTypeOK

\* A step of block_cb that begins the flush gives the downlink up.
LEMMA FlushIsGiveUp ==
  ASSUME StreamInv, NEW why \in {"done", "late"}, StartFlush(why),
         pc["cloud"] \in {"abort?", "alloc"}, ctx = "live", sdk = "open",
         UNCHANGED <<ctxVars, count>>, "ABORTED" \in flags \/ Unread # <<>>
  PROVE  Stream!GiveUp
<1>1. "COMPLETE" \notin flags
  BY DEF StreamInv, Drained
<1>2. pc'["cloud"] = "flush" /\ exit' = why
  BY GivenWhen DEF StartFlush, Goto, Threads
<1>3. Given' = Given + 1
  BY <1>2, GivenWhen DEF Given
<1>4. Phase = "open" /\ Phase' = "dropping"
  BY <1>1, <1>2 DEF Phase, ClosePcs, ctxVars
<1>5. QED
  BY <1>3, <1>4, SameUnread DEF Stream!GiveUp, ctxVars

LEMMA TestAbortedIsStream ==
  ASSUME StreamInv, TestAborted
  PROVE  Stream!GiveUp \/ UNCHANGED Stream!vars
<1>1. /\ pc["cloud"] = "abort?" /\ ctx = "live" /\ sdk = "open" /\ UNCHANGED <<ctxVars, count>>
  BY Alive DEF TestAborted, At, UsesContext, Threads, StreamInv, Sound, InBlockCb
<1>2. CASE "ABORTED" \in flags
  BY <1>1, <1>2, FlushIsGiveUp DEF TestAborted
<1>3. CASE "ABORTED" \notin flags
  <2>1. pc'["cloud"] = "alloc" /\ UNCHANGED exit
    BY <1>3, GivenWhen DEF TestAborted, Goto, Threads
  <2>2. Given' = Given /\ (GivingUp' <=> GivingUp)
    BY <1>1, <2>1 DEF Given, GivingUp, ClosePcs
  <2>3. QED
    BY <1>1, <2>2, SameUnread, Unseen DEF ctxVars
<1>4. QED
  BY <1>2, <1>3

\* The timeout needs an empty slab: there are blocks that were not read.
LEMMA TimeoutIsStream ==
  ASSUME StreamInv, BlockAllocTimeout
  PROVE  Stream!GiveUp
<1>1. /\ pc["cloud"] = "alloc" /\ ctx = "live" /\ sdk = "open" /\ UNCHANGED <<ctxVars, count>>
      /\ free = 0 /\ \E why \in {"done", "late"} : StartFlush(why)
  <2>1. /\ pc["cloud"] = "alloc" /\ UNCHANGED <<ctxVars, count>> /\ free = 0
        /\ \E why \in {"done", "late"} : StartFlush(why)
    BY DEF BlockAllocTimeout, At
  <2>2. sdk = "open"
    BY <2>1 DEF StreamInv, Sound, InBlockCb
  <2>3. QED
    BY <2>1, <2>2 DEF StreamInv, OpenIsLive
<1>2. Unread # <<>>
  <2>1. Len(queue) + HeldBlocks = NumBlocks /\ NumBlocks # 0
    BY <1>1, PoolBound, PoolAssumption DEF StreamInv, Sound, PoolAccounted
  <2>2. ~(current = NoBlock /\ queue = <<>>)
    BY <2>1 DEF HeldBlocks
  <2>3. queue \in Seq(Block) /\ current \in Block \union {NoBlock}
    BY DEF StreamInv, Sound, TypeOK, ContextTypeOK
  <2>4. QED
    BY <2>2, <2>3, UnreadQueue, UnreadCurrent
<1>3. QED
  BY <1>1, <1>2, FlushIsGiveUp

\* What the CoAP thread closes and does not free, or only in part
LEMMA CloseBegins ==
  ASSUME StreamInv, NEW p, CloseThen("cloud", p), ctx = "live", "COMPLETE" \in flags,
         pc["cloud"] \notin {"abort?", "alloc", "put"}, UNCHANGED count
  PROVE  UNCHANGED Stream!vars
<1>1. pc'["cloud"] = "held?" /\ UNCHANGED ctxVars
  BY GivenWhen DEF CloseThen, Goto, Threads
<1>2. Given' = Given
  BY <1>1 DEF Given
<1>3. QED
  BY <1>1, <1>2, SameUnread, Unseen DEF ctxVars

LEMMA CloseStepUnseen ==
  ASSUME StreamInv, TestHeld \/ FreeHeld
  PROVE  UNCHANGED Stream!vars
<1>1. /\ pc["cloud"] \in {"held?", "release"} /\ pc'["cloud"] \in {"freeCtx", "release", "freeRest"}
      /\ UNCHANGED <<ctxVars, count, exit>>
  BY GivenWhen DEF TestHeld, FreeHeld, At, Goto, Threads, cloudVars
<1>2. Given' = Given /\ (GivingUp' <=> GivingUp)
  BY <1>1 DEF Given, GivingUp, ClosePcs
<1>3. QED
  BY <1>1, <1>2, SameUnread, Unseen DEF ctxVars

\* What block_cb flushes is dropped, but for the block in reading.
LEMMA FlushIsShed ==
  ASSUME StreamInv, FlushOne
  PROVE  Stream!Shed \/ UNCHANGED Stream!vars
<1>1. /\ pc["cloud"] = "flush" /\ pc'["cloud"] \in {"flush", "held?"} /\ ctx = "live"
      /\ exit \in {"done", "late"} /\ sdk = "open"
      /\ UNCHANGED <<ctx, flags, current, offset, count, exit>>
  BY Alive, GivenWhen DEF FlushOne, At, UsesContext, ClosePcs, Goto, Threads, StreamInv,
     CloudCloses, cloudVars
<1>2. "COMPLETE" \notin flags
  BY <1>1 DEF StreamInv, Drained
<1>3. Given' = Given /\ GivingUp /\ GivingUp'
  BY <1>1 DEF Given, GivingUp, ClosePcs
<1>4. CASE queue = <<>>
  <2>1. Unread' = Unread
    BY <1>1, <1>4, SameUnread DEF FlushOne
  <2>2. QED
    BY <1>1, <1>3, <2>1, Unseen
<1>5. CASE queue # <<>>
  <2>1. Phase = "dropping" /\ Phase' = "dropping"
    BY <1>1, <1>2, <1>3 DEF Phase, GivingUp
  <2>2. queue \in Seq(Block) /\ current \in Block \union {NoBlock} /\ queue' = Tail(queue)
    BY <1>5 DEF FlushOne, StreamInv, Sound, TypeOK, ContextTypeOK
  <2>3. CASE current = NoBlock
    <3>1. Unread = queue /\ Unread' = Tail(queue) /\ offset = 0
      BY <1>1, <2>2, <2>3 DEF Unread, StreamInv, Sound, OffsetInside
    <3>2. QED
      BY <1>1, <1>3, <1>5, <2>1, <3>1 DEF Stream!Shed
  <2>4. CASE current # NoBlock
    <3>1. Head(Unread) = current /\ Tail(Unread) = queue /\ Unread \in Seq(Block) /\ Unread # <<>>
      BY <2>2, <2>4, UnreadCurrent
    <3>2. Unread' = <<current>> \o Tail(queue)
      BY <1>1, <2>2, <2>4 DEF Unread
    <3>3. Len(Unread) > 1
      <4>1. Len(Tail(Unread)) = Len(Unread) - 1 /\ Len(Unread) \in Nat
        BY <3>1
      <4>2. Len(queue) \in Nat \ {0}
        BY <1>5, <2>2, QueueTail
      <4>3. QED
        BY <3>1, <4>1, <4>2
    <3>4. QED
      BY <1>1, <1>3, <2>1, <3>1, <3>2, <3>3 DEF Stream!Shed
  <2>5. QED
    BY <2>3, <2>4
<1>6. QED
  BY <1>4, <1>5

\* The context of a given-up downlink is freed with the block in reading at most,
\* that of a complete one with none.
LEMMA FreeIsStream ==
  ASSUME StreamInv, FreeContext
  PROVE  Stream!Free \/ Stream!Close
<1>1. /\ pc["cloud"] \in {"freeCtx", "freeRest"} /\ ctx = "live" /\ ctx' = "freed"
      /\ pc'["cloud"] = (IF exit = "late" THEN "done" ELSE exit)
      /\ exit \in {"done", "late", "kick?", "finish"} /\ current' = NoBlock
      /\ UNCHANGED <<flags, queue, count>>
  BY Alive, GivenWhen DEF FreeContext, At, UsesContext, ClosePcs, Goto, Threads,
     StreamInv, Sound,
                          TypeOK, ThreadTypeOK, cloudVars
<1>2. Given' = Given
  BY <1>1 DEF Given
<1>3. CASE exit \notin {"done", "late"}
  BY <1>1, <1>2, <1>3, CloseIsClose DEF StreamInv, CloudCloses, ClosePcs
<1>4. CASE exit \in {"done", "late"}
  <2>1. "COMPLETE" \notin flags
    BY <1>1, <1>4 DEF StreamInv, Drained, CloudCloses, ClosePcs
  <2>2. Phase = "dropping" /\ Phase' = "closed"
    BY <1>1, <1>4, <2>1 DEF Phase, ClosePcs
  <2>3. queue = <<>> /\ current \in Block \union {NoBlock}
    BY <1>1 DEF StreamInv, Sound, ClosedEmpty, ClosePcs, TypeOK, ContextTypeOK
  <2>4. Unread' = <<>> /\ (Unread = <<>> \/ Unread = <<current>>)
    BY <1>1, <2>3 DEF Unread
  <2>5. Len(Unread) <= 1
    BY <2>4
  <2>6. QED
    BY <1>1, <1>2, <2>2, <2>4, <2>5 DEF Stream!Free
<1>5. QED
  BY <1>3, <1>4

LEMMA PutIsGive ==
  ASSUME StreamInv, NEW len \in Lens \union {0}, NEW last \in BOOLEAN, PutBlock(len, last)
  PROVE  Stream!Give(len, last)
<1> DEFINE b == [seq |-> count, len |-> len, last |-> last]
<1>1. /\ pc["cloud"] = "put" /\ ctx = "live" /\ sdk = "open" /\ count' = count
      /\ queue' = Append(queue, b) /\ pc'["cloud"] = "current?" /\ count > 0
      /\ UNCHANGED <<ctx, flags, current, offset>>
  BY Alive, GivenWhen
     DEF PutBlock, At, Goto, UsesContext, Threads, StreamInv, Sound, InBlockCb
<1>2. Given = count - 1 /\ Given' = count /\ count \in Nat
  BY <1>1, GivenWhen DEF Given
<1>3. queue \in Seq(Block) /\ b \in Block /\ current \in Block \union {NoBlock}
  BY <1>1, <1>2, GivenWhen
     DEF Block, StreamInv, Sound, TypeOK, ContextTypeOK, ThreadTypeOK
<1>4. Unread' = Append(Unread, b)
  BY <1>1, <1>3, UnreadAppend
<1>5. \A i \in DOMAIN Unread : ~Unread[i].last
  <2>1. /\ ~(current # NoBlock /\ current.last)
        /\ \A i \in 1 .. Len(queue) : ~queue[i].last
    BY <1>1 DEF StreamInv, LastAtEnd
  <2>2. CASE current = NoBlock
    BY <1>3, <2>1, <2>2, UnreadQueue
  <2>3. CASE current # NoBlock
    <3>1. Unread = <<current>> \o queue
      BY <2>3 DEF Unread
    <3>2. TAKE i \in DOMAIN Unread
    <3>3. CASE i = 1
      BY <1>3, <2>1, <2>3, <3>1, <3>3
    <3>4. CASE i # 1
      <4>1. i - 1 \in 1 .. Len(queue) /\ Unread[i] = queue[i - 1]
        BY <1>3, <3>1, <3>4
      <4>2. QED
        BY <2>1, <4>1
    <3>5. QED
      BY <3>3, <3>4
  <2>4. QED
    BY <2>2, <2>3
<1>6. "COMPLETE" \notin flags
  BY <1>1 DEF StreamInv, Drained
<1>7. Phase = "open" /\ Phase' = "open"
  BY <1>1, <1>6 DEF Phase, ClosePcs
<1>8. QED
  BY <1>1, <1>2, <1>4, <1>5, <1>7 DEF Stream!Give

\* Moving a block from the queue to current_block is nothing to the stream; the
\* end of an aborted downlink is.
LEMMA FetchIsStream ==
  ASSUME StreamInv, NEW t \in Threads, Fetch(t)
  PROVE  Stream!Abandon \/ UNCHANGED Stream!vars
<1>1. /\ ctx = "live" /\ Given' = Given /\ queue \in Seq(Block) /\ (GivingUp' <=> GivingUp)
      /\ UNCHANGED <<ctx, offset>>
  <2>1. pc[t] = "fetch" /\ UNCHANGED <<count, exit>> /\ ctx = "live" /\ UNCHANGED <<ctx, offset>>
        /\ (pc' = [pc EXCEPT ![t] = "send"] \/ pc' = [pc EXCEPT ![t] = "copy"])
    BY Alive DEF Fetch, At, Goto, UsesContext, cloudVars
  <2>a. GivingUp' <=> GivingUp
    BY <2>1, GivenWhen DEF GivingUp, ClosePcs, Threads
  <2>2. pc'["cloud"] = "put" \/ pc'["cloud"] = "alloc" \/ pc'["cloud"] = "abort?" <=>
        pc["cloud"] = "put" \/ pc["cloud"] = "alloc" \/ pc["cloud"] = "abort?"
    BY <2>1, GivenWhen DEF Threads
  <2>3. QED
    BY <2>1, <2>2, <2>a DEF Given, StreamInv, Sound, TypeOK, ContextTypeOK
<1>2. CASE current = NoBlock /\ queue = <<>>
  <2>1. flags' = flags \union EmptyFlags(t) /\ UNCHANGED <<queue, current>>
    BY <1>2 DEF Fetch
  <2>2. Unread = <<>> /\ Unread' = <<>>
    BY <1>2, <2>1 DEF Unread
  <2>3. CASE "ABORTED" \in flags /\ "COMPLETE" \notin flags
    <3>1. flags' = flags \union {"COMPLETE"}
      BY <2>1, <2>3 DEF EmptyFlags
    <3>2. pc[t] = "fetch" /\ sdk = "error" /\ ~GivingUp
      BY <2>3 DEF Fetch, At, GivingUp, StreamInv, Silent, MayWrite, CloudCloses
    <3>3. Phase = "open" /\ Phase' = "complete"
      BY <1>1, <2>3, <3>1, <3>2 DEF Phase, GivingUp
    <3>4. QED
      BY <1>1, <2>1, <2>2, <2>3, <3>1, <3>3 DEF Stream!Abandon
  <2>4. CASE "ABORTED" \notin flags \/ "COMPLETE" \in flags
    <3>1. /\ "ABORTED" \in flags' <=> "ABORTED" \in flags
          /\ "COMPLETE" \in flags' <=> "COMPLETE" \in flags
      BY <2>1, <2>4 DEF EmptyFlags
    <3>2. QED
      BY <1>1, <2>2, <3>1, Unseen
  <2>5. QED
    BY <2>3, <2>4
<1>3. CASE current = NoBlock /\ queue # <<>>
  <2>1. TakeNext /\ flags' = flags
    BY <1>3 DEF Fetch
  <2>2. Unread' = Unread
    BY <1>1, <1>3, <2>1, UnreadTake, UnreadQueue
  <2>3. QED
    BY <1>1, <2>1, <2>2, Unseen
<1>4. CASE current # NoBlock
  <2>1. UNCHANGED <<queue, current, flags>>
    BY <1>4 DEF Fetch
  <2>2. QED
    BY <1>1, <2>1, SameUnread, Unseen
<1>5. QED
  BY <1>2, <1>3, <1>4

LEMMA CopyIsTake ==
  ASSUME StreamInv, NEW t \in Threads, Copy(t)
  PROVE  Stream!Take
<1> DEFINE n == BytesToCopy(t)
           ends == offset + n = current.len
<1>1. /\ ctx = "live" /\ current \in Block /\ queue \in Seq(Block) /\ offset \in Nat
      /\ offset <= current.len /\ current.len \in Nat /\ room[t] \in Nat
      /\ "COMPLETE" \notin flags
  <2>1. ctx = "live" /\ current # NoBlock
    BY Alive DEF Copy, At, UsesContext
  <2>2. current \in Block /\ queue \in Seq(Block) /\ offset \in Nat /\ room[t] \in Nat
    BY <2>1, RoomAssumption DEF StreamInv, Sound, TypeOK, ContextTypeOK, ThreadTypeOK
  <2>3. QED
    BY <2>1, <2>2, BlockLen DEF StreamInv, Sound, OffsetInside, Drained
<1>2. n \in Nat /\ offset + n <= current.len
  BY <1>1 DEF BytesToCopy
<1>3. /\ ends => TakeNext
      /\ ~ends => UNCHANGED <<queue, current>>
      /\ offset' = (IF ends THEN 0 ELSE offset + n)
      /\ flags' = IF ends /\ current.last THEN flags \union {"COMPLETE"} ELSE flags
      /\ UNCHANGED <<ctx, count, exit>> /\ pc[t] = "copy"
      /\ (pc' = [pc EXCEPT ![t] = "send"] \/ pc' = [pc EXCEPT ![t] = "fetch"])
  BY DEF Copy, At, Goto, OffsetAfter, cloudVars
<1> HIDE DEF n, ends
<1>4. Given' = Given
  <2>1. pc'["cloud"] = "put" \/ pc'["cloud"] = "alloc" \/ pc'["cloud"] = "abort?" <=>
        pc["cloud"] = "put" \/ pc["cloud"] = "alloc" \/ pc["cloud"] = "abort?"
    BY <1>3, GivenWhen DEF Threads
  <2>2. QED
    BY <1>3, <2>1 DEF Given
<1>a. /\ Phase = IF GivingUp THEN "dropping" ELSE "open"
      /\ Phase' = IF "COMPLETE" \in flags' THEN "complete" ELSE Phase
  <2>1. GivingUp' <=> GivingUp
    BY <1>3, GivenWhen DEF GivingUp, ClosePcs, Threads
  <2>2. QED
    BY <1>1, <1>3, <2>1 DEF Phase, GivingUp
<1>5. Unread # <<>> /\ Head(Unread) = current /\ Tail(Unread) = queue
  BY <1>1, UnreadCurrent
<1>6. CASE ends
  <2>1. Unread' = Tail(Unread) /\ offset' = 0
    BY <1>1, <1>3, <1>5, <1>6, UnreadTake
  <2>2. "ABORTED" \in flags' <=> "ABORTED" \in flags
    BY <1>3
  <2>3. "COMPLETE" \in flags' <=> current.last
    BY <1>1, <1>3, <1>6
  <2>4. QED
    BY <1>1, <1>3, <1>4, <1>5, <1>a, <2>1, <2>2, <2>3 DEF Stream!Take
<1>7. CASE ~ends
  <2>1. Unread' = Unread /\ offset' = offset + n /\ flags' = flags
    BY <1>3, <1>7, SameUnread
  <2>2. n \in 0 .. (current.len - offset) - 1
    BY <1>1, <1>2, <1>7 DEF ends
  <2>3. QED
    BY <1>1, <1>3, <1>4, <1>5, <1>a, <2>1, <2>2 DEF Stream!Take
<1>8. QED
  BY <1>6, <1>7

LEMMA AbortIsStream ==
  ASSUME StreamInv, NEW t \in Threads, SetAborted(t)
  PROVE  Stream!Abort
<1>1. PICK hop \in {<<"abort", "close">>, <<"endAbort", "endClose">>} :
        /\ pc[t] = hop[1] /\ Misuse(t) = "none" /\ pc' = [pc EXCEPT ![t] = hop[2]]
        /\ flags' = flags \union {"ABORTED"}
        /\ UNCHANGED <<ctx, queue, current, offset, count, exit>>
  BY DEF SetAborted, At, Goto, cloudVars
<1>2. ctx = "live"
  BY <1>1, Alive DEF UsesContext
<1>3. Given' = Given
  BY <1>1, GivenWhen DEF Given, Threads
<1>4. Phase' = Phase /\ Phase # "closed"
  <2>1. GivingUp' <=> GivingUp
    BY <1>1, GivenWhen DEF GivingUp, ClosePcs, Threads
  <2>2. QED
    BY <1>1, <1>2, <2>1 DEF Phase, GivingUp
<1>5. QED
  BY <1>1, <1>2, <1>3, <1>4, SameUnread DEF Stream!Abort

LEMMA CloseIfCompleteIsStream ==
  ASSUME StreamInv, NEW t \in Threads, CloseIfComplete(t)
  PROVE  Stream!Close \/ UNCHANGED Stream!vars
<1>1. PICK hop \in {<<"close", "finish">>, <<"endClose", "kick?">>} :
        /\ pc[t] = hop[1] /\ Misuse(t) = "none"
        /\ IF "COMPLETE" \in flags
             THEN CloseThen(t, hop[2])
             ELSE Goto(t, hop[2]) /\ UNCHANGED <<ctxVars, free, exit>>
        /\ UNCHANGED count
  BY DEF CloseIfComplete, At
<1>2. ctx = "live"
  BY <1>1, Alive DEF UsesContext
<1>3. CASE "COMPLETE" \in flags /\ t = "cloud"
  BY <1>1, <1>2, <1>3, CloseBegins
<1>4. CASE "COMPLETE" \in flags /\ t = "bt"
  <2>1. Given' = Given
    BY <1>1, <1>4, GivenWhen DEF Given, CloseThen, Goto, Threads
  <2>2. QED
    BY <1>1, <1>2, <1>4, <2>1, CloseIsClose DEF CloseThen
<1>5. CASE "COMPLETE" \notin flags
  <2>1. Given' = Given /\ (GivingUp' <=> GivingUp)
    BY <1>1, <1>5, GivenWhen DEF Given, Goto, Threads, GivingUp, ClosePcs
  <2>2. QED
    BY <1>1, <1>5, <2>1, SameUnread, Unseen DEF ctxVars
<1>6. QED
  BY <1>3, <1>4, <1>5 DEF Threads

LEMMA TestCompleteIsStream ==
  ASSUME StreamInv, TestComplete
  PROVE  Stream!Close \/ UNCHANGED Stream!vars
<1>1. /\ pc["bt"] = "complete?" /\ Misuse("bt") = "none"
      /\ (pc' = [pc EXCEPT !["bt"] = "finish"] \/ pc' = [pc EXCEPT !["bt"] = "start"])
      /\ IF "COMPLETE" \in flags THEN CloseContext ELSE UNCHANGED ctxVars
      /\ UNCHANGED <<count, exit>>
  BY DEF TestComplete, CloseThen, At, Goto
<1>2. ctx = "live"
  BY <1>1, Alive DEF UsesContext, Threads
<1>3. Given' = Given /\ (GivingUp' <=> GivingUp)
  BY <1>1, GivenWhen DEF Given, GivingUp, Threads
<1>4. CASE "COMPLETE" \in flags
  BY <1>1, <1>2, <1>3, <1>4, CloseIsClose
<1>5. CASE "COMPLETE" \notin flags
  BY <1>1, <1>3, <1>5, SameUnread, Unseen DEF ctxVars
<1>6. QED
  BY <1>4, <1>5

\* The other steps move the threads and the connection.
LEMMA OtherIsNothing ==
  ASSUME StreamInv,
         \/ BlockCb \/ BlockAlloc \/ TestCurrent \/ TestAndClearWaiting \/ EndCb \/ EndKick
         \/ Disconnect \/ BtStop \/ UNCHANGED vars
         \/ \E t \in Threads : \/ Finish(t) \/ StartGet(t) \/ Send(t) \/ SendNothing(t)
                               \/ Crash(t)
         \/ \E err \in BOOLEAN : WriteResponse(err)
  PROVE  UNCHANGED Stream!vars
<1> USE GivenWhen DEF Given, Threads, ctxVars, cloudVars, btVars, getVars, vars, At, Goto,
            Return
<1>1. UNCHANGED <<ctx, queue, current, offset>>
  BY DEF BlockCb, BlockAlloc, TestCurrent, TestAndClearWaiting, EndCb, EndKick, Disconnect,
         BtStop, Finish, StartGet, Send, SendNothing, Crash, WriteResponse
<1>2. /\ "ABORTED" \in flags' <=> "ABORTED" \in flags
      /\ "COMPLETE" \in flags' <=> "COMPLETE" \in flags
  BY DEF BlockCb, BlockAlloc, TestCurrent, TestAndClearWaiting, EndCb, EndKick, Disconnect,
         BtStop, Finish, StartGet, Send, SendNothing, Crash, WriteResponse
<1>3. Given' = Given
  <2>1. CASE BlockCb \/ BlockAlloc \/ TestCurrent \/ TestAndClearWaiting \/ EndCb \/ EndKick
    BY <2>1 DEF BlockCb, BlockAlloc, TestCurrent, TestAndClearWaiting, EndCb, EndKick
  <2>2. CASE Disconnect \/ BtStop \/ UNCHANGED vars
    BY <2>2 DEF Disconnect, BtStop
  <2>3. ASSUME NEW t \in Threads,
               Finish(t) \/ StartGet(t) \/ Send(t) \/ SendNothing(t) \/ Crash(t)
        PROVE  Given' = Given
    BY <2>3 DEF Finish, StartGet, Send, SendNothing, Crash
  <2>4. ASSUME NEW err \in BOOLEAN, WriteResponse(err) PROVE Given' = Given
    BY <2>4 DEF WriteResponse
  <2>5. QED
    BY <2>1, <2>2, <2>3, <2>4
<1>4. GivingUp' <=> GivingUp
  <2> USE DEF GivingUp, ClosePcs
  <2>1. CASE BlockCb \/ BlockAlloc \/ TestCurrent \/ TestAndClearWaiting \/ EndCb \/ EndKick
    BY <2>1 DEF BlockCb, BlockAlloc, TestCurrent, TestAndClearWaiting, EndCb, EndKick
  <2>2. CASE Disconnect \/ BtStop \/ UNCHANGED vars
    BY <2>2 DEF Disconnect, BtStop
  <2>3. ASSUME NEW t \in Threads,
               Finish(t) \/ StartGet(t) \/ Send(t) \/ SendNothing(t) \/ Crash(t)
        PROVE  GivingUp' <=> GivingUp
    BY <2>3 DEF Finish, StartGet, Send, SendNothing, Crash
  <2>4. ASSUME NEW err \in BOOLEAN, WriteResponse(err) PROVE GivingUp' <=> GivingUp
    BY <2>4 DEF WriteResponse
  <2>5. QED
    BY <2>1, <2>2, <2>3, <2>4
<1>5. QED
  BY <1>1, <1>2, <1>3, <1>4, SameUnread, Unseen

LEMMA StepIsStream == StreamInv /\ [Next]_vars => [Stream!Next]_(Stream!vars)
<1>1. SUFFICES ASSUME StreamInv, [Next]_vars PROVE [Stream!Next]_(Stream!vars)
  OBVIOUS
<1>2. QED
  BY <1>1, TestAbortedIsStream, TimeoutIsStream, PutIsGive, FetchIsStream, CopyIsTake,
     AbortIsStream, CloseIfCompleteIsStream, TestCompleteIsStream, OtherIsNothing,
     FlushIsShed, CloseStepUnseen, FreeIsStream
     DEF Next, CloudStep, BtStep, Response, WriteCharacteristic, ErrorPath, Ended, Threads,
         Stream!Next

\* The downlink implements the stream in every environment: blocks are handed over
\* in order and once, without a gap until block_cb gives up, and the context is freed
\* when complete, or by block_cb with its queue flushed, although the flush and the
\* close take several steps that write_response_cb may cut into.
THEOREM DownlinkIsStream == Spec => IsStream
<1>1. Init => Stream!Init
  BY StreamInit
<1>2. QED
  BY <1>1, StreamInvInit, StreamInvStep, StepIsStream, PTL DEF Spec, IsStream, Stream!Spec

-----------------------------------------------------------------------------
(* What the device has read, and what it will read                         *)

Numbered(s, n) == \A i \in 1 .. Len(s) : s[i].seq = n - Len(s) + i

\* Where reading stopped
ReadTo(s, n) ==
  IF offset = 0
    THEN read.seq = n - Len(s)
    ELSE /\ current # NoBlock
         /\ read = [seq |-> current.seq, off |-> offset]
         /\ offset < current.len

Intact ==
  ctx = "live" /\ pc["cloud"] \notin ClosePcs =>
    Numbered(Unread, Given) /\ ReadTo(Unread, Given)

\* get_data goes on only with room left in the packet.
RoomLeft == \A t \in Threads : pc[t] \in {"fetch", "copy"} => room[t] > 0

LEMMA NumberedAppend ==
  ASSUME NEW s \in Seq(Block), NEW n \in Int, NEW b, Numbered(s, n), b.seq = n + 1
  PROVE  Numbered(Append(s, b), n + 1)
<1>1. Len(Append(s, b)) = Len(s) + 1 /\ Len(s) \in Nat
  OBVIOUS
<1>2. SUFFICES ASSUME NEW i \in 1 .. Len(s) + 1
               PROVE  Append(s, b)[i].seq = n + 1 - (Len(s) + 1) + i
  BY <1>1 DEF Numbered
<1>3. CASE i = Len(s) + 1
  BY <1>1, <1>3
<1>4. CASE i # Len(s) + 1
  <2>1. i \in 1 .. Len(s) /\ Append(s, b)[i] = s[i]
    BY <1>1, <1>4
  <2>2. s[i].seq = n - Len(s) + i
    BY <2>1 DEF Numbered
  <2>3. QED
    BY <1>1, <2>1, <2>2
<1>5. QED
  BY <1>3, <1>4

LEMMA NumberedTail ==
  ASSUME NEW s \in Seq(Block), s # <<>>, NEW n \in Int, Numbered(s, n)
  PROVE  Numbered(Tail(s), n) /\ Head(s).seq = n - Len(Tail(s))
<1>1. Len(Tail(s)) = Len(s) - 1 /\ Len(s) \in Nat \ {0} /\ Head(s) = s[1]
  OBVIOUS
<1>2. Head(s).seq = n - Len(s) + 1
  BY <1>1 DEF Numbered
<1>3. ASSUME NEW i \in 1 .. Len(Tail(s))
      PROVE  Tail(s)[i].seq = n - Len(Tail(s)) + i
  <2>1. i + 1 \in 1 .. Len(s) /\ Tail(s)[i] = s[i + 1]
    BY <1>1
  <2>2. s[i + 1].seq = n - Len(s) + (i + 1)
    BY <2>1 DEF Numbered
  <2>3. QED
    BY <1>1, <2>1, <2>2
<1>4. QED
  BY <1>1, <1>2, <1>3 DEF Numbered

LEMMA IntactInit == Init => RoomLeft /\ Intact
<1>1. SUFFICES ASSUME Init PROVE RoomLeft /\ Intact
  OBVIOUS
<1>2. /\ offset = 0 /\ count = 0 /\ pc = [t \in Threads |-> "idle"]
      /\ queue = <<>> /\ current = NoBlock /\ read = [seq |-> 0, off |-> 0]
  BY <1>1 DEF Init, OpenContext
<1>3. Unread = <<>> /\ Len(Unread) = 0
  BY <1>2 DEF Unread
<1>4. Given = 0
  BY <1>2 DEF Given, Threads
<1>5. RoomLeft
  BY <1>2 DEF RoomLeft
<1>6. Numbered(Unread, Given)
  BY <1>3 DEF Numbered
<1>7. ReadTo(Unread, Given)
  <2>1. read.seq = 0
    BY <1>2
  <2>2. Given - Len(Unread) = 0
    <3>1. Len(Unread) = 0
      BY <1>3
    <3>2. QED
      BY <1>4, <3>1
  <2>3. QED
    BY <1>2, <2>1, <2>2 DEF ReadTo
<1>8. QED
  BY <1>5, <1>6, <1>7 DEF Intact

LEMMA RoomStep ==
  ASSUME StreamInv, RoomLeft, [Next]_vars
  PROVE  RoomLeft'
<1>1. ThreadTypeOK
  BY DEF StreamInv, Sound, TypeOK
<1> USE <1>1, RoomAssumption DEF RoomLeft, ThreadTypeOK, Threads, getVars, vars, At, Goto,
            Return
<1>2. CASE \/ BlockCb \/ TestAborted \/ BlockAlloc \/ BlockAllocTimeout \/ TestCurrent
           \/ TestAndClearWaiting \/ EndCb \/ EndKick
  BY <1>2 DEF BlockCb, TestAborted, BlockAlloc, BlockAllocTimeout, TestCurrent,
         TestAndClearWaiting, EndCb, EndKick, StartFlush
<1>3. ASSUME NEW len \in Lens \union {0}, NEW last \in BOOLEAN, PutBlock(len, last)
      PROVE  RoomLeft'
  BY <1>3 DEF PutBlock
<1>4. ASSUME NEW t \in Threads,
             \/ SetAborted(t) \/ CloseIfComplete(t) \/ Finish(t) \/ Send(t) \/ SendNothing(t)
             \/ Crash(t)
      PROVE  RoomLeft'
  BY <1>4 DEF SetAborted, CloseIfComplete, CloseThen, Finish, Send, SendNothing, Crash
<1>5. ASSUME NEW t \in Threads, StartGet(t) \/ Fetch(t) PROVE RoomLeft'
  BY <1>5 DEF StartGet, Fetch
<1>6. ASSUME NEW t \in Threads, Copy(t) PROVE RoomLeft'
  <2>1. /\ room' = [room EXCEPT ![t] = @ - BytesToCopy(t)]
        /\ room[t] = BytesToCopy(t) => pc' = [pc EXCEPT ![t] = "send"]
        /\ pc' = [pc EXCEPT ![t] = "send"] \/ pc' = [pc EXCEPT ![t] = "fetch"]
    BY <1>6 DEF Copy
  <2>2. BytesToCopy(t) \in Nat /\ BytesToCopy(t) <= room[t] /\ room[t] \in Nat
    <3>1. ctx = "live" /\ current # NoBlock
      BY <1>6, Alive DEF Copy, UsesContext
    <3>2. current \in Block /\ offset \in Nat /\ offset <= current.len
      BY <3>1 DEF StreamInv, Sound, TypeOK, ContextTypeOK, OffsetInside
    <3>3. QED
      BY <3>2, BlockLen DEF BytesToCopy
  <2>3. QED
    BY <2>1, <2>2
<1>7. ASSUME NEW err \in BOOLEAN, WriteResponse(err) PROVE RoomLeft'
  BY <1>7 DEF WriteResponse
<1>8. CASE TestComplete
  BY <1>8 DEF TestComplete, CloseThen
<1>9. CASE Disconnect \/ BtStop \/ UNCHANGED vars
  BY <1>9 DEF Disconnect, BtStop
<1>10. CASE FlushOne \/ TestHeld \/ FreeHeld
  BY <1>10 DEF FlushOne, TestHeld, FreeHeld
<1>11. CASE FreeContext
  BY <1>11 DEF FreeContext
<1>12. QED
  BY <1>2, <1>3, <1>4, <1>5, <1>6, <1>7, <1>8, <1>9, <1>10, <1>11
     DEF Next, CloudStep, BtStep, Response, WriteCharacteristic, ErrorPath, Ended

LEMMA IntactWhenSame ==
  ASSUME Intact, UNCHANGED Stream!vars, UNCHANGED <<ctx, offset, read>>,
         pc'["cloud"] \notin ClosePcs => pc["cloud"] \notin ClosePcs,
         UNCHANGED current \/ offset = 0
  PROVE  Intact'
BY DEF Intact, Numbered, ReadTo, Stream!vars

LEMMA IntactPut ==
  ASSUME StreamInv, Intact, NEW len \in Lens \union {0}, NEW last \in BOOLEAN,
         PutBlock(len, last)
  PROVE  Intact'
<1>1. /\ pc["cloud"] = "put" /\ ctx = "live" /\ count' = count
      /\ queue' = Append(queue, [seq |-> count, len |-> len, last |-> last])
      /\ pc'["cloud"] = "current?" /\ count > 0
      /\ UNCHANGED <<ctx, current, offset, read>>
  BY Alive, GivenWhen
     DEF PutBlock, At, Goto, UsesContext, Threads, StreamInv, Sound, InBlockCb
<1>2. Given = count - 1 /\ Given' = count /\ count \in Nat
  BY <1>1, GivenWhen DEF Given
<1>3. /\ queue \in Seq(Block) /\ Unread \in Seq(Block)
      /\ [seq |-> count, len |-> len, last |-> last] \in Block
  <2>1. queue \in Seq(Block) /\ current \in Block \union {NoBlock}
        /\ [seq |-> count, len |-> len, last |-> last] \in Block
    BY <1>1, <1>2
       DEF Block, StreamInv, Sound, TypeOK, ContextTypeOK, ThreadTypeOK
  <2>2. QED
    BY <2>1, UnreadQueue, UnreadCurrent
<1>4. Unread' = Append(Unread, [seq |-> count, len |-> len, last |-> last])
  BY <1>1, <1>3, UnreadAppend
<1>5. Numbered(Unread', Given')
  BY <1>1, <1>2, <1>3, <1>4, NumberedAppend DEF Intact, ClosePcs
<1>6. Given' - Len(Unread') = Given - Len(Unread)
  <2>1. Len(Unread') = Len(Unread) + 1 /\ Len(Unread) \in Nat
    BY <1>3, <1>4
  <2>2. QED
    BY <1>2, <2>1
<1>7. ReadTo(Unread, Given)'
  BY <1>1, <1>6 DEF Intact, ReadTo, ClosePcs
<1>8. Numbered(Unread, Given)'
  BY <1>5 DEF Numbered
<1>9. QED
  BY <1>7, <1>8 DEF Intact

\* Steps of a handler elsewhere do not begin or end a close of the CoAP thread.
LEMMA NoneCloses ==
  ASSUME StreamInv, NEW t \in Threads, pc[t] \notin ClosePcs, NEW p, p \notin ClosePcs, Goto(t, p)
  PROVE  SameClose
BY GivenWhen DEF SameClose, Goto, Threads

LEMMA IntactFetch ==
  ASSUME StreamInv, Intact, NEW t \in Threads, Fetch(t)
  PROVE  Intact'
<1>1. ctx = "live" /\ UNCHANGED <<ctx, offset, read>>
  BY Alive DEF Fetch, At, UsesContext
<1>2. current = NoBlock => offset = 0
  BY <1>1 DEF StreamInv, Sound, OffsetInside
<1>3. current # NoBlock => UNCHANGED current
  BY DEF Fetch
<1>4. Unread' = Unread /\ Given' = Given
  BY FetchIsStream DEF Stream!Abandon, Stream!vars
<1>5. SameClose
  BY NoneCloses DEF Fetch, At, ClosePcs
<1>6. QED
  BY <1>1, <1>2, <1>3, <1>4, <1>5 DEF Intact, Numbered, ReadTo, SameClose

LEMMA IntactCopy ==
  ASSUME StreamInv, RoomLeft, Intact, NEW t \in Threads, Copy(t)
  PROVE  Intact'
<1> DEFINE n == BytesToCopy(t)
           ends == offset + n = current.len
<1>1. /\ ctx = "live" /\ current # NoBlock /\ current \in Block /\ queue \in Seq(Block)
      /\ offset \in Nat /\ offset <= current.len /\ current.len \in Nat
      /\ room[t] \in Nat \ {0}
  <2>1. ctx = "live" /\ current # NoBlock /\ room[t] > 0
    BY Alive DEF Copy, At, UsesContext, RoomLeft
  <2>2. current \in Block /\ queue \in Seq(Block) /\ offset \in Nat /\ room[t] \in Nat
    BY <2>1, RoomAssumption DEF StreamInv, Sound, TypeOK, ContextTypeOK, ThreadTypeOK
  <2>3. QED
    BY <2>1, <2>2, BlockLen DEF StreamInv, Sound, OffsetInside
<1>2. n \in Nat /\ offset + n <= current.len /\ (~ends => n > 0)
  BY <1>1 DEF BytesToCopy
<1>3. /\ ends => TakeNext
      /\ ~ends => UNCHANGED <<queue, current>>
      /\ offset' = (IF ends THEN 0 ELSE offset + n)
      /\ read' = [seq |-> current.seq, off |-> offset + n] /\ ctx' = ctx
  BY DEF Copy, OffsetAfter
<1>4. Given' = Given /\ Given \in Int
  BY CopyIsTake, GivenWhen DEF Stream!Take
<1> HIDE DEF n, ends
<1>a. SameClose
  BY NoneCloses DEF Copy, At, ClosePcs
<1>b. SUFFICES ASSUME pc'["cloud"] \notin ClosePcs PROVE Intact'
  BY DEF Intact
<1>5. /\ Unread \in Seq(Block) /\ Unread # <<>> /\ Head(Unread) = current
      /\ Tail(Unread) = queue
  BY <1>1, UnreadCurrent
<1>6. Numbered(Unread, Given) /\ ReadTo(Unread, Given)
  BY <1>1, <1>a, <1>b DEF Intact, SameClose
<1>7. CASE ends
  <2>1. Unread' = Tail(Unread) /\ offset' = 0
    BY <1>1, <1>3, <1>5, <1>7, UnreadTake
  <2>2. Numbered(Tail(Unread), Given) /\ current.seq = Given - Len(Tail(Unread))
    BY <1>4, <1>5, <1>6, NumberedTail
  <2>3. read'.seq = Given' - Len(Unread')
    BY <1>3, <1>4, <2>1, <2>2
  <2>4. QED
    BY <1>4, <2>1, <2>2, <2>3 DEF Intact, Numbered, ReadTo
<1>8. CASE ~ends
  <2>1. Unread' = Unread /\ UNCHANGED current
    BY <1>3, <1>8, SameUnread
  <2>2. offset' = offset + n /\ offset' # 0 /\ offset' < current.len
    BY <1>1, <1>2, <1>3, <1>8 DEF ends
  <2>3. QED
    BY <1>1, <1>3, <1>4, <1>6, <2>1, <2>2 DEF Intact, Numbered, ReadTo
<1>9. QED
  BY <1>7, <1>8

LEMMA IntactStep ==
  ASSUME StreamInv, RoomLeft, Intact, [Next]_vars
  PROVE  Intact'
<1>1. ctx' = "freed" \/ pc'["cloud"] \in ClosePcs => Intact'
  BY DEF Intact
<1>b. ASSUME NEW why, StartFlush(why) PROVE Intact'
  BY <1>1, <1>b, GivenWhen DEF StartFlush, Goto, ClosePcs, Threads
<1>2. ASSUME NEW len \in Lens \union {0}, NEW last \in BOOLEAN, PutBlock(len, last)
      PROVE  Intact'
  BY <1>2, IntactPut
<1>3. ASSUME NEW t \in Threads, Fetch(t) \/ Copy(t) PROVE Intact'
  BY <1>3, IntactFetch, IntactCopy
<1>4. CASE TestAborted
  <2>1. CASE "ABORTED" \in flags
    BY <1>4, <1>b, <2>1 DEF TestAborted
  <2>2. CASE "ABORTED" \notin flags
    <3>1. UNCHANGED <<ctx, queue, current, offset, flags, read>>
      BY <1>4, <2>2 DEF TestAborted, ctxVars
    <3>2. Given' = Given
      BY <1>4, <2>2, GivenWhen DEF Given, TestAborted, At, Goto, Threads, cloudVars
    <3>3. pc["cloud"] \notin ClosePcs
      BY <1>4 DEF TestAborted, At, ClosePcs
    <3>4. QED
      BY <3>1, <3>2, <3>3, SameUnread DEF Intact, Numbered, ReadTo
  <2>3. QED
    BY <2>1, <2>2
<1>5. CASE BlockAllocTimeout
  BY <1>5, <1>b DEF BlockAllocTimeout
<1>6. ASSUME NEW t \in Threads, SetAborted(t) PROVE Intact'
  <2>1. UNCHANGED <<ctx, current, offset, read>> /\ Unread' = Unread /\ Given' = Given
    BY <1>6, AbortIsStream DEF SetAborted, Stream!Abort
  <2>2. SameClose
    BY <1>6, NoneCloses DEF SetAborted, At, ClosePcs
  <2>3. QED
    BY <2>1, <2>2 DEF Intact, Numbered, ReadTo, SameClose
<1>7. ASSUME NEW t \in Threads, CloseIfComplete(t) PROVE Intact'
  <2>1. CASE "COMPLETE" \in flags
    <3>1. CASE t = "bt"
      BY <1>1, <1>7, <2>1, <3>1 DEF CloseIfComplete, CloseThen, CloseContext
    <3>2. CASE t = "cloud"
      <4>1. pc'["cloud"] = "held?"
        BY <1>7, <2>1, <3>2, GivenWhen DEF CloseIfComplete, CloseThen, Goto, Threads
      <4>2. QED
        BY <1>1, <4>1 DEF ClosePcs
    <3>3. QED
      BY <3>1, <3>2 DEF Threads
  <2>2. CASE "COMPLETE" \notin flags
    <3>1. UNCHANGED <<ctx, queue, current, offset, flags, read>>
      BY <1>7, <2>2 DEF CloseIfComplete, ctxVars
    <3>2. UNCHANGED Stream!vars
      <4>1. Phase # "complete"
        BY <2>2 DEF Phase
      <4>2. QED
        BY <1>7, <4>1, CloseIfCompleteIsStream DEF Stream!Close
    <3>3. SameClose
      BY <1>7, <2>2, NoneCloses DEF CloseIfComplete, At, ClosePcs
    <3>4. QED
      BY <3>1, <3>2, <3>3, IntactWhenSame DEF SameClose
  <2>3. QED
    BY <2>1, <2>2
<1>8. CASE TestComplete
  <2>1. CASE "COMPLETE" \in flags
    BY <1>1, <1>8, <2>1 DEF TestComplete, CloseThen, CloseContext
  <2>2. CASE "COMPLETE" \notin flags
    <3>1. UNCHANGED <<ctx, queue, current, offset, flags, read>>
      BY <1>8, <2>2 DEF TestComplete, ctxVars
    <3>2. UNCHANGED Stream!vars
      <4>1. Phase # "complete"
        BY <2>2 DEF Phase
      <4>2. QED
        BY <1>8, <4>1, TestCompleteIsStream DEF Stream!Close
    <3>3. SameClose
      BY <1>8, <2>2, GivenWhen DEF TestComplete, Goto, SameClose, Threads
    <3>4. QED
      BY <3>1, <3>2, <3>3, IntactWhenSame DEF SameClose
  <2>3. QED
    BY <2>1, <2>2
<1>9. ASSUME \/ BlockCb \/ BlockAlloc \/ TestCurrent \/ TestAndClearWaiting \/ EndCb \/ EndKick
             \/ Disconnect \/ BtStop \/ UNCHANGED vars
             \/ \E t \in Threads : \/ Finish(t) \/ StartGet(t) \/ Send(t) \/ SendNothing(t)
                                   \/ Crash(t)
             \/ \E err \in BOOLEAN : WriteResponse(err)
      PROVE  Intact'
  <2>1. UNCHANGED <<ctx, current, offset, read>>
    BY <1>9
       DEF BlockCb, BlockAlloc, TestCurrent, TestAndClearWaiting, EndCb, EndKick,
       Disconnect,
           BtStop, Finish, StartGet, Send, SendNothing, Crash, WriteResponse, ctxVars, vars
  <2>2. UNCHANGED Stream!vars
    BY <1>9, OtherIsNothing
  <2>3. pc'["cloud"] \notin ClosePcs => pc["cloud"] \notin ClosePcs
    BY <1>9, GivenWhen
       DEF BlockCb, BlockAlloc, TestCurrent, TestAndClearWaiting, EndCb, EndKick,
       Disconnect,
           BtStop, Finish, StartGet, Send, SendNothing, Crash, WriteResponse, vars, At,
           Goto,
           Return, Threads, ClosePcs
  <2>4. QED
    BY <2>1, <2>2, <2>3, IntactWhenSame
<1>10. CASE FlushOne \/ TestHeld \/ FreeHeld
  BY <1>1, <1>10, GivenWhen DEF FlushOne, TestHeld, FreeHeld, At, Goto, Threads, ClosePcs
<1>11. CASE FreeContext
  BY <1>1, <1>11 DEF FreeContext
<1>12. QED
  BY <1>2, <1>3, <1>4, <1>5, <1>6, <1>7, <1>8, <1>9, <1>10, <1>11
     DEF Next, CloudStep, BtStep, Response, WriteCharacteristic, ErrorPath, Ended, Threads

\* Until block_cb gives up what is left, the device reads what the cloud has sent:
\* nothing is skipped, repeated or exchanged, by any interleaving of the two threads.
THEOREM StreamAlwaysIntact == Spec => []StreamIntact
<1>1. Intact => StreamIntact
  <2>1. SUFFICES ASSUME Intact, ctx = "live", pc["cloud"] \notin ClosePcs
                 PROVE  /\ \A i \in DOMAIN Unread :
                             Unread[i].seq = Given - Len(Unread) + i
                        /\ ReadTo(Unread, Given)
    BY DEF StreamIntact, ReadTo
  <2>2. QED
    BY <2>1 DEF Intact, Numbered
<1>2. Init => StreamInv /\ RoomLeft /\ Intact
  BY StreamInvInit, IntactInit
<1>3. StreamInv /\ RoomLeft /\ Intact /\ [Next]_vars => (StreamInv /\ RoomLeft /\ Intact)'
  BY StreamInvStep, RoomStep, IntactStep
<1>4. QED
  BY <1>1, <1>2, <1>3, PTL DEF Spec

-----------------------------------------------------------------------------
(* Wakeups, and the end                                                    *)

\* A transport that waits has nothing in hand, and if there is something in the
\* queue block_cb is about to find the bit.
WaitingEmpty ==
  ctx = "live" /\ "WAITING" \in flags =>
    current = NoBlock /\ (queue = <<>> \/ pc["cloud"] \in {"current?", "waiting?"})

\* One that does not wait has a write in flight, or a thread is at it.
NotWaitingBusy ==
  ctx = "live" /\ "WAITING" \notin flags /\ ~finished =>
    writes > 0 \/ pc["bt"] # "idle" \/ InCallback

\* write_response_cb returns with nothing to send only when it waits.
IdleWaits ==
  pc["bt"] = "send" /\ ret["bt"] = "again" /\ room["bt"] = Room =>
    ctx = "freed" \/ "WAITING" \in flags

OpenInBlockCb == pc["cloud"] \in {"current?", "waiting?"} => sdk # "error"

\* bt_finished follows an abort, or the close of a complete downlink.
FinishCause ==
  /\ \A t \in Threads : pc[t] = "close" => "ABORTED" \in flags
  /\ \A t \in Threads : pc[t] = "finish" => "ABORTED" \in flags \/ ctx = "freed"
  /\ finished => "ABORTED" \in flags \/ ctx = "freed"

\* A downlink that is closed has nothing left to send.
FreedSendsNothing ==
  ctx = "freed" /\ sdk # "error" =>
    \A t \in Threads : ~(pc[t] = "send" /\ HasPacket(t))

WakeInv == WaitingEmpty /\ NotWaitingBusy /\ IdleWaits /\ OpenInBlockCb

EndInv == FinishCause /\ FreedSendsNothing

LEMMA WakeInit == Init => WakeInv /\ EndInv
BY DEF Init, OpenContext, WakeInv, WaitingEmpty, NotWaitingBusy, IdleWaits, OpenInBlockCb,
       EndInv, FinishCause, FreedSendsNothing, Threads, InCallback, GetPcs, ClosePcs

LEMMA WakeStep ==
  ASSUME StreamInv, WakeInv, [Next]_vars
  PROVE  WakeInv'
<1>1. /\ ThreadTypeOK /\ InBlockCb /\ writes \in Nat /\ RoomAssumption
      /\ ctx \in {"live", "freed"} /\ HostPcs /\ Silent /\ Handshake /\ EndCbOnly
  BY RoomAssumption DEF StreamInv, Sound, TypeOK, ContextTypeOK, LinkTypeOK
<1> USE <1>1 DEF ThreadTypeOK, InBlockCb, HostPcs, Silent, Handshake, EndCbOnly, MayWrite,
            HasPacket, WakeInv, WaitingEmpty, NotWaitingBusy, IdleWaits, OpenInBlockCb,
            InCallback, Threads, ContextPcs, GetPcs, ClosePcs, ctxVars, cloudVars, btVars,
            getVars, vars, At, Goto,
            Return
<1>2. CASE BlockCb \/ BlockAlloc \/ TestCurrent \/ TestAndClearWaiting
  BY <1>2 DEF BlockCb, BlockAlloc, TestCurrent, TestAndClearWaiting
<1>3. CASE TestAborted \/ BlockAllocTimeout
  BY <1>3 DEF TestAborted, BlockAllocTimeout, StartFlush
<1>4. ASSUME NEW len \in Lens \union {0}, NEW last \in BOOLEAN, PutBlock(len, last)
      PROVE  WakeInv'
  BY <1>4 DEF PutBlock
<1>5. CASE EndCb \/ EndKick
  BY <1>5 DEF EndCb, EndKick
<1>6. ASSUME NEW t \in Threads, SetAborted(t) PROVE WakeInv'
  BY <1>6 DEF SetAborted
<1>7. ASSUME NEW t \in Threads, CloseIfComplete(t) PROVE WakeInv'
  BY <1>7 DEF CloseIfComplete, CloseThen, CloseContext
<1>8. ASSUME NEW t \in Threads, Finish(t) PROVE WakeInv'
  BY <1>8 DEF Finish
<1>9. ASSUME NEW t \in Threads, StartGet(t) PROVE WakeInv'
  BY <1>9 DEF StartGet
<1>10. ASSUME NEW t \in Threads, Fetch(t) PROVE WakeInv'
  BY <1>10 DEF Fetch, EmptyFlags, TakeNext
<1>11. ASSUME NEW t \in Threads, Copy(t) PROVE WakeInv'
  BY <1>11, Alive DEF Copy, TakeNext, UsesContext
<1>12. ASSUME NEW t \in Threads, Send(t) PROVE WakeInv'
  BY <1>12 DEF Send
<1>13. ASSUME NEW t \in Threads, SendNothing(t) PROVE WakeInv'
  BY <1>13 DEF SendNothing
<1>14. ASSUME NEW t \in Threads, Crash(t) PROVE WakeInv'
  BY <1>14 DEF Crash
<1>15. ASSUME NEW err \in BOOLEAN, WriteResponse(err) PROVE WakeInv'
  BY <1>15 DEF WriteResponse
<1>16. CASE TestComplete
  BY <1>16 DEF TestComplete, CloseThen, CloseContext
<1>17. CASE Disconnect \/ BtStop \/ UNCHANGED vars
  BY <1>17 DEF Disconnect, BtStop
<1>18. CASE FlushOne \/ TestHeld \/ FreeHeld \/ FreeContext
  BY <1>18 DEF FlushOne, TestHeld, FreeHeld, FreeContext
<1>19. QED
  BY <1>2, <1>3, <1>4, <1>5, <1>6, <1>7, <1>8, <1>9, <1>10, <1>11, <1>12, <1>13, <1>14,
     <1>15, <1>16, <1>17, <1>18
     DEF Next, CloudStep, BtStep, Response, WriteCharacteristic, ErrorPath, Ended

LEMMA EndStep ==
  ASSUME StreamInv, EndInv, [Next]_vars
  PROVE  EndInv'
<1>1. /\ ThreadTypeOK /\ ctx \in {"live", "freed"} /\ HostPcs /\ Silent /\ Handshake
      /\ EndCbOnly
  BY DEF StreamInv, Sound, TypeOK, ContextTypeOK, LinkTypeOK
<1> USE <1>1 DEF ThreadTypeOK, HostPcs, Silent, Handshake, EndCbOnly, MayWrite,
            HasPacket, EndInv, FinishCause, FreedSendsNothing, InCallback,
            Threads, ContextPcs, GetPcs, ClosePcs, ctxVars, cloudVars, btVars, getVars,
            vars, At, Goto,
            Return
<1>2. CASE BlockCb \/ BlockAlloc \/ TestCurrent \/ TestAndClearWaiting
  BY <1>2 DEF BlockCb, BlockAlloc, TestCurrent, TestAndClearWaiting
<1>3. CASE TestAborted \/ BlockAllocTimeout
  BY <1>3 DEF TestAborted, BlockAllocTimeout, StartFlush
<1>4. ASSUME NEW len \in Lens \union {0}, NEW last \in BOOLEAN, PutBlock(len, last)
      PROVE  EndInv'
  BY <1>4 DEF PutBlock
<1>5. CASE EndCb \/ EndKick
  BY <1>5 DEF EndCb, EndKick
<1>6. ASSUME NEW t \in Threads, SetAborted(t) PROVE EndInv'
  BY <1>6 DEF SetAborted
<1>7. ASSUME NEW t \in Threads, CloseIfComplete(t) PROVE EndInv'
  BY <1>7 DEF CloseIfComplete, CloseThen, CloseContext
<1>8. ASSUME NEW t \in Threads, Finish(t) PROVE EndInv'
  BY <1>8 DEF Finish
<1>9. ASSUME NEW t \in Threads, StartGet(t) PROVE EndInv'
  BY <1>9 DEF StartGet
<1>10. ASSUME NEW t \in Threads, Fetch(t) PROVE EndInv'
  BY <1>10, Alive DEF Fetch, EmptyFlags, UsesContext
<1>11. ASSUME NEW t \in Threads, Copy(t) PROVE EndInv'
  BY <1>11, Alive DEF Copy, UsesContext
<1>12. ASSUME NEW t \in Threads, Send(t) PROVE EndInv'
  BY <1>12 DEF Send
<1>13. ASSUME NEW t \in Threads, SendNothing(t) PROVE EndInv'
  BY <1>13 DEF SendNothing
<1>14. ASSUME NEW t \in Threads, Crash(t) PROVE EndInv'
  BY <1>14 DEF Crash
<1>15. ASSUME NEW err \in BOOLEAN, WriteResponse(err) PROVE EndInv'
  BY <1>15 DEF WriteResponse
<1>16. CASE TestComplete
  BY <1>16 DEF TestComplete, CloseThen, CloseContext
<1>17. CASE Disconnect \/ BtStop \/ UNCHANGED vars
  BY <1>17 DEF Disconnect, BtStop
<1>18. CASE FlushOne \/ TestHeld \/ FreeHeld \/ FreeContext
  BY <1>18 DEF FlushOne, TestHeld, FreeHeld, FreeContext
<1>19. QED
  BY <1>2, <1>3, <1>4, <1>5, <1>6, <1>7, <1>8, <1>9, <1>10, <1>11, <1>12, <1>13, <1>14,
     <1>15, <1>16, <1>17, <1>18
     DEF Next, CloudStep, BtStep, Response, WriteCharacteristic, ErrorPath, Ended

\* Whichever way block_cb and get_data interleave, somebody looks at the queue again.
THEOREM NoWakeupLost == Spec => []NoLostWakeup
<1>1. WakeInv => NoLostWakeup
  BY DEF WakeInv, WaitingEmpty, NotWaitingBusy, NoLostWakeup
<1>2. Init => StreamInv /\ WakeInv
  BY StreamInvInit, WakeInit
<1>3. StreamInv /\ WakeInv /\ [Next]_vars => (StreamInv /\ WakeInv)'
  BY StreamInvStep, WakeStep
<1>4. QED
  BY <1>1, <1>2, <1>3, PTL DEF Spec

\* Unless the request fails, nothing is written after bt_finished: the downlink was
\* aborted, so nobody reads it, or closed, so there is nothing left.
THEOREM QuietInTheEnd == Spec => QuietAfterFinish
<1>1. Init => StreamInv /\ EndInv
  BY StreamInvInit, WakeInit
<1>2. StreamInv /\ EndInv /\ [Next]_vars => (StreamInv /\ EndInv)'
  BY StreamInvStep, EndStep
<1>3. StreamInv /\ EndInv /\ [Next]_vars => [finished /\ sdk # "error" => writes' <= writes]_vars
  <2>1. SUFFICES ASSUME StreamInv, EndInv, [Next]_vars, finished, sdk # "error"
                 PROVE  writes' <= writes
    OBVIOUS
  <2>2. \A t \in Threads : ~(pc[t] = "send" /\ HasPacket(t))
    BY <2>1 DEF EndInv, FinishCause, FreedSendsNothing, StreamInv, Sound, TypeOK,
                ContextTypeOK, Silent, MayWrite
  <2>3. writes \in Nat
    BY <2>1 DEF StreamInv, Sound, TypeOK, LinkTypeOK
  <2>4. \A t \in Threads : ~Send(t)
    BY <2>2 DEF Send, At
  <2>5. writes' = writes \/ writes' = writes - 1
    BY <2>1, <2>4
       DEF Next, CloudStep, BtStep, Response, WriteCharacteristic, ErrorPath, Ended,
       Threads,
           BlockCb, TestAborted, BlockAlloc, BlockAllocTimeout, PutBlock, TestCurrent,
           TestAndClearWaiting, EndCb, EndKick, SetAborted, CloseIfComplete, Finish,
           StartGet,
           Fetch, Copy, SendNothing, Crash, WriteResponse, TestComplete, Disconnect, BtStop,
           FlushOne, TestHeld, FreeHeld, FreeContext, btVars, vars
  <2>6. QED
    BY <2>3, <2>5
<1>4. QED
  BY <1>1, <1>2, <1>3, PTL DEF Spec, QuietAfterFinish

-----------------------------------------------------------------------------
(* The flush and the close of the CoAP thread                              *)

\* But for a device that still reads, block_cb gives up a downlink that the transport
\* has aborted, or times out behind a connection that is gone or a transport that is
\* idle: write_response_cb does not read any of them.  And a complete downlink has
\* nothing to read.
FlushAlone ==
  /\ pc["cloud"] \in ClosePcs /\ exit = "done" =>
       "ABORTED" \in flags
       \/ /\ link # "up" \/ writes = 0
          /\ pc["bt"] \notin {"complete?", "start", "fetch", "copy", "send"}
  /\ pc["cloud"] \in ClosePcs /\ ~GivingUp => pc["bt"] \notin {"start", "fetch", "copy"}
  /\ pc["cloud"] = "release" /\ exit # "late" => exit = "done" /\ current # NoBlock

LEMMA FlushAloneStep ==
  ASSUME StreamInv, FlushAlone, [Next]_vars
  PROVE  FlushAlone'
<1>1. /\ ThreadTypeOK /\ InBlockCb /\ HostPcs /\ Silent /\ CloudCloses
      /\ ctx \in {"live", "freed"} /\ Drained /\ FlushAlone
  BY DEF StreamInv, Sound, TypeOK, ContextTypeOK
<1> USE <1>1 DEF ThreadTypeOK, InBlockCb, HostPcs, Silent, MayWrite, CloudCloses, Drained,
            FlushAlone,
            Threads, ContextPcs, GetPcs, ClosePcs, ctxVars, cloudVars, btVars, getVars,
            vars,
            At, Goto, Return
<1>2. CASE BlockCb \/ BlockAlloc \/ TestCurrent \/ TestAndClearWaiting \/ EndCb \/ EndKick
  BY <1>2 DEF BlockCb, BlockAlloc, TestCurrent, TestAndClearWaiting, EndCb, EndKick
<1>3. CASE TestAborted \/ BlockAllocTimeout
  BY <1>3 DEF TestAborted, BlockAllocTimeout, StartFlush
<1>4. ASSUME NEW len \in Lens \union {0}, NEW last \in BOOLEAN, PutBlock(len, last)
      PROVE  FlushAlone'
  BY <1>4 DEF PutBlock
<1>5. ASSUME NEW t \in Threads,
             \/ SetAborted(t) \/ Finish(t) \/ StartGet(t) \/ Send(t) \/ SendNothing(t) \/ Crash(t)
      PROVE  FlushAlone'
  BY <1>5 DEF SetAborted, Finish, StartGet, Send, SendNothing, Crash
<1>6. ASSUME NEW t \in Threads, Fetch(t) \/ Copy(t) PROVE FlushAlone'
  BY <1>6 DEF Fetch, Copy
<1>7. ASSUME NEW t \in Threads, CloseIfComplete(t) PROVE FlushAlone'
  <2>1. ctx = "live"
    BY <1>7, Alive DEF CloseIfComplete, UsesContext
  <2>2. QED
    BY <1>7, <2>1 DEF CloseIfComplete, CloseThen, CloseContext
<1>8. CASE TestComplete
  <2>1. ctx = "live"
    BY <1>8, Alive DEF TestComplete, UsesContext
  <2>2. QED
    BY <1>8, <2>1 DEF TestComplete, CloseThen, CloseContext
<1>9. ASSUME NEW err \in BOOLEAN, WriteResponse(err) PROVE FlushAlone'
  BY <1>9 DEF WriteResponse
<1>10. CASE Disconnect \/ BtStop \/ UNCHANGED vars
  BY <1>10 DEF Disconnect, BtStop
<1>11. CASE FlushOne \/ FreeHeld
  BY <1>11 DEF FlushOne, FreeHeld
<1>12. CASE TestHeld
  <2>1. ctx = "live" /\ pc["cloud"] = "held?"
    BY <1>12, Alive DEF TestHeld, UsesContext
  <2>2. QED
    BY <1>12, <2>1 DEF TestHeld
<1>13. CASE FreeContext
  BY <1>13 DEF FreeContext
<1>14. QED
  BY <1>2, <1>3, <1>4, <1>5, <1>6, <1>7, <1>8, <1>9, <1>10, <1>11, <1>12, <1>13
     DEF Next, CloudStep, BtStep, Response, WriteCharacteristic, ErrorPath, Ended

\* While the CoAP thread closes, no step reads, and none takes a block that is gone.
LEMMA FlushAloneQuiet ==
  ASSUME StreamInv, FlushAlone, [Next]_vars
  PROVE  [pc["cloud"] \in ClosePcs /\ exit # "late" => read' = read /\ fault' # "block"]_vars
<1>1. SUFFICES ASSUME fault = "none", Next, ~UNCHANGED vars, pc["cloud"] \in ClosePcs,
                      exit # "late"
               PROVE  read' = read /\ fault' # "block"
  BY DEF Next, Ended
<1>2. /\ HostPcs /\ CloudCloses /\ FlushAlone /\ Silent /\ Drained /\ CloseStrandsNothing
      /\ ctx \in {"live", "freed"}
  BY DEF StreamInv, Sound, TypeOK, ContextTypeOK
<1>3. \A t \in Threads : pc[t] # "copy"
  BY <1>1, <1>2 DEF FlushAlone, CloudCloses, Silent, MayWrite, Threads, ClosePcs
<1>4. \A t \in Threads : ~(UsesBlock(t) /\ BlockGone(t))
  <2>1. "COMPLETE" \in flags => current = NoBlock
    BY <1>2 DEF Drained, CloseStrandsNothing
  <2>2. ~(UsesBlock("cloud") /\ BlockGone("cloud"))
    BY <1>1, <1>2, <1>3 DEF UsesBlock, BlockGone, FlushAlone, Threads
  <2>3. ~UsesBlock("bt")
    BY <1>2, <1>3, <2>1 DEF UsesBlock, HostPcs, GetPcs, Threads
  <2>4. QED
    BY <2>2, <2>3 DEF Threads
<1>5. ASSUME NEW t \in Threads, Crash(t) PROVE read' = read /\ fault' # "block"
  <2>1. Misuse(t) # "block"
    BY <1>4 DEF Misuse
  <2>2. QED
    BY <1>5, <2>1 DEF Crash
<1>6. CASE \A t \in Threads : ~Crash(t)
  <2>1. \A t \in Threads : ~Copy(t)
    BY <1>3 DEF Copy, At
  <2>2. CASE \/ BlockCb \/ TestAborted \/ BlockAlloc \/ BlockAllocTimeout \/ TestCurrent
             \/ TestAndClearWaiting \/ EndCb \/ EndKick \/ FlushOne \/ TestHeld \/ FreeHeld
             \/ FreeContext \/ TestComplete \/ Disconnect \/ BtStop \/ UNCHANGED vars
    BY <1>1, <2>2
       DEF BlockCb, TestAborted, BlockAlloc, BlockAllocTimeout, TestCurrent,
           TestAndClearWaiting, EndCb, EndKick, FlushOne, TestHeld, FreeHeld, FreeContext,
           TestComplete, Disconnect, BtStop, vars
  <2>3. CASE \/ \E len \in Lens \union {0}, last \in BOOLEAN : PutBlock(len, last)
             \/ \E err \in BOOLEAN : WriteResponse(err)
             \/ \E t \in Threads : \/ SetAborted(t) \/ CloseIfComplete(t) \/ Finish(t)
                                   \/ StartGet(t) \/ Fetch(t) \/ Send(t) \/ SendNothing(t)
    BY <1>1, <2>3
       DEF PutBlock, WriteResponse, SetAborted, CloseIfComplete, Finish, StartGet, Fetch,
       Send,
           SendNothing
  <2>4. QED
    BY <1>1, <1>6, <2>1, <2>2, <2>3
       DEF Next, CloudStep, BtStep, Response, WriteCharacteristic, ErrorPath, Ended, Threads
<1>7. QED
  BY <1>5, <1>6

\* In any interleaving and whatever fails, nobody reads across the flush: the device
\* gets no gap, and the block in reading is freed once, unless block_cb gives up
\* on a device that still reads.
THEOREM FlushAlwaysAlone == Spec => FlushIsAlone
<1> DEFINE A == pc["cloud"] \in ClosePcs /\ exit # "late" => read' = read /\ fault' # "block"
<1>1. Init => StreamInv /\ FlushAlone
  BY StreamInvInit DEF Init, FlushAlone, Threads, ClosePcs
<1>2. StreamInv /\ FlushAlone /\ [Next]_vars => (StreamInv /\ FlushAlone)'
  BY StreamInvStep, FlushAloneStep
<1>3. StreamInv /\ FlushAlone /\ [Next]_vars => [A]_vars
  BY FlushAloneQuiet
<1>4. QED
  BY <1>1, <1>2, <1>3, PTL DEF Spec, FlushIsAlone

-----------------------------------------------------------------------------
(* Where nothing fails                                                     *)

\* The cloud and the device keep up with each other and the link holds; the host
\* thread handles at most one response while block_cb is running.
Steady == ~CloudFails /\ ~GattFails /\ ~LinkDrops /\ ~SlowNode /\ MaxLag <= 1

HasData == current # NoBlock \/ queue # <<>>

\* block_cb has put its block and looks whether it must call back.
Window == pc["cloud"] \in {"current?", "waiting?"}

\* No error path is entered.
Unbroken ==
  /\ fault = "none" /\ "ABORTED" \notin flags /\ sdk # "error"
  /\ \A t \in Threads :
       pc[t] \notin {"abort", "close", "endAbort", "endClose", "kick?",
                    "flush", "held?", "release", "freeCtx", "freeRest"}

\* The handler that gave the last block is the last of the request.
LastGiven ==
  /\ sdk = "last" => pc["cloud"] \notin {"idle", "abort?", "alloc", "put"}
  /\ pc["cloud"] = "done" => sdk = "last"

\* write_response_cb frees the context, then the packetizer, and only then will
\* the connection be closed; block_cb has returned before.
FreedLast ==
  /\ ctx = "freed" =>
       pc["cloud"] = "done" /\ pc["bt"] \in {"finish", "idle"} /\ writes = 0
  /\ pc["bt"] = "finish" => ctx = "freed" /\ packetizer = "live"
  /\ pc["cloud"] \notin {"finish", "complete?"}
  /\ packetizer = "freed" => ctx = "freed" /\ pc["bt"] = "idle"
  /\ finished \/ link # "up" => packetizer = "freed"

\* Only the last block may be empty.
NoneEmpty ==
  /\ current # NoBlock => current.last \/ offset < current.len
  /\ \A i \in 1 .. Len(queue) : queue[i].last \/ queue[i].len > 0

\* A write_response_cb that cuts in behind the put has the block to read; the
\* next one would find the queue empty, but block_cb returns before it.
Grace ==
  /\ lag \in {0, 1}
  /\ Window =>
       /\ lag = 0 => pc["bt"] = "idle" /\ HasData
       /\ "WAITING" \in flags => HasData
       /\ pc["bt"] \in {"complete?", "start"} => HasData
       /\ pc["bt"] = "fetch" /\ room["bt"] = Room => HasData

\* The first pass of data_available_cb through get_data finds a block, and none
\* of get_data's callers starts on a downlink that is complete.
Fed ==
  /\ pc["cloud"] = "start" => HasData
  /\ pc["cloud"] = "fetch" /\ room["cloud"] = Room => HasData
  /\ pc["cloud"] = "send" => HasPacket("cloud")
  /\ pc["bt"] = "start" => "COMPLETE" \notin flags
  /\ \A t \in Threads : pc[t] = "send" => ret[t] # "nodata"
  /\ \A t \in Threads : pc[t] = "copy" => current # NoBlock

SteadyInv ==
  /\ StreamInv /\ WakeInv
  /\ Unbroken /\ LastGiven /\ FreedLast /\ NoneEmpty /\ Grace /\ Fed

LEMMA SteadyInit == Init => SteadyInv
<1>1. Len(<<>>) = 0
  OBVIOUS
<1>2. QED
  BY <1>1, StreamInvInit, WakeInit
     DEF Init, OpenContext, SteadyInv, Unbroken, LastGiven, FreedLast, NoneEmpty, Grace,
         Window, Fed, Threads, ClosePcs

\* No handler stands at an access to memory that is gone.
LEMMA SteadyNoMisuse ==
  ASSUME SteadyInv, NEW t \in Threads
  PROVE  Misuse(t) = "none"
<1>1. /\ ctx \in {"live", "freed"} /\ packetizer \in {"live", "freed"}
      /\ HostPcs /\ t \in {"cloud", "bt"}
  BY DEF SteadyInv, StreamInv, Sound, TypeOK, ContextTypeOK, LinkTypeOK, Threads
<1>2. pc[t] \in UsesContext => ctx = "live"
  BY <1>1 DEF SteadyInv, FreedLast, Unbroken, UsesContext, ClosePcs
<1>3. pc[t] \in UsesPacketizer => packetizer = "live"
  BY <1>1 DEF SteadyInv, FreedLast, UsesPacketizer
<1>4. pc[t] = "copy" => link # "stopped" /\ current # NoBlock
  BY <1>2, <1>3 DEF SteadyInv, FreedLast, Fed, UsesPacketizer
<1>5. ~(UsesBlock(t) /\ BlockGone(t))
  <2>1. \A u \in Threads : pc[u] \notin {"release", "close", "freeRest"}
    BY DEF SteadyInv, Unbroken, ClosePcs
  <2>2. pc[t] \in UsesContext /\ "COMPLETE" \in flags => current = NoBlock
    BY <1>2 DEF SteadyInv, StreamInv, Drained
  <2>3. QED
    BY <1>4, <2>1, <2>2 DEF UsesBlock, BlockGone, Threads, UsesContext
<1>6. ~Races(t)
  BY DEF Races, SteadyInv, Unbroken, StreamInv, Handshake, InCallback, GetPcs
<1>7. QED
  BY <1>2, <1>3, <1>4, <1>5, <1>6 DEF Misuse

\* The connection is up as long as there is a context.
LEMMA SteadyUp ==
  ASSUME SteadyInv, ctx = "live"
  PROVE  link = "up" /\ ~finished /\ packetizer = "live"
BY DEF SteadyInv, FreedLast, StreamInv, Sound, TypeOK, LinkTypeOK

\* The steps of the error paths are not taken.
LEMMA SteadyNever ==
  ASSUME Steady, SteadyInv
  PROVE  /\ ~BlockAllocTimeout /\ ~EndCb /\ ~EndKick
         /\ \A t \in Threads : ~SetAborted(t) /\ ~CloseIfComplete(t) /\ ~Crash(t)
         /\ ~Finish("cloud") /\ ~SendNothing("cloud") /\ ~WriteResponse(TRUE)
         /\ ~FlushOne /\ ~TestHeld /\ ~FreeHeld /\ ~FreeContext
<1>1. ~EndCb
  BY DEF Steady, EndCb
<1>2. ~BlockAllocTimeout
  <2>1. SUFFICES ASSUME BlockAllocTimeout PROVE FALSE
    OBVIOUS
  <2>2. /\ pc["cloud"] = "alloc" /\ pc["bt"] = "idle" /\ free = 0 /\ ctx = "live"
    BY <2>1 DEF SteadyInv, FreedLast, BlockAllocTimeout, At, StreamInv, Sound, TypeOK,
                ContextTypeOK
  <2>3. writes = 0 /\ ~finished
    BY <2>1, <2>2, SteadyUp DEF Steady, SteadyInv, Unbroken, BlockAllocTimeout
  <2>4. current = NoBlock /\ queue = <<>>
    BY <2>2, <2>3 DEF SteadyInv, WakeInv, WaitingEmpty, NotWaitingBusy, InCallback, GetPcs,
                      ClosePcs
  <2>5. Len(queue) + HeldBlocks = NumBlocks /\ NumBlocks # 0
    BY <2>2, PoolBound, PoolAssumption DEF SteadyInv, StreamInv, Sound, PoolAccounted
  <2>6. QED
    BY <2>4, <2>5 DEF HeldBlocks
<1>3. ~EndKick
  BY DEF SteadyInv, Unbroken, EndKick, At, Threads
<1>4. ASSUME NEW t \in Threads PROVE ~SetAborted(t) /\ ~CloseIfComplete(t)
  BY DEF SteadyInv, Unbroken, SetAborted, CloseIfComplete, At
<1>5. ASSUME NEW t \in Threads PROVE ~Crash(t)
  BY SteadyNoMisuse DEF Crash
<1>6. ~Finish("cloud")
  BY DEF SteadyInv, FreedLast, Finish, At
<1>7. ~SendNothing("cloud")
  BY DEF SteadyInv, Fed, SendNothing, At
<1>8. ~WriteResponse(TRUE)
  BY DEF Steady, SteadyInv, FreedLast, WriteResponse
<1>9. ~FlushOne /\ ~TestHeld /\ ~FreeHeld /\ ~FreeContext
  BY DEF SteadyInv, Unbroken, Threads, ClosePcs, FlushOne, TestHeld, FreeHeld,
     FreeContext, At
<1>10. QED
  BY <1>1, <1>2, <1>3, <1>4, <1>5, <1>6, <1>7, <1>8, <1>9

\* Blocks that are put are empty only when they are the last, and the take moves
\* them unchanged.
LEMMA NoneEmptyTake ==
  ASSUME SteadyInv, TakeNext, offset' = 0
  PROVE  NoneEmpty'
<1>1. queue \in Seq(Block) /\ \A i \in 1 .. Len(queue) : queue[i].last \/ queue[i].len > 0
  BY DEF SteadyInv, StreamInv, Sound, TypeOK, ContextTypeOK, NoneEmpty
<1>2. CASE queue = <<>>
  <2>1. current' = NoBlock /\ queue' = <<>> /\ Len(<<>>) = 0
    BY <1>2 DEF TakeNext
  <2>2. QED
    BY <2>1 DEF NoneEmpty
<1>3. CASE queue # <<>>
  <2>1. /\ current' = queue[1] /\ queue' = Tail(queue)
        /\ Len(queue') = Len(queue) - 1 /\ Len(queue) \in Nat \ {0}
        /\ \A i \in 1 .. Len(queue) - 1 : queue'[i] = queue[i + 1]
    BY <1>1, <1>3, QueueTail DEF TakeNext
  <2>2. current'.last \/ offset' < current'.len
    <3>1. 1 \in 1 .. Len(queue)
      BY <2>1
    <3>2. queue[1].last \/ queue[1].len > 0
      BY <1>1, <3>1
    <3>3. queue[1].len > 0 => 0 < queue[1].len
      BY <1>1, <3>1, BlockLen
    <3>4. QED
      BY <2>1, <3>2, <3>3
  <2>3. ASSUME NEW i \in 1 .. Len(queue') PROVE queue'[i].last \/ queue'[i].len > 0
    <3>1. i + 1 \in 1 .. Len(queue) /\ queue'[i] = queue[i + 1]
      BY <2>1
    <3>2. QED
      BY <1>1, <3>1
  <2>4. QED
    BY <2>2, <2>3 DEF NoneEmpty
<1>4. QED
  BY <1>2, <1>3

LEMMA NoneEmptyPut ==
  ASSUME SteadyInv, NEW len \in Lens \union {0}, NEW last \in BOOLEAN, PutBlock(len, last)
  PROVE  NoneEmpty'
<1> DEFINE b == [seq |-> count, len |-> len, last |-> last]
<1>1. queue \in Seq(Block) /\ NoneEmpty
  BY DEF SteadyInv, StreamInv, Sound, TypeOK, ContextTypeOK
<1>2. /\ queue' = Append(queue, b) /\ UNCHANGED <<current, offset>>
      /\ len = 0 => last
  BY DEF PutBlock
<1>3. b.last \/ b.len > 0
  BY <1>2, LensAssumption
<1> HIDE DEF b
<1>4. /\ Len(queue') = Len(queue) + 1 /\ Len(queue) \in Nat
      /\ \A i \in 1 .. Len(queue) : queue'[i] = queue[i]
      /\ queue'[Len(queue) + 1] = b
  BY <1>1, <1>2
<1>5. ASSUME NEW i \in 1 .. Len(queue') PROVE queue'[i].last \/ queue'[i].len > 0
  <2>1. CASE i \in 1 .. Len(queue)
    BY <1>1, <1>4, <2>1 DEF NoneEmpty
  <2>2. CASE i = Len(queue) + 1
    BY <1>3, <1>4, <2>2
  <2>3. QED
    BY <1>4, <2>1, <2>2
<1>6. QED
  BY <1>1, <1>2, <1>5 DEF NoneEmpty

\* What the rest of SteadyInv says of the steps that leave the queue alone
Quiet == LastGiven /\ FreedLast /\ Grace /\ Fed

LEMMA SteadyPut ==
  ASSUME SteadyInv, NEW len \in Lens \union {0}, NEW last \in BOOLEAN, PutBlock(len, last)
  PROVE  Unbroken' /\ Quiet'
<1>1. /\ ThreadTypeOK /\ HostPcs /\ Unbroken /\ Quiet
  BY DEF SteadyInv, Quiet, StreamInv, Sound, TypeOK
<1>2. queue' # <<>>
  <2>1. queue \in Seq(Block)
    BY DEF SteadyInv, StreamInv, Sound, TypeOK, ContextTypeOK
  <2>2. \A b : Append(queue, b) # <<>>
    BY <2>1
  <2>3. QED
    BY <2>2 DEF PutBlock
<1>3. /\ pc["cloud"] = "put" /\ pc["bt"] = "idle" /\ pc' = [pc EXCEPT !["cloud"] = "current?"]
      /\ sdk' \in {"last", "open"}
      /\ UNCHANGED <<ctx, flags, current, room, ret, lag, link, writes, packetizer, finished,
                     fault>>
  BY DEF PutBlock, At, Goto, getVars, btVars
<1>4. QED
  BY <1>1, <1>2, <1>3
     DEF ThreadTypeOK, Threads, Unbroken, Quiet, LastGiven, FreedLast, Grace, Window,
     HasData,
         Fed, HasPacket

\* The steps of block_cb around the put
LEMMA SteadyBlockCb ==
  ASSUME Steady, SteadyInv,
         BlockCb \/ TestAborted \/ BlockAlloc \/ TestCurrent \/ TestAndClearWaiting
  PROVE  Unbroken' /\ Quiet' /\ UNCHANGED <<current, offset, queue>>
<1>1. /\ ThreadTypeOK /\ HostPcs /\ Unbroken /\ Quiet /\ InBlockCb
      /\ ctx \in {"live", "freed"} /\ OpenIsLive
  BY DEF SteadyInv, Quiet, StreamInv, Sound, TypeOK, ContextTypeOK
<1> USE <1>1 DEF ThreadTypeOK, Threads, Unbroken, Quiet, LastGiven, FreedLast, Grace,
            Window,
            HasData, Fed, HasPacket, ctxVars, cloudVars, btVars, getVars, At, Goto, Return,
            InBlockCb, OpenIsLive
<1>2. CASE BlockCb
  BY <1>2 DEF BlockCb
<1>3. CASE TestAborted
  BY <1>3 DEF TestAborted
<1>4. CASE BlockAlloc
  BY <1>4 DEF BlockAlloc
<1>5. CASE TestCurrent
  <2>1. sdk \in {"open", "last"}
    OBVIOUS
  <2>2. /\ pc["cloud"] = "current?" /\ pc["bt"] = "idle"
        /\ \E p \in {"waiting?", "idle", "done"} :
             /\ pc' = [pc EXCEPT !["cloud"] = p]
             /\ p = "idle" <=> (current # NoBlock /\ sdk = "open")
             /\ p = "done" <=> (current # NoBlock /\ sdk = "last")
        /\ UNCHANGED <<ctx, flags, queue, current, offset, room, ret, sdk, lag, link, writes,
                       packetizer, finished, fault>>
    BY <1>5, <2>1 DEF TestCurrent
  <2>3. QED
    BY <2>1, <2>2
<1>6. CASE TestAndClearWaiting
  <2>1. sdk \in {"open", "last"}
    OBVIOUS
  <2>2. /\ pc["cloud"] = "waiting?" /\ pc["bt"] = "idle"
        /\ \E p \in {"start", "idle", "done"} :
             /\ pc' = [pc EXCEPT !["cloud"] = p]
             /\ p = "start" <=> "WAITING" \in flags
             /\ p = "idle" => sdk = "open"
             /\ p = "done" => sdk = "last"
             /\ sdk = "last" => p # "idle"
        /\ flags' = flags \ {"WAITING"}
        /\ UNCHANGED <<ctx, queue, current, offset, room, ret, sdk, lag, link, writes,
                       packetizer, finished, fault>>
    BY <1>6, <2>1 DEF TestAndClearWaiting
  <2>3. QED
    BY <2>1, <2>2
<1>7. QED
  BY <1>2, <1>3, <1>4, <1>5, <1>6

\* get_data finds the downlink incomplete, and the first pass finds a block.
LEMMA SteadyStart ==
  ASSUME Steady, SteadyInv, NEW t \in Threads, StartGet(t)
  PROVE  Unbroken' /\ Quiet' /\ UNCHANGED <<current, offset, queue>>
<1>1. /\ ThreadTypeOK /\ HostPcs /\ Unbroken /\ Quiet
  BY DEF SteadyInv, Quiet, StreamInv, Sound, TypeOK
<1>2. pc[t] = "start" /\ ctx = "live" /\ link = "up" /\ (t = "cloud" => pc["bt"] = "idle")
  BY Alive, SteadyUp DEF StartGet, At, SteadyInv, FreedLast, StreamInv, Sound, TypeOK,
     ContextTypeOK, Threads
<1>3. "COMPLETE" \notin flags
  BY <1>2 DEF SteadyInv, Fed, StreamInv, Drained, HasData, Threads
<1>4. /\ pc' = [pc EXCEPT ![t] = "fetch"]
      /\ UNCHANGED <<ctx, flags, queue, current, offset, ret, sdk, lag, link, writes,
                     packetizer, finished, fault>>
      /\ room' = [room EXCEPT ![t] = Room]
  BY <1>2, <1>3 DEF StartGet, Goto, ctxVars, cloudVars, btVars
<1>5. QED
  BY <1>1, <1>2, <1>4
     DEF ThreadTypeOK, Threads, Unbroken, Quiet, LastGiven, FreedLast, Grace, Window,
     HasData,
         Fed, HasPacket

LEMMA SteadyFetch ==
  ASSUME Steady, SteadyInv, NEW t \in Threads, Fetch(t)
  PROVE  Unbroken' /\ Quiet' /\ NoneEmpty'
<1>1. /\ ThreadTypeOK /\ HostPcs /\ Unbroken /\ Quiet /\ NoneEmpty /\ Handshake /\ RoomAssumption
      /\ queue \in Seq(Block) /\ OffsetInside /\ flags \subseteq {"COMPLETE", "ABORTED", "WAITING"}
  BY RoomAssumption DEF SteadyInv, Quiet, StreamInv, Sound, TypeOK, ContextTypeOK
<1>2. pc[t] = "fetch" /\ ctx = "live" /\ (t = "cloud" => pc["bt"] = "idle")
  BY Alive DEF Fetch, At, SteadyInv, UsesContext
<1>3. /\ UNCHANGED <<ctx, offset, room, sdk, lag, link, writes, packetizer, finished, fault>>
      /\ \/ /\ ~HasData /\ UNCHANGED <<queue, current>>
            /\ flags' = IF room[t] = Room THEN flags \union {"WAITING"} ELSE flags
            /\ ret' = [ret EXCEPT ![t] = "again"] /\ pc' = [pc EXCEPT ![t] = "send"]
         \/ /\ UNCHANGED <<flags, ret>> /\ pc' = [pc EXCEPT ![t] = "copy"]
            /\ \/ current # NoBlock /\ UNCHANGED <<queue, current>>
               \/ current = NoBlock /\ queue # <<>> /\ TakeNext
  BY <1>1 DEF Fetch, EmptyFlags, HasData, Unbroken, Goto, cloudVars, btVars
<1>4. CASE ~HasData
  <2>1. /\ UNCHANGED <<queue, current>>
        /\ flags' = IF room[t] = Room THEN flags \union {"WAITING"} ELSE flags
        /\ ret' = [ret EXCEPT ![t] = "again"] /\ pc' = [pc EXCEPT ![t] = "send"]
    BY <1>3, <1>4 DEF HasData
  <2>2. NoneEmpty'
    BY <1>1, <1>3, <2>1 DEF NoneEmpty
  <2>3. Unbroken' /\ LastGiven' /\ FreedLast'
    BY <1>1, <1>2, <1>3, <2>1 DEF ThreadTypeOK, Threads, Unbroken, Quiet, LastGiven,
       FreedLast
  <2>4. room[t] = Room => ~Window /\ t = "bt"
    BY <1>1, <1>2, <1>4 DEF Quiet, Grace, Fed, Window, Threads
  <2>5. Grace'
    BY <1>1, <1>2, <1>3, <2>1, <2>4
       DEF ThreadTypeOK, Threads, Quiet, Grace, Window, HasData
  <2>6. Fed'
    <3>1. t = "cloud" => room[t] < Room
      BY <1>1, <2>4 DEF ThreadTypeOK, Threads
    <3>2. QED
      BY <1>1, <1>2, <1>3, <2>1, <3>1
         DEF ThreadTypeOK, Threads, Quiet, Fed, HasData, HasPacket
  <2>7. QED
    BY <2>2, <2>3, <2>5, <2>6 DEF Quiet
<1>5. CASE HasData
  <2>1. /\ UNCHANGED <<flags, ret>> /\ pc' = [pc EXCEPT ![t] = "copy"]
        /\ \/ current # NoBlock /\ UNCHANGED <<queue, current>>
           \/ current = NoBlock /\ queue # <<>> /\ TakeNext
    BY <1>3, <1>5
  <2>2. NoneEmpty' /\ current' # NoBlock
    <3>1. CASE current # NoBlock /\ UNCHANGED <<queue, current>>
      BY <1>1, <1>3, <3>1 DEF NoneEmpty
    <3>2. CASE current = NoBlock /\ queue # <<>> /\ TakeNext
      <4>1. offset' = 0
        BY <1>1, <1>2, <1>3, <3>2 DEF OffsetInside
      <4>2. current' = Head(queue) /\ Head(queue) \in Block
        BY <1>1, <3>2, QueueTail DEF TakeNext
      <4>3. QED
        BY <3>2, <4>1, <4>2, NoneEmptyTake, NoBlockAssumption
    <3>3. QED
      BY <2>1, <3>1, <3>2
  <2>3. Unbroken' /\ LastGiven' /\ FreedLast'
    BY <1>1, <1>2, <1>3, <2>1 DEF ThreadTypeOK, Threads, Unbroken, Quiet, LastGiven,
       FreedLast
  <2>4. Grace'
    BY <1>1, <1>2, <1>3, <2>1, <2>2
       DEF ThreadTypeOK, Threads, Quiet, Grace, Window, HasData
  <2>5. Fed'
    BY <1>1, <1>2, <1>3, <2>1, <2>2
       DEF ThreadTypeOK, Threads, Quiet, Fed, HasData, HasPacket
  <2>6. QED
    BY <2>2, <2>3, <2>4, <2>5 DEF Quiet
<1>6. QED
  BY <1>4, <1>5

\* get_data goes on after a copy only with less room than it began with, since
\* the block it has ended was not empty.
LEMMA SteadyCopy ==
  ASSUME Steady, SteadyInv, NEW t \in Threads, Copy(t)
  PROVE  Unbroken' /\ Quiet' /\ NoneEmpty'
<1> DEFINE n == BytesToCopy(t)
           ends == offset + n = current.len
<1>1. /\ ThreadTypeOK /\ HostPcs /\ Unbroken /\ Quiet /\ NoneEmpty /\ Handshake /\ RoomAssumption
      /\ queue \in Seq(Block) /\ flags \subseteq {"COMPLETE", "ABORTED", "WAITING"}
  BY RoomAssumption DEF SteadyInv, Quiet, StreamInv, Sound, TypeOK, ContextTypeOK
<1>2. /\ pc[t] = "copy" /\ ctx = "live" /\ (t = "cloud" => pc["bt"] = "idle")
      /\ current # NoBlock
  BY Alive DEF Copy, At, SteadyInv, UsesContext
<1>3. /\ offset \in Nat /\ current \in Block /\ current.len \in Nat /\ offset <= current.len
      /\ room[t] \in 0 .. Room
  BY <1>1, <1>2, BlockLen
     DEF SteadyInv, StreamInv, Sound, TypeOK, ContextTypeOK, OffsetInside, ThreadTypeOK
<1>4. /\ n \in 0 .. room[t] /\ offset + n <= current.len
      /\ n = room[t] \/ n > 0 \/ current.last
  BY <1>1, <1>2, <1>3 DEF BytesToCopy, NoneEmpty
<1>5. /\ offset' = (IF ends THEN 0 ELSE offset + n)
      /\ ends => TakeNext
      /\ ~ends => UNCHANGED <<queue, current>>
      /\ room' = [room EXCEPT ![t] = @ - n]
      /\ flags' = (IF ends /\ current.last THEN flags \union {"COMPLETE"} ELSE flags)
      /\ \E r \in {"last", "ok"} : ret' = [ret EXCEPT ![t] = r]
      /\ \E p \in {"send", "fetch"} :
           /\ pc' = [pc EXCEPT ![t] = p]
           /\ p = "fetch" => ~(ends /\ current.last) /\ room[t] # n
      /\ UNCHANGED <<ctx, sdk, lag, link, writes, packetizer, finished, fault>>
  BY DEF Copy, OffsetAfter, Goto, cloudVars, btVars
<1>6. ends \/ n = room[t]
  BY <1>3 DEF BytesToCopy
<1>7. pc'[t] = "fetch" => room'[t] < Room
  BY <1>1, <1>3, <1>4, <1>5, <1>6 DEF ThreadTypeOK
<1> HIDE DEF n, ends
<1>8. NoneEmpty'
  <2>1. CASE ends
    BY <1>5, <2>1, NoneEmptyTake
  <2>2. CASE ~ends
    <3>1. UNCHANGED <<queue, current>> /\ offset' = offset + n
      BY <1>5, <2>2
    <3>2. offset + n < current.len
      BY <1>3, <1>4, <2>2 DEF ends
    <3>3. QED
      BY <1>1, <3>1, <3>2 DEF NoneEmpty
  <2>3. QED
    BY <2>1, <2>2
<1>9. "ABORTED" \notin flags' /\ ("WAITING" \in flags' => "WAITING" \in flags)
  BY <1>1, <1>5 DEF Unbroken
<1>10. \E p \in {"send", "fetch"}, r \in {"last", "ok"} :
         pc' = [pc EXCEPT ![t] = p] /\ ret' = [ret EXCEPT ![t] = r]
  BY <1>5
<1>11. Unbroken' /\ LastGiven' /\ FreedLast'
  BY <1>1, <1>2, <1>5, <1>9, <1>10
     DEF ThreadTypeOK, Threads, Unbroken, Quiet, LastGiven, FreedLast
<1>12. Grace'
  <2>1. "WAITING" \notin flags
    BY <1>1, <1>2 DEF Unbroken, Handshake, MayWrite
  <2>2. QED
    BY <1>1, <1>2, <1>5, <1>7, <1>9, <1>10, <2>1
       DEF ThreadTypeOK, Threads, Quiet, Grace, Window
<1>13. Fed'
  <2>1. t = "cloud" => Fed'
    BY <1>1, <1>2, <1>7, <1>10 DEF ThreadTypeOK, Threads, Quiet, Fed, HasPacket
  <2>2. t = "bt" => pc["cloud"] \notin GetPcs
    BY <1>1, <1>2 DEF Unbroken, Handshake, InCallback
  <2>3. t = "bt" => Fed'
    BY <1>1, <1>2, <1>10, <2>2 DEF ThreadTypeOK, Threads, Quiet, Fed, GetPcs
  <2>4. QED
    BY <2>1, <2>3 DEF Threads
<1>14. QED
  BY <1>8, <1>11, <1>12, <1>13 DEF Quiet

\* Once the downlink is complete block_cb has returned for the last time: if it had
\* not, write_response_cb would have found its block.
LEMMA SteadyComplete ==
  ASSUME Steady, SteadyInv, TestComplete
  PROVE  Unbroken' /\ Quiet' /\ NoneEmpty'
<1>1. /\ ThreadTypeOK /\ HostPcs /\ Unbroken /\ Quiet /\ NoneEmpty /\ Handshake /\ Drained
      /\ EndCbOnly
  BY DEF SteadyInv, Quiet, StreamInv, Sound, TypeOK
<1>2. pc["bt"] = "complete?" /\ ctx = "live"
  BY Alive DEF TestComplete, At, SteadyInv, UsesContext, Threads
<1>3. writes = 0 /\ packetizer = "live" /\ link = "up" /\ ~finished /\ pc["cloud"] \notin GetPcs
  BY <1>1, <1>2, SteadyUp DEF Handshake, InCallback, Unbroken, GetPcs
<1>4. CASE "COMPLETE" \in flags
  <2>1. queue = <<>> /\ current = NoBlock /\ sdk = "last"
    BY <1>1, <1>2, <1>4 DEF Drained, Unbroken, ThreadTypeOK
  <2>2. pc["cloud"] = "done"
    <3>1. ~Window
      BY <1>1, <1>2, <2>1 DEF Quiet, Grace, HasData
    <3>2. pc["cloud"] \notin {"idle", "abort?", "alloc", "put"}
      BY <1>1, <2>1 DEF Quiet, LastGiven
    <3>3. pc["cloud"] \notin {"endAbort", "endClose", "kick?"} \union ClosePcs
      BY <1>1 DEF Unbroken, Threads, ClosePcs
    <3>4. pc["cloud"] # "complete?"
      BY <1>1 DEF Quiet, FreedLast
    <3>5. QED
      BY <1>1, <1>3, <3>1, <3>2, <3>3, <3>4
         DEF Window, ThreadTypeOK, Threads, ContextPcs
  <2>3. /\ ctx' = "freed" /\ current' = NoBlock /\ pc' = [pc EXCEPT !["bt"] = "finish"]
        /\ UNCHANGED <<flags, queue, offset, room, ret, sdk, lag, link, writes, packetizer,
                       finished, fault>>
    BY <1>4 DEF TestComplete, CloseThen, CloseContext, Goto, getVars, cloudVars, btVars
  <2>4. NoneEmpty'
    BY <1>1, <2>3 DEF NoneEmpty
  <2>5. QED
    BY <1>1, <1>3, <2>2, <2>3, <2>4
       DEF ThreadTypeOK, Threads, Unbroken, Quiet, LastGiven, FreedLast, Grace, Window, Fed,
           HasPacket
<1>5. CASE "COMPLETE" \notin flags
  <2>1. /\ pc' = [pc EXCEPT !["bt"] = "start"]
        /\ UNCHANGED <<ctx, flags, queue, current, offset, room, ret, sdk, lag, link, writes,
                       packetizer, finished, fault>>
    BY <1>5 DEF TestComplete, Goto, ctxVars, getVars, cloudVars, btVars
  <2>2. NoneEmpty'
    BY <1>1, <2>1 DEF NoneEmpty
  <2>3. QED
    BY <1>1, <1>2, <1>3, <1>5, <2>1, <2>2
       DEF ThreadTypeOK, Threads, Unbroken, Quiet, LastGiven, FreedLast, Grace, Window,
       HasData,
           Fed, HasPacket
<1>6. QED
  BY <1>4, <1>5

LEMMA SteadyResponse ==
  ASSUME Steady, SteadyInv, WriteResponse(FALSE)
  PROVE  Unbroken' /\ Quiet' /\ UNCHANGED <<current, offset, queue>>
<1>1. /\ ThreadTypeOK /\ HostPcs /\ Unbroken /\ Quiet /\ writes \in Nat /\ MaxLag \in Nat
  BY BoundAssumption DEF SteadyInv, Quiet, StreamInv, Sound, TypeOK, LinkTypeOK
<1>2. /\ pc["bt"] = "idle" /\ writes > 0 /\ writes' = writes - 1
      /\ pc' = [pc EXCEPT !["bt"] = "complete?"]
      /\ BurstEnded \/ lag < MaxLag
      /\ lag' = IF BurstEnded THEN lag ELSE lag + 1
      /\ UNCHANGED <<ctx, flags, queue, current, offset, room, ret, sdk, link, packetizer,
                     finished, fault>>
  BY DEF WriteResponse, Goto, ctxVars, getVars, cloudVars
<1>3. lag' \in {0, 1}
  BY <1>1, <1>2 DEF Steady, Quiet, Grace
<1>4. Window => lag = 0 /\ lag' = 1
  BY <1>1, <1>2 DEF Steady, Quiet, Grace, Window, BurstEnded
<1>5. ctx # "freed"
  BY <1>1, <1>2 DEF Quiet, FreedLast
<1>6. QED
  BY <1>1, <1>2, <1>3, <1>4, <1>5
     DEF ThreadTypeOK, Threads, Unbroken, Quiet, LastGiven, FreedLast, Grace, Window,
     HasData,
         Fed, HasPacket

\* The end of a pass through write_downlink_characteristic, and of the session
LEMMA SteadyReturns ==
  ASSUME Steady, SteadyInv,
         (\E t \in Threads : Send(t)) \/ SendNothing("bt") \/ Finish("bt") \/ Disconnect \/ BtStop
         \/ UNCHANGED vars
  PROVE  Unbroken' /\ Quiet' /\ UNCHANGED <<current, offset, queue>>
<1>1. /\ ThreadTypeOK /\ HostPcs /\ Unbroken /\ Quiet /\ writes \in Nat /\ Handshake
      /\ ctx \in {"live", "freed"} /\ packetizer \in {"live", "freed"} /\ finished \in BOOLEAN
  BY DEF SteadyInv, Quiet, StreamInv, Sound, TypeOK, LinkTypeOK, ContextTypeOK
<1> USE <1>1 DEF ThreadTypeOK, Threads, Unbroken, Quiet, LastGiven, FreedLast, Grace,
            Window,
            HasData, Fed, HasPacket, ctxVars, cloudVars, btVars, getVars, At, Goto, Return
<1>2. ASSUME NEW t \in Threads, Send(t)
      PROVE  Unbroken' /\ Quiet' /\ UNCHANGED <<current, offset, queue>>
  <2>1. pc[t] = "send" /\ ctx = "live" /\ link = "up" /\ (t = "cloud" => pc["bt"] = "idle")
    BY <1>2, SteadyUp DEF Send
  <2>2. sdk \in {"open", "last"} /\ t \in {"cloud", "bt"}
    OBVIOUS
  <2>3. /\ \E p \in {"idle", "done"} :
             /\ pc' = [pc EXCEPT ![t] = p]
             /\ p = "done" <=> t = "cloud" /\ sdk # "open"
        /\ UNCHANGED <<ctx, flags, queue, current, offset, room, ret, sdk, lag, link,
                       packetizer, finished, fault>>
    BY <1>2, <2>1 DEF Send, Steady
  <2>4. QED
    BY <2>1, <2>2, <2>3
<1>3. CASE SendNothing("bt")
  <2>1. /\ pc["bt"] = "send" /\ pc' = [pc EXCEPT !["bt"] = "idle"]
        /\ UNCHANGED <<ctx, flags, queue, current, offset, room, ret, sdk, lag, link, writes,
                       packetizer, finished, fault>>
    BY <1>3 DEF SendNothing
  <2>2. QED
    BY <2>1
<1>4. CASE Finish("bt")
  BY <1>4 DEF Finish
<1>5. CASE Disconnect
  BY <1>5 DEF Disconnect, Steady
<1>6. CASE BtStop
  BY <1>6 DEF BtStop
<1>7. CASE UNCHANGED vars
  BY <1>7 DEF vars
<1>8. QED
  BY <1>2, <1>3, <1>4, <1>5, <1>6, <1>7

LEMMA SteadyStep ==
  ASSUME Steady, SteadyInv, [Next]_vars
  PROVE  SteadyInv'
<1>1. StreamInv' /\ WakeInv'
  BY StreamInvStep, WakeStep DEF SteadyInv
<1>2. Unbroken' /\ Quiet' /\ UNCHANGED <<current, offset, queue>> => SteadyInv'
  BY <1>1 DEF SteadyInv, Quiet, NoneEmpty
<1>3. Unbroken' /\ Quiet' /\ NoneEmpty' => SteadyInv'
  BY <1>1 DEF SteadyInv, Quiet
<1>4. ASSUME NEW len \in Lens \union {0}, NEW last \in BOOLEAN, PutBlock(len, last)
      PROVE  SteadyInv'
  BY <1>3, <1>4, SteadyPut, NoneEmptyPut
<1>5. ASSUME BlockCb \/ TestAborted \/ BlockAlloc \/ TestCurrent \/ TestAndClearWaiting
      PROVE  SteadyInv'
  BY <1>2, <1>5, SteadyBlockCb
<1>6. ASSUME NEW t \in Threads, StartGet(t) PROVE SteadyInv'
  BY <1>2, <1>6, SteadyStart
<1>7. ASSUME NEW t \in Threads, Fetch(t) \/ Copy(t) PROVE SteadyInv'
  BY <1>3, <1>7, SteadyFetch, SteadyCopy
<1>8. CASE TestComplete
  BY <1>3, <1>8, SteadyComplete
<1>9. ASSUME NEW err \in BOOLEAN, WriteResponse(err) PROVE SteadyInv'
  BY <1>2, <1>9, SteadyResponse, SteadyNever
<1>10. ASSUME \/ \E t \in Threads : Send(t)
              \/ SendNothing("bt") \/ Finish("bt") \/ Disconnect \/ BtStop \/ UNCHANGED vars
       PROVE  SteadyInv'
  BY <1>2, <1>10, SteadyReturns
<1>11. QED
  BY <1>4, <1>5, <1>6, <1>7, <1>8, <1>9, <1>10, SteadyNever
     DEF Next, CloudStep, BtStep, Response, WriteCharacteristic, ErrorPath, Ended, Threads

LEMMA SteadyAlways == Steady => (Spec => []SteadyInv)
<1>1. Init => SteadyInv
  BY SteadyInit
<1>2. ASSUME Steady PROVE SteadyInv /\ [Next]_vars => SteadyInv'
  BY <1>2, SteadyStep
<1>3. ASSUME Steady PROVE Spec => []SteadyInv
  <2>1. SteadyInv /\ [Next]_vars => SteadyInv'
    BY <1>2, <1>3
  <2>2. QED
    BY <1>1, <2>1, PTL DEF Spec
<1>4. QED
  BY <1>3

\* Where nothing fails and block_cb is not overtaken by two responses, no thread
\* uses memory that the other has freed: the context is freed by the response to
\* the last packet, after the last block_cb has returned, and the packetizer after
\* the context.
THEOREM SteadyMemorySafe == Steady => (Spec => []MemorySafe)
<1>1. SteadyInv => MemorySafe
  BY DEF SteadyInv, Unbroken, MemorySafe
<1>2. ASSUME Steady PROVE Spec => []MemorySafe
  <2>1. Spec => []SteadyInv
    BY <1>2, SteadyAlways
  <2>2. QED
    BY <1>1, <2>1, PTL
<1>3. QED
  BY <1>2

\* There data_available_cb is called only when there is a block to send, so that
\* downlink_data_available never takes -ENODATA for a failure.
THEOREM SteadyKickHasData == Steady => (Spec => []KickHasData)
<1>1. SteadyInv => KickHasData
  <2>1. SUFFICES ASSUME SteadyInv, HasData PROVE Unread # <<>>
    BY DEF SteadyInv, Fed, KickHasData
  <2>2. queue \in Seq(Block) /\ current \in Block \union {NoBlock}
    BY <2>1 DEF SteadyInv, StreamInv, Sound, TypeOK, ContextTypeOK
  <2>3. QED
    BY <2>1, <2>2, UnreadQueue, UnreadCurrent DEF HasData
<1>2. ASSUME Steady PROVE Spec => []KickHasData
  <2>1. Spec => []SteadyInv
    BY <1>2, SteadyAlways
  <2>2. QED
    BY <1>1, <2>1, PTL
<1>3. QED
  BY <1>2
=============================================================================
