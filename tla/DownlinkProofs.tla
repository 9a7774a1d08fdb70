--------------------------- MODULE DownlinkProofs ---------------------------
(***************************************************************************)
(* Proofs about Downlink, for every pool size, block length, GATT payload  *)
(* and environment.                                                        *)
(*                                                                         *)
(* Two inductive invariants:                                               *)
(*   - Sound: the types, the accounting of the pool, and the facts about   *)
(*     the context that keep every variable in its type;                   *)
(*   - Handshake: who may read the queue under the CLIENT_WAITING          *)
(*     protocol, which is SingleConsumer strengthened with what the bit    *)
(*     CLIENT_WAITING and an outstanding write exclude.                    *)
(***************************************************************************)
EXTENDS Downlink, SequenceTheorems, TLAPS

\* get_data never stands beyond the end of the current block.
OffsetInside ==
  ctx = "live" =>
    /\ current = NoBlock => offset = 0
    /\ current # NoBlock => offset <= current.len

\* block_cb runs only for a request that is open and has given a block.
InBlockCb ==
  pc["cloud"] \in {"abort?", "alloc", "put"} => count > 0 /\ sdk = "open"

\* The block that close has freed stays in current_block until the context is freed.
Dangles == pc["cloud"] = "freeRest" /\ ctx = "live" => current # NoBlock

\* The CoAP thread closes a context whose queue is empty: nobody can load a block
\* into current_block behind its test.
ClosedEmpty ==
  /\ pc["cloud"] \in ClosePcs \ {"flush"} => queue = <<>>
  /\ pc["cloud"] = "freeCtx" => current = NoBlock

Sound ==
  TypeOK /\ PoolAccounted /\ OffsetInside /\ InBlockCb /\ Dangles /\ ClosedEmpty

\* COMPLETE is set for a downlink that is empty and stays so.
Drained ==
  ctx = "live" /\ "COMPLETE" \in flags =>
    sdk # "open" /\ queue = <<>> /\ current = NoBlock

USE PoolAssumption, LensAssumption, RoomAssumption, BoundAssumption, NoBlockAssumption

\* What the handshake allows while the request has not ended in an error: one
\* write at most, and whoever reads the queue or holds CLIENT_WAITING is alone.
MayWrite(t) ==
  \/ pc[t] \in {"start", "fetch", "copy"}
  \/ pc[t] = "complete?" /\ t = "bt"
  \/ pc[t] = "send" /\ HasPacket(t)

Handshake ==
  sdk # "error" =>
    /\ writes \in {0, 1}
    /\ pc["bt"] # "idle" => writes = 0
    /\ InCallback => writes = 0 /\ pc["bt"] = "idle"
    /\ "WAITING" \in flags => writes = 0 /\ \A t \in Threads : ~MayWrite(t)

\* end_cb goes beyond its first test only for a request that ended in an error.
EndCbOnly ==
  /\ pc["cloud"] \in {"endAbort", "endClose", "kick?"} => sdk = "error"
  /\ pc["cloud"] \in ClosePcs /\ exit = "kick?" => sdk = "error"

LEMMA InitSound == Init => Sound
<1> SUFFICES ASSUME Init PROVE Sound
  OBVIOUS
<1> USE DEF Init, OpenContext, Threads
<1>1. ContextTypeOK
  BY DEF ContextTypeOK, Block
<1>2. ThreadTypeOK
  <2>1. pc \in [Threads -> {"idle", "complete?"} \union ContextPcs \union GetPcs
                               \union ClosePcs]
    OBVIOUS
  <2> QED
    BY <2>1 DEF ThreadTypeOK
<1>3. LinkTypeOK
  BY DEF LinkTypeOK
<1>4. PoolAccounted /\ OffsetInside /\ InBlockCb /\ Dangles /\ ClosedEmpty
  BY DEF PoolAccounted, OffsetInside, InBlockCb, Dangles, ClosedEmpty, ClosePcs, HeldBlocks
<1> QED
  BY <1>1, <1>2, <1>3, <1>4 DEF Sound, TypeOK

LEMMA BlockLen == \A b \in Block : b.len \in Nat
<1> TAKE b \in Block
<1>1. CASE b.len \in Lens
  BY <1>1, LensAssumption
<1>2. CASE b.len = 0
  BY <1>2
<1> QED
  BY <1>1, <1>2 DEF Block

\* What closing may add to the slab is still missing from it.
LEMMA PoolBound ==
  ASSUME Sound
  PROVE  /\ Len(queue) \in Nat
         /\ HeldBlocks \in {0, 1}
         /\ free + Len(queue) + HeldBlocks <= NumBlocks
<1>1. Len(queue) \in Nat /\ free \in Nat
  BY DEF Sound, TypeOK, ContextTypeOK
<1>2. HeldBlocks \in {0, 1}
  BY DEF HeldBlocks
<1>3. \E put \in {0, 1} : free + Len(queue) + HeldBlocks + put = NumBlocks
  BY DEF Sound, PoolAccounted
<1> QED
  BY <1>1, <1>2, <1>3

\* What a thread does elsewhere does not release the current block.
LEMMA HeldSame ==
  ASSUME UNCHANGED current, pc'["cloud"] = "freeRest" <=> pc["cloud"] = "freeRest"
  PROVE  HeldBlocks' = HeldBlocks
BY DEF HeldBlocks

\* k_fifo_get moves a block of the queue, if there is one, to current_block.
LEMMA TakeNextMoves ==
  ASSUME queue \in Seq(Block), TakeNext, pc'["cloud"] # "freeRest"
  PROVE  /\ queue' \in Seq(Block)
         /\ current' \in Block \union {NoBlock}
         /\ Len(queue') + HeldBlocks' = Len(queue)
<1>1. CASE queue = <<>>
  BY <1>1 DEF TakeNext, HeldBlocks
<1>2. CASE queue # <<>>
  <2>1. Head(queue) \in Block /\ Tail(queue) \in Seq(Block)
        /\ Len(Tail(queue)) = Len(queue) - 1 /\ Len(queue) \in Nat
    BY <1>2
  <2>2. queue' = Tail(queue) /\ current' = Head(queue) /\ current' # NoBlock
    BY <1>2, <2>1 DEF TakeNext
  <2>3. HeldBlocks' = 1
    BY <2>2 DEF HeldBlocks
  <2> QED
    BY <2>1, <2>2, <2>3
<1> QED
  BY <1>1, <1>2

\* Closing puts what the context holds back into the slab.
LEMMA CloseSound ==
  ASSUME Sound, CloseContext, UNCHANGED read
  PROVE  /\ ContextTypeOK' /\ OffsetInside'
         /\ free' + Len(queue') + HeldBlocks' = free + Len(queue) + HeldBlocks
<1>1. /\ free' \in 0 .. NumBlocks
      /\ free' + Len(queue') + HeldBlocks' = free + Len(queue) + HeldBlocks
  <2>1. HeldBlocks' = 0
    BY DEF CloseContext, HeldBlocks
  <2>2. QED
    BY <2>1, PoolBound DEF CloseContext, Sound, TypeOK, ContextTypeOK
<1>2. ContextTypeOK'
  BY <1>1 DEF CloseContext, Sound, TypeOK, ContextTypeOK
<1>3. OffsetInside'
  BY DEF CloseContext, OffsetInside
<1> QED
  BY <1>1, <1>2, <1>3

\* Steps that neither begin nor go on with a close on the CoAP thread
SameClose ==
  \/ pc'["cloud"] = pc["cloud"]
  \/ pc'["cloud"] \notin ClosePcs /\ pc["cloud"] \notin ClosePcs

LEMMA SameCloseSound ==
  ASSUME Sound, SameClose, UNCHANGED ctx,
         \/ UNCHANGED <<queue, current>>
         \/ pc["cloud"] \notin ClosePcs
         \/ current = NoBlock /\ TakeNext
  PROVE  Dangles' /\ ClosedEmpty'
BY DEF Sound, SameClose, Dangles, ClosedEmpty, TakeNext, ClosePcs

\* Steps that leave the context and the slab alone
LEMMA SameContextSound ==
  ASSUME Sound, SameClose, ThreadTypeOK', LinkTypeOK', InBlockCb',
         pc'["cloud"] = "put" <=> pc["cloud"] = "put", UNCHANGED <<ctxVars, free, read>>
  PROVE  Sound'
<1>1. HeldBlocks' = HeldBlocks /\ Dangles' /\ ClosedEmpty'
  BY SameCloseSound, HeldSame DEF SameClose, ClosePcs, ctxVars
<1>2. PoolAccounted' /\ ContextTypeOK' /\ OffsetInside'
  BY <1>1 DEF Sound, TypeOK, PoolAccounted, ContextTypeOK, OffsetInside, ctxVars
<1>3. QED
  BY <1>1, <1>2 DEF Sound, TypeOK

\* Closing on the CoAP thread frees nothing yet.
LEMMA CloseThenSound ==
  ASSUME Sound, Drained, NEW t \in Threads, NEW p \in {"finish", "kick?"}, CloseThen(t, p),
         Misuse(t) = "none", "COMPLETE" \in flags, pc[t] \in {"close", "endClose", "complete?"},
         UNCHANGED <<getVars, sdk, count, lag, btVars, read, fault>>
  PROVE  Sound'
<1>1. ThreadTypeOK' /\ LinkTypeOK' /\ InBlockCb'
      /\ (pc'["cloud"] = "put" <=> pc["cloud"] = "put")
  BY DEF CloseThen, Sound, TypeOK, ThreadTypeOK, LinkTypeOK, InBlockCb, Threads, ContextPcs,
         GetPcs, ClosePcs, Goto, getVars, btVars
<1>0. ctx = "live" /\ queue = <<>> /\ current = NoBlock
  BY DEF Misuse, UsesContext, Drained, Sound, TypeOK, ContextTypeOK
<1>2. CASE t = "bt"
  <2>1. ctx' = "freed" /\ current' = NoBlock /\ queue' = queue /\ pc'["cloud"] = pc["cloud"]
    BY <1>2 DEF CloseThen, CloseContext, Goto, Sound, TypeOK, ThreadTypeOK, Threads
  <2>2. Dangles' /\ ClosedEmpty'
    BY <1>0, <2>1 DEF Dangles, ClosedEmpty
  <2>3. QED
    BY <1>1, <1>2, <2>2, CloseSound DEF CloseThen, Sound, TypeOK, PoolAccounted
<1>3. CASE t = "cloud"
  <2>1. pc'["cloud"] = "held?" /\ UNCHANGED <<ctxVars, free>>
    BY <1>3 DEF CloseThen, Goto, Sound, TypeOK, ThreadTypeOK, Threads
  <2>2. HeldBlocks' = HeldBlocks
    BY <1>3, <2>1, HeldSame DEF ctxVars
  <2>3. QED
    BY <1>0, <1>1, <2>1, <2>2
       DEF Sound, TypeOK, PoolAccounted, ContextTypeOK, OffsetInside, Dangles, ClosedEmpty,
           ctxVars
<1>4. QED
  BY <1>2, <1>3 DEF Threads

LEMMA CloseIfCompleteSound ==
  ASSUME Sound, Drained, NEW t \in Threads, CloseIfComplete(t)
  PROVE  Sound'
<1>1. PICK hop \in {<<"close", "finish">>, <<"endClose", "kick?">>} :
        /\ pc[t] = hop[1] /\ Misuse(t) = "none"
        /\ IF "COMPLETE" \in flags
             THEN CloseThen(t, hop[2])
             ELSE Goto(t, hop[2]) /\ UNCHANGED <<ctxVars, free, exit>>
        /\ UNCHANGED <<getVars, sdk, count, lag, btVars, read, fault>>
  BY DEF CloseIfComplete, At
<1>2. CASE "COMPLETE" \in flags
  BY <1>1, <1>2, CloseThenSound
<1>3. CASE "COMPLETE" \notin flags
  <2>1. /\ ThreadTypeOK' /\ LinkTypeOK' /\ InBlockCb' /\ SameClose
        /\ pc'["cloud"] = "put" <=> pc["cloud"] = "put"
    BY <1>1, <1>3
       DEF Sound, TypeOK, ThreadTypeOK, LinkTypeOK, InBlockCb, SameClose, Threads,
       ContextPcs,
           GetPcs, ClosePcs, Goto, getVars, btVars
  <2>2. QED
    BY <1>1, <1>3, <2>1, SameContextSound
<1> QED
  BY <1>2, <1>3

LEMMA TestCompleteSound == ASSUME Sound, Drained, TestComplete PROVE Sound'
<1>1. CASE "COMPLETE" \in flags
  BY <1>1, CloseThenSound DEF TestComplete, At, Threads
<1>2. CASE "COMPLETE" \notin flags
  <2>1. /\ ThreadTypeOK' /\ LinkTypeOK' /\ InBlockCb' /\ SameClose
        /\ pc'["cloud"] = "put" <=> pc["cloud"] = "put"
    BY <1>2
       DEF TestComplete, Sound, TypeOK, ThreadTypeOK, LinkTypeOK, InBlockCb, SameClose,
       Threads,
           ContextPcs, GetPcs, ClosePcs, Goto, getVars, btVars
  <2>2. QED
    BY <1>2, <2>1, SameContextSound DEF TestComplete
<1> QED
  BY <1>1, <1>2

\* One block of the queue goes back into the slab.
LEMMA FlushOneSound == ASSUME Sound, FlushOne PROVE Sound'
<1>1. /\ ThreadTypeOK' /\ LinkTypeOK' /\ InBlockCb' /\ Dangles' /\ OffsetInside'
      /\ pc["cloud"] = "flush" /\ pc'["cloud"] \in {"flush", "held?"} /\ ClosedEmpty'
  BY DEF FlushOne, At, Sound, TypeOK, ThreadTypeOK, LinkTypeOK, InBlockCb, Dangles,
         ClosedEmpty, OffsetInside, Threads, ContextPcs, GetPcs, ClosePcs, Goto, getVars,
         cloudVars, btVars
<1>2. HeldBlocks' = HeldBlocks
  BY <1>1, HeldSame DEF FlushOne
<1>3. queue' \in Seq(Block) /\ Len(queue') \in Nat /\ free' \in Nat
      /\ free' + Len(queue') = free + Len(queue)
  <2>1. queue \in Seq(Block) /\ Len(queue) \in Nat /\ free \in Nat
    BY DEF Sound, TypeOK, ContextTypeOK
  <2>2. CASE queue = <<>>
    BY <2>1, <2>2 DEF FlushOne
  <2>3. CASE queue # <<>>
    <3>1. queue' = Tail(queue) /\ free' = free + 1
      BY <2>3 DEF FlushOne
    <3>2. Tail(queue) \in Seq(Block) /\ Len(Tail(queue)) = Len(queue) - 1
      BY <2>1, <2>3
    <3>3. QED
      BY <2>1, <3>1, <3>2
  <2>4. QED
    BY <2>2, <2>3
<1>4. free' <= NumBlocks
  BY <1>2, <1>3, PoolBound, PoolAssumption
<1>5. PoolAccounted'
  BY <1>1, <1>2, <1>3, PoolBound DEF Sound, TypeOK, ContextTypeOK, PoolAccounted
<1>6. ContextTypeOK'
  BY <1>3, <1>4, PoolAssumption DEF FlushOne, Sound, TypeOK, ContextTypeOK
<1>7. QED
  BY <1>1, <1>5, <1>6 DEF Sound, TypeOK

LEMMA CloseStepSound ==
  ASSUME Sound, TestHeld \/ FreeHeld \/ FreeContext
  PROVE  Sound'
<1>1. ThreadTypeOK' /\ LinkTypeOK' /\ InBlockCb' /\ pc["cloud"] # "put" /\ pc'["cloud"] # "put"
  BY DEF TestHeld, FreeHeld, FreeContext, At, Sound, TypeOK, ThreadTypeOK, LinkTypeOK,
         InBlockCb, Threads, ContextPcs, GetPcs, ClosePcs, Goto, getVars, cloudVars, btVars
<1>2. CASE TestHeld
  <2>1. pc["cloud"] = "held?" /\ pc'["cloud"] # "freeRest" /\ UNCHANGED <<ctxVars, free, read>>
    BY <1>2 DEF TestHeld, At, Goto, Sound, TypeOK, ThreadTypeOK, Threads
  <2>2. HeldBlocks' = HeldBlocks
    BY <2>1, HeldSame DEF ctxVars
  <2>3. Dangles' /\ ClosedEmpty'
    BY <1>2, <2>1 DEF TestHeld, Goto, Sound, TypeOK, ThreadTypeOK, Threads, Dangles,
       ClosedEmpty,
                      ClosePcs, ctxVars
  <2>4. PoolAccounted' /\ ContextTypeOK' /\ OffsetInside'
    BY <1>1, <2>1, <2>2 DEF Sound, TypeOK, PoolAccounted, ContextTypeOK, OffsetInside,
       ctxVars
  <2>5. QED
    BY <1>1, <2>3, <2>4 DEF Sound, TypeOK
<1>3. CASE FreeHeld
  <2>1. /\ pc["cloud"] = "release" /\ pc'["cloud"] = "freeRest" /\ current # NoBlock
        /\ UNCHANGED <<ctxVars, read>> /\ free' = free + 1
    BY <1>3 DEF FreeHeld, At, Misuse, UsesBlock, BlockGone, UsesContext, ClosePcs, Goto,
       Sound,
                TypeOK, ThreadTypeOK, ContextTypeOK, LinkTypeOK, Threads
  <2>2. HeldBlocks = 1 /\ HeldBlocks' = 0
    BY <2>1 DEF HeldBlocks
  <2>3. free' + Len(queue) = NumBlocks /\ Len(queue) \in Nat /\ free' \in Nat
    BY <1>1, <2>1, <2>2 DEF Sound, TypeOK, ContextTypeOK, PoolAccounted
  <2>4. PoolAccounted' /\ free' \in 0 .. NumBlocks
    BY <1>1, <2>1, <2>2, <2>3, PoolAssumption DEF PoolAccounted, ctxVars
  <2>5. QED
    BY <1>1, <2>1, <2>4 DEF Sound, TypeOK, ContextTypeOK, OffsetInside, Dangles,
       ClosedEmpty,
                            ClosePcs, ctxVars
<1>4. CASE FreeContext
  <2>1. PICK p \in {"freeCtx", "freeRest"} :
          /\ pc["cloud"] = p /\ ctx = "live" /\ ctx' = "freed" /\ current' = NoBlock
          /\ UNCHANGED <<flags, queue, offset, free, read>>
          /\ pc'["cloud"] = IF exit = "late" THEN "done" ELSE exit
    BY <1>4 DEF FreeContext, At, Misuse, UsesContext, ClosePcs, Goto, Sound, TypeOK,
                ContextTypeOK, ThreadTypeOK, Threads
  <2>2. HeldBlocks = 0 /\ HeldBlocks' = 0
    BY <2>1 DEF HeldBlocks, Sound, ClosedEmpty
  <2>3. (IF exit = "late" THEN "done" ELSE exit) \notin ClosePcs
    BY DEF Sound, TypeOK, ThreadTypeOK, ClosePcs
  <2>4. QED
    BY <1>1, <2>1, <2>2, <2>3 DEF Sound, TypeOK, PoolAccounted, ContextTypeOK, OffsetInside,
                                  Dangles, ClosedEmpty, ClosePcs
<1>5. QED
  BY <1>2, <1>3, <1>4

LEMMA SendSound == ASSUME Sound, NEW t \in Threads, Send(t) PROVE Sound'
<1> USE DEF Send
<1>1. ThreadTypeOK'
  BY DEF Sound, TypeOK, ThreadTypeOK, Threads, ContextPcs, GetPcs, Goto, Return,
         getVars, cloudVars
<1>2. LinkTypeOK'
  BY DEF Sound, TypeOK, LinkTypeOK
<1>3. InBlockCb' /\ (pc'["cloud"] = "put" <=> pc["cloud"] = "put") /\ SameClose
  BY DEF Sound, TypeOK, ThreadTypeOK, InBlockCb, Threads, At, Goto, Return, cloudVars,
         SameClose, ClosePcs
<1> QED
  BY <1>1, <1>2, <1>3, SameContextSound

LEMMA FetchSound == ASSUME Sound, NEW t \in Threads, Fetch(t) PROVE Sound'
<1> USE DEF Fetch
<1>1. ThreadTypeOK'
  BY DEF Sound, TypeOK, ThreadTypeOK, Threads, ContextPcs, GetPcs, Goto, cloudVars
<1>2. LinkTypeOK'
  BY DEF Sound, TypeOK, LinkTypeOK, btVars
<1>3. InBlockCb' /\ (pc'["cloud"] = "put" <=> pc["cloud"] = "put") /\ SameClose
  BY DEF Sound, TypeOK, ThreadTypeOK, InBlockCb, Threads, At, Goto, cloudVars, SameClose,
         ClosePcs
<1>4. /\ ctx = "live" /\ ctx' = ctx /\ offset' = offset /\ free' = free /\ read' = read
      /\ flags' \subseteq {"COMPLETE", "ABORTED", "WAITING"}
  BY DEF Sound, TypeOK, ContextTypeOK, At, Misuse, UsesContext, EmptyFlags
<1>5. CASE current = NoBlock /\ queue # <<>>
  <2>1. TakeNext /\ offset = 0
    BY <1>4, <1>5 DEF Sound, OffsetInside
  <2>2. /\ queue' \in Seq(Block) /\ current' \in Block \union {NoBlock}
        /\ Len(queue') + HeldBlocks' = Len(queue) + HeldBlocks
    <3>1. HeldBlocks = 0 /\ Len(queue) \in Nat
      BY <1>5, PoolBound DEF HeldBlocks
    <3>2. pc'["cloud"] # "freeRest"
      BY <1>3, <1>4, <1>5 DEF Sound, Dangles, SameClose, ClosePcs
    <3> QED
      BY <2>1, <3>1, <3>2, TakeNextMoves DEF Sound, TypeOK, ContextTypeOK
  <2>3. OffsetInside'
    BY <1>4, <2>1, <2>2, BlockLen DEF OffsetInside
  <2>4. ContextTypeOK'
    BY <1>4, <2>2 DEF Sound, TypeOK, ContextTypeOK
  <2>5. PoolAccounted'
    <3>1. /\ Len(queue') \in Nat /\ HeldBlocks' \in {0, 1} /\ Len(queue) \in Nat
          /\ HeldBlocks \in {0, 1} /\ free \in Nat
      BY <2>2, PoolBound DEF HeldBlocks, Sound, TypeOK, ContextTypeOK
    <3> QED
      BY <1>3, <1>4, <2>2, <3>1 DEF Sound, PoolAccounted
  <2>6. Dangles' /\ ClosedEmpty'
    BY <1>3, <1>4, <1>5, <2>1, SameCloseSound
  <2> QED
    BY <1>1, <1>2, <1>3, <2>3, <2>4, <2>5, <2>6 DEF Sound, TypeOK
<1>6. CASE ~(current = NoBlock /\ queue # <<>>)
  <2>1. UNCHANGED <<queue, current>>
    BY <1>6
  <2>2. Dangles' /\ ClosedEmpty' /\ HeldBlocks' = HeldBlocks
    BY <1>3, <1>4, <2>1, SameCloseSound, HeldSame DEF SameClose, ClosePcs
  <2> QED
    BY <1>1, <1>2, <1>3, <1>4, <2>1, <2>2
       DEF Sound, TypeOK, PoolAccounted, ContextTypeOK, OffsetInside
<1> QED
  BY <1>5, <1>6

LEMMA CopySound == ASSUME Sound, NEW t \in Threads, Copy(t) PROVE Sound'
<1> DEFINE n == BytesToCopy(t)
           ends == offset + n = current.len
<1>1. /\ ctx = "live" /\ current \in Block /\ offset \in Nat /\ offset <= current.len
      /\ current.len \in Nat /\ current.seq \in 1 .. MaxBlocks /\ room[t] \in 0 .. Room
      /\ current # NoBlock /\ pc["cloud"] \notin {"freeCtx", "freeRest"}
  BY LensAssumption, RoomAssumption
     DEF Copy, At, Misuse, UsesContext, UsesBlock, BlockGone, Block, Sound, TypeOK,
         ContextTypeOK, ThreadTypeOK, OffsetInside, ClosedEmpty, Threads
<1>2. n \in Nat /\ n <= room[t] /\ offset + n <= current.len
  BY <1>1, RoomAssumption DEF BytesToCopy
<1>3. /\ offset' = (IF ends THEN 0 ELSE offset + n)
      /\ room' = [room EXCEPT ![t] = @ - n]
      /\ read' = [seq |-> current.seq, off |-> offset + n]
      /\ flags' \in {flags, flags \union {"COMPLETE"}}
      /\ \E r \in {"last", "ok"} : ret' = [ret EXCEPT ![t] = r]
      /\ \E p \in {"send", "fetch"} : Goto(t, p)
      /\ pc[t] = "copy"
      /\ UNCHANGED <<ctx, sdk, count, lag, link, writes, packetizer, finished, fault>>
  BY DEF Copy, At, OffsetAfter, cloudVars, btVars
<1>a. pc'["cloud"] \notin {"freeCtx", "freeRest"} /\ SameClose
  BY <1>1, <1>3 DEF Goto, Sound, TypeOK, ThreadTypeOK, Threads, SameClose, ClosePcs
<1>b. UNCHANGED exit
  BY DEF Copy, cloudVars
<1>4. /\ queue' \in Seq(Block) /\ current' \in Block \union {NoBlock}
      /\ free' \in Nat
      /\ free' + Len(queue') + HeldBlocks' = free + Len(queue) + HeldBlocks
      /\ ~ends => current' = current
  <2>1. HeldBlocks = 1 /\ queue \in Seq(Block) /\ Len(queue) \in Nat /\ free \in Nat
    BY <1>1, NoBlockAssumption DEF HeldBlocks, Sound, TypeOK, ContextTypeOK
  <2>2. CASE ends
    <3>1. TakeNext /\ free' = free + 1
      BY <2>2 DEF Copy
    <3>2. /\ queue' \in Seq(Block) /\ current' \in Block \union {NoBlock}
          /\ Len(queue') + HeldBlocks' = Len(queue)
      BY <1>a, <2>1, <3>1, TakeNextMoves
    <3>3. Len(queue') \in Nat /\ HeldBlocks' \in {0, 1}
      BY <3>2 DEF HeldBlocks
    <3> QED
      BY <2>1, <2>2, <3>1, <3>2, <3>3
  <2>3. CASE ~ends
    <3>1. queue' = queue /\ current' = current /\ free' = free
      BY <2>3 DEF Copy
    <3> QED
      BY <1>1, <1>a, <2>1, <3>1 DEF HeldBlocks
  <2> QED
    BY <2>2, <2>3
<1> HIDE DEF n, ends
<1>5. InBlockCb' /\ (pc'["cloud"] = "put" <=> pc["cloud"] = "put")
  BY <1>3 DEF Sound, TypeOK, ThreadTypeOK, InBlockCb, Threads, Goto
<1>6. PoolAccounted'
  BY <1>4, <1>5 DEF Sound, PoolAccounted
<1>7. free' \in 0 .. NumBlocks
  <2>1. Len(queue') \in Nat /\ HeldBlocks' \in {0, 1}
    BY <1>4 DEF HeldBlocks
  <2> QED
    BY <1>4, <2>1, PoolBound, PoolAssumption
<1>8. ContextTypeOK'
  <2>1. offset' \in Nat /\ read' \in [seq: 0 .. MaxBlocks, off: Nat]
    BY <1>1, <1>2, <1>3, BoundAssumption
  <2> QED
    BY <1>3, <1>4, <1>7, <2>1 DEF Sound, TypeOK, ContextTypeOK
<1>9. ThreadTypeOK'
  <2>1. room' \in [Threads -> 0 .. Room]
    BY <1>1, <1>2, <1>3, RoomAssumption DEF Sound, TypeOK, ThreadTypeOK
  <2> QED
    BY <1>3, <1>b, <2>1 DEF Sound, TypeOK, ThreadTypeOK, Threads, Goto, GetPcs
<1>10. LinkTypeOK'
  BY <1>3 DEF Sound, TypeOK, LinkTypeOK
<1>11. OffsetInside'
  <2>1. CASE ends
    BY <1>3, <1>4, <2>1, BlockLen DEF OffsetInside
  <2>2. CASE ~ends
    BY <1>1, <1>2, <1>3, <1>4, <2>2, NoBlockAssumption DEF OffsetInside
  <2> QED
    BY <2>1, <2>2
<1>12. Dangles' /\ ClosedEmpty'
  <2>1. Dangles'
    BY <1>a DEF Dangles
  <2>2. CASE pc'["cloud"] \in ClosePcs \ {"flush"}
    <3>1. queue = <<>>
      BY <1>a, <2>2 DEF Sound, ClosedEmpty, SameClose
    <3>2. queue' = <<>>
      BY <3>1 DEF Copy, TakeNext
    <3>3. QED
      BY <1>a, <2>1, <3>2 DEF ClosedEmpty
  <2>3. QED
    BY <1>a, <2>1, <2>2 DEF ClosedEmpty
<1> QED
  BY <1>5, <1>6, <1>8, <1>9, <1>10, <1>11, <1>12 DEF Sound, TypeOK

LEMMA FinishSound == ASSUME Sound, NEW t \in Threads, Finish(t) PROVE Sound'
<1>1. ThreadTypeOK'
  BY DEF Finish, Sound, TypeOK, ThreadTypeOK, Threads, ContextPcs, GetPcs, Goto, Return,
         getVars, cloudVars
<1>2. LinkTypeOK'
  BY DEF Finish, Sound, TypeOK, LinkTypeOK
<1>3. InBlockCb' /\ (pc'["cloud"] = "put" <=> pc["cloud"] = "put") /\ SameClose
  BY DEF Finish, Sound, TypeOK, ThreadTypeOK, InBlockCb, Threads, At, Goto, Return,
     cloudVars,
         SameClose, ClosePcs
<1>4. QED
  BY <1>1, <1>2, <1>3, SameContextSound DEF Finish

LEMMA StartGetSound == ASSUME Sound, NEW t \in Threads, StartGet(t) PROVE Sound'
<1>1. ThreadTypeOK'
  BY DEF StartGet, Sound, TypeOK, ThreadTypeOK, Threads, ContextPcs, GetPcs, Goto, cloudVars
<1>2. LinkTypeOK'
  BY DEF StartGet, Sound, TypeOK, LinkTypeOK, btVars
<1>3. InBlockCb' /\ (pc'["cloud"] = "put" <=> pc["cloud"] = "put") /\ SameClose
  BY DEF StartGet, Sound, TypeOK, ThreadTypeOK, InBlockCb, Threads, At, Goto, cloudVars,
         SameClose, ClosePcs
<1>4. QED
  BY <1>1, <1>2, <1>3, SameContextSound DEF StartGet

LEMMA SetAbortedSound == ASSUME Sound, NEW t \in Threads, SetAborted(t) PROVE Sound'
<1>1. PICK hop \in {<<"abort", "close">>, <<"endAbort", "endClose">>} :
        /\ pc[t] = hop[1] /\ pc' = [pc EXCEPT ![t] = hop[2]]
        /\ flags' = flags \union {"ABORTED"}
        /\ UNCHANGED <<ctx, queue, current, offset, free, room, ret, sdk, count, exit, lag,
                       link, writes, packetizer, finished, read, fault>>
  BY DEF SetAborted, At, Goto, getVars, cloudVars, btVars
<1>2. /\ ThreadTypeOK' /\ LinkTypeOK' /\ InBlockCb' /\ SameClose
      /\ pc'["cloud"] = "put" <=> pc["cloud"] = "put"
  BY <1>1 DEF Sound, TypeOK, ThreadTypeOK, LinkTypeOK, InBlockCb, SameClose, Threads,
     ContextPcs,
              GetPcs, ClosePcs
<1>3. HeldBlocks' = HeldBlocks /\ Dangles' /\ ClosedEmpty'
  BY <1>1, <1>2, SameCloseSound, HeldSame DEF SameClose, ClosePcs
<1>4. PoolAccounted' /\ ContextTypeOK' /\ OffsetInside'
  BY <1>1, <1>2, <1>3 DEF Sound, TypeOK, PoolAccounted, ContextTypeOK, OffsetInside
<1>5. QED
  BY <1>2, <1>3, <1>4 DEF Sound, TypeOK

LEMMA StepSound == Sound /\ Drained /\ [Next]_vars => Sound'
<1> SUFFICES ASSUME Sound, Drained, [Next]_vars PROVE Sound'
  OBVIOUS
<1> USE DEF Sound, TypeOK, ContextTypeOK, ThreadTypeOK, LinkTypeOK, PoolAccounted,
            OffsetInside, InBlockCb, Dangles, ClosedEmpty, HeldBlocks, Threads, ContextPcs,
            GetPcs, ClosePcs, ctxVars, cloudVars, btVars, getVars, vars, At, Goto, Return
<1>1. CASE BlockCb
  BY <1>1 DEF BlockCb
<1>2. CASE TestAborted
  BY <1>2 DEF TestAborted, StartFlush
<1>3. CASE BlockAlloc
  <2>1. free' = free - 1 /\ free' \in 0 .. NumBlocks
    BY <1>3 DEF BlockAlloc
  <2>2. pc["cloud"] = "alloc" /\ pc' = [pc EXCEPT !["cloud"] = "put"]
    BY <1>3 DEF BlockAlloc
  <2>3. TypeOK'
    BY <1>3, <2>1, <2>2 DEF BlockAlloc
  <2>4. PoolAccounted'
    <3>1. queue' = queue /\ HeldBlocks' = HeldBlocks /\ pc'["cloud"] = "put"
      BY <1>3, <2>2 DEF BlockAlloc
    <3>2. free + Len(queue) + HeldBlocks + 0 = NumBlocks
      BY <2>2
    <3>3. free \in Int /\ Len(queue) \in Int /\ HeldBlocks \in Int
      OBVIOUS
    <3> HIDE DEF HeldBlocks, Sound
    <3> QED
      BY <2>1, <3>1, <3>2, <3>3
  <2>5. OffsetInside' /\ InBlockCb' /\ Dangles' /\ ClosedEmpty'
    BY <1>3, <2>2 DEF BlockAlloc
  <2> QED
    BY <2>3, <2>4, <2>5
<1>4. CASE BlockAllocTimeout
  <2>1. /\ pc' = [pc EXCEPT !["cloud"] = "flush"] /\ exit' \in {"done", "late"} /\ lag' = 0
        /\ UNCHANGED <<ctxVars, free, getVars, sdk, count, btVars, read, fault>>
    BY <1>4 DEF BlockAllocTimeout, StartFlush
  <2>2. QED
    BY <1>4, <2>1 DEF BlockAllocTimeout
<1>5. ASSUME NEW len \in Lens \union {0}, NEW last \in BOOLEAN, PutBlock(len, last)
      PROVE  Sound'
  BY <1>5 DEF PutBlock, Block
<1>6. CASE TestCurrent
  BY <1>6 DEF TestCurrent
<1>7. CASE TestAndClearWaiting
  BY <1>7 DEF TestAndClearWaiting
<1>8. CASE EndCb
  BY <1>8 DEF EndCb
<1>9. CASE EndKick
  BY <1>9 DEF EndKick
<1>10. ASSUME NEW t \in Threads, SetAborted(t) PROVE Sound'
  BY <1>10, SetAbortedSound
<1>11. ASSUME NEW t \in Threads, CloseIfComplete(t) PROVE Sound'
  BY <1>11, CloseIfCompleteSound
<1>12. ASSUME NEW t \in Threads, Finish(t) PROVE Sound'
  BY <1>12, FinishSound
<1>13. ASSUME NEW t \in Threads, StartGet(t) PROVE Sound'
  BY <1>13, StartGetSound
<1>14. ASSUME NEW t \in Threads, Fetch(t) PROVE Sound'
  BY <1>14, FetchSound
<1>15. ASSUME NEW t \in Threads, Copy(t) PROVE Sound'
  BY <1>15, CopySound
<1>16. ASSUME NEW t \in Threads, Send(t) PROVE Sound'
  BY <1>16, SendSound
<1>17. ASSUME NEW t \in Threads, SendNothing(t) PROVE Sound'
  BY <1>17 DEF SendNothing
<1>18. ASSUME NEW t \in Threads, Crash(t) PROVE Sound'
  BY <1>18 DEF Crash, Misuse
<1>19. ASSUME NEW err \in BOOLEAN, WriteResponse(err) PROVE Sound'
  BY <1>19 DEF WriteResponse, BurstEnded
<1>20. CASE TestComplete
  BY <1>20, TestCompleteSound
<1>21. CASE Disconnect
  BY <1>21 DEF Disconnect
<1>22. CASE BtStop
  BY <1>22 DEF BtStop
<1>23. CASE UNCHANGED vars
  BY <1>23
<1>24. CASE FlushOne \/ TestHeld \/ FreeHeld \/ FreeContext
  BY <1>24, FlushOneSound, CloseStepSound
<1> HIDE DEF Sound, TypeOK, ContextTypeOK, ThreadTypeOK, LinkTypeOK, PoolAccounted,
            OffsetInside, InBlockCb, Dangles, ClosedEmpty, HeldBlocks, ContextPcs, GetPcs,
            ClosePcs, ctxVars, cloudVars, btVars, getVars, vars, At, Goto, Return
<1> QED
  BY <1>1, <1>2, <1>3, <1>4, <1>5, <1>6, <1>7, <1>8, <1>9, <1>10, <1>11, <1>12, <1>13,
     <1>14, <1>15, <1>16, <1>17, <1>18, <1>19, <1>20, <1>21, <1>22, <1>23, <1>24
     DEF Next, CloudStep, BtStep, Response, WriteCharacteristic, ErrorPath, Ended

LEMMA InitHandshake == Init => Handshake /\ EndCbOnly
BY DEF Init, OpenContext, Handshake, EndCbOnly, InCallback, MayWrite, Threads, GetPcs,
   ClosePcs,
       HasPacket

LEMMA StepHandshake ==
  Sound /\ Handshake /\ EndCbOnly /\ [Next]_vars => Handshake' /\ EndCbOnly'
<1> SUFFICES ASSUME Sound, Handshake, EndCbOnly, [Next]_vars
             PROVE  Handshake' /\ EndCbOnly'
  OBVIOUS
<1>0. ThreadTypeOK /\ InBlockCb /\ writes \in Nat /\ flags \subseteq {"COMPLETE", "ABORTED", "WAITING"}
  BY DEF Sound, TypeOK, ContextTypeOK, LinkTypeOK
<1> USE <1>0 DEF ThreadTypeOK, InBlockCb, Handshake, EndCbOnly, InCallback, MayWrite,
            HasPacket, Threads, ContextPcs, GetPcs, ClosePcs, ctxVars, cloudVars, btVars,
            getVars, vars, At, Goto, Return
<1>1. CASE BlockCb
  BY <1>1 DEF BlockCb
<1>2. CASE TestAborted
  BY <1>2 DEF TestAborted, StartFlush
<1>3. CASE BlockAlloc
  BY <1>3 DEF BlockAlloc
<1>4. CASE BlockAllocTimeout
  BY <1>4 DEF BlockAllocTimeout, StartFlush
<1>5. ASSUME NEW len \in Lens \union {0}, NEW last \in BOOLEAN, PutBlock(len, last)
      PROVE  Handshake' /\ EndCbOnly'
  BY <1>5 DEF PutBlock
<1>6. CASE TestCurrent
  BY <1>6 DEF TestCurrent
<1>7. CASE TestAndClearWaiting
  BY <1>7 DEF TestAndClearWaiting
<1>8. CASE EndCb
  BY <1>8 DEF EndCb
<1>9. CASE EndKick
  BY <1>9 DEF EndKick
<1>10. ASSUME NEW t \in Threads, SetAborted(t) PROVE Handshake' /\ EndCbOnly'
  BY <1>10 DEF SetAborted
<1>11. ASSUME NEW t \in Threads, CloseIfComplete(t) PROVE Handshake' /\ EndCbOnly'
  BY <1>11 DEF CloseIfComplete, CloseThen, CloseContext
<1>12. ASSUME NEW t \in Threads, Finish(t) PROVE Handshake' /\ EndCbOnly'
  BY <1>12 DEF Finish
<1>13. ASSUME NEW t \in Threads, StartGet(t) PROVE Handshake' /\ EndCbOnly'
  BY <1>13 DEF StartGet
<1>14. ASSUME NEW t \in Threads, Fetch(t) PROVE Handshake' /\ EndCbOnly'
  <2>1. /\ pc[t] = "fetch" /\ (t = "cloud" => pc["bt"] = "idle")
        /\ \E p \in {"send", "copy"} : pc' = [pc EXCEPT ![t] = p]
        /\ room' = room /\ writes' = writes /\ sdk' = sdk
    BY <1>14 DEF Fetch
  <2>2. CASE "WAITING" \in flags
    BY <2>1, <2>2 DEF Fetch
  <2>3. CASE "WAITING" \notin flags
    <3>1. "WAITING" \in flags' => /\ pc'[t] = "send" /\ ret'[t] = "again"
                                  /\ room[t] = Room
      BY <1>14, <2>3 DEF Fetch, EmptyFlags
    <3>2. "WAITING" \in flags' => ~HasPacket(t)'
      BY <2>1, <3>1
    <3>3. "WAITING" \in flags' => t = "bt" \/ t = "cloud"
      OBVIOUS
    <3>4. Handshake'
      <4>1. CASE t = "cloud"
        <5>1. sdk # "error" => pc["bt"] = "idle" /\ writes = 0
          BY <2>1, <4>1
        <5>2. pc' = [pc EXCEPT !["cloud"] = "send"] \/ pc' = [pc EXCEPT !["cloud"] = "copy"]
          BY <2>1, <4>1
        <5>3. exit' = exit
          BY <1>14 DEF Fetch
        <5>4. QED
          BY <2>1, <3>1, <3>2, <4>1, <5>1, <5>2, <5>3
      <4>2. CASE t = "bt"
        <5>1. sdk # "error" => ~InCallback /\ writes = 0
          BY <2>1, <4>2
        <5>2. pc' = [pc EXCEPT !["bt"] = "send"] \/ pc' = [pc EXCEPT !["bt"] = "copy"]
          BY <2>1, <4>2
        <5>3. exit' = exit
          BY <1>14 DEF Fetch
        <5>4. QED
          BY <2>1, <3>1, <3>2, <4>2, <5>1, <5>2, <5>3
      <4> QED
        BY <4>1, <4>2
    <3>5. EndCbOnly'
      BY <1>14, <2>1 DEF Fetch
    <3> QED
      BY <3>4, <3>5
  <2> QED
    BY <2>2, <2>3
<1>15. ASSUME NEW t \in Threads, Copy(t) PROVE Handshake' /\ EndCbOnly'
  BY <1>15 DEF Copy
<1>16. ASSUME NEW t \in Threads, Send(t) PROVE Handshake' /\ EndCbOnly'
  BY <1>16 DEF Send
<1>17. ASSUME NEW t \in Threads, SendNothing(t) PROVE Handshake' /\ EndCbOnly'
  BY <1>17 DEF SendNothing
<1>18. ASSUME NEW t \in Threads, Crash(t) PROVE Handshake' /\ EndCbOnly'
  BY <1>18 DEF Crash
<1>19. ASSUME NEW err \in BOOLEAN, WriteResponse(err) PROVE Handshake' /\ EndCbOnly'
  BY <1>19 DEF WriteResponse
<1>20. CASE TestComplete
  BY <1>20 DEF TestComplete, CloseThen, CloseContext
<1>21. CASE Disconnect
  BY <1>21 DEF Disconnect
<1>22. CASE BtStop
  BY <1>22 DEF BtStop
<1>23. CASE UNCHANGED vars
  BY <1>23
<1>24. CASE FlushOne \/ TestHeld \/ FreeHeld \/ FreeContext
  BY <1>24 DEF FlushOne, TestHeld, FreeHeld, FreeContext
<1> QED
  BY <1>1, <1>2, <1>3, <1>4, <1>5, <1>6, <1>7, <1>8, <1>9, <1>10, <1>11, <1>12,
     <1>13, <1>14, <1>15, <1>16, <1>17, <1>18, <1>19, <1>20, <1>21, <1>22, <1>23, <1>24
     DEF Next, CloudStep, BtStep, Response, WriteCharacteristic, ErrorPath, Ended

=============================================================================
