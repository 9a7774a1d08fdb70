-------------------------- MODULE UplinkSerialProofs --------------------------
(***************************************************************************)
(* Theorems about Uplink when the Bluetooth host does not cut into the     *)
(* handlers of the CoAP thread: what the code gets right by running each   *)
(* handler as a whole.  They hold for a device that indicates its payloads *)
(* and an SDK that takes every block; a refused block, and a read that is  *)
(* answered after the uplink has ended, lead to accesses through NULL.     *)
(*                                                                         *)
(* SerialInv ties the life of the uplink to the places in the handlers     *)
(* that use it, to the SDK and to the subscription, and accounts for its   *)
(* blocks.  CompleteInv follows the last block; with the size of the       *)
(* blocks, UploadInv, the uplink is seen to implement UplinkStream.        *)
(***************************************************************************)
EXTENDS UplinkProofs

Serial == ~Preempts /\ ~LocalFails /\ Transports = {"indicate"}

\* The uplink lives while a handler is to use it or the SDK has a block, which
\* is over before the uplink ends.
Alive ==
  /\ \A t \in Threads :
       pc[t] \in UsesUplink \union {"end", "unsubscribe"} => up = "live"
  /\ sdk = "busy" => up = "live"
  /\ \A t \in Threads :
       pc[t] \in Ending \union {"delivered", "free", "null"} => sdk = "idle"

\* A handler that has a close left to do found a block to send, so that it does
\* not end the uplink before.
LastPayload ==
  /\ again =>
       /\ node /\ source # "on"
       /\ pc["bt"] \in {"process", "closed?", "get", "unlink", "close2"} \union Hand
       /\ pc["bt"] \in {"process", "closed?", "get"} => queue # <<>>
  /\ pc["bt"] = "close2" => again
  /\ pc["cloud"] # "close2"

\* While the device may send a payload, the node has its uplink, which is open.
SourceOn ==
  source = "on" =>
    /\ "CLOSED" \notin flags /\ wblock # NoBlock
    /\ \A t \in Threads : pc[t] # "cleanup"
    /\ node \/ \E t \in Threads : pc[t] = "unsubscribe"

\* Every block on the heap is in wblock, rblock or the list.
BlocksOwned ==
  /\ rblock # NoBlock =>
       sdk = "busy" \/ \E t \in Threads : pc[t] \in Hand \union {"delivered", "free", "null"}
  /\ heap = BlocksIn(wblock) + Len(queue)
              + (IF pc["cloud"] = "null" THEN 0 ELSE BlocksIn(rblock))
  /\ up = "freed" => wblock = NoBlock /\ rblock = NoBlock /\ queue = <<>>

Settled == Alive /\ LastPayload /\ SourceOn /\ BlocksOwned
SerialInv == UplinkInv /\ ListInv /\ Settled /\ fault = "none"

USE SizeAssumption, LensAssumption, BoundAssumption, TransportAssumption, NoBlockAssumption

LEMMA SerialInit == Init => SerialInv
<1> SUFFICES ASSUME Init PROVE Settled /\ fault = "none"
  BY InitUplink, ListInit DEF SerialInv
<1> USE DEF Init, OpenUplink, Threads
<1>1. Alive /\ fault = "none"
  BY DEF Alive, UsesUplink, TailSteps, Ending
<1>4. LastPayload
  <2>1. ~again /\ pc["bt"] = "idle" /\ pc["cloud"] = "idle"
    OBVIOUS
  <2> QED
    BY <2>1 DEF LastPayload
<1>2. wblock # NoBlock
  BY DEF Block
<1>3. SourceOn /\ BlocksOwned
  BY <1>2 DEF SourceOn, BlocksOwned, BlocksIn
<1> QED
  BY <1>1, <1>3, <1>4 DEF Settled

\* What SerialInv says of the variables' types, and of the owner of SENDING.
SerialTypes ==
  /\ pc \in [Threads -> {"idle", "close2", "end", "unsubscribe"} \union UsesUplink]
  /\ next \in [Threads -> BOOLEAN] /\ result \in [Threads -> {"success", "local", "cloud"}]
  /\ queue \in Seq(Block) /\ heap \in Int /\ Len(queue) \in Nat
  /\ transport = "indicate" /\ up \in {"live", "freed"} /\ sdk \in {"idle", "busy"}
  /\ {wblock, rblock} \subseteq Block \union {NoBlock}

LEMMA SerialTyped == ASSUME Serial, SerialInv PROVE SerialTypes
<1>1. TypeOK /\ transport \in {"indicate"}
  BY DEF Serial, SerialInv, UplinkInv, TypeOK
<1> QED
  BY <1>1, LenProperties DEF TypeOK, SerialTypes

\* No access is through NULL or to an uplink that is gone.
LEMMA NoMisuse ==
  ASSUME SerialInv, NEW t \in Threads
  PROVE  Misuse(t) = "none"
<1>1. pc[t] = "close2" => node
  BY DEF SerialInv, Settled, LastPayload, Threads
<1>2. pc[t] \in UsesUplink => up = "live"
  BY DEF SerialInv, Settled, Alive
<1> QED
  BY <1>1, <1>2 DEF Misuse

\* process_uplink, on either thread
LEMMA SerialProcess ==
  ASSUME Serial, SerialInv, NEW t \in Threads, ProcessUplink(t)
  PROVE  Settled' /\ fault' = "none"
<1>0. SerialTypes /\ Misuse(t) = "none" /\ fault = "none"
  BY SerialTyped, NoMisuse DEF SerialInv
<1> USE DEF SerialTypes, SerialInv, Settled, OneHandler, Alive, ListInv, ListWhole,
            LastPayload,
            SourceOn, BlocksOwned, BlocksIn, UsesUplink, Ending, Threads, OneHolder, Holds,
            Section, TailSteps, Hand, UplinkInv, upVars, listVars, localVars, restVars,
            sdkVars, btVars
<1>1. CASE TestAndSetSending(t)
  <2>1. fault' = "none"
    BY <1>0, <1>1 DEF TestAndSetSending, At, Goto, Return
  <2>2. Alive'
    BY <1>0, <1>1 DEF TestAndSetSending, At, Goto, Return
  <2>3. LastPayload'
    BY <1>0, <1>1 DEF TestAndSetSending, At, Goto, Return
  <2>4. SourceOn'
    BY <1>0, <1>1 DEF TestAndSetSending, At, Goto, Return
  <2>5. BlocksOwned'
    BY <1>0, <1>1 DEF TestAndSetSending, At, Goto, Return
  <2> QED
    BY <2>1, <2>2, <2>3, <2>4, <2>5
<1>2. CASE ReadClosed(t)
  <2>1. fault' = "none"
    BY <1>0, <1>2 DEF ReadClosed, At, Goto
  <2>2. Alive'
    BY <1>0, <1>2 DEF ReadClosed, At, Goto
  <2>3. LastPayload'
    BY <1>0, <1>2 DEF ReadClosed, At, Goto
  <2>4. SourceOn'
    BY <1>0, <1>2 DEF ReadClosed, At, Goto
  <2>5. BlocksOwned'
    BY <1>0, <1>2 DEF ReadClosed, At, Goto
  <2> QED
    BY <2>1, <2>2, <2>3, <2>4, <2>5
<1>3. CASE GetBlock(t)
  <2>1. fault' = "none"
    BY <1>0, <1>3 DEF GetBlock, At, Goto
  <2>2. Alive'
    BY <1>0, <1>3 DEF GetBlock, At, Goto
  <2>3. LastPayload'
    BY <1>0, <1>3 DEF GetBlock, At, Goto
  <2>4. SourceOn'
    BY <1>0, <1>3 DEF GetBlock, At, Goto
  <2>5. BlocksOwned'
    BY <1>0, <1>3 DEF GetBlock, At, Goto
  <2> QED
    BY <2>1, <2>2, <2>3, <2>4, <2>5
<1>4. CASE Unlink(t)
  <2>0. /\ queue' = Tail(queue) /\ Len(queue') = Len(queue) - 1
        /\ rblock' # NoBlock /\ rblock = NoBlock
    <3>1. /\ queue # <<>> /\ Len(queue) \in Nat \ {0}
          /\ Len(Tail(queue)) = Len(queue) - 1 /\ Head(queue) \in Block
      BY <1>0, <1>4, HeadTailProperties, EmptySeq DEF Unlink, At, BlockInHand
    <3>2. rblock = NoBlock
      BY <1>0, <1>4 DEF Unlink, At
    <3>3. queue' = Tail(queue)
      BY <1>4, UnlinkWhole
    <3> QED
      BY <1>4, <3>1, <3>2, <3>3 DEF Unlink
  <2>1. fault' = "none"
    BY <1>0, <1>4 DEF Unlink, At, Goto
  <2>2. Alive'
    BY <1>0, <1>4 DEF Unlink, At, Goto
  <2>3. LastPayload'
    BY <1>0, <1>4 DEF Unlink, At, Goto
  <2>4. SourceOn'
    BY <1>0, <1>4 DEF Unlink, At, Goto
  <2>5. BlocksOwned'
    <3>1. pc'[t] \in Hand /\ pc["cloud"] # "null" /\ pc'["cloud"] # "null"
      BY <1>0, <1>4 DEF Unlink, At, Goto
    <3>2. UNCHANGED <<up, wblock, heap>> /\ up = "live"
      BY <1>0, <1>4 DEF Unlink, At
    <3>3. heap = BlocksIn(wblock) + Len(queue) + BlocksIn(rblock)
      BY <3>1
    <3> HIDE DEF SerialInv
    <3>4. BlocksIn(rblock) = 0 /\ BlocksIn(rblock') = 1
      BY <2>0
    <3>5. heap \in Int /\ Len(queue) \in Nat /\ BlocksIn(wblock) \in Nat
      BY <1>0
    <3>6. heap' = BlocksIn(wblock) + Len(queue') + 1
      <4> HIDE DEF BlocksIn
      <4> QED
        BY <2>0, <3>2, <3>3, <3>4, <3>5
    <3> QED
      BY <2>0, <3>1, <3>2, <3>4, <3>6
  <2> QED
    BY <2>1, <2>2, <2>3, <2>4, <2>5
<1>12. CASE TestTail(t)
  <2>1. fault' = "none"
    BY <1>0, <1>12 DEF TestTail, At, Goto
  <2>2. Alive'
    BY <1>0, <1>12 DEF TestTail, At, Goto
  <2>3. LastPayload'
    BY <1>0, <1>12 DEF TestTail, At, Goto
  <2>4. SourceOn'
    BY <1>0, <1>12 DEF TestTail, At, Goto
  <2>5. BlocksOwned'
    BY <1>0, <1>12 DEF TestTail, At, Goto
  <2> QED
    BY <2>1, <2>2, <2>3, <2>4, <2>5
<1>13. CASE ResetTail(t)
  <2>1. fault' = "none"
    BY <1>0, <1>13 DEF ResetTail, At, Goto
  <2>2. Alive'
    BY <1>0, <1>13 DEF ResetTail, At, Goto
  <2>3. LastPayload'
    BY <1>0, <1>13 DEF ResetTail, At, Goto
  <2>4. SourceOn'
    BY <1>0, <1>13 DEF ResetTail, At, Goto
  <2>5. BlocksOwned'
    BY <1>0, <1>13 DEF ResetTail, At, Goto
  <2> QED
    BY <2>1, <2>2, <2>3, <2>4, <2>5
<1>5. CASE SkipEmpty(t)
  <2>1. fault' = "none"
    BY <1>0, <1>5 DEF SkipEmpty, At, Goto, Return
  <2>2. Alive'
    BY <1>0, <1>5 DEF SkipEmpty, At, Goto, Return
  <2>3. LastPayload'
    BY <1>0, <1>5 DEF SkipEmpty, At, Goto, Return
  <2>4. SourceOn'
    BY <1>0, <1>5 DEF SkipEmpty, At, Goto, Return
  <2>5. BlocksOwned'
    <3>1. rblock # NoBlock /\ pc["cloud"] # "null" /\ pc'["cloud"] # "null" /\ sdk' = "idle"
      BY <1>0, <1>5 DEF SkipEmpty, At, Goto, Return, BlockInHand
    <3>2. /\ rblock' = NoBlock /\ heap' = heap - 1 /\ UNCHANGED <<up, wblock, queue>>
          /\ up = "live"
      BY <1>0, <1>5 DEF SkipEmpty, At
    <3> QED
      BY <1>0, <3>1, <3>2
  <2> QED
    BY <2>1, <2>2, <2>3, <2>4, <2>5
<1>6. CASE SendBlock(t)
  <2>1. fault' = "none"
    BY <1>0, <1>6 DEF SendBlock, At, Goto, Return, Serial
  <2>2. Alive'
    BY <1>0, <1>6 DEF SendBlock, At, Goto, Return, Serial
  <2>3. LastPayload'
    BY <1>0, <1>6 DEF SendBlock, At, Goto, Return, Serial
  <2>4. SourceOn'
    BY <1>0, <1>6 DEF SendBlock, At, Goto, Return, Serial
  <2>5. BlocksOwned'
    BY <1>0, <1>6 DEF SendBlock, At, Goto, Return, Serial
  <2> QED
    BY <2>1, <2>2, <2>3, <2>4, <2>5
<1>7. CASE ClearSending(t)
  <2>1. fault' = "none"
    BY <1>0, <1>7 DEF ClearSending, At, Goto, Return
  <2>2. Alive'
    BY <1>0, <1>7 DEF ClearSending, At, Goto, Return
  <2>3. LastPayload'
    BY <1>0, <1>7 DEF ClearSending, At, Goto, Return
  <2>4. SourceOn'
    BY <1>0, <1>7 DEF ClearSending, At, Goto, Return
  <2>5. BlocksOwned'
    BY <1>0, <1>7 DEF ClearSending, At, Goto, Return
  <2> QED
    BY <2>1, <2>2, <2>3, <2>4, <2>5
<1>8. CASE EndCb(t)
  <2>1. fault' = "none"
    BY <1>0, <1>8 DEF EndCb, At, Goto
  <2>2. Alive'
    BY <1>0, <1>8 DEF EndCb, At, Goto
  <2>3. LastPayload'
    BY <1>0, <1>8 DEF EndCb, At, Goto
  <2>4. SourceOn'
    BY <1>0, <1>8 DEF EndCb, At, Goto
  <2>5. BlocksOwned'
    BY <1>0, <1>8 DEF EndCb, At, Goto
  <2> QED
    BY <2>1, <2>2, <2>3, <2>4, <2>5
<1>9. CASE Unsubscribe(t)
  <2>1. fault' = "none"
    BY <1>0, <1>9 DEF Unsubscribe, At, Goto
  <2>2. Alive'
    BY <1>0, <1>9 DEF Unsubscribe, At, Goto
  <2>3. LastPayload'
    BY <1>0, <1>9 DEF Unsubscribe, At, Goto
  <2>4. SourceOn'
    BY <1>0, <1>9 DEF Unsubscribe, At, Goto
  <2>5. BlocksOwned'
    BY <1>0, <1>9 DEF Unsubscribe, At, Goto
  <2> QED
    BY <2>1, <2>2, <2>3, <2>4, <2>5
<1>10. CASE Cleanup(t)
  <2>1. fault' = "none"
    BY <1>0, <1>10 DEF Cleanup, At, Goto, Return
  <2>2. Alive'
    BY <1>0, <1>10 DEF Cleanup, At, Goto, Return
  <2>3. LastPayload'
    BY <1>0, <1>10 DEF Cleanup, At, Goto, Return
  <2>4. SourceOn'
    BY <1>0, <1>10 DEF Cleanup, At, Goto, Return
  <2>5. BlocksOwned'
    <3>1. pc["cloud"] # "null" /\ pc'["cloud"] # "null"
      BY <1>0, <1>10 DEF Cleanup, At, Goto, Return
    <3>2. /\ rblock' = NoBlock /\ wblock' = NoBlock /\ queue' = <<>> /\ Len(<<>>) = 0
          /\ heap' = heap - Len(queue) - BlocksIn(wblock) - BlocksIn(rblock)
      BY <1>10 DEF Cleanup
    <3>3. heap = BlocksIn(wblock) + Len(queue) + BlocksIn(rblock)
      BY <3>1
    <3>4. BlocksIn(wblock) \in Nat /\ BlocksIn(rblock) \in Nat
      OBVIOUS
    <3> HIDE DEF SerialInv
    <3>5. heap \in Int /\ Len(queue) \in Nat
      BY <1>0
    <3> HIDE DEF BlocksIn
    <3>6. heap' = 0
      BY <3>2, <3>3, <3>4, <3>5
    <3> QED
      BY <3>1, <3>2, <3>6 DEF BlocksIn
  <2> QED
    BY <2>1, <2>2, <2>3, <2>4, <2>5
<1>11. CASE Crash(t)
  BY <1>0, <1>11 DEF Crash
<1> QED
  BY <1>1, <1>2, <1>3, <1>4, <1>5, <1>6, <1>7, <1>8, <1>9, <1>10, <1>11, <1>12,
     <1>13 DEF ProcessUplink

\* block_upload_callback
LEMMA SerialCallback ==
  ASSUME Serial, SerialInv, CloudStep
  PROVE  Settled' /\ fault' = "none"
<1>0. SerialTypes /\ fault = "none"
  BY SerialTyped DEF SerialInv
<1> USE DEF SerialTypes, SerialInv, Settled, OneHandler, Alive, ListInv, ListWhole,
            LastPayload,
            SourceOn, BlocksOwned, BlocksIn, UsesUplink, Ending, Threads, OneHolder, Holds,
            Section, TailSteps, Hand, UplinkInv, upVars, listVars, localVars, restVars,
            sdkVars, btVars
<1>1. ASSUME NEW ok \in BOOLEAN, UploadCallback(ok)
      PROVE  Settled' /\ fault' = "none"
  <2>1. fault' = "none"
    BY <1>0, <1>1 DEF UploadCallback, Goto
  <2>2. Alive'
    BY <1>0, <1>1 DEF UploadCallback, Goto
  <2>3. LastPayload'
    BY <1>0, <1>1 DEF UploadCallback, Goto
  <2>4. SourceOn'
    BY <1>0, <1>1 DEF UploadCallback, Goto
  <2>5. BlocksOwned'
    BY <1>0, <1>1 DEF UploadCallback, Goto
  <2> QED
    BY <2>1, <2>2, <2>3, <2>4, <2>5
<1>2. CASE TestAndClearSending
  <2>1. fault' = "none"
    BY <1>0, <1>2 DEF TestAndClearSending, At, Goto, Return
  <2>2. Alive'
    BY <1>0, <1>2 DEF TestAndClearSending, At, Goto, Return
  <2>3. LastPayload'
    BY <1>0, <1>2 DEF TestAndClearSending, At, Goto, Return
  <2>4. SourceOn'
    BY <1>0, <1>2 DEF TestAndClearSending, At, Goto, Return
  <2>5. BlocksOwned'
    BY <1>0, <1>2 DEF TestAndClearSending, At, Goto, Return
  <2> QED
    BY <2>1, <2>2, <2>3, <2>4, <2>5
<1>3. CASE FreeSent
  <2>1. fault' = "none"
    BY <1>0, <1>3 DEF FreeSent, At, Goto
  <2>2. Alive'
    BY <1>0, <1>3 DEF FreeSent, At, Goto
  <2>3. LastPayload'
    BY <1>0, <1>3 DEF FreeSent, At, Goto
  <2>4. SourceOn'
    BY <1>0, <1>3 DEF FreeSent, At, Goto
  <2>5. BlocksOwned'
    <3>1. pc["cloud"] = "free" /\ pc'["cloud"] = "null" /\ up = "live"
      BY <1>0, <1>3 DEF FreeSent, At, Goto
    <3>2. UNCHANGED <<up, wblock, rblock, queue>> /\ heap' = heap - BlocksIn(rblock)
      BY <1>3 DEF FreeSent
    <3>3. heap = BlocksIn(wblock) + Len(queue) + BlocksIn(rblock)
      BY <3>1
    <3> HIDE DEF SerialInv
    <3>4. heap' = BlocksIn(wblock) + Len(queue)
      BY <1>0, <3>2, <3>3
    <3> QED
      BY <3>1, <3>2, <3>4
  <2> QED
    BY <2>1, <2>2, <2>3, <2>4, <2>5
<1>4. CASE ForgetSent
  <2>1. fault' = "none"
    BY <1>0, <1>4 DEF ForgetSent, At, Goto
  <2>2. Alive'
    BY <1>0, <1>4 DEF ForgetSent, At, Goto
  <2>3. LastPayload'
    BY <1>0, <1>4 DEF ForgetSent, At, Goto
  <2>4. SourceOn'
    BY <1>0, <1>4 DEF ForgetSent, At, Goto
  <2>5. BlocksOwned'
    BY <1>0, <1>4 DEF ForgetSent, At, Goto
  <2> QED
    BY <2>1, <2>2, <2>3, <2>4, <2>5
<1>5. CASE ProcessUplink("cloud")
  BY <1>5, SerialProcess
<1> QED
  BY <1>1, <1>2, <1>3, <1>4, <1>5 DEF CloudStep

\* Closing, from a callback of the host, for an uplink that the node has.
LEMMA SerialClose ==
  ASSUME Serial, SerialInv, CloseUplink, node, pc["cloud"] = "idle",
         pc["bt"] \in {"idle", "close2"}, node' = FALSE, again' = FALSE,
         source' # "on", UNCHANGED <<next, sdk, fault>>
  PROVE  Settled' /\ fault' = "none"
<1>0. SerialTypes /\ up = "live" /\ fault = "none"
  BY SerialTyped DEF SerialInv, UplinkInv, NodeNeverDangles
<1> USE DEF SerialTypes, SerialInv, Settled, OneHandler, Alive, ListInv, ListWhole,
            LastPayload,
            SourceOn, BlocksOwned, BlocksIn, UsesUplink, Ending, Threads, OneHolder, Holds,
            Section, TailSteps, Hand, UplinkInv, upVars, listVars, localVars, restVars,
            sdkVars, btVars
<1>1. /\ pc' = [pc EXCEPT !["bt"] = "process"] /\ UNCHANGED <<up, rblock, heap>>
      /\ BlocksIn(wblock') + Len(queue') = BlocksIn(wblock) + Len(queue)
  <2>1. CASE "CLOSED" \notin flags /\ wblock # NoBlock
    <3>1. queue' = queue \o <<wblock>> /\ wblock' = NoBlock
      BY <2>1, SubmitWhole DEF CloseUplink
    <3>2. Len(queue') = Len(queue) + 1
      BY <1>0, <2>1, <3>1
    <3> QED
      BY <1>0, <2>1, <3>1, <3>2 DEF CloseUplink, Goto
  <2>2. CASE ~("CLOSED" \notin flags /\ wblock # NoBlock)
    BY <2>2 DEF CloseUplink, Goto
  <2> QED
    BY <2>1, <2>2
<1>2. Alive' /\ LastPayload' /\ SourceOn' /\ fault' = "none"
  BY <1>0, <1>1
<1>3. BlocksOwned'
  <2>1. /\ \A t \in Threads : pc[t] \notin Hand \union {"delivered", "free", "null"}
        /\ pc'["cloud"] = "idle"
    BY <1>0, <1>1
  <2>2. rblock' # NoBlock => sdk' = "busy"
    BY <1>1, <2>1
  <2>3. heap = BlocksIn(wblock) + Len(queue) + BlocksIn(rblock)
    BY <2>1
  <2>4. up' = "live"
    BY <1>0, <1>1
  <2> HIDE DEF SerialInv
  <2>5. heap' = BlocksIn(wblock') + Len(queue') + BlocksIn(rblock')
    <3>1. rblock' = rblock /\ heap' = heap
      BY <1>1
    <3>2. BlocksIn(rblock') = BlocksIn(rblock)
      BY <3>1
    <3> HIDE DEF BlocksIn
    <3> QED
      BY <1>1, <2>3, <3>1, <3>2
  <2> QED
    BY <2>1, <2>2, <2>4, <2>5
<1> QED
  BY <1>2, <1>3

\* A write allocates one block for each that it leaves in wblock or submits beyond
\* those it found there; it is left with one when it succeeds.
LEMMA WriteBlocks ==
  ASSUME NEW len \in Lens, wblock # NoBlock, wblock \in Block, wrote \in Nat,
         NEW o \in WriteOutcomes(len)
  PROVE  /\ o.new + 1 = BlocksIn(o.w) + Len(o.submit)
         /\ o.ok => o.w # NoBlock
         /\ o.ok \in BOOLEAN
<1> DEFINE have == wblock.len
           fb == [wblock EXCEPT !.len = Size]
           rest == [from |-> wrote + (Size - have), len |-> len - (Size - have)]
           fits == [wblock EXCEPT !.len = have + len]
<1>1. len \in 0 .. Size /\ Size \in Nat /\ have \in 0 .. Size
  BY DEF Block
<1>2. have + len <= Size => fits # NoBlock
  <2>1. have + len <= Size => fits \in Block
    BY <1>1 DEF Block
  <2> QED
    BY <2>1
<1>3. have + len > Size => rest # NoBlock
  <2>1. have + len > Size => rest \in Block
    BY <1>1 DEF Block
  <2> QED
    BY <2>1
<1>4. \/ o = [submit |-> <<>>, w |-> wblock, new |-> 0, ok |-> TRUE, n |-> 0]
      \/ /\ have + len <= Size
         /\ o = [submit |-> <<>>, w |-> fits, new |-> 0, ok |-> TRUE, n |-> len]
      \/ /\ have + len > Size
         /\ o = [submit |-> <<fb>>, w |-> rest, new |-> 1, ok |-> TRUE, n |-> len]
      \/ o = [submit |-> <<fb>>, w |-> NoBlock, new |-> 0, ok |-> FALSE, n |-> Size - have]
  BY <1>1 DEF WriteOutcomes
<1> HIDE DEF fb, rest, fits
<1>5. Len(<<>>) = 0 /\ Len(<<fb>>) = 1
  OBVIOUS
<1>6. CASE o = [submit |-> <<>>, w |-> wblock, new |-> 0, ok |-> TRUE, n |-> 0]
  BY <1>5, <1>6 DEF BlocksIn
<1>7. CASE /\ have + len <= Size
           /\ o = [submit |-> <<>>, w |-> fits, new |-> 0, ok |-> TRUE, n |-> len]
  BY <1>2, <1>5, <1>7 DEF BlocksIn
<1>8. CASE /\ have + len > Size
           /\ o = [submit |-> <<fb>>, w |-> rest, new |-> 1, ok |-> TRUE, n |-> len]
  BY <1>3, <1>5, <1>8 DEF BlocksIn
<1>9. CASE o = [submit |-> <<fb>>, w |-> NoBlock, new |-> 0, ok |-> FALSE,
                n |-> Size - have]
  BY <1>5, <1>9 DEF BlocksIn
<1> QED
  BY <1>4, <1>6, <1>7, <1>8, <1>9

LEMMA SerialPayload ==
  ASSUME Serial, SerialInv, NEW len \in Lens, NEW last \in BOOLEAN, Payload(len, last)
  PROVE  Settled' /\ fault' = "none"
<1>1. /\ pc["cloud"] = "idle" /\ pc["bt"] = "idle"
      /\ node /\ up = "live" /\ source = "on"
      /\ "CLOSED" \notin flags /\ wblock # NoBlock /\ transport = "indicate"
      /\ wblock \in Block /\ wrote \in Nat /\ queue \in Seq(Block) /\ heap \in Int
      /\ pc \in [Threads -> {"idle", "close2", "end", "unsubscribe"} \union UsesUplink]
  BY SerialTyped DEF Payload, HostRuns, Serial, SerialInv, Settled, SourceOn, SerialTypes,
     UplinkInv, TypeOK
<1>2. PICK o \in WriteOutcomes(len) :
        LET tail == IF o.ok /\ last /\ "CLOSED" \notin flags /\ o.w # NoBlock
                    THEN <<o.w>> ELSE <<>>
        IN /\ Submit(o.submit \o tail)
           /\ wblock' = IF tail = <<>> THEN o.w ELSE NoBlock
           /\ heap' = heap + o.new
           /\ flags' = IF o.ok /\ last THEN flags \union {"CLOSED"} ELSE flags
           /\ again' = (o.ok /\ last)
           /\ IF o.ok THEN Goto("bt", "process") ELSE UNCHANGED pc
           /\ IF ~o.ok \/ last THEN StopSource
              ELSE \/ UNCHANGED source
                   \/ (transport = "read" /\ GattFails /\ source' = "off")
  BY DEF Payload
<1> DEFINE tail == IF o.ok /\ last /\ "CLOSED" \notin flags /\ o.w # NoBlock
                   THEN <<o.w>> ELSE <<>>
           full == o.ok /\ last
<1>3. /\ o.new + 1 = BlocksIn(o.w) + Len(o.submit)
      /\ o.ok => o.w # NoBlock
      /\ o.ok \in BOOLEAN /\ o.submit \in Seq(Block) /\ o.w \in Block \union {NoBlock}
      /\ o.new \in Int
  BY <1>1, WriteBlocks, WriteTypes
<1>4. /\ tail = IF full THEN <<o.w>> ELSE <<>>
      /\ wblock' = IF full THEN NoBlock ELSE o.w
      /\ tail \in Seq(Block)
      /\ queue' = queue \o (o.submit \o tail)
  <2>1. tail = (IF full THEN <<o.w>> ELSE <<>>) /\ tail \in Seq(Block)
    BY <1>1, <1>3, EmptySeq
  <2> QED
    BY <1>1, <1>2, <2>1, SubmitWhole DEF SerialInv
<1>5. /\ again' = full /\ full \in BOOLEAN
      /\ full => pc' = [pc EXCEPT !["bt"] = "process"] /\ source' = "ending"
      /\ ~full => \/ source' = "on" /\ o.ok /\ flags' = flags
                  \/ source' = "ending"
      /\ pc' = pc \/ pc' = [pc EXCEPT !["bt"] = "process"]
      /\ heap' = heap + o.new
      /\ UNCHANGED <<up, rblock, next, sdk, node, fault>>
  BY <1>1, <1>2, <1>3 DEF Payload, Goto, StopSource, sdkVars
<1> HIDE DEF tail, full
<1>6. /\ Len(queue') = Len(queue) + Len(o.submit) + Len(tail)
      /\ Len(tail) = IF full THEN 1 ELSE 0
      /\ full => queue' # <<>>
      /\ Len(queue) \in Nat /\ Len(o.submit) \in Nat /\ Len(queue') \in Nat
  <2>1. /\ Len(o.submit \o tail) = Len(o.submit) + Len(tail)
        /\ o.submit \o tail \in Seq(Block)
        /\ Len(queue) \in Nat /\ Len(o.submit) \in Nat /\ Len(tail) \in Nat
    BY <1>1, <1>3, <1>4, ConcatProperties, LenProperties
  <2>2. /\ Len(queue') = Len(queue) + Len(o.submit \o tail)
        /\ queue' \in Seq(Block)
    BY <1>1, <1>4, <2>1, ConcatProperties
  <2>3. Len(tail) = IF full THEN 1 ELSE 0
    BY <1>4
  <2>4. full => Len(queue') # 0
    BY <2>1, <2>2, <2>3
  <2>5. queue' # <<>> <=> Len(queue') # 0
    BY <2>2, EmptySeq
  <2>6. Len(queue') = Len(queue) + Len(o.submit) + Len(tail)
    BY <2>1, <2>2
  <2>7. full => queue' # <<>>
    BY <2>4, <2>5
  <2>8. Len(queue) \in Nat /\ Len(o.submit) \in Nat /\ Len(queue') \in Nat
    BY <2>1, <2>2, <2>6
  <2> QED
    BY <2>3, <2>6, <2>7, <2>8
<1>7. BlocksIn(wblock') + Len(queue') = BlocksIn(wblock) + Len(queue) + o.new
  <2>1. BlocksIn(wblock) = 1 /\ BlocksIn(o.w) \in Nat
    BY <1>1 DEF BlocksIn
  <2>2. CASE full
    <3>1. BlocksIn(wblock') = 0 /\ BlocksIn(o.w) = 1
      BY <1>3, <1>4, <2>2 DEF BlocksIn
    <3>2. Len(tail) = 1 /\ Len(queue') = Len(queue) + Len(o.submit) + Len(tail)
      BY <1>6, <2>2
    <3>3. o.new + 1 = 1 + Len(o.submit) /\ o.new \in Int
      BY <1>3, <3>1
    <3>4. Len(queue) \in Nat /\ Len(o.submit) \in Nat
      BY <1>6
    <3> QED
      BY <2>1, <3>1, <3>2, <3>3, <3>4
  <2>3. CASE ~full
    <3>1. wblock' = o.w
      BY <1>4, <2>3
    <3>2. Len(tail) = 0 /\ Len(queue') = Len(queue) + Len(o.submit) + Len(tail)
      BY <1>6, <2>3
    <3>3. o.new + 1 = BlocksIn(o.w) + Len(o.submit) /\ o.new \in Int
      BY <1>3
    <3>4. Len(queue) \in Nat /\ Len(o.submit) \in Nat
      BY <1>6
    <3> QED
      BY <2>1, <3>1, <3>2, <3>3, <3>4
  <2> QED
    BY <2>2, <2>3
<1>8. Alive' /\ fault' = "none"
  BY <1>1, <1>5 DEF SerialInv, Settled, Alive, UsesUplink, TailSteps, Ending, Threads
<1>9. LastPayload'
  <2>1. /\ node' /\ pc'["cloud"] = "idle" /\ pc'["bt"] \in {"idle", "process"}
    BY <1>1, <1>5 DEF Threads
  <2>2. again' => queue' # <<>> /\ source' # "on" /\ pc'["bt"] = "process"
    BY <1>1, <1>5, <1>6 DEF Threads
  <2>3. pc'["bt"] # "close2"
    BY <2>1
  <2> QED
    BY <2>1, <2>2, <2>3 DEF LastPayload
<1>10. SourceOn'
  <2>1. /\ node' /\ pc'["cloud"] = "idle" /\ pc'["bt"] \in {"idle", "process"}
    BY <1>1, <1>5 DEF Threads
  <2>2. source' = "on" => "CLOSED" \notin flags' /\ wblock' # NoBlock
    BY <1>1, <1>3, <1>4, <1>5
  <2> QED
    BY <2>1, <2>2 DEF SourceOn, Threads
<1>11. BlocksOwned'
  <2>1. /\ pc'["cloud"] = "idle" /\ up' = "live"
        /\ rblock' # NoBlock => sdk' = "busy"
    BY <1>1, <1>5 DEF SerialInv, Settled, BlocksOwned, Hand, TailSteps, Threads
  <2>2. heap = BlocksIn(wblock) + Len(queue) + BlocksIn(rblock)
    BY <1>1 DEF SerialInv, Settled, BlocksOwned
  <2>3. heap' = BlocksIn(wblock') + Len(queue') + BlocksIn(rblock')
    <3>1. BlocksIn(rblock') = BlocksIn(rblock) /\ heap' = heap + o.new
      BY <1>5
    <3>2. /\ BlocksIn(wblock) \in Nat /\ BlocksIn(wblock') \in Nat
          /\ BlocksIn(rblock) \in Nat
      BY DEF BlocksIn
    <3>3. Len(queue') \in Nat /\ Len(queue) \in Nat /\ o.new \in Int
      BY <1>3, <1>6
    <3> QED
      BY <1>7, <2>2, <3>1, <3>2, <3>3
  <2> QED
    BY <2>1, <2>3 DEF BlocksOwned
<1> QED
  BY <1>8, <1>9, <1>10, <1>11 DEF Settled

\* The other callbacks of the host
LEMMA SerialHost ==
  ASSUME Serial, SerialInv,
         \/ CloseAgain \/ PayloadTooLate \/ BadPayload \/ SubscriptionEnds
         \/ Disconnect \/ BtStop
  PROVE  Settled' /\ fault' = "none"
<1>0. SerialTypes /\ fault = "none" /\ (HostRuns => pc["cloud"] = "idle" /\ pc["bt"] = "idle")
  BY SerialTyped DEF SerialInv, HostRuns, Serial
<1>1. ASSUME UNCHANGED <<upVars, pc, next, again, sdk, node, fault>>,
             source' = source \/ source' # "on"
      PROVE  Settled' /\ fault' = "none"
  BY <1>0, <1>1 DEF SerialInv, Settled, Alive, LastPayload, SourceOn,
     BlocksOwned, upVars, listVars, BlocksIn
<1>2. CASE CloseAgain
  <2>1. /\ CloseUplink /\ pc["bt"] = "close2" /\ pc["cloud"] = "idle"
        /\ node /\ source # "on"
    BY <1>2 DEF CloseAgain, At, SerialInv, ListInv, OneHandler, Settled, LastPayload
  <2> QED
    BY <1>2, <2>1, SerialClose DEF CloseAgain, sdkVars
<1>3. ~PayloadTooLate
  BY <1>0 DEF PayloadTooLate, SerialInv, Settled, SourceOn, UplinkInv, NodeNeverDangles,
     Threads
<1>4. CASE BadPayload
  BY <1>1, <1>4 DEF BadPayload, StopSource, localVars, sdkVars
<1>5. CASE SubscriptionEnds
  <2>1. ~again
    BY <1>0, <1>5 DEF SubscriptionEnds, SerialInv, Settled, LastPayload, Hand, TailSteps
  <2>2. again' = again /\ source' = "off" /\ UNCHANGED <<next, sdk, fault>>
    BY <1>5 DEF SubscriptionEnds, localVars, sdkVars
  <2>3. CASE node
    <3>1. /\ CloseUplink /\ node' = FALSE /\ again' = FALSE /\ source' # "on"
          /\ pc["cloud"] = "idle" /\ pc["bt"] \in {"idle", "close2"}
      BY <1>0, <1>5, <2>1, <2>2, <2>3 DEF SubscriptionEnds, CloseNode
    <3> QED
      BY <2>2, <2>3, <3>1, SerialClose
  <2>4. CASE ~node
    BY <1>1, <1>5, <2>2, <2>4 DEF SubscriptionEnds, CloseNode
  <2> QED
    BY <2>3, <2>4
<1>6. CASE Disconnect
  BY <1>0, <1>1, <1>6 DEF Disconnect, localVars, sdkVars
<1>7. CASE BtStop
  <2>1. ~again
    BY <1>0, <1>7 DEF BtStop, SerialInv, Settled, LastPayload, Hand, TailSteps
  <2>2. again' = again /\ source' = "off" /\ UNCHANGED <<next, sdk, fault>>
    BY <1>7 DEF BtStop, localVars, sdkVars
  <2>3. CASE node
    <3>1. /\ CloseUplink /\ node' = FALSE /\ again' = FALSE /\ source' # "on"
          /\ pc["cloud"] = "idle" /\ pc["bt"] \in {"idle", "close2"}
      BY <1>0, <1>7, <2>1, <2>2, <2>3 DEF BtStop, CloseNode
    <3> QED
      BY <2>2, <2>3, <3>1, SerialClose
  <2>4. CASE ~node
    BY <1>1, <1>7, <2>2, <2>4 DEF BtStop, CloseNode
  <2> QED
    BY <2>3, <2>4
<1> QED
  BY <1>2, <1>3, <1>4, <1>5, <1>6, <1>7

LEMMA SerialStep == ASSUME Serial PROVE SerialInv /\ [Next]_vars => SerialInv'
<1> SUFFICES ASSUME SerialInv, [Next]_vars PROVE Settled' /\ fault' = "none"
  BY StepUplink, ListStep DEF SerialInv, Serial
<1>1. CASE CloudStep
  BY <1>1, SerialCallback
<1>2. CASE ProcessUplink("bt")
  BY <1>2, SerialProcess DEF Threads
<1>3. CASE Device
  BY <1>3, SerialPayload DEF Device
<1>4. CASE CloseAgain \/ PayloadTooLate \/ BadPayload \/ SubscriptionEnds
           \/ Disconnect \/ BtStop
  BY <1>4, SerialHost
<1>5. CASE UNCHANGED vars
  BY <1>5 DEF vars, upVars, listVars, localVars, restVars, sdkVars, btVars, SerialInv,
     Settled, Alive, LastPayload, SourceOn, BlocksOwned
<1> QED
  BY <1>1, <1>2, <1>3, <1>4, <1>5 DEF Next, BtStep, Ended

\* Without preemption no handler finds an uplink that is gone, however the cloud,
\* the connection and the allocations fail.
THEOREM SerialMemorySafe == Serial => (Spec => []MemorySafe)
<1> SUFFICES ASSUME Serial PROVE Spec => []MemorySafe
  OBVIOUS
<1>1. SerialInv => MemorySafe
  BY DEF SerialInv, MemorySafe
<1>2. SerialInv /\ [Next]_vars => SerialInv'
  BY SerialStep
<1> QED
  BY <1>1, <1>2, SerialInit, PTL DEF Spec

\* Without preemption the callback of a block with the SDK finds the uplink alive
\* and SENDING set.
THEOREM CallbackAlwaysFinds == Serial => (Spec => []CallbackFindsUplink)
<1> SUFFICES ASSUME Serial PROVE Spec => []CallbackFindsUplink
  OBVIOUS
<1>1. SerialInv => CallbackFindsUplink
  BY DEF SerialInv, Settled, Alive, UplinkInv, OneHolder, CallbackFindsUplink
<1>2. SerialInv /\ [Next]_vars => SerialInv'
  BY SerialStep
<1> QED
  BY <1>1, <1>2, SerialInit, PTL DEF Spec

\* Without preemption an uplink that is freed leaves no block behind, even if a
\* block could not be allocated.
THEOREM BlocksAlwaysFreed == Serial => (Spec => []NoLeak)
<1> SUFFICES ASSUME Serial PROVE Spec => []NoLeak
  OBVIOUS
<1>1. SerialInv => NoLeak
  <2> SUFFICES ASSUME SerialInv, up = "freed" PROVE heap = 0
    BY DEF NoLeak
  <2>1. wblock = NoBlock /\ rblock = NoBlock /\ Len(queue) = 0
    BY DEF SerialInv, Settled, BlocksOwned
  <2> QED
    BY <2>1 DEF SerialInv, Settled, BlocksOwned, BlocksIn
<1>2. SerialInv /\ [Next]_vars => SerialInv'
  BY SerialStep
<1> QED
  BY <1>1, <1>2, SerialInit, PTL DEF Spec

-----------------------------------------------------------------------------
(* The last block                                                          *)

NoneRefused == \A t \in Threads : result[t] # "local"

\* Nobody closes the uplink after a handler has read CLOSED, and an open uplink
\* has a block to write to.
ClosedKnown ==
  /\ \A t \in Threads :
       pc[t] \in {"get", "unlink", "unsend"} \union Hand => (closed[t] <=> "CLOSED" \in flags)
  /\ up = "live" => ("CLOSED" \in flags <=> wblock = NoBlock)

\* Only an uplink that was never written to has an empty block.
EmptyOnly ==
  /\ \A i \in 1 .. Len(queue) : queue[i].len = 0 => wrote = 0 /\ "CLOSED" \in flags
  /\ rblock # NoBlock /\ rblock.len = 0 => wrote = 0 /\ "CLOSED" \in flags
  /\ wblock # NoBlock /\ wblock.len = 0 => wrote = 0

\* The last block of a closed uplink is marked, or on its way.
LastMarked ==
  "CLOSED" \in flags /\ wrote > 0 /\ up = "live" =>
    sentLast \/ queue # <<>> \/ \E t \in Threads : pc[t] \in Hand

\* Success is reported of a complete uplink, and nothing is sent or written later.
Reported ==
  /\ outcome # "none" =>
       up = "freed" \/ \E t \in Threads : pc[t] \in {"unsubscribe", "cleanup"}
  /\ \A t \in Threads :
       pc[t] = "end" /\ result[t] = "success" => sent = wrote /\ (wrote > 0 => sentLast)

CompleteInv ==
  NoneRefused /\ ClosedKnown /\ EmptyOnly /\ LastMarked /\ Reported /\ SuccessIsComplete

LEMMA CompleteInit == Init => CompleteInv
<1> SUFFICES ASSUME Init PROVE CompleteInv
  OBVIOUS
<1> USE DEF Init, OpenUplink, Threads
<1>1. wblock # NoBlock /\ wblock = [from |-> 0, len |-> 0] /\ wrote = 0
  BY DEF Block
<1>2. NoneRefused /\ ClosedKnown
  BY <1>1 DEF NoneRefused, ClosedKnown
<1>3. EmptyOnly
  BY <1>1 DEF EmptyOnly
<1>4. LastMarked /\ Reported /\ SuccessIsComplete
  BY DEF LastMarked, Reported, SuccessIsComplete
<1> QED
  BY <1>2, <1>3, <1>4 DEF CompleteInv

\* What the proofs below use of the other invariants.
CompleteFacts ==
  /\ pc \in [Threads -> {"idle", "close2", "end", "unsubscribe"} \union UsesUplink]
  /\ closed \in [Threads -> BOOLEAN] /\ result \in [Threads -> {"success", "local", "cloud"}]
  /\ wrote \in Nat /\ sent \in Nat /\ sentLast \in BOOLEAN
  /\ pc["cloud"] = "idle" \/ pc["bt"] = "idle"
  /\ \A t \in Threads :
       pc[t] \in UsesUplink \union {"end", "unsubscribe"} => up = "live"

LEMMA CompleteTyped == ASSUME SerialInv PROVE CompleteFacts
BY DEF SerialInv, ListInv, UplinkInv, TypeOK, OneHandler, Settled, Alive, CompleteFacts

\* process_uplink, on either thread
LEMMA CompleteProcess ==
  ASSUME Serial, SerialInv, OrderInv, CompleteInv, NEW t \in Threads, ProcessUplink(t)
  PROVE  CompleteInv'
<1>0. CompleteFacts
  BY CompleteTyped
<1> USE DEF CompleteInv, CompleteFacts, NoneRefused, ClosedKnown, EmptyOnly, LastMarked,
            Reported,
            SuccessIsComplete, Threads, Section, TailSteps, Hand, Ending, UsesUplink,
            upVars, listVars, localVars, restVars, sdkVars, btVars
<1>1. CASE TestAndSetSending(t)
  <2>1. NoneRefused' /\ ClosedKnown'
    BY <1>0, <1>1 DEF TestAndSetSending, At, Goto, Return
  <2>2. EmptyOnly'
    BY <1>0, <1>1 DEF TestAndSetSending, At, Goto, Return
  <2>3. LastMarked'
    BY <1>0, <1>1 DEF TestAndSetSending, At, Goto, Return
  <2>4. Reported'
    BY <1>0, <1>1 DEF TestAndSetSending, At, Goto, Return
  <2>5. SuccessIsComplete'
    BY <1>0, <1>1 DEF TestAndSetSending, At, Goto, Return
  <2> QED
    BY <2>1, <2>2, <2>3, <2>4, <2>5
<1>2. CASE ReadClosed(t)
  <2>1. NoneRefused' /\ ClosedKnown'
    BY <1>0, <1>2 DEF ReadClosed, At, Goto
  <2>2. EmptyOnly'
    BY <1>0, <1>2 DEF ReadClosed, At, Goto
  <2>3. LastMarked'
    BY <1>0, <1>2 DEF ReadClosed, At, Goto
  <2>4. Reported'
    BY <1>0, <1>2 DEF ReadClosed, At, Goto
  <2>5. SuccessIsComplete'
    BY <1>0, <1>2 DEF ReadClosed, At, Goto
  <2> QED
    BY <2>1, <2>2, <2>3, <2>4, <2>5
<1>3. CASE GetBlock(t)
  <2>1. NoneRefused' /\ ClosedKnown'
    BY <1>0, <1>3 DEF GetBlock, At, Goto
  <2>2. EmptyOnly'
    BY <1>0, <1>3 DEF GetBlock, At, Goto
  <2>3. LastMarked'
    BY <1>0, <1>3 DEF GetBlock, At, Goto
  <2>4. Reported'
    <3>1. CASE queue # <<>> \/ ~closed[t]
      BY <1>0, <1>3, <3>1 DEF GetBlock, At, Goto
    <3>2. CASE queue = <<>> /\ closed[t]
      <4>1. /\ pc[t] = "get" /\ up = "live" /\ "CLOSED" \in flags /\ wblock = NoBlock
            /\ \A u \in Threads : pc[u] \notin Hand
        BY <1>0, <1>3, <3>2 DEF GetBlock, At
      <4>2. Sendable /\ NextByte = sent /\ Filled = wrote
        BY <4>1 DEF Sendable, Refused, NextByte, Filled
      <4>3. sent = wrote
        BY <3>2, <4>2 DEF OrderInv, Unbroken, EndOf
      <4>4. wrote > 0 => sentLast
        BY <3>2, <4>1
      <4> QED
        BY <1>0, <1>3, <3>2, <4>1, <4>3, <4>4 DEF GetBlock, At, Goto
    <3> QED
      BY <3>1, <3>2
  <2>5. SuccessIsComplete'
    BY <1>0, <1>3 DEF GetBlock, At, Goto
  <2> QED
    BY <2>1, <2>2, <2>3, <2>4, <2>5
<1>4. CASE Unlink(t)
  <2>1. NoneRefused' /\ ClosedKnown'
    BY <1>0, <1>4 DEF Unlink, At, Goto
  <2>2. EmptyOnly'
    <3>1. /\ queue # <<>> /\ rblock' = Head(queue) /\ queue' = Tail(queue)
          /\ UNCHANGED <<flags, wblock, wrote>>
      BY <1>4, UnlinkWhole DEF Unlink, At, SerialInv, UplinkInv, BlockInHand, restVars
    <3>2. queue \in Seq(Block)
      BY DEF SerialInv, UplinkInv, TypeOK
    <3>3. /\ Len(queue) \in Nat \ {0} /\ Head(queue) = queue[1]
          /\ Len(Tail(queue)) = Len(queue) - 1
          /\ \A i \in 1 .. Len(Tail(queue)) : Tail(queue)[i] = queue[i + 1]
      BY <3>1, <3>2
    <3>4. rblock' = queue[1] /\ 1 \in 1 .. Len(queue)
      BY <3>1, <3>3
    <3>5. ASSUME NEW i \in 1 .. Len(queue')
          PROVE  \E j \in 1 .. Len(queue) : queue'[i] = queue[j]
      BY <3>1, <3>3
    <3> QED
      BY <3>1, <3>4, <3>5
  <2>3. LastMarked'
    BY <1>0, <1>4 DEF Unlink, At, Goto
  <2>4. Reported'
    BY <1>0, <1>4 DEF Unlink, At, Goto
  <2>5. SuccessIsComplete'
    BY <1>0, <1>4 DEF Unlink, At, Goto
  <2> QED
    BY <2>1, <2>2, <2>3, <2>4, <2>5
<1>5. CASE SkipEmpty(t)
  <2>1. NoneRefused' /\ ClosedKnown'
    BY <1>0, <1>5 DEF SkipEmpty, At, Goto, Return
  <2>2. EmptyOnly'
    BY <1>0, <1>5 DEF SkipEmpty, At, Goto, Return
  <2>3. LastMarked'
    <3>1. rblock # NoBlock /\ rblock.len = 0 /\ wrote' = wrote
      BY <1>5 DEF SkipEmpty, At, SerialInv, UplinkInv, BlockInHand
    <3>2. wrote' = 0
      BY <3>1
    <3> QED
      BY <3>2
  <2>4. Reported'
    BY <1>0, <1>5 DEF SkipEmpty, At, Goto, Return
  <2>5. SuccessIsComplete'
    BY <1>0, <1>5 DEF SkipEmpty, At, Goto, Return
  <2> QED
    BY <2>1, <2>2, <2>3, <2>4, <2>5
<1>6. CASE SendBlock(t)
  <2>1. NoneRefused' /\ ClosedKnown'
    BY <1>0, <1>6 DEF SendBlock, IsLastBlock, At, Goto, Return, Serial
  <2>2. EmptyOnly'
    BY <1>0, <1>6 DEF SendBlock, IsLastBlock, At, Goto, Return, Serial
  <2>3. LastMarked'
    BY <1>0, <1>6 DEF SendBlock, IsLastBlock, At, Goto, Return, Serial
  <2>4. Reported'
    BY <1>0, <1>6 DEF SendBlock, IsLastBlock, At, Goto, Return, Serial
  <2>5. SuccessIsComplete'
    BY <1>0, <1>6 DEF SendBlock, IsLastBlock, At, Goto, Return, Serial
  <2> QED
    BY <2>1, <2>2, <2>3, <2>4, <2>5
<1>7. CASE ClearSending(t)
  <2>1. NoneRefused' /\ ClosedKnown'
    BY <1>0, <1>7 DEF ClearSending, At, Goto, Return
  <2>2. EmptyOnly'
    BY <1>0, <1>7 DEF ClearSending, At, Goto, Return
  <2>3. LastMarked'
    BY <1>0, <1>7 DEF ClearSending, At, Goto, Return
  <2>4. Reported'
    BY <1>0, <1>7 DEF ClearSending, At, Goto, Return
  <2>5. SuccessIsComplete'
    BY <1>0, <1>7 DEF ClearSending, At, Goto, Return
  <2> QED
    BY <2>1, <2>2, <2>3, <2>4, <2>5
<1>8. CASE EndCb(t)
  <2>1. NoneRefused' /\ ClosedKnown'
    BY <1>0, <1>8 DEF EndCb, At, Goto
  <2>2. EmptyOnly'
    BY <1>0, <1>8 DEF EndCb, At, Goto
  <2>3. LastMarked'
    BY <1>0, <1>8 DEF EndCb, At, Goto
  <2>4. Reported'
    BY <1>0, <1>8 DEF EndCb, At, Goto
  <2>5. SuccessIsComplete'
    BY <1>0, <1>8 DEF EndCb, At, Goto
  <2> QED
    BY <2>1, <2>2, <2>3, <2>4, <2>5
<1>9. CASE Unsubscribe(t)
  <2>1. NoneRefused' /\ ClosedKnown'
    BY <1>0, <1>9 DEF Unsubscribe, At, Goto
  <2>2. EmptyOnly'
    BY <1>0, <1>9 DEF Unsubscribe, At, Goto
  <2>3. LastMarked'
    BY <1>0, <1>9 DEF Unsubscribe, At, Goto
  <2>4. Reported'
    BY <1>0, <1>9 DEF Unsubscribe, At, Goto
  <2>5. SuccessIsComplete'
    BY <1>0, <1>9 DEF Unsubscribe, At, Goto
  <2> QED
    BY <2>1, <2>2, <2>3, <2>4, <2>5
<1>10. CASE Cleanup(t)
  <2>1. NoneRefused' /\ ClosedKnown'
    BY <1>0, <1>10 DEF Cleanup, At, Goto, Return
  <2>2. EmptyOnly'
    BY <1>0, <1>10 DEF Cleanup, At, Goto, Return
  <2>3. LastMarked'
    BY <1>0, <1>10 DEF Cleanup, At, Goto, Return
  <2>4. Reported'
    BY <1>0, <1>10 DEF Cleanup, At, Goto, Return
  <2>5. SuccessIsComplete'
    BY <1>0, <1>10 DEF Cleanup, At, Goto, Return
  <2> QED
    BY <2>1, <2>2, <2>3, <2>4, <2>5
<1>11. CASE Crash(t)
  <2>1. NoneRefused' /\ ClosedKnown'
    BY <1>0, <1>11 DEF Crash
  <2>2. EmptyOnly'
    BY <1>0, <1>11 DEF Crash
  <2>3. LastMarked'
    BY <1>0, <1>11 DEF Crash
  <2>4. Reported'
    BY <1>0, <1>11 DEF Crash
  <2>5. SuccessIsComplete'
    BY <1>0, <1>11 DEF Crash
  <2> QED
    BY <2>1, <2>2, <2>3, <2>4, <2>5
<1>12. CASE TestTail(t)
  <2>1. NoneRefused' /\ ClosedKnown'
    BY <1>0, <1>12 DEF TestTail, At, Goto
  <2>2. EmptyOnly'
    BY <1>0, <1>12 DEF TestTail, At, Goto
  <2>3. LastMarked'
    BY <1>0, <1>12 DEF TestTail, At, Goto
  <2>4. Reported'
    BY <1>0, <1>12 DEF TestTail, At, Goto
  <2>5. SuccessIsComplete'
    BY <1>0, <1>12 DEF TestTail, At, Goto
  <2> QED
    BY <2>1, <2>2, <2>3, <2>4, <2>5
<1>13. CASE ResetTail(t)
  <2>1. NoneRefused' /\ ClosedKnown'
    BY <1>0, <1>13 DEF ResetTail, At, Goto
  <2>2. EmptyOnly'
    BY <1>0, <1>13 DEF ResetTail, At, Goto
  <2>3. LastMarked'
    BY <1>0, <1>13 DEF ResetTail, At, Goto
  <2>4. Reported'
    BY <1>0, <1>13 DEF ResetTail, At, Goto
  <2>5. SuccessIsComplete'
    BY <1>0, <1>13 DEF ResetTail, At, Goto
  <2> QED
    BY <2>1, <2>2, <2>3, <2>4, <2>5
<1> QED
  BY <1>1, <1>2, <1>3, <1>4, <1>5, <1>6, <1>7, <1>8, <1>9, <1>10, <1>11,
     <1>12, <1>13 DEF ProcessUplink

\* block_upload_callback, on the CoAP thread
LEMMA CompleteCallback ==
  ASSUME Serial, SerialInv, OrderInv, CompleteInv, CloudStep
  PROVE  CompleteInv'
<1>0. CompleteFacts
  BY CompleteTyped
<1> USE DEF CompleteInv, CompleteFacts, NoneRefused, ClosedKnown, EmptyOnly, LastMarked,
            Reported,
            SuccessIsComplete, Threads, Section, TailSteps, Hand, Ending, UsesUplink,
            upVars, listVars, localVars, restVars, sdkVars, btVars
<1>1. CASE \E ok \in BOOLEAN : UploadCallback(ok)
  <2>1. NoneRefused' /\ ClosedKnown' /\ EmptyOnly'
    BY <1>0, <1>1 DEF UploadCallback, Goto
  <2>2. LastMarked' /\ Reported' /\ SuccessIsComplete'
    BY <1>0, <1>1 DEF UploadCallback, Goto
  <2> QED
    BY <2>1, <2>2
<1>2. CASE TestAndClearSending
  <2>1. NoneRefused' /\ ClosedKnown' /\ EmptyOnly'
    BY <1>0, <1>2 DEF TestAndClearSending, At, Goto, Return
  <2>2. LastMarked' /\ Reported' /\ SuccessIsComplete'
    BY <1>0, <1>2 DEF TestAndClearSending, At, Goto, Return
  <2> QED
    BY <2>1, <2>2
<1>3. CASE FreeSent
  <2>1. NoneRefused' /\ ClosedKnown' /\ EmptyOnly'
    BY <1>0, <1>3 DEF FreeSent, At, Goto
  <2>2. LastMarked' /\ Reported' /\ SuccessIsComplete'
    BY <1>0, <1>3 DEF FreeSent, At, Goto
  <2> QED
    BY <2>1, <2>2
<1>4. CASE ForgetSent
  <2>1. NoneRefused' /\ ClosedKnown' /\ EmptyOnly'
    BY <1>0, <1>4 DEF ForgetSent, At, Goto
  <2>2. LastMarked' /\ Reported' /\ SuccessIsComplete'
    BY <1>0, <1>4 DEF ForgetSent, At, Goto
  <2> QED
    BY <2>1, <2>2
<1>5. CASE ProcessUplink("cloud")
  BY <1>5, CompleteProcess
<1> QED
  BY <1>1, <1>2, <1>3, <1>4, <1>5 DEF CloudStep

\* A close hands the block being filled to the list.
LEMMA CompleteClose ==
  ASSUME SerialInv, CompleteInv, CloseUplink, up = "live",
         pc["cloud"] = "idle", pc["bt"] \in {"idle", "close2"},
         UNCHANGED <<result, closed, wrote, sent, sentLast, outcome>>
  PROVE  CompleteInv'
<1>0. CompleteFacts /\ queue \in Seq(Block)
  BY CompleteTyped DEF SerialInv, UplinkInv, TypeOK
<1> USE DEF CompleteFacts, Threads, UsesUplink
<1>1. /\ pc' = [pc EXCEPT !["bt"] = "process"] /\ rblock' = rblock /\ up' = "live"
      /\ flags' = flags \union {"CLOSED"}
  BY DEF CloseUplink, Goto
<1>2. outcome = "none"
  BY <1>0 DEF CompleteInv, Reported
<1>3. NoneRefused' /\ Reported' /\ SuccessIsComplete'
  BY <1>0, <1>1, <1>2 DEF CompleteInv, NoneRefused, Reported, SuccessIsComplete
<1>4. CASE "CLOSED" \notin flags /\ wblock # NoBlock
  <2>1. queue' = queue \o <<wblock>> /\ wblock' = NoBlock
    BY <1>4, SubmitWhole DEF CloseUplink, SerialInv
  <2>2. wblock \in Block
    BY <1>4 DEF SerialInv, UplinkInv, TypeOK
  <2>3. /\ Len(queue') = Len(queue) + 1 /\ queue' # <<>>
        /\ \A i \in 1 .. Len(queue) : queue'[i] = queue[i]
        /\ queue'[Len(queue) + 1] = wblock
    BY <1>0, <2>1, <2>2
  <2>4. \A i \in 1 .. Len(queue') : i \in 1 .. Len(queue) \/ i = Len(queue) + 1
    BY <1>0, <2>3
  <2>5. EmptyOnly'
    BY <1>1, <1>4, <2>1, <2>3, <2>4 DEF CompleteInv, EmptyOnly
  <2>6. ClosedKnown' /\ LastMarked'
    BY <1>0, <1>1, <2>1, <2>3 DEF ClosedKnown, LastMarked, Hand, TailSteps
  <2> QED
    BY <1>3, <2>5, <2>6 DEF CompleteInv
<1>5. CASE "CLOSED" \in flags \/ wblock = NoBlock
  <2>1. queue' = queue /\ wblock' = wblock /\ flags' = flags
    BY <1>0, <1>1, <1>5 DEF CloseUplink, CompleteInv, ClosedKnown, listVars
  <2>2. ClosedKnown' /\ EmptyOnly' /\ LastMarked'
    BY <1>0, <1>1, <2>1 DEF CompleteInv, ClosedKnown, EmptyOnly, LastMarked, Hand,
       TailSteps
  <2> QED
    BY <1>3, <2>2 DEF CompleteInv
<1> QED
  BY <1>4, <1>5

\* With memory for every block, a write leaves an empty block only if it and the
\* uplink are empty.
LEMMA WriteFills ==
  ASSUME NEW len \in Lens, wblock \in Block, wblock # NoBlock, wrote \in Nat,
         wblock.len = 0 => wrote = 0, ~MallocFails, NEW o \in WriteOutcomes(len)
  PROVE  /\ o.ok
         /\ o.w.len = 0 => wrote + o.n = 0
         /\ \A i \in 1 .. Len(o.submit) : o.submit[i].len # 0
<1> DEFINE have == wblock.len
           fb == [wblock EXCEPT !.len = Size]
           rest == [from |-> wrote + (Size - have), len |-> len - (Size - have)]
           fits == [wblock EXCEPT !.len = have + len]
<1>1. len \in 0 .. Size /\ Size \in Nat \ {0} /\ have \in 0 .. Size
  BY DEF Block
<1>2. \/ o = [submit |-> <<>>, w |-> wblock, new |-> 0, ok |-> TRUE, n |-> 0]
      \/ /\ len # 0
         /\ o = [submit |-> <<>>, w |-> fits, new |-> 0, ok |-> TRUE, n |-> len]
      \/ /\ have + len > Size
         /\ o = [submit |-> <<fb>>, w |-> rest, new |-> 1, ok |-> TRUE, n |-> len]
  BY <1>1 DEF WriteOutcomes
<1>3. fits.len = have + len /\ fb.len = Size /\ rest.len = len - (Size - have)
  BY DEF Block
<1> HIDE DEF fb, rest, fits
<1>4. Len(<<>>) = 0 /\ Len(<<fb>>) = 1 /\ <<fb>>[1] = fb
  OBVIOUS
<1>5. CASE o = [submit |-> <<>>, w |-> wblock, new |-> 0, ok |-> TRUE, n |-> 0]
  BY <1>4, <1>5
<1>6. CASE /\ len # 0
           /\ o = [submit |-> <<>>, w |-> fits, new |-> 0, ok |-> TRUE, n |-> len]
  <2>1. o.w.len # 0
    BY <1>1, <1>3, <1>6
  <2> QED
    BY <1>4, <1>6, <2>1
<1>7. CASE /\ have + len > Size
           /\ o = [submit |-> <<fb>>, w |-> rest, new |-> 1, ok |-> TRUE, n |-> len]
  <2>1. o.w.len # 0 /\ fb.len # 0
    BY <1>1, <1>3, <1>7
  <2>2. o.ok /\ o.submit = <<fb>>
    BY <1>7
  <2> QED
    BY <1>4, <2>1, <2>2
<1> QED
  BY <1>2, <1>5, <1>6, <1>7

\* Every element of c is one of q or r.
MadeOf(c, q, r) ==
  \A i \in 1 .. Len(c) : \/ \E j \in 1 .. Len(q) : c[i] = q[j]
                         \/ \E j \in 1 .. Len(r) : c[i] = r[j]

LEMMA ConcatMade ==
  ASSUME NEW q \in Seq(Block), NEW r \in Seq(Block)
  PROVE  /\ q \o r \in Seq(Block) /\ Len(q \o r) = Len(q) + Len(r)
         /\ MadeOf(q \o r, q, r)
<1>1. /\ q \o r \in Seq(Block) /\ Len(q \o r) = Len(q) + Len(r)
      /\ Len(q) \in Nat /\ Len(r) \in Nat
  BY ConcatProperties
<1>2. ASSUME NEW i \in 1 .. Len(q \o r)
      PROVE  \/ \E j \in 1 .. Len(q) : (q \o r)[i] = q[j]
             \/ \E j \in 1 .. Len(r) : (q \o r)[i] = r[j]
  <2>1. i \in 1 .. Len(q) + Len(r)
    BY <1>1
  <2>2. (q \o r)[i] = IF i <= Len(q) THEN q[i] ELSE r[i - Len(q)]
    BY <2>1, ConcatProperties
  <2>3. IF i <= Len(q) THEN i \in 1 .. Len(q) ELSE i - Len(q) \in 1 .. Len(r)
    BY <1>1, <2>1
  <2> QED
    BY <2>2, <2>3
<1> QED
  BY <1>1, <1>2 DEF MadeOf

\* handle_uplink_payload
LEMMA CompletePayload ==
  ASSUME Serial, ~MallocFails, SerialInv, CompleteInv,
         NEW len \in Lens, NEW last \in BOOLEAN, Payload(len, last)
  PROVE  CompleteInv'
<1>0. CompleteFacts
  BY CompleteTyped
<1>1. /\ pc["cloud"] = "idle" /\ pc["bt"] = "idle" /\ up = "live"
      /\ "CLOSED" \notin flags /\ wblock # NoBlock
      /\ wblock \in Block /\ wrote \in Nat /\ queue \in Seq(Block)
      /\ wblock.len = 0 => wrote = 0
  BY DEF Payload, HostRuns, Serial, SerialInv, Settled, SourceOn, UplinkInv, TypeOK,
     CompleteInv, EmptyOnly
<1>2. PICK o \in WriteOutcomes(len) :
        LET tail == IF o.ok /\ last /\ "CLOSED" \notin flags /\ o.w # NoBlock
                    THEN <<o.w>> ELSE <<>>
        IN /\ Submit(o.submit \o tail)
           /\ wblock' = IF tail = <<>> THEN o.w ELSE NoBlock
           /\ wrote' = wrote + o.n
           /\ flags' = IF o.ok /\ last THEN flags \union {"CLOSED"} ELSE flags
           /\ IF o.ok THEN Goto("bt", "process") ELSE UNCHANGED pc
  BY DEF Payload
<1>3. /\ o.ok /\ o.w # NoBlock /\ o.submit \in Seq(Block) /\ o.w \in Block
      /\ o.w.len = 0 => wrote + o.n = 0
      /\ \A i \in 1 .. Len(o.submit) : o.submit[i].len # 0
  BY <1>1, WriteBlocks, WriteTypes, WriteFills
<1> DEFINE tail == IF last THEN <<o.w>> ELSE <<>>
<1>4. /\ tail \in Seq(Block) /\ Len(tail) = (IF last THEN 1 ELSE 0)
      /\ last => tail[1] = o.w
  BY <1>3, EmptySeq
<1>5. /\ queue' = queue \o (o.submit \o tail)
      /\ wblock' = IF last THEN NoBlock ELSE o.w
      /\ flags' = IF last THEN flags \union {"CLOSED"} ELSE flags
      /\ wrote' = wrote + o.n
      /\ pc' = [pc EXCEPT !["bt"] = "process"]
      /\ UNCHANGED <<up, rblock, closed, result, sent, sentLast, outcome>>
  BY <1>1, <1>2, <1>3, SubmitWhole DEF Payload, Goto, sdkVars, SerialInv
<1> HIDE DEF tail
<1>6. PICK q \in Seq(Block), full \in Seq(Block), rest \in Seq(Block) :
        q = queue /\ full = o.submit /\ rest = tail
  BY <1>1, <1>3, <1>4
<1>7. PICK new \in Seq(Block) :
        new = full \o rest /\ Len(new) = Len(full) + Len(rest) /\ MadeOf(new, full, rest)
  BY ConcatMade
<1>8. PICK all \in Seq(Block) :
        all = q \o new /\ Len(all) = Len(q) + Len(new) /\ MadeOf(all, q, new)
  BY ConcatMade
<1>9. queue' = all
  BY <1>5, <1>6, <1>7, <1>8
<1>10. ASSUME NEW i \in 1 .. Len(queue'), queue'[i].len = 0
       PROVE  wrote' = 0 /\ "CLOSED" \in flags'
  <2>1. /\ \A j \in 1 .. Len(q) : q[j].len # 0
        /\ \A j \in 1 .. Len(full) : full[j].len # 0
    BY <1>1, <1>3, <1>6 DEF CompleteInv, EmptyOnly
  <2>2. i \in 1 .. Len(all) /\ all[i].len = 0
    BY <1>9, <1>10
  <2>3. PICK j \in 1 .. Len(new) : all[i] = new[j]
    BY <1>8, <2>1, <2>2 DEF MadeOf
  <2>4. PICK k \in 1 .. Len(rest) : new[j] = rest[k]
    BY <1>7, <2>1, <2>2, <2>3 DEF MadeOf
  <2>5. last /\ all[i] = o.w
    BY <1>4, <1>6, <2>3, <2>4
  <2> QED
    BY <1>3, <1>5, <2>2, <2>5
<1>11. EmptyOnly'
  <2>1. rblock' # NoBlock => rblock'.len # 0
    BY <1>1, <1>5 DEF CompleteInv, EmptyOnly
  <2>2. wblock' # NoBlock /\ wblock'.len = 0 => wrote' = 0
    BY <1>3, <1>5
  <2> QED
    BY <1>10, <2>1, <2>2 DEF EmptyOnly
<1>12. last => queue' # <<>>
  <2>1. last => Len(all) # 0
    BY <1>4, <1>6, <1>7, <1>8
  <2> QED
    BY <1>9, <2>1
<1>13. LastMarked'
  BY <1>1, <1>5, <1>12 DEF LastMarked
<1>14. outcome = "none"
  BY <1>0, <1>1 DEF CompleteInv, Reported, Threads
<1>15. pc'["cloud"] = "idle" /\ pc'["bt"] = "process"
  BY <1>0, <1>1, <1>5 DEF CompleteFacts, Threads
<1>16. NoneRefused' /\ ClosedKnown' /\ Reported' /\ SuccessIsComplete'
  BY <1>1, <1>3, <1>5, <1>14, <1>15 DEF CompleteInv, NoneRefused, ClosedKnown, Reported,
     SuccessIsComplete, Threads, Hand, TailSteps
<1> QED
  BY <1>11, <1>13, <1>16 DEF CompleteInv

\* The other callbacks of the host
LEMMA CompleteHost ==
  ASSUME Serial, SerialInv, CompleteInv,
         \/ CloseAgain \/ PayloadTooLate \/ BadPayload \/ SubscriptionEnds
         \/ Disconnect \/ BtStop
  PROVE  CompleteInv'
<1>0. /\ HostRuns => pc["cloud"] = "idle" /\ pc["bt"] = "idle"
      /\ node => up = "live"
      /\ pc["bt"] = "close2" => up = "live" /\ pc["cloud"] = "idle"
  BY DEF HostRuns, Serial, SerialInv, Settled, LastPayload, UplinkInv, NodeNeverDangles,
     ListInv, OneHandler
<1>1. ASSUME UNCHANGED <<upVars, pc, closed, result, sdkVars, wrote, outcome>>
      PROVE  CompleteInv'
  BY <1>1 DEF CompleteInv, NoneRefused, ClosedKnown, EmptyOnly, LastMarked, Reported,
     SuccessIsComplete, upVars, listVars, sdkVars
<1>2. CASE CloseAgain
  BY <1>0, <1>2, CompleteClose DEF CloseAgain, At, sdkVars
<1>3. CASE PayloadTooLate \/ BadPayload \/ Disconnect
  BY <1>1, <1>3 DEF PayloadTooLate, BadPayload, Disconnect, localVars
<1>4. CASE SubscriptionEnds
  BY <1>0, <1>1, <1>4, CompleteClose DEF SubscriptionEnds, CloseNode, localVars, sdkVars
<1>5. CASE BtStop
  BY <1>0, <1>1, <1>5, CompleteClose DEF BtStop, CloseNode, localVars, sdkVars
<1> QED
  BY <1>2, <1>3, <1>4, <1>5

LEMMA CompleteStep ==
  ASSUME Serial, ~MallocFails
  PROVE  SerialInv /\ OrderInv /\ CompleteInv /\ [Next]_vars => CompleteInv'
<1> SUFFICES ASSUME SerialInv, OrderInv, CompleteInv, [Next]_vars PROVE CompleteInv'
  OBVIOUS
<1>1. CASE CloudStep
  BY <1>1, CompleteCallback
<1>2. CASE ProcessUplink("bt")
  BY <1>2, CompleteProcess DEF Threads
<1>3. CASE Device
  BY <1>3, CompletePayload DEF Device
<1>4. CASE CloseAgain \/ PayloadTooLate \/ BadPayload \/ SubscriptionEnds
           \/ Disconnect \/ BtStop
  BY <1>4, CompleteHost
<1>5. CASE UNCHANGED vars
  BY <1>5 DEF vars, upVars, listVars, localVars, restVars, sdkVars, btVars, CompleteInv,
     NoneRefused, ClosedKnown, EmptyOnly, LastMarked, Reported, SuccessIsComplete
<1> QED
  BY <1>1, <1>2, <1>3, <1>4, <1>5 DEF Next, BtStep, Ended

\* Without preemption, and with memory for every block, an uplink that reports
\* success gave the SDK every byte it accepted and marked the last block.
THEOREM SuccessAlwaysComplete == Serial /\ ~MallocFails => (Spec => []SuccessIsComplete)
<1> SUFFICES ASSUME Serial, ~MallocFails PROVE Spec => []SuccessIsComplete
  OBVIOUS
<1>1. SerialInv /\ [Next]_vars => SerialInv'
  BY SerialStep
<1>2. OrderInv /\ [Next]_vars => OrderInv'
  BY OrderStep DEF Serial
<1>3. SerialInv /\ OrderInv /\ CompleteInv /\ [Next]_vars => CompleteInv'
  BY CompleteStep
<1>4. CompleteInv => SuccessIsComplete
  BY DEF CompleteInv
<1> QED
  BY <1>1, <1>2, <1>3, <1>4, SerialInit, OrderInit, CompleteInit, PTL DEF Spec

-----------------------------------------------------------------------------
(* The uplink is a stream of blocks                                        *)

\* A block on its way is full, or the last one of a closed uplink.
Cut(b) ==
  /\ After(b) <= wrote
  /\ b.len = Size \/ (After(b) = wrote /\ "CLOSED" \in flags)

Cuts ==
  /\ \A i \in 1 .. Len(queue) : Cut(queue[i])
  /\ \A t \in Threads : pc[t] \in Hand => Cut(rblock)

\* What is reported, and when: a block that failed ends the uplink in the callback
\* that says so, and all others end when they are closed.
Verdicts ==
  /\ ~status => up = "freed" \/ pc["cloud"] \in {"delivered", "free", "null"} \union Ending
  /\ \A t \in Threads :
       /\ pc[t] = "end" => result[t] = IF status THEN "success" ELSE "cloud"
       /\ pc[t] = "end" /\ status => "CLOSED" \in flags
       /\ pc[t] \in {"unsubscribe", "cleanup"} => outcome # "none"

UploadInv == Cuts /\ Verdicts

LEMMA UploadInit == Init => UploadInv
BY DEF Init, OpenUplink, UploadInv, Cuts, Verdicts, Threads, Hand, TailSteps

\* Verdicts is about the ends of the handlers.
LEMMA VerdictsProcess ==
  ASSUME Serial, SerialInv, CompleteInv, Verdicts, NEW t \in Threads, ProcessUplink(t)
  PROVE  Verdicts'
<1>0. /\ CompleteFacts /\ Misuse(t) = "none" /\ status \in BOOLEAN
      /\ pc[t] \in {"get", "unlink", "unsend"} \union Hand => (closed[t] <=> "CLOSED" \in flags)
  BY CompleteTyped, NoMisuse DEF CompleteInv, ClosedKnown, SerialInv, UplinkInv, TypeOK
<1> USE DEF Verdicts, CompleteFacts, Threads, Section, TailSteps, Hand, Ending, UsesUplink,
            upVars, listVars, localVars, restVars, sdkVars, btVars
<1>1. CASE TestAndSetSending(t)
  BY <1>0, <1>1 DEF TestAndSetSending, At, Goto, Return
<1>2. CASE ReadClosed(t)
  BY <1>0, <1>2 DEF ReadClosed, At, Goto
<1>3. CASE GetBlock(t)
  BY <1>0, <1>3 DEF GetBlock, At, Goto
<1>4. CASE Unlink(t)
  BY <1>0, <1>4 DEF Unlink, At, Goto
<1>5. CASE SkipEmpty(t)
  BY <1>0, <1>5 DEF SkipEmpty, At, Goto, Return
<1>6. CASE SendBlock(t)
  BY <1>0, <1>6 DEF SendBlock, At, Goto, Return, Serial
<1>7. CASE ClearSending(t)
  BY <1>0, <1>7 DEF ClearSending, At, Goto, Return
<1>8. CASE EndCb(t)
  BY <1>0, <1>8 DEF EndCb, At, Goto
<1>9. CASE Unsubscribe(t)
  BY <1>0, <1>9 DEF Unsubscribe, At, Goto
<1>10. CASE Cleanup(t)
  BY <1>0, <1>10 DEF Cleanup, At, Goto, Return
<1>11. CASE Crash(t)
  BY <1>0, <1>11 DEF Crash
<1>12. CASE TestTail(t)
  BY <1>0, <1>12 DEF TestTail, At, Goto
<1>13. CASE ResetTail(t)
  BY <1>0, <1>13 DEF ResetTail, At, Goto
<1> QED
  BY <1>1, <1>2, <1>3, <1>4, <1>5, <1>6, <1>7, <1>8, <1>9, <1>10, <1>11,
     <1>12, <1>13 DEF ProcessUplink

LEMMA VerdictsStep ==
  ASSUME Serial, SerialInv, CompleteInv, Verdicts, [Next]_vars
  PROVE  Verdicts'
<1>0. /\ CompleteFacts /\ status \in BOOLEAN
      /\ pc["cloud"] = "delivered" => "SENDING" \in flags
      /\ again => node
      /\ node => up = "live"
  BY CompleteTyped DEF SerialInv, UplinkInv, TypeOK, OneHolder, Holds, Threads, Settled,
     LastPayload, NodeNeverDangles
<1>1. ASSUME NEW ok \in BOOLEAN, UploadCallback(ok) PROVE Verdicts'
  BY <1>0, <1>1 DEF UploadCallback, Goto, Verdicts, CompleteFacts, Threads, Ending,
     UsesUplink,
     upVars
<1>2. CASE TestAndClearSending \/ FreeSent \/ ForgetSent
  BY <1>0, <1>2 DEF TestAndClearSending, FreeSent, ForgetSent, At, Goto, Verdicts,
     CompleteFacts, Threads, Ending, UsesUplink, restVars, sdkVars
<1>3. CASE \E t \in Threads : ProcessUplink(t)
  BY <1>3, VerdictsProcess
<1>4. ASSUME pc' = pc \/ (pc["bt"] \in {"idle", "close2"} /\ pc' = [pc EXCEPT !["bt"] = "process"]),
             "CLOSED" \in flags => "CLOSED" \in flags',
             UNCHANGED <<up, status, result, outcome>>
      PROVE  Verdicts'
  BY <1>0, <1>4 DEF Verdicts, CompleteFacts, Threads, Ending
<1>5. CASE Device
  BY <1>4, <1>5 DEF Device, Payload, HostRuns, Goto, sdkVars
<1>6. CASE CloseAgain
  BY <1>4, <1>6 DEF CloseAgain, CloseUplink, At, Goto, sdkVars
<1>7. CASE PayloadTooLate \/ BadPayload \/ Disconnect
  BY <1>4, <1>7 DEF PayloadTooLate, BadPayload, Disconnect, upVars, localVars, sdkVars
<1>8. CASE SubscriptionEnds \/ BtStop
  BY <1>4, <1>8 DEF SubscriptionEnds, BtStop, HostRuns, CloseNode, CloseUplink, Goto,
     upVars,
     localVars, sdkVars
<1>9. CASE UNCHANGED vars
  BY <1>4, <1>9 DEF vars, upVars, localVars, restVars, sdkVars
<1> QED
  BY <1>1, <1>2, <1>3, <1>5, <1>6, <1>7, <1>8, <1>9 DEF Next, CloudStep, BtStep, Ended,
     Threads

\* Nothing happens to the blocks, and an uplink that was closed stays so.
LEMMA CutsKept ==
  ASSUME Cuts, UNCHANGED <<rblock, queue, wrote>>,
         "CLOSED" \in flags => "CLOSED" \in flags',
         \A t \in Threads : pc'[t] \in Hand => pc[t] \in Hand
  PROVE  Cuts'
BY DEF Cuts, Cut, After

LEMMA CutsProcess ==
  ASSUME Serial, SerialInv, Cuts, NEW t \in Threads, ProcessUplink(t)
  PROVE  Cuts'
<1>0. /\ pc \in [Threads -> {"idle", "close2", "end", "unsubscribe"} \union UsesUplink]
      /\ queue \in Seq(Block) /\ Misuse(t) = "none" /\ fault = "none"
      /\ ~\E u \in Threads : u # t /\ pc[u] \in Hand /\ pc[t] # "idle"
  BY NoMisuse DEF SerialInv, ListInv, UplinkInv, TypeOK, OneHandler, Threads, Hand,
     TailSteps
<1> USE DEF Threads, Hand, TailSteps, upVars, listVars, localVars, restVars, sdkVars, btVars
<1>1. CASE TestAndSetSending(t)
  BY <1>0, <1>1, CutsKept DEF TestAndSetSending, At, Goto, Return
<1>2. CASE ReadClosed(t)
  BY <1>0, <1>2, CutsKept DEF ReadClosed, At, Goto
<1>3. CASE GetBlock(t)
  BY <1>0, <1>3, CutsKept DEF GetBlock, At, Goto
<1>4. CASE Unlink(t)
  <2>1. /\ queue # <<>> /\ rblock' = Head(queue) /\ queue' = Tail(queue)
        /\ UNCHANGED <<flags, wrote>>
    BY <1>4, UnlinkWhole DEF Unlink, At, SerialInv, UplinkInv, BlockInHand
  <2>2. /\ Len(queue) \in Nat \ {0} /\ Head(queue) = queue[1]
        /\ Len(Tail(queue)) = Len(queue) - 1
        /\ \A i \in 1 .. Len(Tail(queue)) : Tail(queue)[i] = queue[i + 1]
    BY <1>0, <2>1
  <2>3. rblock' = queue[1] /\ 1 \in 1 .. Len(queue)
    BY <2>1, <2>2
  <2>4. ASSUME NEW i \in 1 .. Len(queue')
        PROVE  \E j \in 1 .. Len(queue) : queue'[i] = queue[j]
    BY <2>1, <2>2
  <2> QED
    BY <2>1, <2>3, <2>4 DEF Cuts, Cut, After
<1>5. CASE SkipEmpty(t)
  <2>1. /\ UNCHANGED <<queue, wrote>> /\ ("CLOSED" \in flags => "CLOSED" \in flags')
        /\ \A u \in Threads : pc'[u] \notin Hand
    BY <1>0, <1>5 DEF SkipEmpty, At, Goto, Return
  <2> QED
    BY <2>1 DEF Cuts, Cut, After
<1>6. CASE SendBlock(t)
  BY <1>0, <1>6, CutsKept DEF SendBlock, At, Goto, Return
<1>7. CASE ClearSending(t)
  BY <1>0, <1>7, CutsKept DEF ClearSending, At, Goto, Return
<1>8. CASE EndCb(t)
  BY <1>0, <1>8, CutsKept DEF EndCb, At, Goto
<1>9. CASE Unsubscribe(t)
  BY <1>0, <1>9, CutsKept DEF Unsubscribe, At, Goto
<1>10. CASE Cleanup(t)
  <2>1. queue' = <<>> /\ \A u \in Threads : pc'[u] \notin Hand
    BY <1>0, <1>10 DEF Cleanup, At, Goto, Return
  <2> QED
    BY <2>1 DEF Cuts
<1>11. CASE Crash(t)
  BY <1>0, <1>11 DEF Crash
<1>12. CASE TestTail(t)
  BY <1>0, <1>12, CutsKept DEF TestTail, At, Goto
<1>13. CASE ResetTail(t)
  BY <1>0, <1>13, CutsKept DEF ResetTail, At, Goto
<1> QED
  BY <1>1, <1>2, <1>3, <1>4, <1>5, <1>6, <1>7, <1>8, <1>9, <1>10, <1>11,
     <1>12, <1>13 DEF ProcessUplink

LEMMA CutsCallback ==
  ASSUME Serial, SerialInv, Cuts, CloudStep
  PROVE  Cuts'
<1>0. /\ pc \in [Threads -> {"idle", "close2", "end", "unsubscribe"} \union UsesUplink]
      /\ pc["cloud"] = "idle" \/ pc["bt"] = "idle"
  BY DEF SerialInv, ListInv, UplinkInv, TypeOK, OneHandler
<1> USE DEF Threads, Hand, TailSteps, upVars, listVars, restVars, sdkVars
<1>1. CASE \E ok \in BOOLEAN : UploadCallback(ok)
  BY <1>0, <1>1, CutsKept DEF UploadCallback, Goto
<1>2. CASE TestAndClearSending \/ FreeSent
  BY <1>0, <1>2, CutsKept DEF TestAndClearSending, FreeSent, At, Goto, Return
<1>3. CASE ForgetSent
  <2>1. UNCHANGED <<queue, flags, wrote>> /\ \A u \in Threads : pc'[u] \notin Hand
    BY <1>0, <1>3 DEF ForgetSent, At, Goto
  <2> QED
    BY <2>1 DEF Cuts, Cut, After
<1>4. CASE ProcessUplink("cloud")
  BY <1>4, CutsProcess
<1> QED
  BY <1>1, <1>2, <1>3, <1>4 DEF CloudStep

\* New blocks behind those of an open uplink, all of which are full
LEMMA CutsAppend ==
  ASSUME SerialInv, Cuts, NEW blocks \in Seq(Block), queue' = queue \o blocks,
         "CLOSED" \notin flags, wrote \in Int, wrote' \in Int, wrote <= wrote',
         \A i \in 1 .. Len(blocks) : Cut(blocks[i])',
         \A t \in Threads : pc'[t] \notin Hand
  PROVE  Cuts'
<1>1. PICK q \in Seq(Block) : q = queue
  BY DEF SerialInv, UplinkInv, TypeOK
<1>2. PICK all \in Seq(Block) : all = q \o blocks /\ MadeOf(all, q, blocks)
  BY <1>1, ConcatMade
<1>3. queue' = all
  BY <1>1, <1>2
<1>4. ASSUME NEW i \in 1 .. Len(q) PROVE Cut(q[i])'
  <2>1. After(q[i]) <= wrote /\ q[i].len = Size
    BY <1>1 DEF Cuts, Cut
  <2>2. q[i] \in Block
    BY ElementOfSeq
  <2>3. After(q[i]) \in Int
    BY <2>2 DEF After, Block
  <2> QED
    BY <2>1, <2>3 DEF Cut, After
<1>5. ASSUME NEW i \in 1 .. Len(all) PROVE Cut(all[i])'
  BY <1>2, <1>4 DEF MadeOf
<1> QED
  BY <1>3, <1>5 DEF Cuts

\* A write submits full blocks only.
LEMMA WriteCuts ==
  ASSUME NEW len \in Lens, wblock \in Block, wblock # NoBlock, wrote \in Nat,
         After(wblock) = wrote, ~MallocFails, NEW o \in WriteOutcomes(len)
  PROVE  \A i \in 1 .. Len(o.submit) :
           o.submit[i].len = Size /\ After(o.submit[i]) <= wrote + o.n
<1> DEFINE have == wblock.len
           fb == [wblock EXCEPT !.len = Size]
           rest == [from |-> wrote + (Size - have), len |-> len - (Size - have)]
           fits == [wblock EXCEPT !.len = have + len]
<1>1. /\ len \in 0 .. Size /\ Size \in Nat /\ have \in 0 .. Size
      /\ wblock.from \in Nat /\ wblock.from + have = wrote
  BY DEF Block, After
<1>2. \/ o = [submit |-> <<>>, w |-> wblock, new |-> 0, ok |-> TRUE, n |-> 0]
      \/ o = [submit |-> <<>>, w |-> fits, new |-> 0, ok |-> TRUE, n |-> len]
      \/ /\ have + len > Size
         /\ o = [submit |-> <<fb>>, w |-> rest, new |-> 1, ok |-> TRUE, n |-> len]
  BY <1>1 DEF WriteOutcomes
<1>3. fb.len = Size /\ fb.from = wblock.from
  BY DEF Block
<1> HIDE DEF fb, rest, fits
<1>4. Len(<<>>) = 0 /\ Len(<<fb>>) = 1 /\ <<fb>>[1] = fb
  OBVIOUS
<1>5. CASE o.submit = <<>>
  BY <1>4, <1>5
<1>6. CASE /\ have + len > Size
           /\ o = [submit |-> <<fb>>, w |-> rest, new |-> 1, ok |-> TRUE, n |-> len]
  <2>1. o.submit = <<fb>> /\ o.n = len
    BY <1>6
  <2>2. After(fb) <= wrote + len
    BY <1>1, <1>3, <1>6 DEF After
  <2> QED
    BY <1>3, <1>4, <2>1, <2>2
<1> QED
  BY <1>2, <1>5, <1>6

\* handle_uplink_payload
LEMMA CutsPayload ==
  ASSUME Serial, ~MallocFails, SerialInv, OrderInv, CompleteInv, Cuts,
         NEW len \in Lens, NEW last \in BOOLEAN, Payload(len, last)
  PROVE  Cuts'
<1>1. /\ pc["cloud"] = "idle" /\ pc["bt"] = "idle" /\ up = "live"
      /\ "CLOSED" \notin flags /\ wblock # NoBlock
      /\ wblock \in Block /\ wrote \in Nat /\ After(wblock) = wrote
      /\ wblock.len = 0 => wrote = 0
  BY DEF Payload, HostRuns, Serial, SerialInv, Settled, SourceOn, UplinkInv, TypeOK,
     CompleteInv, EmptyOnly, OrderInv, Unbroken
<1>2. PICK o \in WriteOutcomes(len) :
        LET tail == IF o.ok /\ last /\ "CLOSED" \notin flags /\ o.w # NoBlock
                    THEN <<o.w>> ELSE <<>>
        IN /\ Submit(o.submit \o tail)
           /\ wrote' = wrote + o.n
           /\ flags' = IF o.ok /\ last THEN flags \union {"CLOSED"} ELSE flags
           /\ IF o.ok THEN Goto("bt", "process") ELSE UNCHANGED pc
  BY DEF Payload
<1>3. /\ o.ok /\ o.w # NoBlock /\ o.submit \in Seq(Block) /\ o.w \in Block /\ o.n \in Nat
      /\ After(o.w) = wrote + o.n
      /\ \A i \in 1 .. Len(o.submit) :
           o.submit[i].len = Size /\ After(o.submit[i]) <= wrote + o.n
  BY <1>1, WriteBlocks, WriteTypes, WriteFills, WriteOrder, WriteCuts
<1> DEFINE tail == IF last THEN <<o.w>> ELSE <<>>
<1>4. /\ tail \in Seq(Block) /\ Len(tail) = (IF last THEN 1 ELSE 0)
      /\ last => tail[1] = o.w
  BY <1>3, EmptySeq
<1>5. /\ queue' = queue \o (o.submit \o tail)
      /\ flags' = IF last THEN flags \union {"CLOSED"} ELSE flags
      /\ wrote' = wrote + o.n
      /\ pc' = [pc EXCEPT !["bt"] = "process"]
  BY <1>1, <1>2, <1>3, SubmitWhole DEF Goto, SerialInv
<1> HIDE DEF tail
<1>6. PICK full \in Seq(Block), rest \in Seq(Block) : full = o.submit /\ rest = tail
  BY <1>3, <1>4
<1>7. PICK new \in Seq(Block) : new = full \o rest /\ MadeOf(new, full, rest)
  BY ConcatMade
<1>8. \A i \in 1 .. Len(full) : Cut(full[i])'
  BY <1>3, <1>5, <1>6 DEF Cut, After
<1>9. \A i \in 1 .. Len(rest) : Cut(rest[i])'
  <2>1. ASSUME NEW i \in 1 .. Len(rest) PROVE last /\ rest[i] = o.w
    BY <1>4, <1>6
  <2>2. last => Cut(o.w)'
    BY <1>1, <1>3, <1>5 DEF Cut, After
  <2> QED
    BY <2>1, <2>2 DEF Cut, After
<1>10. \A i \in 1 .. Len(new) : Cut(new[i])'
  BY <1>7, <1>8, <1>9 DEF MadeOf
<1>11. \A t \in Threads : pc'[t] \notin Hand
  BY <1>1, <1>5 DEF Threads, Hand, TailSteps, SerialInv, UplinkInv, TypeOK
<1>12. queue' = queue \o new /\ wrote <= wrote' /\ wrote \in Int /\ wrote' \in Int
  BY <1>1, <1>3, <1>5, <1>6, <1>7
<1> QED
  BY <1>1, <1>10, <1>11, <1>12, CutsAppend

\* pouch_gateway_uplink_close, outside the handlers that have a block in hand
LEMMA CutsClose ==
  ASSUME SerialInv, OrderInv, Cuts, CloseUplink,
         pc["cloud"] = "idle", pc["bt"] \in {"idle", "close2"}, UNCHANGED wrote
  PROVE  Cuts'
<1>1. /\ pc' = [pc EXCEPT !["bt"] = "process"] /\ UNCHANGED rblock
      /\ flags' = flags \union {"CLOSED"}
      /\ wrote \in Int
      /\ wblock # NoBlock => wblock \in Block /\ After(wblock) = wrote
  BY DEF CloseUplink, Goto, SerialInv, UplinkInv, TypeOK, OrderInv, Unbroken
<1>2. \A t \in Threads : pc'[t] \notin Hand
  BY <1>1 DEF Threads, Hand, TailSteps, SerialInv, UplinkInv, TypeOK
<1>3. CASE "CLOSED" \notin flags /\ wblock # NoBlock
  <2>1. queue' = queue \o <<wblock>> /\ wblock \in Block
    BY <1>1, <1>3, SubmitWhole DEF CloseUplink, SerialInv
  <2>2. PICK b \in Block : b = wblock
    BY <2>1
  <2>3. <<b>> \in Seq(Block) /\ Len(<<b>>) = 1 /\ <<b>>[1] = b
    OBVIOUS
  <2>4. After(b) = wrote
    BY <1>1, <1>3, <2>2
  <2>5. Cut(b)'
    BY <1>1, <2>4 DEF Cut, After
  <2>6. \A i \in 1 .. Len(<<b>>) : Cut(<<b>>[i])'
    BY <2>3, <2>5 DEF Cut, After
  <2>7. queue' = queue \o <<b>> /\ wrote' = wrote /\ wrote <= wrote
    BY <1>1, <2>1, <2>2
  <2> QED
    BY <1>1, <1>2, <1>3, <2>3, <2>6, <2>7, CutsAppend
<1>4. CASE "CLOSED" \in flags \/ wblock = NoBlock
  <2>1. UNCHANGED queue
    BY <1>4 DEF CloseUplink, listVars
  <2> QED
    BY <1>1, <1>2, <2>1, CutsKept
<1> QED
  BY <1>3, <1>4

LEMMA CutsStep ==
  ASSUME Serial, ~MallocFails, SerialInv, OrderInv, CompleteInv, Cuts, [Next]_vars
  PROVE  Cuts'
<1>0. /\ HostRuns => pc["cloud"] = "idle" /\ pc["bt"] = "idle"
      /\ pc["bt"] = "close2" => pc["cloud"] = "idle"
  BY DEF HostRuns, Serial, SerialInv, ListInv, OneHandler
<1>1. CASE CloudStep
  BY <1>1, CutsCallback
<1>2. CASE ProcessUplink("bt")
  BY <1>2, CutsProcess DEF Threads
<1>3. CASE Device
  BY <1>3, CutsPayload DEF Device
<1>4. CASE CloseAgain
  BY <1>0, <1>4, CutsClose DEF CloseAgain, At
<1>5. CASE UNCHANGED <<upVars, pc, wrote>>
  BY <1>5, CutsKept DEF upVars, listVars
<1>6. CASE SubscriptionEnds \/ BtStop
  BY <1>0, <1>5, <1>6, CutsClose DEF SubscriptionEnds, BtStop, CloseNode
<1>7. CASE PayloadTooLate \/ BadPayload \/ Disconnect \/ UNCHANGED vars
  BY <1>5, <1>7 DEF PayloadTooLate, BadPayload, Disconnect, vars, restVars
<1> QED
  BY <1>1, <1>2, <1>3, <1>4, <1>6, <1>7 DEF Next, BtStep, Ended

\* What a step does that the stream does not see.
LEMMA UploadStutters ==
  ASSUME UNCHANGED <<wrote, sent, sdk, sentLast, status, outcome, up>>,
         "CLOSED" \in flags' <=> "CLOSED" \in flags
  PROVE  UNCHANGED Upload!vars
<1>1. ("CLOSED" \in flags)' = ("CLOSED" \in flags)
  OBVIOUS
<1> QED
  BY <1>1 DEF Upload!vars

\* A block in hand ends at the last byte only if the uplink is closed and no
\* block follows it, and then it does.
LEMMA LastInHand ==
  ASSUME SerialInv, OrderInv, CompleteInv, Cuts, NEW t \in Threads,
         pc[t] = "send", up = "live", rblock \in Block, rblock.len > 0
  PROVE  /\ rblock.from = sent
         /\ IsLastBlock(t) <=> After(rblock) = wrote
         /\ After(rblock) < wrote => rblock.len = Size
         /\ After(rblock) <= wrote
<1>1. /\ queue \in Seq(Block) /\ wrote \in Nat /\ pc[t] \in Hand
      /\ wblock \in Block \union {NoBlock}
      /\ closed[t] <=> "CLOSED" \in flags
      /\ "CLOSED" \in flags <=> wblock = NoBlock
      /\ After(rblock) \in Nat
  BY DEF SerialInv, UplinkInv, TypeOK, CompleteInv, ClosedKnown, After, Block, Hand
<1>2. Sendable
  BY DEF Sendable, Refused, CompleteInv, NoneRefused
<1>3. /\ rblock.from = sent /\ NextByte = After(rblock)
      /\ Follows(queue, After(rblock)) /\ EndOf(queue, After(rblock)) = Filled
      /\ wblock # NoBlock => After(wblock) = wrote
  BY <1>1, <1>2 DEF OrderInv, Unbroken, NextByte
<1>4. /\ After(rblock) <= wrote
      /\ rblock.len = Size \/ (After(rblock) = wrote /\ "CLOSED" \in flags)
  BY <1>1 DEF Cuts, Cut
<1>5. wrote > 0
  <2>1. rblock.from \in Nat /\ rblock.len \in Nat
    BY DEF Block
  <2> QED
    BY <1>1, <1>4, <2>1 DEF After
<1>6. CASE queue # <<>>
  <2>1. /\ 1 \in 1 .. Len(queue) /\ queue[1] \in Block /\ queue[1].from = After(rblock)
        /\ queue[1].len # 0
    <3>1. Len(queue) \in Nat /\ Len(queue) # 0
      BY <1>1, <1>6, EmptySeq, LenProperties
    <3>2. 1 \in 1 .. Len(queue)
      BY <3>1
    <3> QED
      BY <1>1, <1>3, <1>5, <3>2, ElementOfSeq DEF Follows, CompleteInv, EmptyOnly
  <2>2. After(queue[1]) <= wrote /\ After(rblock) < After(queue[1])
    BY <1>1, <2>1 DEF Cuts, Cut, After, Block
  <2>3. After(rblock) < wrote
    BY <1>1, <2>1, <2>2 DEF After, Block
  <2> QED
    BY <1>1, <1>3, <1>4, <1>6, <2>3 DEF IsLastBlock
<1>7. CASE queue = <<>> /\ "CLOSED" \in flags
  <2>1. After(rblock) = wrote
    BY <1>1, <1>3, <1>7 DEF EndOf, Filled
  <2> QED
    BY <1>1, <1>3, <1>7, <2>1 DEF IsLastBlock
<1>8. CASE queue = <<>> /\ "CLOSED" \notin flags
  <2>1. wblock # NoBlock /\ wblock \in Block /\ wblock.len # 0
    BY <1>1, <1>5, <1>8 DEF CompleteInv, EmptyOnly
  <2>2. After(rblock) = wblock.from /\ After(wblock) = wrote
    BY <1>3, <1>8, <2>1 DEF EndOf, Filled
  <2>3. After(rblock) < wrote
    BY <2>1, <2>2 DEF After, Block
  <2> QED
    BY <1>1, <1>3, <1>4, <1>8, <2>3 DEF IsLastBlock
<1> QED
  BY <1>6, <1>7, <1>8

\* process_uplink, on either thread: a block is given, or the end is reported, or
\* the uplink freed.
LEMMA ProcessUploads ==
  ASSUME Serial, SerialInv, OrderInv, CompleteInv, UploadInv,
         NEW t \in Threads, ProcessUplink(t)
  PROVE  [Upload!Next]_(Upload!vars)
<1>0. /\ Misuse(t) = "none" /\ CompleteFacts /\ status \in BOOLEAN
      /\ pc[t] \in Section \union Ending => sdk = "idle"
      /\ pc[t] = "send" => rblock \in Block
      /\ pc[t] \in {"send", "end"} => outcome = "none"
      /\ pc[t] = "send" => status
  <2>1. Misuse(t) = "none" /\ CompleteFacts /\ status \in BOOLEAN
    BY NoMisuse, CompleteTyped DEF SerialInv, UplinkInv, TypeOK
  <2>2. pc[t] \in Section \union Ending => sdk = "idle"
    BY DEF SerialInv, UplinkInv, OneHolder, Holds, Settled, Alive
  <2>3. pc[t] = "send" => rblock \in Block
    BY DEF SerialInv, UplinkInv, TypeOK, BlockInHand, Hand
  <2>4. pc[t] \in {"send", "end"} => outcome = "none" /\ up = "live"
    BY <2>1 DEF CompleteFacts, CompleteInv, Reported, Threads, UsesUplink
  <2>5. pc[t] = "send" => status
    BY <2>1, <2>4 DEF CompleteFacts, UploadInv, Verdicts, Threads, Ending
  <2> QED
    BY <2>1, <2>2, <2>3, <2>4, <2>5
<1> USE DEF upVars, listVars, localVars, restVars, sdkVars, btVars
<1>1. CASE TestAndSetSending(t) \/ ReadClosed(t) \/ GetBlock(t) \/ Unlink(t)
           \/ TestTail(t) \/ ResetTail(t) \/ SkipEmpty(t) \/ ClearSending(t)
           \/ Unsubscribe(t)
  BY <1>1, UploadStutters DEF TestAndSetSending, ReadClosed, GetBlock, Unlink, TestTail,
     ResetTail, SkipEmpty, ClearSending, Unsubscribe
<1>2. CASE SendBlock(t)
  <2>1. /\ pc[t] = "send" /\ rblock \in Block /\ rblock.len > 0 /\ up = "live"
        /\ sdk = "idle" /\ status /\ outcome = "none"
    BY <1>0, <1>2 DEF SendBlock, At, CompleteFacts, UsesUplink, Section
  <2>2. /\ sdk' = "busy" /\ sent' = After(rblock)
        /\ sentLast' = (sentLast \/ IsLastBlock(t))
        /\ UNCHANGED <<up, flags, wrote, status, outcome>>
    BY <1>2 DEF SendBlock, After, Serial
  <2>3. /\ rblock.from = sent
        /\ IsLastBlock(t) <=> After(rblock) = wrote
        /\ After(rblock) < wrote => rblock.len = Size
        /\ After(rblock) <= wrote
    BY <2>1, LastInHand DEF UploadInv
  <2>4. /\ rblock.len \in 1 .. Size /\ rblock.from \in Nat /\ wrote \in Nat
        /\ After(rblock) = sent + rblock.len /\ sentLast \in BOOLEAN
    BY <1>0, <2>1, <2>3 DEF Block, After, CompleteFacts
  <2>5. CASE After(rblock) = wrote
    <3>1. sentLast' = TRUE /\ sent' = wrote /\ wrote - sent \in 1 .. Size
      <4>1. sentLast' = TRUE
        BY <2>2, <2>3, <2>5
      <4>2. sent' = wrote
        BY <2>2, <2>5
      <4>3. wrote = sent + rblock.len /\ sent \in Nat
        BY <1>0, <2>4, <2>5 DEF CompleteFacts
      <4> QED
        BY <2>4, <4>1, <4>2, <4>3
    <3>2. "CLOSED" \in flags
      <4>1. closed[t]
        BY <2>3, <2>5 DEF IsLastBlock
      <4> QED
        BY <2>1, <4>1 DEF CompleteInv, ClosedKnown, Hand
    <3>3. Upload!GiveLast
      BY <2>1, <2>2, <3>1, <3>2 DEF Upload!GiveLast, Upload!InProgress
    <3> QED
      BY <3>3 DEF Upload!Next
  <2>6. CASE After(rblock) < wrote
    <3>1. sentLast' = sentLast /\ sent' = sent + Size /\ sent + Size < wrote
      BY <2>2, <2>3, <2>4, <2>6
    <3>2. Upload!GiveFull
      BY <2>1, <2>2, <3>1 DEF Upload!GiveFull, Upload!InProgress
    <3> QED
      BY <3>2 DEF Upload!Next
  <2> QED
    BY <2>3, <2>4, <2>5, <2>6 DEF After, Block
<1>3. CASE EndCb(t)
  <2>1. /\ pc[t] = "end" /\ outcome' = result[t]
        /\ UNCHANGED <<up, flags, wrote, sent, sdk, sentLast, status>>
    BY <1>3 DEF EndCb, At
  <2>2. sdk = "idle" /\ outcome = "none"
    BY <1>0, <2>1 DEF Ending
  <2>3. /\ ~status => outcome' = "cloud"
        /\ status => outcome' = "success" /\ "CLOSED" \in flags /\ sent = wrote
    BY <1>0, <2>1 DEF UploadInv, Verdicts, CompleteInv, Reported
  <2>4. Upload!Report
    BY <2>1, <2>2, <2>3 DEF Upload!Report
  <2> QED
    BY <2>4 DEF Upload!Next
<1>4. CASE Cleanup(t)
  <2>1. /\ pc[t] = "cleanup" /\ up = "live" /\ up' = "freed"
        /\ UNCHANGED <<flags, wrote, sent, sdk, sentLast, status, outcome>>
    BY <1>0, <1>4 DEF Cleanup, At, CompleteFacts, UsesUplink
  <2>2. outcome # "none"
    BY <2>1 DEF UploadInv, Verdicts
  <2>3. Upload!Free
    BY <2>1, <2>2 DEF Upload!Free
  <2> QED
    BY <2>3 DEF Upload!Next
<1>5. CASE Crash(t)
  BY <1>0, <1>5 DEF Crash
<1> QED
  BY <1>1, <1>2, <1>3, <1>4, <1>5 DEF ProcessUplink

\* A close by the host
LEMMA CloseUploads ==
  ASSUME SerialInv, CompleteInv, UploadInv, CloseUplink, up = "live",
         pc["cloud"] = "idle", pc["bt"] \in {"idle", "close2"},
         UNCHANGED <<sdkVars, wrote, outcome>>
  PROVE  [Upload!Next]_(Upload!vars)
<1>1. outcome = "none" /\ status
  BY DEF CompleteInv, Reported, UploadInv, Verdicts, Threads, Ending
<1>2. "CLOSED" \in flags' /\ UNCHANGED <<up, wrote, sent, sdk, sentLast, status, outcome>>
  BY DEF CloseUplink, sdkVars
<1>3. Upload!Close
  BY <1>1, <1>2 DEF Upload!Close, Upload!InProgress
<1> QED
  BY <1>3 DEF Upload!Next

LEMMA StepUploads ==
  ASSUME Serial, ~MallocFails, SerialInv, OrderInv, CompleteInv, UploadInv, [Next]_vars
  PROVE  [Upload!Next]_(Upload!vars)
<1>0. /\ HostRuns => pc["cloud"] = "idle" /\ pc["bt"] = "idle"
      /\ node => up = "live"
      /\ pc["bt"] = "close2" => pc["cloud"] = "idle" /\ up = "live"
  BY DEF HostRuns, Serial, SerialInv, ListInv, OneHandler, UplinkInv, NodeNeverDangles,
     Settled, LastPayload
<1>1. ASSUME NEW ok \in BOOLEAN, UploadCallback(ok) PROVE [Upload!Next]_(Upload!vars)
  <2>1. /\ sdk = "busy" /\ sdk' = "idle" /\ status' = ok
        /\ UNCHANGED <<up, flags, wrote, sent, sentLast, outcome>>
    BY <1>1 DEF UploadCallback, upVars
  <2>2. Upload!Delivered(ok)
    BY <2>1 DEF Upload!Delivered
  <2> QED
    BY <2>2 DEF Upload!Next
<1>2. CASE TestAndClearSending \/ FreeSent \/ ForgetSent
  BY <1>2, UploadStutters DEF TestAndClearSending, FreeSent, ForgetSent, restVars, sdkVars
<1>3. CASE \E t \in Threads : ProcessUplink(t)
  BY <1>3, ProcessUploads
<1>4. ASSUME NEW len \in Lens, NEW last \in BOOLEAN, Payload(len, last)
      PROVE  [Upload!Next]_(Upload!vars)
  <2>1. /\ pc["cloud"] = "idle" /\ pc["bt"] = "idle" /\ up = "live"
        /\ "CLOSED" \notin flags /\ wblock # NoBlock /\ wblock \in Block /\ wrote \in Nat
        /\ wblock.len = 0 => wrote = 0
    BY <1>0, <1>4 DEF Payload, SerialInv, Settled, SourceOn, UplinkInv, TypeOK, CompleteInv,
       EmptyOnly
  <2>2. outcome = "none" /\ status
    BY <2>1 DEF CompleteInv, Reported, UploadInv, Verdicts, Threads, Ending
  <2>3. PICK o \in WriteOutcomes(len) :
          /\ wrote' = wrote + o.n
          /\ flags' = IF o.ok /\ last THEN flags \union {"CLOSED"} ELSE flags
    BY <1>4 DEF Payload
  <2>4. o.ok /\ o.n = len
    <3>1. o.ok
      BY <2>1, WriteFills
    <3> QED
      BY <3>1 DEF WriteOutcomes
  <2>5. /\ wrote' = wrote + len /\ ("CLOSED" \in flags') = last
        /\ UNCHANGED <<up, sent, sdk, sentLast, status, outcome>>
    BY <1>4, <2>1, <2>3, <2>4 DEF Payload, sdkVars
  <2>6. Upload!Accept(len, last)
    BY <2>1, <2>2, <2>5 DEF Upload!Accept, Upload!InProgress
  <2> QED
    BY <2>6 DEF Upload!Next
<1>5. CASE CloseAgain
  BY <1>0, <1>5, CloseUploads DEF CloseAgain, At
<1>6. CASE UNCHANGED <<upVars, sdkVars, wrote, outcome>>
  BY <1>6, UploadStutters DEF upVars, sdkVars
<1>7. CASE SubscriptionEnds \/ BtStop
  BY <1>0, <1>6, <1>7, CloseUploads DEF SubscriptionEnds, BtStop, CloseNode
<1>8. CASE PayloadTooLate \/ BadPayload \/ Disconnect \/ UNCHANGED vars
  BY <1>6, <1>8 DEF PayloadTooLate, BadPayload, Disconnect, vars, restVars
<1> QED
  BY <1>1, <1>2, <1>3, <1>4, <1>5, <1>7, <1>8 DEF Next, CloudStep, BtStep, Device, Ended,
     Threads

LEMMA UploadInvStep ==
  ASSUME Serial, ~MallocFails
  PROVE  SerialInv /\ OrderInv /\ CompleteInv /\ UploadInv /\ [Next]_vars => UploadInv'
BY VerdictsStep, CutsStep DEF UploadInv

\* Without preemption, and with memory for every block, Uplink implements UplinkStream:
\* the SDK is given full blocks and a marked last one, one at a time, and what
\* uplink_end_cb hears is true of the whole pouch.
THEOREM UplinkIsUpload == Serial /\ ~MallocFails => (Spec => IsUpload)
<1> SUFFICES ASSUME Serial, ~MallocFails PROVE Spec => IsUpload
  OBVIOUS
<1>1. Init => Upload!Init
  BY DEF Init, OpenUplink, Upload!Init
<1>2. SerialInv /\ [Next]_vars => SerialInv'
  BY SerialStep
<1>3. OrderInv /\ [Next]_vars => OrderInv'
  BY OrderStep DEF Serial
<1>4. SerialInv /\ OrderInv /\ CompleteInv /\ [Next]_vars => CompleteInv'
  BY CompleteStep
<1>5. SerialInv /\ OrderInv /\ CompleteInv /\ UploadInv /\ [Next]_vars => UploadInv'
  BY UploadInvStep
<1>6. SerialInv /\ OrderInv /\ CompleteInv /\ UploadInv /\ [Next]_vars
        => [Upload!Next]_(Upload!vars)
  BY StepUploads
<1> QED
  BY <1>1, <1>2, <1>3, <1>4, <1>5, <1>6, SerialInit, OrderInit, CompleteInit, UploadInit,
     PTL
     DEF Spec, IsUpload, Upload!Spec
=============================================================================
