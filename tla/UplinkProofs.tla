---------------------------- MODULE UplinkProofs ----------------------------
(***************************************************************************)
(* Theorems about Uplink.                                                  *)
(*                                                                         *)
(* The inductive invariant UplinkInv says who holds the bit SENDING: a     *)
(* thread inside process_uplink, the SDK with a block, or the callback     *)
(* that has not yet given it up.  There is never more than one of them,    *)
(* and it is the holder that takes blocks off the list and clears the bit. *)
(*                                                                         *)
(* OrderInv adds, for a host that does not preempt, where the bytes of the *)
(* pouch are: the SDK, rblock, the list and wblock continue one another.   *)
(* With preemption a block may be lost from the list, and ForwardInv keeps *)
(* only their order.                                                       *)
(***************************************************************************)
EXTENDS Uplink, SequenceTheorems, TLAPS

\* The steps of process_uplink after the last that needs SENDING.
Ending == {"end", "unsubscribe", "cleanup"}

\* The steps of process_uplink with a block that was taken off the list.
Hand == TailSteps \union {"send"}

\* Thread t owns the bit SENDING.
Holds(t) == pc[t] \in Section \/ pc[t] = "delivered"

\* SENDING has one owner at most, a thread or the SDK, and is set while it has one.
OneHolder ==
  /\ ~(Holds("cloud") /\ Holds("bt"))
  /\ \A t \in Threads : Holds(t) => "SENDING" \in flags /\ sdk = "idle"
  /\ sdk = "busy" => "SENDING" \in flags
  /\ pc["bt"] # "delivered"

\* The block that the owner is about to take or to send is there: no other
\* thread is ending the uplink at that time.
BlockInHand ==
  /\ \A t \in Threads : pc[t] = "unlink" => queue # <<>>
  /\ \A t \in Threads : pc[t] \in Hand => rblock # NoBlock
  /\ pc["bt"] \in Ending => pc["cloud"] \notin Section

\* uplink_end_cb comes before cleanup_uplink.
NodeForgotten ==
  \A t \in Threads : pc[t] \in {"unsubscribe", "cleanup"} => ~node

UplinkInv == TypeOK /\ OneHolder /\ BlockInHand /\ NodeForgotten /\ NodeNeverDangles

USE SizeAssumption, LensAssumption, BoundAssumption, TransportAssumption, NoBlockAssumption

LEMMA InitUplink == Init => UplinkInv
<1>1. ASSUME Init PROVE TypeOK
  <2>1. queue \in Seq(Block) /\ lost \in Seq(Block)
    BY <1>1, EmptySeq DEF Init, OpenUplink
  <2>2. {wblock, rblock} \subseteq Block \union {NoBlock}
    BY <1>1 DEF Init, OpenUplink, Block
  <2>3. pc \in [Threads -> {"idle", "close2", "end", "unsubscribe"} \union UsesUplink]
    BY <1>1 DEF Init
  <2>4. /\ closed \in [Threads -> BOOLEAN] /\ next \in [Threads -> BOOLEAN]
        /\ result \in [Threads -> {"success", "local", "cloud"}]
    BY <1>1 DEF Init
  <2>5. /\ up \in {"live", "freed"} /\ flags \subseteq {"CLOSED", "SENDING"} /\ heap \in Int
        /\ sdk \in {"idle", "busy"} /\ sent \in Nat /\ wrote \in Nat
        /\ outcome \in {"none", "success", "local", "cloud"}
    BY <1>1 DEF Init, OpenUplink
  <2>6. /\ transport \in Transports
        /\ source \in {"on", "ending", "off"} /\ link \in {"up", "down", "stopped"}
        /\ fault \in {"none", "null", "uplink"}
    BY <1>1 DEF Init
  <2>7. /\ again \in BOOLEAN /\ status \in BOOLEAN /\ sentLast \in BOOLEAN
        /\ node \in BOOLEAN /\ finished \in BOOLEAN
    BY <1>1, Zenon DEF Init
  <2> QED
    BY <2>1, <2>2, <2>3, <2>4, <2>5, <2>6, <2>7 DEF TypeOK
<1>2. ASSUME Init PROVE OneHolder /\ BlockInHand /\ NodeForgotten /\ NodeNeverDangles
  BY <1>2 DEF Init, OpenUplink, OneHolder, BlockInHand, NodeForgotten, NodeNeverDangles,
              Holds, Ending, Section, TailSteps, Hand, Threads
<1> QED
  BY <1>1, <1>2 DEF UplinkInv

\* process_uplink, on either thread
LEMMA ProcessStep ==
  ASSUME UplinkInv, NEW t \in Threads, ProcessUplink(t)
  PROVE  UplinkInv'
<1> USE DEF UplinkInv, TypeOK, OneHolder, BlockInHand, NodeForgotten, NodeNeverDangles,
            Holds, Ending, Section, TailSteps, Hand, UsesUplink, Threads,
            upVars, listVars, localVars, sdkVars, btVars, restVars
<1>1. CASE TestAndSetSending(t)
  BY <1>1 DEF TestAndSetSending, At, Goto, Return
<1>2. CASE ReadClosed(t)
  BY <1>2 DEF ReadClosed, At, Goto
<1>3. CASE GetBlock(t)
  <2>1. next' \in [Threads -> BOOLEAN] /\ result' \in [Threads -> {"success", "local", "cloud"}]
    <3> DEFINE more == Len(queue) > 1
    <3>1. more \in BOOLEAN
      OBVIOUS
    <3>2. next' = [next EXCEPT ![t] = more] \/ next' = next
      BY <1>3, Zenon DEF GetBlock
    <3>3. result' = [result EXCEPT ![t] = "success"] \/ result' = result
      BY <1>3, Zenon DEF GetBlock
    <3> HIDE DEF more
    <3> QED
      BY <3>1, <3>2, <3>3
  <2>2. pc' \in [Threads -> {"idle", "close2", "end", "unsubscribe"} \union UsesUplink]
    BY <1>3 DEF GetBlock, Goto
  <2>3. TypeOK'
    BY <1>3, <2>1, <2>2 DEF GetBlock
  <2>4. OneHolder' /\ BlockInHand'
    BY <1>3 DEF GetBlock, At, Goto
  <2>5. NodeForgotten' /\ NodeNeverDangles'
    BY <1>3 DEF GetBlock, At, Goto
  <2> QED
    BY <2>3, <2>4, <2>5
<1>4. CASE Unlink(t)
  <2>1. queue \in Seq(Block) /\ queue # <<>>
    BY <1>4 DEF Unlink, At
  <2>2. Head(queue) \in Block /\ Tail(queue) \in Seq(Block)
    BY <2>1
  <2>3. rblock' \in Block /\ queue' \in Seq(Block) /\ lost' \in Seq(Block)
    <3>1. lost \o Tail(queue) \in Seq(Block)
      BY <2>2
    <3>2. rblock' = Head(queue) /\ queue' \in {Tail(queue), <<>>}
      BY <1>4 DEF Unlink
    <3>3. lost' \in {lost, lost \o Tail(queue)}
      BY <1>4 DEF Unlink
    <3>4. <<>> \in Seq(Block) /\ lost \in Seq(Block)
      BY EmptySeq
    <3> QED
      BY <2>2, <3>1, <3>2, <3>3, <3>4
  <2>4. pc' \in [Threads -> {"idle", "close2", "end", "unsubscribe"} \union UsesUplink]
    BY <1>4 DEF Unlink, Goto
  <2>5. TypeOK'
    BY <1>4, <2>3, <2>4 DEF Unlink
  <2>6. OneHolder' /\ BlockInHand' /\ NodeForgotten' /\ NodeNeverDangles'
    BY <1>4, <2>3 DEF Unlink, At, Goto
  <2> QED
    BY <2>5, <2>6
<1>12. CASE TestTail(t)
  BY <1>12 DEF TestTail, At, Goto
<1>13. CASE ResetTail(t)
  <2>1. lost' \in Seq(Block)
    BY <1>13, EmptySeq DEF ResetTail
  <2>2. TypeOK'
    BY <1>13, <2>1 DEF ResetTail, Goto
  <2>3. OneHolder' /\ BlockInHand' /\ NodeForgotten' /\ NodeNeverDangles'
    BY <1>13 DEF ResetTail, At, Goto
  <2> QED
    BY <2>2, <2>3
<1>5. CASE SkipEmpty(t)
  BY <1>5 DEF SkipEmpty, At, Goto, Return
<1>6. CASE SendBlock(t)
  <2>1. rblock \in Block
    BY <1>6 DEF SendBlock, At
  <2>2. rblock.from + rblock.len \in Nat
    BY <2>1 DEF Block
  <2>3. sentLast' \in BOOLEAN
    BY <1>6 DEF SendBlock, IsLastBlock
  <2>4. /\ pc' \in [Threads -> {"idle", "close2", "end", "unsubscribe"} \union UsesUplink]
        /\ result' \in [Threads -> {"success", "local", "cloud"}]
    BY <1>6 DEF SendBlock, Goto, Return
  <2>5. TypeOK'
    BY <1>6, <2>2, <2>3, <2>4 DEF SendBlock
  <2>6. OneHolder' /\ BlockInHand' /\ NodeForgotten' /\ NodeNeverDangles'
    BY <1>6 DEF SendBlock, At, Goto, Return
  <2> QED
    BY <2>5, <2>6
<1>7. CASE ClearSending(t)
  BY <1>7 DEF ClearSending, At, Goto, Return
<1>8. CASE EndCb(t)
  <2>1. outcome' \in {"success", "local", "cloud"}
    BY <1>8 DEF EndCb
  <2>2. pc' \in [Threads -> {"idle", "close2", "end", "unsubscribe"} \union UsesUplink]
    BY <1>8 DEF EndCb, Goto
  <2>3. node' \in BOOLEAN
    BY <1>8, Zenon DEF EndCb
  <2>4. TypeOK'
    BY <1>8, <2>1, <2>2, <2>3 DEF EndCb
  <2>5. OneHolder' /\ BlockInHand' /\ NodeForgotten' /\ NodeNeverDangles'
    BY <1>8 DEF EndCb, At, Goto
  <2> QED
    BY <2>4, <2>5
<1>9. CASE Unsubscribe(t)
  BY <1>9 DEF Unsubscribe, At, Goto
<1>10. CASE Cleanup(t)
  BY <1>10 DEF Cleanup, At, Goto, Return
<1>11. CASE Crash(t)
  BY <1>11 DEF Crash, Misuse
<1> QED
  BY <1>1, <1>2, <1>3, <1>4, <1>5, <1>6, <1>7, <1>8, <1>9, <1>10, <1>11, <1>12,
     <1>13 DEF ProcessUplink

\* block_upload_callback
LEMMA CallbackStep ==
  ASSUME UplinkInv, CloudStep
  PROVE  UplinkInv'
<1> USE DEF UplinkInv, TypeOK, OneHolder, BlockInHand, NodeForgotten, NodeNeverDangles,
            Holds, Ending, Section, TailSteps, Hand, UsesUplink, Threads,
            upVars, listVars, localVars, sdkVars, btVars, restVars
<1>1. ASSUME NEW ok \in BOOLEAN, UploadCallback(ok) PROVE UplinkInv'
  BY <1>1 DEF UploadCallback, Goto
<1>2. CASE TestAndClearSending
  BY <1>2 DEF TestAndClearSending, At, Goto, Return
<1>3. CASE FreeSent
  BY <1>3 DEF FreeSent, At, Goto
<1>4. CASE ForgetSent
  BY <1>4 DEF ForgetSent, At, Goto
<1>5. CASE ProcessUplink("cloud")
  BY <1>5, ProcessStep
<1> QED
  BY <1>1, <1>2, <1>3, <1>4, <1>5 DEF CloudStep

\* Blocks go to the list, or to the part of it that the head does not reach.
LEMMA SubmitTypes ==
  ASSUME queue \in Seq(Block), lost \in Seq(Block), NEW blocks \in Seq(Block),
         Submit(blocks)
  PROVE  /\ queue' \in Seq(Block) /\ lost' \in Seq(Block)
         /\ queue # <<>> => queue' # <<>>
<1>1. queue \o blocks \in Seq(Block) /\ lost \o blocks \in Seq(Block)
  OBVIOUS
<1>2. queue # <<>> => queue \o blocks # <<>>
  OBVIOUS
<1> QED
  BY <1>1, <1>2 DEF Submit

\* A write takes what fits, and submits one full block at most.
LEMMA WriteTypes ==
  ASSUME wblock \in Block \union {NoBlock}, wrote \in Nat,
         NEW len \in Lens, NEW o \in WriteOutcomes(len)
  PROVE  /\ o.submit \in Seq(Block) /\ o.w \in Block \union {NoBlock}
         /\ o.new \in Int /\ o.n \in Nat
<1>1. len \in 0 .. Size /\ Size \in Nat
  OBVIOUS
<1>2. CASE len = 0
  <2>1. o = [submit |-> <<>>, w |-> wblock, new |-> 0, ok |-> TRUE, n |-> 0]
    BY <1>2 DEF WriteOutcomes
  <2> QED
    BY <2>1, EmptySeq
<1>3. CASE len # 0 /\ wblock = NoBlock
  <2> DEFINE rest == [from |-> wrote + 0, len |-> len - 0]
  <2>1. rest \in Block
    BY <1>1 DEF Block
  <2>2. \/ o = [submit |-> <<>>, w |-> rest, new |-> 1, ok |-> TRUE, n |-> len]
        \/ o = [submit |-> <<>>, w |-> NoBlock, new |-> 0, ok |-> FALSE, n |-> 0]
    BY <1>3 DEF WriteOutcomes
  <2> HIDE DEF rest
  <2>3. CASE o = [submit |-> <<>>, w |-> rest, new |-> 1, ok |-> TRUE, n |-> len]
    BY <1>1, <2>1, <2>3, EmptySeq
  <2>4. CASE o = [submit |-> <<>>, w |-> NoBlock, new |-> 0, ok |-> FALSE, n |-> 0]
    BY <2>4, EmptySeq
  <2> QED
    BY <2>2, <2>3, <2>4
<1>4. CASE len # 0 /\ wblock # NoBlock
  <2> DEFINE have == wblock.len
             full == <<[wblock EXCEPT !.len = Size]>>
             rest == [from |-> wrote + (Size - have), len |-> len - (Size - have)]
             fits == [wblock EXCEPT !.len = have + len]
  <2>1. wblock \in Block /\ have \in 0 .. Size
    BY <1>4 DEF Block
  <2>2. full \in Seq(Block)
    BY <1>1, <2>1 DEF Block
  <2>3. have + len <= Size => fits \in Block
    BY <1>1, <2>1 DEF Block
  <2>4. have + len > Size => rest \in Block
    BY <1>1, <2>1 DEF Block
  <2>5. Size - have \in Nat
    BY <1>1, <2>1
  <2>6. \/ /\ have + len <= Size
           /\ o = [submit |-> <<>>, w |-> fits, new |-> 0, ok |-> TRUE, n |-> len]
        \/ /\ have + len > Size
           /\ o = [submit |-> full, w |-> rest, new |-> 1, ok |-> TRUE, n |-> len]
        \/ o = [submit |-> full, w |-> NoBlock, new |-> 0, ok |-> FALSE, n |-> Size - have]
    BY <1>1, <1>4, <2>1 DEF WriteOutcomes
  <2> HIDE DEF full, rest, fits
  <2>7. CASE have + len <= Size
             /\ o = [submit |-> <<>>, w |-> fits, new |-> 0, ok |-> TRUE, n |-> len]
    BY <1>1, <2>3, <2>7, EmptySeq
  <2>8. CASE have + len > Size
             /\ o = [submit |-> full, w |-> rest, new |-> 1, ok |-> TRUE, n |-> len]
    BY <1>1, <2>2, <2>4, <2>8
  <2>9. CASE o = [submit |-> full, w |-> NoBlock, new |-> 0, ok |-> FALSE, n |-> Size - have]
    BY <2>2, <2>5, <2>9
  <2> QED
    BY <2>6, <2>7, <2>8, <2>9
<1> QED
  BY <1>2, <1>3, <1>4

\* Closing, from a host callback, moves wblock to the list and goes on to
\* process_uplink.
LEMMA CloseTypes ==
  ASSUME UplinkInv, CloseUplink
  PROVE  /\ queue' \in Seq(Block) /\ lost' \in Seq(Block)
         /\ queue # <<>> => queue' # <<>>
         /\ wblock' \in Block \union {NoBlock}
         /\ flags' \subseteq {"CLOSED", "SENDING"}
         /\ "SENDING" \in flags => "SENDING" \in flags'
<1>1. /\ queue \in Seq(Block) /\ lost \in Seq(Block)
      /\ wblock \in Block \union {NoBlock} /\ flags \subseteq {"CLOSED", "SENDING"}
  BY DEF UplinkInv, TypeOK
<1>2. CASE "CLOSED" \notin flags /\ wblock # NoBlock
  <2>1. <<wblock>> \in Seq(Block)
    BY <1>1, <1>2
  <2>2. Submit(<<wblock>>) /\ wblock' = NoBlock
    BY <1>2 DEF CloseUplink
  <2> QED
    BY <1>1, <2>1, <2>2, SubmitTypes DEF CloseUplink
<1>3. CASE ~("CLOSED" \notin flags /\ wblock # NoBlock)
  BY <1>1, <1>3 DEF CloseUplink, listVars
<1> QED
  BY <1>2, <1>3

\* The callbacks of the host
LEMMA HostStep ==
  ASSUME UplinkInv,
         \/ CloseAgain \/ Device \/ PayloadTooLate \/ BadPayload
         \/ SubscriptionEnds \/ Disconnect \/ BtStop
  PROVE  UplinkInv'
<1> USE DEF UplinkInv, TypeOK, OneHolder, BlockInHand, NodeForgotten, NodeNeverDangles,
            Holds, Ending, Section, TailSteps, Hand, UsesUplink, Threads,
            upVars, listVars, localVars, sdkVars, btVars, restVars
<1>1. CASE CloseAgain
  <2>1. CloseUplink
    BY <1>1 DEF CloseAgain
  <2>2. node' \in BOOLEAN /\ again' \in BOOLEAN
    BY <1>1, Zenon DEF CloseAgain
  <2>3. TypeOK'
    BY <1>1, <2>1, <2>2, CloseTypes DEF CloseAgain, CloseUplink, Goto, At
  <2>4. OneHolder' /\ BlockInHand' /\ NodeForgotten' /\ NodeNeverDangles'
    BY <1>1, <2>1, CloseTypes DEF CloseAgain, CloseUplink, Goto, At
  <2> QED
    BY <2>3, <2>4
<1>2. CASE PayloadTooLate
  BY <1>2 DEF PayloadTooLate
<1>3. CASE BadPayload
  <2>1. finished' \in BOOLEAN
    BY <1>3, Zenon DEF BadPayload
  <2>2. source' \in {"on", "ending", "off"}
    BY <1>3 DEF BadPayload, StopSource
  <2> QED
    BY <1>3, <2>1, <2>2 DEF BadPayload
<1>4. CASE SubscriptionEnds
  <2>1. node' \in BOOLEAN /\ finished' \in BOOLEAN
    BY <1>4, Zenon DEF SubscriptionEnds, CloseNode
  <2>2. CASE node
    <3>1. CloseUplink
      BY <1>4, <2>2 DEF SubscriptionEnds, CloseNode
    <3>2. TypeOK'
      BY <1>4, <2>1, <3>1, CloseTypes DEF SubscriptionEnds, CloseUplink, Goto
    <3>3. OneHolder' /\ BlockInHand' /\ NodeForgotten' /\ NodeNeverDangles'
      BY <1>4, <2>2, <3>1, CloseTypes DEF SubscriptionEnds, CloseNode, CloseUplink, Goto,
         HostRuns
    <3> QED
      BY <3>2, <3>3
  <2>3. CASE ~node
    <3>1. UNCHANGED <<upVars, pc, node, localVars, sdkVars, wrote, outcome, transport, link,
                      fault>> /\ source' = "off"
      BY <1>4, <2>3 DEF SubscriptionEnds, CloseNode
    <3>2. TypeOK'
      BY <2>1, <3>1
    <3>3. OneHolder' /\ BlockInHand' /\ NodeForgotten' /\ NodeNeverDangles'
      BY <3>1
    <3> QED
      BY <3>2, <3>3
  <2> QED
    BY <2>2, <2>3
<1>5. CASE Disconnect
  BY <1>5 DEF Disconnect
<1>6. CASE BtStop
  <2>1. node' \in BOOLEAN /\ finished' \in BOOLEAN
    BY <1>6, Zenon DEF BtStop, CloseNode
  <2>2. CASE node
    <3>1. CloseUplink
      BY <1>6, <2>2 DEF BtStop, CloseNode
    <3>2. TypeOK'
      BY <1>6, <2>1, <3>1, CloseTypes DEF BtStop, CloseUplink, Goto
    <3>3. OneHolder' /\ BlockInHand' /\ NodeForgotten' /\ NodeNeverDangles'
      BY <1>6, <2>2, <3>1, CloseTypes DEF BtStop, CloseNode, CloseUplink, Goto, HostRuns
    <3> QED
      BY <3>2, <3>3
  <2>3. CASE ~node
    <3>1. UNCHANGED <<upVars, pc, node, localVars, sdkVars, wrote, outcome, transport, source,
                      finished, fault>> /\ link' = "stopped"
      BY <1>6, <2>3 DEF BtStop, CloseNode
    <3>2. TypeOK'
      BY <3>1
    <3>3. OneHolder' /\ BlockInHand' /\ NodeForgotten' /\ NodeNeverDangles'
      BY <3>1
    <3> QED
      BY <3>2, <3>3
  <2> QED
    BY <2>2, <2>3
<1>7. ASSUME NEW len \in Lens, NEW last \in BOOLEAN, Payload(len, last) PROVE UplinkInv'
  <2>1. PICK o \in WriteOutcomes(len) :
          LET tail == IF o.ok /\ last /\ "CLOSED" \notin flags /\ o.w # NoBlock
                      THEN <<o.w>> ELSE <<>>
          IN /\ Submit(o.submit \o tail)
             /\ wblock' = IF tail = <<>> THEN o.w ELSE NoBlock
             /\ heap' = heap + o.new
             /\ wrote' = wrote + o.n
             /\ flags' = IF o.ok /\ last THEN flags \union {"CLOSED"} ELSE flags
             /\ again' = (o.ok /\ last)
             /\ IF o.ok THEN Goto("bt", "process") ELSE UNCHANGED pc
             /\ finished' = (finished \/ ~o.ok)
             /\ IF ~o.ok \/ last THEN StopSource
                ELSE \/ UNCHANGED source
                     \/ (transport = "read" /\ GattFails /\ source' = "off")
    BY <1>7 DEF Payload
  <2> DEFINE tail == IF o.ok /\ last /\ "CLOSED" \notin flags /\ o.w # NoBlock
                     THEN <<o.w>> ELSE <<>>
  <2>2. /\ o.submit \in Seq(Block) /\ o.w \in Block \union {NoBlock}
        /\ o.new \in Int /\ o.n \in Nat
    BY WriteTypes
  <2>3. tail \in Seq(Block)
    BY <2>2, EmptySeq
  <2>4. o.submit \o tail \in Seq(Block)
    BY <2>2, <2>3
  <2>5. /\ queue' \in Seq(Block) /\ lost' \in Seq(Block)
        /\ queue # <<>> => queue' # <<>>
    BY <2>1, <2>4, SubmitTypes
  <2>6. /\ wblock' \in Block \union {NoBlock} /\ heap' \in Int /\ wrote' \in Nat
    BY <2>1, <2>2
  <2>7. flags' \subseteq {"CLOSED", "SENDING"} /\ ("SENDING" \in flags => "SENDING" \in flags')
    BY <2>1
  <2>8. again' \in BOOLEAN /\ finished' \in BOOLEAN
    BY <2>1, <2>2
  <2>9. source' \in {"on", "ending", "off"}
    BY <2>1 DEF StopSource
  <2>10. pc' = pc \/ Goto("bt", "process")
    BY <2>1
  <2>11. pc["bt"] = "idle" /\ UNCHANGED <<up, rblock, closed, next, result, sdkVars, outcome,
                                         node, transport, link, fault>>
    BY <1>7 DEF Payload, HostRuns
  <2>12. TypeOK'
    BY <2>5, <2>6, <2>7, <2>8, <2>9, <2>10, <2>11 DEF Goto
  <2>13. OneHolder' /\ BlockInHand' /\ NodeForgotten' /\ NodeNeverDangles'
    BY <2>5, <2>7, <2>10, <2>11 DEF Goto
  <2> QED
    BY <2>12, <2>13
<1> QED
  BY <1>1, <1>2, <1>3, <1>4, <1>5, <1>6, <1>7 DEF Device

LEMMA StepUplink == UplinkInv /\ [Next]_vars => UplinkInv'
<1> SUFFICES ASSUME UplinkInv, [Next]_vars PROVE UplinkInv'
  OBVIOUS
<1>1. CASE CloudStep
  BY <1>1, CallbackStep
<1>2. CASE ProcessUplink("bt")
  BY <1>2, ProcessStep DEF Threads
<1>3. CASE CloseAgain \/ Device \/ PayloadTooLate \/ BadPayload \/ SubscriptionEnds
           \/ Disconnect \/ BtStop
  BY <1>3, HostStep
<1>4. CASE UNCHANGED vars
  BY <1>4 DEF vars, upVars, listVars, localVars, sdkVars, btVars, restVars, UplinkInv,
     TypeOK,
              OneHolder, BlockInHand, NodeForgotten, NodeNeverDangles, Holds
<1> QED
  BY <1>1, <1>2, <1>3, <1>4 DEF Next, BtStep, Ended

\* Every variable keeps its type, for every block size, payload and environment.
THEOREM UplinkTypeCorrect == Spec => []TypeOK
<1>1. UplinkInv => TypeOK
  BY DEF UplinkInv
<1> QED
  BY InitUplink, StepUplink, <1>1, PTL DEF Spec

\* SENDING keeps the two threads and the SDK apart, wherever the host thread cuts
\* into process_uplink and block_upload_callback.
THEOREM OneSenderAlways == Spec => []OneSender
<1>1. UplinkInv => OneSender
  BY DEF UplinkInv, OneHolder, OneSender, Holds, Threads
<1> QED
  BY InitUplink, StepUplink, <1>1, PTL DEF Spec

\* No thread finds a freed uplink in the node.
THEOREM NodeAlwaysValid == Spec => []NodeNeverDangles
<1>1. UplinkInv => NodeNeverDangles
  BY DEF UplinkInv
<1> QED
  BY InitUplink, StepUplink, <1>1, PTL DEF Spec

-----------------------------------------------------------------------------
(* The list without preemption                                             *)

\* The handlers of the two threads follow each other.
OneHandler == pc["cloud"] = "idle" \/ pc["bt"] = "idle"

\* Nothing is appended in the middle of sys_slist_get.
ListWhole ==
  /\ lost = <<>>
  /\ \A t \in Threads : pc[t] = "unlink" => (next[t] <=> Len(queue) > 1)

ListInv == OneHandler /\ ListWhole

LEMMA ListInit == Init => ListInv
BY DEF Init, OpenUplink, ListInv, OneHandler, ListWhole, Threads

\* The first node is taken off a list that no thread appends to.
LEMMA UnlinkWhole ==
  ASSUME UplinkInv, ListInv, NEW t \in Threads, Unlink(t)
  PROVE  queue' = Tail(queue) /\ lost' = <<>>
<1>1. /\ queue \in Seq(Block) /\ queue # <<>> /\ lost = <<>>
      /\ next[t] \in BOOLEAN /\ (next[t] <=> Len(queue) > 1)
  BY DEF Unlink, At, UplinkInv, TypeOK, BlockInHand, ListInv, ListWhole
<1>2. /\ Len(queue) \in Nat \ {0} /\ Tail(queue) \in Seq(Block)
      /\ Len(Tail(queue)) = Len(queue) - 1
  BY <1>1, HeadTailProperties, EmptySeq
<1>3. CASE next[t]
  BY <1>1, <1>3 DEF Unlink
<1>4. CASE ~next[t]
  <2>1. Tail(queue) = <<>>
    <3>1. Tail(queue) = <<>> <=> Len(Tail(queue)) = 0
      BY <1>2, EmptySeq
    <3> QED
      BY <1>1, <1>2, <1>4, <3>1
  <2>2. queue' = <<>> /\ lost' = lost \o Tail(queue)
    BY <1>4 DEF Unlink
  <2>3. <<>> \o <<>> = <<>>
    OBVIOUS
  <2> QED
    BY <1>1, <2>1, <2>2, <2>3
<1> QED
  BY <1>3, <1>4

\* A host callback does not find the tail astray.
LEMMA SubmitWhole ==
  ASSUME ListInv, pc["cloud"] = "idle", NEW blocks, Submit(blocks)
  PROVE  queue' = queue \o blocks /\ lost' = <<>>
BY DEF ListInv, ListWhole, Submit, TailAstray, TailSteps

LEMMA ListStep == ASSUME ~Preempts PROVE UplinkInv /\ ListInv /\ [Next]_vars => ListInv'
<1> SUFFICES ASSUME UplinkInv, ListInv, [Next]_vars PROVE ListInv'
  OBVIOUS
<1>0. /\ pc \in [Threads -> {"idle", "close2", "end", "unsubscribe"} \union UsesUplink]
      /\ next \in [Threads -> BOOLEAN]
      /\ OneHandler /\ lost = <<>> /\ OneHolder
      /\ HostRuns => pc["cloud"] = "idle" /\ pc["bt"] = "idle"
  BY DEF UplinkInv, TypeOK, ListInv, ListWhole, HostRuns
<1> USE DEF OneHandler, Threads, upVars, listVars, localVars, restVars, sdkVars
<1>1. ASSUME CloseUplink, pc["cloud"] = "idle", pc["bt"] # "unlink" PROVE ListInv'
  <2>1. lost' = <<>>
    BY <1>0, <1>1, SubmitWhole DEF CloseUplink
  <2>2. pc' = [pc EXCEPT !["bt"] = "process"]
    BY <1>1 DEF CloseUplink, Goto
  <2> QED
    BY <1>0, <1>1, <2>1, <2>2 DEF ListInv, ListWhole
<1>2. ASSUME UNCHANGED <<pc, queue, lost, next>> PROVE ListInv'
  BY <1>2 DEF ListInv, ListWhole
<1>3. ASSUME NEW t \in Threads, ProcessUplink(t) PROVE ListInv'
  <2>1. CASE Unlink(t)
    <3>1. lost' = <<>>
      BY <2>1, UnlinkWhole
    <3>2. OneHandler' /\ \A u \in Threads : pc'[u] # "unlink"
      BY <1>0, <2>1 DEF Unlink, At, Goto, OneHolder, Holds, Section, TailSteps
    <3> QED
      BY <3>1, <3>2 DEF ListInv, ListWhole
  <2>2. CASE GetBlock(t)
    <3>1. OneHandler' /\ lost' = <<>> /\ queue' = queue
      BY <1>0, <2>2 DEF GetBlock, At, Goto
    <3>2. ASSUME NEW u \in Threads, pc'[u] = "unlink" PROVE next'[u] <=> Len(queue') > 1
      <4>1. u = t
        BY <1>0, <2>2, <3>2 DEF GetBlock, At, Goto
      <4>2. next' = [next EXCEPT ![t] = Len(queue) > 1]
        BY <1>0, <2>2, <3>2, <4>1 DEF GetBlock, At, Goto
      <4>3. next'[t] = (Len(queue) > 1)
        BY <1>0, <4>2, Zenon
      <4> QED
        BY <3>1, <4>1, <4>3
    <3> QED
      BY <3>1, <3>2 DEF ListInv, ListWhole
  <2>3. CASE \/ TestAndSetSending(t) \/ ReadClosed(t) \/ TestTail(t) \/ ResetTail(t)
             \/ SkipEmpty(t) \/ SendBlock(t) \/ ClearSending(t) \/ EndCb(t)
             \/ Unsubscribe(t) \/ Cleanup(t)
    <3>1. lost' = <<>>
      BY <1>0, <2>3 DEF TestAndSetSending, ReadClosed, TestTail, ResetTail, SkipEmpty,
         SendBlock, ClearSending, EndCb, Unsubscribe, Cleanup
    <3>2. \E p \in {"closed?", "get", "tail", "send", "idle", "close2", "end", "unsubscribe",
                    "cleanup"} : Goto(t, p)
      BY <2>3 DEF TestAndSetSending, ReadClosed, TestTail, ResetTail, SkipEmpty,
         SendBlock, ClearSending, EndCb, Unsubscribe, Cleanup, Return
    <3>3. pc[t] # "idle"
      BY <2>3 DEF TestAndSetSending, ReadClosed, TestTail, ResetTail, SkipEmpty,
         SendBlock, ClearSending, EndCb, Unsubscribe, Cleanup, At
    <3>4. OneHandler' /\ \A u \in Threads : pc'[u] # "unlink"
      BY <1>0, <3>2, <3>3 DEF Goto
    <3> QED
      BY <3>1, <3>4 DEF ListInv, ListWhole
  <2>4. CASE Crash(t)
    BY <1>2, <2>4 DEF Crash
  <2> QED
    BY <1>3, <2>1, <2>2, <2>3, <2>4 DEF ProcessUplink
<1>4. ASSUME NEW ok \in BOOLEAN, UploadCallback(ok) PROVE ListInv'
  BY <1>0, <1>4 DEF UploadCallback, Goto, ListInv, ListWhole
<1>5. CASE TestAndClearSending \/ FreeSent \/ ForgetSent
  BY <1>0, <1>5 DEF TestAndClearSending, FreeSent, ForgetSent, At, Goto, Return, ListInv,
     ListWhole
<1>6. ASSUME NEW len \in Lens, NEW last \in BOOLEAN, Payload(len, last) PROVE ListInv'
  <2>1. \E blocks : Submit(blocks)
    BY <1>6 DEF Payload
  <2>2. lost' = <<>>
    BY <1>0, <1>6, <2>1, SubmitWhole DEF Payload
  <2>3. pc' = pc \/ Goto("bt", "process")
    BY <1>6 DEF Payload
  <2>4. pc["cloud"] = "idle" /\ pc["bt"] = "idle"
    BY <1>0, <1>6 DEF Payload
  <2> QED
    BY <1>0, <2>2, <2>3, <2>4 DEF Goto, ListInv, ListWhole
<1>7. CASE CloseAgain
  BY <1>0, <1>1, <1>7 DEF CloseAgain, At
<1>8. CASE SubscriptionEnds \/ BtStop
  BY <1>0, <1>1, <1>2, <1>8 DEF SubscriptionEnds, BtStop, CloseNode
<1>9. CASE PayloadTooLate \/ BadPayload \/ Disconnect \/ UNCHANGED vars
  BY <1>2, <1>9 DEF PayloadTooLate, BadPayload, Disconnect, vars
<1> QED
  BY <1>3, <1>4, <1>5, <1>6, <1>7, <1>8, <1>9 DEF Next, CloudStep, BtStep, Device, Ended,
     Threads

-----------------------------------------------------------------------------
(* The order of the blocks                                                 *)

\* The byte of the pouch that follows block b.
After(b) == b.from + b.len

\* The blocks of q follow one another, the first from byte a on, ...
Follows(q, a) ==
  \A i \in 1 .. Len(q) : q[i].from = IF i = 1 THEN a ELSE After(q[i - 1])

\* ... up to this byte.
EndOf(q, a) == IF q = <<>> THEN a ELSE After(q[Len(q)])

\* Thread t ends the uplink because the SDK refused its block, which is skipped:
\* SENDING stays set, so that nobody sends the blocks behind it.
Refused(t) == pc[t] \in Ending /\ result[t] = "local"

Sendable == up = "live" /\ \A t \in Threads : ~Refused(t)

\* Where the list must begin, and where it must end.
NextByte == IF \E t \in Threads : pc[t] \in Hand THEN After(rblock) ELSE sent
Filled == IF wblock = NoBlock THEN wrote ELSE wblock.from

NobodySends ==
  \A t \in Threads : Refused(t) =>
    "SENDING" \in flags /\ sdk = "idle" /\ \A u \in Threads : ~Holds(u)

\* From the SDK through rblock, the list and wblock to the device, the bytes of
\* the pouch are in their order.
Unbroken ==
  /\ wblock # NoBlock => After(wblock) = wrote
  /\ Sendable =>
       /\ \A t \in Threads : pc[t] \in Hand => rblock.from = sent
       /\ Follows(queue, NextByte)
       /\ EndOf(queue, NextByte) = Filled

OrderInv == UplinkInv /\ ListInv /\ NobodySends /\ Unbroken

LEMMA FollowsTail ==
  ASSUME NEW q \in Seq(Block), q # <<>>, NEW a, Follows(q, a)
  PROVE  /\ Head(q).from = a
         /\ Follows(Tail(q), After(Head(q)))
         /\ EndOf(Tail(q), After(Head(q))) = EndOf(q, a)
<1>1. /\ Len(q) \in Nat \ {0} /\ Head(q) = q[1]
      /\ Tail(q) \in Seq(Block) /\ Len(Tail(q)) = Len(q) - 1
      /\ \A i \in 1 .. Len(q) - 1 : Tail(q)[i] = q[i + 1]
  BY HeadTailProperties, EmptySeq
<1>2. Head(q).from = a
  BY <1>1 DEF Follows
<1>3. Follows(Tail(q), After(Head(q)))
  <2>1. ASSUME NEW i \in 1 .. Len(q) - 1
        PROVE  Tail(q)[i].from = IF i = 1 THEN After(q[1]) ELSE After(Tail(q)[i - 1])
    <3>1. Tail(q)[i] = q[i + 1] /\ q[i + 1].from = After(q[i])
      <4>1. i + 1 \in 1 .. Len(q) /\ i + 1 # 1 /\ (i + 1) - 1 = i
        BY <1>1
      <4> QED
        BY <1>1, <4>1 DEF Follows
    <3>2. i # 1 => Tail(q)[i - 1] = q[i]
      BY <1>1
    <3> QED
      BY <3>1, <3>2
  <2> QED
    BY <1>1, <2>1 DEF Follows
<1>4. EndOf(Tail(q), After(Head(q))) = EndOf(q, a)
  <2>0. Tail(q) = <<>> <=> Len(Tail(q)) = 0
    BY <1>1, EmptySeq
  <2>1. CASE Len(q) = 1
    BY <1>1, <2>0, <2>1 DEF EndOf
  <2>2. CASE Len(q) # 1
    <3>1. Len(q) - 1 \in 1 .. Len(q) - 1 /\ (Len(q) - 1) + 1 = Len(q)
      BY <1>1, <2>2
    <3>2. Tail(q) # <<>> /\ Tail(q)[Len(Tail(q))] = q[Len(q)]
      BY <1>1, <2>0, <2>2, <3>1
    <3> QED
      BY <3>2 DEF EndOf
  <2> QED
    BY <2>1, <2>2
<1> QED
  BY <1>2, <1>3, <1>4

LEMMA FollowsConcat ==
  ASSUME NEW q \in Seq(Block), NEW r \in Seq(Block), NEW a,
         Follows(q, a), Follows(r, EndOf(q, a))
  PROVE  Follows(q \o r, a) /\ EndOf(q \o r, a) = EndOf(r, EndOf(q, a))
<1> DEFINE s == q \o r
<1>1. /\ s \in Seq(Block) /\ Len(s) = Len(q) + Len(r)
      /\ \A i \in 1 .. Len(q) + Len(r) :
           s[i] = IF i <= Len(q) THEN q[i] ELSE r[i - Len(q)]
      /\ Len(q) \in Nat /\ Len(r) \in Nat
  BY ConcatProperties, LenProperties
<1>0. /\ q = <<>> <=> Len(q) = 0
      /\ r = <<>> <=> Len(r) = 0
      /\ s = <<>> <=> Len(s) = 0
  BY <1>1, EmptySeq
<1> HIDE DEF s
<1>2. ASSUME NEW i \in 1 .. Len(q) + Len(r)
      PROVE  s[i].from = IF i = 1 THEN a ELSE After(s[i - 1])
  <2>1. CASE i <= Len(q)
    <3>1. i # 1 => s[i - 1] = q[i - 1]
      BY <1>1, <2>1
    <3> QED
      BY <1>1, <2>1, <3>1 DEF Follows
  <2>2. CASE i = Len(q) + 1
    <3>1. s[i] = r[1] /\ r[1].from = EndOf(q, a)
      BY <1>1, <2>2 DEF Follows
    <3>2. i # 1 => s[i - 1] = q[Len(q)]
      BY <1>1, <2>2
    <3> QED
      BY <1>0, <1>1, <2>2, <3>1, <3>2 DEF EndOf
  <2>3. CASE i > Len(q) + 1
    <3>1. /\ i - Len(q) \in 1 .. Len(r) /\ i - Len(q) # 1 /\ i # 1
          /\ (i - 1) - Len(q) = (i - Len(q)) - 1
          /\ i - 1 \in 1 .. Len(q) + Len(r) /\ ~(i - 1 <= Len(q)) /\ ~(i <= Len(q))
      BY <1>1, <2>3
    <3>2. s[i] = r[i - Len(q)] /\ s[i - 1] = r[(i - Len(q)) - 1]
      BY <1>1, <3>1
    <3>3. r[i - Len(q)].from = After(r[(i - Len(q)) - 1])
      BY <3>1 DEF Follows
    <3> QED
      BY <3>1, <3>2, <3>3
  <2> QED
    BY <1>1, <2>1, <2>2, <2>3
<1>3. Follows(s, a)
  BY <1>1, <1>2 DEF Follows
<1>4. EndOf(s, a) = EndOf(r, EndOf(q, a))
  <2>1. CASE Len(r) = 0
    <3>1. Len(q) # 0 => s[Len(s)] = q[Len(q)]
      BY <1>1, <2>1
    <3> QED
      BY <1>0, <1>1, <2>1, <3>1 DEF EndOf
  <2>2. CASE Len(r) # 0
    <3>1. /\ Len(s) \in 1 .. Len(q) + Len(r) /\ ~(Len(s) <= Len(q))
          /\ Len(s) - Len(q) = Len(r)
      BY <1>1, <2>2
    <3>2. s[Len(s)] = r[Len(r)] /\ Len(s) # 0
      BY <1>1, <3>1
    <3> QED
      BY <1>0, <2>2, <3>2 DEF EndOf
  <2> QED
    BY <2>1, <2>2
<1> QED
  BY <1>3, <1>4 DEF s

LEMMA FollowsOne ==
  ASSUME NEW b \in Block
  PROVE  /\ Follows(<<b>>, b.from)
         /\ \A a : EndOf(<<b>>, a) = After(b)
         /\ \A a : Follows(<<>>, a) /\ EndOf(<<>>, a) = a
<1>1. Len(<<b>>) = 1 /\ <<b>>[1] = b /\ <<b>> # <<>> /\ Len(<<>>) = 0
  OBVIOUS
<1>2. \A i \in 1 .. 1 : i = 1
  OBVIOUS
<1>3. \A i \in 1 .. 0 : FALSE
  OBVIOUS
<1> QED
  BY <1>1, <1>2, <1>3 DEF Follows, EndOf

\* Submitted blocks continue the list.
LEMMA SubmitOrder ==
  ASSUME queue \in Seq(Block), ListInv, pc["cloud"] = "idle", NEW blocks \in Seq(Block),
         Submit(blocks), NEW a, NEW b, Follows(queue, a), EndOf(queue, a) = b,
         Follows(blocks, b)
  PROVE  Follows(queue', a) /\ EndOf(queue', a) = EndOf(blocks, b)
<1>1. queue' = queue \o blocks
  BY SubmitWhole
<1>2. Follows(queue \o blocks, a) /\ EndOf(queue \o blocks, a) = EndOf(blocks, EndOf(queue, a))
  BY FollowsConcat
<1> QED
  BY <1>1, <1>2

\* A write submits what follows the list, and leaves in wblock what follows that.
LEMMA WriteOrder ==
  ASSUME wblock \in Block \union {NoBlock}, wrote \in Nat,
         wblock # NoBlock => After(wblock) = wrote,
         NEW len \in Lens, NEW o \in WriteOutcomes(len)
  PROVE  /\ Follows(o.submit, Filled)
         /\ o.w # NoBlock => After(o.w) = wrote + o.n
         /\ EndOf(o.submit, Filled) = IF o.w = NoBlock THEN wrote + o.n ELSE o.w.from
<1>1. len \in 0 .. Size /\ Size \in Nat
  OBVIOUS
<1>2. \A a : Follows(<<>>, a) /\ EndOf(<<>>, a) = a
  BY EmptySeq DEF Follows, EndOf
<1>3. CASE len = 0
  <2>1. o = [submit |-> <<>>, w |-> wblock, new |-> 0, ok |-> TRUE, n |-> 0]
    BY <1>3 DEF WriteOutcomes
  <2> QED
    BY <1>2, <2>1 DEF Filled
<1>4. CASE len # 0 /\ wblock = NoBlock
  <2> DEFINE rest == [from |-> wrote + 0, len |-> len - 0]
  <2>1. rest \in Block /\ After(rest) = wrote + len /\ rest.from = wrote
    BY <1>1 DEF Block, After
  <2>2. \/ o = [submit |-> <<>>, w |-> rest, new |-> 1, ok |-> TRUE, n |-> len]
        \/ o = [submit |-> <<>>, w |-> NoBlock, new |-> 0, ok |-> FALSE, n |-> 0]
    BY <1>4 DEF WriteOutcomes
  <2>3. Filled = wrote
    BY <1>4 DEF Filled
  <2> HIDE DEF rest
  <2>4. rest # NoBlock
    BY <2>1
  <2>5. CASE o = [submit |-> <<>>, w |-> rest, new |-> 1, ok |-> TRUE, n |-> len]
    BY <1>2, <2>1, <2>3, <2>4, <2>5
  <2>6. CASE o = [submit |-> <<>>, w |-> NoBlock, new |-> 0, ok |-> FALSE, n |-> 0]
    BY <1>2, <2>3, <2>6
  <2> QED
    BY <2>2, <2>5, <2>6
<1>5. CASE len # 0 /\ wblock # NoBlock
  <2> DEFINE have == wblock.len
             fb == [wblock EXCEPT !.len = Size]
             rest == [from |-> wrote + (Size - have), len |-> len - (Size - have)]
             fits == [wblock EXCEPT !.len = have + len]
  <2>1. /\ wblock \in Block /\ have \in 0 .. Size /\ wblock.from \in Nat
        /\ wblock.from + have = wrote /\ Filled = wblock.from
    BY <1>5 DEF Block, After, Filled
  <2>2. fb \in Block /\ fb.from = wblock.from /\ After(fb) = wrote + (Size - have)
    <3>1. fb \in Block /\ fb.from = wblock.from /\ fb.len = Size
      BY <1>1, <2>1 DEF Block
    <3> QED
      BY <1>1, <2>1, <3>1 DEF After
  <2>3. /\ have + len <= Size =>
             fits # NoBlock /\ fits.from = wblock.from /\ After(fits) = wrote + len
    <3>1. have + len <= Size =>
            fits \in Block /\ fits.from = wblock.from /\ fits.len = have + len
      BY <1>1, <2>1 DEF Block
    <3> QED
      BY <1>1, <2>1, <3>1 DEF After
  <2>4. have + len > Size =>
          /\ rest # NoBlock /\ rest.from = wrote + (Size - have)
          /\ After(rest) = wrote + len
    <3>1. have + len > Size =>
            /\ rest \in Block /\ rest.from = wrote + (Size - have)
            /\ rest.len = len - (Size - have)
      BY <1>1, <2>1 DEF Block
    <3> QED
      BY <1>1, <2>1, <3>1 DEF After
  <2>5. \/ /\ have + len <= Size
           /\ o = [submit |-> <<>>, w |-> fits, new |-> 0, ok |-> TRUE, n |-> len]
        \/ /\ have + len > Size
           /\ o = [submit |-> <<fb>>, w |-> rest, new |-> 1, ok |-> TRUE, n |-> len]
        \/ o = [submit |-> <<fb>>, w |-> NoBlock, new |-> 0, ok |-> FALSE, n |-> Size - have]
    BY <1>1, <1>5, <2>1 DEF WriteOutcomes
  <2> HIDE DEF fb, rest, fits
  <2>6. Follows(<<fb>>, Filled) /\ EndOf(<<fb>>, Filled) = After(fb)
    BY <2>1, <2>2, FollowsOne
  <2>7. CASE have + len <= Size
             /\ o = [submit |-> <<>>, w |-> fits, new |-> 0, ok |-> TRUE, n |-> len]
    BY <1>2, <2>1, <2>3, <2>7
  <2>8. CASE have + len > Size
             /\ o = [submit |-> <<fb>>, w |-> rest, new |-> 1, ok |-> TRUE, n |-> len]
    BY <2>2, <2>4, <2>6, <2>8
  <2>9. CASE o = [submit |-> <<fb>>, w |-> NoBlock, new |-> 0, ok |-> FALSE,
                  n |-> Size - have]
    BY <2>2, <2>6, <2>9
  <2> QED
    BY <2>5, <2>7, <2>8, <2>9
<1> QED
  BY <1>3, <1>4, <1>5

\* A step that touches neither the blocks nor what was sent or written.
LEMMA OrderKept ==
  ASSUME OrderInv, UNCHANGED <<wblock, rblock, queue, lost, sent, wrote>>,
         \A t \in Threads : pc'[t] \in Hand <=> pc[t] \in Hand,
         Sendable' => Sendable
  PROVE  Unbroken'
<1>1. NextByte' = NextByte /\ Filled' = Filled
  BY DEF NextByte, Filled, After
<1> QED
  BY <1>1 DEF OrderInv, Unbroken, After, Follows, EndOf

\* Closing moves wblock to the list.
LEMMA CloseOrder ==
  ASSUME OrderInv, CloseUplink, pc["cloud"] = "idle", pc["bt"] \in {"idle", "close2"},
         UNCHANGED <<result, sent, wrote>>
  PROVE  Unbroken'
<1>1. /\ queue \in Seq(Block) /\ lost \in Seq(Block)
      /\ wblock \in Block \union {NoBlock} /\ wrote \in Nat
      /\ pc' = [pc EXCEPT !["bt"] = "process"]
      /\ UNCHANGED <<up, rblock>>
  BY DEF OrderInv, UplinkInv, TypeOK, CloseUplink, Goto
<1>2. \A t \in Threads : pc'[t] \in Hand <=> pc[t] \in Hand
  BY <1>1 DEF OrderInv, UplinkInv, TypeOK, Hand, TailSteps
<1>3. Sendable' => Sendable
  BY <1>1 DEF Sendable, Refused, Ending, OrderInv, UplinkInv, TypeOK
<1>4. CASE "CLOSED" \notin flags /\ wblock # NoBlock
  <2>1. wblock \in Block /\ Submit(<<wblock>>) /\ wblock' = NoBlock
    BY <1>1, <1>4 DEF CloseUplink
  <2>2. /\ Filled = wblock.from /\ Filled' = wrote /\ After(wblock) = wrote
        /\ NextByte' = NextByte
    BY <1>1, <1>2, <1>4, <2>1 DEF Filled, NextByte, After, OrderInv, Unbroken
  <2>3. Follows(<<wblock>>, Filled) /\ EndOf(<<wblock>>, Filled) = After(wblock)
    BY <2>1, <2>2, FollowsOne
  <2>4. ASSUME Sendable'
        PROVE  /\ Follows(queue', NextByte)
               /\ EndOf(queue', NextByte) = wrote
    <3>1. ListInv /\ Follows(queue, NextByte) /\ EndOf(queue, NextByte) = Filled
      BY <1>3, <2>4 DEF OrderInv, Unbroken
    <3>2. <<wblock>> \in Seq(Block)
      BY <2>1
    <3> QED
      BY <1>1, <2>1, <2>2, <2>3, <3>1, <3>2, SubmitOrder
  <2>5. \A t \in Threads : Sendable' /\ pc'[t] \in Hand => rblock'.from = sent'
    BY <1>1, <1>2, <1>3 DEF OrderInv, Unbroken
  <2>6. Follows(queue, NextByte)' <=> Follows(queue', NextByte)
    BY <2>2 DEF Follows, After
  <2>7. EndOf(queue, NextByte)' = EndOf(queue', NextByte)
    BY <2>2 DEF EndOf, After
  <2> QED
    BY <2>1, <2>2, <2>4, <2>5, <2>6, <2>7 DEF Unbroken
<1>5. CASE ~("CLOSED" \notin flags /\ wblock # NoBlock)
  <2>1. UNCHANGED <<wblock, rblock, queue, lost, sent, wrote>>
    BY <1>1, <1>5 DEF CloseUplink, listVars
  <2> QED
    BY <1>2, <1>3, <2>1, OrderKept
<1> QED
  BY <1>4, <1>5

\* process_uplink sends the head of the list, or nothing any more.
LEMMA OrderProcess ==
  ASSUME OrderInv, NEW t \in Threads, ProcessUplink(t)
  PROVE  NobodySends' /\ Unbroken'
<1>0. /\ pc \in [Threads -> {"idle", "close2", "end", "unsubscribe"} \union UsesUplink]
      /\ result \in [Threads -> {"success", "local", "cloud"}]
      /\ queue \in Seq(Block) /\ lost \in Seq(Block) /\ sent \in Nat
      /\ rblock \in Block \union {NoBlock} /\ OneHolder /\ BlockInHand /\ NobodySends
  BY DEF OrderInv, UplinkInv, TypeOK
<1> USE DEF NobodySends, Refused, Sendable, Holds, OneHolder, Section, TailSteps, Hand,
            Ending, Threads,
            upVars, listVars, localVars, restVars, sdkVars
<1>1. CASE TestAndSetSending(t)
  <2>1. NobodySends'
    BY <1>0, <1>1 DEF TestAndSetSending, At, Goto, Return
  <2>2. Unbroken'
    BY <1>0, <1>1, OrderKept DEF TestAndSetSending, At, Goto, Return
  <2> QED
    BY <2>1, <2>2
<1>2. CASE ReadClosed(t)
  <2>1. NobodySends'
    BY <1>0, <1>2 DEF ReadClosed, At, Goto
  <2>2. Unbroken'
    BY <1>0, <1>2, OrderKept DEF ReadClosed, At, Goto
  <2> QED
    BY <2>1, <2>2
<1>3. CASE GetBlock(t)
  <2>0. \/ pc' = [pc EXCEPT ![t] = "end"] /\ result' = [result EXCEPT ![t] = "success"]
        \/ pc' = [pc EXCEPT ![t] = "unsend"] /\ result' = [result EXCEPT ![t] = "success"]
        \/ pc' = [pc EXCEPT ![t] = "unlink"] /\ result' = result
    BY <1>3 DEF GetBlock, Goto
  <2>1. NobodySends'
    BY <1>0, <1>3, <2>0 DEF GetBlock, At
  <2>2. Unbroken'
    BY <1>0, <1>3, <2>0, OrderKept DEF GetBlock, At
  <2> QED
    BY <2>1, <2>2
<1>4. CASE Unlink(t)
  <2>1. NobodySends'
    BY <1>0, <1>4 DEF Unlink, At, Goto
  <2>2. /\ queue # <<>> /\ \A u \in Threads : pc[u] \notin Hand
        /\ pc'[t] \in Hand /\ rblock' = Head(queue)
        /\ UNCHANGED <<up, wblock, sent, wrote>>
    BY <1>0, <1>4 DEF Unlink, At, Goto, BlockInHand
  <2>3. NextByte = sent /\ NextByte' = After(Head(queue)) /\ Filled' = Filled
    BY <2>2 DEF NextByte, After, Filled
  <2>4. Sendable
    BY <1>0, <1>4 DEF Unlink, At, Misuse, UsesUplink, OrderInv, UplinkInv, TypeOK
  <2>5. /\ Head(queue).from = sent
        /\ Follows(Tail(queue), NextByte')
        /\ EndOf(Tail(queue), NextByte') = Filled
    BY <1>0, <2>2, <2>3, <2>4, FollowsTail DEF OrderInv, Unbroken
  <2>6. queue' = Tail(queue)
    BY <1>4, UnlinkWhole DEF OrderInv
  <2>7. \A u \in Threads : pc'[u] \in Hand => rblock'.from = sent'
    BY <2>2, <2>5
  <2>8. (wblock # NoBlock => After(wblock) = wrote)'
    BY <2>2 DEF OrderInv, Unbroken, After
  <2>9. /\ Follows(queue, NextByte)' <=> Follows(queue', NextByte')
        /\ EndOf(queue, NextByte)' = EndOf(queue', NextByte')
    BY DEF Follows, EndOf, After
  <2> QED
    BY <2>1, <2>3, <2>5, <2>6, <2>7, <2>8, <2>9 DEF Unbroken
<1>12. CASE TestTail(t)
  <2>1. NobodySends'
    BY <1>0, <1>12 DEF TestTail, At, Goto
  <2>2. Unbroken'
    BY <1>0, <1>12, OrderKept DEF TestTail, At, Goto
  <2> QED
    BY <2>1, <2>2
<1>13. CASE ResetTail(t)
  <2>1. NobodySends'
    BY <1>0, <1>13 DEF ResetTail, At, Goto
  <2>2. lost' = lost
    BY <1>13 DEF ResetTail, OrderInv, ListInv, ListWhole
  <2>3. Unbroken'
    BY <1>0, <1>13, <2>2, OrderKept DEF ResetTail, At, Goto
  <2> QED
    BY <2>1, <2>3
<1>5. CASE SkipEmpty(t)
  <2>1. NobodySends'
    BY <1>0, <1>5 DEF SkipEmpty, At, Goto, Return
  <2>2. /\ UNCHANGED <<up, result, queue, lost, wblock, sent, wrote>>
        /\ pc[t] = "send" /\ \A u \in Threads : pc'[u] \notin Hand
        /\ rblock \in Block /\ rblock.len = 0
    BY <1>0, <1>5 DEF SkipEmpty, At, Goto, Return, BlockInHand
  <2>3. Sendable
    BY <1>0, <1>5 DEF SkipEmpty, At, Misuse, UsesUplink, TailSteps, Hand, OrderInv,
       UplinkInv, TypeOK
  <2>4. rblock.from = sent /\ After(rblock) = sent
    BY <1>0, <2>2, <2>3 DEF OrderInv, Unbroken, After, Block
  <2>5. NextByte' = NextByte /\ Filled' = Filled
    BY <2>2, <2>4 DEF NextByte, Filled
  <2> QED
    BY <2>1, <2>2, <2>3, <2>5 DEF OrderInv, Unbroken, Follows, EndOf, After
<1>6. CASE SendBlock(t)
  <2>0. /\ UNCHANGED <<up, flags, queue, lost, wblock, rblock, wrote>>
        /\ pc[t] = "send" /\ rblock \in Block
    BY <1>0, <1>6 DEF SendBlock, At, BlockInHand
  <2>1. Sendable
    BY <1>0, <1>6 DEF SendBlock, At, Misuse, UsesUplink, TailSteps, Hand, OrderInv,
       UplinkInv, TypeOK
  <2>2. \/ /\ sent' = After(rblock) /\ result' = result
           /\ \/ pc' = [pc EXCEPT ![t] = "idle"]
              \/ pc' = [pc EXCEPT ![t] = "close2"]
        \/ /\ pc' = [pc EXCEPT ![t] = "end"] /\ result' = [result EXCEPT ![t] = "local"]
           /\ sdk' = sdk
    BY <1>6 DEF SendBlock, Goto, Return, After
  <2>3. NobodySends'
    BY <1>0, <2>0, <2>1, <2>2
  <2>4. (wblock # NoBlock => After(wblock) = wrote)'
    BY <2>0 DEF OrderInv, Unbroken, After
  <2>5. CASE sent' = After(rblock) /\ \A u \in Threads : pc'[u] \notin Hand
    <3>1. NextByte' = NextByte /\ Filled' = Filled
      BY <2>0, <2>5 DEF NextByte, Filled
    <3>2. Follows(queue, NextByte) /\ EndOf(queue, NextByte) = Filled
      BY <2>1 DEF OrderInv, Unbroken
    <3>3. Follows(queue, NextByte)' /\ (EndOf(queue, NextByte) = Filled)'
      BY <2>0, <3>1, <3>2 DEF Follows, EndOf, After
    <3> QED
      BY <2>3, <2>4, <2>5, <3>3 DEF Unbroken
  <2>6. CASE ~Sendable'
    BY <2>3, <2>4, <2>6 DEF Unbroken
  <2>7. (sent' = After(rblock) /\ \A u \in Threads : pc'[u] \notin Hand) \/ ~Sendable'
    BY <1>0, <2>0, <2>2
  <2> QED
    BY <2>5, <2>6, <2>7
<1>7. CASE ClearSending(t)
  <2>1. NobodySends'
    BY <1>0, <1>7 DEF ClearSending, At, Goto, Return
  <2>2. Unbroken'
    BY <1>0, <1>7, OrderKept DEF ClearSending, At, Goto, Return
  <2> QED
    BY <2>1, <2>2
<1>8. CASE EndCb(t)
  <2>1. NobodySends'
    BY <1>0, <1>8 DEF EndCb, At, Goto
  <2>2. Unbroken'
    BY <1>0, <1>8, OrderKept DEF EndCb, At, Goto
  <2> QED
    BY <2>1, <2>2
<1>9. CASE Unsubscribe(t)
  <2>1. NobodySends'
    BY <1>0, <1>9 DEF Unsubscribe, At, Goto
  <2>2. Unbroken'
    BY <1>0, <1>9, OrderKept DEF Unsubscribe, At, Goto
  <2> QED
    BY <2>1, <2>2
<1>10. CASE Cleanup(t)
  <2>1. NobodySends'
    BY <1>0, <1>10 DEF Cleanup, At, Goto, Return
  <2>2. Unbroken'
    BY <1>10 DEF Cleanup, Unbroken
  <2> QED
    BY <2>1, <2>2
<1>11. CASE Crash(t)
  <2>1. NobodySends'
    BY <1>0, <1>11 DEF Crash
  <2>2. Unbroken'
    BY <1>0, <1>11, OrderKept DEF Crash
  <2> QED
    BY <2>1, <2>2
<1> QED
  BY <1>1, <1>2, <1>3, <1>4, <1>5, <1>6, <1>7, <1>8, <1>9, <1>10, <1>11, <1>12,
     <1>13 DEF ProcessUplink

\* block_upload_callback leaves the order alone; nobody sends while it forgets rblock.
LEMMA OrderCallback ==
  ASSUME OrderInv, CloudStep
  PROVE  NobodySends' /\ Unbroken'
<1>0. /\ pc \in [Threads -> {"idle", "close2", "end", "unsubscribe"} \union UsesUplink]
      /\ result \in [Threads -> {"success", "local", "cloud"}]
      /\ OneHolder /\ NobodySends
  BY DEF OrderInv, UplinkInv, TypeOK
<1> USE DEF NobodySends, Refused, Sendable, Holds, OneHolder, Section, TailSteps, Hand,
            Ending, Threads,
            upVars, listVars, localVars, restVars, sdkVars
<1>1. ASSUME NEW ok \in BOOLEAN, UploadCallback(ok) PROVE NobodySends' /\ Unbroken'
  <2>1. NobodySends'
    BY <1>0, <1>1 DEF UploadCallback, Goto
  <2>2. Unbroken'
    BY <1>0, <1>1, OrderKept DEF UploadCallback, Goto
  <2> QED
    BY <2>1, <2>2
<1>2. CASE TestAndClearSending
  <2>1. NobodySends'
    BY <1>0, <1>2 DEF TestAndClearSending, At, Goto, Return
  <2>2. Unbroken'
    BY <1>0, <1>2, OrderKept DEF TestAndClearSending, At, Goto, Return
  <2> QED
    BY <2>1, <2>2
<1>3. CASE FreeSent
  <2>1. NobodySends'
    BY <1>0, <1>3 DEF FreeSent, At, Goto
  <2>2. Unbroken'
    BY <1>0, <1>3, OrderKept DEF FreeSent, At, Goto
  <2> QED
    BY <2>1, <2>2
<1>4. CASE ForgetSent
  <2>1. NobodySends'
    BY <1>0, <1>4 DEF ForgetSent, At, Goto
  <2>2. /\ UNCHANGED <<up, queue, lost, wblock, sent, wrote>>
        /\ \A u \in Threads : pc[u] \notin Hand /\ pc'[u] \notin Hand
        /\ Sendable' => Sendable
    BY <1>0, <1>4 DEF ForgetSent, At, Goto
  <2>3. NextByte' = NextByte /\ Filled' = Filled
    BY <2>2 DEF NextByte, Filled
  <2>4. Unbroken'
    BY <2>2, <2>3 DEF OrderInv, Unbroken, Follows, EndOf, After
  <2> QED
    BY <2>1, <2>4
<1>5. CASE ProcessUplink("cloud")
  BY <1>5, OrderProcess
<1> QED
  BY <1>1, <1>2, <1>3, <1>4, <1>5 DEF CloudStep

\* A payload submits a block that it has filled, and the last block if it is the
\* last payload: they follow the list, and wblock follows them.
LEMMA PayloadBlocks ==
  ASSUME UplinkInv, wblock # NoBlock => After(wblock) = wrote,
         NEW len \in Lens, NEW last \in BOOLEAN, Payload(len, last)
  PROVE  /\ \E first, rest \in Seq(Block) :
              /\ Len(first) <= 1 /\ Len(rest) <= 1 /\ Submit(first \o rest)
              /\ Follows(first, Filled) /\ Follows(rest, EndOf(first, Filled))
              /\ EndOf(rest, EndOf(first, Filled)) = Filled'
         /\ wblock' # NoBlock => After(wblock') = wrote'
<1>0. wrote \in Nat /\ wblock \in Block \union {NoBlock}
  BY DEF UplinkInv, TypeOK
<1>1. PICK o \in WriteOutcomes(len) :
        LET tail == IF o.ok /\ last /\ "CLOSED" \notin flags /\ o.w # NoBlock
                    THEN <<o.w>> ELSE <<>>
        IN /\ Submit(o.submit \o tail)
           /\ wblock' = IF tail = <<>> THEN o.w ELSE NoBlock
           /\ wrote' = wrote + o.n
  BY DEF Payload
<1> DEFINE tail == IF o.ok /\ last /\ "CLOSED" \notin flags /\ o.w # NoBlock
                   THEN <<o.w>> ELSE <<>>
<1>2. /\ o.submit \in Seq(Block) /\ o.w \in Block \union {NoBlock} /\ o.n \in Nat
      /\ Follows(o.submit, Filled)
      /\ o.w # NoBlock => After(o.w) = wrote + o.n
      /\ EndOf(o.submit, Filled) = IF o.w = NoBlock THEN wrote + o.n ELSE o.w.from
  BY <1>0, WriteTypes, WriteOrder
<1>3. /\ tail \in Seq(Block) /\ Len(tail) <= 1
      /\ Follows(tail, EndOf(o.submit, Filled))
      /\ EndOf(tail, EndOf(o.submit, Filled)) = Filled'
      /\ wblock' # NoBlock => After(wblock') = wrote'
  <2>1. CASE o.ok /\ last /\ "CLOSED" \notin flags /\ o.w # NoBlock
    <3>1. tail = <<o.w>> /\ wblock' = NoBlock /\ wrote' = wrote + o.n /\ o.w \in Block
      BY <1>1, <1>2, <2>1
    <3>2. Filled' = wrote'
      BY <3>1 DEF Filled
    <3>3. Len(tail) <= 1
      BY <3>1
    <3> QED
      BY <1>2, <3>1, <3>2, <3>3, FollowsOne
  <2>2. CASE ~(o.ok /\ last /\ "CLOSED" \notin flags /\ o.w # NoBlock)
    <3>1. tail = <<>> /\ wblock' = o.w /\ wrote' = wrote + o.n
      BY <1>1, <2>2
    <3>2. Filled' = IF o.w = NoBlock THEN wrote + o.n ELSE o.w.from
      BY <3>1 DEF Filled
    <3>3. \A a : Follows(<<>>, a) /\ EndOf(<<>>, a) = a
      BY EmptySeq DEF Follows, EndOf
    <3>4. Len(tail) <= 1
      BY <3>1
    <3> QED
      BY <1>2, <3>1, <3>2, <3>3, <3>4, EmptySeq
  <2> QED
    BY <2>1, <2>2
<1>4. Submit(o.submit \o tail)
  BY <1>1
<1> HIDE DEF tail
<1>5. Len(o.submit) <= 1
  <2> DEFINE fb == [wblock EXCEPT !.len = Size]
  <2>1. o.submit = <<>> \/ o.submit = <<fb>>
    BY DEF WriteOutcomes
  <2> HIDE DEF fb
  <2>2. Len(<<>>) = 0 /\ Len(<<fb>>) = 1
    OBVIOUS
  <2> DEFINE n == Len(o.submit)
  <2>3. n = 0 \/ n = 1
    BY <2>1, <2>2, Zenon
  <2> HIDE DEF n
  <2>4. n <= 1
    BY <2>3
  <2> QED
    BY <2>4 DEF n
<1> QED
  BY <1>2, <1>3, <1>4, <1>5

\* A payload continues the list and wblock.
LEMMA OrderPayload ==
  ASSUME ~Preempts, OrderInv, NEW len \in Lens, NEW last \in BOOLEAN, Payload(len, last)
  PROVE  NobodySends' /\ Unbroken'
<1>0. /\ pc \in [Threads -> {"idle", "close2", "end", "unsubscribe"} \union UsesUplink]
      /\ queue \in Seq(Block)
      /\ wblock # NoBlock => After(wblock) = wrote
  BY DEF OrderInv, UplinkInv, TypeOK, Unbroken
<1>1. PICK first \in Seq(Block), rest \in Seq(Block) :
        /\ Submit(first \o rest)
        /\ Follows(first, Filled) /\ Follows(rest, EndOf(first, Filled))
        /\ EndOf(rest, EndOf(first, Filled)) = Filled'
  BY <1>0, PayloadBlocks DEF OrderInv
<1>3. wblock' # NoBlock => After(wblock') = wrote'
  BY <1>0, PayloadBlocks DEF OrderInv
<1>4. /\ first \o rest \in Seq(Block)
      /\ Follows(first \o rest, Filled)
      /\ EndOf(first \o rest, Filled) = Filled'
  BY <1>1, FollowsConcat, ConcatProperties
<1>5. Submit(first \o rest)
  BY <1>1
<1>6. /\ pc["bt"] = "idle" /\ pc["cloud"] = "idle"
      /\ UNCHANGED <<up, rblock, result, sdk, sent>>
      /\ pc' = pc \/ pc' = [pc EXCEPT !["bt"] = "process"]
      /\ "SENDING" \in flags => "SENDING" \in flags'
  BY DEF Payload, HostRuns, Goto, sdkVars
<1>7. NobodySends'
  BY <1>0, <1>6 DEF OrderInv, NobodySends, Refused, Holds, Section, TailSteps, Hand,
     Ending, Threads
<1>8. /\ \A t \in Threads : pc'[t] \in Hand <=> pc[t] \in Hand
      /\ Sendable' => Sendable
  BY <1>0, <1>6 DEF Sendable, Refused, Ending, Threads, Hand, TailSteps
<1>9. NextByte' = NextByte
  BY <1>6, <1>8 DEF NextByte, After
<1>10. ASSUME Sendable'
       PROVE  /\ Follows(queue', NextByte)
              /\ EndOf(queue', NextByte) = Filled'
  <2>1. ListInv /\ Follows(queue, NextByte) /\ EndOf(queue, NextByte) = Filled
    BY <1>8, <1>10 DEF OrderInv, Unbroken
  <2> QED
    BY <1>0, <1>4, <1>5, <1>6, <2>1, SubmitOrder
<1>11. \A t \in Threads : Sendable' /\ pc'[t] \in Hand => rblock'.from = sent'
  BY <1>6, <1>8 DEF OrderInv, Unbroken
<1>12. /\ Follows(queue, NextByte)' <=> Follows(queue', NextByte)
       /\ EndOf(queue, NextByte)' = EndOf(queue', NextByte)
       /\ After(wblock)' = After(wblock')
  BY <1>9 DEF Follows, EndOf, After
<1>13. Unbroken'
  BY <1>3, <1>10, <1>11, <1>12 DEF Unbroken
<1> QED
  BY <1>7, <1>13

\* The other callbacks of the host close the uplink at most.
LEMMA OrderHost ==
  ASSUME ~Preempts, OrderInv,
         \/ CloseAgain \/ PayloadTooLate \/ BadPayload \/ SubscriptionEnds
         \/ Disconnect \/ BtStop
  PROVE  NobodySends' /\ Unbroken'
<1>0. /\ pc \in [Threads -> {"idle", "close2", "end", "unsubscribe"} \union UsesUplink]
      /\ NobodySends
  BY DEF OrderInv, UplinkInv, TypeOK
<1>1. ASSUME CloseUplink, pc["cloud"] = "idle", pc["bt"] \in {"idle", "close2"},
             UNCHANGED <<result, sdk, sent, wrote>>
      PROVE  NobodySends' /\ Unbroken'
  <2>1. NobodySends'
    BY <1>0, <1>1 DEF CloseUplink, Goto, NobodySends, Refused, Holds, Section, TailSteps,
       Hand, Ending,
       Threads
  <2> QED
    BY <1>1, <2>1, CloseOrder
<1>2. ASSUME UNCHANGED <<upVars, pc, result, sdk, sent, wrote>>
      PROVE  NobodySends' /\ Unbroken'
  <2>1. NobodySends'
    BY <1>0, <1>2 DEF upVars, NobodySends, Refused, Holds
  <2>2. Sendable' => Sendable
    BY <1>2 DEF upVars, Sendable, Refused
  <2>3. \A t \in Threads : pc'[t] \in Hand <=> pc[t] \in Hand
    BY <1>2
  <2>4. UNCHANGED <<wblock, rblock, queue, lost, sent, wrote>>
    BY <1>2 DEF upVars, listVars
  <2> QED
    BY <2>1, <2>2, <2>3, <2>4, OrderKept
<1>3. CASE CloseAgain
  BY <1>1, <1>3 DEF CloseAgain, At, sdkVars, OrderInv, ListInv, OneHandler
<1>4. CASE PayloadTooLate
  BY <1>2, <1>4 DEF PayloadTooLate, localVars, sdkVars
<1>5. CASE BadPayload
  BY <1>2, <1>5 DEF BadPayload, localVars, sdkVars
<1>6. CASE SubscriptionEnds
  BY <1>1, <1>2, <1>6 DEF SubscriptionEnds, CloseNode, HostRuns, localVars, sdkVars
<1>7. CASE Disconnect
  BY <1>2, <1>7 DEF Disconnect, localVars, sdkVars
<1>8. CASE BtStop
  BY <1>1, <1>2, <1>8 DEF BtStop, CloseNode, HostRuns, localVars, sdkVars
<1> QED
  BY <1>3, <1>4, <1>5, <1>6, <1>7, <1>8

LEMMA OrderInit == Init => OrderInv
<1> SUFFICES ASSUME Init PROVE NobodySends /\ Unbroken
  BY InitUplink, ListInit DEF OrderInv
<1>1. \A a : Follows(<<>>, a) /\ EndOf(<<>>, a) = a
  BY EmptySeq DEF Follows, EndOf
<1>2. NobodySends
  BY DEF Init, NobodySends, Refused, Ending
<1>4. \A t \in Threads : pc[t] \notin Hand
  BY DEF Init, Hand, TailSteps
<1>3. After(wblock) = wrote /\ NextByte = 0 /\ Filled = 0
  BY <1>4 DEF Init, OpenUplink, After, NextByte, Filled, Block
<1>5. queue = <<>>
  BY DEF Init, OpenUplink
<1> QED
  BY <1>1, <1>2, <1>3, <1>4, <1>5 DEF Unbroken

LEMMA OrderStep == ASSUME ~Preempts PROVE OrderInv /\ [Next]_vars => OrderInv'
<1> SUFFICES ASSUME OrderInv, [Next]_vars PROVE NobodySends' /\ Unbroken'
  BY StepUplink, ListStep DEF OrderInv
<1>1. CASE CloudStep
  BY <1>1, OrderCallback
<1>2. CASE ProcessUplink("bt")
  BY <1>2, OrderProcess DEF Threads
<1>3. CASE Device
  BY <1>3, OrderPayload DEF Device
<1>4. CASE CloseAgain \/ PayloadTooLate \/ BadPayload \/ SubscriptionEnds
           \/ Disconnect \/ BtStop
  BY <1>4, OrderHost
<1>5. CASE UNCHANGED vars
  <2>1. NobodySends'
    BY <1>5 DEF vars, upVars, localVars, restVars, sdkVars, OrderInv, NobodySends, Refused,
       Holds
  <2>2. Sendable' => Sendable
    BY <1>5 DEF vars, upVars, localVars, Sendable, Refused
  <2> QED
    BY <1>5, <2>1, <2>2, OrderKept DEF vars, upVars, listVars, restVars, sdkVars
<1> QED
  BY <1>1, <1>2, <1>3, <1>4, <1>5 DEF Next, BtStep, Ended

\* The blocks of q are in the order of the pouch, between its bytes a and b.
Sorted(q, a, b) ==
  /\ \A i \in 1 .. Len(q) : a <= q[i].from /\ After(q[i]) <= b
  /\ \A i, j \in 1 .. Len(q) : i < j => After(q[i]) <= q[j].from

\* Under preemption blocks may be missing from the list, but those that the head
\* reaches lie behind what was sent and before what is to be submitted.
Forward ==
  /\ wblock # NoBlock => After(wblock) = wrote
  /\ sent <= NextByte /\ NextByte <= Filled
  /\ \A t \in Threads : pc[t] \in Hand => sent <= rblock.from
  /\ Sorted(queue, NextByte, Filled)

ForwardInv == UplinkInv /\ Forward

LEMMA SortedTail ==
  ASSUME NEW q \in Seq(Block), q # <<>>, NEW a \in Nat, NEW b \in Nat, Sorted(q, a, b)
  PROVE  /\ Head(q) \in Block /\ a <= Head(q).from /\ After(Head(q)) <= b
         /\ Sorted(Tail(q), After(Head(q)), b)
<1>1. /\ Len(q) \in Nat \ {0} /\ Head(q) = q[1] /\ Head(q) \in Block
      /\ Len(Tail(q)) = Len(q) - 1
      /\ \A i \in 1 .. Len(q) - 1 : Tail(q)[i] = q[i + 1]
  BY HeadTailProperties, EmptySeq
<1>2. /\ 1 \in 1 .. Len(q)
      /\ \A i \in 1 .. Len(q) - 1 : i + 1 \in 1 .. Len(q) /\ 1 < i + 1
  BY <1>1
<1>3. a <= Head(q).from /\ After(Head(q)) <= b
  BY <1>1, <1>2 DEF Sorted
<1>4. \A i \in 1 .. Len(q) - 1 : After(q[1]) <= q[i + 1].from /\ After(q[i + 1]) <= b
  BY <1>2 DEF Sorted
<1>5. \A i, j \in 1 .. Len(q) - 1 : i < j => After(q[i + 1]) <= q[j + 1].from
  <2> SUFFICES ASSUME NEW i \in 1 .. Len(q) - 1, NEW j \in 1 .. Len(q) - 1, i < j
               PROVE  After(q[i + 1]) <= q[j + 1].from
    OBVIOUS
  <2>1. i + 1 \in 1 .. Len(q) /\ j + 1 \in 1 .. Len(q) /\ i + 1 < j + 1
    BY <1>1
  <2> QED
    BY <2>1 DEF Sorted
<1> QED
  BY <1>1, <1>3, <1>4, <1>5 DEF Sorted

LEMMA SortedConcat ==
  ASSUME NEW q \in Seq(Block), NEW r \in Seq(Block), NEW a \in Nat, NEW b \in Nat,
         NEW c \in Nat, a <= b, b <= c, Sorted(q, a, b), Sorted(r, b, c)
  PROVE  Sorted(q \o r, a, c)
<1> DEFINE s == q \o r
<1>1. /\ s \in Seq(Block) /\ Len(s) = Len(q) + Len(r)
      /\ \A i \in 1 .. Len(q) + Len(r) :
           s[i] = IF i <= Len(q) THEN q[i] ELSE r[i - Len(q)]
      /\ Len(q) \in Nat /\ Len(r) \in Nat
  BY ConcatProperties, LenProperties
<1> HIDE DEF s
<1>2. /\ \A i \in 1 .. Len(q) : q[i] \in Block
      /\ \A i \in 1 .. Len(r) : r[i] \in Block
  BY ElementOfSeq
<1>3. \A x \in Block : x.from \in Nat /\ After(x) \in Nat
  BY SizeAssumption DEF Block, After
<1>4. ASSUME NEW i \in 1 .. Len(q) + Len(r)
      PROVE  \/ i \in 1 .. Len(q) /\ s[i] = q[i]
             \/ i - Len(q) \in 1 .. Len(r) /\ s[i] = r[i - Len(q)]
  BY <1>1
<1>5. \A i \in 1 .. Len(s) : a <= s[i].from /\ After(s[i]) <= c
  <2> SUFFICES ASSUME NEW i \in 1 .. Len(q) + Len(r)
               PROVE  a <= s[i].from /\ After(s[i]) <= c
    BY <1>1
  <2>1. CASE i \in 1 .. Len(q) /\ s[i] = q[i]
    <3>1. a <= q[i].from /\ After(q[i]) <= b
      BY <2>1 DEF Sorted
    <3>2. q[i].from \in Nat /\ After(q[i]) \in Nat
      BY <1>2, <1>3, <2>1
    <3> QED
      BY <2>1, <3>1, <3>2
  <2>2. CASE i - Len(q) \in 1 .. Len(r) /\ s[i] = r[i - Len(q)]
    <3> DEFINE k == i - Len(q)
    <3>1. b <= r[k].from /\ After(r[k]) <= c
      BY <2>2 DEF Sorted
    <3>2. r[k].from \in Nat /\ After(r[k]) \in Nat
      BY <1>2, <1>3, <2>2
    <3> QED
      BY <2>2, <3>1, <3>2
  <2> QED
    BY <1>4, <2>1, <2>2
<1>6. \A i, j \in 1 .. Len(s) : i < j => After(s[i]) <= s[j].from
  <2> SUFFICES ASSUME NEW i \in 1 .. Len(q) + Len(r), NEW j \in 1 .. Len(q) + Len(r), i < j
               PROVE  After(s[i]) <= s[j].from
    BY <1>1
  <2>1. CASE j \in 1 .. Len(q)
    <3>1. i \in 1 .. Len(q) /\ s[i] = q[i] /\ s[j] = q[j]
      BY <1>1, <2>1
    <3> QED
      BY <2>1, <3>1 DEF Sorted
  <2>2. CASE i \in 1 .. Len(q) /\ j \notin 1 .. Len(q)
    <3> DEFINE k == j - Len(q)
    <3>1. k \in 1 .. Len(r) /\ s[i] = q[i] /\ s[j] = r[k]
      BY <1>1, <2>2
    <3>2. After(q[i]) <= b /\ b <= r[k].from
      BY <2>2, <3>1 DEF Sorted
    <3>3. After(q[i]) \in Nat /\ r[k].from \in Nat
      BY <1>2, <1>3, <2>2, <3>1
    <3> QED
      BY <3>1, <3>2, <3>3
  <2>3. CASE i \notin 1 .. Len(q)
    <3> DEFINE k == i - Len(q)
               l == j - Len(q)
    <3>1. /\ ~(i <= Len(q)) /\ ~(j <= Len(q))
          /\ k \in 1 .. Len(r) /\ l \in 1 .. Len(r) /\ k < l
      BY <1>1, <2>3
    <3>2. s[i] = r[k] /\ s[j] = r[l]
      BY <1>1, <3>1
    <3> HIDE DEF k, l
    <3>3. After(r[k]) <= r[l].from
      BY <3>1 DEF Sorted
    <3> QED
      BY <3>2, <3>3
  <2> QED
    BY <2>1, <2>2, <2>3
<1> QED
  BY <1>5, <1>6 DEF Sorted, s

LEMMA SortedOne ==
  ASSUME NEW q \in Seq(Block), Len(q) <= 1, NEW a \in Nat, Follows(q, a)
  PROVE  Sorted(q, a, EndOf(q, a)) /\ EndOf(q, a) \in Nat /\ a <= EndOf(q, a)
<1>1. Len(q) \in Nat /\ (q = <<>> <=> Len(q) = 0)
  BY EmptySeq, LenProperties
<1>2. CASE Len(q) = 0
  BY <1>1, <1>2 DEF Sorted, EndOf
<1>3. CASE Len(q) = 1
  <2>1. q[1] \in Block /\ q[1].from = a /\ EndOf(q, a) = After(q[1])
    BY <1>1, <1>3, ElementOfSeq DEF Follows, EndOf
  <2>2. After(q[1]) \in Nat /\ a <= After(q[1])
    BY <2>1, SizeAssumption DEF After, Block
  <2>3. \A i \in 1 .. Len(q) : i = 1
    BY <1>3
  <2>4. ~(1 < 1) /\ a <= q[1].from /\ After(q[1]) <= EndOf(q, a)
    BY <2>1, <2>2
  <2>5. Sorted(q, a, EndOf(q, a))
    BY <2>3, <2>4, Zenon DEF Sorted
  <2> QED
    BY <2>1, <2>2, <2>5
<1>4. Len(q) = 0 \/ Len(q) = 1
  <2> DEFINE n == Len(q)
  <2>1. n \in Nat /\ n <= 1
    BY <1>1
  <2> HIDE DEF n
  <2>2. n = 0 \/ n = 1
    BY <2>1
  <2> QED
    BY <2>2 DEF n
<1> QED
  BY <1>2, <1>3, <1>4, Zenon

\* What the variables of Forward are.
ForwardFacts ==
  /\ pc \in [Threads -> {"idle", "close2", "end", "unsubscribe"} \union UsesUplink]
  /\ queue \in Seq(Block) /\ wblock \in Block \union {NoBlock} /\ wrote \in Nat
  /\ sent \in Nat /\ NextByte \in Nat /\ Filled \in Nat
  /\ OneHolder /\ BlockInHand

LEMMA ForwardTyped == ASSUME ForwardInv PROVE ForwardFacts
<1>1. /\ pc \in [Threads -> {"idle", "close2", "end", "unsubscribe"} \union UsesUplink]
      /\ queue \in Seq(Block) /\ wblock \in Block \union {NoBlock} /\ wrote \in Nat
      /\ rblock \in Block \union {NoBlock} /\ sent \in Nat /\ OneHolder /\ BlockInHand
  BY DEF ForwardInv, UplinkInv, TypeOK
<1>2. (\E t \in Threads : pc[t] \in Hand) => rblock \in Block
  BY <1>1 DEF BlockInHand
<1>3. NextByte \in Nat /\ Filled \in Nat
  BY <1>1, <1>2, SizeAssumption DEF NextByte, Filled, After, Block
<1> QED
  BY <1>1, <1>3 DEF ForwardFacts

\* A step that touches neither the blocks nor what was sent or written.
LEMMA ForwardKept ==
  ASSUME ForwardInv, UNCHANGED <<wblock, rblock, queue, sent, wrote>>,
         \A t \in Threads : pc'[t] \in Hand <=> pc[t] \in Hand
  PROVE  Forward'
<1>1. NextByte' = NextByte /\ Filled' = Filled
  BY DEF NextByte, Filled, After
<1> QED
  BY <1>1 DEF ForwardInv, Forward, Sorted, After

\* Submitted blocks go behind the list, or out of reach of its head.
LEMMA ForwardSubmit ==
  ASSUME ForwardInv, NEW blocks \in Seq(Block), Submit(blocks),
         Filled' \in Nat, Filled <= Filled', Sorted(blocks, Filled, Filled'),
         wblock' # NoBlock => After(wblock') = wrote', UNCHANGED <<rblock, sent>>,
         \A t \in Threads : pc'[t] \in Hand <=> pc[t] \in Hand
  PROVE  Forward'
<1>1. NextByte' = NextByte
  BY DEF NextByte, After
<1>2. /\ ForwardFacts /\ Sorted(queue, NextByte, Filled)
      /\ sent <= NextByte /\ NextByte <= Filled
      /\ \A t \in Threads : pc[t] \in Hand => sent <= rblock.from
  BY ForwardTyped DEF ForwardInv, Forward
<1>3. NextByte <= Filled'
  BY <1>2 DEF ForwardFacts
<1>4. Sorted(queue \o blocks, NextByte, Filled')
  BY <1>2, SortedConcat DEF ForwardFacts
<1>5. Sorted(queue, NextByte, Filled')
  <2>1. \A i \in 1 .. Len(queue) : queue[i] \in Block
    BY <1>2, ElementOfSeq DEF ForwardFacts
  <2>2. \A i \in 1 .. Len(queue) : After(queue[i]) \in Nat
    BY <2>1, SizeAssumption DEF After, Block
  <2>3. \A i \in 1 .. Len(queue) : After(queue[i]) <= Filled'
    BY <1>2, <2>2 DEF Sorted, ForwardFacts
  <2> QED
    BY <1>2, <2>3 DEF Sorted
<1>6. Sorted(queue', NextByte, Filled')
  BY <1>4, <1>5 DEF Submit
<1>7. Sorted(queue, NextByte, Filled)' <=> Sorted(queue', NextByte, Filled')
  BY <1>1 DEF Sorted, After
<1>8. (wblock # NoBlock => After(wblock) = wrote)' <=> (wblock' # NoBlock => After(wblock') = wrote')
  BY DEF After
<1> QED
  BY <1>1, <1>2, <1>3, <1>6, <1>7, <1>8 DEF Forward

LEMMA ForwardProcess ==
  ASSUME ForwardInv, NEW t \in Threads, ProcessUplink(t)
  PROVE  Forward'
<1>0. ForwardFacts /\ Forward
  BY ForwardTyped DEF ForwardInv
<1> USE DEF ForwardFacts, OneHolder, Holds, Section, TailSteps, Hand, Threads, upVars,
            listVars, localVars, restVars, sdkVars
<1>1. CASE \/ TestAndSetSending(t) \/ ReadClosed(t) \/ GetBlock(t) \/ TestTail(t)
           \/ ResetTail(t) \/ ClearSending(t) \/ EndCb(t) \/ Unsubscribe(t)
  <2>1. UNCHANGED <<wblock, rblock, queue, sent, wrote>>
    BY <1>1 DEF TestAndSetSending, ReadClosed, GetBlock, TestTail, ResetTail, ClearSending,
       EndCb, Unsubscribe
  <2>2. \A u \in Threads : pc'[u] \in Hand <=> pc[u] \in Hand
    BY <1>0, <1>1 DEF TestAndSetSending, ReadClosed, GetBlock, TestTail, ResetTail,
       ClearSending, EndCb, Unsubscribe, At, Goto, Return
  <2> QED
    BY <2>1, <2>2, ForwardKept
<1>2. CASE Unlink(t)
  <2>1. /\ queue # <<>> /\ \A u \in Threads : pc[u] \notin Hand
        /\ pc'[t] \in Hand /\ rblock' = Head(queue)
        /\ queue' \in {Tail(queue), <<>>}
        /\ UNCHANGED <<wblock, sent, wrote>>
    BY <1>0, <1>2 DEF Unlink, At, Goto, BlockInHand
  <2>2. NextByte = sent /\ NextByte' = After(Head(queue)) /\ Filled' = Filled
    BY <2>1 DEF NextByte, After, Filled
  <2>3. /\ Head(queue) \in Block /\ sent <= Head(queue).from
        /\ After(Head(queue)) <= Filled
        /\ Sorted(Tail(queue), After(Head(queue)), Filled)
    BY <1>0, <2>1, <2>2, SortedTail DEF Forward
  <2>4. Sorted(<<>>, After(Head(queue)), Filled)
    BY EmptySeq DEF Sorted
  <2>5. Sorted(queue', NextByte', Filled')
    <3>1. queue' = Tail(queue) \/ queue' = <<>>
      BY <2>1
    <3> QED
      BY <2>2, <2>3, <2>4, <3>1, Zenon
  <2>6. sent' <= NextByte' /\ NextByte' <= Filled'
    <3> DEFINE b == Head(queue)
    <3>1. b \in Block /\ sent <= b.from /\ After(b) <= Filled /\ sent \in Nat
      BY <1>0, <2>3
    <3> HIDE DEF b
    <3>2. sent <= After(b)
      BY <3>1, SizeAssumption DEF After, Block
    <3> QED
      BY <2>1, <2>2, <3>1, <3>2 DEF b
  <2>7. \A u \in Threads : pc'[u] \in Hand => sent' <= rblock'.from
    BY <2>1, <2>3
  <2>8. (wblock # NoBlock => After(wblock) = wrote)'
    BY <1>0, <2>1 DEF Forward, After
  <2>9. Sorted(queue, NextByte, Filled)' <=> Sorted(queue', NextByte', Filled')
    BY DEF Sorted, After
  <2> QED
    BY <2>5, <2>6, <2>7, <2>8, <2>9 DEF Forward
<1>3. CASE SkipEmpty(t) \/ SendBlock(t)
  <2>1. /\ \A u \in Threads : pc'[u] \notin Hand
        /\ UNCHANGED <<wblock, queue, wrote>> /\ pc[t] = "send" /\ rblock \in Block
        /\ sent' = sent \/ sent' = After(rblock)
    BY <1>0, <1>3 DEF SkipEmpty, SendBlock, At, Goto, Return, BlockInHand, After,
       ForwardInv,
       UplinkInv, TypeOK
  <2>2. NextByte = After(rblock) /\ NextByte' = sent' /\ Filled' = Filled
    BY <2>1 DEF NextByte, After, Filled
  <2>3. sent' <= NextByte /\ NextByte <= Filled /\ sent' \in Nat
    <3>1. sent <= rblock.from /\ NextByte <= Filled
      BY <1>0, <2>1 DEF Forward
    <3>2. rblock.from <= After(rblock) /\ rblock.from \in Nat /\ After(rblock) \in Nat
      BY <2>1, SizeAssumption DEF After, Block
    <3> QED
      BY <1>0, <2>1, <2>2, <3>1, <3>2
  <2>4. Sorted(queue, sent', Filled)
    <3>0. \A i \in 1 .. Len(queue) : queue[i] \in Block
      BY <1>0, ElementOfSeq
    <3>1. \A i \in 1 .. Len(queue) : queue[i].from \in Nat
      BY <3>0 DEF Block
    <3>2. \A i \in 1 .. Len(queue) : sent' <= queue[i].from
      BY <1>0, <2>3, <3>1 DEF Forward, Sorted
    <3> QED
      BY <1>0, <3>2 DEF Forward, Sorted
  <2>5. Sorted(queue, NextByte, Filled)' <=> Sorted(queue', sent', Filled')
    BY <2>2 DEF Sorted, After
  <2>6. sent' <= NextByte' /\ NextByte' <= Filled'
    BY <1>0, <2>2, <2>3
  <2>7. (wblock # NoBlock => After(wblock) = wrote)'
    BY <1>0, <2>1 DEF Forward, After
  <2> QED
    BY <2>1, <2>2, <2>4, <2>5, <2>6, <2>7 DEF Forward
<1>4. CASE Cleanup(t)
  <2>1. /\ \A u \in Threads : pc[u] \notin Hand /\ pc'[u] \notin Hand
        /\ wblock' = NoBlock /\ queue' = <<>> /\ UNCHANGED <<sent, wrote>>
    BY <1>0, <1>4 DEF Cleanup, At, Goto, Return, BlockInHand, Ending
  <2>2. NextByte = sent /\ NextByte' = sent /\ Filled' = wrote
    BY <2>1 DEF NextByte, Filled
  <2>3. sent <= wrote
    <3>1. sent <= Filled
      BY <1>0, <2>2 DEF Forward
    <3>2. Filled <= wrote
      BY <1>0, SizeAssumption DEF Forward, Filled, After, Block
    <3> QED
      BY <1>0, <3>1, <3>2
  <2>4. Sorted(queue, NextByte, Filled)'
    BY <2>1, EmptySeq DEF Sorted
  <2>5. sent' <= NextByte' /\ NextByte' <= Filled'
    BY <1>0, <2>1, <2>2, <2>3
  <2> QED
    BY <2>1, <2>4, <2>5 DEF Forward
<1>5. CASE Crash(t)
  BY <1>5, ForwardKept DEF Crash
<1> QED
  BY <1>1, <1>2, <1>3, <1>4, <1>5 DEF ProcessUplink

LEMMA ForwardCloses ==
  ASSUME ForwardInv, CloseUplink, pc["bt"] \in {"idle", "close2"}, UNCHANGED <<sent, wrote>>
  PROVE  Forward'
<1>1. /\ ForwardFacts /\ (wblock # NoBlock => After(wblock) = wrote)
      /\ pc' = [pc EXCEPT !["bt"] = "process"] /\ UNCHANGED rblock
  BY ForwardTyped DEF ForwardInv, Forward, CloseUplink, Goto
<1>2. \A t \in Threads : pc'[t] \in Hand <=> pc[t] \in Hand
  BY <1>1 DEF ForwardFacts, Hand, TailSteps
<1>3. CASE "CLOSED" \notin flags /\ wblock # NoBlock
  <2>1. wblock \in Block /\ Submit(<<wblock>>) /\ wblock' = NoBlock
    BY <1>1, <1>3 DEF CloseUplink, ForwardFacts
  <2>2. Filled = wblock.from /\ Filled' = wrote /\ After(wblock) = wrote
    BY <1>1, <1>3, <2>1 DEF Filled
  <2>3. Follows(<<wblock>>, Filled) /\ EndOf(<<wblock>>, Filled) = wrote
    BY <2>1, <2>2, FollowsOne
  <2>4. <<wblock>> \in Seq(Block) /\ Len(<<wblock>>) <= 1
    BY <2>1
  <2>5. Sorted(<<wblock>>, Filled, Filled') /\ Filled <= Filled' /\ Filled' \in Nat
    BY <1>1, <2>2, <2>3, <2>4, SortedOne DEF ForwardFacts
  <2> QED
    BY <1>1, <1>2, <2>1, <2>4, <2>5, ForwardSubmit
<1>4. CASE ~("CLOSED" \notin flags /\ wblock # NoBlock)
  BY <1>1, <1>2, <1>4, ForwardKept DEF CloseUplink, listVars
<1> QED
  BY <1>3, <1>4

LEMMA ForwardPayload ==
  ASSUME ForwardInv, NEW len \in Lens, NEW last \in BOOLEAN, Payload(len, last)
  PROVE  Forward'
<1>0. UplinkInv /\ ForwardFacts /\ (wblock # NoBlock => After(wblock) = wrote)
  BY ForwardTyped DEF ForwardInv, Forward
<1>1. PICK first \in Seq(Block), rest \in Seq(Block) :
        /\ Len(first) <= 1 /\ Len(rest) <= 1 /\ Submit(first \o rest)
        /\ Follows(first, Filled) /\ Follows(rest, EndOf(first, Filled))
        /\ EndOf(rest, EndOf(first, Filled)) = Filled'
  BY <1>0, PayloadBlocks
<1>2. wblock' # NoBlock => After(wblock') = wrote'
  BY <1>0, PayloadBlocks
<1> DEFINE mid == EndOf(first, Filled)
<1>3. Sorted(first, Filled, mid) /\ mid \in Nat /\ Filled <= mid
  BY <1>0, <1>1, SortedOne DEF ForwardFacts
<1>4. Sorted(rest, mid, Filled') /\ Filled' \in Nat /\ mid <= Filled'
  BY <1>1, <1>3, SortedOne
<1> HIDE DEF mid
<1>5. Sorted(first \o rest, Filled, Filled') /\ Filled <= Filled'
  BY <1>0, <1>3, <1>4, SortedConcat DEF ForwardFacts
<1>6. first \o rest \in Seq(Block)
  BY ConcatProperties
<1>7. pc' = pc \/ pc' = [pc EXCEPT !["bt"] = "process"]
  BY DEF Payload, Goto
<1>8. pc["bt"] = "idle" /\ UNCHANGED <<rblock, sent>>
  BY DEF Payload, HostRuns, sdkVars
<1>9. \A t \in Threads : pc'[t] \in Hand <=> pc[t] \in Hand
  BY <1>0, <1>7, <1>8 DEF ForwardFacts, Hand, TailSteps
<1> QED
  BY <1>1, <1>2, <1>4, <1>5, <1>6, <1>8, <1>9, ForwardSubmit

LEMMA ForwardStep == ForwardInv /\ [Next]_vars => ForwardInv'
<1> SUFFICES ASSUME ForwardInv, [Next]_vars PROVE Forward'
  BY StepUplink DEF ForwardInv
<1>0. ForwardFacts
  BY ForwardTyped
<1> USE DEF upVars, listVars, localVars, restVars, sdkVars
<1>1. ASSUME UNCHANGED <<upVars, pc, sent, wrote>> PROVE Forward'
  <2>1. \A t \in Threads : pc'[t] \in Hand <=> pc[t] \in Hand
    BY <1>1
  <2> QED
    BY <1>1, <2>1, ForwardKept
<1>2. ASSUME NEW t \in Threads, ProcessUplink(t) PROVE Forward'
  BY <1>2, ForwardProcess
<1>3. ASSUME NEW ok \in BOOLEAN, UploadCallback(ok) PROVE Forward'
  <2>1. \A t \in Threads : pc'[t] \in Hand <=> pc[t] \in Hand
    BY <1>0, <1>3 DEF UploadCallback, Goto, ForwardFacts, Hand, TailSteps
  <2> QED
    BY <1>3, <2>1, ForwardKept DEF UploadCallback
<1>4. CASE TestAndClearSending \/ FreeSent
  <2>1. \A t \in Threads : pc'[t] \in Hand <=> pc[t] \in Hand
    BY <1>0, <1>4 DEF TestAndClearSending, FreeSent, At, Goto, Return, ForwardFacts, Hand,
       TailSteps
  <2> QED
    BY <1>4, <2>1, ForwardKept DEF TestAndClearSending, FreeSent
<1>5. CASE ForgetSent
  <2>1. /\ \A t \in Threads : pc[t] \notin Hand /\ pc'[t] \notin Hand
        /\ UNCHANGED <<wblock, queue, sent, wrote>>
    BY <1>0, <1>5 DEF ForgetSent, At, Goto, ForwardFacts, Hand, TailSteps, Threads
  <2>2. NextByte' = NextByte /\ Filled' = Filled
    BY <2>1 DEF NextByte, Filled
  <2> QED
    BY <2>1, <2>2 DEF ForwardInv, Forward, Sorted, After
<1>6. ASSUME NEW len \in Lens, NEW last \in BOOLEAN, Payload(len, last) PROVE Forward'
  BY <1>6, ForwardPayload
<1>7. CASE CloseAgain
  BY <1>7, ForwardCloses DEF CloseAgain, At
<1>8. CASE SubscriptionEnds \/ BtStop
  BY <1>1, <1>8, ForwardCloses DEF SubscriptionEnds, BtStop, CloseNode, HostRuns
<1>9. CASE PayloadTooLate \/ BadPayload \/ Disconnect \/ UNCHANGED vars
  BY <1>1, <1>9 DEF PayloadTooLate, BadPayload, Disconnect, vars
<1> QED
  BY <1>2, <1>3, <1>4, <1>5, <1>6, <1>7, <1>8, <1>9 DEF Next, CloudStep, BtStep, Device,
     Ended, Threads

LEMMA ForwardInit == Init => ForwardInv
<1> SUFFICES ASSUME Init PROVE Forward
  BY InitUplink DEF ForwardInv
<1>1. \A t \in Threads : pc[t] \notin Hand
  BY DEF Init, Hand, TailSteps
<1>2. After(wblock) = wrote /\ NextByte = 0 /\ Filled = 0 /\ sent = 0
  BY <1>1 DEF Init, OpenUplink, After, NextByte, Filled, Block
<1>3. Sorted(queue, NextByte, Filled)
  BY EmptySeq DEF Init, OpenUplink, Sorted
<1> QED
  BY <1>1, <1>2, <1>3 DEF Forward

\* A block is given to the SDK by one who has it in hand.
LEMMA SentInHand ==
  ASSUME UplinkInv, Next, sdk = "idle", sdk' = "busy"
  PROVE  \E t \in Threads : pc[t] = "send" /\ up = "live" /\ rblock' = rblock
<1>1. ~CloseAgain /\ ~Device /\ ~PayloadTooLate /\ ~BadPayload /\ ~SubscriptionEnds
      /\ ~Disconnect /\ ~BtStop /\ ~Ended
  BY DEF CloseAgain, Device, Payload, PayloadTooLate, BadPayload, SubscriptionEnds,
     Disconnect, BtStop, Ended, vars, restVars, sdkVars
<1>2. ASSUME NEW ok \in BOOLEAN, UploadCallback(ok) PROVE FALSE
  BY <1>2 DEF UploadCallback
<1>3. ~TestAndClearSending /\ ~FreeSent /\ ~ForgetSent
  BY DEF TestAndClearSending, FreeSent, ForgetSent, restVars, sdkVars
<1>4. PICK t \in Threads : ProcessUplink(t)
  BY <1>1, <1>2, <1>3 DEF Next, CloudStep, BtStep, Threads
<1>5. SendBlock(t)
  BY <1>4 DEF ProcessUplink, TestAndSetSending, ReadClosed, GetBlock, Unlink, TestTail,
     ResetTail, SkipEmpty, ClearSending, EndCb, Unsubscribe, Cleanup, Crash, restVars,
     sdkVars
<1> QED
  BY <1>5 DEF SendBlock, At, Misuse, UsesUplink, upVars, UplinkInv, TypeOK

\* The SDK gets the bytes of the pouch in order and none twice, whatever is preempted,
\* refused, lost from the list or not allocated; and without a gap if block_upload_callback
\* is not preempted.
THEOREM UploadAlwaysInOrder == Spec => UploadInOrder
<1>1. ASSUME ForwardInv, Next, sdk = "idle", sdk' = "busy" PROVE rblock'.from >= sent
  <2>1. PICK t \in Threads : pc[t] = "send" /\ rblock' = rblock
    BY <1>1, SentInHand DEF ForwardInv
  <2>2. sent <= rblock.from
    BY <1>1, <2>1 DEF ForwardInv, Forward, Hand
  <2>3. rblock.from \in Nat /\ sent \in Nat
    BY <1>1, <2>1 DEF ForwardInv, UplinkInv, TypeOK, BlockInHand, Hand, Block
  <2> QED
    BY <2>1, <2>2, <2>3
<1>2. ASSUME OrderInv, Next, sdk = "idle", sdk' = "busy" PROVE rblock'.from = sent
  <2>1. PICK t \in Threads : pc[t] = "send" /\ up = "live" /\ rblock' = rblock
    BY <1>2, SentInHand DEF OrderInv
  <2>2. Sendable
    BY <1>2, <2>1 DEF Sendable, OrderInv, NobodySends, Holds, Section
  <2> QED
    BY <1>2, <2>1, <2>2 DEF OrderInv, Unbroken, Hand
<1> DEFINE InOrder == sdk = "idle" /\ sdk' = "busy" =>
                        rblock'.from >= sent /\ (rblock'.from = sent \/ Preempts)
<1>3. CASE Preempts
  <2>1. ForwardInv /\ [Next]_vars => [InOrder]_vars
    BY <1>1, <1>3
  <2> QED
    BY <2>1, ForwardInit, ForwardStep, PTL DEF Spec, UploadInOrder
<1>4. CASE ~Preempts
  <2>1. ForwardInv /\ OrderInv /\ [Next]_vars => [InOrder]_vars
    BY <1>1, <1>2
  <2>2. OrderInv /\ [Next]_vars => OrderInv'
    BY <1>4, OrderStep
  <2> QED
    BY <2>1, <2>2, ForwardInit, ForwardStep, OrderInit, PTL DEF Spec, UploadInOrder
<1> QED
  BY <1>3, <1>4
=============================================================================
