--------------------------- MODULE DownlinkStream ---------------------------
(***************************************************************************)
(* What a downlink promises, whatever its threads do: a stream of blocks   *)
(* from the cloud to the transport, of which every byte is handed over at  *)
(* most once and in order, and which is complete when its last byte was    *)
(* handed over or when it was aborted and nothing is left.  It is freed    *)
(* once, and only two ways lead there: closed when complete, or given up   *)
(* by block_cb, which drops its blocks one by one.  The transport may read *)
(* on meanwhile, and only then may what it reads have a gap.  Downlink     *)
(* implements it.                                                          *)
(***************************************************************************)
EXTENDS Integers, Sequences

CONSTANT Lens   \* payload lengths of a CoAP block

VARIABLES
  pending,  \* blocks given and not yet handed over to their end
  pos,      \* bytes of the first of them that are handed over
  given,    \* how many blocks the cloud has given
  aborted,  \* the transport or the cloud has given up
  phase     \* "open", "complete", "dropping" or "closed"

vars == <<pending, pos, given, aborted, phase>>

Init ==
  /\ pending = <<>> /\ pos = 0
  /\ given = 0
  /\ aborted = FALSE
  /\ phase = "open"

\* block_cb: nothing follows the last block.
Give(len, last) ==
  /\ phase = "open"
  /\ \A i \in DOMAIN pending : ~pending[i].last
  /\ given' = given + 1
  /\ pending' = Append(pending, [seq |-> given + 1, len |-> len, last |-> last])
  /\ UNCHANGED <<pos, aborted, phase>>

\* get_data: some of the bytes of the first block
Take ==
  /\ phase \in {"open", "dropping"} /\ pending # <<>>
  /\ LET left == Head(pending).len - pos
     IN \/ \E n \in 0 .. left - 1 : pos' = pos + n /\ UNCHANGED <<pending, phase>>
        \/ /\ pending' = Tail(pending) /\ pos' = 0
           /\ phase' = IF Head(pending).last THEN "complete" ELSE phase
  /\ UNCHANGED <<given, aborted>>

\* abort
Abort ==
  /\ phase # "closed"
  /\ aborted' = TRUE
  /\ UNCHANGED <<pending, pos, given, phase>>

\* get_data, when it finds an aborted downlink empty
Abandon ==
  /\ phase = "open" /\ aborted /\ pending = <<>>
  /\ phase' = "complete"
  /\ UNCHANGED <<pending, pos, given, aborted>>

\* close
Close ==
  /\ phase = "complete" /\ pending = <<>>
  /\ phase' = "closed"
  /\ UNCHANGED <<pending, pos, given, aborted>>

\* block_cb, when the downlink was aborted or the device does not read it: one
\* more block was given, and is never queued.
GiveUp ==
  /\ phase = "open"
  /\ aborted \/ pending # <<>>
  /\ given' = given + 1
  /\ phase' = "dropping"
  /\ UNCHANGED <<pending, pos, aborted>>

\* flush_block_queue: the first block that is not being read
Shed ==
  /\ phase = "dropping"
  /\ \/ pos = 0 /\ pending # <<>> /\ pending' = Tail(pending)
     \/ Len(pending) > 1 /\ pending' = <<Head(pending)>> \o Tail(Tail(pending))
  /\ UNCHANGED <<pos, given, aborted, phase>>

\* close, with the block in reading if there is one
Free ==
  /\ phase = "dropping" /\ Len(pending) <= 1
  /\ phase' = "closed" /\ pending' = <<>> /\ pos' = 0
  /\ UNCHANGED <<given, aborted>>

Next ==
  \/ \E len \in Lens \union {0}, last \in BOOLEAN : Give(len, last)
  \/ Take \/ Abort \/ Abandon \/ Close \/ GiveUp \/ Shed \/ Free

Spec == Init /\ [][Next]_vars
=============================================================================
