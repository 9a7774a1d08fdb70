---------------------------- MODULE UplinkStream ----------------------------
(***************************************************************************)
(* What an uplink promises, whatever its threads do: a stream of bytes     *)
(* from the device to the cloud, cut into blocks that are uploaded one at  *)
(* a time.  Every block but the last is full, and the last one is marked:  *)
(* before the stream is closed there is always a byte held back, so that   *)
(* the mark is never too late.  Success is reported of the whole stream    *)
(* only, and the uplink is freed after it has reported.  Uplink implements *)
(* it when its callbacks do not interrupt each other.                      *)
(***************************************************************************)
EXTENDS Integers

CONSTANTS
  Size,  \* bytes of a full block
  Lens   \* payload lengths

VARIABLES
  accepted,  \* bytes taken from the device
  closed,    \* no more will come
  given,     \* bytes given to the SDK
  busy,      \* the SDK has a block
  marked,    \* the last block was given
  failed,    \* the cloud did not get a block
  verdict,   \* what was reported: "none", "success", "cloud"
  freed

vars == <<accepted, closed, given, busy, marked, failed, verdict, freed>>

Init ==
  /\ accepted = 0 /\ given = 0
  /\ closed = FALSE /\ busy = FALSE /\ marked = FALSE /\ failed = FALSE
  /\ verdict = "none" /\ freed = FALSE

InProgress == verdict = "none" /\ ~failed

\* write: the last payload closes the stream.
Accept(n, last) ==
  /\ InProgress /\ ~closed
  /\ accepted' = accepted + n
  /\ closed' = last
  /\ UNCHANGED <<given, busy, marked, failed, verdict, freed>>

\* close, when the device ends without a last payload
Close ==
  /\ InProgress
  /\ closed' = TRUE
  /\ UNCHANGED <<accepted, given, busy, marked, failed, verdict, freed>>

\* process_uplink: a full block, which is not the last,
GiveFull ==
  /\ InProgress /\ ~busy
  /\ given + Size < accepted
  /\ given' = given + Size
  /\ busy' = TRUE
  /\ UNCHANGED <<accepted, closed, marked, failed, verdict, freed>>

\* or the last block, with the rest of a closed stream.
GiveLast ==
  /\ InProgress /\ ~busy
  /\ closed /\ accepted - given \in 1 .. Size
  /\ given' = accepted
  /\ busy' = TRUE /\ marked' = TRUE
  /\ UNCHANGED <<accepted, closed, failed, verdict, freed>>

\* block_upload_callback
Delivered(ok) ==
  /\ busy
  /\ busy' = FALSE
  /\ failed' = ~ok
  /\ UNCHANGED <<accepted, closed, given, marked, verdict, freed>>

\* end_cb: all was uploaded, or a block was not.
Report ==
  /\ verdict = "none" /\ ~busy
  /\ \/ failed /\ verdict' = "cloud"
     \/ ~failed /\ closed /\ given = accepted /\ verdict' = "success"
  /\ UNCHANGED <<accepted, closed, given, busy, marked, failed, freed>>

\* cleanup_uplink
Free ==
  /\ verdict # "none" /\ ~freed
  /\ freed' = TRUE
  /\ UNCHANGED <<accepted, closed, given, busy, marked, failed, verdict>>

Next ==
  \/ \E n \in Lens, last \in BOOLEAN : Accept(n, last)
  \/ Close \/ GiveFull \/ GiveLast
  \/ \E ok \in BOOLEAN : Delivered(ok)
  \/ Report \/ Free

Spec == Init /\ [][Next]_vars
=============================================================================
