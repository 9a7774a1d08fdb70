----------------------------- MODULE DownlinkMC -----------------------------
(* Instances of Downlink for TLC.                                          *)
EXTENDS Downlink

\* A block shorter than a GATT write of two bytes, two of which fill it exactly,
\* and a longer one; the last block may also be empty.
MCLens == {1, 3}
=============================================================================
