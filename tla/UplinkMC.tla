------------------------------ MODULE UplinkMC ------------------------------
(* Instances of Uplink for TLC.                                            *)
EXTENDS Uplink

\* An empty packet, one smaller than a block, and one that fills a block.
MCLens == {0, 1, 2}
=============================================================================
