----------------------------- MODULE SessionMC -----------------------------
(* Instances of Session for TLC.                                           *)
EXTENDS Session

\* One kind of trouble at a time, and those that aggravate each other.
MCEnvs ==
  {{}, {"gatt"}, {"drops", "scan"}, {"drops", "fast"}, {"malloc", "scan", "lazy"},
   {"cloud", "slow", "lazy"}, {"cloud", "fast"}, {"scan", "slow", "lazy"},
   {"slow", "lazy", "fast"}}

\* The link may be lost.
MCDrops == {{"drops"}}
=============================================================================
