---------------------------- MODULE DiscoveryMC ----------------------------
(* Instances of Discovery for TLC.                                         *)
EXTENDS Discovery, SequencesExt

Tails == {<<>>, <<"ccc">>, <<"desc", "ccc">>}

\* Services with the Pouch characteristics in several orders, with one missing,
\* declared twice or unknown, and a service without any
MCOrders ==
  {<<"uplink", "downlink">>, <<"downlink", "uplink">>, <<"uplink">>, <<>>,
   <<"info", "other", "uplink", "downlink">>, <<"uplink", "other", "downlink">>,
   <<"downlink", "uplink", "uplink">>,
   <<"info", "downlink", "uplink", "server", "device">>,
   <<"uplink", "device", "server", "info", "downlink">>}

\* The first characteristic and the uplink have descriptors.
Service(uuid, order, a, b) ==
  <<uuid>> \o FlattenSeq([i \in DOMAIN order |->
    <<order[i], "value">> \o (IF i = 1 THEN a ELSE IF order[i] = "uplink" THEN b ELSE <<>>)])

\* With another service that has a CCC before it, or behind it
Foreign == <<"service", "other", "value", "ccc">>
MCTables ==
  {Foreign \o Service("service16", o, a, b) : o \in MCOrders, a \in Tails, b \in Tails}
  \union {Service("service128", o, a, b) \o Foreign : o \in MCOrders, a \in Tails, b \in Tails}
=============================================================================
