----------------------------- MODULE Discovery -----------------------------
(***************************************************************************)
(* Discovery of the Pouch service of a device (lib/bt/connect.c), by the   *)
(* handles of the device's GATT table: which characteristic each value     *)
(* handle and each client characteristic configuration descriptor (CCC) is *)
(* attributed to in the slot of connected_nodes.  Session has what these   *)
(* searches find as a choice.                                              *)
(*                                                                         *)
(* The GATT client of the host is external: it reports the attributes that *)
(* a search asks for in the order of their handles, then NULL; after an    *)
(* error, or when the connection is lost, NULL comes at once.  All         *)
(* connections share one slot.                                             *)
(***************************************************************************)
EXTENDS Integers, Sequences

CONSTANTS
  Tables,      \* the GATT tables that devices may have
  LastHandle,  \* BT_ATT_LAST_ATTRIBUTE_HANDLE
  GattFails    \* requests may be refused, or end in an error

\* enum pouch_gateway_gatt_attr
Attrs == <<"info", "downlink", "uplink", "server", "device">>

\* An attribute declares a service or a characteristic, or it is the value that
\* follows the declaration of a characteristic, a CCC, or another descriptor.
Services == {"service16", "service128", "service"}
Declarations == {"info", "downlink", "uplink", "server", "device", "other"}

ASSUME TableAssumption ==
  \A t \in Tables :
    /\ t \in Seq(Services \union Declarations \union {"value", "ccc", "desc"})
    /\ Len(t) <= LastHandle
    /\ \A h \in DOMAIN t :
         t[h] \in Declarations => h + 1 \in DOMAIN t /\ t[h + 1] = "value"
ASSUME HandleAssumption == LastHandle \in Nat

VARIABLES
  table,    \* the table of the device
  phase,    \* the search under way, or "idle"
  cursor,   \* discover_params: start_handle, which the host moves on,
  last,     \* and end_handle
  value,    \* attr_handles[].value and .ccc of the node; 0 is none
  ccc,
  outcome,  \* what discovery has led to: "none", "finished", "uplink", "cert"
  intact    \* history: no request has failed

params == <<cursor, last>>
handles == <<value, ccc>>
vars == <<table, phase, params, handles, outcome, intact>>

-----------------------------------------------------------------------------
(* The host                                                                *)

\* The attributes that the search still has to report
Left ==
  {h \in DOMAIN table :
     /\ cursor <= h /\ h <= last
     /\ CASE phase = "characteristics" -> table[h] \in Declarations
          [] phase = "descriptors" -> table[h] = "ccc"
          [] OTHER -> table[h] = phase}

\* The callback is called with the attribute h.
Reported(h) == h \in Left /\ \A g \in Left : h <= g

\* The service that is declared at h ends at end.
EndsAt(h, end) ==
  /\ end \in DOMAIN table /\ h <= end
  /\ \A g \in h + 1 .. end : table[g] \notin Services
  /\ end < Len(table) => table[end + 1] \in Services

\* An error, or the loss of the connection, ends the search.
Fails ==
  /\ GattFails
  /\ phase # "idle"
  /\ cursor' = last + 1
  /\ intact' = FALSE
  /\ UNCHANGED <<table, phase, last, handles, outcome>>

End(result) == phase' = "idle" /\ outcome' = result /\ UNCHANGED <<params, intact>>

\* bt_gatt_discover, and what its callers do when it is refused
Discover(search, from, to) ==
  \/ phase' = search /\ cursor' = from /\ last' = to /\ UNCHANGED <<outcome, intact>>
  \/ /\ GattFails
     /\ phase' = "idle" /\ outcome' = "finished" /\ intact' = FALSE
     /\ UNCHANGED params

-----------------------------------------------------------------------------
(* The callbacks                                                           *)

\* Mutant: the node keeps what the last connection has found.
ClearNothing == UNCHANGED handles

\* memset
Clear == value' = [i \in DOMAIN Attrs |-> 0] /\ ccc' = [i \in DOMAIN Attrs |-> 0]

\* pouch_gateway_bt_start
BtStart ==
  /\ phase = "idle"
  /\ table' \in Tables
  /\ Clear
  /\ \/ /\ phase' = "service16" /\ cursor' = 1 /\ last' = LastHandle
        /\ outcome' = "none" /\ intact' = TRUE
     \/ /\ GattFails
        /\ outcome' = "finished" /\ intact' = FALSE
        /\ UNCHANGED <<phase, params>>

\* discover_services
ServiceFound(h) ==
  /\ phase \in {"service16", "service128"}
  /\ Reported(h)
  /\ \E end \in DOMAIN table :
       EndsAt(h, end) /\ Discover("characteristics", h + 1, end)
  /\ UNCHANGED <<table, handles>>

\* discover_services: the 128-bit UUID is searched next, and as no service was
\* reported, from where the first search began.
ServiceMissing ==
  /\ phase \in {"service16", "service128"}
  /\ Left = {}
  /\ IF phase = "service16" THEN Discover("service128", 1, last) ELSE End("finished")
  /\ UNCHANGED <<table, handles>>

\* Mutant: an unknown characteristic is stored, behind the others.
StoredBehind(h) ==
  [i \in 1 .. 6 |-> IF i = 6 THEN h + 1 ELSE IF Attrs[i] = table[h] THEN h + 1 ELSE value[i]]

\* Where the characteristic at h is stored
Stored(h) == [i \in DOMAIN Attrs |-> IF Attrs[i] = table[h] THEN h + 1 ELSE value[i]]

\* discover_characteristics
CharacteristicFound(h) ==
  /\ phase = "characteristics"
  /\ Reported(h) /\ cursor' = h + 1
  /\ value' = Stored(h)
  /\ UNCHANGED <<table, phase, last, ccc, outcome, intact>>

\* Mutant: descriptors are searched from the value after the lowest one.
SearchLater(low) == low + 3

\* The search for descriptors begins two handles after the lowest value, which
\* is 0 when a characteristic is missing.
SearchFrom(low) == low + 2

IsLowest(low) ==
  /\ low = last \/ \E i \in DOMAIN Attrs : low = value[i]
  /\ low <= last /\ \A i \in DOMAIN Attrs : low <= value[i]

Has(name) == \E i \in DOMAIN Attrs : Attrs[i] = name /\ value[i] # 0

CharacteristicsDone ==
  /\ phase = "characteristics"
  /\ Left = {}
  /\ IF Has("uplink") /\ Has("downlink")
       THEN \E low \in 0 .. last :
              IsLowest(low) /\ Discover("descriptors", SearchFrom(low), last)
       ELSE End("finished")
  /\ UNCHANGED <<table, handles>>

\* Mutant: the first of the lower value handles
FirstBelow(i, h) ==
  /\ value[i] < h
  /\ \A j \in 1 .. i - 1 : value[j] >= h

\* The characteristic with the closest lower value handle; of several missing
\* ones, the first.
ClosestBelow(i, h) ==
  /\ value[i] < h
  /\ \A j \in DOMAIN Attrs :
       value[j] < h => value[j] < value[i] \/ (value[j] = value[i] /\ i <= j)

\* discover_descriptors
DescriptorFound(h) ==
  /\ phase = "descriptors"
  /\ Reported(h) /\ cursor' = h + 1
  /\ ccc' = [i \in DOMAIN Attrs |-> IF ClosestBelow(i, h) THEN h ELSE ccc[i]]
  /\ UNCHANGED <<table, phase, last, value, outcome, intact>>

DescriptorsDone ==
  /\ phase = "descriptors"
  /\ Left = {}
  /\ End(IF Has("server") /\ Has("device") THEN "cert" ELSE "uplink")
  /\ UNCHANGED <<table, handles>>

-----------------------------------------------------------------------------
Init ==
  /\ table \in Tables
  /\ phase = "idle" /\ cursor = 1 /\ last = LastHandle
  /\ value = [i \in DOMAIN Attrs |-> 0] /\ ccc = [i \in DOMAIN Attrs |-> 0]
  /\ outcome = "none" /\ intact = TRUE

Next ==
  \/ BtStart
  \/ ServiceMissing \/ CharacteristicsDone \/ DescriptorsDone
  \/ \E h \in DOMAIN table :
       ServiceFound(h) \/ CharacteristicFound(h) \/ DescriptorFound(h)
  \/ Fails

Spec == Init /\ [][Next]_vars

-----------------------------------------------------------------------------
(* Properties                                                              *)

Handles == 0 .. LastHandle

\* The type invariant: handles keep their 16 bits.
TypeOK ==
  /\ table \in Tables
  /\ phase \in {"idle", "service16", "service128", "characteristics", "descriptors"}
  /\ cursor \in 1 .. LastHandle + 1 /\ last \in Handles
  /\ value \in [DOMAIN Attrs -> Handles] /\ ccc \in [DOMAIN Attrs -> Handles]
  /\ outcome \in {"none", "finished", "uplink", "cert"}
  /\ intact \in BOOLEAN

\* The characteristic that the attribute h belongs to
Owns(d, h) ==
  /\ d \in DOMAIN table /\ d < h
  /\ table[d] \in Declarations
  /\ \A e \in d + 1 .. h : table[e] \notin Declarations \union Services

\* What the node holds of a device is the device's, and not the last one's: a value
\* handle is that of the characteristic it stands for, and its CCC is of the same
\* service and belongs to that characteristic, or to one that was not recognised.
HandlesAreOwn ==
  \A i \in DOMAIN Attrs :
    value[i] # 0 =>
      /\ value[i] - 1 \in DOMAIN table /\ table[value[i] - 1] = Attrs[i]
      /\ ccc[i] # 0 =>
           /\ ccc[i] \in DOMAIN table /\ table[ccc[i]] = "ccc"
           /\ \A g \in value[i] .. ccc[i] : table[g] \notin Services
           /\ \A d \in DOMAIN table :
                Owns(d, ccc[i]) => d + 1 = value[i] \/ \A j \in DOMAIN Attrs : value[j] # d + 1

\* Unless a request fails, discovery finds the CCC of every characteristic that
\* has one, except of the first one when it directly follows the value and no
\* characteristic is missing: the search starts behind it.
CccFound ==
  intact /\ outcome \in {"uplink", "cert"} =>
    \A i, j \in DOMAIN Attrs, c \in DOMAIN table :
      ccc[i] = 0 =>
        ~(/\ value[i] # 0 /\ table[c] = "ccc" /\ Owns(value[i] - 1, c)
          /\ value[j] + 1 < c)
=============================================================================
