-------------------------------- MODULE Cert --------------------------------
(***************************************************************************)
(* The certificate exchange that opens a synchronisation: the gateway      *)
(* compares the serial number of the device's server certificate with its  *)
(* own, writes its own when they differ, then reads the device certificate *)
(* and registers it with the cloud (lib/bt/cert.c, lib/cert.c).            *)
(*                                                                         *)
(* The main thread replaces the server certificate whenever the cloud      *)
(* connects.  It is preemptible: its steps are single writes to the store, *)
(* and the handlers of the cooperative Bluetooth host thread, which run to *)
(* the end, come between any two of them.  The host thread itself blocks   *)
(* only in golioth_gateway_device_cert_set.                                *)
(*                                                                         *)
(* A certificate is a version: its bytes are as many copies of it, and so  *)
(* is its serial number.  Version 0 is the empty store.                    *)
(***************************************************************************)
EXTENDS Integers, Sequences

CONSTANTS
  CertLen,      \* length of each version of the server certificate
  Bad,          \* versions that do not parse
  MaxLen,       \* CONFIG_POUCH_GATEWAY_SERVER_CERT_MAX_LEN
  Mtu,          \* bytes of certificate in one GATT write
  DeviceMax,    \* CONFIG_POUCH_GATEWAY_DEVICE_CERT_MAX_LEN
  Payloads,     \* bytes of device certificate in one GATT read
  MaxPackets,   \* bound: GATT reads that one value takes
  MaxUpdates,   \* bound: connections of the cloud after the first
  MaxSessions,  \* bound: connections of devices
  BootFails,    \* the first download may fail
  CloudFails,   \* a download or registration may fail
  WriteFails,   \* a GATT write may be refused or answered with an error
  ReadFails,    \* a GATT read may be refused, fail or carry a malformed packet
  LinkDrops,    \* the connection may be lost at any time
  NoCtx         \* NULL

Versions == DOMAIN CertLen

ASSUME LenAssumption == MaxLen \in Nat /\ CertLen \in [Versions -> 1 .. MaxLen]
ASSUME VersionAssumption == Versions \subseteq Nat \ {0} /\ Bad \subseteq Versions
ASSUME SizeAssumption == Mtu \in Nat \ {0} /\ DeviceMax \in Nat /\ Payloads \subseteq Nat
ASSUME BoundAssumption ==
  MaxPackets \in Nat /\ MaxUpdates \in Nat /\ MaxSessions \in Nat
ASSUME EnvAssumption ==
  {BootFails, CloudFails, WriteFails, ReadFails, LinkDrops} \subseteq BOOLEAN

\* struct pouch_gateway_server_cert_context
Context == [id: Nat, offset: 0 .. MaxLen]
ASSUME NoCtxAssumption == NoCtx \notin Context

VARIABLES
  buf,        \* server_crt_buf
  len,        \* server_crt_len
  serial,     \* server_crt_serial
  id,         \* server_crt_id
  main,       \* where the main thread is: "idle", "download", "len", "id"
  new,        \* the version it downloads
  fetched,    \* bytes of it already in server_crt_buf
  dirty,      \* history: server_crt_buf was written since the last update ended
  updates,    \* downloads begun
  link,       \* "none", "up", "down" (disconnected) or "stopped" (bt_stop has run)
  sessions,   \* connections begun
  pending,    \* outstanding GATT request: "none", "serial", "write", "device"
  host,       \* the host thread is "ready", or blocked to "register" a device
  packets,    \* packets of the current value that were read
  sctx,       \* node->server_cert_ctx, with its scratch buffer and packetizer
  dctx,       \* node->device_cert_ctx: "null", "live", or "freed" but kept
  dlen,       \* its len
  came,       \* history: bytes of the device certificate read
  sent,       \* history: bytes handed to GATT for this server_cert_ctx
  contexts,   \* history: server contexts this connection allocated and not freed
  held,       \* version of the server certificate that the device reports
  handed,     \* pouch_gateway_uplink_start was called
  finished,   \* bt_finished was called: the application will disconnect
  fault       \* first use of a device context that was freed

storeVars == <<buf, len, serial, id>>
mainVars == <<main, new, fetched, dirty, updates>>
deviceVars == <<dctx, dlen, came>>
serverVars == <<sctx, sent, contexts>>
nodeVars == <<pending, host, packets, deviceVars, serverVars, handed, finished, fault>>
linkVars == <<link, sessions, held>>
vars == <<storeVars, mainVars, linkVars, nodeVars>>

Whole(v) == [i \in 1 .. CertLen[v] |-> v]

-----------------------------------------------------------------------------
(* pouch_gateway_cert_module_on_connected, on the main thread              *)

\* The cloud has connected; the download writes into server_crt_buf itself.
OnConnected ==
  /\ main = "idle" /\ updates < MaxUpdates
  /\ \E v \in Versions : new' = v
  /\ main' = "download" /\ fetched' = 0
  /\ updates' = updates + 1
  /\ UNCHANGED <<storeVars, dirty, linkVars, nodeVars>>

Download ==
  /\ main = "download" /\ fetched < CertLen[new]
  /\ buf' = [buf EXCEPT ![fetched + 1] = new]
  /\ fetched' = fetched + 1
  /\ dirty' = TRUE
  /\ UNCHANGED <<len, serial, id, main, new, updates, linkVars, nodeVars>>

\* What was downloaded before the failure stays in the buffer.
DownloadFails ==
  /\ CloudFails
  /\ main = "download"
  /\ main' = "idle"
  /\ UNCHANGED <<storeVars, new, fetched, dirty, updates, linkVars, nodeVars>>

\* server_crt_update parses the buffer, then stores the serial number.
ParseAndSetSerial ==
  /\ main = "download" /\ fetched = CertLen[new]
  /\ IF new \in Bad
       THEN main' = "idle" /\ UNCHANGED serial
       ELSE main' = "len" /\ serial' = new
  /\ UNCHANGED <<buf, len, id, new, fetched, dirty, updates, linkVars, nodeVars>>

SetLen ==
  /\ main = "len"
  /\ len' = CertLen[new]
  /\ main' = "id"
  /\ UNCHANGED <<buf, serial, id, new, fetched, dirty, updates, linkVars, nodeVars>>

IncId ==
  /\ main = "id"
  /\ id' = id + 1
  /\ dirty' = FALSE
  /\ main' = "idle"
  /\ UNCHANGED <<buf, len, serial, new, fetched, updates, linkVars, nodeVars>>

Update == OnConnected \/ Download \/ DownloadFails \/ ParseAndSetSerial \/ SetLen \/ IncId

-----------------------------------------------------------------------------
(* The ends of a handler of lib/bt/cert.c: each sets pending, packets,     *)
(* host, handed, finished and fault, and the variables of its context.     *)

Continues == UNCHANGED <<handed, finished, fault>>
HostReturns == host' = "ready"

\* A callback returns without a new request.
Stop ==
  /\ pending' = "none"
  /\ HostReturns /\ Continues
  /\ UNCHANGED packets

\* bt_gatt_read is accepted
Read(what, packet) ==
  /\ link = "up"
  /\ pending' = what /\ packets' = packet
  /\ HostReturns /\ Continues

\* pouch_gateway_bt_finished
BtFinished ==
  /\ pending' = "none"
  /\ finished' = TRUE
  /\ HostReturns
  /\ UNCHANGED <<packets, handed>>

CanRefuse(fails) == fails \/ link # "up"

\* free(node->device_cert_ctx): device_cert_cleanup when there is one
FreeDevice ==
  /\ dctx' = "null"
  /\ fault' = (fault \/ dctx = "freed")
  /\ UNCHANGED <<dlen, came>>

\* The contexts that are left when server_cert_cleanup has freed the node's one.
Freed == IF sctx = NoCtx THEN contexts ELSE contexts - 1

CleanupServer == sctx' = NoCtx /\ contexts' = Freed

\* Mutant: bt_finished is forgotten.
AbandonQuietly ==
  /\ CleanupServer /\ Stop
  /\ UNCHANGED <<deviceVars, sent>>

\* server_cert_cleanup and bt_finished
Abandon ==
  /\ CleanupServer /\ BtFinished
  /\ UNCHANGED <<deviceVars, sent, fault>>

-----------------------------------------------------------------------------
(* Writing the server certificate                                          *)

ChunkLen(offset) == IF Mtu > len - offset THEN len - offset ELSE Mtu

\* write_server_cert_characteristic: get_data fills the scratch buffer
\* directly from server_crt_buf.
WriteChunk(ctx, before) ==
  /\ link = "up" /\ ctx.offset < len
  /\ LET n == ChunkLen(ctx.offset)
     IN  /\ sctx' = [ctx EXCEPT !.offset = @ + n]
         /\ sent' = before \o SubSeq(buf, ctx.offset + 1, ctx.offset + n)
  /\ pending' = "write"
  /\ HostReturns /\ Continues
  /\ UNCHANGED <<packets, deviceVars>>

\* The buffer is empty: the packetizer reports an error, which
\* gateway_server_cert_write_start drops.
WriteNothing(ctx) ==
  /\ link = "up" /\ ctx.offset >= len
  /\ sctx' = ctx /\ sent' = <<>>
  /\ Stop
  /\ UNCHANGED deviceVars

\* gateway_server_cert_write_start overwrites node->server_cert_ctx, while
\* allocated contexts are not freed; a closed connection has no MTU to allocate the
\* scratch buffer for.
WriteStart(allocated) ==
  LET ctx == [id |-> id, offset |-> 0]
  IN  \/ /\ WriteChunk(ctx, <<>>) \/ WriteNothing(ctx)
         /\ contexts' = allocated + 1
      \/ CanRefuse(WriteFails) /\ Abandon

\* Mutant: the old context is not cleaned up first.
RestartOver == WriteStart(contexts)

\* The transfer starts again with a new context.
Restart == WriteStart(Freed)

\* gateway_device_cert_read_start
DeviceReadStart ==
  /\ dlen' = 0 /\ came' = 0
  /\ \/ dctx' = "live" /\ Read("device", 0)
     \/ CanRefuse(ReadFails) /\ dctx' = "null" /\ BtFinished /\ UNCHANGED fault
  /\ UNCHANGED sent

\* Mutant: an update during the transfer goes unnoticed.
AlwaysNewest(ctx) == TRUE

IsNewest(ctx) == ctx.id = id
IsComplete(ctx) == ctx.offset >= len

\* write_response_cb does not look at err.
WriteResponse ==
  /\ host = "ready" /\ pending = "write"
  /\ IF ~IsComplete(sctx)
       THEN \/ WriteChunk(sctx, sent) /\ UNCHANGED contexts
            \/ CanRefuse(WriteFails) /\ Abandon
       ELSE IF IsNewest(sctx)
         THEN CleanupServer /\ DeviceReadStart
         ELSE Restart
  /\ UNCHANGED <<storeVars, mainVars, linkVars>>

-----------------------------------------------------------------------------
(* Reading the serial number and the device certificate                    *)

\* server_cert_read_cb; only the last packet is compared.
SerialRead ==
  /\ host = "ready" /\ pending = "serial"
  /\ \/ link = "up" /\ held = serial /\ held # 0
        /\ DeviceReadStart /\ UNCHANGED <<sctx, contexts>>
     \/ link = "up" /\ (held # serial \/ held = 0)
        /\ WriteStart(contexts)
     \/ link = "up" /\ packets + 1 < MaxPackets
        /\ Read("serial", packets + 1) /\ UNCHANGED <<deviceVars, serverVars>>
     \/ ReadFails /\ link = "up"
        /\ Abandon
     \/ CanRefuse(ReadFails)
        /\ Stop /\ UNCHANGED <<deviceVars, serverVars>>
  /\ UNCHANGED <<storeVars, mainVars, linkVars>>

\* Mutant: the length of the buffer is not checked.
FitsAlways(n) == TRUE

\* Mutant: a certificate may not fill the buffer.
FitsBelow(n) == dlen + n < DeviceMax

Fits(n) == dlen + n <= DeviceMax

\* pouch_gateway_device_cert_push; device_cert_read_cb drops its -ENOSPC.
Push(n) ==
  /\ dlen' = IF Fits(n) THEN dlen + n ELSE dlen
  /\ came' = came + n

\* device_cert_read_cb with a packet of the certificate
DevicePacket(n, last) ==
  /\ link = "up"
  /\ last \/ packets + 1 < MaxPackets
  /\ Push(n)
  /\ IF last
       THEN /\ dctx' = dctx
            /\ pending' = "none" /\ host' = "register"
            /\ Continues /\ UNCHANGED packets
       ELSE \/ dctx' = dctx /\ Read("device", packets + 1)
            \/ CanRefuse(ReadFails) /\ dctx' = "null" /\ BtFinished /\ UNCHANGED fault

\* device_cert_read_cb: a certificate, none, a malformed packet, or an error,
\* which frees nothing and starts nothing.
DeviceRead ==
  /\ host = "ready" /\ pending = "device"
  /\ \/ \E n \in Payloads, last \in BOOLEAN : DevicePacket(n, last)
     \/ link = "up" /\ FreeDevice /\ BtFinished
     \/ CanRefuse(ReadFails) /\ Stop /\ UNCHANGED deviceVars
  /\ UNCHANGED <<storeVars, mainVars, linkVars, serverVars>>

\* Mutant: the context is freed whatever the cloud answers.
FreedAlways(ok) == "freed"

\* What pouch_gateway_device_cert_finish leaves of the context.
AfterFinish(ok) == IF ok THEN "freed" ELSE dctx

\* golioth_gateway_device_cert_set returns; on success the uplink starts and
\* the node keeps the pointer, on failure device_cert_cleanup frees it.
Registered(ok) ==
  /\ host = "register"
  /\ ok \/ CloudFails
  /\ IF ok
       THEN /\ dctx' = AfterFinish(ok)
            /\ pending' = "none" /\ HostReturns
            /\ handed' = TRUE
            /\ UNCHANGED <<packets, finished, fault>>
       ELSE /\ dctx' = "null"
            /\ fault' = (fault \/ AfterFinish(ok) = "freed")
            /\ BtFinished
  /\ UNCHANGED <<storeVars, mainVars, linkVars, serverVars, dlen, came>>

-----------------------------------------------------------------------------
(* The connection                                                          *)

\* pouch_gateway_bt_start clears the node; discovery has found both
\* certificate characteristics and calls pouch_gateway_cert_exchange_start.
Connect ==
  /\ link \in {"none", "stopped"}
  /\ sessions < MaxSessions
  /\ sessions' = sessions + 1
  /\ link' = "up"
  /\ \E v \in Versions \union {0} : held' = v
  /\ sctx' = NoCtx /\ dctx' = "null"
  /\ dlen' = 0 /\ came' = 0 /\ sent' = <<>> /\ packets' = 0
  /\ contexts' = 0 /\ handed' = FALSE
  /\ \/ pending' = "serial" /\ finished' = FALSE
     \/ ReadFails /\ pending' = "none" /\ finished' = TRUE
  /\ UNCHANGED <<storeVars, mainVars, host, fault>>

\* The application disconnects after bt_finished; the device may go away, and
\* does when the downlink that follows the exchange is over.
Disconnect ==
  /\ host = "ready" /\ link = "up"
  /\ finished \/ handed \/ LinkDrops
  /\ link' = "down"
  /\ UNCHANGED <<storeVars, mainVars, sessions, held, nodeVars>>

\* pouch_gateway_bt_stop, once every outstanding request has been answered; it
\* frees nothing of the exchange.
BtStop ==
  /\ host = "ready" /\ link = "down" /\ pending = "none"
  /\ link' = "stopped"
  /\ UNCHANGED <<storeVars, mainVars, sessions, held, nodeVars>>

-----------------------------------------------------------------------------
\* The first pouch_gateway_cert_module_on_connected has returned and Bluetooth
\* is enabled; without a certificate only if that download failed.
Init ==
  /\ \/ /\ \E v \in Versions \ Bad : serial = v
        /\ len = CertLen[serial] /\ id = 1
        /\ buf = [i \in 1 .. MaxLen |-> IF i <= len THEN serial ELSE 0]
     \/ /\ BootFails
        /\ serial = 0 /\ len = 0 /\ id = 0
        /\ buf = [i \in 1 .. MaxLen |-> 0]
  /\ main = "idle" /\ new = 0 /\ fetched = 0 /\ dirty = FALSE /\ updates = 0
  /\ link = "none" /\ sessions = 0 /\ held = 0
  /\ pending = "none" /\ host = "ready" /\ packets = 0
  /\ sctx = NoCtx /\ sent = <<>> /\ contexts = 0
  /\ dctx = "null" /\ dlen = 0 /\ came = 0
  /\ handed = FALSE /\ finished = FALSE /\ fault = FALSE

Answer ==
  \/ SerialRead \/ WriteResponse \/ DeviceRead
  \/ \E ok \in BOOLEAN : Registered(ok)

Next == Update \/ Answer \/ Connect \/ Disconnect \/ BtStop

Spec == Init /\ [][Next]_vars

\* The download ends, the host answers every request and reports every
\* disconnection, and the SDK answers the registration.
Fairness ==
  /\ WF_vars(Update)
  /\ WF_vars(Answer)
  /\ WF_vars((finished \/ handed) /\ Disconnect)
  /\ WF_vars(BtStop)

FairSpec == Spec /\ Fairness

-----------------------------------------------------------------------------
(* Properties                                                              *)

StoreTypeOK ==
  /\ buf \in [1 .. MaxLen -> Versions \union {0}]
  /\ len \in 0 .. MaxLen
  /\ serial \in Versions \union {0}
  /\ id \in Nat
  /\ main \in {"idle", "download", "len", "id"}
  /\ new \in Versions \union {0}
  /\ fetched \in 0 .. MaxLen
  /\ dirty \in BOOLEAN
  /\ updates \in 0 .. MaxUpdates

NodeTypeOK ==
  /\ link \in {"none", "up", "down", "stopped"}
  /\ sessions \in 0 .. MaxSessions
  /\ held \in Versions \union {0}
  /\ pending \in {"none", "serial", "write", "device"}
  /\ host \in {"ready", "register"}
  /\ packets \in Nat
  /\ sctx \in Context \union {NoCtx}
  /\ dctx \in {"null", "live", "freed"}
  /\ dlen \in 0 .. DeviceMax
  /\ came \in Nat
  /\ sent \in Seq(Versions \union {0})
  /\ contexts \in Int
  /\ handed \in BOOLEAN /\ finished \in BOOLEAN /\ fault \in BOOLEAN

\* Every variable holds a value its C counterpart can hold.
TypeOK == StoreTypeOK /\ NodeTypeOK

\* The transfer of the server certificate is over and counts as successful.
Accepts == sctx # NoCtx /\ pending' = "device"

\* A transfer counts as successful only if the gateway has handed over its
\* present certificate, whole, unless the buffer is being rewritten or was
\* spoiled by a download that failed: write_response_cb notices every update
\* that was completed during the transfer.
AcceptedIsCurrent == [][Accepts /\ ~dirty => sent = Whole(serial)]_vars

\* The device never gets a mixture of two certificates for a good one.
AcceptedIsIntact == [][Accepts => \E v \in Versions : sent = Whole(v)]_vars

\* While the connection lasts no path of the exchange loses a server certificate
\* context, its scratch buffer or the packetizer: the node points to all there is,
\* also when the transfer starts again.
ServerContextFreed == contexts = IF sctx = NoCtx THEN 0 ELSE 1

\* No device certificate context is freed twice: finish frees it only when it
\* succeeds, and then nobody cleans it up.
NoDoubleFree == ~fault

\* What an exchange allocates is freed once, whatever fails and however often the
\* certificate is updated meanwhile.
ContextsFreedOnce == ServerContextFreed /\ NoDoubleFree

\* The cloud is given all that the device sent, if that fits in the buffer.
DeviceCertWhole == host = "register" => dlen = came \/ came > DeviceMax

\* A transfer that has begun comes to an end, however often the certificate is
\* updated and whatever fails.
TransferEnds ==
  pending = "write" ~> pending = "device" \/ handed \/ finished \/ link # "up"

\* The exchange comes to an end: the uplink starts, or the connection is given
\* up; it does not keep the connection without a request.
ExchangeEnds == link = "up" ~> handed \/ finished \/ link # "up"
=============================================================================
