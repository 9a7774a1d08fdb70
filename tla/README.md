# Formal model of the Pouch gateway

TLA+ modules, TLC configurations and TLAPS proofs for the Golioth Pouch
Bluetooth gateway: the library in `src/lib`, its headers in
`src/include/pouch_gateway`, and the applications in `src/gateway` and
`src/samples/custom_connect`. The gateway scans for Pouch devices, connects to one, exchanges certificates with it,
forwards the device's uplink to the Golioth cloud and the cloud's response, the
downlink, to the device, and disconnects.

All paths below are relative to the repository; `lib/...` stands for
`src/lib/...`.

## 1. The system

### Threads

| Thread | Runs | Scheduling |
|---|---|---|
| Bluetooth host ("bt") | every GATT, connection and scan callback | cooperative: not preempted until it returns or blocks |
| CoAP client of the Golioth SDK ("cloud") | `block_cb`, `end_cb`, `block_upload_callback` | preemptible: "bt" may run between any two of its steps |
| main | boot, `pouch_gateway_cert_module_on_connected` | preemptible |

No mutex is taken in `lib/`. The threads share memory through atomic
bits, a `k_fifo`, a `k_mem_slab` and, without any protection, a singly linked
list, the certificate store, the context pointers of a node and the union of
GATT parameters. Most properties of this project are about that.

### Components

| Component | State | Operations | Talks to | Correct when |
|---|---|---|---|---|
| Block pool (`lib/block.c`) | slab of `NUM_BLOCKS` blocks, each with length, last mark, data | alloc (blocking, with timeout), append, mark_last, free | downlink | no block is lost or freed twice |
| Downlink (`lib/downlink.c`) | queue, `current_block`, offset, bits COMPLETE, ABORTED, CLIENT_WAITING | open, block_cb, end_cb (cloud); get_data, is_complete (bt); close, abort (both) | SDK, BLE downlink | the device gets the response in order; no wakeup lost; the two threads do not read together; freed once, by the right thread |
| BLE downlink (`lib/bt/downlink.c`) | packetizer, scratch buffer, `write_params` | start, data_available (cloud), write_response_cb (bt), cleanup | downlink, GATT | at most one write in flight; ends in bt_finished |
| Uplink (`lib/uplink.c`) | `wblock`, `rblock`, list of blocks, bits CLOSED, SENDING | open, write, close (bt); block_upload_callback (cloud); process_uplink, cleanup_uplink (both) | SDK, BLE uplink | the pouch reaches the SDK in order, the last block marked, by one sender at a time; a closed uplink ends |
| BLE uplink (`lib/bt/uplink.c`) | `node->uplink`, subscription or read | start, indication and read callbacks, uplink_end_cb (both threads), cleanup | uplink, GATT | the node never refers to a freed uplink |
| Certificate store (`lib/cert.c`) | `server_crt_buf`, `_len`, `_serial`, `_id`; transfer contexts | on_connected (main); get_data, is_newest, is_complete, push, finish (bt) | SDK, BLE exchange | a device ends up with the present certificate; the cloud gets the whole device certificate |
| BLE certificate exchange (`lib/bt/cert.c`) | `server_cert_ctx`, `device_cert_ctx` of the node | serial read, certificate write and restart, device certificate read | store, GATT, BLE uplink | contexts freed once; the exchange ends |
| Discovery and node table (`lib/bt/connect.c`) | `connected_nodes`, one slot per connection: handles, a union of GATT parameters, the pointers to what a sync has allocated | bt_start, service, characteristic and descriptor discovery, bt_stop | all BLE parts | handles attributed to the right characteristic; nothing in a slot is overwritten or forgotten while it is in use |
| Scanner (`lib/bt/scan.c`) | none but that of the host | scan_start, device_found | application | the gateway scans whenever it has no connection |
| Gateway application (`gateway/src/main.c`) | none but the connection | connected, disconnected, bt_finished, main | all | every session ends, and the scanner starts again |
| custom_connect (`samples/custom_connect`) | `sync_data`: connection, count of bt_finished calls, delayed work | connects to one device, synchronises twice, disconnects | library | two syncs per connection, the second on a live one |

Not part of the core logic, and listed as such in `PROJECT.json`: cloud and
modem bring-up, the fatal error handler, the build-only samples, board support,
simulation runners, Zephyr patches and the pytest suites.

### How they interact

`bt_connected` calls `pouch_gateway_bt_start`, which clears the node and starts
discovery. Its last callback starts the certificate exchange; `write` and `read`
callbacks drive that until `device_cert_read_cb` registers the certificate and
calls `pouch_gateway_uplink_start`, which opens the downlink and the uplink with
it as its context. Payloads of the device enter `pouch_gateway_uplink_write` on
the host thread. The SDK reports each block in `block_upload_callback` on the
CoAP thread, and the response to the last one in `block_cb`; the downlink is
then written to the device, by `downlink_data_available` on the CoAP thread when
the transport waits for data, by `write_response_cb` on the host thread
otherwise. Any end calls `pouch_gateway_bt_finished`; the application
disconnects, `bt_disconnected` calls `pouch_gateway_bt_stop` and scans again.

### What is hard

The list, with lines and the properties meant to catch each hazard, is
`PROJECT.json`, "hazards". In short: test-then-act sequences on two threads
(`lib/downlink.c:82-87`, `lib/uplink.c:105-145`), lists and pointers shared without
a lock, contexts freed by whichever thread comes last, cleanup deferred to a
callback that may never come, a certificate replaced while it is sent, error
paths that neither continue nor finish or that finish twice, callbacks of one
sync that arrive in the next, GATT parameters that share memory, handles that are
compared with those of characteristics that do not exist, and buffers at their
limits.

## 2. The modules

### Downlink

`Downlink.tla` is one downlink, from `pouch_gateway_downlink_start` to
`bt_stop`: `lib/block.c`, `lib/downlink.c` and `lib/bt/downlink.c` together,
because their hazards only show together.

A step is one access to shared state. `pc` says where each thread is in its
handler; the host thread is never preempted (`At`), so its steps only count as
one burst. The handlers correspond to chains of actions:

| Code | Actions |
|---|---|
| `block_cb` | `BlockCb`, `TestAborted`, `BlockAlloc` or `BlockAllocTimeout`, `PutBlock`, `TestCurrent`, `TestAndClearWaiting`, then the write below |
| `end_cb` | `EndCb`, `SetAborted`, `CloseIfComplete`, `EndKick` |
| `write_downlink_characteristic`, `get_data` | `StartGet`, `Fetch`, `Copy` (per block), `Send` or `SendNothing` |
| its callers' error paths, `abort` | `SetAborted`, `CloseIfComplete`, `Finish` |
| `flush_block_queue` | `FlushOne` per block of the queue, entered by `TestAborted` or `BlockAllocTimeout` |
| `pouch_gateway_downlink_close` on the CoAP thread | `TestHeld`, `FreeHeld`, `FreeContext`, then whatever its caller goes on with (`exit`) |
| `write_response_cb` | `WriteResponse`, `TestComplete`, then the write |
| connection | `Disconnect`, `BtStop` |

A block is the record of its sequence number, length and last mark; slab blocks
are interchangeable, so the slab is a counter. An access to freed memory
(context, packetizer, scratch buffer, NULL block), a block that is freed twice, and
the host thread in `get_data` while the CoAP thread is inside it are the action
`Crash`, which records what was misused and ends the behaviour. Reading the union of GATT
parameters, the bytes, and the failures of `downlink_start` are left out; the
SDK, the packetizer and the host are modelled from how `lib/` uses them.

### DownlinkStream

`DownlinkStream.tla` is what a downlink promises, without threads, flags or slab:
a stream of blocks (`pending`, `pos`) that is "open" until its last byte was
handed over or it was aborted and is empty, "complete" until it is freed, then
"closed". Every byte is handed over at most once and in order, a complete stream
is closed with nothing left in it, and only `block_cb` giving up throws blocks
away: the stream is then "dropping" (`GiveUp`), loses one unread block after the other
(`Shed`) and is freed with the one in reading (`Free`). What is read in that phase may
have a gap; before it, never.

`Downlink` implements it: `Stream == INSTANCE DownlinkStream WITH ...`, and
`IsStream == Stream!Spec` is a property of `downlink_any` and a theorem.
`pending` is `current_block` followed by the queue, `pos` the offset, `aborted`
and `phase` the bits ABORTED and COMPLETE and whether the context is allocated.
`PutBlock` is `Give`, each `Copy` a `Take`, `SetAborted` an `Abort`, `Fetch` that
finds an aborted downlink empty an `Abandon`, `CloseIfComplete` and `TestComplete`
a `Close`, `TestAborted` and `BlockAllocTimeout` start a `GiveUp`, `FlushOne` is a
`Shed`, `FreeContext` a `Free` or, outside a flush, a `Close`; all other steps stutter.

### Uplink

`Uplink.tla` is one uplink, from `pouch_gateway_uplink_start` to its cleanup:
`lib/uplink.c` and `lib/bt/uplink.c`. The handlers of the host thread up to
`process_uplink` are single actions (`Payload`, `SubscriptionEnds`, `BtStop`):
nothing can cut in. `process_uplink` and `block_upload_callback`, which also run
on the CoAP thread, are split at every access to shared state. The unprotected
`sys_slist_get` is up to four steps: the look at the head and its successor (`Get`),
the move of the head (`Unlink`), and, if the list became empty by that, the test of the tail
(`TestTail`) and its reset (`ResetTail`). What the other thread appends in between
hangs on a node that the head does not reach (`lost`); after the reset, what it
appends later is reached again, and is sent although the lost block was not. With `Preempts` the host thread may cut in anywhere; without
it the callback is one piece, which separates what fails because of preemption
from what fails by itself. A block is its first byte and its length. `finished`,
`node`, `source` are the BLE side: `bt_finished` called, `node->uplink` set, the
subscription or the read loop.

### UplinkStream

`UplinkStream.tla` is what an uplink promises: bytes from the device to the cloud in
blocks, one at a time, of which all but the last are full and the last is marked. What
is not obvious in the code is that the mark is never too late: `_write` submits a full
block only when the next byte comes, so that before the close a byte is always held
back (`GiveFull` is strict, `GiveLast` needs a closed stream). Success is reported of
the whole stream only, failure only of a block that the cloud did not get.

`Uplink` implements it where the host thread does not cut in, the SDK refuses no block
and memory lasts: `Upload == INSTANCE UplinkStream WITH ...`, and
`IsUpload == Upload!Spec` is a property of `uplink_serial` and a theorem. `Payload` is
`Accept`, the other closes `Close`, `SendBlock` one of the two `Give` actions,
`UploadCallback` is `Delivered`, `EndCb` is `Report` and `Cleanup` is `Free`; all other
steps stutter. The abstract stream does not promise to end: an uplink that is closed
before its first byte does not (see `ClosedDataEnds`).

### Cert

`Cert.tla` is the certificate store and the exchange on up to `MaxSessions`
connections in a row: `lib/cert.c` and `lib/bt/cert.c`. The main thread replaces
the certificate in the order of the code: bytes into `server_crt_buf` one at a
time, then parse and serial number, then length, then id; the handlers of the
host thread, which run to their end, come between any two of these steps. A
certificate is a version whose bytes are copies of the version number, so a
mixture is visible. The serial number and its length are published in one step.
Every `bt_gatt_read`, `bt_gatt_write`, download and registration may fail.
`contexts` counts the allocated server certificate contexts, and is independent of the node's
pointer, so that a context that is overwritten without having been freed is a leak.
Failing allocations are left out (`Session` has them), and so is the branch for an undiscovered
characteristic, which `discover_descriptors` makes unreachable.

### Session

`Session.tla` is the gateway from scan to scan: `lib/bt/scan.c`,
`lib/bt/connect.c`, the starts of uplink and downlink with their failures, and the
two applications. It composes the ends of the other parts: the certificate
exchange, the uplink and the downlink, each modelled step by step in its own
module, appear by what they ask of the host, how they end, and what they leave in
the node and on the heap. A callback is one step here: the module is about the
order of callbacks, across syncs and connections.

| Code | Actions |
|---|---|
| `device_found`, `bt_connected`, `bt_disconnected` with `bt_stop` | `DeviceFound`, `ConnectFails`, `Connected`, `Disconnected` |
| `bt_start`, and `sync_start_handler` of custom_connect | `BtStart` in `Connected` and `SyncStart` |
| `bt_finished` of both applications | `Finished`, part of whatever calls it |
| `discover_services`, `_characteristics`, `_descriptors` | `Service`, `Characteristics`, `Descriptors` |
| the certificate exchange | `Exchange`; `ExchangeWithoutContext` where malloc fails |
| `uplink_start` with `downlink_start` | `UplinkStart`, part of the two above |
| `tf_uplink_indicate_cb`, `tf_uplink_read_cb` | `Indicated`, `Subscribed`, `SubscriptionEnds`; `ReadBack`, `ReadError`; `PayloadTooLate` |
| `uplink_end_cb` | `UplinkEnds` |
| `block_cb`, `end_cb`, `write_response_cb` | `BlockCb`, `EndCb`, `Written`, with `Write` and `Abandon` |

`node` is the one slot of `connected_nodes` that successive connections use; its
pointers name the sync that made the object, so an object of an earlier sync can
be told from one of this sync. `node.params` says whose parameters are in the
union. An `Exchange` goes on, finishes the sync, or stops without `bt_finished`, as a
failed read and an empty store do; a `Payload` may be more, the last, bad, or one that
finds no block any more (-ENOMEM), which finishes the sync and leaves the uplink open; and
`EndCb` kicks whenever there is no current block, also while a write is in flight, so that
a second write may be queued. `reqs` are the requests the host has queued; it answers them in order and
uses the parameters it finds in the node, which is where `Astray` comes from: a
request whose parameters have been overwritten. Use of what is not there any more
ends a behaviour with `fault`.

What may go wrong is a set of troubles, the variable `env`, chosen at the start:
lost links, GATT errors, cloud errors, failing allocations, a scanner that does not
start, an SDK so slow that its callbacks for one sync come in the next, a device
that leaves a request unanswered for 5 s, and a response that overtakes the end of
the subscription. A property names the troubles it is claimed without, so each
condition of correctness is stated where it can be read.

Assumed of code outside `src/`: the host uses the same connection object for the
next connection; it queues ATT requests in order, and completes all of them before
it reports a disconnection; a discovery that fails calls back with NULL, a failed
or ended subscription does so too; the MTU of a closed connection is 0; the SDK
gives no response after it has reported an upload as failed. Simplified: one
device at a time, and an advertisement is what the filter tests of it.

### Discovery

`Discovery.tla` is the part that `Session` leaves as a choice: which handles the
searches of `lib/bt/connect.c` find, in any GATT table. A table is the sequence of
the device's attributes, so a handle is a position. `ServiceFound` and
`ServiceMissing` are `discover_services`, `CharacteristicFound` and
`CharacteristicsDone` are `discover_characteristics`, `DescriptorFound` and
`DescriptorsDone` are `discover_descriptors`; `ClosestBelow` is its search for the
characteristic and `IsLowest` the one for the start of the search. `BtStart` clears
the slot for the next device. The host, which is external, reports matching
attributes in the order of their handles; `Fails` ends a search early.

### MC modules and proofs

`DownlinkMC`, `UplinkMC`, `CertMC`, `SessionMC` and `DiscoveryMC` give the
set-valued constants their values for TLC. `DownlinkProofs`,
`DownlinkStreamProofs`, `UplinkProofs`, `UplinkSerialProofs`, `CertProofs`,
`SessionProofs`, `SessionSyncProofs` and `DiscoveryProofs` hold the theorems and lemmas.

## 3. What is checked

The runs with "pass" hold; each of the others exhibits one disagreement between
the code and what the repository says of it (section 5).

| Run | Environment | Shows |
|---|---|---|
| `downlink_any` | every failure, up to three responses per burst | `PoolAccounted`, `CloseStrandsNothing`, `StreamIntact`, `SingleConsumer`, `NoLostWakeup`, `QuietAfterFinish`; the downlink implements the abstract stream (`IsStream`); unless `block_cb` gives up on a device that still reads, nothing is read while blocks are dropped and none is freed twice (`FlushIsAlone`), and the session ends (`Finishes`) |
| `downlink_steady` | no failure, one response per burst | `MemorySafe`, `KickHasData`; every response is `Delivered` |
| `downlink_abort_leak` | GATT failures | violates `AbortReclaims` |
| `uplink_any` | every failure, preemption | `OneSender`, `NodeNeverDangles`, `UploadInOrder` |
| `uplink_serial` | cloud, GATT and link failures, no preemption | `CallbackFindsUplink`, `NoLeak`, `MemorySafe`, `ClosedDataEnds`; the uplink implements the abstract stream (`IsUpload`), hence `SuccessIsComplete` |
| `uplink_stuck` | preemption, no failure | violates `ClosedEnds` |
| `cert_any` | every failure, updates at any moment | `ContextsFreedOnce`, `DeviceCertWhole`, `AcceptedIsCurrent`, `TransferEnds` |
| `cert_torn` | updates, no failure | violates `AcceptedIsIntact` |
| `cert_stall` | no certificate at boot | violates `ExchangeEnds` |
| `session_any` | both applications, nine environments | `ScanOrConnection`, `ScratchReclaimed`, `NothingLeft`, `ParamsOwned`, `OwnNode`, `TwoSyncs`, `MemorySafe`, `StartsOnLiveLink`; a session ends where nothing keeps it (`SessionEnds`) |
| `session_stale` | the link may be lost | violates `SecondSyncConnected` |
| `discovery_any` | 98 GATT tables, any search fails | `HandlesAreOwn`, `CccFound` |

Every component's run also checks its one type invariant. Each property of a
passing run has a mutant in `PROJECT.json`: an operator of the model replaced by
what a plausible bug would make of it, under which TLC finds the property
violated.

### Where the limits lie

`MemorySafe` of the downlink is not a property of the full environment, and the
configurations say where it stops:

- without failures it holds while the host thread handles at most one response
  per burst of the CoAP thread, and breaks with two: `block_cb` has published
  its block before it reads `current_block` and CLIENT_WAITING, and the host
  thread may write it, complete and free the context in between. `KickHasData`
  breaks the same way: responses that drain the queue between `k_fifo_put` and the
  test of CLIENT_WAITING set the bit, the transport is kicked without data, and
  `lib/bt/downlink.c:137` takes -ENODATA for an error and ends the session;
- with GATT failures it holds only if no response is handled in the burst;
- with a connection that may drop, `bt_stop` frees the scratch buffer while the
  CoAP thread is inside `write_downlink_characteristic`;
- with cloud failures, `end_cb` kicks a transport that may be busy
  (`lib/downlink.c:109`), where the comment says "If transport is waiting for a
  block, kick it".

When a block times out because the device is slow (`SlowNode`), `block_cb` flushes the
queue while a write is in flight, and the host thread can cut in anywhere. TLC then finds
that

- the host's `write_response_cb` takes the block behind those dropped, so that the
  device gets a gap; hence `StreamIntact` and `IsStream` promise an unbroken stream until
  `block_cb` gives up, and not in the phase "dropping";
- the host frees `current_block` between the test and the free of
  `pouch_gateway_downlink_close`, which frees it again: a fault here, so that
  `PoolAccounted` counts the blocks that were freed once;
- a downlink that is freed under a write leaves a sync that nobody finishes.

`FlushIsAlone` and `Finishes` therefore except this one case, in which `block_cb` gives up with
the link up, no abort and a write to be answered (`exit` is then "late"): the help text of
`CONFIG_POUCH_GATEWAY_DOWNLINK_BLOCK_TIMEOUT` says that it should be larger than
what one block takes. All other flushes are covered: of an aborted downlink, behind a
connection that is gone, and, if a wakeup were lost, behind an idle transport.

`downlink_any` stops a behaviour at a misuse of memory, as the program's behaviour
is undefined from there, and shows what holds until then. Nothing in the
repository promises memory safety line by line, so these are hazards and not
findings.

`UploadInOrder` says that the cloud gets the bytes in their order and none twice, in every
environment, and without a gap if the host thread does not cut in: a block
appended inside `sys_slist_get` is lost, and a later one is sent. The theorem has both
halves; of the runs, `uplink_any` shows the first, and `uplink_serial` the second as
`IsUpload`. In the same way `uplink_serial` checks the memory properties of the
uplink without preemption: with it, `block_upload_callback` releases SENDING
before it frees `rblock` (`lib/uplink.c:76`), and the host thread may install
its own block there; and without refusals of a block by the SDK (`LocalFails`),
because `handle_uplink_payload` closes the uplink a second time after the write
has ended it. An uplink that is cleaned up before its first byte (bt_stop, the end
of the subscription) only ever has an empty block, which `process_uplink` skips
without a look at CLOSED: it is never freed. `ClosedDataEnds` is therefore about
uplinks that were given a byte, and `NothingLeft` about syncs in which nothing fails.

The properties of `Session` name the troubles they exclude. What TLC finds in the
others:

- lost links: the delayed work of custom_connect, which nothing cancels, starts a
  sync on a dead connection or on the next one (`session_stale`);
- GATT errors: a bad payload calls bt_finished and ends the reads or the
  subscription, whose end calls it again, so custom_connect counts one sync as two; a
  read that fails ends without bt_finished, so the connection stays; the first
  write of the downlink overwrites `subscribe_params` while the host uses them;
- cloud errors: the uplink ends while the device is read, and the next payload
  finds `node->uplink` NULL; the end of a response that failed queues a second write
  while one is in flight, and the second finds the context freed; with a fast response,
  bt_finished is counted twice; and a failed download leaves the store empty, so that the
  exchange stops without bt_finished and the connection stays (`cert_stall`);
- failing allocations: when `downlink_start` fails, the uplink is started with the NULL
  context, which `block_cb` dereferences; a certificate context is written to
  unchecked; a payload without a block (-ENOMEM) calls bt_finished and the end of the
  subscription calls it again, so custom_connect counts one sync as two, its next sync starts
  while the unsubscription has the parameters, or on a connection that is gone; and that
  uplink stays open until the SDK reports its last block, which with a slow SDK is
  in the next sync;
- a fast response: the downlink's first write overwrites `subscribe_params` while
  the unsubscription is outstanding;
- a slow SDK with a lost link or a fast response: `uplink_end_cb` and `block_cb` act
  on the node of the next connection (`InTime` excludes these, and failing allocations
  with a slow SDK, which leave the same debt).

`SessionEnds` is thus about links that may drop, a scanner that fails, a slow SDK and a lazy
device, and it does not take a crash for an end. It assumes what other parts of this
project refute in general: that the exchange does not stop silently (`cert_stall`), that
an uplink that is closed ends (`uplink_stuck`), and that requests, allocations and uploads
do not fail.

custom_connect leaks the scratch buffer of the first of its two syncs on every
connection: `bt_start` clears the node (`lib/bt/connect.c:202`). `ScratchReclaimed`
and `NothingLeft` are claimed of the gateway application.

`Discovery` has two limits. The search for descriptors starts two handles after
the lowest *value* handle, not after the lowest characteristic handle, as the comment at
`lib/bt/connect.c:133` has it: when all five characteristics are present and the
first one's CCC directly follows its value, it is skipped, and if that is the
uplink's, the uplink is read instead of subscribed to. When a characteristic is
missing, its value 0 makes the search start at handle 2 and nothing is skipped.
And the CCC of an unknown characteristic is attributed to the known one before it,
in place of that one's own if it has one. `CccFound` and `HandlesAreOwn` state both
exceptions. A Pouch service without attributes makes the search for
characteristics start behind its end, which the host rejects.

### Bounds

- Downlink: two pool blocks, so that the slab runs empty and the timeout fires;
  lengths 1 and 3 and 0 with 2 bytes per GATT write: a block shorter than a
  write, exactly filling it with another, spanning two, and an empty last one;
  four blocks, twice the pool. `MaxLag` bounds the responses handled in one
  burst of the CoAP thread (a burst ends where that thread blocks or returns):
  three exceed what the two shared decisions of `block_cb` need.
- Uplink: blocks of two bytes, payloads of 0, 1 and 2; seven bytes make four
  blocks, so that one is being filled, one sent and two queued. Four bytes are
  enough for the two violations.
- Cert: certificates of 3, 2 and 2 bytes, two per write, so that a transfer takes
  two writes or one and an update can make it longer or shorter; the last does
  not parse. Two updates and two sessions: an update during the transfer that
  follows an update, and a session that finds what the previous one left. Device
  certificates of up to four bytes with room for two reach, fill and exceed the
  buffer.
- Session: four syncs are four connections of the gateway or two of
  custom_connect, so that what one connection leaves meets the next, and what the
  first sync of a connection leaves meets the second. The nine environments
  combine troubles that aggravate each other: a slow SDK with lazy devices, a failing
  scanner with failing allocations, lost links with a fast response. Lost links or
  failing allocations with a slow SDK, which the properties mostly exclude, have too many
  states.
- Discovery: nine services (in and out of order, with characteristics missing,
  repeated, unknown) with three choices of descriptors for the first
  characteristic and for the uplink, behind or before another service with a CCC;
  every table follows every other in the slot. Handles are up to 65535 as in the
  code; the tables are short.

### Fairness

Liveness is checked under weak fairness of: each thread's steps (both are
scheduled), the SDK answering a block, a request or a registration, the host
answering every GATT request and reporting every disconnection and the end of a
subscription, a device that ends its pouch, the application's disconnection
after `bt_finished`. These are promises of Zephyr's scheduler and host and of the
SDK, which have timeouts of their own (ATT: 30 s). No fairness is assumed
of failures, of updates, or of a device that merely could disconnect. In
`Session`: a connection attempt is answered, the work queue runs, the host and the
device answer every request, the device comes to the end of its pouch and the SDK
to the end of the uplink and of the response; nothing makes a device advertise.
`NoLostWakeup`, and liveness with it, relies on the cooperative priority of
the host thread: `get_data` tests the queue and sets CLIENT_WAITING without
interruption there.

`CHECK_DEADLOCK FALSE` is set where the system may stop: the stuck uplink
of `uplink_any` and `uplink_stuck`, the last session of `Cert`, the last sync of
`Session`; and in runs whose
liveness property already says that the system goes on to its end.

## 4. What is proved

TLAPS proves these for every value of the constants; the only assumptions are the
named `ASSUME`s of the modules, which TLC evaluates on every run.

| Theorem | Says |
|---|---|
| `TypeCorrect` (`DownlinkStreamProofs`) | `Spec => []TypeOK` |
| `PoolAlwaysAccounted` | `Spec => []PoolAccounted` |
| `AloneInGetData` | `Spec => []SingleConsumer` |
| `NothingStranded` | `Spec => []CloseStrandsNothing` |
| `DownlinkIsStream` | `Spec => IsStream` |
| `StreamAlwaysIntact` | `Spec => []StreamIntact` |
| `NoWakeupLost` | `Spec => []NoLostWakeup` |
| `QuietInTheEnd` | `Spec => QuietAfterFinish` |
| `FlushAlwaysAlone` | `Spec => FlushIsAlone` |
| `SteadyMemorySafe` | `Steady => (Spec => []MemorySafe)` |
| `SteadyKickHasData` | `Steady => (Spec => []KickHasData)` |
| `UplinkTypeCorrect` (`UplinkProofs`) | `Spec => []TypeOK` |
| `OneSenderAlways` | `Spec => []OneSender` |
| `NodeAlwaysValid` | `Spec => []NodeNeverDangles` |
| `UploadAlwaysInOrder` | `Spec => UploadInOrder` |
| `SerialMemorySafe` (`UplinkSerialProofs`) | `Serial => (Spec => []MemorySafe)` |
| `CallbackAlwaysFinds` | `Serial => (Spec => []CallbackFindsUplink)` |
| `BlocksAlwaysFreed` | `Serial => (Spec => []NoLeak)` |
| `SuccessAlwaysComplete` | `Serial /\ ~MallocFails => (Spec => []SuccessIsComplete)` |
| `UplinkIsUpload` | `Serial /\ ~MallocFails => (Spec => IsUpload)` |
| `CertTypeCorrect` (`CertProofs`) | `Spec => []TypeOK` |
| `AcceptedCurrent` | `Spec => AcceptedIsCurrent` |
| `ContextsAlwaysFreedOnce` | `Spec => []ContextsFreedOnce` |
| `DeviceCertAlwaysWhole` | `Spec => []DeviceCertWhole` |
| `SessionTypeCorrect` (`SessionProofs`) | `Spec => []TypeOK` |
| `AlwaysScanOrConnection` | `Spec => []ScanOrConnection` |
| `ScratchAlwaysReclaimed` | `Spec => []ScratchReclaimed` |
| `OwnNodeAlways` (`SessionSyncProofs`) | `Spec => []OwnNode` |
| `TwoSyncsAlways` | `Spec => []TwoSyncs` |
| `AlwaysStartsOnLiveLink` | `Spec => StartsOnLiveLink` |
| `ParamsAlwaysOwned` | `Spec => []ParamsOwned` |
| `SessionMemorySafe` | `Spec => []MemorySafe` |
| `NothingEverLeft` | `Spec => []NothingLeft` |
| `DiscoveryTypeCorrect` (`DiscoveryProofs`) | `Spec => []TypeOK` |
| `HandlesAlwaysOwn` | `Spec => []HandlesAreOwn` |
| `CccAlwaysFound` | `Spec => []CccFound` |

*Downlink.* The lemmas are in `DownlinkProofs`. `TypeOK` alone is not inductive: `free`
stays below `NumBlocks` only because of `PoolAccounted`, the copied length is a natural number only because
the offset stays inside the current block (`OffsetInside`), and sequence numbers
start at 1 only because `block_cb` has counted its block (`InBlockCb`). Where the CoAP
thread stands in its close says what is left: the queue is empty behind the flush, the
block that is freed first is not counted any more (`Dangles`), and a freed context holds
nothing (`ClosedEmpty`). The conjunction, `Sound`, is. The close of the host thread is one
lemma for every caller (`CloseThenSound`), those of the CoAP thread are another
(`CloseStepSound`), as is moving a queued block to `current_block` (`TakeNextMoves`).

`SingleConsumer` says what the CLIENT_WAITING bit is for. By itself it is not
inductive: one must also know that at most one write is in flight, that a running
host handler has consumed it, and that while the bit is set there is no write and
no thread that may still start one. `Handshake` adds these, `EndCbOnly` that only
a failed request reaches the tail of `end_cb`, the one place that ignores the bit.

*Stream.* The refinement needs one fact that the code never tests: when a context is
freed, the stream is empty, although `pouch_gateway_downlink_close` frees
`current_block` and not the queue, and its callers look at COMPLETE only. `Drained`
says that the bit is set for an empty queue that nobody will put a block into any more.
There are two reasons for that: the last block is always the last in the queue
(`LastAtEnd`), or the downlink was aborted, and then it is not read again before the
request has failed (`Silent`): no write is in flight, nobody may start one,
and CLIENT_WAITING is not about to be tested. `StreamInv` is these facts with
`Sound` and `Handshake`, and, of a CoAP thread that closes, why it does: because
`block_cb` gave up while the request is open, or because the downlink is complete
(`CloudCloses`); `StreamInvStep` is its induction, by one lemma per kind of
step, and `OtherIsNothing` the steps the stream does not see. `StreamIntact` adds that
what is read and what is unread are consecutive numbers (`Numbered`, `ReadTo`);
`NoLostWakeup`, that an empty downlink with an idle transport has CLIENT_WAITING set or a
callback on its way to look again (`WakeInv`); `QuietAfterFinish`, that a finished
sync was aborted or is freed (`EndInv`). `FlushIsAlone` is about the flush of
`block_cb`: unless a write is in flight, it gives up only what the transport has aborted, or
times out behind a connection that is gone or a transport that is idle, and the host thread
reads none of them any more (`FlushAlone`).

*Downlink without failures.* `Steady` names the conditions of `downlink_steady`.
`MemorySafe` rests on one order: the response to the last packet frees the context,
then the packetizer, and only then the connection is closed (`FreedLast`); by then the
`block_cb` that gave the last block must have returned (`LastGiven`). It has, unless
the host thread overtakes it between `k_fifo_put` and the two tests that follow.
`Grace` is the account of that window: a response that cuts in has the block to read,
so that it finds a downlink that is not complete; and it is the only one, because
the burst has room for one. The same fact keeps CLIENT_WAITING from being set
for an empty queue there, which is `KickHasData` (`Fed`). That get_data does not come
round with all its room left needs `NoneEmpty`: only the last block may be empty.
The slab does not run empty for good, because the
pool is in use only while the transport is busy (`WakeInv`).
The bound on a burst is necessary: with two responses TLC finds both violated.

*Uplink.* `OneSender` speaks of the threads inside `process_uplink`. What is inductive is
that the bit has one owner (`OneHolder`): a thread inside, the SDK with a block,
or `block_upload_callback` before it releases the bit; the bit passes from one to
the next and is set as long as one has it. `Head(queue)` and the length of
`rblock` have a type only because no other thread can clean up while the owner
is about to use them (`BlockInHand`), which rests on the owner being alone and on
the host thread finishing what it began. `NodeForgotten`, that `uplink_end_cb` comes
before `cleanup_uplink`, gives `NodeNeverDangles`. `UploadInOrder` needs to know where
all bytes are: from what the SDK has been given, through `rblock`, the list and
`wblock`, each block begins no earlier than the one before it ends (`Sorted`, `ForwardInv`);
this holds under preemption and every failure, as `sys_slist_get` loses blocks but
does not reorder them. That nothing is missing is claimed without preemption: then one
handler runs at a time (`OneHandler`), the list is whole (`ListInv`), and each block begins
where the one before it ends (`Unbroken`, in `OrderInv`). A block is only
missing when the SDK has refused it; then SENDING stays set until the uplink is
freed, so that nobody sends the blocks behind it (`NobodySends`).

*Uplink without preemption.* `Serial` names the conditions of `uplink_serial`:
the host thread does not cut in, the device indicates, the SDK refuses no block.
`SerialInv` is the induction for three properties: the uplink is alive
wherever a handler is to use it or the SDK has a block (`Alive`), which rests on the
callback of the last payload having found a block to send before it closes again
(`LastPayload`) and on no payload being accepted once the uplink is closed
(`SourceOn`); and every block on the heap is in `wblock`, `rblock` or the list
(`BlocksOwned`). `CompleteInv` follows the last block: a closed uplink that was
written to has its last block sent and marked, or still in the list, or in hand
(`LastMarked`), because only an uplink that was never written to has an empty block
(`EmptyOnly`). With failing allocations the last claim is not made: a payload that is
cut short ends the sync.

*Upload.* For the refinement `UploadInv` adds what a block on its way may look like: it
is full, or it is the last one of a closed uplink, and ends no later than what was
accepted (`Cuts`). With the order of the blocks this decides which `Give` a block is
(`LastInHand`): a block that a list of blocks follows ends before the last byte, because
none of those is empty; with an empty list and an open uplink `wblock` has at least one
byte more. `Verdicts` adds when the end is reported and of what: a failed block in the
very callback that says so, everything else when the uplink is closed.

*Cert.* `AcceptedIsCurrent` needs what a transfer in progress has sent so far:
`TransferFaithful` says that a context that carries the present id, while no
update is under way, has sent exactly the first `offset` bytes of the buffer;
`StoreClean`, that buffer, length and serial number then agree; `UpdateProgress`,
what the main thread has done so far. The lemma `ExtendCopy` is the step of one
more packet. The interesting case is an update that begins and ends
within a transfer: the id differs afterwards, so nothing is claimed of the old
context, and `write_response_cb` restarts it.

What is freed and what is registered is one more induction, `ContextInv`: a server
certificate context exists exactly when the node refers to it, also when a transfer starts
again, because `write_response_cb` frees the old one before that; and while a device
certificate is read or registered its context is live and has all that came, if
it fits (`DeviceInv`).

*Session.* `ScratchReclaimed` is about the end of a connection, but what makes it hard
is the beginning: `bt_start` clears the node, so no buffer may exist while a discovery
is under way. `OneSync` says that: in the gateway application a pending
discovery or exchange is the only request, with no subscription and no buffer.
Of the two dozen actions only those that connect and discover matter; of all others
`LateStep` says how little they change (a request answered, a new one if a
subscription or a buffer exists, never a buffer of another sync), each is shown to be
such a step, and `LateStep` is shown once to preserve the invariant.

*Syncs.* `SessionSyncProofs` is about what ties a callback to its sync: nothing in the code
does, but the order of the callbacks in the environments that each property names. Five
inductive invariants build on each other, each for the environments of the next property.

- `OwnInv`, in every environment: the node's pointers are of the latest sync
  (`OfLatest`), and where the SDK is not slow it owes nothing when the next sync
  may begin (`Awaited`). The discovery and the connection are one kind of step,
  the late actions another (`LateMore`).
- `OnceInv` (`CountedOnce`: no lost link, GATT error or failing allocation, and not a cloud
  error with a fast response): what finishes a sync happens once: a pending
  discovery, the subscription, the last read or the downlink, whichever it is, is the
  only one that can still call `bt_finished`; the count of custom_connect and the delayed
  work follow it. Cloud errors may leave two writes in the queue, which are the last there
  is (`WritesLast`); the first one then ends the sync, and the second one can only find
  nothing (`Doomed`), which ends the behaviour. `TwoSyncs`, `StartsOnLiveLink` and `OwnNode`
  are consequences.
- `PhaseInv` (no GATT or cloud error, failing allocation or fast response): a sync is in one of six
  phases (`Resting`, `Exploring`, `Reading`, `Subscribing`, `Leaving`, `Writing`),
  which say what the host has queued; the parameters in the union are those of its
  phase, hence `ParamsOwned`.
- `MemoryInv` (in the same environments): what the phase needs is allocated and of
  this sync (`Equipped`, `Begun`), and what has ended is not used (`Ended`): this is
  `fault = "none"`, `MemorySafe`.
- `CleanInv` (the gateway, no lost link): a sync that is not the latest, or whose
  connection is no longer up, has given everything back (`Cleaned`), because the
  connection is closed only by the end of the one thing that was going on.

*Discovery.* `TypeOK` is not inductive: that the start of the search for
descriptors is a 16-bit handle rests on the two characteristics that must have been found,
whose values lie in the service, so that the lower one has room for the other
behind it (`SearchStartsInside`). `HandlesAreOwn` follows from `CccClosest`, that a CCC
is attributed to the closest value handle below it, and `ValuesOwn`, that the values lie
in one service; `CccFound` from `AllAttributed`, that what the host has reported
is attributed, and from the end of a search being the end of the service. The
only assumption about tables is that each characteristic declaration is followed by
its value.

*Only model-checked:* the liveness properties (`Finishes`, `Delivered`, `ClosedDataEnds`,
`TransferEnds`, `SessionEnds`), which need fairness and ENABLED. Every safety
invariant and every action property of a passing run is a theorem.

## 5. Disagreements found

| Run | The code | What the repository says |
|---|---|---|
| `downlink_abort_leak` | leaves the cleanup of an aborted downlink to a `block_cb` that no longer comes | "Downlink will be aborted after the current in flight CoAP block request is completed." |
| `uplink_stuck` | loses the last block when the uplink is closed between the empty-queue test and the release of SENDING | "Close the uplink." |
| `cert_torn` | downloads into the buffer that is being sent, and increments the id last, so a mixture passes for the newest | "There was certificate update in the meantime, so send it once again." |
| `session_stale` | schedules the second sync in 5 s and cancels it nowhere: it runs on a connection that was lost, or on the next one | "Bluetooth connection is maintained for two Pouch synchonization events, with a delay of 5 seconds between them" |
| `cert_stall` | drops the error of the first write: with an empty store the connection stays for good | "Bluetooth connection is maintained just for the time Pouch synchronizatio takes place" |

`PROJECT.json` gives the lines of both sides.

## 6. What is left

`Session` with two connections at a time and `CONFIG_BT_MAX_CONN` slots: the code keys
everything by slot, so the one-slot model has the interesting reuse, but not two syncs
that compete for the pool of blocks.

Not modelled: payload encryption and packet formats (the Pouch library, outside
`src/`); the version and flag masks of the advertisement (`lib/bt/scan.c:22`), whose
values are constants of that library; timing in real units; memory orders weaker than
sequential consistency (`atomic_t` of Zephyr is sequentially consistent and the targets
are single-core); the cloud's own behaviour beyond what the SDK reports; network and modem
bring-up in `gateway/src/main.c`, a chain of calls outside `src/` around one semaphore; the
fatal error handler, which reboots; build files, patches, simulation runners and tests.
