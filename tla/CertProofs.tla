----------------------------- MODULE CertProofs -----------------------------
(***************************************************************************)
(* Proofs about Cert, for every set of certificates, MTU and environment:  *)
(* the types; that a transfer which counts as successful outside an update *)
(* has handed over the whole present certificate; that the contexts of the *)
(* node are neither lost nor freed twice, and that a device certificate    *)
(* that is registered is whole.                                            *)
(*                                                                         *)
(* The invariant says what server_crt_id stands for: while the buffer is   *)
(* not dirty, a context that bears the present id was filled from the      *)
(* buffer as it is now.  An update breaks this link when it first writes   *)
(* to the buffer and makes every older context stale when it ends.         *)
(***************************************************************************)
EXTENDS Cert, SequenceTheorems, TLAPS

Bytes == Versions \union {0}

\* server_crt_buf begins with version v.
BufBegins(v, n) == \A i \in 1 .. n : buf[i] = v

\* The store while no update has touched it.
StoreClean ==
  ~dirty =>
    /\ main = "idle" \/ (main = "download" /\ fetched = 0)
    /\ serial # 0 => len = CertLen[serial] /\ BufBegins(serial, len)
    /\ serial = 0 => len = 0

\* How far an update has come.
UpdateProgress ==
  /\ main # "idle" => new \in Versions
  /\ main = "download" => fetched <= CertLen[new] /\ BufBegins(new, fetched)
  /\ main \in {"len", "id"} => serial = new /\ BufBegins(new, CertLen[new])
  /\ main = "id" => len = CertLen[new]

\* What a context of the present id has sent is what the clean buffer holds.
TransferFaithful ==
  /\ pending \in {"serial", "device"} => sctx = NoCtx
  /\ pending = "write" =>
       /\ sctx \in Context
       /\ sctx.id <= id
       /\ ~dirty /\ sctx.id = id =>
            /\ 0 < sctx.offset /\ sctx.offset <= len /\ Len(sent) = sctx.offset
            /\ \A i \in 1 .. sctx.offset : sent[i] = buf[i]

CertInv == TypeOK /\ StoreClean /\ UpdateProgress /\ TransferFaithful

USE LenAssumption, VersionAssumption, SizeAssumption, BoundAssumption, NoCtxAssumption

LEMMA CertLens == \A v \in Versions : CertLen[v] \in 1 .. MaxLen /\ CertLen[v] \in Nat
  OBVIOUS

LEMMA InitInv == Init => CertInv
<1> SUFFICES ASSUME Init PROVE CertInv
  OBVIOUS
<1> USE DEF Init
<1>1. StoreTypeOK
  <2>1. len \in 0 .. MaxLen /\ serial \in Versions \union {0} /\ id \in Nat
    BY CertLens
  <2>2. buf \in [1 .. MaxLen -> Versions \union {0}]
    BY <2>1
  <2>3. 0 \in 0 .. MaxLen /\ 0 \in 0 .. MaxUpdates
    OBVIOUS
  <2> QED
    BY <2>1, <2>2, <2>3 DEF StoreTypeOK
<1>2. NodeTypeOK
  <2>1. sent \in Seq(Versions \union {0})
    BY EmptySeq
  <2>2. 0 \in 0 .. MaxSessions /\ 0 \in 0 .. DeviceMax
    OBVIOUS
  <2>3. link \in {"none", "up", "down", "stopped"} /\ sessions \in 0 .. MaxSessions
        /\ held \in Versions \union {0}
    BY <2>2
  <2>4. pending \in {"none", "serial", "write", "device"} /\ host \in {"ready", "register"}
        /\ packets \in Nat /\ sctx \in Context \union {NoCtx}
    OBVIOUS
  <2>5. dctx \in {"null", "live", "freed"} /\ dlen \in 0 .. DeviceMax /\ came \in Nat
        /\ contexts \in Int
    BY <2>2
  <2>6. handed \in BOOLEAN /\ finished \in BOOLEAN /\ fault \in BOOLEAN
    OBVIOUS
  <2> QED
    BY <2>1, <2>3, <2>4, <2>5, <2>6 DEF NodeTypeOK
<1>3. StoreClean /\ UpdateProgress /\ TransferFaithful
  BY CertLens DEF StoreClean, UpdateProgress, TransferFaithful, BufBegins
<1> QED
  BY <1>1, <1>2, <1>3 DEF CertInv, TypeOK

-----------------------------------------------------------------------------
(* The main thread                                                         *)

\* An action of the main thread leaves the node alone.
LEMMA NodeKept ==
  ASSUME CertInv, UNCHANGED <<linkVars, nodeVars>>,
         id' = id, dirty' \/ (dirty' = dirty /\ buf' = buf /\ len' = len)
  PROVE  NodeTypeOK' /\ TransferFaithful'
<1> USE DEF CertInv, TypeOK, linkVars, nodeVars, deviceVars, serverVars
<1>1. NodeTypeOK'
  BY DEF NodeTypeOK
<1>2. TransferFaithful'
  BY DEF TransferFaithful, StoreTypeOK
<1> QED
  BY <1>1, <1>2

LEMMA DownloadInv == ASSUME CertInv, Download PROVE CertInv'
<1> USE DEF Download
<1>1. new \in Versions /\ fetched \in Nat /\ fetched + 1 <= CertLen[new]
      /\ fetched + 1 \in 1 .. MaxLen
  BY CertLens DEF CertInv, TypeOK, StoreTypeOK, UpdateProgress
<1>2. StoreTypeOK'
  BY <1>1 DEF CertInv, TypeOK, StoreTypeOK
<1>3. UpdateProgress'
  <2>1. BufBegins(new, fetched)
    BY DEF CertInv, UpdateProgress
  <2>2. BufBegins(new, fetched)'
    BY <1>1, <2>1 DEF BufBegins, CertInv, TypeOK, StoreTypeOK
  <2> QED
    BY <1>1, <2>2 DEF UpdateProgress
<1>4. StoreClean'
  BY DEF StoreClean
<1> QED
  BY <1>2, <1>3, <1>4, NodeKept DEF CertInv, TypeOK

LEMMA UpdateInv == ASSUME CertInv, Update PROVE CertInv'
<1> USE DEF CertInv, TypeOK, StoreTypeOK, StoreClean, UpdateProgress, BufBegins
<1>1. CASE OnConnected
  BY <1>1, CertLens, NodeKept DEF OnConnected, storeVars
<1>2. CASE Download
  BY <1>2, DownloadInv
<1>3. CASE DownloadFails
  BY <1>3, NodeKept DEF DownloadFails, storeVars
<1>4. CASE ParseAndSetSerial
  <2>1. dirty
    BY <1>4, CertLens DEF ParseAndSetSerial
  <2> QED
    BY <1>4, <2>1, NodeKept DEF ParseAndSetSerial
<1>5. CASE SetLen
  <2>1. dirty /\ CertLen[new] \in 0 .. MaxLen
    BY <1>5, CertLens DEF SetLen
  <2> QED
    BY <1>5, <2>1, NodeKept DEF SetLen
<1>6. CASE IncId
  <2>0. new \in Versions /\ serial = new /\ len = CertLen[new]
        /\ BufBegins(new, CertLen[new])
    BY <1>6 DEF IncId
  <2>1. StoreTypeOK'
    <3>1. id' \in Nat /\ main' = "idle" /\ dirty' = FALSE
      BY <1>6 DEF IncId
    <3> QED
      BY <1>6, <3>1 DEF IncId
  <2>6. UpdateProgress'
    BY <1>6 DEF IncId
  <2>4. serial # 0
    BY <2>0
  <2>5. StoreClean'
    BY <1>6, <2>0, <2>4 DEF IncId
  <2>2. NodeTypeOK'
    BY <1>6 DEF IncId, NodeTypeOK, linkVars, nodeVars, deviceVars, serverVars
  <2>3. TransferFaithful'
    BY <1>6 DEF IncId, TransferFaithful, nodeVars, serverVars, Context
  <2> QED
    BY <2>1, <2>2, <2>3, <2>5, <2>6
<1> QED
  BY <1>1, <1>2, <1>3, <1>4, <1>5, <1>6 DEF Update

-----------------------------------------------------------------------------
(* The host thread                                                         *)

\* An action of the host thread leaves the store alone.
LEMMA StoreKept ==
  ASSUME CertInv, UNCHANGED <<storeVars, mainVars>>
  PROVE  StoreTypeOK' /\ StoreClean' /\ UpdateProgress'
BY DEF CertInv, TypeOK, StoreTypeOK, StoreClean, UpdateProgress, BufBegins, storeVars,
       mainVars

\* The sequence t is the first k elements of b.
Copies(t, b, k) == Len(t) = k /\ \A i \in 1 .. k : t[i] = b[i]

\* A faithful copy of the first o elements, continued with the next n.
LEMMA ExtendCopy ==
  ASSUME NEW S, NEW b, NEW s \in Seq(S), NEW o \in Nat, NEW n \in Nat \ {0},
         \A i \in 1 .. o + n : b[i] \in S
  PROVE  /\ s \o SubSeq(b, o + 1, o + n) \in Seq(S)
         /\ Copies(s, b, o) => Copies(s \o SubSeq(b, o + 1, o + n), b, o + n)
<1> DEFINE chunk == SubSeq(b, o + 1, o + n)
           t == s \o chunk
<1>1. /\ chunk \in Seq(S)
      /\ Len(chunk) = n
      /\ \A i \in 1 .. n : chunk[i] = b[o + i]
  <2>1. \A i \in o + 1 .. o + n : b[i] \in S
    OBVIOUS
  <2>2. o + 1 \in Int /\ o + n \in Int /\ o + 1 <= o + n /\ (o + n) - (o + 1) + 1 = n
    OBVIOUS
  <2>3. /\ chunk \in Seq(S)
        /\ Len(chunk) = IF o + 1 <= o + n THEN (o + n) - (o + 1) + 1 ELSE 0
        /\ \A i \in 1 .. (o + n) - (o + 1) + 1 : chunk[i] = b[o + 1 + i - 1]
    BY <2>1, <2>2, SubSeqProperties
  <2> HIDE DEF chunk
  <2>4. \A i \in 1 .. n : o + 1 + i - 1 = o + i
    OBVIOUS
  <2> QED
    BY <2>2, <2>3, <2>4
<1> HIDE DEF chunk
<1>2. /\ t \in Seq(S) /\ Len(t) = Len(s) + Len(chunk)
      /\ \A i \in 1 .. Len(s) + Len(chunk) :
           t[i] = IF i <= Len(s) THEN s[i] ELSE chunk[i - Len(s)]
  BY <1>1, ConcatProperties
<1> HIDE DEF t
<1>3. ASSUME Len(s) = o, \A i \in 1 .. o : s[i] = b[i]
      PROVE  Len(t) = o + n /\ \A i \in 1 .. o + n : t[i] = b[i]
  <2>1. Len(t) = o + n
    BY <1>1, <1>2, <1>3
  <2>2. ASSUME NEW i \in 1 .. o + n PROVE t[i] = b[i]
    <3>1. CASE i <= o
      BY <1>1, <1>2, <1>3, <3>1
    <3>2. CASE i > o
      <4>1. i - o \in 1 .. n /\ o + (i - o) = i
        BY <3>2
      <4> QED
        BY <1>1, <1>2, <1>3, <3>2, <4>1
    <3> QED
      BY <3>1, <3>2
  <2> QED
    BY <2>1, <2>2
<1> QED
  BY <1>2, <1>3 DEF t, chunk, Copies

\* A packet continues the faithful copy of the buffer.
LEMMA ChunkSent ==
  ASSUME CertInv, NEW ctx \in Context, NEW before \in Seq(Bytes), WriteChunk(ctx, before)
  PROVE  /\ sctx' \in Context /\ sctx'.id = ctx.id
         /\ 0 < sctx'.offset /\ sctx'.offset <= len
         /\ sent' \in Seq(Bytes)
         /\ /\ Len(before) = ctx.offset
            /\ \A i \in 1 .. ctx.offset : before[i] = buf[i]
            => /\ Len(sent') = sctx'.offset
               /\ \A i \in 1 .. sctx'.offset : sent'[i] = buf[i]
<1> DEFINE o == ctx.offset
           n == ChunkLen(o)
<1>1. o \in Nat /\ ctx.id \in Nat /\ len \in 0 .. MaxLen /\ o < len /\ Mtu \in Nat \ {0}
  BY DEF WriteChunk, Context, CertInv, TypeOK, StoreTypeOK
<1>2. n \in Nat \ {0} /\ o + n <= len
  BY <1>1 DEF ChunkLen
<1>3. /\ sctx' = [ctx EXCEPT !.offset = o + n]
      /\ sent' = before \o SubSeq(buf, o + 1, o + n)
  BY DEF WriteChunk
<1> HIDE DEF n
<1>4. sctx' \in Context /\ sctx'.id = ctx.id /\ sctx'.offset = o + n
  <2>1. o + n \in 0 .. MaxLen
    BY <1>1, <1>2
  <2> QED
    BY <1>3, <2>1 DEF Context
<1>5. \A i \in 1 .. o + n : buf[i] \in Bytes
  BY <1>1, <1>2 DEF CertInv, TypeOK, StoreTypeOK, Bytes
<1> HIDE DEF o
<1>6. /\ sent' \in Seq(Bytes)
      /\ /\ Len(before) = o
         /\ \A i \in 1 .. o : before[i] = buf[i]
         => Len(sent') = o + n /\ \A i \in 1 .. o + n : sent'[i] = buf[i]
  <2> DEFINE t == before \o SubSeq(buf, o + 1, o + n)
  <2>1. o \in Nat /\ n \in Nat \ {0}
    BY <1>1, <1>2
  <2>2. /\ t \in Seq(Bytes)
        /\ /\ Len(before) = o
           /\ \A i \in 1 .. o : before[i] = buf[i]
           => Len(t) = o + n /\ \A i \in 1 .. o + n : t[i] = buf[i]
    <3>1. /\ t \in Seq(Bytes)
          /\ Copies(before, buf, o) => Copies(t, buf, o + n)
      BY <2>1, <1>5, ExtendCopy
    <3> QED
      BY <3>1 DEF Copies
  <2>3. sent' = t
    BY <1>3
  <2> HIDE DEF t
  <2> QED
    BY <2>2, <2>3
<1> QED
  BY <1>1, <1>2, <1>4, <1>6 DEF o

\* What every handler keeps.
HandlerFrame == UNCHANGED <<storeVars, mainVars, linkVars>>

LEMMA AbandonInv == ASSUME CertInv, HandlerFrame, Abandon PROVE CertInv'
<1>1. StoreTypeOK' /\ StoreClean' /\ UpdateProgress'
  BY StoreKept DEF HandlerFrame
<1>2. NodeTypeOK'
  BY DEF CertInv, TypeOK, NodeTypeOK, HandlerFrame, Abandon, CleanupServer, BtFinished,
         HostReturns, Freed, linkVars, deviceVars
<1>3. TransferFaithful'
  BY DEF TransferFaithful, Abandon, BtFinished
<1> QED
  BY <1>1, <1>2, <1>3 DEF CertInv, TypeOK

LEMMA WriteStartInv ==
  ASSUME CertInv, HandlerFrame, NEW allocated \in Int, WriteStart(allocated)
  PROVE  CertInv'
<1> DEFINE ctx == [id |-> id, offset |-> 0]
<1>1. StoreTypeOK' /\ StoreClean' /\ UpdateProgress'
  BY StoreKept DEF HandlerFrame
<1>2. ctx \in Context /\ allocated + 1 \in Int
  BY DEF Context, CertInv, TypeOK, StoreTypeOK, NodeTypeOK
<1>3. CASE WriteChunk(ctx, <<>>) /\ contexts' = allocated + 1
  <2>1. <<>> \in Seq(Bytes) /\ Len(<<>>) = 0
    BY EmptySeq
  <2>2. /\ sctx' \in Context /\ sctx'.id = id
        /\ 0 < sctx'.offset /\ sctx'.offset <= len
        /\ sent' \in Seq(Bytes)
        /\ Len(sent') = sctx'.offset
        /\ \A i \in 1 .. sctx'.offset : sent'[i] = buf[i]
    <3>1. ctx.offset = 0 /\ ctx.id = id
      OBVIOUS
    <3>2. Len(<<>>) = ctx.offset /\ \A i \in 1 .. ctx.offset : <<>>[i] = buf[i]
      BY <2>1, <3>1
    <3> HIDE DEF ctx
    <3> QED
      BY <1>2, <1>3, <2>1, <3>1, <3>2, ChunkSent
  <2>3. NodeTypeOK'
    BY <1>2, <1>3, <2>2 DEF CertInv, TypeOK, NodeTypeOK, HandlerFrame, WriteChunk,
       HostReturns, Continues, linkVars, deviceVars, Bytes
  <2>4. TransferFaithful'
    BY <1>3, <2>2 DEF TransferFaithful, WriteChunk, HandlerFrame, storeVars, mainVars,
       CertInv, TypeOK, StoreTypeOK
  <2> QED
    BY <1>1, <2>3, <2>4 DEF CertInv, TypeOK
<1>4. CASE WriteNothing(ctx) /\ contexts' = allocated + 1
  <2>1. NodeTypeOK'
    BY <1>2, <1>4, EmptySeq DEF CertInv, TypeOK, NodeTypeOK, HandlerFrame, WriteNothing,
       Stop, HostReturns, Continues, linkVars, deviceVars
  <2>2. TransferFaithful'
    BY <1>4 DEF TransferFaithful, WriteNothing, Stop
  <2> QED
    BY <1>1, <2>1, <2>2 DEF CertInv, TypeOK
<1>5. CASE Abandon
  BY <1>5, AbandonInv
<1> QED
  BY <1>3, <1>4, <1>5 DEF WriteStart

LEMMA DeviceReadStartInv ==
  ASSUME CertInv, HandlerFrame, DeviceReadStart, sctx' = NoCtx, contexts' \in Int
  PROVE  CertInv'
<1>1. StoreTypeOK' /\ StoreClean' /\ UpdateProgress'
  BY StoreKept DEF HandlerFrame
<1>2. NodeTypeOK'
  <2> USE DEF CertInv, TypeOK, NodeTypeOK, DeviceReadStart, Read, BtFinished, HostReturns,
              Continues
  <2>1. UNCHANGED linkVars /\ dlen' \in 0 .. DeviceMax /\ came' \in Nat
    BY DEF HandlerFrame
  <2>2. CASE dctx' = "live" /\ Read("device", 0)
    BY <2>1, <2>2 DEF linkVars
  <2>3. CASE dctx' = "null" /\ BtFinished /\ UNCHANGED fault
    BY <2>1, <2>3 DEF linkVars
  <2> QED
    BY <2>2, <2>3
<1>3. TransferFaithful'
  BY DEF TransferFaithful, DeviceReadStart, Read, BtFinished
<1> QED
  BY <1>1, <1>2, <1>3 DEF CertInv, TypeOK

LEMMA WriteResponseInv == ASSUME CertInv, WriteResponse PROVE CertInv'
<1>1. HandlerFrame /\ sctx \in Context /\ pending = "write" /\ contexts \in Int
  BY DEF HandlerFrame, WriteResponse, CertInv, TransferFaithful, TypeOK, NodeTypeOK
<1>2. StoreTypeOK' /\ StoreClean' /\ UpdateProgress'
  BY <1>1, StoreKept DEF HandlerFrame
<1>3. CASE WriteChunk(sctx, sent) /\ UNCHANGED contexts
  <2>1. sent \in Seq(Bytes)
    BY DEF CertInv, TypeOK, NodeTypeOK, Bytes
  <2>2. /\ sctx' \in Context /\ sctx'.id = sctx.id
        /\ 0 < sctx'.offset /\ sctx'.offset <= len
        /\ sent' \in Seq(Bytes)
        /\ /\ Len(sent) = sctx.offset
           /\ \A i \in 1 .. sctx.offset : sent[i] = buf[i]
           => /\ Len(sent') = sctx'.offset
              /\ \A i \in 1 .. sctx'.offset : sent'[i] = buf[i]
    BY <1>1, <1>3, <2>1, ChunkSent
  <2>3. NodeTypeOK'
    BY <1>1, <1>3, <2>2 DEF CertInv, TypeOK, NodeTypeOK, HandlerFrame, WriteChunk,
       HostReturns, Continues, linkVars, deviceVars, Bytes
  <2>4. TransferFaithful'
    BY <1>1, <1>3, <2>2 DEF CertInv, TransferFaithful, WriteChunk, HandlerFrame,
       storeVars, mainVars
  <2> QED
    BY <1>2, <2>3, <2>4 DEF CertInv, TypeOK
<1>4. CASE Abandon
  BY <1>1, <1>4, AbandonInv
<1>5. CASE CleanupServer /\ DeviceReadStart
  BY <1>1, <1>5, DeviceReadStartInv DEF CleanupServer, Freed
<1>6. CASE Restart
  BY <1>1, <1>6, WriteStartInv DEF Restart, Freed
<1> QED
  BY <1>3, <1>4, <1>5, <1>6 DEF WriteResponse

LEMMA SerialReadInv == ASSUME CertInv, SerialRead PROVE CertInv'
<1>1. HandlerFrame /\ sctx = NoCtx /\ pending = "serial" /\ contexts \in Int
  BY DEF HandlerFrame, SerialRead, CertInv, TransferFaithful, TypeOK, NodeTypeOK
<1>2. StoreTypeOK' /\ StoreClean' /\ UpdateProgress'
  BY <1>1, StoreKept DEF HandlerFrame
<1>3. CASE DeviceReadStart /\ UNCHANGED <<sctx, contexts>>
  BY <1>1, <1>3, DeviceReadStartInv
<1>4. CASE WriteStart(contexts)
  BY <1>1, <1>4, WriteStartInv
<1>5. CASE Read("serial", packets + 1) /\ UNCHANGED <<deviceVars, serverVars>>
  BY <1>1, <1>2, <1>5 DEF CertInv, TypeOK, NodeTypeOK, TransferFaithful, HandlerFrame,
     Read, HostReturns, Continues, linkVars, deviceVars, serverVars
<1>6. CASE Abandon
  BY <1>1, <1>6, AbandonInv
<1>7. CASE Stop /\ UNCHANGED <<deviceVars, serverVars>>
  BY <1>1, <1>2, <1>7 DEF CertInv, TypeOK, NodeTypeOK, TransferFaithful, HandlerFrame,
     Stop, HostReturns, Continues, linkVars, deviceVars, serverVars
<1> QED
  BY <1>3, <1>4, <1>5, <1>6, <1>7 DEF SerialRead

LEMMA DeviceReadInv == ASSUME CertInv, DeviceRead PROVE CertInv'
<1>1. /\ HandlerFrame /\ sctx = NoCtx /\ pending = "device" /\ UNCHANGED serverVars
  BY DEF HandlerFrame, DeviceRead, CertInv, TransferFaithful
<1>2. StoreTypeOK' /\ StoreClean' /\ UpdateProgress'
  BY <1>1, StoreKept DEF HandlerFrame
<1> USE DEF CertInv, TypeOK, NodeTypeOK, HandlerFrame, Read, Stop, BtFinished, HostReturns,
            Continues, linkVars, deviceVars, serverVars
<1>3. ASSUME NEW n \in Payloads, NEW last \in BOOLEAN, DevicePacket(n, last)
      PROVE  NodeTypeOK' /\ pending' \in {"device", "none"}
  <2>1. dlen' \in 0 .. DeviceMax /\ came' \in Nat /\ contexts' \in Int
        /\ sctx' \in Context \union {NoCtx} /\ sent' \in Seq(Versions \union {0})
        /\ UNCHANGED linkVars
    BY <1>1, <1>3 DEF DevicePacket, Push, Fits
  <2>2. CASE last
    BY <1>3, <2>1, <2>2 DEF DevicePacket
  <2>3. CASE ~last /\ dctx' = dctx /\ Read("device", packets + 1)
    BY <1>3, <2>1, <2>3
  <2>4. CASE ~last /\ dctx' = "null" /\ BtFinished /\ UNCHANGED fault
    BY <1>3, <2>1, <2>4
  <2> QED
    BY <1>3, <2>2, <2>3, <2>4 DEF DevicePacket
<1>4. CASE FreeDevice /\ BtFinished
  BY <1>1, <1>2, <1>4 DEF FreeDevice, TransferFaithful
<1>5. CASE Stop /\ UNCHANGED deviceVars
  BY <1>1, <1>2, <1>5 DEF TransferFaithful
<1>6. ASSUME NEW n \in Payloads, NEW last \in BOOLEAN, DevicePacket(n, last)
      PROVE  CertInv'
  BY <1>1, <1>2, <1>3, <1>6 DEF TransferFaithful
<1> QED
  BY <1>4, <1>5, <1>6 DEF DeviceRead

LEMMA StepInv == CertInv /\ [Next]_vars => CertInv'
<1> SUFFICES ASSUME CertInv, [Next]_vars PROVE CertInv'
  OBVIOUS
<1> USE DEF CertInv, TypeOK, NodeTypeOK, TransferFaithful, linkVars, nodeVars, deviceVars,
            serverVars
<1>1. CASE Update
  BY <1>1, UpdateInv
<1>2. CASE SerialRead
  BY <1>2, SerialReadInv
<1>3. CASE WriteResponse
  BY <1>3, WriteResponseInv
<1>4. CASE DeviceRead
  BY <1>4, DeviceReadInv
<1>5. ASSUME NEW ok \in BOOLEAN, Registered(ok) PROVE CertInv'
  BY <1>5, StoreKept DEF Registered, AfterFinish, BtFinished, HostReturns
<1>6. CASE Connect
  <2>1. StoreTypeOK' /\ StoreClean' /\ UpdateProgress'
    BY <1>6, StoreKept DEF Connect
  <2>2. /\ link' = "up" /\ sessions' \in 0 .. MaxSessions
        /\ held' \in Versions \union {0} /\ packets' = 0
        /\ dctx' = "null" /\ dlen' \in 0 .. DeviceMax /\ came' = 0 /\ contexts' = 0
        /\ sctx' = NoCtx /\ handed' = FALSE /\ UNCHANGED <<host, fault>>
    BY <1>6 DEF Connect
  <2>3. sent' \in Seq(Versions \union {0})
    BY <1>6, EmptySeq DEF Connect
  <2>4. pending' \in {"none", "serial"} /\ finished' \in BOOLEAN
    BY <1>6 DEF Connect
  <2>5. NodeTypeOK'
    <3>1. host' \in {"ready", "register"} /\ fault' \in BOOLEAN
      BY <2>2
    <3>2. contexts' \in Int /\ packets' \in Nat /\ came' \in Nat
      BY <2>2
    <3>3. handed' \in BOOLEAN
      BY <2>2
    <3> QED
      BY <2>2, <2>3, <2>4, <3>1, <3>2, <3>3
  <2> QED
    BY <2>1, <2>2, <2>4, <2>5
<1>7. CASE Disconnect
  BY <1>7, StoreKept DEF Disconnect, storeVars, mainVars
<1>8. CASE BtStop
  BY <1>8, StoreKept DEF BtStop, storeVars, mainVars
<1>9. CASE UNCHANGED vars
  BY <1>9, StoreKept DEF vars, storeVars, mainVars
<1> QED
  BY <1>1, <1>2, <1>3, <1>4, <1>5, <1>6, <1>7, <1>8, <1>9 DEF Next, Answer

\* Every variable keeps its type, whatever the certificates and the environment.
THEOREM CertTypeCorrect == Spec => []TypeOK
<1>1. CertInv => TypeOK
  BY DEF CertInv
<1> QED
  BY <1>1, InitInv, StepInv, PTL DEF Spec

\* The newest test of write_response_cb does what it is for: a transfer that
\* succeeds while the store is clean has handed over the present certificate.
THEOREM AcceptedCurrent == Spec => AcceptedIsCurrent
<1>1. ASSUME CertInv, Next, Accepts, ~dirty PROVE sent = Whole(serial)
  <2>1. WriteResponse
    <3>1. sctx # NoCtx /\ pending' = "device" /\ pending \notin {"serial", "device"}
      BY <1>1 DEF Accepts, CertInv, TransferFaithful
    <3>2. pending' # pending
      BY <3>1
    <3>3. ~Update /\ ~SerialRead /\ ~DeviceRead /\ ~Connect /\ ~Disconnect /\ ~BtStop
      BY <3>1 DEF Update, OnConnected, Download, DownloadFails, ParseAndSetSerial, SetLen,
         IncId, nodeVars, SerialRead, DeviceRead, Connect, Disconnect, BtStop
    <3>4. ASSUME NEW ok \in BOOLEAN, Registered(ok) PROVE FALSE
      BY <3>1, <3>4 DEF Registered, BtFinished
    <3> QED
      BY <1>1, <3>3, <3>4 DEF Next, Answer
  <2>2. /\ pending = "write" /\ sctx \in Context /\ sctx.offset >= len /\ sctx.id = id
    <3>1. pending = "write" /\ sctx \in Context
      BY <2>1, <1>1 DEF WriteResponse, CertInv, TransferFaithful
    <3>2. IsComplete(sctx) /\ IsNewest(sctx)
      BY <1>1, <2>1 DEF WriteResponse, Accepts, WriteChunk, Restart, WriteStart, WriteNothing,
         Stop, Abandon, BtFinished
    <3> QED
      BY <3>1, <3>2 DEF IsComplete, IsNewest
  <2>3. /\ 0 < sctx.offset /\ sctx.offset <= len /\ Len(sent) = sctx.offset
        /\ \A i \in 1 .. sctx.offset : sent[i] = buf[i]
    BY <1>1, <2>2 DEF CertInv, TransferFaithful
  <2>4. len \in Nat /\ sctx.offset \in Nat /\ sctx.offset = len
    BY <1>1, <2>2, <2>3 DEF CertInv, TypeOK, StoreTypeOK, Context
  <2>5. serial \in Versions /\ len = CertLen[serial] /\ BufBegins(serial, len)
    BY <1>1, <2>3, <2>4 DEF CertInv, TypeOK, StoreTypeOK, StoreClean
  <2>6. sent \in [1 .. len -> Bytes]
    <3>1. sent \in Seq(Bytes)
      BY <1>1 DEF CertInv, TypeOK, NodeTypeOK, Bytes
    <3> QED
      BY <2>3, <2>4, <3>1, LenProperties
  <2>7. \A i \in 1 .. len : sent[i] = serial
    BY <2>3, <2>4, <2>5 DEF BufBegins
  <2> QED
    BY <2>5, <2>6, <2>7 DEF Whole
<1>2. CertInv /\ [Next]_vars => [Accepts /\ ~dirty => sent = Whole(serial)]_vars
  BY <1>1
<1> QED
  BY <1>2, InitInv, StepInv, PTL DEF Spec, AcceptedIsCurrent

-----------------------------------------------------------------------------
(* The two contexts of the node                                            *)

\* A device certificate is on its way, or the host thread is registering it.
Reading == pending = "device" \/ host = "register"

\* While a device certificate is read or registered its context is live and has
\* all the bytes that fit; the host thread, blocked in the SDK, can neither
\* have a request nor see the end of the connection.
DeviceInv ==
  /\ Reading => dctx = "live" /\ (dlen = came \/ came > DeviceMax)
  /\ host = "register" => pending = "none" /\ link = "up"
  /\ ~fault

ContextInv == CertInv /\ ServerContextFreed /\ DeviceInv

LEMMA ContextInit == Init => ContextInv
BY InitInv DEF Init, ContextInv, ServerContextFreed, DeviceInv, Reading

\* A context that bears an id is not NULL.
LEMMA ContextNotNull == \A ctx \in Context : ctx # NoCtx
OBVIOUS

LEMMA StartedOrAbandoned ==
  ASSUME ContextInv, host = "ready", DeviceReadStart
  PROVE  DeviceInv'
<1>1. dlen' = 0 /\ came' = 0 /\ host' = "ready" /\ fault' = fault
  BY DEF DeviceReadStart, Read, BtFinished, HostReturns, Continues
<1>2. pending' = "device" => dctx' = "live"
  BY DEF DeviceReadStart, Read, BtFinished
<1> QED
  BY <1>1, <1>2 DEF ContextInv, DeviceInv, Reading

\* A fresh context replaces the old one once that has been freed; whatever fails, the
\* context of the device certificate is not touched.
LEMMA WriteStartContexts ==
  ASSUME ContextInv, host = "ready", Freed = 0, NEW allocated, allocated = 0,
         WriteStart(allocated)
  PROVE  ServerContextFreed' /\ DeviceInv'
<1> DEFINE ctx == [id |-> id, offset |-> 0]
<1>1. ctx \in Context
  BY DEF Context, ContextInv, CertInv, TypeOK, StoreTypeOK
<1>2. CASE WriteChunk(ctx, <<>>) /\ contexts' = allocated + 1
  <2>1. sctx' \in Context
    <3>1. <<>> \in Seq(Bytes)
      BY EmptySeq
    <3> HIDE DEF ctx
    <3> QED
      BY <1>1, <1>2, <3>1, ChunkSent DEF ContextInv
  <2>2. ServerContextFreed'
    BY <1>1, <1>2, <2>1, ContextNotNull DEF ServerContextFreed
  <2>3. DeviceInv'
    BY <1>2 DEF WriteChunk, HostReturns, Continues, ContextInv, DeviceInv, Reading
  <2> QED
    BY <2>2, <2>3
<1>3. CASE WriteNothing(ctx) /\ contexts' = allocated + 1
  <2>1. ServerContextFreed'
    BY <1>1, <1>3, ContextNotNull DEF WriteNothing, ServerContextFreed
  <2>2. DeviceInv'
    BY <1>3 DEF WriteNothing, Stop, HostReturns, Continues, ContextInv, DeviceInv, Reading
  <2> QED
    BY <2>1, <2>2
<1>4. CASE Abandon
  BY <1>1, <1>4 DEF Abandon, CleanupServer, BtFinished, HostReturns, ServerContextFreed,
     ContextInv, DeviceInv, Reading
<1> QED
  BY <1>2, <1>3, <1>4 DEF WriteStart

LEMMA WriteResponseContexts ==
  ASSUME ContextInv, WriteResponse
  PROVE  ServerContextFreed' /\ DeviceInv'
<1>1. host = "ready" /\ sctx \in Context /\ sctx # NoCtx /\ Freed = 0
  BY ContextNotNull DEF WriteResponse, ContextInv, CertInv, TransferFaithful, Freed,
     ServerContextFreed
<1>2. CASE WriteChunk(sctx, sent) /\ UNCHANGED contexts
  <2>1. sctx' \in Context
    <3>1. sent \in Seq(Bytes)
      BY DEF ContextInv, CertInv, TypeOK, NodeTypeOK, Bytes
    <3> QED
      BY <1>1, <1>2, <3>1, ChunkSent DEF ContextInv
  <2>2. ServerContextFreed'
    BY <1>1, <1>2, <2>1, ContextNotNull DEF ServerContextFreed, ContextInv
  <2>3. DeviceInv'
    BY <1>2 DEF WriteChunk, HostReturns, Continues, ContextInv, DeviceInv, Reading
  <2> QED
    BY <2>2, <2>3
<1>3. CASE CleanupServer
  <2>1. ServerContextFreed'
    BY <1>1, <1>3 DEF CleanupServer, Freed, ServerContextFreed, ContextInv
  <2>2. ASSUME Abandon PROVE DeviceInv'
    BY <2>2 DEF Abandon, BtFinished, HostReturns, ContextInv, DeviceInv, Reading
  <2>3. ASSUME Restart PROVE DeviceInv'
    BY <1>1, <2>3, WriteStartContexts DEF Restart
  <2>4. ASSUME WriteChunk(sctx, sent) PROVE DeviceInv'
    BY <2>4 DEF WriteChunk, HostReturns, Continues, ContextInv, DeviceInv, Reading
  <2>5. ASSUME DeviceReadStart PROVE DeviceInv'
    BY <1>1, <2>5, StartedOrAbandoned
  <2> QED
    BY <2>1, <2>2, <2>3, <2>4, <2>5 DEF WriteResponse
<1>4. CASE Restart
  BY <1>1, <1>4, WriteStartContexts DEF Restart
<1> QED
  BY <1>2, <1>3, <1>4 DEF WriteResponse, Abandon

LEMMA SerialReadContexts ==
  ASSUME ContextInv, SerialRead
  PROVE  ServerContextFreed' /\ DeviceInv'
<1>1. host = "ready" /\ sctx = NoCtx /\ contexts = 0 /\ Freed = 0
  BY DEF SerialRead, ContextInv, ServerContextFreed, CertInv, TransferFaithful, Freed
<1>2. CASE DeviceReadStart /\ UNCHANGED <<sctx, contexts>>
  BY <1>1, <1>2, StartedOrAbandoned DEF ServerContextFreed
<1>3. CASE WriteStart(contexts)
  BY <1>1, <1>3, WriteStartContexts
<1>4. CASE Read("serial", packets + 1) /\ UNCHANGED <<deviceVars, serverVars>>
  BY <1>1, <1>4 DEF Read, HostReturns, Continues, serverVars, deviceVars,
     ServerContextFreed, ContextInv, DeviceInv, Reading
<1>5. CASE Abandon
  BY <1>1, <1>5 DEF Abandon, CleanupServer, Freed, BtFinished, HostReturns,
     ServerContextFreed, ContextInv, DeviceInv, Reading
<1>6. CASE Stop /\ UNCHANGED <<deviceVars, serverVars>>
  BY <1>1, <1>6 DEF Stop, HostReturns, Continues, serverVars, deviceVars,
     ServerContextFreed, ContextInv, DeviceInv, Reading
<1> QED
  BY <1>2, <1>3, <1>4, <1>5, <1>6 DEF SerialRead

LEMMA DevicePacketContexts ==
  ASSUME ContextInv, host = "ready", pending = "device", link' = link,
         NEW n \in Payloads, NEW last \in BOOLEAN, DevicePacket(n, last)
  PROVE  DeviceInv'
<1>1. dctx = "live" /\ (dlen = came \/ came > DeviceMax) /\ ~fault
  BY DEF ContextInv, DeviceInv, Reading
<1>2. dlen \in Nat /\ came \in Nat /\ n \in Nat /\ DeviceMax \in Nat
  BY DEF ContextInv, CertInv, TypeOK, NodeTypeOK
<1>3. dlen' = came' \/ came' > DeviceMax
  BY <1>1, <1>2 DEF DevicePacket, Push, Fits
<1>4. link = "up"
  BY DEF DevicePacket
<1>5. CASE last
  BY <1>1, <1>3, <1>4, <1>5 DEF DevicePacket, Continues, DeviceInv, Reading
<1>6. CASE dctx' = dctx /\ Read("device", packets + 1)
  BY <1>1, <1>3, <1>6 DEF Read, HostReturns, Continues, DeviceInv, Reading
<1>7. CASE dctx' = "null" /\ BtFinished /\ UNCHANGED fault
  BY <1>1, <1>7 DEF BtFinished, HostReturns, DeviceInv, Reading
<1> QED
  BY <1>5, <1>6, <1>7 DEF DevicePacket

LEMMA DeviceReadContexts ==
  ASSUME ContextInv, DeviceRead
  PROVE  ServerContextFreed' /\ DeviceInv'
<1>1. /\ host = "ready" /\ pending = "device" /\ dctx = "live" /\ ~fault
      /\ link' = link
  BY DEF DeviceRead, linkVars, ContextInv, DeviceInv, Reading
<1>2. ServerContextFreed'
  BY DEF DeviceRead, serverVars, ServerContextFreed, ContextInv
<1>3. ASSUME NEW n \in Payloads, NEW last \in BOOLEAN, DevicePacket(n, last)
      PROVE  DeviceInv'
  BY <1>1, <1>3, DevicePacketContexts
<1>4. CASE FreeDevice /\ BtFinished
  BY <1>1, <1>2, <1>4 DEF FreeDevice, BtFinished, HostReturns, DeviceInv, Reading
<1>5. CASE Stop /\ UNCHANGED deviceVars
  BY <1>1, <1>2, <1>5 DEF Stop, HostReturns, Continues, DeviceInv, Reading,
     deviceVars
<1> QED
  BY <1>2, <1>3, <1>4, <1>5 DEF DeviceRead

LEMMA ContextStep == ContextInv /\ [Next]_vars => ContextInv'
<1> SUFFICES ASSUME ContextInv, [Next]_vars PROVE ServerContextFreed' /\ DeviceInv'
  BY StepInv DEF ContextInv
<1> USE DEF ServerContextFreed, DeviceInv, Reading
<1>1. CASE Update
  <2>1. UNCHANGED <<linkVars, nodeVars>>
    BY <1>1 DEF Update, OnConnected, Download, DownloadFails, ParseAndSetSerial, SetLen,
       IncId
  <2> QED
    BY <2>1 DEF ContextInv, linkVars, nodeVars, deviceVars, serverVars
<1>2. CASE SerialRead
  BY <1>2, SerialReadContexts
<1>3. CASE WriteResponse
  BY <1>3, WriteResponseContexts
<1>4. CASE DeviceRead
  BY <1>4, DeviceReadContexts
<1>5. ASSUME NEW ok \in BOOLEAN, Registered(ok) PROVE ServerContextFreed' /\ DeviceInv'
  <2>1. dctx = "live" /\ ~fault /\ pending' = "none" /\ host' = "ready"
    BY <1>5 DEF Registered, BtFinished, HostReturns, ContextInv
  <2>2. ~fault'
    BY <1>5, <2>1 DEF Registered, AfterFinish
  <2>3. UNCHANGED <<sctx, contexts>>
    BY <1>5 DEF Registered, serverVars
  <2> QED
    BY <2>1, <2>2, <2>3 DEF ContextInv
<1>6. CASE Connect
  <2>1. host # "register" /\ host' = host /\ fault' = fault
    BY <1>6 DEF Connect, ContextInv
  <2>2. pending' # "device" /\ sctx' = NoCtx /\ contexts' = 0
    BY <1>6 DEF Connect
  <2> QED
    BY <2>1, <2>2 DEF ContextInv
<1>7. CASE Disconnect
  BY <1>7 DEF Disconnect, ContextInv, nodeVars, deviceVars, serverVars
<1>8. CASE BtStop
  BY <1>8 DEF BtStop, ContextInv, nodeVars, deviceVars, serverVars
<1>9. CASE UNCHANGED vars
  BY <1>9 DEF vars, ContextInv, linkVars, nodeVars, deviceVars, serverVars
<1> QED
  BY <1>1, <1>2, <1>3, <1>4, <1>5, <1>6, <1>7, <1>8, <1>9 DEF Next, Answer

\* What an exchange allocates is freed once: node->server_cert_ctx is never overwritten
\* while it points to a context, also when an update makes the transfer start again, and
\* pouch_gateway_device_cert_finish and device_cert_cleanup never both free the context
\* of a device certificate.
THEOREM ContextsAlwaysFreedOnce == Spec => []ContextsFreedOnce
<1>1. ContextInv => ContextsFreedOnce
  BY DEF ContextInv, DeviceInv, NoDoubleFree, ContextsFreedOnce
<1> QED
  BY <1>1, ContextInit, ContextStep, PTL DEF Spec

\* The certificate that is registered is all that the device has sent, for every
\* size of the buffer and of the packets, if the buffer can hold it.
THEOREM DeviceCertAlwaysWhole == Spec => []DeviceCertWhole
<1>1. ContextInv => DeviceCertWhole
  BY DEF ContextInv, DeviceInv, Reading, DeviceCertWhole
<1> QED
  BY <1>1, ContextInit, ContextStep, PTL DEF Spec
=============================================================================
