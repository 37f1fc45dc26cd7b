------------------------------- MODULE MuxTcp -------------------------------
(***************************************************************************)
(* One TCP-over-MUX stream: class MuxTcpConnection of                      *)
(* src/pairing/webusb-mux.ts, between its callers (open, write, readExact, *)
(* close), the demultiplexer that feeds it packets (handlePacket) and the  *)
(* serialised USB writes its `sink` ends in.                               *)
(*                                                                         *)
(* An action is one synchronous stretch of JavaScript: the code up to an   *)
(* await, or the code after it.  A call of sendFrame computes its header   *)
(* at once and queues it in outq (the writeChain); the frame reaches the   *)
(* device (Deliver) strictly before the awaiting code resumes (Settle), so *)
(* a reply may be handled in between.                                      *)
(*                                                                         *)
(* Bytes are positions in the device's stream: rxLen bytes are buffered    *)
(* after the rxTaken bytes already handed to readers.                      *)
(***************************************************************************)
EXTENDS Integers, Sequences

CONSTANTS
  Reads,      \* the readExact calls made on the connection
  Writes,     \* the write calls made on the connection
  MaxChunk,   \* bound: the largest payload or read length
  MaxBytes,   \* bound: bytes the device sends
  Modulus,    \* sequence numbers wrap here (2^32 in the code: ">>> 0")
  Faults,     \* can a transferOut fail while the device stays plugged in?
  Overlap     \* do callers start a write before the previous one settled?

ASSUME MuxTcpAssumption ==
  /\ MaxChunk \in Nat \ {0}
  /\ MaxBytes \in Nat
  /\ Modulus \in Nat \ {0, 1}
  /\ Faults \in BOOLEAN
  /\ Overlap \in BOOLEAN
  /\ Writes \cap {"open", "handler", "close"} = {}

VARIABLES
  state,        \* MuxTcpState
  txSeq, txAck,
  rxLen,        \* rxBuffer.byteLength
  rxTaken,      \* bytes taken out of rxBuffer so far
  pendingReads, \* sequence of [r, n]
  reads,        \* what each readExact call has come to
  writes,       \* what each write call has come to
  opener,       \* open(): not called, awaiting the SYN, armed waiter, settled
  timer,        \* connectTimer # null
  handling,     \* the handlePacket call awaiting its ACK frame, if any
  outq,         \* frames handed to sink and not settled, oldest first
  atDevice,     \* has the device received Head(outq)?
  inq,          \* packets read from USB and not yet handled (packetChain)
  usb,          \* is the device plugged in?
  devState, devSent,  \* the device's end: its state and the bytes it sent
  devData, devGot,    \* data bytes and the writes it accepted in sequence
  devAck              \* the last acknowledgement it saw

connVars == <<state, txSeq, txAck>>
rxVars   == <<rxLen, rxTaken, pendingReads, reads>>
openVars == <<opener, timer>>
devVars  == <<devState, devSent, devData, devGot, devAck>>
vars == <<connVars, rxVars, openVars, devVars, writes, handling, outq,
          atDevice, inq, usb>>

Sizes == 1..MaxChunk
Settled == {"resolved", "rejected"}

Init ==
  /\ state = "connecting" /\ txSeq = 0 /\ txAck = 0
  /\ rxLen = 0 /\ rxTaken = 0 /\ pendingReads = <<>>
  /\ reads = [r \in Reads |-> [st |-> "new", from |-> 0, n |-> 0]]
  /\ writes = [w \in Writes |-> "new"]
  /\ opener = "idle" /\ timer = FALSE /\ handling = "none"
  /\ outq = <<>> /\ atDevice = FALSE /\ inq = <<>> /\ usb = "up"
  /\ devState = "listen" /\ devSent = 0
  /\ devData = 0 /\ devGot = {} /\ devAck = 0

-----------------------------------------------------------------------------
(* Helpers                                                                 *)

\* The header sendFrame builds from the current counters, and its payload.
Frame(flags, seq, ack, len, by) ==
  [flags |-> flags, seq |-> seq, ack |-> ack, len |-> len, by |-> by]

SendFrame(f) == outq' = Append(outq, f)

\* (mutant) a counter that does not wrap
AdvanceUnbounded(seq, n) == seq + n

\* `(seq + n) >>> 0`
Advance(seq, n) == (seq + n) % Modulus

\* (mutant) terminate() forgets the readers
TerminateKeepsReads ==
  /\ state' = "closed"
  /\ timer' = FALSE
  /\ opener' = IF opener = "armed" THEN "rejected" ELSE opener
  /\ UNCHANGED <<txSeq, txAck, rxVars>>

\* terminate(): fails the armed open() and every pending read.
Terminate ==
  /\ state' = "closed"
  /\ timer' = FALSE
  /\ opener' = IF opener = "armed" THEN "rejected" ELSE opener
  /\ pendingReads' = <<>>
  /\ reads' = [r \in Reads |-> IF reads[r].st = "pending"
                                 THEN [reads[r] EXCEPT !.st = "error"]
                                 ELSE reads[r]]
  /\ UNCHANGED <<txSeq, txAck, rxLen, rxTaken>>

\* The i-th waiter is served the bytes between cut[i - 1] and cut[i].
CutFor(k, cut) ==
  cut[0] = 0 /\ \A i \in 1..k : cut[i] = cut[i - 1] + pendingReads[i].n

\* (mutant) `<=` for `<` in the loop's test
PumpStopsShort(k, cut, avail) ==
  /\ CutFor(k, cut)
  /\ k < Len(pendingReads) => cut[k] + pendingReads[k + 1].n >= avail

\* pumpReads() stops after resolving k waiters when `avail` bytes are there.
PumpStops(k, cut, avail) ==
  /\ CutFor(k, cut)
  /\ k < Len(pendingReads) => cut[k] + pendingReads[k + 1].n > avail

\* (mutant) the buffer is not trimmed between two readers
OffsetUntrimmed(cut, i) == rxTaken

\* Where takeBytes() cuts the segment of the i-th waiter served.
Offset(cut, i) == rxTaken + cut[i - 1]

\* pumpReads() with `avail` bytes buffered resolves the first k waiters.
PumpReads(k, cut, avail) ==
  /\ PumpStops(k, cut, avail)
  /\ rxLen' = avail - cut[k]
  /\ rxTaken' = rxTaken + cut[k]
  /\ pendingReads' = SubSeq(pendingReads, k + 1, Len(pendingReads))
  /\ reads' = [r \in Reads |->
       IF \E i \in 1..k : pendingReads[i].r = r
         THEN LET i == CHOOSE i \in 1..k : pendingReads[i].r = r
              IN  [reads[r] EXCEPT !.st = "ok", !.from = Offset(cut, i)]
         ELSE reads[r]]

\* appendRx(): buffers len bytes, then pumpReads().
AppendRx(len) ==
  \E k \in 0..Len(pendingReads) : \E cut \in [0..k -> 0..(rxLen + len)] :
    PumpReads(k, cut, rxLen + len)

\* Is the connection still in WebUsbMux.connections?  connect() and
\* onTerminated delete it as soon as it fails.
InTable == opener \notin {"idle", "rejected"} /\ state # "closed"

-----------------------------------------------------------------------------
(* Calls made by the owner of the connection                               *)

\* open() up to `await this.sendFrame(TCP_FLAG_SYN, EMPTY)`.
Open ==
  /\ opener = "idle"
  /\ opener' = "syn"
  /\ SendFrame(Frame("SYN", txSeq, txAck, 0, "open"))
  /\ UNCHANGED <<connVars, rxVars, devVars, timer, writes, handling,
                 atDevice, inq, usb>>

\* The connect timer fires while the waiter is armed.
ConnectTimeout ==
  /\ timer
  /\ Terminate
  /\ UNCHANGED <<devVars, writes, handling, outq, atDevice, inq, usb>>

\* write(): connect() hands the connection out only once open() resolved.
Write(w, n) ==
  /\ opener = "resolved"
  /\ writes[w] = "new"
  /\ Overlap \/ \A v \in Writes : writes[v] # "sending"
  /\ IF state = "connected"
       THEN /\ writes' = [writes EXCEPT ![w] = "sending"]
            /\ SendFrame(Frame("ACK", txSeq, txAck, n, w))
       ELSE /\ writes' = [writes EXCEPT ![w] = "error"]
            /\ UNCHANGED outq
  /\ UNCHANGED <<connVars, rxVars, openVars, devVars, handling, atDevice,
                 inq, usb>>

\* (mutant) takeBytes() leaves the bytes in the buffer
TakeUntrimmed(r, n) ==
  /\ reads' = [reads EXCEPT ![r] = [st |-> "ok", from |-> rxTaken, n |-> n]]
  /\ rxTaken' = rxTaken + n
  /\ UNCHANGED rxLen

\* takeBytes(n) for a reader that need not wait.
TakeBytes(r, n) ==
  /\ reads' = [reads EXCEPT ![r] = [st |-> "ok", from |-> rxTaken, n |-> n]]
  /\ rxLen' = rxLen - n
  /\ rxTaken' = rxTaken + n

\* readExact(n): from the buffer at once, else an error, else a waiter.
ReadExact(r, n) ==
  /\ opener = "resolved"
  /\ reads[r].st = "new"
  /\ \/ /\ rxLen >= n
        /\ TakeBytes(r, n)
        /\ UNCHANGED pendingReads
     \/ /\ rxLen < n
        /\ state = "closed"
        /\ reads' = [reads EXCEPT ![r] = [st |-> "error", from |-> 0, n |-> n]]
        /\ UNCHANGED <<rxLen, rxTaken, pendingReads>>
     \/ /\ rxLen < n
        /\ state # "closed"
        /\ reads' = [reads EXCEPT ![r] = [st |-> "pending", from |-> 0, n |-> n]]
        /\ pendingReads' = Append(pendingReads, [r |-> r, n |-> n])
        /\ UNCHANGED <<rxLen, rxTaken>>
  /\ UNCHANGED <<connVars, openVars, devVars, writes, handling, outq,
                 atDevice, inq, usb>>

\* close(): an RST nobody awaits, then terminate().  Called by the owner and,
\* at any time after open() was called, by WebUsbMux.close().
Close ==
  /\ InTable
  /\ SendFrame(Frame("RST", txSeq, txAck, 0, "close"))
  /\ Terminate
  /\ UNCHANGED <<devVars, writes, handling, atDevice, inq, usb>>

\* abort(): handleDisconnect() aborts every connection still in the table.
Disconnect ==
  /\ usb = "up"
  /\ opener # "idle"
  /\ usb' = "down"
  /\ IF InTable THEN Terminate ELSE UNCHANGED <<connVars, rxVars, openVars>>
  /\ UNCHANGED <<devVars, writes, handling, outq, atDevice, inq>>

-----------------------------------------------------------------------------
(* handlePacket(): packetChain runs one call at a time, to its last await  *)

Connecting(p) ==
  \/ /\ p.kind = "SYNACK"
     /\ txSeq' = Advance(txSeq, 1)
     /\ txAck' = Advance(p.seq, 1)
     /\ state' = "connected"
     /\ timer' = FALSE
     /\ handling' = "synack"
     /\ SendFrame(Frame("ACK", txSeq', txAck', 0, "handler"))
     /\ UNCHANGED <<rxVars, opener>>
  \/ /\ p.kind = "RST"
     /\ Terminate
     /\ UNCHANGED <<handling, outq>>
  \/ /\ p.kind = "DATA"
     /\ UNCHANGED <<connVars, rxVars, openVars, handling, outq>>

\* (mutant) the ACK is built before txAck is updated
DataStaleAck(p) ==
  /\ txAck' = Advance(p.seq, p.len)
  /\ AppendRx(p.len)
  /\ handling' = "data"
  /\ SendFrame(Frame("ACK", txSeq, txAck, 0, "handler"))

\* A data segment is buffered, then acknowledged.
Data(p) ==
  /\ txAck' = Advance(p.seq, p.len)
  /\ AppendRx(p.len)
  /\ handling' = "data"
  /\ SendFrame(Frame("ACK", txSeq, txAck', 0, "handler"))

Connected(p) ==
  \/ /\ p.kind = "RST"
     /\ Terminate
     /\ UNCHANGED <<handling, outq>>
  \/ /\ p.kind = "DATA"
     /\ Data(p)
     /\ UNCHANGED <<state, txSeq, openVars>>
  \/ /\ p.kind = "SYNACK"
     /\ UNCHANGED <<connVars, rxVars, openVars, handling, outq>>

HandlePacket ==
  /\ inq # <<>>
  /\ handling = "none"
  /\ inq' = Tail(inq)
  /\ \/ InTable /\ state = "connecting" /\ Connecting(Head(inq))
     \/ InTable /\ state = "connected" /\ Connected(Head(inq))
     \/ ~InTable /\ UNCHANGED <<connVars, rxVars, openVars, handling, outq>>
  /\ UNCHANGED <<devVars, writes, atDevice, usb>>

-----------------------------------------------------------------------------
(* The serialised USB writes, and the device at the other end              *)

Receive(p) == inq' = Append(inq, p)

Packet(kind, seq, len) == [kind |-> kind, seq |-> seq, len |-> len]

\* What the device does with a SYN: accept, refuse or stay silent.
DeviceSyn ==
  \/ /\ devState = "listen"
     /\ devState' = "open"
     /\ Receive(Packet("SYNACK", 0, 0))
  \/ Receive(Packet("RST", 0, 0)) /\ UNCHANGED devState
  \/ UNCHANGED <<devState, inq>>

\* The device accepts data that continues its stream and drops the rest.
DeviceAck(f) ==
  /\ devAck' = f.ack
  /\ IF f.len > 0 /\ devState = "open" /\ f.seq = (1 + devData) % Modulus
       THEN devData' = devData + f.len /\ devGot' = devGot \cup {f.by}
       ELSE UNCHANGED <<devData, devGot>>

\* transferOut of the oldest frame reaches the device.
Deliver ==
  /\ usb = "up" /\ outq # <<>> /\ ~atDevice
  /\ atDevice' = TRUE
  /\ LET f == Head(outq) IN
     \/ f.flags = "SYN" /\ DeviceSyn /\ UNCHANGED <<devData, devGot, devAck>>
     \/ f.flags = "ACK" /\ DeviceAck(f) /\ UNCHANGED <<devState, inq>>
     \/ /\ f.flags = "RST"
        /\ devState' = "closed"
        /\ UNCHANGED <<devData, devGot, devAck, inq>>
  /\ UNCHANGED <<connVars, rxVars, openVars, devSent, writes, handling,
                 outq, usb>>

Dequeue == outq' = Tail(outq) /\ atDevice' = FALSE

\* open() after its SYN was sent.
OpenSent ==
  /\ opener' = CASE state = "connected" -> "resolved"
                 [] state = "closed" -> "rejected"
                 [] OTHER -> "armed"
  /\ timer' = (state = "connecting")

\* (mutant) the waiter is not resolved
AckSentForgets == handling' = "none" /\ UNCHANGED openVars

\* handlePacket() after its ACK was sent: after a SYN+ACK it resolves the
\* waiter that open() has armed, if any.
AckSent ==
  /\ opener' = IF handling = "synack" /\ opener = "armed" THEN "resolved" ELSE opener
  /\ handling' = "none"
  /\ UNCHANGED timer

\* (mutant) the sequence number is not advanced
WriteSentSameSeq(w, len) ==
  /\ writes' = [writes EXCEPT ![w] = "ok"]
  /\ UNCHANGED txSeq

\* sendFrame() advances txSeq after the await, then write() resolves.
WriteSent(w, len) ==
  /\ txSeq' = Advance(txSeq, len)
  /\ writes' = [writes EXCEPT ![w] = "ok"]

\* The code that awaits the oldest frame resumes.
Settle ==
  /\ outq # <<>> /\ atDevice
  /\ Dequeue
  /\ LET f == Head(outq) IN
     \/ f.by = "open" /\ OpenSent /\ UNCHANGED <<txSeq, writes, handling>>
     \/ f.by = "handler" /\ AckSent /\ UNCHANGED <<txSeq, writes>>
     \/ f.by = "close" /\ UNCHANGED <<txSeq, writes, openVars, handling>>
     \/ /\ f.by \in Writes
        /\ WriteSent(f.by, f.len)
        /\ UNCHANGED <<openVars, handling>>
  /\ UNCHANGED <<state, txAck, rxVars, devVars, inq, usb>>

\* The transfer fails: the device is gone, or (Faults) transferOut reports a
\* status other than "ok".
SettleFail ==
  /\ outq # <<>> /\ ~atDevice
  /\ Faults \/ usb = "down"
  /\ Dequeue
  /\ LET by == Head(outq).by IN
     \/ by = "open" /\ opener' = "rejected" /\ UNCHANGED <<writes, handling>>
     \/ by = "handler" /\ handling' = "none" /\ UNCHANGED <<writes, opener>>
     \/ by = "close" /\ UNCHANGED <<writes, opener, handling>>
     \/ /\ by \in Writes
        /\ writes' = [writes EXCEPT ![by] = "error"]
        /\ UNCHANGED <<opener, handling>>
  /\ UNCHANGED <<connVars, rxVars, timer, devVars, inq, usb>>

\* The device sends len bytes of its stream.
DeviceData(len) ==
  /\ usb = "up" /\ devState = "open"
  /\ devSent + len <= MaxBytes
  /\ Receive(Packet("DATA", (1 + devSent) % Modulus, len))
  /\ devSent' = devSent + len
  /\ UNCHANGED <<connVars, rxVars, openVars, devState, devData, devGot, devAck,
                 writes, handling, outq, atDevice, usb>>

\* The device gives the connection up.
DeviceReset ==
  /\ usb = "up" /\ devState = "open"
  /\ devState' = "closed"
  /\ Receive(Packet("RST", 0, 0))
  /\ UNCHANGED <<connVars, rxVars, openVars, devSent, devData, devGot, devAck,
                 writes, handling, outq, atDevice, usb>>

-----------------------------------------------------------------------------
Next ==
  \/ Open \/ ConnectTimeout \/ Close \/ Disconnect
  \/ \E w \in Writes, n \in Sizes : Write(w, n)
  \/ \E r \in Reads, n \in Sizes : ReadExact(r, n)
  \/ HandlePacket \/ Deliver \/ Settle \/ SettleFail
  \/ \E len \in Sizes : DeviceData(len)
  \/ DeviceReset

Spec == Init /\ [][Next]_vars

\* The event loop runs what is ready, the timer fires, and a transferOut
\* comes to an end; callers and the device owe nothing.
Fairness ==
  /\ WF_vars(Deliver \/ SettleFail)
  /\ WF_vars(Settle)
  /\ WF_vars(HandlePacket)
  /\ WF_vars(ConnectTimeout)

FairSpec == Spec /\ Fairness

-----------------------------------------------------------------------------
(* Properties                                                              *)

ReadStates == {"new", "pending", "ok", "error"}
WriteStates == {"new", "sending", "ok", "error"}
Owners == {"open", "handler", "close"} \cup Writes
FrameType == [flags : {"SYN", "ACK", "RST"}, seq : Nat, ack : Nat, len : Nat,
              by : Owners]
PacketType == [kind : {"SYNACK", "RST", "DATA"}, seq : Nat, len : Nat]

\* Every variable holds a value of its type.
TypeOK ==
  /\ state \in {"connecting", "connected", "closed"}
  /\ txSeq \in 0..(Modulus - 1) /\ txAck \in 0..(Modulus - 1)
  /\ rxLen \in Nat /\ rxTaken \in Nat
  /\ pendingReads \in Seq([r : Reads, n : Sizes])
  /\ reads \in [Reads -> [st : ReadStates, from : Nat, n : Nat]]
  /\ writes \in [Writes -> WriteStates]
  /\ opener \in {"idle", "syn", "armed", "resolved", "rejected"}
  /\ timer \in BOOLEAN
  /\ handling \in {"none", "synack", "data"}
  /\ outq \in Seq(FrameType)
  /\ atDevice \in BOOLEAN
  /\ inq \in Seq(PacketType)
  /\ usb \in {"up", "down"}
  /\ devState \in {"listen", "open", "closed"}
  /\ devSent \in Nat /\ devData \in Nat /\ devAck \in Nat
  /\ devGot \subseteq Owners

\* A reader never sleeps on bytes that are already buffered: when readExact
\* leaves a waiter and appendRx runs pumpReads, the first waiter still needs
\* more than the buffer holds.
NoLostWakeup == pendingReads # <<>> => rxLen < Head(pendingReads).n

\* Whatever ends the connection (RST, timeout, close, unplugging) settles the
\* open() that waits and every pending read, and stops the timer.
NoOrphanedWaiters ==
  state = "closed" =>
    /\ pendingReads = <<>> /\ \A r \in Reads : reads[r].st # "pending"
    /\ opener # "armed" /\ ~timer

\* The acknowledgement the host sends next counts exactly the bytes it took
\* out of the stream: those handed to readers and those still buffered.
AckExact ==
  state = "connected" => txAck = (1 + rxTaken + rxLen) % Modulus

\* Without failed transfers, an idle link means that the device has seen
\* every byte it sent acknowledged.
EveryByteAcked ==
  (state = "connected" /\ outq = <<>> /\ inq = <<>>)
    => devAck = (1 + devSent) % Modulus

\* A write that resolved was accepted by the device as the continuation of
\* its stream: no sequence number is reused or skipped.
WritesAccepted ==
  \A w \in Writes : writes[w] = "ok" /\ devState = "open" => w \in devGot

\* The segments handed to readers partition the bytes taken from the stream:
\* no byte is lost, read twice or torn out of order between two readers.
ReadsPartition ==
  \A b \in 0..(rxTaken - 1) :
    \E r \in Reads :
      /\ reads[r].st = "ok" /\ b \in reads[r].from..(reads[r].from + reads[r].n - 1)
      /\ \A q \in Reads \ {r} :
           reads[q].st = "ok" =>
             b \notin reads[q].from..(reads[q].from + reads[q].n - 1)

\* open() settles once it was called: at the SYN+ACK, the refusal, the
\* timeout, the disconnect or a failed transfer ("Sends SYN and resolves once
\* the SYN+ACK handshake completes", with a timeout per attempt).
OpenSettles == opener \in {"syn", "armed"} ~> opener \in Settled

=============================================================================
