----------------------------- MODULE MuxFraming -----------------------------
(***************************************************************************)
(* The MUX packets of class WebUsbMux (src/pairing/webusb-mux.ts): how     *)
(* they are cut out of the transfers of the read loop and handled one      *)
(* after the other, in the format that was negotiated by then, and how     *)
(* those of all streams are numbered and written one after the other.      *)
(*                                                                         *)
(* A byte is its packet and its place in it.  The device's lengths are     *)
(* valid: what a length out of range makes of a buffer is not modelled.    *)
(***************************************************************************)
EXTENDS Integers, Sequences, SequencesExt

CONSTANTS
  LegacyHeader,  \* bytes of a legacy header; its last one has the length
  V2Header,      \* bytes of a version 2 header
  Payloads,      \* payload lengths of the device's packets
  TransferSize,  \* bound: bytes of one transferIn
  SeqLimit,      \* sequence numbers are modulo this, 2^16 in the code
  MaxDevice,     \* bound: packets of the device
  MaxHost        \* bound: packets of the host

ASSUME MuxFramingAssumption ==
  /\ LegacyHeader \in Nat \ {0} /\ V2Header \in Nat /\ V2Header > LegacyHeader
  /\ Payloads \subseteq Nat /\ TransferSize \in Nat \ {0} /\ SeqLimit \in Nat \ {0}
  /\ MaxDevice \in Nat /\ MaxHost \in Nat

VARIABLES
  muxDevice,     \* packets that the device has sent: [protocol, v2, size]
  pipe,       \* bytes that the read loop has not taken
  readBuffer,
  packets,    \* packetChain: packets to handle
  handled,    \* packets handled: [no, v2, size]
  version,    \* muxVersion >= 2
  txSeq,      \* muxTxSeq
  writes,     \* writeChain: packets to write, [no, v2, seq]
  wire,       \* what transferOut took
  framesSent        \* packets numbered since the SETUP packet

framingVars == <<muxDevice, pipe, readBuffer, packets, handled, version, txSeq, writes, wire, framesSent>>

FramingInit ==
  /\ muxDevice = <<>> /\ pipe = <<>> /\ readBuffer = <<>> /\ packets = <<>> /\ handled = <<>>
  /\ version = FALSE /\ txSeq = 0 /\ writes = <<>> /\ wire = <<>> /\ framesSent = 0

HeaderSize(v2) == IF v2 THEN V2Header ELSE LegacyHeader

-----------------------------------------------------------------------------
(* From the device                                                         *)

\* external: a VERSION answer, one more to a request that was repeated, or,
\* after the first, a packet of a stream
DeviceWrites ==
  /\ Len(muxDevice) < MaxDevice
  /\ \E protocol \in {"version", "tcp"}, n \in Payloads :
       LET v2 == protocol = "tcp"
           size == HeaderSize(v2) + n
       IN /\ muxDevice = <<>> => protocol = "version"
          /\ muxDevice' = Append(muxDevice, [protocol |-> protocol, v2 |-> v2, size |-> size])
          /\ pipe' = pipe \o [i \in 1..size |-> [no |-> Len(muxDevice'), at |-> i]]
  /\ UNCHANGED <<readBuffer, packets, handled, version, txSeq, writes, wire, framesSent>>

\* the length field of the header after the first p bytes of the buffer
LengthField(buf, p) == muxDevice[buf[p + LegacyHeader].no].size

\* the test of the loop: a header is there, and all of its packet
Complete(buf, p) ==
  p + LegacyHeader <= Len(buf) /\ p + LengthField(buf, p) <= Len(buf)

\* drainMuxPackets(): `offset` after each turn of the loop
PacketOffset(buf) ==
  LET offset[i \in 0..Len(buf)] ==
        IF i = 0 THEN 0
        ELSE IF Complete(buf, offset[i - 1])
             THEN offset[i - 1] + LengthField(buf, offset[i - 1])
             ELSE offset[i - 1]
  IN offset

\* readLoop() and onUsbData(): one transfer, which completes k packets
Transfer ==
  /\ \E n \in 1..TransferSize :
       /\ n <= Len(pipe)
       /\ LET buf == readBuffer \o SubSeq(pipe, 1, n)
              offset == PacketOffset(buf)
          IN \E k \in 0..Len(buf) :
               /\ \A i \in 0..(k - 1) : Complete(buf, offset[i])
               /\ ~Complete(buf, offset[k])
               /\ packets' = packets \o
                    [i \in 1..k |-> SubSeq(buf, offset[i - 1] + 1, offset[i])]
               /\ readBuffer' = SubSeq(buf, offset[k] + 1, Len(buf))
       /\ pipe' = SubSeq(pipe, n + 1, Len(pipe))
  /\ UNCHANGED <<muxDevice, handled, version, txSeq, writes, wire, framesSent>>

\* (mutant) also a VERSION packet has the header of the version
DecodesSame(packet) == version

\* which header handleMuxPacket() decodes: a VERSION packet's is legacy
Decodes(packet) == version /\ muxDevice[packet[1].no].protocol # "version"

\* handleMuxPacket(), when the packets before it are done
Handle ==
  /\ packets # <<>>
  /\ LET packet == Head(packets)
     IN /\ handled' = Append(handled, [no |-> packet[1].no, v2 |-> Decodes(packet),
                                       size |-> Len(packet)])
        /\ version' = (version \/ muxDevice[packet[1].no].protocol = "version")
  /\ packets' = Tail(packets)
  /\ UNCHANGED <<muxDevice, pipe, readBuffer, txSeq, writes, wire, framesSent>>

-----------------------------------------------------------------------------
(* To the device                                                           *)

\* (mutant) the number is not kept to its 16 bits
NextSeqUnmasked(seq) == seq + 1

NextSeq(seq) == (seq + 1) % SeqLimit

\* sendMuxPacket(): encodes the packet, takes its number and joins the chain;
\* the first one in version 2 is SETUP, which starts the numbers
SendMux ==
  LET seq == IF framesSent = 0 THEN 0 ELSE txSeq
  IN /\ framesSent < MaxHost /\ version
     /\ writes' = Append(writes, [no |-> framesSent, v2 |-> version, seq |-> seq])
     /\ txSeq' = NextSeq(seq)
     /\ framesSent' = framesSent + 1
     /\ UNCHANGED <<muxDevice, pipe, readBuffer, packets, handled, version, wire>>

\* (mutant) whatever is to be written is
NextWriteAny(i) == i \in DOMAIN writes

\* the next write
NextWrite(i) == i = 1

\* transferOut() of the next packet, which can fail without breaking the chain
Transmit ==
  /\ \E i \in DOMAIN writes, ok \in BOOLEAN :
       /\ NextWrite(i)
       /\ writes' = RemoveAt(writes, i)
       /\ wire' = IF ok THEN Append(wire, writes[i]) ELSE wire
  /\ UNCHANGED <<muxDevice, pipe, readBuffer, packets, handled, version, txSeq, framesSent>>

FramingNext == DeviceWrites \/ Transfer \/ Handle \/ SendMux \/ Transmit

FramingSpec == FramingInit /\ [][FramingNext]_framingVars

-----------------------------------------------------------------------------
(* Properties                                                              *)

FramingTypeOK ==
  /\ Len(muxDevice) <= MaxDevice /\ framesSent <= MaxHost /\ txSeq \in 0..(SeqLimit - 1)
  /\ version \in BOOLEAN

\* However its bytes fall into transfers, each packet of the device is handled
\* once, whole, in turn, and with the header that it was sent with, also when it
\* came in one transfer with the VERSION answer or after a late one; and what is
\* written bears the numbers in the order of the wire, a failed write being a gap.
FramesInTurn ==
  /\ \A i \in DOMAIN handled :
       handled[i] = [no |-> i, v2 |-> muxDevice[i].v2, size |-> muxDevice[i].size]
  /\ \A i \in DOMAIN wire :
       /\ wire[i].seq = wire[i].no % SeqLimit
       /\ i > 1 => wire[i - 1].no < wire[i].no

=============================================================================
