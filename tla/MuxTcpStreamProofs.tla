------------------------- MODULE MuxTcpStreamProofs -------------------------
(***************************************************************************)
(* The sequence and acknowledgement numbers of a connection against the    *)
(* bytes both ends have sent and taken, for any modulus:                   *)
(*                                                                         *)
(*   AcknowledgesWhatItTook  txAck counts the bytes taken from the device; *)
(*   WritesAreAccepted       txSeq counts the bytes the device took;       *)
(*   NoByteUnacknowledged    the device learns of everything that was      *)
(*                           taken.                                        *)
(*                                                                         *)
(* And the bytes themselves, which do not wrap:                            *)
(*                                                                         *)
(*   ConnectionIsByteStream  readers get the device's stream;              *)
(*   ConnectionLosesNothing  no segment of it is dropped.                  *)
(*                                                                         *)
(* And who waits:                                                          *)
(*                                                                         *)
(*   NobodyWaitsInVain       what an await needs to end is still to come.  *)
(*                                                                         *)
(* None is inductive.  What makes them hold is the order of the packets    *)
(* and frames on their way: the SYN and the SYN+ACK come first, a segment  *)
(* starts where its predecessor ends, the next one to handle starts at     *)
(* txAck, one frame at a time carries data, and the last frame carries the *)
(* current acknowledgement.                                                *)
(***************************************************************************)
EXTENDS MuxTcpProofs

-----------------------------------------------------------------------------
(* Counters that wrap                                                      *)

\* The quotient and the remainder of a division are unique.
LEMMA ModUnique ==
  ASSUME NEW m \in Nat \ {0}, NEW a \in Nat, NEW q \in Int, NEW r \in 0..(m - 1),
         a = m * q + r
  PROVE  a % m = r
BY SMTT(20)

\* A number is its quotient times the modulus, plus its remainder.
LEMMA DivMod ==
  ASSUME NEW m \in Nat \ {0}, NEW a \in Nat
  PROVE  /\ a % m \in 0..(m - 1) /\ a \div m \in Int
         /\ a = m * (a \div m) + (a % m)
BY SMTT(20)

\* Wrapping early makes no difference to a sum.
LEMMA ModAdd ==
  ASSUME NEW m \in Nat \ {0}, NEW a \in Nat, NEW b \in Nat
  PROVE  ((a % m) + b) % m = (a + b) % m
<1> DEFINE x == a \div m
           s == (a % m) + b
           y == s \div m
           r == s % m
<1>1. a % m \in 0..(m - 1) /\ x \in Int /\ a = m * x + (a % m)
  BY DivMod
<1>2. s \in Nat
  BY <1>1
<1>3. r \in 0..(m - 1) /\ y \in Int /\ s = m * y + r
  <2> HIDE DEF s
  <2> QED
    BY <1>2, DivMod
<1>4. a + b = m * x + s
  BY <1>1
<1> HIDE DEF x, s, y, r
<1>5. a + b = m * (x + y) + r
  BY <1>1, <1>3, <1>4
<1>6. x + y \in Int /\ a + b \in Nat
  BY <1>1, <1>3
<1>7. (a + b) % m = r
  <2> DEFINE q == x + y
             c == a + b
  <2>1. q \in Int /\ c \in Nat /\ c = m * q + r
    BY <1>5, <1>6
  <2> HIDE DEF q, c
  <2>2. c % m = r
    BY <1>3, <2>1, ModUnique
  <2> QED
    BY <2>2 DEF c
<1> QED
  BY <1>7 DEF r, s

\* Advancing by a and then by b is advancing by a + b.
LEMMA AdvanceTwice ==
  ASSUME NEW x \in Nat, NEW a \in Nat, NEW b \in Nat
  PROVE  Advance(Advance(x, a), b) = Advance(x, a + b)
<1>1. Modulus \in Nat \ {0} /\ x + a \in Nat /\ (x + a) + b = x + (a + b)
  BY MuxTcpAssumption
<1>2. (((x + a) % Modulus) + b) % Modulus = ((x + a) + b) % Modulus
  BY <1>1, ModAdd
<1> QED
  BY <1>1, <1>2 DEF Advance

-----------------------------------------------------------------------------
(* The inductive invariant                                                 *)

\* The SYN is the first frame, and nothing happened before it is delivered.
SynFirst ==
  /\ \A i \in 1..Len(outq) :
       outq[i].flags = "SYN" \/ outq[i].by = "open" => i = 1 /\ opener = "syn"
  /\ outq # <<>> /\ outq[1].flags = "SYN" /\ ~atDevice =>
       devState = "listen" /\ inq = <<>> /\ state # "connected"
  /\ opener = "idle" =>
       /\ outq = <<>> /\ inq = <<>> /\ devState = "listen"
       /\ state # "connected" /\ ~timer

\* No byte moves before the connection is made.
NoEarlyBytes ==
  /\ devState = "listen" => devSent = 0
  /\ state = "connecting" => rxTaken = 0 /\ rxLen = 0

\* The sequence number that follows a packet.
After(p) == IF p.kind = "SYNACK" THEN Advance(p.seq, 1) ELSE Advance(p.seq, p.len)

\* Packets on their way: the SYN+ACK first, then segments without gaps.
Contiguous ==
  /\ \A i \in 1..Len(inq) :
       inq[i].kind = "SYNACK" => i = 1 /\ inq[i].seq = 0 /\ state # "connected"
  /\ \A i \in 1..(Len(inq) - 1) :
       inq[i].kind # "RST" /\ inq[i + 1].kind = "DATA" => inq[i + 1].seq = After(inq[i])
  /\ devState = "open" /\ inq # <<>> =>
       inq[Len(inq)].kind # "RST" /\ After(inq[Len(inq)]) = Advance(1, devSent)

Live == opener # "rejected" /\ state # "closed"

\* What a live connection expects next is what comes next.
NextExpected ==
  /\ Live /\ state = "connecting" =>
       IF inq = <<>> THEN devState # "open" ELSE inq[1].kind # "DATA"
  /\ Live /\ state = "connected" =>
       IF inq = <<>> THEN devState = "open" => txAck = Advance(1, devSent)
                     ELSE inq[1].kind = "DATA" => inq[1].seq = txAck

Stream == SynFirst /\ NoEarlyBytes /\ Contiguous /\ NextExpected /\ AckExact

-----------------------------------------------------------------------------
(* It is inductive                                                         *)

\* The elements of a queue after an append and after a removal.
LEMMA QueueElements ==
  ASSUME NEW S, NEW q \in Seq(S)
  PROVE  /\ Len(q) \in Nat /\ (q = <<>> <=> Len(q) = 0)
         /\ q # <<>> => Head(q) = q[1]
         /\ \A e \in S : /\ Append(q, e) # <<>>
                         /\ Len(Append(q, e)) = Len(q) + 1
                         /\ Append(q, e)[Len(q) + 1] = e
                         /\ \A i \in 1..Len(q) : Append(q, e)[i] = q[i]
         /\ q # <<>> => /\ Len(Tail(q)) = Len(q) - 1
                        /\ \A i \in 1..(Len(q) - 1) : Tail(q)[i] = q[i + 1]
OBVIOUS

\* Init establishes it.
LEMMA InitStream == Init => Stream
<1> SUFFICES ASSUME Init PROVE Stream
  OBVIOUS
<1>1. outq = <<>> /\ inq = <<>> /\ state = "connecting" /\ devState = "listen"
      /\ devSent = 0 /\ rxLen = 0 /\ rxTaken = 0 /\ opener = "idle" /\ timer = FALSE
  BY DEF Init
<1>2. Len(outq) = 0 /\ Len(inq) = 0
  BY <1>1
<1> QED
  BY <1>1, <1>2 DEF Stream, SynFirst, NoEarlyBytes, Contiguous, NextExpected, AckExact

\* A frame other than the SYN leaves the order of frames alone.
LEMMA SendStream ==
  ASSUME Waiters, SynFirst, NEW f \in FrameType, SendFrame(f),
         f.flags # "SYN", f.by # "open", opener # "idle", opener' # "idle",
         opener' = opener \/ opener # "syn", UNCHANGED <<atDevice, devState>>,
         outq # <<>> /\ outq[1].flags = "SYN" /\ ~atDevice =>
           inq' = inq /\ state' # "connected"
  PROVE  SynFirst'
<1>1. /\ Len(outq) \in Nat /\ Len(outq') = Len(outq) + 1 /\ outq' # <<>>
      /\ outq'[Len(outq) + 1] = f /\ \A i \in 1..Len(outq) : outq'[i] = outq[i]
      /\ outq = <<>> <=> Len(outq) = 0
  BY QueueElements DEF SendFrame, Waiters, TypeOK
<1>2. ASSUME NEW i \in 1..Len(outq'), outq'[i].flags = "SYN" \/ outq'[i].by = "open"
      PROVE  i = 1 /\ opener' = "syn"
  <2>1. i # Len(outq) + 1
    BY <1>1, <1>2
  <2>2. i \in 1..Len(outq)
    BY <1>1, <2>1
  <2> QED
    BY <1>1, <1>2, <2>2 DEF SynFirst
<1>3. ASSUME outq'[1].flags = "SYN", ~atDevice'
      PROVE  devState' = "listen" /\ inq' = <<>> /\ state' # "connected"
  <2>1. outq # <<>> /\ outq[1].flags = "SYN"
    BY <1>1, <1>3
  <2> QED
    BY <1>3, <2>1 DEF SynFirst
<1> QED
  BY <1>2, <1>3 DEF SynFirst

\* After terminate() nothing is expected any more.
LEMMA TerminateStream ==
  ASSUME Waiters, Stream, Terminate, opener # "idle",
         UNCHANGED <<devState, devSent>>, UNCHANGED inq
  PROVE  NoEarlyBytes' /\ Contiguous' /\ NextExpected' /\ AckExact'
         /\ opener' # "idle" /\ (opener' = opener \/ opener # "syn")
         /\ state' # "connected" /\ UNCHANGED <<rxTaken, rxLen, txAck>>
<1>1. state' = "closed" /\ UNCHANGED <<rxTaken, rxLen, txAck>>
      /\ opener' = IF opener = "armed" THEN "rejected" ELSE opener
  BY DEF Terminate
<1>2. Contiguous'
  BY <1>1 DEF Stream, Contiguous, After, Advance
<1> QED
  BY <1>1, <1>2 DEF Stream, NoEarlyBytes, NextExpected, AckExact, Live

\* The calls of the owner, the timer and the unplugging preserve it.
LEMMA CallStream ==
  ASSUME Waiters, Stream,
         \/ Open \/ ConnectTimeout \/ Close \/ Disconnect
         \/ \E w \in Writes, n \in Sizes : Write(w, n)
         \/ \E r \in Reads, n \in Sizes : ReadExact(r, n)
  PROVE  Stream'
<1>1. /\ txSeq \in 0..(Modulus - 1) /\ txAck \in 0..(Modulus - 1)
      /\ {"open", "handler", "close"} \subseteq Owners /\ Writes \subseteq Owners
      /\ Sizes \subseteq Nat /\ outq \in Seq(FrameType)
  BY DEF Waiters, TypeOK, Owners, Sizes
<1>2. CASE Open
  <2>1. /\ outq = <<>> /\ inq = <<>> /\ devState = "listen" /\ state # "connected"
        /\ UNCHANGED <<state, inq, devState, devSent, atDevice, rxTaken, rxLen, txAck>>
        /\ opener = "idle" /\ opener' = "syn"
        /\ SendFrame(Frame("SYN", txSeq, txAck, 0, "open"))
    BY <1>2 DEF Open, Stream, SynFirst, connVars, rxVars, devVars
  <2>2. Frame("SYN", txSeq, txAck, 0, "open") \in FrameType
    BY <1>1, FrameTyped
  <2>3. Len(outq') = 1
    BY <1>1, <2>1, <2>2, QueueElements DEF SendFrame
  <2>4. SynFirst'
    BY <2>1, <2>3 DEF SynFirst
  <2>5. Contiguous'
    BY <2>1 DEF Stream, Contiguous, After, Advance
  <2> QED
    BY <2>1, <2>4, <2>5 DEF Stream, NoEarlyBytes, NextExpected, AckExact, Live
<1>3. ASSUME Terminate, opener # "idle", UNCHANGED <<devVars, outq, atDevice, inq>>
      PROVE  Stream'
  <2>1. /\ NoEarlyBytes' /\ Contiguous' /\ NextExpected' /\ AckExact'
        /\ opener' # "idle" /\ (opener' = opener \/ opener # "syn") /\ state' # "connected"
    BY <1>3, TerminateStream DEF devVars
  <2> QED
    BY <1>3, <2>1 DEF Stream, SynFirst, devVars
<1>4. CASE ConnectTimeout
  <2>1. opener # "idle"
    BY <1>4 DEF ConnectTimeout, Stream, SynFirst
  <2> QED
    BY <1>3, <1>4, <2>1 DEF ConnectTimeout
<1>5. CASE Close
  <2>1. /\ Terminate /\ opener # "idle" /\ UNCHANGED <<devState, devSent, atDevice, inq>>
        /\ SendFrame(Frame("RST", txSeq, txAck, 0, "close"))
    BY <1>5 DEF Close, InTable, devVars
  <2>2. /\ NoEarlyBytes' /\ Contiguous' /\ NextExpected' /\ AckExact'
        /\ opener' # "idle" /\ (opener' = opener \/ opener # "syn") /\ state' # "connected"
    BY <2>1, TerminateStream
  <2>3. Frame("RST", txSeq, txAck, 0, "close") \in FrameType
    BY <1>1, FrameTyped
  <2>4. SynFirst'
    BY <2>1, <2>2, <2>3, SendStream DEF Stream, Frame
  <2> QED
    BY <2>2, <2>4 DEF Stream
<1>6. CASE Disconnect
  <2>1. opener # "idle" /\ UNCHANGED <<devVars, outq, atDevice, inq>>
    BY <1>6 DEF Disconnect
  <2>2. CASE InTable
    BY <1>3, <1>6, <2>1, <2>2 DEF Disconnect
  <2>3. CASE ~InTable
    BY <1>6, <2>1, <2>3 DEF Disconnect, connVars, rxVars, openVars, devVars, Stream,
       SynFirst, NoEarlyBytes, Contiguous, NextExpected, AckExact, Live, After, Advance
  <2> QED
    BY <2>2, <2>3
<1>7. ASSUME NEW w \in Writes, NEW n \in Sizes, Write(w, n) PROVE Stream'
  <2>1. /\ opener = "resolved"
        /\ UNCHANGED <<state, txAck, rxTaken, rxLen, opener, timer, devState, devSent,
                       atDevice, inq>>
    BY <1>7 DEF Write, connVars, rxVars, openVars, devVars
  <2>2. NoEarlyBytes' /\ Contiguous' /\ NextExpected' /\ AckExact'
    BY <2>1 DEF Stream, NoEarlyBytes, Contiguous, NextExpected, AckExact, Live, After,
                Advance
  <2>3. CASE UNCHANGED outq
    BY <2>1, <2>2, <2>3 DEF Stream, SynFirst
  <2>4. CASE SendFrame(Frame("ACK", txSeq, txAck, n, w))
    <3>1. Frame("ACK", txSeq, txAck, n, w) \in FrameType
      BY <1>1, FrameTyped
    <3>2. w # "open"
      BY MuxTcpAssumption
    <3>3. SynFirst'
      BY <2>1, <2>4, <3>1, <3>2, SendStream DEF Stream, Frame, SynFirst
    <3> QED
      BY <2>2, <3>3 DEF Stream
  <2> QED
    BY <1>7, <2>3, <2>4 DEF Write
<1>8. ASSUME NEW r \in Reads, NEW n \in Sizes, ReadExact(r, n) PROVE Stream'
  <2>1. UNCHANGED <<state, txAck, opener, timer, devState, devSent, outq, atDevice, inq>>
        /\ opener = "resolved"
    BY <1>8 DEF ReadExact, connVars, openVars, devVars
  <2>2. rxTaken' + rxLen' = rxTaken + rxLen
        /\ (rxTaken = 0 /\ rxLen = 0 => rxTaken' = 0 /\ rxLen' = 0)
    BY <1>1, <1>8 DEF ReadExact, TakeBytes, Waiters, TypeOK, Sizes
  <2>3. Contiguous' /\ NextExpected' /\ SynFirst' /\ NoEarlyBytes'
    BY <2>1, <2>2 DEF Stream, SynFirst, NoEarlyBytes, Contiguous, NextExpected, Live,
                      After, Advance
  <2>4. AckExact'
    <3>1. 1 + rxTaken' + rxLen' = 1 + rxTaken + rxLen
      BY <1>1, <1>8 DEF ReadExact, TakeBytes, Waiters, TypeOK, Sizes
    <3> QED
      BY <2>1, <3>1 DEF Stream, AckExact
  <2> QED
    BY <2>3, <2>4 DEF Stream
<1> QED
  BY <1>2, <1>4, <1>5, <1>6, <1>7, <1>8

\* The packets left after the head is taken are still contiguous, whatever
\* the connection's state becomes.
LEMMA TailContiguous ==
  ASSUME Waiters, Contiguous, inq # <<>>, inq' = Tail(inq),
         UNCHANGED <<devState, devSent>>
  PROVE  /\ Contiguous'
         /\ inq' # <<>> /\ inq[1].kind # "RST" /\ inq'[1].kind = "DATA" =>
              inq'[1].seq = After(inq[1])
         /\ inq' = <<>> /\ devState = "open" => After(inq[1]) = Advance(1, devSent)
<1>1. /\ Len(inq) \in Nat /\ Len(inq) > 0 /\ Len(inq') = Len(inq) - 1
      /\ \A i \in 1..(Len(inq) - 1) : inq'[i] = inq[i + 1]
      /\ inq' \in Seq(PacketType) /\ (inq' = <<>> <=> Len(inq') = 0)
  <2>1. inq \in Seq(PacketType)
    BY DEF Waiters, TypeOK
  <2>2. inq' \in Seq(PacketType)
    BY <2>1, QueueType
  <2>3. inq' = <<>> <=> Len(inq') = 0
    BY <2>2, QueueElements
  <2> QED
    BY <2>1, <2>2, <2>3, QueueElements
<1>2. ASSUME NEW i \in 1..Len(inq') PROVE inq'[i].kind # "SYNACK"
  BY <1>1, <1>2 DEF Contiguous
<1>3. ASSUME NEW i \in 1..(Len(inq') - 1), inq'[i].kind # "RST", inq'[i + 1].kind = "DATA"
      PROVE  inq'[i + 1].seq = After(inq'[i])
  <2>1. /\ i + 1 \in 1..(Len(inq) - 1) /\ inq'[i] = inq[i + 1]
        /\ inq'[i + 1] = inq[(i + 1) + 1]
    BY <1>1
  <2> QED
    BY <1>3, <2>1 DEF Contiguous
<1>4. ASSUME devState = "open", inq' # <<>>
      PROVE  inq'[Len(inq')].kind # "RST" /\ After(inq'[Len(inq')]) = Advance(1, devSent)
  <2>1. Len(inq') \in 1..(Len(inq) - 1) /\ inq'[Len(inq')] = inq[Len(inq)]
    BY <1>1, <1>4
  <2> QED
    BY <1>1, <1>4, <2>1 DEF Contiguous
<1>5. Contiguous'
  BY <1>2, <1>3, <1>4 DEF Contiguous, After, Advance
<1>6. ASSUME inq' # <<>>, inq[1].kind # "RST", inq'[1].kind = "DATA"
      PROVE  inq'[1].seq = After(inq[1])
  <2>1. 1 \in 1..(Len(inq) - 1) /\ inq'[1] = inq[1 + 1]
    BY <1>1, <1>6
  <2> QED
    BY <1>6, <2>1 DEF Contiguous
<1>7. ASSUME inq' = <<>>, devState = "open" PROVE After(inq[1]) = Advance(1, devSent)
  <2>1. Len(inq) = 1
    BY <1>1, <1>7
  <2> QED
    BY <1>1, <1>7, <2>1 DEF Contiguous
<1> QED
  BY <1>5, <1>6, <1>7

\* Handling a packet preserves it: the step that matters takes a segment
\* that starts at txAck, and the next one starts where it ends.
LEMMA HandleStream ==
  ASSUME Waiters, Stream, HandlePacket
  PROVE  Stream'
<1> DEFINE p == inq[1]
<1>1. /\ inq # <<>> /\ Head(inq) = p /\ p \in PacketType /\ inq' = Tail(inq)
      /\ UNCHANGED <<devState, devSent, atDevice>>
  BY QueueElements, QueueType DEF HandlePacket, devVars, Waiters, TypeOK
<1>2. /\ Contiguous'
      /\ inq' # <<>> /\ p.kind # "RST" /\ inq'[1].kind = "DATA" => inq'[1].seq = After(p)
      /\ inq' = <<>> /\ devState = "open" => After(p) = Advance(1, devSent)
  BY <1>1, TailContiguous DEF Stream
<1>3. /\ p.seq \in Nat /\ p.len \in Nat /\ rxLen \in Nat /\ rxTaken \in Nat
      /\ txSeq \in 0..(Modulus - 1) /\ txAck \in 0..(Modulus - 1)
      /\ outq \in Seq(FrameType) /\ "handler" \in Owners
  BY <1>1 DEF PacketType, Waiters, TypeOK, Owners
<1>4. opener # "idle" /\ ~(outq # <<>> /\ outq[1].flags = "SYN" /\ ~atDevice)
  BY <1>1 DEF Stream, SynFirst
<1>5. p.kind = "SYNACK" => p.seq = 0 /\ state # "connected"
  <2>1. Len(inq) \in Nat /\ Len(inq) > 0
    BY <1>1, QueueElements DEF Waiters, TypeOK
  <2> QED
    BY <2>1 DEF Stream, Contiguous
<1> HIDE DEF p
<1>6. ASSUME NEW seq \in 0..(Modulus - 1), NEW ack \in 0..(Modulus - 1),
             SendFrame(Frame("ACK", seq, ack, 0, "handler")), UNCHANGED opener
      PROVE  SynFirst'
  <2>1. Frame("ACK", seq, ack, 0, "handler") \in FrameType
    BY <1>3, FrameTyped
  <2> QED
    BY <1>1, <1>4, <1>6, <2>1, SendStream DEF Stream, Frame
<1>7. CASE Terminate /\ UNCHANGED <<handling, outq>>
  <2>1. state' = "closed" /\ opener' = IF opener = "armed" THEN "rejected" ELSE opener
    BY <1>7 DEF Terminate
  <2>2. SynFirst'
    BY <1>1, <1>4, <1>7, <2>1 DEF Stream, SynFirst
  <2> QED
    BY <1>1, <1>2, <2>1, <2>2 DEF Stream, NoEarlyBytes, NextExpected, AckExact, Live
<1>8. CASE InTable /\ state = "connecting" /\ Connecting(p)
  <2>1. Live /\ p.kind # "DATA"
    BY <1>1, <1>8 DEF Stream, NextExpected, Live, InTable, p
  <2>2. CASE p.kind = "SYNACK"
    <3>1. /\ txSeq' = Advance(txSeq, 1) /\ txAck' = Advance(p.seq, 1)
          /\ state' = "connected" /\ timer' = FALSE
          /\ SendFrame(Frame("ACK", txSeq', txAck', 0, "handler"))
          /\ UNCHANGED <<rxTaken, rxLen, opener>>
      BY <1>8, <2>2 DEF Connecting, rxVars
    <3>2. txSeq' \in 0..(Modulus - 1) /\ txAck' \in 0..(Modulus - 1)
      <4>1. txSeq \in Nat /\ 1 \in Nat
        BY <1>3, MuxTcpAssumption
      <4> QED
        BY <1>3, <3>1, <4>1, AdvanceType
    <3>3. SynFirst'
      BY <1>6, <3>1, <3>2
    <3>4. txAck' = After(p) /\ txAck' = 1 % Modulus
      BY <1>5, <2>2, <3>1 DEF After, Advance
    <3>5. AckExact'
      BY <1>8, <3>1, <3>4 DEF Stream, NoEarlyBytes, AckExact
    <3>6. NextExpected'
      BY <1>1, <1>2, <2>2, <3>1, <3>4 DEF NextExpected, Live, Advance
    <3>7. NoEarlyBytes'
      BY <1>1, <3>1 DEF Stream, NoEarlyBytes
    <3> QED
      BY <1>2, <3>3, <3>5, <3>6, <3>7 DEF Stream
  <2> QED
    BY <1>7, <1>8, <2>1, <2>2 DEF Connecting
<1>9. CASE InTable /\ state = "connected" /\ Connected(p)
  <2>1. CASE p.kind = "DATA"
    <3>1. /\ txAck' = Advance(p.seq, p.len) /\ AppendRx(p.len)
          /\ SendFrame(Frame("ACK", txSeq, txAck', 0, "handler"))
          /\ UNCHANGED <<state, txSeq, opener>>
      BY <1>9, <2>1 DEF Connected, Data, openVars
    <3>2. txAck' \in 0..(Modulus - 1)
      BY <1>3, <3>1, AdvanceType
    <3>3. SynFirst'
      BY <1>3, <1>6, <3>1, <3>2
    <3>4. Live /\ p.seq = txAck /\ txAck' = After(p)
      BY <1>1, <1>9, <2>1, <3>1 DEF Stream, NextExpected, Live, InTable, p, After
    <3>5. AckExact'
      <4>1. rxTaken' \in Nat /\ rxLen' \in Nat
            /\ rxTaken' + rxLen' = rxTaken + rxLen + p.len
        BY <1>3, <3>1, AppendRxType DEF Waiters
      <4>2. txAck = Advance(1, rxTaken + rxLen)
        BY <1>3, <1>9 DEF Stream, AckExact, Advance
      <4>3. txAck' = Advance(1, (rxTaken + rxLen) + p.len)
        <5>1. rxTaken + rxLen \in Nat /\ 1 \in Nat
          BY <1>3
        <5>2. Advance(Advance(1, rxTaken + rxLen), p.len)
                = Advance(1, (rxTaken + rxLen) + p.len)
          BY <1>3, <5>1, AdvanceTwice, ZenonT(60)
        <5> QED
          BY <3>1, <3>4, <4>2, <5>2
      <4>4. 1 + ((rxTaken + rxLen) + p.len) = 1 + rxTaken' + rxLen'
        BY <1>3, <4>1
      <4> QED
        BY <4>3, <4>4 DEF AckExact, Advance
    <3>6. NextExpected'
      BY <1>1, <1>2, <1>9, <2>1, <3>1, <3>4 DEF NextExpected, Live, Advance
    <3>7. NoEarlyBytes'
      BY <1>1, <1>9, <3>1 DEF Stream, NoEarlyBytes
    <3> QED
      BY <1>2, <3>3, <3>5, <3>6, <3>7 DEF Stream
  <2> QED
    BY <1>5, <1>7, <1>9, <2>1 DEF Connected
<1>10. CASE ~InTable /\ UNCHANGED <<connVars, rxVars, openVars, handling, outq>>
  <2>1. ~Live /\ UNCHANGED <<state, txAck, rxTaken, rxLen, opener, timer, outq>>
    BY <1>4, <1>10 DEF InTable, Live, connVars, rxVars, openVars
  <2>2. SynFirst'
    BY <1>1, <1>4, <2>1 DEF Stream, SynFirst
  <2> QED
    BY <1>1, <1>2, <2>1, <2>2 DEF Stream, NoEarlyBytes, NextExpected, AckExact, Live
<1> QED
  BY <1>1, <1>8, <1>9, <1>10 DEF HandlePacket

\* The device appends a segment that continues its stream.
LEMMA DeviceDataStream ==
  ASSUME Waiters, Stream, NEW len \in Sizes, DeviceData(len)
  PROVE  Stream'
<1> DEFINE e == Packet("DATA", Advance(1, devSent), len)
<1>1. /\ UNCHANGED <<state, txAck, rxTaken, rxLen, opener, timer, devState, outq, atDevice>>
      /\ devState = "open" /\ devSent' = devSent + len /\ inq' = Append(inq, e)
  BY DEF DeviceData, connVars, rxVars, openVars, Receive, Advance
<1>2. len \in Nat /\ devSent \in Nat /\ 1 \in Nat /\ inq \in Seq(PacketType)
  BY DEF Sizes, Waiters, TypeOK
<1>3. Advance(1, devSent) \in 0..(Modulus - 1) /\ Modulus \in Nat
  BY <1>2, AdvanceType, MuxTcpAssumption
<1>4. e \in PacketType /\ e.kind = "DATA" /\ e.seq = Advance(1, devSent) /\ e.len = len
  BY <1>2, <1>3 DEF Packet, PacketType
<1> HIDE DEF e
<1>5. After(e) = Advance(1, devSent')
  <2>1. After(e) = Advance(Advance(1, devSent), len)
    BY <1>4 DEF After
  <2>2. Advance(Advance(1, devSent), len) = Advance(1, devSent + len)
    BY <1>2, AdvanceTwice
  <2> QED
    BY <1>1, <2>1, <2>2
<1>6. /\ Len(inq) \in Nat /\ Len(inq') = Len(inq) + 1 /\ inq' # <<>>
      /\ inq'[Len(inq) + 1] = e /\ \A i \in 1..Len(inq) : inq'[i] = inq[i]
      /\ inq = <<>> <=> Len(inq) = 0
  BY <1>1, <1>2, <1>4, QueueElements
<1>7. ASSUME NEW i \in 1..Len(inq'), inq'[i].kind = "SYNACK"
      PROVE  i = 1 /\ inq'[i].seq = 0 /\ state' # "connected"
  <2>1. i \in 1..Len(inq)
    BY <1>4, <1>6, <1>7
  <2> QED
    BY <1>1, <1>6, <1>7, <2>1 DEF Stream, Contiguous
<1>8. ASSUME NEW i \in 1..(Len(inq') - 1), inq'[i].kind # "RST", inq'[i + 1].kind = "DATA"
      PROVE  inq'[i + 1].seq = After(inq'[i])
  <2>1. CASE i < Len(inq)
    <3>1. i \in 1..(Len(inq) - 1) /\ inq'[i] = inq[i] /\ inq'[i + 1] = inq[i + 1]
      BY <1>6, <2>1
    <3> QED
      BY <1>8, <3>1 DEF Stream, Contiguous
  <2>2. CASE i = Len(inq)
    <3>1. inq # <<>> /\ inq'[i] = inq[Len(inq)] /\ inq'[i + 1] = e
      BY <1>6, <2>2
    <3> QED
      BY <1>1, <1>4, <3>1 DEF Stream, Contiguous
  <2> QED
    BY <1>6, <2>1, <2>2
<1>9. Contiguous'
  BY <1>4, <1>5, <1>6, <1>7, <1>8 DEF Contiguous, After, Advance
<1>10. NextExpected'
  <2>1. inq'[1] = IF inq = <<>> THEN e ELSE inq[1]
    BY <1>6
  <2> QED
    BY <1>1, <1>4, <1>6, <2>1 DEF Stream, NextExpected, Live
<1>11. SynFirst'
  BY <1>1 DEF Stream, SynFirst, NoEarlyBytes
<1> QED
  BY <1>1, <1>9, <1>10, <1>11 DEF Stream, NoEarlyBytes, AckExact

\* The device answers the SYN: nothing was sent before.
LEMMA DeliverStream ==
  ASSUME Waiters, Stream, Deliver
  PROVE  Stream'
<1>1. /\ UNCHANGED <<state, txAck, rxTaken, rxLen, opener, timer, devSent, outq>>
      /\ outq # <<>> /\ ~atDevice /\ atDevice' = TRUE /\ Head(outq) = outq[1]
      /\ inq \in Seq(PacketType)
  BY QueueElements DEF Deliver, connVars, rxVars, openVars, Waiters, TypeOK
<1>2. opener # "idle"
  BY <1>1 DEF Stream, SynFirst
<1>3. SynFirst'
  BY <1>1, <1>2 DEF Stream, SynFirst
<1>4. AckExact'
  BY <1>1 DEF Stream, AckExact
<1>5. CASE outq[1].flags = "SYN" /\ DeviceSyn
  <2>1. devState = "listen" /\ inq = <<>> /\ state # "connected" /\ devSent = 0
    BY <1>1, <1>5 DEF Stream, SynFirst, NoEarlyBytes
  <2>2. CASE devState' = "open" /\ inq' = <<Packet("SYNACK", 0, 0)>>
    <3>1. /\ Len(inq') = 1 /\ inq' # <<>> /\ inq'[1].kind = "SYNACK" /\ inq'[1].seq = 0
      BY <2>2 DEF Packet
    <3>2. Contiguous'
      BY <1>1, <2>1, <3>1 DEF Contiguous, After, Advance
    <3> QED
      BY <1>1, <1>3, <1>4, <2>1, <2>2, <3>1, <3>2
         DEF Stream, NoEarlyBytes, NextExpected, Live
  <2>3. CASE inq' = <<Packet("RST", 0, 0)>> /\ UNCHANGED devState
    <3>1. Len(inq') = 1 /\ inq' # <<>> /\ inq'[1].kind = "RST"
      BY <2>3 DEF Packet
    <3>2. Contiguous'
      BY <1>1, <2>1, <2>3, <3>1 DEF Contiguous, After, Advance
    <3> QED
      BY <1>1, <1>3, <1>4, <2>1, <2>3, <3>1, <3>2
         DEF Stream, NoEarlyBytes, NextExpected, Live
  <2>4. CASE UNCHANGED <<devState, inq>>
    BY <1>1, <1>3, <1>4, <2>1, <2>4
       DEF Stream, NoEarlyBytes, Contiguous, NextExpected, Live, After, Advance
  <2>5. \A e : Append(<<>>, e) = <<e>>
    OBVIOUS
  <2> QED
    BY <1>5, <2>1, <2>2, <2>3, <2>4, <2>5 DEF DeviceSyn, Receive
<1>6. CASE devState' \in {devState, "closed"} /\ inq' = inq
  BY <1>1, <1>3, <1>4, <1>6
     DEF Stream, NoEarlyBytes, Contiguous, NextExpected, Live, After, Advance
<1> QED
  BY <1>1, <1>5, <1>6 DEF Deliver

\* The transfers' ends and the device's reset preserve it.
LEMMA LinkStream ==
  ASSUME Waiters, Stream, Settle \/ SettleFail \/ DeviceReset
  PROVE  Stream'
<1>1. CASE DeviceReset
  <2> DEFINE e == Packet("RST", 0, 0)
  <2>1. /\ UNCHANGED <<state, txAck, rxTaken, rxLen, opener, timer, devSent, outq, atDevice>>
        /\ devState = "open" /\ devState' = "closed" /\ inq' = Append(inq, e)
        /\ inq \in Seq(PacketType)
    BY <1>1 DEF DeviceReset, connVars, rxVars, openVars, Receive, Waiters, TypeOK
  <2>2. e \in PacketType /\ e.kind = "RST"
    BY DEF Packet, PacketType
  <2> HIDE DEF e
  <2>3. /\ Len(inq) \in Nat /\ Len(inq') = Len(inq) + 1 /\ inq' # <<>>
        /\ inq'[Len(inq) + 1] = e /\ \A i \in 1..Len(inq) : inq'[i] = inq[i]
        /\ inq = <<>> <=> Len(inq) = 0
    BY <2>1, <2>2, QueueElements
  <2>4. ASSUME NEW i \in 1..Len(inq'), inq'[i].kind = "SYNACK"
        PROVE  i = 1 /\ inq'[i].seq = 0 /\ state' # "connected"
    <3>1. i \in 1..Len(inq)
      BY <2>2, <2>3, <2>4
    <3> QED
      BY <2>1, <2>3, <2>4, <3>1 DEF Stream, Contiguous
  <2>5. ASSUME NEW i \in 1..(Len(inq') - 1), inq'[i].kind # "RST", inq'[i + 1].kind = "DATA"
        PROVE  inq'[i + 1].seq = After(inq'[i])
    <3>1. i # Len(inq)
      BY <2>2, <2>3, <2>5
    <3>2. i \in 1..(Len(inq) - 1) /\ inq'[i] = inq[i] /\ inq'[i + 1] = inq[i + 1]
      BY <2>3, <3>1
    <3> QED
      BY <2>5, <3>2 DEF Stream, Contiguous
  <2>6. Contiguous'
    BY <2>1, <2>4, <2>5 DEF Contiguous, After, Advance
  <2>7. inq'[1] = IF inq = <<>> THEN e ELSE inq[1]
    BY <2>3
  <2>8. NextExpected'
    BY <2>1, <2>2, <2>3, <2>7 DEF Stream, NextExpected, Live
  <2> QED
    BY <2>1, <2>6, <2>8 DEF Stream, SynFirst, NoEarlyBytes, AckExact
<1>2. ASSUME Dequeue, outq # <<>>, opener' # "idle",
             opener = "rejected" => opener' = "rejected",
             UNCHANGED <<state, txAck, rxTaken, rxLen, devState, devSent, inq>>
      PROVE  Stream'
  <2>1. /\ Len(outq') = Len(outq) - 1 /\ Len(outq) \in Nat
        /\ \A i \in 1..(Len(outq) - 1) : outq'[i] = outq[i + 1]
    <3>1. outq \in Seq(FrameType)
      BY DEF Waiters, TypeOK
    <3> QED
      BY <1>2, <3>1, QueueElements DEF Dequeue
  <2>2. \A i \in 1..Len(outq') : outq'[i].flags # "SYN" /\ outq'[i].by # "open"
    BY <2>1 DEF Stream, SynFirst
  <2>3. outq' # <<>> => 1 \in 1..Len(outq')
    <3>1. outq' \in Seq(FrameType)
      BY <1>2, QueueType DEF Dequeue, Waiters, TypeOK
    <3> QED
      BY <3>1, QueueElements
  <2>4. SynFirst'
    BY <1>2, <2>2, <2>3 DEF SynFirst
  <2> QED
    BY <1>2, <2>4 DEF Stream, NoEarlyBytes, Contiguous, NextExpected, AckExact, Live,
                      After, Advance
<1>3. outq # <<>> => /\ opener # "idle" /\ Head(outq) = outq[1]
                     /\ outq[1].by = "open" => opener = "syn"
  <2>1. outq \in Seq(FrameType)
    BY DEF Waiters, TypeOK
  <2>2. outq # <<>> => Head(outq) = outq[1] /\ 1 \in 1..Len(outq)
    BY <2>1, QueueElements
  <2> QED
    BY <2>2 DEF Stream, SynFirst
<1>4. CASE Settle
  <2>1. /\ Dequeue /\ outq # <<>>
        /\ UNCHANGED <<state, txAck, rxTaken, rxLen, devState, devSent, inq>>
    BY <1>4 DEF Settle, rxVars, devVars
  <2>2. opener' # "idle" /\ (opener = "rejected" => opener' = "rejected")
    BY <1>3, <1>4, <2>1 DEF Settle, OpenSent, AckSent, openVars
  <2> QED
    BY <1>2, <2>1, <2>2
<1>5. CASE SettleFail
  <2>1. /\ Dequeue /\ outq # <<>> /\ opener' \in {opener, "rejected"}
        /\ UNCHANGED <<state, txAck, rxTaken, rxLen, devState, devSent, inq>>
    BY <1>5 DEF SettleFail, connVars, rxVars, devVars
  <2> QED
    BY <1>2, <1>3, <2>1
<1> QED
  BY <1>1, <1>4, <1>5

\* Any step of the system, or none, preserves it.
LEMMA NextStream == Waiters /\ Stream /\ [Next]_vars => Stream'
<1> SUFFICES ASSUME Waiters, Stream, [Next]_vars PROVE Stream'
  OBVIOUS
<1>1. CASE UNCHANGED vars
  BY <1>1 DEF vars, connVars, rxVars, openVars, devVars, Stream, SynFirst, NoEarlyBytes,
              Contiguous, NextExpected, AckExact, Live, After, Advance
<1>2. CASE Next
  BY <1>2, CallStream, HandleStream, DeliverStream, LinkStream, DeviceDataStream DEF Next
<1> QED
  BY <1>1, <1>2

\* handlePacket and readExact keep txAck equal to the bytes taken out of the
\* stream, across the wrap of the counter: no byte the reader still misses is
\* acknowledged, and none it has is asked for again.
THEOREM AcknowledgesWhatItTook == Spec => []AckExact
<1>1. Waiters /\ Stream => AckExact
  BY DEF Stream
<1>2. Init => Waiters /\ Stream
  BY InitWaiters, InitStream
<1>3. (Waiters /\ Stream) /\ [Next]_vars => (Waiters /\ Stream)'
  BY NextWaiters, NextStream
<1> QED
  BY <1>1, <1>2, <1>3, PTL DEF Spec

-----------------------------------------------------------------------------
(* The host's sequence number against the data the device accepted         *)

\* Is the i-th frame the data of a write?  It is the only one, carries the
\* sequence number that counts now, and its write waits for it.
ByWriter(i) == outq[i].by \in Writes
DataFrames ==
  \A i \in 1..Len(outq) :
    IF ByWriter(i)
      THEN /\ outq[i].flags = "ACK" /\ outq[i].len > 0 /\ outq[i].seq = txSeq
           /\ writes[outq[i].by] = "sending"
           /\ \A j \in 1..Len(outq) : ByWriter(j) => j = i
      ELSE outq[i].len = 0

\* Nothing is written before the connection is made and handed out.
Begun ==
  /\ state = "connecting" => txSeq = 0 /\ handling = "none" /\ opener # "resolved"
  /\ opener # "resolved" => devData = 0 /\ \A w \in Writes : writes[w] = "new"
  /\ \A i \in 1..Len(inq) : inq[i].kind = "SYNACK" => devState # "listen"
  /\ atDevice => outq # <<>>

\* The two ends agree on what comes next, but for the data that the device
\* has and that write() does not know of yet.
InFlight == IF atDevice /\ ByWriter(1) THEN outq[1].len ELSE 0
Agreed ==
  state = "connected" \/ opener = "resolved" =>
    /\ devState # "listen"
    /\ devState = "open" => Advance(1, devData) = Advance(txSeq, InFlight)
InFlightGot ==
  devState = "open" /\ atDevice /\ ByWriter(1) => outq[1].by \in devGot

Written == DataFrames /\ Begun /\ Agreed /\ InFlightGot /\ WritesAccepted

\* Init establishes it.
LEMMA InitWritten == Init => Written
<1> SUFFICES ASSUME Init PROVE Written
  OBVIOUS
<1>1. Len(outq) = 0 /\ Len(inq) = 0
  BY DEF Init
<1> QED
  BY <1>1 DEF Init, Written, DataFrames, Begun, Agreed, InFlightGot, WritesAccepted

\* The frames of open(), of handlePacket() and of close() carry no data.
LEMMA SendWritten ==
  ASSUME Waiters, DataFrames, NEW f \in FrameType, f.by \notin Writes, f.len = 0,
         SendFrame(f), UNCHANGED <<writes, atDevice>>,
         txSeq' = txSeq \/ \A i \in 1..Len(outq) : ~ByWriter(i),
         atDevice => outq # <<>>
  PROVE  DataFrames' /\ InFlight' = InFlight
         /\ (atDevice' /\ ByWriter(1)' <=> atDevice /\ ByWriter(1))
         /\ (atDevice => outq'[1] = outq[1]) /\ outq' # <<>>
<1>1. /\ Len(outq) \in Nat /\ Len(outq') = Len(outq) + 1 /\ outq' # <<>>
      /\ outq'[Len(outq) + 1] = f /\ \A i \in 1..Len(outq) : outq'[i] = outq[i]
      /\ outq = <<>> <=> Len(outq) = 0
  <2>1. outq \in Seq(FrameType) /\ outq' = Append(outq, f)
    BY DEF SendFrame, Waiters, TypeOK
  <2> QED
    BY ONLY <2>1, f \in FrameType, QueueElements
<1>2. \A i \in 1..Len(outq') : i \in 1..Len(outq) \/ (i = Len(outq) + 1 /\ ~ByWriter(i)')
  BY <1>1 DEF ByWriter
<1>3. \A i \in 1..Len(outq) : ByWriter(i)' <=> ByWriter(i)
  BY <1>1 DEF ByWriter
<1>4. ASSUME NEW i \in 1..Len(outq'), ByWriter(i)'
      PROVE  /\ outq'[i].flags = "ACK" /\ outq'[i].len > 0 /\ outq'[i].seq = txSeq'
             /\ writes'[outq'[i].by] = "sending"
             /\ \A j \in 1..Len(outq') : ByWriter(j)' => j = i
  <2>1. i \in 1..Len(outq) /\ ByWriter(i) /\ outq'[i] = outq[i] /\ outq # <<>>
    BY <1>1, <1>2, <1>3, <1>4
  <2>2. \A j \in 1..Len(outq') : ByWriter(j)' => j = i
    BY <1>2, <1>3, <2>1 DEF DataFrames
  <2> QED
    BY <2>1, <2>2 DEF DataFrames
<1>5. ASSUME NEW i \in 1..Len(outq'), ~ByWriter(i)' PROVE outq'[i].len = 0
  BY <1>1, <1>2, <1>3, <1>5 DEF DataFrames
<1>6. DataFrames'
  BY <1>4, <1>5 DEF DataFrames
<1>7. atDevice => outq'[1] = outq[1] /\ (ByWriter(1)' <=> ByWriter(1))
  BY <1>1, <1>3
<1> QED
  BY <1>1, <1>6, <1>7 DEF InFlight

\* terminate() changes nothing that counts bytes sent.
LEMMA TerminateWritten ==
  ASSUME Waiters, Begun, Agreed, InFlightGot, WritesAccepted, Terminate,
         UNCHANGED <<devVars, writes, atDevice, handling>>, opener # "idle",
         UNCHANGED InFlight, atDevice' /\ ByWriter(1)' => ByWriter(1) /\ outq'[1] = outq[1],
         atDevice => outq' # <<>>, \A i \in 1..Len(inq') : inq'[i].kind = "SYNACK" => devState # "listen"
  PROVE  Begun' /\ Agreed' /\ InFlightGot' /\ WritesAccepted'
<1>1. state' = "closed" /\ UNCHANGED txSeq /\ opener' = IF opener = "armed" THEN "rejected" ELSE opener
  BY DEF Terminate
<1>2. UNCHANGED <<devState, devData, devGot>>
  BY DEF devVars
<1>3. opener' = "resolved" <=> opener = "resolved"
  BY <1>1
<1>4. Begun'
  BY <1>1, <1>2, <1>3 DEF Begun
<1>5. Agreed'
  BY <1>1, <1>2, <1>3 DEF Agreed, Advance
<1>6. InFlightGot' /\ WritesAccepted'
  BY <1>1, <1>2 DEF InFlightGot, WritesAccepted
<1> QED
  BY <1>4, <1>5, <1>6

\* What readers do, and the loss of the device, leaves it alone.
LEMMA SameWritten ==
  ASSUME Written, UNCHANGED <<state, txSeq, opener, handling, devState, devData, devGot,
                              writes, atDevice, outq>>,
         \A i \in 1..Len(inq') : inq'[i].kind = "SYNACK" => devState # "listen"
  PROVE  Written'
<1>1. DataFrames'
  BY DEF Written, DataFrames, ByWriter
<1>2. Begun'
  BY DEF Written, Begun
<1>3. Agreed'
  BY DEF Written, Agreed, InFlight, ByWriter, Advance
<1>4. InFlightGot' /\ WritesAccepted'
  BY DEF Written, InFlightGot, WritesAccepted, ByWriter
<1> QED
  BY <1>1, <1>2, <1>3, <1>4 DEF Written

\* A write that begins finds no other under way: its frame is the only one
\* with data.
LEMMA WriteWritten ==
  ASSUME Waiters, Written, Overlap = FALSE,
         NEW w \in Writes, NEW n \in Sizes, Write(w, n)
  PROVE  Written'
<1>1. /\ UNCHANGED <<state, txSeq, opener, handling, devState, devData, devGot, atDevice, inq>>
      /\ opener = "resolved" /\ writes[w] = "new"
  BY DEF Write, connVars, openVars, devVars
<1>2. \A v \in Writes : writes[v] # "sending"
  BY DEF Write
<1>3. \A i \in 1..Len(outq) : ~ByWriter(i) /\ outq[i].len = 0
  <2>1. SUFFICES ASSUME NEW i \in 1..Len(outq) PROVE ~ByWriter(i) /\ outq[i].len = 0
    OBVIOUS
  <2>2. ~ByWriter(i)
    BY <1>2 DEF Written, DataFrames, ByWriter
  <2> QED
    BY <2>2 DEF Written, DataFrames
<1>4. writes \in [Writes -> WriteStates] /\ outq \in Seq(FrameType)
  BY DEF Waiters, TypeOK
<1>5. CASE writes' = [writes EXCEPT ![w] = "error"] /\ UNCHANGED outq
  <2>1. DataFrames'
    BY <1>3, <1>5 DEF DataFrames, ByWriter
  <2>2. Begun'
    BY <1>1, <1>5 DEF Written, Begun
  <2>3. Agreed'
    BY <1>1, <1>5 DEF Written, Agreed, InFlight, ByWriter, Advance
  <2>4. InFlightGot'
    BY <1>1, <1>5 DEF Written, InFlightGot, ByWriter
  <2>5. WritesAccepted'
    BY <1>1, <1>4, <1>5 DEF Written, WritesAccepted
  <2> QED
    BY <2>1, <2>2, <2>3, <2>4, <2>5 DEF Written
<1>6. CASE /\ writes' = [writes EXCEPT ![w] = "sending"]
           /\ SendFrame(Frame("ACK", txSeq, txAck, n, w))
  <2> DEFINE f == Frame("ACK", txSeq, txAck, n, w)
  <2>1. n \in Nat /\ n > 0 /\ w \in Owners /\ txSeq \in 0..(Modulus - 1)
        /\ txAck \in 0..(Modulus - 1)
    BY DEF Sizes, Owners, Waiters, TypeOK
  <2>2. /\ f \in FrameType /\ f.flags = "ACK" /\ f.seq = txSeq /\ f.len = n /\ f.by = w
    BY <2>1, FrameTyped DEF Frame
  <2> HIDE DEF f
  <2>3. /\ Len(outq) \in Nat /\ Len(outq') = Len(outq) + 1 /\ outq' # <<>>
        /\ outq'[Len(outq) + 1] = f /\ \A i \in 1..Len(outq) : outq'[i] = outq[i]
        /\ outq = <<>> <=> Len(outq) = 0
    <3>1. outq' = Append(outq, f)
      BY <1>6 DEF SendFrame, f
    <3> QED
      BY ONLY <1>4, <2>2, <3>1, QueueElements
  <2>4. \A i \in 1..Len(outq') :
          \/ i \in 1..Len(outq) /\ ~ByWriter(i)' /\ outq'[i].len = 0
          \/ i = Len(outq) + 1 /\ ByWriter(i)' /\ outq'[i] = f
    BY <1>3, <2>2, <2>3 DEF ByWriter
  <2>5. writes'[w] = "sending" /\ \A v \in Writes : v # w => writes'[v] = writes[v]
    BY <1>4, <1>6
  <2>6. DataFrames'
    <3>1. ASSUME NEW i \in 1..Len(outq'), ByWriter(i)'
          PROVE  /\ outq'[i].flags = "ACK" /\ outq'[i].len > 0 /\ outq'[i].seq = txSeq'
                 /\ writes'[outq'[i].by] = "sending"
                 /\ \A j \in 1..Len(outq') : ByWriter(j)' => j = i
      <4>1. i = Len(outq) + 1 /\ outq'[i] = f
        BY <2>3, <2>4, <3>1
      <4>2. \A j \in 1..Len(outq') : ByWriter(j)' => j = i
        BY <2>4, <4>1
      <4> QED
        BY <1>1, <2>1, <2>2, <2>5, <4>1, <4>2
    <3> QED
      BY <2>4, <3>1 DEF DataFrames
  <2>7. InFlight' = InFlight /\ ~(atDevice' /\ ByWriter(1)')
    <3>1. atDevice => 1 \in 1..Len(outq)
      BY <2>3 DEF Written, Begun
    <3>2. atDevice => ~ByWriter(1) /\ ~ByWriter(1)'
      BY <1>3, <2>3, <3>1 DEF ByWriter
    <3> QED
      BY <1>1, <3>2 DEF InFlight
  <2>8. Begun'
    BY <1>1, <2>3 DEF Written, Begun
  <2>9. Agreed'
    BY <1>1, <2>7 DEF Written, Agreed, Advance
  <2>10. InFlightGot'
    BY <2>7 DEF InFlightGot
  <2>11. WritesAccepted'
    BY <1>1, <2>5 DEF Written, WritesAccepted
  <2> QED
    BY <2>6, <2>8, <2>9, <2>10, <2>11 DEF Written
<1> QED
  BY <1>5, <1>6 DEF Write

\* The calls of the owner, the timer and the unplugging preserve it.
LEMMA CallWritten ==
  ASSUME Waiters, Stream, Written, Overlap = FALSE,
         \/ Open \/ ConnectTimeout \/ Close \/ Disconnect
         \/ \E w \in Writes, n \in Sizes : Write(w, n)
         \/ \E r \in Reads, n \in Sizes : ReadExact(r, n)
  PROVE  Written'
<1>1. /\ txSeq \in 0..(Modulus - 1) /\ txAck \in 0..(Modulus - 1)
      /\ {"open", "handler", "close"} \subseteq Owners
      /\ "open" \notin Writes /\ "close" \notin Writes
  BY MuxTcpAssumption DEF Waiters, TypeOK, Owners
<1>2. \A i \in 1..Len(inq) : inq[i].kind = "SYNACK" => devState # "listen"
  BY DEF Written, Begun
<1>3. CASE Open
  <2> DEFINE f == Frame("SYN", txSeq, txAck, 0, "open")
  <2>1. /\ outq = <<>> /\ inq = <<>> /\ devState = "listen" /\ state # "connected"
        /\ UNCHANGED <<state, txSeq, inq, devState, devData, devGot, atDevice, writes, handling>>
        /\ opener = "idle" /\ opener' = "syn" /\ SendFrame(f)
    BY <1>3 DEF Open, Stream, SynFirst, connVars, devVars
  <2>2. f \in FrameType /\ f.by \notin Writes /\ f.len = 0
    BY <1>1, FrameTyped DEF Frame
  <2> HIDE DEF f
  <2>3. DataFrames' /\ outq' # <<>>
    BY <2>1, <2>2, SendWritten DEF Written, Begun
  <2>4. Begun'
    BY <2>1, <2>3 DEF Written, Begun
  <2>5. Agreed' /\ InFlightGot' /\ WritesAccepted'
    BY <2>1 DEF Agreed, InFlightGot, WritesAccepted
  <2> QED
    BY <2>3, <2>4, <2>5 DEF Written
<1>4. ASSUME Terminate, opener # "idle", UNCHANGED <<devVars, writes, handling, outq, atDevice, inq>>
      PROVE  Written'
  <2>1. UNCHANGED <<InFlight, txSeq>> /\ (ByWriter(1)' <=> ByWriter(1)) /\ outq' = outq
    BY <1>4 DEF InFlight, ByWriter, Terminate
  <2>2. Begun' /\ Agreed' /\ InFlightGot' /\ WritesAccepted'
    BY <1>2, <1>4, <2>1, TerminateWritten DEF Written, Begun
  <2>3. DataFrames'
    BY <1>4, <2>1 DEF Written, DataFrames, ByWriter
  <2> QED
    BY <2>2, <2>3 DEF Written
<1>5. CASE ConnectTimeout
  <2>1. opener # "idle"
    BY <1>5 DEF ConnectTimeout, Stream, SynFirst
  <2> QED
    BY <1>4, <1>5, <2>1 DEF ConnectTimeout
<1>6. CASE Close
  <2> DEFINE f == Frame("RST", txSeq, txAck, 0, "close")
  <2>1. /\ Terminate /\ opener # "idle" /\ SendFrame(f) /\ txSeq' = txSeq
        /\ UNCHANGED <<devVars, writes, handling, atDevice, inq>>
    BY <1>6 DEF Close, InTable, Terminate
  <2>2. f \in FrameType /\ f.by \notin Writes /\ f.len = 0
    BY <1>1, FrameTyped DEF Frame
  <2> HIDE DEF f
  <2>3. /\ DataFrames' /\ InFlight' = InFlight /\ outq' # <<>>
        /\ (atDevice' /\ ByWriter(1)' <=> atDevice /\ ByWriter(1))
        /\ (atDevice => outq'[1] = outq[1])
    BY <2>1, <2>2, SendWritten DEF Written, Begun
  <2>4. Begun' /\ Agreed' /\ InFlightGot' /\ WritesAccepted'
    BY <1>2, <2>1, <2>3, TerminateWritten DEF Written
  <2> QED
    BY <2>3, <2>4 DEF Written
<1>7. CASE Disconnect
  <2>1. opener # "idle" /\ UNCHANGED <<devVars, writes, handling, outq, atDevice, inq>>
    BY <1>7 DEF Disconnect
  <2>2. CASE InTable
    BY <1>4, <1>7, <2>1, <2>2 DEF Disconnect
  <2>3. CASE ~InTable
    <3>1. UNCHANGED <<state, txSeq, opener, handling, devState, devData, devGot, writes,
                      atDevice, outq, inq>>
      BY <1>7, <2>1, <2>3 DEF Disconnect, connVars, openVars, devVars
    <3> QED
      BY <1>2, <3>1, SameWritten
  <2> QED
    BY <2>2, <2>3
<1>8. ASSUME NEW r \in Reads, NEW n \in Sizes, ReadExact(r, n) PROVE Written'
  <2>1. UNCHANGED <<state, txSeq, opener, handling, devState, devData, devGot, writes,
                    atDevice, outq, inq>>
    BY <1>8 DEF ReadExact, connVars, openVars, devVars
  <2> QED
    BY <1>2, <2>1, SameWritten
<1> QED
  BY <1>3, <1>5, <1>6, <1>7, <1>8, WriteWritten

\* A number below the modulus stays when nothing is added.
LEMMA AdvanceNone ==
  ASSUME NEW x \in 0..(Modulus - 1)
  PROVE  Advance(x, 0) = x
<1>1. Modulus \in Nat \ {0} /\ x \in Nat /\ x = Modulus * 0 + x
  BY MuxTcpAssumption
<1>2. x % Modulus = x
  BY <1>1, ModUnique
<1>3. x + 0 = x
  BY <1>1
<1> QED
  BY <1>2, <1>3 DEF Advance

\* Handling a packet preserves it: the SYN+ACK is what makes both ends agree.
LEMMA HandleWritten ==
  ASSUME Waiters, Stream, Written, HandlePacket
  PROVE  Written'
<1> DEFINE p == inq[1]
<1>1. /\ inq # <<>> /\ Head(inq) = p /\ inq' = Tail(inq) /\ inq \in Seq(PacketType)
      /\ UNCHANGED <<devState, devData, devGot, writes, atDevice>> /\ UNCHANGED devVars
  BY QueueElements DEF HandlePacket, devVars, Waiters, TypeOK
<1>2. /\ Len(inq) \in Nat /\ Len(inq) > 0 /\ Len(inq') = Len(inq) - 1
      /\ \A i \in 1..(Len(inq) - 1) : inq'[i] = inq[i + 1]
  BY ONLY <1>1, QueueElements
<1>3. /\ \A i \in 1..Len(inq') : inq'[i].kind = "SYNACK" => devState # "listen"
      /\ p.kind = "SYNACK" => devState # "listen"
  BY <1>2 DEF Written, Begun
<1>4. opener # "idle"
  BY <1>1 DEF Stream, SynFirst
<1> HIDE DEF p
<1>5. /\ txSeq \in 0..(Modulus - 1) /\ txAck \in 0..(Modulus - 1) /\ 1 \in Nat
      /\ txSeq \in Nat /\ "handler" \in Owners /\ "handler" \notin Writes
  BY MuxTcpAssumption DEF Waiters, TypeOK, Owners
<1>6. CASE Terminate /\ UNCHANGED <<handling, outq>>
  <2>1. UNCHANGED <<InFlight, txSeq>> /\ (ByWriter(1)' <=> ByWriter(1)) /\ outq' = outq
    BY <1>1, <1>6 DEF InFlight, ByWriter, Terminate
  <2>2. Begun' /\ Agreed' /\ InFlightGot' /\ WritesAccepted'
    BY <1>1, <1>3, <1>4, <1>6, <2>1, TerminateWritten DEF Written, Begun
  <2>3. DataFrames'
    BY <1>1, <1>6, <2>1 DEF Written, DataFrames, ByWriter
  <2> QED
    BY <2>2, <2>3 DEF Written
<1>7. CASE UNCHANGED <<connVars, rxVars, openVars, handling, outq>>
  BY <1>1, <1>3, <1>7, SameWritten DEF connVars, openVars
<1>8. ASSUME NEW seq \in 0..(Modulus - 1), NEW ack \in 0..(Modulus - 1),
             SendFrame(Frame("ACK", seq, ack, 0, "handler")), 
             txSeq' = txSeq \/ \A i \in 1..Len(outq) : ~ByWriter(i)
      PROVE  /\ DataFrames' /\ InFlight' = InFlight /\ outq' # <<>>
             /\ (atDevice' /\ ByWriter(1)' <=> atDevice /\ ByWriter(1))
             /\ (atDevice => outq'[1] = outq[1])
  <2> DEFINE f == Frame("ACK", seq, ack, 0, "handler")
  <2>1. f \in FrameType /\ f.by \notin Writes /\ f.len = 0 /\ SendFrame(f)
    BY <1>5, <1>8, FrameTyped DEF Frame
  <2> HIDE DEF f
  <2> QED
    BY <1>1, <1>8, <2>1, SendWritten DEF Written, Begun
<1>9. CASE state = "connecting" /\ Connecting(p) /\ p.kind = "SYNACK"
  <2>1. /\ txSeq' = Advance(txSeq, 1) /\ txAck' = Advance(p.seq, 1)
        /\ state' = "connected" /\ handling' = "synack" /\ opener' = opener
        /\ SendFrame(Frame("ACK", txSeq', txAck', 0, "handler"))
    BY <1>9 DEF Connecting
  <2>2. /\ txSeq = 0 /\ opener # "resolved" /\ devData = 0
        /\ \A w \in Writes : writes[w] = "new"
    BY <1>9 DEF Written, Begun
  <2>3. \A i \in 1..Len(outq) : ~ByWriter(i)
    BY <2>2 DEF Written, DataFrames, ByWriter
  <2>4. txSeq' \in 0..(Modulus - 1) /\ txAck' \in 0..(Modulus - 1)
    <3>1. p \in PacketType
      BY <1>1, QueueType
    <3>2. p.seq \in Nat
      BY <3>1 DEF PacketType
    <3> QED
      BY <1>5, <2>1, <3>2, AdvanceType
  <2>5. /\ DataFrames' /\ InFlight' = InFlight /\ outq' # <<>>
        /\ (atDevice' /\ ByWriter(1)' <=> atDevice /\ ByWriter(1))
    <3>1. PICK seq \in 0..(Modulus - 1), ack \in 0..(Modulus - 1) :
            seq = txSeq' /\ ack = txAck'
      BY <2>4
    <3> QED
      BY <1>8, <2>1, <2>3, <3>1
  <2>6. ~(atDevice /\ ByWriter(1)) /\ InFlight = 0
    <3>1. atDevice => 1 \in 1..Len(outq)
      BY QueueElements DEF Written, Begun, Waiters, TypeOK
    <3> QED
      BY <2>3, <3>1 DEF InFlight
  <2>7. Agreed'
    <3>1. Advance(1, 0) = Advance(0, 1)
      BY DEF Advance
    <3>2. Advance(txSeq', 0) = txSeq'
      BY <2>4, AdvanceNone
    <3>3. Advance(1, devData') = Advance(txSeq', InFlight')
      BY <1>1, <2>1, <2>2, <2>5, <2>6, <3>1, <3>2
    <3>4. devState' # "listen"
      BY <1>1, <1>3, <1>9
    <3> QED
      BY <3>3, <3>4 DEF Agreed
  <2>8. Begun'
    BY <1>1, <1>3, <2>1, <2>2, <2>5 DEF Begun
  <2>9. InFlightGot' /\ WritesAccepted'
    BY <1>1, <2>5, <2>6 DEF Written, InFlightGot, WritesAccepted
  <2> QED
    BY <2>5, <2>7, <2>8, <2>9 DEF Written
<1>10. CASE state = "connected" /\ Connected(p) /\ p.kind = "DATA"
  <2>1. /\ txAck' = Advance(p.seq, p.len) /\ handling' = "data"
        /\ SendFrame(Frame("ACK", txSeq, txAck', 0, "handler"))
        /\ UNCHANGED <<state, txSeq, opener>>
    BY <1>10 DEF Connected, Data, openVars
  <2>2. txAck' \in 0..(Modulus - 1)
    <3>1. p \in PacketType
      BY <1>1, QueueType
    <3>2. p.seq \in Nat /\ p.len \in Nat
      BY <3>1 DEF PacketType
    <3> QED
      BY <2>1, <3>2, AdvanceType
  <2>3. /\ DataFrames' /\ InFlight' = InFlight /\ outq' # <<>>
        /\ (atDevice' /\ ByWriter(1)' <=> atDevice /\ ByWriter(1))
        /\ (atDevice => outq'[1] = outq[1])
    <3>1. PICK ack \in 0..(Modulus - 1) : ack = txAck'
      BY <2>2
    <3> QED
      BY <1>5, <1>8, <2>1, <3>1
  <2>4. Begun'
    BY <1>1, <1>3, <1>10, <2>1, <2>3 DEF Written, Begun
  <2>5. Agreed'
    BY <1>1, <2>1, <2>3 DEF Written, Agreed, Advance
  <2>6. InFlightGot' /\ WritesAccepted'
    BY <1>1, <2>3 DEF Written, InFlightGot, WritesAccepted
  <2> QED
    BY <2>3, <2>4, <2>5, <2>6 DEF Written
<1>11. CASE InTable /\ state = "connecting" /\ Connecting(p)
  BY <1>6, <1>7, <1>9, <1>11 DEF Connecting
<1>12. CASE InTable /\ state = "connected" /\ Connected(p)
  BY <1>6, <1>7, <1>10, <1>12 DEF Connected
<1> QED
  BY <1>1, <1>7, <1>11, <1>12 DEF HandlePacket

\* The device takes the one frame with data as the continuation of its stream.
LEMMA DeliverWritten ==
  ASSUME Waiters, Stream, Written, Deliver
  PROVE  Written'
<1>1. /\ UNCHANGED <<state, txSeq, opener, handling, outq, writes>>
      /\ outq # <<>> /\ ~atDevice /\ atDevice' = TRUE /\ Head(outq) = outq[1]
      /\ outq \in Seq(FrameType) /\ 1 \in 1..Len(outq)
  BY QueueElements DEF Deliver, connVars, openVars, Waiters, TypeOK
<1>2. /\ txSeq \in 0..(Modulus - 1) /\ devData \in Nat /\ outq[1] \in FrameType /\ 1 \in Nat
      /\ outq[1].len \in Nat
  <2>1. outq[1] \in FrameType
    BY <1>1, QueueType
  <2> QED
    BY <2>1 DEF Waiters, TypeOK, FrameType
<1>3. DataFrames' /\ (ByWriter(1)' <=> ByWriter(1)) /\ InFlight = 0
      /\ InFlight' = IF ByWriter(1) THEN outq[1].len ELSE 0
  BY <1>1 DEF Written, DataFrames, ByWriter, InFlight
<1>4. CASE outq[1].flags = "SYN" /\ DeviceSyn /\ UNCHANGED <<devData, devGot, devAck>>
  <2>1. opener = "syn" /\ devState = "listen" /\ inq = <<>> /\ state # "connected"
    BY <1>1, <1>4 DEF Stream, SynFirst
  <2>2. \/ devState' = "open" \/ inq' = <<>> 
        \/ inq' = <<Packet("RST", 0, 0)>>
    <3>1. \A e : Append(<<>>, e) = <<e>>
      OBVIOUS
    <3> QED
      BY <1>4, <2>1, <3>1 DEF DeviceSyn, Receive
  <2>3. \A i \in 1..Len(inq') : inq'[i].kind = "SYNACK" => devState' # "listen"
    <3>1. Len(<<>>) = 0 /\ \A e : Len(<<e>>) = 1 /\ <<e>>[1] = e
      OBVIOUS
    <3> QED
      BY <2>2, <3>1 DEF Packet
  <2>4. ~ByWriter(1)
    BY <1>1, <1>4 DEF Written, DataFrames
  <2>5. Begun'
    BY <1>1, <1>4, <2>1, <2>3 DEF Written, Begun
  <2>6. Agreed' /\ InFlightGot' /\ WritesAccepted'
    BY <1>1, <1>3, <2>1, <2>4 DEF Written, Begun, Agreed, InFlightGot, WritesAccepted
  <2> QED
    BY <1>3, <2>5, <2>6 DEF Written
<1>5. CASE outq[1].flags = "ACK" /\ DeviceAck(outq[1]) /\ UNCHANGED <<devState, inq>>
  <2>1. CASE ByWriter(1) /\ devState = "open"
    <3>1. outq[1].len > 0 /\ outq[1].seq = txSeq /\ writes[outq[1].by] = "sending"
      BY <1>1, <2>1 DEF Written, DataFrames
    <3>2. opener = "resolved"
      BY <2>1, <3>1 DEF Written, Begun, ByWriter
    <3>3. Advance(1, devData) = txSeq
      <4>1. Advance(1, devData) = Advance(txSeq, 0)
        BY <1>3, <2>1, <3>2 DEF Written, Agreed
      <4> QED
        BY <1>2, <4>1, AdvanceNone
    <3>4. devData' = devData + outq[1].len /\ devGot' = devGot \cup {outq[1].by}
      BY <1>5, <2>1, <3>1, <3>3 DEF DeviceAck, Advance
    <3>5. Advance(1, devData') = Advance(txSeq, outq[1].len)
      <4>1. Advance(Advance(1, devData), outq[1].len) = Advance(1, devData + outq[1].len)
        BY <1>2, AdvanceTwice
      <4> QED
        BY <3>3, <3>4, <4>1
    <3>6. Begun'
      BY <1>1, <1>5, <3>2 DEF Written, Begun
    <3>7. Agreed'
      <4>1. devState' # "listen" /\ Advance(1, devData') = Advance(txSeq', InFlight')
        BY <1>1, <1>3, <1>5, <2>1, <3>5
      <4> QED
        BY <4>1 DEF Agreed
    <3>8. InFlightGot' /\ WritesAccepted'
      BY <1>1, <1>5, <3>4 DEF Written, InFlightGot, WritesAccepted
    <3> QED
      BY <1>3, <3>6, <3>7, <3>8 DEF Written
  <2>2. CASE ~ByWriter(1) \/ devState # "open"
    <3>1. UNCHANGED <<devData, devGot>>
      <4>1. ~ByWriter(1) => outq[1].len = 0
        BY <1>1 DEF Written, DataFrames
      <4> QED
        BY <1>5, <2>2, <4>1 DEF DeviceAck
    <3>2. Begun'
      BY <1>1, <1>5, <3>1 DEF Written, Begun
    <3>3. Agreed'
      <4>1. Agreed /\ (devState = "open" => InFlight' = InFlight)
        BY <1>3, <2>2 DEF Written
      <4> QED
        BY <1>1, <1>5, <3>1, <4>1 DEF Agreed, Advance
    <3>4. InFlightGot' /\ WritesAccepted'
      BY <1>1, <1>3, <1>5, <2>2, <3>1 DEF Written, InFlightGot, WritesAccepted
    <3> QED
      BY <1>3, <3>2, <3>3, <3>4 DEF Written
  <2> QED
    BY <2>1, <2>2
<1>6. CASE devState' = "closed" /\ UNCHANGED <<devData, devGot, devAck, inq>>
  <2>1. Begun'
    BY <1>1, <1>6 DEF Written, Begun
  <2>2. Agreed' /\ InFlightGot' /\ WritesAccepted'
    BY <1>1, <1>6 DEF Agreed, InFlightGot, WritesAccepted
  <2> QED
    BY <1>3, <2>1, <2>2 DEF Written
<1> QED
  BY <1>1, <1>4, <1>5, <1>6 DEF Deliver

\* The end of a transfer takes its frame off the queue; the one write that
\* waited goes on, and the host counts what the device has counted.
LEMMA SettleWritten ==
  ASSUME Waiters, Stream, Written, Settle \/ SettleFail
  PROVE  Written'
<1>1. /\ UNCHANGED <<state, devState, devData, devGot, inq>>
      /\ outq # <<>> /\ outq' = Tail(outq) /\ atDevice' = FALSE
      /\ outq \in Seq(FrameType) /\ Head(outq) = outq[1] /\ 1 \in 1..Len(outq)
  BY QueueElements, SMTT(30) DEF Settle, SettleFail, Dequeue, connVars, devVars, Waiters, TypeOK
<1>2. /\ Len(outq) \in Nat /\ Len(outq') = Len(outq) - 1
      /\ \A i \in 1..(Len(outq) - 1) : outq'[i] = outq[i + 1]
  BY ONLY <1>1, QueueElements
<1>3. \A i \in 1..Len(outq') : i + 1 \in 1..Len(outq) /\ i + 1 # 1 /\ outq'[i] = outq[i + 1]
  BY <1>2
<1>4. /\ txSeq \in 0..(Modulus - 1) /\ outq[1].len \in Nat
      /\ writes \in [Writes -> WriteStates]
  <2>1. outq[1] \in FrameType
    BY <1>1, QueueType
  <2> QED
    BY <2>1 DEF Waiters, TypeOK, FrameType
<1>5. InFlight' = 0
  BY <1>1 DEF InFlight
<1>6. \A i \in 1..Len(inq) : inq[i].kind = "SYNACK" => devState # "listen"
  BY DEF Written, Begun
<1>7. CASE outq[1].by \in Writes
  <2> DEFINE w == outq[1].by
  <2>1. /\ writes[w] = "sending" /\ opener = "resolved" /\ state # "connecting"
        /\ \A j \in 1..Len(outq) : ByWriter(j) => j = 1
    BY <1>1, <1>7 DEF Written, DataFrames, Begun, ByWriter
  <2>2. /\ UNCHANGED <<opener, handling>>
        /\ \/ atDevice /\ txSeq' = Advance(txSeq, outq[1].len)
                       /\ writes' = [writes EXCEPT ![w] = "ok"]
           \/ ~atDevice /\ txSeq' = txSeq /\ writes' = [writes EXCEPT ![w] = "error"]
    <3>1. CASE Settle
      BY <1>1, <1>7, <3>1, MuxTcpAssumption DEF Settle, WriteSent, openVars
    <3>2. CASE SettleFail
      BY <1>1, <1>7, <3>2, MuxTcpAssumption DEF SettleFail, connVars
    <3> QED
      BY <3>1, <3>2
  <2> HIDE DEF w
  <2>3. DataFrames'
    <3>1. \A i \in 1..Len(outq') : ~ByWriter(i)' /\ outq'[i].len = 0
      BY <1>3, <2>1 DEF Written, DataFrames, ByWriter
    <3> QED
      BY <3>1 DEF DataFrames
  <2>4. Begun'
    BY <1>1, <1>6, <2>1, <2>2 DEF Begun
  <2>5. Agreed'
    <3>1. InFlight = IF atDevice THEN outq[1].len ELSE 0
      BY <1>7 DEF InFlight, ByWriter
    <3>2. txSeq' = Advance(txSeq, InFlight)
      BY <1>4, <2>2, <3>1, AdvanceNone
    <3>3. Advance(txSeq', 0) = txSeq'
      <4>1. txSeq' \in 0..(Modulus - 1)
        <5>1. txSeq \in Nat /\ InFlight \in Nat
          BY <1>4, <3>1
        <5> QED
          BY <3>2, <5>1, AdvanceType
      <4> QED
        BY <4>1, AdvanceNone
    <3>4. /\ devState # "listen"
          /\ devState = "open" => Advance(1, devData) = Advance(txSeq, InFlight)
      BY <2>1 DEF Written, Agreed
    <3>5. devState' = "open" => Advance(1, devData') = Advance(txSeq', InFlight')
      BY <1>1, <1>5, <3>2, <3>3, <3>4
    <3> QED
      BY <1>1, <3>4, <3>5 DEF Agreed
  <2>6. InFlightGot'
    BY <1>1 DEF InFlightGot
  <2>7. WritesAccepted'
    <3>1. ASSUME NEW v \in Writes, writes'[v] = "ok", devState' = "open" PROVE v \in devGot'
      <4>1. CASE v = w /\ atDevice
        BY <1>1, <1>7, <3>1, <4>1 DEF Written, InFlightGot, ByWriter, w
      <4>2. CASE v # w \/ ~atDevice
        BY <1>1, <1>4, <2>2, <3>1, <4>2 DEF Written, WritesAccepted
      <4> QED
        BY <4>1, <4>2
    <3> QED
      BY <3>1 DEF WritesAccepted
  <2> QED
    BY <2>3, <2>4, <2>5, <2>6, <2>7 DEF Written
<1>8. CASE outq[1].by \notin Writes
  <2>1. /\ txSeq' = txSeq /\ writes' = writes /\ handling' \in {handling, "none"}
        /\ \/ opener' = opener
           \/ outq[1].by = "open" /\ opener' = "rejected"
           \/ outq[1].by = "open" /\ opener' = "armed" /\ state # "connected"
           \/ opener' = "resolved" /\ outq[1].by = "open" /\ state = "connected"
           \/ opener' = "resolved" /\ handling = "synack" /\ opener = "armed"
    <3>1. state \in {"connecting", "connected", "closed"}
      BY DEF Waiters, TypeOK
    <3>2. CASE Settle
      BY <1>1, <1>8, <3>1, <3>2 DEF Settle, OpenSent, AckSent, openVars
    <3>3. CASE SettleFail
      BY <1>1, <1>8, <3>3 DEF SettleFail, connVars
    <3> QED
      BY <3>2, <3>3
  <2>2. outq[1].by = "open" => opener = "syn"
    BY <1>1 DEF Stream, SynFirst
  <2>3. handling = "synack" /\ opener = "armed" => state = "connected"
    BY DEF Waiters, TypeOK, NoOrphanedWaiters, Written, Begun
  <2>4. /\ opener' = "resolved" => state = "connected" \/ opener = "resolved"
        /\ opener' # "resolved" => opener # "resolved"
    BY <2>1, <2>2, <2>3
  <2>5. InFlight = 0
    BY <1>8 DEF InFlight, ByWriter
  <2>6. DataFrames'
    <3>1. \A i \in 1..Len(outq') : ByWriter(i)' <=> ByWriter(i + 1)
      BY <1>3 DEF ByWriter
    <3>2. ASSUME NEW i \in 1..Len(outq'), ByWriter(i)'
          PROVE  /\ outq'[i].flags = "ACK" /\ outq'[i].len > 0 /\ outq'[i].seq = txSeq'
                 /\ writes'[outq'[i].by] = "sending"
                 /\ \A j \in 1..Len(outq') : ByWriter(j)' => j = i
      <4>1. i + 1 \in 1..Len(outq) /\ ByWriter(i + 1) /\ outq'[i] = outq[i + 1]
        BY <1>3, <3>1, <3>2
      <4>2. ASSUME NEW j \in 1..Len(outq'), ByWriter(j)' PROVE j = i
        <5>1. j + 1 = i + 1
          BY <1>3, <3>1, <4>1, <4>2 DEF Written, DataFrames
        <5> QED
          BY <1>2, <5>1
      <4> QED
        BY <2>1, <4>1, <4>2 DEF Written, DataFrames
    <3>3. ASSUME NEW i \in 1..Len(outq'), ~ByWriter(i)' PROVE outq'[i].len = 0
      BY <1>3, <3>1, <3>3 DEF Written, DataFrames
    <3> QED
      BY <3>2, <3>3 DEF DataFrames
  <2>7. Begun'
    <3>1. state = "connecting" => txSeq = 0 /\ handling = "none" /\ opener # "resolved"
      BY DEF Written, Begun
    <3>2. opener' # "resolved" => devData = 0 /\ \A w \in Writes : writes[w] = "new"
      BY <2>4 DEF Written, Begun
    <3>3. state = "connecting" => handling' = "none" /\ opener' # "resolved"
      BY <2>1, <2>4, <3>1
    <3> QED
      BY <1>1, <1>6, <2>1, <3>1, <3>2, <3>3 DEF Begun
  <2>8. Agreed'
    BY <1>1, <1>5, <2>1, <2>4, <2>5 DEF Written, Agreed, Advance
  <2>9. InFlightGot' /\ WritesAccepted'
    BY <1>1, <2>1 DEF Written, InFlightGot, WritesAccepted
  <2> QED
    BY <2>6, <2>7, <2>8, <2>9 DEF Written
<1> QED
  BY <1>7, <1>8

\* Any step of the system, or none, preserves it.
LEMMA NextWritten ==
  ASSUME Overlap = FALSE
  PROVE  Waiters /\ Stream /\ Written /\ [Next]_vars => Written'
<1> SUFFICES ASSUME Waiters, Stream, Written, [Next]_vars PROVE Written'
  OBVIOUS
<1>1. \A i \in 1..Len(inq) : inq[i].kind = "SYNACK" => devState # "listen"
  BY DEF Written, Begun
<1>2. CASE UNCHANGED vars
  BY <1>1, <1>2, SameWritten DEF vars, connVars, openVars, devVars
<1>3. ASSUME NEW e \in PacketType, e.kind # "SYNACK", Receive(e)
      PROVE  \A i \in 1..Len(inq') : inq'[i].kind = "SYNACK" => devState # "listen"
  <2>1. /\ Len(inq) \in Nat /\ Len(inq') = Len(inq) + 1
        /\ inq'[Len(inq) + 1] = e /\ \A i \in 1..Len(inq) : inq'[i] = inq[i]
    <3>1. inq \in Seq(PacketType) /\ inq' = Append(inq, e)
      BY <1>3 DEF Receive, Waiters, TypeOK
    <3> QED
      BY ONLY <3>1, e \in PacketType, QueueElements
  <2>2. \A i \in 1..Len(inq') : i \in 1..Len(inq) \/ i = Len(inq) + 1
    BY <2>1
  <2> QED
    BY <1>1, <1>3, <2>1, <2>2
<1>4. ASSUME NEW len \in Sizes, DeviceData(len) PROVE Written'
  <2> DEFINE e == Packet("DATA", (1 + devSent) % Modulus, len)
  <2>1. e \in PacketType /\ e.kind # "SYNACK" /\ Receive(e)
    <3>1. (1 + devSent) % Modulus \in Nat /\ len \in Nat
      BY MuxTcpAssumption DEF Waiters, TypeOK, Sizes
    <3> QED
      BY <1>4, <3>1 DEF DeviceData, Packet, PacketType
  <2> HIDE DEF e
  <2>2. UNCHANGED <<state, txSeq, opener, handling, devState, devData, devGot, writes,
                    atDevice, outq>>
    BY <1>4 DEF DeviceData, connVars, openVars
  <2> QED
    BY <1>3, <2>1, <2>2, SameWritten
<1>5. CASE DeviceReset
  <2> DEFINE e == Packet("RST", 0, 0)
  <2>1. e \in PacketType /\ e.kind # "SYNACK" /\ Receive(e)
    BY <1>5 DEF DeviceReset, Packet, PacketType
  <2> HIDE DEF e
  <2>2. /\ UNCHANGED <<state, txSeq, opener, handling, devData, devGot, writes, atDevice, outq>>
        /\ devState' = "closed"
    BY <1>5 DEF DeviceReset, connVars, openVars
  <2>3. DataFrames' /\ Begun'
    BY <2>2 DEF Written, DataFrames, ByWriter, Begun
  <2>4. Agreed' /\ InFlightGot' /\ WritesAccepted'
    BY <2>2 DEF Agreed, InFlightGot, WritesAccepted
  <2> QED
    BY <2>3, <2>4 DEF Written
<1> QED
  BY <1>2, <1>4, <1>5, CallWritten, HandleWritten, DeliverWritten, SettleWritten DEF Next

\* write() resolves only for data that the device took as the continuation of
\* its stream, wherever the counter wraps and whichever transfers fail, as long
\* as callers await one write before they start the next.
THEOREM WritesAreAccepted ==
  ASSUME Overlap = FALSE
  PROVE  Spec => []WritesAccepted
<1>1. Waiters /\ Stream /\ Written => WritesAccepted
  BY DEF Written
<1>2. Init => Waiters /\ Stream /\ Written
  BY InitWaiters, InitStream, InitWritten
<1>3. (Waiters /\ Stream /\ Written) /\ [Next]_vars => (Waiters /\ Stream /\ Written)'
  BY NextWaiters, NextStream, NextWritten
<1> QED
  BY <1>1, <1>2, <1>3, PTL DEF Spec

-----------------------------------------------------------------------------
(* What the device has seen acknowledged, when no transfer fails           *)

\* A transfer fails only after the unplugging, which ends the connection.
Unplugged == usb = "down" \/ opener = "rejected" => state = "closed"

\* A device that gave up has said so, unless the host did first.
Resets ==
  /\ \A i \in 1..Len(outq) : outq[i].flags = "RST" => state = "closed"
  /\ devState = "closed" /\ state # "closed" => inq # <<>> /\ inq[Len(inq)].kind = "RST"
  /\ state = "connected" => devState # "listen"
  /\ \A i \in 1..Len(inq) : inq[i].kind = "SYNACK" => devState # "listen"

\* The last frame the device has not seen carries the current
\* acknowledgement; without such a frame the device has it already.
LastAck ==
  /\ atDevice => outq # <<>>
  /\ state = "connected" =>
       IF Len(outq) = 0 \/ (Len(outq) = 1 /\ atDevice)
         THEN devAck = txAck ELSE outq[Len(outq)].ack = txAck

Acked == Unplugged /\ Resets /\ LastAck

\* Init establishes it.
LEMMA InitAcked == Init => Acked
<1> SUFFICES ASSUME Init PROVE Acked
  OBVIOUS
<1>1. Len(outq) = 0 /\ Len(inq) = 0
  BY DEF Init
<1> QED
  BY <1>1 DEF Init, Acked, Unplugged, Resets, LastAck

\* Every step that loses the device or fails open() closes the connection.
LEMMA NextUnplugged ==
  ASSUME Faults = FALSE, Waiters, Stream, Unplugged, [Next]_vars
  PROVE  Unplugged'
<1>1. ASSUME Terminate PROVE Unplugged'
  BY <1>1 DEF Terminate, Unplugged
<1>2. ASSUME UNCHANGED <<usb, state>>, opener' = "rejected" => opener = "rejected"
      PROVE  Unplugged'
  BY <1>2 DEF Unplugged
<1>3. CASE Open \/ ConnectTimeout \/ Close
  BY <1>1, <1>2, <1>3 DEF Open, ConnectTimeout, Close, connVars
<1>4. CASE Disconnect
  <2>1. CASE InTable
    BY <1>1, <1>4, <2>1 DEF Disconnect
  <2>2. CASE ~InTable
    <3>1. state = "closed"
      BY <1>4, <2>2 DEF Disconnect, InTable, Unplugged
    <3> QED
      BY <1>4, <2>2, <3>1 DEF Disconnect, connVars, Unplugged
  <2> QED
    BY <2>1, <2>2
<1>5. ASSUME NEW w \in Writes, NEW n \in Sizes, Write(w, n) PROVE Unplugged'
  BY <1>2, <1>5 DEF Write, connVars, openVars
<1>6. ASSUME NEW r \in Reads, NEW n \in Sizes, ReadExact(r, n) PROVE Unplugged'
  BY <1>2, <1>6 DEF ReadExact, connVars, openVars
<1>7. CASE HandlePacket
  <2>1. CASE InTable
    <3>1. opener # "rejected" /\ usb' = usb /\ usb # "down"
      BY <1>7, <2>1 DEF HandlePacket, InTable, Unplugged
    <3>2. Terminate \/ opener' = opener
      BY <1>7, <2>1 DEF HandlePacket, Connecting, Connected, openVars
    <3> QED
      BY <1>1, <3>1, <3>2 DEF Unplugged
  <2>2. CASE ~InTable
    BY <1>2, <1>7, <2>2 DEF HandlePacket, InTable, connVars, openVars
  <2> QED
    BY <2>1, <2>2
<1>8. CASE Deliver
  BY <1>2, <1>8 DEF Deliver, connVars, openVars
<1>9. CASE Settle
  <2>1. /\ UNCHANGED <<usb, state>>
        /\ opener' = "rejected" => opener = "rejected" \/ state = "closed"
    BY <1>9 DEF Settle, OpenSent, AckSent, openVars
  <2> QED
    BY <2>1 DEF Unplugged
<1>10. CASE SettleFail
  <2>1. usb = "down" /\ UNCHANGED state
    BY <1>10 DEF SettleFail, connVars
  <2> QED
    BY <2>1 DEF Unplugged
<1>11. ASSUME NEW len \in Sizes, DeviceData(len) PROVE Unplugged'
  BY <1>2, <1>11 DEF DeviceData, connVars, openVars
<1>12. CASE DeviceReset
  BY <1>2, <1>12 DEF DeviceReset, connVars, openVars
<1>13. CASE UNCHANGED vars
  BY <1>2, <1>13 DEF vars, connVars, openVars
<1> QED
  BY <1>3, <1>4, <1>5, <1>6, <1>7, <1>8, <1>9, <1>10, <1>11, <1>12, <1>13 DEF Next

\* A step that neither opens the device's end nor touches the queues keeps it.
LEMMA SameResets ==
  ASSUME Resets, UNCHANGED <<outq, inq, devState>>, state' \in {state, "closed"}
  PROVE  Resets'
BY DEF Resets

\* A frame that is no RST, or the RST of a closed connection, may be queued.
LEMMA SendResets ==
  ASSUME Waiters, Resets, NEW f \in FrameType, SendFrame(f),
         f.flags = "RST" => state' = "closed",
         state = "closed" => state' = "closed"
  PROVE  \A i \in 1..Len(outq') : outq'[i].flags = "RST" => state' = "closed"
<1>1. /\ Len(outq) \in Nat /\ Len(outq') = Len(outq) + 1
      /\ outq'[Len(outq) + 1] = f /\ \A i \in 1..Len(outq) : outq'[i] = outq[i]
  BY QueueElements DEF SendFrame, Waiters, TypeOK
<1>2. \A i \in 1..Len(outq') : i = Len(outq) + 1 \/ i \in 1..Len(outq)
  BY <1>1
<1> QED
  BY <1>1, <1>2 DEF Resets

\* What handlePacket() does to a packet p: nothing, the end of the
\* connection, or an ACK that carries the new txAck.
LEMMA HandleEffect ==
  ASSUME Waiters, Unplugged, Stream, HandlePacket
  PROVE  \/ /\ UNCHANGED <<state, txAck, outq>>
            /\ state # "closed" => inq[1].kind # "RST"
         \/ state' = "closed" /\ UNCHANGED <<txAck, outq>>
         \/ /\ state # "closed" /\ state' = "connected"
            /\ state = "connected" \/ inq[1].kind = "SYNACK"
            /\ inq[1].kind # "RST"
            /\ \E f \in FrameType : f.flags = "ACK" /\ f.ack = txAck' /\ SendFrame(f)
<1> DEFINE p == inq[1]
<1>1. /\ inq # <<>> /\ Head(inq) = p /\ inq \in Seq(PacketType)
  BY QueueElements DEF HandlePacket, Waiters, TypeOK
<1>2. p \in PacketType
  BY <1>1, QueueType
<1>3. opener # "idle" /\ (opener = "rejected" => state = "closed")
      /\ state \in {"connecting", "connected", "closed"}
  BY <1>1 DEF Stream, SynFirst, Unplugged, Waiters, TypeOK
<1> HIDE DEF p
<1>4. p.kind \in {"SYNACK", "RST", "DATA"} /\ p.seq \in Nat /\ p.len \in Nat
      /\ txSeq \in 0..(Modulus - 1) /\ 1 \in Nat
  BY <1>2, MuxTcpAssumption DEF PacketType, Waiters, TypeOK
<1>5. ASSUME NEW seq \in 0..(Modulus - 1), NEW ack \in 0..(Modulus - 1), ack = txAck',
             SendFrame(Frame("ACK", seq, ack, 0, "handler"))
      PROVE  \E f \in FrameType : f.flags = "ACK" /\ f.ack = txAck' /\ SendFrame(f)
  <2> DEFINE g == Frame("ACK", seq, ack, 0, "handler")
  <2>1. g \in FrameType /\ g.flags = "ACK" /\ g.ack = txAck' /\ SendFrame(g)
    <3>1. "handler" \in Owners
      BY DEF Owners
    <3> QED
      BY <1>5, <3>1, FrameTyped DEF Frame
  <2> QED
    BY <2>1
<1>6. CASE state = "connecting" /\ Connecting(p)
  <2>1. CASE p.kind = "SYNACK"
    <3>1. /\ txSeq' = Advance(txSeq, 1) /\ txAck' = Advance(p.seq, 1) /\ state' = "connected"
          /\ SendFrame(Frame("ACK", txSeq', txAck', 0, "handler"))
      BY <1>6, <2>1 DEF Connecting
    <3>2. txSeq' \in 0..(Modulus - 1) /\ txAck' \in 0..(Modulus - 1)
      <4>1. txSeq \in Nat
        BY <1>4, MuxTcpAssumption
      <4> QED
        BY <1>4, <3>1, <4>1, AdvanceType
    <3>3. PICK seq \in 0..(Modulus - 1), ack \in 0..(Modulus - 1) : seq = txSeq' /\ ack = txAck'
      BY <3>2
    <3>4. SendFrame(Frame("ACK", seq, ack, 0, "handler"))
      BY <3>1, <3>3
    <3> QED
      BY <1>5, <1>6, <2>1, <3>1, <3>3, <3>4 DEF p
  <2>2. CASE p.kind = "RST"
    BY <1>6, <2>2 DEF Connecting, Terminate
  <2>3. CASE p.kind = "DATA"
    BY <1>6, <2>3 DEF Connecting, connVars, p
  <2> QED
    BY <1>4, <2>1, <2>2, <2>3
<1>7. CASE state = "connected" /\ Connected(p)
  <2>1. CASE p.kind = "DATA"
    <3>1. /\ txAck' = Advance(p.seq, p.len) /\ state' = state
          /\ SendFrame(Frame("ACK", txSeq, txAck', 0, "handler"))
      BY <1>7, <2>1 DEF Connected, Data
    <3>2. txAck' \in 0..(Modulus - 1)
      BY <1>4, <3>1, AdvanceType
    <3>3. PICK ack \in 0..(Modulus - 1) : ack = txAck'
      BY <3>2
    <3>4. SendFrame(Frame("ACK", txSeq, ack, 0, "handler"))
      BY <3>1, <3>3
    <3> QED
      BY <1>4, <1>5, <1>7, <2>1, <3>1, <3>3, <3>4 DEF p
  <2>2. CASE p.kind = "RST"
    BY <1>7, <2>2 DEF Connected, Terminate
  <2>3. CASE p.kind = "SYNACK"
    BY <1>7, <2>3 DEF Connected, connVars, p
  <2> QED
    BY <1>4, <2>1, <2>2, <2>3
<1>8. CASE ~InTable /\ UNCHANGED <<connVars, outq>>
  BY <1>3, <1>8 DEF InTable, connVars
<1> QED
  BY <1>1, <1>6, <1>7, <1>8 DEF HandlePacket

\* Handling a packet: an RST that comes last closes the connection.
LEMMA HandleResets ==
  ASSUME Waiters, Stream, Unplugged, Resets, HandlePacket
  PROVE  Resets'
<1>1. /\ inq # <<>> /\ inq' = Tail(inq) /\ inq \in Seq(PacketType) /\ UNCHANGED devState
  BY DEF HandlePacket, devVars, Waiters, TypeOK
<1>2. /\ Len(inq) \in Nat /\ Len(inq) > 0 /\ Len(inq') = Len(inq) - 1
      /\ \A i \in 1..(Len(inq) - 1) : inq'[i] = inq[i + 1]
  BY ONLY <1>1, QueueElements
<1>3. inq' # <<>> <=> Len(inq) # 1
  <2>1. inq' \in Seq(PacketType)
    BY <1>1, QueueType
  <2>2. inq' = <<>> <=> Len(inq') = 0
    BY <2>1, QueueElements
  <2> QED
    BY <1>2, <2>2
<1>4. \A i \in 1..Len(inq') : inq'[i].kind = "SYNACK" => devState' # "listen"
  BY <1>1, <1>2 DEF Resets
<1>5. inq[1].kind = "SYNACK" => devState # "listen"
  BY <1>2 DEF Resets
<1>6. ASSUME devState = "closed", state # "closed", inq[1].kind # "RST"
      PROVE  inq' # <<>> /\ inq'[Len(inq')].kind = "RST"
  <2>1. inq[Len(inq)].kind = "RST" /\ Len(inq) # 1
    BY <1>6 DEF Resets
  <2>2. Len(inq') \in 1..(Len(inq) - 1) /\ inq'[Len(inq')] = inq[Len(inq)]
    BY <1>2, <2>1
  <2> QED
    BY <1>3, <2>1, <2>2
<1>7. CASE UNCHANGED <<state, outq>> /\ (state # "closed" => inq[1].kind # "RST")
  BY <1>1, <1>4, <1>6, <1>7 DEF Resets
<1>8. CASE state' = "closed" /\ UNCHANGED outq
  BY <1>1, <1>4, <1>8 DEF Resets
<1>9. CASE /\ state # "closed" /\ state' = "connected" /\ inq[1].kind # "RST"
           /\ state = "connected" \/ inq[1].kind = "SYNACK"
           /\ \E f \in FrameType : f.flags = "ACK" /\ SendFrame(f)
  <2>1. \A i \in 1..Len(outq') : outq'[i].flags = "RST" => state' = "closed"
    BY <1>9, SendResets
  <2>2. devState' # "listen"
    BY <1>1, <1>5, <1>9 DEF Resets
  <2> QED
    BY <1>1, <1>4, <1>6, <1>9, <2>1, <2>2 DEF Resets
<1> QED
  BY <1>7, <1>8, <1>9, HandleEffect

\* The device's packets: an RST is the last one it queues.
LEMMA DeviceResets ==
  ASSUME Waiters, Stream, Resets, Deliver \/ DeviceReset \/ \E len \in Sizes : DeviceData(len)
  PROVE  Resets'
<1>1. UNCHANGED <<state, outq>> /\ inq \in Seq(PacketType)
  BY DEF Deliver, DeviceReset, DeviceData, connVars, Waiters, TypeOK
<1>2. ASSUME NEW e \in PacketType, Receive(e), e.kind = "SYNACK" => devState' # "listen",
             devState' = "closed" /\ state # "closed" => e.kind = "RST",
             devState' = "listen" => devState = "listen"
      PROVE  Resets'
  <2>1. /\ Len(inq) \in Nat /\ Len(inq') = Len(inq) + 1 /\ inq' # <<>>
        /\ inq'[Len(inq) + 1] = e /\ \A i \in 1..Len(inq) : inq'[i] = inq[i]
    <3>1. inq' = Append(inq, e)
      BY <1>2 DEF Receive
    <3> QED
      BY ONLY <1>1, <3>1, e \in PacketType, QueueElements
  <2>2. \A i \in 1..Len(inq') : i = Len(inq) + 1 \/ i \in 1..Len(inq)
    BY <2>1
  <2>3. \A i \in 1..Len(inq') : inq'[i].kind = "SYNACK" => devState' # "listen"
    BY <1>2, <2>1, <2>2 DEF Resets
  <2> QED
    BY <1>1, <1>2, <2>1, <2>3 DEF Resets
<1>3. ASSUME NEW len \in Sizes, DeviceData(len) PROVE Resets'
  <2> DEFINE e == Packet("DATA", (1 + devSent) % Modulus, len)
  <2>1. e \in PacketType /\ e.kind = "DATA" /\ Receive(e)
    <3>1. (1 + devSent) % Modulus \in Nat /\ len \in Nat
      BY MuxTcpAssumption DEF Waiters, TypeOK, Sizes
    <3> QED
      BY <1>3, <3>1 DEF DeviceData, Packet, PacketType
  <2> HIDE DEF e
  <2> QED
    BY <1>2, <1>3, <2>1 DEF DeviceData
<1>4. Packet("RST", 0, 0) \in PacketType /\ Packet("RST", 0, 0).kind = "RST"
      /\ Packet("SYNACK", 0, 0) \in PacketType /\ Packet("SYNACK", 0, 0).kind = "SYNACK"
  BY DEF Packet, PacketType
<1>5. CASE DeviceReset
  BY <1>2, <1>4, <1>5 DEF DeviceReset
<1>6. CASE Deliver
  <2>1. outq # <<>> /\ ~atDevice /\ Head(outq) = outq[1] /\ 1 \in 1..Len(outq)
    BY <1>6, QueueElements DEF Deliver, Waiters, TypeOK
  <2>2. CASE outq[1].flags = "SYN" /\ DeviceSyn
    <3>1. devState = "listen" /\ state # "connected"
      BY <2>1, <2>2 DEF Stream, SynFirst
    <3>2. CASE UNCHANGED <<devState, inq>>
      BY <1>1, <3>2, SameResets
    <3>3. CASE devState' = "open" /\ Receive(Packet("SYNACK", 0, 0))
      BY <1>2, <1>4, <3>3
    <3>4. CASE UNCHANGED devState /\ Receive(Packet("RST", 0, 0))
      BY <1>2, <1>4, <3>1, <3>4
    <3> QED
      BY <2>2, <3>2, <3>3, <3>4 DEF DeviceSyn
  <2>3. CASE UNCHANGED <<devState, inq>>
    BY <1>1, <2>3, SameResets
  <2>4. CASE outq[1].flags = "RST" /\ devState' = "closed" /\ UNCHANGED inq
    <3>1. state = "closed"
      BY <2>1, <2>4 DEF Resets
    <3> QED
      BY <1>1, <2>4, <3>1 DEF Resets
  <2> QED
    BY <1>6, <2>1, <2>2, <2>3, <2>4 DEF Deliver
<1> QED
  BY <1>3, <1>5, <1>6

\* Any step of the system, or none, keeps it.
LEMMA NextResets ==
  ASSUME Waiters, Stream, Unplugged, Resets, [Next]_vars
  PROVE  Resets'
<1>1. /\ txSeq \in 0..(Modulus - 1) /\ txAck \in 0..(Modulus - 1)
      /\ {"open", "handler", "close"} \subseteq Owners /\ Writes \subseteq Owners
      /\ Sizes \subseteq Nat /\ 0 \in Nat
  BY DEF Waiters, TypeOK, Owners, Sizes
<1>2. CASE Open
  <2> DEFINE f == Frame("SYN", txSeq, txAck, 0, "open")
  <2>1. f \in FrameType /\ f.flags = "SYN" /\ SendFrame(f)
    BY <1>1, <1>2, FrameTyped DEF Open, Frame
  <2> HIDE DEF f
  <2>2. UNCHANGED <<state, devState, inq>>
    BY <1>2 DEF Open, connVars, devVars
  <2> QED
    BY <2>1, <2>2, SendResets DEF Resets
<1>3. CASE Close
  <2> DEFINE f == Frame("RST", txSeq, txAck, 0, "close")
  <2>1. f \in FrameType /\ SendFrame(f)
    BY <1>1, <1>3, FrameTyped DEF Close
  <2> HIDE DEF f
  <2>2. UNCHANGED <<devState, inq>> /\ state' = "closed"
    BY <1>3 DEF Close, devVars, Terminate
  <2> QED
    BY <2>1, <2>2, SendResets DEF Resets
<1>4. ASSUME NEW w \in Writes, NEW n \in Sizes, Write(w, n) PROVE Resets'
  <2> DEFINE f == Frame("ACK", txSeq, txAck, n, w)
  <2>1. UNCHANGED <<state, devState, inq>> /\ (UNCHANGED outq \/ SendFrame(f))
    BY <1>4 DEF Write, connVars, devVars
  <2>2. f \in FrameType /\ f.flags = "ACK"
    BY <1>1, FrameTyped DEF Frame
  <2> HIDE DEF f
  <2>3. CASE UNCHANGED outq
    BY <2>1, <2>3, SameResets
  <2>4. CASE SendFrame(f)
    BY <2>1, <2>2, <2>4, SendResets DEF Resets
  <2> QED
    BY <2>1, <2>3, <2>4
<1>5. ASSUME UNCHANGED <<outq, inq, devState>>, Terminate \/ UNCHANGED state PROVE Resets'
  BY <1>5, SameResets DEF Terminate
<1>6. CASE ConnectTimeout \/ Disconnect
  BY <1>5, <1>6 DEF ConnectTimeout, Disconnect, connVars, devVars
<1>7. ASSUME NEW r \in Reads, NEW n \in Sizes, ReadExact(r, n) PROVE Resets'
  BY <1>5, <1>7 DEF ReadExact, connVars, devVars
<1>8. CASE UNCHANGED vars
  BY <1>5, <1>8 DEF vars, connVars, devVars
<1>9. CASE Settle \/ SettleFail
  <2>1. UNCHANGED <<state, devState, inq>> /\ outq # <<>> /\ outq' = Tail(outq)
        /\ outq \in Seq(FrameType)
    BY <1>9 DEF Settle, SettleFail, Dequeue, connVars, devVars, Waiters, TypeOK
  <2>2. /\ Len(outq) \in Nat /\ Len(outq') = Len(outq) - 1
        /\ \A i \in 1..(Len(outq) - 1) : outq'[i] = outq[i + 1]
    BY ONLY <2>1, QueueElements
  <2>3. \A i \in 1..Len(outq') : i + 1 \in 1..Len(outq) /\ outq'[i] = outq[i + 1]
    BY <2>2
  <2> QED
    BY <2>1, <2>3 DEF Resets
<1> QED
  BY <1>2, <1>3, <1>4, <1>6, <1>7, <1>8, <1>9, HandleResets, DeviceResets DEF Next

\* A frame with the current acknowledgement at the end of the queue is one
\* the device has not seen.
LEMMA SendLastAck ==
  ASSUME Waiters, LastAck, UNCHANGED atDevice,
         NEW f \in FrameType, SendFrame(f), f.ack = txAck'
  PROVE  LastAck'
<1>1. /\ Len(outq) \in Nat /\ Len(outq') = Len(outq) + 1 /\ outq' # <<>>
      /\ outq'[Len(outq')] = f /\ (outq = <<>> <=> Len(outq) = 0)
  <2>1. outq \in Seq(FrameType) /\ outq' = Append(outq, f)
    BY DEF SendFrame, Waiters, TypeOK
  <2>2. /\ Len(outq) \in Nat /\ Len(outq') = Len(outq) + 1 /\ outq' # <<>>
        /\ outq'[Len(outq) + 1] = f /\ (outq = <<>> <=> Len(outq) = 0)
    BY ONLY <2>1, f \in FrameType, QueueElements
  <2> QED
    BY <2>2
<1>2. ~(Len(outq') = 0 \/ (Len(outq') = 1 /\ atDevice'))
  BY <1>1 DEF LastAck
<1> QED
  BY <1>1, <1>2 DEF LastAck

\* A step that leaves the counters, the frames and the device's end alone, or
\* ends the connection, keeps it.
LEMMA SameLastAck ==
  ASSUME LastAck, UNCHANGED <<atDevice, outq>>,
         state' = "closed" \/ UNCHANGED <<state, txAck, devAck>>
  PROVE  LastAck'
BY DEF LastAck

\* The transfers: what the device sees last is what the host sent last.
LEMMA LinkLastAck ==
  ASSUME Faults = FALSE, Waiters, Stream, Unplugged, Resets, LastAck,
         Deliver \/ Settle \/ SettleFail
  PROVE  LastAck'
<1>1. /\ UNCHANGED <<state, txAck>> /\ outq # <<>> /\ outq \in Seq(FrameType)
      /\ Head(outq) = outq[1]
  BY QueueElements DEF Deliver, Settle, SettleFail, connVars, Waiters, TypeOK
<1>2. Len(outq) \in Nat /\ Len(outq) > 0
  BY <1>1, QueueElements
<1>3. CASE Deliver
  <2>1. UNCHANGED outq /\ ~atDevice /\ atDevice'
    BY <1>3 DEF Deliver
  <2>2. CASE outq[1].flags = "SYN" \/ outq[1].flags = "RST"
    <3>1. state # "connected"
      BY <1>1, <1>2, <2>1, <2>2 DEF Stream, SynFirst, Resets
    <3> QED
      BY <1>1, <2>1, <3>1 DEF LastAck
  <2>3. CASE outq[1].flags = "ACK"
    <3>1. devAck' = outq[1].ack
      BY <1>1, <1>3, <2>3 DEF Deliver, DeviceAck
    <3> QED
      BY <1>1, <1>2, <2>1, <3>1 DEF LastAck
  <2>4. outq[1] \in FrameType
    BY <1>1, QueueType
  <2> QED
    BY <2>2, <2>3, <2>4 DEF FrameType
<1>4. CASE Settle
  <2>1. atDevice /\ ~atDevice' /\ outq' = Tail(outq) /\ UNCHANGED devAck
    BY <1>4 DEF Settle, Dequeue, devVars
  <2>2. /\ Len(outq') = Len(outq) - 1
        /\ \A i \in 1..(Len(outq) - 1) : outq'[i] = outq[i + 1]
    BY ONLY <1>1, <2>1, QueueElements
  <2>3. Len(outq') # 0 => outq'[Len(outq')] = outq[Len(outq)]
    BY <1>2, <2>2
  <2> QED
    BY <1>1, <1>2, <2>1, <2>2, <2>3 DEF LastAck
<1>5. CASE SettleFail
  <2>1. state' = "closed" /\ ~atDevice'
    BY <1>1, <1>5 DEF SettleFail, Dequeue, Unplugged
  <2> QED
    BY <2>1 DEF LastAck
<1> QED
  BY <1>3, <1>4, <1>5

\* Any step of the system, or none, keeps it.
LEMMA NextLastAck ==
  ASSUME Faults = FALSE, Waiters, Stream, Unplugged, Resets, LastAck, [Next]_vars
  PROVE  LastAck'
<1>1. /\ txSeq \in 0..(Modulus - 1) /\ txAck \in 0..(Modulus - 1)
      /\ {"open", "handler", "close"} \subseteq Owners /\ Writes \subseteq Owners
      /\ Sizes \subseteq Nat /\ 0 \in Nat
  BY DEF Waiters, TypeOK, Owners, Sizes
<1>2. CASE Open
  <2> DEFINE f == Frame("SYN", txSeq, txAck, 0, "open")
  <2>1. f \in FrameType /\ f.ack = txAck /\ SendFrame(f)
    BY <1>1, <1>2, FrameTyped DEF Open, Frame
  <2> HIDE DEF f
  <2>2. UNCHANGED <<txAck, atDevice>>
    BY <1>2 DEF Open, connVars
  <2> QED
    BY <2>1, <2>2, SendLastAck
<1>3. CASE Close
  <2> DEFINE f == Frame("RST", txSeq, txAck, 0, "close")
  <2>1. f \in FrameType /\ f.ack = txAck /\ SendFrame(f)
    BY <1>1, <1>3, FrameTyped DEF Close, Frame
  <2> HIDE DEF f
  <2>2. UNCHANGED <<txAck, atDevice>>
    BY <1>3 DEF Close, Terminate
  <2> QED
    BY <2>1, <2>2, SendLastAck
<1>4. ASSUME NEW w \in Writes, NEW n \in Sizes, Write(w, n) PROVE LastAck'
  <2> DEFINE f == Frame("ACK", txSeq, txAck, n, w)
  <2>1. UNCHANGED <<state, txAck, devAck, atDevice>> /\ (UNCHANGED outq \/ SendFrame(f))
    BY <1>4 DEF Write, connVars, devVars
  <2>2. f \in FrameType /\ f.ack = txAck
    BY <1>1, FrameTyped DEF Frame
  <2> HIDE DEF f
  <2> QED
    BY <2>1, <2>2, SameLastAck, SendLastAck
<1>5. ASSUME UNCHANGED <<outq, atDevice, devAck>>, Terminate \/ UNCHANGED <<state, txAck>>
      PROVE  LastAck'
  BY <1>5, SameLastAck DEF Terminate
<1>6. CASE ConnectTimeout \/ Disconnect
  BY <1>5, <1>6 DEF ConnectTimeout, Disconnect, connVars, devVars
<1>7. ASSUME NEW r \in Reads, NEW n \in Sizes, ReadExact(r, n) PROVE LastAck'
  BY <1>5, <1>7 DEF ReadExact, connVars, devVars
<1>8. CASE HandlePacket
  <2>1. UNCHANGED <<atDevice, devAck>>
    BY <1>8 DEF HandlePacket, devVars
  <2> QED
    BY <1>8, <2>1, HandleEffect, SameLastAck, SendLastAck
<1>9. CASE DeviceReset \/ \E len \in Sizes : DeviceData(len)
  BY <1>5, <1>9 DEF DeviceReset, DeviceData, connVars
<1>10. CASE UNCHANGED vars
  BY <1>5, <1>10 DEF vars, connVars, devVars
<1> QED
  BY <1>2, <1>3, <1>4, <1>6, <1>7, <1>8, <1>9, <1>10, LinkLastAck DEF Next

\* As long as no transfer to a plugged-in device fails, a link that has come
\* to rest has told the device that every byte it sent was taken.
THEOREM NoByteUnacknowledged ==
  ASSUME Faults = FALSE
  PROVE  Spec => []EveryByteAcked
<1>1. Waiters /\ Stream /\ Acked => EveryByteAcked
  <2> SUFFICES ASSUME Waiters, Stream, Acked, state = "connected", outq = <<>>, inq = <<>>
               PROVE  devAck = (1 + devSent) % Modulus
    BY DEF EveryByteAcked
  <2>1. Len(outq) = 0 /\ opener # "rejected"
    BY DEF Acked, Unplugged
  <2>2. devState = "open"
    BY DEF Acked, Resets, Waiters, TypeOK
  <2>3. devAck = txAck
    BY <2>1 DEF Acked, LastAck
  <2>4. txAck = Advance(1, devSent)
    BY <2>1, <2>2 DEF Stream, NextExpected, Live
  <2> QED
    BY <2>3, <2>4 DEF Advance
<1>2. Init => Waiters /\ Stream /\ Acked
  BY InitWaiters, InitStream, InitAcked
<1>3. (Waiters /\ Stream /\ Acked) /\ [Next]_vars => (Waiters /\ Stream /\ Acked)'
  BY NextWaiters, NextStream, NextUnplugged, NextResets, NextLastAck DEF Acked
<1> QED
  BY <1>1, <1>2, <1>3, PTL DEF Spec

-----------------------------------------------------------------------------
(* The bytes themselves, which do not wrap                                 *)

\* The connection as the stream of bytes its readers see.
Bytes ==
  INSTANCE ByteStream WITH
    sent <- devSent, got <- rxTaken + rxLen, read <- rxTaken,
    ended <- state = "closed"
ImplementsByteStream == Bytes!StreamSpec

\* While the connection is made, every byte the device sent was taken or is on
\* its way: nothing is dropped between two segments.
NothingLost ==
  (state = "connected" /\ opener # "rejected" /\ inq = <<>>)
    => rxTaken + rxLen = devSent

\* Where the packets on their way start in the device's stream; the last
\* entry is where the next one will.
Starts(at) ==
  /\ at \in [1..(Len(inq) + 1) -> 0..devSent]
  /\ at[Len(inq) + 1] = devSent
  /\ \A i \in 1..Len(inq) : at[i + 1] = at[i] + inq[i].len

\* A live connection has taken what comes before the next packet, one that has
\* ended no more than that.
Taken(n) ==
  /\ rxTaken + rxLen <= n
  /\ Live => rxTaken + rxLen = n

Counted ==
  /\ \A i \in 1..Len(inq) : inq[i].len > 0 <=> inq[i].kind = "DATA"
  /\ \E at \in [1..(Len(inq) + 1) -> 0..devSent] : Starts(at) /\ Taken(at[1])

\* Init establishes it.
LEMMA InitCounted == Init => Counted
<1> SUFFICES ASSUME Init PROVE Counted
  OBVIOUS
<1> DEFINE at == [i \in 1..1 |-> 0]
<1>1. Len(inq) = 0 /\ devSent = 0 /\ rxTaken = 0 /\ rxLen = 0 /\ opener = "idle"
  BY DEF Init
<1>2. at \in [1..1 -> 0..0] /\ at[1] = 0
  OBVIOUS
<1> HIDE DEF at
<1>3. Starts(at) /\ Taken(at[1])
  BY <1>1, <1>2 DEF Starts, Taken
<1> QED
  BY <1>1, <1>2, <1>3 DEF Counted

\* A step that moves no packet and takes no byte keeps it.
LEMMA SameCounted ==
  ASSUME Counted, UNCHANGED <<inq, devSent>>, rxTaken' + rxLen' = rxTaken + rxLen,
         Live' => Live
  PROVE  Counted'
BY DEF Counted, Starts, Taken

\* The device queues a packet at the end of its stream.
LEMMA AppendCounted ==
  ASSUME Waiters, Counted, NEW e \in PacketType, inq' = Append(inq, e),
         devSent' = devSent + e.len, e.len > 0 <=> e.kind = "DATA",
         UNCHANGED <<rxTaken, rxLen, state, opener>>
  PROVE  Counted'
<1>1. PICK at \in [1..(Len(inq) + 1) -> 0..devSent] : Starts(at) /\ Taken(at[1])
  BY DEF Counted
<1> DEFINE l == Len(inq)
           new == [i \in 1..(l + 2) |-> IF i = l + 2 THEN devSent' ELSE at[i]]
<1>2. /\ l \in Nat /\ Len(inq') = l + 1 /\ inq'[l + 1] = e
      /\ \A i \in 1..l : inq'[i] = inq[i]
  BY QueueElements DEF Waiters, TypeOK
<1>3. devSent \in Nat /\ e.len \in Nat /\ devSent' \in Nat /\ devSent <= devSent'
  BY DEF Waiters, TypeOK, PacketType
<1> HIDE DEF l
<1>4. at \in [1..(l + 1) -> 0..devSent] /\ at[l + 1] = devSent
      /\ \A i \in 1..l : at[i + 1] = at[i] + inq[i].len
  BY <1>1 DEF Starts, l
<1>5. new \in [1..(l + 2) -> 0..devSent']
  BY <1>2, <1>3, <1>4
<1>6. new[l + 2] = devSent' /\ \A i \in 1..(l + 1) : new[i] = at[i]
  BY <1>2
<1> HIDE DEF new
<1>7. ASSUME NEW i \in 1..(l + 1) PROVE new[i + 1] = new[i] + inq'[i].len
  <2>1. CASE i = l + 1
    BY <1>2, <1>4, <1>6, <2>1
  <2>2. CASE i \in 1..l
    <3>1. i + 1 \in 1..(l + 1)
      BY <1>2, <2>2
    <3> QED
      BY <1>2, <1>4, <1>6, <2>2, <3>1
  <2> QED
    BY <1>2, <2>1, <2>2
<1>8. (l + 1) + 1 = l + 2 /\ 1 \in 1..(l + 1)
  BY <1>2
<1>9. /\ new \in [1..(Len(inq') + 1) -> 0..devSent'] /\ new[Len(inq') + 1] = devSent'
      /\ \A i \in 1..Len(inq') : new[i + 1] = new[i] + inq'[i].len
  BY <1>2, <1>5, <1>6, <1>7, <1>8
<1>10. rxTaken' + rxLen' <= new[1] /\ (Live' => rxTaken' + rxLen' = new[1])
  BY <1>1, <1>6, <1>8 DEF Taken, Live
<1>11. \A i \in 1..Len(inq') : inq'[i].len > 0 <=> inq'[i].kind = "DATA"
  <2>1. \A i \in 1..l : inq[i].len > 0 <=> inq[i].kind = "DATA"
    BY DEF Counted, l
  <2>2. \A i \in 1..Len(inq') : i = l + 1 \/ i \in 1..l
    BY <1>2
  <2> QED
    BY <1>2, <2>1, <2>2
<1> QED
  BY <1>9, <1>10, <1>11 DEF Counted, Starts, Taken

\* The next packet is handled: a live connection has taken its bytes.
LEMMA TailCounted ==
  ASSUME Waiters, Counted, inq # <<>>, inq' = Tail(inq), UNCHANGED devSent,
         \/ ~Live' /\ rxTaken' + rxLen' = rxTaken + rxLen
         \/ Live /\ rxTaken' + rxLen' = rxTaken + rxLen + inq[1].len
  PROVE  Counted' /\ rxTaken' + rxLen' <= devSent
<1>1. PICK at \in [1..(Len(inq) + 1) -> 0..devSent] : Starts(at) /\ Taken(at[1])
  BY DEF Counted
<1> DEFINE l == Len(inq)
           new == [i \in 1..l |-> at[i + 1]]
<1>2. /\ l \in Nat /\ l > 0 /\ Len(inq') = l - 1 /\ inq[1] \in PacketType
      /\ \A i \in 1..(l - 1) : inq'[i] = inq[i + 1]
  BY QueueElements, QueueType DEF Waiters, TypeOK
<1>3. devSent \in Nat /\ inq[1].len \in Nat /\ rxTaken \in Nat /\ rxLen \in Nat
  BY <1>2 DEF Waiters, TypeOK, PacketType
<1>4. /\ at \in [1..(l + 1) -> 0..devSent] /\ at[l + 1] = devSent
      /\ \A i \in 1..l : at[i + 1] = at[i] + inq[i].len
  BY <1>1 DEF Starts
<1>5. \A i \in 1..Len(inq') : inq'[i].len > 0 <=> inq'[i].kind = "DATA"
  <2>1. \A i \in 1..Len(inq') : i + 1 \in 1..Len(inq) /\ inq'[i] = inq[i + 1]
    BY <1>2
  <2> QED
    BY <2>1 DEF Counted
<1> HIDE DEF l
<1>6. new \in [1..l -> 0..devSent] /\ \A i \in 1..l : new[i] = at[i + 1]
  BY <1>2, <1>4
<1> HIDE DEF new
<1>7. new[l] = devSent /\ new[1] = at[1] + inq[1].len /\ new[1] \in 0..devSent
  <2>1. l \in 1..l /\ 1 \in 1..l
    BY <1>2
  <2>2. new[1] = at[1 + 1] /\ at[1 + 1] = at[1] + inq[1].len
    BY <1>4, <1>6, <2>1
  <2> QED
    BY <1>4, <1>6, <2>1, <2>2
<1>8. ASSUME NEW i \in 1..(l - 1) PROVE new[i + 1] = new[i] + inq'[i].len
  <2>1. i \in 1..l /\ i + 1 \in 1..l
    BY <1>2
  <2> QED
    BY <1>2, <1>4, <1>6, <2>1
<1>9. (l - 1) + 1 = l
  BY <1>2
<1>10. /\ new \in [1..(Len(inq') + 1) -> 0..devSent'] /\ new[Len(inq') + 1] = devSent'
       /\ \A i \in 1..Len(inq') : new[i + 1] = new[i] + inq'[i].len
  BY <1>2, <1>6, <1>7, <1>8, <1>9
<1>11. /\ rxTaken' + rxLen' <= new[1] /\ (Live' => rxTaken' + rxLen' = new[1])
       /\ rxTaken' + rxLen' <= devSent
  <2>1. 1 \in 1..(l + 1) /\ at[1] \in 0..devSent
    BY <1>2, <1>4
  <2> QED
    BY <1>1, <1>3, <1>7, <2>1 DEF Taken
<1> QED
  BY <1>5, <1>10, <1>11 DEF Counted, Starts, Taken

\* What the loop of pumpReads() takes for its readers was not taken before.
LEMMA AppendTakes ==
  ASSUME Waiters, NEW len \in Nat, AppendRx(len)
  PROVE  /\ rxTaken' \in Nat /\ rxLen' \in Nat /\ rxTaken <= rxTaken'
         /\ rxTaken' + rxLen' = rxTaken + rxLen + len
<1> DEFINE avail == rxLen + len
<1>0. PICK k \in 0..Len(pendingReads) :
        \E cut \in [0..k -> 0..avail] : PumpReads(k, cut, avail)
  BY DEF AppendRx
<1>1. PICK cut \in [0..k -> 0..avail] : PumpReads(k, cut, avail)
  BY <1>0
<1>2. rxTaken' = rxTaken + cut[k]
  <2> HIDE DEF avail
  <2>1. PumpReads(k, cut, avail)
    BY <1>1
  <2> QED
    BY <2>1 DEF PumpReads
<1>3. k \in Nat
  BY DEF Waiters, TypeOK
<1>4. k \in 0..k /\ avail \in Nat
  BY <1>3 DEF Waiters, TypeOK
<1>5. cut[k] \in Nat
  BY <1>1, <1>4
<1> QED
  BY <1>2, <1>5, AppendRxType, SMTT(30) DEF Waiters, TypeOK

\* Handling a packet: a live connection takes a segment, or ends; what it
\* ignores has no bytes for it.
LEMMA HandleCounts ==
  ASSUME Waiters, Stream, Counted, HandlePacket
  PROVE  /\ inq # <<>> /\ inq' = Tail(inq) /\ inq[1].len \in Nat /\ UNCHANGED devSent
         /\ \/ /\ inq[1].len > 0 /\ AppendRx(inq[1].len)
               /\ Live /\ state = "connected" /\ UNCHANGED <<state, opener>>
            \/ Terminate /\ state # "closed"
            \/ /\ UNCHANGED <<rxTaken, rxLen, opener>>
               /\ state' = "closed" <=> state = "closed"
               /\ ~Live' \/ (Live /\ inq[1].len = 0)
<1> DEFINE p == inq[1]
<1>1. /\ inq # <<>> /\ Head(inq) = p /\ p \in PacketType /\ inq' = Tail(inq)
      /\ UNCHANGED devSent
  BY QueueElements, QueueType DEF HandlePacket, devVars, Waiters, TypeOK
<1>2. 1 \in 1..Len(inq)
  BY <1>1, QueueElements DEF Waiters, TypeOK
<1>3. p.len \in Nat /\ (p.len > 0 <=> p.kind = "DATA")
  BY <1>1, <1>2 DEF Counted, PacketType
<1>4. opener # "idle" /\ (Live /\ state = "connecting" => p.kind # "DATA")
  BY <1>1 DEF Stream, SynFirst, NextExpected
<1> HIDE DEF p
<1>5. CASE InTable /\ state = "connecting" /\ Connecting(p)
  <2>1. Live /\ p.kind # "DATA" /\ p.len = 0
    BY <1>3, <1>4, <1>5 DEF Live, InTable
  <2> QED
    BY <1>1, <1>3, <1>5, <2>1 DEF Connecting, Live, rxVars, p
<1>6. CASE InTable /\ state = "connected" /\ Connected(p)
  <2>1. Live
    BY <1>6 DEF Live, InTable
  <2>2. CASE p.kind = "RST" /\ Terminate
    BY <1>1, <1>3, <1>6, <2>2 DEF p
  <2>3. CASE p.kind = "DATA" /\ Data(p) /\ UNCHANGED <<state, openVars>>
    BY <1>1, <1>3, <1>6, <2>1, <2>3 DEF Data, openVars, p
  <2>4. CASE p.kind = "SYNACK" /\ UNCHANGED <<connVars, rxVars, openVars>>
    BY <1>1, <1>3, <1>6, <2>1, <2>4 DEF connVars, rxVars, openVars, Live, p
  <2> QED
    BY <1>6, <2>2, <2>3, <2>4 DEF Connected
<1>7. CASE ~InTable /\ UNCHANGED <<connVars, rxVars, openVars>>
  BY <1>1, <1>3, <1>4, <1>7 DEF InTable, Live, connVars, rxVars, openVars, p
<1> QED
  BY <1>1, <1>5, <1>6, <1>7 DEF HandlePacket

\* What terminate() leaves: the bytes that were taken, and no live connection.
LEMMA TerminateCounts ==
  ASSUME Terminate
  PROVE  state' = "closed" /\ UNCHANGED <<rxTaken, rxLen>> /\ ~Live'
BY DEF Terminate, Live

\* The device's packets: only a segment has bytes.
LEMMA DeviceCounted ==
  ASSUME Waiters, Stream, Counted, Deliver \/ DeviceReset \/ \E len \in Sizes : DeviceData(len)
  PROVE  Counted'
<1>1. UNCHANGED <<rxTaken, rxLen, state, opener>> /\ devSent \in Nat
  BY DEF Deliver, DeviceReset, DeviceData, connVars, rxVars, openVars, Waiters, TypeOK
<1>2. ASSUME NEW kind \in {"SYNACK", "RST"}, Receive(Packet(kind, 0, 0)), UNCHANGED devSent
      PROVE  Counted'
  <2> DEFINE e == Packet(kind, 0, 0)
  <2>1. e \in PacketType /\ e.len = 0 /\ e.kind # "DATA"
    BY DEF Packet, PacketType
  <2>2. inq' = Append(inq, e)
    BY <1>2 DEF Receive
  <2> HIDE DEF e
  <2>3. devSent' = devSent + e.len
    BY <1>1, <1>2, <2>1
  <2> QED
    BY <1>1, <2>1, <2>2, <2>3, AppendCounted
<1>3. CASE UNCHANGED <<inq, devSent>>
  <2>1. Live' => Live
    BY <1>1 DEF Live
  <2> QED
    BY <1>1, <1>3, <2>1, SameCounted
<1>4. ASSUME NEW len \in Sizes, DeviceData(len) PROVE Counted'
  <2> DEFINE e == Packet("DATA", (1 + devSent) % Modulus, len)
  <2>1. e \in PacketType /\ e.kind = "DATA" /\ e.len = len /\ len > 0
    <3>1. (1 + devSent) % Modulus \in Nat /\ len \in Nat /\ len > 0
      BY <1>1, MuxTcpAssumption DEF Sizes
    <3> QED
      BY <3>1 DEF Packet, PacketType
  <2>2. inq' = Append(inq, e) /\ devSent' = devSent + len
    BY <1>4 DEF DeviceData, Receive
  <2> HIDE DEF e
  <2> QED
    BY <1>1, <2>1, <2>2, AppendCounted
<1>5. CASE Deliver \/ DeviceReset
  BY <1>2, <1>3, <1>5 DEF Deliver, DeviceSyn, DeviceReset
<1> QED
  BY <1>4, <1>5

\* Any step of the system, or none, keeps it.
LEMMA NextCounted == Waiters /\ Stream /\ Counted /\ [Next]_vars => Counted'
<1> SUFFICES ASSUME Waiters, Stream, Counted, [Next]_vars PROVE Counted'
  OBVIOUS
<1>1. rxTaken \in Nat /\ rxLen \in Nat
  BY DEF Waiters, TypeOK
<1>2. ASSUME UNCHANGED <<inq, devSent>>, Terminate \/ UNCHANGED <<state, opener, rxTaken, rxLen>>
      PROVE  Counted'
  <2>1. Live' => Live
    BY <1>2, TerminateCounts DEF Live
  <2>2. UNCHANGED <<rxTaken, rxLen>>
    BY <1>2, TerminateCounts
  <2> QED
    BY <1>2, <2>1, <2>2, SameCounted
<1>3. CASE ConnectTimeout \/ Close \/ Disconnect \/ \E w \in Writes, n \in Sizes : Write(w, n)
  BY <1>2, <1>3 DEF ConnectTimeout, Close, Disconnect, Write, connVars, rxVars, openVars,
                    devVars
<1>4. CASE UNCHANGED vars
  BY <1>2, <1>4 DEF vars, connVars, rxVars, openVars, devVars
<1>5. CASE Open
  <2>1. /\ UNCHANGED <<inq, devSent, rxTaken, rxLen, state>>
        /\ opener = "idle" /\ opener' = "syn"
    BY <1>5 DEF Open, connVars, rxVars, devVars
  <2> QED
    BY <2>1, SameCounted DEF Live
<1>6. ASSUME NEW r \in Reads, NEW n \in Sizes, ReadExact(r, n) PROVE Counted'
  <2>1. UNCHANGED <<inq, devSent, state, opener>>
    BY <1>6 DEF ReadExact, connVars, openVars, devVars
  <2>2. rxTaken' + rxLen' = rxTaken + rxLen
    BY <1>1, <1>6 DEF ReadExact, TakeBytes, Sizes
  <2> QED
    BY <1>1, <2>1, <2>2, SameCounted DEF Live
<1>7. CASE HandlePacket
  <2>1. /\ inq # <<>> /\ inq' = Tail(inq) /\ inq[1].len \in Nat /\ UNCHANGED devSent
    BY <1>7, HandleCounts
  <2>2. CASE /\ AppendRx(inq[1].len) /\ Live /\ state = "connected"
             /\ UNCHANGED <<state, opener>>
    <3>1. rxTaken' + rxLen' = rxTaken + rxLen + inq[1].len
      BY <2>1, <2>2, AppendTakes
    <3> QED
      BY <1>1, <2>1, <2>2, <3>1, TailCounted
  <2>3. CASE Terminate
    BY <2>1, <2>3, TerminateCounts, TailCounted
  <2>4. CASE /\ UNCHANGED <<rxTaken, rxLen, opener>>
             /\ ~Live' \/ (Live /\ inq[1].len = 0)
    BY <1>1, <2>1, <2>4, TailCounted
  <2> QED
    BY <1>7, <2>2, <2>3, <2>4, HandleCounts
<1>8. CASE Settle \/ SettleFail
  <2>1. /\ UNCHANGED <<inq, devSent, rxTaken, rxLen, state>> /\ outq # <<>>
        /\ Head(outq) = outq[1] /\ 1 \in 1..Len(outq)
    BY <1>8, QueueElements DEF Settle, SettleFail, connVars, rxVars, devVars, Waiters, TypeOK
  <2>2. opener' # "rejected" => opener # "rejected"
    <3>1. outq[1].by = "open" => opener = "syn"
      BY <2>1 DEF Stream, SynFirst
    <3> QED
      BY <1>8, <2>1, <3>1 DEF Settle, SettleFail, AckSent, openVars
  <2> QED
    BY <1>1, <2>1, <2>2, SameCounted DEF Live
<1> QED
  BY <1>3, <1>4, <1>5, <1>6, <1>7, <1>8, DeviceCounted DEF Next

\* Every step sends, takes, hands out or ends, or leaves the stream as it is.
LEMMA NextImplements ==
  ASSUME Waiters, Waiters', Stream, Counted, [Next]_vars
  PROVE  [Bytes!StreamNext]_(Bytes!streamVars)
<1> USE DEF Bytes!StreamNext, Bytes!streamVars
<1>1. /\ rxTaken \in Nat /\ rxLen \in Nat /\ rxTaken' \in Nat /\ rxLen' \in Nat
      /\ devSent \in Nat /\ devSent' \in Nat
  BY DEF Waiters, TypeOK
<1>2. CASE UNCHANGED <<devSent, rxTaken, rxLen>> /\ (state' = "closed" <=> state = "closed")
  BY <1>2
<1>3. CASE UNCHANGED devSent /\ Terminate
  <2>1. UNCHANGED <<devSent, rxTaken, rxLen>> /\ state' = "closed"
    BY <1>3, TerminateCounts
  <2> QED
    BY <1>2, <2>1 DEF Bytes!End
<1>4. CASE \/ ConnectTimeout \/ Close \/ Disconnect \/ Open \/ Settle \/ SettleFail \/ Deliver
           \/ DeviceReset \/ UNCHANGED vars \/ \E w \in Writes, n \in Sizes : Write(w, n)
  BY <1>2, <1>3, <1>4 DEF ConnectTimeout, Close, Disconnect, Open, Settle, SettleFail, Deliver,
     DeviceReset, Write, vars, connVars, rxVars, openVars, devVars
<1>5. ASSUME NEW len \in Sizes, DeviceData(len) PROVE Bytes!Send
  <2>1. devSent' = devSent + len /\ len > 0 /\ UNCHANGED <<rxTaken, rxLen, state>>
    BY <1>5 DEF DeviceData, connVars, rxVars, Sizes
  <2> QED
    BY <1>1, <2>1 DEF Bytes!Send, Sizes
<1>6. ASSUME NEW r \in Reads, NEW n \in Sizes, ReadExact(r, n)
      PROVE  [Bytes!StreamNext]_(Bytes!streamVars)
  <2>1. UNCHANGED <<devSent, state>> /\ n \in Nat /\ n > 0
    BY <1>6 DEF ReadExact, connVars, devVars, Sizes
  <2>2. CASE UNCHANGED <<rxTaken, rxLen>>
    BY <1>2, <2>1, <2>2
  <2>3. CASE rxTaken' = rxTaken + n /\ rxLen' = rxLen - n
    <3>1. rxTaken' \in (rxTaken + 1)..(rxTaken + rxLen)
          /\ rxTaken' + rxLen' = rxTaken + rxLen
      BY <1>1, <2>1, <2>3
    <3> QED
      BY <2>1, <3>1 DEF Bytes!Read
  <2> QED
    BY <1>6, <2>2, <2>3 DEF ReadExact, TakeBytes
<1>7. CASE HandlePacket
  <2>1. inq # <<>> /\ inq' = Tail(inq) /\ inq[1].len \in Nat /\ UNCHANGED devSent
    BY <1>7, HandleCounts
  <2>2. CASE /\ inq[1].len > 0 /\ AppendRx(inq[1].len) /\ Live /\ state = "connected"
             /\ UNCHANGED <<state, opener>>
    <3> DEFINE n == inq[1].len
               r == rxTaken'
               l == rxLen'
    <3>1. n \in Nat /\ n > 0 /\ r \in Nat /\ l \in Nat /\ rxTaken <= r
      BY <1>1, <2>1, <2>2, AppendTakes
    <3>2. r + l = rxTaken + rxLen + n
      BY <2>1, <2>2, AppendTakes
    <3>3. r + l <= devSent
      BY <2>1, <2>2, <3>2, TailCounted
    <3> HIDE DEF n, r, l
    <3>4. r + l \in (rxTaken + rxLen + 1)..devSent /\ r \in rxTaken..(r + l)
      BY <1>1, <3>1, <3>2, <3>3
    <3> QED
      BY <2>1, <2>2, <3>4 DEF Bytes!Get, r, l
  <2> QED
    BY <1>2, <1>3, <1>7, <2>1, <2>2, HandleCounts
<1> QED
  BY <1>4, <1>5, <1>6, <1>7 DEF Next

\* What the readers of a connection get is the device's stream from its first
\* byte on, whatever is timed out, reset, unplugged or fails on the way, and
\* nothing is taken after the end.
THEOREM ConnectionIsByteStream == Spec => ImplementsByteStream
<1>1. Init => Waiters /\ Stream /\ Counted
  BY InitWaiters, InitStream, InitCounted
<1>2. (Waiters /\ Stream /\ Counted) /\ [Next]_vars => (Waiters /\ Stream /\ Counted)'
  BY NextWaiters, NextStream, NextCounted
<1>3. Init => Bytes!StreamInit
  BY DEF Init, Bytes!StreamInit
<1>4. (Waiters /\ Stream /\ Counted) /\ (Waiters /\ Stream /\ Counted)' /\ [Next]_vars
        => [Bytes!StreamNext]_(Bytes!streamVars)
  BY NextImplements
<1> QED
  BY <1>1, <1>2, <1>3, <1>4, PTL DEF Spec, ImplementsByteStream, Bytes!StreamSpec

\* handlePacket() drops no segment of a connection in use: when nothing is on
\* its way, the host has every byte, whatever the counters wrapped to.
THEOREM ConnectionLosesNothing == Spec => []NothingLost
<1>1. Waiters /\ Counted => NothingLost
  <2> SUFFICES ASSUME Waiters, Counted, state = "connected", opener # "rejected", inq = <<>>
               PROVE  rxTaken + rxLen = devSent
    BY DEF NothingLost
  <2>1. Len(inq) + 1 = 1
    OBVIOUS
  <2> QED
    BY <2>1 DEF Counted, Starts, Taken, Live
<1>2. Init => Waiters /\ Stream /\ Counted
  BY InitWaiters, InitStream, InitCounted
<1>3. (Waiters /\ Stream /\ Counted) /\ [Next]_vars => (Waiters /\ Stream /\ Counted)'
  BY NextWaiters, NextStream, NextCounted
<1> QED
  BY <1>1, <1>2, <1>3, PTL DEF Spec

-----------------------------------------------------------------------------
(* Whoever waits, waits for something that is on its way                   *)

\* A frame that the caller `by` awaits is queued.
Queued(by) == \E i \in 1..Len(outq) : outq[i].by = by

\* The frame that handlePacket() or a write() awaits is queued.
FramesAwaited ==
  /\ handling # "none" => Queued("handler")
  /\ \A w \in Writes : writes[w] = "sending" => Queued(w)

\* open() awaits its SYN; an armed waiter has its timer, or the handlePacket()
\* that will resolve it once its ACK is sent.
OpenAwaited ==
  /\ opener = "syn" => outq # <<>> /\ outq[1].by = "open"
  /\ opener = "armed" => \/ state = "connecting" /\ timer
                         \/ state = "connected" /\ handling = "synack"

Awaited == FramesAwaited /\ OpenAwaited

\* Nobody waits for what cannot come: not open(), a write, or a handlePacket().
NobodyForgotten ==
  /\ FramesAwaited
  /\ opener = "syn" => Queued("open")
  /\ opener = "armed" => timer \/ (handling = "synack" /\ Queued("handler"))

\* Sending keeps what is queued, and queues the frame.
LEMMA SendQueues ==
  ASSUME Waiters, NEW f \in FrameType, SendFrame(f)
  PROVE  /\ outq' # <<>> /\ Queued(f.by)'
         /\ outq # <<>> => outq'[1] = outq[1]
         /\ outq = <<>> => outq'[1] = f
         /\ \A by \in Owners : Queued(by) => Queued(by)'
<1>1. /\ Len(outq) \in Nat /\ Len(outq') = Len(outq) + 1 /\ outq' # <<>>
      /\ outq'[Len(outq) + 1] = f /\ \A i \in 1..Len(outq) : outq'[i] = outq[i]
      /\ outq = <<>> <=> Len(outq) = 0
  BY QueueElements DEF SendFrame, Waiters, TypeOK
<1>2. Len(outq) + 1 \in 1..Len(outq') /\ \A i \in 1..Len(outq) : i \in 1..Len(outq')
  BY <1>1
<1>3. outq # <<>> => 1 \in 1..Len(outq)
  BY <1>1
<1> QED
  BY <1>1, <1>2, <1>3 DEF Queued

\* Removing the oldest frame keeps those of the other callers.
LEMMA DequeueQueues ==
  ASSUME Waiters, outq # <<>>, Dequeue
  PROVE  \A by : Queued(by) /\ by # outq[1].by => Queued(by)'
<1>1. /\ Len(outq) \in Nat /\ Len(outq') = Len(outq) - 1
      /\ \A i \in 1..(Len(outq) - 1) : outq'[i] = outq[i + 1]
  BY QueueElements DEF Dequeue, Waiters, TypeOK
<1> SUFFICES ASSUME NEW by, Queued(by), by # outq[1].by PROVE Queued(by)'
  OBVIOUS
<1>2. PICK i \in 1..Len(outq) : outq[i].by = by
  BY DEF Queued
<1>3. i # 1
  BY <1>2
<1>4. i - 1 \in 1..Len(outq') /\ i - 1 \in 1..(Len(outq) - 1) /\ (i - 1) + 1 = i
  BY <1>1, <1>3
<1>5. outq'[i - 1].by = by
  BY <1>1, <1>2, <1>4
<1> QED
  BY <1>4, <1>5 DEF Queued

\* Init establishes it.
LEMMA InitAwaited == Init => Awaited
BY DEF Init, Awaited, FramesAwaited, OpenAwaited

\* A step that neither touches the queue nor starts to wait keeps it.
LEMMA SameAwaited ==
  ASSUME Awaited, UNCHANGED <<outq, handling, writes>>,
         \/ UNCHANGED <<openVars, state>>
         \/ opener' # "armed" /\ (opener' = "syn" => opener = "syn")
  PROVE  Awaited'
BY DEF Awaited, FramesAwaited, OpenAwaited, Queued, openVars

\* terminate() wakes open() and leaves the frames to be settled.
LEMMA TerminateWakes ==
  ASSUME Terminate
  PROVE  opener' # "armed" /\ (opener' = "syn" => opener = "syn")
BY DEF Terminate

\* The calls of the owner, the timer and the unplugging preserve it.
LEMMA CallAwaited ==
  ASSUME Waiters, Stream, Awaited,
         \/ Open \/ ConnectTimeout \/ Close \/ Disconnect
         \/ \E w \in Writes, n \in Sizes : Write(w, n)
         \/ \E r \in Reads, n \in Sizes : ReadExact(r, n)
  PROVE  Awaited'
<1>1. /\ {"open", "handler", "close"} \subseteq Owners /\ Writes \subseteq Owners
      /\ txSeq \in 0..(Modulus - 1) /\ txAck \in 0..(Modulus - 1) /\ 0 \in Nat
      /\ \A n \in Sizes : n \in Nat
  BY MuxTcpAssumption DEF Owners, Waiters, TypeOK, Sizes
<1>2. CASE Open
  <2> DEFINE f == Frame("SYN", txSeq, txAck, 0, "open")
  <2>1. f \in FrameType /\ f.by = "open"
    BY <1>1, FrameTyped DEF Frame
  <2>2. SendFrame(f) /\ opener = "idle" /\ opener' = "syn"
        /\ UNCHANGED <<handling, writes>>
    BY <1>2 DEF Open
  <2> HIDE DEF f
  <2>3. outq = <<>>
    BY <2>2 DEF Stream, SynFirst
  <2>4. /\ outq' # <<>> /\ outq'[1] = f
        /\ \A by \in Owners : Queued(by) => Queued(by)'
    BY <2>1, <2>2, <2>3, SendQueues
  <2>5. FramesAwaited'
    BY <1>1, <2>2, <2>4 DEF Awaited, FramesAwaited
  <2>6. OpenAwaited'
    BY <2>1, <2>2, <2>4 DEF OpenAwaited
  <2> QED
    BY <2>5, <2>6 DEF Awaited
<1>3. CASE ConnectTimeout
  BY <1>3, TerminateWakes, SameAwaited DEF ConnectTimeout
<1>4. CASE Close
  <2> DEFINE f == Frame("RST", txSeq, txAck, 0, "close")
  <2>1. f \in FrameType
    BY <1>1, FrameTyped
  <2>2. SendFrame(f) /\ Terminate /\ UNCHANGED <<handling, writes>>
    BY <1>4 DEF Close
  <2> HIDE DEF f
  <2>3. /\ outq' # <<>> /\ (outq # <<>> => outq'[1] = outq[1])
        /\ \A by \in Owners : Queued(by) => Queued(by)'
    BY <2>1, <2>2, SendQueues
  <2>4. FramesAwaited'
    BY <1>1, <2>2, <2>3 DEF Awaited, FramesAwaited
  <2>5. OpenAwaited'
    BY <2>2, <2>3, TerminateWakes DEF Awaited, OpenAwaited
  <2> QED
    BY <2>4, <2>5 DEF Awaited
<1>5. CASE Disconnect
  BY <1>5, TerminateWakes, SameAwaited DEF Disconnect, connVars
<1>6. ASSUME NEW w \in Writes, NEW n \in Sizes, Write(w, n) PROVE Awaited'
  <2> DEFINE f == Frame("ACK", txSeq, txAck, n, w)
  <2>1. f \in FrameType /\ f.by = w
    BY <1>1, FrameTyped DEF Frame
  <2>2. UNCHANGED <<opener, handling>> /\ opener = "resolved"
    BY <1>6 DEF Write, openVars
  <2>3. CASE SendFrame(f) /\ writes' = [writes EXCEPT ![w] = "sending"]
    <3> HIDE DEF f
    <3>1. Queued(w)' /\ \A by \in Owners : Queued(by) => Queued(by)'
      BY <2>1, <2>3, SendQueues
    <3>2. \A v \in Writes : v # w => writes'[v] = writes[v]
      BY <2>3 DEF Waiters, TypeOK
    <3>3. FramesAwaited'
      BY <1>1, <2>2, <3>1, <3>2 DEF Awaited, FramesAwaited
    <3> QED
      BY <2>2, <3>3 DEF Awaited, OpenAwaited
  <2>4. CASE outq' = outq /\ writes' = [writes EXCEPT ![w] = "error"]
    <3>1. \A v \in Writes : writes'[v] = "sending" => writes[v] = "sending"
      BY <2>4 DEF Waiters, TypeOK
    <3> QED
      BY <2>2, <2>4, <3>1 DEF Awaited, FramesAwaited, OpenAwaited, Queued
  <2> QED
    BY <1>6, <2>3, <2>4 DEF Write
<1>7. ASSUME NEW r \in Reads, NEW n \in Sizes, ReadExact(r, n) PROVE Awaited'
  BY <1>7, SameAwaited DEF ReadExact, connVars
<1> QED
  BY <1>2, <1>3, <1>4, <1>5, <1>6, <1>7

\* Packets preserve it: only the SYN+ACK leaves the timer, for its ACK.
LEMMA HandleAwaited ==
  ASSUME Waiters, Stream, Awaited, HandlePacket
  PROVE  Awaited'
<1>1. /\ handling = "none" /\ writes' = writes /\ inq # <<>>
      /\ "handler" \in Owners /\ Writes \subseteq Owners
  BY DEF HandlePacket, Owners
<1>2. /\ Head(inq) \in PacketType /\ Head(inq).seq \in Nat /\ Head(inq).len \in Nat
      /\ 1 \in Nat /\ txSeq \in Nat /\ txSeq \in 0..(Modulus - 1)
      /\ txAck \in 0..(Modulus - 1) /\ 0 \in Nat
  <2>1. Head(inq) \in PacketType
    BY <1>1, QueueType DEF Waiters, TypeOK
  <2> QED
    BY <2>1, MuxTcpAssumption DEF PacketType, Waiters, TypeOK
<1>3. ASSUME NEW seq \in 0..(Modulus - 1), NEW ack \in 0..(Modulus - 1),
             SendFrame(Frame("ACK", seq, ack, 0, "handler"))
      PROVE  /\ FramesAwaited' /\ outq' # <<>>
             /\ outq # <<>> => outq'[1] = outq[1]
  <2> DEFINE f == Frame("ACK", seq, ack, 0, "handler")
  <2>1. f \in FrameType /\ f.by = "handler" /\ SendFrame(f)
    BY <1>1, <1>2, <1>3, FrameTyped DEF Frame
  <2> HIDE DEF f
  <2>2. /\ outq' # <<>> /\ (outq # <<>> => outq'[1] = outq[1]) /\ Queued("handler")'
        /\ \A by \in Owners : Queued(by) => Queued(by)'
    BY <2>1, SendQueues
  <2> QED
    BY <1>1, <2>2 DEF Awaited, FramesAwaited
<1>4. CASE UNCHANGED <<connVars, rxVars, openVars, handling, outq>>
  BY <1>1, <1>4, SameAwaited DEF connVars
<1>5. CASE Terminate /\ UNCHANGED <<handling, outq>>
  BY <1>1, <1>5, TerminateWakes, SameAwaited
<1>6. CASE state = "connecting" /\ Connecting(Head(inq)) /\ Head(inq).kind = "SYNACK"
  <2>1. /\ txSeq' = Advance(txSeq, 1) /\ txAck' = Advance(Head(inq).seq, 1)
        /\ state' = "connected" /\ handling' = "synack" /\ opener' = opener
        /\ SendFrame(Frame("ACK", txSeq', txAck', 0, "handler"))
    BY <1>6 DEF Connecting
  <2>2. txSeq' \in 0..(Modulus - 1) /\ txAck' \in 0..(Modulus - 1)
    BY <1>2, <2>1, AdvanceType
  <2>3. FramesAwaited' /\ outq' # <<>> /\ (outq # <<>> => outq'[1] = outq[1])
    BY <1>3, <2>1, <2>2
  <2> QED
    BY <2>1, <2>3 DEF Awaited, OpenAwaited
<1>7. CASE state = "connected" /\ Connected(Head(inq)) /\ Head(inq).kind = "DATA"
  <2>1. /\ txAck' = Advance(Head(inq).seq, Head(inq).len)
        /\ UNCHANGED <<state, txSeq, opener, timer>> /\ handling' = "data"
        /\ SendFrame(Frame("ACK", txSeq, txAck', 0, "handler"))
    BY <1>7 DEF Connected, Data, openVars
  <2>2. txAck' \in 0..(Modulus - 1)
    BY <1>2, <2>1, AdvanceType
  <2>3. FramesAwaited' /\ outq' # <<>> /\ (outq # <<>> => outq'[1] = outq[1])
    BY <1>2, <1>3, <2>1, <2>2
  <2>4. opener # "armed"
    BY <1>1, <1>7 DEF Awaited, OpenAwaited
  <2> QED
    BY <2>1, <2>3, <2>4 DEF Awaited, OpenAwaited
<1> QED
  BY <1>4, <1>5, <1>6, <1>7 DEF HandlePacket, Connecting, Connected, connVars, rxVars, openVars

\* The end of a transfer preserves it: what awaited the frame resumes.
LEMMA SettleAwaited ==
  ASSUME Faults = FALSE, Waiters, Stream, Unplugged, Awaited, Settle \/ SettleFail
  PROVE  Awaited'
<1> DEFINE by == outq[1].by
<1>1. /\ outq # <<>> /\ Head(outq).by = by /\ Dequeue
      /\ by \in Owners /\ (by \in Writes => by \notin {"open", "handler", "close"})
  <2>1. outq # <<>> /\ Dequeue
    BY DEF Settle, SettleFail
  <2>2. Head(outq) = outq[1] /\ Head(outq) \in FrameType
    BY <2>1, QueueType, QueueElements DEF Waiters, TypeOK
  <2> QED
    BY <2>1, <2>2, MuxTcpAssumption DEF FrameType
<1>2. \A b : Queued(b) /\ b # by => Queued(b)'
  BY <1>1, DequeueQueues
<1>3. opener = "syn" => by = "open"
  BY DEF Awaited, OpenAwaited
<1> HIDE DEF by
<1>4. CASE Settle
  <2>0. state' = state
    BY <1>4 DEF Settle
  <2>1. CASE by = "open" /\ OpenSent /\ UNCHANGED <<writes, handling>>
    <3>1. FramesAwaited'
      BY <1>1, <1>2, <2>1 DEF Awaited, FramesAwaited
    <3>2. OpenAwaited'
      BY <2>0, <2>1 DEF OpenSent, OpenAwaited, Waiters, TypeOK
    <3> QED
      BY <3>1, <3>2 DEF Awaited
  <2>2. CASE by = "handler" /\ AckSent /\ UNCHANGED writes
    <3>1. FramesAwaited'
      BY <1>1, <1>2, <2>2 DEF Awaited, FramesAwaited, AckSent
    <3>2. OpenAwaited'
      BY <1>3, <2>0, <2>2 DEF Awaited, OpenAwaited, AckSent
    <3> QED
      BY <3>1, <3>2 DEF Awaited
  <2>3. CASE by = "close" /\ UNCHANGED <<writes, openVars, handling>>
    <3>1. FramesAwaited'
      BY <1>1, <1>2, <2>3, MuxTcpAssumption DEF Awaited, FramesAwaited
    <3>2. OpenAwaited'
      BY <1>3, <2>0, <2>3 DEF Awaited, OpenAwaited, openVars
    <3> QED
      BY <3>1, <3>2 DEF Awaited
  <2>4. CASE by \in Writes /\ WriteSent(by, Head(outq).len) /\ UNCHANGED <<openVars, handling>>
    <3>1. \A w \in Writes : writes'[w] = "sending" => w # by /\ writes[w] = "sending"
      BY <2>4 DEF WriteSent, Waiters, TypeOK
    <3>2. FramesAwaited'
      BY <1>1, <1>2, <2>4, <3>1 DEF Awaited, FramesAwaited
    <3>3. OpenAwaited'
      BY <1>1, <1>3, <2>0, <2>4 DEF Awaited, OpenAwaited, openVars
    <3> QED
      BY <3>2, <3>3 DEF Awaited
  <2> QED
    BY <1>1, <1>4, <2>1, <2>2, <2>3, <2>4 DEF Settle
<1>5. CASE SettleFail
  <2>1. state = "closed" /\ state' = state /\ opener # "armed"
    BY <1>5 DEF SettleFail, Unplugged, connVars, Waiters, NoOrphanedWaiters
  <2>2. /\ \/ by = "open" /\ opener' = "rejected"
           \/ by # "open" /\ opener' = opener
        /\ handling' # "none" => handling' = handling /\ by # "handler"
        /\ \A w \in Writes : writes'[w] = "sending" => w # by /\ writes[w] = "sending"
    BY <1>1, <1>5 DEF SettleFail, Waiters, TypeOK
  <2>3. FramesAwaited'
    BY <1>2, <2>2 DEF Awaited, FramesAwaited
  <2>4. OpenAwaited'
    BY <1>3, <2>1, <2>2 DEF OpenAwaited
  <2> QED
    BY <2>3, <2>4 DEF Awaited
<1> QED
  BY <1>4, <1>5

\* Every step preserves it.
LEMMA NextAwaited ==
  ASSUME Faults = FALSE, Waiters, Stream, Unplugged, Awaited, [Next]_vars
  PROVE  Awaited'
<1>1. CASE Deliver
  BY <1>1, SameAwaited DEF Deliver, connVars
<1>2. ASSUME NEW len \in Sizes, DeviceData(len) PROVE Awaited'
  BY <1>2, SameAwaited DEF DeviceData, connVars
<1>3. CASE DeviceReset
  BY <1>3, SameAwaited DEF DeviceReset, connVars
<1>4. CASE UNCHANGED vars
  BY <1>4, SameAwaited DEF vars, connVars
<1> QED
  BY <1>1, <1>2, <1>3, <1>4, CallAwaited, HandleAwaited, SettleAwaited DEF Next

\* As long as transfers fail only when the device is gone, no open(), write()
\* or handlePacket() of a connection is ever left without the frame or the
\* timer that will wake it, in whatever order frames settle and packets come:
\* the safety half of "open() settles".  A failed ACK of the SYN+ACK breaks it.
THEOREM NobodyWaitsInVain ==
  ASSUME Faults = FALSE
  PROVE  Spec => []NobodyForgotten
<1>1. Waiters /\ Awaited => NobodyForgotten
  <2> SUFFICES ASSUME Waiters, Awaited PROVE NobodyForgotten
    OBVIOUS
  <2>1. outq # <<>> => 1 \in 1..Len(outq)
    BY DEF Waiters, TypeOK
  <2> QED
    BY <2>1 DEF Awaited, FramesAwaited, OpenAwaited, NobodyForgotten, Queued
<1>2. Init => Waiters /\ Stream /\ Unplugged /\ Awaited
  BY InitWaiters, InitStream, InitAcked, InitAwaited DEF Acked
<1>3. (Waiters /\ Stream /\ Unplugged /\ Awaited) /\ [Next]_vars
        => (Waiters /\ Stream /\ Unplugged /\ Awaited)'
  BY NextWaiters, NextStream, NextUnplugged, NextAwaited
<1> QED
  BY <1>1, <1>2, <1>3, PTL DEF Spec

=============================================================================
