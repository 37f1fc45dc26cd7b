---------------------------- MODULE MuxTcpProofs ----------------------------
(***************************************************************************)
(* What holds of MuxTcp for any number of readers and writers, any sizes   *)
(* and any modulus, whether or not transfers fail and writes overlap.      *)
(***************************************************************************)
EXTENDS MuxTcp, SequenceTheorems, WellFoundedInduction, TLAPS

-----------------------------------------------------------------------------
(* Type correctness                                                        *)

\* A sequence stays typed when an element is added or its head removed.
LEMMA QueueType ==
  ASSUME NEW S, NEW q \in Seq(S)
  PROVE  /\ <<>> \in Seq(S)
         /\ \A e \in S : Append(q, e) \in Seq(S)
         /\ q # <<>> => Head(q) \in S /\ Tail(q) \in Seq(S)
OBVIOUS

\* A counter that wraps stays below the modulus.
LEMMA AdvanceType ==
  ASSUME NEW x \in Nat, NEW n \in Nat
  PROVE  Advance(x, n) \in 0..(Modulus - 1)
BY MuxTcpAssumption DEF Advance

\* terminate() keeps the types.
LEMMA TerminateType ==
  ASSUME TypeOK, Terminate
  PROVE  /\ state' = "closed" /\ timer' = FALSE /\ pendingReads' = <<>>
         /\ pendingReads' \in Seq([r : Reads, n : Sizes])
         /\ opener' \in {"idle", "syn", "armed", "resolved", "rejected"}
         /\ opener' # "armed"
         /\ reads' \in [Reads -> [st : ReadStates, from : Nat, n : Nat]]
         /\ \A r \in Reads : reads'[r].st # "pending"
         /\ UNCHANGED <<txSeq, txAck, rxLen, rxTaken>>
<1>1. pendingReads' \in Seq([r : Reads, n : Sizes])
  BY QueueType DEF Terminate, TypeOK
<1>2. reads' \in [Reads -> [st : ReadStates, from : Nat, n : Nat]]
  BY DEF TypeOK, Terminate, ReadStates
<1> QED
  BY <1>1, <1>2 DEF TypeOK, Terminate, ReadStates

\* The pump keeps the types, and leaves the first waiter short of bytes.
LEMMA AppendRxType ==
  ASSUME TypeOK, NEW len \in Nat, AppendRx(len)
  PROVE  /\ rxLen' \in Nat /\ rxTaken' \in Nat
         /\ rxTaken' + rxLen' = rxTaken + rxLen + len
         /\ pendingReads' \in Seq([r : Reads, n : Sizes])
         /\ pendingReads' # <<>> => rxLen' < Head(pendingReads').n
         /\ reads' \in [Reads -> [st : ReadStates, from : Nat, n : Nat]]
<1> DEFINE avail == rxLen + len
<1>0. PICK k \in 0..Len(pendingReads) :
        \E cut \in [0..k -> 0..avail] : PumpReads(k, cut, avail)
  BY DEF AppendRx
<1>1. PICK cut \in [0..k -> 0..avail] : PumpReads(k, cut, avail)
  BY <1>0
<1>11. /\ rxLen' = avail - cut[k] /\ rxTaken' = rxTaken + cut[k]
      /\ pendingReads' = SubSeq(pendingReads, k + 1, Len(pendingReads))
  <2> HIDE DEF avail
  <2>1. PumpReads(k, cut, avail)
    BY <1>1
  <2> QED
    BY ONLY <2>1 DEF PumpReads
<1> DEFINE W == [r : Reads, n : Sizes]
<1>2. /\ rxLen \in Nat /\ rxTaken \in Nat /\ pendingReads \in Seq(W)
      /\ \A w \in W : w.n \in Nat
  BY MuxTcpAssumption DEF TypeOK, Sizes
<1> HIDE DEF W
<1>3. k < Len(pendingReads) => cut[k] + pendingReads[k + 1].n > rxLen + len
  BY <1>1 DEF PumpReads, PumpStops
<1>4. k \in Nat /\ Len(pendingReads) \in Nat /\ k <= Len(pendingReads)
  BY <1>2
<1>5. \A i \in 0..k : cut[i] \in 0..(rxLen + len) /\ cut[i] \in Nat
  BY <1>2, <1>4
<1>6. /\ rxLen' \in Nat /\ rxTaken' \in Nat
      /\ rxTaken' + rxLen' = rxTaken + rxLen + len
  <2> DEFINE served == cut[k]
  <2>1. rxLen' = (rxLen + len) - served /\ rxTaken' = rxTaken + served
    BY <1>11
  <2>2. served \in 0..(rxLen + len)
    BY <1>4, <1>5
  <2>3. rxLen \in Nat /\ rxTaken \in Nat
    BY <1>2
  <2> HIDE DEF served
  <2> QED
    BY ONLY <2>1, <2>2, <2>3, len \in Nat
<1>7. /\ pendingReads' \in Seq(W)
      /\ Len(pendingReads') = Len(pendingReads) - k
      /\ k < Len(pendingReads) => pendingReads'[1] = pendingReads[k + 1]
  <2>1. pendingReads' = SubSeq(pendingReads, k + 1, Len(pendingReads))
    BY <1>11
  <2>2. \A i \in (k + 1)..Len(pendingReads) : pendingReads[i] \in W
    BY <1>2, <1>4
  <2>3. k + 1 \in Int /\ Len(pendingReads) \in Int
    BY <1>4
  <2>4. /\ pendingReads' \in Seq(W)
        /\ Len(pendingReads') = IF k + 1 <= Len(pendingReads)
                                  THEN Len(pendingReads) - (k + 1) + 1 ELSE 0
        /\ \A i \in 1..(Len(pendingReads) - (k + 1) + 1) :
             pendingReads'[i] = pendingReads[k + 1 + i - 1]
    BY <2>1, <2>2, <2>3, SubSeqProperties
  <2>5. k < Len(pendingReads) => pendingReads'[1] = pendingReads[k + 1 + 1 - 1]
    BY <1>4, <2>4
  <2> QED
    BY <1>4, <2>4, <2>5
<1>8. ASSUME pendingReads' # <<>> PROVE rxLen' < Head(pendingReads').n
  <2>1. Len(pendingReads') > 0 /\ Head(pendingReads') = pendingReads'[1]
    BY <1>7, <1>8
  <2>2. k < Len(pendingReads)
    BY <1>4, <1>7, <2>1
  <2>3. pendingReads[k + 1].n \in Nat
    BY <1>2, <1>4, <2>2
  <2>4. rxLen' = (rxLen + len) - cut[k] /\ cut[k] \in Nat
    BY <1>11, <1>4, <1>5
  <2>5. rxLen' < pendingReads[k + 1].n
    BY <1>2, <1>3, <2>2, <2>3, <2>4
  <2> QED
    BY <1>7, <2>1, <2>2, <2>5
<1>9. reads' \in [Reads -> [st : ReadStates, from : Nat, n : Nat]]
  <2>1. ASSUME NEW i \in 1..k PROVE Offset(cut, i) \in Nat
    <3>1. i - 1 \in 0..k
      BY <1>4
    <3>2. cut[i - 1] \in Nat
      BY <1>5, <3>1
    <3> QED
      BY <1>2, <3>2 DEF Offset
  <2>2. ASSUME NEW r \in Reads PROVE reads'[r] \in [st : ReadStates, from : Nat, n : Nat]
    <3>1. CASE \E i \in 1..k : pendingReads[i].r = r
      <4> DEFINE i == CHOOSE i \in 1..k : pendingReads[i].r = r
      <4>1. i \in 1..k
        BY <3>1
      <4>2. Offset(cut, i) \in Nat
        BY <4>1, <2>1
      <4>3. reads'[r] = [reads[r] EXCEPT !.st = "ok", !.from = Offset(cut, i)]
        BY <1>1, <3>1 DEF PumpReads
      <4> HIDE DEF i
      <4> QED
        BY <4>2, <4>3 DEF TypeOK, ReadStates
    <3>2. CASE ~ \E i \in 1..k : pendingReads[i].r = r
      BY <1>1, <3>2 DEF PumpReads, TypeOK
    <3> QED
      BY <3>1, <3>2
  <2> QED
    BY <1>1, <2>2 DEF PumpReads
<1> QED
  BY <1>6, <1>7, <1>8, <1>9, SMTT(30) DEF W

-----------------------------------------------------------------------------
(* Waiters                                                                 *)

\* The waiters' invariant is inductive once the types are known.
Waiters == TypeOK /\ NoLostWakeup /\ NoOrphanedWaiters

\* Init establishes it.
LEMMA InitWaiters == Init => Waiters
<1> SUFFICES ASSUME Init PROVE Waiters
  OBVIOUS
<1>1. 0 \in 0..(Modulus - 1)
  BY MuxTcpAssumption
<1>2. /\ pendingReads \in Seq([r : Reads, n : Sizes])
      /\ outq \in Seq(FrameType) /\ inq \in Seq(PacketType)
  BY DEF Init
<1>3. /\ reads \in [Reads -> [st : ReadStates, from : Nat, n : Nat]]
      /\ writes \in [Writes -> WriteStates]
  BY DEF Init, ReadStates, WriteStates
<1>4. TypeOK
  BY <1>1, <1>2, <1>3 DEF Init, TypeOK
<1> QED
  BY <1>3, <1>4 DEF Init, Waiters, NoLostWakeup, NoOrphanedWaiters

\* A terminated connection has no waiter left.
LEMMA TerminateWaiters ==
  ASSUME TypeOK, Terminate
  PROVE  NoLostWakeup' /\ NoOrphanedWaiters'
BY TerminateType DEF NoLostWakeup, NoOrphanedWaiters

\* Every frame the host builds is typed.
LEMMA FrameTyped ==
  ASSUME NEW flags \in {"SYN", "ACK", "RST"}, NEW seq \in 0..(Modulus - 1),
         NEW ack \in 0..(Modulus - 1), NEW len \in Nat, NEW by \in Owners
  PROVE  Frame(flags, seq, ack, len, by) \in FrameType
BY MuxTcpAssumption DEF Frame, FrameType

\* The calls of the owner, the timer and the unplugging preserve it.
LEMMA CallWaiters ==
  ASSUME Waiters,
         \/ Open \/ ConnectTimeout \/ Close \/ Disconnect
         \/ \E w \in Writes, n \in Sizes : Write(w, n)
         \/ \E r \in Reads, n \in Sizes : ReadExact(r, n)
  PROVE  Waiters'
<1> USE DEF Waiters
<1>1. Sizes \subseteq Nat /\ Modulus \in Nat
  BY MuxTcpAssumption DEF Sizes
<1>2. /\ {"open", "handler", "close"} \subseteq Owners /\ Writes \subseteq Owners
      /\ txSeq \in 0..(Modulus - 1) /\ txAck \in 0..(Modulus - 1)
      /\ outq \in Seq(FrameType)
  BY DEF Owners, TypeOK
<1>3. CASE Open
  <2>1. Frame("SYN", txSeq, txAck, 0, "open") \in FrameType
    BY <1>2, FrameTyped
  <2>2. outq' \in Seq(FrameType)
    BY <1>2, <1>3, <2>1, QueueType DEF Open, SendFrame
  <2> QED
    BY <1>3, <2>2 DEF Open, connVars, rxVars, devVars, TypeOK, NoLostWakeup,
                      NoOrphanedWaiters
<1>4. CASE ConnectTimeout
  <2>1. Terminate
    BY <1>4 DEF ConnectTimeout
  <2>2. TypeOK'
    BY <1>4, <2>1, TerminateType DEF ConnectTimeout, devVars, TypeOK
  <2> QED
    BY <2>1, <2>2, TerminateWaiters
<1>5. CASE Close
  <2>1. Frame("RST", txSeq, txAck, 0, "close") \in FrameType
    BY <1>2, FrameTyped
  <2>2. outq' \in Seq(FrameType)
    BY <1>2, <1>5, <2>1, QueueType DEF Close, SendFrame
  <2>3. Terminate
    BY <1>5 DEF Close
  <2>4. TypeOK'
    BY <1>5, <2>2, <2>3, TerminateType DEF Close, devVars, TypeOK
  <2> QED
    BY <2>3, <2>4, TerminateWaiters
<1>6. CASE Disconnect
  <2>1. CASE InTable
    <3>1. Terminate
      BY <1>6, <2>1 DEF Disconnect
    <3>2. TypeOK'
      BY <1>6, <3>1, TerminateType DEF Disconnect, devVars, TypeOK
    <3> QED
      BY <3>1, <3>2, TerminateWaiters
  <2>2. CASE ~InTable
    BY <1>6, <2>2 DEF Disconnect, connVars, rxVars, openVars, devVars, TypeOK,
                      NoLostWakeup, NoOrphanedWaiters
  <2> QED
    BY <2>1, <2>2
<1>7. ASSUME NEW w \in Writes, NEW n \in Sizes, Write(w, n) PROVE Waiters'
  <2>1. Frame("ACK", txSeq, txAck, n, w) \in FrameType
    BY <1>1, <1>2, FrameTyped
  <2>2. outq' \in Seq(FrameType)
    BY <1>2, <1>7, <2>1, QueueType DEF Write, SendFrame
  <2>3. writes' \in [Writes -> WriteStates]
    BY <1>7 DEF Write, TypeOK, WriteStates
  <2> QED
    BY <1>7, <2>2, <2>3 DEF Write, connVars, rxVars, openVars, devVars, TypeOK,
                      NoLostWakeup, NoOrphanedWaiters
<1>8. ASSUME NEW r \in Reads, NEW n \in Sizes, ReadExact(r, n) PROVE Waiters'
  <2>1. UNCHANGED <<state, txSeq, txAck, opener, timer, devState, devSent, devData,
                    devGot, devAck, writes, handling, outq, atDevice, inq, usb>>
    BY <1>8 DEF ReadExact, connVars, openVars, devVars
  <2>2. n \in Nat /\ rxLen \in Nat /\ rxTaken \in Nat
    BY <1>1 DEF TypeOK
  <2>3. CASE rxLen >= n
    <3>1. TakeBytes(r, n) /\ UNCHANGED pendingReads
      BY <1>8, <2>2, <2>3 DEF ReadExact
    <3>2. /\ rxLen' = rxLen - n /\ rxTaken' = rxTaken + n
          /\ reads' = [reads EXCEPT ![r] = [st |-> "ok", from |-> rxTaken, n |-> n]]
      BY <3>1 DEF TakeBytes
    <3>3. TypeOK'
      BY <2>1, <2>2, <2>3, <3>1, <3>2 DEF TypeOK, ReadStates
    <3>4. NoLostWakeup'
      <4>1. pendingReads # <<>> => Head(pendingReads) \in [r : Reads, n : Sizes]
        BY QueueType DEF TypeOK
      <4>2. pendingReads # <<>> => Head(pendingReads).n \in Nat
        BY <1>1, <4>1
      <4>3. rxLen' <= rxLen
        BY <2>2, <2>3, <3>2
      <4>4. rxLen' \in Int /\ pendingReads' = pendingReads
        BY <2>2, <3>1, <3>2
      <4>5. pendingReads # <<>> => rxLen < Head(pendingReads).n
        BY DEF NoLostWakeup
      <4>6. pendingReads # <<>> => rxLen' < Head(pendingReads).n
        BY <2>2, <4>2, <4>3, <4>4, <4>5
      <4> QED
        BY <4>4, <4>6 DEF NoLostWakeup
    <3>5. NoOrphanedWaiters'
      BY <2>1, <3>1, <3>2 DEF NoOrphanedWaiters, TypeOK
    <3> QED
      BY <3>3, <3>4, <3>5
  <2>4. CASE rxLen < n /\ state = "closed"
    <3>1. /\ reads' = [reads EXCEPT ![r] = [st |-> "error", from |-> 0, n |-> n]]
          /\ UNCHANGED <<rxLen, rxTaken, pendingReads>>
      BY <1>8, <2>2, <2>4 DEF ReadExact
    <3> QED
      BY <2>1, <2>2, <3>1 DEF TypeOK, ReadStates, NoLostWakeup, NoOrphanedWaiters
  <2>5. CASE rxLen < n /\ state # "closed"
    <3>1. /\ reads' = [reads EXCEPT ![r] = [st |-> "pending", from |-> 0, n |-> n]]
          /\ pendingReads' = Append(pendingReads, [r |-> r, n |-> n])
          /\ UNCHANGED <<rxLen, rxTaken>>
      BY <1>8, <2>2, <2>5 DEF ReadExact
    <3>2. pendingReads' \in Seq([r : Reads, n : Sizes])
      BY <3>1, QueueType DEF TypeOK
    <3>3. TypeOK'
      BY <2>1, <2>2, <3>1, <3>2 DEF TypeOK, ReadStates
    <3>4. Head(pendingReads') = IF pendingReads = <<>> THEN [r |-> r, n |-> n]
                                                       ELSE Head(pendingReads)
      BY <3>1 DEF TypeOK
    <3>5. NoLostWakeup'
      BY <2>5, <3>1, <3>4 DEF NoLostWakeup
    <3> QED
      BY <2>1, <2>5, <3>3, <3>5 DEF NoOrphanedWaiters
  <2> QED
    BY <2>2, <2>3, <2>4, <2>5
<1> QED
  BY <1>3, <1>4, <1>5, <1>6, <1>7, <1>8

\* Handling a packet preserves it.
LEMMA HandleWaiters ==
  ASSUME Waiters, HandlePacket
  PROVE  Waiters'
<1> USE DEF Waiters
<1> DEFINE p == Head(inq)
<1>1. UNCHANGED <<devState, devSent, devData, devGot, devAck, writes, atDevice, usb>>
  BY DEF HandlePacket, devVars
<1>2. p \in PacketType /\ inq' \in Seq(PacketType)
  BY QueueType DEF HandlePacket, TypeOK
<1>3. /\ p.seq \in Nat /\ p.len \in Nat
      /\ txSeq \in 0..(Modulus - 1) /\ txAck \in 0..(Modulus - 1)
      /\ txSeq \in Nat /\ outq \in Seq(FrameType) /\ "handler" \in Owners
  BY <1>2, MuxTcpAssumption DEF PacketType, TypeOK, Owners
<1> HIDE DEF p
<1>4. ASSUME Terminate, UNCHANGED <<handling, outq>> PROVE Waiters'
  <2>1. TypeOK'
    BY <1>1, <1>2, <1>4, TerminateType DEF TypeOK
  <2> QED
    BY <1>4, <2>1, TerminateWaiters
<1>5. ASSUME UNCHANGED <<connVars, rxVars, openVars, handling, outq>> PROVE Waiters'
  BY <1>1, <1>2, <1>5 DEF connVars, rxVars, openVars, TypeOK, NoLostWakeup,
                          NoOrphanedWaiters
<1>6. CASE InTable /\ state = "connecting" /\ Connecting(p)
  <2>1. CASE p.kind = "SYNACK"
    <3>1. /\ txSeq' = Advance(txSeq, 1) /\ txAck' = Advance(p.seq, 1)
          /\ state' = "connected" /\ timer' = FALSE /\ handling' = "synack"
          /\ SendFrame(Frame("ACK", txSeq', txAck', 0, "handler"))
          /\ UNCHANGED <<rxVars, opener>>
      BY <1>6, <2>1 DEF Connecting
    <3>2. txSeq' \in 0..(Modulus - 1) /\ txAck' \in 0..(Modulus - 1)
      BY <1>3, <3>1, AdvanceType
    <3>3. Frame("ACK", txSeq', txAck', 0, "handler") \in FrameType
      BY <1>3, <3>2, FrameTyped
    <3>4. outq' \in Seq(FrameType)
      BY <1>3, <3>1, <3>3, QueueType DEF SendFrame
    <3>5. TypeOK'
      BY <1>1, <1>2, <3>1, <3>2, <3>4 DEF rxVars, TypeOK
    <3> QED
      BY <3>1, <3>5 DEF rxVars, NoLostWakeup, NoOrphanedWaiters
  <2> QED
    BY <1>4, <1>5, <1>6, <2>1 DEF Connecting
<1>7. CASE InTable /\ state = "connected" /\ Connected(p)
  <2>1. CASE p.kind = "DATA"
    <3>1. /\ txAck' = Advance(p.seq, p.len) /\ AppendRx(p.len) /\ handling' = "data"
          /\ SendFrame(Frame("ACK", txSeq, txAck', 0, "handler"))
          /\ UNCHANGED <<state, txSeq, openVars>>
      BY <1>7, <2>1 DEF Connected, Data
    <3>2. txAck' \in 0..(Modulus - 1)
      BY <1>3, <3>1, AdvanceType
    <3>3. Frame("ACK", txSeq, txAck', 0, "handler") \in FrameType
      BY <1>3, <3>2, FrameTyped
    <3>4. outq' \in Seq(FrameType)
      BY <1>3, <3>1, <3>3, QueueType DEF SendFrame
    <3>5. /\ rxLen' \in Nat /\ rxTaken' \in Nat
          /\ pendingReads' \in Seq([r : Reads, n : Sizes])
          /\ pendingReads' # <<>> => rxLen' < Head(pendingReads').n
          /\ reads' \in [Reads -> [st : ReadStates, from : Nat, n : Nat]]
      BY <1>3, <3>1, AppendRxType
    <3>6. TypeOK'
      BY <1>1, <1>2, <3>1, <3>2, <3>4, <3>5 DEF openVars, TypeOK
    <3> QED
      BY <1>7, <3>1, <3>5, <3>6 DEF NoLostWakeup, NoOrphanedWaiters
  <2> QED
    BY <1>4, <1>5, <1>7, <2>1 DEF Connected
<1> QED
  BY <1>5, <1>6, <1>7 DEF HandlePacket, p

\* The transfers and the device preserve it.
LEMMA LinkWaiters ==
  ASSUME Waiters,
         \/ Deliver \/ Settle \/ SettleFail \/ DeviceReset
         \/ \E len \in Sizes : DeviceData(len)
  PROVE  Waiters'
<1> USE DEF Waiters
<1>1. Sizes \subseteq Nat /\ Modulus \in Nat \ {0}
  BY MuxTcpAssumption DEF Sizes
<1>2. /\ inq \in Seq(PacketType) /\ outq \in Seq(FrameType)
      /\ outq # <<>> => Head(outq) \in FrameType /\ Tail(outq) \in Seq(FrameType)
  BY QueueType DEF TypeOK
<1>3. ASSUME NEW kind \in {"SYNACK", "RST", "DATA"}, NEW seq \in Nat, NEW len \in Nat,
             Receive(Packet(kind, seq, len))
      PROVE  inq' \in Seq(PacketType)
  <2>1. Packet(kind, seq, len) \in PacketType
    BY DEF Packet, PacketType
  <2> QED
    BY <1>2, <1>3, <2>1, QueueType DEF Receive
<1>4. CASE Deliver
  <2>1. UNCHANGED <<state, txSeq, txAck, rxLen, rxTaken, pendingReads, reads, opener,
                    timer, devSent, writes, handling, outq, usb>> /\ atDevice' = TRUE
    BY <1>4 DEF Deliver, connVars, rxVars, openVars
  <2>2. CASE DeviceSyn /\ UNCHANGED <<devData, devGot, devAck>>
    <3>1. inq' \in Seq(PacketType) /\ devState' \in {"listen", "open", "closed"}
      BY <1>2, <1>3, <2>2 DEF DeviceSyn, TypeOK
    <3> QED
      BY <2>1, <2>2, <3>1 DEF TypeOK, NoLostWakeup, NoOrphanedWaiters
  <2>3. CASE DeviceAck(Head(outq)) /\ Head(outq).flags = "ACK" /\ UNCHANGED <<devState, inq>>
    <3>1. Head(outq).ack \in Nat /\ Head(outq).len \in Nat /\ Head(outq).by \in Owners
      BY <1>2, <1>4 DEF FrameType, Deliver
    <3>2. devData' \in Nat /\ devAck' \in Nat
      BY <2>3, <3>1 DEF DeviceAck, TypeOK
    <3>3. devGot' \subseteq Owners
      BY <2>3, <3>1 DEF DeviceAck, TypeOK
    <3> QED
      BY <2>1, <2>3, <3>2, <3>3 DEF TypeOK, NoLostWakeup, NoOrphanedWaiters
  <2>4. CASE devState' = "closed" /\ UNCHANGED <<devData, devGot, devAck, inq>>
    BY <2>1, <2>4 DEF TypeOK, NoLostWakeup, NoOrphanedWaiters
  <2> QED
    BY <1>4, <2>2, <2>3, <2>4 DEF Deliver
<1>5. CASE Settle
  <2> DEFINE f == Head(outq)
  <2>1. /\ UNCHANGED <<state, txAck, rxLen, rxTaken, pendingReads, reads, devState,
                       devSent, devData, devGot, devAck, inq, usb>>
        /\ outq' \in Seq(FrameType) /\ atDevice' = FALSE
    BY <1>2, <1>5 DEF Settle, Dequeue, rxVars, devVars
  <2>2. f \in FrameType
    BY <1>2, <1>5 DEF Settle
  <2>3. CASE OpenSent /\ UNCHANGED <<txSeq, writes, handling>>
    BY <2>1, <2>3 DEF OpenSent, TypeOK, NoLostWakeup, NoOrphanedWaiters
  <2>4. CASE AckSent /\ UNCHANGED <<txSeq, writes>>
    BY <2>1, <2>4 DEF AckSent, TypeOK, NoLostWakeup, NoOrphanedWaiters
  <2>5. CASE UNCHANGED <<txSeq, writes, openVars, handling>>
    BY <2>1, <2>5, ZenonT(60) DEF openVars, TypeOK, NoLostWakeup, NoOrphanedWaiters
  <2>6. CASE f.by \in Writes /\ WriteSent(f.by, f.len) /\ UNCHANGED <<openVars, handling>>
    <3>1. f.len \in Nat /\ txSeq \in Nat
      BY <1>1, <2>2 DEF FrameType, TypeOK
    <3>2. txSeq' \in 0..(Modulus - 1)
      BY <2>6, <3>1, AdvanceType DEF WriteSent
    <3>3. writes' \in [Writes -> WriteStates]
      BY <2>6 DEF WriteSent, WriteStates, TypeOK
    <3> QED
      BY <2>1, <2>6, <3>2, <3>3, ZenonT(60) DEF openVars, TypeOK, NoLostWakeup, NoOrphanedWaiters
  <2> QED
    BY <1>5, <2>3, <2>4, <2>5, <2>6 DEF Settle
<1>6. CASE SettleFail
  <2>1. /\ UNCHANGED <<state, txSeq, txAck, rxLen, rxTaken, pendingReads, reads, timer,
                       devState, devSent, devData, devGot, devAck, inq, usb>>
        /\ outq' \in Seq(FrameType) /\ atDevice' = FALSE
    BY <1>2, <1>6 DEF SettleFail, Dequeue, connVars, rxVars, devVars
  <2>2. /\ opener' \in {opener, "rejected"} /\ handling' \in {handling, "none"}
        /\ writes' \in [Writes -> WriteStates]
    BY <1>6 DEF SettleFail, WriteStates, TypeOK
  <2> QED
    BY <2>1, <2>2, ZenonT(60) DEF TypeOK, NoLostWakeup, NoOrphanedWaiters
<1>7. CASE DeviceReset
  <2>1. inq' \in Seq(PacketType)
    BY <1>3, <1>7 DEF DeviceReset
  <2> QED
    BY <1>7, <2>1 DEF DeviceReset, connVars, rxVars, openVars, TypeOK, NoLostWakeup,
                      NoOrphanedWaiters
<1>8. ASSUME NEW len \in Sizes, DeviceData(len) PROVE Waiters'
  <2>1. len \in Nat /\ devSent \in Nat /\ (1 + devSent) % Modulus \in Nat
    BY <1>1 DEF TypeOK
  <2>2. inq' \in Seq(PacketType) /\ devSent' \in Nat
    BY <1>3, <1>8, <2>1 DEF DeviceData
  <2> QED
    BY <1>8, <2>2 DEF DeviceData, connVars, rxVars, openVars, TypeOK, NoLostWakeup,
                      NoOrphanedWaiters
<1> QED
  BY <1>4, <1>5, <1>6, <1>7, <1>8

\* Any step of the system, or none, preserves it.
LEMMA NextWaiters == Waiters /\ [Next]_vars => Waiters'
<1> SUFFICES ASSUME Waiters, [Next]_vars PROVE Waiters'
  OBVIOUS
<1>1. CASE UNCHANGED vars
  BY <1>1 DEF vars, connVars, rxVars, openVars, devVars, Waiters, TypeOK,
              NoLostWakeup, NoOrphanedWaiters
<1>2. CASE Next
  BY <1>2, CallWaiters, HandleWaiters, LinkWaiters DEF Next
<1> QED
  BY <1>1, <1>2

\* Every variable of the connection keeps its type.
THEOREM TypeCorrect == Spec => []TypeOK
<1>1. Waiters => TypeOK
  BY DEF Waiters
<1> QED
  BY <1>1, InitWaiters, NextWaiters, PTL DEF Spec

\* readExact and pumpReads never leave a reader asleep on bytes it could have,
\* whatever sizes the readers ask for and the device sends.
THEOREM NoReaderSleepsOnData == Spec => []NoLostWakeup
<1>1. Waiters => NoLostWakeup
  BY DEF Waiters
<1> QED
  BY <1>1, InitWaiters, NextWaiters, PTL DEF Spec

\* However the connection ends, terminate() settles everyone who waits, and
\* nobody starts to wait afterwards.
THEOREM ClosedReleasesWaiters == Spec => []NoOrphanedWaiters
<1>1. Waiters => NoOrphanedWaiters
  BY DEF Waiters
<1> QED
  BY <1>1, InitWaiters, NextWaiters, PTL DEF Spec

-----------------------------------------------------------------------------
(* The readers share the bytes out                                         *)

\* A set of numbers has a least one.
LEMMA NatMin ==
  ASSUME NEW T, T \subseteq Nat, T # {}
  PROVE  \E m \in T : \A n \in T : m <= n
<1> DEFINE R == {ss \in Nat \X Nat : ss[1] < ss[2]}
<1>1. IsWellFoundedOn(R, Nat)
  BY NatLessThanWellFounded DEF OpToRel
<1>2. \A m, n \in Nat : n < m => <<n, m>> \in R
  OBVIOUS
<1> HIDE DEF R
<1>3. PICK m \in T : \A n \in T : ~(<<n, m>> \in R)
  BY <1>1, WFMin
<1>4. ASSUME NEW n \in T PROVE m <= n
  <2>1. m \in Nat /\ n \in Nat /\ ~(n < m)
    BY <1>2, <1>3
  <2> QED
    BY <2>1
<1> QED
  BY <1>4

\* Cuts that follow one another never fall back, and every byte before the
\* last of them lies between two neighbours.
LEMMA CutsGoUp ==
  ASSUME NEW k \in Nat, NEW cut \in [0..k -> Nat], cut[0] = 0,
         \A i \in 1..k : cut[i - 1] <= cut[i]
  PROVE  /\ \A i, j \in 0..k : i <= j => cut[i] <= cut[j]
         /\ \A b \in Nat : b < cut[k] => \E i \in 1..k : cut[i - 1] <= b /\ b < cut[i]
<1>1. ASSUME NEW i \in 0..k, NEW j \in 0..k, i <= j PROVE cut[i] <= cut[j]
  <2> DEFINE T == {m \in i..k : cut[m] < cut[i]}
  <2>1. SUFFICES ASSUME ~(cut[i] <= cut[j]) PROVE FALSE
    OBVIOUS
  <2>2. T \subseteq Nat /\ j \in T
    BY <1>1, <2>1
  <2>3. PICK m \in T : \A n \in T : m <= n
    <3> HIDE DEF T
    <3> QED
      BY <2>2, NatMin
  <2>4. /\ m \in i..k /\ cut[m] < cut[i] /\ cut[i] \in Nat /\ cut[m] \in Nat
        /\ m # i
    OBVIOUS
  <2>5. m \in 1..k /\ m - 1 \in i..k /\ m - 1 \in 0..k
    BY <2>4
  <2>6. cut[m - 1] <= cut[m] /\ cut[m - 1] \in Nat
    BY <2>5
  <2>7. m - 1 \in T
    BY <2>4, <2>5, <2>6
  <2>8. m <= m - 1
    BY <2>3, <2>7
  <2> QED
    BY <2>4, <2>8
<1>2. ASSUME NEW b \in Nat, b < cut[k]
      PROVE  \E i \in 1..k : cut[i - 1] <= b /\ b < cut[i]
  <2> DEFINE T == {m \in 0..k : b < cut[m]}
  <2>1. T \subseteq Nat /\ k \in T
    BY <1>2
  <2>2. PICK m \in T : \A n \in T : m <= n
    <3> HIDE DEF T
    <3> QED
      BY <2>1, NatMin
  <2>3. m \in 0..k /\ b < cut[m] /\ m # 0
    OBVIOUS
  <2>4. m \in 1..k /\ m - 1 \in 0..k /\ cut[m - 1] \in Nat
    BY <2>3
  <2>5. m - 1 \notin T
    <3>1. ~(m <= m - 1)
      BY <2>3
    <3> QED
      BY <2>2, <3>1
  <2>6. cut[m - 1] <= b
    BY <2>4, <2>5
  <2> QED
    BY <2>3, <2>4, <2>6
<1> QED
  BY <1>1, <1>2

\* Each reader waits once, for the number of bytes it asked for.
QueueOnce ==
  \A i, j \in 1..Len(pendingReads) : pendingReads[i].r = pendingReads[j].r => i = j
QueuePending ==
  \A i \in 1..Len(pendingReads) :
    /\ reads[pendingReads[i].r].st = "pending"
    /\ reads[pendingReads[i].r].n = pendingReads[i].n

\* No reader has bytes that were not taken.
ServedTaken ==
  \A r \in Reads : reads[r].st = "ok" => reads[r].from + reads[r].n <= rxTaken

Partition == QueueOnce /\ QueuePending /\ ServedTaken /\ ReadsPartition

\* Has reader r byte b?
Has(r, b) == reads[r].st = "ok" /\ b \in reads[r].from..(reads[r].from + reads[r].n - 1)

\* Bytes taken before stay whose they are, and each new one has one owner.
LEMMA PartitionGrows ==
  ASSUME TypeOK, TypeOK', ServedTaken, ReadsPartition, rxTaken <= rxTaken',
         \A r \in Reads : \/ reads'[r] = reads[r]
                          \/ reads[r].st # "ok" /\ reads'[r].st # "ok"
                          \/ /\ reads[r].st # "ok" /\ reads'[r].st = "ok"
                             /\ reads'[r].from >= rxTaken
                             /\ reads'[r].from + reads'[r].n <= rxTaken',
         \A b \in rxTaken..(rxTaken' - 1) :
           \E r \in Reads : Has(r, b)' /\ \A q \in Reads : Has(q, b)' => q = r
  PROVE  ServedTaken' /\ ReadsPartition'
<1>1. rxTaken \in Nat /\ rxTaken' \in Nat
  BY DEF TypeOK
<1>2. \A r \in Reads : /\ reads[r].from \in Nat /\ reads[r].n \in Nat
                       /\ reads'[r].from \in Nat /\ reads'[r].n \in Nat
  BY DEF TypeOK
<1>3. ASSUME NEW r \in Reads, reads'[r].st = "ok"
      PROVE  reads'[r].from + reads'[r].n <= rxTaken'
  BY <1>1, <1>2, <1>3 DEF ServedTaken
<1>4. ASSUME NEW b \in 0..(rxTaken - 1), NEW q \in Reads PROVE Has(q, b)' <=> Has(q, b)
  BY <1>1, <1>2, <1>4 DEF Has
<1>5. ASSUME NEW b \in 0..(rxTaken' - 1)
      PROVE  \E r \in Reads : Has(r, b)' /\ \A q \in Reads : Has(q, b)' => q = r
  <2>1. CASE b < rxTaken
    <3>1. b \in 0..(rxTaken - 1)
      BY <1>1, <2>1
    <3>2. \E r \in Reads : Has(r, b) /\ \A q \in Reads : Has(q, b) => q = r
      BY <3>1 DEF ReadsPartition, Has
    <3> QED
      BY <1>4, <3>1, <3>2
  <2>2. CASE b >= rxTaken
    <3>1. b \in 0..(rxTaken' - 1)
      OBVIOUS
    <3>2. \A m, n \in Nat : b \in 0..(n - 1) /\ b >= m => b \in m..(n - 1)
      BY ONLY SMT
    <3>3. b \in rxTaken..(rxTaken' - 1)
      BY ONLY <1>1, <2>2, <3>1, <3>2
    <3> QED
      BY <3>3
  <2> QED
    BY <1>1, <2>1, <2>2
<1>6. ServedTaken'
  BY <1>3 DEF ServedTaken
<1>7. ReadsPartition'
  BY <1>5 DEF ReadsPartition, Has
<1> QED
  BY <1>6, <1>7

\* Nobody's bytes change when no reader's do.
LEMMA PartitionSame ==
  ASSUME Partition, UNCHANGED <<rxTaken, pendingReads, reads>>
  PROVE  Partition'
BY DEF Partition, QueueOnce, QueuePending, ServedTaken, ReadsPartition

\* terminate() takes nothing from the readers that have their bytes.
LEMMA TerminatePartition ==
  ASSUME TypeOK, Partition, Terminate
  PROVE  Partition'
<1>1. /\ rxTaken' = rxTaken /\ pendingReads' = <<>>
      /\ reads' = [r \in Reads |-> IF reads[r].st = "pending"
                                     THEN [reads[r] EXCEPT !.st = "error"] ELSE reads[r]]
  BY DEF Terminate
<1>2. ASSUME NEW r \in Reads
      PROVE  reads'[r].st = "ok" \/ reads[r].st = "ok" => reads'[r] = reads[r]
  BY <1>1 DEF TypeOK
<1>3. Len(pendingReads') = 0
  BY <1>1
<1>4. QueueOnce' /\ QueuePending'
  BY <1>3 DEF QueueOnce, QueuePending
<1>5. ServedTaken'
  BY <1>1, <1>2 DEF Partition, ServedTaken
<1>6. \A r \in Reads : \A b : Has(r, b)' <=> Has(r, b)
  BY <1>2 DEF Has
<1>7. ReadsPartition'
  <2>1. \A b \in 0..(rxTaken - 1) :
          \E r \in Reads : Has(r, b) /\ \A q \in Reads : Has(q, b) => q = r
    BY DEF Partition, ReadsPartition, Has
  <2>2. \A b \in 0..(rxTaken' - 1) :
          \E r \in Reads : Has(r, b)' /\ \A q \in Reads : Has(q, b)' => q = r
    BY <1>1, <1>6, <2>1
  <2> QED
    BY <2>2 DEF ReadsPartition, Has
<1> QED
  BY <1>4, <1>5, <1>7 DEF Partition

\* readExact() takes the next bytes, fails, or waits as the last in the queue.
LEMMA ReadPartition ==
  ASSUME Waiters, Waiters', Partition, NEW r \in Reads, NEW n \in Sizes, ReadExact(r, n)
  PROVE  Partition'
<1>1. /\ reads \in [Reads -> [st : ReadStates, from : Nat, n : Nat]] /\ n \in Nat
      /\ rxTaken \in Nat /\ rxLen \in Nat /\ pendingReads \in Seq([r : Reads, n : Sizes])
      /\ TypeOK /\ TypeOK' /\ reads[r].st = "new"
  <2>1. TypeOK /\ TypeOK' /\ reads[r].st = "new"
    BY DEF Waiters, ReadExact
  <2>2. n \in Nat
    BY DEF Sizes
  <2> QED
    BY <2>1, <2>2 DEF TypeOK
<1>2. \A i \in 1..Len(pendingReads) : pendingReads[i].r \in Reads /\ pendingReads[i].r # r
  <2>1. SUFFICES ASSUME NEW i \in 1..Len(pendingReads)
                 PROVE  pendingReads[i].r \in Reads /\ pendingReads[i].r # r
    OBVIOUS
  <2>2. pendingReads[i] \in [r : Reads, n : Sizes]
    <3> DEFINE W == [r : Reads, n : Sizes]
    <3>1. pendingReads \in Seq(W)
      BY <1>1
    <3> HIDE DEF W
    <3>2. pendingReads[i] \in W
      BY <3>1
    <3> QED
      BY <3>2 DEF W
  <2>3. reads[pendingReads[i].r].st = "pending"
    BY DEF Partition, QueuePending
  <2> QED
    BY <1>1, <2>2, <2>3
<1>3. ASSUME NEW x, reads' = [reads EXCEPT ![r] = x], UNCHANGED pendingReads
      PROVE  QueueOnce' /\ QueuePending'
  BY <1>1, <1>2, <1>3 DEF Partition, QueueOnce, QueuePending
<1>4. CASE TakeBytes(r, n) /\ UNCHANGED pendingReads
  <2>1. /\ reads' = [reads EXCEPT ![r] = [st |-> "ok", from |-> rxTaken, n |-> n]]
        /\ rxTaken' = rxTaken + n
    BY <1>4 DEF TakeBytes
  <2>2. reads'[r] = [st |-> "ok", from |-> rxTaken, n |-> n]
    BY <1>1, <2>1
  <2>3. \A q \in Reads : q # r => reads'[q] = reads[q]
    BY <1>1, <2>1
  <2>4. ASSUME NEW b \in rxTaken..(rxTaken + n - 1), NEW q \in Reads, q # r
        PROVE  ~Has(q, b)'
    <3>1. reads[q].from \in Nat /\ reads[q].n \in Nat
      BY <1>1
    <3>2. reads[q].st = "ok" => reads[q].from + reads[q].n <= rxTaken
      BY DEF Partition, ServedTaken
    <3> QED
      BY <1>1, <2>3, <2>4, <3>1, <3>2 DEF Has
  <2>5. ASSUME NEW b \in rxTaken..(rxTaken' - 1)
        PROVE  Has(r, b)' /\ \A q \in Reads : Has(q, b)' => q = r
    <3>1. b \in rxTaken..(rxTaken + n - 1)
      BY <1>1, <2>1, (rxTaken + n) - 1 = rxTaken + n - 1
    <3> QED
      BY <2>2, <2>4, <3>1 DEF Has
  <2>6. rxTaken <= rxTaken' /\ reads[r].st # "ok" /\ reads'[r].st = "ok"
        /\ reads'[r].from >= rxTaken /\ reads'[r].from + reads'[r].n <= rxTaken'
    BY <1>1, <2>1, <2>2
  <2>7. ServedTaken' /\ ReadsPartition'
    BY <1>1, <2>3, <2>5, <2>6, PartitionGrows DEF Partition
  <2> QED
    BY <1>3, <1>4, <2>1, <2>7 DEF Partition
<1>5. ASSUME NEW st \in {"error", "pending"}, rxTaken' = rxTaken,
             reads' = [reads EXCEPT ![r] = [st |-> st, from |-> 0, n |-> n]]
      PROVE  ServedTaken' /\ ReadsPartition'
  <2>1. reads'[r].st # "ok" /\ reads[r].st # "ok"
    BY <1>1, <1>5
  <2>2. \A q \in Reads : q # r => reads'[q] = reads[q]
    BY <1>1, <1>5
  <2>3. rxTaken <= rxTaken' /\ rxTaken..(rxTaken' - 1) = {}
    BY <1>1, <1>5
  <2> QED
    BY <1>1, <2>1, <2>2, <2>3, PartitionGrows DEF Partition
<1>6. CASE /\ reads' = [reads EXCEPT ![r] = [st |-> "error", from |-> 0, n |-> n]]
           /\ UNCHANGED <<rxTaken, pendingReads>>
  BY <1>3, <1>5, <1>6 DEF Partition
<1>7. CASE /\ reads' = [reads EXCEPT ![r] = [st |-> "pending", from |-> 0, n |-> n]]
           /\ pendingReads' = Append(pendingReads, [r |-> r, n |-> n])
           /\ UNCHANGED rxTaken
  <2>1. /\ Len(pendingReads') = Len(pendingReads) + 1
        /\ pendingReads'[Len(pendingReads) + 1] = [r |-> r, n |-> n]
        /\ \A i \in 1..Len(pendingReads) : pendingReads'[i] = pendingReads[i]
        /\ Len(pendingReads) \in Nat
    BY <1>1, <1>7
  <2>2. \A i \in 1..Len(pendingReads') :
          i \in 1..Len(pendingReads) \/ i = Len(pendingReads) + 1
    BY <2>1
  <2>3. QueueOnce'
    <3>1. ASSUME NEW i \in 1..Len(pendingReads'), NEW j \in 1..Len(pendingReads'),
                 pendingReads'[i].r = pendingReads'[j].r
          PROVE  i = j
      BY <1>2, <2>1, <2>2, <3>1 DEF Partition, QueueOnce
    <3> QED
      BY <3>1 DEF QueueOnce
  <2>4. QueuePending'
    <3>1. ASSUME NEW i \in 1..Len(pendingReads')
          PROVE  /\ reads'[pendingReads'[i].r].st = "pending"
                 /\ reads'[pendingReads'[i].r].n = pendingReads'[i].n
      <4>1. CASE i = Len(pendingReads) + 1
        BY <1>1, <1>7, <2>1, <4>1
      <4>2. CASE i \in 1..Len(pendingReads)
        BY <1>1, <1>2, <1>7, <2>1, <4>2 DEF Partition, QueuePending
      <4> QED
        BY <2>2, <4>1, <4>2
    <3> QED
      BY <3>1 DEF QueuePending
  <2> QED
    BY <1>5, <1>7, <2>3, <2>4 DEF Partition
<1> QED
  BY <1>4, <1>6, <1>7 DEF ReadExact

\* What pumpReads() does to the k readers in front of the queue, and to the rest.
ServedAt(k, cut, i) ==
  LET r == pendingReads[i].r IN
  /\ reads[r].st = "pending" /\ reads'[r].st = "ok"
  /\ reads'[r].from = rxTaken + cut[i - 1]
  /\ reads'[r].from + reads'[r].n = rxTaken + cut[i]
Unserved(k, r) == \A i \in 1..k : pendingReads[i].r # r

LEMMA PumpServes ==
  ASSUME TypeOK, Partition, NEW k \in 0..Len(pendingReads), NEW avail \in Nat,
         NEW cut \in [0..k -> 0..avail], PumpReads(k, cut, avail)
  PROVE  /\ cut \in [0..k -> Nat] /\ cut[0] = 0 /\ \A i \in 1..k : cut[i - 1] <= cut[i]
         /\ rxTaken' = rxTaken + cut[k]
         /\ pendingReads' = SubSeq(pendingReads, k + 1, Len(pendingReads))
         /\ \A i \in 1..k : pendingReads[i].r \in Reads /\ ServedAt(k, cut, i)
         /\ \A r \in Reads : Unserved(k, r) => reads'[r] = reads[r]
<1> DEFINE W == [r : Reads, n : Sizes]
           Served(r) == \E i \in 1..k : pendingReads[i].r = r
           At(r) == CHOOSE i \in 1..k : pendingReads[i].r = r
<1>1. pendingReads \in Seq(W) /\ rxTaken \in Nat /\ Len(pendingReads) \in Nat /\ k \in Nat
  BY DEF TypeOK
<1>2. \A w \in W : w.r \in Reads /\ w.n \in Nat
  BY DEF Sizes
<1>3. \A i \in 1..k : pendingReads[i].r \in Reads /\ pendingReads[i].n \in Nat
  <2> HIDE DEF W
  <2>1. \A i \in 1..k : i \in 1..Len(pendingReads)
    BY <1>1
  <2>2. \A i \in 1..k : pendingReads[i] \in W
    BY <1>1, <2>1
  <2> QED
    BY <1>2, <2>2
<1>4. /\ cut[0] = 0 /\ \A i \in 1..k : cut[i] = cut[i - 1] + pendingReads[i].n
      /\ rxTaken' = rxTaken + cut[k]
      /\ pendingReads' = SubSeq(pendingReads, k + 1, Len(pendingReads))
  BY DEF PumpReads, PumpStops, CutFor
<1>5. reads' = [r \in Reads |->
                 IF Served(r)
                   THEN [reads[r] EXCEPT !.st = "ok", !.from = Offset(cut, At(r))]
                   ELSE reads[r]]
  BY DEF PumpReads
<1>6. cut \in [0..k -> Nat]
  OBVIOUS
<1>7. ASSUME NEW i \in 1..k
      PROVE  cut[i - 1] \in Nat /\ cut[i] \in Nat /\ cut[i - 1] <= cut[i]
  <2>1. i - 1 \in 0..k /\ i \in 0..k
    BY <1>1
  <2>2. cut[i - 1] \in Nat /\ cut[i] \in Nat
    BY <1>6, <2>1
  <2>3. cut[i] = cut[i - 1] + pendingReads[i].n /\ pendingReads[i].n \in Nat
    BY <1>3, <1>4
  <2> QED
    BY ONLY <2>2, <2>3
<1>8. ASSUME NEW i \in 1..k PROVE ServedAt(k, cut, i)
  <2> DEFINE r == pendingReads[i].r
  <2>1. r \in Reads /\ i \in 1..Len(pendingReads)
    BY <1>1, <1>3
  <2>2. reads[r].st = "pending" /\ reads[r].n = pendingReads[i].n
    BY <2>1 DEF Partition, QueuePending
  <2>3. Served(r) /\ At(r) \in 1..k /\ pendingReads[At(r)].r = r
    OBVIOUS
  <2>4. At(r) = i
    <3>1. At(r) \in 1..Len(pendingReads)
      BY <1>1, <2>3
    <3> QED
      BY <2>1, <2>3, <3>1 DEF Partition, QueueOnce
  <2>5. reads'[r] = [reads[r] EXCEPT !.st = "ok", !.from = Offset(cut, i)]
    <3> HIDE DEF Served, At, r
    <3> QED
      BY <1>5, <2>1, <2>3, <2>4
  <2>6. reads[r] \in [st : ReadStates, from : Nat, n : Nat]
    BY <2>1 DEF TypeOK
  <2>7. /\ reads'[r].st = "ok" /\ reads'[r].n = pendingReads[i].n
        /\ reads'[r].from = rxTaken + cut[i - 1]
    <3> HIDE DEF r
    <3> QED
      BY <2>2, <2>5, <2>6 DEF Offset
  <2>8. rxTaken + cut[i - 1] + pendingReads[i].n = rxTaken + cut[i]
    <3>1. /\ cut[i] = cut[i - 1] + pendingReads[i].n /\ pendingReads[i].n \in Nat
          /\ cut[i - 1] \in Nat /\ rxTaken \in Nat
      BY <1>1, <1>3, <1>4, <1>7
    <3> QED
      BY ONLY <3>1
  <2> QED
    BY <2>2, <2>7, <2>8 DEF ServedAt
<1>9. ASSUME NEW r \in Reads, Unserved(k, r) PROVE reads'[r] = reads[r]
  <2>1. ~Served(r)
    BY <1>9 DEF Unserved
  <2> HIDE DEF Served, At
  <2> QED
    BY <1>5, <2>1
<1> QED
  BY <1>3, <1>4, <1>6, <1>7, <1>8, <1>9

\* pumpReads() serves the readers in their order, one next to the other.
LEMMA PumpPartition ==
  ASSUME Waiters, Waiters', Partition, NEW len \in Nat, AppendRx(len)
  PROVE  Partition'
<1> DEFINE avail == rxLen + len
<1>1. TypeOK /\ TypeOK' /\ avail \in Nat
  <2>1. TypeOK /\ TypeOK'
    BY DEF Waiters
  <2>2. rxLen \in Nat
    BY <2>1 DEF TypeOK
  <2> QED
    BY <2>1, <2>2
<1>2. PICK k \in 0..Len(pendingReads) :
        \E cut \in [0..k -> 0..avail] : PumpReads(k, cut, avail)
  BY DEF AppendRx
<1>3. PICK cut \in [0..k -> 0..avail] : PumpReads(k, cut, avail)
  BY <1>2
<1> HIDE DEF avail
<1>4. /\ cut \in [0..k -> Nat] /\ cut[0] = 0 /\ \A i \in 1..k : cut[i - 1] <= cut[i]
      /\ rxTaken' = rxTaken + cut[k]
      /\ pendingReads' = SubSeq(pendingReads, k + 1, Len(pendingReads))
      /\ \A i \in 1..k : pendingReads[i].r \in Reads /\ ServedAt(k, cut, i)
      /\ \A r \in Reads : Unserved(k, r) => reads'[r] = reads[r]
  BY <1>1, <1>3, PumpServes
<1>5. k \in Nat /\ rxTaken \in Nat /\ Len(pendingReads) \in Nat
  BY <1>1 DEF TypeOK
<1>6. /\ \A i, j \in 0..k : i <= j => cut[i] <= cut[j]
      /\ \A b \in Nat : b < cut[k] => \E i \in 1..k : cut[i - 1] <= b /\ b < cut[i]
  BY <1>4, <1>5, CutsGoUp
<1>7. \A i \in 1..k : /\ i \in 0..k /\ i - 1 \in 0..k
                      /\ cut[i] \in Nat /\ cut[i - 1] \in Nat /\ cut[k] \in Nat
  <2>1. \A i \in 0..k : cut[i] \in Nat
    BY <1>4
  <2>2. \A i \in 1..k : i \in 0..k /\ i - 1 \in 0..k
    BY <1>5
  <2>3. k \in 0..k
    BY <1>5
  <2> QED
    BY <2>1, <2>2, <2>3
<1>8. ASSUME NEW r \in Reads
      PROVE  \/ reads'[r] = reads[r]
             \/ reads[r].st # "ok" /\ reads'[r].st # "ok"
             \/ /\ reads[r].st # "ok" /\ reads'[r].st = "ok"
                /\ reads'[r].from >= rxTaken
                /\ reads'[r].from + reads'[r].n <= rxTaken'
  <2>1. CASE Unserved(k, r)
    BY <1>4, <2>1
  <2>2. ASSUME NEW i \in 1..k, pendingReads[i].r = r
        PROVE  /\ reads[r].st # "ok" /\ reads'[r].st = "ok"
               /\ reads'[r].from >= rxTaken
               /\ reads'[r].from + reads'[r].n <= rxTaken'
    <3>1. /\ reads[r].st = "pending" /\ reads'[r].st = "ok"
          /\ reads'[r].from = rxTaken + cut[i - 1]
          /\ reads'[r].from + reads'[r].n = rxTaken + cut[i]
      BY <1>4, <2>2 DEF ServedAt
    <3>2. cut[i] <= cut[k] /\ cut[i] \in Nat /\ cut[i - 1] \in Nat /\ cut[k] \in Nat
      BY <1>5, <1>6, <1>7
    <3>3. rxTaken + cut[i - 1] >= rxTaken /\ rxTaken + cut[i] <= rxTaken + cut[k]
      BY <1>5, <3>2
    <3> QED
      BY <1>4, <3>1, <3>3
  <2> QED
    BY <2>1, <2>2 DEF Unserved
<1>9. ASSUME NEW i \in 1..k, NEW b \in Int, NEW r \in Reads, r = pendingReads[i].r
      PROVE  Has(r, b)' <=> rxTaken + cut[i - 1] <= b /\ b < rxTaken + cut[i]
  <2> DEFINE f == reads'[r].from
             e == f + reads'[r].n
  <2>1. /\ reads'[r].st = "ok" /\ f = rxTaken + cut[i - 1] /\ e = rxTaken + cut[i]
    BY <1>4, <1>9 DEF ServedAt
  <2>2. f \in Nat /\ reads'[r].n \in Nat
    BY <1>1 DEF TypeOK
  <2>3. b \in f..(f + reads'[r].n - 1) <=> f <= b /\ b < e
    <3> DEFINE n == reads'[r].n
    <3>1. f \in Nat /\ n \in Nat
      BY <2>2
    <3> HIDE DEF f, n
    <3>2. b \in f..(f + n - 1) <=> f <= b /\ b < f + n
      BY <3>1
    <3> QED
      BY <3>2 DEF n
  <2>4. Has(r, b)' <=> reads'[r].st = "ok" /\ b \in f..(f + reads'[r].n - 1)
    BY DEF Has
  <2> HIDE DEF f, e
  <2> QED
    BY <2>1, <2>3, <2>4
<1>10. ASSUME NEW b \in rxTaken..(rxTaken' - 1)
       PROVE  \E r \in Reads : Has(r, b)' /\ \A q \in Reads : Has(q, b)' => q = r
  <2> DEFINE c == b - rxTaken
  <2>1. /\ b \in Int /\ b >= rxTaken /\ c \in Nat /\ c < cut[k] /\ b = rxTaken + c
    <3>1. cut[k] \in Nat
      BY <1>4, <1>5
    <3>2. \A m, n \in Nat : \A x \in m..((m + n) - 1) :
            x \in Int /\ x >= m /\ x - m \in Nat /\ x - m < n /\ x = m + (x - m)
      OBVIOUS
    <3>3. b \in rxTaken..((rxTaken + cut[k]) - 1)
      BY <1>4
    <3> QED
      BY ONLY <1>5, <3>1, <3>2, <3>3
  <2> HIDE DEF c
  <2>2. PICK i \in 1..k : cut[i - 1] <= c /\ c < cut[i]
    BY <1>6, <2>1
  <2>3. PICK r \in Reads : r = pendingReads[i].r
    BY <1>4
  <2>5. Has(r, b)'
    <3>1. rxTaken + cut[i - 1] <= b /\ b < rxTaken + cut[i]
      BY <1>5, <1>7, <2>1, <2>2
    <3> QED
      BY <1>9, <2>1, <2>3, <3>1
  <2>4. ASSUME NEW q \in Reads, Has(q, b)' PROVE q = r
    <3>1. CASE Unserved(k, q)
      <4>1. Has(q, b)
        BY <1>4, <2>4, <3>1 DEF Has
      <4>2. reads[q].st = "ok" /\ reads[q].from \in Nat /\ reads[q].n \in Nat
        BY <1>1, <4>1 DEF TypeOK, Has
      <4>3. reads[q].from + reads[q].n <= rxTaken
        BY <4>2 DEF Partition, ServedTaken
      <4>4. b <= reads[q].from + reads[q].n - 1
        BY <4>1 DEF Has
      <4>5. FALSE
        <5> DEFINE f == reads[q].from
                   n == reads[q].n
        <5>1. f \in Nat /\ n \in Nat /\ f + n <= rxTaken /\ b <= f + n - 1
          BY <4>2, <4>3, <4>4
        <5> HIDE DEF f, n
        <5> QED
          BY <1>5, <2>1, <5>1
      <4> QED
        BY <4>5
    <3>2. ASSUME NEW j \in 1..k, pendingReads[j].r = q PROVE i = j
      <4>1. rxTaken + cut[j - 1] <= b /\ b < rxTaken + cut[j]
        BY <1>9, <2>1, <2>4, <3>2
      <4>2. cut[j - 1] <= c /\ c < cut[j]
        BY <1>5, <1>7, <2>1, <4>1
      <4>3. ~(i < j)
        <5>1. i < j => cut[i] <= cut[j - 1]
          BY <1>5, <1>6, <1>7
        <5> QED
          BY <1>7, <2>1, <2>2, <4>2, <5>1, SMTT(30)
      <4>4. ~(j < i)
        <5>1. j < i => cut[j] <= cut[i - 1]
          BY <1>5, <1>6, <1>7
        <5> QED
          BY <1>7, <2>1, <2>2, <4>2, <5>1
      <4> QED
        BY <1>5, <4>3, <4>4
    <3> QED
      BY <2>3, <3>1, <3>2 DEF Unserved
  <2> QED
    BY <2>4, <2>5
<1>11. rxTaken <= rxTaken'
  <2>1. cut[k] \in Nat
    BY <1>4, <1>5
  <2> QED
    BY <1>4, <1>5, <2>1
<1>12. ServedTaken' /\ ReadsPartition'
  BY <1>1, <1>8, <1>10, <1>11, PartitionGrows DEF Partition
<1>13. QueueOnce' /\ QueuePending'
  <2> DEFINE W == [r : Reads, n : Sizes]
  <2>1. pendingReads \in Seq(W) /\ \A w \in W : w.r \in Reads
    BY <1>1 DEF TypeOK
  <2> HIDE DEF W
  <2>2. \A i \in (k + 1)..Len(pendingReads) : pendingReads[i] \in W
    BY <1>5, <2>1
  <2>3. /\ Len(pendingReads') = IF k + 1 <= Len(pendingReads)
                                  THEN Len(pendingReads) - (k + 1) + 1 ELSE 0
        /\ \A i \in 1..(Len(pendingReads) - (k + 1) + 1) :
             pendingReads'[i] = pendingReads[k + 1 + i - 1]
    BY <1>4, <1>5, <2>2, SubSeqProperties
  <2>4. ASSUME NEW i \in 1..Len(pendingReads')
        PROVE  k + i \in 1..Len(pendingReads) /\ pendingReads'[i] = pendingReads[k + i]
    <3>1. i \in 1..(Len(pendingReads) - (k + 1) + 1) /\ k + 1 + i - 1 = k + i
      BY <1>5, <2>3
    <3> QED
      BY <1>5, <2>3, <3>1
  <2>5. QueueOnce'
    <3>1. ASSUME NEW i \in 1..Len(pendingReads'), NEW j \in 1..Len(pendingReads'),
                 pendingReads'[i].r = pendingReads'[j].r
          PROVE  i = j
      <4>1. k + i = k + j
        BY <2>4, <3>1 DEF Partition, QueueOnce
      <4> QED
        BY <1>5, <4>1
    <3> QED
      BY <3>1 DEF QueueOnce
  <2>6. QueuePending'
    <3>1. ASSUME NEW i \in 1..Len(pendingReads')
          PROVE  /\ reads'[pendingReads'[i].r].st = "pending"
                 /\ reads'[pendingReads'[i].r].n = pendingReads'[i].n
      <4> DEFINE w == pendingReads[k + i]
      <4>1. k + i \in 1..Len(pendingReads) /\ pendingReads'[i] = w /\ k + i > k
        BY <1>5, <2>4
      <4>2. w.r \in Reads /\ reads[w.r].st = "pending" /\ reads[w.r].n = w.n
        BY <2>1, <4>1 DEF Partition, QueuePending
      <4>3. Unserved(k, w.r)
        <5>1. ASSUME NEW j \in 1..k, pendingReads[j].r = w.r PROVE FALSE
          <6>1. j \in 1..Len(pendingReads) /\ j # k + i
            BY <1>5, <4>1
          <6> QED
            BY <4>1, <5>1, <6>1 DEF Partition, QueueOnce
        <5> QED
          BY <5>1 DEF Unserved
      <4> QED
        BY <1>4, <4>1, <4>2, <4>3
    <3> QED
      BY <3>1 DEF QueuePending
  <2> QED
    BY <2>5, <2>6
<1> QED
  BY <1>12, <1>13 DEF Partition

\* A step of any actor keeps the readers' shares.
LEMMA NextPartition == Waiters /\ Waiters' /\ Partition /\ [Next]_vars => Partition'
<1> SUFFICES ASSUME Waiters, Waiters', Partition, [Next]_vars PROVE Partition'
  OBVIOUS
<1>1. TypeOK
  BY DEF Waiters
<1>2. CASE UNCHANGED rxVars
  BY <1>2, PartitionSame DEF rxVars
<1>3. CASE Terminate
  BY <1>1, <1>3, TerminatePartition
<1>4. CASE UNCHANGED vars
  BY <1>2, <1>4 DEF vars
<1>5. CASE Open \/ ConnectTimeout \/ Close \/ Disconnect
  BY <1>2, <1>3, <1>5 DEF Open, ConnectTimeout, Close, Disconnect
<1>6. ASSUME NEW w \in Writes, NEW n \in Sizes, Write(w, n) PROVE Partition'
  BY <1>2, <1>6 DEF Write
<1>7. ASSUME NEW r \in Reads, NEW n \in Sizes, ReadExact(r, n) PROVE Partition'
  BY <1>7, ReadPartition
<1>8. CASE HandlePacket
  <2> DEFINE p == Head(inq)
  <2>1. p.len \in Nat
    <3>1. inq # <<>> /\ inq \in Seq(PacketType)
      BY <1>1, <1>8 DEF HandlePacket, TypeOK
    <3>2. p \in PacketType
      BY <3>1, QueueType
    <3> QED
      BY <3>2 DEF PacketType
  <2> HIDE DEF p
  <2>2. CASE Connecting(p)
    BY <1>2, <1>3, <2>2 DEF Connecting
  <2>3. CASE Connected(p)
    BY <1>2, <1>3, <2>1, <2>3, PumpPartition DEF Connected, Data
  <2> QED
    BY <1>2, <1>8, <2>2, <2>3 DEF HandlePacket, p
<1>9. CASE Deliver \/ Settle \/ SettleFail \/ DeviceReset
  BY <1>2, <1>9 DEF Deliver, Settle, SettleFail, DeviceReset
<1>10. ASSUME NEW len \in Sizes, DeviceData(len) PROVE Partition'
  BY <1>2, <1>10 DEF DeviceData
<1> QED
  BY <1>4, <1>5, <1>6, <1>7, <1>8, <1>9, <1>10 DEF Next

\* The readers' segments partition what was taken of the stream, however many
\* readers wait, whatever they ask for, and however the device cuts its bytes:
\* readExact() and pumpReads() lose no byte and hand none out twice.
THEOREM ReadersShareTheStream == Spec => []ReadsPartition
<1>1. Init => Partition
  <2> SUFFICES ASSUME Init PROVE Partition
    OBVIOUS
  <2>1. /\ Len(pendingReads) = 0 /\ 0..(rxTaken - 1) = {}
        /\ \A r \in Reads : reads[r].st # "ok"
    BY DEF Init
  <2> QED
    BY <2>1 DEF Partition, QueueOnce, QueuePending, ServedTaken, ReadsPartition
<1>2. (Waiters /\ Partition) /\ [Next]_vars => (Waiters /\ Partition)'
  BY NextWaiters, NextPartition
<1>3. Waiters /\ Partition => ReadsPartition
  BY DEF Partition
<1> QED
  BY <1>1, <1>2, <1>3, InitWaiters, PTL DEF Spec

=============================================================================
