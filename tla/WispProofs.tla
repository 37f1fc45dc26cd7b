----------------------------- MODULE WispProofs -----------------------------
(***************************************************************************)
(* Theorems of the WISP backend, for every number of readers, chunks and   *)
(* messages: the pump of a TCP stream implements a FIFO channel, and what  *)
(* leaves with a user's tokens goes to Apple, by a request that takes no   *)
(* more turns than there are sources of anisette data.                     *)
(*                                                                         *)
(* The argument for the pump: PumpInv says that what was taken and what is *)
(* still buffered are together what was pushed, that a reader waits only   *)
(* when nothing is buffered, and that the next chunk the socket answers    *)
(* with is the one after the last that was pushed.  Two lemmas say what    *)
(* Push and NextOf are on the channel; no other step is one of it, except  *)
(* the first Drain.                                                        *)
(***************************************************************************)
EXTENDS WispRelay, WispWorker, SequenceTheorems, TLAPS

-----------------------------------------------------------------------------
(* The pump                                                                *)

Chunks == 1..MaxChunks

PumpType ==
  [buffered : Seq(Chunks), waiters : Seq(Readers), drained : BOOLEAN,
   pushed : Seq(Chunks), got : Seq(Chunks)]

\* chunks come out in the order they go in, and nobody waits in vain
PumpInOrder(p) ==
  /\ \A i \in 1..Len(p.pushed) : p.pushed[i] = i
  /\ ~p.drained => p.pushed = p.got \o p.buffered
  /\ p.drained => p.buffered = <<>>
  /\ p.waiters # <<>> => p.buffered = <<>>

TcpType ==
  [fields : BOOLEAN, reader : {"none", "open", "cancelled"},
   writer : {"none", "open", "closing", "closed"},
   socket : {"none", "open", "closed"}, loop : {"off", "reading", "ended"}]

RemoteType ==
  [chunks : Nat, left : Nat, end : {"no", "eof", "error"},
   queued : Seq(Nat), sends : Nat, wrote : Seq(Nat)]

RelayTyped ==
  /\ pump \in PumpType
  /\ tcp \in TcpType
  /\ remote \in RemoteType
  /\ remote.chunks + remote.left <= MaxChunks

\* the socket has given what was pushed, unless close() threw chunks away
PushedIsRead ==
  ~pump.drained => Len(pump.pushed) = MaxChunks - remote.left - remote.chunks

PumpInv == RelayTyped /\ PumpInOrder(pump) /\ PushedIsRead

\* The bound on the chunks is a number.
LEMMA ChunksBound == MaxChunks \in Nat
<1>1. MaxChunks \in {MaxChunks, MaxSends}
  OBVIOUS
<1> QED
  BY <1>1, WispRelayAssumption

\* What holds of a sequence that is taken from at its head.
LEMMA TakeHead ==
  ASSUME NEW S, NEW g \in Seq(S), NEW b \in Seq(S), b # <<>>
  PROVE  /\ Len(g) < Len(g \o b)
         /\ (g \o b)[Len(g) + 1] = Head(b)
         /\ Append(g, Head(b)) \o Tail(b) = g \o b
         /\ Tail(b) \in Seq(S) /\ Append(g, Head(b)) \in Seq(S)
<1>1. Len(b) \in Nat /\ Len(b) > 0 /\ Head(b) = b[1]
  OBVIOUS
<1>2. Tail(b) \in Seq(S) /\ Append(g, Head(b)) \in Seq(S)
  OBVIOUS
<1>3. Append(g, Head(b)) \o Tail(b) = g \o b
  <2> DEFINE x == Append(g, Head(b)) \o Tail(b)  y == g \o b
  <2>1. x \in Seq(S) /\ y \in Seq(S) /\ Len(x) = Len(y)
    BY <1>1, <1>2
  <2>2. ASSUME NEW i \in 1..Len(x) PROVE x[i] = y[i]
    BY <1>1, <1>2
  <2> HIDE DEF x, y
  <2> QED
    BY <2>1, <2>2, SeqEqual
<1> QED
  BY <1>1, <1>2, <1>3

\* A chunk added at the end of what is buffered is added to the whole.
LEMMA AppendAtEnd ==
  ASSUME NEW S, NEW g \in Seq(S), NEW b \in Seq(S), NEW v \in S,
         NEW z, z = g \o Append(b, v)
  PROVE  z = Append(g \o b, v)
<1>1. /\ z \in Seq(S) /\ Append(g \o b, v) \in Seq(S)
      /\ Len(z) = Len(Append(g \o b, v))
  OBVIOUS
<1>2. ASSUME NEW i \in 1..Len(z) PROVE z[i] = Append(g \o b, v)[i]
  OBVIOUS
<1> QED
  BY <1>1, <1>2, SeqEqual

\* Push puts a chunk into the channel, and hands it on when a reader waits.
LEMMA PushPuts ==
  ASSUME NEW p \in PumpType, PumpInOrder(p), NEW v \in Chunks,
         ~p.drained => v = Len(p.pushed) + 1
  PROVE  LET q == Push(p, v) IN
         /\ q \in PumpType /\ PumpInOrder(q)
         /\ q.drained = p.drained
         /\ p.drained => q = p
         /\ ~p.drained =>
              /\ q.pushed = Append(p.pushed, Len(p.pushed) + 1)
              /\ q.got = p.got \/ (p.got = p.pushed /\ q.got = q.pushed)
<1> DEFINE q == Push(p, v)
<1>1. CASE p.drained
  <2>1. q = p
    BY <1>1 DEF Push
  <2> QED
    BY <1>1, <2>1
<1>2. CASE ~p.drained /\ p.waiters # <<>>
  <2>1. q = [p EXCEPT !.pushed = Append(@, v), !.waiters = Tail(@),
                      !.got = Append(@, v)]
    BY <1>2 DEF Push, PumpType
  <2>2. p.buffered = <<>> /\ p.pushed = p.got \o p.buffered
    BY <1>2 DEF PumpInOrder
  <2>3. p.pushed = p.got
    BY <2>2, ConcatEmptySeq DEF PumpType
  <2>4. Tail(p.waiters) \in Seq(Readers)
    BY <1>2 DEF PumpType
  <2>5. q \in PumpType
    <3>1. Append(p.pushed, v) \in Seq(Chunks) /\ Append(p.got, v) \in Seq(Chunks)
      BY AppendProperties DEF PumpType
    <3> HIDE DEF q
    <3> QED
      BY <2>1, <2>4, <3>1 DEF PumpType
  <2>6. /\ q.pushed = Append(p.pushed, v) /\ q.got = Append(p.got, v)
        /\ q.buffered = <<>> /\ ~q.drained /\ q.drained = p.drained
    BY <1>2, <2>1, <2>2 DEF PumpType
  <2>7. q.pushed = q.got \o q.buffered
    BY <2>3, <2>5, <2>6, ConcatEmptySeq DEF PumpType
  <2>8. \A i \in 1..Len(q.pushed) : q.pushed[i] = i
    BY <1>2, <2>6 DEF PumpInOrder, PumpType
  <2> HIDE DEF q
  <2>9. PumpInOrder(q)
    BY <2>6, <2>7, <2>8 DEF PumpInOrder
  <2> QED
    BY <1>2, <2>3, <2>5, <2>6, <2>9 DEF q
<1>3. CASE ~p.drained /\ p.waiters = <<>>
  <2>1. q = [p EXCEPT !.pushed = Append(@, v), !.buffered = Append(@, v)]
    BY <1>3 DEF Push, PumpType
  <2>2. /\ q.pushed = Append(p.pushed, v) /\ q.got = p.got
        /\ q.buffered = Append(p.buffered, v) /\ ~q.drained
        /\ q.drained = p.drained /\ q.waiters = <<>>
    BY <1>3, <2>1 DEF PumpType
  <2>3. q \in PumpType
    <3>1. /\ Append(p.pushed, v) \in Seq(Chunks)
          /\ Append(p.buffered, v) \in Seq(Chunks)
      BY AppendProperties DEF PumpType
    <3> HIDE DEF q
    <3> QED
      BY <2>1, <3>1 DEF PumpType
  <2>4. q.pushed = q.got \o q.buffered
    <3> HIDE DEF q
    <3> DEFINE g == p.got  b == p.buffered  z == g \o Append(b, v)
    <3>1. g \in Seq(Chunks) /\ b \in Seq(Chunks) /\ p.pushed = g \o b
      BY <1>3 DEF PumpType, PumpInOrder
    <3>2. q.pushed = Append(g \o b, v) /\ q.got \o q.buffered = z
      BY <2>2, <3>1
    <3>3. z = g \o Append(b, v)
      OBVIOUS
    <3> HIDE DEF g, b, z
    <3>4. z = Append(g \o b, v)
      BY <3>1, <3>3, AppendAtEnd
    <3> QED
      BY <3>2, <3>4
  <2>5. \A i \in 1..Len(q.pushed) : q.pushed[i] = i
    BY <1>3, <2>2 DEF PumpInOrder, PumpType
  <2> HIDE DEF q
  <2>6. PumpInOrder(q)
    BY <2>2, <2>4, <2>5 DEF PumpInOrder
  <2> QED
    BY <1>3, <2>2, <2>3, <2>6 DEF q
<1> QED
  BY <1>1, <1>2, <1>3

\* next() takes the oldest chunk out of the channel, or leaves it as it is.
LEMMA NextTakes ==
  ASSUME NEW p \in PumpType, PumpInOrder(p), NEW r \in Readers
  PROVE  LET q == NextOf(p, r) IN
         /\ q \in PumpType /\ PumpInOrder(q)
         /\ q.drained = p.drained /\ q.pushed = p.pushed
         /\ \/ q.got = p.got
            \/ /\ ~p.drained /\ Len(p.got) < Len(p.pushed)
               /\ q.got = Append(p.got, p.pushed[Len(p.got) + 1])
<1> DEFINE q == NextOf(p, r)
<1>1. CASE p.buffered # <<>>
  <2>1. q = [p EXCEPT !.buffered = Tail(@), !.got = Append(@, Head(p.buffered))]
    BY <1>1 DEF NextOf
  <2>2. ~p.drained /\ p.waiters = <<>> /\ p.pushed = p.got \o p.buffered
    BY <1>1 DEF PumpInOrder
  <2>3. /\ Len(p.got) < Len(p.pushed)
        /\ p.pushed[Len(p.got) + 1] = Head(p.buffered)
        /\ Append(p.got, Head(p.buffered)) \o Tail(p.buffered) = p.pushed
        /\ Tail(p.buffered) \in Seq(Chunks)
        /\ Append(p.got, Head(p.buffered)) \in Seq(Chunks)
    <3> DEFINE g == p.got  b == p.buffered
    <3>1. g \in Seq(Chunks) /\ b \in Seq(Chunks) /\ b # <<>>
      BY <1>1 DEF PumpType
    <3>2. p.pushed = g \o b
      BY <2>2
    <3> HIDE DEF g, b
    <3>3. /\ Len(g) < Len(g \o b) /\ (g \o b)[Len(g) + 1] = Head(b)
          /\ Append(g, Head(b)) \o Tail(b) = g \o b
          /\ Tail(b) \in Seq(Chunks) /\ Append(g, Head(b)) \in Seq(Chunks)
      BY <3>1, TakeHead
    <3> QED
      BY <3>2, <3>3 DEF g, b
  <2>4. /\ q.pushed = p.pushed /\ q.got = Append(p.got, Head(p.buffered))
        /\ q.buffered = Tail(p.buffered) /\ q.drained = p.drained
        /\ q.waiters = p.waiters
    BY <2>1 DEF PumpType
  <2>5. q \in PumpType
    BY <2>1, <2>3 DEF PumpType
  <2> HIDE DEF q
  <2>6. PumpInOrder(q)
    BY <2>2, <2>3, <2>4 DEF PumpInOrder
  <2> QED
    BY <2>2, <2>3, <2>4, <2>5, <2>6 DEF q
<1>2. CASE p.buffered = <<>> /\ p.drained
  <2>1. q = p
    BY <1>2 DEF NextOf
  <2> QED
    BY <2>1
<1>3. CASE p.buffered = <<>> /\ ~p.drained
  <2>1. q = [p EXCEPT !.waiters = Append(p.waiters, r)]
    BY <1>3 DEF NextOf
  <2>2. /\ q.pushed = p.pushed /\ q.got = p.got /\ q.buffered = p.buffered
        /\ q.drained = p.drained
    BY <2>1 DEF PumpType
  <2>3. q \in PumpType
    <3>1. p.waiters \in Seq(Readers) /\ Append(p.waiters, r) \in Seq(Readers)
      BY AppendProperties DEF PumpType
    <3> HIDE DEF q
    <3> QED
      BY <2>1, <3>1 DEF PumpType
  <2> HIDE DEF q
  <2>4. PumpInOrder(q)
    BY <1>3, <2>2 DEF PumpInOrder
  <2> QED
    BY <2>2, <2>3, <2>4 DEF q
<1> QED
  BY <1>1, <1>2, <1>3

\* drain() cuts the channel once.
LEMMA DrainCuts ==
  ASSUME NEW p \in PumpType, PumpInOrder(p)
  PROVE  LET q == Drain(p) IN
         /\ q \in PumpType /\ PumpInOrder(q) /\ q.drained
         /\ q.pushed = p.pushed /\ q.got = p.got
<1> DEFINE q == Drain(p)
<1>1. CASE p.drained
  BY <1>1 DEF Drain
<1>2. CASE ~p.drained
  <2>1. q = [p EXCEPT !.drained = TRUE, !.waiters = <<>>, !.buffered = <<>>]
    BY <1>2 DEF Drain
  <2>2. q \in PumpType
    <3>1. <<>> \in Seq(Chunks) /\ <<>> \in Seq(Readers)
      OBVIOUS
    <3> HIDE DEF q
    <3> QED
      BY <2>1, <3>1 DEF PumpType
  <2>3. /\ q.pushed = p.pushed /\ q.got = p.got /\ q.drained
        /\ q.buffered = <<>>
    BY <2>1 DEF PumpType
  <2> HIDE DEF q
  <2>4. PumpInOrder(q)
    BY <2>3 DEF PumpInOrder
  <2> QED
    BY <2>2, <2>3, <2>4 DEF q
<1> QED
  BY <1>1, <1>2
-----------------------------------------------------------------------------
(* The steps of the stream                                                 *)

ChannelStep == Channel!ChannelNext \/ UNCHANGED Channel!channelVars

\* A step that leaves the pump alone, and neither reads from the socket nor
\* lets a chunk come, keeps the invariant.
LEMMA PumpAside ==
  ASSUME PumpInv, UNCHANGED pump, RelayTyped',
         remote'.left + remote'.chunks = remote.left + remote.chunks
  PROVE  PumpInv' /\ ChannelStep
<1>1. PumpInOrder(pump)'
  BY DEF PumpInv, PumpInOrder
<1>2. PushedIsRead'
  <2>1. /\ remote.left \in Nat /\ remote.chunks \in Nat
        /\ remote'.left \in Nat /\ remote'.chunks \in Nat
    BY DEF PumpInv, RelayTyped, TcpType, RemoteType
  <2> QED
    BY <2>1, ChunksBound, SMTT(30) DEF PumpInv, PushedIsRead
<1> QED
  BY <1>1, <1>2 DEF PumpInv, ChannelStep, Channel!channelVars

\* forwardInbound() reads a chunk and pushes it.
LEMMA ForwardPuts ==
  ASSUME PumpInv, Forward
  PROVE  PumpInv' /\ ChannelStep
<1> DEFINE v == MaxChunks - remote.left - remote.chunks + 1
<1>1. v \in Chunks /\ (~pump.drained => v = Len(pump.pushed) + 1)
  BY ChunksBound DEF PumpInv, RelayTyped, PushedIsRead, Forward, Chunks, TcpType, RemoteType
<1>2. pump' = Push(pump, v) /\ pump \in PumpType /\ PumpInOrder(pump)
  BY DEF Forward, PumpInv, RelayTyped, TcpType, RemoteType
<1> HIDE DEF v
<1>3. /\ pump' \in PumpType /\ PumpInOrder(pump')
      /\ pump'.drained = pump.drained /\ (pump.drained => pump' = pump)
      /\ ~pump.drained =>
           /\ pump'.pushed = Append(pump.pushed, Len(pump.pushed) + 1)
           /\ \/ pump'.got = pump.got
              \/ pump.got = pump.pushed /\ pump'.got = pump'.pushed
  BY <1>1, <1>2, PushPuts
<1>4. /\ remote.left \in Nat /\ remote.chunks \in Nat /\ remote.chunks > 0
      /\ remote.chunks + remote.left <= MaxChunks
      /\ remote' = [remote EXCEPT !.chunks = remote.chunks - 1]
      /\ remote'.chunks = remote.chunks - 1 /\ remote'.left = remote.left
  BY DEF Forward, PumpInv, RelayTyped, TcpType, RemoteType
<1>5. RelayTyped'
  <2>1. remote' \in RemoteType
    <3>1. remote.chunks - 1 \in Nat /\ remote \in RemoteType
      BY <1>4 DEF PumpInv, RelayTyped
    <3> QED
      BY <1>4, <3>1 DEF RemoteType
  <2>2. remote'.chunks + remote'.left <= MaxChunks
    BY <1>4, ChunksBound
  <2> QED
    BY <1>3, <2>1, <2>2 DEF Forward, PumpInv, RelayTyped, TcpType, RemoteType
<1>6. PushedIsRead'
  <2>1. SUFFICES ASSUME ~pump'.drained
        PROVE  Len(pump'.pushed) = MaxChunks - remote'.left - remote'.chunks
    BY DEF PushedIsRead
  <2>2. Len(pump'.pushed) = Len(pump.pushed) + 1
    BY <1>2, <1>3, <2>1 DEF PumpType
  <2>3. Len(pump.pushed) = MaxChunks - remote.left - remote.chunks
    BY <1>3, <2>1 DEF PumpInv, PushedIsRead
  <2> QED
    BY <1>4, <2>2, <2>3, ChunksBound
<1>7. ChannelStep
  BY <1>3 DEF ChannelStep, Channel!ChannelNext, Channel!Put,
              Channel!PutAndTake, Channel!channelVars
<1> QED
  BY <1>3, <1>5, <1>6, <1>7 DEF PumpInv

\* recv() takes a chunk, or waits for one.
LEMMA RecvTakes ==
  ASSUME PumpInv, NEW r \in Readers, Recv(r)
  PROVE  PumpInv' /\ ChannelStep
<1>1. pump' = NextOf(pump, r) /\ pump \in PumpType /\ PumpInOrder(pump)
  BY DEF Recv, PumpInv, RelayTyped, TcpType, RemoteType
<1>2. /\ pump' \in PumpType /\ PumpInOrder(pump')
      /\ pump'.drained = pump.drained /\ pump'.pushed = pump.pushed
      /\ \/ pump'.got = pump.got
         \/ /\ ~pump.drained /\ Len(pump.got) < Len(pump.pushed)
            /\ pump'.got = Append(pump.got, pump.pushed[Len(pump.got) + 1])
  BY <1>1, NextTakes
<1>3. RelayTyped'
  BY <1>2 DEF Recv, PumpInv, RelayTyped, TcpType, RemoteType
<1>4. PushedIsRead'
  BY <1>2 DEF Recv, PumpInv, PushedIsRead
<1>5. ChannelStep
  BY <1>2 DEF ChannelStep, Channel!ChannelNext, Channel!Take,
              Channel!channelVars
<1> QED
  BY <1>2, <1>3, <1>4, <1>5 DEF PumpInv

\* The end of the loop and close() drain the pump.
LEMMA DrainEnds ==
  ASSUME PumpInv, pump' = Drain(pump), RelayTyped'
  PROVE  PumpInv' /\ ChannelStep
<1>1. /\ pump' \in PumpType /\ PumpInOrder(pump') /\ pump'.drained
      /\ pump'.pushed = pump.pushed /\ pump'.got = pump.got
  BY DrainCuts DEF PumpInv, RelayTyped, TcpType, RemoteType
<1>2. PushedIsRead'
  BY <1>1 DEF PushedIsRead
<1>3. ChannelStep
  <2>1. pump.drained \in BOOLEAN /\ pump'.drained = TRUE
    BY <1>1 DEF PumpInv, RelayTyped, PumpType, TcpType, RemoteType
  <2> QED
    BY <1>1, <2>1 DEF ChannelStep, Channel!ChannelNext, Channel!Cut,
                      Channel!channelVars
<1> QED
  BY <1>1, <1>2, <1>3 DEF PumpInv

\* A step of close() keeps the types, and drains the pump at most.
LEMMA CloseDrainsAtMost ==
  ASSUME PumpInv, NEW k \in Closers, CloseStep(k)
  PROVE  PumpInv' /\ ChannelStep
<1>1. CASE CloseDrains(k)
  <2>1. pump' \in PumpType
    BY <1>1, DrainCuts DEF CloseDrains, PumpInv, RelayTyped, TcpType, RemoteType
  <2>2. /\ remote'.chunks \in {0, remote.chunks} /\ remote'.left = remote.left
        /\ tcp'.reader \in {tcp.reader, "cancelled"}
    BY <1>1 DEF CloseDrains, PumpInv, RelayTyped, TcpType, RemoteType
  <2>3. remote'.chunks + remote'.left <= MaxChunks
    BY <2>2, ChunksBound DEF PumpInv, RelayTyped, TcpType, RemoteType
  <2>4. tcp' \in TcpType
    BY <1>1 DEF CloseDrains, PumpInv, RelayTyped, TcpType, RemoteType
  <2>5. remote' \in RemoteType
    BY <1>1 DEF CloseDrains, PumpInv, RelayTyped, TcpType, RemoteType
  <2>6. RelayTyped'
    BY <2>1, <2>3, <2>4, <2>5 DEF RelayTyped, TcpType, RemoteType
  <2> QED
    BY <1>1, <2>6, DrainEnds DEF CloseDrains
<1>2. CASE CloseWriter(k)
  <2>1. RelayTyped'
    BY <1>2, SMTT(30) DEF CloseWriter, PumpInv, RelayTyped, TcpType, RemoteType
  <2> QED
    BY <1>2, <2>1, PumpAside DEF CloseWriter
<1>3. CASE WriterClosed(k)
  <2>1. RelayTyped'
    BY <1>3 DEF WriterClosed, PumpInv, RelayTyped, TcpType, RemoteType
  <2> QED
    BY <1>3, <2>1, PumpAside DEF WriterClosed
<1>4. CASE CloseSocket(k)
  <2>1. <<>> \in Seq(Nat)
    OBVIOUS
  <2>2. /\ remote'.left = remote.left /\ remote'.chunks = remote.chunks
        /\ RelayTyped'
    BY <1>4, <2>1 DEF CloseSocket, PumpInv, RelayTyped, TcpType, RemoteType
  <2> QED
    BY <1>4, <2>2, PumpAside DEF CloseSocket
<1>5. CASE Forget(k)
  <2>1. RelayTyped'
    BY <1>5 DEF Forget, PumpInv, RelayTyped, TcpType, RemoteType
  <2> QED
    BY <1>5, <2>1, PumpAside DEF Forget
<1> QED
  BY <1>1, <1>2, <1>3, <1>4, <1>5 DEF CloseStep

\* Every step keeps the invariant, and is a step of the channel or none.
LEMMA RelayStep ==
  ASSUME PumpInv, RelayNext
  PROVE  PumpInv' /\ ChannelStep
<1> USE DEF PumpInv, RelayTyped, TcpType, RemoteType
<1>1. CASE Connect
  BY <1>1, PumpAside DEF Connect
<1>2. CASE Send
  <2>1. remote.sends + 1 \in Nat /\ Append(remote.queued, remote.sends + 1) \in Seq(Nat)
    BY AppendProperties
  <2>2. remote' \in RemoteType /\ remote'.left = remote.left
        /\ remote'.chunks = remote.chunks
    BY <1>2, <2>1 DEF Send
  <2> QED
    BY <1>2, <2>2, PumpAside DEF Send
<1>3. CASE Forward
  BY <1>3, ForwardPuts
<1>4. CASE ForwardEnds
  <2>1. pump' \in PumpType
    BY <1>4, DrainCuts DEF ForwardEnds
  <2>2. RelayTyped'
    BY <1>4, <2>1 DEF ForwardEnds
  <2> QED
    BY <1>4, <2>2, DrainEnds DEF ForwardEnds
<1>5. CASE WispCloses
  BY <1>5, PumpAside DEF WispCloses
<1>6. ASSUME NEW r \in Readers, Recv(r) PROVE PumpInv' /\ ChannelStep
  BY <1>6, RecvTakes
<1>7. ASSUME NEW k \in Closers, CloseStep(k) PROVE PumpInv' /\ ChannelStep
  BY <1>7, CloseDrainsAtMost
<1>8. CASE ServerSends
  <2>1. /\ remote.left - 1 \in Nat /\ remote.chunks + 1 \in Nat
        /\ remote \in RemoteType
        /\ remote' = [remote EXCEPT !.left = remote.left - 1,
                                    !.chunks = remote.chunks + 1]
    BY <1>8 DEF ServerSends
  <2>2. remote' \in RemoteType /\ remote'.left = remote.left - 1
        /\ remote'.chunks = remote.chunks + 1
    BY <2>1
  <2>3. remote'.left + remote'.chunks = remote.left + remote.chunks
    BY <2>1, <2>2, SMTT(30)
  <2>4. RelayTyped'
    BY <1>8, <2>2, <2>3, ChunksBound DEF ServerSends
  <2> QED
    BY <1>8, <2>3, <2>4, PumpAside DEF ServerSends
<1>9. CASE Flush
  <2>1. /\ Tail(remote.queued) \in Seq(Nat)
        /\ Append(remote.wrote, Head(remote.queued)) \in Seq(Nat)
    BY <1>9 DEF Flush
  <2>2. remote' \in RemoteType /\ remote'.left = remote.left
        /\ remote'.chunks = remote.chunks
    BY <1>9, <2>1 DEF Flush
  <2> QED
    BY <1>9, <2>2, PumpAside DEF Flush
<1>10. ASSUME NEW how \in {"eof", "error"}, ServerEnds(how)
       PROVE  PumpInv' /\ ChannelStep
  <2>1. <<>> \in Seq(Nat)
    OBVIOUS
  <2>2. remote' \in RemoteType /\ remote'.left = remote.left
        /\ remote'.chunks = remote.chunks
    BY <1>10, <2>1 DEF ServerEnds
  <2> QED
    BY <1>10, <2>2, PumpAside DEF ServerEnds
<1> QED
  BY <1>1, <1>2, <1>3, <1>4, <1>5, <1>6, <1>7, <1>8, <1>9, <1>10
  DEF RelayNext, RelayLoop

\* The stream starts with the invariant, on an empty channel.
LEMMA RelayStarts == RelayInit => PumpInv /\ Channel!ChannelInit
<1> SUFFICES ASSUME RelayInit PROVE PumpInv /\ Channel!ChannelInit
  OBVIOUS
<1>1. /\ pump = [buffered |-> <<>>, waiters |-> <<>>, drained |-> FALSE,
                 pushed |-> <<>>, got |-> <<>>]
      /\ <<>> \in Seq(Chunks) /\ <<>> \in Seq(Readers) /\ <<>> \in Seq(Nat)
  BY DEF RelayInit
<1>2. RelayTyped
  BY <1>1, ChunksBound
  DEF RelayInit, RelayTyped, PumpType, TcpType, RemoteType
<1>3. PumpInOrder(pump)
  <2>1. <<>> = <<>> \o <<>>
    OBVIOUS
  <2> QED
    BY <1>1, <2>1 DEF PumpInOrder
<1>4. PushedIsRead
  BY <1>1, ChunksBound DEF RelayInit, PushedIsRead
<1> QED
  BY <1>1, <1>2, <1>3, <1>4 DEF PumpInv, Channel!ChannelInit

\* The refinement: CfTcpSocket and its MessagePump give their reader a FIFO
\* channel that is cut once, whatever the order in which the socket's loop,
\* recv() and the two calls of close() run.
THEOREM PumpImplementsChannel == RelaySpec => PumpIsChannel
<1>1. PumpInv /\ UNCHANGED relayVars => PumpInv' /\ UNCHANGED Channel!channelVars
  BY DEF relayVars, PumpInv, RelayTyped, PumpInOrder, PushedIsRead, Channel!channelVars
<1>2. PumpInv /\ [RelayNext]_relayVars
        => PumpInv' /\ [Channel!ChannelNext]_(Channel!channelVars)
  BY <1>1, RelayStep DEF ChannelStep
<1> QED
  BY <1>2, RelayStarts, PTL DEF RelaySpec, PumpIsChannel, Channel!ChannelSpec

\* The fields of the pump, the socket and the connection keep their types, and
\* no more chunks are under way than the server had.
THEOREM RelayTypeCorrect == RelaySpec => []RelayTypeOK
<1>1. PumpInv => RelayTypeOK
  BY DEF PumpInv, RelayTyped, RelayTypeOK, PumpType, TcpType, RemoteType, Chunks
<1>2. PumpInv /\ UNCHANGED relayVars => PumpInv'
  BY DEF relayVars, PumpInv, RelayTyped, PumpInOrder, PushedIsRead
<1>3. PumpInv /\ [RelayNext]_relayVars => PumpInv'
  BY <1>2, RelayStep
<1> QED
  BY <1>1, <1>3, RelayStarts, PTL DEF RelaySpec

-----------------------------------------------------------------------------
(* What leaves with a user's tokens                                        *)

SentType ==
  [info : {"none", "xcode", "akd"}, agent : {"none", "akd", "AuthKit", "client"},
   type : {"none", "plist", "client"}, tokens : BOOLEAN]

WorkerType ==
  [pc : {"route", "source", "upstream", "session", "done"}, source : Nat,
   contacted : SUBSET (Targets \cup {"anisette"}), status : Nat, sent : SentType]

\* Nothing was contacted while fetch() routes, and only sources of anisette
\* data while it asks them, for a request to the portal that passed every
\* check; neither gets a token.
TokensInv ==
  /\ request.path = "proxy" => request.target \in Targets
  /\ request.info \in {"none", "xcode", "akd"}
  /\ worker \in WorkerType
  /\ request.type \in {"none", "client"}
  /\ request.path = "portal" =>
       request.body \in {"bad", "incomplete", "elsewhere", "services"}
  /\ worker.pc = "route" => worker.contacted = {} /\ ~worker.sent.tokens
  /\ worker.pc = "source" =>
       /\ request.path = "portal" /\ request.body = "services"
       /\ worker.contacted = {"anisette"} /\ ~worker.sent.tokens
  /\ TokensOnlyToApple

\* A request to /apple-proxy/ is for one of the kinds of targets, and any
\* request has one of the kinds of client identifiers and of content types, and
\* a body to the portal is of one of four kinds.
LEMMA RequestsTyped ==
  ASSUME NEW r \in Requests
  PROVE  /\ r.path = "proxy" => r.target \in Targets
         /\ r.info \in {"none", "xcode", "akd"}
         /\ r.type \in {"none", "client"}
         /\ r.path = "portal" => r.body \in {"bad", "incomplete", "elsewhere", "services"}
<1>1. ASSUME NEW p \in {"healthz", "root", "anisette", "assets"}, NEW m
      PROVE  /\ SimpleRequest(p, m).path = p
             /\ SimpleRequest(p, m).info = "none" /\ SimpleRequest(p, m).type = "none"
  BY DEF SimpleRequest, Plain
<1>2. ASSUME NEW m, NEW t \in Targets, NEW i \in {"none", "xcode", "akd"}
      PROVE  /\ AppleRequest(m, t, i).target \in Targets
             /\ AppleRequest(m, t, i).info \in {"none", "xcode", "akd"}
             /\ AppleRequest(m, t, i).type = "none" /\ AppleRequest(m, t, i).path = "proxy"
  BY DEF AppleRequest, Plain
<1>3. ASSUME NEW m, NEW b, NEW t
      PROVE  /\ PortalRequest(m, b, t).path = "portal" /\ PortalRequest(m, b, t).info = "none"
             /\ PortalRequest(m, b, t).type = t /\ PortalRequest(m, b, t).body = b
  BY DEF PortalRequest, Plain
<1>4. ASSUME NEW p \in {"wisp", "wispOther"}, NEW u, NEW t, NEW e
      PROVE  /\ WispRequest(p, u, t, e).path = p
             /\ WispRequest(p, u, t, e).info = "none" /\ WispRequest(p, u, t, e).type = "none"
  BY DEF WispRequest, Plain
<1> QED
  BY <1>1, <1>2, <1>3, <1>4 DEF Requests

\* The headers that are passed on name Xcode only to the SMS endpoints, and
\* akd as the agent only with akd's identifier.
LEMMA ForwardedNames ==
  ASSUME NEW r, r.info \in {"none", "xcode", "akd"}
  PROVE  /\ Forwarded(r) \in SentType
         /\ Forwarded(r).info = "xcode" => r.target = "sms" /\ r.info = "xcode"
         /\ Forwarded(r).agent = "akd" => Forwarded(r).info = "akd"
<1> DEFINE akd == Akd(r.target)
<1>1. Unblocked(r.target, r.info) \in {"none", "xcode", "akd"}
  BY DEF Unblocked
<1>2. ~akd /\ Unblocked(r.target, r.info) = "xcode"
        => r.target = "sms" /\ r.info = "xcode"
  BY DEF Akd, Unblocked, Is2fa
<1>3. /\ Forwarded(r).info = IF akd THEN "akd" ELSE Unblocked(r.target, r.info)
      /\ akd => Forwarded(r).agent = "akd" /\ Forwarded(r).type = "plist"
      /\ ~akd => /\ Forwarded(r).agent \in {"AuthKit", "client"}
                 /\ Forwarded(r).type \in {"none", "client"}
      /\ Forwarded(r).tokens = TRUE
  BY DEF Forwarded
<1>4. Forwarded(r) = [info |-> Forwarded(r).info, agent |-> Forwarded(r).agent,
                      type |-> Forwarded(r).type, tokens |-> Forwarded(r).tokens]
  BY DEF Forwarded
<1> HIDE DEF akd
<1>5. Forwarded(r) \in SentType
  BY <1>1, <1>3, <1>4 DEF SentType
<1> QED
  BY <1>2, <1>3, <1>5

\* A reply that ends the request changes nothing that was sent.
LEMMA ReplyKeeps ==
  ASSUME TokensInv, NEW status \in Nat, worker' = WorkerReply(status),
         UNCHANGED request
  PROVE  TokensInv'
<1>1. /\ worker'.contacted = worker.contacted /\ worker'.sent = worker.sent
      /\ worker'.pc = "done"
      /\ worker' \in WorkerType
  BY DEF TokensInv, WorkerType, WorkerReply
<1> QED
  BY <1>1 DEF TokensInv, TokensOnlyToApple

\* A host is contacted with the headers that are sent to it.
LEMMA ContactKeeps ==
  ASSUME TokensInv, NEW host \in Targets \cup {"anisette"}, NEW headers \in SentType,
         worker' = Contact(host, headers), UNCHANGED request,
         headers.tokens =>
           \/ /\ request.path = "proxy" /\ request.target \in Allowed
              /\ worker.contacted \cup {host} = {request.target}
              /\ headers.info = "xcode" =>
                   request.target = "sms" /\ request.info = "xcode"
              /\ headers.agent = "akd" => headers.info = "akd"
           \/ /\ request.path = "portal" /\ request.body = "services"
              /\ worker.contacted \cup {host} = {"anisette", "dev"}
  PROVE  TokensInv'
<1>1. /\ worker'.contacted = worker.contacted \cup {host}
      /\ worker'.sent = headers /\ worker'.pc = "upstream"
      /\ worker' \in WorkerType
  BY DEF TokensInv, WorkerType, Contact
<1> QED
  BY <1>1 DEF TokensInv, TokensOnlyToApple

\* Every step of a request keeps the invariant.
LEMMA TokensStep ==
  ASSUME TokensInv, WorkerNext
  PROVE  TokensInv'
<1>1. CASE RouteSimple
  BY <1>1, ReplyKeeps DEF RouteSimple
<1>2. CASE RouteAnisette
  <2>1. CASE request.method = "GET"
    <3>1. worker.sent \in SentType /\ ~worker.sent.tokens
      BY <1>2 DEF TokensInv, WorkerType, RouteAnisette, WorkerAt
    <3> QED
      BY <1>2, <2>1, <3>1, ContactKeeps DEF RouteAnisette
  <2>2. CASE request.method # "GET"
    BY <1>2, <2>2, ReplyKeeps DEF RouteAnisette
  <2> QED
    BY <2>1, <2>2
<1>3. CASE RouteProxy
  <2>1. CASE request.target = "invalid"
    BY <1>3, <2>1, ReplyKeeps DEF RouteProxy
  <2>2. CASE request.target = "unlisted"
    BY <1>3, <2>2, ReplyKeeps DEF RouteProxy
  <2>3. CASE request.target \notin {"invalid", "unlisted"}
    <3>1. worker' = Contact(request.target, Forwarded(request))
      BY <1>3, <2>3 DEF RouteProxy
    <3>2. /\ request.path = "proxy" /\ request.target \in Allowed
          /\ worker.contacted \cup {request.target} = {request.target}
      BY <1>3, <2>3 DEF TokensInv, RouteProxy, WorkerAt, Allowed
    <3>3. /\ Forwarded(request) \in SentType
          /\ Forwarded(request).info = "xcode" =>
               request.target = "sms" /\ request.info = "xcode"
          /\ Forwarded(request).agent = "akd" => Forwarded(request).info = "akd"
      BY ForwardedNames DEF TokensInv
    <3> QED
      BY <1>3, <3>1, <3>2, <3>3, ContactKeeps DEF RouteProxy, Allowed
  <2> QED
    BY <2>1, <2>2, <2>3
<1>4. CASE RoutePortal
  <2>1. /\ worker.contacted = {} /\ ~worker.sent.tokens
        /\ request.path = "portal"
        /\ request.body \in {"bad", "incomplete", "elsewhere", "services"}
    BY <1>4 DEF TokensInv, RoutePortal, WorkerAt
  <2>2. CASE request.method # "POST" \/ request.body # "services"
    <3>1. worker' \in {WorkerReply(405), WorkerReply(500), WorkerReply(400), WorkerReply(403)}
      BY <1>4, <2>1, <2>2 DEF RoutePortal
    <3> QED
      BY <1>4, <3>1, ReplyKeeps DEF RoutePortal
  <2>3. CASE request.method = "POST" /\ request.body = "services"
    <3>1. worker' = [worker EXCEPT !.pc = "source", !.source = 1,
                                   !.contacted = @ \cup {"anisette"}]
      BY <1>4, <2>3 DEF RoutePortal
    <3>2. /\ worker'.contacted = {"anisette"} /\ worker'.sent = worker.sent
          /\ worker'.pc = "source"
          /\ worker' \in WorkerType
      BY <2>1, <3>1 DEF TokensInv, WorkerType
    <3> QED
      BY <1>4, <2>1, <2>3, <3>2 DEF TokensInv, TokensOnlyToApple, RoutePortal
  <2> QED
    BY <2>2, <2>3
<1>5. CASE RouteWisp
  <2>1. CASE \E status \in Nat : worker' = WorkerReply(status)
    BY <1>5, <2>1, ReplyKeeps DEF RouteWisp
  <2>2. CASE worker' = [worker EXCEPT !.pc = "session", !.status = 101]
    <3>1. /\ worker'.contacted = worker.contacted /\ worker'.sent = worker.sent
          /\ worker'.pc = "session" /\ worker' \in WorkerType
      BY <2>2 DEF TokensInv, WorkerType
    <3> QED
      BY <1>5, <3>1 DEF TokensInv, TokensOnlyToApple, RouteWisp
  <2> QED
    BY <1>5, <2>1, <2>2 DEF RouteWisp
<1>6. ASSUME NEW how \in Descriptions \cup {"bad", "unusable"}, SourceAnswers(how)
      PROVE  TokensInv'
  <2>1. /\ worker.contacted = {"anisette"} /\ ~worker.sent.tokens
        /\ request.path = "portal" /\ request.body = "services"
        /\ request.type \in {"none", "client"}
    BY <1>6 DEF TokensInv, SourceAnswers
  <2>2. CASE how \in Descriptions
    <3>1. PortalHeaders(how) \in SentType
      BY <2>1, <2>2 DEF PortalHeaders, SentType, Descriptions
    <3>2. "dev" \in Targets /\ worker.contacted \cup {"dev"} = {"anisette", "dev"}
      BY <2>1 DEF Targets
    <3>3. worker' = Contact("dev", PortalHeaders(how)) /\ UNCHANGED request
      <4>1. worker' =
              CASE how \in Descriptions -> Contact("dev", PortalHeaders(how))
                [] how = "bad" /\ worker.source < AnisetteSources ->
                     [worker EXCEPT !.source = @ + 1]
                [] OTHER -> WorkerReply(500)
        BY <1>6 DEF SourceAnswers
      <4>2. how # "bad"
        BY <2>2 DEF Descriptions
      <4> QED
        BY <1>6, <2>2, <4>1, <4>2 DEF SourceAnswers
    <3>4. "dev" \in Targets \cup {"anisette"}
      BY <3>2
    <3>5. PortalHeaders(how).tokens =>
            /\ request.path = "portal" /\ request.body = "services"
            /\ worker.contacted \cup {"dev"} = {"anisette", "dev"}
      BY <2>1, <3>2
    <3> QED
      BY <3>1, <3>3, <3>4, <3>5, ContactKeeps
  <2>3. CASE how = "bad" /\ worker.source < AnisetteSources
    BY <1>6, <2>1, <2>3
    DEF SourceAnswers, TokensInv, WorkerType, TokensOnlyToApple, Descriptions
  <2>4. CASE how \notin Descriptions /\ ~(how = "bad" /\ worker.source < AnisetteSources)
    BY <1>6, <2>4, ReplyKeeps DEF SourceAnswers
  <2> QED
    BY <2>2, <2>3, <2>4
<1>7. ASSUME NEW how \in {"ok", "bad", "throws"},
             AnisetteAnswers(how) \/ ProxyAnswers(how) \/ PortalAnswers(how)
      PROVE  TokensInv'
  BY <1>7, ReplyKeeps DEF AnisetteAnswers, ProxyAnswers, PortalAnswers, Answered
<1>8. CASE SessionFails
  BY <1>8 DEF SessionFails, WorkerType, TokensInv, TokensOnlyToApple
<1>9. ASSUME UNCHANGED <<request, worker>> PROVE TokensInv'
  BY <1>9 DEF TokensInv, TokensOnlyToApple
<1> QED
  BY <1>1, <1>2, <1>3, <1>4, <1>5, <1>6, <1>7, <1>8, <1>9
  DEF WorkerNext, Message, Converted, SocketClosed

\* No request has been sent anywhere when it comes.
LEMMA TokensStart == WorkerInit => TokensInv
<1> SUFFICES ASSUME WorkerInit PROVE TokensInv
  OBVIOUS
<1>1. /\ request.path = "proxy" => request.target \in Targets
      /\ request.info \in {"none", "xcode", "akd"}
      /\ request.type \in {"none", "client"}
      /\ request.path = "portal" =>
           request.body \in {"bad", "incomplete", "elsewhere", "services"}
  BY RequestsTyped DEF WorkerInit
<1> QED
  BY <1>1 DEF WorkerInit, WorkerType, TokensInv, TokensOnlyToApple, SentType

\* Whatever the request and whatever the servers answer, what leaves with a
\* user's tokens goes to the one host of APPLE_HOST_PATTERNS that the request
\* names, or below /services/ of the developer portal, and never to a source of
\* anisette data; /apple-proxy/ names Xcode only where the user's own header
\* does and only to the SMS endpoints, and agrees with itself where it says
\* akd.
THEOREM TokensStayWithApple == WorkerSpec => []TokensOnlyToApple
<1>1. WorkerInit => TokensInv
  BY TokensStart
<1>2. TokensInv /\ [WorkerNext]_workerVars => TokensInv'
  BY TokensStep DEF workerVars, TokensInv, TokensOnlyToApple
<1>3. TokensInv => TokensOnlyToApple
  BY DEF TokensInv
<1> QED
  BY <1>1, <1>2, <1>3, PTL DEF WorkerSpec

-----------------------------------------------------------------------------
(* The types of the worker                                                 *)

WsType ==
  [came : Nat, converting : SUBSET Nat,
   handed : Seq([n : Nat, how : {"direct", "blob", "empty"}]), closed : BOOLEAN]

\* Conversions are of messages that came.
WorkerTypesInv == WorkerTypeOK /\ worker \in WorkerType /\ ws \in WsType

\* Routing and answers give one of the worker's statuses and ask one of its
\* sources at a time.
LEMMA RepliesTyped ==
  ASSUME WorkerTypesInv, WorkerNext, worker' # worker
  PROVE  worker'.status \in Statuses \cup {0} /\ worker'.source \in 0..AnisetteSources
<1>1. /\ worker \in WorkerType /\ worker.status \in Statuses \cup {0}
      /\ worker.source \in 0..AnisetteSources /\ worker.source \in Nat
  BY WispWorkerAssumption DEF WorkerTypesInv, WorkerTypeOK
<1>2. ASSUME NEW status \in Statuses, worker' = WorkerReply(status)
      PROVE  worker'.status = status /\ worker'.source = worker.source
  BY <1>1, <1>2 DEF WorkerReply, WorkerType
<1>3. ASSUME NEW host, NEW headers, worker' = Contact(host, headers)
      PROVE  worker'.status = worker.status /\ worker'.source = worker.source
  BY <1>1, <1>3 DEF Contact, WorkerType
<1>4. \A n \in {200, 101, 400, 401, 403, 404, 405, 426, 500, 502} : n \in Statuses
  BY DEF Statuses
<1>5. CASE RouteSimple
  BY <1>1, <1>2, <1>4, <1>5 DEF RouteSimple
<1>6. CASE RouteAnisette
  BY <1>1, <1>2, <1>3, <1>4, <1>6 DEF RouteAnisette
<1>7. CASE RouteProxy
  BY <1>1, <1>2, <1>3, <1>4, <1>7 DEF RouteProxy
<1>8. CASE RoutePortal
  <2>1. CASE worker' = [worker EXCEPT !.pc = "source", !.source = 1,
                                      !.contacted = @ \cup {"anisette"}]
    <3>1. worker'.status = worker.status /\ worker'.source = 1
      BY <1>1, <2>1 DEF WorkerType
    <3> QED
      BY <1>1, <3>1, WispWorkerAssumption
  <2> QED
    BY <1>1, <1>2, <1>4, <1>8, <2>1 DEF RoutePortal
<1>9. CASE RouteWisp
  <2>1. CASE worker' = [worker EXCEPT !.pc = "session", !.status = 101]
    <3>1. worker'.status = 101 /\ worker'.source = worker.source
      BY <1>1, <2>1 DEF WorkerType
    <3> QED
      BY <1>1, <1>4, <3>1
  <2> QED
    BY <1>1, <1>2, <1>4, <1>9, <2>1 DEF RouteWisp
<1>10. ASSUME NEW how \in Descriptions \cup {"bad", "unusable"}, SourceAnswers(how)
       PROVE  worker'.status \in Statuses \cup {0} /\ worker'.source \in 0..AnisetteSources
  <2>1. CASE how = "bad" /\ worker.source < AnisetteSources
    <3>1. worker' = [worker EXCEPT !.source = @ + 1]
      BY <1>10, <2>1 DEF SourceAnswers, Descriptions
    <3>2. worker'.status = worker.status /\ worker'.source = worker.source + 1
      BY <1>1, <3>1 DEF WorkerType
    <3>3. worker.source + 1 \in 0..AnisetteSources
      BY <1>1, <2>1, WispWorkerAssumption
    <3> QED
      BY <1>1, <3>2, <3>3
  <2> QED
    BY <1>1, <1>2, <1>3, <1>4, <1>10, <2>1 DEF SourceAnswers
<1>11. ASSUME NEW how \in {"ok", "bad", "throws"},
              AnisetteAnswers(how) \/ ProxyAnswers(how) \/ PortalAnswers(how)
       PROVE  worker'.status \in Statuses \cup {0} /\ worker'.source \in 0..AnisetteSources
  BY <1>1, <1>2, <1>4, <1>11 DEF AnisetteAnswers, ProxyAnswers, PortalAnswers, Answered
<1>12. CASE SessionFails
  BY <1>1, <1>12 DEF SessionFails, WorkerType
<1> QED
  BY <1>5, <1>6, <1>7, <1>8, <1>9, <1>10, <1>11, <1>12
  DEF WorkerNext, Message, Converted, SocketClosed

\* The WsAdapter converts only messages that came.
LEMMA AdapterTyped ==
  ASSUME WorkerTypesInv, WorkerNext
  PROVE  ws' \in WsType /\ ws'.converting \subseteq 1..ws'.came
<1>1. ws \in WsType /\ ws.converting \subseteq 1..ws.came
  BY DEF WorkerTypesInv, WorkerTypeOK
<1>2. /\ ws.came \in Nat /\ ws.converting \in SUBSET Nat
      /\ ws.handed \in Seq([n : Nat, how : {"direct", "blob", "empty"}]) /\ ws.closed \in BOOLEAN
  BY <1>1 DEF WsType
<1>3. ASSUME NEW blob \in BOOLEAN, Message(blob)
      PROVE  ws' \in WsType /\ ws'.converting \subseteq 1..ws'.came
  <2> DEFINE k == ws.came + 1
             q == IF blob THEN ws.converting \cup {k} ELSE ws.converting
             h == IF blob THEN ws.handed ELSE Append(ws.handed, [n |-> k, how |-> "direct"])
  <2>1. ws' = [ws EXCEPT !.came = k, !.converting = q, !.handed = h]
    BY <1>3 DEF Message
  <2>2. k \in Nat /\ q \in SUBSET Nat /\ q \subseteq 1..k
    BY <1>1, <1>2
  <2>3. h \in Seq([n : Nat, how : {"direct", "blob", "empty"}])
    <3>1. [n |-> k, how |-> "direct"] \in [n : Nat, how : {"direct", "blob", "empty"}]
      BY <2>2
    <3> QED
      BY <1>2, <3>1, AppendProperties
  <2> HIDE DEF k, q, h
  <2> QED
    BY <1>1, <2>1, <2>2, <2>3 DEF WsType
<1>4. ASSUME NEW n \in 1..MaxMessages, NEW how \in {"blob", "empty"}, Converted(n, how)
      PROVE  ws' \in WsType /\ ws'.converting \subseteq 1..ws'.came
  <2> DEFINE h == Append(ws.handed, [n |-> n, how |-> how])
             q == ws.converting \ {n}
  <2>1. ws' = [ws EXCEPT !.converting = q, !.handed = h]
    BY <1>4 DEF Converted
  <2>2. h \in Seq([n : Nat, how : {"direct", "blob", "empty"}])
    <3>1. [n |-> n, how |-> how] \in [n : Nat, how : {"direct", "blob", "empty"}]
      BY WispWorkerAssumption
    <3> QED
      BY <1>2, <3>1, AppendProperties
  <2>3. q \in SUBSET Nat /\ q \subseteq 1..ws.came
    BY <1>1, <1>2
  <2> HIDE DEF q, h
  <2> QED
    BY <1>1, <2>1, <2>2, <2>3 DEF WsType
<1>5. ASSUME ws' = ws \/ ws' = [ws EXCEPT !.closed = TRUE]
      PROVE  ws' \in WsType /\ ws'.converting \subseteq 1..ws'.came
  BY <1>1, <1>5 DEF WsType
<1> QED
  BY <1>3, <1>4, <1>5
  DEF WorkerNext, RouteSimple, RouteAnisette, RouteProxy, RoutePortal, RouteWisp, SourceAnswers,
      AnisetteAnswers, ProxyAnswers, PortalAnswers, Answered, SessionFails, SocketClosed

\* The worker answers with one of its statuses, asks no source of anisette data
\* beyond the last one, and converts only messages that came.
THEOREM WorkerTypesCorrect == WorkerSpec => []WorkerTypeOK
<1>1. WorkerInit => TokensInv /\ WorkerTypesInv
  <2> SUFFICES ASSUME WorkerInit PROVE TokensInv /\ WorkerTypesInv
    OBVIOUS
  <2>1. TokensInv
    BY TokensStart
  <2>2. ws \in WsType /\ ws.converting \subseteq 1..ws.came
    BY DEF WorkerInit, WsType
  <2>3. request \in Requests /\ worker.status = 0 /\ worker.source = 0
    BY DEF WorkerInit
  <2>4. 0 \in 0..AnisetteSources
    BY WispWorkerAssumption
  <2> QED
    BY <2>1, <2>2, <2>3, <2>4 DEF TokensInv, WorkerTypesInv, WorkerTypeOK
<1>2. TokensInv /\ WorkerTypesInv /\ [WorkerNext]_workerVars => TokensInv' /\ WorkerTypesInv'
  <2> SUFFICES ASSUME TokensInv, WorkerTypesInv, [WorkerNext]_workerVars
               PROVE  TokensInv' /\ WorkerTypesInv'
    OBVIOUS
  <2>1. CASE UNCHANGED workerVars
    BY <2>1 DEF workerVars, TokensInv, TokensOnlyToApple, WorkerTypesInv, WorkerTypeOK
  <2>2. CASE WorkerNext
    <3>1. TokensInv'
      BY <2>2, TokensStep
    <3>2. request' = request
      BY <2>2
      DEF WorkerNext, RouteSimple, RouteAnisette, RouteProxy, RoutePortal, RouteWisp,
          SourceAnswers, AnisetteAnswers, ProxyAnswers, PortalAnswers, Answered, SessionFails,
          Message, Converted, SocketClosed
    <3>3. worker'.status \in Statuses \cup {0} /\ worker'.source \in 0..AnisetteSources
      BY <2>2, RepliesTyped DEF WorkerTypesInv, WorkerTypeOK
    <3>4. ws' \in WsType /\ ws'.converting \subseteq 1..ws'.came
      BY <2>2, AdapterTyped
    <3> QED
      BY <3>1, <3>2, <3>3, <3>4 DEF TokensInv, WorkerTypesInv, WorkerTypeOK
  <2> QED
    BY <2>1, <2>2
<1>3. WorkerTypesInv => WorkerTypeOK
  BY DEF WorkerTypesInv
<1> QED
  BY <1>1, <1>2, <1>3, PTL DEF WorkerSpec

=============================================================================
