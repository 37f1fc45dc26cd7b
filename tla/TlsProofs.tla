----------------------------- MODULE TlsProofs -----------------------------
(***************************************************************************)
(* Theorems of the transports below remote pairing, for every value of     *)
(* their constants.                                                        *)
(*                                                                         *)
(* TlsClient: both sides agree on keys and transcript when tlsConnect()    *)
(* returns, and sealed records reach the wire, and the server, in turn.    *)
(* The argument: TlsInv.  The phase of the handshake says what the driver  *)
(* knows of the server's answer (Phases).  Counted from the end of what is *)
(* on its way to the server, the sealed records carry the numbers below    *)
(* tls.write (Numbered), so that the one the server reads next has the     *)
(* number it expects.  A sealed handshake message on its way to the driver *)
(* is the Finished of a server that took the client's own, or of one whose *)
(* key differs (Answers).                                                  *)
(*                                                                         *)
(* RpTransport: readFrame() returns the frames that the device sent.  The  *)
(* argument: RpInv.  A read of a frame begins at the frame's offset, and   *)
(* the bytes taken since are those of the parts it has read (FramePlace).  *)
(* It implements ByteStream.                                               *)
(*                                                                         *)
(* PskTunnel: no byte after the CDTunnel response is lost.  The argument:  *)
(* TunnelInv.  At any moment the bytes the host has counted and those of   *)
(* the records on their way are the bytes sent (StreamKept).  With bounds  *)
(* on what is on its way (TunnelBounded) the tunnel implements ByteStream. *)
(***************************************************************************)
EXTENDS TlsClient, RpTransport, PskTunnel, SequenceTheorems, WellFoundedInduction, TLAPS

-----------------------------------------------------------------------------
(* The invariant                                                           *)

Keys == {"none", "point"} \cup Versions

\* the names of messages and of alerts, and the bytes that stand for either
Words ==
  {"ClientHello", "ServerHello", "ServerKeyExchange", "CertificateRequest",
   "ServerHelloDone", "Other", "Certificate", "ClientKeyExchange",
   "CertificateVerify", "ccs", "Finished", "byte", "fatal", "warning",
   "close_notify"}

SealType == [key : Keys, seq : Nat]

RecordType ==
  [type : {"handshake", "ccs", "alert", "data", "header"},
   over : Seq(Words), seal : SealType]

FlightNames ==
  {"Certificate", "ClientKeyExchange", "CertificateVerify", "ccs", "Finished"}

\* The driver's fields; what it buffers is typed while the handshake runs.
TlsShape ==
  tls \in [pc : {"start", "flight", "sending", "ccs", "finished", "open", "failed"},
           offered : {"1.0", "1.2"}, cert : BOOLEAN,
           version : Versions \ {"1.1"}, suite : {"none", "ecdhe", "rsa"},
           req : BOOLEAN, serverCert : BOOLEAN, point : BOOLEAN, key : Keys,
           transcript : {tls.transcript}, hsBuf : {tls.hsBuf},
           reading : {"none", "payload"}, toSend : {tls.toSend},
           write : Nat, read : Nat, closed : BOOLEAN, shut : BOOLEAN]

PeerType ==
  [pc : {"hello", "flight", "answer", "open", "closed", "stalled"},
   version : Versions, suite : {"none", "ecdhe", "rsa", "unknown"},
   strict : BOOLEAN, flight : Seq(Words), bytes : Nat, key : Keys,
   transcript : Seq(Words), signed : BOOLEAN, expect : Nat, seq : Nat]

Shapes ==
  /\ TlsShape /\ peer \in PeerType
  /\ writing \in [TlsWriters -> 0..TlsFragments]
  /\ outgoing \in Seq(RecordType) /\ incoming \in Seq(RecordType)
  /\ onWire \in Seq(Nat)
  /\ peer.bytes <= 2 * Len(peer.flight)

\* what the driver knows
Phases ==
  /\ tls.pc \in {"start", "flight", "sending"} => tls.write = 0
  /\ tls.pc \in {"ccs", "finished", "open"} => tls.write > 0
  /\ tls.pc \in {"sending", "ccs", "finished", "open"} \/ tls.write > 0 =>
       tls.suite # "none" /\ tls.key = KeyOf(tls.suite, tls.offered)
  /\ tls.suite # "none" =>
       tls.version = peer.version /\ tls.suite = peer.suite
  /\ tls.pc \notin {"start", "failed"} =>
       /\ tls.transcript \in Seq(Words) /\ tls.transcript # <<>>
       /\ tls.transcript[1] = "ClientHello"
  /\ tls.pc = "sending" =>
       /\ tls.toSend \in Seq(FlightNames) /\ tls.toSend # <<>>
       /\ \A i \in 1..Len(tls.toSend) :
            tls.toSend[i] = "Finished" <=> i = Len(tls.toSend)
  /\ tls.pc = "open" => peer.pc = "open" /\ peer.transcript = tls.transcript
  /\ tls.closed => tls.shut

\* what the server knows
PeerPhases ==
  /\ peer.pc = "hello" => peer.suite = "none" /\ peer.bytes = 0
  /\ peer.pc \in {"flight", "answer", "open", "closed"} \/ peer.flight # <<>> =>
       peer.suite # "none"
  /\ peer.suite # "none" =>
       peer.key = KeyOf(peer.suite, IF peer.strict THEN tls.offered ELSE peer.version)

\* the number of a record on its way, counted from the last
Number(i) == tls.write - 1 - (Len(outgoing) - i)

Numbered ==
  /\ \A w \in TlsWriters : writing[w] > 0 => tls.pc = "open"
  /\ Len(onWire) = tls.write /\ \A i \in 1..Len(onWire) : onWire[i] = i - 1
  /\ \A i \in 1..Len(outgoing) :
       /\ outgoing[i].type = "ccs" => outgoing[i].seal = NoSeal
       /\ outgoing[i].type = "handshake" /\ outgoing[i].seal = NoSeal =>
            outgoing[i].over # <<>>
       /\ outgoing[i].over = <<"close_notify">> =>
            i = Len(outgoing) /\ tls.shut /\ tls.pc = "open"
  /\ peer.pc \in {"hello", "flight", "answer", "open"} =>
       \A i \in 1..Len(outgoing) :
         outgoing[i].seal = IF Number(i) >= peer.expect
                              THEN [key |-> tls.key, seq |-> Number(i)]
                              ELSE NoSeal
  /\ peer.pc \in {"hello", "flight", "answer"} =>
       peer.expect = 0 /\ Len(outgoing) >= tls.write
  /\ peer.pc = "open" =>
       /\ Len(outgoing) = tls.write - peer.expect
       /\ peer.key = tls.key /\ tls.write > 0

\* the server's Finished on its way
Answer(r) ==
  r.type = "handshake" /\ r.seal # NoSeal =>
    /\ tls.write > 0 /\ r.seal.key = peer.key
    /\ \/ peer.pc = "open" /\ r.over = peer.transcript
       \/ peer.pc = "closed" /\ peer.key # tls.key

Answers == \A i \in 1..Len(incoming) : Answer(incoming[i])

TlsInv == Shapes /\ Phases /\ PeerPhases /\ Numbered /\ Answers

-----------------------------------------------------------------------------
(* Sequences                                                               *)

\* What taking the head of a sequence leaves.
LEMMA TailFacts ==
  ASSUME NEW S, NEW q \in Seq(S), q # <<>>
  PROVE  /\ Tail(q) \in Seq(S) /\ Len(Tail(q)) = Len(q) - 1
         /\ Len(q) \in Nat /\ Len(q) > 0 /\ Head(q) = q[1] /\ q[1] \in S
         /\ \A i \in 1..(Len(q) - 1) : Tail(q)[i] = q[i + 1]
OBVIOUS

\* What adding an element gives.
LEMMA AppendFacts ==
  ASSUME NEW S, NEW q \in Seq(S), NEW e \in S
  PROVE  /\ Append(q, e) \in Seq(S) /\ Len(Append(q, e)) = Len(q) + 1
         /\ Len(q) \in Nat /\ Append(q, e)[Len(q) + 1] = e
         /\ \A i \in 1..Len(q) : Append(q, e)[i] = q[i]
OBVIOUS

\* The records that were on their way to the driver are among those that are.
LEMMA AnswersStay ==
  ASSUME TlsInv, UNCHANGED peer, tls'.write \in Nat, tls'.write >= tls.write,
         incoming' = incoming \/ (incoming # <<>> /\ incoming' = Tail(incoming)),
         tls.write > 0 => tls'.key = tls.key
  PROVE  Answers'
<1>1. ASSUME NEW i \in 1..Len(incoming'), incoming'[i].type = "handshake",
             incoming'[i].seal # NoSeal
      PROVE  \E j \in 1..Len(incoming) : incoming'[i] = incoming[j]
  <2>1. CASE incoming' = incoming
    BY <2>1
  <2>2. CASE incoming # <<>> /\ incoming' = Tail(incoming)
    <3>1. /\ Len(incoming) \in Nat /\ Len(incoming') = Len(incoming) - 1
          /\ \A k \in 1..(Len(incoming) - 1) : incoming'[k] = incoming[k + 1]
      BY <2>2, TailFacts DEF TlsInv, Shapes
    <3>2. i + 1 \in 1..Len(incoming) /\ incoming'[i] = incoming[i + 1]
      BY <3>1
    <3> QED
      BY <3>2
  <2> QED
    BY <2>1, <2>2
<1>2. tls.write \in Nat
  BY DEF TlsInv, Shapes, TlsShape
<1> QED
  BY <1>1, <1>2 DEF TlsInv, Answers, Answer

-----------------------------------------------------------------------------
(* The driver reads                                                        *)

\* A step that takes a record off the stream at most, and leaves the keys, the
\* transcript and what was written alone, keeps the invariant.
LEMMA DriverReads ==
  ASSUME TlsInv, TlsShape', UNCHANGED <<writing, peer, outgoing, onWire>>,
         incoming' = incoming \/ (incoming # <<>> /\ incoming' = Tail(incoming)),
         /\ tls'.offered = tls.offered /\ tls'.version = tls.version
         /\ tls'.suite = tls.suite /\ tls'.key = tls.key
         /\ tls'.transcript = tls.transcript /\ tls'.toSend = tls.toSend
         /\ tls'.write = tls.write /\ tls'.closed = tls.closed,
         tls.shut => tls'.shut,
         \/ tls'.pc = tls.pc
         \/ tls.pc # "open" /\ tls'.pc = "failed"
         \/ tls.pc = "ccs" /\ tls'.pc = "finished"
         \/ /\ tls.pc = "finished" /\ tls'.pc = "open"
            /\ peer.pc = "open" /\ peer.transcript = tls.transcript
  PROVE  TlsInv'
<1>1. Shapes'
  <2>1. incoming' \in Seq(RecordType)
    BY TailFacts DEF TlsInv, Shapes
  <2> QED
    BY <2>1 DEF TlsInv, Shapes
<1>2. Phases'
  BY DEF TlsInv, Phases
<1>3. PeerPhases'
  BY DEF TlsInv, PeerPhases
<1>4. Numbered'
  <2>1. ASSUME NEW i \in 1..Len(outgoing) PROVE Number(i)' = Number(i)
    BY DEF Number
  <2>2. ASSUME NEW w \in TlsWriters, writing[w] > 0 PROVE tls'.pc = "open"
    BY <2>2 DEF TlsInv, Numbered
  <2>3. ASSUME tls.shut, tls.pc = "open" PROVE tls'.shut /\ tls'.pc = "open"
    BY <2>3
  <2> QED
    BY <2>1, <2>2, <2>3 DEF TlsInv, Numbered
<1>5. Answers'
  <2>1. tls'.write \in Nat /\ tls'.write >= tls.write
    BY DEF TlsInv, Shapes, TlsShape
  <2> QED
    BY <2>1, AnswersStay
<1> QED
  BY <1>1, <1>2, <1>3, <1>4, <1>5 DEF TlsInv

\* Reading a header, a record of the flight or an alert, and the timer.
LEMMA PlainReads ==
  ASSUME TlsInv,
         ReadHeader \/ Timeout \/ \E r : Buffer(r) \/ ReadCcs(r) \/ ReadAppRecord(r)
  PROVE  TlsInv'
<1> USE DEF Payload, Fails, FailsShut, Shaking
<1>1. CASE ReadHeader
  <2>1. tls' = [tls EXCEPT !.reading = "payload"]
    BY <1>1 DEF ReadHeader
  <2>2. TlsShape'
    BY <2>1 DEF TlsInv, Shapes, TlsShape
  <2> QED
    BY <1>1, <2>1, <2>2, DriverReads DEF ReadHeader, TlsInv, Shapes, TlsShape
<1>2. CASE Timeout
  <2>1. tls' = [tls EXCEPT !.pc = "failed", !.reading = "none", !.shut = TRUE]
    BY <1>2 DEF Timeout
  <2>2. TlsShape'
    BY <2>1, ZenonT(60) DEF TlsInv, Shapes, TlsShape
  <2>3. tls.pc # "open"
    BY <1>2 DEF Timeout
  <2> QED
    BY <1>2, <2>1, <2>2, <2>3, DriverReads DEF Timeout, TlsInv, Shapes, TlsShape
<1>3. ASSUME NEW r, Buffer(r) PROVE TlsInv'
  <2>1. \/ tls' = [tls EXCEPT !.hsBuf = tls.hsBuf + Len(r.over), !.reading = "none"]
        \/ tls' = [tls EXCEPT !.pc = "failed", !.reading = "none"]
    BY <1>3 DEF Buffer
  <2>2. TlsShape'
    <3>1. TlsShape
      BY DEF TlsInv, Shapes
    <3>2. CASE tls' = [tls EXCEPT !.hsBuf = tls.hsBuf + Len(r.over), !.reading = "none"]
      <4> DEFINE n == tls.hsBuf + Len(r.over)
      <4>1. tls' = [tls EXCEPT !.hsBuf = n, !.reading = "none"]
        BY <3>2
      <4> HIDE DEF n
      <4> QED
        BY <3>1, <4>1 DEF TlsShape
    <3>3. CASE tls' = [tls EXCEPT !.pc = "failed", !.reading = "none"]
      BY <3>1, <3>3 DEF TlsShape
    <3> QED
      BY <2>1, <3>2, <3>3
  <2>3. tls.pc = "flight"
    BY <1>3 DEF Buffer
  <2> QED
    BY <1>3, <2>1, <2>2, <2>3, DriverReads, ZenonT(60) DEF Buffer, TlsInv, Shapes, TlsShape
<1>4. ASSUME NEW r, ReadCcs(r) PROVE TlsInv'
  <2>1. \/ tls' = [tls EXCEPT !.pc = "finished", !.reading = "none", !.read = 0]
        \/ tls' = [tls EXCEPT !.pc = "failed", !.reading = "none"]
    BY <1>4 DEF ReadCcs
  <2>2. TlsShape'
    <3>1. TlsShape
      BY DEF TlsInv, Shapes
    <3>2. CASE tls' = [tls EXCEPT !.pc = "finished", !.reading = "none", !.read = 0]
      BY <3>1, <3>2 DEF TlsShape
    <3>3. CASE tls' = [tls EXCEPT !.pc = "failed", !.reading = "none"]
      BY <3>1, <3>3 DEF TlsShape
    <3> QED
      BY <2>1, <3>2, <3>3
  <2>3. /\ tls.pc = "ccs" /\ incoming # <<>> /\ incoming' = Tail(incoming)
        /\ UNCHANGED <<writing, peer, outgoing, onWire>>
    BY <1>4 DEF ReadCcs
  <2>4. TlsShape
    BY DEF TlsInv, Shapes
  <2>5. CASE tls' = [tls EXCEPT !.pc = "finished", !.reading = "none", !.read = 0]
    BY <2>2, <2>3, <2>4, <2>5, DriverReads DEF TlsShape
  <2>6. CASE tls' = [tls EXCEPT !.pc = "failed", !.reading = "none"]
    BY <2>2, <2>3, <2>4, <2>6, DriverReads DEF TlsShape
  <2> QED
    BY <2>1, <2>5, <2>6
<1>5. ASSUME NEW r, ReadAppRecord(r) PROVE TlsInv'
  <2>1. /\ tls.pc = "open" /\ ~tls.shut
        /\ \/ \E b \in BOOLEAN :
                tls' = [tls EXCEPT !.reading = "none", !.read = tls.read + 1, !.shut = b]
           \/ tls' = [tls EXCEPT !.reading = "none"]
    BY <1>5 DEF ReadAppRecord, TlsInv, Shapes, TlsShape
  <2>2. TlsShape
    BY DEF TlsInv, Shapes
  <2>3. CASE tls' = [tls EXCEPT !.reading = "none"]
    <3>1. TlsShape'
      BY <2>2, <2>3 DEF TlsShape
    <3> QED
      BY <1>5, <2>1, <2>2, <2>3, <3>1, DriverReads, ZenonT(60) DEF ReadAppRecord, TlsShape
  <2>4. ASSUME NEW b \in BOOLEAN,
               tls' = [tls EXCEPT !.reading = "none", !.read = tls.read + 1, !.shut = b]
        PROVE  TlsInv'
    <3>1. tls.read + 1 \in Nat
      BY <2>2 DEF TlsShape
    <3>2. TlsShape'
      BY <2>2, <2>4, <3>1, ZenonT(60) DEF TlsShape
    <3>3. /\ tls'.offered = tls.offered /\ tls'.version = tls.version
          /\ tls'.suite = tls.suite /\ tls'.key = tls.key
          /\ tls'.transcript = tls.transcript /\ tls'.toSend = tls.toSend
          /\ tls'.write = tls.write /\ tls'.closed = tls.closed /\ tls'.pc = tls.pc
      BY <2>2, <2>4 DEF TlsShape
    <3> QED
      BY <1>5, <2>1, <3>2, <3>3, DriverReads DEF ReadAppRecord
  <2> QED
    BY <2>1, <2>3, <2>4
<1> QED
  BY <1>1, <1>2, <1>3, <1>4, <1>5

\* A key is never "none".
LEMMA KeyIsMade ==
  ASSUME NEW suite, NEW version \in Versions
  PROVE  KeyOf(suite, version) \in Keys \ {"none"}
BY DEF KeyOf, Keys, Versions

\* A Finished that opens comes from a server that took the driver's own, over
\* the same handshake.
LEMMA FinishedReads ==
  ASSUME TlsInv, NEW r, ReadFinished(r)
  PROVE  TlsInv'
<1>1. /\ tls.pc = "finished" /\ incoming # <<>> /\ r = Head(incoming)
      /\ incoming' = Tail(incoming) /\ UNCHANGED <<writing, peer, outgoing, onWire>>
  BY DEF ReadFinished, Payload
<1>2. CASE OpensTls(r, "handshake") /\ r.over = tls.transcript
  <2>1. tls' = [tls EXCEPT !.pc = "open", !.reading = "none", !.read = 1]
    BY <1>2 DEF ReadFinished
  <2>2. TlsShape'
    BY <2>1, ZenonT(60) DEF TlsInv, Shapes, TlsShape
  <2>3. r = incoming[1] /\ 1 \in 1..Len(incoming)
    BY <1>1, TailFacts DEF TlsInv, Shapes
  <2>4. tls.key # "none"
    BY <1>1, KeyIsMade DEF TlsInv, Phases, Shapes, TlsShape, Versions
  <2>5. r.type = "handshake" /\ r.seal.key = tls.key /\ r.seal # NoSeal
    BY <1>2, <2>4 DEF OpensTls, NoSeal
  <2>6. peer.pc = "open" /\ peer.transcript = tls.transcript
    BY <1>2, <2>3, <2>5 DEF TlsInv, Answers, Answer
  <2> QED
    BY <1>1, <2>1, <2>2, <2>6, DriverReads DEF TlsInv, Shapes, TlsShape
<1>3. CASE ~(OpensTls(r, "handshake") /\ r.over = tls.transcript)
  <2>1. tls' = [tls EXCEPT !.pc = "failed", !.reading = "none"]
    BY <1>3 DEF ReadFinished, Fails
  <2>2. TlsShape'
    BY <2>1 DEF TlsInv, Shapes, TlsShape
  <2> QED
    BY <1>1, <2>1, <2>2, DriverReads DEF TlsInv, Shapes, TlsShape
<1> QED
  BY <1>2, <1>3

-----------------------------------------------------------------------------
(* The server's flight                                                     *)

\* While the handshake has not come to its keys nothing sealed is under way,
\* and what the driver learns of the server is the server's.
LEMMA LearnsFlight ==
  ASSUME TlsInv, TlsShape', tls.pc = "flight",
         /\ writing' = writing /\ peer' = peer /\ outgoing' = outgoing
         /\ onWire' = onWire /\ incoming' = incoming,
         /\ tls'.offered = tls.offered /\ tls'.closed = tls.closed
         /\ tls'.shut = tls.shut /\ tls'.write = tls.write
         /\ tls'.suite # "none" =>
              tls'.version = peer.version /\ tls'.suite = peer.suite,
         tls'.pc \in {"flight", "sending", "failed"},
         tls'.pc # "failed" =>
           /\ tls'.transcript \in Seq(Words) /\ tls'.transcript # <<>>
           /\ tls'.transcript[1] = "ClientHello",
         tls'.pc = "sending" =>
           /\ tls'.suite # "none" /\ tls'.key = KeyOf(tls'.suite, tls'.offered)
           /\ tls'.toSend \in Seq(FlightNames) /\ tls'.toSend # <<>>
           /\ \A i \in 1..Len(tls'.toSend) :
                tls'.toSend[i] = "Finished" <=> i = Len(tls'.toSend)
  PROVE  TlsInv'
<1>1. tls.write = 0 /\ tls'.write = 0
  BY DEF TlsInv, Phases
<1>2. Shapes'
  BY DEF TlsInv, Shapes
<1>3. Phases'
  BY <1>1 DEF TlsInv, Phases
<1>4. PeerPhases'
  BY DEF TlsInv, PeerPhases
<1>5. Numbered'
  <2>1. Len(outgoing) \in Nat
    BY DEF TlsInv, Shapes
  <2>2. ASSUME NEW i \in 1..Len(outgoing)
        PROVE  /\ Number(i) \in Int /\ Number(i) < 0
               /\ Number(i)' \in Int /\ Number(i)' < 0
    BY <1>1, <2>1 DEF Number
  <2>3. peer.expect \in Nat
    BY DEF TlsInv, Shapes, PeerType
  <2>4. \A w \in TlsWriters : ~(writing[w] > 0)
    BY DEF TlsInv, Numbered
  <2>5. peer.pc # "open"
    BY <1>1 DEF TlsInv, Numbered
  <2>6. \A i \in 1..Len(outgoing) : outgoing[i].over # <<"close_notify">>
    BY DEF TlsInv, Numbered
  <2>7. ASSUME NEW i \in 1..Len(outgoing),
               peer.pc \in {"hello", "flight", "answer", "open"}
        PROVE  /\ outgoing[i].seal = NoSeal
               /\ ~(Number(i)' >= peer.expect)
    <3>1. ~(Number(i) >= peer.expect) /\ ~(Number(i)' >= peer.expect)
      BY <2>2, <2>3
    <3> QED
      BY <2>7, <3>1 DEF TlsInv, Numbered
  <2>8. \A i \in 1..Len(outgoing) :
          /\ outgoing[i].type = "ccs" => outgoing[i].seal = NoSeal
          /\ outgoing[i].type = "handshake" /\ outgoing[i].seal = NoSeal =>
               outgoing[i].over # <<>>
    BY DEF TlsInv, Numbered
  <2>9. /\ Len(onWire) = 0
        /\ peer.pc \in {"hello", "flight", "answer"} => peer.expect = 0
    BY <1>1 DEF TlsInv, Numbered
  <2> QED
    BY <1>1, <2>1, <2>4, <2>5, <2>6, <2>7, <2>8, <2>9 DEF Numbered
<1>6. Answers'
  BY <1>1 DEF TlsInv, Answers, Answer
<1> QED
  BY <1>2, <1>3, <1>4, <1>5, <1>6 DEF TlsInv

\* The records that the client's flight is made of, Finished last.
LEMMA FlightIsClosed ==
  /\ ClientFlight \in Seq(FlightNames) /\ ClientFlight # <<>>
  /\ \A i \in 1..Len(ClientFlight) :
       ClientFlight[i] = "Finished" <=> i = Len(ClientFlight)
<1> DEFINE a == IF tls.req
                  THEN <<"Certificate", "ClientKeyExchange", "CertificateVerify">>
                  ELSE <<"ClientKeyExchange">>
           b == <<"ccs", "Finished">>
<1>1. /\ a \in Seq(FlightNames) /\ Len(a) \in Nat
      /\ \A i \in 1..Len(a) : a[i] # "Finished"
  <2>1. CASE tls.req
    BY <2>1 DEF FlightNames
  <2>2. CASE ~tls.req
    BY <2>2 DEF FlightNames
  <2> QED
    BY <2>1, <2>2
<1>2. /\ b \in Seq(FlightNames) /\ Len(b) = 2
      /\ b[1] = "ccs" /\ b[2] = "Finished"
  BY DEF FlightNames
<1>3. ClientFlight = a \o b
  BY DEF ClientFlight
<1> HIDE DEF a, b
<1>4. /\ a \o b \in Seq(FlightNames) /\ Len(a \o b) = Len(a) + 2
      /\ \A i \in 1..(Len(a) + 2) :
           (a \o b)[i] = IF i <= Len(a) THEN a[i] ELSE b[i - Len(a)]
  <2>1. /\ a \o b \in Seq(FlightNames) /\ Len(a \o b) = Len(a) + Len(b)
        /\ \A i \in 1..Len(a) + Len(b) :
             (a \o b)[i] = IF i <= Len(a) THEN a[i] ELSE b[i - Len(a)]
    BY <1>1, <1>2, ConcatProperties, Zenon
  <2> QED
    BY <1>2, <2>1
<1>5. ASSUME NEW i \in 1..(Len(a) + 2)
      PROVE  (a \o b)[i] = "Finished" <=> i = Len(a) + 2
  <2>1. CASE i <= Len(a)
    BY <1>1, <1>4, <2>1
  <2>2. CASE ~(i <= Len(a))
    <3>1. i - Len(a) = 1 \/ i - Len(a) = 2
      BY <1>1, <2>2
    <3> QED
      BY <1>1, <1>2, <1>4, <2>2, <3>1
  <2> QED
    BY <2>1, <2>2
<1> QED
  BY <1>1, <1>3, <1>4, <1>5

\* A message of the server's flight, and ServerHelloDone with the keys.
LEMMA FlightReads ==
  ASSUME TlsInv, FlightMessage
  PROVE  TlsInv'
<1> DEFINE m == peer.flight[Taken + 1]
           tr == Append(tls.transcript, m)
           k == tls.hsBuf - 2
           t == [tls EXCEPT !.hsBuf = k, !.transcript = tr]
<1>1. /\ tls.pc = "flight" /\ TlsShape /\ peer \in PeerType
      /\ writing' = writing /\ peer' = peer /\ outgoing' = outgoing
      /\ onWire' = onWire /\ incoming' = incoming
  BY DEF FlightMessage, TlsInv, Shapes
<1>2. /\ tls.transcript \in Seq(Words) /\ tls.transcript # <<>>
      /\ tls.transcript[1] = "ClientHello"
      /\ tls.suite # "none" => tls.version = peer.version /\ tls.suite = peer.suite
  BY <1>1 DEF TlsInv, Phases
<1>3. m \in Words => tr \in Seq(Words) /\ tr # <<>> /\ tr[1] = "ClientHello"
  <2> HIDE DEF m
  <2> QED
    BY <1>2
<1>4. \/ /\ m = "ServerHello" /\ peer.version # "1.1" /\ peer.suite # "unknown"
         /\ tls' = [t EXCEPT !.version = peer.version, !.suite = peer.suite]
      \/ m = "Certificate" /\ tls' = [t EXCEPT !.serverCert = TRUE]
      \/ m = "ServerKeyExchange" /\ tls' = [t EXCEPT !.point = TRUE]
      \/ m = "CertificateRequest" /\ tls' = [t EXCEPT !.req = TRUE]
      \/ m = "ServerHelloDone" /\ HelloDone(t)
      \/ tls' = [t EXCEPT !.pc = "failed"]
  BY DEF FlightMessage
<1> HIDE DEF m, tr, k
<1>5. /\ t.offered = tls.offered /\ t.version = tls.version /\ t.suite = tls.suite
      /\ t.transcript = tr /\ t.pc = tls.pc /\ t.write = tls.write
      /\ t.closed = tls.closed /\ t.shut = tls.shut
      /\ t \in [pc : {"flight"}, offered : {"1.0", "1.2"}, cert : BOOLEAN,
                version : Versions \ {"1.1"}, suite : {"none", "ecdhe", "rsa"},
                req : BOOLEAN, serverCert : BOOLEAN, point : BOOLEAN, key : Keys,
                transcript : {tr}, hsBuf : {k}, reading : {"none", "payload"},
                toSend : {tls.toSend}, write : Nat, read : Nat,
                closed : BOOLEAN, shut : BOOLEAN]
  BY <1>1 DEF TlsShape
<1> HIDE DEF t
<1>6. CASE /\ m = "ServerHello" /\ peer.version # "1.1" /\ peer.suite # "unknown"
           /\ tls' = [t EXCEPT !.version = peer.version, !.suite = peer.suite]
  <2>1. TlsShape'
    BY <1>1, <1>5, <1>6, ZenonT(60) DEF TlsShape, PeerType
  <2>2. /\ tls'.pc = "flight" /\ tls'.offered = tls.offered
        /\ tls'.version = peer.version /\ tls'.suite = peer.suite
        /\ tls'.transcript = tr /\ tls'.write = tls.write
        /\ tls'.closed = tls.closed /\ tls'.shut = tls.shut
    BY <1>1, <1>5, <1>6
  <2>3. /\ tls'.suite # "none" =>
             tls'.version = peer.version /\ tls'.suite = peer.suite
        /\ tls'.transcript \in Seq(Words) /\ tls'.transcript # <<>>
        /\ tls'.transcript[1] = "ClientHello"
    BY <1>3, <1>6, <2>2 DEF Words
  <2>4. tls'.pc \in {"flight", "sending", "failed"} /\ tls'.pc # "sending"
    BY <2>2
  <2> QED
    BY <1>1, <2>1, <2>2, <2>3, <2>4, LearnsFlight
<1>7. CASE /\ m \in {"Certificate", "ServerKeyExchange", "CertificateRequest"}
           /\ \/ tls' = [t EXCEPT !.serverCert = TRUE]
              \/ tls' = [t EXCEPT !.point = TRUE]
              \/ tls' = [t EXCEPT !.req = TRUE]
  <2>1. TlsShape'
    <3>1. CASE tls' = [t EXCEPT !.serverCert = TRUE]
      BY <1>1, <1>5, <3>1 DEF TlsShape
    <3>2. CASE tls' = [t EXCEPT !.point = TRUE]
      BY <1>1, <1>5, <3>2 DEF TlsShape
    <3>3. CASE tls' = [t EXCEPT !.req = TRUE]
      BY <1>1, <1>5, <3>3 DEF TlsShape
    <3> QED
      BY <1>7, <3>1, <3>2, <3>3
  <2>2. /\ tls'.pc = "flight" /\ tls'.offered = tls.offered
        /\ tls'.version = tls.version /\ tls'.suite = tls.suite
        /\ tls'.transcript = tr /\ tls'.write = tls.write
        /\ tls'.closed = tls.closed /\ tls'.shut = tls.shut
    BY <1>1, <1>5, <1>7
  <2>3. /\ tls'.suite # "none" =>
             tls'.version = peer.version /\ tls'.suite = peer.suite
        /\ tls'.transcript \in Seq(Words) /\ tls'.transcript # <<>>
        /\ tls'.transcript[1] = "ClientHello"
    BY <1>2, <1>3, <1>7, <2>2 DEF Words
  <2>4. tls'.pc \in {"flight", "sending", "failed"} /\ tls'.pc # "sending"
    BY <2>2
  <2> QED
    BY <1>1, <2>1, <2>2, <2>3, <2>4, LearnsFlight
<1>8. CASE tls' = [t EXCEPT !.pc = "failed"]
  <2>1. TlsShape'
    BY <1>1, <1>5, <1>8 DEF TlsShape
  <2>2. /\ tls'.pc = "failed" /\ tls'.offered = tls.offered
        /\ tls'.version = tls.version /\ tls'.suite = tls.suite
        /\ tls'.write = tls.write
        /\ tls'.closed = tls.closed /\ tls'.shut = tls.shut
    BY <1>1, <1>5, <1>8
  <2> QED
    BY <1>1, <1>2, <2>1, <2>2, LearnsFlight
<1>9. CASE /\ m = "ServerHelloDone" /\ t.suite # "none"
           /\ tls' = [t EXCEPT !.pc = "sending", !.toSend = ClientFlight,
                               !.key = KeyOf(t.suite, t.offered)]
  <2> DEFINE key == KeyOf(t.suite, t.offered)  flight == ClientFlight
  <2>1. key \in Keys
    BY <1>1, <1>5, KeyIsMade DEF TlsShape, Versions
  <2>2. tls' = [t EXCEPT !.pc = "sending", !.toSend = flight, !.key = key]
    BY <1>9
  <2>3. /\ flight \in Seq(FlightNames) /\ flight # <<>>
        /\ \A i \in 1..Len(flight) : flight[i] = "Finished" <=> i = Len(flight)
    BY FlightIsClosed
  <2>4. key = KeyOf(tls.suite, tls.offered)
    BY <1>5
  <2> HIDE DEF key, flight
  <2>5. TlsShape'
    BY <1>1, <1>5, <2>1, <2>2 DEF TlsShape
  <2>6. /\ tls'.pc = "sending" /\ tls'.offered = tls.offered
        /\ tls'.version = tls.version /\ tls'.suite = tls.suite
        /\ tls'.transcript = tr /\ tls'.write = tls.write
        /\ tls'.closed = tls.closed /\ tls'.shut = tls.shut
        /\ tls'.key = key /\ tls'.toSend = flight
    BY <1>1, <1>5, <2>2
  <2>7. /\ tls'.suite # "none" =>
             tls'.version = peer.version /\ tls'.suite = peer.suite
        /\ tls'.transcript \in Seq(Words) /\ tls'.transcript # <<>>
        /\ tls'.transcript[1] = "ClientHello"
    BY <1>2, <1>3, <1>9, <2>6 DEF Words
  <2>8. tls'.suite # "none" /\ tls'.key = KeyOf(tls'.suite, tls'.offered)
    BY <1>5, <1>9, <2>4, <2>6
  <2> QED
    BY <1>1, <2>3, <2>5, <2>6, <2>7, <2>8, LearnsFlight
<1> QED
  BY <1>4, <1>6, <1>7, <1>8, <1>9 DEF HelloDone

-----------------------------------------------------------------------------
(* The driver writes                                                       *)

\* An unsealed record leaves before anything sealed was written.
LEMMA PlainWrites ==
  ASSUME TlsInv, Shapes', Phases', tls.pc \in {"start", "sending"},
         NEW r \in RecordType, outgoing' = Append(outgoing, r), r.seal = NoSeal,
         r.over # <<"close_notify">>, r.type = "handshake" => r.over # <<>>,
         UNCHANGED <<writing, peer, incoming, onWire>>,
         tls'.write = tls.write, tls'.offered = tls.offered
  PROVE  TlsInv'
<1>1. tls.write = 0 /\ tls'.write = 0 /\ peer.expect \in Nat
  BY DEF TlsInv, Phases, Shapes, PeerType
<1>2. /\ Len(outgoing) \in Nat /\ Len(outgoing') = Len(outgoing) + 1
      /\ outgoing'[Len(outgoing')] = r
      /\ \A i \in 1..Len(outgoing) : outgoing'[i] = outgoing[i]
  BY AppendFacts DEF TlsInv, Shapes
<1>3. PeerPhases'
  BY DEF TlsInv, PeerPhases
<1>4. Numbered'
  <2>1. /\ \A i \in 1..Len(outgoing) : ~(Number(i) >= peer.expect)
        /\ \A i \in 1..Len(outgoing') : ~(Number(i)' >= peer.expect)
    BY <1>1, <1>2 DEF Number
  <2>2. \A i \in 1..Len(outgoing) :
          /\ outgoing[i].type = "ccs" => outgoing[i].seal = NoSeal
          /\ outgoing[i].type = "handshake" /\ outgoing[i].seal = NoSeal =>
               outgoing[i].over # <<>>
          /\ outgoing[i].over # <<"close_notify">>
          /\ peer.pc \in {"hello", "flight", "answer"} => outgoing[i].seal = NoSeal
    BY <2>1 DEF TlsInv, Numbered
  <2>3. \A i \in 1..Len(outgoing') : i = Len(outgoing') \/ i \in 1..Len(outgoing)
    BY <1>2
  <2>4. /\ \A w \in TlsWriters : ~(writing[w] > 0)
        /\ peer.pc # "open" /\ Len(onWire) = 0
        /\ peer.pc \in {"hello", "flight", "answer"} => peer.expect = 0
    BY <1>1 DEF TlsInv, Numbered
  <2>5. ASSUME NEW i \in 1..Len(outgoing')
        PROVE  /\ outgoing'[i].type = "ccs" => outgoing'[i].seal = NoSeal
               /\ outgoing'[i].type = "handshake" /\ outgoing'[i].seal = NoSeal =>
                    outgoing'[i].over # <<>>
               /\ outgoing'[i].over # <<"close_notify">>
               /\ peer.pc \in {"hello", "flight", "answer"} =>
                    outgoing'[i].seal = NoSeal
    BY <1>2, <2>2, <2>3
  <2> QED
    BY <1>1, <1>2, <2>1, <2>4, <2>5 DEF Numbered
<1>5. Answers'
  BY <1>1 DEF TlsInv, Answers, Answer
<1> QED
  BY <1>3, <1>4, <1>5 DEF TlsInv

\* A sealed record takes the next number, on the wire and at the server.
LEMMA SealedWrites ==
  ASSUME TlsInv, Shapes', Phases', ~tls.shut,
         NEW type \in {"handshake", "data", "alert"}, NEW over \in Seq(Words),
         Seals(type, over), peer' = peer, incoming' = incoming,
         /\ tls'.write = tls.write + 1 /\ tls'.key = tls.key
         /\ tls'.offered = tls.offered,
         tls.key # "none", peer.pc # "hello",
         over = <<"close_notify">> => tls'.shut /\ tls'.pc = "open",
         \A w \in TlsWriters : writing'[w] > 0 => tls'.pc = "open"
  PROVE  TlsInv'
<1> DEFINE r == TlsRecord(type, over, [key |-> tls.key, seq |-> tls.write])
<1>1. /\ tls.write \in Nat /\ peer.expect \in Nat /\ tls.key \in Keys
      /\ peer.pc \in {"hello", "flight", "answer", "open"} => tls.write >= peer.expect
  <2>1. tls.write \in Nat /\ peer.expect \in Nat /\ Len(outgoing) \in Nat /\ tls.key \in Keys
    BY DEF TlsInv, Shapes, TlsShape, PeerType
  <2> QED
    BY <2>1 DEF TlsInv, Numbered
<1>2. /\ r \in RecordType /\ r.seal = [key |-> tls.key, seq |-> tls.write]
      /\ r.seal # NoSeal /\ r.type # "ccs" /\ r.over = over
  BY <1>1 DEF TlsRecord, RecordType, SealType, NoSeal
<1>3. outgoing' = Append(outgoing, r) /\ onWire' = Append(onWire, tls.write)
  BY DEF Seals
<1> HIDE DEF r
<1>4. /\ Len(outgoing) \in Nat /\ Len(outgoing') = Len(outgoing) + 1
      /\ outgoing'[Len(outgoing')] = r
      /\ \A i \in 1..Len(outgoing) : outgoing'[i] = outgoing[i]
  BY <1>2, <1>3, AppendFacts DEF TlsInv, Shapes
<1>5. /\ Len(onWire) = tls.write /\ Len(onWire') = tls.write + 1
      /\ \A i \in 1..Len(onWire') : onWire'[i] = i - 1
  <2>1. Len(onWire) = tls.write /\ \A i \in 1..Len(onWire) : onWire[i] = i - 1
    BY DEF TlsInv, Numbered
  <2>2. onWire \in Seq(Nat)
    BY DEF TlsInv, Shapes
  <2>3. /\ Len(onWire') = Len(onWire) + 1 /\ Len(onWire) \in Nat
        /\ onWire'[Len(onWire) + 1] = tls.write
        /\ \A i \in 1..Len(onWire) : onWire'[i] = onWire[i]
    BY <1>1, <1>3, <2>2, AppendFacts
  <2>4. ASSUME NEW i \in 1..Len(onWire') PROVE onWire'[i] = i - 1
    <3>1. i = Len(onWire) + 1 \/ i \in 1..Len(onWire)
      BY <2>3
    <3> QED
      BY <1>1, <2>1, <2>3, <3>1
  <2> QED
    BY <2>1, <2>3, <2>4
<1>6. PeerPhases'
  BY DEF TlsInv, PeerPhases
<1>7. Numbered'
  <2>1. /\ \A i \in 1..Len(outgoing) : Number(i)' = Number(i)
        /\ \A i \in 1..Len(outgoing') : i = Len(outgoing') => Number(i)' = tls.write
    <3>1. ASSUME NEW i \in 1..Len(outgoing) PROVE Number(i)' = Number(i)
      BY <1>1, <1>4 DEF Number
    <3>2. ASSUME NEW i \in 1..Len(outgoing'), i = Len(outgoing')
          PROVE  Number(i)' = tls.write
      BY <1>1, <1>4, <3>2 DEF Number
    <3> QED
      BY <3>1, <3>2
  <2>2. \A i \in 1..Len(outgoing') : i = Len(outgoing') \/ i \in 1..Len(outgoing)
    BY <1>4
  <2>3. ASSUME NEW i \in 1..Len(outgoing')
        PROVE  /\ outgoing'[i].type = "ccs" => outgoing'[i].seal = NoSeal
               /\ outgoing'[i].type = "handshake" /\ outgoing'[i].seal = NoSeal =>
                    outgoing'[i].over # <<>>
               /\ outgoing'[i].over = <<"close_notify">> =>
                    i = Len(outgoing') /\ tls'.shut /\ tls'.pc = "open"
    <3>1. CASE i = Len(outgoing')
      BY <1>2, <1>4, <3>1
    <3>2. CASE i \in 1..Len(outgoing)
      BY <1>4, <3>2 DEF TlsInv, Numbered
    <3> QED
      BY <2>2, <3>1, <3>2
  <2>4. ASSUME NEW i \in 1..Len(outgoing'),
               peer.pc \in {"hello", "flight", "answer", "open"}
        PROVE  outgoing'[i].seal = IF Number(i)' >= peer.expect
                                     THEN [key |-> tls'.key, seq |-> Number(i)']
                                     ELSE NoSeal
    <3>1. CASE i = Len(outgoing')
      BY <1>1, <1>2, <1>4, <2>1, <2>4, <3>1
    <3>2. CASE i \in 1..Len(outgoing)
      BY <1>4, <2>1, <2>4, <3>2 DEF TlsInv, Numbered
    <3> QED
      BY <2>2, <3>1, <3>2
  <2>5. /\ peer.pc \in {"hello", "flight", "answer"} =>
             peer.expect = 0 /\ Len(outgoing') >= tls'.write
        /\ peer.pc = "open" =>
             /\ Len(outgoing') = tls'.write - peer.expect
             /\ peer.key = tls'.key /\ tls'.write > 0
    BY <1>1, <1>4, SMTT(30) DEF TlsInv, Numbered
  <2> QED
    BY <1>5, <2>3, <2>4, <2>5 DEF Numbered
<1>8. Answers'
  BY <1>1 DEF TlsInv, Answers, Answer
<1> QED
  BY <1>6, <1>7, <1>8 DEF TlsInv

\* ClientHello.
LEMMA HelloWrites ==
  ASSUME TlsInv, SendHello
  PROVE  TlsInv'
<1> DEFINE tr == <<"ClientHello">>
           r == TlsRecord("handshake", <<"ClientHello">>, NoSeal)
<1>1. /\ tls.pc = "start" /\ tls' = [tls EXCEPT !.pc = "flight", !.transcript = tr]
      /\ outgoing' = Append(outgoing, r)
      /\ writing' = writing /\ peer' = peer /\ incoming' = incoming
      /\ onWire' = onWire
  BY DEF SendHello
<1>2. tr \in Seq(Words) /\ tr # <<>> /\ tr[1] = "ClientHello" /\ tr # <<"close_notify">>
  BY DEF Words
<1>3. r \in RecordType /\ r.seal = NoSeal /\ r.over = tr
  BY DEF TlsRecord, RecordType, NoSeal, SealType, Keys, Words
<1> HIDE DEF tr, r
<1>4. TlsShape
  BY DEF TlsInv, Shapes
<1>5. TlsShape'
  BY <1>1, <1>4 DEF TlsShape
<1>6. /\ tls'.pc = "flight" /\ tls'.transcript = tr /\ tls'.write = tls.write
      /\ tls'.offered = tls.offered /\ tls'.suite = tls.suite /\ tls'.key = tls.key
      /\ tls'.version = tls.version /\ tls'.closed = tls.closed
      /\ tls'.shut = tls.shut
  BY <1>1, <1>4 DEF TlsShape
<1>7. outgoing' \in Seq(RecordType)
  BY <1>1, <1>3, AppendFacts DEF TlsInv, Shapes
<1>8. Shapes'
  BY <1>1, <1>5, <1>7 DEF TlsInv, Shapes
<1>9. Phases'
  BY <1>1, <1>2, <1>6 DEF TlsInv, Phases
<1> QED
  BY <1>1, <1>2, <1>3, <1>6, <1>8, <1>9, PlainWrites

\* A record of the client's flight: its messages, the switch to the keys, and
\* Finished, the first that is sealed.
LEMMA FlightWrites ==
  ASSUME TlsInv, SendFlight
  PROVE  TlsInv'
<1> DEFINE m == Head(tls.toSend)
           rest == Tail(tls.toSend)
           tr == Append(tls.transcript, m)
           over == IF m = "CertificateVerify" THEN tls.transcript ELSE <<m>>
           ccs == TlsRecord("ccs", <<>>, NoSeal)
           msg == TlsRecord("handshake", over, NoSeal)
<1>1. /\ tls.pc = "sending" /\ ~tls.shut
      /\ writing' = writing /\ peer' = peer /\ incoming' = incoming
      /\ \/ /\ m = "ccs" /\ tls' = [tls EXCEPT !.toSend = rest, !.write = 0]
            /\ outgoing' = Append(outgoing, ccs) /\ onWire' = onWire
         \/ /\ m = "Finished"
            /\ tls' = [tls EXCEPT !.toSend = rest, !.pc = "ccs", !.write = 1,
                                  !.transcript = tr]
            /\ Seals("handshake", tls.transcript)
         \/ /\ m \notin {"ccs", "Finished"}
            /\ tls' = [tls EXCEPT !.toSend = rest, !.transcript = tr]
            /\ outgoing' = Append(outgoing, msg) /\ onWire' = onWire
  BY DEF SendFlight
<1>2. TlsShape /\ tls.write = 0
  BY <1>1 DEF TlsInv, Shapes, Phases
<1>3. /\ tls.transcript \in Seq(Words) /\ tls.transcript # <<>>
      /\ tls.transcript[1] = "ClientHello"
      /\ tls.toSend \in Seq(FlightNames) /\ tls.toSend # <<>>
      /\ \A i \in 1..Len(tls.toSend) :
           tls.toSend[i] = "Finished" <=> i = Len(tls.toSend)
  BY <1>1 DEF TlsInv, Phases
<1>4. m \in FlightNames /\ m \in Words
  BY <1>3 DEF FlightNames, Words
<1>5. tr \in Seq(Words) /\ tr # <<>> /\ tr[1] = "ClientHello"
  <2> HIDE DEF m
  <2> QED
    BY <1>3, <1>4
<1>6. /\ over \in Seq(Words) /\ over # <<>> /\ over # <<"close_notify">>
      /\ tls.transcript # <<"close_notify">>
  <2>1. <<m>> # <<"close_notify">> /\ <<m>> # <<>> /\ <<m>> \in Seq(Words)
    <3>1. m # "close_notify"
      BY <1>4 DEF FlightNames
    <3> HIDE DEF m
    <3> QED
      BY <1>4, <3>1
  <2>2. tls.transcript # <<"close_notify">>
    BY <1>3
  <2> QED
    BY <1>3, <2>1, <2>2
<1>7. m # "Finished" =>
        /\ rest \in Seq(FlightNames) /\ rest # <<>>
        /\ \A i \in 1..Len(rest) : rest[i] = "Finished" <=> i = Len(rest)
  <2>1. /\ rest \in Seq(FlightNames) /\ Len(rest) = Len(tls.toSend) - 1
        /\ Len(tls.toSend) \in Nat /\ Len(tls.toSend) > 0 /\ m = tls.toSend[1]
        /\ \A i \in 1..(Len(tls.toSend) - 1) : rest[i] = tls.toSend[i + 1]
    BY <1>3, TailFacts
  <2>2. m # "Finished" => Len(rest) > 0
    BY <1>3, <2>1
  <2> HIDE DEF m, rest
  <2>3. ASSUME NEW i \in 1..Len(rest)
        PROVE  rest[i] = "Finished" <=> i = Len(rest)
    <3>1. i + 1 \in 1..Len(tls.toSend) /\ rest[i] = tls.toSend[i + 1]
      BY <2>1
    <3> QED
      BY <1>3, <2>1, <3>1
  <2> QED
    BY <2>1, <2>2, <2>3
<1>8. /\ ccs \in RecordType /\ ccs.seal = NoSeal /\ ccs.over = <<>>
      /\ ccs.type = "ccs"
      /\ msg \in RecordType /\ msg.seal = NoSeal /\ msg.over = over
  <2>1. <<>> \in Seq(Words) /\ NoSeal \in SealType
    BY DEF NoSeal, SealType, Keys
  <2> HIDE DEF over
  <2> QED
    BY <1>6, <2>1 DEF TlsRecord, RecordType
<1> HIDE DEF m, rest, tr, over, ccs, msg
<1>9. CASE /\ m = "ccs" /\ tls' = [tls EXCEPT !.toSend = rest, !.write = 0]
           /\ outgoing' = Append(outgoing, ccs) /\ onWire' = onWire
  <2>1. TlsShape'
    BY <1>2, <1>9 DEF TlsShape
  <2>2. /\ tls'.pc = "sending" /\ tls'.transcript = tls.transcript
        /\ tls'.write = tls.write /\ tls'.toSend = rest
        /\ tls'.offered = tls.offered /\ tls'.suite = tls.suite
        /\ tls'.key = tls.key /\ tls'.version = tls.version
        /\ tls'.closed = tls.closed /\ tls'.shut = tls.shut
    BY <1>1, <1>2, <1>9 DEF TlsShape
  <2>3. outgoing' \in Seq(RecordType)
    BY <1>8, <1>9, AppendFacts DEF TlsInv, Shapes
  <2>4. Shapes'
    BY <1>1, <1>9, <2>1, <2>3 DEF TlsInv, Shapes
  <2>5. Phases'
    BY <1>1, <1>3, <1>7, <1>9, <2>2 DEF TlsInv, Phases
  <2>6. <<>> # <<"close_notify">>
    OBVIOUS
  <2> QED
    BY <1>1, <1>8, <1>9, <2>2, <2>4, <2>5, <2>6, PlainWrites
<1>10. CASE /\ m = "Finished"
            /\ tls' = [tls EXCEPT !.toSend = rest, !.pc = "ccs", !.write = 1,
                                  !.transcript = tr]
            /\ Seals("handshake", tls.transcript)
  <2>1. TlsShape'
    BY <1>2, <1>10 DEF TlsShape
  <2>2. /\ tls'.pc = "ccs" /\ tls'.transcript = tr
        /\ tls'.write = 1 /\ tls'.write = tls.write + 1
        /\ tls'.offered = tls.offered /\ tls'.suite = tls.suite
        /\ tls'.key = tls.key /\ tls'.version = tls.version
        /\ tls'.closed = tls.closed /\ tls'.shut = tls.shut
    BY <1>1, <1>2, <1>10 DEF TlsShape
  <2>3. /\ tls.suite # "none" /\ tls.key = KeyOf(tls.suite, tls.offered)
        /\ tls.suite = peer.suite /\ tls.version = peer.version
    BY <1>1 DEF TlsInv, Phases
  <2>4. tls.key # "none" /\ peer.pc # "hello" /\ tls.key \in Keys
    <3>1. tls.offered \in Versions
      BY <1>2 DEF TlsShape, Versions
    <3> QED
      BY <2>3, <3>1, KeyIsMade DEF TlsInv, PeerPhases
  <2>5. outgoing' \in Seq(RecordType) /\ onWire' \in Seq(Nat)
    <3> DEFINE e == TlsRecord("handshake", tls.transcript,
                              [key |-> tls.key, seq |-> tls.write])
    <3>1. e \in RecordType
      BY <1>2, <1>3, <2>4 DEF TlsRecord, RecordType, SealType
    <3>2. /\ outgoing' = Append(outgoing, e) /\ onWire' = Append(onWire, tls.write)
          /\ outgoing \in Seq(RecordType) /\ onWire \in Seq(Nat) /\ tls.write \in Nat
      BY <1>2, <1>10 DEF Seals, TlsInv, Shapes
    <3> HIDE DEF e
    <3> QED
      BY <3>1, <3>2, AppendFacts
  <2>6. Shapes'
    BY <1>1, <2>1, <2>5 DEF TlsInv, Shapes
  <2>7. Phases'
    BY <1>1, <1>5, <2>2, <2>3 DEF TlsInv, Phases
  <2>8. \A w \in TlsWriters : writing'[w] > 0 => tls'.pc = "open"
    BY <1>1 DEF TlsInv, Numbered
  <2> QED
    BY <1>1, <1>3, <1>6, <1>10, <2>2, <2>4, <2>6, <2>7, <2>8, SealedWrites
<1>11. CASE /\ m \notin {"ccs", "Finished"}
            /\ tls' = [tls EXCEPT !.toSend = rest, !.transcript = tr]
            /\ outgoing' = Append(outgoing, msg) /\ onWire' = onWire
  <2>1. TlsShape'
    BY <1>2, <1>11 DEF TlsShape
  <2>2. /\ tls'.pc = "sending" /\ tls'.transcript = tr
        /\ tls'.write = tls.write /\ tls'.toSend = rest
        /\ tls'.offered = tls.offered /\ tls'.suite = tls.suite
        /\ tls'.key = tls.key /\ tls'.version = tls.version
        /\ tls'.closed = tls.closed /\ tls'.shut = tls.shut
    BY <1>1, <1>2, <1>11 DEF TlsShape
  <2>3. outgoing' \in Seq(RecordType)
    BY <1>8, <1>11, AppendFacts DEF TlsInv, Shapes
  <2>4. Shapes'
    BY <1>1, <1>11, <2>1, <2>3 DEF TlsInv, Shapes
  <2>5. Phases'
    BY <1>1, <1>5, <1>7, <1>11, <2>2 DEF TlsInv, Phases
  <2> QED
    BY <1>1, <1>6, <1>8, <1>11, <2>2, <2>4, <2>5, PlainWrites
<1> QED
  BY <1>1, <1>9, <1>10, <1>11

\* A step of write() that sends nothing.
LEMMA WritersWait ==
  ASSUME TlsInv, tls' = tls, peer' = peer, outgoing' = outgoing,
         incoming' = incoming, onWire' = onWire,
         writing' \in [TlsWriters -> 0..TlsFragments],
         \A w \in TlsWriters : writing'[w] > 0 => writing[w] > 0 \/ tls.pc = "open"
  PROVE  TlsInv'
<1>1. Shapes' /\ Phases' /\ PeerPhases'
  BY DEF TlsInv, Shapes, TlsShape, Phases, PeerPhases
<1>2. Numbered'
  BY DEF TlsInv, Numbered, Number
<1>3. Answers'
  BY DEF TlsInv, Answers, Answer
<1> QED
  BY <1>1, <1>2, <1>3 DEF TlsInv

\* A record of the session: its key is made and the server has said hello.
LEMMA SessionWrites ==
  ASSUME TlsInv, tls.pc = "open", ~tls.shut, TlsShape',
         NEW type \in {"data", "alert"}, NEW over \in Seq(Words),
         Seals(type, over), peer' = peer, incoming' = incoming,
         writing' \in [TlsWriters -> 0..TlsFragments],
         /\ tls'.write = tls.write + 1 /\ tls'.key = tls.key
         /\ tls'.offered = tls.offered /\ tls'.suite = tls.suite
         /\ tls'.version = tls.version /\ tls'.transcript = tls.transcript
         /\ tls'.pc = "open",
         tls'.closed => tls'.shut,
         over = <<"close_notify">> => tls'.shut
  PROVE  TlsInv'
<1>1. TlsShape /\ tls.write \in Nat /\ tls.write > 0
  BY DEF TlsInv, Shapes, TlsShape, Phases
<1>2. /\ tls.suite # "none" /\ tls.key = KeyOf(tls.suite, tls.offered)
      /\ tls.suite = peer.suite
  BY DEF TlsInv, Phases
<1>3. tls.key # "none" /\ peer.pc # "hello" /\ tls.key \in Keys
  <2>1. tls.offered \in Versions
    BY <1>1 DEF TlsShape, Versions
  <2> QED
    BY <1>2, <2>1, KeyIsMade DEF TlsInv, PeerPhases
<1>4. outgoing' \in Seq(RecordType) /\ onWire' \in Seq(Nat)
  <2> DEFINE e == TlsRecord(type, over, [key |-> tls.key, seq |-> tls.write])
  <2>1. e \in RecordType
    BY <1>1, <1>3 DEF TlsRecord, RecordType, SealType
  <2>2. /\ outgoing' = Append(outgoing, e) /\ onWire' = Append(onWire, tls.write)
        /\ outgoing \in Seq(RecordType) /\ onWire \in Seq(Nat)
    BY DEF Seals, TlsInv, Shapes
  <2> HIDE DEF e
  <2> QED
    BY <1>1, <2>1, <2>2, AppendFacts
<1>5. Shapes'
  BY <1>4 DEF TlsInv, Shapes
<1>6. Phases'
  BY <1>1 DEF TlsInv, Phases
<1> QED
  BY <1>3, <1>5, <1>6, SealedWrites

\* write() starts, and sends its fragments one at a time.
LEMMA FragmentWrites ==
  ASSUME TlsInv, NEW w \in TlsWriters, StartWrite(w) \/ WriteFragment(w)
  PROVE  TlsInv'
<1>1. /\ writing \in [TlsWriters -> 0..TlsFragments] /\ TlsFragments \in Nat
      /\ TlsShape
  BY TlsAssumption DEF TlsInv, Shapes
<1>2. CASE StartWrite(w)
  <2>1. writing' = [writing EXCEPT ![w] = TlsFragments] /\ tls.pc = "open"
    BY <1>2 DEF StartWrite
  <2>2. writing' \in [TlsWriters -> 0..TlsFragments]
    BY <1>1, <2>1
  <2> QED
    BY <1>2, <2>1, <2>2, WritersWait DEF StartWrite
<1>3. CASE WriteFragment(w) /\ tls.shut
  <2>1. writing' = [writing EXCEPT ![w] = 0]
    BY <1>3 DEF WriteFragment
  <2>2. /\ writing' \in [TlsWriters -> 0..TlsFragments]
        /\ \A v \in TlsWriters : writing'[v] > 0 => writing[v] > 0
    BY <1>1, <2>1
  <2> QED
    BY <1>3, <2>2, WritersWait DEF WriteFragment
<1>4. CASE WriteFragment(w) /\ ~tls.shut
  <2>1. /\ writing[w] > 0 /\ writing' = [writing EXCEPT ![w] = writing[w] - 1]
        /\ Seals("data", <<>>) /\ tls' = [tls EXCEPT !.write = tls.write + 1]
        /\ peer' = peer /\ incoming' = incoming
    BY <1>4 DEF WriteFragment
  <2>2. writing' \in [TlsWriters -> 0..TlsFragments]
    BY <1>1, <2>1
  <2>3. tls.pc = "open"
    BY <2>1 DEF TlsInv, Numbered
  <2>4. tls.write + 1 \in Nat
    BY <1>1 DEF TlsShape
  <2>5. TlsShape'
    BY <1>1, <2>1, <2>4 DEF TlsShape
  <2>6. /\ tls'.write = tls.write + 1 /\ tls'.key = tls.key
        /\ tls'.offered = tls.offered /\ tls'.suite = tls.suite
        /\ tls'.version = tls.version /\ tls'.transcript = tls.transcript
        /\ tls'.pc = "open" /\ tls'.closed = tls.closed /\ tls'.shut = tls.shut
    BY <1>1, <2>1, <2>3 DEF TlsShape
  <2>7. <<>> \in Seq(Words) /\ <<>> # <<"close_notify">> /\ (tls.closed => tls.shut)
    BY DEF TlsInv, Phases
  <2> QED
    BY <1>4, <2>1, <2>2, <2>3, <2>5, <2>6, <2>7, SessionWrites
<1> QED
  BY <1>2, <1>3, <1>4

\* close(): close_notify is the last record.
LEMMA CloseWrites ==
  ASSUME TlsInv, CloseTls
  PROVE  TlsInv'
<1>1. TlsShape /\ tls.pc = "open" /\ writing' = writing /\ peer' = peer /\ incoming' = incoming
  BY DEF CloseTls, TlsInv, Shapes
<1>2. CASE tls.shut
  <2>1. tls' = [tls EXCEPT !.closed = TRUE] /\ UNCHANGED <<outgoing, onWire>>
    BY <1>2 DEF CloseTls
  <2>2. TlsShape'
    BY <1>1, <2>1 DEF TlsShape
  <2>3. /\ tls'.write = tls.write /\ tls'.key = tls.key
        /\ tls'.offered = tls.offered /\ tls'.suite = tls.suite
        /\ tls'.version = tls.version /\ tls'.transcript = tls.transcript
        /\ tls'.pc = "open" /\ tls'.shut
    BY <1>1, <1>2, <2>1 DEF TlsShape
  <2>4. Shapes' /\ Phases' /\ PeerPhases'
    BY <1>1, <2>1, <2>2, <2>3 DEF TlsInv, Shapes, Phases, PeerPhases
  <2>5. Numbered'
    BY <1>1, <1>2, <2>1, <2>3 DEF TlsInv, Numbered, Number
  <2>6. Answers'
    BY <1>1, <2>3 DEF TlsInv, Answers, Answer
  <2> QED
    BY <2>4, <2>5, <2>6 DEF TlsInv
<1>3. CASE ~tls.shut
  <2>1. /\ Seals("alert", <<"close_notify">>)
        /\ tls' = [tls EXCEPT !.closed = TRUE, !.shut = TRUE, !.write = tls.write + 1]
    BY <1>3 DEF CloseTls
  <2>2. tls.write + 1 \in Nat
    BY <1>1 DEF TlsShape
  <2>3. TlsShape'
    BY <1>1, <2>1, <2>2, ZenonT(60) DEF TlsShape
  <2>4. /\ tls'.write = tls.write + 1 /\ tls'.key = tls.key
        /\ tls'.offered = tls.offered /\ tls'.suite = tls.suite
        /\ tls'.version = tls.version /\ tls'.transcript = tls.transcript
        /\ tls'.pc = "open" /\ tls'.shut
    BY <1>1, <2>1 DEF TlsShape
  <2>5. <<"close_notify">> \in Seq(Words)
    BY DEF Words
  <2>6. writing' \in [TlsWriters -> 0..TlsFragments]
    BY <1>1 DEF TlsInv, Shapes
  <2> QED
    BY <1>1, <1>3, <2>1, <2>3, <2>4, <2>5, <2>6, SessionWrites
<1> QED
  BY <1>2, <1>3

-----------------------------------------------------------------------------
(* The server                                                              *)

HeaderRecord == TlsRecord("header", <<>>, NoSeal)

\* The records the server makes are records.
LEMMA ServerRecords ==
  /\ HeaderRecord \in RecordType /\ HeaderRecord.type # "handshake"
  /\ NoSeal \in SealType /\ <<>> \in Seq(Words)
  /\ <<"fatal">> \in Seq(Words) /\ <<"warning">> \in Seq(Words)
  /\ <<"close_notify">> \in Seq(Words)
  /\ TlsRecord("ccs", <<>>, NoSeal) \in RecordType
  /\ TlsRecord("alert", <<"fatal">>, NoSeal) \in RecordType
<1>1. NoSeal \in SealType /\ <<>> \in Seq(Words)
  BY DEF NoSeal, SealType, Keys
<1>2. /\ <<"fatal">> \in Seq(Words) /\ <<"warning">> \in Seq(Words)
      /\ <<"close_notify">> \in Seq(Words)
  BY DEF Words
<1> QED
  BY <1>1, <1>2 DEF HeaderRecord, TlsRecord, RecordType

\* A record sent whole is a header and the record.
LEMMA WholeIsTwo ==
  ASSUME NEW a \in RecordType
  PROVE  /\ Whole(a) \in Seq(RecordType) /\ Len(Whole(a)) = 2
         /\ Whole(a)[1] = HeaderRecord /\ Whole(a)[2] = a
BY ServerRecords DEF Whole, HeaderRecord

\* z is q and a, sent whole.
Arrived(z, q, a) ==
  \A i \in 1..Len(z) :
    \/ i \in 1..Len(q) /\ z[i] = q[i]
    \/ z[i] = HeaderRecord \/ z[i] = a

\* What is sent whole comes after what was on its way.
LEMMA WholeArrives ==
  ASSUME NEW q \in Seq(RecordType), NEW a \in RecordType
  PROVE  /\ q \o Whole(a) \in Seq(RecordType)
         /\ Arrived(q \o Whole(a), q, a)
<1> DEFINE z == q \o Whole(a)
<1>1. /\ Whole(a) \in Seq(RecordType) /\ Len(Whole(a)) = 2
      /\ Whole(a)[1] = HeaderRecord /\ Whole(a)[2] = a
  BY WholeIsTwo
<1>2. /\ q \o Whole(a) \in Seq(RecordType)
      /\ Len(q \o Whole(a)) = Len(q) + Len(Whole(a))
      /\ \A i \in 1..Len(q) + Len(Whole(a)) :
           (q \o Whole(a))[i] = IF i <= Len(q) THEN q[i] ELSE Whole(a)[i - Len(q)]
  BY <1>1, ConcatProperties, Zenon
<1> HIDE DEF z
<1>3. /\ z \in Seq(RecordType) /\ Len(z) = Len(q) + 2 /\ Len(q) \in Nat
      /\ \A i \in 1..Len(q) + 2 :
           z[i] = IF i <= Len(q) THEN q[i] ELSE Whole(a)[i - Len(q)]
  BY <1>1, <1>2 DEF z
<1>4. ASSUME NEW i \in 1..Len(z)
      PROVE  \/ i \in 1..Len(q) /\ z[i] = q[i]
             \/ z[i] = HeaderRecord \/ z[i] = a
  <2>1. i <= Len(q) \/ i - Len(q) = 1 \/ i - Len(q) = 2
    BY <1>3
  <2> QED
    BY <1>1, <1>3, <2>1
<1> QED
  BY <1>3, <1>4 DEF Arrived, z

\* Without the first of them the records keep their numbers.
LEMMA HeadLeaves ==
  ASSUME outgoing \in Seq(RecordType), outgoing # <<>>, outgoing' = Tail(outgoing),
         tls.write \in Nat, tls'.write = tls.write
  PROVE  /\ outgoing' \in Seq(RecordType) /\ Len(outgoing') = Len(outgoing) - 1
         /\ Len(outgoing) \in Nat /\ Len(outgoing) > 0
         /\ \A i \in 1..Len(outgoing') :
              /\ i + 1 \in 2..Len(outgoing) /\ i + 1 \in 1..Len(outgoing)
              /\ outgoing'[i] = outgoing[i + 1] /\ Number(i)' = Number(i + 1)
              /\ i + 1 = Len(outgoing) => i = Len(outgoing')
<1>1. /\ outgoing' \in Seq(RecordType) /\ Len(outgoing') = Len(outgoing) - 1
      /\ Len(outgoing) \in Nat /\ Len(outgoing) > 0
      /\ \A i \in 1..(Len(outgoing) - 1) : outgoing'[i] = outgoing[i + 1]
  BY TailFacts
<1>2. ASSUME NEW i \in 1..Len(outgoing')
      PROVE  /\ i + 1 \in 2..Len(outgoing) /\ i + 1 \in 1..Len(outgoing)
             /\ outgoing'[i] = outgoing[i + 1] /\ Number(i)' = Number(i + 1)
             /\ i + 1 = Len(outgoing) => i = Len(outgoing')
  <2>1. /\ i + 1 \in 2..Len(outgoing) /\ i + 1 \in 1..Len(outgoing)
        /\ outgoing'[i] = outgoing[i + 1] /\ Number(i)' = Number(i + 1)
    BY <1>1 DEF Number
  <2>2. i + 1 = Len(outgoing) => i = Len(outgoing')
    <3> DEFINE n == Len(outgoing)  l == Len(outgoing')
    <3>1. n \in Nat /\ l = n - 1 /\ i \in 1..l
      BY <1>1
    <3> HIDE DEF n, l
    <3>2. i + 1 = n => i = l
      BY <3>1
    <3> QED
      BY <3>2 DEF n, l
  <2> QED
    BY <2>1, <2>2
<1> QED
  BY <1>1, <1>2

\* The server takes the first of the records on their way to it: each of the
\* others keeps its number.
LEMMA ServerTakesRecord ==
  ASSUME TlsInv, outgoing # <<>>, outgoing' = Tail(outgoing),
         tls' = tls, writing' = writing, onWire' = onWire,
         peer'.pc \in {"hello", "flight", "answer", "open"} =>
           \A i \in 2..Len(outgoing) :
             outgoing[i].seal = IF Number(i) >= peer'.expect
                                  THEN [key |-> tls.key, seq |-> Number(i)]
                                  ELSE NoSeal,
         peer'.pc \in {"hello", "flight", "answer"} =>
           peer'.expect = 0 /\ Len(outgoing) > tls.write,
         peer'.pc = "open" =>
           /\ Len(outgoing) - 1 = tls.write - peer'.expect
           /\ peer'.key = tls.key /\ tls.write > 0
  PROVE  outgoing' \in Seq(RecordType) /\ Numbered'
<1>1. /\ outgoing' \in Seq(RecordType) /\ Len(outgoing') = Len(outgoing) - 1
      /\ Len(outgoing) \in Nat /\ Len(outgoing) > 0
      /\ \A i \in 1..Len(outgoing') :
           /\ i + 1 \in 2..Len(outgoing) /\ i + 1 \in 1..Len(outgoing)
           /\ outgoing'[i] = outgoing[i + 1] /\ Number(i)' = Number(i + 1)
           /\ i + 1 = Len(outgoing) => i = Len(outgoing')
  BY HeadLeaves DEF TlsInv, Shapes, TlsShape
<1>2. ASSUME NEW i \in 1..Len(outgoing')
      PROVE  /\ i + 1 \in 2..Len(outgoing) /\ i + 1 \in 1..Len(outgoing)
             /\ outgoing'[i] = outgoing[i + 1] /\ Number(i)' = Number(i + 1)
             /\ i + 1 = Len(outgoing) => i = Len(outgoing')
  BY <1>1
<1>3. /\ \A w \in TlsWriters : writing'[w] > 0 => tls'.pc = "open"
      /\ Len(onWire') = tls'.write /\ \A i \in 1..Len(onWire') : onWire'[i] = i - 1
  BY DEF TlsInv, Numbered
<1>4. ASSUME NEW i \in 1..Len(outgoing')
      PROVE  /\ outgoing'[i].type = "ccs" => outgoing'[i].seal = NoSeal
             /\ outgoing'[i].type = "handshake" /\ outgoing'[i].seal = NoSeal =>
                  outgoing'[i].over # <<>>
             /\ outgoing'[i].over = <<"close_notify">> =>
                  i = Len(outgoing') /\ tls'.shut /\ tls'.pc = "open"
  <2>1. \A j \in 1..Len(outgoing) :
          /\ outgoing[j].type = "ccs" => outgoing[j].seal = NoSeal
          /\ outgoing[j].type = "handshake" /\ outgoing[j].seal = NoSeal =>
               outgoing[j].over # <<>>
          /\ outgoing[j].over = <<"close_notify">> =>
               j = Len(outgoing) /\ tls.shut /\ tls.pc = "open"
    BY DEF TlsInv, Numbered
  <2>2. i + 1 \in 1..Len(outgoing) /\ outgoing'[i] = outgoing[i + 1]
    BY <1>2
  <2> QED
    BY <1>2, <2>1, <2>2
<1>5. ASSUME NEW i \in 1..Len(outgoing'),
             peer'.pc \in {"hello", "flight", "answer", "open"}
      PROVE  outgoing'[i].seal = IF Number(i)' >= peer'.expect
                                   THEN [key |-> tls'.key, seq |-> Number(i)']
                                   ELSE NoSeal
  BY <1>2, <1>5
<1>6. /\ peer'.pc \in {"hello", "flight", "answer"} =>
             peer'.expect = 0 /\ Len(outgoing') >= tls'.write
      /\ peer'.pc = "open" =>
           /\ Len(outgoing') = tls'.write - peer'.expect
           /\ peer'.key = tls'.key /\ tls'.write > 0
  <2>1. Len(outgoing) > tls.write => Len(outgoing) - 1 >= tls.write
    BY <1>1 DEF TlsInv, Shapes, TlsShape
  <2> QED
    BY <1>1, <2>1
<1> QED
  BY <1>1, <1>3, <1>4, <1>5, <1>6 DEF Numbered

\* No answer is on its way before the server has come to its end.
LEMMA NothingAnswered ==
  ASSUME TlsInv, peer.pc \notin {"open", "closed"}
  PROVE  \A i \in 1..Len(incoming) :
           ~(incoming[i].type = "handshake" /\ incoming[i].seal # NoSeal)
BY DEF TlsInv, Answers, Answer

\* A record that the server seals, or does not.
LEMMA HeadSeal ==
  ASSUME TlsInv, peer.pc \in {"answer", "open"}, outgoing # <<>>
  PROVE  /\ Head(outgoing) = outgoing[1] /\ outgoing[1] \in RecordType
         /\ Len(outgoing) \in Nat /\ 1 \in 1..Len(outgoing)
         /\ Number(1) = tls.write - Len(outgoing)
         /\ peer.key # "none" /\ peer.key \in Keys
         /\ outgoing[1].seal = NoSeal => Number(1) < peer.expect
         /\ outgoing[1].seal # NoSeal =>
              /\ Number(1) >= peer.expect /\ tls.write > 0
              /\ outgoing[1].seal = [key |-> tls.key, seq |-> Number(1)]
<1>1. /\ Head(outgoing) = outgoing[1] /\ outgoing[1] \in RecordType
      /\ Len(outgoing) \in Nat /\ 1 \in 1..Len(outgoing)
  BY TailFacts DEF TlsInv, Shapes
<1>2. /\ tls.write \in Nat /\ peer.expect \in Nat /\ tls.offered \in Versions
      /\ peer.version \in Versions /\ peer.key \in Keys
  BY DEF TlsInv, Shapes, TlsShape, PeerType, Versions
<1>3. Number(1) = tls.write - Len(outgoing) /\ Number(1) \in Int
  BY <1>1, <1>2 DEF Number
<1>4. peer.key # "none"
  BY <1>2, KeyIsMade DEF TlsInv, PeerPhases
<1>5. outgoing[1].seal = IF Number(1) >= peer.expect
                           THEN [key |-> tls.key, seq |-> Number(1)] ELSE NoSeal
  BY <1>1 DEF TlsInv, Numbered
<1>6. Number(1) >= peer.expect => tls.write > 0
  BY <1>1, <1>2, <1>3
<1>7. tls.write > 0 => tls.key # "none"
  BY <1>2, KeyIsMade DEF TlsInv, Phases
<1>8. Number(1) >= peer.expect => outgoing[1].seal # NoSeal
  BY <1>5, <1>6, <1>7 DEF NoSeal
<1> QED
  BY <1>1, <1>2, <1>3, <1>4, <1>5, <1>6, <1>8

\* The server's hello: the first it knows, while nothing sealed was written.
LEMMA ServerHellos ==
  ASSUME TlsInv, PeerHello
  PROVE  TlsInv'
<1>1. PICK version \in Versions, suite \in {"ecdhe", "rsa", "unknown"},
           req \in BOOLEAN, strict \in BOOLEAN :
        \E flight \in Flights(suite, req) :
          /\ tls.offered = "1.0" => version = "1.0"
          /\ peer' = [peer EXCEPT !.pc = "flight", !.version = version, !.suite = suite,
               !.strict = strict, !.flight = flight,
               !.transcript = <<"ClientHello">> \o flight,
               !.key = KeyOf(suite, IF strict THEN tls.offered ELSE version)]
  BY Zenon DEF PeerHello
<1>2. PICK flight \in Flights(suite, req) :
        peer' = [peer EXCEPT !.pc = "flight", !.version = version, !.suite = suite,
                   !.strict = strict, !.flight = flight,
                   !.transcript = <<"ClientHello">> \o flight,
                   !.key = KeyOf(suite, IF strict THEN tls.offered ELSE version)]
  BY <1>1
<1>3. /\ peer.pc = "hello" /\ outgoing # <<>> /\ outgoing' = Tail(outgoing)
      /\ tls' = tls /\ writing' = writing /\ incoming' = incoming /\ onWire' = onWire
  BY DEF PeerHello
<1>4. /\ peer.suite = "none" /\ peer.bytes = 0 /\ tls.suite = "none"
      /\ peer \in PeerType /\ TlsShape /\ tls.offered \in Versions
  BY <1>3 DEF TlsInv, Shapes, TlsShape, Phases, PeerPhases, Versions
<1>5. tls.write = 0 /\ tls.pc # "open"
  BY <1>4 DEF TlsInv, Shapes, TlsShape, Phases
<1>6. flight \in Seq(Words) /\ Len(flight) \in Nat
  <2> DEFINE kx == IF suite = "ecdhe" THEN <<"ServerKeyExchange">> ELSE <<>>
             ask == IF req THEN <<"CertificateRequest">> ELSE <<>>
             done == <<"ServerHelloDone">>
  <2>1. /\ <<>> \in Seq(Words) /\ <<"CertificateRequest">> \in Seq(Words)
        /\ <<"ServerKeyExchange">> \in Seq(Words) /\ <<"Other">> \in Seq(Words)
        /\ <<"Certificate">> \in Seq(Words) /\ done \in Seq(Words)
    BY DEF Words
  <2>2. /\ <<"ServerHello", "Certificate">> \in Seq(Words)
        /\ <<"ServerHello", "ServerKeyExchange">> \in Seq(Words)
    BY DEF Words
  <2>3. kx \in Seq(Words) /\ ask \in Seq(Words)
    BY <2>1
  <2>4. ASSUME NEW a \in Seq(Words), NEW b \in Seq(Words)
        PROVE  a \o b \in Seq(Words)
    OBVIOUS
  <2>5. \/ flight = <<"ServerHello", "Certificate">> \o kx \o ask \o done
        \/ flight = <<"ServerHello", "Certificate">> \o done
        \/ flight = <<"ServerHello", "ServerKeyExchange">> \o done
        \/ flight = <<"Certificate">> \o done
        \/ flight = <<"ServerKeyExchange">> \/ flight = <<"Other">>
    BY <1>2 DEF Flights
  <2>6. /\ <<"ServerHello", "Certificate">> \o kx \o ask \in Seq(Words)
        /\ <<"ServerHello", "Certificate">> \o done \in Seq(Words)
        /\ <<"ServerHello", "ServerKeyExchange">> \o done \in Seq(Words)
        /\ <<"Certificate">> \o done \in Seq(Words)
    <3> HIDE DEF kx, ask, done
    <3> QED
      BY <2>1, <2>2, <2>3
  <2>7. <<"ServerHello", "Certificate">> \o kx \o ask \o done \in Seq(Words)
    BY <2>1, <2>4, <2>6, Zenon
  <2>8. flight \in Seq(Words)
    <3> HIDE DEF kx, ask, done
    <3> QED
      BY <2>1, <2>5, <2>6, <2>7, Zenon
  <2> QED
    BY <2>8
<1>7. <<"ClientHello">> \o flight \in Seq(Words)
  <2>1. <<"ClientHello">> \in Seq(Words)
    BY DEF Words
  <2> QED
    BY <1>6, <2>1
<1> DEFINE tr == <<"ClientHello">> \o flight
           key == KeyOf(suite, IF strict THEN tls.offered ELSE version)
<1>8. key \in Keys
  BY <1>4, KeyIsMade
<1>9. /\ peer' \in PeerType
      /\ peer'.pc = "flight" /\ peer'.version = version /\ peer'.suite = suite
      /\ peer'.strict = strict /\ peer'.flight = flight /\ peer'.key = key
      /\ peer'.bytes = 0 /\ peer'.expect = peer.expect
  <2>1. peer' = [peer EXCEPT !.pc = "flight", !.version = version, !.suite = suite,
                   !.strict = strict, !.flight = flight, !.transcript = tr,
                   !.key = key]
    BY <1>2
  <2>2. tr \in Seq(Words)
    BY <1>7
  <2> HIDE DEF tr, key
  <2> QED
    BY <1>4, <1>6, <1>8, <2>1, <2>2 DEF PeerType
<1>10. peer.expect = 0 /\ Len(outgoing) \in Nat /\ Len(outgoing) > 0
  BY <1>3, TailFacts DEF TlsInv, Shapes, Numbered
<1>11. outgoing' \in Seq(RecordType) /\ Numbered'
  <2>1. \A i \in 2..Len(outgoing) :
          outgoing[i].seal = IF Number(i) >= peer'.expect
                               THEN [key |-> tls.key, seq |-> Number(i)]
                               ELSE NoSeal
    <3>1. \A i \in 2..Len(outgoing) : i \in 1..Len(outgoing)
      BY <1>10
    <3> QED
      BY <1>3, <1>9, <3>1 DEF TlsInv, Numbered
  <2> QED
    BY <1>3, <1>5, <1>9, <1>10, <2>1, ServerTakesRecord
<1>12. Shapes'
  BY <1>3, <1>4, <1>6, <1>9, <1>11 DEF TlsInv, Shapes, TlsShape
<1>13. Phases'
  BY <1>3, <1>4, <1>5 DEF TlsInv, Phases
<1>14. PeerPhases'
  BY <1>3, <1>9 DEF PeerPhases
<1>15. Answers'
  BY <1>3, NothingAnswered DEF Answers, Answer
<1> QED
  BY <1>11, <1>12, <1>13, <1>14, <1>15 DEF TlsInv

\* What the server sends while it has not come to its end, or in its session,
\* is not an answer.
LEMMA ServerSends ==
  ASSUME TlsInv, NEW r \in RecordType,
         ~(r.type = "handshake" /\ r.seal # NoSeal),
         tls' = tls, peer' \in PeerType, peer'.bytes <= 2 * Len(peer'.flight),
         writing' = writing, outgoing' = outgoing, onWire' = onWire,
         incoming' \in Seq(RecordType),
         \A i \in 1..Len(incoming') :
           \/ i \in 1..Len(incoming) /\ incoming'[i] = incoming[i]
           \/ incoming'[i] = HeaderRecord \/ incoming'[i] = r,
         /\ peer'.version = peer.version /\ peer'.suite = peer.suite
         /\ peer'.strict = peer.strict /\ peer'.flight = peer.flight
         /\ peer'.key = peer.key /\ peer'.transcript = peer.transcript
         /\ peer'.expect = peer.expect,
         \/ peer'.pc = peer.pc /\ (peer.pc = "hello" => peer'.bytes = peer.bytes)
         \/ peer.pc = "flight" /\ peer'.pc = "answer"
         \/ peer.pc \in {"hello", "flight", "answer"} /\ peer'.pc = "stalled"
  PROVE  TlsInv'
<1>1. Shapes'
  BY DEF TlsInv, Shapes, TlsShape
<1>2. Phases'
  BY DEF TlsInv, Phases
<1>3. PeerPhases'
  BY DEF TlsInv, PeerPhases
<1>4. Numbered'
  BY DEF TlsInv, Numbered, Number
<1>5. Answers'
  <2>1. ASSUME NEW i \in 1..Len(incoming'), incoming'[i].type = "handshake",
               incoming'[i].seal # NoSeal
        PROVE  i \in 1..Len(incoming) /\ incoming'[i] = incoming[i]
    BY <2>1, ServerRecords
  <2>2. ASSUME NEW i \in 1..Len(incoming'), incoming'[i].type = "handshake",
               incoming'[i].seal # NoSeal
        PROVE  /\ tls.write > 0 /\ incoming'[i].seal.key = peer.key
               /\ \/ peer.pc = "open" /\ incoming'[i].over = peer.transcript
                  \/ peer.pc = "closed" /\ peer.key # tls.key
    BY <2>1, <2>2 DEF TlsInv, Answers, Answer
  <2> QED
    BY <2>2 DEF Answers, Answer
<1> QED
  BY <1>1, <1>2, <1>3, <1>4, <1>5 DEF TlsInv

\* A record of the server's flight.
LEMMA FlightArrives ==
  ASSUME TlsInv, NEW n \in Cuts, PeerFlight(n)
  PROVE  TlsInv'
<1> DEFINE left == 2 * Len(peer.flight) - peer.bytes
           m == IF n < left THEN n ELSE left
           over == [i \in 1..m |-> "byte"]
           r == TlsRecord("handshake", over, NoSeal)
           b == peer.bytes + m
           pc == IF m = left THEN "answer" ELSE "flight"
<1>1. /\ peer.pc = "flight" /\ incoming = <<>> /\ incoming' = Whole(r)
      /\ peer' = [peer EXCEPT !.bytes = b, !.pc = pc]
      /\ tls' = tls /\ writing' = writing /\ outgoing' = outgoing /\ onWire' = onWire
  BY DEF PeerFlight
<1>2. peer \in PeerType /\ peer.bytes <= 2 * Len(peer.flight)
  BY DEF TlsInv, Shapes
<1>3. m \in Nat /\ b \in Nat /\ b <= 2 * Len(peer.flight)
  <2>1. peer.bytes \in Nat /\ Len(peer.flight) \in Nat /\ n \in Nat
    BY <1>2, TlsAssumption DEF PeerType
  <2> QED
    BY <1>2, <2>1
<1>4. r \in RecordType /\ r.seal = NoSeal
  <2>1. "byte" \in Words
    BY DEF Words
  <2>2. over \in Seq(Words)
    <3> HIDE DEF m
    <3> QED
      BY <1>3, <2>1
  <2> HIDE DEF over
  <2> QED
    BY <2>2, ServerRecords DEF TlsRecord, RecordType
<1> HIDE DEF left, m, over, r, b
<1>5. pc \in {"flight", "answer"}
  OBVIOUS
<1> HIDE DEF pc
<1>6. /\ peer' \in PeerType /\ peer'.bytes = b /\ peer'.pc = pc
      /\ peer'.version = peer.version /\ peer'.suite = peer.suite
      /\ peer'.strict = peer.strict /\ peer'.flight = peer.flight
      /\ peer'.key = peer.key /\ peer'.transcript = peer.transcript
      /\ peer'.expect = peer.expect
  BY <1>1, <1>2, <1>3, <1>5 DEF PeerType
<1>7. /\ incoming' \in Seq(RecordType)
      /\ \A i \in 1..Len(incoming') : incoming'[i] = HeaderRecord \/ incoming'[i] = r
  <2>1. \A i \in 1..2 : i = 1 \/ i = 2
    OBVIOUS
  <2> QED
    BY <1>1, <1>4, <2>1, WholeIsTwo
<1> QED
  BY <1>1, <1>3, <1>4, <1>5, <1>6, <1>7, ServerSends

\* A record of the server's session.
LEMMA SessionArrives ==
  ASSUME TlsInv, NEW type \in {"data", "alert"}, NEW over \in Seq(Words),
         PeerSends(type, over)
  PROVE  TlsInv'
<1> DEFINE seal == [key |-> peer.key, seq |-> peer.seq]
           r == TlsRecord(type, over, seal)
<1>1. /\ peer.pc = "open" /\ incoming' = Whole(r)
      /\ peer' = [peer EXCEPT !.seq = peer.seq + 1]
      /\ tls' = tls /\ writing' = writing /\ outgoing' = outgoing /\ onWire' = onWire
  BY DEF PeerSends
<1>2. peer \in PeerType /\ peer.bytes <= 2 * Len(peer.flight)
  BY DEF TlsInv, Shapes
<1>3. /\ peer' \in PeerType /\ peer'.bytes = peer.bytes /\ peer'.pc = peer.pc
      /\ peer'.version = peer.version /\ peer'.suite = peer.suite
      /\ peer'.strict = peer.strict /\ peer'.flight = peer.flight
      /\ peer'.key = peer.key /\ peer'.transcript = peer.transcript
      /\ peer'.expect = peer.expect
  <2>1. peer.seq + 1 \in Nat
    BY <1>2 DEF PeerType
  <2> QED
    BY <1>1, <1>2, <2>1 DEF PeerType
<1>4. r \in RecordType /\ r.type # "handshake"
  <2>1. seal \in SealType
    BY <1>2 DEF PeerType, SealType
  <2> HIDE DEF seal
  <2> QED
    BY <2>1 DEF TlsRecord, RecordType
<1> HIDE DEF r
<1>5. /\ incoming' \in Seq(RecordType)
      /\ \A i \in 1..Len(incoming') : incoming'[i] = HeaderRecord \/ incoming'[i] = r
  <2>1. \A i \in 1..2 : i = 1 \/ i = 2
    OBVIOUS
  <2> QED
    BY <1>1, <1>4, <2>1, WholeIsTwo
<1> QED
  BY <1>1, <1>2, <1>3, <1>4, <1>5, ServerSends

\* The server stops, in the middle of a record or with an alert.
LEMMA ServerStalls ==
  ASSUME TlsInv, PeerStalls
  PROVE  TlsInv'
<1> DEFINE r == TlsRecord("alert", <<"fatal">>, NoSeal)
<1>1. /\ peer.pc \in {"hello", "flight", "answer"}
      /\ peer' = [peer EXCEPT !.pc = "stalled"]
      /\ tls' = tls /\ writing' = writing /\ outgoing' = outgoing /\ onWire' = onWire
      /\ \/ incoming' = incoming
         \/ incoming' = incoming \o <<HeaderRecord>>
         \/ incoming' = incoming \o Whole(r)
  BY DEF PeerStalls, HeaderRecord
<1>2. /\ peer \in PeerType /\ peer.bytes <= 2 * Len(peer.flight)
      /\ incoming \in Seq(RecordType)
  BY DEF TlsInv, Shapes
<1>3. /\ peer' \in PeerType /\ peer'.bytes = peer.bytes /\ peer'.pc = "stalled"
      /\ peer'.version = peer.version /\ peer'.suite = peer.suite
      /\ peer'.strict = peer.strict /\ peer'.flight = peer.flight
      /\ peer'.key = peer.key /\ peer'.transcript = peer.transcript
      /\ peer'.expect = peer.expect
  BY <1>1, <1>2 DEF PeerType
<1>4. r \in RecordType /\ r.type # "handshake"
  BY ServerRecords DEF TlsRecord
<1> HIDE DEF r
<1>5. /\ incoming' \in Seq(RecordType)
      /\ \A i \in 1..Len(incoming') :
           \/ i \in 1..Len(incoming) /\ incoming'[i] = incoming[i]
           \/ incoming'[i] = HeaderRecord \/ incoming'[i] = r
  <2>1. CASE incoming' = incoming
    BY <1>2, <2>1
  <2>2. CASE incoming' = incoming \o <<HeaderRecord>>
    <3>1. HeaderRecord \in RecordType
      BY ServerRecords
    <3> QED
      BY <1>2, <2>2, <3>1
  <2>3. CASE incoming' = incoming \o Whole(r)
    <3>1. /\ incoming \o Whole(r) \in Seq(RecordType)
          /\ Arrived(incoming \o Whole(r), incoming, r)
      BY <1>2, <1>4, WholeArrives, Zenon
    <3>2. incoming' \in Seq(RecordType) /\ Arrived(incoming', incoming, r)
      BY <2>3, <3>1, Zenon
    <3> QED
      BY <3>2 DEF Arrived
  <2> QED
    BY <1>1, <2>1, <2>2, <2>3
<1> QED
  BY <1>1, <1>2, <1>3, <1>4, <1>5, ServerSends

\* The server never finds a record of the session out of turn.
LEMMA ServerReads ==
  ASSUME TlsInv, PeerReads
  PROVE  TlsInv'
<1>1. /\ peer.pc = "open" /\ outgoing # <<>> /\ outgoing' = Tail(outgoing)
      /\ tls' = tls /\ writing' = writing /\ incoming' = incoming /\ onWire' = onWire
  BY DEF PeerReads
<1>2. /\ peer \in PeerType /\ peer.expect \in Nat /\ tls.write \in Nat
      /\ incoming \in Seq(RecordType)
  BY DEF TlsInv, Shapes, TlsShape, PeerType
<1>3. /\ Len(outgoing) = tls.write - peer.expect
      /\ peer.key = tls.key /\ tls.write > 0
  BY <1>1 DEF TlsInv, Numbered
<1>4. /\ Head(outgoing) = outgoing[1] /\ 1 \in 1..Len(outgoing) /\ Len(outgoing) \in Nat
      /\ Number(1) = tls.write - Len(outgoing)
  BY <1>1, HeadSeal
<1>5. Number(1) = peer.expect
  BY <1>2, <1>3, <1>4
<1>6. outgoing[1].seal = [key |-> tls.key, seq |-> Number(1)]
  <2>1. outgoing[1].seal = IF Number(1) >= peer.expect
                             THEN [key |-> tls.key, seq |-> Number(1)] ELSE NoSeal
    BY <1>1, <1>4 DEF TlsInv, Numbered
  <2> QED
    BY <1>2, <1>5, <2>1
<1>7. peer' = [peer EXCEPT !.expect = peer.expect + 1]
  BY <1>3, <1>4, <1>5, <1>6 DEF PeerReads
<1>8. /\ peer' \in PeerType /\ peer'.bytes = peer.bytes /\ peer'.pc = "open"
      /\ peer'.version = peer.version /\ peer'.suite = peer.suite
      /\ peer'.strict = peer.strict /\ peer'.flight = peer.flight
      /\ peer'.key = peer.key /\ peer'.transcript = peer.transcript
      /\ peer'.expect = peer.expect + 1
  <2>1. peer.expect + 1 \in Nat
    BY <1>2
  <2> QED
    BY <1>1, <1>2, <1>7, <2>1 DEF PeerType
<1>9. ASSUME NEW i \in 2..Len(outgoing)
      PROVE  outgoing[i].seal = IF Number(i) >= peer'.expect
                                  THEN [key |-> tls.key, seq |-> Number(i)]
                                  ELSE NoSeal
  <2>1. i \in 1..Len(outgoing) /\ Number(i) >= peer.expect + 1 /\ Number(i) >= peer.expect
    <3> DEFINE len == Len(outgoing)
               next == tls.write
               expect == peer.expect
    <3>1. /\ len \in Nat /\ next \in Nat /\ expect \in Nat /\ i \in 2..len
          /\ len = next - expect
      BY <1>2, <1>3, <1>4
    <3>2. Number(i) = (next - 1) - (len - i)
      BY DEF Number
    <3> HIDE DEF len, next, expect
    <3>3. i \in 1..len /\ (next - 1) - (len - i) >= expect + 1 /\ (next - 1) - (len - i) >= expect
      BY ONLY <3>1
    <3> QED
      BY <3>2, <3>3 DEF len, expect
  <2> QED
    BY <1>1, <1>8, <2>1 DEF TlsInv, Numbered
<1>10. Len(outgoing) - 1 = tls.write - peer'.expect
  BY <1>2, <1>3, <1>4, <1>8
<1>11. outgoing' \in Seq(RecordType) /\ Numbered'
  BY <1>1, <1>3, <1>8, <1>9, <1>10, ServerTakesRecord
<1>12. Shapes'
  BY <1>1, <1>8, <1>11 DEF TlsInv, Shapes, TlsShape
<1>13. Phases'
  BY <1>1, <1>8 DEF TlsInv, Phases
<1>14. PeerPhases'
  BY <1>1, <1>8 DEF TlsInv, PeerPhases
<1>15. Answers'
  BY <1>1, <1>8 DEF TlsInv, Answers, Answer
<1> QED
  BY <1>11, <1>12, <1>13, <1>14, <1>15 DEF TlsInv

\* What the server answers to the client's Finished, or to what it takes for it.
LEMMA AnswerArrives ==
  ASSUME TlsInv, NEW over \in Seq(Words), peer.pc = "answer", peer.key \in Keys,
         incoming' = incoming \o Whole(TlsRecord("ccs", <<>>, NoSeal)) \o
                       Whole(TlsRecord("handshake", over, [key |-> peer.key, seq |-> 0])),
         tls' = tls, tls.write > 0, peer'.key = peer.key,
         \/ peer'.pc = "open" /\ peer'.transcript = over
         \/ peer'.pc = "closed" /\ peer.key # tls.key
  PROVE  incoming' \in Seq(RecordType) /\ Answers'
<1> DEFINE c == TlsRecord("ccs", <<>>, NoSeal)
           seal == [key |-> peer.key, seq |-> 0]
           r == TlsRecord("handshake", over, seal)
           q == incoming \o Whole(c)
           z == incoming'
<1>1. c \in RecordType /\ c.type # "handshake"
  BY ServerRecords DEF TlsRecord
<1>2. r \in RecordType /\ r.seal.key = peer.key /\ r.over = over
  <2>1. seal \in SealType /\ seal.key = peer.key
    BY DEF SealType
  <2> HIDE DEF seal
  <2> QED
    BY <2>1 DEF TlsRecord, RecordType
<1>3. q = incoming \o Whole(c) /\ z = q \o Whole(r) /\ incoming \in Seq(RecordType)
  BY DEF TlsInv, Shapes
<1> HIDE DEF c, seal, r, z
<1>4. q \in Seq(RecordType) /\ Arrived(q, incoming, c)
  BY <1>1, <1>3, WholeArrives, Zenon
<1> HIDE DEF q
<1>5. z \in Seq(RecordType) /\ Arrived(z, q, r)
  <2>1. q \o Whole(r) \in Seq(RecordType) /\ Arrived(q \o Whole(r), q, r)
    BY <1>2, <1>4, WholeArrives, Zenon
  <2> QED
    BY <1>3, <2>1, Zenon
<1>6. ASSUME NEW i \in 1..Len(z), z[i].type = "handshake", z[i].seal # NoSeal
      PROVE  z[i] = r
  <2>1. z[i] # HeaderRecord /\ z[i] # c
    BY <1>1, <1>6, ServerRecords
  <2>2. ASSUME i \in 1..Len(q), z[i] = q[i] PROVE FALSE
    <3>1. i \in 1..Len(incoming) /\ z[i] = incoming[i]
      BY <1>4, <2>1, <2>2 DEF Arrived
    <3> QED
      BY <1>6, <3>1, NothingAnswered
  <2> QED
    BY <1>5, <1>6, <2>1, <2>2 DEF Arrived
<1>7. Answers'
  BY <1>2, <1>6 DEF Answers, Answer, z
<1> QED
  BY <1>5, <1>7 DEF z

\* A server whose key differs finishes all the same.
LEMMA ServerFinishesBlind ==
  ASSUME TlsInv, PeerFinishesBlind
  PROVE  TlsInv'
<1>1. /\ peer.pc = "answer" /\ peer.key # tls.key /\ outgoing # <<>>
      /\ Head(outgoing).seal # NoSeal /\ outgoing' = Tail(outgoing)
      /\ peer' = [peer EXCEPT !.pc = "closed"]
      /\ incoming' = incoming \o Whole(TlsRecord("ccs", <<>>, NoSeal)) \o
           Whole(TlsRecord("handshake", peer.transcript, [key |-> peer.key, seq |-> 0]))
      /\ tls' = tls /\ writing' = writing /\ onWire' = onWire
  BY DEF PeerFinishesBlind
<1>2. peer \in PeerType /\ peer.transcript \in Seq(Words)
  BY DEF TlsInv, Shapes, PeerType
<1>3. /\ peer' \in PeerType /\ peer'.pc = "closed"
      /\ peer'.bytes = peer.bytes /\ peer'.version = peer.version
      /\ peer'.suite = peer.suite /\ peer'.strict = peer.strict
      /\ peer'.flight = peer.flight /\ peer'.key = peer.key
  BY <1>1, <1>2 DEF PeerType
<1>4. peer.key \in Keys /\ tls.write > 0
  BY <1>1, HeadSeal
<1>5. incoming' \in Seq(RecordType) /\ Answers'
  BY <1>1, <1>2, <1>3, <1>4, AnswerArrives
<1>6. outgoing' \in Seq(RecordType) /\ Numbered'
  BY <1>1, <1>3, ServerTakesRecord
<1>7. Shapes'
  BY <1>1, <1>3, <1>5, <1>6 DEF TlsInv, Shapes, TlsShape
<1>8. Phases'
  BY <1>1, <1>3 DEF TlsInv, Phases
<1>9. PeerPhases'
  BY <1>1, <1>3 DEF TlsInv, PeerPhases
<1> QED
  BY <1>5, <1>6, <1>7, <1>8, <1>9 DEF TlsInv

\* The server takes the client's flight, and its Finished.
LEMMA ServerAnswers ==
  ASSUME TlsInv, PeerTakes
  PROVE  TlsInv'
<1> DEFINE r == Head(outgoing)
           t == peer.transcript
           verify == Len(r.over) > 1
           m == IF verify THEN "CertificateVerify" ELSE r.over[1]
           tr == Append(t, m)
           signed == verify => r.over = t
           fin == Append(t, "Finished")
           bad == TlsRecord("alert", <<"fatal">>, NoSeal)
<1>1. /\ peer.pc = "answer" /\ outgoing # <<>> /\ outgoing' = Tail(outgoing)
      /\ tls' = tls /\ writing' = writing /\ onWire' = onWire
      /\ \/ r.type = "ccs" /\ peer' = peer /\ incoming' = incoming
         \/ /\ r.type = "handshake" /\ r.seal = NoSeal
            /\ peer' = [peer EXCEPT !.transcript = tr, !.signed = signed]
            /\ incoming' = incoming
         \/ /\ r.seal = [key |-> peer.key, seq |-> 0]
            /\ peer' = [peer EXCEPT !.pc = "open", !.expect = 1, !.seq = 1,
                                    !.transcript = fin]
            /\ incoming' = incoming \o Whole(TlsRecord("ccs", <<>>, NoSeal)) \o
                 Whole(TlsRecord("handshake", fin, [key |-> peer.key, seq |-> 0]))
         \/ /\ peer' = [peer EXCEPT !.pc = "closed"]
            /\ incoming' = incoming \o Whole(bad)
  BY DEF PeerTakes
<1>2. /\ peer \in PeerType /\ t \in Seq(Words) /\ incoming \in Seq(RecordType)
      /\ tls.write \in Nat /\ peer.expect = 0 /\ Len(outgoing) >= tls.write
  BY <1>1 DEF TlsInv, Shapes, TlsShape, PeerType, Numbered
<1>3. /\ r = outgoing[1] /\ r \in RecordType /\ 1 \in 1..Len(outgoing)
      /\ Len(outgoing) \in Nat /\ Number(1) = tls.write - Len(outgoing)
      /\ peer.key # "none" /\ peer.key \in Keys
      /\ r.seal = NoSeal => Number(1) < peer.expect
      /\ r.seal # NoSeal =>
           /\ Number(1) >= peer.expect /\ tls.write > 0
           /\ r.seal = [key |-> tls.key, seq |-> Number(1)]
  BY <1>1, HeadSeal
<1>4. /\ r.type = "ccs" => r.seal = NoSeal
      /\ r.type = "handshake" /\ r.seal = NoSeal => r.over # <<>>
  BY <1>3 DEF TlsInv, Numbered
<1>5. \A i \in 2..Len(outgoing) :
        /\ i \in 1..Len(outgoing)
        /\ outgoing[i].seal = IF Number(i) >= peer.expect
                                THEN [key |-> tls.key, seq |-> Number(i)]
                                ELSE NoSeal
  <2>1. \A i \in 2..Len(outgoing) : i \in 1..Len(outgoing)
    BY <1>3
  <2> QED
    BY <1>1, <2>1 DEF TlsInv, Numbered
<1>6. r.seal = NoSeal => Len(outgoing) > tls.write
  BY <1>2, <1>3
<1>7. t \in Seq(Words) => fin \in Seq(Words)
  BY DEF Words
<1>8. r.type = "handshake" /\ r.seal = NoSeal => tr \in Seq(Words) /\ signed \in BOOLEAN
  <2>1. ASSUME r.type = "handshake", r.seal = NoSeal PROVE m \in Words
    <3>1. r.over \in Seq(Words) /\ r.over # <<>>
      BY <1>3, <1>4, <2>1 DEF RecordType
    <3>2. "CertificateVerify" \in Words
      BY DEF Words
    <3> HIDE DEF r
    <3>3. r.over[1] \in Words
      BY <3>1
    <3> QED
      BY <3>2, <3>3
  <2> HIDE DEF m, t
  <2> QED
    BY <1>2, <2>1
<1> HIDE DEF r, t, m, tr, signed, fin, bad
<1>9. CASE r.type = "ccs" /\ peer' = peer /\ incoming' = incoming
  <2>1. Len(outgoing) > tls.write
    BY <1>4, <1>6, <1>9
  <2>2. outgoing' \in Seq(RecordType) /\ Numbered'
    BY <1>1, <1>2, <1>5, <1>9, <2>1, ServerTakesRecord
  <2>3. Shapes'
    BY <1>1, <1>9, <2>2 DEF TlsInv, Shapes, TlsShape
  <2>4. Phases' /\ PeerPhases'
    BY <1>1, <1>9 DEF TlsInv, Phases, PeerPhases
  <2>5. Answers'
    BY <1>1, <1>9 DEF TlsInv, Answers, Answer
  <2> QED
    BY <2>2, <2>3, <2>4, <2>5 DEF TlsInv
<1>10. CASE /\ r.type = "handshake" /\ r.seal = NoSeal
            /\ peer' = [peer EXCEPT !.transcript = tr, !.signed = signed]
            /\ incoming' = incoming
  <2>1. Len(outgoing) > tls.write
    BY <1>6, <1>10
  <2>2. /\ peer' \in PeerType /\ peer'.pc = "answer"
        /\ peer'.bytes = peer.bytes /\ peer'.version = peer.version
        /\ peer'.suite = peer.suite /\ peer'.strict = peer.strict
        /\ peer'.flight = peer.flight /\ peer'.key = peer.key
        /\ peer'.expect = peer.expect
    BY <1>1, <1>2, <1>8, <1>10 DEF PeerType
  <2>3. outgoing' \in Seq(RecordType) /\ Numbered'
    BY <1>1, <1>2, <1>5, <2>1, <2>2, ServerTakesRecord
  <2>4. Shapes'
    BY <1>1, <1>10, <2>2, <2>3 DEF TlsInv, Shapes, TlsShape
  <2>5. Phases'
    BY <1>1, <2>2 DEF TlsInv, Phases
  <2>6. PeerPhases'
    BY <1>1, <2>2 DEF TlsInv, PeerPhases
  <2>7. Answers'
    BY <1>1, <1>10, NothingAnswered DEF Answers, Answer
  <2> QED
    BY <2>3, <2>4, <2>5, <2>6, <2>7 DEF TlsInv
<1>11. CASE /\ r.seal = [key |-> peer.key, seq |-> 0]
            /\ peer' = [peer EXCEPT !.pc = "open", !.expect = 1, !.seq = 1,
                                    !.transcript = fin]
            /\ incoming' = incoming \o Whole(TlsRecord("ccs", <<>>, NoSeal)) \o
                 Whole(TlsRecord("handshake", fin, [key |-> peer.key, seq |-> 0]))
  <2>1. /\ peer' \in PeerType /\ peer'.pc = "open" /\ peer'.transcript = fin
        /\ peer'.bytes = peer.bytes /\ peer'.version = peer.version
        /\ peer'.suite = peer.suite /\ peer'.strict = peer.strict
        /\ peer'.flight = peer.flight /\ peer'.key = peer.key
        /\ peer'.expect = 1
    BY <1>2, <1>7, <1>11 DEF PeerType
  <2>2. r.seal # NoSeal
    BY <1>3, <1>11 DEF NoSeal
  <2>3. tls.write > 0 /\ peer.key = tls.key /\ Number(1) = 0
    BY <1>3, <1>11, <2>2
  <2>4. Len(outgoing) = tls.write
    BY <1>2, <1>3, <2>3
  <2>5. ASSUME NEW i \in 2..Len(outgoing)
        PROVE  outgoing[i].seal = IF Number(i) >= peer'.expect
                                    THEN [key |-> tls.key, seq |-> Number(i)]
                                    ELSE NoSeal
    <3>1. Number(i) >= 1 /\ Number(i) >= peer.expect
      BY <1>2, <1>3, <2>4 DEF Number
    <3> QED
      BY <1>5, <2>1, <3>1
  <2>6. Len(outgoing) - 1 = tls.write - peer'.expect
    BY <2>1, <2>4
  <2>7. outgoing' \in Seq(RecordType) /\ Numbered'
    BY <1>1, <2>1, <2>3, <2>5, <2>6, ServerTakesRecord
  <2>8. incoming' \in Seq(RecordType) /\ Answers'
    BY <1>1, <1>2, <1>3, <1>7, <1>11, <2>1, <2>3, AnswerArrives
  <2>9. Shapes'
    BY <1>1, <2>1, <2>7, <2>8 DEF TlsInv, Shapes, TlsShape
  <2>10. Phases'
    BY <1>1, <2>1 DEF TlsInv, Phases
  <2>11. PeerPhases'
    BY <1>1, <2>1 DEF TlsInv, PeerPhases
  <2> QED
    BY <2>7, <2>8, <2>9, <2>10, <2>11 DEF TlsInv
<1>12. CASE peer' = [peer EXCEPT !.pc = "closed"] /\ incoming' = incoming \o Whole(bad)
  <2>1. /\ peer' \in PeerType /\ peer'.pc = "closed"
        /\ peer'.bytes = peer.bytes /\ peer'.version = peer.version
        /\ peer'.suite = peer.suite /\ peer'.strict = peer.strict
        /\ peer'.flight = peer.flight /\ peer'.key = peer.key
    BY <1>2, <1>12 DEF PeerType
  <2>2. outgoing' \in Seq(RecordType) /\ Numbered'
    BY <1>1, <2>1, ServerTakesRecord
  <2>3. bad \in RecordType /\ bad.type # "handshake"
    BY ServerRecords DEF TlsRecord, bad
  <2> DEFINE z == incoming'
  <2>4. z = incoming \o Whole(bad)
    BY <1>12
  <2> HIDE DEF z
  <2>5. z \in Seq(RecordType) /\ Arrived(z, incoming, bad)
    <3>1. /\ incoming \o Whole(bad) \in Seq(RecordType)
          /\ Arrived(incoming \o Whole(bad), incoming, bad)
      BY <1>2, <2>3, WholeArrives, Zenon
    <3> QED
      BY <2>4, <3>1, Zenon
  <2>6. \A i \in 1..Len(z) : ~(z[i].type = "handshake" /\ z[i].seal # NoSeal)
    BY <1>1, <2>3, <2>5, NothingAnswered, ServerRecords DEF Arrived
  <2>7. Answers' /\ incoming' \in Seq(RecordType)
    BY <2>5, <2>6 DEF Answers, Answer, z
  <2>8. Shapes'
    BY <1>1, <2>1, <2>2, <2>7 DEF TlsInv, Shapes, TlsShape
  <2>9. Phases'
    BY <1>1, <2>1 DEF TlsInv, Phases
  <2>10. PeerPhases'
    BY <1>1, <2>1 DEF TlsInv, PeerPhases
  <2> QED
    BY <2>2, <2>7, <2>8, <2>9, <2>10 DEF TlsInv
<1> QED
  BY <1>1, <1>9, <1>10, <1>11, <1>12

-----------------------------------------------------------------------------
(* The theorems                                                            *)

\* The invariant holds at first.
LEMMA TlsInitially ==
  ASSUME TlsInit
  PROVE  TlsInv
<1>1. PICK offered \in {"1.0", "1.2"}, cert \in BOOLEAN :
        tls = [pc |-> "start", offered |-> offered, cert |-> cert,
               version |-> "1.0", suite |-> "none", req |-> FALSE,
               serverCert |-> FALSE, point |-> FALSE, key |-> "none",
               transcript |-> <<>>, hsBuf |-> 0, reading |-> "none",
               toSend |-> <<>>, write |-> 0, read |-> 0,
               closed |-> FALSE, shut |-> FALSE]
  BY DEF TlsInit
<1>2. TlsShape /\ tls.pc = "start" /\ tls.write = 0 /\ tls.suite = "none" /\ ~tls.closed
  BY <1>1 DEF TlsShape, Keys, Versions
<1>3. writing \in [TlsWriters -> 0..TlsFragments] /\ \A w \in TlsWriters : writing[w] = 0
  BY TlsAssumption DEF TlsInit
<1>4. /\ peer \in PeerType /\ peer.pc = "hello" /\ peer.suite = "none"
      /\ peer.bytes = 0 /\ peer.flight = <<>> /\ peer.expect = 0
  <2>1. <<>> \in Seq(Words)
    OBVIOUS
  <2> DEFINE none == <<>>
  <2>2. peer = [pc |-> "hello", version |-> "1.0", suite |-> "none",
                strict |-> TRUE, flight |-> none, bytes |-> 0, key |-> "none",
                transcript |-> none, signed |-> TRUE, expect |-> 0, seq |-> 0]
    BY DEF TlsInit
  <2>3. none \in Seq(Words) /\ none = <<>>
    BY <2>1
  <2> HIDE DEF none
  <2> QED
    BY <2>2, <2>3 DEF PeerType, Keys, Versions
<1>5. outgoing = <<>> /\ incoming = <<>> /\ onWire = <<>>
  BY DEF TlsInit
<1>6. Shapes
  BY <1>2, <1>3, <1>4, <1>5 DEF Shapes
<1>7. Phases /\ PeerPhases
  BY <1>2, <1>4 DEF Phases, PeerPhases
<1>8. Numbered
  BY <1>2, <1>3, <1>4, <1>5 DEF Numbered
<1>9. Answers
  BY <1>5 DEF Answers
<1> QED
  BY <1>6, <1>7, <1>8, <1>9 DEF TlsInv

\* Every step keeps it.
LEMMA TlsSteps ==
  ASSUME TlsInv, [TlsNext]_tlsVars
  PROVE  TlsInv'
<1>1. CASE DriverStep
  <2>1. CASE SendHello
    BY <2>1, HelloWrites
  <2>2. CASE ReadHeader
    BY <2>2, PlainReads
  <2>3. CASE FlightMessage
    BY <2>3, FlightReads
  <2>4. CASE SendFlight
    BY <2>4, FlightWrites
  <2>5. ASSUME NEW r, Buffer(r) \/ ReadCcs(r) \/ ReadFinished(r) \/ ReadAppRecord(r)
        PROVE  TlsInv'
    BY <2>5, PlainReads, FinishedReads
  <2> QED
    BY <1>1, <2>1, <2>2, <2>3, <2>4, <2>5 DEF DriverStep
<1>2. CASE Timeout
  BY <1>2, PlainReads
<1>3. CASE CloseTls
  BY <1>3, CloseWrites
<1>4. ASSUME NEW w \in TlsWriters, StartWrite(w) \/ WriteFragment(w)
      PROVE  TlsInv'
  BY <1>4, FragmentWrites
<1>5. CASE PeerHello
  BY <1>5, ServerHellos
<1>6. ASSUME NEW n \in Cuts, PeerFlight(n)
      PROVE  TlsInv'
  BY <1>6, FlightArrives
<1>7. CASE PeerTakes
  BY <1>7, ServerAnswers
<1>8. CASE PeerFinishesBlind
  BY <1>8, ServerFinishesBlind
<1>9. CASE PeerReads
  BY <1>9, ServerReads
<1>10. CASE PeerStalls
  BY <1>10, ServerStalls
<1>11. CASE PeerSends("data", <<>>)
  <2>1. <<>> \in Seq(Words)
    OBVIOUS
  <2> QED
    BY <1>11, <2>1, SessionArrives
<1>12. CASE PeerSends("alert", <<"close_notify">>)
  BY <1>12, ServerRecords, SessionArrives
<1>13. CASE PeerSends("alert", <<"warning">>)
  BY <1>13, ServerRecords, SessionArrives
<1>14. CASE UNCHANGED tlsVars
  <2>1. /\ tls' = tls /\ writing' = writing /\ peer' = peer
        /\ outgoing' = outgoing /\ incoming' = incoming /\ onWire' = onWire
    BY <1>14 DEF tlsVars
  <2>2. writing' \in [TlsWriters -> 0..TlsFragments]
    BY <2>1 DEF TlsInv, Shapes
  <2> QED
    BY <2>1, <2>2, WritersWait
<1> QED
  BY <1>1, <1>2, <1>3, <1>4, <1>5, <1>6, <1>7, <1>8, <1>9, <1>10, <1>11, <1>12,
     <1>13, <1>14 DEF TlsNext

\* The invariant of every state.
THEOREM TlsInvariant == TlsSpec => []TlsInv
<1>1. TlsInit => TlsInv
  BY TlsInitially
<1>2. TlsInv /\ [TlsNext]_tlsVars => TlsInv'
  BY TlsSteps
<1> QED
  BY <1>1, <1>2, PTL DEF TlsSpec

\* The variables of the driver, the callers and the server keep their types.
THEOREM TlsTypesCorrect == TlsSpec => []TlsTypeOK
<1>1. TlsInv => TlsTypeOK
  BY DEF TlsInv, Shapes, TlsShape, Phases, TlsTypeOK
<1> QED
  BY <1>1, TlsInvariant, PTL

\* tlsConnect() returns only when both sides made the same keys and saw the
\* same handshake, whatever the server's flight was and however it was cut.
THEOREM HandshakeAgrees == TlsSpec => []AgreedWhenOpen
<1>1. TlsInv => AgreedWhenOpen
  <2> SUFFICES ASSUME TlsInv PROVE AgreedWhenOpen
    OBVIOUS
  <2>1. tls.pc = "open" =>
          /\ peer.key = tls.key /\ peer.transcript = tls.transcript
          /\ peer.version = tls.version /\ peer.suite = tls.suite
    BY DEF TlsInv, Phases, Numbered
  <2>2. tls.pc \in {"ccs", "finished"} /\ peer.strict /\ peer.flight # <<>> =>
          peer.key = tls.key
    BY DEF TlsInv, Phases, PeerPhases
  <2> QED
    BY <2>1, <2>2 DEF AgreedWhenOpen
<1> QED
  BY <1>1, TlsInvariant, PTL

\* Sealed records reach the wire, and the server, in turn, whoever writes, and
\* none follows close_notify.
THEOREM RecordsInTurn == TlsSpec => []SealedInTurn
<1>1. TlsInv => SealedInTurn
  <2> SUFFICES ASSUME TlsInv PROVE SealedInTurn
    OBVIOUS
  <2>1. onWire = [i \in DOMAIN onWire |-> i - 1]
    <3>1. onWire \in Seq(Nat) /\ \A i \in 1..Len(onWire) : onWire[i] = i - 1
      BY DEF TlsInv, Shapes, Numbered
    <3>2. onWire = [i \in 1..Len(onWire) |-> onWire[i]] /\ DOMAIN onWire = 1..Len(onWire)
      BY <3>1
    <3> QED
      BY <3>1, <3>2, Zenon
  <2>2. \A i \in DOMAIN outgoing :
          outgoing[i].over = <<"close_notify">> => i = Len(outgoing)
    <3>1. DOMAIN outgoing = 1..Len(outgoing)
      BY DEF TlsInv, Shapes
    <3> QED
      BY <3>1 DEF TlsInv, Numbered
  <2>3. peer.pc # "bad record"
    BY DEF TlsInv, Shapes, PeerType
  <2> QED
    BY <2>1, <2>2, <2>3 DEF SealedInTurn
<1> QED
  BY <1>1, TlsInvariant, PTL

-----------------------------------------------------------------------------
(* RpTransport: readFrame() returns the frames that the device sent.       *)

RpTyped ==
  /\ sock \in [ws : {"none", "open", "closing", "closed", "failed"}, held : BOOLEAN,
               closed : BOOLEAN, wrote : Nat]
  /\ inbox \in [came : Nat, taken : Nat, wait : Nat]
  /\ frame \in [pc : {"idle", "magic", "length", "body"}, got : Seq(Nat),
                result : {"none", "closed", "magic"}]

\* the bytes of frame i before its body, and those of the body
HeadBytes == Magic + LenBytes
BodyBytes(i) == Offsets[i + 1] - (Offsets[i] + HeadBytes)

\* A read of n bytes from position p on is over, or waits for its bytes.
ReadsFrom(b, p, n) ==
  \/ b.wait = 0 /\ b.taken = p + n
  \/ b.wait = n /\ b.taken = p

\* Where readFrame() stands in the stream: between two frames, or at one of
\* the three reads of the next frame.
FramePlace(f, b) ==
  LET i == Len(f.got) + 1 IN
  /\ i \in DOMAIN Offsets
  /\ \A j \in DOMAIN f.got : f.got[j] = Offsets[j + 1]
  /\ f.result # "magic" /\ b.taken <= b.came /\ b.came <= Total
  /\ f.pc = "idle" => b.wait = 0 /\ (f.result = "none" => b.taken = Offsets[i])
  /\ f.pc # "idle" => i \in Frames
  /\ f.pc = "magic" => ReadsFrom(b, Offsets[i], Magic)
  /\ f.pc = "length" => ReadsFrom(b, Offsets[i] + Magic, LenBytes)
  /\ f.pc = "body" => ReadsFrom(b, Offsets[i] + HeadBytes, BodyBytes(i))

\* The inductive invariant of RpTransport.
RpInv == RpTyped /\ FramePlace(frame, inbox)

\* Frames follow each other: the body of each has no negative length, and the
\* length field at its end tells it.
LEMMA FramesFollow ==
  /\ Offsets \in Seq(Nat) /\ Len(Offsets) \in Nat \ {0} /\ DOMAIN Offsets = 1..Len(Offsets)
  /\ Magic \in Nat \ {0} /\ LenBytes \in Nat \ {0} /\ Total \in Nat
  /\ \A i \in DOMAIN Offsets : Offsets[i] \in Nat
  /\ \A i \in Frames : /\ i \in DOMAIN Offsets /\ i + 1 \in DOMAIN Offsets /\ BodyBytes(i) \in Nat
                       /\ LengthAt(Offsets[i] + HeadBytes) = BodyBytes(i)
<1>1. /\ Offsets \in Seq(Nat) /\ Offsets # <<>> /\ Offsets[1] = 0
      /\ Magic \in Nat \ {0} /\ LenBytes \in Nat \ {0}
      /\ \A i, j \in DOMAIN Offsets : i < j => Offsets[i] + Magic + LenBytes <= Offsets[j]
  BY RpTransportAssumption
<1>2. Len(Offsets) \in Nat \ {0} /\ DOMAIN Offsets = 1..Len(Offsets)
  BY <1>1
<1>3. \A i \in DOMAIN Offsets : Offsets[i] \in Nat
  BY <1>1, <1>2
<1>4. Total \in Nat
  BY <1>2, <1>3 DEF Total
<1>5. ASSUME NEW i \in Frames
      PROVE  /\ i \in DOMAIN Offsets /\ i + 1 \in DOMAIN Offsets /\ BodyBytes(i) \in Nat
             /\ LengthAt(Offsets[i] + HeadBytes) = BodyBytes(i)
  <2>1. i \in DOMAIN Offsets /\ i + 1 \in DOMAIN Offsets /\ i < i + 1 /\ i \in Nat
    BY <1>2 DEF Frames
  <2>2. /\ Offsets[i] \in Nat /\ Offsets[i + 1] \in Nat
        /\ Offsets[i] + Magic + LenBytes <= Offsets[i + 1]
    BY <1>1, <1>3, <2>1
  <2>3. BodyBytes(i) \in Nat
    BY <1>1, <2>2, SMTT(30) DEF BodyBytes, HeadBytes
  <2> DEFINE p == Offsets[i] + HeadBytes
             Q(j) == j \in Frames /\ p = Offsets[j] + Magic + LenBytes
  <2>4. p = Offsets[i] + Magic + LenBytes
    BY <1>1, <2>2 DEF HeadBytes
  <2>5. ASSUME NEW j \in Frames, p = Offsets[j] + Magic + LenBytes PROVE j = i
    <3>1. j \in DOMAIN Offsets /\ Offsets[j] \in Nat /\ j \in Nat
      BY <1>2, <1>3 DEF Frames
    <3>2. Offsets[j] = Offsets[i]
      BY <1>1, <2>2, <2>4, <2>5, <3>1, SMTT(30)
    <3>3. ~(i < j) /\ ~(j < i)
      BY <1>1, <2>1, <2>2, <3>1, <3>2, SMTT(30)
    <3> QED
      BY <2>1, <3>1, <3>3
  <2>6. (CHOOSE j \in Frames : p = Offsets[j] + Magic + LenBytes) = i
    BY <2>4, <2>5
  <2>7. LengthAt(p) = Offsets[i + 1] - p
    BY <2>4, <2>6 DEF LengthAt
  <2> QED
    BY <2>1, <2>3, <2>7 DEF BodyBytes
<1> QED
  BY <1>1, <1>2, <1>3, <1>4, <1>5

\* Nothing is read when a transport is made.
LEMMA RpStarts == RpInit => RpInv
<1> SUFFICES ASSUME RpInit PROVE RpInv
  OBVIOUS
<1>1. /\ sock = [ws |-> "none", held |-> FALSE, closed |-> FALSE, wrote |-> 0]
      /\ inbox = [came |-> 0, taken |-> 0, wait |-> 0]
      /\ frame = [pc |-> "idle", got |-> <<>>, result |-> "none"]
  BY DEF RpInit
<1>2. RpTyped
  <2>1. sock \in [ws : {"none", "open", "closing", "closed", "failed"}, held : BOOLEAN,
                  closed : BOOLEAN, wrote : Nat]
    BY <1>1, Zenon
  <2>2. <<>> \in Seq(Nat)
    OBVIOUS
  <2> QED
    BY <1>1, <2>1, <2>2 DEF RpTyped
<1>3. FramePlace(frame, inbox)
  <2>1. Len(<<>>) = 0 /\ DOMAIN <<>> = {}
    OBVIOUS
  <2>2. Offsets[1] = 0 /\ 1 \in DOMAIN Offsets /\ 0 <= Total
    BY FramesFollow, RpTransportAssumption
  <2> QED
    BY <1>1, <2>1, <2>2 DEF FramePlace
<1> QED
  BY <1>2, <1>3 DEF RpInv

\* A byte more for a read that waits: it gets its bytes when they are all there.
LEMMA DrainKeeps ==
  ASSUME NEW f, NEW b \in [came : Nat, taken : Nat, wait : Nat], NEW n \in Nat,
         FramePlace(f, b), b.came + n <= Total, f.got \in Seq(Nat)
  PROVE  /\ DrainRp([b EXCEPT !.came = @ + n]) \in [came : Nat, taken : Nat, wait : Nat]
         /\ FramePlace(f, DrainRp([b EXCEPT !.came = @ + n]))
<1> DEFINE a == [b EXCEPT !.came = @ + n]
           i == Len(f.got) + 1
<1>1. /\ a \in [came : Nat, taken : Nat, wait : Nat] /\ a.came = b.came + n
      /\ a.taken = b.taken /\ a.wait = b.wait
  OBVIOUS
<1>2. FramePlace(f, a)
  BY <1>1, FramesFollow DEF FramePlace, ReadsFrom
<1> HIDE DEF a
<1>3. CASE ~(a.wait > 0 /\ a.came - a.taken >= a.wait)
  BY <1>1, <1>2, <1>3 DEF DrainRp, a
<1>4. CASE a.wait > 0 /\ a.came - a.taken >= a.wait
  <2> DEFINE c == [came |-> a.came, taken |-> a.taken + a.wait, wait |-> 0]
  <2>1. DrainRp(a) = c
    BY <1>1, <1>4 DEF DrainRp
  <2>2. c \in [came : Nat, taken : Nat, wait : Nat] /\ c.taken <= c.came
    BY <1>1, <1>4
  <2>3. f.pc # "idle"
    BY <1>2, <1>4 DEF FramePlace
  <2>4. /\ f.pc = "magic" => ReadsFrom(c, Offsets[i], Magic)
        /\ f.pc = "length" => ReadsFrom(c, Offsets[i] + Magic, LenBytes)
        /\ f.pc = "body" => ReadsFrom(c, Offsets[i] + HeadBytes, BodyBytes(i))
    BY <1>2, <1>1, <1>4 DEF FramePlace, ReadsFrom
  <2>5. FramePlace(f, c)
    BY <1>2, <2>2, <2>3, <2>4 DEF FramePlace
  <2> QED
    BY <2>1, <2>2, <2>5 DEF a
<1> QED
  BY <1>3, <1>4

\* A read of n bytes from where the reader stands: its bytes, or a wait.
LEMMA ReadBegins ==
  ASSUME RpTyped, inbox.wait = 0, inbox.taken <= inbox.came, NEW n \in Nat, ~sock.closed
  PROVE  /\ ReadExactRp(n) \in [came : Nat, taken : Nat, wait : Nat]
         /\ ReadExactRp(n).came = inbox.came /\ ReadExactRp(n).taken <= inbox.came
         /\ ReadsFrom(ReadExactRp(n), inbox.taken, n)
<1>1. inbox \in [came : Nat, taken : Nat, wait : Nat]
  BY DEF RpTyped
<1>2. CASE inbox.came - inbox.taken >= n
  <2>1. ReadExactRp(n) = [inbox EXCEPT !.taken = @ + n]
    BY <1>2 DEF ReadExactRp
  <2> QED
    BY <1>1, <1>2, <2>1 DEF ReadsFrom
<1>3. CASE ~(inbox.came - inbox.taken >= n)
  <2>1. ReadExactRp(n) = [inbox EXCEPT !.wait = n]
    BY <1>3 DEF ReadExactRp
  <2> QED
    BY <1>1, <1>3, <2>1 DEF ReadsFrom
<1> QED
  BY <1>2, <1>3

\* readExact() for the next part of a frame.
LEMMA AskKeeps ==
  ASSUME RpInv, inbox.wait = 0, Len(frame.got) + 1 \in Frames, NEW pc, NEW n \in Nat, Ask(pc, n),
         \/ pc = "magic" /\ n = Magic /\ inbox.taken = Offsets[Len(frame.got) + 1]
         \/ pc = "length" /\ n = LenBytes /\ inbox.taken = Offsets[Len(frame.got) + 1] + Magic
         \/ /\ pc = "body" /\ n = BodyBytes(Len(frame.got) + 1)
            /\ inbox.taken = Offsets[Len(frame.got) + 1] + HeadBytes
  PROVE  RpInv'
<1> DEFINE i == Len(frame.got) + 1
<1>1. RpTyped /\ FramePlace(frame, inbox)
  BY DEF RpInv
<1>2. /\ i \in DOMAIN Offsets /\ \A j \in DOMAIN frame.got : frame.got[j] = Offsets[j + 1]
      /\ frame.result # "magic" /\ inbox.taken <= inbox.came /\ inbox.came <= Total
  BY <1>1 DEF FramePlace
<1>3. inbox' = ReadExactRp(n) /\ UNCHANGED sock
  BY DEF Ask
<1>4. CASE sock.closed
  <2>1. inbox' = inbox
    BY <1>3, <1>4 DEF ReadExactRp
  <2>2. frame' = [pc |-> "idle", got |-> frame.got, result |-> "closed"]
    BY <1>1, <1>4 DEF Ask, RpTyped
  <2>3. RpTyped'
    BY <1>1, <1>3, <2>1, <2>2 DEF RpTyped
  <2>4. FramePlace(frame', inbox')
    BY <1>2, <2>1, <2>2 DEF FramePlace
  <2> QED
    BY <2>3, <2>4 DEF RpInv
<1>5. CASE ~sock.closed
  <2>1. /\ inbox' \in [came : Nat, taken : Nat, wait : Nat]
        /\ inbox'.came = inbox.came /\ inbox'.taken <= inbox'.came
        /\ ReadsFrom(inbox', inbox.taken, n)
    BY <1>1, <1>2, <1>3, <1>5, ReadBegins
  <2>2. frame' = [pc |-> pc, got |-> frame.got, result |-> frame.result]
    BY <1>1, <1>5 DEF Ask, RpTyped
  <2>3. RpTyped'
    BY <1>1, <1>3, <2>1, <2>2 DEF RpTyped
  <2>4. FramePlace(frame', inbox')
    BY <1>2, <2>1, <2>2 DEF FramePlace
  <2> QED
    BY <2>3, <2>4 DEF RpInv
<1> QED
  BY <1>4, <1>5

\* readFrame() begins where a frame starts.
LEMMA ReadFrameKeeps == ASSUME RpInv, ReadFrame PROVE RpInv'
<1>1. RpTyped /\ FramePlace(frame, inbox)
  BY DEF RpInv
<1>2. inbox.wait = 0 /\ inbox.taken = Offsets[Len(frame.got) + 1]
  BY <1>1 DEF ReadFrame, FramePlace
<1>3. Len(frame.got) + 1 \in Frames /\ Ask("magic", Magic) /\ Magic \in Nat
  BY FramesFollow DEF ReadFrame
<1> QED
  BY <1>2, <1>3, AskKeeps

\* A read of readFrame() is over, and its place is where the next part begins.
LEMMA ReadOverKeeps == ASSUME RpInv, ReadOver PROVE RpInv'
<1> DEFINE i == Len(frame.got) + 1
<1>1. RpTyped /\ FramePlace(frame, inbox)
  BY DEF RpInv
<1>2. frame.pc \in {"magic", "length", "body"} /\ inbox.wait = 0
  BY <1>1 DEF ReadOver, RpTyped
<1>3. i \in Frames /\ i \in DOMAIN Offsets /\ i + 1 \in DOMAIN Offsets
  BY <1>1, <1>2, FramesFollow DEF FramePlace
<1>4. /\ Offsets[i] \in Nat /\ Offsets[i + 1] \in Nat /\ BodyBytes(i) \in Nat /\ Magic \in Nat \ {0}
      /\ LenBytes \in Nat \ {0} /\ LengthAt(Offsets[i] + HeadBytes) = BodyBytes(i)
      /\ inbox.taken \in Nat
  BY <1>1, <1>3, FramesFollow DEF RpTyped
<1>5. CASE frame.pc = "magic"
  <2>1. inbox.taken = Offsets[i] + Magic
    BY <1>1, <1>2, <1>4, <1>5 DEF FramePlace, ReadsFrom
  <2>2. Ask("length", LenBytes)
    BY <1>3, <1>5, <2>1 DEF ReadOver
  <2> QED
    BY <1>2, <1>3, <1>4, <2>1, <2>2, AskKeeps
<1>6. CASE frame.pc = "length"
  <2>1. inbox.taken = Offsets[i] + HeadBytes
    BY <1>1, <1>2, <1>4, <1>6 DEF FramePlace, ReadsFrom, HeadBytes
  <2>2. Ask("body", BodyBytes(i))
    BY <1>4, <1>6, <2>1 DEF ReadOver
  <2> QED
    BY <1>2, <1>3, <1>4, <2>1, <2>2, AskKeeps
<1>7. CASE frame.pc = "body"
  <2>1. inbox.taken = Offsets[i + 1]
    <3>1. inbox.taken = (Offsets[i] + HeadBytes) + BodyBytes(i)
      BY <1>1, <1>2, <1>4, <1>7 DEF FramePlace, ReadsFrom, HeadBytes
    <3> QED
      BY <3>1, <1>4, SMTT(30) DEF BodyBytes, HeadBytes
  <2>2. /\ frame' = [frame EXCEPT !.pc = "idle", !.got = Append(@, inbox.taken)]
        /\ UNCHANGED <<sock, inbox>>
    BY <1>7 DEF ReadOver
  <2> DEFINE got == Append(frame.got, inbox.taken)
  <2>3. frame' = [pc |-> "idle", got |-> got, result |-> frame.result]
    BY <1>1, <2>2 DEF RpTyped
  <2>4. /\ frame.got \in Seq(Nat) /\ got \in Seq(Nat) /\ Len(got) = i /\ i \in Nat
        /\ \A j \in 1..Len(frame.got) : got[j] = frame.got[j]
        /\ got[i] = inbox.taken
    BY <1>1, <1>4, AppendProperties DEF RpTyped
  <2> HIDE DEF got
  <2>5. \A j \in DOMAIN got : got[j] = Offsets[j + 1]
    <3>1. DOMAIN got = 1..i /\ DOMAIN frame.got = 1..Len(frame.got) /\ Len(frame.got) \in Nat
      BY <2>4
    <3>2. ASSUME NEW j \in 1..i PROVE got[j] = Offsets[j + 1]
      <4>1. CASE j = i
        BY <2>1, <2>4, <4>1
      <4>2. CASE j # i
        <5>1. j \in 1..Len(frame.got)
          BY <2>4, <3>1, <4>2
        <5> QED
          BY <1>1, <2>4, <3>1, <5>1 DEF FramePlace
      <4> QED
        BY <4>1, <4>2
    <3> QED
      BY <3>1, <3>2
  <2>6. RpTyped'
    BY <1>1, <2>2, <2>3, <2>4 DEF RpTyped
  <2>7. FramePlace(frame', inbox')
    BY <1>1, <1>2, <1>3, <2>1, <2>2, <2>3, <2>4, <2>5 DEF FramePlace
  <2> QED
    BY <2>6, <2>7 DEF RpInv
<1> QED
  BY <1>2, <1>5, <1>6, <1>7

\* No step of the transport or of readFrame() breaks the invariant.
LEMMA RpKeeps == RpInv /\ [RpNext]_rpVars => RpInv'
<1> SUFFICES ASSUME RpInv, [RpNext]_rpVars PROVE RpInv'
  OBVIOUS
<1>1. RpTyped /\ FramePlace(frame, inbox)
  BY DEF RpInv
<1>2. CASE UNCHANGED rpVars
  BY <1>1, <1>2 DEF rpVars, RpInv, RpTyped, FramePlace, ReadsFrom
<1>3. ASSUME NEW how, ConnectRp(how) PROVE RpInv'
  <2>1. RpTyped'
    BY <1>1, <1>3 DEF ConnectRp, RpTyped
  <2> QED
    BY <1>1, <1>3, <2>1 DEF ConnectRp, RpInv
<1>4. ASSUME NEW n \in 1..Total, OnMessage(n) PROVE RpInv'
  <2>1. n \in Nat /\ inbox.came + n <= Total /\ UNCHANGED <<sock, frame>>
    BY <1>4, FramesFollow DEF OnMessage
  <2>2. inbox' = DrainRp([inbox EXCEPT !.came = @ + n])
    BY <1>4 DEF OnMessage
  <2>3. inbox' \in [came : Nat, taken : Nat, wait : Nat] /\ FramePlace(frame, inbox')
    BY <1>1, <2>1, <2>2, DrainKeeps DEF RpTyped
  <2> QED
    BY <1>1, <2>1, <2>3 DEF RpInv, RpTyped
<1>5. CASE OnClose
  <2>1. /\ sock' = [sock EXCEPT !.ws = "closed", !.closed = TRUE]
        /\ inbox' = [inbox EXCEPT !.wait = 0]
        /\ frame' = IF inbox.wait > 0
                THEN [frame EXCEPT !.pc = "idle", !.result = "closed"]
                ELSE frame
    BY <1>5 DEF OnClose
  <2>2. RpTyped'
    <3>1. sock' \in [ws : {"none", "open", "closing", "closed", "failed"}, held : BOOLEAN,
                     closed : BOOLEAN, wrote : Nat]
      BY <1>1, <2>1 DEF RpTyped
    <3>2. inbox' \in [came : Nat, taken : Nat, wait : Nat]
      BY <1>1, <2>1 DEF RpTyped
    <3>3. frame' \in [pc : {"idle", "magic", "length", "body"}, got : Seq(Nat),
                      result : {"none", "closed", "magic"}]
      BY <1>1, <2>1 DEF RpTyped
    <3> QED
      BY <3>1, <3>2, <3>3 DEF RpTyped
  <2>3. FramePlace(frame', inbox')
    <3>1. CASE inbox.wait > 0
      <4>1. frame' = [pc |-> "idle", got |-> frame.got, result |-> "closed"]
        BY <1>1, <2>1, <3>1 DEF RpTyped
      <4>2. inbox'.wait = 0 /\ inbox'.came = inbox.came /\ inbox'.taken = inbox.taken
        BY <1>1, <2>1 DEF RpTyped
      <4> QED
        BY <1>1, <4>1, <4>2 DEF FramePlace
    <3>2. CASE ~(inbox.wait > 0)
      <4>1. frame' = frame /\ inbox' = inbox
        BY <1>1, <2>1, <3>2 DEF RpTyped
      <4> QED
        BY <1>1, <4>1
    <3> QED
      BY <3>1, <3>2
  <2> QED
    BY <2>2, <2>3 DEF RpInv
<1>6. CASE CloseRp
  <2>1. RpTyped'
    BY <1>1, <1>6 DEF CloseRp, RpTyped
  <2> QED
    BY <1>1, <1>6, <2>1 DEF CloseRp, RpInv
<1>7. ASSUME NEW ok, WriteRp(ok) PROVE RpInv'
  <2>1. RpTyped'
    BY <1>1, <1>7 DEF WriteRp, RpTyped
  <2> QED
    BY <1>1, <1>7, <2>1 DEF WriteRp, RpInv
<1> QED
  BY <1>2, <1>3, <1>4, <1>5, <1>6, <1>7, ReadFrameKeeps, ReadOverKeeps DEF RpNext

\* RpTransport: readFrame() returns the frames of the device whole and in
\* order, for any lengths of their bodies and any cut of the stream into
\* messages, and whenever the socket closes.
THEOREM FramesAreWhole == RpSpec => []FramesReassembled
<1>1. RpInit => RpInv
  BY RpStarts
<1>2. RpInv /\ [RpNext]_rpVars => RpInv'
  BY RpKeeps
<1>3. RpInv => FramesReassembled
  <2> SUFFICES ASSUME RpInv PROVE FramesReassembled
    OBVIOUS
  <2>1. frame.got \in Seq(Nat) /\ FramePlace(frame, inbox)
    BY DEF RpInv, RpTyped
  <2>2. frame.got = [j \in 1..Len(frame.got) |-> Offsets[j + 1]]
    <3>1. /\ DOMAIN frame.got = 1..Len(frame.got)
          /\ frame.got = [j \in DOMAIN frame.got |-> frame.got[j]]
      BY <2>1
    <3> QED
      BY <2>1, <3>1 DEF FramePlace
  <2> QED
    BY <2>1, <2>2 DEF FramesReassembled, FramePlace
<1> QED
  BY <1>1, <1>2, <1>3, PTL DEF RpSpec

\* RpTransport: no more is read than came, and no more comes than was sent.
THEOREM RpTypesCorrect == RpSpec => []RpTypeOK
<1>1. RpInit => RpInv
  BY RpStarts
<1>2. RpInv /\ [RpNext]_rpVars => RpInv'
  BY RpKeeps
<1>3. RpInv => RpTypeOK
  BY DEF RpInv, RpTyped, FramePlace, RpTypeOK
<1> QED
  BY <1>1, <1>2, <1>3, PTL DEF RpSpec

\* What RpTransport promises its callers: it takes the bytes as they come and
\* hands them out in order until the socket's close event.
RpBytes ==
  INSTANCE ByteStream WITH
    sent <- inbox.came, got <- inbox.came, read <- inbox.taken,
    ended <- (sock.ws = "closed")
RpImplements == RpBytes!StreamSpec

\* A length field gives a length, wherever it is read.
LEMMA LengthIsNumber ==
  ASSUME NEW p
  PROVE  LengthAt(p) \in Nat
<1>1. CASE \E i \in Frames : p = Offsets[i] + Magic + LenBytes
  <2> DEFINE i == CHOOSE j \in Frames : p = Offsets[j] + Magic + LenBytes
  <2>1. i \in Frames /\ p = Offsets[i] + Magic + LenBytes
    BY <1>1
  <2>2. LengthAt(p) = Offsets[i + 1] - p
    BY <1>1 DEF LengthAt
  <2> HIDE DEF i
  <2>3. BodyBytes(i) \in Nat /\ Offsets[i] \in Nat /\ Magic \in Nat /\ LenBytes \in Nat
    BY <2>1, FramesFollow
  <2>4. Offsets[i] + HeadBytes = p
    BY <2>1, <2>3 DEF HeadBytes
  <2> QED
    BY <2>2, <2>3, <2>4 DEF BodyBytes
<1>2. CASE ~(\E i \in Frames : p = Offsets[i] + Magic + LenBytes)
  BY <1>2 DEF LengthAt
<1> QED
  BY <1>1, <1>2

\* The bytes of the socket, in a state of the transport.
LEMMA RpCounts ==
  ASSUME RpInv
  PROVE  inbox.came \in Nat /\ inbox.taken \in Nat /\ inbox.taken <= inbox.came
BY DEF RpInv, RpTyped, FramePlace

\* And in the next one.
LEMMA RpCountsNext ==
  ASSUME RpInv'
  PROVE  inbox'.came \in Nat /\ inbox'.taken \in Nat /\ inbox'.taken <= inbox'.came
<1> DEFINE b == inbox'
           f == frame'
<1>1. b \in [came : Nat, taken : Nat, wait : Nat] /\ FramePlace(f, b)
  BY DEF RpInv, RpTyped
<1> HIDE DEF b, f
<1>2. b.came \in Nat /\ b.taken \in Nat /\ b.taken <= b.came
  BY <1>1 DEF FramePlace
<1> QED
  BY <1>2 DEF b

\* A call of readExact() takes its bytes, waits for them, or is rejected.
LEMMA AskReads ==
  ASSUME RpInv, RpInv', NEW pc, NEW n \in Nat, Ask(pc, n)
  PROVE  RpBytes!Read \/ UNCHANGED <<sock, inbox.came, inbox.taken>>
<1>1. inbox' = ReadExactRp(n) /\ UNCHANGED sock
  BY DEF Ask
<1>2. inbox \in [came : Nat, taken : Nat, wait : Nat]
  BY DEF RpInv, RpTyped
<1>3. CASE ~sock.closed /\ inbox.came - inbox.taken >= n
  <2>1. inbox' = [inbox EXCEPT !.taken = @ + n]
    BY <1>1, <1>3 DEF ReadExactRp
  <2>2. inbox'.came = inbox.came /\ inbox'.taken = inbox.taken + n
    BY <1>2, <2>1
  <2>3. inbox.came \in Nat /\ inbox.taken \in Nat
    BY <1>2
  <2>4. n = 0 \/ inbox'.taken \in (inbox.taken + 1)..inbox.came
    BY <1>3, <2>2, <2>3
  <2> QED
    BY <1>1, <2>2, <2>3, <2>4 DEF RpBytes!Read
<1>4. CASE ~(~sock.closed /\ inbox.came - inbox.taken >= n)
  <2>1. inbox' = inbox \/ inbox' = [inbox EXCEPT !.wait = n]
    BY <1>1, <1>4 DEF ReadExactRp
  <2> QED
    BY <1>1, <1>2, <2>1
<1> QED
  BY <1>3, <1>4

\* A message brings bytes, for the read that waits if they are enough for it.
LEMMA MessageGets ==
  ASSUME RpInv, RpInv', NEW n \in 1..Total, OnMessage(n)
  PROVE  RpBytes!SendAndGet
<1>1. inbox' = DrainRp([inbox EXCEPT !.came = @ + n]) /\ UNCHANGED sock /\ sock.ws # "closed"
  BY DEF OnMessage
<1>2. inbox \in [came : Nat, taken : Nat, wait : Nat] /\ n \in Nat \ {0}
  BY FramesFollow DEF RpInv, RpTyped
<1> DEFINE a == [inbox EXCEPT !.came = @ + n]
<1>3. /\ a \in [came : Nat, taken : Nat, wait : Nat] /\ a.came = inbox.came + n
      /\ a.taken = inbox.taken /\ a.wait \in Nat
  BY <1>2
<1>4. inbox' = DrainRp(a)
  BY <1>1
<1> HIDE DEF a
<1>5. inbox' = a \/ inbox' = [a EXCEPT !.taken = @ + a.wait, !.wait = 0]
  BY <1>4 DEF DrainRp
<1>6. inbox'.came = a.came /\ inbox'.taken >= a.taken
  <2>1. CASE inbox' = a
    BY <1>3, <2>1
  <2>2. CASE inbox' = [a EXCEPT !.taken = @ + a.wait, !.wait = 0]
    <3>1. inbox'.came = a.came /\ inbox'.taken = a.taken + a.wait
      BY <1>3, <2>2
    <3> QED
      BY <1>3, <3>1
  <2> QED
    BY <1>5, <2>1, <2>2
<1>7. /\ inbox.came \in Nat /\ inbox.taken \in Nat
      /\ inbox'.came \in Nat /\ inbox'.taken \in Nat /\ inbox'.taken <= inbox'.came
  BY RpCounts, RpCountsNext
<1>8. inbox'.came > inbox.came /\ inbox'.taken \in inbox.taken..inbox'.came
  BY <1>2, <1>3, <1>6, <1>7
<1> QED
  BY <1>1, <1>7, <1>8 DEF RpBytes!SendAndGet

\* RpTransport hands its callers the bytes that came, from the first one on, in
\* order and each once, however messages cut them and whatever reads ask for;
\* after the socket's close event it takes no more (onMessage, drain, readExact
\* and onClose of WispRpTransport, app/src/flows/remote-pair.ts): the promise
\* that MuxTcpConnection keeps.
THEOREM RpIsByteStream == RpSpec => RpImplements
<1>1. RpInit => RpInv
  BY RpStarts
<1>2. RpInv /\ [RpNext]_rpVars => RpInv'
  BY RpKeeps
<1>3. RpInit => RpBytes!StreamInit
  BY DEF RpInit, RpBytes!StreamInit
<1>4. RpInv /\ RpInv' /\ [RpNext]_rpVars => [RpBytes!StreamNext]_(RpBytes!streamVars)
  <2> SUFFICES ASSUME RpInv, RpInv', [RpNext]_rpVars
               PROVE  [RpBytes!StreamNext]_(RpBytes!streamVars)
    OBVIOUS
  <2>1. CASE UNCHANGED <<sock, inbox>>
    BY <2>1 DEF RpBytes!streamVars
  <2>2. CASE UNCHANGED <<sock, inbox.came, inbox.taken>>
    BY <2>2 DEF RpBytes!streamVars
  <2>3. ASSUME NEW pc, NEW n \in Nat, Ask(pc, n)
        PROVE  [RpBytes!StreamNext]_(RpBytes!streamVars)
    BY <2>2, <2>3, AskReads DEF RpBytes!StreamNext
  <2>4. ASSUME NEW n \in 1..Total, OnMessage(n)
        PROVE  [RpBytes!StreamNext]_(RpBytes!streamVars)
    BY <2>4, MessageGets DEF RpBytes!StreamNext
  <2>5. CASE OnClose
    <3>1. inbox' = [inbox EXCEPT !.wait = 0]
          /\ sock' = [sock EXCEPT !.ws = "closed", !.closed = TRUE] /\ sock.ws # "closed"
      BY <2>5 DEF OnClose
    <3>2. inbox'.came = inbox.came /\ inbox'.taken = inbox.taken /\ sock'.ws = "closed"
      BY <3>1 DEF RpInv, RpTyped
    <3> QED
      BY <3>1, <3>2 DEF RpBytes!StreamNext, RpBytes!End
  <2>6. ASSUME CloseRp \/ (\E how \in {"open", "error"} : ConnectRp(how))
               \/ (\E ok \in BOOLEAN : WriteRp(ok))
        PROVE  [RpBytes!StreamNext]_(RpBytes!streamVars)
    <3>1. UNCHANGED inbox /\ (sock'.ws = "closed" <=> sock.ws = "closed")
      BY <2>6, ZenonT(60) DEF CloseRp, ConnectRp, WriteRp, RpInv, RpTyped
    <3> QED
      BY <3>1 DEF RpBytes!streamVars
  <2>7. CASE ReadFrame
    BY <2>3, <2>7, FramesFollow DEF ReadFrame
  <2>8. CASE ReadOver
    BY <2>1, <2>3, <2>8, FramesFollow, LengthIsNumber DEF ReadOver
  <2>9. CASE UNCHANGED rpVars
    BY <2>1, <2>9 DEF rpVars
  <2> QED
    BY <2>4, <2>5, <2>6, <2>7, <2>8, <2>9 DEF RpNext
<1> QED
  BY <1>1, <1>2, <1>3, <1>4, PTL DEF RpSpec, RpImplements, RpBytes!StreamSpec

-----------------------------------------------------------------------------
(* PskTunnel: no byte after the CDTunnel response is lost.                 *)

TunnelWords == Suites \cup {"clientHello", "key", "finished", "tunnel", "done", "ticket"}
PlainRecords ==
  [ct : {"handshake", "ccs", "alert"}, enc : BOOLEAN, seq : Nat, body : Seq(TunnelWords)]
DataRecords == [ct : {"data"}, enc : BOOLEAN, seq : Nat, body : Nat]
DeviceRecords == PlainRecords \cup DataRecords

HostStates ==
  [pc : {"start", "server hello", "finished", "open", "request", "tunnel", "failed"},
   suite : Suites \cup {"none"}, write : Nat, read : Nat,
   buf : Nat, given : Nat, pending : Nat]

TunnelServers ==
  [pc : {"hello", "key", "open", "closed"}, same : BOOLEAN, seq : Nat, expect : Nat,
   suite : Suites \cup {"none"}, left : 0..(Reply + Extra), open : BOOLEAN]

TunnelTyped ==
  /\ psk \in HostStates /\ server \in TunnelServers /\ tunnelToHost \in Seq(DeviceRecords)

\* Reads of the tunnel begin when the response is complete, and not before.
TunnelPhases ==
  /\ psk.pc \notin {"tunnel", "failed"} => psk.given = 0 /\ psk.pending = 0
  /\ psk.pc = "tunnel" => psk.buf = Reply

\* Until the tunnel fails, what the host has of the stream and what is on its
\* way are what the device has sent.
StreamKept ==
  psk.pc # "failed" =>
    Carry(tunnelToHost, psk.buf + (psk.given + psk.pending), (Reply + Extra) - server.left)

\* The inductive invariant of PskTunnel.
TunnelInv == TunnelTyped /\ TunnelPhases /\ StreamKept

\* The response and what follows it have so many bytes.
LEMMA ReplyNumbers ==
  Reply \in Nat /\ Extra \in Nat /\ RecordHeader \in Nat /\ RecordHeader <= Reply
BY PskTunnelAssumption

\* A record more carries the stream on by its bytes.
LEMMA CarryMore ==
  ASSUME NEW q \in Seq(DeviceRecords), NEW rs \in Seq(DeviceRecords), NEW n \in Nat,
         NEW p, NEW e \in Nat, Carry(q, p, e), rs # <<>>, DataBytes(rs[1]) = n,
         \A i \in 2..Len(rs) : DataBytes(rs[i]) = 0, e + n <= Reply + Extra
  PROVE  Carry(q \o rs, p, e + n)
<1>1. PICK at \in [0..Len(q) -> 0..(Reply + Extra)] :
        /\ at[0] = p /\ at[Len(q)] = e
        /\ \A i \in 1..Len(q) : at[i] = at[i - 1] + DataBytes(q[i])
  BY DEF Carry
<1> DEFINE s == q \o rs
           to == [i \in 0..Len(s) |-> IF i <= Len(q) THEN at[i] ELSE e + n]
<1>2. /\ Len(q) \in Nat /\ Len(rs) \in Nat \ {0} /\ Len(s) = Len(q) + Len(rs)
      /\ \A i \in 1..(Len(q) + Len(rs)) : s[i] = IF i <= Len(q) THEN q[i] ELSE rs[i - Len(q)]
  BY ConcatProperties
<1> HIDE DEF s
<1>3. to \in [0..Len(s) -> 0..(Reply + Extra)]
  BY <1>1, <1>2, ReplyNumbers
<1>4. to[0] = p /\ to[Len(s)] = e + n
  BY <1>1, <1>2
<1>5. ASSUME NEW i \in 1..Len(s) PROVE to[i] = to[i - 1] + DataBytes(s[i])
  <2>1. CASE i <= Len(q)
    <3>1. i \in 1..Len(q) /\ to[i] = at[i] /\ to[i - 1] = at[i - 1] /\ s[i] = q[i]
      BY <1>2, <2>1
    <3> QED
      BY <1>1, <3>1
  <2>2. CASE i = Len(q) + 1
    <3>1. i - 1 = Len(q) /\ i - Len(q) = 1 /\ ~(i <= Len(q)) /\ i \in 1..(Len(q) + Len(rs))
      BY <1>2, <2>2
    <3>2. s[i] = rs[1]
      BY <1>2, <3>1
    <3>3. to[i] = e + n /\ to[i - 1] = at[Len(q)]
      BY <1>2, <3>1
    <3> QED
      BY <1>1, <3>2, <3>3
  <2>3. CASE i > Len(q) + 1
    <3>1. to[i] = e + n /\ to[i - 1] = e + n /\ s[i] = rs[i - Len(q)] /\ i - Len(q) \in 2..Len(rs)
      BY <1>2, <2>3
    <3> QED
      BY <3>1, SMTT(30)
  <2> QED
    BY <1>2, <2>1, <2>2, <2>3
<1> HIDE DEF to
<1>6. Carry(s, p, e + n)
  BY <1>3, <1>4, <1>5 DEF Carry
<1> QED
  BY <1>6 DEF s

\* The oldest record is taken with its bytes.
LEMMA CarryLess ==
  ASSUME NEW q \in Seq(DeviceRecords), q # <<>>, NEW p \in Nat, NEW e, Carry(q, p, e)
  PROVE  /\ Carry(Tail(q), p + DataBytes(Head(q)), e) /\ Head(q) \in DeviceRecords
         /\ Tail(q) \in Seq(DeviceRecords) /\ DataBytes(Head(q)) \in Nat
<1>1. PICK at \in [0..Len(q) -> 0..(Reply + Extra)] :
        /\ at[0] = p /\ at[Len(q)] = e
        /\ \A i \in 1..Len(q) : at[i] = at[i - 1] + DataBytes(q[i])
  BY DEF Carry
<1> DEFINE t == Tail(q)
           to == [i \in 0..Len(t) |-> at[i + 1]]
<1>2. /\ Len(q) \in Nat \ {0} /\ t \in Seq(DeviceRecords) /\ Len(t) = Len(q) - 1
      /\ \A i \in 1..Len(t) : t[i] = q[i + 1]
  OBVIOUS
<1>3. Head(q) = q[1] /\ q[1] \in DeviceRecords
  BY <1>2
<1>4. DataBytes(Head(q)) \in Nat
  BY <1>3 DEF DataBytes, DeviceRecords, PlainRecords, DataRecords
<1> HIDE DEF t
<1>5. to \in [0..Len(t) -> 0..(Reply + Extra)]
  BY <1>1, <1>2, ReplyNumbers
<1>6. to[0] = p + DataBytes(Head(q)) /\ to[Len(t)] = e
  <2>1. at[1] = at[0] + DataBytes(q[1])
    BY <1>1, <1>2
  <2> QED
    BY <1>1, <1>2, <1>3, <2>1
<1>7. ASSUME NEW i \in 1..Len(t) PROVE to[i] = to[i - 1] + DataBytes(t[i])
  <2>1. to[i] = at[i + 1] /\ to[i - 1] = at[i] /\ t[i] = q[i + 1] /\ i + 1 \in 1..Len(q)
    BY <1>2
  <2>2. at[i + 1] = at[(i + 1) - 1] + DataBytes(q[i + 1])
    BY <1>1, <2>1
  <2> QED
    BY <2>1, <2>2
<1> HIDE DEF to
<1>8. Carry(t, p + DataBytes(Head(q)), e)
  BY <1>5, <1>6, <1>7 DEF Carry
<1> QED
  BY <1>2, <1>3, <1>4, <1>8 DEF t

\* Nothing is sent at the start.
LEMMA TunnelStarts == PskInit => TunnelInv
<1> SUFFICES ASSUME PskInit PROVE TunnelInv
  OBVIOUS
<1>1. PICK same \in BOOLEAN :
        server = [pc |-> "hello", same |-> same, seq |-> 0, expect |-> 0,
                  suite |-> "none", left |-> Reply + Extra, open |-> TRUE]
  BY DEF PskInit
<1>2. /\ psk = [pc |-> "start", suite |-> "none", write |-> 0, read |-> 0,
                buf |-> 0, given |-> 0, pending |-> 0]
      /\ tunnelToHost = <<>>
  BY DEF PskInit
<1>3. TunnelTyped
  <2>1. server \in TunnelServers
    BY <1>1, ReplyNumbers DEF TunnelServers
  <2>2. psk \in HostStates
    BY <1>2 DEF HostStates
  <2> QED
    BY <1>2, <2>1, <2>2 DEF TunnelTyped
<1>4. TunnelPhases
  BY <1>2 DEF TunnelPhases
<1>5. StreamKept
  <2>1. psk.buf + (psk.given + psk.pending) = 0 /\ (Reply + Extra) - server.left = 0
    BY <1>1, <1>2, ReplyNumbers
  <2>2. Carry(<<>>, 0, 0)
    <3> DEFINE at == [i \in 0..0 |-> 0]
    <3>1. at \in [0..0 -> 0..(Reply + Extra)] /\ at[0] = 0
      BY ReplyNumbers
    <3>2. Len(<<>>) = 0
      OBVIOUS
    <3> HIDE DEF at
    <3> QED
      BY <3>1, <3>2 DEF Carry
  <2> QED
    BY <1>2, <2>1, <2>2 DEF StreamKept
<1> QED
  BY <1>3, <1>4, <1>5 DEF TunnelInv

\* The host's fields, one by one.
LEMMA HostFields ==
  ASSUME psk \in HostStates
  PROVE  /\ psk.pc \in {"start", "server hello", "finished", "open", "request", "tunnel", "failed"}
         /\ psk.suite \in Suites \cup {"none"} /\ psk.write \in Nat /\ psk.read \in Nat
         /\ psk.buf \in Nat /\ psk.given \in Nat /\ psk.pending \in Nat
         /\ psk.buf + (psk.given + psk.pending) \in Nat /\ psk.read + 1 \in Nat
<1>1. /\ psk.pc \in {"start", "server hello", "finished", "open", "request", "tunnel", "failed"}
      /\ psk.suite \in Suites \cup {"none"} /\ psk.write \in Nat /\ psk.read \in Nat
      /\ psk.buf \in Nat /\ psk.given \in Nat /\ psk.pending \in Nat
  BY DEF HostStates
<1>2. psk.buf \in Nat /\ psk.given \in Nat /\ psk.pending \in Nat
  BY <1>1
<1>3. psk.buf + (psk.given + psk.pending) \in Nat
  BY ONLY <1>2
<1>4. psk.read \in Nat
  BY <1>1
<1>5. psk.read + 1 \in Nat
  BY ONLY <1>4
<1> QED
  BY <1>1, <1>3, <1>5

\* What is left when the host takes a record.
LEMMA HostTakes ==
  ASSUME TunnelInv, NEW r, Gives(r)
  PROVE  /\ tunnelToHost' \in Seq(DeviceRecords) /\ r \in DeviceRecords /\ DataBytes(r) \in Nat
         /\ psk.pc # "failed" =>
              Carry(tunnelToHost', (psk.buf + (psk.given + psk.pending)) + DataBytes(r),
                    (Reply + Extra) - server.left)
<1>1. tunnelToHost \in Seq(DeviceRecords) /\ tunnelToHost # <<>> /\ r = Head(tunnelToHost)
      /\ tunnelToHost' = Tail(tunnelToHost)
  BY DEF Gives, TunnelInv, TunnelTyped
<1>2. r \in DeviceRecords /\ tunnelToHost' \in Seq(DeviceRecords)
  BY <1>1
<1>3. DataBytes(r) \in Nat
  BY <1>2 DEF DataBytes, DeviceRecords, PlainRecords, DataRecords
<1>4. CASE psk.pc # "failed"
  <2>1. psk.buf + (psk.given + psk.pending) \in Nat
    BY HostFields DEF TunnelInv, TunnelTyped
  <2>2. Carry(tunnelToHost, psk.buf + (psk.given + psk.pending), (Reply + Extra) - server.left)
    BY <1>4 DEF TunnelInv, StreamKept
  <2> QED
    BY <1>1, <1>2, <1>3, <2>1, <2>2, CarryLess
<1> QED
  BY <1>2, <1>3, <1>4

\* A step of the host that takes n bytes of the stream and puts them where
\* they count, or fails.
LEMMA HostGoesOn ==
  ASSUME TunnelInv, NEW r, Gives(r), UNCHANGED server, psk' \in HostStates, TunnelPhases',
         psk'.pc # "failed" =>
           /\ psk.pc # "failed"
           /\ psk'.buf + (psk'.given + psk'.pending) =
                (psk.buf + (psk.given + psk.pending)) + DataBytes(r)
  PROVE  TunnelInv'
<1>1. TunnelTyped'
  BY HostTakes DEF TunnelInv, TunnelTyped
<1>2. StreamKept'
  BY HostTakes DEF StreamKept
<1> QED
  BY <1>1, <1>2 DEF TunnelInv

\* A step of the host that takes nothing and moves nothing.
LEMMA HostStays ==
  ASSUME TunnelInv, UNCHANGED <<server, tunnelToHost>>, psk' \in HostStates, TunnelPhases',
         psk'.pc # "failed" =>
           /\ psk.pc # "failed"
           /\ psk'.buf + (psk'.given + psk'.pending) = psk.buf + (psk.given + psk.pending)
  PROVE  TunnelInv'
<1>1. TunnelTyped'
  BY DEF TunnelInv, TunnelTyped
<1>2. StreamKept'
  BY DEF TunnelInv, StreamKept
<1> QED
  BY <1>1, <1>2 DEF TunnelInv

\* tlsPskHandshake(): no byte of the stream comes before it is over.
LEMMA PskHandshakeKeeps ==
  ASSUME TunnelInv, NEW r, Gives(r), ServerFlight(r) \/ ServerHelloDone(r) \/ AwaitFinished(r)
  PROVE  TunnelInv'
<1>1. psk \in HostStates /\ TunnelPhases /\ r \in DeviceRecords /\ DataBytes(r) \in Nat
  BY HostTakes DEF TunnelInv, TunnelTyped
<1>2. psk.pc \in {"server hello", "finished"} /\ UNCHANGED server
      /\ psk.given = 0 /\ psk.pending = 0
  BY <1>1 DEF ServerFlight, ServerHelloDone, AwaitFinished, TunnelPhases
<1>3. CASE TlsError
  <2>1. psk' \in HostStates /\ psk'.pc = "failed"
    BY <1>1, <1>3 DEF TlsError, HostStates
  <2> QED
    BY <1>2, <2>1, HostGoesOn DEF TunnelPhases
<1>4. CASE ~TlsError
  <2>1. r.ct # "data" => TunnelInv'
    <3> SUFFICES ASSUME r.ct # "data" PROVE TunnelInv'
      OBVIOUS
    <3>1. DataBytes(r) = 0
      BY DEF DataBytes
    <3> DEFINE Moves(pc, suite, write, read) ==
                 [pc |-> pc, suite |-> suite, write |-> write, read |-> read,
                  buf |-> psk.buf, given |-> psk.given, pending |-> psk.pending]
    <3>4. \E pc \in {"server hello", "finished", "open"}, suite \in Suites \cup {"none"},
             write \in Nat, read \in Nat : psk' = Moves(pc, suite, write, read)
      <4>0. psk = Moves(psk.pc, psk.suite, psk.write, psk.read)
        BY <1>1 DEF HostStates
      <4>1. CASE ServerFlight(r)
        <5> DEFINE x == IF Len(r.body) > 0 /\ r.body[1] \in Suites THEN r.body[1] ELSE psk.suite
        <5>1. psk' = [psk EXCEPT !.suite = x] /\ psk.pc = "server hello"
          BY <1>4, <4>1 DEF ServerFlight
        <5>2. x \in Suites \cup {"none"}
          BY <1>1, HostFields
        <5> HIDE DEF x
        <5>3. psk' = Moves(psk.pc, x, psk.write, psk.read)
          BY <4>0, <5>1
        <5> QED
          BY <1>1, <5>1, <5>2, <5>3, HostFields
      <4>2. CASE ServerHelloDone(r)
        <5> DEFINE x == IF r.body[1] \in Suites THEN r.body[1] ELSE psk.suite
        <5>1. psk' = [psk EXCEPT !.pc = "finished", !.suite = x, !.write = 1]
          BY <1>4, <4>2 DEF ServerHelloDone
        <5>2. x \in Suites \cup {"none"}
          BY <1>1, HostFields
        <5> HIDE DEF x
        <5>3. psk' = Moves("finished", x, 1, psk.read)
          BY <4>0, <5>1
        <5> QED
          BY <1>1, <5>2, <5>3, HostFields
      <4>3. CASE AwaitFinished(r)
        <5>1. psk.pc = "finished"
          BY <4>3 DEF AwaitFinished
        <5>2. CASE UNCHANGED psk
          BY <1>1, <4>0, <5>1, <5>2, HostFields
        <5>3. CASE psk' = [psk EXCEPT !.read = @ + 1,
                              !.pc = IF r.body = <<"finished">> THEN "open" ELSE @]
          <6>1. CASE r.body = <<"finished">>
            <7>1. psk' = Moves("open", psk.suite, psk.write, psk.read + 1)
              BY <4>0, <5>3, <6>1
            <7>2. psk.suite \in Suites \cup {"none"} /\ psk.write \in Nat /\ psk.read + 1 \in Nat
              BY <1>1, HostFields
            <7> HIDE DEF Moves
            <7> QED
              BY <7>1, <7>2
          <6>2. CASE r.body # <<"finished">>
            <7>1. psk' = Moves("finished", psk.suite, psk.write, psk.read + 1)
              BY <4>0, <5>1, <5>3, <6>2
            <7>2. psk.suite \in Suites \cup {"none"} /\ psk.write \in Nat /\ psk.read + 1 \in Nat
              BY <1>1, HostFields
            <7> HIDE DEF Moves
            <7> QED
              BY <7>1, <7>2
          <6> QED
            BY <6>1, <6>2
        <5> QED
          BY <1>4, <4>3, <5>2, <5>3 DEF AwaitFinished
      <4> QED
        BY <4>1, <4>2, <4>3
    <3>2. /\ psk' \in HostStates /\ psk'.pc \notin {"failed", "tunnel"}
          /\ psk'.buf = psk.buf /\ psk'.given = psk.given /\ psk'.pending = psk.pending
      <4>1. psk.buf \in Nat /\ psk.given \in Nat /\ psk.pending \in Nat
        BY <1>1, HostFields
      <4>2. PICK pc \in {"server hello", "finished", "open"}, suite \in Suites \cup {"none"},
                 write \in Nat, read \in Nat : psk' = Moves(pc, suite, write, read)
        BY <3>4
      <4> QED
        BY <4>1, <4>2 DEF HostStates
    <3>3. TunnelPhases'
      BY <1>2, <3>2 DEF TunnelPhases
    <3> QED
      <4>1. psk'.buf + (psk'.given + psk'.pending) =
              (psk.buf + (psk.given + psk.pending)) + DataBytes(r)
        <5>1. /\ psk.buf \in Nat /\ psk.given \in Nat /\ psk.pending \in Nat
              /\ psk'.buf = psk.buf /\ psk'.given = psk.given /\ psk'.pending = psk.pending
          BY <1>1, <3>2, HostFields
        <5> QED
          BY ONLY <3>1, <5>1
      <4>2. psk.pc # "failed"
        BY <1>2
      <4> QED
        BY <1>2, <3>2, <3>3, <4>1, <4>2, HostGoesOn
  <2>2. r.ct # "data"
    BY <1>4 DEF ServerFlight, ServerHelloDone, AwaitFinished, Opens
  <2> QED
    BY <2>1, <2>2
<1> QED
  BY <1>3, <1>4

\* readAppData(): the bytes of a record count for the response, or are pending.
LEMMA ReadAppDataKeeps ==
  ASSUME TunnelInv, NEW r, ReadAppData(r)
  PROVE  TunnelInv'
<1>0. Gives(r) /\ psk.pc \in {"request", "tunnel"} /\ UNCHANGED server
  BY DEF ReadAppData
<1>1. psk \in HostStates /\ TunnelPhases /\ r \in DeviceRecords /\ DataBytes(r) \in Nat
  BY <1>0, HostTakes DEF TunnelInv, TunnelTyped
<1>2. CASE TlsError \/ ReplyRefused
  <2>1. psk' \in HostStates /\ psk'.pc = "failed"
    <3>1. CASE TlsError
      BY <1>1, <3>1 DEF TlsError, HostStates
    <3>2. CASE ReplyRefused
      <4>1. psk' = [pc |-> "failed", suite |-> psk.suite, write |-> psk.write,
                    read |-> psk.read + 1, buf |-> psk.buf, given |-> psk.given,
                    pending |-> psk.pending]
        BY <1>1, <3>2 DEF ReplyRefused, HostStates
      <4>2. psk.read + 1 \in Nat
        BY <1>1, HostFields
      <4> QED
        BY <1>1, <4>1, <4>2, HostFields DEF HostStates
    <3> QED
      BY <1>2, <3>1, <3>2
  <2> QED
    BY <1>0, <2>1, HostGoesOn DEF TunnelPhases
<1>3. CASE ~TlsError /\ ~ReplyRefused
  <2> DEFINE n == r.body
  <2>1. r.ct = "data"
    BY <1>3 DEF ReadAppData, Opens
  <2>2. n \in Nat /\ DataBytes(r) = n
    BY <1>1, <2>1 DEF DataBytes
  <2>3. IF psk.pc = "request" THEN TunnelReply(n) ELSE Refill(n)
    BY <1>3 DEF ReadAppData
  <2> HIDE DEF n
  <2>4. CASE psk.pc = "request"
    <3>1. TunnelReply(n) /\ psk.given = 0 /\ psk.pending = 0
      BY <1>1, <2>3, <2>4 DEF TunnelPhases
    <3>2. CASE psk.buf + n >= RecordHeader /\ psk.buf + n >= Reply
      <4>1. psk' = [psk EXCEPT !.read = @ + 1, !.buf = Reply, !.pc = "tunnel",
                              !.pending = (psk.buf + n) - Reply]
        BY <1>3, <3>1, <3>2 DEF TunnelReply
      <4>5. psk' = [pc |-> "tunnel", suite |-> psk.suite, write |-> psk.write,
                    read |-> psk.read + 1, buf |-> Reply, given |-> psk.given,
                    pending |-> (psk.buf + n) - Reply]
        BY <1>1, <4>1 DEF HostStates
      <4>6. (psk.buf + n) - Reply \in Nat /\ psk.read + 1 \in Nat
        <5>1. psk.buf \in Nat /\ psk.read + 1 \in Nat
          BY <1>1, HostFields
        <5> QED
          BY ONLY <2>2, <3>2, <5>1, ReplyNumbers
      <4>2. /\ psk' \in HostStates /\ psk'.pc = "tunnel" /\ psk'.buf = Reply /\ psk'.given = 0
            /\ psk'.pending = (psk.buf + n) - Reply
        BY <1>1, <3>1, <4>5, <4>6, HostFields, ReplyNumbers DEF HostStates
      <4>3. psk'.buf + (psk'.given + psk'.pending) = (psk.buf + (psk.given + psk.pending)) + n
        <5>1. /\ psk.buf \in Nat /\ psk'.buf = Reply /\ psk'.given = 0
              /\ psk'.pending = (psk.buf + n) - Reply
          BY <1>1, <4>2, HostFields
        <5>2. psk.given = 0 /\ psk.pending = 0
          BY <3>1
        <5> QED
          BY ONLY <2>2, <5>1, <5>2, ReplyNumbers
      <4>4. TunnelPhases'
        BY <4>2 DEF TunnelPhases
      <4> QED
        BY <1>0, <2>2, <2>4, <4>2, <4>3, <4>4, HostGoesOn
    <3>3. CASE ~(psk.buf + n >= RecordHeader /\ psk.buf + n >= Reply)
      <4>1. psk' = [psk EXCEPT !.read = @ + 1, !.buf = psk.buf + n]
        BY <3>1, <3>3 DEF TunnelReply
      <4>5. psk' = [pc |-> psk.pc, suite |-> psk.suite, write |-> psk.write,
                    read |-> psk.read + 1, buf |-> psk.buf + n, given |-> psk.given,
                    pending |-> psk.pending]
        BY <1>1, <4>1 DEF HostStates
      <4>6. psk.buf + n \in Nat /\ psk.read + 1 \in Nat
        <5>1. psk.buf \in Nat /\ psk.read + 1 \in Nat
          BY <1>1, HostFields
        <5> QED
          BY ONLY <2>2, <5>1
      <4>2. /\ psk' \in HostStates /\ psk'.pc = "request" /\ psk'.buf = psk.buf + n
            /\ psk'.given = 0 /\ psk'.pending = 0
        BY <1>1, <2>4, <3>1, <4>5, <4>6, HostFields DEF HostStates
      <4>3. psk'.buf + (psk'.given + psk'.pending) = (psk.buf + (psk.given + psk.pending)) + n
        <5>1. psk.buf \in Nat /\ psk'.buf = psk.buf + n /\ psk'.given = 0 /\ psk'.pending = 0
          BY <1>1, <4>2, HostFields
        <5>2. psk.given = 0 /\ psk.pending = 0
          BY <3>1
        <5> QED
          BY ONLY <2>2, <5>1, <5>2
      <4>4. TunnelPhases'
        BY <4>2 DEF TunnelPhases
      <4> QED
        BY <1>0, <2>2, <2>4, <4>2, <4>3, <4>4, HostGoesOn
    <3> QED
      BY <3>2, <3>3
  <2>5. CASE psk.pc = "tunnel"
    <3>1. psk' = [psk EXCEPT !.read = @ + 1, !.pending = @ + n]
      BY <2>3, <2>5 DEF Refill
    <3>5. psk' = [pc |-> psk.pc, suite |-> psk.suite, write |-> psk.write,
                  read |-> psk.read + 1, buf |-> psk.buf, given |-> psk.given,
                  pending |-> psk.pending + n]
      BY <1>1, <3>1 DEF HostStates
    <3>6. psk.pending + n \in Nat /\ psk.read + 1 \in Nat
      <4>1. psk.pending \in Nat /\ psk.read + 1 \in Nat
        BY <1>1, HostFields
      <4> QED
        BY ONLY <2>2, <4>1
    <3>2. /\ psk' \in HostStates /\ psk'.pc = "tunnel" /\ psk'.buf = psk.buf
          /\ psk'.given = psk.given /\ psk'.pending = psk.pending + n
      BY <1>1, <2>5, <3>5, <3>6, HostFields DEF HostStates
    <3>3. psk'.buf + (psk'.given + psk'.pending) = (psk.buf + (psk.given + psk.pending)) + n
      <4>1. /\ psk.buf \in Nat /\ psk.given \in Nat /\ psk.pending \in Nat
            /\ psk'.buf = psk.buf /\ psk'.given = psk.given /\ psk'.pending = psk.pending + n
        BY <1>1, <3>2, HostFields
      <4> QED
        BY ONLY <2>2, <4>1
    <3>4. TunnelPhases'
      BY <1>1, <2>5, <3>2 DEF TunnelPhases
    <3> QED
      BY <1>0, <2>2, <2>5, <3>2, <3>3, <3>4, HostGoesOn
  <2> QED
    BY <1>0, <2>4, <2>5
<1> QED
  BY <1>2, <1>3

\* What the device sends that is not a byte of the stream, and what is.
LEMMA DeviceSends ==
  ASSUME TunnelInv, UNCHANGED psk, NEW records \in Seq(DeviceRecords), records # <<>>,
         NEW n \in Nat, DataBytes(records[1]) = n,
         \A i \in 2..Len(records) : DataBytes(records[i]) = 0,
         server' \in TunnelServers, server'.left = server.left - n,
         tunnelToHost' = tunnelToHost \o records
  PROVE  TunnelInv'
<1>1. tunnelToHost \in Seq(DeviceRecords) /\ server \in TunnelServers
  BY DEF TunnelInv, TunnelTyped
<1>2. tunnelToHost' \in Seq(DeviceRecords)
  BY <1>1, ConcatProperties
<1>3. TunnelTyped' /\ TunnelPhases'
  BY <1>2 DEF TunnelInv, TunnelTyped, TunnelPhases
<1>4. CASE psk.pc # "failed"
  <2> DEFINE e == (Reply + Extra) - server.left
             p == psk.buf + (psk.given + psk.pending)
  <2>1. e \in Nat /\ e + n <= Reply + Extra /\ e + n = (Reply + Extra) - server'.left
    BY <1>1, ReplyNumbers, SMTT(30) DEF TunnelServers
  <2>2. Carry(tunnelToHost, p, e)
    BY <1>4 DEF TunnelInv, StreamKept
  <2>3. Carry(tunnelToHost', p, e + n)
    <3> HIDE DEF e, p
    <3> QED
      BY <1>1, <2>1, <2>2, CarryMore
  <2>4. StreamKept'
    BY <2>1, <2>3 DEF StreamKept
  <2> QED
    BY <1>3, <2>4 DEF TunnelInv
<1>5. CASE psk.pc = "failed"
  BY <1>3, <1>5 DEF TunnelInv, StreamKept
<1> QED
  BY <1>4, <1>5

\* The other steps of the host: bytes only move from pending to given.
LEMMA HostStepsKeep ==
  ASSUME TunnelInv,
         \/ ClientHello \/ TunnelRequest
         \/ \E w \in Writers : WriteAppData(w) \/ WriteRecord(w)
         \/ \E n \in 1..(Reply + Extra) : ReadExactPsk(n)
  PROVE  TunnelInv'
<1>1. psk \in HostStates /\ TunnelPhases
  BY DEF TunnelInv, TunnelTyped
<1>2. UNCHANGED <<server, tunnelToHost>>
  BY DEF ClientHello, TunnelRequest, WriteAppData, WriteRecord, ReadExactPsk
<1> DEFINE Moves(pc, write, given, pending) ==
             [pc |-> pc, suite |-> psk.suite, write |-> write, read |-> psk.read,
              buf |-> psk.buf, given |-> given, pending |-> pending]
<1>3. psk = Moves(psk.pc, psk.write, psk.given, psk.pending)
  BY <1>1 DEF HostStates
<1>4. psk.write + 1 \in Nat
  <2>1. psk.write \in Nat
    BY <1>1, HostFields
  <2> QED
    BY ONLY <2>1
<1>5. ASSUME NEW pc \in {"server hello", "open", "request", "tunnel"}, NEW write \in Nat,
             psk' = Moves(pc, write, psk.given, psk.pending), psk.pc # "failed",
             pc = "tunnel" <=> psk.pc = "tunnel"
      PROVE  TunnelInv'
  <2>1. /\ psk' \in HostStates /\ psk'.pc = pc /\ psk'.buf = psk.buf
        /\ psk'.given = psk.given /\ psk'.pending = psk.pending
    BY <1>1, <1>5, HostFields DEF HostStates
  <2>2. TunnelPhases'
    BY <1>1, <1>5, <2>1 DEF TunnelPhases
  <2>3. psk'.buf + (psk'.given + psk'.pending) = psk.buf + (psk.given + psk.pending)
    BY <2>1
  <2> QED
    BY <1>2, <1>5, <2>1, <2>2, <2>3, HostStays
<1>6. CASE ClientHello
  <2>1. psk' = [psk EXCEPT !.pc = "server hello"] /\ psk.pc = "start"
    BY <1>6 DEF ClientHello
  <2>2. psk' = Moves("server hello", psk.write, psk.given, psk.pending)
    BY <1>3, <2>1
  <2> HIDE DEF Moves
  <2> QED
    BY <1>1, <1>5, <2>1, <2>2, HostFields
<1>7. CASE TunnelRequest
  <2>1. psk' = [psk EXCEPT !.pc = "request", !.write = @ + 1] /\ psk.pc = "open"
    BY <1>7 DEF TunnelRequest
  <2>2. psk' = Moves("request", psk.write + 1, psk.given, psk.pending)
    BY <1>3, <2>1
  <2> HIDE DEF Moves
  <2> QED
    BY <1>4, <1>5, <2>1, <2>2
<1>8. ASSUME NEW w \in Writers, WriteAppData(w) PROVE TunnelInv'
  <2>1. psk' = psk /\ psk.pc = "tunnel"
    BY <1>8 DEF WriteAppData
  <2>2. psk' = Moves("tunnel", psk.write, psk.given, psk.pending)
    BY <1>3, <2>1
  <2> HIDE DEF Moves
  <2> QED
    BY <1>1, <1>5, <2>1, <2>2, HostFields
<1>9. ASSUME NEW w \in Writers, WriteRecord(w) PROVE TunnelInv'
  <2>1. psk' = [psk EXCEPT !.write = @ + 1] /\ psk.pc = "tunnel"
    BY <1>9 DEF WriteRecord
  <2>2. psk' = Moves("tunnel", psk.write + 1, psk.given, psk.pending)
    BY <1>3, <2>1
  <2> HIDE DEF Moves
  <2> QED
    BY <1>4, <1>5, <2>1, <2>2
<1>10. ASSUME NEW n \in 1..(Reply + Extra), ReadExactPsk(n) PROVE TunnelInv'
  <2>1. psk' = [psk EXCEPT !.pending = @ - n, !.given = @ + n] /\ psk.pc = "tunnel"
        /\ psk.pending >= n
    BY <1>10 DEF ReadExactPsk
  <2>2. psk' = Moves("tunnel", psk.write, psk.given + n, psk.pending - n)
    <3> DEFINE g == psk.given + n
               q == psk.pending - n
    <3>1. psk' = [psk EXCEPT !.pending = q, !.given = g]
      BY <2>1
    <3>2. psk' = [psk EXCEPT !.given = g, !.pending = q]
      <4> HIDE DEF g, q
      <4> QED
        BY <1>1, <3>1 DEF HostStates
    <3>3. psk' = Moves("tunnel", psk.write, g, q)
      <4> HIDE DEF g, q
      <4> QED
        BY <1>3, <2>1, <3>2
    <3> QED
      BY <3>3
  <2>3. psk.given \in Nat /\ psk.pending \in Nat /\ psk.buf \in Nat /\ n \in Nat
    <3>1. n \in Nat
      BY ONLY n \in 1..(Reply + Extra), ReplyNumbers
    <3> QED
      BY <1>1, <3>1, HostFields
  <2>4. psk.given + n \in Nat /\ psk.pending - n \in Nat
    BY ONLY <2>1, <2>3
  <2>5. /\ psk' \in HostStates /\ psk'.pc = "tunnel" /\ psk'.buf = psk.buf
        /\ psk'.given = psk.given + n /\ psk'.pending = psk.pending - n
    BY <1>1, <2>2, <2>4, HostFields DEF HostStates
  <2>6. TunnelPhases'
    BY <1>1, <2>1, <2>5 DEF TunnelPhases
  <2>7. psk'.buf + (psk'.given + psk'.pending) = psk.buf + (psk.given + psk.pending)
    <3>1. psk'.buf = psk.buf /\ psk'.given = psk.given + n /\ psk'.pending = psk.pending - n
      BY <2>5
    <3> QED
      BY ONLY <2>3, <3>1
  <2> QED
    BY <1>2, <2>1, <2>5, <2>6, <2>7, HostStays
<1> QED
  BY <1>6, <1>7, <1>8, <1>9, <1>10

\* The records of the device's TLS server.
LEMMA DeviceRecordTypes ==
  ASSUME NEW suite \in Suites
  PROVE  /\ Clear("alert", <<>>) \in PlainRecords /\ Clear("ccs", <<>>) \in PlainRecords
         /\ Clear("handshake", <<suite, "done">>) \in PlainRecords
         /\ Clear("handshake", <<suite>>) \in PlainRecords
         /\ Clear("handshake", <<"done">>) \in PlainRecords
         /\ Record("handshake", TRUE, 0, <<"finished">>) \in PlainRecords
         /\ Record("handshake", TRUE, 0, <<"ticket">>) \in PlainRecords
         /\ Record("handshake", TRUE, 1, <<"finished">>) \in PlainRecords
<1>1. /\ <<>> \in Seq(TunnelWords) /\ <<suite, "done">> \in Seq(TunnelWords)
      /\ <<suite>> \in Seq(TunnelWords) /\ <<"done">> \in Seq(TunnelWords)
      /\ <<"finished">> \in Seq(TunnelWords) /\ <<"ticket">> \in Seq(TunnelWords)
  BY DEF TunnelWords
<1> QED
  BY <1>1 DEF Clear, Record, PlainRecords

\* Records of the handshake, and alerts, carry nothing of the stream.
LEMMA DeviceTalks ==
  ASSUME TunnelInv, UNCHANGED psk, NEW records \in Seq(PlainRecords), records # <<>>,
         server' \in TunnelServers, server'.left = server.left,
         tunnelToHost' = tunnelToHost \o records
  PROVE  TunnelInv'
<1>1. Len(records) \in Nat \ {0} /\ \A i \in 1..Len(records) : records[i] \in PlainRecords
  OBVIOUS
<1>2. \A i \in 1..Len(records) : DataBytes(records[i]) = 0
  BY <1>1 DEF DataBytes, PlainRecords
<1>3. records \in Seq(DeviceRecords)
  BY <1>1 DEF DeviceRecords
<1>4. DataBytes(records[1]) = 0 /\ \A i \in 2..Len(records) : DataBytes(records[i]) = 0
  BY <1>1, <1>2
<1>5. server'.left = server.left - 0
  <2>1. server.left \in Int
    BY ReplyNumbers DEF TunnelInv, TunnelTyped, TunnelServers
  <2> QED
    BY <2>1
<1> QED
  BY <1>3, <1>4, <1>5, DeviceSends

\* Lists of up to three records.
LEMMA RecordLists ==
  ASSUME NEW S, NEW a \in S, NEW b \in S, NEW c \in S
  PROVE  /\ <<a>> \in Seq(S) /\ <<a, b>> \in Seq(S) /\ <<a, b, c>> \in Seq(S)
         /\ <<a>> # <<>> /\ <<a, b>> # <<>> /\ <<a, b, c>> # <<>>
OBVIOUS

\* What a field of the device's state is after a change to it.
LEMMA DeviceFields ==
  ASSUME server \in TunnelServers
  PROVE  /\ server.pc \in {"hello", "key", "open", "closed"} /\ server.same \in BOOLEAN
         /\ server.seq \in Nat /\ server.expect \in Nat
         /\ server.suite \in Suites \cup {"none"} /\ server.left \in 0..(Reply + Extra)
         /\ server.open \in BOOLEAN
BY DEF TunnelServers

\* An alert ends the connection of the device.
LEMMA AlertKeeps ==
  ASSUME TunnelInv, UNCHANGED psk, Alert
  PROVE  TunnelInv'
<1> DEFINE rs == <<Clear("alert", <<>>)>>
<1>1. /\ server' = [server EXCEPT !.pc = "closed", !.open = FALSE]
      /\ tunnelToHost' = tunnelToHost \o rs
  BY DEF Alert, Sends
<1>2. server \in TunnelServers
  BY DEF TunnelInv, TunnelTyped
<1>3. server' \in TunnelServers /\ server'.left = server.left
  BY <1>1, <1>2 DEF TunnelServers
<1>4. rs \in Seq(PlainRecords) /\ rs # <<>>
  BY DeviceRecordTypes DEF Suites
<1> HIDE DEF rs
<1> QED
  BY <1>1, <1>3, <1>4, DeviceTalks

\* The device's answers in the handshake.
LEMMA ServerHandshakeKeeps ==
  ASSUME TunnelInv, ServerAnswersHello \/ ServerAnswersFinished
  PROVE  TunnelInv'
<1>0. UNCHANGED psk /\ server \in TunnelServers
  BY DEF ServerAnswersHello, ServerAnswersFinished, TunnelInv, TunnelTyped
<1>1. ASSUME NEW suite \in Suites \cup {"none"}, NEW rs \in Seq(PlainRecords), rs # <<>>,
             Sends([server EXCEPT !.pc = "key", !.suite = suite], rs)
      PROVE  TunnelInv'
  <2>1. server' \in TunnelServers /\ server'.left = server.left
    BY <1>0, <1>1 DEF TunnelServers, Sends
  <2> QED
    BY <1>0, <1>1, <2>1, DeviceTalks DEF Sends
<1>2. ASSUME NEW s \in Nat, NEW rs \in Seq(PlainRecords), rs # <<>>,
             Sends([[server EXCEPT !.pc = "open", !.expect = 1] EXCEPT !.seq = s], rs)
      PROVE  TunnelInv'
  <2>1. server' \in TunnelServers /\ server'.left = server.left
    BY <1>0, <1>2 DEF TunnelServers, Sends
  <2> QED
    BY <1>0, <1>2, <2>1, DeviceTalks DEF Sends
<1>3. CASE ServerAnswersHello
  <2>1. ASSUME NEW suite \in Suites,
               LET d == [server EXCEPT !.pc = "key", !.suite = suite] IN
                 \/ Sends(d, <<Clear("handshake", <<suite, "done">>)>>)
                 \/ Sends(d, <<Clear("handshake", <<suite>>), Clear("handshake", <<"done">>)>>)
        PROVE  TunnelInv'
    <3> DEFINE one == <<Clear("handshake", <<suite, "done">>)>>
               two == <<Clear("handshake", <<suite>>), Clear("handshake", <<"done">>)>>
    <3>1. one \in Seq(PlainRecords) /\ two \in Seq(PlainRecords) /\ one # <<>> /\ two # <<>>
      <4>1. /\ Clear("handshake", <<suite, "done">>) \in PlainRecords
            /\ Clear("handshake", <<suite>>) \in PlainRecords
            /\ Clear("handshake", <<"done">>) \in PlainRecords
        BY DeviceRecordTypes
      <4> QED
        BY <4>1, RecordLists
    <3>2. \/ Sends([server EXCEPT !.pc = "key", !.suite = suite], one)
          \/ Sends([server EXCEPT !.pc = "key", !.suite = suite], two)
      BY <2>1
    <3> HIDE DEF one, two
    <3> QED
      BY <1>1, <3>1, <3>2
  <2>2. CASE Sends([server EXCEPT !.pc = "key"], <<Clear("handshake", <<"done">>)>>)
    <3> DEFINE rs == <<Clear("handshake", <<"done">>)>>
    <3>1. rs \in Seq(PlainRecords) /\ rs # <<>>
      BY DeviceRecordTypes DEF Suites
    <3>2. server' = [server EXCEPT !.pc = "key"] /\ tunnelToHost' = tunnelToHost \o rs
      BY <2>2 DEF Sends
    <3>3. server' \in TunnelServers /\ server'.left = server.left
      BY <1>0, <3>2 DEF TunnelServers
    <3> HIDE DEF rs
    <3> QED
      BY <1>0, <3>1, <3>2, <3>3, DeviceTalks
  <2> QED
    BY <1>0, <1>3, <2>1, <2>2, AlertKeeps DEF ServerAnswersHello
<1>4. CASE ServerAnswersFinished
  <2> DEFINE fin == Record("handshake", TRUE, 0, <<"finished">>)
             d == [server EXCEPT !.pc = "open", !.expect = 1]
             one == <<Clear("ccs", <<>>), fin>>
             two == <<Clear("ccs", <<>>), Record("handshake", TRUE, 0, <<"ticket">>),
                      Record("handshake", TRUE, 1, <<"finished">>)>>
  <2>1. one \in Seq(PlainRecords) /\ two \in Seq(PlainRecords) /\ one # <<>> /\ two # <<>>
    <3>1. /\ Clear("ccs", <<>>) \in PlainRecords /\ fin \in PlainRecords
          /\ Record("handshake", TRUE, 0, <<"ticket">>) \in PlainRecords
          /\ Record("handshake", TRUE, 1, <<"finished">>) \in PlainRecords
      BY DeviceRecordTypes DEF Suites
    <3> HIDE DEF fin
    <3> QED
      BY <3>1, RecordLists
  <2>2. Alert \/ Sends([d EXCEPT !.seq = 1], one) \/ Sends([d EXCEPT !.seq = 2], two)
    BY <1>4 DEF ServerAnswersFinished
  <2> HIDE DEF one, two
  <2> QED
    BY <1>0, <1>2, <2>1, <2>2, AlertKeeps
<1> QED
  BY <1>3, <1>4

\* The device takes a record of the host, or ends the connection.
LEMMA ServerTakesKeeps ==
  ASSUME TunnelInv, ServerTakes
  PROVE  TunnelInv'
<1>0. UNCHANGED psk /\ server \in TunnelServers
  BY DEF ServerTakes, TunnelInv, TunnelTyped
<1>1. CASE Head(toDev).seq = server.expect
  <2>1. /\ server' = [server EXCEPT !.expect = @ + 1,
                         !.pc = IF Head(toDev).body = <<"tunnel">> THEN "open" ELSE @]
        /\ UNCHANGED tunnelToHost /\ server.pc = "open"
    BY <1>1 DEF ServerTakes
  <2> DEFINE pc == IF Head(toDev).body = <<"tunnel">> THEN "open" ELSE server.pc
             x == server.expect + 1
  <2>2. pc = "open"
    BY <2>1
  <2>3. x \in Nat
    BY <1>0, DeviceFields
  <2>4. server' = [server EXCEPT !.expect = x, !.pc = pc]
    BY <2>1
  <2>5. server' \in TunnelServers /\ server'.left = server.left
    <3> HIDE DEF pc, x
    <3> QED
      BY <1>0, <2>2, <2>3, <2>4 DEF TunnelServers
  <2> QED
    BY <1>0, <2>1, <2>5 DEF TunnelInv, TunnelTyped, TunnelPhases, StreamKept
<1>2. CASE Head(toDev).seq # server.expect
  BY <1>0, <1>2, AlertKeeps DEF ServerTakes
<1> QED
  BY <1>1, <1>2

\* The device sends n bytes of the stream.
LEMMA ServerSendsKeeps ==
  ASSUME TunnelInv, NEW n \in 1..(Reply + Extra), TunnelServerSends(n)
  PROVE  TunnelInv'
<1>0. UNCHANGED psk /\ server \in TunnelServers
  BY DEF TunnelServerSends, TunnelInv, TunnelTyped
<1> DEFINE rs == <<Record("data", TRUE, server.seq, n)>>
           s == server.seq + 1
           l == server.left - n
<1>1. /\ server' = [server EXCEPT !.seq = s, !.left = l] /\ tunnelToHost' = tunnelToHost \o rs
      /\ n \in 1..server.left
  BY DEF TunnelServerSends, Sends
<1>2. server.seq \in Nat /\ server.left \in 0..(Reply + Extra)
  BY <1>0, DeviceFields
<1>3. n \in Nat /\ s \in Nat /\ l \in 0..(Reply + Extra)
  BY ONLY <1>1, <1>2, ReplyNumbers, SMTT(30)
<1>4. rs \in Seq(DeviceRecords) /\ rs # <<>> /\ DataBytes(rs[1]) = n
      /\ \A i \in 2..Len(rs) : DataBytes(rs[i]) = 0
  <2>1. Record("data", TRUE, server.seq, n) \in DeviceRecords
    BY <1>2, <1>3 DEF Record, DeviceRecords, DataRecords
  <2>2. DataBytes(Record("data", TRUE, server.seq, n)) = n
    BY DEF DataBytes, Record
  <2>3. Len(rs) = 1 /\ rs[1] = Record("data", TRUE, server.seq, n)
    OBVIOUS
  <2>4. rs \in Seq(DeviceRecords) /\ rs # <<>>
    <3> DEFINE one == Record("data", TRUE, server.seq, n)
    <3>1. one \in DeviceRecords
      BY <2>1
    <3> HIDE DEF one
    <3>2. <<one>> \in Seq(DeviceRecords) /\ <<one>> # <<>>
      BY <3>1, RecordLists
    <3> QED
      BY <3>2 DEF one
  <2>5. \A i \in 2..Len(rs) : FALSE
    BY <2>3
  <2> HIDE DEF rs
  <2> QED
    BY <2>2, <2>3, <2>4, <2>5
<1>5. server' \in TunnelServers /\ server'.left = l
  <2> HIDE DEF s, l, rs
  <2> QED
    BY <1>0, <1>1, <1>3 DEF TunnelServers
<1> HIDE DEF rs
<1> QED
  BY <1>0, <1>1, <1>3, <1>4, <1>5, DeviceSends

\* A step that leaves everything as it is.
LEMMA TunnelStutters == TunnelInv /\ UNCHANGED pskVars => TunnelInv'
BY DEF pskVars, TunnelInv, TunnelTyped, TunnelPhases, StreamKept

\* Each step keeps the invariant.
LEMMA TunnelKeeps == TunnelInv /\ [PskNext]_pskVars => TunnelInv'
<1> SUFFICES ASSUME TunnelInv, [PskNext]_pskVars PROVE TunnelInv'
  OBVIOUS
<1>1. ASSUME NEW r, ServerFlight(r) \/ ServerHelloDone(r) \/ AwaitFinished(r)
      PROVE  TunnelInv'
  BY <1>1, PskHandshakeKeeps DEF ServerFlight, ServerHelloDone, AwaitFinished
<1>2. ASSUME NEW r, ReadAppData(r) PROVE TunnelInv'
  BY <1>2, ReadAppDataKeeps
<1>3. ASSUME NEW n \in 1..(Reply + Extra), TunnelServerSends(n) PROVE TunnelInv'
  BY <1>3, ServerSendsKeeps
<1> QED
  BY <1>1, <1>2, <1>3, HostStepsKeep, ServerHandshakeKeeps, ServerTakesKeeps, TunnelStutters
  DEF PskNext

\* What the device sends after the CDTunnel response is kept for the reads of
\* the tunnel, whatever records it came in: at any moment the bytes read, those
\* pending and those of the records on their way are the bytes sent, in their
\* order (tlsPskHandshake, performCdTunnelHandshake and TlsPskStream of
\* src/pairing/remote-pairing.ts).
THEOREM TunnelKeepsBytes == PskSpec => []TunnelBytesKept
<1>1. PskInit => TunnelInv
  BY TunnelStarts
<1>2. TunnelInv /\ [PskNext]_pskVars => TunnelInv'
  BY TunnelKeeps
<1>3. TunnelInv => TunnelBytesKept
  <2> SUFFICES ASSUME TunnelInv, psk.pc = "tunnel"
        PROVE  Carry(tunnelToHost, Reply + (psk.given + psk.pending), (Reply + Extra) - server.left)
    BY DEF TunnelBytesKept
  <2>1. psk.buf = Reply
    BY DEF TunnelInv, TunnelPhases
  <2> QED
    BY <2>1 DEF TunnelInv, StreamKept
<1> QED
  BY <1>1, <1>2, <1>3, PTL DEF PskSpec

-----------------------------------------------------------------------------
(* PskTunnel implements the stream too, within its bounds.                 *)

\* Until the response is complete there is less than it; what follows it is no
\* longer than what the device has.
TunnelBounded ==
  /\ psk.pc \notin {"tunnel", "failed"} => psk.buf < Reply
  /\ psk.given + psk.pending <= Extra
  /\ writer \in [Writers -> 0..Chunks]

\* The inductive invariant of the stream.
TunnelStreamInv == TunnelInv /\ TunnelBounded

TunnelBytes ==
  INSTANCE ByteStream WITH
    sent <- (Reply + Extra) - server.left,
    got <- psk.buf + (psk.given + psk.pending), read <- psk.buf + psk.given,
    ended <- (psk.pc = "failed")
TunnelImplements == TunnelBytes!StreamSpec

\* What a step does with the bytes of the stream: nothing, unless it is one of
\* those that follow.
StreamSame ==
  /\ psk'.buf = psk.buf /\ psk'.given = psk.given /\ psk'.pending = psk.pending
  /\ server'.left = server.left
StreamRests ==
  /\ StreamSame
  /\ psk'.pc = "failed" <=> psk.pc = "failed"
  /\ psk'.pc = "tunnel" <=> psk.pc = "tunnel"
StreamFails == StreamSame /\ psk.pc # "failed" /\ psk'.pc = "failed"
DeviceGoesOn(n) ==
  /\ UNCHANGED psk /\ n \in 1..server.left /\ server'.left = server.left - n
HandsOut(n) ==
  /\ psk.pc = "tunnel" /\ psk'.pc = "tunnel" /\ n \in 1..psk.pending
  /\ psk'.buf = psk.buf /\ psk'.given = psk.given + n /\ psk'.pending = psk.pending - n
  /\ server'.left = server.left
ReplyGoesOn(n) ==
  /\ psk.pc = "request" /\ psk'.pc = "request" /\ ~(psk.buf + n >= Reply)
  /\ psk'.buf = psk.buf + n /\ psk'.given = psk.given /\ psk'.pending = psk.pending
  /\ server'.left = server.left
ReplyEnds(n) ==
  /\ psk.pc = "request" /\ psk'.pc = "tunnel" /\ psk.buf + n >= Reply
  /\ psk'.buf = Reply /\ psk'.given = psk.given /\ psk'.pending = (psk.buf + n) - Reply
  /\ server'.left = server.left
TakesMore(n) ==
  /\ psk.pc = "tunnel" /\ psk'.pc = "tunnel"
  /\ psk'.buf = psk.buf /\ psk'.given = psk.given /\ psk'.pending = psk.pending + n
  /\ server'.left = server.left

\* A set of numbers that is not empty has a least element.
LEMMA LeastNumber ==
  ASSUME NEW T, T \subseteq Nat, T # {}
  PROVE  \E m \in T : \A n \in T : m <= n
<1> DEFINE R == {ss \in Nat \X Nat : ss[1] < ss[2]}
<1>1. IsWellFoundedOn(R, Nat)
  BY NatLessThanWellFounded DEF OpToRel
<1>2. \A m, n \in Nat : n < m => <<n, m>> \in R
  OBVIOUS
<1> HIDE DEF R
<1>3. PICK m \in T : \A n \in T : ~(<<n, m>> \in R)
  BY <1>1, WFMin
<1>4. ASSUME NEW n \in T PROVE m <= n
  <2>1. m \in Nat /\ n \in Nat /\ ~(n < m)
    BY <1>2, <1>3
  <2> QED
    BY <2>1
<1> QED
  BY <1>4

\* A stream does not end before it begins.
LEMMA CarryGrows ==
  ASSUME NEW q \in Seq(DeviceRecords), NEW p \in Nat, NEW e, Carry(q, p, e)
  PROVE  p <= e
<1>1. PICK at \in [0..Len(q) -> 0..(Reply + Extra)] :
        /\ at[0] = p /\ at[Len(q)] = e
        /\ \A i \in 1..Len(q) : at[i] = at[i - 1] + DataBytes(q[i])
  BY DEF Carry
<1> DEFINE Before == {i \in 0..Len(q) : at[i] < p}
<1>2. Before = {}
  <2>1. SUFFICES ASSUME Before # {} PROVE FALSE
    OBVIOUS
  <2>2. Before \subseteq Nat
    OBVIOUS
  <2>3. PICK m \in Before : \A n \in Before : m <= n
    <3> HIDE DEF Before
    <3> QED
      BY <2>1, <2>2, LeastNumber
  <2>4. m \in 1..Len(q) /\ m - 1 \in 0..Len(q) /\ m \in Nat
    BY <1>1
  <2>5. ~(at[m - 1] < p)
    BY <2>3, <2>4
  <2>6. at[m] = at[m - 1] + DataBytes(q[m])
    BY <1>1, <2>4
  <2>7. DataBytes(q[m]) \in Nat
    <3>1. q[m] \in DeviceRecords
      BY <2>4
    <3> QED
      BY <3>1 DEF DataBytes, DeviceRecords, PlainRecords, DataRecords
  <2>8. at[m] < p /\ at[m - 1] \in Nat
    BY <1>1, <2>4, ReplyNumbers
  <2> QED
    BY <2>5, <2>6, <2>7, <2>8
<1>3. Len(q) \in 0..Len(q) /\ e \in Nat
  BY <1>1, ReplyNumbers
<1> QED
  BY <1>1, <1>2, <1>3

\* The numbers of the stream, in a state.
LEMMA TunnelNumbers ==
  ASSUME TunnelInv
  PROVE  /\ psk.buf \in Nat /\ psk.given \in Nat /\ psk.pending \in Nat
         /\ server.left \in Nat /\ server.left <= Reply + Extra
         /\ psk.pc # "failed" =>
              psk.buf + (psk.given + psk.pending) <= (Reply + Extra) - server.left
         /\ psk.pc \notin {"tunnel", "failed"} => psk.given = 0 /\ psk.pending = 0
         /\ psk.pc = "tunnel" => psk.buf = Reply
<1>1. psk.buf \in Nat /\ psk.given \in Nat /\ psk.pending \in Nat
      /\ psk.buf + (psk.given + psk.pending) \in Nat
  BY HostFields DEF TunnelInv, TunnelTyped
<1>2. server.left \in Nat /\ server.left <= Reply + Extra
  <2>1. server.left \in 0..(Reply + Extra)
    BY DeviceFields DEF TunnelInv, TunnelTyped
  <2> QED
    BY <2>1, ReplyNumbers
<1>3. psk.pc # "failed" =>
        psk.buf + (psk.given + psk.pending) <= (Reply + Extra) - server.left
  BY <1>1, CarryGrows DEF TunnelInv, TunnelTyped, StreamKept
<1> QED
  BY <1>1, <1>2, <1>3 DEF TunnelInv, TunnelPhases

\* And in the next one.
LEMMA TunnelNumbersNext ==
  ASSUME TunnelInv'
  PROVE  /\ psk'.buf \in Nat /\ psk'.given \in Nat /\ psk'.pending \in Nat
         /\ server'.left \in Nat /\ server'.left <= Reply + Extra
         /\ psk'.pc # "failed" =>
              psk'.buf + (psk'.given + psk'.pending) <= (Reply + Extra) - server'.left
         /\ psk'.pc = "tunnel" => psk'.buf = Reply
<1> DEFINE h == psk'
           d == server'
           q == tunnelToHost'
<1>1. h \in HostStates /\ d \in TunnelServers /\ q \in Seq(DeviceRecords)
      /\ (h.pc # "failed" => Carry(q, h.buf + (h.given + h.pending), (Reply + Extra) - d.left))
      /\ (h.pc = "tunnel" => h.buf = Reply)
  BY DEF TunnelInv, TunnelTyped, TunnelPhases, StreamKept
<1> HIDE DEF h, d, q
<1>2. h.buf \in Nat /\ h.given \in Nat /\ h.pending \in Nat
  BY <1>1 DEF HostStates
<1>3. h.buf + (h.given + h.pending) \in Nat
  BY ONLY <1>2
<1>4. d.left \in Nat /\ d.left <= Reply + Extra
  BY <1>1, ReplyNumbers DEF TunnelServers
<1>5. h.pc # "failed" => h.buf + (h.given + h.pending) <= (Reply + Extra) - d.left
  BY <1>1, <1>3, CarryGrows
<1> QED
  BY <1>1, <1>2, <1>4, <1>5 DEF h, d

\* readAppData() in the stream.
LEMMA ReadAppDataMoves ==
  ASSUME TunnelInv, NEW r, ReadAppData(r)
  PROVE  \/ StreamFails
         \/ \E n \in Nat : ReplyGoesOn(n) \/ ReplyEnds(n) \/ TakesMore(n)
<1>1. /\ psk \in HostStates /\ r \in DeviceRecords /\ Gives(r)
      /\ psk.pc \in {"request", "tunnel"} /\ server' = server
  BY HostTakes DEF TunnelInv, TunnelTyped, ReadAppData
<1>2. CASE TlsError \/ ReplyRefused
  <2>1. CASE TlsError
    <3>1. psk' = [psk EXCEPT !.pc = "failed"]
      BY <2>1 DEF TlsError
    <3> QED
      BY <1>1, <3>1 DEF StreamFails, StreamSame, HostStates
  <2>2. CASE ReplyRefused
    <3>1. psk' = [psk EXCEPT !.read = @ + 1, !.pc = "failed"]
      BY <2>2 DEF ReplyRefused
    <3> QED
      BY <1>1, <3>1 DEF StreamFails, StreamSame, HostStates
  <2> QED
    BY <1>2, <2>1, <2>2
<1>3. CASE ~TlsError /\ ~ReplyRefused
  <2> DEFINE n == r.body
             x == psk.read + 1
             b == psk.buf + n
             p == psk.pending + n
             rest == b - Reply
  <2>1. r.ct = "data"
    BY <1>3 DEF ReadAppData, Opens
  <2>2. n \in Nat
    BY <1>1, <2>1 DEF DeviceRecords, PlainRecords, DataRecords
  <2>3. IF psk.pc = "request" THEN TunnelReply(n) ELSE Refill(n)
    BY <1>3 DEF ReadAppData
  <2>4. CASE psk.pc = "request" /\ b >= Reply
    <3>1. psk' = [psk EXCEPT !.read = x, !.buf = Reply, !.pc = "tunnel", !.pending = rest]
      <4>1. b \in Nat
        <5>1. psk.buf \in Nat
          BY <1>1, HostFields
        <5> HIDE DEF n
        <5> QED
          BY <2>2, <5>1
      <4>2. b >= RecordHeader
        <5> HIDE DEF b
        <5> QED
          BY <2>4, <4>1, ReplyNumbers
      <4> QED
        BY <1>3, <2>3, <2>4, <4>2 DEF TunnelReply
    <3>2. /\ psk'.pc = "tunnel" /\ psk'.buf = Reply /\ psk'.given = psk.given
          /\ psk'.pending = rest
      <4> HIDE DEF x, rest
      <4> QED
        BY <1>1, <3>1 DEF HostStates
    <3>3. ReplyEnds(n)
      BY <1>1, <2>4, <3>2 DEF ReplyEnds
    <3> HIDE DEF n
    <3> QED
      BY <2>2, <3>3
  <2>5. CASE psk.pc = "request" /\ ~(b >= Reply)
    <3>1. psk' = [psk EXCEPT !.read = x, !.buf = b]
      BY <2>3, <2>5 DEF TunnelReply
    <3>2. /\ psk'.pc = psk.pc /\ psk'.buf = b /\ psk'.given = psk.given
          /\ psk'.pending = psk.pending
      <4> HIDE DEF x, b
      <4> QED
        BY <1>1, <3>1 DEF HostStates
    <3>3. ReplyGoesOn(n)
      BY <1>1, <2>5, <3>2 DEF ReplyGoesOn
    <3> HIDE DEF n
    <3> QED
      BY <2>2, <3>3
  <2>6. CASE psk.pc = "tunnel"
    <3>1. psk' = [psk EXCEPT !.read = x, !.pending = p]
      BY <2>3, <2>6 DEF Refill
    <3>2. /\ psk'.pc = psk.pc /\ psk'.buf = psk.buf /\ psk'.given = psk.given
          /\ psk'.pending = p
      <4> HIDE DEF x, p
      <4> QED
        BY <1>1, <3>1 DEF HostStates
    <3>3. TakesMore(n)
      BY <1>1, <2>6, <3>2 DEF TakesMore
    <3> HIDE DEF n
    <3> QED
      BY <2>2, <3>3
  <2> QED
    BY <1>1, <2>4, <2>5, <2>6
<1> QED
  BY <1>2, <1>3

\* The handshake's records and the host's own steps in the stream.
LEMMA HostMoves ==
  ASSUME TunnelInv,
         \/ \E r : ServerFlight(r) \/ ServerHelloDone(r) \/ AwaitFinished(r)
         \/ ClientHello \/ TunnelRequest
         \/ \E w \in Writers : WriteAppData(w) \/ WriteRecord(w)
  PROVE  StreamRests \/ StreamFails
<1>1. psk \in HostStates /\ server' = server
  BY DEF TunnelInv, TunnelTyped, ServerFlight, ServerHelloDone, AwaitFinished, ClientHello,
         TunnelRequest, WriteAppData, WriteRecord
<1>2. CASE TlsError
  <2>1. psk' = [psk EXCEPT !.pc = "failed"] /\ psk.pc # "failed"
    BY <1>2 DEF TlsError, ServerFlight, ServerHelloDone, AwaitFinished, ClientHello,
         TunnelRequest, WriteAppData, WriteRecord
  <2> QED
    BY <1>1, <2>1 DEF StreamFails, StreamSame, HostStates
<1> DEFINE Moves(pc, suite, write, read) ==
             [psk EXCEPT !.pc = pc, !.suite = suite, !.write = write, !.read = read]
           Steps(pc) == /\ pc \notin {"tunnel", "failed"} \/ pc = psk.pc
                        /\ psk.pc \notin {"tunnel", "failed"} \/ pc = psk.pc
<1>3. ASSUME NEW pc, NEW suite, NEW write, NEW read, psk' = Moves(pc, suite, write, read), Steps(pc)
      PROVE  StreamRests
  <2>1. /\ psk'.pc = pc /\ psk'.buf = psk.buf /\ psk'.given = psk.given
        /\ psk'.pending = psk.pending
    BY <1>1, <1>3 DEF HostStates
  <2> QED
    BY <1>1, <1>3, <2>1 DEF StreamRests, StreamSame
<1>4. psk = Moves(psk.pc, psk.suite, psk.write, psk.read)
  BY <1>1 DEF HostStates
<1>5. ASSUME NEW r, ServerFlight(r) \/ ServerHelloDone(r) \/ AwaitFinished(r), ~TlsError
      PROVE  StreamRests
  <2>1. CASE psk' = psk
    BY <1>1, <2>1 DEF StreamRests, StreamSame
  <2>2. CASE ServerFlight(r)
    <3> DEFINE suite == IF Len(r.body) > 0 /\ r.body[1] \in Suites THEN r.body[1] ELSE psk.suite
    <3>1. psk' = [psk EXCEPT !.suite = suite] /\ psk.pc = "server hello"
      BY <1>5, <2>2 DEF ServerFlight
    <3>2. psk' = Moves(psk.pc, suite, psk.write, psk.read)
      <4> HIDE DEF suite
      <4> QED
        BY <1>1, <3>1 DEF HostStates
    <3> HIDE DEF Moves
    <3> QED
      BY <1>3, <3>1, <3>2, ZenonT(60)
  <2>3. CASE ServerHelloDone(r)
    <3> DEFINE suite == IF r.body[1] \in Suites THEN r.body[1] ELSE psk.suite
    <3>1. psk' = [psk EXCEPT !.pc = "finished", !.suite = suite, !.write = 1]
          /\ psk.pc = "server hello"
      BY <1>5, <2>3 DEF ServerHelloDone
    <3>2. psk' = Moves("finished", suite, 1, psk.read)
      <4> HIDE DEF suite
      <4> QED
        BY <1>1, <3>1 DEF HostStates
    <3> HIDE DEF Moves
    <3> QED
      BY <1>3, <3>1, <3>2
  <2>4. CASE AwaitFinished(r)
    <3> DEFINE pc == IF r.body = <<"finished">> THEN "open" ELSE psk.pc
               x == psk.read + 1
    <3>1. (psk' = [psk EXCEPT !.read = x, !.pc = pc] \/ psk' = psk) /\ psk.pc = "finished"
      BY <1>5, <2>4 DEF AwaitFinished
    <3>2. Steps(pc)
      BY <3>1
    <3>3. psk' = psk \/ psk' = Moves(pc, psk.suite, psk.write, x)
      <4> HIDE DEF pc, x
      <4> QED
        BY <1>1, <3>1 DEF HostStates
    <3> HIDE DEF Moves, pc, x, Steps
    <3> QED
      BY <1>3, <2>1, <3>2, <3>3
  <2> QED
    BY <1>5, <2>2, <2>3, <2>4
<1>6. CASE ClientHello
  <2>1. psk' = [psk EXCEPT !.pc = "server hello"] /\ psk.pc = "start"
    BY <1>6 DEF ClientHello
  <2>2. psk' = Moves("server hello", psk.suite, psk.write, psk.read)
    BY <1>1, <2>1 DEF HostStates
  <2> HIDE DEF Moves
  <2> QED
    BY <1>3, <2>1, <2>2
<1>7. CASE TunnelRequest
  <2> DEFINE x == psk.write + 1
  <2>1. psk' = [psk EXCEPT !.pc = "request", !.write = x] /\ psk.pc = "open"
    BY <1>7 DEF TunnelRequest
  <2> HIDE DEF x
  <2>2. psk' = Moves("request", psk.suite, x, psk.read)
    BY <1>1, <2>1 DEF HostStates
  <2> HIDE DEF Moves
  <2> QED
    BY <1>3, <2>1, <2>2
<1>8. ASSUME NEW w \in Writers, WriteAppData(w) \/ WriteRecord(w)
      PROVE  StreamRests
  <2> DEFINE x == psk.write + 1
  <2>1. (psk' = psk \/ psk' = [psk EXCEPT !.write = x]) /\ psk.pc = "tunnel"
    BY <1>8 DEF WriteAppData, WriteRecord
  <2> HIDE DEF x
  <2>2. psk' = psk \/ psk' = Moves("tunnel", psk.suite, x, psk.read)
    BY <1>1, <2>1 DEF HostStates
  <2>3. CASE psk' = psk
    BY <1>1, <2>3 DEF StreamRests, StreamSame
  <2> HIDE DEF Moves
  <2> QED
    BY <1>3, <2>1, <2>2, <2>3
<1> QED
  BY <1>2, <1>5, <1>6, <1>7, <1>8

\* The reads of the tunnel, and the device, in the stream.
LEMMA StreamMoves ==
  ASSUME TunnelInv,
         \/ \E n \in 1..(Reply + Extra) : ReadExactPsk(n) \/ TunnelServerSends(n)
         \/ ServerAnswersHello \/ ServerAnswersFinished \/ ServerTakes
  PROVE  StreamRests \/ \E n \in Nat : HandsOut(n) \/ DeviceGoesOn(n)
<1>1. psk \in HostStates /\ server \in TunnelServers
  BY DEF TunnelInv, TunnelTyped
<1>2. ASSUME NEW n \in 1..(Reply + Extra), ReadExactPsk(n) PROVE HandsOut(n) /\ n \in Nat
  <2> DEFINE g == psk.given + n
             q == psk.pending - n
  <2>1. psk' = [psk EXCEPT !.pending = q, !.given = g] /\ psk.pc = "tunnel"
        /\ psk.pending >= n /\ server' = server
    BY <1>2 DEF ReadExactPsk
  <2>2. psk'.pc = psk.pc /\ psk'.buf = psk.buf /\ psk'.given = g /\ psk'.pending = q
    <3> HIDE DEF g, q
    <3> QED
      BY <1>1, <2>1 DEF HostStates
  <2>3. n \in Nat /\ n >= 1
    BY ONLY n \in 1..(Reply + Extra), ReplyNumbers
  <2>4. n \in 1..psk.pending
    <3>1. psk.pending \in Nat
      BY <1>1, HostFields
    <3> QED
      BY ONLY <2>1, <2>3, <3>1
  <2> QED
    BY <2>1, <2>2, <2>3, <2>4 DEF HandsOut
<1>3. ASSUME NEW n \in 1..(Reply + Extra), TunnelServerSends(n) PROVE DeviceGoesOn(n) /\ n \in Nat
  <2> DEFINE s == server.seq + 1
             l == server.left - n
  <2>1. server' = [server EXCEPT !.seq = s, !.left = l] /\ psk' = psk /\ n \in 1..server.left
    BY <1>3 DEF TunnelServerSends, Sends
  <2>2. server'.left = l
    <3> HIDE DEF s, l
    <3> QED
      BY <1>1, <2>1 DEF TunnelServers
  <2>3. n \in Nat
    BY ONLY n \in 1..(Reply + Extra), ReplyNumbers
  <2> QED
    BY <2>1, <2>2, <2>3 DEF DeviceGoesOn
<1>4. CASE ServerAnswersHello \/ ServerAnswersFinished \/ ServerTakes
  <2>1. psk' = psk
    BY <1>4 DEF ServerAnswersHello, ServerAnswersFinished, ServerTakes
  <2>2. Alert => server'.left = server.left
    BY <1>1 DEF Alert, Sends, TunnelServers
  <2>3. server'.left = server.left
    <3>1. CASE ServerAnswersHello
      BY <1>1, <2>2, <3>1 DEF ServerAnswersHello, Sends, TunnelServers
    <3>2. CASE ServerAnswersFinished
      BY <1>1, <2>2, <3>2 DEF ServerAnswersFinished, Sends, TunnelServers
    <3>3. CASE ServerTakes
      BY <1>1, <2>2, <3>3 DEF ServerTakes, TunnelServers
    <3> QED
      BY <1>4, <3>1, <3>2, <3>3
  <2> QED
    BY <2>1, <2>3 DEF StreamRests, StreamSame
<1> QED
  BY <1>2, <1>3, <1>4

\* The bytes pending and given stay within what follows the response.
LEMMA WithinExtra ==
  ASSUME NEW g \in Nat, NEW p \in Nat, NEW l \in Nat,
         Reply + (g + p) <= (Reply + Extra) - l
  PROVE  g + p <= Extra
BY ReplyNumbers

\* The bounds hold in the state after a step.
LEMMA BoundedKeeps ==
  ASSUME TunnelStreamInv, TunnelInv',
         \/ StreamRests \/ StreamFails
         \/ \E n \in Nat : \/ DeviceGoesOn(n) \/ HandsOut(n) \/ ReplyGoesOn(n)
                           \/ ReplyEnds(n) \/ TakesMore(n)
  PROVE  /\ psk'.pc \notin {"tunnel", "failed"} => psk'.buf < Reply
         /\ psk'.given + psk'.pending <= Extra
<1> DEFINE b == psk'.buf
           g == psk'.given
           p == psk'.pending
           l == server'.left
           b0 == psk.buf
           g0 == psk.given
           p0 == psk.pending
<1>1. /\ b0 \in Nat /\ g0 \in Nat /\ p0 \in Nat /\ b \in Nat /\ g \in Nat /\ p \in Nat /\ l \in Nat
      /\ psk'.pc # "failed" => b + (g + p) <= (Reply + Extra) - l
      /\ psk'.pc = "tunnel" => b = Reply
  BY TunnelNumbers, TunnelNumbersNext DEF TunnelStreamInv
<1>2. (psk.pc \notin {"tunnel", "failed"} => b0 < Reply) /\ g0 + p0 <= Extra
  BY DEF TunnelStreamInv, TunnelBounded
<1>3. CASE psk'.pc = "tunnel"
  <2>1. b = Reply /\ b + (g + p) <= (Reply + Extra) - l
    BY <1>1, <1>3
  <2> HIDE DEF b, g, p, l
  <2>2. g + p <= Extra
    BY <1>1, <2>1, WithinExtra
  <2> QED
    BY <1>3, <2>2 DEF g, p
<1>4. CASE psk'.pc # "tunnel"
  <2>1. \/ b = b0 /\ g = g0 /\ p = p0
           /\ (psk'.pc \notin {"tunnel", "failed"} => psk.pc \notin {"tunnel", "failed"})
        \/ ~(b >= Reply) /\ g = g0 /\ p = p0
    BY <1>4 DEF StreamRests, StreamFails, StreamSame, DeviceGoesOn, HandsOut, ReplyGoesOn,
                ReplyEnds, TakesMore
  <2>2. psk'.pc \notin {"tunnel", "failed"} => b < Reply
    <3> HIDE DEF b, g, p
    <3> QED
      BY <1>1, <1>2, <2>1, ReplyNumbers
  <2>3. g + p <= Extra
    <3> HIDE DEF g, p
    <3> QED
      BY <1>2, <2>1
  <2> QED
    BY <2>2, <2>3
<1> QED
  BY <1>3, <1>4

\* A step of the tunnel is a step of the stream, or leaves the stream as it is.
LEMMA TunnelSimulates ==
  ASSUME TunnelStreamInv, TunnelInv',
         \/ StreamRests \/ StreamFails
         \/ \E n \in Nat : \/ DeviceGoesOn(n) \/ HandsOut(n) \/ ReplyGoesOn(n)
                           \/ ReplyEnds(n) \/ TakesMore(n)
  PROVE  [TunnelBytes!StreamNext]_(TunnelBytes!streamVars)
<1> DEFINE b == psk'.buf
           g == psk'.given
           p == psk'.pending
           l == server'.left
           b0 == psk.buf
           g0 == psk.given
           p0 == psk.pending
           l0 == server.left
           s == (Reply + Extra) - l
           s0 == (Reply + Extra) - l0
<1>1. /\ b0 \in Nat /\ g0 \in Nat /\ p0 \in Nat /\ l0 \in Nat /\ l0 <= Reply + Extra
      /\ b \in Nat /\ g \in Nat /\ p \in Nat /\ l \in Nat /\ l <= Reply + Extra
      /\ psk'.pc # "failed" => b + (g + p) <= (Reply + Extra) - l
      /\ psk.pc \notin {"tunnel", "failed"} => g0 = 0 /\ p0 = 0
  BY TunnelNumbers, TunnelNumbersNext DEF TunnelStreamInv
<1>2. CASE StreamRests
  <2>1. b = b0 /\ g = g0 /\ p = p0 /\ l = l0 /\ (psk'.pc = "failed" <=> psk.pc = "failed")
    BY <1>2 DEF StreamRests, StreamSame
  <2> QED
    BY <2>1 DEF TunnelBytes!streamVars
<1>3. CASE StreamFails
  <2>1. b = b0 /\ g = g0 /\ p = p0 /\ l = l0 /\ psk'.pc = "failed" /\ psk.pc # "failed"
    BY <1>3 DEF StreamFails, StreamSame
  <2> QED
    BY <2>1 DEF TunnelBytes!StreamNext, TunnelBytes!End
<1>4. ASSUME NEW n \in Nat, DeviceGoesOn(n)
      PROVE  TunnelBytes!Send
  <2>1. UNCHANGED psk /\ n \in 1..l0 /\ l = l0 - n
    BY <1>4 DEF DeviceGoesOn
  <2>2. s \in Nat /\ s > s0
    <3> HIDE DEF l, l0
    <3> QED
      BY <1>1, <2>1, ReplyNumbers
  <2> QED
    BY <2>1, <2>2 DEF TunnelBytes!Send
<1>5. ASSUME NEW n \in Nat, HandsOut(n)
      PROVE  TunnelBytes!Read
  <2>1. /\ psk.pc = "tunnel" /\ psk'.pc = "tunnel" /\ n \in 1..p0 /\ l = l0
        /\ b = b0 /\ g = g0 + n /\ p = p0 - n
    BY <1>5 DEF HandsOut
  <2>2. b + g \in ((b0 + g0) + 1)..(b0 + (g0 + p0)) /\ b + (g + p) = b0 + (g0 + p0)
    <3> HIDE DEF b, g, p, b0, g0, p0
    <3> QED
      BY <1>1, <2>1
  <2> QED
    BY <2>1, <2>2 DEF TunnelBytes!Read
<1>6. ASSUME psk.pc # "failed", psk'.pc # "failed", l = l0,
             b0 + (g0 + p0) <= b + (g + p), b0 + g0 <= b + g,
             b + (g + p) = b0 + (g0 + p0) => b + g = b0 + g0
      PROVE  [TunnelBytes!StreamNext]_(TunnelBytes!streamVars)
  <2>1. CASE b + (g + p) = b0 + (g0 + p0)
    BY <1>6, <2>1 DEF TunnelBytes!streamVars
  <2>2. CASE b + (g + p) # b0 + (g0 + p0)
    <3>1. /\ b + (g + p) \in ((b0 + (g0 + p0)) + 1)..((Reply + Extra) - l0)
          /\ b + g \in (b0 + g0)..(b + (g + p))
      <4>1. b + (g + p) <= (Reply + Extra) - l
        BY <1>1, <1>6
      <4> HIDE DEF b, g, p, l, b0, g0, p0, l0
      <4> QED
        BY <1>1, <1>6, <2>2, <4>1, ReplyNumbers
    <3> QED
      BY <1>6, <3>1 DEF TunnelBytes!StreamNext, TunnelBytes!Get
  <2> QED
    BY <2>1, <2>2
<1>7. ASSUME NEW n \in Nat, ReplyGoesOn(n)
      PROVE  [TunnelBytes!StreamNext]_(TunnelBytes!streamVars)
  <2>1. /\ psk.pc = "request" /\ psk'.pc = "request" /\ l = l0
        /\ b = b0 + n /\ g = g0 /\ p = p0
    BY <1>7 DEF ReplyGoesOn
  <2>2. /\ b0 + (g0 + p0) <= b + (g + p) /\ b0 + g0 <= b + g
        /\ b + (g + p) = b0 + (g0 + p0) => b + g = b0 + g0
    <3> HIDE DEF b, g, p, b0, g0, p0
    <3> QED
      BY <1>1, <2>1
  <2> QED
    BY <1>6, <2>1, <2>2
<1>8. ASSUME NEW n \in Nat, ReplyEnds(n)
      PROVE  [TunnelBytes!StreamNext]_(TunnelBytes!streamVars)
  <2>1. /\ psk.pc = "request" /\ psk'.pc = "tunnel" /\ l = l0 /\ b0 + n >= Reply
        /\ b = Reply /\ g = g0 /\ p = (b0 + n) - Reply
    BY <1>8 DEF ReplyEnds
  <2>2. b0 < Reply /\ g0 = 0 /\ p0 = 0
    BY <1>1, <2>1 DEF TunnelStreamInv, TunnelBounded
  <2>3. /\ b0 + (g0 + p0) <= b + (g + p) /\ b0 + g0 <= b + g
        /\ b + (g + p) # b0 + (g0 + p0)
    <3> HIDE DEF b, g, p, b0, g0, p0
    <3> QED
      BY <1>1, <2>1, <2>2, ReplyNumbers
  <2> QED
    BY <1>6, <2>1, <2>3
<1>9. ASSUME NEW n \in Nat, TakesMore(n)
      PROVE  [TunnelBytes!StreamNext]_(TunnelBytes!streamVars)
  <2>1. /\ psk.pc = "tunnel" /\ psk'.pc = "tunnel" /\ l = l0
        /\ b = b0 /\ g = g0 /\ p = p0 + n
    BY <1>9 DEF TakesMore
  <2>2. /\ b0 + (g0 + p0) <= b + (g + p) /\ b0 + g0 <= b + g
        /\ b + (g + p) = b0 + (g0 + p0) => b + g = b0 + g0
    <3> HIDE DEF b, g, p, b0, g0, p0
    <3> QED
      BY <1>1, <2>1
  <2> QED
    BY <1>6, <2>1, <2>2
<1> QED
  BY <1>2, <1>3, <1>4, <1>5, <1>7, <1>8, <1>9 DEF TunnelBytes!StreamNext

\* The records that the writers have still to send.
LEMMA WritersBounded ==
  ASSUME writer \in [Writers -> 0..Chunks], [PskNext]_pskVars
  PROVE  writer' \in [Writers -> 0..Chunks]
<1>1. Chunks \in Nat
  BY PskTunnelAssumption
<1>2. ASSUME NEW w \in Writers, WriteAppData(w) \/ WriteRecord(w)
      PROVE  writer' \in [Writers -> 0..Chunks]
  <2>1. \/ writer' = [writer EXCEPT ![w] = Chunks]
        \/ writer[w] > 0 /\ writer' = [writer EXCEPT ![w] = @ - 1]
    BY <1>2 DEF WriteAppData, WriteRecord
  <2>2. writer[w] \in 0..Chunks
    OBVIOUS
  <2>3. writer[w] > 0 => writer[w] - 1 \in 0..Chunks
    BY <1>1, <2>2
  <2> QED
    BY <1>1, <2>1, <2>3
<1>3. ASSUME UNCHANGED writer PROVE writer' \in [Writers -> 0..Chunks]
  BY <1>3
<1> QED
  BY <1>2, <1>3
  DEF PskNext, pskVars, ClientHello, TunnelRequest, ServerFlight, ServerHelloDone,
      AwaitFinished, ReadAppData, ReadExactPsk, TunnelServerSends, ServerAnswersHello,
      ServerAnswersFinished, ServerTakes

\* The stream starts with the connection.
LEMMA TunnelStreamStarts == PskInit => TunnelStreamInv /\ TunnelBytes!StreamInit
<1> SUFFICES ASSUME PskInit PROVE TunnelStreamInv /\ TunnelBytes!StreamInit
  OBVIOUS
<1>1. TunnelInv
  BY TunnelStarts
<1>2. /\ psk = [pc |-> "start", suite |-> "none", write |-> 0, read |-> 0,
                buf |-> 0, given |-> 0, pending |-> 0]
      /\ writer = [w \in Writers |-> 0] /\ server.left = Reply + Extra
  BY DEF PskInit
<1>3. Reply \in Nat \ {0} /\ Extra \in Nat /\ Chunks \in Nat
  BY PskTunnelAssumption
<1>4. TunnelBounded
  BY <1>2, <1>3 DEF TunnelBounded
<1>5. TunnelBytes!StreamInit
  BY <1>2, <1>3 DEF TunnelBytes!StreamInit
<1> QED
  BY <1>1, <1>4, <1>5 DEF TunnelStreamInv

\* Each step of the tunnel keeps the invariant and is one of the stream's.
LEMMA TunnelStreamSteps ==
  TunnelStreamInv /\ [PskNext]_pskVars =>
    TunnelStreamInv' /\ [TunnelBytes!StreamNext]_(TunnelBytes!streamVars)
<1> SUFFICES ASSUME TunnelStreamInv, [PskNext]_pskVars
             PROVE  TunnelStreamInv' /\ [TunnelBytes!StreamNext]_(TunnelBytes!streamVars)
  OBVIOUS
<1>1. TunnelInv /\ TunnelInv'
  BY TunnelKeeps DEF TunnelStreamInv
<1>2. \/ StreamRests \/ StreamFails
      \/ \E n \in Nat : \/ DeviceGoesOn(n) \/ HandsOut(n) \/ ReplyGoesOn(n)
                        \/ ReplyEnds(n) \/ TakesMore(n)
  <2>1. UNCHANGED pskVars => StreamRests
    BY DEF pskVars, StreamRests, StreamSame
  <2>2. (\E r : ReadAppData(r)) =>
          StreamFails \/ \E n \in Nat : ReplyGoesOn(n) \/ ReplyEnds(n) \/ TakesMore(n)
    BY <1>1, ReadAppDataMoves
  <2> QED
    BY <1>1, <2>1, <2>2, HostMoves, StreamMoves DEF PskNext
<1>3. writer' \in [Writers -> 0..Chunks]
  BY WritersBounded DEF TunnelStreamInv, TunnelBounded
<1>4. TunnelStreamInv'
  BY <1>1, <1>2, <1>3, BoundedKeeps DEF TunnelStreamInv, TunnelBounded
<1> QED
  BY <1>1, <1>2, <1>4, TunnelSimulates

\* PskTunnel: no more bytes are pending or given to readers than the device
\* sends after the response, and each writer has at most its call's records to
\* send, in any number of calls.
THEOREM TunnelTypesCorrect == PskSpec => []PskTypeOK
<1>1. PskInit => TunnelStreamInv
  BY TunnelStreamStarts
<1>2. TunnelStreamInv /\ [PskNext]_pskVars => TunnelStreamInv'
  BY TunnelStreamSteps
<1>3. TunnelStreamInv => PskTypeOK
  <2> SUFFICES ASSUME TunnelStreamInv PROVE PskTypeOK
    OBVIOUS
  <2>1. psk.suite \in Suites \cup {"none"} /\ psk.given \in Nat /\ psk.pending \in Nat
    BY HostFields DEF TunnelStreamInv, TunnelInv, TunnelTyped
  <2>2. psk.given + psk.pending <= Extra /\ writer \in [Writers -> 0..Chunks]
    BY DEF TunnelStreamInv, TunnelBounded
  <2>3. psk.given \in 0..Extra /\ psk.pending \in 0..Extra
    BY <2>1, <2>2, ReplyNumbers
  <2> QED
    BY <2>1, <2>2, <2>3 DEF PskTypeOK
<1> QED
  BY <1>1, <1>2, <1>3, PTL DEF PskSpec

\* The tunnel hands its readers the device's bytes, the CDTunnel response and
\* what follows it, from the first one on, in order and each once, however the
\* device cuts them into records, until a record fails to open (readAppData,
\* readExact and performCdTunnelHandshake of src/pairing/remote-pairing.ts):
\* the promise that MuxTcpConnection keeps.
THEOREM TunnelIsByteStream == PskSpec => TunnelImplements
<1>1. PskInit => TunnelStreamInv /\ TunnelBytes!StreamInit
  BY TunnelStreamStarts
<1>2. TunnelStreamInv /\ [PskNext]_pskVars =>
        TunnelStreamInv' /\ [TunnelBytes!StreamNext]_(TunnelBytes!streamVars)
  BY TunnelStreamSteps
<1> QED
  BY <1>1, <1>2, PTL DEF PskSpec, TunnelImplements, TunnelBytes!StreamSpec

=============================================================================
