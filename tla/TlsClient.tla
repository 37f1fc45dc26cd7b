----------------------------- MODULE TlsClient -----------------------------
(***************************************************************************)
(* src/pairing/tls-client.ts: HandshakeDriver and TlsTransport over a      *)
(* byte stream, with the TLS server at its other end.  The cipher is       *)
(* abstract: a sealed record carries the key, the number and the previous  *)
(* block it was made with and opens only with the same ones.  A handshake  *)
(* message is its name; a message is two bytes long, its header and its    *)
(* body, which may come in one record or in several.                       *)
(***************************************************************************)
EXTENDS Integers, Sequences, FiniteSets

CONSTANTS
  TlsWriters,    \* callers of TlsTransport.write() at one time
  TlsFragments,  \* records that one call is split into
  Cuts,          \* the numbers of bytes that the server puts in a record
  MaxData        \* bound: sealed records of either side after its Finished

ASSUME TlsAssumption ==
  TlsFragments \in Nat \ {0} /\ Cuts \subseteq Nat \ {0} /\ MaxData \in Nat

VARIABLES
  tls,      \* the driver and the TlsTransport
  writing,  \* fragments that each writer has still to send
  peer,     \* the TLS server
  outgoing, \* records on their way to it
  incoming, \* pieces of records on their way to the driver
  onWire    \* history: the numbers of the sealed records in wire order

tlsVars == <<tls, writing, peer, outgoing, incoming, onWire>>

Versions == {"1.0", "1.1", "1.2"}

NoSeal == [key |-> "none", seq |-> 0]
TlsRecord(type, over, seal) == [type |-> type, over |-> over, seal |-> seal]

\* the premaster of an RSA exchange holds the version that was offered
KeyOf(suite, version) == IF suite = "ecdhe" THEN "point" ELSE version

TlsInit ==
  /\ \E offered \in {"1.0", "1.2"}, cert \in BOOLEAN :
       tls = [pc |-> "start", offered |-> offered, cert |-> cert,
              version |-> "1.0", suite |-> "none", req |-> FALSE,
              serverCert |-> FALSE, point |-> FALSE, key |-> "none",
              transcript |-> <<>>, hsBuf |-> 0, reading |-> "none",
              toSend |-> <<>>, write |-> 0, read |-> 0,
              closed |-> FALSE, shut |-> FALSE]
  /\ writing = [w \in TlsWriters |-> 0]
  /\ peer = [pc |-> "hello", version |-> "1.0", suite |-> "none",
             strict |-> TRUE, flight |-> <<>>, bytes |-> 0, key |-> "none",
             transcript |-> <<>>, signed |-> TRUE, expect |-> 0, seq |-> 0]
  /\ outgoing = <<>> /\ incoming = <<>> /\ onWire = <<>>

-----------------------------------------------------------------------------
(* The record layer                                                        *)

Fails == tls' = [tls EXCEPT !.pc = "failed", !.reading = "none"]

\* withHandshakeTimeout(): the transport is closed too
FailsShut == tls' = [tls EXCEPT !.pc = "failed", !.reading = "none", !.shut = TRUE]

Shaking == tls.pc \in {"flight", "ccs", "finished"}

\* readRecord(): the header, of which the driver learns the length
ReadHeader ==
  /\ tls.pc \in {"flight", "ccs", "finished", "open"} /\ tls.reading = "none"
  /\ tls.pc = "flight" => tls.hsBuf < 2
  /\ ~tls.shut /\ incoming # <<>> /\ Head(incoming).type = "header"
  /\ incoming' = Tail(incoming)
  /\ tls' = [tls EXCEPT !.reading = "payload"]
  /\ UNCHANGED <<writing, peer, outgoing, onWire>>

\* and the payload
Payload(r) ==
  /\ tls.reading = "payload" /\ ~tls.shut
  /\ incoming # <<>> /\ r = Head(incoming) /\ incoming' = Tail(incoming)
  /\ UNCHANGED <<writing, peer, outgoing, onWire>>

\* (mutant) the wait for a payload has no timeout
TimeoutOfHeader ==
  /\ Shaking /\ ~tls.shut /\ tls.reading = "none" /\ incoming = <<>>
  /\ tls.pc = "flight" => tls.hsBuf < 2
  /\ FailsShut
  /\ UNCHANGED <<writing, peer, outgoing, incoming, onWire>>

\* a read that had no answer for handshakeTimeoutMs, or that the stream's end
\* rejected; the read itself is abandoned
Timeout ==
  /\ Shaking /\ ~tls.shut /\ incoming = <<>>
  /\ tls.pc = "flight" => tls.hsBuf < 2
  /\ FailsShut
  /\ UNCHANGED <<writing, peer, outgoing, incoming, onWire>>

\* encryptRecord() and transport.write() with no await between them
Seals(type, over) ==
  /\ outgoing' = Append(outgoing, TlsRecord(type, over, [key |-> tls.key, seq |-> tls.write]))
  /\ onWire' = Append(onWire, tls.write)

OpensTls(r, type) ==
  /\ r.type = type /\ r.seal.key = tls.key /\ r.seal.seq = tls.read

-----------------------------------------------------------------------------
(* runHandshake()                                                          *)

SendHello ==
  /\ tls.pc = "start"
  /\ tls' = [tls EXCEPT !.pc = "flight", !.transcript = <<"ClientHello">>]
  /\ outgoing' = Append(outgoing, TlsRecord("handshake", <<"ClientHello">>, NoSeal))
  /\ UNCHANGED <<writing, peer, incoming, onWire>>

\* nextHandshakeMessage(): another record for the buffer
Buffer(r) ==
  /\ tls.pc = "flight" /\ Payload(r)
  /\ IF r.type = "handshake"
     THEN tls' = [tls EXCEPT !.hsBuf = @ + Len(r.over), !.reading = "none"]
     ELSE Fails

\* the messages of the server's flight in the order they were sent
Taken == Len(tls.transcript) - 1

\* what follows ServerHelloDone, as the records that are still to be written
ClientFlight ==
  (IF tls.req THEN <<"Certificate", "ClientKeyExchange", "CertificateVerify">>
              ELSE <<"ClientKeyExchange">>) \o <<"ccs", "Finished">>

\* (mutant) the premaster holds the version that was negotiated
HelloDoneNegotiated(t) ==
  IF /\ t.suite # "none" /\ t.serverCert
     /\ t.suite = "ecdhe" => t.point
     /\ t.req => t.cert
  THEN tls' = [t EXCEPT !.pc = "sending", !.toSend = ClientFlight,
                        !.key = KeyOf(t.suite, t.version)]
  ELSE tls' = [t EXCEPT !.pc = "failed"]

\* ServerHelloDone: the checks, the keys, and the certificate if it is asked for
HelloDone(t) ==
  IF /\ t.suite # "none" /\ t.serverCert
     /\ t.suite = "ecdhe" => t.point
     /\ t.req => t.cert
  THEN tls' = [t EXCEPT !.pc = "sending", !.toSend = ClientFlight,
                        !.key = KeyOf(t.suite, t.offered)]
  ELSE tls' = [t EXCEPT !.pc = "failed"]

\* one message of the flight, once its bytes are there
FlightMessage ==
  /\ tls.pc = "flight" /\ tls.reading = "none" /\ tls.hsBuf >= 2
  /\ LET m == peer.flight[Taken + 1]
         t == [tls EXCEPT !.hsBuf = @ - 2, !.transcript = Append(@, m)]
     IN CASE m = "ServerHello" /\ peer.version # "1.1" /\ peer.suite # "unknown" ->
               tls' = [t EXCEPT !.version = peer.version, !.suite = peer.suite]
          [] m = "Certificate" -> tls' = [t EXCEPT !.serverCert = TRUE]
          [] m = "ServerKeyExchange" /\ tls.suite = "ecdhe" ->
               tls' = [t EXCEPT !.point = TRUE]
          [] m = "CertificateRequest" -> tls' = [t EXCEPT !.req = TRUE]
          [] m = "ServerHelloDone" -> HelloDone(t)
          [] OTHER -> tls' = [t EXCEPT !.pc = "failed"]
  /\ UNCHANGED <<writing, peer, outgoing, incoming, onWire>>

\* A record of the client's flight.  CertificateVerify signs the transcript
\* before it, Finished covers the one before it and is the first sealed record.
SendFlight ==
  /\ tls.pc = "sending" /\ ~tls.shut
  /\ LET m == Head(tls.toSend)
         t == [tls EXCEPT !.toSend = Tail(@)]
     IN CASE m = "ccs" ->
               /\ tls' = [t EXCEPT !.write = 0]
               /\ outgoing' = Append(outgoing, TlsRecord("ccs", <<>>, NoSeal))
               /\ UNCHANGED onWire
          [] m = "Finished" ->
               /\ tls' = [t EXCEPT !.pc = "ccs", !.write = 1,
                                   !.transcript = Append(@, m)]
               /\ Seals("handshake", tls.transcript)
          [] OTHER ->
               /\ tls' = [t EXCEPT !.transcript = Append(@, m)]
               /\ outgoing' = Append(outgoing, TlsRecord("handshake",
                    IF m = "CertificateVerify" THEN tls.transcript ELSE <<m>>, NoSeal))
               /\ UNCHANGED onWire
  /\ UNCHANGED <<writing, peer, incoming>>

\* exactly a ChangeCipherSpec, an alert is as wrong as anything else
ReadCcs(r) ==
  /\ tls.pc = "ccs" /\ Payload(r)
  /\ IF r.type = "ccs"
     THEN tls' = [tls EXCEPT !.pc = "finished", !.reading = "none", !.read = 0]
     ELSE Fails

\* (mutant) the verify data is not compared
ReadFinishedUnchecked(r) ==
  /\ tls.pc = "finished" /\ Payload(r)
  /\ IF r.type = "handshake"
     THEN tls' = [tls EXCEPT !.pc = "open", !.reading = "none", !.read = 1]
     ELSE Fails

ReadFinished(r) ==
  /\ tls.pc = "finished" /\ Payload(r)
  /\ IF OpensTls(r, "handshake") /\ r.over = tls.transcript
     THEN tls' = [tls EXCEPT !.pc = "open", !.reading = "none", !.read = 1]
     ELSE Fails

-----------------------------------------------------------------------------
(* TlsTransport                                                            *)

StartWrite(w) ==
  /\ tls.pc = "open" /\ ~tls.closed /\ ~tls.shut
  /\ writing[w] = 0 /\ tls.write <= MaxData
  /\ writing' = [writing EXCEPT ![w] = TlsFragments]
  /\ UNCHANGED <<tls, peer, outgoing, incoming, onWire>>

\* (mutant) a fragment's number is taken when the call starts
WriteFragmentEarly(w) ==
  /\ writing[w] > 0 /\ ~tls.shut
  /\ writing' = [writing EXCEPT ![w] = @ - 1]
  /\ Seals("data", <<>>)
  /\ tls' = [tls EXCEPT !.write = IF writing[w] = 1 THEN @ + TlsFragments ELSE @]
  /\ UNCHANGED <<peer, incoming>>

\* a fragment of writeAppData(); after close() the loop rejects instead
WriteFragment(w) ==
  /\ writing[w] > 0
  /\ IF tls.shut
     THEN /\ writing' = [writing EXCEPT ![w] = 0]
          /\ UNCHANGED <<tls, outgoing, onWire>>
     ELSE /\ writing' = [writing EXCEPT ![w] = @ - 1]
          /\ Seals("data", <<>>)
          /\ tls' = [tls EXCEPT !.write = @ + 1]
  /\ UNCHANGED <<peer, incoming>>

\* readAppData(): close_notify makes the driver dead, another alert or a record
\* that does not open only rejects the call
ReadAppRecord(r) ==
  /\ tls.pc = "open" /\ Payload(r)
  /\ LET t == [tls EXCEPT !.reading = "none"]
     IN IF r.type \in {"data", "alert"} /\ OpensTls(r, r.type)
        THEN tls' = [t EXCEPT !.read = @ + 1,
                       !.shut = r.type = "alert" /\ r.over = <<"close_notify">>]
        ELSE tls' = t

\* close(): close_notify when it can be sent, then the transport
CloseTls ==
  /\ tls.pc = "open" /\ ~tls.closed
  /\ IF tls.shut
     THEN UNCHANGED <<outgoing, onWire>> /\ tls' = [tls EXCEPT !.closed = TRUE]
     ELSE /\ Seals("alert", <<"close_notify">>)
          /\ tls' = [tls EXCEPT !.closed = TRUE, !.shut = TRUE, !.write = @ + 1]
  /\ UNCHANGED <<writing, peer, incoming>>

-----------------------------------------------------------------------------
(* The server, external                                                    *)

\* what is sent whole, in two pieces
Whole(r) == <<TlsRecord("header", <<>>, NoSeal), r>>

Flights(suite, req) ==
  LET kx == IF suite = "ecdhe" THEN <<"ServerKeyExchange">> ELSE <<>>
      ask == IF req THEN <<"CertificateRequest">> ELSE <<>>
      done == <<"ServerHelloDone">>
  IN  {<<"ServerHello", "Certificate">> \o kx \o ask \o done,
       <<"ServerHello", "Certificate">> \o done,
       <<"ServerHello", "ServerKeyExchange">> \o done,
       <<"Certificate">> \o done, <<"ServerKeyExchange">>, <<"Other">>}

\* It answers with a version no higher than the offered one; `strict` is false
\* for one that wants the negotiated version in the premaster.
PeerHello ==
  /\ peer.pc = "hello" /\ outgoing # <<>> /\ outgoing' = Tail(outgoing)
  /\ \E version \in Versions, suite \in {"ecdhe", "rsa", "unknown"},
        req, strict \in BOOLEAN : \E flight \in Flights(suite, req) :
       /\ tls.offered = "1.0" => version = "1.0"
       /\ peer' = [peer EXCEPT !.pc = "flight", !.version = version, !.suite = suite,
            !.strict = strict, !.flight = flight,
            !.transcript = <<"ClientHello">> \o flight,
            !.key = KeyOf(suite, IF strict THEN tls.offered ELSE version)]
  /\ UNCHANGED <<tls, writing, incoming, onWire>>

\* the next record of its flight, of as many bytes as it likes
PeerFlight(n) ==
  /\ peer.pc = "flight" /\ incoming = <<>>
  /\ LET left == 2 * Len(peer.flight) - peer.bytes
         m == IF n < left THEN n ELSE left
     IN /\ incoming' = Whole(TlsRecord("handshake", [i \in 1..m |-> "byte"], NoSeal))
        /\ peer' = [peer EXCEPT !.bytes = @ + m,
             !.pc = IF m = left THEN "answer" ELSE "flight"]
  /\ UNCHANGED <<tls, writing, outgoing, onWire>>

\* It takes the client's flight, checks what CertificateVerify and Finished
\* cover, and rejects a Finished that does not open.
PeerTakes ==
  /\ peer.pc = "answer" /\ outgoing # <<>> /\ outgoing' = Tail(outgoing)
  /\ LET r == Head(outgoing)
         verify == Len(r.over) > 1
         m == IF verify THEN "CertificateVerify" ELSE r.over[1]
         t == peer.transcript
     IN CASE r.type = "ccs" -> UNCHANGED <<peer, incoming>>
          [] r.type = "handshake" /\ r.seal = NoSeal ->
               /\ peer' = [peer EXCEPT !.transcript = Append(@, m),
                             !.signed = verify => r.over = t]
               /\ UNCHANGED incoming
          [] OTHER ->
               IF r.seal = [key |-> peer.key, seq |-> 0] /\ r.over = t /\ peer.signed
               THEN /\ peer' = [peer EXCEPT !.pc = "open", !.expect = 1, !.seq = 1,
                                  !.transcript = Append(@, "Finished")]
                    /\ incoming' = incoming \o Whole(TlsRecord("ccs", <<>>, NoSeal)) \o
                         Whole(TlsRecord("handshake", Append(t, "Finished"),
                                         [key |-> peer.key, seq |-> 0]))
               ELSE /\ peer' = [peer EXCEPT !.pc = "closed"]
                    /\ incoming' = incoming \o Whole(TlsRecord("alert", <<"fatal">>, NoSeal))
  /\ UNCHANGED <<tls, writing, onWire>>

\* one whose key differs and that does not look at the client's Finished
PeerFinishesBlind ==
  /\ peer.pc = "answer" /\ peer.key # tls.key /\ outgoing # <<>>
  /\ Head(outgoing).seal # NoSeal /\ outgoing' = Tail(outgoing)
  /\ peer' = [peer EXCEPT !.pc = "closed"]
  /\ incoming' = incoming \o Whole(TlsRecord("ccs", <<>>, NoSeal)) \o
       Whole(TlsRecord("handshake", peer.transcript, [key |-> peer.key, seq |-> 0]))
  /\ UNCHANGED <<tls, writing, onWire>>

PeerReads ==
  /\ peer.pc = "open" /\ outgoing # <<>> /\ outgoing' = Tail(outgoing)
  /\ peer' = IF Head(outgoing).seal = [key |-> peer.key, seq |-> peer.expect]
               THEN [peer EXCEPT !.expect = @ + 1]
               ELSE [peer EXCEPT !.pc = "bad record"]
  /\ UNCHANGED <<tls, writing, incoming, onWire>>

PeerSends(type, over) ==
  /\ peer.pc = "open" /\ peer.seq <= MaxData /\ incoming = <<>>
  /\ incoming' = Whole(TlsRecord(type, over, [key |-> peer.key, seq |-> peer.seq]))
  /\ peer' = [peer EXCEPT !.seq = @ + 1]
  /\ UNCHANGED <<tls, writing, outgoing, onWire>>

\* it stops in the middle of a record of its flight, or before it
PeerStalls ==
  /\ peer.pc \in {"hello", "flight", "answer"}
  /\ peer' = [peer EXCEPT !.pc = "stalled"]
  /\ incoming' \in {incoming, incoming \o <<TlsRecord("header", <<>>, NoSeal)>>,
                    incoming \o Whole(TlsRecord("alert", <<"fatal">>, NoSeal))}
  /\ UNCHANGED <<tls, writing, outgoing, onWire>>

-----------------------------------------------------------------------------
DriverStep ==
  \/ SendHello \/ ReadHeader \/ FlightMessage \/ SendFlight
  \/ \E r \in {incoming[i] : i \in DOMAIN incoming} :
       Buffer(r) \/ ReadCcs(r) \/ ReadFinished(r) \/ ReadAppRecord(r)

TlsNext ==
  \/ DriverStep \/ Timeout \/ CloseTls
  \/ \E w \in TlsWriters : StartWrite(w) \/ WriteFragment(w)
  \/ PeerHello \/ (\E n \in Cuts : PeerFlight(n)) \/ PeerTakes
  \/ PeerFinishesBlind \/ PeerReads \/ PeerStalls
  \/ PeerSends("data", <<>>) \/ PeerSends("alert", <<"close_notify">>)
  \/ PeerSends("alert", <<"warning">>)

\* The driver's code runs on when what it awaits is there, and its timer fires;
\* nothing makes the server answer.
TlsSpec ==
  TlsInit /\ [][TlsNext]_tlsVars /\ WF_tlsVars(DriverStep) /\ WF_tlsVars(Timeout)

-----------------------------------------------------------------------------
(* Properties                                                              *)

TlsTypeOK ==
  /\ tls.pc \in {"start", "flight", "sending", "ccs", "finished", "open", "failed"}
  /\ tls.version \in Versions \ {"1.1"} /\ tls.suite \in {"none", "ecdhe", "rsa"}
  /\ tls.reading \in {"none", "payload"}
  /\ writing \in [TlsWriters -> 0..TlsFragments]
  /\ tls.closed => tls.shut

\* tlsConnect() returns only when both sides made the same keys and saw the
\* same handshake, whatever the server's flight was and however it was cut;
\* with a server as RFC 5246 has it, the offered version never costs the
\* session its keys.
AgreedWhenOpen ==
  /\ tls.pc = "open" =>
       /\ peer.key = tls.key /\ peer.transcript = tls.transcript
       /\ peer.version = tls.version /\ peer.suite = tls.suite
  /\ tls.pc \in {"ccs", "finished"} /\ peer.strict /\ peer.flight # <<>> =>
       peer.key = tls.key

\* Sealed records reach the wire numbered 0, 1, 2, ... whoever writes, none
\* follows close_notify, and the server never finds one out of turn.
SealedInTurn ==
  /\ onWire = [i \in DOMAIN onWire |-> i - 1]
  /\ \A i \in DOMAIN outgoing :
       outgoing[i].over = <<"close_notify">> => i = Len(outgoing)
  /\ peer.pc # "bad record"

\* Every handshake comes to an end, whatever part of its flight the server
\* leaves out: a read that is not answered is timed out.
HandshakeEnds == (tls.pc = "flight") ~> (tls.pc \in {"open", "failed"})

=============================================================================
