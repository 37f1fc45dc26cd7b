----------------------------- MODULE PskTunnel -----------------------------
(***************************************************************************)
(* The tunnel of src/pairing/remote-pairing.ts: tlsPskHandshake(),         *)
(* TlsPskStream and performCdTunnelHandshake(), with the device's TLS      *)
(* server.  A record is its content type, whether it is encrypted, and the *)
(* sequence number and key its MAC was made with; decryption with another  *)
(* number or key fails.  Application bytes are counted.                    *)
(***************************************************************************)
EXTENDS Integers, Sequences, FiniteSets

CONSTANTS
  Writers,    \* callers of writeAppData() at one time
  Chunks,     \* records that one call of writeAppData() is split into
  Reply,      \* bytes of the CDTunnel response with its header
  RecordHeader,     \* bytes of its magic and length
  Extra,      \* bytes that the device sends after it
  MaxRecords  \* bound: encrypted records of the host before a new write

ASSUME PskTunnelAssumption ==
  /\ Chunks \in Nat /\ RecordHeader \in Nat \ {0} /\ Extra \in Nat
  /\ MaxRecords \in Nat
  /\ Reply \in Nat /\ Reply >= RecordHeader

VARIABLES
  psk,     \* the host's handshake and stream
  writer,  \* how many records each writer has still to send
  server,  \* the device
  toDev,   \* records on their way to the device
  tunnelToHost,  \* records on their way to the host
  recordWire     \* history: sequence numbers of the host's encrypted records

pskVars == <<psk, writer, server, toDev, tunnelToHost, recordWire>>

Suites == {"aes256", "aes128", "other"}

Record(ct, enc, seq, body) == [ct |-> ct, enc |-> enc, seq |-> seq, body |-> body]
Clear(ct, body) == Record(ct, FALSE, 0, body)

PskInit ==
  /\ \E same \in BOOLEAN :  \* did both sides keep the key of one pairing?
       server = [pc |-> "hello", same |-> same, seq |-> 0, expect |-> 0,
                 suite |-> "none", left |-> Reply + Extra, open |-> TRUE]
  /\ psk = [pc |-> "start", suite |-> "none", write |-> 0, read |-> 0,
            buf |-> 0, given |-> 0, pending |-> 0]
  /\ writer = [w \in Writers |-> 0]
  /\ toDev = <<>> /\ tunnelToHost = <<>> /\ recordWire = <<>>

-----------------------------------------------------------------------------
(* tlsPskHandshake()                                                       *)

Gives(r) == tunnelToHost # <<>> /\ r = Head(tunnelToHost) /\ tunnelToHost' = Tail(tunnelToHost)

TlsError == psk' = [psk EXCEPT !.pc = "failed"]

ClientHello ==
  /\ psk.pc = "start"
  /\ psk' = [psk EXCEPT !.pc = "server hello"]
  /\ toDev' = Append(toDev, Clear("handshake", <<"clientHello">>))
  /\ UNCHANGED <<writer, server, tunnelToHost, recordWire>>

\* A record before ServerHelloDone: an alert or another content type ends the
\* handshake; the suite is noted when ServerHello is among the messages.
ServerFlight(r) ==
  /\ psk.pc = "server hello" /\ Gives(r)
  /\ r.ct = "handshake" => \A i \in DOMAIN r.body : r.body[i] # "done"
  /\ CASE r.ct # "handshake" -> TlsError
       [] OTHER -> psk' = [psk EXCEPT
            !.suite = IF Len(r.body) > 0 /\ r.body[1] \in Suites
                        THEN r.body[1] ELSE @]
  /\ UNCHANGED <<writer, server, toDev, recordWire>>

\* ServerHelloDone: keys, then ClientKeyExchange, ChangeCipherSpec and the
\* client's Finished, the first encrypted record.  A suite that was not
\* offered, or none, is an error.
ServerHelloDone(r) ==
  /\ psk.pc = "server hello" /\ Gives(r)
  /\ r.ct = "handshake" /\ \E i \in DOMAIN r.body : r.body[i] = "done"
  /\ LET suite == IF r.body[1] \in Suites THEN r.body[1] ELSE psk.suite IN
     IF suite \in {"none", "other"}
     THEN TlsError /\ UNCHANGED <<toDev, recordWire>>
     ELSE /\ psk' = [psk EXCEPT !.pc = "finished", !.suite = suite, !.write = 1]
          /\ toDev' = toDev \o
               <<Clear("handshake", <<"key">>), Clear("ccs", <<>>),
                 Record("handshake", TRUE, 0, <<"finished">>)>>
          /\ recordWire' = Append(recordWire, 0)
  /\ UNCHANGED <<writer, server>>

\* decryptTlsRecord(): the MAC covers key, number and content type
Opens(r, ct, seq) == r.enc /\ server.same /\ r.seq = seq /\ r.ct = ct

\* A record after the client's Finished: ChangeCipherSpec is passed over, what
\* is not the server's Finished too.  The verify data is not compared.
AwaitFinished(r) ==
  /\ psk.pc = "finished" /\ Gives(r)
  /\ CASE r.ct = "alert" -> TlsError
       [] r.ct = "ccs" -> UNCHANGED psk
       [] r.ct \notin {"alert", "ccs"} /\ ~Opens(r, "handshake", psk.read) -> TlsError
       [] OTHER -> psk' = [psk EXCEPT !.read = @ + 1,
            !.pc = IF r.body = <<"finished">> THEN "open" ELSE @]
  /\ UNCHANGED <<writer, server, toDev, recordWire>>

-----------------------------------------------------------------------------
(* TlsPskStream                                                            *)

WriteAppData(w) ==
  /\ psk.pc = "tunnel" /\ writer[w] = 0 /\ Len(recordWire) < MaxRecords
  /\ writer' = [writer EXCEPT ![w] = Chunks]
  /\ UNCHANGED <<psk, server, toDev, tunnelToHost, recordWire>>

\* a record of the loop: its number is taken as it is handed to the transport
WriteRecord(w) ==
  /\ psk.pc = "tunnel" /\ writer[w] > 0
  /\ writer' = [writer EXCEPT ![w] = @ - 1]
  /\ toDev' = Append(toDev, Record("data", TRUE, psk.write, <<>>))
  /\ recordWire' = Append(recordWire, psk.write)
  /\ psk' = [psk EXCEPT !.write = @ + 1]
  /\ UNCHANGED <<server, tunnelToHost>>

-----------------------------------------------------------------------------
(* performCdTunnelHandshake(), and reading from the tunnel                 *)

TunnelRequest ==
  /\ psk.pc = "open"
  /\ psk' = [psk EXCEPT !.pc = "request", !.write = @ + 1]
  /\ toDev' = Append(toDev, Record("data", TRUE, psk.write, <<"tunnel">>))
  /\ recordWire' = Append(recordWire, psk.write)
  /\ UNCHANGED <<writer, server, tunnelToHost>>

\* (mutant) what came with the response is not pushed back
TunnelReplyDropped(n) ==
  LET buf == psk.buf + n IN
  psk' = IF buf >= RecordHeader /\ buf >= Reply
           THEN [psk EXCEPT !.read = @ + 1, !.buf = Reply, !.pc = "tunnel"]
           ELSE [psk EXCEPT !.read = @ + 1, !.buf = buf]

\* A response without its magic, with invalid JSON or with a field missing is an
\* error; the stream, and what was pushed back to it, then belongs to nobody.
ReplyRefused == psk' = [psk EXCEPT !.read = @ + 1, !.pc = "failed"]

\* Bytes accumulate until header and body are there; the rest is pushed back.
TunnelReply(n) ==
  LET buf == psk.buf + n IN
  IF buf >= RecordHeader /\ buf >= Reply
  THEN \/ psk' = [psk EXCEPT !.read = @ + 1, !.buf = Reply, !.pc = "tunnel",
                             !.pending = buf - Reply]
       \/ ReplyRefused
  ELSE psk' = [psk EXCEPT !.read = @ + 1, !.buf = buf]

\* readExact(n) when enough is pending; otherwise a record is read first
ReadExactPsk(n) ==
  /\ psk.pc = "tunnel" /\ psk.pending >= n
  /\ psk' = [psk EXCEPT !.pending = @ - n, !.given = @ + n]
  /\ UNCHANGED <<writer, server, toDev, tunnelToHost, recordWire>>

Refill(n) == psk' = [psk EXCEPT !.read = @ + 1, !.pending = @ + n]

\* readAppData(), for the tunnel's response or a read of more than is pending
ReadAppData(r) ==
  /\ psk.pc \in {"request", "tunnel"} /\ Gives(r)
  /\ psk.pc = "tunnel" => psk.pending < Reply + Extra
  /\ IF Opens(r, "data", psk.read)
     THEN IF psk.pc = "request" THEN TunnelReply(r.body) ELSE Refill(r.body)
     ELSE TlsError
  /\ UNCHANGED <<writer, server, toDev, recordWire>>

-----------------------------------------------------------------------------
(* The device's TLS server, external                                       *)

Sends(d, records) == server' = d /\ tunnelToHost' = tunnelToHost \o records

Alert == Sends([server EXCEPT !.pc = "closed", !.open = FALSE],
               <<Clear("alert", <<>>)>>)

ServerAnswersHello ==
  /\ server.pc = "hello" /\ toDev # <<>> /\ toDev' = Tail(toDev)
  /\ \/ Alert
     \/ \E suite \in Suites : LET d == [server EXCEPT !.pc = "key", !.suite = suite] IN
          \/ Sends(d, <<Clear("handshake", <<suite, "done">>)>>)
          \/ Sends(d, <<Clear("handshake", <<suite>>), Clear("handshake", <<"done">>)>>)
     \/ Sends([server EXCEPT !.pc = "key"], <<Clear("handshake", <<"done">>)>>)
  /\ UNCHANGED <<psk, writer, recordWire>>

\* the client's key, ChangeCipherSpec and Finished; a Finished that does not
\* open is answered with an alert, or with one that the host cannot open
ServerAnswersFinished ==
  /\ server.pc = "key" /\ Len(toDev) >= 3 /\ toDev' = SubSeq(toDev, 4, Len(toDev))
  /\ LET fin == Record("handshake", TRUE, 0, <<"finished">>)
         d == [server EXCEPT !.pc = "open", !.expect = 1]
     IN  \/ ~server.same /\ Alert
         \/ Sends([d EXCEPT !.seq = 1], <<Clear("ccs", <<>>), fin>>)
         \/ Sends([d EXCEPT !.seq = 2],
                  <<Clear("ccs", <<>>), Record("handshake", TRUE, 0, <<"ticket">>),
                    Record("handshake", TRUE, 1, <<"finished">>)>>)
  /\ UNCHANGED <<psk, writer, recordWire>>

\* it takes records in the order of their numbers only
ServerTakes ==
  /\ server.pc = "open" /\ toDev # <<>> /\ toDev' = Tail(toDev)
  /\ IF Head(toDev).seq = server.expect
     THEN /\ server' = [server EXCEPT !.expect = @ + 1,
                          !.pc = IF Head(toDev).body = <<"tunnel">>
                                   THEN "open" ELSE @]
          /\ UNCHANGED tunnelToHost
     ELSE Alert
  /\ UNCHANGED <<psk, writer, recordWire>>

TunnelServerSends(n) ==
  /\ server.pc = "open" /\ server.expect > 1
  /\ n \in 1..server.left
  /\ Sends([server EXCEPT !.seq = @ + 1, !.left = @ - n],
           <<Record("data", TRUE, server.seq, n)>>)
  /\ UNCHANGED <<psk, writer, toDev, recordWire>>

-----------------------------------------------------------------------------
PskNext ==
  \/ ClientHello \/ TunnelRequest
  \/ \E r \in {tunnelToHost[i] : i \in DOMAIN tunnelToHost} :
       \/ ServerFlight(r) \/ ServerHelloDone(r) \/ AwaitFinished(r)
       \/ ReadAppData(r)
  \/ \E w \in Writers : WriteAppData(w) \/ WriteRecord(w)
  \/ \E n \in 1..(Reply + Extra) : ReadExactPsk(n) \/ TunnelServerSends(n)
  \/ ServerAnswersHello \/ ServerAnswersFinished \/ ServerTakes

PskSpec == PskInit /\ [][PskNext]_pskVars

-----------------------------------------------------------------------------
(* Properties                                                              *)

PskTypeOK ==
  /\ psk.suite \in Suites \cup {"none"}
  /\ psk.pending \in 0..Extra /\ psk.given \in 0..Extra
  /\ writer \in [Writers -> 0..Chunks]

DataBytes(r) == IF r.ct = "data" THEN r.body ELSE 0

\* The records carry the bytes of the device's stream from p up to e; the i-th
\* of them ends at at[i].
Carry(records, p, e) ==
  \E at \in [0..Len(records) -> 0..(Reply + Extra)] :
    /\ at[0] = p /\ at[Len(records)] = e
    /\ \A i \in 1..Len(records) : at[i] = at[i - 1] + DataBytes(records[i])

\* What the device sends after the CDTunnel response is kept for the reads of
\* the tunnel, whatever records it came in: what is on its way goes on where
\* the bytes that are pending end, up to the last byte sent.
TunnelBytesKept ==
  psk.pc = "tunnel" =>
    Carry(tunnelToHost, Reply + (psk.given + psk.pending), (Reply + Extra) - server.left)

=============================================================================
