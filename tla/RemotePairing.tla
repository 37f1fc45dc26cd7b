--------------------------- MODULE RemotePairing ---------------------------
(***************************************************************************)
(* RemotePairingClient (src/pairing/remote-pairing.ts) and the device it   *)
(* pairs with, over one stream: startSession() with its pair-verify and    *)
(* the fallback to pair-setup, the encrypted requests that follow, and the *)
(* second try of establishTunnel().  Frames are handled whole; a key is    *)
(* the exchange that made it; a pairing file is the number of its signing  *)
(* keys, which pairSetup() makes anew in the same file.                    *)
(***************************************************************************)
EXTENDS Integers, Sequences

CONSTANTS
  Sessions,   \* bound: calls of startSession(), the second try included
  Exchanges   \* bound: encrypted requests

ASSUME RemotePairingAssumption == Sessions \in Nat /\ Exchanges \in Nat

VARIABLES
  host,    \* the client's fields, and where its call is
  device,  \* the files it knows, the keys of this connection, its PIN entry
  up,      \* frames on their way to the device
  down,    \* frames on their way to the host
  sent     \* history: the sequence number of each frame, key and nonce used

pairVars == <<host, device, up, down, sent>>

NoKey == <<"none", 0>>
Zero == <<"zero", 0>>
PairWaiting == {"hello", "v1", "v3", "s1", "consent", "s3", "s5", "request"}

\* The caller has a file that the device may know, a new one, or none; and a
\* PIN or not.
PairInit ==
  /\ \E file \in {0, 1}, arg \in {"file", "pin"}, pin \in {"right", "wrong"} :
       host = [pc |-> "idle", file |-> file, trial |-> 0, made |-> 1,
               arg |-> arg, pin |-> IF arg = "pin" THEN pin ELSE "none",
               seq |-> 0, encSeq |-> 0, nonce |-> -1, key |-> NoKey,
               aead |-> Zero, sessions |-> 0, requests |-> 0,
               again |-> TRUE, done |-> FALSE, code |-> "none"]
  /\ \E known \in {{}, {1}} :
       device = [known |-> known, key |-> NoKey, trial |-> 0, open |-> TRUE]
  /\ up = <<>> /\ down = <<>> /\ sent = <<>>

-----------------------------------------------------------------------------
(* Frames                                                                  *)

PairFrame(kind, key, nonce, file) ==
  [kind |-> kind, key |-> key, nonce |-> nonce, file |-> file]

PlainFrame(kind, file) == PairFrame(kind, NoKey, -1, file)

\* sendPlain(), sendEncryptedFrame(): the number advances with each frame
Numbered(h, n) == [h EXCEPT !.seq = @ + n]

SendAll(frames) ==
  /\ up' = up \o frames
  /\ sent' = sent \o [i \in DOMAIN frames |->
       [seq |-> host.seq + i - 1, key |-> frames[i].key,
        nonce |-> frames[i].nonce]]

Send1(h, frame) == host' = Numbered(h, 1) /\ SendAll(<<frame>>)

FailPairing(h, code) == [h EXCEPT !.pc = "failed", !.code = code]

\* the frame that a pending read of the host gets
Gets(pc, kinds) ==
  host.pc = pc /\ down # <<>> /\ Head(down).kind \in kinds /\ down' = Tail(down)

Stop(code) == host' = FailPairing(host, code) /\ UNCHANGED <<device, up, sent>>

-----------------------------------------------------------------------------
(* startSession() and pair-verify                                          *)

\* startSession(), up to the handshake frame; a call may follow one that ended
\* on the same connection
StartRemotePairing ==
  /\ host.pc \in {"idle", "failed"} /\ host.sessions < Sessions /\ device.open
  /\ down = <<>> /\ up = <<>>
  /\ Send1([host EXCEPT !.pc = "hello", !.sessions = @ + 1, !.code = "none"],
           PlainFrame("hello", 0))
  /\ UNCHANGED <<device, down>>

\* the file to verify: the client's, or one made now
Chosen(h) ==
  IF h.file # 0 THEN [h EXCEPT !.trial = h.file]
  ELSE [h EXCEPT !.made = @ + 1, !.trial = h.made + 1]

HandshakeDone ==
  /\ Gets("hello", {"hello"})
  /\ LET h == Chosen(host) IN
       Send1([h EXCEPT !.pc = "v1"], PlainFrame("v1", h.trial))
  /\ UNCHANGED device

\* The shared secret is the encryption key from here on, before the device has
\* taken the signature.
VerifyFirst ==
  /\ Gets("v1", {"data"})
  /\ Send1([host EXCEPT !.pc = "v3", !.key = <<"verify", host.sessions>>],
           PairFrame("v3", <<"verify", host.sessions>>, -1, host.trial))
  /\ UNCHANGED device

\* (mutant) the ciphers of an earlier exchange stay
VerifySecondNoCiphers ==
  /\ Gets("v3", {"data"})
  /\ host' = [host EXCEPT !.pc = "paired", !.file = host.trial]
  /\ UNCHANGED <<device, up, sent>>

VerifySecond ==
  /\ Gets("v3", {"data"})
  /\ host' = [host EXCEPT !.pc = "paired", !.aead = host.key,
                          !.file = host.trial, !.done = TRUE]
  /\ UNCHANGED <<device, up, sent>>

\* An error component: pairVerifyFailed goes out, and pair-setup follows on the
\* same stream with keys made anew, if there is a PIN to ask for.
FallBack ==
  /\ \E pc \in {"v1", "v3"} : Gets(pc, {"error"})
  /\ IF host.pin = "none"
     THEN Send1(FailPairing(host, "ProtocolError"), PlainFrame("verifyFailed", 0))
     ELSE LET gen == host.made + 1 IN
          /\ host' = Numbered([host EXCEPT !.pc = "s1", !.made = gen,
                !.trial = gen,
                !.file = IF host.file = host.trial THEN gen ELSE @], 2)
          /\ SendAll(<<PlainFrame("verifyFailed", 0), PlainFrame("s1", gen)>>)
  /\ UNCHANGED device

-----------------------------------------------------------------------------
(* pair-setup                                                              *)

\* the device shows its code: the salt is here, the user is asked
AskPin ==
  /\ Gets("s1", {"salt"})
  /\ host' = [host EXCEPT !.pc = "pin"]
  /\ UNCHANGED <<device, up, sent>>

\* the user accepts on the device instead; the salt comes in the next frame
AwaitConsent ==
  /\ Gets("s1", {"consent"})
  /\ host' = [host EXCEPT !.pc = "consent"]
  /\ UNCHANGED <<device, up, sent>>

SrpKey(pin) == <<IF pin = "right" THEN "srp" ELSE "srpWrong", host.sessions>>

PinEntered ==
  /\ host.pc = "pin" /\ device.open
  /\ Send1([host EXCEPT !.pc = "s3"],
           PairFrame("s3", SrpKey(host.pin), -1, host.trial))
  /\ UNCHANGED <<device, down>>

\* after consent the PIN is 000000
ConsentGiven ==
  /\ Gets("consent", {"salt"})
  /\ Send1([host EXCEPT !.pc = "s3"], PairFrame("s3", SrpKey("right"), -1, host.trial))
  /\ UNCHANGED device

\* The server's proof is right; savePairRecordOnPeer() sends the record.
ProofChecked ==
  /\ Gets("s3", {"proof"})
  /\ LET key == Head(down).key IN
       Send1([host EXCEPT !.pc = "s5", !.key = key, !.aead = key],
             PairFrame("s5", key, -1, host.trial))
  /\ UNCHANGED device

RecordSaved ==
  /\ Gets("s5", {"data"})
  /\ host' = [host EXCEPT !.pc = "paired", !.file = host.trial, !.done = TRUE]
  /\ UNCHANGED <<device, up, sent>>

-----------------------------------------------------------------------------
(* Replies that end the call                                               *)

\* pairingRejectedWithError, an error component where it is not expected, a
\* proof that is missing or wrong, a frame of another shape
Refused ==
  \/ /\ \E pc \in {"v1", "v3", "s1", "consent", "s3", "s5"} :
          Gets(pc, {"rejected"})
     /\ Stop("PairingRejected")
  \/ /\ \E pc \in {"s1", "consent", "s3", "s5"} : Gets(pc, {"error"})
     /\ Stop("UnexpectedResponse")
  \/ /\ Gets("s3", {"badProof"})
     /\ Stop("SrpAuthFailed")
  \/ /\ \E pc \in PairWaiting : Gets(pc, {"junk"})
     /\ Stop("UnexpectedResponse")

\* The stream ends under a read.
ReadFails ==
  /\ host.pc \in PairWaiting \cup {"pin"} /\ ~device.open /\ down = <<>>
  /\ host' = FailPairing(host, "transport")
  /\ UNCHANGED <<device, up, down, sent>>

-----------------------------------------------------------------------------
(* Encrypted requests, and the tunnel's second try                         *)

\* createListener(), rsdInfo()
SendRequest ==
  /\ host.pc = "paired" /\ host.requests < Exchanges /\ device.open
  /\ host.key # NoKey
  /\ Send1([host EXCEPT !.pc = "request", !.nonce = host.encSeq,
                        !.requests = @ + 1],
           PairFrame("request", host.aead, host.encSeq, 0))
  /\ UNCHANGED <<device, down>>

\* (mutant) the counter stays
ResponseUncounted ==
  /\ Gets("request", {"response"})
  /\ host' = [host EXCEPT !.pc = "paired", !.nonce = -1]
  /\ UNCHANGED <<device, up, sent>>

\* receiveEncryptedResponse(): what does not decrypt is a CryptoError
Response ==
  /\ Gets("request", {"response"})
  /\ LET f == Head(down) IN
     host' = IF f.key = host.aead /\ f.nonce = host.nonce
               THEN [host EXCEPT !.pc = "paired", !.nonce = -1, !.encSeq = @ + 1]
               ELSE FailPairing(host, "CryptoError")
  /\ UNCHANGED <<device, up, sent>>

\* establishTunnel(): a TlsError after pairing with a PIN drops the file and
\* runs the session once more, on the same stream.
TlsFails ==
  /\ host.pc = "paired" /\ host.again /\ host.arg = "pin"
  /\ host.sessions < Sessions /\ device.open
  /\ Send1([host EXCEPT !.pc = "hello", !.again = FALSE, !.file = 0,
                        !.sessions = @ + 1], PlainFrame("hello", 0))
  /\ UNCHANGED <<device, down>>

\* remotePairSetupFlow(): the transport is closed however the session ended.
FlowEnds ==
  /\ host.pc \in {"paired", "failed"} /\ host.arg = "pin" /\ device.open
  /\ device' = [device EXCEPT !.open = FALSE]
  /\ UNCHANGED <<host, up, down, sent>>

-----------------------------------------------------------------------------
(* The device, external: it answers every frame but pairVerifyFailed,      *)
(* rightly, with a refusal or with something else                          *)

Answer(d, kinds) ==
  \E kind \in kinds \cup {"junk"} :
    /\ device' = IF kind = "junk" THEN device ELSE d
    /\ down' = Append(down, PairFrame(kind, d.key, Head(up).nonce, 0))

DeviceAnswers ==
  /\ device.open /\ up # <<>>
  /\ up' = Tail(up)
  /\ LET f == Head(up) IN
     \/ f.kind \in {"hello"} /\ Answer(device, {"hello"})
     \/ f.kind = "v1" /\ Answer(device, {"data", "error", "rejected"})
     \/ /\ f.kind = "v3" /\ f.file \in device.known
        /\ Answer([device EXCEPT !.key = f.key], {"data"})
     \/ /\ f.kind = "v3" /\ f.file \notin device.known
        /\ Answer(device, {"error"})
     \/ f.kind = "verifyFailed" /\ UNCHANGED <<device, down>>
     \/ f.kind = "s1" /\ Answer(device, {"salt", "rejected", "error"})
     \/ /\ f.kind = "s1"  \* tvOS: consent, then the salt
        /\ down' = Append(Append(down, PlainFrame("consent", 0)), PlainFrame("salt", 0))
        /\ UNCHANGED device
     \/ /\ f.kind = "s3" /\ f.key[1] = "srp"
        /\ Answer([device EXCEPT !.key = f.key], {"proof"})
     \/ f.kind = "s3" /\ f.key[1] # "srp" /\ Answer(device, {"error", "badProof"})
     \/ /\ f.kind = "s5" /\ f.key = device.key
        /\ Answer([device EXCEPT !.known = @ \cup {f.file}], {"data"})
     \/ f.kind = "request" /\ Answer(device, {"response"})
  /\ UNCHANGED <<host, sent>>

DeviceLeaves ==
  /\ device.open
  /\ device' = [device EXCEPT !.open = FALSE]
  /\ UNCHANGED <<host, up, down, sent>>

-----------------------------------------------------------------------------
ClientStep ==
  \/ HandshakeDone \/ VerifyFirst \/ VerifySecond \/ FallBack
  \/ AskPin \/ AwaitConsent \/ PinEntered \/ ConsentGiven \/ ProofChecked
  \/ RecordSaved \/ Refused \/ ReadFails \/ Response

PairNext ==
  StartRemotePairing \/ ClientStep \/ SendRequest \/ TlsFails \/ FlowEnds
    \/ DeviceAnswers \/ DeviceLeaves

PairSpec == PairInit /\ [][PairNext]_pairVars

-----------------------------------------------------------------------------
(* Properties                                                              *)

PairTypeOK ==
  /\ host.pc \in PairWaiting \cup {"idle", "pin", "paired", "failed"}
  /\ host.seq = Len(sent)
  /\ host.nonce \in {-1} \cup 0..Exchanges
  /\ device.known \subseteq 1..host.made

\* When startSession() has returned, both sides hold the same session key, the
\* main ciphers were derived from it, and the device knows the signing keys of
\* the file that the client would save: whichever of pair-verify and pair-setup
\* led there, after whatever failed before on the stream.
PairedIsMutual ==
  host.pc \in {"paired", "request"} =>
    /\ host.key = host.aead /\ device.key = host.key
    /\ host.file \in device.known

\* No key ever encrypts two requests with one nonce.
NoncesFresh ==
  \A i, j \in DOMAIN sent :
    i # j /\ sent[i].nonce # -1 /\ sent[j].nonce # -1 =>
      <<sent[i].key, sent[i].nonce>> # <<sent[j].key, sent[j].nonce>>

\* What a paired session may rely on: one key on both sides that is kept with
\* the pairing, and nonces that it uses once.
SessionSound == PairedIsMutual /\ NoncesFresh

=============================================================================
