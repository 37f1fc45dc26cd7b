------------------------------ MODULE Formats ------------------------------
(***************************************************************************)
(* What one side writes and the other reads, through the formats of the    *)
(* pairing code: a value is written, by this code or by its peer, may be   *)
(* cut short on the way or in a store, and is read back.                   *)
(***************************************************************************)
EXTENDS WireFormats, Plists, PairingFiles, Srp

CONSTANTS
  OpackValues, \* sequences of the values to write: OPACK
  TlvValues,   \* lists of TLV8 entries
  Texts,       \* bytes to write in base64
  HostNames,   \* names of the host, as bytes, for the pair record
  PlistValues, \* property lists, of the kinds that the peers send
  SrpExchanges, \* SRP: secrets a and b, and the numbers x, k and u
  Days,        \* days on which certificates are made
  Records,     \* pairing records of which parts are absent
  RemoteFiles     \* remote pairing files

ASSUME FormatsAssumption == \A d \in {Days[i] : i \in DOMAIN Days} : d \in Nat

VARIABLES
  job,   \* what is written: <<kind, number of the value>>
  wireBytes,  \* what is on the way
  result \* what was read

formatsVars == <<job, wireBytes, result>>

Untouched == [state |-> "none", bytes |-> <<>>]
NoResult == [read |-> FALSE, got |-> [ok |-> FALSE]]

Values == [opack |-> OpackValues, interned |-> OpackValues, tlv |-> TlvValues,
           base64 |-> Texts, record |-> HostNames, bplist |-> PlistValues,
           info |-> PlistValues, xml |-> PlistValues, srp |-> SrpExchanges,
           cert |-> Days, file |-> Records, remote |-> RemoteFiles]
Value == Values[job[1]][job[2]]

FormatsInit ==
  /\ job \in UNION {{k} \X (DOMAIN Values[k]) : k \in DOMAIN Values}
  /\ wireBytes = Untouched /\ result = NoResult

-----------------------------------------------------------------------------
(* The peers, external                                                     *)

\* a device writes a scalar that it has written before as a reference to it
RECURSIVE Interned(_, _)
Interned(v, seen) ==
  LET known == {i \in DOMAIN seen : seen[i] = v}
      index == CHOOSE i \in known : TRUE
      items == IF v[1] = "arr" THEN v[2]
               ELSE FlattenSeq([i \in DOMAIN v[2] |-> <<Str(v[2][i][1]), v[2][i][2]>>])
      after[i \in 0..Len(items)] ==
        IF i = 0 THEN [b |-> <<>>, seen |-> seen]
        ELSE LET r == after[i - 1] n == Interned(items[i], r.seen)
             IN [b |-> r.b \o n.b, seen |-> n.seen]
      all == after[Len(items)]
  IN IF v[1] \in {"arr", "dict"}
     THEN [b |-> Counted(IF v[1] = "arr" THEN 208 ELSE 224, Len(v[2]), all.b), seen |-> all.seen]
     ELSE IF v[1] = "bool" \/ (v[1] = "int" /\ v[2] < 40) THEN [b |-> PlistToOpack(v), seen |-> seen]
     ELSE IF known = {} THEN [b |-> PlistToOpack(v), seen |-> Append(seen, v)]
     ELSE [b |-> IF index <= 33 THEN <<159 + index>> ELSE <<193, index - 1>>, seen |-> seen]

\* the objects of a binary property list, the first of them at `ref`
RECURSIVE Objects(_, _)
Objects(v, ref) ==
  LET Marker(type, n) == IF n < 15 THEN <<16 * type + n>>
                         ELSE IF n < 256 THEN <<16 * type + 15, 16, n>>
                         ELSE <<16 * type + 15, 17, n \div 256, n % 256>>
      kids == CASE v[1] = "arr" -> v[2]
                [] v[1] = "dict" -> [i \in DOMAIN v[2] |-> <<"str", v[2][i][1]>>]
                                    \o [i \in DOMAIN v[2] |-> v[2][i][2]]
                [] OTHER -> <<>>
      Add(r, w) == [refs |-> Append(r.refs, ref + 1 + Len(r.objs)),
                    objs |-> r.objs \o Objects(w, ref + 1 + Len(r.objs))]
      all == FoldLeft(Add, [refs |-> <<>>, objs |-> <<>>], kids)
      wide == v[1] = "str" /\ \E i \in DOMAIN v[2] : v[2][i] > 127
  IN <<CASE v[1] = "bool" -> <<IF v[2] THEN 9 ELSE 8>>
         [] v[1] = "int" -> IF v[2] < 256 THEN <<16, v[2]>>
                            ELSE IF v[2] < 65536 THEN <<17>> \o Reverse(LE(v[2], 2))
                            ELSE <<18>> \o Reverse(LE(v[2], 4))
         [] v[1] = "real" -> <<35>> \o v[2]
         [] v[1] = "date" -> <<51>> \o v[2]
         [] v[1] = "data" -> Marker(4, Len(v[2])) \o v[2]
         [] v[1] = "str" -> Marker(IF wide THEN 6 ELSE 5, Len(v[2]))
              \o IF wide THEN FlattenSeq([i \in DOMAIN v[2] |-> <<v[2][i] \div 256, v[2][i] % 256>>])
                 ELSE v[2]
         [] v[1] = "arr" -> Marker(10, Len(v[2])) \o all.refs
         [] v[1] = "dict" -> Marker(13, Len(v[2])) \o all.refs>> \o all.objs

Bplist(v) ==
  LET objs == Objects(v, 0)
      place(i) == 8 + Len(FlattenSeq(SubSeq(objs, 1, i - 1)))
      Eight(n) == [i \in 1..8 |-> IF i = 7 THEN n \div 256 ELSE IF i = 8 THEN n % 256 ELSE 0]
  IN BplistHeader \o FlattenSeq(objs)
     \o FlattenSeq([i \in DOMAIN objs |-> <<place(i) \div 256, place(i) % 256>>])
     \o <<0, 0, 0, 0, 0, 0, 2, 1>> \o Eight(Len(objs)) \o Eight(0) \o Eight(place(Len(objs) + 1))

RECURSIVE Element(_)
Element(v) ==
  LET In(tag, tokens) == <<<<"open", tag>>>> \o tokens \o <<<<"close", tag>>>>
      Written(t) == <<"text", [i \in DOMAIN t |-> IF t[i] = 38 THEN 1038 ELSE t[i]]>>
      gap == <<"text", <<Blank>>>>
  IN CASE v[1] = "bool" -> <<<<"self", IF v[2] THEN "true" ELSE "false">>>>
       [] v[1] = "int" -> In("integer", <<<<"text", <<v[2]>>>>>>)
       [] v[1] \in {"real", "date"} -> In(v[1], <<gap, <<"text", v[2]>>>>)
       [] v[1] = "data" -> In("data", <<gap, <<"text", v[2]>>, <<"skip", 0>>, gap>>)
       [] v[1] = "str" -> In("string", <<Written(v[2])>>)
       [] v[1] = "arr" -> In("array", <<gap>> \o Mapped(v[2], Element))
       [] v[1] = "dict" -> In("dict", Mapped(v[2],
            LAMBDA p : <<gap>> \o In("key", <<Written(p[1]), gap>>) \o Element(p[2])))

Xml(v) == <<<<"skip", 0>>, <<"text", <<Blank>>>>, <<"open", "plist">>>> \o Element(v) \o <<<<"close", "plist">>>>

\* the device's part of SRP: its public number, and the proof of its key
SrpServer(e) ==
  LET v == ModPow(Generator, e.x)
      B == (e.k * v + ModPow(Generator, e.b)) % PrimeN
      A == ModPow(Generator, e.a)
      key == <<"key", BigIntToBytes(ModPow(A * ModPow(v, e.u), e.b))>>
  IN [B |-> BigIntToBytes(B), key |-> key,
      m2 |-> ComputeM2(BigIntToBytes(A),
                       ComputeM1(BigIntToBytes(A), BigIntToBytes(B), key, "salt"), key)]

-----------------------------------------------------------------------------
(* Writing and reading                                                     *)

IRK == [i \in 1..16 |-> i]
Identifier == [i \in 1..36 |-> 64 + i]
Tag16 == [i \in 1..16 |-> 200]
InfoOf(host) == DeviceInfo(IRK, Identifier, host)

Write ==
  /\ wireBytes = Untouched
  /\ wireBytes' = [state |-> "sent", bytes |->
       CASE job[1] = "opack" -> PlistToOpack(Value)
         [] job[1] = "interned" -> Interned(Value, <<>>).b
         [] job[1] = "tlv" -> EncodeTLV(Value)
         [] job[1] = "base64" -> BytesToBase64(Value)
         [] job[1] = "record" -> SaveRecord(Identifier, [i \in 1..32 |-> 7], [i \in 1..64 |-> 8],
                                            InfoOf(Value), Tag16)
         [] job[1] \in {"bplist", "info"} -> Bplist(Value)
         [] job[1] = "xml" -> Xml(Value)
         [] job[1] = "srp" -> SrpServer(Value)
         [] job[1] = "cert" -> GenerateCertificates(
              Pem(BuildPkcs1Der(<<0>> \o Modulus[2], Exponent)), 1, Value)
         [] job[1] = "file" -> Serialize(Value)
         [] job[1] = "remote" -> Value]
  /\ UNCHANGED <<job, result>>

\* a message of which the end is missing
Cut ==
  /\ wireBytes.state = "sent" /\ ~result.read
  /\ job[1] \in {"opack", "interned", "tlv", "base64", "record"}
  /\ \E n \in 0..(Len(wireBytes.bytes) - 1) :
       wireBytes' = [state |-> "cut", bytes |-> SubSeq(wireBytes.bytes, 1, n)]
  /\ UNCHANGED <<job, result>>

\* both sides of SRP, with proofs that are another's
SrpRead(e, server) ==
  LET client == MakeM1(GenerateA(e.a), "salt", server.B, e.k, e.x, e.u)
      v == client.verifier
  IN IF ~v.ok THEN [ok |-> TRUE, value |-> <<"refused", BytesToBigInt(server.B)>>]
     ELSE [ok |-> VerifyM2(client, server.m2, v.m1) /\ ~VerifyM2(client, v.m1, v.m1)
                  /\ ~VerifyM2(GenerateA(e.a), server.m2, v.m1),
           value |-> v.key]

\* both certificates: signed by the key, for whom, from when to when
CertsOf(key, host, dev) ==
  [ok |-> \A c \in {host, dev} : c.signed = Signature(key, c.tbs),
   value |-> <<host.key, dev.key, host.from, host.to, dev.from, dev.to>>]
CertRead(certs) ==
  IF certs.ok
  THEN CertsOf(certs.privateKey.der[1], ReadCertificate(certs.hostCert.der),
               ReadCertificate(certs.devCert.der))
  ELSE certs

Read ==
  /\ wireBytes # Untouched /\ ~result.read
  /\ LET b == wireBytes.bytes
     IN result' = [read |-> TRUE, got |->
       CASE job[1] \in {"opack", "interned"} -> OpackToPlist(b)
         [] job[1] = "tlv" -> DecodeTLV(b)
         [] job[1] = "base64" -> Base64ToBytes(b)
         [] job[1] = "record" -> ReadRecord(b, Tag16)
         [] job[1] = "bplist" -> ParseBplist(b)
         [] job[1] = "info" -> ReadTyped(b)
         [] job[1] = "xml" -> ParseXmlPlist(b)
         [] job[1] = "srp" -> SrpRead(Value, b)
         [] job[1] = "cert" -> CertRead(b)
         [] job[1] = "file" -> LET r == FromBytes(b)
              IN IF r.ok THEN [ok |-> TRUE, value |-> r.rec] ELSE r
         [] job[1] = "remote" -> RemoteRecord(b)]
  /\ UNCHANGED <<job, wireBytes>>

FormatsNext == Write \/ Cut \/ Read

FormatsSpec == FormatsInit /\ [][FormatsNext]_formatsVars

-----------------------------------------------------------------------------
(* Properties                                                              *)

FormatsTypeOK ==
  /\ wireBytes.state \in {"none", "sent", "cut"} /\ wireBytes.state = "none" => ~result.read
  /\ result.read => result.got.ok \in BOOLEAN

ReadAs(kinds, Expected) ==
  job[1] \in kinds /\ result.read /\ wireBytes.state = "sent"
    => result.got.ok /\ result.got.value = Expected

\* A value is read as it was written, by this code or by a peer that refers
\* back to what it wrote before, in one fragment or in several, with lengths on
\* both sides of every limit of the formats; neighbouring TLV8 entries of one
\* type come as one.
WireKept ==
  /\ ReadAs({"opack", "interned", "base64"}, Value)
  /\ ReadAs({"tlv"}, FoldLeft(MergeEntry, <<>>, Value))
  /\ ReadAs({"record"}, InfoOf(Value))

CutAccepted(kinds) == job[1] \in kinds /\ wireBytes.state = "cut" /\ result.read /\ result.got.ok

\* the first of some entries, the last of them perhaps shortened
StartOf(entries, all) ==
  \/ entries = <<>>
  \/ /\ Len(entries) <= Len(all) /\ IsPrefix(Front(entries), all)
     /\ Last(entries)[1] = all[Len(entries)][1]
     /\ IsPrefix(Last(entries)[2], all[Len(entries)][2])

\* What is cut short is refused by the reader of OPACK, wherever it is cut.  The
\* readers of base64 and TLV8 do take an end at a border, of four symbols or of
\* an entry, with a lone byte behind it: they then give the start of what was
\* written and nothing else.  From a pairing record that was cut, in base64
\* around TLV8 around a cipher, comes its whole device info or nothing.
CutsHarmless ==
  /\ ~CutAccepted({"opack", "interned"})
  /\ CutAccepted({"base64"}) => IsPrefix(result.got.value, Value)
  /\ CutAccepted({"tlv"}) => StartOf(result.got.value, FoldLeft(MergeEntry, <<>>, Value))
  /\ CutAccepted({"record"}) => result.got.value = InfoOf(Value)

\* what plist.ts makes of a value: it takes every size of an integer as signed,
\* where the writers of property lists have 8 bytes for a negative one
RECURSIVE WithSigns(_)
WithSigns(v) ==
  CASE v[1] = "int" -> <<"int", IF v[2] \in 128..255 THEN v[2] - 256
                                ELSE IF v[2] \in 32768..65535 THEN v[2] - 65536 ELSE v[2]>>
    [] v[1] = "arr" -> <<"arr", [i \in DOMAIN v[2] |-> WithSigns(v[2][i])]>>
    [] v[1] = "dict" -> <<"dict", [i \in DOMAIN v[2] |-> <<v[2][i][1], WithSigns(v[2][i][2])>>]>>
    [] OTHER -> v

\* The binary reader of the pairing code and the app's reader of XML find the
\* value that was written.  So does the app's binary reader, but for integers of
\* one or two bytes with their high bit set, which it takes for negative ones.
PlistsKept ==
  /\ ReadAs({"bplist", "xml"}, Value)
  /\ ReadAs({"info"}, WithSigns(Value))

\* when a certificate made on a day is valid from, for a reader that goes by RFC
\* 5280: ca.ts still writes two digits of the year up to day 29328, 2050-04-19,
\* where 50 stands for 1950
ValidFrom(day) == IF day \in 29220..29328 THEN day - 36525 ELSE day

\* The certificates of a pairing are signed by the key that is kept with them,
\* certify the host's and the device's keys and hold from the day they were made,
\* but for days of 2050 up to 19 April, which become days of 1950, until the end
\* of their lifetime after that day; the file that keeps a pairing gives back what
\* it was made of, its binary parts as PEM; and host and device come to one SRP
\* key, or the host refuses.
PairingsKept ==
  /\ ReadAs({"srp"}, IF SrpServer(Value).B = <<>> THEN <<"refused", 0>> ELSE SrpServer(Value).key)
  /\ ReadAs({"cert"}, <<Pkcs1FromPrivateKey(1), Pkcs1FromPrivateKey(2), ValidFrom(Value),
                        Value + CertLifetime, ValidFrom(Value), Value + CertLifetime>>)
  /\ ReadAs({"file"}, [f \in DOMAIN Value |->
       IF f \in Binary THEN EnsurePemHeaders(Value[f]) ELSE Value[f]])
  /\ ReadAs({"remote"}, Value)

\* What is written in one of the formats of a pairing is read back as it was
\* written, with the two exceptions that PlistsKept and PairingsKept name, and a
\* reader makes nothing of what was cut that was not written.
FormatsKept == WireKept /\ CutsHarmless /\ PlistsKept /\ PairingsKept

=============================================================================
