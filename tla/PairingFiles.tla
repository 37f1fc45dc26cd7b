---------------------------- MODULE PairingFiles ----------------------------
(***************************************************************************)
(* The certificates of a pairing (ca.ts), as DER bytes, and the files that *)
(* keep a pairing (pairing-file.ts).  External cryptography is symbolic: a *)
(* key is a name with a modulus, a signature its key and what it signs, a  *)
(* digest what it digests.                                                 *)
(***************************************************************************)
EXTENDS Integers, Sequences, SequencesExt

Nothing == [ok |-> FALSE]

RECURSIVE Base256(_)
Base256(n) == IF n = 0 THEN <<>> ELSE Append(Base256(n \div 256), n % 256)

RECURSIVE Groups128(_)
Groups128(n) == IF n = 0 THEN <<>> ELSE Append(Groups128(n \div 128), n % 128)

RECURSIVE Stripped(_)
Stripped(b) == IF Len(b) > 1 /\ Head(b) = 0 THEN Stripped(Tail(b)) ELSE b

-----------------------------------------------------------------------------
(* DER                                                                     *)

\* (mutant) one byte of length holds up to 128
EncodeLengthLong(n) ==
  IF n <= 128 THEN <<n>> ELSE <<128 + Len(Base256(n))>> \o Base256(n)

EncodeLength(n) ==
  IF n < 128 THEN <<n>> ELSE <<128 + Len(Base256(n))>> \o Base256(n)

Tlv(tag, content) == <<tag>> \o EncodeLength(Len(content)) \o content
Sequence(parts) == Tlv(48, FlattenSeq(parts))

\* a number that is not negative: its leading zeros go, one comes if it would
\* be read as negative
EncodeIntegerBytes(raw) ==
  LET v == Stripped(raw)
  IN Tlv(2, IF v # <<>> /\ v[1] >= 128 THEN <<0>> \o v ELSE v)

EncodeIntegerNum(n) == IF n = 0 THEN Tlv(2, <<0>>) ELSE EncodeIntegerBytes(Base256(n))

EncodeOid(arcs) ==
  LET Arc(n) == LET g == IF n = 0 THEN <<0>> ELSE Groups128(n)
                IN [i \in DOMAIN g |-> IF i < Len(g) THEN g[i] + 128 ELSE g[i]]
  IN Tlv(6, <<40 * arcs[1] + arcs[2]>>
            \o FlattenSeq([i \in 1..(Len(arcs) - 2) |-> Arc(arcs[i + 2])]))

BitString(unused, data) == Tlv(3, <<unused>> \o data)
OctetString(data) == Tlv(4, data)
BooleanTrue == Tlv(1, <<255>>)

BigEndian(b) == FoldLeft(LAMBDA n, x : 256 * n + x, 0, b)

\* readTlv() at a place; a length of 128 or more counts the bytes of the length
TlvOf(d, tag, first, len) ==
  IF first + len - 1 > Len(d) THEN Nothing
  ELSE [ok |-> TRUE, tag |-> tag, content |-> SubSeq(d, first, first + len - 1),
        next |-> first + len]
LongTlv(d, at, count) ==
  IF count \notin 1..4 \/ at + 1 + count > Len(d) THEN Nothing
  ELSE TlvOf(d, d[at], at + 2 + count, BigEndian(SubSeq(d, at + 2, at + 1 + count)))
ReadTlv(d, at) ==
  IF at + 1 > Len(d) THEN Nothing
  ELSE IF d[at + 1] < 128 THEN TlvOf(d, d[at], at + 2, d[at + 1])
  ELSE LongTlv(d, at, d[at + 1] - 128)

\* all that a SEQUENCE or another constructed value holds
RECURSIVE TlvParts(_, _)
TlvParts(d, at) ==
  IF at > Len(d) THEN <<>>
  ELSE LET one == ReadTlv(d, at)
       IN IF one.ok THEN <<one>> \o TlvParts(d, one.next) ELSE <<one>>

-----------------------------------------------------------------------------
(* Keys                                                                    *)

\* RSA keys by name: modulus and exponent
CONSTANT Modulus \* of the keys there are, sequences of bytes
Keys == DOMAIN Modulus
Exponent == <<1, 0, 1>>

BuildPkcs1Der(n, e) == Sequence(<<EncodeIntegerBytes(n), EncodeIntegerBytes(e)>>)
Pkcs1FromPrivateKey(key) == BuildPkcs1Der(Modulus[key], Exponent)

PublicKey(ints) ==
  IF Len(ints) # 2 \/ \E i \in DOMAIN ints : ~ints[i].ok THEN Nothing
  ELSE IF \E i \in DOMAIN ints : ints[i].tag # 2 THEN Nothing
  ELSE [ok |-> TRUE, n |-> Stripped(ints[1].content), e |-> Stripped(ints[2].content)]
ParsePkcs1Der(der) ==
  LET seq == ReadTlv(der, 1)
  IN IF ~seq.ok THEN Nothing ELSE IF seq.tag # 48 THEN Nothing
     ELSE PublicKey(TlvParts(seq.content, 1))

\* the device's key as PEM (text or bytes) or as DER, normalised
ToPkcs1Der(input) ==
  LET key == ParsePkcs1Der(input.der)
  IN IF key.ok THEN [ok |-> TRUE, der |-> BuildPkcs1Der(key.n, key.e)] ELSE Nothing

OidRsa == <<1, 2, 840, 113549, 1, 1, 1>>
OidSha256WithRsa == <<1, 2, 840, 113549, 1, 1, 11>>
Algorithm(oid) == Sequence(<<EncodeOid(oid), Tlv(5, <<>>)>>)
SpkiFromPkcs1(pkcs1) == Sequence(<<Algorithm(OidRsa), BitString(0, pkcs1)>>)

SpkiToPkcs1(spki) ==
  LET fields == TlvParts(ReadTlv(spki, 1).content, 1)
  IN IF Len(fields) = 2 /\ fields[2].tag = 3 /\ fields[2].content[1] = 0
     THEN [ok |-> TRUE, der |-> Tail(fields[2].content)] ELSE Nothing

-----------------------------------------------------------------------------
(* Certificates                                                            *)

\* a time is a day since 1970; a UTCTime writes two digits of its year
UtcTimeMax == 29328
YearOf(day) == 1970 + (4 * day + 2) \div 1461
EncodeTime(day) ==
  IF day <= UtcTimeMax
  THEN Tlv(23, <<YearOf(day) % 100>> \o Base256(day - (1461 * (YearOf(day) - 1970) + 1) \div 4 + 1))
  ELSE Tlv(24, Base256(day))

CertLifetime == 365 * 9 * 12 * 31
Name(cn) ==
  IF cn = <<>> THEN Sequence(<<>>)
  ELSE Sequence(<<Tlv(49, Sequence(<<EncodeOid(<<2, 5, 4, 3>>), Tlv(12, cn)>>))>>)

BuildExtensions(key) ==
  LET Extension(oid, parts) == Sequence(<<EncodeOid(<<2, 5, 29, oid>>)>> \o parts)
  IN Tlv(163, Sequence(<<
       Extension(14, <<OctetString(OctetString(key))>>),
       Extension(19, <<BooleanTrue, OctetString(Sequence(<<BooleanTrue>>))>>),
       Extension(15, <<BooleanTrue, OctetString(BitString(1, <<6>>))>>)>>))

\* external: what a signature by a key over some bytes is
Signature(key, tbs) == Modulus[key] \o tbs

MakeCertificate(signingKey, key, cn, now) ==
  LET tbs == Sequence(<<Tlv(160, EncodeIntegerNum(2)), EncodeIntegerNum(1),
               Algorithm(OidSha256WithRsa), Name(cn),
               Sequence(<<EncodeTime(now), EncodeTime(now + CertLifetime)>>),
               Name(cn), SpkiFromPkcs1(key), BuildExtensions(key)>>)
  IN Sequence(<<tbs, Algorithm(OidSha256WithRsa), BitString(0, Signature(signingKey, tbs))>>)

Pem(der) == [form |-> "pem", der |-> der]
Device == <<68, 101, 118, 105, 99, 101>>

\* generateCertificates(): the host's is the authority's own
GenerateCertificates(device, key, now) ==
  LET dev == ToPkcs1Der(device)
  IN IF ~dev.ok THEN Nothing
     ELSE [ok |-> TRUE, privateKey |-> Pem(<<key>>),
           hostCert |-> Pem(MakeCertificate(key, Pkcs1FromPrivateKey(key), <<>>, now)),
           devCert |-> Pem(MakeCertificate(key, dev.der, Device, now))]

\* a reader of certificates, as RFC 5280 has them: years from 50 on are 19..
DayOf(yy, number) ==
  (1461 * ((IF yy >= 50 THEN 1900 + yy ELSE 2000 + yy) - 1970) + 1) \div 4 + number - 1
ReadTime(t) == IF t.tag = 24 THEN BigEndian(t.content)
               ELSE DayOf(t.content[1], BigEndian(Tail(t.content)))

ReadTbs(tbs, times, signature) ==
  [from |-> ReadTime(times[1]), to |-> ReadTime(times[2]), signed |-> signature,
   key |-> SpkiToPkcs1(Tlv(48, tbs[7].content)).der]
ReadCertificate(der) ==
  LET outer == TlvParts(ReadTlv(der, 1).content, 1)
      tbs == TlvParts(outer[1].content, 1)
  IN ReadTbs(tbs, TlvParts(tbs[5].content, 1), Tail(outer[3].content))
       @@ [tbs |-> Tlv(48, outer[1].content)]

-----------------------------------------------------------------------------
(* Pairing files.  A binary field is PEM text, bare base64, or DER.        *)

Binary == {"DeviceCertificate", "HostPrivateKey", "HostCertificate",
           "RootPrivateKey", "RootCertificate"}

EnsurePemHeaders(data) == [data EXCEPT !.form = "pem"]

Absent == [form |-> "absent", der |-> <<>>]

\* serialize(): the file's dictionary; what is undefined is not written, and a
\* record without an address has an empty one
Serialize(rec) ==
  [f \in {g \in DOMAIN rec : rec[g] # Absent} \cup {"WiFiMACAddress"} |->
     IF f \in Binary THEN EnsurePemHeaders(rec[f])
     ELSE IF rec[f] = Absent THEN [form |-> "text", der |-> <<>>] ELSE rec[f]]

Required == Binary \cup {"SystemBUID", "HostID", "WiFiMACAddress"}
Fields == Required \cup {"EscrowBag", "UDID"}

\* fromBytes(), and the address that lockdownFromClass() leaves out when empty
FromBytes(dict) ==
  IF Required \ DOMAIN dict # {} THEN Nothing
  ELSE [ok |-> TRUE, rec |-> [f \in Fields |->
         IF f \notin DOMAIN dict \/ (f = "WiFiMACAddress" /\ dict[f].der = <<>>)
         THEN Absent ELSE dict[f]]]

\* the remote pairing file: its lengths are checked when it is made and read
RemoteRecord(rec) ==
  IF Len(rec.private_key) = 32 /\ Len(rec.public_key) = 32
     /\ ("alt_irk" \in DOMAIN rec => Len(rec.alt_irk) = 16)
  THEN [ok |-> TRUE, value |-> rec] ELSE Nothing

=============================================================================
