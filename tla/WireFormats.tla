---------------------------- MODULE WireFormats ----------------------------
(***************************************************************************)
(* The formats of remote pairing as operators on sequences of bytes: base64*)
(* (remote-pairing.ts), TLV8 (tlv.ts) and OPACK (opack.ts).  A value is a  *)
(* pair of its type and its contents, a string its bytes, a real the bytes *)
(* of its IEEE form, a dictionary the sequence of its entries.  TLC's      *)
(* integers bound the numbers at 2^31.                                     *)
(***************************************************************************)
EXTENDS Integers, Sequences, FiniteSets, SequencesExt

Fail == [ok |-> FALSE]
Fits(b, at, n) == at + n - 1 <= Len(b)
Take(b, at, n) == SubSeq(b, at, at + n - 1)
LE(n, width) == [i \in 1..width |-> (n \div 256^(i - 1)) % 256]
Mapped(s, Op(_)) == FlattenSeq([i \in DOMAIN s |-> Op(s[i])])

RECURSIVE FromLE(_)
FromLE(b) == IF b = <<>> THEN 0 ELSE Head(b) + 256 * FromLE(Tail(b))

-----------------------------------------------------------------------------
(* base64: a symbol is its index in the alphabet, 64 the padding           *)

Sextets(b, at) ==
  LET byte(i) == IF i <= Len(b) THEN b[i] ELSE 0
      n == byte(at) * 65536 + byte(at + 1) * 256 + byte(at + 2)
  IN [k \in 1..4 |-> IF at + k - 2 <= Len(b) THEN (n \div 64^(4 - k)) % 64 ELSE 64]

BytesToBase64(b) ==
  [k \in 1..(4 * ((Len(b) + 2) \div 3)) |->
     Sextets(b, 3 * ((k - 1) \div 4) + 1)[1 + ((k - 1) % 4)]]

Base64ToBytes(s) ==
  LET v(i) == s[i] % 64
      n(at) == v(at + 1) * 262144 + v(at + 2) * 4096 + v(at + 3) * 64 + v(at + 4)
      pad == Cardinality({i \in {Len(s) - 1, Len(s)} \cap DOMAIN s : s[i] = 64})
  IN IF Len(s) % 4 # 0 THEN Fail
     ELSE [ok |-> TRUE, value |-> [i \in 1..(3 * (Len(s) \div 4) - pad) |->
             (n(4 * ((i - 1) \div 3)) \div 256^(2 - ((i - 1) % 3))) % 256]]

-----------------------------------------------------------------------------
(* TLV8: an entry is <<type, data>>                                        *)

\* PairingDataComponentType
ComponentTypes == 0..29 \cup {255}

\* the length's low byte is all that is written of it
SerializeTlv8(entries) ==
  Mapped(entries, LAMBDA e : <<e[1], Len(e[2]) % 256>> \o e[2])

RECURSIVE Entries(_, _, _)
Entries(b, at, found) ==
  IF at + 1 > Len(b) THEN [ok |-> TRUE, value |-> found]
  ELSE IF ~Fits(b, at + 2, b[at + 1]) THEN Fail
  ELSE Entries(b, at + 2 + b[at + 1], Append(found, <<b[at], Take(b, at + 2, b[at + 1])>>))

DeserializeTlv8(b) ==
  LET r == Entries(b, 1, <<>>)
  IN IF r.ok /\ \A i \in DOMAIN r.value : r.value[i][1] \in ComponentTypes THEN r ELSE Fail

CollectComponentData(entries, type) ==
  Mapped(SelectSeq(entries, LAMBDA e : e[1] = type), LAMBDA e : e[2])

\* encodeTLV(): a long value in fragments of 255 bytes, an empty one in one
Fragments(e) ==
  IF e[2] = <<>> THEN <<e>>
  ELSE [k \in 1..((Len(e[2]) + 254) \div 255) |->
          <<e[1], SubSeq(e[2], 255 * (k - 1) + 1,
                         IF 255 * k < Len(e[2]) THEN 255 * k ELSE Len(e[2]))>>]

EncodeTLV(entries) == SerializeTlv8(Mapped(entries, Fragments))

\* decodeTLV(): neighbours of one type are fragments of one value
MergeEntry(found, e) ==
  IF found # <<>> /\ Last(found)[1] = e[1]
  THEN Front(found) \o <<<<e[1], Last(found)[2] \o e[2]>>>>
  ELSE Append(found, e)

DecodeTLV(b) ==
  LET r == Entries(b, 1, <<>>)
  IN IF r.ok THEN [r EXCEPT !.value = FoldLeft(MergeEntry, <<>>, @)] ELSE Fail

-----------------------------------------------------------------------------
(* OPACK: writing                                                          *)

Num(n) == <<"int", n>>
Str(s) == <<"str", s>>

\* pushSizedTag(): the length in the tag, or after it in 1, 2 or 4 bytes
SizedTag(inline, first, len) ==
  IF len <= 32 THEN <<inline + len>>
  ELSE IF len <= 255 THEN <<first, len>>
  ELSE IF len <= 65535 THEN <<first + 1>> \o LE(len, 2)
  ELSE <<first + 2>> \o LE(len, 4)

EncodeInteger(n) ==
  IF n <= 39 THEN <<8 + n>> ELSE IF n <= 255 THEN <<48, n>> ELSE <<50>> \o LE(n, 4)

EncodeString(s) == SizedTag(64, 97, Len(s)) \o s
EncodeData(d) == SizedTag(112, 145, Len(d)) \o d
EncodeReal(r) == <<IF Len(r) = 4 THEN 53 ELSE 54>> \o r

\* a collection: its count in the tag, or a terminator after its items
Counted(base, count, items) ==
  IF count < 15 THEN <<base + count>> \o items ELSE <<base + 15>> \o items \o <<3>>

RECURSIVE PlistToOpack(_)
PlistToOpack(v) ==
  CASE v[1] = "str" -> EncodeString(v[2])
    [] v[1] = "int" -> EncodeInteger(IF v[2] < 0 THEN 0 ELSE v[2])
    [] v[1] = "bool" -> IF v[2] THEN <<1>> ELSE <<2>>
    [] v[1] = "data" -> EncodeData(v[2])
    [] v[1] = "real" -> EncodeReal(v[2])
    [] v[1] = "arr" -> Counted(208, Len(v[2]), Mapped(v[2], PlistToOpack))
    [] v[1] = "dict" -> Counted(224, Len(v[2]),
         Mapped(v[2], LAMBDA p : EncodeString(p[1]) \o PlistToOpack(p[2])))

-----------------------------------------------------------------------------
(* OPACK: reading.  A reader's result has its place and the objects that   *)
(* back-references may point at.                                           *)

Got(v, at, seen) == [ok |-> TRUE, value |-> v, at |-> at, seen |-> seen]

\* only a scalar that was not seen before takes a slot
Remember(v, at, seen) == Got(v, at, IF Contains(seen, v) THEN seen ELSE Append(seen, v))

Lookup(seen, index, at) == IF index < Len(seen) THEN Got(seen[index + 1], at, seen) ELSE Fail

\* a string or data: readSizedLen() and the bytes
Sized(type, b, tag, inline, first, at, seen) ==
  LET width == IF tag < first THEN 0 ELSE 2^(tag - first)
      len == IF tag < first THEN tag - inline ELSE FromLE(Take(b, at, width))
  IN IF ~Fits(b, at, width) THEN Fail
     ELSE IF ~Fits(b, at + width, len) THEN Fail
     ELSE Remember(<<type, Take(b, at + width, len)>>, at + width + len, seen)

RECURSIVE DecodeValue(_, _, _), Items(_, _, _)

\* decodeArray(), and decodeDict() with its keys and values in turn: `left`
\* of them, or up to the terminator when it is negative
Items(b, left, r) ==
  IF ~r.ok \/ left = 0 THEN r
  ELSE IF left < 0 /\ Fits(b, r.at, 1) /\ b[r.at] = 3 THEN [r EXCEPT !.at = @ + 1]
  ELSE LET one == DecodeValue(b, r.at, r.seen)
       IN IF one.ok THEN Items(b, left - 1, Got(Append(r.value, one.value), one.at, one.seen))
          ELSE Fail

AsDict(r) ==
  LET pairs == [k \in 1..(Len(r.value) \div 2) |-> <<r.value[2 * k - 1], r.value[2 * k]>>]
  IN IF r.ok /\ Len(r.value) % 2 = 0 /\ \A k \in DOMAIN pairs : pairs[k][1][1] = "str"
     THEN [r EXCEPT !.value = <<"dict", [k \in DOMAIN pairs |-> <<pairs[k][1][2], pairs[k][2]>>]>>]
     ELSE Fail

DecodeValue(b, here, seen) ==
  LET tag == b[here]
      at == here + 1
      none == Got(<<>>, at, seen)
      index(width) == FromLE(Take(b, at, width))
      width == 2^(tag % 4)
  IN IF ~Fits(b, here, 1) THEN Fail
     ELSE CASE tag \in {1, 2} -> Got(<<"bool", tag = 1>>, at, seen)
       [] tag \in 8..47 -> Got(Num(tag - 8), at, seen)
       [] tag \in 48..51 -> IF Fits(b, at, width)
            THEN Remember(Num(index(width)), at + width, seen) ELSE Fail
       [] tag \in {53, 54} -> LET n == 4 * (tag - 52) IN IF Fits(b, at, n)
            THEN Remember(<<"real", Take(b, at, n)>>, at + n, seen) ELSE Fail
       [] tag \in 64..100 -> Sized("str", b, tag, 64, 97, at, seen)
       [] tag \in 112..148 -> Sized("data", b, tag, 112, 145, at, seen)
       [] tag \in 160..192 -> Lookup(seen, tag - 160, at)
       [] tag \in 193..196 -> LET w == 2^(tag - 193) IN IF Fits(b, at, w)
            THEN Lookup(seen, index(w), at + w) ELSE Fail
       [] tag \in 208..223 -> LET r == Items(b, IF tag = 223 THEN -1 ELSE tag - 208, none)
            IN IF r.ok THEN [r EXCEPT !.value = <<"arr", @>>] ELSE Fail
       [] tag \in 224..239 -> AsDict(Items(b, IF tag = 239 THEN -1 ELSE 2 * (tag - 224), none))
       [] OTHER -> Fail

OpackToPlist(b) ==
  LET r == DecodeValue(b, 1, <<>>)
  IN IF r.ok /\ r.at = Len(b) + 1 THEN [ok |-> TRUE, value |-> r.value] ELSE Fail

-----------------------------------------------------------------------------
(* The record that savePairRecordOnPeer() sends                            *)

\* (mutant) the first part is one byte longer than a length can say
PartsOf256(type, data) == <<<<type, Take(data, 1, 256)>>, <<type, SubSeq(data, 257, Len(data))>>>>

\* a long value in two entries, slice(0, 254) and slice(254)
Parts(type, data) ==
  <<<<type, SubSeq(data, 1, IF Len(data) < 254 THEN Len(data) ELSE 254)>>,
    <<type, SubSeq(data, 255, Len(data))>>>>

\* its device info, with the sizes of its keys and values; the name is sendingHost
DeviceInfo(irk, identifier, host) ==
  LET Text(n, byte) == [i \in 1..n |-> byte]
  IN <<"dict", <<<<Text(6, 65), <<"data", irk>>>>, <<Text(6, 66), Str(Text(17, 49))>>,
       <<Text(3, 67), <<"data", Text(6, 17)>>>>, <<Text(27, 68), Str(Text(12, 65))>>,
       <<Text(9, 69), Str(identifier)>>, <<Text(5, 70), Str(Text(14, 99))>>,
       <<Text(4, 71), Str(host)>>>>>>

\* the message it travels in: encryption adds `tag`
SaveRecord(identifier, key, signature, info, tag) ==
  LET plaintext == SerializeTlv8(<<<<1, identifier>>, <<3, key>>, <<10, signature>>,
                                   <<17, PlistToOpack(info)>>>>)
  IN BytesToBase64(SerializeTlv8(Append(Parts(5, plaintext \o tag), <<6, <<5>>>>)))

\* what the peer, or this code, reads in such a message: what does not end in
\* its tag is not decrypted
ReadRecord(message, tag) ==
  LET bytes == Base64ToBytes(message)
      outer == DeserializeTlv8(bytes.value)
      sealed == CollectComponentData(outer.value, 5)
      inner == DeserializeTlv8(SubSeq(sealed, 1, Len(sealed) - Len(tag)))
  IN IF ~bytes.ok THEN Fail ELSE IF ~outer.ok THEN Fail
     ELSE IF ~IsSuffix(tag, sealed) THEN Fail ELSE IF ~inner.ok THEN Fail
     ELSE OpackToPlist(CollectComponentData(inner.value, 17))

=============================================================================
