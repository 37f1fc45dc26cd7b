------------------------------- MODULE Plists -------------------------------
(***************************************************************************)
(* The readers of property lists: lib/bplist.ts (what installation_proxy   *)
(* answers), app/src/lib/plist.ts (Info.plist of a package, binary or XML).*)
(* A value is a pair of its type and its contents, a real or a date the    *)
(* bytes of its double, XML the sequence of its tags and texts.            *)
(***************************************************************************)
EXTENDS Integers, Sequences, SequencesExt

Unread == [ok |-> FALSE]

ReadUInt(b, at, size) == FoldLeft(LAMBDA n, x : 256 * n + x, 0, SubSeq(b, at + 1, at + size))

-----------------------------------------------------------------------------
(* Binary.  Places are counted from 0, as in the file.                     *)

BplistHeader == <<98, 112, 108, 105, 115, 116, 48, 48>>
IsBplist(b) == Len(b) >= 8 /\ SubSeq(b, 1, 8) = BplistHeader

\* its trailer: sizes, number of objects, the top one, the table of places
Trailer(b) ==
  LET t == Len(b) - 32
  IN [offsetSize |-> b[t + 7], refSize |-> b[t + 8], objects |-> ReadUInt(b, t + 8, 8),
      top |-> ReadUInt(b, t + 16, 8), table |-> ReadUInt(b, t + 24, 8)]

Offset(b, t, ref) == ReadUInt(b, t.table + ref * t.offsetSize, t.offsetSize)

\* (mutant) a long count takes one byte
ReadLengthShort(b, info, at) ==
  IF info # 15 THEN [len |-> info, at |-> at] ELSE [len |-> b[at + 2], at |-> at + 2]

\* readLength(): in the marker, or in an integer after it
ReadLength(b, info, at) ==
  IF info # 15 THEN [len |-> info, at |-> at]
  ELSE LET size == 2^(b[at + 1] % 16) IN [len |-> ReadUInt(b, at + 1, size), at |-> at + 1 + size]

\* an integer: plist.ts reads every size as signed, lib/bplist.ts none
ReadInt(b, at, size, signed) ==
  IF signed /\ b[at + 1] >= 128
  THEN -1 - FoldLeft(LAMBDA n, x : 256 * n + (255 - x), 0, SubSeq(b, at + 1, at + size))
  ELSE ReadUInt(b, at, size)

Found(v) == [ok |-> TRUE, value |-> v]

Simple(info) ==
  CASE info = 0 -> Found(<<"null", 0>>)
    [] info \in {8, 9} -> Found(<<"bool", info = 9>>)
    [] OTHER -> Unread

ReadArray(items) ==
  IF \A i \in DOMAIN items : items[i].ok
  THEN Found(<<"arr", [i \in DOMAIN items |-> items[i].value]>>) ELSE Unread

\* plist.ts takes any key
ReadDict(keys, vals, app) ==
  IF \A i \in DOMAIN keys : keys[i].ok /\ vals[i].ok /\ (app \/ keys[i].value[1] = "str")
  THEN Found(<<"dict", [i \in DOMAIN keys |-> <<keys[i].value[2], vals[i].value>>]>>) ELSE Unread

\* both readers of a type (parseBplist's getObject, BinaryReader's readTyped);
\* plist.ts also knows sets, and bplist.ts wraps a UID; t is the trailer
RECURSIVE GetObject(_, _, _, _)
GetObjects(b, t, from, n, app) ==
  [i \in 1..n |-> GetObject(b, t, ReadUInt(b, from + (i - 1) * t.refSize, t.refSize), app)]

\* what has a length l, and is a string, data or a collection
ReadSized(b, t, type, l, app) ==
  CASE type = 4 -> Found(<<"data", SubSeq(b, l.at + 1, l.at + l.len)>>)
    [] type = 5 -> Found(<<"str", SubSeq(b, l.at + 1, l.at + l.len)>>)
    [] type = 6 -> Found(<<"str", [i \in 1..l.len |-> ReadUInt(b, l.at + 2 * (i - 1), 2)]>>)
    [] type = 10 \/ (type = 12 /\ app) -> ReadArray(GetObjects(b, t, l.at, l.len, app))
    [] type = 13 -> ReadDict(GetObjects(b, t, l.at, l.len, app),
                             GetObjects(b, t, l.at + l.len * t.refSize, l.len, app), app)
    [] OTHER -> Unread

ReadObject(b, t, place, type, info, app) ==
  CASE type = 0 -> Simple(info)
    [] type = 1 -> Found(<<"int", ReadInt(b, place + 1, 2^info, app)>>)
    [] type = 2 -> Found(<<"real", SubSeq(b, place + 2, place + 1 + 2^info)>>)
    [] type = 3 -> Found(<<"date", SubSeq(b, place + 2, place + 9)>>)
    [] type = 8 -> Found(<<IF app THEN "int" ELSE "uid", ReadUInt(b, place + 1, info + 1)>>)
    [] info = 15 /\ b[place + 2] \div 16 # 1 -> Unread  \* a length that is no integer
    [] OTHER -> ReadSized(b, t, type, ReadLength(b, info, place + 1), app)

GetObject(b, t, ref, app) ==
  LET place == Offset(b, t, ref)
  IN ReadObject(b, t, place, b[place + 1] \div 16, b[place + 1] % 16, app)

ReadTop(b, t, app) == GetObject(b, t, t.top, app)
ParseBplist(b) == IF IsBplist(b) THEN ReadTop(b, Trailer(b), FALSE) ELSE Unread
ReadTyped(b) == IF IsBplist(b) THEN ReadTop(b, Trailer(b), TRUE) ELSE Unread

-----------------------------------------------------------------------------
(* XML: <<"open", tag>>, <<"close", tag>>, <<"self", tag>>, <<"text", t>>  *)
(* and <<"skip", 0>>, a comment, a prolog or a declaration                 *)

Node(tag) == [tag |-> tag, children |-> <<>>, text |-> <<>>]

Put(stack, child) ==
  Front(stack) \o <<[Last(stack) EXCEPT !.children = Append(@, child)]>>

\* one token; the stack is empty once something was malformed
Parsed(stack, token) ==
  IF stack = <<>> THEN stack
  ELSE CASE token[1] = "skip" -> stack
    [] token[1] = "text" -> Front(stack) \o <<[Last(stack) EXCEPT !.text = @ \o token[2]]>>
    [] token[1] = "self" -> Put(stack, Node(token[2]))
    [] token[1] = "open" -> Append(stack, Node(token[2]))
    [] token[1] = "close" -> IF Len(stack) > 1 /\ Last(stack).tag = token[2]
                             THEN Put(Front(stack), Last(stack)) ELSE <<>>

\* parseXmlDocument(): the root, with everything closed
ParseXmlDocument(tokens) ==
  LET after[k \in 0..Len(tokens)] ==
        IF k = 0 THEN <<Node("")>> ELSE Parsed(after[k - 1], tokens[k])
      stack == after[Len(tokens)]
  IN IF Len(stack) = 1 THEN [ok |-> TRUE, root |-> stack[1]] ELSE Unread

Blank == 32
RECURSIVE Trim(_)
Trim(t) == IF t # <<>> /\ Head(t) = Blank THEN Trim(Tail(t))
           ELSE IF t # <<>> /\ Last(t) = Blank THEN Trim(Front(t)) ELSE t

\* a character that is written as an entity is its code and 1000
DecodeEntities(t) == [i \in DOMAIN t |-> t[i] % 1000]

RECURSIVE XmlNodeToValue(_)
XmlNodeToValue(node) ==
  LET kids == node.children
      vals == [i \in DOMAIN kids |-> XmlNodeToValue(kids[i])]
      Read(v) == [ok |-> TRUE, value |-> v]
      n == Len(kids) \div 2
      text == Trim(node.text)
  IN CASE node.tag = "dict" ->
            IF /\ Len(kids) = 2 * n
               /\ \A k \in 1..n : kids[2 * k - 1].tag = "key" /\ vals[2 * k].ok
            THEN Read(<<"dict", [k \in 1..n |->
                   <<DecodeEntities(Trim(kids[2 * k - 1].text)), vals[2 * k].value>>]>>)
            ELSE Unread
       [] node.tag = "array" -> IF \A i \in DOMAIN vals : vals[i].ok
            THEN Read(<<"arr", [i \in DOMAIN vals |-> vals[i].value]>>) ELSE Unread
       [] node.tag = "string" -> Read(<<"str", DecodeEntities(node.text)>>)
       [] node.tag = "integer" -> IF text = <<>> THEN Unread ELSE Read(<<"int", text[1]>>)
       [] node.tag \in {"real", "date"} ->
            IF text = <<>> THEN Unread ELSE Read(<<node.tag, text>>)
       [] node.tag \in {"true", "false"} -> Read(<<"bool", node.tag = "true">>)
       [] node.tag = "data" -> Read(<<"data", SelectSeq(node.text, LAMBDA c : c # Blank)>>)
       [] OTHER -> Unread

ParseXmlPlist(tokens) ==
  LET doc == ParseXmlDocument(tokens)
      plists == SelectSeq(doc.root.children, LAMBDA c : c.tag = "plist")
  IN IF ~doc.ok THEN Unread
     ELSE IF plists = <<>> \/ plists[1].children = <<>> THEN Unread
     ELSE XmlNodeToValue(plists[1].children[1])

\* plistString(): what the app takes from a dictionary; the last of two equal keys
PlistString(v, key) ==
  LET found == SelectSeq(v[2], LAMBDA p : p[1] = key)
  IN IF v[1] = "dict" /\ found # <<>> /\ Last(found)[2][1] = "str" THEN Last(found)[2][2] ELSE <<>>

=============================================================================
