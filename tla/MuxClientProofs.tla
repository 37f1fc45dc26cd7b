-------------------------- MODULE MuxClientProofs --------------------------
(***************************************************************************)
(* Theorems of MuxClient, for any number of clients, callers, links and    *)
(* streams.  Types hold whoever calls; that the lockdown client, its       *)
(* session and its encryption are those of one stream is proved for flows  *)
(* that use a client one at a time (Shared is false), as the app's page    *)
(* handlers mean to, with close() cutting in anywhere.                     *)
(*                                                                         *)
(* The argument: Sound.  What a client holds belongs together              *)
(* (ClientSound).  A call that is still building its connection has a      *)
(* client without lockdown; one that asks on a stream that is open asks on *)
(* the client's (CallSound).  That stays so because whatever replaces the  *)
(* client's fields ends the old streams in the same stretch, and because   *)
(* a client has one call at most besides a startSession() that its flow    *)
(* gave up (Alone).                                                        *)
(***************************************************************************)
EXTENDS MuxClient, SequenceTheorems, TLAPS

-----------------------------------------------------------------------------
(* Types                                                                   *)

LinkStates == {"opening", "shaking", "failed", "up", "closing", "closed"}

StreamRecord ==
  [link : Nat, st : {"syn", "open", "dead"}, session : BOOLEAN, tls : BOOLEAN]

ClientRecord ==
  [mux : Nat, lockdown : Nat, secure : BOOLEAN, raw : Nat, tls : Nat,
   session : BOOLEAN]

CallRecord ==
  [pc : {"idle", "settling", "opening", "shaking", "connecting", "dialing",
         "asking", "upgrading", "securing"},
   client : Clients \cup {None}, op : Ops \cup {"none"}, link : Nat,
   stream : Nat, left : BOOLEAN]

\* Fields of k refer to links and streams that were made: there are l and n.
ClientMade(k, l, n) ==
  k.mux <= l /\ k.lockdown <= n /\ k.raw <= n /\ k.tls <= n

\* A call has what its await waits for.
CallMade(x, l, n) ==
  \/ x = Idle
  \/ /\ x.client \in Clients /\ x.op \in Ops
     /\ \/ /\ x.pc = "settling" /\ x.op = "reconnect"
           /\ x.link = None /\ x.stream = None /\ ~x.left
        \/ /\ x.pc \in {"opening", "shaking"}
           /\ x.link \in 1..l /\ x.stream = None /\ ~x.left
        \/ /\ x.pc \in {"connecting", "dialing"}
           /\ x.link \in 1..l /\ x.stream \in 1..n /\ ~x.left
        \/ /\ x.pc \in {"asking", "upgrading", "securing"}
           /\ x.link = None /\ x.stream \in 1..n

Made ==
  /\ link \in Seq(LinkStates) /\ stream \in Seq(StreamRecord)
  /\ \A s \in 1..Len(stream) : stream[s].link \in 1..Len(link)
  /\ client \in [Clients -> ClientRecord]
  /\ \A c \in Clients : ClientMade(client[c], Len(link), Len(stream))
  /\ call \in [Callers -> CallRecord]
  /\ \A q \in Callers : CallMade(call[q], Len(link), Len(stream))

-----------------------------------------------------------------------------
(* The invariant                                                           *)

\* What a client holds belongs together: k are its fields, S the streams.
ClientSound(k, S) ==
  /\ k.raw # None => k.lockdown = k.raw /\ k.tls = None
  /\ k.tls # None =>
       k.lockdown = k.tls /\ k.secure /\ S[k.tls].tls /\ S[k.tls].session
  /\ k.secure => k.tls # None
  /\ k.session => k.lockdown # None /\ S[k.lockdown].session
  /\ k.lockdown # None =>
       /\ k.lockdown = k.raw \/ k.lockdown = k.tls
       /\ k.mux # None /\ S[k.lockdown].link = k.mux
       /\ S[k.lockdown].st # "syn"

\* A call and its client, whose fields are k.
CallSound(x, k, S) ==
  /\ x.pc \in {"settling", "opening", "shaking", "connecting"} => k.lockdown = None
  /\ x.pc = "connecting" /\ S[x.stream].st # "dead" => k.mux = S[x.stream].link
  /\ x.pc \in {"asking", "upgrading"} =>
       /\ S[x.stream].st # "syn"
       /\ S[x.stream].st = "open" => k.lockdown = x.stream
  /\ x.op = "service" =>
       x.pc = "asking" /\ S[x.stream].tls /\ S[x.stream].session
  /\ x.left => x.pc = "asking" /\ x.op = "session"

\* A client has one call, or some that its flows gave up.
Alone ==
  \A p \in Callers, q \in Callers :
    p # q /\ call[p].client = call[q].client /\ call[p].pc # "idle" =>
      call[p].left \/ call[q].left

Sound ==
  /\ \A c \in Clients : ClientSound(client[c], stream)
  /\ \A q \in Callers : CallSound(call[q], client[call[q].client], stream)
  /\ Alone

ClientInv == Made /\ Sound

-----------------------------------------------------------------------------
(* Streams and links                                                       *)

\* The streams T come after S: none is forgotten, revived or moved, and none
\* loses its session or its encryption.
Later(S, T) ==
  /\ T \in Seq(StreamRecord) /\ Len(T) >= Len(S)
  /\ \A s \in 1..Len(S) :
       /\ T[s].link = S[s].link
       /\ S[s].session => T[s].session
       /\ S[s].tls => T[s].tls
       /\ S[s].st # "syn" => T[s].st # "syn"
       /\ S[s].st = "dead" => T[s].st = "dead"

\* What End() does.
LEMMA EndFacts ==
  ASSUME NEW S \in Seq(StreamRecord), NEW D
  PROVE  /\ End(S, D) \in Seq(StreamRecord) /\ Len(End(S, D)) = Len(S)
         /\ Later(S, End(S, D))
         /\ \A s \in 1..Len(S) : s \in D => End(S, D)[s].st = "dead"
<1> DEFINE T == End(S, D)
<1>1. Len(S) \in Nat /\ DOMAIN S = 1..Len(S)
  OBVIOUS
<1>2. ASSUME NEW s \in 1..Len(S)
      PROVE  /\ T[s] \in StreamRecord /\ T[s].link = S[s].link
             /\ T[s].session = S[s].session /\ T[s].tls = S[s].tls
             /\ T[s].st = IF s \in D THEN "dead" ELSE S[s].st
  <2>1. S[s] \in StreamRecord
    BY <1>1
  <2>2. T[s] = IF s \in D THEN [S[s] EXCEPT !.st = "dead"] ELSE S[s]
    BY <1>1 DEF End
  <2> QED
    BY <2>1, <2>2 DEF StreamRecord
<1>3. T = [s \in 1..Len(S) |-> T[s]]
  BY <1>1 DEF End
<1> HIDE DEF T
<1>4. T \in Seq(StreamRecord) /\ Len(T) = Len(S)
  BY <1>1, <1>2, <1>3
<1> QED
  BY <1>2, <1>4 DEF Later, T

\* A stream that is opened.
LEMMA AppendIsLater ==
  ASSUME NEW S \in Seq(StreamRecord), NEW e \in StreamRecord
  PROVE  /\ Later(S, Append(S, e)) /\ Len(Append(S, e)) = Len(S) + 1
         /\ Len(S) \in Nat /\ Append(S, e)[Len(S) + 1] = e
         /\ \A s \in 1..Len(S) : Append(S, e)[s] = S[s]
BY DEF Later

\* A stream that changes.
LEMMA ChangeIsLater ==
  ASSUME NEW S \in Seq(StreamRecord), NEW s \in 1..Len(S), NEW e \in StreamRecord,
         NEW T, T = [S EXCEPT ![s] = e],
         e.link = S[s].link, S[s].session => e.session, S[s].tls => e.tls,
         S[s].st # "syn" => e.st # "syn", S[s].st = "dead" => e.st = "dead"
  PROVE  Later(S, T) /\ Len(T) = Len(S) /\ T[s] = e
BY DEF Later

\* Later is transitive, and no change is one.
LEMMA LaterTwice ==
  ASSUME NEW S \in Seq(StreamRecord), NEW T, NEW U, Later(S, T), Later(T, U)
  PROVE  Later(S, U)
<1>1. /\ T \in Seq(StreamRecord) /\ Len(T) \in Nat /\ Len(S) \in Nat /\ Len(T) >= Len(S)
      /\ U \in Seq(StreamRecord) /\ Len(U) \in Nat /\ Len(U) >= Len(T)
  BY DEF Later
<1>2. Len(U) >= Len(S) /\ \A s \in 1..Len(S) : s \in 1..Len(T)
  BY <1>1
<1> QED
  BY <1>1, <1>2 DEF Later

\* A table of streams that stays is a later one of itself.
LEMMA LaterSame ==
  ASSUME NEW S \in Seq(StreamRecord)
  PROVE  Later(S, S)
BY DEF Later

\* What close() and the loss of a device do to the links, and what an await does.
LEMMA LinkFacts ==
  ASSUME link \in Seq(LinkStates), NEW L,
         \/ \E m : L = CloseLink(m)
         \/ \E M : L = [m \in DOMAIN link |-> IF m \in M THEN "closed" ELSE link[m]]
         \/ \E m : \E e \in LinkStates : L = [link EXCEPT ![m] = e]
  PROVE  L \in Seq(LinkStates) /\ Len(L) = Len(link)
<1>1. Len(link) \in Nat /\ DOMAIN link = 1..Len(link)
  OBVIOUS
<1>2. CASE \E m : L = CloseLink(m)
  <2>1. PICK m : L = CloseLink(m)
    BY <1>2
  <2> QED
    BY <1>1, <2>1 DEF CloseLink, LinkStates
<1>3. CASE \E M : L = [m \in DOMAIN link |-> IF m \in M THEN "closed" ELSE link[m]]
  <2>1. PICK M : L = [m \in DOMAIN link |-> IF m \in M THEN "closed" ELSE link[m]]
    BY <1>3
  <2>2. ASSUME NEW m \in 1..Len(link)
        PROVE  L[m] = (IF m \in M THEN "closed" ELSE link[m]) /\ L[m] \in LinkStates
    BY <1>1, <2>1 DEF LinkStates
  <2>3. L = [m \in 1..Len(link) |-> L[m]]
    BY <1>1, <2>1
  <2> QED
    BY <1>1, <2>2, <2>3
<1>4. CASE \E m : \E e \in LinkStates : L = [link EXCEPT ![m] = e]
  <2>1. PICK m : \E e \in LinkStates : L = [link EXCEPT ![m] = e]
    BY <1>4
  <2>2. PICK e \in LinkStates : L = [link EXCEPT ![m] = e]
    BY <2>1
  <2>3. DOMAIN L = 1..Len(link) /\ \A i \in 1..Len(link) : L[i] \in LinkStates
    BY <1>1, <2>2
  <2>4. L = [i \in 1..Len(link) |-> L[i]]
    BY <1>1, <2>2
  <2> QED
    BY <1>1, <2>3, <2>4
<1> QED
  BY <1>2, <1>3, <1>4

-----------------------------------------------------------------------------
(* Clients and calls                                                       *)

\* The records of the module have their types.
LEMMA RecordsTyped ==
  /\ Idle \in CallRecord /\ Blank \in ClientRecord
  /\ \A l, n : CallMade(Idle, l, n)
  /\ \A l \in Nat, n \in Nat : ClientMade(Blank, l, n)
  /\ Idle.pc = "idle" /\ Idle.client = None /\ Idle.op = "none"
  /\ ~Idle.left /\ None \notin Clients
BY MuxClientAssumption
   DEF Idle, Blank, CallRecord, ClientRecord, CallMade, ClientMade, None

\* More links and streams leave what refers to the old ones right.
LEMMA MadeStays ==
  ASSUME NEW l \in Nat, NEW n \in Nat, NEW l2 \in Nat, NEW n2 \in Nat,
         l <= l2, n <= n2
  PROVE  /\ \A k \in ClientRecord : ClientMade(k, l, n) => ClientMade(k, l2, n2)
         /\ \A x \in CallRecord : CallMade(x, l, n) => CallMade(x, l2, n2)
BY DEF ClientRecord, CallRecord, ClientMade, CallMade

\* A step keeps the types when what it changes has them.
LEMMA MadeAfter ==
  ASSUME Made, link' \in Seq(LinkStates), Len(link') >= Len(link),
         Later(stream, stream'),
         \A s \in 1..Len(stream') :
           s \in 1..Len(stream) \/ stream'[s].link \in 1..Len(link'),
         client' \in [Clients -> ClientRecord],
         \A c \in Clients :
           client'[c] = client[c] \/ ClientMade(client'[c], Len(link'), Len(stream')),
         call' \in [Callers -> CallRecord],
         \A q \in Callers :
           call'[q] = call[q] \/ CallMade(call'[q], Len(link'), Len(stream'))
  PROVE  Made'
<1>1. /\ Len(link) \in Nat /\ Len(link') \in Nat /\ Len(stream) \in Nat
      /\ Len(stream') \in Nat /\ Len(stream') >= Len(stream)
      /\ stream' \in Seq(StreamRecord)
  BY DEF Made, Later
<1>2. ASSUME NEW s \in 1..Len(stream') PROVE stream'[s].link \in 1..Len(link')
  <2>1. CASE s \in 1..Len(stream)
    <3>1. stream'[s].link = stream[s].link /\ stream[s].link \in 1..Len(link)
      BY <2>1 DEF Made, Later
    <3> QED
      BY <1>1, <3>1
  <2> QED
    BY <2>1
<1>3. ASSUME NEW c \in Clients PROVE ClientMade(client'[c], Len(link'), Len(stream'))
  <2>1. client[c] \in ClientRecord /\ ClientMade(client[c], Len(link), Len(stream))
    BY DEF Made
  <2> QED
    BY <1>1, <2>1, MadeStays
<1>4. ASSUME NEW q \in Callers PROVE CallMade(call'[q], Len(link'), Len(stream'))
  <2>1. call[q] \in CallRecord /\ CallMade(call[q], Len(link), Len(stream))
    BY DEF Made
  <2> QED
    BY <1>1, <2>1, MadeStays
<1> QED
  BY <1>1, <1>2, <1>3, <1>4 DEF Made

\* The type invariant of the module is among what was made.
LEMMA MadeIsTyped == Made => TypeOK
<1> SUFFICES ASSUME Made PROVE TypeOK
  OBVIOUS
<1>1. /\ link \in Seq(LinkStates) /\ stream \in Seq(StreamRecord)
      /\ Len(link) \in Nat /\ Len(stream) \in Nat
      /\ DOMAIN link = 1..Len(link) /\ DOMAIN stream = 1..Len(stream)
  BY DEF Made
<1>2. stream \in Seq([link : DOMAIN link, st : {"syn", "open", "dead"},
                      session : BOOLEAN, tls : BOOLEAN])
  <2> DEFINE R == [link : DOMAIN link, st : {"syn", "open", "dead"},
                   session : BOOLEAN, tls : BOOLEAN]
  <2>1. ASSUME NEW s \in 1..Len(stream) PROVE stream[s] \in R
    <3>1. stream[s] \in StreamRecord /\ stream[s].link \in DOMAIN link
      BY <1>1 DEF Made
    <3> QED
      BY <3>1 DEF StreamRecord
  <2> HIDE DEF R
  <2>2. stream \in Seq(R)
    BY <1>1, <2>1
  <2> QED
    BY <2>2 DEF R
<1>3. client \in [Clients ->
        [mux : DOMAIN link \cup {None}, lockdown : DOMAIN stream \cup {None},
         secure : BOOLEAN, raw : DOMAIN stream \cup {None},
         tls : DOMAIN stream \cup {None}, session : BOOLEAN]]
  <2>1. ASSUME NEW c \in Clients
        PROVE  client[c] \in
                 [mux : DOMAIN link \cup {None}, lockdown : DOMAIN stream \cup {None},
                  secure : BOOLEAN, raw : DOMAIN stream \cup {None},
                  tls : DOMAIN stream \cup {None}, session : BOOLEAN]
    <3>1. client[c] \in ClientRecord /\ ClientMade(client[c], Len(link), Len(stream))
      BY DEF Made
    <3>2. \A i \in Nat, n \in Nat : i <= n => i \in 1..n \cup {None}
      BY DEF None
    <3>3. /\ client[c].mux \in DOMAIN link \cup {None}
          /\ client[c].lockdown \in DOMAIN stream \cup {None}
          /\ client[c].raw \in DOMAIN stream \cup {None}
          /\ client[c].tls \in DOMAIN stream \cup {None}
      BY <1>1, <3>1, <3>2 DEF ClientRecord, ClientMade
    <3> QED
      BY <3>1, <3>3 DEF ClientRecord
  <2>2. client \in [Clients -> ClientRecord]
    BY DEF Made
  <2> QED
    BY <2>1, <2>2
<1>4. ASSUME NEW q \in Callers
      PROVE  \/ call[q] = Idle
             \/ call[q] \in [pc : {"settling"}, client : Clients, op : {"reconnect"},
                             link : {None}, stream : {None}, left : {FALSE}]
             \/ call[q] \in [pc : {"opening", "shaking"}, client : Clients, op : Ops,
                             link : DOMAIN link, stream : {None}, left : {FALSE}]
             \/ call[q] \in [pc : {"connecting", "dialing"}, client : Clients,
                             op : Ops, link : DOMAIN link, stream : DOMAIN stream,
                             left : {FALSE}]
             \/ call[q] \in [pc : {"asking", "upgrading", "securing"},
                             client : Clients, op : Ops, link : {None},
                             stream : DOMAIN stream, left : BOOLEAN]
  <2>1. call[q] \in CallRecord /\ CallMade(call[q], Len(link), Len(stream))
    BY DEF Made
  <2> QED
    BY <1>1, <2>1 DEF CallRecord, CallMade
<1>5. link \in Seq({"opening", "shaking", "failed", "up", "closing", "closed"})
  BY <1>1 DEF LinkStates
<1> QED
  BY <1>2, <1>3, <1>4, <1>5 DEF TypeOK

-----------------------------------------------------------------------------
(* The beginnings of awaits                                                *)

\* A call that opens a link: no stream, no client.
Opening(q, c, op) ==
  \E x \in CallRecord :
    /\ call' = [call EXCEPT ![q] = x] /\ x.pc = "opening" /\ x.client = c
    /\ x.op = op /\ ~x.left
    /\ CallMade(x, Len(link'), Len(stream))

\* A call that dials over m, or ends for a link that is down.
Dialing(q, c, op, pc, m, S) ==
  \/ call' = [call EXCEPT ![q] = Idle] /\ stream' = S
  \/ \E x \in CallRecord :
       /\ call' = [call EXCEPT ![q] = x] /\ x.pc = pc /\ x.client = c
       /\ x.op = op /\ ~x.left
       /\ CallMade(x, Len(link'), Len(stream'))
       /\ stream'[x.stream].link = m
       /\ x.stream = Len(S) + 1

\* What OpenLink() does.
LEMMA OpenLinkFacts ==
  ASSUME Made, NEW q, NEW c \in Clients, NEW op \in Ops, OpenLink(q, c, op)
  PROVE  link' \in Seq(LinkStates) /\ Len(link') = Len(link) + 1 /\ Opening(q, c, op)
<1> DEFINE x == At("opening", c, op, Len(link) + 1, None)
<1>1. /\ link' = Append(link, "opening") /\ call' = [call EXCEPT ![q] = x]
      /\ link \in Seq(LinkStates) /\ Len(link) \in Nat
  BY DEF OpenLink, Made
<1>2. link' \in Seq(LinkStates) /\ Len(link') = Len(link) + 1
  BY <1>1 DEF LinkStates
<1>3. /\ x \in CallRecord /\ x.pc = "opening" /\ x.client = c /\ x.op = op
      /\ x.link = Len(link) + 1 /\ x.stream = None /\ x.left = FALSE
  BY <1>1 DEF At, CallRecord, None
<1> HIDE DEF x
<1>4. CallMade(x, Len(link'), Len(stream))
  BY <1>1, <1>2, <1>3 DEF CallMade
<1> QED
  BY <1>1, <1>2, <1>3, <1>4 DEF Opening

\* What Dial() does.
LEMMA DialFacts ==
  ASSUME Made, NEW q, NEW c \in Clients, NEW op \in Ops,
         NEW pc \in {"connecting", "dialing"}, NEW m \in 1..Len(link),
         NEW S, Later(stream, S), Len(S) = Len(stream), Dial(q, c, op, pc, m, S)
  PROVE  /\ link' = link /\ Later(stream, stream')
         /\ \A s \in 1..Len(stream') :
              s \in 1..Len(stream) \/ stream'[s].link \in 1..Len(link')
         /\ \A s \in 1..Len(stream) : stream'[s] = S[s]
         /\ Dialing(q, c, op, pc, m, S)
<1>1. /\ stream \in Seq(StreamRecord) /\ S \in Seq(StreamRecord)
      /\ Len(stream) \in Nat /\ Len(link) \in Nat /\ link' = link
  BY DEF Made, Later, Dial
<1>2. CASE link[m] # "up"
  BY <1>1, <1>2 DEF Dial, Dialing
<1>3. CASE ~(link[m] # "up")
  <2> DEFINE e == [link |-> m, st |-> "syn", session |-> FALSE, tls |-> FALSE]
             x == At(pc, c, op, m, Len(S) + 1)
  <2>1. stream' = Append(S, e) /\ call' = [call EXCEPT ![q] = x]
    BY <1>3 DEF Dial
  <2>2. e \in StreamRecord /\ e.link = m
    BY <1>1 DEF StreamRecord
  <2>3. /\ x \in CallRecord /\ x.pc = pc /\ x.client = c /\ x.op = op
        /\ x.link = m /\ x.stream = Len(S) + 1 /\ x.left = FALSE
    BY <1>1 DEF At, CallRecord
  <2> HIDE DEF e, x
  <2>4. /\ Later(S, stream') /\ Len(stream') = Len(stream) + 1
        /\ stream'[Len(stream) + 1] = e
        /\ \A s \in 1..Len(S) : stream'[s] = S[s]
    BY <1>1, <2>1, <2>2, AppendIsLater
  <2>5. Later(stream, stream')
    BY <1>1, <2>4, LaterTwice
  <2>6. ASSUME NEW s \in 1..Len(stream')
        PROVE  s \in 1..Len(stream) \/ stream'[s].link \in 1..Len(link')
    <3>1. s \in 1..Len(stream) \/ s = Len(stream) + 1
      BY <1>1, <2>4
    <3> QED
      BY <1>1, <2>2, <2>4, <3>1
  <2>7. CallMade(x, Len(link'), Len(stream'))
    BY <1>1, <2>3, <2>4 DEF CallMade
  <2>8. Dialing(q, c, op, pc, m, S)
    BY <2>1, <2>2, <2>3, <2>4, <2>7 DEF Dialing
  <2> QED
    BY <1>1, <2>4, <2>5, <2>6, <2>8
<1> QED
  BY <1>2, <1>3

\* A call that changes, and the others.
LEMMA CallChanges ==
  ASSUME Made, NEW q \in Callers, NEW x \in CallRecord, call' = [call EXCEPT ![q] = x]
  PROVE  /\ call' \in [Callers -> CallRecord] /\ call'[q] = x
         /\ \A p \in Callers : p # q => call'[p] = call[p]
BY DEF Made

\* A client that changes, and the others.
LEMMA ClientChanges ==
  ASSUME Made, NEW c \in Clients, NEW k \in ClientRecord,
         client' = [client EXCEPT ![c] = k]
  PROVE  /\ client' \in [Clients -> ClientRecord] /\ client'[c] = k
         /\ \A d \in Clients : d # c => client'[d] = client[d]
BY DEF Made

-----------------------------------------------------------------------------
(* Every step keeps the types, and the streams                             *)

\* A step that ends calls and streams and changes no client.
LEMMA EndsMade ==
  ASSUME Made, client' = client, link' \in Seq(LinkStates), Len(link') = Len(link),
         stream' = stream \/ \E D : stream' = End(stream, D),
         call' = call \/ \E q \in Callers : call' = [call EXCEPT ![q] = Idle]
  PROVE  Made' /\ Later(stream, stream')
<1>1. /\ stream \in Seq(StreamRecord) /\ Len(stream) \in Nat /\ Len(link) \in Nat
      /\ client \in [Clients -> ClientRecord] /\ call \in [Callers -> CallRecord]
  BY DEF Made
<1>2. Later(stream, stream') /\ Len(stream') = Len(stream)
  <2>1. CASE stream' = stream
    BY <1>1, <2>1, LaterSame
  <2>2. ASSUME NEW D, stream' = End(stream, D)
        PROVE  Later(stream, stream') /\ Len(stream') = Len(stream)
    BY <1>1, <2>2, EndFacts
  <2> QED
    BY <2>1, <2>2
<1>3. /\ call' \in [Callers -> CallRecord]
      /\ \A p \in Callers : call'[p] = call[p] \/ CallMade(call'[p], Len(link'), Len(stream'))
  <2>1. CASE call' = call
    BY <1>1, <2>1
  <2>2. ASSUME NEW q \in Callers, call' = [call EXCEPT ![q] = Idle]
        PROVE  /\ call' \in [Callers -> CallRecord]
               /\ \A p \in Callers :
                    call'[p] = call[p] \/ CallMade(call'[p], Len(link'), Len(stream'))
    BY <2>2, CallChanges, RecordsTyped
  <2> QED
    BY <2>1, <2>2
<1> QED
  BY <1>1, <1>2, <1>3, MadeAfter

\* The steps that end calls, streams or links.
LEMMA EndingsMade ==
  ASSUME Made,
         \/ \E q \in Callers : OpenFails(q) \/ ShakeFails(q) \/ ConnectFails(q)
                               \/ AskFails(q) \/ TlsFails(q)
         \/ \E s \in DOMAIN stream : StreamLost(s)
         \/ \E m \in DOMAIN link : LinkLost(m) \/ Released(m)
         \/ Unplug
         \/ UNCHANGED vars
  PROVE  Made' /\ Later(stream, stream')
<1>1. link \in Seq(LinkStates)
  BY DEF Made
<1>2. ASSUME NEW q \in Callers, OpenFails(q)
      PROVE  Made' /\ Later(stream, stream')
  <2>1. "closed" \in LinkStates
    BY DEF LinkStates
  <2>2. link' \in Seq(LinkStates) /\ Len(link') = Len(link)
    BY <1>1, <1>2, <2>1, LinkFacts DEF OpenFails
  <2> QED
    BY <1>2, <2>2, EndsMade DEF OpenFails, Ends
<1>3. ASSUME NEW q \in Callers, ShakeFails(q)
      PROVE  Made' /\ Later(stream, stream')
  <2> DEFINE m == call[q].link
             e == IF link[m] = "shaking" THEN "failed" ELSE link[m]
  <2>1. m \in 1..Len(link)
    <3>1. CallMade(call[q], Len(link), Len(stream)) /\ call[q].pc = "shaking"
      BY <1>3 DEF Made, ShakeFails
    <3> QED
      BY <3>1 DEF CallMade, Idle
  <2>2. e \in LinkStates /\ link' = [link EXCEPT ![m] = e]
    BY <1>1, <1>3, <2>1 DEF LinkStates, ShakeFails
  <2> HIDE DEF m, e
  <2>3. link' \in Seq(LinkStates) /\ Len(link') = Len(link)
    BY <1>1, <2>2, LinkFacts
  <2> QED
    BY <1>3, <2>3, EndsMade DEF ShakeFails, Ends
<1>4. ASSUME NEW q \in Callers, ConnectFails(q) \/ AskFails(q) \/ TlsFails(q)
      PROVE  Made' /\ Later(stream, stream')
  BY <1>1, <1>4, EndsMade DEF ConnectFails, AskFails, TlsFails, Ends
<1>5. ASSUME NEW s \in DOMAIN stream, StreamLost(s)
      PROVE  Made' /\ Later(stream, stream')
  BY <1>1, <1>5, EndsMade DEF StreamLost
<1>6. ASSUME NEW M, Lost(M)
      PROVE  Made' /\ Later(stream, stream')
  <2>1. link' \in Seq(LinkStates) /\ Len(link') = Len(link)
    BY <1>1, <1>6, LinkFacts DEF Lost
  <2> QED
    BY <1>6, <2>1, EndsMade DEF Lost
<1>7. CASE UNCHANGED vars
  BY <1>1, <1>7, EndsMade DEF vars
<1> QED
  BY <1>2, <1>3, <1>4, <1>5, <1>6, <1>7 DEF LinkLost, Released, Unplug

\* connectLockdown() up to its first await.
LEMMA ConnectFacts ==
  ASSUME Made, NEW q \in Callers, NEW c \in Clients, NEW op \in Ops,
         NEW k \in ClientRecord, ClientMade(k, Len(link), Len(stream)),
         NEW S, Later(stream, S), Len(S) = Len(stream),
         ConnectLockdown(q, c, op, k, S)
  PROVE  /\ Made' /\ Later(stream, stream')
         /\ \A s \in 1..Len(stream) : stream'[s] = S[s]
         /\ client' = [client EXCEPT ![c] = k]
         /\ \/ /\ k.lockdown # None /\ stream' = S
               /\ call' = [call EXCEPT ![q] = After(c, op, k.lockdown)]
            \/ /\ k.lockdown = None
               /\ Dialing(q, c, op, "connecting", k.mux, S) \/ Opening(q, c, op)
<1>1. /\ stream \in Seq(StreamRecord) /\ Len(stream) \in Nat /\ Len(link) \in Nat
      /\ link \in Seq(LinkStates) /\ call \in [Callers -> CallRecord]
  BY DEF Made
<1>2. client' = [client EXCEPT ![c] = k]
  BY DEF ConnectLockdown
<1>3. /\ client' \in [Clients -> ClientRecord]
      /\ \A d \in Clients : client'[d] = client[d] \/ client'[d] = k
  BY <1>2, ClientChanges
<1>4. CASE k.lockdown # None
  <2> DEFINE x == After(c, op, k.lockdown)
  <2>1. link' = link /\ stream' = S /\ call' = [call EXCEPT ![q] = x]
    BY <1>4 DEF ConnectLockdown
  <2>2. k.lockdown \in 1..Len(stream)
    BY <1>1, <1>4 DEF ClientRecord, ClientMade, None
  <2>3. x \in CallRecord /\ CallMade(x, Len(link), Len(stream))
    <3>1. CASE op \in {"query", "session", "service"}
      <4>1. x = At("asking", c, op, None, k.lockdown)
        BY <3>1 DEF After
      <4> QED
        BY <1>1, <2>2, <4>1 DEF At, CallRecord, CallMade, None
    <3>2. CASE op \notin {"query", "session", "service"}
      BY <3>2, RecordsTyped DEF After
    <3> QED
      BY <3>1, <3>2
  <2> HIDE DEF x
  <2>4. /\ call' \in [Callers -> CallRecord]
        /\ \A p \in Callers : call'[p] = call[p] \/ call'[p] = x
    BY <2>1, <2>3, CallChanges
  <2>5. /\ \A d \in Clients :
             client'[d] = client[d] \/ ClientMade(client'[d], Len(link'), Len(stream'))
        /\ \A p \in Callers :
             call'[p] = call[p] \/ CallMade(call'[p], Len(link'), Len(stream'))
    BY <1>3, <2>1, <2>3, <2>4
  <2>6. Made'
    BY <1>1, <1>3, <2>1, <2>4, <2>5, MadeAfter
  <2> QED
    BY <1>2, <1>4, <2>1, <2>6 DEF x
<1>5. CASE k.lockdown = None /\ k.mux # None
  <2>1. Dial(q, c, op, "connecting", k.mux, S)
    BY <1>5 DEF ConnectLockdown
  <2>2. k.mux \in 1..Len(link)
    BY <1>1, <1>5 DEF ClientRecord, ClientMade, None
  <2>3. /\ link' = link /\ Later(stream, stream')
        /\ \A s \in 1..Len(stream') :
             s \in 1..Len(stream) \/ stream'[s].link \in 1..Len(link')
        /\ \A s \in 1..Len(stream) : stream'[s] = S[s]
        /\ Dialing(q, c, op, "connecting", k.mux, S)
    BY <2>1, <2>2, DialFacts
  <2>4. PICK x \in CallRecord :
          call' = [call EXCEPT ![q] = x] /\ CallMade(x, Len(link'), Len(stream'))
    BY <2>3, RecordsTyped DEF Dialing
  <2>5. /\ call' \in [Callers -> CallRecord]
        /\ \A p \in Callers : call'[p] = call[p] \/ call'[p] = x
    BY <2>4, CallChanges
  <2>6. Len(link') \in Nat /\ Len(stream') \in Nat /\ Len(stream') >= Len(stream)
    BY <1>1, <2>3 DEF Later
  <2>7. ClientMade(k, Len(link'), Len(stream'))
    BY <1>1, <2>3, <2>6, MadeStays
  <2>8. /\ \A d \in Clients :
             client'[d] = client[d] \/ ClientMade(client'[d], Len(link'), Len(stream'))
        /\ \A p \in Callers :
             call'[p] = call[p] \/ CallMade(call'[p], Len(link'), Len(stream'))
    BY <1>3, <2>4, <2>5, <2>7
  <2>9. Made'
    BY <1>1, <1>3, <2>3, <2>5, <2>8, MadeAfter
  <2> QED
    BY <1>2, <1>5, <2>3, <2>9
<1>6. CASE k.lockdown = None /\ k.mux = None
  <2>1. OpenLink(q, c, op) /\ stream' = S
    BY <1>6 DEF ConnectLockdown
  <2>2. link' \in Seq(LinkStates) /\ Len(link') = Len(link) + 1 /\ Opening(q, c, op)
    BY <2>1, OpenLinkFacts
  <2>3. PICK x \in CallRecord :
          call' = [call EXCEPT ![q] = x] /\ CallMade(x, Len(link'), Len(stream'))
    BY <2>1, <2>2 DEF Opening
  <2>4. /\ call' \in [Callers -> CallRecord]
        /\ \A p \in Callers : call'[p] = call[p] \/ call'[p] = x
    BY <2>3, CallChanges
  <2>5. ClientMade(k, Len(link'), Len(stream'))
    BY <1>1, <2>1, <2>2, MadeStays
  <2>6. /\ \A d \in Clients :
             client'[d] = client[d] \/ ClientMade(client'[d], Len(link'), Len(stream'))
        /\ \A p \in Callers :
             call'[p] = call[p] \/ CallMade(call'[p], Len(link'), Len(stream'))
    BY <1>3, <2>3, <2>4, <2>5
  <2>7. Made'
    BY <1>1, <1>3, <2>1, <2>2, <2>4, <2>6, MadeAfter
  <2> QED
    BY <1>2, <1>6, <2>1, <2>2, <2>7
<1> QED
  BY <1>4, <1>5, <1>6

NewStreamsMade ==
  \A s \in 1..Len(stream') :
    s \in 1..Len(stream) \/ stream'[s].link \in 1..Len(link')

ClientsMove ==
  \/ client' = client
  \/ \E c \in Clients : \E k \in ClientRecord :
       /\ client' = [client EXCEPT ![c] = k]
       /\ ClientMade(k, Len(link'), Len(stream'))

CallsMove ==
  \/ call' = call
  \/ \E q \in Callers : \E x \in CallRecord :
       /\ call' = [call EXCEPT ![q] = x]
       /\ CallMade(x, Len(link'), Len(stream'))

\* A step that changes one client and one call at most.
LEMMA ChangeMade ==
  ASSUME Made, link' \in Seq(LinkStates), Len(link') >= Len(link),
         Later(stream, stream'), NewStreamsMade, ClientsMove, CallsMove
  PROVE  Made'
<1>1. /\ client' \in [Clients -> ClientRecord]
      /\ \A d \in Clients :
           client'[d] = client[d] \/ ClientMade(client'[d], Len(link'), Len(stream'))
  <2>1. CASE client' = client
    BY <2>1 DEF Made
  <2>2. ASSUME NEW c \in Clients, NEW k \in ClientRecord,
               client' = [client EXCEPT ![c] = k],
               ClientMade(k, Len(link'), Len(stream'))
        PROVE  /\ client' \in [Clients -> ClientRecord]
               /\ \A d \in Clients : client'[d] = client[d]
                    \/ ClientMade(client'[d], Len(link'), Len(stream'))
    BY <2>2, ClientChanges
  <2> QED
    BY <2>1, <2>2 DEF ClientsMove
<1>2. /\ call' \in [Callers -> CallRecord]
      /\ \A p \in Callers :
           call'[p] = call[p] \/ CallMade(call'[p], Len(link'), Len(stream'))
  <2>1. CASE call' = call
    BY <2>1 DEF Made
  <2>2. ASSUME NEW q \in Callers, NEW x \in CallRecord,
               call' = [call EXCEPT ![q] = x],
               CallMade(x, Len(link'), Len(stream'))
        PROVE  /\ call' \in [Callers -> CallRecord]
               /\ \A p \in Callers : call'[p] = call[p]
                    \/ CallMade(call'[p], Len(link'), Len(stream'))
    BY <2>2, CallChanges
  <2> QED
    BY <2>1, <2>2 DEF CallsMove
<1> QED
  BY <1>1, <1>2, MadeAfter DEF NewStreamsMade

\* The requests of the flows, and resetLockdown().
LEMMA RequestsMade ==
  ASSUME Made, NEW q \in Callers, NEW c \in Clients,
         \/ \E op \in {"connect", "query", "session", "service"} : Request(q, c, op)
         \/ ResetLockdown(q, c)
  PROVE  Made' /\ Later(stream, stream')
<1>1. /\ stream \in Seq(StreamRecord) /\ Len(stream) \in Nat /\ Len(link) \in Nat
      /\ client[c] \in ClientRecord /\ ClientMade(client[c], Len(link), Len(stream))
  BY DEF Made
<1>2. ASSUME NEW op \in {"connect", "query", "session", "service"}, Request(q, c, op)
      PROVE  Made' /\ Later(stream, stream')
  <2>1. ConnectLockdown(q, c, op, client[c], stream) /\ op \in Ops
    BY <1>2 DEF Request, Ops
  <2> QED
    BY <1>1, <2>1, ConnectFacts, LaterSame
<1>3. CASE ResetLockdown(q, c)
  <2> DEFINE k == [Blank EXCEPT !.mux = client[c].mux]
             S == End(stream, {client[c].tls, client[c].raw})
  <2>1. ConnectLockdown(q, c, "reset", k, S) /\ "reset" \in Ops
    BY <1>3 DEF ResetLockdown, Ops
  <2>2. k \in ClientRecord /\ ClientMade(k, Len(link), Len(stream))
    <3> DEFINE m == client[c].mux
    <3>1. /\ Blank \in ClientRecord /\ Blank.lockdown = 0 /\ Blank.raw = 0
          /\ Blank.tls = 0 /\ m \in Nat /\ m <= Len(link)
      BY <1>1, RecordsTyped DEF Blank, None, ClientRecord, ClientMade
    <3>2. k = [Blank EXCEPT !.mux = m]
      OBVIOUS
    <3> HIDE DEF k, m
    <3>3. k \in ClientRecord /\ k.mux = m /\ k.lockdown = 0 /\ k.raw = 0 /\ k.tls = 0
      BY <3>1, <3>2 DEF ClientRecord
    <3> QED
      BY <1>1, <3>1, <3>3 DEF ClientMade
  <2>3. Later(stream, S) /\ Len(S) = Len(stream)
    BY <1>1, EndFacts
  <2> HIDE DEF k, S
  <2> QED
    BY <2>1, <2>2, <2>3, ConnectFacts
<1> QED
  BY <1>2, <1>3

\* close(), and the first stretch of reconnect().
LEMMA ClosesMade ==
  ASSUME Made, NEW c \in Clients,
         Close(c) \/ \E q \in Callers : Reconnect(q, c)
  PROVE  /\ Made' /\ Later(stream, stream')
         /\ client' = [client EXCEPT ![c] = Blank]
<1>1. /\ stream \in Seq(StreamRecord) /\ Len(stream) \in Nat /\ Len(link) \in Nat
      /\ link \in Seq(LinkStates)
  BY DEF Made
<1>2. CloseClient(c)
  BY DEF Close, Reconnect
<1>3. client' = [client EXCEPT ![c] = Blank]
  BY <1>2 DEF CloseClient
<1>4. link' \in Seq(LinkStates) /\ Len(link') = Len(link)
  BY <1>1, <1>2, LinkFacts DEF CloseClient
<1>5. Later(stream, stream') /\ Len(stream') = Len(stream)
  BY <1>1, <1>2, EndFacts DEF CloseClient
<1>6. Blank \in ClientRecord /\ ClientMade(Blank, Len(link'), Len(stream'))
  BY <1>1, <1>4, <1>5, RecordsTyped
<1>7. CallsMove
  <2>1. CASE Close(c)
    BY <2>1 DEF Close, CallsMove
  <2>2. ASSUME NEW q \in Callers, Reconnect(q, c)
        PROVE  \E x \in CallRecord : /\ call' = [call EXCEPT ![q] = x]
                                     /\ CallMade(x, Len(link'), Len(stream'))
    <3> DEFINE x == At("settling", c, "reconnect", None, None)
    <3>1. x \in CallRecord /\ CallMade(x, Len(link'), Len(stream'))
      BY DEF At, CallRecord, CallMade, None, Ops
    <3> HIDE DEF x
    <3>2. call' = [call EXCEPT ![q] = x]
      BY <2>2 DEF Reconnect, x
    <3> QED
      BY <3>1, <3>2
  <2> QED
    BY <2>1, <2>2 DEF CallsMove
<1>8. ClientsMove
  BY <1>3, <1>6 DEF ClientsMove
<1>9. Made'
  BY <1>1, <1>4, <1>5, <1>7, <1>8, ChangeMade DEF NewStreamsMade
<1> QED
  BY <1>3, <1>5, <1>9

\* The other beginnings: after the pause of reconnect(), of upgradeToTls(), and
\* the flow that gives a startSession() up.
LEMMA BeginsMade ==
  ASSUME Made, NEW q \in Callers,
         Settled(q) \/ Abandon(q) \/ \E c \in Clients : Upgrade(q, c)
  PROVE  Made' /\ Later(stream, stream') /\ client' = client /\ stream' = stream
<1>1. /\ stream \in Seq(StreamRecord) /\ Len(stream) \in Nat /\ Len(link) \in Nat
      /\ link \in Seq(LinkStates) /\ Later(stream, stream)
      /\ call[q] \in CallRecord /\ CallMade(call[q], Len(link), Len(stream))
  BY LaterSame DEF Made
<1>2. CASE Settled(q)
  <2>1. /\ call[q].client \in Clients /\ "reconnect" \in Ops
        /\ OpenLink(q, call[q].client, "reconnect")
        /\ client' = client /\ stream' = stream
    BY <1>1, <1>2 DEF Settled, CallMade, Idle, Ops
  <2>2. /\ link' \in Seq(LinkStates) /\ Len(link') = Len(link) + 1
        /\ Opening(q, call[q].client, "reconnect")
    BY <2>1, OpenLinkFacts
  <2>3. CallsMove
    BY <2>1, <2>2 DEF Opening, CallsMove
  <2>4. Made'
    BY <1>1, <2>1, <2>2, <2>3, ChangeMade DEF NewStreamsMade, ClientsMove
  <2> QED
    BY <1>1, <2>1, <2>4
<1>3. CASE Abandon(q)
  <2> DEFINE x == [call[q] EXCEPT !.left = TRUE]
  <2>1. /\ call' = [call EXCEPT ![q] = x] /\ client' = client /\ link' = link
        /\ stream' = stream /\ call[q].pc = "asking"
    BY <1>3 DEF Abandon, Made
  <2>2. x \in CallRecord /\ CallMade(x, Len(link), Len(stream))
    <3> DEFINE y == call[q]
    <3>1. /\ x = [y EXCEPT !.left = TRUE] /\ y.pc = "asking" /\ y \in CallRecord
          /\ CallMade(y, Len(link), Len(stream))
      BY <1>1, <2>1
    <3> HIDE DEF x, y
    <3>2. /\ x \in CallRecord /\ x.pc = y.pc /\ x.client = y.client /\ x.op = y.op
          /\ x.link = y.link /\ x.stream = y.stream
      BY <3>1 DEF CallRecord
    <3> QED
      BY <3>1, <3>2 DEF CallMade, Idle
  <2> HIDE DEF x
  <2>3. CallsMove
    BY <2>1, <2>2 DEF CallsMove
  <2>4. Made'
    BY <1>1, <2>1, <2>3, ChangeMade DEF NewStreamsMade, ClientsMove
  <2> QED
    BY <1>1, <2>1, <2>4
<1>4. ASSUME NEW c \in Clients, Upgrade(q, c)
      PROVE  Made' /\ Later(stream, stream') /\ client' = client /\ stream' = stream
  <2> DEFINE x == At("upgrading", c, "tls", None, client[c].raw)
  <2>1. /\ call' = [call EXCEPT ![q] = x] /\ client' = client /\ link' = link
        /\ stream' = stream /\ client[c].raw # None
    BY <1>4 DEF Upgrade
  <2>2. client[c] \in ClientRecord /\ ClientMade(client[c], Len(link), Len(stream))
    BY DEF Made
  <2>3. client[c].raw \in 1..Len(stream)
    BY <1>1, <2>1, <2>2 DEF ClientRecord, ClientMade, None
  <2>4. x \in CallRecord /\ CallMade(x, Len(link), Len(stream))
    BY <1>1, <2>3 DEF At, CallRecord, CallMade, None, Ops
  <2> HIDE DEF x
  <2>5. CallsMove
    BY <2>1, <2>4 DEF CallsMove
  <2>6. Made'
    BY <1>1, <2>1, <2>5, ChangeMade DEF NewStreamsMade, ClientsMove
  <2> QED
    BY <1>1, <2>1, <2>6
<1> QED
  BY <1>2, <1>3, <1>4

\* A stream that an await changes: s becomes e.
LEMMA StreamChanges ==
  ASSUME Made, NEW s \in 1..Len(stream), NEW e \in StreamRecord,
         stream' = [stream EXCEPT ![s] = e],
         e.link = stream[s].link, stream[s].session => e.session,
         stream[s].tls => e.tls, stream[s].st # "syn" => e.st # "syn",
         stream[s].st = "dead" => e.st = "dead"
  PROVE  /\ Later(stream, stream') /\ Len(stream') = Len(stream)
         /\ stream'[s] = e /\ NewStreamsMade
         /\ \A t \in 1..Len(stream) : t # s => stream'[t] = stream[t]
<1>1. stream \in Seq(StreamRecord) /\ Len(stream) \in Nat
  BY DEF Made
<1>2. /\ Len(stream') = Len(stream) /\ stream' \in Seq(StreamRecord)
      /\ stream'[s] = e
      /\ \A t \in 1..Len(stream) : t # s => stream'[t] = stream[t]
  BY <1>1
<1> QED
  BY <1>1, <1>2 DEF Later, NewStreamsMade

\* The picker returned a device, or its MUX handshake is complete.
LEMMA ShakesMade ==
  ASSUME Made, NEW q \in Callers, Opened(q) \/ Shaken(q)
  PROVE  Made' /\ Later(stream, stream')
<1>1. /\ stream \in Seq(StreamRecord) /\ Len(stream) \in Nat /\ Len(link) \in Nat
      /\ link \in Seq(LinkStates) /\ Later(stream, stream)
      /\ call[q] \in CallRecord /\ CallMade(call[q], Len(link), Len(stream))
  BY LaterSame DEF Made
<1> DEFINE x == call[q]
<1>2. x.pc \in {"opening", "shaking"} =>
        /\ x.client \in Clients /\ x.op \in Ops /\ x.link \in 1..Len(link)
        /\ x.stream = None /\ ~x.left
  BY <1>1 DEF CallMade, Idle
<1>3. CASE Opened(q)
  <2> DEFINE y == [x EXCEPT !.pc = "shaking"]
  <2>1. /\ x.pc = "opening" /\ call' = [call EXCEPT ![q] = y]
        /\ link' = [link EXCEPT ![x.link] = "shaking"]
        /\ client' = client /\ stream' = stream
    BY <1>3 DEF Opened
  <2>2. "shaking" \in LinkStates
    BY DEF LinkStates
  <2>3. link' \in Seq(LinkStates) /\ Len(link') = Len(link)
    BY <1>1, <2>1, <2>2, LinkFacts
  <2> HIDE DEF x
  <2>4. y \in CallRecord /\ CallMade(y, Len(link), Len(stream))
    BY <1>1, <1>2, <2>1 DEF CallRecord, CallMade, x
  <2> HIDE DEF y
  <2>5. CallsMove
    BY <2>1, <2>3, <2>4 DEF CallsMove
  <2>6. Made'
    BY <1>1, <2>1, <2>3, <2>5, ChangeMade DEF NewStreamsMade, ClientsMove
  <2> QED
    BY <1>1, <2>1, <2>6
<1>4. CASE Shaken(q)
  <2> DEFINE k == [client[x.client] EXCEPT !.mux = x.link]
             e == [link |-> x.link, st |-> "syn", session |-> FALSE, tls |-> FALSE]
             y == At(IF x.op = "dial" THEN "dialing" ELSE "connecting",
                     x.client, x.op, x.link, Len(stream) + 1)
  <2>1. /\ x.pc = "shaking" /\ link' = [link EXCEPT ![x.link] = "up"]
        /\ client' = [client EXCEPT ![x.client] = k]
        /\ \/ call' = [call EXCEPT ![q] = Idle] /\ stream' = stream
           \/ stream' = Append(stream, e) /\ call' = [call EXCEPT ![q] = y]
    <3>1. client \in [Clients -> ClientRecord]
      BY DEF Made
    <3> QED
      BY <1>4, <3>1 DEF Shaken, MuxStored, Ends
  <2>2. "up" \in LinkStates
    BY DEF LinkStates
  <2>3. link' \in Seq(LinkStates) /\ Len(link') = Len(link)
    BY <1>1, <2>1, <2>2, LinkFacts
  <2>4. /\ client[x.client] \in ClientRecord
        /\ ClientMade(client[x.client], Len(link), Len(stream))
    BY <1>2, <2>1 DEF Made
  <2>5. k \in ClientRecord /\ ClientMade(k, Len(link), Len(stream))
    <3> DEFINE f == client[x.client]  m == x.link
    <3>1. k = [f EXCEPT !.mux = m] /\ m \in Nat /\ m <= Len(link)
      BY <1>1, <1>2, <2>1
    <3>2. f \in ClientRecord /\ ClientMade(f, Len(link), Len(stream))
      BY <2>4
    <3> HIDE DEF f, m, k
    <3>3. /\ k \in ClientRecord /\ k.mux = m /\ k.lockdown = f.lockdown
          /\ k.raw = f.raw /\ k.tls = f.tls
      BY <3>1, <3>2 DEF ClientRecord
    <3> QED
      BY <3>1, <3>2, <3>3 DEF ClientMade
  <2>6. e \in StreamRecord /\ e.link \in 1..Len(link)
    BY <1>1, <1>2, <2>1 DEF StreamRecord
  <2>7. y \in CallRecord /\ \A n \in Nat : n > Len(stream) => CallMade(y, Len(link), n)
    BY <1>1, <1>2, <2>1 DEF At, CallRecord, CallMade
  <2> HIDE DEF k, e, y, x
  <2>8. CASE call' = [call EXCEPT ![q] = Idle] /\ stream' = stream
    <3>1. CallsMove
      BY <2>8, RecordsTyped DEF CallsMove
    <3>2. ClientsMove
      BY <1>2, <2>1, <2>3, <2>5, <2>8 DEF ClientsMove
    <3>3. Made'
      BY <1>1, <2>3, <2>8, <3>1, <3>2, ChangeMade DEF NewStreamsMade
    <3> QED
      BY <1>1, <2>8, <3>3
  <2>9. CASE stream' = Append(stream, e) /\ call' = [call EXCEPT ![q] = y]
    <3>1. /\ Later(stream, stream') /\ Len(stream') = Len(stream) + 1
          /\ stream'[Len(stream) + 1] = e
      BY <1>1, <2>6, <2>9, AppendIsLater
    <3>2. NewStreamsMade
      <4>1. \A s \in 1..Len(stream') : s \in 1..Len(stream) \/ s = Len(stream) + 1
        BY <1>1, <3>1
      <4> QED
        BY <2>3, <2>6, <3>1, <4>1 DEF NewStreamsMade
    <3>3. CallMade(y, Len(link'), Len(stream')) /\ ClientMade(k, Len(link'), Len(stream'))
      BY <1>1, <2>3, <2>5, <2>7, <3>1, MadeStays
    <3>4. CallsMove
      BY <2>7, <2>9, <3>3 DEF CallsMove
    <3>5. ClientsMove
      BY <1>2, <2>1, <2>5, <3>3 DEF ClientsMove
    <3>6. Made'
      BY <1>1, <2>3, <3>1, <3>2, <3>4, <3>5, ChangeMade
    <3> QED
      BY <3>1, <3>6
  <2> QED
    BY <2>1, <2>8, <2>9
<1> QED
  BY <1>3, <1>4

\* The stream to lockdownd or to a service is open.
LEMMA ConnectsMade ==
  ASSUME Made, NEW q \in Callers, Connected(q) \/ Dialed(q)
  PROVE  Made' /\ Later(stream, stream')
<1>1. /\ stream \in Seq(StreamRecord) /\ Len(stream) \in Nat /\ Len(link) \in Nat
      /\ link \in Seq(LinkStates)
      /\ call[q] \in CallRecord /\ CallMade(call[q], Len(link), Len(stream))
  BY DEF Made
<1> DEFINE x == call[q]
           s == x.stream
           e == [stream[s] EXCEPT !.st = "open"]
<1>2. /\ x.pc \in {"connecting", "dialing"} /\ stream[s].st = "syn"
      /\ stream' = [stream EXCEPT ![s] = e] /\ link' = link
  BY <1>1 DEF Connected, Dialed
<1>3. x.client \in Clients /\ x.op \in Ops /\ s \in 1..Len(stream)
  BY <1>1, <1>2 DEF CallMade, Idle
<1>4. /\ e \in StreamRecord /\ e.link = stream[s].link /\ e.st = "open"
      /\ e.session = stream[s].session /\ e.tls = stream[s].tls
  <2>1. stream[s] \in StreamRecord
    BY <1>1, <1>3
  <2> HIDE DEF s
  <2> QED
    BY <2>1 DEF StreamRecord
<1> HIDE DEF e, s
<1>5. Later(stream, stream') /\ Len(stream') = Len(stream) /\ NewStreamsMade
  BY <1>2, <1>3, <1>4, StreamChanges
<1>6. CASE Connected(q)
  <2> DEFINE f == client[x.client]
             k == [f EXCEPT !.raw = s, !.lockdown = s, !.secure = FALSE]
             y == After(x.client, x.op, s)
  <2>1. f \in ClientRecord /\ ClientMade(f, Len(link), Len(stream))
    BY <1>3 DEF Made
  <2>2. client' = [client EXCEPT ![x.client] = k] /\ call' = [call EXCEPT ![q] = y]
    BY <1>3, <1>6 DEF Connected, Made, ClientRecord, s
  <2>3. k \in ClientRecord /\ ClientMade(k, Len(link), Len(stream))
    <3>1. k = [f EXCEPT !.raw = s, !.lockdown = s, !.secure = FALSE] /\ s \in Nat
      BY <1>3
    <3> HIDE DEF f, k
    <3>2. /\ k \in ClientRecord /\ k.mux = f.mux /\ k.lockdown = s
          /\ k.raw = s /\ k.tls = f.tls
      BY <2>1, <3>1 DEF ClientRecord
    <3> QED
      BY <1>1, <1>3, <2>1, <3>2 DEF ClientMade
  <2>4. y \in CallRecord /\ CallMade(y, Len(link), Len(stream))
    <3>1. CASE x.op \in {"query", "session", "service"}
      <4>1. y = At("asking", x.client, x.op, None, s)
        BY <3>1 DEF After
      <4> QED
        BY <1>1, <1>3, <4>1 DEF At, CallRecord, CallMade, None
    <3>2. CASE x.op \notin {"query", "session", "service"}
      BY <3>2, RecordsTyped DEF After
    <3> QED
      BY <3>1, <3>2
  <2> HIDE DEF k, y, x
  <2>5. CallsMove
    BY <1>2, <1>5, <2>2, <2>4 DEF CallsMove
  <2>6. ClientsMove
    BY <1>2, <1>3, <1>5, <2>2, <2>3 DEF ClientsMove
  <2>7. Made'
    BY <1>1, <1>2, <1>5, <2>5, <2>6, ChangeMade
  <2> QED
    BY <1>5, <2>7
<1>7. CASE Dialed(q)
  <2>1. PICK ssl \in BOOLEAN :
          call' = [call EXCEPT ![q] =
                     IF ssl THEN At("securing", x.client, "dial", None, s) ELSE Idle]
    BY <1>7 DEF Dialed, s
  <2> DEFINE y == IF ssl THEN At("securing", x.client, "dial", None, s) ELSE Idle
  <2>2. call' = [call EXCEPT ![q] = y] /\ client' = client
    BY <1>7, <2>1 DEF Dialed
  <2>3. y \in CallRecord /\ CallMade(y, Len(link), Len(stream))
    <3>1. CASE ssl
      BY <1>1, <1>3, <3>1 DEF At, CallRecord, CallMade, None, Ops
    <3>2. CASE ~ssl
      BY <3>2, RecordsTyped
    <3> QED
      BY <3>1, <3>2
  <2> HIDE DEF y
  <2>4. CallsMove
    BY <1>2, <1>5, <2>2, <2>3 DEF CallsMove
  <2>5. Made'
    BY <1>1, <1>2, <1>5, <2>2, <2>4, ChangeMade DEF ClientsMove
  <2> QED
    BY <1>5, <2>5
<1> QED
  BY <1>6, <1>7

\* What TlsInstalled() does to the fields.
LEMMA InstalledFacts ==
  ASSUME NEW f \in ClientRecord, NEW s \in Nat, NEW k, k = TlsInstalled(f, s)
  PROVE  /\ k \in ClientRecord /\ k.mux = f.mux /\ k.raw = None /\ k.tls = s
         /\ k.session = f.session
         /\ f.lockdown = None => k.lockdown = None /\ k.secure = f.secure
         /\ f.lockdown # None => k.lockdown = s /\ k.secure
         /\ k.lockdown \in {None, s}
<1> DEFINE half == [f EXCEPT !.tls = s, !.raw = None]
<1>1. /\ half \in ClientRecord /\ half.mux = f.mux /\ half.raw = None
      /\ half.tls = s /\ half.session = f.session /\ half.lockdown = f.lockdown
      /\ half.secure = f.secure
  BY DEF ClientRecord, None
<1>2. k = IF f.lockdown = None THEN half
          ELSE [half EXCEPT !.lockdown = s, !.secure = TRUE]
  BY DEF TlsInstalled
<1> HIDE DEF half
<1>3. CASE f.lockdown = None
  BY <1>1, <1>2, <1>3
<1>4. CASE f.lockdown # None
  <2>1. k = [half EXCEPT !.lockdown = s, !.secure = TRUE]
    BY <1>2, <1>4
  <2> QED
    BY <1>1, <1>4, <2>1 DEF ClientRecord
<1> QED
  BY <1>3, <1>4

\* A TLS upgrade is complete.
LEMMA UpgradesMade ==
  ASSUME Made, NEW q \in Callers, Upgraded(q) \/ Secured(q)
  PROVE  Made' /\ Later(stream, stream')
<1>1. /\ stream \in Seq(StreamRecord) /\ Len(stream) \in Nat /\ Len(link) \in Nat
      /\ link \in Seq(LinkStates)
      /\ call[q] \in CallRecord /\ CallMade(call[q], Len(link), Len(stream))
  BY DEF Made
<1> DEFINE x == call[q]
           s == x.stream
           e == [stream[s] EXCEPT !.tls = TRUE]
<1>2. /\ x.pc \in {"upgrading", "securing"} /\ stream' = [stream EXCEPT ![s] = e]
      /\ link' = link /\ call' = [call EXCEPT ![q] = Idle]
  BY <1>1 DEF Upgraded, Secured, Ends
<1>3. x.client \in Clients /\ s \in 1..Len(stream)
  BY <1>1, <1>2 DEF CallMade, Idle
<1>4. /\ e \in StreamRecord /\ e.link = stream[s].link /\ e.st = stream[s].st
      /\ e.session = stream[s].session /\ e.tls
  <2>1. stream[s] \in StreamRecord
    BY <1>1, <1>3
  <2> HIDE DEF s
  <2> QED
    BY <2>1 DEF StreamRecord
<1> HIDE DEF e, s
<1>5. Later(stream, stream') /\ Len(stream') = Len(stream) /\ NewStreamsMade
  BY <1>2, <1>3, <1>4, StreamChanges
<1>6. CallsMove
  BY <1>2, RecordsTyped DEF CallsMove
<1>7. ClientsMove
  <2>1. CASE Secured(q)
    BY <2>1 DEF Secured, ClientsMove
  <2>2. CASE Upgraded(q)
    <3> DEFINE f == client[x.client]
               k == TlsInstalled(f, s)
    <3>1. client' = [client EXCEPT ![x.client] = k]
      BY <1>3, <2>2 DEF Upgraded, Made, s
    <3>2. f \in ClientRecord /\ ClientMade(f, Len(link), Len(stream))
      BY <1>3 DEF Made
    <3> HIDE DEF f
    <3>3. k \in ClientRecord /\ ClientMade(k, Len(link), Len(stream))
      <4>1. s \in Nat
        BY <1>3
      <4>2. /\ k \in ClientRecord /\ k.mux = f.mux /\ k.raw = None /\ k.tls = s
            /\ k.lockdown \in {None, s}
        BY <3>2, <4>1, InstalledFacts
      <4> HIDE DEF k
      <4> QED
        BY <1>1, <1>3, <3>2, <4>2 DEF ClientMade, None
    <3> HIDE DEF k
    <3> QED
      BY <1>2, <1>3, <1>5, <3>1, <3>3 DEF ClientsMove
  <2> QED
    BY <2>1, <2>2
<1> QED
  BY <1>1, <1>2, <1>5, <1>6, <1>7, ChangeMade

\* lockdownd answers; a service is dialed.
LEMMA AnswersMade ==
  ASSUME Made, NEW q \in Callers, Answered(q)
  PROVE  Made' /\ Later(stream, stream')
<1>1. /\ stream \in Seq(StreamRecord) /\ Len(stream) \in Nat /\ Len(link) \in Nat
      /\ link \in Seq(LinkStates) /\ Later(stream, stream)
      /\ call[q] \in CallRecord /\ CallMade(call[q], Len(link), Len(stream))
  BY LaterSame DEF Made
<1> DEFINE x == call[q]
           s == x.stream
           f == client[x.client]
<1>2. x.pc = "asking" /\ x.client \in Clients /\ s \in 1..Len(stream)
  BY <1>1 DEF CallMade, Idle, Answered
<1>3. f \in ClientRecord /\ ClientMade(f, Len(link), Len(stream))
  BY <1>2 DEF Made
<1>4. CASE x.op = "query"
  BY <1>1, <1>4, EndsMade DEF Answered, Ends
<1>5. CASE x.op = "session"
  <2> DEFINE e == [stream[s] EXCEPT !.session = TRUE]
             k == [f EXCEPT !.session = TRUE]
  <2>1. /\ stream' = [stream EXCEPT ![s] = e] /\ link' = link
        /\ client' = [client EXCEPT ![x.client] = k]
        /\ call' = [call EXCEPT ![q] = Idle]
    BY <1>2, <1>5 DEF Answered, Ends, Made
  <2>2. /\ e \in StreamRecord /\ e.link = stream[s].link /\ e.st = stream[s].st
        /\ e.session /\ e.tls = stream[s].tls
    <3>1. stream[s] \in StreamRecord
      BY <1>1, <1>2
    <3> HIDE DEF s
    <3> QED
      BY <3>1 DEF StreamRecord
  <2>3. k \in ClientRecord /\ ClientMade(k, Len(link), Len(stream))
    <3> HIDE DEF f
    <3>1. /\ k \in ClientRecord /\ k.mux = f.mux /\ k.lockdown = f.lockdown
          /\ k.raw = f.raw /\ k.tls = f.tls
      BY <1>3 DEF ClientRecord
    <3> HIDE DEF k
    <3> QED
      BY <1>3, <3>1 DEF ClientMade
  <2> HIDE DEF e, k, s
  <2>4. Later(stream, stream') /\ Len(stream') = Len(stream) /\ NewStreamsMade
    BY <1>2, <2>1, <2>2, StreamChanges
  <2>5. CallsMove
    BY <2>1, RecordsTyped DEF CallsMove
  <2>6. ClientsMove
    BY <1>2, <2>1, <2>3, <2>4 DEF ClientsMove
  <2> QED
    BY <1>1, <2>1, <2>4, <2>5, <2>6, ChangeMade
<1>6. CASE x.op = "service" /\ f.mux # None
  <2>1. Dial(q, x.client, "dial", "dialing", f.mux, stream) /\ client' = client
    BY <1>6 DEF Answered
  <2>2. f.mux \in 1..Len(link) /\ "dial" \in Ops
    BY <1>1, <1>3, <1>6 DEF ClientRecord, ClientMade, None, Ops
  <2>3. /\ link' = link /\ Later(stream, stream') /\ NewStreamsMade
        /\ Dialing(q, x.client, "dial", "dialing", f.mux, stream)
    BY <1>1, <1>2, <2>1, <2>2, DialFacts DEF NewStreamsMade
  <2>4. CallsMove
    BY <2>3, RecordsTyped DEF Dialing, CallsMove
  <2> QED
    BY <1>1, <2>1, <2>3, <2>4, ChangeMade DEF ClientsMove
<1>7. CASE x.op = "service" /\ f.mux = None
  <2>1. /\ OpenLink(q, x.client, "dial") /\ client' = client /\ stream' = stream
        /\ "dial" \in Ops
    BY <1>7 DEF Answered, Ops
  <2>2. /\ link' \in Seq(LinkStates) /\ Len(link') = Len(link) + 1
        /\ Opening(q, x.client, "dial")
    BY <1>2, <2>1, OpenLinkFacts
  <2>3. CallsMove
    BY <2>1, <2>2 DEF Opening, CallsMove
  <2> QED
    BY <1>1, <2>1, <2>2, <2>3, ChangeMade DEF NewStreamsMade, ClientsMove
<1> QED
  BY <1>4, <1>5, <1>6, <1>7 DEF Answered

\* Every step keeps the types, and what is known of the streams.
LEMMA StepMade ==
  ASSUME Made, [Next]_vars
  PROVE  Made' /\ Later(stream, stream')
<1>1. ASSUME NEW q \in Callers, NEW c \in Clients,
             \/ \E op \in {"connect", "query", "session", "service"} :
                  Request(q, c, op)
             \/ ResetLockdown(q, c) \/ Reconnect(q, c) \/ Upgrade(q, c)
      PROVE  Made' /\ Later(stream, stream')
  BY <1>1, RequestsMade, ClosesMade, BeginsMade
<1>2. ASSUME NEW q \in Callers,
             \/ Settled(q) \/ Abandon(q)
             \/ Opened(q) \/ OpenFails(q) \/ Shaken(q) \/ ShakeFails(q)
             \/ Connected(q) \/ ConnectFails(q) \/ Answered(q) \/ AskFails(q)
             \/ Dialed(q) \/ Upgraded(q) \/ Secured(q) \/ TlsFails(q)
      PROVE  Made' /\ Later(stream, stream')
  BY <1>2, BeginsMade, ShakesMade, ConnectsMade, UpgradesMade, AnswersMade,
     EndingsMade
<1>3. ASSUME NEW c \in Clients, Close(c)
      PROVE  Made' /\ Later(stream, stream')
  BY <1>3, ClosesMade
<1>4. CASE \/ \E s \in DOMAIN stream : StreamLost(s)
           \/ \E m \in DOMAIN link : LinkLost(m) \/ Released(m)
           \/ Unplug \/ UNCHANGED vars
  BY <1>4, EndingsMade
<1> QED
  BY <1>1, <1>2, <1>3, <1>4 DEF Next

\* What refers to a link or a stream at the start refers to none.
LEMMA InitMade == Init => Made
BY RecordsTyped DEF Init, Made

\* The types of WebUsbMuxClient: what a client or a call under way refers to
\* has been made, and a call that awaits a link or a stream has one, whoever
\* calls and whatever cuts in.
THEOREM ClientTypesCorrect == Spec => []TypeOK
<1>1. Made /\ [Next]_vars => Made'
  BY StepMade
<1> QED
  BY <1>1, InitMade, MadeIsTyped, PTL DEF Spec

-----------------------------------------------------------------------------
(* What belongs together stays together                                    *)

\* The states of a stream.
LEMMA StreamStates ==
  ASSUME NEW S \in Seq(StreamRecord), NEW s \in 1..Len(S)
  PROVE  S[s].st \in {"syn", "open", "dead"} /\ s # None
<1>1. S[s] \in StreamRecord /\ s # None
  BY DEF None
<1> QED
  BY <1>1 DEF StreamRecord

\* A client that does not change, while the streams go on.
LEMMA ClientStays ==
  ASSUME NEW S \in Seq(StreamRecord), NEW T, Later(S, T), NEW k \in ClientRecord,
         NEW l, ClientMade(k, l, Len(S)), ClientSound(k, S)
  PROVE  ClientSound(k, T)
<1>1. \A n \in {k.lockdown, k.tls} : n # None => n \in 1..Len(S)
  BY DEF ClientRecord, ClientMade, None
<1> QED
  BY <1>1 DEF ClientSound, Later

\* A call whose client keeps its mux and its lockdown.
LEMMA CallStays ==
  ASSUME NEW S \in Seq(StreamRecord), NEW T, Later(S, T), NEW x \in CallRecord,
         NEW l, CallMade(x, l, Len(S)), NEW k, NEW k2, CallSound(x, k, S),
         k2.mux = k.mux, k2.lockdown = k.lockdown
  PROVE  CallSound(x, k2, T)
<1>1. x.pc \in {"connecting", "asking", "upgrading"} \/ x.op = "service" =>
        x.stream \in 1..Len(S)
  BY DEF CallSound, CallMade, Idle
<1>2. x.stream \in 1..Len(S) => S[x.stream].st \in {"syn", "open", "dead"}
  BY StreamStates
<1> QED
  BY <1>1, <1>2 DEF CallSound, Later

\* A call whose client was closed, and its mux.
LEMMA CallClosed ==
  ASSUME NEW S \in Seq(StreamRecord), NEW T, Later(S, T), NEW x \in CallRecord,
         NEW l, CallMade(x, l, Len(S)), NEW k, NEW k2, ClientSound(k, S),
         CallSound(x, k, S), k2.lockdown = None,
         \A s \in 1..Len(S) : S[s].link = k.mux => T[s].st = "dead"
  PROVE  CallSound(x, k2, T)
<1>1. x.pc \in {"connecting", "asking", "upgrading"} \/ x.op = "service" =>
        x.stream \in 1..Len(S)
  BY DEF CallSound, CallMade, Idle
<1>2. x.stream \in 1..Len(S) => S[x.stream].st \in {"syn", "open", "dead"}
                                /\ x.stream # None
  BY StreamStates
<1> QED
  BY <1>1, <1>2 DEF CallSound, ClientSound, Later

\* A startSession() that its flow gave up, on a client that was emptied since.
LEMMA LeftSound ==
  ASSUME NEW S \in Seq(StreamRecord), NEW T, Later(S, T), NEW x \in CallRecord,
         NEW l, CallMade(x, l, Len(S)), NEW k, CallSound(x, k, S),
         k.lockdown = None, x.left, NEW k2
  PROVE  CallSound(x, k2, T)
<1>1. x.stream \in 1..Len(S) /\ x.stream # None /\ x.pc = "asking" /\ x.op = "session"
  BY DEF CallSound, CallMade, Idle, None
<1>2. S[x.stream].st \in {"syn", "open", "dead"}
  BY <1>1, StreamStates
<1> QED
  BY <1>1, <1>2 DEF CallSound, Later

\* Nothing is asked of a call that is not under way.
LEMMA IdleSound ==
  ASSUME NEW k, NEW S
  PROVE  CallSound(Idle, k, S)
BY DEF CallSound, Idle

\* A client without lockdown has nothing to keep together.
LEMMA EmptySound ==
  ASSUME NEW k, NEW S
  PROVE  /\ ClientSound(k, S) /\ k.lockdown = None /\ k \in ClientRecord =>
              k.raw = None /\ k.tls = None /\ k.secure = FALSE /\ k.session = FALSE
         /\ k.lockdown = None /\ k.raw = None /\ k.tls = None /\ k.secure = FALSE
              /\ k.session = FALSE => ClientSound(k, S)
BY DEF ClientSound, ClientRecord

\* A client still has one call: a call that ends or goes on, or one that begins
\* where only calls given up are left.
LEMMA AloneStays ==
  ASSUME Made, Alone, NEW q \in Callers, NEW x \in CallRecord,
         call' = [call EXCEPT ![q] = x],
         \/ x = Idle
         \/ call[q].pc # "idle" /\ x.client = call[q].client /\ (call[q].left => x.left)
         \/ \A p \in Callers : p # q /\ call[p].client = x.client => call[p].left
  PROVE  Alone'
<1>1. call'[q] = x /\ \A p \in Callers : p # q => call'[p] = call[p]
  BY CallChanges
<1>2. \A p \in Callers : call[p].pc # "idle" => call[p].client \in Clients
  BY DEF Made, CallMade, Idle
<1>3. x = Idle => x.pc = "idle" /\ x.client \notin Clients
  BY RecordsTyped
<1> QED
  BY <1>1, <1>2, <1>3 DEF Alone

-----------------------------------------------------------------------------
(* One step and what belongs together                                      *)

\* Sound after a step, from what it changes.
LEMMA SoundAfter ==
  ASSUME Made, Sound, Made', Later(stream, stream'), Alone',
         \A d \in Clients : client'[d] = client[d] \/ ClientSound(client'[d], stream'),
         \A p \in Callers :
           \/ CallSound(call'[p], client'[call'[p].client], stream')
           \/ /\ call'[p] = call[p]
              /\ client'[call[p].client].mux = client[call[p].client].mux
              /\ client'[call[p].client].lockdown = client[call[p].client].lockdown
  PROVE  Sound'
<1>1. stream \in Seq(StreamRecord)
  BY DEF Made
<1>2. ASSUME NEW d \in Clients PROVE ClientSound(client'[d], stream')
  <2>1. /\ client[d] \in ClientRecord /\ ClientSound(client[d], stream)
        /\ ClientMade(client[d], Len(link), Len(stream))
    BY DEF Made, Sound
  <2> QED
    BY <1>1, <2>1, ClientStays
<1>3. ASSUME NEW p \in Callers
      PROVE  CallSound(call'[p], client'[call'[p].client], stream')
  <2>1. /\ call[p] \in CallRecord /\ CallMade(call[p], Len(link), Len(stream))
        /\ CallSound(call[p], client[call[p].client], stream)
    BY DEF Made, Sound
  <2>2. CASE /\ call'[p] = call[p]
             /\ client'[call[p].client].mux = client[call[p].client].mux
             /\ client'[call[p].client].lockdown = client[call[p].client].lockdown
    BY <1>1, <2>1, <2>2, CallStays
  <2> QED
    BY <2>2
<1> QED
  BY <1>2, <1>3 DEF Sound

\* A step that leaves the clients alone, and one call at most ends.
LEMMA QuietSound ==
  ASSUME Made, Sound, Made', Later(stream, stream'), client' = client,
         call' = call \/ \E q \in Callers : call' = [call EXCEPT ![q] = Idle]
  PROVE  Sound'
<1>1. /\ Alone' /\ \A p \in Callers : call'[p] = call[p] \/ call'[p] = Idle
  <2>1. CASE call' = call
    BY <2>1 DEF Sound, Alone
  <2>2. ASSUME NEW q \in Callers, call' = [call EXCEPT ![q] = Idle]
        PROVE  /\ Alone' /\ \A p \in Callers : call'[p] = call[p] \/ call'[p] = Idle
    <3>1. Idle \in CallRecord
      BY RecordsTyped
    <3> QED
      BY <2>2, <3>1, AloneStays, CallChanges DEF Sound
  <2> QED
    BY <2>1, <2>2
<1> QED
  BY <1>1, IdleSound, SoundAfter

\* A step of the call q, and of the client c that it uses.
LEMMA MovesSound ==
  ASSUME Made, Sound, Made', Later(stream, stream'), Alone',
         NEW c \in Clients, NEW k \in ClientRecord, client' = [client EXCEPT ![c] = k],
         NEW q \in Callers, NEW x \in CallRecord, call' = [call EXCEPT ![q] = x],
         ClientSound(k, stream'),
         x = Idle \/ (x.client = c /\ CallSound(x, k, stream')),
         \A p \in Callers :
           p # q /\ call[p].client = c => CallSound(call[p], k, stream')
  PROVE  Sound'
<1>1. client'[c] = k /\ \A d \in Clients : d # c => client'[d] = client[d]
  BY ClientChanges
<1>2. call'[q] = x /\ \A p \in Callers : p # q => call'[p] = call[p]
  BY CallChanges
<1>3. \A d \in Clients : client'[d] = client[d] \/ ClientSound(client'[d], stream')
  BY <1>1
<1>4. ASSUME NEW p \in Callers
      PROVE  \/ CallSound(call'[p], client'[call'[p].client], stream')
             \/ /\ call'[p] = call[p]
                /\ client'[call[p].client].mux = client[call[p].client].mux
                /\ client'[call[p].client].lockdown = client[call[p].client].lockdown
  <2>1. CASE p = q
    BY <1>1, <1>2, <2>1, IdleSound
  <2>2. CASE p # q
    <3>1. call'[p] = call[p] /\ (call[p] = Idle \/ call[p].client \in Clients)
      BY <1>2, <2>2 DEF Made, CallMade
    <3> QED
      BY <1>1, <2>2, <3>1, IdleSound
  <2> QED
    BY <2>1, <2>2
<1> QED
  BY <1>3, <1>4, SoundAfter

\* A step of the call q that changes no client.
LEMMA CallMovesSound ==
  ASSUME Made, Sound, Made', Later(stream, stream'), Alone', client' = client,
         NEW q \in Callers, NEW x \in CallRecord, call' = [call EXCEPT ![q] = x],
         CallSound(x, client[x.client], stream')
  PROVE  Sound'
<1>1. call'[q] = x /\ \A p \in Callers : p # q => call'[p] = call[p]
  BY CallChanges
<1> QED
  BY <1>1, SoundAfter

\* Who may call while no two flows share a client.
LEMMA MayCallFacts ==
  ASSUME Made, Sound, Shared = FALSE, NEW q \in Callers, NEW c \in Clients, NEW op,
         MayCall(q, c, op)
  PROVE  /\ call[q].pc = "idle"
         /\ \A p \in Callers : call[p].client = c => call[p].left
         /\ op # "reconnect" => \A p \in Callers : call[p].client # c
BY DEF MayCall

-----------------------------------------------------------------------------
(* Every step keeps what belongs together                                  *)

\* What ends calls, streams and links changes no client.
LEMMA EndingsSound ==
  ASSUME Made, Sound, Made', Later(stream, stream'),
         \/ \E q \in Callers : OpenFails(q) \/ ShakeFails(q) \/ ConnectFails(q)
                               \/ AskFails(q) \/ TlsFails(q) \/ Secured(q)
         \/ \E s \in DOMAIN stream : StreamLost(s)
         \/ \E m \in DOMAIN link : LinkLost(m) \/ Released(m)
         \/ Unplug
         \/ UNCHANGED vars
  PROVE  Sound'
<1>1. client' = client
  BY DEF OpenFails, ShakeFails, ConnectFails, AskFails, TlsFails, Secured,
         StreamLost, LinkLost, Released, Unplug, Lost, vars
<1>2. call' = call \/ \E q \in Callers : call' = [call EXCEPT ![q] = Idle]
  BY DEF OpenFails, ShakeFails, ConnectFails, AskFails, TlsFails, Secured, Ends,
         StreamLost, LinkLost, Released, Unplug, Lost, vars
<1> QED
  BY <1>1, <1>2, QuietSound

\* A request of a flow, and resetLockdown(): the client has no other call.
LEMMA RequestsSound ==
  ASSUME Made, Sound, Made', Later(stream, stream'), Shared = FALSE,
         NEW q \in Callers, NEW c \in Clients,
         \/ \E op \in {"connect", "query", "session", "service"} : Request(q, c, op)
         \/ ResetLockdown(q, c)
  PROVE  Sound'
<1> DEFINE f == client[c]
<1>1. /\ stream \in Seq(StreamRecord) /\ Len(stream) \in Nat /\ Len(link) \in Nat
      /\ f \in ClientRecord /\ ClientMade(f, Len(link), Len(stream))
      /\ ClientSound(f, stream) /\ Alone
  BY DEF Made, Sound
\* The changed client k is sound; the call goes on from it.
<1>2. ASSUME NEW op \in {"connect", "query", "session", "service", "reset"},
             MayCall(q, c, op), NEW k \in ClientRecord,
             ClientMade(k, Len(link), Len(stream)),
             ClientSound(k, stream'), client' = [client EXCEPT ![c] = k],
             op = "service" => k.tls # None,
             \/ /\ k.lockdown # None
                /\ call' = [call EXCEPT ![q] = After(c, op, k.lockdown)]
             \/ k.lockdown = None /\ call' = [call EXCEPT ![q] = Idle]
             \/ /\ k.lockdown = None
                /\ \E x \in CallRecord :
                     /\ call' = [call EXCEPT ![q] = x] /\ x.client = c
                     /\ x.op = op /\ ~x.left
                     /\ \/ x.pc = "opening"
                        \/ x.pc = "connecting" /\ stream'[x.stream].link = k.mux
      PROVE  Sound'
  <2>1. call[q].pc = "idle" /\ \A p \in Callers : call[p].client # c
    BY <1>2, MayCallFacts
  <2>2. ASSUME NEW x \in CallRecord, call' = [call EXCEPT ![q] = x],
               x = Idle \/ (x.client = c /\ CallSound(x, k, stream'))
        PROVE  Sound'
    <3>1. Alone'
      BY <1>1, <2>1, <2>2, AloneStays
    <3> QED
      BY <1>2, <2>1, <2>2, <3>1, MovesSound
  <2>3. ASSUME call' = [call EXCEPT ![q] = Idle]
        PROVE  Sound'
    <3>1. Idle \in CallRecord
      BY RecordsTyped
    <3> QED
      BY <2>2, <2>3, <3>1
  <2>4. CASE /\ k.lockdown # None
             /\ call' = [call EXCEPT ![q] = After(c, op, k.lockdown)]
    <3>1. CASE op \in {"query", "session", "service"}
      <4> DEFINE x == At("asking", c, op, None, k.lockdown)
      <4>1. call' = [call EXCEPT ![q] = x]
        BY <2>4, <3>1 DEF After
      <4>2. /\ x \in CallRecord /\ x.pc = "asking" /\ x.client = c /\ x.op = op
            /\ x.stream = k.lockdown /\ x.left = FALSE
        BY <3>1 DEF At, CallRecord, ClientRecord, None, Ops
      <4> HIDE DEF x
      <4>3. CallSound(x, k, stream')
        BY <1>2, <2>4, <4>2 DEF CallSound, ClientSound
      <4> QED
        BY <2>2, <4>1, <4>2, <4>3
    <3>2. CASE op \notin {"query", "session", "service"}
      BY <2>4, <2>3, <3>2 DEF After
    <3> QED
      BY <3>1, <3>2
  <2>5. CASE k.lockdown = None /\ call' = [call EXCEPT ![q] = Idle]
    BY <2>5, <2>3
  <2>6. CASE /\ k.lockdown = None
             /\ \E x \in CallRecord :
                  /\ call' = [call EXCEPT ![q] = x] /\ x.client = c
                  /\ x.op = op /\ ~x.left
                  /\ \/ x.pc = "opening"
                     \/ x.pc = "connecting" /\ stream'[x.stream].link = k.mux
    <3>1. PICK x \in CallRecord :
            /\ call' = [call EXCEPT ![q] = x] /\ x.client = c
            /\ x.op = op /\ ~x.left
            /\ \/ x.pc = "opening"
               \/ x.pc = "connecting" /\ stream'[x.stream].link = k.mux
      BY <2>6
    <3>2. k.tls = None
      BY <1>2, <2>6, EmptySound
    <3>3. CallSound(x, k, stream')
      BY <1>2, <2>6, <3>1, <3>2 DEF CallSound
    <3> QED
      BY <2>2, <3>1, <3>3
  <2> QED
    BY <1>2, <2>4, <2>5, <2>6
<1>3. ASSUME NEW op \in {"connect", "query", "session", "service", "reset"},
             MayCall(q, c, op), NEW k \in ClientRecord,
             ClientMade(k, Len(link), Len(stream)), NEW S, Later(stream, S),
             Len(S) = Len(stream), ClientSound(k, stream'),
             op = "service" => k.tls # None,
             ConnectLockdown(q, c, op, k, S)
      PROVE  Sound'
  <2>1. op \in Ops
    BY DEF Ops
  <2>2. /\ client' = [client EXCEPT ![c] = k]
        /\ \/ /\ k.lockdown # None /\ stream' = S
              /\ call' = [call EXCEPT ![q] = After(c, op, k.lockdown)]
           \/ /\ k.lockdown = None
              /\ Dialing(q, c, op, "connecting", k.mux, S) \/ Opening(q, c, op)
    BY <1>3, <2>1, ConnectFacts
  <2>3. Dialing(q, c, op, "connecting", k.mux, S) =>
          \/ call' = [call EXCEPT ![q] = Idle]
          \/ \E x \in CallRecord :
               /\ call' = [call EXCEPT ![q] = x] /\ x.client = c
               /\ x.op = op /\ ~x.left
               /\ \/ x.pc = "opening"
                  \/ x.pc = "connecting" /\ stream'[x.stream].link = k.mux
    BY Zenon DEF Dialing
  <2>4. Opening(q, c, op) =>
          \E x \in CallRecord :
            /\ call' = [call EXCEPT ![q] = x] /\ x.client = c
            /\ x.op = op /\ ~x.left
            /\ \/ x.pc = "opening"
               \/ x.pc = "connecting" /\ stream'[x.stream].link = k.mux
    BY Zenon DEF Opening
  <2> QED
    BY <1>2, <1>3, <2>2, <2>3, <2>4
<1>4. ASSUME NEW op \in {"connect", "query", "session", "service"}, Request(q, c, op)
      PROVE  Sound'
  <2>1. /\ MayCall(q, c, op) /\ (op = "service" => f.tls # None)
        /\ ConnectLockdown(q, c, op, f, stream)
    BY <1>4 DEF Request
  <2>2. Later(stream, stream) /\ ClientSound(f, stream')
    BY <1>1, LaterSame, ClientStays
  <2> HIDE DEF f
  <2> QED
    BY <1>1, <1>3, <1>4, <2>1, <2>2
<1>5. CASE ResetLockdown(q, c)
  <2> DEFINE k == [Blank EXCEPT !.mux = f.mux]
             S == End(stream, {f.tls, f.raw})
  <2>1. MayCall(q, c, "reset") /\ ConnectLockdown(q, c, "reset", k, S)
    BY <1>5 DEF ResetLockdown
  <2>2. /\ k \in ClientRecord /\ k.mux = f.mux /\ k.lockdown = None /\ k.raw = None
        /\ k.tls = None /\ k.secure = FALSE /\ k.session = FALSE
    <3> DEFINE m == f.mux
    <3>1. m \in Nat /\ k = [Blank EXCEPT !.mux = m]
      BY <1>1 DEF ClientRecord
    <3> HIDE DEF m, k
    <3>2. /\ k \in ClientRecord /\ k.mux = m /\ k.lockdown = None /\ k.raw = None
          /\ k.tls = None /\ k.secure = FALSE /\ k.session = FALSE
      BY <3>1 DEF Blank, ClientRecord, None
    <3> QED
      BY <3>2 DEF m
  <2>3. Later(stream, S) /\ Len(S) = Len(stream)
    BY <1>1, EndFacts
  <2> HIDE DEF k, S, f
  <2>4. ClientSound(k, stream')
    BY <2>2, EmptySound
  <2>5. ClientMade(k, Len(link), Len(stream))
    BY <1>1, <2>2 DEF ClientMade, None
  <2> QED
    BY <1>3, <2>1, <2>2, <2>3, <2>4, <2>5
<1> QED
  BY <1>4, <1>5

\* close() cuts in, and reconnect() begins with it: the streams of the calls
\* that are under way die with the mux.
LEMMA ClosesSound ==
  ASSUME Made, Sound, Made', Later(stream, stream'), Shared = FALSE,
         NEW c \in Clients, Close(c) \/ \E q \in Callers : Reconnect(q, c)
  PROVE  Sound'
<1> DEFINE f == client[c]
<1>1. /\ stream \in Seq(StreamRecord) /\ Len(stream) \in Nat
      /\ f \in ClientRecord /\ ClientSound(f, stream) /\ Alone
      /\ DOMAIN stream = 1..Len(stream)
  BY DEF Made, Sound
<1>2. CloseClient(c) /\ client' = [client EXCEPT ![c] = Blank]
  BY DEF Close, Reconnect, CloseClient
<1>3. \A s \in 1..Len(stream) : stream[s].link = f.mux => stream'[s].st = "dead"
  <2>1. stream' = End(stream, Over({f.mux}) \cup {f.tls})
    BY <1>2 DEF CloseClient, Closes
  <2>2. \A s \in 1..Len(stream) :
          s \in Over({f.mux}) \cup {f.tls} => stream'[s].st = "dead"
    BY <1>1, <2>1, EndFacts
  <2> QED
    BY <1>1, <2>2 DEF Over
<1>4. /\ Blank \in ClientRecord /\ Blank.lockdown = None /\ ClientSound(Blank, stream')
  BY RecordsTyped DEF Blank, ClientSound, None
<1>5. ASSUME NEW p \in Callers, call[p].client = c
      PROVE  CallSound(call[p], Blank, stream')
  <2>1. /\ call[p] \in CallRecord /\ CallMade(call[p], Len(link), Len(stream))
        /\ CallSound(call[p], f, stream)
    BY <1>5 DEF Made, Sound
  <2> HIDE DEF f
  <2> QED
    BY <1>1, <1>3, <1>4, <2>1, CallClosed
<1>6. CASE Close(c)
  <2>1. call' = call /\ Alone'
    BY <1>1, <1>6 DEF Close, Alone
  <2>2. client'[c] = Blank /\ \A d \in Clients : d # c => client'[d] = client[d]
    BY <1>2, <1>4, ClientChanges
  <2>3. \A d \in Clients : client'[d] = client[d] \/ ClientSound(client'[d], stream')
    BY <1>4, <2>2
  <2>4. ASSUME NEW p \in Callers
        PROVE  \/ CallSound(call'[p], client'[call'[p].client], stream')
               \/ /\ call'[p] = call[p]
                  /\ client'[call[p].client].mux = client[call[p].client].mux
                  /\ client'[call[p].client].lockdown
                       = client[call[p].client].lockdown
    <3>1. call[p] = Idle \/ call[p].client \in Clients
      BY DEF Made, CallMade
    <3> QED
      BY <1>5, <2>1, <2>2, <3>1, IdleSound
  <2> QED
    BY <2>1, <2>3, <2>4, SoundAfter
<1>7. ASSUME NEW q \in Callers, Reconnect(q, c)
      PROVE  Sound'
  <2> DEFINE x == At("settling", c, "reconnect", None, None)
  <2>1. call' = [call EXCEPT ![q] = x] /\ MayCall(q, c, "reconnect")
    BY <1>7 DEF Reconnect
  <2>2. /\ x \in CallRecord /\ x.pc = "settling" /\ x.client = c
        /\ x.op = "reconnect" /\ x.left = FALSE
    BY DEF At, CallRecord, None, Ops
  <2> HIDE DEF x
  <2>3. CallSound(x, Blank, stream')
    BY <1>4, <2>2 DEF CallSound
  <2>4. \A p \in Callers : call[p].client = c => call[p].left
    BY <2>1, MayCallFacts
  <2>5. Alone'
    BY <1>1, <2>1, <2>2, <2>4, AloneStays
  <2> QED
    BY <1>2, <1>4, <1>5, <2>1, <2>2, <2>3, <2>5, MovesSound
<1> QED
  BY <1>6, <1>7

\* The other beginnings: after the pause of reconnect(), of upgradeToTls(), and
\* the flow that gives a startSession() up.
LEMMA BeginsSound ==
  ASSUME Made, Sound, Made', Later(stream, stream'), Shared = FALSE,
         NEW q \in Callers,
         Settled(q) \/ Abandon(q) \/ \E c \in Clients : Upgrade(q, c)
  PROVE  Sound'
<1> DEFINE x == call[q]
<1>1. /\ stream \in Seq(StreamRecord) /\ Len(stream) \in Nat
      /\ x \in CallRecord /\ CallMade(x, Len(link), Len(stream))
      /\ CallSound(x, client[x.client], stream) /\ Alone
      /\ client' = client /\ stream' = stream
  BY BeginsMade DEF Made, Sound
<1>2. CASE Settled(q)
  <2>1. /\ x.pc = "settling" /\ x.op = "reconnect" /\ x.client \in Clients
        /\ "reconnect" \in Ops /\ OpenLink(q, x.client, "reconnect")
    BY <1>1, <1>2 DEF Settled, CallMade, Idle, Ops
  <2>2. Opening(q, x.client, "reconnect")
    BY <2>1, OpenLinkFacts
  <2>3. PICK y \in CallRecord :
          /\ call' = [call EXCEPT ![q] = y] /\ y.pc = "opening"
          /\ y.client = x.client /\ y.op = "reconnect" /\ ~y.left
          /\ CallMade(y, Len(link'), Len(stream))
    BY <2>2, Zenon DEF Opening
  <2>4. CallSound(y, client[y.client], stream') /\ (x.left => y.left)
    BY <1>1, <2>1, <2>3 DEF CallSound
  <2>5. Alone'
    BY <1>1, <2>1, <2>3, <2>4, AloneStays
  <2> QED
    BY <1>1, <2>3, <2>4, <2>5, CallMovesSound
<1>3. CASE Abandon(q)
  <2> DEFINE y == [x EXCEPT !.left = TRUE]
  <2>1. call' = [call EXCEPT ![q] = y] /\ x.pc = "asking" /\ x.op = "session"
    BY <1>3 DEF Abandon, Made
  <2>2. /\ y \in CallRecord /\ y.pc = x.pc /\ y.client = x.client /\ y.op = x.op
        /\ y.stream = x.stream /\ y.left = TRUE
    <3> HIDE DEF x
    <3> QED
      BY <1>1 DEF CallRecord
  <2> HIDE DEF y
  <2>3. CallSound(y, client[y.client], stream')
    BY <1>1, <2>1, <2>2 DEF CallSound
  <2>4. Alone'
    BY <1>1, <2>1, <2>2, AloneStays
  <2> QED
    BY <1>1, <2>1, <2>2, <2>3, <2>4, CallMovesSound
<1>4. ASSUME NEW c \in Clients, Upgrade(q, c)
      PROVE  Sound'
  <2> DEFINE f == client[c]
             y == At("upgrading", c, "tls", None, f.raw)
  <2>1. /\ call' = [call EXCEPT ![q] = y] /\ MayCall(q, c, "tls") /\ f.raw # None
    BY <1>4 DEF Upgrade
  <2>2. f \in ClientRecord /\ ClientSound(f, stream)
    BY DEF Made, Sound
  <2>3. /\ y \in CallRecord /\ y.pc = "upgrading" /\ y.client = c /\ y.op = "tls"
        /\ y.stream = f.raw /\ y.left = FALSE
    <3> DEFINE r == f.raw
    <3>1. r \in Nat /\ y = At("upgrading", c, "tls", None, r)
      BY <2>2 DEF ClientRecord
    <3> HIDE DEF r, y
    <3>2. /\ y \in CallRecord /\ y.pc = "upgrading" /\ y.client = c
          /\ y.op = "tls" /\ y.stream = r /\ y.left = FALSE
      BY <3>1 DEF At, CallRecord, None, Ops
    <3> QED
      BY <3>2 DEF r
  <2>4. \A p \in Callers : call[p].client # c
    <3> DEFINE op == "tls"
    <3>1. MayCall(q, c, op) /\ op # "reconnect"
      BY <2>1
    <3> HIDE DEF op
    <3> QED
      BY <3>1, MayCallFacts
  <2> HIDE DEF y
  <2>5. CallSound(y, f, stream')
    BY <1>1, <2>1, <2>2, <2>3 DEF CallSound, ClientSound
  <2>6. Alone'
    BY <1>1, <2>1, <2>3, <2>4, AloneStays
  <2> QED
    BY <1>1, <2>1, <2>3, <2>5, <2>6, CallMovesSound
<1> QED
  BY <1>2, <1>3, <1>4

\* The picker returned a device, or its MUX handshake is complete: the client
\* had no lockdown, and keeps none.
LEMMA ShakesSound ==
  ASSUME Made, Sound, Made', Later(stream, stream'),
         NEW q \in Callers, Opened(q) \/ Shaken(q)
  PROVE  Sound'
<1> DEFINE x == call[q]
           c == x.client
           f == client[c]
<1>1. /\ stream \in Seq(StreamRecord) /\ Len(stream) \in Nat /\ Len(link) \in Nat
      /\ x \in CallRecord /\ CallMade(x, Len(link), Len(stream))
      /\ CallSound(x, f, stream) /\ Alone
  BY DEF Made, Sound
<1>2. x.pc \in {"opening", "shaking"}
  BY DEF Opened, Shaken
<1>3. /\ c \in Clients /\ x.op \in Ops /\ x.link \in 1..Len(link) /\ ~x.left
  BY <1>1, <1>2 DEF CallMade, Idle
<1>4. f.lockdown = None /\ x.op # "service"
  BY <1>1, <1>2 DEF CallSound
<1>5. CASE Opened(q)
  <2> DEFINE y == [x EXCEPT !.pc = "shaking"]
  <2>1. call' = [call EXCEPT ![q] = y] /\ client' = client
    BY <1>5 DEF Opened
  <2>2. /\ y \in CallRecord /\ y.pc = "shaking" /\ y.client = c /\ y.op = x.op
        /\ y.left = x.left
    <3> HIDE DEF x
    <3> QED
      BY <1>1 DEF CallRecord
  <2> HIDE DEF y
  <2>3. CallSound(y, f, stream')
    BY <1>3, <1>4, <2>2 DEF CallSound
  <2>4. Alone'
    BY <1>1, <1>2, <2>1, <2>2, AloneStays
  <2> QED
    BY <2>1, <2>2, <2>3, <2>4, CallMovesSound
<1>6. CASE Shaken(q)
  <2> DEFINE k == [f EXCEPT !.mux = x.link]
             e == [link |-> x.link, st |-> "syn", session |-> FALSE, tls |-> FALSE]
             y == At(IF x.op = "dial" THEN "dialing" ELSE "connecting",
                     c, x.op, x.link, Len(stream) + 1)
  <2>1. /\ client' = [client EXCEPT ![c] = k]
        /\ \/ call' = [call EXCEPT ![q] = Idle] /\ stream' = stream
           \/ stream' = Append(stream, e) /\ call' = [call EXCEPT ![q] = y]
    <3>1. client \in [Clients -> ClientRecord]
      BY DEF Made
    <3> QED
      BY <1>6, <3>1 DEF Shaken, MuxStored, Ends
  <2>2. f \in ClientRecord /\ ClientSound(f, stream)
    BY <1>3 DEF Made, Sound
  <2>3. f.raw = None /\ f.tls = None /\ f.secure = FALSE /\ f.session = FALSE
    BY <1>4, <2>2, EmptySound
  <2>4. /\ k \in ClientRecord /\ k.mux = x.link /\ k.lockdown = None /\ k.raw = None
        /\ k.tls = None /\ k.secure = FALSE /\ k.session = FALSE
    <3> DEFINE m == x.link
    <3>1. m \in Nat /\ k = [f EXCEPT !.mux = m]
      BY <1>1, <1>3
    <3>2. f \in ClientRecord /\ f.lockdown = None
      BY <1>4, <2>2
    <3> HIDE DEF m, k, f
    <3>3. /\ k \in ClientRecord /\ k.mux = m /\ k.lockdown = f.lockdown
          /\ k.raw = f.raw /\ k.tls = f.tls /\ k.secure = f.secure
          /\ k.session = f.session
      BY <3>1, <3>2 DEF ClientRecord
    <3> QED
      BY <2>3, <3>2, <3>3 DEF m, f
  <2>5. ClientSound(k, stream')
    BY <2>4, EmptySound
  <2>6. ASSUME NEW p \in Callers, p # q, call[p].client = c
        PROVE  CallSound(call[p], k, stream')
    <3>1. call[p].left
      BY <1>1, <1>2, <1>3, <2>6 DEF Alone
    <3>2. /\ call[p] \in CallRecord /\ CallMade(call[p], Len(link), Len(stream))
          /\ CallSound(call[p], f, stream)
      BY <2>6 DEF Made, Sound
    <3> HIDE DEF f, k
    <3> QED
      BY <1>1, <1>4, <3>1, <3>2, LeftSound
  <2>7. /\ y \in CallRecord /\ y.pc \in {"connecting", "dialing"} /\ y.client = c
        /\ y.op = x.op /\ y.stream = Len(stream) + 1 /\ y.left = FALSE
    BY <1>1, <1>3 DEF At, CallRecord
  <2>8. e \in StreamRecord /\ e.link = x.link
    BY <1>1, <1>3 DEF StreamRecord
  <2> HIDE DEF k, e, y
  <2>9. /\ c \in Clients /\ client' = [client EXCEPT ![c] = k] /\ k \in ClientRecord
        /\ \A p \in Callers : p # q /\ call[p].client = c => CallSound(call[p], k, stream')
    BY <1>3, <2>1, <2>4, <2>6
  <2>10. ASSUME NEW z \in CallRecord, call' = [call EXCEPT ![q] = z], Alone',
                z = Idle \/ (z.client = c /\ CallSound(z, k, stream'))
         PROVE  Sound'
    <3> HIDE DEF c
    <3> QED
      BY <2>5, <2>9, <2>10, MovesSound
  <2>11. CASE call' = [call EXCEPT ![q] = Idle]
    <3>1. Idle \in CallRecord
      BY RecordsTyped
    <3>2. Alone'
      BY <1>1, <2>11, <3>1, AloneStays
    <3> QED
      BY <2>10, <2>11, <3>1, <3>2
  <2>12. CASE stream' = Append(stream, e) /\ call' = [call EXCEPT ![q] = y]
    <3>1. stream'[y.stream] = e
      BY <1>1, <2>7, <2>8, <2>12, AppendIsLater
    <3>2. CallSound(y, k, stream')
      BY <1>4, <2>4, <2>7, <2>8, <3>1 DEF CallSound
    <3>3. Alone'
      BY <1>1, <1>2, <1>3, <2>7, <2>12, AloneStays
    <3> QED
      BY <2>7, <2>10, <2>12, <3>2, <3>3
  <2> QED
    BY <2>1, <2>11, <2>12
<1> QED
  BY <1>5, <1>6

\* The stream to lockdownd or to a service is open.
LEMMA ConnectsSound ==
  ASSUME Made, Sound, Made', Later(stream, stream'),
         NEW q \in Callers, Connected(q) \/ Dialed(q)
  PROVE  Sound'
<1> DEFINE x == call[q]
           c == x.client
           f == client[c]
           s == x.stream
<1>1. /\ stream \in Seq(StreamRecord) /\ Len(stream) \in Nat /\ Len(link) \in Nat
      /\ x \in CallRecord /\ CallMade(x, Len(link), Len(stream))
      /\ CallSound(x, f, stream) /\ Alone
  BY DEF Made, Sound
<1>2. x.pc \in {"connecting", "dialing"} /\ stream[s].st = "syn"
  BY DEF Connected, Dialed
<1>3. /\ c \in Clients /\ x.op \in Ops /\ s \in 1..Len(stream) /\ ~x.left
  BY <1>1, <1>2 DEF CallMade, Idle
<1>4. CASE Connected(q)
  <2> DEFINE k == [f EXCEPT !.raw = s, !.lockdown = s, !.secure = FALSE]
             y == After(c, x.op, s)
  <2>1. f \in ClientRecord /\ ClientSound(f, stream) /\ f.lockdown = None
        /\ x.op # "service" /\ f.mux = stream[s].link
    BY <1>1, <1>2, <1>3, <1>4 DEF Made, Sound, CallSound, Connected
  <2>2. f.raw = None /\ f.tls = None /\ f.secure = FALSE /\ f.session = FALSE
    BY <2>1, EmptySound
  <2>3. client' = [client EXCEPT ![c] = k] /\ call' = [call EXCEPT ![q] = y]
    BY <1>3, <1>4 DEF Connected, Made, ClientRecord
  <2>4. /\ k \in ClientRecord /\ k.mux = f.mux /\ k.lockdown = s /\ k.raw = s
        /\ k.tls = f.tls /\ k.secure = FALSE /\ k.session = f.session
    <3>1. k = [f EXCEPT !.raw = s, !.lockdown = s, !.secure = FALSE] /\ s \in Nat
      BY <1>3
    <3>2. f \in ClientRecord
      BY <2>1
    <3> HIDE DEF f, k, s
    <3> QED
      BY <3>1, <3>2 DEF ClientRecord
  <2>5. stream'[s].st = "open" /\ stream'[s].link = stream[s].link
        /\ stream[s].link \in 1..Len(link)
    <3>1. stream[s] \in StreamRecord /\ stream[s].link \in 1..Len(link)
      BY <1>1, <1>3 DEF Made
    <3>2. stream' = [stream EXCEPT ![s].st = "open"]
      BY <1>4 DEF Connected
    <3> HIDE DEF s
    <3> QED
      BY <1>1, <1>3, <3>1, <3>2 DEF StreamRecord
  <2> HIDE DEF k, y
  <2>6. ClientSound(k, stream')
    BY <1>1, <2>1, <2>2, <2>4, <2>5 DEF ClientSound, None
  <2>7. ASSUME NEW p \in Callers, p # q, call[p].client = c
        PROVE  CallSound(call[p], k, stream')
    <3>1. call[p].left
      BY <1>1, <1>2, <1>3, <2>7 DEF Alone
    <3>2. /\ call[p] \in CallRecord /\ CallMade(call[p], Len(link), Len(stream))
          /\ CallSound(call[p], f, stream)
      BY <2>7 DEF Made, Sound
    <3> HIDE DEF f
    <3> QED
      BY <1>1, <2>1, <3>1, <3>2, LeftSound
  <2>8. y \in CallRecord /\ (y = Idle \/ (y.client = c /\ CallSound(y, k, stream')))
    <3>1. CASE x.op \in {"query", "session"}
      <4>1. y = At("asking", c, x.op, None, s)
        BY <3>1 DEF After, y
      <4>2. /\ y \in CallRecord /\ y.pc = "asking" /\ y.client = c /\ y.op = x.op
            /\ y.stream = s /\ y.left = FALSE
        BY <1>3, <4>1 DEF At, CallRecord, None
      <4> QED
        BY <2>1, <2>4, <2>5, <4>2 DEF CallSound
    <3>2. CASE x.op \notin {"query", "session"}
      BY <2>1, <3>2, RecordsTyped DEF After, y
    <3> QED
      BY <3>1, <3>2
  <2>9. Alone'
    BY <1>1, <1>2, <1>3, <2>3, <2>8, AloneStays
  <2>10. /\ client' = [client EXCEPT ![c] = k] /\ call' = [call EXCEPT ![q] = y]
         /\ c \in Clients /\ k \in ClientRecord
         /\ \A p \in Callers : p # q /\ call[p].client = c => CallSound(call[p], k, stream')
    BY <1>3, <2>3, <2>4, <2>7
  <2> HIDE DEF c
  <2> QED
    BY <2>6, <2>8, <2>9, <2>10, MovesSound
<1>5. CASE Dialed(q)
  <2>1. PICK ssl \in BOOLEAN :
          call' = [call EXCEPT ![q] =
                     IF ssl THEN At("securing", x.client, "dial", None, x.stream)
                     ELSE Idle]
    BY <1>5 DEF Dialed
  <2>2. client' = client
    BY <1>5 DEF Dialed
  <2>3. CASE ~ssl
    BY <2>1, <2>2, <2>3, QuietSound
  <2>4. CASE ssl
    <3> DEFINE y == At("securing", c, "dial", None, s)
    <3>1. call' = [call EXCEPT ![q] = y]
      BY <2>1, <2>4
    <3>2. /\ y \in CallRecord /\ y.pc = "securing" /\ y.client = c /\ y.op = "dial"
          /\ y.left = FALSE
      BY <1>3 DEF At, CallRecord, None, Ops
    <3> HIDE DEF y
    <3>3. CallSound(y, client[y.client], stream')
      BY <3>2 DEF CallSound
    <3>4. Alone'
      BY <1>1, <1>2, <1>3, <3>1, <3>2, AloneStays
    <3> QED
      BY <2>2, <3>1, <3>2, <3>3, <3>4, CallMovesSound
  <2> QED
    BY <2>3, <2>4
<1> QED
  BY <1>4, <1>5

\* The TLS transport takes over: the upgraded stream is lockdown's.
LEMMA UpgradesSound ==
  ASSUME Made, Sound, Made', Later(stream, stream'), NEW q \in Callers, Upgraded(q)
  PROVE  Sound'
<1> DEFINE x == call[q]
           c == x.client
           f == client[c]
           s == x.stream
           k == TlsInstalled(f, s)
<1>1. /\ stream \in Seq(StreamRecord) /\ Len(stream) \in Nat /\ Len(link) \in Nat
      /\ x \in CallRecord /\ CallMade(x, Len(link), Len(stream))
      /\ CallSound(x, f, stream) /\ Alone
  BY DEF Made, Sound
<1>2. /\ x.pc = "upgrading" /\ stream[s].st = "open" /\ stream[s].session
      /\ call' = [call EXCEPT ![q] = Idle]
  BY DEF Upgraded, Ends
<1>3. c \in Clients /\ s \in 1..Len(stream) /\ s # None
  BY <1>1, <1>2 DEF CallMade, Idle, None
<1>4. /\ f \in ClientRecord /\ ClientSound(f, stream) /\ f.lockdown = s
      /\ client' = [client EXCEPT ![c] = k]
  BY <1>1, <1>2, <1>3 DEF Made, Sound, CallSound, Upgraded
<1>5. stream'[s].tls
  <2>1. stream[s] \in StreamRecord
    BY <1>1, <1>3
  <2>2. stream' = [stream EXCEPT ![s].tls = TRUE]
    BY DEF Upgraded
  <2> HIDE DEF s
  <2> QED
    BY <1>1, <1>3, <2>1, <2>2 DEF StreamRecord
<1>6. /\ k \in ClientRecord /\ k.mux = f.mux /\ k.lockdown = s /\ k.raw = None
      /\ k.tls = s /\ k.secure /\ k.session = f.session
  <2>1. s \in Nat /\ f \in ClientRecord /\ f.lockdown = s /\ s # None
    BY <1>3, <1>4
  <2> HIDE DEF f, s
  <2> QED
    BY <2>1, InstalledFacts
<1> HIDE DEF k
<1>7. ClientSound(k, stream')
  <2> HIDE DEF f, s
  <2> QED
    BY <1>1, <1>2, <1>3, <1>4, <1>5, <1>6 DEF ClientSound, Later
<1>8. ASSUME NEW p \in Callers, call[p].client = c
      PROVE  CallSound(call[p], k, stream')
  <2>1. /\ call[p] \in CallRecord /\ CallMade(call[p], Len(link), Len(stream))
        /\ CallSound(call[p], f, stream)
    BY <1>8 DEF Made, Sound
  <2> HIDE DEF f, s
  <2> QED
    BY <1>1, <1>4, <1>6, <2>1, CallStays
<1>9. Idle \in CallRecord
  BY RecordsTyped
<1>10. Alone'
  BY <1>1, <1>2, <1>9, AloneStays
<1> HIDE DEF c
<1> QED
  BY <1>2, <1>3, <1>4, <1>6, <1>7, <1>8, <1>9, <1>10, MovesSound

\* lockdownd answers on the client's stream; a service is dialed.
LEMMA AnswersSound ==
  ASSUME Made, Sound, Made', Later(stream, stream'), NEW q \in Callers, Answered(q)
  PROVE  Sound'
<1> DEFINE x == call[q]
           c == x.client
           f == client[c]
           s == x.stream
<1>1. /\ stream \in Seq(StreamRecord) /\ Len(stream) \in Nat /\ Len(link) \in Nat
      /\ x \in CallRecord /\ CallMade(x, Len(link), Len(stream))
      /\ CallSound(x, f, stream) /\ Alone
  BY DEF Made, Sound
<1>2. x.pc = "asking" /\ stream[s].st = "open"
  BY DEF Answered
<1>3. c \in Clients /\ s \in 1..Len(stream) /\ s # None
  BY <1>1, <1>2 DEF CallMade, Idle, None
<1>4. /\ f \in ClientRecord /\ ClientSound(f, stream) /\ f.lockdown = s
      /\ ClientMade(f, Len(link), Len(stream))
  BY <1>1, <1>2, <1>3 DEF Made, Sound, CallSound
<1>5. CASE x.op = "query"
  BY <1>5, QuietSound DEF Answered, Ends
<1>6. CASE x.op = "session"
  <2> DEFINE k == [f EXCEPT !.session = TRUE]
  <2>1. /\ client' = [client EXCEPT ![c] = k] /\ call' = [call EXCEPT ![q] = Idle]
        /\ stream' = [stream EXCEPT ![s].session = TRUE]
    BY <1>3, <1>6 DEF Answered, Ends, Made
  <2>2. /\ k \in ClientRecord /\ k.mux = f.mux /\ k.lockdown = f.lockdown
        /\ k.raw = f.raw /\ k.tls = f.tls /\ k.secure = f.secure /\ k.session
    <3> HIDE DEF f
    <3> QED
      BY <1>4 DEF ClientRecord
  <2>3. stream'[s].session
    <3>1. stream[s] \in StreamRecord
      BY <1>1, <1>3
    <3> HIDE DEF s
    <3> QED
      BY <1>1, <1>3, <2>1, <3>1 DEF StreamRecord
  <2>4. ClientSound(f, stream')
    <3> HIDE DEF f, s
    <3> QED
      BY <1>1, <1>4, ClientStays
  <2> HIDE DEF k
  <2>5. ClientSound(k, stream')
    <3> HIDE DEF f, s
    <3> QED
      BY <1>3, <1>4, <2>2, <2>3, <2>4 DEF ClientSound
  <2>6. ASSUME NEW p \in Callers, call[p].client = c
        PROVE  CallSound(call[p], k, stream')
    <3>1. /\ call[p] \in CallRecord /\ CallMade(call[p], Len(link), Len(stream))
          /\ CallSound(call[p], f, stream)
      BY <2>6 DEF Made, Sound
    <3> HIDE DEF f, s
    <3> QED
      BY <1>1, <2>2, <3>1, CallStays
  <2>7. Idle \in CallRecord
    BY RecordsTyped
  <2>8. Alone'
    BY <1>1, <2>1, <2>7, AloneStays
  <2> HIDE DEF c
  <2> QED
    BY <1>3, <2>1, <2>2, <2>5, <2>6, <2>7, <2>8, MovesSound
<1>7. CASE x.op = "service"
  <2>1. client' = client /\ f.mux # None
    BY <1>3, <1>4, <1>7 DEF Answered, ClientSound
  <2>2. Dial(q, c, "dial", "dialing", f.mux, stream)
    BY <1>7, <2>1 DEF Answered
  <2>3. f.mux \in 1..Len(link) /\ "dial" \in Ops /\ Later(stream, stream)
    BY <1>1, <1>4, <2>1, LaterSame DEF ClientRecord, ClientMade, None, Ops
  <2>4. Dialing(q, c, "dial", "dialing", f.mux, stream)
    BY <1>1, <1>3, <2>2, <2>3, DialFacts
  <2>5. CASE call' = [call EXCEPT ![q] = Idle]
    BY <2>1, <2>5, QuietSound
  <2>6. ASSUME NEW y \in CallRecord, call' = [call EXCEPT ![q] = y],
               y.pc = "dialing", y.client = c, y.op = "dial", ~y.left
        PROVE  Sound'
    <3>1. CallSound(y, client[y.client], stream')
      BY <2>6 DEF CallSound
    <3>2. ~x.left
      BY <1>1, <1>7 DEF CallSound
    <3>3. Alone'
      BY <1>1, <1>2, <2>6, <3>2, AloneStays
    <3> QED
      BY <2>1, <2>6, <3>1, <3>3, CallMovesSound
  <2> QED
    BY <2>4, <2>5, <2>6 DEF Dialing
<1> QED
  BY <1>5, <1>6, <1>7 DEF Answered

\* One step, whoever takes it.
LEMMA StepSound ==
  ASSUME ClientInv, [Next]_vars, Shared = FALSE
  PROVE  ClientInv'
<1>1. Made /\ Sound /\ Made' /\ Later(stream, stream')
  BY StepMade DEF ClientInv
<1> SUFFICES Sound'
  BY <1>1 DEF ClientInv
<1>2. ASSUME NEW q \in Callers, NEW c \in Clients,
             \/ \E op \in {"connect", "query", "session", "service"} :
                  Request(q, c, op)
             \/ ResetLockdown(q, c) \/ Reconnect(q, c) \/ Upgrade(q, c)
      PROVE  Sound'
  BY <1>1, <1>2, RequestsSound, ClosesSound, BeginsSound
<1>3. ASSUME NEW q \in Callers,
             \/ Settled(q) \/ Abandon(q)
             \/ Opened(q) \/ OpenFails(q) \/ Shaken(q) \/ ShakeFails(q)
             \/ Connected(q) \/ ConnectFails(q) \/ Answered(q) \/ AskFails(q)
             \/ Dialed(q) \/ Upgraded(q) \/ Secured(q) \/ TlsFails(q)
      PROVE  Sound'
  BY <1>1, <1>3, BeginsSound, ShakesSound, ConnectsSound, UpgradesSound, AnswersSound,
     EndingsSound
<1>4. ASSUME NEW c \in Clients, Close(c)
      PROVE  Sound'
  BY <1>1, <1>4, ClosesSound
<1>5. CASE \/ \E s \in DOMAIN stream : StreamLost(s)
           \/ \E m \in DOMAIN link : LinkLost(m) \/ Released(m)
           \/ Unplug \/ UNCHANGED vars
  BY <1>1, <1>5, EndingsSound
<1> QED
  BY <1>2, <1>3, <1>4, <1>5 DEF Next

\* The clients' invariant holds at the start.
LEMMA InitSound == Init => ClientInv
<1> SUFFICES ASSUME Init PROVE ClientInv
  OBVIOUS
<1>1. Made
  BY InitMade
<1>2. \A c \in Clients : ClientSound(client[c], stream)
  BY DEF Init, Blank, ClientSound, None
<1>3. \A q \in Callers : CallSound(call[q], client[call[q].client], stream)
  BY IdleSound DEF Init
<1>4. Alone
  BY RecordsTyped DEF Init, Alone
<1> QED
  BY <1>1, <1>2, <1>3, <1>4 DEF ClientInv, Sound

\* The inductive invariant, for flows that use a client one at a time.
LEMMA ClientInvariant ==
  ASSUME Shared = FALSE
  PROVE  Spec => []ClientInv
<1>1. ClientInv /\ [Next]_vars => ClientInv'
  BY StepSound
<1> QED
  BY <1>1, InitSound, PTL DEF Spec

\* isSessionStarted speaks of the stream of the lockdown client: no answer to a
\* StartSession on an older stream sets it.
THEOREM SessionIsCurrent ==
  ASSUME Shared = FALSE
  PROVE  Spec => []SessionOnStream
<1>1. ClientInv => SessionOnStream
  BY DEF ClientInv, Sound, ClientSound, SessionOnStream
<1> QED
  BY <1>1, ClientInvariant, PTL

\* isTlsUpgraded speaks of the stream of the lockdown client, which the raw
\* transport has given up.
THEOREM TlsIsCurrent ==
  ASSUME Shared = FALSE
  PROVE  Spec => []TlsOnLockdown
<1>1. ClientInv => TlsOnLockdown
  BY DEF ClientInv, Sound, ClientSound, TlsOnLockdown
<1> QED
  BY <1>1, ClientInvariant, PTL

\* The lockdown client runs over the client's own mux, whatever close() or
\* reconnect() cut into.
THEOREM LockdownHasMux ==
  ASSUME Shared = FALSE
  PROVE  Spec => []LockdownOverMux
<1>1. ClientInv => LockdownOverMux
  BY DEF ClientInv, Sound, ClientSound, LockdownOverMux
<1> QED
  BY <1>1, ClientInvariant, PTL

\* A StartService request is on its way only over TLS, within a session.
THEOREM ServicesEncrypted ==
  ASSUME Shared = FALSE
  PROVE  Spec => []ServiceEncrypted
<1>1. ClientInv => ServiceEncrypted
  BY DEF ClientInv, Sound, CallSound, ServiceEncrypted
<1> QED
  BY <1>1, ClientInvariant, PTL

=============================================================================
