--------------------------- MODULE MuxLinkProofs ---------------------------
(***************************************************************************)
(* Theorems of the two sides of WebUsbMux, for every value of their        *)
(* constants.                                                              *)
(*                                                                         *)
(* MuxLink, for every number of objects, turns and replies.  The argument: *)
(* an inductive invariant LinkInv says of each object what its handshake   *)
(* waits for (HandshakeInv) and how its read loop relates to its flags     *)
(* (LoopInv), and that reads are outstanding only on a claimed device.     *)
(* The methods change one object's record by a few functions, so a lemma   *)
(* per function shows that it keeps HandshakeInv.                          *)
(*                                                                         *)
(* MuxFraming, for every size of packets and transfers.  The argument:     *)
(* FramingInv.  What the read loop has not handed on are whole packets,    *)
(* the next one first (Holds), so that the length field that the loop      *)
(* reads is one; and the numbers given so far ascend through the wire and  *)
(* the chain behind it (SentSound).  FramingBounded counts the packets.    *)
(***************************************************************************)
EXTENDS MuxLink, MuxFraming, SequenceTheorems, WellFoundedInduction, TLAPS

\* What the handshake of an object with the fields x waits for.
HandshakeInv(x) ==
  /\ x.pc \in {"version", "answer"} /\ x.answer = "none" =>
       x.waiter = x.attempt /\ x.timer
  /\ x.frame # NoFrame => x.frame.kind = x.pc
  /\ x.atDevice => x.frame # NoFrame

\* How the read loop of an object relates to its flags; `in` says that it has
\* a transferIn outstanding.
LoopInv(x, in) ==
  /\ x.reading => ~x.closed /\ in
  /\ in /\ ~x.reading => x.closed /\ x.teardown # "none"
  /\ x.pc \in {"new", "opening", "claiming"} => ~in
  /\ x.pc \in {"opened", "version", "answer", "setup", "done"} /\ ~x.closed =>
       x.reading
  /\ x.done /\ ~x.closed => x.reading

LinkInv ==
  /\ TypeOK
  /\ \A m \in Muxes : HandshakeInv(mux[m])
  /\ \A m \in Muxes : LoopInv(mux[m], Contains(readers, m))
  /\ OneLoop
  /\ readers # <<>> => opened /\ claimed

-----------------------------------------------------------------------------
(* Sequences of readers                                                    *)

\* A transferIn submitted at the end is the only new one.
LEMMA AppendReader ==
  ASSUME NEW S, NEW s \in Seq(S), NEW m \in S
  PROVE  /\ \A k \in S : Contains(Append(s, m), k) <=> Contains(s, k) \/ k = m
         /\ ~Contains(s, m) /\ (\A i, j \in DOMAIN s : s[i] = s[j] => i = j) =>
              \A i, j \in DOMAIN Append(s, m) :
                Append(s, m)[i] = Append(s, m)[j] => i = j
<1>1. /\ Len(Append(s, m)) = Len(s) + 1 /\ Len(s) \in Nat
      /\ DOMAIN Append(s, m) = 1..(Len(s) + 1) /\ DOMAIN s = 1..Len(s)
  OBVIOUS
<1>2. /\ \A i \in 1..Len(s) : Append(s, m)[i] = s[i]
      /\ Append(s, m)[Len(s) + 1] = m
  OBVIOUS
<1>3. \A k \in S : Contains(Append(s, m), k) <=> Contains(s, k) \/ k = m
  BY <1>1, <1>2 DEF Contains
<1>4. ASSUME ~Contains(s, m), \A i, j \in DOMAIN s : s[i] = s[j] => i = j,
             NEW i \in DOMAIN Append(s, m), NEW j \in DOMAIN Append(s, m),
             Append(s, m)[i] = Append(s, m)[j]
      PROVE  i = j
  <2>1. \A k \in 1..Len(s) : s[k] # m
    BY <1>4 DEF Contains
  <2>. QED BY <1>1, <1>2, <1>4, <2>1
<1>. QED BY <1>3, <1>4

\* What is left when the i-th of distinct readers is taken out.
LEMMA RemoveReader ==
  ASSUME NEW S, NEW s \in Seq(S), NEW i \in DOMAIN s,
         \A j, k \in DOMAIN s : s[j] = s[k] => j = k
  PROVE  /\ RemoveAt(s, i) \in Seq(S)
         /\ \A m \in S : Contains(RemoveAt(s, i), m) <=> Contains(s, m) /\ m # s[i]
         /\ \A j, k \in DOMAIN RemoveAt(s, i) :
              RemoveAt(s, i)[j] = RemoveAt(s, i)[k] => j = k
<1>. DEFINE r == RemoveAt(s, i)
            n == Len(s)
<1>1. n \in Nat /\ DOMAIN s = 1..n /\ i \in 1..n /\ \A j \in 1..n : s[j] \in S
  OBVIOUS
<1>. DEFINE a == SubSeq(s, 1, i - 1)
            b == SubSeq(s, i + 1, n)
<1>2. a \in Seq(S) /\ Len(a) = i - 1 /\ \A j \in 1..(i - 1) : a[j] = s[j]
  BY <1>1
<1>3. b \in Seq(S) /\ Len(b) = n - i /\ \A j \in 1..(n - i) : b[j] = s[i + j]
  BY <1>1, SMTT(30)
<1>3a. r = a \o b
  BY DEF RemoveAt
<1>. HIDE DEF a, b, r
<1>3b. /\ a \o b \in Seq(S) /\ Len(a \o b) = Len(a) + Len(b)
      /\ \A j \in 1..(Len(a) + Len(b)) :
           (a \o b)[j] = IF j <= Len(a) THEN a[j] ELSE b[j - Len(a)]
  <2>1. a \in Seq(S)
    BY <1>2
  <2>2. b \in Seq(S)
    BY <1>3
  <2>. QED BY ONLY <2>1, <2>2, ConcatProperties, Zenon
<1>4. r \in Seq(S) /\ Len(r) = n - 1
  <2>1. r \in Seq(S) /\ Len(r) = Len(a) + Len(b)
    BY ONLY <1>3b, <1>3a, Zenon
  <2>. QED BY <1>1, <1>2, <1>3, <2>1
<1>4a. \A j \in 1..(n - 1) : r[j] = IF j <= i - 1 THEN a[j] ELSE b[j - (i - 1)]
  <2>1. \A j \in 1..(Len(a) + Len(b)) :
           r[j] = IF j <= Len(a) THEN a[j] ELSE b[j - Len(a)]
    BY ONLY <1>3b, <1>3a, Zenon
  <2>2. Len(a) = i - 1 /\ Len(a) + Len(b) = n - 1
    BY <1>1, <1>2, <1>3
  <2>. QED BY <2>1, <2>2
<1>5. \A j \in 1..(n - 1) : r[j] = IF j < i THEN s[j] ELSE s[j + 1]
  <2>. SUFFICES ASSUME NEW j \in 1..(n - 1)
                PROVE  r[j] = IF j < i THEN s[j] ELSE s[j + 1]
    OBVIOUS
  <2>1. CASE j < i
    BY <1>1, <1>2, <1>4a, <2>1
  <2>2. CASE ~(j < i)
    <3>1. r[j] = b[j - (i - 1)]
      BY <1>1, <1>4a, <2>2
    <3>2. j - (i - 1) \in 1..(n - i) /\ i + (j - (i - 1)) = j + 1
      BY <1>1, <2>2
    <3>. QED BY <1>3, <2>2, <3>1, <3>2
  <2>. QED BY <2>1, <2>2
<1>6. DOMAIN r = 1..(n - 1)
  BY <1>4
<1>7. ASSUME NEW m \in S PROVE Contains(r, m) <=> Contains(s, m) /\ m # s[i]
  <2>1. ASSUME Contains(r, m) PROVE Contains(s, m) /\ m # s[i]
    <3>1. PICK j \in 1..(n - 1) : r[j] = m
      BY <1>4, <2>1 DEF Contains
    <3>2. PICK k \in 1..n : s[k] = m /\ k # i
      <4>1. CASE j < i BY <1>1, <1>5, <3>1, <4>1
      <4>2. CASE ~(j < i) BY <1>1, <1>5, <3>1, <4>2
      <4>. QED BY <4>1, <4>2
    <3>. QED BY <1>1, <3>2 DEF Contains
  <2>2. ASSUME Contains(s, m), m # s[i] PROVE Contains(r, m)
    <3>1. PICK k \in 1..n : s[k] = m /\ k # i
      BY <2>2 DEF Contains
    <3>2. CASE k < i BY <1>1, <1>4, <1>5, <3>1, <3>2 DEF Contains
    <3>3. CASE k > i
      <4>1. k - 1 \in 1..(n - 1) /\ r[k - 1] = m
        BY <1>1, <1>5, <3>1, <3>3
      <4>. QED BY <1>4, <4>1 DEF Contains
    <3>. QED BY <1>1, <3>1, <3>2, <3>3
  <2>. QED BY <2>1, <2>2
<1>8. ASSUME NEW j \in 1..(n - 1), NEW k \in 1..(n - 1), r[j] = r[k] PROVE j = k
  <2>. DEFINE J == IF j < i THEN j ELSE j + 1
              K == IF k < i THEN k ELSE k + 1
  <2>1. J \in 1..n /\ K \in 1..n /\ s[J] = s[K]
    BY <1>1, <1>5, <1>8
  <2>2. J = K BY <1>1, <2>1
  <2>. QED BY <1>1, <2>2
<1>. QED BY <1>4, <1>6, <1>7, <1>8 DEF r

\* What is left when the oldest of distinct readers is taken out.
LEMMA TailReader ==
  ASSUME NEW S, NEW s \in Seq(S), s # <<>>,
         \A j, k \in DOMAIN s : s[j] = s[k] => j = k
  PROVE  /\ Head(s) \in S /\ Contains(s, Head(s)) /\ Tail(s) \in Seq(S)
         /\ \A m \in S : Contains(Tail(s), m) <=> Contains(s, m) /\ m # Head(s)
         /\ \A j, k \in DOMAIN Tail(s) : Tail(s)[j] = Tail(s)[k] => j = k
<1>1. /\ Len(s) \in Nat \ {0} /\ DOMAIN s = 1..Len(s)
      /\ Head(s) = s[1] /\ Head(s) \in S
      /\ Tail(s) \in Seq(S) /\ Len(Tail(s)) = Len(s) - 1
      /\ DOMAIN Tail(s) = 1..(Len(s) - 1)
      /\ \A j \in 1..(Len(s) - 1) : Tail(s)[j] = s[j + 1]
  OBVIOUS
<1>2. Contains(s, Head(s))
  BY <1>1 DEF Contains
<1>3. ASSUME NEW m \in S
      PROVE  Contains(Tail(s), m) <=> Contains(s, m) /\ m # Head(s)
  <2>1. ASSUME Contains(Tail(s), m) PROVE Contains(s, m) /\ m # Head(s)
    <3>1. PICK j \in 1..(Len(s) - 1) : s[j + 1] = m
      BY <1>1, <2>1 DEF Contains
    <3>2. j + 1 \in 1..Len(s) /\ j + 1 # 1
      BY <1>1
    <3>. QED BY <1>1, <3>1, <3>2 DEF Contains
  <2>2. ASSUME Contains(s, m), m # Head(s) PROVE Contains(Tail(s), m)
    <3>1. PICK j \in 1..Len(s) : s[j] = m
      BY <2>2 DEF Contains
    <3>2. j - 1 \in 1..(Len(s) - 1) /\ (j - 1) + 1 = j
      BY <1>1, <2>2, <3>1
    <3>3. Tail(s)[j - 1] = m
      BY <1>1, <3>1, <3>2
    <3>. QED BY <1>1, <3>2, <3>3 DEF Contains
  <2>. QED BY <2>1, <2>2
<1>4. ASSUME NEW j \in 1..(Len(s) - 1), NEW k \in 1..(Len(s) - 1),
             Tail(s)[j] = Tail(s)[k]
      PROVE  j = k
  <2>1. j + 1 \in DOMAIN s /\ k + 1 \in DOMAIN s /\ s[j + 1] = s[k + 1]
    BY <1>1, <1>4
  <2>. QED BY <1>1, <2>1
<1>. QED BY <1>1, <1>2, <1>3, <1>4

\* An object reads iff it is among the readers of which ToSet makes a set.
LEMMA ReadersAsSet ==
  ASSUME NEW S, NEW s \in Seq(S), NEW m
  PROVE  Contains(s, m) <=> m \in ToSet(s)
BY DEF Contains, ToSet

-----------------------------------------------------------------------------
(* The parts of the methods keep the type and HandshakeInv                 *)

\* The fields of the read loop are those of x.
SameLoop(x, y) ==
  /\ y.reading = x.reading /\ y.closed = x.closed
  /\ y.done = x.done /\ y.teardown = x.teardown

\* The frames the methods make have the type of the field.
LEMMA FrameType ==
  /\ NoFrame \in Frames /\ NoFrame.kind = "none"
  /\ \A n \in Nat : \A kind \in {"version", "setup"} :
       /\ Frame(kind, n >= 2) \in Frames /\ Frame(kind, n >= 2).kind = kind
       /\ Frame(kind, n >= 2) # NoFrame
BY DEF NoFrame, Frame, Frames

LEMMA NoWaiterTyped == 0 \in 0..MaxAttempts
BY MuxLinkAssumption

LEMMA FailWaiterKeeps ==
  ASSUME NEW x \in MuxType, HandshakeInv(x)
  PROVE  /\ FailWaiter(x) \in MuxType /\ HandshakeInv(FailWaiter(x))
         /\ SameLoop(x, FailWaiter(x)) /\ FailWaiter(x).pc = x.pc
<1>1. CASE x.waiter = 0
  BY <1>1 DEF FailWaiter, SameLoop
<1>2. CASE x.waiter # 0
  <2>. DEFINE y == [x EXCEPT !.waiter = 0, !.timer = FALSE, !.answer = "err"]
  <2>1. FailWaiter(x) = y
    BY <1>2 DEF FailWaiter
  <2>2. y \in MuxType
    BY NoWaiterTyped, Zenon DEF MuxType
  <2>3. /\ y.pc = x.pc /\ y.answer = "err" /\ y.frame = x.frame
        /\ y.atDevice = x.atDevice /\ SameLoop(x, y)
    BY DEF MuxType, SameLoop
  <2>. QED BY <2>1, <2>2, <2>3 DEF HandshakeInv
<1>. QED BY <1>1, <1>2

LEMMA DroppedKeeps ==
  ASSUME NEW x \in MuxType, HandshakeInv(x)
  PROVE  /\ Dropped(x) \in MuxType /\ HandshakeInv(Dropped(x))
         /\ Dropped(x).closed /\ ~Dropped(x).reading
         /\ Dropped(x).done = x.done /\ Dropped(x).teardown = x.teardown
         /\ Dropped(x).pc = x.pc
<1>. DEFINE w == FailWaiter(x)
            y == [w EXCEPT !.closed = TRUE, !.reading = FALSE]
<1>1. w \in MuxType /\ HandshakeInv(w) /\ SameLoop(x, w) /\ w.pc = x.pc
  BY FailWaiterKeeps
<1>2. Dropped(x) = y
  BY DEF Dropped
<1>. HIDE DEF w
<1>3. y \in MuxType
  BY <1>1, Zenon DEF MuxType
<1>4. /\ y.pc = w.pc /\ y.answer = w.answer /\ y.waiter = w.waiter
      /\ y.attempt = w.attempt /\ y.timer = w.timer /\ y.frame = w.frame
      /\ y.atDevice = w.atDevice /\ y.closed /\ ~y.reading
      /\ y.done = w.done /\ y.teardown = w.teardown
  BY <1>1 DEF MuxType
<1>. QED BY <1>1, <1>2, <1>3, <1>4 DEF HandshakeInv, SameLoop

LEMMA ClosedFieldsKeeps ==
  ASSUME NEW x \in MuxType, HandshakeInv(x)
  PROVE  /\ ClosedFields(x) \in MuxType /\ HandshakeInv(ClosedFields(x))
         /\ ClosedFields(x).closed /\ ~ClosedFields(x).reading
         /\ ~ClosedFields(x).done /\ ClosedFields(x).pc = x.pc
<1>. DEFINE w == FailWaiter(x)
            y == [w EXCEPT !.closed = TRUE, !.reading = FALSE, !.version = 0,
                           !.done = FALSE]
<1>1. w \in MuxType /\ HandshakeInv(w) /\ w.pc = x.pc
  BY FailWaiterKeeps
<1>2. ClosedFields(x) = y
  BY DEF ClosedFields
<1>. HIDE DEF w
<1>3. y \in MuxType
  <2>1. 0 \in 0..2
    OBVIOUS
  <2>. QED BY <1>1, <2>1, Zenon DEF MuxType
<1>4. /\ y.pc = w.pc /\ y.answer = w.answer /\ y.waiter = w.waiter
      /\ y.attempt = w.attempt /\ y.timer = w.timer /\ y.frame = w.frame
      /\ y.atDevice = w.atDevice /\ y.closed /\ ~y.reading /\ ~y.done
  BY <1>1 DEF MuxType
<1>. QED BY <1>1, <1>2, <1>3, <1>4 DEF HandshakeInv

LEMMA BeginKeeps ==
  ASSUME NEW x \in MuxType, NEW a \in 1..MaxAttempts
  PROVE  /\ Begin(x, a) \in MuxType /\ HandshakeInv(Begin(x, a))
         /\ SameLoop(x, Begin(x, a)) /\ Begin(x, a).pc = "version"
<1>. DEFINE f == Frame("version", x.version >= 2)
            y == [x EXCEPT !.pc = "version", !.attempt = a, !.waiter = a,
                           !.timer = TRUE, !.answer = "none", !.frame = f,
                           !.atDevice = FALSE]
<1>1. f \in Frames /\ f.kind = "version"
  BY FrameType DEF MuxType
<1>2. Begin(x, a) = y
  BY DEF Begin
<1>. HIDE DEF f
<1>3. y \in MuxType
  <2>1. a \in 0..MaxAttempts
    BY MuxLinkAssumption
  <2>. QED BY <1>1, <2>1, Zenon DEF MuxType
<1>4. /\ y.pc = "version" /\ y.frame = f /\ y.waiter = a /\ y.attempt = a
      /\ y.timer /\ ~y.atDevice /\ SameLoop(x, y)
  BY DEF MuxType, SameLoop
<1>. QED BY <1>1, <1>2, <1>3, <1>4 DEF HandshakeInv

LEMMA RetryKeeps ==
  ASSUME NEW x \in MuxType
  PROVE  /\ Retry(x) \in MuxType /\ HandshakeInv(Retry(x))
         /\ SameLoop(x, Retry(x)) /\ Retry(x).pc \in {"version", "failed"}
<1>. DEFINE y == [x EXCEPT !.waiter = 0, !.timer = FALSE, !.frame = NoFrame,
                           !.atDevice = FALSE]
<1>1. y \in MuxType /\ SameLoop(x, y) /\ y.frame = NoFrame /\ ~y.atDevice
  <2>1. y \in MuxType
    BY FrameType, NoWaiterTyped, Zenon DEF MuxType
  <2>2. SameLoop(x, y) /\ y.frame = NoFrame /\ ~y.atDevice
    BY DEF MuxType, SameLoop
  <2>. QED BY <2>1, <2>2
<1>2. CASE x.attempt < MaxAttempts
  <2>1. x.attempt + 1 \in 1..MaxAttempts /\ Retry(x) = Begin(y, x.attempt + 1)
    BY <1>2, MuxLinkAssumption DEF Retry, MuxType
  <2>. HIDE DEF y
  <2>. QED BY <1>1, <2>1, BeginKeeps DEF SameLoop
<1>3. CASE ~(x.attempt < MaxAttempts)
  <2>1. Retry(x) = [y EXCEPT !.pc = "failed", !.answer = "none"]
    BY <1>3 DEF Retry
  <2>. HIDE DEF y
  <2>. DEFINE z == [y EXCEPT !.pc = "failed", !.answer = "none"]
  <2>2. z \in MuxType
    BY <1>1 DEF MuxType
  <2>3. z.pc = "failed" /\ z.frame = NoFrame /\ ~z.atDevice /\ SameLoop(x, z)
    BY <1>1 DEF MuxType, SameLoop
  <2>. QED BY <2>1, <2>2, <2>3 DEF HandshakeInv
<1>. QED BY <1>2, <1>3

LEMMA HandleVersionKeeps ==
  ASSUME NEW x \in MuxType, HandshakeInv(x), NEW major \in 0..2
  PROVE  /\ HandleVersion(x, major) \in MuxType
         /\ HandshakeInv(HandleVersion(x, major))
         /\ SameLoop(x, HandleVersion(x, major))
         /\ HandleVersion(x, major).pc = x.pc
<1>1. CASE x.waiter = 0
  BY <1>1 DEF HandleVersion, SameLoop
<1>2. CASE x.waiter # 0 /\ major = 0
  BY <1>2, FailWaiterKeeps DEF HandleVersion
<1>3. CASE x.waiter # 0 /\ major # 0
  <2>. DEFINE v == IF major = 1 THEN "v1" ELSE "v2"
              y == [x EXCEPT !.waiter = 0, !.timer = FALSE, !.version = major,
                             !.answer = v]
  <2>1. HandleVersion(x, major) = y
    BY <1>3 DEF HandleVersion
  <2>2. v \in {"v1", "v2"}
    OBVIOUS
  <2>. HIDE DEF v
  <2>3. y \in MuxType
    BY <2>2, NoWaiterTyped, Zenon DEF MuxType
  <2>4. /\ y.pc = x.pc /\ y.answer # "none" /\ y.frame = x.frame
        /\ y.atDevice = x.atDevice /\ SameLoop(x, y)
    BY <2>2 DEF MuxType, SameLoop
  <2>. QED BY <2>1, <2>3, <2>4 DEF HandshakeInv
<1>. QED BY <1>1, <1>2, <1>3

-----------------------------------------------------------------------------
(* Steps of one object                                                     *)

\* The types of the device's variables.
DeviceType ==
  /\ plugged \in BOOLEAN /\ opened \in BOOLEAN /\ claimed \in BOOLEAN
  /\ toHost \in Seq(0..2) /\ devMode \in {"fresh", "version", "v2"}

\* A step that gives m the fields e and leaves the reads of the others alone.
LEMMA Update ==
  ASSUME LinkInv, DeviceType', NEW m \in Muxes, NEW e \in MuxType,
         mux' = [mux EXCEPT ![m] = e],
         HandshakeInv(e), LoopInv(e, Contains(readers', m)),
         readers' \in Seq(Muxes), OneLoop', readers' # <<>> => opened' /\ claimed',
         \A k \in Muxes \ {m} : Contains(readers', k) <=> Contains(readers, k)
  PROVE  LinkInv'
<1>1. mux \in [Muxes -> MuxType]
  BY DEF LinkInv, TypeOK
<1>2. mux' \in [Muxes -> MuxType]
  BY <1>1
<1>3. mux'[m] = e /\ \A k \in Muxes \ {m} : mux'[k] = mux[k]
  BY <1>1
<1>4. TypeOK'
  BY <1>2 DEF TypeOK, DeviceType
<1>5. \A k \in Muxes : HandshakeInv(mux'[k])
  <2>. TAKE k \in Muxes
  <2>1. CASE k = m BY <1>3, <2>1
  <2>2. CASE k # m
    <3>1. mux'[k] = mux[k] BY <1>3, <2>2
    <3>2. HandshakeInv(mux[k]) BY DEF LinkInv
    <3>. QED BY <3>1, <3>2
  <2>. QED BY <2>1, <2>2
<1>6. \A k \in Muxes : LoopInv(mux'[k], Contains(readers', k))
  <2>. TAKE k \in Muxes
  <2>1. CASE k = m BY <1>3, <2>1
  <2>2. CASE k # m
    <3>1. mux'[k] = mux[k] BY <1>3, <2>2
    <3>2. LoopInv(mux[k], Contains(readers, k)) BY DEF LinkInv
    <3>3. Contains(readers', k) <=> Contains(readers, k) BY <2>2
    <3>. QED BY <3>1, <3>2, <3>3 DEF LoopInv
  <2>. QED BY <2>1, <2>2
<1>. QED BY <1>4, <1>5, <1>6 DEF LinkInv

\* The same, with every read left alone.
LEMMA UpdateInPlace ==
  ASSUME LinkInv, DeviceType', NEW m \in Muxes, NEW e \in MuxType,
         mux' = [mux EXCEPT ![m] = e], UNCHANGED <<readers, opened, claimed>>,
         HandshakeInv(e), LoopInv(e, Contains(readers, m))
  PROVE  LinkInv'
<1>1. readers' \in Seq(Muxes) /\ (readers' # <<>> => opened' /\ claimed')
  BY DEF LinkInv, TypeOK
<1>2. OneLoop'
  BY DEF LinkInv, OneLoop
<1>. QED BY <1>1, <1>2, Update

\* The same, with m's read loop started.
LEMMA UpdateStart ==
  ASSUME LinkInv, DeviceType', NEW m \in Muxes,
         mux[m].pc \in {"new", "opening", "claiming", "done", "failed"},
         ~Contains(readers, m), opened', claimed',
         mux' = [mux EXCEPT ![m] = StartLoop(@)], readers' = Append(readers, m)
  PROVE  LinkInv'
<1>. DEFINE x == mux[m]
            e == [x EXCEPT !.pc = "opened", !.bound = TRUE, !.reading = TRUE,
                           !.closed = FALSE]
<1>1. mux \in [Muxes -> MuxType] /\ readers \in Seq(Muxes) /\ x \in MuxType
  BY DEF LinkInv, TypeOK
<1>2. HandshakeInv(x)
  BY DEF LinkInv
<1>3. mux' = [mux EXCEPT ![m] = e]
  BY DEF StartLoop
<1>. HIDE DEF x
<1>4. e \in MuxType
  BY <1>1, Zenon DEF MuxType
<1>5. /\ e.pc = "opened" /\ e.reading /\ ~e.closed /\ e.frame = x.frame
      /\ e.atDevice = x.atDevice
  BY <1>1 DEF MuxType
<1>6. x.frame = NoFrame
  BY <1>1, <1>2 DEF MuxType, Frames, HandshakeInv, x
<1>7. HandshakeInv(e)
  BY <1>2, <1>5, <1>6 DEF HandshakeInv
<1>8. /\ readers' \in Seq(Muxes) /\ Contains(readers', m)
      /\ \A k \in Muxes \ {m} : Contains(readers', k) <=> Contains(readers, k)
      /\ OneLoop'
  BY <1>1, AppendReader DEF LinkInv, OneLoop
<1>9. LoopInv(e, Contains(readers', m))
  BY <1>5, <1>8 DEF LoopInv
<1>. QED BY <1>3, <1>4, <1>7, <1>8, <1>9, Update

\* What the invariant says of one object.
LEMMA OfObject ==
  ASSUME LinkInv, NEW m \in Muxes
  PROVE  /\ mux \in [Muxes -> MuxType] /\ mux[m] \in MuxType
         /\ HandshakeInv(mux[m]) /\ LoopInv(mux[m], Contains(readers, m))
         /\ readers \in Seq(Muxes) /\ (Contains(readers, m) => opened /\ claimed)
<1>1. /\ mux \in [Muxes -> MuxType] /\ readers \in Seq(Muxes)
      /\ HandshakeInv(mux[m]) /\ LoopInv(mux[m], Contains(readers, m))
  BY DEF LinkInv, TypeOK
<1>2. ASSUME Contains(readers, m) PROVE readers # <<>>
  BY <1>1, <1>2 DEF Contains
<1>. QED BY <1>1, <1>2 DEF LinkInv

\* open() waits: the object has no read, and goes to pc.
LEMMA UpdateOpening ==
  ASSUME LinkInv, DeviceType', NEW m \in Muxes, NEW pc,
         pc \in {"opening", "claiming", "failed"}, ~Contains(readers, m),
         mux[m].pc \in {"new", "opening", "claiming", "done", "failed"},
         mux' = [mux EXCEPT ![m].pc = pc], UNCHANGED readers,
         readers # <<>> => opened' /\ claimed'
  PROVE  LinkInv'
<1>. DEFINE x == mux[m]
            e == [x EXCEPT !.pc = pc]
<1>1. /\ x \in MuxType /\ HandshakeInv(x) /\ readers \in Seq(Muxes)
      /\ LoopInv(x, Contains(readers, m))
  BY OfObject
<1>2. mux' = [mux EXCEPT ![m] = e]
  OBVIOUS
<1>. HIDE DEF x
<1>3. e \in MuxType
  BY <1>1 DEF MuxType
<1>4. /\ e.pc = pc /\ e.reading = x.reading /\ e.closed = x.closed
      /\ e.done = x.done /\ e.frame = x.frame /\ e.atDevice = x.atDevice
  BY <1>1 DEF MuxType
<1>5. x.frame = NoFrame
  BY <1>1 DEF MuxType, Frames, HandshakeInv, x
<1>6. HandshakeInv(e)
  BY <1>1, <1>4, <1>5 DEF HandshakeInv
<1>7. LoopInv(e, Contains(readers', m))
  BY <1>1, <1>4 DEF LoopInv
<1>8. OneLoop'
  BY DEF LinkInv, OneLoop
<1>. QED BY <1>1, <1>2, <1>3, <1>6, <1>7, <1>8, Update

\* The end of openUsb() after device.open().
LEMMA ClaimStep ==
  ASSUME LinkInv, DeviceType', NEW m \in Muxes, Claim(m),
         mux[m].pc \in {"new", "opening", "claiming", "done", "failed"},
         ~Contains(readers, m), opened', claimed' = claimed
  PROVE  LinkInv'
<1>1. CASE claimed
  BY <1>1, UpdateStart DEF Claim
<1>2. CASE ~claimed
  <2>1. readers = <<>> \/ claimed
    BY DEF LinkInv
  <2>. QED BY <1>2, <2>1, UpdateOpening DEF Claim
<1>. QED BY <1>1, <1>2

LEMMA OpenUsbStep ==
  ASSUME LinkInv, DeviceType', NEW m \in Muxes, OpenUsb(m)
  PROVE  LinkInv'
<1>. DEFINE x == mux[m]
<1>1. /\ x.pc \in {"new", "done", "failed"}
      /\ x.pc # "new" => x.teardown = "none"
      /\ UNCHANGED <<opened, claimed>>
  BY DEF OpenUsb, Openable, usbVars
<1>2. /\ mux \in [Muxes -> MuxType] /\ x \in MuxType
      /\ HandshakeInv(x) /\ LoopInv(x, Contains(readers, m))
      /\ Contains(readers, m) => opened
  BY OfObject
<1>3. CASE x.reading
  <2>. DEFINE e == [x EXCEPT !.pc = "opened"]
  <2>1. mux' = [mux EXCEPT ![m] = e] /\ UNCHANGED readers
    BY <1>3 DEF OpenUsb
  <2>. HIDE DEF x
  <2>2. e \in MuxType
    BY <1>2 DEF MuxType
  <2>3. /\ e.pc = "opened" /\ e.frame = x.frame /\ e.atDevice = x.atDevice
        /\ SameLoop(x, e)
    BY <1>2 DEF MuxType, SameLoop
  <2>4. x.frame = NoFrame
    BY <1>1, <1>2 DEF MuxType, Frames, HandshakeInv
  <2>5. HandshakeInv(e)
    BY <1>2, <2>3, <2>4 DEF HandshakeInv
  <2>6. LoopInv(e, Contains(readers, m))
    BY <1>2, <1>3, <2>3 DEF LoopInv, SameLoop
  <2>. QED BY <1>1, <2>1, <2>2, <2>5, <2>6, UpdateInPlace
<1>4. CASE ~x.reading
  <2>1. ~Contains(readers, m)
    BY <1>1, <1>2, <1>4 DEF LoopInv
  <2>2. CASE ~opened
    <3>1. readers = <<>> \/ opened
      BY DEF LinkInv
    <3>. QED BY <1>1, <1>4, <2>1, <2>2, <3>1, UpdateOpening DEF OpenUsb
  <2>3. CASE opened
    BY <1>1, <1>4, <2>1, <2>3, ClaimStep DEF OpenUsb
  <2>. QED BY <2>2, <2>3
<1>. QED BY <1>3, <1>4

LEMMA OpeningSteps ==
  ASSUME LinkInv, DeviceType', NEW m \in Muxes,
         Opened(m) \/ Claimed(m) \/ OpenFails(m)
  PROVE  LinkInv'
<1>1. /\ mux[m].pc \in {"opening", "claiming"}
      /\ ~Contains(readers, m)
  BY OfObject DEF Opened, Claimed, OpenFails, LoopInv
<1>2. CASE Opened(m)
  BY <1>1, <1>2, ClaimStep DEF Opened
<1>3. CASE Claimed(m)
  BY <1>1, <1>3, UpdateStart DEF Claimed
<1>4. CASE OpenFails(m)
  <2>1. readers # <<>> => opened' /\ claimed'
    BY <1>4 DEF LinkInv, OpenFails, usbVars
  <2>. QED BY <1>1, <1>4, <2>1, UpdateOpening DEF OpenFails
<1>. QED BY <1>2, <1>3, <1>4

\* A step of handshake() leaves the fields of the read loop alone, but for
\* `handshakeDone`, which it sets while the loop runs.
LEMMA HandshakeUpdate ==
  ASSUME LinkInv, DeviceType', NEW m \in Muxes, NEW e \in MuxType,
         mux' = [mux EXCEPT ![m] = e], UNCHANGED <<readers, opened, claimed>>,
         HandshakeInv(e), e.reading = mux[m].reading, e.closed = mux[m].closed,
         e.teardown = mux[m].teardown,
         e.pc \in {"version", "answer", "setup", "done"} /\ ~e.closed =>
           mux[m].reading,
         e.pc \notin {"new", "opening", "claiming", "opened"},
         e.done => mux[m].done \/ e.pc = "done"
  PROVE  LinkInv'
<1>1. LoopInv(mux[m], Contains(readers, m))
  BY OfObject
<1>2. LoopInv(e, Contains(readers, m))
  BY <1>1 DEF LoopInv
<1>. QED BY <1>2, UpdateInPlace

LEMMA HandshakeStep ==
  ASSUME LinkInv, DeviceType', NEW m \in Muxes, Handshake(m)
  PROVE  LinkInv'
<1>. DEFINE x == mux[m]
<1>1. /\ x.pc = "opened" /\ x \in MuxType /\ HandshakeInv(x)
      /\ ~x.closed => x.reading
      /\ UNCHANGED <<readers, opened, claimed>>
  BY OfObject DEF Handshake, usbVars, LoopInv
<1>2. x.frame = NoFrame /\ ~x.atDevice
  BY <1>1 DEF MuxType, Frames, HandshakeInv
<1>3. ASSUME NEW pc \in {"done", "failed"}, mux' = [mux EXCEPT ![m].pc = pc],
             pc = "done" /\ ~x.closed => x.reading
      PROVE  LinkInv'
  <2>. DEFINE e == [x EXCEPT !.pc = pc]
  <2>1. mux' = [mux EXCEPT ![m] = e]
    BY <1>3
  <2>. HIDE DEF x
  <2>2. e \in MuxType
    BY <1>1 DEF MuxType
  <2>3. /\ e.pc = pc /\ e.frame = x.frame /\ e.atDevice = x.atDevice
        /\ SameLoop(x, e)
    BY <1>1 DEF MuxType, SameLoop
  <2>4. HandshakeInv(e)
    BY <1>2, <2>3 DEF HandshakeInv
  <2>. HIDE DEF e
  <2>. QED BY <1>1, <1>3, <2>1, <2>2, <2>3, <2>4, HandshakeUpdate DEF SameLoop, x
<1>4. CASE x.done
  BY <1>1, <1>3, <1>4 DEF Handshake
<1>5. CASE ~x.done /\ x.closed
  BY <1>3, <1>5 DEF Handshake
<1>6. CASE ~x.done /\ ~x.closed
  <2>1. 1 \in 1..MaxAttempts
    BY MuxLinkAssumption
  <2>2. mux' = [mux EXCEPT ![m] = Begin(x, 1)]
    BY <1>6 DEF Handshake
  <2>3. /\ Begin(x, 1) \in MuxType /\ HandshakeInv(Begin(x, 1))
        /\ SameLoop(x, Begin(x, 1)) /\ Begin(x, 1).pc = "version"
    BY <1>1, <2>1, BeginKeeps
  <2>. HIDE DEF x
  <2>. QED BY <1>1, <1>6, <2>2, <2>3, HandshakeUpdate DEF SameLoop, x
<1>. QED BY <1>4, <1>5, <1>6

LEMMA RetrySteps ==
  ASSUME LinkInv, DeviceType', NEW m \in Muxes, SendFails(m) \/ AnswerFails(m)
  PROVE  LinkInv'
<1>. DEFINE x == mux[m]
<1>1. x \in MuxType /\ HandshakeInv(x) /\ LoopInv(x, Contains(readers, m))
  BY OfObject
<1>2. x.pc \in {"version", "setup", "answer"}
  BY <1>1 DEF SendFails, AnswerFails, MuxType, Frames, HandshakeInv
<1>3. /\ mux' = [mux EXCEPT ![m] = Retry(x)]
      /\ UNCHANGED <<readers, opened, claimed>>
  BY DEF SendFails, AnswerFails, usbVars
<1>4. ~x.closed => x.reading
  BY <1>1, <1>2 DEF LoopInv
<1>. QED BY <1>1, <1>3, <1>4, RetryKeeps, HandshakeUpdate DEF SameLoop

LEMMA DeliverStep ==
  ASSUME LinkInv, DeviceType', NEW m \in Muxes, Deliver(m)
  PROVE  LinkInv'
<1>. DEFINE x == mux[m]
            e == [x EXCEPT !.atDevice = TRUE]
<1>1. /\ x \in MuxType /\ HandshakeInv(x) /\ LoopInv(x, Contains(readers, m))
      /\ x.frame # NoFrame /\ mux' = [mux EXCEPT ![m] = e]
      /\ UNCHANGED <<readers, opened, claimed>>
  BY OfObject DEF Deliver, usbVars
<1>. HIDE DEF x
<1>2. e \in MuxType
  BY <1>1, Zenon DEF MuxType
<1>3. /\ e.pc = x.pc /\ e.answer = x.answer /\ e.waiter = x.waiter
      /\ e.attempt = x.attempt /\ e.timer = x.timer /\ e.frame = x.frame
      /\ SameLoop(x, e)
  BY <1>1 DEF MuxType, SameLoop
<1>4. HandshakeInv(e) /\ LoopInv(e, Contains(readers, m))
  BY <1>1, <1>3 DEF HandshakeInv, LoopInv, SameLoop
<1>. QED BY <1>1, <1>2, <1>4, UpdateInPlace

LEMMA SentStep ==
  ASSUME LinkInv, DeviceType', NEW m \in Muxes, Sent(m)
  PROVE  LinkInv'
<1>. DEFINE x == mux[m]
            y == [x EXCEPT !.frame = NoFrame, !.atDevice = FALSE]
<1>1. /\ x \in MuxType /\ HandshakeInv(x) /\ LoopInv(x, Contains(readers, m))
      /\ UNCHANGED <<readers, opened, claimed>> /\ x.atDevice
      /\ mux' = [mux EXCEPT ![m] =
                  IF x.frame.kind = "version" THEN [y EXCEPT !.pc = "answer"]
                  ELSE [y EXCEPT !.pc = "done", !.done = TRUE]]
  BY OfObject DEF Sent, usbVars
<1>2. /\ x.frame.kind = x.pc /\ x.pc \in {"version", "setup"}
      /\ ~x.closed => x.reading
  BY <1>1 DEF HandshakeInv, LoopInv, MuxType, Frames
<1>. HIDE DEF x
<1>3. /\ y \in MuxType
  BY <1>1, FrameType, Zenon DEF MuxType
<1>4. /\ y.answer = x.answer /\ y.waiter = x.waiter
      /\ y.attempt = x.attempt /\ y.timer = x.timer /\ y.frame = NoFrame
      /\ ~y.atDevice /\ SameLoop(x, y)
  BY <1>1 DEF MuxType, SameLoop
<1>. HIDE DEF y
<1>5. CASE x.pc = "version"
  <2>. DEFINE e == [y EXCEPT !.pc = "answer"]
  <2>1. e \in MuxType
    BY <1>3 DEF MuxType
  <2>2. /\ e.pc = "answer" /\ e.answer = y.answer /\ e.waiter = y.waiter
        /\ e.attempt = y.attempt /\ e.timer = y.timer /\ e.frame = y.frame
        /\ e.atDevice = y.atDevice /\ SameLoop(y, e)
    BY <1>3 DEF MuxType, SameLoop
  <2>3. mux' = [mux EXCEPT ![m] = e]
    BY <1>1, <1>2, <1>5
  <2>. HIDE DEF e
  <2>4. HandshakeInv(e)
    BY <1>1, <1>4, <1>5, <2>2 DEF HandshakeInv
  <2>. QED BY <1>1, <1>2, <1>4, <2>1, <2>2, <2>3, <2>4, HandshakeUpdate, ZenonT(60)
           DEF SameLoop, x
<1>6. CASE x.pc = "setup"
  <2>. DEFINE e == [y EXCEPT !.pc = "done", !.done = TRUE]
  <2>1. e \in MuxType
    BY <1>3, Zenon DEF MuxType
  <2>2. /\ e.pc = "done" /\ e.frame = y.frame /\ e.atDevice = y.atDevice
        /\ e.reading = y.reading /\ e.closed = y.closed
        /\ e.teardown = y.teardown
    BY <1>3 DEF MuxType
  <2>3. mux' = [mux EXCEPT ![m] = e]
    BY <1>1, <1>2, <1>6
  <2>. HIDE DEF e
  <2>4. HandshakeInv(e)
    BY <1>4, <2>2 DEF HandshakeInv
  <2>. QED BY <1>1, <1>2, <1>4, <2>1, <2>2, <2>3, <2>4, HandshakeUpdate, ZenonT(60)
           DEF SameLoop, x
<1>. QED BY <1>2, <1>5, <1>6

LEMMA AnsweredStep ==
  ASSUME LinkInv, DeviceType', NEW m \in Muxes, Answered(m)
  PROVE  LinkInv'
<1>. DEFINE x == mux[m]
            f == Frame("setup", x.version >= 2)
<1>1. /\ x \in MuxType /\ HandshakeInv(x) /\ LoopInv(x, Contains(readers, m))
      /\ UNCHANGED <<readers, opened, claimed>> /\ x.pc = "answer"
      /\ mux' = [mux EXCEPT ![m] =
                  IF x.answer = "v2" THEN [x EXCEPT !.pc = "setup", !.frame = f]
                  ELSE [x EXCEPT !.pc = "done", !.done = TRUE]]
  BY OfObject DEF Answered, usbVars
<1>2. /\ x.frame = NoFrame /\ ~x.atDevice /\ (~x.closed => x.reading)
  BY <1>1 DEF HandshakeInv, LoopInv, MuxType, Frames
<1>3. f \in Frames /\ f.kind = "setup"
  BY <1>1, FrameType DEF MuxType
<1>. HIDE DEF x, f
<1>4. CASE x.answer = "v2"
  <2>. DEFINE e == [x EXCEPT !.pc = "setup", !.frame = f]
  <2>1. e \in MuxType
    BY <1>1, <1>3 DEF MuxType
  <2>2. /\ e.pc = "setup" /\ e.frame = f /\ e.atDevice = x.atDevice
        /\ SameLoop(x, e)
    BY <1>1 DEF MuxType, SameLoop
  <2>3. mux' = [mux EXCEPT ![m] = e]
    BY <1>1, <1>4
  <2>. HIDE DEF e
  <2>4. HandshakeInv(e)
    BY <1>2, <1>3, <2>2 DEF HandshakeInv
  <2>. QED BY <1>1, <1>2, <2>1, <2>2, <2>3, <2>4, HandshakeUpdate
           DEF SameLoop, x
<1>5. CASE x.answer # "v2"
  <2>. DEFINE e == [x EXCEPT !.pc = "done", !.done = TRUE]
  <2>1. e \in MuxType
    BY <1>1, Zenon DEF MuxType
  <2>2. /\ e.pc = "done" /\ e.frame = x.frame /\ e.atDevice = x.atDevice
        /\ e.reading = x.reading /\ e.closed = x.closed
        /\ e.teardown = x.teardown
    BY <1>1 DEF MuxType
  <2>3. mux' = [mux EXCEPT ![m] = e]
    BY <1>1, <1>5
  <2>. HIDE DEF e
  <2>4. HandshakeInv(e)
    BY <1>2, <2>2 DEF HandshakeInv
  <2>. QED BY <1>1, <1>2, <2>1, <2>2, <2>3, <2>4, HandshakeUpdate DEF x
<1>. QED BY <1>4, <1>5

LEMMA HandshakeTimeoutStep ==
  ASSUME LinkInv, DeviceType', NEW m \in Muxes, HandshakeTimeout(m)
  PROVE  LinkInv'
<1>. DEFINE x == mux[m]
            e == FailWaiter(x)
<1>1. /\ x \in MuxType /\ HandshakeInv(x) /\ LoopInv(x, Contains(readers, m))
      /\ mux' = [mux EXCEPT ![m] = e] /\ UNCHANGED <<readers, opened, claimed>>
  BY OfObject DEF HandshakeTimeout, usbVars
<1>2. e \in MuxType /\ HandshakeInv(e) /\ SameLoop(x, e) /\ e.pc = x.pc
  BY <1>1, FailWaiterKeeps
<1>3. LoopInv(e, Contains(readers, m))
  BY <1>1, <1>2 DEF LoopInv, SameLoop
<1>. HIDE DEF e
<1>. QED BY <1>1, <1>2, <1>3, UpdateInPlace

-----------------------------------------------------------------------------
(* Steps of the read loop, and the ends of the link                        *)

LEMMA ReadStep ==
  ASSUME LinkInv, DeviceType', Read
  PROVE  LinkInv'
<1>. DEFINE m == Head(readers)
            x == mux[m]
<1>1. readers \in Seq(Muxes) /\ readers # <<>> /\ UNCHANGED <<opened, claimed>>
  BY DEF LinkInv, TypeOK, Read, usbVars
<1>2. /\ m \in Muxes /\ Contains(readers, m) /\ Tail(readers) \in Seq(Muxes)
      /\ \A k \in Muxes :
           Contains(Tail(readers), k) <=> Contains(readers, k) /\ k # m
      /\ \A j, k \in DOMAIN Tail(readers) :
           Tail(readers)[j] = Tail(readers)[k] => j = k
  BY <1>1, TailReader DEF LinkInv, OneLoop
<1>3. /\ mux \in [Muxes -> MuxType] /\ x \in MuxType /\ HandshakeInv(x)
      /\ LoopInv(x, Contains(readers, m)) /\ opened /\ claimed
  BY <1>2, OfObject
<1>. HIDE DEF m
<1>4. CASE x.reading /\ ~x.closed
  <2>. DEFINE major == Head(toHost)
              e == HandleVersion(x, major)
  <2>1. major \in 0..2
    BY DEF LinkInv, TypeOK, Read
  <2>2. mux' = [mux EXCEPT ![m] = e] /\ readers' = Append(Tail(readers), m)
    BY <1>4 DEF Read, m
  <2>. HIDE DEF x, major
  <2>3. e \in MuxType /\ HandshakeInv(e) /\ SameLoop(x, e) /\ e.pc = x.pc
    BY <1>3, <2>1, HandleVersionKeeps
  <2>4. /\ readers' \in Seq(Muxes) /\ OneLoop'
        /\ \A k \in Muxes : Contains(readers', k) <=> Contains(readers, k)
    <3>. DEFINE q == Tail(readers)
    <3>1. q \in Seq(Muxes) /\ ~Contains(q, m)
      BY <1>2
    <3>2. \A j, k \in DOMAIN q : q[j] = q[k] => j = k
      BY <1>2
    <3>3. readers' = Append(q, m)
      BY <2>2
    <3>. HIDE DEF q
    <3>4. Append(q, m) \in Seq(Muxes)
      BY <1>2, <3>1
    <3>5. \A j, k \in DOMAIN Append(q, m) : Append(q, m)[j] = Append(q, m)[k] => j = k
      BY <1>2, <3>1, <3>2, AppendReader
    <3>6. \A k \in Muxes : Contains(Append(q, m), k) <=> Contains(q, k) \/ k = m
      BY <1>2, <3>1, AppendReader
    <3>7. \A k \in Muxes : Contains(q, k) <=> Contains(readers, k) /\ k # m
      BY <1>2 DEF q
    <3>. QED BY <1>2, <3>3, <3>4, <3>5, <3>6, <3>7 DEF OneLoop
  <2>5. LoopInv(e, Contains(readers', m))
    BY <1>2, <1>3, <2>3, <2>4 DEF LoopInv, SameLoop
  <2>. HIDE DEF e
  <2>. QED BY <1>1, <1>2, <1>3, <2>2, <2>3, <2>4, <2>5, Update
<1>5. CASE ~(x.reading /\ ~x.closed)
  <2>1. readers' = Tail(readers) /\ mux' = mux
    BY <1>5 DEF Read, m
  <2>2. LoopInv(x, Contains(readers', m))
    BY <1>2, <1>3, <1>5, <2>1 DEF LoopInv
  <2>3. mux' = [mux EXCEPT ![m] = x]
    BY <1>3, <2>1
  <2>4. OneLoop' /\ \A k \in Muxes \ {m} :
                       Contains(readers', k) <=> Contains(readers, k)
    BY <1>2, <2>1 DEF OneLoop
  <2>. HIDE DEF x
  <2>. QED BY <1>1, <1>2, <1>3, <2>1, <2>2, <2>3, <2>4, Update
<1>. QED BY <1>4, <1>5

\* An object whose transfers are all gone when the objects of S lost the link.
LEMMA DropKeeps ==
  ASSUME LinkInv, NEW S, NEW m \in Muxes,
         m \in S \/ ~mux[m].reading
  PROVE  /\ Drop(S)[m] \in MuxType /\ HandshakeInv(Drop(S)[m])
         /\ LoopInv(Drop(S)[m], FALSE)
<1>. DEFINE x == mux[m]
<1>1. x \in MuxType /\ HandshakeInv(x) /\ LoopInv(x, Contains(readers, m))
  BY OfObject
<1>2. CASE x.reading
  <2>1. Drop(S)[m] = Dropped(x)
    BY <1>1, <1>2 DEF Drop, LoopInv
  <2>. HIDE DEF x
  <2>. QED BY <1>1, <2>1, DroppedKeeps DEF LoopInv
<1>3. CASE ~x.reading
  <2>1. Drop(S)[m] = x
    BY <1>3 DEF Drop
  <2>2. LoopInv(x, FALSE)
    BY <1>1, <1>3 DEF LoopInv
  <2>. QED BY <1>1, <2>1, <2>2
<1>. QED BY <1>2, <1>3

\* Every transfer is cancelled; m may go on with its close().
LEMMA AllLost ==
  ASSUME LinkInv, DeviceType', readers' = <<>>,
         NEW S, \A k \in Muxes : k \in S \/ ~mux[k].reading,
         mux' \in [Muxes -> MuxType],
         \A k \in Muxes : \E v \in {"none", "release", "close"} :
            mux'[k] = [Drop(S)[k] EXCEPT !.teardown = v]
  PROVE  LinkInv'
<1>1. ASSUME NEW k \in Muxes
      PROVE  HandshakeInv(mux'[k]) /\ LoopInv(mux'[k], FALSE)
  <2>. DEFINE d == Drop(S)[k]
  <2>1. d \in MuxType /\ HandshakeInv(d) /\ LoopInv(d, FALSE)
    BY DropKeeps
  <2>2. PICK v \in {"none", "release", "close"} :
          mux'[k] = [d EXCEPT !.teardown = v]
    OBVIOUS
  <2>. HIDE DEF d
  <2>. DEFINE e == [d EXCEPT !.teardown = v]
  <2>3. /\ e.pc = d.pc /\ e.answer = d.answer /\ e.waiter = d.waiter
        /\ e.attempt = d.attempt /\ e.timer = d.timer /\ e.frame = d.frame
        /\ e.atDevice = d.atDevice /\ e.reading = d.reading
        /\ e.closed = d.closed /\ e.done = d.done
    BY <2>1 DEF MuxType
  <2>. QED BY <2>1, <2>2, <2>3 DEF HandshakeInv, LoopInv
<1>2. readers' \in Seq(Muxes) /\ OneLoop'
      /\ \A k \in Muxes : ~Contains(readers', k)
  BY DEF OneLoop, Contains
<1>3. \A k \in Muxes : LoopInv(mux'[k], Contains(readers', k))
  BY <1>1, <1>2 DEF LoopInv
<1>4. TypeOK'
  BY <1>2 DEF TypeOK, DeviceType
<1>. QED BY <1>1, <1>2, <1>3, <1>4 DEF LinkInv

\* The objects that read are among the readers.
LEMMA ReadingReaders ==
  ASSUME LinkInv
  PROVE  \A k \in Muxes : k \in ToSet(readers) \/ ~mux[k].reading
<1>. TAKE k \in Muxes
<1>1. LoopInv(mux[k], Contains(readers, k)) /\ readers \in Seq(Muxes)
  BY OfObject
<1>. QED BY <1>1, ReadersAsSet DEF LoopInv

LEMMA UnplugStep ==
  ASSUME LinkInv, DeviceType', Unplug
  PROVE  LinkInv'
<1>1. \A k \in Muxes : Drop(Muxes)[k] \in MuxType
  BY DropKeeps
<1>2. mux' = Drop(Muxes) /\ readers' = <<>>
  BY DEF Unplug
<1>3. mux' \in [Muxes -> MuxType]
  BY <1>1, <1>2 DEF Drop
<1>4. \A k \in Muxes : mux'[k] = [Drop(Muxes)[k] EXCEPT !.teardown =
                                   Drop(Muxes)[k].teardown]
  BY <1>1, <1>2 DEF MuxType
<1>5. \A k \in Muxes : Drop(Muxes)[k].teardown \in {"none", "release", "close"}
  BY <1>1 DEF MuxType
<1>. QED BY <1>2, <1>3, <1>4, <1>5, AllLost

LEMMA TeardownSteps ==
  ASSUME LinkInv, DeviceType', NEW m \in Muxes, Released(m) \/ DeviceClosed(m)
  PROVE  LinkInv'
<1>. DEFINE d == Drop(ToSet(readers))
<1>1. \A k \in Muxes : d[k] \in MuxType
  BY ReadingReaders, DropKeeps
<1>2. d \in [Muxes -> MuxType]
  BY <1>1 DEF Drop
<1>3. PICK v \in {"none", "close"} :
        mux' = [d EXCEPT ![m].teardown = v] /\ readers' = <<>>
  BY DEF Released, DeviceClosed
<1>. HIDE DEF d
<1>4. ASSUME NEW k \in Muxes
      PROVE  /\ mux'[k] \in MuxType
             /\ \E w \in {"none", "release", "close"} :
                  mux'[k] = [d[k] EXCEPT !.teardown = w]
  <2>1. CASE k = m
    <3>1. mux'[k] = [d[k] EXCEPT !.teardown = v]
      BY <1>2, <1>3, <2>1
    <3>. QED BY <1>1, <3>1 DEF MuxType
  <2>2. CASE k # m
    <3>1. mux'[k] = d[k]
      BY <1>2, <1>3, <2>2
    <3>2. d[k].teardown \in {"none", "release", "close"}
      BY <1>1 DEF MuxType
    <3>3. d[k] = [d[k] EXCEPT !.teardown = d[k].teardown]
      BY <1>1 DEF MuxType
    <3>. QED BY <1>1, <3>1, <3>2, <3>3
  <2>. QED BY <2>1, <2>2
<1>5. mux' \in [Muxes -> MuxType]
  BY <1>2, <1>3, <1>4
<1>. QED BY <1>3, <1>4, <1>5, ReadingReaders, AllLost DEF d

LEMMA LoopFailsStep ==
  ASSUME LinkInv, DeviceType', NEW i \in DOMAIN readers, LoopFails(i)
  PROVE  LinkInv'
<1>. DEFINE m == readers[i]
            e == Drop({m})[m]
<1>1. /\ readers' = RemoveAt(readers, i) /\ mux' = Drop({m})
      /\ UNCHANGED <<opened, claimed>>
  BY DEF LoopFails, usbVars
<1>2. readers \in Seq(Muxes) /\ m \in Muxes /\ Contains(readers, m)
  BY DEF LinkInv, TypeOK, Contains
<1>3. /\ readers' \in Seq(Muxes) /\ OneLoop'
      /\ \A k \in Muxes : Contains(readers', k) <=> Contains(readers, k) /\ k # m
  BY <1>1, <1>2, RemoveReader DEF LinkInv, OneLoop
<1>4. mux \in [Muxes -> MuxType] /\ opened /\ claimed
  BY <1>2, OfObject
<1>5. e \in MuxType /\ HandshakeInv(e) /\ LoopInv(e, FALSE)
  BY <1>2, DropKeeps
<1>. HIDE DEF m
<1>6. mux' = [mux EXCEPT ![m] = e]
  BY <1>1, <1>2, <1>4 DEF Drop
<1>7. LoopInv(e, Contains(readers', m))
  BY <1>2, <1>3, <1>5 DEF LoopInv
<1>. HIDE DEF e
<1>. QED BY <1>1, <1>2, <1>3, <1>4, <1>5, <1>6, <1>7, Update

LEMMA CloseStep ==
  ASSUME LinkInv, DeviceType', NEW m \in Muxes, Close(m)
  PROVE  LinkInv'
<1>. DEFINE c == ClosedFields(mux[m])
            v == IF ~opened THEN "none"
                 ELSE IF mux[m].bound THEN "release" ELSE "close"
            e == [c EXCEPT !.teardown = v]
<1>1. /\ mux' = [mux EXCEPT ![m] = e] /\ UNCHANGED <<readers, opened, claimed>>
  BY DEF Close, usbVars
<1>2. /\ LoopInv(mux[m], Contains(readers, m)) /\ mux[m] \in MuxType
      /\ HandshakeInv(mux[m]) /\ (Contains(readers, m) => opened)
  BY OfObject
<1>3. /\ c \in MuxType /\ HandshakeInv(c) /\ c.closed /\ ~c.reading
      /\ ~c.done /\ c.pc = mux[m].pc
  BY <1>2, ClosedFieldsKeeps
<1>4. v \in {"none", "release", "close"} /\ (opened => v # "none")
  OBVIOUS
<1>. HIDE DEF c, v
<1>5. e \in MuxType
  BY <1>3, <1>4 DEF MuxType
<1>6. /\ e.pc = c.pc /\ e.answer = c.answer /\ e.waiter = c.waiter
      /\ e.attempt = c.attempt /\ e.timer = c.timer /\ e.frame = c.frame
      /\ e.atDevice = c.atDevice /\ e.closed /\ ~e.reading /\ ~e.done
      /\ e.teardown = v
  BY <1>3 DEF MuxType
<1>7. HandshakeInv(e)
  BY <1>3, <1>6 DEF HandshakeInv
<1>8. LoopInv(e, Contains(readers, m))
  BY <1>2, <1>3, <1>4, <1>6 DEF LoopInv
<1>. HIDE DEF e
<1>. QED BY <1>1, <1>5, <1>7, <1>8, UpdateInPlace

-----------------------------------------------------------------------------
(* The invariant, and what follows from it                                 *)

LEMMA DeviceTyped ==
  ASSUME LinkInv, [Next]_vars
  PROVE  DeviceType'
<1>0. DeviceType
  BY DEF LinkInv, TypeOK, DeviceType
<1>0a. ASSUME UNCHANGED <<usbVars, toHost, devMode>> PROVE DeviceType'
  BY <1>0, <1>0a DEF DeviceType, usbVars
<1>1. ASSUME NEW m \in Muxes, OpenUsb(m) \/ Handshake(m) \/ Sent(m) \/ SendFails(m)
             \/ Answered(m) \/ AnswerFails(m) \/ HandshakeTimeout(m) \/ Close(m)
             \/ OpenFails(m)
      PROVE  DeviceType'
  BY <1>0a, <1>1 DEF OpenUsb, Handshake, Sent, SendFails, Answered, AnswerFails,
                    HandshakeTimeout, Close, OpenFails
<1>2. ASSUME NEW m \in Muxes, Opened(m) \/ Claimed(m) \/ Released(m)
      PROVE  DeviceType'
  <2>1. /\ UNCHANGED <<plugged, toHost, devMode>>
        /\ opened' = opened \/ opened' = TRUE
        /\ claimed' = claimed \/ claimed' = TRUE \/ claimed' = FALSE
    BY <1>2 DEF Opened, Claimed, Released
  <2>2. opened' \in BOOLEAN
    BY <1>0, <2>1, Zenon DEF DeviceType
  <2>3. claimed' \in BOOLEAN
    BY <1>0, <2>1, Zenon DEF DeviceType
  <2>. QED BY <1>0, <2>1, <2>2, <2>3 DEF DeviceType
<1>3. ASSUME NEW m \in Muxes, Deliver(m)
      PROVE  DeviceType'
  <2>1. /\ UNCHANGED <<plugged, opened, claimed>>
        /\ devMode' \in {"version", "v2"}
    BY <1>3 DEF Deliver, usbVars
  <2>2. UNCHANGED toHost \/ \E major \in 0..2 : toHost' = Append(toHost, major)
    BY <1>3 DEF Deliver
  <2>3. toHost' \in Seq(0..2)
    BY <1>0, <2>2, SMTT(30) DEF DeviceType
  <2>. QED BY <1>0, <2>1, <2>3 DEF DeviceType
<1>4. CASE Read
  <2>1. toHost \in Seq(0..2) /\ toHost # <<>> /\ toHost' = Tail(toHost)
    BY <1>0, <1>4 DEF DeviceType, Read
  <2>2. toHost' \in Seq(0..2)
    BY <2>1
  <2>3. UNCHANGED <<plugged, opened, claimed, devMode>>
    BY <1>4 DEF Read, usbVars
  <2>. QED BY <1>0, <2>2, <2>3 DEF DeviceType
<1>5. ASSUME NEW i \in DOMAIN readers, LoopFails(i) PROVE DeviceType'
  BY <1>0a, <1>5 DEF LoopFails
<1>6. ASSUME Unplug \/ \E m \in Muxes : DeviceClosed(m) PROVE DeviceType'
  <2>1. /\ plugged' = plugged \/ plugged' = FALSE
        /\ opened' = FALSE /\ claimed' = FALSE /\ toHost' = <<>>
        /\ devMode' = "fresh"
    BY <1>6 DEF Unplug, DeviceClosed
  <2>2. plugged' \in BOOLEAN
    BY <1>0, <2>1, Zenon DEF DeviceType
  <2>3. opened' \in BOOLEAN /\ claimed' \in BOOLEAN
    BY <2>1, Zenon
  <2>4. toHost' \in Seq(0..2)
    BY <2>1
  <2>. QED BY <2>1, <2>2, <2>3, <2>4 DEF DeviceType
<1>7. CASE UNCHANGED vars
  BY <1>0a, <1>7 DEF vars
<1>. QED BY <1>1, <1>2, <1>3, <1>4, <1>5, <1>6, <1>7 DEF Next

LEMMA LinkInit == Init => LinkInv
<1>. SUFFICES ASSUME Init PROVE LinkInv
  OBVIOUS
<1>. DEFINE x == [pc |-> "new", reading |-> FALSE, closed |-> FALSE,
                  bound |-> FALSE, done |-> FALSE, version |-> 0,
                  attempt |-> 0, waiter |-> 0, timer |-> FALSE,
                  answer |-> "none", frame |-> NoFrame, atDevice |-> FALSE,
                  teardown |-> "none"]
<1>1. x \in MuxType
  <2>1. 0 \in 0..2
    OBVIOUS
  <2>. QED BY <2>1, NoWaiterTyped, FrameType, Zenon DEF MuxType
<1>2. /\ x.pc = "new" /\ x.frame = NoFrame /\ ~x.atDevice
      /\ ~x.reading /\ ~x.done
  OBVIOUS
<1>3. mux = [m \in Muxes |-> x] /\ readers = <<>>
  BY DEF Init
<1>. HIDE DEF x
<1>4. \A m \in Muxes : mux[m] = x
  BY <1>3
<1>5. TypeOK
  <2>1. mux \in [Muxes -> MuxType]
    BY <1>1, <1>3
  <2>2. plugged \in BOOLEAN /\ opened \in BOOLEAN /\ claimed \in BOOLEAN
    BY Zenon DEF Init
  <2>3. readers \in Seq(Muxes) /\ toHost \in Seq(0..2)
    BY DEF Init
  <2>. QED BY <2>1, <2>2, <2>3 DEF Init, TypeOK
<1>6. HandshakeInv(x)
  BY <1>2 DEF HandshakeInv
<1>7. LoopInv(x, FALSE)
  BY <1>2 DEF LoopInv
<1>8. \A m \in Muxes : ~Contains(readers, m)
  BY <1>3 DEF Contains
<1>9. \A m \in Muxes : LoopInv(mux[m], Contains(readers, m))
  BY <1>4, <1>7, <1>8 DEF LoopInv
<1>. QED BY <1>3, <1>4, <1>5, <1>6, <1>9 DEF LinkInv, OneLoop

LEMMA LinkStep == LinkInv /\ [Next]_vars => LinkInv'
<1>. SUFFICES ASSUME LinkInv, [Next]_vars PROVE LinkInv'
  OBVIOUS
<1>. DeviceType'
  BY DeviceTyped
<1>1. ASSUME NEW m \in Muxes, OpenUsb(m) PROVE LinkInv'
  BY <1>1, OpenUsbStep
<1>2. ASSUME NEW m \in Muxes, Opened(m) \/ Claimed(m) \/ OpenFails(m)
      PROVE  LinkInv'
  BY <1>2, OpeningSteps
<1>3. ASSUME NEW m \in Muxes, Handshake(m) PROVE LinkInv'
  BY <1>3, HandshakeStep
<1>4. ASSUME NEW m \in Muxes, Deliver(m) PROVE LinkInv'
  BY <1>4, DeliverStep
<1>5. ASSUME NEW m \in Muxes, Sent(m) PROVE LinkInv'
  BY <1>5, SentStep
<1>6. ASSUME NEW m \in Muxes, SendFails(m) \/ AnswerFails(m) PROVE LinkInv'
  BY <1>6, RetrySteps
<1>7. ASSUME NEW m \in Muxes, Answered(m) PROVE LinkInv'
  BY <1>7, AnsweredStep
<1>8. ASSUME NEW m \in Muxes, HandshakeTimeout(m) PROVE LinkInv'
  BY <1>8, HandshakeTimeoutStep
<1>9. ASSUME NEW m \in Muxes, Close(m) PROVE LinkInv'
  BY <1>9, CloseStep
<1>10. ASSUME NEW m \in Muxes, Released(m) \/ DeviceClosed(m) PROVE LinkInv'
  BY <1>10, TeardownSteps
<1>11. ASSUME NEW i \in DOMAIN readers, LoopFails(i) PROVE LinkInv'
  BY <1>11, LoopFailsStep
<1>12. CASE Read
  BY <1>12, ReadStep
<1>13. CASE Unplug
  BY <1>13, UnplugStep
<1>14. CASE UNCHANGED vars
  BY <1>14 DEF vars, usbVars, LinkInv, TypeOK, OneLoop
<1>. QED BY <1>1, <1>2, <1>3, <1>4, <1>5, <1>6, <1>7, <1>8, <1>9, <1>10, <1>11,
            <1>12, <1>13, <1>14 DEF Next

LEMMA LinkAlways == Spec => []LinkInv
BY LinkInit, LinkStep, PTL DEF Spec

\* The variables of openUsb(), handshake(), the read loop and close() keep
\* their types, for any number of objects and handshake turns.
THEOREM LinkTypeCorrect == Spec => []TypeOK
<1>1. LinkInv => TypeOK
  BY DEF LinkInv
<1>. QED BY <1>1, LinkAlways, PTL

\* handshake() never awaits an answer that nobody can give: the waiter of its
\* current turn is registered and its timer runs.
THEOREM HandshakeAlwaysAwaited == Spec => []HandshakeAwaited
<1>1. LinkInv => HandshakeAwaited
  BY DEF LinkInv, HandshakeInv, HandshakeAwaited
<1>. QED BY <1>1, LinkAlways, PTL

\* connect() is let through only on an object that reads from an open and
\* claimed device, whatever other objects and the device did.
THEOREM ConnectableIsLive == Spec => []LiveWhenConnectable
<1>1. ASSUME LinkInv PROVE LiveWhenConnectable
  BY <1>1, OfObject DEF LoopInv, LiveWhenConnectable
<1>. QED BY <1>1, LinkAlways, PTL

\* A close() that is over has stopped the read loop of its object.
THEOREM ClosedHasReleased == Spec => []ReleasedWhenClosed
<1>1. ASSUME LinkInv PROVE ReleasedWhenClosed
  BY <1>1, OfObject DEF LoopInv, ReleasedWhenClosed
<1>. QED BY <1>1, LinkAlways, PTL

\* openUsb() never starts a second read loop on an object.
THEOREM LoopsAreSingle == Spec => []OneLoop
<1>1. LinkInv => OneLoop
  BY DEF LinkInv
<1>. QED BY <1>1, LinkAlways, PTL

-----------------------------------------------------------------------------
(* MuxFraming: the device's packets are handled whole and in turn.         *)

PipeBytes == [no : Nat, at : Nat]
DevicePackets == [protocol : {"version", "tcp"}, v2 : BOOLEAN, size : Nat]
HandledPackets == [no : Nat, v2 : BOOLEAN, size : Nat]
HostPackets == [no : Nat, v2 : BOOLEAN, seq : Nat]

FramingTyped ==
  /\ muxDevice \in Seq(DevicePackets) /\ pipe \in Seq(PipeBytes) /\ readBuffer \in Seq(PipeBytes)
  /\ packets \in Seq(Seq(PipeBytes)) /\ handled \in Seq(HandledPackets) /\ version \in BOOLEAN
  /\ txSeq \in Nat /\ framesSent \in Nat
  /\ writes \in Seq(HostPackets) /\ wire \in Seq(HostPackets)

\* The device begins with a VERSION packet, the only kind in the legacy format.
DeviceSound(sent) ==
  \A i \in DOMAIN sent :
    /\ sent[i].size >= LegacyHeader
    /\ sent[i].v2 <=> sent[i].protocol = "tcp"
    /\ i = 1 => sent[i].protocol = "version"

\* The bytes are those of the packets sent after the first f, one packet after
\* the other: the i-th ends at at[i].
Holds(sent, bytes, f, at) ==
  /\ at \in [f..Len(sent) -> 0..Len(bytes)] /\ at[f] = 0 /\ at[Len(sent)] = Len(bytes)
  /\ \A i, j \in f..Len(sent) : i <= j => at[i] <= at[j]
  /\ \A i \in (f + 1)..Len(sent) :
       /\ at[i] = at[i - 1] + sent[i].size
       /\ \A j \in 1..sent[i].size : bytes[at[i - 1] + j] = [no |-> i, at |-> j]

\* What was sent is handled, waits in packetChain as a whole packet, or is in
\* the read buffer and what follows it.
Received(sent, bytes, found, done) ==
  /\ done + Len(found) <= Len(sent)
  /\ \E at : Holds(sent, bytes, done + Len(found), at)
  /\ \A i \in DOMAIN found :
       found[i] = [j \in 1..sent[done + i].size |-> [no |-> done + i, at |-> j]]

\* Packets were handled as they were sent, the first of them a VERSION packet.
HandledSound(sent, list, v) ==
  /\ list # <<>> => v
  /\ \A i \in DOMAIN list :
       list[i] = [no |-> i, v2 |-> sent[i].v2, size |-> sent[i].size]

\* The numbers of a list of packets.
Numbered(list) ==
  /\ \A i \in DOMAIN list : list[i].seq = list[i].no % SeqLimit
  /\ \A i, j \in DOMAIN list : i < j => list[i].no < list[j].no

\* Packets on the wire come before those to be written, and those before the next.
SentSound ==
  /\ txSeq = framesSent % SeqLimit /\ Numbered(writes) /\ Numbered(wire)
  /\ \A i \in DOMAIN writes : writes[i].no < framesSent
  /\ \A i \in DOMAIN wire : wire[i].no < framesSent
  /\ \A i \in DOMAIN wire, j \in DOMAIN writes : wire[i].no < writes[j].no

\* The inductive invariant of MuxFraming.
FramingInv ==
  /\ FramingTyped /\ DeviceSound(muxDevice)
  /\ Received(muxDevice, readBuffer \o pipe, packets, Len(handled))
  /\ HandledSound(muxDevice, handled, version) /\ SentSound

\* The numbers of this module.
LEMMA FramingNumbers ==
  /\ LegacyHeader \in Nat \ {0} /\ SeqLimit \in Nat \ {0}
  /\ \A v2 \in BOOLEAN, n \in Payloads :
       HeaderSize(v2) + n \in Nat /\ HeaderSize(v2) + n >= LegacyHeader
BY MuxFramingAssumption DEF HeaderSize

\* A set of natural numbers that is not empty has a least element.
LEMMA NatMin ==
  ASSUME NEW T, T \subseteq Nat, T # {}
  PROVE  \E m \in T : \A n \in T : m <= n
<1> DEFINE R == {ss \in Nat \X Nat : ss[1] < ss[2]}
<1>1. IsWellFoundedOn(R, Nat)
  BY NatLessThanWellFounded DEF OpToRel
<1>2. \A m, n \in Nat : n < m => <<n, m>> \in R
  OBVIOUS
<1> HIDE DEF R
<1>3. PICK m \in T : \A n \in T : ~(<<n, m>> \in R)
  BY <1>1, WFMin
<1>4. ASSUME NEW n \in T PROVE m <= n
  <2>1. m \in Nat /\ n \in Nat /\ ~(n < m)
    BY <1>2, <1>3
  <2> QED
    BY <2>1
<1> QED
  BY <1>4

\* `offset` of drainMuxPackets() is what its loop makes of it, turn by turn.
LEMMA OffsetSteps ==
  ASSUME NEW buf \in Seq(PipeBytes)
  PROVE  /\ PacketOffset(buf)[0] = 0
         /\ \A i \in 1..Len(buf) : PacketOffset(buf)[i] =
              IF Complete(buf, PacketOffset(buf)[i - 1])
                THEN PacketOffset(buf)[i - 1] + LengthField(buf, PacketOffset(buf)[i - 1])
                ELSE PacketOffset(buf)[i - 1]
<1> DEFINE Turn(p) == IF Complete(buf, p) THEN p + LengthField(buf, p) ELSE p
           To(n, o) == o = [i \in 0..n |-> IF i = 0 THEN 0 ELSE Turn(o[i - 1])]
           Bad == {n \in Nat : ~(\E o : To(n, o))}
<1>1. Len(buf) \in Nat
  OBVIOUS
<1> HIDE DEF Turn
<1>2. \A n \in Nat : \E o : To(n, o)
  <2>1. SUFFICES ASSUME Bad # {} PROVE FALSE
    OBVIOUS
  <2>2. PICK n \in Bad : \A m \in Bad : n <= m
    <3>1. Bad \subseteq Nat
      OBVIOUS
    <3> HIDE DEF Bad
    <3> QED
      BY <2>1, <3>1, NatMin
  <2>3. n \in Nat /\ ~(\E o : To(n, o))
    OBVIOUS
  <2>4. n # 0
    <3> DEFINE o == [i \in 0..0 |-> 0]
    <3>1. To(0, o)
      OBVIOUS
    <3> QED
      BY <2>3, <3>1
  <2>5. n - 1 \in Nat /\ n - 1 \notin Bad
    <3>1. n - 1 \in Nat /\ ~(n <= n - 1)
      BY ONLY <2>3, <2>4
    <3> HIDE DEF Bad
    <3> QED
      BY <2>2, <3>1
  <2>6. PICK o : To(n - 1, o)
    BY <2>5
  <2> DEFINE m == n - 1
             to == [i \in 0..n |-> IF i = 0 THEN 0 ELSE Turn(o[i - 1])]
  <2>7. \A i \in 1..n : to[i - 1] = o[i - 1]
    <3>1. o = [i \in 0..m |-> IF i = 0 THEN 0 ELSE Turn(o[i - 1])]
      BY <2>6
    <3>2. ASSUME NEW i \in 1..n PROVE to[i - 1] = o[i - 1]
      <4>1. i - 1 \in 0..m /\ i - 1 \in 0..n
        BY <2>3
      <4> DEFINE h == i - 1
      <4>2. o[h] = IF h = 0 THEN 0 ELSE Turn(o[h - 1])
        BY <3>1, <4>1
      <4>3. to[h] = IF h = 0 THEN 0 ELSE Turn(o[h - 1])
        BY <4>1
      <4> QED
        BY <4>2, <4>3
    <3> QED
      BY <3>2
  <2>8. To(n, to)
    <3>1. to = [i \in 0..n |-> IF i = 0 THEN 0 ELSE Turn(to[i - 1])]
      <4>1. ASSUME NEW i \in 0..n
            PROVE  (IF i = 0 THEN 0 ELSE Turn(o[i - 1])) = (IF i = 0 THEN 0 ELSE Turn(to[i - 1]))
        <5>1. CASE i = 0
          BY <5>1
        <5>2. CASE i # 0
          <6>1. i \in 1..n
            BY <2>3, <5>2
          <6>2. to[i - 1] = o[i - 1]
            BY <2>7, <6>1
          <6> QED
            BY <5>2, <6>2
        <5> QED
          BY <5>1, <5>2
      <4> QED
        BY <4>1
    <3> QED
      BY <3>1
  <2> QED
    BY <2>3, <2>8
<1> DEFINE offset == PacketOffset(buf)
<1>3. offset = CHOOSE o : To(Len(buf), o)
  BY DEF PacketOffset, Turn
<1>4. To(Len(buf), offset)
  BY <1>1, <1>2, <1>3
<1>5. offset[0] = 0 /\ \A i \in 1..Len(buf) : offset[i] = Turn(offset[i - 1])
  <2>1. offset = [i \in 0..Len(buf) |-> IF i = 0 THEN 0 ELSE Turn(offset[i - 1])]
    BY <1>4
  <2> HIDE DEF offset
  <2> QED
    BY <1>1, <2>1
<1> QED
  BY <1>5 DEF Turn

\* Every packet of the device has a size.
LEMMA PacketSizes ==
  ASSUME NEW sent \in Seq(DevicePackets), NEW i \in 1..Len(sent)
  PROVE  i \in DOMAIN sent /\ sent[i].size \in Nat /\ sent[i].v2 \in BOOLEAN
<1>1. sent[i] \in DevicePackets /\ i \in DOMAIN sent
  OBVIOUS
<1> QED
  BY <1>1 DEF DevicePackets

\* The loop cuts where the device's packets end: a header that is complete is
\* that of the packet which begins there, so its length field is right.
LEMMA CutsAtPackets ==
  ASSUME muxDevice \in Seq(DevicePackets), DeviceSound(muxDevice),
         NEW bytes \in Seq(PipeBytes), NEW buf \in Seq(PipeBytes), Len(buf) <= Len(bytes),
         \A x \in 1..Len(buf) : buf[x] = bytes[x],
         NEW f \in 0..Len(muxDevice), NEW at, Holds(muxDevice, bytes, f, at),
         NEW k \in 0..Len(buf), \A i \in 0..(k - 1) : Complete(buf, PacketOffset(buf)[i])
  PROVE  \A i \in 0..k : /\ f + i <= Len(muxDevice) /\ at[f + i] <= Len(buf)
                         /\ PacketOffset(buf)[i] = at[f + i]
<1> DEFINE offset == PacketOffset(buf)
           N == Len(muxDevice)
           Cut(i) == f + i <= N /\ at[f + i] <= Len(buf) /\ offset[i] = at[f + i]
           Bad == {i \in 0..k : ~Cut(i)}
<1>0. Len(buf) \in Nat /\ Len(bytes) \in Nat /\ N \in Nat /\ f \in Nat /\ k \in Nat
  OBVIOUS
<1>1. /\ at \in [f..N -> 0..Len(bytes)] /\ at[f] = 0 /\ at[N] = Len(bytes)
      /\ \A i \in (f + 1)..N :
           /\ at[i] = at[i - 1] + muxDevice[i].size
           /\ \A j \in 1..muxDevice[i].size : bytes[at[i - 1] + j] = [no |-> i, at |-> j]
  BY DEF Holds
<1>2. Cut(0)
  BY <1>0, <1>1, OffsetSteps
<1>3. ASSUME NEW m \in 1..k, Cut(m - 1) PROVE Cut(m)
  <2> DEFINE g == f + m
             p == at[g - 1]
  <2>1. g \in Nat /\ g - 1 = f + (m - 1) /\ m - 1 \in 0..(k - 1) /\ m \in 1..Len(buf)
    BY <1>0
  <2>2. g - 1 <= N /\ p <= Len(buf) /\ offset[m - 1] = p
    BY <1>3, <2>1
  <2>3. g - 1 \in f..N /\ p \in Nat
    <3>1. g - 1 \in f..N
      <4> HIDE DEF N, g
      <4> QED
        BY ONLY <1>0, <2>1, <2>2, f \in 0..N, m \in 1..k
    <3> HIDE DEF N, g
    <3> QED
      BY <1>0, <1>1, <3>1
  <2>4. Complete(buf, p)
    BY <2>1, <2>2
  <2>5. p + LegacyHeader <= Len(buf) /\ p + LengthField(buf, p) <= Len(buf)
    BY <2>4 DEF Complete
  <2>6. g \in (f + 1)..N
    <3>1. g - 1 # N
      <4>1. p = Len(bytes) => FALSE
        <5> HIDE DEF p
        <5> QED
          BY ONLY <1>0, <2>3, <2>5, FramingNumbers, Len(buf) <= Len(bytes)
      <4> HIDE DEF N, g
      <4> QED
        BY <1>1, <4>1
    <3> HIDE DEF N
    <3> QED
      BY ONLY <1>0, <2>1, <2>3, <3>1
  <2>7. LengthField(buf, p) = muxDevice[g].size
    <3>1. g \in DOMAIN muxDevice /\ muxDevice[g].size \in Nat
      <4>1. g \in 1..Len(muxDevice)
        BY ONLY <1>0, <2>6
      <4> QED
        BY <4>1, PacketSizes
    <3>2. LegacyHeader \in 1..muxDevice[g].size
      BY <3>1, FramingNumbers DEF DeviceSound
    <3>3. bytes[p + LegacyHeader] = [no |-> g, at |-> LegacyHeader]
      BY <1>1, <2>6, <3>2
    <3>4. p + LegacyHeader \in 1..Len(buf)
      BY <1>0, <2>3, <2>5, FramingNumbers
    <3>5. buf[p + LegacyHeader].no = g
      BY <3>3, <3>4
    <3> QED
      BY <3>5 DEF LengthField
  <2>8. at[g] = p + LengthField(buf, p)
    BY <1>1, <2>6, <2>7
  <2>9. offset[m] = at[g]
    BY <2>1, <2>2, <2>4, <2>8, OffsetSteps
  <2>10. g <= N /\ at[g] <= Len(buf)
    BY <1>0, <2>5, <2>6, <2>8
  <2> QED
    BY <2>9, <2>10
<1> HIDE DEF Cut
<1>4. ASSUME Bad # {} PROVE FALSE
  <2>1. PICK m \in Bad : \A n \in Bad : m <= n
    <3>1. Bad \subseteq Nat
      BY <1>0
    <3> HIDE DEF Bad
    <3> QED
      BY <1>4, <3>1, NatMin
  <2>2. m \in 0..k /\ ~Cut(m)
    OBVIOUS
  <2>3. m \in 1..k /\ m - 1 \in 0..k /\ ~(m <= m - 1)
    BY <1>0, <1>2, <2>2
  <2>4. m - 1 \notin Bad
    <3> HIDE DEF Bad
    <3> QED
      BY <2>1, <2>3
  <2>5. Cut(m - 1)
    BY <2>3, <2>4
  <2> QED
    BY <1>3, <2>2, <2>3, <2>5
<1>5. \A i \in 0..k : Cut(i)
  BY <1>4
<1> QED
  BY <1>5 DEF Cut

\* What is cut off are the packets, and what is left begins with the next one.
LEMMA CutsWhole ==
  ASSUME NEW sent \in Seq(DevicePackets),
         NEW bytes \in Seq(PipeBytes), NEW left \in Seq(PipeBytes),
         NEW f \in Nat, NEW k \in Nat, f + k <= Len(sent),
         NEW at, Holds(sent, bytes, f, at), at[f + k] <= Len(bytes),
         Len(left) = Len(bytes) - at[f + k],
         \A x \in 1..Len(left) : left[x] = bytes[at[f + k] + x]
  PROVE  \E to : Holds(sent, left, f + k, to)
<1> DEFINE N == Len(sent)
           g == f + k
           c == at[g]
           to == [i \in g..N |-> at[i] - c]
<1>0. N \in Nat /\ g \in f..N /\ g \in Nat /\ Len(bytes) \in Nat /\ Len(left) \in Nat
  OBVIOUS
<1>1. /\ at \in [f..N -> 0..Len(bytes)] /\ at[f] = 0 /\ at[N] = Len(bytes)
      /\ \A i, j \in f..N : i <= j => at[i] <= at[j]
      /\ \A i \in (f + 1)..N :
           /\ at[i] = at[i - 1] + sent[i].size
           /\ \A j \in 1..sent[i].size : bytes[at[i - 1] + j] = [no |-> i, at |-> j]
  BY DEF Holds
<1>2. c \in Nat
  BY <1>0, <1>1
<1>3. \A i \in g..N : i \in f..N /\ at[i] \in Nat /\ c <= at[i] /\ at[i] <= Len(bytes)
  BY <1>0, <1>1
<1>4. Len(left) = Len(bytes) - c /\ \A x \in 1..Len(left) : left[x] = bytes[c + x]
  OBVIOUS
<1> HIDE DEF c, g, N
<1>5. to \in [g..N -> 0..Len(left)]
  BY <1>0, <1>2, <1>3, <1>4, SMTT(30)
<1>6. to[g] = 0 /\ to[N] = Len(left)
  <2>1. g \in g..N /\ N \in g..N
    BY <1>0
  <2> QED
    BY <1>0, <1>1, <1>2, <1>3, <1>4, <2>1, SMTT(30) DEF c
<1>7. \A i, j \in g..N : i <= j => to[i] <= to[j]
  BY <1>0, <1>1, <1>2, <1>3
<1>8. ASSUME NEW i \in (g + 1)..N
      PROVE  /\ to[i] = to[i - 1] + sent[i].size
             /\ \A j \in 1..sent[i].size : left[to[i - 1] + j] = [no |-> i, at |-> j]
  <2>1. i \in (f + 1)..N /\ i \in g..N /\ i - 1 \in g..N
    BY <1>0
  <2>2. sent[i].size \in Nat
    <3>1. i \in 1..N
      BY <1>0, <2>1
    <3> QED
      BY <3>1, PacketSizes DEF N
  <2>3. at[i] = at[i - 1] + sent[i].size /\ to[i] = at[i] - c /\ to[i - 1] = at[i - 1] - c
    BY <1>1, <2>1
  <2>4. at[i] \in Nat /\ at[i - 1] \in Nat /\ c <= at[i - 1] /\ at[i] <= Len(bytes)
    BY <1>3, <2>1
  <2>5. to[i] = to[i - 1] + sent[i].size
    BY <1>2, <2>2, <2>3, <2>4, SMTT(30)
  <2>6. ASSUME NEW j \in 1..sent[i].size
        PROVE  left[to[i - 1] + j] = [no |-> i, at |-> j]
    <3>1. to[i - 1] + j \in 1..Len(left) /\ c + (to[i - 1] + j) = at[i - 1] + j
      <4> DEFINE a == at[i - 1]
                 b == at[i]
                 s == sent[i].size
                 l == Len(left)
                 L == Len(bytes)
      <4>1. /\ a \in Nat /\ b \in Nat /\ s \in Nat /\ c \in Nat /\ j \in 1..s /\ L \in Nat
            /\ b = a + s /\ c <= a /\ b <= L /\ l = L - c /\ to[i - 1] = a - c
        BY <1>0, <1>2, <1>4, <2>2, <2>3, <2>4
      <4> HIDE DEF a, b, s, l, L
      <4>2. (a - c) + j \in 1..l /\ c + ((a - c) + j) = a + j
        BY ONLY <4>1
      <4> QED
        BY <4>1, <4>2 DEF a, l
    <3>2. left[to[i - 1] + j] = bytes[at[i - 1] + j]
      BY <1>4, <3>1
    <3> QED
      BY <1>1, <2>1, <3>2
  <2> QED
    BY <2>5, <2>6
<1> HIDE DEF to
<1>9. Holds(sent, left, g, to)
  BY <1>5, <1>6, <1>7, <1>8 DEF Holds, N
<1> QED
  BY <1>9 DEF g

\* One transfer keeps the account of the device's packets.
LEMMA TransferKeeps ==
  ASSUME FramingInv, Transfer
  PROVE  FramingInv'
<1>1. PICK n \in 1..TransferSize :
        /\ n <= Len(pipe)
        /\ LET buf == readBuffer \o SubSeq(pipe, 1, n)
               offset == PacketOffset(buf)
           IN \E k \in 0..Len(buf) :
                /\ \A i \in 0..(k - 1) : Complete(buf, offset[i])
                /\ ~Complete(buf, offset[k])
                /\ packets' = packets \o
                     [i \in 1..k |-> SubSeq(buf, offset[i - 1] + 1, offset[i])]
                /\ readBuffer' = SubSeq(buf, offset[k] + 1, Len(buf))
        /\ pipe' = SubSeq(pipe, n + 1, Len(pipe))
  BY DEF Transfer
<1> DEFINE taken == SubSeq(pipe, 1, n)
           buf == readBuffer \o taken
           rest == SubSeq(pipe, n + 1, Len(pipe))
           bytes == readBuffer \o pipe
           offset == PacketOffset(buf)
           done == Len(handled)
           f == done + Len(packets)
           N == Len(muxDevice)
<1>2. /\ UNCHANGED <<muxDevice, handled, version, txSeq, writes, wire, framesSent>>
      /\ FramingTyped /\ DeviceSound(muxDevice) /\ Received(muxDevice, bytes, packets, done)
  BY DEF Transfer, FramingInv
<1>3. /\ pipe \in Seq(PipeBytes) /\ readBuffer \in Seq(PipeBytes) /\ packets \in Seq(Seq(PipeBytes))
      /\ muxDevice \in Seq(DevicePackets) /\ n \in 1..Len(pipe)
  BY <1>1, <1>2 DEF FramingTyped
<1>4. PICK k \in 0..Len(buf) :
        /\ \A i \in 0..(k - 1) : Complete(buf, offset[i])
        /\ packets' = packets \o
             [i \in 1..k |-> SubSeq(buf, offset[i - 1] + 1, offset[i])]
        /\ readBuffer' = SubSeq(buf, offset[k] + 1, Len(buf))
  BY <1>1
<1>5. /\ taken \in Seq(PipeBytes) /\ Len(taken) = n /\ \A x \in 1..n : taken[x] = pipe[x]
      /\ rest \in Seq(PipeBytes) /\ Len(rest) = Len(pipe) - n
      /\ \A x \in 1..Len(rest) : rest[x] = pipe[n + x]
  BY <1>3, SubSeqProperties
<1>6. /\ bytes \in Seq(PipeBytes) /\ Len(bytes) = Len(readBuffer) + Len(pipe)
      /\ \A x \in 1..(Len(readBuffer) + Len(pipe)) : bytes[x] =
           IF x <= Len(readBuffer) THEN readBuffer[x] ELSE pipe[x - Len(readBuffer)]
  BY <1>3, ConcatProperties
<1>7. /\ buf \in Seq(PipeBytes) /\ Len(buf) = Len(readBuffer) + n
      /\ \A x \in 1..(Len(readBuffer) + n) : buf[x] =
           IF x <= Len(readBuffer) THEN readBuffer[x] ELSE taken[x - Len(readBuffer)]
  <2> HIDE DEF taken
  <2> QED
    BY <1>3, <1>5, ConcatProperties, ZenonT(60)
<1> HIDE DEF taken, rest, bytes, buf
<1>8. /\ Len(buf) \in Nat /\ Len(bytes) \in Nat /\ Len(rest) \in Nat /\ Len(buf) <= Len(bytes)
      /\ Len(bytes) = Len(buf) + Len(rest)
      /\ \A x \in 1..Len(buf) : buf[x] = bytes[x]
      /\ \A x \in 1..Len(rest) : rest[x] = bytes[Len(buf) + x]
  <2>1. Len(readBuffer) \in Nat /\ Len(pipe) \in Nat /\ n \in 1..Len(pipe)
    BY <1>3
  <2>2. /\ Len(buf) \in Nat /\ Len(bytes) \in Nat /\ Len(rest) \in Nat /\ Len(buf) <= Len(bytes)
        /\ Len(bytes) = Len(buf) + Len(rest)
    BY <1>5, <1>6, <1>7, <2>1
  <2>3. ASSUME NEW x \in 1..Len(buf) PROVE buf[x] = bytes[x]
    <3>1. x \in 1..(Len(readBuffer) + n) /\ x \in 1..(Len(readBuffer) + Len(pipe))
      BY <1>7, <2>1
    <3>2. CASE x <= Len(readBuffer)
      BY <1>6, <1>7, <3>1, <3>2
    <3>3. CASE ~(x <= Len(readBuffer))
      <4>1. x - Len(readBuffer) \in 1..n
        BY <2>1, <3>1, <3>3
      <4> QED
        BY <1>5, <1>6, <1>7, <3>1, <3>3, <4>1
    <3> QED
      BY <3>2, <3>3
  <2>4. ASSUME NEW x \in 1..Len(rest) PROVE rest[x] = bytes[Len(buf) + x]
    <3>1. /\ Len(buf) + x \in 1..(Len(readBuffer) + Len(pipe)) /\ ~(Len(buf) + x <= Len(readBuffer))
          /\ (Len(buf) + x) - Len(readBuffer) = n + x
      BY <1>5, <1>7, <2>1
    <3> QED
      BY <1>5, <1>6, <3>1
  <2> QED
    BY <2>2, <2>3, <2>4
<1>9. PICK at : Holds(muxDevice, bytes, f, at)
  BY <1>2 DEF Received
<1>10. /\ f <= N /\ f \in Nat /\ done \in Nat /\ Len(packets) \in Nat /\ N \in Nat /\ k \in Nat
       /\ f \in 0..N
  <2>1. done \in Nat /\ Len(packets) \in Nat /\ N \in Nat /\ k \in Nat
    BY <1>2, <1>3, <1>8 DEF FramingTyped
  <2>2. f <= N
    BY <1>2 DEF Received
  <2> QED
    BY <2>1, <2>2
<1>11. \A i \in 0..k : f + i <= N /\ at[f + i] <= Len(buf) /\ offset[i] = at[f + i]
  <2>1. f \in 0..Len(muxDevice) /\ Holds(muxDevice, bytes, f, at)
    BY <1>9, <1>10
  <2>2. k \in 0..Len(buf) /\ \A i \in 0..(k - 1) : Complete(buf, PacketOffset(buf)[i])
    BY <1>4
  <2>3. Len(buf) <= Len(bytes) /\ \A x \in 1..Len(buf) : buf[x] = bytes[x]
    BY <1>8
  <2> HIDE DEF f, N, offset
  <2>4. \A i \in 0..k : /\ f + i <= Len(muxDevice) /\ at[f + i] <= Len(buf)
                        /\ PacketOffset(buf)[i] = at[f + i]
    <3>1. /\ muxDevice \in Seq(DevicePackets) /\ DeviceSound(muxDevice)
          /\ bytes \in Seq(PipeBytes) /\ buf \in Seq(PipeBytes)
      BY <1>2, <1>3, <1>6, <1>7
    <3> QED
      BY ONLY <2>1, <2>2, <2>3, <3>1, CutsAtPackets, ZenonT(60)
  <2> QED
    BY <2>4 DEF N, offset
<1>12. /\ at \in [f..N -> 0..Len(bytes)] /\ at[f] = 0
       /\ \A i \in (f + 1)..N :
            /\ at[i] = at[i - 1] + muxDevice[i].size
            /\ \A j \in 1..muxDevice[i].size : bytes[at[i - 1] + j] = [no |-> i, at |-> j]
  BY <1>9 DEF Holds
<1> DEFINE c == at[f + k]
           left == readBuffer' \o pipe'
           Found(i) == SubSeq(buf, offset[i - 1] + 1, offset[i])
           more == [i \in 1..k |-> Found(i)]
<1>13. f + k \in f..N /\ c \in 0..Len(buf) /\ offset[k] = c /\ k \in 0..k
  <2>1. k \in 0..k /\ f + k \in f..N
    BY <1>10, <1>11
  <2>2. at[f + k] \in 0..Len(bytes) /\ at[f + k] <= Len(buf) /\ offset[k] = at[f + k]
    <3> HIDE DEF f, N, offset
    <3> QED
      BY <1>11, <1>12, <2>1
  <2> QED
    BY <1>8, <2>1, <2>2
<1>14. /\ readBuffer' \in Seq(PipeBytes) /\ Len(readBuffer') = Len(buf) - c
       /\ \A x \in 1..Len(readBuffer') : readBuffer'[x] = bytes[c + x]
  <2> HIDE DEF offset, c
  <2>1. readBuffer' = SubSeq(buf, c + 1, Len(buf))
    BY <1>4, <1>13
  <2>2. /\ SubSeq(buf, c + 1, Len(buf)) \in Seq(PipeBytes)
        /\ Len(SubSeq(buf, c + 1, Len(buf))) = Len(buf) - c
        /\ \A x \in 1..(Len(buf) - c) : SubSeq(buf, c + 1, Len(buf))[x] = buf[c + x]
    BY <1>7, <1>8, <1>13, SubSeqProperties, SMTT(30)
  <2>3. \A x \in 1..(Len(buf) - c) : c + x \in 1..Len(buf)
    BY <1>8, <1>13
  <2> QED
    BY <1>8, <2>1, <2>2, <2>3
<1>15. /\ left \in Seq(PipeBytes) /\ Len(left) = Len(bytes) - c
       /\ \A x \in 1..Len(left) : left[x] = bytes[c + x]
  <2> DEFINE rb == readBuffer'
  <2>1. pipe' = rest /\ rb \in Seq(PipeBytes) /\ rest \in Seq(PipeBytes)
    BY <1>1, <1>5, <1>14 DEF rest
  <2>2. /\ left \in Seq(PipeBytes) /\ Len(left) = Len(rb) + Len(rest)
        /\ \A x \in 1..(Len(rb) + Len(rest)) : left[x] =
             IF x <= Len(rb) THEN rb[x] ELSE rest[x - Len(rb)]
    <3> HIDE DEF rb
    <3>1. left = rb \o rest
      BY <2>1 DEF rb
    <3> QED
      BY <2>1, <3>1, ConcatProperties
  <2>3. Len(rb) = Len(buf) - c /\ \A x \in 1..Len(rb) : rb[x] = bytes[c + x]
    BY <1>14
  <2> HIDE DEF rb, left, c
  <2>4. Len(left) = Len(bytes) - c /\ Len(rb) \in Nat
    BY <1>8, <1>13, <2>2, <2>3
  <2>5. ASSUME NEW x \in 1..Len(left) PROVE left[x] = bytes[c + x]
    <3>1. x \in 1..(Len(rb) + Len(rest))
      BY <2>2
    <3>2. CASE x <= Len(rb)
      <4>1. x \in 1..Len(rb)
        BY <3>1, <3>2
      <4> QED
        BY <2>2, <2>3, <3>1, <3>2, <4>1
    <3>3. CASE ~(x <= Len(rb))
      <4>1. x - Len(rb) \in 1..Len(rest) /\ Len(buf) + (x - Len(rb)) = c + x
        BY <1>8, <1>13, <2>3, <2>4, <3>1, <3>3
      <4> QED
        BY <1>8, <2>2, <3>1, <3>3, <4>1
    <3> QED
      BY <3>2, <3>3
  <2> QED
    BY <2>2, <2>4, <2>5
<1>16. \E to : Holds(muxDevice, left, f + k, to)
  <2>1. c <= Len(bytes) /\ f + k <= N
    BY <1>8, <1>11, <1>13
  <2> HIDE DEF left, f
  <2> QED
    BY <1>3, <1>6, <1>9, <1>10, <1>15, <2>1, CutsWhole
<1>17. ASSUME NEW i \in 1..k
       PROVE  /\ Found(i) \in Seq(PipeBytes)
              /\ Found(i) = [j \in 1..muxDevice[f + i].size |-> [no |-> f + i, at |-> j]]
  <2> DEFINE g == f + i
             a == offset[i - 1]
             b == offset[i]
             s == muxDevice[g].size
  <2>1. i \in 0..k /\ i - 1 \in 0..k /\ g - 1 = f + (i - 1)
    BY <1>10
  <2>2. g \in (f + 1)..N /\ g \in 1..N
    BY <1>10, <1>11, <2>1
  <2>3. a = at[g - 1] /\ b = at[g] /\ b <= Len(buf)
    BY <1>11, <2>1
  <2>4. s \in Nat
    BY <1>3, <2>2, PacketSizes
  <2>5. b = a + s /\ \A j \in 1..s : bytes[a + j] = [no |-> g, at |-> j]
    BY <1>12, <2>2, <2>3
  <2>6. a \in Nat
    <3>1. g - 1 \in f..N
      BY <1>10, <2>2
    <3> HIDE DEF f, N, g, a
    <3> QED
      BY <1>8, <1>12, <2>3, <3>1
  <2> HIDE DEF a, b, s, g
  <2>7. Found(i) = SubSeq(buf, a + 1, b)
    BY DEF a, b
  <2>8. /\ SubSeq(buf, a + 1, b) \in Seq(PipeBytes) /\ Len(SubSeq(buf, a + 1, b)) = s
        /\ \A j \in 1..s : SubSeq(buf, a + 1, b)[j] = buf[a + j]
    <3>1. a + 1 \in Int /\ b \in Int /\ \A x \in (a + 1)..b : x \in 1..Len(buf)
      BY <1>8, <2>3, <2>4, <2>5, <2>6
    <3>2. \A x \in (a + 1)..b : buf[x] \in PipeBytes
      BY <1>7, <3>1
    <3>3. /\ SubSeq(buf, a + 1, b) \in Seq(PipeBytes)
          /\ Len(SubSeq(buf, a + 1, b)) = IF a + 1 <= b THEN b - (a + 1) + 1 ELSE 0
          /\ \A j \in 1 .. b - (a + 1) + 1 : SubSeq(buf, a + 1, b)[j] = buf[a + 1 + j - 1]
      BY <3>1, <3>2, SubSeqProperties
    <3>4. b = a + s
      BY <2>5
    <3>5. /\ (IF a + 1 <= b THEN b - (a + 1) + 1 ELSE 0) = s /\ b - (a + 1) + 1 = s
          /\ \A j \in 1..s : a + 1 + j - 1 = a + j
      BY ONLY <2>4, <2>6, <3>4
    <3> QED
      BY <3>3, <3>5
  <2>9. \A j \in 1..s : a + j \in 1..Len(buf)
    BY <1>8, <2>3, <2>4, <2>5, <2>6, SMTT(30)
  <2> DEFINE q == SubSeq(buf, a + 1, b)
  <2>10. \A j \in 1..s : q[j] = [no |-> g, at |-> j]
    BY <1>8, <2>5, <2>8, <2>9
  <2>11. q \in Seq(PipeBytes) /\ DOMAIN q = 1..s
    BY <2>4, <2>8
  <2>12. q = [j \in 1..s |-> [no |-> g, at |-> j]]
    <3>1. q = [j \in DOMAIN q |-> q[j]]
      BY <2>11, SMTT(30)
    <3> HIDE DEF q
    <3> QED
      BY <2>10, <2>11, <3>1
  <2> QED
    BY <2>7, <2>11, <2>12 DEF g, s
<1> HIDE DEF Found
<1>18. more \in Seq(Seq(PipeBytes)) /\ Len(more) = k /\ \A i \in 1..k : more[i] = Found(i)
  BY <1>10, <1>17
<1>19. /\ packets' \in Seq(Seq(PipeBytes)) /\ Len(packets') = Len(packets) + k
       /\ \A i \in 1..(Len(packets) + k) : packets'[i] =
            IF i <= Len(packets) THEN packets[i] ELSE Found(i - Len(packets))
  <2>1. packets' = packets \o more
    BY <1>4 DEF Found
  <2> HIDE DEF more
  <2>2. /\ packets \o more \in Seq(Seq(PipeBytes)) /\ Len(packets \o more) = Len(packets) + k
        /\ \A i \in 1..(Len(packets) + k) : (packets \o more)[i] =
             IF i <= Len(packets) THEN packets[i] ELSE more[i - Len(packets)]
    BY <1>3, <1>18, ConcatProperties
  <2>3. \A i \in 1..(Len(packets) + k) : ~(i <= Len(packets)) => i - Len(packets) \in 1..k
    BY <1>10
  <2> QED
    BY <1>18, <2>1, <2>2, <2>3
<1>20. Received(muxDevice, left, packets', done)
  <2>1. done + Len(packets') = f + k /\ f + k <= N
    BY <1>10, <1>13, <1>19
  <2>2. ASSUME NEW i \in DOMAIN packets'
        PROVE  packets'[i] = [j \in 1..muxDevice[done + i].size |-> [no |-> done + i, at |-> j]]
    <3>1. i \in 1..(Len(packets) + k)
      BY <1>19
    <3>2. CASE i <= Len(packets)
      <4>1. packets'[i] = packets[i]
        BY <1>19, <3>1, <3>2
      <4>2. i \in 1..Len(packets)
        BY ONLY <1>10, <3>1, <3>2
      <4>3. i \in DOMAIN packets
        BY <1>3, <4>2
      <4> QED
        BY <1>2, <4>1, <4>3 DEF Received
    <3>3. CASE ~(i <= Len(packets))
      <4> DEFINE h == i - Len(packets)
      <4>1. h \in 1..k /\ f + h = done + i
        BY <1>10, <3>1, <3>3
      <4>2. packets'[i] = Found(h)
        BY <1>19, <3>1, <3>3
      <4> HIDE DEF h, f
      <4> QED
        BY <1>17, <4>1, <4>2
    <3> QED
      BY <3>2, <3>3
  <2> QED
    BY <1>16, <2>1, <2>2 DEF Received
<1>21. FramingTyped'
  <2>1. pipe' \in Seq(PipeBytes)
    BY <1>1, <1>5 DEF rest
  <2> QED
    BY <1>2, <1>14, <1>19, <2>1 DEF FramingTyped
<1>22. SentSound' /\ HandledSound(muxDevice, handled, version)' /\ DeviceSound(muxDevice)'
  BY <1>2 DEF FramingInv, SentSound, Numbered, HandledSound, DeviceSound
<1> QED
  BY <1>2, <1>20, <1>21, <1>22 DEF FramingInv

\* A packet that the device sends adds its bytes at the end.
LEMMA HoldsMore ==
  ASSUME NEW sent \in Seq(DevicePackets), NEW p \in DevicePackets,
         NEW bytes \in Seq(PipeBytes), NEW f \in 0..Len(sent), NEW at, Holds(sent, bytes, f, at),
         NEW more \in Seq(PipeBytes), Len(more) = p.size,
         \A j \in 1..p.size : more[j] = [no |-> Len(sent) + 1, at |-> j]
  PROVE  \E to : Holds(Append(sent, p), bytes \o more, f, to)
<1> DEFINE N == Len(sent)
           L == Len(bytes)
           all == Append(sent, p)
           s == bytes \o more
           to == [i \in f..(N + 1) |-> IF i <= N THEN at[i] ELSE L + p.size]
<1>0. N \in Nat /\ L \in Nat /\ p.size \in Nat /\ f \in 0..N
  BY DEF DevicePackets
<1>1. /\ at \in [f..N -> 0..L] /\ at[f] = 0 /\ at[N] = L
      /\ \A i, j \in f..N : i <= j => at[i] <= at[j]
      /\ \A i \in (f + 1)..N :
           /\ at[i] = at[i - 1] + sent[i].size
           /\ \A j \in 1..sent[i].size : bytes[at[i - 1] + j] = [no |-> i, at |-> j]
  BY DEF Holds
<1>2. Len(all) = N + 1 /\ all[N + 1] = p /\ \A i \in 1..N : all[i] = sent[i]
  BY AppendProperties
<1>3. /\ Len(s) = L + p.size
      /\ \A x \in 1..(L + p.size) : s[x] = IF x <= L THEN bytes[x] ELSE more[x - L]
  BY ConcatProperties
<1>4. \A i \in 1..N : sent[i].size \in Nat
  BY PacketSizes
<1>5. \A j \in 1..p.size : more[j] = [no |-> N + 1, at |-> j]
  OBVIOUS
<1> HIDE DEF N, L, all, s
<1>6. \A i \in f..N : at[i] \in Nat /\ at[i] <= L
  <2>1. \A y \in 0..L : y \in Nat /\ y <= L
    BY ONLY <1>0
  <2>2. at \in [f..N -> 0..L]
    BY <1>1
  <2> QED
    BY ONLY <2>1, <2>2
<1>7. to \in [f..(N + 1) -> 0..(L + p.size)]
  BY <1>0, <1>6
<1>8. to[f] = 0 /\ to[N + 1] = L + p.size
  BY <1>0, <1>1
<1>9. \A i, j \in f..(N + 1) : i <= j => to[i] <= to[j]
  BY <1>0, <1>1, <1>6
<1>10. ASSUME NEW i \in (f + 1)..(N + 1)
       PROVE  /\ to[i] = to[i - 1] + all[i].size
              /\ \A j \in 1..all[i].size : s[to[i - 1] + j] = [no |-> i, at |-> j]
  <2>1. CASE i <= N
    <3>1. i \in (f + 1)..N /\ i - 1 \in f..N /\ i \in f..N /\ i \in 1..N
      BY <1>0, <2>1
    <3>2. all[i] = sent[i] /\ to[i] = at[i] /\ to[i - 1] = at[i - 1]
      BY <1>2, <3>1
    <3>3. ASSUME NEW j \in 1..sent[i].size PROVE s[at[i - 1] + j] = [no |-> i, at |-> j]
      <4>1. at[i - 1] + j \in 1..(L + p.size) /\ at[i - 1] + j <= L
        <5>1. /\ at[i - 1] \in Nat /\ sent[i].size \in Nat /\ at[i] <= L
              /\ at[i] = at[i - 1] + sent[i].size /\ j \in 1..sent[i].size
          BY <1>1, <1>4, <1>6, <3>1
        <5> DEFINE a == at[i - 1]
                   b == at[i]
                   z == sent[i].size
                   q == p.size
        <5>2. a \in Nat /\ z \in Nat /\ b <= L /\ b = a + z /\ j \in 1..z /\ L \in Nat /\ q \in Nat
          BY <1>0, <5>1
        <5> HIDE DEF a, b, z, q
        <5>3. a + j \in 1..(L + q) /\ a + j <= L
          BY ONLY <5>2
        <5> QED
          BY <5>3 DEF a, q
      <4> QED
        BY <1>1, <1>3, <3>1, <4>1, SMTT(30)
    <3> QED
      BY <1>1, <3>1, <3>2, <3>3, ZenonT(60)
  <2>2. CASE ~(i <= N)
    <3>1. i = N + 1 /\ i - 1 = N /\ N \in f..N /\ i \in f..(N + 1) /\ i - 1 \in f..(N + 1)
      <4>1. f \in 0..N /\ N \in Nat /\ i \in (f + 1)..(N + 1) /\ ~(i <= N)
        BY <1>0, <2>2
      <4> QED
        BY ONLY <4>1
    <3>2. all[i] = p /\ to[i] = L + p.size /\ to[i - 1] = L
      BY <1>0, <1>1, <1>2, <2>2, <3>1
    <3>3. ASSUME NEW j \in 1..p.size PROVE s[L + j] = [no |-> i, at |-> j]
      <4>1. L + j \in 1..(L + p.size) /\ ~(L + j <= L) /\ (L + j) - L = j
        BY <1>0, SMTT(30)
      <4> QED
        BY <1>3, <1>5, <3>1, <4>1
    <3> QED
      BY <3>2, <3>3
  <2> QED
    BY <2>1, <2>2
<1> HIDE DEF to
<1>11. Holds(all, s, f, to)
  BY <1>2, <1>3, <1>7, <1>8, <1>9, <1>10 DEF Holds
<1> QED
  BY <1>11 DEF all, s

\* The device's sending keeps the account.
LEMMA DeviceWritesKeeps ==
  ASSUME FramingInv, DeviceWrites
  PROVE  FramingInv'
<1>1. PICK protocol \in {"version", "tcp"}, n \in Payloads :
        LET v2 == protocol = "tcp"
            size == HeaderSize(v2) + n
        IN /\ muxDevice = <<>> => protocol = "version"
           /\ muxDevice' = Append(muxDevice, [protocol |-> protocol, v2 |-> v2, size |-> size])
           /\ pipe' = pipe \o [i \in 1..size |-> [no |-> Len(muxDevice'), at |-> i]]
  BY DEF DeviceWrites
<1> DEFINE v2 == protocol = "tcp"
           size == HeaderSize(v2) + n
           p == [protocol |-> protocol, v2 |-> v2, size |-> size]
           no == Len(muxDevice) + 1
           more == [i \in 1..size |-> [no |-> no, at |-> i]]
           f == Len(handled) + Len(packets)
<1>2. /\ UNCHANGED <<readBuffer, packets, handled, version, txSeq, writes, wire, framesSent>>
      /\ FramingTyped /\ DeviceSound(muxDevice)
      /\ Received(muxDevice, readBuffer \o pipe, packets, Len(handled))
      /\ HandledSound(muxDevice, handled, version) /\ SentSound
  BY DEF DeviceWrites, FramingInv
<1>3. size \in Nat /\ size >= LegacyHeader
  BY FramingNumbers
<1>4. p \in DevicePackets
  BY <1>3 DEF DevicePackets
<1>5. p.size = size /\ p.v2 = v2 /\ p.protocol = protocol
  OBVIOUS
<1>6. /\ muxDevice \in Seq(DevicePackets)
      /\ pipe \in Seq(PipeBytes) /\ readBuffer \in Seq(PipeBytes)
      /\ Len(muxDevice) \in Nat /\ no \in Nat
  BY <1>2 DEF FramingTyped
<1>7. muxDevice' = Append(muxDevice, p)
  BY <1>1
<1> HIDE DEF size, p, v2
<1>8. /\ muxDevice' \in Seq(DevicePackets) /\ Len(muxDevice') = no /\ muxDevice'[no] = p
      /\ \A i \in 1..Len(muxDevice) : muxDevice'[i] = muxDevice[i]
  BY <1>4, <1>6, <1>7, AppendProperties
<1>9. pipe' = pipe \o more
  BY <1>1, <1>8 DEF size, v2
<1>10. more \in Seq(PipeBytes) /\ Len(more) = p.size
       /\ \A j \in 1..p.size : more[j] = [no |-> Len(muxDevice) + 1, at |-> j]
  BY <1>3, <1>5, <1>6 DEF PipeBytes
<1> HIDE DEF more, no
<1>11. pipe' \in Seq(PipeBytes) /\ readBuffer' \o pipe' = (readBuffer \o pipe) \o more
  <2>1. pipe \o more \in Seq(PipeBytes)
    BY <1>6, <1>10, ConcatProperties
  <2>2. readBuffer \o (pipe \o more) = (readBuffer \o pipe) \o more
    BY <1>6, <1>10, ConcatAssociative, SMTT(30)
  <2> QED
    BY <1>2, <1>9, <2>1, <2>2
<1>12. PICK at : Holds(muxDevice, readBuffer \o pipe, f, at)
  BY <1>2 DEF Received
<1>13. f \in 0..Len(muxDevice) /\ Len(handled) \in Nat /\ Len(packets) \in Nat
  <2>1. Len(handled) \in Nat /\ Len(packets) \in Nat
    BY <1>2 DEF FramingTyped
  <2>2. f <= Len(muxDevice)
    BY <1>2 DEF Received
  <2> QED
    BY <1>6, <2>1, <2>2
<1>14. \E to : Holds(muxDevice', readBuffer' \o pipe', f, to)
  <2> DEFINE bytes == readBuffer \o pipe
  <2>1. bytes \in Seq(PipeBytes)
    BY <1>6, ConcatProperties
  <2> HIDE DEF bytes, f
  <2>2. \E to : Holds(Append(muxDevice, p), bytes \o more, f, to)
    BY <1>4, <1>6, <1>10, <1>12, <1>13, <2>1, HoldsMore DEF bytes
  <2> QED
    BY <1>7, <1>11, <2>2 DEF bytes
<1>15. Received(muxDevice', readBuffer' \o pipe', packets', Len(handled'))
  <2>1. ASSUME NEW i \in DOMAIN packets
        PROVE  packets[i] = [j \in 1..muxDevice'[Len(handled) + i].size |->
                               [no |-> Len(handled) + i, at |-> j]]
    <3>1. i \in 1..Len(packets)
      BY <1>2 DEF FramingTyped
    <3>2. Len(handled) + i \in 1..Len(muxDevice)
      BY <1>6, <1>13, <3>1
    <3> QED
      BY <1>2, <1>8, <3>2 DEF Received
  <2>2. f <= Len(muxDevice')
    BY <1>6, <1>8, <1>13 DEF no
  <2> QED
    BY <1>2, <1>14, <2>1, <2>2 DEF Received
<1>16. DeviceSound(muxDevice')
  <2>1. ASSUME NEW i \in DOMAIN muxDevice'
        PROVE  /\ muxDevice'[i].size >= LegacyHeader
               /\ muxDevice'[i].v2 <=> muxDevice'[i].protocol = "tcp"
               /\ i = 1 => muxDevice'[i].protocol = "version"
    <3>1. i \in 1..no
      BY <1>8
    <3>2. CASE i \in 1..Len(muxDevice)
      <4>1. i \in DOMAIN muxDevice
        BY <1>6, <3>2
      <4> QED
        BY <1>2, <1>8, <3>2, <4>1 DEF DeviceSound
    <3>3. CASE i = no
      <4>1. muxDevice'[i] = p
        BY <1>8, <3>3
      <4>2. i = 1 => protocol = "version"
        <5>1. i = 1 => Len(muxDevice) = 0
          BY <1>6, <3>3 DEF no
        <5>2. Len(muxDevice) = 0 => muxDevice = <<>>
          BY <1>6, EmptySeq
        <5> QED
          BY <1>1, <5>1, <5>2
      <4> QED
        BY <1>3, <1>5, <4>1, <4>2 DEF v2
    <3> QED
      BY <1>6, <3>1, <3>2, <3>3 DEF no
  <2> QED
    BY <2>1 DEF DeviceSound
<1>17. HandledSound(muxDevice', handled', version')
  <2>1. ASSUME NEW i \in DOMAIN handled
        PROVE  handled[i] = [no |-> i, v2 |-> muxDevice'[i].v2, size |-> muxDevice'[i].size]
    <3>1. i \in 1..Len(handled)
      BY <1>2 DEF FramingTyped
    <3>2. i \in 1..Len(muxDevice)
      BY <1>6, <1>13, <3>1
    <3> QED
      BY <1>2, <1>8, <3>2 DEF HandledSound
  <2> QED
    BY <1>2, <2>1 DEF HandledSound
<1>18. FramingTyped'
  BY <1>2, <1>8, <1>11 DEF FramingTyped
<1>19. SentSound'
  BY <1>2 DEF SentSound, Numbered
<1> QED
  BY <1>15, <1>16, <1>17, <1>18, <1>19 DEF FramingInv

\* Wrapping the number of a packet early makes no difference to the next one's.
LEMMA NextSeqWraps ==
  ASSUME NEW n \in Nat
  PROVE  NextSeq(n % SeqLimit) = (n + 1) % SeqLimit /\ NextSeq(n % SeqLimit) \in Nat
<1> DEFINE m == SeqLimit
           q == n \div m
           r == n % m
<1>1. m \in Nat \ {0}
  BY FramingNumbers
<1>2. q \in Int /\ r \in 0..(m - 1) /\ n = m * q + r
  <2> HIDE DEF m
  <2> QED
    BY <1>1, SMTT(20)
<1>3. (r + 1) % m = (n + 1) % m
  <2> HIDE DEF q, r, m
  <2>1. CASE r + 1 = m
    <3>1. n + 1 = m * (q + 1) + 0
      BY <1>1, <1>2, <2>1
    <3>2. (n + 1) % m = 0
      <4> DEFINE a == n + 1
                 c == q + 1
      <4>1. a \in Nat /\ c \in Int /\ a = m * c + 0
        BY <1>2, <3>1
      <4> HIDE DEF a, c
      <4>2. a % m = 0
        BY <1>1, <4>1, SMTT(20)
      <4> QED
        BY <4>2 DEF a
    <3>3. m % m = 0
      BY <1>1, SMTT(20)
    <3> QED
      BY <2>1, <3>2, <3>3
  <2>2. CASE r + 1 # m
    <3> DEFINE a == n + 1
               s == r + 1
    <3>1. a \in Nat /\ s \in 0..(m - 1) /\ a = m * q + s
      BY <1>1, <1>2, <2>2
    <3> HIDE DEF a, s
    <3>2. a % m = s
      BY <1>1, <1>2, <3>1, SMTT(20)
    <3>3. s % m = s
      BY <1>1, <3>1, SMTT(20)
    <3> QED
      BY <3>2, <3>3 DEF a, s
  <2> QED
    BY <2>1, <2>2
<1>4. (n + 1) % m \in Nat
  BY <1>1
<1> QED
  BY <1>3, <1>4 DEF NextSeq

\* Sending does not touch what was received.
LEMMA ReceivingStays ==
  ASSUME FramingInv, UNCHANGED <<muxDevice, pipe, readBuffer, packets, handled, version>>
  PROVE  /\ DeviceSound(muxDevice')
         /\ Received(muxDevice', readBuffer' \o pipe', packets', Len(handled'))
         /\ HandledSound(muxDevice', handled', version')
BY DEF FramingInv

\* sendMuxPacket(): the next number goes to the end of the chain.
LEMMA SendMuxKeeps ==
  ASSUME FramingInv, SendMux
  PROVE  FramingInv'
<1> DEFINE seq == IF framesSent = 0 THEN 0 ELSE txSeq
           p == [no |-> framesSent, v2 |-> version, seq |-> seq]
<1>1. /\ writes' = Append(writes, p) /\ txSeq' = NextSeq(seq) /\ framesSent' = framesSent + 1
      /\ UNCHANGED <<muxDevice, pipe, readBuffer, packets, handled, version, wire>>
  BY DEF SendMux
<1>2. /\ framesSent \in Nat /\ txSeq \in Nat /\ version \in BOOLEAN
      /\ writes \in Seq(HostPackets) /\ wire \in Seq(HostPackets) /\ SentSound
  BY DEF FramingInv, FramingTyped
<1>3. seq = framesSent % SeqLimit /\ seq \in Nat
  <2>1. 0 % SeqLimit = 0
    BY FramingNumbers
  <2> QED
    BY <1>2, <2>1 DEF SentSound
<1> HIDE DEF seq
<1>4. txSeq' = framesSent' % SeqLimit /\ txSeq' \in Nat /\ framesSent' \in Nat
  BY <1>1, <1>2, <1>3, NextSeqWraps
<1>5. p \in HostPackets /\ p.no = framesSent /\ p.seq = p.no % SeqLimit
  BY <1>2, <1>3 DEF HostPackets
<1> HIDE DEF p
<1>6. /\ writes' \in Seq(HostPackets) /\ Len(writes') = Len(writes) + 1 /\ Len(writes) \in Nat
      /\ writes'[Len(writes) + 1] = p /\ \A i \in 1..Len(writes) : writes'[i] = writes[i]
  BY <1>1, <1>2, <1>5, AppendProperties
<1> DEFINE w == writes'
<1> HIDE DEF w
<1>7. ASSUME NEW i \in DOMAIN w
      PROVE  w[i].seq = w[i].no % SeqLimit /\ w[i].no < framesSent + 1 /\ w[i].no \in Nat
  <2>1. i \in 1..(Len(writes) + 1)
    BY <1>6 DEF w
  <2>2. CASE i \in 1..Len(writes)
    <3>1. w[i] = writes[i] /\ i \in DOMAIN writes /\ writes[i] \in HostPackets
      BY <1>2, <1>6, <2>2 DEF w
    <3>2. /\ writes[i].no \in Nat /\ writes[i].no < framesSent
          /\ writes[i].seq = writes[i].no % SeqLimit
      BY <1>2, <3>1 DEF SentSound, Numbered, HostPackets
    <3> DEFINE no == writes[i].no
    <3>3. no < framesSent + 1
      <4>1. no \in Nat /\ no < framesSent
        BY <3>2
      <4> HIDE DEF no
      <4> QED
        BY <1>2, <4>1
    <3> QED
      BY <3>1, <3>2, <3>3
  <2>3. CASE i = Len(writes) + 1
    BY <1>2, <1>5, <1>6, <2>3 DEF w
  <2> QED
    BY <1>6, <2>1, <2>2, <2>3
<1>8. ASSUME NEW i \in DOMAIN w, NEW j \in DOMAIN w, i < j PROVE w[i].no < w[j].no
  <2>1. i \in 1..Len(writes) /\ j \in 1..(Len(writes) + 1) /\ i \in DOMAIN writes
    BY <1>2, <1>6, <1>8 DEF w
  <2>2. w[i] = writes[i]
    BY <1>6, <2>1 DEF w
  <2>3. CASE j \in 1..Len(writes)
    <3>1. w[j] = writes[j] /\ j \in DOMAIN writes
      BY <1>2, <1>6, <2>3 DEF w
    <3> QED
      BY <1>2, <1>8, <2>1, <2>2, <3>1 DEF SentSound, Numbered
  <2>4. CASE j = Len(writes) + 1
    <3>1. w[j].no = framesSent
      BY <1>5, <1>6, <2>4 DEF w
    <3> QED
      BY <1>2, <2>1, <2>2, <3>1 DEF SentSound
  <2> QED
    BY <1>6, <2>1, <2>3, <2>4
<1>9. ASSUME NEW i \in DOMAIN wire PROVE wire[i].no < framesSent + 1 /\ wire[i].no < framesSent
  <2>1. wire[i].no < framesSent /\ wire[i] \in HostPackets
    BY <1>2 DEF SentSound
  <2>2. wire[i].no \in Nat
    BY <2>1 DEF HostPackets
  <2> DEFINE no == wire[i].no
  <2>3. no \in Nat /\ no < framesSent
    BY <2>1, <2>2
  <2> HIDE DEF no
  <2>4. no < framesSent + 1
    BY <1>2, <2>3
  <2> QED
    BY <2>3, <2>4 DEF no
<1>10. ASSUME NEW i \in DOMAIN wire, NEW j \in DOMAIN w PROVE wire[i].no < w[j].no
  <2>1. j \in 1..(Len(writes) + 1)
    BY <1>6 DEF w
  <2>2. CASE j \in 1..Len(writes)
    <3>1. w[j] = writes[j] /\ j \in DOMAIN writes
      BY <1>2, <1>6, <2>2 DEF w
    <3> QED
      BY <1>2, <3>1 DEF SentSound
  <2>3. CASE j = Len(writes) + 1
    <3>1. w[j].no = framesSent
      BY <1>5, <1>6, <2>3 DEF w
    <3> QED
      BY <1>9, <3>1
  <2> QED
    BY <1>6, <2>1, <2>2, <2>3
<1>11. Numbered(w) /\ Numbered(wire)
  BY <1>2, <1>7, <1>8 DEF Numbered, SentSound
<1>12. SentSound'
  <2>1. /\ wire' = wire /\ writes' = w /\ framesSent' = framesSent + 1
    BY <1>1 DEF w
  <2>2. /\ \A i \in DOMAIN w : w[i].no < framesSent + 1
        /\ \A i \in DOMAIN wire : wire[i].no < framesSent + 1
        /\ \A i \in DOMAIN wire, j \in DOMAIN w : wire[i].no < w[j].no
    BY <1>7, <1>9, <1>10
  <2>3. Numbered(writes)' /\ Numbered(wire)'
    BY <1>11, <2>1 DEF Numbered
  <2> QED
    BY <1>4, <2>1, <2>2, <2>3 DEF SentSound
<1>13. FramingTyped'
  BY <1>1, <1>4, <1>6 DEF FramingInv, FramingTyped
<1> QED
  BY <1>1, <1>12, <1>13, ReceivingStays DEF FramingInv

\* transferOut() takes the first of the chain.
LEMMA TransmitKeeps ==
  ASSUME FramingInv, Transmit
  PROVE  FramingInv'
<1>1. PICK ok \in BOOLEAN :
        /\ 1 \in DOMAIN writes /\ writes' = RemoveAt(writes, 1)
        /\ wire' = IF ok THEN Append(wire, writes[1]) ELSE wire
  BY DEF Transmit, NextWrite
<1>2. UNCHANGED <<muxDevice, pipe, readBuffer, packets, handled, version, txSeq, framesSent>>
  BY DEF Transmit
<1>3. /\ framesSent \in Nat /\ writes \in Seq(HostPackets) /\ wire \in Seq(HostPackets)
      /\ SentSound /\ Len(writes) \in Nat \ {0} /\ Len(wire) \in Nat
  BY <1>1 DEF FramingInv, FramingTyped
<1> DEFINE p == writes[1]
           w == RemoveAt(writes, 1)
<1>4. /\ w \in Seq(HostPackets) /\ Len(w) = Len(writes) - 1
      /\ \A i \in 1..Len(w) : w[i] = writes[i + 1]
  <2> DEFINE a == SubSeq(writes, 1, 0)
             b == SubSeq(writes, 2, Len(writes))
  <2>1. a = <<>>
    BY SubSeqEmpty
  <2>2. /\ b \in Seq(HostPackets) /\ Len(b) = Len(writes) - 1
        /\ \A i \in 1..Len(b) : b[i] = writes[i + 1]
    <3> DEFINE n == Len(writes)
    <3>1. n \in Nat \ {0} /\ \A i \in 2..n : writes[i] \in HostPackets
      BY <1>3
    <3>2. /\ b \in Seq(HostPackets) /\ Len(b) = (IF 2 <= n THEN n - 2 + 1 ELSE 0)
          /\ \A i \in 1..(n - 2 + 1) : b[i] = writes[2 + i - 1]
      BY <3>1, SubSeqProperties
    <3> HIDE DEF n
    <3>3. /\ (IF 2 <= n THEN n - 2 + 1 ELSE 0) = n - 1 /\ n - 2 + 1 = n - 1
          /\ \A i \in 1..(n - 1) : 2 + i - 1 = i + 1
      BY ONLY <3>1
    <3> QED
      BY <3>2, <3>3 DEF n
  <2>3. w = a \o b
    BY DEF RemoveAt
  <2> HIDE DEF a, b, w
  <2>4. w = b
    BY <2>1, <2>2, <2>3, ConcatEmptySeq
  <2> QED
    BY <2>2, <2>4
<1> HIDE DEF w
<1>5. \A i \in DOMAIN w : i \in 1..Len(w) /\ i + 1 \in DOMAIN writes /\ w[i] = writes[i + 1]
  BY <1>3, <1>4
<1>6. Numbered(w)
  <2>1. ASSUME NEW i \in DOMAIN w, NEW j \in DOMAIN w, i < j PROVE w[i].no < w[j].no
    <3>1. i + 1 < j + 1 /\ i + 1 \in DOMAIN writes /\ j + 1 \in DOMAIN writes
      BY <1>5, <2>1
    <3> QED
      BY <1>3, <1>5, <3>1 DEF SentSound, Numbered
  <2>2. ASSUME NEW i \in DOMAIN w PROVE w[i].seq = w[i].no % SeqLimit
    BY <1>3, <1>5 DEF SentSound, Numbered
  <2> QED
    BY <2>1, <2>2 DEF Numbered
<1>7. \A i \in DOMAIN w : w[i].no < framesSent /\ p.no < w[i].no
  <2>1. ASSUME NEW i \in DOMAIN w PROVE w[i].no < framesSent /\ p.no < w[i].no
    <3>1. 1 < i + 1 /\ 1 \in DOMAIN writes /\ i + 1 \in DOMAIN writes
      BY <1>1, <1>4, <1>5
    <3> QED
      BY <1>3, <1>5, <3>1 DEF SentSound, Numbered
  <2> QED
    BY <2>1
<1>8. /\ p \in HostPackets /\ p.no < framesSent /\ p.seq = p.no % SeqLimit
      /\ \A i \in DOMAIN wire : wire[i].no < p.no
  BY <1>1, <1>3 DEF SentSound, Numbered
<1> DEFINE out == wire'
<1> HIDE DEF p, out
<1>9. /\ out \in Seq(HostPackets) /\ Numbered(out)
      /\ \A i \in DOMAIN out : out[i] = p \/ \E j \in DOMAIN wire : out[i] = wire[j]
  <2>1. CASE ok
    <3>1. out = Append(wire, p)
      BY <1>1, <2>1 DEF out, p
    <3>2. /\ out \in Seq(HostPackets) /\ Len(out) = Len(wire) + 1 /\ out[Len(wire) + 1] = p
          /\ \A i \in 1..Len(wire) : out[i] = wire[i]
      BY <1>3, <1>8, <3>1, AppendProperties
    <3>3. \A i \in DOMAIN out : \/ i = Len(wire) + 1 /\ out[i] = p
                                \/ i \in DOMAIN wire /\ out[i] = wire[i]
      BY <1>3, <3>2
    <3>4. ASSUME NEW i \in DOMAIN out, NEW j \in DOMAIN out, i < j PROVE out[i].no < out[j].no
      <4>1. i \in DOMAIN wire /\ out[i] = wire[i]
        <5>1. i # Len(wire) + 1
          BY <1>3, <3>2, <3>4
        <5> QED
          BY <3>3, <5>1
      <4>2. CASE j = Len(wire) + 1
        BY <1>8, <3>2, <4>1, <4>2
      <4>3. CASE j \in DOMAIN wire /\ out[j] = wire[j]
        BY <1>3, <3>4, <4>1, <4>3 DEF SentSound, Numbered
      <4> QED
        BY <3>3, <4>2, <4>3
    <3>5. ASSUME NEW i \in DOMAIN out PROVE out[i].seq = out[i].no % SeqLimit
      BY <1>3, <1>8, <3>3 DEF SentSound, Numbered
    <3> QED
      BY <3>2, <3>3, <3>4, <3>5 DEF Numbered
  <2>2. CASE ~ok
    BY <1>1, <1>3, <2>2 DEF out, SentSound
  <2> QED
    BY <2>1, <2>2
<1>10. /\ \A i \in DOMAIN out : out[i].no < framesSent
       /\ \A i \in DOMAIN out, j \in DOMAIN w : out[i].no < w[j].no
  <2>1. ASSUME NEW i \in DOMAIN out
        PROVE  out[i].no < framesSent /\ \A j \in DOMAIN w : out[i].no < w[j].no
    <3>1. CASE out[i] = p
      BY <1>7, <1>8, <3>1
    <3>2. CASE \E j \in DOMAIN wire : out[i] = wire[j]
      <4>1. PICK j \in DOMAIN wire : out[i] = wire[j]
        BY <3>2
      <4>2. \A k \in DOMAIN w : wire[j].no < w[k].no
        BY <1>3, <1>5 DEF SentSound
      <4> QED
        BY <1>3, <4>1, <4>2 DEF SentSound
    <3> QED
      BY <1>9, <3>1, <3>2
  <2> QED
    BY <2>1
<1>11. SentSound'
  <2>1. writes' = w /\ wire' = out /\ framesSent' = framesSent /\ txSeq' = txSeq
    BY <1>1, <1>2 DEF w, out
  <2>2. Numbered(writes)' /\ Numbered(wire)'
    BY <1>6, <1>9, <2>1 DEF Numbered
  <2> QED
    BY <1>3, <1>7, <1>10, <2>1, <2>2 DEF SentSound
<1>12. FramingTyped'
  BY <1>1, <1>2, <1>4, <1>9 DEF FramingInv, FramingTyped, w, out
<1> QED
  BY <1>2, <1>11, <1>12, ReceivingStays DEF FramingInv

\* handleMuxPacket() takes the first of the chain, in the format it was sent in.
LEMMA HandleKeeps ==
  ASSUME FramingInv, Handle
  PROVE  FramingInv'
<1> DEFINE q == Head(packets)
           done == Len(handled)
           no == done + 1
           d == muxDevice[no]
           x == [no |-> q[1].no, v2 |-> Decodes(q), size |-> Len(q)]
<1>1. /\ packets # <<>> /\ handled' = Append(handled, x)
      /\ version' = (version \/ muxDevice[q[1].no].protocol = "version")
      /\ packets' = Tail(packets)
      /\ UNCHANGED <<muxDevice, pipe, readBuffer, txSeq, writes, wire, framesSent>>
  BY DEF Handle
<1>2. /\ FramingTyped /\ DeviceSound(muxDevice)
      /\ Received(muxDevice, readBuffer \o pipe, packets, done)
      /\ HandledSound(muxDevice, handled, version) /\ SentSound
  BY DEF FramingInv
<1>3. /\ muxDevice \in Seq(DevicePackets) /\ packets \in Seq(Seq(PipeBytes))
      /\ handled \in Seq(HandledPackets) /\ version \in BOOLEAN
      /\ done \in Nat /\ Len(packets) \in Nat \ {0} /\ Len(muxDevice) \in Nat
  BY <1>1, <1>2, SMTT(30) DEF FramingTyped
<1>4. /\ no \in 1..Len(muxDevice) /\ d \in DevicePackets /\ no \in DOMAIN muxDevice
  <2>1. done + Len(packets) <= Len(muxDevice)
    BY <1>2 DEF Received
  <2>2. no \in 1..Len(muxDevice)
    BY <1>3, <2>1
  <2> QED
    BY <1>3, <2>2
<1>5. /\ d.protocol \in {"version", "tcp"} /\ d.v2 \in BOOLEAN /\ d.size \in Nat
      /\ d.size >= LegacyHeader /\ (d.v2 <=> d.protocol = "tcp")
      /\ (no = 1 => d.protocol = "version")
  <2>1. d.protocol \in {"version", "tcp"} /\ d.v2 \in BOOLEAN /\ d.size \in Nat
    BY <1>4 DEF DevicePackets
  <2> QED
    BY <1>2, <1>4, <2>1 DEF DeviceSound
<1>6. q = [j \in 1..d.size |-> [no |-> no, at |-> j]]
  <2>1. 1 \in DOMAIN packets /\ q = packets[1]
    BY <1>3
  <2> HIDE DEF q
  <2> QED
    BY <1>2, <2>1 DEF Received
<1>7. q[1].no = no /\ Len(q) = d.size
  <2>1. 1 \in 1..d.size
    BY <1>5, FramingNumbers
  <2>2. q[1] = [no |-> no, at |-> 1]
    <3> HIDE DEF q, no, d
    <3> QED
      BY <1>6, <2>1
  <2>3. Len(q) = d.size
    <3> HIDE DEF q, d, no
    <3> QED
      BY <1>5, <1>6
  <2> QED
    BY <2>2, <2>3
<1>8. Decodes(q) = d.v2
  <2>1. Decodes(q) <=> (version /\ d.protocol # "version")
    BY <1>7 DEF Decodes
  <2>2. d.protocol = "tcp" => version
    <3>1. d.protocol = "tcp" => done # 0
      BY <1>5
    <3>2. done # 0 => handled # <<>>
      BY <1>3
    <3> QED
      BY <1>2, <3>1, <3>2 DEF HandledSound
  <2>3. (version /\ d.protocol # "version") <=> d.v2
    BY <1>5, <2>2
  <2>4. Decodes(q) \in BOOLEAN
    BY DEF Decodes
  <2> QED
    BY <1>5, <2>1, <2>3, <2>4
<1>9. x = [no |-> no, v2 |-> d.v2, size |-> d.size]
  BY <1>7, <1>8
<1>10. x \in HandledPackets /\ no \in Nat
  BY <1>3, <1>5, <1>9, SMTT(30) DEF HandledPackets
<1> HIDE DEF x, q
<1>11. /\ handled' \in Seq(HandledPackets) /\ Len(handled') = done + 1 /\ handled'[done + 1] = x
       /\ \A i \in 1..done : handled'[i] = handled[i]
  BY <1>1, <1>3, <1>10, AppendProperties
<1>12. /\ packets' \in Seq(Seq(PipeBytes)) /\ Len(packets') = Len(packets) - 1
       /\ \A i \in 1..Len(packets') : packets'[i] = packets[i + 1]
  BY <1>1, <1>3, HeadTailProperties
<1>13. version' \in BOOLEAN /\ version'
  <2>1. version' = (version \/ d.protocol = "version")
    BY <1>1, <1>7
  <2>2. version \/ d.protocol = "version"
    <3>1. d.protocol # "version" => done # 0
      BY <1>5
    <3>2. done # 0 => handled # <<>>
      BY <1>3
    <3> QED
      BY <1>2, <3>1, <3>2 DEF HandledSound
  <2> QED
    BY <2>1, <2>2
<1>14. HandledSound(muxDevice', handled', version')
  <2>1. ASSUME NEW i \in DOMAIN handled'
        PROVE  handled'[i] = [no |-> i, v2 |-> muxDevice[i].v2, size |-> muxDevice[i].size]
    <3>1. i \in 1..(done + 1)
      BY <1>11
    <3>2. CASE i \in 1..done
      <4>1. i \in DOMAIN handled
        BY <1>3, <3>2
      <4> QED
        BY <1>2, <1>11, <3>2, <4>1 DEF HandledSound
    <3>3. CASE i = done + 1
      BY <1>9, <1>11, <3>3
    <3> QED
      BY <1>3, <3>1, <3>2, <3>3
  <2> QED
    BY <1>1, <1>13, <2>1 DEF HandledSound
<1>15. Received(muxDevice', readBuffer' \o pipe', packets', Len(handled'))
  <2>1. Len(handled') + Len(packets') = done + Len(packets)
    BY <1>3, <1>11, <1>12
  <2>2. ASSUME NEW i \in DOMAIN packets'
        PROVE  packets'[i] = [j \in 1..muxDevice[(done + 1) + i].size |->
                                [no |-> (done + 1) + i, at |-> j]]
    <3>1. i \in 1..Len(packets')
      BY <1>12
    <3>3. i + 1 \in 1..Len(packets) /\ done + (i + 1) = (done + 1) + i
      <4> DEFINE l == Len(packets)
                 m == Len(packets')
      <4>1. l \in Nat \ {0} /\ m = l - 1 /\ i \in 1..m /\ done \in Nat
        BY <1>3, <1>12, <3>1
      <4> HIDE DEF done, l, m
      <4>2. i + 1 \in 1..l /\ done + (i + 1) = (done + 1) + i
        BY ONLY <4>1
      <4> QED
        BY <4>2 DEF l
    <3>4. i + 1 \in DOMAIN packets
      BY <1>3, <3>3
    <3>2. packets[i + 1] = [j \in 1..muxDevice[done + (i + 1)].size |->
                              [no |-> done + (i + 1), at |-> j]]
      BY <1>2, <3>4 DEF Received
    <3> QED
      BY <1>12, <3>1, <3>2, <3>3
  <2>3. /\ done + Len(packets) <= Len(muxDevice)
        /\ \E at : Holds(muxDevice, readBuffer \o pipe, done + Len(packets), at)
    BY <1>2 DEF Received
  <2> HIDE DEF done
  <2>4. Received(muxDevice, readBuffer \o pipe, packets', Len(handled'))
    BY <1>11, <2>1, <2>2, <2>3 DEF Received
  <2> QED
    BY <1>1, <2>4
<1>16. FramingTyped'
  BY <1>1, <1>2, <1>11, <1>12, <1>13 DEF FramingTyped
<1>17. SentSound' /\ DeviceSound(muxDevice')
  BY <1>1, <1>2 DEF SentSound, Numbered
<1> QED
  BY <1>14, <1>15, <1>16, <1>17 DEF FramingInv

\* Nothing is sent at the start.
LEMMA FramingStarts == FramingInit => FramingInv
<1> SUFFICES ASSUME FramingInit PROVE FramingInv
  OBVIOUS
<1>1. /\ muxDevice = <<>> /\ pipe = <<>> /\ readBuffer = <<>> /\ packets = <<>> /\ handled = <<>>
      /\ version = FALSE /\ txSeq = 0 /\ writes = <<>> /\ wire = <<>> /\ framesSent = 0
  BY DEF FramingInit
<1>2. FramingTyped
  <2>1. /\ <<>> \in Seq(DevicePackets) /\ <<>> \in Seq(PipeBytes) /\ <<>> \in Seq(Seq(PipeBytes))
        /\ <<>> \in Seq(HandledPackets) /\ <<>> \in Seq(HostPackets)
    BY EmptySeq
  <2> QED
    BY <1>1, <2>1 DEF FramingTyped
<1>3. DeviceSound(<<>>) /\ HandledSound(<<>>, <<>>, FALSE) /\ Numbered(<<>>)
  BY DEF DeviceSound, HandledSound, Numbered
<1>4. SentSound
  <2>1. 0 % SeqLimit = 0
    BY FramingNumbers
  <2> QED
    BY <1>1, <1>3, <2>1 DEF SentSound
<1>5. Received(<<>>, <<>>, <<>>, 0)
  <2> DEFINE at == [i \in 0..0 |-> 0]
  <2>1. Len(<<>>) = 0 /\ 0 + Len(<<>>) = 0
    OBVIOUS
  <2>2. Holds(<<>>, <<>>, 0, at)
    BY <2>1 DEF Holds
  <2> HIDE DEF at
  <2> QED
    BY <2>1, <2>2 DEF Received
<1>6. readBuffer \o pipe = <<>> /\ Len(handled) = 0
  BY <1>1
<1> QED
  BY <1>1, <1>2, <1>3, <1>4, <1>5, <1>6 DEF FramingInv

\* Every step of the framing keeps its invariant.
LEMMA FramingKeeps == FramingInv /\ [FramingNext]_framingVars => FramingInv'
<1>1. ASSUME FramingInv, UNCHANGED framingVars PROVE FramingInv'
  <2>1. /\ UNCHANGED <<muxDevice, pipe, readBuffer, packets, handled, version>>
        /\ UNCHANGED <<txSeq, writes, wire, framesSent>>
    BY <1>1 DEF framingVars
  <2>2. FramingTyped' /\ SentSound'
    BY <1>1, <2>1 DEF FramingInv, FramingTyped, SentSound, Numbered
  <2> QED
    BY <1>1, <2>1, <2>2, ReceivingStays DEF FramingInv
<1> QED
  BY <1>1, DeviceWritesKeeps, TransferKeeps, HandleKeeps, SendMuxKeeps, TransmitKeeps
  DEF FramingNext

\* However the bytes of the device fall into transfers, each of its packets is
\* handled once, whole, in turn and with the header it was sent with, and what
\* is written bears the numbers in the order of the wire: drainMuxPackets(),
\* packetChain, sendMuxPacket() and writeChain, for every size of packets and
\* transfers, any number of VERSION answers and any transfers that fail.
THEOREM PacketsInTurn == FramingSpec => []FramesInTurn
<1>1. FramingInit => FramingInv
  BY FramingStarts
<1>2. FramingInv /\ [FramingNext]_framingVars => FramingInv'
  BY FramingKeeps
<1>3. FramingInv => FramesInTurn
  <2> SUFFICES ASSUME FramingInv PROVE FramesInTurn
    OBVIOUS
  <2>1. ASSUME NEW i \in DOMAIN wire
        PROVE  /\ wire[i].seq = wire[i].no % SeqLimit
               /\ i > 1 => wire[i - 1].no < wire[i].no
    <3>1. i > 1 => i - 1 \in DOMAIN wire /\ i - 1 < i
      BY DEF FramingInv, FramingTyped
    <3> QED
      BY <3>1 DEF FramingInv, SentSound, Numbered
  <2> QED
    BY <2>1 DEF FramesInTurn, FramingInv, HandledSound
<1> QED
  BY <1>1, <1>2, <1>3, PTL DEF FramingSpec

\* No more packets than the bounds allow.
FramingBounded == Len(muxDevice) <= MaxDevice /\ framesSent <= MaxHost

\* The types of MuxFraming, sizes and numbers among them: a number of sendMuxPacket()
\* keeps to its 16 bits, whatever is sent and whenever the numbers start again.
THEOREM FramingTypesCorrect == FramingSpec => []FramingTypeOK
<1>1. FramingInit => FramingInv /\ FramingBounded
  <2>1. FramingInit => FramingBounded
    BY MuxFramingAssumption DEF FramingInit, FramingBounded
  <2> QED
    BY <2>1, FramingStarts
<1>2. FramingInv /\ FramingBounded /\ [FramingNext]_framingVars
        => (FramingInv /\ FramingBounded)'
  <2> SUFFICES ASSUME FramingInv, FramingBounded, [FramingNext]_framingVars
               PROVE  FramingBounded'
    BY FramingKeeps
  <2>1. /\ muxDevice \in Seq(DevicePackets) /\ framesSent \in Nat
        /\ MaxDevice \in Nat /\ MaxHost \in Nat
    BY MuxFramingAssumption DEF FramingInv, FramingTyped
  <2>2. CASE DeviceWrites
    <3>1. PICK protocol \in {"version", "tcp"}, n \in Payloads :
            muxDevice' = Append(muxDevice, [protocol |-> protocol, v2 |-> protocol = "tcp",
                                            size |-> HeaderSize(protocol = "tcp") + n])
      BY <2>2 DEF DeviceWrites
    <3>2. Len(muxDevice) < MaxDevice /\ UNCHANGED framesSent
      BY <2>2 DEF DeviceWrites
    <3>3. Len(muxDevice') = Len(muxDevice) + 1
      BY <2>1, <3>1
    <3> QED
      BY <2>1, <3>2, <3>3 DEF FramingBounded
  <2>3. CASE SendMux
    BY <2>1, <2>3 DEF SendMux, FramingBounded
  <2>4. CASE UNCHANGED <<muxDevice, framesSent>>
    BY <2>4 DEF FramingBounded
  <2> QED
    BY <2>2, <2>3, <2>4 DEF FramingNext, Transfer, Handle, Transmit, framingVars
<1>3. FramingInv /\ FramingBounded => FramingTypeOK
  <2> SUFFICES ASSUME FramingInv, FramingBounded PROVE FramingTypeOK
    OBVIOUS
  <2>1. framesSent \in Nat /\ txSeq = framesSent % SeqLimit /\ version \in BOOLEAN
    BY DEF FramingInv, FramingTyped, SentSound
  <2>2. framesSent % SeqLimit \in 0..(SeqLimit - 1)
    BY <2>1, FramingNumbers
  <2> QED
    BY <2>1, <2>2 DEF FramingBounded, FramingTypeOK
<1> QED
  BY <1>1, <1>2, <1>3, PTL DEF FramingSpec

=============================================================================
