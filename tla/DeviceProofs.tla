---------------------------- MODULE DeviceProofs ----------------------------
(***************************************************************************)
(* Proofs about what the device is reached with: the package that          *)
(* installIpa() stages with InstallServices, the replies that the requests *)
(* of Lockdown get, the sessions that RemotePairing leaves behind, and the *)
(* streams that the connect() of MuxConnect makes for all of them.  The    *)
(* other way to a device, the TcpTransport of NodeTransport, comes last:   *)
(* it implements ByteStream, the promise of a MuxTcp connection.  The type *)
(* invariant of each follows its own property.                             *)
(***************************************************************************)
EXTENDS Lockdown, InstallServices, RemotePairing, MuxConnect, NodeTransport,
        SequenceTheorems, TLAPS

-----------------------------------------------------------------------------
(* InstallServices: what is staged is the package.                         *)

AfcRequests == {"MakeDir", "FileOpen", "Write", "Abandon", "FileClose"}

AfcStates == [pc : AfcRequests \cup {"start", "staged", "failed"}, num : Nat,
              sent : 0..PackageChunks]

Packets == [op : AfcRequests \cup {"none"}, num : Nat, arg : Nat,
            result : AfcResults \cup {"none"}]

AfcdStates == [packet : Packets, reply : Packets, file : Seq(Nat), handle : BOOLEAN,
               up : BOOLEAN]

\* the first n chunks of the package
Chunked(n) == [i \in 1..n |-> i]

\* A request is under way from AfcRequest() to its reply: either the packet
\* or the reply is there, and a packet is the one of the place in installIpa().
PacketOfPlace ==
  /\ afc.pc = "start" => afcd.packet = NoPacket /\ afcd.reply = NoPacket
  /\ afc.pc \in AfcRequests /\ afcd.packet # NoPacket =>
       /\ afcd.packet.op = afc.pc /\ afcd.reply = NoPacket
       /\ afc.pc = "Write" => afcd.packet.arg = afc.sent + 1

\* What the staged file holds, at each place that an ok leads on from.
FileOfPlace ==
  /\ afc.pc \in {"start", "MakeDir", "FileOpen"} => afc.sent = 0
  /\ afc.pc = "FileOpen" /\ afcd.reply.result = "ok" =>
       afcd.file = Chunked(0) /\ afcd.handle
  /\ afc.pc = "Write" =>
       /\ afc.sent < PackageChunks
       /\ afcd.reply = NoPacket => afcd.file = Chunked(afc.sent) /\ afcd.handle
       /\ afcd.reply.result = "ok" => afcd.file = Chunked(afc.sent + 1) /\ afcd.handle
  /\ afc.pc = "FileClose" =>
       afcd.file = Package /\ (afcd.reply.result = "ok" => ~afcd.handle)
  /\ afc.pc = "staged" =>
       afcd.file = Package /\ ~afcd.handle /\ afcd.packet = NoPacket

\* What installation_proxy was told to install stays the staged package.
InstalledIsStaged ==
  proxyd.installed # <<>> => afc.pc = "staged" /\ proxyd.installed = Package

ProxyStates == [op : {"install", "browse"}, pc : {"idle", "waiting", "complete", "failed"},
                count : Nat, apps : SUBSET {"list"}]

ProxyMessages == {"status", "list", "Complete", "error"}

ProxydStates == [wire : Seq(ProxyMessages), up : BOOLEAN, busy : BOOLEAN,
                 installed : Seq(Nat)]

ServicesTyped ==
  /\ afc \in AfcStates /\ afcd \in AfcdStates
  /\ proxy \in ProxyStates /\ proxyd \in ProxydStates

\* The inductive invariant of the installation.
StagingInv == ServicesTyped /\ PacketOfPlace /\ FileOfPlace /\ InstalledIsStaged

\* A chunk appended to the first n is the first n + 1.
LEMMA NextChunked ==
  ASSUME NEW n \in Nat
  PROVE  /\ Chunked(n) \in Seq(Nat) /\ Append(Chunked(n), n + 1) = Chunked(n + 1)
         /\ Chunked(0) = <<>>
<1>1. Chunked(n) \in Seq(Nat) /\ Chunked(n + 1) \in Seq(Nat) BY DEF Chunked
<1>2. Chunked(0) = <<>> BY DEF Chunked
<1>3. Len(Chunked(n)) = n /\ Len(Chunked(n + 1)) = n + 1 BY DEF Chunked
<1>4. Append(Chunked(n), n + 1) = Chunked(n + 1)
  <2>1. Append(Chunked(n), n + 1) \in Seq(Nat) /\ Len(Append(Chunked(n), n + 1)) = n + 1
    BY <1>1, <1>3
  <2>2. \A i \in 1..(n + 1) : Append(Chunked(n), n + 1)[i] = Chunked(n + 1)[i]
    <3>1. SUFFICES ASSUME NEW i \in 1..(n + 1)
                   PROVE  Append(Chunked(n), n + 1)[i] = Chunked(n + 1)[i]
      OBVIOUS
    <3>2. CASE i \in 1..n BY <1>1, <1>3, <3>2 DEF Chunked
    <3>3. CASE i = n + 1 BY <1>1, <1>3, <3>3 DEF Chunked
    <3>4. i \in 1..n \/ i = n + 1 BY <3>1
    <3>5. QED BY <3>2, <3>3, <3>4
  <2>3. QED BY <1>1, <1>3, <2>1, <2>2 DEF Chunked
<1>5. QED BY <1>1, <1>2, <1>4

\* The package is its first PackageChunks chunks.
LEMMA PackageChunked == Package = Chunked(PackageChunks)
BY DEF Package, Chunked

\* The first requests are made by nobody: the invariant holds initially.
LEMMA StagingStarts == ServicesInit => StagingInv
<1>1. SUFFICES ASSUME ServicesInit PROVE StagingInv
  OBVIOUS
<1>2. PackageChunks \in Nat BY ServicesAssumption
<1>3. NoPacket \in Packets BY DEF NoPacket, Packets, AfcRequests
<1>4. PICK file \in {<<>>, Leftover} :
        afcd = [packet |-> NoPacket, reply |-> NoPacket, file |-> file,
                handle |-> FALSE, up |-> TRUE]
  BY <1>1 DEF ServicesInit
<1>5. file \in Seq(Nat)
  <2>1. <<>> \in Seq(Nat) /\ <<0>> \in Seq(Nat) OBVIOUS
  <2>2. QED BY <2>1 DEF Leftover
<1>6. PICK op \in {"install", "browse"} :
        proxy = [op |-> op, pc |-> "idle", count |-> 0, apps |-> {}]
  BY <1>1 DEF ServicesInit
<1>7. <<>> \in Seq(Nat) /\ <<>> \in Seq(ProxyMessages) OBVIOUS
<1>8. ServicesTyped
  BY <1>1, <1>2, <1>3, <1>4, <1>5, <1>6, <1>7
  DEF ServicesInit, ServicesTyped, AfcStates, AfcdStates, ProxyStates, ProxydStates
<1>9. PacketOfPlace BY <1>1, <1>4 DEF ServicesInit, PacketOfPlace, AfcRequests
<1>10. FileOfPlace BY <1>1 DEF ServicesInit, FileOfPlace
<1>11. InstalledIsStaged BY <1>1 DEF ServicesInit, InstalledIsStaged
<1>12. QED BY <1>8, <1>9, <1>10, <1>11 DEF StagingInv

\* AfcRequest() puts the packet of the place that installIpa() goes to on the
\* way and leaves the file alone, or fails.
LEMMA RequestGoesOut ==
  ASSUME StagingInv, NEW a \in AfcStates, NEW op \in AfcRequests, NEW arg \in Nat,
         AfcRequest(a, op, arg)
  PROVE  /\ afc' \in AfcStates /\ afcd' \in AfcdStates
         /\ afcd'.file = afcd.file /\ afcd'.handle = afcd.handle /\ afc'.sent = a.sent
         /\ \/ /\ afc'.pc = op /\ afcd'.reply = NoPacket
               /\ afcd'.packet.op = op /\ afcd'.packet.arg = arg
            \/ afc'.pc = "failed"
<1>1. afcd \in AfcdStates BY DEF StagingInv, ServicesTyped
<1>2. NoPacket \in Packets BY DEF NoPacket, Packets, AfcRequests
<1>3. CASE afcd.up
  <2> DEFINE p == [op |-> op, num |-> a.num, arg |-> arg, result |-> "none"]
  <2>1. p \in Packets /\ p.op = op /\ p.arg = arg BY DEF Packets, AfcStates
  <2>2. afcd' = [afcd EXCEPT !.packet = p, !.reply = NoPacket]
    BY <1>3 DEF AfcRequest
  <2>3. afc' = [a EXCEPT !.pc = op, !.num = @ + 1] BY <1>3 DEF AfcRequest
  <2> HIDE DEF p
  <2>4. afc' \in AfcStates /\ afc'.sent = a.sent /\ afc'.pc = op
    <3>1. a.num + 1 \in Nat /\ a.sent \in 0..PackageChunks BY DEF AfcStates
    <3>2. afc' = [pc |-> op, num |-> a.num + 1, sent |-> a.sent] BY <2>3 DEF AfcStates
    <3>3. QED BY <3>1, <3>2 DEF AfcStates
  <2>5. /\ afcd' \in AfcdStates /\ afcd'.file = afcd.file /\ afcd'.handle = afcd.handle
        /\ afcd'.reply = NoPacket /\ afcd'.packet = p
    BY <1>1, <1>2, <2>1, <2>2 DEF AfcdStates
  <2>6. QED BY <2>1, <2>4, <2>5
<1>4. CASE ~afcd.up BY <1>1, <1>4 DEF AfcRequest, AfcStates
<1>5. QED BY <1>3, <1>4

\* A request keeps the invariant when the staged file is what its place needs.
LEMMA RequestKeeps ==
  ASSUME StagingInv, NEW a \in AfcStates, NEW op \in AfcRequests, NEW arg \in Nat,
         AfcRequest(a, op, arg), UNCHANGED <<proxy, proxyd>>, afc.pc # "staged",
         op \in {"MakeDir", "FileOpen"} => a.sent = 0,
         op = "Write" => /\ arg = a.sent + 1 /\ a.sent < PackageChunks
                         /\ afcd.file = Chunked(a.sent) /\ afcd.handle,
         op = "FileClose" => afcd.file = Package
  PROVE  StagingInv'
<1>1. /\ afc' \in AfcStates /\ afcd' \in AfcdStates
      /\ afcd'.file = afcd.file /\ afcd'.handle = afcd.handle /\ afc'.sent = a.sent
      /\ \/ /\ afc'.pc = op /\ afcd'.reply = NoPacket
            /\ afcd'.packet.op = op /\ afcd'.packet.arg = arg
         \/ afc'.pc = "failed"
  BY RequestGoesOut
<1>2. NoPacket.result = "none" BY DEF NoPacket
<1>3. ServicesTyped' BY <1>1 DEF StagingInv, ServicesTyped
<1>4. proxyd'.installed = <<>> BY DEF StagingInv, InstalledIsStaged
<1>5. InstalledIsStaged' BY <1>4 DEF InstalledIsStaged
<1>6. CASE afc'.pc = "failed"
  BY <1>3, <1>5, <1>6 DEF StagingInv, PacketOfPlace, FileOfPlace, AfcRequests
<1>7. CASE afc'.pc = op /\ afcd'.reply = NoPacket /\ afcd'.packet.op = op
           /\ afcd'.packet.arg = arg
  <2>1. PacketOfPlace' BY <1>1, <1>7 DEF PacketOfPlace, AfcRequests
  <2>2. FileOfPlace' BY <1>1, <1>2, <1>7 DEF FileOfPlace, AfcRequests
  <2>3. QED BY <1>3, <1>5, <2>1, <2>2 DEF StagingInv
<1>8. QED BY <1>1, <1>6, <1>7

\* So does giving up, which installIpa() does not once the package is staged.
LEMMA FailureKeeps ==
  ASSUME StagingInv, AfcFails, UNCHANGED <<proxy, proxyd>>, afc.pc # "staged"
  PROVE  StagingInv'
<1>1. afc \in AfcStates /\ afc' = [afc EXCEPT !.pc = "failed"] /\ afcd' = afcd
  BY DEF StagingInv, ServicesTyped, AfcFails
<1>2. afc' \in AfcStates /\ afc'.pc = "failed"
  <2>1. afc' = [pc |-> "failed", num |-> afc.num, sent |-> afc.sent] BY <1>1 DEF AfcStates
  <2>2. QED BY <1>1, <2>1 DEF AfcStates
<1>3. ServicesTyped' BY <1>1, <1>2 DEF StagingInv, ServicesTyped
<1>4. InstalledIsStaged' BY DEF StagingInv, InstalledIsStaged
<1>5. QED BY <1>2, <1>3, <1>4 DEF StagingInv, PacketOfPlace, FileOfPlace, AfcRequests

\* After an ok, either the next chunk or the end of the file is sent.
LEMMA NextChunkKeeps ==
  ASSUME StagingInv, NEW a \in AfcStates, NextChunk(a), UNCHANGED <<proxy, proxyd>>,
         afc.pc # "staged", afcd.file = Chunked(a.sent), afcd.handle
  PROVE  StagingInv'
<1>1. PackageChunks \in Nat /\ a.sent \in 0..PackageChunks
  BY ServicesAssumption DEF AfcStates
<1>2. a.sent + 1 \in Nat /\ 0 \in Nat BY <1>1
<1>3. CASE a.sent < PackageChunks
  <2>1. AfcRequest(a, "Write", a.sent + 1) BY <1>3 DEF NextChunk
  <2>2. "Write" \in AfcRequests BY DEF AfcRequests
  <2> DEFINE op == "Write"
             arg == a.sent + 1
  <2>3. /\ AfcRequest(a, op, arg) /\ op \in AfcRequests /\ arg \in Nat
        /\ op = "Write" /\ arg = a.sent + 1
    BY <1>2, <2>1, <2>2
  <2> HIDE DEF op, arg
  <2>4. QED BY <1>3, <2>3, RequestKeeps
<1>4. CASE ~(a.sent < PackageChunks)
  <2>1. AfcRequest(a, "FileClose", 0) BY <1>4 DEF NextChunk
  <2>2. "FileClose" \in AfcRequests BY DEF AfcRequests
  <2>3. a.sent = PackageChunks BY <1>1, <1>4
  <2>4. afcd.file = Package BY <2>3, PackageChunked
  <2> DEFINE op == "FileClose"
             arg == 0
  <2>5. AfcRequest(a, op, arg) /\ op \in AfcRequests /\ arg \in Nat /\ op = "FileClose"
    BY <1>2, <2>1, <2>2
  <2> HIDE DEF op, arg
  <2>6. QED BY <2>4, <2>5, RequestKeeps
<1>5. QED BY <1>3, <1>4

\* Every step of the AFC client keeps the invariant.
LEMMA AfcStepsKeep ==
  ASSUME StagingInv, NEW r,
         MakeDirectory \/ AfcStreamEnds \/ FileOpen(r) \/ FileOpened(r) \/ Written(r)
           \/ Abandoned(r) \/ FileClosed(r)
  PROVE  StagingInv'
<1>1. afc \in AfcStates /\ PackageChunks \in Nat
  BY ServicesAssumption DEF StagingInv, ServicesTyped
<1>2. CASE MakeDirectory
  <2> DEFINE op == "MakeDir"
  <2>1. AfcRequest(afc, op, 0) /\ UNCHANGED <<proxy, proxyd>> /\ afc.pc = "start"
    BY <1>2 DEF MakeDirectory
  <2>2. afc.sent = 0 BY <2>1 DEF StagingInv, FileOfPlace
  <2>3. op \in AfcRequests /\ op = "MakeDir" BY DEF AfcRequests
  <2> HIDE DEF op
  <2>4. QED BY <1>1, <2>1, <2>2, <2>3, RequestKeeps
<1>3. CASE AfcStreamEnds BY <1>3, FailureKeeps DEF AfcStreamEnds
<1>4. CASE FileOpen(r)
  <2>1. afc.pc = "MakeDir" /\ UNCHANGED <<proxy, proxyd>> BY <1>4 DEF FileOpen, AfcReply
  <2>2. CASE AfcFails BY <2>1, <2>2, FailureKeeps
  <2>3. CASE AfcRequest(afc, "FileOpen", 0)
    <3> DEFINE op == "FileOpen"
    <3>1. AfcRequest(afc, op, 0) BY <2>3
    <3>2. afc.sent = 0 BY <2>1 DEF StagingInv, FileOfPlace
    <3>3. op \in AfcRequests /\ op = "FileOpen" BY DEF AfcRequests
    <3> HIDE DEF op
    <3>4. QED BY <1>1, <2>1, <3>1, <3>2, <3>3, RequestKeeps
  <2>4. QED BY <1>4, <2>2, <2>3 DEF FileOpen
<1>5. CASE FileOpened(r)
  <2>1. afc.pc = "FileOpen" /\ UNCHANGED <<proxy, proxyd>> BY <1>5 DEF FileOpened, AfcReply
  <2>2. CASE r = "ok"
    <3>1. afcd.reply.result = "ok" BY <1>5, <2>2 DEF FileOpened, AfcReply
    <3>2. NextChunk(afc) BY <1>5, <2>2 DEF FileOpened
    <3>3. afcd.file = Chunked(afc.sent) /\ afcd.handle
      BY <2>1, <3>1 DEF StagingInv, FileOfPlace
    <3>4. QED BY <1>1, <2>1, <3>2, <3>3, NextChunkKeeps
  <2>3. CASE r # "ok" BY <1>5, <2>1, <2>3, FailureKeeps DEF FileOpened
  <2>4. QED BY <2>2, <2>3
<1>6. CASE Written(r)
  <2>1. afc.pc = "Write" /\ UNCHANGED <<proxy, proxyd>> BY <1>6 DEF Written, AfcReply
  <2>2. CASE r = "ok"
    <3> DEFINE a == [afc EXCEPT !.sent = @ + 1]
    <3>1. afcd.reply.result = "ok" BY <1>6, <2>2 DEF Written, AfcReply
    <3>2. NextChunk(a) BY <1>6, <2>2 DEF Written
    <3>3. afcd.file = Chunked(afc.sent + 1) /\ afcd.handle /\ afc.sent < PackageChunks
      BY <2>1, <3>1 DEF StagingInv, FileOfPlace
    <3>4. a = [pc |-> afc.pc, num |-> afc.num, sent |-> afc.sent + 1]
      BY <1>1 DEF AfcStates
    <3>5. a \in AfcStates /\ a.sent = afc.sent + 1 BY <1>1, <3>3, <3>4 DEF AfcStates
    <3> HIDE DEF a
    <3>6. QED BY <2>1, <3>2, <3>3, <3>5, NextChunkKeeps
  <2>3. CASE r # "ok"
    <3> DEFINE op == "Abandon"
    <3>1. AfcRequest(afc, op, 0) BY <1>6, <2>3 DEF Written
    <3>2. op \in AfcRequests /\ op = "Abandon" BY DEF AfcRequests
    <3> HIDE DEF op
    <3>3. QED BY <1>1, <2>1, <3>1, <3>2, RequestKeeps
  <2>4. QED BY <2>2, <2>3
<1>7. CASE Abandoned(r)
  <2>1. afc.pc = "Abandon" /\ UNCHANGED <<proxy, proxyd>> /\ AfcFails
    BY <1>7 DEF Abandoned, AfcReply
  <2>2. QED BY <2>1, FailureKeeps
<1>8. CASE FileClosed(r)
  <2>1. /\ afc.pc = "FileClose" /\ UNCHANGED <<proxy, proxyd>> /\ afcd.reply # NoPacket
        /\ r = IF afcd.reply.num = afc.num - 1 THEN afcd.reply.result ELSE "mismatch"
    BY <1>8 DEF FileClosed, AfcReply
  <2>2. CASE r = "ok"
    <3>1. afcd.reply.result = "ok" BY <2>1, <2>2
    <3>2. afc' = [afc EXCEPT !.pc = "staged"] /\ afcd' = afcd
      BY <1>8, <2>2 DEF FileClosed
    <3>3. afc' = [pc |-> "staged", num |-> afc.num, sent |-> afc.sent]
      BY <1>1, <3>2 DEF AfcStates
    <3>4. afc' \in AfcStates /\ afc'.pc = "staged" BY <1>1, <3>3 DEF AfcStates
    <3>5. afcd.packet = NoPacket /\ afcd.file = Package /\ ~afcd.handle
      BY <2>1, <3>1 DEF StagingInv, PacketOfPlace, FileOfPlace, AfcRequests
    <3>6. ServicesTyped' BY <2>1, <3>2, <3>4 DEF StagingInv, ServicesTyped
    <3>7. InstalledIsStaged' BY <2>1 DEF StagingInv, InstalledIsStaged
    <3>8. QED BY <3>2, <3>4, <3>5, <3>6, <3>7
              DEF StagingInv, PacketOfPlace, FileOfPlace, AfcRequests
  <2>3. CASE r # "ok" BY <1>8, <2>1, <2>3, FailureKeeps DEF FileClosed
  <2>4. QED BY <2>2, <2>3
<1>9. QED BY <1>2, <1>3, <1>4, <1>5, <1>6, <1>7, <1>8

\* The AFC service carries out the packet that is on its way, or does not.
LEMMA AfcServesKeeps ==
  ASSUME StagingInv, NEW result \in AfcResults, AfcServes(result)
  PROVE  StagingInv'
<1> DEFINE p == afcd.packet
           does == result \in {"ok", "wrong number"}
           reply == [p EXCEPT !.result = result,
                              !.num = IF result = "wrong number" THEN @ + 1 ELSE @]
           handle == CASE p.op = "FileOpen" /\ does -> TRUE
                       [] p.op \in {"FileClose", "Abandon"} /\ does -> FALSE
                       [] OTHER -> afcd.handle
           file == CASE p.op = "FileOpen" /\ does -> <<>>
                     [] p.op = "Write" /\ does -> Append(afcd.file, p.arg)
                     [] OTHER -> afcd.file
<1>1. /\ p # NoPacket /\ UNCHANGED <<afc, proxy, proxyd>>
      /\ afcd' = [afcd EXCEPT !.packet = NoPacket, !.reply = reply,
                              !.handle = handle, !.file = file]
  BY DEF AfcServes
<1>2. afc \in AfcStates /\ afcd \in AfcdStates /\ p \in Packets /\ NoPacket \in Packets
  BY DEF StagingInv, ServicesTyped, AfcdStates, NoPacket, Packets, AfcRequests
<1>3. reply \in Packets /\ reply.result = result
  <2> DEFINE num == IF result = "wrong number" THEN p.num + 1 ELSE p.num
  <2>1. num \in Nat
    <3>1. p.num \in Nat BY <1>2 DEF Packets
    <3>2. \A n \in Nat : n \in Nat /\ n + 1 \in Nat OBVIOUS
    <3>3. p.num + 1 \in Nat BY <3>1, <3>2
    <3>4. CASE result = "wrong number" BY <3>3, <3>4
    <3>5. CASE result # "wrong number" BY <3>1, <3>5
    <3>6. QED BY <3>4, <3>5
  <2>2. reply = [p EXCEPT !.result = result, !.num = num] OBVIOUS
  <2>3. result \in AfcResults \cup {"none"} OBVIOUS
  <2> HIDE DEF reply, p, num
  <2>4. reply = [op |-> p.op, num |-> num, arg |-> p.arg, result |-> result]
    BY <1>2, <2>2 DEF Packets
  <2>5. QED BY <1>2, <2>1, <2>3, <2>4 DEF Packets
<1>4. /\ p.op = "Write" /\ does => file = Append(afcd.file, p.arg)
      /\ p.op = "FileOpen" /\ does => file = <<>> /\ handle = TRUE
      /\ p.op \notin {"Write", "FileOpen"} => file = afcd.file
      /\ p.op \in {"FileClose"} /\ does => handle = FALSE
      /\ p.op = "Write" => handle = afcd.handle
      /\ handle \in BOOLEAN
  BY <1>2 DEF AfcdStates
<1>5. file \in Seq(Nat)
  <2>1. p.arg \in Nat /\ afcd.file \in Seq(Nat) BY <1>2 DEF Packets, AfcdStates
  <2>2. Append(afcd.file, p.arg) \in Seq(Nat) /\ <<>> \in Seq(Nat) BY <2>1
  <2>3. QED BY <2>1, <2>2
<1>6. result = "ok" => does OBVIOUS
<1>7. does \in BOOLEAN OBVIOUS
<1> HIDE DEF does, reply, handle, file
<1>8. /\ afcd' \in AfcdStates /\ afcd'.packet = NoPacket /\ afcd'.reply = reply
      /\ afcd'.handle = handle /\ afcd'.file = file
  BY <1>1, <1>2, <1>3, <1>4, <1>5 DEF AfcdStates
<1>9. reply # NoPacket
  <2>1. NoPacket.result = "none" /\ result # "none" BY DEF NoPacket, AfcResults
  <2>2. QED BY <1>3, <2>1
<1>10. ServicesTyped' BY <1>1, <1>8 DEF StagingInv, ServicesTyped
<1>11. InstalledIsStaged' BY <1>1 DEF StagingInv, InstalledIsStaged
<1>12. afc.pc # "start" /\ afc.pc # "staged"
  BY <1>1 DEF StagingInv, PacketOfPlace, FileOfPlace
<1>13. afc.pc \in AfcRequests =>
         /\ p.op = afc.pc /\ afcd.reply = NoPacket
         /\ afc.pc = "Write" => p.arg = afc.sent + 1
  BY <1>1 DEF StagingInv, PacketOfPlace
<1>14. PacketOfPlace' BY <1>1, <1>8, <1>12 DEF PacketOfPlace
<1>15. CASE afc.pc = "FileOpen"
  <2>1. p.op = "FileOpen" /\ afc.sent = 0
    BY <1>13, <1>15 DEF AfcRequests, StagingInv, FileOfPlace
  <2>2. Chunked(0) = <<>> BY NextChunked
  <2>3. FileOfPlace' BY <1>1, <1>3, <1>4, <1>6, <1>8, <1>15, <2>1, <2>2 DEF FileOfPlace
  <2>4. QED BY <1>10, <1>11, <1>14, <2>3 DEF StagingInv
<1>16. CASE afc.pc = "Write"
  <2>1. /\ p.op = "Write" /\ p.arg = afc.sent + 1 /\ afc.sent < PackageChunks
        /\ afcd.file = Chunked(afc.sent) /\ afcd.handle /\ afc.sent \in Nat
    BY <1>2, <1>13, <1>16, ServicesAssumption
    DEF AfcRequests, StagingInv, FileOfPlace, AfcStates
  <2>2. result = "ok" => file = Chunked(afc.sent + 1) /\ handle
    BY <1>4, <1>6, <2>1, NextChunked
  <2>3. FileOfPlace' BY <1>1, <1>3, <1>8, <1>9, <1>16, <2>1, <2>2 DEF FileOfPlace
  <2>4. QED BY <1>10, <1>11, <1>14, <2>3 DEF StagingInv
<1>17. CASE afc.pc = "FileClose"
  <2>1. p.op = "FileClose" /\ afcd.file = Package
    BY <1>13, <1>17 DEF AfcRequests, StagingInv, FileOfPlace
  <2>2. file = Package /\ (result = "ok" => ~handle) BY <1>4, <1>6, <2>1
  <2>3. FileOfPlace' BY <1>1, <1>3, <1>8, <1>17, <2>2 DEF FileOfPlace
  <2>4. QED BY <1>10, <1>11, <1>14, <2>3 DEF StagingInv
<1>18. CASE afc.pc \notin {"FileOpen", "Write", "FileClose"}
  <2>1. afc.pc \in {"MakeDir"} => afc.sent = 0 BY DEF StagingInv, FileOfPlace
  <2>2. FileOfPlace' BY <1>1, <1>12, <1>18, <2>1 DEF FileOfPlace
  <2>3. QED BY <1>10, <1>11, <1>14, <2>2 DEF StagingInv
<1>19. QED BY <1>15, <1>16, <1>17, <1>18

\* The installation proxy, its client and the cable: only an Install command
\* changes what is installed, and only once the package is staged.
LEMMA ProxyKeeps ==
  ASSUME StagingInv, ServicesTyped',
         \/ SendCommand \/ MessageTimeout \/ (\E m \in ProxyMessages : ProxyMessage(m))
         \/ (\E m \in ProxyMessages : ProxySends(m)) \/ LinkLost
  PROVE  StagingInv'
<1>1. proxyd \in ProxydStates /\ afcd \in AfcdStates BY DEF StagingInv, ServicesTyped
<1>2. /\ afc' = afc /\ afcd'.packet = afcd.packet /\ afcd'.reply = afcd.reply
      /\ afcd'.file = afcd.file /\ afcd'.handle = afcd.handle
  BY <1>1 DEF SendCommand, MessageTimeout, ProxyMessage, ProxySends, LinkLost, AfcdStates
<1>3. PacketOfPlace' BY <1>2 DEF StagingInv, PacketOfPlace
<1>4. FileOfPlace' BY <1>2 DEF StagingInv, FileOfPlace
<1>5. proxyd'.installed = proxyd.installed
        \/ (proxyd'.installed = afcd.file /\ afc.pc = "staged")
  BY <1>1
  DEF SendCommand, MessageTimeout, ProxyMessage, ProxySends, LinkLost, ProxydStates, ProxyEnds
<1>6. InstalledIsStaged'
  BY <1>2, <1>5 DEF StagingInv, InstalledIsStaged, FileOfPlace
<1>7. QED BY <1>3, <1>4, <1>6 DEF StagingInv

\* And they keep the types.
LEMMA ProxyTyped ==
  ASSUME ServicesTyped,
         \/ SendCommand \/ MessageTimeout \/ (\E m \in ProxyMessages : ProxyMessage(m))
         \/ (\E m \in ProxyMessages : ProxySends(m)) \/ LinkLost
  PROVE  ServicesTyped'
<1>1. /\ afc \in AfcStates /\ afcd \in AfcdStates /\ proxy \in ProxyStates
      /\ proxyd \in ProxydStates
  BY DEF ServicesTyped
<1>2. afcd.file \in Seq(Nat) BY <1>1 DEF AfcdStates
<1>3. CASE SendCommand
  BY <1>1, <1>2, <1>3, ZenonT(60)
  DEF SendCommand, ProxyEnds, ServicesTyped, ProxyStates, ProxydStates
<1>4. CASE MessageTimeout
  BY <1>1, <1>4 DEF MessageTimeout, ProxyEnds, ServicesTyped, ProxyStates
<1>5. ASSUME NEW m \in ProxyMessages, ProxyMessage(m) PROVE ServicesTyped'
  <2>1. proxyd.wire \in Seq(ProxyMessages) /\ proxyd.wire # <<>>
    BY <1>1, <1>5 DEF ProxydStates, ProxyMessage
  <2>2. Tail(proxyd.wire) \in Seq(ProxyMessages) BY <2>1
  <2>3. proxyd' = [proxyd EXCEPT !.wire = Tail(@)] /\ UNCHANGED <<afc, afcd>>
    BY <1>5 DEF ProxyMessage
  <2>4. proxyd' \in ProxydStates BY <1>1, <2>2, <2>3 DEF ProxydStates
  <2>5. proxy' \in ProxyStates
    <3>1. CASE m \in {"error", "Complete"}
      BY <1>1, <1>5, <3>1 DEF ProxyMessage, ProxyStates
    <3>2. CASE m \notin {"error", "Complete"}
      <4> DEFINE pc == IF proxy.count + 1 = MaxProxyMessages THEN "failed" ELSE proxy.pc
                 apps == IF m = "list" /\ proxy.op = "browse" THEN proxy.apps \cup {m}
                         ELSE proxy.apps
      <4>1. proxy' = [op |-> proxy.op, pc |-> pc, count |-> proxy.count + 1, apps |-> apps]
        BY <1>1, <1>5, <3>2 DEF ProxyMessage, ProxyStates
      <4>2. pc \in {"idle", "waiting", "complete", "failed"} BY <1>1 DEF ProxyStates
      <4>3. apps \in SUBSET {"list"} BY <1>1 DEF ProxyStates
      <4>4. proxy.count + 1 \in Nat /\ proxy.op \in {"install", "browse"}
        BY <1>1 DEF ProxyStates
      <4> HIDE DEF pc, apps
      <4>5. QED BY <4>1, <4>2, <4>3, <4>4 DEF ProxyStates
    <3>3. QED BY <3>1, <3>2
  <2>6. QED BY <1>1, <2>3, <2>4, <2>5 DEF ServicesTyped
<1>6. ASSUME NEW m \in ProxyMessages, ProxySends(m) PROVE ServicesTyped'
  <2>1. Append(proxyd.wire, m) \in Seq(ProxyMessages) BY <1>1 DEF ProxydStates
  <2>2. /\ UNCHANGED <<afc, afcd, proxy>>
        /\ proxyd' = [proxyd EXCEPT !.wire = Append(@, m), !.busy = m \in {"status", "list"}]
    BY <1>6 DEF ProxySends
  <2> DEFINE busy == m \in {"status", "list"}
  <2>3. proxyd' = [proxyd EXCEPT !.wire = Append(@, m), !.busy = busy] /\ busy \in BOOLEAN
    BY <2>2
  <2> HIDE DEF busy
  <2>4. proxyd' \in ProxydStates BY <1>1, <2>1, <2>3 DEF ProxydStates
  <2>5. QED BY <1>1, <2>2, <2>4 DEF ServicesTyped
<1>7. CASE LinkLost
  BY <1>1, <1>7 DEF LinkLost, ServicesTyped, AfcdStates, ProxydStates
<1>8. QED BY <1>3, <1>4, <1>5, <1>6, <1>7

\* Every step of the installation keeps the invariant.
LEMMA StagingKeeps == StagingInv /\ [ServicesNext]_servicesVars => StagingInv'
<1>1. SUFFICES ASSUME StagingInv, [ServicesNext]_servicesVars PROVE StagingInv'
  OBVIOUS
<1>2. CASE UNCHANGED servicesVars
  BY <1>1, <1>2
  DEF servicesVars, StagingInv, ServicesTyped, PacketOfPlace, FileOfPlace, InstalledIsStaged
<1>3. CASE MakeDirectory \/ AfcStreamEnds BY <1>1, <1>3, AfcStepsKeep
<1>4. CASE LinkLost \/ ProxyStep \/ \E m \in ProxyMessages : ProxySends(m)
  <2>1. \/ SendCommand \/ MessageTimeout \/ (\E m \in ProxyMessages : ProxyMessage(m))
        \/ (\E m \in ProxyMessages : ProxySends(m)) \/ LinkLost
    BY <1>4 DEF ProxyStep, ProxyMessages
  <2>2. ServicesTyped BY <1>1 DEF StagingInv
  <2>3. ServicesTyped' BY <2>1, <2>2, ProxyTyped
  <2>4. QED BY <1>1, <2>1, <2>3, ProxyKeeps
<1>5. ASSUME NEW r \in AfcResults \cup {"mismatch"},
             FileOpen(r) \/ FileOpened(r) \/ Written(r) \/ Abandoned(r) \/ FileClosed(r)
      PROVE  StagingInv'
  BY <1>1, <1>5, AfcStepsKeep
<1>6. ASSUME NEW result \in AfcResults, AfcServes(result) PROVE StagingInv'
  BY <1>1, <1>6, AfcServesKeeps
<1>7. QED BY <1>1, <1>2, <1>3, <1>4, <1>5, <1>6 DEF ServicesNext, ProxyMessages

\* installation_proxy is only ever told to install the whole package, closed,
\* whatever the AFC service answers, on whatever file was there (PackageWhole,
\* which the run of InstallServices checks).
THEOREM StagedWhole == ServicesSpec => []PackageWhole
<1>1. ServicesInit => StagingInv BY StagingStarts
<1>2. StagingInv /\ [ServicesNext]_servicesVars => StagingInv' BY StagingKeeps
<1>3. StagingInv => PackageWhole
  BY DEF StagingInv, InstalledIsStaged, FileOfPlace, PackageWhole
<1>4. QED BY <1>1, <1>2, <1>3, PTL DEF ServicesSpec

\* More types: a request on its way outlives the call only when the stream has
\* ended, and a call that goes on has room for the next message.
ServicesBounded ==
  /\ afc.pc = "failed" /\ afcd.packet # NoPacket => ~afcd.up
  /\ Len(afcd.file) <= PackageChunks + 1
  /\ proxy.count <= MaxProxyMessages
  /\ proxy.pc \in {"idle", "waiting"} => proxy.count < MaxProxyMessages

ServicesInv == StagingInv /\ ServicesBounded

\* The AFC client sends no packet and calls no step that lengthens the file.
LEMMA AfcBounded ==
  ASSUME ServicesInv, NEW r,
         MakeDirectory \/ AfcStreamEnds \/ FileOpen(r) \/ FileOpened(r) \/ Written(r)
           \/ Abandoned(r) \/ FileClosed(r)
  PROVE  ServicesBounded'
<1>1. afc \in AfcStates /\ afcd \in AfcdStates /\ ServicesBounded
  BY DEF ServicesInv, StagingInv, ServicesTyped
<1>2. UNCHANGED proxy
  BY DEF MakeDirectory, AfcStreamEnds, FileOpen, FileOpened, Written, Abandoned, FileClosed, AfcReply
<1>3. ASSUME NEW a \in AfcStates, NEW op \in AfcRequests, NEW arg, AfcRequest(a, op, arg),
             afcd.up => afcd.packet = NoPacket
      PROVE  ServicesBounded'
  <2>1. CASE afcd.up
    <3> DEFINE p == [op |-> op, num |-> a.num, arg |-> arg, result |-> "none"]
               n == a.num + 1
    <3>1. afcd' = [afcd EXCEPT !.packet = p, !.reply = NoPacket]
          /\ afc' = [a EXCEPT !.pc = op, !.num = n]
      BY <1>3, <2>1 DEF AfcRequest
    <3> HIDE DEF p, n
    <3>2. afcd'.file = afcd.file /\ afc'.pc = op
      BY <1>1, <1>3, <3>1 DEF AfcdStates, AfcStates
    <3>3. afc'.pc # "failed"
      BY <3>2 DEF AfcRequests
    <3> QED
      BY <1>1, <1>2, <3>2, <3>3 DEF ServicesBounded
  <2>2. CASE ~afcd.up
    BY <1>1, <1>2, <1>3, <2>2 DEF AfcRequest, ServicesBounded
  <2> QED
    BY <2>1, <2>2
<1>4. ASSUME AfcFails, afcd.up => afcd.packet = NoPacket PROVE ServicesBounded'
  BY <1>1, <1>2, <1>4 DEF AfcFails, ServicesBounded
<1>5. afc.pc \in AfcRequests /\ afcd.reply # NoPacket => afcd.packet = NoPacket
  BY DEF ServicesInv, StagingInv, PacketOfPlace
<1>6. /\ \A n : n \in {"MakeDir", "FileOpen", "Write", "Abandon", "FileClose"} => n \in AfcRequests
      /\ [afc EXCEPT !.sent = afc.sent] \in AfcStates
  BY <1>1 DEF AfcRequests, AfcStates
<1>7. ASSUME NEW a \in AfcStates, NextChunk(a), afcd.packet = NoPacket PROVE ServicesBounded'
  BY <1>3, <1>6, <1>7 DEF NextChunk
<1>8. CASE MakeDirectory
  <2>1. afcd.packet = NoPacket /\ AfcRequest(afc, "MakeDir", 0)
    BY <1>8 DEF MakeDirectory, ServicesInv, StagingInv, PacketOfPlace
  <2> QED
    BY <1>1, <1>3, <1>6, <2>1
<1>9. CASE AfcStreamEnds
  BY <1>4, <1>9 DEF AfcStreamEnds
<1>10. CASE FileOpen(r)
  BY <1>1, <1>3, <1>4, <1>5, <1>6, <1>10 DEF FileOpen, AfcReply
<1>11. CASE FileOpened(r)
  BY <1>1, <1>4, <1>5, <1>6, <1>7, <1>11 DEF FileOpened, AfcReply
<1>12. CASE Written(r)
  <2>1. afc.pc = "Write" /\ afcd.reply # NoPacket /\ afcd.packet = NoPacket
    BY <1>5, <1>6, <1>12 DEF Written, AfcReply
  <2> DEFINE a == [afc EXCEPT !.sent = @ + 1]
  <2>2. a \in AfcStates
    <3>1. afc.sent \in 0..PackageChunks /\ afc.sent < PackageChunks
      BY <1>1, <2>1 DEF AfcStates, ServicesInv, StagingInv, FileOfPlace
    <3>2. afc.sent + 1 \in 0..PackageChunks
      BY <3>1, ServicesAssumption
    <3> QED
      BY <1>1, <3>2 DEF AfcStates
  <2>3. NextChunk(a) \/ AfcRequest(afc, "Abandon", 0)
    BY <1>12 DEF Written
  <2> HIDE DEF a
  <2> QED
    BY <1>1, <1>3, <1>6, <1>7, <2>1, <2>2, <2>3
<1>13. CASE Abandoned(r)
  BY <1>4, <1>5, <1>6, <1>13 DEF Abandoned, AfcReply
<1>14. CASE FileClosed(r)
  <2>1. AfcFails \/ (afc' = [afc EXCEPT !.pc = "staged"] /\ UNCHANGED afcd)
    BY <1>14 DEF FileClosed
  <2>2. CASE AfcFails
    BY <1>4, <1>5, <1>6, <1>14, <2>2 DEF FileClosed, AfcReply
  <2>3. CASE afc' = [afc EXCEPT !.pc = "staged"] /\ UNCHANGED afcd
    BY <1>1, <1>2, <2>3 DEF ServicesBounded, AfcStates
  <2> QED
    BY <2>1, <2>2, <2>3
<1> QED
  BY <1>8, <1>9, <1>10, <1>11, <1>12, <1>13, <1>14

\* The AFC service appends a chunk only to those before it.
LEMMA AfcServiceBounded ==
  ASSUME ServicesInv, NEW result \in AfcResults, AfcServes(result)
  PROVE  ServicesBounded'
<1> DEFINE p == afcd.packet
           does == result \in {"ok", "wrong number"}
           reply == [p EXCEPT !.result = result,
                              !.num = IF result = "wrong number" THEN @ + 1 ELSE @]
           handle == CASE p.op = "FileOpen" /\ does -> TRUE
                       [] p.op \in {"FileClose", "Abandon"} /\ does -> FALSE
                       [] OTHER -> afcd.handle
           file == CASE p.op = "FileOpen" /\ does -> <<>>
                     [] p.op = "Write" /\ does -> Append(afcd.file, p.arg)
                     [] OTHER -> afcd.file
<1>1. /\ p # NoPacket /\ UNCHANGED <<afc, proxy>> /\ afcd.up
      /\ afcd' = [afcd EXCEPT !.packet = NoPacket, !.reply = reply,
                              !.handle = handle, !.file = file]
  BY DEF AfcServes
<1>2. afc \in AfcStates /\ afcd \in AfcdStates /\ ServicesBounded /\ PackageChunks \in Nat
  BY ServicesAssumption DEF ServicesInv, StagingInv, ServicesTyped
<1>3. afc.pc \in AfcRequests
  <2>1. afc.pc \notin {"start", "staged", "failed"}
    BY <1>1 DEF ServicesInv, StagingInv, PacketOfPlace, FileOfPlace, ServicesBounded
  <2> QED
    BY <1>2, <2>1 DEF AfcStates
<1>4. p.op = afc.pc /\ afcd.reply = NoPacket
  BY <1>1, <1>3 DEF ServicesInv, StagingInv, PacketOfPlace
<1>5. p.op = "Write" => afcd.file = Chunked(afc.sent) /\ afc.sent < PackageChunks
  BY <1>4 DEF ServicesInv, StagingInv, FileOfPlace
<1>6. file = afcd.file \/ file = <<>> \/ (p.op = "Write" /\ file = Append(afcd.file, p.arg))
  OBVIOUS
<1>7. Len(file) <= PackageChunks + 1
  <2>1. CASE file = afcd.file
    BY <1>2, <2>1 DEF ServicesBounded
  <2>2. CASE file = <<>>
    <3>1. Len(<<>>) = 0 /\ 0 <= PackageChunks + 1
      BY <1>2
    <3> HIDE DEF file
    <3> QED
      BY <2>2, <3>1
  <2>3. CASE p.op = "Write" /\ file = Append(afcd.file, p.arg)
    <3>1. afc.sent \in Nat /\ afc.sent < PackageChunks /\ afcd.file = Chunked(afc.sent)
      <4>1. afc.sent \in 0..PackageChunks
        BY <1>2 DEF AfcStates
      <4> HIDE DEF p, file
      <4> QED
        BY <1>2, <1>5, <2>3, <4>1
    <3>2. Len(Chunked(afc.sent)) = afc.sent /\ Chunked(afc.sent) \in Seq(Nat)
      BY <3>1, NextChunked DEF Chunked
    <3>3. Len(Append(afcd.file, p.arg)) = Len(afcd.file) + 1
      <4>1. p.arg \in Nat
        BY <1>2 DEF AfcdStates, Packets
      <4> HIDE DEF p
      <4> QED
        BY <3>1, <3>2, <4>1, AppendProperties
    <3> HIDE DEF file, p
    <3> QED
      BY <1>2, <2>3, <3>1, <3>2, <3>3
  <2> HIDE DEF file
  <2> QED
    BY <1>6, <2>1, <2>2, <2>3
<1> HIDE DEF does, reply, handle, file, p
<1>8. afcd'.file = file
  BY <1>1, <1>2 DEF AfcdStates
<1>9. afc'.pc # "failed"
  BY <1>1, <1>3 DEF AfcRequests
<1> QED
  BY <1>1, <1>2, <1>7, <1>8, <1>9 DEF ServicesBounded

\* A message is counted, and the last that may come ends the call.
LEMMA ProxyBounded ==
  ASSUME ServicesInv,
         \/ SendCommand \/ MessageTimeout \/ (\E m \in ProxyMessages : ProxyMessage(m))
         \/ (\E m \in ProxyMessages : ProxySends(m)) \/ LinkLost
  PROVE  ServicesBounded'
<1>1. afcd \in AfcdStates /\ proxy \in ProxyStates /\ ServicesBounded
  BY DEF ServicesInv, StagingInv, ServicesTyped
<1>2. /\ afc' = afc /\ afcd'.packet = afcd.packet /\ afcd'.file = afcd.file
      /\ ~afcd.up => ~afcd'.up
  BY <1>1 DEF SendCommand, MessageTimeout, ProxyMessage, ProxySends, LinkLost, AfcdStates
<1>3. MaxProxyMessages \in Nat /\ proxy.count \in Nat
  BY <1>1, ServicesAssumption DEF ProxyStates
<1>4. /\ proxy'.count <= MaxProxyMessages
      /\ proxy'.pc \in {"idle", "waiting"} => proxy'.count < MaxProxyMessages
  <2>1. CASE proxy' = proxy
    BY <1>1, <2>1 DEF ServicesBounded
  <2>2. CASE SendCommand \/ MessageTimeout
    <3>1. \E pc \in {"waiting", "failed"} :
            /\ proxy' = [proxy EXCEPT !.pc = pc]
            /\ pc = "waiting" => proxy.pc = "idle"
      BY <2>2 DEF SendCommand, MessageTimeout, ProxyEnds
    <3>2. proxy'.count = proxy.count
          /\ (proxy'.pc \in {"idle", "waiting"} => proxy.pc = "idle")
      BY <1>1, <3>1 DEF ProxyStates
    <3> QED
      BY <1>1, <3>2 DEF ServicesBounded
  <2>3. ASSUME NEW m \in ProxyMessages, ProxyMessage(m)
        PROVE  /\ proxy'.count <= MaxProxyMessages
               /\ proxy'.pc \in {"idle", "waiting"} => proxy'.count < MaxProxyMessages
    <3>1. proxy.pc = "waiting" /\ proxy.count < MaxProxyMessages
      BY <1>1, <2>3 DEF ProxyMessage, Waiting, ServicesBounded
    <3>2. CASE m \in {"error", "Complete"}
      <4>1. proxy'.count = proxy.count /\ proxy'.pc \in {"failed", "complete"}
        BY <1>1, <2>3, <3>2 DEF ProxyMessage, ProxyStates
      <4> QED
        BY <1>1, <4>1 DEF ServicesBounded
    <3>3. CASE m \notin {"error", "Complete"}
      <4> DEFINE k == proxy.count + 1
                 pc == IF k = MaxProxyMessages THEN "failed" ELSE proxy.pc
                 apps == IF m = "list" /\ proxy.op = "browse" THEN proxy.apps \cup {m}
                         ELSE proxy.apps
      <4>1. proxy' = [proxy EXCEPT !.count = k, !.pc = pc, !.apps = apps]
        BY <2>3, <3>3 DEF ProxyMessage
      <4>2. k \in Nat /\ k <= MaxProxyMessages
            /\ (pc \in {"idle", "waiting"} => k < MaxProxyMessages)
        BY <1>3, <3>1
      <4> HIDE DEF k, pc, apps
      <4>3. proxy'.count = k /\ proxy'.pc = pc
        BY <1>1, <4>1 DEF ProxyStates
      <4> QED
        BY <4>2, <4>3
    <3> QED
      BY <3>2, <3>3
  <2> QED
    BY <2>1, <2>2, <2>3 DEF ProxySends, LinkLost
<1> QED
  BY <1>1, <1>2, <1>4 DEF ServicesBounded

\* installIpa() and its services: no chunk beyond the package is sent, the
\* staged file grows no longer than it, and at most MAX_INSTALL_MESSAGES
\* messages are read of one call, for any package and whatever is answered.
THEOREM ServicesTypesCorrect == ServicesSpec => []ServicesTypeOK
<1>1. ServicesInit => ServicesInv
  <2> SUFFICES ASSUME ServicesInit PROVE ServicesInv
    OBVIOUS
  <2>1. StagingInv
    BY StagingStarts
  <2>2. PICK file \in {<<>>, Leftover} : afcd.file = file /\ afcd.packet = NoPacket
    BY DEF ServicesInit
  <2>3. Len(file) <= 1
    <3>1. Len(<<>>) <= 1 /\ Len(<<0>>) <= 1
      OBVIOUS
    <3> QED
      BY <3>1 DEF Leftover
  <2>4. Len(afcd.file) <= PackageChunks + 1
    <3>1. Len(afcd.file) \in Nat
      BY <2>1 DEF StagingInv, ServicesTyped, AfcdStates
    <3> QED
      BY <2>2, <2>3, <3>1, ServicesAssumption
  <2>5. proxy.count = 0 /\ 0 < MaxProxyMessages /\ 0 <= MaxProxyMessages
    BY ServicesAssumption DEF ServicesInit
  <2> QED
    BY <2>1, <2>2, <2>4, <2>5 DEF ServicesInv, ServicesBounded
<1>2. ServicesInv /\ [ServicesNext]_servicesVars => ServicesInv'
  <2> SUFFICES ASSUME ServicesInv, [ServicesNext]_servicesVars PROVE ServicesInv'
    OBVIOUS
  <2>1. StagingInv'
    BY StagingKeeps DEF ServicesInv
  <2>2. CASE UNCHANGED servicesVars
    BY <2>1, <2>2 DEF servicesVars, ServicesInv, ServicesBounded
  <2>3. CASE MakeDirectory \/ AfcStreamEnds
    BY <2>1, <2>3, AfcBounded DEF ServicesInv
  <2>4. CASE LinkLost \/ ProxyStep \/ \E m \in ProxyMessages : ProxySends(m)
    BY <2>1, <2>4, ProxyBounded DEF ServicesInv, ProxyStep, ProxyMessages
  <2>5. ASSUME NEW r \in AfcResults \cup {"mismatch"},
               FileOpen(r) \/ FileOpened(r) \/ Written(r) \/ Abandoned(r) \/ FileClosed(r)
        PROVE  ServicesInv'
    BY <2>1, <2>5, AfcBounded DEF ServicesInv
  <2>6. ASSUME NEW result \in AfcResults, AfcServes(result) PROVE ServicesInv'
    BY <2>1, <2>6, AfcServiceBounded DEF ServicesInv
  <2> QED
    BY <2>2, <2>3, <2>4, <2>5, <2>6 DEF ServicesNext, ProxyMessages
<1>3. ServicesInv => ServicesTypeOK
  BY DEF ServicesInv, ServicesBounded, StagingInv, ServicesTyped, AfcStates, AfcRequests,
         ProxyStates, ServicesTypeOK
<1> QED
  BY <1>1, <1>2, <1>3, PTL DEF ServicesSpec

-----------------------------------------------------------------------------
(* Lockdown: every reply goes to the request that it answers.              *)

Units == {"none", "header", "body"} \X Nat

CallStates == [op : {"list", "connect", "value", "session", "stop", "pair"},
               pc : {"header", "body", "done", "failed"}, unit : Units, got : Nat]

StreamStates == [buffered : Seq(Units), waiters : Seq(Nat), ended : BOOLEAN]

LockdownStates == [layer : {"usbmuxd", "lockdown"}, current : Nat, session : Nat,
                   attempt : Nat]

DaemonStates == [asked : Seq(Nat), wire : Seq(Units), trust : {"asking", "trusted"}]

LockdownTyped ==
  /\ calls \in Seq(CallStates) /\ stream \in StreamStates
  /\ lockdown \in LockdownStates /\ lockdown.current <= Len(calls)
  /\ daemon \in DaemonStates

H(i) == <<"header", i>>
B(i) == <<"body", i>>

\* who waits and what is buffered, and what is asked and on the way
Holds(reads, buffered) == stream.waiters = reads /\ stream.buffered = buffered
Owes(asked, wire) == daemon.asked = asked /\ daemon.wire = wire
Quiet == Holds(<<>>, <<>>) /\ Owes(<<>>, <<>>)

CallIs(i, pc, unit) == calls[i].pc = pc /\ calls[i].unit = unit

\* Where the one request under way is, its answer being all that is anywhere
\* in the buffer, in the daemon or on the way.
AwaitsHeader(i) ==
  /\ CallIs(i, "header", NoUnit) /\ Holds(<<i>>, <<>>)
  /\ Owes(<<i>>, <<>>) \/ Owes(<<>>, <<H(i), B(i)>>)
HasHeader(i) ==
  /\ CallIs(i, "header", H(i))
  /\ \/ Holds(<<>>, <<>>) /\ Owes(<<>>, <<B(i)>>)
     \/ Holds(<<>>, <<B(i)>>) /\ Owes(<<>>, <<>>)
AwaitsBody(i) == CallIs(i, "body", NoUnit) /\ Holds(<<i>>, <<>>) /\ Owes(<<>>, <<B(i)>>)
HasBody(i) == CallIs(i, "body", B(i)) /\ Quiet
Stage(i) ==
  \/ AwaitsHeader(i) \/ HasHeader(i) \/ AwaitsBody(i) \/ HasBody(i)
  \/ calls[i].pc = "done" /\ Quiet

\* and after the end of the stream, when nothing comes any more but a body may
\* still be buffered
EndedStage(i) ==
  \/ CallIs(i, "header", H(i)) /\ (Holds(<<>>, <<>>) \/ Holds(<<>>, <<B(i)>>))
  \/ CallIs(i, "body", NoUnit) \/ CallIs(i, "body", B(i))
  \/ calls[i].pc \in {"done", "failed"}

\* All requests but the current one are settled, and a reply got is its own.
OneRequest ==
  \A i \in DOMAIN calls :
    /\ i # lockdown.current => calls[i].pc \in {"done", "failed"}
    /\ calls[i].pc = "done" => calls[i].got = i

\* With no request under way, nothing is owed on a stream that is open.
OneAnswer ==
  LET i == lockdown.current IN
  IF i = 0 THEN ~stream.ended => Quiet
  ELSE IF stream.ended THEN EndedStage(i) ELSE Stage(i)

\* The inductive invariant of Lockdown.
ReplyInv == LockdownTyped /\ OneRequest /\ OneAnswer

\* pump() with nobody waiting or nothing buffered leaves the calls as they are.
LEMMA PumpNone ==
  ASSUME NEW c \in Seq(CallStates), NEW reads \in Seq(Nat), NEW buffered \in Seq(Units),
         reads = <<>> \/ buffered = <<>>, stream \in StreamStates,
         Pump(c, reads, buffered)
  PROVE  /\ calls' = c /\ stream' \in StreamStates /\ stream'.ended = stream.ended
         /\ stream'.waiters = reads /\ stream'.buffered = buffered
<1>1. Least(Len(reads), Len(buffered)) = 0 BY DEF Least
<1>2. 1..0 = {} OBVIOUS
<1>3. calls' = [i \in DOMAIN c |-> c[i]]
  BY <1>1, <1>2 DEF Pump
<1>4. calls' = c BY <1>3
<1>5. /\ SubSeq(reads, 1, Len(reads)) = reads
      /\ SubSeq(buffered, 1, Len(buffered)) = buffered
  BY SubSeqFull
<1>6. stream' = [stream EXCEPT !.waiters = reads, !.buffered = buffered]
  <2> DEFINE k == Least(Len(reads), Len(buffered))
  <2>1. stream' = [stream EXCEPT !.waiters = SubSeq(reads, k + 1, Len(reads)),
                                 !.buffered = SubSeq(buffered, k + 1, Len(buffered))]
    BY DEF Pump
  <2>2. k + 1 = 1 BY <1>1
  <2>3. QED BY <1>5, <2>1, <2>2
<1>7. QED BY <1>4, <1>6 DEF StreamStates

\* pump() with one request waiting gives it the first of the units.
LEMMA PumpOne ==
  ASSUME NEW c \in Seq(CallStates), NEW i \in DOMAIN c, NEW buffered \in Seq(Units),
         buffered # <<>>, stream \in StreamStates, Pump(c, <<i>>, buffered)
  PROVE  /\ calls' \in Seq(CallStates) /\ Len(calls') = Len(c)
         /\ calls' = [c EXCEPT ![i].unit = buffered[1]]
         /\ stream' \in StreamStates /\ stream'.ended = stream.ended
         /\ stream'.waiters = <<>> /\ stream'.buffered = Tail(buffered)
<1>1. Least(Len(<<i>>), Len(buffered)) = 1 /\ Len(<<i>>) = 1 BY DEF Least
<1>2. 1..1 = {1} /\ <<i>>[1] = i OBVIOUS
<1>3. \A k : (\E j \in 1..1 : <<i>>[j] = k) <=> k = i BY <1>2
<1>4. (CHOOSE j \in 1..1 : <<i>>[j] = i) = 1 BY <1>2
<1>5. calls' = [k \in DOMAIN c |-> IF k = i THEN [c[k] EXCEPT !.unit = buffered[1]] ELSE c[k]]
  <2> DEFINE new(k) == IF \E j \in 1..1 : <<i>>[j] = k
                       THEN [c[k] EXCEPT !.unit = buffered[CHOOSE j \in 1..1 : <<i>>[j] = k]]
                       ELSE c[k]
             want(k) == IF k = i THEN [c[k] EXCEPT !.unit = buffered[1]] ELSE c[k]
  <2>1. calls' = [k \in DOMAIN c |-> new(k)] BY <1>1 DEF Pump
  <2>2. ASSUME NEW k \in DOMAIN c PROVE new(k) = want(k)
    <3>1. CASE k = i BY <1>3, <1>4, <3>1
    <3>2. CASE k # i BY <1>3, <3>2
    <3>3. QED BY <3>1, <3>2
  <2> HIDE DEF new, want
  <2>3. [k \in DOMAIN c |-> new(k)] = [k \in DOMAIN c |-> want(k)] BY <2>2
  <2>4. calls' = [k \in DOMAIN c |-> want(k)] BY <2>1, <2>3
  <2>5. QED BY <2>4 DEF want
<1>6. DOMAIN c = 1..Len(c) /\ c[i] \in CallStates /\ buffered[1] \in Units OBVIOUS
<1>7. calls' = [c EXCEPT ![i].unit = buffered[1]] BY <1>5
<1>8. [c[i] EXCEPT !.unit = buffered[1]] \in CallStates BY <1>6 DEF CallStates
<1>9. calls' \in Seq(CallStates) /\ Len(calls') = Len(c)
  <2> DEFINE e == [c[i] EXCEPT !.unit = buffered[1]]
  <2>1. calls' = [c EXCEPT ![i] = e] /\ e \in CallStates BY <1>7, <1>8
  <2> HIDE DEF e
  <2>2. QED BY <1>6, <2>1, ExceptSeq
<1>10. SubSeq(<<i>>, 2, 1) = <<>> /\ SubSeq(buffered, 2, Len(buffered)) = Tail(buffered)
  <2>1. SubSeq(<<i>>, 2, 1) = <<>> BY SubSeqEmpty
  <2>2. SubSeq(buffered, 2, Len(buffered)) = Tail(buffered) BY TailIsSubSeq
  <2>3. QED BY <2>1, <2>2
<1>11. stream' = [stream EXCEPT !.waiters = <<>>, !.buffered = Tail(buffered)]
  <2> DEFINE k == Least(Len(<<i>>), Len(buffered))
  <2>1. stream' = [stream EXCEPT !.waiters = SubSeq(<<i>>, k + 1, Len(<<i>>)),
                                 !.buffered = SubSeq(buffered, k + 1, Len(buffered))]
    BY DEF Pump
  <2>2. k + 1 = 2 /\ Len(<<i>>) = 1 BY <1>1
  <2>3. QED BY <1>10, <2>1, <2>2
<1>12. Tail(buffered) \in Seq(Units) /\ <<>> \in Seq(Nat) OBVIOUS
<1>13. /\ stream' \in StreamStates /\ stream'.ended = stream.ended
       /\ stream'.waiters = <<>> /\ stream'.buffered = Tail(buffered)
  BY <1>11, <1>12 DEF StreamStates
<1>14. QED BY <1>7, <1>9, <1>13

\* The units of an answer, and what is left of it when some have arrived.
LEMMA AnswerUnits ==
  ASSUME NEW i \in Nat
  PROVE  /\ H(i) \in Units /\ B(i) \in Units /\ NoUnit \in Units
         /\ H(i) # NoUnit /\ B(i) # NoUnit
         /\ H(i)[1] = "header" /\ B(i)[1] = "body" /\ B(i)[2] = i
         /\ <<H(i), B(i)>> \in Seq(Units) /\ <<B(i)>> \in Seq(Units)
         /\ <<H(i)>> \in Seq(Units) /\ <<>> \in Seq(Units)
<1>1. H(i) \in Units /\ B(i) \in Units /\ NoUnit \in Units BY DEF H, B, NoUnit, Units
<1>2. H(i)[1] = "header" /\ B(i)[1] = "body" /\ B(i)[2] = i /\ NoUnit[1] = "none"
  BY DEF H, B, NoUnit
<1>3. H(i) # NoUnit /\ B(i) # NoUnit BY <1>2
<1>4. <<H(i), B(i)>> \in Seq(Units) /\ <<B(i)>> \in Seq(Units)
      /\ <<H(i)>> \in Seq(Units) /\ <<>> \in Seq(Units)
  BY <1>1
<1>5. QED BY <1>1, <1>2, <1>3, <1>4

\* A sequence of two, cut.
LEMMA PairCut ==
  ASSUME NEW S, NEW x \in S, NEW y \in S
  PROVE  /\ SubSeq(<<x, y>>, 1, 1) = <<x>> /\ SubSeq(<<x, y>>, 2, 2) = <<y>>
         /\ SubSeq(<<x, y>>, 1, 2) = <<x, y>> /\ SubSeq(<<x, y>>, 3, 2) = <<>>
         /\ SubSeq(<<y>>, 1, 1) = <<y>> /\ SubSeq(<<y>>, 2, 1) = <<>>
<1> DEFINE p == <<x, y>>
<1>1. p \in Seq(S) /\ Len(p) = 2 /\ p[1] = x /\ p[2] = y /\ <<x>> \in Seq(S) /\ <<y>> \in Seq(S)
  OBVIOUS
<1>2. SubSeq(<<y>>, 1, 1) = <<y>>
  <2>1. Len(<<y>>) = 1 OBVIOUS
  <2>2. QED BY <1>1, <2>1, SubSeqFull
<1>3. SubSeq(<<x, y>>, 1, 2) = <<x, y>> BY <1>1, SubSeqFull
<1>4. SubSeq(<<x, y>>, 3, 2) = <<>> /\ SubSeq(<<y>>, 2, 1) = <<>> BY SubSeqEmpty
<1>5. SubSeq(p, 2, 2) = <<y>>
  <2>1. p # <<>> BY <1>1
  <2>2. Tail(p) = SubSeq(p, 2, Len(p)) BY <1>1, <2>1, TailIsSubSeq
  <2>3. Tail(p) = <<y>> OBVIOUS
  <2>4. QED BY <1>1, <2>2, <2>3
<1>6. SubSeq(p, 1, 1) = <<x>>
  <2> HIDE DEF p
  <2>1. \A i \in 1..1 : p[i] \in S BY <1>1
  <2>2. SubSeq(p, 1, 1) \in Seq(S) /\ Len(SubSeq(p, 1, 1)) = 1
    BY <2>1, SubSeqProperties
  <2>3. \A i \in 1..1 : SubSeq(p, 1, 1)[i] = p[1 + i - 1] BY <2>1, SubSeqProperties
  <2>4. SubSeq(p, 1, 1)[1] = x BY <1>1, <2>3
  <2>5. \A s \in Seq(S) : Len(s) = 1 /\ s[1] = x => s = <<x>> OBVIOUS
  <2>6. QED BY <2>2, <2>4, <2>5
<1>7. QED BY <1>2, <1>3, <1>4, <1>5, <1>6

\* What is on the way of an answer, what a 'data' event brings, what it leaves.
Coming(i, wire) == wire \in {<<B(i)>>, <<H(i), B(i)>>}
Brought(i, wire, s, t) ==
  /\ s \in Seq(Units) /\ s # <<>> /\ <<>> \o s = s /\ t \in Seq(Units)
  /\ wire = <<B(i)>> => s = <<B(i)>> /\ t = <<>>
  /\ wire = <<H(i), B(i)>> => \/ s = <<H(i)>> /\ t = <<B(i)>>
                              \/ s = <<H(i), B(i)>> /\ t = <<>>

\* A 'data' event brings a part of the answer.
LEMMA UnitsArrive ==
  ASSUME NEW i \in Nat, NEW n \in 1..2, NEW wire \in Seq(Units), Len(wire) >= n,
         Coming(i, wire), NEW s, s = SubSeq(wire, 1, n),
         NEW t, t = SubSeq(wire, n + 1, Len(wire))
  PROVE  Brought(i, wire, s, t)
<1> DEFINE h == H(i)
           b == B(i)
<1>1. h \in Units /\ b \in Units /\ wire \in {<<b>>, <<h, b>>} BY AnswerUnits DEF Coming
<1> HIDE DEF h, b
<1>2. Len(<<b>>) = 1 /\ Len(<<h, b>>) = 2 OBVIOUS
<1>3. /\ <<b>> \in Seq(Units) /\ <<h, b>> \in Seq(Units) /\ <<h>> \in Seq(Units)
      /\ <<>> \in Seq(Units) /\ <<b>> # <<>> /\ <<h, b>> # <<>> /\ <<h>> # <<>>
      /\ <<h, b>> # <<b>>
  BY <1>1, <1>2
<1>4. \/ wire = <<b>> /\ s = <<b>> /\ t = <<>>
      \/ wire = <<h, b>> /\ s = <<h>> /\ t = <<b>>
      \/ wire = <<h, b>> /\ s = <<h, b>> /\ t = <<>>
  <2>1. CASE wire = <<b>>
    <3>1. n = 1 /\ n + 1 = 2 /\ Len(wire) = 1 BY <1>2, <2>1
    <3>2. s = SubSeq(<<b>>, 1, 1) /\ t = SubSeq(<<b>>, 2, 1) BY <2>1, <3>1
    <3>3. QED BY <1>1, <2>1, <3>2, PairCut, ZenonT(60)
  <2>2. CASE wire = <<h, b>> /\ n = 1
    <3>1. n + 1 = 2 /\ Len(wire) = 2 BY <1>2, <2>2
    <3>2. s = SubSeq(<<h, b>>, 1, 1) /\ t = SubSeq(<<h, b>>, 2, 2) BY <2>2, <3>1
    <3>3. QED BY <1>1, <2>2, <3>2, PairCut, ZenonT(60)
  <2>3. CASE wire = <<h, b>> /\ n = 2
    <3>1. n + 1 = 3 /\ Len(wire) = 2 BY <1>2, <2>3
    <3>2. s = SubSeq(<<h, b>>, 1, 2) /\ t = SubSeq(<<h, b>>, 3, 2) BY <2>3, <3>1
    <3>3. QED BY <1>1, <2>3, <3>2, PairCut, ZenonT(30)
  <2>4. n = 1 \/ n = 2 OBVIOUS
  <2>5. QED BY <1>1, <2>1, <2>2, <2>3, <2>4
<1>5. s \in Seq(Units) /\ s # <<>> /\ t \in Seq(Units) BY <1>3, <1>4, Zenon
<1>6. <<>> \o s = s BY <1>5, ConcatEmptySeq
<1>7. /\ wire = <<b>> => s = <<b>> /\ t = <<>>
      /\ wire = <<h, b>> => \/ s = <<h>> /\ t = <<b>>
                            \/ s = <<h, b>> /\ t = <<>>
  BY <1>3, <1>4, Zenon
<1>8. QED BY <1>5, <1>6, <1>7, Zenon DEF h, b, Brought

\* Replacing fields of one call by values of their types keeps the types.
LEMMA OneCallChanges ==
  ASSUME NEW c \in Seq(CallStates), NEW i \in DOMAIN c, NEW e \in CallStates,
         NEW d, d = [c EXCEPT ![i] = e]
  PROVE  /\ d \in Seq(CallStates) /\ Len(d) = Len(c) /\ DOMAIN d = DOMAIN c
         /\ d[i] = e /\ \A j \in DOMAIN c : j # i => d[j] = c[j]
<1>1. DOMAIN c = 1..Len(c) OBVIOUS
<1>2. QED BY <1>1, ExceptSeq

\* The 'data' event brings units of the one answer that is on the way.
LEMMA DataKeeps ==
  ASSUME ReplyInv, NEW n \in 1..2, Data(n)
  PROVE  ReplyInv'
<1> DEFINE i == lockdown.current
           wire == daemon.wire
           s == SubSeq(wire, 1, n)
           t == SubSeq(wire, n + 1, Len(wire))
           buffered == stream.buffered \o s
<1>1. /\ calls \in Seq(CallStates) /\ stream \in StreamStates /\ daemon \in DaemonStates
      /\ lockdown \in LockdownStates /\ i \in Nat /\ i <= Len(calls) /\ wire \in Seq(Units)
      /\ stream.waiters \in Seq(Nat)
  BY DEF ReplyInv, LockdownTyped, LockdownStates, DaemonStates, StreamStates
<1>2. /\ ~stream.ended /\ Len(wire) >= n /\ UNCHANGED lockdown
      /\ Pump(calls, stream.waiters, buffered) /\ daemon' = [daemon EXCEPT !.wire = t]
  BY DEF Data
<1>3. wire # <<>> BY <1>1, <1>2
<1>4. i # 0 /\ Stage(i)
  BY <1>2, <1>3 DEF ReplyInv, OneAnswer, Quiet, Owes
<1>5. i \in DOMAIN calls BY <1>1, <1>4
<1>6. Coming(i, wire) /\ stream.buffered = <<>> /\ daemon.asked = <<>>
  BY <1>3, <1>4
  DEF Stage, AwaitsHeader, HasHeader, AwaitsBody, HasBody, Quiet, Owes, Holds, Coming
<1>7. /\ s \in Seq(Units) /\ s # <<>> /\ <<>> \o s = s /\ t \in Seq(Units)
      /\ wire = <<B(i)>> => s = <<B(i)>> /\ t = <<>>
      /\ wire = <<H(i), B(i)>> => \/ s = <<H(i)>> /\ t = <<B(i)>>
                                  \/ s = <<H(i), B(i)>> /\ t = <<>>
  <2>1. s = SubSeq(wire, 1, n) /\ t = SubSeq(wire, n + 1, Len(wire)) OBVIOUS
  <2>2. /\ i \in Nat /\ n \in 1..2 /\ wire \in Seq(Units) /\ Len(wire) >= n
        /\ Coming(i, wire)
    BY <1>1, <1>2, <1>6
  <2> HIDE DEF s, t, wire, i
  <2>3. Brought(i, wire, s, t) BY <2>1, <2>2, UnitsArrive
  <2>4. QED BY <2>3 DEF Brought
<1>8. <<B(i)>> # <<H(i), B(i)>>
  <2>1. Len(<<B(i)>>) = 1 /\ Len(<<H(i), B(i)>>) = 2 OBVIOUS
  <2>2. QED BY <2>1
<1>9. buffered = s BY <1>6, <1>7
<1>10. daemon' \in DaemonStates /\ daemon'.wire = t /\ daemon'.asked = <<>>
  BY <1>1, <1>2, <1>6, <1>7 DEF DaemonStates
<1>11. OneRequest BY DEF ReplyInv
<1> HIDE DEF s, t, buffered, wire, i
<1>12. CASE HasHeader(i)
  <2>1. /\ stream.waiters = <<>> /\ wire = <<B(i)>> /\ CallIs(i, "header", H(i))
    BY <1>3, <1>12 DEF HasHeader, Holds, Owes, wire
  <2>2. s = <<B(i)>> /\ t = <<>> BY <1>7, <2>1
  <2>3. /\ calls' = calls /\ stream' \in StreamStates /\ stream'.ended = stream.ended
        /\ stream'.waiters = <<>> /\ stream'.buffered = s
    BY <1>1, <1>2, <1>7, <1>9, <2>1, PumpNone
  <2>4. LockdownTyped' BY <1>1, <1>2, <1>10, <2>3 DEF LockdownTyped, i
  <2>5. OneRequest' BY <1>2, <1>11, <2>3 DEF OneRequest
  <2>6. HasHeader(i)' BY <1>2, <1>10, <2>1, <2>2, <2>3 DEF HasHeader, Holds, Owes, CallIs, H, B, i
  <2>7. OneAnswer' BY <1>2, <1>4, <2>3, <2>6 DEF OneAnswer, Stage, i
  <2>8. QED BY <2>4, <2>5, <2>7 DEF ReplyInv
<1>13. CASE ~HasHeader(i)
  <2>1. \/ AwaitsHeader(i) /\ wire = <<H(i), B(i)>>
        \/ AwaitsBody(i) /\ wire = <<B(i)>>
    BY <1>3, <1>4, <1>13
    DEF Stage, AwaitsHeader, AwaitsBody, HasBody, Quiet, Owes, wire
  <2>2. stream.waiters = <<i>> BY <2>1 DEF AwaitsHeader, AwaitsBody, Holds
  <2>3. /\ calls' \in Seq(CallStates) /\ Len(calls') = Len(calls)
        /\ calls' = [calls EXCEPT ![i].unit = s[1]]
        /\ stream' \in StreamStates /\ stream'.ended = stream.ended
        /\ stream'.waiters = <<>> /\ stream'.buffered = Tail(s)
    <3>1. Pump(calls, <<i>>, s) BY <1>2, <1>9, <2>2
    <3>2. /\ calls \in Seq(CallStates) /\ i \in DOMAIN calls /\ s \in Seq(Units)
          /\ s # <<>> /\ stream \in StreamStates
      BY <1>1, <1>5, <1>7
    <3>3. QED BY ONLY <3>1, <3>2, PumpOne
  <2>4. DOMAIN calls' = DOMAIN calls BY <2>3
  <2>5. \A j \in DOMAIN calls : calls'[j].pc = calls[j].pc /\ calls'[j].got = calls[j].got
    BY <1>1, <1>5, <2>3 DEF CallStates
  <2>6. calls'[i].unit = s[1] BY <1>1, <1>5, <2>3 DEF CallStates
  <2>7. LockdownTyped' BY <1>1, <1>2, <1>10, <2>3 DEF LockdownTyped, i
  <2>8. OneRequest' BY <1>2, <1>11, <2>4, <2>5 DEF OneRequest
  <2>9. Stage(i)'
    <3>1. CASE AwaitsHeader(i) /\ wire = <<H(i), B(i)>>
      <4>1. calls'[i].pc = "header" BY <1>5, <2>5, <3>1 DEF AwaitsHeader, CallIs
      <4>2. CASE s = <<H(i)>> /\ t = <<B(i)>>
        <5>1. s[1] = H(i) /\ Tail(s) = <<>> BY <4>2
        <5>2. QED BY <1>2, <1>10, <2>3, <2>6, <4>1, <4>2, <5>1
                  DEF Stage, HasHeader, CallIs, Holds, Owes, H, B, i
      <4>3. CASE s = <<H(i), B(i)>> /\ t = <<>>
        <5>1. s[1] = H(i) /\ Tail(s) = <<B(i)>> BY <4>3
        <5>2. QED BY <1>2, <1>10, <2>3, <2>6, <4>1, <4>3, <5>1
                  DEF Stage, HasHeader, CallIs, Holds, Owes, H, B, i
      <4>4. QED BY <1>7, <3>1, <4>2, <4>3
    <3>2. CASE AwaitsBody(i) /\ wire = <<B(i)>>
      <4>1. calls'[i].pc = "body" BY <1>5, <2>5, <3>2 DEF AwaitsBody, CallIs
      <4>2. s = <<B(i)>> /\ t = <<>> BY <1>7, <3>2
      <4>3. s[1] = B(i) /\ Tail(s) = <<>> BY <4>2
      <4>4. QED BY <1>2, <1>10, <2>3, <2>6, <4>1, <4>2, <4>3
                DEF Stage, HasBody, Quiet, CallIs, Holds, Owes, H, B, i
    <3>3. QED BY <2>1, <3>1, <3>2
  <2>10. OneAnswer' BY <1>2, <1>4, <2>3, <2>9 DEF OneAnswer, i
  <2>11. QED BY <2>7, <2>8, <2>10 DEF ReplyInv
<1>14. QED BY <1>12, <1>13

Ops == {"list", "connect", "value", "session", "stop", "pair"}

\* A request is only made when none is under way, so that nothing is owed.
LEMMA RequestKeepsReplies ==
  ASSUME ReplyInv, NEW op \in Ops, Request(op), NEW i, i = Len(calls) + 1
  PROVE  ReplyInv'
<1> DEFINE call == [op |-> op, pc |-> "header", unit |-> NoUnit, got |-> 0]
           c == Append(calls, call)
           f == [call EXCEPT !.pc = "failed"]
<1>1. /\ calls \in Seq(CallStates) /\ stream \in StreamStates /\ daemon \in DaemonStates
      /\ lockdown \in LockdownStates
  BY DEF ReplyInv, LockdownTyped
<1>2. i \in Nat /\ i # 0 /\ DOMAIN calls = 1..Len(calls) /\ i \notin DOMAIN calls BY <1>1
<1>3. call \in CallStates /\ f \in CallStates /\ f.pc = "failed"
  BY AnswerUnits DEF Ops, CallStates
<1>4. call.pc = "header" /\ call.unit = NoUnit OBVIOUS
<1>5. lockdown.current = 0 /\ lockdown' = [lockdown EXCEPT !.current = i]
  BY DEF Request, Free
<1>6. lockdown' \in LockdownStates /\ lockdown'.current = i
  BY <1>1, <1>2, <1>5 DEF LockdownStates
<1>7. \A j \in DOMAIN calls : /\ calls[j].pc \in {"done", "failed"}
                              /\ calls[j].pc = "done" => calls[j].got = j
  BY <1>2, <1>5 DEF ReplyInv, OneRequest
<1>8. IF stream.ended
      THEN calls' = Append(calls, f) /\ UNCHANGED <<stream, daemon>>
      ELSE /\ daemon' = [daemon EXCEPT !.asked = Append(@, i)]
           /\ Pump(c, Append(stream.waiters, i), stream.buffered)
  BY DEF Request, Reads
<1> HIDE DEF call, f
<1>9. CASE stream.ended
  <2>1. calls' = Append(calls, f) /\ UNCHANGED <<stream, daemon>> BY <1>8, <1>9
  <2>2. /\ calls' \in Seq(CallStates) /\ Len(calls') = i /\ DOMAIN calls' = 1..i
        /\ calls'[i] = f /\ \A j \in DOMAIN calls : calls'[j] = calls[j]
    BY <1>1, <1>2, <1>3, <2>1
  <2>3. LockdownTyped' BY <1>1, <1>2, <1>6, <2>1, <2>2 DEF LockdownTyped
  <2>4. \A j \in DOMAIN calls' : j = i \/ j \in DOMAIN calls BY <1>2, <2>2
  <2>5. OneRequest' BY <1>2, <1>3, <1>6, <1>7, <2>2, <2>4 DEF OneRequest
  <2>6. OneAnswer' BY <1>2, <1>3, <1>6, <1>9, <2>1, <2>2 DEF OneAnswer, EndedStage
  <2>7. QED BY <2>3, <2>5, <2>6 DEF ReplyInv
<1>10. CASE ~stream.ended
  <2>1. /\ stream.waiters = <<>> /\ stream.buffered = <<>>
        /\ daemon.asked = <<>> /\ daemon.wire = <<>>
    BY <1>5, <1>10 DEF ReplyInv, OneAnswer, Quiet, Holds, Owes
  <2>2. Append(stream.waiters, i) = <<i>> /\ <<i>> \in Seq(Nat)
    BY <1>2, <2>1
  <2>3. daemon' = [daemon EXCEPT !.asked = <<i>>]
    <3>1. Append(daemon.asked, i) = <<i>> BY <1>2, <2>1
    <3>2. daemon' = [daemon EXCEPT !.asked = Append(@, i)] BY <1>8, <1>10
    <3>3. QED BY <3>1, <3>2
  <2>4. daemon' \in DaemonStates /\ daemon'.asked = <<i>> /\ daemon'.wire = <<>>
    BY <1>1, <2>1, <2>2, <2>3 DEF DaemonStates
  <2>5. /\ c \in Seq(CallStates) /\ Len(c) = i /\ DOMAIN c = 1..i /\ c[i] = call
        /\ \A j \in DOMAIN calls : c[j] = calls[j]
    BY <1>1, <1>2, <1>3
  <2>6. Pump(c, <<i>>, <<>>) BY <1>8, <1>10, <2>1, <2>2
  <2> HIDE DEF c
  <2>7. /\ calls' = c /\ stream' \in StreamStates /\ stream'.ended = stream.ended
        /\ stream'.waiters = <<i>> /\ stream'.buffered = <<>>
    <3>1. <<>> \in Seq(Units) OBVIOUS
    <3>2. QED BY <1>1, <2>2, <2>5, <2>6, <3>1, PumpNone
  <2>8. LockdownTyped' BY <1>2, <1>6, <2>4, <2>5, <2>7 DEF LockdownTyped
  <2>9. \A j \in DOMAIN calls' : j = i \/ j \in DOMAIN calls
    BY <1>1, <1>2, <2>5, <2>7
  <2>10. OneRequest' BY <1>2, <1>4, <1>6, <1>7, <2>5, <2>7, <2>9 DEF OneRequest
  <2>11. AwaitsHeader(i)'
    BY <1>4, <2>4, <2>5, <2>7, <1>6
    DEF AwaitsHeader, CallIs, Holds, Owes
  <2>12. OneAnswer' BY <1>2, <1>6, <1>10, <2>7, <2>11 DEF OneAnswer, Stage
  <2>13. QED BY <2>8, <2>10, <2>12 DEF ReplyInv
<1>11. QED BY <1>9, <1>10

\* What all steps of the current call need.
LEMMA CurrentCall ==
  ASSUME ReplyInv, NEW i \in DOMAIN calls, calls[i].pc \in {"header", "body"}
  PROVE  /\ i = lockdown.current /\ i \in Nat /\ i # 0
         /\ IF stream.ended THEN EndedStage(i) ELSE Stage(i)
<1>1. i = lockdown.current BY DEF ReplyInv, OneRequest
<1>2. i \in Nat /\ i # 0 BY DEF ReplyInv, LockdownTyped
<1>3. QED BY <1>1, <1>2 DEF ReplyInv, OneAnswer

\* The header comes to the call that awaits it, which then awaits the body.
LEMMA HeaderKeeps ==
  ASSUME ReplyInv, NEW i \in DOMAIN calls, Header(i)
  PROVE  ReplyInv'
<1> DEFINE e == [calls[i] EXCEPT !.pc = "body", !.unit = NoUnit]
           c == [calls EXCEPT ![i] = e]
<1>1. /\ calls \in Seq(CallStates) /\ stream \in StreamStates
      /\ lockdown.current <= Len(calls) /\ OneRequest
  BY DEF ReplyInv, LockdownTyped
<1>2. calls[i].pc = "header" /\ calls[i].unit # NoUnit /\ UNCHANGED <<lockdown, pairing, daemon>>
  BY DEF Header
<1>3. /\ i = lockdown.current /\ i \in Nat /\ i # 0
      /\ IF stream.ended THEN EndedStage(i) ELSE Stage(i)
  BY <1>2, CurrentCall
<1>4. /\ calls[i].unit = H(i) /\ stream.waiters = <<>>
      /\ stream.buffered = <<>> \/ stream.buffered = <<B(i)>>
      /\ ~stream.ended => HasHeader(i)
  BY <1>2, <1>3
  DEF EndedStage, Stage, AwaitsHeader, HasHeader, AwaitsBody, HasBody, CallIs, Holds
<1>5. calls[i].unit[1] = "header" BY <1>4 DEF H
<1>6. Pump([calls EXCEPT ![i].pc = "body", ![i].unit = NoUnit], Append(stream.waiters, i),
           stream.buffered)
  BY <1>5 DEF Header, Reads
<1>7. [calls EXCEPT ![i].pc = "body", ![i].unit = NoUnit] = c OBVIOUS
<1>8. e \in CallStates /\ e.pc = "body" /\ e.unit = NoUnit /\ e.got = calls[i].got
  <2>1. calls[i] \in CallStates BY <1>1
  <2>2. QED BY <2>1, AnswerUnits DEF CallStates
<1>9. Append(stream.waiters, i) = <<i>> /\ <<i>> \in Seq(Nat) BY <1>3, <1>4
<1>10. Pump(c, <<i>>, stream.buffered) BY <1>6, <1>7, <1>9
<1> HIDE DEF e
<1>11. /\ c \in Seq(CallStates) /\ Len(c) = Len(calls) /\ DOMAIN c = DOMAIN calls
       /\ c[i] = e /\ \A j \in DOMAIN calls : j # i => c[j] = calls[j]
  <2> HIDE DEF c
  <2>1. c = [calls EXCEPT ![i] = e] BY DEF c
  <2>2. QED BY <1>1, <1>8, <2>1, OneCallChanges
<1>12. stream.buffered \in Seq(Units) /\ <<>> \in Seq(Units) BY <1>1 DEF StreamStates
<1> HIDE DEF c
<1>13. CASE stream.buffered = <<>>
  <2>1. /\ calls' = c /\ stream' \in StreamStates /\ stream'.ended = stream.ended
        /\ stream'.waiters = <<i>> /\ stream'.buffered = <<>>
    BY <1>1, <1>9, <1>10, <1>11, <1>12, <1>13, PumpNone
  <2>2. LockdownTyped' BY <1>2, <1>11, <2>1 DEF ReplyInv, LockdownTyped
  <2>3. OneRequest' BY <1>1, <1>2, <1>3, <1>8, <1>11, <2>1 DEF OneRequest
  <2>4. CallIs(i, "body", NoUnit)' BY <1>8, <1>11, <2>1 DEF CallIs
  <2>5. ~stream.ended => AwaitsBody(i)'
    BY <1>2, <1>4, <1>8, <1>11, <1>13, <2>1, Zenon
    DEF HasHeader, AwaitsBody, CallIs, Holds, Owes, B
  <2>6. OneAnswer' BY <1>2, <1>3, <2>1, <2>4, <2>5 DEF OneAnswer, Stage, EndedStage
  <2>7. QED BY <2>2, <2>3, <2>6 DEF ReplyInv
<1>14. CASE stream.buffered # <<>>
  <2>1. stream.buffered = <<B(i)>> BY <1>4, <1>14
  <2>2. /\ calls' \in Seq(CallStates) /\ Len(calls') = Len(c)
        /\ calls' = [c EXCEPT ![i].unit = stream.buffered[1]]
        /\ stream' \in StreamStates /\ stream'.ended = stream.ended
        /\ stream'.waiters = <<>> /\ stream'.buffered = Tail(stream.buffered)
    <3> DEFINE b == stream.buffered
    <3>1. /\ c \in Seq(CallStates) /\ i \in DOMAIN c /\ b \in Seq(Units)
          /\ b # <<>> /\ stream \in StreamStates /\ Pump(c, <<i>>, b)
      BY <1>1, <1>10, <1>11, <1>12, <1>14
    <3> HIDE DEF b
    <3>2. /\ calls' \in Seq(CallStates) /\ Len(calls') = Len(c)
          /\ calls' = [c EXCEPT ![i].unit = b[1]]
          /\ stream' \in StreamStates /\ stream'.ended = stream.ended
          /\ stream'.waiters = <<>> /\ stream'.buffered = Tail(b)
      BY <3>1, PumpOne, Zenon
    <3>3. QED BY <3>2 DEF b
  <2>3. stream.buffered[1] = B(i) /\ Tail(stream.buffered) = <<>> BY <2>1
  <2>4. DOMAIN calls' = DOMAIN calls BY <1>11, <2>2
  <2>5. /\ \A j \in DOMAIN calls : j # i => calls'[j] = calls[j]
        /\ calls'[i].pc = "body" /\ calls'[i].unit = B(i)
    BY <1>8, <1>11, <2>2, <2>3 DEF CallStates
  <2>6. LockdownTyped' BY <1>2, <1>11, <2>2 DEF ReplyInv, LockdownTyped
  <2>7. OneRequest' BY <1>1, <1>2, <1>3, <2>4, <2>5 DEF OneRequest
  <2>8. CallIs(i, "body", B(i))' BY <2>5 DEF CallIs, B
  <2>9. ~stream.ended => HasBody(i)'
    <3>1. SUFFICES ASSUME ~stream.ended PROVE HasBody(i)'
      OBVIOUS
    <3>2. daemon.asked = <<>> /\ daemon.wire = <<>>
      BY <1>4, <1>14, <3>1 DEF HasHeader, Holds, Owes
    <3>3. QED BY <1>2, <2>2, <2>3, <2>8, <3>2 DEF HasBody, Quiet, Holds, Owes
  <2>10. OneAnswer' BY <1>2, <1>3, <2>2, <2>8, <2>9 DEF OneAnswer, Stage, EndedStage
  <2>11. QED BY <2>6, <2>7, <2>10 DEF ReplyInv
<1>15. QED BY <1>13, <1>14

\* The body that the call gets is the one of its own answer.
LEMMA BodyKeeps ==
  ASSUME ReplyInv, NEW i \in DOMAIN calls, Body(i)
  PROVE  ReplyInv'
<1> DEFINE e == [calls[i] EXCEPT !.pc = "done", !.got = i]
<1>1. /\ calls \in Seq(CallStates) /\ lockdown.current <= Len(calls) /\ OneRequest
  BY DEF ReplyInv, LockdownTyped
<1>2. /\ calls[i].pc = "body" /\ calls[i].unit # NoUnit
      /\ UNCHANGED <<stream, lockdown, pairing, daemon>>
  BY DEF Body
<1>3. /\ i = lockdown.current /\ i \in Nat /\ i # 0
      /\ IF stream.ended THEN EndedStage(i) ELSE Stage(i)
  BY <1>2, CurrentCall
<1>4. calls[i].unit = B(i) /\ (~stream.ended => Quiet)
  BY <1>2, <1>3
  DEF EndedStage, Stage, AwaitsHeader, HasHeader, AwaitsBody, HasBody, CallIs
<1>5. calls[i].unit[1] # "header" /\ calls[i].unit[2] = i BY <1>4 DEF B
<1>6. calls' = [calls EXCEPT ![i].pc = "done", ![i].got = i]
  BY <1>5 DEF Body
<1>7. calls' = [calls EXCEPT ![i] = e] BY <1>6
<1>8. e \in CallStates /\ e.pc = "done" /\ e.got = i
  <2>1. calls[i] \in CallStates BY <1>1
  <2>2. QED BY <1>3, <2>1 DEF CallStates
<1> HIDE DEF e
<1>9. /\ calls' \in Seq(CallStates) /\ Len(calls') = Len(calls) /\ DOMAIN calls' = DOMAIN calls
      /\ calls'[i] = e /\ \A j \in DOMAIN calls : j # i => calls'[j] = calls[j]
  BY <1>1, <1>7, <1>8, OneCallChanges
<1>10. LockdownTyped' BY <1>2, <1>9 DEF ReplyInv, LockdownTyped
<1>11. OneRequest' BY <1>1, <1>2, <1>8, <1>9 DEF OneRequest
<1>12. OneAnswer' BY <1>2, <1>3, <1>4, <1>8, <1>9
       DEF OneAnswer, Stage, EndedStage, Quiet, Holds, Owes
<1>13. QED BY <1>10, <1>11, <1>12 DEF ReplyInv

\* The caller goes on once the call is settled, and nothing is owed then.
LEMMA SettledKeeps ==
  ASSUME ReplyInv, UNCHANGED <<calls, stream, daemon>>,
         lockdown' \in LockdownStates, lockdown'.current = 0,
         lockdown.current # 0 => calls[lockdown.current].pc \in {"done", "failed"}
  PROVE  ReplyInv'
<1>1. LockdownTyped' BY DEF ReplyInv, LockdownTyped
<1>2. OneRequest' BY DEF ReplyInv, OneRequest
<1>3. ~stream.ended => Quiet
  BY DEF ReplyInv, OneAnswer, Stage, AwaitsHeader, HasHeader, AwaitsBody, HasBody, CallIs
<1>4. OneAnswer' BY <1>3 DEF OneAnswer, Quiet, Holds, Owes
<1>5. QED BY <1>1, <1>2, <1>4 DEF ReplyInv

\* A caller that took its answer or its failure sets its own end only.
LEMMA CallerGoesOn ==
  ASSUME ReplyInv, (\E ok \in BOOLEAN : Settled(ok)) \/ \E answer : PairAnswered(answer)
  PROVE  ReplyInv'
<1>1. lockdown \in LockdownStates /\ calls \in Seq(CallStates) /\ lockdown.current <= Len(calls)
  BY DEF ReplyInv, LockdownTyped
<1>2. lockdown.current \in Nat BY <1>1 DEF LockdownStates
<1>3. /\ UNCHANGED <<calls, stream, daemon>> /\ Current.pc \in {"done", "failed"}
  BY DEF Settled, PairAnswered
<1>4. lockdown.current # 0 => calls[lockdown.current].pc \in {"done", "failed"}
  BY <1>3 DEF Current
<1>5. lockdown' \in LockdownStates /\ lockdown'.current = 0
  <2>1. ASSUME NEW ok \in BOOLEAN, Settled(ok)
        PROVE  lockdown' \in LockdownStates /\ lockdown'.current = 0
    <3> DEFINE layer == IF ok /\ Current.op = "connect" THEN "lockdown" ELSE lockdown.layer
               session == IF ~ok THEN lockdown.session
                          ELSE CASE Current.op = "session" -> Current.got
                                 [] Current.op = "stop" -> 0 [] OTHER -> lockdown.session
    <3>1. lockdown' = [lockdown EXCEPT !.current = 0, !.layer = layer, !.session = session]
      BY <2>1, Zenon DEF Settled
    <3>2. lockdown.current \in DOMAIN calls
      <4>1. lockdown.current # 0 BY <2>1 DEF Settled
      <4>2. QED BY <1>1, <1>2, <4>1
    <3>3. Current \in CallStates BY <1>1, <3>2 DEF Current
    <3>4. Current.got \in Nat BY <3>3 DEF CallStates
    <3>5. layer \in {"usbmuxd", "lockdown"} /\ session \in Nat
      BY <1>1, <3>4 DEF LockdownStates
    <3> HIDE DEF layer, session
    <3>6. QED BY <1>1, <3>1, <3>5 DEF LockdownStates
  <2>2. ASSUME NEW answer, PairAnswered(answer)
        PROVE  lockdown' \in LockdownStates /\ lockdown'.current = 0
    BY <1>1, <2>2 DEF PairAnswered, LockdownStates
  <2>3. QED BY <2>1, <2>2
<1>6. QED BY <1>3, <1>4, <1>5, SettledKeeps

\* close() and failAll() fail those of the calls that are not settled.
LEMMA RejectedCalls ==
  ASSUME NEW c \in Seq(CallStates), NEW which, NEW d, d = Rejected(c, which)
  PROVE  /\ d \in Seq(CallStates) /\ Len(d) = Len(c) /\ DOMAIN d = DOMAIN c
         /\ \A j \in DOMAIN c :
              /\ d[j].pc = IF j \in which /\ c[j].pc \in {"header", "body"}
                           THEN "failed" ELSE c[j].pc
              /\ d[j].got = c[j].got /\ d[j].unit = c[j].unit
<1>1. DOMAIN d = DOMAIN c /\ DOMAIN c = 1..Len(c) /\ Len(c) \in Nat BY DEF Rejected
<1>2. ASSUME NEW j \in DOMAIN c
      PROVE  /\ d[j] \in CallStates /\ d[j].got = c[j].got /\ d[j].unit = c[j].unit
             /\ d[j].pc = IF j \in which /\ c[j].pc \in {"header", "body"}
                          THEN "failed" ELSE c[j].pc
  <2>1. c[j] \in CallStates OBVIOUS
  <2>2. CASE j \in which /\ c[j].pc \in {"header", "body"}
    <3>1. d[j] = [c[j] EXCEPT !.pc = "failed"] BY <2>2 DEF Rejected
    <3>2. QED BY <2>1, <2>2, <3>1 DEF CallStates
  <2>3. CASE ~(j \in which /\ c[j].pc \in {"header", "body"})
    <3>1. d[j] = c[j] BY <2>3 DEF Rejected
    <3>2. QED BY <2>1, <2>3, <3>1
  <2>4. QED BY <2>2, <2>3
<1>3. d = [j \in 1..Len(c) |-> d[j]] BY <1>1 DEF Rejected
<1>4. d \in Seq(CallStates) /\ Len(d) = Len(c) BY <1>1, <1>2, <1>3
<1>5. QED BY <1>1, <1>2, <1>4

\* The end of the stream fails the call that waits for it; one whose header or
\* body has come goes on.
LEMMA StreamEndsKeeps ==
  ASSUME ReplyInv, StreamEnds
  PROVE  ReplyInv'
<1> DEFINE which == {stream.waiters[j] : j \in DOMAIN stream.waiters}
           i == lockdown.current
<1>1. /\ calls \in Seq(CallStates) /\ stream \in StreamStates /\ lockdown \in LockdownStates
      /\ i \in Nat /\ i <= Len(calls) /\ OneRequest
  BY DEF ReplyInv, LockdownTyped, LockdownStates
<1>2. /\ ~stream.ended /\ calls' = Rejected(calls, which)
      /\ stream' = [stream EXCEPT !.ended = TRUE, !.waiters = <<>>]
      /\ UNCHANGED <<lockdown, pairing, daemon>>
  BY DEF StreamEnds
<1>3. <<>> \in Seq(Nat) OBVIOUS
<1>4. /\ stream' \in StreamStates /\ stream'.ended /\ stream'.waiters = <<>>
      /\ stream'.buffered = stream.buffered
  BY <1>1, <1>2, <1>3 DEF StreamStates
<1>5. i # 0 => Stage(i) BY <1>2 DEF ReplyInv, OneAnswer
<1>6. stream.waiters = <<i>> => i \in which
  <2>1. DOMAIN <<i>> = {1} /\ <<i>>[1] = i OBVIOUS
  <2>2. QED BY <2>1
<1>7. stream.waiters = <<>> => which = {} OBVIOUS
<1> HIDE DEF which
<1>8. /\ calls' \in Seq(CallStates) /\ Len(calls') = Len(calls) /\ DOMAIN calls' = DOMAIN calls
      /\ \A j \in DOMAIN calls :
           /\ calls'[j].pc = IF j \in which /\ calls[j].pc \in {"header", "body"}
                             THEN "failed" ELSE calls[j].pc
           /\ calls'[j].got = calls[j].got /\ calls'[j].unit = calls[j].unit
  BY <1>1, <1>2, RejectedCalls
<1>9. LockdownTyped' BY <1>2, <1>4, <1>8 DEF ReplyInv, LockdownTyped
<1>10. OneRequest' BY <1>1, <1>2, <1>8 DEF OneRequest
<1>11. i # 0 => EndedStage(i)'
  <2>1. SUFFICES ASSUME i # 0 PROVE EndedStage(i)'
    OBVIOUS
  <2>2. i \in DOMAIN calls BY <1>1, <2>1
  <2>3. CASE AwaitsHeader(i) \/ AwaitsBody(i)
    <3>1. i \in which /\ calls[i].pc \in {"header", "body"}
      BY <1>6, <2>3 DEF AwaitsHeader, AwaitsBody, Holds, CallIs
    <3>2. calls'[i].pc = "failed" BY <1>8, <2>2, <3>1
    <3>3. QED BY <1>2, <3>2 DEF EndedStage
  <2>4. CASE HasHeader(i)
    <3>1. /\ stream.waiters = <<>> /\ calls[i].pc = "header" /\ calls[i].unit = H(i)
          /\ stream.buffered = <<>> \/ stream.buffered = <<B(i)>>
      BY <2>4 DEF HasHeader, Holds, CallIs
    <3>2. calls'[i].pc = "header" /\ calls'[i].unit = H(i)
      BY <1>7, <1>8, <2>2, <3>1
    <3>3. CallIs(i, "header", H(i))' BY <1>2, <3>2 DEF CallIs, H
    <3>4. Holds(<<>>, <<>>)' \/ Holds(<<>>, <<B(i)>>)'
      BY <1>2, <1>4, <3>1 DEF Holds, B
    <3>5. QED BY <3>3, <3>4 DEF EndedStage
  <2>5. CASE HasBody(i)
    <3>1. calls[i].pc = "body" /\ calls[i].unit = B(i) /\ stream.waiters = <<>>
      BY <2>5 DEF HasBody, CallIs, Quiet, Holds
    <3>2. calls'[i].pc = "body" /\ calls'[i].unit = B(i)
      BY <1>7, <1>8, <2>2, <3>1
    <3>3. CallIs(i, "body", B(i))' BY <1>2, <3>2 DEF CallIs, B
    <3>4. QED BY <3>3 DEF EndedStage
  <2>6. CASE calls[i].pc = "done"
    <3>1. calls'[i].pc = "done" BY <1>8, <2>2, <2>6
    <3>2. QED BY <1>2, <3>1 DEF EndedStage
  <2>7. QED BY <1>5, <2>1, <2>3, <2>4, <2>5, <2>6 DEF Stage
<1>12. OneAnswer' BY <1>2, <1>4, <1>11 DEF OneAnswer
<1>13. QED BY <1>9, <1>10, <1>12 DEF ReplyInv

\* A new attempt has a stream of its own, on which nothing is owed: an answer
\* to the StartSession that was abandoned cannot come there.
LEMMA AttemptKeeps ==
  ASSUME ReplyInv, AttemptFails
  PROVE  ReplyInv'
<1>1. /\ calls \in Seq(CallStates) /\ lockdown \in LockdownStates /\ daemon \in DaemonStates
      /\ OneRequest
  BY DEF ReplyInv, LockdownTyped
<1>2. /\ lockdown' = [lockdown EXCEPT !.current = 0, !.session = 0, !.attempt = @ + 1]
      /\ calls' = Rejected(calls, DOMAIN calls) /\ stream' = NewStream
      /\ daemon' = [NewDaemon EXCEPT !.trust = daemon.trust]
  BY DEF AttemptFails, NextAttempt
<1>3. /\ calls' \in Seq(CallStates) /\ Len(calls') = Len(calls) /\ DOMAIN calls' = DOMAIN calls
      /\ \A j \in DOMAIN calls :
           /\ calls'[j].pc = IF j \in DOMAIN calls /\ calls[j].pc \in {"header", "body"}
                             THEN "failed" ELSE calls[j].pc
           /\ calls'[j].got = calls[j].got /\ calls'[j].unit = calls[j].unit
  BY <1>1, <1>2, RejectedCalls
<1>4. <<>> \in Seq(Nat) /\ <<>> \in Seq(Units) OBVIOUS
<1>5. /\ stream' \in StreamStates /\ stream'.waiters = <<>> /\ stream'.buffered = <<>>
  BY <1>2, <1>4 DEF NewStream, StreamStates
<1>6. daemon' \in DaemonStates /\ daemon'.asked = <<>> /\ daemon'.wire = <<>>
  BY <1>1, <1>2, <1>4 DEF NewDaemon, DaemonStates
<1>7. lockdown' \in LockdownStates /\ lockdown'.current = 0
  <2>1. lockdown.attempt + 1 \in Nat BY <1>1 DEF LockdownStates
  <2>2. QED BY <1>1, <1>2, <2>1 DEF LockdownStates
<1>8. LockdownTyped' BY <1>1, <1>3, <1>5, <1>6, <1>7 DEF LockdownTyped
<1>9. \A j \in DOMAIN calls : calls[j].pc \in {"header", "body", "done", "failed"}
  <2>1. \A j \in DOMAIN calls : calls[j] \in CallStates BY <1>1
  <2>2. QED BY <2>1 DEF CallStates
<1>10. OneRequest' BY <1>1, <1>3, <1>9 DEF OneRequest
<1>11. OneAnswer' BY <1>5, <1>6, <1>7 DEF OneAnswer, Quiet, Holds, Owes
<1>12. QED BY <1>8, <1>10, <1>11 DEF ReplyInv

\* lockdownd answers the request that it was asked.
LEMMA AnswersKeep ==
  ASSUME ReplyInv, Answers
  PROVE  ReplyInv'
<1> DEFINE a == Head(daemon.asked)
           units == <<H(a), B(a)>>
           i == lockdown.current
<1>1. /\ daemon \in DaemonStates /\ lockdown \in LockdownStates /\ i \in Nat
      /\ daemon.asked \in Seq(Nat) /\ daemon.asked # <<>> /\ daemon.wire \in Seq(Units)
      /\ UNCHANGED <<calls, stream, lockdown, pairing>>
  BY DEF ReplyInv, LockdownTyped, LockdownStates, DaemonStates, Answers
<1>2. a \in Nat /\ Tail(daemon.asked) \in Seq(Nat) BY <1>1
<1>3. units \in Seq(Units) BY <1>2, AnswerUnits
<1>4. daemon' = [daemon EXCEPT !.asked = Tail(@), !.wire = @ \o units]
  BY DEF Answers, H, B
<1>5. daemon.wire \o units \in Seq(Units) BY <1>1, <1>3
<1>6. daemon' \in DaemonStates BY <1>1, <1>2, <1>4, <1>5 DEF DaemonStates
<1>7. daemon'.asked = Tail(daemon.asked) /\ daemon'.wire = daemon.wire \o units
  BY <1>1, <1>4 DEF DaemonStates
<1>8. LockdownTyped' BY <1>1, <1>6 DEF ReplyInv, LockdownTyped
<1>9. OneRequest' BY <1>1 DEF ReplyInv, OneRequest
<1>10. CASE stream.ended
  <2>1. OneAnswer' BY <1>1, <1>10 DEF ReplyInv, OneAnswer, EndedStage, CallIs, Holds
  <2>2. QED BY <1>8, <1>9, <2>1 DEF ReplyInv
<1>11. CASE ~stream.ended
  <2>1. i # 0 /\ Stage(i) BY <1>1, <1>11 DEF ReplyInv, OneAnswer, Quiet, Owes
  <2>2. AwaitsHeader(i) /\ daemon.asked = <<i>> /\ daemon.wire = <<>>
    BY <1>1, <2>1 DEF Stage, AwaitsHeader, HasHeader, AwaitsBody, HasBody, Quiet, Owes
  <2>3. a = i /\ Tail(daemon.asked) = <<>> BY <2>2
  <2>4. daemon.wire \o units = <<H(i), B(i)>>
    <3>1. <<>> \o units = units BY <1>3, ConcatEmptySeq
    <3>2. QED BY <2>2, <2>3, <3>1
  <2>5. AwaitsHeader(i)'
    <3>1. CallIs(i, "header", NoUnit)' /\ Holds(<<i>>, <<>>)'
      BY <1>1, <2>2 DEF AwaitsHeader, CallIs, Holds, NoUnit
    <3>2. Owes(<<>>, <<H(i), B(i)>>)' BY <1>1, <1>7, <2>3, <2>4 DEF Owes, H, B
    <3>3. QED BY <3>1, <3>2 DEF AwaitsHeader
  <2>6. OneAnswer' BY <1>1, <1>11, <2>1, <2>5 DEF OneAnswer, Stage
  <2>7. QED BY <1>8, <1>9, <2>6 DEF ReplyInv
<1>12. QED BY <1>10, <1>11

\* Nothing is asked at the start.
LEMMA RepliesStart == LockdownInit => ReplyInv
<1>1. SUFFICES ASSUME LockdownInit PROVE ReplyInv
  OBVIOUS
<1>2. <<>> \in Seq(Nat) /\ <<>> \in Seq(Units) /\ <<>> \in Seq(CallStates) OBVIOUS
<1>3. LockdownTyped
  BY <1>1, <1>2
  DEF LockdownInit, NewStream, NewDaemon, LockdownTyped, StreamStates, LockdownStates,
      DaemonStates
<1>4. OneRequest BY <1>1 DEF LockdownInit, OneRequest
<1>5. OneAnswer
  BY <1>1 DEF LockdownInit, NewStream, NewDaemon, OneAnswer, Quiet, Holds, Owes
<1>6. QED BY <1>3, <1>4, <1>5 DEF ReplyInv

\* Every step of the clients keeps the invariant.
LEMMA RepliesKeep == ReplyInv /\ [LockdownNext]_lockdownVars => ReplyInv'
<1>1. SUFFICES ASSUME ReplyInv, [LockdownNext]_lockdownVars PROVE ReplyInv'
  OBVIOUS
<1>2. CASE UNCHANGED <<calls, stream, lockdown, daemon>>
  BY <1>1, <1>2
  DEF ReplyInv, LockdownTyped, OneRequest, OneAnswer, Stage, EndedStage, AwaitsHeader,
      HasHeader, AwaitsBody, HasBody, CallIs, Quiet, Holds, Owes
<1>3. ASSUME NEW n \in 1..2, Data(n) PROVE ReplyInv' BY <1>1, <1>3, DataKeeps
<1>4. CASE StreamEnds BY <1>1, <1>4, StreamEndsKeeps
<1>5. ASSUME NEW op \in Ops, Request(op) PROVE ReplyInv' BY <1>1, <1>5, RequestKeepsReplies
<1>6. ASSUME NEW op \in {"list", "connect", "value", "session", "stop"},
             UsbmuxdRequest(op) \/ LockdownRequest(op)
      PROVE  ReplyInv'
  BY <1>5, <1>6 DEF UsbmuxdRequest, LockdownRequest, Ops
<1>7. ASSUME NEW i \in DOMAIN calls, Header(i) \/ Body(i) PROVE ReplyInv'
  BY <1>1, <1>7, HeaderKeeps, BodyKeeps
<1>8. ASSUME NEW ok \in BOOLEAN, Settled(ok) PROVE ReplyInv' BY <1>1, <1>8, CallerGoesOn
<1>9. CASE AttemptFails BY <1>1, <1>9, AttemptKeeps
<1>10. CASE StartPairing \/ RetryDelayOver \/ Abort
  BY <1>2, <1>10 DEF StartPairing, RetryDelayOver, Abort
<1>11. CASE PairAttempt
  <2>1. "pair" \in Ops BY DEF Ops
  <2>2. UNCHANGED <<calls, stream, lockdown, daemon>> \/ Request("pair")
    BY <1>11 DEF PairAttempt
  <2>3. QED BY <1>2, <1>5, <2>1, <2>2
<1>12. ASSUME NEW answer \in {"ok", "pending", "error"}, PairAnswered(answer) PROVE ReplyInv'
  BY <1>1, <1>12, CallerGoesOn
<1>13. CASE Answers BY <1>1, <1>13, AnswersKeep
<1>14. CASE Trusts
  <2>1. daemon' = [daemon EXCEPT !.trust = "trusted"] /\ UNCHANGED <<calls, stream, lockdown>>
    BY <1>14 DEF Trusts
  <2>2. daemon \in DaemonStates BY <1>1 DEF ReplyInv, LockdownTyped
  <2>3. daemon' \in DaemonStates /\ daemon'.asked = daemon.asked /\ daemon'.wire = daemon.wire
    BY <2>1, <2>2 DEF DaemonStates
  <2>4. QED
    BY <1>1, <2>1, <2>3
    DEF ReplyInv, LockdownTyped, OneRequest, OneAnswer, Stage, EndedStage, AwaitsHeader,
        HasHeader, AwaitsBody, HasBody, CallIs, Quiet, Holds, Owes
<1>15. CASE UNCHANGED lockdownVars BY <1>2, <1>15 DEF lockdownVars
<1>16. QED BY <1>1, <1>3, <1>4, <1>6, <1>7, <1>8, <1>9, <1>10, <1>11, <1>12, <1>13, <1>14, <1>15
           DEF LockdownNext

\* Every reply of usbmuxd and lockdownd reaches the request that it answers,
\* although no reply says which one that is: one request at a time is under
\* way on a stream, and a new attempt has a new stream (ReplyOfRequest, which
\* the run of Lockdown checks).
THEOREM RepliesMatch == LockdownSpec => []ReplyOfRequest
<1>1. LockdownInit => ReplyInv BY RepliesStart
<1>2. ReplyInv /\ [LockdownNext]_lockdownVars => ReplyInv' BY RepliesKeep
<1>3. ReplyInv => ReplyOfRequest BY DEF ReplyInv, OneRequest, ReplyOfRequest
<1>4. QED BY <1>1, <1>2, <1>3, PTL DEF LockdownSpec

\* No more requests and attempts than the bounds allow, and pairDevice() only
\* sleeps when an attempt is left.
PairingStates ==
  [pc : {"none", "check", "asking", "sleeping", "paired", "failed"}, attempt : Nat,
   notified : BOOLEAN, aborted : BOOLEAN]
LockdownBounded ==
  /\ Len(calls) <= MaxCalls /\ lockdown.attempt \in 1..Attempts
  /\ pairing \in PairingStates /\ pairing.attempt \in 1..PairAttempts
  /\ pairing.pc = "sleeping" => pairing.attempt < PairAttempts

\* pump() answers calls, and makes none.
LEMMA PumpLength ==
  ASSUME NEW c \in Seq(CallStates), NEW reads, NEW buffered, Pump(c, reads, buffered),
         calls' \in Seq(CallStates)
  PROVE  Len(calls') = Len(c)
BY DEF Pump

LEMMA RejectedLength ==
  ASSUME NEW c \in Seq(CallStates), NEW which, calls' \in Seq(CallStates),
         calls' = Rejected(c, which)
  PROVE  Len(calls') = Len(c)
BY DEF Rejected

\* A request takes a place that is free.
LEMMA RequestBounded ==
  ASSUME ReplyInv, ReplyInv', LockdownBounded, NEW op \in Ops, Request(op)
  PROVE  Len(calls') <= MaxCalls /\ lockdown'.attempt = lockdown.attempt
<1> DEFINE i == Len(calls) + 1
           call == [op |-> op, pc |-> "header", unit |-> NoUnit, got |-> 0]
<1>1. /\ calls \in Seq(CallStates) /\ calls' \in Seq(CallStates)
      /\ lockdown \in LockdownStates /\ MaxCalls \in Nat
  BY LockdownAssumption DEF ReplyInv, LockdownTyped
<1>2. Len(calls) < MaxCalls /\ lockdown' = [lockdown EXCEPT !.current = i]
  BY DEF Request, Free
<1>3. lockdown'.attempt = lockdown.attempt
  BY <1>1, <1>2 DEF LockdownStates
<1>4. call \in CallStates /\ [call EXCEPT !.pc = "failed"] \in CallStates
  BY DEF CallStates, Units, NoUnit, Ops
<1>5. CASE stream.ended
  <2>1. calls' = Append(calls, [call EXCEPT !.pc = "failed"])
    BY <1>5 DEF Request
  <2>2. Len(calls') = Len(calls) + 1 BY <1>1, <2>1
  <2>3. QED BY <1>1, <1>2, <1>3, <2>2
<1>6. CASE ~stream.ended
  <2>1. Reads(Append(calls, call), i)
    BY <1>6 DEF Request
  <2>2. Append(calls, call) \in Seq(CallStates) BY <1>1, <1>4
  <2>3. Len(calls') = Len(Append(calls, call))
    BY <1>1, <2>1, <2>2, PumpLength DEF Reads
  <2>4. Len(Append(calls, call)) = Len(calls) + 1 BY <1>1, <1>4
  <2>5. QED BY <1>1, <1>2, <1>3, <2>3, <2>4
<1>7. QED BY <1>5, <1>6

\* The types of the lockdown clients, and the bounds of what they repeat:
\* pairDevice() asks maxAttempts times at most, browseInstalledApps() connects
\* as often as it may (LockdownTypeOK, which TypesOK of MCComponents has for its part).
THEOREM LockdownTypesCorrect == LockdownSpec => []LockdownTypeOK
<1>1. LockdownInit => ReplyInv /\ LockdownBounded
  <2>1. LockdownInit => LockdownBounded
    BY LockdownAssumption DEF LockdownInit, LockdownBounded, PairingStates
  <2>2. QED BY <2>1, RepliesStart
<1>2. ReplyInv /\ LockdownBounded /\ [LockdownNext]_lockdownVars => (ReplyInv /\ LockdownBounded)'
  <2>1. SUFFICES ASSUME ReplyInv, LockdownBounded, [LockdownNext]_lockdownVars, ReplyInv'
                 PROVE  LockdownBounded'
    BY RepliesKeep
  <2>2. /\ calls \in Seq(CallStates) /\ calls' \in Seq(CallStates)
        /\ lockdown \in LockdownStates /\ MaxCalls \in Nat
        /\ PairAttempts \in Nat \ {0} /\ Attempts \in Nat \ {0}
    BY <2>1, LockdownAssumption DEF ReplyInv, LockdownTyped
  <2>3. ASSUME Len(calls') = Len(calls), lockdown'.attempt = lockdown.attempt,
               UNCHANGED pairing
        PROVE  LockdownBounded'
    BY <2>1, <2>3 DEF LockdownBounded
  <2>4. ASSUME NEW n \in 1..2, Data(n) PROVE LockdownBounded'
    BY <2>2, <2>3, <2>4, PumpLength DEF Data
  <2>5. CASE StreamEnds BY <2>2, <2>3, <2>5, RejectedLength DEF StreamEnds
  <2>6. ASSUME NEW op \in {"list", "connect", "value", "session", "stop"},
               UsbmuxdRequest(op) \/ LockdownRequest(op)
        PROVE  LockdownBounded'
    <3>1. op \in Ops /\ Request(op) /\ UNCHANGED pairing
      BY <2>6 DEF UsbmuxdRequest, LockdownRequest, Ops
    <3>2. QED BY <2>1, <3>1, RequestBounded DEF LockdownBounded
  <2>7. ASSUME NEW i \in DOMAIN calls, Header(i) PROVE LockdownBounded'
    <3>1. UNCHANGED <<lockdown, pairing>> BY <2>7 DEF Header
    <3>2. CASE calls[i].unit[1] = "header"
      <4> DEFINE c == [calls EXCEPT ![i].pc = "body", ![i].unit = NoUnit]
      <4>1. c \in Seq(CallStates) /\ Len(c) = Len(calls)
        <5> DEFINE call == [calls[i] EXCEPT !.pc = "body", !.unit = NoUnit]
        <5>1. calls[i] \in CallStates /\ NoUnit \in Units BY <2>2, <2>7 DEF Units, NoUnit
        <5>2. call \in CallStates BY <5>1 DEF CallStates
        <5>3. c = [calls EXCEPT ![i] = call] BY <2>2, <2>7, <5>1 DEF CallStates
        <5> HIDE DEF call, c
        <5>4. QED BY <2>2, <2>7, <5>2, <5>3
      <4>2. Pump(c, Append(stream.waiters, i), stream.buffered)
        BY <2>7, <3>2 DEF Header, Reads
      <4>3. QED BY <2>2, <2>3, <3>1, <4>1, <4>2, PumpLength
    <3>3. CASE calls[i].unit[1] # "header"
      <4>1. calls' = [calls EXCEPT ![i].pc = "failed"] BY <2>7, <3>3 DEF Header
      <4>2. Len(calls') = Len(calls) BY <2>2, <4>1
      <4>3. QED BY <2>3, <3>1, <4>2
    <3>4. QED BY <3>2, <3>3
  <2>8. ASSUME NEW i \in DOMAIN calls, Body(i) PROVE LockdownBounded'
    <3>1. Len(calls') = Len(calls) BY <2>2, <2>8 DEF Body
    <3>2. QED BY <2>3, <2>8, <3>1 DEF Body
  <2>9. ASSUME NEW ok \in BOOLEAN, Settled(ok) PROVE LockdownBounded'
    <3>1. lockdown'.attempt = lockdown.attempt /\ UNCHANGED <<calls, pairing>>
      BY <2>2, <2>9 DEF Settled, LockdownStates
    <3>2. QED BY <2>3, <3>1
  <2>10. CASE AttemptFails
    <3>1. /\ lockdown' = [lockdown EXCEPT !.current = 0, !.session = 0, !.attempt = @ + 1]
          /\ lockdown.attempt < Attempts /\ UNCHANGED pairing
          /\ calls' = Rejected(calls, DOMAIN calls)
      BY <2>10 DEF AttemptFails, NextAttempt
    <3>2. Len(calls') = Len(calls) BY <2>2, <3>1, RejectedLength
    <3>3. lockdown'.attempt = lockdown.attempt + 1 BY <2>2, <3>1 DEF LockdownStates
    <3>4. QED BY <2>1, <2>2, <3>1, <3>2, <3>3 DEF LockdownBounded, LockdownStates
  <2>11. CASE StartPairing \/ RetryDelayOver \/ Abort
    <3>1. UNCHANGED <<calls, lockdown>> BY <2>11 DEF StartPairing, RetryDelayOver, Abort
    <3>2. /\ pairing' \in PairingStates /\ pairing'.attempt \in 1..PairAttempts
          /\ pairing'.pc = "sleeping" => pairing'.attempt < PairAttempts
      <4>1. CASE StartPairing
        BY <2>1, <2>2, <4>1 DEF StartPairing, LockdownBounded, PairingStates
      <4>2. CASE RetryDelayOver
        <5> DEFINE n == pairing.attempt
        <5>1. /\ pairing' = [pairing EXCEPT !.pc = "check", !.attempt = n + 1]
              /\ pairing \in PairingStates /\ n \in Nat /\ n + 1 \in Nat
              /\ n \in 1..PairAttempts /\ n < PairAttempts
          BY <2>1, <4>2 DEF RetryDelayOver, LockdownBounded, PairingStates
        <5>2. n + 1 \in 1..PairAttempts BY <2>2, <5>1
        <5>3. pairing' \in PairingStates /\ pairing'.attempt = n + 1 /\ pairing'.pc = "check"
          BY <5>1 DEF PairingStates
        <5>4. QED BY <5>2, <5>3
      <4>3. CASE Abort
        BY <2>1, <2>2, <4>3 DEF Abort, LockdownBounded, PairingStates
      <4>4. QED BY <2>11, <4>1, <4>2, <4>3
    <3>3. QED BY <2>1, <3>1, <3>2 DEF LockdownBounded
  <2>12. CASE PairAttempt
    <3>1. CASE pairing.aborted
      BY <2>1, <2>2, <2>12, <3>1 DEF PairAttempt, LockdownBounded, PairingStates
    <3>2. CASE ~pairing.aborted
      <4>1. Request("pair") /\ pairing' = [pairing EXCEPT !.pc = "asking"] /\ "pair" \in Ops
        BY <2>12, <3>2 DEF PairAttempt, Ops
      <4>2. Len(calls') <= MaxCalls /\ lockdown'.attempt = lockdown.attempt
        BY <2>1, <4>1, RequestBounded
      <4>3. QED BY <2>1, <2>2, <4>1, <4>2 DEF LockdownBounded, PairingStates
    <3>3. QED BY <3>1, <3>2
  <2>13. ASSUME NEW answer \in {"ok", "pending", "error"}, PairAnswered(answer)
         PROVE  LockdownBounded'
    <3>1. lockdown'.attempt = lockdown.attempt /\ UNCHANGED calls
      BY <2>2, <2>13 DEF PairAnswered, LockdownStates
    <3>2. \/ pairing' = [pairing EXCEPT !.pc = "paired"]
          \/ pairing' = [pairing EXCEPT !.pc = "failed"]
          \/ /\ pairing.attempt < PairAttempts
             /\ pairing' = [pairing EXCEPT !.notified = TRUE,
                              !.pc = IF pairing.aborted THEN "failed" ELSE "sleeping"]
      BY <2>13 DEF PairAnswered
    <3>3. /\ pairing' \in PairingStates /\ pairing'.attempt = pairing.attempt
          /\ pairing'.pc = "sleeping" => pairing.attempt < PairAttempts
      BY <2>1, <3>2 DEF LockdownBounded, PairingStates
    <3>4. QED BY <2>1, <3>1, <3>3 DEF LockdownBounded
  <2>14. CASE Answers \/ Trusts BY <2>3, <2>14 DEF Answers, Trusts
  <2>15. CASE UNCHANGED lockdownVars BY <2>3, <2>15 DEF lockdownVars
  <2>16. QED BY <2>1, <2>4, <2>5, <2>6, <2>7, <2>8, <2>9, <2>10, <2>11, <2>12, <2>13, <2>14, <2>15
             DEF LockdownNext
<1>3. ReplyInv /\ LockdownBounded => LockdownTypeOK
  <2>1. SUFFICES ASSUME ReplyInv, LockdownBounded PROVE LockdownTypeOK OBVIOUS
  <2>2. /\ calls \in Seq(CallStates) /\ lockdown \in LockdownStates
        /\ lockdown.current <= Len(calls)
    BY <2>1 DEF ReplyInv, LockdownTyped
  <2>3. \A i \in DOMAIN calls : calls[i].pc \in {"header", "body", "done", "failed"}
    <3>1. \A i \in DOMAIN calls : calls[i] \in CallStates BY <2>2
    <3>2. QED BY <3>1 DEF CallStates
  <2>4. lockdown.layer \in {"usbmuxd", "lockdown"} /\ lockdown.current \in 0..Len(calls)
    BY <2>2 DEF LockdownStates
  <2>5. QED BY <2>1, <2>3, <2>4 DEF LockdownBounded, LockdownTypeOK
<1>4. QED BY <1>1, <1>2, <1>3, PTL DEF LockdownSpec

-----------------------------------------------------------------------------
(* RemotePairing: what a paired session may rely on.                       *)

Keys == {"none", "zero", "verify", "srp", "srpWrong"} \X Nat

FrameKinds == {"hello", "v1", "v3", "verifyFailed", "s1", "s3", "s5", "request", "junk",
               "data", "error", "rejected", "salt", "consent", "proof", "badProof",
               "response"}

PairFrames == [kind : FrameKinds, key : Keys, nonce : Int, file : Int]

HostStates ==
  [pc : PairWaiting \cup {"idle", "pin", "paired", "failed"},
   file : Nat, trial : Nat, made : Nat,
   arg : {"file", "pin"}, pin : {"right", "wrong", "none"},
   seq : Nat, encSeq : Nat, nonce : Int, key : Keys, aead : Keys,
   sessions : Nat, requests : Nat, again : BOOLEAN, done : BOOLEAN,
   code : {"none", "ProtocolError", "PairingRejected", "UnexpectedResponse",
           "SrpAuthFailed", "transport", "CryptoError"}]

PeerStates == [known : SUBSET Nat, key : Keys, trial : Int, open : BOOLEAN]

Uses == [seq : Int, key : Keys, nonce : Int]

PairTyped ==
  /\ host \in HostStates /\ device \in PeerStates
  /\ up \in Seq(PairFrames) /\ down \in Seq(PairFrames) /\ sent \in Seq(Uses)

\* One frame is on its way, to the device or to the host, and which it may be.
Asks(kind) == down = <<>> /\ Len(up) = 1 /\ up[1].kind = kind
Told(kinds) == up = <<>> /\ Len(down) = 1 /\ down[1].kind \in kinds
Silent == up = <<>> /\ down = <<>>

\* The keys of both sides are those of this session and of this pairing.
Mutual ==
  /\ host.key = host.aead /\ device.key = host.key
  /\ host.key[2] = host.sessions

\* The exchange at each place of startSession() and of a request.
TalkHello == host.pc = "hello" => Asks("hello") \/ Told({"hello", "junk"})
TalkV1 == host.pc = "v1" => Asks("v1") \/ Told({"data", "error", "rejected", "junk"})
TalkV3 == host.pc = "v3" =>
  /\ host.key[2] = host.sessions
  /\ \/ Asks("v3") /\ up[1].key = host.key /\ up[1].file = host.trial
     \/ Told({"error", "junk"})
     \/ Told({"data"}) /\ device.key = host.key /\ host.trial \in device.known
TalkS1 == host.pc = "s1" =>
  \/ Asks("s1") \/ Told({"salt", "rejected", "error", "junk"})
  \/ down = <<>> /\ Len(up) = 2 /\ up[1].kind = "verifyFailed" /\ up[2].kind = "s1"
  \/ up = <<>> /\ Len(down) = 2 /\ down[1].kind = "consent" /\ down[2].kind = "salt"
TalkConsent == host.pc = "consent" => Told({"salt"})
TalkS3 == host.pc = "s3" =>
  \/ Asks("s3") /\ up[1].key[2] = host.sessions
  \/ Told({"error", "badProof", "junk"})
  \/ Told({"proof"}) /\ down[1].key = device.key /\ device.key[2] = host.sessions
TalkS5 == host.pc = "s5" =>
  /\ Mutual
  /\ \/ Asks("s5") /\ up[1].file = host.trial
     \/ Told({"junk"})
     \/ Told({"data"}) /\ host.trial \in device.known
TalkRequest == host.pc = "request" =>
  Mutual /\ host.file \in device.known /\ (Asks("request") \/ Told({"response", "junk"}))
TalkPaired == host.pc = "paired" => Mutual /\ host.file \in device.known /\ Silent

\* Nothing is left on the stream when a session has failed, unless it is closed.
TalkOver ==
  /\ host.pc \in {"idle", "pin"} => Silent
  /\ host.pc = "failed" /\ device.open => Silent \/ Asks("verifyFailed")

Talk ==
  /\ TalkHello /\ TalkV1 /\ TalkV3 /\ TalkS1 /\ TalkConsent /\ TalkS3 /\ TalkS5
  /\ TalkRequest /\ TalkPaired /\ TalkOver

\* The frames that used a nonce are of earlier sessions until this one is
\* paired, and then of earlier requests until the next one is made.
Nonced(k) == k \in DOMAIN sent /\ sent[k].nonce # -1
NoncesPast ==
  /\ NoncesFresh
  /\ \A k \in DOMAIN sent : Nonced(k) =>
       /\ sent[k].key[2] <= host.sessions /\ sent[k].nonce <= host.encSeq
       /\ host.pc \notin {"idle", "paired", "request", "failed"} =>
            sent[k].key[2] < host.sessions
       /\ host.pc = "paired" /\ sent[k].key[2] = host.sessions =>
            sent[k].nonce < host.encSeq

\* The inductive invariant of RemotePairing.
PairInv == PairTyped /\ Talk /\ NoncesPast

\* Sequences of one frame and of two.
LEMMA OneFrame ==
  ASSUME NEW s \in Seq(PairFrames), Len(s) = 1
  PROVE  s # <<>> /\ Head(s) = s[1] /\ Tail(s) = <<>> /\ s[1] \in PairFrames
<1>1. s # <<>> /\ Head(s) = s[1] /\ s[1] \in PairFrames OBVIOUS
<1>2. Tail(s) \in Seq(PairFrames) /\ Len(Tail(s)) = 0 BY <1>1
<1>3. QED BY <1>1, <1>2, EmptySeq

\* The head and the tail of two frames.
LEMMA TwoFrames ==
  ASSUME NEW s \in Seq(PairFrames), Len(s) = 2
  PROVE  /\ s # <<>> /\ Head(s) = s[1] /\ Tail(s) \in Seq(PairFrames)
         /\ Len(Tail(s)) = 1 /\ Tail(s)[1] = s[2]
OBVIOUS

\* A frame has what it was made of.
LEMMA FrameMade ==
  ASSUME NEW kind \in FrameKinds, NEW key \in Keys, NEW nonce \in Int, NEW file \in Int,
         NEW f, f = PairFrame(kind, key, nonce, file)
  PROVE  /\ f \in PairFrames /\ f.kind = kind /\ f.key = key /\ f.nonce = nonce
         /\ f.file = file
BY DEF PairFrame, PairFrames

\* What a step adds to the history of uses: at most uses without a nonce.
NoNonceUsed == \A k \in DOMAIN sent' : sent'[k].nonce # -1 =>
                                         k \in DOMAIN sent /\ sent'[k] = sent[k]

\* sendPlain() or sendEncryptedFrame() of one frame with nothing on its way.
LEMMA SendOne ==
  ASSUME PairTyped, up = <<>>, NEW f \in PairFrames, SendAll(<<f>>)
  PROVE  /\ up' \in Seq(PairFrames) /\ Len(up') = 1 /\ up'[1] = f
         /\ sent' = Append(sent, [seq |-> host.seq, key |-> f.key, nonce |-> f.nonce])
         /\ sent' \in Seq(Uses) /\ (f.nonce = -1 => NoNonceUsed)
<1> DEFINE e == [seq |-> host.seq, key |-> f.key, nonce |-> f.nonce]
           uses == [i \in DOMAIN <<f>> |->
                      [seq |-> host.seq + i - 1, key |-> <<f>>[i].key,
                       nonce |-> <<f>>[i].nonce]]
<1>1. host.seq \in Nat /\ sent \in Seq(Uses) BY DEF PairTyped, HostStates
<1>2. e \in Uses /\ e.nonce = f.nonce BY <1>1 DEF Uses, PairFrames
<1>3. <<f>> \in Seq(PairFrames) /\ Len(<<f>>) = 1 /\ <<f>>[1] = f /\ DOMAIN <<f>> = {1}
  OBVIOUS
<1>4. up' = <<f>> BY <1>3, ConcatEmptySeq DEF SendAll
<1>5. sent' = sent \o uses BY DEF SendAll
<1>6. uses = <<e>>
  <2>1. DOMAIN uses = 1..1 BY <1>3
  <2>2. uses[1] = e BY <1>1, <1>3
  <2>3. uses \in Seq(Uses) /\ Len(uses) = 1 BY <1>2, <2>1, <2>2
  <2> HIDE DEF uses, e
  <2>4. QED BY <2>2, <2>3
<1> HIDE DEF uses, e
<1>7. sent' = Append(sent, e) BY <1>1, <1>2, <1>5, <1>6, AppendIsConcat
<1>8. sent' \in Seq(Uses) BY <1>1, <1>2, <1>7
<1>9. f.nonce = -1 => NoNonceUsed BY <1>1, <1>2, <1>7 DEF NoNonceUsed
<1>10. QED BY <1>3, <1>4, <1>7, <1>8, <1>9 DEF e

\* pairVerifyFailed and the first frame of pair-setup.
LEMMA SendTwo ==
  ASSUME PairTyped, up = <<>>, NEW f \in PairFrames, NEW g \in PairFrames, SendAll(<<f, g>>),
         f.nonce = -1, g.nonce = -1
  PROVE  /\ up' \in Seq(PairFrames) /\ Len(up') = 2 /\ up'[1] = f /\ up'[2] = g
         /\ sent' \in Seq(Uses) /\ NoNonceUsed
<1> DEFINE uses == [i \in DOMAIN <<f, g>> |->
                      [seq |-> host.seq + i - 1, key |-> <<f, g>>[i].key,
                       nonce |-> <<f, g>>[i].nonce]]
<1>1. host.seq \in Nat /\ sent \in Seq(Uses) BY DEF PairTyped, HostStates
<1>2. /\ <<f, g>> \in Seq(PairFrames) /\ Len(<<f, g>>) = 2 /\ <<f, g>>[1] = f
      /\ <<f, g>>[2] = g /\ DOMAIN <<f, g>> = 1..2
  OBVIOUS
<1>3. up' = <<f, g>> BY <1>2, ConcatEmptySeq DEF SendAll
<1>4. sent' = sent \o uses BY DEF SendAll
<1>5. \A i \in 1..2 : uses[i] \in Uses /\ uses[i].nonce = -1
  <2>1. /\ uses[1] = [seq |-> host.seq + 1 - 1, key |-> f.key, nonce |-> f.nonce]
        /\ uses[2] = [seq |-> host.seq + 2 - 1, key |-> g.key, nonce |-> g.nonce]
    BY <1>2
  <2>2. \A i \in 1..2 : i = 1 \/ i = 2 OBVIOUS
  <2> HIDE DEF uses
  <2>3. uses[1] \in Uses /\ uses[2] \in Uses BY <1>1, <2>1 DEF Uses, PairFrames
  <2>4. uses[1].nonce = -1 /\ uses[2].nonce = -1 BY <2>1
  <2>5. QED BY <2>2, <2>3, <2>4
<1>6. uses \in Seq(Uses) /\ Len(uses) = 2
  <2>1. uses = [i \in 1..2 |-> uses[i]] BY <1>2
  <2> HIDE DEF uses
  <2>2. QED BY <1>5, <2>1
<1> HIDE DEF uses
<1>7. sent' \in Seq(Uses) BY <1>1, <1>4, <1>6
<1>8. NoNonceUsed
  <2>1. SUFFICES ASSUME NEW k \in DOMAIN sent', sent'[k].nonce # -1
                 PROVE  k \in DOMAIN sent /\ sent'[k] = sent[k]
    BY DEF NoNonceUsed
  <2>2. /\ Len(sent') = Len(sent) + 2
        /\ \A j \in 1..Len(sent') :
             sent'[j] = IF j <= Len(sent) THEN sent[j] ELSE uses[j - Len(sent)]
    <3>1. Len(sent \o uses) = Len(sent) + Len(uses) BY <1>1, <1>6, ConcatProperties
    <3>2. \A j \in 1..Len(sent) + Len(uses) :
            (sent \o uses)[j] = IF j <= Len(sent) THEN sent[j] ELSE uses[j - Len(sent)]
      BY <1>1, <1>6, ConcatProperties
    <3>3. QED BY <1>4, <1>6, <3>1, <3>2
  <2>3. k \in 1..Len(sent') /\ DOMAIN sent = 1..Len(sent) /\ Len(sent) \in Nat
    BY <1>1, <1>7, <2>1
  <2>4. CASE k <= Len(sent) BY <2>2, <2>3, <2>4
  <2>5. CASE ~(k <= Len(sent))
    <3>1. k - Len(sent) \in 1..2 BY <2>2, <2>3, <2>5
    <3>2. sent'[k] = uses[k - Len(sent)] BY <2>2, <2>3, <2>5
    <3>3. QED BY <1>5, <2>1, <3>1, <3>2
  <2>6. QED BY <2>4, <2>5
<1>9. QED BY <1>2, <1>3, <1>7, <1>8

\* A step that uses no nonce keeps what is known of the nonces, when it begins
\* a session, fails it, or is one of a session that is not yet paired.
LEMMA NoncesStay ==
  ASSUME PairTyped, NoncesPast, NoNonceUsed, host'.encSeq = host.encSeq,
         \/ host'.sessions = host.sessions + 1
         \/ /\ host'.sessions = host.sessions
            /\ \/ host.pc \notin {"idle", "paired", "request", "failed"}
               \/ host'.pc = "failed"
  PROVE  NoncesPast'
<1>1. host.sessions \in Nat /\ host.encSeq \in Nat /\ sent \in Seq(Uses)
  BY DEF PairTyped, HostStates
<1>2. \A k \in DOMAIN sent : sent[k].key[2] \in Nat /\ sent[k].nonce \in Int
  <2>1. \A k \in DOMAIN sent : sent[k] \in Uses BY <1>1
  <2>2. \A u \in Uses : u.key[2] \in Nat /\ u.nonce \in Int BY DEF Uses, Keys
  <2>3. QED BY <2>1, <2>2
<1>3. NoncesFresh'
  BY DEF NoncesPast, NoncesFresh, NoNonceUsed
<1>4. ASSUME NEW k \in DOMAIN sent', Nonced(k)'
      PROVE  /\ sent'[k].key[2] <= host'.sessions /\ sent'[k].nonce <= host'.encSeq
             /\ host'.pc \notin {"idle", "paired", "request", "failed"} =>
                  sent'[k].key[2] < host'.sessions
             /\ host'.pc = "paired" /\ sent'[k].key[2] = host'.sessions =>
                  sent'[k].nonce < host'.encSeq
  <2>1. k \in DOMAIN sent /\ sent'[k] = sent[k] /\ Nonced(k)
    BY <1>4 DEF NoNonceUsed, Nonced
  <2>2. /\ sent[k].key[2] <= host.sessions /\ sent[k].nonce <= host.encSeq
        /\ host.pc \notin {"idle", "paired", "request", "failed"} =>
             sent[k].key[2] < host.sessions
    BY <2>1 DEF NoncesPast
  <2>3. QED BY <1>1, <1>2, <2>1, <2>2
<1>5. QED BY <1>3, <1>4 DEF NoncesPast

\* Only the exchange of the place where the host is says anything.
LEMMA TalkOnly ==
  /\ host'.pc = "hello" /\ TalkHello' => Talk'
  /\ host'.pc = "v1" /\ TalkV1' => Talk'
  /\ host'.pc = "v3" /\ TalkV3' => Talk'
  /\ host'.pc = "s1" /\ TalkS1' => Talk'
  /\ host'.pc = "consent" /\ TalkConsent' => Talk'
  /\ host'.pc = "s3" /\ TalkS3' => Talk'
  /\ host'.pc = "s5" /\ TalkS5' => Talk'
  /\ host'.pc = "request" /\ TalkRequest' => Talk'
  /\ host'.pc = "paired" /\ TalkPaired' => Talk'
  /\ host'.pc \in {"pin", "failed"} /\ TalkOver' => Talk'
BY DEF Talk, TalkHello, TalkV1, TalkV3, TalkS1, TalkConsent, TalkS3, TalkS5, TalkRequest,
       TalkPaired, TalkOver

\* The number of a frame is all that sending it changes of the client.
LEMMA NumberedHost ==
  ASSUME NEW h \in HostStates, NEW n \in Nat, NEW g, g = Numbered(h, n)
  PROVE  /\ g \in HostStates /\ g.pc = h.pc /\ g.sessions = h.sessions
         /\ g.encSeq = h.encSeq /\ g.key = h.key /\ g.aead = h.aead
         /\ g.trial = h.trial /\ g.file = h.file
<1>1. h.seq + n \in Nat BY DEF HostStates
<1>2. g = [h EXCEPT !.seq = h.seq + n] BY DEF Numbered
<1>3. QED BY <1>1, <1>2 DEF HostStates

\* What a plain frame is.
LEMMA PlainMade ==
  ASSUME NEW kind \in FrameKinds, NEW file \in Int, NEW f, f = PlainFrame(kind, file)
  PROVE  f \in PairFrames /\ f.kind = kind /\ f.nonce = -1 /\ f.file = file
<1>1. NoKey \in Keys BY DEF NoKey, Keys
<1>2. f = PairFrame(kind, NoKey, -1, file) BY DEF PlainFrame
<1>3. QED BY <1>1, <1>2, FrameMade

\* A session begins, by startSession() or by the second try of the tunnel.
LEMMA BeginsKeeps ==
  ASSUME PairInv, Silent, NEW h \in HostStates, h.pc = "hello",
         h.sessions = host.sessions + 1, h.encSeq = host.encSeq,
         Send1(h, PlainFrame("hello", 0)), UNCHANGED <<device, down>>
  PROVE  PairInv'
<1> DEFINE f == PlainFrame("hello", 0)
<1>1. f \in PairFrames /\ f.kind = "hello" /\ f.nonce = -1
  <2>1. "hello" \in FrameKinds BY DEF FrameKinds
  <2>2. QED BY <2>1, PlainMade
<1>2. host' = Numbered(h, 1) /\ SendAll(<<f>>) BY DEF Send1
<1> HIDE DEF f
<1>3. /\ host' \in HostStates /\ host'.pc = "hello" /\ host'.sessions = host.sessions + 1
      /\ host'.encSeq = host.encSeq
  BY <1>2, NumberedHost
<1>4. PairTyped /\ NoncesPast /\ up = <<>> /\ down = <<>> BY DEF PairInv, Silent
<1>5. /\ up' \in Seq(PairFrames) /\ Len(up') = 1 /\ up'[1] = f
      /\ sent' \in Seq(Uses) /\ NoNonceUsed
  BY <1>1, <1>2, <1>4, SendOne
<1>6. PairTyped' BY <1>3, <1>4, <1>5 DEF PairTyped
<1>7. Talk' BY <1>1, <1>3, <1>4, <1>5, TalkOnly DEF TalkHello, Asks
<1>8. NoncesPast' BY <1>3, <1>4, <1>5, NoncesStay
<1>9. QED BY <1>6, <1>7, <1>8 DEF PairInv

\* A first session and the second one after a failing TLS keep the invariant.
LEMMA SessionBegins ==
  ASSUME PairInv, StartRemotePairing \/ TlsFails
  PROVE  PairInv'
<1>1. host \in HostStates BY DEF PairInv, PairTyped
<1>2. host.sessions + 1 \in Nat BY <1>1 DEF HostStates
<1>3. CASE StartRemotePairing
  <2> DEFINE h == [host EXCEPT !.pc = "hello", !.sessions = @ + 1, !.code = "none"]
  <2>1. /\ h \in HostStates /\ h.pc = "hello" /\ h.sessions = host.sessions + 1
        /\ h.encSeq = host.encSeq
    BY <1>1, <1>2 DEF HostStates, PairWaiting
  <2>2. Send1(h, PlainFrame("hello", 0)) /\ UNCHANGED <<device, down>> /\ Silent
    BY <1>3 DEF StartRemotePairing, Silent
  <2> HIDE DEF h
  <2>3. QED BY <2>1, <2>2, BeginsKeeps
<1>4. CASE TlsFails
  <2> DEFINE h == [host EXCEPT !.pc = "hello", !.again = FALSE, !.file = 0,
                               !.sessions = @ + 1]
  <2>1. /\ h \in HostStates /\ h.pc = "hello" /\ h.sessions = host.sessions + 1
        /\ h.encSeq = host.encSeq
    BY <1>1, <1>2 DEF HostStates, PairWaiting
  <2>2. /\ Send1(h, PlainFrame("hello", 0)) /\ UNCHANGED <<device, down>>
        /\ host.pc = "paired"
    BY <1>4 DEF TlsFails
  <2>3. Silent BY <2>2 DEF PairInv, Talk, TalkPaired
  <2> HIDE DEF h
  <2>4. QED BY <2>1, <2>2, <2>3, BeginsKeeps
<1>5. QED BY <1>3, <1>4

\* A step of a session that is under way, in which the host sends a frame
\* after the one that it got and goes to another place.
LEMMA SendsOn ==
  ASSUME PairInv, NEW h \in HostStates, NEW f \in PairFrames, Send1(h, f), up = <<>>,
         f.nonce = -1, h.sessions = host.sessions, h.encSeq = host.encSeq,
         \/ host.pc \notin {"idle", "paired", "request", "failed"}
         \/ h.pc = "failed",
         down' = <<>>, device' = device
  PROVE  /\ PairTyped' /\ NoncesPast' /\ down' = <<>>
         /\ up' \in Seq(PairFrames) /\ Len(up') = 1 /\ up'[1] = f
         /\ host' \in HostStates /\ host'.pc = h.pc /\ host'.sessions = h.sessions
         /\ host'.key = h.key /\ host'.aead = h.aead /\ host'.trial = h.trial
         /\ host'.file = h.file
<1>1. host' = Numbered(h, 1) /\ SendAll(<<f>>) BY DEF Send1
<1>2. /\ host' \in HostStates /\ host'.pc = h.pc /\ host'.sessions = h.sessions
      /\ host'.encSeq = h.encSeq /\ host'.key = h.key /\ host'.aead = h.aead
      /\ host'.trial = h.trial /\ host'.file = h.file
  BY <1>1, NumberedHost
<1>3. PairTyped /\ NoncesPast BY DEF PairInv
<1>4. /\ up' \in Seq(PairFrames) /\ Len(up') = 1 /\ up'[1] = f
      /\ sent' \in Seq(Uses) /\ NoNonceUsed
  BY <1>1, <1>3, SendOne
<1>5. <<>> \in Seq(PairFrames) OBVIOUS
<1>6. PairTyped' BY <1>2, <1>3, <1>4, <1>5 DEF PairTyped
<1>7. NoncesPast' BY <1>2, <1>3, <1>4, NoncesStay
<1>8. QED BY <1>2, <1>4, <1>6, <1>7

\* A step in which it gets a frame and sends none.
LEMMA GetsOn ==
  ASSUME PairInv, host' \in HostStates, UNCHANGED <<device, up, sent>>,
         down' \in Seq(PairFrames),
         host'.sessions = host.sessions, host'.encSeq = host.encSeq,
         \/ host.pc \notin {"idle", "paired", "request", "failed"}
         \/ host'.pc = "failed"
  PROVE  PairTyped' /\ NoncesPast'
<1>1. PairTyped /\ NoncesPast BY DEF PairInv
<1>2. PairTyped' BY <1>1 DEF PairTyped
<1>3. NoNonceUsed BY DEF NoNonceUsed
<1>4. QED BY <1>1, <1>2, <1>3, NoncesStay

\* The frame that a read gets was the only one on its way.
LEMMA GetsTheOne ==
  ASSUME PairTyped, Len(down) = 1, NEW pc, NEW kinds, Gets(pc, kinds)
  PROVE  /\ down' = <<>> /\ down' \in Seq(PairFrames) /\ down[1].kind \in kinds
         /\ Head(down) = down[1] /\ host.pc = pc
<1>1. down \in Seq(PairFrames) BY DEF PairTyped
<1>2. Head(down) = down[1] /\ Tail(down) = <<>> BY <1>1, OneFrame
<1>3. <<>> \in Seq(PairFrames) OBVIOUS
<1>4. QED BY <1>2, <1>3 DEF Gets

\* pair-verify, as far as it goes well.
LEMMA HandshakeKeeps ==
  ASSUME PairInv, HandshakeDone
  PROVE  PairInv'
<1> DEFINE h == [Chosen(host) EXCEPT !.pc = "v1"]
           f == PlainFrame("v1", Chosen(host).trial)
<1>1. host \in HostStates /\ PairTyped BY DEF PairInv, PairTyped
<1>2. Gets("hello", {"hello"}) /\ Send1([Chosen(host) EXCEPT !.pc = "v1"], f) /\ device' = device
  BY DEF HandshakeDone
<1>3. host.pc = "hello" /\ down # <<>> BY <1>2 DEF Gets
<1>4. up = <<>> /\ Len(down) = 1 BY <1>3 DEF PairInv, Talk, TalkHello, Asks, Told
<1>5. down' = <<>> BY <1>1, <1>2, <1>4, GetsTheOne
<1>6. /\ Chosen(host) \in HostStates /\ Chosen(host).sessions = host.sessions
      /\ Chosen(host).encSeq = host.encSeq
  <2>1. CASE host.file # 0 BY <1>1, <2>1 DEF Chosen, HostStates
  <2>2. CASE host.file = 0
    <3>1. host.made + 1 \in Nat BY <1>1 DEF HostStates
    <3>2. Chosen(host) = [host EXCEPT !.made = host.made + 1, !.trial = host.made + 1]
      BY <2>2 DEF Chosen
    <3>3. QED BY <1>1, <3>1, <3>2 DEF HostStates
  <2>3. QED BY <2>1, <2>2
<1>7. h \in HostStates /\ h.pc = "v1" /\ h.sessions = host.sessions /\ h.encSeq = host.encSeq
  BY <1>6 DEF HostStates, PairWaiting
<1>8. f \in PairFrames /\ f.kind = "v1" /\ f.nonce = -1
  <2>1. "v1" \in FrameKinds BY DEF FrameKinds
  <2>2. Chosen(host).trial \in Int BY <1>6 DEF HostStates
  <2>3. QED BY <2>1, <2>2, PlainMade
<1>9. Send1(h, f) BY <1>2
<1> HIDE DEF h, f
<1>10. /\ PairTyped' /\ NoncesPast' /\ Len(up') = 1 /\ up'[1] = f /\ host'.pc = "v1"
  BY <1>2, <1>3, <1>4, <1>5, <1>7, <1>8, <1>9, SendsOn
<1>11. Talk' BY <1>5, <1>8, <1>10, TalkOnly DEF TalkV1, Asks
<1>12. QED BY <1>10, <1>11 DEF PairInv

\* The first round of pair-verify keeps the invariant.
LEMMA VerifyFirstKeeps ==
  ASSUME PairInv, VerifyFirst
  PROVE  PairInv'
<1> DEFINE key == <<"verify", host.sessions>>
           h == [host EXCEPT !.pc = "v3", !.key = key]
           f == PairFrame("v3", key, -1, host.trial)
<1>1. host \in HostStates /\ PairTyped BY DEF PairInv, PairTyped
<1>2. Gets("v1", {"data"}) /\ Send1(h, f) /\ device' = device
  BY DEF VerifyFirst
<1>3. host.pc = "v1" /\ down # <<>> BY <1>2 DEF Gets
<1>4. up = <<>> /\ Len(down) = 1 BY <1>3 DEF PairInv, Talk, TalkV1, Asks, Told
<1>5. down' = <<>> BY <1>1, <1>2, <1>4, GetsTheOne
<1>6. key \in Keys /\ key[2] = host.sessions BY <1>1 DEF Keys, HostStates
<1>7. f \in PairFrames /\ f.kind = "v3" /\ f.key = key /\ f.nonce = -1 /\ f.file = host.trial
  <2>1. "v3" \in FrameKinds BY DEF FrameKinds
  <2>2. host.trial \in Int BY <1>1 DEF HostStates
  <2> HIDE DEF key
  <2>3. QED BY <1>6, <2>1, <2>2, FrameMade
<1> HIDE DEF key, f
<1>8. /\ h \in HostStates /\ h.pc = "v3" /\ h.sessions = host.sessions
      /\ h.encSeq = host.encSeq /\ h.key = key /\ h.trial = host.trial
  BY <1>1, <1>6 DEF HostStates, PairWaiting
<1> HIDE DEF h
<1>9. /\ PairTyped' /\ NoncesPast' /\ Len(up') = 1 /\ up'[1] = f /\ host'.pc = "v3"
      /\ host'.key = key /\ host'.trial = host.trial /\ host'.sessions = host.sessions
  BY <1>2, <1>3, <1>4, <1>5, <1>7, <1>8, SendsOn
<1>10. Talk' BY <1>5, <1>6, <1>7, <1>9, TalkOnly DEF TalkV3, Asks
<1>11. QED BY <1>9, <1>10 DEF PairInv

\* The second round of pair-verify keeps the invariant: the keys of both ends agree.
LEMMA VerifySecondKeeps ==
  ASSUME PairInv, VerifySecond
  PROVE  PairInv'
<1>1. host \in HostStates /\ PairTyped BY DEF PairInv, PairTyped
<1>2. /\ Gets("v3", {"data"}) /\ UNCHANGED <<device, up, sent>>
      /\ host' = [host EXCEPT !.pc = "paired", !.aead = host.key, !.file = host.trial,
                              !.done = TRUE]
  BY DEF VerifySecond
<1>3. host.pc = "v3" /\ down # <<>> BY <1>2 DEF Gets
<1>4. up = <<>> /\ Len(down) = 1 BY <1>3 DEF PairInv, Talk, TalkV3, Asks, Told
<1>5. down' = <<>> /\ down' \in Seq(PairFrames) /\ down[1].kind \in {"data"}
  BY <1>1, <1>2, <1>4, GetsTheOne
<1>6. device.key = host.key /\ host.trial \in device.known /\ host.key[2] = host.sessions
  BY <1>3, <1>4, <1>5 DEF PairInv, Talk, TalkV3, Asks, Told
<1>7. /\ host' \in HostStates /\ host'.pc = "paired" /\ host'.sessions = host.sessions
      /\ host'.encSeq = host.encSeq /\ host'.key = host.key /\ host'.aead = host.key
      /\ host'.file = host.trial
  BY <1>1, <1>2 DEF HostStates
<1>8. PairTyped' /\ NoncesPast' BY <1>2, <1>3, <1>5, <1>7, GetsOn
<1>9. Talk' BY <1>2, <1>4, <1>5, <1>6, <1>7, TalkOnly DEF TalkPaired, Mutual, Silent
<1>10. QED BY <1>8, <1>9 DEF PairInv

\* The device's error: pairVerifyFailed, and pair-setup with new keys or none.
LEMMA FallBackKeeps ==
  ASSUME PairInv, FallBack
  PROVE  PairInv'
<1> DEFINE v == PlainFrame("verifyFailed", 0)
           gen == host.made + 1
           g == PlainFrame("s1", gen)
<1>1. host \in HostStates /\ PairTyped /\ NoncesPast BY DEF PairInv, PairTyped
<1>2. PICK pc \in {"v1", "v3"} : Gets(pc, {"error"}) BY DEF FallBack
<1>3. host.pc \in {"v1", "v3"} /\ down # <<>> /\ device' = device BY <1>2 DEF Gets, FallBack
<1>4. up = <<>> /\ Len(down) = 1
  BY <1>3 DEF PairInv, Talk, TalkV1, TalkV3, Asks, Told
<1>5. down' = <<>> BY <1>1, <1>2, <1>4, GetsTheOne
<1>6. gen \in Nat BY <1>1 DEF HostStates
<1>7. v \in PairFrames /\ v.kind = "verifyFailed" /\ v.nonce = -1
  <2>1. "verifyFailed" \in FrameKinds BY DEF FrameKinds
  <2>2. QED BY <2>1, PlainMade
<1>8. g \in PairFrames /\ g.kind = "s1" /\ g.nonce = -1
  <2>1. "s1" \in FrameKinds BY DEF FrameKinds
  <2> HIDE DEF gen
  <2>2. QED BY <1>6, <2>1, PlainMade
<1>9. CASE host.pin = "none"
  <2> DEFINE h == FailPairing(host, "ProtocolError")
  <2>1. Send1(h, v) BY <1>9 DEF FallBack
  <2>2. /\ h \in HostStates /\ h.pc = "failed" /\ h.sessions = host.sessions
        /\ h.encSeq = host.encSeq
    BY <1>1 DEF FailPairing, HostStates
  <2> HIDE DEF h, v
  <2>3. PairTyped' /\ NoncesPast' /\ Len(up') = 1 /\ up'[1] = v /\ host'.pc = "failed"
    BY <1>3, <1>4, <1>5, <1>7, <2>1, <2>2, SendsOn
  <2>4. Talk' BY <1>5, <1>7, <2>3, TalkOnly DEF TalkOver, Asks
  <2>5. QED BY <2>3, <2>4 DEF PairInv
<1>10. CASE host.pin # "none"
  <2> DEFINE file == IF host.file = host.trial THEN gen ELSE host.file
             h == [host EXCEPT !.pc = "s1", !.made = gen, !.trial = gen, !.file = file]
  <2>1. host' = Numbered(h, 2) /\ SendAll(<<v, g>>) BY <1>10 DEF FallBack
  <2>2. file \in Nat BY <1>1, <1>6 DEF HostStates
  <2> HIDE DEF gen, file, v, g
  <2>3. /\ h \in HostStates /\ h.pc = "s1" /\ h.sessions = host.sessions
        /\ h.encSeq = host.encSeq
    BY <1>1, <1>6, <2>2 DEF HostStates, PairWaiting
  <2> HIDE DEF h
  <2>4. /\ host' \in HostStates /\ host'.pc = "s1" /\ host'.sessions = host.sessions
        /\ host'.encSeq = host.encSeq
    BY <2>1, <2>3, NumberedHost
  <2>5. /\ up' \in Seq(PairFrames) /\ Len(up') = 2 /\ up'[1] = v /\ up'[2] = g
        /\ sent' \in Seq(Uses) /\ NoNonceUsed
    BY <1>1, <1>4, <1>7, <1>8, <2>1, SendTwo
  <2>6. <<>> \in Seq(PairFrames) OBVIOUS
  <2>7. PairTyped' BY <1>1, <1>3, <1>5, <2>4, <2>5, <2>6 DEF PairTyped
  <2>8. NoncesPast' BY <1>1, <1>3, <2>4, <2>5, NoncesStay
  <2>9. Talk' BY <1>5, <1>7, <1>8, <2>4, <2>5, TalkOnly DEF TalkS1
  <2>10. QED BY <2>7, <2>8, <2>9 DEF PairInv
<1>11. QED BY <1>9, <1>10

\* pair-setup: the salt, or the user's consent and then the salt.
LEMMA SaltKeeps ==
  ASSUME PairInv, AskPin \/ AwaitConsent
  PROVE  PairInv'
<1>1. host \in HostStates /\ PairTyped /\ down \in Seq(PairFrames)
  BY DEF PairInv, PairTyped
<1>2. host.pc = "s1" /\ down # <<>> /\ UNCHANGED <<device, up, sent>>
  BY DEF AskPin, AwaitConsent, Gets
<1>3. TalkS1 BY DEF PairInv, Talk
<1>4. CASE AskPin
  <2>1. Gets("s1", {"salt"}) /\ host' = [host EXCEPT !.pc = "pin"] BY <1>4 DEF AskPin
  <2>2. Head(down).kind = "salt" BY <2>1 DEF Gets
  <2>3. up = <<>> /\ Len(down) = 1 BY <1>1, <1>2, <1>3, <2>2, TwoFrames DEF TalkS1, Asks, Told
  <2>4. down' = <<>> /\ down' \in Seq(PairFrames) BY <1>1, <2>1, <2>3, GetsTheOne
  <2>5. /\ host' \in HostStates /\ host'.pc = "pin" /\ host'.sessions = host.sessions
        /\ host'.encSeq = host.encSeq
    BY <1>1, <2>1 DEF HostStates
  <2>6. PairTyped' /\ NoncesPast' BY <1>2, <2>4, <2>5, GetsOn
  <2>7. Talk' BY <1>2, <2>3, <2>4, <2>5, TalkOnly DEF TalkOver, Silent
  <2>8. QED BY <2>6, <2>7 DEF PairInv
<1>5. CASE AwaitConsent
  <2>1. Gets("s1", {"consent"}) /\ host' = [host EXCEPT !.pc = "consent"]
    BY <1>5 DEF AwaitConsent
  <2>2. Head(down).kind = "consent" /\ down' = Tail(down) BY <2>1 DEF Gets
  <2>3. up = <<>> /\ Len(down) = 2 /\ down[2].kind = "salt"
    BY <1>1, <1>2, <1>3, <2>2, OneFrame DEF TalkS1, Asks, Told
  <2>4. down' \in Seq(PairFrames) /\ Len(down') = 1 /\ down'[1].kind = "salt"
    BY <1>1, <2>2, <2>3, TwoFrames
  <2>5. /\ host' \in HostStates /\ host'.pc = "consent" /\ host'.sessions = host.sessions
        /\ host'.encSeq = host.encSeq
    BY <1>1, <2>1 DEF HostStates, PairWaiting
  <2>6. PairTyped' /\ NoncesPast' BY <1>2, <2>4, <2>5, GetsOn
  <2>7. Talk' BY <1>2, <2>3, <2>4, <2>5, TalkOnly DEF TalkConsent, Told
  <2>8. QED BY <2>6, <2>7 DEF PairInv
<1>6. QED BY <1>4, <1>5

\* The client's proof of the PIN, with the key of this session.
LEMMA ProofGoesOut ==
  ASSUME PairInv, NEW key \in Keys, key[2] = host.sessions, host.pc \in {"pin", "consent"},
         up = <<>>, down' = <<>>, device' = device, NEW h, h = [host EXCEPT !.pc = "s3"],
         Send1(h, PairFrame("s3", key, -1, host.trial))
  PROVE  PairInv'
<1> DEFINE f == PairFrame("s3", key, -1, host.trial)
<1>1. host \in HostStates BY DEF PairInv, PairTyped
<1>2. f \in PairFrames /\ f.kind = "s3" /\ f.key = key /\ f.nonce = -1
  <2>1. "s3" \in FrameKinds BY DEF FrameKinds
  <2>2. host.trial \in Int BY <1>1 DEF HostStates
  <2>3. f = [kind |-> "s3", key |-> key, nonce |-> -1, file |-> host.trial]
    BY DEF PairFrame
  <2> HIDE DEF f
  <2>4. QED BY <2>1, <2>2, <2>3 DEF PairFrames
<1>3. Send1(h, f) OBVIOUS
<1> HIDE DEF f
<1>4. /\ h \in HostStates /\ h.pc = "s3" /\ h.sessions = host.sessions
      /\ h.encSeq = host.encSeq
  BY <1>1 DEF HostStates, PairWaiting
<1>5. /\ PairTyped' /\ NoncesPast' /\ Len(up') = 1 /\ up'[1] = f /\ host'.pc = "s3"
      /\ host'.sessions = host.sessions
  BY <1>2, <1>3, <1>4, SendsOn
<1>6. Talk' BY <1>2, <1>5, TalkOnly DEF TalkS3, Asks
<1>7. QED BY <1>5, <1>6 DEF PairInv

\* The user's PIN or consent keeps the invariant.
LEMMA PinKeeps ==
  ASSUME PairInv, PinEntered \/ ConsentGiven
  PROVE  PairInv'
<1>1. host \in HostStates /\ PairTyped BY DEF PairInv, PairTyped
<1>2. host.sessions \in Nat BY <1>1 DEF HostStates
<1>3. \A pin : SrpKey(pin) \in Keys /\ SrpKey(pin)[2] = host.sessions
  BY <1>2 DEF SrpKey, Keys
<1>4. CASE PinEntered
  <2> DEFINE key == SrpKey(host.pin)
             h == [host EXCEPT !.pc = "s3"]
  <2>1. /\ host.pc = "pin" /\ UNCHANGED <<device, down>>
        /\ Send1(h, PairFrame("s3", key, -1, host.trial))
    BY <1>4 DEF PinEntered
  <2>2. up = <<>> /\ down = <<>> BY <2>1 DEF PairInv, Talk, TalkOver, Silent
  <2>3. key \in Keys /\ key[2] = host.sessions BY <1>3
  <2>4. h = [host EXCEPT !.pc = "s3"] OBVIOUS
  <2> HIDE DEF key, h
  <2>5. QED BY <2>1, <2>2, <2>3, <2>4, ProofGoesOut
<1>5. CASE ConsentGiven
  <2> DEFINE key == SrpKey("right")
             h == [host EXCEPT !.pc = "s3"]
  <2>1. /\ Gets("consent", {"salt"}) /\ device' = device
        /\ Send1(h, PairFrame("s3", key, -1, host.trial))
    BY <1>5 DEF ConsentGiven
  <2>2. host.pc = "consent" BY <2>1 DEF Gets
  <2>3. up = <<>> /\ Len(down) = 1 BY <2>2 DEF PairInv, Talk, TalkConsent, Told
  <2>4. down' = <<>> BY <1>1, <2>1, <2>3, GetsTheOne
  <2>5. key \in Keys /\ key[2] = host.sessions BY <1>3
  <2>6. h = [host EXCEPT !.pc = "s3"] OBVIOUS
  <2> HIDE DEF key, h
  <2>7. QED BY <2>1, <2>2, <2>3, <2>4, <2>5, <2>6, ProofGoesOut
<1>6. QED BY <1>4, <1>5

\* The device's proof, which carries the key that it has, and its record.
LEMMA ProofKeeps ==
  ASSUME PairInv, ProofChecked
  PROVE  PairInv'
<1> DEFINE key == Head(down).key
           h == [host EXCEPT !.pc = "s5", !.key = key, !.aead = key]
           f == PairFrame("s5", key, -1, host.trial)
<1>1. host \in HostStates /\ PairTyped /\ down \in Seq(PairFrames)
  BY DEF PairInv, PairTyped
<1>2. Gets("s3", {"proof"}) /\ Send1(h, f) /\ device' = device
  BY DEF ProofChecked
<1>3. host.pc = "s3" /\ down # <<>> BY <1>2 DEF Gets
<1>4. up = <<>> /\ Len(down) = 1 BY <1>3 DEF PairInv, Talk, TalkS3, Asks, Told
<1>5. down' = <<>> /\ down[1].kind \in {"proof"} /\ Head(down) = down[1]
  BY <1>1, <1>2, <1>4, GetsTheOne
<1>6. down[1].key = device.key /\ device.key[2] = host.sessions
  BY <1>3, <1>4, <1>5 DEF PairInv, Talk, TalkS3, Asks, Told
<1>7. key \in Keys /\ key = device.key
  <2>1. device.key \in Keys BY <1>1 DEF PairTyped, PeerStates
  <2>2. QED BY <1>5, <1>6, <2>1
<1>8. f \in PairFrames /\ f.kind = "s5" /\ f.nonce = -1 /\ f.file = host.trial
  <2>1. "s5" \in FrameKinds BY DEF FrameKinds
  <2>2. host.trial \in Int BY <1>1 DEF HostStates
  <2> HIDE DEF key
  <2>3. QED BY <1>7, <2>1, <2>2, FrameMade
<1> HIDE DEF key, f
<1>9. /\ h \in HostStates /\ h.pc = "s5" /\ h.sessions = host.sessions
      /\ h.encSeq = host.encSeq /\ h.key = key /\ h.aead = key /\ h.trial = host.trial
  BY <1>1, <1>7 DEF HostStates, PairWaiting
<1> HIDE DEF h
<1>10. /\ PairTyped' /\ NoncesPast' /\ Len(up') = 1 /\ up'[1] = f /\ host'.pc = "s5"
       /\ host'.key = key /\ host'.aead = key /\ host'.trial = host.trial
       /\ host'.sessions = host.sessions
  BY <1>2, <1>3, <1>4, <1>5, <1>8, <1>9, SendsOn
<1>11. Talk'
  BY <1>2, <1>5, <1>6, <1>7, <1>8, <1>10, TalkOnly DEF TalkS5, Asks, Mutual
<1>12. QED BY <1>10, <1>11 DEF PairInv

\* Saving the record keeps the invariant: both ends then have the same file.
LEMMA RecordKeeps ==
  ASSUME PairInv, RecordSaved
  PROVE  PairInv'
<1>1. host \in HostStates /\ PairTyped BY DEF PairInv, PairTyped
<1>2. /\ Gets("s5", {"data"}) /\ UNCHANGED <<device, up, sent>>
      /\ host' = [host EXCEPT !.pc = "paired", !.file = host.trial, !.done = TRUE]
  BY DEF RecordSaved
<1>3. host.pc = "s5" /\ down # <<>> BY <1>2 DEF Gets
<1>4. up = <<>> /\ Len(down) = 1 BY <1>3 DEF PairInv, Talk, TalkS5, Asks, Told
<1>5. down' = <<>> /\ down' \in Seq(PairFrames) /\ down[1].kind \in {"data"}
  BY <1>1, <1>2, <1>4, GetsTheOne
<1>6. Mutual /\ host.trial \in device.known
  BY <1>3, <1>4, <1>5 DEF PairInv, Talk, TalkS5, Asks, Told
<1>7. /\ host' \in HostStates /\ host'.pc = "paired" /\ host'.sessions = host.sessions
      /\ host'.encSeq = host.encSeq /\ host'.key = host.key /\ host'.aead = host.aead
      /\ host'.file = host.trial
  BY <1>1, <1>2 DEF HostStates
<1>8. PairTyped' /\ NoncesPast' BY <1>2, <1>3, <1>5, <1>7, GetsOn
<1>9. Talk' BY <1>2, <1>4, <1>5, <1>6, <1>7, TalkOnly DEF TalkPaired, Mutual, Silent
<1>10. QED BY <1>8, <1>9 DEF PairInv

\* A refusal, something else, or the end of the stream ends the session.
LEMMA RefusedKeeps ==
  ASSUME PairInv, Refused \/ ReadFails
  PROVE  PairInv'
<1>1. host \in HostStates /\ PairTyped /\ down \in Seq(PairFrames)
  BY DEF PairInv, PairTyped
<1>2. \A code \in {"PairingRejected", "UnexpectedResponse", "SrpAuthFailed", "transport"} :
        /\ FailPairing(host, code) \in HostStates /\ FailPairing(host, code).pc = "failed"
        /\ FailPairing(host, code).sessions = host.sessions
        /\ FailPairing(host, code).encSeq = host.encSeq
  BY <1>1 DEF FailPairing, HostStates
<1>3. CASE ReadFails
  <2>1. /\ host' = FailPairing(host, "transport") /\ UNCHANGED <<device, up, down, sent>>
        /\ ~device.open
    BY <1>3 DEF ReadFails
  <2>2. /\ host' \in HostStates /\ host'.pc = "failed" /\ host'.sessions = host.sessions
        /\ host'.encSeq = host.encSeq
    BY <1>2, <2>1
  <2>3. PairTyped' /\ NoncesPast' BY <1>1, <2>1, <2>2, GetsOn
  <2>4. Talk' BY <2>1, <2>2, TalkOnly DEF TalkOver
  <2>5. QED BY <2>3, <2>4 DEF PairInv
<1>4. CASE Refused
  <2>1. /\ UNCHANGED <<device, up, sent>>
        /\ \E code \in {"PairingRejected", "UnexpectedResponse", "SrpAuthFailed"} :
             host' = FailPairing(host, code)
    BY <1>4 DEF Refused, Stop
  <2>2. /\ host' \in HostStates /\ host'.pc = "failed" /\ host'.sessions = host.sessions
        /\ host'.encSeq = host.encSeq
    BY <1>2, <2>1
  <2>3. PICK pc \in PairWaiting, kinds \in SUBSET {"rejected", "error", "badProof", "junk"} :
          Gets(pc, kinds)
    BY <1>4 DEF Refused, PairWaiting
  <2>4. /\ host.pc \in PairWaiting /\ down # <<>> /\ Head(down).kind # "consent"
        /\ Head(down).kind # "salt"
    BY <2>3 DEF Gets
  <2>5. up = <<>> /\ Len(down) = 1
    BY <1>1, <2>4, TwoFrames
    DEF PairInv, Talk, TalkHello, TalkV1, TalkV3, TalkS1, TalkConsent, TalkS3, TalkS5,
        TalkRequest, Asks, Told, PairWaiting
  <2>6. down' = <<>> /\ down' \in Seq(PairFrames) BY <1>1, <2>3, <2>5, GetsTheOne
  <2>7. PairTyped' /\ NoncesPast' BY <2>1, <2>2, <2>6, GetsOn
  <2>8. Talk' BY <2>1, <2>2, <2>5, <2>6, TalkOnly DEF TalkOver, Silent
  <2>9. QED BY <2>7, <2>8 DEF PairInv
<1>5. QED BY <1>3, <1>4

\* A request uses a nonce that no request of this session has used.
LEMMA RequestUsesNonce ==
  ASSUME PairInv, SendRequest
  PROVE  PairInv'
<1> DEFINE h == [host EXCEPT !.pc = "request", !.nonce = host.encSeq, !.requests = @ + 1]
           f == PairFrame("request", host.aead, host.encSeq, 0)
           e == [seq |-> host.seq, key |-> f.key, nonce |-> f.nonce]
<1>1. host \in HostStates /\ PairTyped /\ NoncesPast /\ sent \in Seq(Uses)
  BY DEF PairInv, PairTyped
<1>2. host.pc = "paired" /\ Send1(h, f) /\ UNCHANGED <<device, down>>
  BY DEF SendRequest
<1>3. Mutual /\ host.file \in device.known /\ up = <<>> /\ down = <<>>
  BY <1>2 DEF PairInv, Talk, TalkPaired, Silent
<1>4. f \in PairFrames /\ f.kind = "request" /\ f.key = host.aead /\ f.nonce = host.encSeq
  <2>1. "request" \in FrameKinds BY DEF FrameKinds
  <2>2. host.aead \in Keys /\ host.encSeq \in Int BY <1>1 DEF HostStates
  <2>3. QED BY <2>1, <2>2 DEF PairFrame, PairFrames
<1>5. host' = Numbered(h, 1) /\ SendAll(<<f>>) BY <1>2 DEF Send1
<1> HIDE DEF f
<1>6. /\ h \in HostStates /\ h.pc = "request" /\ h.sessions = host.sessions
      /\ h.encSeq = host.encSeq /\ h.key = host.key /\ h.aead = host.aead
      /\ h.file = host.file
  <2>1. host.requests + 1 \in Nat /\ host.encSeq \in Int BY <1>1 DEF HostStates
  <2>2. QED BY <1>1, <2>1 DEF HostStates, PairWaiting
<1> HIDE DEF h
<1>7. /\ host' \in HostStates /\ host'.pc = "request" /\ host'.sessions = host.sessions
      /\ host'.encSeq = host.encSeq /\ host'.key = host.key /\ host'.aead = host.aead
      /\ host'.file = host.file
  BY <1>5, <1>6, NumberedHost
<1>8. /\ up' \in Seq(PairFrames) /\ Len(up') = 1 /\ up'[1] = f
      /\ sent' = Append(sent, e) /\ sent' \in Seq(Uses)
  BY <1>1, <1>3, <1>4, <1>5, SendOne
<1>9. PairTyped' BY <1>1, <1>2, <1>7, <1>8 DEF PairTyped
<1>10. Talk' BY <1>2, <1>3, <1>4, <1>7, <1>8, TalkOnly DEF TalkRequest, Mutual, Asks
<1>11. e.key = host.aead /\ e.nonce = host.encSeq /\ host.encSeq \in Nat /\ host.sessions \in Nat
  BY <1>1, <1>4 DEF HostStates
<1>12. host.aead[2] = host.sessions BY <1>3 DEF Mutual
<1> HIDE DEF e
<1>13. ASSUME NEW k \in DOMAIN sent'
       PROVE  (k \in DOMAIN sent /\ sent'[k] = sent[k])
                \/ (k = Len(sent) + 1 /\ k \notin DOMAIN sent /\ sent'[k] = e)
  <2>1. DOMAIN sent' = 1..(Len(sent) + 1) /\ DOMAIN sent = 1..Len(sent) /\ Len(sent) \in Nat
    BY <1>1, <1>8
  <2>2. CASE k \in 1..Len(sent) BY <1>1, <1>8, <2>1, <2>2
  <2>3. CASE k = Len(sent) + 1 BY <1>1, <1>8, <2>1, <2>3
  <2>4. k \in 1..Len(sent) \/ k = Len(sent) + 1 BY <2>1
  <2>5. QED BY <2>2, <2>3, <2>4
<1>14. ASSUME NEW k \in DOMAIN sent, sent[k].nonce # -1
       PROVE  /\ sent[k].key[2] <= host.sessions /\ sent[k].nonce <= host.encSeq
              /\ sent[k].key[2] = host.sessions => sent[k].nonce # host.encSeq
  <2>1. sent[k] \in Uses BY <1>1
  <2>2. sent[k].nonce \in Int BY <2>1 DEF Uses
  <2>3. Nonced(k) BY <1>14 DEF Nonced
  <2>4. QED BY <1>1, <1>2, <1>11, <2>2, <2>3 DEF NoncesPast
<1>15. ASSUME NEW k \in DOMAIN sent', sent'[k].nonce # -1
       PROVE  sent'[k].key[2] <= host.sessions /\ sent'[k].nonce <= host.encSeq
  <2>1. CASE k \in DOMAIN sent /\ sent'[k] = sent[k] BY <1>14, <1>15, <2>1
  <2>2. CASE sent'[k] = e BY <1>11, <1>12, <2>2
  <2>3. QED BY <1>13, <2>1, <2>2
<1>16. NoncesFresh'
  <2>1. SUFFICES ASSUME NEW i \in DOMAIN sent', NEW j \in DOMAIN sent', i # j,
                        sent'[i].nonce # -1, sent'[j].nonce # -1,
                        sent'[i].key = sent'[j].key, sent'[i].nonce = sent'[j].nonce
                 PROVE  FALSE
    BY DEF NoncesFresh
  <2>2. CASE i \in DOMAIN sent /\ j \in DOMAIN sent
    <3>1. sent'[i] = sent[i] /\ sent'[j] = sent[j] BY <1>13, <2>2
    <3>2. NoncesFresh BY <1>1 DEF NoncesPast
    <3>3. QED BY <2>1, <2>2, <3>1, <3>2 DEF NoncesFresh
  <2>3. ASSUME NEW a \in DOMAIN sent, sent[a].nonce # -1, sent[a].key = e.key,
               sent[a].nonce = e.nonce
        PROVE  FALSE
    BY <1>11, <1>12, <1>14, <2>3
  <2>4. CASE i \in DOMAIN sent /\ j \notin DOMAIN sent BY <1>13, <2>1, <2>3, <2>4
  <2>5. CASE i \notin DOMAIN sent /\ j \in DOMAIN sent BY <1>13, <2>1, <2>3, <2>5
  <2>6. CASE i \notin DOMAIN sent /\ j \notin DOMAIN sent BY <1>13, <2>1, <2>6
  <2>7. QED BY <2>2, <2>4, <2>5, <2>6
<1>17. NoncesPast' BY <1>7, <1>15, <1>16 DEF NoncesPast, Nonced
<1>18. QED BY <1>9, <1>10, <1>17 DEF PairInv

\* Its answer ends the request, and the counter goes on when it is the right one.
LEMMA ResponseKeeps ==
  ASSUME PairInv, Response
  PROVE  PairInv'
<1>1. /\ host \in HostStates /\ PairTyped /\ NoncesPast /\ sent \in Seq(Uses)
      /\ host.encSeq \in Nat /\ host.encSeq + 1 \in Nat
  BY DEF PairInv, PairTyped, HostStates
<1>2. /\ Gets("request", {"response"}) /\ UNCHANGED <<device, up, sent>>
      /\ \/ host' = [host EXCEPT !.pc = "paired", !.nonce = -1, !.encSeq = @ + 1]
         \/ host' = FailPairing(host, "CryptoError")
  BY DEF Response
<1>3. host.pc = "request" /\ down # <<>> BY <1>2 DEF Gets
<1>4. Mutual /\ host.file \in device.known /\ up = <<>> /\ Len(down) = 1
  BY <1>3 DEF PairInv, Talk, TalkRequest, Asks, Told
<1>5. down' = <<>> /\ down' \in Seq(PairFrames) BY <1>1, <1>2, <1>4, GetsTheOne
<1>6. CASE host' = FailPairing(host, "CryptoError")
  <2>1. /\ host' \in HostStates /\ host'.pc = "failed" /\ host'.sessions = host.sessions
        /\ host'.encSeq = host.encSeq
    BY <1>1, <1>6 DEF FailPairing, HostStates
  <2>2. PairTyped' /\ NoncesPast' BY <1>2, <1>5, <2>1, GetsOn
  <2>3. Talk' BY <1>2, <1>4, <1>5, <2>1, TalkOnly DEF TalkOver, Silent
  <2>4. QED BY <2>2, <2>3 DEF PairInv
<1>7. CASE host' = [host EXCEPT !.pc = "paired", !.nonce = -1, !.encSeq = @ + 1]
  <2> DEFINE n == host.encSeq + 1
  <2>1. host' = [host EXCEPT !.pc = "paired", !.nonce = -1, !.encSeq = n] /\ n \in Nat
    BY <1>1, <1>7
  <2> HIDE DEF n
  <2>2. /\ host' \in HostStates /\ host'.pc = "paired" /\ host'.sessions = host.sessions
        /\ host'.encSeq = n /\ host'.key = host.key /\ host'.aead = host.aead
        /\ host'.file = host.file
    <3>1. host \in HostStates BY <1>1
    <3>2. -1 \in Int OBVIOUS
    <3> DEFINE h == [host EXCEPT !.pc = "paired", !.nonce = -1, !.encSeq = n]
    <3>3. h \in HostStates BY <2>1, <3>1, <3>2 DEF HostStates
    <3>4. /\ h.pc = "paired" /\ h.sessions = host.sessions /\ h.encSeq = n
          /\ h.key = host.key /\ h.aead = host.aead /\ h.file = host.file
      BY <3>1 DEF HostStates
    <3>5. QED BY <2>1, <3>3, <3>4
  <2>3. PairTyped' BY <1>1, <1>2, <1>5, <2>2 DEF PairTyped
  <2>4. Talk' BY <1>2, <1>4, <1>5, <2>2, TalkOnly DEF TalkPaired, Mutual, Silent
  <2>5. NoncesFresh' BY <1>1, <1>2 DEF NoncesPast, NoncesFresh
  <2>6. ASSUME NEW k \in DOMAIN sent', Nonced(k)'
        PROVE  /\ sent'[k].key[2] <= host'.sessions /\ sent'[k].nonce <= host'.encSeq
               /\ host'.pc = "paired" /\ sent'[k].key[2] = host'.sessions =>
                    sent'[k].nonce < host'.encSeq
    <3>1. k \in DOMAIN sent /\ sent'[k] = sent[k] /\ Nonced(k) BY <1>2, <2>6 DEF Nonced
    <3>2. sent[k].key[2] <= host.sessions /\ sent[k].nonce <= host.encSeq
      BY <1>1, <3>1 DEF NoncesPast
    <3>3. sent[k] \in Uses BY <1>1, <3>1
    <3>4. sent[k].nonce \in Int BY <3>3 DEF Uses
    <3>5. sent[k].nonce < n BY <1>1, <3>2, <3>4 DEF n
    <3>6. n \in Int BY <2>1
    <3>7. QED BY <2>2, <3>1, <3>2, <3>4, <3>5, <3>6
  <2>7. NoncesPast' BY <2>2, <2>5, <2>6 DEF NoncesPast
  <2>8. QED BY <2>3, <2>4, <2>7 DEF PairInv
<1>8. QED BY <1>2, <1>6, <1>7

\* The end of the connection takes nothing from what has been agreed.
LEMMA LeavingKeeps ==
  ASSUME PairInv, FlowEnds \/ DeviceLeaves
  PROVE  PairInv'
<1>1. device \in PeerStates /\ PairTyped BY DEF PairInv, PairTyped
<1>2. UNCHANGED <<host, up, down, sent>> /\ device' = [device EXCEPT !.open = FALSE]
  BY DEF FlowEnds, DeviceLeaves
<1>3. /\ device' \in PeerStates /\ device'.key = device.key /\ device'.known = device.known
      /\ ~device'.open
  BY <1>1, <1>2 DEF PeerStates
<1>4. PairTyped' BY <1>1, <1>2, <1>3 DEF PairTyped
<1>5. Talk'
  BY <1>2, <1>3
  DEF PairInv, Talk, TalkHello, TalkV1, TalkV3, TalkS1, TalkConsent, TalkS3, TalkS5,
      TalkRequest, TalkPaired, TalkOver, Asks, Told, Silent, Mutual
<1>6. NoncesPast' BY <1>2 DEF PairInv, NoncesPast, NoncesFresh, Nonced
<1>7. QED BY <1>4, <1>5, <1>6 DEF PairInv

\* An answer of the device, with nothing else on its way to the host.
LEMMA AnswerOne ==
  ASSUME PairTyped, down = <<>>, up # <<>>, NEW d \in PeerStates,
         NEW kinds \in SUBSET FrameKinds, Answer(d, kinds)
  PROVE  /\ down' \in Seq(PairFrames) /\ Len(down') = 1 /\ device' \in PeerStates
         /\ down'[1].key = d.key
         /\ \/ down'[1].kind = "junk" /\ device' = device
            \/ down'[1].kind \in kinds /\ device' = d
<1>1. device \in PeerStates /\ up \in Seq(PairFrames) /\ down \in Seq(PairFrames)
  BY DEF PairTyped
<1>2. PICK kind \in kinds \cup {"junk"} :
        /\ device' = IF kind = "junk" THEN device ELSE d
        /\ down' = Append(down, PairFrame(kind, d.key, Head(up).nonce, 0))
  BY DEF Answer
<1> DEFINE f == PairFrame(kind, d.key, Head(up).nonce, 0)
<1>3. kind \in FrameKinds /\ d.key \in Keys /\ 0 \in Int BY DEF FrameKinds, PeerStates
<1>4. Head(up).nonce \in Int
  <2>1. Head(up) \in PairFrames BY <1>1
  <2>2. QED BY <2>1 DEF PairFrames
<1>5. f \in PairFrames /\ f.kind = kind /\ f.key = d.key BY <1>3, <1>4, FrameMade
<1> HIDE DEF f
<1>6. down' = Append(down, f) BY <1>2 DEF f
<1>7. down' \in Seq(PairFrames) /\ Len(down') = 1 /\ down'[1] = f BY <1>1, <1>5, <1>6
<1>8. CASE kind = "junk" BY <1>1, <1>2, <1>5, <1>7, <1>8
<1>9. CASE kind # "junk" BY <1>2, <1>5, <1>7, <1>9
<1>10. QED BY <1>8, <1>9

\* Neither the client nor what it has sent changes by what the device does.
LEMMA DeviceTypes ==
  ASSUME PairInv, UNCHANGED <<host, sent>>, device' \in PeerStates,
         up' \in Seq(PairFrames), down' \in Seq(PairFrames)
  PROVE  PairTyped' /\ NoncesPast'
<1>1. PairTyped' BY DEF PairInv, PairTyped
<1>2. NoncesPast' BY DEF PairInv, NoncesPast, NoncesFresh, Nonced
<1>3. QED BY <1>1, <1>2

\* Where the host may be when a frame is on its way to the device.
LEMMA Asked ==
  ASSUME PairInv, device.open, up # <<>>
  PROVE  /\ down = <<>> /\ up \in Seq(PairFrames) /\ Head(up) = up[1]
         /\ Tail(up) \in Seq(PairFrames)
         /\ host.pc \in {"hello", "v1", "v3", "s1", "s3", "s5", "request", "failed"}
         /\ \/ Len(up) = 1 /\ Tail(up) = <<>>
            \/ Len(up) = 2 /\ Len(Tail(up)) = 1 /\ Tail(up)[1] = up[2] /\ host.pc = "s1"
<1>1. host \in HostStates /\ up \in Seq(PairFrames) /\ Talk BY DEF PairInv, PairTyped
<1>2. /\ host.pc \in {"hello", "v1", "v3", "s1", "s3", "s5", "request", "failed"}
      /\ down = <<>> /\ (Len(up) = 1 \/ (Len(up) = 2 /\ host.pc = "s1"))
  <2>1. host.pc \in PairWaiting \cup {"idle", "pin", "paired", "failed"}
    BY <1>1 DEF HostStates
  <2>2. up # <<>> /\ device.open OBVIOUS
  <2>3. host.pc \notin {"idle", "pin", "paired", "consent"}
    BY <1>1, <2>2 DEF Talk, TalkConsent, TalkPaired, TalkOver, Told, Silent
  <2>4. host.pc \in {"hello", "v1", "v3", "s1", "s3", "s5", "request", "failed"}
    BY <2>1, <2>3 DEF PairWaiting
  <2>5. CASE host.pc \in {"hello", "v1", "v3"}
    BY <1>1, <2>2, <2>4, <2>5 DEF Talk, TalkHello, TalkV1, TalkV3, Asks, Told
  <2>6. CASE host.pc = "s1" BY <1>1, <2>2, <2>4, <2>6 DEF Talk, TalkS1, Asks, Told
  <2>7. CASE host.pc \in {"s3", "s5", "request"}
    BY <1>1, <2>2, <2>4, <2>7 DEF Talk, TalkS3, TalkS5, TalkRequest, Asks, Told
  <2>8. CASE host.pc = "failed"
    BY <1>1, <2>2, <2>4, <2>8 DEF Talk, TalkOver, Asks, Silent
  <2>9. QED BY <2>4, <2>5, <2>6, <2>7, <2>8
<1>3. CASE Len(up) = 1 BY <1>1, <1>2, <1>3, OneFrame
<1>4. CASE Len(up) = 2
  <2>1. host.pc = "s1" BY <1>2, <1>4
  <2>2. QED BY <1>1, <1>2, <1>4, <2>1, TwoFrames
<1>5. QED BY <1>2, <1>3, <1>4

\* The device answers the frame that the host asked with, rightly or not.
LEMMA DeviceAnswersKeeps ==
  ASSUME PairInv, DeviceAnswers
  PROVE  PairInv'
<1> DEFINE f == Head(up)
<1>1. /\ PairTyped /\ Talk /\ host \in HostStates /\ device \in PeerStates
      /\ down \in Seq(PairFrames)
  BY DEF PairInv, PairTyped
<1>2. device.open /\ up # <<>> /\ up' = Tail(up) /\ UNCHANGED <<host, sent>>
  BY DEF DeviceAnswers
<1>3. /\ down = <<>> /\ up \in Seq(PairFrames) /\ f = up[1] /\ Tail(up) \in Seq(PairFrames)
      /\ host.pc \in {"hello", "v1", "v3", "s1", "s3", "s5", "request", "failed"}
      /\ \/ Len(up) = 1 /\ Tail(up) = <<>>
         \/ Len(up) = 2 /\ Len(Tail(up)) = 1 /\ Tail(up)[1] = up[2] /\ host.pc = "s1"
  BY <1>2, Asked
<1>4. /\ f.key \in Keys /\ f.file \in Int
  <2>1. f \in PairFrames BY <1>2, <1>3
  <2>2. QED BY <2>1 DEF PairFrames
<1> DEFINE shown == Append(Append(down, PlainFrame("consent", 0)), PlainFrame("salt", 0))
           keyed == [device EXCEPT !.key = f.key]
           saved == [device EXCEPT !.known = @ \cup {f.file}]
<1>5. \/ f.kind = "hello" /\ Answer(device, {"hello"})
      \/ f.kind = "v1" /\ Answer(device, {"data", "error", "rejected"})
      \/ f.kind = "v3" /\ f.file \in device.known /\ Answer(keyed, {"data"})
      \/ f.kind = "v3" /\ f.file \notin device.known /\ Answer(device, {"error"})
      \/ f.kind = "verifyFailed" /\ UNCHANGED <<device, down>>
      \/ f.kind = "s1" /\ Answer(device, {"salt", "rejected", "error"})
      \/ f.kind = "s1" /\ down' = shown /\ UNCHANGED device
      \/ f.kind = "s3" /\ f.key[1] = "srp" /\ Answer(keyed, {"proof"})
      \/ f.kind = "s3" /\ f.key[1] # "srp" /\ Answer(device, {"error", "badProof"})
      \/ f.kind = "s5" /\ f.key = device.key /\ Answer(saved, {"data"})
      \/ f.kind = "request" /\ Answer(device, {"response"})
  BY DEF DeviceAnswers
<1> HIDE DEF shown, keyed, saved
<1>6. keyed \in PeerStates /\ keyed.key = f.key /\ keyed.known = device.known
  BY <1>1, <1>4 DEF keyed, PeerStates
<1>7. ASSUME f.file \in Nat
      PROVE  /\ saved \in PeerStates /\ saved.key = device.key /\ f.file \in saved.known
             /\ \A x \in device.known : x \in saved.known
  <2> DEFINE files == device.known \cup {f.file}
  <2>1. files \in SUBSET Nat /\ f.file \in files /\ device.known \subseteq files
    BY <1>1, <1>7 DEF PeerStates
  <2>2. saved = [device EXCEPT !.known = files] BY DEF saved
  <2> HIDE DEF files
  <2>3. saved \in PeerStates /\ saved.key = device.key /\ saved.known = files
    BY <1>1, <2>1, <2>2 DEF PeerStates
  <2>4. QED BY <2>1, <2>3
<1>8. ASSUME NEW d \in PeerStates, NEW kinds \in SUBSET FrameKinds, Answer(d, kinds)
      PROVE  /\ PairTyped' /\ NoncesPast' /\ Len(down') = 1 /\ down'[1].key = d.key
             /\ \/ down'[1].kind = "junk" /\ device' = device
                \/ down'[1].kind \in kinds /\ device' = d
  <2>1. /\ down' \in Seq(PairFrames) /\ Len(down') = 1 /\ device' \in PeerStates
        /\ down'[1].key = d.key
        /\ \/ down'[1].kind = "junk" /\ device' = device
           \/ down'[1].kind \in kinds /\ device' = d
    BY <1>1, <1>2, <1>3, <1>8, AnswerOne
  <2>2. up' \in Seq(PairFrames) BY <1>2, <1>3
  <2>3. QED BY <1>2, <2>1, <2>2, DeviceTypes
<1>9. host'.pc = host.pc /\ host' = host BY <1>2
<1>10. CASE host.pc = "hello"
  <2>1. f.kind = "hello" /\ up' = <<>>
    BY <1>1, <1>2, <1>3, <1>10 DEF Talk, TalkHello, Asks, Told
  <2>2. Answer(device, {"hello"}) BY <1>5, <2>1
  <2>3. {"hello"} \in SUBSET FrameKinds BY DEF FrameKinds
  <2>4. /\ PairTyped' /\ NoncesPast' /\ Len(down') = 1
        /\ down'[1].kind \in {"hello", "junk"}
    BY <1>1, <1>8, <2>2, <2>3
  <2>5. Talk' BY <1>9, <1>10, <2>1, <2>4, TalkOnly DEF TalkHello, Told
  <2>6. QED BY <2>4, <2>5 DEF PairInv
<1>11. CASE host.pc = "v1"
  <2>1. f.kind = "v1" /\ up' = <<>>
    BY <1>1, <1>2, <1>3, <1>11 DEF Talk, TalkV1, Asks, Told
  <2>2. Answer(device, {"data", "error", "rejected"}) BY <1>5, <2>1
  <2>3. {"data", "error", "rejected"} \in SUBSET FrameKinds BY DEF FrameKinds
  <2>4. /\ PairTyped' /\ NoncesPast' /\ Len(down') = 1
        /\ down'[1].kind \in {"data", "error", "rejected", "junk"}
    BY <1>1, <1>8, <2>2, <2>3
  <2>5. Talk' BY <1>9, <1>11, <2>1, <2>4, TalkOnly DEF TalkV1, Told
  <2>6. QED BY <2>4, <2>5 DEF PairInv
<1>12. CASE host.pc = "v3"
  <2>1. /\ f.kind = "v3" /\ up' = <<>> /\ f.key = host.key /\ f.file = host.trial
        /\ host.key[2] = host.sessions
    BY <1>1, <1>2, <1>3, <1>12 DEF Talk, TalkV3, Asks, Told
  <2>2. CASE f.file \in device.known /\ Answer(keyed, {"data"})
    <3>1. {"data"} \in SUBSET FrameKinds BY DEF FrameKinds
    <3>2. /\ PairTyped' /\ NoncesPast' /\ Len(down') = 1
          /\ down'[1].kind = "junk" \/ (down'[1].kind = "data" /\ device' = keyed)
      BY <1>6, <1>8, <2>2, <3>1
    <3>3. Talk'
      BY <1>6, <1>9, <1>12, <2>1, <2>2, <3>2, TalkOnly DEF TalkV3, Told
    <3>4. QED BY <3>2, <3>3 DEF PairInv
  <2>3. CASE Answer(device, {"error"})
    <3>1. {"error"} \in SUBSET FrameKinds BY DEF FrameKinds
    <3>2. /\ PairTyped' /\ NoncesPast' /\ Len(down') = 1
          /\ down'[1].kind \in {"error", "junk"}
      BY <1>1, <1>8, <2>3, <3>1
    <3>3. Talk' BY <1>9, <1>12, <2>1, <3>2, TalkOnly DEF TalkV3, Told
    <3>4. QED BY <3>2, <3>3 DEF PairInv
  <2>4. QED BY <1>5, <2>1, <2>2, <2>3
<1>13. CASE host.pc = "s1" /\ Len(up) = 1
  <2>1. f.kind = "s1" /\ up' = <<>>
    BY <1>1, <1>2, <1>3, <1>13 DEF Talk, TalkS1, Asks, Told
  <2>2. CASE Answer(device, {"salt", "rejected", "error"})
    <3>1. {"salt", "rejected", "error"} \in SUBSET FrameKinds BY DEF FrameKinds
    <3>2. /\ PairTyped' /\ NoncesPast' /\ Len(down') = 1
          /\ down'[1].kind \in {"salt", "rejected", "error", "junk"}
      BY <1>1, <1>8, <2>2, <3>1
    <3>3. Talk' BY <1>9, <1>13, <2>1, <3>2, TalkOnly DEF TalkS1, Told
    <3>4. QED BY <3>2, <3>3 DEF PairInv
  <2>3. CASE down' = shown /\ UNCHANGED device
    <3> DEFINE c == PlainFrame("consent", 0)
               s == PlainFrame("salt", 0)
    <3>1. "consent" \in FrameKinds /\ "salt" \in FrameKinds /\ 0 \in Int BY DEF FrameKinds
    <3>2. /\ c \in PairFrames /\ c.kind = "consent"
          /\ s \in PairFrames /\ s.kind = "salt"
      BY <3>1, PlainMade
    <3>3. down' = Append(Append(down, c), s) BY <2>3 DEF shown
    <3> HIDE DEF c, s
    <3>4. /\ Append(down, c) \in Seq(PairFrames) /\ Len(Append(down, c)) = 1
          /\ Append(down, c)[1] = c
      BY <1>1, <1>3, <3>2
    <3>5. /\ down' \in Seq(PairFrames) /\ Len(down') = 2 /\ down'[1] = c /\ down'[2] = s
      BY <3>2, <3>3, <3>4
    <3>6. PairTyped' /\ NoncesPast' BY <1>1, <1>2, <1>3, <2>3, <3>5, DeviceTypes
    <3>7. Talk' BY <1>9, <1>13, <2>1, <3>2, <3>5, TalkOnly DEF TalkS1
    <3>8. QED BY <3>6, <3>7 DEF PairInv
  <2>4. QED BY <1>5, <2>1, <2>2, <2>3
<1>14. CASE host.pc = "s1" /\ Len(up) = 2
  <2>1. /\ f.kind = "verifyFailed" /\ up[2].kind = "s1"
        /\ Len(up') = 1 /\ up'[1].kind = "s1"
    BY <1>1, <1>2, <1>3, <1>14, SMTT(30) DEF Talk, TalkS1, Asks, Told
  <2>2. UNCHANGED <<device, down>> BY <1>5, <2>1
  <2>3. PairTyped' /\ NoncesPast' BY <1>1, <1>2, <1>3, <2>2, DeviceTypes
  <2>4. Talk' BY <1>3, <1>9, <1>14, <2>1, <2>2, TalkOnly DEF TalkS1, Asks
  <2>5. QED BY <2>3, <2>4 DEF PairInv
<1>15. CASE host.pc = "s3"
  <2>1. f.kind = "s3" /\ up' = <<>> /\ f.key[2] = host.sessions
    BY <1>1, <1>2, <1>3, <1>15 DEF Talk, TalkS3, Asks, Told
  <2>2. CASE Answer(keyed, {"proof"})
    <3>1. {"proof"} \in SUBSET FrameKinds BY DEF FrameKinds
    <3>2. /\ PairTyped' /\ NoncesPast' /\ Len(down') = 1 /\ down'[1].key = keyed.key
          /\ down'[1].kind = "junk" \/ (down'[1].kind = "proof" /\ device' = keyed)
      BY <1>6, <1>8, <2>2, <3>1
    <3>3. Talk' BY <1>6, <1>9, <1>15, <2>1, <3>2, TalkOnly DEF TalkS3, Told
    <3>4. QED BY <3>2, <3>3 DEF PairInv
  <2>3. CASE Answer(device, {"error", "badProof"})
    <3>1. {"error", "badProof"} \in SUBSET FrameKinds BY DEF FrameKinds
    <3>2. /\ PairTyped' /\ NoncesPast' /\ Len(down') = 1
          /\ down'[1].kind \in {"error", "badProof", "junk"}
      BY <1>1, <1>8, <2>3, <3>1
    <3>3. Talk' BY <1>9, <1>15, <2>1, <3>2, TalkOnly DEF TalkS3, Told
    <3>4. QED BY <3>2, <3>3 DEF PairInv
  <2>4. QED BY <1>5, <2>1, <2>2, <2>3
<1>16. CASE host.pc = "s5"
  <2>1. f.kind = "s5" /\ up' = <<>> /\ f.file = host.trial /\ Mutual
    BY <1>1, <1>2, <1>3, <1>16 DEF Talk, TalkS5, Asks, Told
  <2>2. f.file \in Nat BY <1>1, <2>1 DEF HostStates
  <2>3. saved \in PeerStates /\ saved.key = device.key /\ f.file \in saved.known
    BY <1>7, <2>2
  <2>4. Answer(saved, {"data"}) BY <1>5, <2>1
  <2>5. {"data"} \in SUBSET FrameKinds BY DEF FrameKinds
  <2>6. /\ PairTyped' /\ NoncesPast' /\ Len(down') = 1
        /\ \/ down'[1].kind = "junk" /\ device' = device
           \/ down'[1].kind = "data" /\ device' = saved
    BY <1>8, <2>3, <2>4, <2>5
  <2>7. device'.key = device.key BY <2>3, <2>6
  <2>8. Mutual' BY <1>9, <2>1, <2>7 DEF Mutual
  <2>9. Talk'
    BY <1>9, <1>16, <2>1, <2>3, <2>6, <2>8, TalkOnly DEF TalkS5, Told
  <2>10. QED BY <2>6, <2>9 DEF PairInv
<1>17. CASE host.pc = "request"
  <2>1. f.kind = "request" /\ up' = <<>> /\ Mutual /\ host.file \in device.known
    BY <1>1, <1>2, <1>3, <1>17 DEF Talk, TalkRequest, Asks, Told
  <2>2. Answer(device, {"response"}) BY <1>5, <2>1
  <2>3. {"response"} \in SUBSET FrameKinds BY DEF FrameKinds
  <2>4. /\ PairTyped' /\ NoncesPast' /\ Len(down') = 1 /\ device' = device
        /\ down'[1].kind \in {"response", "junk"}
    BY <1>1, <1>8, <2>2, <2>3
  <2>5. Talk' BY <1>9, <1>17, <2>1, <2>4, TalkOnly DEF TalkRequest, Told, Mutual
  <2>6. QED BY <2>4, <2>5 DEF PairInv
<1>18. CASE host.pc = "failed"
  <2>1. f.kind = "verifyFailed" /\ up' = <<>>
    BY <1>1, <1>2, <1>3, <1>18 DEF Talk, TalkOver, Asks, Silent
  <2>2. UNCHANGED <<device, down>> BY <1>5, <2>1
  <2>3. PairTyped' /\ NoncesPast' BY <1>1, <1>2, <1>3, <2>2, DeviceTypes
  <2>4. Talk' BY <1>3, <1>9, <1>18, <2>1, <2>2, TalkOnly DEF TalkOver, Silent
  <2>5. QED BY <2>3, <2>4 DEF PairInv
<1>19. QED
  BY <1>3, <1>10, <1>11, <1>12, <1>13, <1>14, <1>15, <1>16, <1>17, <1>18

\* What the client starts with satisfies the invariant.
LEMMA PairBegins == PairInit => PairInv
<1> SUFFICES ASSUME PairInit PROVE PairInv OBVIOUS
<1>1. PICK file \in {0, 1}, arg \in {"file", "pin"}, pin \in {"right", "wrong"} :
        host = [pc |-> "idle", file |-> file, trial |-> 0, made |-> 1,
                arg |-> arg, pin |-> IF arg = "pin" THEN pin ELSE "none",
                seq |-> 0, encSeq |-> 0, nonce |-> -1, key |-> NoKey,
                aead |-> Zero, sessions |-> 0, requests |-> 0,
                again |-> TRUE, done |-> FALSE, code |-> "none"]
  BY DEF PairInit
<1>2. PICK known \in {{}, {1}} :
        device = [known |-> known, key |-> NoKey, trial |-> 0, open |-> TRUE]
  BY DEF PairInit
<1>3. up = <<>> /\ down = <<>> /\ sent = <<>> BY DEF PairInit
<1>4. NoKey \in Keys /\ Zero \in Keys BY DEF NoKey, Zero, Keys
<1>5. device \in PeerStates
  <2>1. known \in SUBSET Nat /\ 0 \in Int BY <1>2
  <2>2. QED BY <1>2, <1>4, <2>1 DEF PeerStates
<1>6. host \in HostStates /\ host.pc = "idle"
  <2> DEFINE code == IF arg = "pin" THEN pin ELSE "none"
  <2>1. code \in {"right", "wrong", "none"} BY <1>1
  <2>2. file \in Nat /\ -1 \in Int /\ "idle" \in PairWaiting \cup {"idle", "pin", "paired", "failed"}
    BY <1>1
  <2> HIDE DEF code
  <2>3. host = [pc |-> "idle", file |-> file, trial |-> 0, made |-> 1,
                arg |-> arg, pin |-> code,
                seq |-> 0, encSeq |-> 0, nonce |-> -1, key |-> NoKey,
                aead |-> Zero, sessions |-> 0, requests |-> 0,
                again |-> TRUE, done |-> FALSE, code |-> "none"]
    BY <1>1 DEF code
  <2>4. QED BY <1>4, <2>1, <2>2, <2>3 DEF HostStates
<1>7. <<>> \in Seq(PairFrames) /\ <<>> \in Seq(Uses) OBVIOUS
<1>8. PairTyped BY <1>3, <1>5, <1>6, <1>7 DEF PairTyped
<1>9. Talk
  BY <1>3, <1>6
  DEF Talk, TalkHello, TalkV1, TalkV3, TalkS1, TalkConsent, TalkS3, TalkS5, TalkRequest,
      TalkPaired, TalkOver, Silent
<1>10. DOMAIN sent = {} BY <1>3
<1>11. NoncesPast BY <1>10 DEF NoncesPast, NoncesFresh
<1>12. QED BY <1>8, <1>9, <1>11 DEF PairInv

\* Every step of the two sides keeps the invariant.
LEMMA PairKeeps == PairInv /\ [PairNext]_pairVars => PairInv'
<1>1. SUFFICES ASSUME PairInv, [PairNext]_pairVars PROVE PairInv' OBVIOUS
<1>2. CASE StartRemotePairing \/ TlsFails BY <1>1, <1>2, SessionBegins
<1>3. CASE ClientStep
  <2>1. CASE HandshakeDone BY <1>1, <2>1, HandshakeKeeps
  <2>2. CASE VerifyFirst BY <1>1, <2>2, VerifyFirstKeeps
  <2>3. CASE VerifySecond BY <1>1, <2>3, VerifySecondKeeps
  <2>4. CASE FallBack BY <1>1, <2>4, FallBackKeeps
  <2>5. CASE AskPin \/ AwaitConsent BY <1>1, <2>5, SaltKeeps
  <2>6. CASE PinEntered \/ ConsentGiven BY <1>1, <2>6, PinKeeps
  <2>7. CASE ProofChecked BY <1>1, <2>7, ProofKeeps
  <2>8. CASE RecordSaved BY <1>1, <2>8, RecordKeeps
  <2>9. CASE Refused \/ ReadFails BY <1>1, <2>9, RefusedKeeps
  <2>10. CASE Response BY <1>1, <2>10, ResponseKeeps
  <2>11. QED
    BY <1>3, <2>1, <2>2, <2>3, <2>4, <2>5, <2>6, <2>7, <2>8, <2>9, <2>10 DEF ClientStep
<1>4. CASE SendRequest BY <1>1, <1>4, RequestUsesNonce
<1>5. CASE FlowEnds \/ DeviceLeaves BY <1>1, <1>5, LeavingKeeps
<1>6. CASE DeviceAnswers BY <1>1, <1>6, DeviceAnswersKeeps
<1>7. CASE UNCHANGED pairVars
  BY <1>1, <1>7
  DEF pairVars, PairInv, PairTyped, Talk, TalkHello, TalkV1, TalkV3, TalkS1, TalkConsent,
      TalkS3, TalkS5, TalkRequest, TalkPaired, TalkOver, Asks, Told, Silent, Mutual,
      NoncesPast, NoncesFresh, Nonced
<1>8. QED BY <1>1, <1>2, <1>3, <1>4, <1>5, <1>6, <1>7 DEF PairNext

\* When startSession() has returned, the client and the device hold one session
\* key, the client's ciphers are derived from it and the device knows the file
\* that the client keeps, whatever failed before on the stream; and no key
\* encrypts two requests with one nonce.
THEOREM SessionsAreSound == PairSpec => []SessionSound
<1>1. PairInit => PairInv BY PairBegins
<1>2. PairInv /\ [PairNext]_pairVars => PairInv' BY PairKeeps
<1>3. PairInv => SessionSound
  BY DEF PairInv, Talk, TalkPaired, TalkRequest, Mutual, NoncesPast, SessionSound,
         PairedIsMutual
<1>4. QED BY <1>1, <1>2, <1>3, PTL DEF PairSpec

\* What the client counts: a nonce for each request that was answered, the
\* pairing files made, of which it has one and tries one, and the frames sent.
HostBounded(h) ==
  /\ h.nonce \in {-1} \cup 0..Exchanges
  /\ h.encSeq <= h.requests /\ h.requests <= Exchanges
  /\ h.pc = "request" => h.encSeq < h.requests
  /\ h.made # 0 /\ h.file <= h.made /\ h.trial <= h.made
  /\ h.pc \in {"v1", "v3", "s1", "pin", "consent", "s3", "s5"} => h.trial # 0
FilesMade(frames, made) ==
  \A i \in DOMAIN frames : frames[i].kind = "s5" => frames[i].file \in 1..made
PairBounded ==
  /\ HostBounded(host) /\ host.seq = Len(sent)
  /\ FilesMade(up, host.made) /\ device.known \subseteq 1..host.made

\* The host sends frames, and numbers them.
LEMMA SendsBounded ==
  ASSUME PairTyped, PairBounded, NEW h \in HostStates, HostBounded(h), h.seq = host.seq,
         host.made <= h.made, NEW frames \in Seq(PairFrames), FilesMade(frames, h.made),
         host' = Numbered(h, Len(frames)), SendAll(frames), UNCHANGED device
  PROVE  PairBounded'
<1> DEFINE uses == [i \in DOMAIN frames |->
                      [seq |-> host.seq + i - 1, key |-> frames[i].key,
                       nonce |-> frames[i].nonce]]
           n == Len(frames)
<1>1. /\ host \in HostStates /\ device \in PeerStates /\ up \in Seq(PairFrames)
      /\ sent \in Seq(Uses) /\ n \in Nat /\ host.seq = Len(sent) /\ host.seq \in Nat
  BY SMTT(30) DEF PairTyped, PairBounded, HostStates
<1>2. /\ host' = [h EXCEPT !.seq = h.seq + n] /\ up' = up \o frames /\ sent' = sent \o uses
  BY DEF Numbered, SendAll
<1>3. uses \in Seq(Uses) /\ Len(uses) = n
  <2>1. \A i \in 1..n : frames[i] \in PairFrames OBVIOUS
  <2>2. \A i \in 1..n : [seq |-> host.seq + i - 1, key |-> frames[i].key,
                         nonce |-> frames[i].nonce] \in Uses
    BY <1>1, <2>1 DEF PairFrames, Uses
  <2>3. uses \in [1..n -> Uses] BY <2>2
  <2> HIDE DEF uses
  <2>4. QED BY <1>1, <2>3
<1>4. h.seq + n \in Nat BY <1>1
<1> HIDE DEF uses, n
<1>5. Len(sent') = host.seq + n BY <1>1, <1>2, <1>3
<1>6. /\ host'.seq = h.seq + n /\ host'.made = h.made /\ host'.file = h.file
      /\ host'.trial = h.trial /\ host'.pc = h.pc /\ host'.nonce = h.nonce
      /\ host'.encSeq = h.encSeq /\ host'.requests = h.requests
  BY <1>2, <1>4 DEF HostStates
<1>7. HostBounded(host') BY <1>6 DEF HostBounded
<1>8. host.made \in Nat /\ h.made \in Nat BY <1>1 DEF HostStates
<1>9. device'.known \subseteq 1..host'.made BY <1>6, <1>8 DEF PairBounded
<1>10. ASSUME NEW i \in DOMAIN up', up'[i].kind = "s5" PROVE up'[i].file \in 1..host'.made
  <2>1. CASE i \in DOMAIN up
    <3>1. up'[i] = up[i] BY <1>1, <1>2, <2>1
    <3>2. QED BY <1>6, <1>8, <1>10, <2>1, <3>1 DEF PairBounded, FilesMade
  <2>2. CASE i \notin DOMAIN up
    <3>1. i - Len(up) \in DOMAIN frames /\ up'[i] = frames[i - Len(up)]
      BY <1>1, <1>2, <1>10, <2>2
    <3>2. QED BY <1>6, <1>10, <3>1 DEF FilesMade
  <2>3. QED BY <2>1, <2>2
<1>11. QED BY <1>5, <1>6, <1>7, <1>9, <1>10 DEF PairBounded, FilesMade

\* One frame of the host.
LEMMA SendBounded ==
  ASSUME PairTyped, PairBounded, NEW h \in HostStates, HostBounded(h), h.seq = host.seq,
         host.made <= h.made, NEW kind \in FrameKinds, NEW key \in Keys, NEW nonce \in Int,
         NEW file \in Int, kind = "s5" => file \in 1..h.made,
         Send1(h, PairFrame(kind, key, nonce, file)), UNCHANGED device
  PROVE  PairBounded'
<1> DEFINE f == PairFrame(kind, key, nonce, file)
<1>1. f \in PairFrames /\ f.kind = kind /\ f.file = file BY FrameMade
<1>2. host' = Numbered(h, 1) /\ SendAll(<<f>>) BY DEF Send1
<1> HIDE DEF f
<1>3. <<f>> \in Seq(PairFrames) /\ Len(<<f>>) = 1 BY <1>1
<1>4. FilesMade(<<f>>, h.made) BY <1>1 DEF FilesMade
<1>5. QED BY <1>2, <1>3, <1>4, SendsBounded

\* The host goes on, and sends nothing.
LEMMA MovesBounded ==
  ASSUME PairTyped, PairBounded, HostBounded(host'), host'.seq = host.seq,
         host'.made = host.made, UNCHANGED <<device, up, sent>>
  PROVE  PairBounded'
BY DEF PairBounded

\* The client's steps.
LEMMA ClientBounded ==
  ASSUME PairTyped, PairBounded,
         ClientStep \/ StartRemotePairing \/ SendRequest \/ TlsFails
  PROVE  PairBounded'
<1>1. /\ host \in HostStates /\ HostBounded(host) /\ Exchanges \in Nat
      /\ down \in Seq(PairFrames)
  BY RemotePairingAssumption DEF PairTyped, PairBounded
<1>2. /\ NoKey \in Keys /\ <<"verify", host.sessions>> \in Keys
      /\ host.sessions + 1 \in Nat /\ host.made + 1 \in Nat
  BY <1>1 DEF NoKey, Keys, HostStates
<1>3. /\ host.file \in Int /\ host.trial \in Int /\ host.made \in Int
      /\ host.encSeq \in Int /\ host.aead \in Keys
      /\ host.made \in Nat /\ host.made # 0 /\ host.trial \in Nat /\ host.file \in Nat
      /\ host.trial <= host.made /\ host.file <= host.made
  BY <1>1 DEF HostStates, HostBounded
<1>4. {"hello", "v1", "v3", "verifyFailed", "s1", "s3", "s5", "request"} \subseteq FrameKinds
  BY DEF FrameKinds
<1>5. CASE StartRemotePairing
  <2> DEFINE h == [host EXCEPT !.pc = "hello", !.sessions = @ + 1, !.code = "none"]
  <2>1. h \in HostStates /\ HostBounded(h) /\ h.seq = host.seq /\ h.made = host.made
    BY <1>1, <1>2, ZenonT(60) DEF HostStates, HostBounded, PairWaiting
  <2>2. Send1(h, PairFrame("hello", NoKey, -1, 0)) /\ UNCHANGED device
    BY <1>5 DEF StartRemotePairing, PlainFrame
  <2> HIDE DEF h
  <2>3. QED BY <1>2, <1>3, <1>4, <2>1, <2>2, SendBounded
<1>6. CASE TlsFails
  <2> DEFINE h == [host EXCEPT !.pc = "hello", !.again = FALSE, !.file = 0,
                               !.sessions = @ + 1]
  <2>1. h \in HostStates /\ HostBounded(h) /\ h.seq = host.seq /\ h.made = host.made
    <3> DEFINE n == host.sessions + 1
    <3> HIDE DEF n
    <3>1. n \in Nat /\ h = [host EXCEPT !.pc = "hello", !.again = FALSE, !.file = 0, !.sessions = n]
      BY <1>2 DEF n
    <3> HIDE DEF h
    <3>2. /\ h \in HostStates /\ h.pc = "hello" /\ h.file = 0 /\ h.trial = host.trial
          /\ h.made = host.made /\ h.nonce = host.nonce /\ h.encSeq = host.encSeq
          /\ h.requests = host.requests /\ h.seq = host.seq
      BY <1>1, <3>1 DEF HostStates, PairWaiting
    <3>3. HostBounded(h) BY <1>1, <1>3, <3>2 DEF HostBounded
    <3>4. QED BY <3>2, <3>3
  <2>2. Send1(h, PairFrame("hello", NoKey, -1, 0)) /\ UNCHANGED device
    BY <1>6 DEF TlsFails, PlainFrame
  <2> HIDE DEF h
  <2>3. QED BY <1>2, <1>3, <1>4, <2>1, <2>2, SendBounded
<1>7. CASE SendRequest
  <2> DEFINE h == [host EXCEPT !.pc = "request", !.nonce = host.encSeq, !.requests = @ + 1]
  <2>1. /\ host.requests < Exchanges /\ UNCHANGED device
        /\ Send1(h, PairFrame("request", host.aead, host.encSeq, 0))
    BY <1>7 DEF SendRequest
  <2>2. h \in HostStates /\ HostBounded(h) /\ h.seq = host.seq /\ h.made = host.made
    <3> DEFINE e == host.encSeq
               r == host.requests + 1
    <3>1. /\ e \in Nat /\ e \in Int /\ r \in Nat /\ e < r /\ r <= Exchanges
          /\ e \in 0..Exchanges
      BY <1>1, <2>1 DEF HostStates, HostBounded
    <3>2. h = [host EXCEPT !.pc = "request", !.nonce = e, !.requests = r] OBVIOUS
    <3> HIDE DEF e, r, h
    <3>3. /\ h \in HostStates /\ h.pc = "request" /\ h.nonce = e /\ h.requests = r
          /\ h.encSeq = host.encSeq /\ h.made = host.made /\ h.file = host.file
          /\ h.trial = host.trial /\ h.seq = host.seq
      BY <1>1, <3>1, <3>2 DEF HostStates, PairWaiting
    <3>4. h.encSeq = e BY <3>3 DEF e
    <3>5. QED BY <1>1, <3>1, <3>3, <3>4 DEF HostBounded
  <2> HIDE DEF h
  <2>3. "request" \in FrameKinds /\ host.made <= h.made BY <1>3, <1>4, <2>2
  <2>4. QED BY <1>3, <2>1, <2>2, <2>3, SendBounded
<1>8. CASE HandshakeDone
  <2> DEFINE c == Chosen(host)
             h == [c EXCEPT !.pc = "v1"]
  <2>1. Send1(h, PairFrame("v1", NoKey, -1, h.trial)) /\ UNCHANGED device
    BY <1>8 DEF HandshakeDone, PlainFrame, Chosen, Gets
  <2>2. h \in HostStates /\ HostBounded(h) /\ h.seq = host.seq /\ host.made <= h.made
    <3>1. CASE host.file # 0
      <4>1. h = [host EXCEPT !.pc = "v1", !.trial = host.file]
        BY <1>1, <3>1 DEF Chosen, HostStates
      <4> HIDE DEF h
      <4>2. /\ h \in HostStates /\ h.pc = "v1" /\ h.file = host.file /\ h.trial = host.file
            /\ h.made = host.made /\ h.nonce = host.nonce /\ h.encSeq = host.encSeq
            /\ h.requests = host.requests /\ h.seq = host.seq
        BY <1>1, <1>3, <4>1 DEF HostStates, PairWaiting
      <4>3. QED BY <1>1, <1>3, <3>1, <4>2 DEF HostBounded
    <3>2. CASE host.file = 0
      <4> DEFINE gen == host.made + 1
      <4> HIDE DEF gen
      <4>1. h = [host EXCEPT !.pc = "v1", !.made = gen, !.trial = gen]
        BY <1>1, <3>2 DEF Chosen, HostStates, gen
      <4>2. gen \in Nat /\ host.made <= gen /\ gen # 0 BY <1>3 DEF gen
      <4> HIDE DEF h
      <4>3. /\ h \in HostStates /\ h.pc = "v1" /\ h.file = 0 /\ h.trial = gen
            /\ h.made = gen /\ h.nonce = host.nonce /\ h.encSeq = host.encSeq
            /\ h.requests = host.requests /\ h.seq = host.seq
        BY <1>1, <3>2, <4>1, <4>2 DEF HostStates, PairWaiting
      <4>4. QED BY <1>1, <1>3, <4>2, <4>3 DEF HostBounded
    <3>3. QED BY <3>1, <3>2
  <2> HIDE DEF h
  <2>3. h.trial \in Int BY <2>2 DEF HostStates
  <2>4. /\ "v1" \in FrameKinds /\ NoKey \in Keys /\ -1 \in Int
        /\ "v1" = "s5" => h.trial \in 1..h.made
    BY <1>2, <1>4
  <2>5. QED BY ONLY <2>1, <2>2, <2>3, <2>4, PairTyped, PairBounded, SendBounded
<1>9. CASE VerifyFirst
  <2> DEFINE h == [host EXCEPT !.pc = "v3", !.key = <<"verify", host.sessions>>]
  <2>1. /\ Send1(h, PairFrame("v3", <<"verify", host.sessions>>, -1, host.trial))
        /\ UNCHANGED device /\ host.pc = "v1"
    BY <1>9 DEF VerifyFirst, Gets
  <2>2. h \in HostStates /\ HostBounded(h) /\ h.seq = host.seq /\ h.made = host.made
    BY <1>1, <1>2, <2>1 DEF HostStates, HostBounded, PairWaiting
  <2> HIDE DEF h
  <2>3. QED BY <1>2, <1>3, <1>4, <2>1, <2>2, SendBounded
<1>10. CASE FallBack
  <2>1. UNCHANGED device BY <1>10 DEF FallBack
  <2>2. CASE host.pin = "none"
    <3> DEFINE h == FailPairing(host, "ProtocolError")
    <3>1. Send1(h, PairFrame("verifyFailed", NoKey, -1, 0))
      BY <1>10, <2>2 DEF FallBack, PlainFrame
    <3>2. h \in HostStates /\ HostBounded(h) /\ h.seq = host.seq /\ h.made = host.made
      BY <1>1, ZenonT(60) DEF FailPairing, HostStates, HostBounded
    <3> HIDE DEF h
    <3>3. QED BY <1>2, <1>3, <1>4, <2>1, <3>1, <3>2, SendBounded
  <2>3. CASE host.pin # "none"
    <3> DEFINE gen == host.made + 1
               file == IF host.file = host.trial THEN gen ELSE host.file
               h == [host EXCEPT !.pc = "s1", !.made = gen, !.trial = gen, !.file = file]
               f == PlainFrame("verifyFailed", 0)
               g == PlainFrame("s1", gen)
    <3>1. host' = Numbered(h, 2) /\ SendAll(<<f, g>>)
      BY <1>10, <2>3 DEF FallBack
    <3>2. gen \in Nat /\ gen # 0 /\ file \in Nat /\ file <= gen /\ host.made <= gen
      BY <1>1 DEF HostStates, HostBounded
    <3>3. /\ f \in PairFrames /\ f.kind = "verifyFailed" /\ g \in PairFrames /\ g.kind = "s1"
      BY <1>4, <3>2, PlainMade
    <3> HIDE DEF gen, file, f, g
    <3>4. h \in HostStates /\ HostBounded(h) /\ h.seq = host.seq /\ host.made <= h.made
      <4> HIDE DEF h
      <4>1. h = [host EXCEPT !.pc = "s1", !.made = gen, !.trial = gen, !.file = file]
        BY DEF h
      <4>2. /\ h \in HostStates /\ h.pc = "s1" /\ h.file = file /\ h.trial = gen
            /\ h.made = gen /\ h.nonce = host.nonce /\ h.encSeq = host.encSeq
            /\ h.requests = host.requests /\ h.seq = host.seq
        BY <1>1, <3>2, <4>1 DEF HostStates, PairWaiting
      <4>3. QED BY <1>1, <1>3, <3>2, <4>2 DEF HostBounded
    <3>5. /\ <<f, g>> \in Seq(PairFrames) /\ Len(<<f, g>>) = 2
          /\ FilesMade(<<f, g>>, h.made)
      BY <3>3 DEF FilesMade
    <3> HIDE DEF h
    <3>6. QED BY <2>1, <3>1, <3>4, <3>5, SendsBounded
  <2>4. QED BY <2>2, <2>3
<1>11. CASE PinEntered \/ ConsentGiven
  <2> DEFINE h == [host EXCEPT !.pc = "s3"]
  <2>1. UNCHANGED device /\ host.pc \in {"pin", "consent"}
    BY <1>11 DEF PinEntered, ConsentGiven, Gets
  <2>2. h \in HostStates /\ HostBounded(h) /\ h.seq = host.seq /\ h.made = host.made
    BY <1>1, <2>1 DEF HostStates, HostBounded, PairWaiting
  <2>3. \A pin : SrpKey(pin) \in Keys BY <1>1 DEF SrpKey, Keys, HostStates
  <2>4. PICK pin : Send1(h, PairFrame("s3", SrpKey(pin), -1, host.trial))
    BY <1>11 DEF PinEntered, ConsentGiven
  <2> HIDE DEF h
  <2>5. QED BY <1>3, <1>4, <2>1, <2>2, <2>3, <2>4, SendBounded
<1>12. CASE ProofChecked
  <2> DEFINE key == Head(down).key
             h == [host EXCEPT !.pc = "s5", !.key = key, !.aead = key]
  <2>1. /\ Send1(h, PairFrame("s5", key, -1, host.trial)) /\ UNCHANGED device
        /\ host.pc = "s3" /\ down # <<>>
    BY <1>12 DEF ProofChecked, Gets
  <2>2. key \in Keys
    <3>1. Head(down) \in PairFrames BY <1>1, <2>1
    <3>2. QED BY <3>1 DEF PairFrames
  <2> HIDE DEF key
  <2>3. /\ h \in HostStates /\ HostBounded(h) /\ h.seq = host.seq /\ h.made = host.made
        /\ host.trial \in 1..host.made
    <3>1. host.trial \in 1..host.made BY <1>1, <1>3, <2>1 DEF HostBounded
    <3> HIDE DEF h
    <3>2. h = [host EXCEPT !.pc = "s5", !.key = key, !.aead = key] BY DEF h
    <3>3. /\ h \in HostStates /\ h.pc = "s5" /\ h.file = host.file /\ h.trial = host.trial
          /\ h.made = host.made /\ h.nonce = host.nonce /\ h.encSeq = host.encSeq
          /\ h.requests = host.requests /\ h.seq = host.seq
      BY <1>1, <2>2, <3>2 DEF HostStates, PairWaiting
    <3>4. HostBounded(h) BY <1>1, <1>3, <3>1, <3>3 DEF HostBounded
    <3>5. QED BY <3>1, <3>3, <3>4
  <2> HIDE DEF h
  <2>4. QED BY <1>3, <1>4, <2>1, <2>2, <2>3, SendBounded
<1>13. CASE VerifySecond \/ RecordSaved \/ AskPin \/ AwaitConsent
  <2>1. UNCHANGED <<device, up, sent>>
    BY <1>13 DEF VerifySecond, RecordSaved, AskPin, AwaitConsent
  <2>2. /\ HostBounded(host') /\ host'.seq = host.seq /\ host'.made = host.made
    <3>1. CASE VerifySecond
      BY <1>1, <3>1 DEF VerifySecond, Gets, HostStates, HostBounded
    <3>2. CASE RecordSaved
      BY <1>1, <3>2 DEF RecordSaved, Gets, HostStates, HostBounded
    <3>3. CASE AskPin \/ AwaitConsent
      BY <1>1, <3>3 DEF AskPin, AwaitConsent, Gets, HostStates, HostBounded
    <3>4. QED BY <1>13, <3>1, <3>2, <3>3
  <2>3. QED BY <2>1, <2>2, MovesBounded
<1>14. CASE Refused \/ ReadFails
  <2>1. /\ UNCHANGED <<device, up, sent>>
        /\ \E code : host' = [host EXCEPT !.pc = "failed", !.code = code]
    BY <1>14 DEF Refused, ReadFails, Stop, FailPairing
  <2>2. HostBounded(host') /\ host'.seq = host.seq /\ host'.made = host.made
    BY <1>1, <2>1 DEF HostStates, HostBounded
  <2>3. QED BY <2>1, <2>2, MovesBounded
<1>15. CASE Response
  <2>1. UNCHANGED <<device, up, sent>> /\ host.pc = "request"
    BY <1>15 DEF Response, Gets
  <2> DEFINE e == host.encSeq + 1
  <2>2. e \in Nat /\ e <= host.requests
    BY <1>1, <2>1 DEF HostStates, HostBounded
  <2>3. \/ host' = [host EXCEPT !.pc = "paired", !.nonce = -1, !.encSeq = e]
        \/ host' = [host EXCEPT !.pc = "failed", !.code = "CryptoError"]
    BY <1>15 DEF Response, FailPairing
  <2> HIDE DEF e
  <2>4. HostBounded(host') /\ host'.seq = host.seq /\ host'.made = host.made
    BY <1>1, <2>2, <2>3, ZenonT(60) DEF HostStates, HostBounded
  <2>5. QED BY <2>1, <2>4, MovesBounded
<1>16. QED
  BY <1>5, <1>6, <1>7, <1>8, <1>9, <1>10, <1>11, <1>12, <1>13, <1>14, <1>15 DEF ClientStep

\* The device learns a file that was made and sent to it.
LEMMA PeerBounded ==
  ASSUME PairTyped, PairBounded, FlowEnds \/ DeviceAnswers \/ DeviceLeaves
  PROVE  PairBounded'
<1>1. /\ host \in HostStates /\ device \in PeerStates /\ up \in Seq(PairFrames)
      /\ UNCHANGED <<host, sent>>
  BY DEF PairTyped, FlowEnds, DeviceAnswers, DeviceLeaves
<1>2. CASE FlowEnds \/ DeviceLeaves
  BY <1>1, <1>2 DEF FlowEnds, DeviceLeaves, PairBounded, PeerStates
<1>3. CASE DeviceAnswers
  <2> DEFINE f == Head(up)
  <2>1. /\ up # <<>> /\ up' = Tail(up)
        /\ \/ device' = device
           \/ device' = [device EXCEPT !.key = f.key]
           \/ f.kind = "s5" /\ device' = [device EXCEPT !.known = @ \cup {f.file}]
    BY <1>3 DEF DeviceAnswers, Answer
  <2>2. f = up[1] /\ 1 \in DOMAIN up BY <1>1, <2>1
  <2>3. f.kind = "s5" => f.file \in 1..host.made
    BY <2>2 DEF PairBounded, FilesMade
  <2> HIDE DEF f
  <2>4. device'.known \subseteq 1..host.made
    BY <1>1, <2>1, <2>3 DEF PairBounded, PeerStates
  <2>5. FilesMade(up', host.made)
    <3>1. \A i \in DOMAIN up' : i + 1 \in DOMAIN up /\ up'[i] = up[i + 1]
      BY <1>1, <2>1
    <3>2. QED BY <3>1 DEF PairBounded, FilesMade
  <2>6. QED BY <1>1, <2>4, <2>5 DEF PairBounded
<1>4. QED BY <1>2, <1>3

\* The number of every frame is the number of frames before it, through
\* whatever failed and began again on the stream; and a device only knows
\* pairing files that were made (PairTypeOK, which TypesOK of MCComponents has for
\* its part).
THEOREM PairTypesCorrect == PairSpec => []PairTypeOK
<1>1. PairInit => PairInv /\ PairBounded
  <2>1. ASSUME PairInit PROVE PairBounded
    <3>1. /\ host.nonce = -1 /\ host.encSeq = 0 /\ host.requests = 0 /\ host.pc = "idle"
          /\ host.made = 1 /\ host.file \in {0, 1} /\ host.trial = 0 /\ host.seq = 0
      BY <2>1 DEF PairInit
    <3>2. device.known \in {{}, {1}} BY <2>1 DEF PairInit
    <3>3. up = <<>> /\ sent = <<>> /\ Exchanges \in Nat
      BY <2>1, RemotePairingAssumption DEF PairInit
    <3>4. HostBounded(host) BY <3>1, <3>3 DEF HostBounded
    <3>5. FilesMade(up, host.made) BY <3>3 DEF FilesMade
    <3>6. device.known \subseteq 1..host.made BY <3>1, <3>2
    <3>7. QED BY <3>1, <3>3, <3>4, <3>5, <3>6 DEF PairBounded
  <2>2. QED BY <2>1, PairBegins
<1>2. PairInv /\ PairBounded /\ [PairNext]_pairVars => (PairInv /\ PairBounded)'
  <2>1. SUFFICES ASSUME PairTyped, PairBounded, [PairNext]_pairVars PROVE PairBounded'
    BY PairKeeps DEF PairInv
  <2>2. CASE UNCHANGED pairVars BY <2>1, <2>2 DEF pairVars, PairBounded
  <2>3. QED BY <2>1, <2>2, ClientBounded, PeerBounded DEF PairNext
<1>3. PairInv /\ PairBounded => PairTypeOK
  BY DEF PairInv, PairTyped, PairBounded, HostBounded, HostStates, PairTypeOK
<1>4. QED BY <1>1, <1>2, <1>3, PTL DEF PairSpec

-----------------------------------------------------------------------------
(* MuxConnect: streams in the table, frames that find their own stream.    *)

CallerStates ==
  [pc : {"idle", "syn", "armed", "sleep", "holds", "failed"},
   how : {"direct", "channel"}, attempt : 0..ConnAttempts, conn : 0..MaxConns]
ConnStates ==
  [port : PortRange, state : {"connecting", "connected", "closed"},
   why : {"none", "refused", "timeout", "closed"}, foreign : BOOLEAN]
FrameStates == [kind : {"synack", "rst", "data"}, port : PortRange, of : 1..MaxConns]

ConnectTyped ==
  /\ callers \in [Callers -> CallerStates]
  /\ conns \in Seq(ConnStates) /\ Len(conns) <= MaxConns
  /\ connections \in [PortRange -> 0..MaxConns]
  /\ sport \in PortRange /\ channel \in 0..MaxConns /\ link \in {"ours", "closed", "other"}
  /\ syns \in Seq(1..MaxConns) /\ framesToHost \in Seq(FrameStates)

\* What callers, SYNs and frames name are streams that were made.
StreamOf ==
  /\ \A c \in Callers :
       /\ callers[c].conn <= Len(conns)
       /\ callers[c].pc \in {"syn", "armed", "sleep", "holds"} => callers[c].conn # 0
       /\ callers[c].pc = "sleep" => callers[c].attempt < ConnAttempts
  /\ \A n \in 1..Len(syns) : syns[n] <= Len(conns)
  /\ \A n \in 1..Len(framesToHost) :
       /\ framesToHost[n].of <= Len(conns)
       /\ framesToHost[n].port = conns[framesToHost[n].of].port

\* The table finds a stream by its port, and none that is closed.
Table ==
  \A p \in PortRange : connections[p] # 0 =>
    /\ connections[p] <= Len(conns)
    /\ conns[connections[p]].port = p /\ conns[connections[p]].state # "closed"

\* A new stream has a port that the counter has just come to.
PortsGoUp ==
  /\ sport <= Len(conns)
  /\ \A i \in 2..Len(conns) : conns[i].port \in 1..sport
  /\ Len(conns) > 0 /\ conns[1].port > sport => sport < Len(conns)

\* Only the port of a stream that was there at the start comes round again,
\* and only after that stream was closed.
PortsDiffer ==
  \A i, j \in 1..Len(conns) :
    i < j /\ conns[i].port = conns[j].port => i = 1 /\ conns[1].state = "closed"

\* Was the first stream there at the start?
Aged ==
  /\ Len(conns) > 0
  /\ conns[1].port \in 1..sport => \E j \in 2..Len(conns) : conns[j].port = conns[1].port

\* Then no caller has it, and its last frame is its RST.
OnItsOwn ==
  /\ conns[1].state # "connecting" /\ \A c \in Callers : callers[c].conn # 1
  /\ \A n \in 1..Len(syns) : syns[n] # 1
  /\ conns[1].state = "closed" => \A n \in 1..Len(framesToHost) : framesToHost[n].of # 1
  /\ \A m, n \in 1..Len(framesToHost) :
       m < n /\ framesToHost[m].kind = "rst" /\ framesToHost[m].of = 1 =>
         framesToHost[n].of # 1
AgedAlone == Aged => OnItsOwn

\* A stream that is open is in the table, as long as the link is.
InTheTable ==
  \A i \in 1..Len(conns) :
    /\ ~conns[i].foreign
    /\ conns[i].state = "connected" => link = "ours" /\ connections[conns[i].port] = i

\* The facade's channel has a holder who will release it.
Held ==
  channel # 0 =>
    \E c \in Callers :
      callers[c].pc = "holds" /\ callers[c].conn = channel /\ callers[c].how = "channel"

Streams == StreamOf /\ Table /\ PortsGoUp /\ PortsDiffer /\ AgedAlone /\ InTheTable
ConnectInv == ConnectTyped /\ Streams /\ Held

\* The ports and the link's constants are numbers.
LEMMA PortNumbers ==
  /\ Ports \in Nat /\ MaxConns \in Nat \ {0} /\ Ports > MaxConns
  /\ ConnAttempts \in Nat \ {0} /\ PortRange = 0..(Ports - 1) /\ MaxFrames \in Nat
BY MuxConnectAssumption DEF PortRange

\* A number below the modulus is its own remainder.
LEMMA NoWrap ==
  ASSUME NEW m \in Nat \ {0}, NEW x \in 0..(m - 1)
  PROVE  x % m = x
BY SMTT(20)

\* The parts of a stream, of a frame and of a caller.
LEMMA ConnectParts ==
  ASSUME ConnectTyped
  PROVE  /\ Len(conns) \in 0..MaxConns /\ sport \in Nat
         /\ \A i \in 1..Len(conns) :
              /\ conns[i] \in ConnStates /\ conns[i].port \in PortRange /\ conns[i].port \in Nat
              /\ conns[i].state \in {"connecting", "connected", "closed"}
         /\ \A c \in Callers : callers[c] \in CallerStates /\ callers[c].conn \in 0..MaxConns
<1>1. conns \in Seq(ConnStates) /\ callers \in [Callers -> CallerStates] /\ sport \in PortRange
  BY DEF ConnectTyped
<1>2. \A i \in 1..Len(conns) : conns[i] \in ConnStates
  BY <1>1, ElementOfSeq
<1>3. \A x \in ConnStates : x.port \in PortRange /\ x.state \in {"connecting", "connected", "closed"}
  BY DEF ConnStates
<1>4. \A x \in CallerStates : x.conn \in 0..MaxConns
  BY DEF CallerStates
<1>5. \A p \in PortRange : p \in Nat
  BY PortNumbers
<1>6. Len(conns) \in 0..MaxConns
  BY <1>1, PortNumbers DEF ConnectTyped
<1> QED
  BY <1>1, <1>2, <1>3, <1>4, <1>5, <1>6

\* Initially: no stream, or one old one.
LEMMA ConnectStarts == ConnectInit => ConnectInv
<1> SUFFICES ASSUME ConnectInit PROVE ConnectInv
  OBVIOUS
<1>1. /\ callers = [c \in Callers |-> Resting] /\ sport = 0 /\ channel = 0 /\ link = "ours"
      /\ syns = <<>> /\ framesToHost = <<>> /\ Len(syns) = 0 /\ Len(framesToHost) = 0
  BY DEF ConnectInit
<1>2. Resting \in CallerStates /\ Resting.conn = 0 /\ Resting.pc = "idle"
  BY PortNumbers DEF Resting, CallerStates
<1>3. \/ conns = <<>> /\ connections = [p \in PortRange |-> 0]
      \/ \E q \in PortRange :
           /\ conns = <<[port |-> q, state |-> "connected", why |-> "none", foreign |-> FALSE]>>
           /\ connections = [p \in PortRange |-> IF p = q THEN 1 ELSE 0]
  <2>1. PICK old \in {{}} \cup {{p} : p \in PortRange} :
          /\ conns = IF old = {} THEN <<>>
                     ELSE <<[port |-> CHOOSE p \in old : TRUE, state |-> "connected",
                             why |-> "none", foreign |-> FALSE]>>
          /\ connections = [p \in PortRange |-> IF p \in old THEN 1 ELSE 0]
    BY DEF ConnectInit
  <2>2. CASE old = {}
    BY <2>1, <2>2
  <2>3. ASSUME NEW q \in PortRange, old = {q}
        PROVE  \E p \in PortRange :
                 /\ conns = <<[port |-> p, state |-> "connected", why |-> "none", foreign |-> FALSE]>>
                 /\ connections = [r \in PortRange |-> IF r = p THEN 1 ELSE 0]
    <3>1. (CHOOSE p \in old : TRUE) = q /\ old # {}
      BY <2>3
    <3> QED
      BY <2>1, <2>3, <3>1
  <2> QED
    BY <2>2, <2>3
<1>4. CASE conns = <<>> /\ connections = [p \in PortRange |-> 0]
  <2>1. Len(conns) = 0
    BY <1>4
  <2> QED
    BY <1>1, <1>2, <1>4, <2>1, PortNumbers
       DEF ConnectInv, ConnectTyped, Streams, StreamOf, Table, PortsGoUp, PortsDiffer, Aged,
           AgedAlone, OnItsOwn, InTheTable, Held
<1>5. ASSUME NEW q \in PortRange,
             conns = <<[port |-> q, state |-> "connected", why |-> "none", foreign |-> FALSE]>>,
             connections = [p \in PortRange |-> IF p = q THEN 1 ELSE 0]
      PROVE  ConnectInv
  <2>1. /\ Len(conns) = 1 /\ conns[1].port = q /\ conns[1].state = "connected"
        /\ conns[1].foreign = FALSE
    BY <1>5
  <2>2. conns \in Seq(ConnStates)
    BY <1>5 DEF ConnStates
  <2> QED
    BY <1>1, <1>2, <1>5, <2>1, <2>2, PortNumbers
       DEF ConnectInv, ConnectTyped, Streams, StreamOf, Table, PortsGoUp, PortsDiffer, Aged,
           AgedAlone, OnItsOwn, InTheTable, Held
<1> QED
  BY <1>3, <1>4, <1>5

\* nextSport() returns the next port, or the one after it when the stream of
\* the start still has the next: a port that no other stream has.
LEMMA NextSportFresh ==
  ASSUME ConnectInv, Len(conns) < MaxConns
  PROVE  /\ NextSport \in PortRange /\ connections[NextSport] = 0
         /\ NextSport > sport /\ NextSport <= Len(conns) + 1
         /\ Len(conns) > 0 /\ conns[1].port > NextSport => NextSport < Len(conns) + 1
<1> DEFINE Port(k) == (sport + k) % Ports
           Is(n) == /\ connections[Port(n)] = 0
                    /\ \A m \in 1..(n - 1) : connections[Port(m)] # 0
<1>1. /\ sport \in Nat /\ sport <= Len(conns) /\ Len(conns) \in Nat
      /\ connections \in [PortRange -> 0..MaxConns]
      /\ Len(conns) > 0 => conns[1].port \in Nat
  <2>1. Len(conns) \in Nat /\ sport \in PortRange /\ connections \in [PortRange -> 0..MaxConns]
    BY DEF ConnectInv, ConnectTyped
  <2>2. sport <= Len(conns)
    BY DEF ConnectInv, Streams, PortsGoUp
  <2>3. sport \in Nat
    BY <2>1, PortNumbers
  <2>4. Len(conns) > 0 => conns[1].port \in Nat
    <3>1. ConnectTyped
      BY DEF ConnectInv
    <3>2. \A i \in 1..Len(conns) : conns[i].port \in Nat
      BY ONLY <3>1, ConnectParts
    <3> QED
      BY ONLY <2>1, <3>2
  <2> QED
    BY <2>1, <2>2, <2>3, <2>4
<1>2. sport + 1 <= MaxConns /\ sport + 1 \in PortRange /\ Port(1) = sport + 1
  <2>1. sport + 1 <= MaxConns /\ sport + 1 \in 0..(Ports - 1) /\ Ports \in Nat \ {0}
    BY <1>1, PortNumbers
  <2> QED
    BY <2>1, NoWrap, PortNumbers
<1>3. ASSUME NEW p \in PortRange, p > sport, connections[p] # 0
      PROVE  Len(conns) > 0 /\ conns[1].port = p /\ sport < Len(conns)
  <2>1. connections[p] \in 1..Len(conns) /\ conns[connections[p]].port = p
    BY <1>1, <1>3, PortNumbers DEF ConnectInv, Streams, Table
  <2>2. connections[p] = 1
    <3>1. \A i \in 2..Len(conns) : conns[i].port \in 1..sport
      BY DEF ConnectInv, Streams, PortsGoUp
    <3>2. p \in Nat
      BY PortNumbers
    <3>3. connections[p] \notin 2..Len(conns)
      BY <1>1, <1>3, <2>1, <3>1, <3>2
    <3> QED
      BY <1>1, <2>1, <3>3
  <2> QED
    BY <1>1, <1>3, <2>1, <2>2, PortNumbers DEF ConnectInv, Streams, PortsGoUp
<1>4. CASE connections[sport + 1] = 0
  <2>1. 1 \in 1..Ports /\ Is(1)
    BY <1>2, <1>4, PortNumbers, SMTT(30)
  <2>2. \A n \in 1..Ports : Is(n) => n = 1
    <3> SUFFICES ASSUME NEW n \in 1..Ports, Is(n), n # 1 PROVE FALSE
      OBVIOUS
    <3>1. 1 \in 1..(n - 1)
      BY PortNumbers
    <3> QED
      BY <1>2, <1>4, <3>1
  <2>3. NextSport = sport + 1
    <3> HIDE DEF Is
    <3>1. (CHOOSE n \in 1..Ports : Is(n)) = 1
      BY <2>1, <2>2
    <3> QED
      BY <1>2, <3>1 DEF NextSport, Is
  <2> QED
    BY <1>1, <1>2, <1>4, <2>3, PortNumbers DEF ConnectInv, Streams, PortsGoUp
<1>5. CASE connections[sport + 1] # 0
  <2>1. Len(conns) > 0 /\ conns[1].port = sport + 1 /\ sport < Len(conns)
    BY <1>1, <1>2, <1>3, <1>5
  <2>2. sport + 2 <= MaxConns /\ sport + 2 \in PortRange /\ Port(2) = sport + 2
    <3>1. sport + 2 <= MaxConns /\ sport + 2 \in 0..(Ports - 1) /\ Ports \in Nat \ {0}
      BY <1>1, <2>1, PortNumbers
    <3> QED
      BY <3>1, NoWrap, PortNumbers
  <2>3. connections[sport + 2] = 0
    BY <1>1, <1>3, <2>1, <2>2
  <2>4. 2 \in 1..Ports /\ Is(2)
    BY <1>1, <1>2, <1>5, <2>2, <2>3, PortNumbers, SMTT(30)
  <2>5. \A n \in 1..Ports : Is(n) => n = 2
    <3> SUFFICES ASSUME NEW n \in 1..Ports, Is(n), n # 2 PROVE FALSE
      OBVIOUS
    <3>1. n = 1 \/ 2 \in 1..(n - 1)
      BY PortNumbers
    <3> QED
      BY <1>2, <1>5, <2>2, <2>3, <3>1
  <2>6. NextSport = sport + 2
    <3> HIDE DEF Is
    <3>1. (CHOOSE n \in 1..Ports : Is(n)) = 2
      BY <2>4, <2>5
    <3> QED
      BY <2>2, <3>1 DEF NextSport, Is
  <2> QED
    BY <1>1, <2>1, <2>2, <2>3, <2>6
<1> QED
  BY <1>4, <1>5

\* An attempt makes a stream on a port of its own.
LEMMA AttemptMakes ==
  ASSUME ConnectInv, NEW c \in Callers, NEW n \in 1..ConnAttempts,
         NEW how \in {"direct", "channel"}, Attempt(c, n, how), callers[c].pc # "holds",
         UNCHANGED <<channel, link, syns, framesToHost>>
  PROVE  ConnectInv'
<1>1. PICK q \in PortRange :
        /\ q = NextSport /\ sport' = q /\ connections[q] = 0 /\ q > sport
        /\ q <= Len(conns) + 1 /\ (Len(conns) > 0 /\ conns[1].port > q => q < Len(conns) + 1)
        /\ Len(conns) < MaxConns
  BY NextSportFresh DEF Attempt
<1> DEFINE x == [port |-> q, state |-> "connecting", why |-> "none", foreign |-> FALSE]
           N == Len(conns)
<1>2. /\ x \in ConnStates /\ x.port = q /\ x.state = "connecting" /\ x.foreign = FALSE
      /\ q \in Nat /\ q > 0
  BY <1>1, ConnectParts, PortNumbers DEF ConnStates, ConnectInv
<1>3. conns' = Append(conns, x)
  BY <1>1 DEF Attempt
<1> HIDE DEF x
<1>4. /\ N \in Nat /\ conns' \in Seq(ConnStates) /\ Len(conns') = N + 1
      /\ \A i \in 1..N : conns'[i] = conns[i]
      /\ conns'[N + 1] = x
  BY <1>2, <1>3, AppendProperties DEF ConnectInv, ConnectTyped
<1>5. /\ connections' = [connections EXCEPT ![q] = N + 1]
      /\ callers' = [callers EXCEPT ![c] =
           [pc |-> "syn", how |-> how, attempt |-> n, conn |-> N + 1]]
  BY <1>1, <1>4 DEF Attempt
<1>6. connections \in [PortRange -> 0..MaxConns] /\ callers \in [Callers -> CallerStates]
  BY DEF ConnectInv, ConnectTyped
<1>7. /\ \A i \in 1..N : conns[i].port \in Nat
      /\ \A i \in 2..N : conns[i].port \in 1..sport
      /\ sport \in Nat /\ sport <= N
  BY ConnectParts DEF ConnectInv, Streams, PortsGoUp
<1>8. \A i \in 1..(N + 1) : i \in 1..N \/ i = N + 1
  BY <1>4
<1>9. ConnectTyped'
  <2>1. [pc |-> "syn", how |-> how, attempt |-> n, conn |-> N + 1] \in CallerStates
    BY <1>1, <1>4, PortNumbers DEF CallerStates
  <2>2. callers' \in [Callers -> CallerStates]
    BY <1>5, <1>6, <2>1
  <2>3. connections' \in [PortRange -> 0..MaxConns]
    BY <1>1, <1>4, <1>5, <1>6, PortNumbers
  <2>4. conns' \in Seq(ConnStates) /\ Len(conns') <= MaxConns /\ sport' \in PortRange
    BY <1>1, <1>4, PortNumbers
  <2> QED
    BY <2>2, <2>3, <2>4 DEF ConnectInv, ConnectTyped
<1>10. StreamOf'
  <2>1. \A d \in Callers : callers'[d].conn <= N + 1
    BY <1>4, <1>5, <1>6, ConnectParts DEF ConnectInv, Streams, StreamOf
  <2>2. \A d \in Callers :
          /\ callers'[d].pc \in {"syn", "armed", "sleep", "holds"} => callers'[d].conn # 0
          /\ callers'[d].pc = "sleep" => callers'[d].attempt < ConnAttempts
    BY <1>4, <1>5, <1>6 DEF ConnectInv, Streams, StreamOf
  <2>3. \A m \in 1..Len(syns) : syns[m] <= N + 1
    <3>1. \A m \in 1..Len(syns) : syns[m] \in Nat
      BY PortNumbers, ElementOfSeq, SMTT(30) DEF ConnectInv, ConnectTyped
    <3> QED
      BY <1>4, <3>1 DEF ConnectInv, Streams, StreamOf
  <2>4. ASSUME NEW m \in 1..Len(framesToHost)
        PROVE  /\ framesToHost[m].of <= N + 1
               /\ framesToHost[m].port = conns'[framesToHost[m].of].port
    <3>1. framesToHost[m] \in FrameStates
      BY ElementOfSeq DEF ConnectInv, ConnectTyped
    <3>2. framesToHost[m].of \in 1..N
      BY <1>4, <3>1, PortNumbers DEF ConnectInv, Streams, StreamOf, FrameStates
    <3> QED
      BY <1>4, <3>2 DEF ConnectInv, Streams, StreamOf
  <2> QED
    BY <1>4, <2>1, <2>2, <2>3, <2>4 DEF StreamOf
<1>11. Table'
  <2> SUFFICES ASSUME NEW p \in PortRange, connections'[p] # 0
               PROVE  /\ connections'[p] <= N + 1 /\ conns'[connections'[p]].port = p
                      /\ conns'[connections'[p]].state # "closed"
    BY <1>4 DEF Table
  <2>1. CASE p = q
    BY <1>2, <1>4, <1>5, <1>6, <2>1
  <2>2. CASE p # q
    <3>1. connections'[p] = connections[p] /\ connections[p] \in 1..N
      BY <1>4, <1>5, <1>6, <2>2, PortNumbers DEF ConnectInv, Streams, Table
    <3> QED
      BY <1>4, <2>2, <3>1 DEF ConnectInv, Streams, Table
  <2> QED
    BY <2>1, <2>2
<1>12. PortsGoUp'
  <2>1. \A i \in 2..(N + 1) : conns'[i].port \in 1..q
    BY <1>1, <1>2, <1>4, <1>7, <1>8, SMTT(30)
  <2>2. conns'[1].port > q => q < N + 1
    <3>1. CASE N = 0
      BY <1>2, <1>4, <3>1
    <3>2. CASE N # 0
      BY <1>1, <1>4, <3>2
    <3> QED
      BY <3>1, <3>2
  <2> QED
    BY <1>1, <1>4, <2>1, <2>2 DEF PortsGoUp
<1>13. ASSUME NEW i \in 1..N, conns[i].port = q PROVE i = 1 /\ conns[1].state = "closed"
  <2>1. i = 1
    BY <1>1, <1>2, <1>7, <1>13
  <2>2. conns[1].state # "connected"
    <3>1. 1 \in 1..N /\ conns[1].port = q /\ connections[q] # 1
      BY <1>1, <1>13, <2>1
    <3> QED
      BY <3>1 DEF ConnectInv, Streams, InTheTable
  <2>3. Aged
    <3>1. q \notin 1..sport /\ Len(conns) > 0 /\ conns[1].port = q
      BY <1>1, <1>2, <1>7, <1>13, <2>1
    <3> QED
      BY <3>1 DEF Aged
  <2> QED
    BY <1>4, <2>1, <2>2, <2>3, ConnectParts DEF ConnectInv, Streams, AgedAlone, OnItsOwn
<1>14. PortsDiffer'
  <2> SUFFICES ASSUME NEW i \in 1..(N + 1), NEW j \in 1..(N + 1), i < j,
                      conns'[i].port = conns'[j].port
               PROVE  i = 1 /\ conns'[1].state = "closed"
    BY <1>4 DEF PortsDiffer
  <2>1. i \in 1..N /\ conns'[i] = conns[i]
    BY <1>4
  <2>2. CASE j = N + 1
    BY <1>2, <1>4, <1>13, <2>1, <2>2
  <2>3. CASE j \in 1..N
    BY <1>4, <2>1, <2>3 DEF ConnectInv, Streams, PortsDiffer
  <2> QED
    BY <1>8, <2>2, <2>3
<1>15. AgedAlone'
  <2> SUFFICES ASSUME Aged' PROVE OnItsOwn'
    BY DEF AgedAlone
  <2>1. N > 0
    <3> SUFFICES ASSUME N = 0 PROVE FALSE
      BY <1>4
    <3>1. conns'[1].port = q /\ q \in 1..q
      BY <1>2, <1>4
    <3>2. 2..(N + 1) = {}
      BY <1>4
    <3> QED
      BY <1>1, <1>4, <3>1, <3>2 DEF Aged
  <2>2. Aged
    <3> SUFFICES ASSUME conns[1].port \in 1..sport
                 PROVE  \E j \in 2..N : conns[j].port = conns[1].port
      BY <2>1 DEF Aged
    <3>1. conns'[1].port \in 1..q /\ conns'[1] = conns[1]
      BY <1>1, <1>2, <1>4, <1>7, <2>1
    <3>2. PICK j \in 2..(N + 1) : conns'[j].port = conns'[1].port
      BY <1>1, <1>4, <3>1 DEF Aged
    <3>3. j # N + 1
      BY <1>1, <1>2, <1>4, <1>7, <3>1, <3>2
    <3> QED
      BY <1>4, <3>1, <3>2, <3>3
  <2>3. OnItsOwn
    BY <2>2 DEF ConnectInv, Streams, AgedAlone
  <2>4. \A d \in Callers : callers'[d].conn # 1
    BY <1>4, <1>5, <1>6, <2>1, <2>3 DEF OnItsOwn
  <2> QED
    BY <1>4, <2>1, <2>3, <2>4 DEF OnItsOwn
<1>16. InTheTable'
  <2> SUFFICES ASSUME NEW i \in 1..(N + 1)
               PROVE  /\ ~conns'[i].foreign
                      /\ conns'[i].state = "connected" =>
                           link' = "ours" /\ connections'[conns'[i].port] = i
    BY <1>4 DEF InTheTable
  <2>1. CASE i = N + 1
    BY <1>2, <1>4, <2>1
  <2>2. CASE i \in 1..N
    <3>1. conns[i].state = "connected" => conns[i].port # q
      BY <1>1, <2>2, PortNumbers DEF ConnectInv, Streams, InTheTable
    <3> QED
      BY <1>4, <1>5, <1>6, <2>2, <3>1, ConnectParts DEF ConnectInv, Streams, InTheTable
  <2> QED
    BY <1>8, <2>1, <2>2
<1>17. Held'
  BY <1>5, <1>6 DEF ConnectInv, Held
<1> QED
  BY <1>9, <1>10, <1>11, <1>12, <1>14, <1>15, <1>16, <1>17 DEF ConnectInv, Streams

\* A stream leaves the table: no other does, and a stream that is open stays.
LEMMA GoneFinds ==
  ASSUME ConnectInv, NEW i \in 1..Len(conns), Aged /\ i = 1 => conns[1].state # "closed"
  PROVE  /\ Gone(i) \in [PortRange -> 0..MaxConns]
         /\ \A p \in PortRange : Gone(i)[p] # 0 => Gone(i)[p] = connections[p] /\ connections[p] # i
         /\ \A j \in 1..Len(conns) :
              j # i /\ conns[j].state = "connected" => Gone(i)[conns[j].port] = j
<1>1. /\ connections \in [PortRange -> 0..MaxConns] /\ conns[i].port \in PortRange
      /\ Len(conns) \in Nat
  BY ConnectParts DEF ConnectInv, ConnectTyped
<1>2. Gone(i) = [connections EXCEPT ![conns[i].port] = 0]
  BY DEF Gone
<1>3. Gone(i) \in [PortRange -> 0..MaxConns]
  BY <1>1, <1>2, PortNumbers
<1>4. ASSUME NEW p \in PortRange, Gone(i)[p] # 0
      PROVE  Gone(i)[p] = connections[p] /\ connections[p] # i
  <2>1. p # conns[i].port /\ Gone(i)[p] = connections[p]
    BY <1>1, <1>2, <1>4
  <2> QED
    BY <1>4, <2>1 DEF ConnectInv, Streams, Table
<1>5. ASSUME NEW j \in 1..Len(conns), j # i, conns[j].state = "connected"
      PROVE  Gone(i)[conns[j].port] = j
  <2>1. conns[j].port \in PortRange /\ connections[conns[j].port] = j
    BY <1>5, ConnectParts DEF ConnectInv, Streams, InTheTable
  <2>2. conns[j].port # conns[i].port
    <3> SUFFICES ASSUME conns[j].port = conns[i].port PROVE FALSE
      OBVIOUS
    <3>1. CASE j < i
      BY <1>5, <3>1 DEF ConnectInv, Streams, PortsDiffer
    <3>2. CASE i < j
      <4>1. i = 1 /\ conns[1].state = "closed"
        BY <3>2 DEF ConnectInv, Streams, PortsDiffer
      <4>2. j \in 2..Len(conns) /\ Len(conns) > 0
        BY <1>1, <3>2, <4>1
      <4>3. Aged
        BY <4>1, <4>2 DEF Aged
      <4> QED
        BY <4>1, <4>3
    <3> QED
      BY <1>1, <1>5, <3>1, <3>2
  <2> QED
    BY <1>1, <1>2, <2>1, <2>2
<1> QED
  BY <1>3, <1>4, <1>5

\* A step that makes no stream keeps what the table says of the ports, when
\* no stream comes back and every stream that is open is still found.
LEMMA StreamsMove ==
  ASSUME ConnectInv, ConnectTyped', UNCHANGED sport, Len(conns') = Len(conns),
         \A i \in 1..Len(conns) :
           /\ conns'[i].port = conns[i].port /\ ~conns'[i].foreign
           /\ conns'[i].state = "connecting" => conns[i].state = "connecting"
           /\ conns[i].state = "closed" => conns'[i].state = "closed"
           /\ conns'[i].state = "connected" =>
                link' = "ours" /\ connections'[conns[i].port] = i,
         \A p \in PortRange : connections'[p] # 0 =>
           connections'[p] = connections[p] /\ conns'[connections[p]].state # "closed",
         Aged => OnItsOwn', StreamOf'
  PROVE  Streams'
<1>1. Table'
  <2> SUFFICES ASSUME NEW p \in PortRange, connections'[p] # 0
               PROVE  /\ connections'[p] <= Len(conns') /\ conns'[connections'[p]].port = p
                      /\ conns'[connections'[p]].state # "closed"
    BY DEF Table
  <2>1. connections'[p] = connections[p] /\ conns'[connections[p]].state # "closed"
    OBVIOUS
  <2>2. connections[p] \in 1..Len(conns) /\ conns[connections[p]].port = p
    <3>1. connections[p] \in 0..MaxConns /\ connections[p] # 0
      BY <2>1, PortNumbers DEF ConnectInv, ConnectTyped
    <3>2. connections[p] <= Len(conns) /\ conns[connections[p]].port = p
      BY <3>1 DEF ConnectInv, Streams, Table
    <3> QED
      BY <3>1, <3>2, PortNumbers DEF ConnectInv, ConnectTyped
  <2> QED
    BY <2>1, <2>2
<1>2. Len(conns) \in Nat
  BY DEF ConnectInv, ConnectTyped
<1>3. PortsGoUp'
  <2>1. \A i \in 2..Len(conns) : i \in 1..Len(conns)
    OBVIOUS
  <2>2. Len(conns) > 0 => 1 \in 1..Len(conns)
    BY <1>2
  <2> QED
    BY <2>1, <2>2 DEF ConnectInv, Streams, PortsGoUp
<1>4. PortsDiffer'
  <2> SUFFICES ASSUME NEW i \in 1..Len(conns), NEW j \in 1..Len(conns), i < j,
                      conns'[i].port = conns'[j].port
               PROVE  i = 1 /\ conns'[1].state = "closed"
    BY DEF PortsDiffer
  <2>1. i = 1 /\ conns[1].state = "closed"
    BY DEF ConnectInv, Streams, PortsDiffer
  <2> QED
    BY <2>1
<1>5. Aged' => Aged
  <2> SUFFICES ASSUME Aged' PROVE Aged
    OBVIOUS
  <2>1. Len(conns) > 0 /\ 1 \in 1..Len(conns)
    BY <1>2 DEF Aged
  <2>2. conns'[1].port = conns[1].port /\ \A j \in 2..Len(conns) : conns'[j].port = conns[j].port
    BY <2>1
  <2> QED
    BY <2>1, <2>2 DEF Aged
<1>6. AgedAlone'
  BY <1>5 DEF AgedAlone
<1>7. InTheTable'
  BY DEF InTheTable
<1> QED
  BY <1>1, <1>3, <1>4, <1>6, <1>7 DEF Streams

\* What a caller does next, with the stream it has.
LEMMA CallerGoes ==
  ASSUME ConnectTyped, NEW c \in Callers,
         NEW pc \in {"idle", "syn", "armed", "sleep", "holds", "failed"},
         callers' = [callers EXCEPT ![c].pc = pc]
  PROVE  /\ callers' \in [Callers -> CallerStates] /\ callers'[c].pc = pc
         /\ \A d \in Callers :
              /\ callers'[d].conn = callers[d].conn /\ callers'[d].how = callers[d].how
              /\ callers'[d].attempt = callers[d].attempt
              /\ d # c => callers'[d].pc = callers[d].pc
BY DEF ConnectTyped, CallerStates

\* Callers that keep the streams they have, or rest, name streams that exist.
LEMMA CallersKeep ==
  ASSUME ConnectInv, Len(conns') = Len(conns),
         \A i \in 1..Len(conns) : conns'[i].port = conns[i].port,
         \A d \in Callers :
           \/ /\ callers'[d].conn = callers[d].conn /\ callers'[d].attempt = callers[d].attempt
              /\ \/ callers'[d].pc = callers[d].pc \/ callers'[d].pc = "failed"
                 \/ callers[d].pc \in {"syn", "armed", "sleep", "holds"}
              /\ callers'[d].pc = "sleep" =>
                   callers[d].pc = "sleep" \/ callers[d].attempt < ConnAttempts
           \/ callers'[d] = Resting,
         \A n \in 1..Len(syns') : syns'[n] <= Len(conns),
         \A n \in 1..Len(framesToHost') :
           /\ framesToHost'[n].of \in 1..Len(conns)
           /\ framesToHost'[n].port = conns[framesToHost'[n].of].port
  PROVE  StreamOf' /\ \A d \in Callers : callers'[d].conn \in {callers[d].conn, 0}
<1>1. Len(conns) \in Nat /\ Resting.conn = 0 /\ Resting.pc = "idle"
  BY DEF ConnectInv, ConnectTyped, Resting
<1>2. ASSUME NEW d \in Callers
      PROVE  /\ callers'[d].conn <= Len(conns) /\ callers'[d].conn \in {callers[d].conn, 0}
             /\ callers'[d].pc \in {"syn", "armed", "sleep", "holds"} => callers'[d].conn # 0
             /\ callers'[d].pc = "sleep" => callers'[d].attempt < ConnAttempts
  <2>1. /\ callers[d].conn <= Len(conns)
        /\ callers[d].pc \in {"syn", "armed", "sleep", "holds"} => callers[d].conn # 0
        /\ callers[d].pc = "sleep" => callers[d].attempt < ConnAttempts
    BY DEF ConnectInv, Streams, StreamOf
  <2>2. CASE callers'[d] = Resting
    BY <1>1, <2>2
  <2>3. CASE callers'[d] # Resting
    BY <2>1, <2>3
  <2> QED
    BY <2>2, <2>3
<1> QED
  BY <1>2 DEF StreamOf

\* A frame on its way is of a stream that was made, and has its port.
LEMMA FramesNamed ==
  ASSUME ConnectInv
  PROVE  \A n \in 1..Len(framesToHost) :
           /\ framesToHost[n].of \in 1..Len(conns)
           /\ framesToHost[n].port = conns[framesToHost[n].of].port
<1> TAKE n \in 1..Len(framesToHost)
<1>1. framesToHost[n].of \in 1..MaxConns
  <2>1. framesToHost[n] \in FrameStates
    BY ElementOfSeq DEF ConnectInv, ConnectTyped
  <2> QED
    BY <2>1 DEF FrameStates
<1>2. /\ framesToHost[n].of <= Len(conns)
      /\ framesToHost[n].port = conns[framesToHost[n].of].port
  BY DEF ConnectInv, Streams, StreamOf
<1>3. Len(conns) \in Nat
  BY DEF ConnectInv, ConnectTyped
<1> QED
  BY <1>1, <1>2, <1>3, PortNumbers

\* What rests in the queues when nothing or the first frame is taken.
LEMMA FramesRest ==
  ASSUME ConnectInv,
         \/ framesToHost' = framesToHost
         \/ framesToHost # <<>> /\ framesToHost' = Tail(framesToHost)
  PROVE  /\ framesToHost' \in Seq(FrameStates)
         /\ \A n \in 1..Len(framesToHost') :
              /\ framesToHost'[n].of \in 1..Len(conns)
              /\ framesToHost'[n].port = conns[framesToHost'[n].of].port
         /\ Aged => \A m, n \in 1..Len(framesToHost') :
              m < n /\ framesToHost'[m].kind = "rst" /\ framesToHost'[m].of = 1 =>
                framesToHost'[n].of # 1
         /\ (\A n \in 1..Len(framesToHost) : framesToHost[n].of # 1) =>
              \A n \in 1..Len(framesToHost') : framesToHost'[n].of # 1
<1>1. framesToHost \in Seq(FrameStates) /\ Len(framesToHost) \in Nat
  BY DEF ConnectInv, ConnectTyped
<1>2. \A n \in 1..Len(framesToHost) :
        framesToHost[n].of \in 1..Len(conns) /\ framesToHost[n].port = conns[framesToHost[n].of].port
  BY FramesNamed
<1>3. Aged => \A m, n \in 1..Len(framesToHost) :
        m < n /\ framesToHost[m].kind = "rst" /\ framesToHost[m].of = 1 =>
          framesToHost[n].of # 1
  BY DEF ConnectInv, Streams, AgedAlone, OnItsOwn
<1>4. CASE framesToHost' = framesToHost
  BY <1>1, <1>2, <1>3, <1>4
<1>5. CASE framesToHost # <<>> /\ framesToHost' = Tail(framesToHost)
  <2>1. /\ framesToHost' \in Seq(FrameStates) /\ Len(framesToHost') = Len(framesToHost) - 1
        /\ \A n \in 1..Len(framesToHost') :
             n + 1 \in 1..Len(framesToHost) /\ framesToHost'[n] = framesToHost[n + 1]
    <3>1. /\ Tail(framesToHost) \in Seq(FrameStates)
          /\ Len(Tail(framesToHost)) = Len(framesToHost) - 1
          /\ \A n \in 1..Len(Tail(framesToHost)) :
               Tail(framesToHost)[n] = framesToHost[n + 1]
      BY <1>1, <1>5, HeadTailProperties
    <3>2. \A k \in Nat : \A n \in 1..(k - 1) : n + 1 \in 1..k
      OBVIOUS
    <3>3. \A n \in 1..(Len(framesToHost) - 1) : n + 1 \in 1..Len(framesToHost)
      BY <1>1, <3>2
    <3> QED
      BY <1>5, <3>1, <3>3
  <2>2. \A n \in 1..Len(framesToHost') :
          /\ framesToHost'[n].of \in 1..Len(conns)
          /\ framesToHost'[n].port = conns[framesToHost'[n].of].port
    BY <1>2, <2>1
  <2>3. Aged => \A m, n \in 1..Len(framesToHost') :
          m < n /\ framesToHost'[m].kind = "rst" /\ framesToHost'[m].of = 1 =>
            framesToHost'[n].of # 1
    <3> SUFFICES ASSUME Aged, NEW m \in 1..Len(framesToHost'), NEW n \in 1..Len(framesToHost'),
                        m < n, framesToHost'[m].kind = "rst", framesToHost'[m].of = 1
                 PROVE  framesToHost'[n].of # 1
      OBVIOUS
    <3>1. m + 1 \in 1..Len(framesToHost) /\ n + 1 \in 1..Len(framesToHost)
      BY <2>1
    <3>2. m + 1 < n + 1
      BY ONLY m < n, m \in 1..Len(framesToHost'), n \in 1..Len(framesToHost')
    <3> QED
      BY <1>3, <2>1, <3>1, <3>2
  <2> QED
    BY <2>1, <2>2, <2>3
<1> QED
  BY <1>4, <1>5

\* open() fails, or its SYN is written.
LEMMA SynKeeps ==
  ASSUME ConnectInv, NEW c \in Callers, SynWritten(c)
  PROVE  ConnectInv'
<1> DEFINE i == callers[c].conn
<1>1. /\ UNCHANGED <<conns, connections, sport, channel, link, framesToHost>>
      /\ callers[c].pc = "syn" /\ syns' \in {syns, Append(syns, i)}
  BY DEF SynWritten
<1>2. PICK pc \in {"armed", "failed"} : callers' = [callers EXCEPT ![c].pc = pc]
  BY DEF SynWritten, ConnectRejected
<1>3. /\ callers' \in [Callers -> CallerStates] /\ callers'[c].pc = pc
      /\ \A d \in Callers :
           /\ callers'[d].conn = callers[d].conn /\ callers'[d].how = callers[d].how
           /\ callers'[d].attempt = callers[d].attempt
           /\ d # c => callers'[d].pc = callers[d].pc
  BY <1>2, CallerGoes DEF ConnectInv
<1>4. i \in 1..Len(conns) /\ i \in 1..MaxConns /\ (Aged => i # 1)
  BY <1>1, ConnectParts, PortNumbers
     DEF ConnectInv, ConnectTyped, Streams, StreamOf, AgedAlone, OnItsOwn
<1> HIDE DEF i
<1>5. /\ syns' \in Seq(1..MaxConns)
      /\ \A n \in 1..Len(syns') : syns'[n] = i \/ \E m \in 1..Len(syns) : syns'[n] = syns[m]
  <2>1. syns \in Seq(1..MaxConns)
    BY DEF ConnectInv, ConnectTyped
  <2>2. CASE syns' = syns
    BY <2>1, <2>2
  <2>3. CASE syns' = Append(syns, i)
    BY <1>4, <2>1, <2>3, AppendProperties
  <2> QED
    BY <1>1, <2>2, <2>3
<1>6. ConnectTyped'
  BY <1>1, <1>3, <1>5 DEF ConnectInv, ConnectTyped
<1>7. \A n \in 1..Len(syns') : syns'[n] <= Len(conns) /\ (Aged => syns'[n] # 1)
  <2> TAKE n \in 1..Len(syns')
  <2>1. \A m \in 1..Len(syns) : syns[m] <= Len(conns) /\ (Aged => syns[m] # 1)
    BY DEF ConnectInv, Streams, StreamOf, AgedAlone, OnItsOwn
  <2>2. CASE syns'[n] = i
    BY <1>4, <2>2
  <2>3. CASE \E m \in 1..Len(syns) : syns'[n] = syns[m]
    BY <2>1, <2>3
  <2> QED
    BY <1>5, <2>2, <2>3
<1>8. StreamOf' /\ \A d \in Callers : callers'[d].conn \in {callers[d].conn, 0}
  <2>1. \A n \in 1..Len(framesToHost') :
          /\ framesToHost'[n].of \in 1..Len(conns)
          /\ framesToHost'[n].port = conns[framesToHost'[n].of].port
    BY <1>1, FramesRest
  <2>2. \A d \in Callers :
          /\ callers'[d].conn = callers[d].conn /\ callers'[d].attempt = callers[d].attempt
          /\ \/ callers'[d].pc = callers[d].pc \/ callers'[d].pc = "failed"
             \/ callers[d].pc \in {"syn", "armed", "sleep", "holds"}
          /\ callers'[d].pc = "sleep" =>
               callers[d].pc = "sleep" \/ callers[d].attempt < ConnAttempts
    BY <1>1, <1>2, <1>3
  <2> QED
    BY <1>1, <1>7, <2>1, <2>2, CallersKeep
<1>9. Aged => OnItsOwn'
  BY <1>1, <1>3, <1>7 DEF ConnectInv, Streams, AgedAlone, OnItsOwn
<1>10. Streams'
  BY <1>1, <1>6, <1>8, <1>9, StreamsMove DEF ConnectInv, Streams, InTheTable, Table
<1>11. Held'
  BY <1>1, <1>3 DEF ConnectInv, Held
<1> QED
  BY <1>6, <1>10, <1>11 DEF ConnectInv

\* One stream is changed: its port is not, and no other stream is.
LEMMA StreamChanges ==
  ASSUME ConnectTyped, NEW i \in 1..Len(conns), NEW y \in ConnStates, y.port = conns[i].port,
         conns' = [conns EXCEPT ![i] = y]
  PROVE  /\ conns' \in Seq(ConnStates) /\ Len(conns') = Len(conns) /\ conns'[i] = y
         /\ \A j \in 1..Len(conns) :
              conns'[j].port = conns[j].port /\ (j # i => conns'[j] = conns[j])
<1>1. conns \in Seq(ConnStates)
  BY DEF ConnectTyped
<1>2. /\ conns' \in Seq(ConnStates) /\ Len(conns') = Len(conns) /\ conns'[i] = y
      /\ \A j \in 1..Len(conns) : j # i => conns'[j] = conns[j]
  BY <1>1, ExceptSeq
<1> QED
  BY <1>2

\* A stream that is closed for some reason.
LEMMA StreamCloses ==
  ASSUME ConnectTyped, NEW i \in 1..Len(conns), NEW why \in {"timeout", "closed"},
         conns' = [conns EXCEPT ![i].state = "closed", ![i].why = why]
  PROVE  /\ conns' \in Seq(ConnStates) /\ Len(conns') = Len(conns)
         /\ conns'[i].state = "closed" /\ conns'[i].foreign = conns[i].foreign
         /\ \A j \in 1..Len(conns) :
              conns'[j].port = conns[j].port /\ (j # i => conns'[j] = conns[j])
<1> DEFINE y == [conns[i] EXCEPT !.state = "closed", !.why = why]
<1>1. conns[i] \in ConnStates /\ conns \in Seq(ConnStates)
  BY ConnectParts DEF ConnectTyped
<1>2. /\ y \in ConnStates /\ y.port = conns[i].port /\ y.state = "closed"
      /\ y.foreign = conns[i].foreign
  BY <1>1 DEF ConnStates
<1>3. conns' = [conns EXCEPT ![i] = y]
  BY <1>1
<1> HIDE DEF y
<1> QED
  BY <1>2, <1>3, StreamChanges

\* A stream of a caller fails, times out or is closed.
LEMMA GoneKeeps ==
  ASSUME ConnectInv, NEW i \in 1..Len(conns), Aged => i # 1,
         \/ conns' = conns /\ conns[i].state # "connected"
         \/ \E why \in {"timeout", "closed"} :
              conns' = [conns EXCEPT ![i].state = "closed", ![i].why = why],
         connections' = Gone(i), UNCHANGED <<sport, link, syns, framesToHost>>,
         callers' \in [Callers -> CallerStates], channel' \in {channel, 0},
         \A d \in Callers :
           \/ /\ callers'[d].conn = callers[d].conn /\ callers'[d].attempt = callers[d].attempt
              /\ \/ callers'[d].pc = callers[d].pc \/ callers'[d].pc = "failed"
                 \/ callers[d].pc \in {"syn", "armed", "sleep", "holds"}
              /\ callers'[d].pc = "sleep" =>
                   callers[d].pc = "sleep" \/ callers[d].attempt < ConnAttempts
           \/ callers'[d] = Resting
  PROVE  ConnectTyped' /\ Streams'
<1>1. /\ conns' \in Seq(ConnStates) /\ Len(conns') = Len(conns) /\ conns'[i].state # "connected"
      /\ conns'[i].state = "connecting" => conns[i].state = "connecting"
      /\ conns[i].state = "closed" => conns'[i].state = "closed"
      /\ conns'[i].foreign = conns[i].foreign
      /\ \A j \in 1..Len(conns) :
           conns'[j].port = conns[j].port /\ (j # i => conns'[j] = conns[j])
  <2>1. CASE conns' = conns /\ conns[i].state # "connected"
    BY <2>1 DEF ConnectInv, ConnectTyped
  <2>2. CASE \E why \in {"timeout", "closed"} :
               conns' = [conns EXCEPT ![i].state = "closed", ![i].why = why]
    BY <2>2, StreamCloses DEF ConnectInv
  <2> QED
    BY <2>1, <2>2
<1>2. /\ connections' \in [PortRange -> 0..MaxConns]
      /\ \A p \in PortRange : connections'[p] # 0 =>
           connections'[p] = connections[p] /\ connections[p] # i
      /\ \A j \in 1..Len(conns) :
           j # i /\ conns[j].state = "connected" => connections'[conns[j].port] = j
  BY GoneFinds
<1>3. ConnectTyped'
  BY <1>1, <1>2, PortNumbers, SMTT(30) DEF ConnectInv, ConnectTyped
<1>4. \A n \in 1..Len(framesToHost') :
        /\ framesToHost'[n].of \in 1..Len(conns)
        /\ framesToHost'[n].port = conns[framesToHost'[n].of].port
  BY FramesRest
<1>5. \A n \in 1..Len(syns') : syns'[n] <= Len(conns)
  BY DEF ConnectInv, Streams, StreamOf
<1>6. StreamOf' /\ \A d \in Callers : callers'[d].conn \in {callers[d].conn, 0}
  BY <1>1, <1>4, <1>5, CallersKeep
<1>7. Aged => OnItsOwn'
  <2> SUFFICES ASSUME Aged PROVE OnItsOwn'
    OBVIOUS
  <2>1. OnItsOwn /\ i # 1 /\ 1 \in 1..Len(conns)
    BY DEF ConnectInv, ConnectTyped, Streams, AgedAlone, Aged
  <2> QED
    BY <1>1, <1>6, <2>1 DEF OnItsOwn
<1>8. \A j \in 1..Len(conns) :
        /\ conns'[j].port = conns[j].port /\ ~conns'[j].foreign
        /\ conns'[j].state = "connecting" => conns[j].state = "connecting"
        /\ conns[j].state = "closed" => conns'[j].state = "closed"
        /\ conns'[j].state = "connected" =>
             link' = "ours" /\ connections'[conns[j].port] = j
  <2> TAKE j \in 1..Len(conns)
  <2>1. ~conns[j].foreign /\ (conns[j].state = "connected" => link = "ours")
    BY DEF ConnectInv, Streams, InTheTable
  <2>2. CASE j = i
    BY <1>1, <2>1, <2>2
  <2>3. CASE j # i
    BY <1>1, <1>2, <2>1, <2>3
  <2> QED
    BY <2>2, <2>3
<1>9. \A p \in PortRange : connections'[p] # 0 =>
        connections'[p] = connections[p] /\ conns'[connections[p]].state # "closed"
  <2> SUFFICES ASSUME NEW p \in PortRange, connections'[p] # 0
               PROVE  conns'[connections[p]].state # "closed"
    BY <1>2
  <2>1. connections[p] # i /\ connections[p] # 0 /\ connections[p] \in 0..MaxConns
    BY <1>2 DEF ConnectInv, ConnectTyped
  <2>2. connections[p] <= Len(conns) /\ conns[connections[p]].state # "closed"
    BY <2>1 DEF ConnectInv, Streams, Table
  <2>3. connections[p] \in 1..Len(conns)
    BY <2>1, <2>2, PortNumbers DEF ConnectInv, ConnectTyped
  <2> QED
    BY <1>1, <2>1, <2>2, <2>3
<1> QED
  BY <1>1, <1>3, <1>6, <1>7, <1>8, <1>9, StreamsMove

\* The SYN's write fails, or the timer of the attempt fires.
LEMMA OpenFails ==
  ASSUME ConnectInv, NEW c \in Callers, SynFails(c) \/ ConnectTimeout(c)
  PROVE  ConnectInv'
<1> DEFINE i == callers[c].conn
<1>1. /\ callers[c].pc \in {"syn", "armed"} /\ UNCHANGED <<sport, channel, link, syns, framesToHost>>
      /\ connections' = Gone(i)
  BY DEF SynFails, ConnectTimeout
<1>2. i \in 1..Len(conns) /\ (Aged => i # 1)
  BY <1>1, ConnectParts, PortNumbers DEF ConnectInv, Streams, StreamOf, AgedAlone, OnItsOwn
<1>3. PICK pc \in {"sleep", "failed"} :
        /\ callers' = [callers EXCEPT ![c].pc = pc]
        /\ pc = "sleep" => callers[c].attempt < ConnAttempts
  BY DEF SynFails, ConnectTimeout, ConnectRejected
<1>4. /\ callers' \in [Callers -> CallerStates] /\ callers'[c].pc = pc
      /\ \A d \in Callers :
           /\ callers'[d].conn = callers[d].conn /\ callers'[d].how = callers[d].how
           /\ callers'[d].attempt = callers[d].attempt
           /\ d # c => callers'[d].pc = callers[d].pc
  BY <1>3, CallerGoes DEF ConnectInv
<1>5. \/ conns' = conns /\ conns[i].state # "connected"
      \/ \E why \in {"timeout", "closed"} :
           conns' = [conns EXCEPT ![i].state = "closed", ![i].why = why]
  BY <1>2 DEF SynFails, ConnectTimeout, ConnectInv, Streams, InTheTable
<1>6. \A d \in Callers :
        /\ callers'[d].conn = callers[d].conn /\ callers'[d].attempt = callers[d].attempt
        /\ \/ callers'[d].pc = callers[d].pc \/ callers'[d].pc = "failed"
           \/ callers[d].pc \in {"syn", "armed", "sleep", "holds"}
        /\ callers'[d].pc = "sleep" =>
             callers[d].pc = "sleep" \/ callers[d].attempt < ConnAttempts
  BY <1>1, <1>3, <1>4
<1> HIDE DEF i
<1>7. ConnectTyped' /\ Streams'
  BY <1>1, <1>2, <1>4, <1>5, <1>6, GoneKeeps
<1>8. Held'
  BY <1>1, <1>4 DEF ConnectInv, Held
<1> QED
  BY <1>7, <1>8 DEF ConnectInv

\* The caller closes its stream, and gives the channel back when it is one.
LEMMA CloseStreamKeeps ==
  ASSUME ConnectInv, NEW c \in Callers, CloseStream(c)
  PROVE  ConnectInv'
<1> DEFINE i == callers[c].conn
<1>1. /\ callers[c].pc = "holds" /\ UNCHANGED <<sport, link, syns, framesToHost>>
      /\ callers' = [callers EXCEPT ![c] = Resting]
      /\ channel' = IF callers[c].how = "channel" THEN Release(i) ELSE channel
  BY DEF CloseStream
<1>2. i \in 1..Len(conns) /\ (Aged => i # 1)
  BY <1>1, ConnectParts, PortNumbers DEF ConnectInv, Streams, StreamOf, AgedAlone, OnItsOwn
<1>3. /\ callers' \in [Callers -> CallerStates] /\ callers'[c] = Resting
      /\ \A d \in Callers : d # c => callers'[d] = callers[d]
  <2>1. Resting \in CallerStates
    BY PortNumbers DEF Resting, CallerStates
  <2>2. callers \in [Callers -> CallerStates]
    BY DEF ConnectInv, ConnectTyped
  <2> QED
    BY <1>1, <2>1, <2>2
<1>4. channel' \in {channel, 0} /\ (channel = i /\ callers[c].how = "channel" => channel' = 0)
  BY <1>1 DEF Release
<1>5. \A d \in Callers :
        \/ /\ callers'[d].conn = callers[d].conn /\ callers'[d].attempt = callers[d].attempt
           /\ \/ callers'[d].pc = callers[d].pc \/ callers'[d].pc = "failed"
              \/ callers[d].pc \in {"syn", "armed", "sleep", "holds"}
           /\ callers'[d].pc = "sleep" =>
                callers[d].pc = "sleep" \/ callers[d].attempt < ConnAttempts
        \/ callers'[d] = Resting
  BY <1>3
<1>6. Held'
  <2> SUFFICES ASSUME channel' # 0
               PROVE  \E d \in Callers : /\ callers'[d].pc = "holds" /\ callers'[d].conn = channel'
                                         /\ callers'[d].how = "channel"
    BY DEF Held
  <2>1. channel' = channel /\ channel # 0
    BY <1>4
  <2>2. PICK d \in Callers : /\ callers[d].pc = "holds" /\ callers[d].conn = channel
                             /\ callers[d].how = "channel"
    BY <2>1 DEF ConnectInv, Held
  <2>3. d # c
    BY <1>4, <2>1, <2>2
  <2> QED
    BY <1>3, <2>1, <2>2, <2>3
<1>7. CASE conns[i].state = "connected"
  <2>1. connections' = Gone(i)
        /\ \E why \in {"timeout", "closed"} :
             conns' = [conns EXCEPT ![i].state = "closed", ![i].why = why]
    BY <1>7 DEF CloseStream
  <2> HIDE DEF i
  <2>2. ConnectTyped' /\ Streams'
    BY <1>1, <1>2, <1>3, <1>4, <1>5, <2>1, GoneKeeps
  <2> QED
    BY <1>6, <2>2 DEF ConnectInv
<1>8. CASE conns[i].state # "connected"
  <2>1. UNCHANGED <<conns, connections>>
    BY <1>8 DEF CloseStream
  <2> HIDE DEF i
  <2>2. ConnectTyped'
    <3>1. channel' \in 0..MaxConns
      BY <1>4, PortNumbers DEF ConnectInv, ConnectTyped
    <3>2. conns' \in Seq(ConnStates) /\ Len(conns') <= MaxConns
      BY <2>1 DEF ConnectInv, ConnectTyped
    <3> QED
      BY <1>1, <1>3, <2>1, <3>1, <3>2 DEF ConnectInv, ConnectTyped
  <2>3. \A n \in 1..Len(framesToHost') :
          /\ framesToHost'[n].of \in 1..Len(conns)
          /\ framesToHost'[n].port = conns[framesToHost'[n].of].port
    BY <1>1, FramesRest
  <2>4. \A n \in 1..Len(syns') : syns'[n] <= Len(conns)
    BY <1>1 DEF ConnectInv, Streams, StreamOf
  <2>5. StreamOf' /\ \A d \in Callers : callers'[d].conn \in {callers[d].conn, 0}
    BY <1>5, <2>1, <2>3, <2>4, CallersKeep
  <2>6. Aged => OnItsOwn'
    BY <1>1, <2>1, <2>5 DEF ConnectInv, Streams, AgedAlone, OnItsOwn
  <2>7. Streams'
    BY <1>1, <2>1, <2>2, <2>5, <2>6, StreamsMove DEF ConnectInv, Streams, InTheTable, Table
  <2> QED
    BY <1>6, <2>2, <2>7 DEF ConnectInv
<1> QED
  BY <1>7, <1>8

\* The device's frames: an old stream's RST is its last.
LEMMA DeviceFrames ==
  ASSUME ConnectInv, PortAnswer \/ DeviceSends
  PROVE  ConnectInv'
<1>1. UNCHANGED <<callers, conns, connections, sport, channel, link>>
  BY DEF PortAnswer, DeviceSends
<1>2. syns' \in Seq(1..MaxConns) /\ \A n \in 1..Len(syns') : \E m \in 1..Len(syns) : syns'[n] = syns[m]
  <2>1. syns \in Seq(1..MaxConns)
    BY DEF ConnectInv, ConnectTyped
  <2>2. CASE syns' = syns
    BY <2>1, <2>2
  <2>3. CASE syns # <<>> /\ syns' = Tail(syns)
    <3>1. /\ Tail(syns) \in Seq(1..MaxConns) /\ Len(Tail(syns)) = Len(syns) - 1
          /\ \A n \in 1..Len(Tail(syns)) : Tail(syns)[n] = syns[n + 1]
      BY <2>1, <2>3, HeadTailProperties
    <3>2. \A k \in Nat : \A n \in 1..(k - 1) : n + 1 \in 1..k
      OBVIOUS
    <3>3. \A n \in 1..(Len(syns) - 1) : n + 1 \in 1..Len(syns)
      BY <2>1, <3>2
    <3> QED
      BY <2>3, <3>1, <3>3
  <2> QED
    BY <2>2, <2>3 DEF PortAnswer, DeviceSends
<1>3. \A n \in 1..Len(syns') : syns'[n] <= Len(conns) /\ (Aged => syns'[n] # 1)
  <2> TAKE n \in 1..Len(syns')
  <2>1. \A m \in 1..Len(syns) : syns[m] <= Len(conns) /\ (Aged => syns[m] # 1)
    BY DEF ConnectInv, Streams, StreamOf, AgedAlone, OnItsOwn
  <2> QED
    BY <1>2, <2>1
<1>4. \/ UNCHANGED framesToHost
      \/ \E i \in 1..Len(conns), kind \in {"synack", "data", "rst"} :
           /\ framesToHost' = Append(framesToHost, Frame(kind, i))
           /\ Aged /\ i = 1 =>
                /\ conns[1].state = "connected"
                /\ \A n \in 1..Len(framesToHost) : framesToHost[n] # Frame("rst", i)
  <2>1. Len(conns) \in Nat /\ syns \in Seq(1..MaxConns)
        /\ DOMAIN conns = 1..Len(conns) /\ DOMAIN framesToHost = 1..Len(framesToHost)
    BY LenProperties DEF ConnectInv, ConnectTyped
  <2>2. CASE DeviceSends
    <3>1. PICK i \in DOMAIN conns, kind \in {"data", "rst"} :
            /\ conns[i].state = "connected"
            /\ \A n \in DOMAIN framesToHost : framesToHost[n] # Frame("rst", i)
            /\ framesToHost' = Append(framesToHost, Frame(kind, i))
      BY <2>2 DEF DeviceSends
    <3>2. i \in 1..Len(conns) /\ kind \in {"synack", "data", "rst"}
          /\ \A n \in 1..Len(framesToHost) : framesToHost[n] # Frame("rst", i)
      BY <2>1, <3>1
    <3> QED
      BY <3>1, <3>2
  <2>3. CASE PortAnswer
    <3>1. Head(syns) = syns[1] /\ syns[1] \in 1..MaxConns /\ 1 \in 1..Len(syns)
      <4>1. syns # <<>> /\ Len(syns) \in Nat /\ (syns = <<>> <=> Len(syns) = 0)
        BY <2>1, <2>3, EmptySeq DEF PortAnswer
      <4>2. 1 \in 1..Len(syns)
        BY <4>1
      <4>3. Head(syns) = syns[1]
        BY <2>1, <4>1
      <4>4. syns[1] \in 1..MaxConns
        BY <2>1, <4>2, ElementOfSeq
      <4> QED
        BY <4>2, <4>3, <4>4
    <3>2. Head(syns) \in 1..Len(conns) /\ (Aged => Head(syns) # 1)
      BY <2>1, <3>1, PortNumbers DEF ConnectInv, Streams, StreamOf, AgedAlone, OnItsOwn
    <3> QED
      BY <2>3, <3>2 DEF PortAnswer
  <2> QED
    BY <2>2, <2>3
<1>5. ASSUME framesToHost' \in Seq(FrameStates),
             \A n \in 1..Len(framesToHost') :
               /\ framesToHost'[n].of \in 1..Len(conns)
               /\ framesToHost'[n].port = conns[framesToHost'[n].of].port,
             Aged => OnItsOwn'
      PROVE  ConnectInv'
  <2>1. ConnectTyped'
    BY <1>1, <1>2, <1>5 DEF ConnectInv, ConnectTyped
  <2>2. StreamOf'
    <3>1. StreamOf
      BY DEF ConnectInv, Streams
    <3>2. \A n \in 1..Len(syns') : syns'[n] <= Len(conns)
      BY <1>3
    <3>3. \A n \in 1..Len(framesToHost') :
            /\ framesToHost'[n].of <= Len(conns)
            /\ framesToHost'[n].port = conns[framesToHost'[n].of].port
      BY <1>5
    <3> QED
      BY <1>1, <3>1, <3>2, <3>3 DEF StreamOf
  <2>3. Streams'
    BY <1>1, <1>5, <2>1, <2>2, StreamsMove DEF ConnectInv, Streams, InTheTable, Table
  <2> QED
    BY <1>1, <2>1, <2>3 DEF ConnectInv, Held
<1>6. CASE UNCHANGED framesToHost
  <2>1. Aged => OnItsOwn'
    BY <1>1, <1>3, <1>6 DEF ConnectInv, Streams, AgedAlone, OnItsOwn
  <2>2. /\ framesToHost' \in Seq(FrameStates)
        /\ \A n \in 1..Len(framesToHost') :
             /\ framesToHost'[n].of \in 1..Len(conns)
             /\ framesToHost'[n].port = conns[framesToHost'[n].of].port
    BY <1>6, FramesRest
  <2> QED
    BY <1>5, <2>1, <2>2
<1>7. ASSUME NEW i \in 1..Len(conns), NEW kind \in {"synack", "data", "rst"},
             framesToHost' = Append(framesToHost, Frame(kind, i)),
             Aged /\ i = 1 =>
               /\ conns[1].state = "connected"
               /\ \A n \in 1..Len(framesToHost) : framesToHost[n] # Frame("rst", i)
      PROVE  ConnectInv'
  <2> DEFINE f == Frame(kind, i)
             N == Len(framesToHost)
  <2>1. /\ f \in FrameStates /\ f.of = i /\ f.kind = kind /\ f.port = conns[i].port
    BY ConnectParts, PortNumbers DEF ConnectInv, ConnectTyped, Frame, FrameStates
  <2>2. framesToHost \in Seq(FrameStates) /\ N \in Nat
    BY DEF ConnectInv, ConnectTyped
  <2> HIDE DEF f
  <2>3. /\ framesToHost' \in Seq(FrameStates) /\ Len(framesToHost') = N + 1
        /\ framesToHost'[N + 1] = f /\ \A n \in 1..N : framesToHost'[n] = framesToHost[n]
    BY <1>7, <2>1, <2>2, AppendProperties DEF f
  <2>4. \A n \in 1..(N + 1) : n \in 1..N \/ n = N + 1
    BY <2>2
  <2>5. \A n \in 1..N :
          /\ framesToHost[n].of \in 1..Len(conns)
          /\ framesToHost[n].port = conns[framesToHost[n].of].port
    BY FramesNamed
  <2>6. \A n \in 1..(N + 1) :
          /\ framesToHost'[n].of \in 1..Len(conns)
          /\ framesToHost'[n].port = conns[framesToHost'[n].of].port
    BY <2>1, <2>3, <2>4, <2>5
  <2>7. ASSUME Aged PROVE OnItsOwn'
    <3>1. OnItsOwn
      BY <2>7 DEF ConnectInv, Streams, AgedAlone
    <3>2. conns[1].state = "closed" => \A n \in 1..(N + 1) : framesToHost'[n].of # 1
      BY <1>7, <2>1, <2>3, <2>4, <2>7, <3>1 DEF OnItsOwn
    <3>3. ASSUME NEW m \in 1..(N + 1), NEW n \in 1..(N + 1), m < n,
                 framesToHost'[m].kind = "rst", framesToHost'[m].of = 1
          PROVE  framesToHost'[n].of # 1
      <4>1. m \in 1..N /\ framesToHost'[m] = framesToHost[m]
        BY <2>2, <2>3, <3>3
      <4>2. CASE n \in 1..N
        BY <2>3, <3>1, <3>3, <4>1, <4>2 DEF OnItsOwn
      <4>3. CASE n = N + 1
        <5> SUFFICES ASSUME i = 1 PROVE FALSE
          BY <2>1, <2>3, <4>3
        <5>1. framesToHost[m] \in FrameStates
          BY <2>2, <4>1, ElementOfSeq
        <5>2. framesToHost[m].port = conns[1].port
          BY <2>5, <3>3, <4>1
        <5>3. framesToHost[m] = Frame("rst", 1)
          BY <3>3, <4>1, <5>1, <5>2 DEF Frame, FrameStates
        <5> QED
          BY <1>7, <2>7, <4>1, <5>3
      <4> QED
        BY <2>4, <4>2, <4>3
    <3>4. \A d \in Callers : callers'[d].conn # 1
      BY <1>1, <3>1 DEF OnItsOwn
    <3> QED
      BY <1>1, <1>3, <2>3, <2>7, <3>1, <3>2, <3>3, <3>4 DEF OnItsOwn
  <2> QED
    BY <1>5, <2>3, <2>6, <2>7
<1> QED
  BY <1>4, <1>6, <1>7

\* The stream that the table finds for a frame is the one it belongs to.
LEMMA FrameFindsItsOwn ==
  ASSUME ConnectInv, framesToHost # <<>>, connections[framesToHost[1].port] # 0
  PROVE  /\ framesToHost[1].of = connections[framesToHost[1].port]
         /\ framesToHost[1].of \in 1..Len(conns)
         /\ conns[framesToHost[1].of].port = framesToHost[1].port
         /\ conns[framesToHost[1].of].state # "closed"
<1> DEFINE f == framesToHost[1]
           i == connections[f.port]
<1>1. 1 \in 1..Len(framesToHost)
  BY EmptySeq DEF ConnectInv, ConnectTyped
<1>2. f.of \in 1..Len(conns) /\ f.port = conns[f.of].port
  BY <1>1, FramesNamed
<1>3. f.port \in PortRange /\ Len(conns) \in Nat
  BY <1>2, ConnectParts DEF ConnectInv, ConnectTyped
<1>4. i <= Len(conns) /\ conns[i].port = f.port /\ conns[i].state # "closed"
  BY <1>3 DEF ConnectInv, Streams, Table
<1>5. i \in 1..Len(conns)
  BY <1>3, <1>4, PortNumbers DEF ConnectInv, ConnectTyped
<1> HIDE DEF i, f
<1>6. ASSUME i < f.of PROVE FALSE
  BY <1>2, <1>4, <1>5, <1>6 DEF ConnectInv, Streams, PortsDiffer
<1>7. ASSUME f.of < i PROVE FALSE
  <2>1. f.of = 1 /\ conns[1].state = "closed"
    BY <1>2, <1>4, <1>5, <1>7 DEF ConnectInv, Streams, PortsDiffer
  <2>2. i \in 2..Len(conns) /\ conns[i].port = conns[1].port /\ Len(conns) > 0
    BY <1>2, <1>3, <1>4, <1>5, <1>7, <2>1
  <2>3. Aged
    BY <2>2 DEF Aged
  <2> QED
    BY <1>1, <2>1, <2>3 DEF ConnectInv, Streams, AgedAlone, OnItsOwn, f
<1>8. i = f.of
  BY <1>2, <1>3, <1>5, <1>6, <1>7
<1> QED
  BY <1>2, <1>4, <1>8 DEF i, f

\* A frame that changes no stream.
LEMMA FrameTaken ==
  ASSUME ConnectInv, framesToHost # <<>>, framesToHost' = Tail(framesToHost),
         UNCHANGED <<callers, conns, connections, sport, channel, link, syns>>
  PROVE  ConnectInv'
<1>1. /\ framesToHost' \in Seq(FrameStates)
      /\ \A n \in 1..Len(framesToHost') :
           /\ framesToHost'[n].of \in 1..Len(conns)
           /\ framesToHost'[n].port = conns[framesToHost'[n].of].port
      /\ Aged => \A m, n \in 1..Len(framesToHost') :
           m < n /\ framesToHost'[m].kind = "rst" /\ framesToHost'[m].of = 1 =>
             framesToHost'[n].of # 1
      /\ (\A n \in 1..Len(framesToHost) : framesToHost[n].of # 1) =>
           \A n \in 1..Len(framesToHost') : framesToHost'[n].of # 1
  BY FramesRest
<1>2. ConnectTyped'
  BY <1>1 DEF ConnectInv, ConnectTyped
<1>3. \A n \in 1..Len(syns') : syns'[n] <= Len(conns)
  BY DEF ConnectInv, Streams, StreamOf
<1>4. StreamOf'
  BY <1>1, <1>3, CallersKeep
<1>5. Aged => OnItsOwn'
  BY <1>1 DEF ConnectInv, Streams, AgedAlone, OnItsOwn
<1>6. Streams'
  BY <1>2, <1>4, <1>5, StreamsMove DEF ConnectInv, Streams, InTheTable, Table
<1> QED
  BY <1>2, <1>6 DEF ConnectInv, Held

\* A frame of the device: the SYN+ACK opens a stream, the RST ends it.
LEMMA DeliverKeeps ==
  ASSUME ConnectInv, Deliver
  PROVE  ConnectInv'
<1> DEFINE f == framesToHost[1]
           i == connections[f.port]
           x == conns[i]
           Took(y) == conns' = [conns EXCEPT ![i] = [y EXCEPT !.foreign = @ \/ f.of # i]]
<1>1. /\ framesToHost # <<>> /\ framesToHost' = Tail(framesToHost) /\ link = "ours"
      /\ UNCHANGED <<sport, link, syns>> /\ Head(framesToHost) = f
      /\ framesToHost \in Seq(FrameStates) /\ Len(framesToHost) \in Nat
      /\ 1 \in 1..Len(framesToHost)
  <2>1. /\ framesToHost # <<>> /\ framesToHost' = Tail(framesToHost) /\ link = "ours"
        /\ UNCHANGED <<sport, link, syns>> /\ framesToHost \in Seq(FrameStates)
    BY DEF Deliver, ConnectInv, ConnectTyped
  <2> HIDE DEF f, i, x, Took
  <2>2. Len(framesToHost) \in Nat /\ 1 \in 1..Len(framesToHost)
    BY <2>1, EmptySeq
  <2>3. Head(framesToHost) = f
    BY <2>1, <2>2 DEF f
  <2> QED
    BY <2>1, <2>2, <2>3
<1>2. CASE i = 0
  <2>1. UNCHANGED <<callers, conns, connections, channel>>
    BY <1>1, <1>2 DEF Deliver
  <2> QED
    BY <1>1, <2>1, FrameTaken
<1>3. CASE i # 0
  <2>1. f.of = i /\ i \in 1..Len(conns) /\ x.port = f.port /\ x.state # "closed"
    BY <1>1, <1>3, FrameFindsItsOwn
  <2>2. /\ x \in ConnStates /\ x.foreign = FALSE
        /\ x.state = "connected" => connections[x.port] = i
    <3>1. x \in ConnStates
      BY <2>1, ConnectParts DEF ConnectInv
    <3>2. ~x.foreign /\ (x.state = "connected" => connections[x.port] = i)
      BY <2>1 DEF ConnectInv, Streams, InTheTable
    <3> QED
      BY <3>1, <3>2 DEF ConnStates
  <2>3. \/ /\ x.state = "connecting" /\ f.kind = "synack"
           /\ Took([x EXCEPT !.state = "connected"])
           /\ \E c \in WaitsFor(i) : callers' = Returned(c) /\ channel' = Handed(c)
           /\ UNCHANGED connections
        \/ /\ f.kind = "rst"
           /\ Took([x EXCEPT !.state = "closed", !.why = "refused"])
           /\ connections' = Gone(i)
           /\ IF WaitsFor(i) = {} THEN UNCHANGED callers
              ELSE \E c \in WaitsFor(i) : callers' = ConnectRejected(c, "refused")
           /\ UNCHANGED channel
        \/ Took(x) /\ UNCHANGED <<callers, connections, channel>>
    BY <1>1, <1>3 DEF Deliver
  <2>4. ASSUME NEW y \in ConnStates, y.foreign = FALSE, Took(y)
        PROVE  conns' = [conns EXCEPT ![i] = y]
    <3>1. [y EXCEPT !.foreign = @ \/ f.of # i] = y
      BY <2>1, <2>4 DEF ConnStates
    <3> QED
      BY <2>4, <3>1
  <2>5. /\ framesToHost' \in Seq(FrameStates)
        /\ \A n \in 1..Len(framesToHost') :
             /\ framesToHost'[n].of \in 1..Len(conns)
             /\ framesToHost'[n].port = conns[framesToHost'[n].of].port
        /\ Aged => \A m, n \in 1..Len(framesToHost') :
             m < n /\ framesToHost'[m].kind = "rst" /\ framesToHost'[m].of = 1 =>
               framesToHost'[n].of # 1
        /\ (\A n \in 1..Len(framesToHost) : framesToHost[n].of # 1) =>
             \A n \in 1..Len(framesToHost') : framesToHost'[n].of # 1
    BY <1>1, FramesRest
  <2>6. \A n \in 1..Len(syns') : syns'[n] <= Len(conns)
    BY <1>1 DEF ConnectInv, Streams, StreamOf
  <2>7. Aged => OnItsOwn /\ 1 \in 1..Len(conns)
    BY DEF ConnectInv, ConnectTyped, Streams, AgedAlone, Aged
  <2> HIDE DEF i, f
  <2>8. CASE Took(x) /\ UNCHANGED <<callers, connections, channel>>
    <3>1. conns' = [conns EXCEPT ![i] = conns[i]]
      BY <2>2, <2>4, <2>8
    <3>2. conns' = conns
      BY <2>1, <3>1 DEF ConnectInv, ConnectTyped
    <3> QED
      BY <1>1, <2>8, <3>2, FrameTaken
  <2>9. CASE /\ x.state = "connecting" /\ f.kind = "synack"
             /\ Took([x EXCEPT !.state = "connected"])
             /\ \E c \in WaitsFor(i) : callers' = Returned(c) /\ channel' = Handed(c)
             /\ UNCHANGED connections
    <3> DEFINE y == [x EXCEPT !.state = "connected"]
    <3>1. y \in ConnStates /\ y.port = x.port /\ y.state = "connected" /\ y.foreign = FALSE
      BY <2>2 DEF ConnStates
    <3>2. /\ conns' \in Seq(ConnStates) /\ Len(conns') = Len(conns) /\ conns'[i] = y
          /\ \A j \in 1..Len(conns) :
               conns'[j].port = conns[j].port /\ (j # i => conns'[j] = conns[j])
      <4>1. conns' = [conns EXCEPT ![i] = y]
        BY <2>4, <2>9, <3>1
      <4> HIDE DEF y
      <4> QED
        BY <2>1, <3>1, <4>1, StreamChanges DEF ConnectInv
    <3> HIDE DEF y
    <3>3. PICK c \in Callers : /\ callers[c].conn = i /\ callers[c].pc = "armed"
                               /\ callers' = [callers EXCEPT ![c].pc = "holds"]
                               /\ channel' = Handed(c)
      BY <2>9 DEF WaitsFor, Returned
    <3>4. /\ callers' \in [Callers -> CallerStates] /\ callers'[c].pc = "holds"
          /\ \A d \in Callers :
               /\ callers'[d].conn = callers[d].conn /\ callers'[d].how = callers[d].how
               /\ callers'[d].attempt = callers[d].attempt
               /\ d # c => callers'[d].pc = callers[d].pc
      BY <3>3, CallerGoes DEF ConnectInv
    <3>5. ConnectTyped'
      <4>1. channel' \in 0..MaxConns
        BY <3>3, ConnectParts DEF Handed, ConnectInv, ConnectTyped
      <4> QED
        BY <1>1, <2>5, <2>9, <3>2, <3>4, <4>1 DEF ConnectInv, ConnectTyped
    <3>6. \A d \in Callers :
            /\ callers'[d].conn = callers[d].conn /\ callers'[d].attempt = callers[d].attempt
            /\ \/ callers'[d].pc = callers[d].pc \/ callers'[d].pc = "failed"
               \/ callers[d].pc \in {"syn", "armed", "sleep", "holds"}
            /\ callers'[d].pc = "sleep" =>
                 callers[d].pc = "sleep" \/ callers[d].attempt < ConnAttempts
      BY <3>3, <3>4
    <3>7. StreamOf'
      BY <2>5, <2>6, <3>2, <3>6, CallersKeep
    <3>8. Aged => OnItsOwn'
      <4> SUFFICES ASSUME Aged PROVE OnItsOwn'
        OBVIOUS
      <4>1. OnItsOwn /\ i # 1 /\ conns'[1] = conns[1]
        BY <2>7, <2>9, <3>2 DEF OnItsOwn
      <4> QED
        BY <1>1, <2>5, <3>4, <4>1 DEF OnItsOwn
    <3>9. \A j \in 1..Len(conns) :
            /\ conns'[j].port = conns[j].port /\ ~conns'[j].foreign
            /\ conns'[j].state = "connecting" => conns[j].state = "connecting"
            /\ conns[j].state = "closed" => conns'[j].state = "closed"
            /\ conns'[j].state = "connected" =>
                 link' = "ours" /\ connections'[conns[j].port] = j
      <4> TAKE j \in 1..Len(conns)
      <4>1. CASE j = i
        BY <1>1, <2>1, <2>9, <3>1, <3>2, <4>1 DEF i
      <4>2. CASE j # i
        BY <1>1, <2>9, <3>2, <4>2 DEF ConnectInv, Streams, InTheTable
      <4> QED
        BY <4>1, <4>2
    <3>10. \A p \in PortRange : connections'[p] # 0 =>
             connections'[p] = connections[p] /\ conns'[connections[p]].state # "closed"
      <4> SUFFICES ASSUME NEW p \in PortRange, connections[p] # 0
                   PROVE  conns'[connections[p]].state # "closed"
        BY <2>9
      <4>1. connections[p] \in 0..MaxConns
        BY DEF ConnectInv, ConnectTyped
      <4>2. connections[p] <= Len(conns) /\ conns[connections[p]].state # "closed"
        BY DEF ConnectInv, Streams, Table
      <4>3. connections[p] \in 1..Len(conns)
        BY <4>1, <4>2, PortNumbers DEF ConnectInv, ConnectTyped
      <4> QED
        BY <3>1, <3>2, <4>2, <4>3
    <3>11. Streams'
      BY <1>1, <3>2, <3>5, <3>7, <3>8, <3>9, <3>10, StreamsMove
    <3>12. Held'
      BY <3>3, <3>4 DEF ConnectInv, Held, Handed
    <3> QED
      BY <3>5, <3>11, <3>12 DEF ConnectInv
  <2>10. CASE /\ f.kind = "rst"
              /\ Took([x EXCEPT !.state = "closed", !.why = "refused"])
              /\ connections' = Gone(i)
              /\ IF WaitsFor(i) = {} THEN UNCHANGED callers
                 ELSE \E c \in WaitsFor(i) : callers' = ConnectRejected(c, "refused")
              /\ UNCHANGED channel
    <3> DEFINE y == [x EXCEPT !.state = "closed", !.why = "refused"]
    <3>1. y \in ConnStates /\ y.port = x.port /\ y.state = "closed" /\ y.foreign = FALSE
      BY <2>2 DEF ConnStates
    <3>2. /\ conns' \in Seq(ConnStates) /\ Len(conns') = Len(conns) /\ conns'[i] = y
          /\ \A j \in 1..Len(conns) :
               conns'[j].port = conns[j].port /\ (j # i => conns'[j] = conns[j])
      <4>1. conns' = [conns EXCEPT ![i] = y]
        BY <2>4, <2>10, <3>1
      <4> HIDE DEF y
      <4> QED
        BY <2>1, <3>1, <4>1, StreamChanges DEF ConnectInv
    <3> HIDE DEF y
    <3>3. /\ connections' \in [PortRange -> 0..MaxConns]
          /\ \A p \in PortRange : connections'[p] # 0 =>
               connections'[p] = connections[p] /\ connections[p] # i
          /\ \A j \in 1..Len(conns) :
               j # i /\ conns[j].state = "connected" => connections'[conns[j].port] = j
      BY <2>1, <2>10, GoneFinds
    <3>4. /\ callers' \in [Callers -> CallerStates]
          /\ \A d \in Callers :
               /\ callers'[d].conn = callers[d].conn /\ callers'[d].how = callers[d].how
               /\ callers'[d].attempt = callers[d].attempt
               /\ \/ callers'[d].pc = callers[d].pc
                  \/ callers[d].pc = "armed" /\ callers'[d].pc = "failed"
                  \/ /\ callers[d].pc = "armed" /\ callers'[d].pc = "sleep"
                     /\ callers[d].attempt < ConnAttempts
      <4>1. CASE UNCHANGED callers
        BY <4>1 DEF ConnectInv, ConnectTyped
      <4>2. ASSUME NEW c \in Callers, callers[c].pc = "armed", NEW pc \in {"sleep", "failed"},
                   callers' = [callers EXCEPT ![c].pc = pc],
                   pc = "sleep" => callers[c].attempt < ConnAttempts
            PROVE  /\ callers' \in [Callers -> CallerStates]
                   /\ \A d \in Callers :
                        /\ callers'[d].conn = callers[d].conn /\ callers'[d].how = callers[d].how
                        /\ callers'[d].attempt = callers[d].attempt
                        /\ \/ callers'[d].pc = callers[d].pc
                           \/ callers[d].pc = "armed" /\ callers'[d].pc = "failed"
                           \/ /\ callers[d].pc = "armed" /\ callers'[d].pc = "sleep"
                              /\ callers[d].attempt < ConnAttempts
        <5>1. /\ callers' \in [Callers -> CallerStates] /\ callers'[c].pc = pc
              /\ \A d \in Callers :
                   /\ callers'[d].conn = callers[d].conn /\ callers'[d].how = callers[d].how
                   /\ callers'[d].attempt = callers[d].attempt
                   /\ d # c => callers'[d].pc = callers[d].pc
          BY <4>2, CallerGoes DEF ConnectInv
        <5> QED
          BY <4>2, <5>1
      <4> QED
        BY <2>10, <4>1, <4>2 DEF WaitsFor, ConnectRejected
    <3>5. ConnectTyped'
      BY <1>1, <2>5, <2>10, <3>2, <3>3, <3>4 DEF ConnectInv, ConnectTyped
    <3>6. StreamOf'
      BY <2>5, <2>6, <3>2, <3>4, CallersKeep
    <3>7. Aged => OnItsOwn'
      <4> SUFFICES ASSUME Aged PROVE OnItsOwn'
        OBVIOUS
      <4>1. OnItsOwn /\ 1 \in 1..Len(conns)
        BY <2>7
      <4>2. conns'[1].state # "connecting"
        BY <3>1, <3>2, <4>1 DEF OnItsOwn
      <4>3. ASSUME i = 1, NEW n \in 1..Len(framesToHost') PROVE framesToHost'[n].of # 1
        <5>1. /\ Len(framesToHost') = Len(framesToHost) - 1
              /\ framesToHost'[n] = framesToHost[n + 1]
          BY <1>1, HeadTailProperties
        <5>2. n + 1 \in 1..Len(framesToHost) /\ 1 < n + 1
          BY <1>1, <5>1
        <5> QED
          BY <1>1, <2>1, <2>10, <4>1, <4>3, <5>1, <5>2 DEF OnItsOwn, f
      <4>4. conns'[1].state = "closed" =>
              \A n \in 1..Len(framesToHost') : framesToHost'[n].of # 1
        BY <2>5, <3>2, <4>1, <4>3 DEF OnItsOwn
      <4> QED
        BY <1>1, <2>5, <3>4, <4>1, <4>2, <4>4 DEF OnItsOwn
    <3>8. \A j \in 1..Len(conns) :
            /\ conns'[j].port = conns[j].port /\ ~conns'[j].foreign
            /\ conns'[j].state = "connecting" => conns[j].state = "connecting"
            /\ conns[j].state = "closed" => conns'[j].state = "closed"
            /\ conns'[j].state = "connected" =>
                 link' = "ours" /\ connections'[conns[j].port] = j
      <4> TAKE j \in 1..Len(conns)
      <4>1. CASE j = i
        BY <3>1, <3>2, <4>1
      <4>2. CASE j # i
        BY <1>1, <3>2, <3>3, <4>2 DEF ConnectInv, Streams, InTheTable
      <4> QED
        BY <4>1, <4>2
    <3>9. \A p \in PortRange : connections'[p] # 0 =>
            connections'[p] = connections[p] /\ conns'[connections[p]].state # "closed"
      <4> SUFFICES ASSUME NEW p \in PortRange, connections'[p] # 0
                   PROVE  conns'[connections[p]].state # "closed"
        BY <3>3
      <4>1. connections[p] # i /\ connections[p] # 0 /\ connections[p] \in 0..MaxConns
        BY <3>3 DEF ConnectInv, ConnectTyped
      <4>2. connections[p] <= Len(conns) /\ conns[connections[p]].state # "closed"
        BY <4>1 DEF ConnectInv, Streams, Table
      <4>3. connections[p] \in 1..Len(conns)
        BY <4>1, <4>2, PortNumbers DEF ConnectInv, ConnectTyped
      <4> QED
        BY <3>2, <4>1, <4>2, <4>3
    <3>10. Streams'
      BY <1>1, <3>2, <3>5, <3>6, <3>7, <3>8, <3>9, StreamsMove
    <3>11. Held'
      BY <2>10, <3>4 DEF ConnectInv, Held
    <3> QED
      BY <3>5, <3>10, <3>11 DEF ConnectInv
  <2> QED
    BY <2>3, <2>8, <2>9, <2>10
<1> QED
  BY <1>2, <1>3

\* close(): every stream that is open is in the table, and goes.
LEMMA CloseKeeps ==
  ASSUME ConnectInv, Close
  PROVE  ConnectInv'
<1> DEFINE table == {connections[p] : p \in PortRange} \ {0}
<1>1. /\ link' = "closed" /\ channel' = 0 /\ UNCHANGED sport /\ syns' = <<>>
      /\ framesToHost' = <<>> /\ Len(syns') = 0 /\ Len(framesToHost') = 0
      /\ connections' = [p \in PortRange |-> 0]
  BY DEF Close
<1>2. conns \in Seq(ConnStates) /\ Len(conns) \in Nat /\ DOMAIN conns = 1..Len(conns)
  BY LenProperties DEF ConnectInv, ConnectTyped
<1>3. conns' = [i \in 1..Len(conns) |-> IF i \in table
                 THEN [conns[i] EXCEPT !.state = "closed", !.why = "closed"] ELSE conns[i]]
  BY <1>2 DEF Close
<1>4. \A i \in 1..Len(conns) : conns[i].state = "connected" => i \in table
  <2> SUFFICES ASSUME NEW i \in 1..Len(conns), conns[i].state = "connected" PROVE i \in table
    OBVIOUS
  <2>1. conns[i].port \in PortRange /\ connections[conns[i].port] = i /\ i # 0
    BY ConnectParts DEF ConnectInv, Streams, InTheTable
  <2> QED
    BY <2>1
<1> HIDE DEF table
<1>5. /\ conns' \in Seq(ConnStates) /\ Len(conns') = Len(conns)
      /\ \A i \in 1..Len(conns) :
           /\ conns'[i].port = conns[i].port /\ conns'[i].foreign = conns[i].foreign
           /\ conns'[i].state \in {conns[i].state, "closed"} /\ conns'[i].state # "connected"
  <2>1. \A i \in 1..Len(conns) :
          /\ conns[i] \in ConnStates
          /\ [conns[i] EXCEPT !.state = "closed", !.why = "closed"] \in ConnStates
    BY ConnectParts DEF ConnectInv, ConnStates
  <2>2. conns' \in [1..Len(conns) -> ConnStates]
    BY <1>3, <2>1
  <2>3. conns' \in Seq(ConnStates) /\ Len(conns') = Len(conns)
    BY <1>2, <2>2
  <2>4. ASSUME NEW i \in 1..Len(conns)
        PROVE  /\ conns'[i].port = conns[i].port /\ conns'[i].foreign = conns[i].foreign
               /\ conns'[i].state \in {conns[i].state, "closed"} /\ conns'[i].state # "connected"
    <3>1. CASE i \in table
      BY <1>3, <2>1, <3>1 DEF ConnStates
    <3>2. CASE i \notin table
      BY <1>3, <1>4, <3>2
    <3> QED
      BY <3>1, <3>2
  <2> QED
    BY <2>3, <2>4
<1>6. /\ callers' \in [Callers -> CallerStates]
      /\ \A d \in Callers :
           /\ callers'[d].conn = callers[d].conn /\ callers'[d].attempt = callers[d].attempt
           /\ callers'[d].pc = callers[d].pc \/ callers'[d].pc = "failed"
  BY DEF Close, ConnectInv, ConnectTyped, CallerStates
<1>7. ConnectTyped'
  BY <1>1, <1>5, <1>6, PortNumbers DEF ConnectInv, ConnectTyped
<1>8. StreamOf'
  <2>1. \A d \in Callers :
          /\ callers'[d].conn = callers[d].conn /\ callers'[d].attempt = callers[d].attempt
          /\ \/ callers'[d].pc = callers[d].pc \/ callers'[d].pc = "failed"
             \/ callers[d].pc \in {"syn", "armed", "sleep", "holds"}
          /\ callers'[d].pc = "sleep" =>
               callers[d].pc = "sleep" \/ callers[d].attempt < ConnAttempts
    BY <1>6
  <2>2. /\ \A n \in 1..Len(syns') : syns'[n] <= Len(conns)
        /\ \A n \in 1..Len(framesToHost') :
             /\ framesToHost'[n].of \in 1..Len(conns)
             /\ framesToHost'[n].port = conns[framesToHost'[n].of].port
    BY <1>1
  <2> QED
    BY <1>5, <2>1, <2>2, CallersKeep
<1>9. Aged => OnItsOwn'
  <2> SUFFICES ASSUME Aged PROVE OnItsOwn'
    OBVIOUS
  <2>1. OnItsOwn /\ 1 \in 1..Len(conns)
    BY <1>2 DEF ConnectInv, Streams, AgedAlone, Aged
  <2>2. conns'[1].state # "connecting"
    BY <1>5, <2>1 DEF OnItsOwn
  <2> QED
    BY <1>1, <1>6, <2>1, <2>2 DEF OnItsOwn
<1>10. \A j \in 1..Len(conns) :
         /\ conns'[j].port = conns[j].port /\ ~conns'[j].foreign
         /\ conns'[j].state = "connecting" => conns[j].state = "connecting"
         /\ conns[j].state = "closed" => conns'[j].state = "closed"
         /\ conns'[j].state # "connected"
  BY <1>5 DEF ConnectInv, Streams, InTheTable
<1>11. Streams'
  BY <1>1, <1>5, <1>7, <1>8, <1>9, <1>10, StreamsMove
<1> QED
  BY <1>1, <1>7, <1>11 DEF ConnectInv, Held

\* Any step of connect(), or none, preserves it.
LEMMA ConnectKeeps == ConnectInv /\ [ConnectNext]_connectVars => ConnectInv'
<1> SUFFICES ASSUME ConnectInv, [ConnectNext]_connectVars PROVE ConnectInv'
  OBVIOUS
<1>1. ASSUME NEW c \in Callers, ConnectPort(c) PROVE ConnectInv'
  BY <1>1, AttemptMakes, PortNumbers DEF ConnectPort
<1>2. ASSUME NEW c \in Callers, NextTry(c) PROVE ConnectInv'
  <2>1. callers[c].attempt + 1 \in 1..ConnAttempts /\ callers[c].how \in {"direct", "channel"}
    BY <1>2, ConnectParts, PortNumbers
       DEF NextTry, ConnectInv, Streams, StreamOf, CallerStates
  <2> QED
    BY <1>2, <2>1, AttemptMakes DEF NextTry
<1>3. CASE Reopened
  <2>1. ConnectTyped'
    BY <1>3 DEF Reopened, ConnectInv, ConnectTyped
  <2>2. StreamOf' /\ Table' /\ PortsGoUp' /\ PortsDiffer' /\ (Aged' => Aged) /\ (OnItsOwn => OnItsOwn')
    BY <1>3 DEF Reopened, ConnectInv, Streams, StreamOf, Table, PortsGoUp, PortsDiffer, Aged, OnItsOwn
  <2>3. InTheTable' /\ Held'
    BY <1>3 DEF Reopened, ConnectInv, Streams, InTheTable, Held
  <2> QED
    BY <2>1, <2>2, <2>3 DEF ConnectInv, Streams, AgedAlone
<1>4. CASE UNCHANGED connectVars
  <2>1. ConnectTyped' /\ Held' /\ InTheTable'
    BY <1>4 DEF connectVars, ConnectInv, ConnectTyped, Held, Streams, InTheTable
  <2>2. StreamOf' /\ Table' /\ PortsGoUp' /\ PortsDiffer' /\ (Aged' => Aged) /\ (OnItsOwn => OnItsOwn')
    BY <1>4 DEF connectVars, ConnectInv, Streams, StreamOf, Table, PortsGoUp, PortsDiffer, Aged, OnItsOwn
  <2> QED
    BY <2>1, <2>2 DEF ConnectInv, Streams, AgedAlone
<1> QED
  BY <1>1, <1>2, <1>3, <1>4, SynKeeps, OpenFails, CloseStreamKeeps, DeviceFrames,
     DeliverKeeps, CloseKeeps DEF ConnectNext

\* A stream takes no frame of another and is found as long as it is open, and
\* the facade's channel always has a holder: for any number of callers,
\* attempts and frames, when there are more ports than streams.
THEOREM StreamsAreKept == ConnectSpec => []StreamsKept
<1>1. ConnectInv => StreamsKept
  BY LenProperties DEF ConnectInv, ConnectTyped, Streams, InTheTable, Held, StreamsKept
<1> QED
  BY <1>1, ConnectStarts, ConnectKeeps, PTL DEF ConnectSpec

\* What callers, the table and the facade name are streams that were made, and
\* no caller tries more often than connect() allows.
THEOREM ConnectTypesCorrect == ConnectSpec => []ConnectTypeOK
<1>1. ConnectInv => ConnectTypeOK
  <2> SUFFICES ASSUME ConnectInv PROVE ConnectTypeOK
    OBVIOUS
  <2>1. Len(conns) \in Nat /\ DOMAIN conns = 1..Len(conns)
    BY LenProperties DEF ConnectInv, ConnectTyped
  <2>2. ASSUME NEW c \in Callers
        PROVE  /\ callers[c].pc \in {"idle", "syn", "armed", "sleep", "holds", "failed"}
               /\ callers[c].conn \in 0..Len(conns) /\ callers[c].attempt \in 0..ConnAttempts
    <3>1. callers[c] \in CallerStates /\ callers[c].conn <= Len(conns)
      BY DEF ConnectInv, ConnectTyped, Streams, StreamOf
    <3>2. callers[c].conn \in 0..MaxConns
      BY <3>1 DEF CallerStates
    <3> QED
      BY <2>1, <3>1, <3>2, PortNumbers DEF CallerStates
  <2>3. ASSUME NEW p \in PortRange PROVE connections[p] \in 0..Len(conns)
    <3>1. connections[p] \in 0..MaxConns /\ (connections[p] # 0 => connections[p] <= Len(conns))
      BY DEF ConnectInv, ConnectTyped, Streams, Table
    <3> QED
      BY <2>1, <3>1, PortNumbers
  <2>4. channel \in 0..Len(conns)
    <3>1. CASE channel = 0
      BY <2>1, <3>1
    <3>2. CASE channel # 0
      BY <2>2, <3>2 DEF ConnectInv, Held
    <3> QED
      BY <3>1, <3>2
  <2>5. \A i \in DOMAIN conns : conns[i].port \in PortRange
    BY <2>1, ConnectParts DEF ConnectInv
  <2>6. sport \in PortRange
    BY DEF ConnectInv, ConnectTyped
  <2> QED
    BY <2>2, <2>3, <2>4, <2>5, <2>6 DEF ConnectTypeOK
<1> QED
  BY <1>1, ConnectStarts, ConnectKeeps, PTL DEF ConnectSpec

-----------------------------------------------------------------------------
(* NodeTransport: close() is final, and reads return what the peer sent.   *)

SocketStates == {"dialing", "open", "ended", "destroyed"}
NodeClients == [pc : {"idle", "awaits", "waits"}, op : {"none", "read", "write"},
                n : Nat, calls : Nat]

NodeTyped ==
  /\ nodeClient \in [Clients -> NodeClients]
  /\ sockets \in Seq(SocketStates)
  /\ socket \in 0..Len(sockets) /\ dialing \in 0..Len(sockets)
  /\ buffer \in Seq(Nat) /\ taken \in Seq(Nat) /\ peerSent \in Nat
  /\ waiters \in Seq(Clients) /\ isClosed \in BOOLEAN

\* failAll() reaches every read that waits.
WaitersQueued == \A c \in Clients : nodeClient[c].pc = "waits" => Contains(waiters, c)

\* A socket is dialed only when none is: until close() the only one that is
\* dialing or open is the one of `dialing`, and an open one is the field's.
OneSocket ==
  \A s \in DOMAIN sockets :
    /\ sockets[s] = "open" => s = socket
    /\ sockets[s] \in {"dialing", "open"} /\ ~isClosed => s = dialing
    /\ isClosed => sockets[s] # "open" /\ socket = 0

\* The inductive invariant of NodeTransport.
NodeInv == NodeTyped /\ WaitersQueued /\ OneSocket /\ ClosedForGood

\* The numbers of the first n bytes.
BytesTo(n) == [i \in 1..n |-> i]

\* Concatenation, of sequences of bytes, is associative.
LEMMA ConcatInTurn ==
  ASSUME NEW x \in Seq(Nat), NEW y \in Seq(Nat), NEW z \in Seq(Nat)
  PROVE  (x \o y) \o z = x \o (y \o z)
<1> QED
  BY ConcatAssociative, SMTT(30)

\* What a sequence loses at the front another gains at its end.
LEMMA BytesMove ==
  ASSUME NEW t \in Seq(Nat), NEW b \in Seq(Nat), NEW k \in 0..Len(b)
  PROVE  /\ t \o SubSeq(b, 1, k) \in Seq(Nat) /\ SubSeq(b, k + 1, Len(b)) \in Seq(Nat)
         /\ (t \o SubSeq(b, 1, k)) \o SubSeq(b, k + 1, Len(b)) = t \o b
<1> DEFINE x == SubSeq(b, 1, k)
           y == SubSeq(b, k + 1, Len(b))
<1> DEFINE n == Len(b)
<1>0. n \in Nat /\ k \in Int /\ 0 <= k /\ k <= n /\ (\A i \in 1..n : b[i] \in Nat)
  OBVIOUS
<1> HIDE DEF n
<1>1. x \in Seq(Nat) /\ Len(x) = k /\ \A i \in 1..k : x[i] = b[i]
  <2>1. \A i \in 1..k : b[i] \in Nat
    BY ONLY <1>0
  <2>2. /\ SubSeq(b, 1, k) \in Seq(Nat)
        /\ Len(SubSeq(b, 1, k)) = IF 1 <= k THEN k - 1 + 1 ELSE 0
        /\ \A i \in 1..(k - 1 + 1) : SubSeq(b, 1, k)[i] = b[1 + i - 1]
    BY ONLY <1>0, <2>1, 1 \in Int, SubSeqProperties
  <2> HIDE DEF x
  <2>3. x = SubSeq(b, 1, k)
    BY DEF x
  <2> QED
    BY ONLY <1>0, <2>2, <2>3
<1>2. y \in Seq(Nat) /\ Len(y) = n - k /\ \A i \in 1..(n - k) : y[i] = b[k + i]
  <2>1. k + 1 \in Int /\ n \in Int /\ \A i \in (k + 1)..n : b[i] \in Nat
    BY ONLY <1>0
  <2>2. /\ SubSeq(b, k + 1, n) \in Seq(Nat)
        /\ Len(SubSeq(b, k + 1, n)) = IF k + 1 <= n THEN n - (k + 1) + 1 ELSE 0
        /\ \A i \in 1..(n - (k + 1) + 1) : SubSeq(b, k + 1, n)[i] = b[k + 1 + i - 1]
    BY ONLY <2>1, SubSeqProperties
  <2> HIDE DEF y
  <2>3. y = SubSeq(b, k + 1, n)
    BY DEF y, n
  <2> QED
    BY ONLY <1>0, <2>2, <2>3
<1> HIDE DEF x, y
<1>3. /\ x \o y \in Seq(Nat) /\ Len(x \o y) = Len(x) + Len(y)
      /\ \A i \in 1..(Len(x) + Len(y)) :
           (x \o y)[i] = IF i <= Len(x) THEN x[i] ELSE y[i - Len(x)]
  BY <1>1, <1>2, ConcatProperties
<1> DEFINE z == x \o y
<1> HIDE DEF z
<1>4. z = b
  <2>1. z \in Seq(Nat) /\ Len(z) = Len(b)
    BY <1>0, <1>1, <1>2, <1>3 DEF z, n
  <2>2. ASSUME NEW i \in 1..Len(z) PROVE z[i] = b[i]
    <3>1. z[i] = IF i <= k THEN x[i] ELSE y[i - k]
      BY <1>0, <2>1, <1>1, <1>2, <1>3 DEF z
    <3> QED
      BY <1>0, <2>1, <3>1, <1>1, <1>2 DEF n
  <2> QED
    BY <2>1, <2>2, SeqEqual
<1>5. (t \o x) \o y = t \o (x \o y)
  <2>1. t \in Seq(Nat) /\ x \in Seq(Nat) /\ y \in Seq(Nat)
    BY <1>1, <1>2
  <2> QED
    BY ONLY <2>1, ConcatInTurn
<1>6. t \o x \in Seq(Nat)
  BY <1>1, ConcatProperties
<1> QED
  BY <1>2, <1>4, <1>5, <1>6 DEF x, y, z, n

\* The bytes that arrive follow those that came before them.
LEMMA BytesArrive ==
  ASSUME NEW t \in Seq(Nat), NEW b \in Seq(Nat), NEW m \in Nat, NEW n \in Nat,
         t \o b = BytesTo(m)
  PROVE  /\ b \o [i \in 1..n |-> m + i] \in Seq(Nat)
         /\ t \o (b \o [i \in 1..n |-> m + i]) = BytesTo(m + n)
<1> DEFINE z == [i \in 1..n |-> m + i]
<1>1. z \in Seq(Nat) /\ Len(z) = n /\ \A i \in 1..n : z[i] = m + i
  OBVIOUS
<1> HIDE DEF z
<1> DEFINE u == BytesTo(m)
           w == BytesTo(m + n)
           v == u \o z
<1>2. t \o (b \o z) = v
  <2>1. t \in Seq(Nat) /\ b \in Seq(Nat) /\ z \in Seq(Nat)
    BY <1>1
  <2>2. (t \o b) \o z = t \o (b \o z)
    BY ONLY <2>1, ConcatInTurn
  <2> QED
    BY <2>2
<1>3. u \in Seq(Nat) /\ Len(u) = m /\ \A i \in 1..m : u[i] = i
  BY DEF BytesTo
<1>4. w \in Seq(Nat) /\ Len(w) = m + n /\ \A i \in 1..(m + n) : w[i] = i
  BY DEF BytesTo
<1> HIDE DEF u, w
<1>5. /\ v \in Seq(Nat) /\ Len(v) = Len(u) + Len(z)
      /\ \A i \in 1..(Len(u) + Len(z)) : v[i] = IF i <= Len(u) THEN u[i] ELSE z[i - Len(u)]
  BY <1>1, <1>3, ConcatProperties
<1> HIDE DEF v
<1>6. v = w
  <2>1. Len(v) = m + n
    BY <1>1, <1>3, <1>5
  <2>2. ASSUME NEW i \in 1..Len(v) PROVE v[i] = w[i]
    <3>1. v[i] = IF i <= m THEN u[i] ELSE z[i - m]
      BY <2>1, <1>1, <1>3, <1>5
    <3> QED
      BY <2>1, <3>1, <1>1, <1>3, <1>4
  <2> QED
    BY <2>1, <2>2, <1>4, <1>5, SeqEqual
<1>7. b \o z \in Seq(Nat)
  BY <1>1, ConcatProperties
<1> QED
  BY <1>2, <1>6, <1>7 DEF z, w

\* A stream that nobody used has the invariant.
LEMMA NodeStarts == NodeInit => NodeInv
<1> SUFFICES ASSUME NodeInit PROVE NodeInv
  OBVIOUS
<1>1. NodeTyped
  <2>1. <<>> \in Seq(SocketStates) /\ <<>> \in Seq(Nat) /\ <<>> \in Seq(Clients) /\ Len(<<>>) = 0
    OBVIOUS
  <2>2. [c \in Clients |-> [pc |-> "idle", op |-> "none", n |-> 0, calls |-> 0]]
          \in [Clients -> NodeClients]
    BY DEF NodeClients
  <2>3. /\ sockets \in Seq(SocketStates) /\ buffer \in Seq(Nat) /\ taken \in Seq(Nat)
        /\ waiters \in Seq(Clients) /\ Len(sockets) = 0
    BY <2>1 DEF NodeInit
  <2>4. socket \in 0..0 /\ dialing \in 0..0 /\ peerSent \in Nat
    BY DEF NodeInit
  <2>6. isClosed \in BOOLEAN
    BY Zenon DEF NodeInit
  <2>5. nodeClient \in [Clients -> NodeClients]
    BY <2>2 DEF NodeInit
  <2> QED
    BY <2>3, <2>4, <2>5, <2>6 DEF NodeTyped
<1>2. WaitersQueued /\ OneSocket
  BY DEF NodeInit, WaitersQueued, OneSocket
<1>3. ClosedForGood
  <2>1. <<>> \o <<>> = [i \in 1..0 |-> i]
    <3>1. <<>> \o <<>> = <<>> OBVIOUS
    <3>2. [i \in 1..0 |-> i] = <<>> OBVIOUS
    <3> QED BY <3>1, <3>2
  <2> QED
    BY <2>1 DEF NodeInit, ClosedForGood
<1> QED
  BY <1>1, <1>2, <1>3 DEF NodeInv

\* A step that sends some of the callers away lets the others wait on.
LEMMA CallersRest ==
  ASSUME NodeInv, NEW K \in SUBSET Clients, UNCHANGED waiters,
         nodeClient' = [c \in Clients |-> IF c \in K
                          THEN [nodeClient[c] EXCEPT !.pc = "idle"] ELSE nodeClient[c]]
  PROVE  /\ nodeClient' \in [Clients -> NodeClients] /\ WaitersQueued'
         /\ \A c \in Clients : nodeClient'[c].pc = "waits" => nodeClient[c].pc = "waits"
<1>1. nodeClient \in [Clients -> NodeClients] /\ WaitersQueued
  BY DEF NodeInv, NodeTyped
<1>2. ASSUME NEW c \in Clients
      PROVE  /\ nodeClient'[c] \in NodeClients
             /\ nodeClient'[c].pc = "waits" => nodeClient[c].pc = "waits"
  <2>1. CASE c \in K
    BY <1>1, <2>1 DEF NodeClients
  <2>2. CASE c \notin K
    BY <1>1, <2>2
  <2> QED
    BY <2>1, <2>2
<1>3. nodeClient' \in [Clients -> NodeClients]
  BY <1>2
<1>4. WaitersQueued'
  <2>1. ASSUME NEW c \in Clients, nodeClient'[c].pc = "waits" PROVE Contains(waiters', c)
    <3>1. Contains(waiters, c)
      BY <1>1, <1>2, <2>1 DEF WaitersQueued
    <3> QED
      BY <3>1 DEF Contains
  <2> QED
    BY <2>1 DEF WaitersQueued
<1> QED
  BY <1>2, <1>3, <1>4

\* A call that finds no socket dials one, and only then.
LEMMA CallKeeps ==
  ASSUME NodeInv, NEW c \in Clients, NEW op \in {"read", "write"}, NEW n \in Nat, Call(c, op, n)
  PROVE  NodeInv'
<1> USE DEF Call
<1>1. NodeTyped /\ WaitersQueued /\ OneSocket /\ ClosedForGood
  BY DEF NodeInv
<1>2. nodeClient' \in [Clients -> NodeClients] /\ WaitersQueued'
      /\ \A d \in Clients : nodeClient'[d].pc = "waits" => nodeClient[d].pc = "waits"
  <2>1. nodeClient \in [Clients -> NodeClients]
    BY <1>1 DEF NodeTyped
  <2> DEFINE x == [pc |-> IF isClosed /\ socket = 0 THEN "idle" ELSE "awaits",
                   op |-> op, n |-> n, calls |-> nodeClient[c].calls + 1]
  <2>2. x \in NodeClients /\ x.pc # "waits"
    BY <2>1 DEF NodeClients
  <2>3. nodeClient' = [nodeClient EXCEPT ![c] = x]
    OBVIOUS
  <2> HIDE DEF x
  <2>4. \A d \in Clients : nodeClient'[d].pc = "waits" => nodeClient[d].pc = "waits"
    BY <2>1, <2>2, <2>3
  <2>5. waiters' = waiters
    OBVIOUS
  <2> QED
    BY <1>1, <2>1, <2>2, <2>3, <2>4, <2>5 DEF WaitersQueued, Contains
<1>3. /\ sockets' \in Seq(SocketStates) /\ dialing' \in 0..Len(sockets')
      /\ Len(sockets) <= Len(sockets') /\ Len(sockets) \in Nat /\ Len(sockets') \in Nat
      /\ OneSocket'
  <2>1. CASE socket = 0 /\ ~isClosed /\ dialing = 0
    <3>1. sockets' = Append(sockets, "dialing") /\ dialing' = Len(sockets')
          /\ socket' = socket /\ isClosed' = isClosed
      BY <2>1
    <3>2. sockets \in Seq(SocketStates) /\ "dialing" \in SocketStates
      BY <1>1 DEF NodeTyped, SocketStates
    <3>3. /\ sockets' \in Seq(SocketStates) /\ Len(sockets') = Len(sockets) + 1
          /\ \A s \in 1..Len(sockets) : sockets'[s] = sockets[s]
          /\ sockets'[Len(sockets) + 1] = "dialing"
      BY <3>1, <3>2, AppendProperties
    <3>4. Len(sockets) \in Nat /\ DOMAIN sockets = 1..Len(sockets)
          /\ DOMAIN sockets' = 1..Len(sockets')
      BY <3>2, <3>3
    <3>5. OneSocket'
      <4>1. ASSUME NEW s \in 1..Len(sockets)
            PROVE  sockets'[s] \notin {"dialing", "open"}
        BY <1>1, <2>1, <3>3, <3>4 DEF OneSocket
      <4>2. \A s \in DOMAIN sockets' : s \in 1..Len(sockets) \/ s = Len(sockets) + 1
        BY <3>3, <3>4
      <4> QED
        BY <2>1, <3>1, <3>3, <4>1, <4>2 DEF OneSocket
    <3>6. dialing' \in 0..Len(sockets') /\ Len(sockets) <= Len(sockets') /\ Len(sockets') \in Nat
      BY ONLY <3>1, <3>3, <3>4
    <3> QED
      BY <3>3, <3>4, <3>5, <3>6
  <2>2. CASE ~(socket = 0 /\ ~isClosed /\ dialing = 0)
    <3>1. UNCHANGED <<sockets, dialing, socket, isClosed>>
      BY <2>2
    <3> QED
      BY <1>1, <3>1 DEF NodeTyped, OneSocket
  <2> QED
    BY <2>1, <2>2
<1>4. UNCHANGED <<socket, buffer, waiters, isClosed, peerSent, taken>>
  OBVIOUS
<1>5. NodeTyped'
  BY <1>1, <1>2, <1>3, <1>4 DEF NodeTyped
<1>6. ClosedForGood'
  <2>1. taken' \o buffer' = [i \in 1..peerSent' |-> i]
    BY <1>1, <1>4 DEF ClosedForGood
  <2>2. isClosed' => UNCHANGED sockets
    BY <1>4
  <2>3. ASSUME isClosed', NEW d \in Clients PROVE nodeClient'[d].pc # "waits"
    BY <1>1, <1>2, <1>4, <2>3 DEF ClosedForGood
  <2> QED
    BY <1>1, <1>4, <2>1, <2>2, <2>3 DEF ClosedForGood
<1> QED
  BY <1>2, <1>3, <1>5, <1>6 DEF NodeInv

\* A socket connects, and is taken only before close().
LEMMA DialedKeeps ==
  ASSUME NodeInv, NEW s \in DOMAIN sockets, Dialed(s)
  PROVE  NodeInv'
<1> USE DEF Dialed
<1>1. NodeTyped /\ WaitersQueued /\ OneSocket /\ ClosedForGood
  BY DEF NodeInv
<1>2. sockets[s] = "dialing" /\ UNCHANGED <<dialing, buffer, waiters, isClosed, peerSent, taken>>
  OBVIOUS
<1>3. sockets \in Seq(SocketStates) /\ Len(sockets) \in Nat /\ DOMAIN sockets = 1..Len(sockets)
  BY <1>1 DEF NodeTyped
<1>4. taken' \o buffer' = [i \in 1..peerSent' |-> i]
  BY <1>1, <1>2 DEF ClosedForGood
<1>5. CASE isClosed
  <2>1. /\ sockets' = [sockets EXCEPT ![s] = "destroyed"] /\ UNCHANGED socket
        /\ nodeClient' = [c \in Clients |-> IF nodeClient[c].pc = "awaits" /\ socket = 0
                            THEN [nodeClient[c] EXCEPT !.pc = "idle"] ELSE nodeClient[c]]
    BY <1>5
  <2>2. /\ sockets' \in Seq(SocketStates) /\ Len(sockets') = Len(sockets)
        /\ DOMAIN sockets' = DOMAIN sockets /\ sockets'[s] = "destroyed"
        /\ \A x \in DOMAIN sockets : x # s => sockets'[x] = sockets[x]
    BY <1>3, <2>1, ExceptSeq DEF SocketStates
  <2> DEFINE K == {c \in Clients : nodeClient[c].pc = "awaits" /\ socket = 0}
  <2>3. K \in SUBSET Clients
    OBVIOUS
  <2>4. nodeClient' = [c \in Clients |-> IF c \in K
                        THEN [nodeClient[c] EXCEPT !.pc = "idle"] ELSE nodeClient[c]]
    BY <2>1
  <2> HIDE DEF K
  <2>5. /\ nodeClient' \in [Clients -> NodeClients] /\ WaitersQueued'
        /\ \A c \in Clients : nodeClient'[c].pc = "waits" => nodeClient[c].pc = "waits"
    BY <1>2, <2>3, <2>4, CallersRest
  <2>6. NodeTyped'
    BY <1>1, <1>2, <2>1, <2>2, <2>5 DEF NodeTyped
  <2>7. OneSocket'
    BY <1>1, <1>2, <1>5, <2>1, <2>2 DEF OneSocket
  <2>8. ClosedForGood'
    BY <1>1, <1>2, <1>4, <1>5, <2>2, <2>5 DEF ClosedForGood
  <2> QED
    BY <2>5, <2>6, <2>7, <2>8 DEF NodeInv
<1>6. CASE ~isClosed
  <2>1. sockets' = [sockets EXCEPT ![s] = "open"] /\ socket' = s /\ UNCHANGED nodeClient
    BY <1>6
  <2>2. /\ sockets' \in Seq(SocketStates) /\ Len(sockets') = Len(sockets)
        /\ DOMAIN sockets' = DOMAIN sockets /\ sockets'[s] = "open"
        /\ \A x \in DOMAIN sockets : x # s => sockets'[x] = sockets[x]
    BY <1>3, <2>1, ExceptSeq DEF SocketStates
  <2>3. NodeTyped'
    <3>1. s \in 0..Len(sockets)
      BY <1>3
    <3> QED
      BY <1>1, <1>2, <2>1, <2>2, <3>1 DEF NodeTyped
  <2>4. WaitersQueued'
    BY <1>1, <1>2, <2>1 DEF WaitersQueued, Contains
  <2>5. OneSocket'
    <3>1. s = dialing /\ \A x \in DOMAIN sockets : x # s => sockets[x] \notin {"dialing", "open"}
      BY <1>1, <1>2, <1>6 DEF OneSocket
    <3> QED
      BY <1>2, <1>6, <2>1, <2>2, <3>1 DEF OneSocket
  <2>6. ClosedForGood'
    BY <1>2, <1>4, <1>6 DEF ClosedForGood
  <2> QED
    BY <2>3, <2>4, <2>5, <2>6 DEF NodeInv
<1> QED
  BY <1>5, <1>6

\* A socket does not connect: none is dialed any more.
LEMMA DialFailsKeeps ==
  ASSUME NodeInv, NEW s \in DOMAIN sockets, DialFails(s)
  PROVE  NodeInv'
<1> USE DEF DialFails
<1>1. NodeTyped /\ WaitersQueued /\ OneSocket /\ ClosedForGood
  BY DEF NodeInv
<1>2. /\ sockets[s] = "dialing" /\ sockets' = [sockets EXCEPT ![s] = "destroyed"] /\ dialing' = 0
      /\ nodeClient' = [c \in Clients |-> IF nodeClient[c].pc = "awaits"
                  THEN [nodeClient[c] EXCEPT !.pc = "idle"] ELSE nodeClient[c]]
      /\ UNCHANGED <<socket, buffer, waiters, isClosed, peerSent, taken>>
  OBVIOUS
<1>3. sockets \in Seq(SocketStates) /\ Len(sockets) \in Nat /\ DOMAIN sockets = 1..Len(sockets)
  BY <1>1 DEF NodeTyped
<1>4. taken' \o buffer' = [i \in 1..peerSent' |-> i]
  BY <1>1, <1>2 DEF ClosedForGood
<1>5. /\ sockets' \in Seq(SocketStates) /\ Len(sockets') = Len(sockets)
      /\ DOMAIN sockets' = DOMAIN sockets /\ sockets'[s] = "destroyed"
      /\ \A x \in DOMAIN sockets : x # s => sockets'[x] = sockets[x]
  BY <1>3, <1>2, ExceptSeq DEF SocketStates
<1> DEFINE K == {c \in Clients : nodeClient[c].pc = "awaits"}
<1>6. K \in SUBSET Clients
  OBVIOUS
<1>7. nodeClient' = [c \in Clients |-> IF c \in K
                      THEN [nodeClient[c] EXCEPT !.pc = "idle"] ELSE nodeClient[c]]
  BY <1>2
<1> HIDE DEF K
<1>8. /\ nodeClient' \in [Clients -> NodeClients] /\ WaitersQueued'
      /\ \A c \in Clients : nodeClient'[c].pc = "waits" => nodeClient[c].pc = "waits"
  BY <1>2, <1>6, <1>7, CallersRest
<1>9. NodeTyped'
  <2>1. 0 \in 0..Len(sockets')
    BY <1>3, <1>5
  <2> QED
    BY <1>1, <1>2, <1>5, <1>8, <2>1 DEF NodeTyped
<1>10. OneSocket'
  BY <1>1, <1>2, <1>5 DEF OneSocket
<1>11. ClosedForGood'
  BY <1>1, <1>2, <1>4, <1>5, <1>8 DEF ClosedForGood
<1> QED
  BY <1>8, <1>9, <1>10, <1>11 DEF NodeInv

\* The caller of a step that sets its place alone.
LEMMA SetTyped ==
  ASSUME NodeTyped, NEW c \in Clients, NEW pc \in {"idle", "awaits", "waits"}, Set(c, pc)
  PROVE  /\ nodeClient' \in [Clients -> NodeClients]
         /\ \A d \in Clients : nodeClient'[d].pc = IF d = c THEN pc ELSE nodeClient[d].pc
<1>1. nodeClient \in [Clients -> NodeClients]
  BY DEF NodeTyped
<1>2. nodeClient' = [nodeClient EXCEPT ![c].pc = pc]
  BY DEF Set
<1>3. [nodeClient[c] EXCEPT !.pc = pc] \in NodeClients /\ [nodeClient[c] EXCEPT !.pc = pc].pc = pc
  BY <1>1 DEF NodeClients
<1> QED
  BY <1>1, <1>2, <1>3

\* A read goes on: with the bytes that are there, or waiting for more.
LEMMA ReadOnKeeps ==
  ASSUME NodeInv, NEW c \in Clients, ReadOn(c)
  PROVE  NodeInv'
<1> USE DEF ReadOn
<1>1. NodeTyped /\ WaitersQueued /\ OneSocket /\ ClosedForGood
  BY DEF NodeInv
<1>2. UNCHANGED <<sockets, socket, dialing, isClosed, peerSent>>
  OBVIOUS
<1>3. OneSocket'
  BY <1>1, <1>2 DEF OneSocket
<1>4. /\ buffer \in Seq(Nat) /\ taken \in Seq(Nat) /\ waiters \in Seq(Clients)
      /\ Len(buffer) \in Nat /\ nodeClient[c].n \in Nat
      /\ taken \o buffer = [i \in 1..peerSent |-> i]
  BY <1>1 DEF NodeTyped, NodeClients, ClosedForGood
<1>5. CASE isClosed
  <2>1. Set(c, "idle") /\ UNCHANGED <<buffer, waiters, taken>>
    BY <1>5
  <2>2. /\ nodeClient' \in [Clients -> NodeClients]
        /\ \A d \in Clients : nodeClient'[d].pc = IF d = c THEN "idle" ELSE nodeClient[d].pc
    BY <1>1, <2>1, SetTyped
  <2>3. NodeTyped'
    BY <1>1, <1>2, <2>1, <2>2 DEF NodeTyped
  <2>4. WaitersQueued'
    BY <1>1, <2>1, <2>2 DEF WaitersQueued, Contains
  <2>5. ClosedForGood'
    BY <1>1, <1>2, <2>1, <2>2 DEF ClosedForGood
  <2> QED
    BY <1>3, <2>3, <2>4, <2>5 DEF NodeInv
<1>6. CASE ~isClosed /\ Len(buffer) >= nodeClient[c].n
  <2> DEFINE n == nodeClient[c].n
  <2>1. /\ taken' = taken \o SubSeq(buffer, 1, n) /\ buffer' = SubSeq(buffer, n + 1, Len(buffer))
        /\ Set(c, "idle") /\ UNCHANGED waiters
    BY <1>6
  <2>2. /\ nodeClient' \in [Clients -> NodeClients]
        /\ \A d \in Clients : nodeClient'[d].pc = IF d = c THEN "idle" ELSE nodeClient[d].pc
    BY <1>1, <2>1, SetTyped
  <2>3. n \in 0..Len(buffer)
    BY <1>4, <1>6
  <2> HIDE DEF n
  <2>4. taken' \in Seq(Nat) /\ buffer' \in Seq(Nat) /\ taken' \o buffer' = taken \o buffer
    BY <1>4, <2>1, <2>3, BytesMove
  <2>5. NodeTyped'
    BY <1>1, <1>2, <2>1, <2>2, <2>4 DEF NodeTyped
  <2>6. WaitersQueued'
    BY <1>1, <2>1, <2>2 DEF WaitersQueued, Contains
  <2>7. ClosedForGood'
    BY <1>2, <1>4, <1>6, <2>4 DEF ClosedForGood
  <2> QED
    BY <1>3, <2>5, <2>6, <2>7 DEF NodeInv
<1>7. CASE ~isClosed /\ ~(Len(buffer) >= nodeClient[c].n)
  <2>1. waiters' = Append(waiters, c) /\ Set(c, "waits") /\ UNCHANGED <<taken, buffer>>
    BY <1>7
  <2>2. /\ nodeClient' \in [Clients -> NodeClients]
        /\ \A d \in Clients : nodeClient'[d].pc = IF d = c THEN "waits" ELSE nodeClient[d].pc
    BY <1>1, <2>1, SetTyped
  <2>3. /\ waiters' \in Seq(Clients) /\ Len(waiters') = Len(waiters) + 1 /\ Len(waiters) \in Nat
        /\ \A i \in 1..Len(waiters) : waiters'[i] = waiters[i]
        /\ waiters'[Len(waiters) + 1] = c
    BY <1>4, <2>1, AppendProperties
  <2>4. NodeTyped'
    BY <1>1, <1>2, <2>1, <2>2, <2>3 DEF NodeTyped
  <2>5. WaitersQueued'
    <3>1. ASSUME NEW d \in Clients, nodeClient'[d].pc = "waits" PROVE Contains(waiters', d)
      <4>1. CASE d = c
        BY <2>3, <4>1 DEF Contains
      <4>2. CASE d # c
        <5>1. PICK i \in 1..Len(waiters) : waiters[i] = d
          BY <1>1, <2>2, <3>1, <4>2 DEF WaitersQueued, Contains
        <5>2. i \in 1..Len(waiters') /\ waiters'[i] = d
          BY <2>3, <5>1
        <5> QED
          BY <5>2 DEF Contains
      <4> QED
        BY <4>1, <4>2
    <3> QED
      BY <3>1 DEF WaitersQueued
  <2>6. ClosedForGood'
    BY <1>2, <1>4, <1>7, <2>1 DEF ClosedForGood
  <2> QED
    BY <1>3, <2>4, <2>5, <2>6 DEF NodeInv
<1> QED
  BY <1>5, <1>6, <1>7

\* A write that goes on changes nothing but its caller's place.
LEMMA WriteOnKeeps ==
  ASSUME NodeInv, NEW c \in Clients, WriteOn(c)
  PROVE  NodeInv'
<1>1. NodeTyped /\ WaitersQueued /\ OneSocket /\ ClosedForGood
  BY DEF NodeInv
<1>2. /\ Set(c, "idle")
      /\ UNCHANGED <<sockets, socket, dialing, buffer, waiters, isClosed, peerSent, taken>>
  BY DEF WriteOn
<1>3. /\ nodeClient' \in [Clients -> NodeClients]
      /\ \A d \in Clients : nodeClient'[d].pc = IF d = c THEN "idle" ELSE nodeClient[d].pc
  BY <1>1, <1>2, SetTyped
<1>4. NodeTyped'
  BY <1>1, <1>2, <1>3 DEF NodeTyped
<1>5. WaitersQueued' /\ OneSocket'
  BY <1>1, <1>2, <1>3 DEF WaitersQueued, Contains, OneSocket
<1>6. ClosedForGood'
  BY <1>1, <1>2, <1>3 DEF ClosedForGood
<1> QED
  BY <1>4, <1>5, <1>6 DEF NodeInv

\* Bytes arrive and resolve the oldest reads; the others go on waiting.
LEMMA SocketDataKeeps ==
  ASSUME NodeInv, NEW n \in Nat, SocketData(n)
  PROVE  NodeInv'
<1>1. NodeTyped /\ WaitersQueued /\ OneSocket /\ ClosedForGood
  BY DEF NodeInv
<1>2. /\ UNCHANGED <<sockets, socket, dialing, isClosed>> /\ peerSent' = peerSent + n /\ socket # 0
  BY DEF SocketData
<1> DEFINE bytes == buffer \o [i \in 1..n |-> peerSent + i]
<1>0. PICK k \in 0..Len(waiters) : \E cut \in [0..k -> 0..Len(bytes)] : ServeReads(k, cut, bytes)
  BY DEF SocketData
<1>3. PICK cut \in [0..k -> 0..Len(bytes)] : ServeReads(k, cut, bytes)
  BY <1>0
<1>4. /\ buffer \in Seq(Nat) /\ taken \in Seq(Nat) /\ waiters \in Seq(Clients) /\ peerSent \in Nat
      /\ Len(waiters) \in Nat /\ nodeClient \in [Clients -> NodeClients]
  BY <1>1 DEF NodeTyped
<1>5. bytes \in Seq(Nat) /\ taken \o bytes = BytesTo(peerSent + n)
  <2>1. taken \o buffer = BytesTo(peerSent)
    BY <1>1 DEF ClosedForGood, BytesTo
  <2> QED
    BY <1>4, <2>1, BytesArrive, ZenonT(60)
<1> HIDE DEF bytes
<1>6. cut[k] \in 0..Len(bytes)
  BY <1>3, <1>4
<1>7. taken' = taken \o SubSeq(bytes, 1, cut[k]) /\ buffer' = SubSeq(bytes, cut[k] + 1, Len(bytes))
  BY <1>3 DEF ServeReads
<1>8. taken' \in Seq(Nat) /\ buffer' \in Seq(Nat) /\ taken' \o buffer' = BytesTo(peerSent + n)
  BY <1>4, <1>5, <1>6, <1>7, BytesMove
<1>9. /\ waiters' = SubSeq(waiters, k + 1, Len(waiters))
      /\ nodeClient' = [c \in Clients |-> IF \E i \in 1..k : waiters[i] = c
                          THEN [nodeClient[c] EXCEPT !.pc = "idle"] ELSE nodeClient[c]]
  BY <1>3 DEF ServeReads
<1>10. /\ waiters' \in Seq(Clients) /\ Len(waiters') = Len(waiters) - k
       /\ \A i \in 1..(Len(waiters) - k) : waiters'[i] = waiters[k + i]
  BY <1>3, <1>4, <1>9, SubSeqProperties, SMTT(30)
<1>11. ASSUME NEW c \in Clients
       PROVE  /\ nodeClient'[c] \in NodeClients
              /\ nodeClient'[c].pc = "waits" =>
                   nodeClient[c].pc = "waits" /\ ~\E i \in 1..k : waiters[i] = c
  <2>1. CASE \E i \in 1..k : waiters[i] = c
    <3>1. nodeClient'[c] = [nodeClient[c] EXCEPT !.pc = "idle"]
      BY <1>9, <2>1
    <3> QED
      BY <1>4, <3>1 DEF NodeClients
  <2>2. CASE ~\E i \in 1..k : waiters[i] = c
    <3>1. nodeClient'[c] = nodeClient[c]
      BY <1>9, <2>2
    <3> QED
      BY <1>4, <2>2, <3>1
  <2> QED
    BY <2>1, <2>2
<1>12. NodeTyped'
  <2>1. nodeClient' \in [Clients -> NodeClients]
    BY <1>9, <1>11
  <2>2. peerSent' \in Nat
    BY <1>2, <1>4
  <2> QED
    BY <1>1, <1>2, <1>8, <1>10, <2>1, <2>2 DEF NodeTyped
<1>13. WaitersQueued'
  <2>1. ASSUME NEW c \in Clients, nodeClient'[c].pc = "waits" PROVE Contains(waiters', c)
    <3>1. PICK i \in 1..Len(waiters) : waiters[i] = c
      BY <1>1, <1>11, <2>1 DEF WaitersQueued, Contains
    <3>2. i > k
      BY <1>3, <1>4, <1>11, <2>1, <3>1
    <3>3. i - k \in 1..Len(waiters') /\ waiters'[i - k] = c
      BY <1>3, <1>4, <1>10, <3>1, <3>2
    <3> QED
      BY <3>3 DEF Contains
  <2> QED
    BY <2>1 DEF WaitersQueued
<1>14. OneSocket'
  BY <1>1, <1>2 DEF OneSocket
<1>15. ClosedForGood'
  <2>1. taken' \o buffer' = [i \in 1..peerSent' |-> i]
    BY <1>2, <1>8 DEF BytesTo
  <2>2. isClosed' => \A c \in Clients : nodeClient'[c].pc # "waits"
    BY <1>1, <1>2, <1>11 DEF ClosedForGood
  <2> QED
    BY <1>1, <1>2, <2>1, <2>2 DEF ClosedForGood
<1> QED
  BY <1>12, <1>13, <1>14, <1>15 DEF NodeInv

\* Every read that waits fails, and nobody waits any more.
LEMMA FailedTyped ==
  ASSUME NodeInv, nodeClient' = Failed, waiters' = <<>>
  PROVE  /\ nodeClient' \in [Clients -> NodeClients] /\ WaitersQueued'
         /\ \A c \in Clients : nodeClient'[c].pc # "waits"
         /\ waiters' \in Seq(Clients)
<1>1. nodeClient \in [Clients -> NodeClients] /\ WaitersQueued
  BY DEF NodeInv, NodeTyped
<1>2. ASSUME NEW c \in Clients
      PROVE  nodeClient'[c] \in NodeClients /\ nodeClient'[c].pc # "waits"
  <2>1. CASE Contains(waiters, c)
    <3>1. nodeClient'[c] = [nodeClient[c] EXCEPT !.pc = "idle"]
      BY <2>1 DEF Failed
    <3> QED
      BY <1>1, <3>1 DEF NodeClients
  <2>2. CASE ~Contains(waiters, c)
    <3>1. nodeClient'[c] = nodeClient[c]
      BY <2>2 DEF Failed
    <3> QED
      BY <1>1, <2>2, <3>1 DEF WaitersQueued
  <2> QED
    BY <2>1, <2>2
<1>3. nodeClient' \in [Clients -> NodeClients]
  BY <1>2 DEF Failed
<1> QED
  BY <1>2, <1>3 DEF WaitersQueued

\* The peer ends the socket: none is open.
LEMMA SocketCloseKeeps == ASSUME NodeInv, SocketClose PROVE NodeInv'
<1>1. NodeTyped /\ WaitersQueued /\ OneSocket /\ ClosedForGood
  BY DEF NodeInv
<1>2. /\ socket # 0 /\ sockets' = [sockets EXCEPT ![socket] = "ended"] /\ socket' = 0
      /\ nodeClient' = Failed /\ waiters' = <<>>
      /\ UNCHANGED <<dialing, buffer, isClosed, peerSent, taken>>
  BY DEF SocketClose
<1>3. /\ sockets \in Seq(SocketStates) /\ Len(sockets) \in Nat /\ DOMAIN sockets = 1..Len(sockets)
      /\ socket \in 1..Len(sockets)
  BY <1>1, <1>2 DEF NodeTyped
<1>4. /\ sockets' \in Seq(SocketStates) /\ Len(sockets') = Len(sockets)
      /\ DOMAIN sockets' = DOMAIN sockets /\ sockets'[socket] = "ended"
      /\ \A x \in DOMAIN sockets : x # socket => sockets'[x] = sockets[x]
  BY <1>3, <1>2, ExceptSeq DEF SocketStates
<1>5. /\ nodeClient' \in [Clients -> NodeClients] /\ WaitersQueued'
      /\ \A c \in Clients : nodeClient'[c].pc # "waits"
      /\ waiters' \in Seq(Clients)
  BY <1>2, FailedTyped
<1>6. NodeTyped'
  <2>1. socket' \in 0..Len(sockets')
    BY <1>2, <1>3, <1>4
  <2> QED
    BY <1>1, <1>2, <1>4, <1>5, <2>1 DEF NodeTyped
<1>7. OneSocket'
  <2>1. \A x \in DOMAIN sockets : sockets'[x] # "open"
    BY <1>1, <1>4 DEF OneSocket
  <2> QED
    BY <1>1, <1>2, <1>4, <2>1 DEF OneSocket
<1>8. ClosedForGood'
  <2>1. taken' \o buffer' = [i \in 1..peerSent' |-> i]
    BY <1>1, <1>2 DEF ClosedForGood
  <2>2. \A x \in DOMAIN sockets' : sockets'[x] # "open"
    BY <1>1, <1>4 DEF OneSocket
  <2> QED
    BY <1>5, <2>1, <2>2 DEF ClosedForGood
<1> QED
  BY <1>5, <1>6, <1>7, <1>8 DEF NodeInv

\* close(): the open socket is destroyed, and the field forgets it.
LEMMA CloseTransportKeeps == ASSUME NodeInv, CloseTransport PROVE NodeInv'
<1>1. NodeTyped /\ WaitersQueued /\ OneSocket /\ ClosedForGood
  BY DEF NodeInv
<1>2. /\ isClosed' = TRUE /\ nodeClient' = Failed /\ waiters' = <<>> /\ dialing' = 0 /\ socket' = 0
      /\ sockets' = IF socket = 0 THEN sockets ELSE [sockets EXCEPT ![socket] = "destroyed"]
      /\ UNCHANGED <<buffer, peerSent, taken>>
  BY DEF CloseTransport
<1>3. /\ sockets \in Seq(SocketStates) /\ Len(sockets) \in Nat /\ DOMAIN sockets = 1..Len(sockets)
      /\ socket \in 0..Len(sockets)
  BY <1>1 DEF NodeTyped
<1>4. /\ sockets' \in Seq(SocketStates) /\ Len(sockets') = Len(sockets)
      /\ DOMAIN sockets' = DOMAIN sockets
      /\ \A x \in DOMAIN sockets : sockets'[x] # "open"
  <2>1. CASE socket = 0
    BY <1>1, <1>2, <1>3, <2>1 DEF OneSocket
  <2>2. CASE socket # 0
    <3>1. /\ sockets' \in Seq(SocketStates) /\ Len(sockets') = Len(sockets)
          /\ DOMAIN sockets' = DOMAIN sockets /\ sockets'[socket] = "destroyed"
          /\ \A x \in DOMAIN sockets : x # socket => sockets'[x] = sockets[x]
      BY <1>2, <1>3, <2>2, ExceptSeq DEF SocketStates
    <3> QED
      BY <1>1, <3>1 DEF OneSocket
  <2> QED
    BY <2>1, <2>2
<1>5. /\ nodeClient' \in [Clients -> NodeClients] /\ WaitersQueued'
      /\ \A c \in Clients : nodeClient'[c].pc # "waits"
      /\ waiters' \in Seq(Clients)
  BY <1>2, FailedTyped
<1>6. NodeTyped'
  <2>1. socket' \in 0..Len(sockets') /\ dialing' \in 0..Len(sockets')
    BY <1>2, <1>3, <1>4
  <2>2. isClosed' \in BOOLEAN
    BY <1>2, Zenon
  <2> QED
    BY <1>1, <1>2, <1>4, <1>5, <2>1, <2>2 DEF NodeTyped
<1>7. OneSocket'
  BY <1>2, <1>4 DEF OneSocket
<1>8. ClosedForGood'
  <2>1. taken' \o buffer' = [i \in 1..peerSent' |-> i]
    BY <1>1, <1>2 DEF ClosedForGood
  <2> QED
    BY <1>4, <1>5, <2>1 DEF ClosedForGood
<1> QED
  BY <1>5, <1>6, <1>7, <1>8 DEF NodeInv

\* No step of TcpTransport breaks the invariant.
LEMMA NodeKeeps == NodeInv /\ [NodeNext]_nodeVars => NodeInv'
<1> SUFFICES ASSUME NodeInv, [NodeNext]_nodeVars PROVE NodeInv'
  OBVIOUS
<1>1. CASE UNCHANGED nodeVars
  <2>1. NodeTyped' /\ WaitersQueued' /\ OneSocket' /\ ClosedForGood'
    BY <1>1 DEF nodeVars, NodeInv, NodeTyped, WaitersQueued, Contains, OneSocket, ClosedForGood
  <2> QED
    BY <2>1 DEF NodeInv
<1>2. CASE NodeNext
  <2>1. ASSUME NEW c \in Clients, NEW n \in Sizes, Call(c, "read", n) PROVE NodeInv'
    BY <2>1, CallKeeps, NodeTransportAssumption
  <2>2. ASSUME NEW c \in Clients, Call(c, "write", 0) PROVE NodeInv'
    BY <2>2, CallKeeps
  <2>3. ASSUME NEW c \in Clients, ReadOn(c) PROVE NodeInv'
    BY <2>3, ReadOnKeeps
  <2>4. ASSUME NEW c \in Clients, WriteOn(c) PROVE NodeInv'
    BY <2>4, WriteOnKeeps
  <2>5. ASSUME NEW s \in DOMAIN sockets, Dialed(s) PROVE NodeInv'
    BY <2>5, DialedKeeps
  <2>6. ASSUME NEW s \in DOMAIN sockets, DialFails(s) PROVE NodeInv'
    BY <2>6, DialFailsKeeps
  <2>7. ASSUME NEW n \in 1..2, SocketData(n) PROVE NodeInv'
    BY <2>7, SocketDataKeeps
  <2>8. CASE SocketClose
    BY <2>8, SocketCloseKeeps
  <2>9. CASE CloseTransport
    BY <2>9, CloseTransportKeeps
  <2> QED
    BY <1>2, <2>1, <2>2, <2>3, <2>4, <2>5, <2>6, <2>7, <2>8, <2>9 DEF NodeNext
<1> QED
  BY <1>1, <1>2

\* After close(), whatever is dialed or arrives later, no read waits and no
\* socket is open, and reads return the peer's bytes in order: for any number
\* of callers, calls, sockets and bytes.
THEOREM ClosedStaysClosed == NodeSpec => []ClosedForGood
<1>1. NodeInit => NodeInv
  BY NodeStarts
<1>2. NodeInv /\ [NodeNext]_nodeVars => NodeInv'
  BY NodeKeeps
<1>3. NodeInv => ClosedForGood
  BY DEF NodeInv
<1> QED
  BY <1>1, <1>2, <1>3, PTL DEF NodeSpec

\* Reads that wait are those of clients, and the socket of the transport is one
\* that it dialed.
THEOREM NodeTypesCorrect == NodeSpec => []NodeTypeOK
<1>1. NodeInit => NodeInv
  BY NodeStarts
<1>2. NodeInv /\ [NodeNext]_nodeVars => NodeInv'
  BY NodeKeeps
<1>3. NodeInv => NodeTypeOK
  BY DEF NodeInv, NodeTyped, NodeClients, NodeTypeOK
<1> QED
  BY <1>1, <1>2, <1>3, PTL DEF NodeSpec

-----------------------------------------------------------------------------
(* NodeTransport implements the stream that MuxTcp implements too.         *)

NodeBytes ==
  INSTANCE ByteStream WITH
    sent <- peerSent, got <- Len(taken) + Len(buffer), read <- Len(taken),
    ended <- isClosed
NodeImplements == NodeBytes!StreamSpec

\* Two lists that make up the first m bytes are m bytes long.
LEMMA BytesCount ==
  ASSUME NEW t \in Seq(Nat), NEW b \in Seq(Nat), NEW m \in Nat, t \o b = BytesTo(m)
  PROVE  Len(t) \in Nat /\ Len(b) \in Nat /\ Len(t) + Len(b) = m
<1>1. Len(t) \in Nat /\ Len(b) \in Nat /\ Len(t \o b) = Len(t) + Len(b)
  BY ConcatProperties
<1>2. Len(BytesTo(m)) = m
  BY DEF BytesTo
<1> QED
  BY <1>1, <1>2

\* What a read takes from the front makes the list as much longer.
LEMMA TakenCount ==
  ASSUME NEW t \in Seq(Nat), NEW b \in Seq(Nat), NEW k \in 0..Len(b)
  PROVE  Len(t \o SubSeq(b, 1, k)) = Len(t) + k
<1> DEFINE x == SubSeq(b, 1, k)
<1>1. \A i \in 1..k : b[i] \in Nat
  OBVIOUS
<1>2. x \in Seq(Nat) /\ Len(x) = IF 1 <= k THEN k - 1 + 1 ELSE 0
  BY <1>1, SubSeqProperties
<1> HIDE DEF x
<1>3. Len(t \o x) = Len(t) + Len(x)
  BY <1>2, ConcatProperties
<1> QED
  BY <1>2, <1>3 DEF x

\* In every state, what was taken from the socket is what the peer has sent.
LEMMA NodeCounts ==
  ASSUME NodeInv
  PROVE  /\ Len(taken) \in Nat /\ Len(buffer) \in Nat /\ peerSent \in Nat
         /\ Len(taken) + Len(buffer) = peerSent
BY BytesCount DEF NodeInv, NodeTyped, ClosedForGood, BytesTo

\* And in the next one.
LEMMA NodeCountsNext ==
  ASSUME NodeInv'
  PROVE  /\ Len(taken') \in Nat /\ Len(buffer') \in Nat /\ peerSent' \in Nat
         /\ Len(taken') + Len(buffer') = peerSent'
<1> DEFINE t == taken'
           b == buffer'
           m == peerSent'
<1>1. t \in Seq(Nat) /\ b \in Seq(Nat) /\ m \in Nat /\ t \o b = BytesTo(m)
  BY DEF NodeInv, NodeTyped, ClosedForGood, BytesTo
<1> HIDE DEF t, b, m
<1>2. Len(t) \in Nat /\ Len(b) \in Nat /\ Len(t) + Len(b) = m
  BY <1>1, BytesCount
<1> QED
  BY <1>1, <1>2 DEF t, b, m

\* A read that goes on reads, or leaves the stream as it is.
LEMMA ReadOnReads ==
  ASSUME NodeInv, NodeInv', NEW c \in Clients, ReadOn(c)
  PROVE  NodeBytes!Read \/ UNCHANGED <<peerSent, taken, buffer, isClosed>>
<1> DEFINE n == nodeClient[c].n
<1>1. UNCHANGED <<peerSent, isClosed>>
  BY DEF ReadOn
<1>2. \/ UNCHANGED <<buffer, taken>>
      \/ /\ Len(buffer) >= n /\ taken' = taken \o SubSeq(buffer, 1, n)
         /\ buffer' = SubSeq(buffer, n + 1, Len(buffer))
  BY DEF ReadOn
<1>3. CASE UNCHANGED <<buffer, taken>>
  BY <1>1, <1>3
<1>4. CASE Len(buffer) >= n /\ taken' = taken \o SubSeq(buffer, 1, n)
           /\ buffer' = SubSeq(buffer, n + 1, Len(buffer))
  <2>1. n \in Nat /\ buffer \in Seq(Nat) /\ taken \in Seq(Nat)
    BY DEF NodeInv, NodeTyped, NodeClients
  <2> HIDE DEF n
  <2>2. n \in 0..Len(buffer)
    BY <1>4, <2>1
  <2>3. Len(taken') = Len(taken) + n
    BY <1>4, <2>1, <2>2, TakenCount
  <2>4. /\ Len(taken) \in Nat /\ Len(buffer) \in Nat
        /\ Len(taken) + Len(buffer) = peerSent
    BY NodeCounts
  <2>5. Len(taken') + Len(buffer') = peerSent'
    BY NodeCountsNext
  <2>6. CASE n = 0
    <3>1. taken' = taken /\ buffer' = buffer
      <4>1. taken' \o buffer' = taken \o buffer
        BY <1>4, <2>1, <2>2, BytesMove
      <4>2. taken' = taken \o <<>>
        <5>1. SubSeq(buffer, 1, n) = <<>>
          BY ONLY <2>6, SubSeqEmpty, 1 \in Int, 0 \in Int, 0 < 1
        <5> QED
          BY <1>4, <5>1
      <4>3. taken' = taken
        BY <2>1, <4>2, ConcatEmptySeq
      <4>4. buffer' = SubSeq(buffer, 1, Len(buffer))
        BY <1>4, <2>6
      <4>5. SubSeq(buffer, 1, Len(buffer)) = buffer
        BY <2>1, SubSeqFull
      <4> QED
        BY <4>3, <4>4, <4>5
    <3> QED
      BY <1>1, <3>1
  <2>7. CASE n # 0
    <3>1. Len(taken') \in (Len(taken) + 1)..(Len(taken) + Len(buffer))
      BY <2>1, <2>2, <2>3, <2>4, <2>7
    <3>2. Len(taken') + Len(buffer') = Len(taken) + Len(buffer)
      BY <1>1, <2>4, <2>5
    <3> QED
      BY <1>1, <3>1, <3>2 DEF NodeBytes!Read
  <2> QED
    BY <2>6, <2>7
<1> QED
  BY <1>2, <1>3, <1>4

\* The socket's bytes are taken as they arrive, and may be read at once.
LEMMA SocketDataGets ==
  ASSUME NodeInv, NodeInv', NEW n \in 1..2, SocketData(n)
  PROVE  NodeBytes!SendAndGet
<1>1. UNCHANGED isClosed /\ peerSent' = peerSent + n /\ socket # 0
  BY DEF SocketData
<1>2. ~isClosed
  <2>1. socket \in 1..Len(sockets) /\ DOMAIN sockets = 1..Len(sockets)
    BY <1>1 DEF NodeInv, NodeTyped
  <2> QED
    BY <1>1, <2>1 DEF NodeInv, OneSocket
<1> DEFINE bytes == buffer \o [i \in 1..n |-> peerSent + i]
<1>3. PICK k \in 0..Len(waiters) : \E cut \in [0..k -> 0..Len(bytes)] : ServeReads(k, cut, bytes)
  BY DEF SocketData
<1>4. PICK cut \in [0..k -> 0..Len(bytes)] : ServeReads(k, cut, bytes)
  BY <1>3
<1>5. taken' = taken \o SubSeq(bytes, 1, cut[k])
  BY <1>4 DEF ServeReads
<1>6. /\ Len(taken) \in Nat /\ Len(buffer) \in Nat /\ peerSent \in Nat
      /\ Len(taken) + Len(buffer) = peerSent
  BY NodeCounts
<1>7. /\ Len(taken') \in Nat /\ Len(buffer') \in Nat /\ peerSent' \in Nat
      /\ Len(taken') + Len(buffer') = peerSent'
  BY NodeCountsNext
<1>8. Len(taken') >= Len(taken)
  <2>1. taken \in Seq(Nat) /\ buffer \in Seq(Nat) /\ taken \o buffer = BytesTo(peerSent)
        /\ waiters \in Seq(Clients)
    BY DEF NodeInv, NodeTyped, ClosedForGood, BytesTo
  <2>2. bytes \in Seq(Nat)
    BY <1>6, <2>1, BytesArrive
  <2> HIDE DEF bytes
  <2>3. cut[k] \in 0..Len(bytes)
    BY <1>3, <1>4, <2>1
  <2>4. Len(taken') = Len(taken) + cut[k]
    BY <1>5, <2>1, <2>2, <2>3, TakenCount
  <2> QED
    BY <1>6, <2>2, <2>3, <2>4
<1>9. Len(taken') \in Len(taken)..(Len(taken') + Len(buffer'))
  <2> DEFINE a == Len(taken')
             b == Len(buffer')
  <2>1. a \in Nat /\ b \in Nat /\ a >= Len(taken)
    BY <1>7, <1>8
  <2> HIDE DEF a, b
  <2>2. a \in Len(taken)..(a + b)
    BY <1>6, <2>1
  <2> QED
    BY <2>2 DEF a, b
<1>10. peerSent' > peerSent
  BY <1>1, <1>6
<1> QED
  BY <1>1, <1>2, <1>6, <1>7, <1>9, <1>10 DEF NodeBytes!SendAndGet

\* What the reads of a TcpTransport return is a prefix of what arrived, byte by
\* byte, from the first one on, whoever reads in whatever sizes, and nothing is
\* taken after close(): TcpTransport keeps the promise that MuxTcpConnection
\* keeps, and the device client may run over either.
THEOREM NodeIsByteStream == NodeSpec => NodeImplements
<1>1. NodeInit => NodeInv
  BY NodeStarts
<1>2. NodeInv /\ [NodeNext]_nodeVars => NodeInv'
  BY NodeKeeps
<1>3. NodeInit => NodeBytes!StreamInit
  BY DEF NodeInit, NodeBytes!StreamInit
<1>4. NodeInv /\ NodeInv' /\ [NodeNext]_nodeVars
        => [NodeBytes!StreamNext]_(NodeBytes!streamVars)
  <2> SUFFICES ASSUME NodeInv, NodeInv', [NodeNext]_nodeVars
               PROVE  [NodeBytes!StreamNext]_(NodeBytes!streamVars)
    OBVIOUS
  <2>1. CASE UNCHANGED <<peerSent, taken, buffer, isClosed>>
    BY <2>1 DEF NodeBytes!streamVars
  <2>2. ASSUME NEW c \in Clients, ReadOn(c)
        PROVE  [NodeBytes!StreamNext]_(NodeBytes!streamVars)
    BY <2>1, <2>2, ReadOnReads DEF NodeBytes!StreamNext
  <2>3. ASSUME NEW n \in 1..2, SocketData(n)
        PROVE  [NodeBytes!StreamNext]_(NodeBytes!streamVars)
    BY <2>3, SocketDataGets DEF NodeBytes!StreamNext
  <2>4. CASE CloseTransport
    BY <2>4 DEF CloseTransport, NodeBytes!StreamNext, NodeBytes!End
  <2>5. ASSUME NEW c \in Clients,
               WriteOn(c) \/ Call(c, "write", 0) \/ \E n \in Sizes : Call(c, "read", n)
        PROVE  UNCHANGED <<peerSent, taken, buffer, isClosed>>
    BY <2>5 DEF WriteOn, Call
  <2>6. ASSUME SocketClose \/ UNCHANGED nodeVars
               \/ \E s \in DOMAIN sockets : Dialed(s) \/ DialFails(s)
        PROVE  UNCHANGED <<peerSent, taken, buffer, isClosed>>
    BY <2>6 DEF SocketClose, nodeVars, Dialed, DialFails
  <2> QED
    BY <2>1, <2>2, <2>3, <2>4, <2>5, <2>6 DEF NodeNext
<1> QED
  BY <1>1, <1>2, <1>3, <1>4, PTL DEF NodeSpec, NodeImplements, NodeBytes!StreamSpec

=============================================================================
