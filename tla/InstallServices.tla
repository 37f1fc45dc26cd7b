-------------------------- MODULE InstallServices --------------------------
(***************************************************************************)
(* src/pairing/afc.ts and installation-proxy.ts: installIpa() stages a     *)
(* package over AFC and has it installed, browse() lists what is there.    *)
(* The two services of the device are external.  A package is the sequence *)
(* of its chunks.                                                          *)
(***************************************************************************)
EXTENDS Integers, Sequences

CONSTANTS
  PackageChunks,     \* chunks of a package, of AFC_WRITE_CHUNK_SIZE
  MaxProxyMessages \* MAX_INSTALL_MESSAGES

ASSUME ServicesAssumption == PackageChunks \in Nat /\ MaxProxyMessages \in Nat \ {0}

VARIABLES
  afc,    \* AfcClient and installIpa()'s place in it
  afcd,   \* the AFC service: request, reply, the staged file, handles
  proxy,  \* InstallationProxyClient
  proxyd  \* the installation service: messages on the way, what it installed

servicesVars == <<afc, afcd, proxy, proxyd>>

Package == [i \in 1..PackageChunks |-> i]
Leftover == <<0>>
NoPacket == [op |-> "none", num |-> 0, arg |-> 0, result |-> "none"]

\* a file of this name may have been left there before
ServicesInit ==
  /\ afc = [pc |-> "start", num |-> 0, sent |-> 0]
  /\ \E file \in {<<>>, Leftover} :
       afcd = [packet |-> NoPacket, reply |-> NoPacket, file |-> file,
               handle |-> FALSE, up |-> TRUE]
  /\ \E op \in {"install", "browse"} :
       proxy = [op |-> op, pc |-> "idle", count |-> 0, apps |-> {}]
  /\ proxyd = [wire |-> <<>>, up |-> TRUE, busy |-> FALSE, installed |-> <<>>]

-----------------------------------------------------------------------------
(* AfcClient                                                               *)

\* request(): a packet with the next number, and a reply that must have it
AfcRequest(a, op, arg) ==
  IF afcd.up
  THEN /\ afc' = [a EXCEPT !.pc = op, !.num = @ + 1]
       /\ afcd' = [afcd EXCEPT !.packet = [op |-> op, num |-> a.num, arg |-> arg,
                                           result |-> "none"], !.reply = NoPacket]
  ELSE /\ afc' = [a EXCEPT !.pc = "failed"] /\ UNCHANGED afcd

AfcFails == afc' = [afc EXCEPT !.pc = "failed"] /\ UNCHANGED afcd

\* the reply to the request of `op`: readPacket() and the number's check
AfcReply(op, r) ==
  /\ afc.pc = op /\ afcd.reply # NoPacket
  /\ r = IF afcd.reply.num = afc.num - 1 THEN afcd.reply.result ELSE "mismatch"
  /\ UNCHANGED <<proxy, proxyd>>

\* makeDirectory() of the staging directory, which may be there
MakeDirectory ==
  /\ afc.pc = "start" /\ proxy.op = "install" /\ AfcRequest(afc, "MakeDir", 0)
  /\ UNCHANGED <<proxy, proxyd>>

\* uploadFile() begins
FileOpen(r) ==
  /\ AfcReply("MakeDir", r)
  /\ IF r \in {"ok", "exists"} THEN AfcRequest(afc, "FileOpen", 0) ELSE AfcFails

\* the next chunk, or the end of the file
NextChunk(a) ==
  IF a.sent < PackageChunks THEN AfcRequest(a, "Write", a.sent + 1)
  ELSE AfcRequest(a, "FileClose", 0)

FileOpened(r) ==
  /\ AfcReply("FileOpen", r)
  /\ IF r = "ok" THEN NextChunk(afc) ELSE AfcFails

\* (mutant) the status of a Write is not looked at
WrittenUnchecked(r) == AfcReply("Write", r) /\ NextChunk([afc EXCEPT !.sent = @ + 1])

\* a chunk is there; otherwise the handle is closed and the error thrown
Written(r) ==
  /\ AfcReply("Write", r)
  /\ IF r = "ok" THEN NextChunk([afc EXCEPT !.sent = @ + 1])
     ELSE AfcRequest(afc, "Abandon", 0)

Abandoned(r) == AfcReply("Abandon", r) /\ AfcFails

FileClosed(r) ==
  /\ AfcReply("FileClose", r)
  /\ IF r = "ok" THEN afc' = [afc EXCEPT !.pc = "staged"] /\ UNCHANGED afcd ELSE AfcFails

\* the stream ends under a read that has no timeout of its own
AfcStreamEnds ==
  /\ ~afcd.up /\ afc.pc \in {"MakeDir", "FileOpen", "Write", "Abandon", "FileClose"}
  /\ AfcFails /\ UNCHANGED <<proxy, proxyd>>

-----------------------------------------------------------------------------
(* InstallationProxyClient                                                 *)

Waiting == proxy.pc = "waiting"
ProxyEnds(pc) == proxy' = [proxy EXCEPT !.pc = pc]

\* the Install command of installIpa(), once the package is staged, or Browse
SendCommand ==
  /\ proxy.pc = "idle"
  /\ proxy.op = "install" => afc.pc = "staged"
  /\ IF proxyd.up
     THEN /\ ProxyEnds("waiting")
          /\ proxyd' = [proxyd EXCEPT !.busy = TRUE,
               !.installed = IF proxy.op = "install" THEN afcd.file ELSE @]
     ELSE ProxyEnds("failed") /\ UNCHANGED proxyd
  /\ UNCHANGED <<afc, afcd>>

\* (mutant) a status does not count
MessageUncounted(m) ==
  /\ Waiting /\ proxyd.wire # <<>> /\ m = Head(proxyd.wire)
  /\ proxyd' = [proxyd EXCEPT !.wire = Tail(@)]
  /\ proxy' = CASE m = "error" -> [proxy EXCEPT !.pc = "failed"]
                [] m = "Complete" -> [proxy EXCEPT !.pc = "complete"]
                [] OTHER -> proxy
  /\ UNCHANGED <<afc, afcd>>

\* a message: a status, the end, an error, or a list of applications; at most
\* MAX_INSTALL_MESSAGES of them
ProxyMessage(m) ==
  /\ Waiting /\ proxyd.wire # <<>> /\ m = Head(proxyd.wire)
  /\ proxyd' = [proxyd EXCEPT !.wire = Tail(@)]
  /\ proxy' = CASE m = "error" -> [proxy EXCEPT !.pc = "failed"]
                [] m = "Complete" -> [proxy EXCEPT !.pc = "complete"]
                [] OTHER -> [proxy EXCEPT !.count = @ + 1,
                      !.pc = IF proxy.count + 1 = MaxProxyMessages THEN "failed" ELSE @,
                      !.apps = IF m = "list" /\ proxy.op = "browse" THEN @ \cup {m} ELSE @]
  /\ UNCHANGED <<afc, afcd>>

\* readPlistWithTimeout(): no message in time, or the stream ends
MessageTimeout ==
  /\ Waiting /\ proxyd.wire = <<>> /\ ProxyEnds("failed")
  /\ UNCHANGED <<afc, afcd, proxyd>>

-----------------------------------------------------------------------------
(* The services of the device, external                                    *)

\* It carries out a request, or answers with an error; the answer to a request
\* that it takes for another carries a wrong number.
AfcServes(result) ==
  /\ afcd.up /\ afcd.packet # NoPacket
  /\ LET p == afcd.packet
         does == result \in {"ok", "wrong number"}
     IN /\ result = "exists" => p.op = "MakeDir"
        /\ afcd' = [afcd EXCEPT !.packet = NoPacket,
             !.reply = [p EXCEPT !.result = result,
                                 !.num = IF result = "wrong number" THEN @ + 1 ELSE @],
             !.handle = CASE p.op = "FileOpen" /\ does -> TRUE
                          [] p.op \in {"FileClose", "Abandon"} /\ does -> FALSE
                          [] OTHER -> @,
             !.file = CASE p.op = "FileOpen" /\ does -> <<>>
                        [] p.op = "Write" /\ does -> Append(@, p.arg)
                        [] OTHER -> @]
  /\ UNCHANGED <<afc, proxy, proxyd>>

ProxySends(m) ==
  /\ proxyd.busy /\ proxyd.up /\ proxyd.wire = <<>>
  /\ m = "list" => proxy.op = "browse"
  /\ proxyd' = [proxyd EXCEPT !.wire = Append(@, m), !.busy = m \in {"status", "list"}]
  /\ UNCHANGED <<afc, afcd, proxy>>

LinkLost ==
  /\ afcd.up \/ proxyd.up
  /\ afcd' = [afcd EXCEPT !.up = FALSE] /\ proxyd' = [proxyd EXCEPT !.up = FALSE]
  /\ UNCHANGED <<afc, proxy>>

AfcResults == {"ok", "exists", "error", "wrong number"}

ProxyStep ==
  SendCommand \/ MessageTimeout \/ \E m \in {"status", "list", "Complete", "error"} : ProxyMessage(m)

ServicesNext ==
  \/ MakeDirectory \/ AfcStreamEnds \/ LinkLost \/ ProxyStep
  \/ \E r \in AfcResults \cup {"mismatch"} :
       FileOpen(r) \/ FileOpened(r) \/ Written(r) \/ Abandoned(r) \/ FileClosed(r)
  \/ \E result \in AfcResults : AfcServes(result)
  \/ \E m \in {"status", "list", "Complete", "error"} : ProxySends(m)

\* The client runs on and its timer fires; the device may never answer.
ServicesSpec ==
  ServicesInit /\ [][ServicesNext]_servicesVars /\ WF_servicesVars(ProxyStep)

-----------------------------------------------------------------------------
(* Properties                                                              *)

ServicesTypeOK ==
  /\ afc.pc \in {"start", "MakeDir", "FileOpen", "Write", "Abandon", "FileClose",
                 "staged", "failed"}
  /\ afc.sent \in 0..PackageChunks /\ Len(afcd.file) <= PackageChunks + 1
  /\ proxy.pc \in {"idle", "waiting", "complete", "failed"}
  /\ proxy.count \in 0..MaxProxyMessages

\* installation_proxy is only told to install a file that is the package, all
\* of it and nothing else, and that nobody has open: whatever failed on the way
\* and whatever an earlier installation left there under the same name.
PackageWhole ==
  proxyd.installed # <<>> => proxyd.installed = Package /\ ~afcd.handle

\* An installation or a listing comes to an end: a device that goes silent is
\* timed out, one that never stops sending is cut off.
InstallEnds == Waiting ~> (proxy.pc \in {"complete", "failed"})

=============================================================================
