----------------------------- MODULE WispRelay -----------------------------
(***************************************************************************)
(* A TCP stream of the WISP backend (backend/src/index.ts): MessagePump,   *)
(* the queue between the socket and wisp-js, and CfTcpSocket, whose        *)
(* close() may be under way twice.  A chunk is its position in the stream. *)
(* Readers are the calls of recv() that wisp-js may have.                  *)
(***************************************************************************)
EXTENDS Integers, Sequences, FiniteSets, SequencesExt

CONSTANTS
  Readers,      \* calls of recv() under way at one time
  MaxChunks,    \* bound: chunks the server sends
  MaxSends      \* bound: calls of send()

ASSUME WispRelayAssumption ==
  Readers # {} /\ {MaxChunks, MaxSends} \subseteq Nat

VARIABLES
  pump,    \* buffered, waiters, drained; pushed and got are its history
  tcp,     \* the CfTcpSocket: its fields, and forwardInbound()
  remote,  \* the connection: chunks on their way, its end, writes
  closer   \* where each close() is: that of the loop and that of wisp-js

relayVars == <<pump, tcp, remote, closer>>

Closers == {"loop", "wisp"}

RelayInit ==
  /\ pump = [buffered |-> <<>>, waiters |-> <<>>, drained |-> FALSE,
             pushed |-> <<>>, got |-> <<>>]
  /\ tcp = [fields |-> FALSE, reader |-> "none", writer |-> "none",
            socket |-> "none", loop |-> "off"]
  /\ remote = [chunks |-> 0, left |-> MaxChunks, end |-> "no",
               queued |-> <<>>, sends |-> 0, wrote |-> <<>>]
  /\ closer = [k \in Closers |-> "off"]

-----------------------------------------------------------------------------
(* MessagePump                                                             *)

\* (mutant) the newest chunk is taken first
NextOfLast(p, r) ==
  CASE p.buffered # <<>> ->
         [p EXCEPT !.buffered = Front(@), !.got = Append(@, Last(p.buffered))]
    [] p.buffered = <<>> /\ p.drained -> p
    [] OTHER -> [p EXCEPT !.waiters = Append(@, r)]

Push(p, value) ==
  LET q == [p EXCEPT !.pushed = Append(@, value)] IN
  CASE p.drained -> p
    [] ~p.drained /\ p.waiters # <<>> ->
         [q EXCEPT !.waiters = Tail(@), !.got = Append(@, value)]
    [] OTHER -> [q EXCEPT !.buffered = Append(@, value)]

NextOf(p, r) ==
  CASE p.buffered # <<>> ->
         [p EXCEPT !.buffered = Tail(@), !.got = Append(@, Head(p.buffered))]
    [] p.buffered = <<>> /\ p.drained -> p
    [] OTHER -> [p EXCEPT !.waiters = Append(@, r)]

Drain(p) ==
  IF p.drained THEN p
  ELSE [p EXCEPT !.drained = TRUE, !.waiters = <<>>, !.buffered = <<>>]

-----------------------------------------------------------------------------
(* CfTcpSocket                                                             *)

Connect ==
  /\ tcp.loop = "off"
  /\ tcp' = [fields |-> TRUE, reader |-> "open", writer |-> "open",
             socket |-> "open", loop |-> "reading"]
  /\ UNCHANGED <<pump, remote, closer>>

\* recv(): a reader that already waits makes no second call
Recv(r) ==
  /\ r \notin Range(pump.waiters)
  /\ pump' = NextOf(pump, r)
  /\ UNCHANGED <<tcp, remote, closer>>

\* send(): fails without a writer, and on one that closes
Send ==
  /\ remote.sends < MaxSends
  /\ tcp.fields /\ tcp.writer = "open"
  /\ remote' = [remote EXCEPT !.sends = @ + 1,
                              !.queued = Append(@, remote.sends + 1)]
  /\ UNCHANGED <<pump, tcp, closer>>

\* a read of forwardInbound() answers with a chunk
Forward ==
  /\ tcp.loop = "reading" /\ tcp.fields /\ tcp.reader = "open"
  /\ remote.chunks > 0
  /\ pump' = Push(pump, MaxChunks - remote.left - remote.chunks + 1)
  /\ remote' = [remote EXCEPT !.chunks = @ - 1]
  /\ UNCHANGED <<tcp, closer>>

\* (mutant) the loop ends without its finally
ForwardEndsBare ==
  /\ tcp.loop = "reading" /\ remote.end # "no"
  /\ tcp' = [tcp EXCEPT !.loop = "ended"]
  /\ UNCHANGED <<pump, remote, closer>>

\* it answers done, or fails, or the field is gone: drain() and close()
ForwardEnds ==
  /\ tcp.loop = "reading"
  /\ \/ remote.end # "no" /\ remote.chunks = 0
     \/ remote.end = "error"
     \/ tcp.reader = "cancelled"
     \/ ~tcp.fields
  /\ tcp' = [tcp EXCEPT !.loop = "ended"]
  /\ pump' = Drain(pump)
  /\ closer' = [closer EXCEPT !["loop"] = "start"]
  /\ UNCHANGED remote

\* wisp-js closes the stream
WispCloses ==
  /\ closer["wisp"] = "off"
  /\ closer' = [closer EXCEPT !["wisp"] = "start"]
  /\ UNCHANGED <<pump, tcp, remote>>

\* close(): drain(), and cancel() of the reader
CloseDrains(k) ==
  /\ closer[k] = "start"
  /\ pump' = Drain(pump)
  /\ tcp' = [tcp EXCEPT !.reader = IF tcp.fields THEN "cancelled" ELSE @]
  /\ remote' = [remote EXCEPT !.chunks = IF tcp.fields THEN 0 ELSE @]
  /\ closer' = [closer EXCEPT ![k] = "cancelled"]

\* close() of the writer: refused when it is closing already
CloseWriter(k) ==
  /\ closer[k] = "cancelled"
  /\ IF tcp.fields /\ tcp.writer = "open"
     THEN /\ tcp' = [tcp EXCEPT !.writer = "closing"]
          /\ closer' = [closer EXCEPT ![k] = "flushing"]
     ELSE /\ closer' = [closer EXCEPT ![k] = "flushed"]
          /\ UNCHANGED tcp
  /\ UNCHANGED <<pump, remote>>

WriterClosed(k) ==
  /\ closer[k] = "flushing"
  /\ remote.queued = <<>> \/ remote.end = "error" \/ tcp.socket = "closed"
  /\ closer' = [closer EXCEPT ![k] = "flushed"]
  /\ tcp' = [tcp EXCEPT !.writer = "closed"]
  /\ UNCHANGED <<pump, remote>>

\* close() of the socket, which gives up writes not flushed; then the fields
CloseSocket(k) ==
  /\ closer[k] = "flushed"
  /\ tcp' = [tcp EXCEPT !.socket = IF tcp.fields THEN "closed" ELSE @]
  /\ remote' = [remote EXCEPT !.queued = IF tcp.fields THEN <<>> ELSE @]
  /\ closer' = [closer EXCEPT ![k] = "closing"]
  /\ UNCHANGED pump

Forget(k) ==
  /\ closer[k] = "closing"
  /\ tcp' = [tcp EXCEPT !.fields = FALSE]
  /\ closer' = [closer EXCEPT ![k] = "done"]
  /\ UNCHANGED <<pump, remote>>

-----------------------------------------------------------------------------
(* The TCP connection, external                                            *)

Alive == tcp.socket = "open" /\ remote.end = "no"

ServerSends ==
  /\ Alive /\ remote.left > 0 /\ tcp.reader = "open"
  /\ remote' = [remote EXCEPT !.left = @ - 1, !.chunks = @ + 1]
  /\ UNCHANGED <<pump, tcp, closer>>

\* An error loses the writes that were queued.
ServerEnds(how) ==
  /\ Alive
  /\ remote' = [remote EXCEPT !.end = how,
                              !.queued = IF how = "error" THEN <<>> ELSE @]
  /\ UNCHANGED <<pump, tcp, closer>>

Flush ==
  /\ tcp.socket = "open" /\ remote.end # "error" /\ remote.queued # <<>>
  /\ remote' = [remote EXCEPT !.queued = Tail(@),
                              !.wrote = Append(@, Head(remote.queued))]
  /\ UNCHANGED <<pump, tcp, closer>>

-----------------------------------------------------------------------------
RelayLoop == Forward \/ ForwardEnds

CloseStep(k) ==
  CloseDrains(k) \/ CloseWriter(k) \/ WriterClosed(k) \/ CloseSocket(k)
    \/ Forget(k)

RelayNext ==
  \/ Connect \/ Send \/ RelayLoop \/ WispCloses
  \/ \E r \in Readers : Recv(r)
  \/ \E k \in Closers : CloseStep(k)
  \/ ServerSends \/ Flush \/ \E how \in {"eof", "error"} : ServerEnds(how)

\* The loop runs on as its reads answer; nothing makes a server send or end.
RelaySpec ==
  RelayInit /\ [][RelayNext]_relayVars /\ WF_relayVars(RelayLoop)

-----------------------------------------------------------------------------
(* Properties                                                              *)

RelayTypeOK ==
  /\ pump.buffered \in Seq(1..MaxChunks) /\ pump.waiters \in Seq(Readers)
  /\ pump.drained \in BOOLEAN
  /\ tcp.reader \in {"none", "open", "cancelled"}
  /\ tcp.writer \in {"none", "open", "closing", "closed"}
  /\ tcp.loop \in {"off", "reading", "ended"}
  /\ remote.chunks + remote.left <= MaxChunks

\* The pump is a FIFO channel that is cut once: what recv() returns are the
\* chunks of the socket in order, without a gap, and none after the cut.
Channel ==
  INSTANCE FifoChannel WITH
    sent <- pump.pushed, taken <- pump.got, cut <- pump.drained
PumpIsChannel == Channel!ChannelSpec

\* A recv() that waits when the server ends the connection gets its answer.
RecvEnds ==
  (remote.end # "no" /\ tcp.loop = "reading") ~> pump.waiters = <<>>

=============================================================================
