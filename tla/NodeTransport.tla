---------------------------- MODULE NodeTransport ----------------------------
(***************************************************************************)
(* Class TcpTransport (src/pairing/webusb-mux.ts): a stream over a socket  *)
(* that the first read or write dials, with reads that wait for bytes, and *)
(* close() at any moment.  Callers read and write at once; a caller awaits *)
(* its own calls.                                                          *)
(*                                                                         *)
(* Between the await of ensureConnected() and what follows it other        *)
(* callers and close() may run; the rest of each call is one step.         *)
(***************************************************************************)
EXTENDS Integers, Sequences, FiniteSets, SequencesExt

CONSTANTS
  Clients,  \* who reads and writes
  Sizes,    \* lengths that they read
  MaxBytes, \* bound: bytes the peer sends
  MaxDials, \* bound: sockets ever made
  MaxOps    \* bound: calls that a client makes

ASSUME NodeTransportAssumption ==
  /\ Sizes \subseteq Nat \ {0} /\ MaxBytes \in Nat /\ MaxDials \in Nat /\ MaxOps \in Nat

VARIABLES
  nodeClient,   \* [pc, op, n, calls]; pc "awaits" the socket, "waits" for bytes
  sockets,  \* states of the sockets made: "dialing", "open", "ended", "destroyed"
  socket,   \* the field, 0 for null
  dialing,  \* the promise of which socket, 0 for null
  buffer,   \* recvBuffer: bytes, numbered as the peer sent them
  waiters,  \* clients that wait for bytes, oldest first
  isClosed, \* the field `closed`
  peerSent, \* bytes that the peer has sent
  taken     \* bytes that reads have returned, in their order

nodeVars == <<nodeClient, sockets, socket, dialing, buffer, waiters, isClosed, peerSent, taken>>

NodeInit ==
  /\ nodeClient = [c \in Clients |-> [pc |-> "idle", op |-> "none", n |-> 0, calls |-> 0]]
  /\ sockets = <<>> /\ socket = 0 /\ dialing = 0
  /\ buffer = <<>> /\ waiters = <<>> /\ isClosed = FALSE
  /\ peerSent = 0 /\ taken = <<>>

Set(c, pc) == nodeClient' = [nodeClient EXCEPT ![c].pc = pc]

-----------------------------------------------------------------------------
(* Dialing                                                                 *)

\* read(n) or write(): up to the await of ensureConnected()
Call(c, op, n) ==
  /\ nodeClient[c].pc = "idle" /\ nodeClient[c].calls < MaxOps
  /\ nodeClient' = [nodeClient EXCEPT ![c] =
       [pc |-> IF isClosed /\ socket = 0 THEN "idle" ELSE "awaits",
        op |-> op, n |-> n, calls |-> @.calls + 1]]
  /\ IF socket = 0 /\ ~isClosed /\ dialing = 0
       THEN /\ Len(sockets) < MaxDials
            /\ sockets' = Append(sockets, "dialing")
            /\ dialing' = Len(sockets')
       ELSE UNCHANGED <<sockets, dialing>>
  /\ UNCHANGED <<socket, buffer, waiters, isClosed, peerSent, taken>>

\* (mutant) the socket is taken without a look at `closed`
DialedUnchecked(s) ==
  /\ sockets[s] = "dialing"
  /\ sockets' = [sockets EXCEPT ![s] = "open"]
  /\ socket' = s
  /\ UNCHANGED <<nodeClient, dialing, buffer, waiters, isClosed, peerSent, taken>>

\* The socket connects; close() may have come before.
Dialed(s) ==
  /\ sockets[s] = "dialing"
  /\ IF isClosed
       THEN /\ sockets' = [sockets EXCEPT ![s] = "destroyed"]
            /\ nodeClient' = [c \in Clients |-> IF nodeClient[c].pc = "awaits" /\ socket = 0
                            THEN [nodeClient[c] EXCEPT !.pc = "idle"] ELSE nodeClient[c]]
            /\ UNCHANGED socket
       ELSE /\ sockets' = [sockets EXCEPT ![s] = "open"]
            /\ socket' = s
            /\ UNCHANGED nodeClient
  /\ UNCHANGED <<dialing, buffer, waiters, isClosed, peerSent, taken>>

\* It does not: whoever awaits it fails, and the next call dials again.
DialFails(s) ==
  /\ sockets[s] = "dialing"
  /\ sockets' = [sockets EXCEPT ![s] = "destroyed"]
  /\ dialing' = 0
  /\ nodeClient' = [c \in Clients |-> IF nodeClient[c].pc = "awaits"
                  THEN [nodeClient[c] EXCEPT !.pc = "idle"] ELSE nodeClient[c]]
  /\ UNCHANGED <<socket, buffer, waiters, isClosed, peerSent, taken>>

-----------------------------------------------------------------------------
(* Reading and writing                                                     *)

\* ensureConnected() has resolved: with the field, or with the promise of a
\* socket that may have ended since
Connected == socket # 0 \/ (dialing # 0 /\ sockets[dialing] \in {"open", "ended"})

\* (mutant) the read goes on after close()
ReadOnClosed(c) ==
  /\ nodeClient[c].pc = "awaits" /\ nodeClient[c].op = "read" /\ (Connected \/ isClosed)
  /\ IF Len(buffer) >= nodeClient[c].n
       THEN /\ taken' = taken \o SubSeq(buffer, 1, nodeClient[c].n)
            /\ buffer' = SubSeq(buffer, nodeClient[c].n + 1, Len(buffer))
            /\ Set(c, "idle") /\ UNCHANGED waiters
       ELSE waiters' = Append(waiters, c) /\ Set(c, "waits") /\ UNCHANGED <<taken, buffer>>
  /\ UNCHANGED <<sockets, socket, dialing, isClosed, peerSent>>

\* The rest of read(): what is there, or a place among those who wait.
ReadOn(c) ==
  /\ nodeClient[c].pc = "awaits" /\ nodeClient[c].op = "read"
  /\ Connected \/ isClosed
  /\ IF isClosed THEN Set(c, "idle") /\ UNCHANGED <<buffer, waiters, taken>>
     ELSE IF Len(buffer) >= nodeClient[c].n
       THEN /\ taken' = taken \o SubSeq(buffer, 1, nodeClient[c].n)
            /\ buffer' = SubSeq(buffer, nodeClient[c].n + 1, Len(buffer))
            /\ Set(c, "idle") /\ UNCHANGED waiters
     ELSE waiters' = Append(waiters, c) /\ Set(c, "waits") /\ UNCHANGED <<taken, buffer>>
  /\ UNCHANGED <<sockets, socket, dialing, isClosed, peerSent>>

\* The rest of write(): the socket takes it or reports an error.
WriteOn(c) ==
  /\ nodeClient[c].pc = "awaits" /\ nodeClient[c].op = "write"
  /\ Connected \/ isClosed
  /\ Set(c, "idle")
  /\ UNCHANGED <<sockets, socket, dialing, buffer, waiters, isClosed, peerSent, taken>>

\* onSocketData() with these bytes buffered resolves the first k reads, the
\* i-th with the bytes between cut[i - 1] and cut[i].
ServeReads(k, cut, bytes) ==
  /\ cut[0] = 0 /\ \A i \in 1..k : cut[i] = cut[i - 1] + nodeClient[waiters[i]].n
  /\ k < Len(waiters) => cut[k] + nodeClient[waiters[k + 1]].n > Len(bytes)
  /\ taken' = taken \o SubSeq(bytes, 1, cut[k])
  /\ buffer' = SubSeq(bytes, cut[k] + 1, Len(bytes))
  /\ waiters' = SubSeq(waiters, k + 1, Len(waiters))
  /\ nodeClient' = [c \in Clients |-> IF \E i \in 1..k : waiters[i] = c
                   THEN [nodeClient[c] EXCEPT !.pc = "idle"] ELSE nodeClient[c]]

SocketData(n) ==
  /\ socket # 0 /\ peerSent + n <= MaxBytes
  /\ LET bytes == buffer \o [i \in 1..n |-> peerSent + i] IN
     \E k \in 0..Len(waiters) : \E cut \in [0..k -> 0..Len(bytes)] : ServeReads(k, cut, bytes)
  /\ peerSent' = peerSent + n
  /\ UNCHANGED <<sockets, socket, dialing, isClosed>>

-----------------------------------------------------------------------------
(* The end                                                                 *)

\* failAll()
Failed == [c \in Clients |-> IF Contains(waiters, c)
             THEN [nodeClient[c] EXCEPT !.pc = "idle"] ELSE nodeClient[c]]

\* onSocketClose(): `dialing` stays, and with it the promise of this socket
SocketClose ==
  /\ socket # 0
  /\ sockets' = [sockets EXCEPT ![socket] = "ended"]
  /\ socket' = 0
  /\ nodeClient' = Failed /\ waiters' = <<>>
  /\ UNCHANGED <<dialing, buffer, isClosed, peerSent, taken>>

CloseTransport ==
  /\ ~isClosed /\ isClosed' = TRUE
  /\ nodeClient' = Failed /\ waiters' = <<>>
  /\ dialing' = 0 /\ socket' = 0
  /\ sockets' = IF socket = 0 THEN sockets ELSE [sockets EXCEPT ![socket] = "destroyed"]
  /\ UNCHANGED <<buffer, peerSent, taken>>

NodeNext ==
  \/ \E c \in Clients : \/ \E n \in Sizes : Call(c, "read", n)
                        \/ Call(c, "write", 0) \/ ReadOn(c) \/ WriteOn(c)
  \/ \E s \in DOMAIN sockets : Dialed(s) \/ DialFails(s)
  \/ \E n \in 1..2 : SocketData(n)
  \/ SocketClose \/ CloseTransport

NodeSpec == NodeInit /\ [][NodeNext]_nodeVars

-----------------------------------------------------------------------------
(* Properties                                                              *)

NodeTypeOK ==
  /\ \A c \in Clients : nodeClient[c].pc \in {"idle", "awaits", "waits"}
  /\ socket \in 0..Len(sockets) /\ dialing \in 0..Len(sockets)
  /\ \A i \in DOMAIN waiters : waiters[i] \in Clients

\* After close(), whenever it came, no read waits and every socket that was
\* dialed is destroyed or has ended, as soon as its dialing is over; and what
\* the reads returned is what the peer sent, in its order.
ClosedForGood ==
  /\ isClosed => /\ \A c \in Clients : nodeClient[c].pc # "waits"
                 /\ \A s \in DOMAIN sockets : sockets[s] # "open"
  /\ taken \o buffer = [i \in 1..peerSent |-> i]

=============================================================================
