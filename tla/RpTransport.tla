---------------------------- MODULE RpTransport ----------------------------
(***************************************************************************)
(* WispRpTransport (app/src/flows/remote-pair.ts), a byte stream over a    *)
(* WebSocket, and readFrame() of src/pairing/remote-pairing.ts above it:   *)
(* magic, length and body are three reads.  The device's frames are cut    *)
(* into messages anywhere.  A byte is its position in the stream.          *)
(***************************************************************************)
EXTENDS Integers, Sequences

CONSTANTS
  Magic,     \* the length of RPPAIRING_MAGIC, 9 in the code
  LenBytes,  \* the length of the length field, 2 in the code
  Offsets,   \* where each frame of the device starts, and where the last one ends
  Writes     \* bound: calls of write()

ASSUME RpTransportAssumption ==
  /\ Magic \in Nat \ {0} /\ LenBytes \in Nat \ {0} /\ Writes \in Nat
  /\ Offsets \in Seq(Nat) /\ Offsets # <<>> /\ Offsets[1] = 0
  /\ \A i, j \in DOMAIN Offsets : i < j => Offsets[i] + Magic + LenBytes <= Offsets[j]

VARIABLES
  sock,   \* the WebSocket, the field that holds it, `closed`, writes
  inbox,  \* bytes that came, bytes handed out, the read that waits
  frame   \* readFrame(): what it reads, from where, and the frames it got

rpVars == <<sock, inbox, frame>>

Frames == 1..(Len(Offsets) - 1)
Total == Offsets[Len(Offsets)]

RpInit ==
  /\ sock = [ws |-> "none", held |-> FALSE, closed |-> FALSE, wrote |-> 0]
  /\ inbox = [came |-> 0, taken |-> 0, wait |-> 0]
  /\ frame = [pc |-> "idle", got |-> <<>>, result |-> "none"]

-----------------------------------------------------------------------------
(* WispRpTransport                                                         *)

\* connect(): fails without a URL or when the socket reports an error first
ConnectRp(how) ==
  /\ sock.ws = "none"
  /\ sock' = IF how = "open" THEN [sock EXCEPT !.ws = "open", !.held = TRUE]
             ELSE [sock EXCEPT !.ws = "failed"]
  /\ UNCHANGED <<inbox, frame>>

\* drain(): the read that waits gets its bytes when there are enough
DrainRp(b) ==
  IF b.wait > 0 /\ b.came - b.taken >= b.wait
  THEN [b EXCEPT !.taken = @ + b.wait, !.wait = 0] ELSE b

\* onMessage(): the handlers stay on the socket after close()
OnMessage(n) ==
  /\ sock.ws \in {"open", "closing"} /\ n > 0 /\ inbox.came + n <= Total
  /\ inbox' = DrainRp([inbox EXCEPT !.came = @ + n])
  /\ UNCHANGED <<sock, frame>>

\* onClose(), the socket's close or error event: those who wait are rejected
OnClose ==
  /\ sock.ws \in {"open", "closing"}
  /\ sock' = [sock EXCEPT !.ws = "closed", !.closed = TRUE]
  /\ inbox' = [inbox EXCEPT !.wait = 0]
  /\ frame' = IF inbox.wait > 0
                THEN [frame EXCEPT !.pc = "idle", !.result = "closed"]
                ELSE frame

\* write(): throws unless the socket is held and open
WriteRp(ok) ==
  /\ sock.wrote < Writes
  /\ ok = (sock.held /\ sock.ws = "open")
  /\ sock' = IF ok THEN [sock EXCEPT !.wrote = @ + 1] ELSE sock
  /\ UNCHANGED <<inbox, frame>>

\* close(): those who wait are left to the socket's close event
CloseRp ==
  /\ ~sock.closed /\ sock.held
  /\ sock' = [sock EXCEPT !.closed = TRUE, !.held = FALSE,
                          !.ws = IF @ = "open" THEN "closing" ELSE @]
  /\ UNCHANGED <<inbox, frame>>

\* (mutant) all that is buffered goes with the read
ReadExactLate(n) ==
  CASE sock.closed -> inbox
    [] ~sock.closed /\ inbox.came - inbox.taken >= n ->
         [inbox EXCEPT !.taken = inbox.came]
    [] OTHER -> [inbox EXCEPT !.wait = n]

\* readExact(n): rejected when closed, even with bytes left
ReadExactRp(n) ==
  CASE sock.closed -> inbox
    [] ~sock.closed /\ inbox.came - inbox.taken >= n ->
         [inbox EXCEPT !.taken = @ + n]
    [] OTHER -> [inbox EXCEPT !.wait = n]

-----------------------------------------------------------------------------
(* readFrame()                                                             *)

\* the length given by the field that ends before position p
LengthAt(p) ==
  IF \E i \in Frames : p = Offsets[i] + Magic + LenBytes
  THEN Offsets[(CHOOSE i \in Frames : p = Offsets[i] + Magic + LenBytes) + 1] - p
  ELSE 0

Ask(pc, n) ==
  /\ inbox' = ReadExactRp(n)
  /\ frame' = IF sock.closed
                THEN [frame EXCEPT !.pc = "idle", !.result = "closed"]
                ELSE [frame EXCEPT !.pc = pc]
  /\ UNCHANGED sock

ReadFrame ==
  /\ sock.ws \notin {"none", "failed"}  \* callers await connect() first
  /\ frame.pc = "idle" /\ frame.result = "none"
  /\ Len(frame.got) + 1 \in Frames
  /\ Ask("magic", Magic)

\* A read is over.  The magic is that of a frame when it is read where a frame
\* starts; anything else is a ProtocolError.
ReadOver ==
  /\ frame.pc # "idle" /\ inbox.wait = 0
  /\ CASE frame.pc = "magic" ->
            IF \E i \in Frames : inbox.taken = Offsets[i] + Magic
            THEN Ask("length", LenBytes)
            ELSE /\ frame' = [frame EXCEPT !.pc = "idle", !.result = "magic"]
                 /\ UNCHANGED <<sock, inbox>>
       [] frame.pc = "length" -> Ask("body", LengthAt(inbox.taken))
       [] OTHER ->
            /\ frame' = [frame EXCEPT !.pc = "idle",
                                      !.got = Append(@, inbox.taken)]
            /\ UNCHANGED <<sock, inbox>>

-----------------------------------------------------------------------------
RpNext ==
  \/ \E how \in {"open", "error"} : ConnectRp(how)
  \/ \E n \in 1..Total : OnMessage(n)
  \/ OnClose \/ CloseRp \/ ReadFrame \/ ReadOver
  \/ \E ok \in BOOLEAN : WriteRp(ok)

\* A socket told to close does close; what is read goes on.
RpSpec ==
  /\ RpInit /\ [][RpNext]_rpVars
  /\ WF_rpVars(sock.closed /\ OnClose) /\ WF_rpVars(ReadOver)

-----------------------------------------------------------------------------
(* Properties                                                              *)

RpTypeOK ==
  /\ inbox.taken <= inbox.came /\ inbox.came <= Total
  /\ frame.pc \in {"idle", "magic", "length", "body"}
  /\ sock.closed \in BOOLEAN

\* However messages cut the stream, readFrame() returns the device's frames
\* whole and in order, and never meets a wrong magic.
FramesReassembled ==
  /\ frame.got = [i \in 1..Len(frame.got) |-> Offsets[i + 1]]
  /\ frame.result # "magic"

=============================================================================
