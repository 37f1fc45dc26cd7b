------------------------------ MODULE MuxLink ------------------------------
(***************************************************************************)
(* The USB side of class WebUsbMux (src/pairing/webusb-mux.ts): openUsb,   *)
(* the VERSION/SETUP handshake with its retries, the transferIn read loop, *)
(* close and the handling of a disconnect, for several WebUsbMux objects   *)
(* over one USBDevice, as the client makes them one after the other.       *)
(*                                                                         *)
(* An action is one synchronous stretch of JavaScript or one event of the  *)
(* device.  The caller awaits open and handshake before it calls them      *)
(* again, and close() before it opens the same object again (Reuse).       *)
(***************************************************************************)
EXTENDS Integers, Sequences, FiniteSets, SequencesExt

CONSTANTS
  Muxes,        \* the WebUsbMux objects made over the device
  MaxAttempts,  \* handshake(timeoutMs, maxAttempts = 3)
  MaxReplies,   \* bound: VERSION replies waiting in the device
  Faults,       \* can a transfer or an open fail while the device is there?
  Reuse         \* is an object opened again after close() or a failure?

ASSUME MuxLinkAssumption ==
  /\ MaxAttempts \in Nat \ {0}
  /\ MaxReplies \in Nat \ {0}
  /\ Faults \in BOOLEAN /\ Reuse \in BOOLEAN

VARIABLES
  mux,      \* the fields of each object and where its open()/handshake() is
  plugged,  \* is the device there?
  opened,   \* device.opened
  claimed,  \* usbInterface.claimed
  readers,  \* objects with a transferIn outstanding, oldest first
  toHost,   \* VERSION replies the device has ready: 0 (too short), 1 or 2
  devMode   \* what the device has negotiated: "fresh", "version" or "v2"

usbVars == <<plugged, opened, claimed>>
vars == <<mux, usbVars, readers, toHost, devMode>>

NoFrame == [kind |-> "none", v2 |-> FALSE]
Frame(kind, v2) == [kind |-> kind, v2 |-> v2]

Init ==
  /\ mux = [m \in Muxes |->
       [pc |-> "new", reading |-> FALSE, closed |-> FALSE, bound |-> FALSE,
        done |-> FALSE, version |-> 0, attempt |-> 0, waiter |-> 0,
        timer |-> FALSE, answer |-> "none", frame |-> NoFrame,
        atDevice |-> FALSE, teardown |-> "none"]]
  /\ plugged = TRUE /\ opened = FALSE /\ claimed = FALSE
  /\ readers = <<>> /\ toHost = <<>> /\ devMode = "fresh"

-----------------------------------------------------------------------------
(* Parts of the methods, as functions of one object's fields               *)

\* (mutant) the reader of the promise is not told
FailWaiterSilently(x) == [x EXCEPT !.waiter = 0, !.timer = FALSE]

\* `this.versionWaiter?.reject(err); this.versionWaiter = null`
FailWaiter(x) ==
  IF x.waiter = 0 THEN x
  ELSE [x EXCEPT !.waiter = 0, !.timer = FALSE, !.answer = "err"]

\* (mutant) handleDisconnect() leaves the object open
DroppedOpen(x) == [FailWaiter(x) EXCEPT !.reading = FALSE]

\* handleDisconnect(): the negotiated version and handshakeDone stay.
Dropped(x) == [FailWaiter(x) EXCEPT !.closed = TRUE, !.reading = FALSE]

\* Every object in S that still reads learns that its link is gone.
Drop(S) ==
  [m \in Muxes |-> IF m \in S /\ mux[m].reading /\ ~mux[m].closed
                     THEN Dropped(mux[m]) ELSE mux[m]]

\* The end of openUsb(): endpoints resolved, the read loop started.
StartLoop(x) ==
  [x EXCEPT !.pc = "opened", !.bound = TRUE, !.reading = TRUE, !.closed = FALSE]

\* One turn of handshake()'s loop up to the await of its VERSION packet, whose
\* header is encoded for the version known now.
Begin(x, a) ==
  [x EXCEPT !.pc = "version", !.attempt = a, !.waiter = a, !.timer = TRUE,
            !.answer = "none", !.frame = Frame("version", x.version >= 2),
            !.atDevice = FALSE]

\* (mutants) one turn too many; a retry that does not count
RetryOneMore(x) ==
  LET y == [x EXCEPT !.frame = NoFrame, !.atDevice = FALSE]
  IN  IF x.attempt <= MaxAttempts THEN Begin(y, x.attempt + 1)
      ELSE [y EXCEPT !.pc = "failed", !.answer = "none"]
RetryUncounted(x) ==
  Begin([x EXCEPT !.frame = NoFrame, !.atDevice = FALSE], x.attempt)

\* The end of a failed turn: the timer and the waiter go, then the next turn
\* or the error.
Retry(x) ==
  LET y == [x EXCEPT !.waiter = 0, !.timer = FALSE, !.frame = NoFrame,
                     !.atDevice = FALSE]
  IN  IF x.attempt < MaxAttempts THEN Begin(y, x.attempt + 1)
      ELSE [y EXCEPT !.pc = "failed", !.answer = "none"]

\* (mutant) a packet that is too small only takes the waiter away
HandleVersionNoReject(x, major) ==
  IF x.waiter = 0 THEN x
  ELSE IF major = 0 THEN [x EXCEPT !.waiter = 0, !.timer = FALSE]
  ELSE [x EXCEPT !.waiter = 0, !.timer = FALSE, !.version = major,
                 !.answer = IF major = 1 THEN "v1" ELSE "v2"]

\* handleVersionPacket()
HandleVersion(x, major) ==
  IF x.waiter = 0 THEN x
  ELSE IF major = 0 THEN FailWaiter(x)
  ELSE [x EXCEPT !.waiter = 0, !.timer = FALSE, !.version = major,
                 !.answer = IF major = 1 THEN "v1" ELSE "v2"]

-----------------------------------------------------------------------------
(* openUsb()                                                               *)

\* May the caller open this object now?
Openable(m) ==
  \/ mux[m].pc = "new"
  \/ /\ Reuse /\ mux[m].pc \in {"done", "failed"}
     /\ mux[m].teardown = "none"

\* Past device.open(): claim the interface, or read at once.
Claim(m) ==
  IF claimed
    THEN /\ mux' = [mux EXCEPT ![m] = StartLoop(@)]
         /\ readers' = Append(readers, m)
    ELSE /\ mux' = [mux EXCEPT ![m].pc = "claiming"]
         /\ UNCHANGED readers

\* (mutant) no `if (this.reading) return`
OpenUsbAgain(m) ==
  /\ Openable(m)
  /\ IF ~opened THEN mux' = [mux EXCEPT ![m].pc = "opening"] /\ UNCHANGED readers
     ELSE Claim(m)
  /\ UNCHANGED <<usbVars, toHost, devMode>>

OpenUsb(m) ==
  /\ Openable(m)
  /\ IF mux[m].reading
       THEN mux' = [mux EXCEPT ![m].pc = "opened"] /\ UNCHANGED readers
     ELSE IF ~opened
       THEN mux' = [mux EXCEPT ![m].pc = "opening"] /\ UNCHANGED readers
     ELSE Claim(m)
  /\ UNCHANGED <<usbVars, toHost, devMode>>

\* device.open() resolves.
Opened(m) ==
  /\ mux[m].pc = "opening" /\ plugged
  /\ opened' = TRUE
  /\ Claim(m)
  /\ UNCHANGED <<plugged, claimed, toHost, devMode>>

\* claimInterface() resolves.
Claimed(m) ==
  /\ mux[m].pc = "claiming" /\ opened
  /\ claimed' = TRUE
  /\ mux' = [mux EXCEPT ![m] = StartLoop(@)]
  /\ readers' = Append(readers, m)
  /\ UNCHANGED <<plugged, opened, toHost, devMode>>

\* open() or claimInterface() rejects: the device is gone, its state is being
\* changed by a close() in progress, or another program holds it.
OpenFails(m) ==
  /\ mux[m].pc \in {"opening", "claiming"}
  /\ \/ Faults \/ ~plugged
     \/ mux[m].pc = "claiming" /\ ~opened
     \/ \E k \in Muxes : mux[k].teardown # "none"
  /\ mux' = [mux EXCEPT ![m].pc = "failed"]
  /\ UNCHANGED <<usbVars, readers, toHost, devMode>>

-----------------------------------------------------------------------------
(* handshake()                                                             *)

Handshake(m) ==
  /\ mux[m].pc = "opened"
  /\ mux' = [mux EXCEPT ![m] = IF @.done THEN [@ EXCEPT !.pc = "done"]
                               ELSE IF @.closed THEN [@ EXCEPT !.pc = "failed"]
                               ELSE Begin(@, 1)]
  /\ UNCHANGED <<usbVars, readers, toHost, devMode>>

\* transferOut reaches the device, which answers a VERSION (or does not).
Deliver(m) ==
  /\ mux[m].frame # NoFrame /\ ~mux[m].atDevice
  /\ claimed
  /\ mux' = [mux EXCEPT ![m].atDevice = TRUE]
  /\ \/ /\ mux[m].frame.kind = "version"
        /\ devMode' = "version"
        /\ \/ /\ Len(toHost) < MaxReplies
              /\ \E major \in 0..2 : toHost' = Append(toHost, major)
           \/ UNCHANGED toHost
     \/ /\ mux[m].frame.kind = "setup"
        /\ devMode' = "v2"
        /\ UNCHANGED toHost
  /\ UNCHANGED <<usbVars, readers>>

\* The await of the packet returns: after VERSION the answer is awaited,
\* after SETUP the handshake is over.
Sent(m) ==
  /\ mux[m].atDevice
  /\ mux' = [mux EXCEPT ![m] =
       LET y == [@ EXCEPT !.frame = NoFrame, !.atDevice = FALSE]
       IN  IF @.frame.kind = "version" THEN [y EXCEPT !.pc = "answer"]
           ELSE [y EXCEPT !.pc = "done", !.done = TRUE]]
  /\ UNCHANGED <<usbVars, readers, toHost, devMode>>

\* The await of the packet throws.
SendFails(m) ==
  /\ mux[m].frame # NoFrame /\ ~mux[m].atDevice
  /\ Faults \/ ~claimed
  /\ mux' = [mux EXCEPT ![m] = Retry(@)]
  /\ UNCHANGED <<usbVars, readers, toHost, devMode>>

\* The await of the answer returns: a v2 device is sent SETUP (with the header
\* of the version the object holds now), an older one is ready.
Answered(m) ==
  /\ mux[m].pc = "answer" /\ mux[m].answer \in {"v1", "v2"}
  /\ mux' = [mux EXCEPT ![m] =
       IF @.answer = "v2"
         THEN [@ EXCEPT !.pc = "setup", !.frame = Frame("setup", mux[m].version >= 2)]
         ELSE [@ EXCEPT !.pc = "done", !.done = TRUE]]
  /\ UNCHANGED <<usbVars, readers, toHost, devMode>>

\* The await of the answer throws.
AnswerFails(m) ==
  /\ mux[m].pc = "answer" /\ mux[m].answer = "err"
  /\ mux' = [mux EXCEPT ![m] = Retry(@)]
  /\ UNCHANGED <<usbVars, readers, toHost, devMode>>

\* The timer of the turn fires; the turn may still await its packet.
HandshakeTimeout(m) ==
  /\ mux[m].timer
  /\ mux' = [mux EXCEPT ![m] = FailWaiter(@)]
  /\ UNCHANGED <<usbVars, readers, toHost, devMode>>

-----------------------------------------------------------------------------
(* The read loop, and the ends of the link                                 *)

\* The oldest transferIn returns the next reply.  A loop whose object was
\* closed ends, and the packet with it; another handles it and reads on.
Read ==
  /\ readers # <<>> /\ toHost # <<>>
  /\ toHost' = Tail(toHost)
  /\ LET m == Head(readers) IN
     IF mux[m].reading /\ ~mux[m].closed
       THEN /\ mux' = [mux EXCEPT ![m] = HandleVersion(@, Head(toHost))]
            /\ readers' = Append(Tail(readers), m)
       ELSE /\ readers' = Tail(readers)
            /\ UNCHANGED mux
  /\ UNCHANGED <<usbVars, devMode>>

\* transferIn rejects although the device stays.
LoopFails(i) ==
  /\ Faults
  /\ readers' = RemoveAt(readers, i)
  /\ mux' = Drop({readers[i]})
  /\ UNCHANGED <<usbVars, toHost, devMode>>

\* The device is unplugged: its `disconnect` event and the rejected transfers.
Unplug ==
  /\ plugged
  /\ plugged' = FALSE /\ opened' = FALSE /\ claimed' = FALSE
  /\ readers' = <<>> /\ toHost' = <<>> /\ devMode' = "fresh"
  /\ mux' = Drop(Muxes)

\* What close() leaves of the object.
ClosedFields(x) ==
  [FailWaiter(x) EXCEPT !.closed = TRUE, !.reading = FALSE, !.version = 0,
                        !.done = FALSE]

\* (mutant) close() without giving up the device
CloseKeepsDevice(m) ==
  /\ mux[m].pc # "new" /\ ~mux[m].closed /\ mux[m].teardown = "none"
  /\ mux' = [mux EXCEPT ![m] = ClosedFields(@)]
  /\ UNCHANGED <<usbVars, readers, toHost, devMode>>

\* close() up to its first await.
Close(m) ==
  /\ mux[m].pc # "new" /\ ~mux[m].closed /\ mux[m].teardown = "none"
  /\ mux' = [mux EXCEPT ![m] = [ClosedFields(@) EXCEPT
               !.teardown = IF ~opened THEN "none"
                            ELSE IF mux[m].bound THEN "release" ELSE "close"]]
  /\ UNCHANGED <<usbVars, readers, toHost, devMode>>

\* releaseInterface() is done (or failed, which is ignored): every transfer
\* on the interface is cancelled, whoever submitted it.
Released(m) ==
  /\ mux[m].teardown = "release"
  /\ claimed' = FALSE /\ readers' = <<>>
  /\ mux' = [Drop(ToSet(readers)) EXCEPT ![m].teardown = "close"]
  /\ UNCHANGED <<plugged, opened, toHost, devMode>>

\* device.close() is done: the device forgets the session.
DeviceClosed(m) ==
  /\ mux[m].teardown = "close"
  /\ opened' = FALSE /\ claimed' = FALSE /\ readers' = <<>>
  /\ toHost' = <<>> /\ devMode' = "fresh"
  /\ mux' = [Drop(ToSet(readers)) EXCEPT ![m].teardown = "none"]
  /\ UNCHANGED plugged

-----------------------------------------------------------------------------
Next ==
  \/ \E m \in Muxes :
       \/ OpenUsb(m) \/ Opened(m) \/ Claimed(m) \/ OpenFails(m)
       \/ Handshake(m) \/ Deliver(m) \/ Sent(m) \/ SendFails(m)
       \/ Answered(m) \/ AnswerFails(m) \/ HandshakeTimeout(m)
       \/ Close(m) \/ Released(m) \/ DeviceClosed(m)
  \/ \E i \in DOMAIN readers : LoopFails(i)
  \/ Read \/ Unplug

Spec == Init /\ [][Next]_vars

\* Transfers end, timers fire and what is ready runs; nobody owes a call of
\* open, handshake or close, and the device owes no answer.
Fairness ==
  \A m \in Muxes :
    /\ WF_vars(Deliver(m) \/ SendFails(m))
    /\ WF_vars(Sent(m))
    /\ WF_vars(Answered(m) \/ AnswerFails(m))
    /\ WF_vars(HandshakeTimeout(m))

FairSpec == Spec /\ Fairness

-----------------------------------------------------------------------------
(* Properties                                                              *)

Frames == [kind : {"none", "version", "setup"}, v2 : BOOLEAN]

MuxType ==
  [pc : {"new", "opening", "claiming", "opened", "version", "answer", "setup",
         "done", "failed"},
   reading : BOOLEAN, closed : BOOLEAN, bound : BOOLEAN, done : BOOLEAN,
   version : 0..2, attempt : 0..MaxAttempts, waiter : 0..MaxAttempts,
   timer : BOOLEAN, answer : {"none", "err", "v1", "v2"},
   frame : Frames,
   atDevice : BOOLEAN, teardown : {"none", "release", "close"}]

\* Every variable holds a value of its type.
TypeOK ==
  /\ mux \in [Muxes -> MuxType]
  /\ plugged \in BOOLEAN /\ opened \in BOOLEAN /\ claimed \in BOOLEAN
  /\ readers \in Seq(Muxes)
  /\ toHost \in Seq(0..2)
  /\ devMode \in {"fresh", "version", "v2"}

\* handshake() never waits for what cannot come: as long as its answer is
\* open, the registered waiter is that of the current turn and its timer runs,
\* whatever late replies, lost links and close() calls came in between.
HandshakeAwaited ==
  \A m \in Muxes :
    mux[m].pc \in {"version", "answer"} /\ mux[m].answer = "none" =>
      mux[m].waiter = mux[m].attempt /\ mux[m].timer

\* An object on which connect() is let through (handshakeDone and not closed)
\* reads from a device that is open and claimed, also when another object was
\* closed or lost the device meanwhile.
LiveWhenConnectable ==
  \A m \in Muxes :
    mux[m].done /\ ~mux[m].closed =>
      opened /\ claimed /\ Contains(readers, m)

\* A closed object whose close() is over has left the device: no read of its
\* own is outstanding ("Releases the interface, stops the read loop").
ReleasedWhenClosed ==
  \A m \in Muxes :
    mux[m].closed /\ mux[m].teardown = "none" => ~Contains(readers, m)

\* openUsb() is idempotent: it never starts a second read loop on an object.
OneLoop ==
  \A i, j \in DOMAIN readers : readers[i] = readers[j] => i = j

\* The VERSION request goes out with a legacy header ("muxVersion is still 0
\* here, so this goes out with a legacy 8-byte header").
VersionIsLegacy ==
  \A m \in Muxes : mux[m].frame.kind = "version" => ~mux[m].frame.v2

\* No session survives the link it was negotiated on: an object on which
\* connect() is let through has a device that got its VERSION since it was
\* opened.
SessionNegotiated ==
  \A m \in Muxes :
    mux[m].pc = "done" /\ mux[m].done /\ ~mux[m].closed => devMode # "fresh"

\* handshake() comes to an end, with a device that answers or not.
HandshakeSettles ==
  \A m \in Muxes :
    mux[m].pc \in {"version", "answer", "setup"} ~>
      mux[m].pc \in {"done", "failed"}

=============================================================================
