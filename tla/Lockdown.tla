----------------------------- MODULE Lockdown ------------------------------
(***************************************************************************)
(* src/pairing/usbmuxd.ts and lockdown.ts: a Node socket's Transport, the  *)
(* UsbmuxdClient that asks for the device over it, the PlistSocket and the *)
(* LockdownClient that own the stream after Connect, pairDevice()'s loop,  *)
(* and the attempts of browseInstalledApps() in flows/refresh.ts.  A frame *)
(* is two units, its header and its body, each of the request it answers.  *)
(***************************************************************************)
EXTENDS Integers, Sequences, FiniteSets

CONSTANTS
  MaxCalls,     \* bound: requests in a behaviour
  PairAttempts, \* maxAttempts of pairDevice()
  Attempts      \* of a connection, in browseInstalledApps()

ASSUME LockdownAssumption ==
  MaxCalls \in Nat /\ PairAttempts \in Nat \ {0} /\ Attempts \in Nat \ {0}

VARIABLES
  calls,   \* requests in the order they were made
  stream,  \* the Transport: what is buffered, who waits, and its end
  lockdown,\* the clients and their caller
  pairing, \* pairDevice()
  daemon   \* usbmuxd and lockdownd: requests, bytes on the way, the dialog

lockdownVars == <<calls, stream, lockdown, pairing, daemon>>

NoUnit == <<"none", 0>>
NewStream == [buffered |-> <<>>, waiters |-> <<>>, ended |-> FALSE]
NewDaemon == [asked |-> <<>>, wire |-> <<>>, trust |-> "asking"]

LockdownInit ==
  /\ calls = <<>> /\ stream = NewStream
  /\ lockdown = [layer |-> "usbmuxd", current |-> 0, session |-> 0, attempt |-> 1]
  /\ pairing = [pc |-> "none", attempt |-> 1, notified |-> FALSE, aborted |-> FALSE]
  /\ daemon = NewDaemon

-----------------------------------------------------------------------------
(* createNodeTcpTransport()                                                *)

Least(a, b) == IF a < b THEN a ELSE b

\* pump(): the waiters are served in turn, before any of them goes on
Pump(c, waiters, buffered) ==
  LET k == Least(Len(waiters), Len(buffered)) IN
  /\ calls' = [i \in DOMAIN c |->
       IF \E j \in 1..k : waiters[j] = i
       THEN [c[i] EXCEPT !.unit = buffered[CHOOSE j \in 1..k : waiters[j] = i]]
       ELSE c[i]]
  /\ stream' = [stream EXCEPT !.waiters = SubSeq(waiters, k + 1, Len(waiters)),
                              !.buffered = SubSeq(buffered, k + 1, Len(buffered))]

\* read() by request i; after the end of the stream nobody rejects it
Reads(c, i) == Pump(c, Append(stream.waiters, i), stream.buffered)

\* the 'data' event, with one unit or two
Data(n) ==
  /\ ~stream.ended /\ Len(daemon.wire) >= n
  /\ Pump(calls, stream.waiters, stream.buffered \o SubSeq(daemon.wire, 1, n))
  /\ daemon' = [daemon EXCEPT !.wire = SubSeq(@, n + 1, Len(@))]
  /\ UNCHANGED <<lockdown, pairing>>

Rejected(c, which) == [i \in DOMAIN c |->
  IF i \in which /\ c[i].pc \in {"header", "body"}
  THEN [c[i] EXCEPT !.pc = "failed"] ELSE c[i]]

\* the 'error' and 'close' events: failAll()
StreamEnds ==
  /\ ~stream.ended
  /\ calls' = Rejected(calls, {stream.waiters[j] : j \in DOMAIN stream.waiters})
  /\ stream' = [stream EXCEPT !.ended = TRUE, !.waiters = <<>>]
  /\ UNCHANGED <<lockdown, pairing, daemon>>

-----------------------------------------------------------------------------
(* UsbmuxdClient.roundTrip(), PlistSocket and LockdownClient.request()     *)

Free == lockdown.current = 0 /\ Len(calls) < MaxCalls

\* the request is written, then the header of the answer is awaited
Request(op) ==
  /\ Free
  /\ lockdown' = [lockdown EXCEPT !.current = Len(calls) + 1]
  /\ LET i == Len(calls) + 1
         call == [op |-> op, pc |-> "header", unit |-> NoUnit, got |-> 0]
     IN IF stream.ended
        THEN /\ calls' = Append(calls, [call EXCEPT !.pc = "failed"])
             /\ UNCHANGED <<stream, daemon>>
        ELSE /\ daemon' = [daemon EXCEPT !.asked = Append(@, i)]
             /\ Reads(Append(calls, call), i)

\* ReadBUID, ListDevices, the pair record messages, Connect
UsbmuxdRequest(op) ==
  /\ lockdown.layer = "usbmuxd" /\ op \in {"list", "connect"}
  /\ Request(op) /\ UNCHANGED pairing

\* GetValue, ValidatePair, StartService, StopSession, Unpair, and StartSession
LockdownRequest(op) ==
  /\ lockdown.layer = "lockdown" /\ op \in {"value", "session", "stop"}
  /\ pairing.pc \in {"none", "paired", "failed"}
  /\ op = "stop" => lockdown.session # 0
  /\ Request(op) /\ UNCHANGED pairing

\* recvPlist() has the header: the body is awaited.  A length out of bounds
\* rejects, and a body taken for a header is one.
Header(i) ==
  /\ calls[i].pc = "header" /\ calls[i].unit # NoUnit
  /\ IF calls[i].unit[1] = "header"
     THEN Reads([calls EXCEPT ![i].pc = "body", ![i].unit = NoUnit], i)
     ELSE calls' = [calls EXCEPT ![i].pc = "failed"] /\ UNCHANGED stream
  /\ UNCHANGED <<lockdown, pairing, daemon>>

\* and the body, which is parsed
Body(i) ==
  /\ calls[i].pc = "body" /\ calls[i].unit # NoUnit
  /\ calls' = [calls EXCEPT ![i].pc = IF calls[i].unit[1] = "header" THEN "failed" ELSE "done",
                            ![i].got = calls[i].unit[2]]
  /\ UNCHANGED <<stream, lockdown, pairing, daemon>>

Current == calls[lockdown.current]

\* the call that the caller awaits is settled: Connect gives the stream to a
\* PlistSocket, StartSession is remembered and StopSession forgets it.  The
\* device may report an error, and its error is thrown.
Settled(ok) ==
  /\ lockdown.current # 0 /\ Current.pc \in {"done", "failed"} /\ Current.op # "pair"
  /\ ok => Current.pc = "done"
  /\ lockdown' = [lockdown EXCEPT !.current = 0,
       !.layer = IF ok /\ Current.op = "connect" THEN "lockdown" ELSE @,
       !.session = IF ~ok THEN @ ELSE CASE Current.op = "session" -> Current.got
                     [] Current.op = "stop" -> 0 [] OTHER -> @]
  /\ UNCHANGED <<calls, stream, pairing, daemon>>

-----------------------------------------------------------------------------
(* flows/refresh.ts                                                        *)

\* (mutant) the next attempt is made on the stream that is there
NextAttemptSame ==
  /\ lockdown' = [lockdown EXCEPT !.current = 0, !.attempt = @ + 1]
  /\ UNCHANGED <<calls, stream, pairing, daemon>>

\* reconnect(): close() rejects what waits on the old stream, and a new one
\* has a client of its own
NextAttempt ==
  /\ lockdown' = [lockdown EXCEPT !.current = 0, !.session = 0, !.attempt = @ + 1]
  /\ calls' = Rejected(calls, DOMAIN calls)
  /\ stream' = NewStream
  /\ daemon' = [NewDaemon EXCEPT !.trust = daemon.trust]
  /\ UNCHANGED pairing

\* startSession() rejects, or loses the race with its timer and is abandoned
AttemptFails ==
  /\ lockdown.current # 0 /\ Current.op = "session"
  /\ Current.pc \in {"header", "body", "failed"} /\ lockdown.attempt < Attempts
  /\ NextAttempt

-----------------------------------------------------------------------------
(* pairDevice()                                                            *)

StartPairing ==
  /\ lockdown.layer = "lockdown" /\ lockdown.current = 0 /\ pairing.pc = "none"
  /\ pairing' = [pairing EXCEPT !.pc = "check"]
  /\ UNCHANGED <<calls, stream, lockdown, daemon>>

\* the top of the loop
PairAttempt ==
  /\ pairing.pc = "check"
  /\ IF pairing.aborted
     THEN /\ pairing' = [pairing EXCEPT !.pc = "failed"]
          /\ UNCHANGED <<calls, stream, lockdown, daemon>>
     ELSE /\ Request("pair") /\ pairing' = [pairing EXCEPT !.pc = "asking"]

\* the answer, which is an EscrowBag, a pending dialog or another error
PairAnswered(answer) ==
  /\ pairing.pc = "asking" /\ Current.pc \in {"done", "failed"}
  /\ Current.pc = "failed" => answer = "error"
  /\ answer = "ok" => daemon.trust = "trusted"
  /\ lockdown' = [lockdown EXCEPT !.current = 0]
  /\ pairing' = CASE answer = "ok" -> [pairing EXCEPT !.pc = "paired"]
       [] answer = "pending" /\ pairing.attempt < PairAttempts ->
            [pairing EXCEPT !.notified = TRUE,
                            !.pc = IF pairing.aborted THEN "failed" ELSE "sleeping"]
       [] OTHER -> [pairing EXCEPT !.pc = "failed"]
  /\ UNCHANGED <<calls, stream, daemon>>

RetryDelayOver ==
  /\ pairing.pc = "sleeping"
  /\ pairing' = [pairing EXCEPT !.pc = "check", !.attempt = @ + 1]
  /\ UNCHANGED <<calls, stream, lockdown, daemon>>

\* the caller's AbortSignal, which ends a sleep at once
Abort ==
  /\ ~pairing.aborted /\ pairing.pc # "none"
  /\ pairing' = [pairing EXCEPT !.aborted = TRUE,
                   !.pc = IF @ = "sleeping" THEN "failed" ELSE @]
  /\ UNCHANGED <<calls, stream, lockdown, daemon>>

-----------------------------------------------------------------------------
(* usbmuxd, lockdownd and the user, external                               *)

Answers ==
  /\ daemon.asked # <<>>
  /\ LET i == Head(daemon.asked) IN
     daemon' = [daemon EXCEPT !.asked = Tail(@),
                  !.wire = @ \o <<<<"header", i>>, <<"body", i>>>>]
  /\ UNCHANGED <<calls, stream, lockdown, pairing>>

Trusts ==
  /\ daemon.trust = "asking" /\ daemon' = [daemon EXCEPT !.trust = "trusted"]
  /\ UNCHANGED <<calls, stream, lockdown, pairing>>

LockdownNext ==
  \/ (\E n \in 1..2 : Data(n)) \/ StreamEnds
  \/ \E op \in {"list", "connect", "value", "session", "stop"} :
       UsbmuxdRequest(op) \/ LockdownRequest(op)
  \/ \E i \in DOMAIN calls : Header(i) \/ Body(i)
  \/ \E ok \in BOOLEAN : Settled(ok)
  \/ AttemptFails \/ StartPairing \/ PairAttempt \/ RetryDelayOver \/ Abort
  \/ \E answer \in {"ok", "pending", "error"} : PairAnswered(answer)
  \/ Answers \/ Trusts

LockdownSpec == LockdownInit /\ [][LockdownNext]_lockdownVars

-----------------------------------------------------------------------------
(* Properties                                                              *)

LockdownTypeOK ==
  /\ Len(calls) <= MaxCalls
  /\ \A i \in DOMAIN calls : calls[i].pc \in {"header", "body", "done", "failed"}
  /\ lockdown.layer \in {"usbmuxd", "lockdown"} /\ lockdown.current \in 0..Len(calls)
  /\ lockdown.attempt \in 1..Attempts /\ pairing.attempt \in 1..PairAttempts

\* Nothing in a lockdown or usbmuxd reply says which request it answers: every
\* request still gets its own, although a StartSession that took too long has
\* been abandoned and its answer may come while the next attempt asks.
ReplyOfRequest == \A i \in DOMAIN calls : calls[i].pc = "done" => calls[i].got = i

=============================================================================
