----------------------------- MODULE MuxConnect -----------------------------
(***************************************************************************)
(* connect() of class WebUsbMux (src/pairing/webusb-mux.ts): attempts on   *)
(* fresh source ports, the table that finds the stream of a frame, the     *)
(* pauses between attempts and close() in their midst; and the single      *)
(* channel that WebUsbMuxDevice hands out.  Several callers connect at     *)
(* once, as services of one device do.                                     *)
(*                                                                         *)
(* Opening one stream is MuxTcp's; here it is the SYN's write, the answer  *)
(* and the timer.  Frames of the device arrive in order, late or not.      *)
(***************************************************************************)
EXTENDS Integers, Sequences, FiniteSets

CONSTANTS
  Callers,      \* who calls connect()
  Ports,        \* source ports: 0..(Ports - 1), in the code 32000..65000
  ConnAttempts, \* maxAttempts
  MaxConns,     \* bound: streams that are ever made
  MaxFrames     \* bound: frames of the device on the way

ASSUME MuxConnectAssumption ==
  /\ MaxConns \in Nat \ {0} /\ Ports \in Nat /\ Ports > MaxConns
  /\ ConnAttempts \in Nat \ {0} /\ MaxFrames \in Nat

VARIABLES
  callers,     \* what each caller does: [pc, how, attempt, conn]
  conns,       \* the streams made: [port, state, why, foreign]
  connections, \* source port -> its stream, 0 when there is none
  sport,       \* sportCounter
  channel,     \* the facade's active stream, 0 for none
  link,        \* "ours", "closed", or "other": another object has the device
  syns,        \* SYNs that the device has to answer
  framesToHost       \* frames on the way: [kind, port, of]

connectVars == <<callers, conns, connections, sport, channel, link, syns, framesToHost>>

PortRange == 0..(Ports - 1)
Resting == [pc |-> "idle", how |-> "direct", attempt |-> 0, conn |-> 0]

\* No stream yet, or one that was opened so long ago that the ports have come
\* round to it since.
ConnectInit ==
  /\ callers = [c \in Callers |-> Resting]
  /\ \E old \in {{}} \cup {{p} : p \in PortRange} :
       /\ conns = IF old = {} THEN <<>>
                  ELSE <<[port |-> CHOOSE p \in old : TRUE, state |-> "connected",
                          why |-> "none", foreign |-> FALSE]>>
       /\ connections = [p \in PortRange |-> IF p \in old THEN 1 ELSE 0]
  /\ sport = 0
  /\ channel = 0 /\ link = "ours"
  /\ syns = <<>> /\ framesToHost = <<>>

-----------------------------------------------------------------------------
(* connect()                                                               *)

\* (mutants) a port that is taken; the same port for the next attempt
NextSportTaken == (sport + 1) % Ports
NextSportSame == IF connections[sport] = 0 THEN sport ELSE (sport + 1) % Ports

\* nextSport(): the next port that no stream has
NextSport ==
  LET Next(k) == (sport + k) % Ports
      k == CHOOSE n \in 1..Ports : /\ connections[Next(n)] = 0
                                   /\ \A m \in 1..(n - 1) : connections[Next(m)] # 0
  IN Next(k)

\* One turn of the loop up to the await in open(): a SYN is on its way.
Attempt(c, n, how) ==
  /\ Len(conns) < MaxConns
  /\ sport' = NextSport
  /\ conns' = Append(conns, [port |-> sport', state |-> "connecting", why |-> "none",
                             foreign |-> FALSE])
  /\ connections' = [connections EXCEPT ![sport'] = Len(conns')]
  /\ callers' = [callers EXCEPT ![c] =
       [pc |-> "syn", how |-> how, attempt |-> n, conn |-> Len(conns')]]

\* connect(), or createTcpConnection() when it has no channel
ConnectPort(c) ==
  /\ callers[c].pc \in {"idle", "failed"} /\ link = "ours"
  /\ \E how \in {"direct", "channel"} :
       /\ how = "channel" => channel = 0
       /\ Attempt(c, 1, how)
  /\ UNCHANGED <<channel, link, syns, framesToHost>>

\* terminate(): the stream leaves the table, by its port
Gone(i) == [connections EXCEPT ![conns[i].port] = 0]

\* what the caller of open() does when it fails for a reason
ConnectRejected(c, why) ==
  [callers EXCEPT ![c].pc =
     IF why \in {"refused", "timeout"} /\ callers[c].attempt < ConnAttempts
     THEN "sleep" ELSE "failed"]

\* and when the stream is open
Returned(c) == [callers EXCEPT ![c].pc = "holds"]
Handed(c) == IF callers[c].how = "channel" THEN callers[c].conn ELSE channel

\* transferOut() of the SYN resolves, before an answer is handled, and the timer
\* starts unless close() came first.
SynWritten(c) ==
  LET i == callers[c].conn
  IN /\ callers[c].pc = "syn" /\ link # "closed"
     /\ syns' = IF link = "ours" THEN Append(syns, i) ELSE syns
     /\ callers' = IF conns[i].state = "closed" THEN ConnectRejected(c, "closed")
                   ELSE [callers EXCEPT ![c].pc = "armed"]
     /\ UNCHANGED <<conns, connections, sport, channel, link, framesToHost>>

\* The write fails: the device is closed.
SynFails(c) ==
  /\ callers[c].pc = "syn" /\ link = "closed"
  /\ connections' = Gone(callers[c].conn)
  /\ callers' = ConnectRejected(c, "closed")
  /\ UNCHANGED <<conns, sport, channel, link, syns, framesToHost>>

ConnectTimeout(c) ==
  LET i == callers[c].conn
  IN /\ callers[c].pc = "armed"
     /\ conns' = [conns EXCEPT ![i].state = "closed", ![i].why = "timeout"]
     /\ connections' = Gone(i)
     /\ callers' = ConnectRejected(c, "timeout")
     /\ UNCHANGED <<sport, channel, link, syns, framesToHost>>

\* The pause is over; nothing asks whether the link is still there.
NextTry(c) ==
  /\ callers[c].pc = "sleep"
  /\ Attempt(c, callers[c].attempt + 1, callers[c].how)
  /\ UNCHANGED <<channel, link, syns, framesToHost>>

-----------------------------------------------------------------------------
(* Frames of the device                                                    *)

Frame(kind, i) == [kind |-> kind, port |-> conns[i].port, of |-> i]

\* external: a SYN is accepted, refused or lost
PortAnswer ==
  /\ syns # <<>> /\ Len(framesToHost) < MaxFrames
  /\ \E kind \in {"synack", "rst", "none"} :
       framesToHost' = IF kind = "none" THEN framesToHost ELSE Append(framesToHost, Frame(kind, Head(syns)))
  /\ syns' = Tail(syns)
  /\ UNCHANGED <<callers, conns, connections, sport, channel, link>>

\* external: data for, or the end of, a stream that the host has open
DeviceSends ==
  /\ Len(framesToHost) < MaxFrames
  /\ \E i \in DOMAIN conns, kind \in {"data", "rst"} :
       /\ conns[i].state = "connected" /\ \A n \in DOMAIN framesToHost : framesToHost[n] # Frame("rst", i)
       /\ framesToHost' = Append(framesToHost, Frame(kind, i))
  /\ UNCHANGED <<callers, conns, connections, sport, channel, link, syns>>

WaitsFor(i) == {c \in Callers : callers[c].conn = i /\ callers[c].pc = "armed"}

\* handleTcpPayload() and handlePacket(): the stream that has the port takes
\* the frame, and its connect() goes on.
Deliver ==
  LET f == Head(framesToHost)
      i == connections[f.port]
      x == conns[i]
      Took(y) == conns' = [conns EXCEPT ![i] = [y EXCEPT !.foreign = @ \/ f.of # i]]
  IN /\ framesToHost # <<>> /\ link = "ours"
     /\ IF i = 0 THEN UNCHANGED <<callers, conns, connections, channel>>
        ELSE \/ /\ x.state = "connecting" /\ f.kind = "synack"
                /\ Took([x EXCEPT !.state = "connected"])
                /\ \E c \in WaitsFor(i) : callers' = Returned(c) /\ channel' = Handed(c)
                /\ UNCHANGED connections
             \/ /\ f.kind = "rst"
                /\ Took([x EXCEPT !.state = "closed", !.why = "refused"])
                /\ connections' = Gone(i)
                /\ IF WaitsFor(i) = {} THEN UNCHANGED callers
                   ELSE \E c \in WaitsFor(i) : callers' = ConnectRejected(c, "refused")
                /\ UNCHANGED channel
             \/ /\ \/ f.kind = "data"
                   \/ f.kind = "synack" /\ x.state = "connected"
                /\ Took(x)
                /\ UNCHANGED <<callers, connections, channel>>
     /\ framesToHost' = Tail(framesToHost)
     /\ UNCHANGED <<sport, link, syns>>

-----------------------------------------------------------------------------
(* close()                                                                 *)

\* releaseChannel()
Release(i) == IF channel = i THEN 0 ELSE channel

\* The caller closes its stream: MuxTcpChannel.close(), or conn.close().
CloseStream(c) ==
  LET i == callers[c].conn
      live == conns[i].state = "connected"
  IN /\ callers[c].pc = "holds"
     /\ conns' = IF live THEN [conns EXCEPT ![i].state = "closed", ![i].why = "closed"] ELSE conns
     /\ connections' = IF live THEN Gone(i) ELSE connections
     /\ channel' = IF callers[c].how = "channel" THEN Release(i) ELSE channel
     /\ callers' = [callers EXCEPT ![c] = Resting]
     /\ UNCHANGED <<sport, link, syns, framesToHost>>

\* close() of the object: every stream in the table goes, and who waits for one
\* is told; who pauses between attempts is not.
Close ==
  LET table == {connections[p] : p \in PortRange} \ {0}
  IN /\ link = "ours"
     /\ link' = "closed" /\ channel' = 0
     /\ conns' = [i \in DOMAIN conns |-> IF i \in table
                    THEN [conns[i] EXCEPT !.state = "closed", !.why = "closed"] ELSE conns[i]]
     /\ connections' = [p \in PortRange |-> 0]
     /\ callers' = [c \in Callers |->
          IF callers[c].pc = "armed" THEN [callers[c] EXCEPT !.pc = "failed"] ELSE callers[c]]
     /\ syns' = <<>> /\ framesToHost' = <<>>
     /\ UNCHANGED sport

\* Another WebUsbMux opens the same USBDevice.
Reopened ==
  /\ link = "closed" /\ link' = "other"
  /\ UNCHANGED <<callers, conns, connections, sport, channel, syns, framesToHost>>

ConnectNext ==
  \/ \E c \in Callers : \/ ConnectPort(c) \/ SynWritten(c) \/ SynFails(c) \/ ConnectTimeout(c)
                        \/ NextTry(c) \/ CloseStream(c)
  \/ PortAnswer \/ DeviceSends \/ Deliver \/ Close \/ Reopened

ConnectSpec == ConnectInit /\ [][ConnectNext]_connectVars

-----------------------------------------------------------------------------
(* Properties                                                              *)

ConnectTypeOK ==
  /\ \A c \in Callers : /\ callers[c].pc \in {"idle", "syn", "armed", "sleep", "holds", "failed"}
                        /\ callers[c].conn \in 0..Len(conns)
                        /\ callers[c].attempt \in 0..ConnAttempts
  /\ \A i \in DOMAIN conns : conns[i].port \in PortRange
  /\ \A p \in PortRange : connections[p] \in 0..Len(conns)
  /\ sport \in PortRange /\ channel \in 0..Len(conns)

\* A stream takes no frame that answers an earlier attempt, however late it
\* comes, and stays in the table while it is open, whatever the attempts of
\* others do to the table; and the facade holds no channel that nobody can close
\* any more, which would refuse every later createTcpConnection().
StreamsKept ==
  /\ \A i \in DOMAIN conns :
       /\ ~conns[i].foreign
       /\ conns[i].state = "connected" => connections[conns[i].port] = i
  /\ channel # 0 => \E c \in Callers : callers[c].pc = "holds" /\ callers[c].conn = channel

=============================================================================
