----------------------------- MODULE MuxClient -----------------------------
(***************************************************************************)
(* Class WebUsbMuxClient (app/src/transport/webusb-mux.ts) as the app's    *)
(* flows use it: several client objects over one USB device, each method   *)
(* cut at its awaits, close() called by other handlers in between.  The    *)
(* WebUsbMux objects below (MuxLink) appear as links, their TCP streams    *)
(* (MuxTcp) as streams; a request to lockdownd is answered or fails.       *)
(* Left out: connectedUdid and pairedUdid, the pairing exchange itself.    *)
(*                                                                         *)
(* Links and streams are numbered as they are made; 0 is JavaScript's      *)
(* null.                                                                   *)
(***************************************************************************)
EXTENDS Integers, Sequences, FiniteSets

CONSTANTS
  Clients,     \* the WebUsbMuxClient objects
  Callers,     \* method calls that may be under way at one time
  MaxLinks,    \* bound: WebUsbMux objects made
  MaxStreams,  \* bound: TCP streams opened
  Shared       \* do two flows use one client at a time?

None == 0

ASSUME MuxClientAssumption ==
  /\ None \notin Clients
  /\ MaxLinks \in Nat /\ MaxStreams \in Nat /\ Shared \in BOOLEAN

VARIABLES
  client,  \* the fields of each client
  call,    \* where each method call is, with what it holds across its await
  link,    \* each WebUsbMux: what it does with the device
  stream   \* each TCP stream: its link, and what happened on it

vars == <<client, call, link, stream>>

\* mux, lockdownRaw, lockdownTls; the stream of lockdown and whether that
\* LockdownClient was built over TLS; sessionStarted
Blank ==
  [mux |-> None, lockdown |-> None, secure |-> FALSE, raw |-> None,
   tls |-> None, session |-> FALSE]

Ops == {"connect", "query", "session", "service", "dial", "reset", "reconnect",
        "tls"}

Idle ==
  [pc |-> "idle", client |-> None, op |-> "none", link |-> None,
   stream |-> None, left |-> FALSE]

Init ==
  /\ client = [c \in Clients |-> Blank]
  /\ call = [q \in Callers |-> Idle]
  /\ link = <<>> /\ stream = <<>>

-----------------------------------------------------------------------------
(* Links and streams                                                       *)

\* Links with a read loop on the device.
Reading(L) == {m \in DOMAIN L : L[m] \in {"shaking", "failed", "up"}}

\* The streams S with those in D ended.
End(S, D) ==
  [s \in DOMAIN S |-> IF s \in D THEN [S[s] EXCEPT !.st = "dead"] ELSE S[s]]

\* The streams of the links in M: WebUsbMux.close() and handleDisconnect() end
\* them in the same stretch.
Over(M) == {s \in DOMAIN stream : stream[s].link \in M}

\* WebUsbMux.close(), which does nothing on one that is closed.
CloseLink(m) ==
  [n \in DOMAIN link |->
     IF n = m /\ m \in Reading(link) THEN "closing" ELSE link[n]]

-----------------------------------------------------------------------------
(* The beginnings of awaits                                                *)

At(pc, c, op, m, s) ==
  [pc |-> pc, client |-> c, op |-> op, link |-> m, stream |-> s, left |-> FALSE]

\* `await WebUsbMux.requestDevice(...)` or the one of reconnect(): a new object
OpenLink(q, c, op) ==
  /\ Len(link) < MaxLinks
  /\ link' = Append(link, "opening")
  /\ call' = [call EXCEPT ![q] = At("opening", c, op, Len(link) + 1, None)]

\* `await mux.connect(...)`: a new stream over m, unless m is closed.  S are the
\* streams as this stretch leaves them.
Dial(q, c, op, pc, m, S) ==
  /\ UNCHANGED link
  /\ IF link[m] # "up"
       THEN call' = [call EXCEPT ![q] = Idle] /\ stream' = S
       ELSE /\ Len(S) < MaxStreams
            /\ stream' = Append(S, [link |-> m, st |-> "syn",
                                    session |-> FALSE, tls |-> FALSE])
            /\ call' = [call EXCEPT ![q] = At(pc, c, op, m, Len(S) + 1)]

\* connectLockdown() has returned the client over s: the rest of the method.
After(c, op, s) ==
  IF op \in {"query", "session", "service"} THEN At("asking", c, op, None, s)
  ELSE Idle

\* connectLockdown() from its start, with openAndHandshake(), for a client
\* whose fields are k.
ConnectLockdown(q, c, op, k, S) ==
  /\ client' = [client EXCEPT ![c] = k]
  /\ IF k.lockdown # None
       THEN /\ call' = [call EXCEPT ![q] = After(c, op, k.lockdown)]
            /\ stream' = S /\ UNCHANGED link
     ELSE IF k.mux # None THEN Dial(q, c, op, "connecting", k.mux, S)
     ELSE OpenLink(q, c, op) /\ stream' = S

-----------------------------------------------------------------------------
(* Calls of the flows                                                      *)

\* May a flow call a method of c?  A flow awaits each method, and one flow at a
\* time uses a client, unless two handlers share it.  The one that gave up on
\* StartSession only reconnects (browseInstalledApps).
MayCall(q, c, op) ==
  /\ call[q].pc = "idle"
  /\ LET on == {p \in Callers : call[p].client = c} IN
     /\ Shared \/ \A p \in on : call[p].left
     /\ (\E p \in on : call[p].left) => op = "reconnect"

\* connectLockdown(), the requests made through it (getOrFetchDeviceUdid,
\* getOrFetchDeviceName, pairDevice), startSession() and startService(); the
\* flows start a session once and ask for services after the TLS upgrade.
Request(q, c, op) ==
  /\ op \in {"connect", "query", "session", "service"}
  /\ MayCall(q, c, op)
  /\ op = "session" => ~client[c].session
  /\ op = "service" => client[c].tls # None
  /\ ConnectLockdown(q, c, op, client[c], stream)

\* resetLockdown() closes the two transports it holds and connects anew.
ResetLockdown(q, c) ==
  LET k == client[c] IN
  /\ MayCall(q, c, "reset")
  /\ ConnectLockdown(q, c, "reset", [Blank EXCEPT !.mux = k.mux],
                     End(stream, {k.tls, k.raw}))

\* The streams that close() ends.
Closes(k) == Over({k.mux}) \cup {k.tls}

\* (mutant) the streams of the old link end only with the device
CloseLater(c) ==
  /\ client' = [client EXCEPT ![c] = Blank]
  /\ link' = CloseLink(client[c].mux)
  /\ stream' = End(stream, {client[c].tls})

\* (mutant) close() forgets the TLS transport it closed
CloseKeepsTls(c) ==
  /\ client' = [client EXCEPT ![c] = [Blank EXCEPT !.tls = client[c].tls]]
  /\ link' = CloseLink(client[c].mux)
  /\ stream' = End(stream, Closes(client[c]))

\* close(): the fields of the client, the TLS transport and, not awaited, the
\* mux.
CloseClient(c) ==
  /\ client' = [client EXCEPT ![c] = Blank]
  /\ link' = CloseLink(client[c].mux)
  /\ stream' = End(stream, Closes(client[c]))

\* A handler discards the client, whatever its flow awaits; the page unloads.
Close(c) == CloseClient(c) /\ UNCHANGED call

\* reconnect() up to its pause of 2 s; what it opens after is in Settled.
Reconnect(q, c) ==
  /\ MayCall(q, c, "reconnect")
  /\ CloseClient(c)
  /\ call' = [call EXCEPT ![q] = At("settling", c, "reconnect", None, None)]

Settled(q) ==
  /\ call[q].pc = "settling"
  /\ OpenLink(q, call[q].client, "reconnect")
  /\ UNCHANGED <<client, stream>>

\* (mutant) upgradeToTls() without the check for the raw transport
UpgradeUnchecked(q, c) ==
  /\ MayCall(q, c, "tls")
  /\ client[c].tls = None
  /\ call' = [call EXCEPT ![q] = At("upgrading", c, "tls", None, client[c].raw)]
  /\ UNCHANGED <<client, link, stream>>

\* upgradeToTls() up to its await; without a raw transport it throws.
Upgrade(q, c) ==
  /\ MayCall(q, c, "tls")
  /\ client[c].tls = None /\ client[c].raw # None /\ client[c].lockdown # None
  /\ call' = [call EXCEPT ![q] = At("upgrading", c, "tls", None, client[c].raw)]
  /\ UNCHANGED <<client, link, stream>>

\* The 15 s timer of browseInstalledApps wins its race: the flow goes on, the
\* startSession() it has lost stays.
Abandon(q) ==
  /\ call[q].pc = "asking" /\ call[q].op = "session" /\ ~call[q].left
  /\ call' = [call EXCEPT ![q].left = TRUE]
  /\ UNCHANGED <<client, link, stream>>

-----------------------------------------------------------------------------
(* What the awaits return                                                  *)

\* The method returns, or throws what its await throws.
Ends(q) == call' = [call EXCEPT ![q] = Idle]

\* The picker returns a device and openUsb() has started a read loop on it.
Opened(q) ==
  /\ call[q].pc = "opening"
  /\ link' = [link EXCEPT ![call[q].link] = "shaking"]
  /\ call' = [call EXCEPT ![q].pc = "shaking"]
  /\ UNCHANGED <<client, stream>>

\* The picker is cancelled, or openUsb() throws.
OpenFails(q) ==
  /\ call[q].pc = "opening"
  /\ link' = [link EXCEPT ![call[q].link] = "closed"]
  /\ Ends(q)
  /\ UNCHANGED <<client, stream>>

\* (mutant) the mux is not stored
MuxForgotten(k, m) == k

\* `this.mux = mux`
MuxStored(k, m) == [k EXCEPT !.mux = m]

\* The MUX handshake is complete: `this.mux = mux`, and on to the stream.
\* Only reconnect() looks at `this.lockdown` again; connectService() dials its
\* own port.
Shaken(q) ==
  LET x == call[q] IN
  /\ x.pc = "shaking" /\ link[x.link] = "shaking"
  /\ link' = [link EXCEPT ![x.link] = "up"]
  /\ client' = [client EXCEPT ![x.client] = MuxStored(@, x.link)]
  /\ IF x.op = "reconnect" /\ client[x.client].lockdown # None
       THEN Ends(q) /\ UNCHANGED stream
       ELSE /\ Len(stream) < MaxStreams
            /\ stream' = Append(stream, [link |-> x.link, st |-> "syn",
                                         session |-> FALSE, tls |-> FALSE])
            /\ call' = [call EXCEPT ![q] =
                 At(IF x.op = "dial" THEN "dialing" ELSE "connecting",
                    x.client, x.op, x.link, Len(stream) + 1)]

\* handshake() gives up or the link is lost; nobody closes the mux.
ShakeFails(q) ==
  /\ call[q].pc = "shaking"
  /\ link' = [link EXCEPT ![call[q].link] =
                IF @ = "shaking" THEN "failed" ELSE @]
  /\ Ends(q)
  /\ UNCHANGED <<client, stream>>

\* The stream to lockdownd is open.
Connected(q) ==
  LET x == call[q] IN
  /\ x.pc = "connecting" /\ stream[x.stream].st = "syn"
  /\ stream' = [stream EXCEPT ![x.stream].st = "open"]
  /\ client' = [client EXCEPT ![x.client].raw = x.stream,
                              ![x.client].lockdown = x.stream,
                              ![x.client].secure = FALSE]
  /\ call' = [call EXCEPT ![q] = After(x.client, x.op, x.stream)]
  /\ UNCHANGED link

\* The stream (to lockdownd or a service) is refused, times out or is reset.
ConnectFails(q) ==
  /\ call[q].pc \in {"connecting", "dialing"}
  /\ stream' = End(stream, {call[q].stream})
  /\ Ends(q)
  /\ UNCHANGED <<client, link>>

\* lockdownd answers.
Answered(q) ==
  LET x == call[q] IN
  /\ x.pc = "asking" /\ stream[x.stream].st = "open"
  /\ \/ x.op = "query" /\ Ends(q) /\ UNCHANGED <<client, link, stream>>
     \/ /\ x.op = "session"
        /\ stream' = [stream EXCEPT ![x.stream].session = TRUE]
        /\ client' = [client EXCEPT ![x.client].session = TRUE]
        /\ Ends(q) /\ UNCHANGED link
     \/ /\ x.op = "service"
        /\ UNCHANGED client
        /\ LET m == client[x.client].mux IN
           IF m # None THEN Dial(q, x.client, "dial", "dialing", m, stream)
           ELSE OpenLink(q, x.client, "dial") /\ UNCHANGED stream

\* lockdownd refuses, or the stream ends under the request.
AskFails(q) ==
  /\ call[q].pc = "asking"
  /\ Ends(q)
  /\ UNCHANGED <<client, link, stream>>

\* The stream to the service is open: the caller owns it from here, also while
\* it is upgraded to TLS.
Dialed(q) ==
  LET x == call[q] IN
  /\ x.pc = "dialing" /\ stream[x.stream].st = "syn"
  /\ \E ssl \in BOOLEAN :
       /\ stream' = [stream EXCEPT ![x.stream].st = "open"]
       /\ call' = [call EXCEPT ![q] =
              IF ssl THEN At("securing", x.client, "dial", None, x.stream)
              ELSE Idle]
  /\ UNCHANGED <<client, link>>

\* (mutant) the raw transport is not given up to the TLS one
TlsInstalledOnly(k, s) == [k EXCEPT !.tls = s, !.lockdown = s, !.secure = TRUE]

\* The TLS transport takes over the raw one and gets a LockdownClient; without
\* an old one to take the session id from, the method throws half way.
TlsInstalled(k, s) ==
  LET half == [k EXCEPT !.tls = s, !.raw = None] IN
  IF k.lockdown = None THEN half
  ELSE [half EXCEPT !.lockdown = s, !.secure = TRUE]

\* The TLS handshake over the stream is complete, which lockdownd takes part in
\* only after StartSession.
Upgraded(q) ==
  LET x == call[q] IN
  /\ x.pc = "upgrading"
  /\ stream[x.stream].st = "open" /\ stream[x.stream].session
  /\ stream' = [stream EXCEPT ![x.stream].tls = TRUE]
  /\ client' = [client EXCEPT ![x.client] = TlsInstalled(@, x.stream)]
  /\ Ends(q) /\ UNCHANGED link

\* The TLS upgrade of a service stream is over.
Secured(q) ==
  /\ call[q].pc = "securing" /\ stream[call[q].stream].st = "open"
  /\ stream' = [stream EXCEPT ![call[q].stream].tls = TRUE]
  /\ Ends(q)
  /\ UNCHANGED <<client, link>>

\* tlsConnect() throws, having closed its transport (a read that failed or
\* timed out) or not (an alert, a bad message).
TlsFails(q) ==
  /\ call[q].pc \in {"upgrading", "securing"}
  /\ \/ stream' = End(stream, {call[q].stream})
     \/ UNCHANGED stream
  /\ Ends(q)
  /\ UNCHANGED <<client, link>>

-----------------------------------------------------------------------------
(* The device                                                              *)

\* The device resets a stream.
StreamLost(s) ==
  /\ stream[s].st # "dead"
  /\ stream' = End(stream, {s})
  /\ UNCHANGED <<client, call, link>>

\* The links in M lose the device.
Lost(M) ==
  /\ link' = [m \in DOMAIN link |-> IF m \in M THEN "closed" ELSE link[m]]
  /\ stream' = End(stream, Over(M))
  /\ UNCHANGED <<client, call>>

\* One read loop fails.
LinkLost(m) == m \in Reading(link) /\ Lost({m})

\* The device is unplugged (and may be plugged in again at once).
Unplug == Reading(link) # {} /\ Lost(Reading(link))

\* The close() of a mux that nobody awaits has released the device, and every
\* transfer of every link on it is cancelled.
Released(m) == link[m] = "closing" /\ Lost(Reading(link) \cup {m})

Next ==
  \/ \E q \in Callers, c \in Clients :
       \/ \E op \in {"connect", "query", "session", "service"} :
            Request(q, c, op)
       \/ ResetLockdown(q, c) \/ Reconnect(q, c) \/ Upgrade(q, c)
  \/ \E q \in Callers :
       \/ Settled(q) \/ Abandon(q)
       \/ Opened(q) \/ OpenFails(q) \/ Shaken(q) \/ ShakeFails(q)
       \/ Connected(q) \/ ConnectFails(q) \/ Answered(q) \/ AskFails(q)
       \/ Dialed(q) \/ Upgraded(q) \/ Secured(q) \/ TlsFails(q)
  \/ \E c \in Clients : Close(c)
  \/ \E s \in DOMAIN stream : StreamLost(s)
  \/ \E m \in DOMAIN link : LinkLost(m) \/ Released(m)
  \/ Unplug

Spec == Init /\ [][Next]_vars

-----------------------------------------------------------------------------
(* Properties                                                              *)

\* Every variable holds a value of its type: what a client or a call refers to
\* has been made, and a call that awaits a link or a stream has one.
TypeOK ==
  /\ link \in Seq({"opening", "shaking", "failed", "up", "closing", "closed"})
  /\ stream \in Seq([link : DOMAIN link, st : {"syn", "open", "dead"},
                     session : BOOLEAN, tls : BOOLEAN])
  /\ client \in [Clients ->
       [mux : DOMAIN link \cup {None}, lockdown : DOMAIN stream \cup {None},
        secure : BOOLEAN, raw : DOMAIN stream \cup {None},
        tls : DOMAIN stream \cup {None}, session : BOOLEAN]]
  /\ \A q \in Callers :
       \/ call[q] = Idle
       \/ call[q] \in [pc : {"settling"}, client : Clients, op : {"reconnect"},
                       link : {None}, stream : {None}, left : {FALSE}]
       \/ call[q] \in [pc : {"opening", "shaking"}, client : Clients, op : Ops,
                       link : DOMAIN link, stream : {None}, left : {FALSE}]
       \/ call[q] \in [pc : {"connecting", "dialing"}, client : Clients,
                       op : Ops, link : DOMAIN link, stream : DOMAIN stream,
                       left : {FALSE}]
       \/ call[q] \in [pc : {"asking", "upgrading", "securing"},
                       client : Clients, op : Ops, link : {None},
                       stream : DOMAIN stream, left : BOOLEAN]

\* isSessionStarted is true of the stream the next request uses: no answer to a
\* StartSession on an older stream (its caller gone, the client closed or
\* reconnected meanwhile) ever counts for the current one.
SessionOnStream ==
  \A c \in Clients : client[c].session =>
    client[c].lockdown # None /\ stream[client[c].lockdown].session

\* isTlsUpgraded is true of the stream the next request uses: lockdown talks
\* through the TLS transport, which alone owns the raw one ("also installed as
\* the client's lockdownd client, so startService() afterwards goes over TLS").
TlsOnLockdown ==
  \A c \in Clients :
    LET k == client[c] IN
    /\ k.tls # None => k.lockdown = k.tls /\ k.secure /\ k.raw = None
    /\ k.secure => k.tls # None /\ stream[k.tls].tls

\* The lockdown client runs over the client's own mux, also after close() or
\* reconnect() cut into a connectLockdown() that was under way: closing the
\* client closes the stream with it.
LockdownOverMux ==
  \A c \in Clients : client[c].lockdown # None =>
    client[c].mux # None /\ stream[client[c].lockdown].link = client[c].mux

\* A StartService request is in flight only over TLS, on a stream that lockdownd
\* has granted a session ("The service ports are only reachable over the
\* encrypted session").
ServiceEncrypted ==
  \A q \in Callers : call[q].pc = "asking" /\ call[q].op = "service" =>
    stream[call[q].stream].tls /\ stream[call[q].stream].session

\* One WebUsbMux at a time reads the device it owns ("Owns one USBDevice's
\* usbmux interface"): two read loops take each other's packets.
SoleReader == Cardinality(Reading(link)) <= 1

=============================================================================
