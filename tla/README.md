# A TLA+ model of SideImpactor

SideImpactor installs iOS apps from a browser. It speaks Apple's USB protocols
in TypeScript: packets over WebUSB, many TCP-like streams over those packets,
lockdownd and TLS over a stream, and the install services over more streams.
This directory holds TLA+ modules of that code, their TLC configurations and
proofs that TLAPS checks. `PROJECT.json` maps every definition to the lines it
models, and lists the runs, the theorems, the hazards and the findings.

    tlc -workers 2 -config MCMuxTcp.cfg MCMuxTcp.tla
    tlapm MuxLinkProofs.tla

Contents: [the system](#the-system), [the plan](#the-plan),
[MuxTcp](#muxtcp-one-stream), [MuxLink](#muxlink-the-usb-side),
[MuxClient](#muxclient-the-device-client),
[connecting, framing, sockets](#muxconnect-muxframing-nodetransport),
[lockdown and services](#lockdown-installservices), [TLS](#tlsclient),
[flows](#installflow), [accounts and signing](#accountsession-applesigning),
[remote pairing](#remotepairing-rptransport-psktunnel),
[backend](#wisprelay-fifochannel-wispworker), [formats](#formats),
[runs](#runs-and-bounds), [fairness](#fairness), [proofs](#what-is-proved),
[findings](#findings), [not modelled](#what-is-not-modelled).

## The system

All code runs on JavaScript event loops: one stretch of code runs to its next
`await` without interruption, and the interleavings are those of stretches.
Hard behaviour therefore means state read before an `await` and used after it,
calls that overlap because nobody awaits them, and events (a packet, a timer,
an unplugged device) that arrive in between.

| Part | State it keeps | Operations | Talks to |
|---|---|---|---|
| TCP-over-MUX stream: `MuxTcpConnection` (`src/pairing/webusb-mux.ts` 369-579) | state, txSeq, txAck, receive buffer, waiting reads, opener, timer | open, write, readExact, close, abort, handlePacket | frames go to its `sink` (the mux), packets come from the mux |
| USB link: `WebUsbMux` (586-1155) | endpoints, negotiated version, handshakeDone, closed, reading, version waiter, write and packet chains | openUsb, handshake, close, readLoop, handleDisconnect | the browser's `USBDevice`, which other `WebUsbMux` objects share |
| MUX connect and demultiplexing (836-950, 1046-1118) | the table of connections by source port, the next source port | connect with retries, dispatch of a packet, RST of the unknown | streams, link |
| Facade `WebUsbMuxDevice`, `MuxTcpChannel` (1161-1346) | the one active channel | open, createTcpConnection, read, write, close | mux |
| `TcpTransport`, `usbmuxd.ts` | socket buffer; plist framing | dial, read, write, request | Node sockets |
| Device client: `WebUsbMuxClient` (`app/src/transport/webusb-mux.ts`) | mux, lockdown client, raw and TLS transport, session and pairing flags | openAndHandshake, reconnect, connectLockdown, pairDevice, startSession, upgradeToTls, startServiceAndConnect, close | mux, lockdown, TLS |
| Lockdown (`lockdown.ts`) | session id | GetValue, Pair with retries, StartSession, StartService | one plist socket |
| TLS client (`tls-client.ts`) | transcript, keys, record sequence numbers, dead flag | handshake, application data | one stream |
| Install services (`afc.ts`, `installation-proxy.ts`) | packet number; progress | AFC requests, uploads, Install and Browse events | one stream each |
| Flows and handlers (`app/src/flows`, `App.tsx`) | one client per group of handlers, busy flags, prepared IPA, pairing records | pair, sign, install, refresh | client, services, stores |
| Accounts and signing (`App.tsx`, `account-session.ts`, `apple-signing.ts`) | active account, contexts, stored sessions, two-factor dialog; cached certificate | login, switch, delete; sign, refresh, revoke | Apple's servers through the backend |
| Remote pairing (`remote-pairing.ts`, `flows/remote-pair.ts`) | sequence number, encrypted counters, PSK | verify, setup by PIN, listener, tunnel | a WISP WebSocket |
| WISP backend (`backend/src`) | per socket a queue of chunks and its waiters | connect, send, recv, close; routing, proxies, access policy | WebSocket, TCP sockets, Apple's servers |
| Codecs and cryptography | none | SRP, OPACK, TLV8, X.509, plist | - |
| App stores | records in localStorage and IndexedDB | load, save, trim | flows, accounts |

What makes each correct, in a sentence:

- a **stream** hands out the device's bytes in order, once, to the reads in the
  order they asked, acknowledges what it took, and leaves no caller waiting
  when it ends;
- a **link** lets `connect()` through only while it really reads from an open,
  claimed, negotiated device, never waits for an answer that cannot come, and
  lets go of the device when closed;
- **connect** never gives two live streams one source port, and a late frame
  never reaches the wrong stream;
- **framing** hands on each packet once, whole, in turn and in the format it
  was sent in, whatever the transfers cut;
- a **client** has flags (connected, session started, TLS) that are true of the
  stream its next request uses, and one client at a time reads a device;
- **lockdown** gives each request its own reply;
- **TLS** lets a connection be used only when both ends saw one handshake, and
  numbers records in the order they reach the wire;
- an **install** ends, installs a package that was staged whole, and lands on
  the device it was meant for;
- **signing** makes packages whose profiles carry their certificate, device
  and group, and **signing in** leaves in use what is stored;
- **remote pairing** ends with one session key on both sides, kept with signing
  keys that the device knows, and never uses a nonce twice. The client does not
  check the device's signature; nothing here relies on one;
- the **relay** delivers chunks in order and without a gap until it is cut, and
  leaves no reader waiting;
- a **format** gives back what was written in it, and makes nothing of what was
  cut that was not written.

The hazards behind these sentences are listed one by one, at their line, in
`PROJECT.json`, with the properties that cover each. Some that no property
covers are listed under [findings](#findings).

## The plan

In order of importance:

1. `MuxTcp` - one stream, which implements the abstract `ByteStream`, as the
   other transports below do; proofs in `MuxTcpProofs` and `MuxTcpStreamProofs`.
2. `MuxLink` - the USB side of `WebUsbMux`, several objects over one device,
   with proofs in `MuxLinkProofs`.
3. `MuxClient` - `WebUsbMuxClient` objects over one device: what each client
   believes against what the link and the stream below it do; proofs in
   `MuxClientProofs`.
4. `WispRelay`, which implements the abstract `FifoChannel`, and `WispWorker`;
   proofs in `WispProofs`.
5. `InstallFlow`, `Lockdown`, `InstallServices`: the way of a package, from
   the handlers down to the requests; proofs in `AppProofs` and `DeviceProofs`.
6. `RemotePairing` (proofs in `DeviceProofs`); the transports below it,
   `RpTransport`, `PskTunnel`, and `TlsClient` (proofs in `TlsProofs`).
7. `MuxConnect`, `NodeTransport` (proofs in `DeviceProofs`), `MuxFraming`
   (proofs in `MuxLinkProofs`).
8. `AccountSession`, `AppleSigning` (proofs in `AppProofs`); the formats
   (`WireFormats`, `Plists`, `PairingFiles`, `Srp`, and `Formats`, which writes
   and reads in them).

Nothing of it is left; see [what is not modelled](#what-is-not-modelled).

## MuxTcp: one stream

An action is one synchronous stretch: the code up to an `await`, or after it.

| Code | Model |
|---|---|
| `state`, `txSeq`, `txAck` | the same; numbers wrap at `Modulus` for 2^32 |
| `rxBuffer` | `rxLen` bytes buffered after `rxTaken` bytes handed out: bytes are positions in the device's stream |
| `pendingReads` | the sequence of waiting calls; `reads` says what became of each call |
| `connectResolve/Reject`, `connectTimer` | `opener` (idle, syn, armed, resolved, rejected), `timer` |
| `open()` | `Open` to the await of the SYN, `OpenSent` after it, `ConnectTimeout` |
| `handlePacket` | `HandlePacket` to the await of its ACK, `AckSent` after it; `handling` is the call that waits, since `packetChain` runs one at a time |
| `write`, `readExact`, `close`, `abort` | `Write`, `ReadExact`, `Close`, `Disconnect` |
| `sendFrame`, `writeChain` | a frame's header is computed when it is queued in `outq`; `Deliver` gives it to the device, `Settle` or `SettleFail` resumes the code that awaits it |
| `appendRx`, `pumpReads`, `takeBytes` | `AppendRx`, `PumpReads`, `TakeBytes`. The loop of `pumpReads` is one step: it serves the first `k` waiters, `cut[i]` is where the bytes of the `i`-th end (`CutFor`), `k` the number at which its test stops it (`PumpStops`) |
| the device | `Device...` and `inq`: it accepts, refuses or ignores a SYN, sends data and RSTs, keeps only data that continues its stream |

That a frame reaches the device strictly before its `await` returns is what
makes the interesting orders possible: the SYN+ACK is handled while `open()`
still awaits its SYN, a write is acknowledged before `txSeq` advances.

Properties: `NoLostWakeup`, `NoOrphanedWaiters`, `AckExact`, `WritesAccepted`
(for callers that await each write, see `Overlap`), `ReadsPartition`,
`EveryByteAcked` (while transfers fail only with the device, see `Faults`), and
under fairness `OpenSettles`.

## MuxLink: the USB side

| Code | Model |
|---|---|
| `reading`, `closed`, `endpoints`, `handshakeDone`, `muxVersion`, `versionWaiter` | fields `reading`, `closed`, `bound`, `done`, `version`, `waiter` of `mux[m]`; the waiter is named by its turn |
| where `openUsb()` or `handshake()` is | `pc`, `attempt`, `answer` (what the promise of the turn became), `timer` |
| a packet handed to `transferOut` | `frame`, `atDevice`; `v2` is the kind of header it was encoded with |
| where `close()` is | `teardown` |
| `transferIn` outstanding | `readers`, the oldest first, as the browser completes them |
| `device.opened`, `claimed` | the same, shared by all objects |
| the device | `plugged`, `toHost` (VERSION replies it has ready), `devMode` (what it negotiated) |

`OpenUsb`, `Opened`, `Claimed`, `OpenFails` are the stretches of `openUsb()`;
`Handshake` to `HandshakeTimeout` those of `handshake()`; `Read` one iteration
of the read loop with `handleVersionPacket`; `Unplug` and `LoopFails` the ends
of the link with `handleDisconnect`; `Close`, `Released`, `DeviceClosed` the
stretches of `close()`. A loop whose object was closed takes one more packet
and drops it, as in the code. Releasing the interface or closing the device
cancels every transfer, whoever submitted it.

An object is opened again only with `Reuse`: the app makes a new object each
time, the interface allows reuse.

## MuxClient: the device client

| Code | Model |
|---|---|
| `mux`, `lockdownRaw`, `lockdownTls`, `sessionStarted` | fields `mux`, `raw`, `tls`, `session` of `client[c]`: the number of a link or a stream, 0 for null |
| `lockdown` | the stream its `LockdownClient` was built on, and `secure`: over the TLS transport or the raw one |
| a method under way | `call[q]`: where it awaits (`pc`), the method (`op`), the mux or stream it holds across the await |
| a `WebUsbMux` | `link[m]`: opening, shaking, up, closing (closed, the device not yet released), closed, or failed: the handshake is over and the loop reads on |
| a TCP stream | `stream[s]`: its link, whether it lives, whether lockdownd granted it a session, whether TLS is up on it |

`Request`, `ResetLockdown`, `Reconnect`, `Upgrade` start a method, by a flow
that has awaited its last one; `ConnectLockdown` is the code every method begins
with. `Shaken`, `Connected`, `Answered`, `Dialed`, `Upgraded`, `Secured` continue
it to its next await; the actions named `...Fails` end it. `Close` is the
`close()` of another handler or of the page's unload and may come at any time.
`Abandon` is the 15 s timer of `browseInstalledApps`: the call it leaves behind
goes on, and the flow may then only reconnect, as that function does.
`Released` is the end of a `close()` nobody awaits: it cancels the transfers of
every link on the device.

`Shared` lets two flows use one client. The app's busy flags prevent it within
a page, but the pairing page keeps its own flag and uses the client of the
install handlers. The properties are claimed for `Shared = FALSE`;
`mux_client_shared` shows why.

MuxClient abstracts MuxLink and MuxTcp: a link is up when MuxLink's object is
`done`, a stream ends in the stretch that closes its link, as in both. The
pairing exchange and the two cached UDIDs are in `InstallFlow`, two requests at
once on one lockdown stream in `Lockdown`.

## MuxConnect, MuxFraming, NodeTransport

`MuxConnect` has callers of `connect()` beside each other. `callers[c].pc` is
the await that one is at: the SYN's transfer (`syn`), the answer (`armed`), the
pause before the next try (`sleep`). `conns` are the streams made, `connections`
the table by source port, `sport` the counter, `channel` the field of
`WebUsbMuxDevice`. A run may begin with a stream left open long ago, whose port
the counter comes round to. `foreign` marks a stream that took a frame of
another one. `Reopened` is a second object on the same USB device: the first
one's frames then go nowhere. The code has 33001 ports; `Ports > MaxConns` says
what that number is for.

`MuxFraming` has the bytes of the device's packets as pairs (packet, place):
`Transfer` is `onUsbData` with the packets it completes (`PacketOffset` has the
`offset` of the loop at each turn), `Handle` one turn of `packetChain`, which may
change the header format (`version`) for the packets behind it, `SendMux` and
`Transmit` numbering and writing. `Decodes` gives a packet the format that holds
when its turn comes, not when it arrived.

`NodeTransport` is `TcpTransport`. Between the await of the dialed socket and
what follows it, `close()` and other calls run. The sockets ever made are in
`sockets`; `socket` and `dialing` are the two fields. `ServeReads` is the loop
that serves the reads that wait, as one step.

## Lockdown, InstallServices

In `Lockdown` a reply is two units, header and body, read one after the other
as `recvPlist` does; `calls` are the requests in order, and what each got. A
request begins only where the code awaits none before it - with one exception,
the StartSession that `browseInstalledApps` abandons after 15 s and that goes
on reading. That the next attempt opens a new stream is what keeps
`ReplyOfRequest`; its mutant asks on the same stream. `pairDevice()` polls the
trust dialog in `PairAttempt`, `PairAnswered`, `RetryDelayOver`; `Abort` is its
signal. `UsbmuxdClient` runs the same requests on the socket before `Connect`
hands it over.

`InstallServices` follows `installIpa()`: one AFC request after another, each
reply checked for its number, then the command to installation_proxy. The file
on the device is a sequence of chunk numbers, and may exist before, left by an
earlier upload. The device carries a request out, fails it, answers with a
wrong number, or is gone. AFC requests have no timeout in the code and none
here; installation_proxy has one per message, 120 s, and takes at most 4096
messages (`MaxProxyMessages`).

## TlsClient

`tls` has the driver (`pc`, `transcript`, the message awaited, `seq`) and the
`TlsTransport`; `peer` is the server: its version and suite, which it may pick
against the client's offer as far as the code accepts, and its flight, which it
may leave incomplete. Records are cut into pieces of a `Cuts` size, handshake
messages into several records. Sealing is symbolic: a record opens with the
key, the number and the previous block that it was sealed with, and for nobody
else. A peer that is `strict` has RFC 5246's rule that the premaster secret
carries the offered version. `onWire` is the history of sealed numbers.
Parsing the server's certificate and deriving keys are part of the abstraction.

## InstallFlow

The handlers of `App.tsx` and `PairingPage.tsx` (`StartPair`, `HandleInstall`,
`HandleDirectInstall`, `HandleRefreshScan`, `HandleRefreshApp`, `HandleSign`)
start tasks as their busy flags allow, which leaves some pairs of them to run
at once. A task's `pc` is the client call it awaits. A call of a client is one
step that ends well or throws; what happens inside it is `MuxClient`'s. Several
iPhones can be plugged in, unplugged and picked. A pairing is a host ID with
the certificate made for it; `store` is localStorage, `phone` what a device
accepts. Pairing records of older builds are absent.

`InstalledOnTarget` holds, and not because anybody looks: only the first try of
an install compares the device's UDID with the one wanted, and later tries take
whichever device `reconnect()` finds. But the record used is that of the wanted
UDID, and another device grants no TLS session for it. That argument needs the
record to be the wanted device's, which the code does not ensure
(`flow_records`). The property therefore excepts the UDIDs under which another
device's record was ever stored (`store.mixed`); without the exception TLC finds
an application on the wrong device, with two pairing buttons, a Direct Install,
`MaxCerts = 2` and `MaxStarts = 4`. With it that instance has no error (3.0
million states).

## AccountSession, AppleSigning

`AccountSession`: `login` is the `doLogin()` under way, with the two-factor
`dialog` and the `promise` of a code; `checks` are checks of codes that Apple
has not answered. `stored`, `contexts`, `active` are the three places that know
accounts; a token is the number of its sign-in. Signing takes the session in use
when it starts and stores it when it has ended well, whatever the user did
meanwhile: `ActiveIsStored` says what holds all the same.

`AppleSigning`: `signIpaWithAppleContext()` run by the sign and the refresh
handlers, which nothing keeps apart, and the revoke button, on one team of the
developer portal. A request to the portal is one step; an `addCertificate` may
be carried out and its answer lost. Extensions are provisioned one by one
(`EmbedExtension`); one without an Info.plist or an identifier (`bare`) is passed
over and signing goes on (`SkipExtension`). `PackageInstallable` speaks of the
package at the end: what its certificate and profiles must have in common, and
that the extensions with a profile of their own are those with an identifier.

## RemotePairing, RpTransport, PskTunnel

`RemotePairing` is `startSession()` against a device: pair-verify in two
rounds, a failure, the fallback to pair-setup with consent, PIN and three
rounds, then encrypted requests, and the second call that `establishTunnel()`
makes. A key is the exchange that made it. `sent` records number, key and nonce
of each frame; the nonce advances only when a response was decrypted, and
`NoncesFresh` says that this is enough.

`RpTransport` is the byte stream over a WebSocket below it: messages cut frames
anywhere, `readFrame()` reads magic, length and body. `Offsets` says where each
frame of the device starts; a length read anywhere else is another number.
`PskTunnel` is what comes after: TLS with the pre-shared key, then the CDTunnel
exchange, whose reply may come in a record with the first bytes of the tunnel, or
be refused for its magic, its JSON or its fields (`ReplyRefused`).
A record of data is the number of its bytes, and `Carry` says that the records
on their way hold the stream from one place to another.

## WispRelay, FifoChannel, WispWorker

`WispRelay` is one TCP stream of the backend: `pump` is `MessagePump`, `tcp`
the `CfTcpSocket`, `closer` the places of the two calls of `close()` that meet
(the loop's and wisp-js's). `FifoChannel` is what a direction of a relayed
stream promises; `PumpIsChannel` is the refinement, with the chunks pushed, the
chunks handed out and `drained` for its three variables.

`WispWorker` is one request to `fetch()`: the routes, the two proxies with the
headers they rewrite, the access token, and the messages of a WISP session.
A header is the kind of its value. On the portal's path the client that is named
is the one the anisette server describes (`PortalHeaders`): it may be Xcode, see
[findings](#findings). `TokensOnlyToApple` therefore says which client is named
for `/apple-proxy/` only, and where the tokens go for both.

## Formats

`WireFormats` (base64, OPACK, TLV8), `Plists` (both readers of property lists,
with a writer that stands for the peer), `PairingFiles` (DER, certificates,
pairing files) and `Srp` are the codecs as operators on bytes. `Formats` runs
them: a value is written, by this code or by a peer, may be cut if it is OPACK,
TLV8, base64 or a pairing record, and is read. `FormatsKept` has a part for what
arrives whole on the wire, one for what arrives cut, one for property lists and
one for pairings. Values lie on both sides of every length limit (32 and 256 in
OPACK, 33 references in its object table, 255 in TLV8, 128 and 256 in DER, 15 in
property lists), of the widths and signs of integers in property lists (128, 256,
32768, 65536), and of the years that certificates write with two digits (2049,
2050, and 19 April of that year). Not everything comes back as it was written,
and the properties say what comes instead:

- `PlistsKept`: the app's binary reader (`lib/plist.ts`) takes integers of one
  or two bytes with their high bit set for negative ones (`WithSigns`); that of
  the pairing code does not.
- `PairingsKept`: a certificate made between 2050-01-01 and 2050-04-19 says it
  is valid from 1950 on (`ValidFrom`).
- `CutsHarmless`: OPACK that was cut is always refused. TLV8 that ends where an
  entry does, or a byte later, is read (`tlv.ts:78` says so of the lone byte),
  and gives the start of what was written; so does base64 of a multiple of four
  symbols. A pairing record that was cut gives its device info or nothing,
  because its cipher has a tag.

Hashes, signatures and ciphers are symbolic; SRP runs in the group modulo 23.
These modules use RECURSIVE
operators and are not meant for proofs.

## Runs and bounds

| Run | Question | Bounds |
|---|---|---|
| `mux_tcp` | safety of one stream under faults | 3 reads, 2 writes, lengths 1-2, 3 bytes from the device, counters modulo 3. Three reads give a waiter in front, between and behind; counters wrap within the run |
| `mux_tcp_live` | acknowledgement and settling | 1 read, 2 writes that may overlap, no failing transfers while plugged in |
| `mux_tcp_ack_fails` | violation: `OpenSettles` with failing transfers | 1 write |
| `mux_link` | safety of the link | 2 objects over one device, 2 turns, 1 reply waiting, faults and reuse. Two objects are what meets in practice (the old one closing, the new one opening); a second turn is the one that differs from the first |
| `mux_link_live` | `handshake()` ends | 1 object, the code's 3 turns, 2 replies |
| `mux_link_header` | violation: `VersionIsLegacy` | 1 object, no reuse |
| `mux_link_reuse` | violation: `SessionNegotiated` | 1 object, reuse; `close()` is called during the transfer of SETUP and nowhere else (`CloseDuringSetup`), so that the trace is the one described under [findings](#findings) |
| `mux_client` | what a client says is true of its stream | 2 clients, 2 calls, 2 links, 3 streams: enough for an old and a new link and for lockdown streams before and after a reset beside a service stream. 3 links give 2,015,204 states and hold too, but take near three minutes |
| `mux_client_reader` | violation: `SoleReader` | 1 client, 1 flow, 2 links |
| `mux_client_shared` | violation: `TlsOnLockdown` with two flows on one client | 1 client, 2 calls, 1 link, 2 streams |
| `components` | everything else that passes, see below | small instances of 15 components |
| `flow_records` | violation: `RecordsOfDevice` | 2 devices, pairing and Direct Install, 1 unplugging |

`components` runs the components that share no variables with each other:
`MCComponents` picks one at the start, and the variables of the others stay as
they began. TLC so explores the union of their state graphs, not the product,
which would show nothing more. Where components meet, one of them has the other
as a call or a channel: `InstallFlow` the calls of `MuxClient`, `TlsClient` and
`RemotePairing` the byte stream below them, `WispRelay` the calls of wisp-js.
`TypesOK` is the type invariant of the part that runs. The parts:

| Part | Properties | States | Why the bounds do |
|---|---|---|---|
| relay | `PumpIsChannel`, `RecvEnds` | 12,000 | 2 readers queue up beside 1 send; 3 chunks are one before, at and after the end |
| worker | `TokensOnlyToApple` | 6,500 | every route, header and token; 3 messages let one conversion end before, one after its neighbour |
| pairing | `SessionSound` | 26,000 | 2 sessions: the second try of the tunnel; 2 requests under one key |
| rp | `FramesReassembled` | 1,000 | bodies of 2, 0, 1 bytes, cut anywhere |
| tunnel | `TunnelBytesKept` | 9,000 | 2 writers of 2 records; bytes before and after the end of the reply |
| tls | `AgreedWhenOpen`, `SealedInTurn`, `HandshakeEnds` | 56,000 | all versions, suites and flights, whole and cut; 2 writers of 2 fragments |
| flow | `InstalledOnTarget` | 28,000 | 2 devices, one paired with another host; pairing beside each kind of handler; 2 certificates; 1 unplugging |
| lockdown | `ReplyOfRequest` | 37,000 | 4 requests, 2 attempts: one abandoned, one after it |
| services | `PackageWhole`, `InstallEnds` | 500 | 2 chunks, 3 messages |
| formats | `FormatsKept` | 12,000 | values on both sides of each limit; messages cut at every place |
| connect | `StreamsKept` | 38,000 | 2 callers, 2 tries, a port counter that meets an open stream at once |
| framing | `FramesInTurn` | 13,000 | the packets before, at and after the change of version |
| node | `ClosedForGood` | 11,000 | 2 clients, a second dialing |
| session | `ActiveIsStored`, `CancelEnds` | 4,600 | 3 accounts, two of one Apple ID; a list for 2 |
| signing | `PackageInstallable` | 5,000 | 2 flows, a certificate limit that is reached |

The counts are rounded. The safety properties were also run, one component at a
time and without error, on larger instances: 4 streams on 5 ports (663,000
states), 3 sessions with 3 requests (532,000), `MaxData = 3` for TLS (263,000),
5 lockdown requests (220,000), 3 signings, 4 sign-ins, 4 packets, 4 chunks.

Symmetry over reads and writes, over objects, and over clients and calls is
used in the three large safety runs only. `CHECK_DEADLOCK FALSE` stands in every
run because a closed stream or an unplugged device has nothing left to do.

Each property of a passing run has a mutant in its module, next to the
definition it changes and marked `(mutant)`: a small bug of the code's own
kind under which TLC finds the property violated.

## Fairness

Weak fairness is assumed of what the browser's event loop and the USB stack do
by themselves: a `transferOut` ends (it delivers or fails), the code that
awaits it resumes, a queued packet is handled, a running timer fires. Nothing
is assumed of the user, of callers, or of the device: it may never answer, and
the device's own sends are not fair. `Unplug`, `Close` and faults are never
forced.

In the modules of `components` the same rule holds, for what their liveness
properties need: code that has something to do does it, and a limit in time
ends a wait.

- `RelaySpec`: `forwardInbound()`, an event loop's own loop, goes on.
- `TlsSpec`: the driver goes on (`DriverStep`), and the timer of a handshake
  read fires (`Timeout`). The server may send nothing.
- `ServicesSpec`: `ProxyStep` - a message that came is read, and one that does
  not come is timed out.
- `RpSpec`: a closed WebSocket tells so.
- `SessionFair`: the sign-in's own code goes on and requests to Apple are
  answered, well or badly, as a browser ends every fetch; the user need not type
  a code.

## What is proved

A theorem holds for every value of the constants that the module's named
assumption admits. These assumptions say that bounds are numbers and that names
differ (the names of writes from the other owners of frames, null from a device
or a client), with two that say more: `MuxConnectAssumption` has
`Ports > MaxConns`, and `RpTransportAssumption` says that the device's frames
follow each other, each at least as long as its magic and length field. Some
theorems restrict the behaviours by a constant, as the runs do: `Overlap = FALSE`
is callers that await each write, `Faults = FALSE` is transfers that fail only
with the device, `Shared = FALSE` is one flow per client; and `SigningTypesCorrect`
has a bound of the model no smaller than another. Each theorem below
rests on an inductive invariant, which TLC was given on the run's instance; the
refinements of `ByteStream` too, which are in no run.

MuxTcp (`MuxTcpProofs`, `MuxTcpStreamProofs`)

- `TypeCorrect`, `NoReaderSleepsOnData`, `ClosedReleasesWaiters`. The three are
  inductive together (`Waiters`): pumping the readers needs the types of the
  queue, and closing leaves no reader, so that a closed stream is never one with
  data for a sleeping reader. The heart is `AppendRxType`: where the loop of
  `pumpReads()` stops, the first reader left is short of bytes.
- `ReadersShareTheStream` (`ReadsPartition`). The invariant `Partition` adds
  that a reader is queued once and only while it is pending, and that what was
  served ends before `rxTaken`. The loop's cuts ascend (`CutFor`): the readers
  served at once tile the bytes between the first cut and the last. That a byte
  between them lies between two neighbours is the one induction, by the least
  cut beyond the byte (`NatMin`).
- `AcknowledgesWhatItTook` (`AckExact`). Not inductive: the order of packets on
  their way makes it true. The invariant `Stream` adds that the SYN+ACK comes
  first and once, that no data comes before it, that each segment starts where
  its predecessor ends, and that the first one not yet handled starts at
  `txAck`. The arithmetic of wrapping counters (`ModUnique`, `DivMod`, `ModAdd`)
  is proved first.
- `WritesAreAccepted` (`WritesAccepted`, with `Overlap = FALSE`). `Written`: one
  data frame at most is in the writer's queue and its number is still `txSeq`;
  the device has got as far as `txSeq`, or, while the frame in flight was
  delivered and its `write()` not yet resumed, beyond it by that frame.
- `NoByteUnacknowledged` (`EveryByteAcked`, with `Faults = FALSE`). `Acked`: the
  last frame the device has not seen carries the current `txAck`, and when there
  is none the device's `devAck` is `txAck`. Needs `Stream` for `AckExact`.
- `ConnectionIsByteStream`: the connection implements `ByteStream`, the promise
  to whoever calls `readExact()`: bytes come out in order, none that the device
  did not send, and after the end only what was taken before. The mapping counts
  bytes (`got` is `rxTaken + rxLen`, `ended` is a closed `state`), so that this
  is a statement about the bytes where `AckExact` is one about counters that
  wrap. `ConnectionLosesNothing`: with no packet on its way, a connection in use
  has every byte the device sent. Both rest on `Counted`: the packets on their
  way have places in the device's stream (`Starts`), and a live connection has
  taken exactly what comes before the first. The places are a function that
  exists, not one that is computed: a sum over a queue would be an induction
  over data. No run checks the two; TLC found them to hold with two readers, a
  writer and `Modulus = 3`, and the first one broken by `TakeUntrimmed`.
- `NobodyWaitsInVain`, with `Faults = FALSE`: the safety half of `OpenSettles`.
  `Awaited`: whoever awaits a frame has it in `outq`, and an armed opener has a
  running timer or a `handlePacket()` that will resolve it and whose ACK is
  queued. Only fairness is missing from there to `OpenSettles`. With `Faults`
  the last step fails, as `mux_tcp_ack_fails` shows.

MuxLink (`MuxLinkProofs`)

- `LinkTypeCorrect`, `HandshakeAlwaysAwaited`, `ConnectableIsLive`,
  `ClosedHasReleased`, `LoopsAreSingle`. All five follow from `LinkInv`:
  `HandshakeInv` ties a turn to its waiter, its timer and its packet; `LoopInv`
  ties each object's flags to whether it has a read outstanding; reads are
  outstanding only on an open, claimed device. The invariant is needed because
  each of the five fails to be inductive: a closed object whose `close()` is
  under way may still read, and only its `teardown` tells it from one that must
  not. A lemma per method (`FailWaiterKeeps`, `RetryKeeps`, ...) and one per
  sequence operation (`AppendReader`, `TailReader`, `RemoveReader`) carry the
  steps.

MuxClient (`MuxClientProofs`)

- `ClientTypesCorrect`, for any sharing (`Made`: what a client or a call refers
  to has been made, and a call has what its await waits for).
- `SessionIsCurrent`, `TlsIsCurrent`, `LockdownHasMux`, `ServicesEncrypted`,
  with `Shared = FALSE`, from one invariant `ClientInv`: `ClientSound` says
  what the fields of one client have in common, `CallSound` what a call under
  way may rely on in its client after the await - while the stream it holds
  lives, the client still uses that stream - and `Alone` that the others of
  the client's calls are abandoned ones, which change no field. Each of the four
  alone is not inductive: without `CallSound` an answer could be stored in the
  flags of a client that has moved on to another stream. `mux_client_shared`
  shows that `Alone` is needed.

MuxConnect (`DeviceProofs`)

- `StreamsAreKept` (`StreamsKept`). The table finds a stream by its port and
  none that is closed (`Table`); ports go up, so that two streams share one only
  when the first was there at the start, and then it is closed (`PortsGoUp`,
  `PortsDiffer`) and its last frame was its RST (`AgedAlone`). With those an
  open stream is the table's (`InTheTable`), although an attempt that failed
  deletes the entry of its port. The facade's channel has a holder (`Held`).
  `nextSport()` is proved to find a free port (`NextSportFresh`). It needs
  `Ports > MaxConns`: in the code, that fewer than 33001 streams are made
  between the opening of a stream and the last frame for it. The stream left
  open long ago, whose port does come round, is in the theorem.

Lockdown, InstallServices, RemotePairing (`DeviceProofs`)

- `RepliesMatch` (`ReplyOfRequest`). `ReplyInv`: what a request got, what is
  buffered and what is on the wire are together the rest of one reply, that of
  the current request (`Stage`); after the stream ended, a part of it
  (`EndedStage`).
- `StagedWhole` (`PackageWhole`). `StagingInv`: the device's file at each place
  of `installIpa()` (`FileOfPlace`), and the request or reply that is there
  (`PacketOfPlace`). A write that is answered ok has made the first `n` chunks
  the first `n + 1`.
- `SessionsAreSound` (`SessionSound`). `PairInv`: what client and device have
  of each other and what is under way at each of the ten places of the exchange
  (`Talk`), and that every nonce used is behind the counter, or under an earlier
  key (`NoncesPast`).

TlsClient (`TlsProofs`)

- `TlsTypesCorrect`, `HandshakeAgrees` (`AgreedWhenOpen`), `RecordsInTurn`
  (`SealedInTurn`), all from `TlsInvariant`. `Phases` and `PeerPhases` say what
  each side knows; `Numbered` counts the records on their way from the last:
  they carry the numbers below `tls.write`, so that the next one the server
  reads has the number it expects; `Answers` makes a sealed Finished on its way
  to the client one over the server's transcript.

WispRelay, WispWorker (`WispProofs`)

- `PumpImplementsChannel`: the pump and the socket implement `FifoChannel`. The
  initial states map to its initial state and every action to one of its
  actions or to a stutter, one step of the proof each, under `PumpInv`: chunks
  are in order, and all that was pushed was read from the socket.
- `RelayTypeCorrect`, `TokensStayWithApple` (`TokensOnlyToApple`); the latter
  from `TokensInv`, by what was contacted at each place of `fetch()`: for the
  portal the sources of anisette data, asked without tokens, and then Apple.

InstallFlow (`AppProofs`)

- `InstallsOnTarget` (`InstalledOnTarget`), for any devices, sets of handlers
  used together, earlier pairings and bounds. `FlowInv`: pairing certificates
  are known to the device they were made with (`CertsKnown`), so that an
  encrypted session of an installation is with its target or one mixed up with
  it (`SessionOnTarget`), and a service stream goes with its task's session
  (`StreamsOwned`). Which handlers can meet on one client is `ClientsOwned`: a
  pairing may change the client of an installation under way, but sets up no
  TLS on it.

MuxFraming (`MuxLinkProofs`)

- `PacketsInTurn` (`FramesInTurn`). `FramingInv`: what has not been handed on is
  whole packets, the next one first (`Holds`), and `packetChain` has those
  before them. `drainMuxPackets()` is an `offset` that its loop moves on, a
  recursive function here: `OffsetSteps` shows that there is one, by induction
  on the least turn without (`NatMin`), and `CutsAtPackets` that it stays at the
  beginnings of packets, so that a length is read only where one is. A VERSION
  answer comes first, so that the format of what follows is known
  (`HandledSound`).

NodeTransport (`DeviceProofs`)

- `NodeIsByteStream`: `TcpTransport` implements `ByteStream`, as the connection
  of a mux does, so that the clients above may run over either. `got` counts
  what was handed out and what is buffered, `ended` is `close()`. Bytes are
  taken as they arrive, by one step of the abstract stream (`SendAndGet`).
- `ClosedStaysClosed` (`ClosedForGood`). `NodeInv` adds that a read that waits
  is in the queue, where `failAll()` reaches it (`WaitersQueued`), and that until
  `close()` the one socket that is dialing or open is that of `dialing`, and an
  open one that of `socket` (`OneSocket`): otherwise `close()` would leave
  another one open. That reads return the bytes in order is a statement about
  concatenation: what the reads served take from the buffer's front goes to the
  end of what was handed out (`BytesMove`).

RpTransport, PskTunnel (`TlsProofs`)

- `FramesAreWhole` (`FramesReassembled`). `FramePlace`: a frame's parts are read
  from the offset at which the device put them, and a read that waits is the one
  for the part `readFrame()` is at. Only so is the length field read where a
  length is.
- `TunnelKeepsBytes` (`TunnelBytesKept`). `StreamKept` says it from the first
  record on, before there is a tunnel: what the host has counted for the
  response, handed out and kept, and what is on its way, is what was sent.
  `CarryMore` and `CarryLess` are the two ends of the wire.
- `RpIsByteStream`, `TunnelIsByteStream`: both implement `ByteStream` too. For
  `RpTransport` the stream is the bytes of the messages that arrive, for the
  tunnel those of its data records, the CDTunnel response first; it ends with
  the first record that does not open, or with a response that is refused.
  `TunnelBounded` bounds what is on its way by what the device has, so that no
  reader is given more than was sent.

AccountSession, AppleSigning (`AppProofs`)

- `ActiveStays` (`ActiveIsStored`). `SessionInv` adds that what a reload would
  sign in is on the list of accounts (`SummaryListed`) and that the contexts in
  memory are those stored (`ContextsStored`); the list loses the account that is
  deleted or put first again and no other (`WithoutKeeps`).
- `PackagesInstallable` (`PackageInstallable`). `RunSound` is what a call of
  `signIpaWithAppleContext()` has reached at each of its places; `Grows` is what
  other calls do to the portal: they take nothing from it but certificates,
  which are then revoked (`SoundStays`).

Types (`TypesOK` of `MCComponents`, part by part)

A disjunct of `TypesOK` is the type invariant of one component, bounds
included, and each but that of the formats is a theorem about that component's
own specification: `RelayTypeCorrect`, `WorkerTypesCorrect` (`WispProofs`);
`PairTypesCorrect`, `LockdownTypesCorrect`, `ServicesTypesCorrect`,
`ConnectTypesCorrect`, `NodeTypesCorrect` (`DeviceProofs`); `RpTypesCorrect`,
`TunnelTypesCorrect`, `TlsTypesCorrect` (`TlsProofs`); `FramingTypesCorrect`
(`MuxLinkProofs`); `FlowTypesCorrect`, `AccountTypesCorrect`,
`SigningTypesCorrect` (`AppProofs`). They follow from the invariants above and
what a type leaves to add, where it is not a mere bound:

- `PairBounded`: the number of a frame is the number of frames sent, although
  the nonce is not, and a pairing file that the device has was made here.
- `SessionParts`: an account is on the list once. `useAccount()` puts it first
  and takes its old place out (`WithoutOnce`, `SavedOnce`), and the list is cut
  at its limit.
- `SigningBounded`: a portal at its limit takes no certificate; what is revoked
  or cached was made. It needs that the certificates of others fit within the
  bound on those made (`Foreign <= MaxMade`).
- `FlowBounded`: each call of a client starts the session before it encrypts
  (`CallsHold`), and a pairing replaces the record of its UDID.

### Only model-checked

- Liveness: `OpenSettles`, `HandshakeSettles`, `RecvEnds`, `HandshakeEnds`,
  `InstallEnds`, `CancelEnds`. The prover has no rules for fairness. Of
  `OpenSettles` the safety half is proved (`NobodyWaitsInVain`), and of
  `HandshakeSettles` (`HandshakeAlwaysAwaited`).
- `FormatsKept`: the formats are recursive operators, with which the prover has
  no arithmetic, and what they compute for every input is an induction over data.
- `TypesOK` as `MCComponents` states it: that module has all the components
  together, the recursive formats among them. Its parts are proved, see above,
  but for `FormatsTypeOK`.

## Findings

- `open()` may never settle: the connect timer is cleared before the ACK of the
  SYN+ACK is sent, and the waiter is resolved after; when that transfer fails
  and the device stays, nobody settles it (`mux_tcp_ack_fails`).
- A retry after a failed SETUP sends VERSION with a 16-byte header, where a
  comment says the header is the legacy one (`mux_link_header`).
- `close()` during the SETUP transfer: the old `handshake()` then marks the
  closed object as negotiated, and if that object is opened again it skips the
  handshake and has no version (`mux_link_reuse`). The app does not reuse objects; the class
  allows it and says that it resets this state.
- A failed MUX handshake leaves its object reading and forgotten; the retry
  reads the same device with a second one (`mux_client_reader`). `App.tsx` gets
  to the same place with its two clients, of which a handler discards only its
  own.
- Two flows on one client: the lockdown client over TLS is replaced by a plain
  one while `isTlsUpgraded` stays true (`mux_client_shared`).
- Direct Install is not off while a pairing runs, closes its client, and the
  pairing goes on with whichever device the picker gives; the record is stored
  under the first one's UDID (`flow_records`).

Met while modelling, at the line named, and not the subject of a run:

USB and sockets (`src/pairing`)
- `webusb-mux.ts:872`: after the pause between two tries `connect()` does not
  ask again whether the mux was closed meanwhile; the SYN goes to whoever has
  the device then. No stream is mixed up by it (`StreamsKept`).
- `webusb-mux.ts:1255`: two calls of `createTcpConnection` both pass the check
  for an active channel; the first one's handle is then no longer the active
  one, where 1177 says that a single stream is multiplexed at a time.
- `webusb-mux.ts:1541`: a socket that closes while it is dialed leaves `dialing`
  set, and a later read may wait for ever; at 1438 a small read overtakes an
  older, larger one that waits.
- `webusb-mux.ts:806`: a comment says that a failed send is not retried; the
  error lands in the outer `catch`, which retries.
- `usbmuxd.ts:106`: a `read()` that begins after the socket has ended is never
  rejected; 31 says that it is when the transport closed.
- `ca.ts:61`: the constant described as the end of 2049 is 2050-04-19; until
  then years of 2050 are written with two digits, which read as 1950.

Remote pairing and backend
- `remote-pairing.ts:432`: the key is set before the device accepts, where a
  comment at 247 says that having one means paired.
- `remote-pairing.ts:703`: the cut of a long ciphertext is wrong for host names
  longer than about 76 bytes.
- `app/src/flows/remote-pair.ts:58`: its URL ends in `/wisp?host=`, and
  `wisp-policy.ts:57` accepts `/wisp/` only: the backend answers 404.
- `backend/src/index.ts:211`: a binary message that comes as a Blob is handed
  on when its conversion ends, perhaps after a later one. The model has it; no
  property claims an order.
- `backend/src/index.ts:437`: requests for a code by SMS keep the client's own
  `X-MMe-Client-Info`, Xcode's name included; `TokensOnlyToApple` excepts them.
- `backend/src/portal-proxy.ts:127`: header names have no case, so that this line
  replaces the akd identifier of line 114 with the one the anisette server gave,
  Xcode's perhaps, beside the user agent of akd. The comment at 113 says that the
  request imitates akd and not Xcode.

App (`app/src`)
- `App.tsx:618`: the second retry drops the old client without closing it.
- `App.tsx:606`: what is retried is chosen by words of the error message.
- `flows/pair.ts:54`: the host ID is read before a stored record replaces it.
- `transport/webusb-mux.ts:315`: when TLS on a service stream fails other than
  by a read, the raw stream stays open.
- `lib/pair-record.ts:87`: the record slot of older builds is used for any UDID.
- `lib/plist.ts:244` reads integers of every size as signed, `lib/bplist.ts:59`
  of the pairing code as unsigned: 200 in one byte is -56 for the one.
- `apple-signing.ts:222`: a second two-factor request in one sign-in is answered
  with the code typed for the first; a cancellation after an SMS code was
  accepted does not cancel.
- `lib/account-session.ts:163`: accounts that fall off the list of 12 keep
  their stored tokens.
- `App.tsx:484`: a signing that is under way stores its session again after the
  account was deleted or switched, and an older token over a newer one.
- `apple-signing.ts:386`: the revoke button, or a signing that has reached the
  limit, may revoke the certificate that a refresh is signing with; two
  signings without a cached certificate make one each.
- `apple-signing.ts:498`, `:504`: an extension without an Info.plist or an
  identifier is left without a profile of its own, with a warning in the log, and
  the package is signed all the same.
- `anisette-service.ts:108`: two callers may initialise anisette at once.

## What is not modelled

- User interface: React components and what they show; they keep no protocol
  state. The App IDs page, file import and export, progress and logs of the
  flows.
- Vendored code (altsign, libcurl, zsign, anisette, wisp-js) and built files.
  What `src/` sees of them is in the modules as external actions.
- Cryptography: ciphers, hashes and signatures are symbolic, the server's
  certificate is not parsed, keys are not derived, SRP runs in a small group.
  The repository tests the arithmetic with known answers.
- Wrong input to the readers of formats other than input that was cut; lengths
  out of range in MUX packets; numbers of 2^31 and above, TLC's limit.
- The IPA cache in IndexedDB, anisette provisioning, the fetch wrapper, the
  fastboot client for another kind of device.
- `ping` and `resetLockdown` have no callers in the app (MuxClient has the
  latter); AFC operations that the app does not call (`removePath`,
  `listDirectory`).
- The reset of `packetChain` by `close()`, which matters only to an object that
  is opened again, and the encoding of usbmuxd's messages.
- Storage that refuses a write, anisette data that is incomplete, a portal
  request that is half done: `AccountSession` and `AppleSigning` take them as
  whole. TLS writes have no timeout in the code, and none in `TlsClient`.
- The picker and permissions of WebUSB other than which device they give.
