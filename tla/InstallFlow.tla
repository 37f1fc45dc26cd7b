---------------------------- MODULE InstallFlow ----------------------------
(***************************************************************************)
(* The flows of src/app/src: pairDeviceFlow(), installFlow(),              *)
(* browseInstalledApps() and refreshAppFlow(), started by the handlers of  *)
(* App.tsx and PairingPage.tsx, over WebUsbMuxClient objects, the pairing  *)
(* records of the browser's storage and the iPhones that are plugged in.   *)
(* An awaited call of a client is one step, which succeeds or rejects;     *)
(* MuxClient has what goes on inside.  A pairing is a host ID and the      *)
(* certificate made for it.  The record slot of older builds is empty.     *)
(***************************************************************************)
EXTENDS Integers, FiniteSets

CONSTANTS
  Devices,    \* iPhones, by UDID
  TaskSets,   \* which of AllTasks are used together
  Kept,       \* what was paired before: [Devices -> {None, "this", "other"}]
  MaxClients, \* bound: WebUsbMuxClient objects
  MaxCerts,   \* bound: pairings made here
  MaxStarts,  \* bound: handler calls, signing apart
  MaxUnplugs  \* bound: times that a cable is pulled

AllTasks == {"pair", "pairing page", "sign", "install", "direct", "scan", "refresh"}

None == "none"

ASSUME FlowAssumption ==
  /\ None \notin Devices
  /\ \A ts \in TaskSets : ts \subseteq AllTasks
  /\ Kept \subseteq [Devices -> {None, "this", "other"}]
  /\ MaxClients \in Nat /\ MaxCerts \in Nat
  /\ MaxStarts \in Nat /\ MaxUnplugs \in Nat

VARIABLES
  client,  \* the WebUsbMuxClient objects
  ref,     \* directClientRef and refreshClientRef
  task,    \* the handler calls under way
  app,     \* React state: selected, paired device, signed package
  store,   \* localStorage: host ID and pairing records; history: pairings made,
           \* the UDIDs that another device's record was ever stored under
  phone,   \* the devices: plugged in, and the pairings they accept
  streams, \* open service streams: the task, the client and the service
  done,    \* history: installations, as device and target
  count    \* handler calls and unplugs, for the bounds

flowVars == <<client, ref, task, app, store, phone, streams, done, count>>

Tasks == DOMAIN task
Ids == 1..MaxClients
Refs == [main |-> 0, refresh |-> 0]
NewClient == [used |-> TRUE, dev |-> None, dead |-> FALSE, lockdown |-> FALSE,
              started |-> FALSE, tls |-> FALSE, host |-> None,
              udid |-> None, paired |-> None]
Idle == [pc |-> "idle", c |-> 0, target |-> None, udid |-> None,
         host |-> None, info |-> None, prep |-> None, try |-> 0, rec |-> {}]

Pairing(host, cert, dev) == [host |-> host, cert |-> cert, dev |-> dev]

\* Each device may be paired with this browser, and with another host whose
\* pairing file was imported here.
FlowInit ==
  /\ client = [c \in Ids |-> [NewClient EXCEPT !.used = FALSE]]
  /\ ref = Refs /\ \E ts \in TaskSets : task = [t \in ts |-> Idle]
  /\ app = [selected |-> None, info |-> None, prep |-> None]
  /\ \E kept \in Kept :
       LET p(d) == IF kept[d] = None THEN {} ELSE {Pairing(kept[d], <<d, 0>>, d)} IN
       /\ store = [host |-> "this", certs |-> 0, mixed |-> {}, records |-> [d \in Devices |-> p(d)]]
       /\ phone = [d \in Devices |-> [plugged |-> TRUE, pairings |-> p(d)]]
  /\ streams = {} /\ done = {} /\ count = [starts |-> 0, pulled |-> 0]

-----------------------------------------------------------------------------
(* WebUsbMuxClient                                                         *)

Plugged == {d \in Devices : phone[d].plugged}

\* connectLockdown(): what is there, dead or not; otherwise a stream on the mux
\* that is there; otherwise the device picker
ConnectLockdown(r) ==
  IF r.dev # None THEN IF r.dead THEN {} ELSE {[r EXCEPT !.lockdown = TRUE]}
  ELSE {[r EXCEPT !.dev = d, !.dead = FALSE, !.lockdown = TRUE] : d \in Plugged}

\* close() keeps connectedUdid and pairedUdid
Closed(r) == [r EXCEPT !.dev = None, !.dead = FALSE, !.lockdown = FALSE,
                       !.started = FALSE, !.tls = FALSE, !.host = None]

\* reconnect(): the first authorized device, whichever that is
Reconnect(r) == ConnectLockdown(Closed(r))

\* getOrFetchDeviceUdid()
FetchUdid(r) ==
  IF r.udid # None THEN {r}
  ELSE {[q EXCEPT !.udid = q.dev] : q \in ConnectLockdown(r)}

\* startSession(): the device knows the host ID
StartSession(r, host) ==
  {[q EXCEPT !.started = TRUE, !.host = host] :
     q \in {q \in ConnectLockdown(r) : \E p \in phone[q.dev].pairings : p.host = host}}

\* upgradeToTls(): the certificate is the one of the session's pairing
UpgradeToTls(r, record) ==
  IF \/ r.tls
     \/ /\ r.lockdown /\ ~r.dead /\ r.started
        /\ \E p \in phone[r.dev].pairings, q \in record :
             p.host = r.host /\ p.cert = q.cert
  THEN {[r EXCEPT !.tls = TRUE]} ELSE {}

-----------------------------------------------------------------------------
(* Steps of a task                                                         *)

At(t, pc) == t \in Tasks /\ task[t].pc = pc
Mine(t) == client[task[t].c]
Goes(t, pc) == task' = [task EXCEPT ![t].pc = pc]

\* the client of t becomes one of `after`, and t goes on
Awaits(t, after, pc) ==
  \E r \in after : client' = [client EXCEPT ![task[t].c] = r] /\ Goes(t, pc)

Fresh == {c \in Ids : ~client[c].used}

\* the streams of a client end with it
StreamsOf(c) == {s \in streams : s.c = c}

\* ensureClientSelected() after the handler has closed and dropped the old one
FreshClient(t, which, rec) ==
  \E c \in Fresh : \A b \in Fresh : c <= b /\
    /\ client' = [b2 \in Ids |-> IF b2 = c THEN NewClient
                                 ELSE IF b2 = ref[which] THEN Closed(client[b2])
                                 ELSE client[b2]]
    /\ ref' = [ref EXCEPT ![which] = c]
    /\ streams' = streams \ StreamsOf(ref[which])
    /\ task' = [task EXCEPT ![t] = [rec EXCEPT !.c = c]]

Starts ==
  count.starts < MaxStarts /\ count' = [count EXCEPT !.starts = @ + 1]

Busy(ts) == \E t \in ts \cap Tasks : task[t].pc # "idle"

\* The pair flow of a button: the client in the ref, or a new one.  The Sign
\* page's button is off while another handler runs, the Pairing page's is not.
StartPair(t) ==
  /\ t \in {"pair", "pairing page"} /\ At(t, "idle") /\ Starts
  /\ t = "pair" => ~Busy({"sign", "install", "direct"})
  /\ IF ref.main # 0
     THEN /\ task' = [task EXCEPT ![t] = [Idle EXCEPT !.pc = "udid", !.c = ref.main]]
          /\ UNCHANGED <<client, ref, streams>>
     ELSE FreshClient(t, "main", [Idle EXCEPT !.pc = "udid"])
  /\ UNCHANGED <<app, store, phone, done>>

StartSign ==
  /\ At("sign", "idle") /\ app.selected # None
  /\ ~Busy({"pair", "install", "direct"})
  /\ task' = [task EXCEPT !["sign"] = [Idle EXCEPT !.pc = "signing", !.target = app.selected]]
  /\ UNCHANGED <<client, ref, app, store, phone, streams, done, count>>

\* the package is for the device that was selected when signing began, and the
\* device has to be connected again
SignDone ==
  /\ At("sign", "signing") /\ Goes("sign", "idle")
  /\ app' = [app EXCEPT !.prep = task["sign"].target, !.info = None]
  /\ UNCHANGED <<client, ref, store, phone, streams, done, count>>

\* the handlers of an installation: a fresh client, whatever was there
StartInstall(t) ==
  /\ t \in {"install", "direct"} /\ At(t, "idle") /\ Starts /\ app.selected # None
  /\ ~Busy({"install", "direct"})
  /\ t = "install" => /\ ~Busy({"pair", "sign"})
                      /\ app.info = app.selected /\ app.prep = app.selected
  /\ FreshClient(t, "main", [Idle EXCEPT !.pc = "fresh reconnect", !.target = app.selected,
                               !.info = app.info, !.prep = app.prep, !.try = 1])
  /\ UNCHANGED <<app, store, phone, done>>

HandleInstall == StartInstall("install")
HandleDirectInstall == StartInstall("direct")

\* those of the refresh page
StartRefresh(t) ==
  /\ t \in {"scan", "refresh"} /\ At(t, "idle") /\ Starts /\ app.selected # None
  /\ FreshClient(t, "refresh",
       [Idle EXCEPT !.pc = IF t = "scan" THEN "load" ELSE "signing",
                    !.target = app.selected, !.try = 1])
  /\ UNCHANGED <<app, store, phone, done>>

HandleRefreshScan == StartRefresh("scan")
HandleRefreshApp == StartRefresh("refresh")

\* refreshAppFlow() has signed the package
RefreshSigned ==
  /\ At("refresh", "signing")
  /\ Goes("refresh", IF Mine("refresh").tls THEN "load" ELSE "retry reconnect")
  /\ UNCHANGED <<client, ref, app, store, phone, streams, done, count>>

-----------------------------------------------------------------------------
(* pairDeviceFlow()                                                        *)

Rest == UNCHANGED <<ref, app, phone, streams, done, count>>

PairUdid(t) ==
  /\ At(t, "udid")
  /\ \E r \in FetchUdid(Mine(t)) :
       /\ client' = [client EXCEPT ![task[t].c] = r]
       /\ task' = [task EXCEPT ![t].pc = "name", ![t].udid = r.udid]
  /\ Rest /\ UNCHANGED store

\* the name is shown only, but asking for it may open the picker; the host ID
\* is read before a stored record replaces the one in the storage
PairChoose(t) ==
  /\ At(t, "name")
  /\ \E r \in ConnectLockdown(Mine(t)) \cup {Mine(t)} :
       LET udid == task[t].udid
           load == r.paired = None /\ store.records[udid] # {}
           p == CHOOSE p \in store.records[udid] : TRUE
       IN /\ client' = [client EXCEPT ![task[t].c] =
               IF load THEN [r EXCEPT !.paired = udid] ELSE r]
          /\ store' = IF load THEN [store EXCEPT !.host = p.host] ELSE store
          /\ task' = [task EXCEPT ![t].host = store.host,
                        ![t].pc = IF load \/ r.paired # None THEN "session" ELSE "pairing"]
  /\ Rest

\* WebUsbMuxClient.pairDevice(): Pair with the device that is connected, which
\* replaces its pairing with this host; the record goes under the UDID read
\* before.  A pending dialog or a refusal rejects (FlowFails).
PairRequest(t) ==
  /\ At(t, "pairing") /\ store.certs < MaxCerts
  /\ \E q \in ConnectLockdown(Mine(t)) : \E r \in FetchUdid(q) :
       LET p == Pairing(task[t].host, <<r.dev, store.certs + 1>>, r.dev) IN
       /\ client' = [client EXCEPT ![task[t].c] = [r EXCEPT !.paired = r.udid]]
       /\ phone' = [phone EXCEPT ![r.dev].pairings =
            {x \in @ : x.host # p.host} \cup {p}]
       /\ store' = [store EXCEPT !.certs = @ + 1, !.records[task[t].udid] = {p},
                                 !.mixed = @ \cup ({task[t].udid} \ {r.dev})]
  /\ Goes(t, "session")
  /\ UNCHANGED <<ref, app, streams, done, count>>

PairSession(t) ==
  /\ At(t, "session")
  /\ Awaits(t, IF Mine(t).started THEN {Mine(t)} ELSE StartSession(Mine(t), task[t].host),
            "paired")
  /\ Rest /\ UNCHANGED store

\* handlePairedDevice(); the flow inside an installation goes on with its check
PairDone(t) ==
  /\ At(t, "paired")
  /\ app' = [app EXCEPT !.info = task[t].udid, !.selected = task[t].udid]
  /\ task' = [task EXCEPT ![t] = IF t \in {"install", "direct"}
                THEN [@ EXCEPT !.pc = "check", !.info = task[t].udid] ELSE Idle]
  /\ UNCHANGED <<client, ref, store, phone, streams, done, count>>

-----------------------------------------------------------------------------
(* handleInstall() and installFlow()                                       *)

\* the first connection of an installation, and whether the pair flow is needed
FreshReconnect(t) ==
  /\ At(t, "fresh reconnect")
  /\ \E r \in Reconnect(Mine(t)) \cup {Closed(Mine(t))} :
       client' = [client EXCEPT ![task[t].c] = r]
  /\ Goes(t, "trust") /\ Rest /\ UNCHANGED store

Trust(t) ==
  /\ At(t, "trust")
  /\ IF Mine(t).started THEN Goes(t, "check")
     ELSE IF Busy({"pair"}) THEN task' = [task EXCEPT ![t] = Idle]
     ELSE task' = [task EXCEPT ![t].pc = "udid", ![t].c = ref.main]
  /\ UNCHANGED <<client, ref, app, store, phone, streams, done, count>>

\* the connected device is the target, and the package was signed for it
CheckTarget(t) ==
  /\ At(t, "check")
  /\ task' = [task EXCEPT ![t] =
       IF @.info = @.target /\ (t = "install" => @.prep = @.target)
         THEN [@ EXCEPT !.pc = "load"] ELSE Idle]
  /\ UNCHANGED <<client, ref, app, store, phone, streams, done, count>>

\* (mutant) the record of the device that is connected
RecordForConnected(t) ==
  IF Mine(t).dev = None THEN {} ELSE store.records[Mine(t).dev]

RecordFor(t) == store.records[task[t].target]

\* installFlow() and browseInstalledApps(): the record of the target, and which
\* of the connection's steps are still to be made
LoadRecord(t) ==
  /\ At(t, "load") /\ RecordFor(t) # {}
  /\ client' = [client EXCEPT ![task[t].c].paired =
       IF t = "scan" /\ @ = None THEN task[t].target ELSE @]
  /\ task' = [task EXCEPT ![t].rec = RecordFor(t), ![t].pc =
       IF Mine(t).tls THEN IF t = "scan" THEN "proxy" ELSE "afc"
       ELSE IF Mine(t).started THEN "tls" ELSE "connect"]
  /\ Rest /\ UNCHANGED store

ConnectStep(t) ==
  /\ At(t, "connect") /\ Awaits(t, ConnectLockdown(Mine(t)), "start session")
  /\ Rest /\ UNCHANGED store

SessionStep(t) ==
  /\ At(t, "start session")
  /\ Awaits(t, IF Mine(t).started THEN {Mine(t)}
               ELSE UNION {StartSession(Mine(t), p.host) : p \in task[t].rec}, "tls")
  /\ Rest /\ UNCHANGED store

TlsStep(t) ==
  /\ At(t, "tls")
  /\ Awaits(t, UpgradeToTls(Mine(t), task[t].rec), IF t = "scan" THEN "proxy" ELSE "afc")
  /\ Rest /\ UNCHANGED store

Stream(t, s) == [t |-> t, c |-> task[t].c, s |-> s]

\* startServiceAndConnect(), over the encrypted session
Service(t, pc, s, next) ==
  /\ At(t, pc) /\ Mine(t).tls /\ ~Mine(t).dead
  /\ streams' = streams \cup {Stream(t, s)} /\ Goes(t, next)
  /\ UNCHANGED <<client, ref, app, store, phone, done, count>>

\* the finally block: the streams that the flow holds are closed
Finally(t) == streams' = {s \in streams : s.t # t}

\* installIpa() on the device of the two streams; Complete ends it
InstallIpa(t) ==
  /\ At(t, "install") /\ t # "scan"
  /\ {Stream(t, "afc"), Stream(t, "proxy")} \subseteq streams /\ ~Mine(t).dead
  /\ done' = done \cup {<<Mine(t).dev, task[t].target>>}
  /\ Finally(t) /\ task' = [task EXCEPT ![t] = Idle]
  /\ UNCHANGED <<client, ref, app, store, phone, count>>

\* browse(): a list for the page, then the stream is closed
Browse ==
  /\ At("scan", "install") /\ Stream("scan", "proxy") \in streams
  /\ ~Mine("scan").dead /\ Finally("scan") /\ task' = [task EXCEPT !["scan"] = Idle]
  /\ UNCHANGED <<client, ref, app, store, phone, done, count>>

\* reconnect() before the second try, in the attempts of a scan, and after a
\* refresh has signed
RetryReconnect(t) ==
  /\ At(t, "retry reconnect")
  /\ streams' = streams \ StreamsOf(task[t].c)
  /\ Awaits(t, Reconnect(Mine(t)), "load")
  /\ UNCHANGED <<ref, app, store, phone, done, count>>

-----------------------------------------------------------------------------
(* Failures                                                                *)

Steps == {"udid", "pairing", "session"}
InstallSteps == {"load", "connect", "start session", "tls", "afc", "proxy", "install"}

\* a step of the pair flow rejects: the dialog is pending, it was refused, or
\* the device is gone.  An installation that needed it ends.
PairFails(t) ==
  /\ t \in Tasks /\ task[t].pc \in Steps
  /\ task' = [task EXCEPT ![t] = Idle]
  /\ UNCHANGED <<client, ref, app, store, phone, streams, done, count>>

\* A step of an installation rejects.  Its first try is repeated after a
\* reconnect when the error's words are those of a lost connection; when that
\* fails too, with a new client, the old one being dropped as it is.
InstallFails(t) ==
  /\ t \in Tasks \cap {"install", "direct"}
  /\ task[t].pc \in InstallSteps \cup {"retry reconnect"}
  /\ \/ /\ task[t].try = 1 /\ Finally(t)
        /\ task' = [task EXCEPT ![t].try = 2, ![t].pc = "retry reconnect"]
        /\ UNCHANGED <<client, ref>>
     \/ /\ task[t].try = 2
        /\ \E c \in Fresh : \A b \in Fresh : c <= b /\
             /\ client' = [client EXCEPT ![c] = NewClient]
             /\ ref' = [ref EXCEPT !.main = c]
             /\ task' = [task EXCEPT ![t].try = 3, ![t].pc = "load", ![t].c = c]
        /\ Finally(t)
     \/ /\ task[t].try \in {1, 3} \/ Fresh = {}
        /\ Finally(t) /\ task' = [task EXCEPT ![t] = Idle]
        /\ UNCHANGED <<client, ref>>
  /\ UNCHANGED <<app, store, phone, done, count>>

\* browseInstalledApps() connects three times; refreshAppFlow() once
RefreshFails(t) ==
  /\ t \in Tasks \cap {"scan", "refresh"}
  /\ task[t].pc \in InstallSteps \cup {"retry reconnect", "signing"}
  /\ Finally(t)
  /\ IF /\ t = "scan" /\ task[t].try < 3
        /\ task[t].pc \in {"connect", "start session", "tls", "retry reconnect"}
     THEN task' = [task EXCEPT ![t].try = @ + 1, ![t].pc = "retry reconnect"]
     ELSE task' = [task EXCEPT ![t] = Idle]
  /\ UNCHANGED <<client, ref, app, store, phone, done, count>>

-----------------------------------------------------------------------------
(* The user and the cables, external                                       *)

Unplug(d) ==
  /\ phone[d].plugged /\ count.pulled < MaxUnplugs
  /\ count' = [count EXCEPT !.pulled = @ + 1]
  /\ phone' = [phone EXCEPT ![d].plugged = FALSE]
  /\ client' = [c \in Ids |-> IF client[c].dev = d THEN [client[c] EXCEPT !.dead = TRUE]
                              ELSE client[c]]
  /\ UNCHANGED <<ref, task, app, store, streams, done>>

Replug(d) ==
  /\ ~phone[d].plugged /\ phone' = [phone EXCEPT ![d].plugged = TRUE]
  /\ UNCHANGED <<client, ref, task, app, store, streams, done, count>>

\* handleSelectedUdidChange(), of the known devices
SelectTarget(d) ==
  /\ app.selected # d /\ store.records[d] # {}
  /\ app' = [app EXCEPT !.selected = d, !.prep = None]
  /\ UNCHANGED <<client, ref, task, store, phone, streams, done, count>>

FlowStep(t) ==
  \/ StartPair(t)
  \/ PairUdid(t) \/ PairChoose(t) \/ PairRequest(t) \/ PairSession(t) \/ PairDone(t)
  \/ FreshReconnect(t) \/ Trust(t) \/ CheckTarget(t) \/ LoadRecord(t)
  \/ ConnectStep(t) \/ SessionStep(t) \/ TlsStep(t)
  \/ Service(t, "afc", "afc", "proxy") \/ Service(t, "proxy", "proxy", "install")
  \/ InstallIpa(t) \/ RetryReconnect(t)
  \/ PairFails(t) \/ InstallFails(t) \/ RefreshFails(t)

FlowNext ==
  \/ \E t \in Tasks : FlowStep(t)
  \/ HandleInstall \/ HandleDirectInstall \/ HandleRefreshScan \/ HandleRefreshApp
  \/ StartSign \/ SignDone \/ RefreshSigned \/ Browse
  \/ \E d \in Devices : Unplug(d) \/ Replug(d) \/ SelectTarget(d)

FlowSpec == FlowInit /\ [][FlowNext]_flowVars

-----------------------------------------------------------------------------
(* Properties                                                              *)

FlowTypeOK ==
  /\ \A c \in Ids : client[c].dev \in Devices \cup {None}
                    /\ (client[c].tls => client[c].started)
  /\ ref.main \in 0..MaxClients /\ ref.refresh \in 0..MaxClients
  /\ app.selected \in Devices \cup {None}
  /\ \A d \in Devices : Cardinality(store.records[d]) <= 1

\* An application is only ever installed on the device it was meant for,
\* although reconnect() and the picker may land on another one in any try and
\* only the first try compares UDIDs, unless that device's UDID was given to
\* another one's pairing record (RecordsOfDevice is how).
InstalledOnTarget == \A i \in done : i[1] = i[2] \/ i[2] \in store.mixed

\* The stored record of a device was made with that device.
RecordsOfDevice ==
  \A d \in Devices : \A p \in store.records[d] : p.dev = d

=============================================================================
