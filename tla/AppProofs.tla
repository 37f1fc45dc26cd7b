----------------------------- MODULE AppProofs -----------------------------
(***************************************************************************)
(* Proofs about what the app does with devices and accounts, for any       *)
(* number of each: the flows of InstallFlow keep devices apart, whatever   *)
(* set of tasks runs together; the account in use, in AccountSession, is   *)
(* one that is stored; and a package that AppleSigning hands out can be    *)
(* installed.  The type invariant of each follows its own property: what   *)
(* no step of the flows, the account page or the portal makes too many of. *)
(***************************************************************************)
EXTENDS InstallFlow, AccountSession, AppleSigning, SequenceTheorems,
        FiniteSetTheorems, TLAPS

Names == Devices \cup {None}
Hosts == {None, "this", "other"}
Pairings == [host : Hosts, cert : Devices \X Nat, dev : Devices]

ClientStates ==
  [used : BOOLEAN, dev : Names, dead : BOOLEAN, lockdown : BOOLEAN,
   started : BOOLEAN, tls : BOOLEAN, host : Hosts, udid : Names, paired : Names]

PairPlaces == {"udid", "name", "session", "pairing", "paired"}
InstallPlaces ==
  {"fresh reconnect", "trust", "check", "load", "connect", "start session", "tls",
   "afc", "proxy", "install", "retry reconnect"}
Places == PairPlaces \cup InstallPlaces \cup {"idle", "signing"}

TaskStates ==
  [pc : Places, c : 0..MaxClients, target : Names, udid : Names, host : Hosts,
   info : Names, prep : Names, try : 0..3, rec : SUBSET Pairings]

StreamStates == [t : AllTasks, c : Ids, s : {"afc", "proxy"}]

FlowTyped ==
  /\ client \in [Ids -> ClientStates]
  /\ DOMAIN task \subseteq AllTasks /\ task \in [DOMAIN task -> TaskStates]
  /\ ref \in [main : 0..MaxClients, refresh : 0..MaxClients]
  /\ app \in [selected : Names, info : Names, prep : Names]
  /\ store \in [host : Hosts, certs : Nat, mixed : SUBSET Devices,
                records : [Devices -> SUBSET Pairings]]
  /\ phone \in [Devices -> [plugged : BOOLEAN, pairings : SUBSET Pairings]]
  /\ streams \subseteq StreamStates

Direct == {"install", "direct"}
OnRefreshPage == {"scan", "refresh"}
Installing == Direct \cup OnRefreshPage

Active(t) == t \in DOMAIN task /\ task[t].pc # "idle"

\* Each task is at a place of its own flow, and has what is used from there on.
PlaceOf(t, x) ==
  /\ t \in {"pair", "pairing page"} => x.pc \in PairPlaces \cup {"idle"}
  /\ t = "sign" => x.pc \in {"idle", "signing"} /\ x.c = 0
  /\ t \in Direct => x.pc # "signing"
  /\ t \in OnRefreshPage =>
       x.pc \notin PairPlaces \cup {"fresh reconnect", "trust", "check"}
  /\ x.pc \in {"name", "session", "pairing", "paired"} => x.udid \in Devices
  /\ x.pc # "idle" /\ t \in Installing => x.target \in Devices
  /\ x.pc # "idle" /\ t # "sign" => x.c \in Ids /\ client[x.c].used
PlacesOfFlows == \A t \in DOMAIN task : PlaceOf(t, task[t])

\* The client of an installation is the one in the main ref, which pairing may
\* use too; the clients of the refresh page are nobody else's.
ClientsOwned ==
  /\ ref.main # 0 => client[ref.main].used
  /\ ~(Active("install") /\ Active("direct"))
  /\ \A t \in Direct : Active(t) => task[t].c = ref.main
  /\ \A t \in OnRefreshPage : Active(t) =>
       /\ task[t].c # ref.main
       /\ \A u \in DOMAIN task : u # t /\ Active(u) => task[u].c # task[t].c

\* An encrypted session is on a connection to a device.
ClientsConnected ==
  \A c \in Ids :
    /\ client[c].lockdown => client[c].dev \in Devices
    /\ client[c].tls => client[c].lockdown /\ client[c].used

\* A pairing's certificate was made for the device it was made with, which is
\* the one it is stored for, or that one's UDID is known to be mixed up.
MeantFor(p, d) == p.cert[1] = p.dev /\ (p.dev = d \/ d \in store.mixed)
CertsKnown ==
  /\ \A d \in Devices : \A p \in store.records[d] : MeantFor(p, d)
  /\ \A d \in Devices : \A p \in phone[d].pairings : p.cert[1] = d
  /\ \A t \in DOMAIN task : \A p \in task[t].rec : MeantFor(p, task[t].target)

\* An encrypted session of an installation is with its target.
IsTarget(dev, target) == dev = target \/ target \in store.mixed
SessionOnTarget ==
  \A t \in Installing : Active(t) /\ client[task[t].c].tls =>
    IsTarget(client[task[t].c].dev, task[t].target)

\* A service stream is one of the task's client, and goes with its session.
StreamsOwned ==
  \A s \in streams :
    /\ s.t \in Installing /\ s.t \in DOMAIN task /\ task[s.t].pc \in {"proxy", "install"}
    /\ s.c = task[s.t].c /\ client[s.c].tls

\* The inductive invariant of InstallFlow.
FlowInv ==
  /\ FlowTyped /\ PlacesOfFlows /\ ClientsOwned /\ ClientsConnected /\ CertsKnown
  /\ SessionOnTarget /\ StreamsOwned /\ InstalledOnTarget

-----------------------------------------------------------------------------
(* What a step does to a task and to a client.                             *)

Moves(t, x) ==
  /\ t \in DOMAIN task /\ x \in TaskStates
  /\ DOMAIN task' = DOMAIN task /\ task' \in [DOMAIN task' -> TaskStates]
  /\ task'[t] = x /\ \A u \in DOMAIN task : u # t => task'[u] = task[u]

Changes(c, r) ==
  /\ c \in Ids /\ r \in ClientStates /\ client' \in [Ids -> ClientStates]
  /\ client'[c] = r /\ \A b \in Ids : b # c => client'[b] = client[b]

\* What the flows rely on of a client is what it had before, or nothing.
Follows(r, q) ==
  /\ q.used = r.used /\ (q.tls => r.tls /\ q.dev = r.dev)
  /\ q.lockdown => q.dev \in Devices
  /\ q.tls => q.lockdown
ClientsFollow == \A c \in Ids : Follows(client[c], client'[c])

\* The rest of a task's fields.
SameTask(t, x) ==
  /\ x.c = task[t].c /\ x.target = task[t].target /\ x.udid = task[t].udid
  /\ x.rec = task[t].rec

\* A task that becomes another one.
LEMMA TaskMoves ==
  ASSUME FlowTyped, NEW t \in DOMAIN task, NEW x \in TaskStates,
         task' = [task EXCEPT ![t] = x]
  PROVE  Moves(t, x)
<1>1. task \in [DOMAIN task -> TaskStates] BY DEF FlowTyped
<1>2. DOMAIN task' = DOMAIN task OBVIOUS
<1>3. task' \in [DOMAIN task -> TaskStates] BY <1>1
<1>4. task'[t] = x /\ \A u \in DOMAIN task : u # t => task'[u] = task[u] BY <1>1
<1>5. QED BY <1>2, <1>3, <1>4 DEF Moves

\* Goes(): only the place changes.
LEMMA TaskGoes ==
  ASSUME FlowTyped, NEW t \in DOMAIN task, NEW pc \in Places, Goes(t, pc)
  PROVE  \E x : Moves(t, x) /\ SameTask(t, x) /\ x.pc = pc
<1> DEFINE x == [task[t] EXCEPT !.pc = pc]
<1>1. task[t] \in TaskStates BY DEF FlowTyped
<1>2. x \in TaskStates /\ x.pc = pc /\ SameTask(t, x) BY <1>1 DEF TaskStates, SameTask
<1>3. task' = [task EXCEPT ![t] = x] BY DEF Goes
<1> HIDE DEF x
<1>4. Moves(t, x) BY <1>2, <1>3, TaskMoves
<1>5. QED BY <1>2, <1>4

\* The end of a task.
LEMMA TaskEnds ==
  ASSUME FlowTyped, NEW t \in DOMAIN task, task' = [task EXCEPT ![t] = Idle]
  PROVE  Moves(t, Idle) /\ Idle.pc = "idle" /\ Idle.rec = {} /\ Idle.c = 0
<1>1. Idle \in TaskStates /\ Idle.pc = "idle" /\ Idle.rec = {} /\ Idle.c = 0
  BY FlowAssumption DEF Idle, TaskStates, Names, Hosts, Places
<1>2. QED BY <1>1, TaskMoves

\* A client that becomes another one.
LEMMA ClientChanges ==
  ASSUME FlowTyped, NEW c \in Ids, NEW r \in ClientStates, client' = [client EXCEPT ![c] = r]
  PROVE  Changes(c, r)
BY DEF FlowTyped, Changes

\* When one client changes as a client may, all have.
LEMMA ChangeFollows ==
  ASSUME ClientsConnected, NEW c, NEW r, Changes(c, r), Follows(client[c], r)
  PROVE  ClientsFollow
<1>1. SUFFICES ASSUME NEW b \in Ids PROVE Follows(client[b], client'[b])
  BY DEF ClientsFollow
<1>2. CASE b = c BY <1>2 DEF Changes
<1>3. CASE b # c BY <1>1, <1>3 DEF Changes, ClientsConnected, Follows
<1>4. QED BY <1>2, <1>3

\* Clients that stay have changed as clients may.
LEMMA SameFollows ==
  ASSUME ClientsConnected, UNCHANGED client
  PROVE  ClientsFollow
BY DEF ClientsConnected, ClientsFollow, Follows

-----------------------------------------------------------------------------
(* What keeps each part of the invariant.                                  *)

\* The places, when the task's new one has what it needs.
LEMMA PlacesKept ==
  ASSUME PlacesOfFlows, NEW t, NEW x, Moves(t, x), PlaceOf(t, x)',
         \A c \in Ids : client[c].used => client'[c].used
  PROVE  PlacesOfFlows'
<1>1. SUFFICES ASSUME NEW u \in DOMAIN task' PROVE PlaceOf(u, task[u])'
  BY DEF PlacesOfFlows
<1>2. u \in DOMAIN task BY <1>1 DEF Moves
<1>3. CASE u = t BY <1>3 DEF Moves, PlaceOf
<1>4. CASE u # t
  <2>1. task'[u] = task[u] BY <1>2, <1>4 DEF Moves
  <2>2. PlaceOf(u, task[u]) BY <1>2 DEF PlacesOfFlows
  <2>3. QED BY <2>1, <2>2 DEF PlaceOf
<1>5. QED BY <1>3, <1>4

\* The clients' owners, when no task takes or becomes another's client.
LEMMA OwnersKept ==
  ASSUME ClientsOwned, NEW t, NEW x, Moves(t, x), UNCHANGED ref,
         x.pc # "idle" => Active(t) /\ x.c = task[t].c,
         \A c \in Ids : client[c].used => client'[c].used, ref.main \in 0..MaxClients
  PROVE  ClientsOwned'
<1>1. \A u : Active(u)' => Active(u) /\ task'[u].c = task[u].c BY DEF Moves, Active
<1>2. ref.main # 0 => ref.main \in Ids BY FlowAssumption DEF Ids
<1>3. ref'.main # 0 => client'[ref'.main].used BY <1>2 DEF ClientsOwned
<1>4. ~(Active("install")' /\ Active("direct")') BY <1>1 DEF ClientsOwned
<1>5. \A u \in Direct : Active(u)' => task'[u].c = ref'.main BY <1>1 DEF ClientsOwned
<1>6. \A u \in OnRefreshPage : Active(u)' =>
        /\ task'[u].c # ref'.main
        /\ \A v \in DOMAIN task' : v # u /\ Active(v)' => task'[v].c # task'[u].c
  BY <1>1 DEF ClientsOwned, Moves
<1>7. QED BY <1>3, <1>4, <1>5, <1>6 DEF ClientsOwned

\* The connections, when the clients follow those before.
LEMMA ConnectedKept ==
  ASSUME ClientsConnected, ClientsFollow
  PROVE  ClientsConnected' /\ \A c \in Ids : client[c].used => client'[c].used
BY DEF ClientsConnected, ClientsFollow, Follows

\* The sessions with the targets, when no session begins.
LEMMA SessionsKept ==
  ASSUME SessionOnTarget, PlacesOfFlows, ClientsFollow, store.mixed \subseteq store'.mixed,
         NEW t, NEW x, Moves(t, x),
         x.pc # "idle" /\ t \in Installing =>
           Active(t) /\ x.c = task[t].c /\ x.target = task[t].target
  PROVE  SessionOnTarget'
<1>1. SUFFICES ASSUME NEW u \in Installing, Active(u)', client'[task'[u].c].tls
               PROVE  IsTarget(client[task[u].c].dev, task[u].target)'
  BY DEF SessionOnTarget
<1>2. /\ Active(u) /\ u \in DOMAIN task
      /\ task'[u].c = task[u].c /\ task'[u].target = task[u].target
  BY <1>1 DEF Moves, Active
<1>3. task[u].c \in Ids BY <1>1, <1>2 DEF PlacesOfFlows, PlaceOf, Active, Installing, Direct, OnRefreshPage
<1>4. client[task[u].c].tls /\ client'[task[u].c].dev = client[task[u].c].dev
  BY <1>1, <1>2, <1>3 DEF ClientsFollow, Follows
<1>5. IsTarget(client[task[u].c].dev, task[u].target)
  BY <1>1, <1>2, <1>4 DEF SessionOnTarget
<1>6. QED BY <1>2, <1>4, <1>5 DEF IsTarget

\* The streams, when none is opened and those of the task are closed as it
\* leaves the places of its services, and sessions stay.
LEMMA StreamsKept ==
  ASSUME FlowTyped, StreamsOwned, NEW t, NEW x, Moves(t, x), streams' \subseteq streams,
         \A s \in streams' : s.t # t \/ (x.pc \in {"proxy", "install"} /\ x.c = task[t].c),
         \A s \in streams' : client[s.c].tls => client'[s.c].tls
  PROVE  StreamsOwned'
<1>1. SUFFICES ASSUME NEW s \in streams'
               PROVE  /\ s.t \in Installing /\ s.t \in DOMAIN task'
                      /\ task'[s.t].pc \in {"proxy", "install"}
                      /\ s.c = task'[s.t].c /\ client'[s.c].tls
  BY DEF StreamsOwned
<1>2. s \in streams BY <1>1
<1>3. /\ s.t \in Installing /\ s.t \in DOMAIN task
      /\ task[s.t].pc \in {"proxy", "install"} /\ s.c = task[s.t].c /\ client[s.c].tls
  BY <1>2 DEF StreamsOwned
<1>4. CASE s.t = t BY <1>1, <1>3, <1>4 DEF Moves
<1>5. CASE s.t # t BY <1>1, <1>3, <1>5 DEF Moves
<1>6. QED BY <1>4, <1>5

\* The certificates, when no record is stored and none is taken.
LEMMA CertsKept ==
  ASSUME CertsKnown, store'.records = store.records, store'.mixed = store.mixed,
         \A d \in Devices : phone'[d].pairings = phone[d].pairings,
         NEW t, NEW x, Moves(t, x),
         x.rec = {} \/ (x.rec = task[t].rec /\ x.target = task[t].target)
  PROVE  CertsKnown'
<1>1. \A d \in Devices : \A p \in store'.records[d] : MeantFor(p, d)'
  BY DEF CertsKnown, MeantFor
<1>2. \A d \in Devices : \A p \in phone'[d].pairings : p.cert[1] = d BY DEF CertsKnown
<1>3. ASSUME NEW u \in DOMAIN task', NEW p \in task'[u].rec
      PROVE  MeantFor(p, task[u].target)'
  <2>1. u \in DOMAIN task BY <1>3 DEF Moves
  <2>2. p \in task[u].rec /\ task'[u].target = task[u].target BY <1>3, <2>1 DEF Moves
  <2>3. MeantFor(p, task[u].target) BY <2>1, <2>2 DEF CertsKnown
  <2>4. QED BY <2>2, <2>3 DEF MeantFor
<1>4. QED BY <1>1, <1>2, <1>3 DEF CertsKnown

\* The installations that were made.
LEMMA DoneKept ==
  ASSUME InstalledOnTarget, UNCHANGED done, store.mixed \subseteq store'.mixed
  PROVE  InstalledOnTarget'
BY DEF InstalledOnTarget

-----------------------------------------------------------------------------
(* The calls of a client.                                                  *)

\* What an awaited call leaves: the client's session as it was, or none.
Sound(r) ==
  r \in ClientStates /\ (r.lockdown => r.dev \in Devices) /\ (r.tls => r.lockdown)

\* connectLockdown() keeps the connection there is, and never drops a session.
LEMMA ConnectKeeps ==
  ASSUME FlowTyped, NEW r, Sound(r), NEW q \in ConnectLockdown(r)
  PROVE  /\ Sound(q) /\ Follows(r, q) /\ q.tls = r.tls /\ q.dev \in Devices
         /\ q.udid = r.udid /\ q.paired = r.paired /\ q.lockdown
<1>1. r \in ClientStates /\ (r.tls => r.dev \in Devices) BY DEF Sound
<1>2. None \notin Devices BY FlowAssumption
<1>3. CASE r.dev # None
  <2>1. q = [r EXCEPT !.lockdown = TRUE] BY <1>3 DEF ConnectLockdown
  <2>2. r.dev \in Devices BY <1>1, <1>3 DEF ClientStates, Names
  <2>3. /\ q \in ClientStates /\ q.lockdown /\ q.tls = r.tls /\ q.dev = r.dev
        /\ q.used = r.used /\ q.udid = r.udid /\ q.paired = r.paired
    BY <1>1, <2>1 DEF ClientStates
  <2>4. QED BY <2>2, <2>3 DEF Sound, Follows
<1>4. CASE r.dev = None
  <2>1. PICK d \in Plugged : q = [r EXCEPT !.dev = d, !.dead = FALSE, !.lockdown = TRUE]
    BY <1>4 DEF ConnectLockdown
  <2>2. d \in Devices /\ d \in Names BY DEF Plugged, Names
  <2>3. /\ q \in ClientStates /\ q.lockdown /\ q.tls = r.tls /\ q.dev = d
        /\ q.used = r.used /\ q.udid = r.udid /\ q.paired = r.paired
    BY <1>1, <2>1, <2>2 DEF ClientStates
  <2>4. ~r.tls BY <1>1, <1>2, <1>4
  <2>5. QED BY <2>2, <2>3, <2>4 DEF Sound, Follows
<1>5. QED BY <1>3, <1>4

\* getOrFetchDeviceUdid() leaves the UDID of a device.
LEMMA FetchKeeps ==
  ASSUME FlowTyped, NEW r, Sound(r), NEW q \in FetchUdid(r)
  PROVE  /\ Sound(q) /\ Follows(r, q) /\ q.tls = r.tls /\ q.udid \in Devices
         /\ r.dev \in Devices => q.dev \in Devices
<1>1. CASE r.udid # None
  <2>1. q = r BY <1>1 DEF FetchUdid
  <2>2. r.udid \in Devices BY <1>1 DEF Sound, ClientStates, Names
  <2>3. QED BY <2>1, <2>2 DEF Sound, Follows
<1>2. CASE r.udid = None
  <2>1. PICK p \in ConnectLockdown(r) : q = [p EXCEPT !.udid = p.dev]
    BY <1>2 DEF FetchUdid
  <2>2. Sound(p) /\ Follows(r, p) /\ p.tls = r.tls /\ p.dev \in Devices
    BY ConnectKeeps
  <2>3. p \in ClientStates /\ p.dev \in Names BY <2>2 DEF Sound, Names
  <2>4. /\ q \in ClientStates /\ q.udid = p.dev /\ q.dev = p.dev /\ q.tls = p.tls
        /\ q.lockdown = p.lockdown /\ q.used = p.used
    BY <2>1, <2>3 DEF ClientStates
  <2>5. QED BY <2>2, <2>4 DEF Sound, Follows
<1>3. QED BY <1>1, <1>2

\* startSession() leaves the encryption as it is.
LEMMA SessionKeeps ==
  ASSUME FlowTyped, NEW r, Sound(r), NEW host \in Hosts, NEW q \in StartSession(r, host)
  PROVE  Sound(q) /\ Follows(r, q) /\ q.tls = r.tls
<1>1. PICK p \in ConnectLockdown(r) : q = [p EXCEPT !.started = TRUE, !.host = host]
  BY DEF StartSession
<1>2. Sound(p) /\ Follows(r, p) /\ p.tls = r.tls BY ConnectKeeps
<1>3. p \in ClientStates BY <1>2 DEF Sound
<1>4. /\ q \in ClientStates /\ q.dev = p.dev /\ q.tls = p.tls
      /\ q.lockdown = p.lockdown /\ q.used = p.used
  BY <1>1, <1>3 DEF ClientStates
<1>5. QED BY <1>2, <1>4 DEF Sound, Follows

\* close() and reconnect() end the session.
LEMMA CloseKeeps ==
  ASSUME FlowTyped, NEW r \in ClientStates
  PROVE  /\ Sound(Closed(r)) /\ Follows(r, Closed(r)) /\ ~Closed(r).tls
         /\ \A q \in Reconnect(r) : Sound(q) /\ Follows(r, q) /\ ~q.tls
<1> DEFINE p == Closed(r)
<1>1. None \in Hosts /\ None \in Names BY DEF Hosts, Names
<1>2. p \in ClientStates /\ ~p.tls /\ ~p.lockdown /\ p.used = r.used
  BY <1>1 DEF Closed, ClientStates
<1>3. Reconnect(r) = ConnectLockdown(p) BY DEF Reconnect
<1> HIDE DEF p
<1>4. Sound(p) /\ Follows(r, p) BY <1>2 DEF Sound, Follows
<1>5. ASSUME NEW q \in ConnectLockdown(p) PROVE Sound(q) /\ Follows(r, q) /\ ~q.tls
  <2>1. Sound(q) /\ Follows(p, q) /\ q.tls = p.tls BY <1>4, ConnectKeeps
  <2>2. QED BY <1>2, <2>1 DEF Sound, Follows
<1>6. QED BY <1>2, <1>3, <1>4, <1>5 DEF p

-----------------------------------------------------------------------------
(* The steps.                                                              *)

\* A task that goes on with its client and its target, or ends.
Continues(t, x) ==
  /\ x.pc # "idle" => Active(t) /\ x.c = task[t].c /\ x.target = task[t].target
  /\ x.rec = {} \/ (x.rec = task[t].rec /\ x.target = task[t].target)

\* Its own streams are closed, or it stays at the places of its services.
KeepsStreams(t, x) ==
  /\ streams' \subseteq streams
  /\ \A s \in streams' : s.t # t \/ (x.pc \in {"proxy", "install"} /\ x.c = task[t].c)
  /\ \A s \in streams' : client[s.c].tls => client'[s.c].tls

\* A step that neither begins a session nor opens a stream.
LEMMA FollowKeeps ==
  ASSUME FlowInv, NEW t, NEW x, Moves(t, x), PlaceOf(t, x)',
         x.pc # "idle" => Active(t) /\ x.c = task[t].c /\ x.target = task[t].target,
         client' \in [Ids -> ClientStates], ClientsFollow, UNCHANGED ref,
         store' \in [host : Hosts, certs : Nat, mixed : SUBSET Devices,
                     records : [Devices -> SUBSET Pairings]],
         phone' \in [Devices -> [plugged : BOOLEAN, pairings : SUBSET Pairings]],
         app' \in [selected : Names, info : Names, prep : Names], KeepsStreams(t, x),
         store.mixed \subseteq store'.mixed, CertsKnown', InstalledOnTarget'
  PROVE  FlowInv'
<1>1. /\ FlowTyped /\ PlacesOfFlows /\ ClientsOwned /\ ClientsConnected
      /\ SessionOnTarget /\ StreamsOwned
  BY DEF FlowInv
<1>2. DOMAIN task' = DOMAIN task /\ task' \in [DOMAIN task' -> TaskStates] BY DEF Moves
<1>3. streams' \subseteq streams BY DEF KeepsStreams
<1>4. FlowTyped' BY <1>1, <1>2, <1>3 DEF FlowTyped, StreamStates
<1>5. ClientsConnected' /\ \A c \in Ids : client[c].used => client'[c].used
  BY <1>1, ConnectedKept
<1>6. PlacesOfFlows' BY <1>1, <1>5, PlacesKept
<1>7. ref.main \in 0..MaxClients BY <1>1 DEF FlowTyped
<1>8. ClientsOwned' BY <1>1, <1>5, <1>7, OwnersKept
<1>9. SessionOnTarget' BY <1>1, SessionsKept
<1>10. StreamsOwned' BY <1>1, StreamsKept DEF KeepsStreams
<1>11. QED BY <1>4, <1>5, <1>6, <1>8, <1>9, <1>10 DEF FlowInv

\* One that stores no record either.
LEMMA StepKeeps ==
  ASSUME FlowInv, NEW t, NEW x, Moves(t, x), PlaceOf(t, x)', Continues(t, x),
         client' \in [Ids -> ClientStates], ClientsFollow,
         UNCHANGED <<ref, store, phone, done>>,
         app' \in [selected : Names, info : Names, prep : Names], KeepsStreams(t, x)
  PROVE  FlowInv'
<1>1. FlowTyped /\ CertsKnown /\ InstalledOnTarget BY DEF FlowInv
<1>2. CertsKnown' BY <1>1, CertsKept DEF Continues
<1>3. InstalledOnTarget' BY <1>1, DoneKept
<1>4. /\ store' \in [host : Hosts, certs : Nat, mixed : SUBSET Devices,
                     records : [Devices -> SUBSET Pairings]]
      /\ phone' \in [Devices -> [plugged : BOOLEAN, pairings : SUBSET Pairings]]
      /\ store.mixed \subseteq store'.mixed
  BY <1>1 DEF FlowTyped
<1>5. x.pc # "idle" => Active(t) /\ x.c = task[t].c /\ x.target = task[t].target
  BY DEF Continues
<1>6. QED BY <1>2, <1>3, <1>4, <1>5, FollowKeeps

\* One that leaves the clients alone too.
LEMMA QuietKeeps ==
  ASSUME FlowInv, NEW t, NEW x, Moves(t, x), PlaceOf(t, x), Continues(t, x),
         UNCHANGED <<client, ref, store, phone, done>>,
         app' \in [selected : Names, info : Names, prep : Names],
         streams' \subseteq streams,
         \A s \in streams' : s.t # t \/ (x.pc \in {"proxy", "install"} /\ x.c = task[t].c)
  PROVE  FlowInv'
<1>1. FlowTyped /\ ClientsConnected BY DEF FlowInv
<1>2. client' \in [Ids -> ClientStates] BY <1>1 DEF FlowTyped
<1>3. ClientsFollow BY <1>1, SameFollows
<1>4. PlaceOf(t, x)' BY DEF PlaceOf
<1>5. KeepsStreams(t, x) BY DEF KeepsStreams
<1>6. QED BY <1>2, <1>3, <1>4, <1>5, StepKeeps

\* Streams are of tasks at the places of their services, and of no client but
\* the task's own.
LEMMA NoStreams ==
  ASSUME FlowInv, NEW t \in DOMAIN task, task[t].pc \notin {"proxy", "install"}
  PROVE  /\ \A s \in streams : s.t # t
         /\ t \in Installing /\ Active(t) => \A s \in streams : s.c # task[t].c
<1>1. StreamsOwned /\ ClientsOwned BY DEF FlowInv
<1>2. \A s \in streams : s.t # t BY <1>1 DEF StreamsOwned
<1>3. ASSUME t \in Installing, Active(t), NEW s \in streams PROVE s.c # task[t].c
  <2>1. s.t # t /\ s.t \in Installing /\ Active(s.t) /\ s.c = task[s.t].c
    BY <1>1, <1>2, <1>3 DEF StreamsOwned, Active
  <2>2. CASE t \in OnRefreshPage
    BY <1>1, <1>3, <2>1, <2>2 DEF ClientsOwned, Active
  <2>3. CASE s.t \in OnRefreshPage
    BY <1>1, <1>3, <2>1, <2>3 DEF ClientsOwned, Active
  <2>4. CASE t \in Direct /\ s.t \in Direct
    <3>1. {t, s.t} = Direct BY <2>1, <2>4 DEF Direct
    <3>2. Active("install") /\ Active("direct") BY <1>3, <2>1, <3>1 DEF Direct
    <3>3. QED BY <1>1, <3>2 DEF ClientsOwned
  <2>5. QED BY <1>3, <2>1, <2>2, <2>3, <2>4 DEF Installing
<1>4. QED BY <1>2, <1>3

\* A task that ends, its streams closed.
LEMMA EndKeeps ==
  ASSUME FlowInv, NEW t \in DOMAIN task, task' = [task EXCEPT ![t] = Idle],
         UNCHANGED <<client, ref, store, phone, done>>,
         app' \in [selected : Names, info : Names, prep : Names],
         streams' \subseteq streams, \A s \in streams' : s.t # t
  PROVE  FlowInv'
<1>1. FlowTyped BY DEF FlowInv
<1>2. Moves(t, Idle) /\ Idle.pc = "idle" /\ Idle.rec = {} /\ Idle.c = 0 BY <1>1, TaskEnds
<1> DEFINE x == Idle
<1>3. x.pc = "idle" /\ x.rec = {} /\ x.c = 0 /\ Moves(t, x) BY <1>2
<1> HIDE DEF x
<1>4. PlaceOf(t, x) BY <1>3 DEF PlaceOf, PairPlaces
<1>5. Continues(t, x) BY <1>3 DEF Continues
<1>6. QED BY <1>3, <1>4, <1>5, QuietKeeps

\* A place that is no other task's is the task's own.
LEMMA WhoIsAt ==
  ASSUME FlowInv, NEW t \in DOMAIN task
  PROVE  /\ task[t] \in TaskStates /\ PlaceOf(t, task[t]) /\ t \in AllTasks
         /\ task[t].pc \in PairPlaces => t \notin OnRefreshPage
         /\ task[t].pc \in InstallPlaces => t \in Installing
         /\ task[t].pc \in {"fresh reconnect", "trust", "check"} => t \in Direct
         /\ task[t].pc # "idle" /\ t # "sign" => task[t].c \in Ids /\ Sound(Mine(t))
<1>1. /\ FlowTyped /\ ClientsConnected /\ PlaceOf(t, task[t])
  BY DEF FlowInv, PlacesOfFlows
<1>2. task[t] \in TaskStates /\ t \in AllTasks BY <1>1 DEF FlowTyped
<1>3. task[t].pc \in PairPlaces => t \notin OnRefreshPage BY <1>1 DEF PlaceOf
<1>4. task[t].pc \in InstallPlaces => t \in Installing
  <2>1. t \in Installing \cup {"pair", "pairing page", "sign"}
    BY <1>2 DEF AllTasks, Installing, Direct, OnRefreshPage
  <2>2. QED
    BY <1>1, <2>1 DEF PlaceOf, PairPlaces, InstallPlaces
<1>5. task[t].pc \in {"fresh reconnect", "trust", "check"} => t \in Direct
  BY <1>1, <1>4 DEF PlaceOf, InstallPlaces, Installing
<1>6. task[t].pc # "idle" /\ t # "sign" => task[t].c \in Ids /\ Sound(Mine(t))
  BY <1>1 DEF PlaceOf, FlowTyped, ClientsConnected, Sound, Mine
<1>7. QED BY <1>1, <1>2, <1>3, <1>4, <1>5, <1>6

\* The signings: their steps touch no client.
LEMMA SignKeeps ==
  ASSUME FlowInv, SignDone \/ RefreshSigned
  PROVE  FlowInv'
<1>1. FlowTyped BY DEF FlowInv
<1>2. CASE SignDone
  <2> DEFINE t == "sign"
  <2>1. /\ t \in DOMAIN task /\ task[t].pc = "signing" /\ Goes(t, "idle")
        /\ app' = [app EXCEPT !.prep = task[t].target, !.info = None]
        /\ UNCHANGED <<client, ref, store, phone, streams, done, count>>
    BY <1>2 DEF SignDone, At, Tasks
  <2>2. t = "sign" OBVIOUS
  <2> HIDE DEF t
  <2>3. task[t] \in TaskStates BY <2>1, WhoIsAt
  <2>4. app' \in [selected : Names, info : Names, prep : Names]
    BY <1>1, <2>1, <2>3 DEF FlowTyped, TaskStates, Names
  <2>5. "idle" \in Places BY DEF Places
  <2>6. PICK x : Moves(t, x) /\ SameTask(t, x) /\ x.pc = "idle"
    BY <1>1, <2>1, <2>5, TaskGoes
  <2>7. PlaceOf(t, x) /\ Continues(t, x)
    <3>1. PlaceOf(t, task[t]) BY <2>1, WhoIsAt
    <3>2. QED BY <2>2, <2>6, <3>1 DEF PlaceOf, PairPlaces, Continues, SameTask, OnRefreshPage, Direct
  <2>8. \A s \in streams' : s.t # t BY <2>1, NoStreams
  <2>9. QED BY <2>1, <2>4, <2>6, <2>7, <2>8, QuietKeeps
<1>3. CASE RefreshSigned
  <2> DEFINE t == "refresh"
             pc == IF Mine("refresh").tls THEN "load" ELSE "retry reconnect"
  <2>1. /\ t \in DOMAIN task /\ task[t].pc = "signing" /\ Goes(t, pc)
        /\ UNCHANGED <<client, ref, app, store, phone, streams, done, count>>
    BY <1>3 DEF RefreshSigned, At, Tasks
  <2>2. t = "refresh" /\ pc \in {"load", "retry reconnect"} OBVIOUS
  <2> HIDE DEF t, pc
  <2>3. PlaceOf(t, task[t]) BY <2>1, WhoIsAt
  <2>4. app' \in [selected : Names, info : Names, prep : Names]
    BY <1>1, <2>1 DEF FlowTyped
  <2>5. pc \in Places BY <2>2 DEF Places, InstallPlaces
  <2>6. PICK x : Moves(t, x) /\ SameTask(t, x) /\ x.pc = pc
    BY <1>1, <2>1, <2>5, TaskGoes
  <2>7. Continues(t, x)
    BY <2>1, <2>6 DEF Continues, SameTask, Active
  <2>8. PlaceOf(t, x)
    BY <2>1, <2>2, <2>3, <2>6
    DEF PlaceOf, PairPlaces, SameTask, OnRefreshPage, Direct
  <2>9. \A s \in streams' : s.t # t BY <2>1, NoStreams
  <2>10. QED BY <2>1, <2>4, <2>6, <2>7, <2>8, <2>9, QuietKeeps
<1>4. QED BY <1>2, <1>3

\* A step that goes on to another place of the same flow keeps what the task has.
LEMMA NextPlace ==
  ASSUME FlowInv, NEW t \in DOMAIN task, task[t].pc # "idle", NEW x, SameTask(t, x),
         \/ task[t].pc \in PairPlaces /\ x.pc \in PairPlaces /\ task[t].udid \in Devices
         \/ task[t].pc \in InstallPlaces /\ x.pc \in InstallPlaces
            /\ x.pc \notin {"fresh reconnect", "trust", "check"}
         \/ t \in Direct /\ x.pc \in InstallPlaces
  PROVE  PlaceOf(t, x) /\ Continues(t, x)
<1>1. PlaceOf(t, task[t]) /\ t \in AllTasks BY WhoIsAt
<1>2. Continues(t, x) BY DEF Continues, SameTask, Active
<1>3. task[t].pc \in InstallPlaces => t \in Installing BY WhoIsAt
<1>4. PlaceOf(t, x)
  BY <1>1, <1>3
  DEF PlaceOf, SameTask, PairPlaces, InstallPlaces, Direct, OnRefreshPage, Installing
<1>5. QED BY <1>2, <1>4

\* An awaited call of the task's client, after which it goes on.
LEMMA AwaitKeeps ==
  ASSUME FlowInv, NEW t \in DOMAIN task, NEW r, NEW x, Moves(t, x), Sound(r),
         Follows(Mine(t), r), client' = [client EXCEPT ![task[t].c] = r],
         task[t].pc \notin {"idle", "signing"}, PlaceOf(t, x), Continues(t, x),
         x.pc # "idle", UNCHANGED <<ref, app, phone, done>>,
         store' \in [host : Hosts, certs : Nat, mixed : SUBSET Devices,
                     records : [Devices -> SUBSET Pairings]],
         store'.records = store.records, store'.mixed = store.mixed,
         streams' \subseteq streams, \A s \in streams' : s.t # t,
         r.tls = Mine(t).tls \/ \A s \in streams' : s.c # task[t].c
  PROVE  FlowInv'
<1>1. FlowTyped /\ ClientsConnected BY DEF FlowInv
<1>2. t # "sign" BY WhoIsAt DEF PlaceOf
<1>3. task[t].c \in Ids BY <1>2, WhoIsAt
<1>4. Changes(task[t].c, r) BY <1>1, <1>3, ClientChanges DEF Sound
<1>5. ClientsFollow BY <1>1, <1>4, ChangeFollows DEF Mine
<1>6. client' \in [Ids -> ClientStates] BY <1>4 DEF Changes
<1>7. app' \in [selected : Names, info : Names, prep : Names] BY <1>1 DEF FlowTyped
<1>8. x.c = task[t].c /\ r.used = Mine(t).used BY DEF Continues, Follows
<1>9. client'[x.c].used = client[x.c].used BY <1>3, <1>4, <1>8 DEF Changes, Mine
<1>10. PlaceOf(t, x)' BY <1>9 DEF PlaceOf
<1>11. \A s \in streams' : client[s.c].tls => client'[s.c].tls
  <2>1. SUFFICES ASSUME NEW s \in streams', client[s.c].tls PROVE client'[s.c].tls OBVIOUS
  <2>2. s.c \in Ids BY <1>1, <2>1 DEF FlowTyped, StreamStates
  <2>3. CASE s.c = task[t].c BY <1>4, <2>1, <2>3 DEF Changes, Mine
  <2>4. CASE s.c # task[t].c BY <1>4, <2>1, <2>2, <2>4 DEF Changes
  <2>5. QED BY <2>3, <2>4
<1>12. KeepsStreams(t, x) BY <1>11 DEF KeepsStreams
<1>13. CertsKnown' /\ InstalledOnTarget'
  <2>1. CertsKnown /\ InstalledOnTarget BY DEF FlowInv
  <2>2. QED BY <2>1, CertsKept, DoneKept DEF Continues
<1>14. phone' \in [Devices -> [plugged : BOOLEAN, pairings : SUBSET Pairings]]
  BY <1>1 DEF FlowTyped
<1>15. x.pc # "idle" => Active(t) /\ x.c = task[t].c /\ x.target = task[t].target
  BY DEF Continues
<1>16. QED BY <1>5, <1>6, <1>7, <1>10, <1>12, <1>13, <1>14, <1>15, FollowKeeps

\* pairDeviceFlow(): the UDID of the device that is connected.
LEMMA UdidKeeps ==
  ASSUME FlowInv, NEW t, PairUdid(t)
  PROVE  FlowInv'
<1>1. FlowTyped BY DEF FlowInv
<1>2. /\ t \in DOMAIN task /\ task[t].pc = "udid"
      /\ UNCHANGED <<ref, app, phone, streams, done, count, store>>
  BY DEF PairUdid, At, Tasks, Rest
<1>3. PICK r \in FetchUdid(Mine(t)) :
        /\ client' = [client EXCEPT ![task[t].c] = r]
        /\ task' = [task EXCEPT ![t].pc = "name", ![t].udid = r.udid]
  BY DEF PairUdid
<1>4. /\ task[t] \in TaskStates /\ PlaceOf(t, task[t]) /\ t # "sign" /\ Sound(Mine(t))
      /\ t \notin OnRefreshPage
  <2>1. t # "sign" BY <1>2, WhoIsAt DEF PlaceOf
  <2>2. QED BY <1>2, <2>1, WhoIsAt DEF PairPlaces
<1>5. Sound(r) /\ Follows(Mine(t), r) /\ r.tls = Mine(t).tls /\ r.udid \in Devices
  BY <1>1, <1>3, <1>4, FetchKeeps
<1> DEFINE x == [task[t] EXCEPT !.pc = "name", !.udid = r.udid]
<1>6. "name" \in Places /\ r.udid \in Names BY <1>5 DEF Places, PairPlaces, Names
<1>7. /\ x \in TaskStates /\ x.pc = "name" /\ x.udid = r.udid /\ x.c = task[t].c
      /\ x.target = task[t].target /\ x.rec = task[t].rec
  BY <1>4, <1>6 DEF TaskStates
<1>8. task' = [task EXCEPT ![t] = x] BY <1>3
<1> HIDE DEF x
<1>9. Moves(t, x) BY <1>1, <1>2, <1>7, <1>8, TaskMoves
<1>10. Continues(t, x) BY <1>2, <1>7 DEF Continues, Active
<1>11. PlaceOf(t, x) BY <1>2, <1>4, <1>5, <1>7 DEF PlaceOf, PairPlaces
<1>12. \A s \in streams' : s.t # t BY <1>2, NoStreams
<1>13. store \in [host : Hosts, certs : Nat, mixed : SUBSET Devices,
                  records : [Devices -> SUBSET Pairings]]
  BY <1>1 DEF FlowTyped
<1>14. QED BY <1>2, <1>3, <1>5, <1>7, <1>9, <1>10, <1>11, <1>12, <1>13, AwaitKeeps

\* It takes the record there is, or goes on to make one.
LEMMA ChooseKeeps ==
  ASSUME FlowInv, NEW t, PairChoose(t)
  PROVE  FlowInv'
<1>1. /\ FlowTyped
      /\ store \in [host : Hosts, certs : Nat, mixed : SUBSET Devices,
                    records : [Devices -> SUBSET Pairings]]
  BY DEF FlowInv, FlowTyped
<1>2. /\ t \in DOMAIN task /\ task[t].pc = "name"
      /\ UNCHANGED <<ref, app, phone, streams, done, count>>
  BY DEF PairChoose, At, Tasks, Rest
<1>3. /\ task[t] \in TaskStates /\ PlaceOf(t, task[t]) /\ t # "sign" /\ Sound(Mine(t))
      /\ t \notin OnRefreshPage
  <2>1. t # "sign" BY <1>2, WhoIsAt DEF PlaceOf
  <2>2. QED BY <1>2, <2>1, WhoIsAt DEF PairPlaces
<1> DEFINE udid == task[t].udid
           p == CHOOSE p \in store.records[udid] : TRUE
           Load(r) == r.paired = None /\ store.records[udid] # {}
<1>4. PICK r \in ConnectLockdown(Mine(t)) \cup {Mine(t)} :
        /\ client' = [client EXCEPT ![task[t].c] =
                        IF Load(r) THEN [r EXCEPT !.paired = udid] ELSE r]
        /\ store' = IF Load(r) THEN [store EXCEPT !.host = p.host] ELSE store
        /\ task' = [task EXCEPT ![t].host = store.host,
                      ![t].pc = IF Load(r) \/ r.paired # None THEN "session" ELSE "pairing"]
  BY DEF PairChoose
<1>5. udid \in Devices /\ udid \in Names BY <1>2, <1>3 DEF PlaceOf, Names
<1>6. Sound(r) /\ Follows(Mine(t), r) /\ r.tls = Mine(t).tls
  <2>1. CASE r \in ConnectLockdown(Mine(t)) BY <1>1, <1>3, <2>1, ConnectKeeps
  <2>2. CASE r = Mine(t) BY <1>3, <2>2 DEF Sound, Follows
  <2>3. QED BY <1>4, <2>1, <2>2
<1> DEFINE q == IF Load(r) THEN [r EXCEPT !.paired = udid] ELSE r
           pc == IF Load(r) \/ r.paired # None THEN "session" ELSE "pairing"
           x == [task[t] EXCEPT !.host = store.host, !.pc = pc]
<1>7. Load(r) => p.host \in Hosts
  <2>1. store.records[udid] \in SUBSET Pairings BY <1>1, <1>5
  <2>2. Load(r) => p \in store.records[udid] OBVIOUS
  <2>3. QED BY <2>1, <2>2 DEF Pairings
<1>8. client' = [client EXCEPT ![task[t].c] = q] BY <1>4
<1>9. task' = [task EXCEPT ![t] = x] BY <1>4
<1>10. pc \in {"session", "pairing"} OBVIOUS
<1> HIDE DEF udid, p, Load, pc
<1>11. Sound(q) /\ Follows(Mine(t), q) /\ q.tls = Mine(t).tls
  <2>1. CASE Load(r)
    <3>1. q = [r EXCEPT !.paired = udid] /\ r \in ClientStates BY <1>6, <2>1 DEF Sound
    <3>2. /\ q \in ClientStates /\ q.used = r.used /\ q.tls = r.tls /\ q.dev = r.dev
          /\ q.lockdown = r.lockdown
      BY <1>5, <3>1 DEF ClientStates
    <3>3. QED BY <1>6, <3>2 DEF Sound, Follows
  <2>2. CASE ~Load(r) BY <1>6, <2>2
  <2>3. QED BY <2>1, <2>2
<1>12. /\ store' \in [host : Hosts, certs : Nat, mixed : SUBSET Devices,
                      records : [Devices -> SUBSET Pairings]]
       /\ store'.records = store.records /\ store'.mixed = store.mixed
  <2>1. CASE Load(r) BY <1>1, <1>4, <1>7, <2>1
  <2>2. CASE ~Load(r) BY <1>1, <1>4, <2>2
  <2>3. QED BY <2>1, <2>2
<1>13. pc \in Places /\ pc # "idle" BY <1>10 DEF Places, PairPlaces
<1>14. /\ x \in TaskStates /\ x.pc = pc /\ x.udid = udid /\ x.c = task[t].c
       /\ x.target = task[t].target /\ x.rec = task[t].rec
  BY <1>1, <1>3, <1>13 DEF TaskStates, udid
<1> HIDE DEF q, x
<1>15. Moves(t, x) BY <1>1, <1>2, <1>9, <1>14, TaskMoves
<1>16. SameTask(t, x) BY <1>14 DEF SameTask, udid
<1>17. PlaceOf(t, x) /\ Continues(t, x)
  BY <1>2, <1>5, <1>10, <1>14, <1>16, NextPlace DEF PairPlaces, udid
<1>18. \A s \in streams' : s.t # t BY <1>2, NoStreams
<1>19. QED
  BY <1>2, <1>8, <1>11, <1>12, <1>13, <1>14, <1>15, <1>17, <1>18, AwaitKeeps

\* Pairing with the device that is connected, stored under the UDID read before.
LEMMA PairKeeps ==
  ASSUME FlowInv, NEW t, PairRequest(t)
  PROVE  FlowInv'
<1>1. /\ FlowTyped /\ ClientsConnected /\ CertsKnown /\ InstalledOnTarget
      /\ store \in [host : Hosts, certs : Nat, mixed : SUBSET Devices,
                    records : [Devices -> SUBSET Pairings]]
      /\ phone \in [Devices -> [plugged : BOOLEAN, pairings : SUBSET Pairings]]
      /\ app \in [selected : Names, info : Names, prep : Names]
  BY DEF FlowInv, FlowTyped
<1>2. /\ t \in DOMAIN task /\ task[t].pc = "pairing" /\ Goes(t, "session")
      /\ UNCHANGED <<ref, app, streams, done, count>>
  BY DEF PairRequest, At, Tasks
<1>3. PICK q \in ConnectLockdown(Mine(t)) : \E r \in FetchUdid(q) :
       LET p == Pairing(task[t].host, <<r.dev, store.certs + 1>>, r.dev) IN
       /\ client' = [client EXCEPT ![task[t].c] = [r EXCEPT !.paired = r.udid]]
       /\ phone' = [phone EXCEPT ![r.dev].pairings =
            {x \in @ : x.host # p.host} \cup {p}]
       /\ store' = [store EXCEPT !.certs = @ + 1, !.records[task[t].udid] = {p},
                                 !.mixed = @ \cup ({task[t].udid} \ {r.dev})]
  BY DEF PairRequest
<1>4. PICK r \in FetchUdid(q) :
       LET p == Pairing(task[t].host, <<r.dev, store.certs + 1>>, r.dev) IN
       /\ client' = [client EXCEPT ![task[t].c] = [r EXCEPT !.paired = r.udid]]
       /\ phone' = [phone EXCEPT ![r.dev].pairings =
            {x \in @ : x.host # p.host} \cup {p}]
       /\ store' = [store EXCEPT !.certs = @ + 1, !.records[task[t].udid] = {p},
                                 !.mixed = @ \cup ({task[t].udid} \ {r.dev})]
  BY <1>3
<1> DEFINE p == Pairing(task[t].host, <<r.dev, store.certs + 1>>, r.dev)
           q2 == [r EXCEPT !.paired = r.udid]
           kept == {x \in phone[r.dev].pairings : x.host # p.host} \cup {p}
           udid == task[t].udid
           n == store.certs + 1
           mixed == store.mixed \cup ({udid} \ {r.dev})
<1>5. /\ client' = [client EXCEPT ![task[t].c] = q2]
      /\ phone' = [phone EXCEPT ![r.dev].pairings = kept]
      /\ store' = [store EXCEPT !.certs = n, !.records[udid] = {p}, !.mixed = mixed]
  BY <1>4
<1>6. /\ task[t] \in TaskStates /\ PlaceOf(t, task[t]) /\ t # "sign" /\ Sound(Mine(t))
      /\ t \notin OnRefreshPage
  <2>1. t # "sign" BY <1>2, WhoIsAt DEF PlaceOf
  <2>2. QED BY <1>2, <2>1, WhoIsAt DEF PairPlaces
<1>7. udid \in Devices BY <1>2, <1>6 DEF PlaceOf
<1>8. Sound(q) /\ Follows(Mine(t), q) /\ q.tls = Mine(t).tls /\ q.dev \in Devices
  BY <1>1, <1>3, <1>6, ConnectKeeps
<1>9. Sound(r) /\ Follows(q, r) /\ r.tls = q.tls /\ r.dev \in Devices /\ r.udid \in Devices
  BY <1>1, <1>4, <1>8, FetchKeeps
<1>10. Sound(q2) /\ Follows(Mine(t), q2) /\ q2.tls = Mine(t).tls
  <2>1. r \in ClientStates /\ r.udid \in Names BY <1>9 DEF Sound, Names
  <2>2. /\ q2 \in ClientStates /\ q2.used = r.used /\ q2.tls = r.tls /\ q2.dev = r.dev
        /\ q2.lockdown = r.lockdown
    BY <2>1 DEF ClientStates
  <2>3. Follows(Mine(t), r) BY <1>8, <1>9 DEF Follows
  <2> HIDE DEF q2
  <2>4. QED BY <1>8, <1>9, <2>2, <2>3 DEF Sound, Follows
<1>11. n \in Nat /\ <<r.dev, n>> \in Devices \X Nat BY <1>1, <1>9
<1>12. /\ p \in Pairings /\ p.cert = <<r.dev, n>> /\ p.dev = r.dev
  <2>1. task[t].host \in Hosts BY <1>6 DEF TaskStates
  <2>2. p = [host |-> task[t].host, cert |-> <<r.dev, n>>, dev |-> r.dev] BY DEF Pairing
  <2> HIDE DEF p, n
  <2>3. QED BY <1>9, <1>11, <2>1, <2>2 DEF Pairings
<1>13. p.cert[1] = r.dev BY <1>12
<1>14. kept \in SUBSET Pairings /\ \A x \in kept : x \in phone[r.dev].pairings \/ x = p
  BY <1>1, <1>9, <1>12
<1>15. mixed \in SUBSET Devices /\ store.mixed \subseteq mixed /\ (udid # r.dev => udid \in mixed)
  BY <1>1, <1>7
<1> HIDE DEF p, q2, kept, n, mixed
<1>16. /\ phone' \in [Devices -> [plugged : BOOLEAN, pairings : SUBSET Pairings]]
       /\ phone'[r.dev].pairings = kept
       /\ \A d \in Devices : d # r.dev => phone'[d].pairings = phone[d].pairings
  BY <1>1, <1>5, <1>9, <1>14
<1>17. /\ store' \in [host : Hosts, certs : Nat, mixed : SUBSET Devices,
                      records : [Devices -> SUBSET Pairings]]
       /\ store'.mixed = mixed /\ store'.records[udid] = {p}
       /\ \A d \in Devices : d # udid => store'.records[d] = store.records[d]
  <2> DEFINE records == [store.records EXCEPT ![udid] = {p}]
  <2>1. /\ records \in [Devices -> SUBSET Pairings] /\ records[udid] = {p}
        /\ \A d \in Devices : d # udid => records[d] = store.records[d]
    BY <1>1, <1>7, <1>12
  <2>2. store' = [store EXCEPT !.certs = n, !.records = records, !.mixed = mixed] BY <1>5
  <2> HIDE DEF records
  <2>3. /\ store' \in [host : Hosts, certs : Nat, mixed : SUBSET Devices,
                       records : [Devices -> SUBSET Pairings]]
        /\ store'.mixed = mixed /\ store'.records = records
    BY <1>1, <1>11, <1>15, <2>1, <2>2
  <2>4. QED BY <2>1, <2>3
<1>18. "session" \in Places BY DEF Places, PairPlaces
<1>19. PICK x : Moves(t, x) /\ SameTask(t, x) /\ x.pc = "session"
  BY <1>1, <1>2, <1>18, TaskGoes
<1>20. \A c, d : MeantFor(c, d) => MeantFor(c, d)' BY <1>15, <1>17 DEF MeantFor
<1>21. CertsKnown'
  <2>1. ASSUME NEW d \in Devices, NEW c \in store'.records[d] PROVE MeantFor(c, d)'
    <3>1. CASE d = udid
      <4>1. c = p BY <1>17, <2>1, <3>1
      <4>2. QED BY <1>12, <1>13, <1>15, <1>17, <3>1, <4>1 DEF MeantFor
    <3>2. CASE d # udid
      <4>1. c \in store.records[d] BY <1>17, <2>1, <3>2
      <4>2. MeantFor(c, d) BY <1>1, <2>1, <4>1 DEF CertsKnown
      <4>3. QED BY <1>20, <4>2
    <3>3. QED BY <3>1, <3>2
  <2>2. ASSUME NEW d \in Devices, NEW c \in phone'[d].pairings PROVE c.cert[1] = d
    <3>1. CASE c = p /\ d = r.dev BY <1>13, <3>1
    <3>2. CASE c \in phone[d].pairings BY <1>1, <2>2, <3>2 DEF CertsKnown
    <3>3. QED BY <1>14, <1>16, <2>2, <3>1, <3>2
  <2>3. ASSUME NEW u \in DOMAIN task', NEW c \in task'[u].rec
        PROVE  MeantFor(c, task[u].target)'
    <3>1. u \in DOMAIN task /\ task'[u].rec = task[u].rec /\ task'[u].target = task[u].target
      BY <1>19, <2>3 DEF Moves, SameTask
    <3>2. MeantFor(c, task[u].target) BY <1>1, <2>3, <3>1 DEF CertsKnown
    <3>3. QED BY <1>15, <1>17, <3>1, <3>2 DEF MeantFor
  <2>4. QED BY <2>1, <2>2, <2>3 DEF CertsKnown
<1>22. InstalledOnTarget' BY <1>1, <1>2, <1>15, <1>17, DoneKept
<1>23. task[t].c \in Ids BY <1>2, <1>6, WhoIsAt
<1>24. Changes(task[t].c, q2) BY <1>1, <1>5, <1>10, <1>23, ClientChanges DEF Sound
<1>25. ClientsFollow BY <1>1, <1>10, <1>24, ChangeFollows DEF Mine
<1>26. client' \in [Ids -> ClientStates] BY <1>24 DEF Changes
<1>27. PlaceOf(t, x) /\ Continues(t, x)
  BY <1>2, <1>7, <1>19, NextPlace DEF PairPlaces
<1>28. PlaceOf(t, x)'
  <2>1. client'[task[t].c].used = client[task[t].c].used
    BY <1>23, <1>25 DEF ClientsFollow, Follows
  <2>2. QED BY <1>19, <1>27, <2>1 DEF PlaceOf, SameTask
<1>29. KeepsStreams(t, x)
  <2>1. \A s \in streams' : s.t # t BY <1>2, NoStreams
  <2>2. ASSUME NEW s \in streams', client[s.c].tls PROVE client'[s.c].tls
    <3>1. s.c \in Ids BY <1>1, <1>2, <2>2 DEF FlowTyped, StreamStates
    <3>2. CASE s.c = task[t].c BY <1>10, <1>24, <2>2, <3>2 DEF Changes, Mine
    <3>3. CASE s.c # task[t].c BY <1>24, <2>2, <3>1, <3>3 DEF Changes
    <3>4. QED BY <3>2, <3>3
  <2>3. QED BY <1>2, <2>1, <2>2 DEF KeepsStreams
<1>30. store.mixed \subseteq store'.mixed /\ app' = app /\ ref' = ref BY <1>2, <1>15, <1>17
<1>31. x.pc # "idle" => Active(t) /\ x.c = task[t].c /\ x.target = task[t].target
  BY <1>27 DEF Continues
<1>32. QED
  BY <1>1, <1>16, <1>17, <1>19, <1>21, <1>22, <1>25, <1>26, <1>28, <1>29, <1>30, <1>31,
     FollowKeeps

\* A step at a place of its own flow that awaits one call of the client.
LEMMA CallKeeps ==
  ASSUME FlowInv, NEW t \in DOMAIN task, NEW after, NEW pc \in Places,
         task[t].pc \notin {"idle", "signing", "proxy", "install"}, Awaits(t, after, pc),
         UNCHANGED <<ref, app, store, phone, done>>, streams' \subseteq streams,
         \/ task[t].pc \in PairPlaces /\ pc \in PairPlaces /\ task[t].udid \in Devices
         \/ task[t].pc \in InstallPlaces /\ pc \in InstallPlaces
            /\ pc \notin {"fresh reconnect", "trust", "check"}
         \/ t \in Direct /\ pc \in InstallPlaces,
         \A r \in after : /\ Sound(r) /\ Follows(Mine(t), r)
                          /\ r.tls = Mine(t).tls \/ t \in Installing
  PROVE  FlowInv'
<1>1. /\ FlowTyped
      /\ store \in [host : Hosts, certs : Nat, mixed : SUBSET Devices,
                    records : [Devices -> SUBSET Pairings]]
  BY DEF FlowInv, FlowTyped
<1>2. PICK r \in after : client' = [client EXCEPT ![task[t].c] = r] /\ Goes(t, pc)
  BY DEF Awaits
<1>3. PICK x : Moves(t, x) /\ SameTask(t, x) /\ x.pc = pc BY <1>1, <1>2, TaskGoes
<1>4. PlaceOf(t, x) /\ Continues(t, x) BY <1>3, NextPlace
<1>5. pc # "idle" BY DEF PairPlaces, InstallPlaces
<1>6. \A s \in streams' : s.t # t BY NoStreams
<1>7. r.tls = Mine(t).tls \/ \A s \in streams' : s.c # task[t].c
  <2>1. t \in Installing => \A s \in streams : s.c # task[t].c BY NoStreams DEF Active
  <2>2. Sound(r) /\ Follows(Mine(t), r) /\ (r.tls = Mine(t).tls \/ t \in Installing)
    BY <1>2
  <2>3. QED BY <2>1, <2>2
<1>8. Sound(r) /\ Follows(Mine(t), r) BY <1>2
<1>9. QED BY <1>1, <1>2, <1>3, <1>4, <1>5, <1>6, <1>7, <1>8, AwaitKeeps

\* The session of the pair flow, and those of an installation before its TLS.
LEMMA CallsKeep ==
  ASSUME FlowInv, NEW t,
         \/ PairSession(t) \/ ConnectStep(t) \/ SessionStep(t) \/ RetryReconnect(t)
  PROVE  FlowInv'
<1>1. FlowTyped BY DEF FlowInv
<1>2. t \in DOMAIN task
  BY DEF PairSession, ConnectStep, SessionStep, RetryReconnect, At, Tasks
<1>3. task[t].pc \in {"session", "connect", "start session", "retry reconnect"}
  BY DEF PairSession, ConnectStep, SessionStep, RetryReconnect, At
<1>4. /\ task[t] \in TaskStates /\ PlaceOf(t, task[t]) /\ t # "sign"
      /\ Sound(Mine(t)) /\ Mine(t) \in ClientStates
  <2>1. t # "sign" BY <1>2, <1>3, WhoIsAt DEF PlaceOf
  <2>2. QED BY <1>2, <1>3, <2>1, WhoIsAt DEF Sound
<1>5. Follows(Mine(t), Mine(t)) BY <1>4 DEF Sound, Follows
<1>6. CASE PairSession(t)
  <2> DEFINE after == IF Mine(t).started THEN {Mine(t)}
                      ELSE StartSession(Mine(t), task[t].host)
  <2>1. /\ Awaits(t, after, "paired") /\ task[t].pc = "session"
        /\ UNCHANGED <<ref, app, store, phone, done>> /\ streams' = streams
    BY <1>6 DEF PairSession, Rest, At
  <2>2. task[t].host \in Hosts BY <1>4 DEF TaskStates
  <2>3. \A r \in after : Sound(r) /\ Follows(Mine(t), r) /\ r.tls = Mine(t).tls
    BY <1>1, <1>4, <1>5, <2>2, SessionKeeps
  <2>4. task[t].udid \in Devices BY <1>4, <2>1 DEF PlaceOf
  <2> HIDE DEF after
  <2>5. "paired" \in Places /\ "paired" \in PairPlaces /\ "session" \in PairPlaces
    BY DEF Places, PairPlaces
  <2>6. task[t].pc \notin {"idle", "signing", "proxy", "install"} /\ streams' \subseteq streams
    BY <2>1
  <2>7. \A r \in after : /\ Sound(r) /\ Follows(Mine(t), r)
                         /\ r.tls = Mine(t).tls \/ t \in Installing
    BY <2>3
  <2>8. task[t].pc \in PairPlaces BY <2>1, <2>5
  <2>9. QED BY <1>2, <2>1, <2>4, <2>5, <2>6, <2>7, <2>8, CallKeeps
<1>7. CASE ConnectStep(t)
  <2> DEFINE after == ConnectLockdown(Mine(t))
  <2>1. /\ Awaits(t, after, "start session") /\ task[t].pc = "connect"
        /\ UNCHANGED <<ref, app, store, phone, done>> /\ streams' = streams
    BY <1>7 DEF ConnectStep, Rest, At
  <2>2. \A r \in after : Sound(r) /\ Follows(Mine(t), r) /\ r.tls = Mine(t).tls
    BY <1>1, <1>4, ConnectKeeps
  <2> HIDE DEF after
  <2>3. /\ "start session" \in Places /\ "start session" \in InstallPlaces
        /\ "connect" \in InstallPlaces
    BY DEF Places, InstallPlaces
  <2>4. task[t].pc \notin {"idle", "signing", "proxy", "install"} /\ streams' \subseteq streams
    BY <2>1
  <2>5. \A r \in after : /\ Sound(r) /\ Follows(Mine(t), r)
                         /\ r.tls = Mine(t).tls \/ t \in Installing
    BY <2>2
  <2>6. task[t].pc \in InstallPlaces BY <2>1, <2>3
  <2>7. QED BY <1>2, <2>1, <2>3, <2>4, <2>5, <2>6, CallKeeps
<1>8. CASE SessionStep(t)
  <2> DEFINE after == IF Mine(t).started THEN {Mine(t)}
                      ELSE UNION {StartSession(Mine(t), p.host) : p \in task[t].rec}
  <2>1. /\ Awaits(t, after, "tls") /\ task[t].pc = "start session"
        /\ UNCHANGED <<ref, app, store, phone, done>> /\ streams' = streams
    BY <1>8 DEF SessionStep, Rest, At
  <2>2. \A p \in task[t].rec : p.host \in Hosts BY <1>4 DEF TaskStates, Pairings
  <2>3. ASSUME NEW r \in after PROVE Sound(r) /\ Follows(Mine(t), r) /\ r.tls = Mine(t).tls
    <3>1. CASE Mine(t).started BY <1>4, <1>5, <2>3, <3>1
    <3>2. CASE ~Mine(t).started
      <4>1. PICK p \in task[t].rec : r \in StartSession(Mine(t), p.host) BY <2>3, <3>2
      <4>2. QED BY <1>1, <1>4, <2>2, <4>1, SessionKeeps
    <3>3. QED BY <3>1, <3>2
  <2> HIDE DEF after
  <2>4. /\ "tls" \in Places /\ "tls" \in InstallPlaces /\ "start session" \in InstallPlaces
    BY DEF Places, InstallPlaces
  <2>5. task[t].pc \notin {"idle", "signing", "proxy", "install"} /\ streams' \subseteq streams
    BY <2>1
  <2>6. \A r \in after : /\ Sound(r) /\ Follows(Mine(t), r)
                         /\ r.tls = Mine(t).tls \/ t \in Installing
    BY <2>3
  <2>7. task[t].pc \in InstallPlaces BY <2>1, <2>4
  <2>8. QED BY <1>2, <2>1, <2>4, <2>5, <2>6, <2>7, CallKeeps
<1>9. CASE RetryReconnect(t)
  <2> DEFINE after == Reconnect(Mine(t))
  <2>1. /\ Awaits(t, after, "load") /\ task[t].pc = "retry reconnect"
        /\ UNCHANGED <<ref, app, store, phone, done>> /\ streams' \subseteq streams
    BY <1>9 DEF RetryReconnect, At
  <2>2. \A r \in after : Sound(r) /\ Follows(Mine(t), r) BY <1>1, <1>4, CloseKeeps
  <2> HIDE DEF after
  <2>3. /\ "load" \in Places /\ "load" \in InstallPlaces
        /\ "retry reconnect" \in InstallPlaces
    BY DEF Places, InstallPlaces
  <2>4. t \in Installing BY <1>2, <2>1, <2>3, WhoIsAt
  <2>5. task[t].pc \notin {"idle", "signing", "proxy", "install"} /\ streams' \subseteq streams
    BY <2>1
  <2>6. \A r \in after : /\ Sound(r) /\ Follows(Mine(t), r)
                         /\ r.tls = Mine(t).tls \/ t \in Installing
    BY <2>2, <2>4
  <2>7. task[t].pc \in InstallPlaces BY <2>1, <2>3
  <2>8. QED BY <1>2, <2>1, <2>3, <2>5, <2>6, <2>7, CallKeeps
<1>10. QED BY <1>6, <1>7, <1>8, <1>9

\* The first connection of an installation.
LEMMA ReconnectKeeps ==
  ASSUME FlowInv, NEW t, FreshReconnect(t)
  PROVE  FlowInv'
<1> DEFINE after == Reconnect(Mine(t)) \cup {Closed(Mine(t))}
<1>1. /\ t \in DOMAIN task /\ task[t].pc = "fresh reconnect" /\ Awaits(t, after, "trust")
      /\ UNCHANGED <<ref, app, store, phone, done>> /\ streams' = streams
  BY DEF FreshReconnect, Rest, At, Tasks, Awaits
<1>2. FlowTyped /\ t \in Direct /\ t \in Installing
  BY <1>1, WhoIsAt DEF FlowInv, Installing
<1>3. Mine(t) \in ClientStates BY <1>1, <1>2, WhoIsAt DEF Direct, Sound
<1>4. \A r \in after : Sound(r) /\ Follows(Mine(t), r) BY <1>2, <1>3, CloseKeeps
<1> HIDE DEF after
<1>5. "trust" \in Places /\ "trust" \in InstallPlaces BY DEF Places, InstallPlaces
<1>6. QED BY <1>1, <1>2, <1>4, <1>5, CallKeeps

\* A task that goes on at another place without its client.
LEMMA TurnKeeps ==
  ASSUME FlowInv, NEW t \in DOMAIN task, NEW x \in TaskStates, SameTask(t, x),
         task' = [task EXCEPT ![t] = x], UNCHANGED <<client, ref, store, phone, done>>,
         app' \in [selected : Names, info : Names, prep : Names], streams' \subseteq streams,
         \A s \in streams' : s.t # t, task[t].pc # "idle",
         \/ t \in Direct /\ x.pc \in InstallPlaces
         \/ t \in Direct /\ x.pc = "udid"
         \/ task[t].pc \in InstallPlaces /\ x.pc \in InstallPlaces
            /\ x.pc \notin {"fresh reconnect", "trust", "check"}
  PROVE  FlowInv'
<1>1. FlowTyped BY DEF FlowInv
<1>2. Moves(t, x) BY <1>1, TaskMoves
<1>3. PlaceOf(t, x) /\ Continues(t, x)
  <2>1. CASE t \in Direct /\ x.pc = "udid"
    <3>1. PlaceOf(t, task[t]) BY WhoIsAt
    <3>2. Continues(t, x) BY DEF Continues, SameTask, Active
    <3>3. PlaceOf(t, x)
      BY <2>1, <3>1 DEF PlaceOf, SameTask, Direct, OnRefreshPage, Installing
    <3>4. QED BY <3>2, <3>3
  <2>2. CASE t \in Direct /\ x.pc \in InstallPlaces BY <2>2, NextPlace
  <2>3. CASE task[t].pc \in InstallPlaces /\ x.pc \in InstallPlaces
             /\ x.pc \notin {"fresh reconnect", "trust", "check"}
    BY <2>3, NextPlace
  <2>4. QED BY <2>1, <2>2, <2>3
<1>4. QED BY <1>2, <1>3, QuietKeeps, ZenonT(60)

\* The end of the pair flow, on its own or inside an installation.
LEMMA PairDoneKeeps ==
  ASSUME FlowInv, NEW t, PairDone(t)
  PROVE  FlowInv'
<1>1. FlowTyped /\ app \in [selected : Names, info : Names, prep : Names]
  BY DEF FlowInv, FlowTyped
<1>2. /\ t \in DOMAIN task /\ task[t].pc = "paired"
      /\ app' = [app EXCEPT !.info = task[t].udid, !.selected = task[t].udid]
      /\ task' = [task EXCEPT ![t] = IF t \in {"install", "direct"}
                    THEN [@ EXCEPT !.pc = "check", !.info = task[t].udid] ELSE Idle]
      /\ UNCHANGED <<client, ref, store, phone, streams, done, count>>
  BY DEF PairDone, At, Tasks
<1>3. task[t] \in TaskStates /\ task[t].udid \in Names
  BY <1>2, WhoIsAt DEF TaskStates
<1>4. app' \in [selected : Names, info : Names, prep : Names] BY <1>1, <1>2, <1>3
<1>5. \A s \in streams' : s.t # t BY <1>2, NoStreams
<1>6. CASE t \in Direct
  <2> DEFINE x == [task[t] EXCEPT !.pc = "check", !.info = task[t].udid]
  <2>1. task' = [task EXCEPT ![t] = x] BY <1>2, <1>6 DEF Direct
  <2>2. "check" \in Places /\ "check" \in InstallPlaces BY DEF Places, InstallPlaces
  <2>3. x \in TaskStates /\ x.pc = "check" /\ SameTask(t, x)
    BY <1>3, <2>2 DEF TaskStates, SameTask
  <2> HIDE DEF x
  <2>4. QED BY <1>2, <1>4, <1>5, <1>6, <2>1, <2>2, <2>3, TurnKeeps
<1>7. CASE t \notin Direct
  <2>1. task' = [task EXCEPT ![t] = Idle] BY <1>2, <1>7 DEF Direct
  <2>2. QED BY <1>2, <1>4, <1>5, <2>1, EndKeeps
<1>8. QED BY <1>6, <1>7

\* Whether the pair flow is needed, and whether the device is the target.
LEMMA ChecksKeep ==
  ASSUME FlowInv, NEW t, Trust(t) \/ CheckTarget(t)
  PROVE  FlowInv'
<1>1. FlowTyped /\ ClientsOwned BY DEF FlowInv
<1>2. /\ t \in DOMAIN task /\ task[t].pc \in {"trust", "check"}
      /\ UNCHANGED <<client, ref, app, store, phone, streams, done>>
  BY DEF Trust, CheckTarget, At, Tasks
<1>3. task[t] \in TaskStates /\ t \in Direct BY <1>2, WhoIsAt
<1>4. app' \in [selected : Names, info : Names, prep : Names]
  BY <1>1, <1>2 DEF FlowTyped
<1>5. \A s \in streams' : s.t # t BY <1>2, NoStreams
<1>6. task[t].c = ref.main BY <1>1, <1>2, <1>3 DEF ClientsOwned, Active
<1>7. \/ task' = [task EXCEPT ![t] = Idle]
      \/ task' = [task EXCEPT ![t].pc = "check"]
      \/ task' = [task EXCEPT ![t].pc = "udid", ![t].c = ref.main]
      \/ task' = [task EXCEPT ![t].pc = "load"]
  BY DEF Trust, CheckTarget, Goes
<1>8. CASE task' = [task EXCEPT ![t] = Idle] BY <1>2, <1>4, <1>5, <1>8, EndKeeps
<1>9. ASSUME NEW pc \in {"check", "load", "udid"}, task' = [task EXCEPT ![t].pc = pc]
      PROVE  FlowInv'
  <2> DEFINE x == [task[t] EXCEPT !.pc = pc]
  <2>1. task' = [task EXCEPT ![t] = x] BY <1>9
  <2>2. pc \in Places /\ (pc \in InstallPlaces \/ pc = "udid")
    BY DEF Places, PairPlaces, InstallPlaces
  <2>3. x \in TaskStates /\ x.pc = pc /\ SameTask(t, x)
    BY <1>3, <2>2 DEF TaskStates, SameTask
  <2> HIDE DEF x
  <2>4. QED BY <1>2, <1>3, <1>4, <1>5, <2>1, <2>2, <2>3, TurnKeeps
<1>10. CASE task' = [task EXCEPT ![t].pc = "udid", ![t].c = ref.main]
  <2> DEFINE x == [task[t] EXCEPT !.pc = "udid", !.c = ref.main]
             y == [task[t] EXCEPT !.pc = "udid"]
  <2>1. task' = [task EXCEPT ![t] = x] BY <1>10
  <2>2. x = y BY <1>3, <1>6 DEF TaskStates
  <2>3. task' = [task EXCEPT ![t].pc = "udid"] BY <2>1, <2>2
  <2>4. QED BY <1>9, <2>3
<1>11. QED BY <1>7, <1>8, <1>9, <1>10

\* The installation and the list, which end their tasks.
LEMMA InstallKeeps ==
  ASSUME FlowInv, NEW t, InstallIpa(t)
  PROVE  FlowInv'
<1>1. FlowTyped /\ CertsKnown /\ StreamsOwned /\ SessionOnTarget /\ InstalledOnTarget
  BY DEF FlowInv
<1>2. /\ t \in DOMAIN task /\ task[t].pc = "install" /\ Stream(t, "afc") \in streams
      /\ done' = done \cup {<<Mine(t).dev, task[t].target>>}
      /\ Finally(t) /\ task' = [task EXCEPT ![t] = Idle]
      /\ UNCHANGED <<client, ref, app, store, phone, count>>
  BY DEF InstallIpa, At, Tasks
<1>3. client[task[t].c].tls /\ t \in Installing
  <2> DEFINE s == Stream(t, "afc")
  <2>1. s.t = t /\ s.c = task[t].c BY DEF Stream
  <2> HIDE DEF s
  <2>2. s \in streams BY <1>2 DEF s
  <2>3. QED BY <1>1, <2>1, <2>2 DEF StreamsOwned
<1>4. IsTarget(Mine(t).dev, task[t].target)
  BY <1>1, <1>2, <1>3 DEF SessionOnTarget, Active, Mine
<1>5. InstalledOnTarget'
  BY <1>1, <1>2, <1>4 DEF InstalledOnTarget, IsTarget
<1>6. /\ store \in [host : Hosts, certs : Nat, mixed : SUBSET Devices,
                    records : [Devices -> SUBSET Pairings]]
      /\ phone \in [Devices -> [plugged : BOOLEAN, pairings : SUBSET Pairings]]
      /\ app \in [selected : Names, info : Names, prep : Names]
      /\ client \in [Ids -> ClientStates]
  BY <1>1 DEF FlowTyped
<1> DEFINE x == Idle
<1>7. Moves(t, x) /\ x.pc = "idle" /\ x.rec = {} /\ x.c = 0 BY <1>1, <1>2, TaskEnds
<1> HIDE DEF x
<1>8. PlaceOf(t, x)' BY <1>7 DEF PlaceOf, PairPlaces
<1>9. ClientsFollow BY <1>2, SameFollows DEF FlowInv
<1>10. CertsKnown' BY <1>1, <1>2, <1>7, CertsKept
<1>11. KeepsStreams(t, x) BY <1>2 DEF KeepsStreams, Finally
<1>12. QED BY <1>2, <1>5, <1>6, <1>7, <1>8, <1>9, <1>10, <1>11, FollowKeeps

\* The end of a scan keeps the invariant.
LEMMA BrowseKeeps ==
  ASSUME FlowInv, Browse
  PROVE  FlowInv'
<1>1. /\ "scan" \in DOMAIN task /\ Finally("scan")
      /\ task' = [task EXCEPT !["scan"] = Idle]
      /\ UNCHANGED <<client, ref, app, store, phone, done, count>>
  BY DEF Browse, At, Tasks
<1>2. app' \in [selected : Names, info : Names, prep : Names]
  BY <1>1 DEF FlowInv, FlowTyped
<1>3. streams' \subseteq streams /\ \A s \in streams' : s.t # "scan" BY <1>1 DEF Finally
<1>4. QED BY <1>1, <1>2, <1>3, EndKeeps

\* Loading the record of the target.
LEMMA LoadKeeps ==
  ASSUME FlowInv, NEW t, LoadRecord(t)
  PROVE  FlowInv'
<1>1. /\ FlowTyped /\ ClientsConnected /\ CertsKnown /\ InstalledOnTarget
      /\ store \in [host : Hosts, certs : Nat, mixed : SUBSET Devices,
                    records : [Devices -> SUBSET Pairings]]
  BY DEF FlowInv, FlowTyped
<1> DEFINE r == Mine(t)
           pc == IF Mine(t).tls THEN IF t = "scan" THEN "proxy" ELSE "afc"
                 ELSE IF Mine(t).started THEN "tls" ELSE "connect"
           paired == IF t = "scan" /\ r.paired = None THEN task[t].target ELSE r.paired
           q == [r EXCEPT !.paired = paired]
           loaded == [task[t] EXCEPT !.rec = RecordFor(t), !.pc = pc]
<1>2. /\ t \in DOMAIN task /\ task[t].pc = "load"
      /\ client' = [client EXCEPT ![task[t].c] = q]
      /\ task' = [task EXCEPT ![t] = loaded]
      /\ UNCHANGED <<ref, app, phone, streams, done, count, store>>
  BY DEF LoadRecord, At, Tasks, Rest, Mine
<1>3. /\ task[t] \in TaskStates /\ PlaceOf(t, task[t]) /\ t \in Installing /\ t # "sign"
      /\ Sound(r) /\ task[t].c \in Ids
  <2>1. "load" \in InstallPlaces BY DEF InstallPlaces
  <2>2. t \in Installing BY <1>2, <2>1, WhoIsAt
  <2>3. t # "sign" BY <2>2 DEF Installing, Direct, OnRefreshPage
  <2>4. QED BY <1>2, <2>2, <2>3, WhoIsAt
<1>4. task[t].target \in Devices BY <1>2, <1>3 DEF PlaceOf
<1>5. pc \in Places /\ pc \in InstallPlaces
      /\ pc \notin {"fresh reconnect", "trust", "check"}
  BY DEF Places, InstallPlaces
<1>6. RecordFor(t) \in SUBSET Pairings BY <1>1, <1>4 DEF RecordFor
<1>7. paired \in Names BY <1>3, <1>4 DEF Sound, ClientStates, Names
<1> HIDE DEF pc, paired
<1>8. /\ q \in ClientStates /\ q.used = r.used /\ q.tls = r.tls /\ q.dev = r.dev
      /\ q.lockdown = r.lockdown
  BY <1>3, <1>7 DEF Sound, ClientStates
<1>9. PICK x \in TaskStates :
        /\ x = loaded /\ x.pc = pc /\ x.c = task[t].c /\ x.target = task[t].target
        /\ x.rec = RecordFor(t) /\ x.udid = task[t].udid
  <2>1. /\ loaded \in TaskStates /\ loaded.pc = pc /\ loaded.c = task[t].c
        /\ loaded.target = task[t].target /\ loaded.rec = RecordFor(t)
        /\ loaded.udid = task[t].udid
    BY <1>3, <1>5, <1>6 DEF TaskStates
  <2> HIDE DEF loaded
  <2>2. QED BY <2>1
<1> HIDE DEF q, r, loaded
<1>10. Moves(t, x) BY <1>1, <1>2, <1>9, TaskMoves
<1>11. Sound(q) /\ Follows(r, q) BY <1>3, <1>8 DEF Sound, Follows
<1>12. Changes(task[t].c, q) BY <1>1, <1>2, <1>3, <1>8, ClientChanges
<1>13. ClientsFollow BY <1>1, <1>11, <1>12, ChangeFollows DEF r, Mine
<1>14. client' \in [Ids -> ClientStates] BY <1>12 DEF Changes
<1>15. PlaceOf(t, x)'
  <2>1. client'[task[t].c].used = client[task[t].c].used
    BY <1>3, <1>13 DEF ClientsFollow, Follows
  <2>2. PlaceOf(t, x)
    BY <1>2, <1>3, <1>5, <1>9
    DEF PlaceOf, PairPlaces, InstallPlaces, Direct, OnRefreshPage, Installing
  <2>3. QED BY <1>9, <2>1, <2>2 DEF PlaceOf
<1>16. KeepsStreams(t, x)
  <2>1. \A s \in streams' : s.t # t BY <1>2, NoStreams
  <2>2. ASSUME NEW s \in streams', client[s.c].tls PROVE client'[s.c].tls
    <3>1. s.c \in Ids BY <1>1, <1>2, <2>2 DEF FlowTyped, StreamStates
    <3>2. CASE s.c = task[t].c BY <1>8, <1>12, <2>2, <3>2 DEF Changes, r, Mine
    <3>3. CASE s.c # task[t].c BY <1>12, <2>2, <3>1, <3>3 DEF Changes
    <3>4. QED BY <3>2, <3>3
  <2>3. QED BY <1>2, <2>1, <2>2 DEF KeepsStreams
<1>17. CertsKnown'
  <2>1. /\ \A d \in Devices : \A p \in store'.records[d] : MeantFor(p, d)'
        /\ \A d \in Devices : \A p \in phone'[d].pairings : p.cert[1] = d
    BY <1>1, <1>2 DEF CertsKnown, MeantFor
  <2>2. ASSUME NEW u \in DOMAIN task', NEW p \in task'[u].rec
        PROVE  MeantFor(p, task[u].target)'
    <3>1. u \in DOMAIN task BY <1>10, <2>2 DEF Moves
    <3>2. CASE u = t
      <4>1. p \in store.records[task[t].target] /\ task'[u].target = task[t].target
        BY <1>9, <1>10, <2>2, <3>2 DEF Moves, RecordFor
      <4>2. MeantFor(p, task[t].target) BY <1>1, <1>4, <4>1 DEF CertsKnown
      <4>3. QED BY <1>2, <4>1, <4>2 DEF MeantFor
    <3>3. CASE u # t
      <4>1. task'[u] = task[u] BY <1>10, <3>1, <3>3 DEF Moves
      <4>2. MeantFor(p, task[u].target) BY <1>1, <2>2, <3>1, <4>1 DEF CertsKnown
      <4>3. QED BY <1>2, <4>1, <4>2 DEF MeantFor
    <3>4. QED BY <3>2, <3>3
  <2>3. QED BY <2>1, <2>2 DEF CertsKnown
<1>18. InstalledOnTarget' BY <1>1, <1>2, DoneKept
<1>19. /\ store' = store /\ phone' = phone /\ app' = app /\ ref' = ref BY <1>2
<1>20. phone' \in [Devices -> [plugged : BOOLEAN, pairings : SUBSET Pairings]]
       /\ app' \in [selected : Names, info : Names, prep : Names]
  BY <1>1, <1>19 DEF FlowTyped
<1>21. Active(t) BY <1>2 DEF Active
<1>22. QED
  BY <1>1, <1>9, <1>10, <1>13, <1>14, <1>15, <1>16, <1>17, <1>18, <1>19, <1>20, <1>21,
     FollowKeeps

\* Two installations under way have clients of their own.
LEMMA ClientsApart ==
  ASSUME FlowInv, NEW t \in Installing, NEW u \in Installing, Active(t), Active(u), t # u
  PROVE  task[t].c # task[u].c
<1>1. ClientsOwned /\ t \in DOMAIN task /\ u \in DOMAIN task BY DEF FlowInv, Active
<1>2. CASE t \in OnRefreshPage BY <1>1, <1>2 DEF ClientsOwned
<1>3. CASE u \in OnRefreshPage BY <1>1, <1>3 DEF ClientsOwned
<1>4. CASE t \in Direct /\ u \in Direct
  <2>1. {t, u} = Direct BY <1>4 DEF Direct
  <2>2. Active("install") /\ Active("direct") BY <2>1 DEF Direct
  <2>3. QED BY <1>1, <2>2 DEF ClientsOwned
<1>5. QED BY <1>2, <1>3, <1>4 DEF Installing

\* upgradeToTls(): the device has the certificate of the target's record.
LEMMA UpgradeOnTarget ==
  ASSUME FlowInv, NEW t \in DOMAIN task, Sound(Mine(t)), ~Mine(t).tls,
         NEW r \in UpgradeToTls(Mine(t), task[t].rec)
  PROVE  IsTarget(Mine(t).dev, task[t].target) /\ Mine(t).lockdown
<1>1. FlowTyped /\ CertsKnown BY DEF FlowInv
<1>2. PICK p \in phone[Mine(t).dev].pairings, q \in task[t].rec : p.cert = q.cert
  BY DEF UpgradeToTls
<1>3. Mine(t).lockdown BY DEF UpgradeToTls
<1>4. Mine(t).dev \in Devices BY <1>3 DEF Sound
<1>5. p.cert[1] = Mine(t).dev /\ MeantFor(q, task[t].target)
  BY <1>1, <1>2, <1>4 DEF CertsKnown
<1>6. QED BY <1>2, <1>3, <1>5 DEF MeantFor, IsTarget

\* A session begins.
LEMMA TlsKeeps ==
  ASSUME FlowInv, NEW t, TlsStep(t)
  PROVE  FlowInv'
<1> DEFINE pc == IF t = "scan" THEN "proxy" ELSE "afc"
<1>1. /\ FlowTyped /\ PlacesOfFlows /\ ClientsOwned /\ ClientsConnected /\ CertsKnown
      /\ SessionOnTarget /\ StreamsOwned /\ InstalledOnTarget
  BY DEF FlowInv
<1>2. /\ t \in DOMAIN task /\ task[t].pc = "tls"
      /\ Awaits(t, UpgradeToTls(Mine(t), task[t].rec), pc)
      /\ UNCHANGED <<ref, app, phone, streams, done, count, store>>
  BY DEF TlsStep, At, Tasks, Rest
<1>3. PICK r \in UpgradeToTls(Mine(t), task[t].rec) :
        client' = [client EXCEPT ![task[t].c] = r] /\ Goes(t, pc)
  BY <1>2 DEF Awaits
<1>4. pc \in Places /\ pc \in InstallPlaces
      /\ pc \notin {"fresh reconnect", "trust", "check"}
  BY DEF Places, InstallPlaces
<1> HIDE DEF pc
<1>5. /\ t \in Installing /\ Sound(Mine(t)) /\ task[t].c \in Ids /\ Active(t)
      /\ task[t].pc \in InstallPlaces
  <2>1. "tls" \in InstallPlaces BY DEF InstallPlaces
  <2>2. t \in Installing BY <1>2, <2>1, WhoIsAt
  <2>3. t # "sign" BY <2>2 DEF Installing, Direct, OnRefreshPage
  <2>4. QED BY <1>2, <2>1, <2>2, <2>3, WhoIsAt DEF Active
<1>6. r = [Mine(t) EXCEPT !.tls = TRUE] BY <1>3 DEF UpgradeToTls
<1>7. /\ r \in ClientStates /\ r.tls /\ r.dev = Mine(t).dev /\ r.used = Mine(t).used
      /\ r.lockdown = Mine(t).lockdown
  BY <1>5, <1>6 DEF Sound, ClientStates
<1>8. Mine(t).lockdown /\ IsTarget(Mine(t).dev, task[t].target)
  <2>1. CASE Mine(t).tls BY <1>1, <1>5, <2>1 DEF SessionOnTarget, Mine, Sound
  <2>2. CASE ~Mine(t).tls BY <1>2, <1>3, <1>5, <2>2, UpgradeOnTarget
  <2>3. QED BY <2>1, <2>2
<1>9. PICK x : Moves(t, x) /\ SameTask(t, x) /\ x.pc = pc BY <1>1, <1>2, <1>3, <1>4, TaskGoes
<1>10. Changes(task[t].c, r) BY <1>1, <1>3, <1>5, <1>7, ClientChanges
<1>11. PlaceOf(t, x) /\ Continues(t, x) BY <1>2, <1>4, <1>5, <1>9, NextPlace
<1>12. \A c \in Ids : client'[c].used = client[c].used
  BY <1>7, <1>10 DEF Changes, Mine
<1>13. PlacesOfFlows'
  <2>1. PlaceOf(t, x)' BY <1>5, <1>9, <1>11, <1>12 DEF PlaceOf, SameTask
  <2>2. QED BY <1>1, <1>9, <1>12, <2>1, PlacesKept
<1>14. ClientsOwned'
  <2>1. ref.main \in 0..MaxClients BY <1>1 DEF FlowTyped
  <2>2. QED BY <1>1, <1>2, <1>9, <1>11, <1>12, <2>1, OwnersKept DEF Continues
<1>15. ClientsConnected'
  <2>1. SUFFICES ASSUME NEW c \in Ids
                 PROVE  /\ client'[c].lockdown => client'[c].dev \in Devices
                        /\ client'[c].tls => client'[c].lockdown /\ client'[c].used
    BY DEF ClientsConnected
  <2>2. CASE c = task[t].c
    <3>1. Mine(t).used 
      BY <1>2, <1>5, WhoIsAt DEF PlaceOf, Mine, Active, Installing, Direct, OnRefreshPage
    <3>2. QED BY <1>5, <1>7, <1>8, <1>10, <2>2, <3>1 DEF Changes, Sound
  <2>3. CASE c # task[t].c BY <1>1, <1>10, <2>1, <2>3 DEF Changes, ClientsConnected
  <2>4. QED BY <2>2, <2>3
<1>16. SessionOnTarget'
  <2>1. SUFFICES ASSUME NEW u \in Installing, Active(u)', client'[task'[u].c].tls
                 PROVE  IsTarget(client[task[u].c].dev, task[u].target)'
    BY DEF SessionOnTarget
  <2>2. CASE u = t
    <3>1. task'[u].c = task[t].c /\ task'[u].target = task[t].target
      BY <1>9, <2>2 DEF Moves, SameTask
    <3>2. client'[task[t].c].dev = Mine(t).dev BY <1>7, <1>10 DEF Changes
    <3>3. QED BY <1>2, <1>8, <3>1, <3>2 DEF IsTarget
  <2>3. CASE u # t
    <3>1. task'[u] = task[u] /\ Active(u) BY <1>9, <2>1, <2>3 DEF Moves, Active
    <3>2. task[u].c # task[t].c BY <1>5, <2>3, <3>1, ClientsApart
    <3>3. task[u].c \in Ids
      BY <1>1, <3>1 DEF PlacesOfFlows, PlaceOf, Active, Installing, Direct, OnRefreshPage
    <3>4. client'[task[u].c] = client[task[u].c] BY <1>10, <3>2, <3>3 DEF Changes
    <3>5. IsTarget(client[task[u].c].dev, task[u].target)
      BY <1>1, <2>1, <3>1, <3>4 DEF SessionOnTarget
    <3>6. QED BY <1>2, <3>1, <3>4, <3>5 DEF IsTarget
  <2>4. QED BY <2>2, <2>3
<1>17. StreamsOwned'
  <2>1. \A s \in streams : s.t # t /\ s.c # task[t].c BY <1>2, <1>5, NoStreams
  <2>2. ASSUME NEW s \in streams, client[s.c].tls PROVE client'[s.c].tls
    <3>1. s.c \in Ids BY <1>1, <2>2 DEF FlowTyped, StreamStates
    <3>2. QED BY <1>10, <2>1, <2>2, <3>1 DEF Changes
  <2>3. streams' = streams BY <1>2
  <2>4. QED BY <1>1, <1>9, <2>1, <2>2, <2>3, StreamsKept
<1>18. CertsKnown' BY <1>1, <1>2, <1>9, CertsKept DEF SameTask
<1>19. InstalledOnTarget' BY <1>1, <1>2, DoneKept
<1>20. FlowTyped' BY <1>1, <1>2, <1>9, <1>10 DEF FlowTyped, Moves, Changes
<1>21. QED
  BY <1>13, <1>14, <1>15, <1>16, <1>17, <1>18, <1>19, <1>20 DEF FlowInv

\* A service's stream is opened over the encrypted session.
LEMMA ServiceKeeps ==
  ASSUME FlowInv, NEW t, Service(t, "afc", "afc", "proxy") \/ Service(t, "proxy", "proxy", "install")
  PROVE  FlowInv'
<1>1. /\ FlowTyped /\ PlacesOfFlows /\ ClientsOwned /\ ClientsConnected /\ CertsKnown
      /\ SessionOnTarget /\ StreamsOwned /\ InstalledOnTarget
  BY DEF FlowInv
<1>2. PICK s \in {"afc", "proxy"}, pc \in {"proxy", "install"} :
        streams' = streams \cup {Stream(t, s)} /\ Goes(t, pc)
  BY DEF Service
<1>3. /\ t \in DOMAIN task /\ task[t].pc \in {"afc", "proxy"} /\ Mine(t).tls
      /\ UNCHANGED <<client, ref, app, store, phone, done, count>>
  BY DEF Service, At, Tasks
<1>4. pc \in Places /\ pc \in InstallPlaces
      /\ pc \notin {"fresh reconnect", "trust", "check"}
  BY DEF Places, InstallPlaces
<1>5. t \in Installing /\ t \in AllTasks /\ task[t].c \in Ids /\ task[t].pc \in InstallPlaces
  <2>1. "afc" \in InstallPlaces /\ "proxy" \in InstallPlaces BY DEF InstallPlaces
  <2>2. t \in Installing BY <1>3, <2>1, WhoIsAt
  <2>3. t # "sign" BY <2>2 DEF Installing, Direct, OnRefreshPage
  <2>4. QED BY <1>3, <2>1, <2>2, <2>3, WhoIsAt
<1>6. PICK x : Moves(t, x) /\ SameTask(t, x) /\ x.pc = pc BY <1>1, <1>2, <1>3, <1>4, TaskGoes
<1>7. PlaceOf(t, x) /\ Continues(t, x) BY <1>3, <1>4, <1>5, <1>6, NextPlace
<1> DEFINE new == Stream(t, s)
<1>8. new \in StreamStates /\ new.t = t /\ new.c = task[t].c
  BY <1>5 DEF Stream, StreamStates
<1> HIDE DEF new
<1>9. streams' = streams \cup {new} BY <1>2 DEF new
<1>10. FlowTyped' BY <1>1, <1>3, <1>6, <1>8, <1>9 DEF FlowTyped, Moves, StreamStates
<1>11. PlacesOfFlows'
  <2>1. PlaceOf(t, x)' BY <1>3, <1>7 DEF PlaceOf
  <2>2. QED BY <1>1, <1>3, <1>6, <2>1, PlacesKept
<1>12. ClientsOwned'
  <2>1. ref.main \in 0..MaxClients BY <1>1 DEF FlowTyped
  <2>2. QED BY <1>1, <1>3, <1>6, <1>7, <2>1, OwnersKept DEF Continues
<1>13. ClientsConnected' BY <1>1, <1>3 DEF ClientsConnected
<1>14. ClientsFollow BY <1>1, <1>3, SameFollows
<1>15. SessionOnTarget' BY <1>1, <1>3, <1>6, <1>7, <1>14, SessionsKept DEF Continues
<1>16. CertsKnown' BY <1>1, <1>3, <1>6, CertsKept DEF SameTask
<1>17. InstalledOnTarget' BY <1>1, <1>3, DoneKept
<1>18. StreamsOwned'
  <2>1. SUFFICES ASSUME NEW e \in streams'
                 PROVE  /\ e.t \in Installing /\ e.t \in DOMAIN task'
                        /\ task'[e.t].pc \in {"proxy", "install"}
                        /\ e.c = task'[e.t].c /\ client'[e.c].tls
    BY DEF StreamsOwned
  <2>2. CASE e = new BY <1>3, <1>5, <1>6, <1>8, <2>2 DEF Moves, SameTask, Mine
  <2>3. CASE e \in streams BY <1>1, <1>3, <1>6, <2>3 DEF StreamsOwned, Moves, SameTask
  <2>4. QED BY <1>9, <2>1, <2>2, <2>3
<1>19. QED
  BY <1>10, <1>11, <1>12, <1>13, <1>15, <1>16, <1>17, <1>18 DEF FlowInv

\* Failures that end a task or send it to its next try with the client it has.
LEMMA FailuresKeep ==
  ASSUME FlowInv, NEW t, PairFails(t) \/ RefreshFails(t)
  PROVE  FlowInv'
<1>1. app \in [selected : Names, info : Names, prep : Names] BY DEF FlowInv, FlowTyped
<1>2. CASE PairFails(t)
  <2>1. /\ t \in DOMAIN task /\ task[t].pc \in {"udid", "pairing", "session"}
        /\ task' = [task EXCEPT ![t] = Idle]
        /\ UNCHANGED <<client, ref, app, store, phone, streams, done, count>>
    BY <1>2 DEF PairFails, Steps, Tasks
  <2>2. \A s \in streams' : s.t # t BY <2>1, NoStreams
  <2>3. QED BY <1>1, <2>1, <2>2, EndKeeps
<1>3. CASE RefreshFails(t)
  <2>1. /\ t \in DOMAIN task /\ Finally(t)
        /\ UNCHANGED <<client, ref, app, store, phone, done, count>>
        /\ \/ /\ t = "scan" /\ task[t].try < 3
              /\ task[t].pc \in {"connect", "start session", "tls", "retry reconnect"}
              /\ task' = [task EXCEPT ![t].try = @ + 1, ![t].pc = "retry reconnect"]
           \/ task' = [task EXCEPT ![t] = Idle]
    BY <1>3 DEF RefreshFails, Tasks
  <2>2. streams' \subseteq streams /\ \A s \in streams' : s.t # t BY <2>1 DEF Finally
  <2>3. CASE task' = [task EXCEPT ![t] = Idle] BY <1>1, <2>1, <2>2, <2>3, EndKeeps
  <2>4. CASE /\ task[t].try < 3
             /\ task[t].pc \in {"connect", "start session", "tls", "retry reconnect"}
             /\ task' = [task EXCEPT ![t].try = @ + 1, ![t].pc = "retry reconnect"]
    <3> DEFINE n == task[t].try + 1
               x == [task[t] EXCEPT !.try = n, !.pc = "retry reconnect"]
    <3>1. task' = [task EXCEPT ![t] = x] BY <2>4
    <3>2. task[t] \in TaskStates BY <2>1, WhoIsAt
    <3>3. n \in 0..3
      <4>1. task[t].try \in 0..3 BY <3>2 DEF TaskStates
      <4>2. task[t].try < 3 BY <2>4
      <4>3. QED BY <4>1, <4>2
    <3>4. "retry reconnect" \in Places BY DEF Places, InstallPlaces
    <3> HIDE DEF n
    <3>5. x \in TaskStates /\ x.pc = "retry reconnect" /\ SameTask(t, x)
      BY <3>2, <3>3, <3>4 DEF TaskStates, SameTask
    <3> HIDE DEF x
    <3>6. task[t].pc \in InstallPlaces /\ x.pc \in InstallPlaces
          /\ x.pc \notin {"fresh reconnect", "trust", "check"} /\ task[t].pc # "idle"
      BY <2>4, <3>5 DEF InstallPlaces
    <3>7. QED BY <1>1, <2>1, <2>2, <3>1, <3>5, <3>6, TurnKeeps
  <2>5. QED BY <2>1, <2>3, <2>4
<1>4. QED BY <1>2, <1>3

\* A task begins with a new client, or takes one in a later try, and the client
\* that was in the ref is closed or dropped.
LEMMA FreshKeeps ==
  ASSUME FlowInv, NEW t \in DOMAIN task, NEW which \in {"main", "refresh"},
         NEW c \in Ids, ~client[c].used, NEW x \in TaskStates, x.c = c,
         x.rec = {} \/ (x.rec = task[t].rec /\ x.target = task[t].target),
         task' = [task EXCEPT ![t] = x], ref' = [ref EXCEPT ![which] = c],
         client' \in [Ids -> ClientStates], client'[c] = NewClient,
         \A b \in Ids : b # c => Follows(client[b], client'[b]),
         streams' \subseteq streams, \A s \in streams' : s.t # t,
         \A s \in streams' : client[s.c].tls => client'[s.c].tls,
         UNCHANGED <<app, store, phone, done>>,
         PlaceOf(t, x)', x.pc # "idle",
         which = "refresh" <=> t \in OnRefreshPage,
         t \in Direct => \A u \in Direct : u # t => ~Active(u),
         which = "main" /\ t \notin Direct => ref.main = 0
  PROVE  FlowInv'
<1>1. /\ FlowTyped /\ PlacesOfFlows /\ ClientsOwned /\ ClientsConnected /\ CertsKnown
      /\ SessionOnTarget /\ StreamsOwned /\ InstalledOnTarget
  BY DEF FlowInv
<1>2. Moves(t, x) BY <1>1, TaskMoves
<1>3. /\ NewClient.used /\ ~NewClient.tls /\ ~NewClient.lockdown BY DEF NewClient
<1>4. \A b \in Ids : client[b].used => client'[b].used /\ b # c
  BY <1>3 DEF Follows
<1>5. /\ ref' \in [main : 0..MaxClients, refresh : 0..MaxClients]
      /\ ref'.main = IF which = "main" THEN c ELSE ref.main
  <2>1. c \in 0..MaxClients BY FlowAssumption DEF Ids
  <2>2. ref \in [main : 0..MaxClients, refresh : 0..MaxClients] BY <1>1 DEF FlowTyped
  <2>3. CASE which = "main" BY <2>1, <2>2, <2>3
  <2>4. CASE which = "refresh" BY <2>1, <2>2, <2>4
  <2>5. QED BY <2>3, <2>4
<1>6. FlowTyped' BY <1>1, <1>2, <1>5 DEF FlowTyped, Moves, StreamStates
<1>7. PlacesOfFlows' BY <1>1, <1>2, <1>4, PlacesKept
<1>8. ref.main # 0 => ref.main \in Ids /\ client[ref.main].used
  BY <1>1, FlowAssumption DEF FlowTyped, ClientsOwned, Ids
<1>9. \A u \in DOMAIN task : u # t => task'[u] = task[u] /\ (Active(u)' <=> Active(u))
  BY <1>2 DEF Moves, Active
<1>10. DOMAIN task' = DOMAIN task /\ task'[t].c = c /\ task'[t].pc = x.pc
  BY <1>2 DEF Moves
<1>11. \A u \in Installing : Active(u) =>
         task[u].c \in Ids /\ client[task[u].c].used /\ u \in DOMAIN task
  BY <1>1 DEF PlacesOfFlows, PlaceOf, Active, Installing, Direct, OnRefreshPage
<1>12. \A u \in DOMAIN task : Active(u) => task[u].c # c
  <2>1. ASSUME NEW u \in DOMAIN task, Active(u) PROVE task[u].c # c
    <3>1. CASE u = "sign"
      <4>1. PlaceOf(u, task[u]) BY <1>1, <2>1 DEF PlacesOfFlows
      <4>2. task[u].c = 0 BY <3>1, <4>1 DEF PlaceOf
      <4>3. 0 # c BY FlowAssumption DEF Ids
      <4>4. QED BY <4>2, <4>3
    <3>2. CASE u # "sign"
      BY <1>1, <1>4, <2>1, <3>2 DEF PlacesOfFlows, PlaceOf, Active
    <3>3. QED BY <3>1, <3>2
  <2>2. QED BY <2>1
<1>13. ClientsOwned'
  <2>1. ref'.main # 0 => client'[ref'.main].used
    <3>1. CASE which = "main" BY <1>3, <1>5, <3>1
    <3>2. CASE which # "main" BY <1>4, <1>5, <1>8, <3>2
    <3>3. QED BY <3>1, <3>2
  <2>2. ~(Active("install")' /\ Active("direct")')
    <3>1. CASE t \in Direct
      <4>1. \A u \in Direct : u # t => ~Active(u)' BY <1>9, <1>10, <3>1 DEF Active
      <4>2. QED BY <4>1 DEF Direct
    <3>2. CASE t \notin Direct
      BY <1>1, <1>9, <1>10, <3>2 DEF ClientsOwned, Direct, Active
    <3>3. QED BY <3>1, <3>2
  <2>3. ASSUME NEW u \in Direct, Active(u)' PROVE task'[u].c = ref'.main
    <3>1. CASE u = t
      <4>1. which = "main" BY <2>3, <3>1 DEF Direct, OnRefreshPage
      <4>2. QED BY <1>5, <1>10, <3>1, <4>1
    <3>2. CASE u # t
      <4>1. u \in DOMAIN task /\ Active(u) /\ task'[u] = task[u]
        BY <1>9, <1>10, <2>3, <3>2 DEF Active
      <4>2. t \notin Direct BY <2>3, <3>2, <4>1
      <4>3. task[u].c = ref.main /\ task[u].c \in Ids
        BY <1>1, <1>11, <2>3, <4>1 DEF ClientsOwned, Installing
      <4>4. ref.main # 0 BY <4>3, FlowAssumption DEF Ids
      <4>5. which # "main" BY <4>2, <4>4
      <4>6. QED BY <1>5, <4>1, <4>3, <4>5
    <3>3. QED BY <3>1, <3>2
  <2>4. ASSUME NEW u \in OnRefreshPage, Active(u)'
        PROVE  /\ task'[u].c # ref'.main
               /\ \A v \in DOMAIN task' : v # u /\ Active(v)' => task'[v].c # task'[u].c
    <3>1. CASE u = t
      <4>1. which = "refresh" /\ task'[u].c = c BY <1>10, <2>4, <3>1
      <4>2. c # ref'.main BY <1>4, <1>5, <1>8, <4>1, FlowAssumption DEF Ids
      <4>3. \A v \in DOMAIN task' : v # u /\ Active(v)' => task'[v].c # c
        BY <1>9, <1>10, <1>12, <3>1
      <4>4. QED BY <4>1, <4>2, <4>3
    <3>2. CASE u # t
      <4>1. u \in DOMAIN task /\ Active(u) /\ task'[u] = task[u]
        BY <1>9, <1>10, <2>4, <3>2 DEF Active
      <4>2. task[u].c # c /\ task[u].c # ref.main
        BY <1>1, <1>12, <2>4, <4>1 DEF ClientsOwned
      <4>3. task[u].c # ref'.main BY <1>5, <4>2
      <4>4. ASSUME NEW v \in DOMAIN task', v # u, Active(v)' PROVE task'[v].c # task[u].c
        <5>1. CASE v = t BY <1>10, <4>2, <5>1
        <5>2. CASE v # t
          <6>1. v \in DOMAIN task /\ Active(v) /\ task'[v] = task[v]
            BY <1>9, <1>10, <4>4, <5>2
          <6>2. QED BY <1>1, <2>4, <4>1, <4>4, <6>1 DEF ClientsOwned
        <5>3. QED BY <5>1, <5>2
      <4>5. QED BY <4>1, <4>3, <4>4
    <3>3. QED BY <3>1, <3>2
  <2>5. QED BY <2>1, <2>2, <2>3, <2>4 DEF ClientsOwned
<1>14. ClientsConnected'
  <2>1. SUFFICES ASSUME NEW b \in Ids
                 PROVE  /\ client'[b].lockdown => client'[b].dev \in Devices
                        /\ client'[b].tls => client'[b].lockdown /\ client'[b].used
    BY DEF ClientsConnected
  <2>2. CASE b = c BY <1>3, <2>2
  <2>3. CASE b # c BY <1>1, <2>1, <2>3 DEF Follows, ClientsConnected
  <2>4. QED BY <2>2, <2>3
<1>15. SessionOnTarget'
  <2>1. SUFFICES ASSUME NEW u \in Installing, Active(u)', client'[task'[u].c].tls
                 PROVE  IsTarget(client[task[u].c].dev, task[u].target)'
    BY DEF SessionOnTarget
  <2>2. u # t BY <1>3, <1>10, <2>1
  <2>3. /\ u \in DOMAIN task /\ Active(u) /\ task'[u] = task[u] /\ task[u].c \in Ids
        /\ task[u].c # c
    BY <1>9, <1>10, <1>11, <1>12, <2>1, <2>2 DEF Active
  <2>4. client[task[u].c].tls /\ client'[task[u].c].dev = client[task[u].c].dev
    BY <2>1, <2>3 DEF Follows
  <2>5. IsTarget(client[task[u].c].dev, task[u].target)
    BY <1>1, <2>3, <2>4 DEF SessionOnTarget
  <2>6. QED BY <2>3, <2>4, <2>5 DEF IsTarget
<1>16. StreamsOwned' BY <1>1, <1>2, StreamsKept
<1>17. CertsKnown' BY <1>1, <1>2, CertsKept
<1>18. InstalledOnTarget' BY <1>1, DoneKept
<1>19. QED
  BY <1>6, <1>7, <1>13, <1>14, <1>15, <1>16, <1>17, <1>18 DEF FlowInv

\* ensureClientSelected() with nothing selected: a new client takes the place of
\* the one in the ref, which is closed, and its streams end.
LEMMA FreshMade ==
  ASSUME FlowInv, NEW t, NEW which \in {"main", "refresh"}, NEW rec,
         FreshClient(t, which, rec)
  PROVE  \E c \in Ids :
           /\ ~client[c].used
           /\ client' \in [Ids -> ClientStates] /\ client'[c] = NewClient
           /\ \A b \in Ids : b # c => Follows(client[b], client'[b])
           /\ ref' = [ref EXCEPT ![which] = c]
           /\ streams' \subseteq streams
           /\ \A s \in streams' : client[s.c].tls => client'[s.c].tls
           /\ task' = [task EXCEPT ![t] = [rec EXCEPT !.c = c]]
<1>1. FlowTyped /\ ClientsConnected /\ StreamsOwned BY DEF FlowInv
<1>2. PICK c \in Fresh : \A b \in Fresh : c <= b /\
        /\ client' = [b2 \in Ids |-> IF b2 = c THEN NewClient
                                     ELSE IF b2 = ref[which] THEN Closed(client[b2])
                                     ELSE client[b2]]
        /\ ref' = [ref EXCEPT ![which] = c]
        /\ streams' = streams \ StreamsOf(ref[which])
        /\ task' = [task EXCEPT ![t] = [rec EXCEPT !.c = c]]
  BY DEF FreshClient
<1>3. /\ c \in Ids /\ ~client[c].used
      /\ client' = [b2 \in Ids |-> IF b2 = c THEN NewClient
                                   ELSE IF b2 = ref[which] THEN Closed(client[b2])
                                   ELSE client[b2]]
      /\ ref' = [ref EXCEPT ![which] = c]
      /\ streams' = streams \ StreamsOf(ref[which])
      /\ task' = [task EXCEPT ![t] = [rec EXCEPT !.c = c]]
  BY <1>2 DEF Fresh
<1>4. NewClient \in ClientStates BY DEF NewClient, ClientStates, Names, Hosts
<1>5. ASSUME NEW b \in Ids, b # c
      PROVE  client'[b] \in ClientStates /\ Follows(client[b], client'[b])
  <2>1. client[b] \in ClientStates BY <1>1, <1>5 DEF FlowTyped
  <2>2. CASE b = ref[which]
    <3>1. client'[b] = Closed(client[b]) BY <1>3, <1>5, <2>2
    <3>2. QED BY <1>1, <2>1, <3>1, CloseKeeps DEF Sound
  <2>3. CASE b # ref[which]
    <3>1. client'[b] = client[b] BY <1>3, <1>5, <2>3
    <3>2. QED BY <1>1, <1>5, <2>1, <3>1 DEF Follows, ClientsConnected
  <2>4. QED BY <2>2, <2>3
<1>6. client'[c] = NewClient BY <1>3
<1>7. client' \in [Ids -> ClientStates] BY <1>3, <1>4, <1>5, <1>6
<1>8. ASSUME NEW s \in streams', client[s.c].tls PROVE client'[s.c].tls
  <2>1. s \in streams /\ s.c # ref[which] BY <1>3, <1>8 DEF StreamsOf
  <2>2. s.c \in Ids BY <1>1, <2>1 DEF FlowTyped, StreamStates
  <2>3. client[s.c].used BY <1>1, <1>8, <2>2 DEF ClientsConnected
  <2>4. s.c # c BY <1>3, <2>3
  <2>5. client'[s.c] = client[s.c] BY <1>3, <2>1, <2>2, <2>4
  <2>6. QED BY <1>8, <2>5
<1>9. QED BY <1>3, <1>5, <1>6, <1>7, <1>8

\* An installation, a scan or a refresh begins.
LEMMA InstallBegins ==
  ASSUME FlowInv, NEW t, StartInstall(t) \/ StartRefresh(t)
  PROVE  FlowInv'
<1>1. FlowTyped BY DEF FlowInv
<1>2. /\ t \in DOMAIN task /\ task[t].pc = "idle" /\ app.selected # None
      /\ t \in Direct => \A u \in Direct : u # t => ~Active(u)
      /\ UNCHANGED <<app, store, phone, done>>
  BY DEF StartInstall, StartRefresh, At, Tasks, Busy, Active, Direct, OnRefreshPage
<1>3. /\ app.selected \in Devices /\ app.selected \in Names
      /\ app.info \in Names /\ app.prep \in Names
  BY <1>1, <1>2 DEF FlowTyped, Names
<1>4. Idle \in TaskStates /\ Idle.rec = {} /\ 1 \in 0..3
  BY FlowAssumption DEF Idle, TaskStates, Names, Hosts, Places
<1>5. PICK rec \in TaskStates, which \in {"main", "refresh"} :
        /\ FreshClient(t, which, rec) /\ rec.rec = {} /\ rec.target = app.selected
        /\ \/ which = "main" /\ t \in Direct /\ rec.pc = "fresh reconnect"
           \/ which = "refresh" /\ t \in OnRefreshPage /\ rec.pc \in {"load", "signing"}
  <2>1. CASE StartInstall(t)
    <3> DEFINE y == [Idle EXCEPT !.pc = "fresh reconnect", !.target = app.selected,
                       !.info = app.info, !.prep = app.prep, !.try = 1]
    <3>1. FreshClient(t, "main", y) /\ t \in Direct BY <2>1 DEF StartInstall, Direct
    <3>2. "fresh reconnect" \in Places BY DEF Places, InstallPlaces
    <3>3. /\ y \in TaskStates /\ y.rec = {} /\ y.target = app.selected
          /\ y.pc = "fresh reconnect"
      BY <1>3, <1>4, <3>2 DEF TaskStates
    <3> HIDE DEF y
    <3>4. QED BY <3>1, <3>3
  <2>2. CASE StartRefresh(t)
    <3> DEFINE pc == IF t = "scan" THEN "load" ELSE "signing"
               y == [Idle EXCEPT !.pc = pc, !.target = app.selected, !.try = 1]
    <3>1. FreshClient(t, "refresh", y) /\ t \in OnRefreshPage
      BY <2>2 DEF StartRefresh, OnRefreshPage
    <3>2. pc \in {"load", "signing"} /\ pc \in Places BY DEF Places, InstallPlaces
    <3> HIDE DEF pc
    <3>3. /\ y \in TaskStates /\ y.rec = {} /\ y.target = app.selected /\ y.pc = pc
      BY <1>3, <1>4, <3>2 DEF TaskStates
    <3> HIDE DEF y
    <3>4. QED BY <3>1, <3>2, <3>3
  <2>3. QED BY <2>1, <2>2
<1>6. PICK c \in Ids :
        /\ ~client[c].used
        /\ client' \in [Ids -> ClientStates] /\ client'[c] = NewClient
        /\ \A b \in Ids : b # c => Follows(client[b], client'[b])
        /\ ref' = [ref EXCEPT ![which] = c]
        /\ streams' \subseteq streams
        /\ \A s \in streams' : client[s.c].tls => client'[s.c].tls
        /\ task' = [task EXCEPT ![t] = [rec EXCEPT !.c = c]]
  <2>1. FreshClient(t, which, rec) /\ which \in {"main", "refresh"} BY <1>5
  <2>2. QED BY <2>1, FreshMade
<1> DEFINE x == [rec EXCEPT !.c = c]
<1>7. c \in 0..MaxClients BY FlowAssumption DEF Ids
<1>8. /\ x \in TaskStates /\ x.c = c /\ x.rec = {} /\ x.pc = rec.pc
      /\ x.target = rec.target
  BY <1>5, <1>7 DEF TaskStates
<1>9. task' = [task EXCEPT ![t] = x] BY <1>6
<1> HIDE DEF x
<1>10. PlaceOf(t, x)'
  <2>1. client'[c].used BY <1>6 DEF NewClient
  <2>2. x.target \in Devices BY <1>3, <1>5, <1>8
  <2>3. x.pc \notin PairPlaces \cup {"trust", "check"} BY <1>5, <1>8 DEF PairPlaces
  <2>4. QED
    BY <1>5, <1>8, <2>1, <2>2, <2>3
    DEF PlaceOf, PairPlaces, Direct, OnRefreshPage, Installing
<1>11. \A s \in streams' : s.t # t
  <2>1. \A s \in streams : s.t # t BY <1>2, NoStreams
  <2>2. QED BY <1>6, <2>1
<1>12. which = "refresh" <=> t \in OnRefreshPage BY <1>5 DEF Direct, OnRefreshPage
<1>13. ~(which = "main" /\ t \notin Direct) BY <1>5
<1>14. x.pc # "idle" BY <1>5, <1>8
<1>15. QED BY <1>2, <1>6, <1>8, <1>9, <1>10, <1>11, <1>12, <1>13, <1>14, FreshKeeps

\* A pair flow begins with the client of the main ref, or a signing with none.
LEMMA BeginKeeps ==
  ASSUME FlowInv, NEW t \in DOMAIN task, NEW x \in TaskStates, task[t].pc = "idle",
         t \notin Installing, task' = [task EXCEPT ![t] = x], x.rec = {}, PlaceOf(t, x),
         t = "sign" \/ x.c = ref.main,
         UNCHANGED <<client, ref, app, store, phone, streams, done>>
  PROVE  FlowInv'
<1>1. /\ FlowTyped /\ PlacesOfFlows /\ ClientsOwned /\ ClientsConnected /\ CertsKnown
      /\ SessionOnTarget /\ StreamsOwned /\ InstalledOnTarget
  BY DEF FlowInv
<1>2. Moves(t, x) BY <1>1, TaskMoves
<1>3. FlowTyped' BY <1>1, <1>2 DEF FlowTyped, Moves, StreamStates
<1>4. PlaceOf(t, x)' BY DEF PlaceOf
<1>5. PlacesOfFlows' BY <1>1, <1>2, <1>4, PlacesKept
<1>6. /\ DOMAIN task' = DOMAIN task /\ task'[t] = x
      /\ \A u \in DOMAIN task : u # t => task'[u] = task[u] /\ (Active(u)' <=> Active(u))
  BY <1>2 DEF Moves, Active
<1>7. ClientsOwned'
  <2>1. ~(Active("install")' /\ Active("direct")')
    BY <1>1, <1>6 DEF ClientsOwned, Installing, Direct, Active
  <2>2. \A u \in Direct : Active(u)' => task'[u].c = ref'.main
    BY <1>1, <1>6 DEF ClientsOwned, Installing, Active
  <2>3. ASSUME NEW u \in OnRefreshPage, Active(u)'
        PROVE  /\ task'[u].c # ref'.main
               /\ \A v \in DOMAIN task' : v # u /\ Active(v)' => task'[v].c # task'[u].c
    <3>1. u # t /\ u \in DOMAIN task /\ Active(u) /\ task'[u] = task[u] /\ u # "sign"
      BY <1>6, <2>3 DEF Installing, Active, OnRefreshPage
    <3>2. task[u].c # ref.main BY <1>1, <2>3, <3>1 DEF ClientsOwned
    <3>3. x.c # task[u].c
      <4>1. CASE t = "sign"
        <5>1. x.c = 0 BY <4>1 DEF PlaceOf
        <5>2. task[u].c \in Ids BY <3>1, WhoIsAt DEF Active
        <5>3. QED BY <5>1, <5>2, FlowAssumption DEF Ids
      <4>2. CASE x.c = ref.main BY <3>2, <4>2
      <4>3. QED BY <4>1, <4>2
    <3>4. ASSUME NEW v \in DOMAIN task', v # u, Active(v)' PROVE task'[v].c # task[u].c
      <4>1. CASE v = t BY <1>6, <3>3, <4>1
      <4>2. CASE v # t
        BY <1>1, <1>6, <2>3, <3>1, <3>4, <4>2 DEF ClientsOwned
      <4>3. QED BY <4>1, <4>2
    <3>5. QED BY <3>1, <3>2, <3>4
  <2>4. ref'.main # 0 => client'[ref'.main].used BY <1>1 DEF ClientsOwned
  <2>5. QED BY <2>1, <2>2, <2>3, <2>4 DEF ClientsOwned
<1>8. ClientsConnected' BY <1>1 DEF ClientsConnected
<1>9. SessionOnTarget' BY <1>1, <1>2, SameFollows, SessionsKept
<1>10. \A s \in streams' : s.t # t BY NoStreams
<1>11. StreamsOwned' BY <1>1, <1>2, <1>10, StreamsKept
<1>12. CertsKnown' BY <1>1, <1>2, CertsKept
<1>13. InstalledOnTarget' BY <1>1, DoneKept
<1>14. QED
  BY <1>3, <1>5, <1>7, <1>8, <1>9, <1>11, <1>12, <1>13 DEF FlowInv

\* The handlers of a pairing and of a signing.
LEMMA PairBegins ==
  ASSUME FlowInv, NEW t, StartPair(t)
  PROVE  FlowInv'
<1>1. FlowTyped /\ ClientsOwned BY DEF FlowInv
<1>2. /\ t \in DOMAIN task /\ task[t].pc = "idle" /\ t \in {"pair", "pairing page"}
      /\ UNCHANGED <<app, store, phone, done>>
  BY DEF StartPair, At, Tasks
<1>3. /\ t \notin Installing /\ t \notin Direct /\ t \notin OnRefreshPage /\ t # "sign"
  BY <1>2 DEF Installing, Direct, OnRefreshPage
<1> DEFINE rec == [Idle EXCEPT !.pc = "udid"]
<1>4. Idle \in TaskStates /\ Idle.rec = {}
  BY FlowAssumption DEF Idle, TaskStates, Names, Hosts, Places
<1>5. "udid" \in Places /\ "udid" \in PairPlaces BY DEF Places, PairPlaces
<1>6. rec \in TaskStates /\ rec.rec = {} /\ rec.pc = "udid"
  BY <1>4, <1>5 DEF TaskStates
<1>7. CASE ref.main # 0
  <2> DEFINE x == [Idle EXCEPT !.pc = "udid", !.c = ref.main]
  <2>1. task' = [task EXCEPT ![t] = x] /\ UNCHANGED <<client, ref, streams>>
    BY <1>7 DEF StartPair
  <2>2. ref.main \in 0..MaxClients /\ ref.main \in Ids /\ client[ref.main].used
    BY <1>1, <1>7, FlowAssumption DEF FlowTyped, ClientsOwned, Ids
  <2>3. x \in TaskStates /\ x.rec = {} /\ x.pc = "udid" /\ x.c = ref.main
    BY <1>4, <1>5, <2>2 DEF TaskStates
  <2> HIDE DEF x
  <2>4. PlaceOf(t, x) BY <1>3, <1>5, <2>2, <2>3 DEF PlaceOf
  <2>5. QED BY <1>2, <1>3, <2>1, <2>3, <2>4, BeginKeeps
<1>8. CASE ref.main = 0
  <2>1. FreshClient(t, "main", rec) BY <1>8 DEF StartPair
  <2> HIDE DEF rec
  <2>2. PICK c \in Ids :
          /\ ~client[c].used
          /\ client' \in [Ids -> ClientStates] /\ client'[c] = NewClient
          /\ \A b \in Ids : b # c => Follows(client[b], client'[b])
          /\ ref' = [ref EXCEPT !["main"] = c]
          /\ streams' \subseteq streams
          /\ \A s \in streams' : client[s.c].tls => client'[s.c].tls
          /\ task' = [task EXCEPT ![t] = [rec EXCEPT !.c = c]]
    BY <2>1, FreshMade
  <2> DEFINE x == [rec EXCEPT !.c = c]
  <2>3. c \in 0..MaxClients BY FlowAssumption DEF Ids
  <2>4. x \in TaskStates /\ x.c = c /\ x.rec = {} /\ x.pc = "udid"
    BY <1>6, <2>3 DEF TaskStates
  <2>5. task' = [task EXCEPT ![t] = x] BY <2>2
  <2> HIDE DEF x
  <2>6. PlaceOf(t, x)'
    <3>1. client'[c].used BY <2>2 DEF NewClient
    <3>2. QED BY <1>3, <1>5, <2>4, <3>1 DEF PlaceOf
  <2>7. \A s \in streams' : s.t # t
    <3>1. \A s \in streams : s.t # t BY <1>2, NoStreams
    <3>2. QED BY <2>2, <3>1
  <2>8. "main" \in {"main", "refresh"} /\ "main" # "refresh" OBVIOUS
  <2>9. QED BY <1>2, <1>3, <1>8, <2>2, <2>4, <2>5, <2>6, <2>7, <2>8, FreshKeeps
<1>9. QED BY <1>7, <1>8

\* A signing that begins keeps the invariant: it has no client.
LEMMA SignBegins ==
  ASSUME FlowInv, StartSign
  PROVE  FlowInv'
<1>1. FlowTyped BY DEF FlowInv
<1> DEFINE t == "sign"
           x == [Idle EXCEPT !.pc = "signing", !.target = app.selected]
<1>2. /\ t \in DOMAIN task /\ task[t].pc = "idle" /\ task' = [task EXCEPT ![t] = x]
      /\ UNCHANGED <<client, ref, app, store, phone, streams, done, count>>
  BY DEF StartSign, At, Tasks
<1>3. t = "sign" OBVIOUS
<1>4. Idle \in TaskStates /\ Idle.rec = {} /\ Idle.c = 0
  BY FlowAssumption DEF Idle, TaskStates, Names, Hosts, Places
<1>5. app.selected \in Names /\ "signing" \in Places BY <1>1 DEF FlowTyped, Places
<1>6. x \in TaskStates /\ x.rec = {} /\ x.pc = "signing" /\ x.c = 0
  BY <1>4, <1>5 DEF TaskStates
<1> HIDE DEF t, x
<1>7. PlaceOf(t, x) /\ t \notin Installing
  BY <1>3, <1>6 DEF PlaceOf, Installing, Direct, OnRefreshPage
<1>8. QED BY <1>2, <1>3, <1>6, <1>7, BeginKeeps

\* An installation's step rejects: it ends, or goes on with the client it has or
\* with a new one.
LEMMA InstallFailsKeeps ==
  ASSUME FlowInv, NEW t, InstallFails(t)
  PROVE  FlowInv'
<1>1. FlowTyped /\ ClientsOwned /\ ClientsConnected /\ StreamsOwned BY DEF FlowInv
<1>2. /\ t \in DOMAIN task /\ t \in Direct /\ Finally(t)
      /\ task[t].pc \in InstallSteps \cup {"retry reconnect"}
      /\ UNCHANGED <<app, store, phone, done, count>>
      /\ \/ /\ task' = [task EXCEPT ![t].try = 2, ![t].pc = "retry reconnect"]
            /\ UNCHANGED <<client, ref>>
         \/ \E c \in Fresh : \A b \in Fresh : c <= b /\
              /\ client' = [client EXCEPT ![c] = NewClient]
              /\ ref' = [ref EXCEPT !.main = c]
              /\ task' = [task EXCEPT ![t].try = 3, ![t].pc = "load", ![t].c = c]
         \/ task' = [task EXCEPT ![t] = Idle] /\ UNCHANGED <<client, ref>>
  BY DEF InstallFails, Tasks, Direct
<1>3. streams' \subseteq streams /\ \A s \in streams' : s.t # t BY <1>2 DEF Finally
<1>4. app' \in [selected : Names, info : Names, prep : Names]
  BY <1>1, <1>2 DEF FlowTyped
<1>5. /\ task[t] \in TaskStates /\ PlaceOf(t, task[t]) /\ task[t].pc # "idle"
      /\ t \in Installing /\ t \notin OnRefreshPage
  BY <1>2, WhoIsAt DEF InstallSteps, Installing, Direct, OnRefreshPage
<1>6. /\ "retry reconnect" \in InstallPlaces /\ "retry reconnect" \in Places
      /\ "load" \in InstallPlaces /\ "load" \in Places /\ 2 \in 0..3 /\ 3 \in 0..3
  BY DEF Places, InstallPlaces
<1>7. CASE task' = [task EXCEPT ![t].try = 2, ![t].pc = "retry reconnect"]
           /\ UNCHANGED <<client, ref>>
  <2> DEFINE x == [task[t] EXCEPT !.try = 2, !.pc = "retry reconnect"]
  <2>1. task' = [task EXCEPT ![t] = x] BY <1>7
  <2>2. x \in TaskStates /\ x.pc = "retry reconnect" /\ SameTask(t, x)
    BY <1>5, <1>6 DEF TaskStates, SameTask
  <2> HIDE DEF x
  <2>3. QED BY <1>2, <1>3, <1>4, <1>5, <1>6, <1>7, <2>1, <2>2, TurnKeeps
<1>8. CASE task' = [task EXCEPT ![t] = Idle] /\ UNCHANGED <<client, ref>>
  BY <1>2, <1>3, <1>4, <1>8, EndKeeps
<1>9. ASSUME NEW c \in Fresh, client' = [client EXCEPT ![c] = NewClient],
             ref' = [ref EXCEPT !.main = c],
             task' = [task EXCEPT ![t].try = 3, ![t].pc = "load", ![t].c = c]
      PROVE  FlowInv'
  <2>1. c \in Ids /\ ~client[c].used /\ c \in 0..MaxClients
    BY FlowAssumption DEF Fresh, Ids
  <2>2. NewClient \in ClientStates BY DEF NewClient, ClientStates, Names, Hosts
  <2> DEFINE new == NewClient
  <2>3. new \in ClientStates /\ client' = [client EXCEPT ![c] = new] BY <1>9, <2>2
  <2>4. new.used BY DEF NewClient
  <2> HIDE DEF new
  <2>5. Changes(c, new) BY <1>1, <2>1, <2>3, ClientChanges
  <2>6. \A b \in Ids : b # c => Follows(client[b], client'[b])
    BY <1>1, <2>5 DEF Changes, Follows, ClientsConnected
  <2> DEFINE again == [task[t] EXCEPT !.try = 3, !.pc = "load", !.c = c]
  <2>7. /\ task' = [task EXCEPT ![t] = again]
        /\ again \in TaskStates /\ again.pc = "load" /\ again.c = c
        /\ again.rec = task[t].rec /\ again.target = task[t].target
    BY <1>5, <1>6, <1>9, <2>1 DEF TaskStates
  <2> HIDE DEF again
  <2>8. PICK x \in TaskStates :
          /\ task' = [task EXCEPT ![t] = x] /\ x.pc = "load" /\ x.c = c
          /\ x.rec = task[t].rec /\ x.target = task[t].target
    BY <2>7
  <2>9. PlaceOf(t, x)'
    <3>1. client'[c].used BY <2>4, <2>5 DEF Changes
    <3>2. x.target \in Devices BY <1>5, <2>8 DEF PlaceOf
    <3>3. t # "sign" /\ t \notin {"pair", "pairing page"} BY <1>2 DEF Direct
    <3>4. QED BY <1>5, <2>1, <2>8, <3>1, <3>2, <3>3 DEF PlaceOf
  <2>10. \A u \in Direct : u # t => ~Active(u)
    <3>1. Active(t) BY <1>2, <1>5 DEF Active
    <3>2. QED BY <1>1, <1>2, <3>1 DEF ClientsOwned, Direct
  <2>11. \A s \in streams' : client[s.c].tls => client'[s.c].tls
    <3>1. SUFFICES ASSUME NEW s \in streams', client[s.c].tls PROVE client'[s.c].tls
      OBVIOUS
    <3>2. s.c \in Ids BY <1>1, <1>3, <3>1 DEF FlowTyped, StreamStates
    <3>3. s.c # c BY <1>1, <2>1, <3>1, <3>2 DEF ClientsConnected
    <3>4. QED BY <2>5, <3>1, <3>2, <3>3 DEF Changes
  <2>12. ref' = [ref EXCEPT !["main"] = c] BY <1>9
  <2>13. client'[c] = NewClient /\ client' \in [Ids -> ClientStates]
    BY <2>5 DEF Changes, new
  <2>14. "main" \in {"main", "refresh"} /\ "main" # "refresh" /\ x.pc # "idle" BY <2>8
  <2>15. QED
    BY <1>2, <1>3, <1>5, <2>1, <2>6, <2>7, <2>8, <2>9, <2>10, <2>11, <2>12, <2>13, <2>14,
       FreshKeeps
<1>10. QED BY <1>2, <1>7, <1>8, <1>9

-----------------------------------------------------------------------------
(* The user and the cables, and what the flows start from.                 *)

\* No cable and no choice of the user changes what has been agreed.
LEMMA OutsideKeeps ==
  ASSUME FlowInv, NEW d \in Devices, Unplug(d) \/ Replug(d) \/ SelectTarget(d)
  PROVE  FlowInv'
<1>1. /\ FlowTyped /\ PlacesOfFlows /\ ClientsOwned /\ ClientsConnected /\ CertsKnown
      /\ SessionOnTarget /\ StreamsOwned /\ InstalledOnTarget
  BY DEF FlowInv
<1>2. UNCHANGED <<ref, task, store, streams, done>>
  BY DEF Unplug, Replug, SelectTarget
<1>3. /\ client' \in [Ids -> ClientStates]
      /\ \A c \in Ids : /\ client'[c].used = client[c].used
                        /\ client'[c].tls = client[c].tls
                        /\ client'[c].lockdown = client[c].lockdown
                        /\ client'[c].dev = client[c].dev
  <2>1. client \in [Ids -> ClientStates] BY <1>1 DEF FlowTyped
  <2>2. CASE Unplug(d)
    <3>1. client' = [c \in Ids |-> IF client[c].dev = d THEN [client[c] EXCEPT !.dead = TRUE]
                                   ELSE client[c]]
      BY <2>2 DEF Unplug
    <3>2. ASSUME NEW c \in Ids
          PROVE  /\ client'[c] \in ClientStates /\ client'[c].used = client[c].used
                 /\ client'[c].tls = client[c].tls
                 /\ client'[c].lockdown = client[c].lockdown
                 /\ client'[c].dev = client[c].dev
      <4>1. client[c] \in ClientStates BY <2>1
      <4>2. client'[c] = [client[c] EXCEPT !.dead = TRUE] \/ client'[c] = client[c]
        BY <3>1
      <4>3. QED BY <4>1, <4>2 DEF ClientStates
    <3>3. QED BY <3>1, <3>2
  <2>3. CASE client' = client BY <2>1, <2>3
  <2>4. QED BY <2>2, <2>3 DEF Replug, SelectTarget
<1>4. /\ phone' \in [Devices -> [plugged : BOOLEAN, pairings : SUBSET Pairings]]
      /\ \A e \in Devices : phone'[e].pairings = phone[e].pairings
  <2>1. phone \in [Devices -> [plugged : BOOLEAN, pairings : SUBSET Pairings]]
    BY <1>1 DEF FlowTyped
  <2>2. CASE phone' = phone BY <2>1, <2>2
  <2>3. ASSUME NEW b \in BOOLEAN, phone' = [phone EXCEPT ![d].plugged = b]
        PROVE  /\ phone' \in [Devices -> [plugged : BOOLEAN, pairings : SUBSET Pairings]]
               /\ \A e \in Devices : phone'[e].pairings = phone[e].pairings
    BY <2>1, <2>3
  <2>4. \/ phone' = [phone EXCEPT ![d].plugged = FALSE]
        \/ phone' = [phone EXCEPT ![d].plugged = TRUE]
        \/ phone' = phone
    BY DEF Unplug, Replug, SelectTarget
  <2>5. QED BY <2>2, <2>3, <2>4
<1>5. app' \in [selected : Names, info : Names, prep : Names]
  <2>1. app \in [selected : Names, info : Names, prep : Names] BY <1>1 DEF FlowTyped
  <2>2. d \in Names /\ None \in Names BY DEF Names
  <2>3. app' = app \/ app' = [app EXCEPT !.selected = d, !.prep = None]
    BY DEF Unplug, Replug, SelectTarget
  <2>4. QED BY <2>1, <2>2, <2>3
<1>6. FlowTyped' BY <1>1, <1>2, <1>3, <1>4, <1>5 DEF FlowTyped
<1>7. PlacesOfFlows'
  <2>1. ASSUME NEW t \in DOMAIN task PROVE PlaceOf(t, task[t])'
    <3>1. PlaceOf(t, task[t]) BY <1>1, <2>1 DEF PlacesOfFlows
    <3>2. QED BY <1>2, <1>3, <3>1 DEF PlaceOf
  <2>2. QED BY <1>2, <2>1 DEF PlacesOfFlows
<1>8. ref.main # 0 => ref.main \in Ids
  BY <1>1, FlowAssumption DEF FlowTyped, Ids
<1>9. ClientsOwned' BY <1>1, <1>2, <1>3, <1>8 DEF ClientsOwned, Active
<1>10. ClientsConnected' BY <1>1, <1>3 DEF ClientsConnected
<1>11. SessionOnTarget'
  <2>1. SUFFICES ASSUME NEW t \in Installing, Active(t)', client'[task'[t].c].tls
                 PROVE  IsTarget(client[task[t].c].dev, task[t].target)'
    BY DEF SessionOnTarget
  <2>2. Active(t) /\ task' = task BY <1>2, <2>1 DEF Active
  <2>3. task[t].c \in Ids
    BY <1>1, <2>2 DEF PlacesOfFlows, PlaceOf, Active, Installing, Direct, OnRefreshPage
  <2>4. client[task[t].c].tls /\ client'[task[t].c].dev = client[task[t].c].dev
    BY <1>3, <2>1, <2>2, <2>3
  <2>5. IsTarget(client[task[t].c].dev, task[t].target)
    BY <1>1, <2>2, <2>4 DEF SessionOnTarget
  <2>6. QED BY <1>2, <2>4, <2>5 DEF IsTarget
<1>12. StreamsOwned'
  <2>1. \A s \in streams : s.c \in Ids BY <1>1 DEF FlowTyped, StreamStates
  <2>2. QED BY <1>1, <1>2, <1>3, <2>1 DEF StreamsOwned
<1>13. CertsKnown' BY <1>1, <1>2, <1>4 DEF CertsKnown, MeantFor
<1>14. InstalledOnTarget' BY <1>1, <1>2 DEF InstalledOnTarget
<1>15. QED
  BY <1>6, <1>7, <1>9, <1>10, <1>11, <1>12, <1>13, <1>14 DEF FlowInv

\* Each pairing from before was made with the device that has it.
LEMMA FlowBegins == FlowInit => FlowInv
<1> SUFFICES ASSUME FlowInit PROVE FlowInv OBVIOUS
<1>1. /\ client = [c \in Ids |-> [NewClient EXCEPT !.used = FALSE]]
      /\ ref = Refs /\ app = [selected |-> None, info |-> None, prep |-> None]
      /\ streams = {} /\ done = {}
  BY DEF FlowInit
<1>2. PICK ts \in TaskSets : task = [t \in ts |-> Idle] BY DEF FlowInit
<1>3. DOMAIN task = ts /\ ts \subseteq AllTasks BY <1>2, FlowAssumption
<1>4. Idle \in TaskStates /\ Idle.rec = {} /\ Idle.pc = "idle" /\ Idle.c = 0
  BY FlowAssumption DEF Idle, TaskStates, Names, Hosts, Places
<1>5. \A t \in ts : task[t] = Idle BY <1>2
<1>6. PICK kept \in Kept :
        LET p(d) == IF kept[d] = None THEN {} ELSE {Pairing(kept[d], <<d, 0>>, d)} IN
        /\ store = [host |-> "this", certs |-> 0, mixed |-> {},
                    records |-> [d \in Devices |-> p(d)]]
        /\ phone = [d \in Devices |-> [plugged |-> TRUE, pairings |-> p(d)]]
  BY DEF FlowInit
<1> DEFINE p(d) == IF kept[d] = None THEN {} ELSE {Pairing(kept[d], <<d, 0>>, d)}
           records == [d \in Devices |-> p(d)]
<1>7. /\ store = [host |-> "this", certs |-> 0, mixed |-> {}, records |-> records]
      /\ phone = [d \in Devices |-> [plugged |-> TRUE, pairings |-> p(d)]]
  BY <1>6
<1>8. ASSUME NEW d \in Devices
      PROVE  p(d) \in SUBSET Pairings /\ \A q \in p(d) : q.cert[1] = d /\ q.dev = d
  <2>1. kept \in [Devices -> {None, "this", "other"}] BY FlowAssumption
  <2>2. kept[d] \in Hosts BY <2>1 DEF Hosts
  <2> DEFINE q == Pairing(kept[d], <<d, 0>>, d)
  <2>3. <<d, 0>> \in Devices \X Nat BY <1>8
  <2>4. q \in Pairings BY <1>8, <2>2, <2>3 DEF Pairing, Pairings
  <2>5. q.cert[1] = d /\ q.dev = d BY DEF Pairing
  <2> HIDE DEF q
  <2>6. p(d) \subseteq {q} BY DEF q
  <2>7. QED BY <2>4, <2>5, <2>6
<1> HIDE DEF p
<1>9. records \in [Devices -> SUBSET Pairings] /\ \A d \in Devices : records[d] = p(d)
  BY <1>8
<1>10. /\ phone \in [Devices -> [plugged : BOOLEAN, pairings : SUBSET Pairings]]
       /\ \A d \in Devices : phone[d].pairings = p(d)
  BY <1>7, <1>8
<1> HIDE DEF records
<1>11. /\ store \in [host : Hosts, certs : Nat, mixed : SUBSET Devices,
                     records : [Devices -> SUBSET Pairings]]
       /\ store.records = records
  BY <1>7, <1>9 DEF Hosts
<1>12. /\ client \in [Ids -> ClientStates]
       /\ \A c \in Ids : ~client[c].lockdown /\ ~client[c].tls
  <2> DEFINE new == [NewClient EXCEPT !.used = FALSE]
  <2>1. new \in ClientStates /\ ~new.lockdown /\ ~new.tls
    BY DEF NewClient, ClientStates, Names, Hosts
  <2>2. client = [c \in Ids |-> new] BY <1>1
  <2> HIDE DEF new
  <2>3. QED BY <2>1, <2>2
<1>13. /\ ref \in [main : 0..MaxClients, refresh : 0..MaxClients] /\ ref.main = 0
  BY <1>1, FlowAssumption DEF Refs
<1>14. app \in [selected : Names, info : Names, prep : Names] BY <1>1 DEF Names
<1>15. task \in [DOMAIN task -> TaskStates] BY <1>2, <1>3, <1>4
<1>16. FlowTyped
  BY <1>1, <1>3, <1>10, <1>11, <1>12, <1>13, <1>14, <1>15 DEF FlowTyped
<1>17. PlacesOfFlows
  BY <1>3, <1>4, <1>5 DEF PlacesOfFlows, PlaceOf, PairPlaces
<1>18. \A t : ~Active(t) BY <1>3, <1>4, <1>5 DEF Active
<1>19. ClientsOwned /\ SessionOnTarget
  BY <1>13, <1>18 DEF ClientsOwned, SessionOnTarget
<1>20. ClientsConnected BY <1>12 DEF ClientsConnected
<1>21. CertsKnown
  BY <1>3, <1>4, <1>5, <1>8, <1>9, <1>10, <1>11 DEF CertsKnown, MeantFor
<1>22. StreamsOwned /\ InstalledOnTarget BY <1>1 DEF StreamsOwned, InstalledOnTarget
<1>23. QED BY <1>16, <1>17, <1>19, <1>20, <1>21, <1>22 DEF FlowInv

\* Each step keeps the invariant.
LEMMA FlowKeeps == FlowInv /\ [FlowNext]_flowVars => FlowInv'
<1>1. SUFFICES ASSUME FlowInv, [FlowNext]_flowVars PROVE FlowInv' OBVIOUS
<1>2. ASSUME NEW t \in Tasks, FlowStep(t) PROVE FlowInv'
  <2>1. CASE StartPair(t) BY <1>1, <2>1, PairBegins
  <2>2. CASE PairUdid(t) BY <1>1, <2>2, UdidKeeps
  <2>3. CASE PairChoose(t) BY <1>1, <2>3, ChooseKeeps
  <2>4. CASE PairRequest(t) BY <1>1, <2>4, PairKeeps
  <2>5. CASE PairDone(t) BY <1>1, <2>5, PairDoneKeeps
  <2>6. CASE FreshReconnect(t) BY <1>1, <2>6, ReconnectKeeps
  <2>7. CASE Trust(t) \/ CheckTarget(t) BY <1>1, <2>7, ChecksKeep
  <2>8. CASE LoadRecord(t) BY <1>1, <2>8, LoadKeeps
  <2>9. CASE PairSession(t) \/ ConnectStep(t) \/ SessionStep(t) \/ RetryReconnect(t)
    BY <1>1, <2>9, CallsKeep
  <2>10. CASE TlsStep(t) BY <1>1, <2>10, TlsKeeps
  <2>11. CASE Service(t, "afc", "afc", "proxy") \/ Service(t, "proxy", "proxy", "install")
    BY <1>1, <2>11, ServiceKeeps
  <2>12. CASE InstallIpa(t) BY <1>1, <2>12, InstallKeeps
  <2>13. CASE PairFails(t) \/ RefreshFails(t) BY <1>1, <2>13, FailuresKeep
  <2>14. CASE InstallFails(t) BY <1>1, <2>14, InstallFailsKeeps
  <2>15. QED
    BY <1>2, <2>1, <2>2, <2>3, <2>4, <2>5, <2>6, <2>7, <2>8, <2>9, <2>10, <2>11, <2>12,
       <2>13, <2>14
    DEF FlowStep
<1>3. CASE HandleInstall \/ HandleDirectInstall \/ HandleRefreshScan \/ HandleRefreshApp
  BY <1>1, <1>3, InstallBegins
  DEF HandleInstall, HandleDirectInstall, HandleRefreshScan, HandleRefreshApp
<1>4. CASE StartSign BY <1>1, <1>4, SignBegins
<1>5. CASE SignDone \/ RefreshSigned BY <1>1, <1>5, SignKeeps
<1>6. CASE Browse BY <1>1, <1>6, BrowseKeeps
<1>7. ASSUME NEW d \in Devices, Unplug(d) \/ Replug(d) \/ SelectTarget(d) PROVE FlowInv'
  BY <1>1, <1>7, OutsideKeeps
<1>8. CASE UNCHANGED flowVars
  <2>1. /\ client' = client /\ ref' = ref /\ task' = task /\ app' = app /\ store' = store
        /\ phone' = phone /\ streams' = streams /\ done' = done
    BY <1>8 DEF flowVars
  <2>2. FlowTyped' BY <1>1, <2>1 DEF FlowInv, FlowTyped
  <2>3. PlacesOfFlows' BY <1>1, <2>1 DEF FlowInv, PlacesOfFlows, PlaceOf
  <2>4. ClientsOwned' BY <1>1, <2>1 DEF FlowInv, ClientsOwned, Active
  <2>5. ClientsConnected' BY <1>1, <2>1 DEF FlowInv, ClientsConnected
  <2>6. CertsKnown' BY <1>1, <2>1 DEF FlowInv, CertsKnown, MeantFor
  <2>7. SessionOnTarget' BY <1>1, <2>1 DEF FlowInv, SessionOnTarget, Active, IsTarget
  <2>8. StreamsOwned' BY <1>1, <2>1 DEF FlowInv, StreamsOwned
  <2>9. InstalledOnTarget' BY <1>1, <2>1 DEF FlowInv, InstalledOnTarget
  <2>10. QED BY <2>2, <2>3, <2>4, <2>5, <2>6, <2>7, <2>8, <2>9 DEF FlowInv
<1>9. QED BY <1>1, <1>2, <1>3, <1>4, <1>5, <1>6, <1>7, <1>8 DEF FlowNext

\* An application is only ever installed on the device it was meant for, unless
\* that device's UDID was given to another one's pairing record: for any number
\* of devices and clients, whatever tasks run together, wherever reconnect() and
\* the picker land in each try, and whichever cables are pulled meanwhile.
THEOREM InstallsOnTarget == FlowSpec => []InstalledOnTarget
<1>1. FlowInv => InstalledOnTarget BY DEF FlowInv
<1>2. QED BY <1>1, FlowBegins, FlowKeeps, PTL DEF FlowSpec

-----------------------------------------------------------------------------
(* InstallFlow: no encryption before a session, one record for a device.   *)

Held(r) == r.tls => r.started

\* The rest of the type invariant's inductive invariant.
FlowBounded ==
  /\ \A c \in Ids : Held(client[c])
  /\ \A d \in Devices : \A p, q \in store.records[d] : p = q

\* A call of a client starts a session before it is encrypted.
LEMMA CallsHold ==
  ASSUME FlowTyped, NEW r, Sound(r), Held(r)
  PROVE  /\ \A q \in ConnectLockdown(r) : Held(q)
         /\ \A q \in FetchUdid(r) : Held(q)
         /\ \A h \in Hosts : \A q \in StartSession(r, h) : Held(q)
         /\ \A rec : \A q \in UpgradeToTls(r, rec) : Held(q)
         /\ Held(Closed(r)) /\ \A q \in Reconnect(r) : Held(q)
<1>1. r \in ClientStates BY DEF Sound
<1>2. ASSUME NEW x, Sound(x), Held(x), NEW q \in ConnectLockdown(x) PROVE Held(q)
  <2>1. x \in ClientStates BY <1>2 DEF Sound
  <2>2. \/ q = [x EXCEPT !.lockdown = TRUE]
        \/ \E d \in Plugged : q = [x EXCEPT !.dev = d, !.dead = FALSE, !.lockdown = TRUE]
    BY <1>2 DEF ConnectLockdown
  <2>3. q.tls = x.tls /\ q.started = x.started BY <2>1, <2>2 DEF ClientStates
  <2>4. QED BY <1>2, <2>3 DEF Held
<1>3. ASSUME NEW q \in FetchUdid(r) PROVE Held(q)
  <2>1. CASE q = r BY <2>1
  <2>2. CASE q # r
    <3>1. PICK p \in ConnectLockdown(r) : q = [p EXCEPT !.udid = p.dev]
      BY <1>3, <2>2 DEF FetchUdid
    <3>2. Held(p) /\ p \in ClientStates BY <1>2, ConnectKeeps DEF Sound
    <3>3. q.tls = p.tls /\ q.started = p.started BY <3>1, <3>2 DEF ClientStates
    <3>4. QED BY <3>2, <3>3 DEF Held
  <2>3. QED BY <2>1, <2>2
<1>4. ASSUME NEW h \in Hosts, NEW q \in StartSession(r, h) PROVE Held(q)
  <2>1. PICK p \in ConnectLockdown(r) : q = [p EXCEPT !.started = TRUE, !.host = h]
    BY <1>4 DEF StartSession
  <2>2. p \in ClientStates BY <2>1, ConnectKeeps DEF Sound
  <2>3. q.started BY <2>1, <2>2 DEF ClientStates
  <2>4. QED BY <2>3 DEF Held
<1>5. ASSUME NEW rec, NEW q \in UpgradeToTls(r, rec) PROVE Held(q)
  <2>1. q = [r EXCEPT !.tls = TRUE] /\ (r.tls \/ r.started) BY <1>5 DEF UpgradeToTls
  <2>2. q.started = r.started BY <1>1, <2>1 DEF ClientStates
  <2>3. QED BY <2>1, <2>2 DEF Held
<1>6. Held(Closed(r)) /\ \A q \in Reconnect(r) : Held(q)
  <2>1. Sound(Closed(r)) /\ ~Closed(r).tls BY <1>1, CloseKeeps
  <2>2. QED BY <1>2, <2>1 DEF Reconnect, Held
<1>7. QED BY <1>2, <1>3, <1>4, <1>5, <1>6

\* A client that waits in a step of a task.
LEMMA MineHeld ==
  ASSUME FlowInv, FlowBounded, NEW t \in Tasks, task[t].pc \in PairPlaces \cup InstallPlaces
  PROVE  FlowTyped /\ Sound(Mine(t)) /\ Held(Mine(t)) /\ task[t].c \in Ids /\ task[t].rec \subseteq Pairings
         /\ task[t].host \in Hosts
<1>1. FlowTyped /\ task[t] \in TaskStates /\ PlaceOf(t, task[t])
  BY WhoIsAt DEF FlowInv, Tasks
<1>2. t # "sign" /\ task[t].pc # "idle" BY <1>1 DEF PlaceOf, PairPlaces, InstallPlaces
<1>3. task[t].c \in Ids /\ Sound(Mine(t)) BY <1>2, WhoIsAt DEF Tasks
<1>4. QED BY <1>1, <1>3 DEF FlowBounded, Mine, TaskStates

\* The client of a task becomes another one.
LEMMA MineHolds ==
  ASSUME FlowInv, FlowBounded, NEW c, NEW r, Held(r), client' = [client EXCEPT ![c] = r],
         store'.records = store.records
  PROVE  FlowBounded'
<1>1. client \in [Ids -> ClientStates] BY DEF FlowInv, FlowTyped
<1>2. \A b \in Ids : client'[b] = r \/ client'[b] = client[b] BY <1>1
<1>3. QED BY <1>2 DEF FlowBounded, Held

\* A new client, and the one that it replaces is closed.
LEMMA FreshHolds ==
  ASSUME FlowInv, FlowBounded, NEW t, NEW which, NEW rec, FreshClient(t, which, rec),
         UNCHANGED store
  PROVE  FlowBounded'
<1>1. PICK c \in Fresh :
        client' = [b2 \in Ids |-> IF b2 = c THEN NewClient
                                  ELSE IF b2 = ref[which] THEN Closed(client[b2])
                                  ELSE client[b2]]
  BY DEF FreshClient
<1>2. client \in [Ids -> ClientStates] /\ FlowTyped BY DEF FlowInv, FlowTyped
<1>3. Held(NewClient) BY DEF Held, NewClient
<1>4. ASSUME NEW b \in Ids PROVE Held(client'[b])
  <2>1. ~Closed(client[b]).tls BY <1>2, CloseKeeps
  <2>2. Held(Closed(client[b])) BY <2>1 DEF Held
  <2>3. \/ client'[b] = NewClient \/ client'[b] = Closed(client[b])
        \/ client'[b] = client[b]
    BY <1>1
  <2>4. QED BY <1>3, <2>2, <2>3 DEF FlowBounded
<1>5. QED BY <1>4 DEF FlowBounded

\* The steps of the pair flow.
LEMMA PairingHolds ==
  ASSUME FlowInv, FlowBounded, NEW t \in Tasks,
         PairUdid(t) \/ PairChoose(t) \/ PairRequest(t) \/ PairSession(t)
  PROVE  FlowBounded'
<1>1. task[t].pc \in {"udid", "name", "pairing", "session"}
  BY DEF PairUdid, PairChoose, PairRequest, PairSession, At
<1>2. /\ FlowTyped /\ Sound(Mine(t)) /\ Held(Mine(t)) /\ task[t].c \in Ids
      /\ task[t].host \in Hosts
  BY <1>1, MineHeld DEF PairPlaces
<1>3. CASE PairUdid(t)
  <2>1. PICK r \in FetchUdid(Mine(t)) : client' = [client EXCEPT ![task[t].c] = r]
    BY <1>3 DEF PairUdid
  <2>2. store' = store BY <1>3 DEF PairUdid
  <2>3. Held(r) BY <1>2, CallsHold
  <2>4. QED BY <2>1, <2>2, <2>3, MineHolds
<1>4. CASE PairChoose(t)
  <2> DEFINE udid == task[t].udid
  <2>1. PICK r \in ConnectLockdown(Mine(t)) \cup {Mine(t)} :
          LET load == r.paired = None /\ store.records[udid] # {}
              p == CHOOSE p \in store.records[udid] : TRUE
          IN /\ client' = [client EXCEPT ![task[t].c] =
                  IF load THEN [r EXCEPT !.paired = udid] ELSE r]
             /\ store' = IF load THEN [store EXCEPT !.host = p.host] ELSE store
    BY <1>4 DEF PairChoose
  <2> DEFINE load == r.paired = None /\ store.records[udid] # {}
             q == IF load THEN [r EXCEPT !.paired = udid] ELSE r
  <2>2. client' = [client EXCEPT ![task[t].c] = q] BY <2>1
  <2>3. store'.records = store.records BY <1>2, <2>1 DEF FlowTyped
  <2>4. r \in ClientStates /\ Held(r) BY <1>2, CallsHold, ConnectKeeps DEF Sound
  <2>5. q.tls = r.tls /\ q.started = r.started BY <2>4 DEF ClientStates
  <2> HIDE DEF q
  <2>6. Held(q) BY <2>4, <2>5 DEF Held
  <2>7. QED BY <2>2, <2>3, <2>6, MineHolds
<1>5. CASE PairRequest(t)
  <2>1. PICK q \in ConnectLockdown(Mine(t)) : \E r \in FetchUdid(q) :
          LET p == Pairing(task[t].host, <<r.dev, store.certs + 1>>, r.dev) IN
          /\ client' = [client EXCEPT ![task[t].c] = [r EXCEPT !.paired = r.udid]]
          /\ store' = [store EXCEPT !.certs = @ + 1, !.records[task[t].udid] = {p},
                                    !.mixed = @ \cup ({task[t].udid} \ {r.dev})]
    BY <1>5 DEF PairRequest
  <2>2. PICK r \in FetchUdid(q) :
          LET p == Pairing(task[t].host, <<r.dev, store.certs + 1>>, r.dev) IN
          /\ client' = [client EXCEPT ![task[t].c] = [r EXCEPT !.paired = r.udid]]
          /\ store' = [store EXCEPT !.certs = @ + 1, !.records[task[t].udid] = {p},
                                    !.mixed = @ \cup ({task[t].udid} \ {r.dev})]
    BY <2>1
  <2> DEFINE p == Pairing(task[t].host, <<r.dev, store.certs + 1>>, r.dev)
             x == [r EXCEPT !.paired = r.udid]
             udid == task[t].udid
  <2>3. /\ client' = [client EXCEPT ![task[t].c] = x]
        /\ store'.records = [store.records EXCEPT ![udid] = {p}]
    BY <1>2, <2>2 DEF FlowTyped
  <2>4. Held(q) /\ Sound(q) BY <1>2, CallsHold, ConnectKeeps
  <2>5. Held(r) /\ r \in ClientStates BY <1>2, <2>4, CallsHold, FetchKeeps DEF Sound
  <2>6. x.tls = r.tls /\ x.started = r.started BY <2>5 DEF ClientStates
  <2> HIDE DEF p, x
  <2>7. Held(x) BY <2>5, <2>6 DEF Held
  <2>8. \A c \in Ids : Held(client'[c])
    <3>1. \A c \in Ids : client'[c] = x \/ client'[c] = client[c]
      BY <1>2, <2>3 DEF FlowTyped
    <3>2. QED BY <2>7, <3>1 DEF FlowBounded
  <2>9. \A d \in Devices : \A a, b \in store'.records[d] : a = b
    <3>1. store.records \in [Devices -> SUBSET Pairings] BY <1>2 DEF FlowTyped
    <3>2. \A d \in Devices : store'.records[d] = {p} \/ store'.records[d] = store.records[d]
      BY <2>3, <3>1
    <3>3. QED BY <3>2 DEF FlowBounded
  <2>10. QED BY <2>8, <2>9 DEF FlowBounded
<1>6. CASE PairSession(t)
  <2>1. PICK r \in (IF Mine(t).started THEN {Mine(t)} ELSE StartSession(Mine(t), task[t].host)) :
          client' = [client EXCEPT ![task[t].c] = r]
    BY <1>6 DEF PairSession, Awaits
  <2>2. store' = store BY <1>6 DEF PairSession
  <2>3. Held(r) BY <1>2, <2>1, CallsHold
  <2>4. QED BY <2>1, <2>2, <2>3, MineHolds
<1>7. QED BY <1>3, <1>4, <1>5, <1>6

\* The awaited calls of an installation.
LEMMA InstallingHolds ==
  ASSUME FlowInv, FlowBounded, NEW t \in Tasks,
         \/ FreshReconnect(t) \/ LoadRecord(t) \/ ConnectStep(t) \/ SessionStep(t) \/ TlsStep(t)
         \/ RetryReconnect(t)
  PROVE  FlowBounded'
<1>1. task[t].pc \in {"fresh reconnect", "load", "connect", "start session", "tls",
                      "retry reconnect"}
  BY DEF FreshReconnect, LoadRecord, ConnectStep, SessionStep, TlsStep, RetryReconnect, At
<1>2. /\ FlowTyped /\ Sound(Mine(t)) /\ Held(Mine(t)) /\ task[t].c \in Ids
      /\ task[t].rec \subseteq Pairings
  BY <1>1, MineHeld DEF InstallPlaces
<1>3. store' = store
  BY DEF FreshReconnect, LoadRecord, ConnectStep, SessionStep, TlsStep, RetryReconnect
<1>4. CASE LoadRecord(t)
  <2> DEFINE c == task[t].c
             p == IF t = "scan" /\ client[c].paired = None THEN task[t].target
                  ELSE client[c].paired
             r == [client[c] EXCEPT !.paired = p]
  <2>1. client[c] \in ClientStates /\ client[c] = Mine(t) BY <1>2 DEF FlowTyped, Mine
  <2>2. client' = [client EXCEPT ![c] = r] BY <1>4 DEF LoadRecord
  <2>3. r.tls = client[c].tls /\ r.started = client[c].started BY <2>1 DEF ClientStates
  <2> HIDE DEF r
  <2>4. Held(r) BY <1>2, <2>1, <2>3 DEF Held
  <2>5. QED BY <1>3, <2>2, <2>4, MineHolds
<1>5. CASE FreshReconnect(t)
  <2>1. PICK r \in Reconnect(Mine(t)) \cup {Closed(Mine(t))} :
          client' = [client EXCEPT ![task[t].c] = r]
    BY <1>5 DEF FreshReconnect
  <2>2. Held(r) BY <1>2, CallsHold
  <2>3. QED BY <1>3, <2>1, <2>2, MineHolds
<1>6. CASE ConnectStep(t)
  <2>1. PICK r \in ConnectLockdown(Mine(t)) : client' = [client EXCEPT ![task[t].c] = r]
    BY <1>6 DEF ConnectStep, Awaits
  <2>2. Held(r) BY <1>2, CallsHold
  <2>3. QED BY <1>3, <2>1, <2>2, MineHolds
<1>7. CASE SessionStep(t)
  <2>1. PICK r \in (IF Mine(t).started THEN {Mine(t)}
                    ELSE UNION {StartSession(Mine(t), p.host) : p \in task[t].rec}) :
          client' = [client EXCEPT ![task[t].c] = r]
    BY <1>7 DEF SessionStep, Awaits
  <2>2. \/ r = Mine(t)
        \/ \E p \in task[t].rec : r \in StartSession(Mine(t), p.host)
    BY <2>1
  <2>3. \A p \in task[t].rec : p.host \in Hosts BY <1>2 DEF Pairings
  <2>4. Held(r) BY <1>2, <2>2, <2>3, CallsHold
  <2>5. QED BY <1>3, <2>1, <2>4, MineHolds
<1>8. CASE TlsStep(t)
  <2>1. PICK r \in UpgradeToTls(Mine(t), task[t].rec) :
          client' = [client EXCEPT ![task[t].c] = r]
    BY <1>8 DEF TlsStep, Awaits
  <2>2. Held(r) BY <1>2, CallsHold
  <2>3. QED BY <1>3, <2>1, <2>2, MineHolds
<1>9. CASE RetryReconnect(t)
  <2>1. PICK r \in Reconnect(Mine(t)) : client' = [client EXCEPT ![task[t].c] = r]
    BY <1>9 DEF RetryReconnect, Awaits
  <2>2. Held(r) BY <1>2, CallsHold
  <2>3. QED BY <1>3, <2>1, <2>2, MineHolds
<1>10. QED BY <1>4, <1>5, <1>6, <1>7, <1>8, <1>9

\* The steps that start a flow, or end one.
LEMMA TurnsHold ==
  ASSUME FlowInv, FlowBounded, NEW t,
         \/ StartPair(t) \/ StartInstall(t) \/ StartRefresh(t) \/ InstallFails(t)
  PROVE  FlowBounded'
<1>1. store' = store
  BY DEF StartPair, StartInstall, StartRefresh, InstallFails
<1>2. CASE client' = client BY <1>1, <1>2 DEF FlowBounded
<1>3. CASE \E which, rec : FreshClient(t, which, rec) BY <1>1, <1>3, FreshHolds
<1>4. CASE \E c \in Fresh : client' = [client EXCEPT ![c] = NewClient]
  <2>1. Held(NewClient) BY DEF Held, NewClient
  <2>2. QED BY <1>1, <1>4, <2>1, MineHolds
<1>5. CASE StartPair(t) BY <1>2, <1>3, <1>5 DEF StartPair
<1>6. CASE StartInstall(t) \/ StartRefresh(t) BY <1>3, <1>6 DEF StartInstall, StartRefresh
<1>7. CASE InstallFails(t) BY <1>2, <1>4, <1>7 DEF InstallFails
<1>8. QED BY <1>5, <1>6, <1>7

\* A cable that is pulled starts no session and ends none.
LEMMA UnplugHolds ==
  ASSUME FlowInv, FlowBounded, NEW d, Unplug(d)
  PROVE  FlowBounded'
<1>1. client \in [Ids -> ClientStates] BY DEF FlowInv, FlowTyped
<1>2. ASSUME NEW c \in Ids PROVE Held(client'[c])
  <2>1. client'[c] = [client[c] EXCEPT !.dead = TRUE] \/ client'[c] = client[c]
    BY <1>1 DEF Unplug
  <2>2. client'[c].tls = client[c].tls /\ client'[c].started = client[c].started
    BY <1>1, <2>1 DEF ClientStates
  <2>3. QED BY <2>2 DEF FlowBounded, Held
<1>3. QED BY <1>2 DEF FlowBounded, Unplug

\* No connection is encrypted before its session has started, no client is made
\* beyond the bound, the selected device is a known one, and a device has one
\* record in the storage, whatever flows run together (FlowTypeOK, which TypesOK of
\* MCComponents has for its part).
THEOREM FlowTypesCorrect == FlowSpec => []FlowTypeOK
<1>1. FlowInit => FlowBounded
  <2> SUFFICES ASSUME FlowInit PROVE FlowBounded OBVIOUS
  <2>1. \A c \in Ids : Held(client[c])
    <3> DEFINE new == [NewClient EXCEPT !.used = FALSE]
    <3>1. \A c \in Ids : client[c] = new BY DEF FlowInit
    <3>2. ~new.tls BY DEF NewClient
    <3> HIDE DEF new
    <3>3. QED BY <3>1, <3>2 DEF Held
  <2>2. PICK kept \in Kept :
          LET p(d) == IF kept[d] = None THEN {} ELSE {Pairing(kept[d], <<d, 0>>, d)} IN
          store = [host |-> "this", certs |-> 0, mixed |-> {},
                   records |-> [d \in Devices |-> p(d)]]
    BY DEF FlowInit
  <2>3. \A d \in Devices : store.records[d] =
          IF kept[d] = None THEN {} ELSE {Pairing(kept[d], <<d, 0>>, d)}
    BY <2>2
  <2>4. QED BY <2>1, <2>3 DEF FlowBounded
<1>2. FlowInv /\ FlowBounded /\ [FlowNext]_flowVars => FlowBounded'
  <2> SUFFICES ASSUME FlowInv, FlowBounded, [FlowNext]_flowVars PROVE FlowBounded' OBVIOUS
  <2>1. CASE UNCHANGED <<client, store>> BY <2>1 DEF FlowBounded
  <2>2. ASSUME NEW t \in Tasks, FlowStep(t) PROVE FlowBounded'
    <3>1. CASE StartPair(t) \/ InstallFails(t) BY <3>1, TurnsHold
    <3>2. CASE PairUdid(t) \/ PairChoose(t) \/ PairRequest(t) \/ PairSession(t)
      BY <2>2, <3>2, PairingHolds
    <3>3. CASE \/ FreshReconnect(t) \/ LoadRecord(t) \/ ConnectStep(t) \/ SessionStep(t)
               \/ TlsStep(t) \/ RetryReconnect(t)
      BY <2>2, <3>3, InstallingHolds
    <3>4. CASE \/ PairDone(t) \/ Trust(t) \/ CheckTarget(t)
               \/ Service(t, "afc", "afc", "proxy") \/ Service(t, "proxy", "proxy", "install")
               \/ InstallIpa(t) \/ PairFails(t) \/ RefreshFails(t)
      BY <2>1, <3>4 DEF PairDone, Trust, CheckTarget, Service, InstallIpa, PairFails, RefreshFails
    <3>5. QED BY <2>2, <3>1, <3>2, <3>3, <3>4 DEF FlowStep
  <2>3. CASE HandleInstall \/ HandleDirectInstall \/ HandleRefreshScan \/ HandleRefreshApp
    BY <2>3, TurnsHold
    DEF HandleInstall, HandleDirectInstall, HandleRefreshScan, HandleRefreshApp
  <2>4. CASE StartSign \/ SignDone \/ RefreshSigned \/ Browse
    BY <2>1, <2>4 DEF StartSign, SignDone, RefreshSigned, Browse
  <2>5. ASSUME NEW d \in Devices, Unplug(d) \/ Replug(d) \/ SelectTarget(d)
        PROVE  FlowBounded'
    <3>1. CASE Unplug(d) BY <3>1, UnplugHolds
    <3>2. CASE Replug(d) \/ SelectTarget(d) BY <2>1, <3>2 DEF Replug, SelectTarget
    <3>3. QED BY <2>5, <3>1, <3>2
  <2>6. CASE UNCHANGED flowVars BY <2>1, <2>6 DEF flowVars
  <2>7. QED BY <2>2, <2>3, <2>4, <2>5, <2>6 DEF FlowNext
<1>3. FlowInv /\ FlowBounded => FlowTypeOK
  <2> SUFFICES ASSUME FlowInv, FlowBounded PROVE FlowTypeOK OBVIOUS
  <2>1. FlowTyped BY DEF FlowInv
  <2>2. ASSUME NEW c \in Ids
        PROVE  client[c].dev \in Devices \cup {None} /\ (client[c].tls => client[c].started)
    <3>1. client[c] \in ClientStates BY <2>1 DEF FlowTyped
    <3>2. QED BY <3>1 DEF ClientStates, Names, FlowBounded, Held
  <2>3. /\ ref.main \in 0..MaxClients /\ ref.refresh \in 0..MaxClients
        /\ app.selected \in Devices \cup {None}
    BY <2>1 DEF FlowTyped, Names
  <2>4. ASSUME NEW d \in Devices PROVE Cardinality(store.records[d]) <= 1
    <3>1. store.records[d] = {} \/ \E p : store.records[d] = {p}
      BY DEF FlowBounded
    <3>2. Cardinality({}) = 0 /\ \A p : Cardinality({p}) = 1
      BY FS_EmptySet, FS_Singleton
    <3> DEFINE n == Cardinality(store.records[d])
    <3>3. n = 0 \/ n = 1
      <4>1. CASE store.records[d] = {} BY <3>2, <4>1
      <4>2. CASE \E p : store.records[d] = {p} BY <3>2, <4>2
      <4>3. QED BY <3>1, <4>1, <4>2
    <3> HIDE DEF n
    <3>4. n <= 1 BY <3>3
    <3>5. QED BY <3>4 DEF n
  <2>5. QED BY <2>2, <2>3, <2>4 DEF FlowTypeOK
<1>4. QED BY <1>1, <1>2, <1>3, FlowBegins, FlowKeeps, PTL DEF FlowSpec

-----------------------------------------------------------------------------
(* AccountSession: the account in use is the one that is stored.           *)

SessionTyped ==
  /\ stored \in [summary : Accounts \cup {<<>>}, list : Seq(Accounts),
                 sessions : [Accounts -> Nat]]
  /\ contexts \in [Accounts -> Nat]
  /\ active \in [account : Accounts \cup {<<>>}, token : Nat]
  /\ signing \in [account : Accounts \cup {<<>>}, token : Nat]
  /\ tally \in [tokens : Nat, attempts : Nat, requests : Nat]

\* What a reload would sign in is on the list, with the token it has now.
SummaryListed == stored.summary # <<>> => stored.summary \in ToSet(stored.list)
ContextsStored == contexts = stored.sessions

\* The inductive invariant of AccountSession.
SessionInv == SessionTyped /\ SummaryListed /\ ContextsStored /\ ActiveIsStored

\* A list without an account that is on it: the places behind its own move up.
LEMMA WithoutIs ==
  ASSUME NEW list \in Seq(Accounts), NEW a \in ToSet(list)
  PROVE  \E p \in 1..Len(list) :
           /\ list[p] = a /\ Without(list, a) \in Seq(Accounts)
           /\ Len(Without(list, a)) = Len(list) - 1
           /\ \A i \in 1..Len(Without(list, a)) :
                Without(list, a)[i] = list[IF i < p THEN i ELSE i + 1]
<1> DEFINE p == CHOOSE i \in DOMAIN list : list[i] = a
           front == SubSeq(list, 1, p - 1)
           back == SubSeq(list, p + 1, Len(list))
           rest == front \o back
<1>1. Without(list, a) = rest
  BY DEF Without, RemoveAt
<1>2. p \in 1..Len(list) /\ list[p] = a /\ Len(list) \in Nat
  <2>1. \E i \in DOMAIN list : list[i] = a
    BY DEF ToSet
  <2>2. p \in DOMAIN list /\ list[p] = a
    BY <2>1
  <2> QED
    BY <2>2
<1> HIDE DEF p
<1>3. /\ front \in Seq(Accounts) /\ Len(front) = p - 1
      /\ \A i \in 1..(p - 1) : front[i] = list[i]
  BY <1>2
<1>4. /\ back \in Seq(Accounts) /\ Len(back) = Len(list) - p
      /\ \A i \in 1..(Len(list) - p) : back[i] = list[p + i]
  BY <1>2
<1> HIDE DEF front, back
<1>5. /\ rest \in Seq(Accounts) /\ Len(rest) = Len(front) + Len(back)
      /\ \A i \in 1..(Len(front) + Len(back)) :
           rest[i] = IF i <= Len(front) THEN front[i] ELSE back[i - Len(front)]
  BY <1>3, <1>4, ConcatProperties
<1> HIDE DEF rest
<1>6. Len(rest) = Len(list) - 1
  BY <1>2, <1>3, <1>4, <1>5
<1>7. ASSUME NEW i \in 1..Len(rest)
      PROVE  rest[i] = list[IF i < p THEN i ELSE i + 1]
  <2>1. CASE i < p
    <3>1. i \in 1..(p - 1) /\ i \in 1..(Len(front) + Len(back)) /\ i <= Len(front)
      BY <1>2, <1>3, <1>4, <1>6, <2>1
    <3> QED
      BY <1>3, <1>5, <2>1, <3>1
  <2>2. CASE ~(i < p)
    <3>1. /\ i \in 1..(Len(front) + Len(back)) /\ ~(i <= Len(front))
          /\ i - Len(front) = i - p + 1 /\ i - p + 1 \in 1..(Len(list) - p)
          /\ p + (i - p + 1) = i + 1
      BY <1>2, <1>3, <1>4, <1>6, <2>2
    <3>2. rest[i] = back[i - p + 1]
      BY <1>5, <3>1
    <3>3. back[i - p + 1] = list[i + 1]
      BY <1>4, <3>1
    <3> QED
      BY <2>2, <3>2, <3>3
  <2> QED
    BY <2>1, <2>2
<1> QED
  BY <1>1, <1>2, <1>5, <1>6, <1>7

\* A list without an account keeps all others.
LEMMA WithoutKeeps ==
  ASSUME NEW list \in Seq(Accounts), NEW a
  PROVE  /\ Without(list, a) \in Seq(Accounts)
         /\ \A b \in ToSet(list) : b # a => b \in ToSet(Without(list, a))
<1>1. CASE a \notin ToSet(list)
  BY <1>1 DEF Without
<1>2. CASE a \in ToSet(list)
  <2> DEFINE rest == Without(list, a)
  <2>1. PICK p \in 1..Len(list) :
          /\ list[p] = a /\ rest \in Seq(Accounts) /\ Len(rest) = Len(list) - 1
          /\ \A i \in 1..Len(rest) : rest[i] = list[IF i < p THEN i ELSE i + 1]
    BY <1>2, WithoutIs
  <2> HIDE DEF rest
  <2>2. ASSUME NEW b \in ToSet(list), b # a PROVE b \in ToSet(rest)
    <3>1. PICK i \in 1..Len(list) : list[i] = b
      BY DEF ToSet
    <3>2. CASE i < p
      <4>1. i \in DOMAIN rest /\ rest[i] = b
        BY <2>1, <3>1, <3>2
      <4> QED
        BY <4>1 DEF ToSet
    <3>3. CASE i > p
      <4>1. i - 1 \in DOMAIN rest /\ ~(i - 1 < p) /\ (i - 1) + 1 = i
        BY <2>1, <3>3
      <4>2. rest[i - 1] = b
        BY <2>1, <3>1, <4>1
      <4> QED
        BY <4>1, <4>2 DEF ToSet
    <3>4. i # p
      BY <2>1, <2>2, <3>1
    <3> QED
      BY <2>1, <3>2, <3>3, <3>4
  <2> QED
    BY <2>1, <2>2 DEF rest
<1> QED
  BY <1>1, <1>2

\* A list that has each account once has none of the one that was taken away,
\* and the others once.
LEMMA WithoutOnce ==
  ASSUME NEW list \in Seq(Accounts), NEW a, IsInjective(list)
  PROVE  /\ IsInjective(Without(list, a)) /\ a \notin ToSet(Without(list, a))
         /\ Len(Without(list, a)) <= Len(list)
<1>1. CASE a \notin ToSet(list)
  BY <1>1 DEF Without
<1>2. CASE a \in ToSet(list)
  <2> DEFINE rest == Without(list, a)
             From(i, p) == IF i < p THEN i ELSE i + 1
  <2>1. PICK p \in 1..Len(list) :
          /\ list[p] = a /\ rest \in Seq(Accounts) /\ Len(rest) = Len(list) - 1
          /\ \A i \in 1..Len(rest) : rest[i] = list[IF i < p THEN i ELSE i + 1]
    BY <1>2, WithoutIs
  <2> HIDE DEF rest
  <2>2. \A i \in 1..Len(rest) : /\ From(i, p) \in 1..Len(list) /\ From(i, p) # p
                                /\ rest[i] = list[From(i, p)]
    BY <2>1
  <2>3. \A i, j \in 1..Len(rest) : From(i, p) = From(j, p) => i = j
    BY <2>1
  <2> HIDE DEF From
  <2>4. ASSUME NEW i \in 1..Len(rest), rest[i] = a PROVE FALSE
    <3>1. From(i, p) \in DOMAIN list /\ p \in DOMAIN list /\ list[From(i, p)] = list[p]
      BY <2>1, <2>2, <2>4
    <3> QED
      BY <2>2, <3>1 DEF IsInjective
  <2>5. IsInjective(rest)
    BY <2>1, <2>2, <2>3, SMTT(30) DEF IsInjective
  <2>6. a \notin ToSet(rest)
    BY <2>1, <2>4 DEF ToSet
  <2>7. Len(rest) <= Len(list)
    BY <2>1
  <2> QED
    BY <2>5, <2>6, <2>7 DEF rest
<1> QED
  BY <1>1, <1>2

\* The account that is saved is on the list.
LEMMA SavedHas ==
  ASSUME NEW list \in Seq(Accounts), NEW a \in Accounts
  PROVE  SavedList(list, a) \in Seq(Accounts) /\ a \in ToSet(SavedList(list, a))
<1> DEFINE all == <<a>> \o Without(list, a)
           n == IF Len(all) < MaxSaved THEN Len(all) ELSE MaxSaved
<1>1. /\ all \in Seq(Accounts) /\ all[1] = a /\ Len(all) \in Nat /\ Len(all) >= 1
  BY WithoutKeeps
<1>2. n \in 1..Len(all)
  BY <1>1, AccountAssumption
<1> HIDE DEF all, n
<1>3. SavedList(list, a) = SubSeq(all, 1, n)
  BY DEF SavedList, Newest, all, n
<1>4. /\ SubSeq(all, 1, n) \in Seq(Accounts) /\ 1 \in DOMAIN SubSeq(all, 1, n)
      /\ SubSeq(all, 1, n)[1] = a
  BY <1>1, <1>2
<1> QED
  BY <1>3, <1>4 DEF ToSet

\* Saving an account keeps the list within its length and each account once.
LEMMA SavedOnce ==
  ASSUME NEW list \in Seq(Accounts), NEW a \in Accounts, IsInjective(list)
  PROVE  IsInjective(SavedList(list, a)) /\ Len(SavedList(list, a)) <= MaxSaved
<1> DEFINE rest == Without(list, a)
           all == <<a>> \o rest
           n == IF Len(all) < MaxSaved THEN Len(all) ELSE MaxSaved
<1>1. rest \in Seq(Accounts) /\ IsInjective(rest) /\ a \notin ToSet(rest)
  BY WithoutKeeps, WithoutOnce
<1> HIDE DEF rest
<1>2. /\ all \in Seq(Accounts) /\ Len(all) = 1 + Len(rest) /\ all[1] = a
      /\ \A i \in 2..Len(all) : i - 1 \in 1..Len(rest) /\ all[i] = rest[i - 1]
  BY <1>1
<1>3. \A i \in 2..Len(all) : all[i] # a
  BY <1>1, <1>2 DEF ToSet
<1>4. MaxSaved \in Nat /\ n \in 0..Len(all) /\ n <= MaxSaved
  BY <1>2, AccountAssumption
<1> HIDE DEF all
<1>5. \A i, j \in 1..Len(all) : all[i] = all[j] => i = j
  <2> SUFFICES ASSUME NEW i \in 1..Len(all), NEW j \in 1..Len(all), all[i] = all[j]
               PROVE  i = j
    OBVIOUS
  <2>1. CASE i = 1 \/ j = 1
    BY <1>2, <1>3, <2>1
  <2>2. CASE i # 1 /\ j # 1
    <3>1. i \in 2..Len(all) /\ j \in 2..Len(all)
      BY <2>2
    <3>2. /\ i - 1 \in DOMAIN rest /\ j - 1 \in DOMAIN rest
          /\ rest[i - 1] = rest[j - 1]
      BY <1>1, <1>2, <3>1
    <3>3. i - 1 = j - 1
      BY <1>1, <3>2 DEF IsInjective
    <3> QED
      BY <3>1, <3>3
  <2> QED
    BY <2>1, <2>2
<1>6. SavedList(list, a) = SubSeq(all, 1, n)
  BY DEF SavedList, Newest, all, n, rest
<1> HIDE DEF n
<1>7. /\ Len(SubSeq(all, 1, n)) = n /\ DOMAIN SubSeq(all, 1, n) = 1..n
      /\ \A i \in 1..n : i \in 1..Len(all) /\ SubSeq(all, 1, n)[i] = all[i]
  BY <1>2, <1>4
<1>8. IsInjective(SubSeq(all, 1, n))
  BY <1>5, <1>7 DEF IsInjective
<1> QED
  BY <1>4, <1>6, <1>7, <1>8

\* Adopting a context keeps the invariant.
LEMMA AdoptKeeps ==
  ASSUME SessionInv, NEW b \in Accounts, NEW n \in Nat, Adopt(Context(b, n)),
         signing' \in [account : Accounts \cup {<<>>}, token : Nat],
         tally' \in [tokens : Nat, attempts : Nat, requests : Nat]
  PROVE  SessionInv'
<1>1. stored.list \in Seq(Accounts) /\ contexts = stored.sessions /\ contexts \in [Accounts -> Nat]
  BY DEF SessionInv, SessionTyped, ContextsStored
<1>2. /\ contexts' = [contexts EXCEPT ![b] = n]
      /\ stored' = [summary |-> b, list |-> SavedList(stored.list, b),
                    sessions |-> [contexts EXCEPT ![b] = n]]
      /\ active' = [account |-> b, token |-> n]
  BY <1>1 DEF Adopt, Context
<1>3. SavedList(stored.list, b) \in Seq(Accounts) /\ b \in ToSet(SavedList(stored.list, b))
  BY <1>1, SavedHas
<1>4. contexts' \in [Accounts -> Nat] /\ contexts'[b] = n
  BY <1>1, <1>2
<1>5. SessionTyped'
  BY <1>2, <1>3, <1>4 DEF SessionTyped
<1> QED
  BY <1>2, <1>3, <1>4, <1>5 DEF SessionInv, SummaryListed, ContextsStored, ActiveIsStored

\* Deleting an account keeps the invariant.
LEMMA DeleteKeeps ==
  ASSUME SessionInv, NEW a \in Accounts, DeleteAccount(a)
  PROVE  SessionInv'
<1> DEFINE list == Without(stored.list, a)
<1>1. /\ stored \in [summary : Accounts \cup {<<>>}, list : Seq(Accounts),
                     sessions : [Accounts -> Nat]]
      /\ contexts = stored.sessions /\ contexts \in [Accounts -> Nat]
  BY DEF SessionInv, SessionTyped, ContextsStored
<1>2. list \in Seq(Accounts) /\ \A b \in ToSet(stored.list) : b # a => b \in ToSet(list)
  BY <1>1, WithoutKeeps
<1>3. list # <<>> => Head(list) \in Accounts /\ Head(list) \in ToSet(list)
  <2> SUFFICES ASSUME list # <<>> PROVE Head(list) \in Accounts /\ Head(list) \in ToSet(list)
    OBVIOUS
  <2>1. 1 \in DOMAIN list /\ Head(list) = list[1] /\ Head(list) \in Accounts
    BY <1>2
  <2> QED
    BY <2>1 DEF ToSet
<1>4. /\ stored'.list = list /\ stored'.sessions = [contexts EXCEPT ![a] = 0]
      /\ stored'.summary = IF stored.summary # a THEN stored.summary
                           ELSE IF list = <<>> THEN <<>> ELSE Head(list)
      /\ contexts' = [contexts EXCEPT ![a] = 0]
      /\ active' = IF active.account = a THEN NoContext ELSE active
      /\ UNCHANGED <<signing, tally>>
  BY <1>1 DEF DeleteAccount, ActiveAfter
<1> HIDE DEF list
<1>5. SessionTyped'
  <2>1. stored'.summary \in Accounts \cup {<<>>}
    BY <1>1, <1>3, <1>4
  <2>2. contexts' \in [Accounts -> Nat] /\ stored'.sessions \in [Accounts -> Nat]
    BY <1>1, <1>4
  <2>3. active' \in [account : Accounts \cup {<<>>}, token : Nat]
    BY <1>4 DEF SessionInv, SessionTyped, NoContext
  <2>4. stored' = [list |-> stored'.list, sessions |-> stored'.sessions,
                   summary |-> stored'.summary]
    BY DEF DeleteAccount
  <2> QED
    BY <1>2, <1>4, <2>1, <2>2, <2>3, <2>4 DEF SessionInv, SessionTyped
<1>6. SummaryListed' /\ ContextsStored'
  BY <1>1, <1>2, <1>3, <1>4 DEF SessionInv, SummaryListed, ContextsStored
<1>7. ActiveIsStored'
  <2> SUFFICES ASSUME active' # NoContext PROVE ActiveIsStored'
    BY DEF ActiveIsStored
  <2>1. active' = active /\ active # NoContext /\ active.account # a
    BY <1>4
  <2>2. /\ stored.summary = active.account /\ active.account \in ToSet(stored.list)
        /\ contexts[active.account] = active.token
    BY <2>1 DEF SessionInv, ActiveIsStored
  <2>3. active.account \in Accounts
    BY <1>1, <2>2 DEF ToSet
  <2>4. contexts'[active.account] = active.token
    BY <1>1, <1>4, <2>1, <2>2, <2>3
  <2> QED
    BY <1>1, <1>2, <1>4, <2>1, <2>2, <2>4 DEF ActiveIsStored
<1> QED
  BY <1>5, <1>6, <1>7 DEF SessionInv

\* Each step keeps the invariant.
LEMMA AccountStep ==
  ASSUME SessionInv, [SessionNext]_sessionVars
  PROVE  SessionInv'
<1>1. CASE UNCHANGED <<stored, contexts, active, signing>>
           /\ tally' \in [tokens : Nat, attempts : Nat, requests : Nat]
  BY <1>1 DEF SessionInv, SessionTyped, SummaryListed, ContextsStored, ActiveIsStored
<1>2. tally \in [tokens : Nat, attempts : Nat, requests : Nat]
  BY DEF SessionInv, SessionTyped
<1>3. ASSUME NEW a \in Accounts, SwitchAccount(a)
      PROVE  SessionInv'
  <2>1. /\ stored' = [stored EXCEPT !.summary = a] /\ UNCHANGED <<contexts, signing, tally>>
        /\ active' = IF contexts[a] = 0 THEN NoContext ELSE [account |-> a, token |-> contexts[a]]
        /\ a \in ToSet(stored.list)
    BY <1>3 DEF SwitchAccount, Context
  <2>2. contexts[a] \in Nat
    BY DEF SessionInv, SessionTyped
  <2>3. /\ stored'.summary = a /\ stored'.list = stored.list /\ stored'.sessions = stored.sessions
        /\ stored' \in [summary : Accounts \cup {<<>>}, list : Seq(Accounts),
                        sessions : [Accounts -> Nat]]
    BY <2>1 DEF SessionInv, SessionTyped
  <2>4. active' \in [account : Accounts \cup {<<>>}, token : Nat]
    BY <2>1, <2>2 DEF NoContext
  <2> QED
    BY <2>1, <2>3, <2>4
       DEF SessionInv, SessionTyped, SummaryListed, ContextsStored, ActiveIsStored
<1>4. ASSUME NEW a \in Accounts, StartLogin(IdOf(a))
      PROVE  SessionInv'
  <2>1. /\ UNCHANGED <<stored, contexts, active, signing>>
        /\ tally' = [tally EXCEPT !.attempts = @ + 1, !.requests = 0]
    BY <1>4 DEF StartLogin
  <2>2. tally' = [tokens |-> tally.tokens, attempts |-> tally.attempts + 1, requests |-> 0]
    BY ONLY <1>2, <2>1
  <2>3. tally' \in [tokens : Nat, attempts : Nat, requests : Nat]
    BY ONLY <1>2, <2>2
  <2> QED
    BY <1>1, <2>1, <2>3
<1>5. CASE Reload
  <2>1. /\ contexts' = stored.sessions /\ UNCHANGED <<stored, tally>> /\ signing' = NoContext
        /\ active' = IF stored.summary = <<>> THEN NoContext
                     ELSE IF stored.sessions[stored.summary] = 0 THEN NoContext
                     ELSE [account |-> stored.summary, token |-> stored.sessions[stored.summary]]
    BY <1>5 DEF Reload, Context
  <2>2. /\ stored.summary \in Accounts \cup {<<>>} /\ stored.sessions \in [Accounts -> Nat]
        /\ stored.summary # <<>> => stored.summary \in ToSet(stored.list)
    BY DEF SessionInv, SessionTyped, SummaryListed
  <2>3. NoContext \in [account : Accounts \cup {<<>>}, token : Nat]
    BY DEF NoContext
  <2>4. active' \in [account : Accounts \cup {<<>>}, token : Nat]
    BY <2>1, <2>2, <2>3
  <2> QED
    BY <2>1, <2>2, <2>3, <2>4
       DEF SessionInv, SessionTyped, SummaryListed, ContextsStored, ActiveIsStored
<1>6. CASE StartSigning
  <2>1. /\ UNCHANGED <<stored, contexts, active>> /\ signing' = active
        /\ tally' = [tally EXCEPT !.attempts = @ + 1]
    BY <1>6 DEF StartSigning
  <2> QED
    BY <1>2, <2>1 DEF SessionInv, SessionTyped, SummaryListed, ContextsStored, ActiveIsStored
<1>7. CASE EndSigning
  <2>1. signing.token \in Nat /\ signing' = NoContext /\ tally' = tally
    BY <1>7 DEF EndSigning, SessionInv, SessionTyped, twoFactorVars
  <2>2. signing' \in [account : Accounts \cup {<<>>}, token : Nat]
    BY <2>1 DEF NoContext
  <2>3. CASE \E b \in Accounts : Adopt(Context(b, signing.token))
    BY <1>2, <2>1, <2>2, <2>3, AdoptKeeps
  <2>4. CASE UNCHANGED <<stored, contexts, active>>
    BY <1>2, <2>1, <2>2, <2>4
       DEF SessionInv, SessionTyped, SummaryListed, ContextsStored, ActiveIsStored
  <2> QED
    BY <1>7, <2>3, <2>4 DEF EndSigning, Refreshed
<1>8. CASE Anisette \/ CheckDevice
  BY <1>1, <1>2, <1>8 DEF Anisette, CheckDevice, Accepted, FailLogin
<1>9. CASE Authenticate
  <2>1. CASE AskCode
    BY <1>1, <1>2, <2>1 DEF AskCode
  <2>2. CASE FailLogin
    BY <1>1, <1>2, <2>2 DEF FailLogin
  <2>3. CASE SignIn
    <3>1. PICK b \in Accounts : Adopt(Context(b, tally.tokens + 1))
      BY <2>3 DEF SignIn
    <3>2. tally' \in [tokens : Nat, attempts : Nat, requests : Nat] /\ tally.tokens + 1 \in Nat
      BY <1>2, <2>3 DEF SignIn
    <3>3. signing' \in [account : Accounts \cup {<<>>}, token : Nat]
      BY <2>3 DEF SignIn, SessionInv, SessionTyped
    <3> QED
      BY <3>1, <3>2, <3>3, AdoptKeeps
  <2> QED
    BY <1>9, <2>1, <2>2, <2>3 DEF Authenticate
<1>10. CASE CheckSms \/ SubmitDevice \/ SubmitSms \/ CancelLogin \/ RetryLogin
  BY <1>1, <1>2, <1>10 DEF CheckSms, Accepted, SubmitDevice, SubmitSms, CancelLogin, RetryLogin
<1>11. CASE UNCHANGED sessionVars
  BY <1>1, <1>2, <1>11 DEF sessionVars
<1> QED
  BY <1>3, <1>4, <1>5, <1>6, <1>7, <1>8, <1>9, <1>10, <1>11, DeleteKeeps
     DEF SessionNext, LoginStep

\* Nobody is signed in at the start.
LEMMA SessionStarts == SessionInit => SessionInv
<1> SUFFICES ASSUME SessionInit PROVE SessionInv
  OBVIOUS
<1>1. /\ stored = [summary |-> <<>>, list |-> <<>>, sessions |-> NoSessions]
      /\ contexts = NoSessions /\ active = NoContext /\ signing = NoContext
      /\ tally = [tokens |-> 0, attempts |-> 0, requests |-> 0]
  BY DEF SessionInit
<1>2. NoSessions \in [Accounts -> Nat] /\ <<>> \in Seq(Accounts)
  BY DEF NoSessions
<1>3. NoContext \in [account : Accounts \cup {<<>>}, token : Nat]
  BY DEF NoContext
<1> QED
  BY <1>1, <1>2, <1>3
     DEF SessionInv, SessionTyped, SummaryListed, ContextsStored, ActiveIsStored

\* AccountSession: the account in use is the one that a reload signs in, with
\* the same token, and can be deleted from the list: handleLogin(), handleSign(),
\* handleSwitchAccount() and handleDeleteAccount() in any order, signing while
\* the account changes, and reloads at any time.
THEOREM ActiveStays == SessionSpec => []ActiveIsStored
<1>1. SessionInit => SessionInv
  BY SessionStarts
<1>2. SessionInv /\ [SessionNext]_sessionVars => SessionInv'
  BY AccountStep
<1>3. SessionInv => ActiveIsStored
  BY DEF SessionInv
<1> QED
  BY <1>1, <1>2, <1>3, PTL DEF SessionSpec

\* The parts of SessionTypeOK: what is kept and in use, the sign-in under way,
\* and the signing under way with what is counted.
SessionNames == Accounts \cup {<<>>}
Tokens == 0..MaxLogins
KeptTyped ==
  /\ stored \in [summary : SessionNames, list : SeqOf(Accounts, MaxSaved),
                 sessions : [Accounts -> Tokens]]
  /\ IsInjective(stored.list) /\ contexts \in [Accounts -> Tokens]
  /\ active \in [account : SessionNames, token : Tokens]
LoginTyped ==
  /\ login \in [pc : {"idle", "anisette", "auth", "code"}, cancelled : BOOLEAN,
                asked : BOOLEAN, id : {IdOf(a) : a \in Accounts} \cup {""}]
  /\ dialog \in [open : BOOLEAN, error : BOOLEAN]
  /\ promise \in [code : {"none", "typed", "cancelled"}, for : 0..MaxRequests]
  /\ checks \subseteq {"device", "sms"}
CountTyped ==
  /\ signing \in [account : SessionNames, token : Tokens]
  /\ tally \in [tokens : Tokens, attempts : 0..MaxAttempts, requests : 0..MaxRequests]

LEMMA SessionParts == SessionTypeOK <=> KeptTyped /\ LoginTyped /\ CountTyped
BY DEF SessionTypeOK, KeptTyped, LoginTyped, CountTyped, SessionNames, Tokens

\* The numbers of this module, and what is there when nothing is under way.
LEMMA SessionNumbers ==
  /\ MaxSaved \in Nat \ {0} /\ MaxLogins \in Nat /\ MaxAttempts \in Nat /\ MaxRequests \in Nat
  /\ NoContext \in [account : SessionNames, token : Tokens]
  /\ DialogClosed \in [open : BOOLEAN, error : BOOLEAN]
  /\ NoCode \in [code : {"none", "typed", "cancelled"}, for : 0..MaxRequests]
  /\ NoLogin \in [pc : {"idle", "anisette", "auth", "code"}, cancelled : BOOLEAN,
                  asked : BOOLEAN, id : {IdOf(a) : a \in Accounts} \cup {""}]
<1>1. /\ MaxSaved \in Nat \ {0} /\ MaxLogins \in Nat /\ MaxAttempts \in Nat
      /\ MaxRequests \in Nat
  BY AccountAssumption
<1> QED
  BY <1>1 DEF NoContext, SessionNames, Tokens, DialogClosed, NoCode, NoLogin

LEMMA SessionZero ==
  0 \in Tokens /\ 0 \in 0..MaxAttempts /\ 0 \in 0..MaxRequests /\ <<>> \in SessionNames
<1>1. MaxLogins \in Nat /\ MaxAttempts \in Nat /\ MaxRequests \in Nat
  BY AccountAssumption
<1> QED
  BY <1>1 DEF Tokens, SessionNames

\* A list of a bounded length is a list, and the other way round.
LEMMA BoundedList ==
  ASSUME NEW list
  PROVE  list \in SeqOf(Accounts, MaxSaved)
           <=> list \in Seq(Accounts) /\ Len(list) <= MaxSaved
<1>1. MaxSaved \in Nat
  BY SessionNumbers
<1>2. ASSUME list \in SeqOf(Accounts, MaxSaved)
      PROVE  list \in Seq(Accounts) /\ Len(list) <= MaxSaved
  <2>1. PICK m \in 0..MaxSaved : list \in [1..m -> Accounts]
    BY <1>2 DEF SeqOf
  <2> QED
    BY <1>1, <2>1
<1>3. ASSUME list \in Seq(Accounts), Len(list) <= MaxSaved
      PROVE  list \in SeqOf(Accounts, MaxSaved)
  <2>1. Len(list) \in 0..MaxSaved /\ list \in [1..Len(list) -> Accounts]
    BY <1>1, <1>3
  <2> QED
    BY <2>1 DEF SeqOf
<1> QED
  BY <1>2, <1>3

\* Adopting a context keeps the types.
LEMMA AdoptTyped ==
  ASSUME KeptTyped, NEW b \in Accounts, NEW n \in Tokens, Adopt(Context(b, n))
  PROVE  KeptTyped'
<1>1. /\ stored.list \in Seq(Accounts) /\ IsInjective(stored.list)
      /\ contexts \in [Accounts -> Tokens] /\ stored.sessions \in [Accounts -> Tokens]
  BY BoundedList DEF KeptTyped
<1>2. /\ contexts' = [contexts EXCEPT ![b] = n]
      /\ stored' = [summary |-> b, list |-> SavedList(stored.list, b),
                    sessions |-> [stored.sessions EXCEPT ![b] = n]]
      /\ active' = [account |-> b, token |-> n]
  BY DEF Adopt, Context
<1>3. /\ SavedList(stored.list, b) \in SeqOf(Accounts, MaxSaved)
      /\ IsInjective(SavedList(stored.list, b))
  BY <1>1, SavedHas, SavedOnce, BoundedList
<1>4. b \in SessionNames
  BY DEF SessionNames
<1> QED
  BY <1>1, <1>2, <1>3, <1>4 DEF KeptTyped

\* Switching to an account and deleting one keep the types.
LEMMA ListTyped ==
  ASSUME KeptTyped, NEW a \in Accounts, SwitchAccount(a) \/ DeleteAccount(a)
  PROVE  KeptTyped'
<1>1. /\ stored.list \in Seq(Accounts) /\ IsInjective(stored.list)
      /\ Len(stored.list) <= MaxSaved /\ MaxSaved \in Nat
      /\ contexts \in [Accounts -> Tokens] /\ stored.sessions \in [Accounts -> Tokens]
      /\ stored \in [summary : SessionNames, list : SeqOf(Accounts, MaxSaved),
                     sessions : [Accounts -> Tokens]]
      /\ active \in [account : SessionNames, token : Tokens]
  BY BoundedList, SessionNumbers DEF KeptTyped
<1>2. a \in SessionNames /\ <<>> \in SessionNames /\ 0 \in Tokens
  BY SessionZero DEF SessionNames
<1>3. CASE SwitchAccount(a)
  <2>1. /\ stored' = [stored EXCEPT !.summary = a] /\ UNCHANGED contexts
        /\ active' = IF contexts[a] = 0 THEN NoContext
                     ELSE [account |-> a, token |-> contexts[a]]
    BY <1>3 DEF SwitchAccount, Context
  <2>2. active' \in [account : SessionNames, token : Tokens]
    BY <1>1, <1>2, <2>1, SessionNumbers
  <2> QED
    BY <1>1, <1>2, <2>1, <2>2 DEF KeptTyped
<1>4. CASE DeleteAccount(a)
  <2> DEFINE list == Without(stored.list, a)
             summary == IF stored.summary # a THEN stored.summary
                        ELSE IF list = <<>> THEN <<>> ELSE Head(list)
  <2>1. /\ stored' = [list |-> list, sessions |-> [stored.sessions EXCEPT ![a] = 0],
                      summary |-> summary]
        /\ contexts' = [contexts EXCEPT ![a] = 0]
        /\ active' = IF active.account = a THEN NoContext ELSE active
    BY <1>4 DEF DeleteAccount, ActiveAfter
  <2>2. list \in Seq(Accounts) /\ IsInjective(list) /\ Len(list) <= Len(stored.list)
    BY <1>1, WithoutKeeps, WithoutOnce
  <2> HIDE DEF list
  <2>3. list \in SeqOf(Accounts, MaxSaved)
    <3>1. Len(list) <= MaxSaved
      BY <1>1, <2>2
    <3> QED
      BY <2>2, <3>1, BoundedList
  <2>4. summary \in SessionNames
    <3>1. list # <<>> => Head(list) \in Accounts
      BY <2>2
    <3> QED
      BY <1>1, <1>2, <3>1 DEF SessionNames
  <2> HIDE DEF summary
  <2>5. active' \in [account : SessionNames, token : Tokens]
    BY <1>1, <2>1, SessionNumbers
  <2>6. /\ [stored.sessions EXCEPT ![a] = 0] \in [Accounts -> Tokens]
        /\ contexts' \in [Accounts -> Tokens]
    BY <1>1, <1>2, <2>1
  <2> QED
    BY <2>1, <2>2, <2>3, <2>4, <2>5, <2>6 DEF KeptTyped
<1> QED
  BY <1>3, <1>4

\* The steps of a sign-in keep its types.
LEMMA LoginStaysTyped ==
  ASSUME LoginTyped, CountTyped,
         \/ \E a \in Accounts : StartLogin(IdOf(a))
         \/ LoginStep \/ CheckSms \/ SubmitDevice \/ SubmitSms \/ CancelLogin \/ RetryLogin
         \/ Reload
  PROVE  LoginTyped'
<1>1. tally.requests \in 0..MaxRequests
  BY DEF CountTyped
<1>2. \A code \in {"typed", "cancelled"} :
        Resolved(code) \in [code : {"none", "typed", "cancelled"}, for : 0..MaxRequests]
  BY <1>1 DEF Resolved, LoginTyped
<1>3. DeviceCheck \subseteq {"device", "sms"}
  BY DEF DeviceCheck, LoginTyped
<1>4. ASSUME FailLogin PROVE LoginTyped'
  BY <1>4, SessionNumbers DEF FailLogin, LoginTyped
<1>5. ASSUME Accepted PROVE LoginTyped'
  BY <1>5 DEF Accepted, LoginTyped
<1>6. ASSUME NEW a \in Accounts, StartLogin(IdOf(a)) PROVE LoginTyped'
  BY <1>6, SessionNumbers DEF StartLogin, LoginTyped, NoLogin
<1>7. CASE Anisette
  BY <1>4, <1>7 DEF Anisette, LoginTyped
<1>8. CASE AskCode
  BY <1>8 DEF AskCode, LoginTyped
<1>9. CASE SignIn
  BY <1>9, SessionNumbers DEF SignIn, LoginTyped
<1>10. CASE CheckDevice \/ CheckSms
  BY <1>4, <1>5, <1>10 DEF CheckDevice, CheckSms, LoginTyped
<1>11. CASE SubmitDevice \/ SubmitSms
  BY <1>2, <1>3, <1>11 DEF SubmitDevice, SubmitSms, LoginTyped
<1>12. CASE CancelLogin \/ RetryLogin
  BY <1>2, <1>3, <1>12, SessionNumbers, ZenonT(60) DEF CancelLogin, RetryLogin, LoginTyped
<1>13. CASE Reload
  BY <1>13, SessionNumbers DEF Reload, LoginTyped
<1> QED
  BY <1>4, <1>6, <1>7, <1>8, <1>9, <1>10, <1>11, <1>12, <1>13 DEF LoginStep, Authenticate

\* What is counted stays within its bounds.
LEMMA TallyTyped ==
  ASSUME CountTyped, KeptTyped, [SessionNext]_sessionVars
  PROVE  CountTyped'
<1>1. /\ tally \in [tokens : Tokens, attempts : 0..MaxAttempts, requests : 0..MaxRequests]
      /\ signing \in [account : SessionNames, token : Tokens]
      /\ active \in [account : SessionNames, token : Tokens]
      /\ MaxLogins \in Nat /\ MaxAttempts \in Nat /\ MaxRequests \in Nat
  BY SessionNumbers DEF CountTyped, KeptTyped
<1>2. ASSUME UNCHANGED <<signing, tally>> PROVE CountTyped'
  BY <1>1, <1>2 DEF CountTyped
<1>3. ASSUME NEW a \in Accounts, SwitchAccount(a) \/ DeleteAccount(a) PROVE CountTyped'
  BY <1>2, <1>3 DEF SwitchAccount, DeleteAccount
<1>4. tally.attempts < MaxAttempts => tally.attempts + 1 \in 0..MaxAttempts
  BY <1>1
<1>5. ASSUME NEW a \in Accounts, StartLogin(IdOf(a)) PROVE CountTyped'
  <2> DEFINE n == tally.attempts + 1
  <2>1. /\ UNCHANGED signing /\ n \in 0..MaxAttempts /\ 0 \in 0..MaxRequests
        /\ tally' = [tally EXCEPT !.attempts = n, !.requests = 0]
    BY <1>1, <1>4, <1>5 DEF StartLogin
  <2> HIDE DEF n
  <2> QED
    BY <1>1, <2>1 DEF CountTyped
<1>6. CASE StartSigning
  <2> DEFINE n == tally.attempts + 1
  <2>1. signing' = active /\ n \in 0..MaxAttempts /\ tally' = [tally EXCEPT !.attempts = n]
    BY <1>1, <1>4, <1>6 DEF StartSigning
  <2> HIDE DEF n
  <2> QED
    BY <1>1, <2>1 DEF CountTyped
<1>7. CASE EndSigning \/ Reload
  BY <1>1, <1>7, SessionNumbers DEF EndSigning, Reload, CountTyped
<1>8. CASE AskCode
  <2> DEFINE n == tally.requests + 1
  <2>1. UNCHANGED signing /\ n \in 0..MaxRequests /\ tally' = [tally EXCEPT !.requests = n]
    BY <1>1, <1>8 DEF AskCode
  <2> HIDE DEF n
  <2> QED
    BY <1>1, <2>1 DEF CountTyped
<1>9. CASE SignIn
  <2> DEFINE n == tally.tokens + 1
  <2>1. UNCHANGED signing /\ n \in Tokens /\ tally' = [tally EXCEPT !.tokens = n]
    BY <1>1, <1>9 DEF SignIn, Tokens
  <2> HIDE DEF n
  <2> QED
    BY <1>1, <2>1 DEF CountTyped
<1>10. CASE Anisette \/ (login.pc = "auth" /\ FailLogin) \/ CheckDevice \/ CheckSms
            \/ SubmitDevice \/ SubmitSms \/ CancelLogin \/ RetryLogin
  BY <1>2, <1>10
     DEF Anisette, FailLogin, CheckDevice, CheckSms, Accepted, SubmitDevice, SubmitSms,
         CancelLogin, RetryLogin
<1>11. CASE UNCHANGED sessionVars
  BY <1>2, <1>11 DEF sessionVars
<1> QED
  BY <1>3, <1>5, <1>6, <1>7, <1>8, <1>9, <1>10, <1>11
     DEF SessionNext, LoginStep, Authenticate

\* AccountSession's types: an account is on the saved list once, which never
\* grows past MAX_SAVED_ACCOUNTS, however accounts are signed in, used, switched
\* and deleted.
THEOREM AccountTypesCorrect == SessionSpec => []SessionTypeOK
<1>1. SessionInit => SessionInv /\ SessionTypeOK
  <2>1. ASSUME SessionInit PROVE KeptTyped /\ LoginTyped /\ CountTyped
    <3>1. /\ <<>> \in SeqOf(Accounts, MaxSaved) /\ IsInjective(<<>>)
          /\ NoSessions \in [Accounts -> Tokens] /\ <<>> \in SessionNames
          /\ 0 \in Tokens /\ 0 \in 0..MaxAttempts /\ 0 \in 0..MaxRequests
      <4>1. MaxSaved \in Nat
        BY SessionNumbers
      <4>2. <<>> \in [1..0 -> Accounts] /\ 0 \in 0..MaxSaved
        BY <4>1
      <4>3. <<>> \in SeqOf(Accounts, MaxSaved)
        BY <4>2 DEF SeqOf
      <4> QED
        BY <4>3, SessionZero DEF IsInjective, NoSessions
    <3> QED
      BY <2>1, <3>1, SessionNumbers DEF SessionInit, KeptTyped, LoginTyped, CountTyped
  <2> QED
    BY <2>1, SessionStarts, SessionParts
<1>2. SessionInv /\ SessionTypeOK /\ [SessionNext]_sessionVars => (SessionInv /\ SessionTypeOK)'
  <2>1. SUFFICES ASSUME SessionInv, KeptTyped, LoginTyped, CountTyped,
                        [SessionNext]_sessionVars
                 PROVE  KeptTyped' /\ LoginTyped'
    BY AccountStep, SessionParts, TallyTyped
       DEF SessionTypeOK, KeptTyped, LoginTyped, CountTyped, SessionNames, Tokens
  <2>2. ASSUME UNCHANGED <<stored, contexts, active>> PROVE KeptTyped'
    BY <2>1, <2>2 DEF KeptTyped
  <2>3. ASSUME UNCHANGED twoFactorVars PROVE LoginTyped'
    BY <2>1, <2>3 DEF LoginTyped, twoFactorVars
  <2>4. ASSUME NEW a \in Accounts, SwitchAccount(a) \/ DeleteAccount(a)
        PROVE  KeptTyped' /\ LoginTyped'
    BY <2>1, <2>3, <2>4, ListTyped DEF SwitchAccount, DeleteAccount
  <2>5. ASSUME NEW a \in Accounts, StartLogin(IdOf(a))
        PROVE  KeptTyped' /\ LoginTyped'
    BY <2>1, <2>2, <2>5, LoginStaysTyped DEF StartLogin
  <2>6. CASE Reload
    <3>1. KeptTyped'
      BY <2>1, <2>6, SessionNumbers DEF Reload, KeptTyped, SessionNames, Context
    <3> QED
      BY <2>1, <2>6, <3>1, LoginStaysTyped
  <2>7. CASE StartSigning
    BY <2>2, <2>3, <2>7 DEF StartSigning
  <2>8. CASE EndSigning
    <3>1. UNCHANGED twoFactorVars /\ signing.token \in Tokens
      BY <2>1, <2>8 DEF EndSigning, CountTyped
    <3> QED
      BY <2>1, <2>2, <2>3, <2>8, <3>1, AdoptTyped DEF EndSigning, Refreshed
  <2>9. CASE SignIn
    <3>1. LoginTyped'
      BY <2>1, <2>9, LoginStaysTyped DEF LoginStep, Authenticate
    <3>2. tally.tokens + 1 \in Tokens
      <4>1. tally.tokens \in Tokens /\ tally.tokens < MaxLogins /\ MaxLogins \in Nat
        BY <2>1, <2>9, SessionNumbers DEF SignIn, CountTyped
      <4> QED
        BY <4>1 DEF Tokens
    <3> QED
      BY <2>1, <2>9, <3>1, <3>2, AdoptTyped DEF SignIn
  <2>10. CASE Anisette \/ AskCode \/ (login.pc = "auth" /\ FailLogin) \/ CheckDevice
              \/ CheckSms \/ SubmitDevice \/ SubmitSms \/ CancelLogin \/ RetryLogin
    <3>1. LoginTyped'
      BY <2>1, <2>10, LoginStaysTyped DEF LoginStep, Authenticate
    <3>2. UNCHANGED <<stored, contexts, active>>
      BY <2>10 DEF Anisette, AskCode, FailLogin, CheckDevice, CheckSms, Accepted,
                   SubmitDevice, SubmitSms, CancelLogin, RetryLogin
    <3> QED
      BY <2>2, <3>1, <3>2
  <2>11. CASE UNCHANGED sessionVars
    BY <2>2, <2>3, <2>11 DEF sessionVars, twoFactorVars
  <2> QED
    BY <2>1, <2>4, <2>5, <2>6, <2>7, <2>8, <2>9, <2>10, <2>11
       DEF SessionNext, LoginStep, Authenticate
<1>3. SessionInv /\ SessionTypeOK => SessionTypeOK
  OBVIOUS
<1> QED
  BY <1>1, <1>2, <1>3, PTL DEF SessionSpec

-----------------------------------------------------------------------------
(* AppleSigning: a package that was signed can be installed.               *)

Exts == UNION {a.exts : a \in Apps}
Profiles == [certs : SUBSET Nat, device : BOOLEAN, group : BOOLEAN]
EmbeddedProfiles == [ext : Exts, profile : Profiles]

RunStates ==
  [pc : {"idle", "certificates", "create", "revoke", "device", "app id", "group", "enable",
         "assign", "profile", "extensions", "revoking"},
   app : Apps \cup {NoApp}, cached : Nat, certs : SUBSET Nat, cert : Nat, retry : BOOLEAN,
   profile : Profiles, exts : SUBSET Exts, embedded : SUBSET EmbeddedProfiles]

SigningTyped ==
  /\ flow \in [Flows -> RunStates]
  /\ cache \in Nat
  /\ portal \in [certs : SUBSET Nat, device : BOOLEAN, ids : {portal.ids},
                groups : {portal.groups}, enabled : {portal.enabled},
                assigned : {portal.assigned}]
  /\ used \in [made : Nat, runs : Nat]

\* A profile is good for a certificate, with these revoked.
Good(pr, cert, gone) == (cert \in pr.certs \/ cert \in gone) /\ pr.device

\* What a call r of signIpaWithAppleContext() has reached at its place, with
\* the portal p and the revoked certificates gone.
RunSound(r, p, gone) ==
  /\ r.pc \notin {"idle", "certificates", "create", "revoke", "revoking"} =>
       r.cert \in p.certs \/ r.cert \in gone
  /\ r.pc \in {"app id", "group", "enable", "assign", "profile", "extensions"} => p.device
  /\ HasGroup(r.app) =>
       /\ r.pc \in {"assign", "profile", "extensions"} => r.app.id \in p.enabled
       /\ r.pc \in {"profile", "extensions"} => <<r.app.id, GroupOf(r.app)>> \in p.assigned
  /\ r.pc \notin {"idle", "extensions", "revoking"} => r.exts = r.app.exts /\ r.embedded = {}
  /\ r.pc = "extensions" =>
       /\ Good(r.profile, r.cert, gone) /\ (HasGroup(r.app) => r.profile.group)
       /\ \A x \in r.embedded : Good(x.profile, r.cert, gone)
       /\ r.exts \subseteq r.app.exts
       /\ {x.ext : x \in r.embedded} = (r.app.exts \ r.app.bare) \ r.exts

\* The inductive invariant of AppleSigning.
SigningInv ==
  /\ SigningTyped /\ PackageInstallable
  /\ \A f \in Flows : RunSound(flow[f], portal, revoked)

\* No step takes from the portal what a call relies on, but certificates, and
\* those become revoked.
Grows(p, gone, p2, gone2) ==
  /\ \A c \in p.certs : c \in p2.certs \/ c \in gone2
  /\ gone \subseteq gone2 /\ (p.device => p2.device)
  /\ p.enabled \subseteq p2.enabled /\ p.assigned \subseteq p2.assigned

LEMMA SoundStays ==
  ASSUME NEW r, NEW p, NEW gone, NEW p2, NEW gone2,
         RunSound(r, p, gone), Grows(p, gone, p2, gone2)
  PROVE  RunSound(r, p2, gone2)
BY DEF RunSound, Grows, Good

\* A call goes on to the sound record r, and nothing is signed.
LEMMA RunGoes ==
  ASSUME SigningInv, NEW f \in Flows, NEW r \in RunStates, SigningGoes(f, r),
         Grows(portal, revoked, portal', revoked'), RunSound(r, portal', revoked'),
         SigningTyped', packages' = packages
  PROVE  SigningInv'
<1>1. flow \in [Flows -> RunStates] /\ flow' = [flow EXCEPT ![f] = r]
  BY DEF SigningInv, SigningTyped, SigningGoes
<1>2. ASSUME NEW g \in Flows PROVE RunSound(flow'[g], portal', revoked')
  <2>1. CASE g = f
    BY <1>1, <2>1
  <2>2. CASE g # f
    <3>1. flow'[g] = flow[g] /\ RunSound(flow[g], portal, revoked)
      BY <1>1, <2>2 DEF SigningInv
    <3> QED
      BY <3>1, SoundStays
  <2> QED
    BY <2>1, <2>2
<1>3. PackageInstallable'
  BY DEF SigningInv, PackageInstallable, Grows
<1> QED
  BY <1>2, <1>3 DEF SigningInv

\* A call that is over relies on nothing.
LEMMA RestsSound ==
  Rests \in RunStates /\ \A p, gone : RunSound(Rests, p, gone)
BY DEF Rests, RunStates, NoApp, NoProfile, Profiles, RunSound, HasGroup

\* A call moves to another place, and may set no more than what is named.
LEMMA RunMoves ==
  ASSUME SigningInv, NEW f \in Flows, NEW pc \in {"device", "app id", "group", "enable",
                                                 "assign", "profile", "extensions", "create"},
         To(f, pc), Grows(portal, revoked, portal', revoked'),
         RunSound([flow[f] EXCEPT !.pc = pc], portal', revoked'),
         SigningTyped', packages' = packages
  PROVE  SigningInv'
<1>1. flow[f] \in RunStates
  BY DEF SigningInv, SigningTyped
<1>2. [flow[f] EXCEPT !.pc = pc] \in RunStates
  BY <1>1 DEF RunStates
<1> QED
  BY <1>2, RunGoes DEF To

\* The flows stay records of a call when one of them becomes such a record.
LEMMA FlowTypedGoes ==
  ASSUME SigningInv, NEW f \in Flows, NEW r \in RunStates, SigningGoes(f, r)
  PROVE  flow' \in [Flows -> RunStates]
BY DEF SigningInv, SigningTyped, SigningGoes

\* A call may end anywhere.
LEMMA RunRests ==
  ASSUME SigningInv, NEW f \in Flows, SigningGoes(f, Rests),
         Grows(portal, revoked, portal', revoked'), UNCHANGED packages,
         cache' \in Nat, used' \in [made : Nat, runs : Nat],
         portal' \in [certs : SUBSET Nat, device : BOOLEAN, ids : {portal'.ids},
                      groups : {portal'.groups}, enabled : {portal'.enabled},
                      assigned : {portal'.assigned}]
  PROVE  SigningInv'
<1>1. SigningTyped'
  BY RestsSound, FlowTypedGoes DEF SigningTyped
<1>2. RunSound(Rests, portal', revoked')
  BY RestsSound
<1> QED
  BY <1>1, <1>2, RestsSound, RunGoes

\* Nothing is lost when nothing changes.
LEMMA GrowsNot == ASSUME UNCHANGED <<portal, revoked>> PROVE Grows(portal, revoked, portal', revoked')
BY DEF Grows

\* Requests and the choice of a certificate keep the invariant.
LEMMA CertificateKeeps ==
  ASSUME SigningInv, NEW f \in Flows,
         \/ \E pkg \in Apps : StartRun(f, pkg)
         \/ FetchCertificates(f) \/ CreateCertificate(f) \/ LimitReached(f) \/ RevokeOldest(f)
         \/ Rejects(f)
  PROVE  SigningInv'
<1>1. /\ flow[f] \in RunStates /\ cache \in Nat /\ used \in [made : Nat, runs : Nat]
      /\ portal \in [certs : SUBSET Nat, device : BOOLEAN, ids : {portal.ids},
                      groups : {portal.groups}, enabled : {portal.enabled},
                      assigned : {portal.assigned}]
      /\ RunSound(flow[f], portal, revoked)
  BY DEF SigningInv, SigningTyped
<1>2. ASSUME NEW pkg \in Apps, StartRun(f, pkg) PROVE SigningInv'
  <2> DEFINE r == [Rests EXCEPT !.pc = "certificates", !.app = pkg, !.cached = cache,
                                !.exts = pkg.exts]
  <2>1. /\ SigningGoes(f, r) /\ UNCHANGED <<portal, cache, packages, revoked>>
        /\ used' = [used EXCEPT !.runs = @ + 1]
    BY <1>2 DEF StartRun
  <2>2. r \in RunStates /\ RunSound(r, portal, revoked)
    <3>1. pkg.exts \subseteq Exts
      BY DEF Exts
    <3> QED
      BY <1>1, <3>1, RestsSound, ZenonT(60) DEF Rests, RunStates, RunSound
  <2>3. used' \in [made : Nat, runs : Nat]
    BY <1>1, <2>1
  <2> HIDE DEF r
  <2>4. SigningTyped'
    BY <1>1, <2>1, <2>2, <2>3, FlowTypedGoes DEF SigningTyped
  <2> QED
    BY <2>1, <2>2, <2>4, GrowsNot, RunGoes
<1>3. CASE FetchCertificates(f)
  <2>1. PICK r : /\ SigningGoes(f, r)
                 /\ \/ /\ flow[f].cached \in portal.certs
                       /\ r = [flow[f] EXCEPT !.pc = "device", !.cert = flow[f].cached]
                    \/ r = [flow[f] EXCEPT !.pc = "create", !.certs = portal.certs]
    BY <1>3 DEF FetchCertificates
  <2>2. UNCHANGED <<portal, cache, packages, revoked, used>> /\ flow[f].pc = "certificates"
    BY <1>3 DEF FetchCertificates, SigningAt
  <2>3. r \in RunStates
    <3>1. portal.certs \in SUBSET Nat /\ flow[f].cached \in Nat
      BY <1>1 DEF RunStates
    <3>2. CASE r = [flow[f] EXCEPT !.pc = "device", !.cert = flow[f].cached]
      BY <1>1, <3>1, <3>2 DEF RunStates
    <3>3. CASE r = [flow[f] EXCEPT !.pc = "create", !.certs = portal.certs]
      BY <1>1, <3>1, <3>3 DEF RunStates
    <3> QED
      BY <2>1, <3>2, <3>3
  <2>4. RunSound(r, portal, revoked)
    BY <1>1, <2>1, <2>2, ZenonT(60) DEF RunSound, RunStates
  <2>5. SigningTyped'
    BY <1>1, <2>1, <2>2, <2>3, FlowTypedGoes DEF SigningTyped
  <2> QED
    BY <2>1, <2>2, <2>3, <2>4, <2>5, GrowsNot, RunGoes
<1>4. CASE CreateCertificate(f)
  <2> DEFINE c == used.made + 1
  <2>1. /\ portal' = [portal EXCEPT !.certs = @ \cup {c}] /\ used' = [used EXCEPT !.made = c]
        /\ flow[f].pc = "create" /\ UNCHANGED <<packages, revoked>>
        /\ \/ cache' = c /\ SigningGoes(f, [flow[f] EXCEPT !.pc = "device", !.cert = c])
           \/ cache' = cache /\ SigningGoes(f, Rests)
    BY <1>4 DEF CreateCertificate, SigningAt
  <2>2. c \in Nat
    BY <1>1
  <2> HIDE DEF c
  <2>3. /\ portal' \in [certs : SUBSET Nat, device : BOOLEAN, ids : {portal'.ids},
                         groups : {portal'.groups}, enabled : {portal'.enabled},
                         assigned : {portal'.assigned}]
        /\ c \in portal'.certs /\ Grows(portal, revoked, portal', revoked')
        /\ used' \in [made : Nat, runs : Nat] /\ cache' \in Nat
    BY <1>1, <2>1, <2>2 DEF Grows
  <2>4. CASE SigningGoes(f, Rests)
    BY <2>1, <2>3, <2>4, RunRests
  <2>5. CASE SigningGoes(f, [flow[f] EXCEPT !.pc = "device", !.cert = c])
    <3> DEFINE r == [flow[f] EXCEPT !.pc = "device", !.cert = c]
    <3>1. r \in RunStates
      BY <1>1, <2>2 DEF RunStates
    <3>2. RunSound(r, portal', revoked')
      BY <1>1, <2>1, <2>3 DEF RunSound, RunStates
    <3> HIDE DEF r
    <3>3. SigningGoes(f, r)
      BY <2>5 DEF r
    <3>4. SigningTyped'
      BY <2>3, <3>1, <3>3, FlowTypedGoes DEF SigningTyped
    <3> QED
      BY <2>1, <2>3, <3>1, <3>2, <3>3, <3>4, RunGoes
  <2> QED
    BY <2>1, <2>4, <2>5
<1>5. CASE LimitReached(f)
  <2>1. /\ UNCHANGED <<portal, cache, packages, revoked, used>> /\ flow[f].pc = "create"
        /\ \/ SigningGoes(f, Rests)
           \/ SigningGoes(f, [flow[f] EXCEPT !.pc = "revoke", !.retry = TRUE])
    BY <1>5 DEF LimitReached, SigningAt
  <2>2. CASE SigningGoes(f, Rests)
    BY <1>1, <2>1, <2>2, GrowsNot, RunRests
  <2>3. CASE SigningGoes(f, [flow[f] EXCEPT !.pc = "revoke", !.retry = TRUE])
    <3> DEFINE r == [flow[f] EXCEPT !.pc = "revoke", !.retry = TRUE]
    <3>1. r \in RunStates /\ RunSound(r, portal, revoked)
      BY <1>1, <2>1 DEF RunStates, RunSound
    <3> HIDE DEF r
    <3>2. SigningGoes(f, r)
      BY <2>3 DEF r
    <3>3. SigningTyped'
      BY <1>1, <2>1, <3>1, <3>2, FlowTypedGoes DEF SigningTyped
    <3> QED
      BY <2>1, <3>1, <3>2, <3>3, GrowsNot, RunGoes
  <2> QED
    BY <2>1, <2>2, <2>3
<1>6. CASE RevokeOldest(f)
  <2>1. PICK c \in Nat : /\ portal' = [portal EXCEPT !.certs = @ \ {c}]
                         /\ revoked' = revoked \cup {c}
    BY <1>1, <1>6 DEF RevokeOldest
  <2>2. To(f, "create") /\ UNCHANGED <<cache, packages, used>> /\ flow[f].pc = "revoke"
    BY <1>6 DEF RevokeOldest, SigningAt
  <2>3. /\ portal' \in [certs : SUBSET Nat, device : BOOLEAN, ids : {portal'.ids},
                         groups : {portal'.groups}, enabled : {portal'.enabled},
                         assigned : {portal'.assigned}]
        /\ Grows(portal, revoked, portal', revoked')
    BY <1>1, <2>1 DEF Grows
  <2>4. RunSound([flow[f] EXCEPT !.pc = "create"], portal', revoked')
    BY <1>1, <2>2 DEF RunSound, RunStates
  <2>5. SigningTyped'
    <3>1. [flow[f] EXCEPT !.pc = "create"] \in RunStates
      BY <1>1 DEF RunStates
    <3> QED
      BY <1>1, <2>2, <2>3, <3>1, FlowTypedGoes DEF SigningTyped, To
  <2> QED
    BY <2>2, <2>3, <2>4, <2>5, RunMoves
<1>7. CASE Rejects(f)
  BY <1>1, <1>7, GrowsNot, RunRests DEF Rejects
<1> QED
  BY <1>2, <1>3, <1>4, <1>5, <1>6, <1>7

\* Registering the device, the App ID and its group keeps the invariant.
LEMMA RegisterKeeps ==
  ASSUME SigningInv, NEW f \in Flows,
         RegisterDevice(f) \/ EnsureAppId(f) \/ EnsureGroup(f) \/ EnableGroups(f) \/ AssignGroup(f)
  PROVE  SigningInv'
<1>1. /\ flow[f] \in RunStates /\ cache \in Nat /\ used \in [made : Nat, runs : Nat]
      /\ portal \in [certs : SUBSET Nat, device : BOOLEAN, ids : {portal.ids},
                      groups : {portal.groups}, enabled : {portal.enabled},
                      assigned : {portal.assigned}]
      /\ RunSound(flow[f], portal, revoked)
  BY DEF SigningInv, SigningTyped
<1> DEFINE a == flow[f].app
           Typed == portal' \in [certs : SUBSET Nat, device : BOOLEAN, ids : {portal'.ids},
                                 groups : {portal'.groups}, enabled : {portal'.enabled},
                                 assigned : {portal'.assigned}]
<1>2. ASSUME NEW pc \in {"app id", "group", "enable", "assign", "profile"},
             To(f, pc), UNCHANGED <<cache, packages, revoked, used>>, Typed,
             Grows(portal, revoked, portal', revoked'),
             RunSound([flow[f] EXCEPT !.pc = pc], portal', revoked')
      PROVE  SigningInv'
  <2>1. [flow[f] EXCEPT !.pc = pc] \in RunStates
    BY <1>1 DEF RunStates
  <2>2. SigningTyped'
    BY <1>1, <1>2, <2>1, FlowTypedGoes DEF SigningTyped, To
  <2> QED
    BY <1>2, <2>2, RunMoves
<1>3. CASE RegisterDevice(f)
  <2>1. /\ portal' = [portal EXCEPT !.device = TRUE] /\ To(f, "app id") /\ flow[f].pc = "device"
        /\ UNCHANGED <<cache, packages, revoked, used>>
    BY <1>3 DEF RegisterDevice, SigningAt
  <2>2. Typed /\ Grows(portal, revoked, portal', revoked')
    BY <1>1, <2>1 DEF Grows
  <2>3. RunSound([flow[f] EXCEPT !.pc = "app id"], portal', revoked')
    BY <1>1, <2>1 DEF RunSound, RunStates
  <2> QED
    BY <1>2, <2>1, <2>2, <2>3
<1>4. CASE EnsureAppId(f)
  <2>1. /\ portal' = [portal EXCEPT !.ids = @ \cup {a.id}] /\ flow[f].pc = "app id"
        /\ UNCHANGED <<cache, packages, revoked, used>>
        /\ \/ HasGroup(a) /\ To(f, "group")
           \/ ~HasGroup(a) /\ To(f, "profile")
    BY <1>4 DEF EnsureAppId, SigningAt, AfterAppId
  <2>2. Typed /\ Grows(portal, revoked, portal', revoked')
    BY <1>1, <2>1 DEF Grows
  <2>3. RunSound([flow[f] EXCEPT !.pc = "group"], portal', revoked')
    BY <1>1, <2>1 DEF RunSound, RunStates
  <2>4. ASSUME ~HasGroup(a) PROVE RunSound([flow[f] EXCEPT !.pc = "profile"], portal', revoked')
    BY <1>1, <2>1, <2>4 DEF RunSound, RunStates
  <2> QED
    BY <1>2, <2>1, <2>2, <2>3, <2>4
<1>5. CASE EnsureGroup(f)
  <2>1. /\ portal' = [portal EXCEPT !.groups = @ \cup {GroupOf(a)}] /\ flow[f].pc = "group"
        /\ UNCHANGED <<cache, packages, revoked, used>> /\ To(f, "enable")
    BY <1>5 DEF EnsureGroup, SigningAt
  <2>2. Typed /\ Grows(portal, revoked, portal', revoked')
    BY <1>1, <2>1 DEF Grows
  <2>3. RunSound([flow[f] EXCEPT !.pc = "enable"], portal', revoked')
    BY <1>1, <2>1 DEF RunSound, RunStates
  <2> QED
    BY <1>2, <2>1, <2>2, <2>3
<1>6. CASE EnableGroups(f)
  <2>1. /\ portal' = [portal EXCEPT !.enabled = @ \cup {a.id}] /\ flow[f].pc = "enable"
        /\ UNCHANGED <<cache, packages, revoked, used>> /\ To(f, "assign")
    BY <1>6 DEF EnableGroups, SigningAt
  <2>2. Typed /\ Grows(portal, revoked, portal', revoked') /\ a.id \in portal'.enabled
    BY <1>1, <2>1 DEF Grows
  <2>3. RunSound([flow[f] EXCEPT !.pc = "assign"], portal', revoked')
    BY <1>1, <2>1, <2>2 DEF RunSound, RunStates
  <2> QED
    BY <1>2, <2>1, <2>2, <2>3
<1>7. CASE AssignGroup(f)
  <2>1. /\ portal' = [portal EXCEPT !.assigned = @ \cup {<<a.id, GroupOf(a)>>}]
        /\ flow[f].pc = "assign"
        /\ UNCHANGED <<cache, packages, revoked, used>> /\ To(f, "profile")
    BY <1>7 DEF AssignGroup, SigningAt
  <2>2. /\ Typed /\ Grows(portal, revoked, portal', revoked')
        /\ <<a.id, GroupOf(a)>> \in portal'.assigned /\ portal'.enabled = portal.enabled
    BY <1>1, <2>1 DEF Grows
  <2>3. RunSound([flow[f] EXCEPT !.pc = "profile"], portal', revoked')
    BY <1>1, <2>1, <2>2 DEF RunSound, RunStates
  <2> QED
    BY <1>2, <2>1, <2>2, <2>3
<1> QED
  BY <1>3, <1>4, <1>5, <1>6, <1>7

\* One more embedded profile is one more extension that has one.
LEMMA NamesGrow ==
  ASSUME NEW S, NEW e, NEW q
  PROVE  {x.ext : x \in S \cup {[ext |-> e, profile |-> q]}} = {x.ext : x \in S} \cup {e}
<1>1. [ext |-> e, profile |-> q].ext = e
  OBVIOUS
<1> QED
  BY <1>1, Zenon

\* Profiles, those of the app and of its extensions, keep the invariant.
LEMMA ProfileKeeps ==
  ASSUME SigningInv, NEW f \in Flows,
         FetchProfile(f) \/ EmbedExtension(f) \/ SkipExtension(f)
  PROVE  SigningInv'
<1>1. /\ flow[f] \in RunStates /\ cache \in Nat /\ used \in [made : Nat, runs : Nat]
      /\ portal \in [certs : SUBSET Nat, device : BOOLEAN, ids : {portal.ids},
                      groups : {portal.groups}, enabled : {portal.enabled},
                      assigned : {portal.assigned}]
      /\ RunSound(flow[f], portal, revoked)
  BY DEF SigningInv, SigningTyped
<1> DEFINE a == flow[f].app
           g == GroupOf(flow[f].app)
<1>2. CASE FetchProfile(f)
  <2>1. PICK q : q = ProfileFor(portal, a.id, g)
    OBVIOUS
  <2>2. PICK r : r = [flow[f] EXCEPT !.pc = "extensions", !.profile = q]
    OBVIOUS
  <2>3. /\ SigningGoes(f, r) /\ UNCHANGED <<portal, cache, packages, revoked, used>>
        /\ flow[f].pc = "profile"
    BY <1>2, <2>1, <2>2 DEF FetchProfile, SigningAt
  <2>4. /\ q \in Profiles /\ q.certs = portal.certs /\ q.device = portal.device
        /\ q.group = (a.id \in portal.enabled /\ <<a.id, g>> \in portal.assigned)
    BY <1>1, <2>1 DEF ProfileFor, Profiles
  <2>5. r \in RunStates
    BY <1>1, <2>2, <2>4 DEF RunStates
  <2>6. RunSound(r, portal, revoked)
    <3>1. /\ r.pc = "extensions" /\ r.app = a /\ r.cert = flow[f].cert /\ r.profile = q
          /\ r.exts = flow[f].exts /\ r.embedded = flow[f].embedded
      BY <1>1, <2>2 DEF RunStates
    <3>2. /\ flow[f].cert \in portal.certs \/ flow[f].cert \in revoked
          /\ portal.device /\ flow[f].exts = a.exts /\ flow[f].embedded = {}
          /\ HasGroup(a) => a.id \in portal.enabled /\ <<a.id, g>> \in portal.assigned
      BY <1>1, <2>3 DEF RunSound
    <3> QED
      BY <2>4, <3>1, <3>2 DEF RunSound, Good
  <2>7. SigningTyped'
    BY <1>1, <2>3, <2>5, FlowTypedGoes DEF SigningTyped
  <2> QED
    BY <2>3, <2>5, <2>6, <2>7, GrowsNot, RunGoes
<1>3. CASE EmbedExtension(f)
  <2>1. PICK e \in flow[f].exts \ a.bare :
          /\ \E on \in SUBSET (IF HasGroup(a) THEN {e} ELSE {}) : \E put \in SUBSET on :
               portal' = [portal EXCEPT !.ids = @ \cup {e}, !.enabled = @ \cup on,
                                        !.assigned = @ \cup (put \X {g})]
          /\ SigningGoes(f, [flow[f] EXCEPT !.exts = @ \ {e}, !.embedded = @ \cup
                               {[ext |-> e, profile |-> ProfileFor(portal', e, g)]}])
    BY <1>3 DEF EmbedExtension
  <2>2. flow[f].pc = "extensions" /\ UNCHANGED <<cache, packages, revoked, used>>
    BY <1>3 DEF EmbedExtension, SigningAt
  <2>3. /\ portal' \in [certs : SUBSET Nat, device : BOOLEAN, ids : {portal'.ids},
                         groups : {portal'.groups}, enabled : {portal'.enabled},
                         assigned : {portal'.assigned}]
        /\ portal'.certs = portal.certs /\ portal'.device = portal.device
        /\ Grows(portal, revoked, portal', revoked')
    <3>1. PICK on, put : portal' = [portal EXCEPT !.ids = @ \cup {e}, !.enabled = @ \cup on,
                                                  !.assigned = @ \cup (put \X {g})]
      BY <2>1
    <3> DEFINE assigned == portal.assigned \cup (put \X {g})
    <3>2. portal.assigned \subseteq assigned
      OBVIOUS
    <3>3. portal' = [certs |-> portal.certs, device |-> portal.device,
                     ids |-> portal.ids \cup {e}, groups |-> portal.groups,
                     enabled |-> portal.enabled \cup on, assigned |-> assigned]
      BY <1>1, <3>1
    <3> HIDE DEF assigned
    <3> QED
      BY <1>1, <2>2, <3>2, <3>3 DEF Grows
  <2>4. PICK q : q = ProfileFor(portal', e, g)
    OBVIOUS
  <2>5. q \in Profiles /\ q.certs = portal.certs /\ q.device = portal.device
    BY <2>3, <2>4 DEF ProfileFor, Profiles
  <2>6. PICK r : r = [flow[f] EXCEPT !.exts = @ \ {e},
                                     !.embedded = @ \cup {[ext |-> e, profile |-> q]}]
    OBVIOUS
  <2>7. SigningGoes(f, r)
    BY <2>1, <2>4, <2>6
  <2>8. r \in RunStates
    <3>1. e \in Exts /\ [ext |-> e, profile |-> q] \in EmbeddedProfiles
      BY <1>1, <2>5 DEF RunStates, EmbeddedProfiles
    <3> QED
      BY <1>1, <2>6, <3>1 DEF RunStates
  <2>9. /\ r.pc = "extensions" /\ r.app = a /\ r.cert = flow[f].cert
        /\ r.profile = flow[f].profile /\ r.exts = flow[f].exts \ {e}
        /\ r.embedded = flow[f].embedded \cup {[ext |-> e, profile |-> q]}
    BY <1>1, <2>2, <2>6 DEF RunStates
  <2>10. RunSound(r, portal', revoked')
    <3>1. RunSound(flow[f], portal', revoked')
      BY <1>1, <2>3, SoundStays
    <3>2. Good(q, r.cert, revoked')
      BY <1>1, <2>2, <2>5, <2>9 DEF RunSound, Good
    <3>3. \A x \in r.embedded : Good(x.profile, r.cert, revoked')
      BY <2>2, <2>9, <3>1, <3>2 DEF RunSound
    <3>4. /\ r.exts \subseteq a.exts
          /\ {x.ext : x \in r.embedded} = (a.exts \ a.bare) \ r.exts
      <4>1. /\ flow[f].exts \subseteq a.exts
            /\ {x.ext : x \in flow[f].embedded} = (a.exts \ a.bare) \ flow[f].exts
        BY <1>1, <2>2 DEF RunSound
      <4>2. {x.ext : x \in r.embedded} = {x.ext : x \in flow[f].embedded} \cup {e}
        <5>1. \A y : y \in {x.ext : x \in r.embedded} <=>
                      y \in {x.ext : x \in flow[f].embedded
                                            \cup {[ext |-> e, profile |-> q]}}
          BY ONLY <2>9
        <5>2. {x.ext : x \in flow[f].embedded \cup {[ext |-> e, profile |-> q]}}
                = {x.ext : x \in flow[f].embedded} \cup {e}
          BY ONLY NamesGrow
        <5> QED
          BY ONLY <5>1, <5>2
      <4>3. e \in a.exts \ a.bare
        BY <2>1, <4>1
      <4> QED
        BY <2>9, <4>1, <4>2, <4>3
    <3> QED
      BY <2>2, <2>9, <3>1, <3>2, <3>3, <3>4 DEF RunSound
  <2>11. SigningTyped'
    BY <1>1, <2>2, <2>3, <2>7, <2>8, FlowTypedGoes DEF SigningTyped
  <2> QED
    BY <2>2, <2>3, <2>7, <2>8, <2>10, <2>11, RunGoes
<1>4. CASE SkipExtension(f)
  <2>1. PICK e \in flow[f].exts \cap a.bare : SigningGoes(f, [flow[f] EXCEPT !.exts = @ \ {e}])
    BY <1>4 DEF SkipExtension
  <2>2. flow[f].pc = "extensions" /\ UNCHANGED <<portal, cache, packages, revoked, used>>
    BY <1>4 DEF SkipExtension, SigningAt
  <2>3. PICK r : r = [flow[f] EXCEPT !.exts = @ \ {e}]
    OBVIOUS
  <2>4. /\ r \in RunStates /\ r.pc = "extensions" /\ r.app = a /\ r.cert = flow[f].cert
        /\ r.profile = flow[f].profile /\ r.exts = flow[f].exts \ {e}
        /\ r.embedded = flow[f].embedded
    BY <1>1, <2>2, <2>3 DEF RunStates
  <2>5. (a.exts \ a.bare) \ r.exts = (a.exts \ a.bare) \ flow[f].exts
    BY <2>1, <2>4
  <2>6. RunSound(r, portal, revoked)
    BY <1>1, <2>2, <2>4, <2>5 DEF RunSound
  <2>7. SigningGoes(f, r)
    BY <2>1, <2>3
  <2>8. SigningTyped'
    BY <1>1, <2>2, <2>4, <2>7, FlowTypedGoes DEF SigningTyped
  <2> QED
    BY <2>2, <2>4, <2>6, <2>7, <2>8, GrowsNot, RunGoes
<1> QED
  BY <1>2, <1>3, <1>4

\* Signing keeps the invariant: what the call has at its end is installable.
LEMMA PackageKeeps ==
  ASSUME SigningInv, NEW f \in Flows, SignPackage(f)
  PROVE  SigningInv'
<1>1. /\ flow[f] \in RunStates /\ RunSound(flow[f], portal, revoked) /\ SigningTyped
      /\ flow \in [Flows -> RunStates] /\ PackageInstallable
  BY DEF SigningInv, SigningTyped
<1>2. /\ flow[f].pc = "extensions" /\ flow[f].exts = {} /\ SigningGoes(f, Rests)
      /\ UNCHANGED <<portal, cache, revoked, used>>
      /\ packages' = packages \cup
           {[app |-> flow[f].app, cert |-> flow[f].cert, profile |-> flow[f].profile,
             injected |-> flow[f].app.kind # "none", embedded |-> flow[f].embedded]}
  BY DEF SignPackage, SigningAt
<1>3. SigningTyped'
  BY <1>1, <1>2, RestsSound, FlowTypedGoes DEF SigningTyped
<1>4. \A g \in Flows : RunSound(flow'[g], portal', revoked')
  <2>1. \A g \in Flows : flow'[g] = Rests \/ flow'[g] = flow[g]
    BY <1>1, <1>2 DEF SigningGoes
  <2> QED
    BY <1>2, <2>1, RestsSound DEF SigningInv
<1>5. ASSUME NEW p \in packages'
      PROVE  /\ \A pr \in {p.profile} \cup {x.profile : x \in p.embedded} :
                  Good(pr, p.cert, revoked)
             /\ HasGroup(p.app) => p.profile.group
             /\ {x.ext : x \in p.embedded} = p.app.exts \ p.app.bare
  <2>1. CASE p \in packages
    BY <1>1, <2>1 DEF PackageInstallable, Good
  <2>2. CASE p = [app |-> flow[f].app, cert |-> flow[f].cert, profile |-> flow[f].profile,
                  injected |-> flow[f].app.kind # "none", embedded |-> flow[f].embedded]
    <3>1. /\ p.app = flow[f].app /\ p.cert = flow[f].cert /\ p.profile = flow[f].profile
          /\ p.embedded = flow[f].embedded
      BY <2>2
    <3>2. /\ Good(p.profile, p.cert, revoked) /\ (HasGroup(p.app) => p.profile.group)
          /\ \A x \in p.embedded : Good(x.profile, p.cert, revoked)
      BY <1>1, <1>2, <3>1 DEF RunSound
    <3>3. {x.ext : x \in p.embedded} = p.app.exts \ p.app.bare
      BY <1>1, <1>2, <3>1 DEF RunSound
    <3> QED
      BY <3>2, <3>3
  <2> QED
    BY <1>2, <2>1, <2>2
<1>6. PackageInstallable'
  BY <1>2, <1>5 DEF PackageInstallable, Good
<1> QED
  BY <1>3, <1>4, <1>6 DEF SigningInv

\* handleRevokeCert() keeps the invariant.
LEMMA RevokeKeeps ==
  ASSUME SigningInv, FindRevoked \/ RevokeCached
  PROVE  SigningInv'
<1> DEFINE f == "sign"
<1>1. /\ f \in Flows /\ flow[f] \in RunStates /\ cache \in Nat
      /\ used \in [made : Nat, runs : Nat]
      /\ portal \in [certs : SUBSET Nat, device : BOOLEAN, ids : {portal.ids},
                      groups : {portal.groups}, enabled : {portal.enabled},
                      assigned : {portal.assigned}]
  BY DEF SigningInv, SigningTyped, Flows
<1>2. CASE FindRevoked
  <2>1. PICK c \in portal.certs : SigningGoes(f, [Rests EXCEPT !.pc = "revoking", !.cert = c])
    BY <1>2 DEF FindRevoked
  <2>2. used' = [used EXCEPT !.runs = @ + 1] /\ UNCHANGED <<portal, cache, packages, revoked>>
    BY <1>2 DEF FindRevoked
  <2> DEFINE r == [Rests EXCEPT !.pc = "revoking", !.cert = c]
  <2>3. c \in Nat
    BY <1>1
  <2>4. r \in RunStates /\ RunSound(r, portal, revoked)
    BY <2>3, RestsSound DEF Rests, RunStates, RunSound, HasGroup, NoApp
  <2>5. SigningGoes(f, r)
    BY <2>1
  <2>6. used' \in [made : Nat, runs : Nat]
    BY <1>1, <2>2
  <2> HIDE DEF r
  <2>7. SigningTyped'
    BY <1>1, <2>2, <2>4, <2>5, <2>6, FlowTypedGoes DEF SigningTyped
  <2> QED
    BY <1>1, <2>2, <2>4, <2>5, <2>7, GrowsNot, RunGoes
<1>3. CASE RevokeCached
  <2>1. PICK c : c = flow[f].cert
    OBVIOUS
  <2>2. /\ portal' = [portal EXCEPT !.certs = @ \ {c}] /\ revoked' = revoked \cup {c}
        /\ cache' = 0 /\ SigningGoes(f, Rests) /\ UNCHANGED <<packages, used>>
    BY <1>3, <2>1 DEF RevokeCached
  <2>3. /\ portal' \in [certs : SUBSET Nat, device : BOOLEAN, ids : {portal'.ids},
                         groups : {portal'.groups}, enabled : {portal'.enabled},
                         assigned : {portal'.assigned}]
        /\ Grows(portal, revoked, portal', revoked')
    BY <1>1, <2>2 DEF Grows
  <2> QED
    BY <1>1, <2>2, <2>3, RunRests
<1> QED
  BY <1>2, <1>3

\* Nothing is signed at the start.
LEMMA SigningStarts == SigningInit => SigningInv
<1> SUFFICES ASSUME SigningInit PROVE SigningInv
  OBVIOUS
<1>1. /\ portal = [certs |-> 1..Foreign, device |-> FALSE, ids |-> {}, groups |-> {},
                   enabled |-> {}, assigned |-> {}]
      /\ cache = 0 /\ flow = [f \in Flows |-> Rests] /\ packages = {}
      /\ used = [made |-> Foreign, runs |-> 0]
  BY DEF SigningInit
<1>2. 1..Foreign \subseteq Nat /\ Foreign \in Nat
  BY SigningAssumption
<1>3. SigningTyped
  BY <1>1, <1>2, RestsSound DEF SigningTyped
<1> QED
  BY <1>1, <1>3, RestsSound DEF SigningInv, PackageInstallable

\* Every step of a signing keeps the invariant.
LEMMA SigningKeeps == SigningInv /\ [SigningNext]_signingVars => SigningInv'
<1> SUFFICES ASSUME SigningInv, [SigningNext]_signingVars PROVE SigningInv'
  OBVIOUS
<1>1. CASE UNCHANGED signingVars
  BY <1>1 DEF signingVars, SigningInv, SigningTyped, PackageInstallable
<1> QED
  BY <1>1, CertificateKeeps, RegisterKeeps, ProfileKeeps, PackageKeeps, RevokeKeeps
     DEF SigningNext

\* AppleSigning: every package that signIpaWithAppleContext() ends with has
\* profiles that carry its certificate, unless another call revoked that, and
\* the device and the group, and has one for each extension with an identifier
\* and for no other, whatever a second signing and the revoke button do between
\* its requests, and whichever of them fail.
THEOREM PackagesInstallable == SigningSpec => []PackageInstallable
<1>1. SigningInit => SigningInv
  BY SigningStarts
<1>2. SigningInv /\ [SigningNext]_signingVars => SigningInv'
  BY SigningKeeps
<1>3. SigningInv => PackageInstallable
  BY DEF SigningInv
<1> QED
  BY <1>1, <1>2, <1>3, PTL DEF SigningSpec

\* A certificate named anywhere was made; the portal holds no more than it
\* allows; and a call has extensions of its own app to embed.
RunFits(r, made) == r.cert <= made /\ r.cached <= made /\ r.exts \subseteq r.app.exts
SigningBounded ==
  /\ portal.certs \subseteq 1..used.made /\ Cardinality(portal.certs) <= Limit
  /\ cache <= used.made /\ revoked \subseteq 1..used.made
  /\ used.made <= MaxMade /\ used.runs <= MaxRuns
  /\ \A f \in Flows : RunFits(flow[f], used.made)

\* The types that SigningInv gives.
LEMMA SigningTypes ==
  ASSUME SigningInv
  PROVE  /\ portal.certs \subseteq Nat /\ cache \in Nat
         /\ used \in [made : Nat, runs : Nat]
         /\ used.made \in Nat /\ used.runs \in Nat /\ flow \in [Flows -> RunStates]
         /\ portal = [certs |-> portal.certs, device |-> portal.device, ids |-> portal.ids,
                      groups |-> portal.groups, enabled |-> portal.enabled,
                      assigned |-> portal.assigned]
         /\ Limit \in Nat /\ MaxMade \in Nat /\ MaxRuns \in Nat
<1>1. /\ flow \in [Flows -> RunStates] /\ cache \in Nat /\ used \in [made : Nat, runs : Nat]
      /\ portal \in [certs : SUBSET Nat, device : BOOLEAN, ids : {portal.ids},
                     groups : {portal.groups}, enabled : {portal.enabled},
                     assigned : {portal.assigned}]
  BY DEF SigningInv, SigningTyped
<1>2. Limit \in Nat /\ MaxMade \in Nat /\ MaxRuns \in Nat
  BY SigningAssumption
<1> QED
  BY <1>1, <1>2

\* What the portal holds is finite.
LEMMA CertsFinite == ASSUME SigningInv, SigningBounded PROVE IsFiniteSet(portal.certs)
<1>1. 1 \in Int /\ used.made \in Int
  BY SigningTypes
<1> QED
  BY <1>1, FS_Interval, FS_Subset DEF SigningBounded

\* A call goes on to a record that fits; nothing else is lost.
LEMMA CallsFit ==
  ASSUME SigningInv, SigningBounded, NEW f \in Flows, NEW r \in RunStates, SigningGoes(f, r),
         NEW made \in Nat, used.made <= made, RunFits(r, made)
  PROVE  \A g \in Flows : RunFits(flow'[g], made)
<1>1. /\ flow \in [Flows -> RunStates] /\ flow' = [flow EXCEPT ![f] = r] /\ used.made \in Nat
  BY SigningTypes DEF SigningGoes
<1>2. ASSUME NEW g \in Flows PROVE RunFits(flow'[g], made)
  <2>1. CASE g = f
    BY <1>1, <2>1
  <2>2. CASE g # f
    <3>1. flow'[g] = flow[g] /\ RunFits(flow[g], used.made) /\ flow[g] \in RunStates
      BY <1>1, <2>2 DEF SigningBounded
    <3>2. flow[g].cert \in Nat /\ flow[g].cached \in Nat
      BY <3>1 DEF RunStates
    <3> QED
      BY <1>1, <3>1, <3>2 DEF RunFits
  <2> QED
    BY <2>1, <2>2
<1> QED
  BY <1>2

\* A call goes on, or ends, and no certificate is made.
LEMMA CallGoesOn ==
  ASSUME SigningInv, SigningBounded, NEW f \in Flows, NEW r \in RunStates, SigningGoes(f, r),
         RunFits(r, used.made), used'.made = used.made, used'.runs <= MaxRuns,
         portal'.certs \subseteq portal.certs, cache' \in {cache, 0},
         \A c \in revoked' : c \in revoked \/ c \in portal.certs
  PROVE  SigningBounded'
<1>1. used.made \in Nat /\ portal.certs \subseteq Nat /\ Limit \in Nat /\ cache \in Nat
  BY SigningTypes
<1>2. \A g \in Flows : RunFits(flow'[g], used.made)
  BY <1>1, CallsFit
<1>3. Cardinality(portal'.certs) <= Limit
  <2>1. IsFiniteSet(portal.certs)
    BY CertsFinite
  <2>2. /\ IsFiniteSet(portal'.certs) /\ Cardinality(portal'.certs) <= Cardinality(portal.certs)
        /\ Cardinality(portal.certs) \in Nat /\ Cardinality(portal'.certs) \in Nat
    BY <2>1, FS_Subset, FS_CardinalityType
  <2> QED
    BY <1>1, <2>2 DEF SigningBounded
<1>4. cache' <= used.made
  BY <1>1 DEF SigningBounded
<1>5. revoked' \subseteq 1..used.made /\ portal'.certs \subseteq 1..used.made
  BY DEF SigningBounded
<1> QED
  BY <1>2, <1>3, <1>4, <1>5 DEF SigningBounded

\* A call that is over fits.
LEMMA RestsFit == \A n \in Nat : Rests \in RunStates /\ RunFits(Rests, n)
<1>1. Rests.cert = 0 /\ Rests.cached = 0 /\ Rests.exts = {} /\ Rests.app = NoApp
  BY DEF Rests
<1>2. NoApp.exts = {}
  BY DEF NoApp
<1>3. Rests.exts \subseteq Rests.app.exts
  BY <1>1, <1>2
<1>4. \A n \in Nat : Rests.cert <= n /\ Rests.cached <= n
  <2>1. \A n \in Nat : 0 <= n
    OBVIOUS
  <2> QED
    BY <1>1, <2>1
<1> QED
  BY <1>3, <1>4, RestsSound DEF RunFits

\* A record of a call with another place, certificate or profile.
LEMMA RunFields ==
  ASSUME NEW r \in RunStates
  PROVE  /\ r.cert \in Nat /\ r.cached \in Nat /\ r.certs \subseteq Nat
         /\ r.profile \in Profiles /\ r.embedded \subseteq EmbeddedProfiles
BY DEF RunStates

\* Certificates are looked for, made and revoked.
LEMMA CertificatesBounded ==
  ASSUME SigningInv, SigningBounded, NEW f \in Flows,
         \/ FetchCertificates(f) \/ CreateCertificate(f) \/ LimitReached(f) \/ RevokeOldest(f)
  PROVE  SigningBounded'
<1>1. /\ flow[f] \in RunStates /\ RunFits(flow[f], used.made) /\ used.made \in Nat
      /\ portal.certs \subseteq Nat /\ cache \in Nat /\ used \in [made : Nat, runs : Nat]
      /\ used.runs <= MaxRuns /\ Limit \in Nat /\ MaxMade \in Nat
  BY SigningTypes DEF SigningBounded
<1>2. /\ flow[f].cert \in Nat /\ flow[f].cached \in Nat
  BY <1>1, RunFields
<1>3. CASE FetchCertificates(f)
  <2> DEFINE c == flow[f].cached
  <2>1. \/ SigningGoes(f, [flow[f] EXCEPT !.pc = "device", !.cert = c])
        \/ SigningGoes(f, [flow[f] EXCEPT !.pc = "create", !.certs = portal.certs])
    BY <1>3 DEF FetchCertificates
  <2>2. UNCHANGED <<portal, cache, packages, revoked, used>>
    BY <1>3 DEF FetchCertificates
  <2>3. PICK r : SigningGoes(f, r) /\ r \in RunStates /\ RunFits(r, used.made)
    <3>1. /\ [flow[f] EXCEPT !.pc = "device", !.cert = c] \in RunStates
          /\ RunFits([flow[f] EXCEPT !.pc = "device", !.cert = c], used.made)
      BY <1>1, <1>2 DEF RunStates, RunFits
    <3>2. /\ [flow[f] EXCEPT !.pc = "create", !.certs = portal.certs] \in RunStates
          /\ RunFits([flow[f] EXCEPT !.pc = "create", !.certs = portal.certs], used.made)
      BY <1>1, <1>2 DEF RunStates, RunFits
    <3> QED
      BY <2>1, <3>1, <3>2
  <2> QED
    BY <1>1, <2>2, <2>3, CallGoesOn
<1>4. CASE CreateCertificate(f)
  <2> DEFINE c == used.made + 1
             r == [flow[f] EXCEPT !.pc = "device", !.cert = c]
  <2>1. /\ portal' = [portal EXCEPT !.certs = @ \cup {c}]
        /\ used' = [used EXCEPT !.made = c] /\ UNCHANGED revoked
        /\ Cardinality(portal.certs) < Limit /\ used.made < MaxMade
        /\ \/ cache' = c /\ SigningGoes(f, r)
           \/ cache' = cache /\ SigningGoes(f, Rests)
    BY <1>4 DEF CreateCertificate
  <2>2. c \in Nat /\ used.made <= c /\ c <= MaxMade /\ c \in 1..c
    BY <1>1, <2>1
  <2>3. portal'.certs = portal.certs \cup {c} /\ used'.made = c /\ used'.runs = used.runs
    BY <1>1, <2>1, SigningTypes
  <2> HIDE DEF c
  <2>4. r \in RunStates /\ RunFits(r, c)
    <3>1. r \in RunStates
      BY <1>1, <2>2 DEF RunStates
    <3>2. /\ r.cert = c /\ r.cached = flow[f].cached /\ r.exts = flow[f].exts
          /\ r.app = flow[f].app
      BY <1>1 DEF RunStates
    <3> HIDE DEF r
    <3>3. /\ flow[f].cached <= used.made /\ flow[f].exts \subseteq flow[f].app.exts
      BY <1>1 DEF RunFits
    <3>4. flow[f].cached <= c /\ c <= c
      BY <1>1, <1>2, <2>2, <3>3
    <3>5. r.cert <= c /\ r.cached <= c
      BY <3>2, <3>4
    <3>6. r.exts \subseteq r.app.exts
      BY <3>2, <3>3
    <3> QED
      BY <3>1, <3>5, <3>6 DEF RunFits
  <2> HIDE DEF r
  <2>5. \A g \in Flows : RunFits(flow'[g], c)
    BY <2>1, <2>2, <2>4, RestsFit, CallsFit
  <2>6. Cardinality(portal'.certs) <= Limit
    <3>1. IsFiniteSet(portal.certs)
      BY CertsFinite
    <3>2. /\ Cardinality(portal.certs) \in Nat
          /\ \/ Cardinality(portal.certs \cup {c}) = Cardinality(portal.certs)
             \/ Cardinality(portal.certs \cup {c}) = Cardinality(portal.certs) + 1
      BY <3>1, FS_AddElement, FS_CardinalityType
    <3> QED
      BY <1>1, <2>1, <2>3, <3>2
  <2>7. portal'.certs \subseteq 1..c /\ revoked' \subseteq 1..c
    <3>1. 1..used.made \subseteq 1..c
      BY <1>1, <2>2
    <3> QED
      BY <2>1, <2>2, <2>3, <3>1 DEF SigningBounded
  <2>8. cache' <= c
    BY <1>1, <2>1, <2>2 DEF SigningBounded
  <2> QED
    BY <1>1, <2>2, <2>3, <2>5, <2>6, <2>7, <2>8 DEF SigningBounded
<1>5. CASE LimitReached(f)
  <2> DEFINE r == [flow[f] EXCEPT !.pc = "revoke", !.retry = TRUE]
  <2>1. /\ SigningGoes(f, r) \/ SigningGoes(f, Rests)
        /\ UNCHANGED <<portal, cache, packages, revoked, used>>
    BY <1>5 DEF LimitReached
  <2>2. r \in RunStates /\ RunFits(r, used.made)
    BY <1>1, <1>2 DEF RunStates, RunFits
  <2> HIDE DEF r
  <2> QED
    BY <1>1, <2>1, <2>2, RestsFit, CallGoesOn
<1>6. CASE RevokeOldest(f)
  <2>1. PICK c \in portal.certs :
          portal' = [portal EXCEPT !.certs = @ \ {c}] /\ revoked' = revoked \cup {c}
    BY <1>6 DEF RevokeOldest
  <2> DEFINE r == [flow[f] EXCEPT !.pc = "create"]
  <2>2. SigningGoes(f, r) /\ UNCHANGED <<cache, packages, used>>
    BY <1>6 DEF RevokeOldest, To
  <2>3. r \in RunStates /\ RunFits(r, used.made)
    BY <1>1, <1>2 DEF RunStates, RunFits
  <2> HIDE DEF r
  <2>4. portal'.certs \subseteq portal.certs
    BY <2>1, SigningTypes
  <2> QED
    BY <1>1, <2>1, <2>2, <2>3, <2>4, CallGoesOn
<1> QED
  BY <1>3, <1>4, <1>5, <1>6

\* The other requests of a signing add to what is registered, and make or revoke
\* no certificate.
LEMMA RequestsBounded ==
  ASSUME SigningInv, SigningBounded, NEW f \in Flows,
         \/ RegisterDevice(f) \/ EnsureAppId(f) \/ EnsureGroup(f) \/ EnableGroups(f)
         \/ AssignGroup(f) \/ FetchProfile(f) \/ EmbedExtension(f) \/ SkipExtension(f)
         \/ SignPackage(f) \/ Rejects(f)
  PROVE  SigningBounded'
<1>1. /\ flow[f] \in RunStates /\ RunFits(flow[f], used.made) /\ used.made \in Nat
      /\ portal.certs \subseteq Nat /\ used.runs <= MaxRuns
  BY SigningTypes DEF SigningBounded
<1>2. UNCHANGED <<cache, revoked, used>>
  BY DEF RegisterDevice, EnsureAppId, EnsureGroup, EnableGroups, AssignGroup, FetchProfile,
         EmbedExtension, SkipExtension, SignPackage, Rejects
<1>3. portal'.certs = portal.certs
  <2>1. CASE RegisterDevice(f) \/ EnsureAppId(f) \/ EnsureGroup(f) \/ EnableGroups(f)
             \/ AssignGroup(f)
    BY <2>1, SigningTypes
       DEF RegisterDevice, EnsureAppId, EnsureGroup, EnableGroups, AssignGroup
  <2>2. CASE EmbedExtension(f)
    BY <2>2, SigningTypes DEF EmbedExtension
  <2>3. CASE FetchProfile(f) \/ SkipExtension(f) \/ SignPackage(f) \/ Rejects(f)
    BY <2>3 DEF FetchProfile, SkipExtension, SignPackage, Rejects
  <2> QED
    BY <2>1, <2>2, <2>3
<1>4. PICK r : SigningGoes(f, r) /\ r \in RunStates /\ RunFits(r, used.made)
  <2>0. flow' \in [Flows -> RunStates]
    <3>1. SigningInv'
      BY RegisterKeeps, ProfileKeeps, PackageKeeps, CertificateKeeps
    <3> QED
      BY <3>1 DEF SigningInv, SigningTyped
  <2>1. ASSUME NEW r, SigningGoes(f, r), RunFits(r, used.made)
        PROVE  \E q : SigningGoes(f, q) /\ q \in RunStates /\ RunFits(q, used.made)
    <3>1. flow'[f] = r
      BY <2>1, SigningTypes DEF SigningGoes
    <3> QED
      BY <2>0, <2>1, <3>1
  <2>2. ASSUME NEW pc, To(f, pc) PROVE \E r : SigningGoes(f, r) /\ RunFits(r, used.made)
    <3>1. RunFits([flow[f] EXCEPT !.pc = pc], used.made)
      BY <1>1 DEF RunFits, RunStates
    <3> QED
      BY <2>2, <3>1 DEF To
  <2>3. CASE RegisterDevice(f) \/ EnsureAppId(f) \/ EnsureGroup(f) \/ EnableGroups(f)
             \/ AssignGroup(f)
    <3>1. \E pc : To(f, pc)
      BY <2>3 DEF RegisterDevice, EnsureAppId, EnsureGroup, EnableGroups, AssignGroup
    <3> QED
      BY <2>1, <2>2, <3>1
  <2>4. CASE FetchProfile(f)
    <3>1. PICK pr : SigningGoes(f, [flow[f] EXCEPT !.pc = "extensions", !.profile = pr])
      BY <2>4 DEF FetchProfile
    <3>2. RunFits([flow[f] EXCEPT !.pc = "extensions", !.profile = pr], used.made)
      BY <1>1 DEF RunFits, RunStates
    <3> QED
      BY <2>1, <3>1, <3>2
  <2>5. CASE EmbedExtension(f)
    <3>1. PICK e, x : SigningGoes(f, [flow[f] EXCEPT !.exts = @ \ {e}, !.embedded = @ \cup {x}])
      BY <2>5 DEF EmbedExtension
    <3>2. RunFits([flow[f] EXCEPT !.exts = @ \ {e}, !.embedded = @ \cup {x}], used.made)
      BY <1>1 DEF RunFits, RunStates
    <3> QED
      BY <2>1, <3>1, <3>2
  <2>6. CASE SignPackage(f) \/ Rejects(f)
    <3>1. SigningGoes(f, Rests)
      BY <2>6 DEF SignPackage, Rejects
    <3> QED
      BY <1>1, <3>1, RestsFit
  <2>7. CASE SkipExtension(f)
    <3>1. PICK e : SigningGoes(f, [flow[f] EXCEPT !.exts = @ \ {e}])
      BY <2>7 DEF SkipExtension
    <3>2. RunFits([flow[f] EXCEPT !.exts = @ \ {e}], used.made)
      BY <1>1 DEF RunFits, RunStates
    <3> QED
      BY <2>1, <3>1, <3>2
  <2> QED
    BY <2>3, <2>4, <2>5, <2>6, <2>7
<1> QED
  BY <1>1, <1>2, <1>3, <1>4, CallGoesOn

\* A call begins, of a signing or of the revoke button, or the button's is answered.
LEMMA CallsBounded ==
  ASSUME SigningInv, SigningBounded,
         \/ \E f \in Flows, pkg \in Apps : StartRun(f, pkg)
         \/ FindRevoked \/ RevokeCached
  PROVE  SigningBounded'
<1>1. /\ used.made \in Nat /\ used.runs \in Nat /\ MaxRuns \in Nat /\ cache \in Nat
      /\ portal.certs \subseteq Nat /\ used \in [made : Nat, runs : Nat]
      /\ cache <= used.made /\ used.runs <= MaxRuns /\ portal.certs \subseteq 1..used.made
  BY SigningTypes DEF SigningBounded
<1>2. ASSUME used.runs < MaxRuns, used' = [used EXCEPT !.runs = @ + 1]
      PROVE  used'.made = used.made /\ used'.runs <= MaxRuns
  <2> DEFINE n == used.runs + 1
  <2>1. n <= MaxRuns /\ used' = [used EXCEPT !.runs = n]
    BY <1>1, <1>2
  <2> HIDE DEF n
  <2> QED
    BY <1>1, <2>1
<1>3. ASSUME NEW f \in Flows, NEW pkg \in Apps, StartRun(f, pkg) PROVE SigningBounded'
  <2> DEFINE r == [Rests EXCEPT !.pc = "certificates", !.app = pkg, !.cached = cache,
                                !.exts = pkg.exts]
  <2>1. /\ SigningGoes(f, r) /\ UNCHANGED <<portal, cache, packages, revoked>>
        /\ used.runs < MaxRuns /\ used' = [used EXCEPT !.runs = @ + 1]
    BY <1>3 DEF StartRun
  <2>2. r \in RunStates
    <3>1. pkg.exts \subseteq Exts
      BY DEF Exts
    <3> QED
      BY <1>1, <3>1, RestsSound DEF Rests, RunStates
  <2>3. RunFits(r, used.made)
    BY <1>1 DEF Rests, RunFits
  <2> HIDE DEF r
  <2> QED
    BY <1>2, <2>1, <2>2, <2>3, CallGoesOn
<1>4. CASE FindRevoked
  <2>1. PICK c \in portal.certs : SigningGoes("sign", [Rests EXCEPT !.pc = "revoking", !.cert = c])
    BY <1>4 DEF FindRevoked
  <2> DEFINE r == [Rests EXCEPT !.pc = "revoking", !.cert = c]
  <2>2. /\ used.runs < MaxRuns /\ used' = [used EXCEPT !.runs = @ + 1]
        /\ UNCHANGED <<portal, cache, packages, revoked>> /\ "sign" \in Flows
    BY <1>4 DEF FindRevoked, Flows
  <2>3. c \in Nat /\ c <= used.made
    BY <1>1
  <2>4. r \in RunStates /\ RunFits(r, used.made)
    <3>1. r \in RunStates
      <4>1. /\ Rests \in RunStates
            /\ "revoking" \in {"idle", "certificates", "create", "revoke", "device", "app id",
                  "group", "enable", "assign", "profile", "extensions", "revoking"}
        BY RestsSound
      <4> QED
        BY <2>3, <4>1 DEF RunStates
    <3>2. r.cert = c /\ r.cached = Rests.cached /\ r.exts = Rests.exts /\ r.app = Rests.app
      BY DEF Rests
    <3> HIDE DEF r
    <3>3. Rests.cached <= used.made /\ Rests.exts \subseteq Rests.app.exts
      BY <1>1, RestsFit DEF RunFits
    <3>4. r.cert <= used.made /\ r.cached <= used.made
      BY <2>3, <3>2, <3>3
    <3>5. r.exts \subseteq r.app.exts
      BY <3>2, <3>3
    <3> QED
      BY <3>1, <3>4, <3>5 DEF RunFits
  <2>5. SigningGoes("sign", r)
    BY <2>1
  <2> HIDE DEF r
  <2> QED
    BY <1>2, <2>2, <2>4, <2>5, CallGoesOn
<1>5. CASE RevokeCached
  <2>1. PICK c \in portal.certs :
          portal' = [portal EXCEPT !.certs = @ \ {c}] /\ revoked' = revoked \cup {c}
    BY <1>5 DEF RevokeCached
  <2>2. /\ cache' = 0 /\ SigningGoes("sign", Rests) /\ UNCHANGED used /\ "sign" \in Flows
    BY <1>5 DEF RevokeCached, Flows
  <2>3. portal'.certs \subseteq portal.certs
    BY <2>1, SigningTypes
  <2> QED
    BY <1>1, <2>1, <2>2, <2>3, RestsFit, CallGoesOn
<1> QED
  BY <1>3, <1>4, <1>5

\* The portal never holds more certificates than it allows, and every certificate
\* that is cached, used by a call or revoked was made, whatever the signings and
\* the revoke button do between one another's requests (SigningTypeOK, which
\* TypesOK of MCComponents has for its part).
THEOREM SigningTypesCorrect ==
  ASSUME Foreign <= MaxMade
  PROVE  SigningSpec => []SigningTypeOK
<1>1. SigningInit => SigningInv /\ SigningBounded
  <2>1. ASSUME SigningInit PROVE SigningBounded
    <3>1. /\ portal.certs = 1..Foreign /\ cache = 0 /\ revoked = {}
          /\ flow = [f \in Flows |-> Rests] /\ used.made = Foreign /\ used.runs = 0
      BY <2>1 DEF SigningInit
    <3>2. Foreign \in Nat /\ MaxMade \in Nat /\ MaxRuns \in Nat /\ Limit \in Nat /\ Foreign <= Limit
      BY SigningAssumption
    <3>3. Cardinality(1..Foreign) = Foreign
      BY <3>2, FS_Interval
    <3>4. \A f \in Flows : RunFits(flow[f], Foreign)
      BY <3>1, <3>2, RestsFit
    <3> QED
      BY <3>1, <3>2, <3>3, <3>4 DEF SigningBounded
  <2> QED
    BY <2>1, SigningStarts
<1>2. SigningInv /\ SigningBounded /\ [SigningNext]_signingVars => (SigningInv /\ SigningBounded)'
  <2> SUFFICES ASSUME SigningInv, SigningBounded, [SigningNext]_signingVars
               PROVE  SigningBounded'
    BY SigningKeeps
  <2>1. CASE UNCHANGED signingVars
    BY <2>1 DEF signingVars, SigningBounded
  <2> QED
    BY <2>1, CertificatesBounded, RequestsBounded, CallsBounded DEF SigningNext
<1>3. SigningInv /\ SigningBounded => SigningTypeOK
  <2> SUFFICES ASSUME SigningInv, SigningBounded PROVE SigningTypeOK
    OBVIOUS
  <2>1. /\ used.made \in Nat /\ used.runs \in Nat /\ used \in [made : Nat, runs : Nat]
        /\ cache \in Nat /\ flow \in [Flows -> RunStates] /\ MaxMade \in Nat /\ MaxRuns \in Nat
        /\ used.made <= MaxMade /\ used.runs <= MaxRuns
    BY SigningTypes DEF SigningBounded
  <2>2. 1..used.made \subseteq 1..MaxMade /\ cache \in 0..MaxMade
    BY <2>1 DEF SigningBounded
  <2>3. used \in [made : 0..MaxMade, runs : 0..MaxRuns]
    BY <2>1
  <2>4. \A f \in Flows : flow[f].cert \in 0..MaxMade /\ flow[f].exts \subseteq flow[f].app.exts
    <3>1. \A f \in Flows : flow[f].cert \in Nat
      BY <2>1, RunFields
    <3> QED
      BY <2>1, <3>1 DEF SigningBounded, RunFits
  <2> QED
    BY <2>2, <2>3, <2>4 DEF SigningBounded, SigningTypeOK
<1> QED
  BY <1>1, <1>2, <1>3, PTL DEF SigningSpec

=============================================================================
