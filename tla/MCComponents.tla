---------------------------- MODULE MCComponents ----------------------------
(***************************************************************************)
(* The components that share no state with one another, for TLC: a         *)
(* behaviour belongs to one of them, chosen at the start, and the others   *)
(* stay as they were.  What TLC explores is the union of the state graphs  *)
(* of the components, each from all its initial states; the product of     *)
(* graphs that never meet would show nothing more.                         *)
(***************************************************************************)
EXTENDS WispRelay, WispWorker, RemotePairing, RpTransport, PskTunnel,
        TlsClient, InstallFlow, Lockdown, InstallServices, Formats,
        MuxConnect, MuxFraming, NodeTransport, AccountSession, AppleSigning

CONSTANT Components \* the components that are run

VARIABLE part  \* the one of this behaviour

-----------------------------------------------------------------------------
(* Values of the constants                                                 *)

MCOffsets == <<0, 5, 8, 12>> \* bodies of 2, 0 and 1 bytes

MCTaskSets == { {"pair", "sign", "install"}, {"pair", "pairing page"},
                {"pair", "scan"}, {"pair", "refresh"}, {"pair", "direct"} }
MCKept == { [d1 |-> "none", d2 |-> "other"] }

MCAccounts == { <<"a", 1>>, <<"a", 2>>, <<"b", 1>> }
MCApps == { [id |-> "SideStore", kind |-> "SideStore", exts |-> {"widget"}, bare |-> {}],
            [id |-> "plain", kind |-> "none", exts |-> {"share", "broken"}, bare |-> {"broken"}] }

\* Formats: a value on each side of every limit of a length, of a number's width
\* and sign, and of the years that are written with two digits
Run(n, x) == [i \in 1..n |-> x]
Text(s) == <<"str", s>>
Texts35 == [j \in 1..5 |-> <<"arr", [i \in 1..7 |-> Text(<<97, 7 * j - 7 + i>>)]>>]
MCOpackValues ==
  [i \in 1..7 |-> <<"int", <<0, 39, 40, 255, 256, 65536, 2147483647>>[i]>>]
  \o <<<<"bool", TRUE>>, <<"bool", FALSE>>, <<"real", <<63, 192, 0, 0>>>>,
       <<"real", <<64, 9, 30, 184, 81, 235, 133, 31>>>>>>
  \o [i \in 1..5 |-> Text(Run(<<0, 32, 33, 255, 256>>[i], 97))]
  \o [i \in 1..4 |-> <<"data", Run(<<0, 32, 33, 256>>[i], 3)>>]
  \o <<<<"arr", Run(14, <<"int", 3>>)>>, <<"arr", Run(15, <<"int", 200>>)>>,
       <<"arr", <<>>>>,
       <<"arr", Texts35 \o [i \in 1..3 |-> Text(<<97, <<33, 34, 1>>[i]>>)]>>,
       <<"dict", [i \in 1..15 |-> <<<<98, i>>, Text(<<98, 16 - i>>)>>]>>,
       <<"dict", <<<<<<99>>, <<"arr", <<Text(<<99>>), <<"int", 300>>, <<"data", <<3>>>>>>>>>>,
                   <<<<100>>, <<"int", 300>>>>,
                   <<<<101>>, <<"dict", <<<<<<99>>, <<"data", <<3>>>>>>>>>>>>>>>>>>
MCTlvValues ==
  <<<<>>, <<<<1, <<>>>>>>, <<<<1, Run(254, 5)>>, <<2, <<>>>>>>,
    <<<<1, Run(255, 5)>>, <<2, <<4>>>>>>, <<<<1, Run(256, 5)>>>>,
    <<<<3, Run(510, 5)>>, <<5, Run(511, 6)>>>>,
    <<<<1, <<1>>>>, <<1, <<2>>>>, <<2, <<>>>>, <<1, <<3>>>>>>>>
MCTexts == <<<<>>, <<255>>, <<0, 255>>, <<1, 128, 255>>, Run(4, 0), Run(5, 254)>>
MCHostNames == <<Run(12, 83), Run(33, 83), <<>>>>
MCPlistValues ==
  <<<<"dict", <<<<<<97>>, Text(<<98, 38, 99>>)>>, <<<<98, 38>>, <<"int", 100>>>>,
                <<<<99>>, <<"bool", TRUE>>>>>>>>,
    <<"arr", <<<<"dict", <<<<<<97>>, <<"arr", <<Text(Run(14, 97)), Text(Run(15, 97))>>>>>>>>>>,
               <<"data", Run(16, 7)>>>>>>,
    <<"arr", [i \in 1..15 |-> <<"bool", i % 4 = 0>>]>>, <<"int", 300>>, Text(<<955, 97>>),
    <<"arr", [i \in 1..9 |-> <<"int", <<0, 127, 128, 200, 255, 256, 32767, 32768, 65535>>[i]>>]>>,
    <<"dict", <<<<<<97>>, <<"int", 128>>>>, <<<<98>>, <<"arr", <<<<"int", 65536>>>>>>>>>>>>,
    <<"int", 2147483647>>,
    Text(Run(300, 97)), <<"arr", <<>>>>, <<"dict", <<>>>>,
    <<"arr", <<<<"real", <<64, 9, 30, 184, 81, 235, 133, 31>>>>,
               <<"date", <<65, 201, 1, 1, 1, 1, 1, 1>>>>, <<"bool", FALSE>>>>>>>>
MCSrpExchanges ==
  [n \in 1..72 |->
     [a |-> 1 + (n % 3), b |-> <<1, 2, 7>>[1 + ((n \div 3) % 3)],
      x |-> <<4, 9>>[1 + ((n \div 9) % 2)], k |-> <<1, 3>>[1 + ((n \div 18) % 2)],
      u |-> <<1, 6>>[1 + ((n \div 36) % 2)]]]
MCDays == \* 2024, 2026, 2049-12-31 and the day after, 2050-04-19 and the day after
  <<20000, 20700, 29219, 29220, 29328, 29329>>
Form(f, n) == [form |-> f, der |-> n]
RecordOf(bag, mac, udid) ==
  [g \in Fields |->
     CASE g = "EscrowBag" -> bag
       [] g = "WiFiMACAddress" -> mac
       [] g = "UDID" -> udid
       [] g = "HostPrivateKey" -> Form("der", <<1>>)
       [] g = "RootCertificate" -> Form("base64", <<2>>)
       [] g \in {"SystemBUID", "HostID"} -> Form("text", <<3>>)
       [] OTHER -> Form("pem", <<4>>)]
MCRecords ==
  <<RecordOf(Form("data", <<9>>), Form("text", <<8>>), Form("text", <<7>>)),
    RecordOf(Absent, Form("text", <<8>>), Absent),
    RecordOf(Form("data", <<9>>), Absent, Absent)>>
MCRemoteFiles ==
  <<[private_key |-> Run(32, 1), public_key |-> Run(32, 2), identifier |-> "id",
     alt_irk |-> Run(16, 3)],
    [private_key |-> Run(32, 1), public_key |-> Run(32, 2), identifier |-> "id"]>>
MCModulus == <<<<200>> \o Run(130, 11), <<129>> \o Run(126, 12)>>

-----------------------------------------------------------------------------
(* The initial states: a component that is not run has one                 *)

Fixed(p, choice) == part # p => choice

Init ==
  /\ part \in Components
  /\ RelayInit
  /\ WorkerInit /\ Fixed("worker", request = Plain)
  /\ PairInit
  /\ Fixed("pairing", host.file = 1 /\ host.arg = "file" /\ device.known = {})
  /\ RpInit
  /\ PskInit /\ Fixed("tunnel", server.same)
  /\ TlsInit /\ Fixed("tls", tls.offered = "1.2" /\ tls.cert)
  /\ FlowInit
  /\ Fixed("flow", Tasks = {"pair", "scan"})
  /\ LockdownInit
  /\ ServicesInit /\ Fixed("services", afcd.file = <<>> /\ proxy.op = "install")
  /\ FormatsInit /\ Fixed("formats", job = <<"opack", 1>>)
  /\ ConnectInit /\ Fixed("connect", conns = <<>>)
  /\ \A i \in DOMAIN conns : conns[i].port = 1 \* the next port is taken
  /\ FramingInit /\ NodeInit /\ SessionInit /\ SigningInit

-----------------------------------------------------------------------------
(* The steps                                                               *)

vars ==
  <<part, relayVars, workerVars, pairVars, rpVars, pskVars, tlsVars,
    flowVars, lockdownVars, servicesVars, formatsVars, connectVars,
    framingVars, nodeVars, sessionVars, signingVars>>

\* component p steps, and the others stay as they are
Runs(p) ==
  /\ part = p /\ UNCHANGED part
  /\ IF p = "relay" THEN TRUE ELSE UNCHANGED relayVars
  /\ IF p = "worker" THEN TRUE ELSE UNCHANGED workerVars
  /\ IF p = "pairing" THEN TRUE ELSE UNCHANGED pairVars
  /\ IF p = "rp" THEN TRUE ELSE UNCHANGED rpVars
  /\ IF p = "tunnel" THEN TRUE ELSE UNCHANGED pskVars
  /\ IF p = "tls" THEN TRUE ELSE UNCHANGED tlsVars
  /\ IF p = "flow" THEN TRUE ELSE UNCHANGED flowVars
  /\ IF p = "lockdown" THEN TRUE ELSE UNCHANGED lockdownVars
  /\ IF p = "services" THEN TRUE ELSE UNCHANGED servicesVars
  /\ IF p = "formats" THEN TRUE ELSE UNCHANGED formatsVars
  /\ IF p = "connect" THEN TRUE ELSE UNCHANGED connectVars
  /\ IF p = "framing" THEN TRUE ELSE UNCHANGED framingVars
  /\ IF p = "node" THEN TRUE ELSE UNCHANGED nodeVars
  /\ IF p = "session" THEN TRUE ELSE UNCHANGED sessionVars
  /\ IF p = "signing" THEN TRUE ELSE UNCHANGED signingVars

Next ==
  \/ Runs("relay") /\ RelayNext
  \/ Runs("worker") /\ WorkerNext
  \/ Runs("pairing") /\ PairNext
  \/ Runs("rp") /\ RpNext
  \/ Runs("tunnel") /\ PskNext
  \/ Runs("tls") /\ TlsNext
  \/ Runs("flow") /\ FlowNext
  \/ Runs("lockdown") /\ LockdownNext
  \/ Runs("services") /\ ServicesNext
  \/ Runs("formats") /\ FormatsNext
  \/ Runs("connect") /\ ConnectNext
  \/ Runs("framing") /\ FramingNext
  \/ Runs("node") /\ NodeNext
  \/ Runs("session") /\ SessionNext
  \/ Runs("signing") /\ SigningNext

\* Each component's fairness, where it runs: its code that has something to do
\* does it, and a time limit ends a wait.
Fairness ==
  /\ WF_relayVars(part = "relay" /\ RelayLoop)
  /\ WF_tlsVars(part = "tls" /\ DriverStep)
  /\ WF_tlsVars(part = "tls" /\ Timeout)
  /\ WF_servicesVars(part = "services" /\ ProxyStep)
  /\ WF_sessionVars(part = "session" /\ LoginStep)

Spec == Init /\ [][Next]_vars /\ Fairness

-----------------------------------------------------------------------------
(* Properties                                                              *)

\* Every component keeps its types while it runs.
TypesOK ==
  \/ part = "relay" /\ RelayTypeOK
  \/ part = "worker" /\ WorkerTypeOK
  \/ part = "pairing" /\ PairTypeOK
  \/ part = "rp" /\ RpTypeOK
  \/ part = "tunnel" /\ PskTypeOK
  \/ part = "tls" /\ TlsTypeOK
  \/ part = "flow" /\ FlowTypeOK
  \/ part = "lockdown" /\ LockdownTypeOK
  \/ part = "services" /\ ServicesTypeOK
  \/ part = "formats" /\ FormatsTypeOK
  \/ part = "connect" /\ ConnectTypeOK
  \/ part = "framing" /\ FramingTypeOK
  \/ part = "node" /\ NodeTypeOK
  \/ part = "session" /\ SessionTypeOK
  \/ part = "signing" /\ SigningTypeOK

=============================================================================
