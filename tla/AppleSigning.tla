--------------------------- MODULE AppleSigning ---------------------------
(***************************************************************************)
(* signIpaWithAppleContext() of src/app/src/apple-signing.ts, run by       *)
(* handleSign() and by handleRefreshApp(), which nothing keeps apart, and  *)
(* revokeCachedCertificate(), all on one team of Apple's developer portal. *)
(* A request to the portal is one step: it is done and answered, or the    *)
(* call rejects; an addCertificate() may be done and its answer lost.  A   *)
(* certificate is the number of its creation; the portal's profiles carry  *)
(* what the team has when they are made.                                   *)
(***************************************************************************)
EXTENDS Integers, FiniteSets

CONSTANTS
  Apps,       \* IPAs: [id, kind, exts, bare]; kind as detectSpecialApp() names
              \* it, bare the extensions with no Info.plist or no identifier
  Foreign,    \* certificates that others made, at the start
  Limit,      \* certificates that the portal allows
  MaxMade,    \* bound: certificates made
  MaxRuns     \* bound: signings and revocations

Flows == {"sign", "refresh"}
Kinds == {"none", "SideStore", "AltStore", "SideStoreLc", "StikStore"}

ASSUME SigningAssumption ==
  /\ \A a \in Apps : a.kind \in Kinds /\ a.bare \subseteq a.exts
  /\ {Foreign, Limit, MaxMade, MaxRuns} \subseteq Nat /\ Foreign <= Limit

VARIABLES
  portal,   \* certificates; registered: device, App IDs, groups
  cache,    \* the cached certificate and key: its number, 0 for none
  flow,     \* the calls of signIpaWithAppleContext() under way
  packages, \* history: what was signed
  revoked,  \* history: certificates revoked
  used      \* certificates made and calls, for the bounds

signingVars == <<portal, cache, flow, packages, revoked, used>>

NoApp == [id |-> "", kind |-> "none", exts |-> {}, bare |-> {}]
NoProfile == [certs |-> {}, device |-> FALSE, group |-> FALSE]
Rests == [pc |-> "idle", app |-> NoApp, cached |-> 0, certs |-> {}, cert |-> 0,
          retry |-> FALSE, profile |-> NoProfile, exts |-> {}, embedded |-> {}]

\* the App Groups: all special apps but StikStore have one
HasGroup(app) == app.kind \notin {"none", "StikStore"}
GroupOf(app) == IF app.kind = "SideStoreLc" THEN "SideStore" ELSE app.id

SigningInit ==
  /\ portal = [certs |-> 1..Foreign, device |-> FALSE, ids |-> {},
               groups |-> {}, enabled |-> {}, assigned |-> {}]
  /\ cache = 0 /\ flow = [f \in Flows |-> Rests]
  /\ packages = {} /\ revoked = {} /\ used = [made |-> Foreign, runs |-> 0]

-----------------------------------------------------------------------------
(* Steps of a call                                                         *)

SigningAt(f, pc) == flow[f].pc = pc
SigningGoes(f, r) == flow' = [flow EXCEPT ![f] = r]
To(f, pc) == SigningGoes(f, [flow[f] EXCEPT !.pc = pc])

\* Any call of the portal may reject, and the signing with it.
Rejects(f) ==
  /\ flow[f].pc # "idle"
  /\ SigningGoes(f, Rests)
  /\ UNCHANGED <<portal, cache, packages, revoked, used>>

\* parseIpaInfo(), and the cache that ensureSigningIdentity() reads first
StartRun(f, app) ==
  /\ SigningAt(f, "idle") /\ used.runs < MaxRuns
  /\ SigningGoes(f, [Rests EXCEPT !.pc = "certificates", !.app = app, !.cached = cache,
                           !.exts = app.exts])
  /\ used' = [used EXCEPT !.runs = @ + 1]
  /\ UNCHANGED <<portal, cache, packages, revoked>>

\* ensureSigningIdentity(): fetchCertificates(), and the cached one if it is there
FetchCertificates(f) ==
  /\ SigningAt(f, "certificates")
  /\ LET c == flow[f].cached IN
     SigningGoes(f, IF c # 0 /\ c \in portal.certs
             THEN [flow[f] EXCEPT !.pc = "device", !.cert = c]
             ELSE [flow[f] EXCEPT !.pc = "create", !.certs = portal.certs])
  /\ UNCHANGED <<portal, cache, packages, revoked, used>>

\* create(): within the limit there is a new certificate, and its key is kept
\* unless the answer is lost
CreateCertificate(f) ==
  /\ SigningAt(f, "create") /\ Cardinality(portal.certs) < Limit /\ used.made < MaxMade
  /\ LET c == used.made + 1 IN
     /\ portal' = [portal EXCEPT !.certs = @ \cup {c}]
     /\ used' = [used EXCEPT !.made = c]
     /\ \/ cache' = c /\ SigningGoes(f, [flow[f] EXCEPT !.pc = "device", !.cert = c])
        \/ cache' = cache /\ SigningGoes(f, Rests)
  /\ UNCHANGED <<packages, revoked>>

\* result 7460: once, with certificates known, the oldest of them goes
LimitReached(f) ==
  /\ SigningAt(f, "create") /\ Cardinality(portal.certs) >= Limit
  /\ SigningGoes(f, IF flow[f].retry \/ flow[f].certs = {} THEN Rests
             ELSE [flow[f] EXCEPT !.pc = "revoke", !.retry = TRUE])
  /\ UNCHANGED <<portal, cache, packages, revoked, used>>

\* the portal lists the oldest first, which has the least number
RevokeOldest(f) ==
  /\ SigningAt(f, "revoke")
  /\ \E c \in flow[f].certs \cap portal.certs :
       /\ \A d \in flow[f].certs : c <= d
       /\ portal' = [portal EXCEPT !.certs = @ \ {c}]
       /\ revoked' = revoked \cup {c}
  /\ To(f, "create")
  /\ UNCHANGED <<cache, packages, used>>

\* ensureDeviceRegistered()
RegisterDevice(f) ==
  /\ SigningAt(f, "device")
  /\ portal' = [portal EXCEPT !.device = TRUE]
  /\ To(f, "app id")
  /\ UNCHANGED <<cache, packages, revoked, used>>

\* (mutant) the profile is made before the app has its group
AfterAppIdEarly(app) == "profile"

\* detectSpecialApp(), early: groups come before the profile
AfterAppId(app) == IF HasGroup(app) THEN "group" ELSE "profile"

\* the App ID, found or added
EnsureAppId(f) ==
  /\ SigningAt(f, "app id")
  /\ portal' = [portal EXCEPT !.ids = @ \cup {flow[f].app.id}]
  /\ To(f, AfterAppId(flow[f].app))
  /\ UNCHANGED <<cache, packages, revoked, used>>

\* ensureAppGroup()
EnsureGroup(f) ==
  /\ SigningAt(f, "group")
  /\ portal' = [portal EXCEPT !.groups = @ \cup {GroupOf(flow[f].app)}]
  /\ To(f, "enable")
  /\ UNCHANGED <<cache, packages, revoked, used>>

\* provisionAppGroupForAppId(): the capability, which the answer must show, and
\* then the group
EnableGroups(f) ==
  /\ SigningAt(f, "enable")
  /\ portal' = [portal EXCEPT !.enabled = @ \cup {flow[f].app.id}]
  /\ To(f, "assign")
  /\ UNCHANGED <<cache, packages, revoked, used>>

AssignGroup(f) ==
  /\ SigningAt(f, "assign")
  /\ portal' = [portal EXCEPT !.assigned = @ \cup {<<flow[f].app.id, GroupOf(flow[f].app)>>}]
  /\ To(f, "profile")
  /\ UNCHANGED <<cache, packages, revoked, used>>

\* what fetchProvisioningProfile() returns for an App ID, from the portal p
ProfileFor(p, id, group) ==
  [certs |-> p.certs, device |-> p.device,
   group |-> id \in p.enabled /\ <<id, group>> \in p.assigned]

FetchProfile(f) ==
  /\ SigningAt(f, "profile") /\ flow[f].app.id \in portal.ids
  /\ SigningGoes(f, [flow[f] EXCEPT !.pc = "extensions",
                             !.profile = ProfileFor(portal, flow[f].app.id, GroupOf(flow[f].app))])
  /\ UNCHANGED <<portal, cache, packages, revoked, used>>

\* embedExtensionProfiles(), for one of the extensions: an App ID of its own, the
\* group if the app has one, where either request may fail, and a profile
EmbedExtension(f) ==
  /\ SigningAt(f, "extensions")
  /\ \E e \in flow[f].exts \ flow[f].app.bare :
       LET g == GroupOf(flow[f].app) IN
       /\ \E on \in SUBSET (IF HasGroup(flow[f].app) THEN {e} ELSE {}) : \E put \in SUBSET on :
            portal' = [portal EXCEPT !.ids = @ \cup {e}, !.enabled = @ \cup on,
                                     !.assigned = @ \cup (put \X {g})]
       /\ SigningGoes(f, [flow[f] EXCEPT !.exts = @ \ {e},
                                  !.embedded = @ \cup
                    {[ext |-> e, profile |-> ProfileFor(portal', e, g)]}])
  /\ UNCHANGED <<cache, packages, revoked, used>>

\* one with no Info.plist or no CFBundleIdentifier is passed over with a warning
SkipExtension(f) ==
  /\ SigningAt(f, "extensions")
  /\ \E e \in flow[f].exts \cap flow[f].app.bare :
       SigningGoes(f, [flow[f] EXCEPT !.exts = @ \ {e}])
  /\ UNCHANGED <<portal, cache, packages, revoked, used>>

\* injectSpecialAppCertificate() and signIPA()
SignPackage(f) ==
  /\ SigningAt(f, "extensions") /\ flow[f].exts = {}
  /\ packages' = packages \cup
       {[app |-> flow[f].app, cert |-> flow[f].cert, profile |-> flow[f].profile,
         injected |-> flow[f].app.kind # "none", embedded |-> flow[f].embedded]}
  /\ SigningGoes(f, Rests)
  /\ UNCHANGED <<portal, cache, revoked, used>>

\* revokeCachedCertificate(), by handleRevokeCert(), which a signing keeps out
\* and a refresh does not: the cached one, or the first that this page has made
FindRevoked ==
  /\ SigningAt("sign", "idle") /\ used.runs < MaxRuns
  /\ \E c \in portal.certs :
       /\ IF cache # 0 THEN c = cache
          ELSE c > Foreign /\ \A d \in portal.certs : d > Foreign => c <= d
       /\ SigningGoes("sign", [Rests EXCEPT !.pc = "revoking", !.cert = c])
  /\ used' = [used EXCEPT !.runs = @ + 1]
  /\ UNCHANGED <<portal, cache, packages, revoked>>

\* the portal's answer: whatever is cached by now is dropped
RevokeCached ==
  /\ SigningAt("sign", "revoking") /\ flow["sign"].cert \in portal.certs
  /\ portal' = [portal EXCEPT !.certs = @ \ {flow["sign"].cert}]
  /\ revoked' = revoked \cup {flow["sign"].cert}
  /\ cache' = 0 /\ SigningGoes("sign", Rests)
  /\ UNCHANGED <<packages, used>>

-----------------------------------------------------------------------------
(* Specification                                                           *)

SigningNext ==
  \/ \E f \in Flows :
       \/ \E app \in Apps : StartRun(f, app)
       \/ FetchCertificates(f) \/ CreateCertificate(f) \/ LimitReached(f)
       \/ RevokeOldest(f) \/ RegisterDevice(f) \/ EnsureAppId(f)
       \/ EnsureGroup(f) \/ EnableGroups(f) \/ AssignGroup(f)
       \/ FetchProfile(f) \/ EmbedExtension(f) \/ SkipExtension(f)
       \/ SignPackage(f) \/ Rejects(f)
  \/ FindRevoked \/ RevokeCached

SigningSpec == SigningInit /\ [][SigningNext]_signingVars

-----------------------------------------------------------------------------
(* Properties                                                              *)

SigningTypeOK ==
  /\ portal.certs \subseteq 1..MaxMade /\ Cardinality(portal.certs) <= Limit
  /\ cache \in 0..MaxMade /\ revoked \subseteq 1..MaxMade
  /\ \A f \in Flows : flow[f].cert \in 0..MaxMade /\ flow[f].exts \subseteq flow[f].app.exts
  /\ used \in [made : 0..MaxMade, runs : 0..MaxRuns]

\* What is signed has the profiles it needs: the app's, and that of every
\* extension, carries its certificate, unless another call has revoked it, and
\* the device; the profile of an app with a group carries the group ("the
\* profile must include the App Group entitlement"); the extensions that have
\* one are those with an identifier.  A bare one is signed without.
PackageInstallable ==
  \A p \in packages :
    /\ \A pr \in {p.profile} \cup {x.profile : x \in p.embedded} :
         (p.cert \in pr.certs \/ p.cert \in revoked) /\ pr.device
    /\ HasGroup(p.app) => p.profile.group
    /\ {x.ext : x \in p.embedded} = p.app.exts \ p.app.bare

=============================================================================
