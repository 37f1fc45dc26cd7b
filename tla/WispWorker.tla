---------------------------- MODULE WispWorker ----------------------------
(***************************************************************************)
(* One request to the backend worker (backend/src/index.ts,                *)
(* portal-proxy.ts, wisp-policy.ts): where fetch() sends it, what it       *)
(* contacts with which headers, and, when it opens a WISP session, the     *)
(* messages of the WebSocket through WsAdapter.  A header is its value's   *)
(* kind; upstream servers answer as they like.                             *)
(***************************************************************************)
EXTENDS Integers, Sequences, FiniteSets, SequencesExt

CONSTANTS
  AnisetteSources,  \* the length of ANISETTE_SOURCES
  MaxMessages       \* bound: messages on the WebSocket

ASSUME WispWorkerAssumption ==
  AnisetteSources \in Nat \ {0} /\ MaxMessages \in Nat

VARIABLES
  request,  \* the request; constant
  worker,   \* where fetch() is, the source it asks, what it contacted, replies
  ws        \* the WsAdapter: what came, what is converted, what was handed on

workerVars == <<request, worker, ws>>

Statuses == {200, 101, 400, 401, 403, 404, 405, 426, 500, 502}

-----------------------------------------------------------------------------
(* Requests                                                                *)

Plain ==
  [path |-> "root", method |-> "GET", upgrade |-> FALSE, token |-> "none",
   env |-> "public", target |-> "none", info |-> "none", body |-> "none",
   type |-> "none"]

\* The hosts and paths that /apple-proxy/ tells apart; "unlisted" is in no
\* pattern of APPLE_HOST_PATTERNS.
Targets == {"invalid", "unlisted", "listed", "gsa", "validate", "sms", "dev"}
Allowed == Targets \ {"invalid", "unlisted"}

SimpleRequest(p, m) == [Plain EXCEPT !.path = p, !.method = m]

AppleRequest(m, t, i) ==
  [Plain EXCEPT !.path = "proxy", !.method = m, !.target = t, !.info = i]

\* The body's path is under /services/ or elsewhere, and it may bring a content
\* type; "bad" is not JSON, or has a value that no header can carry.
PortalRequest(m, b, t) ==
  [Plain EXCEPT !.path = "portal", !.method = m, !.body = b, !.type = t]

WispRequest(p, u, t, e) ==
  [Plain EXCEPT !.path = p, !.upgrade = u, !.token = t, !.env = e]

Requests ==
  {SimpleRequest(p, m) :
     p \in {"healthz", "root", "anisette", "assets"}, m \in {"GET", "POST"}}
  \cup
  {AppleRequest(m, t, i) :
     m \in {"GET", "POST"}, t \in Targets, i \in {"none", "xcode", "akd"}}
  \cup
  {PortalRequest(m, b, t) :
     m \in {"GET", "POST"},
     b \in {"bad", "incomplete", "elsewhere", "services"}, t \in {"none", "client"}}
  \cup
  {WispRequest(p, u, t, e) :
     p \in {"wisp", "wispOther"}, u \in BOOLEAN,
     t \in {"none", "hash", "hashSlash", "password", "wrong"},
     e \in {"public", "hash", "password", "both"}}

WorkerInit ==
  /\ request \in Requests
  /\ worker = [pc |-> "route", source |-> 0, contacted |-> {}, status |-> 0,
               sent |-> [info |-> "none", agent |-> "none", type |-> "none",
                         tokens |-> FALSE]]
  /\ ws = [came |-> 0, converting |-> {}, handed |-> <<>>, closed |-> FALSE]

-----------------------------------------------------------------------------
(* wisp-policy                                                             *)

\* isValidToken(): the hash of the environment, or that of its password; here
\* both passwords are one.  Trailing slashes of what was supplied go.
Expected(env) == IF env = "public" THEN "none" ELSE "hash"

Supplied(token) == IF token = "hashSlash" THEN "hash" ELSE token

IsValidToken(token, env) ==
  env = "public" \/ Supplied(token) = Expected(env)

-----------------------------------------------------------------------------
(* The headers of /apple-proxy/                                            *)

Is2fa(t) == t \in {"validate", "sms"}

\* (mutant) only the headers of the two other kinds are made anew
AkdForDev(t) == t = "dev"

\* those that are made anew to mimic akd
Akd(t) == (Is2fa(t) /\ t # "sms") \/ t = "dev"

\* The identifier of a client that is not 2FA loses Xcode's name.
Unblocked(t, info) == IF ~Is2fa(t) /\ info = "xcode" THEN "akd" ELSE info

Forwarded(r) ==
  [info |-> IF Akd(r.target) THEN "akd" ELSE Unblocked(r.target, r.info),
   agent |-> CASE Akd(r.target) -> "akd"
               [] ~Akd(r.target) /\ r.target \in {"gsa", "sms"} -> "AuthKit"
               [] OTHER -> "client",
   type |-> CASE Akd(r.target) -> "plist"
              [] ~Akd(r.target) /\ r.method = "GET" -> "none"
              [] OTHER -> "client",
   tokens |-> TRUE]

-----------------------------------------------------------------------------
(* fetch()                                                                 *)

WorkerReply(status) == [worker EXCEPT !.pc = "done", !.status = status]

WorkerAt(p) == worker.pc = "route" /\ request.path = p

Contact(host, headers) ==
  [worker EXCEPT !.pc = "upstream", !.contacted = @ \cup {host},
                 !.sent = headers]

RouteSimple ==
  /\ \E p \in {"healthz", "root", "assets"} : WorkerAt(p)
  /\ worker' = WorkerReply(200)
  /\ UNCHANGED <<request, ws>>

RouteAnisette ==
  /\ WorkerAt("anisette")
  /\ worker' = IF request.method = "GET"
                 THEN Contact("anisette", worker.sent) ELSE WorkerReply(405)
  /\ UNCHANGED <<request, ws>>

RouteProxy ==
  /\ WorkerAt("proxy")
  /\ worker' = CASE request.target = "invalid" -> WorkerReply(400)
                 [] request.target = "unlisted" -> WorkerReply(403)
                 [] OTHER -> Contact(request.target, Forwarded(request))
  /\ UNCHANGED <<request, ws>>

\* handlePortalProxy() up to its first request for anisette data
RoutePortal ==
  /\ WorkerAt("portal")
  /\ worker' =
       CASE request.method # "POST" -> WorkerReply(405)
         [] request.method = "POST" /\ request.body = "bad" -> WorkerReply(500)
         [] request.method = "POST" /\ request.body = "incomplete" -> WorkerReply(400)
         [] request.method = "POST" /\ request.body = "elsewhere" -> WorkerReply(403)
         [] OTHER -> [worker EXCEPT !.pc = "source", !.source = 1,
                                    !.contacted = @ \cup {"anisette"}]
  /\ UNCHANGED <<request, ws>>

RouteWisp ==
  /\ \E p \in {"wisp", "wispOther"} : WorkerAt(p)
  /\ worker' =
       CASE ~request.upgrade -> WorkerReply(426)
         [] request.upgrade /\ request.path # "wisp" -> WorkerReply(404)
         [] request.upgrade /\ request.path = "wisp"
              /\ ~IsValidToken(request.token, request.env) -> WorkerReply(401)
         [] OTHER -> [worker EXCEPT !.pc = "session", !.status = 101]
  /\ UNCHANGED <<request, ws>>

\* The client an anisette server says its data is of
Descriptions == {"xcode", "akd"}

\* Header names have no case: the server's description replaces the akd
\* identifier that was set a few lines before.
PortalHeaders(description) ==
  [info |-> description, agent |-> "akd",
   type |-> IF request.type = "none" THEN "plist" ELSE request.type,
   tokens |-> TRUE]

\* fetchAnisette(): a source that answers with an error, lacks a field or
\* throws is passed over for the next; after the last the request fails.  A
\* field that is no header's value, a time that is none or a body that is not
\* base64 throws before Apple is asked.
SourceAnswers(how) ==
  /\ worker.pc = "source"
  /\ worker' =
       CASE how \in Descriptions -> Contact("dev", PortalHeaders(how))
         [] how = "bad" /\ worker.source < AnisetteSources ->
              [worker EXCEPT !.source = @ + 1]
         [] OTHER -> WorkerReply(500)
  /\ UNCHANGED <<request, ws>>

\* The server contacted answers: well, with an error status or with data that
\* is not anisette, or the fetch throws.
Answered(path, status) ==
  /\ worker.pc = "upstream" /\ request.path = path
  /\ worker' = WorkerReply(status)
  /\ UNCHANGED <<request, ws>>

AnisetteAnswers(how) == Answered("anisette", IF how = "ok" THEN 200 ELSE 502)

\* Any status is passed on and nothing is caught: the runtime replies 500.
ProxyAnswers(how) == Answered("proxy", IF how = "throws" THEN 500 ELSE 200)

\* Any status goes into the body of a 200; a throw is caught.
PortalAnswers(how) == Answered("portal", IF how = "throws" THEN 500 ELSE 200)

\* runWispSession() fails: the WebSocket is closed with 1011
SessionFails ==
  /\ worker.pc = "session"
  /\ worker' = [worker EXCEPT !.pc = "done"]
  /\ ws' = [ws EXCEPT !.closed = TRUE]
  /\ UNCHANGED request

-----------------------------------------------------------------------------
(* WsAdapter                                                               *)

\* a message: a Blob is converted first, anything else handed on at once
Message(blob) ==
  /\ worker.pc = "session" /\ ws.came < MaxMessages /\ ~ws.closed
  /\ ws' = [ws EXCEPT
       !.came = @ + 1,
       !.converting = IF blob THEN @ \cup {ws.came + 1} ELSE @,
       !.handed = IF blob THEN @ ELSE Append(@, [n |-> ws.came + 1,
                                                 how |-> "direct"])]
  /\ UNCHANGED <<request, worker>>

\* arrayBuffer() settles; a failure is handed on as an empty packet
Converted(n, how) ==
  /\ n \in ws.converting
  /\ ws' = [ws EXCEPT !.converting = @ \ {n},
                      !.handed = Append(@, [n |-> n, how |-> how])]
  /\ UNCHANGED <<request, worker>>

\* The close event goes to wisp-js at once, before conversions under way.
SocketClosed ==
  /\ worker.pc = "session" /\ ~ws.closed
  /\ ws' = [ws EXCEPT !.closed = TRUE]
  /\ UNCHANGED <<request, worker>>

-----------------------------------------------------------------------------
WorkerNext ==
  \/ RouteSimple \/ RouteAnisette \/ RouteProxy \/ RoutePortal \/ RouteWisp
  \/ \E how \in Descriptions \cup {"bad", "unusable"} : SourceAnswers(how)
  \/ \E how \in {"ok", "bad", "throws"} :
       AnisetteAnswers(how) \/ ProxyAnswers(how) \/ PortalAnswers(how)
  \/ SessionFails
  \/ \E blob \in BOOLEAN : Message(blob)
  \/ \E n \in 1..MaxMessages, how \in {"blob", "empty"} : Converted(n, how)
  \/ SocketClosed

WorkerSpec == WorkerInit /\ [][WorkerNext]_workerVars

-----------------------------------------------------------------------------
(* Properties                                                              *)

WorkerTypeOK ==
  /\ request \in Requests
  /\ worker.status \in Statuses \cup {0}
  /\ worker.source \in 0..AnisetteSources
  /\ ws.converting \subseteq 1..ws.came

\* What leaves with a user's tokens is a request to /apple-proxy/ and goes to
\* the host it names, one of APPLE_HOST_PATTERNS, or one to /api/portal/ and
\* goes to the developer portal, below /services/ only; a source of anisette
\* data is asked without them.  On /apple-proxy/ it names Xcode as its client
\* only where the user's own header does and only to the SMS endpoints, which
\* the akd headers and the replacement both pass over, and says akd twice or
\* not at all; on /api/portal/ it is what the anisette server says it is.
TokensOnlyToApple ==
  worker.sent.tokens =>
    \/ /\ request.path = "proxy"
       /\ request.target \in Allowed /\ worker.contacted = {request.target}
       /\ worker.sent.info = "xcode" =>
            request.target = "sms" /\ request.info = "xcode"
       /\ worker.sent.agent = "akd" => worker.sent.info = "akd"
    \/ /\ request.path = "portal" /\ request.body = "services"
       /\ worker.contacted = {"anisette", "dev"}

=============================================================================
