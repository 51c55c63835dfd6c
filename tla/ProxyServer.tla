---------------------------- MODULE ProxyServer ----------------------------
(***************************************************************************)
(* The sidecars' HTTP proxies: the API proxy, the kubectl RBAC proxy, and  *)
(* the OCI and S3 proxies.  Each is a threading server of its own; what    *)
(* their handlers share is the way of a request: authenticate, judge, read *)
(* the body, forward, answer, release.  A client may fall silent or leave  *)
(* at any step, the upstream may fail, hang or break off, and the main     *)
(* thread may close the server under the handlers.                         *)
(***************************************************************************)
EXTENDS RequestPolicy, FiniteSets

CONSTANTS
    Conns,      \* connections
    Services,   \* the instances: service -> [sidecar, profiles, requests, conns,
                \* faults], and as a bound which of "leave" (a client falls silent or
                \* leaves) and "close" (the server is closed) may happen in it
    MaxParts    \* the parts of an answer's body

Sidecars == {"api", "kubectl", "oci", "s3"}

ASSUME ProxyAssumption ==
    /\ MaxParts \in Nat
    /\ \A s \in DOMAIN Services :
          Services[s].sidecar \in Sidecars /\ Services[s].conns \subseteq Conns

VARIABLES
    service,    \* the instance, a constant of each behaviour
    server,     \* "serving", "stopping" (shutdown was called), "stopped" (accepts no
                \* more), "severing", "closed"
    tracked,    \* _active_sockets
    toSever,    \* the sockets close_active_requests has still to close
    conn        \* the connections

proxyVars == <<service, server, tracked, toSever, conn>>

\* A request: its credentials (`auth`), its Content-Length (`length`: "good", "negative",
\* or "bad", no number at all), an upgrade to a WebSocket or not, what the policy sees of
\* it (`target`), and, as observations, the profile it was made for (`owner`, "" when its
\* credentials are not those of one) and what the upstream does on it (`does`).
\* A connection: where its handler is; the proxy's end of the client's socket; the
\* client, which may have fallen silent ("deaf": it neither sends nor reads) or have
\* left; the upstream; what the client was sent; the two threads of a WebSocket.
NoConn == [at |-> "none", sock |-> "closed", peer |-> "gone", request |-> <<>>,
           up |-> "none", reached |-> FALSE, retried |-> FALSE,
           status |-> 0, answered |-> FALSE, parts |-> 0, broke |-> FALSE,
           down |-> "ended", back |-> "ended"]

Sidecar == Services[service].sidecar
Profiles == Services[service].profiles
Severs == Sidecar \in {"oci", "s3"}

\* MUTANT: no proxy has a time-out for its upstream.
NeverTimesOut == FALSE

\* kubectl's connection to its upstream has no time-out.
TimesOut == Sidecar # "kubectl"

Open(c) == conn[c].sock = "open"
Ended(c) == ~Open(c) \/ conn[c].peer = "gone"

\* A write to a client raises when the connection has ended, and, where the client's
\* socket has a time-out, also when the client does not read.
MayRaise(c) == Ended(c) \/ (conn[c].peer = "deaf" /\ Severs)

Move(c, stage, changed) ==
    /\ conn' = [conn EXCEPT ![c] = [changed EXCEPT !.at = stage]]
    /\ UNCHANGED <<service, server, tracked, toSever>>

\* One status line more, with an error or with the head of an answer.
WithStatus(c) == [conn[c] EXCEPT !.status = IF Open(c) THEN @ + 1 ELSE @]
-----------------------------------------------------------------------------
\* What the four handlers make of the head of a request.  A bad Content-Length
\* raises in the first two, which take a negative one.
ApiVerdict(r) ==
    IF ApiProfile(Profiles, r.auth) = {} THEN "refused"
    ELSE IF r.length = "bad" THEN "raised" ELSE "admitted"

KubectlVerdict(r) ==
    IF \A k \in KubectlProfile(Profiles, r.auth) : ~KubectlAllows(Profiles[k].rules, r.target)
    THEN "refused"
    ELSE IF r.length = "bad" THEN "raised" ELSE "admitted"

OciVerdict(r) ==
    IF \E k \in OciProfile(Profiles, r.auth) :
          OciAllows(Profiles[k].rules, r.target) /\ r.length = "good"
    THEN "admitted" ELSE "refused"

S3Verdict(r) ==
    IF \E k \in S3Profile(Profiles, r.auth) :
          S3Allows(Profiles[k].rules, r.target) /\ r.length = "good"
    THEN "admitted" ELSE "refused"

Verdict(r) ==
    CASE Sidecar = "api" -> ApiVerdict(r)
      [] Sidecar = "kubectl" -> KubectlVerdict(r)
      [] Sidecar = "oci" -> OciVerdict(r)
      [] Sidecar = "s3" -> S3Verdict(r)

ProxyInit ==
    /\ service \in DOMAIN Services
    /\ server = "serving" /\ tracked = {} /\ toSever = {}
    /\ conn = [c \in Conns |-> NoConn]

\* kubectl's server makes the TLS handshake in its accept loop.
InHandshake == \E c \in Conns : conn[c].at = "handshake"

Accepts(c) == server \in {"serving", "stopping"} /\ ~InHandshake
              /\ c \in Services[service].conns /\ conn[c].at = "none"
Accepted(c, r) ==
    conn' = [conn EXCEPT ![c] = [NoConn EXCEPT
                !.at = IF Sidecar = "kubectl" THEN "handshake" ELSE "head",
                !.sock = "open", !.peer = "there", !.request = r]]

\* MUTANT: the server does not keep the socket.
ConnectUntracked(c) ==
    /\ Accepts(c)
    /\ \E r \in Services[service].requests : Accepted(c, r)
    /\ UNCHANGED <<service, server, tracked, toSever>>

\* A client is accepted; the OCI and S3 servers keep its socket.
Connect(c) ==
    /\ Accepts(c)
    /\ \E r \in Services[service].requests : Accepted(c, r)
    /\ tracked' = IF Severs THEN tracked \cup {c} ELSE tracked
    /\ UNCHANGED <<service, server, toSever>>

\* Without a time-out; one that fails ends the connection.
Handshake(c) ==
    /\ conn[c].at = "handshake"
    /\ \/ conn[c].peer = "there" /\ Move(c, "head", conn[c])
       \/ Ended(c) /\ Move(c, "release", conn[c])

\* The client falls silent, or leaves.
Withdraw(c) ==
    /\ conn[c].at \notin {"none", "done"} /\ "leave" \in Services[service].faults
    /\ \/ conn[c].peer = "there" /\ Move(c, conn[c].at, [conn[c] EXCEPT !.peer = "deaf"])
       \/ conn[c].peer # "gone" /\ Move(c, conn[c].at, [conn[c] EXCEPT !.peer = "gone"])

\* The head of the request is read and judged, or the connection ends, or the
\* client's time is up.
ReadHead(c) ==
    /\ conn[c].at = "head"
    /\ \/ /\ Open(c) /\ conn[c].peer = "there"
          /\ LET verdict == Verdict(conn[c].request)
             IN  IF verdict = "admitted"
                 THEN Move(c, IF Severs THEN "forward" ELSE "body", conn[c])
                 ELSE Move(c, "release", IF verdict = "refused" THEN WithStatus(c)
                                         ELSE conn[c])
       \/ MayRaise(c) /\ Move(c, "release", conn[c])

\* The API and kubectl handlers read the whole body before they forward, without a
\* time-out; a body cut short by the client is forwarded as it is.  With a negative
\* length they read until the client ends it.
ReadBody(c) ==
    /\ conn[c].at = "body"
    /\ Ended(c) \/ (conn[c].peer = "there" /\ conn[c].request.length # "negative")
    /\ Move(c, "forward", conn[c])

\* A client that stays ends the body that is read to its end, when it likes.
EndBody(c) ==
    /\ conn[c].at = "body" /\ conn[c].request.length = "negative"
    /\ conn[c].peer = "there" /\ Move(c, "forward", conn[c])

\* The request goes to the upstream with the host's credentials (the OCI and S3
\* handlers stream its body), or cannot be signed or sent: 502.
Forward(c) ==
    /\ conn[c].at = "forward"
    /\ \/ Move(c, "upstream", [conn[c] EXCEPT !.up = "asked", !.reached = TRUE])
       \/ Move(c, "release", WithStatus(c))

\* What the upstream may do: answer, fail, refuse the token, switch to a WebSocket;
\* and end early what it has begun, or fall silent.
UpstreamActs(c) ==
    \/ /\ conn[c].at = "upstream" /\ conn[c].up = "asked"
       /\ \E answer \in {"answering", "failed"}
                   \cup (IF Sidecar = "api" THEN {"denied"} ELSE {})
                   \cup (IF conn[c].request.upgrade THEN {"switched"} ELSE {}) :
             Move(c, "upstream", [conn[c] EXCEPT !.up = answer])
    \/ /\ conn[c].at = "stream" /\ conn[c].up = "answering" /\ conn[c].parts < MaxParts
       /\ \E how \in {"failed", "stalled"} :
             Move(c, "stream", [conn[c] EXCEPT !.up = how])
    \/ /\ conn[c].at = "relay" /\ conn[c].up = "switched"
       /\ Move(c, "relay", [conn[c] EXCEPT !.up = "ended"])

\* No answer in time, or none at all: 502.
NoAnswer(c) ==
    /\ conn[c].at = "upstream"
    /\ conn[c].up = "failed" \/ (conn[c].up = "asked" /\ TimesOut)
    /\ Move(c, "release", WithStatus(c))

Retries(c) == conn[c].up = "denied" /\ ~conn[c].retried /\ ~conn[c].request.upgrade

\* The API handler sends a refused request again, once, with a refreshed token.
RefreshAndResend(c) ==
    /\ conn[c].at = "upstream" /\ Retries(c)
    /\ Move(c, "forward", [conn[c] EXCEPT !.retried = TRUE, !.up = "none"])

\* Status and headers of the answer.
Respond(c) ==
    /\ conn[c].at = "upstream" /\ conn[c].up \in {"answering", "denied"} /\ ~Retries(c)
    /\ \/ Open(c) /\ Move(c, "stream", [WithStatus(c) EXCEPT !.answered = TRUE,
                                                             !.up = "answering"])
       \/ MayRaise(c) /\ Move(c, "release", conn[c])

\* The body, part by part, to its end.
Stream(c) ==
    /\ conn[c].at = "stream" /\ conn[c].up = "answering"
    /\ \/ /\ conn[c].parts < MaxParts /\ Open(c)
          /\ Move(c, "stream", [conn[c] EXCEPT !.parts = @ + 1])
       \/ conn[c].parts < MaxParts /\ MayRaise(c) /\ Move(c, "release", conn[c])
       \/ conn[c].parts = MaxParts /\ Move(c, "release", conn[c])

BrokenOff(c) == conn[c].up = "failed" \/ (conn[c].up = "stalled" /\ TimesOut)

\* MUTANT: every handler answers a broken stream with an error.
StreamBrokenTold(c) ==
    /\ conn[c].at = "stream" /\ BrokenOff(c)
    /\ Move(c, "release", [WithStatus(c) EXCEPT !.broke = TRUE])

\* The kubectl handler, and the API handler for a refused upgrade, have one try
\* around forwarding and streaming: they answer 502 into a stream that breaks off.
OneTry(c) == Sidecar = "kubectl" \/ conn[c].request.upgrade

StreamBroken(c) ==
    /\ conn[c].at = "stream" /\ BrokenOff(c)
    /\ Move(c, "release",
            [(IF OneTry(c) THEN WithStatus(c) ELSE conn[c]) EXCEPT !.broke = TRUE])
-----------------------------------------------------------------------------
(* The relay of a WebSocket: `down` is the handler's thread, client to     *)
(* upstream, `back` the other one.                                         *)

\* The upgrade is passed on, and the two legs have no time-outs from then on.
Switch(c) ==
    /\ conn[c].at = "upstream" /\ conn[c].up = "switched"
    /\ \/ Open(c) /\ Move(c, "relay", [WithStatus(c) EXCEPT !.down = "read", !.back = "read"])
       \/ Ended(c) /\ Move(c, "release", conn[c])

UpOver(c) == conn[c].up \in {"ended", "shut", "none"}

\* A frame is read from one leg, and written to the other.
RelayRead(c) ==
    \/ /\ conn[c].down = "read" /\ Open(c) /\ conn[c].peer = "there"
       /\ Move(c, conn[c].at, [conn[c] EXCEPT !.down = "write"])
    \/ /\ conn[c].back = "read" /\ ~UpOver(c)
       /\ Move(c, conn[c].at, [conn[c] EXCEPT !.back = "write"])

WriteUp(c) ==
    /\ conn[c].down = "write" /\ ~UpOver(c)
    /\ Move(c, conn[c].at, [conn[c] EXCEPT !.down = "read"])

WriteBack(c) ==
    /\ conn[c].back = "write" /\ Open(c) /\ conn[c].peer = "there"
    /\ Move(c, conn[c].at, [conn[c] EXCEPT !.back = "read"])

DownEnds(c) == \/ conn[c].down = "read" /\ Ended(c)
               \/ conn[c].down = "write" /\ UpOver(c)
BackEnds(c) == \/ conn[c].back = "read" /\ UpOver(c)
               \/ conn[c].back = "write" /\ Ended(c)

\* MUTANT: a thread that ends shuts its own source down only.
RelayEndsAlone(c) ==
    \/ DownEnds(c) /\ Move(c, conn[c].at, [conn[c] EXCEPT !.down = "ended", !.sock = "closed"])
    \/ BackEnds(c) /\ Move(c, conn[c].at, [conn[c] EXCEPT !.back = "ended", !.up = "shut"])

\* terminate: the end of a leg, or an error on it, shuts down both sockets, which
\* wakes the other thread.
RelayEnds(c) ==
    LET shut == [conn[c] EXCEPT !.sock = "closed", !.up = "shut"]
    IN  \/ DownEnds(c) /\ Move(c, conn[c].at, [shut EXCEPT !.down = "ended"])
        \/ BackEnds(c) /\ Move(c, conn[c].at, [shut EXCEPT !.back = "ended"])

\* The handler joins the other thread for 30 s at most, and closes the upstream.
RelayJoin(c) ==
    /\ conn[c].at = "relay" /\ conn[c].down = "ended"
    /\ Move(c, "release", conn[c])

\* The upstream's connection is drained or closed; the client's is closed, and
\* forgotten.
Release(c) ==
    /\ conn[c].at = "release"
    /\ conn' = [conn EXCEPT ![c] = [@ EXCEPT !.at = "done", !.sock = "closed", !.up = "none"]]
    /\ tracked' = tracked \ {c}
    /\ UNCHANGED <<service, server, toSever>>
-----------------------------------------------------------------------------
(* The end of the sidecar, in the main thread.                             *)

Shutdown ==
    /\ server = "serving" /\ "close" \in Services[service].faults
    /\ server' = "stopping"
    /\ UNCHANGED <<service, tracked, toSever, conn>>

\* shutdown returns when the accept loop has ended, which a handshake holds up.
StopAccepting ==
    /\ server = "stopping" /\ ~InHandshake
    /\ server' = "stopped"
    /\ UNCHANGED <<service, tracked, toSever, conn>>

\* close_active_requests takes the active sockets under the lock ...
ListActive ==
    /\ server = "stopped" /\ Severs
    /\ server' = "severing" /\ toSever' = tracked
    /\ UNCHANGED <<service, tracked, conn>>

\* ... and closes one after another.
Sever(c) ==
    /\ server = "severing" /\ c \in toSever
    /\ toSever' = toSever \ {c}
    /\ conn' = [conn EXCEPT ![c].sock = "closed"]
    /\ UNCHANGED <<service, server, tracked>>

\* The API and kubectl servers leave their handlers, daemon threads, running.
CloseServer ==
    /\ \/ server = "stopped" /\ ~Severs
       \/ server = "severing" /\ toSever = {}
    /\ server' = "closed"
    /\ UNCHANGED <<service, tracked, toSever, conn>>

CloseStep == StopAccepting \/ ListActive \/ CloseServer \/ \E c \in Conns : Sever(c)

HandlerStep(c) ==
    \/ Handshake(c) \/ ReadHead(c) \/ ReadBody(c) \/ Forward(c) \/ NoAnswer(c)
    \/ RefreshAndResend(c) \/ Respond(c) \/ Stream(c) \/ StreamBroken(c) \/ Switch(c)
    \/ RelayJoin(c) \/ Release(c)

ProxyNext ==
    \/ \E c \in Conns :
          \/ Connect(c) \/ Withdraw(c) \/ EndBody(c) \/ UpstreamActs(c)
          \/ HandlerStep(c) \/ RelayRead(c) \/ WriteUp(c) \/ WriteBack(c) \/ RelayEnds(c)
    \/ Shutdown \/ CloseStep

ProxySpec == ProxyInit /\ [][ProxyNext]_proxyVars

\* Threads run, and a client that has not fallen silent reads what it is sent; neither
\* clients nor upstreams need do anything else.
ProxyFairness ==
    /\ WF_proxyVars(CloseStep)
    /\ \A c \in Conns :
          /\ WF_proxyVars(HandlerStep(c)) /\ WF_proxyVars(WriteBack(c))
          /\ WF_proxyVars(DownEnds(c) /\ RelayEnds(c))
          /\ WF_proxyVars(BackEnds(c) /\ RelayEnds(c))
-----------------------------------------------------------------------------
ProxyTypeOK ==
    /\ service \in DOMAIN Services
    /\ server \in {"serving", "stopping", "stopped", "severing", "closed"}
    /\ tracked \subseteq Conns /\ toSever \subseteq Conns
    /\ DOMAIN conn = Conns
    /\ \A c \in Conns :
          /\ conn[c].at \in {"none", "handshake", "head", "body", "forward", "upstream",
                             "stream", "relay",
                             "release", "done"}
          /\ conn[c].sock \in {"open", "closed"}
          /\ conn[c].peer \in {"there", "deaf", "gone"}
          /\ conn[c].at # "none" => conn[c].request \in Services[service].requests
          /\ conn[c].up \in {"none", "asked", "answering", "failed", "stalled", "denied",
                             "switched", "ended", "shut"}
          /\ conn[c].status \in 0..2 /\ conn[c].parts \in 0..MaxParts
          /\ conn[c].down \in {"read", "write", "ended"}
          /\ conn[c].back \in {"read", "write", "ended"}

\* The RBAC proxy takes every path for discovery in which it finds no resource, and
\* forwards it without a look at the rules.
TakenForDiscovery(r) == Sidecar = "kubectl" /\ ParseK8sUrl(r.target.path).resource = ""

\* A request is forwarded only if it was made with a profile's own credentials and
\* all the upstream does on it, as the upstream's interface has it, is covered by the
\* rules of that profile, unless it has none.  The rules are not asked, and nothing is
\* claimed of what the API server does, when the RBAC proxy takes the path for
\* discovery: "Unmatched requests are denied" (docs/sidecars/kubernetes.md) does not
\* hold for the resources whose paths it does not know, a node's status among them.
Covers(rule, effect) ==
    CASE Sidecar = "kubectl" -> RbacMatch(rule, effect.verb, effect.resource, effect.namespace)
      [] Sidecar = "oci" -> OciMatch(rule, effect)
      [] Sidecar = "s3" -> S3Match(rule, effect)

ForwardedIsCovered ==
    \A c \in Conns :
        conn[c].reached =>
            LET owner == conn[c].request.owner
            IN  /\ owner \in DOMAIN Profiles
                /\ Profiles[owner].rules # <<>> /\ ~TakenForDiscovery(conn[c].request) =>
                      \A effect \in conn[c].request.does :
                          \E rule \in Profiles[owner].rules[1] : Covers(rule, effect)

\* What the proxies assume of their upstreams, service by service: a request with the
\* credentials of a profile is that profile's, and the upstream does on it nothing but
\* what the proxy takes it for, if the proxy can tell: it reads a path segment by
\* segment as the proxy does, and takes the same segments for the resource and its
\* subresource.
Taken(sidecar, r) ==
    CASE sidecar = "kubectl" ->
           LET url == ParseK8sUrl(r.path)
               verb == Verb(r.method, url.named, url.resource # "" /\ r.watch)
           IN  IF url.resource = "" \/ url.subresource \in BlockedSubresources THEN {}
               ELSE {[verb |-> verb, resource |-> url.resource, namespace |-> url.namespace]}
      [] sidecar = "oci" -> OciTargets(r)
      [] sidecar = "s3" -> S3Targets(r)

Truthful ==
    \A s \in DOMAIN Services : \A r \in Services[s].requests :
        LET sidecar == Services[s].sidecar
            profiles == Services[s].profiles
            authenticated ==
                CASE sidecar = "api" -> ApiProfile(profiles, r.auth)
                  [] sidecar = "kubectl" -> KubectlProfile(profiles, r.auth)
                  [] sidecar = "oci" -> OciProfile(profiles, r.auth)
                  [] sidecar = "s3" -> S3Profile(profiles, r.auth)
        IN  /\ authenticated \subseteq {r.owner}
            /\ sidecar = "api" => r.does = {}
            /\ sidecar # "api" /\ Taken(sidecar, r.target) # {} =>
                  r.does \subseteq Taken(sidecar, r.target)

\* A client that stays is told something once, and is sent the whole answer unless
\* the upstream broke off: it finds no second status line in the body, but for the
\* two handlers with one try around it all, and no connection closed without a
\* word, but for the two handlers that do not catch a bad Content-Length.
ClientServed ==
    \A c \in Conns :
        conn[c].at = "done" /\ conn[c].peer = "there" /\ (server = "serving" \/ ~Severs) =>
            /\ \/ conn[c].status = 1
               \/ conn[c].status = 2 /\ conn[c].broke /\ OneTry(c)
               \/ conn[c].status = 0 /\ Verdict(conn[c].request) = "raised"
            /\ conn[c].answered => conn[c].parts = MaxParts \/ conn[c].broke

\* Once close() of the OCI or S3 server has returned, the sandbox gets nothing more
\* from it, whatever its handlers are doing.
SilentAfterClose ==
    [][server = "closed" /\ Severs =>
         \A c \in Conns : /\ conn'[c].status = conn[c].status
                          /\ conn'[c].parts = conn[c].parts]_proxyVars

\* A request that waits for nobody comes to an end, or to wait: for a client of the
\* API or kubectl proxy that has fallen silent or has still to end the body of a request
\* with a negative length, for an upstream of kubectl's (a watch), or in a WebSocket in
\* use.  The closing of a server ends too, but while a client has fallen silent in
\* kubectl's handshake.
Waiting(c) ==
    \/ conn[c].peer = "deaf" /\ ~Severs
    \/ conn[c].at = "body" /\ conn[c].request.length = "negative"
    \/ conn[c].up \in {"asked", "stalled"} /\ Sidecar = "kubectl"
    \/ conn[c].at = "relay"

HeldUp == \E c \in Conns : conn[c].at = "handshake" /\ conn[c].peer = "deaf"

RequestEnds ==
    /\ \A c \in Conns :
          (conn[c].at \notin {"none", "done"} /\ ~Waiting(c)) ~> (conn[c].at = "done" \/ Waiting(c))
    /\ (server = "stopping" /\ ~HeldUp) ~> (server = "closed" \/ HeldUp)

\* When a leg of a WebSocket has ended both threads end and both sockets are
\* closed, but while a frame waits for the upstream to read it, or the client
\* neither reads nor leaves.
TunnelHeld(c) == conn[c].peer = "deaf" \/ conn[c].down = "write"

TunnelCloses ==
    \A c \in Conns :
        (conn[c].at = "relay" /\ (conn[c].peer = "gone" \/ conn[c].up = "ended")) ~>
            \/ conn[c].at = "done" /\ conn[c].down = "ended" /\ conn[c].back = "ended"
            \/ TunnelHeld(c)
=============================================================================
