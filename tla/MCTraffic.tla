------------------------------ MODULE MCTraffic ------------------------------
(***************************************************************************)
(* What flows between the host and a container: the agent's terminal       *)
(* (PtyPump), the requests it makes of the sidecars (ProxyServer), and the *)
(* refreshes of the login these are sent with (TokenRefresh).  The three   *)
(* share nothing; a behaviour is of one `part`, and the others stay in one *)
(* of their initial states.                                                *)
(***************************************************************************)
EXTENDS PtyPump, ProxyServer

CONSTANTS n1, n2, p1, h1, h2, c1, None

VARIABLE part

\* The variables of TokenRefresh.
VARIABLES backend, newest, expired, file, torn, mtime, cli, out, up, state, lock, req,
          excused, kills
loginVars == <<backend, newest, expired, file, torn, mtime, cli, out, up, state, lock, req,
               excused, kills>>

\* One API proxy with two threads, which may be killed; one token expires.
Login == INSTANCE TokenRefresh WITH
    Procs <- {p1}, Handlers <- {h1, h2}, ProxyOf <- [h \in {h1, h2} |-> p1],
    Clis <- {c1}, Budgets <- {<<1, 1>>}

\* Scenarios of the terminal: how many bytes are typed and printed, how often the
\* window is resized, how many seconds pass, and so on.
OneFormat == [i \in Images |-> CHOOSE f \in Formats : TRUE]
BothTools == <<"wl-paste", "xclip">>
Bounds(t, p, r, s, c, u, e) ==
    [typed |-> t, printed |-> p, resized |-> r, seconds |-> s, capacity |-> c, unsaved |-> u,
     closes |-> e]
Quiet == Bounds(0, 0, 1, 0, 1, FALSE, {"stdin"})
PtyLimits == {
    Quiet,
    Bounds(2, 0, 0, 0, 1, TRUE, {}),
    Bounds(2, 0, 0, 1, 1, FALSE, {}),
    Bounds(0, 2, 0, 0, 2, FALSE, {"stdout"}),
    Bounds(1, 1, 0, 0, 1, FALSE, {"stdin"})}
-----------------------------------------------------------------------------
\* A request with some credentials; `mine` and `other` are the keys of profiles.
With(auth, owner, target, does) ==
    [auth |-> auth, owner |-> owner, length |-> "good", upgrade |-> FALSE,
     target |-> target, does |-> does]
Bearer(token) == [apiKey |-> "", bearer |-> token]
Signed(key, secret) == [signatures |-> <<key>>, tokens |-> <<secret>>]
Signature(key) == <<<<"version", "1">>, <<"keyId", key>>, <<"algorithm", "rsa-sha256">>>>
AskKube(target, does) == With(Bearer("mine"), "mine", target, does)
AskS3(target, does) == With(Signed("mine", "m"), "mine", target, does)
AskOci(target, does) == With(<<Signature("mine")>>, "mine", target, does)

Plainly(method, path) == [method |-> method, path |-> path, watch |-> FALSE]
Kube(v, r, n) == {[verb |-> v, resource |-> r, namespace |-> n]}

\* Requests of kubectl, with the verb, resource and namespace the API server takes
\* them for; a node's status is a resource's path that the proxy does not know.
Pods == <<"api", "v1", "namespaces", "dev", "pods">>
KubeRequests == {
    AskKube(Plainly("GET", <<"version">>), {}),
    AskKube(Plainly("GET", <<"api", "v1">>), {}),
    AskKube(Plainly("GET", <<"api", "v1", "nodes", "n", "status">>), Kube("get", "nodes", "")),
    AskKube(Plainly("GET", Pods), Kube("list", "pods", "dev")),
    AskKube(Plainly("GET", Pods \o <<"p">>), Kube("get", "pods", "dev")),
    AskKube([Plainly("GET", Pods) EXCEPT !.watch = TRUE], Kube("watch", "pods", "dev")),
    AskKube(Plainly("DELETE", Pods), Kube("deletecollection", "pods", "dev")),
    AskKube(Plainly("DELETE", Pods \o <<"p">>), Kube("delete", "pods", "dev")),
    AskKube(Plainly("POST", Pods \o <<"p", "exec">>), Kube("create", "pods", "dev")),
    AskKube(Plainly("GET", <<"apis", "apps", "v1", "deployments">>),
        Kube("list", "deployments", "")),
    AskKube(Plainly("GET", <<"api", "v1", "namespaces", "dev">>), Kube("get", "namespaces", "")),
    AskKube(Plainly("PATCH", <<"apis", "apps", "v1", "namespaces", "dev", "deployments", "d">>),
        Kube("patch", "deployments", "dev"))}
KubeRules == <<{[verbs |-> {"list", "watch"}, resources |-> {"*"}, namespaces |-> {"dev", ""}],
                [verbs |-> {"patch", "create"}, resources |-> {"deployments", "pods"},
                 namespaces |-> {"*"}]}>>

\* Requests of S3 clients on bucket b: keys x/1 (readable), y/1 (writable), z.
Does(p, name) == [permission |-> p, bucket |-> "b", object |-> name]
S3(method, object, query) == [method |-> method, bucket |-> "b", object |-> object,
                              query |-> query, prefixes |-> <<>>, source |-> <<>>]
X == <<"x", "1">>
Y == <<"y", "1">>
From(name) == <<[bucket |-> "b", object |-> name]>>
S3Requests == {
    AskS3(S3("GET", X, {"versionId"}), {Does("READ", X)}),
    AskS3(S3("GET", Y, {}), {Does("READ", Y)}),
    AskS3(S3("GET", <<>>, {"listing"}), {Does("LIST", <<>>)}),
    AskS3([S3("GET", <<>>, {"listing", "prefix"}) EXCEPT !.prefixes = <<<<"x">>>>],
        {Does("LIST", <<"x">>)}),
    AskS3([S3("GET", <<>>, {"prefix"}) EXCEPT !.prefixes = <<<<"x">>, <<>>>>],
        {Does("LIST", <<>>)}),
    AskS3([S3("GET", <<>>, {"uploads", "prefix"}) EXCEPT !.prefixes = <<<<"y">>>>],
          {Does("WRITE", <<"y">>)}),
    AskS3(S3("GET", Y, {"uploadId"}), {Does("WRITE", Y)}),
    AskS3(S3("PUT", Y, {}), {Does("WRITE", Y)}),
    AskS3(S3("PUT", Y, {"uploadId", "partNumber"}), {Does("WRITE", Y)}),
    AskS3([S3("PUT", Y, {}) EXCEPT !.source = From(X)], {Does("WRITE", Y), Does("READ", X)}),
    AskS3([S3("PUT", Y, {}) EXCEPT !.source = From(<<"z">>)],
        {Does("WRITE", Y), Does("READ", <<"z">>)}),
    AskS3(S3("POST", Y, {"uploads"}), {Does("WRITE", Y)}),
    AskS3(S3("DELETE", Y, {"uploadId"}), {Does("WRITE", Y)}),
    AskS3(S3("DELETE", Y, {}), {Does("DELETE", Y)}),
    AskS3(S3("PUT", X, {"acl"}), {Does("WRITE", X)})}
S3Rules == <<{[permissions |-> {"READ", "LIST"}, bucket |-> "b", prefix |-> <<"x">>],
              [permissions |-> {"WRITE"}, bucket |-> "b", prefix |-> <<"y">>]}>>

\* Requests of OCI clients on the same names.
InOci(effect) == [permission |-> effect.permission, namespace |-> "n", bucket |-> "b",
                  object |-> effect.object]
Oci(method, collection, object) ==
    [method |-> method, namespace |-> "n", bucket |-> "b", collection |-> collection,
     object |-> object, query |-> {}, prefixes |-> <<>>]
OciRequests == {
    AskOci(Oci("GET", "", <<>>), {InOci(Does("LIST", <<>>))}),
    AskOci([Oci("GET", "o", <<>>) EXCEPT !.query = {"prefix"}, !.prefixes = <<<<"x">>>>],
        {InOci(Does("LIST", <<"x">>))}),
    AskOci(Oci("GET", "o", X), {InOci(Does("READ", X))}),
    AskOci(Oci("PUT", "o", X), {InOci(Does("WRITE", X))}),
    AskOci(Oci("PUT", "o", Y), {InOci(Does("WRITE", Y))}),
    AskOci(Oci("DELETE", "o", Y), {InOci(Does("DELETE", Y))}),
    AskOci([Oci("GET", "u", <<>>) EXCEPT !.prefixes = <<<<"x">>>>], {InOci(Does("LIST", <<"x">>))}),
    AskOci(Oci("POST", "u", Y), {InOci(Does("WRITE", Y))}),
    AskOci(Oci("POST", "actions", <<>>), {InOci(Does("WRITE", <<>>))})}
OciRules == <<{[namespace |-> "n"] @@ rule : rule \in S3Rules[1]}>>

\* Credentials that are none, doubled, or of two profiles.
Strangers(ask, auths) == {[ask EXCEPT !.auth = a, !.owner = ""] : a \in auths}
OfS3 == {Signed("", ""), Signed("mine", "o"), [Signed("mine", "m") EXCEPT !.tokens = <<>>],
         [signatures |-> <<"mine", "other">>, tokens |-> <<"m">>]}
OfOci == {<<>>, <<Signature("mine"), Signature("other")>>,
          <<Append(Signature("mine"), <<"keyId", "other">>)>>,
          <<<<<<"keyId", "mine">>, <<"algorithm", "none">>>>>>}
Poorly(ask) == {ask, [ask EXCEPT !.length = "bad"], [ask EXCEPT !.length = "negative"]}

Profile(secret, rules) == [secret |-> secret, rules |-> rules]
Both(rules) == [k \in {"mine", "other"} |->
                  IF k = "mine" THEN Profile("m", rules) ELSE Profile("o", <<>>)]
Service(sidecar, rules, requests, conns, faults) ==
    [sidecar |-> sidecar, faults |-> faults,
     profiles |-> IF sidecar \in {"api", "kubectl"} THEN [k \in {"mine"} |-> Profile("", rules)]
                  ELSE Both(rules),
     requests |-> requests, conns |-> conns]
AnyCall == With([apiKey |-> "mine", bearer |-> ""], "mine", <<>>, {})
PutY == AskS3(S3("PUT", Y, {}), {Does("WRITE", Y)})
GetX == AskOci(Oci("GET", "o", X), {InOci(Does("READ", X))})
ListPods == AskKube(Plainly("GET", Pods), Kube("list", "pods", "dev"))

\* The policies, with nothing else going on, and all that may happen to a request or two.
Faults == {"leave", "close"}
MCServices == <<
    Service("kubectl", KubeRules, KubeRequests \cup Strangers(ListPods, {Bearer("")}), {n1}, {}),
    Service("s3", S3Rules, S3Requests \cup Strangers(PutY, OfS3), {n1}, {}),
    Service("oci", OciRules, OciRequests \cup Strangers(GetX, OfOci), {n1}, {}),
    Service("kubectl", KubeRules, Poorly(ListPods), {n1}, Faults),
    Service("s3", S3Rules, Poorly(PutY), {n1}, Faults),
    Service("oci", OciRules, Poorly(GetX), {n1}, Faults),
    Service("oci", <<>>, {GetX}, {n1, n2}, {"close"}),
    Service("api", <<>>, Poorly(AnyCall) \cup {[AnyCall EXCEPT !.upgrade = TRUE],
                                             [AnyCall EXCEPT !.auth = Bearer("other"),
                                              !.owner = ""],
                                             [AnyCall EXCEPT !.auth = Bearer(""), !.owner = ""]},
            {n1}, Faults)>>
-----------------------------------------------------------------------------
trafficVars == <<part, ptyVars, proxyVars, loginVars>>

TrafficInit ==
    /\ part \in {"terminal", "sidecar", "login"}
    /\ PtyInit /\ (part # "terminal" => limit = Quiet)
    /\ ProxyInit /\ (part # "sidecar" => service = 1)
    /\ Login!Init /\ (part # "login" => backend = "codex")

TrafficNext ==
    \/ part = "terminal" /\ PtyNext /\ UNCHANGED <<part, proxyVars, loginVars>>
    \/ part = "sidecar" /\ ProxyNext /\ UNCHANGED <<part, ptyVars, loginVars>>
    \/ part = "login" /\ Login!Next /\ UNCHANGED <<part, ptyVars, proxyVars>>

\* PtyFairness in the part that is about the terminal; the other two ask nothing of
\* the parts in which no connection is made and no request is sent.
InTerminal(step) == part = "terminal" /\ step
TrafficFairSpec ==
    /\ TrafficInit /\ [][TrafficNext]_trafficVars
    /\ WF_ptyVars(InTerminal(SetupStep)) /\ WF_ptyVars(InTerminal(PumpStep))
    /\ WF_ptyVars(InTerminal(EndStep)) /\ WF_ptyVars(InTerminal(OnWinch))
    /\ WF_ptyVars(InTerminal(ChildReads))
    /\ WF_ptyVars(InTerminal(child = "closed" /\ ChildEnds))
    /\ ProxyFairness /\ Login!Fairness

\* What ForwardedIsCovered takes for granted of the requests above.
ASSUME TruthfulRequests == Truthful

\* The types of the terminal and the sidecars; those of the login are TypeOK of
\* TokenRefresh.
TypeOK == PtyTypeOK /\ ProxyTypeOK /\ part \in {"terminal", "sidecar", "login"}

\* A request that reached the upstream is answered, also if other refreshes hold
\* the lock, CLIs hang or processes are killed.
Answered == Login!Answered
=============================================================================
