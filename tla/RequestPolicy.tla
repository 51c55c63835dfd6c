--------------------------- MODULE RequestPolicy ---------------------------
(***************************************************************************)
(* Which requests the sidecars' proxies let through: the classification of *)
(* a request by method, path and query, and its comparison with the rules. *)
(* Names are sequences, so that a rule's prefix is a prefix of sequences;  *)
(* a query is the set of its keys.  No rules (None in the code) is <<>>,   *)
(* and rules R are <<R>>.                                                  *)
(***************************************************************************)
EXTENDS Naturals, Sequences, SequencesExt

Reading == {"GET", "HEAD"}

(* Whose request it is: the keys of the profiles it authenticates for (at   *)
(* most one); `profiles` maps a key to its secret and its rules.            *)

ApiProfile(profiles, auth) == {k \in DOMAIN profiles : k \in {auth.apiKey, auth.bearer}}

KubectlProfile(profiles, auth) == {k \in DOMAIN profiles : k = auth.bearer}

\* S3: exactly one signature and one session token, of the same profile.
S3Profile(profiles, auth) ==
    {k \in DOMAIN profiles : /\ auth.signatures = <<k>>
                             /\ auth.tokens = <<profiles[k].secret>>}

SignatureParameters == {"version", "headers", "keyId", "algorithm", "signature"}

\* The key ID of an OCI signature, a sequence of names and values: known names, each
\* once, and the one algorithm.
SignatureKeyId(signature) ==
    LET names == {p[1] : p \in ToSet(signature)}
        ValueOf(name) == {p[2] : p \in {q \in ToSet(signature) : q[1] = name}}
    IN  IF /\ names \subseteq SignatureParameters
           /\ \A i, j \in DOMAIN signature : signature[i][1] = signature[j][1] => i = j
           /\ ValueOf("algorithm") = {"rsa-sha256"}
        THEN ValueOf("keyId") ELSE {}

OciProfile(profiles, auth) ==
    {k \in DOMAIN profiles : Len(auth) = 1 /\ k \in SignatureKeyId(auth[1])}
-----------------------------------------------------------------------------

\* The prefix a listing asks for.
Prefix(r) == IF r.prefixes = <<>> THEN <<>> ELSE r.prefixes[1]
-----------------------------------------------------------------------------
(* S3.                                                                     *)

ListKeys == {"listing", "prefix"}                 \* list-type, delimiter, marker ...
UploadListKeys == {"uploads", "upload-marker"}
ReadKeys == {"versionId", "partNumber", "response"}
PartListKeys == {"uploadId", "part-marker"}

\* policy_targets: the permission a request on a bucket or on an object needs;
\* one that is not known needs what nobody has.
S3Needs(r, p) ==
    LET keys == r.query \ {"x-id"}
    IN  IF r.object = <<>>
        THEN /\ Len(r.prefixes) <= 1
             /\ \/ p = "LIST" /\ r.method \in Reading /\ keys \subseteq ListKeys
                \/ /\ p = "WRITE" /\ r.method = "GET" /\ "uploads" \in keys
                   /\ keys \subseteq ListKeys \cup UploadListKeys
        ELSE \/ p = "READ" /\ r.method \in Reading /\ keys \subseteq ReadKeys
             \/ /\ p = "WRITE" /\ r.method \in Reading
                /\ "uploadId" \in keys /\ keys \subseteq PartListKeys
             \/ p = "WRITE" /\ r.method = "PUT" /\ keys \in {{}, {"uploadId", "partNumber"}}
             \/ p = "WRITE" /\ r.method = "POST" /\ keys \in {{"uploads"}, {"uploadId"}}
             \/ p = "WRITE" /\ r.method = "DELETE" /\ keys = {"uploadId"}
             \/ p = "DELETE" /\ r.method = "DELETE" /\ keys \subseteq {"versionId"}

Permissions == {"READ", "LIST", "WRITE", "DELETE"}

\* The target of a request, {} when there is none or it is ambiguous.
S3Own(r) ==
    {[permission |-> p, bucket |-> r.bucket,
      object |-> IF r.object = <<>> THEN Prefix(r) ELSE r.object] :
        p \in {q \in Permissions : r.bucket # "" /\ S3Needs(r, q)}}

\* A copy reads its source as well; a source without a bucket is ambiguous.
S3Targets(r) ==
    IF r.method # "PUT" \/ r.source = <<>> \/ S3Own(r) = {} THEN S3Own(r)
    ELSE {t \in S3Own(r) \cup {[permission |-> "READ", bucket |-> r.source[1].bucket,
                                object |-> r.source[1].object]} :
             r.source[1].bucket # ""}

S3Match(rule, t) ==
    /\ t.permission \in rule.permissions
    /\ t.bucket = rule.bucket
    /\ IsPrefix(rule.prefix, t.object)

\* MUTANT: one of the targets of a copy is enough.
S3AllowsSome(rules, r) ==
    rules = <<>> \/ \E t \in S3Targets(r) : \E rule \in rules[1] : S3Match(rule, t)

S3Allows(rules, r) ==
    rules = <<>> \/ /\ S3Targets(r) # {}
                    /\ \A t \in S3Targets(r) : \E rule \in rules[1] : S3Match(rule, t)
-----------------------------------------------------------------------------
(* OCI object storage: /n/<namespace>/b/<bucket>[/<collection>[/<object>]].*)

OciListKeys == {"prefix", "listing"}

OciNeeds(r, p) ==
    LET bare == r.object = <<>>
        asked == r.method = "GET" /\ Len(r.prefixes) <= 1
    IN  CASE r.collection = "" -> p = "LIST" /\ r.method \in Reading
          [] r.collection = "o" /\ bare ->
                p = "LIST" /\ asked /\ r.query \subseteq OciListKeys
          [] r.collection = "o" /\ ~bare ->
                \/ p = "READ" /\ r.method \in Reading
                \/ p = "WRITE" /\ r.method = "PUT"
                \/ p = "DELETE" /\ r.method = "DELETE"
          [] r.collection = "u" /\ bare -> p = "LIST" /\ asked
          [] r.collection = "u" /\ ~bare ->
                p = "WRITE" /\ r.method \in {"GET", "PUT", "POST", "DELETE"}
          [] OTHER -> FALSE

\* Without a collection the whole bucket is meant, whatever the query says.
OciTargets(r) ==
    {[permission |-> p, namespace |-> r.namespace, bucket |-> r.bucket,
      object |-> IF r.collection = "" THEN <<>>
                 ELSE IF r.object = <<>> THEN Prefix(r) ELSE r.object] :
        p \in {q \in Permissions : /\ r.namespace # "" /\ r.bucket # ""
                                   /\ OciNeeds(r, q)}}

OciMatch(rule, t) ==
    /\ t.permission \in rule.permissions
    /\ t.namespace = rule.namespace /\ t.bucket = rule.bucket
    /\ IsPrefix(rule.prefix, t.object)

OciAllows(rules, r) ==
    rules = <<>> \/ /\ OciTargets(r) # {}
                    /\ \A t \in OciTargets(r) : \E rule \in rules[1] : OciMatch(rule, t)
-----------------------------------------------------------------------------
(* Kubernetes: a path is the sequence of its segments.                     *)

\* What parse_k8s_url makes of a path; anything that is not the path of a
\* resource is discovery.
Discovery == [namespace |-> "", resource |-> "", subresource |-> "", named |-> FALSE]

ParseK8sUrl(path) ==
    LET base == IF path # <<>> /\ path[1] = "api" THEN 2 ELSE 3
        rest == SubSeq(path, base + 1, Len(path))
        n == Len(rest)
    IN  IF path = <<>> \/ path[1] \notin {"api", "apis"} THEN Discovery
        ELSE IF n \in 3..5 /\ rest[1] = "namespaces"
             THEN [namespace |-> rest[2], resource |-> rest[3],
                   subresource |-> IF n = 5 THEN rest[5] ELSE "", named |-> n >= 4]
        ELSE IF n \in 1..2
             THEN [Discovery EXCEPT !.resource = rest[1], !.named = (n = 2)]
        ELSE Discovery

Verb(method, named, watch) ==
    CASE method = "GET" /\ watch -> "watch"
      [] method = "GET" /\ ~watch -> IF named THEN "get" ELSE "list"
      [] method = "DELETE" -> IF named THEN "delete" ELSE "deletecollection"
      [] method = "POST" -> "create"
      [] method = "PUT" -> "update"
      [] method = "PATCH" -> "patch"
      [] OTHER -> "head"

BlockedSubresources == {"exec", "attach", "portforward", "proxy"}

RbacMatch(rule, verb, resource, namespace) ==
    /\ {"*", verb} \cap rule.verbs # {}
    /\ {"*", resource} \cap rule.resources # {}
    /\ {"*", namespace} \cap rule.namespaces # {}

KubectlAllows(rules, r) ==
    LET url == ParseK8sUrl(r.path)
        watch == url.resource # "" /\ r.watch
        verb == Verb(r.method, url.named, watch)
    IN  /\ url.subresource \notin BlockedSubresources
        /\ \/ url.resource = ""
           \/ \E rule \in rules[1] : RbacMatch(rule, verb, url.resource, url.namespace)
=============================================================================
