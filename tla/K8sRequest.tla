----------------------------- MODULE K8sRequest -----------------------------
(***************************************************************************)
(* internal/k8s/requestinfo.go: a raw Kubernetes API request taken apart   *)
(* into the tuple the k8s rules are about.                                 *)
(***************************************************************************)
EXTENDS OpTemplate

upgradeSubresources == {"exec", "attach", "portforward"}

truthy(v) == v \in {"true", "1"}

\* query.Get: the first value, or "".
QueryGet(query, name) == IF name \in DOMAIN query /\ query[name] # <<>> THEN query[name][1] ELSE ""

\* ?watch on any collection, ?follow on a log.
isWatch(sub, query) == truthy(QueryGet(query, "watch")) \/ (sub = "log" /\ truthy(QueryGet(query, "follow")))

\* The verb the API server would authorize.
verbFor(method, named, sub, query) ==
  LET m == Upper(method) IN
  IF sub \in upgradeSubresources THEN "create"
  ELSE CASE m = "POST"   -> "create"
         [] m = "PUT"    -> "update"
         [] m = "PATCH"  -> "patch"
         [] m = "DELETE" -> IF named THEN "delete" ELSE "deletecollection"
         [] OTHER        -> IF isWatch(sub, query) THEN "watch" ELSE IF named THEN "get" ELSE "list"

NoResource == [isResource |-> FALSE, namespace |-> "", group |-> "", resource |-> "", name |-> "",
               subresource |-> "", verb |-> ""]

At(seq, i) == IF i <= Len(seq) THEN seq[i] ELSE ""

\* /namespaces/<ns>/<resource>...; /namespaces/<name> alone is the object itself.
AfterNamespace(rest) == Len(rest) >= 3 /\ rest[1] = "namespaces"

\* Parse: /api/<version>/... and /apis/<group>/<version>/...; the rest is discovery.
Parse(method, path, query) ==
  LET segs == SplitPath(path)
      core == At(segs, 1) = "api"
      from == IF core THEN 3 ELSE 4
      rest == SubSeq(segs, from, Len(segs))
      tail == IF AfterNamespace(rest) THEN SubSeq(rest, 3, Len(rest)) ELSE rest
  IN IF At(segs, 1) \notin {"api", "apis"} \/ Len(segs) < from - 1 THEN NoResource
     ELSE [isResource |-> TRUE,
           namespace |-> IF AfterNamespace(rest) THEN rest[2] ELSE "",
           group |-> IF core THEN "" ELSE segs[2],
           resource |-> At(tail, 1), name |-> At(tail, 2), subresource |-> At(tail, 3),
           verb |-> verbFor(method, At(tail, 2) # "", At(tail, 3), query)]

\* IsUpgrade.
IsUpgrade(ri) == ri.subresource \in upgradeSubresources
=============================================================================
