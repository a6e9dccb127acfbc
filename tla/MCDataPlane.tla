---------------------------- MODULE MCDataPlane -----------------------------
(* TLC instances of DataPlane. *)
EXTENDS DataPlane, TLC

Shape(k, op, v, upg) == [kind |-> k, op |-> op, value |-> v, upgrade |-> upg]
Body(subject, k, op, outcome, vs) ==
  [subject |-> subject, kind |-> k, op |-> op, outcome |-> outcome, values |-> vs]

\* a1 may read with a value set, or be denied it; everyone must ask to write.
a1 == "a1"
a2 == "a2"
TwoAgents  == {a1, a2}
HttpShapes == {Shape("http", "read", "v1", FALSE), Shape("http", "read", "v2", FALSE),
               Shape("http", "write", "v2", FALSE), Shape("records", "query", "", FALSE)}
HttpBodies == {Body(a1, "http", "read", "allow", {"v1"}), Body(a1, "http", "read", "deny", {}),
               Body(Everyone, "http", "write", "require-approval", {"v1"}),
               Body(a1, "records", "query", "allow", {})}
K8sShapes  == {Shape("resource", "get", "", FALSE), Shape("resource", "exec", "", TRUE),
               Shape("discovery", "GET", "", FALSE)}
K8sBodies  == {Body(a1, "resource", "get", "allow", {}), Body(a1, "resource", "exec", "require-approval", {})}

MCShapes     == [http |-> HttpShapes, k8s |-> K8sShapes]
MCRuleBodies == [http |-> HttpBodies, k8s |-> K8sBodies]

\* Two rules where rules can be confused (http values), two versions of the row
\* where it is re-targeted (a cluster).
Bound ==
  IF kind = "http" THEN up = Gone \/ up.cred = 1 ELSE nextId <= 2

Symmetry == Permutations(Calls)
=============================================================================
