-------------------------- MODULE MCAccessGrants ----------------------------
(* TLC instances of AccessGrants. *)
EXTENDS AccessGrants, TLC

Ask1(kind, up, name, items, body, value) ==
  [kind |-> kind, upstream |-> up, name |-> name, items |-> items, body |-> body, value |-> value]

\* A k8s tuple; a preset whose slot can be narrowed; an operation, without and with
\* a body template; a host.
K8s      == Ask1("k8s-access", "cluster", "ns", {"get"}, FALSE, Nil)
Readonly == Ask1("preset", "host", "readonly", {"browse", "records:*"}, FALSE, Nil)
Op       == Ask1("operation", "host", "op", {"op"}, FALSE, "v1")
OpBody   == Ask1("operation", "host", "op", {"op"}, TRUE, "v1")
Host     == Ask1("host-access", "host", "host", {}, FALSE, Nil)

MCAsks       == {K8s, Readonly, Op, OpBody, Host}
MCNarrowings == {{"browse", "records:ws1"}}
MCExpiries   == {1, Never}

Asked == {req[q].ask : q \in Reqs} \ {Nil}

Askers == {req[q].agent : q \in Reqs} \ {Nil}

\* Requests on different upstreams have no state in common: both go to one, and
\* the cluster is there.  A preset is read and written by the steps of a k8s
\* request, so two agents, the passing of time and the upsets are combined with
\* the k8s and (but for time) the operation requests only, one at a time.  An
\* upset strikes two k8s requests, whose expiries do not matter while time stands
\* still, or one operation request.
Bound ==
  /\ Cardinality({ask.upstream : ask \in Asked}) <= 1
  /\ host["cluster"] = "registered"
  /\ Asked \subseteq {K8s} \/ Asked \subseteq {Op} \/ (upsets = 0 /\ now = 0 /\ Cardinality(Askers) = 1)
  /\ upsets > 0 =>
        /\ now = 0 /\ Cardinality(Askers) = 1
        /\ \/ Asked = {K8s} /\ \A h \in Handlers : handler[h].expires = Never
           \/ Asked = {Op} /\ \E q \in Reqs : req[q].ask = Nil
  /\ now > 0 => Asked = {K8s} /\ Cardinality(Askers) = 1

Symmetry == Permutations(Agents) \cup Permutations(Reqs) \cup Permutations(Handlers)
=============================================================================
