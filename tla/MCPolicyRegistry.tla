-------------------------- MODULE MCPolicyRegistry --------------------------
(* TLC instances of PolicyRegistry: two agents; a plain http upstream, a     *)
(* cluster and a Citeck server.                                              *)
EXTENDS PolicyRegistry, TLC

MCGlobs == {<<"prod", "prod">>, <<"pods", "pods">>, <<"pods/*", "pods/log">>, <<"/docs/**", "/docs/a%2Fb">>,
            <<"/docs/**", "/docs/a%2Fb/">>, <<"/**", "/docs/a%2Fb">>, <<"/**", "/api/records/query">>,
            <<"emodel/*", "emodel/doc">>, <<"w1", "w1">>, <<"w2", "w2">>}
MCStarGlobs == {"*", "w*"}
MCDecoded   == [x \in {"a%2Fb", "prod%2Fpods"} |-> IF x = "a%2Fb" THEN "a/b" ELSE "prod/pods"]
MCPieces    == [x \in {"a/b", "prod/pods"} |-> IF x = "a/b" THEN <<"a", "b">> ELSE <<"prod", "pods">>]
MCMalformed == {"%zz"}
MCNumberOf  == [x \in {"0", "2"} |-> IF x = "0" THEN 0 ELSE 2]
MCDates     == {"2026-01-01"}
MCUpperOf   == [get |-> "GET"]
MCUpstreams == [web |-> [kind |-> "http", profile |-> "raw-http"], kube |-> [kind |-> "k8s", profile |-> ""],
                ecos |-> [kind |-> "http", profile |-> "citeck"]]
MCExpiries  == {1, Never}
None        == [x \in {} |-> x]

\* GET /docs/{doc}?size={size}&kind={kind}; the same with another variable name;
\* PUT /docs/{doc} with the body value spec.on = {on}; and one that does not parse.
GetTemplate(kind) ==
  [method |-> "GET", path |-> <<Literal("docs"), Placeholder("doc", "text")>>,
   query |-> [size |-> Placeholder("size", "number"), kind |-> Placeholder(kind, "enum")], body |-> None]
MCTemplates ==
  [getDoc |-> GetTemplate("kind"), getDocs |-> GetTemplate("sort"),
   putDoc |-> [method |-> "put", path |-> <<Literal("docs"), Placeholder("doc", "text")>>, query |-> None,
               body |-> [x \in {"spec.on"} |-> Placeholder("on", "date")]],
   broken |-> [GetTemplate("doc") EXCEPT !.path = <<BadToken, Placeholder("doc", "text")>>]]

-----------------------------------------------------------------------------
NoParams == [op |-> "", source |-> "", workspace |-> ""]

Body(subject, outcome, expires) ==
  [subject |-> subject, upstream |-> "web", outcome |-> outcome, expires |-> expires,
   profile |-> Empty, params |-> NoParams, browsePath |-> Empty, browseMethods |-> {}, template |-> Empty,
   policies |-> <<>>, namespace |-> Empty, resource |-> Empty, verb |-> Empty]

TextSet  == [type |-> "text", mode |-> "set", values |-> {"a"}, min |-> NoBound, max |-> NoBound]
EnumSet  == [type |-> "enum", mode |-> "set", values |-> {"x"}, min |-> NoBound, max |-> NoBound]
NumRange == [type |-> "number", mode |-> "range", values |-> {}, min |-> 1, max |-> NoBound]

K8s(subject, outcome, ns, res, verb) ==
  [Body(subject, outcome, Never) EXCEPT !.upstream = "kube", !.namespace = ns,
                                        !.resource = res, !.verb = verb]
Browse(subject, outcome, expires) ==
  [Body(subject, outcome, expires) EXCEPT !.browsePath = "/docs/**", !.browseMethods = {"GET"}]
Template(subject, outcome, policies) ==
  [Body(subject, outcome, Never) EXCEPT !.template = "getDoc", !.policies = policies]

\* The rules of an approved preset, and rules an operator writes.
Preset(subject, preset, b) ==
  {[Body(subject, t.outcome, Never) EXCEPT !.upstream = "ecos", !.profile = t.profile, !.params = t.params,
                                           !.browsePath = t.browsePath, !.browseMethods = t.browseMethods] :
     t \in PresetRules(preset, b)}
Citeck(subject, outcome, op, source, ws) ==
  [Body(subject, outcome, Never) EXCEPT !.upstream = "ecos", !.profile = "citeck",
                                        !.params = [op |-> op, source |-> source, workspace |-> ws]]

GetDoc == [doc |-> TextSet, size |-> NumRange, kind |-> EnumSet]

\* Every shape of rule, both tiers, every outcome, an expiring and a mis-typed
\* one, and two templates, so that a reused id would show in the cache.
MCCatalog ==
  { K8s("a1", "allow", "*", "pods", "get"), K8s(Empty, "allow", "prod", "pods/*", "get"),
    K8s(Empty, "require-approval", "prod", Empty, Empty),
    Browse("a1", "allow", 1), Browse(Empty, "require-approval", Never), Browse("a2", "deny", Never),
    Template("a1", "allow", GetDoc), Template(Empty, "deny", GetDoc),
    [Template(Empty, "allow", [doc |-> TextSet]) EXCEPT !.template = "putDoc", !.expires = 1],
    Citeck("a1", "deny", "", "emodel/*", "w1"), Citeck(Empty, "allow", "read", "", "w1"),
    Body(Empty, "bogus", Never) }
  \cup Preset("a1", "citeck-readwrite", [source |-> "*", workspace |-> "w2"])

\* One rule that concurrent approvals extend.
GrowCatalog == { Template("a1", "allow", [doc |-> TextSet]) }
NoRequests  == {}

-----------------------------------------------------------------------------
Request(agent, upstream, method, path) ==
  [agent |-> agent, upstream |-> upstream, method |-> method, path |-> path, query |-> None,
   body |-> NoJSON, records |-> Unreadable, browser |-> FALSE]

\* A pod and its log, the pods of a namespace (its slash encoded, or doubled) and
\* of all, and the namespace itself.
K8sRequests ==
  {Request(a, "kube", "GET", <<"", "api", "v1">> \o p) : a \in {"a1", "a2"},
      p \in {<<"namespaces", "prod", "pods", "p">>, <<"namespaces", "prod", "pods", "p", "log">>,
             <<"pods">>, <<"namespaces", "prod">>, <<"namespaces", "prod%2Fpods">>,
             <<"namespaces", "prod", "", "pods">>}}

\* A document by name, with a parameter more, with a slash encoded in its name.
WebRequests ==
  {[Request(a, "web", m, <<"", "docs", doc>>) EXCEPT !.query = [size |-> <<s>>, kind |-> <<k>>]] :
      a \in {"a1", "a2"}, m \in {"get"}, doc \in {"a", "a%2Fb"}, s \in {"0", "2"}, k \in {"x", "y"}}
  \cup {[Request("a1", "web", "GET", <<"", "docs", d>>) EXCEPT
           !.query = [size |-> <<"2">>, kind |-> <<"x", "y">>] @@ more] :
         d \in {"a", "%zz"}, more \in {[page |-> <<"1">>], [force |-> <<"1">>]}}
  \cup {Request(a, "web", "GET", <<"", "docs", "a%2Fb", "">>) : a \in {"a1", "a2"}}
  \cup {[Request(a, "web", "PUT", <<"", "docs", "a">>) EXCEPT !.body = b] : a \in {"a2"},
          b \in {NoJSON, [x \in {"spec.on"} |-> [scalar |-> TRUE, text |-> "2026-01-01"]],
                 [x \in {"spec.on"} |-> [scalar |-> FALSE, text |-> ""]]}}

Records(source, type, workspaces, records) ==
  [source |-> source, type |-> type, workspaces |-> workspaces, records |-> records]
Ref(src, local) == [src |-> src, local |-> local]
Doc == [ref |-> Ref("emodel/doc", "d"), workspace |-> NoRef]
New == [ref |-> Ref("emodel/doc", ""), workspace |-> Ref("emodel/ws", "w2")]

\* Queries over no, one and both workspaces, of one source and of two; the same
\* records read, written, created and deleted; a body that is not Records.
EcosRequests ==
  {[Request("a1", "ecos", "POST", <<"", "api", "records", "query">>) EXCEPT
      !.browser = br, !.records = Records("emodel/doc", NoRef, ws, {})] : br \in BOOLEAN, ws \in SUBSET {"w1", "w2"}}
  \cup {[Request("a1", "ecos", "POST", <<"", "api", "records", op>>) EXCEPT
           !.records = Records("", NoRef, {}, {rec})] :
         op \in {"query", "mutate", "delete"}, rec \in {Doc, New}}
  \cup {[Request("a1", "ecos", "POST", <<"", "api", "records", "query">>) EXCEPT
           !.records = b, !.browser = TRUE] :
         b \in {Unreadable, Records("emodel/doc", Ref("other", "t"), {"w1", "w2"}, {})}}
  \cup {Request("a2", "ecos", "GET", <<"", "docs", "a%2Fb">>)}

MCRequests == K8sRequests \cup WebRequests \cup EcosRequests

Symmetry == Permutations(RuleIds) \cup Permutations(Updates)
=============================================================================
