---------------------------- MODULE PolicyDecide ----------------------------
(***************************************************************************)
(* internal/policy/decide.go: what the rules of an upstream say about one  *)
(* request.  Pure operators; PolicyRegistry evaluates them on a rule table *)
(* that changes.                                                           *)
(*                                                                         *)
(* A request is [agent, upstream, method, path, query, body, records,      *)
(* browser]: what arrives at the data plane once the agent and the         *)
(* upstream are known.  Input takes it apart the way the proxy and the     *)
(* packages it calls do (K8sRequest, OpTemplate, CiteckProfile); the rest  *)
(* of the module decides.  MatchGlob is the relation Globs.                *)
(***************************************************************************)
EXTENDS K8sRequest, CiteckProfile, SequencesExt

CONSTANTS
  Pieces,     \* the texts with a slash in them, as the sequence of what it separates
  Templates,  \* the operation templates rules are written with, by name
  Upstreams,  \* Upstreams[u]: [kind, profile]
  Empty,      \* the empty string: any agent, no namespace, unset field
  Wild,       \* "*"
  Never,      \* the zero ExpiresAt
  NoBound     \* a nil Min or Max

Outcomes == {"allow", "deny", "require-approval"}

-----------------------------------------------------------------------------
(* What Decide is asked.                                                    *)

PathText(path) == FoldLeft(LAMBDA text, seg : text \o "/" \o seg, Head(path), Tail(path))

\* url.Path: the path decoded, and what stands between the slashes it then has.
Unescaped(path) ==
  LET pieces(text) == IF text \in DOMAIN Pieces THEN Pieces[text] ELSE <<text>>
  IN FlattenSeq([i \in DOMAIN path |-> pieces(Unescape(path[i]))])

\* The templates a request fits, each with the values it extracts.
Matching(req) ==
  [n \in {n \in DOMAIN Templates : LET t == Templates[n] IN
             Parses(t) /\ Match(t, req) /\ ExtractBody(t, req.body)} |-> Extracted(Templates[n], req)]

\* The Input the proxy makes: of a k8s request the tuple alone, from the decoded
\* path; of an http request everything, with the path still escaped.  op is what
\* the upstream's profile classifies it as.
Input(req) ==
  LET up == Upstreams[req.upstream]
      ri == Parse(req.method, Unescaped(req.path), req.query)
  IN IF up.kind = "k8s"
     THEN [agent |-> req.agent, upstream |-> req.upstream, kind |-> "k8s", profile |-> Empty,
           method |-> Empty, path |-> Empty, match |-> <<>>, op |-> Unclaimed, browser |-> FALSE,
           namespace |-> ri.namespace, resource |-> ri.resource,
           subresource |-> ri.subresource, verb |-> ri.verb]
     ELSE [agent |-> req.agent, upstream |-> req.upstream, kind |-> "http", profile |-> up.profile,
           method |-> req.method, path |-> PathText(req.path), match |-> Matching(req),
           op |-> IF up.profile = "citeck" THEN classify(req.method, req.path, req.records) ELSE Unclaimed,
           browser |-> req.browser,
           namespace |-> Empty, resource |-> Empty, subresource |-> Empty, verb |-> Empty]

-----------------------------------------------------------------------------
MatchGlob(pattern, text) == <<pattern, text>> \in Globs

\* An empty or "*" rule verb matches every verb.
verbMatches(ruleVerb, reqVerb) == ruleVerb \in {Empty, Wild, reqVerb}

\* A browse rule's method set: empty, or holding "*", is every method.
methodMatch(set, m) == set = {} \/ Wild \in set \/ m \in set

\* A request without a namespace is cluster-wide: only "*" covers it.
nsMatches(ruleNS, reqNS) ==
  \/ reqNS = Empty /\ ruleNS = Wild
  \/ reqNS # Empty /\ ruleNS # Empty /\ MatchGlob(ruleNS, reqNS)

\* A resource glob is tried on "resource" and on "resource/subresource".
resourceMatches(ruleRes, reqResource, reqSub) ==
  \/ ruleRes \in {Empty, Wild}
  \/ MatchGlob(ruleRes, reqResource)
  \/ reqSub # Empty /\ MatchGlob(ruleRes, reqResource \o "/" \o reqSub)

k8sMatches(rule, in) ==
  /\ verbMatches(rule.verb, in.verb)
  /\ nsMatches(rule.namespace, in.namespace)
  /\ resourceMatches(rule.resource, in.resource, in.subresource)

browseMatches(rule, in) ==
  methodMatch(rule.browseMethods, in.method) /\ MatchGlob(rule.browsePath, in.path)

\* A rule without a (parsable) template never matches an http request.
templateMatches(rule, in) == rule.template \in DOMAIN in.match

\* The rules not yet expired: ExpiresAt.Before(now) drops a rule.
LiveRules(rules, now) == {r \in rules : r.expires = Never \/ ~ (r.expires < now)}

\* A text that is not a number is in no range.
inNumberRange(val, vp) ==
  /\ val \in DOMAIN NumberOf
  /\ vp.min = NoBound \/ vp.min <= NumberOf[val]
  /\ vp.max = NoBound \/ NumberOf[val] <= vp.max

\* What one variable's policy says of its value: a date and mode "any" pass, an
\* enum or a number outside its domain is a hard deny, an unknown text asks.
ValueGate(vp, val) ==
  IF vp.type = "date" \/ vp.mode = "any" THEN "ok"
  ELSE CASE vp.type = "enum"   -> IF val \in vp.values THEN "ok" ELSE "deny"
         [] vp.type = "number" -> IF inNumberRange(val, vp) THEN "ok" ELSE "deny"
         [] OTHER              -> IF val \in vp.values THEN "ok" ELSE "new"

\* The variables the request has under the rule's template whose gate says g.
\* A variable without a policy is trusted.
Gated(rule, in, g) ==
  {v \in DOMAIN in.match[rule.template] \cap DOMAIN rule.policies :
      ValueGate(rule.policies[v], in.match[rule.template][v]) = g}

\* evalHTTPRule: the effective outcome of a template rule that matched.
templateOutcome(rule, in) ==
  IF rule.outcome = "deny" \/ Gated(rule, in, "deny") # {} THEN "deny"
  ELSE IF Gated(rule, in, "new") # {} THEN "require-approval"
  ELSE rule.outcome

\* Which matcher applies to a rule on the raw path, and whether it matches; the
\* rules of a profile are skipped.
Matches(rule, in) ==
  /\ rule.upstream = in.upstream
  /\ rule.profile = Empty
  /\ IF in.kind = "k8s" THEN k8sMatches(rule, in)
     ELSE IF rule.browsePath # Empty THEN browseMatches(rule, in)
     ELSE templateMatches(rule, in)

IsTemplateMatch(rule, in) == in.kind # "k8s" /\ rule.browsePath = Empty /\ rule.profile = Empty

\* The candidate's effective outcome.
EffectiveOutcome(rule, in) ==
  IF IsTemplateMatch(rule, in) THEN templateOutcome(rule, in) ELSE rule.outcome

\* The (variable, value) pairs an approval of the request would admit.
NewValues(rule, in) ==
  IF IsTemplateMatch(rule, in) /\ rule.outcome # "deny"
  THEN {<<v, in.match[rule.template][v]>> : v \in Gated(rule, in, "new")}
  ELSE {}

Tier(rules, in, subject) == {r \in rules : r.subject = subject /\ Matches(r, in)}

\* (slip) An allow in the tier outranks everything else.
resolveTierAllowFirst(tier, in) ==
  LET said == {EffectiveOutcome(r, in) : r \in tier}
      best == IF "allow" \in said THEN "allow" ELSE Strictest(said)
  IN {Decided(best, r) : r \in {x \in tier : EffectiveOutcome(x, in) = best}}

\* The most restrictive effective outcome of a non-empty tier, with the rules
\* that may be reported for it: the query has no ORDER BY, so any of them.
resolveTier(tier, in) ==
  LET worst == Strictest({EffectiveOutcome(r, in) : r \in tier})
  IN {Decided(worst, r) : r \in {x \in tier : EffectiveOutcome(x, in) = worst}}

\* The upstream's profile claims the request.
Claimed(in) == in.op # Unclaimed

\* decideProfile: the profile's own rules, by tier.
decideProfile(live, in) ==
  LET mine(subject) == {r \in live : r.upstream = in.upstream /\ r.profile = in.profile /\ r.subject = subject}
  IN Authorize(in.op, mine(in.agent), mine(Empty), in.browser)

\* The decisions Decide may return: one outcome, one of the rules behind it;
\* rule = NoRule is the default deny, or a query the profile narrowed.
Decide(rules, in, now) ==
  LET live  == LiveRules(rules, now)
      agent == Tier(live, in, in.agent)
      any   == Tier(live, in, Empty)
  IN IF Claimed(in) THEN decideProfile(live, in)
     ELSE IF agent # {} THEN resolveTier(agent, in)
     ELSE IF any # {} THEN resolveTier(any, in)
     ELSE {Decided("deny", NoRule)}
=============================================================================
