--------------------------- MODULE CiteckProfile ---------------------------
(***************************************************************************)
(* internal/serverprofile/citeck: which Records operation a request is,    *)
(* what the profile's rules say of it, and how a read query that no rule   *)
(* covers as a whole is narrowed to the workspaces the agent may read.     *)
(*                                                                         *)
(* A ref "source@local" is a record [src, local]; without "@" its source   *)
(* is "".  A Records body is [source, type, workspaces, records], the list *)
(* of records a set of [ref, workspace].  An operation touches pairs       *)
(* <<source, scope>>.                                                      *)
(***************************************************************************)
EXTENDS Naturals, Sequences, FiniteSets

CONSTANTS
  Globs,      \* the pairs <<pattern, text>> that the glob matchers accept
  StarGlobs,  \* the workspace patterns with a "*" in them
  Unreadable  \* a body that does not parse as a Records request

NoRule       == [id |-> ""]  \* no rule is reported: a RuleID of ""
ScopeAll     == "(all)"      \* a query that names no workspace
ScopeUnknown == "(unknown)"  \* the workspace cannot be told from the body
NoRef        == [src |-> "", local |-> ""]
Unclaimed    == [kind |-> "", res |-> {}]
Unchanged    == {}           \* RewriteBody = nil; a rewrite always names a workspace

matchGlob(pattern, text) == <<pattern, text>> \in Globs

-----------------------------------------------------------------------------
(* records.go                                                               *)

\* recordsOp: the suffix /records/<op>.
recordsOp(path) ==
  IF Len(path) >= 3 /\ path[Len(path) - 1] = "records" /\ path[Len(path)] \in {"query", "mutate", "delete"}
  THEN path[Len(path)] ELSE ""

normalizeSource(ref) == IF ref.src # "" THEN ref.src ELSE ref.local

workspaceScopes(ws) == IF ws = {} THEN {ScopeAll} ELSE ws

\* A new record (no local id) may say its workspace, as an id or as a ref.
mutateScope(rec) ==
  IF rec.ref.local # "" \/ rec.workspace = NoRef THEN ScopeUnknown
  ELSE IF rec.workspace.local # "" THEN rec.workspace.local ELSE rec.workspace.src \o "@"

\* classify: Unclaimed is handled = false, and the raw rules decide.
classify(method, path, body) ==
  LET op      == recordsOp(path)
      sources == {s \in {body.source, normalizeSource(body.type)} : s # ""}
      byRef   == {<<rec.ref.src, ScopeUnknown>> : rec \in body.records}
  IN IF method # "POST" \/ op = "" \/ body = Unreadable THEN Unclaimed
     ELSE CASE op = "query"  -> [kind |-> "read",
                                 res |-> IF sources = {} THEN byRef
                                         ELSE sources \X workspaceScopes(body.workspaces)]
            [] op = "delete" -> [kind |-> "write", res |-> byRef]
            [] op = "mutate" -> [kind |-> "write",
                                 res |-> {<<rec.ref.src, mutateScope(rec)>> : rec \in body.records}]

-----------------------------------------------------------------------------
(* citeck.go: a rule is [id, outcome, params], params [op, source, workspace]. *)

matchSource(ruleSrc, src) == ruleSrc \in {"", "*"} \/ matchGlob(ruleSrc, src)

\* A rule for one workspace never covers a query over all of them, and covers a
\* record of unknown workspace for reading only.
matchWorkspace(ruleWs, scope, opKind) ==
  \/ ruleWs \in {"", "*"}
  \/ IF scope = ScopeUnknown THEN opKind = "read"
     ELSE scope # ScopeAll /\ matchGlob(ruleWs, scope)

\* What a rule says of one touched pair.
Covers(params, opKind, pair) ==
  /\ params.op \in {"", opKind}
  /\ matchSource(params.source, pair[1]) /\ matchWorkspace(params.workspace, pair[2], opKind)

\* ruleMatches: every touched pair is covered, and there is one.
ruleMatches(params, op) == op.res # {} /\ \A pair \in op.res : Covers(params, op.kind, pair)

Decided(outcome, rule) == [outcome |-> outcome, rule |-> rule, rewrite |-> Unchanged, response |-> FALSE]

\* deny > require-approval > allow
Strictest(outcomes) ==
  IF "deny" \in outcomes THEN "deny"
  ELSE IF "require-approval" \in outcomes THEN "require-approval" ELSE "allow"

\* resolveLegacy: the agent's rules before everyone's, the strictest outcome of
\* the first tier with a match; any of the rules with that outcome is reported.
resolveLegacy(op, agent, any) ==
  LET hits(tier) == {r \in tier : ruleMatches(r.params, op)}
      tier == IF hits(agent) # {} THEN hits(agent) ELSE hits(any)
      worst == Strictest({r.outcome : r \in tier})
  IN IF tier = {} THEN {Decided("deny", NoRule)}
     ELSE {Decided(worst, r) : r \in {x \in tier : x.outcome = worst}}

-----------------------------------------------------------------------------
(* filter.go                                                                *)

filterableRead(op) == op.kind = "read" /\ op.res # {} /\ \A pair \in op.res : pair[2] # ScopeUnknown

uniqueSources(op)   == {pair[1] : pair \in op.res}
requestedScopes(op) == {pair[2] : pair \in op.res}

\* (slip) A deny in the tier does not count.
wsAllowedForReadAnyAllow(source, ws, agent, any) ==
  \E r \in agent \cup any : r.outcome = "allow" /\ Covers(r.params, "read", <<source, ws>>)

\* wsAllowedForRead: the first tier with an allow or a deny for the pair says.
wsAllowedForRead(source, ws, agent, any) ==
  LET says(tier, o) == \E r \in tier : r.outcome = o /\ Covers(r.params, "read", <<source, ws>>)
      matched(tier) == says(tier, "deny") \/ says(tier, "allow")
      tier == IF matched(agent) THEN agent ELSE any
  IN says(tier, "allow") /\ ~ says(tier, "deny")

\* The workspaces named by the read grants; patterns cannot be enumerated.
concreteWorkspaces(agent, any) ==
  {r.params.workspace : r \in {x \in agent \cup any : /\ x.outcome = "allow"
                                                      /\ x.params.op \in {"", "read"}}} \ ({""} \cup StarGlobs)

\* filterReadQuery: of the workspaces asked for (or, when none was named, of the
\* granted ones) keep those readable in every touched source.  A list kept as a
\* whole goes unchanged; a browser's list is narrowed, an API caller's is not;
\* a query that named none always gets the list.
filterReadQuery(op, agent, any, browser) ==
  LET absent == requestedScopes(op) = {ScopeAll}
      asked  == IF absent THEN concreteWorkspaces(agent, any) ELSE requestedScopes(op)
      keep   == {w \in asked : \A s \in uniqueSources(op) : wsAllowedForRead(s, w, agent, any)}
      whole  == ~ absent /\ keep = asked
  IN CASE whole                          -> Decided("allow", NoRule)
       [] ~ whole /\ keep = {} /\ browser -> [Decided("allow", NoRule) EXCEPT !.response = TRUE]
       [] ~ whole /\ keep # {} /\ (absent \/ browser) -> [Decided("allow", NoRule) EXCEPT !.rewrite = keep]
       [] OTHER                          -> Decided("deny", NoRule)

\* Authorize: only a read query that would be denied is narrowed.
Authorize(op, agent, any, browser) ==
  {IF d.outcome = "deny" /\ filterableRead(op) THEN filterReadQuery(op, agent, any, browser) ELSE d :
     d \in resolveLegacy(op, agent, any)}

-----------------------------------------------------------------------------
(* Presets: the rules an approved preset stands for.                        *)

BrowseGet == [outcome |-> "allow", browsePath |-> "/**", browseMethods |-> {"GET", "HEAD"},
              profile |-> "", params |-> [op |-> "", source |-> "", workspace |-> ""]]
opTmpl(op, b) == [outcome |-> "allow", browsePath |-> "", browseMethods |-> {}, profile |-> "citeck",
                  params |-> [op |-> op, source |-> b.source, workspace |-> b.workspace]]

\* FindPreset and Build; ValidateBindings wants both slots filled ("*" will do).
PresetRules(preset, b) ==
  CASE preset = "browse-get"       -> {BrowseGet}
    [] preset = "citeck-readonly"  -> {BrowseGet, opTmpl("read", b)}
    [] preset = "citeck-readwrite" -> {BrowseGet, opTmpl("read", b), opTmpl("write", b)}
=============================================================================
