# outwall in TLA+

A model of [outwall](../src), the authenticating egress gateway for local AI agents: TLA+ modules
translated from the Go sources, TLC configurations that check them on small instances, and TLAPS
proofs of what the approval queue, the policy, the grants and polls, the data plane, the credentials, the
audit journal, the operator gate, the browser login, the agents' identities and the launches of the daemon
promise for every instance.
`PROJECT.json` maps every definition to the lines it stands for.

    tlc -workers 2 -config DataPlane.cfg MCDataPlane      # one run
    tlapm OperatorProofs.tla                              # one proof module

## 1. The system

An agent sends its requests through outwall, which holds the real credentials. The daemon has a
**data plane** (a TLS reverse proxy), an **agent plane** (a unix socket where agents register, ask
for access and poll for the answer) and an **admin plane** (a unix socket and a loopback UI where
the operator decides). State is in one SQLite file, in memory (cards, sessions, the vault's key,
token caches, the event bus) and in a few files (the lock, the local CA, agents' tokens).

| Component | State | Operations | What makes it correct |
|---|---|---|---|
| approval queue (`approval`) | waiters, a one-slot channel per card | Submit, Resolve, List, Get | one decision per card, the first; no answer means no |
| policy decision (`policy/decide`, `rule`) | none (rules in, decision out) | Decide, LiveRules | default deny, most restrictive wins, expired rules do not count |
| operation templates (`optemplate`) | none | ParseWithBody, Match, ExtractBody, Key | a match is an instance of the template and says nothing more |
| kubernetes requests (`k8s/requestinfo`) | none | Parse | a rule for a namespace stays inside it |
| server profiles (`serverprofile`, `serverprofile/citeck`) | none | Classify, Authorize, presets | a narrowed query holds only what the agent may read |
| policy registry (`policy/registry`) | rules table, template cache | Create(Many), Delete*, Renew, AddAllowedValue, SetVariable* | updates do not undo each other, the cache is never stale |
| rate limiter (`policy/limiter`) | a window per key | Allow | the limit per minute, refusals only when it is spent |
| audit (`audit/recorder`) | log rows, body rows, the retention setting | Record, Prune, pruner, List | entries with their bodies, pruning takes only what is old |
| access grants (`mcpsvc`, `daemon/admin*`, `access`) | cards, rules, history rows | Request*, resolve, revoke, delete agent, renew | a grant is what was approved, an approval takes effect |
| access polling (`mcpsvc`, `events`) | subscriptions, buffers | GetAccess with wait, Publish | no lost wake-up, every poll returns |
| data plane (`proxy`) | calls in flight, audit rows | ServeHTTP | nothing leaves unpermitted, credentials go where they belong |
| upstream registry and cluster import (`upstream/registry`, `k8s/import`, `k8s/kubeconfigimport`) | a row per name: id, kind, address, credential | Create, SetAuth, UpdateTarget, Delete, Import | a secret stays with its address, a scan clobbers nothing |
| upstream credentials (`authn`, `daemon/oauth`) | encrypted row, authenticators | Apply, persist, edit, login | a rotated refresh token is neither spent twice nor lost |
| browser login (`daemon/oauth`) | counted listener, logins | login, callback, timer, shutdown | the port is bound exactly while needed |
| vault and operator session (`secret`, `opsession`) | verifier, key, session | Init, Unlock, Lock, Verify, Open, Authorized | nothing opens without the password |
| agent identity and agent plane (`agentid`, `cli/agentplane`, `agentapi`) | token file, its lock, known agents | LoadOrRegister, Invalidate, doAgent, every handler's checks and answer | one agent per project, only a refused token is dropped |
| lifecycle (`desktop`, `cli/serve`, `store`, `tlsca`, `daemon.Serve`) | lock file, CA files, schema, socket, ports | launch, migrate, serve, stop, crash | one desktop, a usable data directory |

How they interact: the data plane asks the policy and parks calls in the approval queue; the agent
plane parks access requests there; the admin plane resolves both, and an approval writes rules
(policy), history rows (access) and credentials (upstream, through the vault) before it unparks
anyone; the queue and the admin handlers publish on the bus that polls sleep on; the data plane's
authenticators write rotated tokens back through a callback into the daemon.

What is hard here: handlers hold no lock across their SQL statements, so every read-modify-write
races; calls park for minutes on values they have read; cards are in memory while the rows that
describe them are on disk; timeouts race verdicts; the bus drops events; several processes share a
directory and any of them can die. `PROJECT.json` lists these hazards line by line.

## 2. The modules

| Module | Models | Interleaving |
|---|---|---|
| `ApprovalDecision` | the promise of one card: cast verdicts, one decision or none | abstract |
| `ApprovalQueue` | `approval/queue.go` under its mutex, channel and select | every locked section, send, receive and publish is a step |
| `OpTemplate` | `optemplate`: parsing, matching, body extraction, keys, types, over segments | none |
| `K8sRequest` | `k8s.Parse` over path segments | none |
| `CiteckProfile` | the Citeck profile: classification, coverage, narrowing | none |
| `PolicyDecide` | the proxy's Input of a decision, `Decide` and its matchers, pure operators | none |
| `PolicyRegistry` (+`MC`) | the rules table, the two-step updates, the template cache | SQL statements |
| `PolicyRegistryProofs` | theorems about the table and what is decided from it | |
| `AccessGrants` (+`MC`) | asking, resolving with side effects, history, revocation | SQL statements and queue sections; restart |
| `AccessPoll` | the long poll, the bus and the operator's steps | reads, publishes, ticker, deadline |
| `AccessProofs` | theorems about grants and polls | |
| `DataPlane` (+`MC`) | one `ServeHTTP` per call, and the operator's changes under it | the points where the code reads shared state, parks or sends |
| `DataPlaneProofs` | theorems about it | |
| `RateLimiter` | the clock read outside the lock, and `Allow` | those two |
| `AuditJournal` | `audit/recorder.go`: Record, Prune, the background pruner, List | SQL statements; crash |
| `CallLedger` | limiter and journal under one clock, at the end of a call | those of both |
| `CallLedgerProofs` | theorems about limiter and journal | |
| `Kubeconfig` | discovery, merging and reading of kubeconfig files | none |
| `UpstreamRegistry` | one name's row under edits, deletion, re-creation and cluster import | loads and stores of each handler |
| `TokenRefresh` (+`MC`) | that row, the manager's cache and in-flight snapshots of one OAuth upstream | loads, stores, refreshes under the authenticator's mutex |
| `TokenRefreshProofs` | theorems about the registry and the tokens | |
| `OAuthLogin` | logins sharing the callback listener | acquire, put, timer, callback, shutdown goroutine |
| `OperatorGate` (+`MC`) | vault and operator session behind the admin API | check, store, set key, open are separate steps |
| `OperatorProofs` | theorems about `ApprovalQueue` and `OperatorGate` | |
| `AgentIdentity` | processes sharing a project's token file, and the agent plane they call | flock, read, register, write, request; forgets, locks and crashes |
| `LoginProofs` | theorems about `OAuthLogin` and `AgentIdentity` | |
| `DaemonLifecycle` | launches of the desktop and of `serve` over one data directory | file operations, SQL statements, binds; crashes |
| `DaemonLifecycleProofs` | theorems about it | |

Composition: `ApprovalQueue` refines `ApprovalDecision` (`INSTANCE ... WITH`, property
`ImplementsPromise`). `PolicyDecide` extends `OpTemplate`, `K8sRequest` and `CiteckProfile`, and
`PolicyRegistry` extends `PolicyDecide`, so raw requests are decided on tables that the registry's own
steps produce. `CallLedger` extends `RateLimiter` and instantiates `AuditJournal`: one clock drives
the minutes, the timestamps and the retention. `TokenRefresh` extends `UpstreamRegistry` (which
extends `Kubeconfig`), so refreshes, logins, edits and imports race on one row. `AccessGrants`,
`AccessPoll` and `DataPlane` use the queue through its promise (a card is there until a verdict or its
timer takes it).

Conventions. `at` is where a call is in its handler; one action is one atomic piece of it.
Variables marked *history* are read by properties, and by bounds, only. A definition commented
`(slip)` is a plausible bug in the code it precedes; no specification uses it, it shows that the
property it is paired with in `PROJECT.json` would notice.
Database statements are atomic (the pool has one connection; SQLite serialises), and sequences of
statements are not. Passwords stand for the keys derived from them. Token pairs and addresses are
known by their generation. Only `PolicyRegistry` splits the read and the write of `updatePolicies`;
`AccessGrants` and `DataPlane` take an update of a value set in one step, their own hazards being
elsewhere.

Text. A path is a sequence of segments, a query a sequence of pairs, a JSON body a function; what a
segment decodes to, where decoding yields a slash, which texts are malformed, numbers or dates, and
which globs match which names are constants of `OpTemplate` and `PolicyDecide`, given by tables in
`MCPolicyRegistry`. The reference that `Match` and `ExtractBody` are checked against (`Renderings`)
is written the other way round: it writes values into a template and asks which requests come out.

## 3. The runs

Each cfg has the name of its run. All set `CHECK_DEADLOCK FALSE`: calls and processes are finite in
number and the system may stop when all have ended.

| Run | Bounds | States | Shows |
|---|---|---|---|
| `ApprovalQueue` | 2 cards, 2 resolve calls | 16 k | fail closed, exact waiters, blocking needs a rival, every Submit returns, refinement of the promise (the first verdict wins) |
| `PolicyRegistry` | 2 rules out of 15 bodies, 1 update, time 0..2, some 45 raw requests | 85 k | the decision properties on all reachable tables; cache, key and update properties |
| `PolicyLostValue` | 1 rule, 2 updates | violation | two approvals of new values lose one |
| `AccessGrants` | 2 agents, 2 requests, 2 resolves, 1 upset | 621 k | grants within approvals, effect of approvals, history rows |
| `DataPlane` | 2 calls, 2 agents, 2 rules, 2 row versions | 4.5 M | permission, default deny, made-up answers, credential and address, audit |
| `CallLedger` | 3 calls, limit 1, 2 entries, clock 0..4, retention 0 or 1, 1 crash | 2.2 M | over-limit only by overtaking or crash; orphans and torn entries only by overlap; pruning |
| `TokenRefresh` | 2 calls, 1 editor, 1 import, 1 login, 2 ids, 3 generations | 1.6 M | newest token, one unsaved pair, row in step when quiet; secret and address; scans |
| `OperatorGate` | 2 passwords, 2 provers, 2 gated calls, TTL 2 | 18 k | key and verifier agree, proof before opening, idle window |
| `AccessPoll` | 1 poll, 2 operator calls, buffer 2, 2 asks | 77 k | no lost wake-up, grants arrive |
| `AgentIdentity` | 3 processes, 2 forgets, 1 crash | 113 k | no spare agents, only refused tokens dropped, healing, termination |
| `OAuthLogin` | 2 logins, 2 callbacks | 3.9 k | counted listener, single exchange, port freed |
| `DaemonLifecycle` | 3 launches, 2 alive, 1 crash, new / unversioned / version-5 file | 1.9 M | see section 4 |

Why the bounds are enough. The races of this code are between two calls and one change (a stale
read needs one reader and one writer; a lost update two writers), so two of each actor reach them;
where a third matters it is there: three processes for the lock hand-over of the token file and of
the instance lock, three calls for a limit of one (one of the old minute between two of the new),
two calls beside an editor for a refresh that is overtaken.
`PolicyRegistry` needs pairs of rules because a decision is settled pairwise (tier, then
restrictiveness); its catalogue has every shape of rule (path glob, body template, k8s, browse,
profile, preset) and its requests every way of being malformed that the parsers tell apart. The
journal's second has four ticks, written with up to two binary digits, so that texts of different
lengths meet; a retention "day" is one such second, and so is the limiter's minute, because only the
order of the instants matters. `TokenRefresh` reads kubeconfigs (two on disk, one uploaded) in which
names repeat and entries are missing, unreadable or half filled; its `Bound` combines two of an edit,
an import and a login. `AccessGrants` and `DataPlane` carry a `Bound` constraint in their MC module that
keeps combinations apart that share no state: requests on different upstreams, and time, upsets
and two agents one at a time, an upset with two k8s requests or one operation; for the data plane,
two rules on the http upstream and two versions of the row on the cluster. What lies beyond: three
simultaneous approvals of one card, and upsets combined with the passing of time.

Fairness. `ApprovalQueue`: weak fairness of each code step of a Submit or Resolve (goroutines run;
the timer fires); none for operators. `AccessPoll`: weak fairness of the poll's steps, and strong
fairness of its deadline, which is a timer that stays armed while events keep waking the select.
`AgentIdentity`: weak fairness of the processes (an agent-plane request returns) and strong fairness of `flock`,
which the kernel grants to waiters. `OAuthLogin`: timers fire, handlers run, shutdown goroutines finish. Nothing is
assumed of operators, agents, browsers or the identity provider.

## 4. Properties worth a comment

Related invariants are checked under one name, a conjunction of named parts with the type invariant
first: `AllowIsEarned` (a live grant the request is an instance of, confinement to the namespace, only
text sets grow) and `TableInv` (cache, expiries, template keys) of the policy, `HistoryInv` (one row
per decision, a row for each answer) of the grants, `RulesInv` of the data plane, `LimitInv` and
`JournalInv` of the ledger, `CacheInv` (no older token, one unsaved pair) of the token refresh,
`PollInv`, `FileInv` (filled under the lock, no spare agents, only forgotten ones dropped), `LoginInv`
(exact count, listener served, one exchange) and `ServeInv` (schema, CA, open store).

* `AllowIsEarned` compares the decision with a reading of the template that shares no code with the
  matcher: an allow by a template rule means that some assignment of values of the right types, each
  inside its domain, written into the template gives this request, with no parameter beside it. For
  Kubernetes it looks at the path *as it is forwarded*, so an encoded slash may not move a request out
  of a namespace.
* `NarrowedToGrants` is about the Citeck profile: what is left of a query after narrowing is readable
  pair by pair under `Readable`, a definition from the rules and not from the narrowing; a list the
  caller gave never grows, and the empty answer is made up only when nothing asked for is readable.
* `JournalInv` and `LimitInv` state the only circumstances in which the log or a minute goes wrong:
  a Record that overlapped a Prune, a clock reading that was overtaken, a crash.
* `PruneSpares` bounds a Prune by seconds, because within one second the order of the texts is not the
  order of time.
* `SecretAtItsAddress` exempts rows that were re-targeted between the load and the store of an edit or
  a refresh (`overtaken`); a row made anew under an old name is not exempt.
* `RegistryKeeps`: a scan changes no row that exists, also when it appeared after the scan's list.
* `ApprovalTakesEffect` holds *for ever after* the side effects, with three exceptions that are in
  its statement: the rule was withdrawn since; a rule of the agent's for the item is there and
  has run out (the code takes an expired rule for an existing one); or the rule that the approval
  found and extended has a body template, which the operation asked for has not.
* `ApprovedUntil` excludes two re-approvals of the *same* rule; see the disagreements below.
* `CredentialStaysWithAddress` is about parked calls: the row is read once, so a call sends the old
  credential to the old address, never a mixture.
* `PlainEndsRecorded` covers refusals by policy and limit and all forwarded plain requests; error
  ends before the decision are not recorded by the code.
* `BlockedOnlyByRival`, `DesktopAlone` and `BlockedNeedsMishap` state
  the *only* circumstances in which something undesirable happens. For the last two:
  two desktops overlap only if a `Release` removed a lock file another launch had opened by then
  (unlock, close, remove is three steps) or gave up the lock with listeners open (Serve failed and
  closed none, or Stop timed out); a data directory that no start can get through comes only of a
  *creation* cut short (tables without a version, a certificate without a key) or of two launches
  at once (`serve` has no gate), never of an upgrade, however often it is interrupted.
* `ServedSchemaIsCurrent` has no exception: whoever races or dies, a daemon that reaches Serve has
  every column.
* `SocketLeadsToServer` and `TrustedCaSigns` hold as long as one launch at a time is past the gate;
  beside a `serve` both can fail.

## 5. Where code and comments disagree

`PolicyLostValue` is the one with a run: `updatePolicies` reads, changes and writes back without a
transaction, so of two concurrent approvals of new values one is lost although both succeed.
The others were met while modelling; the properties above are stated so that they hold of the code.

* Two Resolves of one card: the second may block for ever ("never blocks", `approval.md`).
* A verdict acknowledged to the operator is dropped when the timer is ready in the same select.
* A rule is live at its expiry instant (`rule.go:33` says absent; `decide.go:134` uses Before).
* A denied host request leaves its lazily made upstream (`queue.go:49`).
* Two identical requests can raise two cards (`service.go:622`), and two resolves of a k8s card two
  equal rules (`admin.go:799`).
* The history row marked is the latest of (agent, upstream), not the card's (`admin.go:726`).
* An approval racing the deletion of its agent leaves a rule for it (`admin.go:490`).
* Revoking an operation request leaves the rule, whose subject is empty (`admin.go:991`).
* Overlapping re-approvals can shorten an expiry (`admin.go:910`); re-approving an expired k8s
  tuple writes nothing (`admin.go:807`); rules with a body template are never found again
  (`admin.go:842`).
* Approving an operation without a body extends the rule of the same method, path and query that has
  one (`admin.go:932` parses stored templates without their bodies; `admin.go:839` says "the same template
  Key()", which holds the body), and the operation approved is still not allowed.
* A locked vault still serves calls that were parked, and grants need the session only.
* Ends without an audit row: policy errors, bad auth configuration, hang-ups.
* The limiter takes a late caller's minute for a new window (`limiter.go:22`).
* Editing an OAuth upstream can write back tokens it read before a rotation (`admin.go:322`), and a
  rotation is lost when the vault is locked before it is saved (`oauth.go:275`).
* A poll on an approved *host* request waits out its deadline (`service.go:736`).
* Invalidate may remove a token another process has just written (`agentid.go:59`).
* The fingerprint of a credential leaves out the insecure flag (`oidc.go:118`; the comment at
  `oidc.go:164` says rebuilt "if the auth config changed"): a re-import that turns checking on, or
  off, keeps the old transport until another field changes. `NeverOlderToken` exempts that flag.
* Templates match the escaped path, "an encoded slash stays within a segment" (`proxy.go:177`), but
  the decoded path is forwarded (`proxy.go:405`); `AllowIsEarned` speaks of the request as received.
* Of a repeated query parameter the first value is judged and all are forwarded (`optemplate.go`).
* An import finds the row to refresh by its name, whatever its kind (`import.go:116`): an http row of
  that name gets the cluster's address and no credential of its own.
* An edit or a refresh overtaken by a re-target stores the old secret with the new address
  (`registry.go:224`).
* Record and Prune run without transactions (`recorder.go:104`, `:311`): bodies without an entry and
  entries without bodies stay behind when they overlap or when the daemon dies between statements.
* Times are stored as text that drops trailing zeros (`recorder.go:312`), so within a second List and
  Prune do not follow time.
* In the profile's legacy resolution a deny counts only when one rule covers *all* the pairs an
  operation touches (`citeck.go:135`).
* Approving a preset takes an expired equal rule for a duplicate (`admin_preset.go:53`).
* An error callback does not release the login's listener before its timer (`oauth.go:229`).

## 6. Proofs

Eight modules hold the theorems; each is for every value of its component's constants. Every
inductive invariant was checked by TLC as an invariant of the component's run before it was proved.
The assumptions are named `ASSUME`s of the component modules, which TLC evaluates on every run.

**The policy** (`PolicyRegistryProofs`), for any catalogue of rules, any requests and any templates.
`RuleInv` is `TypeOK` (a row is a body of the catalogue but for its expiry and its policies, and so is
what an update in flight has loaded), `CacheCoherent`, `ExpirySticks`, and `CacheIsDrawn`: a template is
cached only under an id that was drawn, without which a new rule could meet an old entry. From it:

* `TableIntegrity` (`TableInv`) and the action property `DeletesStick` (`DeletedStaysDeleted`).
* `StrictestRuleDecides` (`MostRestrictiveWins`), through lemmas on `resolveTier` and `Decide`.
* `NarrowedIsReadable` (`NarrowedToGrants`): what each way out of `filterReadQuery` says (`FilterIs`),
  and that `wsAllowedForRead` is `Readable` (`ReadableIs`).
* `AllowsAreEarned` (`AllowIsEarned`). `MatchRenders` shows that the values `Match` extracts, written
  back into the template, give the request; `SplitPathIs` and `RestIsInPath` that a namespace `Parse`
  finds stands in the path as it is forwarded, with something named after it; `AllowedInDomain` and
  `NewIsText` what the value gates let through.

`RuleAssumption` types what operators pass in; `RequestAssumption` says that a request has a resolved
agent and that paths, parameters and bodies are sequences and records of texts.

**The data plane** (`DataPlaneProofs`), for any calls, agents, request shapes and rules. The checked
invariants speak of calls that were sent or have ended; `PlaneInv` says of a call at *every* point what
it has read and been granted by then (`CallOK`), and ties the table to what the operator wrote
(`RulesAsWritten`). Theorems: `ForwardedIsPermitted`, `ForwardedWasGranted`, `CredentialsStay`,
`ValuesWereApproved`, `EndsAreRecorded`. `PlaneAssumption`: rules have one of the three outcomes, and the
placeholders are not rows or ids.

**Credentials and the upstream registry** (`TokenRefreshProofs`), for any calls, editors, kubeconfigs
and bounds. `TokenInv`: every copy of the row, in a call, an editor or the login, is at most as new as
the provider's generation and holds a secret of its address unless it was overtaken (`KeptIn`); a busy
authenticator has exactly one caller (`MutexHeld`); and, while nothing but calls wrote, every unsaved
pair has one copy and otherwise the row is the latest (`QuietInv`). Theorems: `CacheIsFresh`,
`RestartNeedsNoLogin`, `SecretStays`, and the action property `ScanSpares`. `DocumentsAssumption` is
about the files outwall reads: the user of a usable context has the secret of its cluster, and a CA
file that is named is not empty. `TargetsAssumption` states what `SelectSeq` and `FlattenSeq` return on
those files, an induction over data that the prover cannot do; TLC evaluates it.

**Limiter and journal** (`CallLedgerProofs`), for any finite set of calls, any limit, retentions and
cutoffs. `LimiterInv`: while all calls that came to `Allow` were of one minute, the window counts
exactly those it admitted. `LogInv`: a Record in progress during a Prune is known as overlapped, any
other entry is stripped of its bodies before its row goes. Theorems: `LimitIsKept`,
`JournalStaysReadable` (with lemmas on the order of the times' texts) and the action property
`PruneTakesOnlyTheOld`. `LimiterAssumption`: a limit is positive (the proxy asks for no other);
`LedgerAssumption`: the bound on the minutes covers the clock's.

**Approval queue** (`OperatorProofs`), for any sets of cards, calls and reasons. `QueueInv`
strengthens `TypeOK` with what ties the pieces of a card together: who has sent on its channel,
what is in the channel, what was taken out and what Submit will return. None of the properties is
inductive alone: `FirstVerdictWins` needs that a channel with room and a sender means the decision
was taken, `BlockedOnlyByRival` that a full channel has a sender other than the one that waits.
From it follow `TypeCorrect`, `WaitersExact`, `FirstVerdict`, `ApprovalNeedsOperator`,
`BlockingNeedsRival`, and `QueueImplementsPromise`: initial states map to initial states and every
step to a step of `ApprovalDecision` or a stutter. The only assumption is that the placeholders
(`Unresolved`, `NoReason`, `NoCard`) are not values.

**Operator gate** (`OperatorProofs`), for any passwords, callers, TTL and clock bound. `GateInv`
adds to `GateTypeOK`, `KeyMatchesStore` and `OpenNeedsProof` that a caller past its check holds the stored
password (`ProofsHold`, needed because check and effect are two steps with a racing first setup between)
and that the session's window starts no later than the last activity (`WindowIsActivity`, needed
for the idle properties). It gives `GateTypeCorrect`, `KeyIsStored`, `NothingWithoutProof`,
`IdleSessionsExpire` and the action property `AdmittedWithinWindow`.

**Grants and polls** (`AccessProofs`). For any agents, requests, resolves, revocations and bounds,
`GrantInv` holds of the grants. The checked invariants speak of rules that are written and of approvals
that are through; a resolve is many statements with others between them, so `GrantInv` adds what each one
has decided and found by every step (`HandlerOK`), who made a rule and out of what (`RulesOwned`), what an
approval has given from the moment it is known not to be missing (`EffectOK`), the expiry a found rule still
has when it is renewed (`UntilOK`), and, for the history, that seen cards and logged calls have rows
(`RowsOK`) and that closed rows are paid for by calls past their mark (`CountOK`). Theorems:
`GrantInvariant`, `GrantsWereApproved`, `ApprovalsTakeEffect`, `HistoryIsSound`, `ApprovalsLast`.
`GrantAssumption`: placeholders are no values, calls are finitely many, an operation asks for itself and
a k8s request for something. For polls, any number of them, of operator calls and any buffer: `WakeInv`
says that whoever waits is subscribed, and that a poll which has read the rules and is about to sleep has
missed nothing (`NoneMissed`; `WakeupNotLost` alone is about sleepers only). Theorem: `DecisionsReachPolls`,
of `PollSpec`. `PollAssumption`: a buffer holds at least one event.

**Browser login** (`LoginProofs`), for any finite set of logins and any callbacks. `PortInv`: the
count is exact because a released login stays released and one that has not acquired was never
released; the listener serves because the server is there exactly while the count is not zero; a login is
exchanged once because its state is pending, or with one callback, or spent. Theorem:
`LoginsShareThePort`.

**Agent identity** (`LoginProofs`), for any processes, forgets and crashes. `IdentityInv` counts
the tokens minted against those dropped, dead or in use (`MintedAreUsed`), says that nothing is stale
before the first forget, and that after the first a stale token is handed on at most once. Theorems:
`OneAgentPerProject`, `RetryHeals`.

**Lifecycle** (`DaemonLifecycleProofs`), for any number of launches, headless ones among them, of
processes alive at a time and of crashes, and any database outwall ever wrote. `LifeInv` has four parts,
because none of the checked properties is inductive.

* The gate. A lock on a file that is no longer at the path keeps nobody out, so `DesktopAlone` needs that
  whoever has a lock file open has the one at the path unless a Release was overtaken (`LockFile`), that a
  desktop past the gate holds the lock of the file it has open (`LockHeld`), and that one which serves on
  after its Release is known as late (`LateOK`). Gives `OneDesktop`.
* The tables, whoever races through `migrate`. They only grow (`TablesGrow`) and have the columns of the
  stamped version and of every step a launch has behind it (`TablesOK`). The case that matters is a launch
  that creates the schema beside one that migrates: where all tables have the current shape already, the
  other's next `ALTER TABLE` is a duplicate and its transaction rolls back (`AllCurrentStays`). So a daemon
  that got as far as Serve has the current schema.
* The data directory while one launch at a time is past the gate (`Alone`): at each of that launch's steps,
  what the version, the tables (`DbOK`), the certificate and the key (`CaOK`) are; a step of any other
  launch leaves them alone (`BystanderMoves`). Gives `UpgradesNeverBlock` and, with the listeners,
  `SocketIsTheServers`.
* The Serve call: a launch without one in progress has no listener (`ListenerOK`), and a closed store means
  a start that failed or a Serve that returned (`StoreOK`).

`ServesOnSoundDirectory` combines them (`ServeInv`). `LifecycleAssumption`: the bounds are numbers and the
database is new or of a version up to the latest, 6. A database of a later version (a downgrade) is not
covered.

What the proofs corrected. Three `CASE` expressions had overlapping arms (TLA+ then chooses either,
TLC the first; the code tests in order): they are `IF`s now. Two templates of one key are one operation only if
both parse, and `KeyIdentifies` says so. A namespace in a path may be followed by empty segments, so
`ConfinedToNamespace` asks for a named one somewhere after it. A workspace may be called what the
profile uses as the mark of "all of them"; `NarrowedToGrants` is therefore about whether the query was
left unchanged. `TextsOf` was missing parentheses around a `UNION`.
`ApprovalTakesEffect` was false of operations asked for with and without a body, which no request of the
run combined: the run has such a request now, and the property its third exception. `ApprovedUntil` names
the kind and the upstream of the rule that lasts.

Only model-checked: the liveness properties `SubmitReturns`, `GrantReachesPoll`, `PortFreed` and
`CommandsEnd` (temporal reasoning under fairness is beyond the prover used). Every invariant and action
property of a passing run is a theorem.

## 7. Not modelled

* Text below the level of a segment: splitting a path or a template into tokens, the glob matcher, the
  grammars of numbers and dates. They are constants; what the code does with their results is modelled.
* HTTP and JSON decoding, the capture and truncation of bodies, the rewriting of browsed pages, cookies:
  stream plumbing whose data no property tells apart.
* Cryptography: key derivation, encryption, SigV4, HMAC and mTLS signing, issuing of leaf certificates.
* The client-credentials and exec token sources (`oidc.go`, `exec.go`): each is a cache of one token
  under one mutex and writes no row; of the exec source the model has only that its transport is built.
* Rendering the kubeconfig handed to an agent (`k8s/kubeconfig.go`), last-seen times, the settings table
  beyond the retention: no state that another step depends on.
* OIDC discovery, the SSE event stream, the CLI's output, the web UI, the desktop's window and tray: pure
  I/O and views over the admin API.

`PROJECT.json` gives each component's status and reason.

## 8. Plan

Modelled, in the order of what matters most to the operator: approval queue, policy, grants, data plane;
credentials, gate, polls, identity, lifecycle; then the audit journal under the limiter, the parsing in
front of a decision (templates, Kubernetes, the Citeck profile), the upstream registry with the cluster
import, and the agent plane. Proved: the policy, the grants and polls, the data plane, the credentials and the registry, the
limiter and the journal, the approval queue, the operator gate, the browser login, the agent identity and
the lifecycle. Next: the client-credentials and exec token sources beside `TokenRefresh`.
