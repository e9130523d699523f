# A TLA+ verification of the VCP servers

VCP ("Verifiable Capability Protocol") separates what a model may *propose* from
what a gateway lets *happen*: a client plans a list of capability calls, the user
approves the plan, and the gateway mints short-lived grants, calls the provider,
checks its attestation and writes an audit log. The repository holds four
implementations (Python, TypeScript, Go, Rust) of one specification, with shared
conformance vectors.

This directory models the parts of that program whose correctness depends on the
order in which things happen or on several implementations deciding alike, checks
them with TLC and proves with TLAPS, for every value of the constants, all but one of
the properties the passing runs check.

## 1. Inventory

| component | state | operations | properties that make it correct |
|---|---|---|---|
| Python VCP-HTTP server (`python/vcp_server/http_server.py`) | `_plans` (plan hash → record with `approved`, `subject`, `expires_at`, reports), under `_lock`; one thread per request | `handle_plan`, `approve_plan`, `handle_apply` | a write needs consent to its own proposal; reviewed before committed; a denial sticks; answers are true; every request ends |
| Python gateway pipeline (`python/vcp_gateway/gateway.py`, `grants.py`, `audit.py`, `verify.py`) | `AuditLog.events` | `Gateway.invoke`: verify manifest, validate, decide, appraise, mint, verify grant, execute, verify attestation, audit | every execution is explained by the log; a grant is not used after it expires; an altered manifest is not served |
| Go gateway (`go/gateway/invoke.go`, `policy.go`, `grant.go`, `verify.go`, …) | `callCounts` per grant id, audit log | `Invoke`, `InvokeOBO` | no more effects than granted calls; the log knows what was committed |
| TypeScript gateway library (`typescript/packages/gateway`) | audit list | `invoke` | as the other two; a minted grant is closed in the log |
| Rust gateway (`rust/crates/vcp-gateway`) | task store | policy, grant, task and path functions; no function runs a whole invocation | decides as the other three |
| Python policy and taint (`policy.py`, `taint.py`) | none | `DefaultPolicy.decide` | tainted data never authorises a call; restricted data never flows to an external sink; writes are challenged without approval |
| Task managers (four languages) | task handles, cancelled flags or revoked grants | create, get, update, cancel, invoke | a cancel is final; expiry is the same instant everywhere; the four agree |
| TypeScript engine (`typescript/packages/server/src/engine.ts`) | `Map` of stored plans, audit log | `plan`, `approve`, `apply` as async functions | as the Python server; plus what is left after a step fails half way |
| Delegation and on-behalf-of fan-out (`delegation.py`, `demo_obo.py`) | credentials, grants with chains, audit log of one run | exchange, mint, attenuate, verify audiences; `run_demo` | authority only ever shrinks along a line of grants; a credential is used only where it is bound; success means complete |
| Environment attestation (`attestation.py`, `.go`, `.ts`) | none | appraise a statement against a challenge and a trust set | freshness, trust, and the same verdict in each gateway |
| Command capabilities (`command.py` of SDK and gateway, `.go`, `.ts`, `.rs`) | the approved argv hash | resolve, hash, check paths, run | what runs is what was approved and stays in the sandbox; the four decide alike |
| Identity, manifests, signing, bridge (`vcp_sdk`) | none | build, sign, bridge, recompute the identity | the identity covers what the gateway reads |
| Canonical JSON and hashes | none | canonicalise, hash | the four hash alike |
| Demos, clients, vectors | none | scripts | — |

**How they interact.** An HTTP request runs in a thread of its own
(`ThreadingHTTPServer`). It shares with the others the plan store, which it locks
for a lookup or a store and never across a step, the audit log, the provider
and the wall clock. The server's handlers call `Gateway.invoke` once per step: for
a dry run of each write while planning, and for each step while applying. `invoke`
verifies the manifest (built and signed by the SDK, or bridged from a foreign tool),
asks the policy, appraises the environment's attestation where the manifest requires
one, mints and verifies a grant, calls the provider, verifies its attestation and
audits. In TypeScript the server's cycle is an async function that gives way at every
`await`. The fan-out driver calls a token broker, another service, for each write and
binds the credential it gets into the grant. A host resolves a command's argv, binds its
hash into a grant, checks its paths and runs it; nothing in the repository does these
in a row but the tests.

**What is hard.** (a) *Interleaving*: a plan hash identifies the list of steps, not
the proposal or its author, so several subjects may plan, approve and apply the same
hash at once, and each plan request replaces the record. (b) *Stale copies*: apply
copies the record under the lock and uses the copy, and one reading of the clock, for
all its steps; the parameters of a command may change after its argv was approved; an
audit event gets members after it was signed. (c) *Partial failure*: an exception or a
refusal in the middle leaves earlier steps dry-run or committed; a provider may fail
after it committed. (d) *Edges*: a task's expiry at its very second, the root of a sandbox
at `/` and `.`. (e) *Keys that do not identify*: reports indexed by a step id clients
may repeat, task ids callers may choose twice, grants that several tasks share, call
counters keyed by a hash of the arguments. (f) *Several implementations* of one
decision, with different checks in different orders. Nothing is persisted over a restart,
and no request is retried by the program itself, so crash recovery and redelivery do not
arise; what a caller's retry meets in Go's call ledger is modelled.

`PROJECT.json` lists every hazard at its line, with the properties that cover it.

## 2. Plan

The order follows importance: consent first, because everything else in the
protocol exists to make it enforceable.

1. `VcpPolicy`, `PlanApply`, `ConsentLedger` — the Python server, its policy and the
   abstract ledger it implements. *Done, with proofs in `PlanApplyProofs`,
   `PlanApplyHistoryProofs` and `PlanApplyRefinement`.*
2. `Tasks` — the four task managers in lock step. *Done, with proofs in `TasksProofs`.*
3. `TsEngine` — the TypeScript engine, shown to implement the **same** ledger. *Done, with
   proofs in `TsEngineProofs`.*
4. `Manifests` and `Gateways` — what identity a manifest claims and how it is verified;
   the three `invoke` pipelines on one stream of requests. *Done, with proofs in
   `GatewaysProofs`.*
5. `Delegation` — authority along an on-behalf-of line, and the fan-out run. *Done, with
   proofs in `DelegationProofs`.*
6. `Commands` — templates, argv, sandbox checks in four languages. *Done, with proofs in
   `CommandsProofs`.*

Composition: `PlanApply` and `TsEngine` each instantiate `ConsentLedger` with a
refinement mapping; `Gateways` extends `Manifests` and `VcpPolicy`, `Delegation` extends
both too (`Sign` and `Decide`), `Commands` takes the taint rule from `VcpPolicy`.

What the plan has left, in order:

* the safety part of `Answered` (a thread that is not done has a step it can take) as a
  theorem, as far as it goes without `ENABLED`;
* that the result of a command may not authorize anything, over the whole life of a
  plan that quotes it;
* canonical JSON as a pure function (member order by UTF-16 units in four languages),
  if the strings can be abstracted without losing what makes them differ.

## 3. The modules

**`VcpPolicy`** is `DefaultPolicy.decide` as an operator `Decide(effect, flows,
approval, plan)`: the four rules in the code's order. The data flows are a set, since
`decide` asks only whether some flow is forbidden.

**`PlanApply`** is the Python server. A thread is a record of `call`: its program
counter `pc` and the local variables of its handler (`now`, the copied `approved`,
`version`, `subject`, `reports`, the `results` so far). One action is the code between
two points where another thread can be seen: under the lock (`Persist`, `Approve`,
`Admit`, `RefuseApply`), around an audit append (`DenyStep`, `RefuseStep`, `Mint`,
`Announce`, `RecordInvoked`), the provider (`Execute`) and the clock (`BeginPlan`,
`SampleClock`, `Persist`).

| action | code |
|---|---|
| `BeginPlan`, `RefusePlan` | `handle_plan` up to its loop |
| `DenyStep`, `PassRead`, `MintDryRun`, `AbortPlan` | `_plan_one_step`, `_policy_probe`, `_dry_run`; an exception leaving the loop |
| `Persist`, `Announce` | storing the record under the lock; `vcp.plan.proposed` |
| `Approve` | `approve_plan` |
| `Admit`, `RefuseApply`, `SampleClock` | `handle_apply`: the lookup under the lock; `now` and `report_by_id` after it |
| `SkipStep`, `RefuseStep`, `MintGrant`, `FinishApply` | one turn of its loop; a `GatewayError`; the return |
| `Execute`, `RecordInvoked` | `Gateway.invoke` from `verify_grant` on |

A *proposal* is named by the request that stored it (`version`). The code has no such
name: a plan hash is all a client sends. `version` and the history variable `consented`
exist to say which proposal a consent reached. `executed` records what the provider was
asked to do. The audit log is a set of events: two events are never equal, because an
event names its thread, step and kind, and no property depends on their total order.
A step is what the handlers tell apart: whether its arguments validate, whether its
flows are objects, whether its id can be hashed, its capability and its flows.

**`ConsentLedger`** is the abstract specification: the current proposal of each plan
may be replaced, consented to or admitted; an admission is a ticket that fixes the
proposal and its consent at that moment; only a consented ticket commits writes. A
commit is told from others by its call and its step; that apply executes a step once is
the shape of its loop, and nothing the ledger could refuse. It knows no program counters, clocks, reports, dry runs or audit.

**`TsEngine`** is the TypeScript engine. Requests interleave at awaits. `apply` keeps a
reference to a `StoredPlan`, so the objects have identities (`stored[c]` is the object
plan request `c` made) and `plans` maps a hash to one of them, as the `Map` does; the
flag `approved` is read from the object each time it is used, as in the code. What one
`await` separates without any access to shared state stays one action. Its mapping to
`ConsentLedger` counts as consent only the approval of a plan that needs one.

| action | code |
|---|---|
| `BeginPlan`, `BlockStep`, `AllowStep`, `DryRun`, `RequireApproval`, `AbortPlan`, `StorePlan` | `plan`, `evaluateStep`, `callProvider` |
| `Approve` | `approve` |
| `Admit`, `RefuseApply`, `FinishApply` | `apply` |
| `MintGrant`, `RefuseStep`, `Invoke`, `RecordInvoked`, `ProviderFails` | `invokeStep` |

`Faults` is what an implementation of the `Provider` interface may do wrong; the sample
provider does none of it, but the engine has code for both.

**`Tasks`** runs the four task managers side by side on the same calls, each on its own
store. `create` and `cancel` are actions; `get`, `update` and `invoke` change nothing
and are verdicts, in each implementation's own order of checks.

**`Manifests`** holds no state: what a tool, command or bridged tool is turned into, what
its identity is computed from, what a signature covers, and the three verifications, each
with its own order of checks. Hash and signature are ideal: `sha256(JCS(x))` is `x`, and
a signature is its key and the body it was made over, so that a body altered afterwards
no longer verifies. What the identity *covers* is therefore kept and what it costs to
forge is not. A manifest may claim no hash or no id (`Blank`): Go skips the comparison of
a member its author left empty, the other two refuse the manifest.

**`Gateways`** sends one request to the three `invoke` pipelines and lets the providers
behind them behave alike. They share nothing, so any interleaving is equivalent to the
sequential one the module takes; that leaves states for what matters, the history of
calls. `config` is how the deployment was set up: which keys, trust set and build
allowlist the gateways were given.

| action | code |
|---|---|
| `Submit` | the caller's call of `invoke` / `Invoke` |
| `Refuse` | a failing check before the grant: manifest, arguments (Python), policy, statement, in each gateway's order (`Admission`), with its audit event |
| `RefuseReplay` | Go's `verify_grant` finds the grant's use spent |
| `Call` | minting, verifying and (Go) charging the grant, `vcp.grant.minted` (Python, TypeScript) |
| `Decline`, `Execute` | the provider fails before, or commits and then answers, honestly or not |
| `Serve`, `Discard`, `Propagate` | attestation verified; rejected; the provider's error, caught and logged (TypeScript) or handed on in silence (Python, Go) |

**`Delegation`** is the whole of `run_demo` and the delegation library. The run's plan is
a literal in the code and a constant here, so plans with fewer and with more writes are
checked too. The broker is the `TokenExchangeBroker` protocol: it may bind a credential to
another audience (`Misbinds`), which is what the check `cv` is there for. `SubDelegate` is
`attenuate` followed by `mint_obo_grant(..., attenuated_from=...)`, the way the library
offers to pass a part of a grant on. `attenuate` compares scopes and nothing else, so
providers and arguments of a passed-on grant are free, as in the code.

| action | code |
|---|---|
| `RunReads`, `Approve`, `BlockFlow` | the read loop; the single approval; the taint refusal of the last step and the return |
| `DryRun` | one turn of the dry-run loop: exchange, grant, execution with `dry_run` |
| `ApplyWrite` | one turn of the write loop: policy, exchange, grant, `verify_*_audience`, execution, audit |
| `SubDelegate` | `attenuate`, `mint_obo_grant` |

**`Commands`** is a host's use of a command capability: `Approve` resolves the argv, binds
its hash and checks the paths; `Change` is the planner sending other parameters;
`RunCommand` resolves again, compares with the bound hash and runs. The four languages
take each step together. A path is its list of components and whether it starts at the
root; `NormalizeParts` is the lexical normalisation, `IsWithin`, `TypeScriptIsWithin` and
`RustIsWithin` the three comparisons, edge by edge. `Place` defines where a path leads
without any algorithm (a name counts unless a later `..` takes it back) and is what the
properties speak of.

**`PlanApplyProofs`**, **`PlanApplyHistoryProofs`**, **`PlanApplyRefinement`**,
**`TsEngineProofs`**, **`TasksProofs`**, **`GatewaysProofs`**, **`DelegationProofs`** and
**`CommandsProofs`** hold the theorems (section 5).

The modules named `MC...` only choose constants for TLC. Operators marked `mutant` are
plausible bugs of the definition that follows them, not part of a specification:
each property is known to fail when its mutant is used instead.

## 4. The runs

| run | configuration | states | shows |
|---|---|---|---|
| `races` | 4 requests, 2 subjects, one plan of one write, plans expire after second 0, clock to 1 | 244,094 | `ConsentBeforeWrite`, `ImplementsLedger` |
| `shapes` | 2 requests, 2 subjects, 9 plans, `PlanTtl` 1, clock to 2 | 115,707 | `TypeOK`, `DiffBeforeCommit`, `DeniedStaysDenied`, `AuditTrail`, `ResultsTruthful`, `ImplementsLedger` |
| `answered` | 2 requests, 1 subject, 9 plans, fair threads | 34,037 | `Answered` |
| `engine` | 3 requests, 7 plans, clock to 2, provider throws or answers unverifiably | 20,460 | the seven properties of `TsEngine` |
| `tasks` | 2 ids, 2 grants, 2 subjects, clock to 2, one id reused | 26,541 | the five properties of `Tasks` |
| `gateways` | 36 requests, 3 trust configurations, 6 provider behaviours, 2 calls | 401,751 | the six properties of `Gateways` |
| `delegation` | 3 providers, 5 plans, a broker that may bind to slack, 2 passed-on grants | 474,908 | the five properties of `Delegation` |
| `commands` | 4 templates, all paths up to 3 components, 10 allowlists, 1 change | 472,390 | the four properties of `Commands` |

States are distinct ones, up to symmetry where the configuration uses it.

`races` asks what several subjects can do to one plan hash. Four requests are enough for
the longest pattern the code invites: propose, propose again, and two applies admitted
before and after, with approvals (which are not requests of a thread) at any moment.
Consent always reached the very proposal an apply copied.

`shapes` asks what each kind of step does. Its plans hold one of each thing the handlers
treat differently: no steps, an unknown capability, invalid arguments, a confidential
flow to an external sink, tainted authority, ids repeated so that the last or the
first report counts, flows that make the handler raise, an unhashable id, and two
writes. `DeniedStaysDenied` holds although a repeated id can make apply read another
step's report, because `Gateway.invoke` decides again; the mutant that trusts the
reports breaks it. `ResultsTruthful` includes applies refused half way.

`engine` needs three requests: two proposals of one hash and an apply of either. The
clock goes past a grant's expiry, so the refusal between minting and using one happens.
`AdmittedNeverChallenged` says that plan time and apply time agree although the live
flag is read again at each step. `BlockedNeverRuns` rests on `plan` storing nothing after
a block: `invokeStep` checks authority no more. `AuditExplains` is about every call of
the provider. One that `apply` made has its grant in the log before it, and its end after
it unless the answer is still out. A dry run is logged as `vcp.plan.dry_run` and no more:
`callProvider` (`engine.ts:407-437`) mints its grant without an event, and when the
provider throws the exception takes `plan` with it, so that the log knows nothing of that
run. `GrantsAccounted` looks from the other side: a grant that was announced is unused
and waits, or is with the provider, or its end is in the log, or it expired in the await
before `verifyGrant`, and then it was never used and both the log and the answer say so.

`tasks` reaches every order of create, cancel and expiry for two tasks that may
share a grant, at every distance of `expires_at` from now, before, at and after, and lets
a caller create one id again, which Python and Rust answer by overwriting the handle.
`DenialIsFinal` and `CancelIsFinal` are therefore stated of handles that name one task for
ever (`UniqueHandle`), which in Go and TypeScript are all.

`gateways` sends pairs of calls, since the only state a call leaves for the next is Go's
ledger; two calls are the shortest history in which it matters, and `GatewaysProofs` covers
the longer ones. Its requests hold one of each thing a check reads: manifests altered,
renamed, signed by another key, unsigned, of a command hashed in either way, without
a hash, without an id, without both, and altered after being signed without both; arguments that miss, mistype or add a
member; an approval of another plan, none, a declared effect that is not the manifest's;
each kind of flow; each way a statement can be wrong.
`GatewaysAgree` says that the three serve the same requests but for the differences
`KnownDifference` lists, and of what the model tells apart there is no other. The list is
the result: only TypeScript hashes the block of a command; Go serves a signed manifest
that claims no `contract_hash` or no `id` (`verify.go:53`, `:56`) and the others refuse it;
Go does not validate arguments, read the labels of flows or take the effect from the
manifest; Go and
TypeScript ask for no approval of a `write-idempotent` effect; TypeScript's approval names
no plan; the three tell the sink of a flow in three ways; Python verifies a signature, an
issuer or the provider's answer only with the key or set for it; only Go remembers a use.
`EffectsAsPublished` is what this leaves of an altered manifest: no effect happens for one
whose claimed identity does not cover its fields; Go alone has effects for one that claims
no identity at all, on the strength of its signature; and wherever the gateway holds a key
(Python may have none) the manifest is the one that was signed.
`CommitLeavesTrace` holds with one exception it names: when the provider committed and
then reported an error, Go has spent the grant's use (`invoke.go:277`) and returns without
any audit event (`invoke.go:281-283`).

`delegation` reaches brokers that bind wrongly at every write, plans with no, one, two and
three writes, and lines of up to two passed-on grants from any grant at any time.
`TrailExplains` also says that exactly the events of committed writes no longer verify:
`run_demo` adds the chain and the credential to an event `audit_event` has already signed
(`demo_obo.py:306-307`). The dry runs exchange a credential and mint a grant with the
write's scopes before the user approves anything, which the driver's own description
(`demo_obo.py:14-20`) puts after the approval; only the order of the run keeps such a
grant from committing.

`commands` puts every path of up to three components, `..` anywhere, against the
allowlists the languages read differently. On absolute paths and roots the four approve
exactly what leads into a root (`VerdictsAreExact`), with the two exceptions named there.
`StaysInSandbox` is about every path hole, whatever its parameter is called, and every
allowlist, for absolute values: what runs leads into a root, and that root is absolute in
Python, TypeScript and Go. Rust compares components and drops the slash, so a relative
root admits an absolute path whose first components match, and `.` admits every path
(`command.rs:78-141`); there the root is one by its components only. In the other three
`.`, which Python's `bridge_existing_cli` takes when it is given no sandbox
(`vcp_sdk/command.py:330`), admits only itself. A value that is not a string is not
checked as a path by Python and TypeScript although it resolves into the argv, and is
refused by Go and Rust: the property leaves it out.
`ModesDifferAsKnown` compares Python's two ways of asking. The argv mode refuses what the
parameters were allowed for only because of an argument the parameters do not declare a
path; it allows what they were refused for only because of a relative value without `..`
(`secret` under `/work`, or anything relative under `none`), which it takes for no path.

Four runs show a disagreement with a document or a comment; three of them (`stale_clock`,
`engine_authority`, `command_manifests`) are bugs of the code. Each is expected to find
its property violated.

| run | property | disagreement |
|---|---|---|
| `stale_clock` | `NoUseAfterExpiry` | `handle_apply` reads the clock once, and grants of late steps are verified against that reading |
| `tasks_python_grant` | `PythonRevokesGrant` | cancelling revokes one task, not its grant |
| `engine_authority` | `TaintNeverAuthorizes` | only the first authorising source of a step is checked |
| `command_manifests` | `CommandManifestsVerify` | Python and Go recompute the identity of a command without its command block, and refuse every command manifest the SDK builds |

Three smaller disagreements have no run: `handle_plan` says it mints no grants
(`http_server.py:164-165`), but dry-running a write mints and audits one (`:354`);
`check_command_paths` denies "the first value that escapes" of either parameters or an
argv, any path under `none` (`vcp_gateway/command.py:119-131`), but does not look at a
relative one in an argv (`:102-107`), the second difference of `ModesDifferAsKnown`; and the
four task managers answer the same history with different reason codes (Go looks at
revocation before expiry), which is why `EffectsAgree` compares effects.

**Deadlock** is not checked: a finite set of requests, a clock with a bound, a plan done
and task ids used up end every behaviour.

**Fairness.** `FairSpec` of `PlanApply` is weak fairness of each thread's own steps:
the interpreter schedules every runnable thread, no step waits for another thread (the
lock is held only inside a step), and the sample provider returns. Arrivals, approvals
and the clock are not fair: nobody has to send a request. No fairness is assumed of
the other modules, and no liveness claimed: `Gateways`, `Delegation` and `Commands` are
sequential code whose every loop is over a finite list.

**Bounds.** `Calls`, `MaxClock`, `Ids`, `Grants`, `Subjects`, `MaxReused`, `MaxCalls`,
`MaxSubGrants` and `MaxChanges` bound the state space; `StepsOf`, `Requests`, `Plans`,
`Templates`, `Params` and `Sandboxes` enumerate inputs. One unit of the clock is a second;
the TTLs (300 s in the code) are 0, 1 or 2 units, because only the order of events around
an expiry matters. Symmetry is over requests, subjects, ids and grants, never in a
liveness run; all four are compared only for equality.

## 5. What is proved

Every theorem is of the module's `Spec` and holds for every value of its constants.

**`PlanApplyProofs`**, for every number of requests, plans, subjects and steps and
every TTL:

* `TypeCorrect` — `Spec => []TypeOK`, by the stronger `TypeInv = TypeOK /\ CallsInv`.
  `CallsInv` says what being under way implies of a thread: it has an operation, and
  with it a plan, a subject and a version, and a plan request is its own version.
  Without it nothing would say that the record `Persist` stores, or the execution
  `Execute` adds, names a plan and a subject at all.
* `ConsentHolds` — `Spec => []ConsentBeforeWrite`, by `ConsentInv`, four facts that
  follow a consent along the way it is used:
  - `RecordsInv`: the version of a stored record is a plan request of that plan and
    subject, and has been consented to if the record is approved;
  - `TicketsInv`: the same of what an apply copied from a record;
  - `MintedInv`: an apply about to execute a write holds an approved copy, because
    the policy was asked again;
  - `ExecutedInv`: the thread of an executed write is an apply with an approved copy,
    for the plan and the subject of the execution.

  `ConsentBeforeWrite` is not inductive: nothing in it says where the copy in a thread
  came from, nor that the policy stood between that copy and the execution.
  `consented` only grows and a version's request never changes its plan or subject
  (lemmas `ThreadKeepsCalls`, `ArriveKeepsCalls`), which is what carries the facts over
  the steps of other threads.

**`PlanApplyHistoryProofs`** relates what the threads are doing to what was executed and
logged, by `HistoryInv`, on top of the two invariants above:

* `EveryWriteWasReviewed` — `DiffBeforeCommit`. A write an apply executes belongs to a
  step of its plan (`ExecutionsInv`); its proposal was complete when it was stored
  (`CompletedInv`); and of every step a plan request is past, one that writes was denied
  or dry-run (`ReviewsInv`). None of this follows from the property, which speaks of
  executions only.
* `DenialsHold` — `DeniedStaysDenied`. `ReviewsInv` makes a report "deny" mean that the
  policy denies the step whatever the approval, and `ExecutionsInv` that no such step was
  executed: the reports that a repeated id may confuse are not needed.
* `LogExplains` — `AuditTrail`, by `LoggedInv`: the grant in a thread's hands is in the log.
* `AnswersAreTrue` — `ResultsTruthful`, by `PositionInv`: a thread has as many results as
  steps behind it, so that a result and the execution it reports have the same index.

**`PlanApplyRefinement`**:

* `ServerImplementsLedger` — `ImplementsLedger`, step by step: `Persist` proposes,
  `Approve` consents, `Admit` admits, an apply's `Execute` of a write commits, and every
  other action leaves the mapped variables alone. That the commit's ticket is
  consented is `ConsentInv`; that `Persist` stores under a name no stored record has yet
  is `CompletedInv` (a stored record's request is past its loop's end).

**`TsEngineProofs`**, for every set of calls, plans, faults and TTLs:

* `EngineTypes` — `TypeOK`, by `TypeInv`, which adds what a request under way must look
  like (`CallsInv`) and that a stored object was made by an ended plan request and is held
  under the hash it was made for (`HeldInv`).
* The others follow from `EngineInv`. A plan request has passed the steps behind it
  (`EvaluatedInv`), so a stored object was cleared as a whole (`StoredInv`), and an
  admitted apply refers to an object of its plan that is approved if it has to be
  (`AdmittedInv`); what is behind an apply was executed and logged (`ProgressInv`), and
  nothing else was (`AppliedInv`); a dry run is logged or its request is still at that
  step (`RehearsedInv`); and a grant belongs to a step behind its apply, or to the last
  one, in use, used or expired (`GrantsInv`). `BlockedStepsNeverRun` — `BlockedNeverRuns`;
  `PolicyNeverChallenges` — `AdmittedNeverChallenged`; `LogExplainsCalls` —
  `AuditExplains`; `GrantsAreAccounted` — `GrantsAccounted`; `AppliesAPrefix` —
  `PrefixApplied`. `AdmittedInv` is where the live
  flag matters: an object's `approved` is never reset, so reading it again is harmless.
* `EngineImplementsLedger` — `ImplementsLedger`, as for the server.

**`TasksProofs`**, for any ids, grants, subjects and clock:

* `TypesHold` — `TypeOK`, inductive by itself.
* `CancelsAreFinal` — `CancelIsFinal` in all four implementations — and
  `TypeScriptCancelsGrants` — `TypeScriptRevokesGrant`. Both from `CancelInv`: an
  acknowledged cancel names a task that exists; its grant is revoked (TypeScript) or its
  task marked (the others). What `Create` may do to a marked task is where the
  implementations part: it cannot in Go and TypeScript, and makes the id `reused` in
  Python and Rust.
* `DenialsAreFinal` — the action property `DenialIsFinal`, from the types: every step
  leaves a unique handle as it was or marks it, while the clock and the revoked grants
  only grow (lemma `DeniedStaysSo`).
* `FourAgree` — `EffectsAgree`, by `AgreeInv`, which compares the stores: without a reused
  id Python, TypeScript and Rust hold the same handles; Go holds them too, but for those
  already expired when they were created; and TypeScript's revoked grants are those of
  its cancelled tasks. The lemma `AllowsExactly` brings the four orders of checks to one
  form.

**`GatewaysProofs`**, for every set of requests, configuration, provider behaviour and
number of calls:

* `GoNeverCommitsTwice` — `GoCommitsArgumentsOnce`, by `LedgerInv`: what Go committed is
  charged in `callCounts`, and while a call is with the provider its arguments are charged
  and not yet committed, so that the one commit it may bring is their first. The lemma
  `GoodGrantIsUncharged` is the check of `verify_grant` that makes it so.
* `EffectsArePublished` — `EffectsAsPublished`; `CommitsLeaveTraces` —
  `CommitLeavesTrace`; `TypeScriptAlwaysCloses` — `TypeScriptClosesGrants`. All three from
  `CallInv`: of a call past a gateway's admission the manifest claims the identity it has
  (or none, in Go), was signed if that gateway has a key to tell, and was appraised
  (`Sound`; lemma `AdmittedMeans`, over the three orders of checks); an effect of the present call
  was made by a gateway past the provider; Python and TypeScript announced its grant
  before; and what ended in TypeScript is closed in its log.
* `GatewayTypes` — `TypeOK` — and `GatewaysAlwaysAgree` — `GatewaysAgree`, by
  `StagesInv`: where a gateway is with the present call and what it answered follows from
  the request, the configuration and the provider's behaviour alone, Go's ledger aside.
  Outside the known differences the three admissions come to the same questions
  (`ChecksMean`, `AdmissionMeans`) and the providers' answers are judged alike, so the
  list in `KnownDifference` is complete for every request the model can express, not only
  for the 36 of the run. The proof found one entry missing from it: a Python gateway given another key than
  the other two, which no configuration of the run has.
* The lemma `DescriptionDriftIsObserved` says of the bridge that a change of only the
  description keeps the capability's identity and is what `observation_changed` reports.

**`DelegationProofs`**, for any providers, scopes, plans and brokers:

* `DelegationTypes` — `TypeOK`, which includes that a line of grants only looks back and
  that a chain names its five actors in order; inductive by itself.
* `AuthorityNeverWidens` — `NeverWidens`, which is inductive by itself: every mint with a
  parent has passed `attenuate`.
* `CredentialsAreBound` — `CredentialsStayHome`, by `CredentialInv`: names drawn so far
  are at most `serial`, two calls with one credential are one call, and a committed call
  passed the audience check.
* `TrailAlwaysExplains` — `TrailExplains`, inductive by itself; `TrailInv` only names its
  three parts.
* `SuccessMeansComplete` — `SuccessIsComplete`, by `SuccessInv`: the run's phase bounds
  what was shown and approved, a commit is of a step already handled, and while nothing
  was refused every handled step was committed by exactly one call. The lemma
  `SmallestNumber` (the loops take the first step left) rests on the well-foundedness of
  the naturals from the library.

**`CommandsProofs`**, for every set of templates, parameters and allowlists, paths of any
length, and any number of changes after approval:

* `CommandTypes` — `TypeOK` — and `ApprovedArgvRuns`: what is run is the argv that was
  approved, and its paths passed the check. From `ApprovedInv` (what an approval is for,
  and that it allows exactly what the check admitted) and `RanInv` (nothing runs
  unapproved). The parameters of the moment play no part, which is the point of the hash.
* `ParametersAgainstArgv` — `ModesDifferAsKnown`: the values of path holes are elements of
  the argv, and a string in a path hole is one of those values (lemma
  `ValuesAreArguments`), whatever `Admits` says of them.
* `NormalForm` — for every list of components, what `NormalizeParts` computes in one pass
  is `Place`, what its definition keeps; without a root it may start with `..` instead,
  and then the path climbs above where it started. After every component the names
  gathered are those kept so far, in order. That needs `Counted`: from a kept name on, as
  many more names were entered than left as are kept, so that `..` takes back the last
  one and leaves the others.
* `SandboxHolds` — `StaysInSandbox` — and `VerdictsHold` — `VerdictsAreExact`, from
  `NormalForm` and one lemma for each comparison (`PythonIsExact` for Python and Go,
  `TypeScriptIsExact`, `RustIsExact`), with exactly the exceptions the property names.

The induction behind `NormalForm` does without the library's induction theorems, whose
operator parameter the backends cannot instantiate: `UpwardInduction` is about a *set* of
numbers, from the well-foundedness of the naturals (`WFMin`), and each use defines the set
of the prefixes for which the claim holds. That the recursive function exists is proved
the same way (`UpToExists`). `SmallestNumber` in `DelegationProofs` has the same root.

The proofs assume only what the modules' `ASSUME`s say: in `PlanApply`, `StepsOf` gives
every plan a sequence of steps, the TTLs are naturals and the grant's is positive, and
`None` is nobody's name; in `TsEngine`, the same, and that `Faults` are among those of the
`Provider` interface; in `Tasks`, `None` is no grant and no subject; in `Gateways`, there
is a request, times and bounds are naturals, and behaviours are among the six; in
`Delegation`, plans are sequences of steps and audiences, also those bound by mistake,
strings; in `Commands`, templates are sequences, and what parameters and allowlists name
are paths. TLC evaluates them in every run.

Only model-checked: `Answered`, a liveness property under fairness, which is beyond the
proof system. The four properties expected to be violated are refuted by TLC's
counterexamples.

## 6. What is not modelled, and why

* Signatures, hashes and key handling are ideal: what the modules ask is what the program
  does around them. A plan hash is a name for a list of steps. Key encodings, the HMAC
  fallback and canonical JSON (strings and doubles, character by character) are left to
  the conformance vectors.
* `PlanApply`'s and `TsEngine`'s manifests are the servers' own, so their verification
  succeeds there; `Gateways` is where it can fail. Header checks compare constants of the
  server and change nothing.
* Arguments are flat objects in `Gateways`: nested schemas are data no property reads.
* `InvokeOBO` of Go is `Invoke` with a chain and an exchange carried through. Rust has no
  pipeline; its policy and grant functions are compared by the conformance vectors. The
  Go, TypeScript and Rust delegation libraries are the same four pure checks as Python's.
* `interface.py` compares two schemas as data. What a program run by a command prints, its
  exit code and its timeout are left out.
* Nothing is persisted over a restart, so a crash is the end of a behaviour.
* The wall clock does not run backwards. Go formats expiries to whole seconds, which
  never makes a grant with a TTL of at least one second expire early.
* An approval is never consumed, and a plan hash does not say which proposal the user
  saw: the code allows one approval to serve several applies, and an approval to reach
  an identical proposal of another subject stored since. The ledger allows exactly
  that, so these are stated, not hidden.
* The TypeScript provider may never settle; no liveness is claimed of the engine.
* `Put` (Go) and `put`, `revokeGrant` (TypeScript) load test vectors into a task store
  and are not operations of a server.
* Demos (but for `demo_obo.py`), clients, examples and vector generators call the parts
  above once, in order, and print.
