------------------------------- MODULE Gateways -------------------------------
(***************************************************************************)
(* One capability call through the gateway libraries that run it from end  *)
(* to end: Gateway.invoke of Python (vcp_gateway/gateway.py), Invoke of Go *)
(* (go/gateway/invoke.go) and invoke of TypeScript (gateway/src/invoke.ts).*)
(* Rust has no such function.                                              *)
(*                                                                         *)
(* The three receive the same request, and the providers behind them       *)
(* behave alike, so that what one serves can be compared with the others.  *)
(* They share nothing, so any interleaving of their steps is equivalent to *)
(* one after the other: that is the order taken here.  Dry runs (Python    *)
(* only) are in PlanApply; a hash of arguments is the arguments.           *)
(***************************************************************************)
EXTENDS Integers, Sequences, FiniteSets, Manifests, VcpPolicy

CONSTANTS
    Requests,     \* the requests a host may make
    Configs,      \* the trust configurations a deployment may have
    ManifestKey,  \* the key manifests are verified with
    Behaviours,   \* what a provider may do with a call
    GrantTtl,     \* default_expires_in_seconds
    MaxCalls      \* bound: the calls a host makes

ASSUME GatewaysAssumption ==
    /\ Requests # {}
    /\ \A r \in Requests : r.now \in Nat
    /\ GrantTtl \in Nat \ {0}
    /\ MaxCalls \in Nat
    /\ Behaviours \subseteq {"honest", "fails", "failsLate", "wrongResult",
                             "wrongCall", "unsigned"}

VARIABLES
    config,      \* the trust configuration
    made,        \* how many calls were made
    request,     \* the request of the current call
    behaviour,   \* what the providers do with it
    pc,          \* pc[l]: where gateway l is with it
    answer,      \* answer[l]: what the provider behind l returned
    outcome,     \* outcome[l]: what gateway l returned
    callCounts,  \* Gateway.callCounts (Go), by grant id
    committed,   \* history: the effects the providers committed
    audit        \* the audit events, of all gateways

vars == <<config, made, request, behaviour, pc, answer, outcome, callCounts,
          committed, audit>>

Gateways == {"python", "go", "typescript"}

-------------------------------------------------------------------------------
(* Checks.  Each yields "OK" or a reason code.                             *)

(* validate_arguments, for a flat object: arguments map names to the JSON  *)
(* types of their values.                                                  *)
TypeMatches(value, type) == value = type \/ (type = "number" /\ value = "integer")
ValidateArguments(args, schema) ==
    LET declared == DOMAIN schema.properties IN
    IF schema.closed /\ ~(DOMAIN args \subseteq declared)
        THEN "ADDITIONAL_PROPERTIES_FORBIDDEN"
    ELSE IF ~(schema.required \subseteq DOMAIN args)
        THEN "REQUIRED_PROPERTY_MISSING"
    ELSE IF \E p \in declared \intersect DOMAIN args :
                ~TypeMatches(args[p], schema.properties[p])
        THEN "SCHEMA_VALIDATION_FAILED"
    ELSE "OK"

Class(r) == r.manifest.body.effects.class

(* The capability a call is for: Go takes the id it computed, the others   *)
(* the one they compared with theirs.                                      *)
Capability(l, r) ==
    IF l = "go" THEN CapabilityId(ExtractContract(r.manifest.body))
    ELSE r.manifest.body.id

(* DefaultPolicy.decide (Python)                                           *)
PythonPolicy(r) ==
    LET verdict == Decide(Class(r), r.flows, r.approval, r.plan)
    IN IF verdict.decision = "allow" THEN "OK" ELSE verdict.reason

Irreversible == {"write-reversible", "write-irreversible"}

(* DefaultPolicy.Decide (Go): the sink is what the flow declares, the      *)
(* effect what the caller declares.                                        *)
GoPolicy(r) ==
    IF \E f \in r.flows : FlowDenied(f.classification, f.sink)
        THEN "DATA_FLOW_FORBIDDEN"
    ELSE IF r.effect \in Irreversible
            /\ (~r.approval.given \/ r.approval.plan # r.plan)
        THEN "APPROVAL_REQUIRED"
    ELSE "OK"

(* DefaultPolicy.decide (TypeScript): the sink is what the destination     *)
(* says, and the host's yes is taken for the plan of the call.             *)
TypeScriptSinks == {"slack.post_message", "email.send", "http.post"}
TypeScriptPolicy(r) ==
    IF \E f \in r.flows :
            FlowDenied(f.classification,
                       IF f.to \in TypeScriptSinks THEN "external" ELSE "internal")
        THEN "DATA_FLOW_FORBIDDEN"
    ELSE IF Class(r) \in Irreversible /\ ~r.approval.given
        THEN "APPROVAL_REQUIRED"
    ELSE "OK"

(* verify_environment_attestation without a key, as all three have it.     *)
Appraise(r) ==
    IF ~r.manifest.body.effects.requires_attestation THEN "OK"
    ELSE IF ~r.statement.given THEN "ATTESTATION_REQUIRED"
    ELSE IF \/ r.statement.nonce # r.challenge
            \/ r.statement.build \notin config.builds
            \/ r.now >= r.statement.expires
        THEN "ATTESTATION_INVALID"
    ELSE "OK"

(* Go refuses a statement its key did not sign before anything else;       *)
(* TypeScript one that another key signed, but not an unsigned one; Python *)
(* passes no key.                                                          *)
BadlySigned(l, r) ==
    /\ r.manifest.body.effects.requires_attestation
    /\ r.statement.given
    /\ config.attester # Absent
    /\ r.statement.by # config.attester
    /\ \/ l = "go"
       \/ l = "typescript" /\ r.statement.by # Absent
AppraiseSigned(l, r) ==
    IF BadlySigned(l, r) THEN "ATTESTATION_INVALID" ELSE Appraise(r)

(* verify_grant                                                            *)
VerifyGrant(l, grant, r, callIndex) ==
    IF grant.audience # Capability(l, r) THEN "AUDIENCE_MISMATCH"
    ELSE IF grant.args # r.args THEN "ARGUMENT_HASH_MISMATCH"
    ELSE IF callIndex >= 1 THEN "MAX_CALLS_EXCEEDED"
    ELSE IF r.now >= grant.expires THEN "GRANT_EXPIRED"
    ELSE "OK"

(* verify_attestation, by what is wrong with the answer.  Python checks    *)
(* the signature when it was given a key.                                  *)
VerifyAttestation(l, ans) ==
    CASE ans = "wrongCall"   -> "ATTESTATION_ARGUMENT_MISMATCH"
      [] ans = "wrongResult" -> "RESULT_HASH_MISMATCH"
      [] ans = "unsigned"    -> IF l = "python" /\ ~config.checksProvider
                                THEN "OK" ELSE "ATTESTATION_SIGNATURE_INVALID"
      [] OTHER               -> "OK"

-------------------------------------------------------------------------------
(* Admission: everything before the grant, in each gateway's order.        *)

Check(event, code) == [event |-> event, code |-> code]
Passed == Check("none", "OK")

(* The first check that fails. *)
FirstFailure(checks) ==
    LET failed == {i \in DOMAIN checks : checks[i].code # "OK"} IN
    IF failed = {} THEN Passed
    ELSE checks[CHOOSE i \in failed : \A j \in failed : i <= j]

PythonAdmission(r) == FirstFailure(<<
    Check("vcp.policy.denied",
          PythonVerifyManifest(r.manifest, config.pythonKey, config.trusted)),
    Check("vcp.policy.denied",
          ValidateArguments(r.args, r.manifest.body.surface)),
    Check("vcp.policy.denied", PythonPolicy(r)),
    Check("vcp.attestation.rejected", Appraise(r)) >>)

GoAdmission(r) == FirstFailure(<<
    Check("vcp.manifest.rejected",
          GoVerifyManifest(r.manifest, ManifestKey, config.trusted)),
    Check("vcp.policy.denied", GoPolicy(r)),
    Check("vcp.attestation.rejected", AppraiseSigned("go", r)) >>)

TypeScriptAdmissionUnattested(r) ==  \* mutant: the gate of section 27 is gone
    FirstFailure(<<
    Check("vcp.policy.denied",
          TypeScriptVerifyManifest(r.manifest, ManifestKey, config.trusted)),
    Check("vcp.policy.denied", TypeScriptPolicy(r)) >>)
TypeScriptAdmission(r) == FirstFailure(<<
    Check("vcp.policy.denied",
          TypeScriptVerifyManifest(r.manifest, ManifestKey, config.trusted)),
    Check("vcp.policy.denied", TypeScriptPolicy(r)),
    Check("vcp.policy.denied", AppraiseSigned("typescript", r)) >>)

Admission(l, r) ==
    CASE l = "python"     -> PythonAdmission(r)
      [] l = "go"         -> GoAdmission(r)
      [] l = "typescript" -> TypeScriptAdmission(r)

(* mint_grant: Go names the grant after the arguments alone; the others    *)
(* draw a fresh id.                                                        *)
MintGrant(l, r) ==
    [id |-> IF l = "go" THEN r.args ELSE [gateway |-> l, call |-> made],
     audience |-> Capability(l, r), args |-> r.args, plan |-> r.plan,
     effect |-> IF l = "go" THEN r.effect ELSE Class(r),
     expires |-> r.now + GrantTtl]

(* The use of the grant that verify_grant is asked about.                  *)
CallIndex(l, grant) == IF l = "go" THEN callCounts[grant.id] ELSE 0

-------------------------------------------------------------------------------
Entry(l, event, reason) ==
    [by |-> l, call |-> made, event |-> event, reason |-> reason]
Events ==
    {"vcp.manifest.rejected", "vcp.policy.denied", "vcp.attestation.rejected",
     "vcp.grant.minted", "vcp.grant.rejected", "vcp.capability.invoked"}

Init ==
    /\ config \in Configs
    /\ made = 0
    /\ request = CHOOSE r \in Requests : TRUE  \* no call was made yet
    /\ behaviour = "honest"
    /\ pc = [l \in Gateways |-> "done"]
    /\ answer = [l \in Gateways |-> "none"]
    /\ outcome = [l \in Gateways |-> "none"]
    /\ callCounts = [args \in {r.args : r \in Requests} |-> 0]
    /\ committed = {}
    /\ audit = {}

(* The host makes the next call, at each gateway.                          *)
Submit(r, b) ==
    /\ made < MaxCalls
    /\ \A l \in Gateways : pc[l] = "done"
    /\ made' = made + 1
    /\ request' = r
    /\ behaviour' = b
    /\ pc' = [l \in Gateways |-> "submitted"]
    /\ answer' = [l \in Gateways |-> "none"]
    /\ outcome' = [l \in Gateways |-> "none"]
    /\ UNCHANGED <<config, callCounts, committed, audit>>

Turn(l) ==
    /\ l # "python" => pc["python"] = "done"
    /\ l = "typescript" => pc["go"] = "done"

Return(l, code) ==
    /\ pc' = [pc EXCEPT ![l] = "done"]
    /\ outcome' = [outcome EXCEPT ![l] = code]

Log(entries) == audit' = audit \union entries

(* A check fails: one audit event, no grant.                               *)
Refuse(l) ==
    LET failure == Admission(l, request) IN
    /\ Turn(l) /\ pc[l] = "submitted"
    /\ failure # Passed
    /\ Log({Entry(l, failure.event, failure.code)})
    /\ Return(l, failure.code)
    /\ UNCHANGED <<config, made, request, behaviour, answer, callCounts, committed>>

(* Python and TypeScript announce the grant they minted.                   *)
UnannouncedEvents(l) ==  \* mutant: the grant is not announced
    {}
MintedEvents(l) ==
    IF l = "go" THEN {} ELSE {Entry(l, "vcp.grant.minted", "OK")}

GrantVerdict(l) ==
    LET grant == MintGrant(l, request)
    IN VerifyGrant(l, grant, request, CallIndex(l, grant))

(* Go has already charged these arguments.  The verdict of a grant minted  *)
(* in this very call with an id of its own is OK in the other two.         *)
RefuseReplay ==
    /\ Turn("go") /\ pc["go"] = "submitted"
    /\ Admission("go", request) = Passed
    /\ GrantVerdict("go") # "OK"
    /\ Log({Entry("go", "vcp.grant.rejected", GrantVerdict("go"))})
    /\ Return("go", GrantVerdict("go"))
    /\ UNCHANGED <<config, made, request, behaviour, answer, callCounts, committed>>

(* The grant is good: Go charges its use, and the provider is called.      *)
ChargeLate(l) ==  \* mutant: the use is not charged before the provider answers
    UNCHANGED callCounts
ChargeBack(l) ==  \* mutant: the count goes the wrong way
    callCounts' = IF l = "go" THEN [callCounts EXCEPT ![request.args] = @ - 1]
                  ELSE callCounts
Charge(l) ==
    callCounts' = IF l = "go" THEN [callCounts EXCEPT ![request.args] = @ + 1]
                  ELSE callCounts

Call(l) ==
    /\ Turn(l) /\ pc[l] = "submitted"
    /\ Admission(l, request) = Passed
    /\ GrantVerdict(l) = "OK"
    /\ Charge(l)
    /\ Log(MintedEvents(l))
    /\ pc' = [pc EXCEPT ![l] = "calling"]
    /\ UNCHANGED <<config, made, request, behaviour, answer, outcome, committed>>

-------------------------------------------------------------------------------
(* The provider: InMemoryProvider in Python and Go, which serve one        *)
(* capability, SampleCalendarProvider in TypeScript, which serves any.     *)

Declines(l) ==
    \/ behaviour = "fails"
    \/ l \in {"python", "go"} /\ ~request.serves

Decline(l) ==
    /\ pc[l] = "calling"
    /\ Declines(l)
    /\ answer' = [answer EXCEPT ![l] = "error"]
    /\ pc' = [pc EXCEPT ![l] = "returned"]
    /\ UNCHANGED <<config, made, request, behaviour, outcome, callCounts,
                   committed, audit>>

Execute(l) ==
    /\ pc[l] = "calling"
    /\ ~Declines(l)
    /\ committed' = committed \union {[by |-> l, call |-> made, args |-> request.args]}
    /\ answer' = [answer EXCEPT ![l] =
                    IF behaviour = "failsLate" THEN "error" ELSE behaviour]
    /\ pc' = [pc EXCEPT ![l] = "returned"]
    /\ UNCHANGED <<config, made, request, behaviour, outcome, callCounts, audit>>

-------------------------------------------------------------------------------
(* The gateway again.                                                      *)

AnsweredWell(l) ==
    answer[l] # "error" /\ VerifyAttestation(l, answer[l]) = "OK"

Serve(l) ==
    /\ pc[l] = "returned"
    /\ AnsweredWell(l)
    /\ Log({Entry(l, "vcp.capability.invoked", "OK")})
    /\ Return(l, "OK")
    /\ UNCHANGED <<config, made, request, behaviour, answer, callCounts, committed>>

(* The attestation does not verify: the result is discarded, and said so.  *)
Discard(l) ==
    LET reason == VerifyAttestation(l, answer[l]) IN
    /\ pc[l] = "returned"
    /\ answer[l] # "error"
    /\ ~AnsweredWell(l)
    /\ Log({Entry(l, "vcp.attestation.rejected", reason)})
    /\ Return(l, reason)
    /\ UNCHANGED <<config, made, request, behaviour, answer, callCounts, committed>>

(* The provider failed: TypeScript catches it and logs a denial; in Python *)
(* the exception, in Go the error, goes to the caller and nothing is said. *)
UncaughtEvents(l) ==  \* mutant: the catch of invoke.ts is gone
    {}
ProviderErrorEvents(l) ==
    IF l = "typescript" THEN {Entry(l, "vcp.policy.denied", "PROVIDER_ERROR")} ELSE {}

Propagate(l) ==
    /\ pc[l] = "returned"
    /\ answer[l] = "error"
    /\ Log(ProviderErrorEvents(l))
    /\ Return(l, "PROVIDER_ERROR")
    /\ UNCHANGED <<config, made, request, behaviour, answer, callCounts, committed>>

Next ==
    \/ \E r \in Requests, b \in Behaviours : Submit(r, b)
    \/ RefuseReplay
    \/ \E l \in Gateways :
        \/ Refuse(l)
        \/ Call(l)
        \/ Decline(l)
        \/ Execute(l)
        \/ Serve(l)
        \/ Discard(l)
        \/ Propagate(l)

Spec == Init /\ [][Next]_vars

-------------------------------------------------------------------------------
(* Properties.                                                             *)

TypeOK ==
    /\ config \in Configs
    /\ made \in 0..MaxCalls
    /\ request \in Requests
    /\ behaviour \in Behaviours \union {"honest"}
    /\ pc \in [Gateways -> {"submitted", "calling", "returned", "done"}]
    /\ answer \in [Gateways -> Behaviours \union {"none", "error"}]
    /\ DOMAIN outcome = Gateways
    /\ callCounts \in [{r.args : r \in Requests} -> Nat]
    /\ committed \subseteq [by : Gateways, call : 1..MaxCalls,
                            args : {r.args : r \in Requests}]
    /\ \A e \in audit :
        e.by \in Gateways /\ e.call \in 1..MaxCalls /\ e.event \in Events

(* The Go gateway lets an effect happen at most once for given arguments,  *)
(* in all its life: whatever the provider did with the first call, a       *)
(* failure included, and whatever the plan and the capability of the next. *)
(* (Gateway.callCounts, charged before the provider is called.)            *)
GoCommitsArgumentsOnce ==
    \A x, y \in committed :
        x.by = "go" /\ y.by = "go" /\ x.args = y.args => x = y

EventsOf(l, call) == {e.event : e \in {a \in audit : a.by = l /\ a.call = call}}
Ended(l, call) == call < made \/ (call = made /\ pc[l] = "done")

(* An effect leaves a trace: once the call is over, its gateway's audit    *)
(* names it.  The exception is Go, when the provider committed and then    *)
(* reported an error: nothing was logged before and nothing is logged      *)
(* then.                                                                   *)
CommitLeavesTrace ==
    \A c \in committed : Ended(c.by, c.call) =>
        \/ EventsOf(c.by, c.call) # {}
        \/ c.by = "go" /\ (c.call = made => outcome["go"] = "PROVIDER_ERROR")

(* TypeScript never leaves a grant open in its log: a call that announced  *)
(* a grant ends with the event that says what became of it.                *)
TypeScriptClosesGrants ==
    \A call \in 1..made :
        Ended("typescript", call) /\ "vcp.grant.minted" \in EventsOf("typescript", call) =>
            EventsOf("typescript", call) \intersect
                {"vcp.policy.denied", "vcp.attestation.rejected",
                 "vcp.capability.invoked"} # {}

(* What the three are known to treat differently.                          *)
SinkAgreed(f) ==
    /\ f.sink \in {"none", SinkKind(f.to)}
    /\ (SinkOf(f) = "external") <=> (f.sink = "external")
    /\ (SinkOf(f) = "external") <=> (f.to \in TypeScriptSinks)
KnownDifference(r) ==
    \* The command block is hashed by TypeScript alone.
    \/ r.manifest.body.kind = "command"
    \* Go does not ask for an identity its author left empty.
    \/ Blank \in {r.manifest.body.contract_hash, r.manifest.body.id}
    \* Python checks a signature or an issuer it was given a key or set for,
    \* and it may have been given another key than the others.
    \/ config.pythonKey = Absent \/ config.pythonKey # ManifestKey
    \/ ~config.trusted.given
    \/ behaviour = "unsigned" /\ ~config.checksProvider
    \* The signature of an environment statement: see BadlySigned.
    \/ config.attester # Absent /\ r.statement.by # config.attester
    \* Python alone validates arguments, reads the labels of flows and asks
    \* for an approval of a write-idempotent effect.
    \/ ValidateArguments(r.args, r.manifest.body.surface) # "OK"
    \/ TaintsAuthority(r.flows)
    \/ Class(r) = "write-idempotent"
    \* Three ways to tell the sink of a flow.
    \/ \E f \in r.flows : ~SinkAgreed(f)
    \* Go believes the caller's effect; TypeScript has no plan in its yes.
    \/ r.effect # Class(r)
    \/ r.approval.given /\ r.approval.plan # r.plan
    \* The sample provider of TypeScript serves any capability.
    \/ ~r.serves
    \* Go alone remembers.
    \/ outcome["go"] = "MAX_CALLS_EXCEEDED"

(* But for these differences, and the model tells no other apart, the      *)
(* three serve the same requests, refuse the same requests, and commit the *)
(* same effects.                                                           *)
GatewaysAgree ==
    (\A l \in Gateways : pc[l] = "done") /\ made > 0 /\ ~KnownDifference(request) =>
        \A l, k \in Gateways :
            /\ outcome[l] = "OK" => outcome[k] = "OK"
            /\ (\E c \in committed : c.by = l /\ c.call = made) =>
                    \E c \in committed : c.by = k /\ c.call = made

(* What the manifest says of itself covers its own fields.                 *)
IdentityCovers(body) ==
    \E contract \in {ExtractContract(body), CommandContract(body, body.command)} :
        body.contract_hash = contract \/ body.id = CapabilityId(contract)

(* No gateway lets an effect happen for a manifest that was changed on the *)
(* way, in its effect class, its need for attestation or its schema: the   *)
(* identity it claims covers these, or it claims none and is served by Go  *)
(* on the strength of the signature; where the gateway has a key to check, *)
(* the manifest is the one that was signed.  And an environment that has   *)
(* to be attested was, for this call.                                      *)
EffectsAsPublished ==
    LET manifest == request.manifest IN
    \A c \in committed : c.call = made =>
        /\ \/ IdentityCovers(manifest.body)
           \/ /\ c.by = "go"
              /\ manifest.body.contract_hash = Blank /\ manifest.body.id = Blank
        /\ c.by \in {"go", "typescript"} => VerifyDocument(manifest, ManifestKey)
        /\ c.by = "python" /\ config.pythonKey # Absent =>
                VerifyDocument(manifest, config.pythonKey)
        /\ manifest.body.effects.requires_attestation =>
                /\ request.statement.given
                /\ request.statement.nonce = request.challenge
                /\ request.statement.build \in config.builds

-------------------------------------------------------------------------------
(* What the source says of itself and the code does not do.                *)

(* verify.py: "Recompute contract_hash and confirm it matches              *)
(* capability.id"; command.py: the command block is "appended to the       *)
(* contract before hashing".  Here: a command manifest that the SDK built  *)
(* and signed with the trusted key has an intact identity for Python.      *)
CommandManifestsVerify ==
    request.manifest.body.kind = "command" /\ VerifyDocument(request.manifest, ManifestKey) =>
            outcome["python"] \notin {"CONTRACT_HASH_MISMATCH", "CAPABILITY_ID_MISMATCH"}
===============================================================================
