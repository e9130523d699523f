-------------------------------- MODULE TsEngine --------------------------------
(***************************************************************************)
(* The plan / approve / apply cycle of the TypeScript gateway              *)
(* (typescript/packages/server/src/engine.ts) with its policy              *)
(* (packages/gateway/src/policy.ts, taint.ts) and its capabilities         *)
(* (packages/server/src/manifests.ts, setup.ts).                           *)
(*                                                                         *)
(* One thread runs every request; a handler gives way to the others at     *)
(* each `await`.  An action is what a handler does between two accesses to *)
(* what handlers share: the Map of stored plans and the objects in it, the *)
(* audit log, the provider and the clock.  An await between which nothing  *)
(* of this is touched (the policy's, the signer's) does not split an       *)
(* action.                                                                 *)
(*                                                                         *)
(* apply keeps a REFERENCE to the stored plan, so the objects have         *)
(* identities here: object c is the one the plan request c stored.         *)
(***************************************************************************)
EXTENDS Integers, Sequences, FiniteSets, VcpPolicy

CONSTANTS
    Calls,      \* the plan and apply requests the server ever receives
    Plans,      \* plan hashes
    StepsOf,    \* the list of steps a plan hash is the hash of
    Faults,     \* what the provider may do wrong: {} for the sample provider
    GrantTtl,   \* DefaultPolicy's expires_in_seconds
    MaxClock,   \* bound: the clock stops here
    User,       \* EngineDeps.subject
    None

VARIABLES
    clock,
    plans,      \* GatewayEngine.#plans: the object of each plan hash
    stored,     \* the StoredPlan objects, by the request that made them
    call,       \* the handlers
    audit,      \* GatewayEngine.#audit
    executed    \* what provider.invoke was called with

vars == <<clock, plans, stored, call, audit, executed>>

-------------------------------------------------------------------------------
(* Capabilities.                                                           *)

ReadCaps  == {"email.search", "email.read", "calendar.find_free_slots"}
WriteCaps == {"calendar.create_event", "email.forward"}
Capabilities == ReadCaps \union WriteCaps

EffectClass(cap) ==
    CASE cap \in ReadCaps               -> ReadOnly
      [] cap = "calendar.create_event"  -> "write-reversible"
      [] cap = "email.forward"          -> "write-irreversible"

SupportsDryRun(cap) == cap = "calendar.create_event"

Consume == [label : Labels, authorizes : BOOLEAN, classification : Classifications]
Step == [cap : STRING, argsValid : BOOLEAN, consumesValid : BOOLEAN,
         consumes : Seq(Consume)]

ASSUME TsPlanAssumption == StepsOf \in [Plans -> Seq(Step)]
ASSUME TsFaultAssumption == Faults \subseteq {"throws", "unverified"}
ASSUME TsTtlAssumption == GrantTtl \in Nat \ {0} /\ MaxClock \in Nat
ASSUME TsNoneAssumption == None \notin Calls \union Plans \union {User}

-------------------------------------------------------------------------------
(* What a step is, before any state is looked at.                          *)

Known(s) == s.cap \in Capabilities

(* consumes that are no list make authorizingLabel or deriveDataFlows      *)
(* throw.                                                                  *)
Raises(s) == Known(s) /\ s.argsValid /\ ~s.consumesValid

(* authorizingLabel: the FIRST consume that is flagged; checkAuthority.    *)
Authorizing(s) == {i \in DOMAIN s.consumes : s.consumes[i].authorizes}
AuthorityIsTainted(s) ==
    \E i \in Authorizing(s) :
        /\ \A j \in Authorizing(s) : i <= j
        /\ s.consumes[i].label \in Untrusted

(* classifySink of deriveDataFlows: every flow of a step goes to its own   *)
(* capability.                                                             *)
ExternalSink(cap) == cap = "email.forward"
LeaksData(s) ==
    /\ ExternalSink(s.cap)
    /\ \E i \in DOMAIN s.consumes : s.consumes[i].classification \in Restricted

(* DefaultPolicy.decide.  The approval the engine passes is always for the *)
(* plan hash it asks about, so APPROVAL_PLAN_MISMATCH cannot be the answer.*)
PolicyAnswer(s, approved) ==
    IF LeaksData(s) THEN "DATA_FLOW_FORBIDDEN"
    ELSE IF IsWrite(EffectClass(s.cap)) /\ ~approved THEN "APPROVAL_REQUIRED"
    ELSE "allow"

(* evaluateStep: the disposition of a step at plan time. *)
Blocked(s) ==
    Known(s) /\ s.argsValid =>
        \/ IsWrite(EffectClass(s.cap)) /\ AuthorityIsTainted(s)
        \/ PolicyAnswer(s, FALSE) \notin {"allow", "APPROVAL_REQUIRED"}
NeedsApproval(s) == ~Blocked(s) /\ PolicyAnswer(s, FALSE) = "APPROVAL_REQUIRED"

-------------------------------------------------------------------------------
(* State.                                                                  *)

PCs == {"idle", "step", "dry", "verify", "answer", "done", "aborted"}

Outcomes == {"none", "ok", "blocked", "refused", "DATA_FLOW_FORBIDDEN",
             "APPROVAL_REQUIRED", "GRANT_EXPIRED", "throws", "unverified"}

Call == [pc : PCs, op : {"none", "plan", "apply"}, plan : Plans \union {None},
         version : Calls \union {None}, requires : BOOLEAN, step : Nat \ {0},
         expires : Nat, outcome : Outcomes]

StoredPlan == [plan : Plans, requires : BOOLEAN, approved : BOOLEAN]
NoStored   == [plan |-> None, requires |-> FALSE, approved |-> FALSE]

Event == [event : {"vcp.plan.allowed", "vcp.plan.dry_run", "vcp.policy.denied",
                   "vcp.grant.minted", "vcp.capability.invoked",
                   "vcp.attestation.rejected"},
          call : Calls, step : Nat \ {0}]

Execution == [call : Calls, step : Nat \ {0}, plan : Plans, dryRun : BOOLEAN]

Idle == [pc |-> "idle", op |-> "none", plan |-> None, version |-> None,
         requires |-> FALSE, step |-> 1, expires |-> 0, outcome |-> "none"]

Init ==
    /\ clock = 0
    /\ plans = [p \in Plans |-> None]
    /\ stored = [c \in Calls |-> NoStored]
    /\ call = [c \in Calls |-> Idle]
    /\ audit = {}
    /\ executed = {}

StepsIn(c) == StepsOf[call[c].plan]
StepAt(c)  == StepsIn(c)[call[c].step]
AtStep(c, op) ==
    call[c].pc = "step" /\ call[c].op = op /\ call[c].step \in DOMAIN StepsIn(c)
StepsOver(c, op) ==
    call[c].pc = "step" /\ call[c].op = op /\ call[c].step \notin DOMAIN StepsIn(c)

Log(c, event) ==
    audit' = audit \union {[event |-> event, call |-> c, step |-> call[c].step]}
Ask(c) ==
    executed' = executed \union
        {[call |-> c, step |-> call[c].step, plan |-> call[c].plan,
          dryRun |-> call[c].op = "plan"]}
Goto(c, pc) == call' = [call EXCEPT ![c].pc = pc]
End(c, outcome) == call' = [call EXCEPT ![c].pc = "done", ![c].outcome = outcome]
NextStep(c) == call' = [call EXCEPT ![c].pc = "step", ![c].step = @ + 1]

-------------------------------------------------------------------------------
(* plan                                                                    *)

BeginPlan(c, p) ==
    /\ call[c].pc = "idle"
    /\ call' = [call EXCEPT ![c] = [Idle EXCEPT !.pc = "step", !.op = "plan",
                                                !.plan = p, !.version = c]]
    /\ UNCHANGED <<clock, plans, stored, audit, executed>>

(* An exception, of evaluateStep or of the provider it dry-runs with,      *)
(* leaves plan: 500 INTERNAL.                                              *)
AbortPlan(c) ==
    /\ \/ AtStep(c, "plan") /\ Raises(StepAt(c))
       \/ call[c].pc = "dry" /\ "throws" \in Faults
    /\ Goto(c, "aborted")
    /\ UNCHANGED <<clock, plans, stored, audit, executed>>

(* A blocked step ends the plan: later steps are not evaluated and nothing *)
(* is stored.                                                              *)
AfterBlockGoesOn(c) ==  \* mutant: goes on with the other steps
    NextStep(c)
AfterBlock(c) == End(c, "blocked")

BlockStep(c) ==
    /\ AtStep(c, "plan")
    /\ ~Raises(StepAt(c))
    /\ Blocked(StepAt(c))
    /\ Log(c, "vcp.policy.denied")
    /\ AfterBlock(c)
    /\ UNCHANGED <<clock, plans, stored, executed>>

AllowStep(c) ==
    /\ AtStep(c, "plan")
    /\ ~Raises(StepAt(c))
    /\ ~Blocked(StepAt(c))
    /\ ~NeedsApproval(StepAt(c))
    /\ Log(c, "vcp.plan.allowed")
    /\ NextStep(c)
    /\ UNCHANGED <<clock, plans, stored, executed>>

(* callProvider(step, manifest, true): under a grant that no event records *)
(* and no verifyGrant sees; the attestation of its result is not verified. *)
DryRun(c) ==
    /\ AtStep(c, "plan")
    /\ ~Raises(StepAt(c))
    /\ NeedsApproval(StepAt(c))
    /\ SupportsDryRun(StepAt(c).cap)
    /\ Ask(c)
    /\ Goto(c, "dry")
    /\ UNCHANGED <<clock, plans, stored, audit>>

(* The event vcp.plan.dry_run, whether or not the capability has one.      *)
RequireApproval(c) ==
    /\ \/ call[c].pc = "dry"
       \/ /\ AtStep(c, "plan")
          /\ ~Raises(StepAt(c))
          /\ NeedsApproval(StepAt(c))
          /\ ~SupportsDryRun(StepAt(c).cap)
    /\ Log(c, "vcp.plan.dry_run")
    /\ call' = [call EXCEPT ![c].pc = "step", ![c].step = @ + 1,
                            ![c].requires = TRUE]
    /\ UNCHANGED <<clock, plans, stored, executed>>

(* A new object takes the place of the one the Map had.                    *)
NewStoredKeeps(c) ==  \* mutant: an approved plan stays approved
    [plan |-> call[c].plan, requires |-> call[c].requires,
     approved |-> \E d \in Calls :
        d = plans[call[c].plan] /\ stored[d].approved]
NewStored(c) ==
    [plan |-> call[c].plan, requires |-> call[c].requires, approved |-> FALSE]

StorePlan(c) ==
    /\ StepsOver(c, "plan")
    /\ stored' = [stored EXCEPT ![c] = NewStored(c)]
    /\ plans' = [plans EXCEPT ![call[c].plan] = c]
    /\ End(c, "ok")
    /\ UNCHANGED <<clock, audit, executed>>

-------------------------------------------------------------------------------
(* approve                                                                 *)

Approve(p) ==
    /\ plans[p] # None
    /\ stored' = [stored EXCEPT ![plans[p]].approved = TRUE]
    /\ UNCHANGED <<clock, plans, call, audit, executed>>

-------------------------------------------------------------------------------
(* apply                                                                   *)

AdmissibleAlways(p) ==  \* mutant: apply leaves the approval to the policy
    plans[p] # None
Admissible(p) ==
    /\ plans[p] # None
    /\ stored[plans[p]].requires => stored[plans[p]].approved

(* UNKNOWN_PLAN or PLAN_NOT_APPROVED. *)
RefuseApply(c, p) ==
    /\ call[c].pc = "idle"
    /\ ~Admissible(p)
    /\ End(c, "refused")
    /\ UNCHANGED <<clock, plans, stored, audit, executed>>

Admit(c, p) ==
    /\ call[c].pc = "idle"
    /\ Admissible(p)
    /\ call' = [call EXCEPT ![c] = [Idle EXCEPT !.pc = "step", !.op = "apply",
                                        !.plan = p, !.version = plans[p]]]
    /\ UNCHANGED <<clock, plans, stored, audit, executed>>

(* invokeStep asks the policy again, with what the object says NOW. *)
InvokeAnswer(c) == PolicyAnswer(StepAt(c), stored[call[c].version].approved)

ExpiryPast(c) ==  \* mutant: the sign of the TTL
    clock - GrantTtl
Expiry(c) == clock + GrantTtl

MintGrant(c) ==
    /\ AtStep(c, "apply")
    /\ InvokeAnswer(c) = "allow"
    /\ Log(c, "vcp.grant.minted")
    /\ call' = [call EXCEPT ![c].pc = "verify", ![c].expires = Expiry(c)]
    /\ UNCHANGED <<clock, plans, stored, executed>>

(* verifyGrant with a fresh Date. *)
GrantLive(c) == clock < call[c].expires

(* The policy or verifyGrant says no: apply ends here, and what the steps  *)
(* before did is not in the answer.                                        *)
Refusals(c) ==
    IF AtStep(c, "apply") THEN {InvokeAnswer(c)} \ {"allow"}
    ELSE IF call[c].pc = "verify" /\ ~GrantLive(c) THEN {"GRANT_EXPIRED"}
    ELSE {}

LogRefusalOfPolicy(c) ==  \* mutant: verifyGrant's no only returns
    IF call[c].pc = "verify" THEN audit' = audit ELSE Log(c, "vcp.policy.denied")
LogRefusal(c) == Log(c, "vcp.policy.denied")

RefuseStep(c) ==
    \E reason \in Refusals(c) :
        /\ LogRefusal(c)
        /\ End(c, reason)
        /\ UNCHANGED <<clock, plans, stored, executed>>

(* provider.invoke is called in the same turn as verifyGrant. *)
Invoke(c) ==
    /\ call[c].pc = "verify"
    /\ GrantLive(c)
    /\ Ask(c)
    /\ Goto(c, "answer")
    /\ UNCHANGED <<clock, plans, stored, audit>>

RecordInvoked(c) ==
    /\ call[c].pc = "answer"
    /\ Log(c, "vcp.capability.invoked")
    /\ NextStep(c)
    /\ UNCHANGED <<clock, plans, stored, executed>>

(* The provider throws, or its attestation does not verify. *)
LogFaultSilent(c, fault) ==  \* mutant: the catch clause only returns
    IF fault = "throws" THEN audit' = audit
    ELSE Log(c, "vcp.attestation.rejected")
LogFault(c, fault) ==
    IF fault = "throws" THEN Log(c, "vcp.policy.denied")
    ELSE Log(c, "vcp.attestation.rejected")

AfterFaultGoesOn(c, fault) ==  \* mutant: goes on with the next step
    NextStep(c)
AfterFault(c, fault) == End(c, fault)

ProviderFails(c) ==
    \E fault \in Faults :
        /\ call[c].pc = "answer"
        /\ LogFault(c, fault)
        /\ AfterFault(c, fault)
        /\ UNCHANGED <<clock, plans, stored, executed>>

FinishApply(c) ==
    /\ StepsOver(c, "apply")
    /\ End(c, "ok")
    /\ UNCHANGED <<clock, plans, stored, audit, executed>>

-------------------------------------------------------------------------------

Tick ==
    /\ clock < MaxClock
    /\ clock' = clock + 1
    /\ UNCHANGED <<plans, stored, call, audit, executed>>

Arrive(c) == \E p \in Plans : BeginPlan(c, p) \/ RefuseApply(c, p) \/ Admit(c, p)

PlanTurn(c) ==
    AbortPlan(c) \/ BlockStep(c) \/ AllowStep(c) \/ DryRun(c)
        \/ RequireApproval(c) \/ StorePlan(c)
ApplyTurn(c) ==
    MintGrant(c) \/ RefuseStep(c) \/ Invoke(c) \/ RecordInvoked(c)
        \/ ProviderFails(c) \/ FinishApply(c)
Turn(c) == PlanTurn(c) \/ ApplyTurn(c)

Next ==
    \/ Tick
    \/ \E p \in Plans : Approve(p)
    \/ \E c \in Calls : Arrive(c) \/ Turn(c)

Spec == Init /\ [][Next]_vars

-------------------------------------------------------------------------------
(* Properties.                                                             *)

TypeOK ==
    /\ clock \in Nat
    /\ plans \in [Plans -> Calls \union {None}]
    /\ stored \in [Calls -> StoredPlan \union {NoStored}]
    /\ call \in [Calls -> Call]
    /\ audit \subseteq Event
    /\ executed \subseteq Execution

StepOf(e)  == StepsOf[e.plan][e.step]
Applied    == {e \in executed : ~e.dryRun}
Logged(e, event) == [event |-> event, call |-> e.call, step |-> e.step] \in audit

(* No step of a plan that evaluateStep blocked anywhere is ever applied,   *)
(* although apply checks neither authority nor capability again.           *)
BlockedNeverRuns ==
    \A e \in Applied : \A i \in DOMAIN StepsOf[e.plan] : ~Blocked(StepsOf[e.plan][i])

(* An apply that was admitted is never stopped by the policy: whatever     *)
(* happens to the plan meanwhile, only an expired grant or the provider    *)
(* ends it early.                                                          *)
AdmittedNeverChallenged ==
    \A c \in Calls :
        call[c].outcome \notin {"APPROVAL_REQUIRED", "DATA_FLOW_FORBIDDEN"}

(* The log explains every call of the provider.  One that apply made: a    *)
(* grant before, and after it, unless the provider still owes the answer,  *)
(* how it ended.  A dry run: that it was made, though not the grant thrown *)
(* away with it, unless it is under way, or threw and took plan with it:   *)
(* of that run the log knows nothing.                                      *)
Endings ==
    {"vcp.capability.invoked", "vcp.policy.denied", "vcp.attestation.rejected"}
At(e, pcs) == call[e.call].step = e.step /\ call[e.call].pc \in pcs

AuditExplains ==
    \A e \in executed :
        IF e.dryRun
        THEN Logged(e, "vcp.plan.dry_run") \/ At(e, {"dry", "aborted"})
        ELSE /\ Logged(e, "vcp.grant.minted")
             /\ At(e, {"answer"}) \/ \E event \in Endings : Logged(e, event)

(* Every grant that apply announced is accounted for: it waits for         *)
(* verifyGrant and is unused, or is with the provider; or it was used, and *)
(* the log says how that ended; or the clock overtook it, it was never     *)
(* used, and the log and the answer of apply say so.                       *)
GrantsAccounted ==
    \A e \in audit : e.event = "vcp.grant.minted" =>
        LET used == \E x \in Applied : x.call = e.call /\ x.step = e.step
        IN  \/ At(e, {"verify"}) /\ ~used
            \/ At(e, {"answer"}) /\ used
            \/ used /\ \E event \in Endings : Logged(e, event)
            \/ /\ At(e, {"done"}) /\ ~used
               /\ call[e.call].outcome = "GRANT_EXPIRED"
               /\ Logged(e, "vcp.policy.denied")

(* Steps are applied in order and up to the first failure: every step      *)
(* before an applied one was invoked with success, and an apply that       *)
(* answers ok invoked them all.                                            *)
PrefixApplied ==
    \A c \in Calls :
        /\ \A e \in Applied : e.call = c =>
            \A i \in 1..e.step - 1 : Logged([e EXCEPT !.step = i], "vcp.capability.invoked")
        /\ call[c].op = "apply" /\ call[c].outcome = "ok" =>
            \A i \in DOMAIN StepsIn(c) : \E e \in Applied :
                e.call = c /\ e.step = i /\ Logged(e, "vcp.capability.invoked")

-------------------------------------------------------------------------------
(* The ledger of consent this engine implements: the same one as the       *)
(* Python server's.  Approving a plan in which nothing needs approval is   *)
(* no consent to anything.                                                 *)

ProposalOf(v) ==
    IF v = None THEN [version |-> None, subject |-> None, consented |-> FALSE]
    ELSE [version |-> v, subject |-> User,
          consented |-> stored[v].requires /\ stored[v].approved]
TicketOf(c) ==
    IF call[c].op = "apply"
    THEN [plan |-> call[c].plan, version |-> call[c].version, subject |-> User,
          consented |-> stored[call[c].version].requires]
    ELSE [plan |-> None, version |-> None, subject |-> None, consented |-> FALSE]
CommitOf(e) == [call |-> e.call, step |-> e.step, plan |-> e.plan, subject |-> User]

Ledger == INSTANCE ConsentLedger WITH
    Subjects <- {User},
    Steps    <- UNION {DOMAIN StepsOf[p] : p \in Plans},
    ledger   <- [p \in Plans |-> ProposalOf(plans[p])],
    ticket   <- [c \in Calls |-> TicketOf(c)],
    commits  <- {CommitOf(e) : e \in {x \in Applied : IsWrite(EffectClass(StepOf(x).cap))}}

(* Every step of the engine is a step of the ledger or none: writes come   *)
(* only from applies admitted against an approved object, and planning     *)
(* again never inherits an approval.                                       *)
ImplementsLedger == Ledger!Spec

-------------------------------------------------------------------------------
(* What the source says of itself and the code does not do.                *)

(* engine.ts, evaluateStep: a step that causes a side effect or write      *)
(* "MUST NOT be authorized by untrusted_* data", by none of its consumes.  *)
TaintNeverAuthorizes ==
    \A e \in Applied : IsWrite(EffectClass(StepOf(e).cap)) =>
        \A i \in Authorizing(StepOf(e)) : StepOf(e).consumes[i].label \notin Untrusted
===============================================================================
