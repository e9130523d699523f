------------------------------- MODULE PlanApply -------------------------------
(***************************************************************************)
(* The plan / approve / apply cycle of the VCP-HTTP gateway server         *)
(* (python/vcp_server/http_server.py), with the Gateway.invoke pipeline    *)
(* its handlers call (python/vcp_gateway/gateway.py).                      *)
(*                                                                         *)
(* ThreadingHTTPServer gives every request a thread.  A thread is a call   *)
(* here: its record in `call` is the handler's local state, and each       *)
(* action is the code between two points where other threads can be seen   *)
(* or can see this one: the plan store (under VCPServerState._lock), the   *)
(* audit log, the provider and the clock.                                  *)
(***************************************************************************)
EXTENDS Integers, Sequences, FiniteSets, VcpPolicy

CONSTANTS
    Calls,      \* the plan and apply requests the server ever receives
    Plans,      \* plan hashes: one for each distinct list of steps
    StepsOf,    \* the list of steps a plan hash is the hash of
    Subjects,   \* who may be named as a plan's subject
    PlanTtl,    \* PLAN_TTL_SECONDS
    GrantTtl,   \* DefaultPolicy.default_expires_in_seconds
    MaxClock,   \* bound: the clock stops here
    None        \* no record, no plan, no subject

VARIABLES
    clock,      \* the wall clock
    plans,      \* VCPServerState._plans: the record of each plan hash
    call,       \* the handler threads
    audit,      \* AuditLog.events
    executed,   \* what the provider was asked to execute
    consented   \* history: the proposals an approval reached

vars == <<clock, plans, call, audit, executed, consented>>

-------------------------------------------------------------------------------
(* The capabilities of python/vcp_server/capabilities.py.                  *)

ReadCaps  == {"email.search", "email.read", "calendar.find_free_slots"}
WriteCaps == {"calendar.create_event", "email.forward"}
Capabilities == ReadCaps \union WriteCaps

EffectClass(cap) ==
    CASE cap \in ReadCaps               -> ReadOnly
      [] cap = "calendar.create_event"  -> "write-reversible"
      [] cap = "email.forward"          -> "write-irreversible"

(* What a client may send.  argsValid is what validate_arguments says of   *)
(* the arguments; a step whose data_flows are not objects (flowsValid      *)
(* FALSE), or whose id is not hashable, makes the handler raise.           *)
Flow == [label : Labels, authorizes : BOOLEAN, classification : Classifications,
         sink : STRING, to : STRING]
Step == [id : STRING, cap : STRING, argsValid : BOOLEAN, flowsValid : BOOLEAN,
         flows : SUBSET Flow]

Unhashable == "<unhashable>"

ASSUME PlanAssumption == StepsOf \in [Plans -> Seq(Step)]
ASSUME TtlAssumption  == PlanTtl \in Nat /\ GrantTtl \in Nat \ {0} /\ MaxClock \in Nat
ASSUME NoneAssumption == None \notin Calls \union Plans \union Subjects

-------------------------------------------------------------------------------
(* State.                                                                  *)

PCs == {"idle", "clock", "next", "execute", "record", "announce", "done",
        "aborted"}

Call == [pc : PCs, op : {"none", "plan", "apply"}, plan : Plans \union {None},
         subject : Subjects \union {None}, version : Calls \union {None},
         approved : BOOLEAN, now : Nat, expires : Nat, step : Nat \ {0},
         reports : Seq(Decisions), results : Seq(Decisions)]

(* A record names, as `version`, the request that stored it.               *)
Record == [version : Calls, subject : Subjects, approved : BOOLEAN,
           expires : Nat, reports : Seq(Decisions)]

Events == {"vcp.plan.proposed", "vcp.policy.denied", "vcp.grant.minted",
           "vcp.capability.invoked"}
Event  == [event : Events, call : Calls, step : Nat]

Execution == [call : Calls, step : Nat \ {0}, plan : Plans, subject : Subjects,
              dryRun : BOOLEAN]

NoRecord == [version |-> None, subject |-> None, approved |-> FALSE,
             expires |-> 0, reports |-> <<>>]

Idle == [pc |-> "idle", op |-> "none", plan |-> None, subject |-> None,
         version |-> None, approved |-> FALSE, now |-> 0, expires |-> 0,
         step |-> 1, reports |-> <<>>, results |-> <<>>]

Init ==
    /\ clock = 0
    /\ plans = [p \in Plans |-> NoRecord]
    /\ call = [c \in Calls |-> Idle]
    /\ audit = {}
    /\ executed = {}
    /\ consented = {}

Stored(p)  == plans[p].version # None
Expired(p) == plans[p].expires < clock

(* The step a thread's loop has reached.                                   *)
StepsIn(c) == StepsOf[call[c].plan]
StepAt(c)  == StepsIn(c)[call[c].step]
InLoop(c, op) ==
    call[c].pc = "next" /\ call[c].op = op /\ call[c].step \in DOMAIN StepsIn(c)
LoopOverLate(c, op) ==  \* mutant: one step too far
    call[c].pc = "next" /\ call[c].op = op /\ call[c].step > Len(StepsIn(c)) + 1
LoopOver(c, op) ==
    call[c].pc = "next" /\ call[c].op = op /\ call[c].step \notin DOMAIN StepsIn(c)

EventOf(c, event) == [event |-> event, call |-> c, step |-> call[c].step]

-------------------------------------------------------------------------------
(* Policy as the handlers ask for it.                                      *)

Known(s) == s.cap \in Capabilities

(* verify_manifest passes for the server's own manifests; then             *)
(* validate_arguments, then policy.decide.                                 *)
Authorise(s, approval, p) ==
    IF ~s.argsValid THEN "deny"
    ELSE Decide(EffectClass(s.cap), s.flows, approval, p).decision

(* _policy_probe: the decision without an approval.                        *)
Probe(s, p) == Authorise(s, NoApproval(p), p)

(* make_policy_request cannot copy the flows: the exception leaves the     *)
(* handler.                                                                *)
Raises(s) == Known(s) /\ s.argsValid /\ ~s.flowsValid

PlanDenies(s, p) == Known(s) => Probe(s, p) = "deny"

(* Which steps the plan dry-runs for the user to review.                   *)
NeedsDryRunIrreversible(s) ==  \* mutant: reversible writes go unreviewed
    EffectClass(s.cap) = "write-irreversible"
NeedsDryRun(s) == IsWrite(EffectClass(s.cap))

(* report_by_id: with a repeated id the last report stands for all.        *)
LastWithId(steps, i) ==
    CHOOSE j \in DOMAIN steps :
        /\ steps[j].id = steps[i].id
        /\ \A k \in DOMAIN steps : steps[k].id = steps[i].id => k <= j
ReportFor(c) == call[c].reports[LastWithId(StepsIn(c), call[c].step)]

(* The approval a handler passes to Gateway.invoke: a dry run approves     *)
(* itself, an apply only what the user approved.                           *)
GrantsApprovalLive(c) ==  \* mutant: reads the store again, after the lock
    \/ call[c].op = "plan"
    \/ plans[call[c].plan].approved /\ IsWrite(EffectClass(StepAt(c).cap))
GrantsApproval(c) ==
    \/ call[c].op = "plan"
    \/ call[c].approved /\ IsWrite(EffectClass(StepAt(c).cap))
InvokeApproval(c) ==
    IF GrantsApproval(c) THEN ApprovalOf(call[c].plan)
                         ELSE NoApproval(call[c].plan)
InvokeDecisionTrusting(c) ==  \* mutant: apply trusts the plan's reports
    IF GrantsApproval(c) \/ ~IsWrite(EffectClass(StepAt(c).cap)) THEN "allow"
    ELSE "challenge"
InvokeDecision(c) == Authorise(StepAt(c), InvokeApproval(c), call[c].plan)

-------------------------------------------------------------------------------
(* POST /vcp/plan                                                          *)

(* PLAN_MALFORMED: no steps.                                               *)
RefusePlan(c, p) ==
    /\ call[c].pc = "idle"
    /\ StepsOf[p] = <<>>
    /\ call' = [call EXCEPT ![c].pc = "done"]
    /\ UNCHANGED <<clock, plans, audit, executed, consented>>

(* Hash the steps and read the clock.                                      *)
BeginPlan(c, p, s) ==
    /\ call[c].pc = "idle"
    /\ StepsOf[p] # <<>>
    /\ call' = [call EXCEPT ![c] = [Idle EXCEPT
            !.pc = "next", !.op = "plan", !.plan = p, !.subject = s,
            !.version = c, !.now = clock]]
    /\ UNCHANGED <<clock, plans, audit, executed, consented>>

(* Append a report and go on to the next step. *)
Report(c, decision) ==
    call' = [call EXCEPT ![c].pc = "next", ![c].step = @ + 1,
                         ![c].reports = Append(@, decision)]

(* An exception in the middle of the plan: nothing is stored, what was     *)
(* done for earlier steps stays done.                                      *)
AbortPlan(c) ==
    /\ InLoop(c, "plan")
    /\ Raises(StepAt(c))
    /\ call' = [call EXCEPT ![c].pc = "aborted"]
    /\ UNCHANGED <<clock, plans, audit, executed, consented>>

(* An unknown capability, or a step the policy denies even before asking   *)
(* the user: _audit_plan_denial.                                           *)
DenyStep(c) ==
    /\ InLoop(c, "plan")
    /\ ~Raises(StepAt(c))
    /\ PlanDenies(StepAt(c), call[c].plan)
    /\ audit' = audit \union {EventOf(c, "vcp.policy.denied")}
    /\ Report(c, "deny")
    /\ UNCHANGED <<clock, plans, executed, consented>>

(* A read that may run unattended is only reported.                        *)
PassRead(c) ==
    /\ InLoop(c, "plan")
    /\ ~Raises(StepAt(c))
    /\ ~PlanDenies(StepAt(c), call[c].plan)
    /\ ~NeedsDryRun(StepAt(c))
    /\ Report(c, Probe(StepAt(c), call[c].plan))
    /\ UNCHANGED <<clock, plans, audit, executed, consented>>

(* Mint: the grant runs GrantTtl from the handler's own reading of the     *)
(* clock, and vcp.grant.minted is appended.                                *)
Mint(c) ==
    /\ audit' = audit \union {EventOf(c, "vcp.grant.minted")}
    /\ call' = [call EXCEPT ![c].pc = "execute",
                            ![c].expires = call[c].now + GrantTtl]
    /\ UNCHANGED <<clock, plans, executed, consented>>

(* _dry_run: invoke with an approval of its own.                           *)
MintDryRun(c) ==
    /\ InLoop(c, "plan")
    /\ ~Raises(StepAt(c))
    /\ ~PlanDenies(StepAt(c), call[c].plan)
    /\ NeedsDryRun(StepAt(c))
    /\ InvokeDecision(c) = "allow"
    /\ Mint(c)

(* All steps reported: store the record under the lock.  Whatever record   *)
(* the hash had, with its approval, is replaced.                           *)
NewRecordApproved(c) ==  \* mutant: a re-plan keeps the approval
    [version |-> c, subject |-> call[c].subject,
     approved |-> plans[call[c].plan].approved,
     expires |-> clock + PlanTtl, reports |-> call[c].reports]
NewRecordExpired(c) ==  \* mutant: the sign of the TTL
    [version |-> c, subject |-> call[c].subject, approved |-> FALSE,
     expires |-> clock - PlanTtl, reports |-> call[c].reports]
NewRecord(c) ==
    [version |-> c, subject |-> call[c].subject, approved |-> FALSE,
     expires |-> clock + PlanTtl, reports |-> call[c].reports]

Persist(c) ==
    /\ LoopOver(c, "plan")
    /\ plans' = [plans EXCEPT ![call[c].plan] = NewRecord(c)]
    /\ call' = [call EXCEPT ![c].pc = "announce"]
    /\ UNCHANGED <<clock, audit, executed, consented>>

(* vcp.plan.proposed, after the lock is released. *)
Announce(c) ==
    /\ call[c].pc = "announce"
    /\ audit' = audit \union {EventOf(c, "vcp.plan.proposed")}
    /\ call' = [call EXCEPT ![c].pc = "done"]
    /\ UNCHANGED <<clock, plans, executed, consented>>

-------------------------------------------------------------------------------
(* POST /vcp/approve.  A refusal changes nothing and is not a step.        *)

Approve(p) ==
    /\ Stored(p)
    /\ ~Expired(p)
    /\ plans' = [plans EXCEPT ![p].approved = TRUE]
    /\ consented' = consented \union {plans[p].version}
    /\ UNCHANGED <<clock, call, audit, executed>>

-------------------------------------------------------------------------------
(* POST /vcp/apply                                                         *)

(* UNKNOWN_PLAN or PLAN_EXPIRED, under the lock.                           *)
RefuseApply(c, p) ==
    /\ call[c].pc = "idle"
    /\ ~Stored(p) \/ Expired(p)
    /\ call' = [call EXCEPT ![c].pc = "done"]
    /\ UNCHANGED <<clock, plans, audit, executed, consented>>

(* Copy the record, under the lock. *)
Admit(c, p) ==
    /\ call[c].pc = "idle"
    /\ Stored(p)
    /\ ~Expired(p)
    /\ call' = [call EXCEPT ![c] = [Idle EXCEPT
            !.pc = "clock", !.op = "apply", !.plan = p,
            !.subject = plans[p].subject, !.version = plans[p].version,
            !.approved = plans[p].approved, !.reports = plans[p].reports]]
    /\ UNCHANGED <<clock, plans, audit, executed, consented>>

(* After the lock: read the clock and index the reports by step id.        *)
IndexRaises(c) == \E i \in DOMAIN StepsIn(c) : StepsIn(c)[i].id = Unhashable

SampleClock(c) ==
    /\ call[c].pc = "clock"
    /\ call' = [call EXCEPT ![c].now = clock,
                            ![c].pc = IF IndexRaises(c) THEN "aborted" ELSE "next"]
    /\ UNCHANGED <<clock, plans, audit, executed, consented>>

AnswerOptimistic(c, decision) ==  \* mutant: whatever is no denial is success
    call' = [call EXCEPT
        ![c].pc = "next", ![c].step = @ + 1,
        ![c].results = Append(@, IF decision = "deny" THEN "deny" ELSE "allow")]
Answer(c, decision) ==
    call' = [call EXCEPT ![c].pc = "next", ![c].step = @ + 1,
                         ![c].results = Append(@, decision)]

(* Denied at plan time (or unknown): not executed and not audited again.   *)
Skipped(c) == Known(StepAt(c)) => ReportFor(c) = "deny"

SkipStep(c) ==
    /\ InLoop(c, "apply")
    /\ Skipped(c)
    /\ Answer(c, "deny")
    /\ UNCHANGED <<clock, plans, audit, executed, consented>>

(* Gateway.invoke decides again and does not allow: audit, GatewayError.   *)
RefuseStep(c) ==
    /\ InLoop(c, "apply")
    /\ ~Skipped(c)
    /\ InvokeDecision(c) # "allow"
    /\ audit' = audit \union {EventOf(c, "vcp.policy.denied")}
    /\ Answer(c, InvokeDecision(c))
    /\ UNCHANGED <<clock, plans, executed, consented>>

MintGrant(c) ==
    /\ InLoop(c, "apply")
    /\ ~Skipped(c)
    /\ InvokeDecision(c) = "allow"
    /\ Mint(c)

FinishApply(c) ==
    /\ LoopOver(c, "apply")
    /\ call' = [call EXCEPT ![c].pc = "done"]
    /\ UNCHANGED <<clock, plans, audit, executed, consented>>

-------------------------------------------------------------------------------
(* The rest of Gateway.invoke, for a dry run and an apply alike.           *)

(* verify_grant against the handler's own `now`, then provider.execute.    *)
Execute(c) ==
    /\ call[c].pc = "execute"
    /\ call[c].now < call[c].expires
    /\ executed' = executed \union
            {[call |-> c, step |-> call[c].step, plan |-> call[c].plan,
              subject |-> call[c].subject, dryRun |-> call[c].op = "plan"]}
    /\ call' = [call EXCEPT ![c].pc = "record"]
    /\ UNCHANGED <<clock, plans, audit, consented>>

InvokedEventsApplyOnly(c) ==  \* mutant: dry runs are not recorded
    IF call[c].op = "plan" THEN {} ELSE {EventOf(c, "vcp.capability.invoked")}
InvokedEvents(c) == {EventOf(c, "vcp.capability.invoked")}

(* The attestation verifies (the provider is the server's own and honest); *)
(* vcp.capability.invoked is appended and the handler gets the result.     *)
RecordInvoked(c) ==
    /\ call[c].pc = "record"
    /\ audit' = audit \union InvokedEvents(c)
    /\ IF call[c].op = "plan" THEN Report(c, "challenge") ELSE Answer(c, "allow")
    /\ UNCHANGED <<clock, plans, executed, consented>>

-------------------------------------------------------------------------------

Tick ==
    /\ clock < MaxClock
    /\ clock' = clock + 1
    /\ UNCHANGED <<plans, call, audit, executed, consented>>

Arrive(c) ==
    \E p \in Plans :
        \/ RefusePlan(c, p)
        \/ \E s \in Subjects : BeginPlan(c, p, s)
        \/ RefuseApply(c, p)
        \/ Admit(c, p)

PlanStep(c) ==
    AbortPlan(c) \/ DenyStep(c) \/ PassRead(c) \/ MintDryRun(c) \/ Persist(c)
        \/ Announce(c)
ApplyStep(c) ==
    SampleClock(c) \/ SkipStep(c) \/ RefuseStep(c) \/ MintGrant(c)
        \/ FinishApply(c)
InvokeStep(c) == Execute(c) \/ RecordInvoked(c)

Thread(c) == PlanStep(c) \/ ApplyStep(c) \/ InvokeStep(c)

Next ==
    \/ Tick
    \/ \E p \in Plans : Approve(p)
    \/ \E c \in Calls : Arrive(c) \/ Thread(c)

Spec == Init /\ [][Next]_vars

(* A started handler keeps running: the interpreter schedules every        *)
(* thread, and no thread holds the lock across one of these steps.         *)
FairSpec == Spec /\ \A c \in Calls : WF_vars(Thread(c))

-------------------------------------------------------------------------------
(* Properties.                                                             *)

TypeOK ==
    /\ clock \in Nat
    /\ plans \in [Plans -> Record \union {NoRecord}]
    /\ call \in [Calls -> Call]
    /\ audit \subseteq Event
    /\ executed \subseteq Execution
    /\ consented \subseteq Calls

Written(e) == ~e.dryRun /\ IsWrite(EffectClass(StepsOf[e.plan][e.step].cap))

(* A write is only executed under a proposal that an approval reached: the *)
(* very proposal (not a later or earlier one of the same plan hash) whose  *)
(* record the apply copied, and for the subject who proposed it.           *)
ConsentBeforeWrite ==
    \A e \in executed : Written(e) =>
        LET v == call[e.call].version IN
        /\ v \in consented
        /\ call[v].op = "plan"
        /\ e.plan = call[v].plan
        /\ e.subject = call[v].subject

(* Every write an apply executes was dry-run, step for step, by the        *)
(* proposal it applies: the user could see its diff.                       *)
DiffBeforeCommit ==
    \A e \in executed : Written(e) =>
        [e EXCEPT !.call = call[e.call].version, !.dryRun = TRUE] \in executed

(* A step its proposal reported as denied is never executed, also when a   *)
(* repeated step id makes apply read another step's report.                *)
DeniedStaysDenied ==
    \A e \in executed : ~e.dryRun =>
        call[call[e.call].version].reports[e.step] # "deny"

(* The audit log explains every execution: the grant was recorded before   *)
(* it, and the invocation is recorded after it unless the thread is just   *)
(* between the two.                                                        *)
Logged(e, event) == [event |-> event, call |-> e.call, step |-> e.step] \in audit
AuditTrail ==
    \A e \in executed :
        /\ Logged(e, "vcp.grant.minted")
        /\ \/ Logged(e, "vcp.capability.invoked")
           \/ call[e.call].pc = "record" /\ call[e.call].step = e.step

(* What apply answers is what happened: a step is answered "allow" exactly *)
(* when it was executed.                                                   *)
ResultsTruthful ==
    \A c \in Calls : \A i \in DOMAIN call[c].results :
        call[c].results[i] = "allow"
            <=> \E e \in executed : e.call = c /\ e.step = i

(* A request that was accepted is eventually answered or aborted.          *)
Answered ==
    \A c \in Calls : call[c].pc # "idle" ~> call[c].pc \in {"done", "aborted"}

-------------------------------------------------------------------------------
(* The ledger of consent this server implements.                           *)

LedgerOf(p) == [version |-> plans[p].version, subject |-> plans[p].subject,
                consented |-> plans[p].approved]
TicketOf(c) ==
    IF call[c].op = "apply"
    THEN [plan |-> call[c].plan, version |-> call[c].version,
          subject |-> call[c].subject, consented |-> call[c].approved]
    ELSE [plan |-> None, version |-> None, subject |-> None, consented |-> FALSE]
CommitOf(e) == [call |-> e.call, step |-> e.step, plan |-> e.plan,
                subject |-> e.subject]

Ledger == INSTANCE ConsentLedger WITH
    Steps   <- UNION {DOMAIN StepsOf[p] : p \in Plans},
    ledger  <- [p \in Plans |-> LedgerOf(p)],
    ticket  <- [c \in Calls |-> TicketOf(c)],
    commits <- {CommitOf(e) : e \in {x \in executed : Written(x)}}

(* Every step of the server is a step of the ledger or none: writes come   *)
(* only from tickets admitted against a consented proposal, for the plan   *)
(* and the subject of that proposal, and re-planning voids consent.        *)
ImplementsLedger == Ledger!Spec

-------------------------------------------------------------------------------
(* What the source says of itself and the code does not do.                *)

(* grants.py: a grant is denied "GRANT_EXPIRED - used past expires_at".    *)
NoUseAfterExpiry ==
    [][\A c \in Calls :
        call[c].op = "apply" /\ call[c].pc = "execute" /\ call'[c].pc = "record"
            => clock < call[c].expires]_vars
===============================================================================
