------------------------ MODULE PlanApplyHistoryProofs ------------------------
(***************************************************************************)
(* Proofs about what PlanApply leaves behind, for every set of calls,      *)
(* plans and subjects: each write was dry-run by its proposal, a denied    *)
(* step stays denied, the audit log and the answers tell what happened,    *)
(* and the server implements the ledger of consent.                        *)
(***************************************************************************)
EXTENDS PlanApplyProofs

-------------------------------------------------------------------------------
(* The inductive invariant, in parts.                                      *)

(* What the provider is asked to execute for the step c is at.             *)
ExecutionOf(c) ==
    [call |-> c, step |-> call[c].step, plan |-> call[c].plan,
     subject |-> call[c].subject, dryRun |-> call[c].op = "plan"]

Granted(c) == call[c].pc \in {"execute", "record"}

(* A loop never runs past the step after the last; a grant is held only    *)
(* for a step that exists and that the policy does not deny outright; the  *)
(* step counter counts the reports of a plan and the results of an apply.  *)
PositionOf(c) ==
    /\ call[c].op # "none" => call[c].step \in 1 .. Len(StepsIn(c)) + 1
    /\ Granted(c) =>
        /\ call[c].step \in DOMAIN StepsIn(c)
        /\ ~PlanDenies(StepAt(c), call[c].plan)
    /\ call[c].op = "plan" => Len(call[c].reports) = call[c].step - 1
    /\ IF call[c].op = "apply" THEN Len(call[c].results) = call[c].step - 1
                               ELSE call[c].results = <<>>
PositionInv == \A c \in Calls : PositionOf(c)

(* What was executed belongs to a step its call has reached, of the plan   *)
(* and for the subject of that call, and was not denied.                   *)
Belongs(e) ==
    /\ call[e.call].op = IF e.dryRun THEN "plan" ELSE "apply"
    /\ e.plan = call[e.call].plan
    /\ e.subject = call[e.call].subject
    /\ e.step \in DOMAIN StepsOf[e.plan]
    /\ ~PlanDenies(StepsOf[e.plan][e.step], e.plan)
    /\ \/ e.step < call[e.call].step
       \/ e.step = call[e.call].step /\ call[e.call].pc = "record"
ExecutionsInv ==
    /\ \A e \in executed : Belongs(e)
    /\ \A c \in Calls : call[c].pc = "record" => ExecutionOf(c) \in executed

(* A plan reports "deny" for exactly the steps the policy denies, and has  *)
(* dry-run the others that write.                                          *)
DryRunOf(c, i) ==
    [call |-> c, step |-> i, plan |-> call[c].plan,
     subject |-> call[c].subject, dryRun |-> TRUE]
Reviewed(c, i) ==
    /\ call[c].reports[i] = "deny" <=> PlanDenies(StepsIn(c)[i], call[c].plan)
    /\ ~PlanDenies(StepsIn(c)[i], call[c].plan) /\ NeedsDryRun(StepsIn(c)[i])
        => DryRunOf(c, i) \in executed
ReviewsInv ==
    \A c \in Calls : call[c].op = "plan" =>
        \A i \in 1 .. Len(call[c].reports) : Reviewed(c, i)

(* Proposal v of plan p is complete: every step is reported, and its       *)
(* handler will report no more.                                            *)
Complete(v, p) ==
    /\ call[v].pc \in {"announce", "done"}
    /\ call[v].step = Len(StepsOf[p]) + 1
CompletedInv ==
    /\ \A p \in Plans : Stored(p) => Complete(plans[p].version, p)
    /\ \A c \in Calls : call[c].op = "apply" => Complete(call[c].version, call[c].plan)

(* Every grant in use, and so every execution, was logged before.          *)
LoggedInv ==
    /\ \A c \in Calls : Granted(c) => EventOf(c, "vcp.grant.minted") \in audit
    /\ AuditTrail

HistoryInv ==
    /\ PositionInv
    /\ ExecutionsInv
    /\ ReviewsInv
    /\ CompletedInv
    /\ LoggedInv
    /\ ResultsTruthful

-------------------------------------------------------------------------------
(* What each kind of step does to the call that takes it.                  *)

(* An answer of the pipeline that lets a step run, with whatever approval, *)
(* means the policy does not deny the step outright.                       *)
LEMMA AllowedNotDenied ==
    ASSUME NEW s, NEW approval, NEW p, Authorise(s, approval, p) = "allow"
    PROVE  Probe(s, p) # "deny"
BY DEF Probe, Authorise, Decide, Verdict, NoApproval

(* Handler steps that neither answer a step of the plan nor use a grant.   *)
Rests(c) ==
    AbortPlan(c) \/ Persist(c) \/ Announce(c) \/ SampleClock(c) \/ FinishApply(c)

Kept(c) ==
    /\ call'[c].step = call[c].step
    /\ call'[c].reports = call[c].reports
    /\ call'[c].results = call[c].results

LEMMA ThreadKinds ==
    ASSUME NEW c \in Calls, Thread(c)
    PROVE  \/ Rests(c)
           \/ DenyStep(c) \/ PassRead(c) \/ SkipStep(c) \/ RefuseStep(c)
           \/ MintDryRun(c) \/ MintGrant(c)
           \/ Execute(c) \/ RecordInvoked(c)
BY DEF Thread, PlanStep, ApplyStep, InvokeStep, Rests

LEMMA RestsFields ==
    ASSUME TypeInv, NEW c \in Calls, Rests(c)
    PROVE  /\ Kept(c)
           /\ call[c].pc \in {"next", "announce", "clock"}
           /\ call'[c].pc \in {"aborted", "announce", "done", "next"}
           /\ call[c].pc = "announce" => call'[c].pc = "done"
           /\ executed' = executed
           /\ audit \subseteq audit'
<1>. call \in [Calls -> Call]
  BY DEF TypeInv, TypeOK
<1>1. CASE AbortPlan(c)
  BY <1>1 DEF AbortPlan, InLoop, Kept, Call
<1>2. CASE Persist(c)
  BY <1>2 DEF Persist, LoopOver, Kept, Call
<1>3. CASE Announce(c)
  BY <1>3 DEF Announce, Kept, Call
<1>4. CASE SampleClock(c)
  BY <1>4 DEF SampleClock, Kept, Call
<1>5. CASE FinishApply(c)
  BY <1>5 DEF FinishApply, LoopOver, Kept, Call
<1>. QED
  BY <1>1, <1>2, <1>3, <1>4, <1>5 DEF Rests

LEMMA ReportFields ==
    ASSUME TypeInv, NEW c \in Calls, NEW d, Report(c, d)
    PROVE  /\ call'[c].pc = "next"
           /\ call'[c].step = call[c].step + 1
           /\ call'[c].reports = Append(call[c].reports, d)
           /\ call'[c].results = call[c].results
BY DEF Report, TypeInv, TypeOK, Call

LEMMA AnswerFields ==
    ASSUME TypeInv, NEW c \in Calls, NEW d, Answer(c, d)
    PROVE  /\ call'[c].pc = "next"
           /\ call'[c].step = call[c].step + 1
           /\ call'[c].reports = call[c].reports
           /\ call'[c].results = Append(call[c].results, d)
BY DEF Answer, TypeInv, TypeOK, Call

LEMMA MintFields ==
    ASSUME TypeInv, NEW c \in Calls, Mint(c)
    PROVE  /\ Kept(c)
           /\ call'[c].pc = "execute"
           /\ executed' = executed
           /\ audit' = audit \union {EventOf(c, "vcp.grant.minted")}
BY DEF Mint, Kept, TypeInv, TypeOK, Call

LEMMA ExecuteFields ==
    ASSUME TypeInv, NEW c \in Calls, Execute(c)
    PROVE  /\ Kept(c)
           /\ call[c].pc = "execute" /\ call'[c].pc = "record"
           /\ executed' = executed \union {ExecutionOf(c)}
           /\ audit' = audit
BY DEF Execute, ExecutionOf, Kept, TypeInv, TypeOK, Call

(* What a call finds when it looks at its own state.                       *)
LEMMA OwnState ==
    ASSUME TypeInv, NEW c \in Calls
    PROVE  /\ call[c].step \in Nat \ {0}
           /\ call[c].reports \in Seq(Decisions)
           /\ call[c].results \in Seq(Decisions)
           /\ call[c].op \in {"none", "plan", "apply"}
           /\ call[c].op # "none" =>
                /\ StepsIn(c) \in Seq(Step)
                /\ Len(StepsIn(c)) \in Nat
                /\ DOMAIN StepsIn(c) = 1 .. Len(StepsIn(c))
BY PlanAssumption DEF TypeInv, TypeOK, CallsInv, CallInv, Call, StepsIn

(* The plan a call is about does not change under it.                      *)
LEMMA SameSteps ==
    ASSUME TypeInv, NEW c \in Calls, Thread(c), NEW d \in Calls
    PROVE  StepsIn(d)' = StepsIn(d)
BY ThreadKeepsCalls DEF SameCall, StepsIn

(* A grant is minted for a step that exists and is not denied outright.    *)
LEMMA MintedNotDenied ==
    ASSUME TypeInv, NEW c \in Calls, MintDryRun(c) \/ MintGrant(c)
    PROVE  /\ call[c].op # "none" /\ call[c].pc = "next"
           /\ call[c].step \in DOMAIN StepsIn(c)
           /\ ~PlanDenies(StepAt(c), call[c].plan)
           /\ Mint(c)
<1>1. CASE MintDryRun(c)
  BY <1>1 DEF MintDryRun, InLoop
<1>2. CASE MintGrant(c)
  <2>1. Known(StepAt(c))
    BY <1>2 DEF MintGrant, Skipped
  <2>2. Probe(StepAt(c), call[c].plan) # "deny"
    BY <1>2, AllowedNotDenied DEF MintGrant, InvokeDecision
  <2>. QED
    BY <1>2, <2>1, <2>2 DEF MintGrant, InLoop, PlanDenies
<1>. QED
  BY <1>1, <1>2

(* The other steps that answer for a step of the plan, and what they say.  *)
LEMMA AdvanceFacts ==
    ASSUME TypeInv, PositionInv, NEW c \in Calls,
           DenyStep(c) \/ PassRead(c) \/ SkipStep(c) \/ RefuseStep(c) \/ RecordInvoked(c)
    PROVE  /\ call[c].step \in DOMAIN StepsIn(c)
           /\ call[c].pc \in {"next", "record"}
           /\ executed' = executed
           /\ audit \subseteq audit'
           /\ \/ call[c].op = "plan" /\ \E d \in Decisions : Report(c, d)
              \/ call[c].op = "apply" /\ \E d \in Decisions : Answer(c, d)
<1>1. CASE DenyStep(c)
  BY <1>1 DEF DenyStep, InLoop, Decisions
<1>2. CASE PassRead(c)
  BY <1>2, AuthoriseType DEF PassRead, InLoop, Probe
<1>3. CASE SkipStep(c)
  BY <1>3 DEF SkipStep, InLoop, Decisions
<1>4. CASE RefuseStep(c)
  BY <1>4, AuthoriseType DEF RefuseStep, InLoop, InvokeDecision
<1>5. CASE RecordInvoked(c)
  <2>1. call[c].pc = "record" /\ call[c].op \in {"plan", "apply"}
    BY <1>5, OwnState DEF RecordInvoked, TypeInv, CallsInv, CallInv
  <2>2. call[c].step \in DOMAIN StepsIn(c)
    BY <2>1 DEF PositionInv, PositionOf, Granted
  <2>. QED
    BY <1>5, <2>1, <2>2 DEF RecordInvoked, Decisions
<1>. QED
  BY <1>1, <1>2, <1>3, <1>4, <1>5

(* A request is refused, starts a plan, or is admitted against a record.   *)
LEMMA ArriveFields ==
    ASSUME TypeInv, NEW c \in Calls, Arrive(c)
    PROVE  /\ call[c].pc = "idle" /\ call[c].op = "none"
           /\ \A d \in Calls \ {c} : call'[d] = call[d]
           /\ UNCHANGED <<plans, audit, executed>>
           /\ \/ call'[c].op = "none" /\ call'[c].pc = "done" /\ Kept(c)
              \/ /\ call'[c].op = "plan" /\ call'[c].pc = "next"
                 /\ call'[c].step = 1
                 /\ call'[c].reports = <<>> /\ call'[c].results = <<>>
              \/ /\ call'[c].op = "apply" /\ call'[c].pc = "clock"
                 /\ call'[c].step = 1 /\ call'[c].results = <<>>
                 /\ call'[c].plan \in Plans /\ Stored(call'[c].plan)
                 /\ call'[c].version = plans[call'[c].plan].version
<1>. call \in [Calls -> Call]
  BY DEF TypeInv, TypeOK
<1>1. /\ call[c].pc = "idle"
      /\ UNCHANGED <<plans, audit, executed>>
  BY DEF Arrive, RefusePlan, BeginPlan, RefuseApply, Admit
<1>2. call[c].op = "none" /\ \A d \in Calls \ {c} : call'[d] = call[d]
  BY ArriveKeepsCalls
<1>3. ASSUME NEW p \in Plans, RefusePlan(c, p) \/ RefuseApply(c, p)
      PROVE  call'[c].op = "none" /\ call'[c].pc = "done" /\ Kept(c)
  BY <1>2, <1>3 DEF RefusePlan, RefuseApply, Kept, Call
<1>4. ASSUME NEW p \in Plans, NEW s \in Subjects, BeginPlan(c, p, s)
      PROVE  /\ call'[c].op = "plan" /\ call'[c].pc = "next"
             /\ call'[c].step = 1
             /\ call'[c].reports = <<>> /\ call'[c].results = <<>>
  BY <1>4 DEF BeginPlan, Idle
<1>5. ASSUME NEW p \in Plans, Admit(c, p)
      PROVE  /\ call'[c].op = "apply" /\ call'[c].pc = "clock"
             /\ call'[c].step = 1 /\ call'[c].results = <<>>
             /\ call'[c].plan = p /\ Stored(p)
             /\ call'[c].version = plans[p].version
  BY <1>5 DEF Admit, Idle
<1>. QED
  BY <1>1, <1>2, <1>3, <1>4, <1>5 DEF Arrive

-------------------------------------------------------------------------------
(* Positions.                                                              *)

LEMMA ArrivePosition ==
    ASSUME TypeInv, TypeInv', PositionInv, NEW c \in Calls, Arrive(c)
    PROVE  PositionInv'
<1>1. ASSUME NEW d \in Calls \ {c} PROVE PositionOf(d)'
  <2>1. call'[d] = call[d]
    BY ArriveFields
  <2>. QED
    BY <2>1 DEF PositionInv, PositionOf, Granted, StepAt, StepsIn
<1>2. PositionOf(c)'
  <2>1. call'[c].op # "none" =>
          /\ call'[c].step = 1
          /\ call'[c].op = "plan" => call'[c].reports = <<>>
          /\ call'[c].results = <<>>
    BY ArriveFields
  <2>2. call'[c].op # "none" => Len(StepsIn(c)') \in Nat
    BY PlanAssumption DEF TypeInv, CallsInv, CallInv, StepsIn
  <2>3. call'[c].pc \notin {"execute", "record"}
    BY ArriveFields
  <2>4. call'[c].op = "none" => call'[c].results = <<>>
    BY ArriveFields DEF Kept, PositionInv, PositionOf
  <2>. QED
    BY <2>1, <2>2, <2>3, <2>4 DEF PositionOf, Granted
<1>. QED
  BY <1>1, <1>2 DEF PositionInv

LEMMA ThreadPosition ==
    ASSUME TypeInv, PositionInv, NEW c \in Calls, Thread(c)
    PROVE  PositionInv'
<1>1. ASSUME NEW d \in Calls \ {c} PROVE PositionOf(d)'
  <2>1. call'[d] = call[d]
    BY ThreadKeepsCalls
  <2>. QED
    BY <2>1 DEF PositionInv, PositionOf, Granted, StepAt, StepsIn
<1>. SUFFICES PositionOf(c)'
  BY <1>1 DEF PositionInv
<1>2. StepsIn(c)' = StepsIn(c) /\ SameCall(c) /\ PositionOf(c)
  BY SameSteps, ThreadKeepsCalls DEF PositionInv
<1>3. ASSUME Kept(c), ~Granted(c)' PROVE PositionOf(c)'
  BY <1>2, <1>3 DEF PositionOf, Kept, SameCall
<1>4. CASE Rests(c)
  BY <1>3, <1>4, RestsFields DEF Granted
<1>5. CASE DenyStep(c) \/ PassRead(c) \/ SkipStep(c) \/ RefuseStep(c) \/ RecordInvoked(c)
  <2>1. /\ call[c].step \in DOMAIN StepsIn(c)
        /\ \/ call[c].op = "plan" /\ \E d \in Decisions : Report(c, d)
           \/ call[c].op = "apply" /\ \E d \in Decisions : Answer(c, d)
    BY <1>5, AdvanceFacts
  <2>2. call[c].step + 1 \in 1 .. Len(StepsIn(c)) + 1 /\ call[c].step \in Nat
    BY <2>1, OwnState
  <2>3. ASSUME NEW d \in Decisions, Report(c, d), call[c].op = "plan"
        PROVE  PositionOf(c)'
    <3>1. Len(Append(call[c].reports, d)) = Len(call[c].reports) + 1
      BY OwnState
    <3>2. Len(call[c].reports) = call[c].step - 1 /\ call[c].results = <<>>
      BY <1>2, <2>3 DEF PositionOf
    <3>. QED
      BY <1>2, <2>2, <2>3, <3>1, <3>2, ReportFields DEF PositionOf, SameCall, Granted
  <2>4. ASSUME NEW d \in Decisions, Answer(c, d), call[c].op = "apply"
        PROVE  PositionOf(c)'
    <3>1. Len(Append(call[c].results, d)) = Len(call[c].results) + 1
      BY OwnState
    <3>2. Len(call[c].results) = call[c].step - 1
      BY <1>2, <2>4 DEF PositionOf
    <3>. QED
      BY <1>2, <2>2, <2>4, <3>1, <3>2, AnswerFields DEF PositionOf, SameCall, Granted
  <2>. QED
    BY <2>1, <2>3, <2>4
<1>6. ASSUME Kept(c), call[c].step \in DOMAIN StepsIn(c),
             ~PlanDenies(StepAt(c), call[c].plan)
      PROVE  PositionOf(c)'
  <2>1. StepAt(c)' = StepAt(c) /\ call'[c].plan = call[c].plan
    BY <1>2, <1>6 DEF StepAt, SameCall, Kept
  <2>. QED
    BY <1>2, <1>6, <2>1 DEF PositionOf, Kept, SameCall
<1>7. CASE MintDryRun(c) \/ MintGrant(c)
  BY <1>6, <1>7, MintedNotDenied, MintFields
<1>8. CASE Execute(c)
  BY <1>2, <1>6, <1>8, ExecuteFields DEF PositionOf, Granted
<1>. QED
  BY <1>4, <1>5, <1>7, <1>8, ThreadKinds

-------------------------------------------------------------------------------
(* Executions.                                                             *)

LEMMA ArriveExecutions ==
    ASSUME TypeInv, ExecutionsInv, NEW c \in Calls, Arrive(c)
    PROVE  ExecutionsInv'
<1>1. ASSUME NEW e \in executed PROVE Belongs(e)'
  <2>1. e.call \in Calls /\ Belongs(e)
    BY DEF TypeInv, TypeOK, Execution, ExecutionsInv
  <2>2. e.call # c
    BY <2>1, ArriveFields DEF Belongs
  <2>3. call'[e.call] = call[e.call]
    BY <2>1, <2>2, ArriveFields
  <2>. QED
    BY <2>1, <2>3 DEF Belongs
<1>2. ASSUME NEW d \in Calls, call'[d].pc = "record" PROVE ExecutionOf(d)' \in executed
  <2>1. d # c
    BY <1>2, ArriveFields
  <2>2. call'[d] = call[d]
    BY <2>1, ArriveFields
  <2>. QED
    BY <1>2, <2>2 DEF ExecutionsInv, ExecutionOf
<1>. QED
  BY <1>1, <1>2, ArriveFields DEF ExecutionsInv

(* What is executed keeps belonging to its call as the call goes on. *)
LEMMA ThreadExecutions ==
    ASSUME TypeInv, PositionInv, ExecutionsInv, NEW c \in Calls, Thread(c)
    PROVE  ExecutionsInv'
<1>1. /\ \A d \in Calls : SameCall(d)
      /\ \A d \in Calls \ {c} : call'[d] = call[d]
  BY ThreadKeepsCalls
<1>2. ASSUME NEW e \in executed, e.call # c PROVE Belongs(e)'
  BY <1>1, <1>2 DEF TypeInv, TypeOK, Execution, ExecutionsInv, Belongs
<1>3. ASSUME NEW e \in executed, e.call = c,
             \/ call[c].step < call'[c].step
             \/ call[c].pc # "record" /\ Kept(c)
      PROVE  Belongs(e)'
  <2>1. Belongs(e) /\ e.step \in Nat /\ call[c].step \in Nat
    BY OwnState DEF ExecutionsInv, TypeInv, TypeOK, Execution
  <2>2. e.step < call'[c].step
    <3>1. CASE call[c].pc # "record" /\ Kept(c)
      BY <1>3, <2>1, <3>1 DEF Belongs, Kept
    <3>2. CASE call[c].step < call'[c].step
      <4>1. e.step <= call[c].step
        BY <1>3, <2>1 DEF Belongs
      <4>2. call'[c].step \in Nat
        BY ThreadType, OwnState DEF TypeInv, TypeOK, Call
      <4>. QED
        BY <2>1, <3>2, <4>1, <4>2
    <3>. QED
      BY <1>3, <3>1, <3>2
  <2>. QED
    BY <1>1, <1>3, <2>1, <2>2 DEF Belongs, SameCall
<1>4. ASSUME NEW d \in Calls \ {c}, call'[d].pc = "record"
      PROVE  ExecutionOf(d)' \in executed
  BY <1>1, <1>4 DEF ExecutionsInv, ExecutionOf
<1>5. CASE Execute(c)
  <2>1. Belongs(ExecutionOf(c))'
    <3>1. /\ call[c].step \in DOMAIN StepsIn(c)
          /\ ~PlanDenies(StepAt(c), call[c].plan)
      BY <1>5, ExecuteFields DEF PositionInv, PositionOf, Granted
    <3>2. call[c].op \in {"plan", "apply"}
      BY <1>5, ExecuteFields, OwnState DEF TypeInv, CallsInv, CallInv
    <3>3. /\ SameCall(c) /\ Kept(c) /\ call'[c].pc = "record"
      BY <1>1, <1>5, ExecuteFields
    <3>. QED
      BY <3>1, <3>2, <3>3 DEF Belongs, ExecutionOf, SameCall, Kept, StepAt, StepsIn
  <2>2. ExecutionOf(c)' = ExecutionOf(c)
    BY <1>1, <1>5, ExecuteFields DEF ExecutionOf, SameCall, Kept
  <2>. QED
    BY <1>2, <1>3, <1>4, <1>5, <2>1, <2>2, ExecuteFields DEF ExecutionsInv
<1>6. ASSUME executed' = executed, call'[c].pc # "record",
             \/ call[c].step < call'[c].step
             \/ call[c].pc # "record" /\ Kept(c)
      PROVE  ExecutionsInv'
  BY <1>2, <1>3, <1>4, <1>6 DEF ExecutionsInv
<1>7. CASE Rests(c)
  BY <1>6, <1>7, RestsFields
<1>8. CASE MintDryRun(c) \/ MintGrant(c)
  BY <1>6, <1>8, MintedNotDenied, MintFields
<1>9. CASE DenyStep(c) \/ PassRead(c) \/ SkipStep(c) \/ RefuseStep(c) \/ RecordInvoked(c)
  <2>1. call'[c].pc = "next" /\ call'[c].step = call[c].step + 1 /\ executed' = executed
    BY <1>9, AdvanceFacts, ReportFields, AnswerFields
  <2>2. call[c].step < call'[c].step
    BY <2>1, OwnState
  <2>. QED
    BY <1>6, <2>1, <2>2
<1>. QED
  BY <1>5, <1>7, <1>8, <1>9, ThreadKinds

-------------------------------------------------------------------------------
(* Reviews.                                                                *)

LEMMA ArriveReviews ==
    ASSUME TypeInv, ReviewsInv, NEW c \in Calls, Arrive(c)
    PROVE  ReviewsInv'
<1>. SUFFICES ASSUME NEW d \in Calls, call'[d].op = "plan",
                     NEW i \in 1 .. Len(call'[d].reports)
              PROVE  Reviewed(d, i)'
  BY DEF ReviewsInv
<1>1. d # c
  <2>. SUFFICES ASSUME d = c PROVE FALSE
    OBVIOUS
  <2>1. Len(call'[d].reports) = 0
    BY ArriveFields
  <2>. QED
    BY <2>1
<1>2. call'[d] = call[d] /\ executed' = executed
  BY <1>1, ArriveFields
<1>3. Reviewed(d, i)
  BY <1>2 DEF ReviewsInv
<1>. QED
  BY <1>2, <1>3 DEF Reviewed, DryRunOf, StepsIn

(* A step of a handler only adds executions. *)
LEMMA ThreadExecutes ==
    ASSUME TypeInv, PositionInv, NEW c \in Calls, Thread(c)
    PROVE  executed \subseteq executed' /\ audit \subseteq audit'
<1>1. CASE Rests(c)
  BY <1>1, RestsFields
<1>2. CASE DenyStep(c) \/ PassRead(c) \/ SkipStep(c) \/ RefuseStep(c) \/ RecordInvoked(c)
  BY <1>2, AdvanceFacts
<1>3. CASE MintDryRun(c) \/ MintGrant(c)
  BY <1>3, MintedNotDenied, MintFields
<1>4. CASE Execute(c)
  BY <1>4, ExecuteFields
<1>. QED
  BY <1>1, <1>2, <1>3, <1>4, ThreadKinds

(* What a plan has reported stays as it was reviewed. *)
LEMMA ThreadKeepsReviews ==
    ASSUME TypeInv, PositionInv, ReviewsInv, NEW c \in Calls, Thread(c),
           NEW d \in Calls, call[d].op = "plan",
           NEW i \in 1 .. Len(call[d].reports),
           call'[d].reports[i] = call[d].reports[i]
    PROVE  Reviewed(d, i)'
<1>1. Reviewed(d, i)
  BY DEF ReviewsInv
<1>2. SameCall(d) /\ StepsIn(d)' = StepsIn(d)
  BY ThreadKeepsCalls, SameSteps
<1>3. executed \subseteq executed'
  BY ThreadExecutes
<1>4. DryRunOf(d, i)' = DryRunOf(d, i)
  BY <1>2 DEF DryRunOf, SameCall
<1>. QED
  BY <1>1, <1>2, <1>3, <1>4 DEF Reviewed, SameCall

(* What the plan handler reports for the step it is at. *)
LEMMA ReportReviewed ==
    ASSUME TypeInv, PositionInv, ExecutionsInv, NEW c \in Calls,
           NEW d \in Decisions, Report(c, d),
           DenyStep(c) \/ PassRead(c) \/ RecordInvoked(c), call[c].op = "plan"
    PROVE  /\ d = "deny" <=> PlanDenies(StepAt(c), call[c].plan)
           /\ ~PlanDenies(StepAt(c), call[c].plan) /\ NeedsDryRun(StepAt(c))
                => DryRunOf(c, call[c].step) \in executed
<1>0. /\ call'[c].reports = Append(call[c].reports, d)
      /\ call[c].reports \in Seq(Decisions)
  BY ReportFields, OwnState
<1>1. ASSUME NEW x \in Decisions, Report(c, x) PROVE x = d
  <2>1. call'[c].reports = Append(call[c].reports, x)
    BY <1>1, ReportFields
  <2>2. /\ Append(call[c].reports, x)[Len(call[c].reports) + 1] = x
        /\ Append(call[c].reports, d)[Len(call[c].reports) + 1] = d
    BY <1>0
  <2>. QED
    BY <1>0, <2>1, <2>2
<1>2. CASE DenyStep(c)
  BY <1>1, <1>2 DEF DenyStep, Decisions
<1>3. CASE PassRead(c)
  BY <1>1, <1>3, AuthoriseType DEF PassRead, PlanDenies, Probe
<1>4. CASE RecordInvoked(c)
  <2>1. d = "challenge" /\ call[c].pc = "record"
    BY <1>1, <1>4 DEF RecordInvoked, Decisions
  <2>2. ~PlanDenies(StepAt(c), call[c].plan)
    BY <2>1 DEF PositionInv, PositionOf, Granted
  <2>3. ExecutionOf(c) \in executed
    BY <2>1 DEF ExecutionsInv
  <2>4. DryRunOf(c, call[c].step) = ExecutionOf(c)
    BY DEF DryRunOf, ExecutionOf
  <2>. QED
    BY <2>1, <2>2, <2>3, <2>4
<1>. QED
  BY <1>2, <1>3, <1>4

LEMMA ThreadReviews ==
    ASSUME TypeInv, PositionInv, ExecutionsInv, ReviewsInv, NEW c \in Calls, Thread(c)
    PROVE  ReviewsInv'
<1>. SUFFICES ASSUME NEW d \in Calls, call'[d].op = "plan",
                     NEW i \in 1 .. Len(call'[d].reports)
              PROVE  Reviewed(d, i)'
  BY DEF ReviewsInv
<1>1. call[d].op = "plan" /\ SameCall(d)
  BY ThreadKeepsCalls DEF SameCall
<1>2. ASSUME call'[d].reports = call[d].reports PROVE Reviewed(d, i)'
  BY <1>1, <1>2, ThreadKeepsReviews
<1>3. CASE d # c
  BY <1>2, <1>3, ThreadKeepsCalls
<1>4. CASE d = c
  <2>1. CASE Rests(c) \/ MintDryRun(c) \/ MintGrant(c) \/ Execute(c)
    BY <1>2, <1>4, <2>1, RestsFields, MintedNotDenied, MintFields, ExecuteFields DEF Kept
  <2>2. CASE SkipStep(c) \/ RefuseStep(c)
    BY <1>1, <1>4, <2>2 DEF SkipStep, RefuseStep, InLoop
  <2>3. CASE DenyStep(c) \/ PassRead(c) \/ RecordInvoked(c)
    <3>1. PICK x \in Decisions : Report(c, x)
      BY <1>1, <1>4, <2>3, AdvanceFacts
    <3>2. /\ call'[c].reports = Append(call[c].reports, x)
          /\ call[c].reports \in Seq(Decisions)
          /\ Len(call[c].reports) = call[c].step - 1 /\ call[c].step \in Nat
      BY <1>1, <1>4, <3>1, ReportFields, OwnState DEF PositionInv, PositionOf
    <3>3. i \in 1 .. Len(call[c].reports) \/ i = call[c].step
      BY <1>4, <3>2
    <3>4. CASE i \in 1 .. Len(call[c].reports)
      <4>1. call'[c].reports[i] = call[c].reports[i]
        BY <3>2, <3>4
      <4>. QED
        BY <1>1, <1>4, <3>4, <4>1, ThreadKeepsReviews
    <3>5. CASE i = call[c].step
      <4>1. call'[c].reports[i] = x
        BY <3>2, <3>5
      <4>2. /\ x = "deny" <=> PlanDenies(StepAt(c), call[c].plan)
            /\ ~PlanDenies(StepAt(c), call[c].plan) /\ NeedsDryRun(StepAt(c))
                 => DryRunOf(c, i) \in executed
        BY <1>1, <1>4, <2>3, <3>1, <3>5, ReportReviewed
      <4>3. StepsIn(c)'[i] = StepAt(c) /\ DryRunOf(c, i)' = DryRunOf(c, i)
        BY <1>1, <1>4, <3>5, SameSteps DEF StepAt, DryRunOf, SameCall
      <4>4. executed \subseteq executed'
        BY ThreadExecutes
      <4>. QED
        BY <1>1, <1>4, <4>1, <4>2, <4>3, <4>4 DEF Reviewed, SameCall
    <3>. QED
      BY <3>3, <3>4, <3>5
  <2>. QED
    BY <2>1, <2>2, <2>3, ThreadKinds
<1>. QED
  BY <1>3, <1>4

-------------------------------------------------------------------------------
(* Completed proposals.                                                    *)

(* A proposal that is complete stays so: its handler only announces it.    *)
LEMMA ThreadKeepsComplete ==
    ASSUME TypeInv, NEW c \in Calls, Thread(c), NEW v \in Calls, NEW p, Complete(v, p)
    PROVE  Complete(v, p)'
<1>1. CASE v # c
  BY <1>1, ThreadKeepsCalls DEF Complete
<1>2. CASE v = c
  <2>1. Announce(c)
    BY <1>2
    DEF Complete, Thread, PlanStep, ApplyStep, InvokeStep, AbortPlan, DenyStep,
        PassRead, MintDryRun, Persist, SampleClock, SkipStep, RefuseStep,
        MintGrant, FinishApply, Execute, RecordInvoked, InLoop, LoopOver
  <2>. QED
    BY <1>2, <2>1 DEF Announce, Complete, TypeInv, TypeOK, Call
<1>. QED
  BY <1>1, <1>2

LEMMA ArriveCompleted ==
    ASSUME TypeInv, CompletedInv, NEW c \in Calls, Arrive(c)
    PROVE  CompletedInv'
<1>1. ASSUME NEW v \in Calls, NEW p, Complete(v, p) PROVE Complete(v, p)'
  <2>1. call'[v] = call[v]
    BY <1>1, ArriveFields DEF Complete
  <2>. QED
    BY <1>1, <2>1 DEF Complete
<1>2. ASSUME NEW p \in Plans, Stored(p) PROVE Complete(plans[p].version, p)'
  <2>1. plans[p].version \in Calls /\ plans' = plans
    BY <1>2, ArriveFields DEF TypeInv, TypeOK, Record, NoRecord, Stored
  <2>2. Complete(plans[p].version, p)
    BY <1>2 DEF CompletedInv
  <2>3. Complete(plans[p].version, p)'
    <3>. DEFINE v == plans[p].version
    <3>1. v \in Calls /\ Complete(v, p) /\ v' = v
      BY <2>1, <2>2
    <3>2. call'[v] = call[v]
      BY <3>1, ArriveFields DEF Complete
    <3>. QED
      BY <3>1, <3>2 DEF Complete
  <2>. QED
    BY <2>3
<1>3. ASSUME NEW d \in Calls, call'[d].op = "apply"
      PROVE  Complete(call[d].version, call[d].plan)'
  <2>1. CASE d = c
    <3>1. PICK p \in Plans : /\ p = call'[d].plan /\ Stored(p)
                             /\ call'[d].version = plans[p].version
      BY <1>3, <2>1, ArriveFields
    <3>2. Complete(plans[p].version, p)'
      BY <1>2, <3>1
    <3>. QED
      BY <3>1, <3>2, ArriveFields DEF Complete
  <2>2. CASE d # c
    <3>1. call'[d] = call[d]
      BY <2>2, ArriveFields
    <3>2. call[d].version \in Calls /\ Complete(call[d].version, call[d].plan)
      BY <1>3, <3>1 DEF CompletedInv, TypeInv, CallsInv, CallInv
    <3>3. call'[call[d].version] = call[call[d].version]
      BY <3>2, ArriveFields DEF Complete
    <3>. QED
      BY <3>1, <3>2, <3>3 DEF Complete
  <2>. QED
    BY <2>1, <2>2
<1>. QED
  BY <1>2, <1>3, ArriveFields DEF CompletedInv, Stored

(* Only Persist changes a record, and it stores what it has completed.     *)
LEMMA ThreadStores ==
    ASSUME TypeInv, NEW c \in Calls, Thread(c)
    PROVE  /\ plans' = plans \/ Persist(c)
           /\ consented' = consented
BY DEF Thread, PlanStep, ApplyStep, InvokeStep, AbortPlan, DenyStep, PassRead,
       MintDryRun, MintGrant, Mint, Persist, Announce, SampleClock, SkipStep,
       RefuseStep, FinishApply, Execute, RecordInvoked

LEMMA PersistFields ==
    ASSUME TypeInv, PositionInv, NEW c \in Calls, Persist(c)
    PROVE  /\ call[c].op = "plan" /\ call[c].pc = "next" /\ call[c].plan \in Plans
           /\ \A p \in Plans : p # call[c].plan => plans'[p] = plans[p]
           /\ plans'[call[c].plan].version = c
           /\ plans'[call[c].plan].subject = call[c].subject
           /\ plans'[call[c].plan].approved = FALSE
           /\ \A p \in Plans : p = call[c].plan => Complete(c, p)'
<1>1. /\ call[c].op = "plan" /\ call[c].pc = "next" /\ call[c].plan \in Plans
      /\ call[c].step \notin DOMAIN StepsIn(c)
  BY DEF Persist, LoopOver, TypeInv, CallsInv, CallInv
<1>2. call[c].step = Len(StepsIn(c)) + 1
  BY <1>1, OwnState DEF PositionInv, PositionOf
<1>3. call'[c].pc = "announce" /\ call'[c].step = call[c].step
  BY RestsFields DEF Rests, Kept, Persist, TypeInv, TypeOK, Call
<1>4. /\ \A p \in Plans : p # call[c].plan => plans'[p] = plans[p]
      /\ plans'[call[c].plan] = NewRecord(c)
  BY <1>1 DEF Persist, TypeInv, TypeOK
<1>. QED
  BY <1>1, <1>2, <1>3, <1>4 DEF Complete, NewRecord, StepsIn

LEMMA ThreadCompleted ==
    ASSUME TypeInv, PositionInv, CompletedInv, NEW c \in Calls, Thread(c)
    PROVE  CompletedInv'
<1>1. ASSUME NEW p \in Plans, Stored(p)' PROVE Complete(plans[p].version, p)'
  <2>1. CASE plans'[p] = plans[p]
    <3>1. PICK v \in Calls : v = plans[p].version
      BY <1>1, <2>1 DEF TypeInv, TypeOK, Record, NoRecord, Stored
    <3>2. Complete(v, p)
      BY <1>1, <2>1, <3>1 DEF CompletedInv, Stored
    <3>3. Complete(v, p)'
      BY <3>2, ThreadKeepsComplete
    <3>. QED
      BY <2>1, <3>1, <3>3 DEF Complete
  <2>2. CASE Persist(c) /\ p = call[c].plan
    <3>1. plans'[p].version = c /\ Complete(c, p)'
      BY <2>2, PersistFields
    <3>. QED
      BY <3>1 DEF Complete
  <2>. QED
    BY <2>1, <2>2, ThreadStores, PersistFields
<1>2. ASSUME NEW d \in Calls, call'[d].op = "apply"
      PROVE  Complete(call[d].version, call[d].plan)'
  <2>1. SameCall(d) /\ call[d].op = "apply"
    BY <1>2, ThreadKeepsCalls DEF SameCall
  <2>2. PICK v \in Calls : v = call[d].version
    BY <2>1 DEF TypeInv, CallsInv, CallInv
  <2>3. PICK p : p = call[d].plan
    OBVIOUS
  <2>4. Complete(v, p)
    BY <2>1, <2>2, <2>3 DEF CompletedInv
  <2>5. Complete(v, p)'
    BY <2>4, ThreadKeepsComplete
  <2>. QED
    BY <2>1, <2>2, <2>3, <2>5 DEF Complete, SameCall
<1>. QED
  BY <1>1, <1>2 DEF CompletedInv

-------------------------------------------------------------------------------
(* The audit log.                                                          *)

LEMMA ArriveLogged ==
    ASSUME TypeInv, ExecutionsInv, LoggedInv, NEW c \in Calls, Arrive(c)
    PROVE  LoggedInv'
<1>1. ASSUME NEW d \in Calls, Granted(d)'
      PROVE  EventOf(d, "vcp.grant.minted")' \in audit
  <2>1. d # c
    BY <1>1, ArriveFields DEF Granted
  <2>2. call'[d] = call[d]
    BY <2>1, ArriveFields
  <2>. QED
    BY <1>1, <2>2 DEF LoggedInv, Granted, EventOf
<1>2. ASSUME NEW e \in executed PROVE call'[e.call] = call[e.call]
  <2>1. e.call \in Calls /\ Belongs(e)
    BY DEF TypeInv, TypeOK, Execution, ExecutionsInv
  <2>. QED
    BY <2>1, ArriveFields DEF Belongs
<1>0. executed' = executed /\ audit' = audit
  BY ArriveFields
<1>3. AuditTrail'
  BY <1>0, <1>2 DEF LoggedInv, AuditTrail, Logged
<1>. QED
  BY <1>1, <1>3, ArriveFields DEF LoggedInv

LEMMA ThreadLogged ==
    ASSUME TypeInv, PositionInv, LoggedInv, NEW c \in Calls, Thread(c)
    PROVE  LoggedInv'
<1>1. /\ \A d \in Calls \ {c} : call'[d] = call[d]
      /\ audit \subseteq audit'
  BY ThreadKeepsCalls, ThreadExecutes
<1>2. ASSUME NEW d \in Calls \ {c}, Granted(d)'
      PROVE  EventOf(d, "vcp.grant.minted")' \in audit'
  BY <1>1, <1>2 DEF LoggedInv, Granted, EventOf
<1>3. ASSUME NEW e \in executed, e.call # c
      PROVE  /\ Logged(e, "vcp.grant.minted")'
             /\ \/ Logged(e, "vcp.capability.invoked")'
                \/ call'[e.call].pc = "record" /\ call'[e.call].step = e.step
  <2>1. e.call \in Calls \ {c}
    BY <1>3 DEF TypeInv, TypeOK, Execution
  <2>. QED
    BY <1>1, <2>1 DEF LoggedInv, AuditTrail, Logged
<1>4. ASSUME Granted(c)' => EventOf(c, "vcp.grant.minted")' \in audit',
             \A e \in executed' : e.call = c =>
                /\ Logged(e, "vcp.grant.minted")'
                /\ \/ Logged(e, "vcp.capability.invoked")'
                   \/ call'[c].pc = "record" /\ call'[c].step = e.step,
             executed' \subseteq executed \union {ExecutionOf(c)}
      PROVE  LoggedInv'
  BY <1>2, <1>3, <1>4 DEF LoggedInv, AuditTrail, ExecutionOf
<1>5. ASSUME NEW e \in executed, e.call = c
      PROVE  /\ Logged(e, "vcp.grant.minted")'
             /\ \/ Logged(e, "vcp.capability.invoked")'
                \/ call[c].pc = "record" /\ call[c].step = e.step
  BY <1>1, <1>5 DEF LoggedInv, AuditTrail, Logged
<1>6. CASE RecordInvoked(c)
  <2>1. /\ executed' = executed /\ ~Granted(c)'
        /\ EventOf(c, "vcp.capability.invoked") \in audit'
    BY <1>6, AdvanceFacts, ReportFields, AnswerFields
    DEF RecordInvoked, InvokedEvents, Granted
  <2>. QED
    BY <1>4, <1>5, <2>1 DEF EventOf, Logged
<1>7. CASE Execute(c)
  <2>1. /\ Kept(c) /\ call'[c].pc = "record" /\ call[c].pc = "execute"
        /\ executed' = executed \union {ExecutionOf(c)}
    BY <1>7, ExecuteFields
  <2>2. EventOf(c, "vcp.grant.minted") \in audit
    BY <2>1 DEF LoggedInv, Granted
  <2>. QED
    BY <1>1, <1>4, <1>5, <2>1, <2>2 DEF EventOf, ExecutionOf, Logged, Kept
<1>8. CASE MintDryRun(c) \/ MintGrant(c)
  <2>1. /\ Kept(c) /\ call[c].pc = "next" /\ executed' = executed
        /\ audit' = audit \union {EventOf(c, "vcp.grant.minted")}
    BY <1>8, MintedNotDenied, MintFields
  <2>. QED
    BY <1>4, <1>5, <2>1 DEF EventOf, Kept
<1>9. CASE Rests(c)
  BY <1>4, <1>5, <1>9, RestsFields DEF Granted
<1>10. CASE DenyStep(c) \/ PassRead(c) \/ SkipStep(c) \/ RefuseStep(c)
  <2>1. call[c].pc = "next"
    BY <1>10 DEF DenyStep, PassRead, SkipStep, RefuseStep, InLoop
  <2>2. executed' = executed /\ ~Granted(c)'
    BY <1>10, AdvanceFacts, ReportFields, AnswerFields DEF Granted
  <2>. QED
    BY <1>4, <1>5, <2>1, <2>2
<1>. QED
  BY <1>6, <1>7, <1>8, <1>9, <1>10, ThreadKinds

-------------------------------------------------------------------------------
(* The answers.                                                            *)

LEMMA ArriveResults ==
    ASSUME TypeInv, PositionInv, ExecutionsInv, ResultsTruthful,
           NEW c \in Calls, Arrive(c)
    PROVE  ResultsTruthful'
<1>1. executed' = executed
  BY ArriveFields
<1>2. call'[c].results = <<>>
  BY ArriveFields DEF Kept, PositionInv, PositionOf
<1>3. ASSUME NEW d \in Calls \ {c} PROVE call'[d] = call[d]
  BY ArriveFields
<1>. QED
  BY <1>1, <1>2, <1>3 DEF ResultsTruthful

(* An apply answers "allow" only for the step whose execution it records,  *)
(* and answers no step before it was executed or was refused.              *)
LEMMA ThreadResults ==
    ASSUME TypeInv, PositionInv, ExecutionsInv, ResultsTruthful,
           NEW c \in Calls, Thread(c)
    PROVE  ResultsTruthful'
<1>. DEFINE Ran(x, i, d) == \E e \in x : e.call = d /\ e.step = i
<1>1. executed' \subseteq executed \union {ExecutionOf(c)} /\ executed \subseteq executed'
  BY ThreadKinds, ThreadExecutes, RestsFields, AdvanceFacts, MintedNotDenied,
     MintFields, ExecuteFields
<1>2. ASSUME NEW d \in Calls \ {c}, NEW i \in DOMAIN call'[d].results
      PROVE  call'[d].results[i] = "allow" <=> Ran(executed', i, d)
  <2>1. call'[d] = call[d]
    BY ThreadKeepsCalls
  <2>2. Ran(executed', i, d) <=> Ran(executed, i, d)
    BY <1>1 DEF ExecutionOf
  <2>. QED
    BY <1>2, <2>1, <2>2 DEF ResultsTruthful
<1>3. ASSUME NEW i \in DOMAIN call[c].results
      PROVE  call[c].results[i] = "allow" <=> Ran(executed', i, c)
  <2>1. call[c].results[i] = "allow" <=> Ran(executed, i, c)
    BY <1>3 DEF ResultsTruthful
  <2>2. i # call[c].step
    BY <1>3, OwnState DEF PositionInv, PositionOf
  <2>3. Ran(executed', i, c) <=> Ran(executed, i, c)
    BY <1>1, <2>2 DEF ExecutionOf
  <2>. QED
    BY <2>1, <2>3
<1>4. ASSUME NEW i \in DOMAIN call'[c].results
      PROVE  call'[c].results[i] = "allow" <=> Ran(executed', i, c)
  <2>1. ASSUME call'[c].results = call[c].results
        PROVE  call'[c].results[i] = "allow" <=> Ran(executed', i, c)
    BY <1>3, <1>4, <2>1
  <2>2. ASSUME NEW x \in Decisions, Answer(c, x), call[c].op = "apply",
               executed' = executed,
               x = "allow" <=> Ran(executed, call[c].step, c)
        PROVE  call'[c].results[i] = "allow" <=> Ran(executed', i, c)
    <3>1. /\ call'[c].results = Append(call[c].results, x)
          /\ call[c].results \in Seq(Decisions)
          /\ Len(call[c].results) = call[c].step - 1 /\ call[c].step \in Nat
      BY <2>2, AnswerFields, OwnState DEF PositionInv, PositionOf
    <3>2. CASE i \in 1 .. Len(call[c].results)
      <4>1. call'[c].results[i] = call[c].results[i] /\ i \in DOMAIN call[c].results
        BY <3>1, <3>2
      <4>. QED
        BY <1>3, <4>1
    <3>3. CASE i = call[c].step
      <4>1. call'[c].results[i] = x
        BY <3>1, <3>3
      <4>. QED
        BY <2>2, <3>3, <4>1
    <3>. QED
      BY <1>4, <3>1, <3>2, <3>3
  <2>3. CASE Rests(c) \/ MintDryRun(c) \/ MintGrant(c) \/ Execute(c)
    BY <2>1, <2>3, RestsFields, MintedNotDenied, MintFields, ExecuteFields DEF Kept
  <2>4. CASE DenyStep(c) \/ PassRead(c)
    BY <2>1, <2>4, ReportFields DEF DenyStep, PassRead
  <2>5. CASE SkipStep(c) \/ RefuseStep(c)
    <3>1. /\ call[c].op = "apply" /\ call[c].pc = "next" /\ executed' = executed
          /\ \E x \in Decisions : x # "allow" /\ Answer(c, x)
      BY <2>5, AuthoriseType DEF SkipStep, RefuseStep, InLoop, InvokeDecision, Decisions
    <3>2. ~Ran(executed, call[c].step, c)
      <4>. SUFFICES ASSUME NEW e \in executed, e.call = c, e.step = call[c].step
                    PROVE  FALSE
        OBVIOUS
      <4>1. Belongs(e) /\ call[c].step \in Nat
        BY OwnState DEF ExecutionsInv
      <4>. QED
        BY <3>1, <4>1 DEF Belongs
    <3>. QED
      BY <2>2, <3>1, <3>2
  <2>6. CASE RecordInvoked(c)
    <3>1. /\ call[c].pc = "record" /\ executed' = executed
          /\ call[c].op = "plan" \/ call[c].op = "apply"
      BY <2>6, AdvanceFacts DEF RecordInvoked
    <3>2. CASE call[c].op = "plan"
      BY <2>1, <2>6, <3>2, ReportFields DEF RecordInvoked
    <3>3. CASE call[c].op = "apply"
      <4>1. Answer(c, "allow") /\ "allow" \in Decisions
        BY <2>6, <3>3 DEF RecordInvoked, Decisions
      <4>2. Ran(executed, call[c].step, c)
        BY <3>1 DEF ExecutionsInv, ExecutionOf
      <4>. QED
        BY <2>2, <3>1, <3>3, <4>1, <4>2
    <3>. QED
      BY <3>1, <3>2, <3>3
  <2>. QED
    BY <2>3, <2>4, <2>5, <2>6, ThreadKinds
<1>. QED
  BY <1>2, <1>4 DEF ResultsTruthful

-------------------------------------------------------------------------------
(* The invariant.                                                          *)

(* Nothing has happened at first. *)
LEMMA HistoryInit == Init => HistoryInv
BY DEF Init, Idle, HistoryInv, PositionInv, PositionOf, Granted, ExecutionsInv,
       ReviewsInv, CompletedInv, Stored, NoRecord, LoggedInv, AuditTrail,
       ResultsTruthful

(* Steps of the clock and of an approving user touch none of it.           *)
LEMMA QuietHistory ==
    ASSUME TypeInv, HistoryInv, UNCHANGED <<call, audit, executed>>,
           \A p \in Plans : plans'[p].version = plans[p].version
    PROVE  HistoryInv'
<1>1. PositionInv' /\ ExecutionsInv' /\ ReviewsInv'
  BY DEF HistoryInv, PositionInv, PositionOf, Granted, StepAt, StepsIn,
         ExecutionsInv, Belongs, ExecutionOf, ReviewsInv, Reviewed, DryRunOf
<1>2. CompletedInv'
  BY DEF HistoryInv, CompletedInv, Complete, Stored
<1>3. LoggedInv' /\ ResultsTruthful'
  BY DEF HistoryInv, LoggedInv, AuditTrail, Logged, Granted, EventOf, ResultsTruthful
<1>. QED
  BY <1>1, <1>2, <1>3 DEF HistoryInv

LEMMA HistoryInvariant == Spec => []HistoryInv
<1>1. Init => HistoryInv
  BY HistoryInit
<1>2. TypeInv /\ TypeInv' /\ HistoryInv /\ [Next]_vars => HistoryInv'
  <2>. SUFFICES ASSUME TypeInv, TypeInv', HistoryInv, [Next]_vars PROVE HistoryInv'
    OBVIOUS
  <2>1. CASE UNCHANGED vars \/ Tick
    BY <2>1, QuietHistory DEF vars, Tick
  <2>2. ASSUME NEW p \in Plans, Approve(p) PROVE HistoryInv'
    <3>1. \A q \in Plans : plans'[q].version = plans[q].version
      BY <2>2 DEF Approve, TypeInv, TypeOK, Record, NoRecord
    <3>. QED
      BY <2>2, <3>1, QuietHistory DEF Approve
  <2>3. ASSUME NEW c \in Calls, Arrive(c) PROVE HistoryInv'
    BY <2>3, ArrivePosition, ArriveExecutions, ArriveReviews, ArriveCompleted,
       ArriveLogged, ArriveResults DEF HistoryInv
  <2>4. ASSUME NEW c \in Calls, Thread(c) PROVE HistoryInv'
    BY <2>4, ThreadPosition, ThreadExecutions, ThreadReviews, ThreadCompleted,
       ThreadLogged, ThreadResults DEF HistoryInv
  <2>. QED
    BY <2>1, <2>2, <2>3, <2>4 DEF Next
<1>. QED
  BY <1>1, <1>2, TypeInvariant, PTL DEF Spec

-------------------------------------------------------------------------------
(* What it implies.                                                        *)

(* What an apply executes belongs to a step that its proposal reviewed and *)
(* that the policy does not deny outright.                                 *)
LEMMA ExecutedWasReviewed ==
    ASSUME TypeInv, ConsentInv, HistoryInv, NEW e \in executed, ~e.dryRun
    PROVE  LET v == call[e.call].version IN
           /\ Reviewed(v, e.step)
           /\ ~PlanDenies(StepsIn(v)[e.step], call[v].plan)
           /\ call[v].plan = e.plan /\ call[v].subject = e.subject
<1>. DEFINE v == call[e.call].version
<1>1. Belongs(e) /\ e \in Execution
  BY DEF HistoryInv, ExecutionsInv, TypeInv, TypeOK
<1>2. call[e.call].op = "apply" /\ e.call \in Calls /\ v \in Calls
  BY <1>1 DEF Belongs, Execution, TypeInv, CallsInv, CallInv
<1>3. /\ call[v].op = "plan" /\ call[v].plan = e.plan
      /\ call[v].subject = e.subject
  BY <1>1, <1>2 DEF Belongs, ConsentInv, TicketsInv, Proposed
<1>4. Len(call[v].reports) = Len(StepsIn(v))
  <2>1. call[v].step = Len(StepsOf[e.plan]) + 1
    BY <1>1, <1>2 DEF Belongs, HistoryInv, CompletedInv, Complete
  <2>2. Len(call[v].reports) = call[v].step - 1
    BY <1>2, <1>3 DEF HistoryInv, PositionInv, PositionOf
  <2>. QED
    BY <1>2, <1>3, <2>1, <2>2, OwnState DEF StepsIn
<1>5. e.step \in 1 .. Len(call[v].reports)
  BY <1>1, <1>2, <1>3, <1>4, OwnState DEF Belongs, StepsIn
<1>6. Reviewed(v, e.step)
  BY <1>2, <1>3, <1>5 DEF HistoryInv, ReviewsInv
<1>. QED
  BY <1>1, <1>3, <1>6 DEF StepsIn, Belongs

(* Every write an apply executes was dry-run, step for step, by the        *)
(* proposal it applies, for every number of requests and every plan,       *)
(* whatever its step ids.                                                  *)
THEOREM EveryWriteWasReviewed == Spec => []DiffBeforeCommit
<1>1. TypeInv /\ ConsentInv /\ HistoryInv => DiffBeforeCommit
  <2>. SUFFICES ASSUME TypeInv, ConsentInv, HistoryInv,
                       NEW e \in executed, Written(e)
                PROVE  [e EXCEPT !.call = call[e.call].version, !.dryRun = TRUE]
                         \in executed
    BY DEF DiffBeforeCommit
  <2>. DEFINE v == call[e.call].version
  <2>1. ~e.dryRun /\ NeedsDryRun(StepsOf[e.plan][e.step])
    BY DEF Written, NeedsDryRun
  <2>2. /\ Reviewed(v, e.step)
        /\ ~PlanDenies(StepsIn(v)[e.step], call[v].plan)
        /\ call[v].plan = e.plan /\ call[v].subject = e.subject
    BY <2>1, ExecutedWasReviewed
  <2>3. DryRunOf(v, e.step) \in executed
    BY <2>1, <2>2 DEF Reviewed, StepsIn
  <2>4. [e EXCEPT !.call = v, !.dryRun = TRUE] = DryRunOf(v, e.step)
    <3>. DEFINE f == [e EXCEPT !.call = v, !.dryRun = TRUE]
    <3>0. e \in Execution /\ v \in Calls
      BY <2>1 DEF TypeInv, TypeOK, CallsInv, CallInv, Execution, HistoryInv,
                  ExecutionsInv, Belongs
    <3>1. f \in Execution
      BY <3>0 DEF Execution
    <3>2. /\ f.call = v /\ f.dryRun = TRUE
          /\ f.step = e.step /\ f.plan = e.plan /\ f.subject = e.subject
      BY <3>0 DEF Execution
    <3>. HIDE DEF f
    <3>3. f = [call |-> v, step |-> e.step, plan |-> e.plan,
               subject |-> e.subject, dryRun |-> TRUE]
      BY <3>1, <3>2 DEF Execution
    <3>. QED
      BY <2>2, <3>3 DEF DryRunOf, f
  <2>. QED
    BY <2>3, <2>4
<1>. QED
  BY <1>1, TypeInvariant, ConsentInvariant, HistoryInvariant, PTL

(* A step its proposal reported as denied is never executed, not even when *)
(* a repeated step id makes apply read another step's report.              *)
THEOREM DenialsHold == Spec => []DeniedStaysDenied
<1>1. TypeInv /\ ConsentInv /\ HistoryInv => DeniedStaysDenied
  BY ExecutedWasReviewed DEF DeniedStaysDenied, Reviewed
<1>. QED
  BY <1>1, TypeInvariant, ConsentInvariant, HistoryInvariant, PTL

(* Every execution is explained by the audit log: its grant was recorded   *)
(* before, its invocation is recorded right after.                         *)
THEOREM LogExplains == Spec => []AuditTrail
<1>1. HistoryInv => AuditTrail
  BY DEF HistoryInv, LoggedInv
<1>. QED
  BY <1>1, HistoryInvariant, PTL

(* What apply answers is what happened, for every plan.                    *)
THEOREM AnswersAreTrue == Spec => []ResultsTruthful
<1>1. HistoryInv => ResultsTruthful
  BY DEF HistoryInv
<1>. QED
  BY <1>1, HistoryInvariant, PTL
===============================================================================
