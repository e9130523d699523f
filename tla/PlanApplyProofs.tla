---------------------------- MODULE PlanApplyProofs ----------------------------
(***************************************************************************)
(* Proofs about PlanApply, for every set of calls, plans and subjects and  *)
(* every TTL: the types, and that no write is executed without consent to  *)
(* the very proposal it was admitted under.                                *)
(***************************************************************************)
EXTENDS PlanApply, TLAPS

(* A call that is under way knows what it is about, and a plan request is  *)
(* its own version.                                                        *)
CallInv(c) ==
    /\ call[c].pc \notin {"idle", "done", "aborted"} => call[c].op # "none"
    /\ call[c].op # "none" =>
        /\ call[c].pc # "idle"
        /\ call[c].plan \in Plans
        /\ call[c].subject \in Subjects
        /\ call[c].version \in Calls
    /\ call[c].op = "plan" => call[c].version = c

CallsInv == \A c \in Calls : CallInv(c)

TypeInv == TypeOK /\ CallsInv

(* Proposal v is of plan p for subject s, and reached by an approval if    *)
(* `approved` says so.                                                     *)
Proposed(v, p, s, approved) ==
    /\ call[v].op = "plan"
    /\ call[v].plan = p
    /\ call[v].subject = s
    /\ approved => v \in consented

RecordsInv ==
    \A p \in Plans : Stored(p) =>
        Proposed(plans[p].version, p, plans[p].subject, plans[p].approved)

TicketsInv ==
    \A c \in Calls : call[c].op = "apply" =>
        Proposed(call[c].version, call[c].plan, call[c].subject, call[c].approved)

(* A grant for a write is only minted under an approved admission.         *)
MintedInv ==
    \A c \in Calls :
        /\ call[c].pc = "execute"
        /\ call[c].op = "apply"
        /\ IsWrite(EffectClass(StepAt(c).cap))
        => call[c].approved

ExecutedInv ==
    \A e \in executed : Written(e) =>
        /\ call[e.call].op = "apply"
        /\ call[e.call].approved
        /\ call[e.call].plan = e.plan
        /\ call[e.call].subject = e.subject

ConsentInv == RecordsInv /\ TicketsInv /\ MintedInv /\ ExecutedInv

-------------------------------------------------------------------------------
(* Types.                                                                  *)

(* Whatever is asked, the policy answers one of the three decisions.       *)
LEMMA DecideType ==
    ASSUME NEW effect, NEW flows, NEW approval, NEW plan
    PROVE  Decide(effect, flows, approval, plan).decision \in Decisions
BY DEF Decide, Verdict, Decisions

(* So does the pipeline in front of it.                                    *)
LEMMA AuthoriseType ==
    ASSUME NEW s, NEW approval, NEW p
    PROVE  Authorise(s, approval, p) \in Decisions
BY DecideType DEF Authorise, Decisions

(* r is a well-formed state of call c. *)
Fits(c, r) ==
    /\ r \in Call
    /\ r.pc \notin {"idle", "done", "aborted"} => r.op # "none"
    /\ r.op # "none" =>
        /\ r.pc # "idle"
        /\ r.plan \in Plans
        /\ r.subject \in Subjects
        /\ r.version \in Calls
    /\ r.op = "plan" => r.version = c

(* A call replaced by a well-formed one leaves all calls well formed.       *)
LEMMA CallUpdate ==
    ASSUME TypeInv, NEW c \in Calls, NEW r, Fits(c, r),
           call' = [call EXCEPT ![c] = r]
    PROVE  call' \in [Calls -> Call] /\ CallsInv'
<1>1. \A d \in Calls : d # c => call'[d] = call[d]
  BY DEF TypeInv, TypeOK
<1>2. call'[c] = r /\ call' \in [Calls -> Call]
  BY DEF TypeInv, TypeOK, Fits
<1>. QED
  BY <1>1, <1>2 DEF TypeInv, CallsInv, CallInv, Fits

(* What a call is now is well formed.                                      *)
LEMMA OwnCallFits ==
    ASSUME TypeInv, NEW c \in Calls
    PROVE  Fits(c, call[c])
BY DEF TypeInv, TypeOK, CallsInv, CallInv, Fits

(* Moving a call on keeps it well formed. *)
LEMMA MoveType ==
    ASSUME TypeInv, NEW c \in Calls, NEW k \in PCs \ {"idle"},
           call[c].op # "none" \/ k \in {"done", "aborted"},
           call' = [call EXCEPT ![c].pc = k]
    PROVE  call' \in [Calls -> Call] /\ CallsInv'
<1>. DEFINE r == [call[c] EXCEPT !.pc = k]
<1>1. Fits(c, call[c])
  BY OwnCallFits
<1>2. r \in Call
  BY <1>1 DEF Fits, Call
<1>3. Fits(c, r)
  BY <1>1, <1>2 DEF Fits, Call
<1>. QED
  BY <1>3, CallUpdate

(* Appending a report or a result keeps it well formed. *)
LEMMA AdvanceType ==
    ASSUME TypeInv, NEW c \in Calls, NEW d \in Decisions,
           call[c].op # "none", Report(c, d) \/ Answer(c, d)
    PROVE  call' \in [Calls -> Call] /\ CallsInv'
<1>1. Fits(c, call[c])
  BY OwnCallFits
<1>2. CASE Report(c, d)
  <2>. DEFINE r == [call[c] EXCEPT !.pc = "next", !.step = call[c].step + 1,
                                   !.reports = Append(call[c].reports, d)]
  <2>0. /\ call[c].step + 1 \in Nat \ {0}
        /\ Append(call[c].reports, d) \in Seq(Decisions)
    BY <1>1 DEF Fits, Call
  <2>1. r \in Call
    BY <1>1, <2>0 DEF Fits, Call, PCs
  <2>2. Fits(c, r)
    BY <1>1, <2>1 DEF Fits, Call
  <2>. QED
    BY <1>2, <2>2, CallUpdate DEF Report
<1>3. CASE Answer(c, d)
  <2>. DEFINE r == [call[c] EXCEPT !.pc = "next", !.step = call[c].step + 1,
                                   !.results = Append(call[c].results, d)]
  <2>0. /\ call[c].step + 1 \in Nat \ {0}
        /\ Append(call[c].results, d) \in Seq(Decisions)
    BY <1>1 DEF Fits, Call
  <2>1. r \in Call
    BY <1>1, <2>0 DEF Fits, Call, PCs
  <2>2. Fits(c, r)
    BY <1>1, <2>1 DEF Fits, Call
  <2>. QED
    BY <1>3, <2>2, CallUpdate DEF Answer
<1>. QED
  BY <1>2, <1>3

(* Arrivals start a well-formed call. *)
LEMMA ArriveType ==
    ASSUME TypeInv, NEW c \in Calls, Arrive(c)
    PROVE  TypeInv'
<1>1. ASSUME NEW p \in Plans, RefusePlan(c, p) \/ RefuseApply(c, p) PROVE TypeInv'
  BY <1>1, MoveType DEF RefusePlan, RefuseApply, PCs, TypeInv, TypeOK
<1>2. Idle \in Call /\ clock \in Nat
  BY DEF Idle, Call, PCs, TypeInv, TypeOK
<1>3. ASSUME NEW p \in Plans, NEW s \in Subjects, BeginPlan(c, p, s) PROVE TypeInv'
  <2>. DEFINE r == [Idle EXCEPT !.pc = "next", !.op = "plan", !.plan = p,
                      !.subject = s, !.version = c, !.now = clock]
  <2>1. r \in Call
    BY <1>2 DEF Call, PCs
  <2>2. Fits(c, r)
    BY <2>1 DEF Fits, Idle
  <2>. QED
    BY <1>3, <2>2, CallUpdate DEF BeginPlan, TypeInv, TypeOK
<1>4. ASSUME NEW p \in Plans, Admit(c, p) PROVE TypeInv'
  <2>. DEFINE r == [Idle EXCEPT !.pc = "clock", !.op = "apply", !.plan = p,
                      !.subject = plans[p].subject, !.version = plans[p].version,
                      !.approved = plans[p].approved, !.reports = plans[p].reports]
  <2>1. plans[p] \in Record
    BY <1>4 DEF Admit, Stored, NoRecord, TypeInv, TypeOK
  <2>2. r \in Call
    BY <1>2, <2>1 DEF Call, PCs, Record
  <2>3. Fits(c, r)
    BY <2>1, <2>2 DEF Fits, Idle, Record
  <2>. QED
    BY <1>4, <2>3, CallUpdate DEF Admit, TypeInv, TypeOK
<1>. QED
  BY <1>1, <1>3, <1>4 DEF Arrive

(* An audit event of a call is an audit event.                             *)
LEMMA EventType ==
    ASSUME TypeInv, NEW c \in Calls, NEW e \in Events
    PROVE  EventOf(c, e) \in Event
BY DEF TypeInv, TypeOK, Call, EventOf, Event

(* Every step of a running handler keeps the types. *)
LEMMA ThreadType ==
    ASSUME TypeInv, NEW c \in Calls, Thread(c)
    PROVE  TypeInv'
<1>1. CASE AbortPlan(c)
  BY <1>1, MoveType DEF AbortPlan, TypeInv, TypeOK, PCs
<1>2. CASE DenyStep(c)
  <2>1. call[c].op # "none" /\ "deny" \in Decisions
    BY <1>2 DEF DenyStep, InLoop, Decisions
  <2>2. EventOf(c, "vcp.policy.denied") \in Event
    BY EventType DEF Events
  <2>. QED
    BY <1>2, <2>1, <2>2, AdvanceType DEF DenyStep, TypeInv, TypeOK
<1>3. CASE PassRead(c)
  <2>1. call[c].op # "none" /\ Probe(StepAt(c), call[c].plan) \in Decisions
    BY <1>3, AuthoriseType DEF PassRead, InLoop, Probe
  <2>. QED
    BY <1>3, <2>1, AdvanceType DEF PassRead, TypeInv, TypeOK
<1>4. ASSUME Mint(c), call[c].op # "none" PROVE TypeInv'
  <2>1. EventOf(c, "vcp.grant.minted") \in Event
    BY EventType DEF Events
  <2>. DEFINE r == [call[c] EXCEPT !.pc = "execute",
                                   !.expires = call[c].now + GrantTtl]
  <2>2. Fits(c, call[c])
    BY OwnCallFits
  <2>3. call[c].now + GrantTtl \in Nat
    BY <2>2, TtlAssumption DEF Fits, Call
  <2>5. r \in Call
    BY <2>2, <2>3 DEF Fits, Call, PCs
  <2>4. Fits(c, r)
    BY <1>4, <2>2, <2>5 DEF Fits, Call
  <2>. QED
    BY <1>4, <2>1, <2>4, CallUpdate DEF Mint, TypeInv, TypeOK
<1>5. CASE MintDryRun(c) \/ MintGrant(c)
  BY <1>5, <1>4 DEF MintDryRun, MintGrant, InLoop
<1>6. CASE Persist(c)
  <2>1. NewRecord(c) \in Record
    BY <1>6, TtlAssumption
    DEF Persist, LoopOver, NewRecord, Record, TypeInv, TypeOK, CallsInv, CallInv, Call
  <2>. QED
    BY <1>6, <2>1, MoveType DEF Persist, LoopOver, TypeInv, TypeOK, PCs
<1>7. CASE Announce(c)
  <2>1. EventOf(c, "vcp.plan.proposed") \in Event
    BY EventType DEF Events
  <2>. QED
    BY <1>7, <2>1, MoveType DEF Announce, TypeInv, TypeOK, PCs
<1>8. CASE SampleClock(c)
  <2>. DEFINE k == IF IndexRaises(c) THEN "aborted" ELSE "next"
              r == [call[c] EXCEPT !.now = clock, !.pc = k]
  <2>1. Fits(c, call[c]) /\ clock \in Nat /\ k \in PCs
    BY OwnCallFits DEF TypeInv, TypeOK, PCs
  <2>2. r \in Call
    BY <2>1 DEF Fits, Call
  <2>3. Fits(c, r)
    BY <1>8, <2>1, <2>2 DEF SampleClock, Fits, Call
  <2>. QED
    BY <1>8, <2>3, CallUpdate DEF SampleClock, TypeInv, TypeOK
<1>9. CASE SkipStep(c)
  <2>1. call[c].op # "none" /\ "deny" \in Decisions
    BY <1>9 DEF SkipStep, InLoop, Decisions
  <2>. QED
    BY <1>9, <2>1, AdvanceType DEF SkipStep, TypeInv, TypeOK
<1>10. CASE RefuseStep(c)
  <2>1. call[c].op # "none" /\ InvokeDecision(c) \in Decisions
    BY <1>10, AuthoriseType DEF RefuseStep, InLoop, InvokeDecision
  <2>2. EventOf(c, "vcp.policy.denied") \in Event
    BY EventType DEF Events
  <2>. QED
    BY <1>10, <2>1, <2>2, AdvanceType DEF RefuseStep, TypeInv, TypeOK
<1>11. CASE FinishApply(c)
  BY <1>11, MoveType DEF FinishApply, TypeInv, TypeOK, PCs
<1>12. CASE Execute(c)
  <2>1. [call |-> c, step |-> call[c].step, plan |-> call[c].plan,
         subject |-> call[c].subject, dryRun |-> call[c].op = "plan"] \in Execution
    BY <1>12 DEF Execute, Execution, TypeInv, TypeOK, CallsInv, CallInv, Call
  <2>. QED
    BY <1>12, <2>1, MoveType DEF Execute, TypeInv, TypeOK, CallsInv, CallInv, PCs
<1>13. CASE RecordInvoked(c)
  <2>1. call[c].op # "none" /\ "challenge" \in Decisions /\ "allow" \in Decisions
    BY <1>13 DEF RecordInvoked, TypeInv, CallsInv, CallInv, Decisions
  <2>2. InvokedEvents(c) \subseteq Event
    BY EventType DEF Events, InvokedEvents
  <2>. QED
    BY <1>13, <2>1, <2>2, AdvanceType DEF RecordInvoked, TypeInv, TypeOK
<1>. QED
  BY <1>1, <1>2, <1>3, <1>5, <1>6, <1>7, <1>8, <1>9, <1>10, <1>11, <1>12, <1>13
  DEF Thread, PlanStep, ApplyStep, InvokeStep

(* Types, and what a call under way knows, hold in every state.            *)
LEMMA TypeInvariant == Spec => []TypeInv
<1>1. Init => TypeInv
  BY NoneAssumption
  DEF Init, TypeInv, TypeOK, CallsInv, CallInv, Call, PCs, Idle, Record, NoRecord
<1>2. TypeInv /\ [Next]_vars => TypeInv'
  <2>. SUFFICES ASSUME TypeInv, [Next]_vars PROVE TypeInv'
    OBVIOUS
  <2>1. CASE UNCHANGED vars
    BY <2>1 DEF vars, TypeInv, TypeOK, CallsInv, CallInv
  <2>2. CASE Tick
    BY <2>2 DEF Tick, TypeInv, TypeOK, CallsInv, CallInv
  <2>3. ASSUME NEW p \in Plans, Approve(p) PROVE TypeInv'
    <3>1. plans[p] \in Record
      BY <2>3 DEF Approve, Stored, NoRecord, TypeInv, TypeOK
    <3>2. [plans[p] EXCEPT !.approved = TRUE] \in Record
      BY <3>1 DEF Record
    <3>. QED
      BY <2>3, <3>1, <3>2 DEF Approve, Record, TypeInv, TypeOK, CallsInv, CallInv
  <2>4. ASSUME NEW c \in Calls, Arrive(c) \/ Thread(c) PROVE TypeInv'
    BY <2>4, ArriveType, ThreadType
  <2>. QED
    BY <2>1, <2>2, <2>3, <2>4 DEF Next
<1>. QED
  BY <1>1, <1>2, PTL DEF Spec

(* The state stays well typed, for every instance. *)
THEOREM TypeCorrect == Spec => []TypeOK
BY TypeInvariant, PTL DEF TypeInv

-------------------------------------------------------------------------------
(* Consent.                                                                *)

(* What a call is about never changes once it has begun.                   *)
SameCall(d) ==
    /\ call'[d].op = call[d].op
    /\ call'[d].plan = call[d].plan
    /\ call'[d].subject = call[d].subject
    /\ call'[d].version = call[d].version
    /\ call'[d].approved = call[d].approved

(* A step of a handler only moves its own call, and not what it is about.  *)
LEMMA ThreadKeepsCalls ==
    ASSUME TypeInv, NEW c \in Calls, Thread(c)
    PROVE  /\ \A d \in Calls : SameCall(d)
           /\ \A d \in Calls \ {c} : call'[d] = call[d]
<1>. call \in [Calls -> Call]
  BY DEF TypeInv, TypeOK
<1>. call[c] \in Call
  OBVIOUS
<1>1. ASSUME NEW k, call' = [call EXCEPT ![c].pc = k]
      PROVE  SameCall(c) /\ \A d \in Calls \ {c} : call'[d] = call[d]
  BY <1>1 DEF SameCall, Call
<1>2. ASSUME NEW d, Report(c, d) \/ Answer(c, d)
      PROVE  SameCall(c) /\ \A x \in Calls \ {c} : call'[x] = call[x]
  <2>1. CASE Report(c, d)
    BY <2>1 DEF SameCall, Call, Report
  <2>2. CASE Answer(c, d)
    BY <2>2 DEF SameCall, Call, Answer
  <2>. QED
    BY <1>2, <2>1, <2>2
<1>3. ASSUME Mint(c) \/ SampleClock(c)
      PROVE  SameCall(c) /\ \A d \in Calls \ {c} : call'[d] = call[d]
  <2>1. CASE Mint(c)
    BY <2>1 DEF SameCall, Call, Mint
  <2>2. CASE SampleClock(c)
    BY <2>2 DEF SameCall, Call, SampleClock
  <2>. QED
    BY <1>3, <2>1, <2>2
<1>4. SameCall(c) /\ \A d \in Calls \ {c} : call'[d] = call[d]
  <2>1. CASE PlanStep(c)
    BY <1>1, <1>2, <1>3, <2>1
    DEF PlanStep, AbortPlan, DenyStep, PassRead, MintDryRun, Persist, Announce
  <2>2. CASE ApplyStep(c)
    BY <1>1, <1>2, <1>3, <2>2
    DEF ApplyStep, SkipStep, RefuseStep, MintGrant, FinishApply
  <2>3. CASE InvokeStep(c)
    BY <1>1, <1>2, <2>3 DEF InvokeStep, Execute, RecordInvoked
  <2>. QED
    BY <2>1, <2>2, <2>3 DEF Thread
<1>. QED
  BY <1>4 DEF SameCall

(* A request arrives in a call that was about nothing; no other moves.     *)
LEMMA ArriveKeepsCalls ==
    ASSUME TypeInv, NEW c \in Calls, Arrive(c)
    PROVE  /\ call[c].op = "none" /\ call'[c].pc \in {"next", "clock", "done"}
           /\ \A d \in Calls \ {c} : call'[d] = call[d]
<1>. call \in [Calls -> Call] /\ CallInv(c)
  BY DEF TypeInv, TypeOK, CallsInv
<1>1. call[c].pc = "idle"
  BY DEF Arrive, RefusePlan, BeginPlan, RefuseApply, Admit
<1>2. call[c].op = "none"
  BY <1>1 DEF CallInv
<1>3. call'[c].pc \in {"next", "clock", "done"}
  <2>. PICK p \in Plans : \/ RefusePlan(c, p) \/ RefuseApply(c, p) \/ Admit(c, p)
                         \/ \E s \in Subjects : BeginPlan(c, p, s)
    BY DEF Arrive
  <2>1. CASE RefusePlan(c, p) \/ RefuseApply(c, p)
    BY <2>1 DEF RefusePlan, RefuseApply, Call
  <2>2. CASE Admit(c, p)
    BY <2>2 DEF Admit, Idle
  <2>3. CASE \E s \in Subjects : BeginPlan(c, p, s)
    BY <2>3 DEF BeginPlan, Idle
  <2>. QED
    BY <2>1, <2>2, <2>3
<1>4. \A d \in Calls \ {c} : call'[d] = call[d]
  BY DEF Arrive, RefusePlan, BeginPlan, RefuseApply, Admit
<1>. QED
  BY <1>2, <1>3, <1>4

(* Without an approval the pipeline never allows a write. *)
LEMMA NoApprovalNoWrite ==
    ASSUME NEW s, NEW p, Authorise(s, NoApproval(p), p) = "allow"
    PROVE  ~IsWrite(EffectClass(s.cap))
BY DEF Authorise, Decide, Verdict, NoApproval

(* Nothing is stored, admitted, granted or executed at first.              *)
LEMMA ConsentInit == Init => ConsentInv
BY DEF Init, ConsentInv, RecordsInv, TicketsInv, MintedInv, ExecutedInv, Idle,
       Stored, NoRecord

(* An arrival: only Admit makes a ticket, and it copies a record. *)
LEMMA ArriveConsent ==
    ASSUME TypeInv, ConsentInv, NEW c \in Calls, Arrive(c)
    PROVE  ConsentInv'
<1>. UNCHANGED <<plans, executed, consented>>
  BY DEF Arrive, RefusePlan, BeginPlan, RefuseApply, Admit
<1>1. \A d \in Calls : call[d].op # "none" => call'[d] = call[d]
  BY ArriveKeepsCalls
<1>2. RecordsInv'
  <2>. SUFFICES ASSUME NEW p \in Plans, Stored(p)
                PROVE  Proposed(plans[p].version, p, plans[p].subject,
                                plans[p].approved)'
    BY DEF RecordsInv, Stored
  <2>1. Proposed(plans[p].version, p, plans[p].subject, plans[p].approved)
    BY DEF ConsentInv, RecordsInv
  <2>2. plans[p].version \in Calls
    BY DEF TypeInv, TypeOK, Record, NoRecord, Stored
  <2>. QED
    BY <1>1, <2>1, <2>2 DEF Proposed
<1>3. TicketsInv'
  <2>. SUFFICES ASSUME NEW d \in Calls, call'[d].op = "apply"
                PROVE  Proposed(call[d].version, call[d].plan, call[d].subject,
                                call[d].approved)'
    BY DEF TicketsInv
  <2>1. CASE d # c
    <3>1. call'[d] = call[d]
      BY <2>1, ArriveKeepsCalls
    <3>2. Proposed(call[d].version, call[d].plan, call[d].subject, call[d].approved)
      BY <3>1 DEF ConsentInv, TicketsInv
    <3>3. call[d].version \in Calls
      BY <3>1 DEF TypeInv, CallsInv, CallInv
    <3>. QED
      BY <1>1, <3>1, <3>2, <3>3 DEF Proposed
  <2>2. CASE d = c
    <3>1. PICK p \in Plans : Admit(c, p)
      <4>1. call'[c].op = "apply" /\ call[c].op = "none" /\ call \in [Calls -> Call]
        BY <2>2, ArriveKeepsCalls DEF TypeInv, TypeOK
      <4>2. ASSUME NEW p \in Plans, RefusePlan(c, p) \/ RefuseApply(c, p) PROVE FALSE
        BY <4>1, <4>2 DEF RefusePlan, RefuseApply, Call
      <4>3. ASSUME NEW p \in Plans, NEW s \in Subjects, BeginPlan(c, p, s) PROVE FALSE
        BY <4>1, <4>3 DEF BeginPlan, Idle
      <4>. QED
        BY <4>2, <4>3 DEF Arrive
    <3>2. /\ call'[c].version = plans[p].version
          /\ call'[c].plan = p
          /\ call'[c].subject = plans[p].subject
          /\ call'[c].approved = plans[p].approved
      BY <3>1 DEF Admit, Idle, TypeInv, TypeOK
    <3>3. Proposed(plans[p].version, p, plans[p].subject, plans[p].approved)
      BY <3>1 DEF Admit, ConsentInv, RecordsInv
    <3>4. plans[p].version \in Calls
      BY <3>1 DEF Admit, TypeInv, TypeOK, Record, NoRecord, Stored
    <3>. QED
      BY <1>1, <2>2, <3>2, <3>3, <3>4 DEF Proposed
  <2>. QED
    BY <2>1, <2>2
<1>4. MintedInv'
  <2>. SUFFICES ASSUME NEW d \in Calls, call'[d].pc = "execute", call'[d].op = "apply",
                       IsWrite(EffectClass(StepAt(d).cap))'
                PROVE  call'[d].approved
    BY DEF MintedInv
  <2>1. d # c /\ call'[d] = call[d]
    BY ArriveKeepsCalls
  <2>. QED
    BY <2>1 DEF ConsentInv, MintedInv, StepAt, StepsIn
<1>5. ExecutedInv'
  BY <1>1 DEF ConsentInv, ExecutedInv, Written, TypeInv, TypeOK, Execution
<1>. QED
  BY <1>2, <1>3, <1>4, <1>5 DEF ConsentInv

(* A running handler: Persist stores an unapproved record, MintGrant needs *)
(* the ticket's approval for a write, Execute writes under that grant.     *)
LEMMA ThreadConsent ==
    ASSUME TypeInv, ConsentInv, NEW c \in Calls, Thread(c)
    PROVE  ConsentInv'
<1>1. /\ \A d \in Calls : SameCall(d)
      /\ \A d \in Calls \ {c} : call'[d] = call[d]
  BY ThreadKeepsCalls
<1>. call \in [Calls -> Call] /\ CallInv(c)
  BY DEF TypeInv, TypeOK, CallsInv
<1>2. consented' = consented
  BY DEF Thread, PlanStep, ApplyStep, InvokeStep, AbortPlan, DenyStep, PassRead,
         MintDryRun, MintGrant, Mint, Persist, Announce, SampleClock, SkipStep,
         RefuseStep, FinishApply, Execute, RecordInvoked
<1>3. plans' = plans \/ Persist(c)
  BY DEF Thread, PlanStep, ApplyStep, InvokeStep, AbortPlan, DenyStep, PassRead,
         MintDryRun, MintGrant, Mint, Announce, SampleClock, SkipStep,
         RefuseStep, FinishApply, Execute, RecordInvoked
<1>4. executed' = executed \/ Execute(c)
  BY DEF Thread, PlanStep, ApplyStep, InvokeStep, AbortPlan, DenyStep, PassRead,
         MintDryRun, MintGrant, Mint, Persist, Announce, SampleClock, SkipStep,
         RefuseStep, FinishApply, RecordInvoked
<1>5. RecordsInv'
  <2>. SUFFICES ASSUME NEW p \in Plans, Stored(p)'
                PROVE  Proposed(plans[p].version, p, plans[p].subject,
                                plans[p].approved)'
    BY DEF RecordsInv
  <2>1. CASE plans'[p] = plans[p]
    <3>1. Proposed(plans[p].version, p, plans[p].subject, plans[p].approved)
      BY <2>1 DEF ConsentInv, RecordsInv, Stored
    <3>2. plans[p].version \in Calls
      BY <2>1 DEF TypeInv, TypeOK, Record, NoRecord, Stored
    <3>. QED
      BY <1>1, <1>2, <2>1, <3>1, <3>2 DEF Proposed, SameCall
  <2>2. CASE Persist(c) /\ p = call[c].plan
    <3>1. plans'[p] = NewRecord(c) /\ call[c].op = "plan"
      BY <2>2 DEF Persist, LoopOver, TypeInv, TypeOK
    <3>. QED
      BY <1>1, <2>2, <3>1 DEF NewRecord, Proposed, SameCall
  <2>. QED
    BY <1>3, <2>1, <2>2 DEF Persist, TypeInv, TypeOK
<1>6. TicketsInv'
  <2>. SUFFICES ASSUME NEW d \in Calls, call'[d].op = "apply"
                PROVE  Proposed(call[d].version, call[d].plan, call[d].subject,
                                call[d].approved)'
    BY DEF TicketsInv
  <2>1. Proposed(call[d].version, call[d].plan, call[d].subject, call[d].approved)
    BY <1>1 DEF SameCall, ConsentInv, TicketsInv
  <2>2. call[d].version \in Calls
    BY <1>1 DEF SameCall, TypeInv, CallsInv, CallInv
  <2>. QED
    BY <1>1, <1>2, <2>1, <2>2 DEF Proposed, SameCall
<1>7. MintedInv'
  <2>. SUFFICES ASSUME NEW d \in Calls, call'[d].pc = "execute", call'[d].op = "apply",
                       IsWrite(EffectClass(StepAt(d).cap))'
                PROVE  call'[d].approved
    BY DEF MintedInv
  <2>1. CASE d # c
    BY <1>1, <2>1 DEF ConsentInv, MintedInv, StepAt, StepsIn
  <2>2. CASE d = c
    <3>1. call[c].op = "apply"
      BY <1>1, <2>2 DEF SameCall
    <3>2. MintGrant(c)
      BY <2>2, <3>1
      DEF Thread, PlanStep, ApplyStep, InvokeStep, AbortPlan, DenyStep, PassRead,
          MintDryRun, InLoop, LoopOver, Persist, Announce, SampleClock, SkipStep,
          RefuseStep, FinishApply, Execute, RecordInvoked, Report, Answer, Call
    <3>3. StepAt(c)' = StepAt(c)
      BY <3>2 DEF MintGrant, Mint, StepAt, StepsIn, Call
    <3>4. GrantsApproval(c)
      <4>. SUFFICES ASSUME ~GrantsApproval(c) PROVE FALSE
        OBVIOUS
      <4>1. Authorise(StepAt(c), NoApproval(call[c].plan), call[c].plan) = "allow"
        BY <3>2 DEF MintGrant, InvokeDecision, InvokeApproval
      <4>. QED
        BY <2>2, <3>3, <4>1, NoApprovalNoWrite
    <3>. QED
      BY <1>1, <2>2, <3>1, <3>4 DEF GrantsApproval, SameCall
  <2>. QED
    BY <2>1, <2>2
<1>8. ExecutedInv'
  <2>. SUFFICES ASSUME NEW e \in executed', Written(e)
                PROVE  /\ call'[e.call].op = "apply"
                       /\ call'[e.call].approved
                       /\ call'[e.call].plan = e.plan
                       /\ call'[e.call].subject = e.subject
    BY DEF ExecutedInv, Written
  <2>1. CASE e \in executed
    BY <1>1, <2>1
    DEF ConsentInv, ExecutedInv, SameCall, TypeInv, TypeOK, Execution
  <2>2. CASE e \notin executed
    <3>1. Execute(c)
      BY <1>4, <2>2
    <3>2. e = [call |-> c, step |-> call[c].step, plan |-> call[c].plan,
               subject |-> call[c].subject, dryRun |-> call[c].op = "plan"]
      BY <2>2, <3>1 DEF Execute
    <3>3. call[c].op = "apply"
      BY <3>1, <3>2 DEF Execute, Written, CallInv, Call
    <3>4. IsWrite(EffectClass(StepAt(c).cap))
      BY <3>2 DEF Written, StepAt, StepsIn
    <3>5. call[c].approved
      BY <3>1, <3>3, <3>4 DEF Execute, ConsentInv, MintedInv
    <3>. QED
      BY <1>1, <3>2, <3>3, <3>5 DEF SameCall
  <2>. QED
    BY <2>1, <2>2
<1>. QED
  BY <1>5, <1>6, <1>7, <1>8 DEF ConsentInv

(* An approval reaches the record the plan hash has now. *)
LEMMA ApproveConsent ==
    ASSUME TypeInv, ConsentInv, NEW p \in Plans, Approve(p)
    PROVE  ConsentInv'
<1>. UNCHANGED <<call, executed>> /\ consented \subseteq consented'
  BY DEF Approve
<1>1. RecordsInv'
  BY DEF Approve, ConsentInv, RecordsInv, Proposed, Stored, TypeInv, TypeOK,
         Record, NoRecord
<1>2. TicketsInv' /\ MintedInv' /\ ExecutedInv'
  BY DEF ConsentInv, TicketsInv, MintedInv, ExecutedInv, Proposed, StepAt,
         StepsIn, Written
<1>. QED
  BY <1>1, <1>2 DEF ConsentInv

(* Consent is kept by every step.                                          *)
LEMMA ConsentInvariant == Spec => []ConsentInv
<1>1. Init => ConsentInv
  BY ConsentInit
<1>2. TypeInv /\ ConsentInv /\ [Next]_vars => ConsentInv'
  <2>. SUFFICES ASSUME TypeInv, ConsentInv, [Next]_vars PROVE ConsentInv'
    OBVIOUS
  <2>1. CASE UNCHANGED vars \/ Tick
    BY <2>1 DEF vars, Tick, ConsentInv, RecordsInv, TicketsInv, MintedInv,
                ExecutedInv, Proposed, Stored, StepAt, StepsIn, Written
  <2>2. ASSUME NEW p \in Plans, Approve(p) PROVE ConsentInv'
    BY <2>2, ApproveConsent
  <2>3. ASSUME NEW c \in Calls, Arrive(c) \/ Thread(c) PROVE ConsentInv'
    BY <2>3, ArriveConsent, ThreadConsent
  <2>. QED
    BY <2>1, <2>2, <2>3 DEF Next
<1>. QED
  BY <1>1, <1>2, TypeInvariant, PTL DEF Spec

(* No write is executed without consent to the very proposal the apply was *)
(* admitted under, nor for anyone but the subject of that proposal, for    *)
(* every number of requests, plans, subjects and steps.                    *)
THEOREM ConsentHolds == Spec => []ConsentBeforeWrite
<1>1. TypeInv /\ ConsentInv => ConsentBeforeWrite
  BY DEF TypeInv, TypeOK, Execution, ConsentInv, ExecutedInv, TicketsInv,
         Proposed, ConsentBeforeWrite
<1>. QED
  BY <1>1, TypeInvariant, ConsentInvariant, PTL
===============================================================================
