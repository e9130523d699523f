----------------------------- MODULE TsEngineProofs -----------------------------
(***************************************************************************)
(* Proofs about TsEngine, for every set of calls and plans, every TTL and  *)
(* every fault of the provider: the types, that a blocked step never runs, *)
(* that the policy never stops an admitted apply, that the log explains    *)
(* every call of the provider and accounts for every grant, that steps are *)
(* applied in order up to the first failure, and that the engine           *)
(* implements the ledger of consent.                                       *)
(***************************************************************************)
EXTENDS TsEngine, TLAPS

-------------------------------------------------------------------------------
(* The inductive invariant, in parts.                                      *)

(* A handler that is under way knows what it does and for which plan; its  *)
(* step counter never passes the step after the last; and it has an        *)
(* outcome only when it is done.                                           *)
WellFormed(r) ==
    /\ r.pc \notin {"idle", "done", "aborted"} => r.op # "none"
    /\ r.op # "none" =>
        /\ r.pc # "idle"
        /\ r.plan \in Plans
        /\ r.version \in Calls
        /\ r.step \in 1 .. Len(StepsOf[r.plan]) + 1
    /\ r.pc = "dry" => r.op = "plan"
    /\ r.pc \in {"verify", "answer"} => r.op = "apply"
    /\ r.pc \in {"dry", "verify", "answer"} => r.step \in DOMAIN StepsOf[r.plan]
    /\ r.pc # "done" => r.outcome = "none"
    /\ r.op # "none" /\ r.outcome = "ok" => r.step = Len(StepsOf[r.plan]) + 1
CallsInv == \A c \in Calls : WellFormed(call[c])

(* A stored object was made by a plan request that has ended, and the Map  *)
(* holds it under the hash it was made for.                                *)
HeldInv ==
    /\ \A v \in Calls : stored[v].plan # None =>
        call[v].op = "plan" /\ call[v].pc = "done"
    /\ \A p \in Plans : plans[p] # None => stored[plans[p]].plan = p

TypeInv == TypeOK /\ CallsInv /\ HeldInv

(* What evaluateStep has found of the steps a plan request is past.        *)
Passed(s, requires) == ~Blocked(s) /\ (NeedsApproval(s) => requires)
EvaluatedOf(c) ==
    call[c].op = "plan" =>
        /\ \A i \in 1 .. call[c].step - 1 : Passed(StepsIn(c)[i], call[c].requires)
        /\ call[c].pc = "dry" => NeedsApproval(StepAt(c))
EvaluatedInv == \A c \in Calls : EvaluatedOf(c)

(* All the steps of a stored plan passed. *)
Cleared(p, requires) == \A i \in DOMAIN StepsOf[p] : Passed(StepsOf[p][i], requires)
StoredInv ==
    \A v \in Calls : stored[v].plan # None =>
        Cleared(stored[v].plan, stored[v].requires)

(* An admitted apply refers to an object of its plan that is approved if   *)
(* it needs to be.                                                         *)
AdmittedOf(c) ==
    call[c].op = "apply" =>
        /\ stored[call[c].version].plan = call[c].plan
        /\ stored[call[c].version].requires => stored[call[c].version].approved
AdmittedInv == \A c \in Calls : AdmittedOf(c)

(* The events of a step, whatever thread asks.                             *)
Event3(event, c, i) == [event |-> event, call |-> c, step |-> i]
AppliedAt(c, i) == [call |-> c, step |-> i, plan |-> call[c].plan, dryRun |-> FALSE]

(* What an apply has behind it: its earlier steps were executed and logged *)
(* as invoked; the grant of the present one is logged before it is used.   *)
ProgressOf(c) ==
    call[c].op = "apply" =>
        /\ \A i \in 1 .. call[c].step - 1 :
            /\ AppliedAt(c, i) \in executed
            /\ Event3("vcp.capability.invoked", c, i) \in audit
        /\ call[c].pc \in {"verify", "answer"} =>
            Event3("vcp.grant.minted", c, call[c].step) \in audit
        /\ call[c].pc = "answer" => AppliedAt(c, call[c].step) \in executed
ProgressInv == \A c \in Calls : ProgressOf(c)

(* What an apply executed belongs to a step it has reached; the last one   *)
(* is unanswered, or failed and is logged so.                              *)
Failed(c) ==
    /\ call[c].pc = "done"
    /\ \/ Event3("vcp.policy.denied", c, call[c].step) \in audit
       \/ Event3("vcp.attestation.rejected", c, call[c].step) \in audit
Belongs(e) ==
    /\ call[e.call].op = "apply"
    /\ e.plan = call[e.call].plan
    /\ e.step \in DOMAIN StepsOf[e.plan]
    /\ Event3("vcp.grant.minted", e.call, e.step) \in audit
    /\ \/ e.step < call[e.call].step
       \/ /\ e.step = call[e.call].step
          /\ call[e.call].pc = "answer" \/ Failed(e.call)
AppliedInv == \A e \in Applied : Belongs(e)

(* What a plan request dry-ran is logged, or it is still at that step.     *)
Rehearsed(e) ==
    /\ call[e.call].op = "plan"
    /\ Logged(e, "vcp.plan.dry_run") \/ At(e, {"dry", "aborted"})
RehearsedInv == \A e \in executed : e.dryRun => Rehearsed(e)

(* A grant belongs to a step its apply has passed; or to the last one,     *)
(* where it is in use, was used and failed, or expired before it was used. *)
Unused(c) == \A x \in Applied : ~(x.call = c /\ x.step = call[c].step)
Expired(c) ==
    /\ call[c].pc = "done" /\ call[c].outcome = "GRANT_EXPIRED"
    /\ Event3("vcp.policy.denied", c, call[c].step) \in audit
    /\ Unused(c)
Spent(c) == Failed(c) /\ AppliedAt(c, call[c].step) \in executed
Entitled(c, i) ==
    /\ call[c].op = "apply"
    /\ \/ i < call[c].step
       \/ /\ i = call[c].step
          /\ call[c].pc \in {"verify", "answer"} \/ Spent(c) \/ Expired(c)
GrantsInv == \A e \in audit : e.event = "vcp.grant.minted" => Entitled(e.call, e.step)

EngineInv ==
    /\ EvaluatedInv
    /\ StoredInv
    /\ AdmittedInv
    /\ AdmittedNeverChallenged
    /\ ProgressInv
    /\ AppliedInv
    /\ RehearsedInv
    /\ GrantsInv

-------------------------------------------------------------------------------
(* Types.                                                                  *)

(* A handler replaced by a well-formed one leaves all of them so.          *)
LEMMA CallUpdate ==
    ASSUME TypeInv, NEW c \in Calls, NEW r \in Call, WellFormed(r),
           call' = [call EXCEPT ![c] = r]
    PROVE  /\ call' \in [Calls -> Call] /\ CallsInv'
           /\ call'[c] = r /\ \A d \in Calls \ {c} : call'[d] = call[d]
<1>1. call' \in [Calls -> Call]
  BY DEF TypeInv, TypeOK
<1>2. call'[c] = r /\ \A d \in Calls \ {c} : call'[d] = call[d]
  BY DEF TypeInv, TypeOK
<1>3. \A d \in Calls : WellFormed(call'[d])
  BY <1>2 DEF TypeInv, CallsInv
<1>. QED
  BY <1>1, <1>2, <1>3 DEF CallsInv, WellFormed

(* What a handler finds when it looks at itself.                           *)
LEMMA Own ==
    ASSUME TypeInv, NEW c \in Calls
    PROVE  /\ call[c] \in Call /\ WellFormed(call[c])
           /\ call[c].step \in Nat \ {0}
           /\ call[c].op # "none" =>
                /\ StepsIn(c) \in Seq(Step)
                /\ Len(StepsIn(c)) \in Nat
                /\ DOMAIN StepsIn(c) = 1 .. Len(StepsIn(c))
BY TsPlanAssumption DEF TypeInv, TypeOK, CallsInv, WellFormed, Call, StepsIn

(* Fields no step of a handler changes.                                    *)
SameCall(d) ==
    /\ call'[d].op = call[d].op
    /\ call'[d].plan = call[d].plan
    /\ call'[d].version = call[d].version

(* The ways a handler moves.                                               *)
LEMMA GotoMoves ==
    ASSUME TypeInv, NEW c \in Calls, NEW k \in PCs, Goto(c, k),
           call[c].op # "none", call[c].pc # "done",
           \/ k \in {"step", "aborted"}
           \/ k = "dry" /\ call[c].op = "plan" /\ call[c].step \in DOMAIN StepsIn(c)
           \/ k = "answer" /\ call[c].op = "apply" /\ call[c].step \in DOMAIN StepsIn(c)
    PROVE  /\ call' \in [Calls -> Call] /\ CallsInv'
           /\ SameCall(c) /\ \A d \in Calls \ {c} : call'[d] = call[d]
           /\ call'[c].pc = k /\ call'[c].step = call[c].step
           /\ call'[c].requires = call[c].requires
           /\ call'[c].outcome = call[c].outcome
<1>. DEFINE r == [call[c] EXCEPT !.pc = k]
<1>1. call[c] \in Call /\ WellFormed(call[c])
  BY Own
<1>2. r \in Call
  BY <1>1 DEF Call
<1>3. /\ r.pc = k /\ r.op = call[c].op /\ r.plan = call[c].plan
      /\ r.version = call[c].version /\ r.step = call[c].step
      /\ r.requires = call[c].requires /\ r.outcome = call[c].outcome
  BY <1>1 DEF Call
<1>4. call' = [call EXCEPT ![c] = r]
  BY DEF Goto
<1>. HIDE DEF r
<1>5. WellFormed(r)
  BY <1>1, <1>3 DEF WellFormed, PCs, StepsIn
<1>. QED
  BY <1>2, <1>3, <1>4, <1>5, CallUpdate DEF SameCall

LEMMA EndMoves ==
    ASSUME TypeInv, NEW c \in Calls, NEW o \in Outcomes, End(c, o),
           call[c].op # "none" /\ o = "ok" => call[c].step = Len(StepsIn(c)) + 1
    PROVE  /\ call' \in [Calls -> Call] /\ CallsInv'
           /\ SameCall(c) /\ \A d \in Calls \ {c} : call'[d] = call[d]
           /\ call'[c].pc = "done" /\ call'[c].step = call[c].step
           /\ call'[c].requires = call[c].requires
           /\ call'[c].outcome = o
<1>. DEFINE r == [call[c] EXCEPT !.pc = "done", !.outcome = o]
<1>1. call[c] \in Call /\ WellFormed(call[c])
  BY Own
<1>2. r \in Call
  BY <1>1 DEF Call, PCs
<1>3. /\ r.pc = "done" /\ r.op = call[c].op /\ r.plan = call[c].plan
      /\ r.version = call[c].version /\ r.step = call[c].step
      /\ r.requires = call[c].requires /\ r.outcome = o
  BY <1>1 DEF Call
<1>4. call' = [call EXCEPT ![c] = r]
  BY DEF End
<1>. HIDE DEF r
<1>5. WellFormed(r)
  BY <1>1, <1>3 DEF WellFormed, StepsIn
<1>. QED
  BY <1>2, <1>3, <1>4, <1>5, CallUpdate DEF SameCall

(* On to the next step, with or without noting that approval is required.  *)
Requiring(c) ==
    call' = [call EXCEPT ![c].pc = "step", ![c].step = @ + 1, ![c].requires = TRUE]

LEMMA NextMoves ==
    ASSUME TypeInv, NEW c \in Calls, NextStep(c) \/ Requiring(c),
           call[c].op # "none", call[c].pc # "done",
           call[c].step \in DOMAIN StepsIn(c)
    PROVE  /\ call' \in [Calls -> Call] /\ CallsInv'
           /\ SameCall(c) /\ \A d \in Calls \ {c} : call'[d] = call[d]
           /\ call'[c].pc = "step" /\ call'[c].step = call[c].step + 1
           /\ NextStep(c) => call'[c].requires = call[c].requires
           /\ Requiring(c) => call'[c].requires = TRUE
           /\ call[c].requires => call'[c].requires
           /\ call'[c].outcome = call[c].outcome
<1>1. /\ call[c] \in Call /\ WellFormed(call[c])
      /\ call[c].step \in Nat \ {0} /\ call[c].step + 1 \in Nat \ {0}
      /\ call[c].step + 1 \in 1 .. Len(StepsIn(c)) + 1
  BY Own
<1>2. PICK r : /\ call' = [call EXCEPT ![c] = r]
               /\ \/ /\ NextStep(c)
                     /\ r = [call[c] EXCEPT !.pc = "step", !.step = @ + 1]
                  \/ /\ Requiring(c)
                     /\ r = [call[c] EXCEPT !.pc = "step", !.step = @ + 1,
                                            !.requires = TRUE]
  BY DEF NextStep, Requiring
<1>3. r \in Call
  BY <1>1, <1>2 DEF Call, PCs
<1>4. /\ r.pc = "step" /\ r.op = call[c].op /\ r.plan = call[c].plan
      /\ r.version = call[c].version /\ r.step = call[c].step + 1
      /\ r.requires \in {call[c].requires, TRUE} /\ r.outcome = call[c].outcome
  BY <1>1, <1>2 DEF Call
<1>5. WellFormed(r)
  BY <1>1, <1>4 DEF WellFormed, StepsIn
<1>6. call'[c] = r
  BY <1>2 DEF TypeInv, TypeOK
<1>7. /\ NextStep(c) => call'[c].requires = call[c].requires
      /\ Requiring(c) => call'[c].requires = TRUE
  BY <1>1 DEF NextStep, Requiring, TypeInv, TypeOK, Call
<1>. QED
  BY <1>2, <1>3, <1>4, <1>5, <1>6, <1>7, CallUpdate DEF SameCall

LEMMA MintMoves ==
    ASSUME TypeInv, NEW c \in Calls, MintGrant(c)
    PROVE  /\ call' \in [Calls -> Call] /\ CallsInv'
           /\ SameCall(c) /\ \A d \in Calls \ {c} : call'[d] = call[d]
           /\ call'[c].pc = "verify" /\ call'[c].step = call[c].step
           /\ call'[c].requires = call[c].requires
           /\ call'[c].outcome = call[c].outcome
<1>. DEFINE r == [call[c] EXCEPT !.pc = "verify", !.expires = Expiry(c)]
<1>1. /\ call[c] \in Call /\ WellFormed(call[c]) /\ Expiry(c) \in Nat
      /\ call[c].op = "apply" /\ call[c].pc = "step"
      /\ call[c].step \in DOMAIN StepsIn(c)
  BY Own, TsTtlAssumption DEF MintGrant, AtStep, Expiry, TypeInv, TypeOK
<1>2. r \in Call
  BY <1>1 DEF Call, PCs
<1>3. /\ r.pc = "verify" /\ r.op = call[c].op /\ r.plan = call[c].plan
      /\ r.version = call[c].version /\ r.step = call[c].step
      /\ r.requires = call[c].requires /\ r.outcome = call[c].outcome
  BY <1>1 DEF Call
<1>4. call' = [call EXCEPT ![c] = r]
  BY DEF MintGrant
<1>. HIDE DEF r
<1>5. WellFormed(r)
  BY <1>1, <1>3 DEF WellFormed, StepsIn
<1>. QED
  BY <1>2, <1>3, <1>4, <1>5, CallUpdate DEF SameCall

(* What a turn of a handler changes besides the handler. *)
ExecutionAt(c, dryRun) ==
    [call |-> c, step |-> call[c].step, plan |-> call[c].plan, dryRun |-> dryRun]
Adds(c, event) == audit' = audit \union {Event3(event, c, call[c].step)}

(* A turn is taken by a handler under way, at a step of its plan unless it *)
(* ends the loop.                                                          *)
AtWork(c) ==
    /\ call[c].op # "none"
    /\ call[c].pc \notin {"idle", "done", "aborted"}
    /\ call[c].step \in DOMAIN StepsIn(c)

LEMMA AbortFacts ==
    ASSUME TypeInv, NEW c \in Calls, AbortPlan(c)
    PROVE  AtWork(c) /\ call[c].op = "plan" /\ Goto(c, "aborted")
BY Own DEF AbortPlan, AtStep, AtWork, WellFormed, StepsIn

LEMMA BlockFacts ==
    ASSUME TypeInv, NEW c \in Calls, BlockStep(c)
    PROVE  /\ AtWork(c) /\ call[c].op = "plan"
           /\ End(c, "blocked") /\ Adds(c, "vcp.policy.denied")
BY DEF BlockStep, AtStep, AtWork, Log, Adds, Event3, AfterBlock

LEMMA AllowFacts ==
    ASSUME TypeInv, NEW c \in Calls, AllowStep(c)
    PROVE  /\ AtWork(c) /\ call[c].op = "plan" /\ Passed(StepAt(c), FALSE)
           /\ NextStep(c) /\ Adds(c, "vcp.plan.allowed")
BY DEF AllowStep, AtStep, AtWork, Log, Adds, Event3, Passed

LEMMA DryRunFacts ==
    ASSUME TypeInv, NEW c \in Calls, DryRun(c)
    PROVE  /\ AtWork(c) /\ call[c].op = "plan" /\ NeedsApproval(StepAt(c))
           /\ Goto(c, "dry") /\ audit' = audit
           /\ executed' = executed \union {ExecutionAt(c, TRUE)}
BY DEF DryRun, AtStep, AtWork, Ask, ExecutionAt

LEMMA RequireFacts ==
    ASSUME TypeInv, NEW c \in Calls, RequireApproval(c)
    PROVE  /\ AtWork(c) /\ call[c].op = "plan"
           /\ call[c].pc = "dry" \/ NeedsApproval(StepAt(c))
           /\ Requiring(c) /\ Adds(c, "vcp.plan.dry_run")
BY Own DEF RequireApproval, AtStep, AtWork, Requiring, Log, Adds, Event3,
           WellFormed, StepsIn

(* At the end of the loop the counter stands right after the last step.    *)
LEMMA OverFacts ==
    ASSUME TypeInv, NEW c \in Calls, StepsOver(c, "plan") \/ StepsOver(c, "apply")
    PROVE  /\ call[c].op # "none" /\ call[c].pc = "step"
           /\ call[c].step = Len(StepsIn(c)) + 1
<1>1. call[c].op # "none" /\ call[c].pc = "step" /\ call[c].step \notin DOMAIN StepsIn(c)
  BY DEF StepsOver
<1>2. /\ DOMAIN StepsIn(c) = 1 .. Len(StepsIn(c)) /\ Len(StepsIn(c)) \in Nat
      /\ call[c].step \in 1 .. Len(StepsIn(c)) + 1
  BY <1>1, Own DEF WellFormed, StepsIn
<1>. QED
  BY <1>1, <1>2

LEMMA MintFacts ==
    ASSUME TypeInv, NEW c \in Calls, MintGrant(c)
    PROVE  /\ AtWork(c) /\ call[c].op = "apply" /\ call[c].pc = "step"
           /\ Adds(c, "vcp.grant.minted")
BY DEF MintGrant, AtStep, AtWork, Log, Adds, Event3

LEMMA RefuseFacts ==
    ASSUME TypeInv, NEW c \in Calls, RefuseStep(c)
    PROVE  /\ AtWork(c) /\ call[c].op = "apply" /\ call[c].pc \in {"step", "verify"}
           /\ Adds(c, "vcp.policy.denied")
           /\ \E reason \in Outcomes \ {"ok"} :
                /\ End(c, reason)
                /\ reason = "GRANT_EXPIRED" \/ reason = InvokeAnswer(c)
                /\ call[c].pc = "verify" => reason = "GRANT_EXPIRED"
<1>1. PICK reason \in Refusals(c) : End(c, reason) /\ Log(c, "vcp.policy.denied")
  BY DEF RefuseStep, LogRefusal
<1>2. CASE AtStep(c, "apply")
  <2>1. reason = InvokeAnswer(c) /\ reason # "allow"
    BY <1>1, <1>2 DEF Refusals
  <2>2. reason \in Outcomes \ {"ok"}
    BY <2>1 DEF InvokeAnswer, PolicyAnswer, Outcomes
  <2>. QED
    BY <1>1, <1>2, <2>1, <2>2 DEF AtStep, AtWork, Log, Adds, Event3
<1>3. CASE ~AtStep(c, "apply")
  <2>1. call[c].pc = "verify" /\ reason = "GRANT_EXPIRED"
    BY <1>1, <1>3 DEF Refusals
  <2>2. AtWork(c) /\ call[c].op = "apply"
    BY <2>1, Own DEF AtWork, WellFormed, StepsIn
  <2>. QED
    BY <1>1, <2>1, <2>2 DEF Log, Adds, Event3, Outcomes
<1>. QED
  BY <1>2, <1>3

LEMMA InvokeFacts ==
    ASSUME TypeInv, NEW c \in Calls, Invoke(c)
    PROVE  /\ AtWork(c) /\ call[c].op = "apply" /\ call[c].pc = "verify"
           /\ Goto(c, "answer") /\ audit' = audit
           /\ executed' = executed \union {ExecutionAt(c, FALSE)}
BY Own DEF Invoke, AtWork, Ask, ExecutionAt, WellFormed, StepsIn

LEMMA InvokedFacts ==
    ASSUME TypeInv, NEW c \in Calls, RecordInvoked(c)
    PROVE  /\ AtWork(c) /\ call[c].op = "apply" /\ call[c].pc = "answer"
           /\ NextStep(c) /\ Adds(c, "vcp.capability.invoked")
BY Own DEF RecordInvoked, AtWork, Log, Adds, Event3, WellFormed, StepsIn

LEMMA FailsFacts ==
    ASSUME TypeInv, NEW c \in Calls, ProviderFails(c)
    PROVE  /\ AtWork(c) /\ call[c].op = "apply" /\ call[c].pc = "answer"
           /\ \E fault \in {"throws", "unverified"} : End(c, fault)
           /\ Adds(c, "vcp.policy.denied") \/ Adds(c, "vcp.attestation.rejected")
<1>1. PICK fault \in Faults : LogFault(c, fault) /\ AfterFault(c, fault)
  BY DEF ProviderFails
<1>2. fault \in {"throws", "unverified"}
  BY TsFaultAssumption
<1>3. AtWork(c) /\ call[c].op = "apply" /\ call[c].pc = "answer"
  BY Own DEF ProviderFails, AtWork, WellFormed, StepsIn
<1>. QED
  BY <1>1, <1>2, <1>3 DEF LogFault, AfterFault, Log, Adds, Event3

(* How a turn moves its handler. *)
LEMMA TurnMoves ==
    ASSUME TypeInv, NEW c \in Calls, Turn(c)
    PROVE  /\ call' \in [Calls -> Call] /\ CallsInv'
           /\ \A d \in Calls : SameCall(d)
           /\ \A d \in Calls \ {c} : call'[d] = call[d]
           /\ call[c].op # "none" /\ call[c].pc \notin {"idle", "done", "aborted"}
<1>. SUFFICES /\ call' \in [Calls -> Call] /\ CallsInv' /\ SameCall(c)
              /\ \A d \in Calls \ {c} : call'[d] = call[d]
              /\ call[c].op # "none" /\ call[c].pc \notin {"idle", "done", "aborted"}
  BY DEF SameCall
<1>1. CASE AbortPlan(c)
  BY <1>1, AbortFacts, GotoMoves DEF AtWork, PCs
<1>2. CASE BlockStep(c)
  BY <1>2, BlockFacts, EndMoves DEF AtWork, Outcomes
<1>3. CASE AllowStep(c)
  BY <1>3, AllowFacts, NextMoves DEF AtWork
<1>4. CASE DryRun(c)
  BY <1>4, DryRunFacts, GotoMoves DEF AtWork, PCs
<1>5. CASE RequireApproval(c)
  BY <1>5, RequireFacts, NextMoves DEF AtWork
<1>6. CASE StorePlan(c)
  BY <1>6, OverFacts, EndMoves DEF StorePlan, Outcomes
<1>7. CASE MintGrant(c)
  BY <1>7, MintFacts, MintMoves DEF AtWork
<1>8. CASE RefuseStep(c)
  BY <1>8, RefuseFacts, EndMoves DEF AtWork
<1>9. CASE Invoke(c)
  BY <1>9, InvokeFacts, GotoMoves DEF AtWork, PCs
<1>10. CASE RecordInvoked(c)
  BY <1>10, InvokedFacts, NextMoves DEF AtWork
<1>11. CASE ProviderFails(c)
  BY <1>11, FailsFacts, EndMoves DEF AtWork, Outcomes
<1>12. CASE FinishApply(c)
  BY <1>12, OverFacts, EndMoves DEF FinishApply, Outcomes
<1>. QED
  BY <1>1, <1>2, <1>3, <1>4, <1>5, <1>6, <1>7, <1>8, <1>9, <1>10, <1>11, <1>12
  DEF Turn, PlanTurn, ApplyTurn

(* A request is refused, starts a plan, or is admitted against an object.  *)
LEMMA ArriveMoves ==
    ASSUME TypeInv, NEW c \in Calls, Arrive(c)
    PROVE  /\ call' \in [Calls -> Call] /\ CallsInv'
           /\ \A d \in Calls \ {c} : call'[d] = call[d]
           /\ call[c].op = "none" /\ call[c].pc = "idle"
           /\ UNCHANGED <<clock, plans, stored, audit, executed>>
           /\ \/ call'[c].op = "none" /\ call'[c].outcome = "refused"
              \/ /\ call'[c].op = "plan" /\ call'[c].pc = "step"
                 /\ call'[c].step = 1 /\ call'[c].outcome = "none"
              \/ /\ call'[c].op = "apply" /\ call'[c].pc = "step"
                 /\ call'[c].step = 1 /\ call'[c].outcome = "none"
                 /\ call'[c].plan \in Plans /\ Admissible(call'[c].plan)
                 /\ call'[c].version = plans[call'[c].plan]
<1>1. /\ call[c].pc = "idle"
      /\ UNCHANGED <<clock, plans, stored, audit, executed>>
  BY DEF Arrive, BeginPlan, RefuseApply, Admit
<1>2. call[c].op = "none"
  BY <1>1, Own DEF WellFormed
<1>0. Idle \in Call
  BY DEF Idle, Call, PCs, Outcomes
<1>. DEFINE New(op, p, v) == [Idle EXCEPT !.pc = "step", !.op = op, !.plan = p,
                                          !.version = v]
<1>3. ASSUME NEW op \in {"plan", "apply"}, NEW p \in Plans, NEW v \in Calls
      PROVE  /\ New(op, p, v) \in Call /\ WellFormed(New(op, p, v))
             /\ New(op, p, v).op = op /\ New(op, p, v).pc = "step"
             /\ New(op, p, v).step = 1 /\ New(op, p, v).plan = p
             /\ New(op, p, v).version = v /\ New(op, p, v).outcome = "none"
  <2>1. Len(StepsOf[p]) \in Nat
    BY TsPlanAssumption
  <2>2. New(op, p, v) \in Call
    BY <1>0 DEF Call, PCs
  <2>. QED
    BY <2>1, <2>2 DEF Idle, WellFormed
<1>4. ASSUME NEW p \in Plans, BeginPlan(c, p)
      PROVE  call' = [call EXCEPT ![c] = New("plan", p, c)]
  BY <1>4 DEF BeginPlan
<1>5. ASSUME NEW p \in Plans, Admit(c, p)
      PROVE  /\ call' = [call EXCEPT ![c] = New("apply", p, plans[p])]
             /\ plans[p] \in Calls /\ Admissible(p)
  BY <1>5 DEF Admit, Admissible, TypeInv, TypeOK
<1>6. ASSUME NEW p \in Plans, RefuseApply(c, p)
      PROVE  End(c, "refused")
  BY <1>6 DEF RefuseApply
<1>. HIDE DEF New
<1>7. CASE \E p \in Plans : BeginPlan(c, p)
  BY <1>1, <1>2, <1>3, <1>4, <1>7, CallUpdate
<1>8. CASE \E p \in Plans : Admit(c, p)
  BY <1>1, <1>2, <1>3, <1>5, <1>8, CallUpdate
<1>9. CASE \E p \in Plans : RefuseApply(c, p)
  BY <1>1, <1>2, <1>6, <1>9, EndMoves DEF Outcomes, SameCall
<1>. QED
  BY <1>7, <1>8, <1>9 DEF Arrive

(* What the audit log and the provider are given.                          *)
LEMMA EventType ==
    ASSUME TypeInv, NEW c \in Calls,
           NEW event \in {"vcp.plan.allowed", "vcp.plan.dry_run", "vcp.policy.denied",
                          "vcp.grant.minted", "vcp.capability.invoked",
                          "vcp.attestation.rejected"},
           Adds(c, event)
    PROVE  audit' \subseteq Event
<1>1. Event3(event, c, call[c].step) \in Event
  BY Own DEF Event3, Event
<1>. QED
  BY <1>1 DEF Adds, TypeInv, TypeOK

LEMMA ExecutionType ==
    ASSUME TypeInv, NEW c \in Calls, AtWork(c), NEW b \in BOOLEAN
    PROVE  ExecutionAt(c, b) \in Execution
<1>1. call[c].plan \in Plans /\ call[c].step \in Nat \ {0}
  BY Own DEF AtWork, WellFormed
<1>. QED
  BY <1>1 DEF ExecutionAt, Execution

(* A turn grows the log and the provider's requests, and only StorePlan    *)
(* touches what is stored.                                                 *)
LEMMA TurnFrames ==
    ASSUME TypeInv, NEW c \in Calls, Turn(c)
    PROVE  /\ clock' = clock
           /\ audit \subseteq audit' /\ executed \subseteq executed'
           /\ audit' \subseteq Event /\ executed' \subseteq Execution
           /\ StorePlan(c) \/ UNCHANGED <<plans, stored>>
           /\ \/ executed' = executed
              \/ DryRun(c) /\ executed' = executed \union {ExecutionAt(c, TRUE)}
              \/ Invoke(c) /\ executed' = executed \union {ExecutionAt(c, FALSE)}
<1>. audit \subseteq Event /\ executed \subseteq Execution
  BY DEF TypeInv, TypeOK
<1>1. CASE AbortPlan(c) \/ StorePlan(c) \/ FinishApply(c)
  BY <1>1 DEF AbortPlan, StorePlan, FinishApply
<1>2. CASE BlockStep(c)
  BY <1>2, BlockFacts, EventType DEF BlockStep, Adds
<1>3. CASE AllowStep(c)
  BY <1>3, AllowFacts, EventType DEF AllowStep, Adds
<1>4. CASE DryRun(c)
  BY <1>4, DryRunFacts, ExecutionType DEF DryRun
<1>5. CASE RequireApproval(c)
  BY <1>5, RequireFacts, EventType DEF RequireApproval, Adds
<1>6. CASE MintGrant(c)
  BY <1>6, MintFacts, EventType DEF MintGrant, Adds
<1>7. CASE RefuseStep(c)
  BY <1>7, RefuseFacts, EventType DEF RefuseStep, Adds
<1>8. CASE Invoke(c)
  BY <1>8, InvokeFacts, ExecutionType DEF Invoke
<1>9. CASE RecordInvoked(c)
  BY <1>9, InvokedFacts, EventType DEF RecordInvoked, Adds
<1>10. CASE ProviderFails(c)
  BY <1>10, FailsFacts, EventType DEF ProviderFails, Adds
<1>. QED
  BY <1>1, <1>2, <1>3, <1>4, <1>5, <1>6, <1>7, <1>8, <1>9, <1>10
  DEF Turn, PlanTurn, ApplyTurn

LEMMA StoreFacts ==
    ASSUME TypeInv, NEW c \in Calls, StorePlan(c)
    PROVE  /\ call[c].op = "plan" /\ call[c].pc = "step" /\ call[c].plan \in Plans
           /\ call[c].step = Len(StepsIn(c)) + 1
           /\ NewStored(c) \in StoredPlan
           /\ stored'[c] = NewStored(c) /\ stored'[c].plan = call[c].plan
           /\ call'[c].op = "plan" /\ call'[c].pc = "done"
           /\ \A d \in Calls : d # c => stored'[d] = stored[d]
           /\ plans'[call[c].plan] = c
           /\ \A p \in Plans : p # call[c].plan => plans'[p] = plans[p]
           /\ UNCHANGED <<audit, executed>>
<1>1. /\ call[c].op = "plan" /\ call[c].pc = "step"
      /\ call[c].step = Len(StepsIn(c)) + 1
  BY OverFacts DEF StorePlan, StepsOver
<1>2. call[c].plan \in Plans /\ call[c].requires \in BOOLEAN
  BY <1>1, Own DEF WellFormed, Call
<1>3. call'[c].op = "plan" /\ call'[c].pc = "done"
  BY <1>1, EndMoves DEF StorePlan, Outcomes, SameCall
<1>. QED
  BY <1>1, <1>2, <1>3 DEF StorePlan, NewStored, StoredPlan, TypeInv, TypeOK

(* An approval marks the object the plan hash has now. *)
LEMMA ApproveFacts ==
    ASSUME TypeInv, NEW p \in Plans, Approve(p)
    PROVE  /\ plans[p] \in Calls /\ stored[plans[p]] \in StoredPlan
           /\ stored[plans[p]].plan = p
           /\ \A v \in Calls : v # plans[p] => stored'[v] = stored[v]
           /\ stored'[plans[p]] \in StoredPlan
           /\ stored'[plans[p]].plan = p
           /\ stored'[plans[p]].requires = stored[plans[p]].requires
           /\ stored'[plans[p]].approved = TRUE
           /\ stored' \in [Calls -> StoredPlan \union {NoStored}]
           /\ UNCHANGED <<clock, plans, call, audit, executed>>
<1>1. plans[p] \in Calls /\ stored[plans[p]].plan = p
  BY DEF Approve, TypeInv, TypeOK, HeldInv
<1>2. p # None
  BY TsNoneAssumption
<1>3. stored[plans[p]] \in StoredPlan
  BY <1>1, <1>2 DEF TypeInv, TypeOK, NoStored
<1>. DEFINE r == [stored[plans[p]] EXCEPT !.approved = TRUE]
<1>4. /\ r \in StoredPlan /\ r.plan = p /\ r.approved = TRUE
      /\ r.requires = stored[plans[p]].requires
  BY <1>1, <1>3 DEF StoredPlan
<1>5. stored' = [stored EXCEPT ![plans[p]] = r]
  BY DEF Approve
<1>. HIDE DEF r
<1>6. /\ stored' \in [Calls -> StoredPlan \union {NoStored}]
      /\ stored'[plans[p]] = r
      /\ \A v \in Calls : v # plans[p] => stored'[v] = stored[v]
  BY <1>1, <1>4, <1>5 DEF TypeInv, TypeOK
<1>. QED
  BY <1>1, <1>3, <1>4, <1>6 DEF Approve

LEMMA TypeInvariant == Spec => []TypeInv
<1>1. Init => TypeInv
  BY DEF Init, TypeInv, TypeOK, CallsInv, HeldInv, NoStored, WellFormed, Idle,
         Call, PCs, Outcomes
<1>2. TypeInv /\ [Next]_vars => TypeInv'
  <2>. SUFFICES ASSUME TypeInv, [Next]_vars PROVE TypeInv'
    OBVIOUS
  <2>1. CASE UNCHANGED vars
    BY <2>1 DEF vars, TypeInv, TypeOK, CallsInv, HeldInv, WellFormed
  <2>2. CASE Tick
    BY <2>2 DEF Tick, TypeInv, TypeOK, CallsInv, HeldInv, WellFormed
  <2>3. ASSUME NEW p \in Plans, Approve(p) PROVE TypeInv'
    <3>. /\ UNCHANGED <<clock, plans, call, audit, executed>>
         /\ stored' \in [Calls -> StoredPlan \union {NoStored}]
      BY <2>3, ApproveFacts
    <3>1. CallsInv' /\ TypeOK'
      BY DEF TypeInv, TypeOK, CallsInv, WellFormed
    <3>2. \A v \in Calls : stored'[v].plan = stored[v].plan
      BY <2>3, ApproveFacts
    <3>3. \A q \in Plans : plans[q] # None => plans[q] \in Calls
      BY DEF TypeInv, TypeOK
    <3>4. HeldInv'
      BY <3>2, <3>3 DEF TypeInv, HeldInv
    <3>. QED
      BY <3>1, <3>4 DEF TypeInv
  <2>4. ASSUME NEW c \in Calls, Arrive(c) PROVE TypeInv'
    <3>1. CallsInv' /\ TypeOK'
      BY <2>4, ArriveMoves DEF TypeInv, TypeOK
    <3>2. HeldInv'
      BY <2>4, ArriveMoves DEF TypeInv, TypeOK, HeldInv
    <3>. QED
      BY <3>1, <3>2 DEF TypeInv
  <2>5. ASSUME NEW c \in Calls, Turn(c) PROVE TypeInv'
    <3>1. /\ call' \in [Calls -> Call] /\ CallsInv' /\ clock' = clock
          /\ audit' \subseteq Event /\ executed' \subseteq Execution
          /\ StorePlan(c) \/ UNCHANGED <<plans, stored>>
      BY <2>5, TurnMoves, TurnFrames
    <3>2. /\ plans' \in [Plans -> Calls \union {None}]
          /\ stored' \in [Calls -> StoredPlan \union {NoStored}]
      <4>1. CASE StorePlan(c)
        BY <4>1, StoreFacts DEF StorePlan, TypeInv, TypeOK
      <4>. QED
        BY <3>1, <4>1 DEF TypeInv, TypeOK
    <3>3. \A v \in Calls : call[v].pc = "done" => call'[v] = call[v]
      BY <2>5, TurnMoves
    <3>4. HeldInv'
      <4>1. CASE UNCHANGED <<plans, stored>>
        BY <3>3, <4>1 DEF TypeInv, HeldInv
      <4>2. CASE StorePlan(c)
        <5>1. call'[c].op = "plan" /\ call'[c].pc = "done"
          BY <4>2, StoreFacts
        <5>2. \A v \in Calls : stored'[v].plan # None =>
                call'[v].op = "plan" /\ call'[v].pc = "done"
          BY <3>3, <4>2, <5>1, StoreFacts DEF TypeInv, HeldInv
        <5>3. stored[c].plan = None
          BY <4>2, StoreFacts DEF TypeInv, HeldInv
        <5>4. ASSUME NEW p \in Plans, plans'[p] # None
              PROVE  stored'[plans'[p]].plan = p
          <6>1. CASE p = call[c].plan
            <7>1. plans'[p] = c /\ stored'[c].plan = call[c].plan
              BY <4>2, <6>1, StoreFacts
            <7>. QED
              BY <6>1, <7>1
          <6>2. CASE p # call[c].plan
            <7>1. plans'[p] = plans[p] /\ stored[plans[p]].plan = p /\ plans[p] \in Calls
              BY <4>2, <5>4, <6>2, StoreFacts DEF TypeInv, TypeOK, HeldInv
            <7>2. plans[p] # c
              BY <5>3, <7>1, TsNoneAssumption
            <7>. QED
              BY <4>2, <7>1, <7>2, StoreFacts
          <6>. QED
            BY <6>1, <6>2
        <5>. QED
          BY <5>2, <5>4 DEF HeldInv
      <4>. QED
        BY <3>1, <4>1, <4>2
    <3>. QED
      BY <3>1, <3>2, <3>4 DEF TypeInv, TypeOK
  <2>. QED
    BY <2>1, <2>2, <2>3, <2>4, <2>5 DEF Next
<1>. QED
  BY <1>1, <1>2, PTL DEF Spec

(* The state stays well typed, for every instance. *)
THEOREM EngineTypes == Spec => []TypeOK
BY TypeInvariant, PTL DEF TypeInv

-------------------------------------------------------------------------------
(* The policy.                                                             *)

(* A step that passed is allowed when it is approved as it needs to be.    *)
LEMMA PassedAllowed ==
    ASSUME NEW s, NEW requires \in BOOLEAN, NEW approved \in BOOLEAN,
           Passed(s, requires), requires => approved
    PROVE  PolicyAnswer(s, approved) = "allow"
<1>1. PolicyAnswer(s, FALSE) \in {"allow", "APPROVAL_REQUIRED"}
  BY DEF Passed, Blocked
<1>2. CASE approved
  BY <1>1, <1>2 DEF PolicyAnswer
<1>3. CASE ~approved
  <2>1. PolicyAnswer(s, FALSE) = "allow"
    BY <1>1, <1>3 DEF Passed, NeedsApproval
  <2>. QED
    BY <1>3, <2>1 DEF PolicyAnswer
<1>. QED
  BY <1>2, <1>3

(* A plan with a write that passed requires approval. *)
LEMMA PassedWriteRequires ==
    ASSUME NEW s, NEW requires, Passed(s, requires), IsWrite(EffectClass(s.cap))
    PROVE  requires
<1>1. PolicyAnswer(s, FALSE) \in {"allow", "APPROVAL_REQUIRED"} /\ ~Blocked(s)
  BY DEF Passed, Blocked
<1>2. PolicyAnswer(s, FALSE) # "allow"
  BY DEF PolicyAnswer
<1>. QED
  BY <1>1, <1>2 DEF Passed, NeedsApproval

-------------------------------------------------------------------------------
(* Evaluation at plan time.                                                *)

LEMMA TurnEvaluated ==
    ASSUME TypeInv, EvaluatedInv, NEW c \in Calls, Turn(c)
    PROVE  EvaluatedInv'
<1>1. ASSUME NEW d \in Calls \ {c} PROVE EvaluatedOf(d)'
  <2>1. call'[d] = call[d]
    BY TurnMoves
  <2>. QED
    BY <2>1 DEF EvaluatedInv, EvaluatedOf, StepAt, StepsIn
<1>. SUFFICES EvaluatedOf(c)'
  BY <1>1 DEF EvaluatedInv
<1>2. SameCall(c) /\ EvaluatedOf(c) /\ StepsIn(c)' = StepsIn(c)
  BY TurnMoves DEF EvaluatedInv, SameCall, StepsIn
<1>3. ASSUME call'[c].step = call[c].step, call'[c].requires = call[c].requires,
             call'[c].pc # "dry" \/ NeedsApproval(StepAt(c))
      PROVE  EvaluatedOf(c)'
  BY <1>2, <1>3 DEF EvaluatedOf, SameCall, StepAt
<1>4. ASSUME call'[c].step = call[c].step + 1, call'[c].pc = "step",
             call[c].requires => call'[c].requires, call[c].op = "plan",
             Passed(StepAt(c), call'[c].requires)
      PROVE  EvaluatedOf(c)'
  <2>. SUFFICES ASSUME NEW i \in 1 .. call'[c].step - 1
                PROVE  Passed(StepsIn(c)[i], call'[c].requires)
    BY <1>2, <1>4 DEF EvaluatedOf
  <2>1. call[c].step \in Nat
    BY Own
  <2>2. CASE i = call[c].step
    BY <1>4, <2>2 DEF StepAt
  <2>3. CASE i \in 1 .. call[c].step - 1
    BY <1>2, <1>4, <2>3 DEF EvaluatedOf, Passed
  <2>. QED
    BY <1>4, <2>1, <2>2, <2>3
<1>5. CASE AllowStep(c)
  <2>1. Passed(StepAt(c), call[c].requires) /\ call[c].op = "plan"
    BY <1>5, AllowFacts DEF Passed
  <2>. QED
    BY <1>4, <1>5, <2>1, AllowFacts, NextMoves DEF AtWork
<1>6. CASE RequireApproval(c)
  <2>1. NeedsApproval(StepAt(c)) /\ call[c].op = "plan"
    BY <1>2, <1>6, RequireFacts DEF EvaluatedOf
  <2>2. Passed(StepAt(c), TRUE)
    BY <2>1 DEF Passed, NeedsApproval
  <2>3. call'[c].requires = TRUE /\ call'[c].step = call[c].step + 1 /\ call'[c].pc = "step"
    BY <1>6, RequireFacts, NextMoves DEF AtWork
  <2>. QED
    BY <1>4, <2>1, <2>2, <2>3
<1>7. CASE DryRun(c)
  BY <1>3, <1>7, DryRunFacts, GotoMoves DEF AtWork, PCs
<1>8. CASE AbortPlan(c)
  BY <1>3, <1>8, AbortFacts, GotoMoves DEF AtWork, PCs
<1>9. CASE BlockStep(c)
  BY <1>3, <1>9, BlockFacts, EndMoves DEF AtWork, Outcomes
<1>10. CASE StorePlan(c)
  BY <1>3, <1>10, OverFacts, EndMoves DEF StorePlan, Outcomes
<1>11. ASSUME call[c].op = "apply" PROVE EvaluatedOf(c)'
  BY <1>2, <1>11 DEF EvaluatedOf, SameCall
<1>. QED
  BY <1>5, <1>6, <1>7, <1>8, <1>9, <1>10, <1>11, MintFacts, RefuseFacts, InvokeFacts,
     InvokedFacts, FailsFacts
  DEF Turn, PlanTurn, ApplyTurn, FinishApply, StepsOver

(* StorePlan stores a plan whose steps have all passed. *)
LEMMA TurnStored ==
    ASSUME TypeInv, EvaluatedInv, StoredInv, NEW c \in Calls, Turn(c)
    PROVE  StoredInv'
<1>1. CASE UNCHANGED stored
  BY <1>1 DEF StoredInv, Cleared
<1>2. CASE StorePlan(c)
  <2>1. Cleared(call[c].plan, call[c].requires)
    <3>1. /\ call[c].step - 1 = Len(StepsIn(c)) /\ call[c].op = "plan"
          /\ DOMAIN StepsIn(c) = 1 .. Len(StepsIn(c))
      BY <1>2, StoreFacts, Own
    <3>. QED
      BY <3>1 DEF EvaluatedInv, EvaluatedOf, Cleared, StepsIn
  <2>2. stored'[c] = NewStored(c)
    BY <1>2, StoreFacts
  <2>3. \A d \in Calls : d # c => stored'[d] = stored[d]
    BY <1>2, StoreFacts
  <2>. QED
    BY <2>1, <2>2, <2>3 DEF StoredInv, Cleared, NewStored
<1>. QED
  BY <1>1, <1>2, TurnFrames

-------------------------------------------------------------------------------
(* Admission.                                                              *)

(* What was admitted keeps its object, which no plan request makes again.  *)
LEMMA ObjectStays ==
    ASSUME TypeInv, AdmittedInv, NEW c \in Calls, Turn(c),
           NEW d \in Calls, call[d].op = "apply"
    PROVE  stored'[call[d].version] = stored[call[d].version]
<1>1. call[d].version \in Calls /\ call[d].plan \in Plans /\ call[d].plan # None
  BY Own, TsNoneAssumption DEF WellFormed
<1>2. CASE StorePlan(c)
  <2>1. call[call[d].version].pc = "done"
    BY <1>1 DEF AdmittedInv, AdmittedOf, TypeInv, HeldInv
  <2>2. call[c].pc = "step"
    BY <1>2, StoreFacts
  <2>. QED
    BY <1>1, <1>2, <2>1, <2>2, StoreFacts
<1>. QED
  BY <1>2, TurnFrames

LEMMA TurnAdmitted ==
    ASSUME TypeInv, AdmittedInv, NEW c \in Calls, Turn(c)
    PROVE  AdmittedInv'
<1>. SUFFICES ASSUME NEW d \in Calls, call'[d].op = "apply" PROVE AdmittedOf(d)'
  BY DEF AdmittedInv, AdmittedOf
<1>1. SameCall(d) /\ call[d].op = "apply" /\ AdmittedOf(d)
  BY TurnMoves DEF SameCall, AdmittedInv
<1>2. stored'[call[d].version] = stored[call[d].version]
  BY <1>1, ObjectStays
<1>. QED
  BY <1>1, <1>2 DEF AdmittedOf, SameCall

(* The present step of an admitted apply is one that passed, and approved  *)
(* as it needs to be.                                                      *)
LEMMA AdmittedPassed ==
    ASSUME TypeInv, StoredInv, AdmittedInv, NEW c \in Calls, call[c].op = "apply",
           NEW i \in DOMAIN StepsIn(c)
    PROVE  /\ call[c].version \in Calls
           /\ Passed(StepsIn(c)[i], stored[call[c].version].requires)
           /\ PolicyAnswer(StepsIn(c)[i], stored[call[c].version].approved) = "allow"
<1>. DEFINE o == stored[call[c].version]
<1>1. call[c].version \in Calls /\ call[c].plan \in Plans /\ call[c].plan # None
  BY Own, TsNoneAssumption DEF WellFormed
<1>2. o.plan = call[c].plan /\ (o.requires => o.approved)
  BY DEF AdmittedInv, AdmittedOf
<1>3. o \in StoredPlan
  BY <1>1, <1>2 DEF TypeInv, TypeOK, NoStored
<1>4. Passed(StepsIn(c)[i], o.requires)
  BY <1>1, <1>2 DEF StoredInv, Cleared, StepsIn
<1>5. o.requires \in BOOLEAN /\ o.approved \in BOOLEAN
  BY <1>3 DEF StoredPlan
<1>. QED
  BY <1>1, <1>2, <1>4, <1>5, PassedAllowed

(* So the policy's second answer is never a refusal.                       *)
LEMMA TurnNeverChallenged ==
    ASSUME TypeInv, StoredInv, AdmittedInv, AdmittedNeverChallenged,
           NEW c \in Calls, Turn(c)
    PROVE  AdmittedNeverChallenged'
<1>. DEFINE Fine(o) == o \notin {"APPROVAL_REQUIRED", "DATA_FLOW_FORBIDDEN"}
<1>1. \A d \in Calls \ {c} : call'[d] = call[d]
  BY TurnMoves
<1>. SUFFICES Fine(call'[c].outcome)
  BY <1>1 DEF AdmittedNeverChallenged
<1>2. Fine(call[c].outcome)
  BY DEF AdmittedNeverChallenged
<1>3. CASE RefuseStep(c)
  <2>1. InvokeAnswer(c) = "allow"
    BY <1>3, RefuseFacts, AdmittedPassed DEF AtWork, InvokeAnswer, StepAt
  <2>2. PICK reason \in Outcomes \ {"ok"} :
            End(c, reason) /\ (reason = "GRANT_EXPIRED" \/ reason = InvokeAnswer(c))
    BY <1>3, RefuseFacts
  <2>3. reason = "GRANT_EXPIRED"
    BY <2>1, <2>2 DEF Outcomes
  <2>. QED
    BY <2>2, <2>3, EndMoves
<1>4. CASE AllowStep(c)
  BY <1>2, <1>4, AllowFacts, NextMoves DEF AtWork
<1>5. CASE RequireApproval(c)
  BY <1>2, <1>5, RequireFacts, NextMoves DEF AtWork
<1>6. CASE DryRun(c)
  BY <1>2, <1>6, DryRunFacts, GotoMoves DEF AtWork, PCs
<1>7. CASE AbortPlan(c)
  BY <1>2, <1>7, AbortFacts, GotoMoves DEF AtWork, PCs
<1>8. CASE BlockStep(c)
  BY <1>8, BlockFacts, EndMoves DEF AtWork, Outcomes
<1>9. CASE StorePlan(c) \/ FinishApply(c)
  BY <1>9, OverFacts, EndMoves DEF StorePlan, FinishApply, Outcomes
<1>10. CASE MintGrant(c)
  BY <1>2, <1>10, MintMoves
<1>11. CASE Invoke(c)
  BY <1>2, <1>11, InvokeFacts, GotoMoves DEF AtWork, PCs
<1>12. CASE RecordInvoked(c)
  BY <1>2, <1>12, InvokedFacts, NextMoves DEF AtWork
<1>13. CASE ProviderFails(c)
  BY <1>13, FailsFacts, EndMoves DEF AtWork, Outcomes
<1>. QED
  BY <1>3, <1>4, <1>5, <1>6, <1>7, <1>8, <1>9, <1>10, <1>11, <1>12, <1>13
  DEF Turn, PlanTurn, ApplyTurn

-------------------------------------------------------------------------------
(* What an apply has behind it.                                            *)

(* Only its own turns change what is asked of an apply, and log and        *)
(* provider never forget.                                                  *)
LEMMA KeptProgress ==
    ASSUME NEW d, call'[d] = call[d], ProgressOf(d),
           audit \subseteq audit', executed \subseteq executed'
    PROVE  ProgressOf(d)'
BY DEF ProgressOf, AppliedAt, Event3

LEMMA TurnProgress ==
    ASSUME TypeInv, ProgressInv, NEW c \in Calls, Turn(c)
    PROVE  ProgressInv'
<1>. audit \subseteq audit' /\ executed \subseteq executed'
  BY TurnFrames
<1>1. ASSUME NEW d \in Calls \ {c} PROVE ProgressOf(d)'
  BY TurnMoves, KeptProgress DEF ProgressInv
<1>. SUFFICES ProgressOf(c)'
  BY <1>1 DEF ProgressInv
<1>. SUFFICES ASSUME call[c].op = "apply" PROVE ProgressOf(c)'
  BY TurnMoves DEF ProgressOf, SameCall
<1>2. /\ ProgressOf(c) /\ SameCall(c) /\ call[c].step \in Nat \ {0}
      /\ \A i : AppliedAt(c, i)' = AppliedAt(c, i)
      /\ \A event, i : Event3(event, c, i)' = Event3(event, c, i)
  BY TurnMoves, Own DEF ProgressInv, SameCall, AppliedAt, Event3
<1>3. ASSUME call'[c].step = call[c].step,
             call'[c].pc \notin {"verify", "answer"}
      PROVE  ProgressOf(c)'
  BY <1>2, <1>3 DEF ProgressOf
<1>4. CASE MintGrant(c)
  <2>1. Event3("vcp.grant.minted", c, call[c].step) \in audit'
    BY <1>4, MintFacts DEF Adds
  <2>. QED
    BY <1>2, <1>4, <2>1, MintMoves DEF ProgressOf
<1>5. CASE Invoke(c)
  <2>1. AppliedAt(c, call[c].step) \in executed'
    BY <1>5, InvokeFacts DEF AppliedAt, ExecutionAt
  <2>2. call'[c].pc = "answer" /\ call'[c].step = call[c].step
    BY <1>5, InvokeFacts, GotoMoves DEF AtWork, PCs
  <2>3. call[c].pc = "verify"
    BY <1>5, InvokeFacts
  <2>. QED
    BY <1>2, <2>1, <2>2, <2>3 DEF ProgressOf
<1>6. CASE RecordInvoked(c)
  <2>1. Event3("vcp.capability.invoked", c, call[c].step) \in audit'
    BY <1>6, InvokedFacts DEF Adds
  <2>2. call'[c].pc = "step" /\ call'[c].step = call[c].step + 1
    BY <1>6, InvokedFacts, NextMoves DEF AtWork
  <2>3. AppliedAt(c, call[c].step) \in executed
    BY <1>2, <1>6, InvokedFacts DEF ProgressOf
  <2>4. \A i \in 1 .. call[c].step + 1 - 1 : i = call[c].step \/ i \in 1 .. call[c].step - 1
    BY <1>2
  <2>. QED
    BY <1>2, <2>1, <2>2, <2>3, <2>4 DEF ProgressOf
<1>7. CASE RefuseStep(c)
  BY <1>3, <1>7, RefuseFacts, EndMoves
<1>8. CASE ProviderFails(c)
  BY <1>3, <1>8, FailsFacts, EndMoves DEF Outcomes
<1>9. CASE FinishApply(c)
  BY <1>3, <1>9, OverFacts, EndMoves DEF FinishApply, Outcomes
<1>10. ~PlanTurn(c)
  BY AbortFacts, BlockFacts, AllowFacts, DryRunFacts, RequireFacts, StoreFacts
  DEF PlanTurn
<1>. QED
  BY <1>4, <1>5, <1>6, <1>7, <1>8, <1>9, <1>10 DEF Turn, ApplyTurn

(* What was executed belongs to a step its apply has reached.              *)
LEMMA KeptBelongs ==
    ASSUME NEW e, call'[e.call] = call[e.call], Belongs(e), audit \subseteq audit'
    PROVE  Belongs(e)'
BY DEF Belongs, Failed, Event3

LEMMA TurnApplied ==
    ASSUME TypeInv, ProgressInv, AppliedInv, NEW c \in Calls, Turn(c)
    PROVE  AppliedInv'
<1>. /\ audit \subseteq audit' /\ executed \subseteq executed'
     /\ executed' \subseteq Execution
  BY TurnFrames
<1>. SUFFICES ASSUME NEW e \in executed', ~e.dryRun PROVE Belongs(e)'
  BY DEF AppliedInv, Applied
<1>1. /\ SameCall(c) /\ call[c].step \in Nat \ {0}
      /\ \A d \in Calls \ {c} : call'[d] = call[d]
      /\ e.call \in Calls /\ e.step \in Nat
  BY TurnMoves, Own DEF Execution
<1>2. CASE e \notin executed
  <2>1. Invoke(c) /\ e = ExecutionAt(c, FALSE)
    BY <1>2, TurnFrames DEF ExecutionAt
  <2>2. /\ AtWork(c) /\ call[c].op = "apply" /\ call[c].pc = "verify"
        /\ Goto(c, "answer")
    BY <2>1, InvokeFacts
  <2>3. call'[c].pc = "answer" /\ call'[c].step = call[c].step
    BY <2>2, GotoMoves DEF AtWork, PCs
  <2>4. e.call = c /\ e.step = call[c].step /\ e.plan = call[c].plan
    BY <2>1 DEF ExecutionAt
  <2>5. Event3("vcp.grant.minted", c, call[c].step) \in audit'
    BY <2>2 DEF ProgressInv, ProgressOf
  <2>6. call[c].step \in DOMAIN StepsOf[call[c].plan]
    BY <2>2 DEF AtWork, StepsIn
  <2>. QED
    BY <1>1, <2>2, <2>3, <2>4, <2>5, <2>6 DEF Belongs, SameCall, Event3
<1>3. CASE e \in executed /\ e.call # c
  BY <1>1, <1>3, KeptBelongs DEF AppliedInv, Applied
<1>4. CASE e \in executed /\ e.call = c
  <2>1. /\ Belongs(e) /\ call'[c].op = "apply" /\ e.plan = call'[c].plan
        /\ Event3("vcp.grant.minted", c, e.step) \in audit'
    BY <1>1, <1>4 DEF AppliedInv, Applied, Belongs, SameCall
  <2>. DEFINE Reached ==
         \/ e.step < call'[c].step
         \/ e.step = call'[c].step /\ (call'[c].pc = "answer" \/ Failed(c)')
  <2>. SUFFICES Reached
    BY <1>4, <2>1 DEF Belongs, Event3
  <2>2. call[c].op = "apply" /\ call[c].pc # "done"
    BY <1>1, <2>1, TurnMoves DEF SameCall
  <2>3. e.step < call[c].step \/ (e.step = call[c].step /\ call[c].pc = "answer")
    BY <1>4, <2>1, <2>2 DEF Belongs, Failed
  <2>4. CASE RecordInvoked(c)
    <3>1. call'[c].step = call[c].step + 1
      BY <2>4, InvokedFacts, NextMoves DEF AtWork
    <3>. QED
      BY <1>1, <2>3, <3>1
  <2>5. CASE ProviderFails(c)
    <3>1. call'[c].pc = "done" /\ call'[c].step = call[c].step
      BY <2>5, FailsFacts, EndMoves DEF Outcomes
    <3>2. Failed(c)'
      BY <2>5, <3>1, FailsFacts DEF Failed, Adds, Event3
    <3>. QED
      BY <2>3, <3>1, <3>2
  <2>6. ASSUME call[c].pc # "answer", call'[c].step = call[c].step PROVE Reached
    BY <2>3, <2>6
  <2>7. CASE MintGrant(c)
    BY <2>6, <2>7, MintFacts, MintMoves
  <2>8. CASE RefuseStep(c)
    BY <2>6, <2>8, RefuseFacts, EndMoves
  <2>9. CASE Invoke(c)
    BY <2>6, <2>9, InvokeFacts, GotoMoves DEF AtWork, PCs
  <2>10. CASE FinishApply(c)
    BY <2>6, <2>10, OverFacts, EndMoves DEF FinishApply, Outcomes
  <2>11. ~PlanTurn(c)
    BY <2>2, AbortFacts, BlockFacts, AllowFacts, DryRunFacts, RequireFacts, StoreFacts
    DEF PlanTurn
  <2>. QED
    BY <2>4, <2>5, <2>7, <2>8, <2>9, <2>10, <2>11 DEF Turn, ApplyTurn
<1>. QED
  BY <1>2, <1>3, <1>4

(* A dry run is logged before its request goes on.                         *)
LEMMA KeptRehearsed ==
    ASSUME NEW e, call'[e.call] = call[e.call], Rehearsed(e), audit \subseteq audit'
    PROVE  Rehearsed(e)'
BY DEF Rehearsed, Logged, At

LEMMA TurnRehearsed ==
    ASSUME TypeInv, RehearsedInv, NEW c \in Calls, Turn(c)
    PROVE  RehearsedInv'
<1>. audit \subseteq audit' /\ executed' \subseteq Execution
  BY TurnFrames
<1>. SUFFICES ASSUME NEW e \in executed', e.dryRun PROVE Rehearsed(e)'
  BY DEF RehearsedInv
<1>1. /\ SameCall(c) /\ \A d \in Calls \ {c} : call'[d] = call[d]
      /\ e.call \in Calls
      /\ \A event : Event3(event, c, call[c].step)' = Event3(event, c, call'[c].step)
  BY TurnMoves DEF Execution, Event3
<1>2. CASE e \notin executed
  <2>1. DryRun(c) /\ e = ExecutionAt(c, TRUE)
    BY <1>2, TurnFrames DEF ExecutionAt
  <2>2. /\ call[c].op = "plan" /\ call'[c].pc = "dry"
        /\ call'[c].step = call[c].step
    BY <2>1, DryRunFacts, GotoMoves DEF AtWork, PCs
  <2>3. e.call = c /\ e.step = call[c].step
    BY <2>1 DEF ExecutionAt
  <2>. QED
    BY <1>1, <2>2, <2>3 DEF Rehearsed, At, SameCall
<1>3. CASE e \in executed /\ e.call # c
  BY <1>1, <1>3, KeptRehearsed DEF RehearsedInv
<1>4. CASE e \in executed /\ e.call = c
  <2>1. Rehearsed(e) /\ call[c].op = "plan" /\ call'[c].op = "plan"
    BY <1>1, <1>4 DEF RehearsedInv, Rehearsed, SameCall
  <2>2. CASE Logged(e, "vcp.plan.dry_run")
    BY <1>4, <2>1, <2>2 DEF Rehearsed, Logged
  <2>3. CASE ~Logged(e, "vcp.plan.dry_run")
    <3>1. e.step = call[c].step /\ call[c].pc = "dry"
      BY <1>4, <2>1, <2>3, TurnMoves DEF Rehearsed, At
    <3>2. CASE AbortPlan(c)
      <4>1. call'[c].pc = "aborted" /\ call'[c].step = call[c].step
        BY <3>2, AbortFacts, GotoMoves DEF AtWork, PCs
      <4>. QED
        BY <1>4, <2>1, <3>1, <4>1 DEF Rehearsed, At
    <3>3. CASE RequireApproval(c)
      <4>1. Event3("vcp.plan.dry_run", c, call[c].step) \in audit'
        BY <3>3, RequireFacts DEF Adds
      <4>. QED
        BY <1>4, <2>1, <3>1, <4>1 DEF Rehearsed, Logged, Event3
    <3>4. ~ApplyTurn(c)
      BY <2>1, MintFacts, RefuseFacts, InvokeFacts, InvokedFacts, FailsFacts
      DEF ApplyTurn, FinishApply, StepsOver
    <3>5. ~BlockStep(c) /\ ~AllowStep(c) /\ ~DryRun(c) /\ ~StorePlan(c)
      BY <3>1 DEF BlockStep, AllowStep, DryRun, StorePlan, AtStep, StepsOver
    <3>. QED
      BY <3>2, <3>3, <3>4, <3>5 DEF Turn, PlanTurn
  <2>. QED
    BY <2>2, <2>3
<1>. QED
  BY <1>2, <1>3, <1>4

(* A grant is announced by MintGrant alone.                                *)
LEMMA OnlyMintAnnounces ==
    ASSUME TypeInv, NEW c \in Calls, Turn(c), ~MintGrant(c),
           NEW e \in audit', e.event = "vcp.grant.minted"
    PROVE  e \in audit
<1>1. ASSUME NEW event, Adds(c, event), event # "vcp.grant.minted" PROVE e \in audit
  BY <1>1 DEF Adds, Event3
<1>2. CASE AbortPlan(c) \/ DryRun(c) \/ StorePlan(c) \/ Invoke(c) \/ FinishApply(c)
  BY <1>2 DEF AbortPlan, DryRun, StorePlan, Invoke, FinishApply
<1>3. CASE BlockStep(c) \/ AllowStep(c) \/ RequireApproval(c)
  BY <1>1, <1>3, BlockFacts, AllowFacts, RequireFacts
<1>4. CASE RefuseStep(c) \/ RecordInvoked(c) \/ ProviderFails(c)
  BY <1>1, <1>4, RefuseFacts, InvokedFacts, FailsFacts
<1>. QED
  BY <1>2, <1>3, <1>4 DEF Turn, PlanTurn, ApplyTurn

(* Only its own call's turns change what became of a grant.                *)
LEMMA KeptEntitled ==
    ASSUME NEW d, NEW i, call'[d] = call[d], Entitled(d, i),
           audit \subseteq audit', executed \subseteq executed',
           \A x \in executed' : x \in executed \/ x.call # d
    PROVE  Entitled(d, i)'
<1>1. Failed(d) => Failed(d)'
  BY DEF Failed, Event3
<1>2. Spent(d) => Spent(d)'
  BY <1>1 DEF Spent, AppliedAt
<1>3. Expired(d) => Expired(d)'
  BY DEF Expired, Unused, Applied, Event3
<1>. QED
  BY <1>2, <1>3 DEF Entitled

(* A grant that waits for verifyGrant was not used.                        *)
LEMMA WaitingUnused ==
    ASSUME TypeInv, AppliedInv, NEW c \in Calls, call[c].pc = "verify"
    PROVE  Unused(c)
<1>. SUFFICES ASSUME NEW x \in Applied, x.call = c, x.step = call[c].step PROVE FALSE
  BY DEF Unused
<1>1. Belongs(x) /\ call[c].step \in Nat
  BY Own DEF AppliedInv
<1>. QED
  BY <1>1 DEF Belongs, Failed

LEMMA TurnGrants ==
    ASSUME TypeInv, ProgressInv, AppliedInv, GrantsInv, NEW c \in Calls, Turn(c)
    PROVE  GrantsInv'
<1>. audit \subseteq audit' /\ executed \subseteq executed' /\ audit' \subseteq Event
  BY TurnFrames
<1>. SUFFICES ASSUME NEW e \in audit', e.event = "vcp.grant.minted"
              PROVE  Entitled(e.call, e.step)'
  BY DEF GrantsInv
<1>1. /\ SameCall(c) /\ call[c].step \in Nat \ {0}
      /\ \A d \in Calls \ {c} : call'[d] = call[d]
      /\ e.call \in Calls /\ e.step \in Nat
      /\ call[c].pc # "done"
  BY TurnMoves, Own DEF Event
<1>2. CASE e \notin audit
  <2>1. MintGrant(c)
    BY <1>2, OnlyMintAnnounces
  <2>2. /\ call[c].op = "apply" /\ call'[c].pc = "verify"
        /\ call'[c].step = call[c].step /\ Adds(c, "vcp.grant.minted")
    BY <2>1, MintFacts, MintMoves
  <2>3. e.call = c /\ e.step = call[c].step
    BY <1>2, <2>2 DEF Adds, Event3
  <2>. QED
    BY <1>1, <2>2, <2>3 DEF Entitled, SameCall
<1>3. CASE e \in audit /\ e.call # c
  <2>1. \A x \in executed' : x \in executed \/ x.call # e.call
    BY <1>3, TurnFrames DEF ExecutionAt
  <2>. QED
    BY <1>1, <1>3, <2>1, KeptEntitled DEF GrantsInv
<1>4. CASE e \in audit /\ e.call = c
  <2>1. /\ call[c].op = "apply" /\ call'[c].op = "apply"
        /\ \/ e.step < call[c].step
           \/ e.step = call[c].step /\ call[c].pc \in {"verify", "answer"}
    BY <1>1, <1>4 DEF GrantsInv, Entitled, Spent, Expired, Failed, SameCall
  <2>2. CASE RecordInvoked(c)
    <3>1. call'[c].step = call[c].step + 1
      BY <2>2, InvokedFacts, NextMoves DEF AtWork
    <3>. QED
      BY <1>1, <1>4, <2>1, <3>1 DEF Entitled
  <2>3. CASE ProviderFails(c)
    <3>1. /\ call[c].pc = "answer" /\ call'[c].pc = "done"
          /\ call'[c].step = call[c].step
      BY <2>3, FailsFacts, EndMoves DEF Outcomes
    <3>2. Failed(c)'
      BY <2>3, <3>1, FailsFacts DEF Failed, Adds, Event3
    <3>3. AppliedAt(c, call[c].step) \in executed'
      BY <2>1, <3>1 DEF ProgressInv, ProgressOf
    <3>4. Spent(c)'
      BY <1>1, <3>1, <3>2, <3>3 DEF Spent, AppliedAt, SameCall
    <3>. QED
      BY <1>4, <2>1, <3>1, <3>4 DEF Entitled
  <2>4. CASE RefuseStep(c)
    <3>1. PICK reason \in Outcomes \ {"ok"} :
            End(c, reason) /\ (call[c].pc = "verify" => reason = "GRANT_EXPIRED")
      BY <2>4, RefuseFacts
    <3>2. /\ call'[c].pc = "done" /\ call'[c].step = call[c].step
          /\ call'[c].outcome = reason
          /\ call[c].pc \in {"step", "verify"} /\ Adds(c, "vcp.policy.denied")
          /\ executed' = executed
      BY <1>1, <2>4, <3>1, RefuseFacts, EndMoves DEF AtWork, RefuseStep
    <3>3. call[c].pc = "verify" => Expired(c)'
      BY <3>1, <3>2, WaitingUnused DEF Expired, Unused, Applied, Adds, Event3
    <3>. QED
      BY <1>4, <2>1, <3>2, <3>3 DEF Entitled
  <2>5. CASE MintGrant(c)
    BY <1>4, <2>1, <2>5, MintFacts, MintMoves DEF Entitled
  <2>6. CASE Invoke(c)
    <3>1. call'[c].pc = "answer" /\ call'[c].step = call[c].step
      BY <2>6, InvokeFacts, GotoMoves DEF AtWork, PCs
    <3>. QED
      BY <1>4, <2>1, <3>1 DEF Entitled
  <2>7. CASE FinishApply(c)
    <3>1. call'[c].step = call[c].step /\ call[c].pc = "step"
      BY <2>7, OverFacts, EndMoves DEF FinishApply, Outcomes
    <3>. QED
      BY <1>4, <2>1, <3>1 DEF Entitled
  <2>8. ~PlanTurn(c)
    BY <2>1, AbortFacts, BlockFacts, AllowFacts, DryRunFacts, RequireFacts, StoreFacts
    DEF PlanTurn
  <2>. QED
    BY <2>2, <2>3, <2>4, <2>5, <2>6, <2>7, <2>8 DEF Turn, ApplyTurn
<1>. QED
  BY <1>2, <1>3, <1>4

-------------------------------------------------------------------------------
(* The other steps: the clock, an arriving request, an approving user.     *)

LEMMA ArriveKeeps ==
    ASSUME TypeInv, EngineInv, NEW c \in Calls, Arrive(c)
    PROVE  EngineInv'
<1>1. /\ \A d \in Calls \ {c} : call'[d] = call[d]
      /\ call[c].op = "none"
      /\ UNCHANGED <<plans, stored, audit, executed>>
  BY ArriveMoves
<1>2. EvaluatedOf(c)'
  BY ArriveMoves DEF EvaluatedOf
<1>3. EvaluatedInv'
  <2>1. ASSUME NEW d \in Calls \ {c} PROVE EvaluatedOf(d)'
    BY <1>1 DEF EngineInv, EvaluatedInv, EvaluatedOf, StepAt, StepsIn
  <2>. QED
    BY <1>2, <2>1 DEF EvaluatedInv
<1>4. StoredInv'
  BY <1>1 DEF EngineInv, StoredInv, Cleared
<1>5. AdmittedInv'
  <2>1. ASSUME NEW d \in Calls \ {c} PROVE AdmittedOf(d)'
    BY <1>1 DEF EngineInv, AdmittedInv, AdmittedOf
  <2>2. AdmittedOf(c)'
    <3>. SUFFICES ASSUME call'[c].op = "apply" PROVE AdmittedOf(c)'
      BY DEF AdmittedOf
    <3>1. PICK p \in Plans : /\ p = call'[c].plan /\ Admissible(p)
                             /\ call'[c].version = plans[p]
      BY ArriveMoves
    <3>2. stored[plans[p]].plan = p
      BY <3>1 DEF Admissible, TypeInv, HeldInv
    <3>. QED
      BY <1>1, <3>1, <3>2 DEF Admissible, AdmittedOf
  <2>. QED
    BY <2>1, <2>2 DEF AdmittedInv
<1>6. AdmittedNeverChallenged'
  BY <1>1, ArriveMoves DEF EngineInv, AdmittedNeverChallenged
<1>7. ProgressInv'
  <2>1. ASSUME NEW d \in Calls \ {c} PROVE ProgressOf(d)'
    BY <1>1, KeptProgress DEF EngineInv, ProgressInv
  <2>2. ProgressOf(c)'
    BY ArriveMoves DEF ProgressOf
  <2>. QED
    BY <2>1, <2>2 DEF ProgressInv
<1>8. AppliedInv'
  <2>. SUFFICES ASSUME NEW e \in executed, ~e.dryRun PROVE Belongs(e)'
    BY <1>1 DEF AppliedInv, Applied
  <2>1. Belongs(e) /\ e.call \in Calls
    BY DEF EngineInv, AppliedInv, Applied, TypeInv, TypeOK, Execution
  <2>2. e.call # c
    BY <1>1, <2>1 DEF Belongs
  <2>. QED
    BY <1>1, <2>1, <2>2, KeptBelongs
<1>9. RehearsedInv'
  <2>. SUFFICES ASSUME NEW e \in executed, e.dryRun PROVE Rehearsed(e)'
    BY <1>1 DEF RehearsedInv
  <2>1. Rehearsed(e) /\ e.call \in Calls
    BY DEF EngineInv, RehearsedInv, TypeInv, TypeOK, Execution
  <2>2. e.call # c
    BY <1>1, <2>1 DEF Rehearsed
  <2>. QED
    BY <1>1, <2>1, <2>2, KeptRehearsed
<1>10. GrantsInv'
  <2>. SUFFICES ASSUME NEW e \in audit, e.event = "vcp.grant.minted"
                PROVE  Entitled(e.call, e.step)'
    BY <1>1 DEF GrantsInv
  <2>1. Entitled(e.call, e.step) /\ e.call \in Calls
    BY DEF EngineInv, GrantsInv, TypeInv, TypeOK, Event
  <2>2. e.call # c
    BY <1>1, <2>1 DEF Entitled
  <2>. QED
    BY <1>1, <2>1, <2>2, KeptEntitled
<1>. QED
  BY <1>3, <1>4, <1>5, <1>6, <1>7, <1>8, <1>9, <1>10 DEF EngineInv

(* An approval only ever gives what an admitted apply may rely on.         *)
LEMMA ApproveKeeps ==
    ASSUME TypeInv, EngineInv, NEW p \in Plans, Approve(p)
    PROVE  EngineInv'
<1>1. UNCHANGED <<clock, plans, call, audit, executed>>
  BY ApproveFacts
<1>2. \A v \in Calls :
        /\ stored'[v].plan = stored[v].plan
        /\ stored'[v].requires = stored[v].requires
        /\ stored[v].approved => stored'[v].approved
  BY ApproveFacts
<1>3. /\ EvaluatedInv' /\ AdmittedNeverChallenged' /\ ProgressInv' /\ AppliedInv'
      /\ RehearsedInv' /\ GrantsInv'
  BY <1>1 DEF EngineInv, EvaluatedInv, EvaluatedOf, StepAt, StepsIn,
              AdmittedNeverChallenged, ProgressInv, ProgressOf, AppliedAt, Event3,
              AppliedInv, Applied, Belongs, Failed, RehearsedInv, Rehearsed, Logged, At,
              GrantsInv, Entitled, Spent, Expired, Unused
<1>4. StoredInv'
  BY <1>2 DEF EngineInv, StoredInv, Cleared
<1>5. AdmittedInv'
  <2>. SUFFICES ASSUME NEW d \in Calls, call[d].op = "apply" PROVE AdmittedOf(d)'
    BY <1>1 DEF AdmittedInv, AdmittedOf
  <2>1. AdmittedOf(d) /\ call[d].version \in Calls
    BY Own DEF EngineInv, AdmittedInv, WellFormed
  <2>. QED
    BY <1>1, <1>2, <2>1 DEF AdmittedOf
<1>. QED
  BY <1>3, <1>4, <1>5 DEF EngineInv

LEMMA QuietKeeps ==
    ASSUME EngineInv, UNCHANGED <<plans, stored, call, audit, executed>>
    PROVE  EngineInv'
BY DEF EngineInv, EvaluatedInv, EvaluatedOf, StepAt, StepsIn, StoredInv, Cleared,
       AdmittedInv, AdmittedOf, AdmittedNeverChallenged, ProgressInv, ProgressOf,
       AppliedAt, Event3, AppliedInv, Applied, Belongs, Failed, RehearsedInv,
       Rehearsed, Logged, At, GrantsInv, Entitled, Spent, Expired, Unused

LEMMA EngineInit == Init => EngineInv
BY DEF Init, Idle, NoStored, EngineInv, EvaluatedInv, EvaluatedOf, StoredInv,
       AdmittedInv, AdmittedOf, AdmittedNeverChallenged, ProgressInv, ProgressOf,
       AppliedInv, Applied, RehearsedInv, GrantsInv

LEMMA EngineInvariant == Spec => []EngineInv
<1>1. Init => EngineInv
  BY EngineInit
<1>2. TypeInv /\ EngineInv /\ [Next]_vars => EngineInv'
  <2>. SUFFICES ASSUME TypeInv, EngineInv, [Next]_vars PROVE EngineInv'
    OBVIOUS
  <2>1. CASE UNCHANGED vars \/ Tick
    BY <2>1, QuietKeeps DEF vars, Tick
  <2>2. ASSUME NEW p \in Plans, Approve(p) PROVE EngineInv'
    BY <2>2, ApproveKeeps
  <2>3. ASSUME NEW c \in Calls, Arrive(c) PROVE EngineInv'
    BY <2>3, ArriveKeeps
  <2>4. ASSUME NEW c \in Calls, Turn(c) PROVE EngineInv'
    BY <2>4, TurnEvaluated, TurnStored, TurnAdmitted, TurnNeverChallenged,
       TurnProgress, TurnApplied, TurnRehearsed, TurnGrants DEF EngineInv
  <2>. QED
    BY <2>1, <2>2, <2>3, <2>4 DEF Next
<1>. QED
  BY <1>1, <1>2, TypeInvariant, PTL DEF Spec

-------------------------------------------------------------------------------
(* The properties of the runs.                                             *)

(* A provider call that was not a dry run, and the apply that made it.     *)
LEMMA AppliedFacts ==
    ASSUME TypeInv, EngineInv, NEW e \in Applied
    PROVE  /\ e \in Execution /\ Belongs(e) /\ e.call \in Calls
           /\ call[e.call].op = "apply" /\ e.plan = call[e.call].plan
           /\ e.step \in Nat \ {0} /\ call[e.call].step \in Nat
           /\ e.step <= call[e.call].step
           /\ StepsOf[e.plan] = StepsIn(e.call)
<1>1. e \in Execution /\ Belongs(e)
  BY DEF EngineInv, AppliedInv, Applied, TypeInv, TypeOK
<1>2. e.call \in Calls /\ e.step \in Nat \ {0} /\ call[e.call].step \in Nat
  BY <1>1, Own DEF Execution
<1>. QED
  BY <1>1, <1>2 DEF Belongs, StepsIn

(* No step of a plan in which evaluateStep blocked anything is ever        *)
(* applied: only plans that passed as a whole are stored, and an apply     *)
(* keeps the object it was admitted against; for every instance.           *)
THEOREM BlockedStepsNeverRun == Spec => []BlockedNeverRuns
<1>1. TypeInv /\ EngineInv => BlockedNeverRuns
  <2>. SUFFICES ASSUME TypeInv, EngineInv, NEW e \in Applied,
                       NEW i \in DOMAIN StepsOf[e.plan]
                PROVE  ~Blocked(StepsOf[e.plan][i])
    BY DEF BlockedNeverRuns
  <2>1. /\ e.call \in Calls /\ call[e.call].op = "apply"
        /\ StepsOf[e.plan] = StepsIn(e.call)
    BY AppliedFacts
  <2>2. i \in DOMAIN StepsIn(e.call) /\ StoredInv /\ AdmittedInv
    BY <2>1 DEF EngineInv
  <2>3. Passed(StepsIn(e.call)[i], stored[call[e.call].version].requires)
    BY <2>1, <2>2, AdmittedPassed
  <2>. QED
    BY <2>1, <2>3 DEF Passed
<1>. QED
  BY <1>1, TypeInvariant, EngineInvariant, PTL

(* The policy never stops an apply that was admitted, whatever is planned  *)
(* or approved meanwhile; for every instance.                              *)
THEOREM PolicyNeverChallenges == Spec => []AdmittedNeverChallenged
BY EngineInvariant, PTL DEF EngineInv

(* The audit log explains every call of the provider: for one that apply   *)
(* made the grant before it, and its end unless the answer is still owed;  *)
(* for a dry run that it was made, unless it is under way or threw; for    *)
(* every instance.                                                         *)
THEOREM LogExplainsCalls == Spec => []AuditExplains
<1>1. TypeInv /\ EngineInv => AuditExplains
  <2>. SUFFICES ASSUME TypeInv, EngineInv, NEW e \in executed
                PROVE  IF e.dryRun
                       THEN Logged(e, "vcp.plan.dry_run") \/ At(e, {"dry", "aborted"})
                       ELSE /\ Logged(e, "vcp.grant.minted")
                            /\ \/ At(e, {"answer"})
                               \/ \E event \in Endings : Logged(e, event)
    BY DEF AuditExplains
  <2>1. CASE e.dryRun
    BY <2>1 DEF EngineInv, RehearsedInv, Rehearsed
  <2>2. CASE ~e.dryRun
    <3>. e \in Applied
      BY <2>2 DEF Applied
    <3>. /\ Belongs(e) /\ e.call \in Calls /\ call[e.call].op = "apply"
         /\ e.step \in Nat \ {0} /\ call[e.call].step \in Nat
      BY AppliedFacts
    <3>1. \A event : Logged(e, event) <=> Event3(event, e.call, e.step) \in audit
      BY DEF Logged, Event3
    <3>2. CASE e.step < call[e.call].step
      <4>1. e.step \in 1 .. call[e.call].step - 1
        BY <3>2
      <4>2. Event3("vcp.capability.invoked", e.call, e.step) \in audit
        BY <4>1 DEF EngineInv, ProgressInv, ProgressOf
      <4>. QED
        BY <2>2, <3>1, <4>2 DEF Belongs, Endings
    <3>3. CASE e.step = call[e.call].step
      BY <2>2, <3>1, <3>3 DEF Belongs, Failed, At, Endings
    <3>. QED
      BY <3>2, <3>3 DEF Belongs
  <2>. QED
    BY <2>1, <2>2
<1>. QED
  BY <1>1, TypeInvariant, EngineInvariant, PTL

(* Every grant apply announced is accounted for: it waits unused, is with  *)
(* the provider, was used and the log says how that ended, or expired      *)
(* unused and apply was refused for it; for every TTL and instance.        *)
THEOREM GrantsAreAccounted == Spec => []GrantsAccounted
<1>1. TypeInv /\ EngineInv => GrantsAccounted
  <2>. SUFFICES ASSUME TypeInv, EngineInv,
                       NEW e \in audit, e.event = "vcp.grant.minted"
                PROVE  LET used == \E x \in Applied : x.call = e.call /\ x.step = e.step
                       IN  \/ At(e, {"verify"}) /\ ~used
                           \/ At(e, {"answer"}) /\ used
                           \/ used /\ \E event \in Endings : Logged(e, event)
                           \/ /\ At(e, {"done"}) /\ ~used
                              /\ call[e.call].outcome = "GRANT_EXPIRED"
                              /\ Logged(e, "vcp.policy.denied")
    BY DEF GrantsAccounted
  <2>. DEFINE c == e.call
              used == \E x \in Applied : x.call = c /\ x.step = e.step
  <2>1. /\ c \in Calls /\ e.step \in Nat \ {0} /\ Entitled(c, e.step)
        /\ call[c].op = "apply" /\ call[c].step \in Nat \ {0} /\ ProgressOf(c)
    BY Own DEF TypeInv, TypeOK, Event, EngineInv, GrantsInv, Entitled, ProgressInv
  <2>2. \A event : Logged(e, event) <=> Event3(event, c, e.step) \in audit
    BY DEF Logged, Event3
  <2>3. AppliedAt(c, e.step) \in executed => used
    BY DEF AppliedAt, Applied
  <2>4. CASE e.step < call[c].step
    <3>1. e.step \in 1 .. call[c].step - 1
      BY <2>1, <2>4
    <3>2. /\ AppliedAt(c, e.step) \in executed
          /\ Event3("vcp.capability.invoked", c, e.step) \in audit
      BY <2>1, <3>1 DEF ProgressOf
    <3>. QED
      BY <2>2, <2>3, <3>2 DEF Endings
  <2>5. CASE e.step = call[c].step /\ call[c].pc = "verify"
    BY <2>1, <2>5, WaitingUnused DEF EngineInv, Unused, At
  <2>6. CASE e.step = call[c].step /\ call[c].pc = "answer"
    BY <2>1, <2>3, <2>6 DEF ProgressOf, At
  <2>7. CASE e.step = call[c].step /\ Spent(c)
    BY <2>2, <2>3, <2>7 DEF Spent, Failed, Endings
  <2>8. CASE e.step = call[c].step /\ Expired(c)
    BY <2>2, <2>8 DEF Expired, Unused, At
  <2>. QED
    BY <2>1, <2>4, <2>5, <2>6, <2>7, <2>8 DEF Entitled
<1>. QED
  BY <1>1, TypeInvariant, EngineInvariant, PTL

(* Steps are applied in order and up to the first failure, and an apply    *)
(* that answers ok applied them all; for every instance.                   *)
THEOREM AppliesAPrefix == Spec => []PrefixApplied
<1>1. TypeInv /\ EngineInv => PrefixApplied
  <2>. SUFFICES ASSUME TypeInv, EngineInv PROVE PrefixApplied
    OBVIOUS
  <2>1. ASSUME NEW e \in Applied, NEW i \in 1 .. e.step - 1
        PROVE  Logged([e EXCEPT !.step = i], "vcp.capability.invoked")
    <3>. /\ e \in Execution /\ e.call \in Calls /\ call[e.call].op = "apply"
         /\ e.step \in Nat \ {0} /\ call[e.call].step \in Nat
         /\ e.step <= call[e.call].step
      BY AppliedFacts
    <3>. DEFINE f == [e EXCEPT !.step = i]
    <3>1. f.call = e.call /\ f.step = i
      BY DEF Execution
    <3>. HIDE DEF f
    <3>2. i \in 1 .. call[e.call].step - 1
      OBVIOUS
    <3>3. Event3("vcp.capability.invoked", e.call, i) \in audit
      BY <3>2 DEF EngineInv, ProgressInv, ProgressOf
    <3>4. Logged(f, "vcp.capability.invoked")
      BY <3>1, <3>3 DEF Logged, Event3
    <3>. QED
      BY <3>4 DEF f
  <2>2. ASSUME NEW c \in Calls, call[c].op = "apply", call[c].outcome = "ok",
               NEW i \in DOMAIN StepsIn(c)
        PROVE  \E e \in Applied :
                  e.call = c /\ e.step = i /\ Logged(e, "vcp.capability.invoked")
    <3>1. /\ call[c].step = Len(StepsIn(c)) + 1 /\ Len(StepsIn(c)) \in Nat
          /\ DOMAIN StepsIn(c) = 1 .. Len(StepsIn(c))
      BY <2>2, Own DEF WellFormed, StepsIn
    <3>2. i \in 1 .. call[c].step - 1
      BY <3>1
    <3>3. /\ AppliedAt(c, i) \in executed
          /\ Event3("vcp.capability.invoked", c, i) \in audit
      BY <2>2, <3>2 DEF EngineInv, ProgressInv, ProgressOf
    <3>4. /\ AppliedAt(c, i) \in Applied /\ AppliedAt(c, i).call = c
          /\ AppliedAt(c, i).step = i
      BY <3>3 DEF Applied, AppliedAt
    <3>5. Logged(AppliedAt(c, i), "vcp.capability.invoked")
      BY <3>3, <3>4 DEF Logged, Event3
    <3>. QED
      BY <3>4, <3>5
  <2>. QED
    BY <2>1, <2>2 DEF PrefixApplied
<1>. QED
  BY <1>1, TypeInvariant, EngineInvariant, PTL

-------------------------------------------------------------------------------
(* The ledger of consent.  StorePlan proposes, an approval of a plan that  *)
(* needs one consents, an admitted apply is admitted, the provider call of *)
(* an admitted write commits; every other step leaves the ledger alone.    *)

(* The state of the ledger, as expressions of the engine's.                *)
Written(e) == IsWrite(EffectClass(StepOf(e).cap))
LedgerNow == [p \in Plans |-> ProposalOf(plans[p])]
TicketNow == [c \in Calls |-> TicketOf(c)]
CommitNow == {CommitOf(e) : e \in {x \in Applied : Written(x)}}

LedgerStep == [Ledger!Next]_(Ledger!ledgerVars)

(* Unchanged in these three, the ledger takes no step. *)
LEMMA LedgerRests ==
    ASSUME LedgerNow' = LedgerNow, TicketNow' = TicketNow, CommitNow' = CommitNow
    PROVE  LedgerStep
BY DEF LedgerStep, Ledger!ledgerVars, LedgerNow, TicketNow, CommitNow, Written

LEMMA SameLedger ==
    ASSUME plans' = plans, stored' = stored PROVE LedgerNow' = LedgerNow
BY DEF LedgerNow, ProposalOf

LEMMA SameCommits ==
    ASSUME Applied' = Applied PROVE CommitNow' = CommitNow
BY DEF CommitNow, CommitOf, Written, StepOf

(* A ticket tells of the request and of what its object requires.          *)
LEMMA SameTickets ==
    ASSUME \A d \in Calls : SameCall(d),
           \A d \in Calls : call[d].op = "apply" =>
                stored'[call[d].version].requires = stored[call[d].version].requires
    PROVE  TicketNow' = TicketNow
<1>1. \A d \in Calls : TicketOf(d)' = TicketOf(d)
  BY DEF TicketOf, SameCall
<1>. QED
  BY <1>1 DEF TicketNow

LEMMA InitMaps == Init => Ledger!Init
<1>. SUFFICES ASSUME Init PROVE Ledger!Init
  OBVIOUS
<1>1. \A p \in Plans : ProposalOf(plans[p]) = Ledger!NoProposal
  BY DEF Init, ProposalOf, Ledger!NoProposal, Ledger!Proposal
<1>2. \A c \in Calls : TicketOf(c) = Ledger!NoTicket
  BY DEF Init, TicketOf, Idle, Ledger!NoTicket, Ledger!Ticket, Ledger!NoProposal,
         Ledger!Proposal
<1>3. CommitNow = {}
  BY DEF Init, CommitNow, Applied
<1>. QED
  BY <1>1, <1>2, <1>3 DEF Ledger!Init, CommitNow, Written

(* An approval consents to what the plan proposes now, if it needs consent *)
(* at all.                                                                 *)
LEMMA ApproveMaps ==
    ASSUME TypeInv, NEW p \in Plans, Approve(p)
    PROVE  LedgerStep
<1>. DEFINE v == plans[p]
<1>1. /\ v \in Calls /\ v # None /\ stored[v] \in StoredPlan
      /\ stored[v].plan = p
      /\ \A w \in Calls : w # v => stored'[w] = stored[w]
      /\ stored'[v].requires = stored[v].requires /\ stored'[v].approved = TRUE
      /\ UNCHANGED <<plans, call, executed>>
  BY ApproveFacts, TsNoneAssumption
<1>2. TicketNow' = TicketNow
  <2>1. \A w \in Calls : stored'[w].requires = stored[w].requires
    BY <1>1
  <2>2. \A d \in Calls : call[d].op = "apply" => call[d].version \in Calls
    BY Own DEF WellFormed
  <2>. QED
    BY <1>1, <2>1, <2>2, SameTickets DEF SameCall
<1>3. CommitNow' = CommitNow
  BY <1>1, SameCommits DEF Applied
<1>4. \A q \in Plans \ {p} : ProposalOf(plans[q])' = ProposalOf(plans[q])
  <2>1. \A q \in Plans \ {p} : plans[q] # None => plans[q] \in Calls /\ plans[q] # v
    BY <1>1 DEF TypeInv, TypeOK, HeldInv
  <2>. QED
    BY <1>1, <2>1 DEF ProposalOf
<1>5. stored[v].requires \in BOOLEAN
  BY <1>1 DEF StoredPlan
<1>. HIDE DEF v
<1>6. /\ ProposalOf(plans[p]) = [version |-> v, subject |-> User,
                                 consented |-> stored[v].requires /\ stored[v].approved]
      /\ ProposalOf(plans[p])' = [version |-> v, subject |-> User,
                                  consented |-> stored[v].requires]
  BY <1>1, <1>5 DEF ProposalOf, v
<1>7. CASE stored[v].requires
  <2>1. [ProposalOf(plans[p]) EXCEPT !.consented = TRUE]
          = [version |-> v, subject |-> User, consented |-> TRUE]
    <3>. DEFINE Entry == [version : {v}, subject : {User}, consented : BOOLEAN]
                f == [ProposalOf(plans[p]) EXCEPT !.consented = TRUE]
    <3>1. ProposalOf(plans[p]) \in Entry
      BY <1>6
    <3>2. f \in Entry /\ f.consented = TRUE
      BY <3>1
    <3>. HIDE DEF f
    <3>3. f = [version |-> v, subject |-> User, consented |-> TRUE]
      BY <3>2
    <3>. QED
      BY <3>3 DEF f
  <2>2. ProposalOf(plans[p])' = [version |-> v, subject |-> User, consented |-> TRUE]
    BY <1>5, <1>6, <1>7
  <2>3. LedgerNow' = [LedgerNow EXCEPT ![p].consented = TRUE]
    BY <1>4, <2>1, <2>2 DEF LedgerNow
  <2>4. LedgerNow[p] # Ledger!NoProposal
    BY <1>1, <1>6 DEF LedgerNow, Ledger!NoProposal, Ledger!Proposal
  <2>5. Ledger!Consent(p)
    BY <1>2, <1>3, <2>3, <2>4 DEF Ledger!Consent, LedgerNow, TicketNow, CommitNow, Written
  <2>. QED
    BY <2>5 DEF LedgerStep, Ledger!Next
<1>8. CASE ~stored[v].requires
  <2>1. ProposalOf(plans[p])' = ProposalOf(plans[p])
    BY <1>5, <1>6, <1>8
  <2>2. LedgerNow' = LedgerNow
    BY <1>4, <2>1 DEF LedgerNow
  <2>. QED
    BY <1>2, <1>3, <2>2, LedgerRests
<1>. QED
  BY <1>7, <1>8

(* An admission takes what the plan proposes now: consented if it needs to *)
(* be.  A refusal and a new plan request take no ticket.                   *)
LEMMA ArriveMaps ==
    ASSUME TypeInv, NEW c \in Calls, Arrive(c)
    PROVE  LedgerStep
<1>1. /\ \A d \in Calls \ {c} : call'[d] = call[d]
      /\ call[c].op = "none"
      /\ UNCHANGED <<plans, stored, executed>>
  BY ArriveMoves
<1>2. LedgerNow' = LedgerNow /\ CommitNow' = CommitNow
  BY <1>1, SameLedger, SameCommits DEF Applied
<1>3. \A d \in Calls \ {c} : TicketOf(d)' = TicketOf(d)
  BY <1>1 DEF TicketOf
<1>4. TicketOf(c) = Ledger!NoTicket
  BY <1>1 DEF TicketOf, Ledger!NoTicket, Ledger!Ticket, Ledger!NoProposal, Ledger!Proposal
<1>5. CASE call'[c].op # "apply"
  <2>1. TicketOf(c)' = TicketOf(c)
    BY <1>1, <1>5 DEF TicketOf
  <2>. QED
    BY <1>2, <1>3, <2>1, LedgerRests DEF TicketNow
<1>6. CASE call'[c].op = "apply"
  <2>1. PICK p \in Plans : /\ p = call'[c].plan /\ Admissible(p)
                           /\ call'[c].version = plans[p]
    BY <1>6, ArriveMoves
  <2>2. PICK v \in Calls : /\ v = plans[p] /\ v # None
                           /\ stored[v].requires => stored[v].approved
    BY <2>1 DEF Admissible, TypeInv, TypeOK
  <2>3. stored[v].requires \in BOOLEAN /\ stored[v].approved \in BOOLEAN
    <3>1. stored[v] \in StoredPlan \union {NoStored}
      BY DEF TypeInv, TypeOK
    <3>2. CASE stored[v] \in StoredPlan
      BY <3>2 DEF StoredPlan
    <3>3. CASE stored[v] = NoStored
      BY <3>3 DEF NoStored
    <3>. QED
      BY <3>1, <3>2, <3>3
  <2>4. LedgerNow[p] = [version |-> v, subject |-> User, consented |-> stored[v].requires]
    BY <2>2, <2>3 DEF LedgerNow, ProposalOf
  <2>5. TicketOf(c)' = Ledger!Ticket(p, LedgerNow[p])
    BY <1>1, <1>6, <2>1, <2>2, <2>4 DEF TicketOf, Ledger!Ticket
  <2>6. TicketNow' = [TicketNow EXCEPT ![c] = Ledger!Ticket(p, LedgerNow[p])]
    BY <1>3, <2>5 DEF TicketNow
  <2>7. LedgerNow[p] # Ledger!NoProposal
    BY <2>2, <2>4 DEF Ledger!NoProposal, Ledger!Proposal
  <2>8. Ledger!Admit(c, p)
    BY <1>2, <1>4, <2>6, <2>7
    DEF Ledger!Admit, LedgerNow, TicketNow, CommitNow, Written
  <2>. QED
    BY <2>8 DEF LedgerStep, Ledger!Next
<1>. QED
  BY <1>5, <1>6

(* A turn changes no ticket: what was admitted keeps its object.           *)
LEMMA TurnTickets ==
    ASSUME TypeInv, AdmittedInv, NEW c \in Calls, Turn(c)
    PROVE  TicketNow' = TicketNow
<1>1. \A d \in Calls : call[d].op = "apply" =>
        stored'[call[d].version].requires = stored[call[d].version].requires
  BY ObjectStays
<1>. QED
  BY <1>1, TurnMoves, SameTickets

(* StorePlan proposes, under a version no proposal had.                    *)
LEMMA StoreMaps ==
    ASSUME TypeInv, AdmittedInv, NEW c \in Calls, StorePlan(c)
    PROVE  LedgerStep
<1>1. TicketNow' = TicketNow /\ CommitNow' = CommitNow
  BY TurnTickets, SameCommits DEF Turn, PlanTurn, StorePlan, Applied
<1>2. PICK p \in Plans : p = call[c].plan /\ call[c].pc = "step"
  BY StoreFacts
<1>3. \A q \in Plans : plans[q] # c
  <2>. SUFFICES ASSUME NEW q \in Plans, plans[q] = c PROVE FALSE
    OBVIOUS
  <2>1. c # None /\ q # None
    BY TsNoneAssumption
  <2>2. call[c].pc = "done"
    BY <2>1 DEF TypeInv, HeldInv
  <2>. QED
    BY <1>2, <2>2
<1>4. \A q \in Plans : q # p => ProposalOf(plans[q])' = ProposalOf(plans[q])
  <2>1. \A q \in Plans : q # p => plans'[q] = plans[q]
    BY <1>2, StoreFacts
  <2>2. \A q \in Plans : plans[q] = None \/ plans[q] \in Calls
    BY DEF TypeInv, TypeOK
  <2>3. \A d \in Calls : d # c => stored'[d] = stored[d]
    BY StoreFacts
  <2>. QED
    BY <1>3, <2>1, <2>2, <2>3 DEF ProposalOf
<1>5. ProposalOf(plans[p])' = Ledger!Proposal(c, User, FALSE)
  <2>0. plans'[p] = c /\ stored'[c] = NewStored(c)
    BY <1>2, StoreFacts
  <2>1. plans'[p] = c /\ c # None /\ stored'[c].approved = FALSE
    BY <2>0, TsNoneAssumption DEF NewStored
  <2>. QED
    BY <2>1 DEF ProposalOf, Ledger!Proposal
<1>6. LedgerNow' = [LedgerNow EXCEPT ![p] = Ledger!Proposal(c, User, FALSE)]
  BY <1>4, <1>5 DEF LedgerNow
<1>7. \A q \in Plans : LedgerNow[q].version # c
  BY <1>3, TsNoneAssumption DEF LedgerNow, ProposalOf
<1>8. Ledger!Propose(c, p, User)
  BY <1>1, <1>6, <1>7 DEF Ledger!Propose, LedgerNow, TicketNow, CommitNow, Written
<1>. QED
  BY <1>8 DEF LedgerStep, Ledger!Next

(* Invoke commits when it is a write: its object passed as one that needs  *)
(* approval.                                                               *)
LEMMA InvokeMaps ==
    ASSUME TypeInv, EngineInv, NEW c \in Calls, Invoke(c)
    PROVE  LedgerStep
<1>. DEFINE x == ExecutionAt(c, FALSE)
<1>1. /\ AtWork(c) /\ call[c].op = "apply" /\ call[c].pc = "verify"
      /\ executed' = executed \union {x}
      /\ call[c].plan \in Plans /\ call[c].step \in DOMAIN StepsIn(c)
  BY InvokeFacts, Own DEF AtWork, WellFormed
<1>2. TicketNow' = TicketNow /\ LedgerNow' = LedgerNow
  BY TurnTickets, SameLedger DEF Turn, ApplyTurn, Invoke, EngineInv
<1>3. /\ x.call = c /\ x.step = call[c].step /\ x.plan = call[c].plan
      /\ x.dryRun = FALSE /\ StepOf(x) = StepsIn(c)[call[c].step]
  BY DEF ExecutionAt, StepOf, StepsIn
<1>. HIDE DEF x
<1>4. Applied' = Applied \union {x}
  BY <1>1, <1>3 DEF Applied
<1>5. \A e : (Written(e)' <=> Written(e)) /\ CommitOf(e)' = CommitOf(e)
  BY DEF Written, StepOf, CommitOf
<1>6. CASE ~Written(x)
  <2>1. CommitNow' = CommitNow
    BY <1>4, <1>5, <1>6 DEF CommitNow
  <2>. QED
    BY <1>2, <2>1, LedgerRests
<1>7. CASE Written(x)
  <2>1. CommitNow' = CommitNow \union {CommitOf(x)}
    BY <1>4, <1>5, <1>7 DEF CommitNow
  <2>2. PICK i \in UNION {DOMAIN StepsOf[p] : p \in Plans} : i = call[c].step
    BY <1>1 DEF StepsIn
  <2>3. stored[call[c].version].requires
    <3>1. Passed(StepsIn(c)[call[c].step], stored[call[c].version].requires)
      BY <1>1, AdmittedPassed DEF EngineInv
    <3>2. IsWrite(EffectClass(StepsIn(c)[call[c].step].cap))
      BY <1>3, <1>7 DEF Written
    <3>. QED
      BY <3>1, <3>2, PassedWriteRequires
  <2>4. /\ TicketNow[c].consented /\ TicketNow[c].plan = call[c].plan
        /\ TicketNow[c].subject = User
    BY <1>1, <2>3 DEF TicketNow, TicketOf
  <2>5. Ledger!Commit(c, i) = CommitOf(x)
    BY <1>3, <2>2, <2>4 DEF Ledger!Commit, TicketNow, CommitOf
  <2>6. Ledger!CommitWrite(c, i)
    BY <1>2, <2>1, <2>4, <2>5
    DEF Ledger!CommitWrite, LedgerNow, TicketNow, CommitNow, Written
  <2>. QED
    BY <2>2, <2>6 DEF LedgerStep, Ledger!Next
<1>. QED
  BY <1>6, <1>7

(* The other turns: dry runs are no commits.                               *)
LEMMA TurnMaps ==
    ASSUME TypeInv, EngineInv, NEW c \in Calls, Turn(c)
    PROVE  LedgerStep
<1>1. CASE StorePlan(c)
  BY <1>1, StoreMaps DEF EngineInv
<1>2. CASE Invoke(c)
  BY <1>2, InvokeMaps
<1>3. CASE ~StorePlan(c) /\ ~Invoke(c)
  <2>1. Applied' = Applied
    BY <1>3, TurnFrames DEF Applied, ExecutionAt
  <2>2. UNCHANGED <<plans, stored>>
    BY <1>3, TurnFrames
  <2>. QED
    BY <2>1, <2>2, TurnTickets, SameLedger, SameCommits, LedgerRests DEF EngineInv
<1>. QED
  BY <1>1, <1>2, <1>3

(* The engine implements the ledger of consent: its writes come only from  *)
(* applies admitted against an object that was approved, planning again    *)
(* starts without consent, and no apply makes a write twice; for every     *)
(* instance.                                                               *)
THEOREM EngineImplementsLedger == Spec => ImplementsLedger
<1>1. Init => Ledger!Init
  BY InitMaps
<1>2. TypeInv /\ EngineInv /\ [Next]_vars => LedgerStep
  <2>. SUFFICES ASSUME TypeInv, EngineInv, [Next]_vars PROVE LedgerStep
    OBVIOUS
  <2>1. CASE UNCHANGED vars \/ Tick
    BY <2>1, SameTickets, SameLedger, SameCommits, LedgerRests
    DEF vars, Tick, SameCall, Applied
  <2>2. ASSUME NEW p \in Plans, Approve(p) PROVE LedgerStep
    BY <2>2, ApproveMaps
  <2>3. ASSUME NEW c \in Calls, Arrive(c) \/ Turn(c) PROVE LedgerStep
    BY <2>3, ArriveMaps, TurnMaps
  <2>. QED
    BY <2>1, <2>2, <2>3 DEF Next
<1>. QED
  BY <1>1, <1>2, TypeInvariant, EngineInvariant, PTL
  DEF Spec, ImplementsLedger, Ledger!Spec, LedgerStep
===============================================================================
