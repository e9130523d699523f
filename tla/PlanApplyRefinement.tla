-------------------------- MODULE PlanApplyRefinement --------------------------
(***************************************************************************)
(* Proof that the server of PlanApply implements ConsentLedger, for every  *)
(* set of calls, plans and subjects and every TTL: each step of a handler, *)
(* of the clock or of an approving user is one step of the ledger or none. *)
(*                                                                         *)
(*   Persist   proposes, Approve consents, Admit admits,                   *)
(*   Execute   of a write under an apply commits,                          *)
(*   and everything else leaves the ledger alone.                          *)
(***************************************************************************)
EXTENDS PlanApplyHistoryProofs

(* The state of the ledger, as expressions of the server's.                *)
LedgerNow == [p \in Plans |-> LedgerOf(p)]
TicketNow == [c \in Calls |-> TicketOf(c)]
CommitNow == {CommitOf(e) : e \in {x \in executed : Written(x)}}

ServerInv == TypeInv /\ ConsentInv /\ HistoryInv

LedgerStep == [Ledger!Next]_(Ledger!ledgerVars)

(* Unchanged in these three, the ledger takes no step. *)
LEMMA Stutter ==
    ASSUME LedgerNow' = LedgerNow, TicketNow' = TicketNow, CommitNow' = CommitNow
    PROVE  LedgerStep
BY DEF LedgerStep, Ledger!ledgerVars, LedgerNow, TicketNow, CommitNow

(* What is executed stays the write it was: a write is one by its plan.    *)
LEMMA SameCommits ==
    ASSUME executed' = executed PROVE CommitNow' = CommitNow
BY DEF CommitNow, CommitOf, Written

LEMMA SameLedger ==
    ASSUME plans' = plans PROVE LedgerNow' = LedgerNow
BY DEF LedgerNow, LedgerOf

(* The tickets follow the calls' immutable fields.                         *)
LEMMA SameTickets ==
    ASSUME \A d \in Calls : SameCall(d) PROVE TicketNow' = TicketNow
<1>1. \A d \in Calls : TicketOf(d)' = TicketOf(d)
  BY DEF TicketOf, SameCall
<1>. QED
  BY <1>1 DEF TicketNow

LEMMA InitMaps == Init => Ledger!Init
<1>. SUFFICES ASSUME Init PROVE Ledger!Init
  OBVIOUS
<1>1. \A p \in Plans : LedgerOf(p) = Ledger!NoProposal
  BY DEF Init, LedgerOf, NoRecord, Ledger!NoProposal, Ledger!Proposal
<1>2. \A c \in Calls : TicketOf(c) = Ledger!NoTicket
  BY DEF Init, TicketOf, Idle, Ledger!NoTicket, Ledger!Ticket, Ledger!NoProposal,
         Ledger!Proposal
<1>3. {CommitOf(e) : e \in {x \in executed : Written(x)}} = {}
  BY DEF Init
<1>. QED
  BY <1>1, <1>2, <1>3 DEF Ledger!Init

(* An approval consents to the proposal the plan has now. *)
LEMMA ApproveMaps ==
    ASSUME ServerInv, NEW p \in Plans, Approve(p)
    PROVE  LedgerStep
<1>1. TicketNow' = TicketNow /\ CommitNow' = CommitNow
  BY SameTickets, SameCommits DEF Approve, SameCall
<1>2. LedgerOf(p) # Ledger!NoProposal
  BY DEF Approve, Stored, LedgerOf, Ledger!NoProposal, Ledger!Proposal
<1>3. LedgerNow' = [LedgerNow EXCEPT ![p].consented = TRUE]
  <2>1. \A q \in Plans \ {p} : LedgerOf(q)' = LedgerOf(q)
    BY DEF Approve, LedgerOf, ServerInv, TypeInv, TypeOK
  <2>2. plans[p] \in Record
    BY DEF Approve, Stored, NoRecord, ServerInv, TypeInv, TypeOK
  <2>3. plans'[p] = [plans[p] EXCEPT !.approved = TRUE]
    BY DEF Approve, ServerInv, TypeInv, TypeOK
  <2>4. LedgerOf(p)' = [version |-> plans[p].version, subject |-> plans[p].subject,
                        consented |-> TRUE]
    BY <2>2, <2>3 DEF LedgerOf, Record
  <2>5. [LedgerOf(p) EXCEPT !.consented = TRUE]
          = [version |-> plans[p].version, subject |-> plans[p].subject,
             consented |-> TRUE]
    <3>. DEFINE Entry == [version : Calls, subject : Subjects, consented : BOOLEAN]
                f == [LedgerOf(p) EXCEPT !.consented = TRUE]
    <3>1. LedgerOf(p) \in Entry
      BY <2>2 DEF LedgerOf, Record
    <3>2. f \in Entry
      BY <3>1
    <3>3. /\ f.version = plans[p].version /\ f.subject = plans[p].subject
          /\ f.consented = TRUE
      BY <3>1 DEF LedgerOf
    <3>. HIDE DEF f
    <3>4. f = [version |-> plans[p].version, subject |-> plans[p].subject,
               consented |-> TRUE]
      BY <3>2, <3>3
    <3>. QED
      BY <3>4 DEF f
  <2>. QED
    BY <2>1, <2>4, <2>5 DEF LedgerNow
<1>4. Ledger!Consent(p)
  BY <1>1, <1>2, <1>3 DEF Ledger!Consent, LedgerNow, TicketNow, CommitNow
<1>. QED
  BY <1>4 DEF LedgerStep, Ledger!Next

(* An arrival: an admission copies the record the plan has now, anything   *)
(* else gives the caller no ticket.                                        *)
LEMMA ArriveMaps ==
    ASSUME ServerInv, NEW c \in Calls, Arrive(c)
    PROVE  LedgerStep
<1>. call \in [Calls -> Call] /\ TypeInv
  BY DEF ServerInv, TypeInv, TypeOK
<1>1. LedgerNow' = LedgerNow /\ CommitNow' = CommitNow
  BY ArriveFields, SameLedger, SameCommits
<1>2. \A d \in Calls \ {c} : TicketOf(d)' = TicketOf(d)
  BY ArriveFields DEF TicketOf
<1>3. TicketOf(c) = Ledger!NoTicket
  BY ArriveFields DEF TicketOf, Ledger!NoTicket, Ledger!Ticket, Ledger!NoProposal,
                      Ledger!Proposal
<1>4. CASE call'[c].op # "apply"
  <2>1. TicketOf(c)' = TicketOf(c)
    BY <1>4, ArriveFields DEF TicketOf
  <2>. QED
    BY <1>1, <1>2, <2>1, Stutter DEF TicketNow
<1>5. CASE call'[c].op = "apply"
  <2>1. PICK p \in Plans : Admit(c, p)
    <3>1. ASSUME NEW p \in Plans, RefusePlan(c, p) \/ RefuseApply(c, p) PROVE FALSE
      BY <1>5, <3>1, ArriveFields DEF RefusePlan, RefuseApply, Call
    <3>2. ASSUME NEW p \in Plans, NEW s \in Subjects, BeginPlan(c, p, s) PROVE FALSE
      BY <1>5, <3>2 DEF BeginPlan, Idle
    <3>. QED
      BY <3>1, <3>2 DEF Arrive
  <2>2. LedgerOf(p) # Ledger!NoProposal
    BY <2>1 DEF Admit, Stored, LedgerOf, Ledger!NoProposal, Ledger!Proposal
  <2>3. TicketOf(c)' = Ledger!Ticket(p, LedgerOf(p))
    BY <2>1 DEF Admit, Idle, TicketOf, LedgerOf, Ledger!Ticket
  <2>4. TicketNow' = [TicketNow EXCEPT ![c] = Ledger!Ticket(p, LedgerNow[p])]
    BY <1>2, <2>3 DEF TicketNow, LedgerNow
  <2>5. Ledger!Admit(c, p)
    BY <1>1, <1>3, <2>2, <2>4 DEF Ledger!Admit, LedgerNow, TicketNow, CommitNow
  <2>. QED
    BY <2>5 DEF LedgerStep, Ledger!Next
<1>. QED
  BY <1>4, <1>5

(* Persist proposes: no record of the same request is stored yet, and the  *)
(* new one starts without consent.                                         *)
LEMMA PersistMaps ==
    ASSUME ServerInv, NEW c \in Calls, Persist(c)
    PROVE  LedgerStep
<1>. TypeInv /\ PositionInv /\ Thread(c)
  BY DEF ServerInv, HistoryInv, Thread, PlanStep
<1>1. TicketNow' = TicketNow /\ CommitNow' = CommitNow
  BY ThreadKeepsCalls, SameTickets, SameCommits DEF Persist
<1>2. PICK p \in Plans, s \in Subjects :
         p = call[c].plan /\ s = call[c].subject /\ call[c].pc = "next"
  BY PersistFields DEF TypeInv, CallsInv, CallInv
<1>3. \A q \in Plans : LedgerOf(q).version # c
  <2>. SUFFICES ASSUME NEW q \in Plans, plans[q].version = c PROVE FALSE
    BY DEF LedgerOf
  <2>1. Complete(c, q)
    BY NoneAssumption DEF ServerInv, HistoryInv, CompletedInv, Stored
  <2>. QED
    BY <1>2, <2>1 DEF Complete
<1>4. LedgerNow' = [LedgerNow EXCEPT ![p] = Ledger!Proposal(c, s, FALSE)]
  <2>1. \A q \in Plans \ {p} : LedgerOf(q)' = LedgerOf(q)
    <3>0. \A q \in Plans : q # call[c].plan => plans'[q] = plans[q]
      BY PersistFields
    <3>1. \A q \in Plans \ {p} : plans'[q] = plans[q]
      BY <1>2, <3>0
    <3>. QED
      BY <3>1 DEF LedgerOf
  <2>2. plans'[p] = NewRecord(c)
    BY <1>2 DEF Persist, TypeInv, TypeOK
  <2>3. LedgerOf(p)' = Ledger!Proposal(c, s, FALSE)
    BY <1>2, <2>2 DEF NewRecord, LedgerOf, Ledger!Proposal
  <2>. QED
    BY <2>1, <2>3 DEF LedgerNow
<1>5. Ledger!Propose(c, p, s)
  BY <1>1, <1>3, <1>4 DEF Ledger!Propose, LedgerNow, TicketNow, CommitNow
<1>. QED
  BY <1>5 DEF LedgerStep, Ledger!Next

(* Execute commits when it is a write of an apply, whose ticket was        *)
(* consented.                                                              *)
LEMMA ExecuteMaps ==
    ASSUME ServerInv, NEW c \in Calls, Execute(c)
    PROVE  LedgerStep
<1>. TypeInv /\ PositionInv /\ MintedInv /\ Thread(c)
  BY DEF ServerInv, HistoryInv, ConsentInv, Thread, InvokeStep
<1>. DEFINE x == ExecutionOf(c)
<1>1. LedgerNow' = LedgerNow /\ TicketNow' = TicketNow
  BY ThreadKeepsCalls, SameTickets, SameLedger DEF Execute
<1>2. /\ executed' = executed \union {x} /\ call[c].pc = "execute"
      /\ call[c].step \in DOMAIN StepsIn(c)
  BY ExecuteFields DEF PositionInv, PositionOf, Granted
<1>3. \A e : Written(e)' <=> Written(e)
  BY DEF Written
<1>4. \A e : CommitOf(e)' = CommitOf(e)
  BY DEF CommitOf
<1>5. CASE ~Written(x)
  <2>1. CommitNow' = CommitNow
    BY <1>2, <1>3, <1>4, <1>5 DEF CommitNow
  <2>. QED
    BY <1>1, <2>1, Stutter
<1>6. CASE Written(x)
  <2>1. CommitNow' = CommitNow \union {CommitOf(x)}
    BY <1>2, <1>3, <1>4, <1>6 DEF CommitNow
  <2>2. /\ call[c].op = "apply" /\ call[c].approved /\ call[c].plan \in Plans
        /\ call[c].step \in DOMAIN StepsOf[call[c].plan]
    <3>1. ~x.dryRun /\ IsWrite(EffectClass(StepAt(c).cap))
      BY <1>6 DEF Written, ExecutionOf, StepAt, StepsIn
    <3>2. call[c].op = "apply" /\ call[c].plan \in Plans
      BY <1>2, <3>1, OwnState DEF ExecutionOf, TypeInv, CallsInv, CallInv
    <3>. QED
      BY <1>2, <3>1, <3>2 DEF MintedInv, StepsIn
  <2>3. PICK i \in UNION {DOMAIN StepsOf[p] : p \in Plans} : i = call[c].step
    BY <2>2
  <2>4. /\ TicketNow[c] = TicketOf(c)
        /\ TicketOf(c) = [plan |-> call[c].plan, version |-> call[c].version,
                          subject |-> call[c].subject, consented |-> call[c].approved]
    BY <2>2 DEF TicketNow, TicketOf
  <2>5. Ledger!Commit(c, i) = CommitOf(x)
    BY <2>3, <2>4 DEF Ledger!Commit, TicketNow, CommitOf, ExecutionOf
  <2>6. Ledger!CommitWrite(c, i)
    BY <1>1, <2>1, <2>2, <2>4, <2>5
    DEF Ledger!CommitWrite, LedgerNow, TicketNow, CommitNow
  <2>. QED
    BY <2>3, <2>6 DEF LedgerStep, Ledger!Next
<1>. QED
  BY <1>5, <1>6

(* The other steps of a handler leave the ledger alone. *)
LEMMA ThreadMaps ==
    ASSUME ServerInv, NEW c \in Calls, Thread(c)
    PROVE  LedgerStep
<1>. TypeInv /\ PositionInv
  BY DEF ServerInv, HistoryInv
<1>1. ASSUME plans' = plans, executed' = executed PROVE LedgerStep
  BY <1>1, ThreadKeepsCalls, SameTickets, SameLedger, SameCommits, Stutter
<1>2. executed' = executed \/ Execute(c)
  BY ThreadKinds, RestsFields, AdvanceFacts, MintedNotDenied, MintFields
<1>3. CASE Persist(c)
  BY <1>3, PersistMaps
<1>4. CASE Execute(c)
  BY <1>4, ExecuteMaps
<1>. QED
  BY <1>1, <1>2, <1>3, <1>4, ThreadStores

(* The server implements the ledger of consent: its writes come only from  *)
(* admissions against a consented proposal, for its plan and subject, and  *)
(* a new proposal starts without consent; for every instance.              *)
THEOREM ServerImplementsLedger == Spec => ImplementsLedger
<1>1. Init => Ledger!Init
  BY InitMaps
<1>2. ServerInv /\ [Next]_vars => LedgerStep
  <2>. SUFFICES ASSUME ServerInv, [Next]_vars PROVE LedgerStep
    OBVIOUS
  <2>1. CASE UNCHANGED vars \/ Tick
    BY <2>1, SameTickets, SameLedger, SameCommits, Stutter DEF vars, Tick, SameCall
  <2>2. ASSUME NEW p \in Plans, Approve(p) PROVE LedgerStep
    BY <2>2, ApproveMaps
  <2>3. ASSUME NEW c \in Calls, Arrive(c) \/ Thread(c) PROVE LedgerStep
    BY <2>3, ArriveMaps, ThreadMaps
  <2>. QED
    BY <2>1, <2>2, <2>3 DEF Next
<1>3. Spec => []ServerInv
  BY TypeInvariant, ConsentInvariant, HistoryInvariant, PTL DEF ServerInv
<1>. QED
  BY <1>1, <1>2, <1>3, PTL DEF Spec, ImplementsLedger, Ledger!Spec, LedgerStep
===============================================================================
