----------------------------- MODULE ConsentLedger -----------------------------
(***************************************************************************)
(* What the plan / approve / apply cycle promises, with nothing of how the *)
(* server does it: no threads' program counters, clocks, reports, dry runs *)
(* or audit log.  SPEC section 9: a write is authorised by the user's      *)
(* consent to one proposal, and by nothing else.                           *)
(*                                                                         *)
(* The current proposal of a plan may be replaced, consented to, or        *)
(* admitted.  An admission is a ticket that fixes the proposal and whether *)
(* it was consented to at that moment; only a consented ticket commits     *)
(* writes, of its own plan and for the subject of the proposal.  A commit  *)
(* is told from others by its call and its step.                           *)
(***************************************************************************)
CONSTANTS Calls, Plans, Subjects, Steps, None

VARIABLES
    ledger,     \* the current proposal of each plan
    ticket,     \* what each admitted call may rely on
    commits     \* the writes committed

ledgerVars == <<ledger, ticket, commits>>

Proposal(v, s, consent) == [version |-> v, subject |-> s, consented |-> consent]
NoProposal == Proposal(None, None, FALSE)

Ticket(p, r) == [plan |-> p, version |-> r.version, subject |-> r.subject,
                 consented |-> r.consented]
NoTicket == Ticket(None, NoProposal)

Commit(c, i) == [call |-> c, step |-> i, plan |-> ticket[c].plan,
                 subject |-> ticket[c].subject]

Init ==
    /\ ledger = [p \in Plans |-> NoProposal]
    /\ ticket = [c \in Calls |-> NoTicket]
    /\ commits = {}

(* A new proposal starts without consent, whatever the one before had.     *)
Propose(c, p, s) ==
    /\ \A q \in Plans : ledger[q].version # c
    /\ ledger' = [ledger EXCEPT ![p] = Proposal(c, s, FALSE)]
    /\ UNCHANGED <<ticket, commits>>

Consent(p) ==
    /\ ledger[p] # NoProposal
    /\ ledger' = [ledger EXCEPT ![p].consented = TRUE]
    /\ UNCHANGED <<ticket, commits>>

Admit(c, p) ==
    /\ ticket[c] = NoTicket
    /\ ledger[p] # NoProposal
    /\ ticket' = [ticket EXCEPT ![c] = Ticket(p, ledger[p])]
    /\ UNCHANGED <<ledger, commits>>

CommitWrite(c, i) ==
    /\ ticket[c].consented
    /\ commits' = commits \union {Commit(c, i)}
    /\ UNCHANGED <<ledger, ticket>>

Next ==
    \/ \E c \in Calls, p \in Plans, s \in Subjects : Propose(c, p, s)
    \/ \E p \in Plans : Consent(p)
    \/ \E c \in Calls, p \in Plans : Admit(c, p)
    \/ \E c \in Calls, i \in Steps : CommitWrite(c, i)

Spec == Init /\ [][Next]_ledgerVars
===============================================================================
