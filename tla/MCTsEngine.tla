------------------------------ MODULE MCTsEngine ------------------------------
(* Instances of TsEngine for TLC: the plans a client may send.             *)
EXTENDS TsEngine, TLC

StepRec(cap, consumes) ==
    [cap |-> cap, argsValid |-> TRUE, consumesValid |-> TRUE, consumes |-> consumes]
From(label, authorizes, classification) ==
    [label |-> label, authorizes |-> authorizes, classification |-> classification]

EmailText  == From("untrusted_resource_data", FALSE, "confidential")
EmailOrder == From("untrusted_resource_data", TRUE, "none")
UserOrder  == From("user_instruction", TRUE, "none")

Read    == StepRec("email.read", <<>>)
Create  == StepRec("calendar.create_event", <<UserOrder, EmailText>>)
Forward == StepRec("email.forward", <<UserOrder>>)

(* Every kind of step evaluateStep treats differently.                     *)
TsSteps ==
    ( "reads"    :> <<Read>>
   @@ "unknown"  :> <<StepRec("no.such.capability", <<>>), Create>>
   @@ "badArgs"  :> <<Create, [Read EXCEPT !.argsValid = FALSE]>>
   @@ "raises"   :> <<Create, [Read EXCEPT !.consumesValid = FALSE]>>
   @@ "tainted"  :> <<StepRec("email.forward", <<EmailOrder>>)>>
   @@ "leak"     :> <<StepRec("email.forward", <<EmailText>>)>>
   @@ "writes"   :> <<Create, Forward>> )
TsPlans == DOMAIN TsSteps

(* A write authorised twice, by the user and by what an email says.        *)
TwiceSteps == [p \in {"twice"} |->
    <<StepRec("calendar.create_event", <<UserOrder, EmailOrder>>)>>]
TwicePlans == DOMAIN TwiceSteps

Symmetry == Permutations(Calls)
===============================================================================
