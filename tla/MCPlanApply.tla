----------------------------- MODULE MCPlanApply -----------------------------
(* Instances of PlanApply for TLC: the plans a client may send.            *)
EXTENDS PlanApply, TLC

StepRec(id, cap) ==
    [id |-> id, cap |-> cap, argsValid |-> TRUE, flowsValid |-> TRUE,
     flows |-> {}]
Tainted ==
    [label |-> "untrusted_resource_data", authorizes |-> TRUE,
     classification |-> "none", sink |-> "none", to |-> "email.forward"]
Leaking ==
    [label |-> "none", authorizes |-> FALSE, classification |-> "confidential",
     sink |-> "none", to |-> "slack.post_message"]
AsData ==
    [label |-> "untrusted_resource_data", authorizes |-> FALSE,
     classification |-> "confidential", sink |-> "none",
     to |-> "calendar.create_event"]

Read   == StepRec("r", "email.read")
Create == [StepRec("w", "calendar.create_event") EXCEPT !.flows = {AsData}]
Forward(id, flows) == [StepRec(id, "email.forward") EXCEPT !.flows = flows]

(* Races on one plan hash, whose only step is a write.                     *)
RacePlans == {"p"}
RaceSteps == [p \in RacePlans |-> <<Create>>]

(* Every kind of step a handler treats differently.                        *)
ShapeSteps ==
    ( "empty"       :> <<>>
   @@ "unknown"     :> <<StepRec("u", "no.such.capability"), Create>>
   @@ "badArgs"     :> <<[Read EXCEPT !.argsValid = FALSE], Create>>
   @@ "leak"        :> <<Read, Forward("f", {Leaking})>>
   @@ "lastWins"    :> <<Forward("w", {Tainted}), Create>>
   @@ "lastDenies"  :> <<Create, Forward("w", {Tainted, Leaking})>>
   @@ "raises"      :> <<Create, [Read EXCEPT !.flowsValid = FALSE]>>
   @@ "unhashable"  :> <<[Create EXCEPT !.id = Unhashable]>>
   @@ "twoWrites"   :> <<Create, Forward("f", {})>> )
ShapePlans == DOMAIN ShapeSteps

Symmetry == Permutations(Calls) \union Permutations(Subjects)
==============================================================================
