------------------------------ MODULE VcpPolicy ------------------------------
(***************************************************************************)
(* The default policy of the Python gateway (python/vcp_gateway/policy.py  *)
(* and taint.py) as pure operators: what DefaultPolicy.decide answers for  *)
(* an effect class, the declared data flows and the approval.              *)
(*                                                                         *)
(* A request's data_flows are a SET of flows: decide only asks whether     *)
(* some flow is forbidden, so neither order nor repetition matters to its  *)
(* decision and reason code.                                               *)
(***************************************************************************)

Untrusted  == {"untrusted_resource_data", "untrusted_tool_result"}
Labels     == Untrusted \union {"secret", "policy_only",
                "trusted_manifest_summary", "user_instruction",
                "developer_instruction", "system_instruction", "none"}
Restricted == {"confidential", "secret", "restricted"}
Classifications == Restricted \union {"public", "internal", "none"}

ReadOnly     == "read-only"
WriteEffects == {"write-idempotent", "write-reversible", "write-irreversible"}
Effects      == WriteEffects \union {ReadOnly}

ExternalSinks == {"slack.post_message", "email.send", "email.forward",
                  "http.post", "webhook.send"}
MetadataSinks == {"calendar.create_event", "calendar.update_event",
                  "calendar.events"}

Decisions == {"allow", "deny", "challenge"}

IsWrite(effect) == effect \in WriteEffects

(* _sink_kind: the kind of a destination the flow gives no kind for. *)
SinkKind(to) ==
    IF to \in ExternalSinks THEN "external"
    ELSE IF to \in MetadataSinks THEN "internal-metadata"
    ELSE "internal"

(* taint.authority_decision *)
AuthorityDenied(label, authorizes) == authorizes /\ label \in Untrusted

(* taint.data_flow_decision *)
FlowDenied(classification, sink) ==
    classification \in Restricted /\ sink = "external"

(* flow.get("sink") or _sink_kind(to): an absent sink is "none". *)
SinkOf(flow) == IF flow.sink = "none" THEN SinkKind(flow.to) ELSE flow.sink

TaintsAuthority(flows) ==
    \E f \in flows : AuthorityDenied(f.label, f.authorizes)
ForbidsFlow(flows) ==
    \E f \in flows : FlowDenied(f.classification, SinkOf(f))

(* An approval is given for a plan; NoApproval is a request without one. *)
ApprovalOf(plan)   == [given |-> TRUE, plan |-> plan]
NoApproval(plan)   == [given |-> FALSE, plan |-> plan]

Verdict(decision, reason) == [decision |-> decision, reason |-> reason]

(* DefaultPolicy.decide, its four rules in the code's order. *)
Decide(effect, flows, approval, plan) ==
    IF TaintsAuthority(flows) THEN
        Verdict("deny", "AUTHORITY_FROM_TAINTED_DATA")
    ELSE IF ForbidsFlow(flows) THEN
        Verdict("deny", "DATA_FLOW_FORBIDDEN")
    ELSE IF IsWrite(effect) /\ (~approval.given \/ approval.plan # plan) THEN
        Verdict("challenge", "APPROVAL_REQUIRED")
    ELSE
        Verdict("allow", "ALLOWED_WITH_CONSTRAINTS")
==============================================================================
