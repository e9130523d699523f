------------------------------ MODULE MCGateways ------------------------------
(* Instances of Gateways for TLC: the requests a host may make.            *)
EXTENDS Gateways, TLC

Schema == [properties |-> [title |-> "string", count |-> "number"],
           required |-> {"title"}, closed |-> TRUE]
Args      == [title |-> "string"]
OtherArgs == [title |-> "string", count |-> "integer"]

Made(name, effect, attested) ==
    BuildManifest(Tool("example", name, Schema, effect, attested), "summary", "issuerKey")
Read       == Made("email.read", "read-only", FALSE)
Create     == Made("calendar.create_event", "write-reversible", FALSE)
Idempotent == Made("contacts.put", "write-idempotent", FALSE)
Attested   == Made("payroll.read", "read-only", TRUE)
Stranger   == BuildManifest(Tool("stranger", "email.read", Schema, "read-only", FALSE),
                            "summary", "issuerKey")
GitTool == Tool("example", "git.log", Schema, "read-only", FALSE)
Git == BuildCommandManifest(GitTool, "digest", "summary", "issuerKey")
(* Signed by an author who hashes a command as Python and Go verify it. *)
Blockless == Sign(Body(GitTool, ExtractContract(GitTool), "command", "digest",
                       "summary", NoObservation), "issuerKey")
Bridged == BridgeMcpTool([name |-> "search", surface |-> Schema,
                          description |-> "text"])
BridgedCli == BridgeExistingCli([name |-> "grep", surface |-> Schema,
                                 command |-> "digest"])

(* Altered after signing, signed by someone else, and named after another. *)
Softened == [Create EXCEPT !.body.effects.class = "read-only"]
Foreign  == Sign(Read.body, "otherKey")
Renamed  == Sign([Create.body EXCEPT !.id = Read.body.id], "issuerKey")

(* Signed with a part of the identity left empty, or all of it, and then   *)
(* altered.                                                                *)
Unhashed   == Sign([Create.body EXCEPT !.contract_hash = Blank], "issuerKey")
Unnamed    == Sign([Create.body EXCEPT !.id = Blank], "issuerKey")
Unclaimed  == Sign([Create.body EXCEPT !.contract_hash = Blank, !.id = Blank], "issuerKey")
SoftenedUnclaimed == [Unclaimed EXCEPT !.body.effects.class = "read-only"]

NoStatement ==
    [given |-> FALSE, nonce |-> "", build |-> "", expires |-> 0, by |-> Absent]
Statement ==
    [given |-> TRUE, nonce |-> "n", build |-> "good", expires |-> 2, by |-> "attesterKey"]

Ask(manifest) ==
    [manifest |-> manifest, args |-> Args, plan |-> "p", approval |-> ApprovalOf("p"),
     flows |-> {}, effect |-> manifest.body.effects.class, statement |-> NoStatement,
     challenge |-> "n", now |-> 1, serves |-> TRUE]
AskAttested(statement) == [Ask(Attested) EXCEPT !.statement = statement]

Flow(label, authorizes, classification, sink, to) ==
    [label |-> label, authorizes |-> authorizes, classification |-> classification,
     sink |-> sink, to |-> to]

McRequests ==
    {Ask(m) : m \in {Read, Create, Stranger, Git, Bridged, BridgedCli,
                     Softened, Renamed, Foreign, Blockless,
                     Unhashed, Unnamed, Unclaimed, SoftenedUnclaimed}}
    \union {[Ask(Create) EXCEPT !.args = OtherArgs],
            [Ask(Create) EXCEPT !.plan = "q", !.approval = ApprovalOf("q")],
            [Ask(Create) EXCEPT !.approval = NoApproval("p")],
            [Ask(Create) EXCEPT !.approval = ApprovalOf("q")],
            [Ask(Create) EXCEPT !.effect = "read-only", !.approval = NoApproval("p")],
            [Ask(Create) EXCEPT !.serves = FALSE],
            [Ask(Idempotent) EXCEPT !.approval = NoApproval("p")]}
    \union {[Ask(Create) EXCEPT !.args = a] :
                a \in {[count |-> "integer"], [title |-> "integer"],
                       [title |-> "string", extra |-> "string"]}}
    \union {[Ask(Create) EXCEPT !.flows = {f}] :
                f \in {Flow("untrusted_tool_result", TRUE, "none", "none", "calendar.create_event"),
                       Flow("none", FALSE, "confidential", "external", "slack.post_message"),
                       Flow("none", FALSE, "confidential", "none", "slack.post_message"),
                       Flow("none", FALSE, "confidential", "none", "webhook.send"),
                       Flow("none", FALSE, "confidential", "none", "calendar.create_event")}}
    \union {AskAttested(st) :
                st \in {NoStatement, Statement,
                        [Statement EXCEPT !.nonce = "old"],
                        [Statement EXCEPT !.build = "unknown"],
                        [Statement EXCEPT !.expires = 1],
                        [Statement EXCEPT !.by = Absent],
                        [Statement EXCEPT !.by = "otherKey"]}}

Strict == [pythonKey |-> "issuerKey", trusted |-> [given |-> TRUE, issuers |-> {"example"}],
           attester |-> "attesterKey", builds |-> {"good"}, checksProvider |-> TRUE]
Lax    == [pythonKey |-> Absent, trusted |-> [given |-> FALSE, issuers |-> {}],
           attester |-> Absent, builds |-> {"good"}, checksProvider |-> FALSE]
Partial == [Strict EXCEPT !.attester = Absent, !.checksProvider = FALSE]
McConfigs == {Strict, Lax, Partial}

McBehaviours == {"honest", "fails", "failsLate", "wrongResult", "wrongCall", "unsigned"}
===============================================================================
