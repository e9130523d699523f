------------------------------- MODULE Manifests -------------------------------
(***************************************************************************)
(* Capability manifests: how the SDK builds them (vcp_sdk manifest.py,     *)
(* command.py, bridge.py), what identity they claim, and how the three     *)
(* gateways that run a whole invocation verify one (Python verify.py, Go   *)
(* verify.go, TypeScript verify-manifest.ts).                              *)
(*                                                                         *)
(* Abstractions.  sha256(JCS(x)) is x itself: equal hashes are equal       *)
(* values.  A signature is its key and the body it was made over, so it    *)
(* verifies when the body is still that one.  A tool's two schemas are one *)
(* value, its surface; of its effects only class and requires_attestation  *)
(* are kept; its two summaries are one value.                              *)
(***************************************************************************)

(* The value of an optional member that is absent.                         *)
Absent == "absent"
NoObservation == [surface |-> Absent, description |-> Absent]

(* A contract hash or an id its author left empty: the member is there and *)
(* holds nothing.                                                          *)
Blank == [blank |-> TRUE]

(* What the author of a capability writes, before it has an identity.      *)
Tool(issuer, name, surface, effect, attested) ==
    [issuer |-> issuer, name |-> name, surface |-> surface,
     effects |-> [class |-> effect, requires_attestation |-> attested]]

(* extract_contract: the identity-bearing fields of a manifest, a tool or  *)
(* a contract.  What determines the execution of a command is not one.     *)
ExtractContract(m) ==
    [issuer |-> m.issuer, name |-> m.name, surface |-> m.surface,
     effects |-> m.effects]

(* command_contract: the same fields with the command block appended.      *)
CommandContract(m, command) ==
    [issuer |-> m.issuer, name |-> m.name, surface |-> m.surface,
     effects |-> m.effects, command |-> command]

CapabilityId(contract) == [name |-> contract.name, hash |-> contract]

-------------------------------------------------------------------------------
(* Signing: sign_document, verify_document.                                *)

Sign(body, key) == [body |-> body, by |-> key, over |-> body]
Unsigned(body)  == [body |-> body, by |-> Absent, over |-> Absent]
VerifyDocument(m, key) == m.by = key /\ m.over = m.body

-------------------------------------------------------------------------------
(* Building.                                                               *)

Body(tool, contract, kind, command, summary, observed) ==
    [issuer |-> tool.issuer, name |-> tool.name, surface |-> tool.surface,
     effects |-> tool.effects, kind |-> kind, command |-> command,
     contract_hash |-> contract, id |-> CapabilityId(contract),
     summary |-> summary, observed |-> observed]

BuildManifest(tool, summary, key) ==
    Sign(Body(tool, ExtractContract(tool), "tool", Absent, summary,
              NoObservation), key)

BuildCommandManifest(tool, command, summary, key) ==
    Sign(Body(tool, CommandContract(tool, command), "command", command,
              summary, NoObservation), key)

(* bridge_mcp_tool: the description of the upstream tool is pinned beside  *)
(* the contract and replaced by an affordance in the summary; the default  *)
(* effect is an irreversible write, and nobody signs the result.           *)
Affordance == "compiled"
BridgeMcpTool(mcp) ==
    LET tool == Tool("did:web:bridge.local", mcp.name, mcp.surface,
                     "write-irreversible", FALSE)
    IN Unsigned(Body(tool, ExtractContract(tool), "tool", Absent, Affordance,
                     [surface |-> mcp.surface, description |-> mcp.description]))

(* bridge_existing_cli, with its defaults: a binary of the host, pinned by *)
(* its digest in the command block.                                        *)
BridgeExistingCli(cli) ==
    LET tool == Tool("did:web:bridge.local", cli.name, cli.surface,
                     "write-irreversible", FALSE)
    IN Unsigned(Body(tool, CommandContract(tool, cli.command), "command",
                     cli.command, Affordance, NoObservation))

(* observation_changed *)
ObservationChanged(m, mcp) ==
    \/ mcp.surface # m.body.observed.surface
    \/ mcp.description # m.body.observed.description

-------------------------------------------------------------------------------
(* Verification: the first check that fails gives the reason.  A trust set *)
(* is [given, issuers]; a gateway may have been given none.                *)

Trusts(trusted, issuer) == trusted.given => issuer \in trusted.issuers

(* verify_manifest (Python): signature and issuer are checked when the     *)
(* gateway was given a key and a trust set.                                *)
PythonVerifyUnhashed(m, key, trusted) ==  \* mutant: trusts the embedded hash
    IF key # Absent /\ ~VerifyDocument(m, key) THEN "SIGNATURE_INVALID"
    ELSE IF ~Trusts(trusted, m.body.issuer) THEN "ISSUER_UNTRUSTED"
    ELSE "OK"
PythonVerifyManifest(m, key, trusted) ==
    LET contract == ExtractContract(m.body) IN
    IF key # Absent /\ ~VerifyDocument(m, key) THEN "SIGNATURE_INVALID"
    ELSE IF contract # m.body.contract_hash THEN "CONTRACT_HASH_MISMATCH"
    ELSE IF CapabilityId(contract) # m.body.id THEN "CAPABILITY_ID_MISMATCH"
    ELSE IF ~Trusts(trusted, m.body.issuer) THEN "ISSUER_UNTRUSTED"
    ELSE "OK"

(* VerifyManifest (Go): the signature is mandatory, and so is the trust; a *)
(* hash or an id is compared when the manifest states one.                 *)
GoVerifyManifest(m, key, trusted) ==
    LET contract == ExtractContract(m.body) IN
    IF m.body.contract_hash \notin {Blank, contract} THEN "CONTRACT_HASH_MISMATCH"
    ELSE IF m.body.id \notin {Blank, CapabilityId(contract)}
        THEN "CAPABILITY_ID_MISMATCH"
    ELSE IF m.by = Absent THEN "MANIFEST_UNSIGNED"
    ELSE IF ~VerifyDocument(m, key) THEN "MANIFEST_SIGNATURE_INVALID"
    ELSE IF ~trusted.given \/ ~Trusts(trusted, m.body.issuer) THEN "ISSUER_UNTRUSTED"
    ELSE "OK"

(* extractContract (TypeScript) appends the block of a command.            *)
TypeScriptContract(m) ==
    IF m.kind = "command" THEN CommandContract(m, m.command)
    ELSE ExtractContract(m)

(* verifyManifest (TypeScript)                                             *)
TypeScriptVerifyManifest(m, key, trusted) ==
    LET contract == TypeScriptContract(m.body) IN
    IF ~Trusts(trusted, m.body.issuer) THEN "ISSUER_UNTRUSTED"
    ELSE IF contract # m.body.contract_hash THEN "CONTRACT_HASH_MISMATCH"
    ELSE IF CapabilityId(contract) # m.body.id THEN "CONTRACT_HASH_MISMATCH"
    ELSE IF m.by = Absent THEN "SIGNATURE_ALG_UNSUPPORTED"
    ELSE IF ~VerifyDocument(m, key) THEN "SIGNATURE_INVALID"
    ELSE "OK"
===============================================================================
