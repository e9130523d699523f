---------------------------- MODULE GatewaysProofs ----------------------------
(***************************************************************************)
(* Proofs about Gateways, for every set of requests, every configuration,  *)
(* every behaviour of the providers and any number of calls.               *)
(*                                                                         *)
(* GoCommitsArgumentsOnce says nothing of the ledger that makes it true.   *)
(* The invariant does: what was committed is charged, and while a call is  *)
(* with the provider its arguments are charged and not yet committed, so   *)
(* that the one commit it may bring is the first of these arguments.       *)
(*                                                                         *)
(* What the log and the effects say of a call rests on CallInv: who is     *)
(* past the provider was admitted and, but for Go, announced.              *)
(*                                                                         *)
(* That the three agree rests on StagesInv: where each of them is with the *)
(* present call, and what it answered, is a function of the request, the   *)
(* configuration and the provider's behaviour alone, Go's ledger aside;    *)
(* outside the known differences it is the same function for all three.    *)
(***************************************************************************)
EXTENDS Gateways, WellFoundedInduction, TLAPS

ByGo == {c \in committed : c.by = "go"}

Places == {"submitted", "calling", "returned", "done"}

(* The ledger is charged for everything Go committed.                      *)
LedgerTyped ==
    /\ request \in Requests
    /\ callCounts \in [{r.args : r \in Requests} -> Nat]
    /\ pc \in [Gateways -> Places]
Charged == \A c \in ByGo : c.args \in DOMAIN callCounts /\ callCounts[c.args] >= 1
Pending ==
    pc["go"] = "calling" =>
        /\ callCounts[request.args] >= 1
        /\ \A c \in ByGo : c.args # request.args
LedgerInv == LedgerTyped /\ Charged /\ Pending /\ GoCommitsArgumentsOnce

-------------------------------------------------------------------------------
(* A grant of Go is good only when its arguments were never charged        *)
(* (verify_grant: MAX_CALLS_EXCEEDED).                                     *)
LEMMA GoodGrantIsUncharged ==
    ASSUME GrantVerdict("go") = "OK", LedgerTyped
    PROVE  callCounts[request.args] = 0
<1> DEFINE grant == MintGrant("go", request)
<1>1. grant.id = request.args
  BY DEF MintGrant
<1>2. CallIndex("go", grant) = callCounts[request.args]
  BY <1>1 DEF CallIndex
<1>3. ~(callCounts[request.args] >= 1)
  BY <1>2 DEF GrantVerdict, VerifyGrant
<1>4. callCounts[request.args] \in Nat
  BY DEF LedgerTyped
<1> QED
  BY <1>3, <1>4

(* A step that neither commits nor charges, and leaves Go not calling or   *)
(* where it was, keeps the ledger.                                         *)
LEMMA IdleKeepsLedger ==
    ASSUME LedgerInv, UNCHANGED <<callCounts, committed>>,
           request' \in Requests, pc' \in [Gateways -> Places],
           pc'["go"] = "calling" => pc["go"] = "calling" /\ request' = request
    PROVE  LedgerInv'
BY DEF LedgerInv, LedgerTyped, Charged, Pending, GoCommitsArgumentsOnce, ByGo

(* The Go gateway lets an effect happen at most once for given arguments,  *)
(* whatever the requests, the trust and the providers (Gateway.callCounts, *)
(* charged before the provider is called).                                 *)
THEOREM GoNeverCommitsTwice == Spec => []GoCommitsArgumentsOnce
<1> USE DEF Gateways, Places
<1>1. Init => LedgerInv
  <2> SUFFICES ASSUME Init PROVE LedgerInv
    OBVIOUS
  <2>1. request \in Requests
    BY GatewaysAssumption DEF Init
  <2> QED
    BY <2>1 DEF Init, LedgerInv, LedgerTyped, Charged, Pending,
               GoCommitsArgumentsOnce, ByGo
<1>2. LedgerInv /\ [Next]_vars => LedgerInv'
  <2> SUFFICES ASSUME LedgerInv, [Next]_vars PROVE LedgerInv'
    OBVIOUS
  <2>1. request \in Requests /\ pc \in [Gateways -> Places]
    BY DEF LedgerInv, LedgerTyped
  <2>2. ASSUME NEW r \in Requests, NEW b, Submit(r, b) PROVE LedgerInv'
    <3>1. pc' \in [Gateways -> Places] /\ pc'["go"] # "calling" /\ request' \in Requests
      BY <2>2 DEF Submit
    <3>2. UNCHANGED <<callCounts, committed>>
      BY <2>2 DEF Submit
    <3> QED
      BY <3>1, <3>2, IdleKeepsLedger
  <2>3. ASSUME NEW l \in Gateways, NEW code, Return(l, code),
               UNCHANGED <<request, callCounts, committed>>
        PROVE  LedgerInv'
    <3>1. /\ pc' \in [Gateways -> Places]
          /\ pc'["go"] = "calling" => pc["go"] = "calling"
      BY <2>1, <2>3 DEF Return
    <3> QED
      BY <2>1, <2>3, <3>1, IdleKeepsLedger
  <2>4. ASSUME NEW l \in Gateways, Call(l) PROVE LedgerInv'
    <3>1. /\ pc' = [pc EXCEPT ![l] = "calling"]
          /\ UNCHANGED <<request, committed>>
      BY <2>4 DEF Call
    <3>2. CASE l = "go"
      <4>1. callCounts[request.args] = 0
        BY <2>4, <3>2, GoodGrantIsUncharged DEF Call, LedgerInv
      <4>2. callCounts' = [callCounts EXCEPT ![request.args] = @ + 1]
        BY <2>4, <3>2 DEF Call, Charge
      <4>3. \A c \in ByGo : c.args # request.args
        BY <4>1 DEF LedgerInv, Charged
      <4>4. LedgerTyped'
        BY <2>1, <3>1, <4>2 DEF LedgerInv, LedgerTyped
      <4>5. Charged'
        BY <3>1, <4>2, <4>3 DEF LedgerInv, LedgerTyped, Charged, ByGo
      <4>6. Pending'
        BY <3>1, <4>1, <4>2, <4>3 DEF LedgerInv, LedgerTyped, Pending, ByGo
      <4> QED
        BY <3>1, <4>4, <4>5, <4>6 DEF LedgerInv, GoCommitsArgumentsOnce
    <3>3. CASE l # "go"
      <4>1. UNCHANGED callCounts
        BY <2>4, <3>3 DEF Call, Charge
      <4> QED
        BY <2>1, <3>1, <3>3, <4>1, IdleKeepsLedger
    <3> QED
      BY <3>2, <3>3
  <2>5. ASSUME NEW l \in Gateways, Decline(l) PROVE LedgerInv'
    <3>1. /\ pc' \in [Gateways -> Places]
          /\ pc'["go"] = "calling" => pc["go"] = "calling"
          /\ UNCHANGED <<request, callCounts, committed>>
      BY <2>1, <2>5 DEF Decline
    <3> QED
      BY <2>1, <3>1, IdleKeepsLedger
  <2>6. ASSUME NEW l \in Gateways, Execute(l) PROVE LedgerInv'
    <3> DEFINE c == [by |-> l, call |-> made, args |-> request.args]
    <3>1. /\ committed' = committed \union {c}
          /\ pc[l] = "calling"
          /\ pc' = [pc EXCEPT ![l] = "returned"]
          /\ UNCHANGED <<request, callCounts>>
      BY <2>6 DEF Execute
    <3>2. LedgerTyped'
      BY <2>1, <3>1 DEF LedgerInv, LedgerTyped
    <3>3. c.by = l /\ c.args = request.args
      OBVIOUS
    <3> HIDE DEF c
    <3>4. CASE l = "go"
      <4>1. callCounts[request.args] >= 1 /\ \A x \in ByGo : x.args # request.args
        BY <3>1, <3>4 DEF LedgerInv, Pending
      <4>2. Charged'
        BY <3>1, <3>3, <4>1 DEF LedgerInv, LedgerTyped, Charged, ByGo
      <4>3. Pending'
        BY <2>1, <3>1, <3>4 DEF Pending
      <4>4. GoCommitsArgumentsOnce'
        BY <3>1, <3>3, <4>1 DEF LedgerInv, GoCommitsArgumentsOnce, ByGo
      <4> QED
        BY <3>2, <4>2, <4>3, <4>4 DEF LedgerInv
    <3>5. CASE l # "go"
      BY <2>1, <3>1, <3>2, <3>3, <3>5
         DEF LedgerInv, Charged, Pending, GoCommitsArgumentsOnce, ByGo
    <3> QED
      BY <3>4, <3>5
  <2>7. ASSUME UNCHANGED vars PROVE LedgerInv'
    BY <2>1, <2>7, IdleKeepsLedger DEF vars
  <2>8. ASSUME NEW l \in Gateways, Refuse(l) \/ Serve(l) \/ Discard(l) \/ Propagate(l)
        PROVE  LedgerInv'
    BY <2>3, <2>8 DEF Refuse, Serve, Discard, Propagate
  <2>9. ASSUME RefuseReplay PROVE LedgerInv'
    BY <2>3, <2>9 DEF RefuseReplay
  <2> QED
    BY <2>2, <2>4, <2>5, <2>6, <2>7, <2>8, <2>9 DEF Next
<1>3. LedgerInv => GoCommitsArgumentsOnce
  BY DEF LedgerInv
<1> QED
  BY <1>1, <1>2, <1>3, PTL DEF Spec

-------------------------------------------------------------------------------
(* A bridged tool of which only the description drifts keeps the identity  *)
(* a grant is minted for, so that no gateway refuses it; observation_      *)
(* changed tells exactly then (bridge.py).                                 *)
LEMMA DescriptionDriftIsObserved ==
    ASSUME NEW old, NEW new, old.name = new.name, old.surface = new.surface
    PROVE  /\ BridgeMcpTool(old).body.id = BridgeMcpTool(new).body.id
           /\ ObservationChanged(BridgeMcpTool(old), new)
                <=> old.description # new.description
BY DEF BridgeMcpTool, ObservationChanged, Unsigned, Body, Tool, ExtractContract,
       CapabilityId

-------------------------------------------------------------------------------
(* Admission: a call that was let through passed every check.              *)

(* The first of some checks: CHOOSE finds it (the natural numbers are      *)
(* well-founded).                                                          *)
LEMMA FirstExists ==
    ASSUME NEW S \in SUBSET Nat, S # {}
    PROVE  (CHOOSE i \in S : \A j \in S : i <= j) \in S
<1> DEFINE R == OpToRel(<, Nat)
<1>1. IsWellFoundedOn(R, Nat)
  BY NatLessThanWellFounded
<1>2. PICK i \in S : \A j \in S : ~(<<j, i>> \in R)
  <2> HIDE DEF R
  <2> QED
    BY <1>1, WFMin
<1>3. \A j \in S : ~(j < i)
  BY <1>2 DEF OpToRel
<1>4. \A j \in S : i <= j
  BY <1>3
<1> QED
  BY <1>4

(* FirstFailure is Passed when no check failed, and else a failed one.     *)
LEMMA FirstFailureMeans ==
    ASSUME NEW checks, DOMAIN checks \subseteq Nat
    PROVE  \/ /\ FirstFailure(checks) = Passed
              /\ \A i \in DOMAIN checks : checks[i].code = "OK"
           \/ \E i \in DOMAIN checks :
                /\ FirstFailure(checks) = checks[i]
                /\ checks[i].code # "OK"
<1> DEFINE failed == {i \in DOMAIN checks : checks[i].code # "OK"}
           first  == CHOOSE i \in failed : \A j \in failed : i <= j
<1>1. CASE failed = {}
  BY <1>1 DEF FirstFailure
<1>2. CASE failed # {}
  <2>1. first \in failed
    <3> HIDE DEF first
    <3>1. failed \in SUBSET Nat
      OBVIOUS
    <3> HIDE DEF failed
    <3> QED
      BY <1>2, <3>1, FirstExists DEF first
  <2>2. FirstFailure(checks) = checks[first]
    BY <1>2 DEF FirstFailure
  <2> QED
    BY <2>1, <2>2
<1> QED
  BY <1>1, <1>2

(* What a call that a gateway lets through has shown: its manifest claims  *)
(* the contract it has, or for Go none at all, it was signed if there is a *)
(* key to tell, and its environment was appraised if it had to be          *)
(* (verify_manifest, the gate of section 27).                              *)
Identified(l, r) ==
    \/ IdentityCovers(r.manifest.body)
    \/ /\ l = "go"
       /\ r.manifest.body.contract_hash = Blank /\ r.manifest.body.id = Blank
Authentic(l, r) ==
    /\ l \in {"go", "typescript"} => VerifyDocument(r.manifest, ManifestKey)
    /\ l = "python" /\ config.pythonKey # Absent =>
            VerifyDocument(r.manifest, config.pythonKey)
Appraised(r) ==
    r.manifest.body.effects.requires_attestation =>
        /\ r.statement.given
        /\ r.statement.nonce = r.challenge
        /\ r.statement.build \in config.builds

LEMMA AppraiseMeans ==
    ASSUME NEW l, NEW r, Appraise(r) = "OK" \/ AppraiseSigned(l, r) = "OK"
    PROVE  Appraised(r)
BY DEF Appraise, AppraiseSigned, Appraised

(* A manifest that passed a gateway's verification.                        *)
LEMMA VerifiedMeans ==
    ASSUME NEW r
    PROVE  /\ PythonVerifyManifest(r.manifest, config.pythonKey, config.trusted) = "OK" =>
                Identified("python", r) /\ Authentic("python", r)
           /\ GoVerifyManifest(r.manifest, ManifestKey, config.trusted) = "OK" =>
                Identified("go", r) /\ Authentic("go", r)
           /\ TypeScriptVerifyManifest(r.manifest, ManifestKey, config.trusted) = "OK" =>
                Identified("typescript", r) /\ Authentic("typescript", r)
<1> DEFINE m == r.manifest
<1>1. ASSUME PythonVerifyManifest(m, config.pythonKey, config.trusted) = "OK"
      PROVE  Identified("python", r) /\ Authentic("python", r)
  <2>1. /\ m.body.contract_hash = ExtractContract(m.body)
        /\ config.pythonKey # Absent => VerifyDocument(m, config.pythonKey)
    BY <1>1 DEF PythonVerifyManifest
  <2> QED
    BY <2>1 DEF Identified, IdentityCovers, Authentic
<1>2. ASSUME GoVerifyManifest(m, ManifestKey, config.trusted) = "OK"
      PROVE  Identified("go", r) /\ Authentic("go", r)
  <2>1. /\ m.body.contract_hash \in {Blank, ExtractContract(m.body)}
        /\ m.body.id \in {Blank, CapabilityId(ExtractContract(m.body))}
        /\ VerifyDocument(m, ManifestKey)
    BY <1>2 DEF GoVerifyManifest
  <2> QED
    BY <2>1 DEF Identified, IdentityCovers, Authentic
<1>3. ASSUME TypeScriptVerifyManifest(m, ManifestKey, config.trusted) = "OK"
      PROVE  Identified("typescript", r) /\ Authentic("typescript", r)
  <2>1. /\ m.body.contract_hash = TypeScriptContract(m.body)
        /\ VerifyDocument(m, ManifestKey)
    BY <1>3 DEF TypeScriptVerifyManifest
  <2>2. TypeScriptContract(m.body) \in
            {ExtractContract(m.body), CommandContract(m.body, m.body.command)}
    BY DEF TypeScriptContract
  <2> QED
    BY <2>1, <2>2 DEF Identified, IdentityCovers, Authentic
<1> QED
  BY <1>1, <1>2, <1>3

(* The checks of a gateway, in its order, and that they all pass.          *)
ChecksOf(l, r) ==
    CASE l = "python" -> <<
            Check("vcp.policy.denied",
                  PythonVerifyManifest(r.manifest, config.pythonKey, config.trusted)),
            Check("vcp.policy.denied",
                  ValidateArguments(r.args, r.manifest.body.surface)),
            Check("vcp.policy.denied", PythonPolicy(r)),
            Check("vcp.attestation.rejected", Appraise(r)) >>
      [] l = "go" -> <<
            Check("vcp.manifest.rejected",
                  GoVerifyManifest(r.manifest, ManifestKey, config.trusted)),
            Check("vcp.policy.denied", GoPolicy(r)),
            Check("vcp.attestation.rejected", AppraiseSigned("go", r)) >>
      [] l = "typescript" -> <<
            Check("vcp.policy.denied",
                  TypeScriptVerifyManifest(r.manifest, ManifestKey, config.trusted)),
            Check("vcp.policy.denied", TypeScriptPolicy(r)),
            Check("vcp.policy.denied", AppraiseSigned("typescript", r)) >>
PythonAdmits(r) ==
    /\ PythonVerifyManifest(r.manifest, config.pythonKey, config.trusted) = "OK"
    /\ ValidateArguments(r.args, r.manifest.body.surface) = "OK"
    /\ PythonPolicy(r) = "OK"
    /\ Appraise(r) = "OK"
GoAdmits(r) ==
    /\ GoVerifyManifest(r.manifest, ManifestKey, config.trusted) = "OK"
    /\ GoPolicy(r) = "OK"
    /\ AppraiseSigned("go", r) = "OK"
TypeScriptAdmits(r) ==
    /\ TypeScriptVerifyManifest(r.manifest, ManifestKey, config.trusted) = "OK"
    /\ TypeScriptPolicy(r) = "OK"
    /\ AppraiseSigned("typescript", r) = "OK"
Admits(l, r) ==
    CASE l = "python"     -> PythonAdmits(r)
      [] l = "go"         -> GoAdmits(r)
      [] l = "typescript" -> TypeScriptAdmits(r)

LEMMA ChecksMean ==
    ASSUME NEW l \in Gateways, NEW r
    PROVE  /\ Admission(l, r) = FirstFailure(ChecksOf(l, r))
           /\ DOMAIN ChecksOf(l, r) \subseteq Nat
           /\ (\A i \in DOMAIN ChecksOf(l, r) : ChecksOf(l, r)[i].code = "OK")
                <=> Admits(l, r)
           /\ \A i \in DOMAIN ChecksOf(l, r) :
                /\ ChecksOf(l, r)[i].event \in {"vcp.policy.denied",
                        "vcp.manifest.rejected", "vcp.attestation.rejected"}
                /\ l = "typescript" => ChecksOf(l, r)[i].event = "vcp.policy.denied"
<1>1. CASE l = "python"
  <2>1. DOMAIN ChecksOf(l, r) = {1, 2, 3, 4}
    BY <1>1 DEF ChecksOf
  <2> QED
    BY <1>1, <2>1 DEF ChecksOf, Admission, PythonAdmission, Admits, PythonAdmits, Check
<1>2. CASE l = "go"
  <2>1. DOMAIN ChecksOf(l, r) = {1, 2, 3}
    BY <1>2 DEF ChecksOf
  <2> QED
    BY <1>2, <2>1 DEF ChecksOf, Admission, GoAdmission, Admits, GoAdmits, Check
<1>3. CASE l = "typescript"
  <2>1. DOMAIN ChecksOf(l, r) = {1, 2, 3}
    BY <1>3 DEF ChecksOf
  <2> QED
    BY <1>3, <2>1 DEF ChecksOf, Admission, TypeScriptAdmission, Admits,
                      TypeScriptAdmits, Check
<1> QED
  BY <1>1, <1>2, <1>3 DEF Gateways

(* A gateway lets a call through when all its checks pass; else the reason *)
(* and the event are those of one that failed.                             *)
LEMMA AdmissionMeans ==
    ASSUME NEW l \in Gateways, NEW r
    PROVE  /\ Admission(l, r) = Passed <=> Admits(l, r)
           /\ Admission(l, r) # Passed =>
                /\ Admission(l, r).code # "OK"
                /\ Admission(l, r).event \in {"vcp.policy.denied",
                        "vcp.manifest.rejected", "vcp.attestation.rejected"}
                /\ l = "typescript" => Admission(l, r).event = "vcp.policy.denied"
<1> DEFINE checks == ChecksOf(l, r)
<1>1. Passed.code = "OK"
  BY DEF Passed, Check
<1>2. /\ Admission(l, r) = FirstFailure(checks) /\ DOMAIN checks \subseteq Nat
      /\ (\A i \in DOMAIN checks : checks[i].code = "OK") <=> Admits(l, r)
      /\ \A i \in DOMAIN checks :
            /\ checks[i].event \in {"vcp.policy.denied",
                    "vcp.manifest.rejected", "vcp.attestation.rejected"}
            /\ l = "typescript" => checks[i].event = "vcp.policy.denied"
  BY ChecksMean
<1> HIDE DEF checks
<1> QED
  BY <1>1, <1>2, FirstFailureMeans

(* What passed a gateway's admission passed its own checks (invoke of all  *)
(* three).                                                                 *)
LEMMA AdmittedMeans ==
    ASSUME NEW l \in Gateways, NEW r, Admission(l, r) = Passed
    PROVE  Identified(l, r) /\ Authentic(l, r) /\ Appraised(r)
<1>1. Admits(l, r)
  BY AdmissionMeans
<1>2. Appraised(r)
  BY <1>1, AppraiseMeans DEF Gateways, Admits, PythonAdmits, GoAdmits, TypeScriptAdmits
<1>3. Identified(l, r) /\ Authentic(l, r)
  BY <1>1, VerifiedMeans
  DEF Gateways, Admits, PythonAdmits, GoAdmits, TypeScriptAdmits
<1> QED
  BY <1>2, <1>3

(* Every refusal before the grant is a denial of policy in TypeScript.     *)
LEMMA TypeScriptRefusalIsDenial ==
    ASSUME NEW r, Admission("typescript", r) # Passed
    PROVE  Admission("typescript", r).event = "vcp.policy.denied"
BY AdmissionMeans DEF Gateways

-------------------------------------------------------------------------------
(* What the log and the effects say of a call, from its start to its end.  *)

Under == {"calling", "returned"}
Closing == {"vcp.policy.denied", "vcp.attestation.rejected", "vcp.capability.invoked"}

(* Where the three gateways are.                                           *)
CallTyped ==
    made \in Nat /\ pc \in [Gateways -> Places] /\ DOMAIN outcome = Gateways
(* A call beyond the admission of a gateway is sound for it.               *)
Sound(l) == Identified(l, request) /\ Authentic(l, request) /\ Appraised(request)
Admitted == \A l \in Gateways : pc[l] \in Under => Sound(l)
(* An effect is of a call that was made; the present call is sound if it   *)
(* had one, and the gateway is past the provider.                          *)
Recent ==
    \A c \in committed :
        /\ c.by \in Gateways
        /\ c.call \in Nat /\ c.call <= made
        /\ c.call = made => /\ pc[c.by] \in {"returned", "done"}
                           /\ Sound(c.by)
(* Python and TypeScript announce a grant before its provider is called.   *)
Announced ==
    \A l \in Gateways \ {"go"} : pc[l] \in Under =>
        Entry(l, "vcp.grant.minted", "OK") \in audit
Traced ==
    \A c \in committed :
        IF c.by # "go" THEN EventsOf(c.by, c.call) # {}
        ELSE c.call = made /\ pc["go"] = "done" =>
                \/ EventsOf("go", made) # {}
                \/ outcome["go"] = "PROVIDER_ERROR"
Closed ==
    \A call \in 1..made : Ended("typescript", call) =>
        EventsOf("typescript", call) \intersect Closing # {}
CallInv == CallTyped /\ Admitted /\ Recent /\ Announced /\ Traced /\ Closed

LEMMA SoundStays ==
    ASSUME UNCHANGED <<config, request>>, NEW l
    PROVE  Sound(l)' <=> Sound(l)
BY DEF Sound, Identified, Authentic, Appraised

(* An entry in the log is an event of its call, and the log only grows.    *)
LEMMA EntryIsEvent ==
    ASSUME NEW l, NEW event, NEW reason, NEW log,
           [by |-> l, call |-> made, event |-> event, reason |-> reason] \in log
    PROVE  event \in {e.event : e \in {a \in log : a.by = l /\ a.call = made}}
OBVIOUS

LEMMA EventsGrow ==
    ASSUME audit \subseteq audit', NEW l, NEW call
    PROVE  EventsOf(l, call) \subseteq EventsOf(l, call)'
BY DEF EventsOf

(* A gateway returns from a call: it was refused before the provider, or   *)
(* left what became of it in the log, or is Go with a provider's error.    *)
LEMMA ReturnKeepsCalls ==
    ASSUME CallInv, NEW l \in Gateways, NEW code, Return(l, code),
           UNCHANGED <<made, request, committed, config>>, audit \subseteq audit',
           \/ pc[l] = "submitted"
           \/ EventsOf(l, made)' # {}
           \/ l = "go" /\ outcome'["go"] = "PROVIDER_ERROR",
           l = "typescript" => EventsOf(l, made)' \intersect Closing # {}
    PROVE  CallInv'
<1> USE DEF CallInv
<1>1. /\ pc' = [pc EXCEPT ![l] = "done"]
      /\ outcome' = [outcome EXCEPT ![l] = code]
  BY DEF Return
<1>2. CallTyped'
  BY <1>1 DEF CallTyped, Places
<1>3. /\ \A k \in Gateways : k # l => pc'[k] = pc[k]
      /\ pc'[l] = "done"
      /\ l # "go" => outcome'["go"] = outcome["go"]
  BY <1>1 DEF CallTyped, Gateways
<1>4. \A k : Sound(k)' <=> Sound(k)
  BY SoundStays
<1>5. Admitted'
  BY <1>3, <1>4 DEF Admitted, Under
<1>6. Recent'
  BY <1>3, <1>4 DEF Recent
<1>7. Announced'
  <2> SUFFICES ASSUME NEW k \in Gateways \ {"go"}, pc'[k] \in Under
               PROVE  Entry(k, "vcp.grant.minted", "OK")' \in audit'
    BY DEF Announced
  <2>1. pc[k] \in Under
    BY <1>3 DEF Under
  <2> QED
    BY <2>1 DEF Announced, Entry
<1>8. \A k, call : EventsOf(k, call) \subseteq EventsOf(k, call)'
  BY EventsGrow
<1>9. Traced'
  <2> SUFFICES ASSUME NEW c \in committed
               PROVE  IF c.by # "go" THEN EventsOf(c.by, c.call)' # {}
                      ELSE c.call = made' /\ pc'["go"] = "done" =>
                              \/ EventsOf("go", made)' # {}
                              \/ outcome'["go"] = "PROVIDER_ERROR"
    BY DEF Traced
  <2>1. CASE c.by # "go"
    BY <1>8, <2>1 DEF Traced
  <2>2. CASE c.by = "go" /\ c.call = made /\ l = "go"
    <3>1. pc[l] # "submitted"
      BY <2>2 DEF Recent
    <3> QED
      BY <2>2, <3>1
  <2>3. CASE c.by = "go" /\ l # "go"
    BY <1>3, <1>8, <2>3 DEF Traced, Gateways
  <2> QED
    BY <2>1, <2>2, <2>3
<1>10. Closed'
  <2> SUFFICES ASSUME NEW call \in 1..made, Ended("typescript", call)'
               PROVE  EventsOf("typescript", call)' \intersect Closing # {}
    BY DEF Closed
  <2>1. CASE Ended("typescript", call)
    BY <1>8, <2>1 DEF Closed
  <2>2. CASE ~Ended("typescript", call)
    <3>1. l = "typescript" /\ call = made
      BY <1>3, <2>2 DEF Ended, Gateways
    <3> QED
      BY <3>1
  <2> QED
    BY <2>1, <2>2
<1> QED
  BY <1>2, <1>5, <1>6, <1>7, <1>9, <1>10

(* A step in the middle of a call, from one place under way to another,    *)
(* that commits nothing, keeps the invariant.                              *)
LEMMA MoveKeepsCalls ==
    ASSUME CallInv, NEW l \in Gateways, NEW place \in Under,
           pc' = [pc EXCEPT ![l] = place], pc[l] \in Under \union {"submitted"},
           UNCHANGED <<made, request, config, committed, outcome>>,
           audit \subseteq audit', pc[l] = "submitted" \/ place = "returned",
           pc[l] = "submitted" => Sound(l),
           pc[l] = "submitted" /\ l # "go" =>
                Entry(l, "vcp.grant.minted", "OK") \in audit'
    PROVE  CallInv'
<1> USE DEF CallInv
<1>1. CallTyped'
  BY DEF CallTyped, Places, Under
<1>2. /\ \A k \in Gateways : k # l => pc'[k] = pc[k]
      /\ pc'[l] = place /\ place # "done" /\ pc[l] # "done"
  BY DEF CallTyped, Under
<1>3. \A k : Sound(k)' <=> Sound(k)
  BY SoundStays
<1>4. Admitted'
  BY <1>2, <1>3 DEF Admitted
<1>5. Recent'
  BY <1>2, <1>3 DEF Recent, Under
<1>6. Announced'
  <2> SUFFICES ASSUME NEW k \in Gateways \ {"go"}, pc'[k] \in Under
               PROVE  Entry(k, "vcp.grant.minted", "OK")' \in audit'
    BY DEF Announced
  <2>1. Entry(k, "vcp.grant.minted", "OK")' = Entry(k, "vcp.grant.minted", "OK")
    BY DEF Entry
  <2>2. CASE pc[k] \in Under
    BY <2>1, <2>2 DEF Announced
  <2>3. CASE pc[k] \notin Under
    BY <1>2, <2>1, <2>3
  <2> QED
    BY <2>2, <2>3
<1>7. \A k, call : EventsOf(k, call) \subseteq EventsOf(k, call)'
  BY EventsGrow
<1>8. Traced'
  <2> SUFFICES ASSUME NEW c \in committed
               PROVE  IF c.by # "go" THEN EventsOf(c.by, c.call)' # {}
                      ELSE c.call = made' /\ pc'["go"] = "done" =>
                              \/ EventsOf("go", made)' # {}
                              \/ outcome'["go"] = "PROVIDER_ERROR"
    BY DEF Traced
  <2>1. CASE c.by # "go"
    BY <1>7, <2>1 DEF Traced
  <2>2. CASE c.by = "go"
    BY <1>2, <1>7, <2>2 DEF Traced, Gateways
  <2> QED
    BY <2>1, <2>2
<1>9. Closed'
  <2> SUFFICES ASSUME NEW call \in 1..made, Ended("typescript", call)'
               PROVE  EventsOf("typescript", call)' \intersect Closing # {}
    BY DEF Closed
  <2>1. Ended("typescript", call)
    BY <1>2 DEF Ended, Gateways
  <2> QED
    BY <1>7, <2>1 DEF Closed
<1> QED
  BY <1>1, <1>4, <1>5, <1>6, <1>8, <1>9

(* A new call: of the calls before it, every one has ended.                *)
LEMMA SubmitKeepsCalls ==
    ASSUME CallInv, NEW r \in Requests, NEW b, Submit(r, b)
    PROVE  CallInv'
<1> USE DEF CallInv
<1>1. /\ made' = made + 1 /\ made \in Nat
      /\ pc' = [k \in Gateways |-> "submitted"]
      /\ DOMAIN outcome' = Gateways
      /\ \A k \in Gateways : pc[k] = "done"
      /\ UNCHANGED <<config, committed, audit>>
  BY DEF Submit, CallTyped
<1>2. CallTyped'
  BY <1>1 DEF CallTyped, Places
<1>3. Admitted' /\ Announced'
  BY <1>1 DEF Admitted, Announced, Under
<1>4. Recent'
  BY <1>1 DEF Recent
<1>5. \A k, call : EventsOf(k, call)' = EventsOf(k, call)
  BY <1>1 DEF EventsOf
<1>6. Traced'
  <2> SUFFICES ASSUME NEW c \in committed, c.by # "go"
               PROVE  EventsOf(c.by, c.call)' # {}
    BY <1>1 DEF Traced, Gateways
  <2> QED
    BY <1>5 DEF Traced
<1>7. Closed'
  <2> SUFFICES ASSUME NEW call \in 1..made', Ended("typescript", call)'
               PROVE  EventsOf("typescript", call)' \intersect Closing # {}
    BY DEF Closed
  <2>1. call \in 1..made /\ Ended("typescript", call)
    BY <1>1 DEF Ended, Gateways
  <2> QED
    BY <1>5, <2>1 DEF Closed
<1> QED
  BY <1>2, <1>3, <1>4, <1>6, <1>7

(* An effect: the gateway of the provider is under way, so its call is     *)
(* sound, and announced unless it is Go's.                                 *)
LEMMA ExecuteKeepsCalls ==
    ASSUME CallInv, NEW l \in Gateways, Execute(l)
    PROVE  CallInv'
<1> USE DEF CallInv
<1> DEFINE new == [by |-> l, call |-> made, args |-> request.args]
<1>1. /\ committed' = committed \union {new}
      /\ pc[l] = "calling"
      /\ pc' = [pc EXCEPT ![l] = "returned"]
      /\ UNCHANGED <<made, request, config, outcome, audit>>
  BY DEF Execute
<1>2. new.by = l /\ new.call = made
  OBVIOUS
<1> HIDE DEF new
<1>3. /\ \A k \in Gateways : k # l => pc'[k] = pc[k]
      /\ pc'[l] = "returned"
  BY <1>1 DEF CallTyped
<1>4. CallTyped'
  BY <1>1 DEF CallTyped, Places
<1>5. \A k : Sound(k)' <=> Sound(k)
  BY <1>1, SoundStays
<1>6. Admitted'
  BY <1>1, <1>3, <1>5 DEF Admitted, Under
<1>7. Sound(l)
  BY <1>1 DEF Admitted, Under
<1>8. Recent'
  BY <1>1, <1>2, <1>3, <1>5, <1>7 DEF Recent, CallTyped
<1>9. Announced'
  <2> SUFFICES ASSUME NEW k \in Gateways \ {"go"}, pc'[k] \in Under
               PROVE  Entry(k, "vcp.grant.minted", "OK")' \in audit'
    BY DEF Announced
  <2>1. pc[k] \in Under
    BY <1>1, <1>3 DEF Under
  <2> QED
    BY <1>1, <2>1 DEF Announced, Entry
<1>10. \A k, call : EventsOf(k, call)' = EventsOf(k, call)
  BY <1>1 DEF EventsOf
<1>11. Traced'
  <2> SUFFICES ASSUME NEW c \in committed \union {new}
               PROVE  IF c.by # "go" THEN EventsOf(c.by, c.call)' # {}
                      ELSE c.call = made' /\ pc'["go"] = "done" =>
                              \/ EventsOf("go", made)' # {}
                              \/ outcome'["go"] = "PROVIDER_ERROR"
    BY <1>1 DEF Traced
  <2>1. CASE c \in committed
    BY <1>1, <1>3, <1>10, <2>1 DEF Traced, Gateways
  <2>2. CASE c = new /\ l # "go"
    <3>1. Entry(l, "vcp.grant.minted", "OK") \in audit
      BY <1>1, <2>2 DEF Announced, Under
    <3>2. EventsOf(l, made) # {}
      BY <3>1, EntryIsEvent DEF EventsOf, Entry
    <3> QED
      BY <1>2, <1>10, <2>2, <3>2
  <2>3. CASE c = new /\ l = "go"
    BY <1>2, <1>3, <2>3
  <2> QED
    BY <2>1, <2>2, <2>3
<1>12. Closed'
  <2> SUFFICES ASSUME NEW call \in 1..made, Ended("typescript", call)'
               PROVE  EventsOf("typescript", call)' \intersect Closing # {}
    BY <1>1 DEF Closed
  <2>1. Ended("typescript", call)
    BY <1>1, <1>3 DEF Ended, Gateways
  <2> QED
    BY <1>10, <2>1 DEF Closed
<1> QED
  BY <1>4, <1>6, <1>8, <1>9, <1>11, <1>12

(* Returns that log what became of the call.                               *)
LEMMA LoggedReturnKeepsCalls ==
    ASSUME CallInv, NEW l \in Gateways, NEW code, NEW event, NEW reason,
           Return(l, code), Log({Entry(l, event, reason)}),
           UNCHANGED <<made, request, committed, config>>,
           l = "typescript" => event \in Closing
    PROVE  CallInv'
<1>1. audit \subseteq audit' /\ Entry(l, event, reason) \in audit'
  BY DEF Log
<1>2. event \in EventsOf(l, made)'
  BY <1>1 DEF EventsOf, Entry
<1> QED
  BY <1>1, <1>2, ReturnKeepsCalls

(* The invariant holds in every state of every run.                        *)
LEMMA CallsHold == Spec => []CallInv
<1>1. Init => CallInv
  BY DEF Init, CallInv, CallTyped, Admitted, Recent, Announced, Traced, Closed,
         Under, Places, Gateways
<1>2. CallInv /\ [Next]_vars => CallInv'
  <2> SUFFICES ASSUME CallInv, [Next]_vars PROVE CallInv'
    OBVIOUS
  <2>1. ASSUME NEW r \in Requests, NEW b, Submit(r, b) PROVE CallInv'
    BY <2>1, SubmitKeepsCalls
  <2>2. ASSUME NEW l \in Gateways, Refuse(l) PROVE CallInv'
    <3> DEFINE failure == Admission(l, request)
    <3>1. /\ Log({Entry(l, failure.event, failure.code)})
          /\ Return(l, failure.code)
          /\ UNCHANGED <<made, request, committed, config>>
          /\ failure # Passed
      BY <2>2 DEF Refuse
    <3>2. l = "typescript" => failure.event \in Closing
      BY <3>1, TypeScriptRefusalIsDenial DEF Closing
    <3> HIDE DEF failure
    <3> QED
      BY <3>1, <3>2, LoggedReturnKeepsCalls
  <2>3. ASSUME RefuseReplay PROVE CallInv'
    <3>1. /\ Log({Entry("go", "vcp.grant.rejected", GrantVerdict("go"))})
          /\ Return("go", GrantVerdict("go"))
          /\ UNCHANGED <<made, request, committed, config>>
      BY <2>3 DEF RefuseReplay
    <3> QED
      BY <3>1, LoggedReturnKeepsCalls DEF Gateways
  <2>4. ASSUME NEW l \in Gateways, Call(l) PROVE CallInv'
    <3>1. /\ pc[l] = "submitted" /\ pc' = [pc EXCEPT ![l] = "calling"]
          /\ Admission(l, request) = Passed
          /\ Log(MintedEvents(l))
          /\ UNCHANGED <<made, request, config, committed, outcome>>
      BY <2>4 DEF Call
    <3>2. Sound(l)
      BY <3>1, AdmittedMeans DEF Sound
    <3>3. /\ audit \subseteq audit'
          /\ l # "go" => Entry(l, "vcp.grant.minted", "OK") \in audit'
      BY <3>1 DEF Log, MintedEvents
    <3>4. "calling" \in Under
      BY DEF Under
    <3> QED
      BY <3>1, <3>2, <3>3, <3>4, MoveKeepsCalls
  <2>5. ASSUME NEW l \in Gateways, Decline(l) PROVE CallInv'
    <3>1. /\ pc[l] \in Under /\ pc[l] # "submitted"
          /\ pc' = [pc EXCEPT ![l] = "returned"]
          /\ UNCHANGED <<made, request, config, committed, outcome, audit>>
      BY <2>5 DEF Decline, Under
    <3>2. "returned" \in Under /\ audit \subseteq audit'
      BY <3>1 DEF Under
    <3> QED
      BY <3>1, <3>2, MoveKeepsCalls
  <2>6. ASSUME NEW l \in Gateways, Execute(l) PROVE CallInv'
    BY <2>6, ExecuteKeepsCalls
  <2>7. ASSUME NEW l \in Gateways, Serve(l) PROVE CallInv'
    <3>1. /\ Log({Entry(l, "vcp.capability.invoked", "OK")})
          /\ Return(l, "OK")
          /\ UNCHANGED <<made, request, committed, config>>
      BY <2>7 DEF Serve
    <3> QED
      BY <3>1, LoggedReturnKeepsCalls DEF Closing
  <2>8. ASSUME NEW l \in Gateways, Discard(l) PROVE CallInv'
    <3> DEFINE reason == VerifyAttestation(l, answer[l])
    <3>1. /\ Log({Entry(l, "vcp.attestation.rejected", reason)})
          /\ Return(l, reason)
          /\ UNCHANGED <<made, request, committed, config>>
      BY <2>8 DEF Discard
    <3> HIDE DEF reason
    <3> QED
      BY <3>1, LoggedReturnKeepsCalls DEF Closing
  <2>9. ASSUME NEW l \in Gateways, Propagate(l) PROVE CallInv'
    <3>1. /\ pc[l] = "returned"
          /\ Log(ProviderErrorEvents(l))
          /\ Return(l, "PROVIDER_ERROR")
          /\ UNCHANGED <<made, request, committed, config>>
      BY <2>9 DEF Propagate
    <3>2. CASE l = "typescript"
      <4>1. Log({Entry(l, "vcp.policy.denied", "PROVIDER_ERROR")})
        BY <3>1, <3>2 DEF ProviderErrorEvents
      <4> QED
        BY <3>1, <4>1, LoggedReturnKeepsCalls DEF Closing
    <3>3. CASE l = "go"
      <4>1. audit \subseteq audit' /\ outcome'["go"] = "PROVIDER_ERROR"
        BY <3>1, <3>3 DEF Log, Return, CallInv, CallTyped
      <4> QED
        BY <3>1, <3>3, <4>1, ReturnKeepsCalls
    <3>4. CASE l = "python"
      <4>1. Entry(l, "vcp.grant.minted", "OK") \in audit /\ audit \subseteq audit'
        BY <3>1, <3>4 DEF CallInv, Announced, Under, Log
      <4>2. "vcp.grant.minted" \in EventsOf(l, made)'
        BY <3>1, <4>1 DEF EventsOf, Entry
      <4> QED
        BY <3>1, <3>4, <4>1, <4>2, ReturnKeepsCalls
    <3> QED
      BY <3>2, <3>3, <3>4 DEF Gateways
  <2>10. ASSUME UNCHANGED vars PROVE CallInv'
    BY <2>10 DEF vars, CallInv, CallTyped, Admitted, Recent, Announced, Traced,
       Closed, Sound, Identified, Authentic, Appraised, Entry, EventsOf, Ended
  <2> QED
    BY <2>1, <2>2, <2>3, <2>4, <2>5, <2>6, <2>7, <2>8, <2>9, <2>10 DEF Next
<1> QED
  BY <1>1, <1>2, PTL DEF Spec

-------------------------------------------------------------------------------
(* No gateway lets an effect happen for a manifest that claims an identity *)
(* that does not cover its fields (Go: or claims none), that its key does  *)
(* not verify, or that asks for an appraisal the call did not pass: for    *)
(* every manifest and every configuration.                                 *)
THEOREM EffectsArePublished == Spec => []EffectsAsPublished
<1>1. CallInv => EffectsAsPublished
  BY DEF CallInv, Recent, Sound, Identified, Authentic, Appraised, EffectsAsPublished
<1> QED
  BY <1>1, CallsHold, PTL

(* Once a call is over, the log of its gateway names it if it had an       *)
(* effect; only a provider's error after the effect leaves Go's log empty. *)
THEOREM CommitsLeaveTraces == Spec => []CommitLeavesTrace
<1>1. CallInv => CommitLeavesTrace
  BY DEF CallInv, CallTyped, Recent, Traced, CommitLeavesTrace, Ended
<1> QED
  BY <1>1, CallsHold, PTL

(* Every call of TypeScript that announced a grant ends with the event     *)
(* that says what became of it, a provider that throws included.           *)
THEOREM TypeScriptAlwaysCloses == Spec => []TypeScriptClosesGrants
<1>1. CallInv => TypeScriptClosesGrants
  BY DEF CallInv, Closed, TypeScriptClosesGrants, Closing
<1> QED
  BY <1>1, CallsHold, PTL

-------------------------------------------------------------------------------
(* Types.                                                                  *)

(* No gateway is at work before the first call, whose provider behaves in  *)
(* one of the ways it may.                                                 *)
Quiet ==
    /\ made = 0 => \A l \in Gateways : pc[l] = "done"
    /\ made # 0 => behaviour \in Behaviours
TypeInv == TypeOK /\ Quiet

(* What is logged of the present call is well typed. *)
LEMMA EntryTyped ==
    ASSUME TypeInv, NEW l \in Gateways, pc[l] # "done",
           NEW event \in Events, NEW reason
    PROVE  /\ Entry(l, event, reason).by \in Gateways
           /\ Entry(l, event, reason).call \in 1..MaxCalls
           /\ Entry(l, event, reason).event \in Events
<1>1. made \in 1..MaxCalls
  BY GatewaysAssumption DEF TypeInv, TypeOK, Quiet
<1> QED
  BY <1>1 DEF Entry

(* A step of a gateway at work on a call moves it, and may log.            *)
LEMMA StepTyped ==
    ASSUME TypeInv, NEW l \in Gateways, pc[l] # "done",
           NEW place \in {"calling", "returned", "done"}, pc' = [pc EXCEPT ![l] = place],
           UNCHANGED <<config, made, request, behaviour>>,
           answer' \in [Gateways -> Behaviours \union {"none", "error"}],
           DOMAIN outcome' = Gateways,
           callCounts' \in [{r.args : r \in Requests} -> Nat],
           committed' \subseteq [by : Gateways, call : 1..MaxCalls,
                                 args : {r.args : r \in Requests}],
           \/ audit' = audit
           \/ \E event \in Events : \E reason : Log({Entry(l, event, reason)})
    PROVE  TypeInv'
<1>1. \A e \in audit' :
        e.by \in Gateways /\ e.call \in 1..MaxCalls /\ e.event \in Events
  <2>1. CASE audit' = audit
    BY <2>1 DEF TypeInv, TypeOK
  <2>2. ASSUME NEW event \in Events, NEW reason, Log({Entry(l, event, reason)})
        PROVE  \A e \in audit' :
                 e.by \in Gateways /\ e.call \in 1..MaxCalls /\ e.event \in Events
    <3>1. audit' = audit \union {Entry(l, event, reason)}
      BY <2>2 DEF Log
    <3>2. \A e \in audit :
            e.by \in Gateways /\ e.call \in 1..MaxCalls /\ e.event \in Events
      BY DEF TypeInv, TypeOK
    <3> HIDE DEF Log
    <3> QED
      BY <3>1, <3>2, EntryTyped
  <2> QED
    BY <2>1, <2>2
<1>2. Quiet'
  BY DEF TypeInv, Quiet
<1> QED
  BY <1>1, <1>2 DEF TypeInv, TypeOK

LEMMA TypeInvariant == Spec => []TypeInv
<1>1. Init => TypeInv
  <2> SUFFICES ASSUME Init PROVE TypeInv
    OBVIOUS
  <2>1. request \in Requests
    BY GatewaysAssumption DEF Init
  <2>2. made \in 0..MaxCalls
    BY GatewaysAssumption DEF Init
  <2> QED
    BY <2>1, <2>2 DEF Init, TypeInv, TypeOK, Quiet
<1>2. TypeInv /\ [Next]_vars => TypeInv'
  <2> SUFFICES ASSUME TypeInv, [Next]_vars PROVE TypeInv'
    OBVIOUS
  <2> USE DEF Events
  <2>1. ASSUME NEW r \in Requests, NEW b \in Behaviours, Submit(r, b) PROVE TypeInv'
    <3>1. made' \in 0..MaxCalls /\ made' # 0
      BY <2>1, GatewaysAssumption DEF Submit, TypeInv, TypeOK
    <3> QED
      BY <2>1, <3>1 DEF Submit, TypeInv, TypeOK, Quiet
  <2>2. ASSUME NEW l \in Gateways, NEW code, NEW event \in Events, NEW reason,
               pc[l] # "done", Return(l, code),
               audit' = audit \/ Log({Entry(l, event, reason)}),
               UNCHANGED <<config, made, request, behaviour, answer, callCounts, committed>>
        PROVE  TypeInv'
    <3>1. /\ pc' = [pc EXCEPT ![l] = "done"] /\ DOMAIN outcome' = Gateways
      BY <2>2 DEF Return, TypeInv, TypeOK
    <3> QED
      BY <2>2, <3>1, StepTyped DEF TypeInv, TypeOK
  <2>3. ASSUME NEW l \in Gateways, Refuse(l) PROVE TypeInv'
    <3>1. Admission(l, request).event \in Events
      BY <2>3, AdmissionMeans DEF Refuse
    <3> QED
      BY <2>2, <2>3, <3>1 DEF Refuse
  <2>4. ASSUME RefuseReplay PROVE TypeInv'
    BY <2>2, <2>4 DEF RefuseReplay, Gateways
  <2>5. ASSUME NEW l \in Gateways, Call(l) PROVE TypeInv'
    <3>1. callCounts' \in [{r.args : r \in Requests} -> Nat]
      BY <2>5 DEF Call, Charge, TypeInv, TypeOK
    <3>2. \/ audit' = audit
          \/ \E event \in Events : \E reason : Log({Entry(l, event, reason)})
      <4>1. CASE l = "go"
        BY <2>5, <4>1 DEF Call, MintedEvents, Log
      <4>2. CASE l # "go"
        BY <2>5, <4>2 DEF Call, MintedEvents
      <4> QED
        BY <4>1, <4>2
    <3> QED
      BY <2>5, <3>1, <3>2, StepTyped DEF Call, TypeInv, TypeOK
  <2>6. ASSUME NEW l \in Gateways, Decline(l) PROVE TypeInv'
    BY <2>6, StepTyped DEF Decline, TypeInv, TypeOK
  <2>7. ASSUME NEW l \in Gateways, Execute(l) PROVE TypeInv'
    <3>1. /\ pc[l] # "done" /\ made \in 1..MaxCalls /\ behaviour \in Behaviours
      BY <2>7, GatewaysAssumption DEF Execute, TypeInv, TypeOK, Quiet
    <3>2. answer' \in [Gateways -> Behaviours \union {"none", "error"}]
      BY <2>7, <3>1 DEF Execute, TypeInv, TypeOK
    <3>3. committed' \subseteq [by : Gateways, call : 1..MaxCalls,
                                args : {r.args : r \in Requests}]
      BY <2>7, <3>1 DEF Execute, TypeInv, TypeOK
    <3> QED
      BY <2>7, <3>1, <3>2, <3>3, StepTyped DEF Execute, TypeInv, TypeOK
  <2>8. ASSUME NEW l \in Gateways, Serve(l) PROVE TypeInv'
    BY <2>2, <2>8 DEF Serve
  <2>9. ASSUME NEW l \in Gateways, Discard(l) PROVE TypeInv'
    BY <2>2, <2>9 DEF Discard
  <2>10. ASSUME NEW l \in Gateways, Propagate(l) PROVE TypeInv'
    <3>1. audit' = audit \/ Log({Entry(l, "vcp.policy.denied", "PROVIDER_ERROR")})
      BY <2>10 DEF Propagate, ProviderErrorEvents, Log
    <3> QED
      BY <2>2, <2>10, <3>1 DEF Propagate
  <2>11. ASSUME UNCHANGED vars PROVE TypeInv'
    BY <2>11 DEF vars, TypeInv, TypeOK, Quiet
  <2> QED
    BY <2>1, <2>3, <2>4, <2>5, <2>6, <2>7, <2>8, <2>9, <2>10, <2>11 DEF Next
<1> QED
  BY <1>1, <1>2, PTL DEF Spec

(* The state stays well typed, whatever is requested and answered.         *)
THEOREM GatewayTypes == Spec => []TypeOK
BY TypeInvariant, PTL DEF TypeInv

-------------------------------------------------------------------------------
(* Agreement.  A gateway's verdict on a call is a function of the request, *)
(* the configuration and what the provider does, but for Go's ledger; and  *)
(* outside the known differences it is the same function for all three.    *)

(* A sink that all tell alike is told alike by the three policies.         *)
LEMMA SameFlows ==
    ASSUME NEW r, \A f \in r.flows : SinkAgreed(f)
    PROVE  /\ ForbidsFlow(r.flows)
                <=> \E f \in r.flows : FlowDenied(f.classification, f.sink)
           /\ ForbidsFlow(r.flows)
                <=> \E f \in r.flows :
                        FlowDenied(f.classification,
                                   IF f.to \in TypeScriptSinks THEN "external" ELSE "internal")
BY DEF ForbidsFlow, FlowDenied, SinkAgreed

LEMMA SamePolicies ==
    ASSUME NEW r, ~KnownDifference(r)
    PROVE  /\ PythonPolicy(r) = "OK" <=> GoPolicy(r) = "OK"
           /\ PythonPolicy(r) = "OK" <=> TypeScriptPolicy(r) = "OK"
<1> DEFINE forbids == ForbidsFlow(r.flows)
            unapproved == Class(r) \in Irreversible /\ ~r.approval.given
<1>1. /\ ~TaintsAuthority(r.flows) /\ Class(r) # "write-idempotent"
      /\ r.effect = Class(r)
      /\ r.approval.given => r.approval.plan = r.plan
      /\ \A f \in r.flows : SinkAgreed(f)
  BY DEF KnownDifference
<1>2. PythonPolicy(r) = "OK" <=> ~forbids /\ ~unapproved
  BY <1>1 DEF PythonPolicy, Decide, Verdict, IsWrite, WriteEffects, Irreversible
<1>3. GoPolicy(r) = "OK" <=> ~forbids /\ ~unapproved
  BY <1>1, SameFlows DEF GoPolicy
<1>4. TypeScriptPolicy(r) = "OK" <=> ~forbids /\ ~unapproved
  BY <1>1, SameFlows DEF TypeScriptPolicy
<1> QED
  BY <1>2, <1>3, <1>4

(* Outside the known differences a manifest is verified alike.             *)
LEMMA SameManifests ==
    ASSUME NEW r, ~KnownDifference(r)
    PROVE  LET python == PythonVerifyManifest(r.manifest, config.pythonKey, config.trusted)
               go == GoVerifyManifest(r.manifest, ManifestKey, config.trusted)
               typescript == TypeScriptVerifyManifest(r.manifest, ManifestKey, config.trusted)
           IN  (python = "OK" <=> go = "OK") /\ (python = "OK" <=> typescript = "OK")
<1>1. /\ config.pythonKey = ManifestKey /\ ManifestKey # Absent
      /\ config.trusted.given /\ r.manifest.body.kind # "command"
      /\ r.manifest.body.contract_hash # Blank /\ r.manifest.body.id # Blank
  BY DEF KnownDifference
<1> QED
  BY <1>1 DEF PythonVerifyManifest, GoVerifyManifest, TypeScriptVerifyManifest,
              TypeScriptContract, VerifyDocument

LEMMA SameAdmission ==
    ASSUME NEW r, ~KnownDifference(r), NEW l \in Gateways
    PROVE  Admits(l, r) <=> Admits("python", r)
<1>1. /\ ValidateArguments(r.args, r.manifest.body.surface) = "OK"
      /\ ~BadlySigned("go", r) /\ ~BadlySigned("typescript", r)
  BY DEF KnownDifference, BadlySigned
<1>2. AppraiseSigned("go", r) = Appraise(r) /\ AppraiseSigned("typescript", r) = Appraise(r)
  BY <1>1 DEF AppraiseSigned
<1> QED
  BY <1>1, <1>2, SamePolicies, SameManifests
  DEF Admits, PythonAdmits, GoAdmits, TypeScriptAdmits, Gateways

(* What becomes of a call that is let through.                             *)
CommittedBy(l) == \E c \in committed : c.by = l /\ c.call = made
ServesWell(l) ==
    /\ ~Declines(l) /\ behaviour # "failsLate"
    /\ VerifyAttestation(l, behaviour) = "OK"

LEMMA SameService ==
    ASSUME ~KnownDifference(request), NEW l \in Gateways
    PROVE  /\ Declines(l) <=> Declines("python")
           /\ ServesWell(l) <=> ServesWell("python")
BY DEF KnownDifference, Declines, ServesWell, VerifyAttestation, Gateways

(* Where a gateway is with the present call tells what it found.           *)
StageOf(l) ==
    /\ pc[l] \in {"submitted", "calling"} => ~CommittedBy(l)
    /\ pc[l] \in Under => Admits(l, request)
    /\ pc[l] = "returned" =>
        /\ CommittedBy(l) <=> ~Declines(l)
        /\ answer[l] = IF Declines(l) \/ behaviour = "failsLate" THEN "error"
                       ELSE behaviour
    /\ pc[l] = "done" =>
        \/ ~Admits(l, request) /\ outcome[l] # "OK" /\ ~CommittedBy(l)
        \/ l = "go" /\ outcome[l] = "MAX_CALLS_EXCEEDED"
        \/ /\ Admits(l, request)
           /\ outcome[l] = "OK" <=> ServesWell(l)
           /\ CommittedBy(l) <=> ~Declines(l)
StagesInv == made > 0 => \A l \in Gateways : StageOf(l)

(* A grant minted for the call itself is refused only where Go has charged *)
(* its arguments before.                                                   *)
LEMMA FreshGrant ==
    ASSUME NEW l \in Gateways, request \in Requests, GrantVerdict(l) # "OK"
    PROVE  l = "go" /\ GrantVerdict(l) = "MAX_CALLS_EXCEEDED"
<1> DEFINE grant == MintGrant(l, request)
<1>1. /\ grant.audience = Capability(l, request) /\ grant.args = request.args
      /\ grant.expires = request.now + GrantTtl
  BY DEF MintGrant
<1>2. ~(request.now >= grant.expires)
  BY <1>1, GatewaysAssumption
<1> HIDE DEF grant
<1>3. \/ GrantVerdict(l) = "OK"
      \/ GrantVerdict(l) = "MAX_CALLS_EXCEEDED" /\ CallIndex(l, grant) >= 1
  BY <1>1, <1>2 DEF GrantVerdict, VerifyGrant, grant
<1>4. l # "go" => CallIndex(l, grant) = 0
  BY DEF CallIndex
<1> QED
  BY <1>3, <1>4

(* A step of one gateway leaves the stage of the others alone.             *)
LEMMA OthersKeepStage ==
    ASSUME NEW l, NEW k, k # l, StageOf(k), pc'[k] = pc[k], answer'[k] = answer[k],
           outcome'[k] = outcome[k],
           UNCHANGED <<config, made, request, behaviour>>,
           \/ committed' = committed
           \/ \E args : committed' = committed \union
                            {[by |-> l, call |-> made, args |-> args]}
    PROVE  StageOf(k)'
<1>1. CommittedBy(k)' <=> CommittedBy(k)
  BY DEF CommittedBy
<1>2. /\ Admits(k, request)' <=> Admits(k, request)
      /\ Declines(k)' <=> Declines(k)
      /\ ServesWell(k)' <=> ServesWell(k)
  BY DEF Admits, PythonAdmits, GoAdmits, TypeScriptAdmits, Appraise, AppraiseSigned,
         BadlySigned, Declines, ServesWell, VerifyAttestation
<1> QED
  BY <1>1, <1>2 DEF StageOf

(* A step that moves one gateway and brings it to a stage that fits.       *)
LEMMA StepKeepsStages ==
    ASSUME TypeInv, StagesInv, NEW l \in Gateways, NEW place,
           pc' = [pc EXCEPT ![l] = place],
           \A k \in Gateways \ {l} : answer'[k] = answer[k] /\ outcome'[k] = outcome[k],
           UNCHANGED <<config, made, request, behaviour>>,
           \/ committed' = committed
           \/ \E args : committed' = committed \union
                            {[by |-> l, call |-> made, args |-> args]},
           made > 0 => StageOf(l)'
    PROVE  StagesInv'
<1>1. \A k \in Gateways \ {l} : pc'[k] = pc[k]
  BY DEF TypeInv, TypeOK
<1> SUFFICES ASSUME made > 0, NEW k \in Gateways \ {l} PROVE StageOf(k)'
  BY DEF StagesInv
<1> QED
  BY <1>1, OthersKeepStage DEF StagesInv

(* What a stage is told by does not change during a call.                  *)
LEMMA SameCallFacts ==
    ASSUME UNCHANGED <<config, made, request, behaviour>>, NEW l
    PROVE  /\ Admits(l, request)' <=> Admits(l, request)
           /\ Declines(l)' <=> Declines(l)
           /\ ServesWell(l)' <=> ServesWell(l)
           /\ committed' = committed => (CommittedBy(l)' <=> CommittedBy(l))
BY DEF Admits, PythonAdmits, GoAdmits, TypeScriptAdmits, Appraise, AppraiseSigned,
       BadlySigned, Declines, ServesWell, VerifyAttestation, CommittedBy

(* A gateway that returns.                                                 *)
LEMMA ReturnKeepsStages ==
    ASSUME TypeInv, StagesInv, NEW l \in Gateways, NEW code, Return(l, code),
           UNCHANGED <<config, made, request, behaviour, answer, committed>>,
           made > 0 =>
            \/ ~Admits(l, request) /\ code # "OK" /\ ~CommittedBy(l)
            \/ l = "go" /\ code = "MAX_CALLS_EXCEEDED"
            \/ /\ Admits(l, request)
               /\ code = "OK" <=> ServesWell(l)
               /\ CommittedBy(l) <=> ~Declines(l)
    PROVE  StagesInv'
<1>1. /\ pc' = [pc EXCEPT ![l] = "done"] /\ pc'[l] = "done" /\ outcome'[l] = code
      /\ \A k \in Gateways \ {l} : answer'[k] = answer[k] /\ outcome'[k] = outcome[k]
  BY DEF Return, TypeInv, TypeOK
<1>2. made > 0 => StageOf(l)'
  BY <1>1, SameCallFacts DEF StageOf, Under
<1> QED
  BY <1>1, <1>2, StepKeepsStages

LEMMA StagesHold == Spec => []StagesInv
<1>1. Init => StagesInv
  BY DEF Init, StagesInv
<1>2. TypeInv /\ CallInv /\ StagesInv /\ [Next]_vars => StagesInv'
  <2> SUFFICES ASSUME TypeInv, CallInv, StagesInv, [Next]_vars PROVE StagesInv'
    OBVIOUS
  <2>0. request \in Requests /\ made \in Nat
    BY GatewaysAssumption DEF TypeInv, TypeOK
  <2>1. ASSUME NEW r \in Requests, NEW b \in Behaviours, Submit(r, b) PROVE StagesInv'
    <3> SUFFICES ASSUME NEW l \in Gateways PROVE StageOf(l)'
      BY DEF StagesInv
    <3>1. \A c \in committed : c.call # made + 1
      BY <2>0 DEF CallInv, Recent
    <3>2. ~CommittedBy(l)' /\ pc'[l] = "submitted"
      BY <2>1, <3>1 DEF Submit, CommittedBy
    <3> QED
      BY <3>2 DEF StageOf, Under
  <2>2. ASSUME NEW l \in Gateways, Refuse(l) PROVE StagesInv'
    <3>1. /\ Return(l, Admission(l, request).code) /\ Admission(l, request).code # "OK"
          /\ ~Admits(l, request) /\ pc[l] = "submitted"
          /\ UNCHANGED <<config, made, request, behaviour, answer, committed>>
      BY <2>2, AdmissionMeans DEF Refuse
    <3>2. made > 0 => ~CommittedBy(l)
      BY <3>1 DEF StagesInv, StageOf
    <3> QED
      BY <3>1, <3>2, ReturnKeepsStages
  <2>3. ASSUME RefuseReplay PROVE StagesInv'
    <3>1. GrantVerdict("go") = "MAX_CALLS_EXCEEDED"
      BY <2>0, <2>3, FreshGrant DEF RefuseReplay, Gateways
    <3> QED
      BY <2>3, <3>1, ReturnKeepsStages DEF RefuseReplay, Gateways
  <2>4. ASSUME NEW l \in Gateways, Call(l) PROVE StagesInv'
    <3>1. /\ pc' = [pc EXCEPT ![l] = "calling"] /\ pc'[l] = "calling"
          /\ pc[l] = "submitted" /\ Admits(l, request)
          /\ UNCHANGED <<config, made, request, behaviour, answer, outcome, committed>>
      BY <2>4, AdmissionMeans DEF Call, TypeInv, TypeOK
    <3>2. made > 0 => StageOf(l)'
      BY <3>1, SameCallFacts DEF StagesInv, StageOf, Under
    <3> QED
      BY <3>1, <3>2, StepKeepsStages
  <2>5. ASSUME NEW l \in Gateways, Decline(l) PROVE StagesInv'
    <3>1. /\ pc' = [pc EXCEPT ![l] = "returned"] /\ pc'[l] = "returned"
          /\ pc[l] = "calling" /\ Declines(l) /\ answer'[l] = "error"
          /\ \A k \in Gateways \ {l} : answer'[k] = answer[k]
          /\ UNCHANGED <<config, made, request, behaviour, outcome, committed>>
      BY <2>5 DEF Decline, TypeInv, TypeOK
    <3>2. made > 0 => StageOf(l)'
      BY <3>1, SameCallFacts DEF StagesInv, StageOf, Under
    <3> QED
      BY <3>1, <3>2, StepKeepsStages
  <2>6. ASSUME NEW l \in Gateways, Execute(l) PROVE StagesInv'
    <3>1. /\ pc' = [pc EXCEPT ![l] = "returned"] /\ pc'[l] = "returned"
          /\ pc[l] = "calling" /\ ~Declines(l)
          /\ answer'[l] = IF behaviour = "failsLate" THEN "error" ELSE behaviour
          /\ \A k \in Gateways \ {l} : answer'[k] = answer[k]
          /\ committed' = committed \union
                {[by |-> l, call |-> made, args |-> request.args]}
          /\ UNCHANGED <<config, made, request, behaviour, outcome>>
      BY <2>6 DEF Execute, TypeInv, TypeOK
    <3>2. CommittedBy(l)'
      <4> DEFINE c == [by |-> l, call |-> made, args |-> request.args]
      <4>1. c \in committed' /\ c.by = l /\ c.call = made'
        BY <3>1
      <4> QED
        BY <4>1 DEF CommittedBy
    <3>3. made > 0 => StageOf(l)'
      BY <3>1, <3>2, SameCallFacts DEF StagesInv, StageOf, Under
    <3> QED
      BY <3>1, <3>3, StepKeepsStages
  <2>7. ASSUME NEW l \in Gateways, pc[l] = "returned", made > 0
        PROVE  /\ Admits(l, request)
               /\ CommittedBy(l) <=> ~Declines(l)
               /\ answer[l] = IF Declines(l) \/ behaviour = "failsLate" THEN "error"
                              ELSE behaviour
               /\ behaviour # "error"
    BY <2>7, GatewaysAssumption DEF StagesInv, StageOf, Under, TypeInv, Quiet
  <2>8. ASSUME NEW l \in Gateways, pc[l] = "returned", made > 0
        PROVE  AnsweredWell(l) <=> ServesWell(l)
    BY <2>7, <2>8 DEF AnsweredWell, ServesWell
  <2>9. ASSUME NEW l \in Gateways, Serve(l) PROVE StagesInv'
    BY <2>7, <2>8, <2>9, ReturnKeepsStages DEF Serve
  <2>10. ASSUME NEW l \in Gateways, Discard(l) PROVE StagesInv'
    <3>1. VerifyAttestation(l, answer[l]) # "OK"
      BY <2>10 DEF Discard, AnsweredWell
    <3> QED
      BY <2>7, <2>8, <2>10, <3>1, ReturnKeepsStages DEF Discard
  <2>11. ASSUME NEW l \in Gateways, Propagate(l) PROVE StagesInv'
    <3>1. ~AnsweredWell(l)
      BY <2>11 DEF Propagate, AnsweredWell
    <3> QED
      BY <2>7, <2>8, <2>11, <3>1, ReturnKeepsStages DEF Propagate
  <2>12. ASSUME UNCHANGED vars PROVE StagesInv'
    BY <2>12, SameCallFacts DEF vars, StagesInv, StageOf
  <2> QED
    BY <2>1, <2>2, <2>3, <2>4, <2>5, <2>6, <2>9, <2>10, <2>11, <2>12 DEF Next
<1> QED
  BY <1>1, <1>2, TypeInvariant, CallsHold, PTL DEF Spec

(* But for the known differences the three gateways serve the same         *)
(* requests, refuse the same requests and commit the same effects, for     *)
(* every request, configuration and behaviour of the providers.            *)
THEOREM GatewaysAlwaysAgree == Spec => []GatewaysAgree
<1>1. StagesInv => GatewaysAgree
  <2> SUFFICES ASSUME StagesInv, made > 0, ~KnownDifference(request),
                       \A l \in Gateways : pc[l] = "done", NEW l \in Gateways
                PROVE  /\ outcome[l] = "OK" <=> /\ Admits("python", request)
                                               /\ ServesWell("python")
                       /\ CommittedBy(l) <=> /\ Admits("python", request)
                                             /\ ~Declines("python")
    BY DEF GatewaysAgree, CommittedBy
  <2>1. outcome["go"] # "MAX_CALLS_EXCEEDED"
    BY DEF KnownDifference
  <2>2. StageOf(l) /\ pc[l] = "done"
    BY DEF StagesInv
  <2> QED
    BY <2>1, <2>2, SameAdmission, SameService DEF StageOf
<1> QED
  BY <1>1, StagesHold, PTL
===============================================================================
