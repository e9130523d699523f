------------------------------ MODULE Delegation ------------------------------
(***************************************************************************)
(* On-behalf-of fan-out: one user request that writes at several providers *)
(* (vcp_gateway/delegation.py and its driver, vcp_server/demo_obo.py).     *)
(*                                                                         *)
(* run_demo takes a plan through its reads, one dry run of every write,    *)
(* one approval, then an exchange, a grant, the checks, the execution and  *)
(* the audit of each write.  Its steps are a literal; here they are any    *)
(* list of calls of its providers.  Beside it, whoever holds a grant may   *)
(* pass a part of it on: attenuate, then mint_obo_grant with               *)
(* attenuated_from.  The broker is the TokenExchangeBroker protocol: it    *)
(* may bind a credential to another audience than it was asked for, which  *)
(* the mock never does (Misbinds = {}).  A fresh uuid is the next number,  *)
(* shared by a credential and the grant minted with it.                    *)
(***************************************************************************)
EXTENDS Naturals, Sequences, FiniteSets, Manifests, VcpPolicy

CONSTANTS
    Providers,    \* PROVIDERS
    AudienceOf,   \* the resource indicator of each provider
    ScopeOf,      \* the scopes of each provider
    Plans,        \* the lists of steps a planner may propose
    Misbinds,     \* audiences a broker may bind a credential to by mistake
    MaxSubGrants  \* bound: the grants that are passed on

Steps == [provider : Providers, args : STRING, effect : Effects]

ASSUME DelegationAssumption ==
    /\ Plans \subseteq Seq(Steps)
    /\ AudienceOf \in [Providers -> STRING]
    /\ Misbinds \subseteq STRING
    /\ MaxSubGrants \in Nat

VARIABLES
    plan,      \* the steps of the request
    pc,        \* where run_demo is
    diffs,     \* the write steps in the dry-run diff
    handled,   \* the write steps the last loop is done with
    approval,  \* what the user approved
    serial,    \* the last fresh name
    grants,    \* the grants minted
    executed,  \* the calls the providers executed
    audit,     \* AuditLog.events
    ok         \* what run_demo will return

vars == <<plan, pc, diffs, handled, approval, serial, grants, executed, audit, ok>>

WriteSteps == {i \in DOMAIN plan : IsWrite(plan[i].effect)}
FirstOf(steps) == CHOOSE i \in steps : \A j \in steps : i <= j

-------------------------------------------------------------------------------
(* Credentials, grants, chains.                                            *)

Credential(audience, scope, name) ==
    [audience |-> audience, scope |-> scope, jkt |-> name]
(* ExchangedCredential.reference: never the token.                         *)
Reference(c) == [audience |-> c.audience, jkt |-> c.jkt]
NoReference  == [audience |-> Absent, jkt |-> 0]

BuildDelegationChainShort(provider) ==  \* mutant: the enforcer is left out
    << <<"authorizer", "user">>, <<"delegate", "agent">>,
       <<"executor", provider>>, <<"resource", AudienceOf[provider]>> >>
BuildDelegationChain(provider) ==
    << <<"authorizer", "user">>, <<"delegate", "agent">>,
       <<"enforcer", "gateway">>, <<"executor", provider>>,
       <<"resource", AudienceOf[provider]>> >>

(* mint_obo_grant.  parent is attenuated_from (0: none); root is history:  *)
(* the provider whose scopes the first grant of the line was minted with.  *)
MintOboGrant(provider, args, scope, credential, parent, root) ==
    [id |-> credential.jkt, audience |-> provider, args |-> args,
     scope |-> scope, chain |-> BuildDelegationChain(provider),
     credential |-> credential, parent |-> parent, root |-> root]

VerifyCredentialKnown(credentialAudience, presentedAt) ==  \* mutant: any provider's
    \E p \in Providers : credentialAudience = AudienceOf[p]
VerifyCredentialAudience(credentialAudience, presentedAt) ==
    credentialAudience = presentedAt
VerifyGrantAudience(grantAudience, capability) == grantAudience = capability

AttenuateReversed(parentScope, childScope) == parentScope \subseteq childScope  \* mutant
Attenuate(parentScope, childScope) == childScope \ parentScope = {}

-------------------------------------------------------------------------------
(* Audit events.                                                           *)

Event(event, provider, grant, decision) ==
    [event |-> event, provider |-> provider, grant |-> grant,
     decision |-> decision, chain |-> <<>>, credential |-> NoReference]

FanoutEventSigned(g) ==  \* mutant: signed when it is complete
    Sign([Event("invoked", g.audience, g.id, "allow") EXCEPT
              !.chain = g.chain, !.credential = Reference(g.credential)], "gateway")
(* audit_event signs; the chain and the credential are put in afterwards.  *)
FanoutEvent(g) ==
    [Sign(Event("invoked", g.audience, g.id, "allow"), "gateway") EXCEPT
        !.body.chain = g.chain, !.body.credential = Reference(g.credential)]

DeniedEvent == Sign(Event("denied", "slack", 0, "deny"), "gateway")

-------------------------------------------------------------------------------

Init ==
    /\ plan \in Plans
    /\ pc = "reads"
    /\ diffs = {}
    /\ handled = {}
    /\ approval = NoApproval(plan)
    /\ serial = 0
    /\ grants = {}
    /\ executed = {}
    /\ audit = {}
    /\ ok = TRUE

PolicyAllows(step) == Decide(step.effect, {}, approval, plan).decision = "allow"

(* The read steps are put to the policy and run unattended.                *)
RunReads ==
    /\ pc = "reads"
    /\ pc' = "diff"
    /\ ok' = (ok /\ \A i \in DOMAIN plan \ WriteSteps : PolicyAllows(plan[i]))
    /\ UNCHANGED <<plan, diffs, handled, approval, serial, grants, executed, audit>>

(* InMemoryProvider.execute                                                *)
Accepts(g, provider, args) == g.args = args /\ g.audience = provider
Call(i, g, dryRun) ==
    [step |-> i, provider |-> plan[i].provider, grant |-> g, dryRun |-> dryRun]

(* The credential and the grant of a write step, with the audience the     *)
(* broker bound the credential to.                                         *)
Audiences(step) == {AudienceOf[step.provider]} \union Misbinds
GrantFor(step, audience) ==
    LET scope == ScopeOf[step.provider]
    IN MintOboGrant(step.provider, step.args, scope,
                    Credential(audience, scope, serial + 1), 0, step.provider)

(* The dry run of a write, under a grant of its own.                       *)
DryRun(audience) ==
    /\ pc = "diff"
    /\ diffs # WriteSteps
    /\ LET i == FirstOf(WriteSteps \ diffs)
           g == GrantFor(plan[i], audience)
       IN /\ audience \in Audiences(plan[i])
          /\ Accepts(g, plan[i].provider, plan[i].args)
          /\ grants' = grants \union {g}
          /\ executed' = executed \union {Call(i, g, TRUE)}
          /\ diffs' = diffs \union {i}
    /\ serial' = serial + 1
    /\ UNCHANGED <<plan, pc, handled, approval, audit, ok>>

Approve ==
    /\ pc = "diff"
    /\ diffs = WriteSteps
    /\ approval' = ApprovalOf(plan)
    /\ pc' = "apply"
    /\ UNCHANGED <<plan, diffs, handled, serial, grants, executed, audit, ok>>

(* The checks before a write is executed.                                  *)
Cleared(step, g) ==
    /\ PolicyAllows(step)
    /\ VerifyGrantAudience(g.audience, step.provider)
    /\ VerifyCredentialAudience(g.credential.audience, AudienceOf[step.provider])

RefusedQuietly(was) == was  \* mutant
Refused(was) == FALSE       \* ok = False

(* One turn of the last loop: the write is executed and audited, or the    *)
(* run goes on to the next one.                                            *)
ApplyWrite(audience) ==
    /\ pc = "apply"
    /\ handled # WriteSteps
    /\ LET i == FirstOf(WriteSteps \ handled)
           g == GrantFor(plan[i], audience)
       IN /\ audience \in Audiences(plan[i])
          /\ grants' = IF PolicyAllows(plan[i]) THEN grants \union {g} ELSE grants
          /\ handled' = handled \union {i}
          /\ IF Cleared(plan[i], g) /\ Accepts(g, plan[i].provider, plan[i].args)
             THEN /\ executed' = executed \union {Call(i, g, FALSE)}
                  /\ audit' = audit \union {FanoutEvent(g)}
                  /\ ok' = ok
             ELSE /\ ok' = Refused(ok)
                  /\ UNCHANGED <<executed, audit>>
    /\ serial' = serial + 1
    /\ UNCHANGED <<plan, pc, diffs, approval>>

Committed == {e \in executed : ~e.dryRun}

(* The two writes are counted; then the flow of the inbox to slack is put  *)
(* to the taint rules and its denial recorded.                             *)
BlockFlow ==
    /\ pc = "apply"
    /\ handled = WriteSteps
    /\ pc' = "done"
    /\ ok' = (/\ ok
              /\ Cardinality(Committed) = 2
              /\ FlowDenied("confidential", "external"))
    /\ audit' = audit \union {DeniedEvent}
    /\ UNCHANGED <<plan, diffs, handled, approval, serial, grants, executed>>

(* The holder of a grant passes a part of it on to another provider.       *)
SubGrants == {g \in grants : g.parent # 0}
SubDelegate(g, provider, scope, audience) ==
    /\ Cardinality(SubGrants) < MaxSubGrants
    /\ Attenuate(g.scope, scope)
    /\ serial' = serial + 1
    /\ grants' = grants \union
            {MintOboGrant(provider, g.args, scope,
                          Credential(audience, scope, serial + 1), g.id, g.root)}
    /\ UNCHANGED <<plan, pc, diffs, handled, approval, executed, audit, ok>>

AllScopes == UNION {ScopeOf[p] : p \in Providers}

Next ==
    \/ RunReads
    \/ \E a \in {AudienceOf[p] : p \in Providers} \union Misbinds : DryRun(a) \/ ApplyWrite(a)
    \/ Approve
    \/ BlockFlow
    \/ \E g \in grants, p \in Providers, scope \in SUBSET AllScopes :
            SubDelegate(g, p, scope, AudienceOf[p])

Spec == Init /\ [][Next]_vars
-------------------------------------------------------------------------------
(* Properties.                                                             *)

Grant == [id : 1..serial, audience : Providers, args : STRING,
          scope : SUBSET AllScopes, chain : {BuildDelegationChain(p) : p \in Providers},
          credential : [audience : STRING, scope : SUBSET AllScopes, jkt : 1..serial],
          parent : 0..serial, root : Providers]

(* The variables keep their types; a line of grants only looks back, and   *)
(* every chain names its five actors in order.                             *)
TypeOK ==
    /\ plan \in Plans
    /\ pc \in {"reads", "diff", "apply", "done"}
    /\ diffs \subseteq WriteSteps
    /\ handled \subseteq WriteSteps
    /\ approval \in {ApprovalOf(plan), NoApproval(plan)}
    /\ serial \in Nat
    /\ ok \in BOOLEAN
    /\ grants \subseteq Grant
    /\ \A g \in grants :
        /\ g.parent < g.id
        /\ [k \in DOMAIN g.chain |-> g.chain[k][1]] =
               <<"authorizer", "delegate", "enforcer", "executor", "resource">>
    /\ \A e \in executed : e.step \in WriteSteps /\ e.grant \in grants

(* Authority never widens: however often a grant was passed on, and        *)
(* whoever holds it now, its scopes are among those of the provider the    *)
(* line began with (attenuate, mint_obo_grant).                            *)
NeverWidens == \A g \in grants : g.scope \subseteq ScopeOf[g.root]

(* A write is committed only under a credential bound to the audience of   *)
(* the provider that commits it, whatever the broker returned, and no      *)
(* other call was made with that credential (run_demo: cv, the exchange of *)
(* every write).                                                           *)
CredentialsStayHome ==
    \A e \in Committed :
        /\ e.grant.credential.audience = AudienceOf[e.provider]
        /\ \A f \in executed :
              f.grant.credential.jkt = e.grant.credential.jkt => f = e

(* The trail and the commits account for each other, grant by grant, chain *)
(* and credential included; and since both are added to an event after it  *)
(* was signed, the signatures of exactly those events no longer verify     *)
(* (run_demo: ev, audit_event).                                            *)
TrailExplains ==
    /\ \A e \in Committed : \E ev \in audit :
            /\ ev.body.grant = e.grant.id
            /\ ev.body.chain = BuildDelegationChain(e.provider)
            /\ ev.body.credential = Reference(e.grant.credential)
    /\ \A ev \in audit : ev.body.event = "invoked" =>
            \E e \in Committed : e.grant.id = ev.body.grant
    /\ \A ev \in audit : VerifyDocument(ev, "gateway") <=> ev.body.chain = <<>>

(* When the run reports success, every write of its plan was shown in the  *)
(* one diff, approved with the plan, and committed exactly once (run_demo: *)
(* its return value).                                                      *)
SuccessIsComplete ==
    pc = "done" /\ ok => \A i \in WriteSteps :
        /\ i \in diffs /\ approval = ApprovalOf(plan)
        /\ Cardinality({e \in Committed : e.step = i}) = 1
===============================================================================
