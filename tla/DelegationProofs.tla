--------------------------- MODULE DelegationProofs ---------------------------
(***************************************************************************)
(* Proofs about Delegation, for every set of providers, every plan, every  *)
(* broker and any number of grants that are passed on.                     *)
(*                                                                         *)
(* NeverWidens and TrailExplains are inductive as they stand.              *)
(* CredentialsStayHome is not: that no two calls share a credential rests  *)
(* on the names being fresh, so the invariant Fresh adds that every name   *)
(* in use was drawn before the last one.                                   *)
(***************************************************************************)
EXTENDS Delegation, FiniteSetTheorems, WellFoundedInduction, TLAPS

-------------------------------------------------------------------------------
(* Types.                                                                  *)

(* A set of numbers that is not empty has a smallest one.                  *)
LEMMA SmallestNumber ==
    ASSUME NEW S \in SUBSET Nat, S # {}
    PROVE  FirstOf(S) \in S
<1> DEFINE R == OpToRel(<, Nat)
<1>1. IsWellFoundedOn(R, Nat)
  BY NatLessThanWellFounded
<1>2. PICK i \in S : \A j \in S : ~(<<j, i>> \in R)
  <2> HIDE DEF R
  <2> QED
    BY <1>1, WFMin
<1>3. \A j \in S : ~(j < i)
  BY <1>2 DEF OpToRel
<1>4. \A j \in S : i <= j
  BY <1>3
<1> QED
  BY <1>4 DEF FirstOf

(* The write whose turn it is is one that is not done.                     *)
LEMMA NextWrite ==
    ASSUME plan \in Seq(Steps), NEW done \in SUBSET WriteSteps, done # WriteSteps
    PROVE  FirstOf(WriteSteps \ done) \in WriteSteps \ done
<1>1. DOMAIN plan \subseteq Nat
  <2>1. DOMAIN plan = 1..Len(plan) /\ Len(plan) \in Nat
    OBVIOUS
  <2> QED
    BY <2>1
<1>2. WriteSteps \ done \in SUBSET Nat
  BY <1>1 DEF WriteSteps
<1>3. WriteSteps \ done # {}
  OBVIOUS
<1> QED
  BY <1>2, <1>3, SmallestNumber

(* A grant minted under the next name is well typed, looks back, and names *)
(* its five actors in order.                                               *)
GrantOf(names) ==
    [id : 1..names, audience : Providers, args : STRING,
     scope : SUBSET AllScopes, chain : {BuildDelegationChain(p) : p \in Providers},
     credential : [audience : STRING, scope : SUBSET AllScopes, jkt : 1..names],
     parent : 0..names, root : Providers]
Actors(chain) == [k \in DOMAIN chain |-> chain[k][1]]
LooksBack(g) ==
    /\ g.parent < g.id
    /\ Actors(g.chain) = <<"authorizer", "delegate", "enforcer", "executor", "resource">>

LEMMA ChainActors ==
    ASSUME NEW p
    PROVE  Actors(BuildDelegationChain(p))
             = <<"authorizer", "delegate", "enforcer", "executor", "resource">>
<1> DEFINE chain == BuildDelegationChain(p)
           actors == <<"authorizer", "delegate", "enforcer", "executor", "resource">>
<1>1. /\ DOMAIN chain = 1..5 /\ DOMAIN actors = 1..5
      /\ \A k \in 1..5 : chain[k][1] = actors[k]
  BY DEF BuildDelegationChain
<1>2. Actors(chain) = [k \in 1..5 |-> actors[k]]
  BY <1>1 DEF Actors
<1>3. actors = [k \in 1..5 |-> actors[k]]
  OBVIOUS
<1> QED
  BY <1>2, <1>3

LEMMA MintTyped ==
    ASSUME serial \in Nat, NEW provider \in Providers, NEW args \in STRING,
           NEW scope \in SUBSET AllScopes, NEW a \in STRING,
           NEW parent \in 0..serial, NEW root \in Providers
    PROVE  LET g == MintOboGrant(provider, args, scope,
                                 Credential(a, scope, serial + 1), parent, root)
           IN  g \in GrantOf(serial + 1) /\ LooksBack(g)
<1> DEFINE g == MintOboGrant(provider, args, scope,
                             Credential(a, scope, serial + 1), parent, root)
<1>1. Credential(a, scope, serial + 1)
        \in [audience : STRING, scope : SUBSET AllScopes, jkt : 1..serial + 1]
  BY DEF Credential
<1>2. serial + 1 \in 1..serial + 1 /\ parent \in 0..serial + 1
  OBVIOUS
<1>3. g.id = serial + 1 /\ g.parent = parent /\ g.chain = BuildDelegationChain(provider)
  BY DEF MintOboGrant, Credential
<1>4. g \in GrantOf(serial + 1)
  BY <1>1, <1>2 DEF MintOboGrant, GrantOf, Credential
<1> QED
  BY <1>3, <1>4, ChainActors DEF LooksBack

LEMMA GrantsGrow ==
    ASSUME serial \in Nat PROVE GrantOf(serial) \subseteq GrantOf(serial + 1)
<1>1. 1..serial \subseteq 1..serial + 1 /\ 0..serial \subseteq 0..serial + 1
  OBVIOUS
<1> QED
  BY <1>1 DEF GrantOf

(* The grants keep their types when one more is minted under the next      *)
(* name, or drawn and not kept.                                            *)
LEMMA GrantsTyped ==
    ASSUME TypeOK, NEW g \in GrantOf(serial + 1), LooksBack(g), serial' = serial + 1,
           grants' = grants \/ grants' = grants \union {g}
    PROVE  /\ serial' \in Nat /\ grants' \subseteq Grant'
           /\ \A h \in grants' : LooksBack(h)
<1>0. Grant = GrantOf(serial) /\ Grant' = GrantOf(serial')
  BY DEF Grant, GrantOf
<1>1. serial \in Nat /\ grants \subseteq Grant
  BY DEF TypeOK
<1>2. \A h \in grants : LooksBack(h)
  BY DEF TypeOK, LooksBack, Actors
<1>3. Grant' = GrantOf(serial + 1)
  BY <1>0
<1> QED
  BY <1>0, <1>1, <1>2, <1>3, GrantsGrow

(* The grant of a write step is well typed. *)
LEMMA GrantForTyped ==
    ASSUME TypeOK, NEW i \in WriteSteps, NEW a \in Audiences(plan[i])
    PROVE  /\ GrantFor(plan[i], a) \in GrantOf(serial + 1)
           /\ LooksBack(GrantFor(plan[i], a))
<1>1. plan \in Seq(Steps)
  BY DelegationAssumption DEF TypeOK
<1>2. plan[i] \in Steps
  BY <1>1 DEF WriteSteps
<1>3. plan[i].provider \in Providers /\ plan[i].args \in STRING
  BY <1>2 DEF Steps
<1>4. ScopeOf[plan[i].provider] \in SUBSET AllScopes
  BY <1>3 DEF AllScopes
<1>5. AudienceOf[plan[i].provider] \in STRING
  BY <1>3, DelegationAssumption
<1>6. a \in STRING
  BY <1>5, DelegationAssumption DEF Audiences
<1>7. serial \in Nat
  BY DEF TypeOK
<1>8. 0 \in 0..serial
  BY <1>7
<1> QED
  BY <1>3, <1>4, <1>6, <1>7, <1>8, MintTyped DEF GrantFor

(* The state stays well typed, a line of grants only looks back, and every *)
(* chain names its five actors in order, for every plan and every broker.  *)
THEOREM DelegationTypes == Spec => []TypeOK
<1>1. Init => TypeOK
  BY DEF Init, TypeOK
<1>2. TypeOK /\ [Next]_vars => TypeOK'
  <2> SUFFICES ASSUME TypeOK, [Next]_vars PROVE TypeOK'
    OBVIOUS
  <2>1. plan \in Seq(Steps) /\ diffs \subseteq WriteSteps /\ handled \subseteq WriteSteps
    BY DelegationAssumption DEF TypeOK
  <2>2. ASSUME UNCHANGED <<plan, serial, grants, executed>>,
               pc' \in {"reads", "diff", "apply", "done"}, ok' \in BOOLEAN,
               UNCHANGED <<diffs, handled>>,
               approval' \in {ApprovalOf(plan), NoApproval(plan)}
        PROVE  TypeOK'
    BY <2>2 DEF TypeOK, WriteSteps, Grant
  <2>3. ASSUME NEW i \in WriteSteps, NEW g \in GrantOf(serial + 1), LooksBack(g),
               serial' = serial + 1, grants' = grants \/ grants' = grants \union {g},
               UNCHANGED <<plan, pc, approval>>, ok' \in BOOLEAN,
               diffs' \subseteq WriteSteps, handled' \subseteq WriteSteps,
               \A e \in executed' : e \in executed \/ (e.step = i /\ e.grant \in grants')
        PROVE  TypeOK'
    <3>1. /\ serial' \in Nat /\ grants' \subseteq Grant'
          /\ \A h \in grants' : LooksBack(h)
      BY <2>3, GrantsTyped
    <3>2. \A e \in executed' : e.step \in WriteSteps /\ e.grant \in grants'
      BY <2>3 DEF TypeOK
    <3> QED
      BY <2>3, <3>1, <3>2 DEF TypeOK, WriteSteps, LooksBack, Actors
  <2>4. ASSUME NEW a, DryRun(a) PROVE TypeOK'
    <3> DEFINE i == FirstOf(WriteSteps \ diffs)
               g == GrantFor(plan[i], a)
    <3>1. i \in WriteSteps
      BY <2>1, <2>4, NextWrite DEF DryRun
    <3>2. /\ a \in Audiences(plan[i])
          /\ grants' = grants \union {g} /\ serial' = serial + 1
          /\ executed' = executed \union {Call(i, g, TRUE)}
          /\ diffs' = diffs \union {i}
          /\ UNCHANGED <<plan, pc, handled, approval, audit, ok>>
      BY <2>4 DEF DryRun
    <3>3. Call(i, g, TRUE).step = i /\ Call(i, g, TRUE).grant = g
      BY DEF Call
    <3> HIDE DEF i
    <3>4. g \in GrantOf(serial + 1) /\ LooksBack(g)
      BY <3>1, <3>2, GrantForTyped
    <3> HIDE DEF g
    <3>5. ok' \in BOOLEAN
      BY <3>2 DEF TypeOK
    <3> QED
      BY <2>1, <2>3, <3>1, <3>2, <3>3, <3>4, <3>5
  <2>5. ASSUME NEW a, ApplyWrite(a) PROVE TypeOK'
    <3> DEFINE i == FirstOf(WriteSteps \ handled)
               g == GrantFor(plan[i], a)
    <3>1. i \in WriteSteps
      BY <2>1, <2>5, NextWrite DEF ApplyWrite
    <3>2. /\ a \in Audiences(plan[i])
          /\ grants' = IF PolicyAllows(plan[i]) THEN grants \union {g} ELSE grants
          /\ handled' = handled \union {i} /\ serial' = serial + 1
          /\ UNCHANGED <<plan, pc, diffs, approval>>
      BY <2>5 DEF ApplyWrite
    <3>3. /\ ok' \in BOOLEAN
          /\ \/ executed' = executed
             \/ /\ executed' = executed \union {Call(i, g, FALSE)}
                /\ PolicyAllows(plan[i])
      BY <2>5 DEF ApplyWrite, Refused, Cleared, TypeOK
    <3>4. Call(i, g, FALSE).step = i /\ Call(i, g, FALSE).grant = g
      BY DEF Call
    <3> HIDE DEF i
    <3>5. g \in GrantOf(serial + 1) /\ LooksBack(g)
      BY <3>1, <3>2, GrantForTyped
    <3> HIDE DEF g
    <3>6. grants' = grants \/ grants' = grants \union {g}
      BY <3>2
    <3>7. \A e \in executed' : e \in executed \/ (e.step = i /\ e.grant \in grants')
      BY <3>2, <3>3, <3>4
    <3> QED
      BY <2>1, <2>3, <3>1, <3>2, <3>3, <3>5, <3>6, <3>7
  <2>6. ASSUME NEW h \in grants, NEW p \in Providers, NEW scope \in SUBSET AllScopes,
               SubDelegate(h, p, scope, AudienceOf[p])
        PROVE  TypeOK'
    <3> DEFINE g == MintOboGrant(p, h.args, scope,
                        Credential(AudienceOf[p], scope, serial + 1), h.id, h.root)
    <3>1. /\ grants' = grants \union {g} /\ serial' = serial + 1
          /\ UNCHANGED <<plan, pc, diffs, handled, approval, executed, audit, ok>>
      BY <2>6 DEF SubDelegate
    <3>2. /\ serial \in Nat /\ h.args \in STRING /\ h.root \in Providers
          /\ h.id \in 0..serial /\ AudienceOf[p] \in STRING
      BY DelegationAssumption DEF TypeOK, Grant
    <3>3. g \in GrantOf(serial + 1) /\ LooksBack(g)
      BY <3>2, MintTyped
    <3> HIDE DEF g
    <3>4. /\ serial' \in Nat /\ grants' \subseteq Grant'
          /\ \A k \in grants' : LooksBack(k)
      BY <3>1, <3>3, GrantsTyped
    <3> QED
      BY <3>1, <3>4 DEF TypeOK, WriteSteps, LooksBack, Actors
  <2>7. CASE RunReads \/ Approve \/ BlockFlow \/ UNCHANGED vars
    BY <2>2, <2>7 DEF RunReads, Approve, BlockFlow, vars, TypeOK
  <2> QED
    BY <2>4, <2>5, <2>6, <2>7 DEF Next
<1> QED
  BY <1>1, <1>2, PTL DEF Spec

-------------------------------------------------------------------------------
(* A child's scopes that attenuate accepts are among its parent's          *)
(* (attenuate: the set difference is empty).                               *)
LEMMA AttenuateNarrows ==
    ASSUME NEW parent, NEW child, Attenuate(parent, child)
    PROVE  child \subseteq parent
BY DEF Attenuate

(* A first grant has the scopes of the provider it is minted for.          *)
LEMMA GrantForScope ==
    ASSUME NEW step, NEW a
    PROVE  /\ GrantFor(step, a).scope = ScopeOf[GrantFor(step, a).root]
           /\ GrantFor(step, a).audience = step.provider
           /\ GrantFor(step, a).chain = BuildDelegationChain(step.provider)
           /\ GrantFor(step, a).id = serial + 1
           /\ GrantFor(step, a).credential.audience = a
           /\ GrantFor(step, a).credential.jkt = serial + 1
BY DEF GrantFor, MintOboGrant, Credential

(* Authority never widens along a line of grants, however long, for any    *)
(* scopes of any providers (attenuate, mint_obo_grant).                    *)
THEOREM AuthorityNeverWidens == Spec => []NeverWidens
<1>1. Init => NeverWidens
  BY DEF Init, NeverWidens
<1>2. NeverWidens /\ [Next]_vars => NeverWidens'
  <2> SUFFICES ASSUME NeverWidens, [Next]_vars PROVE NeverWidens'
    OBVIOUS
  <2> USE DEF NeverWidens
  <2>1. ASSUME NEW a, DryRun(a) PROVE NeverWidens'
    <3> DEFINE g == GrantFor(plan[FirstOf(WriteSteps \ diffs)], a)
    <3>1. grants' = grants \union {g}
      BY <2>1 DEF DryRun
    <3>2. g.scope \subseteq ScopeOf[g.root]
      BY GrantForScope
    <3> QED
      BY <3>1, <3>2
  <2>2. ASSUME NEW a, ApplyWrite(a) PROVE NeverWidens'
    <3> DEFINE g == GrantFor(plan[FirstOf(WriteSteps \ handled)], a)
    <3>1. grants' = grants \union {g} \/ grants' = grants
      BY <2>2 DEF ApplyWrite
    <3>2. g.scope \subseteq ScopeOf[g.root]
      BY GrantForScope
    <3> QED
      BY <3>1, <3>2
  <2>3. ASSUME NEW g \in grants, NEW p, NEW scope, NEW a, SubDelegate(g, p, scope, a)
        PROVE  NeverWidens'
    <3> DEFINE child == MintOboGrant(p, g.args, scope,
                                     Credential(a, scope, serial + 1), g.id, g.root)
    <3>1. grants' = grants \union {child}
      BY <2>3 DEF SubDelegate
    <3>2. scope \subseteq g.scope
      BY <2>3, AttenuateNarrows DEF SubDelegate
    <3>3. child.scope = scope /\ child.root = g.root
      BY DEF MintOboGrant
    <3> QED
      BY <3>1, <3>2, <3>3
  <2>4. ASSUME UNCHANGED grants PROVE NeverWidens'
    BY <2>4
  <2> QED
    BY <2>1, <2>2, <2>3, <2>4 DEF Next, RunReads, Approve, BlockFlow, vars
<1> QED
  BY <1>1, <1>2, PTL DEF Spec

-------------------------------------------------------------------------------
(* Every name in use was drawn before the last one; hence the credential   *)
(* of the next call is of no call yet.                                     *)
Fresh ==
    /\ serial \in Nat
    /\ \A e \in executed : e.grant.credential.jkt \in 1..serial
Unshared ==
    \A e, f \in executed :
        e.grant.credential.jkt = f.grant.credential.jkt => e = f
BoundHome ==
    \A e \in executed :
        ~e.dryRun => e.grant.credential.audience = AudienceOf[e.provider]
CredentialInv == Fresh /\ Unshared /\ BoundHome

(* One more call, under the next name, keeps the invariant: it shares its  *)
(* credential with no call before it (run_demo: every exchange is new).    *)
LEMMA NextCallKeepsCredentials ==
    ASSUME CredentialInv, NEW e, executed' = executed \union {e},
           serial' = serial + 1, e.grant.credential.jkt = serial + 1,
           ~e.dryRun => e.grant.credential.audience = AudienceOf[e.provider]
    PROVE  CredentialInv'
<1> USE DEF CredentialInv
<1>1. Fresh'
  BY DEF Fresh
<1>2. Unshared'
  <2>1. \A f \in executed : f.grant.credential.jkt # e.grant.credential.jkt
    BY DEF Fresh
  <2> QED
    BY <2>1 DEF Unshared
<1>3. BoundHome'
  BY DEF BoundHome
<1> QED
  BY <1>1, <1>2, <1>3

(* A step that executes nothing keeps it, whatever names it draws.         *)
LEMMA OtherStepsKeepCredentials ==
    ASSUME CredentialInv, UNCHANGED executed,
           serial' = serial \/ serial' = serial + 1
    PROVE  CredentialInv'
BY DEF CredentialInv, Fresh, Unshared, BoundHome

(* A write is committed only under a credential of its own provider, used  *)
(* for no other call, for every broker: also one that binds a credential   *)
(* to whatever audience it likes (run_demo: the check of cv).              *)
THEOREM CredentialsAreBound == Spec => []CredentialsStayHome
<1>1. Init => CredentialInv
  BY DEF Init, CredentialInv, Fresh, Unshared, BoundHome
<1>2. CredentialInv /\ [Next]_vars => CredentialInv'
  <2> SUFFICES ASSUME CredentialInv, [Next]_vars PROVE CredentialInv'
    OBVIOUS
  <2>1. ASSUME NEW a, DryRun(a) PROVE CredentialInv'
    <3> DEFINE i == FirstOf(WriteSteps \ diffs)
               e == Call(i, GrantFor(plan[i], a), TRUE)
    <3>1. executed' = executed \union {e} /\ serial' = serial + 1
      BY <2>1 DEF DryRun
    <3>2. e.grant = GrantFor(plan[i], a) /\ e.dryRun = TRUE
      BY DEF Call
    <3>3. GrantFor(plan[i], a).credential.jkt = serial + 1
      BY GrantForScope
    <3>4. e.grant.credential.jkt = serial + 1
      BY <3>2, <3>3, Zenon
    <3> QED
      BY <3>1, <3>2, <3>4, NextCallKeepsCredentials
  <2>2. ASSUME NEW a, ApplyWrite(a) PROVE CredentialInv'
    <3> DEFINE i == FirstOf(WriteSteps \ handled)
               g == GrantFor(plan[i], a)
               e == Call(i, g, FALSE)
    <3>1. serial' = serial + 1
      BY <2>2 DEF ApplyWrite
    <3>2. CASE Cleared(plan[i], g) /\ Accepts(g, plan[i].provider, plan[i].args)
      <4>1. executed' = executed \union {e}
        BY <2>2, <3>2 DEF ApplyWrite
      <4>2. e.grant = g /\ e.provider = plan[i].provider
        BY DEF Call
      <4>3. g.credential.audience = AudienceOf[plan[i].provider]
        BY <3>2 DEF Cleared, VerifyCredentialAudience
      <4>4. g.credential.jkt = serial + 1
        BY GrantForScope
      <4>5. e.grant.credential.jkt = serial + 1
        BY <4>2, <4>4, Zenon
      <4> QED
        BY <3>1, <4>1, <4>2, <4>3, <4>5, NextCallKeepsCredentials
    <3>3. CASE ~(Cleared(plan[i], g) /\ Accepts(g, plan[i].provider, plan[i].args))
      <4>1. UNCHANGED executed
        BY <2>2, <3>3 DEF ApplyWrite
      <4> QED
        BY <3>1, <4>1, OtherStepsKeepCredentials
    <3> QED
      BY <3>2, <3>3
  <2>3. ASSUME NEW g, NEW p, NEW scope, NEW a, SubDelegate(g, p, scope, a)
        PROVE  CredentialInv'
    BY <2>3, OtherStepsKeepCredentials DEF SubDelegate
  <2>4. ASSUME UNCHANGED <<executed, serial>> PROVE CredentialInv'
    BY <2>4, OtherStepsKeepCredentials
  <2> QED
    BY <2>1, <2>2, <2>3, <2>4 DEF Next, RunReads, Approve, BlockFlow, vars
<1>3. CredentialInv => CredentialsStayHome
  BY DEF CredentialInv, Unshared, BoundHome, CredentialsStayHome, Committed
<1> QED
  BY <1>1, <1>2, <1>3, PTL DEF Spec

-------------------------------------------------------------------------------
(* A signed event to which a chain was added no longer verifies: its body  *)
(* is not the one that was signed (run_demo: ev, audit_event).             *)
LEMMA FanoutEventTells ==
    ASSUME NEW step, NEW a, NEW g, g = GrantFor(step, a)
    PROVE  /\ FanoutEvent(g).body.event = "invoked"
           /\ FanoutEvent(g).body.grant = g.id
           /\ FanoutEvent(g).body.chain = BuildDelegationChain(step.provider)
           /\ FanoutEvent(g).body.credential = Reference(g.credential)
           /\ FanoutEvent(g).body.chain # <<>>
           /\ ~VerifyDocument(FanoutEvent(g), "gateway")
<1> DEFINE ev == FanoutEvent(g)
<1>1. g.chain = BuildDelegationChain(step.provider)
  BY GrantForScope
<1>2. BuildDelegationChain(step.provider) # <<>>
  BY DEF BuildDelegationChain
<1>3. /\ ev.body.event = "invoked" /\ ev.body.grant = g.id
      /\ ev.body.chain = g.chain /\ ev.body.credential = Reference(g.credential)
      /\ ev.over.chain = <<>>
  BY DEF FanoutEvent, Event, Sign
<1>4. ev.over # ev.body
  BY <1>1, <1>2, <1>3
<1> QED
  BY <1>1, <1>2, <1>3, <1>4 DEF VerifyDocument

(* The event of the blocked flow is left as it was signed (run_demo).      *)
LEMMA DeniedEventTells ==
    /\ DeniedEvent.body.event = "denied"
    /\ DeniedEvent.body.chain = <<>>
    /\ VerifyDocument(DeniedEvent, "gateway")
BY DEF DeniedEvent, Event, Sign, VerifyDocument

(* The three parts of TrailExplains.                                       *)
Logged(e, events) ==
    \E ev \in events :
        /\ ev.body.grant = e.grant.id
        /\ ev.body.chain = BuildDelegationChain(e.provider)
        /\ ev.body.credential = Reference(e.grant.credential)
CommitsAreLogged == \A e \in executed : ~e.dryRun => Logged(e, audit)
LogIsCommitted ==
    \A ev \in audit : ev.body.event = "invoked" =>
        \E e \in executed : ~e.dryRun /\ e.grant.id = ev.body.grant
SignaturesTell ==
    \A ev \in audit : VerifyDocument(ev, "gateway") <=> ev.body.chain = <<>>
TrailInv == CommitsAreLogged /\ LogIsCommitted /\ SignaturesTell

(* The three parts are the property.                                       *)
LEMMA TrailInvIsTrail == TrailInv <=> TrailExplains
BY DEF TrailInv, CommitsAreLogged, LogIsCommitted, SignaturesTell, TrailExplains,
       Logged, Committed

(* The trail of a fan-out and its commits account for each other in every  *)
(* state, and its signatures verify for exactly the events without a       *)
(* chain (run_demo: audit).                                                *)
THEOREM TrailAlwaysExplains == Spec => []TrailExplains
<1>1. Init => TrailInv
  BY DEF Init, TrailInv, CommitsAreLogged, LogIsCommitted, SignaturesTell
<1>2. TrailInv /\ [Next]_vars => TrailInv'
  <2> SUFFICES ASSUME TrailInv, [Next]_vars PROVE TrailInv'
    OBVIOUS
  <2> USE DEF TrailInv, CommitsAreLogged, LogIsCommitted, SignaturesTell, Logged
  <2>1. ASSUME NEW a, DryRun(a) PROVE TrailInv'
    <3> DEFINE i == FirstOf(WriteSteps \ diffs)
               e == Call(i, GrantFor(plan[i], a), TRUE)
    <3>1. executed' = executed \union {e} /\ audit' = audit
      BY <2>1 DEF DryRun
    <3>2. e.dryRun = TRUE
      BY DEF Call
    <3> QED
      BY <3>1, <3>2
  <2>2. ASSUME NEW a, ApplyWrite(a) PROVE TrailInv'
    <3> DEFINE i == FirstOf(WriteSteps \ handled)
               g == GrantFor(plan[i], a)
               e == Call(i, g, FALSE)
               ev == FanoutEvent(g)
    <3>1. CASE Cleared(plan[i], g) /\ Accepts(g, plan[i].provider, plan[i].args)
      <4>1. executed' = executed \union {e} /\ audit' = audit \union {ev}
        BY <2>2, <3>1 DEF ApplyWrite
      <4>2. e.grant = g /\ e.provider = plan[i].provider /\ e.dryRun = FALSE
        BY DEF Call
      <4>3. /\ ev.body.event = "invoked" /\ ev.body.grant = g.id
            /\ ev.body.chain = BuildDelegationChain(plan[i].provider)
            /\ ev.body.credential = Reference(g.credential)
            /\ ev.body.chain # <<>> /\ ~VerifyDocument(ev, "gateway")
        BY FanoutEventTells
      <4> HIDE DEF i, g, e, ev
      <4>4. CommitsAreLogged'
        BY <4>1, <4>2, <4>3
      <4>5. LogIsCommitted'
        BY <4>1, <4>2, <4>3
      <4>6. SignaturesTell'
        BY <4>1, <4>3
      <4> QED
        BY <4>4, <4>5, <4>6
    <3>2. CASE ~(Cleared(plan[i], g) /\ Accepts(g, plan[i].provider, plan[i].args))
      BY <2>2, <3>2 DEF ApplyWrite
    <3> QED
      BY <3>1, <3>2
  <2>3. ASSUME BlockFlow PROVE TrailInv'
    <3>1. executed' = executed /\ audit' = audit \union {DeniedEvent}
      BY <2>3 DEF BlockFlow
    <3> QED
      BY <3>1, DeniedEventTells
  <2>4. ASSUME UNCHANGED <<executed, audit>> PROVE TrailInv'
    BY <2>4
  <2> QED
    BY <2>1, <2>2, <2>3, <2>4 DEF Next, RunReads, Approve, SubDelegate, vars
<1> QED
  BY <1>1, <1>2, TrailInvIsTrail, PTL DEF Spec

-------------------------------------------------------------------------------
(* Where the run is: the apply phase begins when every write is in the     *)
(* diff and the plan is approved; what was committed was handled; and as   *)
(* long as the run is ok, what was handled was committed, once.            *)
CommittedOf(i, calls) == {e \in calls : ~e.dryRun /\ e.step = i}
Phases ==
    /\ plan \in Seq(Steps)
    /\ handled \subseteq WriteSteps
    /\ pc \in {"apply", "done"} => diffs = WriteSteps /\ approval = ApprovalOf(plan)
    /\ pc = "done" => handled = WriteSteps
CommittedWasHandled == \A e \in executed : ~e.dryRun => e.step \in handled
HandledWasCommitted == ok => \A i \in handled : \E c : CommittedOf(i, executed) = {c}
SuccessInv == Phases /\ CommittedWasHandled /\ HandledWasCommitted

(* When a run reports success, each of its writes was in the diff, was     *)
(* approved with the plan, and was committed exactly once, for every plan  *)
(* and every broker (run_demo: its return value).                          *)
THEOREM SuccessMeansComplete == Spec => []SuccessIsComplete
<1>1. Init => SuccessInv
  BY DelegationAssumption DEF Init, SuccessInv, Phases, CommittedWasHandled,
     HandledWasCommitted
<1>2. SuccessInv /\ [Next]_vars => SuccessInv'
  <2> SUFFICES ASSUME SuccessInv, [Next]_vars PROVE SuccessInv'
    OBVIOUS
  <2> USE DEF SuccessInv, Phases, CommittedWasHandled, HandledWasCommitted,
              CommittedOf, WriteSteps
  <2>1. ASSUME NEW a, DryRun(a) PROVE SuccessInv'
    <3> DEFINE i == FirstOf(WriteSteps \ diffs)
               e == Call(i, GrantFor(plan[i], a), TRUE)
    <3>1. /\ executed' = executed \union {e} /\ pc = "diff"
          /\ UNCHANGED <<plan, pc, handled, approval, ok>>
      BY <2>1 DEF DryRun
    <3>2. e.dryRun = TRUE
      BY DEF Call
    <3> HIDE DEF i, e
    <3>3. CommittedWasHandled'
      BY <3>1, <3>2
    <3>4. HandledWasCommitted'
      <4>1. \A j : CommittedOf(j, executed') = CommittedOf(j, executed)
        BY <3>1, <3>2
      <4> HIDE DEF CommittedOf
      <4> QED
        BY <3>1, <4>1
    <3> QED
      BY <3>1, <3>3, <3>4
  <2>2. ASSUME NEW a, ApplyWrite(a) PROVE SuccessInv'
    <3> DEFINE i == FirstOf(WriteSteps \ handled)
               g == GrantFor(plan[i], a)
               e == Call(i, g, FALSE)
    <3>1. i \in WriteSteps \ handled
      BY <2>2, NextWrite DEF ApplyWrite
    <3>2. /\ pc = "apply" /\ handled' = handled \union {i}
          /\ UNCHANGED <<plan, pc, diffs, approval>>
      BY <2>2 DEF ApplyWrite
    <3>3. Phases'
      BY <3>1, <3>2
    <3>4. CASE Cleared(plan[i], g) /\ Accepts(g, plan[i].provider, plan[i].args)
      <4>1. executed' = executed \union {e} /\ ok' = ok
        BY <2>2, <3>4 DEF ApplyWrite
      <4>2. e.step = i /\ e.dryRun = FALSE
        BY DEF Call
      <4> HIDE DEF i, e
      <4>3. CommittedWasHandled'
        BY <3>2, <4>1, <4>2
      <4>4. CommittedOf(i, executed') = {e}
        BY <3>1, <4>1, <4>2
      <4>5. \A j \in handled : CommittedOf(j, executed') = CommittedOf(j, executed)
        BY <3>1, <4>1, <4>2
      <4>6. HandledWasCommitted'
        <5> HIDE DEF CommittedOf
        <5> SUFFICES ASSUME ok', NEW j \in handled' PROVE \E c : CommittedOf(j, executed') = {c}
          OBVIOUS
        <5>1. CASE j = i
          BY <5>1, <4>4
        <5>2. CASE j \in handled
          BY <5>2, <4>1, <4>5
        <5> QED
          BY <3>2, <5>1, <5>2
      <4> QED
        BY <3>3, <4>3, <4>6
    <3>5. CASE ~(Cleared(plan[i], g) /\ Accepts(g, plan[i].provider, plan[i].args))
      <4>1. UNCHANGED executed /\ ok' = FALSE
        BY <2>2, <3>5 DEF ApplyWrite, Refused
      <4> QED
        BY <3>2, <3>3, <4>1
    <3> QED
      BY <3>4, <3>5
  <2>3. ASSUME Approve PROVE SuccessInv'
    BY <2>3 DEF Approve
  <2>4. ASSUME BlockFlow \/ RunReads PROVE SuccessInv'
    BY <2>4 DEF BlockFlow, RunReads
  <2>5. ASSUME UNCHANGED <<plan, pc, diffs, handled, approval, executed, ok>>
        PROVE  SuccessInv'
    BY <2>5
  <2> QED
    BY <2>1, <2>2, <2>3, <2>4, <2>5 DEF Next, SubDelegate, vars
<1>3. SuccessInv => SuccessIsComplete
  <2> SUFFICES ASSUME SuccessInv, pc = "done", ok, NEW i \in WriteSteps
               PROVE  /\ i \in diffs /\ approval = ApprovalOf(plan)
                      /\ Cardinality({e \in Committed : e.step = i}) = 1
    BY DEF SuccessIsComplete
  <2>1. i \in diffs /\ i \in handled /\ approval = ApprovalOf(plan)
    BY DEF SuccessInv, Phases
  <2>2. PICK c : CommittedOf(i, executed) = {c}
    BY <2>1 DEF SuccessInv, HandledWasCommitted
  <2>3. {e \in Committed : e.step = i} = {c}
    BY <2>2 DEF CommittedOf, Committed
  <2> QED
    BY <2>1, <2>3, FS_Singleton
<1> QED
  BY <1>1, <1>2, <1>3, PTL DEF Spec
===============================================================================
