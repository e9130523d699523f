---------------------------- MODULE CommandsProofs ----------------------------
(***************************************************************************)
(* Proofs about Commands, for every set of templates, parameters and       *)
(* allowlists and any number of changes after approval.                    *)
(*                                                                         *)
(* What was run is what was approved and checked: ApprovedInv says what an *)
(* approval is worth and RanInv that nothing runs without one; the         *)
(* properties are not inductive without them.  That the check itself is    *)
(* right is a fact about paths of any length: after every component        *)
(* NormalizeParts holds the names that Place keeps (NormalForm).  The      *)
(* induction is over the SET of the prefixes for which that is so          *)
(* (UpwardInduction); it needs that from a kept name on, as many more      *)
(* names were entered than left as are kept (Counted), so that ".." takes  *)
(* back the last one and no other.                                         *)
(***************************************************************************)
EXTENDS Commands, SequenceTheorems, FiniteSetTheorems, WellFoundedInduction, TLAPS

-------------------------------------------------------------------------------
(* Types.                                                                  *)

(* An argv has one element for every token of its template. *)
LEMMA ArgvAligned ==
    ASSUME NEW t \in Templates, NEW ps
    PROVE  /\ DOMAIN ResolveArgv(t, ps) = DOMAIN t
           /\ Len(ResolveArgv(t, ps)) = Len(t)
<1> DEFINE argv == ResolveArgv(t, ps)
           S == {argv[i] : i \in DOMAIN t}
<1>1. t \in Seq(ToSet(t))
  BY CommandsAssumption
<1>2. Len(t) \in Nat /\ DOMAIN t = 1..Len(t)
  BY <1>1, LenProperties
<1>3. argv = [i \in 1..Len(t) |-> argv[i]]
  BY <1>2 DEF ResolveArgv
<1>4. \A i \in 1..Len(t) : argv[i] \in S
  BY <1>2
<1> HIDE DEF argv, S
<1>5. argv \in Seq(S)
  BY <1>2, <1>3, <1>4
<1>6. Len(argv) \in Nat /\ DOMAIN argv = 1..Len(argv)
  BY <1>5, LenProperties
<1>7. DOMAIN argv = 1..Len(t)
  BY <1>3
<1>8. Len(argv) = Len(t)
  <2> DEFINE m == Len(argv)
             n == Len(t)
  <2>1. m \in Nat /\ n \in Nat /\ 1..m = 1..n
    BY <1>2, <1>6, <1>7
  <2> HIDE DEF m, n
  <2>2. m <= n /\ n <= m
    <3>1. m \in 1..m \/ m = 0
      BY <2>1
    <3>2. n \in 1..n \/ n = 0
      BY <2>1
    <3> QED
      BY <2>1, <3>1, <3>2
  <2> QED
    BY <2>1, <2>2 DEF m, n
<1> QED
  BY <1>2, <1>7, <1>8 DEF argv

(* The state stays well typed: whatever is run has one element for every   *)
(* token, needs no shell, and its output authorizes nothing, in all four   *)
(* languages.                                                              *)
THEOREM CommandTypes == Spec => []TypeOK
<1>1. Init => TypeOK
  BY CommandsAssumption DEF Init, TypeOK, None
<1>2. TypeOK /\ [Next]_vars => TypeOK'
  <2> SUFFICES ASSUME TypeOK, [Next]_vars PROVE TypeOK'
    OBVIOUS
  <2>1. CASE Approve
    <3>1. \A l \in Languages : approved'[l].decision \in {"allow", "deny", "error"}
      BY <2>1 DEF Approve, ApprovalFor, Approval
    <3> QED
      BY <2>1, <3>1 DEF Approve, TypeOK
  <2>2. ASSUME NEW ps \in Params, Change(ps) PROVE TypeOK'
    <3>1. /\ changes \in 0..MaxChanges /\ changes < MaxChanges /\ changes' = changes + 1
          /\ params' = ps
          /\ UNCHANGED <<template, roots, approved, ran>>
      BY <2>2 DEF Change, TypeOK
    <3>2. changes' \in 0..MaxChanges
      BY <3>1, CommandsAssumption
    <3> QED
      BY <3>1, <3>2 DEF TypeOK
  <2>3. CASE RunCommand
    <3>1. Len(ResolveArgv(template, params)) = Len(template)
      BY ArgvAligned DEF TypeOK
    <3>2. AuthorityDenied(OutputLabel, TRUE)
      BY DEF AuthorityDenied, OutputLabel, Untrusted
    <3>3. \A l \in Languages : \A r \in ran'[l] :
            \/ r \in ran[l]
            \/ /\ r.argv = ResolveArgv(template, params)
               /\ ~r.shell /\ r.label = OutputLabel
      BY <2>3 DEF RunCommand
    <3>4. \A l \in Languages : \A r \in ran'[l] :
            Len(r.argv) = Len(template) /\ ~r.shell /\ AuthorityDenied(r.label, TRUE)
      BY <3>1, <3>2, <3>3 DEF TypeOK
    <3> QED
      BY <2>3, <3>4 DEF RunCommand, TypeOK
  <2>4. CASE UNCHANGED vars
    BY <2>4 DEF vars, TypeOK
  <2> QED
    BY <2>1, <2>2, <2>3, <2>4 DEF Next
<1> QED
  BY <1>1, <1>2, PTL DEF Spec

-------------------------------------------------------------------------------
(* What an approval is worth.                                              *)

(* An approval is for the argv of its own parameters, and allows exactly   *)
(* what the path check admitted.                                           *)
ApprovedInv ==
    \A l \in Languages : approved[l].decision \in {"allow", "deny"} =>
        LET ps == approved[l].params
        IN /\ ps \in Params /\ Resolvable(l, template, ps)
           /\ approved[l].hash = ResolveArgv(template, ps)
           /\ approved[l].decision = "allow" <=> CheckCommandPaths(l, template, ps, roots)

(* Whatever the planner sent after the approval, what is run is the argv   *)
(* that was approved, element by element, and its paths passed the check   *)
(* (argv_hash, check_command_paths).                                       *)
RunsAsApproved ==
    \A l \in Languages : \A r \in ran[l] :
        LET ps == approved[l].params
        IN /\ r.argv = ResolveArgv(template, ps)
           /\ Resolvable(l, template, ps)
           /\ CheckCommandPaths(l, template, ps, roots)

(* While nothing is approved nothing was run.                              *)
RanInv ==
    \A l \in Languages : ran[l] # {} => approved[l].decision = "allow"

CommandInv == TypeOK /\ ApprovedInv /\ RunsAsApproved /\ RanInv

(* The inductive invariant. *)
LEMMA CommandInvariant == Spec => []CommandInv
<1>1. Init => CommandInv
  <2> SUFFICES ASSUME Init PROVE ApprovedInv /\ RunsAsApproved /\ RanInv /\ TypeOK
    BY DEF CommandInv
  <2>1. \A l \in Languages : approved[l].decision = "none" /\ ran[l] = {}
    BY DEF Init, None
  <2>2. TypeOK
    BY <2>1, CommandsAssumption DEF Init, TypeOK
  <2> QED
    BY <2>1, <2>2 DEF ApprovedInv, RunsAsApproved, RanInv
<1>2. CommandInv /\ TypeOK' /\ [Next]_vars => CommandInv'
  <2> SUFFICES ASSUME CommandInv, TypeOK', [Next]_vars
               PROVE  ApprovedInv' /\ RunsAsApproved' /\ RanInv'
    BY DEF CommandInv
  <2>0. ApprovedInv /\ RunsAsApproved /\ RanInv
    BY DEF CommandInv
  <2>1. CASE Approve
    <3>1. /\ \A l \in Languages : approved[l] = None
          /\ approved' = [l \in Languages |-> ApprovalFor(l)]
          /\ UNCHANGED <<template, roots, params, ran>>
      BY <2>1 DEF Approve
    <3>2. \A l \in Languages : ran[l] = {}
      BY <2>0, <3>1 DEF RanInv, None
    <3>3. ApprovedInv'
      <4> SUFFICES ASSUME NEW l \in Languages, approved'[l].decision \in {"allow", "deny"}
                   PROVE  /\ approved'[l].params \in Params
                          /\ Resolvable(l, template, approved'[l].params)
                          /\ approved'[l].hash = ResolveArgv(template, approved'[l].params)
                          /\ approved'[l].decision = "allow"
                               <=> CheckCommandPaths(l, template, approved'[l].params, roots)
        BY <3>1 DEF ApprovedInv
      <4>1. approved'[l] = ApprovalFor(l)
        BY <3>1
      <4>2. Resolvable(l, template, params)
        BY <4>1 DEF ApprovalFor, Approval
      <4>3. params \in Params
        BY DEF CommandInv, TypeOK
      <4> QED
        BY <4>1, <4>2, <4>3 DEF ApprovalFor, Approval, ArgvHash
    <3> QED
      BY <3>1, <3>2, <3>3 DEF RunsAsApproved, RanInv
  <2>2. ASSUME NEW ps \in Params, Change(ps)
        PROVE  ApprovedInv' /\ RunsAsApproved' /\ RanInv'
    BY <2>0, <2>2 DEF Change, ApprovedInv, RunsAsApproved, RanInv
  <2>3. CASE RunCommand
    <3>1. UNCHANGED <<template, roots, approved>>
      BY <2>3 DEF RunCommand
    <3>2. \A l \in Languages : \A r \in ran'[l] :
            \/ r \in ran[l]
            \/ Executes(l) /\ r.argv = ResolveArgv(template, params)
      BY <2>3 DEF RunCommand
    <3>3. \A l \in Languages : Executes(l) =>
            /\ approved[l].decision = "allow"
            /\ ResolveArgv(template, params) = approved[l].hash
      BY DEF Executes, ArgvHash
    <3>4. ApprovedInv'
      BY <2>0, <3>1 DEF ApprovedInv
    <3>5. RunsAsApproved'
      BY <2>0, <3>1, <3>2, <3>3 DEF RunsAsApproved, ApprovedInv
    <3>6. RanInv'
      <4>1. \A l \in Languages : ran'[l] # {} => ran[l] # {} \/ Executes(l)
        BY <3>2
      <4> QED
        BY <2>0, <3>1, <3>3, <4>1 DEF RanInv
    <3> QED
      BY <3>4, <3>5, <3>6
  <2>4. CASE UNCHANGED vars
    BY <2>0, <2>4 DEF vars, ApprovedInv, RunsAsApproved, RanInv
  <2> QED
    BY <2>1, <2>2, <2>3, <2>4 DEF Next
<1> QED
  BY <1>1, <1>2, CommandTypes, PTL DEF Spec

(* What is run is what was approved and checked, for any parameters sent   *)
(* in between.                                                             *)
THEOREM ApprovedArgvRuns == Spec => []RunsAsApproved
<1>1. CommandInv => RunsAsApproved
  BY DEF CommandInv
<1> QED
  BY <1>1, CommandInvariant, PTL

-------------------------------------------------------------------------------
(* The two ways of asking Python.                                          *)

(* The values of path holes are elements of the argv, and a string in a    *)
(* path hole is one of those values.                                       *)
LEMMA ValuesAreArguments ==
    ASSUME NEW t, NEW ps, Resolvable("python", t, ps)
    PROVE  /\ \A p \in PathValues(t, ps) :
                \E i \in DOMAIN t : ResolveArgv(t, ps)[i] = p
           /\ \A i \in DOMAIN t : \A n \in DOMAIN ps :
                t[i] = Hole(n, TRUE) /\ ps[n].string
                    => ResolveArgv(t, ps)[i] \in PathValues(t, ps)
<1>1. \A n \in DOMAIN ps : \A i \in DOMAIN t :
        t[i] = Hole(n, TRUE) => ResolveArgv(t, ps)[i] = ps[n].text
  BY DEF ResolveArgv, IsParamHole, Hole
<1>2. \A p \in PathValues(t, ps) :
        \E n \in DOMAIN ps : p = ps[n].text /\ \E i \in DOMAIN t : t[i] = Hole(n, TRUE)
  BY DEF PathValues, ToSet
<1>3. \A i \in DOMAIN t : \A n \in DOMAIN ps :
        t[i] = Hole(n, TRUE) /\ ps[n].string => ps[n].text \in PathValues(t, ps)
  BY DEF PathValues, ToSet
<1>4. ASSUME NEW p \in PathValues(t, ps)
      PROVE  \E i \in DOMAIN t : ResolveArgv(t, ps)[i] = p
  <2>1. PICK n \in DOMAIN ps : p = ps[n].text /\ \E i \in DOMAIN t : t[i] = Hole(n, TRUE)
    BY <1>2
  <2> QED
    BY <1>1, <2>1
<1>5. ASSUME NEW i \in DOMAIN t, NEW n \in DOMAIN ps,
             t[i] = Hole(n, TRUE), ps[n].string
      PROVE  ResolveArgv(t, ps)[i] \in PathValues(t, ps)
  BY <1>1, <1>3, <1>5
<1> QED
  BY <1>4, <1>5

(* The parameter check and the argv check of Python differ in the two ways *)
(* the property names and in no other, for every template, allowlist and   *)
(* value.                                                                  *)
THEOREM ParametersAgainstArgv == Spec => []ModesDifferAsKnown
<1>1. CommandInv => ModesDifferAsKnown
  <2> SUFFICES ASSUME CommandInv, approved["python"].decision \in {"allow", "deny"}
               PROVE  ModesDifferAsKnown
    BY DEF ModesDifferAsKnown
  <2> DEFINE ps == approved["python"].params
             argv == ResolveArgv(template, ps)
  <2>1. template \in Templates
    BY DEF CommandInv, TypeOK
  <2>2. /\ Resolvable("python", template, ps)
        /\ approved["python"].decision = "allow"
             <=> CheckCommandPaths("python", template, ps, roots)
    BY DEF CommandInv, ApprovedInv, Languages
  <2>3. DOMAIN argv = DOMAIN template
    BY <2>1, ArgvAligned
  <2>4. /\ \A p \in PathValues(template, ps) : \E i \in DOMAIN template : argv[i] = p
        /\ \A i \in DOMAIN template : \A n \in DOMAIN ps :
             template[i] = Hole(n, TRUE) /\ ps[n].string
               => argv[i] \in PathValues(template, ps)
    BY <2>2, ValuesAreArguments
  <2> HIDE DEF ps, argv
  <2>5. ASSUME CheckCommandPaths("python", template, ps, roots),
               ~CheckArgvPaths(argv, roots)
        PROVE  \E i \in DOMAIN argv :
                 /\ ~\E n \in DOMAIN ps : template[i] = Hole(n, TRUE) /\ ps[n].string
                 /\ LooksLikePath(argv[i]) /\ ~Admits("python", argv[i], roots)
    <3>1. PICK i \in DOMAIN argv :
            LooksLikePath(argv[i]) /\ ~Admits("python", argv[i], roots)
      BY <2>5 DEF CheckArgvPaths
    <3> QED
      BY <2>3, <2>4, <2>5, <3>1 DEF CheckCommandPaths
  <2>6. ASSUME ~CheckCommandPaths("python", template, ps, roots),
               CheckArgvPaths(argv, roots)
        PROVE  \E p \in PathValues(template, ps) :
                 ~LooksLikePath(p) /\ ~Admits("python", p, roots)
    <3>1. PICK p \in PathValues(template, ps) : ~Admits("python", p, roots)
      BY <2>6 DEF CheckCommandPaths
    <3> QED
      BY <2>3, <2>4, <2>6, <3>1 DEF CheckArgvPaths
  <2> QED
    BY <2>2, <2>5, <2>6 DEF ModesDifferAsKnown, LooksLikePath, ps, argv
<1> QED
  BY <1>1, CommandInvariant, PTL

-------------------------------------------------------------------------------
(* Where a normalised path leads.                                          *)

(* Induction over 0..n, on the set of the numbers it holds for. *)
LEMMA UpwardInduction ==
    ASSUME NEW n \in Nat, NEW S, 0 \in S, \A i \in 0..n-1 : i \in S => i + 1 \in S
    PROVE  \A i \in 0..n : i \in S
<1> SUFFICES ASSUME (0..n) \ S # {} PROVE FALSE
  OBVIOUS
<1> DEFINE R == OpToRel(<, Nat)
           T == (0..n) \ S
<1>1. IsWellFoundedOn(R, Nat)
  BY NatLessThanWellFounded
<1>2. T \in SUBSET Nat /\ T # {}
  OBVIOUS
<1>3. PICK i \in T : \A j \in T : ~(<<j, i>> \in R)
  <2> HIDE DEF R, T
  <2> QED
    BY <1>1, <1>2, WFMin
<1>4. \A j \in T : ~(j < i)
  BY <1>2, <1>3 DEF OpToRel
<1>5. i # 0 /\ i - 1 \in 0..n-1 /\ i - 1 \notin S
  <2>1. i \in 0..n /\ i \notin S /\ i # 0
    BY <1>3
  <2>2. i - 1 \in 0..n-1 /\ i - 1 + 1 = i
    BY <2>1
  <2> QED
    BY <2>1, <2>2
<1>6. i - 1 \in T /\ i - 1 < i
  BY <1>5
<1> QED
  BY <1>4, <1>6

(* The function NormalizeParts defines exists, component after component. *)
UpTo(parts, abs) ==
    CHOOSE f : f = [i \in 0..Len(parts) |->
                        IF i = 0 THEN <<>> ELSE FollowPart(f[i - 1], parts[i], abs)]

(* It starts with no component and follows one at a time. *)
LEMMA UpToExists ==
    ASSUME NEW parts \in Seq(STRING), NEW abs \in BOOLEAN
    PROVE  LET u == UpTo(parts, abs)
           IN  /\ u[0] = <<>>
               /\ \A i \in 0..Len(parts) - 1 : u[i + 1] = FollowPart(u[i], parts[i + 1], abs)
               /\ NormalizeParts(parts, abs) = u[Len(parts)]
<1> DEFINE n == Len(parts)
           Follows(f, m) == f = [i \in 0..m |->
                        IF i = 0 THEN <<>> ELSE FollowPart(f[i - 1], parts[i], abs)]
           S == {m \in 0..n : \E f : Follows(f, m)}
<1>0. n \in Nat
  BY LenProperties
<1>1. 0 \in S
  <2> DEFINE f == [i \in 0..0 |-> <<>>]
  <2>1. Follows(f, 0)
    OBVIOUS
  <2>2. 0 \in 0..n
    BY <1>0
  <2> QED
    BY <2>1, <2>2, Zenon
<1>2. ASSUME NEW m \in 0..n-1, m \in S PROVE m + 1 \in S
  <2>1. PICK g : Follows(g, m)
    BY <1>2
  <2> DEFINE h == [i \in 0..m + 1 |->
                     IF i = m + 1 THEN FollowPart(g[m], parts[m + 1], abs) ELSE g[i]]
  <2>2. \A i \in 0..m : g[i] = IF i = 0 THEN <<>> ELSE FollowPart(g[i - 1], parts[i], abs)
    BY <2>1, Zenon
  <2>3. m \in Nat /\ m + 1 \in 0..n
    BY <1>0, <1>2
  <2>4. \A i \in 0..m + 1 :
          h[i] = IF i = 0 THEN <<>> ELSE FollowPart(h[i - 1], parts[i], abs)
    <3>1. h[0] = <<>>
      BY <2>2, <2>3
    <3>2. \A i \in 0..m : h[i] = g[i]
      BY <2>3
    <3>3. h[m + 1] = FollowPart(g[m], parts[m + 1], abs)
      BY <2>3
    <3>4. ASSUME NEW i \in 1..m PROVE h[i] = FollowPart(h[i - 1], parts[i], abs)
      <4>1. i \in 0..m /\ i - 1 \in 0..m /\ i # 0
        BY <2>3
      <4> HIDE DEF h
      <4> QED
        BY <4>1, <3>2, <2>2
    <3>5. h[m + 1] = FollowPart(h[m], parts[m + 1], abs)
      <4>1. m \in 0..m
        BY <2>3
      <4> HIDE DEF h
      <4> QED
        BY <4>1, <3>2, <3>3
    <3> HIDE DEF h
    <3> QED
      <4>1. \A i \in 0..m + 1 : i = 0 \/ i \in 1..m \/ (i = m + 1 /\ i # 0 /\ i - 1 = m)
        BY <2>3
      <4>2. \A i \in 1..m : i # 0
        OBVIOUS
      <4> QED
        BY <4>1, <4>2, <3>1, <3>4, <3>5
  <2>5. h = [i \in 0..m + 1 |-> h[i]]
    OBVIOUS
  <2> HIDE DEF h
  <2>6. Follows(h, m + 1)
    BY <2>4, <2>5, Zenon
  <2> QED
    BY <2>3, <2>6
<1>3. n \in S
  <2> HIDE DEF S, n
  <2>1. n \in 0..n
    BY <1>0
  <2> QED
    BY <1>0, <1>1, <1>2, <2>1, UpwardInduction
<1> DEFINE u == UpTo(parts, abs)
<1>4. Follows(u, n)
  BY <1>3, Zenon DEF UpTo
<1>5. NormalizeParts(parts, abs) = u[n]
  BY Zenon DEF NormalizeParts, UpTo
<1>6. u[0] = <<>>
  <2> HIDE DEF u
  <2> QED
    BY <1>0, <1>4
<1>7. ASSUME NEW i \in 0..n - 1 PROVE u[i + 1] = FollowPart(u[i], parts[i + 1], abs)
  <2> DEFINE k == i + 1
  <2>1. k \in 0..n /\ k # 0 /\ k - 1 = i
    BY <1>0
  <2> HIDE DEF u, n, k
  <2>2. u[k] = FollowPart(u[k - 1], parts[k], abs)
    BY <1>4, <2>1, Zenon
  <2> QED
    BY <2>1, <2>2 DEF k
<1> QED
  BY <1>5, <1>6, <1>7

(* The counts of Place, one component further. *)
IsName(s) == s \notin {".", ".."}

(* A component more: a name is entered, a ".." is left. *)
LEMMA CountsGrow ==
    ASSUME NEW parts, NEW k \in Nat, NEW j \in Nat, k <= j + 1
    PROVE  /\ Entered(parts, k, j) \in Nat /\ Left(parts, k, j) \in Nat
           /\ Entered(parts, k, j + 1) = Entered(parts, k, j)
                                           + (IF IsName(parts[j + 1]) THEN 1 ELSE 0)
           /\ Left(parts, k, j + 1) = Left(parts, k, j)
                                           + (IF parts[j + 1] = ".." THEN 1 ELSE 0)
<1> DEFINE E(m) == {x \in k..m : parts[x] \notin {".", ".."}}
           L(m) == {x \in k..m : parts[x] = ".."}
<1>1. IsFiniteSet(k..j)
  BY FS_Interval
<1>2. IsFiniteSet(E(j)) /\ IsFiniteSet(L(j))
  BY <1>1, FS_Subset
<1>3. Cardinality(E(j)) \in Nat /\ Cardinality(L(j)) \in Nat
  BY <1>2, FS_CardinalityType
<1>4. E(j + 1) = IF IsName(parts[j + 1]) THEN E(j) \union {j + 1} ELSE E(j)
  BY DEF IsName
<1>5. L(j + 1) = IF parts[j + 1] = ".." THEN L(j) \union {j + 1} ELSE L(j)
  OBVIOUS
<1>6. j + 1 \notin E(j) /\ j + 1 \notin L(j)
  OBVIOUS
<1> DEFINE e == E(j)
           l == L(j)
<1> HIDE DEF E, L
<1>7. Cardinality(e \union {j + 1}) = Cardinality(e) + 1
  BY <1>2, <1>6, FS_AddElement
<1>8. Cardinality(l \union {j + 1}) = Cardinality(l) + 1
  BY <1>2, <1>6, FS_AddElement
<1>9. /\ Cardinality(E(j + 1)) = Cardinality(e) + (IF IsName(parts[j + 1]) THEN 1 ELSE 0)
      /\ Cardinality(L(j + 1)) = Cardinality(l) + (IF parts[j + 1] = ".." THEN 1 ELSE 0)
  BY <1>3, <1>4, <1>5, <1>7, <1>8
<1> QED
  BY <1>3, <1>9 DEF Entered, Left, E, L

(* What is kept of the first i components, and how many of them from k on. *)
KeptIn(parts, i) ==
    {k \in 1..i : /\ IsName(parts[k])
                  /\ \A j \in k..i : Entered(parts, k, j) > Left(parts, k, j)}
From(K, k) == {x \in K : x >= k}

(* From a kept name on, as many more names were entered than left as are   *)
(* kept.                                                                   *)
Counted(parts, i) ==
    \A k \in KeptIn(parts, i) :
        Entered(parts, k, i) = Left(parts, k, i) + Cardinality(From(KeptIn(parts, i), k))

(* What is kept can be counted. *)
LEMMA KeptFinite ==
    ASSUME NEW parts, NEW i \in Nat
    PROVE  /\ KeptIn(parts, i) \in SUBSET (1..i) /\ IsFiniteSet(KeptIn(parts, i))
           /\ \A K \in SUBSET KeptIn(parts, i) :
                IsFiniteSet(K) /\ Cardinality(K) \in Nat
<1>1. KeptIn(parts, i) \in SUBSET (1..i)
  BY DEF KeptIn
<1>2. IsFiniteSet(1..i)
  BY FS_Interval
<1>3. IsFiniteSet(KeptIn(parts, i))
  BY <1>1, <1>2, FS_Subset
<1>4. ASSUME NEW K \in SUBSET KeptIn(parts, i)
      PROVE  IsFiniteSet(K) /\ Cardinality(K) \in Nat
  <2>1. IsFiniteSet(K)
    BY <1>3, FS_Subset
  <2> QED
    BY <2>1, FS_CardinalityType
<1> QED
  BY <1>1, <1>3, <1>4

(* A set of numbers up to i that is not empty has a largest one. *)
LEMMA LargestElement ==
    ASSUME NEW i \in Nat, NEW K \in SUBSET (1..i), K # {}
    PROVE  \E t \in K : \A k \in K : k <= t
<1> DEFINE S == {m \in 0..i : \/ K \cap (1..m) = {}
                              \/ \E t \in K \cap (1..m) : \A k \in K \cap (1..m) : k <= t}
<1>1. 0 \in S
  OBVIOUS
<1>2. ASSUME NEW m \in 0..i-1, m \in S PROVE m + 1 \in S
  <2>1. m + 1 \in 0..i
    OBVIOUS
  <2>2. CASE m + 1 \in K
    <3>1. m + 1 \in K \cap (1..m + 1) /\ \A k \in K \cap (1..m + 1) : k <= m + 1
      BY <2>2
    <3> QED
      BY <2>1, <3>1
  <2>3. CASE m + 1 \notin K
    <3>1. K \cap (1..m + 1) = K \cap (1..m)
      BY <2>3
    <3> QED
      BY <1>2, <2>1, <3>1
  <2> QED
    BY <2>2, <2>3
<1>3. i \in S
  <2> HIDE DEF S
  <2>1. i \in 0..i
    OBVIOUS
  <2> QED
    BY <1>1, <1>2, <2>1, UpwardInduction
<1>4. K \cap (1..i) = K
  OBVIOUS
<1> QED
  BY <1>3, <1>4

(* The new component is kept if it is a name, an old one if the count of   *)
(* names from it on still exceeds that of "..".                            *)
LEMMA KeptMembers ==
    ASSUME NEW parts, NEW i \in Nat
    PROVE  /\ i + 1 \in KeptIn(parts, i + 1) <=> IsName(parts[i + 1])
           /\ \A k \in 1..i : k \in KeptIn(parts, i + 1)
                <=> /\ k \in KeptIn(parts, i)
                    /\ Entered(parts, k, i + 1) > Left(parts, k, i + 1)
           /\ IsName(parts[i + 1]) =>
                Entered(parts, i + 1, i + 1) = 1 /\ Left(parts, i + 1, i + 1) = 0
<1>1. IsName(parts[i + 1]) =>
        Entered(parts, i + 1, i + 1) = 1 /\ Left(parts, i + 1, i + 1) = 0
  <2>1. (i + 1)..i = {}
    OBVIOUS
  <2>2. Entered(parts, i + 1, i) = 0 /\ Left(parts, i + 1, i) = 0
    BY <2>1, FS_EmptySet DEF Entered, Left
  <2>3. i + 1 \in Nat /\ i + 1 <= i + 1
    OBVIOUS
  <2>4. /\ Entered(parts, i + 1, i + 1) = Entered(parts, i + 1, i)
                                            + (IF IsName(parts[i + 1]) THEN 1 ELSE 0)
        /\ Left(parts, i + 1, i + 1) = Left(parts, i + 1, i)
                                            + (IF parts[i + 1] = ".." THEN 1 ELSE 0)
    BY <2>3, CountsGrow
  <2>5. IsName(parts[i + 1]) => parts[i + 1] # ".."
    BY DEF IsName
  <2> QED
    BY <2>2, <2>4, <2>5
<1>2. i + 1 \in KeptIn(parts, i + 1) <=> IsName(parts[i + 1])
  <2>1. (i + 1)..(i + 1) = {i + 1}
    OBVIOUS
  <2> QED
    BY <1>1, <2>1 DEF KeptIn
<1>3. ASSUME NEW k \in 1..i
      PROVE  k \in KeptIn(parts, i + 1)
                <=> /\ k \in KeptIn(parts, i)
                    /\ Entered(parts, k, i + 1) > Left(parts, k, i + 1)
  <2>1. k..(i + 1) = (k..i) \union {i + 1}
    OBVIOUS
  <2>2. k \in 1..(i + 1)
    OBVIOUS
  <2> QED
    BY <2>1, <2>2 DEF KeptIn
<1> QED
  BY <1>1, <1>2, <1>3

(* One component further: a name is kept, "." changes nothing, and ".."    *)
(* takes the last kept name back.                                          *)
LEMMA KeptStep ==
    ASSUME NEW parts, NEW i \in Nat, Counted(parts, i)
    PROVE  LET K == KeptIn(parts, i)
               s == parts[i + 1]
           IN  /\ Counted(parts, i + 1)
               /\ IsName(s) => KeptIn(parts, i + 1) = K \union {i + 1}
               /\ s = "." => KeptIn(parts, i + 1) = K
               /\ s = ".." /\ K = {} => KeptIn(parts, i + 1) = {}
               /\ s = ".." => \A t \in K :
                    (\A k \in K : k <= t) => KeptIn(parts, i + 1) = K \ {t}
<1> DEFINE K == KeptIn(parts, i)
           L == KeptIn(parts, i + 1)
           s == parts[i + 1]
           E(k) == Entered(parts, k, i)
           D(k) == Left(parts, k, i)
           C(k) == Cardinality(From(K, k))
<1>1. K \in SUBSET (1..i) /\ L \in SUBSET (1..i + 1) /\ IsFiniteSet(K)
  BY KeptFinite
<1>2. \A k \in K : E(k) \in Nat /\ D(k) \in Nat /\ C(k) \in Nat /\ E(k) = D(k) + C(k)
  <2> TAKE k \in K
  <2>1. From(K, k) \in SUBSET K
    BY DEF From
  <2>2. C(k) \in Nat
    BY <2>1, KeptFinite
  <2>3. k \in Nat /\ k <= i + 1
    BY <1>1
  <2>4. E(k) \in Nat /\ D(k) \in Nat
    BY <2>3, CountsGrow
  <2>5. E(k) = D(k) + C(k)
    BY DEF Counted
  <2> QED
    BY <2>2, <2>4, <2>5
<1>3. \A k \in K : IsFiniteSet(From(K, k)) /\ k \in From(K, k)
  <2> TAKE k \in K
  <2>1. From(K, k) \in SUBSET K
    BY DEF From
  <2> QED
    BY <1>1, <2>1, FS_Subset DEF From
<1>4. /\ i + 1 \in L <=> IsName(s)
      /\ \A k \in 1..i : k \in L <=>
            k \in K /\ Entered(parts, k, i + 1) > Left(parts, k, i + 1)
      /\ IsName(s) => Entered(parts, i + 1, i + 1) = 1 /\ Left(parts, i + 1, i + 1) = 0
  BY KeptMembers
<1>5. \A k \in K :
        /\ Entered(parts, k, i + 1) = E(k) + (IF IsName(s) THEN 1 ELSE 0)
        /\ Left(parts, k, i + 1) = D(k) + (IF s = ".." THEN 1 ELSE 0)
  <2> TAKE k \in K
  <2>1. k \in Nat /\ k <= i + 1
    BY <1>1
  <2> QED
    BY <2>1, CountsGrow
<1>6. \A k \in K : C(k) >= 1
  <2> TAKE k \in K
  <2>1. C(k) # 0
    BY <1>3, FS_EmptySet
  <2> QED
    BY <1>2, <2>1
<1>7. IsName(s) <=> s # "." /\ s # ".."
  BY DEF IsName
<1>8. Counted(parts, i + 1) <=> \A k \in L :
        Entered(parts, k, i + 1) = Left(parts, k, i + 1) + Cardinality(From(L, k))
  BY DEF Counted
<1>0. ASSUME NEW M \in SUBSET (1..i + 1), i + 1 \in M <=> i + 1 \in L,
             \A k \in 1..i : k \in M <=> k \in L
      PROVE  L = M
  <2>1. \A k \in 1..i + 1 : k \in 1..i \/ k = i + 1
    OBVIOUS
  <2>2. \A k \in 1..i + 1 : k \in M <=> k \in L
    BY <1>0, <2>1
  <2> QED
    BY <1>1, <2>2
<1>13. K \in SUBSET (1..i + 1) /\ i + 1 \notin K /\ i + 1 \in 1..i + 1
  BY <1>1
<1> HIDE DEF K, L, s, E, D
<1>9. ASSUME IsName(s) PROVE L = K \union {i + 1} /\ Counted(parts, i + 1)
  <2>1. L = K \union {i + 1}
    <3>1. \A k \in K : k \in L
      BY <1>1, <1>2, <1>4, <1>5, <1>6, <1>7, <1>9
    <3> DEFINE M == K \union {i + 1}
    <3>2. M \in SUBSET (1..i + 1) /\ i + 1 \in M /\ i + 1 \in L
      BY <1>4, <1>9, <1>13
    <3>3. \A k \in 1..i : k \in M <=> k \in L
      <4>1. \A k \in 1..i : k # i + 1
        OBVIOUS
      <4> QED
        BY <1>4, <3>1, <4>1
    <3> HIDE DEF M
    <3>4. L = M
      BY <1>0, <3>2, <3>3
    <3> QED
      BY <3>4 DEF M
  <2>2. \A k \in K : From(L, k) = From(K, k) \union {i + 1} /\ i + 1 \notin From(K, k)
    BY <1>1, <2>1 DEF From
  <2>3. \A k \in K : Cardinality(From(L, k)) = C(k) + 1
    BY <1>3, <2>2, FS_AddElement
  <2>4. From(L, i + 1) = {i + 1}
    <3>1. \A k \in K : ~(k >= i + 1)
      BY <1>1
    <3>2. i + 1 >= i + 1
      OBVIOUS
    <3> QED
      BY <2>1, <3>1, <3>2 DEF From
  <2>5. Cardinality(From(L, i + 1)) = 1
    BY <2>4, FS_Singleton
  <2> HIDE DEF C
  <2>6. \A k \in K :
          Entered(parts, k, i + 1) = Left(parts, k, i + 1) + Cardinality(From(L, k))
    BY <1>2, <1>5, <1>7, <1>9, <2>3
  <2>7. Entered(parts, i + 1, i + 1)
          = Left(parts, i + 1, i + 1) + Cardinality(From(L, i + 1))
    BY <1>4, <1>9, <2>5
  <2>8. \A k \in L :
          Entered(parts, k, i + 1) = Left(parts, k, i + 1) + Cardinality(From(L, k))
    BY <2>1, <2>6, <2>7
  <2> QED
    BY <1>8, <2>1, <2>8
<1>10. ASSUME s = "." PROVE L = K /\ Counted(parts, i + 1)
  <2>1. \A k \in K : Entered(parts, k, i + 1) = E(k) /\ Left(parts, k, i + 1) = D(k)
    BY <1>2, <1>5, <1>7, <1>10
  <2>2. \A k \in K : E(k) > D(k)
    BY <1>2, <1>6
  <2>3. L = K
    <3>1. i + 1 \notin L
      BY <1>4, <1>7, <1>10
    <3>2. \A k \in 1..i : k \in K <=> k \in L
      BY <1>4, <2>1, <2>2
    <3> QED
      BY <1>0, <1>13, <3>1, <3>2
  <2> QED
    BY <1>2, <1>8, <2>1, <2>3
<1>11. ASSUME s = ".." PROVE
         /\ K = {} => L = {}
         /\ \A t \in K : (\A k \in K : k <= t) => L = K \ {t}
         /\ Counted(parts, i + 1)
  <2>1. \A k \in K : Entered(parts, k, i + 1) = E(k) /\ Left(parts, k, i + 1) = D(k) + 1
    BY <1>2, <1>5, <1>7, <1>11
  <2>2. \A k \in 1..i + 1 : k \in L <=> k \in K /\ C(k) # 1
    <3>1. \A k \in K : E(k) > D(k) + 1 <=> C(k) # 1
      BY <1>2, <1>6
    <3> QED
      BY <1>1, <1>4, <1>7, <1>11, <2>1, <3>1
  <2>3. K = {} => L = {}
    BY <1>1, <2>2
  <2>4. ASSUME NEW t \in K, \A k \in K : k <= t
        PROVE  L = K \ {t} /\ Counted(parts, i + 1)
    <3>1. From(K, t) = {t}
      <4>1. \A k \in K : k >= t => k = t
        BY <1>1, <2>4
      <4>2. t >= t
        BY <1>1
      <4> QED
        BY <4>1, <4>2 DEF From
    <3>2. C(t) = 1
      BY <3>1, FS_Singleton
    <3>3. \A k \in K : k # t => C(k) # 1
      <4> SUFFICES ASSUME NEW k \in K, k # t, C(k) = 1 PROVE FALSE
        OBVIOUS
      <4>1. {t} \in SUBSET From(K, k) /\ k \in From(K, k) /\ t \in From(K, k)
        BY <1>1, <2>4 DEF From
      <4>2. Cardinality({t}) = 1
        BY FS_Singleton
      <4>3. From(K, k) = {t}
        BY <1>3, <4>1, <4>2, FS_Subset
      <4> QED
        BY <4>1, <4>3
    <3>4. L = K \ {t}
      <4> DEFINE M == K \ {t}
      <4>1. M \in SUBSET (1..i + 1) /\ i + 1 \notin M
        BY <1>13
      <4>2. \A k \in 1..i + 1 : k \in M <=> k \in L
        BY <2>2, <3>2, <3>3
      <4>3. L \in SUBSET (1..i + 1)
        BY <1>1
      <4> HIDE DEF M
      <4>4. L = M
        BY <4>1, <4>2, <4>3
      <4> QED
        BY <4>4 DEF M
    <3>5. \A k \in L : From(L, k) = From(K, k) \ {t} /\ t \in From(K, k)
      BY <1>1, <2>4, <3>4 DEF From
    <3>6. \A k \in L : Cardinality(From(L, k)) = C(k) - 1
      BY <1>3, <3>4, <3>5, FS_RemoveElement
    <3> HIDE DEF C
    <3>7. \A k \in L :
            Entered(parts, k, i + 1) = Left(parts, k, i + 1) + Cardinality(From(L, k))
      <4> TAKE k \in L
      <4>1. k \in K
        BY <3>4
      <4>2. /\ E(k) \in Nat /\ D(k) \in Nat /\ C(k) \in Nat /\ E(k) = D(k) + C(k)
            /\ Entered(parts, k, i + 1) = E(k) /\ Left(parts, k, i + 1) = D(k) + 1
            /\ Cardinality(From(L, k)) = C(k) - 1
        BY <1>2, <2>1, <3>6, <4>1
      <4> QED
        BY <4>2
    <3> QED
      BY <1>8, <3>4, <3>7
  <2>5. Counted(parts, i + 1)
    <3>1. CASE K = {}
      BY <1>8, <2>3, <3>1
    <3>2. CASE K # {}
      BY <1>1, <2>4, <3>2, LargestElement
    <3> QED
      BY <3>1, <3>2
  <2> QED
    BY <2>3, <2>4, <2>5
<1>12. Counted(parts, i + 1)
  BY <1>7, <1>9, <1>10, <1>11
<1> QED
  BY <1>9, <1>10, <1>11, <1>12 DEF K, L, s

(* A place lists what is kept of all components. *)
LEMMA PlaceIsListed ==
    ASSUME NEW parts \in Seq(STRING)
    PROVE  Place(parts) = Listed(parts, KeptIn(parts, Len(parts)))
<1>1. Kept(parts) = KeptIn(parts, Len(parts))
  <2>1. DOMAIN parts = 1..Len(parts)
    BY LenProperties
  <2> QED
    BY <2>1, Zenon DEF Kept, KeptIn, IsName
<1> QED
  BY <1>1 DEF Place

(* A list has one element for every kept component. *)
LEMMA ListedIsSeq ==
    ASSUME NEW parts, NEW K, IsFiniteSet(K)
    PROVE  /\ \E S : Listed(parts, K) \in Seq(S)
           /\ Len(Listed(parts, K)) = Cardinality(K)
<1> DEFINE n == Cardinality(K)
           S == {parts[Nth(K, m)] : m \in 1..n}
           w == Listed(parts, K)
<1>1. n \in Nat
  BY FS_CardinalityType
<1>2. w = [m \in 1..n |-> w[m]] /\ \A m \in 1..n : w[m] \in S
  BY DEF Listed
<1> HIDE DEF n, S, w
<1>3. w \in Seq(S) /\ Len(w) = n
  BY <1>1, <1>2
<1> QED
  BY <1>3 DEF w, n

(* A component after all the listed ones comes last. *)
LEMMA ListedAppend ==
    ASSUME NEW parts, NEW K \in SUBSET Nat, IsFiniteSet(K),
           NEW x \in Nat, \A k \in K : k < x
    PROVE  Listed(parts, K \union {x}) = Append(Listed(parts, K), parts[x])
<1> DEFINE M == K \union {x}
           n == Cardinality(K)
           AtMost(T, i) == {j \in T : j <= i}
<1>1. n \in Nat /\ x \notin K
  BY FS_CardinalityType
<1>2. IsFiniteSet(M) /\ Cardinality(M) = n + 1
  BY <1>1, FS_AddElement
<1>3. \A i \in K : AtMost(M, i) = AtMost(K, i)
  OBVIOUS
<1>4. AtMost(M, x) = M
  <2>1. \A j \in M : j <= x
    OBVIOUS
  <2> QED
    BY <2>1
<1>5. \A i \in K : Cardinality(AtMost(K, i)) \in Nat /\ Cardinality(AtMost(K, i)) <= n
  <2> TAKE i \in K
  <2>1. AtMost(K, i) \in SUBSET K
    OBVIOUS
  <2> HIDE DEF AtMost
  <2>2. IsFiniteSet(AtMost(K, i)) /\ Cardinality(AtMost(K, i)) <= n
    BY <2>1, FS_Subset
  <2> QED
    BY <2>2, FS_CardinalityType
<1>6. Nth(M, n + 1) = x
  <2>1. x \in M /\ Cardinality(AtMost(M, x)) = n + 1
    BY <1>2, <1>4
  <2>2. \A i \in M : Cardinality(AtMost(M, i)) = n + 1 => i = x
    BY <1>1, <1>3, <1>5
  <2> QED
    BY <2>1, <2>2 DEF Nth
<1>7. ASSUME NEW m \in 1..n PROVE Nth(M, m) = Nth(K, m)
  <2>1. n + 1 # m
    BY <1>1
  <2>2. \A i : i \in M /\ Cardinality(AtMost(M, i)) = m
               <=> i \in K /\ Cardinality(AtMost(K, i)) = m
    BY <1>2, <1>3, <1>4, <2>1
  <2> QED
    BY <2>2 DEF Nth
<1> DEFINE w == Listed(parts, K)
           v == Listed(parts, M)
<1>8. PICK S : w \in Seq(S) /\ Len(w) = n
  BY ListedIsSeq
<1>9. PICK T : v \in Seq(T) /\ Len(v) = n + 1
  BY <1>2, ListedIsSeq
<1>10. \A m \in 1..n : v[m] = w[m]
  <2> HIDE DEF n
  <2>1. \A m \in 1..n : m \in 1..n + 1
    BY <1>1
  <2>2. \A m \in 1..n : v[m] = parts[Nth(M, m)]
    BY <1>2, <2>1 DEF Listed
  <2>3. \A m \in 1..n : w[m] = parts[Nth(K, m)]
    BY DEF Listed, n
  <2> QED
    BY <1>7, <2>2, <2>3
<1>11. v[n + 1] = parts[x]
  BY <1>1, <1>2, <1>6 DEF Listed
<1> HIDE DEF w, v, n
<1> DEFINE V == S \union T \union {parts[x]}
<1>12. w \in Seq(V) /\ v \in Seq(V) /\ parts[x] \in V
  BY <1>8, <1>9, SeqMonotonic
<1>13. /\ Append(w, parts[x]) \in Seq(V) /\ Len(Append(w, parts[x])) = n + 1
       /\ \A m \in 1..n : Append(w, parts[x])[m] = w[m]
       /\ Append(w, parts[x])[n + 1] = parts[x]
  BY <1>8, <1>12, AppendProperties
<1>14. \A m \in 1..n + 1 : m \in 1..n \/ m = n + 1
  BY <1>1
<1> HIDE DEF V
<1>15. v = Append(w, parts[x])
  BY <1>9, <1>10, <1>11, <1>12, <1>13, <1>14, SeqEqual
<1> QED
  BY <1>15 DEF v, w

(* Names only: what is left of an absolute path. *)
Names == {s \in STRING : IsName(s)}

(* FollowPart on a path of names. *)
LEMMA FollowNames ==
    ASSUME NEW w \in Seq(Names), NEW s \in STRING, NEW abs \in BOOLEAN
    PROVE  /\ IsName(s) => FollowPart(w, s, abs) = Append(w, s) /\ Append(w, s) \in Seq(Names)
           /\ s = "." => FollowPart(w, s, abs) = w
           /\ s = ".." /\ w = <<>> =>
                FollowPart(w, s, abs) = IF abs THEN <<>> ELSE <<"..">>
<1>1. IsName(s) => FollowPart(w, s, abs) = Append(w, s) /\ Append(w, s) \in Seq(Names)
  <2> SUFFICES ASSUME IsName(s)
               PROVE  FollowPart(w, s, abs) = Append(w, s) /\ Append(w, s) \in Seq(Names)
    OBVIOUS
  <2>1. s \in Names
    BY DEF Names
  <2>2. Append(w, s) \in Seq(Names)
    BY <2>1, AppendProperties
  <2>3. s # "." /\ s # ".."
    BY DEF IsName
  <2> QED
    BY <2>2, <2>3 DEF FollowPart
<1>2. s = "." => FollowPart(w, s, abs) = w
  BY DEF FollowPart
<1>3. s = ".." /\ w = <<>> => FollowPart(w, s, abs) = IF abs THEN <<>> ELSE <<"..">>
  <2>1. Append(<<>>, "..") = <<"..">>
    OBVIOUS
  <2> QED
    BY <2>1 DEF FollowPart
<1> QED
  BY <1>1, <1>2, <1>3

(* ".." takes the last name of a path of names back. *)
LEMMA FollowBack ==
    ASSUME NEW w \in Seq(Names), NEW abs \in BOOLEAN,
           NEW S, NEW v \in Seq(S), NEW e \in Names, w = Append(v, e)
    PROVE  FollowPart(w, "..", abs) = v /\ v \in Seq(Names)
<1> DEFINE V == S \union Names
<1>1. v \in Seq(V) /\ e \in V
  BY SeqMonotonic
<1>2. /\ w # <<>> /\ Len(w) = Len(v) + 1 /\ w[Len(v) + 1] = e /\ Len(v) \in Nat
      /\ \A m \in 1..Len(v) : w[m] = v[m]
  BY <1>1, AppendProperties, LenProperties
<1>3. Front(w) = SubSeq(w, 1, Len(v))
  BY <1>2 DEF Front
<1>4. SubSeq(w, 1, Len(v)) \in Seq(Names) /\ SubSeq(w, 1, Len(v)) = v
  <2>1. Len(v) \in 0..Len(w)
    BY <1>2
  <2> DEFINE f == SubSeq(w, 1, Len(v))
  <2>2. f \in Seq(Names) /\ Len(f) = Len(v) /\ \A m \in 1..Len(v) : f[m] = w[m]
    BY <1>2, <2>1
  <2> HIDE DEF f
  <2>3. f \in Seq(V)
    BY <2>2, SeqMonotonic
  <2>4. f = v
    <3> HIDE DEF V
    <3> QED
      BY <1>1, <1>2, <2>2, <2>3, SeqEqual
  <2> QED
    BY <2>2, <2>4 DEF f
<1>5. Last(w) # ".."
  BY <1>2 DEF Last, Names, IsName
<1> QED
  BY <1>2, <1>3, <1>4, <1>5 DEF FollowPart

(* A relative path that left its root never comes back to it. *)
Text == STRING \union {".."}
Outside(w) == w \in Seq(Text) /\ w # <<>> /\ Head(w) = ".."

(* A ".." with nothing before it leaves the root. *)
LEMMA StartsOutside == Outside(<<"..">>)
<1>1. ASSUME NEW e PROVE <<e>> \in Seq({e}) /\ <<e>> # <<>> /\ Head(<<e>>) = e
  OBVIOUS
<1>2. Seq({".."}) \subseteq Seq(Text)
  BY SeqMonotonic DEF Text
<1> QED
  BY <1>1, <1>2 DEF Outside

(* No further component leads back inside. *)
LEMMA StaysOutside ==
    ASSUME NEW w, Outside(w), NEW s \in STRING
    PROVE  Outside(FollowPart(w, s, FALSE))
<1>0. s \in Text /\ ".." \in Text
  BY DEF Text
<1>1. w \in Seq(Text) /\ w # <<>> /\ Head(w) = ".." /\ w[1] = ".."
  BY DEF Outside
<1>2. Outside(Append(w, s)) /\ Outside(Append(w, ".."))
  BY <1>0, <1>1, HeadTailAppend, AppendProperties DEF Outside
<1>3. Last(w) # ".." => Outside(Front(w))
  <2> SUFFICES ASSUME w[Len(w)] # ".." PROVE Outside(Front(w))
    BY DEF Last
  <2>1. Len(w) \in Nat /\ Len(w) # 0 /\ Len(w) # 1
    BY <1>1
  <2> DEFINE f == SubSeq(w, 1, Len(w) - 1)
  <2>2. f \in Seq(Text) /\ Len(f) = Len(w) - 1 /\ f[1] = w[1]
    BY <1>1, <2>1
  <2> HIDE DEF f
  <2>3. f # <<>> /\ Head(f) = f[1]
    BY <2>1, <2>2
  <2> QED
    BY <1>1, <2>2, <2>3 DEF Outside, Front, f
<1> QED
  BY <1>2, <1>3 DEF FollowPart, Outside

(* What NormalizeParts computes is the place a path leads to.  Relative    *)
(* paths, and Rust's, may start with ".." instead, if they climb above     *)
(* their root on the way.                                                  *)
THEOREM NormalForm ==
    ASSUME NEW parts \in Seq(STRING)
    PROVE  /\ NormalizeParts(parts, TRUE) = Place(parts)
           /\ Place(parts) \in Seq(Names)
           /\ \/ NormalizeParts(parts, FALSE) = Place(parts)
              \/ Outside(NormalizeParts(parts, FALSE)) /\ ClimbsAboveRoot(parts)
<1> DEFINE n == Len(parts)
           u == UpTo(parts, TRUE)
           r == UpTo(parts, FALSE)
           P(i) == Listed(parts, KeptIn(parts, i))
           Climbed(i) == \E k \in 1..i : Left(parts, 1, k) > Entered(parts, 1, k)
           Level(i) == Entered(parts, 1, i)
                         = Left(parts, 1, i) + Cardinality(KeptIn(parts, i))
           Inv(i) == /\ Counted(parts, i) /\ u[i] = P(i) /\ P(i) \in Seq(Names)
                     /\ \/ r[i] = P(i) /\ Level(i)
                        \/ Outside(r[i]) /\ Climbed(i)
           S == {i \in 0..n : Inv(i)}
<1>0. n \in Nat /\ DOMAIN parts = 1..n
  BY LenProperties
<1>1. /\ u[0] = <<>> /\ r[0] = <<>>
      /\ \A i \in 0..n-1 : /\ u[i + 1] = FollowPart(u[i], parts[i + 1], TRUE)
                           /\ r[i + 1] = FollowPart(r[i], parts[i + 1], FALSE)
      /\ NormalizeParts(parts, TRUE) = u[n] /\ NormalizeParts(parts, FALSE) = r[n]
  BY UpToExists
<1>2. 0 \in S
  <2>1. KeptIn(parts, 0) = {} /\ Cardinality(KeptIn(parts, 0)) = 0
    <3>1. 1..0 = {}
      OBVIOUS
    <3> QED
      BY <3>1, FS_EmptySet DEF KeptIn
  <2>2. P(0) = <<>>
    BY <2>1, ListedIsSeq, FS_EmptySet
  <2>3. Level(0)
    <3>1. 1..0 = {}
      OBVIOUS
    <3>2. Entered(parts, 1, 0) = 0 /\ Left(parts, 1, 0) = 0
      BY <3>1, FS_EmptySet DEF Entered, Left
    <3> QED
      BY <2>1, <3>2
  <2>4. Counted(parts, 0)
    BY <2>1 DEF Counted
  <2>5. <<>> \in Seq(Names) /\ 0 \in 0..n
    BY <1>0
  <2> HIDE DEF P, Level
  <2> QED
    BY <1>1, <2>2, <2>3, <2>4, <2>5
<1>3. ASSUME NEW i \in 0..n-1, i \in S PROVE i + 1 \in S
  <2> DEFINE s == parts[i + 1]
             K == KeptIn(parts, i)
             L == KeptIn(parts, i + 1)
             w == P(i)
             v == P(i + 1)
  <2>1. i \in Nat /\ i + 1 \in 0..n /\ i + 1 \in 1..n /\ s \in STRING
    BY <1>0
  <2>2. /\ Counted(parts, i) /\ u[i] = w /\ w \in Seq(Names)
        /\ \/ r[i] = w /\ Level(i)
           \/ Outside(r[i]) /\ Climbed(i)
    BY <1>3
  <2>3. /\ u[i + 1] = FollowPart(u[i], s, TRUE)
        /\ r[i + 1] = FollowPart(r[i], s, FALSE)
    BY <1>1
  <2>4. /\ Counted(parts, i + 1)
        /\ IsName(s) => L = K \union {i + 1}
        /\ s = "." => L = K
        /\ s = ".." /\ K = {} => L = {}
        /\ s = ".." => \A t \in K : (\A k \in K : k <= t) => L = K \ {t}
    BY <2>1, <2>2, KeptStep
  <2>5. /\ K \in SUBSET (1..i) /\ IsFiniteSet(K) /\ Cardinality(K) \in Nat
        /\ IsFiniteSet(L) /\ Cardinality(L) \in Nat
    BY <2>1, KeptFinite
  <2>6. /\ Entered(parts, 1, i) \in Nat /\ Left(parts, 1, i) \in Nat
        /\ Entered(parts, 1, i + 1) = Entered(parts, 1, i) + (IF IsName(s) THEN 1 ELSE 0)
        /\ Left(parts, 1, i + 1) = Left(parts, 1, i) + (IF s = ".." THEN 1 ELSE 0)
    <3>1. 1 \in Nat /\ 1 <= i + 1
      BY <2>1
    <3> QED
      BY <2>1, <3>1, CountsGrow
  <2>7. IsName(s) <=> s # "." /\ s # ".."
    BY DEF IsName
  <2>8. /\ v = FollowPart(w, s, TRUE) /\ v \in Seq(Names)
        /\ \/ v = FollowPart(w, s, FALSE)
              /\ (Level(i) => Level(i + 1))
           \/ /\ FollowPart(w, s, FALSE) = <<"..">>
              /\ Level(i) => Left(parts, 1, i + 1) > Entered(parts, 1, i + 1)
    <3>1. CASE IsName(s)
      <4>1. v = Append(w, s)
        <5>1. K \in SUBSET Nat /\ \A k \in K : k < i + 1
          BY <2>1, <2>5
        <5>2. L = K \union {i + 1} /\ i + 1 \in Nat
          BY <2>1, <2>4, <3>1
        <5> HIDE DEF K, L
        <5> QED
          BY <2>5, <5>1, <5>2, ListedAppend DEF K, L
      <4>2. Level(i) => Level(i + 1)
        <5>1. i + 1 \notin K
          BY <2>1, <2>5
        <5>2. Cardinality(L) = Cardinality(K) + 1
          BY <2>4, <2>5, <3>1, <5>1, FS_AddElement
        <5> HIDE DEF K, L
        <5>3. Level(i) <=> Entered(parts, 1, i) = Left(parts, 1, i) + Cardinality(K)
          BY DEF K
        <5>4. Level(i + 1) <=>
                Entered(parts, 1, i + 1) = Left(parts, 1, i + 1) + Cardinality(L)
          BY DEF L
        <5> HIDE DEF Level
        <5> QED
          BY <2>5, <2>6, <2>7, <3>1, <5>2, <5>3, <5>4
      <4> HIDE DEF P, Level
      <4>3. /\ FollowPart(w, s, TRUE) = Append(w, s)
            /\ FollowPart(w, s, FALSE) = Append(w, s) /\ Append(w, s) \in Seq(Names)
        BY <2>1, <2>2, <3>1, FollowNames
      <4> QED
        BY <4>1, <4>2, <4>3
    <3>2. CASE s = "."
      <4>1. v = w
        BY <2>4, <3>2
      <4>2. Level(i) => Level(i + 1)
        BY <2>4, <2>6, <2>7, <3>2
      <4> HIDE DEF P, Level
      <4>3. FollowPart(w, s, TRUE) = w /\ FollowPart(w, s, FALSE) = w
        BY <2>1, <2>2, <3>2, FollowNames
      <4> QED
        BY <2>2, <4>1, <4>2, <4>3
    <3>3. CASE s = ".." /\ K = {}
      <4>1. w = <<>> /\ v = <<>>
        BY <2>4, <3>3, ListedIsSeq, FS_EmptySet
      <4>2. Level(i) => Left(parts, 1, i + 1) > Entered(parts, 1, i + 1)
        <5>1. Cardinality(K) = 0
          BY <3>3, FS_EmptySet
        <5> QED
          BY <2>6, <2>7, <3>3, <5>1
      <4> HIDE DEF P, Level
      <4>3. FollowPart(w, s, TRUE) = <<>> /\ FollowPart(w, s, FALSE) = <<"..">>
        BY <2>1, <2>2, <3>3, <4>1, FollowNames
      <4> QED
        BY <4>1, <4>2, <4>3, <2>2
    <3>4. CASE s = ".." /\ K # {}
      <4>1. PICK t \in K : \A k \in K : k <= t
        BY <2>1, <2>5, <3>4, LargestElement
      <4>2. L = K \ {t} /\ K = L \union {t}
        BY <2>4, <3>4, <4>1
      <4>3. w = Append(v, parts[t])
        <5>1. L \in SUBSET Nat /\ t \in Nat /\ \A k \in L : k < t
          BY <2>1, <2>5, <4>1, <4>2
        <5> HIDE DEF K, L
        <5> QED
          BY <2>5, <4>2, <5>1, ListedAppend DEF K, L
      <4>4. parts[t] \in Names
        <5>1. IsName(parts[t]) /\ t \in 1..i
          BY <4>1 DEF KeptIn
        <5>2. t \in 1..n
          BY <1>0, <2>1, <5>1
        <5> QED
          BY <5>1, <5>2 DEF Names
      <4>5. PICK T : v \in Seq(T)
        BY <2>5, ListedIsSeq
      <4>6. Level(i) => Level(i + 1)
        <5>1. Cardinality(L) = Cardinality(K) - 1
          BY <2>5, <4>1, <4>2, FS_RemoveElement
        <5> HIDE DEF K, L
        <5>3. Level(i) <=> Entered(parts, 1, i) = Left(parts, 1, i) + Cardinality(K)
          BY DEF K
        <5>4. Level(i + 1) <=>
                Entered(parts, 1, i + 1) = Left(parts, 1, i + 1) + Cardinality(L)
          BY DEF L
        <5> HIDE DEF Level
        <5> QED
          BY <2>5, <2>6, <2>7, <3>4, <5>1, <5>3, <5>4
      <4> HIDE DEF P, Level
      <4>7. FollowPart(w, s, TRUE) = v /\ FollowPart(w, s, FALSE) = v /\ v \in Seq(Names)
        BY <2>2, <3>4, <4>3, <4>4, <4>5, FollowBack
      <4> QED
        BY <4>6, <4>7
    <3> QED
      BY <2>7, <3>1, <3>2, <3>3, <3>4
  <2> HIDE DEF P, Level
  <2>9. u[i + 1] = v /\ v \in Seq(Names)
    BY <2>2, <2>3, <2>8
  <2>10. \/ r[i + 1] = v /\ Level(i + 1)
         \/ Outside(r[i + 1]) /\ Climbed(i + 1)
    <3>1. CASE Outside(r[i]) /\ Climbed(i)
      <4>1. Outside(r[i + 1])
        BY <2>1, <2>3, <3>1, StaysOutside
      <4>2. Climbed(i + 1)
        BY <2>1, <3>1
      <4> QED
        BY <4>1, <4>2
    <3>2. CASE r[i] = w /\ Level(i) /\ v = FollowPart(w, s, FALSE)
                /\ (Level(i) => Level(i + 1))
      BY <2>3, <3>2
    <3>3. CASE r[i] = w /\ Level(i) /\ FollowPart(w, s, FALSE) = <<"..">>
                /\ Left(parts, 1, i + 1) > Entered(parts, 1, i + 1)
      <4>1. Outside(<<"..">>)
        BY StartsOutside
      <4>2. Climbed(i + 1)
        BY <2>1, <3>3
      <4> QED
        BY <2>3, <3>3, <4>1, <4>2
    <3> HIDE DEF Climbed
    <3> QED
      BY <2>2, <2>8, <3>1, <3>2, <3>3
  <2> HIDE DEF Climbed
  <2> QED
    BY <2>1, <2>4, <2>9, <2>10
<1>4. Inv(n)
  <2> HIDE DEF Inv, n
  <2>1. n \in 0..n
    BY <1>0
  <2> HIDE DEF S
  <2>2. n \in S
    BY <1>0, <1>2, <1>3, <2>1, UpwardInduction
  <2> QED
    BY <2>2 DEF S
<1>5. Place(parts) = P(n)
  BY PlaceIsListed
<1>6. Climbed(n) => ClimbsAboveRoot(parts)
  BY <1>0 DEF ClimbsAboveRoot
<1> HIDE DEF P, Level, Climbed
<1> QED
  BY <1>1, <1>4, <1>5, <1>6

-------------------------------------------------------------------------------
(* The four checks, on an absolute path.                                   *)

(* Normalised, an absolute path is the place it leads to. *)
LEMMA AbsoluteNormal ==
    ASSUME NEW p \in Paths, p.abs
    PROVE  /\ p.parts \in Seq(STRING) /\ p.abs = TRUE
           /\ Normalize(p) = Path(TRUE, Place(p.parts))
           /\ Place(p.parts) \in Seq(Names)
           /\ Inside(p.parts, p.parts)
<1>1. p.parts \in Seq(STRING) /\ p.abs = TRUE
  BY DEF Paths
<1>2. NormalizeParts(p.parts, TRUE) = Place(p.parts) /\ Place(p.parts) \in Seq(Names)
  BY <1>1, NormalForm
<1>3. Normalize(p) = Path(TRUE, Place(p.parts))
  BY <1>1, <1>2 DEF Normalize
<1>4. Inside(p.parts, p.parts)
  <2>1. Len(Place(p.parts)) \in Nat
    BY <1>2, LenProperties
  <2> QED
    BY <2>1 DEF Inside, IsPrefix
<1> QED
  BY <1>1, <1>2, <1>3, <1>4

(* The empty list of components leads nowhere else. *)
LEMMA NoParts == Place(<<>>) = <<>>
<1>1. <<>> \in Seq(STRING) /\ Len(<<>>) = 0
  BY EmptySeq
<1> DEFINE z == <<>>
           u == UpTo(z, TRUE)
<1>2. z \in Seq(STRING) /\ Len(z) = 0
  BY <1>1
<1> HIDE DEF z
<1>3. u[0] = <<>> /\ NormalizeParts(z, TRUE) = u[Len(z)]
  BY <1>2, UpToExists
<1>4. Place(z) = NormalizeParts(z, TRUE)
  BY <1>2, NormalForm
<1>5. Place(z) = <<>>
  BY <1>2, <1>3, <1>4
<1> QED
  BY <1>5 DEF z

(* _is_within and pathWithinRoots decide exactly where an absolute path leads. *)
LEMMA PythonIsExact ==
    ASSUME NEW c \in Paths, c.abs, NEW r \in Paths
    PROVE  IsWithin(c, r) <=> r.abs /\ Inside(r.parts, c.parts)
<1>1. Normalize(c) = Path(TRUE, Place(c.parts)) /\ Inside(c.parts, c.parts)
  BY AbsoluteNormal
<1>2. r.abs \in BOOLEAN
  BY DEF Paths
<1>3. CASE r.abs
  <2>1. Normalize(r) = Path(TRUE, Place(r.parts))
    BY <1>3, AbsoluteNormal
  <2>2. Place(c.parts) = Place(r.parts) => Inside(r.parts, c.parts)
    BY <1>1 DEF Inside
  <2> QED
    BY <1>1, <1>3, <2>1, <2>2 DEF IsWithin, Path, Inside
<1>4. CASE ~r.abs
  <2>1. Normalize(r).abs = FALSE /\ Normalize(c).abs = TRUE
    BY <1>1, <1>2, <1>4 DEF Normalize, Path
  <2>2. Normalize(c) # Normalize(r)
    BY <2>1
  <2> QED
    BY <1>4, <2>1, <2>2 DEF IsWithin
<1> QED
  BY <1>3, <1>4

(* isWithin (TypeScript) admits nothing under "/", and is exact elsewhere. *)
LEMMA TypeScriptIsExact ==
    ASSUME NEW c \in Paths, c.abs, NEW r \in Paths
    PROVE  /\ TypeScriptIsWithin(c, r) => r.abs /\ Inside(r.parts, c.parts)
           /\ r.abs /\ Inside(r.parts, c.parts) =>
                TypeScriptIsWithin(c, r) \/ Place(r.parts) = <<>>
<1>1. Normalize(c) = Path(TRUE, Place(c.parts)) /\ Inside(c.parts, c.parts)
  BY AbsoluteNormal
<1>2. r.abs \in BOOLEAN
  BY DEF Paths
<1>3. CASE r.parts = <<>>
  <2>1. ~TypeScriptIsWithin(c, r)
    BY <1>1, <1>3 DEF TypeScriptIsWithin, Path
  <2> QED
    BY <1>3, <2>1, NoParts
<1>4. CASE r.parts # <<>> /\ r.abs
  <2>1. Normalize(r) = Path(TRUE, Place(r.parts))
    BY <1>4, AbsoluteNormal
  <2>2. Place(c.parts) = Place(r.parts) => Inside(r.parts, c.parts)
    BY <1>1 DEF Inside
  <2> QED
    BY <1>1, <1>4, <2>1, <2>2 DEF TypeScriptIsWithin, Path, Inside
<1>5. CASE r.parts # <<>> /\ ~r.abs
  <2>1. Normalize(r).abs = FALSE /\ Normalize(c).abs = TRUE
    BY <1>1, <1>2, <1>5 DEF Normalize, Path
  <2>2. Normalize(c) # Normalize(r)
    BY <2>1
  <2> QED
    BY <1>5, <2>1, <2>2 DEF TypeScriptIsWithin
<1> QED
  BY <1>2, <1>3, <1>4, <1>5

(* check_command_paths (Rust) is exact but for paths that climb above "/", *)
(* which it refuses; whether the root has a slash does not matter to it.   *)
LEMMA RustIsExact ==
    ASSUME NEW c \in Paths, c.abs, NEW r \in Paths
    PROVE  /\ RustIsWithin(c, r) => Inside(r.parts, c.parts)
           /\ Inside(r.parts, c.parts) =>
                \/ RustIsWithin(c, r)
                \/ ClimbsAboveRoot(c.parts) \/ ClimbsAboveRoot(r.parts)
<1> DEFINE x == NormalizeParts(c.parts, FALSE)
           y == NormalizeParts(r.parts, FALSE)
<1>1. /\ c.parts \in Seq(STRING) /\ r.parts \in Seq(STRING)
      /\ Place(c.parts) \in Seq(Names)
  BY AbsoluteNormal DEF Paths
<1>2. /\ x = Place(c.parts) \/ (Outside(x) /\ ClimbsAboveRoot(c.parts))
      /\ y = Place(r.parts) \/ (Outside(y) /\ ClimbsAboveRoot(r.parts))
  BY <1>1, NormalForm
<1>3. RustIsWithin(c, r) <=> (x # <<>> => Head(x) # "..") /\ IsPrefix(y, x)
  BY DEF RustIsWithin, RustNormalize, RustWithin
<1>4. ASSUME NEW w \in Seq(Names), w # <<>> PROVE Head(w) # ".."
  <2>1. Head(w) \in Names
    BY <1>4, HeadTailProperties
  <2> QED
    BY <2>1 DEF Names, IsName
<1> HIDE DEF x, y
<1>5. ASSUME RustIsWithin(c, r) PROVE Inside(r.parts, c.parts)
  <2>1. x = Place(c.parts)
    BY <1>2, <1>3, <1>5 DEF Outside
  <2>2. ~Outside(y)
    <3> SUFFICES ASSUME Outside(y) PROVE FALSE
      OBVIOUS
    <3>1. y \in Seq(Text) /\ Len(y) \in Nat /\ Len(y) >= 1 /\ y[1] = ".."
      BY DEF Outside
    <3>2. x \in Seq(Names) /\ Len(x) \in Nat
      BY <1>1, <2>1
    <3>3. Len(y) <= Len(x) /\ SubSeq(y, 1, Len(y)) = SubSeq(x, 1, Len(y))
      BY <1>3, <1>5 DEF IsPrefix
    <3>4. SubSeq(y, 1, Len(y))[1] = y[1]
      BY <3>1
    <3>5. SubSeq(x, 1, Len(y))[1] = x[1]
      BY <3>1, <3>2, <3>3
    <3>6. x # <<>> /\ Head(x) = x[1]
      BY <3>1, <3>2, <3>3
    <3> QED
      BY <1>4, <3>1, <3>2, <3>3, <3>4, <3>5, <3>6
  <2> QED
    BY <1>2, <1>3, <1>5, <2>1, <2>2 DEF Inside
<1>6. ASSUME Inside(r.parts, c.parts), ~ClimbsAboveRoot(c.parts), ~ClimbsAboveRoot(r.parts)
      PROVE  RustIsWithin(c, r)
  BY <1>1, <1>2, <1>3, <1>4, <1>6 DEF Inside
<1> QED
  BY <1>5, <1>6

(* What any of the four admits leads into a root. *)
LEMMA AdmittedIsInside ==
    ASSUME NEW l \in Languages, NEW c \in Paths, c.abs, NEW rs \in SUBSET Paths,
           Admits(l, c, rs)
    PROVE  \E r \in rs : (l # "rust" => r.abs) /\ Inside(r.parts, c.parts)
<1>1. l \in {"python", "go", "typescript", "rust"}
  BY DEF Languages
<1>2. CASE l = "python"
  BY <1>2, PythonIsExact DEF Admits
<1>3. CASE l = "go"
  BY <1>3, PythonIsExact DEF Admits, CleanRoots
<1>4. CASE l = "typescript"
  BY <1>4, TypeScriptIsExact DEF Admits
<1>5. CASE l = "rust"
  BY <1>5, RustIsExact DEF Admits
<1> QED
  BY <1>1, <1>2, <1>3, <1>4, <1>5

(* What leads into a root all four admit, but for their two exceptions. *)
LEMMA InsideIsAdmitted ==
    ASSUME NEW l \in Languages, NEW c \in Paths, c.abs, NEW rs \in SUBSET Paths,
           \A r \in rs : r.abs,
           NEW r \in rs, Inside(r.parts, c.parts)
    PROVE  \/ Admits(l, c, rs)
           \/ l = "typescript" /\ Place(r.parts) = <<>>
           \/ l = "rust" /\ (ClimbsAboveRoot(c.parts) \/ ClimbsAboveRoot(r.parts))
<1>1. l \in {"python", "go", "typescript", "rust"}
  BY DEF Languages
<1>2. CASE l = "python"
  BY <1>2, PythonIsExact DEF Admits
<1>3. CASE l = "go"
  <2>1. r \in CleanRoots(rs)
    BY DEF CleanRoots, Path
  <2> QED
    BY <1>3, <2>1, PythonIsExact DEF Admits
<1>4. CASE l = "typescript"
  BY <1>4, TypeScriptIsExact DEF Admits
<1>5. CASE l = "rust"
  BY <1>5, RustIsExact DEF Admits
<1> QED
  BY <1>1, <1>2, <1>3, <1>4, <1>5

(* An absolute path that is executed from a path hole leads into a root of *)
(* the allowlist, absolute too but in Rust: in every language, for every   *)
(* template, allowlist and parameter, and however often the planner sent   *)
(* others after the check.                                                 *)
THEOREM SandboxHolds == Spec => []StaysInSandbox
<1>1. CommandInv => StaysInSandbox
  <2> SUFFICES ASSUME CommandInv, NEW l \in Languages, NEW r \in ran[l],
                      NEW i \in DOMAIN template, NEW n \in DOMAIN approved[l].params,
                      template[i] = Hole(n, TRUE),
                      approved[l].params[n].string, r.argv[i].abs
               PROVE  \E root \in roots : /\ l # "rust" => root.abs
                                         /\ Inside(root.parts, r.argv[i].parts)
    BY DEF StaysInSandbox
  <2> DEFINE ps == approved[l].params
  <2>1. /\ r.argv = ResolveArgv(template, ps) /\ Resolvable(l, template, ps)
        /\ CheckCommandPaths(l, template, ps, roots)
    BY DEF CommandInv, RunsAsApproved
  <2>2. approved[l].decision = "allow"
    BY DEF CommandInv, RanInv
  <2>3. ps \in Params
    BY <2>2 DEF CommandInv, ApprovedInv
  <2>4. roots \in SUBSET Paths
    BY CommandsAssumption DEF CommandInv, TypeOK
  <2>5. Resolvable("python", template, ps)
    BY <2>1 DEF Resolvable
  <2> HIDE DEF ps
  <2>6. r.argv[i] \in PathValues(template, ps)
    BY <2>1, <2>5, ValuesAreArguments DEF ps
  <2>7. r.argv[i] \in Paths
    BY <2>3, <2>6, CommandsAssumption DEF PathValues
  <2>8. Admits(l, r.argv[i], roots)
    BY <2>1, <2>6 DEF CheckCommandPaths
  <2> QED
    BY <2>4, <2>7, <2>8, AdmittedIsInside
<1> QED
  BY <1>1, CommandInvariant, PTL

(* All four approve exactly what leads into a root, but for the two        *)
(* exceptions the property names, for every path and every allowlist.      *)
THEOREM VerdictsHold == Spec => []VerdictsAreExact
<1>1. CommandInv => VerdictsAreExact
  <2> SUFFICES ASSUME CommandInv, NEW l \in Languages,
                      approved[l].decision \in {"allow", "deny"}, AbsoluteRoots,
                      \A p \in PathValues(template, approved[l].params) : p.abs
               PROVE
        LET values == PathValues(template, approved[l].params)
            right  == \A p \in values : \E root \in roots : Inside(root.parts, p.parts)
        IN /\ approved[l].decision = "allow" => right
           /\ right => \/ approved[l].decision = "allow"
                       \/ l = "typescript" /\ \E root \in roots : Place(root.parts) = <<>>
                       \/ l = "rust" /\ \E p \in values \union roots : ClimbsAboveRoot(p.parts)
    BY Zenon DEF VerdictsAreExact
  <2> DEFINE ps == approved[l].params
             values == PathValues(template, ps)
  <2>1. /\ ps \in Params
        /\ approved[l].decision = "allow" <=> CheckCommandPaths(l, template, ps, roots)
    BY DEF CommandInv, ApprovedInv
  <2>2. roots \in SUBSET Paths /\ \A r \in roots : r.abs
    BY CommandsAssumption DEF CommandInv, TypeOK, AbsoluteRoots
  <2>3. \A p \in values : p \in Paths /\ p.abs
    BY <2>1, CommandsAssumption DEF PathValues
  <2>4. CheckCommandPaths(l, template, ps, roots) <=> \A p \in values : Admits(l, p, roots)
    BY DEF CheckCommandPaths
  <2> HIDE DEF values
  <2>5. ASSUME NEW p \in values, Admits(l, p, roots)
        PROVE  \E root \in roots : Inside(root.parts, p.parts)
    BY <2>2, <2>3, <2>5, AdmittedIsInside
  <2>6. ASSUME NEW p \in values, NEW root \in roots, Inside(root.parts, p.parts)
        PROVE  \/ Admits(l, p, roots)
               \/ l = "typescript" /\ Place(root.parts) = <<>>
               \/ l = "rust" /\ (ClimbsAboveRoot(p.parts) \/ ClimbsAboveRoot(root.parts))
    BY <2>2, <2>3, <2>6, InsideIsAdmitted
  <2>7. values = PathValues(template, approved[l].params)
    BY DEF values
  <2> HIDE DEF ps
  <2> QED
    BY <2>1, <2>4, <2>5, <2>6, <2>7, Zenon
<1> QED
  BY <1>1, CommandInvariant, PTL
===============================================================================
