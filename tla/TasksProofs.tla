----------------------------- MODULE TasksProofs -----------------------------
(***************************************************************************)
(* Proofs about Tasks, for every set of ids, grants and subjects, and      *)
(* however often the callers create an id again.                           *)
(*                                                                         *)
(* A verdict depends on the handle a store holds now; an acknowledgement   *)
(* is of the past.  The invariant ties the two: the handle that was        *)
(* cancelled is still there and still marked, in TypeScript by its grant.  *)
(* That the four agree needs the four stores compared: AgreeInv.           *)
(***************************************************************************)
EXTENDS Tasks, TLAPS

Typed ==
    /\ tasks \in [Impls -> [Ids -> Task \union {NoTask}]]
    /\ acks \subseteq Ack
AckedExist == \A a \in acks : Exists(a.impl, a.id)
AckedRevoked ==
    \A a \in acks : a.impl = "typescript" =>
        /\ a.grant \in revokedGrants
        /\ tasks[a.impl][a.id].grant = a.grant
AckedCancelled ==
    \A a \in acks : a.impl # "typescript" /\ UniqueHandle(a.impl, a.id) =>
        tasks[a.impl][a.id].cancelled = TRUE
CancelInv == Typed /\ AckedExist /\ AckedRevoked /\ AckedCancelled

-------------------------------------------------------------------------------
(* An operation is allowed on a handle that exists, and an invoke only on  *)
(* one that is not cancelled or, in TypeScript, not of a revoked grant.    *)
LEMMA AllowedMeans ==
    ASSUME NEW i \in Impls, NEW id, NEW s, NEW op, Allows(i, op, id, s)
    PROVE  /\ Exists(i, id)
           /\ op = "invoke" /\ i = "typescript" =>
                tasks[i][id].grant \notin revokedGrants
           /\ op = "invoke" /\ i # "typescript" => tasks[i][id].cancelled # TRUE
<1> DEFINE t == tasks[i][id]
<1>1. Exists(i, id)
  BY DEF Allows, Verdict
<1>2. CASE i = "python"
  <2>1. PythonVerdict(t, op, s) = "OK"
    BY <1>1, <1>2 DEF Allows, Verdict
  <2> QED
    BY <1>1, <1>2, <2>1 DEF PythonVerdict
<1>3. CASE i = "typescript"
  <2>1. TypeScriptVerdict(t, op, s) = "OK"
    BY <1>1, <1>3 DEF Allows, Verdict
  <2> QED
    BY <1>1, <1>3, <2>1 DEF TypeScriptVerdict, IsGrantRevoked
<1>4. CASE i = "go"
  <2>1. GoVerdict(t, op, s) = "OK"
    BY <1>1, <1>4 DEF Allows, Verdict
  <2> QED
    BY <1>1, <1>4, <2>1 DEF GoVerdict, EffectBearing
<1>5. CASE i = "rust"
  <2>1. RustVerdict(t, op, s) = "OK"
    BY <1>1, <1>5 DEF Allows, Verdict
  <2> QED
    BY <1>1, <1>5, <2>1 DEF RustVerdict
<1> QED
  BY <1>2, <1>3, <1>4, <1>5 DEF Impls

(* What a create leaves in the stores.                                     *)
LEMMA CreateStores ==
    ASSUME Typed, NEW id \in Ids, NEW g \in Grants, NEW s \in Subjects,
           NEW e \in Nat, Create(id, g, s, e)
    PROVE  /\ Typed'
           /\ \A i \in Impls, x \in Ids :
                tasks'[i][x] = IF Stores(i, id, e) /\ x = id
                               THEN NewTask(g, s, e) ELSE tasks[i][x]
<1>1. NewTask(g, s, e) \in Task
  BY DEF NewTask, Task
<1>2. /\ acks' = acks
      /\ tasks' = [i \in Impls |->
            IF Stores(i, id, e)
            THEN [tasks[i] EXCEPT ![id] = NewTask(g, s, e)] ELSE tasks[i]]
  BY DEF Create
<1> HIDE DEF Create
<1>3. ASSUME NEW i \in Impls
      PROVE  /\ tasks'[i] \in [Ids -> Task \union {NoTask}]
             /\ \A x \in Ids : tasks'[i][x] = IF Stores(i, id, e) /\ x = id
                                THEN NewTask(g, s, e) ELSE tasks[i][x]
  BY <1>1, <1>2, <1>3 DEF Typed
<1>4. tasks' \in [Impls -> [Ids -> Task \union {NoTask}]]
  BY <1>2, <1>3
<1> QED
  BY <1>2, <1>3, <1>4 DEF Typed

(* What a cancel leaves in the stores.                                     *)
LEMMA CancelStores ==
    ASSUME Typed, NEW id \in Ids, NEW s \in Subjects, Cancel(id, s)
    PROVE  /\ Typed'
           /\ \A i \in Impls, x \in Ids :
                tasks'[i][x] = IF Allows(i, "cancel", id, s) /\ x = id
                               THEN MarkCancelled(tasks[i][x]) ELSE tasks[i][x]
           /\ \A i \in Impls : Allows(i, "cancel", id, s) => tasks[i][id] \in Task
<1>1. ASSUME NEW i \in Impls, Allows(i, "cancel", id, s)
      PROVE  tasks[i][id] \in Task /\ MarkCancelled(tasks[i][id]) \in Task
  <2>1. tasks[i][id] \in Task
    BY <1>1, AllowedMeans DEF Typed, Exists
  <2> QED
    BY <2>1 DEF MarkCancelled, Task
<1>2. tasks' = [i \in Impls |->
            IF Allows(i, "cancel", id, s)
            THEN [tasks[i] EXCEPT ![id] = MarkCancelled(@)] ELSE tasks[i]]
  BY DEF Cancel
<1>3. ASSUME NEW i \in Impls
      PROVE  /\ tasks'[i] \in [Ids -> Task \union {NoTask}]
             /\ \A x \in Ids : tasks'[i][x] =
                    IF Allows(i, "cancel", id, s) /\ x = id
                    THEN MarkCancelled(tasks[i][x]) ELSE tasks[i][x]
  BY <1>1, <1>2, <1>3 DEF Typed
<1>4. tasks' \in [Impls -> [Ids -> Task \union {NoTask}]]
  BY <1>2, <1>3
<1>5. acks' \subseteq Ack
  <2>1. \A i \in Impls : Allows(i, "cancel", id, s) =>
            [impl |-> i, id |-> id, grant |-> tasks[i][id].grant] \in Ack
    BY <1>1 DEF Ack, Task
  <2> QED
    BY <2>1 DEF Cancel, Typed
<1> QED
  BY <1>1, <1>3, <1>4, <1>5 DEF Typed

-------------------------------------------------------------------------------
(* A cancelled handle is never lost: a create does not reach it where      *)
(* handles are unique, and a second cancel marks it again.                 *)
LEMMA CancelInvHolds == Spec => []CancelInv
<1> USE DEF CancelInv
<1>1. Init => CancelInv
  BY DEF Init, Typed, AckedExist, AckedRevoked, AckedCancelled
<1>2. CancelInv /\ [Next]_vars => CancelInv'
  <2> SUFFICES ASSUME CancelInv, [Next]_vars PROVE CancelInv'
    OBVIOUS
  <2>1. \A a \in acks : a.impl \in Impls /\ a.id \in Ids
    BY DEF Typed, Ack
  <2>2. ASSUME NEW id \in Ids, NEW g \in Grants, NEW s \in Subjects, NEW e \in Nat,
               Create(id, g, s, e)
        PROVE  CancelInv'
    <3>1. /\ acks' = acks /\ revokedGrants' = revokedGrants
          /\ \A x : x \in reused => x \in reused'
          /\ (\E i \in Impls : Exists(i, id)) => id \in reused'
      BY <2>2 DEF Create
    <3>2. /\ Typed'
          /\ \A i \in Impls, x \in Ids :
                tasks'[i][x] = IF Stores(i, id, e) /\ x = id
                               THEN NewTask(g, s, e) ELSE tasks[i][x]
      BY <2>2, CreateStores
    <3>3. NewTask(g, s, e) # NoTask
      BY TasksAssumption DEF NewTask, NoTask
    <3>4. AckedExist'
      BY <2>1, <3>1, <3>2, <3>3 DEF AckedExist, Exists
    <3>5. AckedRevoked'
      <4>1. ASSUME NEW a \in acks, a.impl = "typescript"
            PROVE  tasks'[a.impl][a.id] = tasks[a.impl][a.id]
        <5>1. a.id = id => ~Stores(a.impl, id, e)
          BY <4>1 DEF AckedExist, Stores
        <5> QED
          BY <2>1, <3>2, <5>1
      <4> QED
        BY <3>1, <4>1 DEF AckedRevoked
    <3>6. AckedCancelled'
      <4>1. ASSUME NEW a \in acks, a.impl # "typescript", UniqueHandle(a.impl, a.id)'
            PROVE  UniqueHandle(a.impl, a.id) /\ tasks'[a.impl][a.id] = tasks[a.impl][a.id]
        <5>1. UniqueHandle(a.impl, a.id)
          BY <3>1, <4>1 DEF UniqueHandle
        <5>2. a.id = id => a.impl = "go"
          BY <2>1, <3>1, <4>1 DEF AckedExist, UniqueHandle
        <5>3. a.id = id => ~Stores(a.impl, id, e)
          BY <5>2 DEF AckedExist, Stores, StoresGo
        <5> QED
          BY <2>1, <3>2, <5>1, <5>3
      <4> QED
        BY <3>1, <4>1 DEF AckedCancelled
    <3> QED
      BY <3>2, <3>4, <3>5, <3>6
  <2>3. ASSUME NEW id \in Ids, NEW s \in Subjects, Cancel(id, s) PROVE CancelInv'
    <3> DEFINE allowed(i) == Allows(i, "cancel", id, s)
    <3>1. /\ Typed'
          /\ \A i \in Impls, x \in Ids :
                tasks'[i][x] = IF allowed(i) /\ x = id
                               THEN MarkCancelled(tasks[i][x]) ELSE tasks[i][x]
          /\ \A i \in Impls : allowed(i) => tasks[i][id] \in Task
      BY <2>3, CancelStores
    <3>2. /\ reused' = reused
          /\ revokedGrants' = revokedGrants \union RevokedBy(id, s)
          /\ acks' = acks \union
                {[impl |-> i, id |-> id, grant |-> tasks[i][id].grant] :
                    i \in {j \in Impls : allowed(j)}}
      BY <2>3 DEF Cancel
    <3>3. \A t \in Task : /\ MarkCancelled(t) # NoTask
                          /\ MarkCancelled(t).cancelled = TRUE
                          /\ MarkCancelled(t).grant = t.grant
      BY DEF MarkCancelled, Task, NoTask
    <3>4. ASSUME NEW a \in acks'
          PROVE  a \in acks \/ /\ a.impl \in Impls /\ allowed(a.impl) /\ a.id = id
                               /\ a.grant = tasks[a.impl][id].grant
      BY <3>2, <3>4
    <3>5. \A i \in Impls : allowed(i) => Exists(i, id)
      BY AllowedMeans
    <3>6. allowed("typescript") => tasks["typescript"][id].grant \in revokedGrants'
      BY <3>2 DEF RevokedBy
    <3> HIDE DEF allowed
    <3>7. AckedExist'
      BY <2>1, <3>1, <3>3, <3>4, <3>5 DEF AckedExist, Exists
    <3>8. AckedRevoked'
      <4> SUFFICES ASSUME NEW a \in acks', a.impl = "typescript"
                   PROVE  a.grant \in revokedGrants' /\ tasks'[a.impl][a.id].grant = a.grant
        BY DEF AckedRevoked
      <4>1. CASE a \in acks
        BY <2>1, <3>1, <3>2, <3>3, <4>1 DEF AckedRevoked
      <4>2. CASE allowed(a.impl) /\ a.id = id /\ a.grant = tasks[a.impl][id].grant
        BY <3>1, <3>3, <3>6, <4>2 DEF Impls
      <4> QED
        BY <3>4, <4>1, <4>2
    <3>9. AckedCancelled'
      <4> SUFFICES ASSUME NEW a \in acks', a.impl # "typescript",
                          UniqueHandle(a.impl, a.id)'
                   PROVE  tasks'[a.impl][a.id].cancelled = TRUE
        BY DEF AckedCancelled
      <4>1. CASE a \in acks
        <5>1. UniqueHandle(a.impl, a.id)
          BY <3>2 DEF UniqueHandle
        <5>2. tasks[a.impl][a.id].cancelled = TRUE
          BY <4>1, <5>1 DEF AckedCancelled
        <5> QED
          BY <2>1, <3>1, <3>3, <4>1, <5>2
      <4>2. CASE a.impl \in Impls /\ allowed(a.impl) /\ a.id = id
        BY <3>1, <3>3, <4>2
      <4> QED
        BY <3>4, <4>1, <4>2
    <3> QED
      BY <3>1, <3>7, <3>8, <3>9
  <2>4. ASSUME UNCHANGED <<tasks, revokedGrants, acks, reused>> PROVE CancelInv'
    BY <2>4 DEF Typed, AckedExist, AckedRevoked, AckedCancelled, Exists, UniqueHandle
  <2> QED
    <3>1. 0..MaxClock + 1 \subseteq Nat
      BY TasksAssumption
    <3> QED
      BY <2>2, <2>3, <2>4, <3>1 DEF Next, Tick, vars
<1> QED
  BY <1>1, <1>2, PTL DEF Spec

(* Once a cancel was acknowledged no invoke on its handle is ever allowed  *)
(* again, in all four implementations and whoever asks (cancel, invoke).   *)
THEOREM CancelsAreFinal == Spec => []CancelIsFinal
<1>1. CancelInv => CancelIsFinal
  <2> SUFFICES ASSUME CancelInv, NEW a \in acks, UniqueHandle(a.impl, a.id),
                      NEW s \in Subjects, Allows(a.impl, "invoke", a.id, s)
               PROVE  FALSE
    BY DEF CancelIsFinal
  <2>1. a.impl \in Impls
    BY DEF CancelInv, Typed, Ack
  <2>2. /\ a.impl = "typescript" => tasks[a.impl][a.id].grant \notin revokedGrants
        /\ a.impl # "typescript" => tasks[a.impl][a.id].cancelled # TRUE
    BY <2>1, AllowedMeans
  <2>3. CASE a.impl = "typescript"
    BY <2>2, <2>3 DEF CancelInv, AckedRevoked
  <2>4. CASE a.impl # "typescript"
    BY <2>2, <2>4 DEF CancelInv, AckedCancelled
  <2> QED
    BY <2>3, <2>4
<1> QED
  BY <1>1, CancelInvHolds, PTL

(* In TypeScript a cancel reaches every task of its grant, created before  *)
(* or after it (TaskStore.cancel, TaskStore.isGrantRevoked).               *)
THEOREM TypeScriptCancelsGrants == Spec => []TypeScriptRevokesGrant
<1>1. CancelInv => TypeScriptRevokesGrant
  <2> SUFFICES ASSUME CancelInv, NEW a \in acks, a.impl = "typescript",
                      NEW id \in Ids, NEW s \in Subjects,
                      tasks["typescript"][id].grant = a.grant,
                      Allows("typescript", "invoke", id, s)
               PROVE  FALSE
    BY DEF TypeScriptRevokesGrant
  <2> QED
    BY AllowedMeans DEF CancelInv, AckedRevoked, Impls
<1> QED
  BY <1>1, CancelInvHolds, PTL

-------------------------------------------------------------------------------
(* The variables keep their types whatever the four are asked (create,     *)
(* cancel), so that an expiry can be held against the clock.               *)
THEOREM TypesHold == Spec => []TypeOK
<1>1. Init => TypeOK
  BY DEF Init, TypeOK
<1>2. TypeOK /\ [Next]_vars => TypeOK'
  <2> SUFFICES ASSUME TypeOK, [Next]_vars PROVE TypeOK'
    OBVIOUS
  <2>1. Typed
    BY DEF TypeOK, Typed
  <2>2. ASSUME NEW id \in Ids, NEW g \in Grants, NEW s \in Subjects, NEW e \in Nat,
               Create(id, g, s, e)
        PROVE  TypeOK'
    <3>1. Typed'
      BY <2>1, <2>2, CreateStores
    <3> QED
      BY <2>2, <3>1 DEF TypeOK, Typed, Create
  <2>3. ASSUME NEW id \in Ids, NEW s \in Subjects, Cancel(id, s) PROVE TypeOK'
    <3>1. /\ Typed'
          /\ Allows("typescript", "cancel", id, s) => tasks["typescript"][id] \in Task
      BY <2>1, <2>3, CancelStores DEF Impls
    <3>2. RevokedBy(id, s) \subseteq Grants
      BY <3>1 DEF RevokedBy, Task
    <3> QED
      BY <2>3, <3>1, <3>2 DEF TypeOK, Typed, Cancel
  <2>4. ASSUME Tick \/ UNCHANGED vars PROVE TypeOK'
    BY <2>4 DEF Tick, vars, TypeOK
  <2> QED
    <3>1. 0..MaxClock + 1 \subseteq Nat
      BY TasksAssumption
    <3> QED
      BY <2>2, <2>3, <2>4, <3>1 DEF Next
<1> QED
  BY <1>1, <1>2, PTL DEF Spec

(* What an implementation asks of a handle before an invoke, a get or a    *)
(* cancel, in whatever order (evaluate_operation and its three likes).     *)
Live(t, s, now) == s = t.subject /\ ~(now >= t.expires)
Unrevoked(i, t, revoked) ==
    IF i = "typescript" THEN t.grant \notin revoked ELSE ~t.cancelled

LEMMA AllowsExactly ==
    \A i \in Impls : \A id, s :
        /\ Allows(i, "invoke", id, s) <=>
                /\ tasks[i][id] # NoTask
                /\ Live(tasks[i][id], s, clock)
                /\ Unrevoked(i, tasks[i][id], revokedGrants)
        /\ Allows(i, "get", id, s) <=>
                tasks[i][id] # NoTask /\ Live(tasks[i][id], s, clock)
        /\ Allows(i, "cancel", id, s) <=>
                /\ tasks[i][id] # NoTask
                /\ Live(tasks[i][id], s, clock)
                /\ i = "go" => ~tasks[i][id].cancelled
<1> USE DEF Allows, Verdict, Exists, Live, Unrevoked
<1> SUFFICES ASSUME NEW i \in Impls, NEW id, NEW s
    PROVE  /\ Allows(i, "invoke", id, s) <=>
                  /\ tasks[i][id] # NoTask
                  /\ Live(tasks[i][id], s, clock)
                  /\ Unrevoked(i, tasks[i][id], revokedGrants)
           /\ Allows(i, "get", id, s) <=>
                  tasks[i][id] # NoTask /\ Live(tasks[i][id], s, clock)
           /\ Allows(i, "cancel", id, s) <=>
                  /\ tasks[i][id] # NoTask
                  /\ Live(tasks[i][id], s, clock)
                  /\ i = "go" => ~tasks[i][id].cancelled
  OBVIOUS
<1>1. CASE i = "python"
  BY <1>1 DEF PythonVerdict
<1>2. CASE i = "typescript"
  BY <1>2 DEF TypeScriptVerdict, IsGrantRevoked
<1>3. CASE i = "go"
  BY <1>3 DEF GoVerdict, EffectBearing
<1>4. CASE i = "rust"
  BY <1>4 DEF RustVerdict
<1> QED
  BY <1>1, <1>2, <1>3, <1>4 DEF Impls

(* A handle that is left as it was or marked, while the clock and the      *)
(* revoked grants only grow, is not revived (evaluate_operation, invoke).  *)
LEMMA DeniedStaysSo ==
    ASSUME TypeOK, TypeOK', NEW i \in Impls, NEW id \in Ids, NEW s \in Subjects,
           Exists(i, id), ~Allows(i, "invoke", id, s),
           \/ tasks'[i][id] = tasks[i][id]
           \/ tasks'[i][id] = MarkCancelled(tasks[i][id]),
           clock' >= clock, revokedGrants \subseteq revokedGrants'
    PROVE  ~Allows(i, "invoke", id, s)'
<1> DEFINE t == tasks[i][id]
           u == tasks'[i][id]
<1>1. t \in Task
  BY DEF TypeOK, Exists
<1>2. u.grant = t.grant /\ u.subject = t.subject /\ u.expires = t.expires
  BY <1>1 DEF MarkCancelled, Task
<1>3. t.cancelled => u.cancelled
  BY <1>1 DEF MarkCancelled, Task
<1>4. Live(u, s, clock') => Live(t, s, clock)
  BY <1>1, <1>2 DEF Live, TypeOK, Task
<1>5. Unrevoked(i, u, revokedGrants') => Unrevoked(i, t, revokedGrants)
  BY <1>2, <1>3 DEF Unrevoked
<1>6. ~(Live(t, s, clock) /\ Unrevoked(i, t, revokedGrants))
  BY AllowsExactly DEF Exists
<1>7. AllowsExactly'
  BY AllowsExactly, PTL
<1>8. Allows(i, "invoke", id, s)' =>
        Live(u, s, clock') /\ Unrevoked(i, u, revokedGrants')
  BY <1>7
<1> QED
  BY <1>4, <1>5, <1>6, <1>8

(* A handle that may not be invoked never may again, where an id names one *)
(* task for ever: neither time, nor a second cancel, nor another create    *)
(* revives it (create, cancel, invoke of all four).                        *)
THEOREM DenialsAreFinal == Spec => DenialIsFinal
<1>1. TypeOK /\ TypeOK' /\ [Next]_vars =>
        [\A i \in Impls, id \in Ids, s \in Subjects :
            Exists(i, id) /\ ~Allows(i, "invoke", id, s) /\ UniqueHandle(i, id)'
                => ~Allows(i, "invoke", id, s)']_vars
  <2> SUFFICES ASSUME TypeOK, TypeOK', Next,
                      NEW i \in Impls, NEW id \in Ids, NEW s \in Subjects,
                      Exists(i, id), ~Allows(i, "invoke", id, s),
                      UniqueHandle(i, id)'
               PROVE  ~Allows(i, "invoke", id, s)'
    OBVIOUS
  <2>1. Typed
    BY DEF TypeOK, Typed
  <2>2. ASSUME NEW x \in Ids, NEW g \in Grants, NEW o \in Subjects, NEW e \in Nat,
               Create(x, g, o, e)
        PROVE  ~Allows(i, "invoke", id, s)'
    <3>1. clock' = clock /\ revokedGrants' = revokedGrants
      BY <2>2 DEF Create
    <3>2. x = id => i \in {"typescript", "go"}
      BY <2>2 DEF Create, UniqueHandle
    <3>3. x = id => ~Stores(i, x, e)
      BY <3>2 DEF Stores, StoresGo
    <3>4. tasks'[i][id] = tasks[i][id]
      BY <2>1, <2>2, <3>3, CreateStores
    <3> QED
      BY <3>1, <3>4, DeniedStaysSo DEF TypeOK
  <2>3. ASSUME NEW x \in Ids, NEW o \in Subjects, Cancel(x, o)
        PROVE  ~Allows(i, "invoke", id, s)'
    <3>1. clock' = clock /\ revokedGrants \subseteq revokedGrants'
      BY <2>3 DEF Cancel
    <3>2. \/ tasks'[i][id] = tasks[i][id]
          \/ tasks'[i][id] = MarkCancelled(tasks[i][id])
      BY <2>1, <2>3, CancelStores
    <3> QED
      BY <3>1, <3>2, DeniedStaysSo DEF TypeOK
  <2>4. ASSUME Tick PROVE ~Allows(i, "invoke", id, s)'
    BY <2>4, DeniedStaysSo DEF Tick, TypeOK
  <2> QED
    <3>1. 0..MaxClock + 1 \subseteq Nat
      BY TasksAssumption
    <3> QED
      BY <2>2, <2>3, <2>4, <3>1 DEF Next
<1> QED
  BY <1>1, TypesHold, PTL DEF Spec, DenialIsFinal

-------------------------------------------------------------------------------
(* The four stores compared, as long as no id was created twice: Python,   *)
(* TypeScript and Rust hold the same handles, Go those that were not       *)
(* expired when they were created, and what TypeScript revoked is what     *)
(* backs a cancelled task.                                                 *)
SameHandles ==
    \A id \in Ids :
        /\ tasks["typescript"][id] = tasks["python"][id]
        /\ tasks["rust"][id] = tasks["python"][id]
GoHandles ==
    \A id \in Ids :
        \/ tasks["go"][id] = tasks["python"][id]
        \/ tasks["go"][id] = NoTask /\ clock >= tasks["python"][id].expires
RevokedIsCancelled ==
    /\ \A g \in revokedGrants : \E id \in Ids :
            /\ Exists("typescript", id)
            /\ tasks["typescript"][id].grant = g
            /\ tasks["typescript"][id].cancelled = TRUE
    /\ \A id \in Ids : tasks["typescript"][id].cancelled =>
            tasks["typescript"][id].grant \in revokedGrants
AgreeInv ==
    TypeOK /\ (reused = {} => SameHandles /\ GoHandles /\ RevokedIsCancelled)

(* A create reaches the stores together, but for Go when it is too late.   *)
LEMMA CreateKeepsAgreement ==
    ASSUME AgreeInv, TypeOK', NEW id \in Ids, NEW g \in Grants, NEW s \in Subjects,
           NEW e \in Nat, Create(id, g, s, e)
    PROVE  AgreeInv'
<1> SUFFICES ASSUME reused' = {}
             PROVE  SameHandles' /\ GoHandles' /\ RevokedIsCancelled'
  BY DEF AgreeInv
<1>1. /\ reused = {} /\ \A i \in Impls : ~Exists(i, id)
      /\ clock' = clock /\ revokedGrants' = revokedGrants
  BY DEF Create
<1>2. SameHandles /\ GoHandles /\ RevokedIsCancelled
  BY <1>1 DEF AgreeInv
<1>3. \A i \in Impls, x \in Ids :
        tasks'[i][x] = IF Stores(i, id, e) /\ x = id
                       THEN NewTask(g, s, e) ELSE tasks[i][x]
  BY CreateStores DEF AgreeInv, TypeOK, Typed
<1>4. /\ Stores("python", id, e) /\ Stores("rust", id, e) /\ Stores("typescript", id, e)
      /\ Stores("go", id, e) <=> e > clock
  BY <1>1 DEF Stores, StoresGo, Impls
<1>5. NewTask(g, s, e).expires = e /\ NewTask(g, s, e).cancelled = FALSE
  BY DEF NewTask
<1>6. SameHandles'
  BY <1>2, <1>3, <1>4 DEF SameHandles, Impls
<1>7. GoHandles'
  <2> SUFFICES ASSUME NEW x \in Ids
               PROVE  \/ tasks'["go"][x] = tasks'["python"][x]
                      \/ tasks'["go"][x] = NoTask /\ clock >= tasks'["python"][x].expires
    BY <1>1 DEF GoHandles
  <2>1. CASE x # id
    BY <1>2, <1>3, <2>1 DEF GoHandles, Impls
  <2>2. CASE x = id /\ e > clock
    BY <1>3, <1>4, <2>2 DEF Impls
  <2>3. CASE x = id /\ ~(e > clock)
    <3>1. tasks'["go"][x] = NoTask
      BY <1>1, <1>3, <1>4, <2>3 DEF Impls, Exists
    <3>2. tasks'["python"][x].expires = e
      BY <1>3, <1>4, <1>5, <2>3 DEF Impls
    <3> QED
      BY <2>3, <3>1, <3>2 DEF AgreeInv, TypeOK
  <2> QED
    BY <2>1, <2>2, <2>3
<1>8. RevokedIsCancelled'
  BY <1>1, <1>2, <1>3, <1>4, <1>5 DEF RevokedIsCancelled, Exists, Impls
<1> QED
  BY <1>6, <1>7, <1>8

(* A cancel marks the handle in all stores or in none, but for Go when it  *)
(* is marked already.                                                      *)
LEMMA CancelKeepsAgreement ==
    ASSUME AgreeInv, TypeOK', NEW id \in Ids, NEW s \in Subjects, Cancel(id, s)
    PROVE  AgreeInv'
<1> SUFFICES ASSUME reused' = {}
             PROVE  SameHandles' /\ GoHandles' /\ RevokedIsCancelled'
  BY DEF AgreeInv
<1> DEFINE allowed(i) == Allows(i, "cancel", id, s)
<1>1. /\ reused = {} /\ clock' = clock
      /\ revokedGrants' = revokedGrants \union RevokedBy(id, s)
  BY DEF Cancel
<1>2. SameHandles /\ GoHandles /\ RevokedIsCancelled
  BY <1>1 DEF AgreeInv
<1>3. /\ \A i \in Impls, x \in Ids :
            tasks'[i][x] = IF allowed(i) /\ x = id
                           THEN MarkCancelled(tasks[i][x]) ELSE tasks[i][x]
      /\ \A i \in Impls : allowed(i) => tasks[i][id] \in Task
  BY CancelStores DEF AgreeInv, TypeOK, Typed
<1>4. \A i \in Impls : allowed(i) <=>
            /\ tasks[i][id] # NoTask
            /\ Live(tasks[i][id], s, clock)
            /\ i = "go" => ~tasks[i][id].cancelled
  BY AllowsExactly
<1>5. RevokedBy(id, s) = IF allowed("typescript")
                         THEN {tasks["typescript"][id].grant} ELSE {}
  BY DEF RevokedBy
<1> HIDE DEF allowed
<1>6. /\ allowed("typescript") <=> allowed("python")
      /\ allowed("rust") <=> allowed("python")
  BY <1>2, <1>4 DEF SameHandles, Impls
<1>7. \A t \in Task : /\ MarkCancelled(t).cancelled = TRUE
                      /\ MarkCancelled(t).grant = t.grant
                      /\ MarkCancelled(t).expires = t.expires
                      /\ MarkCancelled(t) # NoTask
                      /\ t.cancelled => MarkCancelled(t) = t
  BY TasksAssumption DEF MarkCancelled, Task, NoTask
<1>8. SameHandles'
  BY <1>2, <1>3, <1>6 DEF SameHandles, Impls
<1>9. GoHandles'
  <2> SUFFICES ASSUME NEW x \in Ids
               PROVE  \/ tasks'["go"][x] = tasks'["python"][x]
                      \/ tasks'["go"][x] = NoTask /\ clock >= tasks'["python"][x].expires
    BY <1>1 DEF GoHandles
  <2>1. CASE x # id
    BY <1>2, <1>3, <2>1 DEF GoHandles, Impls
  <2>2. CASE x = id /\ tasks["go"][id] = tasks["python"][id]
    <3>1. CASE allowed("go")
      BY <1>3, <1>4, <2>2, <3>1 DEF Impls
    <3>2. CASE ~allowed("go") /\ ~allowed("python")
      BY <1>3, <2>2, <3>2 DEF Impls
    <3>3. CASE ~allowed("go") /\ allowed("python")
      <4>1. tasks["python"][id].cancelled /\ tasks["python"][id] \in Task
        BY <1>3, <1>4, <2>2, <3>3 DEF Impls
      <4> QED
        BY <1>3, <1>7, <2>2, <3>3, <4>1 DEF Impls
    <3> QED
      BY <3>1, <3>2, <3>3
  <2>3. CASE /\ x = id /\ tasks["go"][id] = NoTask
             /\ clock >= tasks["python"][id].expires
    <3>1. ~allowed("go") /\ ~allowed("python")
      BY <1>4, <2>3 DEF Live, Impls
    <3> QED
      BY <1>3, <2>3, <3>1 DEF Impls
  <2> QED
    BY <1>2, <2>1, <2>2, <2>3 DEF GoHandles
<1>10. RevokedIsCancelled'
  BY <1>1, <1>2, <1>3, <1>5, <1>7 DEF RevokedIsCancelled, Exists, Impls
<1> QED
  BY <1>8, <1>9, <1>10

(* A handle expires for all at once, and the clock only grows.             *)
LEMMA AgreementHolds == Spec => []AgreeInv
<1>1. Init => AgreeInv
  <2> SUFFICES ASSUME Init PROVE AgreeInv
    OBVIOUS
  <2>1. TypeOK
    BY DEF Init, TypeOK
  <2>2. \A i \in Impls, id \in Ids : tasks[i][id] = NoTask /\ NoTask.cancelled = FALSE
    BY DEF Init, NoTask
  <2> QED
    BY <2>1, <2>2 DEF Init, AgreeInv, SameHandles, GoHandles, RevokedIsCancelled, Impls
<1>2. AgreeInv /\ TypeOK' /\ [Next]_vars => AgreeInv'
  <2> SUFFICES ASSUME AgreeInv, TypeOK', [Next]_vars PROVE AgreeInv'
    OBVIOUS
  <2>1. ASSUME Tick PROVE AgreeInv'
    <3>1. /\ clock \in Nat /\ clock' = clock + 1
          /\ UNCHANGED <<tasks, revokedGrants, reused>>
      BY <2>1 DEF Tick, AgreeInv, TypeOK
    <3>2. \A id \in Ids : tasks["python"][id].expires \in Nat
      BY DEF AgreeInv, TypeOK, Task, NoTask, Impls
    <3>3. GoHandles => GoHandles'
      BY <3>1, <3>2 DEF GoHandles
    <3> QED
      BY <3>1, <3>3 DEF AgreeInv, SameHandles, RevokedIsCancelled, Exists
  <2>2. ASSUME UNCHANGED vars PROVE AgreeInv'
    BY <2>2 DEF vars, AgreeInv, SameHandles, GoHandles, RevokedIsCancelled, Exists
  <2> QED
    <3>1. 0..MaxClock + 1 \subseteq Nat
      BY TasksAssumption
    <3> QED
      BY <2>1, <2>2, <3>1, CreateKeepsAgreement, CancelKeepsAgreement DEF Next
<1> QED
  BY <1>1, <1>2, TypesHold, PTL DEF Spec

(* As long as every task has a grant of its own and no id was created      *)
(* twice, the four implementations allow the same reads and the same       *)
(* invokes, although they keep different stores and ask in different       *)
(* orders (evaluate_operation, evaluateTaskOp, EvaluateTask, evaluate).    *)
THEOREM FourAgree == Spec => []EffectsAgree
<1>1. AgreeInv => EffectsAgree
  <2> SUFFICES ASSUME AgreeInv, GrantsUnshared, reused = {},
                      NEW id \in Ids, NEW s \in Subjects
               PROVE  \A i, j \in Impls, op \in {"get", "invoke"} :
                        Allows(i, op, id, s) => Allows(j, op, id, s)
    BY DEF EffectsAgree
  <2> DEFINE t == tasks["python"][id]
             readable == t # NoTask /\ Live(t, s, clock)
  <2>1. /\ tasks["typescript"][id] = t /\ tasks["rust"][id] = t
        /\ \/ tasks["go"][id] = t
           \/ tasks["go"][id] = NoTask /\ ~Live(t, s, clock)
    BY DEF AgreeInv, SameHandles, GoHandles, Live
  <2>2. ASSUME NEW i \in Impls
        PROVE  /\ Allows(i, "get", id, s) <=> readable
               /\ Allows(i, "invoke", id, s) <=> readable /\ ~t.cancelled
    <3>1. /\ Allows(i, "get", id, s) <=>
                tasks[i][id] # NoTask /\ Live(tasks[i][id], s, clock)
          /\ Allows(i, "invoke", id, s) <=>
                /\ tasks[i][id] # NoTask
                /\ Live(tasks[i][id], s, clock)
                /\ Unrevoked(i, tasks[i][id], revokedGrants)
      BY AllowsExactly
    <3>2. CASE i = "typescript"
      <4>1. t # NoTask => (t.grant \notin revokedGrants <=> ~t.cancelled)
        BY <2>1 DEF AgreeInv, RevokedIsCancelled, GrantsUnshared, Exists, Impls
      <4> QED
        BY <2>1, <3>1, <3>2, <4>1 DEF Unrevoked
    <3>3. CASE i # "typescript"
      BY <2>1, <3>1, <3>3 DEF Unrevoked, Impls
    <3> QED
      BY <3>2, <3>3
  <2> QED
    BY <2>2
<1> QED
  BY <1>1, AgreementHolds, PTL
===============================================================================
