--------------------------------- MODULE Tasks ---------------------------------
(***************************************************************************)
(* The task managers of the four implementations (SPEC section 21): a task *)
(* is a handle to work that outlives its request, scoped to a subject,     *)
(* expiring, and running under a grant that cancelling the task revokes.   *)
(*                                                                         *)
(*   python/vcp_gateway/tasks.py         one cancelled flag per task       *)
(*   typescript/packages/gateway task.ts one set of revoked grants         *)
(*   go/gateway/task.go                  one cancelled flag per task, its  *)
(*                                       own order of checks               *)
(*   rust/crates/vcp-gateway task.rs     one cancelled flag per task       *)
(*                                                                         *)
(* The four receive the same requests in lock step, each with its own      *)
(* store, so that what one decides can be compared with the others.        *)
(* tasks/get and invoke only ask for a verdict: they change no state, so   *)
(* they are operators on the state and not actions.                        *)
(***************************************************************************)
EXTENDS Integers, FiniteSets

CONSTANTS
    Ids,        \* task ids
    Grants,     \* grant ids
    Subjects,
    MaxClock,   \* bound: the clock stops here
    MaxReused,  \* bound: ids a caller creates a second time
    None

VARIABLES
    clock,
    tasks,          \* tasks[i][id]: the handle implementation i stores
    revokedGrants,  \* TaskStore.#revokedGrants (TypeScript)
    acks,           \* history: the cancels that were answered "grant revoked"
    reused          \* history: the ids a caller created twice

vars == <<clock, tasks, revokedGrants, acks, reused>>

Impls == {"python", "typescript", "go", "rust"}

ASSUME TasksAssumption ==
    /\ MaxClock \in Nat
    /\ MaxReused \in Nat
    /\ None \notin Grants \union Subjects

(* cancelled stands for status = "cancelled" and, in Python, Go and Rust,  *)
(* the flag that is set with it.                                           *)
Task   == [grant : Grants, subject : Subjects, expires : Nat, cancelled : BOOLEAN]
NoTask == [grant |-> None, subject |-> None, expires |-> 0, cancelled |-> FALSE]
Ack    == [impl : Impls, id : Ids, grant : Grants]

NewTaskEarly(g, s, e) ==  \* mutant: stores the last live instant
    [grant |-> g, subject |-> s, expires |-> e - 1, cancelled |-> FALSE]
NewTask(g, s, e) == [grant |-> g, subject |-> s, expires |-> e, cancelled |-> FALSE]

Init ==
    /\ clock = 0
    /\ tasks = [i \in Impls |-> [id \in Ids |-> NoTask]]
    /\ revokedGrants = {}
    /\ acks = {}
    /\ reused = {}

Exists(i, id) == tasks[i][id] # NoTask

-------------------------------------------------------------------------------
(* Verdicts.                                                               *)

Ops == {"get", "update", "cancel", "invoke"}

(* evaluate_operation: subject, expiry, then (invoke only) revocation.     *)
PythonVerdict(t, op, s) ==
    IF s # t.subject THEN "SUBJECT_MISMATCH"
    ELSE IF clock >= t.expires THEN "TASK_EXPIRED"
    ELSE IF op = "invoke" /\ t.cancelled THEN "GRANT_REVOKED"
    ELSE "OK"

(* TaskStore.isGrantRevoked: whatever task the grant was revoked through.  *)
IsGrantRevokedPerTask(t) ==  \* mutant: only the cancelled task itself
    t.cancelled
IsGrantRevoked(t) == t.grant \in revokedGrants

(* evaluateTaskOp: the same order, revocation looked up by grant.          *)
TypeScriptVerdict(t, op, s) ==
    IF s # t.subject THEN "SUBJECT_MISMATCH"
    ELSE IF clock >= t.expires THEN "TASK_EXPIRED"
    ELSE IF op = "invoke" /\ IsGrantRevoked(t) THEN "GRANT_REVOKED"
    ELSE "OK"

EffectBearing == {"invoke", "update", "cancel"}

(* EvaluateTask: subject, revocation (of every effect), then expiry.       *)
GoVerdict(t, op, s) ==
    IF s # t.subject THEN "SUBJECT_MISMATCH"
    ELSE IF t.cancelled /\ op \in EffectBearing THEN "GRANT_REVOKED"
    ELSE IF clock >= t.expires THEN "TASK_EXPIRED"
    ELSE "OK"

(* TaskManager::evaluate, in the order of Python.                          *)
RustVerdictLate(t, op, s) ==  \* mutant: still live at expires_at
    IF s # t.subject THEN "SUBJECT_MISMATCH"
    ELSE IF clock > t.expires THEN "TASK_EXPIRED"
    ELSE IF op = "invoke" /\ t.cancelled THEN "GRANT_REVOKED"
    ELSE "OK"
RustVerdict(t, op, s) ==
    IF s # t.subject THEN "SUBJECT_MISMATCH"
    ELSE IF clock >= t.expires THEN "TASK_EXPIRED"
    ELSE IF op = "invoke" /\ t.cancelled THEN "GRANT_REVOKED"
    ELSE "OK"

(* An unknown handle is answered as someone else's.                        *)
Verdict(i, op, id, s) ==
    LET t == tasks[i][id] IN
    IF ~Exists(i, id) THEN "SUBJECT_MISMATCH"
    ELSE CASE i = "python"     -> PythonVerdict(t, op, s)
           [] i = "typescript" -> TypeScriptVerdict(t, op, s)
           [] i = "go"         -> GoVerdict(t, op, s)
           [] i = "rust"       -> RustVerdict(t, op, s)

Allows(i, op, id, s) == Verdict(i, op, id, s) = "OK"

-------------------------------------------------------------------------------
(* Operations.                                                             *)

(* create: Python and Rust store over whatever the id had; TypeScript      *)
(* draws an id of its own, so never one in use; CreateTask in Go refuses   *)
(* an id in use and an expiry that is not in the future.                   *)
StoresGoOver(id, e) ==  \* mutant: no check for an existing id
    e > clock
StoresGo(id, e) == ~Exists("go", id) /\ e > clock
Stores(i, id, e) ==
    CASE i \in {"python", "rust"} -> TRUE
      [] i = "typescript"         -> ~Exists(i, id)
      [] i = "go"                 -> StoresGo(id, e)

Create(id, g, s, e) ==
    /\ (\E i \in Impls : Exists(i, id)) =>
            id \notin reused /\ Cardinality(reused) < MaxReused
    /\ tasks' = [i \in Impls |->
            IF Stores(i, id, e)
            THEN [tasks[i] EXCEPT ![id] = NewTask(g, s, e)]
            ELSE tasks[i]]
    /\ reused' = IF \E i \in Impls : Exists(i, id) THEN reused \union {id} ELSE reused
    /\ UNCHANGED <<clock, revokedGrants, acks>>

(* cancel: each implementation that allows it marks the task; TypeScript   *)
(* revokes the grant as a set member.                                      *)
ToggleCancelled(t) ==  \* mutant: a second cancel takes the first one back
    [t EXCEPT !.cancelled = ~t.cancelled]
MarkCancelled(t) == [t EXCEPT !.cancelled = TRUE]

RevokedBy(id, s) ==
    IF Allows("typescript", "cancel", id, s)
    THEN {tasks["typescript"][id].grant} ELSE {}

Cancel(id, s) ==
    /\ tasks' = [i \in Impls |->
            IF Allows(i, "cancel", id, s)
            THEN [tasks[i] EXCEPT ![id] = MarkCancelled(@)]
            ELSE tasks[i]]
    /\ revokedGrants' = revokedGrants \union RevokedBy(id, s)
    /\ acks' = acks \union
            {[impl |-> i, id |-> id, grant |-> tasks[i][id].grant] :
                i \in {j \in Impls : Allows(j, "cancel", id, s)}}
    /\ UNCHANGED <<clock, reused>>

Tick ==
    /\ clock < MaxClock
    /\ clock' = clock + 1
    /\ UNCHANGED <<tasks, revokedGrants, acks, reused>>

Next ==
    \/ Tick
    \/ \E id \in Ids, s \in Subjects :
        \/ \E g \in Grants, e \in 0..MaxClock + 1 : Create(id, g, s, e)
        \/ Cancel(id, s)

Spec == Init /\ [][Next]_vars

-------------------------------------------------------------------------------
(* Properties.                                                             *)

TypeOK ==
    /\ clock \in Nat
    /\ tasks \in [Impls -> [Ids -> Task \union {NoTask}]]
    /\ revokedGrants \subseteq Grants
    /\ acks \subseteq Ack
    /\ reused \subseteq Ids

(* Where an id names one task for ever: in TypeScript and Go always, in    *)
(* Python and Rust as long as no caller creates it again.                  *)
UniqueHandle(i, id) == i \in {"typescript", "go"} \/ id \notin reused

(* Once a cancel was answered "grant revoked", no invoke on that handle is *)
(* ever allowed again, whoever asks.                                       *)
CancelIsFinal ==
    \A a \in acks : UniqueHandle(a.impl, a.id) =>
        \A s \in Subjects : ~Allows(a.impl, "invoke", a.id, s)

(* A handle that may not be invoked never may again: neither time, nor a   *)
(* second cancel, nor a create with the same id revives it.                *)
DenialIsFinal ==
    [][\A i \in Impls, id \in Ids, s \in Subjects :
        Exists(i, id) /\ ~Allows(i, "invoke", id, s) /\ UniqueHandle(i, id)'
            => ~Allows(i, "invoke", id, s)']_vars

(* In TypeScript a cancel reaches every task of the grant.                 *)
TypeScriptRevokesGrant ==
    \A a \in acks : a.impl = "typescript" =>
        \A id \in Ids, s \in Subjects :
            tasks["typescript"][id].grant = a.grant
                => ~Allows("typescript", "invoke", id, s)

(* No grant backs two tasks. *)
GrantsUnshared ==
    \A i \in Impls : \A x, y \in Ids :
        Exists(i, x) /\ Exists(i, y) /\ tasks[i][x].grant = tasks[i][y].grant
            => x = y

(* As long as every task has a grant of its own, the four implementations  *)
(* allow the same reads and the same effects.                              *)
EffectsAgree ==
    GrantsUnshared /\ reused = {} =>
        \A i, j \in Impls, id \in Ids, s \in Subjects, op \in {"get", "invoke"} :
            Allows(i, op, id, s) => Allows(j, op, id, s)

-------------------------------------------------------------------------------
(* What the source says of itself and the code does not do.                *)

(* tasks.py: "Cancellation revokes the grant. After tasks/cancel no        *)
(* further effect can be committed under it".                              *)
PythonRevokesGrant ==
    \A a \in acks : a.impl = "python" =>
        \A id \in Ids, s \in Subjects :
            tasks["python"][id].grant = a.grant
                => ~Allows("python", "invoke", id, s)
===============================================================================
