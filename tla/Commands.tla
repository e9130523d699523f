------------------------------- MODULE Commands -------------------------------
(***************************************************************************)
(* Command capabilities: the argv a template and its parameters resolve to *)
(* (vcp_sdk/command.py), the check of path parameters against the sandbox  *)
(* (vcp_gateway/command.py) and the execution of exactly the argv that was *)
(* approved, in Python, Go, TypeScript and Rust.                           *)
(*                                                                         *)
(* No code of the repository calls these functions in a row; the tests and *)
(* the conformance suite do, as a host would: resolve, hash, check, and,   *)
(* under a grant for that hash, run.  Between approval and execution the   *)
(* planner may send other parameters.  The four share nothing and take     *)
(* each step together.                                                     *)
(*                                                                         *)
(* A string is a POSIX path, absolute or not, as its components: the empty *)
(* string is the relative path of none.  Repeated and trailing slashes are *)
(* left out, and so is what a program prints or how it exits.              *)
(***************************************************************************)
EXTENDS Naturals, Sequences, FiniteSets, SequencesExt, VcpPolicy

CONSTANTS
    Templates,  \* argv templates: sequences of literals and typed holes
    Params,     \* the parameters a planner may send, name by name
    Sandboxes,  \* the values of sandbox.filesystem; none is {}
    MaxChanges  \* bound: how often the parameters change after approval

(* Templates are lists, and what parameters and allowlists name are paths. *)
Paths == [abs : BOOLEAN, parts : Seq(STRING)]
ASSUME CommandsAssumption ==
    /\ \A t \in Templates : t \in Seq(ToSet(t))
    /\ \A ps \in Params : \A n \in DOMAIN ps : ps[n].text \in Paths
    /\ \A rs \in Sandboxes : rs \subseteq Paths
    /\ MaxChanges \in Nat

VARIABLES
    template,  \* the template of the capability
    roots,     \* its sandbox.filesystem
    params,    \* the parameters as they are now
    changes,   \* how often they changed
    approved,  \* approved[l]: the argv whose hash the grant binds, and for what
    ran        \* ran[l]: what l executed

vars == <<template, roots, params, changes, approved, ran>>

Languages == {"python", "go", "typescript", "rust"}

-------------------------------------------------------------------------------
(* Strings, templates, parameters.                                         *)

Path(abs, parts) == [abs |-> abs, parts |-> parts]
Literal(text)    == [hole |-> FALSE, text |-> text]
Hole(name, path) == [hole |-> TRUE, param |-> name, path |-> path]

(* A parameter value: a JSON string, or another scalar and what str makes  *)
(* of it.                                                                  *)
Value(string, text) == [string |-> string, text |-> text]

IsParamHole(token) == token.hole

(* resolve_argv: one element for every token.  Rust takes strings only.    *)
Resolvable(l, tokens, ps) ==
    \A i \in DOMAIN tokens : IsParamHole(tokens[i]) =>
        /\ tokens[i].param \in DOMAIN ps
        /\ l \in {"go", "rust"} => ps[tokens[i].param].string
ResolveArgv(tokens, ps) ==
    [i \in DOMAIN tokens |-> IF IsParamHole(tokens[i])
                             THEN ps[tokens[i].param].text ELSE tokens[i].text]

ArgvHashProgram(argv) ==  \* mutant: binds the program only
    IF argv = <<>> THEN <<>> ELSE <<Head(argv)>>
ArgvHash(argv) == argv

-------------------------------------------------------------------------------
(* Lexical normalisation: posixpath.normpath, filepath.Clean,              *)
(* posix.normalize.  Above the root an absolute path stays at the root.    *)

FollowPart(acc, s, abs) ==
    IF s = "." THEN acc
    ELSE IF s # ".." THEN Append(acc, s)
    ELSE IF acc # <<>> /\ Last(acc) # ".." THEN Front(acc)
    ELSE IF abs THEN acc ELSE Append(acc, "..")
NormalizeParts(parts, abs) ==
    LET upTo[i \in 0..Len(parts)] ==
            IF i = 0 THEN <<>> ELSE FollowPart(upTo[i - 1], parts[i], abs)
    IN upTo[Len(parts)]
Normalize(p) == Path(p.abs, NormalizeParts(p.parts, p.abs))

(* _is_within (Python), pathWithinRoots (Go): equal, or below by whole     *)
(* components; the prefix of "." is "./", which no normal path has.        *)
IsWithinUnnormalized(candidate, root) ==  \* mutant: .. is not resolved
    candidate.abs = root.abs /\ IsPrefix(root.parts, candidate.parts)
IsWithin(candidate, root) ==
    LET c == Normalize(candidate)
        r == Normalize(root)
    IN \/ c = r
       \/ /\ c.abs = r.abs
          /\ IsPrefix(r.parts, c.parts)
          /\ r.parts = <<>> => r.abs

(* cleanRoots (Go) drops the empty string.                                 *)
CleanRoots(rs) == rs \ {Path(FALSE, <<>>)}

(* isWithin (TypeScript): the slash of "/" is cut off, and "//" is no      *)
(* prefix of anything.                                                     *)
TypeScriptIsWithin(candidate, root) ==
    LET c == Normalize(candidate)
        r == IF root.parts = <<>> THEN Path(FALSE, <<>>) ELSE Normalize(root)
    IN c = r \/ (c.abs = r.abs /\ r.parts # <<>> /\ IsPrefix(r.parts, c.parts))

(* check_command_paths (Rust): components only.  A leading ".." is kept    *)
(* even at the root, and a relative path is looked for under every root.   *)
RustNormalize(parts) == NormalizeParts(parts, FALSE)
RustWithin(root, candidate) ==
    /\ candidate # <<>> => Head(candidate) # ".."
    /\ IsPrefix(root, candidate)
RustIsWithin(candidate, root) ==
    LET r == RustNormalize(root.parts)
        c == IF candidate.abs THEN RustNormalize(candidate.parts)
             ELSE RustNormalize(r \o SelectSeq(candidate.parts, LAMBDA s : s # "."))
    IN RustWithin(r, c)

Admits(l, candidate, rs) ==
    CASE l = "python"     -> \E r \in rs : IsWithin(candidate, r)
      [] l = "go"         -> \E r \in CleanRoots(rs) : IsWithin(candidate, r)
      [] l = "typescript" -> \E r \in rs : TypeScriptIsWithin(candidate, r)
      [] l = "rust"       -> \E r \in rs : RustIsWithin(candidate, r)

-------------------------------------------------------------------------------
(* check_command_paths over parameters: the strings in holes declared as   *)
(* paths, what _iter_path_values and pathParams collect.                   *)

PathValues(tokens, ps) ==
    {ps[n].text : n \in {m \in DOMAIN ps :
        ps[m].string /\ Hole(m, TRUE) \in ToSet(tokens)}}

CheckCommandPaths(l, tokens, ps, rs) ==
    \A p \in PathValues(tokens, ps) : Admits(l, p, rs)

(* check_command_paths over an argv (Python): what looks like a path.      *)
LooksLikePathAbsolute(p) == p.abs  \* mutant: traversals do not
LooksLikePath(p) == p.abs \/ ".." \in ToSet(p.parts)
CheckArgvPaths(argv, rs) ==
    \A i \in DOMAIN argv : LooksLikePath(argv[i]) => Admits("python", argv[i], rs)

-------------------------------------------------------------------------------

None == [decision |-> "none", hash |-> <<>>, params |-> <<>>]
Approval(decision, hash, ps) == [decision |-> decision, hash |-> hash, params |-> ps]

OutputLabelPlain == "none"  \* mutant
(* COMMAND_OUTPUT_LABEL                                                    *)
OutputLabel == "untrusted_tool_result"

Init ==
    /\ template \in Templates
    /\ roots \in Sandboxes
    /\ params \in Params
    /\ changes = 0
    /\ approved = [l \in Languages |-> None]
    /\ ran = [l \in Languages |-> {}]

ApprovalFor(l) ==
    IF ~Resolvable(l, template, params) THEN Approval("error", <<>>, params)
    ELSE Approval(IF CheckCommandPaths(l, template, params, roots) THEN "allow" ELSE "deny",
                  ArgvHash(ResolveArgv(template, params)), params)

(* The argv is resolved, its hash bound, its paths checked.                *)
Approve ==
    /\ approved = [l \in Languages |-> None]
    /\ approved' = [l \in Languages |-> ApprovalFor(l)]
    /\ UNCHANGED <<template, roots, params, changes, ran>>

(* The planner sends other parameters than were approved.                  *)
Change(ps) ==
    /\ approved # [l \in Languages |-> None]
    /\ changes < MaxChanges
    /\ changes' = changes + 1
    /\ params' = ps
    /\ UNCHANGED <<template, roots, approved, ran>>

(* run_command needs a program; the others are given it apart.             *)
Startable(l, argv) == l = "python" => argv # <<>>

(* The argv is resolved again, held against the hash of the grant (else    *)
(* ARGUMENT_HASH_MISMATCH) and run, element by element, without a shell.   *)
Executes(l) ==
    /\ approved[l].decision = "allow"
    /\ Resolvable(l, template, params)
    /\ ArgvHash(ResolveArgv(template, params)) = approved[l].hash
    /\ Startable(l, ResolveArgv(template, params))
RunCommand ==
    /\ \E l \in Languages : Executes(l)
    /\ ran' = [l \in Languages |->
                IF Executes(l)
                THEN {[argv |-> ResolveArgv(template, params), shell |-> FALSE,
                       label |-> OutputLabel]}
                ELSE ran[l]]
    /\ UNCHANGED <<template, roots, params, changes, approved>>

Next ==
    \/ Approve
    \/ \E ps \in Params : Change(ps)
    \/ RunCommand

Spec == Init /\ [][Next]_vars
-------------------------------------------------------------------------------
(* Where a path leads, by its definition rather than an algorithm: a name  *)
(* counts unless a later ".." takes it back, the first one before which as *)
(* many names were entered as left.                                        *)

Entered(parts, i, j) == Cardinality({k \in i..j : parts[k] \notin {".", ".."}})
Left(parts, i, j)    == Cardinality({k \in i..j : parts[k] = ".."})
Kept(parts) ==
    {i \in DOMAIN parts :
        /\ parts[i] \notin {".", ".."}
        /\ \A j \in i..Len(parts) : Entered(parts, i, j) > Left(parts, i, j)}
Nth(K, n) == CHOOSE i \in K : Cardinality({j \in K : j <= i}) = n
Listed(parts, K) == [n \in 1..Cardinality(K) |-> parts[Nth(K, n)]]
Place(parts) == Listed(parts, Kept(parts))
Inside(root, path) == IsPrefix(Place(root), Place(path))
ClimbsAboveRoot(parts) ==
    \E k \in DOMAIN parts : Left(parts, 1, k) > Entered(parts, 1, k)

-------------------------------------------------------------------------------
(* Properties.                                                             *)

(* The variables keep their types; a command was run without a shell, and  *)
(* its output may authorize nothing (authority_decision).                  *)
TypeOK ==
    /\ template \in Templates
    /\ roots \in Sandboxes
    /\ params \in Params
    /\ changes \in 0..MaxChanges
    /\ \A l \in Languages :
        /\ approved[l].decision \in {"none", "allow", "deny", "error"}
        /\ \A r \in ran[l] : /\ Len(r.argv) = Len(template)
                             /\ ~r.shell
                             /\ AuthorityDenied(r.label, TRUE)

AbsoluteRoots == \A r \in roots : r.abs

(* What is executed stays in the sandbox: an absolute path that was a      *)
(* string in a path hole leads into one of the roots, whatever the planner *)
(* sent after the check.  The root is absolute too, but in Rust, which     *)
(* compares components only: there it is one by its components, the slash  *)
(* aside, and "." is one above every path (check_command_paths,            *)
(* argv_hash).                                                             *)
StaysInSandbox ==
    \A l \in Languages : \A r \in ran[l] : \A i \in DOMAIN template :
        \A n \in DOMAIN approved[l].params :
            /\ template[i] = Hole(n, TRUE)
            /\ approved[l].params[n].string
            /\ r.argv[i].abs
            => \E root \in roots :
                /\ l # "rust" => root.abs
                /\ Inside(root.parts, r.argv[i].parts)

(* All four decide alike, and rightly, on absolute paths in absolute       *)
(* roots: what they approve is exactly what leads into a root.  Two        *)
(* exceptions, both stricter: in TypeScript "/" admits nothing, and Rust   *)
(* refuses a path that climbs above "/" on its way (check_command_paths).  *)
VerdictsAreExact ==
    \A l \in Languages :
        LET values == PathValues(template, approved[l].params)
            right  == \A p \in values : \E root \in roots : Inside(root.parts, p.parts)
        IN /\ approved[l].decision \in {"allow", "deny"}
           /\ AbsoluteRoots
           /\ \A p \in values : p.abs
           => /\ approved[l].decision = "allow" => right
              /\ right => \/ approved[l].decision = "allow"
                          \/ l = "typescript" /\ \E root \in roots : Place(root.parts) = <<>>
                          \/ l = "rust" /\ \E p \in values \union roots : ClimbsAboveRoot(p.parts)

(* The two ways of asking Python differ in two ways only.  Where the       *)
(* parameters are allowed and their argv is refused, it is for an argument *)
(* the first does not look at: a literal, a parameter that is not declared *)
(* a path, or no string.  Where the parameters are refused and their argv  *)
(* is allowed, some value is outside the allowlist and relative without    *)
(* "..", which the second takes for no path (_iter_path_values).           *)
ModesDifferAsKnown ==
    LET ps == approved["python"].params
        argv == ResolveArgv(template, ps)
        fromPath(i) == \E n \in DOMAIN ps : template[i] = Hole(n, TRUE) /\ ps[n].string
        escapes(p) == ~Admits("python", p, roots)
        shows(p) == p.abs \/ ".." \in ToSet(p.parts)
    IN /\ approved["python"].decision = "allow" /\ ~CheckArgvPaths(argv, roots) =>
            \E i \in DOMAIN argv : ~fromPath(i) /\ shows(argv[i]) /\ escapes(argv[i])
       /\ approved["python"].decision = "deny" /\ CheckArgvPaths(argv, roots) =>
            \E p \in PathValues(template, ps) : ~shows(p) /\ escapes(p)

===============================================================================
