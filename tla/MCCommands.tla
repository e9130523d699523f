------------------------------ MODULE MCCommands ------------------------------
(* Instances of Commands for TLC: four templates, every path of up to      *)
(* three components, and the allowlists the implementations read           *)
(* differently.                                                            *)
EXTENDS Commands, TLC

Word(w) == Path(FALSE, <<w>>)
Cat     == <<Literal(Word("cat")), Hole("path", TRUE)>>
GitLog  == <<Literal(Word("git")), Literal(Path(TRUE, <<"etc">>)),
             Hole("message", FALSE), Hole("path", TRUE)>>
Diff    == <<Literal(Word("diff")), Hole("base", TRUE), Hole("path", TRUE)>>
McTemplates == {<<>>, Cat, GitLog, Diff}

Parts(n)  == [1..n -> {"work", "etc", ".."}]
McPaths   == {Path(a, s) : a \in BOOLEAN, s \in UNION {Parts(n) : n \in 0..3}}
                \union {Path(a, <<"work", ".", "etc">>) : a \in BOOLEAN}
Message   == Path(FALSE, <<"..", "two words">>)
Base      == Path(TRUE, <<"work", "etc">>)
With(v)   == [path |-> v, message |-> Value(TRUE, Message), base |-> Value(TRUE, Base)]
McParams  == {With(Value(TRUE, p)) : p \in McPaths}
                \union {With(Value(FALSE, Word("7"))), [message |-> Value(TRUE, Message)]}

McSandboxes ==
    LET abs(parts) == Path(TRUE, parts)
        rel(parts) == Path(FALSE, parts)
    IN {{}, {abs(<<>>)}, {abs(<<"work">>)}, {abs(<<"work", "etc">>)},
        {abs(<<"work", "..">>)}, {abs(<<"..", "etc">>)},
        {abs(<<"work">>), abs(<<"etc">>)}, {rel(<<>>)}, {rel(<<".">>)}, {rel(<<"work">>)}}
===============================================================================
