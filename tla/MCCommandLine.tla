---------------------------- MODULE MCCommandLine ----------------------------
(***************************************************************************)
(* A small instance of CommandLine: one finding with a decimal in its      *)
(* evidence and a number in its suggested action, one without numbers.     *)
(***************************************************************************)
EXTENDS CommandLine, TLC

CONSTANTS f1, f2    \* two findings

\* 12.5, 12, 1 and 4
SomeNumbers == {125, 120, 10, 40}

\* The evidence of f1 says 12.5, its action 4; nothing of f2 has a number
GivenNumbers == (f1 :> {125, 40}) @@ (f2 :> {})
TemplateNumbers == (f1 :> {40}) @@ (f2 :> {})

\* No number, an invented one, or two that are given to f1 and to f2 are not
SomeReplies == {{}, {10}, {40, 120}}

\* An account that may read everything, nothing of performance_schema, all but
\* the instruments, or neither the statements nor the locks
SomeDenials ==
    {{}, {"trial", "instruments", "statements", "scans", "unused", "locks"},
     {"instruments"}, {"statements", "locks"}}
=============================================================================
