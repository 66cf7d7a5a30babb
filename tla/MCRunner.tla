------------------------------ MODULE MCRunner ------------------------------
(* Instances of Runner for TLC.                                            *)
EXTENDS Runner

Plain(io) == [io |-> io, timeout |-> FALSE, stdin |-> FALSE, hard |-> FALSE,
              catch |-> FALSE]
WithTimeout(o) == [o EXCEPT !.timeout = TRUE]
WithStdin(o) == [o EXCEPT !.stdin = TRUE]
WithHardCancel(o) == [o EXCEPT !.hard = TRUE]
Catching(o) == [o EXCEPT !.catch = TRUE]

\* Each option set and not set, timeout and stdin together too, with one task; and
\* two tasks without any option.
MCOptions == {WithTimeout(WithStdin(Plain({5}))), WithTimeout(Catching(Plain({5}))),
              WithHardCancel(Plain({5})), Plain({5, 6})}

\* One command without options.
PlainOptions == {Plain({5})}

=============================================================================
