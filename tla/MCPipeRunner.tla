---------------------------- MODULE MCPipeRunner ----------------------------
(* Instances of PipeRunner for TLC.                                        *)
EXTENDS PipeRunner

Awaited(timed, any) == [capturing |-> FALSE, timed |-> timed, any |-> any]
Entered(timed, any) == [Awaited(timed, any) EXCEPT !.capturing = TRUE]

\* Awaited and entered; with a timeout in the middle; and with .result.
MCOptions == {Awaited({}, FALSE), Entered({}, FALSE), Awaited({2}, TRUE)}

\* `async with`, without options.
EnteredOptions == {Entered({}, FALSE)}

\* One awaited pipeline whose first command has a timeout.
TimedOptions == {Awaited({1}, FALSE)}

=============================================================================
