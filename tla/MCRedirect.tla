----------------------------- MODULE MCRedirect -----------------------------
(* The instance of Redirect for TLC.                                       *)
EXTENDS Redirect

\* Inputs longer than a channel; that end with a newline or not; empty; whose last
\* chunk is empty; with a character of two bytes, which a read or a chunk may cut.
Whole == {<< <<"x", "n", "l", "c">> >>, << <<"x", "x", "x", "n">> >>, << <<>> >>}
Chunks == {<< <<"n", "l">>, <<"c", "x">> >>, << <<"x">>, <<"x", "x">>, <<"n">> >>, <<>>}
EmptyLast == {<< <<"x", "n">>, <<>> >>, << <<"x">>, <<>> >>}

Writers == [writer : {"stream"}, input : Whole]
           \cup [writer : {"reader"}, input : Chunks]
           \cup [writer : {"asyncgen"}, input : Chunks \cup EmptyLast]

\* A limit below, at and above the length of an input.
Sinks == [sink : {"stringio", "bytes", "writer", "asyncgen"}, limit : {0}]
         \cup [sink : {"limit"}, limit : {1, 3, 4, 5}]

MCOptions == {[writer |-> w.writer, input |-> w.input, eof |-> e, sink |-> s.sink,
               limit |-> s.limit] :
                w \in Writers, e \in {"close", "cooked", "raw"}, s \in Sinks}

=============================================================================
