------------------------------ MODULE Redirect ------------------------------
(***************************************************************************)
(* The two redirection tasks of a command (shellous/redirect.py): one that *)
(* writes the input into the process (write_stream, write_reader,          *)
(* write_asyncgen, _check_eof) and one that copies its output to a sink    *)
(* (copy_stringio and the others), around a process that writes back what  *)
(* it reads, as `cat` does. Both channels are bounded: each of the three   *)
(* can block the others. The input goes through a pipe, or through a       *)
(* terminal in canonical or raw mode, where EOF characters end it.         *)
(***************************************************************************)
EXTENDS Naturals, SequencesExt

CONSTANTS
  Cap,         \* how much a channel holds before it blocks the writer
  Options      \* the pairs of redirections: records of Option

\* A character of one byte; a newline; the two bytes of another character.
Item == {"x", "n", "l", "c"}
Eof == "E"              \* the EOF character of a terminal

ASSUME CapAssumption == Cap \in Nat \ {0}
ASSUME OptionsAssumption ==
  \A o \in Options :
    /\ o.input \in Seq(Seq(Item)) /\ o.limit \in Nat
    /\ o.writer \in {"stream", "reader", "asyncgen"}
    /\ o.eof \in {"close", "cooked", "raw"}
    /\ o.sink \in {"stringio", "bytes", "limit", "writer", "asyncgen"}
    \* Bytes are written at once, and a StreamReader never returns b"" before its end.
    /\ o.writer = "stream" => Len(o.input) = 1
    /\ o.writer = "reader" => \A i \in DOMAIN o.input : o.input[i] # <<>>

VARIABLES
  opt,         \* the redirections
  wpc, pos,    \* the await of the writing task; chunks of the input it has taken
  newline,     \* its ends_with_newline
  sent,        \* all that it has sent
  closed,      \* it has closed the process's stdin
  wend,        \* how it ended
  alive,       \* the process runs
  taken, put,  \* how much of `sent` the process has read; all that it has written
  cpc, got,    \* the await of the copying task ("closing": its sink is closed already);
               \* how much of `put` it has read
  buf, dest,   \* the BytesIO of copy_stringio; the sink
  cend         \* how the copying task ended

writerVars == <<wpc, pos, newline, sent, closed, wend>>
procVars == <<alive, taken, put>>
copierVars == <<cpc, got, buf, dest, cend>>
vars == <<opt, writerVars, procVars, copierVars>>

Input == FlattenSeq(opt.input)
Take(s, n) == SubSeq(s, 1, IF n < Len(s) THEN n ELSE Len(s))

----------------------------------------------------------------------------
(* The writing task.                                                       *)

EndsWithNewline(data) == data # <<>> /\ Last(data) = "n"

\* stream.write: what is written to a closing stream is lost.
Send(data) == sent' = IF alive THEN sent \o data ELSE sent

\* stream.drain() is to return, or to raise since the process is gone.
Drained == Len(sent) - taken <= Cap \/ ~alive

WriterEnds(how) == wpc' = "done" /\ wend' = how

\* write_stream up to its drain: BrokenPipeError if the stream is closing already.
WriteStream ==
  LET data == opt.input[1]
  IN  /\ wpc = "next" /\ opt.writer = "stream"
      /\ newline' = EndsWithNewline(data)
      /\ \/ data = <<>> /\ wpc' = "eof" /\ UNCHANGED <<sent, wend>>
         \/ data # <<>> /\ ~alive /\ WriterEnds("exc") /\ UNCHANGED sent
         \/ data # <<>> /\ alive /\ Send(data) /\ wpc' = "drain" /\ UNCHANGED wend
      /\ UNCHANGED <<opt, pos, closed, procVars, copierVars>>

\* Mutant: a chunk read while the stream is busy is skipped.
WriteChunkBusy ==
  /\ wpc = "next" /\ opt.writer # "stream" /\ pos < Len(opt.input)
  /\ pos' = pos + 1
  /\ newline' = EndsWithNewline(opt.input[pos'])
  /\ IF taken < Len(sent) THEN wpc' = "next" /\ UNCHANGED sent
     ELSE Send(opt.input[pos']) /\ wpc' = "drain"
  /\ UNCHANGED <<opt, closed, wend, procVars, copierVars>>

\* The next chunk of a StreamReader or of an async generator; only write_asyncgen
\* looks whether the stream is closing.
WriteChunk ==
  /\ wpc = "next" /\ opt.writer # "stream" /\ pos < Len(opt.input)
  /\ pos' = pos + 1
  /\ newline' = EndsWithNewline(opt.input[pos'])
  /\ IF opt.writer = "asyncgen" /\ ~alive
     THEN wpc' = "eof" /\ UNCHANGED sent
     ELSE Send(opt.input[pos']) /\ wpc' = "drain"
  /\ UNCHANGED <<opt, closed, wend, procVars, copierVars>>

SourceEnds ==
  /\ wpc = "next" /\ opt.writer # "stream" /\ pos = Len(opt.input)
  /\ wpc' = "eof"
  /\ UNCHANGED <<opt, pos, newline, sent, closed, wend, procVars, copierVars>>

\* The generator or the StreamReader raises: nothing ends the process's input.
SourceFails ==
  /\ wpc = "next" /\ opt.writer # "stream"
  /\ WriterEnds("exc")
  /\ UNCHANGED <<opt, pos, newline, sent, closed, procVars, copierVars>>

\* BrokenPipeError and ConnectionResetError end the loop quietly.
WriteDrained ==
  /\ wpc = "drain" /\ Drained
  /\ wpc' = IF opt.writer = "stream" \/ ~alive THEN "eof" ELSE "next"
  /\ UNCHANGED <<opt, pos, newline, sent, closed, wend, procVars, copierVars>>

\* Mutant: one EOF character is taken to be enough.
EofAlways(atLineStart) == <<Eof>>

\* At the beginning of a line one EOF character is enough.
EofAfter(atLineStart) == IF atLineStart THEN <<Eof>> ELSE <<Eof, Eof>>

\* _check_eof.
CheckEof ==
  /\ wpc = "eof"
  /\ \/ /\ opt.eof = "close" /\ WriterEnds("ok")
        /\ closed' = TRUE /\ UNCHANGED sent
     \/ /\ opt.eof = "raw" /\ WriterEnds("ok")
        /\ UNCHANGED <<closed, sent>>
     \/ /\ opt.eof = "cooked" /\ wpc' = "eofdrain"
        /\ Send(EofAfter(newline))
        /\ UNCHANGED <<closed, wend>>
  /\ UNCHANGED <<opt, pos, newline, procVars, copierVars>>

EofDrained ==
  /\ wpc = "eofdrain" /\ Drained
  /\ WriterEnds("ok")
  /\ UNCHANGED <<opt, pos, newline, sent, closed, procVars, copierVars>>

\* The task is cancelled while it awaits its source or drain(): it ends as it is.
WriterCancelled ==
  /\ wpc \in {"drain", "eofdrain"} \/ (wpc = "next" /\ opt.writer # "stream")
  /\ WriterEnds("cancelled")
  /\ UNCHANGED <<opt, pos, newline, sent, closed, procVars, copierVars>>

Writer == \/ WriteStream \/ WriteChunk \/ SourceEnds \/ WriteDrained \/ CheckEof
          \/ EofDrained

----------------------------------------------------------------------------
(* The process and the terminal.                                           *)

\* How often a terminal in canonical mode tells its reader that the input is over:
\* an EOF character within a line only hands over the line.
EndsTold(s) ==
  LET At(i) == s[i] = Eof /\ (i = 1 \/ s[i - 1] \in {"n", Eof})
  IN  {i \in DOMAIN s : At(i)}

\* The process reads an item and writes it back: it reads no more while its output is
\* full.
Echo ==
  /\ alive /\ taken < Len(sent) /\ Len(put) - got < Cap
  /\ taken' = taken + 1
  /\ put' = IF sent[taken'] = Eof THEN put ELSE Append(put, sent[taken'])
  /\ taken' \notin EndsTold(sent)
  /\ UNCHANGED <<opt, alive, writerVars, copierVars>>

\* It has read the end of its input.
Exits ==
  /\ alive
  /\ \/ closed /\ taken = Len(sent)
     \/ taken + 1 \in EndsTold(sent)
  /\ alive' = FALSE
  /\ UNCHANGED <<opt, taken, put, writerVars, copierVars>>

\* It ends without having read everything.
Dies ==
  /\ alive /\ alive' = FALSE
  /\ UNCHANGED <<opt, taken, put, writerVars, copierVars>>

----------------------------------------------------------------------------
(* The copying task.                                                       *)

CopierEnds(how) == cpc' = "done" /\ cend' = how

\* copy_bytearray_limit: one byte more than the limit makes it cut and discard.
CopyLimit(data) ==
  LET all == dest \o data
  IN  /\ dest' = Take(all, opt.limit)
      /\ cpc' = IF Len(all) > opt.limit THEN "discard" ELSE "read"
      /\ UNCHANGED <<buf, cend>>

\* What a sink does with the data that were read. drain() and asend() are awaited after
\* it.
Consume(data) ==
  CASE opt.sink = "stringio" -> buf' = buf \o data /\ UNCHANGED <<cpc, dest, cend>>
    [] opt.sink = "bytes"    -> dest' = dest \o data /\ UNCHANGED <<cpc, buf, cend>>
    [] opt.sink = "limit"    -> CopyLimit(data)
    [] opt.sink \in {"writer", "asyncgen"} ->
         dest' = dest \o data /\ cpc' = "hand" /\ UNCHANGED <<buf, cend>>

\* source.read() returns some of the data that are there.
Copy ==
  /\ cpc = "read"
  /\ \E k \in got + 1..Len(put) :
       /\ got' = k
       /\ Consume(SubSeq(put, got + 1, k))
  /\ UNCHANGED <<opt, writerVars, procVars>>

\* Mutant: nothing more is read once the limit is reached.
DiscardNothing ==
  /\ cpc = "discard"
  /\ CopierEnds("ok")
  /\ UNCHANGED <<opt, got, buf, dest, writerVars, procVars>>

\* Mutant: each read is taken for a full one.
DiscardFull ==
  /\ cpc = "discard" /\ got < Len(put)
  /\ got' = got + Cap
  /\ UNCHANGED <<opt, cpc, buf, dest, cend, writerVars, procVars>>

\* copy_bytearray_limit goes on reading.
Discard ==
  /\ cpc = "discard" /\ got < Len(put)
  /\ got' = Len(put)
  /\ UNCHANGED <<opt, cpc, buf, dest, cend, writerVars, procVars>>

\* The priming asend(None), drain() or asend() returns.
SinkTakes ==
  /\ cpc \in {"prime", "hand"}
  /\ cpc' = "read"
  /\ UNCHANGED <<opt, got, buf, dest, cend, writerVars, procVars>>

\* The async generator has ended: StopAsyncIteration.
SinkStops ==
  /\ cpc \in {"prime", "hand"} /\ opt.sink = "asyncgen"
  /\ CopierEnds("interrupted")
  /\ UNCHANGED <<opt, got, buf, dest, writerVars, procVars>>

\* The async generator raises, or the peer of the StreamWriter is gone.
SinkFails ==
  /\ cpc \in {"prime", "hand", "closing"}
  /\ CopierEnds("exc")
  /\ UNCHANGED <<opt, got, buf, dest, writerVars, procVars>>

\* aclose() or wait_closed() returns.
SinkCloses ==
  /\ cpc = "closing"
  /\ CopierEnds("ok")
  /\ UNCHANGED <<opt, got, buf, dest, writerVars, procVars>>

\* The bytes s are text: no character is cut.
Text(s) ==
  \A i \in DOMAIN s :
    /\ s[i] = "l" => i < Len(s) /\ s[i + 1] = "c"
    /\ s[i] = "c" => i > 1 /\ s[i - 1] = "l"

\* Mutant: the text is converted at the end of the output only.
FlushIfRead(how) ==
  /\ CopierEnds(how)
  /\ dest' = IF how = "ok" /\ Text(buf) THEN dest \o buf ELSE dest

\* The task ends. The finally clause of copy_stringio converts what it holds: bytes that
\* are no text raise UnicodeDecodeError, whatever the task was to end with.
Flush(how) ==
  \/ /\ opt.sink = "stringio" /\ ~Text(buf)
     /\ CopierEnds("exc") /\ UNCHANGED dest
  \/ /\ opt.sink = "stringio" => Text(buf)
     /\ CopierEnds(how) /\ dest' = dest \o buf

\* The output is over: a StreamWriter or an async generator is to be closed.
CopyEnds ==
  /\ cpc \in {"read", "discard"} /\ ~alive /\ got = Len(put)
  /\ IF opt.sink \in {"writer", "asyncgen"}
     THEN cpc' = "closing" /\ UNCHANGED <<dest, cend>>
     ELSE Flush("ok")
  /\ UNCHANGED <<opt, got, buf, writerVars, procVars>>

CopierCancelled ==
  /\ cpc # "done"
  /\ Flush("cancelled")
  /\ UNCHANGED <<opt, got, buf, writerVars, procVars>>

Copier == Copy \/ Discard \/ CopyEnds \/ SinkTakes \/ SinkCloses

----------------------------------------------------------------------------

Init ==
  /\ opt \in Options
  /\ wpc = "next" /\ pos = 0 /\ newline = TRUE /\ sent = <<>> /\ closed = FALSE
  /\ wend = "none"
  /\ alive = TRUE /\ taken = 0 /\ put = <<>>
  /\ cpc = IF opt.sink = "asyncgen" THEN "prime" ELSE "read"
  /\ got = 0 /\ buf = <<>> /\ dest = <<>> /\ cend = "none"

Over == ~alive /\ wpc = "done" /\ cpc = "done"

Next == \/ Writer \/ SourceFails \/ WriterCancelled
        \/ Echo \/ Exits \/ Dies
        \/ Copier \/ SinkStops \/ SinkFails \/ CopierCancelled
        \/ Over /\ UNCHANGED vars

Spec == Init /\ [][Next]_vars

\* The tasks run, the sink takes what it is given, and the process reads as long as it
\* can write and ends with its input.
FairSpec == Spec /\ WF_vars(Writer) /\ WF_vars(Copier) /\ WF_vars(Echo) /\ WF_vars(Exits)

----------------------------------------------------------------------------
(* Properties.                                                             *)

\* Every variable has its type.
TypeOK ==
  /\ opt \in Options
  /\ wpc \in {"next", "drain", "eof", "eofdrain", "done"}
  /\ wend \in {"none", "ok", "exc", "cancelled"}
  /\ pos \in 0..Len(opt.input) /\ newline \in BOOLEAN /\ closed \in BOOLEAN
  /\ sent \in Seq(Item \cup {Eof}) /\ alive \in BOOLEAN
  /\ taken \in 0..Len(sent) /\ put \in Seq(Item)
  /\ cpc \in {"prime", "read", "hand", "discard", "closing", "done"}
  /\ got \in 0..Len(put)
  /\ buf \in Seq(Item) /\ dest \in Seq(Item)
  /\ cend \in {"none", "ok", "exc", "interrupted", "cancelled"}

\* A process that lives to the end of the writing task has been sent the whole input,
\* in order, however the chunks and the waits fall, and then nothing but EOF characters.
InputDelivered ==
  wpc = "done" /\ wend = "ok" /\ alive =>
    /\ Take(sent, Len(Input)) = Input
    /\ \A i \in Len(Input) + 1..Len(sent) : sent[i] = Eof

\* A task that copied to the end, or was cancelled, has handed its sink exactly what it
\* has read, a limited one no more than the limit; a copy to the end has read everything,
\* and so has a task that closes its sink. copy_stringio holds everything back until it
\* ends: if it ends within a character, because it is cancelled there or the process stops
\* there, its sink gets nothing, the task fails instead, and it fails of nothing else.
SinkExact ==
  LET read == Take(put, got)
      whole == IF opt.sink = "limit" THEN Take(read, opt.limit) ELSE read
  IN  /\ cend \in {"ok", "cancelled"} => dest = whole
      /\ cpc = "closing" \/ cend = "ok" => got = Len(put)
      /\ opt.sink = "stringio" /\ cend # "none" =>
           IF Text(read) THEN dest = read /\ cend # "exc" ELSE dest = <<>> /\ cend = "exc"

\* A terminal is told exactly once that the input is over: not at all would leave the
\* process waiting, and a second time would end the next read as well. Nothing is claimed
\* of an empty last chunk at the beginning of a line: there the code sends two EOF
\* characters, although its comment says that one is enough (redirect.py:163-165).
EofToldOnce ==
  LET lastEmpty == Len(opt.input) > 0 /\ Last(opt.input) = <<>>
      lineStart == Input = <<>> \/ EndsWithNewline(Input)
  IN  wend = "ok" /\ opt.eof = "cooked" /\ alive /\ ~(lastEmpty /\ lineStart) =>
        sent # <<>> /\ EndsTold(sent) = {Len(sent)}

\* Writer, process and copier never wait for each other for ever: unless a task is
\* cancelled, the source or the sink stops or fails, or the terminal is raw, all three end.
Completes ==
  <>(Over \/ wend = "cancelled" \/ (wend = "exc" /\ alive)
          \/ cend \in {"exc", "interrupted", "cancelled"}
          \/ opt.eof = "raw")

=============================================================================
