------------------------------- MODULE Prompt -------------------------------
(***************************************************************************)
(* The send/expect API (shellous/prompt.py) talking to a process over two  *)
(* bounded pipes: the calls of Prompt, the job that each of them runs      *)
(* through harvest_results with a timeout, and the task that _drain makes  *)
(* to read while it waits. A call is made by one task, which may be        *)
(* cancelled at any await. Bytes are known by their positions in `said`;   *)
(* what the process is sent is only counted. harvest_results is taken at   *)
(* its word for a single job that ends when it is cancelled (see Harvest). *)
(***************************************************************************)
EXTENDS Naturals, SequencesExt

CONSTANTS
  Pattern,     \* the prompt, a sequence of bytes
  Answers,     \* what the process may write for one line of input
  InCap,       \* lines that the pipe to the process holds
  OutCap,      \* bytes that the pipe from it and the StreamReader hold
  ChunkSize,   \* most bytes of one read
  MaxSends,    \* bound: lines sent
  MaxCancels   \* bound: cancellations of the caller

Byte == {"t", "p", "lead", "cont", "bad"}   \* lead and cont make up one character

ASSUME PatternAssumption == Pattern \in Seq(Byte \ {"bad"}) /\ Pattern # <<>>

\* What can be decoded up to the first "bad" byte: the halves of a character come
\* together, and at the end none is alone.
Clean(s, n) == \A k \in 1..n : s[k] # "bad"
Paired(s) == \A i \in 1..Len(s) :
               Clean(s, i) => (s[i] = "cont" <=> i > 1 /\ s[i - 1] = "lead")
IsText(s) == Paired(s) /\ (Clean(s, Len(s)) /\ s # <<>> => Last(s) # "lead")

ASSUME AnswersAssumption == Answers \subseteq Seq(Byte) /\ \A a \in Answers : IsText(a)
ASSUME BoundsAssumption ==
  /\ InCap \in Nat /\ OutCap \in Nat \ {0} /\ ChunkSize \in Nat \ {0}
  /\ MaxSends \in Nat /\ MaxCancels \in Nat

VARIABLES
  alive, stdin,          \* the process; its input: "open", "closed" by us, "broken"
  inq, owed,             \* lines on their way to it; what it has yet to answer
  said, stream,          \* all that it has written; what of it is not read yet
  pending, held, atEof,  \* the Prompt's _pending, its decoder's buffer, its _at_eof
  pc, call,              \* where the caller is, in which call
  job, found,            \* the harvested task; the text and match that it has found
  reader,                \* the task of _drain
  reply,                 \* the answer of the last call
  sends, cancels

procVars == <<alive, stdin, inq, owed, said>>
bufVars == <<stream, pending, held, atEof>>
callVars == <<pc, call, reply, sends>>
vars == <<procVars, bufVars, callVars, job, found, reader, cancels>>

None == [kind |-> "none", text |-> <<>>]
Kinds == {"send", "secret", "expect", "read_all", "command", "command_eof"}
Call == [kind : Kinds, timed : BOOLEAN]
Sending == {"send", "secret", "command", "command_eof"}

JobOver == job \in {"ok", "match", "eof", "decode", "reset", "cancelled"}
Asked == pc \in {"timed_out", "cancelled"}     \* the job is told to cancel
Paused == inq > InCap /\ stdin # "broken"      \* drain() has to wait

----------------------------------------------------------------------------
(* Reading: a chunk is taken, decoded and appended without an await.       *)

Readable == stream # <<>> \/ ~alive
ChunkLengths == IF stream = <<>> THEN {0} ELSE 1..(IF Len(stream) < ChunkSize
                                                   THEN Len(stream) ELSE ChunkSize)

\* The incremental decoder keeps the first half of a character.
HalfAtEnd(b) == b # <<>> /\ said[Last(b)] = "lead"
Decodes(b, final) ==
  /\ \A i \in DOMAIN b :
       /\ said[b[i]] # "bad"
       /\ said[b[i]] = "cont" => i > 1 /\ said[b[i - 1]] = "lead"
       /\ i > 1 /\ said[b[i - 1]] = "lead" => said[b[i]] = "cont"
  /\ final => ~HalfAtEnd(b)

Chars(b) == IF HalfAtEnd(b) THEN Front(b) ELSE b

\* Mutant: the decoder starts afresh with every chunk.
DataAfresh(n) == SubSeq(stream, 1, n)

\* What the decoder makes of a chunk of n bytes, the last one being empty.
Data(n) == held \o SubSeq(stream, 1, n)
Refused(n) == ~Decodes(Data(n), n = 0)

\* A chunk that the decoder refuses is gone.
Grown(n) == IF Refused(n) THEN pending ELSE pending \o Chars(Data(n))

TakeChunk(n) ==
  /\ Readable /\ n \in ChunkLengths
  /\ stream' = SubSeq(stream, n + 1, Len(stream))
  /\ atEof' = (n = 0)
  /\ held' = CASE Refused(n) -> held
               [] ~Refused(n) /\ HalfAtEnd(Data(n)) -> <<Last(Data(n))>>
               [] OTHER -> <<>>

\* pattern.search
Hits(places) ==
  {n \in 0..Len(places) :
     /\ n + Len(Pattern) <= Len(places)
     /\ \A i \in DOMAIN Pattern : said[places[n + i]] = Pattern[i]}
FirstHit(places) == CHOOSE n \in Hits(places) : \A m \in Hits(places) : n <= m
UpTo(places) == SubSeq(places, 1, FirstHit(places) + Len(Pattern))
After(places) == SubSeq(places, FirstHit(places) + Len(Pattern) + 1, Len(places))
MatchOf(hit) == [kind |-> "match", text |-> SubSeq(hit, 1, Len(hit) - Len(Pattern))]

----------------------------------------------------------------------------
(* The calls, up to their wait for the job.                                *)

Answer(r) == reply' = r /\ pc' = "idle"
Raise(kind) == Answer([None EXCEPT !.kind = kind])

\* Nothing is running any more: the caller goes on.
Back(r) == Answer(r) /\ job' = "none" /\ found' = <<>>

\* `expect`: the pending text is searched before anything is read.
Expect(kind) ==
  \/ /\ Hits(pending) # {}
     /\ pending' = After(pending) /\ Back(MatchOf(UpTo(pending)))
  \/ /\ Hits(pending) = {} /\ atEof /\ kind = "command_eof"
     /\ pending' = <<>> /\ Back([kind |-> "all", text |-> pending])
  \/ /\ Hits(pending) = {} /\ atEof /\ kind # "command_eof"
     /\ Back([None EXCEPT !.kind = "eof"]) /\ UNCHANGED pending
  \/ /\ Hits(pending) = {} /\ ~atEof
     /\ job' = "expect" /\ pc' = "reading"
     /\ reply' = None /\ UNCHANGED <<pending, found>>

\* stdin.write: a line written to a closed or broken pipe is gone.
Write ==
  /\ inq' = IF stdin = "open" THEN inq + 1 ELSE inq
  /\ job' = "send" /\ pc' = "sending"

StartSend ==
  /\ pc = "idle" /\ sends < MaxSends
  /\ \E k \in Sending, t \in BOOLEAN :
       /\ call' = [kind |-> k, timed |-> t]
       /\ sends' = sends + 1
       /\ \/ /\ k \in {"command", "command_eof"} /\ atEof
             /\ Raise("ended") /\ UNCHANGED <<inq, job>>
          \/ /\ k = "secret" /\ pc' = "echo" /\ reply' = None /\ UNCHANGED <<inq, job>>
          \/ /\ k # "secret" /\ (k = "send" \/ ~atEof)
             /\ reply' = None /\ Write
  /\ UNCHANGED <<alive, stdin, owed, said, bufVars, found, reader, cancels>>

\* _wait_no_echo finds the echo off, or gives up after 30 seconds.
EchoOff ==
  /\ pc = "echo" /\ Write
  /\ UNCHANGED <<alive, stdin, owed, said, bufVars, call, reply, sends, found, reader,
                 cancels>>

EchoStays ==
  /\ pc = "echo" /\ Raise("no_echo")
  /\ UNCHANGED <<procVars, bufVars, call, sends, job, found, reader, cancels>>

StartExpect ==
  /\ pc = "idle"
  /\ \E t \in BOOLEAN : call' = [kind |-> "expect", timed |-> t]
  /\ Expect("expect")
  /\ UNCHANGED <<procVars, stream, held, atEof, sends, reader, cancels>>

StartReadAll ==
  /\ pc = "idle"
  /\ \E t \in BOOLEAN : call' = [kind |-> "read_all", timed |-> t]
  /\ IF atEof THEN Back([kind |-> "all", text |-> pending]) /\ pending' = <<>>
     ELSE /\ job' = "read_all" /\ pc' = "reading" /\ reply' = None
          /\ UNCHANGED <<pending, found>>
  /\ UNCHANGED <<procVars, stream, held, atEof, sends, reader, cancels>>

ReadPending ==
  /\ pc = "idle"
  /\ Answer([kind |-> "pending", text |-> pending]) /\ pending' = <<>>
  /\ UNCHANGED <<procVars, stream, held, atEof, call, sends, job, found, reader, cancels>>

Close ==
  /\ pc = "idle" /\ stdin = "open" /\ stdin' = "closed"
  /\ UNCHANGED <<alive, inq, owed, said, bufVars, callVars, job, found, reader, cancels>>

----------------------------------------------------------------------------
(* The job, and the task that reads while _drain waits.                    *)

\* Leaving the try block of _drain: a reader that is not done is cancelled and awaited,
\* and its CancelledError replaces the outcome of the drain.
LeaveDrain(outcome) ==
  IF reader = "running" THEN job' = "joining" /\ reader' = "cancelling"
  ELSE job' = outcome /\ reader' = "none"

jobRest == <<procVars, bufVars, callVars, found, cancels>>

\* stream.drain() that need not wait returns without a pause: the reader has not begun.
DrainAtOnce ==
  /\ job = "send" /\ pc = "sending" /\ ~Paused
  /\ job' = "joining" /\ reader' = "cancelling"
  /\ UNCHANGED jobRest

\* Mutant: the drain waits without reading.
DrainWaitsAlone ==
  /\ job = "send" /\ pc = "sending" /\ Paused
  /\ job' = "draining" /\ reader' = "done"
  /\ UNCHANGED jobRest

DrainWaits ==
  /\ job = "send" /\ pc = "sending" /\ Paused
  /\ job' = "draining" /\ reader' = "running"
  /\ UNCHANGED jobRest

\* Mutant: the reader is cancelled but not awaited.
DrainEndsAtOnce ==
  /\ job = "draining" /\ (~Paused \/ Asked)
  /\ job' = "cancelled" /\ reader' = IF reader = "running" THEN "cancelling" ELSE "none"
  /\ UNCHANGED jobRest

\* The pipe has room again, or is broken; or the job is cancelled.
DrainEnds ==
  /\ job = "draining"
  /\ \/ ~Asked /\ ~Paused /\ LeaveDrain(IF stdin = "broken" THEN "reset" ELSE "ok")
     \/ Asked /\ LeaveDrain("cancelled")
  /\ UNCHANGED jobRest

ReaderCancelled ==
  /\ job = "joining" /\ reader = "cancelling"
  /\ job' = "cancelled" /\ reader' = "none"
  /\ UNCHANGED jobRest

\* _read_some as the task of _drain: an exception ends it, unseen.
ReaderReads ==
  /\ reader = "running"
  /\ \/ atEof /\ reader' = "done" /\ UNCHANGED bufVars
     \/ /\ ~atEof
        /\ \E n \in 0..ChunkSize :
             /\ TakeChunk(n) /\ pending' = Grown(n)
             /\ reader' = CASE Refused(n) -> "failed"
                            [] ~Refused(n) /\ n = 0 -> "done"
                            [] OTHER -> "running"
  /\ UNCHANGED <<procVars, callVars, job, found, cancels>>

\* _read_to_pattern: a chunk and the search after it.
ExpectReads ==
  /\ job = "expect" /\ ~Asked
  /\ \E n \in 0..ChunkSize :
       /\ TakeChunk(n)
       /\ LET text == Grown(n)
          IN  \/ /\ Hits(text) # {} /\ ~Refused(n)
                 /\ job' = "match" /\ found' = UpTo(text) /\ pending' = After(text)
              \/ /\ Hits(text) = {} \/ Refused(n)
                 /\ pending' = text
                 /\ job' = CASE Refused(n) -> "decode"
                             [] ~Refused(n) /\ n = 0 -> "eof"
                             [] OTHER -> "expect"
                 /\ UNCHANGED found
  /\ UNCHANGED <<procVars, callVars, reader, cancels>>

\* _read_some as the job of read_all.
AllReads ==
  /\ job = "read_all" /\ ~Asked
  /\ \E n \in 0..ChunkSize :
       /\ TakeChunk(n) /\ pending' = Grown(n)
       /\ job' = CASE Refused(n) -> "decode"
                   [] ~Refused(n) /\ n = 0 -> "ok"
                   [] OTHER -> "read_all"
  /\ UNCHANGED <<procVars, callVars, found, reader, cancels>>

\* A cancelled job that has not begun, or waits for a chunk.
JobCancelled ==
  /\ job \in {"send", "expect", "read_all"} /\ Asked
  /\ job' = "cancelled"
  /\ UNCHANGED <<procVars, bufVars, callVars, found, reader, cancels>>

Job == DrainAtOnce \/ DrainWaits \/ DrainEnds \/ ReaderCancelled \/ ReaderReads
       \/ ExpectReads \/ AllReads \/ JobCancelled

----------------------------------------------------------------------------
(* The caller's wait for the job: harvest_results.                         *)

\* `send` drops the CancelledError of its job; `command` goes on to expect the prompt.
Sent ==
  /\ pc = "sending" /\ JobOver
  /\ \/ job = "reset" /\ Back([None EXCEPT !.kind = "reset"]) /\ UNCHANGED pending
     \/ /\ job # "reset" /\ call.kind \in {"send", "secret"}
        /\ Back([None EXCEPT !.kind = "sent"]) /\ UNCHANGED pending
     \/ /\ job # "reset" /\ call.kind \in {"command", "command_eof"}
        /\ Expect(call.kind)
  /\ UNCHANGED <<procVars, stream, held, atEof, call, sends, reader, cancels>>

WaitEnds ==
  /\ pc = "reading" /\ JobOver
  /\ \/ job = "match" /\ Back(MatchOf(found)) /\ UNCHANGED pending
     \/ /\ job = "ok" \/ (job = "eof" /\ call.kind = "command_eof")
        /\ Back([kind |-> "all", text |-> pending]) /\ pending' = <<>>
     \/ /\ job = "decode" \/ (job = "eof" /\ call.kind # "command_eof")
        /\ Back([None EXCEPT !.kind = job]) /\ UNCHANGED pending
  /\ UNCHANGED <<procVars, stream, held, atEof, call, sends, reader, cancels>>

TimesOut ==
  /\ pc \in {"sending", "reading"} /\ call.timed /\ ~JobOver
  /\ pc' = "timed_out"
  /\ UNCHANGED <<procVars, bufVars, call, reply, sends, job, found, reader, cancels>>

\* A cancellation while the job is being cancelled already changes nothing.
Cancel ==
  /\ pc # "idle" /\ cancels < MaxCancels
  /\ cancels' = cancels + 1
  /\ \/ pc = "echo" /\ Raise("cancelled")
     \/ pc \in {"sending", "reading"} /\ pc' = "cancelled" /\ UNCHANGED reply
     \/ Asked /\ UNCHANGED <<pc, reply>>
  /\ UNCHANGED <<procVars, bufVars, call, sends, job, found, reader>>

\* The job is done: TimeoutError or CancelledError, whatever its result was.
Settled ==
  /\ Asked /\ JobOver
  /\ Back([None EXCEPT !.kind = IF pc = "timed_out" THEN "timeout" ELSE "cancelled"])
  /\ UNCHANGED <<procVars, bufVars, call, sends, reader, cancels>>

Waits == EchoOff \/ EchoStays \/ Sent \/ WaitEnds \/ Settled
Calls == StartSend \/ StartExpect \/ StartReadAll \/ ReadPending \/ Close

----------------------------------------------------------------------------
(* The process.                                                            *)

ProcReads ==
  /\ alive /\ stdin # "broken" /\ owed = <<>> /\ inq > 0
  /\ inq' = inq - 1
  /\ owed' \in Answers
  /\ UNCHANGED <<alive, stdin, said, bufVars, callVars, job, found, reader, cancels>>

ProcWrites ==
  /\ alive /\ owed # <<>> /\ Len(stream) < OutCap
  /\ owed' = Tail(owed)
  /\ said' = Append(said, Head(owed))
  /\ stream' = Append(stream, Len(said'))
  /\ UNCHANGED <<alive, stdin, inq, pending, held, atEof, callVars, job, found, reader,
                 cancels>>

\* It closes its input, or ends.
ProcBreaks ==
  /\ alive /\ stdin # "broken"
  /\ stdin' = "broken" /\ inq' = 0
  /\ \/ UNCHANGED <<alive, owed>>
     \/ alive' = FALSE /\ owed' = <<>>
  /\ UNCHANGED <<said, bufVars, callVars, job, found, reader, cancels>>

ProcEnds ==
  /\ alive /\ stdin = "broken"
  /\ alive' = FALSE /\ owed' = <<>>
  /\ UNCHANGED <<stdin, inq, said, bufVars, callVars, job, found, reader, cancels>>

Process == ProcReads \/ ProcWrites \/ ProcBreaks \/ ProcEnds

----------------------------------------------------------------------------
Init ==
  /\ alive = TRUE /\ stdin = "open" /\ inq = 0 /\ owed = <<>> /\ said = <<>>
  /\ stream = <<>> /\ pending = <<>> /\ held = <<>> /\ atEof = FALSE
  /\ pc = "idle" /\ call = [kind |-> "send", timed |-> FALSE] /\ reply = None
  /\ job = "none" /\ found = <<>> /\ reader = "none"
  /\ sends = 0 /\ cancels = 0

Next == Calls \/ Job \/ Waits \/ TimesOut \/ Cancel \/ Process

Spec == Init /\ [][Next]_vars

\* The event loop runs every task that can go on; and a process that is alive reads its
\* input as long as it can write its output.
FairSpec == Spec /\ WF_vars(Job) /\ WF_vars(ReaderReads) /\ WF_vars(Waits)
                 /\ WF_vars(ProcReads) /\ WF_vars(ProcWrites)

----------------------------------------------------------------------------
(* Properties.                                                             *)

\* Every variable has its type; and nobody reads stdout, and no job is left, when a
\* call has ended: asyncio refuses a second reader.
TypeOK ==
  /\ alive \in BOOLEAN /\ stdin \in {"open", "closed", "broken"}
  /\ inq \in 0..MaxSends /\ owed \in Seq(Byte) /\ said \in Seq(Byte)
  /\ \A s \in {stream, pending, held, found} : s \in Seq(DOMAIN said)
  /\ Len(stream) <= OutCap /\ Len(held) <= 1 /\ atEof \in BOOLEAN
  /\ pc \in {"idle", "echo", "sending", "reading", "timed_out", "cancelled"}
  /\ call \in Call /\ sends \in 0..MaxSends /\ cancels \in 0..MaxCancels
  /\ JobOver \/ job \in {"none", "send", "draining", "joining", "expect", "read_all"}
  /\ reader \in {"none", "running", "cancelling", "done", "failed"}
  /\ reader # "none" => job \in {"draining", "joining"}
  /\ pc = "idle" => job = "none"

\* The output reaches the callers whole and in order, each match the first one there is,
\* and what a failing call has read is there for the next: Prompt implements
\* PromptStream. A match counts as read when its caller gets it.
Stream == INSTANCE PromptStream WITH
  Bad <- "bad", over <- ~alive,
  rest <- found \o pending \o (IF atEof THEN <<>> ELSE held) \o stream
StreamKept == Stream!Spec

\* No call hangs that need not: `send` ends as long as the process answers, although
\* both pipes may be full, unless its reader has met a byte that it cannot decode;
\* `expect` ends once the prompt has been written; and a call that was cancelled or
\* timed out ends.
CallsEnd ==
  /\ (pc = "sending") ~> (pc # "sending" \/ reader = "failed")
  /\ (/\ job = "expect" /\ "bad" \notin ToSet(said)
      /\ Hits(pending \o held \o stream) # {}) ~> (job # "expect")
  /\ Asked ~> (pc = "idle")

=============================================================================
