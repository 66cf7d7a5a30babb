---------------------------- MODULE PromptStream ----------------------------
(***************************************************************************)
(* What the user of a Prompt may rely on, without chunks, decoders, buffers *)
(* and tasks: the output of the process is a text with one reading         *)
(* position. A call that succeeds returns the text from there on; a call   *)
(* that fails leaves it to the next one. There are two exceptions: a match *)
(* is lost with the cancelled call that found it, and so are chunks from    *)
(* the first byte on that cannot be decoded.                               *)
(***************************************************************************)
EXTENDS Naturals, SequencesExt

CONSTANTS
  Pattern,     \* what `expect` looks for, a sequence of bytes
  Bad,         \* a byte that cannot be decoded
  Byte         \* all the bytes

VARIABLES
  said,        \* all that the process has written
  rest,        \* the positions in `said` that are still to be read
  over,        \* the process has closed its output
  reply        \* the answer of the last call

vars == <<said, rest, over, reply>>

None == [kind |-> "none", text |-> <<>>]
Failures == {"eof", "ended", "timeout", "cancelled", "decode", "reset", "no_echo"}

Bytes(places) == [i \in DOMAIN places |-> said[places[i]]]

\* The pattern is in `places`, first at the places after `n`.
FoundAt(places, n) ==
  LET at(k) == k + Len(Pattern) <= Len(places)
               /\ Bytes(SubSeq(places, k + 1, k + Len(Pattern))) = Pattern
  IN  at(n) /\ \A k \in 0..(n - 1) : ~at(k)

HasPattern(places) == \E n \in 0..Len(places) : FoundAt(places, n)

Cut(places, i, j) == SubSeq(places, 1, i) \o SubSeq(places, j + 1, Len(places))

Init == said = <<>> /\ rest = <<>> /\ over = FALSE /\ reply = None

\* The process writes, and ends.
Say ==
  /\ ~over
  /\ \E b \in Byte : said' = Append(said, b)
  /\ rest' = Append(rest, Len(said'))
  /\ UNCHANGED <<over, reply>>

Leave == over' = TRUE /\ UNCHANGED <<said, rest, reply>>

Calls == reply' = None /\ UNCHANGED <<said, rest, over>>

\* `expect` returns the text before the first match, and goes on after it.
Matches ==
  \E n \in 0..Len(rest) :
    /\ FoundAt(rest, n)
    /\ rest' = SubSeq(rest, n + Len(Pattern) + 1, Len(rest))
    /\ reply' = [kind |-> "match", text |-> SubSeq(rest, 1, n)]
    /\ UNCHANGED <<said, over>>

\* `read_all`, `read_pending` and `command` at the end of the text return what comes
\* next, the first of them all of it.
Returns ==
  \E n \in 0..Len(rest) :
    /\ reply' \in {[kind |-> k, text |-> SubSeq(rest, 1, n)] : k \in {"pending", "all"}}
    /\ reply'.kind = "all" => over /\ n = Len(rest)
    /\ rest' = SubSeq(rest, n + 1, Len(rest))
    /\ UNCHANGED <<said, over>>

\* A call that fails, or has only sent something, leaves the text as it was. EOFError
\* says that there is no match to wait for ("ended" is that of `command`, which does
\* not look).
Fails ==
  /\ reply' \in [kind : Failures \cup {"sent"}, text : {<<>>}]
  /\ reply'.kind = "eof" => over /\ ~HasPattern(rest)
  /\ UNCHANGED <<said, rest, over>>

\* A call that is cancelled when it has just found the pattern.
MatchLost ==
  \E n \in 0..Len(rest) :
    /\ FoundAt(rest, n)
    /\ rest' = SubSeq(rest, n + Len(Pattern) + 1, Len(rest))
    /\ reply' = [None EXCEPT !.kind = "cancelled"]
    /\ UNCHANGED <<said, over>>

\* A chunk with a bad byte or after one, or half a character at the end of the text.
ChunkLost ==
  \E i, j \in 0..Len(rest) :
    /\ i < j
    /\ \/ \E k \in 1..rest[j] : said[k] = Bad
       \/ over /\ j = Len(rest)
    /\ rest' = Cut(rest, i, j)
    /\ UNCHANGED <<said, over, reply>>

Next == Say \/ Leave \/ Calls \/ Matches \/ Returns \/ Fails \/ MatchLost \/ ChunkLost

Spec == Init /\ [][Next]_vars

=============================================================================
