--------------------------- MODULE RedirectProofs ---------------------------
(***************************************************************************)
(* Theorems about Redirect: its safety properties for every capacity of    *)
(* the channels and every pair of redirections, whatever the input.        *)
(***************************************************************************)
EXTENDS Redirect, SequenceTheorems, WellFoundedInduction, TLAPS

----------------------------------------------------------------------------
(* The inductive invariant.                                                *)

\* The first n chunks of the input.
Joined(n) == FlattenSeq(SubSeq(opt.input, 1, n))

\* How many chunks the writing task has taken. write_stream has only one.
Given == IF opt.writer # "stream" THEN pos ELSE IF wpc = "next" THEN 0 ELSE 1

\* As long as the process lives, it has been sent the chunks that were taken, and what
\* ends the input of a terminal.
WriterInv ==
  /\ wpc = "done" <=> wend # "none"
  /\ wpc = "eofdrain" => opt.eof = "cooked"
  /\ opt.writer = "stream" => pos = 0
  /\ alive = TRUE /\ wend \in {"none", "ok"} =>
       /\ sent = IF wpc = "eofdrain" \/ (wpc = "done" /\ opt.eof = "cooked")
                 THEN Joined(Given) \o EofAfter(newline) ELSE Joined(Given)
       /\ newline = IF Given = 0 THEN TRUE ELSE EndsWithNewline(opt.input[Given])
       /\ wpc \in {"eof", "eofdrain", "done"} => Given = Len(opt.input)

\* What the sink is to hold of the output read so far.
Wanted == IF opt.sink = "limit" THEN Take(Take(put, got), opt.limit) ELSE Take(put, got)

\* copy_stringio holds everything back, copy_bytearray_limit discards beyond its limit.
CopierInv ==
  /\ cpc = "done" <=> cend # "none"
  /\ cend = "none" => IF opt.sink = "stringio" THEN buf = Take(put, got) /\ dest = <<>>
                      ELSE buf = <<>> /\ dest = Wanted
  /\ cpc = "read" /\ opt.sink = "limit" => got <= opt.limit
  /\ cpc = "discard" => opt.sink = "limit" /\ got > opt.limit
  /\ cpc \in {"prime", "hand", "closing"} => opt.sink \in {"writer", "asyncgen"}
  /\ cpc = "closing" \/ cend = "ok" => got = Len(put) /\ alive = FALSE
  /\ cend \in {"ok", "cancelled"} => dest = Wanted
  /\ opt.sink = "stringio" /\ cend # "none" =>
       IF Text(Take(put, got)) THEN dest = Take(put, got) /\ cend # "exc"
                               ELSE dest = <<>> /\ cend = "exc"

IInv == TypeOK /\ WriterInv /\ CopierInv

----------------------------------------------------------------------------
(* Sequences.                                                              *)

NatLess == {ss \in Nat \X Nat : ss[1] < ss[2]}

\* A set of numbers has a least one: what is false of some place of a sequence is false
\* of a first place.
LEMMA Least == ASSUME NEW S, S \subseteq Nat, S # {}
               PROVE  \E n \in S : \A m \in S : n <= m
<1>1. IsWellFoundedOn(NatLess, Nat)
  BY NatLessThanWellFounded, Zenon DEF NatLess, OpToRel
<1>2. PICK n \in S : \A m \in S : ~ (<<m, n>> \in NatLess)
  BY <1>1, WFMin
<1>3. ASSUME NEW m \in S PROVE n <= m
  <2> DEFINE ss == <<m, n>>
  <2>1. m < n => ss \in Nat \X Nat /\ ss[1] < ss[2]
    OBVIOUS
  <2>2. m < n => ss \in NatLess
    BY <2>1 DEF NatLess
  <2> QED BY <2>2, <1>2
<1> QED BY <1>3

\* The walk that FlattenSeq takes over the chunks s.
Walk(f, s, n) == f = [i \in 1..n |-> IF i = 1 THEN s[i] ELSE f[i - 1] \o s[i]]

\* A walk over any number of chunks exists.
LEMMA WalkExists == ASSUME NEW s, NEW n \in Nat \ {0} PROVE \E f : Walk(f, s, n)
<1> DEFINE stuck == {k \in Nat \ {0} : ~\E f : Walk(f, s, k)}
<1>0. /\ stuck \subseteq Nat \ {0}
      /\ \A k \in Nat \ {0} : k \notin stuck => \E f : Walk(f, s, k)
      /\ \A k \in stuck : ~\E f : Walk(f, s, k)
  OBVIOUS
<1> HIDE DEF stuck
<1>1. ASSUME stuck # {} PROVE FALSE
  <2>1. PICK k \in stuck : \A m \in stuck : k <= m
    BY <1>0, <1>1, Least
  <2>2. CASE k = 1
    <3>1. Walk([i \in 1..1 |-> s[i]], s, 1)
      BY DEF Walk
    <3> QED BY <1>0, <2>1, <2>2, <3>1
  <2>3. CASE k # 1
    <3>1. k \in Nat \ {0, 1} /\ k - 1 \in Nat \ {0}
      BY <1>0, <2>1, <2>3
    <3>2. PICK f : Walk(f, s, k - 1)
      BY <1>0, <2>1, <3>1
    <3> DEFINE last == f[k - 1] \o s[k]
               g == [i \in 1..k |-> IF i = k THEN last ELSE f[i]]
    <3>3. \A i \in 1..(k - 1) : g[i] = f[i]
      BY <3>1
    <3>4. \A i \in 1..(k - 1) : f[i] = IF i = 1 THEN s[i] ELSE f[i - 1] \o s[i]
      BY <3>2 DEF Walk
    <3>9. last = f[k - 1] \o s[k]
      OBVIOUS
    <3> HIDE DEF last
    <3>5. g[k] = last
      BY <3>1
    <3> HIDE DEF g
    <3>6. ASSUME NEW i \in 1..k
          PROVE  g[i] = IF i = 1 THEN s[i] ELSE g[i - 1] \o s[i]
      <4>1. CASE i = k
        <5>1. k - 1 \in 1..(k - 1) /\ i # 1
          BY <3>1, <4>1
        <5> QED BY <3>3, <3>5, <3>9, <4>1, <5>1
      <4>2. CASE i = 1
        BY <3>1, <3>3, <3>4, <4>2
      <4>3. CASE i # 1 /\ i # k
        <5>1. i \in 1..(k - 1) /\ i - 1 \in 1..(k - 1)
          BY <3>1, <4>3
        <5> QED BY <3>3, <3>4, <4>3, <5>1
      <4> QED BY <4>1, <4>2, <4>3
    <3>7. Walk(g, s, k)
      BY <3>6 DEF g, Walk
    <3> QED BY <1>0, <2>1, <3>7
  <2> QED BY <2>2, <2>3
<1> QED BY <1>0, <1>1

\* What FlattenSeq returns for a sequence that is not empty.
LEMMA FlattenWalks ==
  ASSUME NEW s, Len(s) \in Nat \ {0}
  PROVE  \E f : Walk(f, s, Len(s)) /\ FlattenSeq(s) = f[Len(s)]
<1>1. PICK g : Walk(g, s, Len(s))
  BY WalkExists
<1> DEFINE flatten == CHOOSE f : f = [i \in 1..Len(s) |->
                                        IF i = 1 THEN s[i] ELSE f[i - 1] \o s[i]]
<1>2. Walk(flatten, s, Len(s))
  BY <1>1 DEF Walk
<1>3. FlattenSeq(s) = flatten[Len(s)]
  BY DEF FlattenSeq
<1> QED BY <1>2, <1>3

LEMMA WalkAt == ASSUME NEW f, NEW s, NEW n, Walk(f, s, n)
                PROVE  \A i \in 1..n : f[i] = IF i = 1 THEN s[i] ELSE f[i - 1] \o s[i]
BY DEF Walk

\* Walks over the same chunks agree.
LEMMA WalksAgree ==
  ASSUME NEW s, NEW t, NEW n \in Nat \ {0}, NEW m \in 1..n, NEW f, NEW g,
         Walk(f, s, n), Walk(g, t, m), \A i \in 1..m : t[i] = s[i]
  PROVE  \A i \in 1..m : g[i] = f[i]
<1> DEFINE differ == {i \in 1..m : g[i] # f[i]}
<1>1. ASSUME differ # {} PROVE FALSE
  <2>1. differ \subseteq Nat
    OBVIOUS
  <2>2. PICK i \in differ : \A j \in differ : i <= j
    BY <1>1, <2>1, Least
  <2>3. /\ f[i] = IF i = 1 THEN s[i] ELSE f[i - 1] \o s[i]
        /\ g[i] = IF i = 1 THEN t[i] ELSE g[i - 1] \o t[i]
    <3>1. i \in 1..n
      OBVIOUS
    <3> QED BY <3>1, WalkAt
  <2>4. i # 1 => g[i - 1] = f[i - 1]
    <3>1. i # 1 => i - 1 \in 1..m /\ ~(i <= i - 1)
      OBVIOUS
    <3> QED BY <2>2, <3>1
  <2> QED BY <2>2, <2>3, <2>4
<1> QED BY <1>1

LEMMA FlattenOne == ASSUME NEW a, Len(a) = 1 PROVE FlattenSeq(a) = a[1]
<1>1. PICK f : Walk(f, a, Len(a)) /\ FlattenSeq(a) = f[Len(a)]
  <2>1. Len(a) \in Nat \ {0}
    OBVIOUS
  <2> QED BY <2>1, FlattenWalks
<1>2. \A i \in 1..1 : f[i] = IF i = 1 THEN a[i] ELSE f[i - 1] \o a[i]
  <2>1. Walk(f, a, 1)
    BY <1>1
  <2> QED BY <2>1, WalkAt
<1> QED BY <1>1, <1>2

LEMMA FlattenStep ==
  ASSUME NEW n \in Nat \ {0, 1}, NEW a, NEW b, Len(a) = n, Len(b) = n - 1,
         \A i \in 1..(n - 1) : b[i] = a[i]
  PROVE  FlattenSeq(a) = FlattenSeq(b) \o a[n]
<1> DEFINE m == n - 1
<1>0. m \in Nat \ {0} /\ m \in 1..n /\ m \in 1..m /\ n \in 1..n
  OBVIOUS
<1>1. PICK f : Walk(f, a, n) /\ FlattenSeq(a) = f[n]
  BY FlattenWalks
<1>2. PICK g : Walk(g, b, m) /\ FlattenSeq(b) = g[m]
  BY <1>0, FlattenWalks
<1>3. \A i \in 1..m : b[i] = a[i]
  OBVIOUS
<1>4. f[n] = f[m] \o a[n]
  <2>1. \A i \in 1..n : f[i] = IF i = 1 THEN a[i] ELSE f[i - 1] \o a[i]
    BY <1>1, WalkAt
  <2> QED BY <1>0, <2>1
<1> HIDE DEF m
<1>5. g[m] = f[m]
  BY <1>0, <1>1, <1>2, <1>3, WalksAgree
<1> QED BY <1>1, <1>2, <1>4, <1>5

\* FlattenSeq adds one chunk after the other.
LEMMA Flattens ==
  ASSUME NEW s, s \in Seq(Seq(Item))
  PROVE  /\ FlattenSeq(SubSeq(s, 1, 0)) = <<>>
         /\ FlattenSeq(SubSeq(s, 1, Len(s))) = FlattenSeq(s)
         /\ \A n \in 1..Len(s) :
              FlattenSeq(SubSeq(s, 1, n)) = FlattenSeq(SubSeq(s, 1, n - 1)) \o s[n]
         /\ \A n \in 0..Len(s) : FlattenSeq(SubSeq(s, 1, n)) \in Seq(Item)
<1> DEFINE joined(n) == FlattenSeq(SubSeq(s, 1, n))
<1>0. s \in Seq(Seq(Item))
  OBVIOUS
<1>1. SubSeq(s, 1, 0) = <<>> /\ SubSeq(s, 1, Len(s)) = s
  BY SubSeqEmpty, SubSeqFull
<1>2. joined(0) = <<>>
  <2>1. FlattenSeq(<<>>) = <<>>
    BY DEF FlattenSeq
  <2> QED BY <1>1, <2>1
<1>3. \A n \in 1..Len(s) : /\ Len(SubSeq(s, 1, n)) = n
                           /\ \A i \in 1..n : SubSeq(s, 1, n)[i] = s[i]
  BY SubSeqProperties, ElementOfSeq
<1>4. ASSUME NEW n \in Nat, n \in 1..Len(s) PROVE joined(n) = joined(n - 1) \o s[n]
  <2>1. n \in Nat \ {0} /\ s[n] \in Seq(Item)
    BY <1>4, ElementOfSeq
  <2>4. CASE n = 1
    <3>1. joined(n - 1) = <<>> /\ s[1] \in Seq(Item) /\ <<>> \o s[1] = s[1]
      BY <1>2, <2>1, <2>4, ConcatEmptySeq
    <3>2. joined(1) = s[1]
      <4>1. Len(SubSeq(s, 1, 1)) = 1 /\ SubSeq(s, 1, 1)[1] = s[1]
        BY <1>3, <1>4, <2>4
      <4> QED BY <4>1, FlattenOne
    <3> HIDE DEF joined
    <3> QED BY <2>4, <3>1, <3>2
  <2>5. CASE n # 1
    <3>1. n \in Nat \ {0, 1} /\ n - 1 \in 1..Len(s)
      BY <1>4, <2>1, <2>5
    <3>2. /\ Len(SubSeq(s, 1, n)) = n /\ Len(SubSeq(s, 1, n - 1)) = n - 1
          /\ SubSeq(s, 1, n)[n] = s[n]
          /\ \A i \in 1..(n - 1) : SubSeq(s, 1, n - 1)[i] = SubSeq(s, 1, n)[i]
      BY <1>3, <1>4, <3>1
    <3> QED BY <3>1, <3>2, FlattenStep
  <2> QED BY <2>4, <2>5
<1>5. \A n \in 1..Len(s) : joined(n) = joined(n - 1) \o s[n]
  <2> TAKE n \in 1..Len(s)
  <2>1. n \in Nat /\ n \in 1..Len(s)
    OBVIOUS
  <2> HIDE DEF joined
  <2> QED BY <1>4, <2>1
<1>6. \A n \in 0..Len(s) : joined(n) \in Seq(Item)
  <2> DEFINE wrong == {n \in 0..Len(s) : joined(n) \notin Seq(Item)}
  <2>1. ASSUME wrong # {} PROVE FALSE
    <3>1. wrong \subseteq Nat
      OBVIOUS
    <3>2. PICK n \in wrong : \A m \in wrong : n <= m
      BY <2>1, <3>1, Least
    <3>3. n # 0
      BY <1>2, <3>2, EmptySeq
    <3>4. n \in 1..Len(s) /\ n - 1 \in 0..Len(s) /\ ~(n <= n - 1)
      BY <3>3
    <3>5. joined(n - 1) \in Seq(Item)
      BY <3>2, <3>4
    <3>6. joined(n - 1) \o s[n] \in Seq(Item)
      BY <3>4, <3>5, ElementOfSeq, ConcatProperties
    <3> QED BY <1>5, <3>2, <3>4, <3>6
  <2> QED BY <2>1
<1> QED BY <1>1, <1>2, <1>5, <1>6

\* Take returns a prefix.
LEMMA Takes ==
  ASSUME NEW s, s \in Seq(Item), NEW n \in Nat
  PROVE  /\ Take(s, n) \in Seq(Item)
         /\ Len(Take(s, n)) = IF n < Len(s) THEN n ELSE Len(s)
         /\ \A i \in 1..Len(Take(s, n)) : Take(s, n)[i] = s[i]
<1> DEFINE k == IF n < Len(s) THEN n ELSE Len(s)
<1>0. s \in Seq(Item) /\ Len(s) \in Nat
  BY LenProperties
<1>1. k \in Nat /\ k <= Len(s) /\ k \in Int
  BY <1>0
<1>2. \A i \in 1..k : s[i] \in Item
  <2> TAKE i \in 1..k
  <2>1. i \in 1..Len(s)
    BY <1>0, <1>1
  <2> QED BY <1>0, <2>1, ElementOfSeq
<1> HIDE DEF k
<1>3. /\ SubSeq(s, 1, k) \in Seq(Item)
      /\ Len(SubSeq(s, 1, k)) = IF 1 <= k THEN k - 1 + 1 ELSE 0
      /\ \A i \in 1..(k - 1 + 1) : SubSeq(s, 1, k)[i] = s[1 + i - 1]
  BY <1>1, <1>2, SubSeqProperties
<1>4. Len(SubSeq(s, 1, k)) = k /\ \A i \in 1..k : SubSeq(s, 1, k)[i] = s[i]
  BY <1>1, <1>3
<1>5. Take(s, n) = SubSeq(s, 1, k)
  BY DEF Take, k
<1> QED BY <1>3, <1>4, <1>5 DEF k

\* What a prefix of s is.
LEMMA TakeIs ==
  ASSUME NEW s, s \in Seq(Item), NEW n \in Nat, n <= Len(s), NEW t, t \in Seq(Item),
         Len(t) = n, \A i \in 1..n : t[i] = s[i]
  PROVE  Take(s, n) = t
<1>0. s \in Seq(Item) /\ t \in Seq(Item) /\ Len(t) = n /\ Len(s) \in Nat
  BY LenProperties
<1>1. Take(s, n) \in Seq(Item) /\ Len(Take(s, n)) = n /\ \A i \in 1..n : Take(s, n)[i] = s[i]
  BY <1>0, Takes
<1>2. \A i \in 1..Len(t) : Take(s, n)[i] = t[i]
  BY <1>0, <1>1
<1> QED BY <1>0, <1>1, <1>2, SeqEqual

\* What is appended to a sequence does not change its prefixes.
LEMMA TakeAppends ==
  ASSUME NEW s, s \in Seq(Item), NEW e \in Item, NEW n \in Nat, n <= Len(s)
  PROVE  Take(Append(s, e), n) = Take(s, n)
<1>0. s \in Seq(Item) /\ Len(s) \in Nat
  BY LenProperties
<1>1. /\ Append(s, e) \in Seq(Item) /\ Len(Append(s, e)) = Len(s) + 1
      /\ \A i \in 1..Len(s) : Append(s, e)[i] = s[i]
  BY <1>0, AppendProperties
<1>2. Take(s, n) \in Seq(Item) /\ Len(Take(s, n)) = n /\ \A i \in 1..n : Take(s, n)[i] = s[i]
  BY <1>0, Takes
<1>3. n <= Len(Append(s, e)) /\ \A i \in 1..n : Take(s, n)[i] = Append(s, e)[i]
  BY <1>0, <1>1, <1>2
<1> HIDE DEF Take
<1> QED BY <1>1, <1>2, <1>3, TakeIs

\* What is read next extends the prefix that was read.
LEMMA TakeExtends ==
  ASSUME NEW s, s \in Seq(Item), NEW n \in Nat, NEW k \in Nat, n <= k, k <= Len(s)
  PROVE  Take(s, n) \o SubSeq(s, n + 1, k) = Take(s, k)
<1>0. s \in Seq(Item) /\ Len(s) \in Nat
  BY LenProperties
<1>1. 1 \in 1..Len(s) + 1 /\ n \in (1 - 1)..Len(s) /\ k \in n..Len(s)
  BY <1>0
<1>2. SubSeq(s, 1, n) \o SubSeq(s, n + 1, k) = SubSeq(s, 1, k)
  BY <1>0, <1>1, ConcatAdjacentSubSeq
<1>3. Take(s, n) = SubSeq(s, 1, n) /\ Take(s, k) = SubSeq(s, 1, k)
  <2>1. n = (IF n < Len(s) THEN n ELSE Len(s)) /\ k = (IF k < Len(s) THEN k ELSE Len(s))
    BY <1>0
  <2> QED BY <2>1 DEF Take
<1> QED BY <1>2, <1>3

\* A limit beyond the end of a sequence changes nothing.
LEMMA TakeAll ==
  ASSUME NEW s, s \in Seq(Item), NEW n \in Nat, Len(s) <= n
  PROVE  Take(s, n) = s
<1>1. s \in Seq(Item) /\ Len(s) \in Nat
  BY LenProperties
<1>2. Take(s, n) = SubSeq(s, 1, Len(s))
  <2>1. Len(s) = IF n < Len(s) THEN n ELSE Len(s)
    BY <1>1
  <2> QED BY <2>1 DEF Take
<1> QED BY <1>1, <1>2, SubSeqFull

LEMMA TakeNone == ASSUME NEW n \in Nat PROVE Take(<<>>, n) = <<>>
<1>1. <<>> \in Seq(Item) /\ Len(<<>>) <= n
  BY EmptySeq
<1> HIDE DEF Take
<1> QED BY <1>1, TakeAll

\* Beyond a limit nothing is added.
LEMMA TakeLimits ==
  ASSUME NEW s, s \in Seq(Item), NEW n \in Nat, NEW k \in Nat, NEW limit \in Nat,
         limit <= n, n <= k, k <= Len(s)
  PROVE  Take(Take(s, k), limit) = Take(Take(s, n), limit)
<1>0. s \in Seq(Item) /\ Len(s) \in Nat
  BY LenProperties
<1>1. /\ Take(s, k) \in Seq(Item) /\ Len(Take(s, k)) = k
      /\ \A i \in 1..k : Take(s, k)[i] = s[i]
  BY <1>0, Takes
<1>2. /\ Take(s, n) \in Seq(Item) /\ Len(Take(s, n)) = n
      /\ \A i \in 1..n : Take(s, n)[i] = s[i]
  BY <1>0, Takes
<1>3. /\ Take(Take(s, n), limit) \in Seq(Item) /\ Len(Take(Take(s, n), limit)) = limit
      /\ \A i \in 1..limit : Take(Take(s, n), limit)[i] = Take(s, n)[i]
  BY <1>2, Takes
<1>4. limit <= Len(Take(s, k))
      /\ \A i \in 1..limit : Take(Take(s, n), limit)[i] = Take(s, k)[i]
  BY <1>1, <1>2, <1>3
<1> QED BY <1>1, <1>3, <1>4, TakeIs

----------------------------------------------------------------------------
(* The state.                                                              *)

\* What the redirections are.
LEMMA Redirections ==
  ASSUME TypeOK
  PROVE  /\ opt.input \in Seq(Seq(Item)) /\ opt.limit \in Nat
         /\ opt.writer \in {"stream", "reader", "asyncgen"}
         /\ opt.eof \in {"close", "cooked", "raw"}
         /\ opt.sink \in {"stringio", "bytes", "limit", "writer", "asyncgen"}
         /\ opt.writer = "stream" => Len(opt.input) = 1
         /\ Len(opt.input) \in Nat
BY OptionsAssumption, LenProperties DEF TypeOK

\* The input, chunk by chunk.
LEMMA Joins ==
  ASSUME TypeOK
  PROVE  /\ Joined(0) = <<>> /\ Joined(Len(opt.input)) = Input
         /\ \A n \in 0..Len(opt.input) : Joined(n) \in Seq(Item)
         /\ \A n \in 1..Len(opt.input) : /\ opt.input[n] \in Seq(Item)
                                         /\ Joined(n) = Joined(n - 1) \o opt.input[n]
<1>1. opt.input \in Seq(Seq(Item))
  BY Redirections
<1>2. \A n \in 1..Len(opt.input) : opt.input[n] \in Seq(Item)
  BY <1>1, ElementOfSeq
<1> QED BY <1>1, <1>2, Flattens DEF Joined, Input

LEMMA Starts == Init => IInv
<1> SUFFICES ASSUME Init PROVE IInv
  OBVIOUS
<1>1. TypeOK
  <2>1. opt.input \in Seq(Seq(Item))
    BY OptionsAssumption DEF Init
  <2>2. Len(opt.input) \in Nat
    BY <2>1, LenProperties
  <2>3. /\ <<>> \in Seq(Item) /\ <<>> \in Seq(Item \cup {Eof})
        /\ 0 \in 0..Len(<<>>) /\ 0 \in 0..Len(opt.input)
    BY <2>2, EmptySeq
  <2> QED BY <2>3 DEF Init, TypeOK
<1>2. Given = 0
  BY DEF Init, Given
<1>3. WriterInv
  BY <1>1, <1>2, Joins DEF Init, WriterInv
<1>4. Take(put, got) = <<>> /\ Wanted = <<>>
  <2>1. put = <<>> /\ got = 0 /\ opt.limit \in Nat
    BY <1>1, Redirections DEF Init
  <2>2. Take(put, got) = <<>>
    BY <2>1, TakeNone
  <2>3. Take(<<>>, opt.limit) = <<>>
    BY <2>1, TakeNone
  <2> QED BY <2>2, <2>3 DEF Wanted
<1>5. CopierInv
  BY <1>1, <1>4, Redirections DEF Init, CopierInv
<1> QED BY <1>1, <1>3, <1>5 DEF IInv

----------------------------------------------------------------------------
(* The writing task.                                                       *)

\* Nothing else changes while it writes.
LEMMA WriterFrame ==
  ASSUME IInv, UNCHANGED <<opt, procVars, copierVars>>
  PROVE  CopierInv' /\ UNCHANGED <<alive, taken, put, cpc, got, buf, dest, cend>>
BY DEF IInv, procVars, copierVars, CopierInv, Wanted, Take, Text

\* What is sent is of the type of `sent`, and the process has not read it yet.
LEMMA Sends ==
  ASSUME TypeOK, NEW data, data \in Seq(Item \cup {Eof}), Send(data)
  PROVE  /\ sent' \in Seq(Item \cup {Eof}) /\ Len(sent) <= Len(sent')
         /\ Len(sent') \in Nat /\ Len(sent) \in Nat
         /\ alive = TRUE => sent' = sent \o data
<1>1. sent \in Seq(Item \cup {Eof}) /\ Len(sent) \in Nat /\ alive \in BOOLEAN
      /\ data \in Seq(Item \cup {Eof}) /\ Len(data) \in Nat
  BY LenProperties DEF TypeOK
<1>2. sent \o data \in Seq(Item \cup {Eof}) /\ Len(sent \o data) = Len(sent) + Len(data)
  BY <1>1, ConcatProperties
<1> QED BY <1>1, <1>2 DEF Send

LEMMA ChunkType == ASSUME NEW data, data \in Seq(Item) PROVE data \in Seq(Item \cup {Eof})
<1>1. Item \subseteq Item \cup {Eof}
  OBVIOUS
<1> QED BY <1>1, SeqMonotonic

LEMMA WriteStreamKeeps == IInv /\ WriteStream => IInv'
<1> SUFFICES ASSUME IInv, WriteStream PROVE IInv'
  OBVIOUS
<1>0. CopierInv' /\ UNCHANGED <<opt, pos, closed, alive, taken, put, cpc, got, buf, dest, cend>>
  BY WriterFrame DEF WriteStream
<1> DEFINE data == opt.input[1]
<1>1. /\ opt.writer = "stream" /\ wpc = "next" /\ Len(opt.input) = 1 /\ pos = 0
      /\ data \in Seq(Item) /\ data \in Seq(Item \cup {Eof})
      /\ Joined(0) = <<>> /\ Joined(1) = <<>> \o data /\ wend = "none"
      /\ \A n \in 0..1 : Joined(n) \in Seq(Item)
  <2>1. opt.writer = "stream" /\ wpc = "next" /\ pos = 0 /\ wend = "none" /\ TypeOK
    BY DEF IInv, WriteStream, WriterInv
  <2>2. Len(opt.input) = 1
    BY <2>1, Redirections
  <2>3. /\ data \in Seq(Item) /\ Joined(0) = <<>> /\ Joined(1) = Joined(0) \o data
        /\ \A n \in 0..1 : Joined(n) \in Seq(Item)
    BY <2>1, <2>2, Joins
  <2> HIDE DEF data
  <2> QED BY <2>1, <2>2, <2>3, ChunkType
<1>2. Joined(1) = data /\ <<>> \o data = data
  BY <1>1, ConcatEmptySeq
<1>3. /\ sent' \in Seq(Item \cup {Eof}) /\ Len(sent) <= Len(sent')
      /\ Len(sent') \in Nat /\ Len(sent) \in Nat
      /\ \/ data = <<>> /\ wpc' = "eof" /\ sent' = sent /\ wend' = "none"
         \/ data # <<>> /\ alive = FALSE /\ wpc' = "done" /\ wend' = "exc"
         \/ data # <<>> /\ alive = TRUE /\ sent' = sent \o data /\ wpc' = "drain"
            /\ wend' = "none"
  <2>1. sent \in Seq(Item \cup {Eof}) /\ Len(sent) \in Nat /\ alive \in BOOLEAN
    BY LenProperties DEF IInv, TypeOK
  <2> HIDE DEF data
  <2>2. CASE data = <<>> /\ wpc' = "eof" /\ UNCHANGED <<sent, wend>>
    BY <1>1, <2>1, <2>2
  <2>3. CASE data # <<>> /\ ~alive /\ WriterEnds("exc") /\ UNCHANGED sent
    BY <2>1, <2>3 DEF WriterEnds
  <2>4. CASE data # <<>> /\ alive /\ Send(data) /\ wpc' = "drain" /\ UNCHANGED wend
    <3>1. TypeOK
      BY DEF IInv
    <3> QED BY <1>1, <2>1, <2>4, <3>1, Sends
  <2> QED BY <2>2, <2>3, <2>4 DEF WriteStream, data
<1>4. newline' = EndsWithNewline(data)
  BY DEF WriteStream
<1>5. TypeOK'
  <2>1. newline' \in BOOLEAN
    BY <1>4 DEF EndsWithNewline
  <2> QED BY <1>0, <1>1, <1>3, <2>1 DEF IInv, TypeOK
<1>6. WriterInv'
  <2>1. Given = 0 /\ Given' = 1
    BY <1>0, <1>1, <1>3 DEF Given
  <2>2. Joined(Given)' = data /\ opt.input[Given]' = data /\ Len(opt.input)' = 1
    BY <1>0, <1>1, <1>2, <2>1 DEF Joined
  <2>3. alive = TRUE => sent = <<>>
    BY <1>1, <2>1 DEF IInv, WriterInv
  <2> HIDE DEF data
  <2>4. alive = TRUE => sent' = data
    BY <1>2, <1>3, <2>3
  <2> QED BY <1>0, <1>1, <1>3, <1>4, <2>1, <2>2, <2>4 DEF WriterInv
<1> QED BY <1>0, <1>5, <1>6 DEF IInv

LEMMA WriteChunkKeeps == IInv /\ WriteChunk => IInv'
<1> SUFFICES ASSUME IInv, WriteChunk PROVE IInv'
  OBVIOUS
<1>0. /\ CopierInv'
      /\ UNCHANGED <<opt, closed, wend, alive, taken, put, cpc, got, buf, dest, cend>>
  BY WriterFrame DEF WriteChunk
<1> DEFINE data == opt.input[pos + 1]
<1>1. /\ TypeOK /\ opt.writer # "stream" /\ wpc = "next" /\ wend = "none"
      /\ pos \in Nat /\ pos' = pos + 1 /\ pos + 1 \in 1..Len(opt.input)
      /\ newline' = EndsWithNewline(data)
  BY Redirections DEF IInv, WriteChunk, WriterInv, TypeOK
<1>2. /\ data \in Seq(Item) /\ Joined(pos + 1) = Joined(pos) \o data
      /\ data \in Seq(Item \cup {Eof})
  <2>1. \A n \in 1..Len(opt.input) : /\ opt.input[n] \in Seq(Item)
                                     /\ Joined(n) = Joined(n - 1) \o opt.input[n]
    BY <1>1, Joins
  <2> DEFINE n == pos + 1
  <2>2. n \in 1..Len(opt.input) /\ n - 1 = pos
    BY <1>1
  <2>3. Joined(n) = Joined(n - 1) \o opt.input[n] /\ opt.input[n] \in Seq(Item)
    <3> HIDE DEF n
    <3> QED BY <2>1, <2>2
  <2>4. Joined(n - 1) = Joined(pos)
    <3> HIDE DEF n
    <3> QED BY <2>2
  <2>5. Joined(n) = Joined(pos) \o opt.input[n]
    <3> HIDE DEF n
    <3> QED BY <2>3, <2>4
  <2> QED BY <2>3, <2>5, ChunkType
<1>3. /\ sent' \in Seq(Item \cup {Eof}) /\ Len(sent) <= Len(sent')
      /\ Len(sent') \in Nat /\ Len(sent) \in Nat
      /\ wpc' \in {"eof", "drain"}
      /\ alive = TRUE => sent' = sent \o data /\ wpc' = "drain"
  <2>1. sent \in Seq(Item \cup {Eof}) /\ Len(sent) \in Nat /\ alive \in BOOLEAN
    BY <1>1, LenProperties DEF TypeOK
  <2>2. \/ ~alive /\ wpc' = "eof" /\ UNCHANGED sent
        \/ Send(data) /\ wpc' = "drain"
    BY <1>1 DEF WriteChunk
  <2> HIDE DEF data
  <2>3. CASE ~alive /\ wpc' = "eof" /\ UNCHANGED sent
    BY <2>1, <2>3
  <2>4. CASE Send(data) /\ wpc' = "drain"
    BY <1>1, <1>2, <2>4, Sends
  <2> QED BY <2>2, <2>3, <2>4
<1> HIDE DEF data
<1>4. TypeOK'
  <2>1. newline' \in BOOLEAN
    BY <1>1 DEF EndsWithNewline
  <2> QED BY <1>0, <1>1, <1>3, <2>1 DEF TypeOK
<1>5. WriterInv'
  <2>1. Given = pos /\ Given' = pos + 1
    BY <1>0, <1>1 DEF Given
  <2>2. Joined(Given)' = Joined(pos) \o data /\ (opt.input[Given])' = data
    BY <1>0, <1>2, <2>1 DEF Joined, data
  <2>3. alive = TRUE => sent = Joined(pos)
    BY <1>1, <2>1 DEF IInv, WriterInv
  <2>4. alive = TRUE => sent' = Joined(Given)' /\ wpc' = "drain"
    BY <1>3, <2>2, <2>3
  <2>5. newline' = EndsWithNewline((opt.input[Given])') /\ Given' # 0
    BY <1>1, <2>1, <2>2
  <2> QED BY <1>0, <1>1, <1>3, <2>4, <2>5 DEF WriterInv
<1> QED BY <1>0, <1>4, <1>5 DEF IInv

\* The steps that take no chunk.
LEMMA WaitsKeep ==
  IInv /\ (\/ SourceEnds \/ SourceFails \/ WriteDrained \/ EofDrained
             \/ WriterCancelled) => IInv'
<1> SUFFICES ASSUME IInv,
                    \/ SourceEnds \/ SourceFails \/ WriteDrained \/ EofDrained
                    \/ WriterCancelled
             PROVE  IInv'
  OBVIOUS
<1>0. /\ CopierInv'
      /\ UNCHANGED <<opt, pos, newline, sent, closed, alive, taken, put, cpc, got, buf, dest,
                     cend>>
  BY WriterFrame DEF SourceEnds, SourceFails, WriteDrained, EofDrained, WriterCancelled
<1>1. /\ wpc \in {"next", "drain", "eofdrain"} /\ wpc = "next" => opt.writer # "stream"
      /\ wpc' # "next" \/ wpc = "drain"
  BY DEF SourceEnds, SourceFails, WriteDrained, EofDrained, WriterCancelled, WriterEnds
<1>2. TypeOK'
  BY <1>0 DEF IInv, TypeOK, SourceEnds, SourceFails, WriteDrained, EofDrained, WriterCancelled,
                   WriterEnds
<1>3. WriterInv'
  <2>1. opt.writer # "stream" => Given' = Given
    BY <1>0 DEF Given
  <2>2. opt.writer = "stream" => Given = 1 /\ Given' = 1 /\ Len(opt.input) = 1
    BY <1>0, <1>1, Redirections
       DEF Given, IInv, SourceEnds, SourceFails, WriteDrained, EofDrained, WriterCancelled,
           WriterEnds
  <2>3. Given' = Given /\ Joined(Given)' = Joined(Given)
        /\ (opt.input[Given])' = opt.input[Given]
    BY <1>0, <2>1, <2>2 DEF Joined
  <2>4. CASE SourceEnds
    <3>1. Given = Len(opt.input) /\ wpc' = "eof" /\ wpc = "next" /\ wend' = wend
      BY <2>4 DEF SourceEnds, Given
    <3>2. Len(opt.input)' = Len(opt.input)
      BY <1>0
    <3> QED BY <1>0, <2>3, <3>1, <3>2 DEF IInv, WriterInv
  <2>5. CASE WriteDrained
    BY <1>0, <2>2, <2>3, <2>5 DEF IInv, TypeOK, WriterInv, WriteDrained
  <2>6. CASE EofDrained
    BY <1>0, <2>3, <2>6 DEF IInv, WriterInv, EofDrained, WriterEnds
  <2>7. CASE WriterCancelled
    BY <1>0, <2>7 DEF IInv, WriterInv, WriterCancelled, WriterEnds
  <2>8. CASE SourceFails
    BY <1>0, <2>8 DEF IInv, WriterInv, SourceFails, WriterEnds
  <2> QED BY <2>4, <2>5, <2>6, <2>7, <2>8
<1> QED BY <1>0, <1>2, <1>3 DEF IInv

LEMMA CheckEofKeeps == IInv /\ CheckEof => IInv'
<1> SUFFICES ASSUME IInv, CheckEof PROVE IInv'
  OBVIOUS
<1>0. /\ CopierInv'
      /\ UNCHANGED <<opt, pos, newline, alive, taken, put, cpc, got, buf, dest, cend>>
  BY WriterFrame DEF CheckEof
<1> DEFINE end == EofAfter(newline)
<1>1. /\ TypeOK /\ wpc = "eof" /\ wend = "none"
      /\ end \in Seq(Item \cup {Eof})
  <2>1. TypeOK /\ wpc = "eof" /\ wend = "none"
    BY DEF IInv, CheckEof, WriterInv
  <2>2. <<Eof>> \in Seq(Item \cup {Eof}) /\ <<Eof, Eof>> \in Seq(Item \cup {Eof})
    OBVIOUS
  <2> QED BY <2>1, <2>2 DEF EofAfter
<1>2. /\ sent' \in Seq(Item \cup {Eof}) /\ Len(sent) <= Len(sent')
      /\ Len(sent') \in Nat /\ Len(sent) \in Nat /\ closed' \in BOOLEAN
      /\ \/ opt.eof # "cooked" /\ sent' = sent /\ wpc' = "done" /\ wend' = "ok"
         \/ opt.eof = "cooked" /\ wpc' = "eofdrain" /\ wend' = "none"
            /\ (alive = TRUE => sent' = sent \o end)
  <2>1. sent \in Seq(Item \cup {Eof}) /\ Len(sent) \in Nat /\ closed \in BOOLEAN
    BY <1>1, LenProperties DEF TypeOK
  <2>2. \/ /\ opt.eof # "cooked" /\ sent' = sent /\ wpc' = "done" /\ wend' = "ok"
           /\ closed' \in {TRUE, closed}
        \/ /\ opt.eof = "cooked" /\ wpc' = "eofdrain" /\ wend' = wend /\ Send(end)
           /\ closed' = closed
    BY DEF CheckEof, WriterEnds
  <2> HIDE DEF end
  <2>3. CASE opt.eof = "cooked" /\ Send(end)
    <3>1. /\ sent' \in Seq(Item \cup {Eof}) /\ Len(sent) <= Len(sent')
          /\ Len(sent') \in Nat /\ (alive = TRUE => sent' = sent \o end)
      BY <1>1, <2>3, Sends
    <3> QED BY <1>1, <2>1, <2>2, <2>3, <3>1
  <2>4. CASE opt.eof # "cooked"
    <3>1. sent' = sent /\ wpc' = "done" /\ wend' = "ok" /\ closed' \in {TRUE, closed}
      BY <2>2, <2>4
    <3>2. closed' \in BOOLEAN
      BY <2>1, <3>1
    <3>3. sent' \in Seq(Item \cup {Eof}) /\ Len(sent) <= Len(sent') /\ Len(sent') \in Nat
      BY <2>1, <3>1
    <3> QED BY <2>1, <2>4, <3>1, <3>2, <3>3
  <2> QED BY <2>2, <2>3, <2>4
<1>3. TypeOK'
  BY <1>0, <1>1, <1>2 DEF TypeOK
<1>4. WriterInv'
  <2>1. Given' = Given /\ Joined(Given)' = Joined(Given)
        /\ (opt.input[Given])' = opt.input[Given] /\ end' = end
    BY <1>0, <1>1, <1>2 DEF Given, Joined
  <2>2. /\ alive = TRUE => sent = Joined(Given) /\ Given = Len(opt.input)
        /\ alive = TRUE =>
             newline = IF Given = 0 THEN TRUE ELSE EndsWithNewline(opt.input[Given])
    BY <1>1 DEF IInv, WriterInv
  <2> QED BY <1>0, <1>1, <1>2, <2>1, <2>2 DEF IInv, WriterInv
<1> QED BY <1>0, <1>3, <1>4 DEF IInv

----------------------------------------------------------------------------
(* The process.                                                            *)

LEMMA EchoKeeps == IInv /\ Echo => IInv'
<1> SUFFICES ASSUME IInv, Echo PROVE IInv'
  OBVIOUS
<1>0. UNCHANGED <<opt, wpc, pos, newline, sent, closed, wend, alive, cpc, got, buf, dest, cend>>
  BY DEF Echo, writerVars, copierVars
<1>1. /\ TypeOK /\ alive = TRUE /\ taken \in Nat /\ taken < Len(sent) /\ taken' = taken + 1
      /\ sent \in Seq(Item \cup {Eof}) /\ Len(sent) \in Nat
      /\ put \in Seq(Item) /\ Len(put) \in Nat /\ got \in Nat /\ got <= Len(put)
  BY LenProperties DEF IInv, TypeOK, Echo
<1>2. \/ put' = put
      \/ sent[taken + 1] \in Item /\ put' = Append(put, sent[taken + 1])
  <2>1. sent[taken + 1] \in Item \cup {Eof}
    <3>1. taken + 1 \in 1..Len(sent)
      BY <1>1
    <3> QED BY <1>1, <3>1, ElementOfSeq
  <2>2. put' = IF sent[taken + 1] = Eof THEN put ELSE Append(put, sent[taken + 1])
    BY <1>1 DEF Echo
  <2> QED BY <2>1, <2>2
<1>3. /\ put' \in Seq(Item) /\ Len(put') \in Nat /\ Len(put) <= Len(put')
      /\ Take(put', got) = Take(put, got)
  <2>1. CASE put' = put
    BY <1>1, <2>1
  <2>2. CASE sent[taken + 1] \in Item /\ put' = Append(put, sent[taken + 1])
    <3> DEFINE e == sent[taken + 1]
    <3>1. e \in Item /\ put' = Append(put, e)
      BY <2>2
    <3> HIDE DEF e
    <3>2. Append(put, e) \in Seq(Item) /\ Len(Append(put, e)) = Len(put) + 1
      BY <1>1, <3>1, AppendProperties
    <3>3. Take(Append(put, e), got) = Take(put, got)
      BY <1>1, <3>1, TakeAppends
    <3> QED BY <1>1, <3>1, <3>2, <3>3
  <2> QED BY <1>2, <2>1, <2>2
<1>4. TypeOK'
  BY <1>0, <1>1, <1>3 DEF TypeOK
<1>5. WriterInv'
  BY <1>0 DEF IInv, WriterInv, Given, Joined
<1>6. CopierInv'
  <2>1. Take(put, got)' = Take(put, got)
    BY <1>0, <1>3
  <2>2. Wanted' = Wanted
    BY <1>0, <2>1 DEF Wanted
  <2>3. cend # "ok" /\ cpc # "closing"
    BY <1>1 DEF IInv, CopierInv
  <2>4. Text(Take(put, got))' = Text(Take(put, got))
    BY <2>1 DEF Text
  <2> HIDE DEF Wanted, Take, Text
  <2> QED BY <1>0, <2>1, <2>2, <2>3, <2>4 DEF IInv, CopierInv
<1> QED BY <1>4, <1>5, <1>6 DEF IInv

LEMMA EndKeeps == IInv /\ (Exits \/ Dies) => IInv'
<1> SUFFICES ASSUME IInv, Exits \/ Dies PROVE IInv'
  OBVIOUS
<1>0. /\ alive' = FALSE
      /\ UNCHANGED <<opt, wpc, pos, newline, sent, closed, wend, taken, put, cpc, got, buf,
                     dest, cend>>
  BY DEF Exits, Dies, writerVars, copierVars
<1>1. TypeOK'
  BY <1>0 DEF IInv, TypeOK
<1>2. WriterInv'
  BY <1>0 DEF IInv, WriterInv
<1>3. CopierInv'
  BY <1>0 DEF IInv, CopierInv, Wanted, Take, Text
<1> QED BY <1>1, <1>2, <1>3 DEF IInv

----------------------------------------------------------------------------
(* The copying task.                                                       *)

\* Nothing else changes while it copies.
LEMMA CopierFrame ==
  ASSUME IInv, UNCHANGED <<opt, writerVars, procVars>>
  PROVE  /\ WriterInv'
         /\ UNCHANGED <<opt, wpc, pos, newline, sent, closed, wend, alive, taken, put>>
<1>1. UNCHANGED <<opt, wpc, pos, newline, sent, closed, wend, alive, taken, put>>
  BY DEF writerVars, procVars
<1>2. WriterInv'
  BY <1>1 DEF IInv, WriterInv, Given, Joined
<1> QED BY <1>1, <1>2

\* The types that the copying task relies on.
LEMMA CopierTypes ==
  ASSUME IInv
  PROVE  /\ put \in Seq(Item) /\ Len(put) \in Nat /\ got \in Nat /\ got <= Len(put)
         /\ buf \in Seq(Item) /\ dest \in Seq(Item) /\ opt.limit \in Nat
         /\ Take(put, got) \in Seq(Item) /\ Len(Take(put, got)) = got
         /\ <<>> \o Take(put, got) = Take(put, got)
<1>1. /\ put \in Seq(Item) /\ Len(put) \in Nat /\ got \in Nat /\ got <= Len(put)
      /\ buf \in Seq(Item) /\ dest \in Seq(Item) /\ opt.limit \in Nat
  BY Redirections, LenProperties DEF IInv, TypeOK
<1>2. Take(put, got) \in Seq(Item) /\ Len(Take(put, got)) = got
  BY <1>1, Takes
<1> HIDE DEF Take
<1> QED BY <1>1, <1>2, ConcatEmptySeq

\* A limited sink that has not reached its limit.
LEMMA LimitAdds ==
  ASSUME NEW s, s \in Seq(Item), NEW n \in Nat, NEW k \in Nat, NEW limit \in Nat,
         n <= k, k <= Len(s), n <= limit
  PROVE  /\ Take(Take(s, n), limit) = Take(s, n)
         /\ Take(s, n) \o SubSeq(s, n + 1, k) = Take(s, k)
         /\ Len(Take(s, k)) = k
<1>1. s \in Seq(Item) /\ Len(s) \in Nat
  BY LenProperties
<1>2. /\ Take(s, n) \in Seq(Item) /\ Len(Take(s, n)) = n
      /\ Take(s, k) \in Seq(Item) /\ Len(Take(s, k)) = k
  BY <1>1, Takes
<1>3. Take(Take(s, n), limit) = Take(s, n)
  <2> HIDE DEF Take
  <2>1. Len(Take(s, n)) <= limit
    BY <1>2
  <2> QED BY <1>2, <2>1, TakeAll
<1> QED BY <1>2, <1>3, TakeExtends

LEMMA CopyKeeps == IInv /\ Copy => IInv'
<1> SUFFICES ASSUME IInv, Copy PROVE IInv'
  OBVIOUS
<1>0. /\ WriterInv'
      /\ UNCHANGED <<opt, wpc, pos, newline, sent, closed, wend, alive, taken, put>>
  BY CopierFrame DEF Copy
<1>1. PICK k \in got + 1..Len(put) : got' = k /\ Consume(SubSeq(put, got + 1, k))
  BY DEF Copy
<1>2. /\ put \in Seq(Item) /\ Len(put) \in Nat /\ got \in Nat /\ k \in Nat /\ got <= k
      /\ k <= Len(put) /\ got' = k /\ got' \in 0..Len(put)
      /\ buf \in Seq(Item) /\ dest \in Seq(Item) /\ opt.limit \in Nat
  BY <1>1, CopierTypes
<1>3. cpc = "read" /\ cend = "none"
  BY DEF IInv, CopierInv, Copy
<1> DEFINE data == SubSeq(put, got + 1, k)
           old == Take(put, got)
           new == Take(put, k)
<1>4. new = old \o data /\ new \in Seq(Item) /\ Len(new) = k /\ Take(put, got)' = new
  <2>1. new = old \o data
    BY <1>2, TakeExtends
  <2>2. new \in Seq(Item) /\ Len(new) = k
    BY <1>2, Takes
  <2>3. Take(put, got)' = new
    BY <1>0, <1>2
  <2> QED BY <2>1, <2>2, <2>3
<1>5. Consume(data)
  BY <1>1
<1>6. /\ opt.sink \in {"stringio", "bytes", "limit", "writer", "asyncgen"}
      /\ IF opt.sink = "stringio" THEN buf = old /\ dest = <<>> ELSE buf = <<>> /\ dest = Wanted
      /\ opt.sink # "limit" => Wanted = old /\ Wanted' = new
  <2>1. TypeOK
    BY DEF IInv
  <2>2. opt.sink \in {"stringio", "bytes", "limit", "writer", "asyncgen"}
    BY <2>1, Redirections
  <2>3. opt.sink # "limit" => Wanted = old /\ Wanted' = new
    BY <1>0, <1>4 DEF Wanted
  <2> HIDE DEF old
  <2> QED BY <1>3, <2>2, <2>3 DEF IInv, CopierInv, old
<1> HIDE DEF data, old, new
\* It is enough to say what the step makes of the task's own variables.
<1>7. ASSUME cpc' \in {"read", "hand", "discard"}, cend' = "none",
             buf' \in Seq(Item), dest' \in Seq(Item),
             IF opt.sink = "stringio" THEN buf' = new /\ dest' = <<>>
                                      ELSE buf' = <<>> /\ dest' = Wanted',
             cpc' = "read" /\ opt.sink = "limit" => k <= opt.limit,
             cpc' = "discard" => opt.sink = "limit" /\ k > opt.limit,
             cpc' = "hand" => opt.sink \in {"writer", "asyncgen"}
      PROVE  IInv'
  <2>1. TypeOK'
    BY <1>0, <1>2, <1>7 DEF IInv, TypeOK
  <2>2. CopierInv'
    BY <1>0, <1>2, <1>4, <1>7 DEF CopierInv
  <2> QED BY <1>0, <2>1, <2>2 DEF IInv
<1>8. CASE opt.sink = "stringio"
  <2>1. buf' = new /\ UNCHANGED <<cpc, dest, cend>>
    BY <1>4, <1>5, <1>6, <1>8 DEF Consume
  <2> QED BY <1>2, <1>3, <1>4, <1>6, <1>7, <1>8, <2>1
<1>9. CASE opt.sink = "bytes"
  <2>1. dest' = Wanted' /\ dest' = new /\ UNCHANGED <<cpc, buf, cend>>
    BY <1>4, <1>5, <1>6, <1>9 DEF Consume
  <2> QED BY <1>2, <1>3, <1>4, <1>6, <1>7, <1>9, <2>1
<1>10. CASE opt.sink \in {"writer", "asyncgen"}
  <2>1. dest' = Wanted' /\ dest' = new /\ cpc' = "hand" /\ UNCHANGED <<buf, cend>>
    BY <1>4, <1>5, <1>6, <1>10 DEF Consume
  <2> QED BY <1>2, <1>3, <1>4, <1>6, <1>7, <1>10, <2>1
<1>11. CASE opt.sink = "limit"
  <2>1. CopyLimit(data)
    BY <1>5, <1>11 DEF Consume
  <2>2. got <= opt.limit
    BY <1>3, <1>11 DEF IInv, CopierInv
  <2>3. Wanted = old /\ Wanted' = Take(new, opt.limit)
    <3>1. Take(Take(put, got), opt.limit) = Take(put, got)
      BY <1>2, <2>2, LimitAdds
    <3> QED BY <1>0, <1>4, <1>11, <3>1 DEF Wanted, old
  <2>4. dest = old /\ buf = <<>>
    BY <1>6, <1>11, <2>3
  <2>5. /\ dest' = Take(new, opt.limit) /\ UNCHANGED <<buf, cend>>
        /\ cpc' = IF k > opt.limit THEN "discard" ELSE "read"
    BY <1>4, <2>1, <2>4 DEF CopyLimit
  <2>6. dest' \in Seq(Item)
    BY <1>2, <1>4, <2>5, Takes
  <2> HIDE DEF Take
  <2> QED BY <1>2, <1>3, <1>7, <1>11, <2>3, <2>4, <2>5, <2>6
<1> QED BY <1>6, <1>8, <1>9, <1>10, <1>11

LEMMA DiscardKeeps == IInv /\ Discard => IInv'
<1> SUFFICES ASSUME IInv, Discard PROVE IInv'
  OBVIOUS
<1>0. /\ WriterInv'
      /\ UNCHANGED <<opt, wpc, pos, newline, sent, closed, wend, alive, taken, put>>
      /\ UNCHANGED <<cpc, buf, dest, cend>>
  BY CopierFrame DEF Discard
<1>1. /\ put \in Seq(Item) /\ Len(put) \in Nat /\ got \in Nat /\ got <= Len(put)
      /\ opt.limit \in Nat /\ got' = Len(put) /\ cpc = "discard" /\ cend = "none"
      /\ opt.sink = "limit" /\ got > opt.limit
  BY CopierTypes DEF Discard, IInv, CopierInv
<1>2. Wanted' = Wanted
  <2> DEFINE k == Len(put)
  <2>1. k \in Nat /\ got <= k /\ k <= Len(put) /\ opt.limit <= got
    BY <1>1
  <2>2. Take(Take(put, k), opt.limit) = Take(Take(put, got), opt.limit)
    <3> HIDE DEF k
    <3> QED BY <1>1, <2>1, TakeLimits
  <2> QED BY <1>0, <1>1, <2>2 DEF Wanted
<1>3. TypeOK'
  BY <1>0, <1>1 DEF IInv, TypeOK
<1>4. CopierInv'
  BY <1>0, <1>1, <1>2 DEF IInv, CopierInv
<1> QED BY <1>0, <1>3, <1>4 DEF IInv

\* The sink takes what it was handed, stops, fails or closes: it has been handed it before.
LEMMA SinkKeeps == IInv /\ (SinkTakes \/ SinkStops \/ SinkFails \/ SinkCloses) => IInv'
<1> SUFFICES ASSUME IInv, SinkTakes \/ SinkStops \/ SinkFails \/ SinkCloses PROVE IInv'
  OBVIOUS
<1>0. /\ WriterInv'
      /\ UNCHANGED <<opt, wpc, pos, newline, sent, closed, wend, alive, taken, put>>
      /\ UNCHANGED <<got, buf, dest>>
  BY CopierFrame DEF SinkTakes, SinkStops, SinkFails, SinkCloses
<1>1. /\ cend = "none" /\ opt.sink \in {"writer", "asyncgen"} /\ dest = Wanted /\ buf = <<>>
      /\ \/ cpc' = "read" /\ cend' = "none"
         \/ cpc' = "done" /\ cend' \in {"interrupted", "exc"}
         \/ cpc' = "done" /\ cend' = "ok" /\ got = Len(put) /\ alive = FALSE
  <2>1. cpc \in {"prime", "hand", "closing"}
    BY DEF SinkTakes, SinkStops, SinkFails, SinkCloses
  <2>2. cend = "none" /\ opt.sink \in {"writer", "asyncgen"}
    BY <2>1 DEF IInv, CopierInv
  <2>3. dest = Wanted /\ buf = <<>>
    BY <2>2 DEF IInv, CopierInv
  <2>4. cpc = "closing" => got = Len(put) /\ alive = FALSE
    BY DEF IInv, CopierInv
  <2> HIDE DEF Wanted
  <2> QED BY <2>2, <2>3, <2>4 DEF SinkTakes, SinkStops, SinkFails, SinkCloses, CopierEnds
<1>2. Wanted' = Wanted
  BY <1>0 DEF Wanted, Take
<1>3. TypeOK'
  BY <1>0, <1>1 DEF IInv, TypeOK
<1>4. CopierInv'
  BY <1>0, <1>1, <1>2 DEF CopierInv
<1> QED BY <1>0, <1>3, <1>4 DEF IInv

\* The end of the output and a cancellation.
LEMMA CopyEndsKeep == IInv /\ (CopyEnds \/ CopierCancelled) => IInv'
<1> SUFFICES ASSUME IInv, CopyEnds \/ CopierCancelled PROVE IInv'
  OBVIOUS
<1> DEFINE read == Take(put, got)
           held == dest \o buf
           cut == opt.sink = "stringio" /\ ~Text(buf)
           over == alive = FALSE /\ got = Len(put)
<1>0. /\ WriterInv'
      /\ UNCHANGED <<opt, wpc, pos, newline, sent, closed, wend, alive, taken, put>>
      /\ UNCHANGED <<got, buf>>
  BY CopierFrame DEF CopyEnds, CopierCancelled
<1>1. /\ cend = "none"
      /\ \/ cpc' = "done" /\ cend' = "exc" /\ dest' = dest /\ cut
         \/ cpc' = "done" /\ cend' = "ok" /\ dest' = held /\ ~cut /\ over
         \/ cpc' = "done" /\ cend' = "cancelled" /\ dest' = held /\ ~cut
         \/ cpc' = "closing" /\ cend' = "none" /\ dest' = dest /\ over
            /\ opt.sink \in {"writer", "asyncgen"}
  <2>1. cend = "none" /\ alive \in BOOLEAN
    BY DEF IInv, TypeOK, CopierInv, CopyEnds, CopierCancelled
  <2>2. CASE CopyEnds
    BY <2>1, <2>2 DEF CopyEnds, CopierEnds, Flush
  <2>3. CASE CopierCancelled
    BY <2>1, <2>3 DEF CopierCancelled, CopierEnds, Flush
  <2> QED BY <2>2, <2>3
<1>2. /\ held = Wanted /\ held \in Seq(Item)
      /\ opt.sink = "stringio" => buf = read /\ dest = <<>> /\ held = read
      /\ opt.sink # "stringio" => buf = <<>> /\ dest = Wanted
  <2>1. buf \in Seq(Item) /\ dest \in Seq(Item) /\ <<>> \o read = read
    BY CopierTypes
  <2>2. held \in Seq(Item)
    BY <2>1, ConcatProperties
  <2>3. CASE opt.sink = "stringio"
    <3>1. buf = read /\ dest = <<>>
      BY <1>1, <2>3 DEF IInv, CopierInv
    <3>2. Wanted = read
      BY <2>3 DEF Wanted
    <3> HIDE DEF read
    <3> QED BY <2>1, <2>2, <2>3, <3>1, <3>2
  <2>4. CASE opt.sink # "stringio"
    <3>1. buf = <<>> /\ dest = Wanted
      BY <1>1, <2>4 DEF IInv, CopierInv
    <3>2. dest \o <<>> = dest
      BY <2>1, ConcatEmptySeq
    <3> QED BY <2>2, <2>4, <3>1, <3>2
  <2> QED BY <2>3, <2>4
<1>3. Wanted' = Wanted /\ read' = read
  BY <1>0 DEF Wanted, Take
<1>4. dest \in Seq(Item)
  BY CopierTypes
<1>5. cut => opt.sink = "stringio" /\ ~Text(read)
  BY <1>2
<1>6. ~cut /\ opt.sink = "stringio" => Text(read)
  BY <1>2
<1> HIDE DEF held, read, cut
<1>7. TypeOK'
  BY <1>0, <1>1, <1>2, <1>4 DEF IInv, TypeOK
<1>8. /\ cend' \in {"ok", "cancelled"} => dest' = Wanted'
      /\ cend' = "none" => IF opt.sink = "stringio" THEN buf' = read' /\ dest' = <<>>
                           ELSE buf' = <<>> /\ dest' = Wanted'
      /\ opt.sink = "stringio" /\ cend' # "none" =>
           IF Text(read) THEN dest' = read /\ cend' # "exc" ELSE dest' = <<>> /\ cend' = "exc"
  <2>1. cend' \in {"ok", "cancelled"} => dest' = Wanted'
    BY <1>1, <1>2, <1>3
  <2>2. cend' = "none" => IF opt.sink = "stringio" THEN buf' = read' /\ dest' = <<>>
                           ELSE buf' = <<>> /\ dest' = Wanted'
    BY <1>0, <1>1, <1>2, <1>3
  <2>3. opt.sink = "stringio" /\ cend' # "none" =>
          IF Text(read) THEN dest' = read /\ cend' # "exc" ELSE dest' = <<>> /\ cend' = "exc"
    BY <1>1, <1>2, <1>5, <1>6
  <2> QED BY <2>1, <2>2, <2>3
<1>9. CopierInv'
  <2>1. Text(Take(put, got))' = Text(read) /\ Take(put, got)' = read
    BY <1>0, <1>3 DEF Text, read
  <2>2. opt.sink = "stringio" /\ cend' # "none" =>
          IF Text(Take(put, got))' THEN dest' = Take(put, got)' /\ cend' # "exc"
                                   ELSE dest' = <<>> /\ cend' = "exc"
    BY <1>8, <2>1
  <2>3. cend' = "none" => IF opt.sink = "stringio" THEN buf' = Take(put, got)' /\ dest' = <<>>
                           ELSE buf' = <<>> /\ dest' = Wanted'
    BY <1>3, <1>8, <2>1
  <2>4. /\ cpc' \in {"done", "closing"} /\ (cpc' = "done" <=> cend' # "none")
        /\ cpc' = "closing" => opt.sink \in {"writer", "asyncgen"}
        /\ cpc' = "closing" \/ cend' = "ok" => got = Len(put) /\ alive = FALSE
    BY <1>1
  <2> HIDE DEF Wanted, Take, Text
  <2> QED BY <1>0, <1>8, <2>2, <2>3, <2>4 DEF CopierInv
<1> QED BY <1>0, <1>7, <1>9 DEF IInv

----------------------------------------------------------------------------
(* Every step.                                                             *)

LEMMA Steps == IInv /\ [Next]_vars => IInv'
<1> SUFFICES ASSUME IInv, [Next]_vars PROVE IInv'
  OBVIOUS
<1>1. CASE WriteStream
  BY <1>1, WriteStreamKeeps
<1>2. CASE WriteChunk
  BY <1>2, WriteChunkKeeps
<1>3. CASE SourceEnds \/ SourceFails \/ WriteDrained \/ EofDrained \/ WriterCancelled
  BY <1>3, WaitsKeep
<1>4. CASE CheckEof
  BY <1>4, CheckEofKeeps
<1>5. CASE Echo
  BY <1>5, EchoKeeps
<1>6. CASE Exits \/ Dies
  BY <1>6, EndKeeps
<1>7. CASE Copy
  BY <1>7, CopyKeeps
<1>8. CASE Discard
  BY <1>8, DiscardKeeps
<1>9. CASE CopyEnds \/ CopierCancelled
  BY <1>9, CopyEndsKeep
<1>10. CASE SinkTakes \/ SinkStops \/ SinkFails \/ SinkCloses
  BY <1>10, SinkKeeps
<1>11. CASE UNCHANGED vars
  <2>1. UNCHANGED <<opt, wpc, pos, newline, sent, closed, wend, alive, taken, put, cpc, got,
                    buf, dest, cend>>
    BY <1>11 DEF vars, writerVars, procVars, copierVars
  <2>2. TypeOK'
    BY <2>1 DEF IInv, TypeOK
  <2>3. WriterInv'
    BY <2>1 DEF IInv, WriterInv, Given, Joined
  <2>4. CopierInv'
    BY <2>1 DEF IInv, CopierInv, Wanted, Take, Text
  <2> QED BY <2>2, <2>3, <2>4 DEF IInv
<1> QED BY <1>1, <1>2, <1>3, <1>4, <1>5, <1>6, <1>7, <1>8, <1>9, <1>10, <1>11
        DEF Next, Writer, Copier

\* The inductive invariant holds of every state.
THEOREM Invariance == Spec => []IInv
BY Starts, Steps, PTL DEF Spec

\* Every variable keeps its type.
THEOREM TypeCorrect == Spec => []TypeOK
<1>1. IInv => TypeOK
  BY DEF IInv
<1> QED BY <1>1, Invariance, PTL

\* A task that copied to the end, or was cancelled, has handed its sink exactly what it has
\* read, up to the limit if there is one, whatever the capacity and the reads. A StringIO
\* gets all of it or, if that ends within a character, nothing and the task fails.
THEOREM CopiesExactly == Spec => []SinkExact
<1>1. IInv => SinkExact
  BY DEF IInv, CopierInv, Wanted, SinkExact
<1> QED BY <1>1, Invariance, PTL

----------------------------------------------------------------------------
(* What has been sent.                                                     *)

\* The input s followed by the EOF characters e.
LEMMA Followed ==
  ASSUME NEW s, s \in Seq(Item), NEW e, e \in Seq({Eof})
  PROVE  /\ Len(s \o e) = Len(s) + Len(e) /\ DOMAIN (s \o e) = 1..Len(s) + Len(e)
         /\ \A i \in 1..Len(s) : (s \o e)[i] = s[i] /\ s[i] \in Item
         /\ \A i \in Len(s) + 1..Len(s \o e) : (s \o e)[i] = Eof
         /\ Take(s \o e, Len(s)) = s
<1> DEFINE t == s \o e
           all == Item \cup {Eof}
<1>1. /\ s \in Seq(Item) /\ e \in Seq({Eof}) /\ s \in Seq(all) /\ e \in Seq(all)
      /\ Len(s) \in Nat /\ Len(e) \in Nat
  <2>1. Item \subseteq all /\ {Eof} \subseteq all
    OBVIOUS
  <2> HIDE DEF all
  <2> QED BY <2>1, SeqMonotonic, LenProperties
<1>2. /\ t \in Seq(all) /\ Len(t) = Len(s) + Len(e)
      /\ \A i \in 1..Len(s) + Len(e) : t[i] = IF i <= Len(s) THEN s[i] ELSE e[i - Len(s)]
  BY <1>1, ConcatProperties
<1>3. DOMAIN t = 1..Len(s) + Len(e)
  BY <1>2, LenProperties
<1>4. \A i \in 1..Len(s) : t[i] = s[i] /\ s[i] \in Item
  BY <1>1, <1>2, ElementOfSeq
<1>5. \A i \in Len(s) + 1..Len(t) : t[i] = Eof
  <2> TAKE i \in Len(s) + 1..Len(t)
  <2>1. i - Len(s) \in 1..Len(e) /\ t[i] = e[i - Len(s)]
    BY <1>1, <1>2
  <2>2. e[i - Len(s)] \in {Eof}
    BY <1>1, <2>1, ElementOfSeq
  <2> QED BY <2>1, <2>2
<1> HIDE DEF t
<1>6. Take(t, Len(s)) = s
  <2>1. Take(t, Len(s)) = SubSeq(t, 1, Len(s))
    <3>1. Len(s) = IF Len(s) < Len(t) THEN Len(s) ELSE Len(t)
      BY <1>1, <1>2
    <3> QED BY <3>1 DEF Take
  <2>2. /\ SubSeq(t, 1, Len(s)) \in Seq(Item) /\ Len(SubSeq(t, 1, Len(s))) = Len(s)
        /\ \A i \in 1..Len(s) : SubSeq(t, 1, Len(s))[i] = s[i]
    <3> DEFINE k == Len(s)
    <3>1. k \in Nat /\ k \in Int /\ \A i \in 1..k : t[i] \in Item /\ t[i] = s[i]
      BY <1>1, <1>4
    <3> HIDE DEF k
    <3>2. /\ SubSeq(t, 1, k) \in Seq(Item)
          /\ Len(SubSeq(t, 1, k)) = IF 1 <= k THEN k - 1 + 1 ELSE 0
          /\ \A i \in 1..(k - 1 + 1) : SubSeq(t, 1, k)[i] = t[1 + i - 1]
      BY <3>1, SubSeqProperties
    <3>3. Len(SubSeq(t, 1, k)) = k /\ \A i \in 1..k : SubSeq(t, 1, k)[i] = s[i]
      BY <3>1, <3>2
    <3> QED BY <3>2, <3>3 DEF k
  <2>3. SubSeq(t, 1, Len(s)) = s
    BY <1>1, <2>2, SeqEqual
  <2> QED BY <2>1, <2>3
<1> QED BY <1>2, <1>3, <1>4, <1>5, <1>6 DEF t

\* When the writing task is over, the process has been sent the input, and a terminal the
\* EOF characters.
LEMMA Sent ==
  ASSUME IInv, wend = "ok", alive
  PROVE  /\ Input \in Seq(Item) /\ EofAfter(newline) \in Seq({Eof}) /\ <<>> \in Seq({Eof})
         /\ Given = Len(opt.input)
         /\ newline = IF Given = 0 THEN TRUE ELSE EndsWithNewline(opt.input[Given])
         /\ sent = IF opt.eof = "cooked" THEN Input \o EofAfter(newline) ELSE Input \o <<>>
<1>1. TypeOK /\ alive = TRUE /\ wpc = "done"
  BY DEF IInv, TypeOK, WriterInv
<1>2. Input \in Seq(Item) /\ Input \o <<>> = Input
  <2>1. Len(opt.input) \in 0..Len(opt.input)
    BY <1>1, Redirections
  <2>2. Input \in Seq(Item)
    BY <1>1, <2>1, Joins
  <2> HIDE DEF Input
  <2> QED BY <2>2, ConcatEmptySeq
<1>3. Joined(Len(opt.input)) = Input
  BY <1>1, Joins
<1>4. EofAfter(newline) \in Seq({Eof}) /\ <<>> \in Seq({Eof})
  <2>1. <<Eof>> \in Seq({Eof}) /\ <<Eof, Eof>> \in Seq({Eof}) /\ <<>> \in Seq({Eof})
    OBVIOUS
  <2> QED BY <2>1 DEF EofAfter
<1>5. /\ Given = Len(opt.input)
      /\ newline = IF Given = 0 THEN TRUE ELSE EndsWithNewline(opt.input[Given])
      /\ sent = IF opt.eof = "cooked" THEN Joined(Given) \o EofAfter(newline) ELSE Joined(Given)
  BY <1>1 DEF IInv, WriterInv
<1> HIDE DEF Input
<1> QED BY <1>2, <1>3, <1>4, <1>5

\* A process that lives to the end of the writing task has been sent the whole input, in
\* order, and then nothing but EOF characters: for every input, chunk by chunk.
THEOREM DeliversInput == Spec => []InputDelivered
<1>1. ASSUME IInv, wend = "ok", alive
      PROVE  Take(sent, Len(Input)) = Input /\ \A i \in Len(Input) + 1..Len(sent) : sent[i] = Eof
  <2> DEFINE end == IF opt.eof = "cooked" THEN EofAfter(newline) ELSE <<>>
  <2>1. Input \in Seq(Item) /\ end \in Seq({Eof}) /\ sent = Input \o end
    BY <1>1, Sent
  <2> HIDE DEF end, Input
  <2> QED BY <2>1, Followed
<1>2. IInv => InputDelivered
  BY <1>1 DEF InputDelivered
<1> QED BY <1>2, Invariance, PTL

\* When the reader of a terminal is told of the end: the first EOF character counts only at
\* the beginning of a line, the second one always.
LEMMA Told ==
  ASSUME NEW s, s \in Seq(Item), NEW line \in BOOLEAN,
         NEW fresh, fresh = (s = <<>> \/ s[Len(s)] = "n")
  PROVE  /\ s \o EofAfter(line) # <<>>
         /\ line /\ fresh => EndsTold(s \o EofAfter(line)) = {Len(s \o EofAfter(line))}
         /\ ~line /\ fresh =>
              EndsTold(s \o EofAfter(line)) = {Len(s \o EofAfter(line)) - 1,
                                               Len(s \o EofAfter(line))}
         /\ ~line /\ ~fresh => EndsTold(s \o EofAfter(line)) = {Len(s \o EofAfter(line))}
<1> DEFINE e == EofAfter(line)
           t == s \o e
           len == Len(s)
<1>1. /\ len \in Nat /\ (s = <<>> <=> len = 0)
      /\ e \in Seq({Eof}) /\ Len(e) = IF line THEN 1 ELSE 2
  <2>1. len \in Nat /\ (s = <<>> <=> len = 0)
    BY LenProperties, EmptySeq
  <2>2. <<Eof>> \in Seq({Eof}) /\ <<Eof, Eof>> \in Seq({Eof})
        /\ Len(<<Eof>>) = 1 /\ Len(<<Eof, Eof>>) = 2
    OBVIOUS
  <2> QED BY <2>1, <2>2 DEF EofAfter
<1> HIDE DEF e
<1>2. /\ Len(t) = len + Len(e) /\ DOMAIN t = 1..len + Len(e)
      /\ \A i \in 1..len : t[i] = s[i] /\ s[i] \in Item
      /\ \A i \in len + 1..Len(t) : t[i] = Eof
  <2>1. s \in Seq(Item) /\ e \in Seq({Eof})
    BY <1>1
  <2> QED BY <2>1, Followed
<1> HIDE DEF t
<1>3. \A i \in 1..len : t[i] # Eof
  BY <1>2 DEF Item, Eof
<1>4. fresh = (len = 0 \/ s[len] = "n")
  BY <1>1
<1>5. len # 0 => t[len] = s[len] /\ t[len] # Eof
  <2>1. len # 0 => len \in 1..len
    BY <1>1
  <2> QED BY <1>2, <1>3, <2>1
<1>6. EndsTold(t) = {i \in 1..len + Len(e) : t[i] = Eof /\ (i = 1 \/ t[i - 1] \in {"n", Eof})}
  BY <1>2 DEF EndsTold
<1> HIDE DEF len
<1>7. t # <<>>
  <2>1. Len(t) # 0
    BY <1>1, <1>2
  <2>2. Len(<<>>) = 0
    BY EmptySeq
  <2> QED BY <2>1, <2>2
\* The first EOF character is the item after the input.
<1>8. /\ t[len + 1] = Eof
      /\ len + 1 \in EndsTold(t) <=> fresh
  <2>1. len + 1 \in len + 1..Len(t)
    BY <1>1, <1>2
  <2>2. t[len + 1] = Eof
    BY <1>2, <2>1
  <2>3. len + 1 \in EndsTold(t) <=> (len = 0 \/ t[len] \in {"n", Eof})
    <3> DEFINE k == len + 1
    <3>1. k \in 1..len + Len(e) /\ k - 1 = len /\ (k = 1 <=> len = 0)
      BY <1>1
    <3>2. t[k] = Eof
      BY <2>2
    <3>3. k \in EndsTold(t) <=> (len = 0 \/ t[len] \in {"n", Eof})
      <4> HIDE DEF k
      <4> QED BY <1>6, <3>1, <3>2
    <3> QED BY <3>3
  <2> QED BY <1>4, <1>5, <2>2, <2>3
<1>9. ~line => len + 2 \in EndsTold(t)
  <2> DEFINE k == len + 2
  <2>1. ~line => k \in len + 1..Len(t) /\ k \in 1..len + Len(e) /\ k - 1 = len + 1
    BY <1>1, <1>2
  <2>2. ~line => k \in EndsTold(t)
    <3> HIDE DEF k
    <3> QED BY <1>2, <1>6, <1>8, <2>1
  <2> QED BY <2>2
<1>10. \A i \in EndsTold(t) : i = len + 1 \/ (~line /\ i = len + 2)
  <2> TAKE i \in EndsTold(t)
  <2>1. i \in 1..len + Len(e) /\ t[i] = Eof
    BY <1>6
  <2>2. i \notin 1..len
    BY <1>3, <2>1
  <2> QED BY <1>1, <2>1, <2>2
<1>11. Len(t) = IF line THEN len + 1 ELSE len + 2
  BY <1>1, <1>2
<1>12. line /\ fresh => EndsTold(t) = {Len(t)}
  BY <1>8, <1>10, <1>11
<1>13. ~line /\ fresh => EndsTold(t) = {Len(t) - 1, Len(t)}
  <2>1. ~line => Len(t) - 1 = len + 1 /\ Len(t) = len + 2
    BY <1>1, <1>11
  <2> QED BY <1>8, <1>9, <1>10, <2>1
<1>14. ~line /\ ~fresh => EndsTold(t) = {Len(t)}
  BY <1>8, <1>9, <1>10, <1>11
<1> QED BY <1>7, <1>12, <1>13, <1>14 DEF t, e

\* How the input ends: as its last chunk does, unless that is empty.
LEMMA LastChunk ==
  ASSUME TypeOK, Len(opt.input) # 0
  PROVE  LET last == opt.input[Len(opt.input)]
         IN  last # <<>> => /\ Input # <<>>
                            /\ Input[Len(Input)] = last[Len(last)]
<1> DEFINE n == Len(opt.input)
           last == opt.input[n]
           before == Joined(n - 1)
<1>1. n \in Nat /\ n \in 1..n /\ n - 1 \in 0..n
  BY Redirections
<1>2. Input = before \o last /\ before \in Seq(Item) /\ last \in Seq(Item)
  <2>1. Joined(n) = Input
    BY Joins
  <2>2. \A i \in 1..n : opt.input[i] \in Seq(Item) /\ Joined(i) = Joined(i - 1) \o opt.input[i]
    BY Joins
  <2>3. \A i \in 0..n : Joined(i) \in Seq(Item)
    BY Joins
  <2> HIDE DEF n
  <2> QED BY <1>1, <2>1, <2>2, <2>3
<1> HIDE DEF before, last
<1>3. ASSUME last # <<>> PROVE Input # <<>> /\ Input[Len(Input)] = last[Len(last)]
  <2>1. Len(before) \in Nat /\ Len(last) \in Nat /\ Len(last) # 0
    BY <1>2, <1>3, LenProperties, EmptySeq
  <2>2. /\ Len(before \o last) = Len(before) + Len(last)
        /\ \A i \in 1..Len(before) + Len(last) :
             (before \o last)[i] = IF i <= Len(before) THEN before[i] ELSE last[i - Len(before)]
    BY <1>2, ConcatProperties
  <2> DEFINE k == Len(before) + Len(last)
  <2>3. k \in 1..k /\ ~(k <= Len(before)) /\ k - Len(before) = Len(last) /\ k # 0
    BY <2>1
  <2>4. (before \o last)[k] = last[Len(last)]
    BY <2>2, <2>3
  <2>5. Len(<<>>) = 0
    BY EmptySeq
  <2> HIDE DEF Input
  <2> QED BY <1>2, <2>2, <2>3, <2>4, <2>5
<1> QED BY <1>3 DEF last

\* A terminal is told exactly once that the input is over, for every input whose last chunk
\* is not empty or does not come at the beginning of a line.
THEOREM TellsEofOnce == Spec => []EofToldOnce
<1>1. ASSUME IInv, wend = "ok", opt.eof = "cooked", alive PROVE EofToldOnce
  <2> DEFINE n == Len(opt.input)
             last == opt.input[n]
             stale == n > 0 /\ Last(opt.input) = <<>>
                      /\ (Input = <<>> \/ EndsWithNewline(Input))
             fresh == Input = <<>> \/ Input[Len(Input)] = "n"
  <2>1. /\ TypeOK /\ n \in Nat /\ newline \in BOOLEAN /\ Input \in Seq(Item)
        /\ sent = Input \o EofAfter(newline)
        /\ newline = IF n = 0 THEN TRUE ELSE EndsWithNewline(last)
    <3>1. TypeOK /\ newline \in BOOLEAN
      BY <1>1 DEF IInv, TypeOK
    <3>2. n \in Nat
      BY <3>1, Redirections
    <3>3. /\ Input \in Seq(Item) /\ sent = Input \o EofAfter(newline)
          /\ newline = IF n = 0 THEN TRUE ELSE EndsWithNewline(last)
      BY <1>1, Sent
    <3> QED BY <3>1, <3>2, <3>3
  <2>2. stale = (n # 0 /\ last = <<>> /\ fresh)
    BY <2>1 DEF Last, EndsWithNewline
  <2>3. n = 0 => Input = <<>>
    BY <2>1, Joins
  <2>4. n # 0 /\ last # <<>> => /\ Input # <<>> /\ Input[Len(Input)] = last[Len(last)]
                                /\ (newline = TRUE <=> last[Len(last)] = "n")
    BY <2>1, LastChunk DEF EndsWithNewline, Last
  <2>5. n # 0 /\ last = <<>> => newline = FALSE
    BY <2>1 DEF EndsWithNewline
  <2> HIDE DEF n, last, fresh
  <2>6. /\ newline => fresh
        /\ stale <=> (~newline /\ fresh)
    BY <2>1, <2>2, <2>3, <2>4, <2>5 DEF fresh
  <2>7. /\ sent # <<>>
        /\ newline /\ fresh => EndsTold(sent) = {Len(sent)}
        /\ ~newline /\ fresh => EndsTold(sent) = {Len(sent) - 1, Len(sent)}
        /\ ~newline /\ ~fresh => EndsTold(sent) = {Len(sent)}
    BY <2>1, Told DEF fresh
  <2> HIDE DEF stale
  <2>8. ~stale => sent # <<>> /\ EndsTold(sent) = {Len(sent)}
    BY <2>6, <2>7
  <2> QED BY <2>8 DEF EofToldOnce, stale, n
<1>2. IInv => EofToldOnce
  BY <1>1 DEF EofToldOnce
<1> QED BY <1>2, Invariance, PTL

=============================================================================
