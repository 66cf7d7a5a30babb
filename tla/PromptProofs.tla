---------------------------- MODULE PromptProofs ----------------------------
(***************************************************************************)
(* Theorems about Prompt: its types, and that it implements PromptStream,  *)
(* for every prompt, every process that writes text, every size of the     *)
(* pipes and of the chunks and any number of cancellations.                *)
(***************************************************************************)
EXTENDS Prompt, SequenceTheorems, WellFoundedInduction, TLAPS

----------------------------------------------------------------------------
(* The inductive invariant.                                                *)

\* The pattern is in `places` after the first n of them, and first there.
HitIn(s, places, n) ==
  /\ n + Len(Pattern) <= Len(places)
  /\ \A i \in 1..Len(Pattern) : s[places[n + i]] = Pattern[i]
FirstIn(s, places, n) ==
  n \in Nat /\ HitIn(s, places, n) /\ \A k \in 0..(n - 1) : ~HitIn(s, places, k)
NoneIn(s, places) == \A n \in 0..Len(places) : ~HitIn(s, places, n)

\* Which jobs a call waits for, and how many lines may still be written.
CallInv ==
  /\ pc \in {"idle", "echo"} => job = "none"
  /\ pc = "sending" => job \in {"send", "draining", "joining", "ok", "reset", "cancelled"}
  /\ pc = "reading" => job \in {"expect", "read_all", "match", "ok", "eof", "decode"}
  /\ inq <= sends /\ (pc = "echo" => inq + 1 <= sends)

\* What a job has found.
FoundInv ==
  /\ job # "match" => found = <<>>
  /\ job = "match" => pc # "timed_out" /\ FirstIn(said, found, Len(found) - Len(Pattern))
  /\ job \in {"expect", "read_all"} => atEof = FALSE
  /\ job = "eof" => atEof = TRUE /\ NoneIn(said, pending)
  /\ pc = "reading" /\ job = "ok" => atEof = TRUE

\* How much of the output has been read. The stream holds what comes after; and up to the
\* first byte that is not text, the decoder holds half a character if that has come alone.
Base == Len(said) - Len(stream)
DataInv ==
  /\ Len(stream) <= Len(said)
  /\ \A i \in 1..Len(stream) : stream[i] = Base + i
  /\ \A i \in 1..Len(held) : held[i] <= Base
  /\ atEof = TRUE => alive = FALSE /\ stream = <<>>
  /\ Clean(said, Base) => held = IF Base > 0 /\ said[Base] = "lead" THEN <<Base>> ELSE <<>>
  /\ Paired(said \o owed)
  /\ alive = TRUE => IsText(said \o owed)

IInv == TypeOK /\ CallInv /\ FoundInv /\ DataInv

----------------------------------------------------------------------------
(* Sequences.                                                              *)

\* A sequence is what comes before a place and what comes after.
LEMMA Splits ==
  ASSUME NEW S, NEW s, s \in Seq(S), NEW n \in Nat, n <= Len(s)
  PROVE  /\ SubSeq(s, 1, n) \in Seq(S) /\ Len(SubSeq(s, 1, n)) = n
         /\ SubSeq(s, n + 1, Len(s)) \in Seq(S)
         /\ Len(SubSeq(s, n + 1, Len(s))) = Len(s) - n
         /\ \A i \in 1..n : SubSeq(s, 1, n)[i] = s[i]
         /\ \A i \in 1..(Len(s) - n) : SubSeq(s, n + 1, Len(s))[i] = s[n + i]
         /\ SubSeq(s, 1, n) \o SubSeq(s, n + 1, Len(s)) = s
<1> DEFINE len == Len(s)
<1>0. s \in Seq(S) /\ len \in Nat /\ n <= len
  BY LenProperties
<1>1. \A i \in 1..len : s[i] \in S
  BY <1>0, ElementOfSeq
<1>2. 1 \in 1..len + 1 /\ n \in (1 - 1)..len /\ len \in n..len
  BY <1>0
<1>3. SubSeq(s, 1, n) \o SubSeq(s, n + 1, len) = s
  <2>1. SubSeq(s, 1, n) \o SubSeq(s, n + 1, len) = SubSeq(s, 1, len)
    BY <1>0, <1>2, ConcatAdjacentSubSeq
  <2> QED BY <1>0, <2>1, SubSeqFull
<1> HIDE DEF len
<1>4. \A i \in 1..n : s[i] \in S
  BY <1>0, <1>1
<1>5. \A i \in (n + 1)..len : s[i] \in S
  BY <1>0, <1>1
<1>6. /\ SubSeq(s, 1, n) \in Seq(S)
      /\ Len(SubSeq(s, 1, n)) = IF 1 <= n THEN n - 1 + 1 ELSE 0
      /\ \A i \in 1..(n - 1 + 1) : SubSeq(s, 1, n)[i] = s[1 + i - 1]
  BY <1>4, SubSeqProperties
<1> DEFINE m == n + 1
<1>7. m \in Int /\ \A i \in m..len : s[i] \in S
  BY <1>5
<1>8. len \in Int
  BY <1>0
<1> HIDE DEF m
<1>9. /\ SubSeq(s, m, len) \in Seq(S)
      /\ Len(SubSeq(s, m, len)) = IF m <= len THEN len - m + 1 ELSE 0
      /\ \A i \in 1..(len - m + 1) : SubSeq(s, m, len)[i] = s[m + i - 1]
  BY <1>7, <1>8, SubSeqProperties
<1>10. /\ Len(SubSeq(s, 1, n)) = n
       /\ \A i \in 1..n : SubSeq(s, 1, n)[i] = s[i]
  BY <1>6
<1>11. /\ Len(SubSeq(s, m, len)) = len - n
       /\ \A i \in 1..(len - n) : SubSeq(s, m, len)[i] = s[n + i]
  <2>1. len - m + 1 = len - n /\ (m <= len \/ len - n = 0) /\ \A i \in Int : m + i - 1 = n + i
    BY <1>0 DEF m
  <2>2. Len(SubSeq(s, m, len)) = len - n
    BY <1>0, <1>9, <2>1
  <2>3. ASSUME NEW i \in 1..(len - n) PROVE SubSeq(s, m, len)[i] = s[n + i]
    BY <1>9, <2>1
  <2> QED BY <2>2, <2>3
<1> QED BY <1>3, <1>6, <1>9, <1>10, <1>11 DEF len, m

\* A concatenation taken apart again.
LEMMA Pieces ==
  ASSUME NEW S, NEW a, a \in Seq(S), NEW b, b \in Seq(S)
  PROVE  /\ a \o b \in Seq(S) /\ Len(a \o b) = Len(a) + Len(b)
         /\ Len(a) \in Nat /\ Len(b) \in Nat
         /\ \A i \in 1..Len(a) : (a \o b)[i] = a[i]
         /\ \A i \in 1..Len(b) : (a \o b)[Len(a) + i] = b[i]
         /\ SubSeq(a \o b, 1, Len(a)) = a
         /\ SubSeq(a \o b, Len(a) + 1, Len(a \o b)) = b
<1> DEFINE c == a \o b
           n == Len(a)
           m == Len(b)
<1>1. a \in Seq(S) /\ b \in Seq(S) /\ n \in Nat /\ m \in Nat
  BY LenProperties
<1>2. /\ c \in Seq(S) /\ Len(c) = n + m
      /\ \A i \in 1..n + m : c[i] = IF i <= n THEN a[i] ELSE b[i - n]
  BY <1>1, ConcatProperties
<1>3. \A i \in 1..n : c[i] = a[i]
  BY <1>1, <1>2
<1>4. ASSUME NEW i \in 1..m PROVE c[n + i] = b[i]
  <2> DEFINE k == n + i
  <2>1. k \in 1..n + m /\ ~(k <= n) /\ k - n = i
    BY <1>1
  <2> HIDE DEF c, n, m
  <2>2. c[k] = b[i]
    <3> HIDE DEF k
    <3> QED BY <1>2, <2>1
  <2> QED BY <2>2
<1>5. \A i \in 1..m : c[n + i] = b[i]
  BY <1>4
<1>6. n <= Len(c) /\ Len(c) - n = m
  BY <1>1, <1>2
<1> HIDE DEF c
<1>7. /\ SubSeq(c, 1, n) \in Seq(S) /\ Len(SubSeq(c, 1, n)) = n
      /\ SubSeq(c, n + 1, Len(c)) \in Seq(S) /\ Len(SubSeq(c, n + 1, Len(c))) = m
      /\ \A i \in 1..n : SubSeq(c, 1, n)[i] = c[i]
      /\ \A i \in 1..m : SubSeq(c, n + 1, Len(c))[i] = c[n + i]
  <2> HIDE DEF n, m
  <2> QED BY <1>1, <1>2, <1>6, Splits
<1>8. SubSeq(c, 1, n) = a
  BY <1>1, <1>3, <1>7, SeqEqual
<1>9. SubSeq(c, n + 1, Len(c)) = b
  <2> DEFINE d == SubSeq(c, n + 1, Len(c))
  <2>1. d \in Seq(S) /\ Len(d) = Len(b) /\ \A i \in 1..Len(d) : d[i] = b[i]
    BY <1>5, <1>7
  <2> HIDE DEF d
  <2>2. d = b
    BY <1>1, <2>1, SeqEqual
  <2> QED BY <2>2 DEF d
<1> QED BY <1>1, <1>2, <1>3, <1>5, <1>8, <1>9 DEF c

\* Cutting a concatenation within its first part.
LEMMA Cuts ==
  ASSUME NEW S, NEW a, a \in Seq(S), NEW b, b \in Seq(S), NEW n \in Nat, n <= Len(a)
  PROVE  /\ SubSeq(a \o b, 1, n) = SubSeq(a, 1, n)
         /\ SubSeq(a \o b, n + 1, Len(a \o b)) = SubSeq(a, n + 1, Len(a)) \o b
<1> DEFINE x == SubSeq(a, 1, n)
           y == SubSeq(a, n + 1, Len(a))
<1>1. x \in Seq(S) /\ y \in Seq(S) /\ Len(x) = n /\ x \o y = a /\ b \in Seq(S)
  BY Splits
<1> HIDE DEF x, y
<1>2. a \o b = x \o (y \o b)
  <2>1. (x \o y) \o b = x \o (y \o b)
    <3>1. x \in Seq(S) /\ y \in Seq(S) /\ b \in Seq(S)
      BY <1>1
    <3> QED BY <3>1, ConcatAssociative
  <2> QED BY <1>1, <2>1
<1> DEFINE z == y \o b
<1>3. z \in Seq(S)
  BY <1>1, ConcatProperties
<1> HIDE DEF z
<1>4. SubSeq(x \o z, 1, Len(x)) = x /\ SubSeq(x \o z, Len(x) + 1, Len(x \o z)) = z
  <2>1. x \in Seq(S) /\ z \in Seq(S)
    BY <1>1, <1>3
  <2> QED BY <2>1, Pieces
<1>5. a \o b = x \o z
  BY <1>2 DEF z
<1>6. SubSeq(a \o b, 1, n) = x /\ SubSeq(a \o b, n + 1, Len(a \o b)) = z
  BY <1>1, <1>4, <1>5
<1> QED BY <1>6 DEF x, y, z

\* The beginning of a beginning.
LEMMA Begins ==
  ASSUME NEW S, NEW s, s \in Seq(S), NEW m \in Nat, m <= Len(s), NEW n \in Nat, n <= m
  PROVE  SubSeq(SubSeq(s, 1, m), 1, n) = SubSeq(s, 1, n)
<1> DEFINE a == SubSeq(s, 1, m)
           b == SubSeq(s, m + 1, Len(s))
<1>1. a \in Seq(S) /\ b \in Seq(S) /\ Len(a) = m /\ a \o b = s
  BY Splits
<1> HIDE DEF a, b
<1>2. SubSeq(a \o b, 1, n) = SubSeq(a, 1, n)
  BY <1>1, Cuts
<1> QED BY <1>1, <1>2 DEF a

\* A sequence is all but its last element, and that.
LEMMA EndSplits ==
  ASSUME NEW S, NEW s, s \in Seq(S), NEW n \in Nat, Len(s) = n + 1
  PROVE  /\ SubSeq(s, 1, n) \in Seq(S) /\ s[Len(s)] \in S
         /\ SubSeq(s, 1, n) \o <<s[Len(s)]>> = s
<1> DEFINE z == SubSeq(s, n + 1, Len(s))
           e == s[Len(s)]
<1>1. n <= Len(s) /\ Len(s) - n = 1 /\ 1 \in 1..(Len(s) - n) /\ Len(s) \in 1..Len(s)
  OBVIOUS
<1>2. /\ SubSeq(s, 1, n) \in Seq(S) /\ z \in Seq(S) /\ Len(z) = Len(s) - n
      /\ \A i \in 1..(Len(s) - n) : z[i] = s[n + i]
      /\ SubSeq(s, 1, n) \o z = s
  <2>1. n \in Nat /\ n <= Len(s) /\ s \in Seq(S)
    BY <1>1
  <2>2. /\ SubSeq(s, 1, n) \in Seq(S) /\ SubSeq(s, n + 1, Len(s)) \in Seq(S)
        /\ Len(SubSeq(s, n + 1, Len(s))) = Len(s) - n
        /\ \A i \in 1..(Len(s) - n) : SubSeq(s, n + 1, Len(s))[i] = s[n + i]
        /\ SubSeq(s, 1, n) \o SubSeq(s, n + 1, Len(s)) = s
    <3> HIDE DEF z, e
    <3> QED BY <2>1, Splits
  <2> QED BY <2>2
<1>3. Len(z) = 1 /\ z[1] = e
  BY <1>1, <1>2
<1>4. e \in S
  BY <1>1, ElementOfSeq
<1> HIDE DEF z, e
<1>5. <<e>> \in Seq(S) /\ Len(<<e>>) = 1 /\ <<e>>[1] = e
  BY <1>4
<1>6. z = <<e>>
  BY <1>2, <1>3, <1>5, SeqEqual
<1> QED BY <1>2, <1>4, <1>6 DEF e

----------------------------------------------------------------------------
(* The prompt in a text.                                                   *)

LEMMA PatternType == Pattern \in Seq(Byte) /\ Len(Pattern) \in Nat \ {0}
                     /\ DOMAIN Pattern = 1..Len(Pattern)
<1>1. Byte \ {"bad"} \subseteq Byte
  OBVIOUS
<1>2. Pattern \in Seq(Byte)
  BY <1>1, PatternAssumption, SeqMonotonic
<1> QED BY <1>2, PatternAssumption, EmptySeq, LenProperties

\* What follows a hit does not matter to it.
LEMMA HitExtends ==
  ASSUME NEW s, NEW S, NEW a, a \in Seq(S), NEW b, b \in Seq(S), NEW n \in Nat,
         n + Len(Pattern) <= Len(a)
  PROVE  HitIn(s, a \o b, n) <=> HitIn(s, a, n)
<1>1. /\ Len(a \o b) = Len(a) + Len(b) /\ Len(a) \in Nat /\ Len(b) \in Nat
      /\ \A i \in 1..Len(a) : (a \o b)[i] = a[i]
  BY Pieces
<1> DEFINE c == a \o b
<1>2. \A i \in 1..Len(a) : c[i] = a[i]
  BY <1>1
<1>3. n + Len(Pattern) <= Len(c)
  BY <1>1, PatternType
<1> HIDE DEF c
<1>4. ASSUME NEW i \in 1..Len(Pattern) PROVE c[n + i] = a[n + i]
  <2>1. n + i \in 1..Len(a)
    BY <1>1, PatternType
  <2> QED BY <1>2, <2>1
<1> QED BY <1>3, <1>4 DEF HitIn, c

LEMMA FirstExtends ==
  ASSUME NEW s, NEW S, NEW a, a \in Seq(S), NEW b, b \in Seq(S), NEW n \in Nat,
         n + Len(Pattern) <= Len(a)
  PROVE  FirstIn(s, a \o b, n) <=> FirstIn(s, a, n)
<1>1. HitIn(s, a \o b, n) <=> HitIn(s, a, n)
  BY HitExtends
<1>2. ASSUME NEW k \in 0..(n - 1) PROVE HitIn(s, a \o b, k) <=> HitIn(s, a, k)
  <2>1. k \in Nat /\ k + Len(Pattern) <= Len(a)
    <3>1. Len(a) \in Nat
      BY LenProperties
    <3> QED BY <3>1, PatternType
  <2> QED BY <2>1, HitExtends
<1> QED BY <1>1, <1>2 DEF FirstIn

\* Nor does what the process writes later.
LEMMA HitStays ==
  ASSUME NEW s, s \in Seq(Byte), NEW e \in Byte, NEW p, p \in Seq(DOMAIN s), NEW n \in Nat
  PROVE  HitIn(Append(s, e), p, n) <=> HitIn(s, p, n)
<1>1. s \in Seq(Byte) /\ p \in Seq(DOMAIN s) /\ DOMAIN s = 1..Len(s)
      /\ \A i \in 1..Len(s) : Append(s, e)[i] = s[i]
  BY LenProperties, AppendProperties
<1>2. ASSUME n + Len(Pattern) <= Len(p), NEW i \in 1..Len(Pattern)
      PROVE  Append(s, e)[p[n + i]] = s[p[n + i]]
  <2>1. Len(p) \in Nat
    BY LenProperties
  <2>2. n + i \in 1..Len(p)
    BY <1>2, <2>1, PatternType
  <2>3. p[n + i] \in DOMAIN s
    BY <1>1, <2>2, ElementOfSeq
  <2> QED BY <1>1, <2>3
<1> QED BY <1>2 DEF HitIn

LEMMA FirstStays ==
  ASSUME NEW s, s \in Seq(Byte), NEW e \in Byte, NEW p, p \in Seq(DOMAIN s), NEW n,
         FirstIn(s, p, n)
  PROVE  FirstIn(Append(s, e), p, n)
<1>1. n \in Nat /\ HitIn(s, p, n)
  BY DEF FirstIn
<1>2. HitIn(Append(s, e), p, n)
  BY <1>1, HitStays
<1>3. ASSUME NEW k \in 0..(n - 1) PROVE ~HitIn(Append(s, e), p, k)
  <2>1. k \in Nat /\ ~HitIn(s, p, k)
    BY <1>1 DEF FirstIn
  <2> QED BY <2>1, HitStays
<1> QED BY <1>1, <1>2, <1>3 DEF FirstIn

NatLess == {ss \in Nat \X Nat : ss[1] < ss[2]}

\* A set of numbers has a least one.
LEMMA Least == ASSUME NEW T, T \subseteq Nat, T # {}
               PROVE  \E n \in T : \A m \in T : n <= m
<1>1. IsWellFoundedOn(NatLess, Nat)
  BY NatLessThanWellFounded, Zenon DEF NatLess, OpToRel
<1>2. PICK n \in T : \A m \in T : ~(<<m, n>> \in NatLess)
  BY <1>1, WFMin
<1>3. ASSUME NEW m \in T PROVE n <= m
  <2> DEFINE ss == <<m, n>>
  <2>1. m < n => ss \in Nat \X Nat /\ ss[1] < ss[2]
    OBVIOUS
  <2>2. m < n => ss \in NatLess
    BY <2>1 DEF NatLess
  <2> QED BY <2>2, <1>2
<1> QED BY <1>3

\* What pattern.search returns.
LEMMA Searches ==
  ASSUME NEW p, p \in Seq(DOMAIN said)
  PROVE  /\ Hits(p) = {} => NoneIn(said, p)
         /\ Hits(p) # {} => /\ FirstIn(said, p, FirstHit(p))
                            /\ FirstHit(p) + Len(Pattern) <= Len(p)
<1>0. Len(p) \in Nat
  BY LenProperties
<1>1. Hits(p) = {n \in 0..Len(p) : HitIn(said, p, n)}
  BY PatternType DEF Hits, HitIn
<1>2. Hits(p) = {} => NoneIn(said, p)
  BY <1>1 DEF NoneIn
<1>3. ASSUME Hits(p) # {}
      PROVE  FirstIn(said, p, FirstHit(p)) /\ FirstHit(p) + Len(Pattern) <= Len(p)
  <2>1. Hits(p) \subseteq Nat
    BY <1>0, <1>1
  <2>2. \E n \in Hits(p) : \A m \in Hits(p) : n <= m
    BY <1>3, <2>1, Least
  <2>3. FirstHit(p) \in Hits(p) /\ \A m \in Hits(p) : FirstHit(p) <= m
    BY <2>2 DEF FirstHit
  <2> DEFINE n == FirstHit(p)
  <2>4. n \in 0..Len(p) /\ n \in Nat /\ HitIn(said, p, n) /\ \A m \in Hits(p) : n <= m
    BY <1>0, <1>1, <2>3
  <2> HIDE DEF n
  <2>5. ASSUME NEW k \in 0..(n - 1) PROVE ~HitIn(said, p, k)
    <3>1. k \in 0..Len(p) /\ ~(n <= k)
      BY <1>0, <2>4
    <3> QED BY <1>1, <2>4, <3>1
  <2>6. FirstIn(said, p, n) /\ n + Len(Pattern) <= Len(p)
    BY <2>4, <2>5 DEF FirstIn, HitIn
  <2> QED BY <2>6 DEF n
<1> QED BY <1>2, <1>3

\* What the caller gets of a text with the prompt in it, and what is left.
LEMMA Parts ==
  ASSUME NEW p, p \in Seq(DOMAIN said), Hits(p) # {}
  PROVE  LET n == FirstHit(p)
         IN  /\ n \in Nat /\ n + Len(Pattern) <= Len(p) /\ FirstIn(said, p, n)
             /\ UpTo(p) \in Seq(DOMAIN said) /\ Len(UpTo(p)) = n + Len(Pattern)
             /\ After(p) \in Seq(DOMAIN said) /\ UpTo(p) \o After(p) = p
             /\ FirstIn(said, UpTo(p), Len(UpTo(p)) - Len(Pattern))
             /\ MatchOf(UpTo(p)) = [kind |-> "match", text |-> SubSeq(p, 1, n)]
<1> DEFINE n == FirstHit(p)
           m == n + Len(Pattern)
<1>1. n \in Nat /\ m <= Len(p) /\ m \in Nat /\ n <= m /\ FirstIn(said, p, n)
  <2>1. FirstIn(said, p, n) /\ m <= Len(p)
    BY Searches
  <2> HIDE DEF n
  <2> QED BY <2>1, PatternType DEF FirstIn
<1>2. UpTo(p) = SubSeq(p, 1, m) /\ After(p) = SubSeq(p, m + 1, Len(p))
  BY DEF UpTo, After
<1> HIDE DEF n
<1>3. /\ UpTo(p) \in Seq(DOMAIN said) /\ Len(UpTo(p)) = m
      /\ After(p) \in Seq(DOMAIN said) /\ UpTo(p) \o After(p) = p
  <2> DEFINE k == m
  <2>1. k \in Nat /\ k <= Len(p)
    BY <1>1
  <2> HIDE DEF k
  <2>2. /\ SubSeq(p, 1, k) \in Seq(DOMAIN said) /\ Len(SubSeq(p, 1, k)) = k
        /\ SubSeq(p, k + 1, Len(p)) \in Seq(DOMAIN said)
        /\ SubSeq(p, 1, k) \o SubSeq(p, k + 1, Len(p)) = p
    BY <2>1, Splits
  <2> QED BY <1>2, <2>2 DEF k
<1>4. Len(UpTo(p)) - Len(Pattern) = n
  BY <1>1, <1>3, PatternType
<1>5. FirstIn(said, UpTo(p), n)
  <2>1. n + Len(Pattern) <= Len(UpTo(p))
    BY <1>3, <1>1
  <2>2. FirstIn(said, UpTo(p) \o After(p), n) <=> FirstIn(said, UpTo(p), n)
    BY <1>1, <1>3, <2>1, FirstExtends
  <2> QED BY <1>1, <1>3, <2>2
<1>6. SubSeq(UpTo(p), 1, n) = SubSeq(p, 1, n)
  <2> HIDE DEF m
  <2>1. SubSeq(SubSeq(p, 1, m), 1, n) = SubSeq(p, 1, n)
    BY <1>1, Begins
  <2> QED BY <1>2, <2>1
<1>7. MatchOf(UpTo(p)) = [kind |-> "match", text |-> SubSeq(p, 1, n)]
  BY <1>4, <1>6 DEF MatchOf
<1> QED BY <1>1, <1>3, <1>4, <1>5, <1>7 DEF n, m

----------------------------------------------------------------------------
(* The abstract text.                                                      *)

Rest == found \o pending \o (IF atEof THEN <<>> ELSE held) \o stream

\* The pattern at a place, as PromptStream says it.
LEMMA BytesAre ==
  ASSUME NEW p, p \in Seq(DOMAIN said), NEW n \in Nat
  PROVE  HitIn(said, p, n) <=>
           /\ n + Len(Pattern) <= Len(p)
           /\ Stream!Bytes(SubSeq(p, n + 1, n + Len(Pattern))) = Pattern
<1> DEFINE len == Len(Pattern)
           q == SubSeq(p, n + 1, n + len)
<1>1. ASSUME n + len <= Len(p)
      PROVE  DOMAIN q = 1..len /\ \A i \in 1..len : q[i] = p[n + i]
  <2> DEFINE first == n + 1
             last == n + len
  <2>1. first \in Int /\ last \in Int /\ last - first + 1 = len /\ first <= last
    BY PatternType
  <2>2. ASSUME NEW i \in first..last PROVE p[i] \in DOMAIN said
    <3>1. i \in 1..Len(p)
      <4>1. Len(p) \in Nat
        BY LenProperties
      <4> QED BY <1>1, <4>1, PatternType
    <3> QED BY <3>1, ElementOfSeq
  <2> HIDE DEF first, last
  <2>3. /\ SubSeq(p, first, last) \in Seq(DOMAIN said)
        /\ Len(SubSeq(p, first, last)) = IF first <= last THEN last - first + 1 ELSE 0
        /\ \A i \in 1..(last - first + 1) : SubSeq(p, first, last)[i] = p[first + i - 1]
    BY <2>1, <2>2, SubSeqProperties
  <2>4. /\ SubSeq(p, first, last) \in Seq(DOMAIN said) /\ Len(SubSeq(p, first, last)) = len
        /\ \A i \in 1..len : SubSeq(p, first, last)[i] = p[first + i - 1]
    BY <2>1, <2>3
  <2>5. DOMAIN SubSeq(p, first, last) = 1..len
    BY <2>4, LenProperties
  <2>6. \A i \in 1..len : first + i - 1 = n + i
    BY PatternType DEF first
  <2> QED BY <2>4, <2>5, <2>6 DEF first, last
<1>2. Stream!Bytes(q) = [i \in DOMAIN q |-> said[q[i]]]
  BY DEF Stream!Bytes
<1>3. Pattern = [i \in 1..len |-> Pattern[i]]
  BY PatternType, LenProperties
<1> HIDE DEF q, len
<1>4. ASSUME n + len <= Len(p)
      PROVE  Stream!Bytes(q) = Pattern <=> \A i \in 1..len : said[p[n + i]] = Pattern[i]
  <2>1. DOMAIN q = 1..len /\ \A i \in 1..len : q[i] = p[n + i]
    BY <1>1, <1>4
  <2>2. Stream!Bytes(q) = [i \in 1..len |-> said[q[i]]]
    BY <1>2, <2>1
  <2>3. ASSUME Stream!Bytes(q) = Pattern, NEW i \in 1..len PROVE said[p[n + i]] = Pattern[i]
    BY <2>1, <2>2, <2>3
  <2>4. ASSUME \A i \in 1..len : said[p[n + i]] = Pattern[i] PROVE Stream!Bytes(q) = Pattern
    <3>1. \A i \in 1..len : said[q[i]] = Pattern[i]
      BY <2>1, <2>4
    <3>2. [i \in 1..len |-> said[q[i]]] = [i \in 1..len |-> Pattern[i]]
      BY <3>1
    <3> QED BY <1>3, <2>2, <3>2
  <2> QED BY <2>3, <2>4
<1> QED BY <1>4 DEF HitIn, q, len

LEMMA FoundAtIs ==
  ASSUME NEW p, p \in Seq(DOMAIN said), NEW n, FirstIn(said, p, n)
  PROVE  n \in 0..Len(p) /\ n + Len(Pattern) <= Len(p) /\ Stream!FoundAt(p, n)
<1>1. n \in Nat /\ HitIn(said, p, n) /\ \A k \in 0..(n - 1) : ~HitIn(said, p, k)
  BY DEF FirstIn
<1>2. n \in 0..Len(p) /\ n + Len(Pattern) <= Len(p)
  <2>1. Len(p) \in Nat
    BY LenProperties
  <2> QED BY <1>1, <2>1, PatternType DEF HitIn
<1>3. /\ n + Len(Pattern) <= Len(p)
      /\ Stream!Bytes(SubSeq(p, n + 1, n + Len(Pattern))) = Pattern
  BY <1>1, BytesAre
<1>4. ASSUME NEW k \in 0..(n - 1)
      PROVE  ~(/\ k + Len(Pattern) <= Len(p)
               /\ Stream!Bytes(SubSeq(p, k + 1, k + Len(Pattern))) = Pattern)
  <2>1. k \in Nat /\ ~HitIn(said, p, k)
    BY <1>1
  <2> QED BY <2>1, BytesAre
<1> QED BY <1>2, <1>3, <1>4 DEF Stream!FoundAt

LEMMA NoPattern ==
  ASSUME NEW p, p \in Seq(DOMAIN said), NoneIn(said, p)
  PROVE  ~Stream!HasPattern(p)
<1>1. ASSUME NEW n \in 0..Len(p) PROVE ~Stream!FoundAt(p, n)
  <2>1. n \in Nat /\ ~HitIn(said, p, n)
    <3>1. Len(p) \in Nat
      BY LenProperties
    <3> QED BY <3>1 DEF NoneIn
  <2>2. ~(/\ n + Len(Pattern) <= Len(p)
          /\ Stream!Bytes(SubSeq(p, n + 1, n + Len(Pattern))) = Pattern)
    BY <2>1, BytesAre
  <2> QED BY <2>2 DEF Stream!FoundAt
<1> QED BY <1>1 DEF Stream!HasPattern

\* The unread text in parts.
Unread == (IF atEof THEN <<>> ELSE held) \o stream

LEMMA RestIs ==
  ASSUME TypeOK
  PROVE  /\ found \in Seq(DOMAIN said) /\ pending \in Seq(DOMAIN said)
         /\ held \in Seq(DOMAIN said) /\ stream \in Seq(DOMAIN said)
         /\ Unread \in Seq(DOMAIN said) /\ Rest \in Seq(DOMAIN said)
         /\ Rest = (found \o pending) \o Unread
         /\ found \o pending \in Seq(DOMAIN said)
         /\ found = <<>> => Rest = pending \o Unread
         /\ Rest = found \o (pending \o Unread) /\ pending \o Unread \in Seq(DOMAIN said)
<1> DEFINE P == DOMAIN said
           half == IF atEof THEN <<>> ELSE held
<1>1. found \in Seq(P) /\ pending \in Seq(P) /\ held \in Seq(P) /\ stream \in Seq(P)
  BY DEF TypeOK
<1> HIDE DEF P
<1>2. half \in Seq(P)
  BY <1>1, EmptySeq
<1> HIDE DEF half
<1>3. Unread = half \o stream /\ Rest = ((found \o pending) \o half) \o stream
  BY DEF Unread, Rest, half
<1>4. Unread \in Seq(P) /\ found \o pending \in Seq(P)
  BY <1>1, <1>2, <1>3, ConcatProperties
<1>5. Rest = (found \o pending) \o Unread
  <2> DEFINE both == found \o pending
  <2>1. both \in Seq(P) /\ half \in Seq(P) /\ stream \in Seq(P)
    BY <1>1, <1>2, <1>4
  <2> HIDE DEF both
  <2>2. (both \o half) \o stream = both \o (half \o stream)
    BY <2>1, ConcatAssociative
  <2> QED BY <1>3, <2>2 DEF both
<1>6. (found \o pending) \o Unread = found \o (pending \o Unread)
  <2>1. found \in Seq(P) /\ pending \in Seq(P) /\ Unread \in Seq(P)
    BY <1>1, <1>4
  <2> QED BY <2>1, ConcatAssociative
<1>7. pending \o Unread \in Seq(P)
  BY <1>1, <1>4, ConcatProperties
<1>8. (found \o pending) \o Unread \in Seq(P)
  BY <1>4, ConcatProperties
<1>9. found = <<>> => found \o pending = pending
  BY <1>1, ConcatEmptySeq
<1> QED BY <1>1, <1>4, <1>5, <1>6, <1>7, <1>8, <1>9 DEF P

----------------------------------------------------------------------------
(* What the calls make of the abstract text.                               *)

\* A match that is told, and one that is lost.
LEMMA TellsMatch ==
  ASSUME TypeOK, NEW hit, hit \in Seq(DOMAIN said), NEW after, after \in Seq(DOMAIN said),
         NEW n \in Nat, Len(hit) = n + Len(Pattern), FirstIn(said, hit, n),
         Rest = hit \o after, Rest' = after, UNCHANGED <<said, alive>>
  PROVE  /\ reply' = [kind |-> "match", text |-> SubSeq(hit, 1, n)] => Stream!Matches
         /\ reply' = [None EXCEPT !.kind = "cancelled"] => Stream!MatchLost
<1>1. /\ Rest \in Seq(DOMAIN said) /\ hit \in Seq(DOMAIN said) /\ after \in Seq(DOMAIN said)
      /\ Len(hit) \in Nat /\ n + Len(Pattern) <= Len(hit) /\ n <= Len(hit)
  BY RestIs, LenProperties, PatternType
<1>2. FirstIn(said, Rest, n)
  <2>1. FirstIn(said, hit \o after, n) <=> FirstIn(said, hit, n)
    BY <1>1, FirstExtends
  <2> QED BY <2>1
<1>3. n \in 0..Len(Rest) /\ Stream!FoundAt(Rest, n)
  BY <1>1, <1>2, FoundAtIs
<1>4. SubSeq(Rest, 1, n) = SubSeq(hit, 1, n)
  <2>1. SubSeq(hit \o after, 1, n) = SubSeq(hit, 1, n)
    BY <1>1, Cuts
  <2> QED BY <2>1
<1>5. SubSeq(Rest, n + Len(Pattern) + 1, Len(Rest)) = Rest'
  <2>1. SubSeq(hit \o after, Len(hit) + 1, Len(hit \o after)) = after
    BY <1>1, Pieces
  <2> QED BY <2>1
<1>6. (~alive)' = ~alive
  OBVIOUS
<1>7. reply' = [kind |-> "match", text |-> SubSeq(hit, 1, n)] => Stream!Matches
  BY <1>3, <1>4, <1>5, <1>6 DEF Stream!Matches, Rest
<1>8. reply' = [None EXCEPT !.kind = "cancelled"] => Stream!MatchLost
  BY <1>3, <1>5, <1>6 DEF Stream!MatchLost, Stream!None, None, Rest
<1> QED BY <1>7, <1>8

\* The pending text is returned.
LEMMA TellsText ==
  ASSUME TypeOK, found = <<>>, Rest' = Unread, UNCHANGED <<said, alive>>,
         \/ reply' = [kind |-> "pending", text |-> pending]
         \/ reply' = [kind |-> "all", text |-> pending] /\ alive = FALSE /\ Unread = <<>>
  PROVE  Stream!Returns
<1> DEFINE n == Len(pending)
<1>1. Rest = pending \o Unread /\ Rest \in Seq(DOMAIN said)
      /\ pending \in Seq(DOMAIN said) /\ Unread \in Seq(DOMAIN said)
  BY RestIs
<1>2. /\ SubSeq(pending \o Unread, 1, n) = pending
      /\ SubSeq(pending \o Unread, n + 1, Len(pending \o Unread)) = Unread
      /\ Len(pending \o Unread) = n + Len(Unread) /\ n \in Nat /\ Len(Unread) \in Nat
  BY <1>1, Pieces
<1>3. /\ SubSeq(Rest, 1, n) = pending /\ SubSeq(Rest, n + 1, Len(Rest)) = Rest'
      /\ n \in 0..Len(Rest) /\ (Unread = <<>> => n = Len(Rest))
  <2>1. Unread = <<>> => Len(Unread) = 0
    BY EmptySeq
  <2> HIDE DEF n
  <2>2. Len(Rest) = n + Len(Unread)
    BY <1>1, <1>2
  <2>3. SubSeq(Rest, 1, n) = pending /\ SubSeq(Rest, n + 1, Len(Rest)) = Unread
    BY <1>1, <1>2
  <2>4. n \in 0..Len(Rest) /\ (Unread = <<>> => n = Len(Rest))
    BY <1>2, <2>1, <2>2
  <2> QED BY <2>3, <2>4
<1> HIDE DEF n
<1>4. reply' \in {[kind |-> k, text |-> SubSeq(Rest, 1, n)] : k \in {"pending", "all"}}
      /\ (reply'.kind = "all" => ~alive /\ n = Len(Rest))
  BY <1>3
<1> QED BY <1>3, <1>4 DEF Stream!Returns, Rest

\* A call that fails, or has only sent something.
LEMMA TellsFailure ==
  ASSUME NEW kind \in Stream!Failures \cup {"sent"}, reply' = [None EXCEPT !.kind = kind],
         kind = "eof" => ~alive /\ ~Stream!HasPattern(Rest),
         Rest' = Rest, UNCHANGED <<said, alive>>
  PROVE  Stream!Fails
<1>1. reply' \in [kind : Stream!Failures \cup {"sent"}, text : {<<>>}] /\ reply'.kind = kind
  BY DEF None
<1> QED BY <1>1 DEF Stream!Fails, Rest

LEMMA TellsNothing ==
  ASSUME reply' = None, Rest' = Rest, UNCHANGED <<said, alive>>
  PROVE  Stream!Calls
BY DEF Stream!Calls, Stream!None, None, Rest

LEMMA TellsStutter ==
  ASSUME reply' = reply, Rest' = Rest, UNCHANGED <<said, alive>>
  PROVE  UNCHANGED Stream!vars
BY DEF Stream!vars, Rest

\* What the decoder refuses is lost: the middle one of three parts of the text.
LEMMA LosesChunk ==
  ASSUME TypeOK, NEW a, a \in Seq(DOMAIN said), NEW lost, lost \in Seq(DOMAIN said), lost # <<>>,
         NEW b, b \in Seq(DOMAIN said),
         Rest = (a \o lost) \o b, Rest' = a \o b, UNCHANGED <<said, alive, reply>>,
         \/ ~Clean(said, lost[Len(lost)])
         \/ alive = FALSE /\ b = <<>>
  PROVE  Stream!ChunkLost
<1> DEFINE i == Len(a)
           c == a \o lost
           j == Len(c)
           k == Len(lost)
<1>1. /\ a \in Seq(DOMAIN said) /\ lost \in Seq(DOMAIN said) /\ b \in Seq(DOMAIN said)
      /\ Rest \in Seq(DOMAIN said) /\ k \in Nat /\ k # 0
  BY RestIs, EmptySeq
<1>2. /\ c \in Seq(DOMAIN said) /\ j = i + k /\ i \in Nat
      /\ SubSeq(c, 1, i) = a /\ \A x \in 1..k : c[i + x] = lost[x]
  BY <1>1, Pieces
<1> HIDE DEF c
<1>3. /\ Len(c \o b) = j + Len(b) /\ Len(b) \in Nat
      /\ \A x \in 1..j : (c \o b)[x] = c[x]
      /\ SubSeq(c \o b, j + 1, Len(c \o b)) = b
  <2>1. c \in Seq(DOMAIN said) /\ b \in Seq(DOMAIN said)
    BY <1>1, <1>2
  <2> QED BY <2>1, Pieces
<1>4. SubSeq(c \o b, 1, i) = SubSeq(c, 1, i)
  <2>1. i <= Len(c) /\ i \in Nat
    BY <1>1, <1>2
  <2> HIDE DEF i
  <2> QED BY <1>1, <1>2, <2>1, Cuts
<1>5. Rest = c \o b
  BY DEF c
<1>6. Stream!Cut(Rest, i, j) = Rest'
  BY <1>2, <1>3, <1>4, <1>5 DEF Stream!Cut
<1>7. i \in 0..Len(Rest) /\ j \in 0..Len(Rest) /\ i < j
  BY <1>1, <1>2, <1>3, <1>5
<1>8. Rest[j] = lost[k]
  <2>1. j \in 1..j /\ k \in 1..k
    BY <1>1, <1>2
  <2>2. (c \o b)[j] = c[j]
    BY <1>3, <2>1
  <2>3. c[i + k] = lost[k]
    BY <1>2, <2>1
  <2> QED BY <1>2, <1>5, <2>2, <2>3
<1>9. \/ \E x \in 1..Rest[j] : said[x] = "bad"
      \/ ~alive /\ j = Len(Rest)
  <2>1. b = <<>> => j = Len(Rest)
    <3>1. b = <<>> => Len(b) = 0
      BY EmptySeq
    <3> QED BY <1>2, <1>3, <1>5, <3>1
  <2> QED BY <1>8, <2>1 DEF Clean
<1> HIDE DEF i, j
<1> QED BY <1>6, <1>7, <1>9 DEF Stream!ChunkLost, Rest

\* What the process writes is read after everything else.
LEMMA TellsByte ==
  ASSUME TypeOK, alive = TRUE, NEW b \in Byte, said' = Append(said, b),
         stream' = Append(stream, Len(said')),
         UNCHANGED <<found, pending, held, atEof, alive, reply>>
  PROVE  Stream!Say
<1> DEFINE e == Len(said')
           front == found \o pending \o (IF atEof THEN <<>> ELSE held)
           P == Nat
<1>1. /\ found \in Seq(P) /\ pending \in Seq(P) /\ held \in Seq(P) /\ stream \in Seq(P)
      /\ e \in P
  <2>1. said \in Seq(Byte) /\ DOMAIN said = 1..Len(said) /\ Len(said) \in Nat
    BY LenProperties DEF TypeOK
  <2>2. DOMAIN said \subseteq P
    BY <2>1
  <2>3. e = Len(said) + 1
    BY <2>1, AppendProperties
  <2>4. /\ found \in Seq(DOMAIN said) /\ pending \in Seq(DOMAIN said)
        /\ held \in Seq(DOMAIN said) /\ stream \in Seq(DOMAIN said)
    BY RestIs
  <2> HIDE DEF P, e
  <2>5. found \in Seq(P) /\ pending \in Seq(P) /\ held \in Seq(P) /\ stream \in Seq(P)
    BY <2>2, <2>4, SeqMonotonic
  <2> QED BY <2>1, <2>3, <2>5 DEF P
<1> HIDE DEF P
<1>2. front \in Seq(P)
  <2> DEFINE half == IF atEof THEN <<>> ELSE held
  <2>1. half \in Seq(P) /\ found \o pending \in Seq(P)
    BY <1>1, EmptySeq, ConcatProperties
  <2>2. front = (found \o pending) \o half
    OBVIOUS
  <2> HIDE DEF half, front
  <2> QED BY <2>1, <2>2, ConcatProperties
<1>3. Rest = front \o stream /\ Rest' = front \o Append(stream, e)
  BY DEF Rest
<1> HIDE DEF e, front
<1>4. front \o Append(stream, e) = Append(front \o stream, e)
  <2>1. <<e>> \in Seq(P) /\ front \o stream \in Seq(P)
    BY <1>1, <1>2, ConcatProperties
  <2>2. Append(stream, e) = stream \o <<e>>
    BY <1>1, AppendIsConcat
  <2>3. (front \o stream) \o <<e>> = front \o (stream \o <<e>>)
    <3>1. front \in Seq(P) /\ stream \in Seq(P) /\ <<e>> \in Seq(P)
      BY <1>1, <1>2, <2>1
    <3> QED BY <3>1, ConcatAssociative
  <2>4. Append(front \o stream, e) = (front \o stream) \o <<e>>
    BY <1>1, <2>1, AppendIsConcat
  <2> QED BY <2>2, <2>3, <2>4
<1>5. Rest' = Append(Rest, Len(said'))
  BY <1>3, <1>4 DEF e
<1> QED BY <1>5 DEF Stream!Say, Rest

----------------------------------------------------------------------------
(* The text that the process writes.                                       *)

LEMMA CleanParts ==
  ASSUME NEW a, a \in Seq(Byte), NEW b, b \in Seq(Byte)
  PROVE  /\ \A i \in 0..Len(a) : Clean(a \o b, i) <=> Clean(a, i)
         /\ \A i \in 0..Len(b) : Clean(a \o b, Len(a) + i) <=> Clean(a, Len(a)) /\ Clean(b, i)
<1> DEFINE n == Len(a)
           c == a \o b
<1>1. /\ n \in Nat /\ Len(b) \in Nat
      /\ \A i \in 1..n : c[i] = a[i]
      /\ \A i \in 1..Len(b) : c[n + i] = b[i]
  BY Pieces
<1> HIDE DEF c, n
<1>2. ASSUME NEW i \in 0..n PROVE Clean(c, i) <=> Clean(a, i)
  BY <1>1 DEF Clean
<1>3. ASSUME NEW i \in 0..Len(b) PROVE Clean(c, n + i) <=> Clean(a, n) /\ Clean(b, i)
  <2>1. ASSUME Clean(c, n + i) PROVE Clean(a, n) /\ Clean(b, i)
    <3>1. ASSUME NEW k \in 1..n PROVE a[k] # "bad"
      <4>1. k \in 1..n + i
        BY <1>1
      <4> QED BY <1>1, <2>1, <4>1 DEF Clean
    <3>2. ASSUME NEW k \in 1..i PROVE b[k] # "bad"
      <4>1. n + k \in 1..n + i /\ k \in 1..Len(b)
        BY <1>1
      <4>2. c[n + k] # "bad"
        BY <2>1, <4>1 DEF Clean
      <4> QED BY <1>1, <4>1, <4>2
    <3> QED BY <3>1, <3>2 DEF Clean
  <2>2. ASSUME Clean(a, n), Clean(b, i) PROVE Clean(c, n + i)
    <3>1. ASSUME NEW k \in 1..n + i PROVE c[k] # "bad"
      <4>1. CASE k <= n
        <5>1. k \in 1..n
          BY <1>1, <4>1
        <5> QED BY <1>1, <2>2, <5>1 DEF Clean
      <4>2. CASE ~(k <= n)
        <5> DEFINE m == k - n
        <5>1. m \in 1..i /\ m \in 1..Len(b) /\ n + m = k
          BY <1>1, <4>2
        <5> HIDE DEF m
        <5>2. b[m] # "bad" /\ c[n + m] = b[m]
          BY <1>1, <2>2, <5>1 DEF Clean
        <5> QED BY <5>1, <5>2
      <4> QED BY <4>1, <4>2
    <3> QED BY <3>1 DEF Clean
  <2> QED BY <2>1, <2>2
<1> QED BY <1>2, <1>3 DEF c, n

\* The beginning of a text keeps its characters together, but perhaps for the last one.
LEMMA PairedPart ==
  ASSUME NEW a, a \in Seq(Byte), NEW b, b \in Seq(Byte), Paired(a \o b)
  PROVE  Paired(a)
<1> DEFINE c == a \o b
           n == Len(a)
<1>1. /\ n \in Nat /\ Len(c) = n + Len(b) /\ Len(b) \in Nat
      /\ \A i \in 1..n : c[i] = a[i]
  BY Pieces
<1>2. \A i \in 0..n : Clean(c, i) <=> Clean(a, i)
  BY CleanParts
<1> HIDE DEF c, n
<1>3. ASSUME NEW i \in 1..n, Clean(a, i) PROVE a[i] = "cont" <=> i > 1 /\ a[i - 1] = "lead"
  <2>1. i \in 1..Len(c) /\ i \in 0..n /\ (i > 1 => i - 1 \in 1..n)
    BY <1>1
  <2>2. Clean(c, i)
    BY <1>2, <1>3, <2>1
  <2>3. c[i] = "cont" <=> i > 1 /\ c[i - 1] = "lead"
    BY <2>1, <2>2 DEF Paired, c
  <2> QED BY <1>1, <2>1, <2>3
<1> QED BY <1>3 DEF Paired, n

\* A text after a text is a text.
LEMMA TextJoins ==
  ASSUME NEW a, a \in Seq(Byte), NEW b, b \in Seq(Byte), IsText(a), IsText(b)
  PROVE  IsText(a \o b)
<1> DEFINE c == a \o b
           n == Len(a)
           m == Len(b)
<1>1. /\ n \in Nat /\ Len(c) = n + m /\ m \in Nat
      /\ \A i \in 1..n : c[i] = a[i]
      /\ \A i \in 1..m : c[n + i] = b[i]
      /\ (a = <<>> <=> n = 0) /\ (b = <<>> <=> m = 0)
  BY Pieces, EmptySeq
<1>2. /\ \A i \in 0..n : Clean(c, i) <=> Clean(a, i)
      /\ \A i \in 0..m : Clean(c, n + i) <=> Clean(a, n) /\ Clean(b, i)
  BY CleanParts
<1>3. /\ \A i \in 1..n : Clean(a, i) => (a[i] = "cont" <=> i > 1 /\ a[i - 1] = "lead")
      /\ \A i \in 1..m : Clean(b, i) => (b[i] = "cont" <=> i > 1 /\ b[i - 1] = "lead")
      /\ Clean(a, n) /\ n # 0 => a[n] # "lead"
      /\ Clean(b, m) /\ m # 0 => b[m] # "lead"
  BY <1>1 DEF IsText, Paired, Last
<1> HIDE DEF c, n, m
<1>4. ASSUME NEW i \in 1..n, Clean(c, i) PROVE c[i] = "cont" <=> i > 1 /\ c[i - 1] = "lead"
  <2>1. i \in 0..n /\ (i > 1 => i - 1 \in 1..n)
    BY <1>1
  <2>2. Clean(a, i)
    BY <1>2, <1>4, <2>1
  <2> QED BY <1>1, <1>3, <2>1, <2>2
<1>5. ASSUME NEW i \in 1..m, Clean(c, n + i)
      PROVE  c[n + i] = "cont" <=> n + i > 1 /\ c[n + i - 1] = "lead"
  <2>1. Clean(a, n) /\ Clean(b, i)
    <3>1. i \in 0..m
      BY <1>1
    <3> QED BY <1>2, <1>5, <3>1
  <2>2. c[n + i] = b[i] /\ (b[i] = "cont" <=> i > 1 /\ b[i - 1] = "lead")
    BY <1>1, <1>3, <2>1
  <2>3. CASE i = 1
    <3>1. n + i - 1 = n /\ (n + i > 1 <=> n # 0) /\ (n # 0 => n \in 1..n)
      BY <1>1, <2>3
    <3>2. n # 0 => c[n] # "lead"
      BY <1>1, <1>3, <2>1, <3>1
    <3> QED BY <2>2, <2>3, <3>1, <3>2
  <2>4. CASE i # 1
    <3> DEFINE j == i - 1
    <3>1. j \in 1..m /\ n + i - 1 = n + j /\ n + i > 1 /\ i > 1
      BY <1>1, <2>4
    <3>2. c[n + j] = b[j]
      <4> HIDE DEF j
      <4> QED BY <1>1, <3>1
    <3> QED BY <2>2, <3>1, <3>2
  <2> QED BY <2>3, <2>4
<1>6. ASSUME NEW i \in 1..n + m, Clean(c, i)
      PROVE  c[i] = "cont" <=> i > 1 /\ c[i - 1] = "lead"
  <2>1. CASE i <= n
    <3>1. i \in 1..n
      BY <1>1, <2>1
    <3> QED BY <1>4, <1>6, <3>1
  <2>2. CASE ~(i <= n)
    <3> DEFINE j == i - n
    <3>1. j \in 1..m /\ n + j = i /\ n + j - 1 = i - 1
      BY <1>1, <2>2
    <3> HIDE DEF j
    <3>2. Clean(c, n + j)
      BY <1>6, <3>1
    <3>3. c[n + j] = "cont" <=> n + j > 1 /\ c[n + j - 1] = "lead"
      BY <1>5, <3>1, <3>2
    <3>4. c[n + j] = c[i] /\ c[n + j - 1] = c[i - 1] /\ (n + j > 1 <=> i > 1)
      BY <3>1
    <3> QED BY <3>3, <3>4
  <2> QED BY <2>1, <2>2
<1>7. Paired(c)
  BY <1>1, <1>6 DEF Paired
<1>8. ASSUME Clean(c, n + m), n + m # 0 PROVE c[n + m] # "lead"
  <2>1. Clean(a, n) /\ Clean(b, m)
    <3>1. m \in 0..m
      BY <1>1
    <3> QED BY <1>2, <1>8, <3>1
  <2>2. CASE m = 0
    <3>1. n \in 1..n /\ n + m = n /\ n # 0
      BY <1>1, <1>8, <2>2
    <3> QED BY <1>1, <1>3, <2>1, <3>1
  <2>3. CASE m # 0
    <3>1. m \in 1..m
      BY <1>1, <2>3
    <3> QED BY <1>1, <1>3, <2>1, <2>3, <3>1
  <2> QED BY <2>2, <2>3
<1>9. c # <<>> => n + m # 0
  <2>1. c \in Seq(Byte)
    BY Pieces DEF c
  <2> QED BY <1>1, <2>1, EmptySeq
<1> QED BY <1>1, <1>7, <1>8, <1>9 DEF IsText, Last, c

----------------------------------------------------------------------------
(* A chunk of the output.                                                  *)

LEMMA Places ==
  ASSUME IInv
  PROVE  /\ said \in Seq(Byte) /\ owed \in Seq(Byte) /\ Len(said) \in Nat
         /\ DOMAIN said = 1..Len(said) /\ Paired(said)
         /\ Base \in Nat /\ Len(stream) \in Nat /\ Base + Len(stream) = Len(said)
         /\ stream \in Seq(DOMAIN said) /\ held \in Seq(DOMAIN said)
         /\ pending \in Seq(DOMAIN said) /\ found \in Seq(DOMAIN said)
         /\ Len(held) \in {0, 1} /\ (held = <<>> <=> Len(held) = 0)
<1>1. /\ said \in Seq(Byte) /\ owed \in Seq(Byte) /\ Len(held) <= 1
      /\ Len(stream) <= Len(said) /\ Paired(said \o owed)
  BY DEF IInv, TypeOK, DataInv
<1>2. /\ stream \in Seq(DOMAIN said) /\ held \in Seq(DOMAIN said)
      /\ pending \in Seq(DOMAIN said) /\ found \in Seq(DOMAIN said)
  BY DEF IInv, TypeOK
<1>3. Len(said) \in Nat /\ DOMAIN said = 1..Len(said) /\ Len(stream) \in Nat /\ Len(held) \in Nat
  BY <1>1, <1>2, LenProperties
<1>4. held = <<>> <=> Len(held) = 0
  BY <1>2, EmptySeq
<1>5. Paired(said)
  BY <1>1, PairedPart
<1>6. Base \in Nat /\ Base + Len(stream) = Len(said)
  BY <1>1, <1>3 DEF Base
<1>7. Len(held) \in {0, 1}
  <2> DEFINE k == Len(held)
  <2>1. k \in Nat /\ k <= 1
    BY <1>1, <1>3
  <2> HIDE DEF k
  <2>2. k \in {0, 1}
    BY <2>1
  <2> QED BY <2>2 DEF k
<1> QED BY <1>1, <1>2, <1>3, <1>4, <1>5, <1>6, <1>7

\* A chunk is the beginning of the stream, the empty one its end.
LEMMA ChunkIs ==
  ASSUME IInv, NEW n \in 0..ChunkSize, TakeChunk(n)
  PROVE  LET chunk == SubSeq(stream, 1, n)
         IN  /\ n \in Nat /\ n <= Len(stream) /\ atEof' = (n = 0)
             /\ n = 0 => alive = FALSE /\ stream = <<>>
             /\ chunk \in Seq(DOMAIN said) /\ Len(chunk) = n
             /\ stream' \in Seq(DOMAIN said) /\ Len(stream') = Len(stream) - n
             /\ stream = chunk \o stream'
             /\ \A i \in 1..n : chunk[i] = Base + i
             /\ \A i \in 1..Len(stream') : stream'[i] = Base + n + i
             /\ Data(n) = held \o chunk /\ Data(n) \in Seq(DOMAIN said)
             /\ Len(Data(n)) = Len(held) + n
             /\ \A i \in 1..Len(held) : Data(n)[i] = held[i]
             /\ \A i \in 1..n : Data(n)[Len(held) + i] = Base + i
<1> DEFINE chunk == SubSeq(stream, 1, n)
           P == DOMAIN said
<1>1. /\ stream \in Seq(P) /\ held \in Seq(P) /\ Len(stream) \in Nat /\ Base \in Nat
      /\ Len(held) \in Nat
      /\ \A i \in 1..Len(stream) : stream[i] = Base + i
      /\ alive \in BOOLEAN /\ (stream = <<>> <=> Len(stream) = 0)
  <2>1. stream \in Seq(P) /\ held \in Seq(P) /\ Len(stream) \in Nat /\ Base \in Nat
        /\ Len(held) \in Nat
    BY Places
  <2>2. alive \in BOOLEAN /\ \A i \in 1..Len(stream) : stream[i] = Base + i
    BY DEF IInv, TypeOK, DataInv
  <2>3. stream = <<>> <=> Len(stream) = 0
    BY <2>1, EmptySeq
  <2> QED BY <2>1, <2>2, <2>3
<1>2. /\ n \in Nat /\ n <= Len(stream) /\ atEof' = (n = 0)
      /\ n = 0 => alive = FALSE /\ stream = <<>>
      /\ stream' = SubSeq(stream, n + 1, Len(stream))
  BY <1>1, BoundsAssumption DEF TakeChunk, ChunkLengths, Readable
<1> HIDE DEF P
<1>3. /\ chunk \in Seq(P) /\ Len(chunk) = n /\ stream' \in Seq(P)
      /\ Len(stream') = Len(stream) - n
      /\ \A i \in 1..n : chunk[i] = stream[i]
      /\ \A i \in 1..(Len(stream) - n) : stream'[i] = stream[n + i]
      /\ chunk \o stream' = stream
  <2>1. stream \in Seq(P) /\ n \in Nat /\ n <= Len(stream)
    BY <1>1, <1>2
  <2>2. /\ SubSeq(stream, 1, n) \in Seq(P) /\ Len(SubSeq(stream, 1, n)) = n
        /\ SubSeq(stream, n + 1, Len(stream)) \in Seq(P)
        /\ Len(SubSeq(stream, n + 1, Len(stream))) = Len(stream) - n
        /\ \A i \in 1..n : SubSeq(stream, 1, n)[i] = stream[i]
        /\ \A i \in 1..(Len(stream) - n) :
             SubSeq(stream, n + 1, Len(stream))[i] = stream[n + i]
        /\ SubSeq(stream, 1, n) \o SubSeq(stream, n + 1, Len(stream)) = stream
    <3>1. n \in Nat
      BY <2>1
    <3> HIDE DEF chunk
    <3> QED BY <2>1, <3>1, Splits
  <2> QED BY <1>2, <2>2
<1> HIDE DEF chunk
<1>4. ASSUME NEW i \in 1..n PROVE chunk[i] = Base + i
  <2>1. i \in 1..Len(stream)
    BY <1>1, <1>2
  <2> QED BY <1>1, <1>3, <2>1
<1>5. ASSUME NEW i \in 1..Len(stream') PROVE stream'[i] = Base + n + i
  <2> DEFINE k == n + i
  <2>1. k \in 1..Len(stream) /\ i \in 1..(Len(stream) - n) /\ Base + k = Base + n + i
    BY <1>1, <1>2, <1>3
  <2>2. stream'[i] = stream[k]
    BY <1>3, <2>1
  <2> HIDE DEF k
  <2> QED BY <1>1, <2>1, <2>2
<1>6. /\ held \o chunk \in Seq(P) /\ Len(held \o chunk) = Len(held) + Len(chunk)
      /\ \A i \in 1..Len(held) : (held \o chunk)[i] = held[i]
      /\ \A i \in 1..Len(chunk) : (held \o chunk)[Len(held) + i] = chunk[i]
  <2>1. held \in Seq(P) /\ chunk \in Seq(P)
    BY <1>1, <1>3
  <2> QED BY <2>1, Pieces
<1>7. Data(n) = held \o chunk
  BY DEF Data, chunk
<1>8. \A i \in 1..n : Data(n)[Len(held) + i] = Base + i
  BY <1>3, <1>4, <1>6, <1>7
<1> QED BY <1>2, <1>3, <1>4, <1>5, <1>6, <1>7, <1>8 DEF chunk, P

\* The decoder refuses nothing before the first bad byte, and knows when a character is
\* half.
LEMMA CleanDecodes ==
  ASSUME IInv, NEW n \in 0..ChunkSize, n # 0, TakeChunk(n), Clean(said, Base + n)
  PROVE  ~Refused(n)
<1> DEFINE d == Data(n)
           l == Len(held)
           b == Base
<1>1. /\ n \in Nat \ {0} /\ l \in {0, 1} /\ b \in Nat /\ b + n <= Len(said)
      /\ Len(said) \in Nat /\ Paired(said)
  <2>1. n \in Nat /\ n <= Len(stream)
    BY ChunkIs
  <2>2. l \in {0, 1} /\ b \in Nat /\ Paired(said) /\ Len(said) \in Nat /\ Len(stream) \in Nat
        /\ b + Len(stream) = Len(said)
    BY Places
  <2> QED BY <2>1, <2>2
<1>2. /\ d \in Seq(DOMAIN said) /\ Len(d) = l + n
      /\ \A i \in 1..l : d[i] = held[i]
      /\ \A i \in 1..n : d[l + i] = b + i
  BY ChunkIs
<1>3. held = IF b > 0 /\ said[b] = "lead" THEN <<b>> ELSE <<>>
  <2>1. Clean(said, b)
    BY <1>1 DEF Clean
  <2> QED BY <2>1 DEF IInv, DataInv
<1>4. /\ l = 1 => held[1] = b /\ b > 0 /\ said[b] = "lead"
      /\ l = 0 => ~(b > 0 /\ said[b] = "lead")
  BY <1>3
<1>5. DOMAIN d = 1..l + n
  BY <1>2, LenProperties
<1> HIDE DEF d, l, b
\* The places of the data follow each other.
<1>6. ASSUME NEW i \in 1..l + n PROVE d[i] = b - l + i
  <2>1. CASE i <= l
    <3>1. l = 1 /\ i = 1
      BY <1>1, <2>1
    <3> QED BY <1>1, <1>2, <1>4, <3>1 DEF l
  <2>2. CASE ~(i <= l)
    <3> DEFINE j == i - l
    <3>1. j \in 1..n /\ l + j = i /\ b + j = b - l + i
      BY <1>1, <2>2
    <3> HIDE DEF j
    <3>2. d[l + j] = b + j
      BY <1>2, <3>1
    <3> QED BY <3>1, <3>2
  <2> QED BY <2>1, <2>2
<1>7. ASSUME NEW i \in 1..l + n
      PROVE  /\ said[d[i]] # "bad"
             /\ said[d[i]] = "cont" => i > 1 /\ said[d[i - 1]] = "lead"
             /\ i > 1 /\ said[d[i - 1]] = "lead" => said[d[i]] = "cont"
  <2> DEFINE q == b - l + i
  <2>1. d[i] = q /\ (i > 1 => d[i - 1] = q - 1)
    <3>1. i > 1 => i - 1 \in 1..l + n /\ b - l + (i - 1) = q - 1
      BY <1>1
    <3> QED BY <1>6, <3>1
  <2>2. q \in Nat /\ q >= 1 /\ q <= b + n /\ q \in 1..Len(said)
        /\ (i = 1 => q - 1 = b - l)
    BY <1>1, <1>4
  <2> HIDE DEF q
  <2>3. said[q] # "bad" /\ Clean(said, q)
    BY <1>1, <2>2 DEF Clean, b
  <2>4. said[q] = "cont" <=> q > 1 /\ said[q - 1] = "lead"
    BY <2>2, <2>3, <1>1 DEF Paired
  <2>5. CASE i > 1
    <3>1. q > 1
      BY <1>1, <1>4, <2>5 DEF q
    <3> QED BY <2>1, <2>3, <2>4, <2>5, <3>1
  <2>6. CASE i = 1
    <3>1. said[q] # "cont"
      <4>1. CASE l = 1
        <5>1. q = b
          BY <1>1, <2>2, <2>6, <4>1
        <5> QED BY <1>4, <4>1, <5>1
      <4>2. CASE l = 0
        <5>1. q - 1 = b /\ (q > 1 => b > 0)
          BY <1>1, <2>2, <2>6, <4>2
        <5> QED BY <1>4, <2>4, <4>2, <5>1
      <4> QED BY <1>1, <4>1, <4>2
    <3> QED BY <2>1, <2>3, <2>6, <3>1
  <2>7. i > 1 \/ i = 1
    BY <1>1
  <2> QED BY <2>5, <2>6, <2>7
<1>8. Decodes(d, n = 0)
  BY <1>5, <1>7 DEF Decodes
<1> QED BY <1>8 DEF Refused, d

\* The data without the half character at its end, and that half.
LEMMA Halves ==
  ASSUME NEW d, d \in Seq(DOMAIN said), HalfAtEnd(d)
  PROVE  /\ Chars(d) \in Seq(DOMAIN said) /\ Last(d) \in DOMAIN said
         /\ d = Chars(d) \o <<Last(d)>> /\ Len(d) \in Nat \ {0} /\ Last(d) = d[Len(d)]
<1>1. d \in Seq(DOMAIN said) /\ Len(d) \in Nat \ {0}
  BY EmptySeq, LenProperties DEF HalfAtEnd
<1>2. PICK n \in Nat : Len(d) = n + 1 /\ n = Len(d) - 1
  <2>1. Len(d) - 1 \in Nat /\ Len(d) = (Len(d) - 1) + 1
    BY <1>1
  <2> QED BY <2>1
<1>3. Chars(d) = SubSeq(d, 1, n) /\ Last(d) = d[Len(d)]
  BY <1>2 DEF Chars, Front, Last
<1>4. /\ SubSeq(d, 1, n) \in Seq(DOMAIN said) /\ d[Len(d)] \in DOMAIN said
      /\ SubSeq(d, 1, n) \o <<d[Len(d)]>> = d
  <2>1. Len(d) = n + 1
    BY <1>2
  <2> QED BY <1>1, <2>1, EndSplits
<1> QED BY <1>1, <1>3, <1>4

\* What a chunk that is not refused leaves in the decoder.
LEMMA Decoded ==
  ASSUME IInv, NEW n \in 0..ChunkSize, TakeChunk(n), ~Refused(n)
  PROVE  /\ Chars(Data(n)) \in Seq(DOMAIN said) /\ held' \in Seq(DOMAIN said)
         /\ Chars(Data(n)) \o held' = Data(n)
         /\ Grown(n) = pending \o Chars(Data(n)) /\ Grown(n) \in Seq(DOMAIN said)
         /\ HalfAtEnd(Data(n)) => held' = <<Last(Data(n))>>
         /\ ~HalfAtEnd(Data(n)) => held' = <<>>
         /\ Len(held') <= 1
         /\ n = 0 => held' = <<>>
<1> DEFINE d == Data(n)
<1>1. d \in Seq(DOMAIN said) /\ pending \in Seq(DOMAIN said)
  BY ChunkIs, Places
<1>2. /\ HalfAtEnd(d) => held' = <<Last(d)>>
      /\ ~HalfAtEnd(d) => held' = <<>>
      /\ Grown(n) = pending \o Chars(d)
  BY DEF TakeChunk, Grown
<1>3. n = 0 => ~HalfAtEnd(d)
  BY DEF Refused, Decodes
<1> HIDE DEF d
<1>4. Chars(d) \in Seq(DOMAIN said) /\ held' \in Seq(DOMAIN said) /\ Chars(d) \o held' = d
      /\ Len(held') <= 1
  <2>1. CASE HalfAtEnd(d)
    <3>1. Chars(d) \in Seq(DOMAIN said) /\ Last(d) \in DOMAIN said
          /\ d = Chars(d) \o <<Last(d)>>
      BY <1>1, <2>1, Halves
    <3>2. <<Last(d)>> \in Seq(DOMAIN said) /\ Len(<<Last(d)>>) = 1
      BY <3>1
    <3>3. held' \in Seq(DOMAIN said) /\ Len(held') = 1 /\ Chars(d) \o held' = d
      BY <1>2, <2>1, <3>1, <3>2
    <3> QED BY <3>1, <3>3
  <2>2. CASE ~HalfAtEnd(d)
    <3>1. Chars(d) = d /\ held' = <<>>
      BY <1>2, <2>2 DEF Chars
    <3>2. d \o <<>> = d
      BY <1>1, ConcatEmptySeq
    <3>3. <<>> \in Seq(DOMAIN said) /\ Len(<<>>) = 0
      BY EmptySeq
    <3> QED BY <1>1, <3>1, <3>2, <3>3
  <2> QED BY <2>1, <2>2
<1>5. Grown(n) \in Seq(DOMAIN said)
  BY <1>1, <1>2, <1>4, ConcatProperties
<1> QED BY <1>2, <1>3, <1>4, <1>5 DEF d

\* The types that a chunk leaves behind.
LEMMA ChunkTypes ==
  ASSUME IInv, NEW n \in 0..ChunkSize, TakeChunk(n), UNCHANGED said
  PROVE  /\ Grown(n) \in Seq(DOMAIN said) /\ stream' \in Seq(DOMAIN said)
         /\ held' \in Seq(DOMAIN said) /\ Len(stream') <= OutCap /\ Len(held') <= 1
         /\ atEof' = (n = 0) /\ atEof' \in BOOLEAN
         /\ n = 0 => alive = FALSE /\ stream = <<>> /\ stream' = <<>>
<1>1. n \in Nat /\ atEof' = (n = 0) /\ (n = 0 => alive = FALSE /\ stream = <<>>)
      /\ stream' \in Seq(DOMAIN said) /\ Len(stream') = Len(stream) - n
  BY ChunkIs
<1>2. Len(stream) \in Nat /\ pending \in Seq(DOMAIN said) /\ held \in Seq(DOMAIN said)
  BY Places
<1>3. Len(stream) <= OutCap /\ Len(held) <= 1 /\ OutCap \in Nat
  BY BoundsAssumption DEF IInv, TypeOK
<1>4. Len(stream') <= OutCap
  BY <1>1, <1>2, <1>3
<1>5. n = 0 => stream' = <<>>
  <2>1. n = 0 => Len(stream') = 0
    <3>1. stream = <<>> => Len(stream) = 0
      BY <1>2, EmptySeq
    <3> QED BY <1>1, <3>1
  <2> QED BY <1>1, <2>1, EmptySeq
<1>6. CASE Refused(n)
  <2>1. Grown(n) = pending /\ held' = held
    BY <1>6 DEF Grown, TakeChunk
  <2> QED BY <1>1, <1>2, <1>3, <1>4, <1>5, <2>1
<1>7. CASE ~Refused(n)
  <2>1. Grown(n) \in Seq(DOMAIN said) /\ held' \in Seq(DOMAIN said) /\ Len(held') <= 1
    BY <1>7, Decoded
  <2> QED BY <1>1, <1>4, <1>5, <2>1
<1> QED BY <1>6, <1>7

\* A chunk that is decoded moves from the stream to the pending text and the decoder.
LEMMA ChunkKept ==
  ASSUME IInv, atEof = FALSE, NEW n \in 0..ChunkSize, TakeChunk(n), ~Refused(n)
  PROVE  /\ pending \o Unread = Grown(n) \o Unread' /\ Unread' \in Seq(DOMAIN said)
         /\ n = 0 => Unread' = <<>>
<1> DEFINE P == DOMAIN said
           chunk == SubSeq(stream, 1, n)
           chars == Chars(Data(n))
<1>1. /\ chunk \in Seq(P) /\ stream' \in Seq(P) /\ stream = chunk \o stream'
      /\ Data(n) = held \o chunk /\ atEof' = (n = 0)
      /\ n = 0 => stream' = <<>>
  <2>1. n = 0 => stream' = <<>>
    <3>1. /\ n \in Nat /\ (n = 0 => stream = <<>>)
          /\ stream' \in Seq(P) /\ Len(stream') = Len(stream) - n
      BY ChunkIs
    <3>2. Len(<<>>) = 0
      BY EmptySeq
    <3>3. n = 0 => Len(stream') = 0
      BY <3>1, <3>2
    <3> QED BY <3>1, <3>3, EmptySeq
  <2> QED BY <2>1, ChunkIs
<1>2. pending \in Seq(P) /\ held \in Seq(P)
  BY Places
<1>3. /\ chars \in Seq(P) /\ held' \in Seq(P) /\ chars \o held' = Data(n)
      /\ Grown(n) = pending \o chars /\ (n = 0 => held' = <<>>)
  BY Decoded
<1> HIDE DEF chunk, chars, P
<1>4. Unread' = held' \o stream' /\ Unread = held \o stream
  <2>1. Unread' = (IF atEof' THEN <<>> ELSE held') \o stream'
    BY DEF Unread
  <2>2. (IF atEof' THEN <<>> ELSE held') = held'
    BY <1>1, <1>3
  <2>3. Unread = held \o stream
    BY DEF Unread
  <2> QED BY <2>1, <2>2, <2>3
<1>5. held \o stream = (held \o chunk) \o stream'
  <2>1. (held \o chunk) \o stream' = held \o (chunk \o stream')
    <3>1. held \in Seq(P) /\ chunk \in Seq(P) /\ stream' \in Seq(P)
      BY <1>1, <1>2
    <3> QED BY <3>1, ConcatAssociative
  <2> QED BY <1>1, <2>1
<1>6. (chars \o held') \o stream' = chars \o (held' \o stream')
  <2>1. chars \in Seq(P) /\ held' \in Seq(P) /\ stream' \in Seq(P)
    BY <1>1, <1>3
  <2> QED BY <2>1, ConcatAssociative
<1>7. Unread = chars \o Unread'
  BY <1>1, <1>3, <1>4, <1>5, <1>6
<1>8. Unread' \in Seq(P)
  BY <1>1, <1>3, <1>4, ConcatProperties
<1>9. (pending \o chars) \o Unread' = pending \o (chars \o Unread')
  <2>1. pending \in Seq(P) /\ chars \in Seq(P) /\ Unread' \in Seq(P)
    BY <1>2, <1>3, <1>8
  <2> QED BY <2>1, ConcatAssociative
<1>10. n = 0 => Unread' = <<>>
  BY <1>1, <1>3, <1>4, ConcatEmptySeq, EmptySeq
<1> QED BY <1>3, <1>7, <1>8, <1>9, <1>10 DEF P

\* The last of the data is the last of the chunk.
LEMMA DataEnds ==
  ASSUME IInv, NEW n \in 0..ChunkSize, TakeChunk(n)
  PROVE  /\ n # 0 => Data(n) # <<>> /\ Last(Data(n)) = Base + n
         /\ n = 0 => Data(n) = held
<1> DEFINE d == Data(n)
           l == Len(held)
<1>1. /\ n \in Nat /\ l \in Nat /\ d \in Seq(DOMAIN said) /\ Len(d) = l + n
      /\ \A i \in 1..n : d[l + i] = Base + i
  <2>1. l \in Nat
    BY Places
  <2> QED BY <2>1, ChunkIs
<1>2. n # 0 => d # <<>> /\ Last(d) = Base + n
  <2>1. n # 0 => Len(d) # 0 /\ n \in 1..n
    BY <1>1
  <2>2. n # 0 => d[Len(d)] = Base + n
    BY <1>1, <2>1
  <2>3. d = <<>> => Len(d) = 0
    BY EmptySeq
  <2> QED BY <2>1, <2>2, <2>3 DEF Last
<1>3. n = 0 => d = held
  <2>1. held \in Seq(DOMAIN said) /\ SubSeq(stream, 1, n) \in Seq(DOMAIN said)
        /\ Len(SubSeq(stream, 1, n)) = n
    BY Places, ChunkIs
  <2>2. n = 0 => SubSeq(stream, 1, n) = <<>>
    BY <2>1, EmptySeq
  <2>3. held \o <<>> = held
    BY <2>1, ConcatEmptySeq
  <2> QED BY <2>2, <2>3 DEF Data
<1> QED BY <1>2, <1>3

\* The stream and the decoder stay in step with what the process has written.
LEMMA ChunkInStep ==
  ASSUME IInv, NEW n \in 0..ChunkSize, TakeChunk(n), UNCHANGED <<said, owed, alive>>
  PROVE  DataInv'
<1> DEFINE b == Base
           d == Data(n)
<1>1. /\ n \in Nat /\ n <= Len(stream) /\ atEof' = (n = 0)
      /\ n = 0 => alive = FALSE /\ stream = <<>>
      /\ stream' \in Seq(DOMAIN said) /\ Len(stream') = Len(stream) - n
      /\ \A i \in 1..Len(stream') : stream'[i] = b + n + i
  BY ChunkIs
<1>2. /\ b \in Nat /\ Len(stream) \in Nat /\ Len(said) \in Nat /\ b + Len(stream) = Len(said)
      /\ held \in Seq(DOMAIN said) /\ Len(held) \in {0, 1}
      /\ held = <<>> <=> Len(held) = 0
  BY Places
<1>3. /\ \A i \in 1..Len(held) : held[i] <= b
      /\ Clean(said, b) => held = IF b > 0 /\ said[b] = "lead" THEN <<b>> ELSE <<>>
      /\ Paired(said \o owed) /\ (alive = TRUE => IsText(said \o owed))
  BY DEF IInv, DataInv
<1>4. Base' = b + n
  <2>1. Base' = Len(said) - Len(stream')
    BY DEF Base
  <2> DEFINE x == Len(stream)
             y == Len(said)
  <2>2. b \in Nat /\ x \in Nat /\ y \in Nat /\ b + x = y /\ n \in Nat /\ Base' = y - (x - n)
    BY <1>1, <1>2, <2>1
  <2> HIDE DEF b, x, y
  <2> QED BY <2>2
<1>5. n = 0 => stream' = <<>>
  BY ChunkTypes
<1>6. /\ n # 0 => d # <<>> /\ Last(d) = b + n
      /\ n = 0 => d = held
  BY DataEnds
<1>7. /\ Refused(n) => held' = held
      /\ ~Refused(n) /\ HalfAtEnd(d) => held' = <<Last(d)>>
      /\ ~Refused(n) /\ ~HalfAtEnd(d) => held' = <<>>
      /\ n = 0 /\ ~Refused(n) => ~HalfAtEnd(d) /\ held' = <<>>
  BY DEF TakeChunk, Refused, Decodes
<1>8. HalfAtEnd(d) <=> d # <<>> /\ said[Last(d)] = "lead"
  BY DEF HalfAtEnd
<1>9. n # 0 /\ Clean(said, b + n) => ~Refused(n)
  BY CleanDecodes
<1> HIDE DEF b, d
<1>10. \A i \in 1..Len(held') : held'[i] <= b + n
  <2>1. CASE held' = held
    <3>1. ASSUME NEW i \in 1..Len(held) PROVE held[i] <= b + n
      <4>1. held[i] \in DOMAIN said
        BY <1>2, ElementOfSeq
      <4>2. held[i] \in Nat /\ held[i] <= b
        BY <1>2, <1>3, <4>1, LenProperties
      <4> QED BY <1>1, <1>2, <4>2
    <3> QED BY <2>1, <3>1
  <2>2. CASE held' = <<>>
    <3>1. Len(held') = 0
      BY <2>2, EmptySeq
    <3> QED BY <3>1
  <2>3. CASE n # 0 /\ held' = <<Last(d)>>
    <3>1. held' = <<b + n>>
      BY <1>6, <2>3
    <3> DEFINE e == b + n
    <3>2. e \in Nat /\ held' = <<e>>
      BY <1>1, <1>2, <3>1
    <3> HIDE DEF e
    <3>3. Len(held') = 1 /\ held'[1] = e /\ e <= e
      BY <3>2
    <3> QED BY <3>3 DEF e
  <2> QED BY <1>7, <2>1, <2>2, <2>3
<1>11. ASSUME Clean(said, b + n)
       PROVE  held' = IF b + n > 0 /\ said[b + n] = "lead" THEN <<b + n>> ELSE <<>>
  <2>1. CASE n = 0
    <3>1. b + n = b
      BY <1>2, <2>1
    <3>2. held = IF b > 0 /\ said[b] = "lead" THEN <<b>> ELSE <<>>
      BY <1>3, <1>11, <3>1
    <3>3. CASE Refused(n)
      BY <1>7, <3>1, <3>2, <3>3
    <3>4. CASE ~Refused(n)
      <4>1. held' = <<>> /\ ~HalfAtEnd(held)
        BY <1>6, <1>7, <2>1, <3>4
      <4>2. ~(b > 0 /\ said[b] = "lead")
        <5>1. SUFFICES ASSUME b > 0, said[b] = "lead" PROVE FALSE
          OBVIOUS
        <5>2. held = <<b>>
          BY <3>2, <5>1
        <5>3. held # <<>> /\ Last(held) = b
          BY <5>2 DEF Last
        <5>4. HalfAtEnd(held)
          BY <5>1, <5>3 DEF HalfAtEnd
        <5> QED BY <4>1, <5>4
      <4> QED BY <3>1, <4>1, <4>2
    <3> QED BY <3>3, <3>4
  <2>2. CASE n # 0
    <3>1. ~Refused(n) /\ d # <<>> /\ Last(d) = b + n /\ b + n > 0
      BY <1>1, <1>2, <1>6, <1>9, <1>11, <2>2
    <3> QED BY <1>7, <1>8, <3>1
  <2> QED BY <2>1, <2>2
<1>12. Len(stream') <= Len(said)
  BY <1>1, <1>2
<1>13. atEof' = TRUE => alive' = FALSE /\ stream' = <<>>
  BY <1>1, <1>5
<1>14. /\ said' = said /\ owed' = owed /\ alive' = alive
       /\ Paired(said' \o owed') /\ (alive' = TRUE => IsText(said' \o owed'))
  BY <1>3
<1>15. Clean(said', Base')
         => held' = IF Base' > 0 /\ said'[Base'] = "lead" THEN <<Base'>> ELSE <<>>
  BY <1>4, <1>11, <1>14
<1>16. /\ Len(stream') <= Len(said')
       /\ \A i \in 1..Len(stream') : stream'[i] = Base' + i
       /\ \A i \in 1..Len(held') : held'[i] <= Base'
  BY <1>1, <1>4, <1>10, <1>12, <1>14
<1> QED BY <1>13, <1>14, <1>15, <1>16 DEF DataInv

\* Reading a chunk either leaves the abstract text alone or loses what cannot be decoded.
LEMMA TellsChunk ==
  ASSUME IInv, atEof = FALSE, found = <<>>, NEW n \in 0..ChunkSize, TakeChunk(n),
         found' \o pending' = Grown(n), UNCHANGED <<said, alive, reply>>
  PROVE  Stream!ChunkLost \/ UNCHANGED Stream!vars
<1> DEFINE P == DOMAIN said
           half == IF n = 0 THEN <<>> ELSE held'
           chunk == SubSeq(stream, 1, n)
<1>1. /\ n \in Nat /\ atEof' = (n = 0) /\ stream = chunk \o stream'
      /\ n = 0 => alive = FALSE /\ stream = <<>>
      /\ chunk \in Seq(P) /\ Len(chunk) = n
      /\ \A i \in 1..n : chunk[i] = Base + i
  BY ChunkIs
<1>2. /\ Grown(n) \in Seq(P) /\ stream' \in Seq(P) /\ held' \in Seq(P)
      /\ n = 0 => stream' = <<>>
  BY ChunkTypes
<1>3. pending \in Seq(P) /\ held \in Seq(P) /\ stream \in Seq(P) /\ half \in Seq(P) /\ TypeOK
  BY <1>2, Places, EmptySeq DEF IInv
<1>4. Unread' = half \o stream'
  <2>1. Unread' = (IF atEof' THEN <<>> ELSE held') \o stream'
    BY DEF Unread
  <2> QED BY <1>1, <2>1
<1>5. Rest' = (Grown(n) \o half) \o stream'
  <2>1. Rest' = ((found' \o pending') \o (IF atEof' THEN <<>> ELSE held')) \o stream'
    BY DEF Rest
  <2> QED BY <1>1, <2>1
<1>6. Rest = (pending \o held) \o stream /\ Rest = pending \o Unread
  <2>1. <<>> \o pending = pending
    BY <1>3, ConcatEmptySeq
  <2>2. Rest = ((<<>> \o pending) \o held) \o stream
    BY DEF Rest
  <2>3. Rest = pending \o Unread
    BY <1>3, RestIs
  <2> QED BY <2>1, <2>2, <2>3
<1> HIDE DEF P, half
<1>7. CASE ~Refused(n)
  <2>1. pending \o Unread = Grown(n) \o Unread'
    BY <1>7, ChunkKept
  <2>2. (Grown(n) \o half) \o stream' = Grown(n) \o (half \o stream')
    <3>1. Grown(n) \in Seq(P) /\ half \in Seq(P) /\ stream' \in Seq(P)
      BY <1>2, <1>3
    <3> HIDE DEF chunk
    <3> QED BY <3>1, ConcatAssociative
  <2>3. Rest' = Rest
    BY <1>4, <1>5, <1>6, <2>1, <2>2
  <2> QED BY <2>3, TellsStutter
<1>8. CASE Refused(n) /\ n # 0
  <2> DEFINE a == pending \o held
  <2>1. Grown(n) = pending /\ half = held
    BY <1>8 DEF Grown, TakeChunk, half
  <2>2. a \in Seq(P)
    BY <1>3, ConcatProperties
  <2>3. (a \o chunk) \o stream' = a \o (chunk \o stream')
    <3>1. a \in Seq(P) /\ chunk \in Seq(P) /\ stream' \in Seq(P)
      BY <1>1, <1>2, <2>2
    <3> HIDE DEF a, chunk
    <3> QED BY <3>1, ConcatAssociative
  <2>4. Rest = (a \o chunk) \o stream' /\ Rest' = a \o stream'
    BY <1>1, <1>5, <1>6, <2>1, <2>3
  <2>5. chunk # <<>> /\ chunk[Len(chunk)] = Base + n
    <3>1. n \in 1..n
      BY <1>1, <1>8
    <3>2. Len(<<>>) = 0
      BY EmptySeq
    <3> HIDE DEF chunk
    <3> QED BY <1>1, <1>8, <3>1, <3>2
  <2>6. ~Clean(said, Base + n)
    BY <1>8, CleanDecodes
  <2>7. /\ TypeOK /\ a \in Seq(DOMAIN said) /\ chunk \in Seq(DOMAIN said) /\ chunk # <<>>
        /\ stream' \in Seq(DOMAIN said)
        /\ Rest = (a \o chunk) \o stream' /\ Rest' = a \o stream'
        /\ ~Clean(said, chunk[Len(chunk)])
    BY <1>1, <1>2, <1>3, <2>2, <2>4, <2>5, <2>6 DEF P
  <2> HIDE DEF a, chunk
  <2> QED BY <2>7, LosesChunk
<1>9. CASE Refused(n) /\ n = 0
  <2>1. Grown(n) = pending /\ half = <<>> /\ stream' = <<>> /\ stream = <<>> /\ alive = FALSE
    BY <1>1, <1>2, <1>9 DEF Grown, half
  <2>2. held # <<>>
    <3>1. SUFFICES ASSUME held = <<>> PROVE FALSE
      OBVIOUS
    <3>2. Data(n) = <<>>
      BY <1>9, <3>1, DataEnds
    <3>3. DOMAIN <<>> = {}
      OBVIOUS
    <3>4. Decodes(<<>>, n = 0)
      BY <3>3 DEF Decodes, HalfAtEnd
    <3> QED BY <1>9, <3>2, <3>4 DEF Refused
  <2>3. /\ pending \o <<>> = pending
        /\ (pending \o held) \o <<>> = pending \o held
    <3>1. pending \o held \in Seq(P)
      BY <1>3, ConcatProperties
    <3> QED BY <1>3, <3>1, ConcatEmptySeq
  <2>4. /\ TypeOK /\ pending \in Seq(DOMAIN said) /\ held \in Seq(DOMAIN said)
        /\ stream' \in Seq(DOMAIN said)
        /\ Rest = (pending \o held) \o stream' /\ Rest' = pending \o stream'
    BY <1>2, <1>3, <1>5, <1>6, <2>1, <2>3 DEF P
  <2> QED BY <2>1, <2>2, <2>4, LosesChunk
<1> QED BY <1>7, <1>8, <1>9

----------------------------------------------------------------------------
(* The invariant.                                                          *)

LEMMA InitInv == Init => IInv
<1> SUFFICES ASSUME Init PROVE IInv
  OBVIOUS
<1>1. <<>> \in Seq(Byte) /\ <<>> \in Seq(DOMAIN <<>>) /\ Len(<<>>) = 0 /\ <<>> \o <<>> = <<>>
  OBVIOUS
<1>2. TypeOK
  <2>1. 0 \in 0..MaxSends /\ 0 \in 0..MaxCancels /\ 0 <= OutCap /\ 0 <= 1
    BY BoundsAssumption
  <2>2. \A s \in {stream, pending, held, found} : s \in Seq(DOMAIN said)
    BY <1>1 DEF Init
  <2>3. call \in Call /\ owed \in Seq(Byte) /\ said \in Seq(Byte)
        /\ Len(stream) <= OutCap /\ Len(held) <= 1
    BY <1>1, <2>1 DEF Init, Call, Kinds
  <2> QED BY <2>1, <2>2, <2>3 DEF Init, TypeOK
<1>3. CallInv /\ FoundInv
  BY DEF Init, CallInv, FoundInv
<1>4. Base = 0
  BY <1>1 DEF Init, Base
<1>5. Paired(<<>>) /\ IsText(<<>>)
  BY <1>1 DEF Paired, IsText
<1>6. DataInv
  BY <1>1, <1>4, <1>5 DEF Init, DataInv
<1> QED BY <1>2, <1>3, <1>6 DEF IInv

\* What is known before a step.
LEMMA Known ==
  ASSUME IInv
  PROVE  /\ inq \in Nat /\ sends \in Nat /\ MaxSends \in Nat /\ sends <= MaxSends
         /\ inq <= sends /\ (pc = "echo" => inq + 1 <= sends)
         /\ cancels \in 0..MaxCancels /\ MaxCancels \in Nat
         /\ (job # "match" => found = <<>>) /\ (pc \in {"idle", "echo"} => job = "none")
         /\ job \in {"none", "send", "draining", "joining", "expect", "read_all",
                     "ok", "match", "eof", "decode", "reset", "cancelled"}
         /\ pc \in {"idle", "echo", "sending", "reading", "timed_out", "cancelled"}
         /\ reader # "none" => job \in {"draining", "joining"}
<1>1. /\ inq \in 0..MaxSends /\ sends \in 0..MaxSends /\ cancels \in 0..MaxCancels
      /\ MaxSends \in Nat /\ MaxCancels \in Nat
  BY BoundsAssumption DEF IInv, TypeOK
<1>3. inq <= sends /\ (pc = "echo" => inq + 1 <= sends)
  BY DEF IInv, CallInv
<1>4. /\ (job # "match" => found = <<>>) /\ (pc \in {"idle", "echo"} => job = "none")
      /\ job \in {"none", "send", "draining", "joining", "expect", "read_all",
                  "ok", "match", "eof", "decode", "reset", "cancelled"}
      /\ pc \in {"idle", "echo", "sending", "reading", "timed_out", "cancelled"}
      /\ reader # "none" => job \in {"draining", "joining"}
  BY DEF IInv, TypeOK, CallInv, FoundInv, JobOver
<1> QED BY <1>1, <1>3, <1>4

LEMMA DataStays ==
  ASSUME IInv, UNCHANGED <<said, stream, held, atEof, alive, owed>>
  PROVE  DataInv'
<1>1. DataInv
  BY DEF IInv
<1> QED BY <1>1 DEF DataInv, Base, Clean, Paired, IsText

\* Calls that only move the caller, the job, the input and the counters.
LEMMA CallsInv ==
  ASSUME IInv, StartSend \/ EchoOff \/ EchoStays \/ ReadPending \/ Close
  PROVE  IInv'
<1> USE DEF bufVars, procVars, callVars
<1>1. /\ pc \in {"idle", "echo"} /\ job = "none" /\ found = <<>> /\ reader = "none"
      /\ inq \in Nat /\ sends \in Nat /\ MaxSends \in Nat /\ inq <= sends /\ sends <= MaxSends
      /\ (pc = "echo" => inq + 1 <= sends)
  BY Known DEF StartSend, EchoOff, EchoStays, ReadPending, Close
<1>2. UNCHANGED <<said, stream, held, atEof, alive, owed, found, reader, cancels>>
  BY DEF StartSend, EchoOff, EchoStays, ReadPending, Close
<1>3. DataInv'
  BY <1>2, DataStays
<1>4. /\ inq' \in Nat /\ sends' \in Nat /\ sends' <= MaxSends /\ inq' <= sends'
      /\ (pc' = "echo" => inq' + 1 <= sends')
      /\ pc' \in {"idle", "echo", "sending"}
      /\ pc' = "sending" => job' = "send"
      /\ pc' # "sending" => job' = "none"
      /\ call' \in Call
  <2>1. CASE StartSend
    <3>1. sends' = sends + 1 /\ sends < MaxSends /\ (inq' = inq \/ inq' = inq + 1) /\ pc = "idle"
          /\ (pc' = "echo" => inq' = inq)
      BY <2>1 DEF StartSend, Write, Raise, Answer
    <3>2. /\ pc' \in {"idle", "echo", "sending"}
          /\ pc' = "sending" => job' = "send"
          /\ pc' # "sending" => job' = "none"
      BY <1>1, <2>1 DEF StartSend, Write, Raise, Answer
    <3>3. call' \in Call
      BY <2>1 DEF StartSend, Call, Kinds, Sending
    <3> QED BY <1>1, <3>1, <3>2, <3>3
  <2>2. CASE EchoOff
    <3>1. call \in Call
      BY DEF IInv, TypeOK
    <3> QED BY <1>1, <2>2, <3>1 DEF EchoOff, Write
  <2>3. CASE EchoStays
    <3>1. call \in Call
      BY DEF IInv, TypeOK
    <3> QED BY <1>1, <2>3, <3>1 DEF EchoStays, Raise, Answer
  <2>4. CASE ReadPending
    <3>1. call \in Call
      BY DEF IInv, TypeOK
    <3> QED BY <1>1, <2>4, <3>1 DEF ReadPending, Answer
  <2>5. CASE Close
    <3>1. call \in Call
      BY DEF IInv, TypeOK
    <3> QED BY <1>1, <2>5, <3>1 DEF Close
  <2> QED BY <2>1, <2>2, <2>3, <2>4, <2>5
<1>5. stdin' \in {"open", "closed", "broken"} /\ pending' \in Seq(DOMAIN said)
  <2>1. stdin \in {"open", "closed", "broken"} /\ pending \in Seq(DOMAIN said)
    BY DEF IInv, TypeOK
  <2>2. pending' = pending \/ pending' = <<>>
    BY DEF StartSend, EchoOff, EchoStays, ReadPending, Close
  <2>3. stdin' = stdin \/ stdin' = "closed"
    BY DEF StartSend, EchoOff, EchoStays, ReadPending, Close
  <2> QED BY <2>1, <2>2, <2>3, EmptySeq
<1>6. TypeOK'
  BY <1>1, <1>2, <1>4, <1>5 DEF IInv, TypeOK, JobOver
<1>7. CallInv'
  BY <1>4 DEF CallInv
<1>8. FoundInv'
  BY <1>1, <1>2, <1>4 DEF FoundInv
<1> QED BY <1>3, <1>6, <1>7, <1>8 DEF IInv

\* `expect` has its answer at once, or a job that reads.
LEMMA ExpectIs ==
  ASSUME IInv, NEW kind, found = <<>>, Expect(kind)
  PROVE  /\ pending' \in Seq(DOMAIN said) /\ found' = <<>>
         /\ \/ pc' = "idle" /\ job' = "none"
            \/ pc' = "reading" /\ job' = "expect" /\ atEof = FALSE
<1>1. pending \in Seq(DOMAIN said)
  BY Places
<1>2. atEof \in BOOLEAN
  BY DEF IInv, TypeOK
<1>3. CASE Hits(pending) # {}
  <2>1. pending' = After(pending) /\ found' = <<>> /\ pc' = "idle" /\ job' = "none"
    BY <1>3 DEF Expect, Back, Answer
  <2>2. After(pending) \in Seq(DOMAIN said)
    BY <1>1, <1>3, Parts
  <2> QED BY <2>1, <2>2
<1>4. CASE Hits(pending) = {} /\ atEof
  <2>1. (pending' = pending \/ pending' = <<>>) /\ found' = <<>> /\ pc' = "idle" /\ job' = "none"
    BY <1>4 DEF Expect, Back, Answer
  <2> QED BY <1>1, <2>1, EmptySeq
<1>5. CASE Hits(pending) = {} /\ ~atEof
  BY <1>1, <1>2, <1>5 DEF Expect
<1> QED BY <1>3, <1>4, <1>5

\* Calls that end, or begin to read.
LEMMA WaitsInv ==
  ASSUME IInv, StartExpect \/ StartReadAll \/ Sent \/ WaitEnds \/ Settled
  PROVE  IInv'
<1> USE DEF bufVars, procVars, callVars
<1>1. /\ inq \in Nat /\ sends \in Nat /\ MaxSends \in Nat /\ inq <= sends /\ sends <= MaxSends
      /\ reader # "none" => job \in {"draining", "joining"}
      /\ job # "match" => found = <<>>
      /\ pc \in {"idle", "echo"} => job = "none"
  BY Known
<1>2. job \in {"none", "ok", "match", "eof", "decode", "reset", "cancelled"}
  BY <1>1 DEF StartExpect, StartReadAll, Sent, WaitEnds, Settled, JobOver
<1>3. reader = "none"
  BY <1>1, <1>2
<1>4. /\ UNCHANGED <<said, stream, held, atEof, alive, owed, inq, stdin, sends, reader, cancels>>
      /\ call' \in Call
  <2>1. UNCHANGED <<said, stream, held, atEof, alive, owed, inq, stdin, sends, reader, cancels>>
    BY DEF StartExpect, StartReadAll, Sent, WaitEnds, Settled
  <2>2. call \in Call
    BY DEF IInv, TypeOK
  <2>3. call' = call \/ call' \in Call
    BY DEF StartExpect, StartReadAll, Sent, WaitEnds, Settled, Call, Kinds
  <2> QED BY <2>1, <2>2, <2>3
<1>5. atEof \in BOOLEAN /\ pending \in Seq(DOMAIN said) /\ <<>> \in Seq(DOMAIN said)
  BY EmptySeq DEF IInv, TypeOK
<1>6. /\ pending' \in Seq(DOMAIN said) /\ found' = <<>>
      /\ \/ pc' = "idle" /\ job' = "none"
         \/ pc' = "reading" /\ job' \in {"expect", "read_all"} /\ atEof = FALSE
  <2>1. CASE StartExpect
    <3>1. found = <<>> /\ Expect("expect")
      BY <1>1, <2>1 DEF StartExpect
    <3> QED BY <3>1, ExpectIs
  <2>2. CASE StartReadAll
    <3>1. found = <<>>
      BY <1>1, <2>2 DEF StartReadAll
    <3> QED BY <1>5, <2>2, <3>1 DEF StartReadAll, Back, Answer
  <2>3. CASE Sent
    <3>1. job # "match"
      BY <2>3 DEF Sent, IInv, CallInv
    <3>2. found = <<>>
      BY <1>1, <3>1
    <3>3. CASE Expect(call.kind)
      <4> DEFINE k == call.kind
      <4>1. Expect(k)
        BY <3>3
      <4> HIDE DEF k
      <4> QED BY <3>2, <4>1, ExpectIs
    <3>4. CASE ~Expect(call.kind)
      BY <1>5, <2>3, <3>4 DEF Sent, Back, Answer
    <3> QED BY <3>3, <3>4
  <2>4. CASE WaitEnds
    BY <1>5, <2>4 DEF WaitEnds, Back, Answer
  <2>5. CASE Settled
    BY <1>5, <2>5 DEF Settled, Back, Answer
  <2> QED BY <2>1, <2>2, <2>3, <2>4, <2>5
<1>7. TypeOK'
  BY <1>3, <1>4, <1>5, <1>6 DEF IInv, TypeOK, JobOver
<1>8. CallInv'
  BY <1>1, <1>4, <1>6 DEF CallInv
<1>9. FoundInv'
  BY <1>4, <1>6 DEF FoundInv
<1>10. DataInv'
  BY <1>4, DataStays
<1> QED BY <1>7, <1>8, <1>9, <1>10 DEF IInv

\* The caller is timed out, or cancelled.
LEMMA AsksInv ==
  ASSUME IInv, TimesOut \/ Cancel
  PROVE  IInv'
<1> USE DEF bufVars, procVars, callVars
<1>1. /\ UNCHANGED <<procVars, bufVars, call, sends, job, found, reader>>
      /\ pc # "idle" /\ pc' \in {"idle", "timed_out", "cancelled"}
      /\ pc' = "idle" => pc = "echo"
      /\ pc' = "timed_out" => pc = "timed_out" \/ ~JobOver
      /\ inq \in Nat /\ sends \in Nat /\ inq <= sends
      /\ pc \in {"idle", "echo"} => job = "none"
  BY Known DEF TimesOut, Cancel, Asked, Raise, Answer
<1>2. cancels' \in 0..MaxCancels
  <2>1. cancels \in 0..MaxCancels /\ MaxCancels \in Nat
    BY Known
  <2>2. cancels' = cancels \/ (cancels' = cancels + 1 /\ cancels < MaxCancels)
    BY DEF TimesOut, Cancel
  <2> QED BY <2>1, <2>2
<1>3. TypeOK'
  BY <1>1, <1>2 DEF IInv, TypeOK, JobOver
<1>4. CallInv'
  BY <1>1 DEF CallInv
<1>5. FoundInv'
  BY <1>1 DEF IInv, FoundInv, JobOver, FirstIn, HitIn, NoneIn
<1>6. DataInv'
  BY <1>1, DataStays
<1> QED BY <1>3, <1>4, <1>5, <1>6 DEF IInv

\* The drain and its reader, and a job that is cancelled.
LEMMA JobsInv ==
  ASSUME IInv, DrainAtOnce \/ DrainWaits \/ DrainEnds \/ ReaderCancelled \/ JobCancelled
  PROVE  IInv'
<1> USE DEF bufVars, procVars, callVars, jobRest
<1>1. UNCHANGED <<procVars, bufVars, callVars, found, cancels>>
  BY DEF DrainAtOnce, DrainWaits, DrainEnds, ReaderCancelled, JobCancelled
<1>2. /\ job # "match" => found = <<>>
      /\ reader # "none" => job \in {"draining", "joining"}
      /\ pc \in {"idle", "echo"} => job = "none"
  BY Known
<1>3. /\ job \in {"send", "draining", "joining", "expect", "read_all"}
      /\ job' \in {"draining", "joining", "ok", "reset", "cancelled"}
      /\ job \in {"send", "draining", "joining"} \/ Asked
      /\ reader' \in {"none", "running", "cancelling", "done", "failed"}
      /\ reader' # "none" => job' \in {"draining", "joining"}
  <2>1. reader \in {"none", "running", "cancelling", "done", "failed"}
    BY DEF IInv, TypeOK
  <2> QED BY <1>2, <2>1 DEF DrainAtOnce, DrainWaits, DrainEnds, ReaderCancelled, JobCancelled,
                            LeaveDrain
<1>4. pc \in {"sending", "timed_out", "cancelled"}
  <2>1. pc \in {"idle", "echo", "sending", "reading", "timed_out", "cancelled"}
    BY Known
  <2>2. pc = "reading" => job \in {"expect", "read_all", "match", "ok", "eof", "decode"}
    BY DEF IInv, CallInv
  <2> QED BY <1>2, <1>3, <2>1, <2>2 DEF Asked
<1>5. TypeOK'
  BY <1>1, <1>3, <1>4 DEF IInv, TypeOK, JobOver
<1>6. CallInv'
  BY <1>1, <1>3, <1>4 DEF IInv, CallInv
<1>7. FoundInv'
  BY <1>1, <1>2, <1>3, <1>4 DEF FoundInv
<1>8. DataInv'
  BY <1>1, DataStays
<1> QED BY <1>5, <1>6, <1>7, <1>8 DEF IInv

\* A search in what a chunk leaves.
LEMMA ChunkSearched ==
  ASSUME IInv, NEW n \in 0..ChunkSize, TakeChunk(n), UNCHANGED said
  PROVE  /\ Hits(Grown(n)) = {} => NoneIn(said, Grown(n))
         /\ Hits(Grown(n)) # {} =>
              /\ UpTo(Grown(n)) \in Seq(DOMAIN said) /\ After(Grown(n)) \in Seq(DOMAIN said)
              /\ UpTo(Grown(n)) \o After(Grown(n)) = Grown(n)
              /\ FirstIn(said, UpTo(Grown(n)), Len(UpTo(Grown(n))) - Len(Pattern))
<1> DEFINE p == Grown(n)
<1>1. p \in Seq(DOMAIN said)
  BY ChunkTypes
<1> HIDE DEF p
<1>2. Hits(p) = {} => NoneIn(said, p)
  BY <1>1, Searches
<1>3. Hits(p) # {} => /\ UpTo(p) \in Seq(DOMAIN said) /\ After(p) \in Seq(DOMAIN said)
                      /\ UpTo(p) \o After(p) = p
                      /\ FirstIn(said, UpTo(p), Len(UpTo(p)) - Len(Pattern))
  BY <1>1, Parts
<1> QED BY <1>2, <1>3 DEF p

\* What the jobs that read have in common.
LEMMA ReadsIs ==
  ASSUME IInv, ReaderReads \/ ExpectReads \/ AllReads
  PROVE  /\ UNCHANGED <<alive, stdin, inq, owed, said, pc, call, reply, sends, cancels>>
         /\ job \in {"draining", "joining", "expect", "read_all"} /\ found = <<>>
         /\ job \in {"expect", "read_all"} => pc \notin {"idle", "timed_out", "cancelled"}
         /\ \/ reader = "running" /\ reader' = "done"
               /\ UNCHANGED <<stream, pending, held, atEof, job, found>>
            \/ \E n \in 0..ChunkSize :
                 /\ TakeChunk(n) /\ atEof = FALSE /\ found' \o pending' = Grown(n)
                 /\ found' \in Seq(DOMAIN said) /\ pending' \in Seq(DOMAIN said)
                 /\ \/ found' = <<>> /\ job' # "match"
                    \/ /\ job' = "match" /\ job = "expect"
                       /\ FirstIn(said, found', Len(found') - Len(Pattern))
                 /\ job \in {"draining", "joining"} => job' = job
                 /\ job \notin {"draining", "joining"} => reader' = reader
                 /\ reader' # reader => reader = "running" /\ reader' \in {"done", "failed"}
                 /\ job' # job => \/ job = "expect" /\ job' \in {"match", "decode"}
                                  \/ job = "read_all" /\ job' = "decode"
                                  \/ job = "read_all" /\ job' = "ok" /\ n = 0
                                  \/ /\ job = "expect" /\ job' = "eof" /\ n = 0
                                     /\ NoneIn(said, pending')
                 /\ job' \in {"expect", "read_all"} => n # 0
<1> USE DEF bufVars, procVars, callVars
<1>1. /\ UNCHANGED <<alive, stdin, inq, owed, said, pc, call, reply, sends, cancels>>
      /\ job \in {"draining", "joining", "expect", "read_all"} /\ found = <<>>
      /\ job \in {"expect", "read_all"} => pc \notin {"idle", "timed_out", "cancelled"}
  <2>1. /\ job # "match" => found = <<>>
        /\ reader # "none" => job \in {"draining", "joining"}
        /\ pc \in {"idle", "echo"} => job = "none"
    BY Known
  <2>2. UNCHANGED <<alive, stdin, inq, owed, said, pc, call, reply, sends, cancels>>
    BY DEF ReaderReads, ExpectReads, AllReads
  <2>3. reader = "running" \/ (job \in {"expect", "read_all"} /\ ~Asked)
    BY DEF ReaderReads, ExpectReads, AllReads
  <2> QED BY <2>1, <2>2, <2>3 DEF Asked
<1>2. atEof \in BOOLEAN /\ (job \in {"expect", "read_all"} => atEof = FALSE)
      /\ (reader # "none" => job \in {"draining", "joining"})
      /\ <<>> \in Seq(DOMAIN said)
  BY EmptySeq DEF IInv, TypeOK, FoundInv
<1>3. ASSUME NEW n \in 0..ChunkSize, TakeChunk(n)
      PROVE  Grown(n) \in Seq(DOMAIN said) /\ <<>> \o Grown(n) = Grown(n)
  <2>1. Grown(n) \in Seq(DOMAIN said)
    BY <1>1, <1>3, ChunkTypes
  <2> QED BY <2>1, ConcatEmptySeq
<1>4. CASE ReaderReads
  <2>1. CASE atEof
    <3>1. /\ reader = "running" /\ reader' = "done"
          /\ UNCHANGED <<stream, pending, held, atEof, job, found>>
      BY <1>4, <2>1 DEF ReaderReads
    <3> QED BY <1>1, <3>1
  <2>2. CASE ~atEof
    <3>1. PICK n \in 0..ChunkSize :
            /\ TakeChunk(n) /\ pending' = Grown(n)
            /\ reader' \in {"failed", "done", "running"}
            /\ reader = "running" /\ UNCHANGED <<job, found>>
      BY <1>4, <2>2 DEF ReaderReads
    <3>2. Grown(n) \in Seq(DOMAIN said) /\ <<>> \o Grown(n) = Grown(n)
      BY <1>3, <3>1
    <3> QED BY <1>1, <1>2, <2>2, <3>1, <3>2
  <2> QED BY <2>1, <2>2
<1>5. CASE ExpectReads
  <2>1. PICK n \in 0..ChunkSize :
          /\ TakeChunk(n) /\ job = "expect" /\ UNCHANGED reader
          /\ LET text == Grown(n)
             IN  \/ /\ Hits(text) # {} /\ ~Refused(n)
                    /\ job' = "match" /\ found' = UpTo(text) /\ pending' = After(text)
                 \/ /\ Hits(text) = {} \/ Refused(n)
                    /\ pending' = text
                    /\ job' = CASE Refused(n) -> "decode"
                                [] ~Refused(n) /\ n = 0 -> "eof"
                                [] OTHER -> "expect"
                    /\ UNCHANGED found
    BY <1>5 DEF ExpectReads
  <2>2. CASE Hits(Grown(n)) # {} /\ ~Refused(n)
    <3>1. job' = "match" /\ found' = UpTo(Grown(n)) /\ pending' = After(Grown(n))
      BY <2>1, <2>2
    <3>2. /\ UpTo(Grown(n)) \in Seq(DOMAIN said) /\ After(Grown(n)) \in Seq(DOMAIN said)
          /\ UpTo(Grown(n)) \o After(Grown(n)) = Grown(n)
          /\ FirstIn(said, UpTo(Grown(n)), Len(UpTo(Grown(n))) - Len(Pattern))
      BY <1>1, <2>1, <2>2, ChunkSearched
    <3> QED BY <1>1, <1>2, <2>1, <3>1, <3>2
  <2>3. CASE ~(Hits(Grown(n)) # {} /\ ~Refused(n))
    <3>1. /\ pending' = Grown(n) /\ found' = <<>> /\ job' \in {"decode", "eof", "expect"}
          /\ job' = "eof" => ~Refused(n) /\ n = 0
          /\ job' = "expect" => n # 0
      BY <1>1, <2>1, <2>3
    <3>2. Grown(n) \in Seq(DOMAIN said) /\ <<>> \o Grown(n) = Grown(n)
      BY <1>3, <2>1
    <3>3. job' = "eof" => NoneIn(said, Grown(n))
      <4>1. Hits(Grown(n)) = {} => NoneIn(said, Grown(n))
        BY <1>1, <2>1, ChunkSearched
      <4> QED BY <2>3, <3>1, <4>1
    <3> QED BY <1>1, <1>2, <2>1, <3>1, <3>2, <3>3
  <2> QED BY <2>2, <2>3
<1>6. CASE AllReads
  <2>1. PICK n \in 0..ChunkSize :
          /\ TakeChunk(n) /\ job = "read_all" /\ UNCHANGED <<reader, found>>
          /\ pending' = Grown(n) /\ job' \in {"decode", "ok", "read_all"}
          /\ job' = "ok" => n = 0
          /\ job' = "read_all" => n # 0
    BY <1>6 DEF AllReads
  <2>2. Grown(n) \in Seq(DOMAIN said) /\ <<>> \o Grown(n) = Grown(n)
    BY <1>3, <2>1
  <2> QED BY <1>1, <1>2, <2>1, <2>2
<1> QED BY <1>1, <1>4, <1>5, <1>6

LEMMA ReadsInv ==
  ASSUME IInv, ReaderReads \/ ExpectReads \/ AllReads
  PROVE  IInv'
<1>1. /\ UNCHANGED <<alive, stdin, inq, owed, said, pc, call, reply, sends, cancels>>
      /\ job \in {"draining", "joining", "expect", "read_all"} /\ found = <<>>
      /\ job \in {"expect", "read_all"} => pc \notin {"idle", "timed_out", "cancelled"}
  BY ReadsIs
<1>2. CASE /\ reader = "running" /\ reader' = "done"
           /\ UNCHANGED <<stream, pending, held, atEof, job, found>>
  <2>1. job \in {"draining", "joining"}
    BY <1>2 DEF IInv, TypeOK
  <2>2. TypeOK'
    BY <1>1, <1>2, <2>1 DEF IInv, TypeOK, JobOver
  <2>3. CallInv' /\ FoundInv'
    BY <1>1, <1>2, <2>1 DEF IInv, CallInv, FoundInv
  <2>4. DataInv'
    BY <1>1, <1>2, DataStays
  <2> QED BY <2>2, <2>3, <2>4 DEF IInv
<1>3. ASSUME NEW n \in 0..ChunkSize,
             /\ TakeChunk(n) /\ atEof = FALSE
             /\ found' \in Seq(DOMAIN said) /\ pending' \in Seq(DOMAIN said)
             /\ \/ found' = <<>> /\ job' # "match"
                \/ /\ job' = "match" /\ job = "expect"
                   /\ FirstIn(said, found', Len(found') - Len(Pattern))
             /\ job \in {"draining", "joining"} => job' = job
             /\ job \notin {"draining", "joining"} => reader' = reader
             /\ reader' # reader => reader = "running" /\ reader' \in {"done", "failed"}
             /\ job' # job => \/ job = "expect" /\ job' \in {"match", "decode"}
                              \/ job = "read_all" /\ job' = "decode"
                              \/ job = "read_all" /\ job' = "ok" /\ n = 0
                              \/ /\ job = "expect" /\ job' = "eof" /\ n = 0
                                 /\ NoneIn(said, pending')
             /\ job' \in {"expect", "read_all"} => n # 0
      PROVE  IInv'
  <2>1. /\ stream' \in Seq(DOMAIN said) /\ held' \in Seq(DOMAIN said) /\ Len(stream') <= OutCap
        /\ Len(held') <= 1 /\ atEof' = (n = 0) /\ atEof' \in BOOLEAN
    BY <1>1, <1>3, ChunkTypes
  <2>2. DataInv'
    BY <1>1, <1>3, ChunkInStep
  <2>3. TypeOK'
    BY <1>1, <1>3, <2>1 DEF IInv, TypeOK, JobOver
  <2>4. CallInv'
    BY <1>1, <1>3 DEF IInv, CallInv
  <2>5. FoundInv'
    BY <1>1, <1>3, <2>1 DEF FoundInv
  <2> QED BY <2>2, <2>3, <2>4, <2>5 DEF IInv
<1> QED BY <1>2, <1>3, ReadsIs

\* The process reads a line, closes its input, or ends.
LEMMA ProcessInv ==
  ASSUME IInv, ProcReads \/ ProcBreaks \/ ProcEnds
  PROVE  IInv'
<1> USE DEF bufVars, procVars, callVars
<1>1. /\ UNCHANGED <<said, stream, pending, held, atEof, pc, call, reply, sends, job, found,
                     reader, cancels>>
      /\ alive = TRUE /\ alive' \in BOOLEAN /\ stdin' \in {"open", "closed", "broken"}
  <2>1. alive \in BOOLEAN /\ stdin \in {"open", "closed", "broken"}
    BY DEF IInv, TypeOK
  <2> QED BY <2>1 DEF ProcReads, ProcBreaks, ProcEnds
<1>2. /\ inq \in Nat /\ sends \in Nat /\ MaxSends \in Nat /\ sends <= MaxSends /\ inq <= sends
      /\ (pc = "echo" => inq + 1 <= sends)
  BY Known
<1>3. inq' \in Nat /\ inq' <= inq
  BY <1>2 DEF ProcReads, ProcBreaks, ProcEnds
<1>4. said \in Seq(Byte) /\ said \o <<>> = said /\ owed \in Seq(Byte) /\ Paired(said)
  <2>1. said \in Seq(Byte) /\ owed \in Seq(Byte) /\ Paired(said)
    BY Places
  <2> QED BY <2>1, ConcatEmptySeq
<1>5. Paired(said \o owed) /\ IsText(said \o owed)
  BY <1>1 DEF IInv, DataInv
<1>6. /\ owed' \in Seq(Byte) /\ Paired(said \o owed')
      /\ alive' = TRUE => IsText(said \o owed')
  <2>1. CASE ProcReads
    <3>1. owed = <<>> /\ owed' \in Answers
      BY <2>1 DEF ProcReads
    <3>2. owed' \in Seq(Byte) /\ IsText(owed')
      BY <3>1, AnswersAssumption
    <3>3. IsText(said)
      BY <1>4, <1>5, <3>1
    <3> DEFINE o == owed'
    <3>4. o \in Seq(Byte) /\ IsText(o)
      BY <3>2
    <3> HIDE DEF o
    <3>5. IsText(said \o o)
      BY <1>4, <3>3, <3>4, TextJoins
    <3> QED BY <3>2, <3>5 DEF IsText, o
  <2>2. CASE UNCHANGED <<alive, owed>>
    BY <1>4, <1>5, <2>2
  <2>3. CASE alive' = FALSE /\ owed' = <<>>
    BY <1>4, <2>3, EmptySeq
  <2> QED BY <2>1, <2>2, <2>3 DEF ProcBreaks, ProcEnds
<1>7. TypeOK'
  <2>1. inq' \in 0..MaxSends
    BY <1>2, <1>3
  <2> QED BY <1>1, <1>6, <2>1 DEF IInv, TypeOK, JobOver
<1>8. CallInv'
  <2>1. inq' <= sends
    BY <1>2, <1>3
  <2>2. CASE pc = "echo"
    <3>1. /\ inq \in Nat /\ sends \in Nat /\ inq' \in Nat
          /\ inq + 1 <= sends /\ inq' <= inq
      BY <1>2, <1>3, <2>2
    <3>2. \A a, b, c \in Nat : a + 1 <= b /\ c <= a => c + 1 <= b
      OBVIOUS
    <3>3. inq' + 1 <= sends
      BY <3>1, <3>2, Zenon
    <3> QED BY <1>1, <2>1, <3>3 DEF IInv, CallInv
  <2>3. CASE pc # "echo"
    BY <1>1, <2>1, <2>3 DEF IInv, CallInv
  <2> QED BY <2>2, <2>3
<1>9. FoundInv'
  BY <1>1 DEF IInv, FoundInv, FirstIn, HitIn, NoneIn
<1>10. DataInv'
  <2>1. DataInv /\ atEof = FALSE
    BY <1>1 DEF IInv, DataInv, TypeOK
  <2>2. Base' = Base
    BY <1>1 DEF Base
  <2> QED BY <1>1, <1>6, <2>1, <2>2 DEF DataInv
<1> QED BY <1>7, <1>8, <1>9, <1>10 DEF IInv

\* It writes a byte.
LEMMA WritesInv ==
  ASSUME IInv, ProcWrites
  PROVE  IInv'
<1> USE DEF bufVars, procVars, callVars
<1> DEFINE e == Head(owed)
           len == Len(said)
           b == Base
<1>1. /\ alive = TRUE /\ atEof = FALSE /\ owed # <<>> /\ owed' = Tail(owed)
      /\ said' = Append(said, e) /\ stream' = Append(stream, Len(said'))
      /\ Len(stream) < OutCap
      /\ UNCHANGED <<alive, stdin, inq, pending, held, atEof, pc, call, reply, sends, job,
                     found, reader, cancels>>
  BY DEF ProcWrites, IInv, DataInv, TypeOK
<1>2. /\ said \in Seq(Byte) /\ owed \in Seq(Byte) /\ len \in Nat /\ DOMAIN said = 1..len
      /\ b \in Nat /\ Len(stream) \in Nat /\ b + Len(stream) = len
      /\ stream \in Seq(DOMAIN said) /\ held \in Seq(DOMAIN said)
      /\ pending \in Seq(DOMAIN said) /\ found \in Seq(DOMAIN said)
  BY Places
<1>3. e \in Byte /\ owed' \in Seq(Byte) /\ <<e>> \o owed' = owed
  <2>1. /\ owed \in Seq(Byte) /\ owed # <<>>
    BY <1>1, <1>2
  <2>2. Head(owed) \in Byte /\ Tail(owed) \in Seq(Byte)
    BY <2>1, HeadTailProperties
  <2>3. <<Head(owed)>> \o Tail(owed) = owed
    BY <2>1
  <2> QED BY <1>1, <2>2, <2>3
<1> HIDE DEF e
<1>4. /\ said' \in Seq(Byte) /\ Len(said') = len + 1 /\ DOMAIN said' = 1..len + 1
      /\ \A i \in 1..len : said'[i] = said[i]
  <2>1. /\ Append(said, e) \in Seq(Byte) /\ Len(Append(said, e)) = Len(said) + 1
        /\ \A i \in 1..Len(said) : Append(said, e)[i] = said[i]
    BY <1>2, <1>3, AppendProperties
  <2>2. said' \in Seq(Byte) /\ Len(said') = len + 1 /\ \A i \in 1..len : said'[i] = said[i]
    BY <1>1, <2>1
  <2>3. DOMAIN said' = 1..Len(said')
    BY <2>2, LenProperties
  <2> QED BY <2>2, <2>3
<1> DEFINE last == len + 1
<1>5. last \in DOMAIN said' /\ DOMAIN said \subseteq DOMAIN said'
  BY <1>2, <1>4
<1>6. said' \o owed' = said \o owed
  <2> DEFINE o == owed'
  <2>1. said \in Seq(Byte) /\ <<e>> \in Seq(Byte) /\ o \in Seq(Byte)
    BY <1>2, <1>3
  <2>2. Append(said, e) = said \o <<e>>
    BY <1>2, <1>3, AppendIsConcat
  <2>3. (said \o <<e>>) \o o = said \o (<<e>> \o o)
    <3> HIDE DEF o
    <3> QED BY <2>1, ConcatAssociative
  <2> QED BY <1>1, <1>3, <2>2, <2>3
<1> HIDE DEF last
<1>7. /\ held' \in Seq(DOMAIN said') /\ pending' \in Seq(DOMAIN said')
      /\ found' \in Seq(DOMAIN said') /\ stream \in Seq(DOMAIN said')
  <2> DEFINE P == DOMAIN said
             Q == DOMAIN said'
  <2>1. P \subseteq Q /\ held \in Seq(P) /\ pending \in Seq(P) /\ found \in Seq(P)
        /\ stream \in Seq(P)
    BY <1>2, <1>5
  <2> HIDE DEF P, Q
  <2>2. held \in Seq(Q) /\ pending \in Seq(Q) /\ found \in Seq(Q) /\ stream \in Seq(Q)
    BY <2>1, SeqMonotonic
  <2> QED BY <1>1, <2>2 DEF Q
<1>8. /\ stream' \in Seq(DOMAIN said') /\ Len(stream') = Len(stream) + 1
      /\ \A i \in 1..Len(stream) : stream'[i] = stream[i]
      /\ stream'[Len(stream) + 1] = last
  <2>1. stream' = Append(stream, last)
    BY <1>1, <1>4 DEF last
  <2> DEFINE Q == DOMAIN said'
  <2>2. stream \in Seq(Q) /\ last \in Q
    BY <1>5, <1>7
  <2> HIDE DEF Q
  <2>3. /\ Append(stream, last) \in Seq(Q) /\ Len(Append(stream, last)) = Len(stream) + 1
        /\ \A i \in 1..Len(stream) : Append(stream, last)[i] = stream[i]
        /\ Append(stream, last)[Len(stream) + 1] = last
    BY <2>2, AppendProperties
  <2> QED BY <2>1, <2>3 DEF Q
<1>9. Base' = b
  <2>1. Base' = Len(said') - Len(stream')
    BY DEF Base
  <2> DEFINE x == Len(stream)
  <2>2. x \in Nat /\ len \in Nat /\ b \in Nat /\ b + x = len /\ Base' = (len + 1) - (x + 1)
    BY <1>2, <1>4, <1>8, <2>1
  <2> HIDE DEF b, len, x
  <2> QED BY <2>2
<1>10. TypeOK'
  <2>1. Len(stream') <= OutCap
    BY <1>1, <1>2, <1>8, BoundsAssumption
  <2> QED BY <1>1, <1>3, <1>4, <1>7, <1>8, <2>1 DEF IInv, TypeOK, JobOver
<1>11. CallInv'
  BY <1>1 DEF IInv, CallInv
<1>12. FoundInv'
  <2>1. FoundInv
    BY DEF IInv
  <2>2. job = "match" => FirstIn(said', found, Len(found) - Len(Pattern))
    <3>1. SUFFICES ASSUME job = "match"
                   PROVE  FirstIn(said', found, Len(found) - Len(Pattern))
      OBVIOUS
    <3>2. FirstIn(said, found, Len(found) - Len(Pattern))
      BY <2>1, <3>1 DEF FoundInv
    <3> DEFINE k == Len(found) - Len(Pattern)
    <3>3. FirstIn(said, found, k)
      BY <3>2
    <3> HIDE DEF k
    <3>4. FirstIn(Append(said, e), found, k)
      BY <1>2, <1>3, <3>3, FirstStays
    <3> QED BY <1>1, <3>4 DEF k
  <2> QED BY <1>1, <2>1, <2>2 DEF FoundInv
<1>13. DataInv'
  <2>1. DataInv
    BY DEF IInv
  <2>2. Len(stream') <= Len(said')
    BY <1>2, <1>4, <1>8
  <2>3. ASSUME NEW i \in 1..Len(stream') PROVE stream'[i] = b + i
    <3>1. CASE i \in 1..Len(stream)
      BY <1>8, <2>1, <3>1 DEF DataInv
    <3>2. CASE i = Len(stream) + 1
      <4>1. b + i = last
        <5> DEFINE x == Len(stream)
        <5>1. x \in Nat /\ b \in Nat /\ b + x = len /\ i = x + 1 /\ last = len + 1
          BY <1>2, <3>2 DEF last
        <5> HIDE DEF b, x, len
        <5> QED BY <5>1
      <4> QED BY <1>8, <3>2, <4>1
    <3>3. i \in 1..Len(stream) \/ i = Len(stream) + 1
      BY <1>2, <1>8
    <3> QED BY <3>1, <3>2, <3>3
  <2>4. Clean(said', b) <=> Clean(said, b)
    <3>1. b <= len
      BY <1>2
    <3>2. \A i \in 1..b : said'[i] = said[i]
      <4> HIDE DEF b, len
      <4> QED BY <1>2, <1>4, <3>1
    <3> HIDE DEF b
    <3> QED BY <3>2 DEF Clean
  <2>5. b > 0 => said'[b] = said[b]
    <3>1. b > 0 => b \in 1..len
      BY <1>2
    <3> QED BY <1>4, <3>1
  <2>6. /\ \A i \in 1..Len(held) : held[i] <= b
        /\ Clean(said, b) => held = IF b > 0 /\ said[b] = "lead" THEN <<b>> ELSE <<>>
        /\ Paired(said \o owed) /\ IsText(said \o owed)
    BY <1>1, <2>1 DEF DataInv
  <2> HIDE DEF b, len
  <2>7. Clean(said', b) => held' = IF b > 0 /\ said'[b] = "lead" THEN <<b>> ELSE <<>>
    BY <1>1, <2>4, <2>5, <2>6
  <2>8. Paired(said' \o owed') /\ IsText(said' \o owed')
    BY <1>6, <2>6
  <2> QED BY <1>1, <1>9, <2>2, <2>3, <2>6, <2>7, <2>8 DEF DataInv
<1> QED BY <1>10, <1>11, <1>12, <1>13 DEF IInv

----------------------------------------------------------------------------
(* Every step is one of the abstract text.                                 *)

Tells == Stream!Next \/ UNCHANGED Stream!vars

\* The text after a step that reads nothing and leaves nothing found.
LEMMA RestLeft ==
  ASSUME TypeOK, found' = <<>>, pending' \in Seq(DOMAIN said),
         UNCHANGED <<held, atEof, stream>>
  PROVE  /\ Rest' = pending' \o Unread
         /\ pending' = <<>> => Rest' = Unread
<1> DEFINE P == DOMAIN said
           half == IF atEof THEN <<>> ELSE held
           p == pending'
<1>1. held \in Seq(P) /\ stream \in Seq(P) /\ p \in Seq(P) /\ Unread \in Seq(P)
  BY RestIs
<1>2. half \in Seq(P)
  BY <1>1, EmptySeq
<1>3. <<>> \o p = p
  BY <1>1, ConcatEmptySeq
<1>4. Rest' = ((<<>> \o p) \o half) \o stream /\ Unread = half \o stream
  BY DEF Rest, Unread
<1> HIDE DEF P, half, p
<1>5. (p \o half) \o stream = p \o (half \o stream)
  <2>1. p \in Seq(P) /\ half \in Seq(P) /\ stream \in Seq(P)
    BY <1>1, <1>2
  <2> QED BY <2>1, ConcatAssociative
<1>6. <<>> \o Unread = Unread
  BY <1>1, ConcatEmptySeq
<1>7. Rest' = p \o Unread /\ (p = <<>> => Rest' = Unread)
  BY <1>3, <1>4, <1>5, <1>6
<1> QED BY <1>7 DEF p

\* At the end of the text only what is pending is left.
LEMMA AtEnd ==
  ASSUME IInv, atEof = TRUE
  PROVE  Unread = <<>> /\ alive = FALSE /\ (found = <<>> => Rest = pending)
<1>1. alive = FALSE /\ stream = <<>>
  BY DEF IInv, DataInv
<1>2. Unread = <<>>
  BY <1>1, EmptySeq, ConcatEmptySeq DEF Unread
<1>3. found = <<>> => Rest = pending \o Unread
  BY RestIs DEF IInv
<1>4. pending \o <<>> = pending
  BY Places, ConcatEmptySeq
<1> QED BY <1>1, <1>2, <1>3, <1>4

\* A match is told, or lost.
LEMMA TellsHit ==
  ASSUME TypeOK, NEW hit, hit \in Seq(DOMAIN said), NEW after, after \in Seq(DOMAIN said),
         FirstIn(said, hit, Len(hit) - Len(Pattern)),
         Rest = hit \o after, Rest' = after, UNCHANGED <<said, alive>>,
         reply' = MatchOf(hit) \/ reply' = [None EXCEPT !.kind = "cancelled"]
  PROVE  Tells
<1> DEFINE n == Len(hit) - Len(Pattern)
<1>1. n \in Nat /\ Len(hit) = n + Len(Pattern)
  BY LenProperties, PatternType DEF FirstIn
<1>2. FirstIn(said, hit, n)
  OBVIOUS
<1>3. MatchOf(hit) = [kind |-> "match", text |-> SubSeq(hit, 1, n)]
  BY DEF MatchOf
<1> HIDE DEF n
<1>4. /\ reply' = [kind |-> "match", text |-> SubSeq(hit, 1, n)] => Stream!Matches
      /\ reply' = [None EXCEPT !.kind = "cancelled"] => Stream!MatchLost
  BY <1>1, <1>2, TellsMatch
<1> QED BY <1>3, <1>4 DEF Tells, Stream!Next

\* The text up to its end is returned.
LEMMA TellsAll ==
  ASSUME IInv, atEof = TRUE, found = <<>>, found' = <<>>, pending' = <<>>,
         UNCHANGED <<held, atEof, stream, said, alive>>,
         reply' = [kind |-> "all", text |-> pending]
  PROVE  Tells
<1>1. Unread = <<>> /\ alive = FALSE /\ TypeOK /\ pending' \in Seq(DOMAIN said)
  BY AtEnd, EmptySeq DEF IInv
<1>2. Rest' = Unread
  BY <1>1, RestLeft
<1>3. Stream!Returns
  BY <1>1, <1>2, TellsText
<1> QED BY <1>3 DEF Tells, Stream!Next

LEMMA RestSame == UNCHANGED <<found, pending, held, atEof, stream>> => Rest' = Rest
BY DEF Rest

\* A failure, or the answer of `send`.
LEMMA TellsWord ==
  ASSUME NEW kind \in {"ended", "timeout", "cancelled", "decode", "reset", "no_echo", "sent"},
         reply' = [None EXCEPT !.kind = kind],
         UNCHANGED <<found, pending, held, atEof, stream, said, alive>>
  PROVE  Tells
<1>1. kind \in Stream!Failures \cup {"sent"} /\ kind # "eof"
  BY DEF Stream!Failures
<1>2. Rest' = Rest
  BY RestSame
<1>3. Stream!Fails
  BY <1>1, <1>2, TellsFailure
<1> QED BY <1>3 DEF Tells, Stream!Next

\* EOFError.
LEMMA TellsEnd ==
  ASSUME IInv, atEof = TRUE, found = <<>>, NoneIn(said, pending),
         reply' = [None EXCEPT !.kind = "eof"],
         UNCHANGED <<found, pending, held, atEof, stream, said, alive>>
  PROVE  Tells
<1>1. Rest = pending /\ alive = FALSE
  BY AtEnd
<1>2. ~Stream!HasPattern(Rest)
  BY <1>1, Places, NoPattern
<1>3. Rest' = Rest
  BY RestSame
<1>4. "eof" \in Stream!Failures \cup {"sent"}
  BY DEF Stream!Failures
<1>5. Stream!Fails
  BY <1>1, <1>2, <1>3, <1>4, TellsFailure
<1> QED BY <1>5 DEF Tells, Stream!Next

LEMMA TellsBegin ==
  ASSUME reply' = None, UNCHANGED <<found, pending, held, atEof, stream, said, alive>>
  PROVE  Tells
<1>1. Stream!Calls
  BY RestSame, TellsNothing
<1> QED BY <1>1 DEF Tells, Stream!Next

LEMMA TellsNoMore ==
  ASSUME UNCHANGED <<found, pending, held, atEof, stream, said, alive, reply>>
  PROVE  Tells
BY RestSame, TellsStutter DEF Tells

\* `expect`.
LEMMA ExpectTells ==
  ASSUME IInv, NEW kind, found = <<>>, Expect(kind),
         UNCHANGED <<held, atEof, stream, said, alive>>
  PROVE  Tells
<1>1. /\ TypeOK /\ pending \in Seq(DOMAIN said) /\ Unread \in Seq(DOMAIN said)
      /\ Rest = pending \o Unread /\ atEof \in BOOLEAN
  BY RestIs DEF IInv, TypeOK
<1>2. pending' \in Seq(DOMAIN said) /\ found' = <<>>
  BY ExpectIs
<1>3. CASE Hits(pending) # {}
  <2> DEFINE hit == UpTo(pending)
             left == After(pending)
             after == left \o Unread
  <2>1. pending' = left /\ reply' = MatchOf(hit)
    BY <1>3 DEF Expect, Back, Answer
  <2>2. /\ hit \in Seq(DOMAIN said) /\ left \in Seq(DOMAIN said) /\ hit \o left = pending
        /\ FirstIn(said, hit, Len(hit) - Len(Pattern))
    BY <1>1, <1>3, Parts
  <2> HIDE DEF hit, left
  <2>3. after \in Seq(DOMAIN said)
    BY <1>1, <2>2, ConcatProperties
  <2>4. (hit \o left) \o Unread = hit \o (left \o Unread)
    <3>1. hit \in Seq(DOMAIN said) /\ left \in Seq(DOMAIN said) /\ Unread \in Seq(DOMAIN said)
      BY <1>1, <2>2
    <3> QED BY <3>1, ConcatAssociative
  <2>5. Rest = hit \o after
    BY <1>1, <2>2, <2>4
  <2>6. Rest' = after
    <3>1. Rest' = pending' \o Unread
      BY <1>1, <1>2, RestLeft
    <3> QED BY <2>1, <3>1
  <2> HIDE DEF after
  <2> QED BY <1>1, <2>1, <2>2, <2>3, <2>5, <2>6, TellsHit
<1>4. CASE Hits(pending) = {} /\ atEof = TRUE /\ kind = "command_eof"
  <2>1. pending' = <<>> /\ reply' = [kind |-> "all", text |-> pending]
    BY <1>4 DEF Expect, Back, Answer
  <2> QED BY <1>2, <1>4, <2>1, TellsAll
<1>5. CASE Hits(pending) = {} /\ atEof = TRUE /\ kind # "command_eof"
  <2>1. reply' = [None EXCEPT !.kind = "eof"] /\ pending' = pending
    BY <1>5 DEF Expect, Back, Answer
  <2>2. NoneIn(said, pending)
    BY <1>1, <1>5, Searches
  <2> QED BY <1>2, <1>5, <2>1, <2>2, TellsEnd
<1>6. CASE Hits(pending) = {} /\ atEof = FALSE
  <2>1. reply' = None /\ UNCHANGED <<pending, found>>
    BY <1>6 DEF Expect
  <2> QED BY <2>1, TellsBegin
<1> QED BY <1>1, <1>3, <1>4, <1>5, <1>6

LEMMA CallsTell ==
  ASSUME IInv, StartSend \/ EchoOff \/ EchoStays \/ ReadPending \/ Close
  PROVE  Tells
<1> USE DEF bufVars, procVars, callVars
<1>1. job = "none" /\ found = <<>>
  BY Known DEF StartSend, EchoOff, EchoStays, ReadPending, Close
<1>2. CASE StartSend
  <2>1. UNCHANGED <<found, pending, held, atEof, stream, said, alive>>
    BY <1>2 DEF StartSend
  <2>2. reply' = None \/ reply' = [None EXCEPT !.kind = "ended"]
    BY <1>2 DEF StartSend, Raise, Answer
  <2> QED BY <2>1, <2>2, TellsBegin, TellsWord
<1>3. CASE EchoOff \/ Close
  <2>1. UNCHANGED <<found, pending, held, atEof, stream, said, alive, reply>>
    BY <1>3 DEF EchoOff, Close
  <2> QED BY <2>1, TellsNoMore
<1>4. CASE EchoStays
  <2>1. /\ UNCHANGED <<found, pending, held, atEof, stream, said, alive>>
        /\ reply' = [None EXCEPT !.kind = "no_echo"]
    BY <1>4 DEF EchoStays, Raise, Answer
  <2> QED BY <2>1, TellsWord
<1>5. CASE ReadPending
  <2>1. /\ UNCHANGED <<found, held, atEof, stream, said, alive>> /\ pending' = <<>>
        /\ reply' = [kind |-> "pending", text |-> pending]
    BY <1>5 DEF ReadPending, Answer
  <2>2. TypeOK /\ pending' \in Seq(DOMAIN said)
    BY <2>1, EmptySeq DEF IInv
  <2>3. Rest' = Unread
    BY <1>1, <2>1, <2>2, RestLeft
  <2>4. Stream!Returns
    BY <1>1, <2>1, <2>2, <2>3, TellsText
  <2> QED BY <2>4 DEF Tells, Stream!Next
<1> QED BY <1>2, <1>3, <1>4, <1>5

LEMMA WaitsTell ==
  ASSUME IInv, StartExpect \/ StartReadAll \/ Sent \/ WaitEnds \/ Settled
  PROVE  Tells
<1> USE DEF bufVars, procVars, callVars
<1>1. /\ job # "match" => found = <<>>
      /\ pc \in {"idle", "echo"} => job = "none"
  BY Known
<1>2. UNCHANGED <<held, atEof, stream, said, alive>> /\ TypeOK
  BY DEF StartExpect, StartReadAll, Sent, WaitEnds, Settled, IInv
<1>3. atEof \in BOOLEAN /\ pending \in Seq(DOMAIN said) /\ Unread \in Seq(DOMAIN said)
      /\ found \in Seq(DOMAIN said) /\ Rest = found \o (pending \o Unread)
      /\ pending \o Unread \in Seq(DOMAIN said)
  BY <1>2, RestIs DEF TypeOK
<1>4. CASE StartExpect
  <2>1. found = <<>> /\ Expect("expect")
    BY <1>1, <1>4 DEF StartExpect
  <2> QED BY <1>2, <2>1, ExpectTells
<1>5. CASE StartReadAll
  <2>1. found = <<>>
    BY <1>1, <1>5 DEF StartReadAll
  <2>2. CASE atEof = TRUE
    <3>1. found' = <<>> /\ pending' = <<>> /\ reply' = [kind |-> "all", text |-> pending]
      BY <1>5, <2>2 DEF StartReadAll, Back, Answer
    <3> QED BY <1>2, <2>1, <2>2, <3>1, TellsAll
  <2>3. CASE atEof = FALSE
    <3>1. reply' = None /\ UNCHANGED <<pending, found>>
      BY <1>5, <2>3 DEF StartReadAll
    <3> QED BY <1>2, <3>1, TellsBegin
  <2> QED BY <1>3, <2>2, <2>3
<1>6. CASE Sent
  <2>1. found = <<>>
    BY <1>1, <1>6 DEF Sent, IInv, CallInv
  <2>2. CASE Expect(call.kind)
    <3> DEFINE k == call.kind
    <3>1. Expect(k)
      BY <2>2
    <3> HIDE DEF k
    <3> QED BY <1>2, <2>1, <3>1, ExpectTells
  <2>3. CASE ~Expect(call.kind)
    <3>1. /\ UNCHANGED pending /\ found' = <<>>
          /\ reply' = [None EXCEPT !.kind = "reset"] \/ reply' = [None EXCEPT !.kind = "sent"]
      BY <1>6, <2>3 DEF Sent, Back, Answer
    <3> QED BY <1>2, <2>1, <3>1, TellsWord
  <2> QED BY <2>2, <2>3
<1>7. CASE WaitEnds
  <2>1. found' = <<>> /\ pc = "reading"
    BY <1>7 DEF WaitEnds, Back
  <2>2. CASE job = "match"
    <3>1. reply' = MatchOf(found) /\ UNCHANGED pending
      BY <1>7, <2>2 DEF WaitEnds, Back, Answer
    <3>2. FirstIn(said, found, Len(found) - Len(Pattern))
      BY <2>2 DEF IInv, FoundInv
    <3>3. Rest' = pending \o Unread
      <4>1. pending' \in Seq(DOMAIN said)
        BY <1>3, <3>1
      <4>2. Rest' = pending' \o Unread
        BY <1>2, <2>1, <4>1, RestLeft
      <4> QED BY <3>1, <4>2
    <3> DEFINE after == pending \o Unread
    <3>4. after \in Seq(DOMAIN said) /\ Rest = found \o after /\ Rest' = after
      BY <1>3, <3>3
    <3> HIDE DEF after
    <3> QED BY <1>2, <1>3, <3>1, <3>2, <3>4, TellsHit
  <2>3. CASE job = "ok" \/ (job = "eof" /\ call.kind = "command_eof")
    <3>1. pending' = <<>> /\ reply' = [kind |-> "all", text |-> pending]
      BY <1>7, <2>3 DEF WaitEnds, Back, Answer
    <3>2. found = <<>> /\ atEof = TRUE
      BY <1>1, <2>1, <2>3 DEF IInv, FoundInv
    <3> QED BY <1>2, <2>1, <3>1, <3>2, TellsAll
  <2>4. CASE job = "eof" /\ call.kind # "command_eof"
    <3>1. reply' = [None EXCEPT !.kind = "eof"] /\ UNCHANGED pending
      BY <1>7, <2>4 DEF WaitEnds, Back, Answer
    <3>2. found = <<>> /\ atEof = TRUE /\ NoneIn(said, pending)
      BY <1>1, <2>4 DEF IInv, FoundInv
    <3> QED BY <1>2, <2>1, <3>1, <3>2, TellsEnd
  <2>5. CASE job = "decode"
    <3>1. reply' = [None EXCEPT !.kind = "decode"] /\ UNCHANGED pending
      BY <1>7, <2>5 DEF WaitEnds, Back, Answer
    <3>2. found = <<>>
      BY <1>1, <2>5
    <3> QED BY <1>2, <2>1, <3>1, <3>2, TellsWord
  <2> QED BY <1>7, <2>2, <2>3, <2>4, <2>5 DEF WaitEnds
<1>8. CASE Settled
  <2>1. /\ found' = <<>> /\ UNCHANGED pending /\ pc \in {"timed_out", "cancelled"}
        /\ pc = "timed_out" => reply' = [None EXCEPT !.kind = "timeout"]
        /\ pc = "cancelled" => reply' = [None EXCEPT !.kind = "cancelled"]
    BY <1>8 DEF Settled, Back, Answer, Asked
  <2>2. CASE job = "match"
    <3>1. FirstIn(said, found, Len(found) - Len(Pattern)) /\ pc = "cancelled"
      BY <2>1, <2>2 DEF IInv, FoundInv
    <3>2. Rest' = pending \o Unread
      <4>1. pending' \in Seq(DOMAIN said)
        BY <1>3, <2>1
      <4>2. Rest' = pending' \o Unread
        BY <1>2, <2>1, <4>1, RestLeft
      <4> QED BY <2>1, <4>2
    <3> DEFINE after == pending \o Unread
    <3>3. after \in Seq(DOMAIN said) /\ Rest = found \o after /\ Rest' = after
      BY <1>3, <3>2
    <3> HIDE DEF after
    <3> QED BY <1>2, <1>3, <2>1, <3>1, <3>3, TellsHit
  <2>3. CASE job # "match"
    <3>1. found = <<>>
      BY <1>1, <2>3
    <3> QED BY <1>2, <2>1, <3>1, TellsWord
  <2> QED BY <2>2, <2>3
<1> QED BY <1>4, <1>5, <1>6, <1>7, <1>8

LEMMA JobsTell ==
  ASSUME IInv, \/ DrainAtOnce \/ DrainWaits \/ DrainEnds \/ ReaderCancelled \/ JobCancelled
               \/ TimesOut \/ Cancel
  PROVE  Tells
<1> USE DEF bufVars, procVars, callVars, jobRest
<1>1. UNCHANGED <<found, pending, held, atEof, stream, said, alive>>
  BY DEF DrainAtOnce, DrainWaits, DrainEnds, ReaderCancelled, JobCancelled, TimesOut, Cancel
<1>2. reply' = reply \/ reply' = [None EXCEPT !.kind = "cancelled"]
  BY DEF DrainAtOnce, DrainWaits, DrainEnds, ReaderCancelled, JobCancelled, TimesOut, Cancel,
         Raise, Answer
<1> QED BY <1>1, <1>2, TellsNoMore, TellsWord

LEMMA ReadsTell ==
  ASSUME IInv, ReaderReads \/ ExpectReads \/ AllReads
  PROVE  Tells
<1>1. /\ UNCHANGED <<alive, said, reply>> /\ found = <<>>
      /\ \/ UNCHANGED <<stream, pending, held, atEof, job, found>>
         \/ \E n \in 0..ChunkSize :
              TakeChunk(n) /\ atEof = FALSE /\ found' \o pending' = Grown(n)
  BY ReadsIs
<1>2. CASE UNCHANGED <<stream, pending, held, atEof, job, found>>
  BY <1>1, <1>2, TellsNoMore
<1>3. ASSUME NEW n \in 0..ChunkSize,
             TakeChunk(n) /\ atEof = FALSE /\ found' \o pending' = Grown(n)
      PROVE  Tells
  <2>1. Stream!ChunkLost \/ UNCHANGED Stream!vars
    BY <1>1, <1>3, TellsChunk
  <2> QED BY <2>1 DEF Tells, Stream!Next
<1> QED BY <1>1, <1>2, <1>3

LEMMA ProcessTells ==
  ASSUME IInv, ProcReads \/ ProcWrites \/ ProcBreaks \/ ProcEnds
  PROVE  Tells
<1> USE DEF bufVars, procVars, callVars
<1>1. TypeOK /\ alive = TRUE
  BY DEF IInv, TypeOK, ProcReads, ProcWrites, ProcBreaks, ProcEnds
<1>2. CASE ProcWrites
  <2>1. Head(owed) \in Byte
    <3>1. owed \in Seq(Byte) /\ owed # <<>>
      BY <1>1, <1>2 DEF TypeOK, ProcWrites
    <3> QED BY <3>1, HeadTailProperties
  <2>2. /\ said' = Append(said, Head(owed)) /\ stream' = Append(stream, Len(said'))
        /\ UNCHANGED <<found, pending, held, atEof, alive, reply>>
    BY <1>2 DEF ProcWrites
  <2> DEFINE b == Head(owed)
  <2>3. b \in Byte /\ said' = Append(said, b)
    BY <2>1, <2>2
  <2> HIDE DEF b
  <2>4. Stream!Say
    BY <1>1, <2>2, <2>3, TellsByte
  <2> QED BY <2>4 DEF Tells, Stream!Next
<1>3. CASE ProcReads \/ ProcBreaks \/ ProcEnds
  <2>1. UNCHANGED <<found, pending, held, atEof, stream, said, reply>>
    BY <1>3 DEF ProcReads, ProcBreaks, ProcEnds
  <2>2. alive' = alive \/ alive' = FALSE
    BY <1>3 DEF ProcReads, ProcBreaks, ProcEnds
  <2>3. CASE alive' = alive
    BY <2>1, <2>3, TellsNoMore
  <2>4. CASE alive' = FALSE
    <3>1. Rest' = Rest
      BY <2>1, RestSame
    <3>2. Stream!Leave
      BY <2>1, <2>4, <3>1 DEF Stream!Leave, Rest
    <3> QED BY <3>2 DEF Tells, Stream!Next
  <2> QED BY <2>2, <2>3, <2>4
<1> QED BY <1>2, <1>3

----------------------------------------------------------------------------
(* The theorems.                                                           *)

LEMMA StepIs ==
  ASSUME Next
  PROVE  \/ StartSend \/ EchoOff \/ EchoStays \/ ReadPending \/ Close
         \/ StartExpect \/ StartReadAll \/ Sent \/ WaitEnds \/ Settled
         \/ DrainAtOnce \/ DrainWaits \/ DrainEnds \/ ReaderCancelled \/ JobCancelled
         \/ ReaderReads \/ ExpectReads \/ AllReads \/ TimesOut \/ Cancel
         \/ ProcReads \/ ProcWrites \/ ProcBreaks \/ ProcEnds
BY DEF Next, Calls, Job, Waits, Process

LEMMA Invariance == Spec => []IInv
<1>1. Init => IInv
  BY InitInv
<1>2. IInv /\ [Next]_vars => IInv'
  <2>1. ASSUME IInv, Next PROVE IInv'
    BY <2>1, StepIs, CallsInv, WaitsInv, AsksInv, JobsInv, ReadsInv, ProcessInv, WritesInv
  <2>2. ASSUME IInv, UNCHANGED vars PROVE IInv'
    <3>1. UNCHANGED <<alive, stdin, inq, owed, said, stream, pending, held, atEof, pc, call,
                      sends, job, found, reader, cancels>>
      BY <2>2 DEF vars, procVars, bufVars, callVars
    <3>2. TypeOK'
      BY <2>2, <3>1 DEF IInv, TypeOK, JobOver
    <3>3. CallInv'
      BY <2>2, <3>1 DEF IInv, CallInv
    <3>4. FoundInv'
      BY <2>2, <3>1 DEF IInv, FoundInv, FirstIn, HitIn, NoneIn
    <3>5. DataInv'
      BY <2>2, <3>1, DataStays
    <3> QED BY <3>2, <3>3, <3>4, <3>5 DEF IInv
  <2> QED BY <2>1, <2>2
<1> QED BY <1>1, <1>2, PTL DEF Spec

\* Every variable keeps its type; and no reader and no job is left when a call has ended.
THEOREM TypeCorrect == Spec => []TypeOK
<1>1. IInv => TypeOK
  BY DEF IInv
<1> QED BY <1>1, Invariance, PTL

\* Prompt implements PromptStream: whatever the chunks, the time-outs, the cancellations and
\* the death of the process, its callers read the output whole and in order.
THEOREM KeepsStream == Spec => StreamKept
<1>1. Init => Stream!Init
  <2>1. SUFFICES ASSUME Init PROVE Stream!Init
    OBVIOUS
  <2>2. ((<<>> \o <<>>) \o <<>>) \o <<>> = <<>>
    OBVIOUS
  <2>3. ((found \o pending) \o (IF atEof THEN <<>> ELSE held)) \o stream = <<>>
    BY <2>1, <2>2 DEF Init
  <2> QED BY <2>1, <2>3 DEF Init, Stream!Init, Stream!None, None
<1>2. IInv /\ [Next]_vars => [Stream!Next]_(Stream!vars)
  <2>1. ASSUME IInv, Next PROVE Tells
    BY <2>1, StepIs, CallsTell, WaitsTell, JobsTell, ReadsTell, ProcessTells
  <2>2. ASSUME UNCHANGED vars PROVE Tells
    <3>1. UNCHANGED <<found, pending, held, atEof, stream, said, alive, reply>>
      BY <2>2 DEF vars, procVars, bufVars, callVars
    <3> QED BY <3>1, TellsNoMore
  <2> QED BY <2>1, <2>2 DEF Tells
<1> QED BY <1>1, <1>2, Invariance, PTL DEF Spec, StreamKept, Stream!Spec

=============================================================================
