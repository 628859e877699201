--------------------------- MODULE ConfigTextProofs ---------------------------
(***************************************************************************)
(* Proofs about the text of configuration files, for any files, of any     *)
(* length, with any words.                                                 *)
(***************************************************************************)
EXTENDS Configuration, SequenceTheorems, FiniteSetTheorems, WellFoundedInduction, TLAPS

-----------------------------------------------------------------------------
(***************************************************************************)
(* Induction, for sets of numbers and of sequences.                        *)
(***************************************************************************)
Before == {pair \in Nat \X Nat : pair[1] < pair[2]}

LEMMA BeforeIsWellFounded == IsWellFoundedOn(Before, Nat)
BY NatLessThanWellFounded DEF Before, OpToRel

LEMMA LeastIsThere ==
  ASSUME NEW S \in SUBSET Nat, S # {}
  PROVE  \E x \in S : \A y \in S : x <= y
<1>1. PICK x \in S : \A y \in S : ~ (<<y, x>> \in Before)
  BY BeforeIsWellFounded, WFMin
<1>2. \A y \in S : x <= y
  <2> SUFFICES ASSUME NEW y \in S, ~ (x <= y) PROVE FALSE
    OBVIOUS
  <2>1. x \in Nat /\ y \in Nat /\ y < x
    OBVIOUS
  <2>2. <<y, x>> \in Before
    BY <2>1 DEF Before
  <2> QED
    BY <2>2, <1>1
<1> QED
  BY <1>2

\* A set that has 0 and with each number the next one has all of them.
LEMMA NatInduct ==
  ASSUME NEW T, 0 \in T, \A n \in Nat : n \in T => n + 1 \in T
  PROVE  \A n \in Nat : n \in T
<1> SUFFICES ASSUME Nat \ T # {} PROVE FALSE
  OBVIOUS
<1>1. PICK n \in Nat \ T : \A k \in Nat \ T : n <= k
  BY LeastIsThere
<1>2. n # 0 /\ n - 1 \in Nat /\ ~ (n <= n - 1) /\ n = (n - 1) + 1
  BY <1>1
<1>3. n - 1 \in T
  BY <1>1, <1>2
<1> QED
  BY <1>1, <1>2, <1>3

\* The same for sequences, by their last element.
LEMMA SeqInduct ==
  ASSUME NEW S, NEW T, <<>> \in T,
         \A s \in Seq(S), e \in S : s \in T => Append(s, e) \in T
  PROVE  \A s \in Seq(S) : s \in T
<1> DEFINE N == {n \in Nat : \A s \in Seq(S) : Len(s) = n => s \in T}
<1>1. 0 \in N
  BY EmptySeq
<1>2. \A n \in Nat : n \in N => n + 1 \in N
  <2> SUFFICES ASSUME NEW n \in Nat, n \in N, NEW s \in Seq(S), Len(s) = n + 1
               PROVE  s \in T
    OBVIOUS
  <2>1. s # <<>>
    BY EmptySeq
  <2>2. PICK t \in Seq(S), e \in S : s = Append(t, e)
    BY <2>1, SequenceEmptyOrAppend
  <2>3. Len(t) \in Nat /\ Len(s) = Len(t) + 1
    BY <2>2, AppendProperties, LenProperties
  <2>4. t \in T
    BY <2>3
  <2> QED
    BY <2>2, <2>4
<1> HIDE DEF N
<1>3. \A n \in Nat : n \in N
  BY <1>1, <1>2, NatInduct
<1> QED
  BY <1>3, LenProperties DEF N

-----------------------------------------------------------------------------
(***************************************************************************)
(* Run, token by token.                                                    *)
(***************************************************************************)
RunSteps(s, text, at) ==
  at = [n \in 0 .. Len(text) |-> IF n = 0 THEN s ELSE Read(at[n - 1], text[n])]

LEMMA RunIs ==
  ASSUME NEW S, NEW s, NEW text \in Seq(S), NEW at, RunSteps(s, text, at)
  PROVE  Run(s, text) = at[Len(text)]
<1> DEFINE f == CHOOSE g : RunSteps(s, text, g)
           T == {n \in Nat : n <= Len(text) => f[n] = at[n]}
<1>1. RunSteps(s, text, f)
  OBVIOUS
<1>2. Run(s, text) = f[Len(text)]
  BY DEF Run, RunSteps
<1>3. Len(text) \in Nat
  BY LenProperties
<1> HIDE DEF f
<1>4. 0 \in T
  BY <1>1, <1>3 DEF RunSteps
<1>5. \A n \in Nat : n \in T => n + 1 \in T
  <2> SUFFICES ASSUME NEW n \in Nat, n \in T, n + 1 <= Len(text)
               PROVE  f[n + 1] = at[n + 1]
    OBVIOUS
  <2>1. n + 1 \in 0 .. Len(text) /\ n + 1 # 0 /\ (n + 1) - 1 = n /\ n <= Len(text)
    BY <1>3
  <2>2. f[n + 1] = Read(f[n], text[n + 1]) /\ at[n + 1] = Read(at[n], text[n + 1])
    BY <1>1, <2>1 DEF RunSteps
  <2> QED
    BY <2>1, <2>2
<1> HIDE DEF T
<1>6. Len(text) \in T
  BY <1>3, <1>4, <1>5, NatInduct
<1> QED
  BY <1>2, <1>6 DEF T

LEMMA RunExtends ==
  ASSUME NEW S, NEW s, NEW text \in Seq(S), NEW t \in S, NEW at, RunSteps(s, text, at)
  PROVE  \E g : /\ RunSteps(s, Append(text, t), g)
                /\ g[Len(text) + 1] = Read(at[Len(text)], t)
<1> DEFINE n == Len(text)
           g == [k \in 0 .. n + 1 |-> IF k = n + 1 THEN Read(at[n], t) ELSE at[k]]
<1>1. n \in Nat /\ Len(Append(text, t)) = n + 1 /\ Append(text, t)[n + 1] = t
      /\ \A k \in 1 .. n : Append(text, t)[k] = text[k]
  BY LenProperties, AppendProperties
<1> HIDE DEF n
<1>2. \A k \in 0 .. n + 1 :
        g[k] = IF k = 0 THEN s ELSE Read(g[k - 1], Append(text, t)[k])
  <2> SUFFICES ASSUME NEW k \in 0 .. n + 1
               PROVE  g[k] = IF k = 0 THEN s ELSE Read(g[k - 1], Append(text, t)[k])
    OBVIOUS
  <2>1. CASE k = n + 1
    <3>1. k # 0 /\ k - 1 = n /\ n \in 0 .. n + 1 /\ n # n + 1
      BY <1>1, <2>1
    <3>2. g[k] = Read(at[n], t) /\ g[k - 1] = at[n]
      BY <2>1, <3>1
    <3> QED
      BY <1>1, <2>1, <3>1, <3>2
  <2>2. CASE k # n + 1
    <3>1. k \in 0 .. n /\ (k # 0 => k \in 1 .. n /\ k - 1 \in 0 .. n + 1 /\ k - 1 # n + 1)
      BY <1>1, <2>2
    <3>2. g[k] = at[k] /\ (k # 0 => g[k - 1] = at[k - 1])
      BY <2>2, <3>1
    <3>3. at[k] = IF k = 0 THEN s ELSE Read(at[k - 1], text[k])
      BY <3>1 DEF RunSteps, n
    <3> QED
      BY <1>1, <3>1, <3>2, <3>3
  <2> QED
    BY <2>1, <2>2
<1>3. g[n + 1] = Read(at[n], t)
  BY <1>1
<1>4. RunSteps(s, Append(text, t), g)
  BY <1>1, <1>2 DEF RunSteps
<1> QED
  BY <1>3, <1>4 DEF n

LEMMA RunExists ==
  ASSUME NEW S, NEW s
  PROVE  \A text \in Seq(S) : \E at : RunSteps(s, text, at)
<1> DEFINE T == {text \in Seq(S) : \E at : RunSteps(s, text, at)}
<1>1. <<>> \in T
  <2> DEFINE at == [n \in 0 .. 0 |-> s]
  <2>1. RunSteps(s, <<>>, at)
    BY EmptySeq DEF RunSteps
  <2> QED
    BY <2>1, EmptySeq
<1>2. \A text \in Seq(S), t \in S : text \in T => Append(text, t) \in T
  BY RunExtends, AppendProperties
<1> HIDE DEF T
<1>3. \A text \in Seq(S) : text \in T
  BY <1>1, <1>2, SeqInduct
<1> QED
  BY <1>3 DEF T

LEMMA RunEmpty ==
  ASSUME NEW s
  PROVE  Run(s, <<>>) = s
<1>1. PICK at : RunSteps(s, <<>>, at)
  BY RunExists, EmptySeq
<1>2. Len(<<>>) = 0 /\ <<>> \in Seq({})
  BY EmptySeq
<1>3. at[0] = s
  BY <1>1, <1>2 DEF RunSteps
<1> QED
  BY <1>1, <1>2, <1>3, RunIs

LEMMA RunAppend ==
  ASSUME NEW S, NEW s, NEW text \in Seq(S), NEW t \in S
  PROVE  Run(s, Append(text, t)) = Read(Run(s, text), t)
<1>1. PICK at : RunSteps(s, text, at)
  BY RunExists
<1>2. PICK g : RunSteps(s, Append(text, t), g) /\ g[Len(text) + 1] = Read(at[Len(text)], t)
  BY <1>1, RunExtends
<1>3. Append(text, t) \in Seq(S) /\ Len(Append(text, t)) = Len(text) + 1
  BY AppendProperties
<1>4. Run(s, text) = at[Len(text)] /\ Run(s, Append(text, t)) = g[Len(text) + 1]
  BY <1>1, <1>2, <1>3, RunIs
<1> QED
  BY <1>2, <1>4

LEMMA Lengths ==
  ASSUME NEW S, NEW ws \in Seq(S)
  PROVE  /\ Len(ws) \in Nat /\ (ws = <<>> <=> Len(ws) = 0)
         /\ Len(ws) = 1 => ws # <<>>
         /\ Len(ws) > 1 => ws # <<>> /\ Len(ws) # 1
<1>1. Len(ws) \in Nat
  BY LenProperties
<1>2. ws = <<>> <=> Len(ws) = 0
  BY EmptySeq
<1> DEFINE n == Len(ws)
<1> HIDE DEF n
<1>3. n \in Nat /\ (ws = <<>> <=> n = 0)
  BY <1>1, <1>2 DEF n
<1>4. n = 1 => n # 0
  OBVIOUS
<1>5. n > 1 => n # 0 /\ n # 1
  BY <1>3
<1>6. /\ n \in Nat /\ (ws = <<>> <=> n = 0)
      /\ n = 1 => ws # <<>>
      /\ n > 1 => ws # <<>> /\ n # 1
  BY <1>3, <1>4, <1>5, Zenon
<1> QED
  BY <1>6 DEF n

LEMMA LastOrNot == \A n \in Nat : \A i \in 1 .. n + 1 : i = n + 1 \/ i \in 1 .. n
OBVIOUS

LEMMA AppendToNone == \A t : Append(<<>>, t) = <<t>>
OBVIOUS

LEMMA RunOne ==
  ASSUME NEW s, NEW t
  PROVE  Run(s, <<t>>) = Read(s, t)
<1> DEFINE S == {t}
<1>1. t \in S /\ <<>> \in Seq(S) /\ Append(<<>>, t) = <<t>>
  BY EmptySeq
<1> HIDE DEF S
<1>2. \A c \in Seq(S) : Run(s, Append(c, t)) = Read(Run(s, c), t)
  BY <1>1, RunAppend
<1>3. Run(s, Append(<<>>, t)) = Read(Run(s, <<>>), t)
  BY <1>1, <1>2, Zenon
<1> QED
  BY <1>1, <1>3, RunEmpty

\* A text in two parts.
LEMMA RunConcat ==
  ASSUME NEW S, NEW s, NEW a \in Seq(S)
  PROVE  \A b \in Seq(S) : Run(s, a \o b) = Run(Run(s, a), b)
<1> DEFINE T == {b \in Seq(S) : Run(s, a \o b) = Run(Run(s, a), b)}
<1>1. <<>> \in T
  BY EmptySeq, ConcatEmptySeq, RunEmpty
<1>2. ASSUME NEW b \in Seq(S), NEW t \in S, b \in T
      PROVE  Append(b, t) \in T
  <2>1. a \o Append(b, t) = Append(a \o b, t)
    <3>1. Append(b, t) = b \o <<t>> /\ <<t>> \in Seq(S) /\ a \o b \in Seq(S)
      BY AppendIsConcat, ConcatProperties
    <3>2. Append(a \o b, t) = (a \o b) \o <<t>>
      BY <3>1, AppendIsConcat
    <3> QED
      BY <3>1, <3>2, ConcatAssociative
  <2>2. a \o b \in Seq(S) /\ Append(b, t) \in Seq(S)
    BY ConcatProperties, AppendProperties
  <2>3. \A c \in Seq(S) : Run(s, Append(c, t)) = Read(Run(s, c), t)
    BY RunAppend
  <2>4. Run(Run(s, a), Append(b, t)) = Read(Run(Run(s, a), b), t)
    BY RunAppend
  <2>5. Run(s, a \o b) = Run(Run(s, a), b)
    BY <1>2
  <2> QED
    BY <2>1, <2>2, <2>3, <2>4, <2>5
<1> HIDE DEF T
<1>3. \A b \in Seq(S) : b \in T
  BY <1>1, <1>2, SeqInduct
<1> QED
  BY <1>3 DEF T

\* Once refused, whatever follows.
LEMMA RunRefused ==
  ASSUME NEW S, NEW s, s.at = "refused"
  PROVE  \A text \in Seq(S) : Run(s, text) = s
<1> DEFINE T == {text \in Seq(S) : Run(s, text) = s}
<1>1. <<>> \in T
  BY EmptySeq, RunEmpty
<1>2. \A t : Read(s, t) = s
  BY DEF Read
<1>3. \A text \in Seq(S), t \in S : text \in T => Append(text, t) \in T
  BY <1>2, RunAppend, AppendProperties
<1> HIDE DEF T
<1>4. \A text \in Seq(S) : text \in T
  BY <1>1, <1>3, SeqInduct
<1> QED
  BY <1>4 DEF T

-----------------------------------------------------------------------------
(***************************************************************************)
(* FlattenSeq, sequence by sequence.                                       *)
(***************************************************************************)
Flattens(ss, f) ==
  f = [i \in 1 .. Len(ss) |-> IF i = 1 THEN ss[i] ELSE f[i - 1] \o ss[i]]

LEMMA FlattenIs ==
  ASSUME NEW S, NEW ss \in Seq(S), ss # <<>>, NEW f, Flattens(ss, f)
  PROVE  FlattenSeq(ss) = f[Len(ss)]
<1> DEFINE g == CHOOSE h : Flattens(ss, h)
           T == {n \in Nat : n \in 1 .. Len(ss) => g[n] = f[n]}
<1>1. Flattens(ss, g)
  OBVIOUS
<1>2. Len(ss) \in Nat /\ Len(ss) # 0
  BY EmptySeq, LenProperties
<1>3. FlattenSeq(ss) = g[Len(ss)]
  BY <1>2 DEF FlattenSeq, Flattens
<1> HIDE DEF g
<1>4. 0 \in T
  BY <1>2
<1>5. \A n \in Nat : n \in T => n + 1 \in T
  <2> SUFFICES ASSUME NEW n \in Nat, n \in T PROVE n + 1 \in T
    OBVIOUS
  <2>1. ASSUME n + 1 \in 1 .. Len(ss) PROVE g[n + 1] = f[n + 1]
    <3>1. CASE n = 0
      <4>1. 1 \in 1 .. Len(ss)
        BY <1>2
      <4>2. g[1] = ss[1] /\ f[1] = ss[1]
        BY <1>1, <4>1 DEF Flattens
      <4> QED
        BY <3>1, <4>2
    <3>2. CASE n # 0
      <4>1. (n + 1) - 1 = n /\ n + 1 # 1 /\ n \in 1 .. Len(ss)
        BY <1>2, <2>1, <3>2
      <4>2. g[n + 1] = g[n] \o ss[n + 1] /\ f[n + 1] = f[n] \o ss[n + 1]
        BY <1>1, <2>1, <4>1 DEF Flattens
      <4> QED
        BY <4>1, <4>2
    <3> QED
      BY <3>1, <3>2
  <2> QED
    BY <2>1
<1> HIDE DEF T
<1>6. Len(ss) \in T
  BY <1>2, <1>4, <1>5, NatInduct
<1> QED
  BY <1>2, <1>3, <1>6 DEF T

LEMMA FlattenExtends ==
  ASSUME NEW S, NEW ss \in Seq(S), ss # <<>>, NEW s \in S, NEW f, Flattens(ss, f)
  PROVE  \E g : Flattens(Append(ss, s), g) /\ g[Len(ss) + 1] = f[Len(ss)] \o s
<1> DEFINE n == Len(ss)
           g == [k \in 1 .. n + 1 |-> IF k = n + 1 THEN f[n] \o s ELSE f[k]]
<1>1. n \in Nat /\ n # 0 /\ Len(Append(ss, s)) = n + 1 /\ Append(ss, s)[n + 1] = s
      /\ \A k \in 1 .. n : Append(ss, s)[k] = ss[k]
  BY EmptySeq, LenProperties, AppendProperties
<1> HIDE DEF n
<1>2. \A k \in 1 .. n + 1 :
        g[k] = IF k = 1 THEN Append(ss, s)[k] ELSE g[k - 1] \o Append(ss, s)[k]
  <2> SUFFICES ASSUME NEW k \in 1 .. n + 1
               PROVE  g[k] = IF k = 1 THEN Append(ss, s)[k] ELSE g[k - 1] \o Append(ss, s)[k]
    OBVIOUS
  <2>1. CASE k = n + 1
    <3>1. k # 1 /\ k - 1 = n /\ n \in 1 .. n + 1 /\ n # n + 1
      BY <1>1, <2>1
    <3>2. g[k] = f[n] \o s /\ g[k - 1] = f[n]
      BY <2>1, <3>1
    <3> QED
      BY <1>1, <2>1, <3>1, <3>2
  <2>2. CASE k # n + 1
    <3>1. k \in 1 .. n /\ (k # 1 => k - 1 \in 1 .. n + 1 /\ k - 1 # n + 1)
      BY <1>1, <2>2
    <3>2. g[k] = f[k] /\ (k # 1 => g[k - 1] = f[k - 1])
      BY <2>2, <3>1
    <3>3. f[k] = IF k = 1 THEN ss[k] ELSE f[k - 1] \o ss[k]
      BY <3>1 DEF Flattens, n
    <3> QED
      BY <1>1, <3>1, <3>2, <3>3
  <2> QED
    BY <2>1, <2>2
<1>3. g[n + 1] = f[n] \o s
  BY <1>1
<1>4. Flattens(Append(ss, s), g)
  BY <1>1, <1>2, ZenonT(60) DEF Flattens
<1> QED
  BY <1>3, <1>4 DEF n

LEMMA FlattenEmpty == FlattenSeq(<<>>) = <<>>
BY EmptySeq DEF FlattenSeq

LEMMA FlattenOne ==
  ASSUME NEW s
  PROVE  Flattens(<<s>>, <<s>>) /\ FlattenSeq(<<s>>) = s
<1>1. <<s>> \in Seq({s}) /\ <<s>> # <<>> /\ Len(<<s>>) = 1 /\ <<s>>[1] = s
  OBVIOUS
<1>2. Flattens(<<s>>, <<s>>)
  BY <1>1 DEF Flattens
<1> QED
  BY <1>1, <1>2, FlattenIs

LEMMA FlattenExists ==
  ASSUME NEW S
  PROVE  \A ss \in Seq(S) : ss # <<>> => \E f : Flattens(ss, f)
<1> DEFINE T == {ss \in Seq(S) : ss # <<>> => \E f : Flattens(ss, f)}
<1>1. <<>> \in T
  BY EmptySeq
<1>2. ASSUME NEW ss \in Seq(S), NEW s \in S, ss \in T
      PROVE  Append(ss, s) \in T
  <2>1. CASE ss = <<>>
    <3>1. Append(ss, s) = <<s>>
      BY <2>1
    <3> QED
      BY <3>1, FlattenOne, AppendProperties
  <2>2. CASE ss # <<>>
    BY <1>2, <2>2, FlattenExtends, AppendProperties
  <2> QED
    BY <2>1, <2>2
<1> HIDE DEF T
<1>3. \A ss \in Seq(S) : ss \in T
  BY <1>1, <1>2, SeqInduct
<1> QED
  BY <1>3 DEF T

LEMMA FlattenAppend ==
  ASSUME NEW S, NEW ss \in Seq(Seq(S)), NEW s \in Seq(S)
  PROVE  FlattenSeq(Append(ss, s)) = FlattenSeq(ss) \o s
<1>1. CASE ss = <<>>
  <2>1. Append(ss, s) = <<s>>
    BY <1>1
  <2> QED
    BY <1>1, <2>1, FlattenEmpty, FlattenOne, ConcatEmptySeq
<1>2. CASE ss # <<>>
  <2>1. PICK f : Flattens(ss, f)
    BY <1>2, FlattenExists
  <2>2. PICK g : Flattens(Append(ss, s), g) /\ g[Len(ss) + 1] = f[Len(ss)] \o s
    BY <1>2, <2>1, FlattenExtends
  <2>3. /\ Append(ss, s) \in Seq(Seq(S)) /\ Append(ss, s) # <<>>
        /\ Len(Append(ss, s)) = Len(ss) + 1
    BY AppendProperties
  <2>4. FlattenSeq(ss) = f[Len(ss)] /\ FlattenSeq(Append(ss, s)) = g[Len(ss) + 1]
    BY <1>2, <2>1, <2>2, <2>3, FlattenIs
  <2> QED
    BY <2>2, <2>4
<1> QED
  BY <1>1, <1>2

LEMMA FlattenKinds ==
  ASSUME NEW S
  PROVE  \A ss \in Seq(Seq(S)) : FlattenSeq(ss) \in Seq(S)
<1> DEFINE T == {ss \in Seq(Seq(S)) : FlattenSeq(ss) \in Seq(S)}
<1>1. <<>> \in T
  BY EmptySeq, FlattenEmpty
<1>2. \A ss \in Seq(Seq(S)), s \in Seq(S) : ss \in T => Append(ss, s) \in T
  BY FlattenAppend, AppendProperties, ConcatProperties
<1> HIDE DEF T
<1>3. \A ss \in Seq(Seq(S)) : ss \in T
  BY <1>1, <1>2, SeqInduct
<1> QED
  BY <1>3 DEF T

-----------------------------------------------------------------------------
(***************************************************************************)
(* What the reader holds, whatever the tokens are.                         *)
(***************************************************************************)
\* The provers do not know that these are strings.
Str == STRING \cup {"file", "server", "block", "name", "words", "brace", "refused", "",
                    "location", "eol", "{", "}", ";", " ;"} \cup InLocation

AnyLine      == [name : Str, words : Seq(Str), inner : {<<>>}]
AnyLocation  == [name : {"location"}, words : Seq(Str), inner : Seq(AnyLine)]
AnyDirective == AnyLine \cup AnyLocation

State == [at : Str, blocks : Seq(Seq(AnyDirective)), block : Seq(AnyDirective),
          inside : BOOLEAN, match : Str, place : Seq(AnyLine), name : Str,
          words : Seq(Str)]

LEMMA ReaderKinds == Reader \in State /\ Reader.at = "file" /\ Reader.blocks = <<>>
BY EmptySeq DEF Reader, State, Str

LEMMA RefusedKinds ==
  ASSUME NEW s \in State
  PROVE  Refused(s) \in State /\ Refused(s).at = "refused"
BY DEF Refused, State, Str

LEMMA NamedKinds ==
  ASSUME NEW s \in State, NEW t \in Str
  PROVE  Named(s, t) \in State
<1>1. <<>> \in Seq(Str)
  BY EmptySeq
<1>2. [s EXCEPT !.at = "name", !.name = t, !.words = <<>>] \in State
  BY <1>1 DEF State, Str
<1> QED
  BY <1>2, RefusedKinds DEF Named

LEMMA EndBlockKinds ==
  ASSUME NEW s \in State
  PROVE  EndBlock(s) \in State
<1>1. Append(s.blocks, s.block) \in Seq(Seq(AnyDirective))
  BY AppendProperties DEF State, Str
<1> QED
  BY <1>1 DEF EndBlock, State, Str

LEMMA EndLocationKinds ==
  ASSUME NEW s \in State
  PROVE  EndLocation(s) \in State
<1>1. LocationWith(s.match, s.place) \in AnyDirective
  BY DEF State, LocationWith, AnyDirective, AnyLocation
<1>2. s.block \in Seq(AnyDirective)
  BY DEF State, Str
<1>3. Append(s.block, LocationWith(s.match, s.place)) \in Seq(AnyDirective)
  BY <1>1, <1>2, AppendProperties
<1> QED
  BY <1>3 DEF EndLocation, State

LEMMA DoneKinds ==
  ASSUME NEW s \in State
  PROVE  Done(s) \in State
<1> DEFINE d == Directive(s.name, s.words)
<1>1. d \in AnyLine /\ d \in AnyDirective
  BY DEF State, Directive, AnyLine, AnyDirective
<1>2. s.block \in Seq(AnyDirective) /\ s.place \in Seq(AnyLine)
  BY DEF State, Str
<1> HIDE DEF d
<1>3. Append(s.block, d) \in Seq(AnyDirective) /\ Append(s.place, d) \in Seq(AnyLine)
  BY <1>1, <1>2, AppendProperties
<1>4. /\ [s EXCEPT !.at = "block", !.place = Append(@, d)] \in State
      /\ [s EXCEPT !.at = "block", !.block = Append(@, d)] \in State
  BY <1>3 DEF State, Str
<1> QED
  BY <1>4 DEF Done, d

LEMMA AtWordsKinds ==
  ASSUME NEW s \in State, NEW t \in Str
  PROVE  AtWords(s, t) \in State
<1>1. Append(s.words, t) \in Seq(Str)
  BY AppendProperties DEF State, Str
<1>2. [s EXCEPT !.words = Append(@, t)] \in State /\ [s EXCEPT !.at = "brace", !.match = t] \in State
  BY <1>1, ZenonT(60) DEF State, Str
<1>3. Refused(s) \in State /\ Done(s) \in State
  BY RefusedKinds, DoneKinds
<1>4. CASE s.name = "location"
  BY <1>2, <1>3, <1>4 DEF AtWords, AtMatch
<1>5. CASE s.name # "location" /\ t = "eol"
  BY <1>3, <1>5 DEF AtWords
<1>6. CASE s.name # "location" /\ t \in {";", " ;"}
  BY <1>3, <1>6 DEF AtWords
<1>7. CASE s.name # "location" /\ t # "eol" /\ t \notin {";", " ;"}
  BY <1>2, <1>3, <1>7 DEF AtWords
<1> QED
  BY <1>4, <1>5, <1>6, <1>7

\* Behind the path of a location.
LEMMA AtBraceKinds ==
  ASSUME NEW s \in State, NEW t
  PROVE  AtBrace(s, t) \in State
<1> DEFINE o == [s EXCEPT !.at = "block", !.inside = TRUE, !.place = <<>>]
           n == [o EXCEPT !.at = "name", !.name = Rest(t), !.words = <<>>]
<1>1. o \in State
  BY EmptySeq DEF State, Str
<1> HIDE DEF o
<1>2. Refused(s) \in State /\ Refused(o) \in State
  BY <1>1, RefusedKinds
<1>3. CASE t = "eol"
  BY <1>2, <1>3 DEF AtBrace, Signs
<1>4. CASE t # "eol" /\ (t \in Signs \/ Rest(t) = "")
  BY <1>1, <1>4 DEF AtBrace, o
<1>5. CASE t # "eol" /\ t \notin Signs /\ Rest(t) # ""
  <2>1. AtBrace(s, t) = Named(o, Rest(t))
    BY <1>5 DEF AtBrace, o
  <2>2. o.inside
    BY DEF o, State
  <2>3. ASSUME Rest(t) \in InLocation PROVE n \in State
    <3>1. Rest(t) \in Str /\ "name" \in Str /\ <<>> \in Seq(Str)
      BY <2>3, EmptySeq DEF Str
    <3> QED
      BY <1>1, <3>1 DEF State
  <2> QED
    BY <1>2, <2>1, <2>2, <2>3 DEF Named
<1> QED
  BY <1>3, <1>4, <1>5

LEMMA ReadKinds ==
  ASSUME NEW s \in State, NEW t \in Str
  PROVE  Read(s, t) \in State
<1>1. /\ Refused(s) \in State /\ Named(s, t) \in State /\ EndBlock(s) \in State
      /\ EndLocation(s) \in State
  BY RefusedKinds, NamedKinds, EndBlockKinds, EndLocationKinds
<1>2. CASE s.at = "file"
  <2>1. [s EXCEPT !.at = "server", !.block = <<>>] \in State
    BY EmptySeq DEF State, Str
  <2> QED
    BY <1>1, <1>2, <2>1 DEF Read, AtFile
<1>3. CASE s.at = "server"
  <2>1. [s EXCEPT !.at = "block"] \in State
    BY DEF State, Str
  <2> QED
    BY <1>1, <1>3, <2>1 DEF Read, AtServer
<1>4. CASE s.at = "block"
  BY <1>1, <1>4 DEF Read, AtBlock
<1>5. CASE s.at = "name"
  <2>1. [s EXCEPT !.at = "words"] \in State
    BY DEF State, Str
  <2> QED
    BY <1>1, <1>5, <2>1, AtWordsKinds DEF Read, AtName
<1>6. CASE s.at = "words"
  BY <1>6, AtWordsKinds DEF Read
<1>7. CASE s.at = "brace"
  BY <1>7, AtBraceKinds DEF Read
<1>8. CASE s.at \notin {"file", "server", "block", "name", "words", "brace"}
  BY <1>8 DEF Read
<1> QED
  BY <1>2, <1>3, <1>4, <1>5, <1>6, <1>7, <1>8

LEMMA RunKinds ==
  ASSUME NEW s \in State
  PROVE  \A text \in Seq(Str) : Run(s, text) \in State
<1> DEFINE T == {text \in Seq(Str) : Run(s, text) \in State}
<1>1. <<>> \in T
  BY EmptySeq, RunEmpty
<1>2. \A text \in Seq(Str), t \in Str : text \in T => Append(text, t) \in T
  BY RunAppend, ReadKinds, AppendProperties
<1> HIDE DEF T
<1>3. \A text \in Seq(Str) : text \in T
  BY <1>1, <1>2, SeqInduct
<1> QED
  BY <1>3 DEF T

-----------------------------------------------------------------------------
(***************************************************************************)
(* A directive that stands on a line.                                      *)
(***************************************************************************)
Held(s, name, words) == [s EXCEPT !.at = "words", !.name = name, !.words = words]

\* The directive d may stand where s is, with its words, and what becomes of s.
Allowed(s)  == IF s.inside THEN InLocation ELSE InServer
Fits(s, d)  == d.name \in Allowed(s) /\ Complete(Held(s, d.name, d.words))
Took(s, d)  == Done(Held(s, d.name, d.words))

LEMMA WordKinds ==
  ASSUME NEW w \in Word
  PROVE  /\ w \in Str /\ w \notin Signs /\ w # "eol"
         /\ w # "{" /\ w # "}" /\ w # ";" /\ w # " ;"
BY DEF Word, Signs, Str

LEMMA TakenAreWords ==
  /\ DOMAIN Takes = SingleDirectives \cup {"listen", "location"}
  /\ \A name \in DOMAIN Takes : Takes[name] \subseteq Word
BY TakesAssumption

LEMMA NamesAreKnown ==
  /\ "location" \notin InLocation /\ "location" \notin SingleDirectives
  /\ "location" \notin ListDirectives
  /\ SingleDirectives \subseteq InServer /\ SingleDirectives \subseteq InLocation
BY DEF InLocation, InServer, SingleDirectives, ListDirectives

\* The words of a directive behind its name, if there are any.
LEMMA WordsAreRead ==
  ASSUME NEW s \in State, NEW name \in Str, name # "location",
         NEW r \in State, r.at \in {"name", "words"}, Held(r, name, <<>>) = Held(s, name, <<>>),
         r.name = name, r.words = <<>>
  PROVE  \A ws \in Seq(Word) : ws # <<>> =>
           IF name \in SingleDirectives /\ Len(ws) > 1
           THEN Run(r, ws).at = "refused"
           ELSE Run(r, ws) = Held(s, name, ws)
<1> DEFINE T == {ws \in Seq(Word) : ws # <<>> =>
                   IF name \in SingleDirectives /\ Len(ws) > 1
                   THEN Run(r, ws).at = "refused"
                   ELSE Run(r, ws) = Held(s, name, ws)}
<1>1. <<>> \in T
  BY EmptySeq
<1>2. ASSUME NEW ws \in Seq(Word), NEW w \in Word, ws \in T
      PROVE  Append(ws, w) \in T
  <2>1. Append(ws, w) \in Seq(Word) /\ Len(Append(ws, w)) = Len(ws) + 1 /\ Len(ws) \in Nat
    BY AppendProperties, LenProperties
  <2>2. w # "eol" /\ w # ";" /\ w # " ;" /\ w \in Str
    BY WordKinds
  <2>3. CASE ws = <<>>
    <3>1. Append(ws, w) = <<w>> /\ Len(<<w>>) = 1
      BY <2>3
    <3>2. Run(r, <<w>>) = Read(r, w)
      BY RunOne
    <3>3. Read(r, w) = AtWords([r EXCEPT !.at = "words"], w)
      <4>1. CASE r.at = "name"
        BY <2>2, <4>1 DEF Read, AtName
      <4>2. CASE r.at = "words"
        <5>1. [r EXCEPT !.at = "words"] = r
          BY <4>2 DEF State, Str
        <5> QED
          BY <4>2, <5>1 DEF Read
      <4> QED
        BY <4>1, <4>2
    <3>4. [r EXCEPT !.at = "words"] = Held(s, name, <<>>)
      BY DEF Held, State
    <3>5. AtWords(Held(s, name, <<>>), w) = Held(s, name, <<w>>)
      <4> DEFINE h == Held(s, name, <<>>)
      <4>1. h.name = name /\ h.words = <<>>
        BY DEF Held, State
      <4>2. \A v : [h EXCEPT !.words = v] = Held(s, name, v)
        BY DEF Held, State
      <4> HIDE DEF h
      <4>3. Append(h.words, w) = <<w>>
        BY <4>1, AppendToNone, Zenon
      <4> QED
        BY <2>2, <4>1, <4>2, <4>3 DEF AtWords, h
    <3> QED
      BY <2>1, <3>1, <3>2, <3>3, <3>4, <3>5
  <2>4. CASE ws # <<>>
    <3>1. Run(r, Append(ws, w)) = Read(Run(r, ws), w)
      BY RunAppend
    <3>2. Len(ws) # 0
      BY <2>4, EmptySeq
    <3>3. CASE name \in SingleDirectives /\ Len(ws) > 1
      <4>1. Run(r, ws).at = "refused"
        BY <1>2, <2>4, <3>3
      <4>2. Read(Run(r, ws), w) = Run(r, ws)
        BY <4>1 DEF Read
      <4> QED
        BY <2>1, <3>1, <3>3, <4>1, <4>2
    <3>4. CASE ~ (name \in SingleDirectives /\ Len(ws) > 1)
      <4> DEFINE h == Held(s, name, ws)
      <4>1. Run(r, ws) = h
        BY <1>2, <2>4, <3>4
      <4>2. h.at = "words" /\ h.name = name /\ h.words = ws /\ h.words # <<>>
        BY <2>4 DEF Held, State
      <4>3. [h EXCEPT !.words = Append(@, w)] = Held(s, name, Append(ws, w))
        BY DEF Held, State
      <4>4. Refused(h).at = "refused"
        BY DEF Refused, Held, State
      <4> HIDE DEF h
      <4>5. Read(h, w) = IF name \in SingleDirectives THEN Refused(h)
                         ELSE Held(s, name, Append(ws, w))
        BY <2>2, <4>2, <4>3 DEF Read, AtWords
      <4>6. name \in SingleDirectives => Len(Append(ws, w)) > 1
        BY <2>1, <3>2
      <4> QED
        BY <2>1, <3>1, <4>1, <4>4, <4>5, <4>6
    <3> QED
      BY <3>3, <3>4
  <2> QED
    BY <2>3, <2>4
<1> HIDE DEF T
<1>3. \A ws \in Seq(Word) : ws \in T
  BY <1>1, <1>2, SeqInduct
<1> QED
  BY <1>3 DEF T

\* Texts in several parts.
LEMMA RunThree ==
  ASSUME NEW S, NEW s, NEW a \in Seq(S), NEW b \in Seq(S), NEW c \in Seq(S)
  PROVE  Run(s, a \o b \o c) = Run(Run(Run(s, a), b), c)
<1> DEFINE ab == a \o b
<1>1. ab \in Seq(S) /\ Run(s, ab) = Run(Run(s, a), b)
  BY ConcatProperties, RunConcat
<1> HIDE DEF ab
<1>2. Run(s, ab \o c) = Run(Run(s, ab), c)
  BY <1>1, RunConcat
<1> QED
  BY <1>1, <1>2 DEF ab

LEMMA RunFive ==
  ASSUME NEW S, NEW s, NEW a \in Seq(S), NEW b \in Seq(S), NEW c \in Seq(S),
         NEW d \in Seq(S), NEW e \in Seq(S)
  PROVE  Run(s, a \o b \o c \o d \o e) = Run(Run(Run(Run(Run(s, a), b), c), d), e)
<1> DEFINE abc == a \o b \o c
<1>1. abc \in Seq(S) /\ Run(s, abc) = Run(Run(Run(s, a), b), c)
  BY ConcatProperties, RunThree
<1> HIDE DEF abc
<1>2. Run(s, abc \o d \o e) = Run(Run(Run(s, abc), d), e)
  BY <1>1, RunThree
<1> QED
  BY <1>1, <1>2 DEF abc

LEMMA TokenKinds ==
  /\ \A t \in Str : <<t>> \in Seq(Str)
  /\ \A layout : Hard(layout) \in Seq(Str) /\ Soft(layout) \in Seq(Str)
  /\ Seq(Word) \subseteq Seq(Str)
  /\ {"server", "location", "{", "}", ";", " ;", "eol"} \subseteq Str
<1>1. {"server", "location", "{", "}", ";", " ;", "eol"} \subseteq Str
  BY DEF Str
<1>2. \A t \in Str : <<t>> \in Seq(Str)
  OBVIOUS
<1>3. <<"eol">> \in Seq(Str) /\ <<>> \in Seq(Str)
  BY <1>1, <1>2, EmptySeq
<1>4. \A layout : Hard(layout) \in Seq(Str) /\ Soft(layout) \in Seq(Str)
  BY <1>3 DEF Hard, Soft
<1>5. Word \subseteq Str
  BY DEF Word, Str
<1>6. Seq(Word) \subseteq Seq(Str)
  BY <1>5, SeqMonotonic
<1> QED
  BY <1>1, <1>2, <1>4, <1>6

\* A line's end behind a directive or a brace, and behind a refusal.
LEMMA HardIsRead ==
  ASSUME NEW s, s.at \in {"block", "file", "refused"}, NEW layout
  PROVE  Run(s, Hard(layout)) = s
<1>1. Run(s, <<>>) = s
  BY RunEmpty
<1>2. Run(s, <<"eol">>) = Read(s, "eol")
  BY RunOne
<1>3. Read(s, "eol") = s
  BY DEF Read, AtBlock, AtFile
<1> QED
  BY <1>1, <1>2, <1>3 DEF Hard

\* Behind the name of a directive, a line's end in between or not.
Fresh(s, name) == [s EXCEPT !.at = "name", !.name = name, !.words = <<>>]

LEMMA SoftIsRead ==
  ASSUME NEW s \in State, NEW name \in Str, NEW layout
  PROVE  LET r == Run(Fresh(s, name), Soft(layout)) IN
         /\ r \in State /\ r.at \in {"name", "words"} /\ r.name = name /\ r.words = <<>>
         /\ Held(r, name, <<>>) = Held(s, name, <<>>)
<1> DEFINE f == Fresh(s, name)
           h == Held(s, name, <<>>)
<1>1. /\ f \in State /\ f.at = "name" /\ f.name = name /\ f.words = <<>>
      /\ Held(f, name, <<>>) = h /\ [f EXCEPT !.at = "words"] = h
  BY EmptySeq DEF Fresh, Held, State, Str
<1>2. /\ h \in State /\ h.at = "words" /\ h.name = name /\ h.words = <<>>
      /\ Held(h, name, <<>>) = h
  BY EmptySeq DEF Held, State, Str
<1> HIDE DEF f, h
<1>3. Run(f, <<>>) = f
  BY RunEmpty
<1>4. Run(f, <<"eol">>) = h
  <2>1. Run(f, <<"eol">>) = Read(f, "eol")
    BY RunOne
  <2>2. Read(f, "eol") = AtWords(h, "eol")
    BY <1>1 DEF Read, AtName
  <2>3. AtWords(h, "eol") = h
    <3>1. "eol" \notin Takes["location"]
      BY TakenAreWords, WordKinds
    <3>2. CASE h.name = "location"
      BY <3>1, <3>2 DEF AtWords, AtMatch
    <3>3. CASE h.name # "location"
      BY <1>2, <3>3 DEF AtWords
    <3> QED
      BY <3>2, <3>3
  <2> QED
    BY <2>1, <2>2, <2>3
<1>5. Run(f, Soft(layout)) \in {f, h}
  BY <1>3, <1>4 DEF Soft
<1> QED
  BY <1>1, <1>2, <1>5 DEF f, h

\* The semicolon.
EndSign(words) == IF words = <<>> THEN " ;" ELSE ";"

LEMMA EndIsRead ==
  ASSUME NEW s \in State, NEW name \in Str, name # "location", NEW ws \in Seq(Word),
         NEW r \in State, r.name = name, r.words = ws,
         r.at = "words" \/ (r.at = "name" /\ ws = <<>>),
         Held(r, name, ws) = Held(s, name, ws)
  PROVE  IF Complete(Held(s, name, ws)) THEN Run(r, <<EndSign(ws)>>) = Done(Held(s, name, ws))
                                        ELSE Run(r, <<EndSign(ws)>>).at = "refused"
<1> DEFINE h == Held(s, name, ws)
           sign == EndSign(ws)
<1>1. h \in State /\ h.name = name /\ h.words = ws
  BY TokenKinds, ZenonT(60) DEF Held, State, Str
<1>2. [r EXCEPT !.at = "words"] = h
  <2>1. [r EXCEPT !.at = "words"] = Held(r, name, ws)
    BY DEF Held, State
  <2> QED
    BY <2>1
<1>0. r.at = "words" => r = h
  <2>1. r.at = "words" => [r EXCEPT !.at = "words"] = r
    BY DEF State
  <2> QED
    BY <1>2, <2>1
<1>3. Refused(h).at = "refused"
  BY <1>1, RefusedKinds
<1>4. Complete(h) /\ name \in SingleDirectives => sign = ";"
  <2>1. name \in SingleDirectives => name \notin ListDirectives
    BY DEF SingleDirectives, ListDirectives
  <2>2. Complete(h) /\ name \in SingleDirectives => Len(ws) = 1
    BY <1>1, <2>1 DEF Complete, SingleDirectives, ListDirectives
  <2>3. Len(ws) = 1 => ws # <<>>
    BY Lengths, Zenon
  <2>4. ws # <<>> => sign = ";"
    BY DEF EndSign
  <2> HIDE DEF h, sign
  <2> QED
    BY <2>2, <2>3, <2>4, Zenon
<1>5. sign \in {";", " ;"} /\ (ws = <<>> => sign = " ;")
  BY DEF EndSign
<1>6. Run(r, <<sign>>) = Read(r, sign)
  BY RunOne
<1> HIDE DEF h, sign
<1>7. Read(r, sign) = AtWords(h, sign)
  <2>1. CASE r.at = "words"
    BY <1>0, <2>1 DEF Read
  <2>2. CASE r.at = "name" /\ ws = <<>>
    BY <1>2, <1>5, <2>2 DEF Read, AtName
  <2> QED
    BY <2>1, <2>2
<1>8. AtWords(h, sign) = IF Complete(h) /\ (name \in SingleDirectives => sign = ";")
                         THEN Done(h) ELSE Refused(h)
  BY <1>1, <1>5 DEF AtWords
<1>9. IF Complete(h) THEN Run(r, <<sign>>) = Done(h) ELSE Run(r, <<sign>>).at = "refused"
  BY <1>3, <1>4, <1>6, <1>7, <1>8
<1> QED
  BY <1>9 DEF h, sign

LEMMA NameIsRead ==
  ASSUME NEW s \in State, s.at = "block", NEW w \in Word
  PROVE  IF w \in Allowed(s) THEN Run(s, <<w>>) = Fresh(s, w)
                             ELSE Run(s, <<w>>).at = "refused"
<1>1. w # "eol" /\ w # "}"
  BY WordKinds
<1>2. Run(s, <<w>>) = Named(s, w)
  BY <1>1, RunOne DEF Read, AtBlock
<1> QED
  BY <1>2, RefusedKinds DEF Named, Allowed, Fresh

LEMMA LineKinds ==
  ASSUME NEW d \in LineDirective, NEW layout
  PROVE  /\ PrintedLine(d, layout) \in Seq(Str)
         /\ d.name \in Word /\ d.name \in Str /\ d.words \in Seq(Word)
         /\ <<d.name>> \in Seq(Str) /\ Soft(layout) \in Seq(Str) /\ d.words \in Seq(Str)
         /\ <<EndSign(d.words)>> \in Seq(Str) /\ Hard(layout) \in Seq(Str)
<1>1. d.name \in Word /\ d.name \in Str /\ d.words \in Seq(Word) /\ EndSign(d.words) \in Str
  BY WordKinds, TokenKinds DEF LineDirective, EndSign, Word, Str
<1>2. /\ <<d.name>> \in Seq(Str) /\ Soft(layout) \in Seq(Str) /\ d.words \in Seq(Str)
      /\ <<EndSign(d.words)>> \in Seq(Str) /\ Hard(layout) \in Seq(Str)
  BY <1>1, TokenKinds
<1>3. <<d.name>> \o Soft(layout) \o d.words \o <<EndSign(d.words)>> \o Hard(layout) \in Seq(Str)
  BY <1>2, ConcatProperties
<1> QED
  BY <1>1, <1>2, <1>3 DEF PrintedLine, EndSign

LEMMA LineRun ==
  ASSUME NEW s, NEW d \in LineDirective, NEW layout
  PROVE  Run(s, PrintedLine(d, layout))
           = Run(Run(Run(Run(Run(s, <<d.name>>), Soft(layout)), d.words),
                     <<EndSign(d.words)>>), Hard(layout))
<1> DEFINE x == <<d.name>>
           y == Soft(layout)
           z == d.words
           u == <<EndSign(d.words)>>
           v == Hard(layout)
<1>1. PrintedLine(d, layout) = x \o y \o z \o u \o v
  BY DEF PrintedLine, EndSign
<1>2. /\ x \in Seq(Str) /\ y \in Seq(Str) /\ z \in Seq(Str)
      /\ u \in Seq(Str) /\ v \in Seq(Str)
  BY LineKinds
<1> HIDE DEF x, y, z, u, v
<1>3. Run(s, x \o y \o z \o u \o v) = Run(Run(Run(Run(Run(s, x), y), z), u), v)
  BY <1>2, RunFive
<1> QED
  BY <1>1, <1>3 DEF x, y, z, u, v

\* A line up to its semicolon.
LEMMA WordsOfLine ==
  ASSUME NEW s \in State, s.at = "block", NEW d \in LineDirective, NEW layout,
         d.name = "location" => s.inside
  PROVE  LET c == Run(Run(Run(s, <<d.name>>), Soft(layout)), d.words) IN
         IF d.name \in Allowed(s) /\ ~ (d.name \in SingleDirectives /\ Len(d.words) > 1)
         THEN /\ c \in State /\ c.name = d.name /\ c.words = d.words
              /\ c.at = "words" \/ (c.at = "name" /\ d.words = <<>>)
              /\ Held(c, d.name, d.words) = Held(s, d.name, d.words)
         ELSE c.at = "refused"
<1> DEFINE a == Run(s, <<d.name>>)
           b == Run(a, Soft(layout))
           c == Run(b, d.words)
           h == Held(s, d.name, d.words)
           Goal(r) ==
             IF d.name \in Allowed(s) /\ ~ (d.name \in SingleDirectives /\ Len(d.words) > 1)
             THEN /\ r \in State /\ r.name = d.name /\ r.words = d.words
                  /\ r.at = "words" \/ (r.at = "name" /\ d.words = <<>>)
                  /\ Held(r, d.name, d.words) = h
             ELSE r.at = "refused"
<1> SUFFICES Goal(c)
  OBVIOUS
<1>1. \A text \in Seq(Str) : \A r : r.at = "refused" => Run(r, text) = r
  BY RunRefused
<1>2. /\ Soft(layout) \in Seq(Str) /\ d.words \in Seq(Str) /\ d.words \in Seq(Word)
      /\ d.name \in Word /\ d.name \in Str
  BY LineKinds
<1>3. IF d.name \in Allowed(s) THEN a = Fresh(s, d.name) ELSE a.at = "refused"
  BY <1>2, NameIsRead
<1>4. d.name \in Allowed(s) => d.name # "location"
  BY NamesAreKnown DEF Allowed
<1>5. CASE d.name \notin Allowed(s)
  <2> HIDE DEF a
  <2>1. b = a /\ c = a
    BY <1>1, <1>2, <1>3, <1>5
  <2> QED
    BY <1>3, <1>5, <2>1
<1>6. CASE d.name \in Allowed(s)
  <2>1. /\ b \in State /\ b.at \in {"name", "words"} /\ b.name = d.name /\ b.words = <<>>
        /\ Held(b, d.name, <<>>) = Held(s, d.name, <<>>)
    BY <1>2, <1>3, <1>6, SoftIsRead
  <2> HIDE DEF b
  <2>2. CASE d.name \in SingleDirectives /\ Len(d.words) > 1
    <3>1. d.words # <<>>
      BY <2>2, EmptySeq
    <3> QED
      BY <1>2, <1>4, <1>6, <2>1, <2>2, <3>1, WordsAreRead
  <2>3. CASE ~ (d.name \in SingleDirectives /\ Len(d.words) > 1)
    <3>1. CASE d.words = <<>>
      <4>1. c = b
        BY <3>1, RunEmpty
      <4> QED
        BY <1>6, <2>1, <2>3, <3>1, <4>1
    <3>2. CASE d.words # <<>>
      <4>1. c = h
        BY <1>2, <1>4, <1>6, <2>1, <2>3, <3>2, WordsAreRead
      <4>2. h \in State /\ h.name = d.name /\ h.words = d.words /\ h.at = "words"
            /\ Held(h, d.name, d.words) = h
        BY <1>2 DEF Held, State, Str
      <4> QED
        BY <1>6, <2>3, <4>1, <4>2
    <3> QED
      BY <3>1, <3>2
  <2> QED
    BY <2>2, <2>3
<1> QED
  BY <1>5, <1>6

\* A line is read as a directive, or refused.
LEMMA LineIsRead ==
  ASSUME NEW s \in State, s.at = "block", NEW d \in LineDirective, NEW layout,
         d.name = "location" => s.inside
  PROVE  IF Fits(s, d) THEN Run(s, PrintedLine(d, layout)) = Took(s, d)
                       ELSE Run(s, PrintedLine(d, layout)).at = "refused"
<1> DEFINE c == Run(Run(Run(s, <<d.name>>), Soft(layout)), d.words)
           e == Run(c, <<EndSign(d.words)>>)
           h == Held(s, d.name, d.words)
           Whole == d.name \in Allowed(s) /\ ~ (d.name \in SingleDirectives /\ Len(d.words) > 1)
<1>1. Run(s, PrintedLine(d, layout)) = Run(e, Hard(layout))
  BY LineRun
<1>2. /\ d.words \in Seq(Str) /\ d.words \in Seq(Word) /\ d.name \in Str
      /\ <<EndSign(d.words)>> \in Seq(Str) /\ Hard(layout) \in Seq(Str)
  BY LineKinds
<1>3. IF Whole
      THEN /\ c \in State /\ c.name = d.name /\ c.words = d.words
           /\ c.at = "words" \/ (c.at = "name" /\ d.words = <<>>)
           /\ Held(c, d.name, d.words) = h
      ELSE c.at = "refused"
  BY WordsOfLine
<1>4. h \in State /\ h.name = d.name /\ h.words = d.words
  BY <1>2 DEF Held, State, Str
<1> HIDE DEF c
<1>5. CASE ~ Whole
  <2>1. e = c /\ Run(e, Hard(layout)) = c
    BY <1>2, <1>3, <1>5, RunRefused
  <2>2. ~ Fits(s, d)
    <3>1. CASE d.name \notin Allowed(s)
      BY <3>1 DEF Fits
    <3>2. CASE d.name \in SingleDirectives /\ Len(d.words) > 1
      <4>1. d.name \notin ListDirectives
        BY <3>2 DEF SingleDirectives, ListDirectives
      <4>2. Len(d.words) # 1
        BY <1>2, <3>2, Lengths, Zenon
      <4>3. ~ Complete(h)
        <5> HIDE DEF h
        <5> QED
          BY <1>4, <3>2, <4>1, <4>2 DEF Complete, SingleDirectives, ListDirectives
      <4> QED
        BY <4>3 DEF Fits
    <3> QED
      BY <1>5, <3>1, <3>2
  <2> QED
    BY <1>1, <1>3, <1>5, <2>1, <2>2
<1>6. CASE Whole
  <2>1. d.name # "location"
    BY <1>6, NamesAreKnown DEF Allowed
  <2>2. IF Complete(h) THEN e = Done(h) ELSE e.at = "refused"
    BY <1>2, <1>3, <1>6, <2>1, EndIsRead
  <2>3. Done(h).at = "block"
    BY <1>4 DEF Done, State
  <2>4. Run(e, Hard(layout)) = e
    BY <2>2, <2>3, HardIsRead
  <2> QED
    BY <1>1, <1>6, <2>2, <2>4 DEF Fits, Took
<1> QED
  BY <1>5, <1>6

-----------------------------------------------------------------------------
(***************************************************************************)
(* What may stand behind the directives ds, as the reader decides it and   *)
(* as WellFormed has it.                                                   *)
(***************************************************************************)
Enough(ds, d) ==
  LET n == Len(d.words) IN
  CASE d.name \in ListDirectives   -> n > 0 \/ \E e \in ToSet(ds) : e.name = d.name
    [] d.name \in SingleDirectives -> n = 1 /\ d.words[1] \in Takes[d.name]
    [] d.name = "listen"           -> HasPorts(d.words)
    [] d.name = "error_page"       -> n > 1
    [] d.name = "return"           -> n \in {1, 2}
    [] OTHER                       -> TRUE

LEMMA CompleteIsEnough ==
  ASSUME NEW s \in State, NEW d \in LineDirective
  PROVE  Complete(Held(s, d.name, d.words)) <=> Enough(IF s.inside THEN s.place ELSE s.block, d)
<1> DEFINE h == Held(s, d.name, d.words)
<1>1. /\ h.name = d.name /\ h.words = d.words /\ h.inside = s.inside
      /\ h.place = s.place /\ h.block = s.block
  BY DEF Held, State
<1> HIDE DEF h
<1>2. (IF h.inside THEN h.place ELSE h.block) = IF s.inside THEN s.place ELSE s.block
  BY <1>1
<1>3. Complete(h) <=> Enough(IF s.inside THEN s.place ELSE s.block, d)
  BY <1>1, <1>2 DEF Complete, Enough
<1> QED
  BY <1>3 DEF h

LEMMA PrefixIsWellFormed ==
  ASSUME NEW S, NEW ds \in Seq(S), NEW d \in S, NEW i \in DOMAIN ds, NEW allowed
  PROVE  WellFormed(Append(ds, d), i, allowed) <=> WellFormed(ds, i, allowed)
<1>1. /\ Len(ds) \in Nat /\ i \in 1 .. Len(ds)
      /\ \A j \in 1 .. i : Append(ds, d)[j] = ds[j]
  BY LenProperties, AppendProperties
<1>2. Append(ds, d)[i] = ds[i]
  BY <1>1
<1> DEFINE a == Append(ds, d)
<1>3. a[i] = ds[i] /\ \A j \in 1 .. i : a[j] = ds[j]
  BY <1>1, <1>2
<1> HIDE DEF a
<1>4. WellFormed(a, i, allowed) <=> WellFormed(ds, i, allowed)
  BY <1>3 DEF WellFormed
<1> QED
  BY <1>4 DEF a

\* A list directive without words has an earlier one with words.
LEMMA ListBegins ==
  ASSUME NEW S, NEW ds \in Seq(S), NEW allowed, NEW name \in ListDirectives,
         \A i \in DOMAIN ds : WellFormed(ds, i, allowed)
  PROVE  (\E e \in ToSet(ds) : e.name = name)
           <=> \E j \in 1 .. Len(ds) : ds[j].name = name /\ ds[j].words # <<>>
<1>1. Len(ds) \in Nat /\ DOMAIN ds = 1 .. Len(ds)
  BY LenProperties
<1>2. ASSUME NEW e \in ToSet(ds), e.name = name
      PROVE  \E j \in 1 .. Len(ds) : ds[j].name = name /\ ds[j].words # <<>>
  <2>1. PICK i \in DOMAIN ds : ds[i] = e
    BY <1>1 DEF ToSet
  <2>2. \E j \in 1 .. i : ds[j].name = ds[i].name /\ ds[j].words # <<>>
    BY <1>2, <2>1 DEF WellFormed
  <2> QED
    BY <1>1, <1>2, <2>1, <2>2
<1>3. ASSUME NEW j \in 1 .. Len(ds), ds[j].name = name
      PROVE  \E e \in ToSet(ds) : e.name = name
  BY <1>1, <1>3 DEF ToSet
<1> QED
  BY <1>2, <1>3

\* The word of a directive that has just one.
LEMMA OnlyWord ==
  ASSUME NEW words \in Seq(Word), Len(words) = 1
  PROVE  ToSet(words) = {words[1]}
<1>1. DOMAIN words = 1 .. 1
  BY LenProperties
<1>2. DOMAIN words = {1}
  BY <1>1
<1> QED
  BY <1>2 DEF ToSet

LEMMA EnoughIsWellFormed ==
  ASSUME NEW S, NEW ds \in Seq(S), NEW d \in S, NEW allowed,
         \A i \in DOMAIN ds : WellFormed(ds, i, allowed),
         d.words \in Seq(Word), d.name # "location"
  PROVE  WellFormed(Append(ds, d), Len(ds) + 1, allowed) <=> d.name \in allowed /\ Enough(ds, d)
<1> DEFINE a == Append(ds, d)
           n == Len(ds)
           w == Len(d.words)
<1>1. /\ n \in Nat /\ a[n + 1] = d /\ \A j \in 1 .. n : a[j] = ds[j]
      /\ w \in Nat /\ (d.words = <<>> <=> w = 0)
  BY LenProperties, AppendProperties, Lengths
<1> HIDE DEF a, n, w
<1>2. CASE d.name \in ListDirectives
  <2>1. /\ d.name \notin SingleDirectives \cup {"location", "listen"}
        /\ d.name # "error_page" /\ d.name # "return" /\ d.name \notin DOMAIN Takes
    BY <1>2, TakenAreWords DEF ListDirectives, SingleDirectives
  <2>2. WellFormed(a, n + 1, allowed)
          <=> d.name \in allowed /\ \E j \in 1 .. n + 1 : a[j].name = d.name /\ a[j].words # <<>>
    BY <1>1, <1>2, <2>1 DEF WellFormed
  <2>3. (\E j \in 1 .. n + 1 : a[j].name = d.name /\ a[j].words # <<>>)
          <=> d.words # <<>> \/ \E j \in 1 .. n : ds[j].name = d.name /\ ds[j].words # <<>>
    <3>1. \A j \in 1 .. n + 1 : j = n + 1 \/ j \in 1 .. n
      BY <1>1
    <3>2. n + 1 \in 1 .. n + 1 /\ 1 .. n \subseteq 1 .. n + 1
      BY <1>1
    <3> QED
      BY <1>1, <3>1, <3>2
  <2>4. (\E e \in ToSet(ds) : e.name = d.name)
           <=> \E j \in 1 .. n : ds[j].name = d.name /\ ds[j].words # <<>>
    BY <1>2, ListBegins DEF n
  <2>5. Enough(ds, d) <=> w > 0 \/ \E e \in ToSet(ds) : e.name = d.name
    BY <1>2, <2>1 DEF Enough, w
  <2>6. w > 0 <=> d.words # <<>>
    BY <1>1
  <2> QED
    BY <2>2, <2>3, <2>4, <2>5, <2>6 DEF a, n
<1>3. CASE d.name \notin ListDirectives
  <2>1. WellFormed(a, n + 1, allowed) <=>
          /\ d.name \in allowed
          /\ d.name \in SingleDirectives => w = 1
          /\ d.name \in DOMAIN Takes => ToSet(d.words) \subseteq Takes[d.name]
          /\ d.name = "error_page" => w >= 2
          /\ d.name = "return" => w = 1 \/ w = 2
    BY <1>1, <1>3 DEF WellFormed, w
  <2>2. w > 1 <=> w >= 2
    BY <1>1
  <2>3. d.name \in DOMAIN Takes <=> d.name \in SingleDirectives \/ d.name = "listen"
    BY TakenAreWords
  <2>4. w = 1 => ToSet(d.words) = {d.words[1]}
    BY OnlyWord DEF w
  <2>5. d.name \in SingleDirectives => d.name \notin {"listen", "error_page", "return"}
    BY DEF SingleDirectives
  <2>6. Enough(ds, d) <=>
          /\ d.name \in SingleDirectives => w = 1 /\ d.words[1] \in Takes[d.name]
          /\ d.name = "listen" => ToSet(d.words) \subseteq Takes["listen"]
          /\ d.name = "error_page" => w > 1
          /\ d.name = "return" => w = 1 \/ w = 2
    BY <1>3, <2>5 DEF Enough, HasPorts, w
  <2> HIDE DEF a, n, w
  <2>7. (d.name \in SingleDirectives => w = 1 /\ d.words[1] \in Takes[d.name])
          <=> (d.name \in SingleDirectives
                 => w = 1 /\ ToSet(d.words) \subseteq Takes[d.name])
    BY <2>4
  <2> QED
    BY <2>1, <2>2, <2>3, <2>5, <2>6, <2>7 DEF a, n
<1> QED
  BY <1>2, <1>3

-----------------------------------------------------------------------------
(***************************************************************************)
(* What is flattened is a map of a sequence.                               *)
(***************************************************************************)
Mapped(F, ds) == [i \in DOMAIN ds |-> F[ds[i]]]

LEMMA MapKinds ==
  ASSUME NEW S, NEW R, NEW F \in [S -> R]
  PROVE  \A ds \in Seq(S) : Mapped(F, ds) \in Seq(R)
<1> SUFFICES ASSUME NEW ds \in Seq(S) PROVE Mapped(F, ds) \in Seq(R)
  OBVIOUS
<1>1. DOMAIN ds = 1 .. Len(ds) /\ Len(ds) \in Nat /\ \A i \in DOMAIN ds : ds[i] \in S
  BY LenProperties, ElementOfSeq
<1> QED
  BY <1>1 DEF Mapped

LEMMA MapAppends ==
  ASSUME NEW S, NEW F, NEW ds \in Seq(S), NEW d \in S
  PROVE  Mapped(F, Append(ds, d)) = Append(Mapped(F, ds), F[d])
<1> DEFINE R == {F[x] : x \in S}
           a == Append(ds, d)
           p == Mapped(F, ds)
           q == Mapped(F, a)
           n == Len(ds)
<1>1. /\ a \in Seq(S) /\ Len(a) = n + 1 /\ a[n + 1] = d
      /\ \A i \in 1 .. n : a[i] = ds[i]
      /\ n \in Nat /\ DOMAIN ds = 1 .. n /\ DOMAIN a = 1 .. n + 1
      /\ \A i \in 1 .. n : ds[i] \in S
  BY AppendProperties, LenProperties, ElementOfSeq
<1>2. F[d] \in R /\ \A i \in 1 .. n : F[ds[i]] \in R
  BY <1>1
<1> HIDE DEF R
<1>3. p \in Seq(R) /\ Len(p) = n /\ \A i \in 1 .. n : p[i] = F[ds[i]]
  BY <1>1, <1>2 DEF Mapped
<1>4. /\ \A i \in 1 .. n + 1 : q[i] = F[a[i]]
      /\ DOMAIN q = 1 .. n + 1 /\ q = [i \in 1 .. n + 1 |-> F[a[i]]]
  BY <1>1 DEF Mapped
<1> HIDE DEF a, p, q, n
<1>5. /\ Append(p, F[d]) \in Seq(R) /\ Len(Append(p, F[d])) = n + 1
      /\ \A i \in 1 .. n : Append(p, F[d])[i] = p[i]
      /\ Append(p, F[d])[n + 1] = F[d]
  BY <1>2, <1>3, AppendProperties
<1>6. \A i \in 1 .. n + 1 : q[i] = Append(p, F[d])[i]
  <2> SUFFICES ASSUME NEW i \in 1 .. n + 1 PROVE q[i] = Append(p, F[d])[i]
    OBVIOUS
  <2>1. CASE i = n + 1
    BY <1>1, <1>4, <1>5, <2>1
  <2>2. CASE i \in 1 .. n
    BY <1>1, <1>3, <1>4, <1>5, <2>2
  <2> QED
    BY <1>1, <2>1, <2>2, LastOrNot
<1>7. q \in Seq(R) /\ Len(q) = n + 1
  <2>1. \A i \in 1 .. n + 1 : F[a[i]] \in R
    BY <1>1, <1>2, LastOrNot
  <2> QED
    BY <1>1, <1>4, <2>1
<1>8. q = Append(p, F[d])
  BY <1>5, <1>6, <1>7, SeqEqual
<1> QED
  BY <1>8 DEF a, p, q

LEMMA MapFlattens ==
  ASSUME NEW S, NEW X, NEW F \in [S -> Seq(X)]
  PROVE  /\ FlattenSeq(Mapped(F, <<>>)) = <<>>
         /\ \A ds \in Seq(S) :
              /\ FlattenSeq(Mapped(F, ds)) \in Seq(X)
              /\ \A d \in S : FlattenSeq(Mapped(F, Append(ds, d)))
                                = FlattenSeq(Mapped(F, ds)) \o F[d]
<1>1. Mapped(F, <<>>) = <<>>
  BY DEF Mapped
<1> DEFINE T == {ds \in Seq(S) : Mapped(F, ds) \in Seq(Seq(X))}
<1>2. <<>> \in T
  BY <1>1, EmptySeq
<1>3. \A ds \in Seq(S), d \in S : ds \in T => Append(ds, d) \in T
  BY MapKinds, AppendProperties
<1> HIDE DEF T
<1>4. \A ds \in Seq(S) : ds \in T
  BY <1>2, <1>3, SeqInduct
<1>5. ASSUME NEW ds \in Seq(S), NEW d \in S
      PROVE  FlattenSeq(Mapped(F, Append(ds, d))) = FlattenSeq(Mapped(F, ds)) \o F[d]
  <2>1. Mapped(F, ds) \in Seq(Seq(X)) /\ F[d] \in Seq(X)
    BY <1>4 DEF T
  <2>2. Mapped(F, Append(ds, d)) = Append(Mapped(F, ds), F[d])
    BY <1>5, MapAppends
  <2> QED
    BY <2>1, <2>2, FlattenAppend
<1>6. \A ds \in Seq(S) : FlattenSeq(Mapped(F, ds)) \in Seq(X)
  BY <1>4, FlattenKinds DEF T
<1> QED
  BY <1>1, <1>5, <1>6, FlattenEmpty

-----------------------------------------------------------------------------
(***************************************************************************)
(* The directives of a location.                                           *)
(***************************************************************************)
LEMMA LinesPrinted ==
  ASSUME NEW layout
  PROVE  /\ PrintedLines(<<>>, layout) = <<>>
         /\ \A ds \in Seq(LineDirective) :
              /\ PrintedLines(ds, layout) \in Seq(Str)
              /\ \A d \in LineDirective :
                   PrintedLines(Append(ds, d), layout)
                     = PrintedLines(ds, layout) \o PrintedLine(d, layout)
<1> DEFINE F == [d \in LineDirective |-> PrintedLine(d, layout)]
<1>1. F \in [LineDirective -> Seq(Str)]
  BY LineKinds
<1>2. \A ds \in Seq(LineDirective) : PrintedLines(ds, layout) = FlattenSeq(Mapped(F, ds))
  <2> SUFFICES ASSUME NEW ds \in Seq(LineDirective)
               PROVE  [i \in DOMAIN ds |-> PrintedLine(ds[i], layout)] = Mapped(F, ds)
    BY DEF PrintedLines
  <2>1. \A i \in DOMAIN ds : ds[i] \in LineDirective
    BY ElementOfSeq, LenProperties
  <2> QED
    BY <2>1 DEF Mapped
<1>3. \A d \in LineDirective : F[d] = PrintedLine(d, layout)
  OBVIOUS
<1> HIDE DEF F
<1>4. /\ FlattenSeq(Mapped(F, <<>>)) = <<>>
      /\ \A ds \in Seq(LineDirective) :
           /\ FlattenSeq(Mapped(F, ds)) \in Seq(Str)
           /\ \A d \in LineDirective : FlattenSeq(Mapped(F, Append(ds, d)))
                                           = FlattenSeq(Mapped(F, ds)) \o F[d]
  BY <1>1, MapFlattens
<1>5. <<>> \in Seq(LineDirective)
  BY EmptySeq
<1>6. \A ds \in Seq(LineDirective), d \in LineDirective : Append(ds, d) \in Seq(LineDirective)
  BY AppendProperties
<1> QED
  BY <1>2, <1>3, <1>4, <1>5, <1>6, Zenon

LEMMA LinesAreRead ==
  ASSUME NEW s \in State, s.at = "block", s.inside, s.place = <<>>, NEW layout
  PROVE  \A ds \in Seq(LineDirective) :
           LET r == Run(s, PrintedLines(ds, layout)) IN
           IF \A i \in DOMAIN ds : WellFormed(ds, i, InLocation)
           THEN /\ r.at = "block" /\ r.inside /\ r.place = ds
                /\ r.block = s.block /\ r.blocks = s.blocks /\ r.match = s.match
           ELSE r.at = "refused"
<1> DEFINE Good(ds) == \A i \in DOMAIN ds : WellFormed(ds, i, InLocation)
           R(ds)    == Run(s, PrintedLines(ds, layout))
           Is(r, ds) == /\ r.at = "block" /\ r.inside /\ r.place = ds
                        /\ r.block = s.block /\ r.blocks = s.blocks /\ r.match = s.match
           T == {ds \in Seq(LineDirective) : IF Good(ds) THEN Is(R(ds), ds)
                                                        ELSE R(ds).at = "refused"}
<1>1. <<>> \in T
  BY EmptySeq, LinesPrinted, RunEmpty
<1>2. ASSUME NEW ds \in Seq(LineDirective), NEW d \in LineDirective, ds \in T
      PROVE  Append(ds, d) \in T
  <2> DEFINE a == Append(ds, d)
             r == R(ds)
             q == R(a)
  <2>1. a \in Seq(LineDirective) /\ DOMAIN a = 1 .. Len(ds) + 1 /\ DOMAIN ds = 1 .. Len(ds)
        /\ Len(ds) \in Nat
    BY AppendProperties, LenProperties
  <2>2. q = Run(r, PrintedLine(d, layout)) /\ r \in State
    <3>1. /\ PrintedLines(ds, layout) \in Seq(Str) /\ PrintedLine(d, layout) \in Seq(Str)
          /\ PrintedLines(a, layout) = PrintedLines(ds, layout) \o PrintedLine(d, layout)
      BY LinesPrinted, LineKinds
    <3> QED
      BY <3>1, RunConcat, RunKinds
  <2>3. Good(a) <=> Good(ds) /\ WellFormed(a, Len(ds) + 1, InLocation)
    <3>1. \A i \in DOMAIN ds : WellFormed(a, i, InLocation) <=> WellFormed(ds, i, InLocation)
      BY PrefixIsWellFormed
    <3>2. \A i \in DOMAIN a : i = Len(ds) + 1 \/ i \in DOMAIN ds
      BY <2>1, LastOrNot
    <3>3. Len(ds) + 1 \in DOMAIN a /\ DOMAIN ds \subseteq DOMAIN a
      BY <2>1
    <3> QED
      BY <3>1, <3>2, <3>3
  <2> HIDE DEF a, r, q
  <2>4. CASE ~ Good(ds)
    <3>1. r.at = "refused"
      BY <1>2, <2>4 DEF r
    <3>2. q = r
      BY <2>2, <3>1, LineKinds, RunRefused
    <3> QED
      BY <2>1, <2>3, <2>4, <3>1, <3>2 DEF a, q
  <2>5. CASE Good(ds)
    <3>1. Is(r, ds)
      BY <1>2, <2>5 DEF r
    <3>2. IF Fits(r, d) THEN q = Took(r, d) ELSE q.at = "refused"
      BY <2>2, <3>1, LineIsRead
    <3>3. d.words \in Seq(Word) /\ d.inner = <<>> /\ d = Directive(d.name, d.words)
      BY DEF LineDirective, Directive
    <3>4. Fits(r, d) <=> WellFormed(a, Len(ds) + 1, InLocation)
      <4>1. Fits(r, d) <=> d.name \in InLocation /\ Enough(ds, d)
        <5>1. Complete(Held(r, d.name, d.words)) <=> Enough(ds, d)
          BY <2>2, <3>1, CompleteIsEnough
        <5> QED
          BY <3>1, <5>1 DEF Fits, Allowed
      <4>2. CASE d.name # "location"
        BY <2>5, <3>3, <4>1, <4>2, EnoughIsWellFormed DEF a
      <4>3. CASE d.name = "location"
        <5>1. a[Len(ds) + 1] = d
          BY AppendProperties DEF a
        <5>2. d.name \notin InLocation
          BY <4>3, NamesAreKnown
        <5> QED
          BY <4>1, <5>1, <5>2 DEF WellFormed
      <4> QED
        BY <4>2, <4>3
    <3>5. Is(Took(r, d), a)
      <4> DEFINE h == Held(r, d.name, d.words)
      <4>1. /\ h.inside /\ h.name = d.name /\ h.words = d.words /\ h.place = ds
            /\ h.block = s.block /\ h.blocks = s.blocks /\ h.match = s.match
            /\ DOMAIN h = DOMAIN r
        BY <2>2, <3>1 DEF Held, State
      <4>2. Done(h) = [h EXCEPT !.at = "block", !.place = Append(ds, d)]
        <5> HIDE DEF h
        <5> QED
          BY <3>3, <4>1 DEF Done
      <4>3. DOMAIN h = {"at", "blocks", "block", "inside", "match", "place", "name", "words"}
        BY <2>2 DEF Held, State
      <4> HIDE DEF h
      <4>4. Is(Done(h), Append(ds, d))
        BY <4>1, <4>2, <4>3
      <4> QED
        BY <4>4 DEF Took, h, a
    <3> QED
      BY <2>1, <2>3, <2>5, <3>2, <3>4, <3>5 DEF a, q
  <2> QED
    BY <2>4, <2>5
<1> HIDE DEF T
<1>3. \A ds \in Seq(LineDirective) : ds \in T
  BY <1>1, <1>2, SeqInduct
<1> QED
  BY <1>3 DEF T

-----------------------------------------------------------------------------
(***************************************************************************)
(* Locations.                                                              *)
(***************************************************************************)
LEMMA OneWord ==
  ASSUME NEW S, NEW f \in [{1} -> S]
  PROVE  f = <<f[1]>> /\ f[1] \in S /\ f \in Seq(S) /\ Len(f) = 1
<1>1. f[1] \in S /\ f = [i \in {1} |-> f[1]]
  OBVIOUS
<1>2. {1} = 1 .. 1
  OBVIOUS
<1>3. <<f[1]>> = [i \in 1 .. 1 |-> f[1]]
  OBVIOUS
<1>4. f = <<f[1]>>
  BY <1>1, <1>2, <1>3
<1>5. <<f[1]>> \in Seq(S) /\ Len(<<f[1]>>) = 1
  BY <1>1
<1> QED
  BY <1>1, <1>4, <1>5

LEMMA LocationKinds ==
  ASSUME NEW d \in LocationDirective, NEW layout
  PROVE  /\ d.name = "location" /\ d.words = <<d.words[1]>> /\ d.words[1] \in Word
         /\ Len(d.words) = 1 /\ d.inner \in Seq(LineDirective)
         /\ d = LocationWith(d.words[1], d.inner)
         /\ <<"location">> \in Seq(Str) /\ Soft(layout) \in Seq(Str) /\ d.words \in Seq(Str)
         /\ <<"{">> \in Seq(Str) /\ Hard(layout) \in Seq(Str) /\ <<"}">> \in Seq(Str)
         /\ PrintedLines(d.inner, layout) \in Seq(Str)
<1>1. d.name = "location" /\ d.words \in [{1} -> Word] /\ d.inner \in Seq(LineDirective)
  BY DEF LocationDirective
<1>2. d.words = <<d.words[1]>> /\ d.words[1] \in Word /\ Len(d.words) = 1
      /\ d.words \in Seq(Word)
  BY <1>1, OneWord
<1>3. d = [name |-> d.name, words |-> d.words, inner |-> d.inner]
  BY DEF LocationDirective
<1>4. d = LocationWith(d.words[1], d.inner)
  BY <1>1, <1>2, <1>3 DEF LocationWith
<1>5. PrintedLines(d.inner, layout) \in Seq(Str)
  BY <1>1, LinesPrinted
<1> QED
  BY <1>1, <1>2, <1>4, <1>5, TokenKinds

\* The two halves of the text of a location.
Opening(d, layout) == <<"location">> \o Soft(layout) \o d.words

LEMMA LocationText ==
  ASSUME NEW d \in LocationDirective, NEW layout
  PROVE  /\ Opening(d, layout) \in Seq(Str)
         /\ Braced(PrintedLines(d.inner, layout), layout) \in Seq(Str)
         /\ PrintedDirective(d, layout)
              = Opening(d, layout) \o Braced(PrintedLines(d.inner, layout), layout)
         /\ PrintedDirective(d, layout) \in Seq(Str)
<1> DEFINE a == <<"location">>
           b == Soft(layout)
           c == d.words
           e == <<"{">>
           f == Hard(layout)
           g == PrintedLines(d.inner, layout)
           h == <<"}">>
<1>1. /\ a \in Seq(Str) /\ b \in Seq(Str) /\ c \in Seq(Str) /\ e \in Seq(Str)
      /\ f \in Seq(Str) /\ g \in Seq(Str) /\ h \in Seq(Str)
  BY LocationKinds
<1>2. Opening(d, layout) = a \o b \o c /\ Braced(g, layout) = e \o f \o g \o h \o f
  BY DEF Opening, Braced
<1>3. PrintedDirective(d, layout) = a \o b \o c \o Braced(g, layout)
  BY LocationKinds DEF PrintedDirective
<1> HIDE DEF a, b, c, e, f, g, h
<1>4. a \o b \o c \in Seq(Str) /\ e \o f \o g \o h \o f \in Seq(Str)
  BY <1>1, ConcatProperties
<1>5. Opening(d, layout) \in Seq(Str) /\ Braced(g, layout) \in Seq(Str)
  BY <1>2, <1>4
<1>6. Opening(d, layout) \o Braced(g, layout) \in Seq(Str)
  BY <1>5, ConcatProperties
<1>7. PrintedDirective(d, layout) = Opening(d, layout) \o Braced(g, layout)
  BY <1>2, <1>3
<1> QED
  BY <1>5, <1>6, <1>7 DEF g

\* The path of a location.
LEMMA PathIsRead ==
  ASSUME NEW s \in State, s.at = "block", NEW d \in LocationDirective, NEW layout
  PROVE  LET r == Run(s, Opening(d, layout)) IN
         IF ~ s.inside /\ d.words[1] \in Takes["location"]
         THEN /\ r \in State /\ r.at = "brace" /\ r.match = d.words[1] /\ ~ r.inside
              /\ r.block = s.block /\ r.blocks = s.blocks
         ELSE r.at = "refused"
<1> DEFINE w == d.words[1]
           a == Run(s, <<"location">>)
           b == Run(a, Soft(layout))
           c == Run(b, <<w>>)
           Goal(r) == IF ~ s.inside /\ w \in Takes["location"]
                      THEN /\ r \in State /\ r.at = "brace" /\ r.match = w /\ ~ r.inside
                           /\ r.block = s.block /\ r.blocks = s.blocks
                      ELSE r.at = "refused"
<1>1. /\ d.words = <<w>> /\ w \in Word /\ <<"location">> \in Seq(Str)
      /\ Soft(layout) \in Seq(Str) /\ d.words \in Seq(Str)
  BY LocationKinds
<1>2. Run(s, Opening(d, layout)) = c
  <2> DEFINE x == <<"location">>
             y == Soft(layout)
             z == d.words
  <2>1. x \in Seq(Str) /\ y \in Seq(Str) /\ z \in Seq(Str)
    BY <1>1
  <2>2. Opening(d, layout) = x \o y \o z
    BY DEF Opening
  <2> HIDE DEF x, y, z
  <2>3. Run(s, x \o y \o z) = Run(Run(Run(s, x), y), z)
    BY <2>1, RunThree
  <2> QED
    BY <1>1, <2>2, <2>3 DEF x, y, z
<1>3. a = Named(s, "location")
  BY RunOne DEF Read, AtBlock
<1>4. CASE s.inside
  <2>1. a.at = "refused"
    BY <1>3, <1>4, NamesAreKnown, RefusedKinds DEF Named
  <2> HIDE DEF a
  <2>2. b = a /\ c = a
    BY <1>1, <2>1, RunRefused
  <2> QED
    BY <1>2, <1>4, <2>1, <2>2
<1>5. CASE ~ s.inside
  <2>1. a = Fresh(s, "location")
    BY <1>3, <1>5 DEF Named, Fresh, InServer
  <2>2. /\ b \in State /\ b.at \in {"name", "words"} /\ b.name = "location"
        /\ Held(b, "location", <<>>) = Held(s, "location", <<>>)
    <3>1. "location" \in Str
      BY TokenKinds
    <3>2. b = Run(Fresh(s, "location"), Soft(layout))
      BY <2>1
    <3> HIDE DEF b
    <3> QED
      BY <3>1, <3>2, SoftIsRead
  <2> HIDE DEF b
  <2>3. b.inside = s.inside /\ b.block = s.block /\ b.blocks = s.blocks
    <3> DEFINE h == Held(b, "location", <<>>)
               k == Held(s, "location", <<>>)
    <3>1. h.inside = b.inside /\ h.block = b.block /\ h.blocks = b.blocks
      BY <2>2 DEF Held, State
    <3>2. k.inside = s.inside /\ k.block = s.block /\ k.blocks = s.blocks
      BY DEF Held, State
    <3> HIDE DEF h, k
    <3>3. h = k
      BY <2>2 DEF h, k
    <3> QED
      BY <3>1, <3>2, <3>3
  <2>4. w \notin Signs /\ w # "eol" /\ w # ";" /\ w \in Str
    BY <1>1, WordKinds
  <2> DEFINE v == [b EXCEPT !.at = "words"]
  <2>5. /\ v \in State /\ v.name = "location" /\ v.block = s.block /\ v.blocks = s.blocks
        /\ v.inside = s.inside
    BY <2>2, <2>3 DEF State, Str
  <2>6. b.at = "words" => v = b
    BY <2>2 DEF State
  <2> HIDE DEF v
  <2>7. c = AtMatch(v, w)
    <3>1. c = Read(b, w)
      BY RunOne
    <3>2. Read(b, w) = AtWords(v, w)
      <4>1. CASE b.at = "name"
        BY <2>4, <4>1 DEF Read, AtName, v
      <4>2. CASE b.at = "words"
        BY <2>6, <4>2 DEF Read
      <4> QED
        BY <2>2, <4>1, <4>2
    <3>3. AtWords(v, w) = AtMatch(v, w)
      BY <2>5 DEF AtWords
    <3> QED
      BY <3>1, <3>2, <3>3
  <2> HIDE DEF c, w
  <2>8. Goal(AtMatch(v, w))
    <3>1. CASE w \notin Takes["location"]
      BY <2>4, <2>5, <3>1, RefusedKinds DEF AtMatch
    <3>2. CASE w \in Takes["location"]
      <4>1. AtMatch(v, w) = [v EXCEPT !.at = "brace", !.match = w]
        BY <2>4, <3>2 DEF AtMatch
      <4>2. [v EXCEPT !.at = "brace", !.match = w] \in State
        BY <2>4, <2>5, ZenonT(60) DEF State, Str
      <4>3. LET r == [v EXCEPT !.at = "brace", !.match = w] IN
              /\ r.at = "brace" /\ r.match = w /\ r.inside = v.inside
              /\ r.block = v.block /\ r.blocks = v.blocks
        BY <2>5 DEF State
      <4> QED
        BY <1>5, <2>5, <3>2, <4>1, <4>2, <4>3
    <3> QED
      BY <3>1, <3>2
  <2> QED
    BY <1>2, <2>7, <2>8 DEF w
<1> QED
  BY <1>4, <1>5

LEMMA BracedRun ==
  ASSUME NEW s, NEW text \in Seq(Str), NEW layout
  PROVE  Run(s, Braced(text, layout))
           = Run(Run(Run(Run(Run(s, <<"{">>), Hard(layout)), text), <<"}">>), Hard(layout))
<1> DEFINE a == <<"{">>
           b == Hard(layout)
           c == <<"}">>
<1>1. a \in Seq(Str) /\ b \in Seq(Str) /\ c \in Seq(Str)
  BY TokenKinds
<1>2. Braced(text, layout) = a \o b \o text \o c \o b
  BY DEF Braced
<1> HIDE DEF a, b, c
<1>3. Run(s, a \o b \o text \o c \o b) = Run(Run(Run(Run(Run(s, a), b), text), c), b)
  BY <1>1, RunFive
<1> QED
  BY <1>2, <1>3 DEF a, b, c

InnerIsProper(d) == \A j \in DOMAIN d.inner : WellFormed(d.inner, j, InLocation)

LEMMA LocationIsRead ==
  ASSUME NEW s \in State, s.at = "block", ~ s.inside, NEW d \in LocationDirective, NEW layout
  PROVE  LET r == Run(s, PrintedDirective(d, layout)) IN
         IF d.words[1] \in Takes["location"] /\ InnerIsProper(d)
         THEN /\ r.at = "block" /\ ~ r.inside
              /\ r.block = Append(s.block, d) /\ r.blocks = s.blocks
         ELSE r.at = "refused"
<1> DEFINE text == PrintedLines(d.inner, layout)
           a == Run(s, Opening(d, layout))
           b == Run(a, <<"{">>)
           c == Run(b, Hard(layout))
           e == Run(c, text)
           f == Run(e, <<"}">>)
           g == Run(f, Hard(layout))
           Goal(r) == IF d.words[1] \in Takes["location"] /\ InnerIsProper(d)
                      THEN /\ r.at = "block" /\ ~ r.inside
                           /\ r.block = Append(s.block, d) /\ r.blocks = s.blocks
                      ELSE r.at = "refused"
<1>1. Run(s, PrintedDirective(d, layout)) = g
  <2>1. text \in Seq(Str)
    BY LocationKinds
  <2>2. Run(a, Braced(text, layout)) = g
    <3> HIDE DEF a, text
    <3> QED
      BY <2>1, BracedRun
  <2> DEFINE x == Opening(d, layout)
             y == Braced(text, layout)
  <2>3. x \in Seq(Str) /\ y \in Seq(Str) /\ PrintedDirective(d, layout) = x \o y
    BY LocationText
  <2>4. Run(s, x \o y) = Run(Run(s, x), y)
    <3> HIDE DEF x, y
    <3> QED
      BY <2>3, RunConcat
  <2> QED
    BY <2>2, <2>3, <2>4
<1>2. /\ text \in Seq(Str) /\ Hard(layout) \in Seq(Str) /\ <<"{">> \in Seq(Str)
      /\ <<"}">> \in Seq(Str) /\ d.inner \in Seq(LineDirective)
      /\ d = LocationWith(d.words[1], d.inner)
  BY LocationKinds
<1>3. IF d.words[1] \in Takes["location"]
      THEN /\ a \in State /\ a.at = "brace" /\ a.match = d.words[1] /\ ~ a.inside
           /\ a.block = s.block /\ a.blocks = s.blocks
      ELSE a.at = "refused"
  BY PathIsRead
<1> HIDE DEF a, text
<1>4. CASE d.words[1] \notin Takes["location"]
  <2>1. \A u \in Seq(Str) : Run(a, u) = a
    BY <1>3, <1>4, RunRefused
  <2>2. b = a /\ c = a /\ e = a /\ f = a /\ g = a
    BY <1>2, <2>1
  <2> QED
    BY <1>1, <1>3, <1>4, <2>2
<1>5. CASE d.words[1] \in Takes["location"]
  <2>1. b = [a EXCEPT !.at = "block", !.inside = TRUE, !.place = <<>>]
    BY <1>3, <1>5, RunOne DEF Read, AtBrace, Signs
  <2>2. /\ b \in State /\ b.at = "block" /\ b.inside /\ b.place = <<>>
        /\ b.match = d.words[1] /\ b.block = s.block /\ b.blocks = s.blocks
    <3>1. <<>> \in Seq(AnyLine) /\ "block" \in Str
      BY EmptySeq DEF Str
    <3>2. b \in State
      BY <1>3, <1>5, <2>1, <3>1 DEF State
    <3> QED
      BY <1>3, <1>5, <2>1, <3>2 DEF State
  <2> HIDE DEF b
  <2>3. c = b
    BY <2>2, HardIsRead
  <2> HIDE DEF c
  <2>4. IF InnerIsProper(d)
        THEN /\ e.at = "block" /\ e.inside /\ e.place = d.inner
             /\ e.block = s.block /\ e.blocks = s.blocks /\ e.match = d.words[1]
        ELSE e.at = "refused"
    <3> DEFINE ds == d.inner
               q == Run(c, PrintedLines(ds, layout))
    <3>1. ds \in Seq(LineDirective) /\ InnerIsProper(d)
            = \A i \in DOMAIN ds : WellFormed(ds, i, InLocation)
      BY <1>2 DEF InnerIsProper
    <3>2. e = q
      BY DEF text
    <3> HIDE DEF ds
    <3>3. IF \A i \in DOMAIN ds : WellFormed(ds, i, InLocation)
          THEN /\ q.at = "block" /\ q.inside /\ q.place = ds
               /\ q.block = c.block /\ q.blocks = c.blocks /\ q.match = c.match
          ELSE q.at = "refused"
      BY <2>2, <2>3, <3>1, LinesAreRead
    <3> HIDE DEF q
    <3> QED
      BY <2>2, <2>3, <3>1, <3>2, <3>3 DEF ds
  <2>5. e \in State
    BY <1>2, <2>2, <2>3, RunKinds
  <2> HIDE DEF e
  <2>6. CASE ~ InnerIsProper(d)
    <3>1. \A u \in Seq(Str) : Run(e, u) = e
      BY <2>4, <2>6, RunRefused
    <3>2. f = e /\ g = e
      BY <1>2, <3>1
    <3> QED
      BY <1>1, <2>4, <2>6, <3>2
  <2>7. CASE InnerIsProper(d)
    <3>1. f = EndLocation(e)
      BY <2>4, <2>7, RunOne DEF Read, AtBlock
    <3>2. /\ f.at = "block" /\ ~ f.inside /\ f.blocks = s.blocks
          /\ f.block = Append(s.block, LocationWith(d.words[1], d.inner))
      <4> DEFINE k == LocationWith(e.match, e.place)
      <4>1. k = LocationWith(d.words[1], d.inner)
        BY <2>4, <2>7
      <4>2. f = [e EXCEPT !.inside = FALSE, !.block = Append(@, k)]
        BY <3>1 DEF EndLocation
      <4>3. DOMAIN e = {"at", "blocks", "block", "inside", "match", "place", "name", "words"}
        BY <2>5 DEF State
      <4> HIDE DEF k, f
      <4> QED
        BY <2>4, <2>7, <4>1, <4>2, <4>3
    <3>3. f.block = Append(s.block, d)
      BY <1>2, <3>2
    <3> HIDE DEF f
    <3>4. g = f
      BY <3>2, HardIsRead
    <3> QED
      BY <1>1, <1>5, <2>7, <3>2, <3>3, <3>4
  <2> QED
    BY <2>6, <2>7
<1> QED
  BY <1>4, <1>5

-----------------------------------------------------------------------------
(***************************************************************************)
(* The directives of a block.                                              *)
(***************************************************************************)
Proper(b, i) == WellFormed(b, i, InServer) /\ InnerIsProper(b[i])

LEMMA OuterKinds ==
  ASSUME NEW d \in OuterDirective, NEW layout
  PROVE  /\ PrintedDirective(d, layout) \in Seq(Str)
         /\ d.name # "location" => /\ d \in LineDirective /\ d.inner = <<>>
                                   /\ PrintedDirective(d, layout) = PrintedLine(d, layout)
                                   /\ d = Directive(d.name, d.words)
         /\ d.name = "location" => d \in LocationDirective
<1>1. CASE d.name # "location"
  <2>1. d \in LineDirective
    BY <1>1 DEF OuterDirective, LocationDirective
  <2>2. d.inner = <<>> /\ d = Directive(d.name, d.words)
    BY <2>1 DEF LineDirective, Directive
  <2>3. PrintedDirective(d, layout) = PrintedLine(d, layout)
    BY <1>1 DEF PrintedDirective
  <2> QED
    BY <1>1, <2>1, <2>2, <2>3, LineKinds
<1>2. CASE d.name = "location"
  <2>1. d \in LocationDirective
    BY <1>2 DEF OuterDirective
  <2> QED
    BY <1>2, <2>1, LocationText
<1> QED
  BY <1>1, <1>2

LEMMA DirectiveIsRead ==
  ASSUME NEW s \in State, s.at = "block", ~ s.inside, s.block \in Seq(OuterDirective),
         \A i \in DOMAIN s.block : Proper(s.block, i), NEW d \in OuterDirective, NEW layout
  PROVE  LET r == Run(s, PrintedDirective(d, layout))
             a == Append(s.block, d)
         IN IF Proper(a, Len(s.block) + 1)
            THEN /\ r.at = "block" /\ ~ r.inside /\ r.block = a /\ r.blocks = s.blocks
            ELSE r.at = "refused"
<1> DEFINE ds == s.block
           a == Append(ds, d)
           n == Len(ds) + 1
           r == Run(s, PrintedDirective(d, layout))
<1>1. a[n] = d
  BY AppendProperties
<1>2. CASE d.name = "location"
  <2>1. d \in LocationDirective /\ d.words[1] \in Word /\ Len(d.words) = 1
    BY <1>2, OuterKinds, LocationKinds
  <2>2. IF d.words[1] \in Takes["location"] /\ InnerIsProper(d)
        THEN r.at = "block" /\ ~ r.inside /\ r.block = a /\ r.blocks = s.blocks
        ELSE r.at = "refused"
    BY <2>1, LocationIsRead
  <2>3. WellFormed(a, n, InServer) <=> d.words[1] \in Takes["location"]
    <3>1. ToSet(d.words) = {d.words[1]} /\ "location" \in DOMAIN Takes
      <4>1. d.words \in Seq(Word)
        BY <2>1, OneWord DEF LocationDirective
      <4> QED
        BY <2>1, <4>1, OnlyWord, TakenAreWords
    <3>2. "location" \notin {"error_page", "return"} \cup ListDirectives
      BY NamesAreKnown
    <3> HIDE DEF a, n
    <3> QED
      BY <1>1, <1>2, <2>1, <3>1, <3>2 DEF WellFormed, InServer
  <2>4. Proper(a, n) <=> d.words[1] \in Takes["location"] /\ InnerIsProper(d)
    <3> HIDE DEF a, n
    <3> QED
      BY <1>1, <2>3 DEF Proper
  <2> HIDE DEF a, n, r
  <2> QED
    BY <2>2, <2>4 DEF a, n, r
<1>3. CASE d.name # "location"
  <2>1. /\ d \in LineDirective /\ d.inner = <<>> /\ d = Directive(d.name, d.words)
        /\ PrintedDirective(d, layout) = PrintedLine(d, layout) /\ d.words \in Seq(Word)
    BY <1>3, OuterKinds, LineKinds
  <2>2. IF Fits(s, d) THEN r = Took(s, d) ELSE r.at = "refused"
    BY <1>3, <2>1, LineIsRead
  <2>3. Fits(s, d) <=> d.name \in InServer /\ Enough(ds, d)
    BY <2>1, CompleteIsEnough DEF Fits, Allowed
  <2>4. WellFormed(a, n, InServer) <=> d.name \in InServer /\ Enough(ds, d)
    <3> DEFINE S == OuterDirective
    <3>1. ds \in Seq(S) /\ d \in S /\ \A i \in DOMAIN ds : WellFormed(ds, i, InServer)
      BY DEF Proper
    <3> HIDE DEF ds, S
    <3> QED
      BY <1>3, <2>1, <3>1, EnoughIsWellFormed
  <2>5. InnerIsProper(d)
    BY <2>1 DEF InnerIsProper
  <2>6. Proper(a, n) <=> Fits(s, d)
    <3> HIDE DEF a, n, ds
    <3> QED
      BY <1>1, <2>3, <2>4, <2>5 DEF Proper
  <2>7. LET t == Took(s, d) IN t.at = "block" /\ ~ t.inside /\ t.block = a /\ t.blocks = s.blocks
    <3> DEFINE h == Held(s, d.name, d.words)
    <3>1. /\ ~ h.inside /\ h.name = d.name /\ h.words = d.words
          /\ h.block = s.block /\ h.blocks = s.blocks
      BY DEF Held, State
    <3>2. DOMAIN h = {"at", "blocks", "block", "inside", "match", "place", "name", "words"}
      BY DEF Held, State
    <3> HIDE DEF h
    <3>3. Done(h) = [h EXCEPT !.at = "block", !.block = Append(s.block, d)]
      BY <2>1, <3>1 DEF Done
    <3>4. LET t == Done(h) IN
            t.at = "block" /\ ~ t.inside /\ t.block = Append(s.block, d) /\ t.blocks = s.blocks
      BY <3>1, <3>2, <3>3
    <3> QED
      BY <3>4 DEF Took, h
  <2> HIDE DEF a, n, r
  <2> QED
    BY <2>2, <2>6, <2>7 DEF a, n, r
<1> QED
  BY <1>2, <1>3

LEMMA PrefixIsProper ==
  ASSUME NEW S, NEW ds \in Seq(S), NEW d \in S, NEW i \in DOMAIN ds
  PROVE  Proper(Append(ds, d), i) <=> Proper(ds, i)
<1>1. Append(ds, d)[i] = ds[i]
  BY AppendProperties, LenProperties
<1>2. WellFormed(Append(ds, d), i, InServer) <=> WellFormed(ds, i, InServer)
  BY PrefixIsWellFormed
<1> DEFINE a == Append(ds, d)
<1> HIDE DEF a
<1>3. Proper(a, i) <=> Proper(ds, i)
  BY <1>1, <1>2 DEF Proper, a
<1> QED
  BY <1>3 DEF a

\* All of a sequence with one more element has the property P.
LEMMA OneMore ==
  ASSUME NEW S, NEW s \in Seq(S), NEW e \in S
  PROVE  /\ Append(s, e) \in Seq(S) /\ Len(s) + 1 \in DOMAIN Append(s, e)
         /\ Append(s, e)[Len(s) + 1] = e
         /\ \A i \in DOMAIN s : i \in DOMAIN Append(s, e) /\ Append(s, e)[i] = s[i]
         /\ \A i \in DOMAIN Append(s, e) : i = Len(s) + 1 \/ i \in DOMAIN s
<1> DEFINE a == Append(s, e)
           n == Len(s)
<1>1. /\ a \in Seq(S) /\ Len(a) = n + 1 /\ a[n + 1] = e /\ DOMAIN a = 1 .. n + 1
      /\ DOMAIN s = 1 .. n /\ n \in Nat /\ \A i \in 1 .. n : a[i] = s[i]
  BY AppendProperties, LenProperties
<1> HIDE DEF a, n
<1>2. \A i \in 1 .. n : i \in 1 .. n + 1
  BY <1>1
<1>3. \A i \in 1 .. n + 1 : i = n + 1 \/ i \in 1 .. n
  BY <1>1, LastOrNot
<1>4. n + 1 \in 1 .. n + 1
  BY <1>1
<1> QED
  BY <1>1, <1>2, <1>3, <1>4 DEF a, n

LEMMA DirectivesPrinted ==
  ASSUME NEW layout
  PROVE  /\ PrintedDirectives(<<>>, layout) = <<>>
         /\ \A b \in Seq(OuterDirective) :
              /\ PrintedDirectives(b, layout) \in Seq(Str)
              /\ \A d \in OuterDirective :
                   PrintedDirectives(Append(b, d), layout)
                     = PrintedDirectives(b, layout) \o PrintedDirective(d, layout)
<1> DEFINE F == [d \in OuterDirective |-> PrintedDirective(d, layout)]
<1>1. F \in [OuterDirective -> Seq(Str)]
  BY OuterKinds
<1>2. \A b \in Seq(OuterDirective) : PrintedDirectives(b, layout) = FlattenSeq(Mapped(F, b))
  <2> SUFFICES ASSUME NEW b \in Seq(OuterDirective)
               PROVE  [i \in DOMAIN b |-> PrintedDirective(b[i], layout)] = Mapped(F, b)
    BY DEF PrintedDirectives
  <2>1. \A i \in DOMAIN b : b[i] \in OuterDirective
    BY ElementOfSeq, LenProperties
  <2> QED
    BY <2>1 DEF Mapped
<1>3. \A d \in OuterDirective : F[d] = PrintedDirective(d, layout)
  OBVIOUS
<1> HIDE DEF F
<1>4. /\ FlattenSeq(Mapped(F, <<>>)) = <<>>
      /\ \A b \in Seq(OuterDirective) :
           /\ FlattenSeq(Mapped(F, b)) \in Seq(Str)
           /\ \A d \in OuterDirective : FlattenSeq(Mapped(F, Append(b, d)))
                                          = FlattenSeq(Mapped(F, b)) \o F[d]
  BY <1>1, MapFlattens
<1>5. <<>> \in Seq(OuterDirective)
  BY EmptySeq
<1>6. \A b \in Seq(OuterDirective), d \in OuterDirective : Append(b, d) \in Seq(OuterDirective)
  BY AppendProperties
<1> QED
  BY <1>2, <1>3, <1>4, <1>5, <1>6, Zenon

LEMMA DirectivesAreRead ==
  ASSUME NEW s \in State, s.at = "block", ~ s.inside, s.block = <<>>, NEW layout
  PROVE  \A b \in Seq(OuterDirective) :
           LET r == Run(s, PrintedDirectives(b, layout)) IN
           IF \A i \in DOMAIN b : Proper(b, i)
           THEN r.at = "block" /\ ~ r.inside /\ r.block = b /\ r.blocks = s.blocks
           ELSE r.at = "refused"
<1> DEFINE Good(b)  == \A i \in DOMAIN b : Proper(b, i)
           R(b)     == Run(s, PrintedDirectives(b, layout))
           Is(r, b) == r.at = "block" /\ ~ r.inside /\ r.block = b /\ r.blocks = s.blocks
           T == {b \in Seq(OuterDirective) : IF Good(b) THEN Is(R(b), b)
                                                       ELSE R(b).at = "refused"}
<1>1. <<>> \in T
  BY EmptySeq, DirectivesPrinted, RunEmpty
<1>2. ASSUME NEW b \in Seq(OuterDirective), NEW d \in OuterDirective, b \in T
      PROVE  Append(b, d) \in T
  <2> DEFINE a == Append(b, d)
             n == Len(b) + 1
             r == R(b)
             q == R(a)
  <2>1. a \in Seq(OuterDirective)
    BY AppendProperties
  <2>2. q = Run(r, PrintedDirective(d, layout)) /\ r \in State
        /\ PrintedDirective(d, layout) \in Seq(Str)
    <3>1. /\ PrintedDirectives(b, layout) \in Seq(Str) /\ PrintedDirective(d, layout) \in Seq(Str)
          /\ PrintedDirectives(a, layout) = PrintedDirectives(b, layout) \o PrintedDirective(d, layout)
      BY DirectivesPrinted, OuterKinds
    <3> QED
      BY <3>1, RunConcat, RunKinds
  <2>3. Good(a) <=> Good(b) /\ Proper(a, n)
    <3>1. \A i \in DOMAIN b : Proper(a, i) <=> Proper(b, i)
      BY PrefixIsProper
    <3>2. /\ \A i \in DOMAIN a : i = n \/ i \in DOMAIN b
          /\ n \in DOMAIN a /\ \A i \in DOMAIN b : i \in DOMAIN a
      BY OneMore
    <3> HIDE DEF a, n
    <3> QED
      BY <3>1, <3>2
  <2> HIDE DEF a, r, q
  <2>4. CASE ~ Good(b)
    <3>1. r.at = "refused"
      BY <1>2, <2>4 DEF r
    <3>2. q = r
      BY <2>2, <3>1, RunRefused
    <3> QED
      BY <2>1, <2>3, <2>4, <3>1, <3>2 DEF a, q
  <2>5. CASE Good(b)
    <3>1. Is(r, b)
      BY <1>2, <2>5 DEF r
    <3>2. IF Proper(a, n) THEN Is(q, a) ELSE q.at = "refused"
      <4>1. r.block \in Seq(OuterDirective) /\ (\A i \in DOMAIN r.block : Proper(r.block, i))
            /\ a = Append(r.block, d) /\ n = Len(r.block) + 1
        BY <2>5, <3>1 DEF a
      <4> HIDE DEF n
      <4>2. IF Proper(a, n)
            THEN q.at = "block" /\ ~ q.inside /\ q.block = a /\ q.blocks = r.blocks
            ELSE q.at = "refused"
        BY <2>2, <3>1, <4>1, DirectiveIsRead
      <4> QED
        BY <3>1, <4>2
    <3> HIDE DEF n
    <3> QED
      BY <2>1, <2>3, <2>5, <3>2 DEF a, q
  <2> QED
    BY <2>4, <2>5
<1> HIDE DEF T
<1>3. \A b \in Seq(OuterDirective) : b \in T
  BY <1>1, <1>2, SeqInduct
<1> QED
  BY <1>3 DEF T

-----------------------------------------------------------------------------
(***************************************************************************)
(* Blocks.                                                                 *)
(***************************************************************************)
Opened(layout) == <<"server">> \o Soft(layout)

LEMMA BlockText ==
  ASSUME NEW b \in Seq(OuterDirective), NEW layout
  PROVE  /\ Opened(layout) \in Seq(Str)
         /\ Braced(PrintedDirectives(b, layout), layout) \in Seq(Str)
         /\ PrintedBlock(b, layout)
              = Opened(layout) \o Braced(PrintedDirectives(b, layout), layout)
         /\ PrintedBlock(b, layout) \in Seq(Str)
<1> DEFINE a == <<"server">>
           c == Soft(layout)
           e == <<"{">>
           f == Hard(layout)
           g == PrintedDirectives(b, layout)
           h == <<"}">>
<1>1. /\ a \in Seq(Str) /\ c \in Seq(Str) /\ e \in Seq(Str)
      /\ f \in Seq(Str) /\ g \in Seq(Str) /\ h \in Seq(Str)
  BY TokenKinds, DirectivesPrinted
<1>2. Opened(layout) = a \o c /\ Braced(g, layout) = e \o f \o g \o h \o f
  BY DEF Opened, Braced
<1>3. PrintedBlock(b, layout) = a \o c \o Braced(g, layout)
  BY DEF PrintedBlock
<1> HIDE DEF a, c, e, f, g, h
<1>4. a \o c \in Seq(Str) /\ e \o f \o g \o h \o f \in Seq(Str)
  BY <1>1, ConcatProperties
<1>5. Opened(layout) \in Seq(Str) /\ Braced(g, layout) \in Seq(Str)
  BY <1>2, <1>4
<1>6. Opened(layout) \o Braced(g, layout) \in Seq(Str)
  BY <1>5, ConcatProperties
<1> QED
  BY <1>2, <1>3, <1>5, <1>6 DEF g

LEMMA ServerIsRead ==
  ASSUME NEW s \in State, s.at = "file", NEW layout
  PROVE  Run(s, Opened(layout)) = [s EXCEPT !.at = "server", !.block = <<>>]
<1> DEFINE v == [s EXCEPT !.at = "server", !.block = <<>>]
           a == <<"server">>
           b == Soft(layout)
<1>1. Run(s, a) = v
  BY RunOne DEF Read, AtFile
<1>2. v.at = "server"
  BY DEF State
<1>3. a \in Seq(Str) /\ b \in Seq(Str) /\ Opened(layout) = a \o b
  BY TokenKinds DEF Opened
<1> HIDE DEF v
<1>4. Run(v, <<>>) = v /\ Run(v, <<"eol">>) = v
  BY <1>2, RunEmpty, RunOne DEF Read, AtServer
<1>5. Run(v, b) = v
  BY <1>4 DEF Soft
<1> HIDE DEF a, b
<1>6. Run(s, a \o b) = v
  BY <1>1, <1>3, <1>5, RunConcat
<1> QED
  BY <1>3, <1>6 DEF v

LEMMA BlockIsRead ==
  ASSUME NEW s \in State, s.at = "file", ~ s.inside, NEW b \in Seq(OuterDirective), NEW layout
  PROVE  LET r == Run(s, PrintedBlock(b, layout)) IN
         IF WellFormedBlock(b)
         THEN r.at = "file" /\ ~ r.inside /\ r.blocks = Append(s.blocks, b)
         ELSE r.at = "refused"
<1> DEFINE text == PrintedDirectives(b, layout)
           a == Run(s, Opened(layout))
           u == Run(a, <<"{">>)
           c == Run(u, Hard(layout))
           e == Run(c, text)
           f == Run(e, <<"}">>)
           g == Run(f, Hard(layout))
<1>1. text \in Seq(Str) /\ <<"}">> \in Seq(Str) /\ Hard(layout) \in Seq(Str)
  BY DirectivesPrinted, TokenKinds
<1>2. Run(s, PrintedBlock(b, layout)) = g
  <2>1. Run(a, Braced(text, layout)) = g
    <3> HIDE DEF a, text
    <3> QED
      BY <1>1, BracedRun
  <2> DEFINE x == Opened(layout)
             y == Braced(text, layout)
  <2>2. x \in Seq(Str) /\ y \in Seq(Str) /\ PrintedBlock(b, layout) = x \o y
    BY BlockText
  <2>3. Run(s, x \o y) = Run(Run(s, x), y)
    <3> HIDE DEF x, y
    <3> QED
      BY <2>2, RunConcat
  <2> QED
    BY <2>1, <2>2, <2>3
<1>3. WellFormedBlock(b) <=> \A i \in DOMAIN b : Proper(b, i)
  BY DEF WellFormedBlock, Proper, InnerIsProper
<1>4. a = [s EXCEPT !.at = "server", !.block = <<>>]
  BY ServerIsRead
<1>5. a \in State /\ a.at = "server" /\ ~ a.inside /\ a.block = <<>> /\ a.blocks = s.blocks
  <2>1. <<>> \in Seq(AnyDirective) /\ "server" \in Str
    BY EmptySeq DEF Str
  <2> QED
    BY <1>4, <2>1 DEF State
<1> HIDE DEF a, text
<1>6. u = [a EXCEPT !.at = "block"]
  BY <1>5, RunOne DEF Read, AtServer
<1>7. u \in State /\ u.at = "block" /\ ~ u.inside /\ u.block = <<>> /\ u.blocks = s.blocks
  <2>1. "block" \in Str
    BY DEF Str
  <2> QED
    BY <1>5, <1>6, <2>1 DEF State
<1> HIDE DEF u
<1>8. c = u
  BY <1>7, HardIsRead
<1> HIDE DEF c
<1>9. e \in State
  BY <1>1, <1>7, <1>8, RunKinds
<1>10. IF \A i \in DOMAIN b : Proper(b, i)
       THEN e.at = "block" /\ ~ e.inside /\ e.block = b /\ e.blocks = s.blocks
       ELSE e.at = "refused"
  BY <1>7, <1>8, DirectivesAreRead DEF text
<1> HIDE DEF e
<1>11. CASE ~ WellFormedBlock(b)
  <2>1. \A t \in Seq(Str) : Run(e, t) = e
    BY <1>3, <1>10, <1>11, RunRefused
  <2>2. f = e /\ g = e
    BY <1>1, <2>1
  <2> QED
    BY <1>2, <1>3, <1>10, <1>11, <2>2
<1>12. CASE WellFormedBlock(b)
  <2>1. f = EndBlock(e)
    BY <1>3, <1>10, <1>12, RunOne DEF Read, AtBlock
  <2>2. f.at = "file" /\ ~ f.inside /\ f.blocks = Append(s.blocks, b)
    BY <1>3, <1>9, <1>10, <1>12, <2>1 DEF EndBlock, State
  <2> HIDE DEF f
  <2>3. g = f
    BY <2>2, HardIsRead
  <2> QED
    BY <1>2, <1>12, <2>2, <2>3
<1> QED
  BY <1>11, <1>12

-----------------------------------------------------------------------------
(***************************************************************************)
(* Files.                                                                  *)
(***************************************************************************)
AnyBlock == Seq(OuterDirective)

LEMMA BlocksPrinted ==
  ASSUME NEW layout
  PROVE  /\ Printed(<<>>, layout) = <<>>
         /\ \A file \in Seq(AnyBlock) :
              /\ Printed(file, layout) \in Seq(Str)
              /\ \A b \in AnyBlock :
                   Printed(Append(file, b), layout)
                     = Printed(file, layout) \o PrintedBlock(b, layout)
<1> DEFINE F == [b \in AnyBlock |-> PrintedBlock(b, layout)]
<1>1. F \in [AnyBlock -> Seq(Str)]
  BY BlockText DEF AnyBlock
<1>2. \A file \in Seq(AnyBlock) : Printed(file, layout) = FlattenSeq(Mapped(F, file))
  <2> SUFFICES ASSUME NEW file \in Seq(AnyBlock)
               PROVE  [i \in DOMAIN file |-> PrintedBlock(file[i], layout)] = Mapped(F, file)
    BY DEF Printed
  <2>1. \A i \in DOMAIN file : file[i] \in AnyBlock
    BY ElementOfSeq, LenProperties
  <2> QED
    BY <2>1 DEF Mapped
<1>3. \A b \in AnyBlock : F[b] = PrintedBlock(b, layout)
  OBVIOUS
<1> HIDE DEF F
<1>4. /\ FlattenSeq(Mapped(F, <<>>)) = <<>>
      /\ \A file \in Seq(AnyBlock) :
           /\ FlattenSeq(Mapped(F, file)) \in Seq(Str)
           /\ \A b \in AnyBlock : FlattenSeq(Mapped(F, Append(file, b)))
                                 = FlattenSeq(Mapped(F, file)) \o F[b]
  BY <1>1, MapFlattens
<1>5. <<>> \in Seq(AnyBlock)
  BY EmptySeq
<1>6. \A file \in Seq(AnyBlock), b \in AnyBlock : Append(file, b) \in Seq(AnyBlock)
  BY AppendProperties
<1> QED
  BY <1>2, <1>3, <1>4, <1>5, <1>6, Zenon

LEMMA BlocksAreRead ==
  ASSUME NEW layout
  PROVE  \A file \in Seq(AnyBlock) :
           LET r == Run(Reader, Printed(file, layout)) IN
           IF \A i \in DOMAIN file : WellFormedBlock(file[i])
           THEN r.at = "file" /\ ~ r.inside /\ r.blocks = file
           ELSE r.at = "refused"
<1> DEFINE Good(b)  == \A i \in DOMAIN b : WellFormedBlock(b[i])
           R(b)     == Run(Reader, Printed(b, layout))
           Is(r, b) == r.at = "file" /\ ~ r.inside /\ r.blocks = b
           T == {b \in Seq(AnyBlock) : IF Good(b) THEN Is(R(b), b) ELSE R(b).at = "refused"}
<1>1. <<>> \in T
  <2>1. R(<<>>) = Reader
    BY BlocksPrinted, RunEmpty
  <2>2. Is(Reader, <<>>)
    BY DEF Reader
  <2>3. Good(<<>>) /\ <<>> \in Seq(AnyBlock)
    BY EmptySeq
  <2> QED
    BY <2>1, <2>2, <2>3
<1>2. ASSUME NEW b \in Seq(AnyBlock), NEW d \in AnyBlock, b \in T
      PROVE  Append(b, d) \in T
  <2> DEFINE a == Append(b, d)
             n == Len(b) + 1
             r == R(b)
             q == R(a)
  <2>1. a \in Seq(AnyBlock) /\ d \in Seq(OuterDirective)
    BY AppendProperties DEF AnyBlock
  <2>2. q = Run(r, PrintedBlock(d, layout)) /\ r \in State
        /\ PrintedBlock(d, layout) \in Seq(Str)
    <3>1. /\ Printed(b, layout) \in Seq(Str) /\ PrintedBlock(d, layout) \in Seq(Str)
          /\ Printed(a, layout) = Printed(b, layout) \o PrintedBlock(d, layout)
      BY <2>1, BlocksPrinted, BlockText
    <3> QED
      BY <3>1, RunConcat, RunKinds, ReaderKinds
  <2>3. Good(a) <=> Good(b) /\ WellFormedBlock(d)
    <3>1. /\ \A i \in DOMAIN a : i = n \/ i \in DOMAIN b
          /\ n \in DOMAIN a /\ a[n] = d /\ \A i \in DOMAIN b : i \in DOMAIN a /\ a[i] = b[i]
      BY OneMore
    <3> HIDE DEF a, n
    <3> QED
      BY <3>1
  <2> HIDE DEF a, r, q
  <2>4. CASE ~ Good(b)
    <3>1. r.at = "refused"
      BY <1>2, <2>4 DEF r
    <3>2. q = r
      BY <2>2, <3>1, RunRefused
    <3> QED
      BY <2>1, <2>3, <2>4, <3>1, <3>2 DEF a, q
  <2>5. CASE Good(b)
    <3>1. Is(r, b)
      BY <1>2, <2>5 DEF r
    <3>2. IF WellFormedBlock(d) THEN Is(q, a) ELSE q.at = "refused"
      BY <2>1, <2>2, <3>1, BlockIsRead DEF a
    <3> QED
      BY <2>1, <2>3, <2>5, <3>2 DEF a, q
  <2> QED
    BY <2>4, <2>5
<1> HIDE DEF T
<1>3. \A b \in Seq(AnyBlock) : b \in T
  BY <1>1, <1>2, SeqInduct
<1> QED
  BY <1>3 DEF T

(***************************************************************************)
(* Every file is read as it was written, or refused, whatever it says and  *)
(* wherever its lines end.                                                 *)
(***************************************************************************)
THEOREM FilesRead == FilesAreRead
<1> SUFFICES ASSUME NEW file \in Written, NEW layout \in Layouts
             PROVE  LET text == Printed(file, layout) IN
                    /\ Accepted(text) <=> \A i \in DOMAIN file : WellFormedBlock(file[i])
                    /\ Accepted(text) => Parsed(text).blocks = file
  BY DEF FilesAreRead
<1>1. file \in Seq(AnyBlock)
  BY WrittenAssumption DEF AnyBlock
<1> QED
  BY <1>1, BlocksAreRead DEF Accepted, Parsed

(***************************************************************************)
(* A file that the program starts with is read as it was written, or       *)
(* refused (extract_server_block_info and processLocationBlock).           *)
(***************************************************************************)
THEOREM FileRead == Spec => []FileIsRead
<1>1. FileIsRead
  BY FilesRead DEF FileIsRead
<1> QED
  BY <1>1, PTL

-----------------------------------------------------------------------------
(***************************************************************************)
(* Texts that lack one of the tokens in N.                                 *)
(***************************************************************************)
LEMMA PartsProperties ==
  ASSUME NEW S, NEW s \in Seq(S), NEW i \in DOMAIN s
  PROVE  /\ SubSeq(s, 1, i - 1) \in Seq(S) /\ Len(SubSeq(s, 1, i - 1)) = i - 1
         /\ \A k \in 1 .. i - 1 : SubSeq(s, 1, i - 1)[k] = s[k]
         /\ SubSeq(s, i + 1, Len(s)) \in Seq(S) /\ Len(SubSeq(s, i + 1, Len(s))) = Len(s) - i
         /\ \A k \in 1 .. Len(s) - i : SubSeq(s, i + 1, Len(s))[k] = s[i + k]
<1> DEFINE n == Len(s)
<1>1. n \in Nat /\ i \in 1 .. n /\ \A k \in 1 .. n : s[k] \in S
  BY LenProperties, ElementOfSeq
<1> HIDE DEF n
<1>2. i - 1 \in Int /\ i + 1 \in Int /\ n \in Int /\ 1 \in Int
      /\ (\A k \in 1 .. i - 1 : k \in 1 .. n) /\ (\A k \in i + 1 .. n : k \in 1 .. n)
  BY <1>1
<1> DEFINE a == SubSeq(s, 1, i - 1)
           b == SubSeq(s, i + 1, n)
<1>3. /\ a \in Seq(S) /\ Len(a) = IF 1 <= i - 1 THEN i - 1 - 1 + 1 ELSE 0
      /\ \A k \in 1 .. i - 1 - 1 + 1 : a[k] = s[1 + k - 1]
  BY <1>1, <1>2, SubSeqProperties
<1>4. /\ b \in Seq(S) /\ Len(b) = IF i + 1 <= n THEN n - (i + 1) + 1 ELSE 0
      /\ \A k \in 1 .. n - (i + 1) + 1 : b[k] = s[i + 1 + k - 1]
  BY <1>1, <1>2, SubSeqProperties
<1> HIDE DEF a, b
<1>5. Len(a) = i - 1 /\ \A k \in 1 .. i - 1 : a[k] = s[k]
  BY <1>1, <1>3
<1>6. Len(b) = n - i /\ \A k \in 1 .. n - i : b[k] = s[i + k]
  BY <1>1, <1>4
<1> QED
  BY <1>3, <1>4, <1>5, <1>6 DEF a, b, n

LEMMA RemoveAtProperties ==
  ASSUME NEW S, NEW s \in Seq(S), NEW i \in DOMAIN s
  PROVE  /\ RemoveAt(s, i) \in Seq(S) /\ Len(RemoveAt(s, i)) = Len(s) - 1
         /\ \A k \in 1 .. Len(s) - 1 : RemoveAt(s, i)[k] = IF k < i THEN s[k] ELSE s[k + 1]
<1> DEFINE n == Len(s)
           a == SubSeq(s, 1, i - 1)
           b == SubSeq(s, i + 1, n)
<1>1. n \in Nat /\ i \in 1 .. n
  BY LenProperties
<1>2. /\ a \in Seq(S) /\ Len(a) = i - 1 /\ \A k \in 1 .. i - 1 : a[k] = s[k]
      /\ b \in Seq(S) /\ Len(b) = n - i /\ \A k \in 1 .. n - i : b[k] = s[i + k]
  BY PartsProperties
<1>3. RemoveAt(s, i) = a \o b
  BY DEF RemoveAt
<1> HIDE DEF a, b, n
<1>4. /\ a \o b \in Seq(S) /\ Len(a \o b) = n - 1
      /\ \A k \in 1 .. n - 1 : (a \o b)[k] = IF k <= i - 1 THEN a[k] ELSE b[k - (i - 1)]
  <2>1. i - 1 + (n - i) = n - 1 /\ i - 1 \in Nat
    BY <1>1
  <2>2. /\ a \o b \in Seq(S) /\ Len(a \o b) = Len(a) + Len(b)
        /\ \A k \in 1 .. Len(a) + Len(b) :
             (a \o b)[k] = IF k <= Len(a) THEN a[k] ELSE b[k - Len(a)]
    BY <1>2, ConcatProperties
  <2>3. Len(a) = i - 1 /\ Len(a) + Len(b) = n - 1
    BY <1>2, <2>1
  <2> QED
    BY <2>2, <2>3
<1>5. ASSUME NEW k \in 1 .. n - 1
      PROVE  (a \o b)[k] = IF k < i THEN s[k] ELSE s[k + 1]
  <2>1. CASE k < i
    BY <1>1, <1>2, <1>4, <2>1
  <2>2. CASE ~ (k < i)
    <3>1. k - (i - 1) \in 1 .. n - i /\ i + (k - (i - 1)) = k + 1 /\ ~ (k <= i - 1)
      BY <1>1, <2>2
    <3> QED
      BY <1>2, <1>4, <2>2, <3>1
  <2> QED
    BY <2>1, <2>2
<1> QED
  BY <1>3, <1>4, <1>5 DEF n

LEMMA RemoveFromFirst ==
  ASSUME NEW S, NEW a \in Seq(S), NEW b \in Seq(S), NEW i \in DOMAIN a
  PROVE  RemoveAt(a \o b, i) = RemoveAt(a, i) \o b /\ (a \o b)[i] = a[i]
<1> DEFINE m == Len(a)
           n == Len(b)
           c == a \o b
           x == RemoveAt(c, i)
           y == RemoveAt(a, i)
           z == y \o b
<1>1. m \in Nat /\ n \in Nat /\ i \in 1 .. m
  BY LenProperties
<1>2. /\ c \in Seq(S) /\ Len(c) = m + n
      /\ \A k \in 1 .. m + n : c[k] = IF k <= m THEN a[k] ELSE b[k - m]
  BY ConcatProperties
<1>3. /\ y \in Seq(S) /\ Len(y) = m - 1
      /\ \A k \in 1 .. m - 1 : y[k] = IF k < i THEN a[k] ELSE a[k + 1]
  BY RemoveAtProperties
<1> HIDE DEF c, y, m, n
<1>4. i \in DOMAIN c
  <2>1. i \in 1 .. m + n
    BY <1>1
  <2> QED
    BY <1>2, <2>1, LenProperties
<1>5. /\ x \in Seq(S) /\ Len(x) = m + n - 1
      /\ \A k \in 1 .. m + n - 1 : x[k] = IF k < i THEN c[k] ELSE c[k + 1]
  <2>1. /\ x \in Seq(S) /\ Len(x) = Len(c) - 1
        /\ \A k \in 1 .. Len(c) - 1 : x[k] = IF k < i THEN c[k] ELSE c[k + 1]
    BY <1>2, <1>4, RemoveAtProperties
  <2> HIDE DEF x
  <2>2. Len(c) - 1 = m + n - 1
    BY <1>1, <1>2
  <2> QED
    BY <2>1, <2>2
<1>6. /\ z \in Seq(S) /\ Len(z) = m - 1 + n
      /\ \A k \in 1 .. m - 1 + n : z[k] = IF k <= m - 1 THEN y[k] ELSE b[k - (m - 1)]
  BY <1>3, ConcatProperties DEF n
<1> HIDE DEF x, z
<1>7. ASSUME NEW k \in 1 .. m + n - 1
      PROVE  x[k] = z[k]
  <2>0. k \in 1 .. m - 1 + n
    BY <1>1
  <2>1. CASE k < i
    <3>1. k \in 1 .. m - 1 /\ k \in 1 .. m + n /\ k <= m /\ k <= m - 1
      BY <1>1, <2>1
    <3> QED
      BY <1>2, <1>3, <1>5, <1>6, <2>0, <2>1, <3>1
  <2>2. CASE i <= k /\ k <= m - 1
    <3>1. k \in 1 .. m - 1 /\ k + 1 \in 1 .. m + n /\ k + 1 <= m /\ k <= m - 1 /\ ~ (k < i)
      BY <1>1, <2>2
    <3> QED
      BY <1>2, <1>3, <1>5, <1>6, <2>0, <3>1
  <2>3. CASE m <= k
    <3>1. /\ k + 1 \in 1 .. m + n /\ ~ (k + 1 <= m) /\ ~ (k <= m - 1) /\ ~ (k < i)
          /\ k + 1 - m = k - (m - 1)
      BY <1>1, <2>3
    <3> DEFINE l == k + 1
    <3>2. x[k] = c[l] /\ z[k] = b[k - (m - 1)]
      BY <1>5, <1>6, <2>0, <3>1
    <3>3. l \in 1 .. m + n /\ ~ (l <= m) /\ l - m = k - (m - 1)
      BY <1>1, <3>1
    <3> HIDE DEF l
    <3>4. c[l] = b[l - m]
      BY <1>2, <3>3
    <3> QED
      BY <3>2, <3>3, <3>4
  <2> QED
    BY <1>1, <2>1, <2>2, <2>3
<1>8. m + n - 1 = m - 1 + n
  BY <1>1
<1>9. x = z
  BY <1>5, <1>6, <1>7, <1>8, SeqEqual
<1>10. c[i] = a[i]
  BY <1>1, <1>2
<1> QED
  BY <1>9, <1>10 DEF x, z, y, c

LEMMA RemoveFromSecond ==
  ASSUME NEW S, NEW a \in Seq(S), NEW b \in Seq(S), NEW j \in DOMAIN b
  PROVE  /\ RemoveAt(a \o b, Len(a) + j) = a \o RemoveAt(b, j)
         /\ (a \o b)[Len(a) + j] = b[j]
<1> DEFINE m == Len(a)
           n == Len(b)
           i == m + j
           c == a \o b
           x == RemoveAt(c, i)
           y == RemoveAt(b, j)
           z == a \o y
<1>1. m \in Nat /\ n \in Nat /\ j \in 1 .. n
  BY LenProperties
<1>2. /\ c \in Seq(S) /\ Len(c) = m + n
      /\ \A k \in 1 .. m + n : c[k] = IF k <= m THEN a[k] ELSE b[k - m]
  BY ConcatProperties
<1>3. /\ y \in Seq(S) /\ Len(y) = n - 1
      /\ \A k \in 1 .. n - 1 : y[k] = IF k < j THEN b[k] ELSE b[k + 1]
  BY RemoveAtProperties
<1> HIDE DEF c, y, m, n
<1>4. i \in DOMAIN c /\ i \in m + 1 .. m + n
  <2>1. i \in 1 .. m + n /\ i \in m + 1 .. m + n
    BY <1>1
  <2> HIDE DEF i
  <2> QED
    BY <1>2, <2>1, LenProperties
<1>0. i = m + j
  OBVIOUS
<1> HIDE DEF i
<1>5. /\ x \in Seq(S) /\ Len(x) = m + n - 1
      /\ \A k \in 1 .. m + n - 1 : x[k] = IF k < i THEN c[k] ELSE c[k + 1]
  <2>1. /\ x \in Seq(S) /\ Len(x) = Len(c) - 1
        /\ \A k \in 1 .. Len(c) - 1 : x[k] = IF k < i THEN c[k] ELSE c[k + 1]
    BY <1>2, <1>4, RemoveAtProperties
  <2> HIDE DEF x
  <2>2. Len(c) - 1 = m + n - 1
    BY <1>1, <1>2
  <2> QED
    BY <2>1, <2>2
<1>6. /\ z \in Seq(S) /\ Len(z) = m + (n - 1)
      /\ \A k \in 1 .. m + (n - 1) : z[k] = IF k <= m THEN a[k] ELSE y[k - m]
  BY <1>3, ConcatProperties DEF m
<1> HIDE DEF x, z
<1>7. ASSUME NEW k \in 1 .. m + n - 1
      PROVE  x[k] = z[k]
  <2>1. CASE k <= m
    <3>1. k < i /\ k \in 1 .. m + n /\ k \in 1 .. m + (n - 1)
      BY <1>0, <1>1, <2>1
    <3> QED
      BY <1>2, <1>5, <1>6, <2>1, <3>1
  <2>2. CASE m < k /\ k < i
    <3>1. /\ k - m \in 1 .. n - 1 /\ k - m < j /\ ~ (k <= m)
          /\ k \in 1 .. m + n /\ k \in 1 .. m + (n - 1)
      BY <1>0, <1>1, <2>2
    <3> QED
      BY <1>2, <1>3, <1>5, <1>6, <2>2, <3>1
  <2>3. CASE i <= k
    <3>1. /\ k - m \in 1 .. n - 1 /\ ~ (k - m < j) /\ ~ (k <= m) /\ ~ (k + 1 <= m) /\ ~ (k < i)
          /\ k + 1 \in 1 .. m + n /\ k \in 1 .. m + (n - 1) /\ k + 1 - m = k - m + 1
      BY <1>0, <1>1, <2>3
    <3> QED
      <4> DEFINE l == k + 1
                 e == k - m
      <4>1. x[k] = c[l] /\ z[k] = y[e]
        BY <1>5, <1>6, <3>1
      <4>2. /\ l \in 1 .. m + n /\ ~ (l <= m) /\ l - m = e + 1
            /\ e \in 1 .. n - 1 /\ ~ (e < j)
        BY <1>1, <3>1
      <4> HIDE DEF l, e
      <4>3. c[l] = b[l - m]
        BY <1>2, <4>2
      <4>4. y[e] = b[e + 1]
        BY <1>3, <4>2
      <4> QED
        BY <4>1, <4>2, <4>3, <4>4
  <2> QED
    BY <1>0, <1>1, <2>1, <2>2, <2>3
<1>8. m + n - 1 = m + (n - 1)
  BY <1>1
<1>9. x = z
  BY <1>5, <1>6, <1>7, <1>8, SeqEqual
<1>10. c[i] = b[j]
  <2>1. i - m = j /\ i \in 1 .. m + n /\ ~ (i <= m)
    BY <1>0, <1>1
  <2> QED
    BY <1>2, <2>1
<1> QED
  BY <1>9, <1>10 DEF x, z, y, c, i, m

Lacks(N, a) == {RemoveAt(a, i) : i \in {j \in DOMAIN a : a[j] \in N}}

\* The concatenations of which one part lacks a token.
FirstLacks(N, a, b)  == {y \o b : y \in Lacks(N, a)}
SecondLacks(N, a, b) == {a \o y : y \in Lacks(N, b)}

LEMMA LacksKinds ==
  ASSUME NEW S, NEW N, NEW a \in Seq(S)
  PROVE  Lacks(N, a) \subseteq Seq(S)
BY RemoveAtProperties DEF Lacks

LEMMA LacksConcat ==
  ASSUME NEW S, NEW N, NEW a \in Seq(S), NEW b \in Seq(S)
  PROVE  Lacks(N, a \o b) \subseteq FirstLacks(N, a, b) \cup SecondLacks(N, a, b)
<1> DEFINE m == Len(a)
           n == Len(b)
           c == a \o b
<1>1. m \in Nat /\ n \in Nat /\ DOMAIN a = 1 .. m /\ DOMAIN b = 1 .. n
  BY LenProperties
<1>2. c \in Seq(S) /\ Len(c) = m + n
  BY ConcatProperties
<1> HIDE DEF c, m, n
<1> SUFFICES ASSUME NEW x \in Lacks(N, c)
             PROVE  \/ \E y \in Lacks(N, a) : x = y \o b
                    \/ \E y \in Lacks(N, b) : x = a \o y
  BY DEF c, FirstLacks, SecondLacks
<1>3. DOMAIN c = 1 .. m + n
  BY <1>2, LenProperties
<1>4. PICK i \in DOMAIN c : c[i] \in N /\ x = RemoveAt(c, i)
  BY DEF Lacks
<1>5. CASE i <= m
  <2>1. i \in DOMAIN a
    BY <1>1, <1>3, <1>5
  <2>2. x = RemoveAt(a, i) \o b /\ c[i] = a[i]
    BY <1>4, <2>1, RemoveFromFirst DEF c
  <2>3. RemoveAt(a, i) \in Lacks(N, a)
    BY <1>4, <2>1, <2>2 DEF Lacks
  <2> QED
    BY <2>2, <2>3
<1>6. CASE ~ (i <= m)
  <2> DEFINE j == i - m
  <2>1. j \in 1 .. n /\ i = m + j
    BY <1>1, <1>3, <1>6
  <2> HIDE DEF j
  <2>2. j \in DOMAIN b
    BY <1>1, <2>1
  <2>3. x = a \o RemoveAt(b, j) /\ c[i] = b[j]
    BY <1>4, <2>1, <2>2, RemoveFromSecond DEF c, m
  <2>4. RemoveAt(b, j) \in Lacks(N, b)
    BY <1>4, <2>2, <2>3 DEF Lacks
  <2> QED
    BY <2>3, <2>4
<1> QED
  BY <1>5, <1>6

LEMMA LacksOne ==
  ASSUME NEW N, NEW t, NEW x \in Lacks(N, <<t>>)
  PROVE  t \in N /\ x = <<>>
<1> DEFINE S == {t}
           s == <<t>>
<1>1. s \in Seq(S) /\ Len(s) = 1 /\ DOMAIN s = {1} /\ s[1] = t
  OBVIOUS
<1>2. PICK i \in DOMAIN s : s[i] \in N /\ x = RemoveAt(s, i)
  BY DEF Lacks
<1> HIDE DEF s, S
<1>3. x \in Seq(S) /\ Len(x) = 0
  BY <1>1, <1>2, RemoveAtProperties
<1>4. x = <<>>
  BY <1>3, Lengths
<1> QED
  BY <1>1, <1>2, <1>4

LEMMA LacksNone ==
  ASSUME NEW N, NEW a, \A i \in DOMAIN a : a[i] \notin N
  PROVE  Lacks(N, a) = {}
BY DEF Lacks

LEMMA LacksAfter ==
  ASSUME NEW S, NEW N, NEW a \in Seq(S), NEW b \in Seq(S), Lacks(N, a) = {}
  PROVE  Lacks(N, a \o b) \subseteq SecondLacks(N, a, b)
<1>1. Lacks(N, a \o b) \subseteq FirstLacks(N, a, b) \cup SecondLacks(N, a, b)
  BY LacksConcat
<1>2. FirstLacks(N, a, b) = {}
  BY DEF FirstLacks
<1> QED
  BY <1>1, <1>2

LEMMA LacksBefore ==
  ASSUME NEW S, NEW N, NEW a \in Seq(S), NEW b \in Seq(S), Lacks(N, b) = {}
  PROVE  Lacks(N, a \o b) \subseteq FirstLacks(N, a, b)
<1>1. Lacks(N, a \o b) \subseteq FirstLacks(N, a, b) \cup SecondLacks(N, a, b)
  BY LacksConcat
<1>2. SecondLacks(N, a, b) = {}
  BY DEF SecondLacks
<1> QED
  BY <1>1, <1>2

LEMMA LacksNeither ==
  ASSUME NEW S, NEW N, NEW a \in Seq(S), NEW b \in Seq(S), Lacks(N, a) = {}, Lacks(N, b) = {}
  PROVE  Lacks(N, a \o b) = {}
<1>1. Lacks(N, a \o b) \subseteq SecondLacks(N, a, b)
  BY LacksAfter
<1>2. SecondLacks(N, a, b) = {}
  BY DEF SecondLacks
<1> QED
  BY <1>1, <1>2

\* What is not needed: words, line ends and names.
LEMMA NotNeeded ==
  ASSUME NEW layout
  PROVE  LET N == Needed(layout) IN
         /\ N \subseteq {"{", "}", ";"} /\ (layout = "flat" => ";" \notin N)
         /\ \A ws \in Seq(Word) : Lacks(N, ws) = {}
         /\ \A w \in Word : Lacks(N, <<w>>) = {}
         /\ Lacks(N, Soft(layout)) = {} /\ Lacks(N, Hard(layout)) = {}
         /\ Lacks(N, <<"location">>) = {} /\ Lacks(N, <<"server">>) = {}
<1> DEFINE N == Needed(layout)
<1>1. N \subseteq {"{", "}", ";"} /\ (layout = "flat" => ";" \notin N)
  BY DEF Needed
<1> HIDE DEF N
<1>2. \A w \in Word : w \notin N
  BY <1>1, WordKinds
<1>3. "eol" \notin N /\ "location" \notin N /\ "server" \notin N
  BY <1>1
<1>4. \A t : t \notin N => Lacks(N, <<t>>) = {}
  BY LacksOne
<1>5. ASSUME NEW ws \in Seq(Word)
      PROVE  Lacks(N, ws) = {}
  <2>1. \A i \in DOMAIN ws : ws[i] \notin N
    BY <1>2, ElementOfSeq, LenProperties
  <2> QED
    BY <2>1, LacksNone
<1>6. Lacks(N, <<>>) = {}
  <2>1. \A i \in DOMAIN <<>> : <<>>[i] \notin N
    OBVIOUS
  <2> QED
    BY <2>1, LacksNone
<1>7. Lacks(N, Soft(layout)) = {} /\ Lacks(N, Hard(layout)) = {}
  BY <1>3, <1>4, <1>6 DEF Soft, Hard
<1> QED
  BY <1>1, <1>2, <1>3, <1>4, <1>5, <1>7 DEF N

\* A text in braces with a needed token missing: a brace, or one of the text.
BracedLacks(text, layout) ==
  {Hard(layout) \o text \o <<"}">> \o Hard(layout), <<"{">> \o Hard(layout) \o text \o Hard(layout)}
    \cup {Braced(y, layout) : y \in Lacks(Needed(layout), text)}

LEMMA LacksBraced ==
  ASSUME NEW text \in Seq(Str), NEW layout
  PROVE  Lacks(Needed(layout), Braced(text, layout))
           \subseteq BracedLacks(text, layout)
<1> DEFINE N == Needed(layout)
           a == <<"{">>
           h == Hard(layout)
           e == <<"}">>
           b == a \o h
           c == b \o text
           f == c \o e
           g == f \o h
<1>1. a \in Seq(Str) /\ h \in Seq(Str) /\ e \in Seq(Str)
  BY TokenKinds
<1>2. Lacks(N, h) = {}
  BY NotNeeded
<1>3. (\A y \in Lacks(N, a) : y = <<>>) /\ (\A y \in Lacks(N, e) : y = <<>>)
  BY LacksOne
<1>4. \A t : Braced(t, layout) = a \o h \o t \o e \o h
  BY DEF Braced
<1> HIDE DEF N, a, h, e
<1>5. b \in Seq(Str) /\ c \in Seq(Str) /\ f \in Seq(Str)
  BY <1>1, ConcatProperties
<1>6. Braced(text, layout) = g
  BY <1>4
<1> HIDE DEF c, f
<1>7. Lacks(N, g) \subseteq FirstLacks(N, f, h)
  BY <1>1, <1>2, <1>5, LacksBefore
<1>8. Lacks(N, f) \subseteq FirstLacks(N, c, e) \cup SecondLacks(N, c, e)
  BY <1>1, <1>5, LacksConcat DEF f
<1> HIDE DEF b
<1>9. Lacks(N, c) \subseteq FirstLacks(N, b, text) \cup SecondLacks(N, b, text)
  BY <1>5, LacksConcat DEF c
<1>10. Lacks(N, b) \subseteq FirstLacks(N, a, h)
  BY <1>1, <1>2, LacksBefore DEF b
<1> HIDE DEF g
<1> SUFFICES ASSUME NEW x \in Lacks(N, g)
             PROVE  \/ x = h \o text \o e \o h
                    \/ \E y \in Lacks(N, text) : x = Braced(y, layout)
                    \/ x = a \o h \o text \o h
  BY <1>6 DEF N, a, h, e, BracedLacks
<1>11. PICK y1 \in Lacks(N, f) : x = y1 \o h
  BY <1>7 DEF FirstLacks
<1>12. CASE \E y \in Lacks(N, e) : y1 = c \o y
  <2>1. y1 = c \o <<>>
    BY <1>3, <1>12
  <2>2. y1 = c
    BY <1>5, <2>1, ConcatEmptySeq
  <2> QED
    BY <1>11, <2>2 DEF b, c
<1>13. CASE \E y \in Lacks(N, c) : y1 = y \o e
  <2>1. PICK y2 \in Lacks(N, c) : y1 = y2 \o e
    BY <1>13
  <2>2. CASE \E y \in Lacks(N, text) : y2 = b \o y
    BY <1>4, <1>11, <2>1, <2>2 DEF b
  <2>3. CASE \E y \in Lacks(N, b) : y2 = y \o text
    <3>1. PICK y3 \in Lacks(N, b) : y2 = y3 \o text
      BY <2>3
    <3>2. PICK y4 \in Lacks(N, a) : y3 = y4 \o h
      BY <1>10 DEF FirstLacks
    <3>3. y3 = h
      BY <1>1, <1>3, <3>2, ConcatEmptySeq
    <3> QED
      BY <1>11, <2>1, <3>1, <3>3
  <2> QED
    BY <1>9, <2>1, <2>2, <2>3 DEF FirstLacks, SecondLacks
<1> QED
  BY <1>8, <1>11, <1>12, <1>13 DEF FirstLacks, SecondLacks

\* A line whose semicolon is missing is refused at the end of the line.
LEMMA SemicolonMatters ==
  ASSUME NEW s \in State, s.at = "block", NEW d \in LineDirective, NEW layout,
         d.name = "location" => s.inside, NEW x \in Lacks(Needed(layout), PrintedLine(d, layout))
  PROVE  Run(s, x).at = "refused"
<1> DEFINE N == Needed(layout)
           a == <<d.name>>
           b == Soft(layout)
           w == d.words
           e == <<EndSign(d.words)>>
           h == Hard(layout)
           c == Run(Run(Run(s, a), b), w)
<1>1. a \in Seq(Str) /\ b \in Seq(Str) /\ w \in Seq(Str) /\ e \in Seq(Str) /\ h \in Seq(Str)
      /\ w \in Seq(Word) /\ d.name \in Word
  BY LineKinds
<1>2. Lacks(N, a) = {} /\ Lacks(N, b) = {} /\ Lacks(N, w) = {} /\ Lacks(N, h) = {}
  BY <1>1, NotNeeded
<1>3. x \in Lacks(N, a \o b \o w \o e \o h)
  BY DEF PrintedLine, EndSign
<1>4. \A y \in Lacks(N, e) : y = <<>> /\ EndSign(d.words) \in N
  BY LacksOne
<1>5. IF d.name \in Allowed(s) /\ ~ (d.name \in SingleDirectives /\ Len(d.words) > 1)
      THEN /\ c \in State /\ c.name = d.name /\ c.words = d.words
           /\ c.at = "words" \/ (c.at = "name" /\ d.words = <<>>)
      ELSE c.at = "refused"
  BY WordsOfLine
<1>6. d.name \in Allowed(s) => d.name # "location"
  BY NamesAreKnown DEF Allowed
<1> HIDE DEF N, a, b, w, e, h
<1>7. /\ a \o b \in Seq(Str) /\ a \o b \o w \in Seq(Str) /\ a \o b \o w \o e \in Seq(Str)
  BY <1>1, ConcatProperties
<1>8. Lacks(N, a \o b) = {}
  BY <1>1, <1>2, LacksNeither
<1>9. Lacks(N, a \o b \o w) = {}
  BY <1>1, <1>2, <1>7, <1>8, LacksNeither
<1> DEFINE u == a \o b \o w
           v == u \o e
<1>10. u \in Seq(Str) /\ v \in Seq(Str) /\ Lacks(N, u) = {} /\ x \in Lacks(N, v \o h)
  BY <1>3, <1>7, <1>9
<1>11. Run(s, u) = c
  BY <1>1, RunThree
<1> HIDE DEF u
<1>12. PICK z \in Lacks(N, e) : x = (u \o z) \o h
  <2>1. Lacks(N, v) \subseteq SecondLacks(N, u, e)
    BY <1>1, <1>10, LacksAfter
  <2> HIDE DEF v
  <2>2. Lacks(N, v \o h) \subseteq FirstLacks(N, v, h)
    BY <1>1, <1>2, <1>10, LacksBefore
  <2>3. PICK y \in Lacks(N, v) : x = y \o h
    BY <1>10, <2>2 DEF FirstLacks
  <2>4. PICK z \in Lacks(N, e) : y = u \o z
    BY <2>1 DEF SecondLacks
  <2> QED
    BY <2>3, <2>4
<1>0. x = u \o h /\ EndSign(d.words) \in N
  BY <1>4, <1>10, <1>12, ConcatEmptySeq
<1> HIDE DEF v, c
<1>13. Run(s, x) = Run(c, h)
  BY <1>0, <1>1, <1>10, <1>11, RunConcat
<1>14. EndSign(d.words) = ";" /\ d.words # <<>> /\ layout # "flat"
  BY <1>0, NotNeeded DEF EndSign, N
<1>15. Run(c, h) = Read(c, "eol")
  BY <1>14, RunOne DEF h, Hard
<1>16. CASE c.at = "refused"
  <2>1. Read(c, "eol") = c
    BY <1>16 DEF Read
  <2> QED
    BY <1>13, <1>15, <1>16, <2>1
<1>17. CASE c.at # "refused"
  <2>1. c \in State /\ c.name # "location" /\ c.words # <<>> /\ c.at = "words"
    BY <1>5, <1>6, <1>14, <1>17
  <2>2. Read(c, "eol") = Refused(c)
    BY <2>1 DEF Read, AtWords
  <2> QED
    BY <1>13, <1>15, <2>1, <2>2, RefusedKinds
<1> QED
  BY <1>16, <1>17

LEMMA LacksEmpty == \A N : Lacks(N, <<>>) = {}
<1> SUFFICES ASSUME NEW N PROVE Lacks(N, <<>>) = {}
  OBVIOUS
<1>1. \A i \in DOMAIN <<>> : <<>>[i] \notin N
  OBVIOUS
<1> QED
  BY <1>1, LacksNone

LEMMA LinesMatter ==
  ASSUME NEW s \in State, s.at = "block", s.inside, s.place = <<>>, NEW layout
  PROVE  \A ds \in Seq(LineDirective) :
           \A x \in Lacks(Needed(layout), PrintedLines(ds, layout)) : Run(s, x).at = "refused"
<1> DEFINE N == Needed(layout)
           T == {ds \in Seq(LineDirective) :
                   \A x \in Lacks(N, PrintedLines(ds, layout)) : Run(s, x).at = "refused"}
<1>1. <<>> \in T
  BY EmptySeq, LinesPrinted, LacksEmpty
<1>2. ASSUME NEW ds \in Seq(LineDirective), NEW d \in LineDirective, ds \in T
      PROVE  Append(ds, d) \in T
  <2> DEFINE a == Append(ds, d)
             p == PrintedLines(ds, layout)
             l == PrintedLine(d, layout)
             r == Run(s, p)
  <2>1. a \in Seq(LineDirective)
    BY AppendProperties
  <2>2. p \in Seq(Str) /\ l \in Seq(Str) /\ PrintedLines(a, layout) = p \o l
    BY LinesPrinted, LineKinds
  <2>3. r.at = "refused" \/ (r.at = "block" /\ r.inside)
    BY LinesAreRead
  <2>4. r \in State
    BY <2>2, RunKinds
  <2>5. ASSUME NEW x \in Lacks(N, p \o l)
        PROVE  Run(s, x).at = "refused"
    <3> HIDE DEF N
    <3>1. x \in FirstLacks(N, p, l) \/ x \in SecondLacks(N, p, l)
      <4> HIDE DEF p, l
      <4>1. Lacks(N, p \o l) \subseteq FirstLacks(N, p, l) \cup SecondLacks(N, p, l)
        BY <2>2, LacksConcat
      <4> QED
        BY <2>5, <4>1
    <3>2. CASE x \in FirstLacks(N, p, l)
      <4>1. PICK y \in Lacks(N, p) : x = y \o l
        BY <3>2 DEF FirstLacks
      <4>2. Run(s, y).at = "refused"
        BY <1>2
      <4> HIDE DEF p, l
      <4>3. y \in Seq(Str)
        BY <2>2, LacksKinds
      <4>4. Run(s, x) = Run(Run(s, y), l)
        BY <2>2, <4>1, <4>3, RunConcat
      <4> QED
        BY <2>2, <4>2, <4>4, RunRefused
    <3>3. CASE x \in SecondLacks(N, p, l)
      <4>1. PICK y \in Lacks(N, l) : x = p \o y
        BY <3>3 DEF SecondLacks
      <4>2. r.inside /\ r.at = "block" => Run(r, y).at = "refused"
        <5> HIDE DEF r
        <5> QED
          BY <2>4, SemicolonMatters DEF N
      <4>3. y \in Seq(Str)
        <5> HIDE DEF p, l
        <5> QED
          BY <2>2, LacksKinds
      <4>4. Run(s, x) = Run(r, y)
        <5> HIDE DEF p, l
        <5> QED
          BY <2>2, <4>1, <4>3, RunConcat
      <4>5. CASE r.at = "refused"
        <5> HIDE DEF r
        <5>1. Run(r, y) = r
          BY <4>3, <4>5, RunRefused
        <5> QED
          BY <4>4, <4>5, <5>1
      <4> QED
        BY <2>3, <4>2, <4>4, <4>5
    <3> QED
      BY <3>1, <3>2, <3>3
  <2> QED
    BY <2>1, <2>2, <2>5
<1> HIDE DEF T
<1>3. \A ds \in Seq(LineDirective) : ds \in T
  BY <1>1, <1>2, SeqInduct
<1> QED
  BY <1>3 DEF T

\* A line whose first word is refused.
LEMMA LineIsRefused ==
  ASSUME NEW s \in State, NEW layout, NEW d \in LineDirective,
         Run(s, <<d.name>>).at = "refused"
  PROVE  Run(s, PrintedLine(d, layout)).at = "refused"
<1> DEFINE a == Run(s, <<d.name>>)
<1>1. /\ d.name \in Word /\ Soft(layout) \in Seq(Str) /\ d.words \in Seq(Str)
      /\ <<EndSign(d.words)>> \in Seq(Str) /\ Hard(layout) \in Seq(Str)
  BY LineKinds
<1>2. Run(s, PrintedLine(d, layout))
        = Run(Run(Run(Run(a, Soft(layout)), d.words), <<EndSign(d.words)>>), Hard(layout))
  BY LineRun
<1> HIDE DEF a
<1>3. \A t \in Seq(Str) : Run(a, t) = a
  BY RunRefused DEF a
<1> QED
  BY <1>1, <1>2, <1>3 DEF a

\* Where the opening brace of a location is due, a name is refused that hides no
\* other behind its first letter.
Bare(name) == Rest(name) \notin InLocation \cup {""}

LEMMA LineIsNoBrace ==
  ASSUME NEW s \in State, s.at = "brace", NEW layout, NEW d \in LineDirective, Bare(d.name)
  PROVE  Run(s, PrintedLine(d, layout)).at = "refused"
<1> DEFINE o == [s EXCEPT !.at = "block", !.inside = TRUE, !.place = <<>>]
<1>1. d.name \in Word /\ d.name \notin Signs /\ d.name # "eol"
  BY LineKinds, WordKinds
<1>2. Run(s, <<d.name>>) = AtBrace(s, d.name)
  BY RunOne DEF Read
<1>3. AtBrace(s, d.name) = Named(o, Rest(d.name))
  BY <1>1 DEF AtBrace, Bare
<1>4. o \in State /\ o.inside
  BY EmptySeq DEF State, Str
<1> HIDE DEF o
<1>5. Named(o, Rest(d.name)) = Refused(o)
  BY <1>4 DEF Named, Bare
<1>6. Run(s, <<d.name>>).at = "refused"
  BY <1>2, <1>3, <1>4, <1>5, RefusedKinds
<1> QED
  BY <1>6, LineIsRefused

\* Where the opening brace of a block is due, every directive is refused.
LEMMA NameIsNoBrace ==
  ASSUME NEW s \in State, s.at = "server", NEW layout
  PROVE  \A d \in OuterDirective : Run(s, PrintedDirective(d, layout)).at = "refused"
<1>1. ASSUME NEW w \in Str, w \notin Signs, w # "eol"
      PROVE  Run(s, <<w>>).at = "refused"
  <2>1. Run(s, <<w>>) = Refused(s)
    BY <1>1, RunOne DEF Read, AtServer, Signs
  <2> QED
    BY <2>1, RefusedKinds
<1>2. ASSUME NEW d \in LineDirective
      PROVE  Run(s, PrintedLine(d, layout)).at = "refused"
  <2>1. d.name \in Word
    BY LineKinds
  <2>2. Run(s, <<d.name>>).at = "refused"
    BY <1>1, <2>1, WordKinds
  <2> QED
    BY <2>2, LineIsRefused
<1>3. ASSUME NEW d \in LocationDirective
      PROVE  Run(s, PrintedDirective(d, layout)).at = "refused"
  <2> DEFINE a == Run(s, <<"location">>)
             x == Opening(d, layout)
             y == Braced(PrintedLines(d.inner, layout), layout)
  <2>1. "location" \in Str /\ "location" \notin Signs
    BY TokenKinds DEF Signs
  <2>2. a.at = "refused"
    BY <1>1, <2>1
  <2>3. /\ x \in Seq(Str) /\ y \in Seq(Str) /\ PrintedDirective(d, layout) = x \o y
        /\ <<"location">> \in Seq(Str) /\ Soft(layout) \in Seq(Str) /\ d.words \in Seq(Str)
    BY LocationText, LocationKinds
  <2>4. Run(s, x) = Run(Run(a, Soft(layout)), d.words)
    <3> DEFINE u == <<"location">>
               v == Soft(layout)
               w == d.words
    <3>1. u \in Seq(Str) /\ v \in Seq(Str) /\ w \in Seq(Str) /\ x = u \o v \o w
      BY <2>3 DEF Opening
    <3> HIDE DEF u, v, w, x
    <3>2. Run(s, u \o v \o w) = Run(Run(Run(s, u), v), w)
      BY <3>1, RunThree
    <3> QED
      BY <3>1, <3>2 DEF u, v, w
  <2> HIDE DEF a, x, y
  <2>5. \A t \in Seq(Str) : Run(a, t) = a
    BY <2>2, RunRefused
  <2>6. Run(s, x \o y) = Run(Run(s, x), y)
    BY <2>3, RunConcat
  <2> QED
    BY <2>2, <2>3, <2>4, <2>5, <2>6
<1> QED
  BY <1>2, <1>3, OuterKinds

\* So the first of the location's directives decides.
LEMMA LinesAreNoBrace ==
  ASSUME NEW s \in State, s.at = "brace", NEW layout
  PROVE  \A ds \in Seq(LineDirective) :
           ds # <<>> /\ Bare(ds[1].name) => Run(s, PrintedLines(ds, layout)).at = "refused"
<1> DEFINE Goal(ds) ==
             ds # <<>> /\ Bare(ds[1].name) => Run(s, PrintedLines(ds, layout)).at = "refused"
           T == {ds \in Seq(LineDirective) : Goal(ds)}
<1>1. <<>> \in T
  BY EmptySeq
<1>2. ASSUME NEW ds \in Seq(LineDirective), NEW d \in LineDirective, ds \in T
      PROVE  Append(ds, d) \in T
  <2> DEFINE a == Append(ds, d)
             p == PrintedLines(ds, layout)
             l == PrintedLine(d, layout)
  <2>1. a \in Seq(LineDirective)
    BY AppendProperties
  <2>2. p \in Seq(Str) /\ l \in Seq(Str) /\ PrintedLines(a, layout) = p \o l
    BY LinesPrinted, LineKinds
  <2>3. Run(s, p \o l) = Run(Run(s, p), l)
    <3> HIDE DEF p, l
    <3> QED
      BY <2>2, RunConcat
  <2>4. CASE ds = <<>>
    <3>1. Run(s, p) = s
      BY <2>4, LinesPrinted, RunEmpty
    <3>2. a[1] = d
      BY <2>4
    <3>3. Bare(a[1].name) => Run(s, l).at = "refused"
      <4> HIDE DEF a, l
      <4> QED
        BY <3>2, LineIsNoBrace DEF l
    <3> HIDE DEF p, l, a
    <3>4. Goal(a)
      BY <2>2, <2>3, <3>1, <3>3
    <3> HIDE DEF Goal
    <3> QED
      BY <2>1, <3>4 DEF a
  <2>5. CASE ds # <<>>
    <3>1. a[1] = ds[1]
      <4>1. Len(ds) \in Nat /\ 1 \in 1 .. Len(ds)
        BY <2>5, LenProperties, EmptySeq
      <4> QED
        BY <4>1, AppendProperties
    <3>2. Bare(ds[1].name) => Run(s, p).at = "refused"
      BY <1>2, <2>5
    <3> HIDE DEF p, l
    <3>3. Run(s, p).at = "refused" => Run(Run(s, p), l) = Run(s, p)
      BY <2>2, RunRefused
    <3> HIDE DEF a
    <3>4. Goal(a)
      BY <2>2, <2>3, <3>1, <3>2, <3>3
    <3> HIDE DEF Goal
    <3> QED
      BY <2>1, <3>4 DEF a
  <2> QED
    BY <2>4, <2>5
<1> HIDE DEF T
<1>3. \A ds \in Seq(LineDirective) : ds \in T
  BY <1>1, <1>2, SeqInduct
<1> QED
  BY <1>3 DEF T

LEMMA DirectivesAreNoBrace ==
  ASSUME NEW s \in State, s.at = "server", NEW layout
  PROVE  \A b \in Seq(OuterDirective) :
           b = <<>> \/ Run(s, PrintedDirectives(b, layout)).at = "refused"
<1> DEFINE T == {b \in Seq(OuterDirective) :
                   b = <<>> \/ Run(s, PrintedDirectives(b, layout)).at = "refused"}
<1>1. <<>> \in T
  BY EmptySeq
<1>2. ASSUME NEW b \in Seq(OuterDirective), NEW d \in OuterDirective, b \in T
      PROVE  Append(b, d) \in T
  <2> DEFINE a == Append(b, d)
             p == PrintedDirectives(b, layout)
             l == PrintedDirective(d, layout)
  <2>1. a \in Seq(OuterDirective)
    BY AppendProperties
  <2>2. p \in Seq(Str) /\ l \in Seq(Str) /\ PrintedDirectives(a, layout) = p \o l
    BY DirectivesPrinted, OuterKinds
  <2>3. Run(s, p \o l) = Run(Run(s, p), l)
    <3> HIDE DEF p, l
    <3> QED
      BY <2>2, RunConcat
  <2>4. CASE b = <<>>
    <3>1. Run(s, p) = s
      BY <2>4, DirectivesPrinted, RunEmpty
    <3>2. Run(s, l).at = "refused"
      BY NameIsNoBrace
    <3> HIDE DEF p, l, a
    <3> QED
      BY <2>1, <2>2, <2>3, <3>1, <3>2 DEF a
  <2>5. CASE b # <<>>
    <3>1. Run(s, p).at = "refused"
      BY <1>2, <2>5
    <3> HIDE DEF p, l
    <3>2. Run(Run(s, p), l) = Run(s, p)
      BY <2>2, <3>1, RunRefused
    <3> QED
      BY <2>1, <2>2, <2>3, <3>1, <3>2
  <2> QED
    BY <2>4, <2>5
<1> HIDE DEF T
<1>3. \A b \in Seq(OuterDirective) : b \in T
  BY <1>1, <1>2, SeqInduct
<1> QED
  BY <1>3 DEF T

LEMMA RunFour ==
  ASSUME NEW S, NEW s, NEW a \in Seq(S), NEW b \in Seq(S), NEW c \in Seq(S), NEW d \in Seq(S)
  PROVE  Run(s, a \o b \o c \o d) = Run(Run(Run(Run(s, a), b), c), d)
<1> DEFINE e == a \o b \o c
<1>1. e \in Seq(S) /\ Run(s, e) = Run(Run(Run(s, a), b), c)
  BY RunThree, ConcatProperties
<1> HIDE DEF e
<1>2. Run(s, e \o d) = Run(Run(s, e), d)
  BY <1>1, RunConcat
<1> QED
  BY <1>1, <1>2 DEF e

\* Any sign is taken for the opening brace of a location.
LEMMA SignOpens ==
  ASSUME NEW s \in State, s.at = "brace", NEW t \in Signs
  PROVE  LET r == Run(s, <<t>>) IN r \in State /\ r.at = "block" /\ r.inside /\ r.place = <<>>
<1> DEFINE r == Run(s, <<t>>)
<1>1. r = [s EXCEPT !.at = "block", !.inside = TRUE, !.place = <<>>]
  <2>1. t # "eol"
    BY DEF Signs
  <2> QED
    BY <2>1, RunOne DEF Read, AtBrace
<1>2. <<>> \in Seq(AnyLine) /\ "block" \in Str
  BY EmptySeq DEF Str
<1> HIDE DEF r
<1>3. r \in State
  BY <1>1, <1>2 DEF State
<1>4. r.at = "block" /\ r.inside /\ r.place = <<>>
  BY <1>1 DEF State
<1> QED
  BY <1>3, <1>4 DEF r

(***************************************************************************)
(* Where a token that is missing in a location leaves the reader: behind   *)
(* it, but still inside, unless it has refused.                            *)
(***************************************************************************)
Stray(s) == s.at = "refused" \/ (s.at = "block" /\ s.inside)

LEMMA StrayHard ==
  ASSUME NEW s, Stray(s), NEW layout
  PROVE  Stray(Run(s, Hard(layout)))
BY HardIsRead DEF Stray

\* The opening brace is missing.
LEMMA OpeningMatters ==
  ASSUME NEW s \in State, s.at = "brace", NEW ds \in Seq(LineDirective), NEW layout,
         layout # "flat" \/ ds = <<>> \/ Bare(ds[1].name)
  PROVE  Stray(Run(s, Hard(layout) \o PrintedLines(ds, layout) \o <<"}">> \o Hard(layout)))
<1> DEFINE h == Hard(layout)
           t == PrintedLines(ds, layout)
           e == <<"}">>
           a == Run(s, h)
           b == Run(a, t)
           c == Run(b, e)
<1>1. h \in Seq(Str) /\ t \in Seq(Str) /\ e \in Seq(Str)
  BY TokenKinds, LinesPrinted
<1>2. Run(s, h \o t \o e \o h) = Run(c, h)
  <2> HIDE DEF h, t, e
  <2> QED
    BY <1>1, RunFour
<1>3. CASE layout # "flat"
  <2>1. a = Refused(s)
    BY <1>3, RunOne DEF Hard, Read, AtBrace, Signs
  <2>2. a.at = "refused"
    BY <2>1, RefusedKinds
  <2> HIDE DEF a, h, t, e
  <2>3. \A u \in Seq(Str) : Run(a, u) = a
    BY <2>2, RunRefused
  <2>4. b = a /\ c = a /\ Run(c, h) = a
    BY <1>1, <2>3
  <2> QED
    BY <1>2, <2>2, <2>4 DEF Stray, h, t, e
<1>4. CASE layout = "flat"
  <2>1. a = s
    BY <1>4, RunEmpty DEF Hard
  <2>2. CASE ds = <<>>
    <3>1. b = s
      BY <2>1, <2>2, LinesPrinted, RunEmpty
    <3>2. "}" \in Signs
      BY DEF Signs
    <3>3. Stray(c)
      <4>1. c = Run(s, <<"}">>)
        BY <3>1
      <4> HIDE DEF c
      <4> QED
        BY <3>2, <4>1, SignOpens DEF Stray
    <3>4. Stray(Run(c, h))
      <4> HIDE DEF c
      <4> QED
        BY <3>3, StrayHard
    <3> QED
      BY <1>2, <3>4
  <2>3. CASE ds # <<>>
    <3>1. b.at = "refused"
      BY <1>4, <2>1, <2>3, LinesAreNoBrace
    <3> HIDE DEF b, h, t, e
    <3>2. \A u \in Seq(Str) : Run(b, u) = b
      BY <3>1, RunRefused
    <3>3. c = b /\ Run(c, h) = b
      BY <1>1, <3>2
    <3> QED
      BY <1>2, <3>1, <3>3 DEF Stray, h, t, e
  <2> QED
    BY <2>2, <2>3
<1> QED
  BY <1>3, <1>4

\* The closing brace is missing.
LEMMA ClosingMatters ==
  ASSUME NEW s \in State, s.at = "brace", NEW ds \in Seq(LineDirective), NEW layout
  PROVE  Stray(Run(s, <<"{">> \o Hard(layout) \o PrintedLines(ds, layout) \o Hard(layout)))
<1> DEFINE o == <<"{">>
           h == Hard(layout)
           t == PrintedLines(ds, layout)
           a == Run(s, o)
           b == Run(a, h)
           c == Run(b, t)
<1>1. o \in Seq(Str) /\ h \in Seq(Str) /\ t \in Seq(Str)
  BY TokenKinds, LinesPrinted
<1>2. Run(s, o \o h \o t \o h) = Run(c, h)
  <2> HIDE DEF h, t, o
  <2> QED
    BY <1>1, RunFour
<1>3. a \in State /\ a.at = "block" /\ a.inside /\ a.place = <<>>
  <2>1. "{" \in Signs
    BY DEF Signs
  <2> QED
    BY <2>1, SignOpens
<1> HIDE DEF a
<1>4. b = a
  BY <1>3, HardIsRead
<1> HIDE DEF b
<1>5. Stray(c)
  BY <1>3, <1>4, LinesAreRead DEF Stray
<1> HIDE DEF c
<1>6. Stray(Run(c, h))
  BY <1>5, StrayHard
<1> QED
  BY <1>2, <1>6

\* A semicolon of the location's directives is missing.
LEMMA WithinMatters ==
  ASSUME NEW s \in State, s.at = "brace", NEW ds \in Seq(LineDirective), NEW layout,
         NEW x \in Lacks(Needed(layout), PrintedLines(ds, layout))
  PROVE  Stray(Run(s, Braced(x, layout)))
<1> DEFINE h == Hard(layout)
           a == Run(s, <<"{">>)
           b == Run(a, h)
           c == Run(b, x)
           e == Run(c, <<"}">>)
<1>1. x \in Seq(Str) /\ h \in Seq(Str) /\ <<"}">> \in Seq(Str)
  <2>1. PrintedLines(ds, layout) \in Seq(Str)
    BY LinesPrinted
  <2>2. x \in Seq(Str)
    BY <2>1, LacksKinds
  <2> QED
    BY <2>2, TokenKinds
<1>2. Run(s, Braced(x, layout)) = Run(e, h)
  BY <1>1, BracedRun
<1>3. a \in State /\ a.at = "block" /\ a.inside /\ a.place = <<>>
  <2>1. "{" \in Signs
    BY DEF Signs
  <2> QED
    BY <2>1, SignOpens
<1> HIDE DEF a
<1>4. b = a
  BY <1>3, HardIsRead
<1> HIDE DEF b
<1>5. c.at = "refused"
  BY <1>3, <1>4, LinesMatter
<1> HIDE DEF c
<1>6. \A u \in Seq(Str) : Run(c, u) = c
  BY <1>5, RunRefused
<1>7. e = c /\ Run(e, h) = c
  BY <1>1, <1>6
<1> QED
  BY <1>2, <1>5, <1>7 DEF Stray

LEMMA LocationMatters ==
  ASSUME NEW s \in State, s.at = "block", NEW d \in LocationDirective, NEW layout,
         layout # "flat" \/ ~ Hides(d),
         NEW x \in Lacks(Needed(layout), PrintedDirective(d, layout))
  PROVE  Stray(Run(s, x))
<1> DEFINE N == Needed(layout)
           t == PrintedLines(d.inner, layout)
           o == Opening(d, layout)
           b == Braced(t, layout)
           r == Run(s, o)
<1>1. /\ o \in Seq(Str) /\ b \in Seq(Str) /\ PrintedDirective(d, layout) = o \o b
      /\ t \in Seq(Str) /\ d.inner \in Seq(LineDirective)
  BY LocationText, LocationKinds
<1>2. Lacks(N, o) = {}
  <2> DEFINE u == <<"location">>
             v == Soft(layout)
             w == d.words
  <2>1. u \in Seq(Str) /\ v \in Seq(Str) /\ w \in Seq(Str) /\ o = u \o v \o w
        /\ w = <<w[1]>> /\ w[1] \in Word
    BY LocationKinds DEF Opening
  <2>2. Lacks(N, u) = {} /\ Lacks(N, v) = {} /\ Lacks(N, w) = {}
    <3>1. Lacks(N, <<w[1]>>) = {}
      BY <2>1, NotNeeded
    <3> QED
      BY <2>1, <3>1, NotNeeded
  <2> HIDE DEF u, v, w, o, N
  <2>3. u \o v \in Seq(Str) /\ Lacks(N, u \o v) = {}
    BY <2>1, <2>2, LacksNeither, ConcatProperties
  <2>4. Lacks(N, u \o v \o w) = {}
    BY <2>1, <2>2, <2>3, LacksNeither
  <2> QED
    BY <2>1, <2>4
<1>3. r.at = "refused" \/ (r \in State /\ r.at = "brace")
  BY PathIsRead
<1>4. PICK y \in Lacks(N, b) : x = o \o y
  <2>1. x \in Lacks(N, o \o b)
    BY <1>1
  <2> HIDE DEF o, b, N
  <2>2. Lacks(N, o \o b) \subseteq SecondLacks(N, o, b)
    BY <1>1, <1>2, LacksAfter
  <2> QED
    BY <2>1, <2>2 DEF SecondLacks
<1>5. y \in BracedLacks(t, layout)
  <2>1. Lacks(N, b) \subseteq BracedLacks(t, layout)
    <3> HIDE DEF t
    <3> QED
      BY <1>1, LacksBraced
  <2> QED
    BY <2>1
<1>6. y \in Seq(Str)
  <2> HIDE DEF b, N
  <2> QED
    BY <1>1, <1>4, LacksKinds
<1>7. Run(s, x) = Run(r, y)
  <2> HIDE DEF o
  <2> QED
    BY <1>1, <1>4, <1>6, RunConcat
<1> HIDE DEF r
<1>8. CASE r.at = "refused"
  <2>1. Run(r, y) = r
    BY <1>6, <1>8, RunRefused
  <2> QED
    BY <1>7, <1>8, <2>1 DEF Stray
<1>9. CASE r \in State /\ r.at = "brace"
  <2>1. CASE y = Hard(layout) \o t \o <<"}">> \o Hard(layout)
    <3>1. layout # "flat" \/ d.inner = <<>> \/ Bare(d.inner[1].name)
      BY DEF Hides, Bare
    <3> QED
      BY <1>1, <1>7, <1>9, <2>1, <3>1, OpeningMatters
  <2>2. CASE y = <<"{">> \o Hard(layout) \o t \o Hard(layout)
    BY <1>1, <1>7, <1>9, <2>2, ClosingMatters
  <2>3. CASE \E z \in Lacks(N, t) : y = Braced(z, layout)
    BY <1>1, <1>7, <1>9, <2>3, WithinMatters
  <2> QED
    BY <1>5, <2>1, <2>2, <2>3 DEF BracedLacks
<1> QED
  BY <1>3, <1>8, <1>9

\* What follows in the block leaves the reader there, or is refused.
LEMMA StrayStays ==
  ASSUME NEW s \in State, Stray(s), NEW d \in OuterDirective, NEW layout
  PROVE  Stray(Run(s, PrintedDirective(d, layout)))
<1>1. PrintedDirective(d, layout) \in Seq(Str)
  BY OuterKinds
<1>2. CASE s.at = "refused"
  <2>1. Run(s, PrintedDirective(d, layout)) = s
    BY <1>1, <1>2, RunRefused
  <2> QED
    BY <1>2, <2>1 DEF Stray
<1>3. CASE s.at = "block" /\ s.inside /\ d.name # "location"
  <2>1. d \in LineDirective /\ PrintedDirective(d, layout) = PrintedLine(d, layout)
    BY <1>3, OuterKinds
  <2> DEFINE r == Run(s, PrintedLine(d, layout))
             h == Held(s, d.name, d.words)
  <2>2. r.at = "refused" \/ r = Took(s, d)
    BY <1>3, <2>1, LineIsRead
  <2>3. h.inside /\ DOMAIN h = {"at", "blocks", "block", "inside", "match", "place", "name", "words"}
    BY <1>3 DEF Held, State
  <2>4. Done(h).at = "block" /\ Done(h).inside
    <3> HIDE DEF h
    <3> QED
      BY <2>3 DEF Done
  <2>5. Took(s, d).at = "block" /\ Took(s, d).inside
    BY <2>4 DEF Took
  <2> HIDE DEF r, h
  <2>6. Stray(r)
    BY <2>2, <2>5 DEF Stray
  <2> QED
    BY <2>1, <2>6 DEF r
<1>4. CASE s.at = "block" /\ s.inside /\ d.name = "location"
  <2> DEFINE x == Opening(d, layout)
             y == Braced(PrintedLines(d.inner, layout), layout)
             r == Run(s, x)
  <2>1. d \in LocationDirective
    BY <1>4, OuterKinds
  <2>2. x \in Seq(Str) /\ y \in Seq(Str) /\ PrintedDirective(d, layout) = x \o y
    BY <2>1, LocationText
  <2>3. r.at = "refused"
    BY <1>4, <2>1, PathIsRead
  <2> HIDE DEF x, y
  <2>4. Run(s, x \o y) = Run(r, y)
    BY <2>2, RunConcat
  <2> HIDE DEF r
  <2>5. Run(r, y) = r
    BY <2>2, <2>3, RunRefused
  <2> QED
    BY <2>2, <2>3, <2>4, <2>5 DEF Stray
<1> QED
  BY <1>2, <1>3, <1>4 DEF Stray

LEMMA DirectiveMatters ==
  ASSUME NEW s \in State, s.at = "block", ~ s.inside, NEW d \in OuterDirective, NEW layout,
         layout # "flat" \/ ~ Hides(d),
         NEW x \in Lacks(Needed(layout), PrintedDirective(d, layout))
  PROVE  Stray(Run(s, x))
<1>1. CASE d.name # "location"
  <2>1. d \in LineDirective /\ PrintedDirective(d, layout) = PrintedLine(d, layout)
    BY <1>1, OuterKinds
  <2>2. x \in Lacks(Needed(layout), PrintedLine(d, layout))
    BY <2>1
  <2> QED
    BY <1>1, <2>1, <2>2, SemicolonMatters DEF Stray
<1>2. CASE d.name = "location"
  BY <1>2, OuterKinds, LocationMatters
<1> QED
  BY <1>1, <1>2

PlainBlock(b, layout) == layout = "flat" => \A j \in DOMAIN b : ~ Hides(b[j])

\* What is plain with a directive more is plain without it.
LEMMA PlainAppends ==
  ASSUME NEW b \in Seq(OuterDirective), NEW d \in OuterDirective, NEW layout,
         PlainBlock(Append(b, d), layout)
  PROVE  PlainBlock(b, layout) /\ (layout # "flat" \/ ~ Hides(d))
<1> DEFINE a == Append(b, d)
           n == Len(b)
<1>1. /\ n \in Nat /\ DOMAIN b = 1 .. n /\ DOMAIN a = 1 .. n + 1
      /\ a[n + 1] = d /\ \A j \in 1 .. n : a[j] = b[j]
  BY AppendProperties, LenProperties
<1> HIDE DEF a, n
<1>2. n + 1 \in DOMAIN a /\ DOMAIN b \subseteq DOMAIN a
  BY <1>1
<1>3. layout = "flat" => \A j \in DOMAIN a : ~ Hides(a[j])
  BY DEF PlainBlock, a
<1> QED
  BY <1>1, <1>2, <1>3 DEF PlainBlock

LEMMA DirectivesMatter ==
  ASSUME NEW s \in State, s.at = "block", ~ s.inside, s.block = <<>>, NEW layout
  PROVE  \A b \in Seq(OuterDirective) : PlainBlock(b, layout) =>
           \A x \in Lacks(Needed(layout), PrintedDirectives(b, layout)) : Stray(Run(s, x))
<1> DEFINE N == Needed(layout)
           Goal(b) == \A x \in Lacks(N, PrintedDirectives(b, layout)) : Stray(Run(s, x))
           T == {b \in Seq(OuterDirective) : PlainBlock(b, layout) => Goal(b)}
<1>1. <<>> \in T
  BY EmptySeq, DirectivesPrinted, LacksEmpty
<1>2. ASSUME NEW b \in Seq(OuterDirective), NEW d \in OuterDirective, b \in T
      PROVE  Append(b, d) \in T
  <2> SUFFICES ASSUME PlainBlock(Append(b, d), layout) PROVE Goal(Append(b, d))
    BY AppendProperties
  <2>0. Goal(b) /\ (layout # "flat" \/ ~ Hides(d))
    BY <1>2, PlainAppends
  <2> DEFINE a == Append(b, d)
             p == PrintedDirectives(b, layout)
             l == PrintedDirective(d, layout)
             r == Run(s, p)
  <2>1. a \in Seq(OuterDirective)
    BY AppendProperties
  <2>2. p \in Seq(Str) /\ l \in Seq(Str) /\ PrintedDirectives(a, layout) = p \o l
    BY DirectivesPrinted, OuterKinds
  <2>3. r.at = "refused" \/ (r.at = "block" /\ ~ r.inside)
    BY DirectivesAreRead
  <2>4. r \in State
    BY <2>2, RunKinds
  <2>5. ASSUME NEW x \in Lacks(N, p \o l)
        PROVE  Stray(Run(s, x))
    <3> HIDE DEF N
    <3>1. x \in FirstLacks(N, p, l) \/ x \in SecondLacks(N, p, l)
      <4> HIDE DEF p, l
      <4>1. Lacks(N, p \o l) \subseteq FirstLacks(N, p, l) \cup SecondLacks(N, p, l)
        BY <2>2, LacksConcat
      <4> QED
        BY <2>5, <4>1
    <3>2. CASE x \in FirstLacks(N, p, l)
      <4>1. PICK y \in Lacks(N, p) : x = y \o l
        BY <3>2 DEF FirstLacks
      <4> DEFINE u == Run(s, y)
      <4>2. Stray(u)
        BY <2>0
      <4>3. y \in Seq(Str) /\ u \in State
        <5> HIDE DEF p, l
        <5>1. y \in Seq(Str)
          BY <2>2, LacksKinds
        <5> QED
          BY <5>1, RunKinds
      <4>4. Run(s, x) = Run(u, l)
        <5> HIDE DEF p, l
        <5> QED
          BY <2>2, <4>1, <4>3, RunConcat
      <4> HIDE DEF u
      <4>5. Stray(Run(u, l))
        BY <4>2, <4>3, StrayStays
      <4> QED
        BY <4>4, <4>5
    <3>3. CASE x \in SecondLacks(N, p, l)
      <4>1. PICK y \in Lacks(N, l) : x = p \o y
        BY <3>3 DEF SecondLacks
      <4>2. ~ r.inside /\ r.at = "block" => Stray(Run(r, y))
        <5> HIDE DEF r
        <5> QED
          BY <2>0, <2>4, DirectiveMatters DEF N
      <4>3. y \in Seq(Str)
        <5> HIDE DEF p, l
        <5> QED
          BY <2>2, LacksKinds
      <4>4. Run(s, x) = Run(r, y)
        <5> HIDE DEF p, l
        <5> QED
          BY <2>2, <4>1, <4>3, RunConcat
      <4>5. CASE r.at = "refused"
        <5> HIDE DEF r
        <5>1. Run(r, y) = r
          BY <4>3, <4>5, RunRefused
        <5> QED
          BY <4>4, <4>5, <5>1 DEF Stray
      <4> QED
        BY <2>3, <4>2, <4>4, <4>5
    <3> QED
      BY <3>1, <3>2, <3>3
  <2> QED
    BY <2>2, <2>5
<1> HIDE DEF T
<1>3. \A b \in Seq(OuterDirective) : b \in T
  BY <1>1, <1>2, SeqInduct
<1> QED
  BY <1>3 DEF T

(***************************************************************************)
(* Where a token that is missing in a block leaves the reader: behind it,  *)
(* but in a block still, unless it has refused.                            *)
(***************************************************************************)
Lost(s) == s.at = "refused" \/ (s.at = "block" /\ ~ s.inside)

LEMMA LostHard ==
  ASSUME NEW s, Lost(s), NEW layout
  PROVE  Lost(Run(s, Hard(layout)))
BY HardIsRead DEF Lost

\* The closing brace of a block ends the location that was left open.
LEMMA StrayEnds ==
  ASSUME NEW s \in State, Stray(s), NEW layout
  PROVE  Lost(Run(Run(s, <<"}">>), Hard(layout)))
<1> DEFINE r == Run(s, <<"}">>)
<1>1. r = Read(s, "}")
  BY RunOne
<1>2. Lost(r)
  <2>1. CASE s.at = "refused"
    <3>1. Read(s, "}") = s
      BY <2>1 DEF Read
    <3> QED
      BY <1>1, <2>1, <3>1 DEF Lost
  <2>2. CASE s.at = "block" /\ s.inside
    <3> DEFINE k == LocationWith(s.match, s.place)
    <3>1. Read(s, "}") = [s EXCEPT !.inside = FALSE, !.block = Append(@, k)]
      BY <2>2 DEF Read, AtBlock, EndLocation
    <3> HIDE DEF k, r
    <3>2. r.at = "block" /\ ~ r.inside
      BY <1>1, <2>2, <3>1 DEF State
    <3> QED
      BY <3>2 DEF Lost
  <2> QED
    BY <2>1, <2>2 DEF Stray
<1> HIDE DEF r
<1>3. Lost(Run(r, Hard(layout)))
  BY <1>2, LostHard
<1> QED
  BY <1>3 DEF r

\* Another block is refused there.
LEMMA LostStays ==
  ASSUME NEW s \in State, Lost(s), NEW b \in Seq(OuterDirective), NEW layout
  PROVE  Lost(Run(s, PrintedBlock(b, layout)))
<1> DEFINE x == <<"server">>
           v == Soft(layout)
           y == Braced(PrintedDirectives(b, layout), layout)
           a == Run(s, x)
           c == Run(a, v)
<1>1. x \in Seq(Str) /\ v \in Seq(Str) /\ y \in Seq(Str) /\ PrintedBlock(b, layout) = x \o v \o y
  BY BlockText, TokenKinds DEF Opened
<1>2. a.at = "refused"
  <2>1. a = Read(s, "server")
    BY RunOne
  <2>2. CASE s.at = "refused"
    <3>1. Read(s, "server") = s
      BY <2>2 DEF Read
    <3> QED
      BY <2>1, <2>2, <3>1
  <2>3. CASE s.at = "block" /\ ~ s.inside
    <3>1. Read(s, "server") = Refused(s)
      BY <2>3 DEF Read, AtBlock, Named, InServer, ListDirectives, SingleDirectives
    <3> HIDE DEF a
    <3> QED
      BY <2>1, <3>1, RefusedKinds
  <2> QED
    BY <2>2, <2>3 DEF Lost
<1>3. Run(s, x \o v \o y) = Run(c, y)
  <2> HIDE DEF x, v, y
  <2> QED
    BY <1>1, RunThree
<1> HIDE DEF a, v, y, x
<1>4. \A t \in Seq(Str) : Run(a, t) = a
  BY <1>2, RunRefused
<1>5. Run(c, y) = a
  BY <1>1, <1>4
<1> QED
  BY <1>1, <1>2, <1>3, <1>5 DEF Lost

LEMMA BlockMatters ==
  ASSUME NEW s \in State, s.at = "file", ~ s.inside, NEW b \in Seq(OuterDirective), NEW layout,
         PlainBlock(b, layout),
         NEW x \in Lacks(Needed(layout), PrintedBlock(b, layout))
  PROVE  Lost(Run(s, x))
<1> DEFINE N == Needed(layout)
           t == PrintedDirectives(b, layout)
           o == Opened(layout)
           c == Braced(t, layout)
           h == Hard(layout)
           r == Run(s, o)
           u == Run(r, <<"{">>)
<1>1. /\ o \in Seq(Str) /\ c \in Seq(Str) /\ PrintedBlock(b, layout) = o \o c
      /\ t \in Seq(Str) /\ h \in Seq(Str) /\ <<"{">> \in Seq(Str) /\ <<"}">> \in Seq(Str)
  BY BlockText, DirectivesPrinted, TokenKinds
<1>2. Lacks(N, o) = {}
  <2> DEFINE v == <<"server">>
             w == Soft(layout)
  <2>1. v \in Seq(Str) /\ w \in Seq(Str) /\ o = v \o w
    BY TokenKinds DEF Opened
  <2>2. Lacks(N, v) = {} /\ Lacks(N, w) = {}
    BY NotNeeded
  <2> HIDE DEF v, w, o, N
  <2>3. Lacks(N, v \o w) = {}
    BY <2>1, <2>2, LacksNeither
  <2> QED
    BY <2>1, <2>3
<1>3. r \in State /\ r.at = "server" /\ ~ r.inside /\ r.block = <<>>
  <2>1. r = [s EXCEPT !.at = "server", !.block = <<>>]
    BY ServerIsRead
  <2>2. <<>> \in Seq(AnyDirective) /\ "server" \in Str
    BY EmptySeq DEF Str
  <2> HIDE DEF r
  <2> QED
    BY <2>1, <2>2 DEF State
<1>4. PICK y \in Lacks(N, c) : x = o \o y
  <2>1. x \in Lacks(N, o \o c)
    BY <1>1
  <2> HIDE DEF o, c, N
  <2>2. Lacks(N, o \o c) \subseteq SecondLacks(N, o, c)
    BY <1>1, <1>2, LacksAfter
  <2> QED
    BY <2>1, <2>2 DEF SecondLacks
<1>5. y \in BracedLacks(t, layout)
  <2>1. Lacks(N, c) \subseteq BracedLacks(t, layout)
    <3> HIDE DEF t
    <3> QED
      BY <1>1, LacksBraced
  <2> QED
    BY <2>1
<1>6. y \in Seq(Str)
  <2> HIDE DEF c, N
  <2> QED
    BY <1>1, <1>4, LacksKinds
<1>7. Run(s, x) = Run(r, y)
  <2>0. o \in Seq(Str)
    BY <1>1
  <2> HIDE DEF o, c
  <2>1. Run(s, o \o y) = Run(Run(s, o), y)
    BY <1>6, <2>0, RunConcat
  <2> QED
    BY <1>4, <2>1
<1> HIDE DEF r
<1>8. u \in State /\ u.at = "block" /\ ~ u.inside /\ u.block = <<>>
  <2>1. u = [r EXCEPT !.at = "block"]
    BY <1>3, RunOne DEF Read, AtServer
  <2>2. "block" \in Str
    BY DEF Str
  <2> HIDE DEF u
  <2> QED
    BY <1>3, <2>1, <2>2 DEF State
<1> HIDE DEF u
<1>9. Run(u, h) = u
  BY <1>8, HardIsRead
<1>10. CASE y = h \o t \o <<"}">> \o h
  <2> DEFINE e == <<"}">>
             f == Run(Run(r, h), t)
             g == Run(f, e)
  <2>1. Run(r, y) = Run(g, h)
    <3> HIDE DEF h, t, e
    <3>1. e \in Seq(Str)
      BY <1>1 DEF e
    <3>2. y = h \o t \o e \o h
      BY <1>10 DEF e
    <3> HIDE DEF e
    <3>3. Run(r, h \o t \o e \o h) = Run(Run(Run(Run(r, h), t), e), h)
      <4>1. h \in Seq(Str) /\ t \in Seq(Str)
        BY <1>1
      <4> QED
        BY <3>1, <4>1, RunFour
    <3> QED
      BY <3>2, <3>3
  <2>2. Run(r, h) = r
    <3>1. Run(r, <<>>) = r /\ Run(r, <<"eol">>) = r
      BY <1>3, RunEmpty, RunOne DEF Read, AtServer
    <3> QED
      BY <3>1 DEF Hard
  <2>3. b = <<>> \/ f.at = "refused"
    BY <1>3, <2>2, DirectivesAreNoBrace
  <2>4. CASE b = <<>>
    <3>1. f = r
      BY <2>2, <2>4, DirectivesPrinted, RunEmpty
    <3>2. g = Read(r, "}")
      BY <3>1, RunOne
    <3>3. Read(r, "}") = Refused(r)
      BY <1>3 DEF Read, AtServer
    <3>4. g.at = "refused"
      BY <1>3, <3>2, <3>3, RefusedKinds
    <3> HIDE DEF g
    <3>5. Lost(Run(g, h))
      BY <3>4, LostHard DEF Lost
    <3> QED
      BY <1>7, <2>1, <3>5
  <2>5. CASE f.at = "refused"
    <3> HIDE DEF f, h
    <3>1. \A k \in Seq(Str) : Run(f, k) = f
      BY <2>5, RunRefused
    <3>2. g = f /\ Run(g, h) = f
      BY <1>1, <3>1
    <3> QED
      BY <1>7, <2>1, <2>5, <3>2 DEF Lost
  <2> QED
    BY <2>3, <2>4, <2>5
<1>11. CASE y = <<"{">> \o h \o t \o h
  <2> DEFINE e == <<"{">>
             f == Run(u, t)
  <2>1. Run(r, y) = Run(f, h)
    <3> HIDE DEF h, t, e
    <3>1. e \in Seq(Str) /\ Run(r, e) = u
      BY <1>1 DEF e, u
    <3>2. y = e \o h \o t \o h
      BY <1>11 DEF e
    <3> HIDE DEF e
    <3>3. Run(r, e \o h \o t \o h) = Run(Run(Run(Run(r, e), h), t), h)
      <4>1. h \in Seq(Str) /\ t \in Seq(Str)
        BY <1>1
      <4> QED
        BY <3>1, <4>1, RunFour
    <3> QED
      BY <1>9, <3>1, <3>2, <3>3
  <2>2. Lost(f)
    BY <1>8, DirectivesAreRead DEF Lost
  <2> HIDE DEF f
  <2>3. Lost(Run(f, h))
    BY <2>2, LostHard
  <2> QED
    BY <1>7, <2>1, <2>3
<1>12. CASE \E z \in Lacks(N, t) : y = Braced(z, layout)
  <2>1. PICK z \in Lacks(N, t) : y = Braced(z, layout)
    BY <1>12
  <2> DEFINE f == Run(u, z)
  <2>2. z \in Seq(Str)
    <3> HIDE DEF t, N
    <3> QED
      BY <1>1, LacksKinds
  <2>3. Run(r, y) = Run(Run(f, <<"}">>), h)
    <3>1. Run(r, y) = Run(Run(Run(Run(Run(r, <<"{">>), h), z), <<"}">>), h)
      BY <2>1, <2>2, BracedRun
    <3> QED
      BY <1>9, <3>1 DEF u
  <2>4. Stray(f)
    BY <1>8, DirectivesMatter
  <2>5. f \in State
    BY <1>8, <2>2, RunKinds
  <2> HIDE DEF f
  <2>6. Lost(Run(Run(f, <<"}">>), h))
    BY <2>4, <2>5, StrayEnds
  <2> QED
    BY <1>7, <2>3, <2>6
<1> QED
  BY <1>5, <1>10, <1>11, <1>12 DEF BracedLacks

PlainFile(file, layout) == \A i \in DOMAIN file : PlainBlock(file[i], layout)

LEMMA BlocksMatter ==
  ASSUME NEW layout
  PROVE  \A file \in Seq(AnyBlock) : PlainFile(file, layout) =>
           \A x \in Lacks(Needed(layout), Printed(file, layout)) : Lost(Run(Reader, x))
<1> DEFINE N == Needed(layout)
           Goal(b) == \A x \in Lacks(N, Printed(b, layout)) : Lost(Run(Reader, x))
           T == {b \in Seq(AnyBlock) : PlainFile(b, layout) => Goal(b)}
<1>1. <<>> \in T
  BY EmptySeq, BlocksPrinted, LacksEmpty
<1>2. ASSUME NEW b \in Seq(AnyBlock), NEW d \in AnyBlock, b \in T
      PROVE  Append(b, d) \in T
  <2> SUFFICES ASSUME PlainFile(Append(b, d), layout) PROVE Goal(Append(b, d))
    BY AppendProperties
  <2>0. Goal(b) /\ PlainBlock(d, layout)
    <3> DEFINE f == Append(b, d)
               n == Len(b)
    <3>1. /\ n \in Nat /\ DOMAIN b = 1 .. n /\ DOMAIN f = 1 .. n + 1
          /\ f[n + 1] = d /\ \A j \in 1 .. n : f[j] = b[j]
      BY AppendProperties, LenProperties
    <3>2. \A j \in DOMAIN f : PlainBlock(f[j], layout)
      BY DEF PlainFile
    <3> HIDE DEF f, n, Goal
    <3>3. n + 1 \in DOMAIN f /\ DOMAIN b \subseteq DOMAIN f
      BY <3>1
    <3>4. PlainBlock(d, layout) /\ PlainFile(b, layout)
      BY <3>1, <3>2, <3>3 DEF PlainFile
    <3> QED
      BY <1>2, <3>4
  <2> DEFINE a == Append(b, d)
             p == Printed(b, layout)
             l == PrintedBlock(d, layout)
             r == Run(Reader, p)
  <2>1. a \in Seq(AnyBlock) /\ d \in Seq(OuterDirective)
    BY AppendProperties DEF AnyBlock
  <2>2. p \in Seq(Str) /\ l \in Seq(Str) /\ Printed(a, layout) = p \o l
    BY <2>1, BlocksPrinted, BlockText
  <2>3. r.at = "refused" \/ (r.at = "file" /\ ~ r.inside)
    BY BlocksAreRead
  <2>4. r \in State
    BY <2>2, RunKinds, ReaderKinds
  <2>5. ASSUME NEW x \in Lacks(N, p \o l)
        PROVE  Lost(Run(Reader, x))
    <3> HIDE DEF N
    <3>1. x \in FirstLacks(N, p, l) \/ x \in SecondLacks(N, p, l)
      <4> HIDE DEF p, l
      <4>1. Lacks(N, p \o l) \subseteq FirstLacks(N, p, l) \cup SecondLacks(N, p, l)
        BY <2>2, LacksConcat
      <4> QED
        BY <2>5, <4>1
    <3>2. CASE x \in FirstLacks(N, p, l)
      <4>1. PICK y \in Lacks(N, p) : x = y \o l
        BY <3>2 DEF FirstLacks
      <4> DEFINE u == Run(Reader, y)
      <4>2. Lost(u)
        BY <2>0
      <4>3. y \in Seq(Str) /\ u \in State
        <5> HIDE DEF p, l
        <5>1. y \in Seq(Str)
          BY <2>2, LacksKinds
        <5> QED
          BY <5>1, RunKinds, ReaderKinds
      <4>4. Run(Reader, x) = Run(u, l)
        <5> HIDE DEF p, l
        <5> QED
          BY <2>2, <4>1, <4>3, RunConcat
      <4> HIDE DEF u
      <4>5. Lost(Run(u, l))
        BY <2>1, <4>2, <4>3, LostStays
      <4> QED
        BY <4>4, <4>5
    <3>3. CASE x \in SecondLacks(N, p, l)
      <4>1. PICK y \in Lacks(N, l) : x = p \o y
        BY <3>3 DEF SecondLacks
      <4>2. ~ r.inside /\ r.at = "file" => Lost(Run(r, y))
        <5> HIDE DEF r
        <5> QED
          BY <2>0, <2>1, <2>4, BlockMatters DEF N
      <4>3. y \in Seq(Str)
        <5> HIDE DEF p, l
        <5> QED
          BY <2>2, LacksKinds
      <4>4. Run(Reader, x) = Run(r, y)
        <5> HIDE DEF p, l
        <5> QED
          BY <2>2, <4>1, <4>3, RunConcat
      <4>5. CASE r.at = "refused"
        <5> HIDE DEF r
        <5>1. Run(r, y) = r
          BY <4>3, <4>5, RunRefused
        <5> QED
          BY <4>4, <4>5, <5>1 DEF Lost
      <4> QED
        BY <2>3, <4>2, <4>4, <4>5
    <3> QED
      BY <3>1, <3>2, <3>3
  <2> QED
    BY <2>2, <2>5
<1> HIDE DEF T
<1>3. \A b \in Seq(AnyBlock) : b \in T
  BY <1>1, <1>2, SeqInduct
<1> QED
  BY <1>3 DEF T

(***************************************************************************)
(* A file that lacks one brace is refused, and so is one of several lines  *)
(* that lacks one semicolon, whatever else it says, unless it stands on a  *)
(* single line with a location whose first name hides another.             *)
(***************************************************************************)
THEOREM LackingRefused == LackingAreRefused
<1> SUFFICES ASSUME NEW file \in Written, NEW layout \in Layouts, Plain(file, layout),
                    NEW i \in DOMAIN Printed(file, layout),
                    Printed(file, layout)[i] \in Needed(layout)
             PROVE  ~ Accepted(RemoveAt(Printed(file, layout), i))
  BY DEF LackingAreRefused
<1> DEFINE x == RemoveAt(Printed(file, layout), i)
<1>1. file \in Seq(AnyBlock)
  BY WrittenAssumption DEF AnyBlock
<1>2. x \in Lacks(Needed(layout), Printed(file, layout))
  BY DEF Lacks
<1>3. Lost(Run(Reader, x))
  <2>1. PlainFile(file, layout)
    BY DEF Plain, PlainFile, PlainBlock
  <2> QED
    BY <1>1, <1>2, <2>1, BlocksMatter
<1> HIDE DEF x
<1>4. ~ Accepted(x)
  BY <1>3 DEF Lost, Accepted, Parsed
<1> QED
  BY <1>4 DEF x

(***************************************************************************)
(* A file the program starts with that lacks a brace or a semicolon is     *)
(* refused (skip_to_after_server_block_opening, processLocationBlock,      *)
(* check_and_skip_semicolon).                                              *)
(***************************************************************************)
THEOREM MissingRefused == Spec => []MissingIsRefused
<1>1. MissingIsRefused
  BY LackingRefused DEF MissingIsRefused
<1> QED
  BY <1>1, PTL

-----------------------------------------------------------------------------
(***************************************************************************)
(* Merged, word by word.                                                   *)
(***************************************************************************)
MergedSteps(list, words, at) ==
  at = [n \in 0 .. Len(words) |-> IF n = 0 THEN list ELSE Added(at[n - 1], words[n])]

LEMMA MergedIs ==
  ASSUME NEW S, NEW list, NEW words \in Seq(S), NEW at, MergedSteps(list, words, at)
  PROVE  Merged(list, words) = at[Len(words)]
<1> DEFINE f == CHOOSE g : MergedSteps(list, words, g)
           T == {n \in Nat : n <= Len(words) => f[n] = at[n]}
<1>1. MergedSteps(list, words, f)
  OBVIOUS
<1>2. Merged(list, words) = f[Len(words)]
  BY DEF Merged, MergedSteps
<1>3. Len(words) \in Nat
  BY LenProperties
<1> HIDE DEF f
<1>4. 0 \in T
  BY <1>1, <1>3 DEF MergedSteps
<1>5. \A n \in Nat : n \in T => n + 1 \in T
  <2> SUFFICES ASSUME NEW n \in Nat, n \in T, n + 1 <= Len(words)
               PROVE  f[n + 1] = at[n + 1]
    OBVIOUS
  <2>1. n + 1 \in 0 .. Len(words) /\ n + 1 # 0 /\ (n + 1) - 1 = n /\ n <= Len(words)
    BY <1>3
  <2>2. f[n + 1] = Added(f[n], words[n + 1]) /\ at[n + 1] = Added(at[n], words[n + 1])
    BY <1>1, <2>1 DEF MergedSteps
  <2> QED
    BY <2>1, <2>2
<1> HIDE DEF T
<1>6. Len(words) \in T
  BY <1>3, <1>4, <1>5, NatInduct
<1> QED
  BY <1>2, <1>6 DEF T

LEMMA MergedExtends ==
  ASSUME NEW S, NEW list, NEW words \in Seq(S), NEW w \in S, NEW at, MergedSteps(list, words, at)
  PROVE  \E g : /\ MergedSteps(list, Append(words, w), g)
                /\ g[Len(words) + 1] = Added(at[Len(words)], w)
<1> DEFINE n == Len(words)
           g == [k \in 0 .. n + 1 |-> IF k = n + 1 THEN Added(at[n], w) ELSE at[k]]
<1>1. n \in Nat /\ Len(Append(words, w)) = n + 1 /\ Append(words, w)[n + 1] = w
      /\ \A k \in 1 .. n : Append(words, w)[k] = words[k]
  BY LenProperties, AppendProperties
<1> HIDE DEF n
<1>2. \A k \in 0 .. n + 1 :
        g[k] = IF k = 0 THEN list ELSE Added(g[k - 1], Append(words, w)[k])
  <2> SUFFICES ASSUME NEW k \in 0 .. n + 1
               PROVE  g[k] = IF k = 0 THEN list ELSE Added(g[k - 1], Append(words, w)[k])
    OBVIOUS
  <2>1. CASE k = n + 1
    <3>1. k # 0 /\ k - 1 = n /\ n \in 0 .. n + 1 /\ n # n + 1
      BY <1>1, <2>1
    <3>2. g[k] = Added(at[n], w) /\ g[k - 1] = at[n]
      BY <2>1, <3>1
    <3> QED
      BY <1>1, <2>1, <3>1, <3>2
  <2>2. CASE k # n + 1
    <3>1. k \in 0 .. n /\ (k # 0 => k \in 1 .. n /\ k - 1 \in 0 .. n + 1 /\ k - 1 # n + 1)
      BY <1>1, <2>2
    <3>2. g[k] = at[k] /\ (k # 0 => g[k - 1] = at[k - 1])
      BY <2>2, <3>1
    <3>3. at[k] = IF k = 0 THEN list ELSE Added(at[k - 1], words[k])
      BY <3>1 DEF MergedSteps, n
    <3> QED
      BY <1>1, <3>1, <3>2, <3>3
  <2> QED
    BY <2>1, <2>2
<1>3. g[n + 1] = Added(at[n], w)
  BY <1>1
<1>4. MergedSteps(list, Append(words, w), g)
  BY <1>1, <1>2 DEF MergedSteps
<1> QED
  BY <1>3, <1>4 DEF n

LEMMA MergedExists ==
  ASSUME NEW S, NEW list
  PROVE  \A words \in Seq(S) : \E at : MergedSteps(list, words, at)
<1> DEFINE T == {words \in Seq(S) : \E at : MergedSteps(list, words, at)}
<1>1. <<>> \in T
  <2> DEFINE at == [n \in 0 .. 0 |-> list]
  <2>1. MergedSteps(list, <<>>, at)
    BY EmptySeq DEF MergedSteps
  <2> QED
    BY <2>1, EmptySeq
<1>2. \A words \in Seq(S), w \in S : words \in T => Append(words, w) \in T
  BY MergedExtends, AppendProperties
<1> HIDE DEF T
<1>3. \A words \in Seq(S) : words \in T
  BY <1>1, <1>2, SeqInduct
<1> QED
  BY <1>3 DEF T

LEMMA MergedEmpty ==
  ASSUME NEW list
  PROVE  Merged(list, <<>>) = list
<1>1. PICK at : MergedSteps(list, <<>>, at)
  BY MergedExists, EmptySeq
<1>2. Len(<<>>) = 0 /\ <<>> \in Seq({})
  BY EmptySeq
<1>3. at[0] = list
  BY <1>1, <1>2 DEF MergedSteps
<1> QED
  BY <1>1, <1>2, <1>3, MergedIs

LEMMA MergedAppend ==
  ASSUME NEW S, NEW list, NEW words \in Seq(S), NEW w \in S
  PROVE  Merged(list, Append(words, w)) = Added(Merged(list, words), w)
<1>1. PICK at : MergedSteps(list, words, at)
  BY MergedExists
<1>2. PICK g : /\ MergedSteps(list, Append(words, w), g)
               /\ g[Len(words) + 1] = Added(at[Len(words)], w)
  BY <1>1, MergedExtends
<1>3. Append(words, w) \in Seq(S) /\ Len(Append(words, w)) = Len(words) + 1
  BY AppendProperties
<1>4. Merged(list, words) = at[Len(words)] /\ Merged(list, Append(words, w)) = g[Len(words) + 1]
  BY <1>1, <1>2, <1>3, MergedIs
<1> QED
  BY <1>2, <1>4

-----------------------------------------------------------------------------
(***************************************************************************)
(* LocationOf and Settings, directive by directive.                        *)
(***************************************************************************)
LocationOfSteps(ds, at) ==
  at = [n \in 0 .. Len(ds) |-> IF n = 0 THEN NewLocationText ELSE SetField(at[n - 1], ds[n])]

LEMMA LocationOfIs ==
  ASSUME NEW S, NEW ds \in Seq(S), NEW at, LocationOfSteps(ds, at)
  PROVE  LocationOf(ds) = at[Len(ds)]
<1> DEFINE f == CHOOSE g : LocationOfSteps(ds, g)
           T == {n \in Nat : n <= Len(ds) => f[n] = at[n]}
<1>1. LocationOfSteps(ds, f)
  OBVIOUS
<1>2. LocationOf(ds) = f[Len(ds)]
  BY DEF LocationOf, LocationOfSteps
<1>3. Len(ds) \in Nat
  BY LenProperties
<1> HIDE DEF f
<1>4. 0 \in T
  BY <1>1, <1>3 DEF LocationOfSteps
<1>5. \A n \in Nat : n \in T => n + 1 \in T
  <2> SUFFICES ASSUME NEW n \in Nat, n \in T, n + 1 <= Len(ds)
               PROVE  f[n + 1] = at[n + 1]
    OBVIOUS
  <2>1. n + 1 \in 0 .. Len(ds) /\ n + 1 # 0 /\ (n + 1) - 1 = n /\ n <= Len(ds)
    BY <1>3
  <2>2. f[n + 1] = SetField(f[n], ds[n + 1]) /\ at[n + 1] = SetField(at[n], ds[n + 1])
    BY <1>1, <2>1 DEF LocationOfSteps
  <2> QED
    BY <2>1, <2>2
<1> HIDE DEF T
<1>6. Len(ds) \in T
  BY <1>3, <1>4, <1>5, NatInduct
<1> QED
  BY <1>2, <1>6 DEF T

LEMMA LocationOfExtends ==
  ASSUME NEW S, NEW ds \in Seq(S), NEW d \in S, NEW at, LocationOfSteps(ds, at)
  PROVE  \E g : /\ LocationOfSteps(Append(ds, d), g)
                /\ g[Len(ds) + 1] = SetField(at[Len(ds)], d)
<1> DEFINE n == Len(ds)
           g == [k \in 0 .. n + 1 |-> IF k = n + 1 THEN SetField(at[n], d) ELSE at[k]]
<1>1. n \in Nat /\ Len(Append(ds, d)) = n + 1 /\ Append(ds, d)[n + 1] = d
      /\ \A k \in 1 .. n : Append(ds, d)[k] = ds[k]
  BY LenProperties, AppendProperties
<1> HIDE DEF n
<1>2. \A k \in 0 .. n + 1 :
        g[k] = IF k = 0 THEN NewLocationText ELSE SetField(g[k - 1], Append(ds, d)[k])
  <2> SUFFICES ASSUME NEW k \in 0 .. n + 1
               PROVE  g[k] = IF k = 0 THEN NewLocationText ELSE SetField(g[k - 1], Append(ds, d)[k])
    OBVIOUS
  <2>1. CASE k = n + 1
    <3>1. k # 0 /\ k - 1 = n /\ n \in 0 .. n + 1 /\ n # n + 1
      BY <1>1, <2>1
    <3>2. g[k] = SetField(at[n], d) /\ g[k - 1] = at[n]
      BY <2>1, <3>1
    <3> QED
      BY <1>1, <2>1, <3>1, <3>2
  <2>2. CASE k # n + 1
    <3>1. k \in 0 .. n /\ (k # 0 => k \in 1 .. n /\ k - 1 \in 0 .. n + 1 /\ k - 1 # n + 1)
      BY <1>1, <2>2
    <3>2. g[k] = at[k] /\ (k # 0 => g[k - 1] = at[k - 1])
      BY <2>2, <3>1
    <3>3. at[k] = IF k = 0 THEN NewLocationText ELSE SetField(at[k - 1], ds[k])
      BY <3>1 DEF LocationOfSteps, n
    <3> QED
      BY <1>1, <3>1, <3>2, <3>3
  <2> QED
    BY <2>1, <2>2
<1>3. g[n + 1] = SetField(at[n], d)
  BY <1>1
<1>4. LocationOfSteps(Append(ds, d), g)
  BY <1>1, <1>2 DEF LocationOfSteps
<1> QED
  BY <1>3, <1>4 DEF n

LEMMA LocationOfExists ==
  ASSUME NEW S
  PROVE  \A ds \in Seq(S) : \E at : LocationOfSteps(ds, at)
<1> DEFINE T == {ds \in Seq(S) : \E at : LocationOfSteps(ds, at)}
<1>1. <<>> \in T
  <2> DEFINE at == [n \in 0 .. 0 |-> NewLocationText]
  <2>1. LocationOfSteps(<<>>, at)
    BY EmptySeq DEF LocationOfSteps
  <2> QED
    BY <2>1, EmptySeq
<1>2. \A ds \in Seq(S), d \in S : ds \in T => Append(ds, d) \in T
  BY LocationOfExtends, AppendProperties
<1> HIDE DEF T
<1>3. \A ds \in Seq(S) : ds \in T
  BY <1>1, <1>2, SeqInduct
<1> QED
  BY <1>3 DEF T

LEMMA LocationOfEmpty == LocationOf(<<>>) = NewLocationText
<1>1. PICK at : LocationOfSteps(<<>>, at)
  BY LocationOfExists, EmptySeq
<1>2. Len(<<>>) = 0 /\ <<>> \in Seq({})
  BY EmptySeq
<1>3. at[0] = NewLocationText
  BY <1>1, <1>2 DEF LocationOfSteps
<1> QED
  BY <1>1, <1>2, <1>3, LocationOfIs

LEMMA LocationOfAppend ==
  ASSUME NEW S, NEW ds \in Seq(S), NEW d \in S
  PROVE  LocationOf(Append(ds, d)) = SetField(LocationOf(ds), d)
<1>1. PICK at : LocationOfSteps(ds, at)
  BY LocationOfExists
<1>2. PICK g : LocationOfSteps(Append(ds, d), g) /\ g[Len(ds) + 1] = SetField(at[Len(ds)], d)
  BY <1>1, LocationOfExtends
<1>3. Append(ds, d) \in Seq(S) /\ Len(Append(ds, d)) = Len(ds) + 1
  BY AppendProperties
<1>4. LocationOf(ds) = at[Len(ds)] /\ LocationOf(Append(ds, d)) = g[Len(ds) + 1]
  BY <1>1, <1>2, <1>3, LocationOfIs
<1> QED
  BY <1>2, <1>4

SettingsSteps(b, at) ==
  at = [n \in 0 .. Len(b) |-> IF n = 0 THEN NewConfigText ELSE Set(at[n - 1], b[n])]

LEMMA SettingsIs ==
  ASSUME NEW S, NEW b \in Seq(S), NEW at, SettingsSteps(b, at)
  PROVE  Settings(b) = at[Len(b)]
<1> DEFINE f == CHOOSE g : SettingsSteps(b, g)
           T == {n \in Nat : n <= Len(b) => f[n] = at[n]}
<1>1. SettingsSteps(b, f)
  OBVIOUS
<1>2. Settings(b) = f[Len(b)]
  BY DEF Settings, SettingsSteps
<1>3. Len(b) \in Nat
  BY LenProperties
<1> HIDE DEF f
<1>4. 0 \in T
  BY <1>1, <1>3 DEF SettingsSteps
<1>5. \A n \in Nat : n \in T => n + 1 \in T
  <2> SUFFICES ASSUME NEW n \in Nat, n \in T, n + 1 <= Len(b)
               PROVE  f[n + 1] = at[n + 1]
    OBVIOUS
  <2>1. n + 1 \in 0 .. Len(b) /\ n + 1 # 0 /\ (n + 1) - 1 = n /\ n <= Len(b)
    BY <1>3
  <2>2. f[n + 1] = Set(f[n], b[n + 1]) /\ at[n + 1] = Set(at[n], b[n + 1])
    BY <1>1, <2>1 DEF SettingsSteps
  <2> QED
    BY <2>1, <2>2
<1> HIDE DEF T
<1>6. Len(b) \in T
  BY <1>3, <1>4, <1>5, NatInduct
<1> QED
  BY <1>2, <1>6 DEF T

LEMMA SettingsExtends ==
  ASSUME NEW S, NEW b \in Seq(S), NEW d \in S, NEW at, SettingsSteps(b, at)
  PROVE  \E g : /\ SettingsSteps(Append(b, d), g)
                /\ g[Len(b) + 1] = Set(at[Len(b)], d)
<1> DEFINE n == Len(b)
           g == [k \in 0 .. n + 1 |-> IF k = n + 1 THEN Set(at[n], d) ELSE at[k]]
<1>1. n \in Nat /\ Len(Append(b, d)) = n + 1 /\ Append(b, d)[n + 1] = d
      /\ \A k \in 1 .. n : Append(b, d)[k] = b[k]
  BY LenProperties, AppendProperties
<1> HIDE DEF n
<1>2. \A k \in 0 .. n + 1 :
        g[k] = IF k = 0 THEN NewConfigText ELSE Set(g[k - 1], Append(b, d)[k])
  <2> SUFFICES ASSUME NEW k \in 0 .. n + 1
               PROVE  g[k] = IF k = 0 THEN NewConfigText ELSE Set(g[k - 1], Append(b, d)[k])
    OBVIOUS
  <2>1. CASE k = n + 1
    <3>1. k # 0 /\ k - 1 = n /\ n \in 0 .. n + 1 /\ n # n + 1
      BY <1>1, <2>1
    <3>2. g[k] = Set(at[n], d) /\ g[k - 1] = at[n]
      BY <2>1, <3>1
    <3> QED
      BY <1>1, <2>1, <3>1, <3>2
  <2>2. CASE k # n + 1
    <3>1. k \in 0 .. n /\ (k # 0 => k \in 1 .. n /\ k - 1 \in 0 .. n + 1 /\ k - 1 # n + 1)
      BY <1>1, <2>2
    <3>2. g[k] = at[k] /\ (k # 0 => g[k - 1] = at[k - 1])
      BY <2>2, <3>1
    <3>3. at[k] = IF k = 0 THEN NewConfigText ELSE Set(at[k - 1], b[k])
      BY <3>1 DEF SettingsSteps, n
    <3> QED
      BY <1>1, <3>1, <3>2, <3>3
  <2> QED
    BY <2>1, <2>2
<1>3. g[n + 1] = Set(at[n], d)
  BY <1>1
<1>4. SettingsSteps(Append(b, d), g)
  BY <1>1, <1>2 DEF SettingsSteps
<1> QED
  BY <1>3, <1>4 DEF n

LEMMA SettingsExists ==
  ASSUME NEW S
  PROVE  \A b \in Seq(S) : \E at : SettingsSteps(b, at)
<1> DEFINE T == {b \in Seq(S) : \E at : SettingsSteps(b, at)}
<1>1. <<>> \in T
  <2> DEFINE at == [n \in 0 .. 0 |-> NewConfigText]
  <2>1. SettingsSteps(<<>>, at)
    BY EmptySeq DEF SettingsSteps
  <2> QED
    BY <2>1, EmptySeq
<1>2. \A b \in Seq(S), d \in S : b \in T => Append(b, d) \in T
  BY SettingsExtends, AppendProperties
<1> HIDE DEF T
<1>3. \A b \in Seq(S) : b \in T
  BY <1>1, <1>2, SeqInduct
<1> QED
  BY <1>3 DEF T

LEMMA SettingsEmpty == Settings(<<>>) = NewConfigText
<1>1. PICK at : SettingsSteps(<<>>, at)
  BY SettingsExists, EmptySeq
<1>2. Len(<<>>) = 0 /\ <<>> \in Seq({})
  BY EmptySeq
<1>3. at[0] = NewConfigText
  BY <1>1, <1>2 DEF SettingsSteps
<1> QED
  BY <1>1, <1>2, <1>3, SettingsIs

LEMMA SettingsAppend ==
  ASSUME NEW S, NEW b \in Seq(S), NEW d \in S
  PROVE  Settings(Append(b, d)) = Set(Settings(b), d)
<1>1. PICK at : SettingsSteps(b, at)
  BY SettingsExists
<1>2. PICK g : SettingsSteps(Append(b, d), g) /\ g[Len(b) + 1] = Set(at[Len(b)], d)
  BY <1>1, SettingsExtends
<1>3. Append(b, d) \in Seq(S) /\ Len(Append(b, d)) = Len(b) + 1
  BY AppendProperties
<1>4. Settings(b) = at[Len(b)] /\ Settings(Append(b, d)) = g[Len(b) + 1]
  BY <1>1, <1>2, <1>3, SettingsIs
<1> QED
  BY <1>2, <1>4

-----------------------------------------------------------------------------
(***************************************************************************)
(* The words that directives of a name say.                                *)
(***************************************************************************)
Saying(d, name) == IF d.name = name THEN d.words ELSE <<>>

LEMMA SaidAppends ==
  ASSUME NEW S, NEW X, \A x \in S : x.words \in Seq(X), NEW name
  PROVE  /\ Said(<<>>, name) = <<>>
         /\ \A ds \in Seq(S) :
              /\ Said(ds, name) \in Seq(X)
              /\ \A d \in S : Said(Append(ds, d), name) = Said(ds, name) \o Saying(d, name)
<1> DEFINE F == [d \in S |-> Saying(d, name)]
<1>1. F \in [S -> Seq(X)]
  <2>1. \A d \in S : Saying(d, name) \in Seq(X)
    BY EmptySeq DEF Saying
  <2> QED
    BY <2>1
<1>2. \A ds \in Seq(S) : Said(ds, name) = FlattenSeq(Mapped(F, ds))
  <2> SUFFICES ASSUME NEW ds \in Seq(S)
               PROVE  [i \in DOMAIN ds |-> IF ds[i].name = name THEN ds[i].words ELSE <<>>]
                        = Mapped(F, ds)
    BY DEF Said
  <2>1. \A i \in DOMAIN ds : ds[i] \in S
    BY ElementOfSeq, LenProperties
  <2>2. \A i \in DOMAIN ds : F[ds[i]] = IF ds[i].name = name THEN ds[i].words ELSE <<>>
    BY <2>1 DEF Saying
  <2> HIDE DEF F
  <2> QED
    BY <2>2 DEF Mapped
<1>3. \A d \in S : F[d] = Saying(d, name)
  OBVIOUS
<1> HIDE DEF F
<1>4. /\ FlattenSeq(Mapped(F, <<>>)) = <<>>
      /\ \A ds \in Seq(S) :
           /\ FlattenSeq(Mapped(F, ds)) \in Seq(X)
           /\ \A d \in S : FlattenSeq(Mapped(F, Append(ds, d)))
                             = FlattenSeq(Mapped(F, ds)) \o F[d]
  BY <1>1, MapFlattens, ZenonT(60)
<1>5. <<>> \in Seq(S)
  BY EmptySeq
<1>6. \A ds \in Seq(S), d \in S : Append(ds, d) \in Seq(S)
  BY AppendProperties
<1> QED
  BY <1>2, <1>3, <1>4, <1>5, <1>6, Zenon

-----------------------------------------------------------------------------
(***************************************************************************)
(* The words of a list setting, each where it first came.                  *)
(***************************************************************************)
LEMMA ToSetAppend ==
  ASSUME NEW S, NEW s \in Seq(S), NEW e \in S
  PROVE  ToSet(Append(s, e)) = ToSet(s) \cup {e}
BY OneMore DEF ToSet

LEMMA ContainsIs ==
  ASSUME NEW S, NEW s \in Seq(S), NEW e
  PROVE  Contains(s, e) <=> e \in ToSet(s)
BY LenProperties DEF Contains, ToSet

LEMMA FirstPlaceIs ==
  ASSUME NEW S, NEW s \in Seq(S), NEW w \in ToSet(s)
  PROVE  /\ FirstPlace(s, w) \in DOMAIN s /\ s[FirstPlace(s, w)] = w
         /\ \A i \in DOMAIN s : s[i] = w => FirstPlace(s, w) <= i
<1> DEFINE P == {i \in DOMAIN s : s[i] = w}
<1>1. P \in SUBSET Nat /\ P # {}
  BY LenProperties DEF ToSet
<1>2. \A i : i \in P <=> i \in DOMAIN s /\ s[i] = w
  OBVIOUS
<1>3. FirstPlace(s, w) = CHOOSE x \in P : \A y \in P : x <= y
  BY DEF FirstPlace, Min
<1> HIDE DEF P
<1>4. \E x \in P : \A y \in P : x <= y
  BY <1>1, LeastIsThere
<1>5. FirstPlace(s, w) \in P /\ \A y \in P : FirstPlace(s, w) <= y
  BY <1>3, <1>4
<1> QED
  BY <1>2, <1>5

LEMMA FirstPlaceKept ==
  ASSUME NEW S, NEW s \in Seq(S), NEW e \in S, NEW w \in ToSet(s)
  PROVE  FirstPlace(Append(s, e), w) = FirstPlace(s, w)
<1> DEFINE a == Append(s, e)
           n == Len(s)
           f == FirstPlace(s, w)
           g == FirstPlace(a, w)
<1>1. /\ a \in Seq(S) /\ n \in Nat /\ DOMAIN s = 1 .. n
      /\ \A i \in DOMAIN s : i \in DOMAIN a /\ a[i] = s[i]
      /\ \A i \in DOMAIN a : i = n + 1 \/ i \in DOMAIN s
  BY OneMore, LenProperties
<1>2. w \in ToSet(a)
  BY <1>1 DEF ToSet
<1>3. f \in DOMAIN s /\ s[f] = w /\ \A i \in DOMAIN s : s[i] = w => f <= i
  BY FirstPlaceIs
<1>4. g \in DOMAIN a /\ a[g] = w /\ \A i \in DOMAIN a : a[i] = w => g <= i
  BY <1>1, <1>2, FirstPlaceIs
<1> HIDE DEF a, n, f, g
<1>5. g <= f
  BY <1>1, <1>3, <1>4
<1>6. f \in Nat /\ f < n + 1
  BY <1>1, <1>3
<1>7. g # n + 1
  BY <1>1, <1>5, <1>6
<1>8. g \in DOMAIN s /\ s[g] = w
  BY <1>1, <1>4, <1>7
<1>9. f <= g
  BY <1>3, <1>8
<1>10. f = g
  BY <1>1, <1>5, <1>6, <1>8, <1>9
<1> QED
  BY <1>10 DEF f, g, a

LEMMA FirstPlaceNew ==
  ASSUME NEW S, NEW s \in Seq(S), NEW e \in S, e \notin ToSet(s)
  PROVE  FirstPlace(Append(s, e), e) = Len(s) + 1
<1> DEFINE a == Append(s, e)
           g == FirstPlace(a, e)
<1>1. /\ a \in Seq(S)
      /\ \A i \in DOMAIN s : a[i] = s[i]
      /\ \A i \in DOMAIN a : i = Len(s) + 1 \/ i \in DOMAIN s
  BY OneMore
<1>2. e \in ToSet(a)
  BY ToSetAppend
<1>3. g \in DOMAIN a /\ a[g] = e
  BY <1>1, <1>2, FirstPlaceIs
<1> HIDE DEF a, g
<1>4. g \notin DOMAIN s
  BY <1>1, <1>3 DEF ToSet
<1>5. g = Len(s) + 1
  BY <1>1, <1>3, <1>4
<1> QED
  BY <1>5 DEF a, g

\* The words of said, in the order in which they first came.
InOrder(list, said) ==
  /\ ToSet(list) = ToSet(said)
  /\ \A i, j \in DOMAIN list :
       i < j => FirstPlace(said, list[i]) < FirstPlace(said, list[j])

LEMMA InOrderAdded ==
  ASSUME NEW S, NEW list \in Seq(S), NEW said \in Seq(S), NEW w \in S, InOrder(list, said)
  PROVE  Added(list, w) \in Seq(S) /\ InOrder(Added(list, w), Append(said, w))
<1> DEFINE a == Append(said, w)
           n == Len(list)
           b == Append(list, w)
<1>1. ToSet(list) = ToSet(said) /\ ToSet(a) = ToSet(said) \cup {w}
  BY ToSetAppend DEF InOrder
<1>2. \A i \in DOMAIN list : list[i] \in ToSet(said)
  BY <1>1 DEF ToSet
<1>3. \A x \in ToSet(said) : FirstPlace(a, x) = FirstPlace(said, x)
  BY FirstPlaceKept
<1>4. \A i \in DOMAIN list : FirstPlace(a, list[i]) = FirstPlace(said, list[i])
  BY <1>2, <1>3
<1>5. \A i, j \in DOMAIN list :
        i < j => FirstPlace(a, list[i]) < FirstPlace(a, list[j])
  BY <1>4 DEF InOrder
<1>6. CASE Contains(list, w)
  <2>1. Added(list, w) = list
    BY <1>6 DEF Added
  <2>2. w \in ToSet(said)
    BY <1>1, <1>6, ContainsIs
  <2>3. ToSet(list) = ToSet(a)
    BY <1>1, <2>2
  <2> QED
    BY <1>5, <2>1, <2>3 DEF InOrder
<1>7. CASE ~ Contains(list, w)
  <2>1. Added(list, w) = b
    BY <1>7 DEF Added
  <2>2. w \notin ToSet(said)
    BY <1>1, <1>7, ContainsIs
  <2>3. ToSet(b) = ToSet(a)
    BY <1>1, ToSetAppend
  <2>4. FirstPlace(a, w) = Len(said) + 1
    BY <2>2, FirstPlaceNew
  <2>5. /\ b \in Seq(S) /\ b[n + 1] = w
        /\ \A i \in DOMAIN list : i \in DOMAIN b /\ b[i] = list[i]
        /\ \A i \in DOMAIN b : i = n + 1 \/ i \in DOMAIN list
    BY OneMore
  <2>6. n \in Nat /\ DOMAIN list = 1 .. n /\ Len(said) \in Nat /\ DOMAIN said = 1 .. Len(said)
    BY LenProperties
  <2>7. \A x \in ToSet(said) : FirstPlace(said, x) \in DOMAIN said
    BY FirstPlaceIs
  <2>8. \A i \in DOMAIN list : FirstPlace(a, list[i]) < FirstPlace(a, w)
    <3> SUFFICES ASSUME NEW i \in DOMAIN list PROVE FirstPlace(a, list[i]) < FirstPlace(a, w)
      OBVIOUS
    <3>1. FirstPlace(a, list[i]) \in DOMAIN said
      BY <1>2, <1>4, <2>7
    <3> HIDE DEF a
    <3> QED
      BY <2>4, <2>6, <3>1
  <2> HIDE DEF a, b, n
  <2>9. ASSUME NEW i \in DOMAIN b, NEW j \in DOMAIN b, i < j
        PROVE  FirstPlace(a, b[i]) < FirstPlace(a, b[j])
    <3>1. i # n + 1
      BY <2>5, <2>6, <2>9
    <3>2. i \in DOMAIN list /\ b[i] = list[i]
      BY <2>5, <3>1
    <3>3. CASE j = n + 1
      BY <2>5, <2>8, <3>2, <3>3
    <3>4. CASE j \in DOMAIN list
      BY <1>5, <2>5, <2>9, <3>2, <3>4
    <3> QED
      BY <2>5, <3>3, <3>4
  <2>10. InOrder(b, a)
    BY <2>3, <2>9 DEF InOrder
  <2> QED
    BY <2>1, <2>5, <2>10 DEF a
<1> QED
  BY <1>6, <1>7

LEMMA ConcatAppend ==
  ASSUME NEW S, NEW a \in Seq(S), NEW b \in Seq(S), NEW t \in S
  PROVE  a \o Append(b, t) = Append(a \o b, t)
<1>1. Append(b, t) = b \o <<t>> /\ <<t>> \in Seq(S) /\ a \o b \in Seq(S)
  BY AppendIsConcat, ConcatProperties
<1>2. Append(a \o b, t) = (a \o b) \o <<t>>
  BY <1>1, AppendIsConcat
<1> QED
  BY <1>1, <1>2, ConcatAssociative

LEMMA InOrderMerged ==
  ASSUME NEW S, NEW list \in Seq(S), NEW said \in Seq(S), InOrder(list, said)
  PROVE  \A words \in Seq(S) :
           Merged(list, words) \in Seq(S) /\ InOrder(Merged(list, words), said \o words)
<1> DEFINE Holds(words) ==
             Merged(list, words) \in Seq(S) /\ InOrder(Merged(list, words), said \o words)
           T == {words \in Seq(S) : Holds(words)}
<1>1. <<>> \in T
  BY EmptySeq, MergedEmpty, ConcatEmptySeq
<1>2. ASSUME NEW words \in Seq(S), NEW w \in S, words \in T
      PROVE  Append(words, w) \in T
  <2>1. Merged(list, Append(words, w)) = Added(Merged(list, words), w)
    BY MergedAppend
  <2>2. said \o Append(words, w) = Append(said \o words, w)
    BY ConcatAppend
  <2>3. Append(words, w) \in Seq(S) /\ said \o words \in Seq(S)
    BY AppendProperties, ConcatProperties
  <2>4. Merged(list, words) \in Seq(S) /\ InOrder(Merged(list, words), said \o words)
    BY <1>2
  <2>5. /\ Added(Merged(list, words), w) \in Seq(S)
        /\ InOrder(Added(Merged(list, words), w), Append(said \o words, w))
    BY <2>3, <2>4, InOrderAdded
  <2> QED
    BY <2>1, <2>2, <2>3, <2>5
<1> HIDE DEF T
<1>3. \A words \in Seq(S) : words \in T
  BY <1>1, <1>2, SeqInduct
<1> QED
  BY <1>3 DEF T

-----------------------------------------------------------------------------
(***************************************************************************)
(* The settings of a block or of a location, directive by directive.       *)
(***************************************************************************)
Fields     == ListDirectives \cup SingleDirectives \cup {"return"}
ConfFields == {"set", "pages", "locations"}

SetKinds(set) == DOMAIN set = Fields /\ \A name \in ListDirectives : set[name] \in Seq(Str)

LEMMA FieldNames ==
  /\ "return" \notin ListDirectives /\ "return" \notin SingleDirectives
  /\ "error_page" \notin Fields /\ "location" \notin Fields /\ "listen" \notin Fields
  /\ \A name \in ListDirectives : name \notin SingleDirectives
  /\ ListDirectives \subseteq Fields /\ SingleDirectives \subseteq Fields
  /\ InLocation \subseteq Fields /\ "root" \in SingleDirectives
BY DEF Fields, ListDirectives, SingleDirectives, InLocation

LEMMA FieldIsSet ==
  ASSUME NEW conf, DOMAIN conf = ConfFields, DOMAIN conf.set = Fields, NEW d, d.name \in Fields
  PROVE  LET c == SetField(conf, d) IN
         /\ DOMAIN c = ConfFields /\ DOMAIN c.set = Fields
         /\ c.pages = conf.pages /\ c.locations = conf.locations
         /\ d.name \in ListDirectives => c.set[d.name] = Merged(conf.set[d.name], d.words)
         /\ d.name \notin ListDirectives => c.set[d.name] = d.words
         /\ \A name \in Fields : name # d.name => c.set[name] = conf.set[name]
<1> DEFINE c == SetField(conf, d)
           v == IF d.name \in ListDirectives THEN Merged(conf.set[d.name], d.words) ELSE d.words
<1>1. c = [conf EXCEPT !.set = [conf.set EXCEPT ![d.name] = v]]
  BY DEF SetField
<1>2. DOMAIN c = ConfFields /\ c.pages = conf.pages /\ c.locations = conf.locations
  BY <1>1 DEF ConfFields
<1>3. c.set = [conf.set EXCEPT ![d.name] = v]
  BY <1>1 DEF ConfFields
<1> HIDE DEF c
<1>4. /\ DOMAIN c.set = Fields /\ c.set[d.name] = v
      /\ \A name \in Fields : name # d.name => c.set[name] = conf.set[name]
  BY <1>3
<1> QED
  BY <1>2, <1>4 DEF c

LEMMA LastOfConcat ==
  ASSUME NEW S, NEW a \in Seq(S), NEW b \in Seq(S), Len(b) = 1
  PROVE  a \o b # <<>> /\ b = <<Last(a \o b)>>
<1>1. /\ a \o b \in Seq(S) /\ Len(a \o b) = Len(a) + 1 /\ Len(a) \in Nat
      /\ (a \o b)[Len(a) + 1] = b[1]
  BY ConcatProperties, LenProperties
<1>2. Last(a \o b) = b[1]
  BY <1>1 DEF Last
<1>3. b = <<b[1]>>
  OBVIOUS
<1>4. Len(a \o b) # 0
  BY <1>1
<1> QED
  BY <1>1, <1>2, <1>3, <1>4, EmptySeq

\* Directives whose settings a reader can tell from their words.
Telling(S) ==
  \A d \in S : d.words \in Seq(Str) /\ (d.name \in SingleDirectives => Len(d.words) = 1)

LEMMA SaidByOther ==
  ASSUME NEW S, Telling(S), NEW ds \in Seq(S), NEW d \in S, NEW set, NEW unset,
         d.name \notin ListDirectives, d.name \notin SingleDirectives, SaidBy(ds, set, unset)
  PROVE  SaidBy(Append(ds, d), set, unset)
<1>1. \A x \in S : x.words \in Seq(Str)
  BY DEF Telling
<1>2. ASSUME NEW name \in ListDirectives \cup SingleDirectives
      PROVE  Said(Append(ds, d), name) = Said(ds, name)
  <2>1. Saying(d, name) = <<>>
    BY DEF Saying
  <2>2. /\ Said(ds, name) \in Seq(Str)
        /\ Said(Append(ds, d), name) = Said(ds, name) \o Saying(d, name)
    BY <1>1, SaidAppends
  <2> QED
    BY <2>1, <2>2, ConcatEmptySeq
<1> QED
  BY <1>2 DEF SaidBy

LEMMA FieldIsSaid ==
  ASSUME NEW S, Telling(S), NEW ds \in Seq(S), NEW d \in S, d.name \in Fields, NEW unset,
         NEW conf, DOMAIN conf = ConfFields, SetKinds(conf.set), SaidBy(ds, conf.set, unset)
  PROVE  SetKinds(SetField(conf, d).set) /\ SaidBy(Append(ds, d), SetField(conf, d).set, unset)
<1> DEFINE c == SetField(conf, d).set
           e == Append(ds, d)
<1>1. /\ DOMAIN c = Fields
      /\ d.name \in ListDirectives => c[d.name] = Merged(conf.set[d.name], d.words)
      /\ d.name \notin ListDirectives => c[d.name] = d.words
      /\ \A name \in Fields : name # d.name => c[name] = conf.set[name]
  BY FieldIsSet DEF SetKinds
<1>2. /\ d.words \in Seq(Str) /\ (d.name \in SingleDirectives => Len(d.words) = 1)
      /\ \A x \in S : x.words \in Seq(Str)
  BY DEF Telling
<1>3. \A name : /\ Said(ds, name) \in Seq(Str)
                /\ Said(e, name) = Said(ds, name) \o Saying(d, name)
  BY <1>2, SaidAppends
<1>4. \A name : name # d.name => Said(e, name) = Said(ds, name)
  BY <1>3, ConcatEmptySeq DEF Saying
<1>5. Said(e, d.name) = Said(ds, d.name) \o d.words
  BY <1>3 DEF Saying
<1>6. \A name \in ListDirectives : /\ conf.set[name] \in Seq(Str)
                                   /\ InOrder(conf.set[name], Said(ds, name))
  BY DEF SetKinds, SaidBy, InOrder
<1> HIDE DEF c, e
<1>7. ASSUME NEW name \in ListDirectives
      PROVE  c[name] \in Seq(Str) /\ InOrder(c[name], Said(e, name))
  <2>1. CASE name # d.name
    BY <1>1, <1>4, <1>6, <2>1, FieldNames
  <2>2. CASE name = d.name
    <3>1. c[name] = Merged(conf.set[name], d.words) /\ Said(e, name) = Said(ds, name) \o d.words
      BY <1>1, <1>5, <2>2
    <3>2. conf.set[name] \in Seq(Str) /\ InOrder(conf.set[name], Said(ds, name))
      BY <1>6
    <3>3. Said(ds, name) \in Seq(Str)
      BY <1>3
    <3>4. \A words \in Seq(Str) :
            /\ Merged(conf.set[name], words) \in Seq(Str)
            /\ InOrder(Merged(conf.set[name], words), Said(ds, name) \o words)
      BY <3>2, <3>3, InOrderMerged
    <3> QED
      BY <1>2, <3>1, <3>4
  <2> QED
    BY <2>1, <2>2
<1>8. ASSUME NEW name \in SingleDirectives
      PROVE  c[name] = IF Said(e, name) = <<>> THEN unset[name] ELSE <<Last(Said(e, name))>>
  <2>1. CASE name # d.name
    <3>1. conf.set[name] = IF Said(ds, name) = <<>> THEN unset[name]
                                                   ELSE <<Last(Said(ds, name))>>
      BY DEF SaidBy
    <3> QED
      BY <1>1, <1>4, <2>1, <3>1, FieldNames
  <2>2. CASE name = d.name
    <3>1. c[name] = d.words /\ Said(e, name) = Said(ds, name) \o d.words
      BY <1>1, <1>5, <2>2, FieldNames
    <3>2. Said(ds, name) \in Seq(Str) /\ Len(d.words) = 1
      BY <1>2, <1>3, <2>2
    <3>3. /\ Said(ds, name) \o d.words # <<>>
          /\ d.words = <<Last(Said(ds, name) \o d.words)>>
      BY <1>2, <3>2, LastOfConcat
    <3> QED
      BY <3>1, <3>3
  <2> QED
    BY <2>1, <2>2
<1>9. SetKinds(c)
  BY <1>1, <1>7 DEF SetKinds
<1>10. SaidBy(e, c, unset)
  BY <1>7, <1>8 DEF SaidBy, InOrder
<1> QED
  BY <1>9, <1>10 DEF c, e

-----------------------------------------------------------------------------
(***************************************************************************)
(* The settings of a location.                                             *)
(***************************************************************************)
Simple == {d \in LineDirective : /\ d.name \in InLocation
                                 /\ d.name \in SingleDirectives => Len(d.words) = 1}

LEMMA WordsKinds == \A words \in Seq(Word) : words \in Seq(Str)
<1>1. \A w \in Word : w \in Str
  BY WordKinds
<1>2. \A words \in Seq(Word) : /\ words \in [1 .. Len(words) -> Word] /\ Len(words) \in Nat
                               /\ \A i \in 1 .. Len(words) : words[i] \in Word
  BY LenProperties
<1> QED
  BY <1>1, <1>2

LEMMA SimpleTells == Telling(Simple)
BY WordsKinds DEF Telling, Simple, LineDirective

LEMMA NothingSaid ==
  ASSUME NEW set, \A name \in ListDirectives : set[name] = <<>>
  PROVE  SaidBy(<<>>, set, set)
<1> DEFINE X == {}
<1>1. \A x \in {} : x.words \in Seq(X)
  OBVIOUS
<1> HIDE DEF X
<1>2. \A name : Said(<<>>, name) = <<>>
  BY <1>1, SaidAppends
<1>3. ToSet(<<>>) = {} /\ DOMAIN <<>> = {}
  BY DEF ToSet
<1> QED
  BY <1>2, <1>3 DEF SaidBy

LEMMA LocationIsSaid ==
  \A ds \in Seq(Simple) : SaidBy(ds, LocationOf(ds).set, NewLocationText.set)
<1> DEFINE Holds(ds) == /\ DOMAIN LocationOf(ds) = ConfFields
                        /\ SetKinds(LocationOf(ds).set)
                        /\ SaidBy(ds, LocationOf(ds).set, NewLocationText.set)
           T == {ds \in Seq(Simple) : Holds(ds)}
<1>1. <<>> \in T
  <2>1. /\ LocationOf(<<>>) = NewLocationText /\ <<>> \in Seq(Simple)
        /\ <<>> \in Seq(Str)
    BY LocationOfEmpty, EmptySeq
  <2>2. DOMAIN NewLocationText = ConfFields /\ NewLocationText.set = Unset
    BY DEF NewLocationText, ConfFields
  <2>3. DOMAIN Unset = Fields /\ \A name \in ListDirectives : Unset[name] = <<>>
    BY DEF Unset, Fields
  <2>4. SaidBy(<<>>, Unset, Unset)
    BY <2>3, NothingSaid
  <2>5. SetKinds(Unset)
    BY <2>1, <2>3 DEF SetKinds
  <2> QED
    BY <2>1, <2>2, <2>4, <2>5
<1>2. ASSUME NEW ds \in Seq(Simple), NEW d \in Simple, ds \in T
      PROVE  Append(ds, d) \in T
  <2>1. LocationOf(Append(ds, d)) = SetField(LocationOf(ds), d)
    BY LocationOfAppend
  <2>2. d.name \in Fields
    BY FieldNames DEF Simple
  <2>3. Append(ds, d) \in Seq(Simple)
    BY AppendProperties
  <2>4. Holds(ds)
    BY <1>2
  <2>5. DOMAIN LocationOf(ds).set = Fields
    BY <2>4 DEF SetKinds
  <2>6. DOMAIN SetField(LocationOf(ds), d) = ConfFields
    BY <2>2, <2>4, <2>5, FieldIsSet
  <2>7. /\ SetKinds(SetField(LocationOf(ds), d).set)
        /\ SaidBy(Append(ds, d), SetField(LocationOf(ds), d).set, NewLocationText.set)
    BY <2>2, <2>4, SimpleTells, FieldIsSaid
  <2> QED
    BY <2>1, <2>3, <2>6, <2>7
<1> HIDE DEF T
<1>3. \A ds \in Seq(Simple) : ds \in T
  BY <1>1, <1>2, SeqInduct
<1> QED
  BY <1>3 DEF T

-----------------------------------------------------------------------------
(***************************************************************************)
(* The error pages of a block.                                             *)
(***************************************************************************)
Naming(b, c) == {i \in DOMAIN b : NamesPage(b[i], c)}
Statuses(b)  == UNION {ToSet(Front(b[i].words)) : i \in Places(b, "error_page")}

LEMMA StatusIsNamed ==
  ASSUME NEW b, NEW c
  PROVE  c \in Statuses(b) <=> Naming(b, c) # {}
BY DEF Statuses, Naming, NamesPage, Places

LEMMA GreatestIsThere ==
  ASSUME NEW n \in Nat, NEW S \in SUBSET (1 .. n), S # {}
  PROVE  \E x \in S : \A y \in S : x >= y
<1> DEFINE Bounds == {k \in Nat : \A y \in S : y <= k}
<1>1. Bounds \in SUBSET Nat /\ n \in Bounds
  OBVIOUS
<1>2. \A k : k \in Bounds <=> k \in Nat /\ \A y \in S : y <= k
  OBVIOUS
<1> HIDE DEF Bounds
<1>3. PICK k \in Bounds : \A j \in Bounds : k <= j
  BY <1>1, LeastIsThere
<1>4. k \in Nat /\ \A y \in S : y <= k
  BY <1>2, <1>3
<1>5. k \in S
  <2> SUFFICES ASSUME k \notin S PROVE FALSE
    OBVIOUS
  <2>1. PICK z \in S : TRUE
    OBVIOUS
  <2>2. z \in Nat /\ z >= 1 /\ z <= k
    BY <1>4
  <2>3. k - 1 \in Nat
    BY <1>4, <2>2
  <2>4. \A y \in S : y <= k - 1
    <3> SUFFICES ASSUME NEW y \in S PROVE y <= k - 1
      OBVIOUS
    <3>1. y \in Nat /\ y <= k /\ y # k
      BY <1>4
    <3> QED
      BY <1>4, <3>1
  <2>5. k - 1 \in Bounds
    BY <1>2, <2>3, <2>4
  <2> QED
    BY <1>3, <1>4, <2>5
<1> QED
  BY <1>4, <1>5

LEMMA PageOfAppend ==
  ASSUME NEW S, NEW b \in Seq(S), NEW d \in S, NEW c
  PROVE  /\ PageOf(Append(b, d), c) = IF NamesPage(d, c) THEN Last(d.words) ELSE PageOf(b, c)
         /\ c \in Statuses(Append(b, d)) <=> c \in Statuses(b) \/ NamesPage(d, c)
<1> DEFINE a == Append(b, d)
           n == Len(b)
           N == Naming(b, c)
           M == Naming(a, c)
<1>1. /\ n \in Nat /\ DOMAIN b = 1 .. n /\ n + 1 \in DOMAIN a /\ a[n + 1] = d
      /\ \A i \in DOMAIN b : i \in DOMAIN a /\ a[i] = b[i]
      /\ \A i \in DOMAIN a : i = n + 1 \/ i \in DOMAIN b
  BY OneMore, LenProperties
<1>2. /\ PageOf(a, c) = IF M = {} THEN "" ELSE Last(a[Max(M)].words)
      /\ PageOf(b, c) = IF N = {} THEN "" ELSE Last(b[Max(N)].words)
  BY DEF PageOf, Naming
<1> HIDE DEF a, n
<1>3. N \in SUBSET (1 .. n)
  BY <1>1 DEF Naming
<1>4. c \in Statuses(a) <=> c \in Statuses(b) \/ NamesPage(d, c)
  <2>1. M # {} <=> N # {} \/ NamesPage(d, c)
    BY <1>1 DEF Naming
  <2> QED
    BY <2>1, StatusIsNamed
<1>5. CASE NamesPage(d, c)
  <2>1. n + 1 \in M /\ \A i \in M : i \in 1 .. n + 1
    BY <1>1, <1>5 DEF Naming
  <2>2. Max(M) = CHOOSE x \in M : \A y \in M : x >= y
    BY DEF Max
  <2> HIDE DEF M
  <2>3. \A y \in M : n + 1 >= y
    BY <1>1, <2>1
  <2>4. Max(M) \in M /\ \A y \in M : Max(M) >= y
    BY <2>1, <2>2, <2>3
  <2>5. Max(M) = n + 1
    BY <1>1, <2>1, <2>4
  <2> QED
    BY <1>1, <1>2, <1>4, <1>5, <2>1, <2>5 DEF a
<1>6. CASE ~ NamesPage(d, c)
  <2>1. M = N
    BY <1>1, <1>6 DEF Naming
  <2>2. CASE N = {}
    BY <1>2, <1>4, <1>6, <2>1, <2>2 DEF a
  <2>3. CASE N # {}
    <3>1. Max(N) = CHOOSE x \in N : \A y \in N : x >= y
      BY DEF Max
    <3>2. N \subseteq DOMAIN b
      BY DEF Naming
    <3> HIDE DEF M, N
    <3>3. \E x \in N : \A y \in N : x >= y
      BY <1>1, <1>3, <2>3, GreatestIsThere
    <3>4. Max(N) \in N
      BY <3>1, <3>3
    <3>5. a[Max(N)] = b[Max(N)]
      BY <1>1, <3>2, <3>4
    <3> QED
      BY <1>2, <1>4, <1>6, <2>1, <2>3, <3>5 DEF a
  <2> QED
    BY <2>2, <2>3
<1> QED
  BY <1>5, <1>6

\* The error pages that the directives b name, as they are set.
PagesAgree(b, pages) ==
  /\ \A c : c \in DOMAIN pages <=> c \in Statuses(b)
  /\ \A c \in DOMAIN pages : pages[c] = PageOf(b, c)

LEMMA PagesKept ==
  ASSUME NEW S, NEW b \in Seq(S), NEW d \in S, NEW pages, PagesAgree(b, pages),
         d.name # "error_page"
  PROVE  PagesAgree(Append(b, d), pages)
<1>1. \A c : ~ NamesPage(d, c)
  BY DEF NamesPage
<1>2. \A c : /\ PageOf(Append(b, d), c) = PageOf(b, c)
             /\ c \in Statuses(Append(b, d)) <=> c \in Statuses(b)
  BY <1>1, PageOfAppend
<1> QED
  BY <1>2 DEF PagesAgree

LEMMA PagesAdded ==
  ASSUME NEW S, NEW b \in Seq(S), NEW d \in S, NEW pages, PagesAgree(b, pages),
         d.name = "error_page"
  PROVE  PagesAgree(Append(b, d), Paged(pages, d.words))
<1> DEFINE F == ToSet(Front(d.words))
           p == Paged(pages, d.words)
<1>1. \A c : NamesPage(d, c) <=> c \in F
  BY DEF NamesPage
<1>2. \A c : /\ PageOf(Append(b, d), c) = IF c \in F THEN Last(d.words) ELSE PageOf(b, c)
             /\ c \in Statuses(Append(b, d)) <=> c \in Statuses(b) \/ c \in F
  BY <1>1, PageOfAppend
<1>3. /\ DOMAIN p = DOMAIN pages \cup F
      /\ \A c \in DOMAIN pages \cup F : p[c] = IF c \in F THEN Last(d.words) ELSE pages[c]
  BY DEF Paged
<1> HIDE DEF F, p
<1>4. PagesAgree(Append(b, d), p)
  BY <1>2, <1>3 DEF PagesAgree
<1> QED
  BY <1>4 DEF p

-----------------------------------------------------------------------------
(***************************************************************************)
(* The locations of a block, counted.                                      *)
(***************************************************************************)
LocationPlaces(b) == Places(b, "location")
Rank(b, i)        == Cardinality({k \in LocationPlaces(b) : k <= i})

\* The locations that the directives b lead to, in their order.
LocationsAgree(b, locations) ==
  /\ Len(locations) = Cardinality(LocationPlaces(b))
  /\ \A i \in LocationPlaces(b) : /\ Rank(b, i) \in DOMAIN locations
                                  /\ locations[Rank(b, i)] = LocationOf(b[i].inner)

LEMMA PlacesAppend ==
  ASSUME NEW S, NEW b \in Seq(S), NEW d \in S
  PROVE  LET a == Append(b, d) IN
         /\ LocationPlaces(b) \subseteq 1 .. Len(b) /\ IsFiniteSet(LocationPlaces(b))
         /\ LocationPlaces(a) = LocationPlaces(b)
                                  \cup (IF d.name = "location" THEN {Len(b) + 1} ELSE {})
         /\ \A i \in LocationPlaces(b) : a[i] = b[i] /\ Rank(a, i) = Rank(b, i)
<1> DEFINE a == Append(b, d)
           n == Len(b)
           P == LocationPlaces(b)
           Q == LocationPlaces(a)
<1>1. /\ n \in Nat /\ DOMAIN b = 1 .. n /\ n + 1 \in DOMAIN a /\ a[n + 1] = d
      /\ \A i \in DOMAIN b : i \in DOMAIN a /\ a[i] = b[i]
      /\ \A i \in DOMAIN a : i = n + 1 \/ i \in DOMAIN b
  BY OneMore, LenProperties
<1> HIDE DEF a, n
<1>2. P \subseteq 1 .. n
  BY <1>1 DEF LocationPlaces, Places
<1>3. IsFiniteSet(P)
  <2>1. IsFiniteSet(1 .. n)
    <3>1. 1 \in Int /\ n \in Int
      BY <1>1
    <3> QED
      BY <3>1, FS_Interval
  <2>2. P \in SUBSET (1 .. n)
    BY <1>2
  <2> HIDE DEF P
  <2> QED
    BY <2>1, <2>2, FS_Subset
<1>4. Q = P \cup (IF d.name = "location" THEN {n + 1} ELSE {})
  BY <1>1 DEF LocationPlaces, Places
<1>5. ASSUME NEW i \in P
      PROVE  a[i] = b[i] /\ Rank(a, i) = Rank(b, i)
  <2>1. a[i] = b[i]
    BY <1>1, <1>2, <1>5
  <2>2. i \in 1 .. n
    BY <1>2
  <2> HIDE DEF P, Q
  <2>3. {k \in Q : k <= i} = {k \in P : k <= i}
    <3>1. ~ (n + 1 <= i)
      BY <1>1, <2>2
    <3> QED
      BY <1>4, <3>1
  <2> QED
    BY <2>1, <2>3 DEF Rank, P, Q
<1> QED
  BY <1>2, <1>3, <1>4, <1>5 DEF a, n

LEMMA LocationsKept ==
  ASSUME NEW S, NEW b \in Seq(S), NEW d \in S, NEW locations, LocationsAgree(b, locations),
         d.name # "location"
  PROVE  LocationsAgree(Append(b, d), locations)
<1>1. /\ LocationPlaces(Append(b, d))
           = LocationPlaces(b) \cup (IF d.name = "location" THEN {Len(b) + 1} ELSE {})
      /\ \A i \in LocationPlaces(b) : /\ Append(b, d)[i] = b[i]
                                      /\ Rank(Append(b, d), i) = Rank(b, i)
  BY PlacesAppend
<1>2. LocationPlaces(Append(b, d)) = LocationPlaces(b)
  BY <1>1
<1> QED
  BY <1>1, <1>2 DEF LocationsAgree

LEMMA LocationsAdded ==
  ASSUME NEW S, NEW b \in Seq(S), NEW d \in S, NEW X, NEW locations \in Seq(X),
         LocationsAgree(b, locations), d.name = "location", LocationOf(d.inner) \in X
  PROVE  LocationsAgree(Append(b, d), Append(locations, LocationOf(d.inner)))
<1> DEFINE a == Append(b, d)
           n == Len(b)
           P == LocationPlaces(b)
           Q == LocationPlaces(a)
           l == Append(locations, LocationOf(d.inner))
           m == Len(locations)
<1>1. /\ P \subseteq 1 .. n /\ IsFiniteSet(P) /\ Q = P \cup {n + 1}
      /\ \A i \in P : a[i] = b[i] /\ Rank(a, i) = Rank(b, i)
  BY PlacesAppend
<1>2. n \in Nat /\ a[n + 1] = d
  BY OneMore, LenProperties
<1>3. /\ m \in Nat /\ m + 1 \in DOMAIN l /\ l[m + 1] = LocationOf(d.inner)
      /\ \A i \in DOMAIN locations : i \in DOMAIN l /\ l[i] = locations[i]
      /\ Len(l) = m + 1
  BY OneMore, LenProperties, AppendProperties
<1>4. /\ m = Cardinality(P)
      /\ \A i \in P : /\ Rank(b, i) \in DOMAIN locations
                      /\ locations[Rank(b, i)] = LocationOf(b[i].inner)
  BY DEF LocationsAgree
<1>5. Rank(a, n + 1) = Cardinality({k \in Q : k <= n + 1})
  BY DEF Rank
<1> HIDE DEF a, n, P, Q, l, m
<1>6. n + 1 \notin P
  BY <1>1, <1>2
<1>7. Cardinality(Q) = m + 1
  BY <1>1, <1>4, <1>6, FS_AddElement
<1>8. \A k \in Q : k <= n + 1
  BY <1>1, <1>2
<1>9. {k \in Q : k <= n + 1} = Q
  BY <1>8
<1>10. Rank(a, n + 1) = m + 1
  BY <1>5, <1>7, <1>9
<1>11. \A i \in Q : Rank(a, i) \in DOMAIN l /\ l[Rank(a, i)] = LocationOf(a[i].inner)
  <2> SUFFICES ASSUME NEW i \in Q
               PROVE  Rank(a, i) \in DOMAIN l /\ l[Rank(a, i)] = LocationOf(a[i].inner)
    OBVIOUS
  <2>1. CASE i = n + 1
    BY <1>2, <1>3, <1>10, <2>1
  <2>2. CASE i \in P
    BY <1>1, <1>3, <1>4, <2>2
  <2> QED
    BY <1>1, <2>1, <2>2
<1>12. LocationsAgree(a, l)
  BY <1>3, <1>7, <1>11 DEF LocationsAgree, Q
<1> QED
  BY <1>12 DEF a, l

-----------------------------------------------------------------------------
(***************************************************************************)
(* The settings of a block.                                                *)
(***************************************************************************)
Good == {d \in OuterDirective :
           /\ d.name \in InServer
           /\ d.name \in SingleDirectives => Len(d.words) = 1
           /\ d.name = "location" => d.inner \in Seq(Simple)}

LEMMA GoodTells == Telling(Good)
<1> SUFFICES ASSUME NEW d \in Good
             PROVE  d.words \in Seq(Str) /\ (d.name \in SingleDirectives => Len(d.words) = 1)
  BY DEF Telling
<1>1. d.words \in Seq(Word)
  <2>1. CASE d \in LineDirective
    BY <2>1 DEF LineDirective
  <2>2. CASE d \in LocationDirective
    <3>1. d.words \in [{1} -> Word]
      BY <2>2 DEF LocationDirective
    <3> QED
      BY <3>1, OneWord
  <2> QED
    BY <2>1, <2>2 DEF Good, OuterDirective
<1> QED
  BY <1>1, WordsKinds DEF Good

Sites == {LocationOf(ds) : ds \in Seq(Simple)}

\* What holds of the fields of a block behind any of its directives.
BlockIsSet(b, conf) ==
  /\ DOMAIN conf = ConfFields
  /\ SetKinds(conf.set)
  /\ SaidBy(b, conf.set, NewConfigText.set)
  /\ PagesAgree(b, conf.pages)
  /\ conf.locations \in Seq(Sites)
  /\ LocationsAgree(b, conf.locations)

LEMMA ServerNames ==
  /\ \A name \in InServer :
       \/ name \in ListDirectives \cup SingleDirectives
       \/ name = "error_page" \/ name = "location" \/ name = "listen"
  /\ \A name \in ListDirectives \cup SingleDirectives :
       name \in Fields /\ name # "error_page" /\ name # "location"
  /\ "error_page" \notin ListDirectives \cup SingleDirectives
  /\ "location" \notin ListDirectives \cup SingleDirectives
  /\ "listen" \notin ListDirectives \cup SingleDirectives
BY DEF InServer, Fields, ListDirectives, SingleDirectives

LEMMA FieldKeepsBlock ==
  ASSUME NEW b \in Seq(Good), NEW d \in Good, NEW conf, BlockIsSet(b, conf),
         d.name \in ListDirectives \cup SingleDirectives
  PROVE  BlockIsSet(Append(b, d), Set(conf, d))
<1> DEFINE c == SetField(conf, d)
<1>1. d.name \in Fields /\ d.name # "error_page" /\ d.name # "location"
  BY ServerNames
<1>2. Set(conf, d) = c
  BY <1>1 DEF Set
<1>3. DOMAIN conf = ConfFields /\ DOMAIN conf.set = Fields
  BY DEF BlockIsSet, SetKinds
<1>4. DOMAIN c = ConfFields /\ c.pages = conf.pages /\ c.locations = conf.locations
  BY <1>1, <1>3, FieldIsSet
<1>5. SetKinds(c.set) /\ SaidBy(Append(b, d), c.set, NewConfigText.set)
  <2>1. SetKinds(conf.set) /\ SaidBy(b, conf.set, NewConfigText.set)
    BY DEF BlockIsSet
  <2> QED
    BY <1>1, <1>3, <2>1, GoodTells, FieldIsSaid
<1>6. PagesAgree(Append(b, d), conf.pages)
  BY <1>1, PagesKept DEF BlockIsSet
<1>7. LocationsAgree(Append(b, d), conf.locations)
  BY <1>1, LocationsKept DEF BlockIsSet
<1>8. conf.locations \in Seq(Sites)
  BY DEF BlockIsSet
<1> HIDE DEF c
<1> QED
  BY <1>2, <1>4, <1>5, <1>6, <1>7, <1>8 DEF BlockIsSet

LEMMA PageKeepsBlock ==
  ASSUME NEW b \in Seq(Good), NEW d \in Good, NEW conf, BlockIsSet(b, conf),
         d.name = "error_page"
  PROVE  BlockIsSet(Append(b, d), Set(conf, d))
<1> DEFINE c == [conf EXCEPT !.pages = Paged(conf.pages, d.words)]
<1>1. d.name \notin ListDirectives /\ d.name \notin SingleDirectives /\ d.name # "location"
  BY ServerNames
<1>2. Set(conf, d) = c
  BY <1>1 DEF Set
<1>3. DOMAIN conf = ConfFields
  BY DEF BlockIsSet
<1>4. /\ DOMAIN c = ConfFields /\ c.pages = Paged(conf.pages, d.words)
      /\ c.set = conf.set /\ c.locations = conf.locations
  BY <1>3 DEF ConfFields
<1>5. SaidBy(Append(b, d), conf.set, NewConfigText.set)
  BY <1>1, GoodTells, SaidByOther DEF BlockIsSet
<1>6. PagesAgree(Append(b, d), Paged(conf.pages, d.words))
  BY PagesAdded DEF BlockIsSet
<1>7. LocationsAgree(Append(b, d), conf.locations)
  BY <1>1, LocationsKept DEF BlockIsSet
<1>8. conf.locations \in Seq(Sites) /\ SetKinds(conf.set)
  BY DEF BlockIsSet
<1> HIDE DEF c
<1> QED
  BY <1>2, <1>4, <1>5, <1>6, <1>7, <1>8 DEF BlockIsSet

LEMMA SiteKeepsBlock ==
  ASSUME NEW b \in Seq(Good), NEW d \in Good, NEW conf, BlockIsSet(b, conf),
         d.name = "location"
  PROVE  BlockIsSet(Append(b, d), Set(conf, d))
<1> DEFINE l == LocationOf(d.inner)
           c == [conf EXCEPT !.locations = Append(conf.locations, l)]
<1>1. d.name \notin ListDirectives /\ d.name \notin SingleDirectives /\ d.name # "error_page"
  BY ServerNames
<1>2. Set(conf, d) = c
  BY <1>1 DEF Set
<1>3. DOMAIN conf = ConfFields
  BY DEF BlockIsSet
<1>4. /\ DOMAIN c = ConfFields /\ c.locations = Append(conf.locations, l)
      /\ c.set = conf.set /\ c.pages = conf.pages
  BY <1>3 DEF ConfFields
<1>5. SaidBy(Append(b, d), conf.set, NewConfigText.set)
  BY <1>1, GoodTells, SaidByOther DEF BlockIsSet
<1>6. PagesAgree(Append(b, d), conf.pages)
  BY <1>1, PagesKept DEF BlockIsSet
<1>7. conf.locations \in Seq(Sites) /\ LocationsAgree(b, conf.locations) /\ SetKinds(conf.set)
  BY DEF BlockIsSet
<1>8. l \in Sites
  BY DEF Good, Sites
<1>9. LocationsAgree(Append(b, d), Append(conf.locations, l))
  BY <1>7, <1>8, LocationsAdded
<1>10. Append(conf.locations, l) \in Seq(Sites)
  BY <1>7, <1>8, AppendProperties
<1> HIDE DEF c
<1> QED
  BY <1>2, <1>4, <1>5, <1>6, <1>7, <1>9, <1>10 DEF BlockIsSet

LEMMA ListenKeepsBlock ==
  ASSUME NEW b \in Seq(Good), NEW d \in Good, NEW conf, BlockIsSet(b, conf),
         d.name = "listen"
  PROVE  BlockIsSet(Append(b, d), Set(conf, d))
<1>1. /\ d.name \notin ListDirectives /\ d.name \notin SingleDirectives
      /\ d.name # "error_page" /\ d.name # "location"
  BY ServerNames
<1>2. Set(conf, d) = conf
  BY <1>1 DEF Set
<1>3. SaidBy(Append(b, d), conf.set, NewConfigText.set)
  BY <1>1, GoodTells, SaidByOther DEF BlockIsSet
<1>4. PagesAgree(Append(b, d), conf.pages)
  BY <1>1, PagesKept DEF BlockIsSet
<1>5. LocationsAgree(Append(b, d), conf.locations)
  BY <1>1, LocationsKept DEF BlockIsSet
<1> QED
  BY <1>2, <1>3, <1>4, <1>5 DEF BlockIsSet

LEMMA NothingSet == BlockIsSet(<<>>, NewConfigText)
<1> DEFINE set == NewConfigText.set
<1>1. /\ DOMAIN NewConfigText = ConfFields /\ NewConfigText.pages = NoPages
      /\ NewConfigText.locations = <<>>
  BY DEF NewConfigText, ConfFields
<1>2. DOMAIN set = Fields /\ \A name \in ListDirectives : set[name] = <<>>
  <2>1. DOMAIN Unset = Fields /\ \A name \in Fields : Unset[name] = <<>>
    BY DEF Unset, Fields
  <2>2. set = [Unset EXCEPT !["root"] = <<"../website/html">>, !["autoindex"] = <<"off">>,
                            !["client_max_body_size"] = <<"1000000">>]
    BY DEF NewConfigText
  <2>3. \A name \in ListDirectives :
          name # "root" /\ name # "autoindex" /\ name # "client_max_body_size"
    BY DEF ListDirectives
  <2> HIDE DEF set
  <2> QED
    BY <2>1, <2>2, <2>3, FieldNames
<1> HIDE DEF set
<1>3. SetKinds(set)
  BY <1>2, EmptySeq DEF SetKinds
<1>4. SaidBy(<<>>, set, set)
  BY <1>2, NothingSaid
<1>5. DOMAIN <<>> = {} /\ Len(<<>>) = 0 /\ <<>> \in Seq(Sites)
  BY EmptySeq
<1>6. PagesAgree(<<>>, NoPages)
  BY <1>5 DEF PagesAgree, NoPages, Statuses, Places
<1>7. LocationPlaces(<<>>) = {}
  BY <1>5 DEF LocationPlaces, Places
<1>8. LocationsAgree(<<>>, <<>>)
  BY <1>5, <1>7, FS_EmptySet DEF LocationsAgree
<1> QED
  BY <1>1, <1>3, <1>4, <1>5, <1>6, <1>8 DEF BlockIsSet, set

LEMMA BlocksAreSet == \A b \in Seq(Good) : BlockIsSet(b, Settings(b))
<1> DEFINE T == {b \in Seq(Good) : BlockIsSet(b, Settings(b))}
<1>1. <<>> \in T
  BY SettingsEmpty, NothingSet, EmptySeq
<1>2. ASSUME NEW b \in Seq(Good), NEW d \in Good, b \in T
      PROVE  Append(b, d) \in T
  <2>1. Settings(Append(b, d)) = Set(Settings(b), d) /\ Append(b, d) \in Seq(Good)
    BY SettingsAppend, AppendProperties
  <2>2. BlockIsSet(b, Settings(b))
    BY <1>2
  <2>3. \/ d.name \in ListDirectives \cup SingleDirectives
        \/ d.name = "error_page" \/ d.name = "location" \/ d.name = "listen"
    BY ServerNames DEF Good
  <2>4. BlockIsSet(Append(b, d), Set(Settings(b), d))
    BY <2>2, <2>3, FieldKeepsBlock, PageKeepsBlock, SiteKeepsBlock, ListenKeepsBlock, Zenon
  <2> QED
    BY <2>1, <2>4
<1> HIDE DEF T
<1>3. \A b \in Seq(Good) : b \in T
  BY <1>1, <1>2, SeqInduct
<1> QED
  BY <1>3 DEF T

LEMMA WellFormedIsGood ==
  ASSUME NEW b \in AnyBlock, WellFormedBlock(b)
  PROVE  b \in Seq(Good)
<1>1. /\ b \in Seq(OuterDirective) /\ DOMAIN b = 1 .. Len(b) /\ Len(b) \in Nat
      /\ \A i \in DOMAIN b : b[i] \in OuterDirective
  BY ElementOfSeq, LenProperties DEF AnyBlock
<1>2. ASSUME NEW i \in DOMAIN b
      PROVE  b[i] \in Good
  <2>1. WellFormed(b, i, InServer)
    BY DEF WellFormedBlock
  <2>2. /\ b[i].name \in InServer
        /\ b[i].name \in SingleDirectives => Len(b[i].words) = 1
    BY <2>1 DEF WellFormed
  <2>3. ASSUME b[i].name = "location"
        PROVE  b[i].inner \in Seq(Simple)
    <3> DEFINE ds == b[i].inner
    <3>1. ds \in Seq(LineDirective)
      BY <1>1, <2>3 DEF OuterDirective, LocationDirective
    <3>2. \A j \in DOMAIN ds : WellFormed(ds, j, InLocation)
      BY DEF WellFormedBlock
    <3> HIDE DEF ds
    <3>3. /\ DOMAIN ds = 1 .. Len(ds) /\ Len(ds) \in Nat
          /\ \A j \in DOMAIN ds : ds[j] \in LineDirective
      BY <3>1, ElementOfSeq, LenProperties
    <3>4. \A j \in DOMAIN ds : ds[j] \in Simple
      BY <3>2, <3>3 DEF WellFormed, Simple
    <3>5. ds \in Seq(Simple)
      BY <3>1, <3>3, <3>4
    <3> QED
      BY <3>5 DEF ds
  <2> QED
    BY <1>1, <2>2, <2>3 DEF Good
<1> QED
  BY <1>1, <1>2

(***************************************************************************)
(* Whatever the blocks that the program is meant to read, what a well      *)
(* formed one and its locations are set to is what was written last in it, *)
(* or first for lists, and the error pages are read from the root it has   *)
(* at its end (the process functions, processErrorPages and                *)
(* getErrorPageContent).                                                   *)
(***************************************************************************)
THEOREM SettingsSaid == SettingsAreSaid
<1> SUFFICES ASSUME NEW file \in Written, NEW b \in ToSet(file), WellFormedBlock(b)
             PROVE  LET conf      == ConfigOf(b)
                        locations == Places(b, "location")
                        statuses  == UNION {ToSet(Front(b[i].words)) :
                                              i \in Places(b, "error_page")}
                        place(c)  == <<Last(conf.set["root"]), PageOf(b, c)>>
                    IN /\ SaidBy(b, conf.set, NewConfigText.set)
                       /\ DOMAIN conf.pages = {c \in statuses : place(c) \in Files}
                       /\ \A c \in DOMAIN conf.pages : conf.pages[c] = place(c)
                       /\ Len(conf.locations) = Cardinality(locations)
                       /\ \A i \in locations :
                            LET l == conf.locations[Cardinality({k \in locations : k <= i})]
                            IN SaidBy(b[i].inner, l.set, NewLocationText.set)
  BY DEF SettingsAreSaid
<1> DEFINE conf  == ConfigOf(b)
           s     == Settings(b)
           there == {c \in DOMAIN s.pages : <<s.set["root"][1], s.pages[c]>> \in Files}
           final == {c \in Statuses(b) : <<Last(s.set["root"]), PageOf(b, c)>> \in Files}
<1>1. b \in AnyBlock
  <2>1. file \in Seq(AnyBlock)
    BY WrittenAssumption DEF AnyBlock
  <2> QED
    BY <2>1, ElementOfSeq, LenProperties DEF ToSet
<1>2. b \in Seq(Good)
  BY <1>1, WellFormedIsGood
<1>3. BlockIsSet(b, s)
  BY <1>2, BlocksAreSet
<1>4. conf = [s EXCEPT !.pages = [c \in there |-> <<s.set["root"][1], s.pages[c]>>]]
  BY DEF ConfigOf, Loaded
<1> HIDE DEF conf, s
<1>5. DOMAIN s = ConfFields
  BY <1>3 DEF BlockIsSet
<1>6. /\ conf.set = s.set /\ conf.locations = s.locations
      /\ conf.pages = [c \in there |-> <<s.set["root"][1], s.pages[c]>>]
  <2> HIDE DEF there
  <2> QED
    BY <1>4, <1>5 DEF ConfFields
<1>7. SaidBy(b, s.set, NewConfigText.set)
  BY <1>3 DEF BlockIsSet
<1>8. Last(s.set["root"]) = s.set["root"][1]
  <2>1. s.set["root"] = IF Said(b, "root") = <<>> THEN NewConfigText.set["root"]
                                                  ELSE <<Last(Said(b, "root"))>>
    BY <1>7, FieldNames DEF SaidBy
  <2>2. NewConfigText.set["root"] = <<"../website/html">>
    <3>1. "root" \in DOMAIN Unset /\ "root" # "autoindex" /\ "root" # "client_max_body_size"
      BY DEF Unset, SingleDirectives
    <3> QED
      BY <3>1 DEF NewConfigText
  <2>3. \A x : Last(<<x>>) = <<x>>[1]
    BY DEF Last
  <2> QED
    BY <2>1, <2>2, <2>3
<1>9. /\ \A c : c \in DOMAIN s.pages <=> c \in Statuses(b)
      /\ \A c \in DOMAIN s.pages : s.pages[c] = PageOf(b, c)
  BY <1>3 DEF BlockIsSet, PagesAgree
<1>10. there = final
  BY <1>8, <1>9
<1>11. \A c \in there : conf.pages[c] = <<Last(conf.set["root"]), PageOf(b, c)>>
  BY <1>6, <1>8, <1>9
<1>12. DOMAIN conf.pages = final
  BY <1>6, <1>10
<1>13. /\ Len(s.locations) = Cardinality(LocationPlaces(b))
       /\ \A i \in LocationPlaces(b) : s.locations[Rank(b, i)] = LocationOf(b[i].inner)
  BY <1>3 DEF BlockIsSet, LocationsAgree
<1>14. \A i \in LocationPlaces(b) :
         SaidBy(b[i].inner, s.locations[Rank(b, i)].set, NewLocationText.set)
  <2> SUFFICES ASSUME NEW i \in LocationPlaces(b)
               PROVE  SaidBy(b[i].inner, LocationOf(b[i].inner).set, NewLocationText.set)
    BY <1>13
  <2>1. b[i] \in Good /\ b[i].name = "location"
    BY <1>2, ElementOfSeq, LenProperties DEF LocationPlaces, Places
  <2>2. b[i].inner \in Seq(Simple)
    BY <2>1 DEF Good
  <2> QED
    BY <2>2, LocationIsSaid
<1>15. /\ SaidBy(b, conf.set, NewConfigText.set)
       /\ DOMAIN conf.pages = {c \in Statuses(b) :
                                 <<Last(conf.set["root"]), PageOf(b, c)>> \in Files}
       /\ \A c \in DOMAIN conf.pages :
            conf.pages[c] = <<Last(conf.set["root"]), PageOf(b, c)>>
       /\ Len(conf.locations) = Cardinality(LocationPlaces(b))
       /\ \A i \in LocationPlaces(b) :
            SaidBy(b[i].inner, conf.locations[Rank(b, i)].set, NewLocationText.set)
  BY <1>6, <1>7, <1>10, <1>11, <1>12, <1>13, <1>14
<1> QED
  BY <1>15 DEF conf, Statuses, LocationPlaces, Rank

(***************************************************************************)
(* So it is of every file the program starts with.                         *)
(***************************************************************************)
THEOREM SettingsWritten == Spec => []SettingsAreWritten
<1>1. SettingsAreWritten
  BY SettingsSaid DEF SettingsAreWritten
<1> QED
  BY <1>1, PTL

=============================================================================
