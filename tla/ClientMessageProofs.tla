------------------------- MODULE ClientMessageProofs -------------------------
(***************************************************************************)
(* Proofs about ClientMessage for any messages, limits and ways in which   *)
(* recv() cuts the bytes up: what a request is handed is what its peer     *)
(* sent, within the limits, and once.  A peer may be eager, but does not   *)
(* use the connection again after a request that expects 100-continue.     *)
(***************************************************************************)
EXTENDS ClientMessage, FiniteSetTheorems, WellFoundedInduction, TLAPS

-----------------------------------------------------------------------------
(***************************************************************************)
(* What the peer has sent and will send on the connection is one sequence  *)
(* of units, S, in which message i begins behind at[i].                    *)
(***************************************************************************)
BodyAt(at, i) == at[i] + sent[i].lines + 1

Laid(S, at) ==
  /\ S \in Seq(Unit) /\ at \in [1 .. Len(sent) + 1 -> Nat]
  /\ at[1] = 0 /\ at[Len(sent) + 1] = Len(S)
  /\ \A i, j \in 1 .. Len(sent) + 1 : i < j => at[i] < at[j]
  /\ \A i \in DOMAIN sent :
       /\ at[i + 1] = BodyAt(at, i) + Len(sent[i].body)
       /\ S[BodyAt(at, i)] = End(sent[i])
       /\ \A k \in 1 .. Len(sent[i].body) : S[BodyAt(at, i) + k] = sent[i].body[k]
  /\ \A x \in 1 .. Len(S) : IsEnd(S[x]) => \E i \in DOMAIN sent : x = BodyAt(at, i)

\* e units of it have been received, the others are on the wire or not sent.
Fed(S, e) ==
  /\ e \in Nat /\ Len(S) = e + Len(wire) + Len(rest)
  /\ \A k \in 1 .. Len(wire) : wire[k] = S[e + k]
  /\ \A k \in 1 .. Len(rest) : rest[k] = S[e + Len(wire) + k]

\* _inbound is the end of what has been received, read up to Read.
Read(s, e) == e - Len(s.inbound)

Holds(s, S, e) ==
  /\ Read(s, e) \in Nat
  /\ \A k \in 1 .. Len(s.inbound) : s.inbound[k] = S[Read(s, e) + k]

-----------------------------------------------------------------------------
(***************************************************************************)
(* The states of the connection s, e units having been received.           *)
(***************************************************************************)
Connection ==
  [state : {"HEADER", "BODY", "RESPOND", "ERROR"}, events : {"in", "out", "hold"},
   inbound : Seq(Unit), body : Seq(Unit), total : Nat, left : Nat,
   req : {NoRequest} \cup {Parsed(m) : m \in Messages},
   reply : {"none", "100", "final", "error"}, closed : BOOLEAN]

\* Message i is being read, no part of it has been handled.
Untouched(place, i) == \A h \in DOMAIN handled : place[h] < i
\* Nothing of what is handled comes from behind x.
Passed(place, at, x) == \A h \in DOMAIN handled : at[place[h]] < x

AtHeader(s, place, at, e) ==
  /\ s.state = "HEADER" /\ s.req = NoRequest /\ s.body = <<>> /\ s.total = 0 /\ s.left = 0
  /\ Passed(place, at, Read(s, e))

\* The chunks of a message: q units of its body are read.
Cut(m) ==
  CHOOSE before \in [{p \in DOMAIN m.body : m.body[p].u = "size"} -> 0 .. Len(m.entity)] :
    Splits(before, m.body, m.entity)

AtSize(s, m, q) ==
  /\ s.left = 0 /\ q + 1 \in DOMAIN Cut(m)
  /\ s.body = SubSeq(m.entity, 1, Cut(m)[q + 1])
  /\ Len(s.body) <= s.total /\ s.total <= MaxBody

InChunk(s, m, q) ==
  /\ q - 1 \in DOMAIN Cut(m) /\ s.left = m.body[q - 1].n /\ s.left > 0
  /\ s.body = SubSeq(m.entity, 1, Cut(m)[q - 1])
  /\ Len(s.body) + s.left <= s.total /\ s.total <= MaxBody

\* The whole entity is there, or a part is and the rest is to come.
WholeBody(s, m) == s.body = m.entity /\ Len(s.body) <= MaxBody

EndsInCrlf(m) == Len(m.body) # 0 /\ m.body[Len(m.body)] = Crlf

Ended(s, m, q) ==
  /\ s.left = 0 /\ Parsed(m).post /\ Parsed(m).expect /\ WholeBody(s, m) /\ EndsInCrlf(m)
  /\ q = Len(m.body) - 1 \/ (q = Len(m.body) /\ s.inbound = <<>>)

InChunked(s, m, q) == AtSize(s, m, q) \/ InChunk(s, m, q) \/ Ended(s, m, q)

InBody(s, i, at, e) ==
  LET m == sent[i]
      q == Read(s, e) - BodyAt(at, i)
  IN /\ i \in DOMAIN sent /\ s.req = Parsed(m) /\ q \in Nat
     /\ \/ /\ s.req.lengthKnown /\ q = 0 /\ s.body = <<>> /\ s.left \in {0, m.length}
           /\ s.total = Len(s.inbound) /\ s.total <= MaxBody
        \/ s.req.chunked /\ InChunked(s, m, q)
        \/ ~ s.req.lengthKnown /\ ~ s.req.chunked /\ q = 0 /\ s.body = <<>>

\* The message is complete, and nothing but the end of its body is left of it.
Complete100(s) == [s EXCEPT !.total = 0, !.left = 0]

AtEnd(s, i, S, at, e) ==
  /\ s.state = "RESPOND" /\ i \in DOMAIN sent /\ s.req = Parsed(sent[i])
  /\ BodyAt(at, i) <= Read(s, e)
  /\ IF WantsContinue(s) THEN InBody(Complete100(s), i, at, e)
     ELSE /\ s.req.post => WholeBody(s, sent[i])
          /\ s.req.post /\ s.req.expect => e = Len(S)

-----------------------------------------------------------------------------
(***************************************************************************)
(* The invariant.                                                          *)
(***************************************************************************)

\* Handled request h is message place[h], and is what its peer sent.
Placed(place) ==
  /\ place \in [DOMAIN handled -> DOMAIN sent]
  /\ \A h \in DOMAIN handled : sent[place[h]] = handled[h].msg /\ h <= place[h]
  /\ \A g, h \in DOMAIN handled : g < h => place[g] < place[h]

Handed ==
  \A h \in DOMAIN handled :
    /\ Len(handled[h].body) <= MaxBody
    /\ handled[h].msg.method = "POST" => handled[h].body = handled[h].msg.entity

Kinds ==
  /\ c \in Connection /\ wire \in Seq(Unit) /\ rest \in Seq(Unit)
  /\ sent \in Seq(Messages) /\ Len(sent) <= MaxSent
  /\ replies \in Seq({"100", "final", "error"})
  /\ handled \in Seq([msg : Messages, body : Seq(Unit)])

Waiting(S, at, place, e) ==
  /\ c.events = "in" /\ c.state = "HEADER"
  /\ AtHeader(c, place, at, e) /\ Len(c.inbound) <= MaxHeader

Receiving(S, at, place, e) ==
  /\ c.events = "in" /\ c.state = "BODY"
  /\ \E i \in DOMAIN sent : Untouched(place, i) /\ InBody(c, i, at, e)

Continuing(S, at, place, e) ==
  /\ c.events = "out" /\ c.reply = "100" /\ c.state = "RESPOND" /\ WantsContinue(c)
  /\ \E i \in DOMAIN sent : Untouched(place, i) /\ AtEnd(c, i, S, at, e)

Answering(S, at, place, e) ==
  /\ c.events = "hold" \/ (c.events = "out" /\ c.reply = "final")
  /\ c.state = "RESPOND" /\ Passed(place, at, e)
  /\ c.req.post /\ c.req.expect => e = Len(S) /\ Expects

Refusing(S, at, place, e) ==
  c.state = "ERROR" /\ c.events = "out" /\ c.reply = "error" /\ Passed(place, at, e)

\* Once a request that expects 100-continue is answered, nothing more comes.
Spent(S, e) == c.state = "BODY" /\ c.events = "in" /\ e = Len(S) /\ Expects

Stage(S, at, place, e) ==
  \/ c.closed /\ c.state = "RESPOND"
  \/ Waiting(S, at, place, e) \/ Receiving(S, at, place, e) \/ Continuing(S, at, place, e)
  \/ Answering(S, at, place, e) \/ Refusing(S, at, place, e) \/ Spent(S, e)

LastExpects == \A i \in DOMAIN sent : Asks100(sent[i]) => i = Len(sent)

Course(S, at, place, e) ==
  /\ Laid(S, at) /\ Fed(S, e) /\ Holds(c, S, e) /\ Placed(place) /\ Stage(S, at, place, e)

MessageInv == Kinds /\ Handed /\ LastExpects /\ \E S, at, place, e : Course(S, at, place, e)

-----------------------------------------------------------------------------
(***************************************************************************)
(* Natural numbers, units and messages.                                    *)
(***************************************************************************)
Before == {pair \in Nat \X Nat : pair[1] < pair[2]}

LEMMA BeforeIsWellFounded == IsWellFoundedOn(Before, Nat)
BY NatLessThanWellFounded DEF Before, OpToRel

LEMMA LeastIsThere ==
  ASSUME NEW S \in SUBSET Nat, S # {}
  PROVE  \E x \in S : \A y \in S : x <= y
<1>1. PICK x \in S : \A y \in S : ~ (<<y, x>> \in Before)
  BY BeforeIsWellFounded, WFMin
<1>2. \A y \in S : x <= y
  <2> SUFFICES ASSUME NEW y \in S, ~ (x <= y) PROVE FALSE
    OBVIOUS
  <2>1. x \in Nat /\ y \in Nat /\ y < x
    OBVIOUS
  <2>2. <<y, x>> \in Before
    BY <2>1 DEF Before
  <2> QED
    BY <2>2, <1>1
<1> QED
  BY <1>2

LEMMA MinIsLeast ==
  ASSUME NEW S \in SUBSET Nat, S # {}
  PROVE  Min(S) \in S /\ \A y \in S : Min(S) <= y
BY LeastIsThere DEF Min

\* What can be told of a unit by its kind.
LEMMA UnitKinds ==
  ASSUME NEW x \in Unit
  PROVE  /\ x.u \in {"line", "crlf", "size", "data", "end"}
         /\ x.u = "size" => x.n \in Nat
         /\ x.u = "end" => x.m \in Messages /\ x = End(x.m)
         /\ x.u = "crlf" => x = Crlf
         /\ x.u = "data" => x \in DataUnit
BY DEF Unit, DataUnit, SizeUnit, Crlf, Line, End

LEMMA KindsOfUnits ==
  /\ Line.u = "line" /\ Crlf.u = "crlf" /\ \A x \in DataUnit : x.u = "data"
  /\ \A m : End(m).u = "end" /\ End(m).m = m
  /\ Line \in Unit /\ Crlf \in Unit /\ DataUnit \subseteq Unit
  /\ \A m \in Messages : End(m) \in Unit
BY DEF Unit, DataUnit, SizeUnit, Crlf, Line, End

LEMMA MessageKinds ==
  ASSUME NEW m \in Messages
  PROVE  /\ m.method \in {"GET", "POST"} /\ m.length \in Nat /\ m.lines \in Nat
         /\ m.body \in Seq(Unit) /\ m.entity \in Seq(DataUnit) /\ m.entity \in Seq(Unit)
         /\ Framed(m)
<1>1. m \in Message
  BY MessageAssumption
<1>2. DataUnit \cup SizeUnit \cup {Crlf} \subseteq Unit
  BY DEF Unit
<1>3. m.body \in Seq(DataUnit \cup SizeUnit \cup {Crlf}) /\ m.entity \in Seq(DataUnit)
  BY <1>1 DEF Message
<1> QED
  BY <1>1, <1>2, <1>3, FramingAssumption DEF Message

LEMMA ParsedKinds ==
  ASSUME NEW m \in Messages
  PROVE  LET r == Parsed(m) IN
         /\ r.keep \in BOOLEAN /\ r.expect \in BOOLEAN /\ r.post \in BOOLEAN
         /\ r.lengthKnown \in BOOLEAN /\ r.chunked \in BOOLEAN /\ r.length \in Nat
         /\ r.msg = m /\ (r.post <=> m.method = "POST")
         /\ r.lengthKnown => r.length = m.length
         /\ r.expect => Asks100(m)
<1>1. m \in Message
  BY MessageAssumption
<1>2. Len(m.fields) \in Nat /\ DOMAIN m.fields = 1 .. Len(m.fields)
  BY <1>1 DEF Message
<1> DEFINE seen == {m.fields[i] : i \in 1 .. Len(m.fields) - 1}
           r == Parsed(m)
<1>3. /\ r.keep = ("close" \notin seen) /\ r.expect = ("expect" \in seen)
      /\ r.post = (m.method = "POST") /\ r.lengthKnown = ("length" \in seen)
      /\ r.chunked = ("chunked" \in seen) /\ r.msg = m
      /\ r.length = IF "length" \in seen THEN m.length ELSE 0
  BY DEF Parsed
<1>4. "expect" \in seen => Asks100(m)
  BY <1>2 DEF Asks100
<1> HIDE DEF seen, r
<1>5. \A x : (x \in seen) \in BOOLEAN /\ (x \notin seen) \in BOOLEAN
  OBVIOUS
<1>6. /\ r.keep \in BOOLEAN /\ r.expect \in BOOLEAN
      /\ r.lengthKnown \in BOOLEAN /\ r.chunked \in BOOLEAN
  BY <1>3, <1>5, Zenon
<1>7. r.post \in BOOLEAN /\ (r.post <=> m.method = "POST")
  BY <1>3, Zenon
<1>8. r.lengthKnown <=> "length" \in seen
  BY <1>3, Zenon
<1>9. r.expect => Asks100(m)
  BY <1>3, <1>4, Zenon
<1>10. r.length \in Nat /\ (r.lengthKnown => r.length = m.length)
  BY <1>1, <1>3, <1>8 DEF Message
<1> QED
  BY <1>3, <1>6, <1>7, <1>9, <1>10 DEF r

\* The header of a message: its lines and its end.
LEMMA HeaderKinds ==
  ASSUME NEW m \in Messages
  PROVE  /\ Header(m) \in Seq(Unit) /\ Len(Header(m)) = m.lines + 1
         /\ \A k \in 1 .. m.lines : Header(m)[k] = Line
         /\ Header(m)[m.lines + 1] = End(m)
<1> DEFINE lines == [i \in 1 .. m.lines |-> Line]
<1>1. m.lines \in Nat
  BY MessageKinds
<1>2. lines \in Seq(Unit) /\ Len(lines) = m.lines
  BY <1>1, KindsOfUnits
<1>3. <<End(m)>> \in Seq(Unit) /\ Len(<<End(m)>>) = 1 /\ <<End(m)>>[1] = End(m)
  BY KindsOfUnits
<1>4. \A k \in 1 .. m.lines : lines[k] = Line
  OBVIOUS
<1> HIDE DEF lines
<1>5. Header(m) = lines \o <<End(m)>>
  BY DEF Header, lines
<1> QED
  BY <1>1, <1>2, <1>3, <1>4, <1>5

\* Chunks: the function Cut tells where the size lines are.
LEMMA CutSplits ==
  ASSUME NEW m \in Messages, Parsed(m).chunked
  PROVE  /\ Cut(m) \in [{p \in DOMAIN m.body : m.body[p].u = "size"} -> 0 .. Len(m.entity)]
         /\ Splits(Cut(m), m.body, m.entity)
<1>1. InChunks(m.body, m.entity)
  BY MessageKinds DEF Framed
<1> QED
  BY <1>1 DEF InChunks, Cut

-----------------------------------------------------------------------------
(***************************************************************************)
(* The loop of receiveChunked: what each of its turns keeps, it keeps.     *)
(***************************************************************************)
Turns(s, f, n) == f = [i \in 0 .. n |-> IF i = 0 THEN s ELSE ChunkTurn(f[i - 1])]

LEMMA TurnsExist ==
  ASSUME NEW X, NEW s \in X, \A t \in X : ChunkTurn(t) \in X, NEW n \in Nat
  PROVE  \E f \in [0 .. n -> X] : Turns(s, f, n)
<1> DEFINE Bad == {k \in Nat : ~ \E f \in [0 .. k -> X] : Turns(s, f, k)}
<1> SUFFICES ASSUME Bad # {} PROVE FALSE
  OBVIOUS
<1>1. PICK k \in Bad : \A j \in Bad : k <= j
  BY LeastIsThere
<1>2. CASE k = 0
  <2> DEFINE f == [i \in 0 .. 0 |-> s]
  <2>1. f \in [0 .. 0 -> X] /\ Turns(s, f, 0)
    BY DEF Turns
  <2> QED
    BY <2>1, <1>2
<1>3. CASE k # 0
  <2>1. k \in Nat /\ k - 1 \in Nat
    BY <1>3
  <2>2. k - 1 \notin Bad
    BY <2>1, <1>1
  <2>3. PICK g \in [0 .. k - 1 -> X] : Turns(s, g, k - 1)
    BY <2>1, <2>2
  <2> DEFINE f == [i \in 0 .. k |-> IF i = k THEN ChunkTurn(g[k - 1]) ELSE g[i]]
  <2>4. f \in [0 .. k -> X]
    BY <2>1, <2>3
  <2>5. \A i \in 0 .. k : f[i] = IF i = 0 THEN s ELSE ChunkTurn(f[i - 1])
    <3> SUFFICES ASSUME NEW i \in 0 .. k
                 PROVE  f[i] = IF i = 0 THEN s ELSE ChunkTurn(f[i - 1])
      OBVIOUS
    <3>1. CASE i = k
      <4>1. f[k] = ChunkTurn(g[k - 1]) /\ f[k - 1] = g[k - 1]
        BY <2>1
      <4> QED
        BY <4>1, <3>1, <1>3
    <3>2. CASE i # k
      <4>1. i \in 0 .. k - 1 /\ f[i] = g[i]
        BY <2>1, <3>2
      <4>2. g[i] = IF i = 0 THEN s ELSE ChunkTurn(g[i - 1])
        BY <4>1, <2>3 DEF Turns
      <4>3. i # 0 => f[i - 1] = g[i - 1]
        BY <2>1, <3>2, <4>1
      <4> QED
        BY <4>1, <4>2, <4>3
    <3> QED
      BY <3>1, <3>2
  <2>6. Turns(s, f, k)
    BY <2>4, <2>5 DEF Turns
  <2> QED
    BY <2>4, <2>6, <1>1
<1> QED
  BY <1>2, <1>3

LEMMA ChunkedKeeps ==
  ASSUME NEW X, NEW s \in X, \A t \in X : ChunkTurn(t) \in X, Len(s.inbound) \in Nat
  PROVE  ReceiveChunked(s) \in X
<1> DEFINE n == Len(s.inbound)
           g == CHOOSE f : Turns(s, f, n)
<1>1. n \in Nat
  OBVIOUS
<1> HIDE DEF n
<1>2. PICK h \in [0 .. n -> X] : Turns(s, h, n)
  BY <1>1, TurnsExist
<1>3. Turns(s, g, n)
  BY <1>2
<1> HIDE DEF g
<1>4. \A i \in 0 .. n : g[i] \in X
  <2> DEFINE Bad == {i \in 0 .. n : g[i] \notin X}
  <2> SUFFICES ASSUME Bad # {} PROVE FALSE
    OBVIOUS
  <2>1. Bad \in SUBSET Nat
    BY <1>1
  <2>2. PICK k \in Bad : \A j \in Bad : k <= j
    BY <2>1, LeastIsThere
  <2>3. g[k] = IF k = 0 THEN s ELSE ChunkTurn(g[k - 1])
    BY <1>3 DEF Turns
  <2>4. k # 0 => k - 1 \in 0 .. n /\ ~ (k <= k - 1)
    BY <1>1
  <2>5. k # 0 => g[k - 1] \in X
    BY <2>2, <2>4
  <2> QED
    BY <2>2, <2>3, <2>5
<1>5. ReceiveChunked(s) = g[n]
  BY DEF ReceiveChunked, Turns, g, n
<1> QED
  BY <1>1, <1>4, <1>5

\* Reading on.
LEMMA AfterKinds ==
  ASSUME NEW s \in Seq(Unit), NEW n \in 0 .. Len(s)
  PROVE  /\ After(s, n) \in Seq(Unit) /\ Len(After(s, n)) = Len(s) - n
         /\ \A k \in 1 .. Len(s) - n : After(s, n)[k] = s[n + k]
BY DEF After

\* The first CRLF that is buffered.
LEMMA FirstCrlf ==
  ASSUME NEW s \in Seq(Unit)
  PROVE  LET pos == SelectInSeq(s, IsCrlf) IN
         /\ pos \in 0 .. Len(s)
         /\ pos # 0 => s[pos].u = "crlf" /\ \A k \in 1 .. pos - 1 : s[k].u # "crlf"
<1> DEFINE I == {k \in 1 .. Len(s) : IsCrlf(s[k])}
<1>1. I \in SUBSET Nat
  OBVIOUS
<1>2. I # {} => Min(I) \in I /\ \A k \in I : Min(I) <= k
  BY <1>1, MinIsLeast
<1>3. SelectInSeq(s, IsCrlf) = IF I # {} THEN Min(I) ELSE 0
  BY DEF SelectInSeq
<1> HIDE DEF I
<1>4. CASE I = {}
  BY <1>3, <1>4
<1>5. CASE I # {}
  <2>1. Min(I) \in 1 .. Len(s) /\ IsCrlf(s[Min(I)]) /\ \A k \in I : Min(I) <= k
    BY <1>2, <1>5 DEF I
  <2>2. \A k \in 1 .. Min(I) - 1 : k \notin I
    BY <2>1
  <2>3. \A k \in 1 .. Min(I) - 1 : ~ IsCrlf(s[k])
    BY <2>1, <2>2 DEF I
  <2> QED
    BY <1>3, <1>5, <2>1, <2>3 DEF IsCrlf
<1> QED
  BY <1>4, <1>5

-----------------------------------------------------------------------------
(***************************************************************************)
(* A body in chunks.  b units of S come before the body of m.              *)
(***************************************************************************)
AtBody(m, S, b) ==
  b \in Nat /\ b + Len(m.body) <= Len(S) /\ \A k \in 1 .. Len(m.body) : S[b + k] = m.body[k]

Chunking(t, m, q) ==
  \/ t.state = "BODY" /\ InChunked(t, m, q)
  \/ /\ t.state = "RESPOND" /\ WholeBody(t, m) /\ EndsInCrlf(m)
     /\ q \in {Len(m.body) - 1, Len(m.body)}
  \/ t.state = "ERROR" /\ t.reply = "error" /\ t.events = "out"

Chunkings(s, m, S, b, e) ==
  {t \in Connection :
     /\ t.req = s.req /\ t.closed = s.closed
     /\ t.state # "ERROR" => t.reply = s.reply /\ t.events = s.events
     /\ Holds(t, S, e) /\ Read(t, e) - b \in Nat
     /\ Chunking(t, m, Read(t, e) - b)}

LEMMA FailKinds ==
  ASSUME NEW s \in Connection
  PROVE  /\ Fail(s) \in Connection /\ Fail(s).state = "ERROR" /\ Fail(s).events = "out"
         /\ Fail(s).reply = "error" /\ Fail(s).inbound = s.inbound
         /\ Fail(s).req = s.req /\ Fail(s).closed = s.closed
BY DEF Fail, Connection

\* What a step of the loop makes of the buffer.
LEMMA BufferCut ==
  ASSUME NEW t \in Connection, NEW S \in Seq(Unit), NEW e \in Nat, Holds(t, S, e),
         NEW n \in 0 .. Len(t.inbound), NEW u, u.inbound = After(t.inbound, n)
  PROVE  /\ u.inbound \in Seq(Unit) /\ Holds(u, S, e) /\ Read(u, e) = Read(t, e) + n
         /\ Len(u.inbound) = Len(t.inbound) - n
<1>1. t.inbound \in Seq(Unit) /\ Len(t.inbound) \in Nat
  BY DEF Connection
<1>2. /\ u.inbound \in Seq(Unit) /\ Len(u.inbound) = Len(t.inbound) - n
      /\ \A k \in 1 .. Len(t.inbound) - n : u.inbound[k] = t.inbound[n + k]
  BY <1>1, AfterKinds
<1>3. Read(u, e) = Read(t, e) + n /\ Read(u, e) \in Nat
  BY <1>1, <1>2 DEF Holds, Read
<1>4. \A k \in 1 .. Len(u.inbound) : u.inbound[k] = S[Read(u, e) + k]
  <2> SUFFICES ASSUME NEW k \in 1 .. Len(u.inbound) PROVE u.inbound[k] = S[Read(u, e) + k]
    OBVIOUS
  <2>1. n + k \in 1 .. Len(t.inbound) /\ u.inbound[k] = t.inbound[n + k]
    BY <1>1, <1>2
  <2>2. t.inbound[n + k] = S[Read(t, e) + (n + k)]
    BY <2>1 DEF Holds
  <2>3. Read(t, e) + (n + k) = Read(u, e) + k
    BY <1>3 DEF Holds
  <2> QED
    BY <2>1, <2>2, <2>3
<1> QED
  BY <1>2, <1>3, <1>4 DEF Holds

\* What is buffered is a part of the body.
LEMMA BufferIsBody ==
  ASSUME NEW m \in Messages, NEW S, NEW b, AtBody(m, S, b), NEW e \in Nat,
         NEW t \in Connection, Holds(t, S, e), NEW q \in Nat, Read(t, e) = b + q
  PROVE  \A k \in 1 .. Len(t.inbound) : q + k <= Len(m.body) => t.inbound[k] = m.body[q + k]
<1> SUFFICES ASSUME NEW k \in 1 .. Len(t.inbound), q + k <= Len(m.body)
             PROVE  t.inbound[k] = m.body[q + k]
  OBVIOUS
<1>1. t.inbound[k] = S[Read(t, e) + k]
  BY DEF Holds
<1>2. Len(t.inbound) \in Nat /\ Len(m.body) \in Nat
  BY MessageKinds DEF Connection
<1>3. q + k \in 1 .. Len(m.body) /\ Read(t, e) + k = b + (q + k)
  BY <1>2 DEF AtBody
<1> QED
  BY <1>1, <1>3 DEF AtBody

\* A size line of a message in chunks, and what follows it.
LEMMA CutAt ==
  ASSUME NEW m \in Messages, Parsed(m).chunked, NEW p \in DOMAIN Cut(m)
  PROVE  /\ p \in 1 .. Len(m.body) /\ m.body[p].u = "size" /\ m.body[p].n \in Nat
         /\ Cut(m)[p] \in 0 .. Len(m.entity)
         /\ p + 1 <= Len(m.body) /\ m.body[p + 1] = Crlf
         /\ m.body[p].n = 0 => /\ Cut(m)[p] = Len(m.entity) /\ Len(m.body) = p + 2
                              /\ m.body[p + 2] = Crlf
         /\ m.body[p].n > 0 =>
              /\ p + m.body[p].n + 3 \in DOMAIN Cut(m)
              /\ Cut(m)[p + m.body[p].n + 3] = Cut(m)[p] + m.body[p].n
              /\ m.body[(p + m.body[p].n + 3) - 1] = Crlf
              /\ \A k \in 1 .. m.body[p].n : m.body[p + 1 + k] = m.entity[Cut(m)[p] + k]
<1>1. /\ Cut(m) \in [{x \in DOMAIN m.body : m.body[x].u = "size"} -> 0 .. Len(m.entity)]
      /\ Splits(Cut(m), m.body, m.entity)
  BY CutSplits
<1>2. m.body \in Seq(Unit)
  BY MessageKinds
<1>3. p \in 1 .. Len(m.body) /\ m.body[p].u = "size" /\ Cut(m)[p] \in 0 .. Len(m.entity)
  BY <1>1, <1>2
<1>4. m.body[p].n \in Nat
  BY <1>2, <1>3, UnitKinds
<1> QED
  BY <1>1, <1>3, <1>4 DEF Splits

LEMMA SizeTaken ==
  ASSUME NEW s, NEW m \in Messages, Parsed(m).chunked, NEW S \in Seq(Unit), NEW b,
         AtBody(m, S, b), NEW e \in Nat, NEW t \in Chunkings(s, m, S, b, e),
         t.state = "BODY", t.left = 0, NEW pos, pos = SelectInSeq(t.inbound, IsCrlf), pos # 0
  PROVE  TakeSize(t, pos) \in Chunkings(s, m, S, b, e)
<1> DEFINE n == SizeBefore(t, pos)
           u == [t EXCEPT !.inbound = After(t.inbound, pos), !.left = n, !.total = t.total + n]
           v == [u EXCEPT !.state = "RESPOND"]
           q == Read(t, e) - b
<1> HIDE DEF n, u, v, q
<1>1. TakeSize(t, pos) = IF n = 0 THEN v ELSE IF u.total > MaxBody THEN Fail(u) ELSE u
  BY DEF TakeSize, n, u, v
<1>2. /\ t \in Connection /\ Holds(t, S, e) /\ q \in Nat /\ InChunked(t, m, q)
      /\ t.req = s.req /\ t.closed = s.closed /\ t.reply = s.reply /\ t.events = s.events
  BY DEF Chunkings, Chunking, q
<1>3. /\ t.inbound \in Seq(Unit) /\ Len(t.inbound) \in Nat /\ t.total \in Nat
      /\ t.body \in Seq(Unit)
  BY <1>2 DEF Connection
<1>4. /\ pos \in 1 .. Len(t.inbound) /\ t.inbound[pos].u = "crlf"
      /\ \A k \in 1 .. pos - 1 : t.inbound[k].u # "crlf"
  BY <1>3, FirstCrlf
<1>5. 1 \in 1 .. Len(t.inbound) /\ t.inbound[1] \in Unit /\ n \in Nat
  <2>1. 1 \in 1 .. Len(t.inbound) /\ t.inbound[1] \in Unit
    BY <1>3, <1>4
  <2> QED
    BY <2>1, UnitKinds DEF SizeBefore, n
<1>6. Read(t, e) = b + q
  BY <1>2 DEF q, Holds, Read, AtBody
<1>7. \A k \in 1 .. Len(t.inbound) : q + k <= Len(m.body) => t.inbound[k] = m.body[q + k]
  BY <1>2, <1>6, BufferIsBody
<1>8. After(t.inbound, pos) \in Seq(Unit) /\ t.total + n \in Nat
  <2>1. pos \in 0 .. Len(t.inbound)
    BY <1>4
  <2>2. After(t.inbound, pos) \in Seq(Unit)
    BY <2>1, <1>3, AfterKinds
  <2> QED
    BY <2>2, <1>3, <1>5
<1>9. /\ u \in Connection /\ u.inbound = After(t.inbound, pos) /\ u.left = n
      /\ u.total = t.total + n /\ u.body = t.body /\ u.state = "BODY" /\ u.req = t.req
      /\ u.closed = t.closed /\ u.reply = t.reply /\ u.events = t.events
  BY <1>2, <1>5, <1>8 DEF Connection, u
<1>10. /\ v \in Connection /\ v.inbound = After(t.inbound, pos) /\ v.left = n
       /\ v.body = t.body /\ v.state = "RESPOND" /\ v.req = t.req
       /\ v.closed = t.closed /\ v.reply = t.reply /\ v.events = t.events
  BY <1>9 DEF Connection, v
<1>11. /\ Fail(u) \in Connection /\ Fail(u).state = "ERROR" /\ Fail(u).events = "out"
       /\ Fail(u).reply = "error" /\ Fail(u).inbound = After(t.inbound, pos)
       /\ Fail(u).req = t.req /\ Fail(u).closed = t.closed
  BY <1>9, FailKinds
<1>12. \A w : w.inbound = After(t.inbound, pos) =>
         Holds(w, S, e) /\ Read(w, e) - b = q + pos /\ q + pos \in Nat
  <2> SUFFICES ASSUME NEW w, w.inbound = After(t.inbound, pos)
               PROVE  Holds(w, S, e) /\ Read(w, e) - b = q + pos /\ q + pos \in Nat
    OBVIOUS
  <2>1. Holds(w, S, e) /\ Read(w, e) = Read(t, e) + pos
    BY <1>2, <1>4, BufferCut
  <2> QED
    BY <2>1, <1>2, <1>4, <1>6 DEF AtBody
<1>13. ASSUME NEW w \in {u, v, Fail(u)}, Chunking(w, m, q + pos)
       PROVE  w \in Chunkings(s, m, S, b, e)
  BY <1>2, <1>9, <1>10, <1>11, <1>12, <1>13 DEF Chunkings
<1>14. Fail(u) \in Chunkings(s, m, S, b, e)
  BY <1>11, <1>13 DEF Chunking
<1>15. CASE AtSize(t, m, q)
  <2>1. q + 1 \in DOMAIN Cut(m)
    BY <1>15 DEF AtSize
  <2>2. Len(m.body) \in Nat
    BY MessageKinds
  <2>3. q + 1 \in 1 .. Len(m.body) /\ m.body[q + 1].u = "size"
    BY <2>1, CutAt
  <2>4. (q + 1) + 1 <= Len(m.body) /\ m.body[(q + 1) + 1] = Crlf
    BY <2>1, CutAt
  <2>5. t.inbound[1] = m.body[q + 1]
    BY <1>5, <1>7, <2>3, <2>2
  <2>6. pos = 2
    <3>1. pos # 1
      BY <1>4, <2>3, <2>5
    <3>2. 2 \in 1 .. Len(t.inbound)
      BY <1>3, <1>4, <3>1
    <3>3. t.inbound[2] = m.body[q + 2] /\ (q + 1) + 1 = q + 2
      BY <1>2, <1>7, <2>4, <3>2
    <3>4. t.inbound[2].u = "crlf"
      BY <2>4, <3>3, KindsOfUnits
    <3>5. ~ (2 \in 1 .. pos - 1)
      BY <1>4, <3>4
    <3> QED
      BY <1>3, <1>4, <3>1, <3>5
  <2>7. n = m.body[q + 1].n
    BY <2>3, <2>5, <2>6 DEF n, SizeBefore
  <2>8. CASE n = 0
    <3>1. Cut(m)[q + 1] = Len(m.entity) /\ Len(m.body) = (q + 1) + 2
          /\ m.body[(q + 1) + 2] = Crlf
      BY <2>1, <2>7, <2>8, CutAt
    <3>2. v.body = SubSeq(m.entity, 1, Len(m.entity)) /\ Len(v.body) <= MaxBody
      BY <1>3, <1>10, <1>15, <3>1, MessageAssumption DEF AtSize
    <3>3. WholeBody(v, m)
      BY <3>2, MessageKinds DEF WholeBody
    <3>4. EndsInCrlf(m) /\ q + pos = Len(m.body) - 1
      BY <1>2, <2>2, <2>6, <3>1 DEF EndsInCrlf
    <3> QED
      BY <1>1, <1>10, <1>13, <2>8, <3>3, <3>4 DEF Chunking
  <2>9. CASE n # 0 /\ ~ (u.total > MaxBody)
    <3>1. (q + 2) - 1 = q + 1
      BY <1>2
    <3>2. Len(t.body) + n <= u.total /\ u.total <= MaxBody
      <4>1. Len(t.body) <= t.total /\ Len(t.body) \in Nat
        BY <1>3, <1>15 DEF AtSize
      <4> QED
        BY <1>3, <1>5, <1>9, <2>9, <4>1, MessageAssumption
    <3>3. u.body = SubSeq(m.entity, 1, Cut(m)[q + 1]) /\ u.left = m.body[q + 1].n
      BY <1>9, <1>15, <2>7 DEF AtSize
    <3>4. u.left > 0 /\ Len(u.body) + u.left <= u.total
      BY <1>5, <1>9, <2>9, <3>2
    <3>5. InChunk(u, m, q + 2)
      BY <2>1, <3>1, <3>2, <3>3, <3>4 DEF InChunk
    <3> QED
      BY <1>1, <1>9, <1>13, <2>6, <2>9, <3>5 DEF Chunking, InChunked
  <2> QED
    BY <1>1, <1>14, <2>8, <2>9
<1>16. CASE Ended(t, m, q)
  <2>1. q = Len(m.body) - 1 /\ EndsInCrlf(m) /\ WholeBody(t, m)
    BY <1>3, <1>4, <1>16 DEF Ended
  <2>2. t.inbound[1] = Crlf
    <3>1. Len(m.body) \in Nat
      BY MessageKinds
    <3>2. q + 1 = Len(m.body)
      BY <2>1, <3>1
    <3>3. t.inbound[1] = m.body[q + 1]
      BY <1>5, <1>7, <3>1, <3>2
    <3> QED
      BY <2>1, <3>2, <3>3 DEF EndsInCrlf
  <2>3. pos = 1
    <3>1. ~ (1 \in 1 .. pos - 1)
      BY <1>4, <2>2, KindsOfUnits
    <3> QED
      BY <1>4, <1>3, <3>1
  <2>4. n = 0
    BY <2>3 DEF n, SizeBefore
  <2>5. WholeBody(v, m)
    BY <1>10, <2>1 DEF WholeBody
  <2>6. q + pos = Len(m.body)
    BY <2>1, <2>3, MessageKinds
  <2> QED
    BY <1>1, <1>10, <1>13, <2>1, <2>4, <2>5, <2>6 DEF Chunking
<1>17. ~ InChunk(t, m, q)
  BY DEF InChunk
<1> QED
  BY <1>2, <1>15, <1>16, <1>17 DEF InChunked

\* The beginning of an entity and the piece that follows it.
LEMMA PieceJoins ==
  ASSUME NEW s \in Seq(DataUnit), NEW a \in Nat, NEW n \in Nat, a + n <= Len(s),
         NEW piece \in Seq(Unit), Len(piece) = n, \A k \in 1 .. n : piece[k] = s[a + k]
  PROVE  SubSeq(s, 1, a) \o piece = SubSeq(s, 1, a + n)
<1> DEFINE joined == SubSeq(s, 1, a) \o piece
<1>1. /\ SubSeq(s, 1, a) \in Seq(DataUnit) /\ Len(SubSeq(s, 1, a)) = a
      /\ \A k \in 1 .. a : SubSeq(s, 1, a)[k] = s[k]
  OBVIOUS
<1>2. /\ SubSeq(s, 1, a + n) \in Seq(DataUnit) /\ Len(SubSeq(s, 1, a + n)) = a + n
      /\ \A k \in 1 .. a + n : SubSeq(s, 1, a + n)[k] = s[k]
  OBVIOUS
<1>3. SubSeq(s, 1, a) \in Seq(Unit) /\ SubSeq(s, 1, a + n) \in Seq(Unit)
  BY <1>1, <1>2, KindsOfUnits
<1>4. joined \in Seq(Unit) /\ Len(joined) = a + n
  BY <1>1, <1>3
<1>5. \A k \in 1 .. a + n : joined[k] = s[k]
  <2> SUFFICES ASSUME NEW k \in 1 .. a + n PROVE joined[k] = s[k]
    OBVIOUS
  <2>1. CASE k <= a
    BY <1>1, <1>3, <2>1
  <2>2. CASE k > a
    <3>1. k - a \in 1 .. n /\ a + (k - a) = k
      BY <2>2
    <3>2. joined[k] = piece[k - a]
      BY <1>1, <1>3, <2>2
    <3> QED
      BY <3>1, <3>2
  <2> QED
    BY <2>1, <2>2
<1> HIDE DEF joined
<1>6. joined = SubSeq(s, 1, a + n)
  BY <1>2, <1>3, <1>4, <1>5
<1> QED
  BY <1>6 DEF joined

LEMMA SameUnits ==
  ASSUME NEW a \in Seq(Unit), NEW d \in Seq(Unit), Len(a) = Len(d),
         \A k \in 1 .. Len(a) : a[k] = d[k]
  PROVE  a = d
OBVIOUS

LEMMA JoinedKinds ==
  ASSUME NEW a \in Seq(Unit), NEW d \in Seq(Unit)
  PROVE  a \o d \in Seq(Unit) /\ Len(a \o d) = Len(a) + Len(d)
OBVIOUS

\* Where the CRLF behind a piece and the piece itself are.
LEMMA Sums ==
  ASSUME NEW p \in Nat, NEW n \in Nat, NEW l \in Nat, p + n + 3 \in 1 .. l
  PROVE  /\ (p + 1) + (n + 1) = (p + n + 3) - 1 /\ (p + 1) + (n + 1) <= l
         /\ \A k \in 1 .. n : (p + 1) + k <= l /\ (p + 1) + k = p + 1 + k
OBVIOUS

LEMMA ChunkTaken ==
  ASSUME NEW s, NEW m \in Messages, Parsed(m).chunked, NEW S \in Seq(Unit), NEW b,
         AtBody(m, S, b), NEW e \in Nat, NEW t \in Chunkings(s, m, S, b, e),
         t.state = "BODY", t.left > 0, t.left + 1 <= Len(t.inbound)
  PROVE  TakeChunk(t) \in Chunkings(s, m, S, b, e)
<1> DEFINE n == t.left
           piece == SubSeq(t.inbound, 1, n)
           u == [t EXCEPT !.body = t.body \o piece, !.inbound = After(t.inbound, n + 1),
                          !.left = 0]
           q == Read(t, e) - b
<1>1. TakeChunk(t) = IF ~ IsCrlf(t.inbound[n + 1]) THEN Fail(t) ELSE u
  BY DEF TakeChunk
<1> HIDE DEF n, piece, u, q
<1>2. /\ t \in Connection /\ Holds(t, S, e) /\ q \in Nat /\ InChunked(t, m, q)
      /\ t.req = s.req /\ t.closed = s.closed /\ t.reply = s.reply /\ t.events = s.events
  BY DEF Chunkings, Chunking, q
<1>3. /\ t.inbound \in Seq(Unit) /\ Len(t.inbound) \in Nat /\ t.total \in Nat
      /\ t.body \in Seq(Unit) /\ n \in Nat /\ n > 0 /\ n + 1 <= Len(t.inbound)
  BY <1>2 DEF Connection, n
<1>4. InChunk(t, m, q)
  BY <1>2, <1>3 DEF InChunked, AtSize, Ended, n
<1> DEFINE p == q - 1
<1>5. /\ p \in DOMAIN Cut(m) /\ n = m.body[p].n /\ t.body = SubSeq(m.entity, 1, Cut(m)[p])
      /\ Len(t.body) + n <= t.total /\ t.total <= MaxBody
  BY <1>4 DEF InChunk, n
<1>6. q = p + 1
  BY <1>2
<1> HIDE DEF p
<1>7. /\ p \in 1 .. Len(m.body) /\ Len(m.body) \in Nat
      /\ p + n + 3 \in DOMAIN Cut(m) /\ Cut(m)[p + n + 3] = Cut(m)[p] + n
      /\ m.body[(p + n + 3) - 1] = Crlf
      /\ \A k \in 1 .. n : m.body[p + 1 + k] = m.entity[Cut(m)[p] + k]
  <2>1. m.body[p].n > 0
    BY <1>3, <1>5
  <2>2. p \in 1 .. Len(m.body) /\ Len(m.body) \in Nat
    BY <1>5, CutAt, MessageKinds
  <2>3. /\ p + m.body[p].n + 3 \in DOMAIN Cut(m)
        /\ Cut(m)[p + m.body[p].n + 3] = Cut(m)[p] + m.body[p].n
        /\ m.body[(p + m.body[p].n + 3) - 1] = Crlf
        /\ \A k \in 1 .. m.body[p].n : m.body[p + 1 + k] = m.entity[Cut(m)[p] + k]
    BY <1>5, <2>1, CutAt
  <2> QED
    BY <1>5, <2>2, <2>3
<1>8. /\ p + n + 3 \in 1 .. Len(m.body) /\ Cut(m)[p] \in 0 .. Len(m.entity)
      /\ Cut(m)[p] + n \in 0 .. Len(m.entity) /\ Len(m.entity) \in Nat
  <2>1. Cut(m)[p] \in 0 .. Len(m.entity)
    BY <1>5, CutAt
  <2>2. p + n + 3 \in 1 .. Len(m.body) /\ Cut(m)[p + n + 3] \in 0 .. Len(m.entity)
    BY <1>7, CutAt
  <2> QED
    BY <1>7, <2>1, <2>2, MessageKinds
<1>9. Read(t, e) = b + q
  BY <1>2 DEF q, Holds, Read, AtBody
<1>10. \A k \in 1 .. Len(t.inbound) : q + k <= Len(m.body) => t.inbound[k] = m.body[q + k]
  BY <1>2, <1>9, BufferIsBody
<1>11. t.inbound[n + 1] = Crlf
  <2>1. n + 1 \in 1 .. Len(t.inbound)
    BY <1>3
  <2>2. q + (n + 1) = (p + n + 3) - 1 /\ q + (n + 1) <= Len(m.body)
    BY <1>3, <1>6, <1>7, <1>8, Sums
  <2> QED
    BY <2>1, <2>2, <1>7, <1>10
<1>12. piece \in Seq(Unit) /\ Len(piece) = n /\ \A k \in 1 .. n : piece[k] = t.inbound[k]
  BY <1>3 DEF piece
<1>13. \A k \in 1 .. n : piece[k] = m.entity[Cut(m)[p] + k]
  <2> SUFFICES ASSUME NEW k \in 1 .. n PROVE piece[k] = m.entity[Cut(m)[p] + k]
    OBVIOUS
  <2>1. k \in 1 .. Len(t.inbound) /\ k \in Nat
    BY <1>3
  <2>2. q + k <= Len(m.body) /\ q + k = p + 1 + k
    <3>1. p \in Nat
      BY <1>7
    <3>2. \A j \in 1 .. n : (p + 1) + j <= Len(m.body) /\ (p + 1) + j = p + 1 + j
      BY <1>3, <1>7, <1>8, <3>1, Sums
    <3> QED
      BY <1>6, <3>2
  <2> QED
    BY <2>1, <2>2, <1>7, <1>10, <1>12
<1>14. t.body \o piece = SubSeq(m.entity, 1, Cut(m)[p] + n)
       /\ Len(t.body) = Cut(m)[p]
  <2>1. m.entity \in Seq(DataUnit)
    BY MessageKinds
  <2>2. Len(t.body) = Cut(m)[p]
    BY <1>5, <1>8, <2>1
  <2>3. SubSeq(m.entity, 1, Cut(m)[p]) \o piece = SubSeq(m.entity, 1, Cut(m)[p] + n)
    <3>1. Cut(m)[p] \in Nat /\ Cut(m)[p] + n <= Len(m.entity)
      BY <1>8
    <3> QED
      BY <1>3, <1>12, <1>13, <2>1, <3>1, PieceJoins
  <2> QED
    BY <1>5, <2>2, <2>3
<1>15. t.body \o piece \in Seq(Unit) /\ Len(t.body \o piece) = Len(t.body) + n
  <2>1. t.body \in Seq(Unit) /\ piece \in Seq(Unit) /\ Len(piece) = n
    BY <1>3, <1>12
  <2> QED
    BY <2>1, JoinedKinds
<1>16. n + 1 \in 0 .. Len(t.inbound)
  BY <1>3
<1>17. After(t.inbound, n + 1) \in Seq(Unit)
  BY <1>3, <1>16, AfterKinds
<1>18. /\ u \in Connection /\ u.inbound = After(t.inbound, n + 1) /\ u.left = 0
       /\ u.total = t.total /\ u.body = t.body \o piece /\ u.state = "BODY" /\ u.req = t.req
       /\ u.closed = t.closed /\ u.reply = t.reply /\ u.events = t.events
  BY <1>2, <1>15, <1>17 DEF Connection, u
<1>19. Holds(u, S, e) /\ Read(u, e) - b = q + (n + 1) /\ q + (n + 1) \in Nat
  <2>1. Holds(u, S, e) /\ Read(u, e) = Read(t, e) + (n + 1)
    BY <1>2, <1>16, <1>18, BufferCut
  <2> QED
    BY <2>1, <1>2, <1>3, <1>9 DEF AtBody
<1>20. AtSize(u, m, q + (n + 1))
  <2>1. (q + (n + 1)) + 1 = p + n + 3
    BY <1>3, <1>6, <1>7
  <2>2. u.body = SubSeq(m.entity, 1, Cut(m)[p + n + 3])
    BY <1>7, <1>14, <1>18
  <2>3. Len(u.body) <= u.total /\ u.total <= MaxBody
    BY <1>5, <1>15, <1>18
  <2> QED
    BY <1>7, <1>18, <2>1, <2>2, <2>3 DEF AtSize
<1>21. TakeChunk(t) = u
  BY <1>1, <1>11, KindsOfUnits DEF IsCrlf
<1> QED
  BY <1>2, <1>18, <1>19, <1>20, <1>21 DEF Chunkings, Chunking, InChunked

LEMMA ChunkTurnKeeps ==
  ASSUME NEW s, NEW m \in Messages, Parsed(m).chunked, NEW S \in Seq(Unit), NEW b,
         AtBody(m, S, b), NEW e \in Nat, NEW t \in Chunkings(s, m, S, b, e)
  PROVE  ChunkTurn(t) \in Chunkings(s, m, S, b, e)
BY SizeTaken, ChunkTaken DEF ChunkTurn

-----------------------------------------------------------------------------
(***************************************************************************)
(* The body of message i on the connection.                                *)
(***************************************************************************)
LEMMA LaidBody ==
  ASSUME sent \in Seq(Messages), NEW S, NEW at, Laid(S, at), NEW i \in DOMAIN sent
  PROVE  /\ S \in Seq(Unit) /\ Len(S) \in Nat /\ sent[i] \in Messages
         /\ i \in 1 .. Len(sent) /\ at[i] \in Nat /\ BodyAt(at, i) \in Nat
         /\ AtBody(sent[i], S, BodyAt(at, i))
         /\ at[i + 1] = BodyAt(at, i) + Len(sent[i].body) /\ at[i + 1] <= Len(S)
         /\ i = Len(sent) => at[i + 1] = Len(S)
<1>1. /\ S \in Seq(Unit) /\ Len(S) \in Nat /\ sent[i] \in Messages /\ Len(sent) \in Nat
      /\ i \in 1 .. Len(sent) /\ i + 1 \in 1 .. Len(sent) + 1 /\ i \in 1 .. Len(sent) + 1
      /\ Len(sent) + 1 \in 1 .. Len(sent) + 1
  BY DEF Laid
<1>2. sent[i].lines \in Nat /\ Len(sent[i].body) \in Nat
  BY <1>1, MessageKinds
<1>3. at[i] \in Nat /\ at[i + 1] \in Nat /\ at[Len(sent) + 1] = Len(S)
  BY <1>1 DEF Laid
<1>4. BodyAt(at, i) \in Nat
  BY <1>2, <1>3 DEF BodyAt
<1>5. /\ at[i + 1] = BodyAt(at, i) + Len(sent[i].body)
      /\ \A k \in 1 .. Len(sent[i].body) : S[BodyAt(at, i) + k] = sent[i].body[k]
  BY DEF Laid
<1>6. at[i + 1] <= Len(S)
  <2>1. CASE i = Len(sent)
    BY <2>1, <1>1, <1>3
  <2>2. CASE i # Len(sent)
    <3>1. i + 1 < Len(sent) + 1
      BY <1>1, <2>2
    <3>2. at[i + 1] < at[Len(sent) + 1]
      BY <1>1, <3>1 DEF Laid
    <3> QED
      BY <1>1, <1>3, <3>2
  <2> QED
    BY <2>1, <2>2
<1> QED
  BY <1>1, <1>3, <1>4, <1>5, <1>6 DEF AtBody

\* The last message is the only one that may expect a 100-continue.
LEMMA ExpectsAtEnd ==
  ASSUME sent \in Seq(Messages), LastExpects, NEW S, NEW at, Laid(S, at),
         NEW i \in DOMAIN sent, Parsed(sent[i]).expect
  PROVE  at[i + 1] = Len(S) /\ i = Len(sent) /\ Expects
<1>1. sent[i] \in Messages
  BY LaidBody
<1>2. Asks100(sent[i])
  BY <1>1, ParsedKinds
<1> QED
  BY <1>2, LaidBody DEF LastExpects, Expects

\* What receiveBody makes of the connection s while it reads message i.
BodyOutcome(r, s, i, S, at, e) ==
  /\ r \in Connection /\ r.closed = s.closed /\ Holds(r, S, e)
  /\ r.state # "ERROR" => r.events = s.events /\ r.reply = s.reply
  /\ \/ r.state = "BODY" /\ InBody(r, i, at, e)
     \/ AtEnd(r, i, S, at, e)
     \/ r.state = "ERROR" /\ r.reply = "error" /\ r.events = "out"

\* A body with Content-Length: nothing is taken off the buffer before it is whole.
LEMMA LengthReceived ==
  ASSUME sent \in Seq(Messages), LastExpects, NEW S, NEW at, Laid(S, at),
         NEW e \in Nat, e <= Len(S), NEW i \in DOMAIN sent,
         NEW s \in Connection, Holds(s, S, e), s.state = "BODY", s.req = Parsed(sent[i]),
         s.req.lengthKnown, Read(s, e) = BodyAt(at, i), s.body = <<>>,
         s.left \in {0, sent[i].length}, NEW bytes \in Nat,
         s.total + bytes = Len(s.inbound), bytes = 0 => s.total <= MaxBody
  PROVE  BodyOutcome(ReceiveLength(s, bytes), s, i, S, at, e)
<1> DEFINE m == sent[i]
           l == IF s.left = 0 THEN s.req.length ELSE s.left
           t == [s EXCEPT !.left = l, !.total = s.total + bytes]
           v == [t EXCEPT !.body = s.inbound, !.state = "RESPOND"]
<1>1. ReceiveLength(s, bytes) = IF bytes > 0 /\ s.total + bytes > MaxBody THEN Fail(t)
                               ELSE IF s.total + bytes = l THEN v ELSE t
  BY DEF ReceiveLength
<1> HIDE DEF t, v, l
<1>2. /\ m \in Messages /\ m.length \in Nat /\ m.entity \in Seq(Unit) /\ m.body = m.entity
      /\ m.length = Len(m.entity) /\ s.req.length = m.length /\ ~ s.req.chunked
      /\ Len(m.body) \in Nat
  <2>1. m \in Messages
    BY LaidBody
  <2> QED
    BY <2>1, MessageKinds, ParsedKinds DEF Framed
<1>3. l = m.length /\ l \in Nat
  BY <1>2 DEF l
<1>4. /\ s.inbound \in Seq(Unit) /\ Len(s.inbound) \in Nat /\ s.total \in Nat
  BY DEF Connection
<1>5. /\ t \in Connection /\ t.left = m.length /\ t.total = Len(s.inbound)
      /\ t.body = <<>> /\ t.state = "BODY" /\ t.inbound = s.inbound
      /\ t.req = s.req /\ t.closed = s.closed /\ t.events = s.events /\ t.reply = s.reply
  BY <1>3, <1>4 DEF Connection, t
<1>6. /\ v \in Connection /\ v.left = m.length /\ v.total = Len(s.inbound)
      /\ v.body = s.inbound /\ v.state = "RESPOND" /\ v.inbound = s.inbound
      /\ v.req = s.req /\ v.closed = s.closed /\ v.events = s.events /\ v.reply = s.reply
  BY <1>4, <1>5 DEF Connection, v
<1>7. \A w : w.inbound = s.inbound => Holds(w, S, e) /\ Read(w, e) - BodyAt(at, i) = 0
  <2>1. BodyAt(at, i) \in Nat
    BY LaidBody
  <2>2. \A w : w.inbound = s.inbound => Read(w, e) = Read(s, e)
    BY DEF Read
  <2>3. Read(s, e) - BodyAt(at, i) = 0
    BY <2>1
  <2> QED
    BY <2>2, <2>3 DEF Holds
<1>8. CASE bytes > 0 /\ s.total + bytes > MaxBody
  <2>1. /\ Fail(t) \in Connection /\ Fail(t).state = "ERROR" /\ Fail(t).events = "out"
        /\ Fail(t).reply = "error" /\ Fail(t).inbound = s.inbound
        /\ Fail(t).closed = s.closed
    BY <1>5, FailKinds
  <2>2. Holds(Fail(t), S, e)
    BY <1>7, <2>1
  <2> QED
    BY <1>1, <1>8, <2>1, <2>2 DEF BodyOutcome
<1>9. CASE ~ (bytes > 0 /\ s.total + bytes > MaxBody)
  <2>1. Len(s.inbound) <= MaxBody
    BY <1>4, <1>9, MessageAssumption
  <2>2. CASE s.total + bytes # l
    <3>1. InBody(t, i, at, e)
      BY <1>5, <1>7, <2>1 DEF InBody
    <3> QED
      BY <1>1, <1>5, <1>7, <1>9, <2>2, <3>1 DEF BodyOutcome
  <2>3. CASE s.total + bytes = l
    <3>1. Len(s.inbound) = Len(m.entity)
      BY <1>2, <1>3, <2>3
    <3>2. s.inbound = m.entity
      <4>1. Read(s, e) = BodyAt(at, i) + 0
        BY LaidBody
      <4>2. AtBody(m, S, BodyAt(at, i))
        BY LaidBody
      <4>3. \A k \in 1 .. Len(s.inbound) : 0 + k <= Len(m.body) => s.inbound[k] = m.body[0 + k]
        BY <1>2, <4>1, <4>2, BufferIsBody
      <4>4. \A k \in 1 .. Len(s.inbound) : s.inbound[k] = m.entity[k]
        <5>1. \A k \in 1 .. Len(s.inbound) : 0 + k = k /\ k <= Len(m.body)
          BY <1>2, <1>4, <3>1
        <5> QED
          BY <1>2, <4>3, <5>1
      <4> QED
        BY <1>2, <1>4, <3>1, <4>4, SameUnits
    <3>3. WholeBody(v, m)
      BY <1>6, <2>1, <3>2 DEF WholeBody
    <3>4. CASE WantsContinue(v)
      <4> DEFINE w == Complete100(v)
      <4>1. s.inbound = <<>> /\ Len(s.inbound) = 0
        BY <1>6, <3>4 DEF WantsContinue
      <4>2. /\ w.req = s.req /\ w.body = <<>> /\ w.left = 0 /\ w.total = 0
            /\ w.inbound = s.inbound
        BY <1>6, <4>1 DEF Complete100, Connection
      <4>3. InBody(w, i, at, e)
        BY <1>7, <4>1, <4>2, MessageAssumption DEF InBody
      <4> HIDE DEF w
      <4>4. AtEnd(v, i, S, at, e)
        <5>1. BodyAt(at, i) <= Read(v, e)
          BY <1>6, LaidBody DEF Read
        <5> QED
          BY <1>6, <3>4, <4>3, <5>1 DEF AtEnd, w
      <4> QED
        BY <1>1, <1>6, <1>7, <1>9, <2>3, <4>4 DEF BodyOutcome
    <3>5. CASE ~ WantsContinue(v)
      <4>1. BodyAt(at, i) <= Read(v, e)
        BY <1>6, LaidBody DEF Read
      <4>2. v.req.expect => e = Len(S)
        <5> SUFFICES ASSUME v.req.expect PROVE e = Len(S)
          OBVIOUS
        <5>1. at[i + 1] = Len(S)
          BY <1>6, ExpectsAtEnd
        <5>2. at[i + 1] = BodyAt(at, i) + Len(m.body) /\ BodyAt(at, i) \in Nat
          BY LaidBody
        <5>3. e - Len(s.inbound) = BodyAt(at, i)
          BY DEF Read
        <5> QED
          BY <1>2, <1>4, <3>1, <5>1, <5>2, <5>3
      <4>3. AtEnd(v, i, S, at, e)
        BY <1>6, <3>3, <3>5, <4>1, <4>2 DEF AtEnd
      <4> QED
        BY <1>1, <1>6, <1>7, <1>9, <2>3, <4>3 DEF BodyOutcome
    <3> QED
      BY <3>4, <3>5
  <2> QED
    BY <2>2, <2>3
<1> QED
  BY <1>8, <1>9

\* A body in chunks.
LEMMA ChunkedReceived ==
  ASSUME sent \in Seq(Messages), LastExpects, NEW S, NEW at, Laid(S, at),
         NEW e \in Nat, e <= Len(S), NEW i \in DOMAIN sent,
         NEW s \in Connection, Holds(s, S, e), s.state = "BODY", s.req = Parsed(sent[i]),
         s.req.chunked, NEW q \in Nat, q = Read(s, e) - BodyAt(at, i),
         InChunked(s, sent[i], q)
  PROVE  BodyOutcome(ReceiveChunked(s), s, i, S, at, e)
<1> DEFINE m == sent[i]
           b == BodyAt(at, i)
           r == ReceiveChunked(s)
           x == Read(r, e) - b
<1>1. /\ m \in Messages /\ S \in Seq(Unit) /\ Len(S) \in Nat /\ AtBody(m, S, b) /\ b \in Nat
      /\ at[i + 1] = b + Len(m.body) /\ Len(m.body) \in Nat
  BY LaidBody, MessageKinds
<1> HIDE DEF m, b, r
<1>2. r \in Chunkings(s, m, S, b, e)
  <2> DEFINE X == Chunkings(s, m, S, b, e)
  <2>1. s \in X
    BY DEF Chunkings, Chunking, m, b
  <2>2. Parsed(m).chunked
    BY DEF m
  <2>3. \A t \in X : ChunkTurn(t) \in X
    BY <1>1, <2>2, ChunkTurnKeeps
  <2>4. Len(s.inbound) \in Nat
    BY DEF Connection
  <2> HIDE DEF X
  <2>5. r \in X
    BY <2>1, <2>3, <2>4, ChunkedKeeps DEF r
  <2> QED
    BY <2>5 DEF X
<1>3. /\ r \in Connection /\ r.req = Parsed(m) /\ r.closed = s.closed /\ Holds(r, S, e)
      /\ r.state # "ERROR" => r.events = s.events /\ r.reply = s.reply
      /\ x \in Nat /\ Chunking(r, m, x) /\ r.req.chunked
  BY <1>2 DEF Chunkings, m
<1>4. CASE r.state = "BODY"
  <2>1. InChunked(r, m, x)
    BY <1>3, <1>4 DEF Chunking
  <2>2. InBody(r, i, at, e)
    BY <1>3, <2>1 DEF InBody, m, b
  <2> QED
    BY <1>3, <1>4, <2>2 DEF BodyOutcome, r
<1>5. CASE r.state = "ERROR"
  BY <1>3, <1>5 DEF Chunking, BodyOutcome, r
<1>6. CASE r.state = "RESPOND"
  <2>1. WholeBody(r, m) /\ EndsInCrlf(m) /\ x \in {Len(m.body) - 1, Len(m.body)}
    BY <1>3, <1>6 DEF Chunking
  <2>2. r.inbound \in Seq(Unit) /\ Len(r.inbound) \in Nat /\ Read(r, e) \in Nat
        /\ Read(r, e) = e - Len(r.inbound)
    BY <1>3 DEF Connection, Holds, Read
  <2>3. b <= Read(r, e)
    BY <1>1, <1>3, <2>2
  <2>4. CASE WantsContinue(r)
    <3> DEFINE w == Complete100(r)
    <3>1. /\ w.req = r.req /\ w.body = r.body /\ w.left = 0 /\ w.inbound = r.inbound
          /\ r.req.post /\ r.req.expect /\ r.inbound = <<>>
      BY <1>3, <2>4 DEF Complete100, Connection, WantsContinue
    <3> HIDE DEF w
    <3>2. Ended(w, m, x)
      BY <1>3, <2>1, <3>1 DEF Ended, WholeBody
    <3>3. Read(w, e) = Read(r, e)
      BY <3>1 DEF Read
    <3>4. InBody(w, i, at, e)
      <4>1. i \in DOMAIN sent /\ w.req = Parsed(m) /\ Read(w, e) - b \in Nat /\ w.req.chunked
            /\ InChunked(w, m, Read(w, e) - b)
        BY <1>3, <3>1, <3>2, <3>3 DEF InChunked
      <4> QED
        BY <4>1 DEF InBody, m, b
    <3>5. AtEnd(r, i, S, at, e)
      BY <1>3, <1>6, <2>3, <2>4, <3>4 DEF AtEnd, w, m, b
    <3> QED
      BY <1>3, <3>5 DEF BodyOutcome, r
  <2>5. CASE ~ WantsContinue(r)
    <3>1. ASSUME r.req.post, r.req.expect PROVE e = Len(S)
      <4>1. Len(r.inbound) # 0
        BY <2>2, <2>5, <3>1 DEF WantsContinue
      <4>2. at[i + 1] = Len(S)
        BY <1>3, <3>1, ExpectsAtEnd DEF m
      <4> QED
        BY <1>1, <1>3, <2>1, <2>2, <4>1, <4>2
    <3>2. AtEnd(r, i, S, at, e)
      BY <1>3, <1>6, <2>1, <2>3, <2>5, <3>1 DEF AtEnd, m, b
    <3> QED
      BY <1>3, <3>2 DEF BodyOutcome, r
  <2> QED
    BY <2>4, <2>5
<1> QED
  BY <1>3, <1>4, <1>5, <1>6 DEF Chunking

\* A request whose fields announce no body.
LEMMA PlainReceived ==
  ASSUME sent \in Seq(Messages), LastExpects, NEW S, NEW at, Laid(S, at),
         NEW e \in Nat, e <= Len(S), NEW i \in DOMAIN sent,
         NEW s \in Connection, Holds(s, S, e), s.req = Parsed(sent[i]),
         ~ s.req.lengthKnown, ~ s.req.chunked, Read(s, e) = BodyAt(at, i), s.body = <<>>
  PROVE  BodyOutcome([s EXCEPT !.state = "RESPOND"], s, i, S, at, e)
<1> DEFINE m == sent[i]
           v == [s EXCEPT !.state = "RESPOND"]
           w == Complete100(v)
<1>1. /\ m \in Messages /\ Len(S) \in Nat /\ BodyAt(at, i) \in Nat
      /\ at[i + 1] = BodyAt(at, i) + Len(m.body)
  BY LaidBody
<1>2. m.body = <<>> /\ m.entity = <<>>
  BY <1>1, MessageKinds DEF Framed
<1>3. /\ v \in Connection /\ v.state = "RESPOND" /\ v.inbound = s.inbound /\ v.body = <<>>
      /\ v.req = s.req /\ v.closed = s.closed /\ v.events = s.events /\ v.reply = s.reply
      /\ w.req = s.req /\ w.body = <<>> /\ w.inbound = s.inbound
      /\ Len(s.inbound) \in Nat
  <2>1. /\ v \in Connection /\ v.state = "RESPOND" /\ v.inbound = s.inbound /\ v.body = <<>>
        /\ v.req = s.req /\ v.closed = s.closed /\ v.events = s.events /\ v.reply = s.reply
        /\ Len(s.inbound) \in Nat
    <3>1. s.inbound \in Seq(Unit) /\ Len(s.inbound) \in Nat
      BY DEF Connection
    <3>2. v \in Connection /\ v.state = "RESPOND"
      BY DEF Connection
    <3>3. v.inbound = s.inbound /\ v.body = s.body /\ v.req = s.req
      BY DEF Connection
    <3>4. v.closed = s.closed /\ v.events = s.events /\ v.reply = s.reply
      BY DEF Connection
    <3> QED
      BY <3>1, <3>2, <3>3, <3>4
  <2> HIDE DEF v
  <2>2. w.req = v.req /\ w.body = v.body /\ w.inbound = v.inbound
    BY <2>1 DEF Complete100, Connection
  <2> QED
    BY <2>1, <2>2
<1> HIDE DEF v, w
<1>4. Holds(v, S, e) /\ Read(v, e) = BodyAt(at, i) /\ Read(w, e) = BodyAt(at, i)
  BY <1>3 DEF Holds, Read
<1>5. InBody(w, i, at, e)
  <2>1. Read(w, e) - BodyAt(at, i) = 0
    BY <1>1, <1>4
  <2> QED
    BY <1>3, <2>1 DEF InBody
<1>6. WholeBody(v, m)
  <2>1. Len(<<>>) <= MaxBody
    BY MessageAssumption
  <2> QED
    BY <1>2, <1>3, <2>1 DEF WholeBody
<1>7. v.req.expect => e = Len(S)
  <2> SUFFICES ASSUME v.req.expect PROVE e = Len(S)
    OBVIOUS
  <2>1. at[i + 1] = Len(S)
    BY <1>3, ExpectsAtEnd
  <2>2. Len(m.body) = 0
    BY <1>2
  <2> QED
    BY <1>1, <1>3, <2>1, <2>2 DEF Read
<1>8. AtEnd(v, i, S, at, e)
  <2>1. BodyAt(at, i) <= Read(v, e)
    BY <1>1, <1>4
  <2> QED
    BY <1>3, <1>5, <1>6, <1>7, <2>1 DEF AtEnd, w
<1> QED
  BY <1>3, <1>4, <1>8 DEF BodyOutcome, v

-----------------------------------------------------------------------------
(***************************************************************************)
(* The header.                                                             *)
(***************************************************************************)
LEMMA EndFound ==
  ASSUME NEW inbound \in Seq(Unit)
  PROVE  EndOfHeader(inbound) \in 0 .. Len(inbound)
<1> DEFINE ends == {i \in 2 .. Len(inbound) :
                      /\ inbound[i].u \in {"end", "crlf"}
                      /\ inbound[i - 1].u \in {"line", "end", "crlf"}}
<1>1. ends \in SUBSET Nat
  OBVIOUS
<1>2. ends \subseteq 0 .. Len(inbound)
  OBVIOUS
<1>3. EndOfHeader(inbound) = IF ends = {} THEN 0 ELSE Min(ends)
  BY DEF EndOfHeader
<1> HIDE DEF ends
<1>4. ends # {} => Min(ends) \in 0 .. Len(inbound)
  BY <1>1, <1>2, MinIsLeast
<1>5. 0 \in 0 .. Len(inbound)
  OBVIOUS
<1> QED
  BY <1>3, <1>4, <1>5

\* Messages begin one behind the other.
LEMMA BeginsInOrder ==
  ASSUME sent \in Seq(Messages), NEW S, NEW at, Laid(S, at),
         NEW i \in DOMAIN sent, NEW j \in DOMAIN sent, at[i] < at[j]
  PROVE  i < j
<1>1. /\ i \in 1 .. Len(sent) + 1 /\ j \in 1 .. Len(sent) + 1 /\ i \in Nat /\ j \in Nat
      /\ at[i] \in Nat /\ at[j] \in Nat
  BY LaidBody
<1>2. j < i => at[j] < at[i]
  BY <1>1 DEF Laid
<1> QED
  BY <1>1, <1>2

LEMMA SameBegin ==
  ASSUME NEW p \in Nat, NEW a \in Nat, NEW l \in Nat, p + (l + 1) = a + l + 1
  PROVE  p = a
OBVIOUS

\* An accepted header is that of a message of which nothing has been handled.
LEMMA HeaderRead ==
  ASSUME sent \in Seq(Messages), NEW S, NEW at, Laid(S, at), NEW e \in Nat, e <= Len(S),
         NEW place, Placed(place), NEW t \in Connection, Holds(t, S, e),
         Passed(place, at, Read(t, e)),
         NEW x \in 1 .. Len(t.inbound), WellFormed(t.inbound, x)
  PROVE  \E i \in DOMAIN sent :
           /\ Untouched(place, i) /\ t.inbound[x].m = sent[i]
           /\ Read(t, e) + x = BodyAt(at, i)
<1> DEFINE m == t.inbound[x].m
           p == Read(t, e)
<1>1. /\ t.inbound \in Seq(Unit) /\ Len(t.inbound) \in Nat /\ x \in Nat
      /\ p \in Nat /\ p = e - Len(t.inbound) /\ S \in Seq(Unit) /\ Len(S) \in Nat
  BY DEF Connection, Holds, Read, Laid
<1>2. t.inbound[x].u = "end"
  BY DEF WellFormed, IsEnd
<1>3. t.inbound[x] \in Unit
  BY <1>1
<1>4. m \in Messages /\ t.inbound[x] = End(m)
  BY <1>2, <1>3, UnitKinds
<1>5. x = m.lines + 1
  <2>1. Len(SubSeq(t.inbound, 1, x)) = x
    BY <1>1
  <2>2. SubSeq(t.inbound, 1, x) = Header(m)
    BY DEF WellFormed
  <2> QED
    BY <1>4, <2>1, <2>2, HeaderKinds
<1>6. p + x \in 1 .. Len(S) /\ S[p + x] = t.inbound[x]
  <2>1. S[p + x] = t.inbound[x]
    BY DEF Holds
  <2> HIDE DEF p
  <2>2. p + x \in 1 .. Len(S)
    BY <1>1
  <2> QED
    BY <2>1, <2>2
<1>7. PICK i \in DOMAIN sent : p + x = BodyAt(at, i)
  <2>1. IsEnd(S[p + x])
    BY <1>2, <1>6 DEF IsEnd
  <2> QED
    BY <1>6, <2>1 DEF Laid
<1>8. m = sent[i]
  <2>1. S[BodyAt(at, i)] = End(sent[i])
    BY DEF Laid
  <2> QED
    BY <1>4, <1>6, <1>7, <2>1, KindsOfUnits
<1>9. p = at[i]
  <2>1. at[i] \in Nat /\ m.lines \in Nat
    BY <1>4, LaidBody, MessageKinds
  <2>2. p + x = at[i] + m.lines + 1
    BY <1>7, <1>8 DEF BodyAt
  <2>3. p + (m.lines + 1) = at[i] + m.lines + 1
    BY <1>5, <2>2
  <2> QED
    BY <1>1, <2>1, <2>3, SameBegin
<1>10. Untouched(place, i)
  <2> SUFFICES ASSUME NEW h \in DOMAIN handled PROVE place[h] < i
    BY DEF Untouched
  <2>1. place[h] \in DOMAIN sent
    BY DEF Placed
  <2>2. at[place[h]] < at[i]
    BY <1>9 DEF Passed
  <2> QED
    BY <2>1, <2>2, BeginsInOrder
<1> QED
  BY <1>7, <1>8, <1>10

\* The accepted header of message i is taken off the buffer.
Begun(s, t, i, S, at, e) ==
  /\ s \in Connection /\ s.closed = t.closed /\ s.events = t.events /\ s.reply = t.reply
  /\ s.req = Parsed(sent[i]) /\ s.body = <<>> /\ s.left = 0
  /\ Holds(s, S, e) /\ Read(s, e) = BodyAt(at, i)
  /\ s.total = IF s.req.lengthKnown /\ ~ s.req.chunked THEN Len(s.inbound) ELSE 0

Refused(r, t, S, e) ==
  /\ r \in Connection /\ r.closed = t.closed /\ Holds(r, S, e)
  /\ r.state = "ERROR" /\ r.reply = "error" /\ r.events = "out"

LEMMA HeaderTaken ==
  ASSUME sent \in Seq(Messages), NEW S, NEW at, Laid(S, at), NEW e \in Nat, e <= Len(S),
         NEW t \in Connection, Holds(t, S, e), t.body = <<>>, t.total = 0,
         NEW x \in 1 .. Len(t.inbound), NEW i \in DOMAIN sent,
         t.inbound[x].m = sent[i], Read(t, e) + x = BodyAt(at, i)
  PROVE  LET s == HeaderAccepted(t, x) IN
         \/ Refused(s, t, S, e)
         \/ /\ Begun(s, t, i, S, at, e)
            /\ s.req.lengthKnown /\ ~ s.req.chunked => s.total <= MaxBody
            /\ s.state = IF s.req.expect /\ s.inbound = <<>> THEN "RESPOND" ELSE "BODY"
<1> DEFINE m    == sent[i]
           req  == Parsed(m)
           tail == After(t.inbound, x)
           size == IF req.chunked THEN 0 ELSE IF req.lengthKnown THEN Len(tail) ELSE t.total
           next == IF req.expect /\ tail = <<>> THEN "RESPOND" ELSE "BODY"
           s    == [t EXCEPT !.req = req, !.inbound = tail, !.left = 0, !.total = size,
                             !.state = next]
<1>1. HeaderAccepted(t, x)
        = IF ~ req.chunked /\ req.lengthKnown /\ Len(tail) > MaxBody THEN Fail(s) ELSE s
  BY DEF HeaderAccepted
<1>2. m \in Messages /\ t.inbound \in Seq(Unit) /\ Len(t.inbound) \in Nat
      /\ x \in 0 .. Len(t.inbound) /\ S \in Seq(Unit)
  <2>1. m \in Messages /\ S \in Seq(Unit)
    BY LaidBody DEF Laid
  <2>2. t.inbound \in Seq(Unit)
    BY DEF Connection
  <2> HIDE DEF m, req, tail, size, next, s
  <2>3. Len(t.inbound) \in Nat /\ x \in 0 .. Len(t.inbound)
    BY <2>2
  <2> QED
    BY <2>1, <2>2, <2>3
<1>3. tail \in Seq(Unit) /\ Len(tail) \in Nat
  <2>1. tail \in Seq(Unit) /\ Len(tail) = Len(t.inbound) - x
    BY <1>2, AfterKinds
  <2> QED
    BY <1>2, <2>1
<1>4. req \in {Parsed(k) : k \in Messages} /\ req.lengthKnown \in BOOLEAN
      /\ req.chunked \in BOOLEAN
  BY <1>2, ParsedKinds
<1> HIDE DEF tail, req
<1>5. size \in Nat /\ next \in {"BODY", "RESPOND"}
  BY <1>3
<1> HIDE DEF size, next
<1>6. /\ s \in Connection /\ s.inbound = tail /\ s.left = 0 /\ s.total = size
      /\ s.req = req /\ s.state = next /\ s.closed = t.closed /\ s.body = t.body
      /\ s.events = t.events /\ s.reply = t.reply
  BY <1>3, <1>4, <1>5 DEF Connection
<1> HIDE DEF s
<1>7. \A w : w.inbound = tail => Holds(w, S, e) /\ Read(w, e) = BodyAt(at, i)
  <2> SUFFICES ASSUME NEW w, w.inbound = tail
               PROVE  Holds(w, S, e) /\ Read(w, e) = Read(t, e) + x
    OBVIOUS
  <2> QED
    BY <1>2, BufferCut DEF tail
<1>8. CASE ~ req.chunked /\ req.lengthKnown /\ Len(tail) > MaxBody
  <2>1. /\ Fail(s) \in Connection /\ Fail(s).state = "ERROR" /\ Fail(s).events = "out"
        /\ Fail(s).reply = "error" /\ Fail(s).inbound = tail /\ Fail(s).closed = t.closed
    BY <1>6, FailKinds
  <2> QED
    BY <1>1, <1>7, <1>8, <2>1 DEF Refused
<1>9. CASE ~ (~ req.chunked /\ req.lengthKnown /\ Len(tail) > MaxBody)
  <2>1. s.total = IF s.req.lengthKnown /\ ~ s.req.chunked THEN Len(s.inbound) ELSE 0
    BY <1>4, <1>6 DEF size
  <2>2. Begun(s, t, i, S, at, e)
    BY <1>6, <1>7, <2>1 DEF Begun, req
  <2>3. s.req.lengthKnown /\ ~ s.req.chunked => s.total <= MaxBody
    BY <1>3, <1>6, <1>9, <2>1, MessageAssumption
  <2> QED
    BY <1>1, <1>6, <1>9, <2>2, <2>3 DEF next
<1> QED
  BY <1>8, <1>9

LEMMA FirstSize ==
  ASSUME NEW m \in Messages, Parsed(m).chunked, NEW s, s.left = 0, s.body = <<>>, s.total = 0
  PROVE  AtSize(s, m, 0)
<1>1. 1 \in DOMAIN Cut(m) /\ Cut(m)[1] = 0
  BY CutSplits DEF Splits
<1>2. m.entity \in Seq(DataUnit)
  BY MessageKinds
<1>3. SubSeq(m.entity, 1, 0) = <<>> /\ Len(<<>>) = 0
  BY <1>2
<1>4. 0 + 1 = 1 /\ Len(<<>>) <= 0 /\ 0 <= MaxBody
  BY <1>3, MessageAssumption
<1> QED
  BY <1>1, <1>3, <1>4 DEF AtSize

\* The body of message i, from its beginning: what came with the header.
LEMMA BodyBegun ==
  ASSUME sent \in Seq(Messages), LastExpects, NEW S, NEW at, Laid(S, at),
         NEW e \in Nat, e <= Len(S), NEW t \in Connection, NEW i \in DOMAIN sent,
         NEW s, Begun(s, t, i, S, at, e),
         s.req.lengthKnown /\ ~ s.req.chunked => s.total <= MaxBody,
         s.state = IF s.req.expect /\ s.inbound = <<>> THEN "RESPOND" ELSE "BODY"
  PROVE  BodyOutcome(ReceiveBody(s, 0), t, i, S, at, e)
<1> DEFINE m == sent[i]
<1>1. /\ s \in Connection /\ s.closed = t.closed /\ s.events = t.events /\ s.reply = t.reply
      /\ s.req = Parsed(m) /\ s.body = <<>> /\ s.left = 0
      /\ Holds(s, S, e) /\ Read(s, e) = BodyAt(at, i)
      /\ s.total = IF s.req.lengthKnown /\ ~ s.req.chunked THEN Len(s.inbound) ELSE 0
  BY DEF Begun
<1>2. /\ m \in Messages /\ BodyAt(at, i) \in Nat /\ ~ (s.req.lengthKnown /\ s.req.chunked)
      /\ m.length \in Nat
  <2>1. m \in Messages /\ BodyAt(at, i) \in Nat
    BY LaidBody
  <2> QED
    BY <1>1, <2>1, MessageKinds DEF Framed
<1>3. s.inbound \in Seq(Unit) /\ Len(s.inbound) \in Nat /\ Read(s, e) - BodyAt(at, i) = 0
  BY <1>1, <1>2 DEF Connection
<1> HIDE DEF m
<1>4. s.req.chunked => AtSize(s, m, 0)
  BY <1>1, <1>2, FirstSize
<1>5. CASE s.state = "RESPOND"
  <2>1. ReceiveBody(s, 0) = s
    BY <1>5 DEF ReceiveBody
  <2>2. s.req.expect /\ s.inbound = <<>>
    BY <1>5
  <2> DEFINE w == Complete100(s)
  <2>3. /\ w.req = s.req /\ w.body = <<>> /\ w.left = 0 /\ w.total = 0
        /\ w.inbound = <<>>
    BY <1>1, <2>2 DEF Complete100, Connection
  <2> HIDE DEF w
  <2>4. Read(w, e) - BodyAt(at, i) = 0
    BY <1>3, <2>2, <2>3 DEF Read
  <2>5. s.req.chunked => AtSize(w, m, 0)
    BY <1>1, <1>2, <2>3, FirstSize
  <2>6. InBody(w, i, at, e)
    <3>1. CASE s.req.lengthKnown
      <4>1. Len(<<>>) = 0 /\ 0 <= MaxBody
        BY MessageAssumption
      <4> QED
        BY <1>1, <2>3, <2>4, <3>1, <4>1 DEF InBody, m
    <3>2. CASE s.req.chunked
      <4>1. InChunked(w, m, 0)
        BY <2>5, <3>2 DEF InChunked
      <4> QED
        BY <1>1, <2>3, <2>4, <3>2, <4>1 DEF InBody, m
    <3>3. CASE ~ s.req.lengthKnown /\ ~ s.req.chunked
      BY <1>1, <2>3, <2>4, <3>3 DEF InBody, m
    <3> QED
      BY <3>1, <3>2, <3>3
  <2>7. AtEnd(s, i, S, at, e)
    <3>1. BodyAt(at, i) <= Read(s, e)
      BY <1>1, <1>2
    <3>2. CASE WantsContinue(s)
      BY <1>1, <1>5, <2>6, <3>1, <3>2 DEF AtEnd, w, m
    <3>3. CASE ~ WantsContinue(s)
      <4>1. ~ s.req.post
        BY <2>2, <3>3 DEF WantsContinue
      <4> QED
        BY <1>1, <1>5, <3>1, <3>3, <4>1 DEF AtEnd, m
    <3> QED
      BY <3>2, <3>3
  <2> QED
    BY <1>1, <2>1, <2>7 DEF BodyOutcome
<1>6. CASE s.state = "BODY"
  <2> DEFINE r == ReceiveBody(s, 0)
  <2>1. SUFFICES BodyOutcome(r, s, i, S, at, e)
    BY <1>1, <2>1 DEF BodyOutcome
  <2>2. CASE s.req.lengthKnown
    <3>1. s.total = Len(s.inbound) /\ s.total <= MaxBody /\ s.total + 0 = Len(s.inbound)
      BY <1>1, <1>2, <1>3, <2>2
    <3>2. BodyOutcome(ReceiveLength(s, 0), s, i, S, at, e)
      BY <1>1, <1>6, <2>2, <3>1, LengthReceived DEF m
    <3> QED
      BY <1>6, <2>2, <3>2 DEF ReceiveBody
  <2>3. CASE s.req.chunked
    <3>1. InChunked(s, m, 0)
      BY <1>4, <2>3 DEF InChunked
    <3>2. BodyOutcome(ReceiveChunked(s), s, i, S, at, e)
      BY <1>1, <1>3, <1>6, <2>3, <3>1, ChunkedReceived DEF m
    <3> QED
      BY <1>2, <1>6, <2>3, <3>2 DEF ReceiveBody
  <2>4. CASE ~ s.req.lengthKnown /\ ~ s.req.chunked
    <3>1. BodyOutcome([s EXCEPT !.state = "RESPOND"], s, i, S, at, e)
      BY <1>1, <2>4, PlainReceived DEF m
    <3> QED
      BY <1>6, <2>4, <3>1 DEF ReceiveBody
  <2> QED
    BY <2>2, <2>3, <2>4
<1> QED
  BY <1>5, <1>6

\* What processHttpMessage makes of the connection t while it reads a header.
LEMMA HeaderReceived ==
  ASSUME sent \in Seq(Messages), LastExpects, NEW S, NEW at, Laid(S, at),
         NEW e \in Nat, e <= Len(S), NEW place, Placed(place),
         NEW t \in Connection, Holds(t, S, e), t.state = "HEADER", t.body = <<>>, t.total = 0,
         Passed(place, at, Read(t, e))
  PROVE  LET r == ReceiveBody(ReceiveHeader(t), 0) IN
         \/ r = t /\ Len(t.inbound) <= MaxHeader
         \/ Refused(r, t, S, e)
         \/ \E i \in DOMAIN sent : Untouched(place, i) /\ BodyOutcome(r, t, i, S, at, e)
<1> DEFINE x == EndOfHeader(t.inbound)
           size == IF x = 0 THEN Len(t.inbound) ELSE x - 1
           h == ReceiveHeader(t)
           r == ReceiveBody(h, 0)
<1>1. h = IF size > MaxHeader THEN Fail(t) ELSE IF x = 0 THEN t
          ELSE IF WellFormed(t.inbound, x) THEN HeaderAccepted(t, x) ELSE Fail(t)
  BY DEF ReceiveHeader
<1>2. /\ t.inbound \in Seq(Unit) /\ Len(t.inbound) \in Nat /\ x \in 0 .. Len(t.inbound)
  BY EndFound DEF Connection
<1>3. h.state # "BODY" => r = h
  BY DEF ReceiveBody
<1> HIDE DEF x, h, r
<1>4. Refused(Fail(t), t, S, e)
  <2>1. /\ Fail(t) \in Connection /\ Fail(t).state = "ERROR" /\ Fail(t).events = "out"
        /\ Fail(t).reply = "error" /\ Fail(t).inbound = t.inbound
        /\ Fail(t).closed = t.closed
    BY FailKinds
  <2>2. Holds(Fail(t), S, e)
    BY <2>1 DEF Holds, Read
  <2> QED
    BY <2>1, <2>2 DEF Refused
<1>5. CASE h = Fail(t)
  <2>1. r = h
    BY <1>3, <1>4, <1>5 DEF Refused
  <2> QED
    BY <1>4, <1>5, <2>1 DEF r, h
<1>6. CASE x = 0 /\ ~ (size > MaxHeader)
  <2>1. h = t /\ Len(t.inbound) <= MaxHeader
    BY <1>1, <1>2, <1>6, MessageAssumption
  <2>2. r = t
    BY <1>3, <2>1
  <2> QED
    BY <2>1, <2>2 DEF r, h
<1>7. CASE x # 0 /\ WellFormed(t.inbound, x) /\ h = HeaderAccepted(t, x)
  <2>1. x \in 1 .. Len(t.inbound)
    BY <1>2, <1>7
  <2>2. PICK i \in DOMAIN sent :
           /\ Untouched(place, i) /\ t.inbound[x].m = sent[i]
           /\ Read(t, e) + x = BodyAt(at, i)
    BY <1>7, <2>1, HeaderRead
  <2>3. \/ Refused(h, t, S, e)
        \/ /\ Begun(h, t, i, S, at, e)
           /\ h.req.lengthKnown /\ ~ h.req.chunked => h.total <= MaxBody
           /\ h.state = IF h.req.expect /\ h.inbound = <<>> THEN "RESPOND" ELSE "BODY"
    BY <1>7, <2>1, <2>2, HeaderTaken
  <2>4. CASE Refused(h, t, S, e)
    <3>1. r = h
      BY <1>3, <2>4 DEF Refused
    <3> QED
      BY <2>4, <3>1 DEF r, h
  <2>5. CASE ~ Refused(h, t, S, e)
    <3>1. BodyOutcome(r, t, i, S, at, e)
      BY <2>3, <2>5, BodyBegun DEF r
    <3> QED
      BY <2>2, <3>1 DEF r, h
  <2> QED
    BY <2>4, <2>5
<1> QED
  BY <1>1, <1>5, <1>6, <1>7

-----------------------------------------------------------------------------
(***************************************************************************)
(* One recv().                                                             *)
(***************************************************************************)

\* Message i and what comes before it were not handled, if they were, from behind x.
LEMMA PassedBefore ==
  ASSUME sent \in Seq(Messages), NEW S, NEW at, Laid(S, at), NEW place, Placed(place),
         NEW i \in DOMAIN sent, Untouched(place, i), NEW x \in Nat, BodyAt(at, i) <= x
  PROVE  Passed(place, at, x) /\ at[i] < x
<1>1. /\ i \in 1 .. Len(sent) + 1 /\ i \in Nat /\ at[i] \in Nat /\ sent[i] \in Messages
      /\ Len(sent) \in Nat
  BY LaidBody
<1>2. at[i] < x
  <2>1. sent[i].lines \in Nat
    BY <1>1, MessageKinds
  <2>2. at[i] + sent[i].lines + 1 <= x
    BY DEF BodyAt
  <2> QED
    BY <1>1, <2>1, <2>2
<1>3. ASSUME NEW h \in DOMAIN handled PROVE at[place[h]] < x
  <2>1. place[h] \in 1 .. Len(sent) + 1 /\ place[h] < i /\ at[place[h]] \in Nat
    <3>1. place[h] \in DOMAIN sent /\ place[h] < i
      BY DEF Placed, Untouched
    <3>2. place[h] \in 1 .. Len(sent) /\ at[place[h]] \in Nat
      BY <3>1, LaidBody
    <3> QED
      BY <1>1, <3>1, <3>2
  <2>2. at[place[h]] < at[i]
    BY <1>1, <2>1 DEF Laid
  <2> QED
    BY <1>1, <1>2, <2>1, <2>2
<1> QED
  BY <1>2, <1>3 DEF Passed

LEMMA PassedMore ==
  ASSUME sent \in Seq(Messages), NEW S, NEW at, Laid(S, at), NEW place, Placed(place),
         NEW x \in Nat, NEW y \in Nat, x <= y, Passed(place, at, x)
  PROVE  Passed(place, at, y)
<1> SUFFICES ASSUME NEW h \in DOMAIN handled PROVE at[place[h]] < y
  BY DEF Passed
<1>1. place[h] \in DOMAIN sent
  BY DEF Placed
<1>2. at[place[h]] \in Nat
  BY <1>1, LaidBody
<1>3. at[place[h]] < x
  BY DEF Passed
<1> QED
  BY <1>2, <1>3

LEMMA JoinedUnits ==
  ASSUME NEW a \in Seq(Unit), NEW d \in Seq(Unit)
  PROVE  /\ a \o d \in Seq(Unit) /\ Len(a \o d) = Len(a) + Len(d)
         /\ \A j \in 1 .. Len(a) : (a \o d)[j] = a[j]
         /\ \A j \in 1 .. Len(d) : (a \o d)[Len(a) + j] = d[j]
OBVIOUS

\* The connection with k more units in its buffer.
Filled(k) == [c EXCEPT !.inbound = c.inbound \o SubSeq(wire, 1, k)]

LEMMA FilledHolds ==
  ASSUME Kinds, NEW S \in Seq(Unit), NEW e, Fed(S, e), Holds(c, S, e),
         NEW k \in 1 .. Len(wire)
  PROVE  LET t == Filled(k) IN
         /\ t \in Connection /\ Holds(t, S, e + k) /\ Read(t, e + k) = Read(c, e)
         /\ Len(t.inbound) = Len(c.inbound) + k
         /\ t.state = c.state /\ t.events = c.events /\ t.closed = c.closed
         /\ t.body = c.body /\ t.total = c.total /\ t.left = c.left /\ t.req = c.req
         /\ t.reply = c.reply
         /\ e + k \in Nat /\ e + k <= Len(S)
<1> DEFINE t == Filled(k)
           units == SubSeq(wire, 1, k)
<1>1. /\ c \in Connection /\ wire \in Seq(Unit) /\ rest \in Seq(Unit) /\ Len(wire) \in Nat
      /\ Len(rest) \in Nat /\ c.inbound \in Seq(Unit) /\ Len(c.inbound) \in Nat
      /\ e \in Nat /\ Len(S) \in Nat
  BY DEF Kinds, Connection, Fed
<1>2. units \in Seq(Unit) /\ Len(units) = k /\ \A j \in 1 .. k : units[j] = wire[j]
  BY <1>1
<1> HIDE DEF units
<1>3. /\ c.inbound \o units \in Seq(Unit) /\ Len(c.inbound \o units) = Len(c.inbound) + k
      /\ \A j \in 1 .. Len(c.inbound) : (c.inbound \o units)[j] = c.inbound[j]
      /\ \A j \in 1 .. k : (c.inbound \o units)[Len(c.inbound) + j] = units[j]
  BY <1>1, <1>2, JoinedUnits
<1>4. t = [c EXCEPT !.inbound = c.inbound \o units]
  BY DEF Filled, units
<1> HIDE DEF t
<1>5. /\ t \in Connection /\ t.inbound = c.inbound \o units
      /\ t.state = c.state /\ t.events = c.events /\ t.closed = c.closed
      /\ t.body = c.body /\ t.total = c.total /\ t.left = c.left /\ t.req = c.req
      /\ t.reply = c.reply
  BY <1>1, <1>3, <1>4 DEF Connection
<1>6. Len(t.inbound) = Len(c.inbound) + k
  BY <1>3, <1>5
<1>7. e + k \in Nat /\ e + k <= Len(S)
  BY <1>1 DEF Fed
<1>8. Read(t, e + k) = Read(c, e) /\ Read(c, e) \in Nat /\ Read(c, e) + Len(c.inbound) = e
  BY <1>1, <1>6 DEF Read, Holds
<1>9. \A j \in 1 .. Len(t.inbound) : t.inbound[j] = S[Read(c, e) + j]
  <2> SUFFICES ASSUME NEW j \in 1 .. Len(t.inbound) PROVE t.inbound[j] = S[Read(c, e) + j]
    OBVIOUS
  <2>1. CASE j <= Len(c.inbound)
    <3>1. j \in 1 .. Len(c.inbound)
      BY <1>1, <2>1
    <3> QED
      BY <1>3, <1>5, <3>1 DEF Holds
  <2>2. CASE ~ (j <= Len(c.inbound))
    <3> DEFINE d == j - Len(c.inbound)
    <3>1. d \in 1 .. k /\ Len(c.inbound) + d = j
      BY <1>1, <1>6, <2>2
    <3> HIDE DEF d
    <3>2. Read(c, e) + j = e + d
      <4>1. Read(c, e) + (Len(c.inbound) + d) = (Read(c, e) + Len(c.inbound)) + d
        BY <1>1, <1>8, <3>1
      <4> QED
        BY <1>8, <3>1, <4>1
    <3>3. t.inbound[j] = wire[d]
      BY <1>2, <1>3, <1>5, <3>1
    <3>4. d \in 1 .. Len(wire)
      BY <1>1, <3>1
    <3> QED
      BY <3>2, <3>3, <3>4 DEF Fed
  <2> QED
    BY <2>1, <2>2
<1> QED
  BY <1>5, <1>6, <1>7, <1>8, <1>9 DEF Holds, t

\* What processHttpMessage makes of the connection: r, after e units were received.
Taken(r, S, at, place, e) ==
  /\ r \in Connection /\ ~ r.closed /\ Holds(r, S, e) /\ e \in Nat /\ e <= Len(S)
  /\ \/ /\ r.state = "HEADER" /\ r.events = "in"
        /\ AtHeader(r, place, at, e) /\ Len(r.inbound) <= MaxHeader
     \/ /\ r.state = "ERROR" /\ r.events = "out" /\ r.reply = "error"
        /\ Passed(place, at, e)
     \/ \E i \in DOMAIN sent :
          /\ Untouched(place, i) /\ r.events = "in"
          /\ \/ r.state = "BODY" /\ InBody(r, i, at, e)
             \/ AtEnd(r, i, S, at, e)

LEMMA OutcomeTaken ==
  ASSUME NEW S, NEW at, NEW place, NEW e \in Nat, e <= Len(S), NEW t, ~ t.closed,
         t.events = "in", Passed(place, at, e), NEW i \in DOMAIN sent,
         Untouched(place, i), NEW r, BodyOutcome(r, t, i, S, at, e)
  PROVE  Taken(r, S, at, place, e)
<1>1. /\ r \in Connection /\ ~ r.closed /\ Holds(r, S, e)
      /\ r.state # "ERROR" => r.events = "in"
  BY DEF BodyOutcome
<1>2. CASE r.state = "ERROR"
  <2>1. r.reply = "error" /\ r.events = "out"
    BY <1>2 DEF BodyOutcome, AtEnd
  <2> QED
    BY <1>1, <1>2, <2>1 DEF Taken
<1>3. CASE r.state # "ERROR"
  BY <1>1, <1>3 DEF BodyOutcome, Taken
<1> QED
  BY <1>2, <1>3

LEMMA UnitsReceived ==
  ASSUME Kinds, LastExpects, NEW S, NEW at, NEW place, NEW e, Course(S, at, place, e),
         ~ c.closed, c.events = "in", NEW k \in 1 .. Len(wire)
  PROVE  Taken(Received(c, SubSeq(wire, 1, k)), S, at, place, e + k)
<1> DEFINE t == Filled(k)
           r == Received(c, SubSeq(wire, 1, k))
           z == e + k
<1>1. /\ sent \in Seq(Messages) /\ wire \in Seq(Unit) /\ Len(wire) \in Nat /\ k \in Nat /\ k > 0
      /\ rest \in Seq(Unit) /\ Len(rest) \in Nat /\ c \in Connection
      /\ c.inbound \in Seq(Unit) /\ Len(c.inbound) \in Nat
  BY DEF Kinds, Connection
<1>2. /\ Laid(S, at) /\ Fed(S, e) /\ Holds(c, S, e) /\ Placed(place)
      /\ Stage(S, at, place, e) /\ S \in Seq(Unit) /\ Len(S) \in Nat /\ e \in Nat
  BY DEF Course, Laid, Fed
<1>3. /\ t \in Connection /\ Holds(t, S, z) /\ Read(t, z) = Read(c, e)
      /\ Len(t.inbound) = Len(c.inbound) + k
      /\ t.state = c.state /\ t.events = c.events /\ t.closed = c.closed
      /\ t.body = c.body /\ t.total = c.total /\ t.left = c.left /\ t.req = c.req
      /\ t.reply = c.reply
      /\ z \in Nat /\ z <= Len(S)
  BY <1>2, FilledHolds
<1>4. r = ReceiveBody(ReceiveHeader(t), IF c.state = "HEADER" THEN 0 ELSE k)
  <2>1. Len(SubSeq(wire, 1, k)) = k
    BY <1>1
  <2> QED
    BY <2>1 DEF Received, Filled
<1>5. Read(c, e) \in Nat /\ Read(c, e) <= z /\ Read(c, e) + Len(c.inbound) = e
  BY <1>1, <1>2 DEF Holds, Read
<1> HIDE DEF t, r, z
<1>6. Waiting(S, at, place, e) \/ Receiving(S, at, place, e) \/ Spent(S, e)
  BY <1>2 DEF Stage, Continuing, Answering, Refusing
<1>7. CASE Waiting(S, at, place, e)
  <2>1. /\ t.state = "HEADER" /\ t.body = <<>> /\ t.total = 0 /\ t.left = 0
        /\ t.req = NoRequest /\ Passed(place, at, Read(t, z))
    BY <1>3, <1>7 DEF Waiting, AtHeader
  <2>2. r = ReceiveBody(ReceiveHeader(t), 0)
    BY <1>3, <1>4, <2>1
  <2>3. Passed(place, at, z)
    BY <1>1, <1>2, <1>3, <1>5, <2>1, PassedMore
  <2>4. \/ r = t /\ Len(t.inbound) <= MaxHeader
        \/ Refused(r, t, S, z)
        \/ \E i \in DOMAIN sent : Untouched(place, i) /\ BodyOutcome(r, t, i, S, at, z)
    BY <1>1, <1>2, <1>3, <2>1, <2>2, HeaderReceived
  <2>5. CASE r = t /\ Len(t.inbound) <= MaxHeader
    <3>1. Taken(t, S, at, place, z)
      BY <1>3, <2>1, <2>5 DEF Taken, AtHeader
    <3> QED
      BY <2>5, <3>1 DEF r, z
  <2>6. CASE Refused(r, t, S, z)
    <3>1. Taken(r, S, at, place, z)
      BY <1>3, <2>3, <2>6 DEF Refused, Taken
    <3> QED
      BY <3>1 DEF r, z
  <2>7. CASE \E i \in DOMAIN sent : Untouched(place, i) /\ BodyOutcome(r, t, i, S, at, z)
    <3>1. Taken(r, S, at, place, z)
      BY <1>3, <2>3, <2>7, OutcomeTaken
    <3> QED
      BY <3>1 DEF r, z
  <2> QED
    BY <2>4, <2>5, <2>6, <2>7 DEF r, z
<1>8. CASE Receiving(S, at, place, e)
  <2>1. PICK i \in DOMAIN sent : Untouched(place, i) /\ InBody(c, i, at, e)
    BY <1>8 DEF Receiving
  <2> DEFINE m == sent[i]
             b == BodyAt(at, i)
             q == Read(c, e) - b
  <2>2. /\ m \in Messages /\ b \in Nat /\ at[i + 1] = b + Len(m.body) /\ Len(m.body) \in Nat
    BY <1>1, <1>2, LaidBody, MessageKinds
  <2>3. /\ t.state = "BODY" /\ t.req = Parsed(m) /\ q \in Nat /\ Read(t, z) - b = q
        /\ c.req = t.req
    BY <1>3, <1>8, <2>1 DEF Receiving, InBody
  <2>4. b <= z /\ Passed(place, at, z)
    <3>1. b <= z
      BY <1>3, <1>5, <2>2, <2>3
    <3> QED
      BY <1>1, <1>2, <1>3, <2>1, <3>1, PassedBefore
  <2>5. r = ReceiveBody(t, k)
    BY <1>3, <1>4, <2>3 DEF ReceiveHeader
  <2>6. SUFFICES BodyOutcome(r, t, i, S, at, z)
    BY <1>3, <2>1, <2>4, <2>6, OutcomeTaken DEF r, z
  <2>7. \/ /\ c.req.lengthKnown /\ q = 0 /\ c.body = <<>> /\ c.left \in {0, m.length}
           /\ c.total = Len(c.inbound) /\ c.total <= MaxBody
        \/ c.req.chunked /\ InChunked(c, m, q)
        \/ ~ c.req.lengthKnown /\ ~ c.req.chunked /\ q = 0 /\ c.body = <<>>
    BY <2>1 DEF InBody
  <2> HIDE DEF m, b, q
  <2>8. CASE /\ c.req.lengthKnown /\ q = 0 /\ c.body = <<>> /\ c.left \in {0, m.length}
             /\ c.total = Len(c.inbound) /\ c.total <= MaxBody
    <3>1. Read(t, z) = b
      BY <1>3, <1>5, <2>2, <2>3, <2>8
    <3>2. t.total + k = Len(t.inbound) /\ (k = 0 => t.total <= MaxBody)
      BY <1>3, <2>8
    <3>3. BodyOutcome(ReceiveLength(t, k), t, i, S, at, z)
      BY <1>1, <1>2, <1>3, <2>3, <2>8, <3>1, <3>2, LengthReceived DEF m, b
    <3> QED
      BY <2>3, <2>5, <2>8, <3>3 DEF ReceiveBody
  <2>9. CASE c.req.chunked /\ InChunked(c, m, q)
    <3>1. InChunked(t, m, q)
      <4>1. CASE AtSize(c, m, q)
        BY <1>3, <4>1 DEF AtSize, InChunked
      <4>2. CASE InChunk(c, m, q)
        BY <1>3, <4>2 DEF InChunk, InChunked
      <4>3. CASE Ended(c, m, q)
        <5>1. CASE q = Len(m.body) - 1
          BY <1>3, <4>3, <5>1 DEF Ended, InChunked, WholeBody
        <5>2. CASE q = Len(m.body) /\ c.inbound = <<>>
          <6>1. at[i + 1] = Len(S)
            BY <1>1, <1>2, <4>3, ExpectsAtEnd DEF Ended, m
          <6>2. e = b + Len(m.body)
            <7>1. Len(c.inbound) = 0
              BY <5>2
            <7> QED
              BY <1>2, <1>5, <2>2, <5>2, <7>1 DEF q
          <6> QED
            BY <1>1, <1>2, <1>3, <2>2, <6>1, <6>2 DEF z
        <5> QED
          BY <4>3, <5>1, <5>2 DEF Ended
      <4> QED
        BY <2>9, <4>1, <4>2, <4>3 DEF InChunked
    <3>2. ~ t.req.lengthKnown
      BY <2>2, <2>3, <2>9, MessageKinds DEF Framed
    <3>3. BodyOutcome(ReceiveChunked(t), t, i, S, at, z)
      BY <1>1, <1>2, <1>3, <2>3, <2>9, <3>1, ChunkedReceived DEF m, b
    <3> QED
      BY <2>3, <2>5, <2>9, <3>2, <3>3 DEF ReceiveBody
  <2>10. CASE ~ c.req.lengthKnown /\ ~ c.req.chunked /\ q = 0 /\ c.body = <<>>
    <3>1. Read(t, z) = b
      BY <1>3, <1>5, <2>2, <2>3, <2>10
    <3>2. BodyOutcome([t EXCEPT !.state = "RESPOND"], t, i, S, at, z)
      BY <1>1, <1>2, <1>3, <2>3, <2>10, <3>1, PlainReceived DEF m, b
    <3> QED
      BY <2>3, <2>5, <2>10, <3>2 DEF ReceiveBody
  <2> QED
    BY <2>7, <2>8, <2>9, <2>10
<1>9. CASE Spent(S, e)
  <2>1. e = Len(S)
    BY <1>9 DEF Spent
  <2> QED
    BY <1>1, <1>2, <1>3, <2>1 DEF z
<1> QED
  BY <1>6, <1>7, <1>8, <1>9

-----------------------------------------------------------------------------
(***************************************************************************)
(* What does not change with the connection.                               *)
(***************************************************************************)
LEMMA SameSent ==
  ASSUME sent' = sent, NEW S, NEW at
  PROVE  /\ Laid(S, at) => Laid(S, at)'
         /\ LastExpects => LastExpects'
         /\ Expects <=> Expects'
<1>1. Laid(S, at) => Laid(S, at)'
  BY DEF Laid, BodyAt
<1>2. LastExpects => LastExpects'
  BY DEF LastExpects
<1>3. Expects <=> Expects'
  BY DEF Expects
<1> QED
  BY <1>1, <1>2, <1>3

LEMMA SameHandled ==
  ASSUME sent' = sent, handled' = handled, NEW at, NEW place
  PROVE  /\ Handed => Handed'
         /\ Placed(place) => Placed(place)'
         /\ \A x : Passed(place, at, x) => Passed(place, at, x)'
         /\ \A i : Untouched(place, i) => Untouched(place, i)'
<1>1. Handed => Handed'
  BY DEF Handed
<1>2. Placed(place) => Placed(place)'
  BY DEF Placed
<1>3. \A x : Passed(place, at, x) => Passed(place, at, x)'
  BY DEF Passed
<1>4. \A i : Untouched(place, i) => Untouched(place, i)'
  BY DEF Untouched
<1> QED
  BY <1>1, <1>2, <1>3, <1>4

LEMMA SameRead ==
  ASSUME sent' = sent, NEW r, c' = r, NEW S, NEW at, NEW e, NEW i
  PROVE  /\ Holds(r, S, e) => Holds(c, S, e)'
         /\ InBody(r, i, at, e) => InBody(c, i, at, e)'
         /\ AtEnd(r, i, S, at, e) => AtEnd(c, i, S, at, e)'
<1>1. Holds(r, S, e) => Holds(c, S, e)'
  OBVIOUS
<1>2. \A s : InBody(s, i, at, e) => InBody(s, i, at, e)'
  BY DEF InBody, BodyAt
<1>3. InBody(r, i, at, e) => InBody(c, i, at, e)'
  BY DEF InBody, BodyAt
<1>4. AtEnd(r, i, S, at, e) => AtEnd(c, i, S, at, e)'
  <2> SUFFICES ASSUME AtEnd(r, i, S, at, e) PROVE AtEnd(c, i, S, at, e)'
    OBVIOUS
  <2>1. WantsContinue(r) => InBody(Complete100(r), i, at, e)'
    BY <1>2 DEF AtEnd
  <2>2. WantsContinue(r) => InBody(Complete100(c), i, at, e)'
    BY <2>1 DEF InBody, BodyAt
  <2> QED
    BY <2>2 DEF AtEnd, BodyAt
<1> QED
  BY <1>1, <1>3, <1>4

LEMMA SameStage ==
  ASSUME c' = c, sent' = sent, handled' = handled, NEW S, NEW at, NEW place, NEW e
  PROVE  /\ Holds(c, S, e) => Holds(c, S, e)'
         /\ Stage(S, at, place, e) => Stage(S, at, place, e)'
<1>1. PICK s : s = c
  OBVIOUS
<1>2. c' = s
  BY <1>1
<1>3. /\ \A x : Passed(place, at, x) => Passed(place, at, x)'
      /\ \A i : Untouched(place, i) => Untouched(place, i)'
      /\ Expects <=> Expects'
  BY SameSent, SameHandled
<1>4. Holds(c, S, e) => Holds(c, S, e)'
  OBVIOUS
<1>5. Waiting(S, at, place, e) => Waiting(S, at, place, e)'
  <2>1. Passed(place, at, Read(c, e)) => Passed(place, at, Read(c, e))'
    BY <1>3 DEF Passed
  <2> QED
    BY <2>1 DEF Waiting, AtHeader
<1>6. ASSUME Receiving(S, at, place, e) PROVE Receiving(S, at, place, e)'
  <2>1. PICK i \in DOMAIN sent : Untouched(place, i) /\ InBody(c, i, at, e)
    BY <1>6 DEF Receiving
  <2>2. InBody(c, i, at, e)'
    BY <1>1, <1>2, <2>1, SameRead
  <2> QED
    BY <1>3, <1>6, <2>1, <2>2 DEF Receiving
<1>7. ASSUME Continuing(S, at, place, e) PROVE Continuing(S, at, place, e)'
  <2>1. PICK i \in DOMAIN sent : Untouched(place, i) /\ AtEnd(c, i, S, at, e)
    BY <1>7 DEF Continuing
  <2>2. AtEnd(c, i, S, at, e)'
    BY <1>1, <1>2, <2>1, SameRead
  <2> QED
    BY <1>3, <1>7, <2>1, <2>2 DEF Continuing
<1>8. Answering(S, at, place, e) => Answering(S, at, place, e)'
  BY <1>3 DEF Answering
<1>9. Refusing(S, at, place, e) => Refusing(S, at, place, e)'
  BY <1>3 DEF Refusing
<1>10. Spent(S, e) => Spent(S, e)'
  BY <1>3 DEF Spent
<1> QED
  BY <1>4, <1>5, <1>6, <1>7, <1>8, <1>9, <1>10 DEF Stage

-----------------------------------------------------------------------------
(***************************************************************************)
(* The handlers.                                                           *)
(***************************************************************************)
Requests == [msg : Messages, body : Seq(Unit)]

\* Message i is handed on.
LEMMA HandedOn ==
  ASSUME Kinds, Handed, sent' = sent, NEW S, NEW at, Laid(S, at), NEW place, Placed(place),
         NEW i \in DOMAIN sent, Untouched(place, i), NEW x \in Nat, BodyAt(at, i) <= x,
         NEW body \in Seq(Unit), Len(body) <= MaxBody,
         sent[i].method = "POST" => body = sent[i].entity,
         handled' = Append(handled, [msg |-> sent[i], body |-> body])
  PROVE  /\ Handed' /\ handled' \in Seq(Requests)
         /\ \E more : Placed(more)' /\ Passed(more, at, x)'
<1> DEFINE n == Len(handled)
           req == [msg |-> sent[i], body |-> body]
           longer == [h \in 1 .. n + 1 |-> IF h = n + 1 THEN i ELSE place[h]]
<1>1. /\ handled \in Seq(Requests) /\ n \in Nat /\ sent \in Seq(Messages) /\ i \in Nat /\ i > 0
      /\ sent[i] \in Messages /\ DOMAIN handled = 1 .. n /\ DOMAIN sent \subseteq Nat
  BY DEF Kinds, Requests
<1>2. req \in Requests /\ req.msg = sent[i] /\ req.body = body
  BY <1>1 DEF Requests
<1> HIDE DEF req
<1>3. /\ handled' \in Seq(Requests) /\ DOMAIN handled' = 1 .. n + 1 /\ handled'[n + 1] = req
      /\ \A h \in 1 .. n : handled'[h] = handled[h]
  <2>1. handled' = Append(handled, req)
    BY DEF req
  <2> QED
    BY <1>1, <1>2, <2>1
<1> HIDE DEF n
<1>4. Handed'
  BY <1>1, <1>2, <1>3 DEF Handed
<1>5. /\ \A h \in 1 .. n : place[h] \in DOMAIN sent /\ place[h] < i /\ h <= place[h]
      /\ \A h \in 1 .. n : sent[place[h]] = handled[h].msg
      /\ \A g, h \in 1 .. n : g < h => place[g] < place[h]
  BY <1>1 DEF Placed, Untouched
<1>6. n + 1 <= i
  <2>1. CASE n = 0
    BY <1>1, <2>1
  <2>2. CASE n # 0
    <3>1. n \in 1 .. n
      BY <1>1, <2>2
    <3>2. n <= place[n] /\ place[n] < i /\ place[n] \in Nat
      BY <1>1, <1>5, <3>1
    <3> QED
      BY <1>1, <3>2
  <2> QED
    BY <2>1, <2>2
<1>7. PICK more : more = longer
  OBVIOUS
<1>8. /\ \A h \in 1 .. n : h \in 1 .. n + 1 /\ h # n + 1 /\ more[h] = place[h]
      /\ n + 1 \in 1 .. n + 1 /\ more[n + 1] = i
      /\ \A h \in 1 .. n + 1 : h \in 1 .. n \/ h = n + 1
      /\ more \in [1 .. n + 1 -> DOMAIN sent]
  BY <1>1, <1>5, <1>7
<1> HIDE DEF longer
<1>9. \A h \in 1 .. n + 1 : sent[more[h]] = handled'[h].msg /\ h <= more[h]
  BY <1>2, <1>3, <1>5, <1>6, <1>8
<1>10. \A g, h \in 1 .. n + 1 : g < h => more[g] < more[h]
  <2> SUFFICES ASSUME NEW g \in 1 .. n + 1, NEW h \in 1 .. n + 1, g < h
               PROVE  more[g] < more[h]
    OBVIOUS
  <2>1. g \in 1 .. n
    BY <1>1
  <2>2. CASE h \in 1 .. n
    BY <1>5, <1>8, <2>1, <2>2
  <2>3. CASE h = n + 1
    BY <1>5, <1>8, <2>1, <2>3
  <2> QED
    BY <1>8, <2>2, <2>3
<1>11. Placed(more)'
  BY <1>3, <1>8, <1>9, <1>10 DEF Placed
<1>12. Passed(more, at, x)'
  <2>1. Passed(place, at, x) /\ at[i] < x
    BY <1>1, PassedBefore
  <2>2. \A h \in 1 .. n + 1 : at[more[h]] < x
    BY <1>1, <1>8, <2>1 DEF Passed
  <2> QED
    BY <1>3, <2>2 DEF Passed
<1> QED
  BY <1>3, <1>4, <1>11, <1>12

\* What a recv() leaves on the wire.
LEMMA StillFed ==
  ASSUME Kinds, NEW S \in Seq(Unit), NEW e, Fed(S, e), NEW k \in 1 .. Len(wire),
         wire' = After(wire, k), rest' = rest
  PROVE  Fed(S, e + k)' /\ wire' \in Seq(Unit)
<1>1. /\ wire \in Seq(Unit) /\ rest \in Seq(Unit) /\ Len(wire) \in Nat /\ Len(rest) \in Nat
      /\ e \in Nat /\ Len(S) \in Nat /\ k \in 0 .. Len(wire)
  BY DEF Kinds, Fed
<1>2. /\ wire' \in Seq(Unit) /\ Len(wire') = Len(wire) - k
      /\ \A j \in 1 .. Len(wire) - k : wire'[j] = wire[k + j]
  BY <1>1, AfterKinds
<1>3. e + k \in Nat /\ Len(S) = (e + k) + Len(wire') + Len(rest')
  BY <1>1, <1>2 DEF Fed
<1>4. \A j \in 1 .. Len(wire') : wire'[j] = S[(e + k) + j]
  <2> SUFFICES ASSUME NEW j \in 1 .. Len(wire') PROVE wire'[j] = S[(e + k) + j]
    OBVIOUS
  <2>1. k + j \in 1 .. Len(wire) /\ wire'[j] = wire[k + j]
    BY <1>1, <1>2
  <2>2. e + (k + j) = (e + k) + j
    BY <1>1, <1>2
  <2> QED
    BY <2>1, <2>2 DEF Fed
<1>5. \A j \in 1 .. Len(rest') : rest'[j] = S[(e + k) + Len(wire') + j]
  <2>1. (e + k) + Len(wire') = e + Len(wire)
    BY <1>1, <1>2
  <2> QED
    BY <2>1 DEF Fed
<1> QED
  BY <1>2, <1>3, <1>4, <1>5 DEF Fed

LEMMA PollinKeeps ==
  ASSUME MessageInv, Pollin
  PROVE  MessageInv'
<1>1. PICK S, at, place, e : Course(S, at, place, e)
  BY DEF MessageInv
<1>2. PICK k \in 1 .. Least(RecvMax, Len(wire)) :
        LET r == Received(c, SubSeq(wire, 1, k)) IN
        /\ NotComplete(r) \/ Continues(r) \/ Dispatches(r)
        /\ wire' = After(wire, k)
  BY DEF Pollin
<1>3. PICK s : s = Received(c, SubSeq(wire, 1, k))
  OBVIOUS
<1>4. /\ NotComplete(s) \/ Continues(s) \/ Dispatches(s)
      /\ wire' = After(wire, k) /\ rest' = rest /\ sent' = sent /\ replies' = replies
      /\ ~ c.closed /\ c.events = "in"
  BY <1>2, <1>3 DEF Pollin
<1>5. /\ Kinds /\ Handed /\ LastExpects /\ Laid(S, at) /\ Fed(S, e) /\ Placed(place)
      /\ S \in Seq(Unit) /\ sent \in Seq(Messages) /\ e \in Nat /\ Len(S) \in Nat
  BY <1>1 DEF MessageInv, Kinds, Course, Laid, Fed
<1>6. k \in 1 .. Len(wire)
  <2>1. Len(wire) \in Nat
    BY <1>5 DEF Kinds
  <2> QED
    BY <2>1, MessageAssumption DEF Least
<1> DEFINE z == e + k
<1>7. Taken(s, S, at, place, z)
  BY <1>1, <1>3, <1>4, <1>5, <1>6, UnitsReceived
<1>8. Fed(S, z)' /\ wire' \in Seq(Unit) /\ Laid(S, at)' /\ LastExpects'
  BY <1>4, <1>5, <1>6, StillFed, SameSent
<1> HIDE DEF z
<1>9. s \in Connection /\ ~ s.closed /\ Holds(s, S, z) /\ z \in Nat /\ z <= Len(S)
  BY <1>7 DEF Taken
<1>10. ASSUME c' \in Connection, handled' \in Seq(Requests), Handed', Holds(c, S, z)',
              NEW more, Placed(more)', Stage(S, at, more, z)'
       PROVE  MessageInv'
  <2>1. Kinds'
    BY <1>4, <1>5, <1>8, <1>10 DEF Kinds, Requests
  <2>2. Course(S, at, more, z)'
    BY <1>8, <1>10 DEF Course
  <2> QED
    BY <1>8, <1>10, <2>1, <2>2 DEF MessageInv
<1>11. handled \in Seq(Requests)
  BY <1>5 DEF Kinds, Requests
<1>12. CASE NotComplete(s)
  <2>1. c' = s /\ handled' = handled /\ s.state # "RESPOND"
    BY <1>12 DEF NotComplete
  <2>2. Handed' /\ Placed(place)' /\ Holds(c, S, z)'
    BY <1>4, <1>5, <1>9, <2>1, SameHandled, SameRead
  <2>3. Stage(S, at, place, z)'
    <3>1. CASE /\ s.state = "HEADER" /\ s.events = "in"
               /\ AtHeader(s, place, at, z) /\ Len(s.inbound) <= MaxHeader
      <4>1. Passed(place, at, Read(s, z))'
        BY <1>4, <2>1, <3>1, SameHandled DEF AtHeader
      <4>2. Waiting(S, at, place, z)'
        BY <2>1, <3>1, <4>1 DEF Waiting, AtHeader
      <4> QED
        BY <4>2 DEF Stage
    <3>2. CASE /\ s.state = "ERROR" /\ s.events = "out" /\ s.reply = "error"
               /\ Passed(place, at, z)
      <4>1. Passed(place, at, z)'
        BY <1>4, <2>1, <3>2, SameHandled
      <4> QED
        BY <2>1, <3>2, <4>1 DEF Stage, Refusing
    <3>3. CASE \E i \in DOMAIN sent :
                 /\ Untouched(place, i) /\ s.events = "in"
                 /\ \/ s.state = "BODY" /\ InBody(s, i, at, z)
                    \/ AtEnd(s, i, S, at, z)
      <4>1. PICK i \in DOMAIN sent : /\ Untouched(place, i) /\ s.events = "in"
                                     /\ s.state = "BODY" /\ InBody(s, i, at, z)
        BY <2>1, <3>3 DEF AtEnd
      <4>2. Untouched(place, i)' /\ InBody(c, i, at, z)' /\ i \in DOMAIN sent'
        BY <1>4, <2>1, <4>1, SameHandled, SameRead
      <4> QED
        BY <2>1, <4>1, <4>2 DEF Stage, Receiving
    <3> QED
      BY <1>7, <3>1, <3>2, <3>3 DEF Taken
  <2> QED
    BY <1>9, <1>10, <1>11, <2>1, <2>2, <2>3
<1>13. ASSUME s.state = "RESPOND"
       PROVE  \E i \in DOMAIN sent : Untouched(place, i) /\ AtEnd(s, i, S, at, z)
  BY <1>7, <1>13 DEF Taken
<1>14. CASE Continues(s)
  <2>1. /\ s.state = "RESPOND" /\ WantsContinue(s) /\ handled' = handled
        /\ c' = [s EXCEPT !.reply = "100", !.events = "out"]
    BY <1>14 DEF Continues
  <2>2. PICK i \in DOMAIN sent : Untouched(place, i) /\ AtEnd(s, i, S, at, z)
    BY <1>13, <2>1
  <2>3. PICK t : t = [s EXCEPT !.reply = "100", !.events = "out"]
    OBVIOUS
  <2>4. /\ t \in Connection /\ t.reply = "100" /\ t.events = "out" /\ t.state = "RESPOND"
        /\ t.inbound = s.inbound /\ t.req = s.req /\ t.body = s.body /\ t.left = s.left
        /\ t.total = s.total /\ t.closed = s.closed
    BY <1>9, <2>1, <2>3 DEF Connection
  <2>5. WantsContinue(t) /\ Read(t, z) = Read(s, z) /\ Holds(t, S, z)
    BY <1>9, <2>1, <2>4 DEF WantsContinue, Read, Holds
  <2>6. AtEnd(t, i, S, at, z)
    <3>1. InBody(Complete100(s), i, at, z)
      BY <2>1, <2>2 DEF AtEnd
    <3>2. /\ Complete100(t).inbound = Complete100(s).inbound
          /\ Complete100(t).req = Complete100(s).req
          /\ Complete100(t).body = Complete100(s).body
          /\ Complete100(t).left = Complete100(s).left
          /\ Complete100(t).total = Complete100(s).total
      BY <1>9, <2>4 DEF Complete100, Connection
    <3>3. \A x, y : /\ x.inbound = y.inbound /\ x.req = y.req /\ x.body = y.body
                    /\ x.left = y.left /\ x.total = y.total
                    => (InBody(x, i, at, z) => InBody(y, i, at, z))
      BY DEF InBody, InChunked, AtSize, InChunk, Ended, WholeBody, Read
    <3>4. InBody(Complete100(t), i, at, z)
      BY <3>1, <3>2, <3>3
    <3> QED
      BY <2>2, <2>4, <2>5, <3>4 DEF AtEnd
  <2>7. c' = t
    BY <2>1, <2>3
  <2>8. Handed' /\ Placed(place)' /\ Holds(c, S, z)'
    BY <1>4, <1>5, <2>1, <2>5, <2>7, SameHandled, SameRead
  <2>9. Untouched(place, i)' /\ AtEnd(c, i, S, at, z)' /\ i \in DOMAIN sent'
    BY <1>4, <2>1, <2>2, <2>6, <2>7, SameHandled, SameRead
  <2>10. Stage(S, at, place, z)'
    BY <2>4, <2>5, <2>7, <2>9 DEF Stage, Continuing
  <2> QED
    BY <1>10, <1>11, <2>1, <2>4, <2>7, <2>8, <2>10
<1>15. CASE Dispatches(s)
  <2>1. /\ s.state = "RESPOND" /\ ~ WantsContinue(s)
        /\ c' \in {[s EXCEPT !.events = "hold"], Fail(s)}
        /\ handled' = Append(handled, [msg |-> s.req.msg,
                                      body |-> IF s.req.post THEN s.body ELSE <<>>])
    BY <1>15 DEF Dispatches
  <2>2. PICK i \in DOMAIN sent : Untouched(place, i) /\ AtEnd(s, i, S, at, z)
    BY <1>13, <2>1
  <2> DEFINE m == sent[i]
             body == IF s.req.post THEN s.body ELSE <<>>
  <2>3. /\ s.req = Parsed(m) /\ BodyAt(at, i) <= Read(s, z)
        /\ s.req.post => WholeBody(s, m)
        /\ s.req.post /\ s.req.expect => z = Len(S)
    BY <2>1, <2>2 DEF AtEnd
  <2>4. m \in Messages /\ BodyAt(at, i) \in Nat
    BY <1>5, LaidBody
  <2>5. s.req.msg = m /\ (s.req.post <=> m.method = "POST")
    BY <2>3, <2>4, ParsedKinds
  <2>6. body \in Seq(Unit) /\ Len(body) <= MaxBody /\ (m.method = "POST" => body = m.entity)
    <3>1. <<>> \in Seq(Unit) /\ Len(<<>>) <= MaxBody /\ s.body \in Seq(Unit)
      BY <1>9, MessageAssumption DEF Connection
    <3> QED
      BY <2>3, <2>5, <3>1 DEF WholeBody
  <2>7. BodyAt(at, i) <= z
    <3>1. s.inbound \in Seq(Unit)
      BY <1>9 DEF Connection
    <3>2. Len(s.inbound) \in Nat
      BY <3>1
    <3> QED
      BY <1>9, <2>3, <2>4, <3>2 DEF Read
  <2>8. handled' = Append(handled, [msg |-> m, body |-> body])
    BY <2>1, <2>5
  <2> HIDE DEF body
  <2>9. /\ Handed' /\ handled' \in Seq(Requests)
        /\ \E more : Placed(more)' /\ Passed(more, at, z)'
    BY <1>4, <1>5, <1>9, <2>2, <2>6, <2>7, <2>8, HandedOn
  <2>10. PICK more : Placed(more)' /\ Passed(more, at, z)'
    BY <2>9
  <2>11. PICK t : t = [s EXCEPT !.events = "hold"]
    OBVIOUS
  <2>12. /\ t \in Connection /\ t.events = "hold" /\ t.state = "RESPOND" /\ t.req = s.req
         /\ t.inbound = s.inbound
    BY <1>9, <2>1, <2>11 DEF Connection
  <2>13. Holds(t, S, z) /\ Holds(Fail(s), S, z)
    <3>1. Fail(s).inbound = s.inbound
      BY <1>9, FailKinds
    <3>2. \A w : w.inbound = s.inbound => Holds(w, S, z)
      BY <1>9 DEF Holds, Read
    <3> QED
      BY <2>12, <3>1, <3>2
  <2>14. s.req.post /\ s.req.expect => z = Len(S) /\ Expects'
    <3>1. s.req.expect => Expects
      BY <1>5, <2>3, ExpectsAtEnd
    <3> QED
      BY <1>4, <2>3, <3>1, SameSent
  <2>15. CASE c' = t
    <3>1. Answering(S, at, more, z)'
      BY <2>10, <2>12, <2>14, <2>15 DEF Answering
    <3>2. Holds(c, S, z)'
      BY <2>13, <2>15
    <3> QED
      BY <1>10, <2>9, <2>10, <2>12, <2>15, <3>1, <3>2 DEF Stage
  <2>16. CASE c' = Fail(s)
    <3>1. Refusing(S, at, more, z)'
      BY <1>9, <2>10, <2>16, FailKinds DEF Refusing
    <3>2. Holds(c, S, z)'
      BY <2>13, <2>16
    <3> QED
      BY <1>9, <1>10, <2>9, <2>10, <2>16, <3>1, <3>2, FailKinds DEF Stage
  <2> QED
    BY <2>1, <2>11, <2>15, <2>16
<1> QED
  BY <1>4, <1>12, <1>14, <1>15

LEMMA CompleteKeeps ==
  ASSUME MessageInv, Complete
  PROVE  MessageInv'
<1>1. PICK S, at, place, e : Course(S, at, place, e)
  BY DEF MessageInv
<1>2. /\ ~ c.closed /\ c.events = "hold" /\ wire' = wire /\ rest' = rest /\ sent' = sent
      /\ replies' = replies /\ handled' = handled
      /\ c' = [c EXCEPT !.reply = "final", !.events = "out"]
  BY DEF Complete
<1>3. /\ Kinds /\ Handed /\ LastExpects /\ Laid(S, at) /\ Fed(S, e) /\ Placed(place)
      /\ Holds(c, S, e) /\ Stage(S, at, place, e) /\ c \in Connection
  BY <1>1 DEF MessageInv, Kinds, Course
<1>4. PICK s : s = [c EXCEPT !.reply = "final", !.events = "out"]
  OBVIOUS
<1>5. /\ s \in Connection /\ s.inbound = c.inbound /\ s.req = c.req /\ s.state = c.state
      /\ s.events = "out" /\ s.reply = "final"
  BY <1>3, <1>4 DEF Connection
<1>6. Answering(S, at, place, e)
  BY <1>2, <1>3 DEF Stage, Waiting, Receiving, Continuing, Refusing, Spent
<1>7. c' = s
  BY <1>2, <1>4
<1>8. Kinds'
  BY <1>2, <1>3, <1>5, <1>7 DEF Kinds
<1>9. /\ Laid(S, at)' /\ LastExpects' /\ Handed' /\ Placed(place)'
      /\ \A x : Passed(place, at, x) => Passed(place, at, x)'
      /\ Expects <=> Expects'
  BY <1>2, <1>3, SameSent, SameHandled
<1>10. Fed(S, e)'
  BY <1>2, <1>3 DEF Fed
<1>11. Holds(c, S, e)'
  BY <1>3, <1>5, <1>7 DEF Holds, Read
<1>12. Answering(S, at, place, e)'
  BY <1>5, <1>6, <1>7, <1>9 DEF Answering
<1>13. Course(S, at, place, e)'
  BY <1>9, <1>10, <1>11, <1>12 DEF Course, Stage
<1> QED
  BY <1>8, <1>9, <1>13 DEF MessageInv

\* The reset of pollout.
LEMMA ReadyAgain ==
  ASSUME NEW s \in Connection, NEW S, NEW e \in Nat
  PROVE  LET t == Clean(s) IN
         /\ t \in Connection /\ t.state = "HEADER" /\ t.events = "in" /\ t.inbound = <<>>
         /\ t.body = <<>> /\ t.total = 0 /\ t.left = 0 /\ t.req = NoRequest
         /\ Holds(t, S, e) /\ Read(t, e) = e
<1> DEFINE t == Clean(s)
<1>1. <<>> \in Seq(Unit) /\ Len(<<>>) = 0
  OBVIOUS
<1>2. /\ t \in Connection /\ t.state = "HEADER" /\ t.events = "in" /\ t.inbound = <<>>
      /\ t.body = <<>> /\ t.total = 0 /\ t.left = 0 /\ t.req = NoRequest
  BY <1>1 DEF Clean, Connection
<1> HIDE DEF t
<1>3. Read(t, e) = e
  BY <1>1, <1>2 DEF Read
<1>4. Holds(t, S, e)
  BY <1>1, <1>2, <1>3 DEF Holds
<1> QED
  BY <1>2, <1>3, <1>4 DEF t

LEMMA PolloutKeeps ==
  ASSUME MessageInv, Pollout
  PROVE  MessageInv'
<1>1. PICK S, at, place, e : Course(S, at, place, e)
  BY DEF MessageInv
<1>2. /\ ~ c.closed /\ c.events = "out" /\ wire' = wire /\ rest' = rest /\ sent' = sent
      /\ handled' = handled /\ replies' = Append(replies, c.reply) /\ c' = AfterReply(c)
  BY DEF Pollout
<1>3. /\ Kinds /\ Handed /\ LastExpects /\ Laid(S, at) /\ Fed(S, e) /\ Placed(place)
      /\ Holds(c, S, e) /\ Stage(S, at, place, e) /\ c \in Connection /\ e \in Nat
  BY <1>1 DEF MessageInv, Kinds, Course, Fed
<1>4. Continuing(S, at, place, e) \/ Answering(S, at, place, e) \/ Refusing(S, at, place, e)
  BY <1>2, <1>3 DEF Stage, Waiting, Receiving, Spent
<1>5. replies' \in Seq({"100", "final", "error"})
  <2>1. c.reply \in {"100", "final", "error"}
    BY <1>2, <1>4 DEF Continuing, Answering, Refusing
  <2> QED
    BY <1>2, <1>3, <2>1 DEF Kinds
<1>6. /\ Laid(S, at)' /\ LastExpects' /\ Handed' /\ Placed(place)' /\ Fed(S, e)'
      /\ \A x : Passed(place, at, x) => Passed(place, at, x)'
      /\ \A i : Untouched(place, i) => Untouched(place, i)'
      /\ Expects <=> Expects'
  BY <1>2, <1>3, SameSent, SameHandled DEF Fed
<1>7. ASSUME NEW s \in Connection, c' = s, Holds(s, S, e), Stage(S, at, place, e)'
      PROVE  MessageInv'
  <2>1. Kinds'
    BY <1>2, <1>3, <1>5, <1>7 DEF Kinds
  <2>2. Course(S, at, place, e)'
    BY <1>6, <1>7 DEF Course, Holds, Read
  <2> QED
    BY <1>6, <2>1, <2>2 DEF MessageInv
<1>8. ASSUME c' = Clean(c), Passed(place, at, e) PROVE MessageInv'
  <2>1. PICK s : s = Clean(c)
    OBVIOUS
  <2>2. /\ s \in Connection /\ s.state = "HEADER" /\ s.events = "in" /\ s.inbound = <<>>
        /\ s.body = <<>> /\ s.total = 0 /\ s.left = 0 /\ s.req = NoRequest
        /\ Holds(s, S, e) /\ Read(s, e) = e
    BY <1>3, <2>1, ReadyAgain
  <2>3. Len(s.inbound) <= MaxHeader
    BY <2>2, MessageAssumption
  <2>4. Passed(place, at, Read(s, e))'
    BY <1>6, <1>8, <2>2
  <2>5. c' = s
    BY <1>8, <2>1
  <2>6. Waiting(S, at, place, e)'
    BY <2>2, <2>3, <2>4, <2>5 DEF Waiting, AtHeader
  <2> QED
    BY <1>7, <2>2, <2>5, <2>6 DEF Stage
<1>9. CASE c.state = "ERROR"
  <2>1. c' = Clean(c)
    BY <1>2, <1>9 DEF AfterReply
  <2>2. Passed(place, at, e)
    BY <1>4, <1>9 DEF Continuing, Answering, Refusing
  <2> QED
    BY <1>8, <2>1, <2>2
<1>10. CASE c.state # "ERROR" /\ ~ c.req.keep
  <2>1. PICK s : s = [c EXCEPT !.closed = TRUE, !.reply = "none"]
    OBVIOUS
  <2>2. c' = s
    BY <1>2, <1>10, <2>1 DEF AfterReply
  <2>3. s \in Connection /\ s.closed /\ s.inbound = c.inbound /\ s.state = "RESPOND"
    <3>1. c.state = "RESPOND"
      BY <1>4, <1>10 DEF Continuing, Answering, Refusing
    <3> QED
      BY <1>3, <2>1, <3>1 DEF Connection
  <2>4. Holds(s, S, e)
    BY <1>3, <2>3 DEF Holds, Read
  <2> QED
    BY <1>7, <2>2, <2>3, <2>4 DEF Stage
<1>11. CASE c.state # "ERROR" /\ c.req.keep /\ c.req.post /\ c.req.expect
  <2>1. PICK s : s = [c EXCEPT !.total = 0, !.left = 0, !.state = "BODY", !.events = "in",
                             !.reply = "none"]
    OBVIOUS
  <2>2. c' = s
    BY <1>2, <1>11, <2>1 DEF AfterReply
  <2>3. /\ s \in Connection /\ s.inbound = c.inbound /\ s.req = c.req /\ s.body = c.body
        /\ s.total = 0 /\ s.left = 0 /\ s.state = "BODY" /\ s.events = "in"
    BY <1>3, <2>1 DEF Connection
  <2>4. Holds(s, S, e)
    BY <1>3, <2>3 DEF Holds, Read
  <2>5. CASE Continuing(S, at, place, e)
    <3>1. PICK i \in DOMAIN sent : Untouched(place, i) /\ AtEnd(c, i, S, at, e)
      BY <2>5 DEF Continuing
    <3>2. InBody(Complete100(c), i, at, e)
      BY <2>5, <3>1 DEF Continuing, AtEnd
    <3>3. /\ Complete100(c).inbound = s.inbound /\ Complete100(c).req = s.req
          /\ Complete100(c).body = s.body /\ Complete100(c).left = s.left
          /\ Complete100(c).total = s.total
      BY <1>3, <2>3 DEF Complete100, Connection
    <3>4. \A x, y : /\ x.inbound = y.inbound /\ x.req = y.req /\ x.body = y.body
                    /\ x.left = y.left /\ x.total = y.total
                    => (InBody(x, i, at, e) => InBody(y, i, at, e))
      BY DEF InBody, InChunked, AtSize, InChunk, Ended, WholeBody, Read
    <3>5. InBody(s, i, at, e)
      BY <3>2, <3>3, <3>4
    <3>6. InBody(c, i, at, e)' /\ Untouched(place, i)' /\ i \in DOMAIN sent'
      BY <1>2, <1>6, <2>2, <3>1, <3>5, SameRead
    <3>7. Receiving(S, at, place, e)'
      BY <2>2, <2>3, <3>6 DEF Receiving
    <3> QED
      BY <1>7, <2>2, <2>3, <2>4, <3>7 DEF Stage
  <2>6. CASE Answering(S, at, place, e)
    <3>1. e = Len(S) /\ Expects'
      BY <1>6, <1>11, <2>6 DEF Answering
    <3>2. Spent(S, e)'
      BY <2>2, <2>3, <3>1 DEF Spent
    <3> QED
      BY <1>7, <2>2, <2>3, <2>4, <3>2 DEF Stage
  <2> QED
    BY <1>4, <1>11, <2>5, <2>6 DEF Refusing
<1>12. CASE c.state # "ERROR" /\ c.req.keep /\ ~ (c.req.post /\ c.req.expect)
  <2>1. c' = Clean(c)
    BY <1>2, <1>12 DEF AfterReply
  <2>2. Passed(place, at, e)
    BY <1>4, <1>12 DEF Continuing, Answering, Refusing, WantsContinue
  <2> QED
    BY <1>8, <2>1, <2>2
<1> QED
  BY <1>9, <1>10, <1>11, <1>12

-----------------------------------------------------------------------------
(***************************************************************************)
(* The peer.                                                               *)
(***************************************************************************)
\* T is S and message m behind it.
Behind(T, S, m) ==
  /\ T \in Seq(Unit) /\ Len(T) = Len(S) + (m.lines + 1) + Len(m.body)
  /\ \A x \in 1 .. Len(S) : T[x] = S[x]
  /\ \A k \in 1 .. m.lines + 1 : T[Len(S) + k] = Header(m)[k]
  /\ \A k \in 1 .. Len(m.body) : T[Len(S) + (m.lines + 1) + k] = m.body[k]

LEMMA Laying ==
  ASSUME NEW S \in Seq(Unit), NEW m \in Messages
  PROVE  Behind(S \o (Header(m) \o m.body), S, m)
<1> DEFINE T == S \o (Header(m) \o m.body)
           h == Header(m)
           hb == Header(m) \o m.body
<1>1. h \in Seq(Unit) /\ Len(h) = m.lines + 1 /\ m.lines \in Nat
  BY HeaderKinds, MessageKinds
<1>2. m.body \in Seq(Unit) /\ Len(m.body) \in Nat /\ Len(S) \in Nat
  BY MessageKinds
<1>3. hb = h \o m.body
  OBVIOUS
<1> HIDE DEF h, hb, T
<1>4. /\ hb \in Seq(Unit) /\ Len(hb) = Len(h) + Len(m.body)
      /\ \A j \in 1 .. Len(h) : hb[j] = h[j]
      /\ \A j \in 1 .. Len(m.body) : hb[Len(h) + j] = m.body[j]
  BY <1>1, <1>2, <1>3, JoinedUnits
<1>5. T = S \o hb
  BY DEF hb, T
<1>6. /\ T \in Seq(Unit) /\ Len(T) = Len(S) + Len(hb)
      /\ \A j \in 1 .. Len(S) : T[j] = S[j]
      /\ \A j \in 1 .. Len(hb) : T[Len(S) + j] = hb[j]
  <2>1. /\ S \o hb \in Seq(Unit) /\ Len(S \o hb) = Len(S) + Len(hb)
        /\ \A j \in 1 .. Len(S) : (S \o hb)[j] = S[j]
        /\ \A j \in 1 .. Len(hb) : (S \o hb)[Len(S) + j] = hb[j]
    BY <1>4, JoinedUnits
  <2> QED
    BY <1>5, <2>1
<1>7. \A k \in 1 .. m.lines + 1 : T[Len(S) + k] = h[k]
  <2> SUFFICES ASSUME NEW k \in 1 .. m.lines + 1 PROVE T[Len(S) + k] = h[k]
    OBVIOUS
  <2>1. k \in 1 .. Len(h) /\ k \in 1 .. Len(hb)
    BY <1>1, <1>2, <1>4
  <2> QED
    BY <1>4, <1>6, <2>1
<1>8. \A k \in 1 .. Len(m.body) : T[Len(S) + (m.lines + 1) + k] = m.body[k]
  <2> SUFFICES ASSUME NEW k \in 1 .. Len(m.body)
               PROVE  T[Len(S) + (m.lines + 1) + k] = m.body[k]
    OBVIOUS
  <2>1. Len(h) \in Nat /\ k \in Nat /\ k <= Len(m.body) /\ k >= 1
    BY <1>1, <1>2
  <2>2. Len(h) + k \in 1 .. Len(hb)
    BY <1>2, <1>4, <2>1
  <2>3. Len(S) + (m.lines + 1) + k = Len(S) + (Len(h) + k)
    BY <1>1, <1>2, <2>1
  <2> QED
    BY <1>4, <1>6, <2>2, <2>3
<1>9. Len(T) = Len(S) + (m.lines + 1) + Len(m.body)
  BY <1>1, <1>2, <1>4, <1>6
<1> QED
  BY <1>6, <1>7, <1>8, <1>9 DEF h, T, Behind

\* No unit of a body is the end of a header.
LEMMA BodyHasNoEnd ==
  ASSUME NEW m \in Messages, NEW k \in 1 .. Len(m.body)
  PROVE  ~ IsEnd(m.body[k])
<1>1. m.body \in Seq(DataUnit \cup SizeUnit \cup {Crlf})
  BY MessageAssumption DEF Message
<1>2. m.body[k] \in DataUnit \cup SizeUnit \cup {Crlf}
  BY <1>1
<1> QED
  BY <1>2 DEF DataUnit, SizeUnit, Crlf, IsEnd

LEMMA Beyond ==
  ASSUME NEW a \in Nat, NEW l \in Nat, NEW b \in Nat, NEW x \in 1 .. a + (l + 1) + b,
         x > a + (l + 1)
  PROVE  /\ x - (a + (l + 1)) \in 1 .. b
         /\ x = a + (l + 1) + (x - (a + (l + 1)))
OBVIOUS

LEMMA LaidOn ==
  ASSUME sent \in Seq(Messages), NEW S, NEW at, Laid(S, at), NEW m \in Messages,
         sent' = Append(sent, m), NEW T, Behind(T, S, m), NEW more,
         more = [i \in 1 .. Len(sent) + 2 |-> IF i = Len(sent) + 2 THEN Len(T) ELSE at[i]]
  PROVE  /\ Laid(T, more)'
         /\ \A i \in DOMAIN sent : i \in DOMAIN sent' /\ sent'[i] = sent[i] /\ more[i] = at[i]
<1>0. PICK n : n = Len(sent)
  OBVIOUS
<1>1. /\ n \in Nat /\ DOMAIN sent = 1 .. n /\ S \in Seq(Unit) /\ Len(S) \in Nat
      /\ m.lines \in Nat /\ m.body \in Seq(Unit) /\ Len(m.body) \in Nat
  BY <1>0, MessageKinds DEF Laid
<1>2. /\ sent' \in Seq(Messages) /\ Len(sent') = n + 1 /\ DOMAIN sent' = 1 .. n + 1
      /\ sent'[n + 1] = m /\ \A i \in 1 .. n : sent'[i] = sent[i]
  BY <1>0, <1>1
<1>3. /\ at \in [1 .. n + 1 -> Nat] /\ at[1] = 0 /\ at[n + 1] = Len(S)
      /\ \A i, j \in 1 .. n + 1 : i < j => at[i] < at[j]
  BY <1>0 DEF Laid
<1>4. /\ T \in Seq(Unit) /\ Len(T) = Len(S) + (m.lines + 1) + Len(m.body)
      /\ \A x \in 1 .. Len(S) : T[x] = S[x]
      /\ \A k \in 1 .. m.lines + 1 : T[Len(S) + k] = Header(m)[k]
      /\ \A k \in 1 .. Len(m.body) : T[Len(S) + (m.lines + 1) + k] = m.body[k]
  BY DEF Behind
<1>5. Len(T) \in Nat /\ Len(S) < Len(T)
  BY <1>1, <1>4
<1>6. /\ more \in [1 .. n + 2 -> Nat] /\ more[n + 2] = Len(T)
      /\ \A i \in 1 .. n + 1 : i \in 1 .. n + 2 /\ more[i] = at[i]
      /\ \A i \in 1 .. n + 2 : i \in 1 .. n + 1 \/ i = n + 2
  BY <1>0, <1>1, <1>3, <1>5
<1>7. /\ 1 \in 1 .. n + 1 /\ n + 1 \in 1 .. n + 1 /\ (n + 1) + 1 = n + 2
      /\ \A i \in 1 .. n : i \in 1 .. n + 1 /\ i + 1 \in 1 .. n + 1
      /\ \A i \in 1 .. n + 1 : i \in 1 .. n \/ i = n + 1
      /\ \A i \in 1 .. n + 1 : i # n + 1 => i < n + 1
  BY <1>1
<1>8. \A i, j \in 1 .. n + 2 : i < j => more[i] < more[j]
  <2> SUFFICES ASSUME NEW i \in 1 .. n + 2, NEW j \in 1 .. n + 2, i < j
               PROVE  more[i] < more[j]
    OBVIOUS
  <2>1. i \in 1 .. n + 1
    BY <1>1
  <2>2. CASE j \in 1 .. n + 1
    BY <1>3, <1>6, <2>1, <2>2
  <2>3. CASE j = n + 2
    <3>1. at[i] <= Len(S) /\ at[i] \in Nat
      BY <1>1, <1>3, <1>7, <2>1
    <3> QED
      BY <1>1, <1>5, <1>6, <2>1, <2>3, <3>1
  <2> QED
    BY <1>6, <2>2, <2>3
<1>9. ASSUME NEW i \in 1 .. n
       PROVE  /\ BodyAt(more, i)' = BodyAt(at, i) /\ more[i + 1] = at[i + 1]
              /\ BodyAt(at, i) \in 1 .. Len(S)
              /\ \A k \in 1 .. Len(sent[i].body) : BodyAt(at, i) + k \in 1 .. Len(S)
  <2>1. more[i] = at[i] /\ more[i + 1] = at[i + 1]
    BY <1>6, <1>7
  <2>2. /\ sent[i] \in Messages /\ at[i] \in Nat /\ BodyAt(at, i) \in Nat
        /\ at[i + 1] = BodyAt(at, i) + Len(sent[i].body) /\ at[i + 1] <= Len(S)
    <3>1. i \in DOMAIN sent
      BY <1>1
    <3> QED
      BY <3>1, LaidBody
  <2>3. sent[i].lines \in Nat /\ Len(sent[i].body) \in Nat
    BY <2>2, MessageKinds
  <2>4. BodyAt(at, i) \in 1 .. Len(S)
    <3>1. BodyAt(at, i) >= 1
      BY <2>2, <2>3 DEF BodyAt
    <3> QED
      BY <1>1, <2>2, <2>3, <3>1
  <2>5. \A k \in 1 .. Len(sent[i].body) : BodyAt(at, i) + k \in 1 .. Len(S)
    BY <1>1, <2>2, <2>3
  <2>6. BodyAt(more, i)' = BodyAt(at, i)
    BY <1>2, <2>1 DEF BodyAt
  <2> QED
    BY <2>1, <2>4, <2>5, <2>6
<1>10. BodyAt(more, n + 1)' = Len(S) + (m.lines + 1)
  <2>1. more[n + 1] = Len(S) /\ sent'[n + 1] = m
    BY <1>2, <1>3, <1>6, <1>7
  <2>2. BodyAt(more, n + 1)' = Len(S) + m.lines + 1
    BY <2>1 DEF BodyAt
  <2>3. Len(S) + m.lines + 1 = Len(S) + (m.lines + 1)
    BY <1>1
  <2> QED
    BY <2>2, <2>3
<1>11. ASSUME NEW i \in 1 .. n + 1
       PROVE  /\ more[i + 1] = BodyAt(more, i)' + Len(sent'[i].body)
              /\ T[BodyAt(more, i)'] = End(sent'[i])
              /\ \A k \in 1 .. Len(sent'[i].body) : T[BodyAt(more, i)' + k] = sent'[i].body[k]
  <2>1. CASE i \in 1 .. n
    <3>1. /\ at[i + 1] = BodyAt(at, i) + Len(sent[i].body)
          /\ S[BodyAt(at, i)] = End(sent[i])
          /\ \A k \in 1 .. Len(sent[i].body) : S[BodyAt(at, i) + k] = sent[i].body[k]
      BY <1>1, <2>1 DEF Laid
    <3>2. sent'[i] = sent[i]
      BY <1>2, <2>1
    <3>3. /\ BodyAt(more, i)' = BodyAt(at, i) /\ more[i + 1] = at[i + 1]
          /\ BodyAt(at, i) \in 1 .. Len(S)
          /\ \A k \in 1 .. Len(sent[i].body) : BodyAt(at, i) + k \in 1 .. Len(S)
      BY <1>9, <2>1
    <3>4. T[BodyAt(at, i)] = End(sent[i])
      BY <1>4, <3>1, <3>3
    <3>5. \A k \in 1 .. Len(sent[i].body) : T[BodyAt(at, i) + k] = sent[i].body[k]
      BY <1>4, <3>1, <3>3
    <3> QED
      BY <3>1, <3>2, <3>3, <3>4, <3>5
  <2>2. CASE i = n + 1
    <3>1. Header(m)[m.lines + 1] = End(m) /\ m.lines + 1 \in 1 .. m.lines + 1
      BY <1>1, HeaderKinds
    <3>2. more[i + 1] = Len(S) + (m.lines + 1) + Len(m.body)
      BY <1>4, <1>6, <1>7, <2>2
    <3>3. sent'[i] = m /\ BodyAt(more, i)' = Len(S) + (m.lines + 1)
      BY <1>2, <1>10, <2>2
    <3>4. T[Len(S) + (m.lines + 1)] = End(m)
      BY <1>4, <3>1
    <3> QED
      BY <1>4, <3>2, <3>3, <3>4
  <2>3. i \in 1 .. n \/ i = n + 1
    BY <1>7
  <2> QED
    BY <2>1, <2>2, <2>3
<1>12. ASSUME NEW x \in 1 .. Len(T), IsEnd(T[x])
       PROVE  \E i \in 1 .. n + 1 : x = BodyAt(more, i)'
  <2>1. CASE x \in 1 .. Len(S)
    <3>1. PICK i \in 1 .. n : x = BodyAt(at, i)
      BY <1>1, <1>4, <1>12, <2>1 DEF Laid
    <3> QED
      BY <1>7, <1>9, <3>1
  <2>2. CASE x > Len(S) /\ x <= Len(S) + (m.lines + 1)
    <3>1. PICK k \in 1 .. m.lines + 1 : x = Len(S) + k
      <4>1. x - Len(S) \in 1 .. m.lines + 1 /\ x = Len(S) + (x - Len(S))
        BY <1>1, <2>2
      <4> QED
        BY <4>1
    <3>2. T[x] = Header(m)[k]
      BY <1>4, <3>1
    <3>3. CASE k = m.lines + 1
      <4>1. x = BodyAt(more, n + 1)'
        BY <1>10, <3>1, <3>3
      <4> QED
        BY <1>7, <4>1
    <3>4. CASE k # m.lines + 1
      <4>1. k \in 1 .. m.lines
        BY <1>1, <3>4
      <4> QED
        BY <1>12, <3>2, <4>1, HeaderKinds, KindsOfUnits DEF IsEnd
    <3> QED
      BY <3>3, <3>4
  <2>3. CASE x > Len(S) + (m.lines + 1)
    <3>1. PICK k \in 1 .. Len(m.body) : x = Len(S) + (m.lines + 1) + k
      <4>1. /\ x - (Len(S) + (m.lines + 1)) \in 1 .. Len(m.body)
            /\ x = Len(S) + (m.lines + 1) + (x - (Len(S) + (m.lines + 1)))
        <5>1. x \in 1 .. Len(S) + (m.lines + 1) + Len(m.body)
          BY <1>4
        <5> QED
          BY <1>1, <2>3, <5>1, Beyond
      <4> QED
        BY <4>1
    <3> QED
      BY <1>4, <1>12, <3>1, BodyHasNoEnd
  <2>4. x \in Nat /\ x >= 1
    BY <1>5
  <2>5. \/ x \in 1 .. Len(S) \/ (x > Len(S) /\ x <= Len(S) + (m.lines + 1))
        \/ x > Len(S) + (m.lines + 1)
    BY <1>1, <2>4
  <2> QED
    BY <2>1, <2>2, <2>3, <2>5
<1>13. Laid(T, more)'
  <2>1. /\ more \in [1 .. Len(sent') + 1 -> Nat] /\ more[Len(sent') + 1] = Len(T)
        /\ \A i, j \in 1 .. Len(sent') + 1 : i < j => more[i] < more[j]
    BY <1>2, <1>6, <1>7, <1>8
  <2>2. more[1] = 0
    BY <1>3, <1>6, <1>7
  <2> QED
    <3>1. T \in Seq(Unit) /\ DOMAIN sent' = 1 .. n + 1
      BY <1>2, <1>4
    <3>2. \A i \in DOMAIN sent' :
            /\ more[i + 1] = BodyAt(more, i)' + Len(sent'[i].body)
            /\ T[BodyAt(more, i)'] = End(sent'[i])
            /\ \A k \in 1 .. Len(sent'[i].body) : T[BodyAt(more, i)' + k] = sent'[i].body[k]
      BY <1>11, <3>1
    <3>3. \A x \in 1 .. Len(T) : IsEnd(T[x]) => \E i \in DOMAIN sent' : x = BodyAt(more, i)'
      BY <1>12, <3>1
    <3> QED
      BY <2>1, <2>2, <3>1, <3>2, <3>3 DEF Laid
<1>14. \A i \in DOMAIN sent : i \in DOMAIN sent' /\ sent'[i] = sent[i] /\ more[i] = at[i]
  BY <1>1, <1>2, <1>6, <1>7
<1> QED
  BY <1>13, <1>14

LEMMA Regrouped ==
  ASSUME NEW a \in Nat, NEW b \in Nat, NEW d \in Nat
  PROVE  /\ a + (b + d) = (a + b) + d
         /\ \A k \in Nat : a + (b + d) + k = (a + b) + d + k
OBVIOUS

LEMMA SendRequestKeeps ==
  ASSUME MessageInv, ~ Reuses, SendRequest
  PROVE  MessageInv'
<1>1. PICK S, at, place, e : Course(S, at, place, e)
  BY DEF MessageInv
<1>2. PICK m \in Messages : sent' = Append(sent, m) /\ wire' = wire \o Header(m)
                            /\ rest' = m.body
  BY DEF SendRequest
<1>3. /\ ~ c.closed /\ Len(sent) < MaxSent /\ rest = <<>> /\ ~ Expects
      /\ c' = c /\ replies' = replies /\ handled' = handled
  BY DEF SendRequest
<1>4. /\ Kinds /\ Handed /\ LastExpects /\ Laid(S, at) /\ Fed(S, e) /\ Placed(place)
      /\ Holds(c, S, e) /\ Stage(S, at, place, e) /\ c \in Connection /\ e \in Nat
      /\ S \in Seq(Unit) /\ Len(S) \in Nat /\ sent \in Seq(Messages) /\ wire \in Seq(Unit)
  BY <1>1 DEF MessageInv, Kinds, Course, Fed, Laid
<1>5. PICK T : Behind(T, S, m)
  BY <1>4, Laying
<1>6. PICK more :
        more = [i \in 1 .. Len(sent) + 2 |-> IF i = Len(sent) + 2 THEN Len(T) ELSE at[i]]
  OBVIOUS
<1>7. /\ Laid(T, more)'
      /\ \A i \in DOMAIN sent : i \in DOMAIN sent' /\ sent'[i] = sent[i] /\ more[i] = at[i]
  <2>1. sent \in Seq(Messages) /\ Laid(S, at) /\ sent' = Append(sent, m)
    BY <1>2, <1>4
  <2> QED
    BY <2>1, <1>5, <1>6, LaidOn
<1>8. /\ T \in Seq(Unit) /\ Len(T) = Len(S) + (m.lines + 1) + Len(m.body)
      /\ \A x \in 1 .. Len(S) : T[x] = S[x]
      /\ \A k \in 1 .. m.lines + 1 : T[Len(S) + k] = Header(m)[k]
      /\ \A k \in 1 .. Len(m.body) : T[Len(S) + (m.lines + 1) + k] = m.body[k]
  BY <1>5 DEF Behind
<1>9. /\ Header(m) \in Seq(Unit) /\ Len(Header(m)) = m.lines + 1 /\ m.lines \in Nat
      /\ m.body \in Seq(Unit) /\ Len(m.body) \in Nat /\ Len(wire) \in Nat
  BY <1>4, HeaderKinds, MessageKinds
<1>10. /\ wire' \in Seq(Unit) /\ Len(wire') = Len(wire) + (m.lines + 1)
       /\ \A k \in 1 .. Len(wire) : wire'[k] = wire[k]
       /\ \A k \in 1 .. m.lines + 1 : wire'[Len(wire) + k] = Header(m)[k]
  <2>1. wire \in Seq(Unit) /\ Header(m) \in Seq(Unit)
    BY <1>4, <1>9
  <2>2. /\ wire \o Header(m) \in Seq(Unit)
        /\ Len(wire \o Header(m)) = Len(wire) + Len(Header(m))
        /\ \A j \in 1 .. Len(wire) : (wire \o Header(m))[j] = wire[j]
        /\ \A j \in 1 .. Len(Header(m)) : (wire \o Header(m))[Len(wire) + j] = Header(m)[j]
    BY <2>1, JoinedUnits
  <2> QED
    BY <1>2, <1>9, <2>2
<1>11. Kinds'
  <2>1. sent' \in Seq(Messages) /\ Len(sent') = Len(sent) + 1 /\ Len(sent) \in Nat
    BY <1>2, <1>4
  <2>2. Len(sent') <= MaxSent
    BY <1>3, <2>1, MessageAssumption
  <2> QED
    BY <1>2, <1>3, <1>4, <1>9, <1>10, <2>1, <2>2 DEF Kinds
<1>12. e + Len(wire) = Len(S) /\ \A k \in 1 .. Len(wire) : wire[k] = S[e + k]
  BY <1>3, <1>4, <1>9 DEF Fed
<1>13. Fed(T, e)'
  <2>1. Len(T) = e + Len(wire') + Len(rest')
    <3>1. Len(T) = (e + Len(wire)) + (m.lines + 1) + Len(rest')
      BY <1>2, <1>8, <1>12
    <3>2. e \in Nat /\ Len(wire) \in Nat /\ m.lines + 1 \in Nat /\ Len(rest') \in Nat
      BY <1>2, <1>4, <1>9
    <3>3. e + (Len(wire) + (m.lines + 1)) + Len(rest')
            = (e + Len(wire)) + (m.lines + 1) + Len(rest')
      BY <3>2, Regrouped
    <3> QED
      BY <1>10, <3>1, <3>3
  <2>2. ASSUME NEW k \in 1 .. Len(wire') PROVE wire'[k] = T[e + k]
    <3>1. CASE k <= Len(wire)
      <4>1. k \in 1 .. Len(wire) /\ e + k \in 1 .. Len(S)
        BY <1>4, <1>9, <1>12, <3>1
      <4> QED
        BY <1>8, <1>10, <1>12, <4>1
    <3>2. CASE k > Len(wire)
      <4>1. PICK j \in 1 .. m.lines + 1 : k = Len(wire) + j
        <5>1. k - Len(wire) \in 1 .. m.lines + 1 /\ k = Len(wire) + (k - Len(wire))
          BY <1>9, <1>10, <3>2
        <5> QED
          BY <5>1
      <4>2. e + (Len(wire) + j) = Len(S) + j
        <5>1. j \in Nat /\ e \in Nat /\ Len(wire) \in Nat
          BY <1>4, <1>9
        <5>2. e + (Len(wire) + j) = (e + Len(wire)) + j
          BY <5>1, Regrouped
        <5> QED
          BY <1>12, <5>2
      <4>3. wire'[k] = Header(m)[j]
        <5>1. wire'[Len(wire) + j] = Header(m)[j]
          BY <1>10
        <5> QED
          BY <4>1, <5>1
      <4>4. T[e + k] = Header(m)[j]
        BY <1>8, <4>1, <4>2
      <4> QED
        BY <4>3, <4>4
    <3> QED
      BY <1>9, <1>10, <3>1, <3>2
  <2>3. ASSUME NEW k \in 1 .. Len(rest') PROVE rest'[k] = T[e + Len(wire') + k]
    <3>1. e + Len(wire') = Len(S) + (m.lines + 1)
      <4>1. m.lines + 1 \in Nat
        BY <1>9
      <4>2. e + (Len(wire) + (m.lines + 1)) = Len(S) + (m.lines + 1)
        <5>1. e \in Nat /\ Len(wire) \in Nat
          BY <1>4, <1>9
        <5>2. e + (Len(wire) + (m.lines + 1)) = (e + Len(wire)) + (m.lines + 1)
          BY <4>1, <5>1, Regrouped
        <5> QED
          BY <1>12, <5>2
      <4> QED
        BY <1>10, <4>2
    <3> QED
      BY <1>2, <1>8, <3>1
  <2> QED
    BY <1>4, <2>1, <2>2, <2>3 DEF Fed
<1>14. Holds(c, T, e)'
  <2>1. ASSUME NEW k \in 1 .. Len(c.inbound) PROVE c.inbound[k] = T[Read(c, e) + k]
    <3>1. c.inbound \in Seq(Unit)
      BY <1>4 DEF Connection
    <3>2. Len(c.inbound) \in Nat /\ e <= Len(S)
      BY <1>4, <1>9, <1>12, <3>1
    <3>3. Read(c, e) + k \in 1 .. Len(S)
      BY <1>4, <3>2 DEF Holds, Read
    <3> QED
      BY <1>4, <1>8, <3>3 DEF Holds
  <2> QED
    BY <1>3, <1>4, <2>1 DEF Holds, Read
<1>15. Placed(place)' /\ Handed' /\ \A h \in DOMAIN handled : more[place[h]] = at[place[h]]
  <2>1. \A h \in DOMAIN handled : place[h] \in DOMAIN sent
    BY <1>4 DEF Placed
  <2>2. place \in [DOMAIN handled -> DOMAIN sent']
    BY <1>4, <1>7 DEF Placed
  <2>3. Placed(place)'
    BY <1>3, <1>4, <1>7, <2>1, <2>2 DEF Placed
  <2>4. Handed'
    BY <1>3, <1>4 DEF Handed
  <2> QED
    BY <1>7, <2>1, <2>3, <2>4
<1>16. \A x : Passed(place, at, x) => Passed(place, more, x)'
  BY <1>3, <1>15 DEF Passed
<1>17. \A i : Untouched(place, i) => Untouched(place, i)'
  BY <1>3 DEF Untouched
<1>18. ASSUME NEW s, NEW i \in DOMAIN sent, InBody(s, i, at, e)
       PROVE  InBody(s, i, more, e)'
  BY <1>7, <1>18 DEF InBody, BodyAt
<1>19. Stage(T, more, place, e)'
  <2>1. CASE Waiting(S, at, place, e)
    <3>1. Passed(place, more, Read(c, e))'
      BY <1>3, <1>16, <2>1 DEF Waiting, AtHeader, Read
    <3> QED
      BY <1>3, <2>1, <3>1 DEF Waiting, AtHeader, Stage
  <2>2. CASE Receiving(S, at, place, e)
    <3>1. PICK i \in DOMAIN sent : Untouched(place, i) /\ InBody(c, i, at, e)
      BY <2>2 DEF Receiving
    <3>2. PICK s : s = c
      OBVIOUS
    <3>3. InBody(s, i, more, e)'
      BY <1>18, <3>1, <3>2
    <3>4. InBody(c, i, more, e)'
      BY <1>3, <3>2, <3>3 DEF InBody, BodyAt
    <3> QED
      BY <1>3, <1>7, <1>17, <2>2, <3>1, <3>4 DEF Receiving, Stage
  <2>3. CASE Continuing(S, at, place, e)
    <3>1. PICK i \in DOMAIN sent : Untouched(place, i) /\ AtEnd(c, i, S, at, e)
      BY <2>3 DEF Continuing
    <3>2. Parsed(sent[i]).expect
      BY <2>3, <3>1 DEF Continuing, WantsContinue, AtEnd
    <3> QED
      BY <1>3, <1>4, <3>2, ExpectsAtEnd
  <2>4. CASE Answering(S, at, place, e)
    <3>1. ~ (c.req.post /\ c.req.expect) /\ Passed(place, more, e)'
      BY <1>3, <1>16, <2>4 DEF Answering
    <3> QED
      BY <1>3, <2>4, <3>1 DEF Answering, Stage
  <2>5. CASE Refusing(S, at, place, e)
    <3>1. Passed(place, more, e)'
      BY <1>16, <2>5 DEF Refusing
    <3> QED
      BY <1>3, <2>5, <3>1 DEF Refusing, Stage
  <2>6. ~ Spent(S, e)
    BY <1>3 DEF Spent
  <2> QED
    BY <1>3, <1>4, <2>1, <2>2, <2>3, <2>4, <2>5, <2>6 DEF Stage
<1>20. LastExpects'
  <2> SUFFICES ASSUME NEW i \in DOMAIN sent', Asks100(sent'[i]) PROVE i = Len(sent')
    BY DEF LastExpects
  <2>1. /\ Len(sent) \in Nat /\ DOMAIN sent' = 1 .. Len(sent) + 1
        /\ Len(sent') = Len(sent) + 1 /\ DOMAIN sent = 1 .. Len(sent)
    BY <1>2, <1>4
  <2>2. i \notin DOMAIN sent
    <3> SUFFICES ASSUME i \in DOMAIN sent PROVE FALSE
      OBVIOUS
    <3>1. Asks100(sent[i])
      BY <1>7
    <3> QED
      BY <1>3, <1>4, <3>1 DEF LastExpects, Expects
  <2> QED
    BY <2>1, <2>2
<1>21. Course(T, more, place, e)'
  BY <1>7, <1>13, <1>14, <1>15, <1>19 DEF Course
<1> QED
  BY <1>11, <1>15, <1>20, <1>21 DEF MessageInv

LEMMA SendBodyKeeps ==
  ASSUME MessageInv, SendBody
  PROVE  MessageInv'
<1>1. PICK S, at, place, e : Course(S, at, place, e)
  BY DEF MessageInv
<1>2. /\ wire' = wire \o rest /\ rest' = <<>> /\ sent' = sent /\ c' = c
      /\ replies' = replies /\ handled' = handled
  BY DEF SendBody
<1>3. /\ Kinds /\ Handed /\ LastExpects /\ Laid(S, at) /\ Fed(S, e) /\ Placed(place)
      /\ Holds(c, S, e) /\ Stage(S, at, place, e) /\ e \in Nat
      /\ wire \in Seq(Unit) /\ rest \in Seq(Unit) /\ Len(wire) \in Nat /\ Len(rest) \in Nat
  BY <1>1 DEF MessageInv, Kinds, Course, Fed
<1>4. /\ wire' \in Seq(Unit) /\ Len(wire') = Len(wire) + Len(rest)
      /\ \A k \in 1 .. Len(wire) : wire'[k] = wire[k]
      /\ \A k \in 1 .. Len(rest) : wire'[Len(wire) + k] = rest[k]
  BY <1>2, <1>3, JoinedUnits
<1>5. rest' \in Seq(Unit) /\ Len(rest') = 0
  BY <1>2
<1>6. Fed(S, e)'
  <2>1. Len(S) = e + Len(wire') + Len(rest')
    BY <1>3, <1>4, <1>5 DEF Fed
  <2>2. ASSUME NEW k \in 1 .. Len(wire') PROVE wire'[k] = S[e + k]
    <3>1. CASE k <= Len(wire)
      <4>1. k \in 1 .. Len(wire)
        BY <1>3, <3>1
      <4> QED
        BY <1>3, <1>4, <4>1 DEF Fed
    <3>2. CASE k > Len(wire)
      <4>1. PICK j \in 1 .. Len(rest) : k = Len(wire) + j
        <5>1. k - Len(wire) \in 1 .. Len(rest) /\ k = Len(wire) + (k - Len(wire))
          BY <1>3, <1>4, <3>2
        <5> QED
          BY <5>1
      <4>2. wire'[k] = rest[j]
        BY <1>4, <4>1
      <4>3. rest[j] = S[e + Len(wire) + j]
        BY <1>3 DEF Fed
      <4>4. e + Len(wire) + j = e + (Len(wire) + j)
        BY <1>3, Regrouped
      <4> QED
        BY <4>1, <4>2, <4>3, <4>4
    <3>3. k \in Nat
      OBVIOUS
    <3> QED
      BY <1>3, <3>1, <3>2, <3>3
  <2>3. ASSUME NEW k \in 1 .. Len(rest') PROVE FALSE
    BY <1>5
  <2> QED
    BY <1>3, <2>1, <2>2, <2>3 DEF Fed
<1>7. Kinds'
  BY <1>2, <1>3, <1>4, <1>5 DEF Kinds
<1>8. /\ Laid(S, at)' /\ LastExpects' /\ Handed' /\ Placed(place)'
      /\ \A x : Passed(place, at, x) => Passed(place, at, x)'
      /\ \A i : Untouched(place, i) => Untouched(place, i)'
      /\ Expects <=> Expects'
  BY <1>2, <1>3, SameSent, SameHandled
<1>9. Holds(c, S, e)' /\ Stage(S, at, place, e)'
  BY <1>2, <1>3, <1>8, SameStage
<1> QED
  BY <1>6, <1>7, <1>8, <1>9 DEF MessageInv, Course

LEMMA StutterKeeps ==
  ASSUME MessageInv, UNCHANGED vars
  PROVE  MessageInv'
<1>1. PICK S, at, place, e : Course(S, at, place, e)
  BY DEF MessageInv
<1>2. /\ wire' = wire /\ rest' = rest /\ sent' = sent /\ c' = c
      /\ replies' = replies /\ handled' = handled
  BY DEF vars
<1>3. /\ Kinds /\ Handed /\ LastExpects /\ Laid(S, at) /\ Fed(S, e) /\ Placed(place)
      /\ Holds(c, S, e) /\ Stage(S, at, place, e)
  BY <1>1 DEF MessageInv, Course
<1>4. Kinds' /\ Fed(S, e)'
  BY <1>2, <1>3 DEF Kinds, Fed
<1>5. Laid(S, at)' /\ LastExpects' /\ Handed' /\ Placed(place)'
  BY <1>2, <1>3, SameSent, SameHandled
<1>6. Holds(c, S, e)' /\ Stage(S, at, place, e)'
  BY <1>2, <1>3, SameStage
<1> QED
  BY <1>4, <1>5, <1>6 DEF MessageInv, Course

LEMMA InitStarts ==
  ASSUME Init
  PROVE  MessageInv
<1>1. /\ c = NewConnection /\ wire = <<>> /\ rest = <<>> /\ sent = <<>> /\ replies = <<>>
      /\ handled = <<>>
  BY DEF Init
<1>2. Len(<<>>) = 0 /\ \A X : <<>> \in Seq(X)
  OBVIOUS
<1>3. /\ c \in Connection /\ c.state = "HEADER" /\ c.events = "in" /\ c.inbound = <<>>
      /\ c.body = <<>> /\ c.total = 0 /\ c.left = 0 /\ c.req = NoRequest
  BY <1>1, <1>2 DEF NewConnection, Connection
<1>4. Kinds
  BY <1>1, <1>2, <1>3, MessageAssumption DEF Kinds
<1>5. Handed /\ LastExpects
  BY <1>1 DEF Handed, LastExpects
<1>6. PICK S, at : S = <<>> /\ at = [i \in 1 .. 1 |-> 0]
  OBVIOUS
<1>7. Laid(S, at)
  <2>1. Len(sent) + 1 = 1 /\ DOMAIN sent = {} /\ Len(S) = 0
    BY <1>1, <1>2, <1>6
  <2>2. /\ S \in Seq(Unit) /\ at \in [1 .. 1 -> Nat] /\ at[1] = 0
        /\ \A i, j \in 1 .. 1 : ~ (i < j)
    BY <1>2, <1>6
  <2> QED
    BY <2>1, <2>2 DEF Laid
<1>8. Fed(S, 0) /\ Holds(c, S, 0) /\ Read(c, 0) = 0
  <2>1. Len(S) = 0 /\ Len(wire) = 0 /\ Len(rest) = 0 /\ Len(c.inbound) = 0
    BY <1>1, <1>2, <1>3, <1>6
  <2>2. Fed(S, 0)
    BY <2>1 DEF Fed
  <2>3. Read(c, 0) = 0
    BY <2>1 DEF Read
  <2> QED
    BY <2>1, <2>2, <2>3 DEF Holds
<1>9. PICK place : place = [h \in {} |-> 0]
  OBVIOUS
<1>10. DOMAIN handled = {}
  BY <1>1
<1>11. Placed(place) /\ Passed(place, at, Read(c, 0))
  BY <1>9, <1>10 DEF Placed, Passed
<1>12. Waiting(S, at, place, 0)
  BY <1>2, <1>3, <1>11, MessageAssumption DEF Waiting, AtHeader
<1> QED
  BY <1>4, <1>5, <1>7, <1>8, <1>11, <1>12 DEF MessageInv, Course, Stage

-----------------------------------------------------------------------------
(***************************************************************************)
(* What the invariant implies.                                             *)
(***************************************************************************)
LEMMA InvKept ==
  ASSUME MessageInv, ~ Reuses, [Next]_vars
  PROVE  MessageInv'
<1>1. CASE Pollin
  BY <1>1, PollinKeeps
<1>2. CASE Complete
  BY <1>2, CompleteKeeps
<1>3. CASE Pollout
  BY <1>3, PolloutKeeps
<1>4. CASE SendRequest
  BY <1>4, SendRequestKeeps
<1>5. CASE SendBody
  BY <1>5, SendBodyKeeps
<1>6. CASE Quiet
  BY <1>6, StutterKeeps DEF Quiet
<1>7. CASE UNCHANGED vars
  BY <1>7, StutterKeeps
<1> QED
  BY <1>1, <1>2, <1>3, <1>4, <1>5, <1>6, <1>7 DEF Next

LEMMA InvImplies ==
  ASSUME MessageInv
  PROVE  TypeOK /\ BodyIntact /\ LimitsHold /\ HandledOnce
<1>1. PICK S, at, place, e : Course(S, at, place, e)
  BY DEF MessageInv
<1>2. /\ Kinds /\ Handed /\ Placed(place) /\ Stage(S, at, place, e)
      /\ c \in Connection /\ sent \in Seq(Messages)
      /\ handled \in Seq(Requests) /\ Len(sent) <= MaxSent
  BY <1>1 DEF MessageInv, Course, Kinds, Requests
<1>3. Len(handled) <= MaxSent
  <2>1. /\ Len(handled) \in Nat /\ DOMAIN handled = 1 .. Len(handled) /\ Len(sent) \in Nat
        /\ DOMAIN sent = 1 .. Len(sent) /\ MaxSent \in Nat
    BY <1>2, MessageAssumption
  <2>2. CASE Len(handled) = 0
    BY <2>1, <2>2
  <2>3. CASE Len(handled) # 0
    <3>1. Len(handled) \in DOMAIN handled
      BY <2>1, <2>3
    <3>2. Len(handled) <= place[Len(handled)] /\ place[Len(handled)] \in DOMAIN sent
      BY <1>2, <3>1 DEF Placed
    <3> QED
      BY <1>2, <2>1, <3>2
  <2> QED
    BY <2>2, <2>3
<1>4. TypeOK
  BY <1>2, <1>3 DEF Kinds, Connection, TypeOK
<1>5. BodyIntact
  BY <1>2 DEF Handed, BodyIntact
<1>6. LimitsHold
  <2>1. c.state = "HEADER" => Len(c.inbound) <= MaxHeader
    BY <1>2 DEF Stage, Waiting, Receiving, Continuing, Answering, Refusing, Spent
  <2> QED
    BY <1>2, <2>1 DEF Handed, LimitsHold
<1>7. HandledOnce
  BY <1>2 DEF Placed, HandledOnce
<1> QED
  BY <1>4, <1>5, <1>6, <1>7

\* The invariant of every behaviour of a peer that does not use the connection
\* again after a request that expects 100-continue.
THEOREM InvHolds == ~ Reuses => (Spec => []MessageInv)
<1> SUFFICES ASSUME ~ Reuses PROVE Spec => []MessageInv
  OBVIOUS
<1>1. Init => MessageInv
  BY InitStarts
<1>2. MessageInv /\ [Next]_vars => MessageInv'
  BY InvKept
<1> QED
  BY <1>1, <1>2, PTL DEF Spec

\* The counters of ClientFD never fall below zero, whatever recv() returns:
\* _left is a size that was announced, never less what is buffered.
THEOREM ConnectionIsTyped == ~ Reuses => (Spec => []TypeOK)
BY InvHolds, InvImplies, PTL

\* What a POST request is handed is the entity its peer sent, with its length
\* announced or in chunks, for any cuts recv() makes (receiveLength, receiveChunked).
THEOREM BodiesAreIntact == ~ Reuses => (Spec => []BodyIntact)
BY InvHolds, InvImplies, PTL

\* No body above client_max_body_size is handed on, and no more of a header than
\* MAX_HEADER_SIZE is kept (receiveHeader, receiveLength, receiveChunked).
THEOREM LimitsAreKept == ~ Reuses => (Spec => []LimitsHold)
BY InvHolds, InvImplies, PTL

\* A request is handed on at most once and in the order of arrival, although
\* pollout keeps _request for the body after a 100-continue.
THEOREM RequestsComeOnce == ~ Reuses => (Spec => []HandledOnce)
BY InvHolds, InvImplies, PTL

=============================================================================
