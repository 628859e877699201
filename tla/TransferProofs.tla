--------------------------- MODULE TransferProofs ---------------------------
(***************************************************************************)
(* For every file, body and size of the buffer: what FileFD and ClientFD   *)
(* hand over is whole.  The counters are the heart of the argument: what   *)
(* has been moved so far is the piece of the source that _total measures.  *)
(***************************************************************************)
EXTENDS Transfer, SequenceTheorems, WellFoundedInduction, TLAPS

-----------------------------------------------------------------------------
(***************************************************************************)
(* Pieces of sequences.                                                    *)
(***************************************************************************)

\* A piece moved after the first a elements makes the first a + k elements.
LEMMA PieceJoins ==
  ASSUME NEW S, NEW s \in Seq(S), NEW a \in Nat, NEW k \in Nat, a + k <= Len(s)
  PROVE  Piece(s, 0, a) \o Piece(s, a, k) = Piece(s, 0, a + k)
<1>1. Len(s) \in Nat
  BY LenProperties
<1>2. 1 \in 1 .. Len(s) + 1 /\ a \in 1 - 1 .. Len(s) /\ a + k \in a .. Len(s)
  BY <1>1
<1>3. SubSeq(s, 1, a) \o SubSeq(s, a + 1, a + k) = SubSeq(s, 1, a + k)
  BY <1>2, ConcatAdjacentSubSeq
<1>4. 0 + 1 = 1 /\ 0 + a = a /\ 0 + (a + k) = a + k
  OBVIOUS
<1>5. QED
  BY <1>3, <1>4 DEF Piece

\* All of a sequence, and none of it.
LEMMA PieceWhole ==
  ASSUME NEW S, NEW s \in Seq(S)
  PROVE  Piece(s, 0, Len(s)) = s /\ Piece(s, 0, 0) = <<>>
<1>1. Len(s) \in Nat /\ 0 + 1 = 1 /\ 0 + Len(s) = Len(s) /\ 0 + 0 = 0
  BY LenProperties
<1>2. SubSeq(s, 1, Len(s)) = s
  BY SubSeqFull
<1>3. SubSeq(s, 1, 0) = <<>>
  BY SubSeqEmpty
<1>4. QED
  BY <1>1, <1>2, <1>3 DEF Piece

\* A piece within the bounds is a sequence over the same set.
LEMMA PieceShape ==
  ASSUME NEW S, NEW s \in Seq(S), NEW a \in Nat, NEW k \in Nat, a + k <= Len(s)
  PROVE  Piece(s, a, k) \in Seq(S)
<1>1. Len(s) \in Nat /\ a + 1 \in Int /\ a + k \in Int
  BY LenProperties
<1>2. \A i \in a + 1 .. a + k : s[i] \in S
  BY <1>1, ElementOfSeq
<1>3. QED
  BY <1>1, <1>2, SubSeqProperties DEF Piece

\* A head and a body make one more unit than the body.
LEMMA ReplyShape ==
  ASSUME NEW head \in Heads, NEW body \in Seq(Bytes)
  PROVE  /\ <<head>> \o body \in Seq(Units)
         /\ Len(<<head>> \o body) = Len(body) + 1
         /\ <<head>> \o body # <<>>
<1>1. <<head>> \in Seq(Units) /\ Len(<<head>>) = 1
  BY DEF Units
<1>2. body \in Seq(Units) /\ Len(body) \in Nat
  BY SeqMonotonic, LenProperties DEF Units
<1>3. <<head>> \o body \in Seq(Units) /\ Len(<<head>> \o body) = 1 + Len(body)
  BY <1>1, <1>2, ConcatProperties
<1>4. <<head>> \o body # <<>>
  BY <1>2, <1>3, EmptySeq
<1>5. QED
  BY <1>2, <1>3, <1>4

-----------------------------------------------------------------------------
(***************************************************************************)
(* The inductive invariant.                                                *)
(***************************************************************************)

\* How far the file has been read, or the body written.
Progress ==
  /\ kind # "CGI" => unwritten = <<>>
  /\ kind = "GET" =>
       /\ disk = content /\ worker.total <= Len(content)
       /\ worker.data = Piece(content, 0, worker.total)
  /\ kind = "POST" =>
       /\ worker.data = content /\ worker.total + worker.left = Len(content)
       /\ disk = Piece(content, 0, worker.total)

\* Which reply is being sent, and that an answered peer has all of it.
Answer ==
  /\ conn.events # "hold" <=> conn.outbound # <<>>
  /\ conn.events = "in" => conn.left = 0
  /\ conn.outbound # <<>> /\ kind = "GET" =>
       conn.outbound = <<"200">> \o content \/ conn.outbound = <<"500">>
  /\ conn.outbound # <<>> /\ kind = "POST" =>
       (conn.outbound = <<"201">> /\ disk = content) \/ conn.outbound = <<"500">>

TInv == TypeOK /\ OneReply /\ Progress /\ Answer

\* Of some positions there is a first one.
LEMMA FirstOfSome ==
  ASSUME NEW T \in SUBSET Nat, T # {}
  PROVE  \E i \in T : \A j \in T : i <= j
<1>1. PICK i \in T : \A j \in T : <<j, i>> \notin OpToRel(<, Nat)
  BY WFMin, NatLessThanWellFounded, Zenon
<1>2. \A j \in T : ~(j < i)
  BY <1>1, Zenon DEF OpToRel
<1>3. \A j \in T : i <= j
  BY <1>2
<1>4. QED
  BY <1>3

\* The body of a reply is made of the same bytes, and is all of a file.
LEMMA BodyShape ==
  ASSUME NEW data \in Seq(Bytes)
  PROVE  Body(data) \in Seq(Bytes) /\ (kind # "CGI" => Body(data) = data)
<1> DEFINE ends == {i \in DOMAIN data : data[i] = Blank}
           e    == CHOOSE i \in ends : \A j \in ends : i <= j
<1>1. CASE kind # "CGI" \/ ends = {}
  BY <1>1 DEF Body, CgiBody
<1>2. CASE kind = "CGI" /\ ends # {}
  <2>1. ends \subseteq 1 .. Len(data) /\ Len(data) \in Nat
    BY LenProperties
  <2>2. \E i \in ends : \A j \in ends : i <= j
    <3>1. ends \in SUBSET Nat /\ ends # {}
      BY <1>2, <2>1
    <3>2. QED
      BY <3>1, FirstOfSome
  <2>3. e \in 1 .. Len(data)
    BY <2>1, <2>2
  <2>4. \A i \in e + 1 .. Len(data) : data[i] \in Bytes
    BY <2>1, <2>3, ElementOfSeq
  <2>5. SubSeq(data, e + 1, Len(data)) \in Seq(Bytes)
    BY <2>1, <2>3, <2>4, SubSeqProperties
  <2>6. Body(data) = SubSeq(data, e + 1, Len(data))
    BY <1>2 DEF Body, CgiBody
  <2>7. QED
    BY <1>2, <2>5, <2>6
<1>3. QED
  BY <1>1, <1>2

LEMMA InitHolds == Init => TInv
<1> SUFFICES ASSUME Init PROVE TInv
  OBVIOUS
<1>1. content \in Seq(Bytes) /\ kind \in {"GET", "POST", "CGI"}
  BY TransferAssumption DEF Init
<1>2. Len(content) \in Nat /\ <<>> \in Seq(Bytes) /\ <<>> \in Seq(Units) /\ Len(<<>>) = 0
  BY <1>1, LenProperties, EmptySeq
<1>3. Piece(content, 0, 0) = <<>> /\ Piece(<<>>, 0, 0) = <<>>
  BY <1>1, <1>2, PieceWhole
<1>4. TypeOK
  BY <1>1, <1>2 DEF Init, TypeOK
<1>5. OneReply
  BY <1>2, <1>3 DEF Init, OneReply
<1>6. Progress
  <2>1. kind # "CGI" => unwritten = <<>>
    BY DEF Init
  <2>2. kind = "GET" => /\ disk = content /\ worker.total <= Len(content)
                        /\ worker.data = Piece(content, 0, worker.total)
    BY <1>2, <1>3 DEF Init
  <2>3. kind = "POST" => /\ worker.data = content /\ worker.total + worker.left = Len(content)
                         /\ disk = Piece(content, 0, worker.total)
    BY <1>2, <1>3 DEF Init
  <2>4. QED
    BY <2>1, <2>2, <2>3 DEF Progress
<1>7. Answer
  BY DEF Init, Answer
<1>8. QED
  BY <1>4, <1>5, <1>6, <1>7 DEF TInv

\* What setupResponse does to the parts of the invariant that concern the
\* connection: nothing of the new reply has been sent.
LEMMA RespondShape ==
  ASSUME TypeOK, OneReply, ~worker.closed,
         NEW head \in Heads, NEW body \in Seq(Bytes), Respond(head, body)
  PROVE  /\ conn' \in [outbound : Seq(Units), total : Nat, left : Nat,
                       events : {"hold", "out", "in"}, closed : BOOLEAN]
         /\ conn'.outbound = <<head>> \o body /\ conn'.outbound # <<>>
         /\ conn'.events = "out" /\ conn'.total = 0
         /\ conn'.total + conn'.left = Len(conn'.outbound)
         /\ received = Piece(conn'.outbound, 0, conn'.total)
<1> DEFINE out  == <<head>> \o body
           size == Len(body) + 1
<1>1. out \in Seq(Units) /\ Len(out) = size /\ out # <<>> /\ size \in Nat
  BY ReplyShape, LenProperties
<1>2. conn' = [conn EXCEPT !.outbound = out, !.total = 0, !.left = size, !.events = "out"]
  BY DEF Respond
<1> HIDE DEF out, size
<1>3. conn \in [outbound : Seq(Units), total : Nat, left : Nat,
                events : {"hold", "out", "in"}, closed : BOOLEAN]
  BY DEF TypeOK
<1>4. conn.outbound = <<>>
  BY DEF OneReply
<1>5. conn.total = 0
  <2>1. Len(conn.outbound) = 0
    BY <1>4
  <2>2. conn.total + conn.left = 0 /\ conn.total \in Nat /\ conn.left \in Nat
    BY <2>1, <1>3 DEF OneReply
  <2>3. QED
    BY <2>2
<1>6. received = <<>>
  BY <1>3, <1>4, <1>5, PieceWhole DEF OneReply
<1>7. Piece(out, 0, 0) = <<>>
  BY <1>1, PieceWhole
<1>8. /\ conn' \in [outbound : Seq(Units), total : Nat, left : Nat,
                    events : {"hold", "out", "in"}, closed : BOOLEAN]
      /\ conn'.outbound = out /\ conn'.events = "out"
      /\ conn'.total = 0 /\ conn'.left = size
  BY <1>1, <1>2, <1>3
<1>9. conn'.total + conn'.left = Len(conn'.outbound)
  BY <1>1, <1>8
<1>10. QED
  BY <1>1, <1>6, <1>7, <1>8, <1>9 DEF out

LEMMA ReadsStep ==
  ASSUME TInv, Reads
  PROVE  TInv'
<1> USE DEF TInv
<1>1. PICK k \in 1 .. BufferSize :
        /\ k <= Len(disk) - worker.total
        /\ worker' = [worker EXCEPT !.data = worker.data \o Piece(disk, worker.total, k),
                                    !.total = worker.total + k]
  BY DEF Reads
<1>2. kind # "POST" /\ UNCHANGED <<kind, content, disk, unwritten, conn, received>>
  BY DEF Reads
<1>3. /\ k \in Nat /\ worker.total \in Nat /\ disk \in Seq(Bytes) /\ Len(disk) \in Nat
      /\ worker.total + k <= Len(disk) /\ worker.data \in Seq(Bytes)
  BY <1>1, TransferAssumption, LenProperties DEF TypeOK
<1> DEFINE piece == Piece(disk, worker.total, k)
<1>4. piece \in Seq(Bytes)
  BY <1>3, PieceShape
<1>5. worker.data \o piece \in Seq(Bytes)
  BY <1>3, <1>4, ConcatProperties
<1>6. kind = "GET" => worker.data \o piece = Piece(content, 0, worker.total + k)
  BY <1>3, PieceJoins DEF Progress
<1> DEFINE longer  == worker.data \o piece
           further == worker.total + k
<1>7. worker' = [worker EXCEPT !.data = longer, !.total = further]
  BY <1>1
<1> HIDE DEF piece, longer
<1>8. worker \in [data : Seq(Bytes), total : Nat, left : Nat, closed : BOOLEAN]
  BY DEF TypeOK
<1>9. longer \in Seq(Bytes) /\ further \in Nat
  BY <1>3, <1>5 DEF longer
<1> HIDE DEF further
<1>10. /\ worker' \in [data : Seq(Bytes), total : Nat, left : Nat, closed : BOOLEAN]
       /\ worker'.closed = worker.closed
       /\ worker'.data = longer /\ worker'.total = further
  BY <1>7, <1>8, <1>9
<1>11. TypeOK'
  BY <1>2, <1>10 DEF TypeOK
<1>12. OneReply'
  BY <1>2, <1>10 DEF OneReply, Piece
<1>13. Progress'
  <2>1. (kind = "GET" => /\ disk = content /\ worker.total <= Len(content)
                         /\ worker.data = Piece(content, 0, worker.total))'
    <3>1. kind = "GET" => disk = content
      BY DEF Progress
    <3>2. kind = "GET" => further <= Len(content)
      BY <1>3, <3>1 DEF further
    <3>3. kind = "GET" => longer = Piece(content, 0, further)
      BY <1>6 DEF longer, further
    <3>4. QED
      BY <1>2, <1>10, <3>1, <3>2, <3>3 DEF Piece
  <2>2. QED
    BY <1>2, <2>1 DEF Progress
<1>14. Answer'
  BY <1>2 DEF Answer
<1>15. QED
  BY <1>11, <1>12, <1>13, <1>14

LEMMA ReadEndsStep ==
  ASSUME TInv, ReadEnds
  PROVE  TInv'
<1> USE DEF TInv
<1>1. /\ kind # "POST" /\ ~worker.closed /\ worker.total = Len(disk)
      /\ Respond("200", Body(worker.data)) /\ worker' = [worker EXCEPT !.closed = TRUE]
      /\ UNCHANGED <<kind, content, disk, unwritten, received>>
  BY DEF ReadEnds
<1>2. worker.data \in Seq(Bytes) /\ "200" \in Heads /\ disk \in Seq(Bytes)
  BY DEF TypeOK, Heads
<1> DEFINE body == Body(worker.data)
<1>20. body \in Seq(Bytes) /\ (kind # "CGI" => body = worker.data)
  BY <1>2, BodyShape
<1> HIDE DEF body
<1>3. /\ conn' \in [outbound : Seq(Units), total : Nat, left : Nat,
                    events : {"hold", "out", "in"}, closed : BOOLEAN]
      /\ conn'.outbound = <<"200">> \o body /\ conn'.outbound # <<>>
      /\ conn'.events = "out" /\ conn'.total = 0
      /\ conn'.total + conn'.left = Len(conn'.outbound)
      /\ received = Piece(conn'.outbound, 0, conn'.total)
  BY <1>1, <1>2, <1>20, RespondShape DEF body
<1>4. worker \in [data : Seq(Bytes), total : Nat, left : Nat, closed : BOOLEAN]
  BY DEF TypeOK
<1>5. /\ worker' \in [data : Seq(Bytes), total : Nat, left : Nat, closed : BOOLEAN]
      /\ worker'.closed /\ worker'.data = worker.data /\ worker'.total = worker.total
  BY <1>1, <1>4
<1>6. TypeOK'
  BY <1>1, <1>3, <1>5 DEF TypeOK
<1>7. OneReply'
  BY <1>1, <1>3, <1>5 DEF OneReply, Piece
<1>8. Progress'
  BY <1>1, <1>5 DEF Progress, Piece
<1>9. kind = "GET" => worker.data = content
  <2>1. kind = "GET" => disk = content /\ worker.data = Piece(content, 0, Len(content))
    BY <1>1 DEF Progress
  <2>2. kind = "GET" => Piece(content, 0, Len(content)) = content
    BY <1>2, <2>1, PieceWhole
  <2>3. QED
    BY <2>1, <2>2
<1>10. Answer'
  BY <1>1, <1>3, <1>9, <1>20 DEF Answer
<1>11. QED
  BY <1>6, <1>7, <1>8, <1>10

LEMMA WritesStep ==
  ASSUME TInv, Writes
  PROVE  TInv'
<1> USE DEF TInv
<1>1. PICK k \in 0 .. Size(worker.left) :
        /\ disk' = disk \o Piece(worker.data, worker.total, k)
        /\ worker' = [worker EXCEPT !.total = worker.total + k, !.left = worker.left - k,
                                    !.closed = worker.left = k]
        /\ IF worker.left = k THEN Respond("201", <<>>) ELSE UNCHANGED conn
  BY DEF Writes
<1>2. kind = "POST" /\ ~worker.closed /\ UNCHANGED <<kind, content, unwritten, received>>
  BY DEF Writes
<1>3. /\ content \in Seq(Bytes) /\ Len(content) \in Nat
      /\ worker.data = content /\ worker.total + worker.left = Len(content)
      /\ disk = Piece(content, 0, worker.total)
      /\ worker.total \in Nat /\ worker.left \in Nat
  BY <1>2, TransferAssumption, LenProperties DEF TypeOK, Progress
<1>4. k \in Nat /\ k <= worker.left /\ worker.total + k <= Len(content)
  BY <1>3, TransferAssumption DEF Size
<1> DEFINE further == worker.total + k
           less    == worker.left - k
           stored  == Piece(content, 0, further)
           last    == (worker.left = k)
<1>5. /\ further \in Nat /\ less \in Nat /\ further + less = Len(content)
      /\ last <=> less = 0
  BY <1>3, <1>4
<1>6. disk' = stored /\ stored \in Seq(Bytes)
  <2>1. Piece(content, 0, worker.total) \o Piece(content, worker.total, k) = stored
    BY <1>3, <1>4, PieceJoins
  <2>2. 0 + further <= Len(content)
    BY <1>3, <1>4
  <2>3. stored \in Seq(Bytes)
    BY <1>3, <1>5, <2>2, PieceShape
  <2>4. QED
    BY <1>1, <1>3, <2>1, <2>3
<1>7. worker' = [worker EXCEPT !.total = further, !.left = less, !.closed = last]
  BY <1>1
<1>8. last \in BOOLEAN
  OBVIOUS
<1>9. last => stored = content
  BY <1>3, <1>5, PieceWhole
<1>10. worker \in [data : Seq(Bytes), total : Nat, left : Nat, closed : BOOLEAN]
  BY DEF TypeOK
<1>11. last => Respond("201", <<>>)
  BY <1>1
<1>12. ~last => UNCHANGED conn
  BY <1>1
<1> HIDE DEF further, less, stored, last
<1>13. /\ worker' \in [data : Seq(Bytes), total : Nat, left : Nat, closed : BOOLEAN]
       /\ worker'.data = worker.data /\ worker'.total = further /\ worker'.left = less
       /\ worker'.closed = last
  BY <1>5, <1>7, <1>8, <1>10
<1>14. Progress'
  <2>1. (kind = "POST" => /\ worker.data = content /\ worker.total + worker.left = Len(content)
                          /\ disk = Piece(content, 0, worker.total))'
    BY <1>2, <1>3, <1>5, <1>6, <1>13 DEF stored, Piece
  <2>2. kind' = "POST" /\ unwritten' = <<>>
    BY <1>2 DEF Progress
  <2>3. QED
    BY <2>1, <2>2 DEF Progress
<1>15. CASE last
  <2>1. "201" \in Heads /\ <<>> \in Seq(Bytes)
    BY EmptySeq DEF Heads
  <2>2. Respond("201", <<>>)
    BY <1>11, <1>15
  <2>3. /\ conn' \in [outbound : Seq(Units), total : Nat, left : Nat,
                      events : {"hold", "out", "in"}, closed : BOOLEAN]
        /\ conn'.outbound = <<"201">> \o <<>> /\ conn'.outbound # <<>>
        /\ conn'.events = "out" /\ conn'.total = 0
        /\ conn'.total + conn'.left = Len(conn'.outbound)
        /\ received = Piece(conn'.outbound, 0, conn'.total)
    BY <1>2, <2>1, <2>2, RespondShape
  <2>4. <<"201">> \o <<>> = <<"201">>
    BY <2>1
  <2>5. TypeOK'
    BY <1>2, <1>6, <1>13, <2>3 DEF TypeOK
  <2>6. OneReply'
    BY <1>2, <1>13, <1>15, <2>3 DEF OneReply, Piece
  <2>7. Answer'
    BY <1>2, <1>6, <1>9, <1>15, <2>3, <2>4 DEF Answer
  <2>8. QED
    BY <1>14, <2>5, <2>6, <2>7
<1>16. CASE ~last
  <2>1. UNCHANGED conn
    BY <1>12, <1>16
  <2>2. TypeOK'
    BY <1>2, <1>6, <1>13, <2>1 DEF TypeOK
  <2>3. OneReply'
    BY <1>2, <1>13, <1>16, <2>1 DEF OneReply, Piece
  <2>4. Answer'
    BY <1>2, <2>1 DEF Answer, OneReply
  <2>5. QED
    BY <1>14, <2>2, <2>3, <2>4
<1>17. QED
  BY <1>15, <1>16

LEMMA IoFailsStep ==
  ASSUME TInv, IoFails
  PROVE  TInv'
<1> USE DEF TInv
<1>1. /\ ~worker.closed /\ Respond("500", <<>>) /\ worker' = [worker EXCEPT !.closed = TRUE]
      /\ UNCHANGED <<kind, content, disk, unwritten, received>>
  BY DEF IoFails
<1>2. "500" \in Heads /\ <<>> \in Seq(Bytes)
  BY EmptySeq DEF Heads
<1>3. /\ conn' \in [outbound : Seq(Units), total : Nat, left : Nat,
                    events : {"hold", "out", "in"}, closed : BOOLEAN]
      /\ conn'.outbound = <<"500">> \o <<>> /\ conn'.outbound # <<>>
      /\ conn'.events = "out" /\ conn'.total = 0
      /\ conn'.total + conn'.left = Len(conn'.outbound)
      /\ received = Piece(conn'.outbound, 0, conn'.total)
  BY <1>1, <1>2, RespondShape
<1>4. <<"500">> \o <<>> = <<"500">>
  BY <1>2
<1>5. worker \in [data : Seq(Bytes), total : Nat, left : Nat, closed : BOOLEAN]
  BY DEF TypeOK
<1>6. /\ worker' \in [data : Seq(Bytes), total : Nat, left : Nat, closed : BOOLEAN]
      /\ worker'.closed /\ worker'.data = worker.data
      /\ worker'.total = worker.total /\ worker'.left = worker.left
  BY <1>1, <1>5
<1>7. TypeOK'
  BY <1>1, <1>3, <1>6 DEF TypeOK
<1>8. OneReply'
  BY <1>1, <1>3, <1>6 DEF OneReply, Piece
<1>9. Progress'
  BY <1>1, <1>6 DEF Progress, Piece
<1>10. Answer'
  BY <1>1, <1>3, <1>4 DEF Answer
<1>11. QED
  BY <1>7, <1>8, <1>9, <1>10

LEMMA SendsStep ==
  ASSUME TInv, Sends
  PROVE  TInv'
<1> USE DEF TInv
<1>1. PICK k \in 1 .. Size(conn.left) :
        /\ received' = received \o Piece(conn.outbound, conn.total, k)
        /\ conn' = [conn EXCEPT !.total = conn.total + k, !.left = conn.left - k,
                                !.events = IF conn.left = k THEN "in" ELSE "out"]
  BY DEF Sends
<1>2. conn.events = "out" /\ UNCHANGED <<kind, content, disk, unwritten, worker>>
  BY DEF Sends
<1>3. /\ conn.outbound \in Seq(Units) /\ Len(conn.outbound) \in Nat
      /\ conn.total \in Nat /\ conn.left \in Nat
      /\ conn.total + conn.left = Len(conn.outbound)
      /\ received = Piece(conn.outbound, 0, conn.total)
  BY LenProperties DEF TypeOK, OneReply
<1>4. k \in Nat /\ k <= conn.left /\ conn.total + k <= Len(conn.outbound)
  BY <1>3, TransferAssumption DEF Size
<1> DEFINE further == conn.total + k
           less    == conn.left - k
           next    == IF conn.left = k THEN "in" ELSE "out"
           sofar   == Piece(conn.outbound, 0, further)
<1>5. /\ further \in Nat /\ less \in Nat /\ further + less = Len(conn.outbound)
      /\ next = "in" => less = 0
      /\ next \in {"in", "out"}
  BY <1>3, <1>4
<1>6. received' = sofar /\ sofar \in Seq(Units)
  <2>1. Piece(conn.outbound, 0, conn.total) \o Piece(conn.outbound, conn.total, k) = sofar
    BY <1>3, <1>4, PieceJoins
  <2>2. 0 + further <= Len(conn.outbound)
    BY <1>3, <1>4
  <2>3. sofar \in Seq(Units)
    BY <1>3, <1>5, <2>2, PieceShape
  <2>4. QED
    BY <1>1, <1>3, <2>1, <2>3
<1>7. conn' = [conn EXCEPT !.total = further, !.left = less, !.events = next]
  BY <1>1
<1>8. conn \in [outbound : Seq(Units), total : Nat, left : Nat,
                events : {"hold", "out", "in"}, closed : BOOLEAN]
  BY DEF TypeOK
<1> HIDE DEF further, less, next, sofar
<1>9. /\ conn' \in [outbound : Seq(Units), total : Nat, left : Nat,
                    events : {"hold", "out", "in"}, closed : BOOLEAN]
      /\ conn'.outbound = conn.outbound /\ conn'.total = further
      /\ conn'.left = less /\ conn'.events = next
  BY <1>5, <1>7, <1>8
<1>10. TypeOK'
  BY <1>2, <1>6, <1>9 DEF TypeOK
<1>11. OneReply'
  <2>1. received' = Piece(conn'.outbound, 0, conn'.total)
    BY <1>6, <1>9 DEF sofar
  <2>2. conn'.total + conn'.left = Len(conn'.outbound)
    BY <1>5, <1>9
  <2>3. conn'.outbound # <<>> <=> worker'.closed
    BY <1>2, <1>9 DEF OneReply
  <2>4. QED
    BY <2>1, <2>2, <2>3 DEF OneReply, Piece
<1>12. Progress'
  BY <1>2 DEF Progress, Piece
<1>13. Answer'
  <2>1. conn.outbound # <<>>
    BY <1>2 DEF Answer
  <2>2. QED
    BY <1>2, <1>5, <1>9, <2>1 DEF Answer
<1>14. QED
  BY <1>10, <1>11, <1>12, <1>13

LEMMA OtherStep ==
  ASSUME TInv, SendFails \/ ScriptWrites \/ UNCHANGED vars
  PROVE  TInv'
<1> USE DEF TInv
<1>1. CASE SendFails
  <2>1. conn \in [outbound : Seq(Units), total : Nat, left : Nat,
                  events : {"hold", "out", "in"}, closed : BOOLEAN]
    BY DEF TypeOK
  <2>2. /\ conn' \in [outbound : Seq(Units), total : Nat, left : Nat,
                      events : {"hold", "out", "in"}, closed : BOOLEAN]
        /\ conn'.outbound = conn.outbound /\ conn'.total = conn.total
        /\ conn'.left = conn.left /\ conn'.events = conn.events
        /\ UNCHANGED <<kind, content, disk, unwritten, worker, received>>
    BY <1>1, <2>1 DEF SendFails
  <2>3. TypeOK' /\ OneReply' /\ Progress' /\ Answer'
    BY <2>2 DEF TypeOK, OneReply, Progress, Answer, Piece
  <2>4. QED
    BY <2>3
<1>2. CASE ScriptWrites
  <2>1. PICK k \in 1 .. Len(unwritten) :
          /\ disk' = disk \o Piece(unwritten, 0, k)
          /\ unwritten' = SubSeq(unwritten, k + 1, Len(unwritten))
    BY <1>2 DEF ScriptWrites
  <2>2. UNCHANGED <<kind, content, worker, conn, received>>
    BY <1>2 DEF ScriptWrites
  <2>3. unwritten \in Seq(Bytes) /\ Len(unwritten) \in Nat /\ disk \in Seq(Bytes)
    BY LenProperties DEF TypeOK
  <2>4. k \in Nat /\ 0 + k <= Len(unwritten) /\ unwritten # <<>>
    BY <2>3, EmptySeq
  <2>5. Piece(unwritten, 0, k) \in Seq(Bytes)
    BY <2>3, <2>4, PieceShape
  <2>6. unwritten' \in Seq(Bytes)
    <3>1. \A i \in k + 1 .. Len(unwritten) : unwritten[i] \in Bytes
      BY <2>3, <2>4, ElementOfSeq
    <3>2. QED
      BY <2>1, <2>3, <3>1, SubSeqProperties
  <2>7. disk' \in Seq(Bytes)
    BY <2>1, <2>3, <2>5, ConcatProperties
  <2>8. kind = "CGI"
    BY <2>4 DEF Progress, TypeOK
  <2>9. TypeOK'
    BY <2>2, <2>6, <2>7 DEF TypeOK
  <2>10. OneReply'
    BY <2>2 DEF OneReply, Piece
  <2>11. Progress' /\ Answer'
    BY <2>2, <2>8 DEF Progress, Answer
  <2>12. QED
    BY <2>9, <2>10, <2>11
<1>3. CASE UNCHANGED vars
  BY <1>3 DEF vars, TypeOK, OneReply, Progress, Answer, Piece
<1>4. QED
  BY <1>1, <1>2, <1>3

\* The invariant implies the property: a reply with nothing left to send has
\* been received whole.
LEMMA InvIsEnough == TInv => WholeOrRefused
<1> SUFFICES ASSUME TInv, kind # "CGI", conn.events = "in"
             PROVE  \/ kind = "GET" /\ received = <<"200">> \o content
                    \/ kind = "POST" /\ received = <<"201">> /\ disk = content
                    \/ received = <<"500">>
  BY DEF WholeOrRefused
<1> USE DEF TInv
<1>1. conn.outbound \in Seq(Units) /\ conn.total \in Nat /\ conn.left \in Nat
  BY DEF TypeOK
<1>2. conn.outbound # <<>> /\ conn.left = 0
  BY DEF Answer
<1>3. conn.total = Len(conn.outbound)
  BY <1>1, <1>2 DEF OneReply
<1>4. received = conn.outbound
  BY <1>1, <1>3, PieceWhole DEF OneReply
<1>5. kind = "GET" \/ kind = "POST"
  BY TransferAssumption DEF TypeOK
<1>6. QED
  BY <1>2, <1>4, <1>5 DEF Answer

-----------------------------------------------------------------------------
(***************************************************************************)
(* For every file and body, every size of the buffer and every way read(), *)
(* write() and send() cut the bytes up (FileFD::pollin, FileFD::pollout,   *)
(* ClientFD::pollout): the types hold, what the peer has is the beginning  *)
(* of one reply, and a reply sent to its end is the whole file, a true     *)
(* confirmation or an error.                                               *)
(***************************************************************************)
THEOREM TransferIsWhole == Spec => [](TypeOK /\ OneReply /\ WholeOrRefused)
<1>1. Init => TInv
  BY InitHolds
<1>2. TInv /\ [Next]_vars => TInv'
  <2> SUFFICES ASSUME TInv, [Next]_vars PROVE TInv'
    OBVIOUS
  <2>1. CASE Reads
    BY <2>1, ReadsStep
  <2>2. CASE ReadEnds
    BY <2>2, ReadEndsStep
  <2>3. CASE Writes
    BY <2>3, WritesStep
  <2>4. CASE IoFails
    BY <2>4, IoFailsStep
  <2>5. CASE Sends
    BY <2>5, SendsStep
  <2>6. CASE SendFails \/ ScriptWrites \/ UNCHANGED vars
    BY <2>6, OtherStep
  <2>7. CASE CgiWaits \/ Finished
    BY <2>7, OtherStep DEF CgiWaits, Finished
  <2>8. QED
    BY <2>1, <2>2, <2>3, <2>4, <2>5, <2>6, <2>7 DEF Next
<1>3. TInv => TypeOK /\ OneReply /\ WholeOrRefused
  BY InvIsEnough DEF TInv
<1>4. QED
  BY <1>1, <1>2, <1>3, PTL DEF Spec

\* In particular what the peer has received is at every moment the beginning of
\* one reply (ClientFD::pollout sends the rest of _responseString, whole).
THEOREM ReplyIsOne == Spec => []OneReply
BY TransferIsWhole, PTL

\* And the buffers, the counters and what is on the disk keep their types: no
\* counter of FileFD or ClientFD is ever taken below zero.
THEOREM TransferIsTyped == Spec => []TypeOK
BY TransferIsWhole, PTL

=============================================================================
