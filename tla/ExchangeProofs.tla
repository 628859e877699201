---------------------------- MODULE ExchangeProofs ----------------------------
(***************************************************************************)
(* Proof that ClientMessage implements the safety part of Exchange, step   *)
(* by step: for a peer that waits for its replies and sends messages the   *)
(* server can take, no request is handed on or answered twice, no reply    *)
(* is sent without a request, and the connection closes only with one.     *)
(***************************************************************************)
EXTENDS ClientMessageProofs

(***************************************************************************)
(* A message the server can take: its header fits, its body is announced   *)
(* and within the limit, and no body follows a header that is refused      *)
(* unless it waits for a 100, nor a 100 after which pollout closes the     *)
(* connection because of a "Connection: close".                            *)
(***************************************************************************)
Manageable(m) ==
  LET r == Parsed(m) IN
  /\ 1 <= m.lines /\ m.lines <= MaxHeader
  /\ ~ r.chunked /\ (r.lengthKnown => m.length <= MaxBody)
  /\ m.valid \/ m.body = <<>> \/ Asks100(m)
  /\ r.post /\ r.expect => r.keep

WaitingPeer == ~ Eager /\ ~ Reuses /\ \A m \in Messages : Manageable(m)

\* Units of the pending message that are buffered, on the wire or not sent.
Units == Len(c.inbound) + Len(wire) + Len(rest)

\* Nothing more comes of the message; it may wait for a 100 for ever.
NoMore == wire = <<>> /\ (rest = <<>> \/ (Expects /\ ~ GoAhead))

\* Every request is answered.  A new one can come only if the buffer is empty.
Idle ==
  /\ Finals = Len(sent) /\ NoMore /\ ~ GoAhead
  /\ ~ c.closed => /\ c.events = "in" /\ c.reply = "none"
                   /\ Expects \/ (c.state = "HEADER" /\ c.inbound = <<>>)

\* The header of m is coming, and no part of its end has come.
Heading(m) ==
  /\ c.state = "HEADER" /\ c.events = "in" /\ c.reply = "none"
  /\ Units = m.lines + 1 + Len(m.body) /\ ~ GoAhead /\ (Expects => rest = m.body)
  /\ Len(c.inbound) <= m.lines /\ m.lines + 1 <= Len(c.inbound) + Len(wire)
  /\ \A k \in 1 .. Len(c.inbound) : c.inbound[k] = Line
  /\ \A k \in 1 .. m.lines - Len(c.inbound) : wire[k] = Line
  /\ wire[m.lines + 1 - Len(c.inbound)] = End(m)

\* Its body is coming, all of it or what the header brought not of it.
Bodying(m) ==
  /\ c.state = "BODY" /\ c.events = "in" /\ c.reply = "none" /\ c.req = Parsed(m)
  /\ Units = Len(m.body)
  /\ c.req.lengthKnown => c.total = Len(c.inbound) /\ c.left \in {0, m.length}

\* It is given the 100 it waits for.
Inviting(m) ==
  /\ c.state = "RESPOND" /\ c.events = "out" /\ c.reply = "100" /\ c.req = Parsed(m)
  /\ c.req.post /\ c.req.expect /\ c.inbound = <<>> /\ Units = Len(m.body)

\* It is with its worker, or its final reply is on the way.
Ending ==
  /\ NoMore
  /\ \/ c.events = "hold" \/ (c.events = "out" /\ c.reply = "final")
     \/ c.events = "out" /\ c.reply = "error" /\ c.state = "ERROR"
  /\ c.state # "ERROR" => c.state = "RESPOND" /\ (c.req.post /\ c.req.expect => Expects)

Pending ==
  /\ ~ c.closed /\ Len(sent) = Finals + 1
  /\ LET m == sent[Len(sent)] IN Heading(m) \/ Bodying(m) \/ Inviting(m) \/ Ending

\* The inductive invariant.
TurnInv == Idle \/ Pending

-----------------------------------------------------------------------------
(***************************************************************************)
(* The steps of Exchange, in terms of the connection.                      *)
(***************************************************************************)
Busy == c.events = "hold" \/ c.reply = "final"

LEMMA AtFirst ==
  ASSUME Len(sent) = 0, Finals = 0, ~ Busy, c.closed = FALSE
  PROVE  Promise!Init
BY DEF Promise!Init, Busy

LEMMA NothingSeen ==
  ASSUME Len(sent') = Len(sent), Finals' = Finals, Busy' <=> Busy, c'.closed = c.closed
  PROVE  UNCHANGED Promise!vars
BY DEF Promise!vars, Busy

LEMMA Asked ==
  ASSUME c.closed = FALSE, Len(sent) = Finals, Len(sent) < MaxSent, Len(sent') = Len(sent) + 1,
         Finals' = Finals, Busy' <=> Busy, c'.closed = c.closed
  PROVE  Promise!Next
BY DEF Promise!Next, Promise!Ask, Busy

LEMMA Begins ==
  ASSUME ~ Busy, Finals < Len(sent), Busy', Len(sent') = Len(sent), Finals' = Finals,
         c'.closed = c.closed
  PROVE  Promise!Next
BY DEF Promise!Next, Promise!Handle, Busy

LEMMA Replied ==
  ASSUME Finals < Len(sent), Finals' = Finals + 1, ~ Busy', c'.closed \in BOOLEAN,
         Len(sent') = Len(sent)
  PROVE  Promise!Next
BY DEF Promise!Next, Promise!Reply, Busy

-----------------------------------------------------------------------------
(***************************************************************************)
(* The replies counted.                                                    *)
(***************************************************************************)
FinalsIn(q) == Cardinality({i \in DOMAIN q : q[i] # "100"})

LEMMA OneMore ==
  ASSUME NEW q \in Seq({"100", "final", "error"}), NEW r \in {"100", "final", "error"}
  PROVE  /\ FinalsIn(q) \in Nat
         /\ FinalsIn(Append(q, r)) = IF r = "100" THEN FinalsIn(q) ELSE FinalsIn(q) + 1
<1> DEFINE F == {i \in DOMAIN q : q[i] # "100"}
           G == {i \in DOMAIN Append(q, r) : Append(q, r)[i] # "100"}
           n == Len(q)
<1>1. n \in Nat /\ DOMAIN q = 1 .. n
  OBVIOUS
<1>2. /\ DOMAIN Append(q, r) = 1 .. n + 1 /\ Append(q, r)[n + 1] = r
      /\ \A i \in 1 .. n : Append(q, r)[i] = q[i]
  OBVIOUS
<1>3. IsFiniteSet(F)
  <2>1. IsFiniteSet(1 .. n)
    BY <1>1, FS_Interval
  <2>2. F \subseteq 1 .. n
    BY <1>1
  <2> QED
    BY <2>1, <2>2, FS_Subset
<1>4. G = IF r = "100" THEN F ELSE F \cup {n + 1}
  BY <1>1, <1>2
<1>5. n + 1 \notin F
  BY <1>1
<1>6. FinalsIn(q) = Cardinality(F) /\ FinalsIn(Append(q, r)) = Cardinality(G)
  BY DEF FinalsIn
<1> HIDE DEF F, G, n
<1>7. Cardinality(F) \in Nat
  BY <1>3, FS_CardinalityType
<1>8. r # "100" => Cardinality(G) = Cardinality(F) + 1
  BY <1>3, <1>4, <1>5, FS_AddElement
<1> QED
  BY <1>4, <1>6, <1>7, <1>8

LEMMA NoneAtFirst == FinalsIn(<<>>) = 0
<1>1. {i \in DOMAIN <<>> : <<>>[i] # "100"} = {}
  OBVIOUS
<1> QED
  BY <1>1, FS_EmptySet DEF FinalsIn

LEMMA FinalsAre == Finals = FinalsIn(replies)
BY DEF Finals, FinalsIn

-----------------------------------------------------------------------------
(***************************************************************************)
(* The header of a message the server can take.                            *)
(***************************************************************************)

\* Its lines alone have no end.
LEMMA NoEndYet ==
  ASSUME NEW q \in Seq(Unit), \A k \in 1 .. Len(q) : q[k] = Line
  PROVE  EndOfHeader(q) = 0
<1>1. \A i \in 2 .. Len(q) : q[i].u = "line"
  BY KindsOfUnits
<1>2. {i \in 2 .. Len(q) : q[i].u \in {"end", "crlf"} /\ q[i - 1].u \in {"line", "end", "crlf"}} = {}
  BY <1>1
<1> QED
  BY <1>2 DEF EndOfHeader

LEMMA EndThere ==
  ASSUME NEW m \in Messages, 1 <= m.lines, NEW q \in Seq(Unit), m.lines < Len(q),
         \A k \in 1 .. m.lines : q[k] = Line, q[m.lines + 1] = End(m)
  PROVE  EndOfHeader(q) = m.lines + 1 /\ (WellFormed(q, m.lines + 1) <=> m.valid)
<1> DEFINE e == m.lines + 1
           ends == {i \in 2 .. Len(q) : /\ q[i].u \in {"end", "crlf"}
                                        /\ q[i - 1].u \in {"line", "end", "crlf"}}
<1>1. m.lines \in Nat /\ Len(q) \in Nat /\ e \in 2 .. Len(q) /\ e - 1 = m.lines
  BY MessageKinds
<1>2. q[e].u = "end" /\ q[m.lines].u = "line"
  BY <1>1, KindsOfUnits
<1>3. e \in ends
  BY <1>1, <1>2
<1>4. \A i \in ends : e <= i
  <2> SUFFICES ASSUME NEW i \in ends, i < e PROVE FALSE
    BY <1>1
  <2>1. i \in 1 .. m.lines
    BY <1>1
  <2>2. q[i].u = "line"
    BY <2>1, KindsOfUnits
  <2> QED
    BY <2>2
<1>5. ends \in SUBSET Nat
  OBVIOUS
<1>6. EndOfHeader(q) = IF ends = {} THEN 0 ELSE Min(ends)
  BY DEF EndOfHeader
<1>7. e \in Nat
  BY <1>1
<1>8. EndOfHeader(q) = e
  <2> HIDE DEF ends, e
  <2>1. ends # {} /\ Min(ends) \in ends /\ \A y \in ends : Min(ends) <= y
    BY <1>3, <1>5, MinIsLeast
  <2>2. Min(ends) \in Nat /\ Min(ends) <= e /\ e <= Min(ends)
    BY <1>3, <1>4, <1>5, <2>1
  <2> QED
    BY <1>6, <1>7, <2>1, <2>2
<1>9. SubSeq(q, 1, e) = Header(m)
  <2>1. /\ SubSeq(q, 1, e) \in Seq(Unit) /\ Len(SubSeq(q, 1, e)) = e
        /\ \A k \in 1 .. e : SubSeq(q, 1, e)[k] = q[k]
    BY <1>1
  <2>2. /\ Header(m) \in Seq(Unit) /\ Len(Header(m)) = e
        /\ \A k \in 1 .. m.lines : Header(m)[k] = Line
        /\ Header(m)[e] = End(m)
    BY HeaderKinds
  <2>3. \A k \in 1 .. e : k \in 1 .. m.lines \/ k = e
    BY <1>1
  <2>4. \A k \in 1 .. e : q[k] = Header(m)[k]
    BY <2>2, <2>3
  <2> HIDE DEF e
  <2> QED
    BY <2>1, <2>2, <2>4, SameUnits
<1>10. m.valid \in BOOLEAN
  BY MessageAssumption DEF Message
<1>11. IsEnd(q[e]) /\ q[e].m = m
  BY <1>2, KindsOfUnits DEF IsEnd
<1>12. WellFormed(q, e) <=> m.valid
  BY <1>9, <1>10, <1>11 DEF WellFormed
<1> QED
  BY <1>8, <1>12

-----------------------------------------------------------------------------
(***************************************************************************)
(* What a call of recv() adds.                                             *)
(***************************************************************************)

\* The pending message.
Pend == sent[Len(sent)]

\* k more units are in the buffer of t.
Arrives(t, k) ==
  /\ k \in 1 .. Len(wire)
  /\ t = [c EXCEPT !.inbound = c.inbound \o SubSeq(wire, 1, k)]

LEMMA FilledBuffer ==
  ASSUME Kinds, NEW t, NEW k, Arrives(t, k)
  PROVE  /\ t \in Connection /\ t.inbound \in Seq(Unit)
         /\ k \in Nat /\ Len(wire) \in Nat /\ Len(c.inbound) \in Nat
         /\ Len(t.inbound) = Len(c.inbound) + k
         /\ \A j \in 1 .. Len(c.inbound) : t.inbound[j] = c.inbound[j]
         /\ \A j \in 1 .. k : t.inbound[Len(c.inbound) + j] = wire[j]
         /\ After(wire, k) \in Seq(Unit) /\ Len(After(wire, k)) = Len(wire) - k
         /\ \A j \in 1 .. Len(wire) - k : After(wire, k)[j] = wire[k + j]
         /\ t.state = c.state /\ t.events = c.events /\ t.body = c.body /\ t.total = c.total
         /\ t.left = c.left /\ t.req = c.req /\ t.reply = c.reply /\ t.closed = c.closed
<1> DEFINE units == SubSeq(wire, 1, k)
<1>1. /\ c \in Connection /\ c.inbound \in Seq(Unit) /\ wire \in Seq(Unit)
      /\ k \in 1 .. Len(wire) /\ Len(wire) \in Nat /\ Len(c.inbound) \in Nat
  BY DEF Kinds, Connection, Arrives
<1>2. units \in Seq(Unit) /\ Len(units) = k /\ \A j \in 1 .. k : units[j] = wire[j]
  BY <1>1
<1>3. t = [c EXCEPT !.inbound = c.inbound \o units]
  BY DEF Arrives
<1> HIDE DEF units
<1>4. /\ c.inbound \o units \in Seq(Unit) /\ Len(c.inbound \o units) = Len(c.inbound) + k
      /\ \A j \in 1 .. Len(c.inbound) : (c.inbound \o units)[j] = c.inbound[j]
      /\ \A j \in 1 .. k : (c.inbound \o units)[Len(c.inbound) + j] = units[j]
  BY <1>1, <1>2, JoinedUnits
<1>5. /\ t \in Connection /\ t.inbound = c.inbound \o units
      /\ t.state = c.state /\ t.events = c.events /\ t.body = c.body /\ t.total = c.total
      /\ t.left = c.left /\ t.req = c.req /\ t.reply = c.reply /\ t.closed = c.closed
  BY <1>1, <1>3, <1>4 DEF Connection
<1>6. /\ After(wire, k) \in Seq(Unit) /\ Len(After(wire, k)) = Len(wire) - k
      /\ \A j \in 1 .. Len(wire) - k : After(wire, k)[j] = wire[k + j]
  BY <1>1 DEF After
<1> QED
  BY <1>1, <1>2, <1>4, <1>5, <1>6

\* The lines of a header, without its end or with it.
LEMMA HeaderFills ==
  ASSUME Kinds, NEW m \in Messages, Heading(m), NEW t, NEW k, Arrives(t, k)
  PROVE  /\ \A j \in 1 .. Len(t.inbound) : j <= m.lines => t.inbound[j] = Line
         /\ m.lines < Len(t.inbound) => t.inbound[m.lines + 1] = End(m)
         /\ Len(t.inbound) <= m.lines =>
              /\ m.lines + 1 <= Len(t.inbound) + Len(After(wire, k))
              /\ \A j \in 1 .. m.lines - Len(t.inbound) : After(wire, k)[j] = Line
              /\ After(wire, k)[m.lines + 1 - Len(t.inbound)] = End(m)
<1> DEFINE n == Len(c.inbound)
           w == After(wire, k)
<1>1. /\ k \in Nat /\ k >= 1 /\ k <= Len(wire) /\ Len(wire) \in Nat /\ n \in Nat
      /\ Len(t.inbound) = n + k /\ Len(w) = Len(wire) - k
      /\ \A j \in 1 .. n : t.inbound[j] = c.inbound[j]
      /\ \A j \in 1 .. k : t.inbound[n + j] = wire[j]
      /\ \A j \in 1 .. Len(wire) - k : w[j] = wire[k + j]
  <2>1. k \in 1 .. Len(wire)
    BY DEF Arrives
  <2>2. /\ k \in Nat /\ Len(wire) \in Nat /\ n \in Nat
        /\ Len(t.inbound) = n + k /\ Len(w) = Len(wire) - k
        /\ \A j \in 1 .. n : t.inbound[j] = c.inbound[j]
        /\ \A j \in 1 .. k : t.inbound[n + j] = wire[j]
        /\ \A j \in 1 .. Len(wire) - k : w[j] = wire[k + j]
    BY FilledBuffer
  <2> HIDE DEF n, w
  <2> QED
    BY <2>1, <2>2
<1>2. m.lines \in Nat
  BY MessageKinds
<1>3. /\ n <= m.lines /\ m.lines + 1 <= n + Len(wire)
      /\ \A j \in 1 .. n : c.inbound[j] = Line
      /\ \A j \in 1 .. m.lines - n : wire[j] = Line
      /\ wire[m.lines + 1 - n] = End(m)
  BY DEF Heading
<1> HIDE DEF n, w
<1>4. ASSUME NEW j \in 1 .. Len(t.inbound), j <= m.lines PROVE t.inbound[j] = Line
  <2>1. CASE j <= n
    <3>1. j \in 1 .. n
      BY <1>1, <2>1
    <3> QED
      BY <1>1, <1>3, <3>1
  <2>2. CASE j > n
    <3>1. j - n \in 1 .. k /\ j - n \in 1 .. m.lines - n /\ n + (j - n) = j
      BY <1>1, <1>2, <1>4, <2>2
    <3> QED
      BY <1>1, <1>3, <3>1
  <2> QED
    BY <1>1, <2>1, <2>2
<1>5. ASSUME m.lines < Len(t.inbound) PROVE t.inbound[m.lines + 1] = End(m)
  <2>1. m.lines + 1 - n \in 1 .. k /\ n + (m.lines + 1 - n) = m.lines + 1
    BY <1>1, <1>2, <1>3, <1>5
  <2> QED
    BY <1>1, <1>3, <2>1
<1>6. ASSUME Len(t.inbound) <= m.lines
      PROVE  /\ m.lines + 1 <= Len(t.inbound) + Len(w)
             /\ \A j \in 1 .. m.lines - Len(t.inbound) : w[j] = Line
             /\ w[m.lines + 1 - Len(t.inbound)] = End(m)
  <2>1. m.lines + 1 <= Len(t.inbound) + Len(w)
    BY <1>1, <1>2, <1>3
  <2>2. ASSUME NEW j \in 1 .. m.lines - Len(t.inbound) PROVE w[j] = Line
    <3>1. j \in 1 .. Len(wire) - k /\ k + j \in 1 .. m.lines - n
      BY <1>1, <1>2, <1>3, <1>6
    <3> QED
      BY <1>1, <1>3, <3>1
  <2>3. w[m.lines + 1 - Len(t.inbound)] = End(m)
    <3>1. /\ m.lines + 1 - Len(t.inbound) \in 1 .. Len(wire) - k
          /\ k + (m.lines + 1 - Len(t.inbound)) = m.lines + 1 - n
      <4>1. /\ n + k <= m.lines /\ m.lines + 1 <= n + Len(wire)
            /\ m.lines + 1 - Len(t.inbound) = m.lines + 1 - (n + k)
        BY <1>1, <1>3, <1>6
      <4> QED
        BY <1>1, <1>2, <4>1
    <3> QED
      BY <1>1, <1>3, <3>1
  <2> QED
    BY <2>1, <2>2, <2>3
<1> QED
  BY <1>4, <1>5, <1>6 DEF w

-----------------------------------------------------------------------------
(***************************************************************************)
(* What receiveHeader and receiveBody make of it.                          *)
(***************************************************************************)

\* r is s but for what the reading of a message changes.
SameLink(r, s) == r.closed = s.closed /\ r.events = s.events /\ r.reply = s.reply

\* What of a manageable message matters here.
LEMMA Managed ==
  ASSUME WaitingPeer, NEW m \in Messages
  PROVE  LET r == Parsed(m) IN
         /\ 1 <= m.lines /\ m.lines <= MaxHeader /\ m.lines \in Nat /\ m.body \in Seq(Unit)
         /\ MaxHeader \in Nat /\ MaxBody \in Nat /\ Len(m.body) \in Nat
         /\ r.lengthKnown \in BOOLEAN /\ r.expect \in BOOLEAN /\ r.post \in BOOLEAN
         /\ r.keep \in BOOLEAN /\ m.valid \in BOOLEAN
         /\ ~ r.chunked /\ (m.valid \/ m.body = <<>> \/ Asks100(m))
         /\ r.lengthKnown =>
              r.length = m.length /\ m.length = Len(m.body) /\ Len(m.body) <= MaxBody
         /\ ~ r.lengthKnown => m.body = <<>>
         /\ r.expect => Asks100(m)
         /\ r.post /\ r.expect => r.keep
<1>1. Manageable(m)
  BY DEF WaitingPeer
<1>2. Framed(m) /\ m.lines \in Nat /\ m.body \in Seq(Unit)
  BY MessageKinds
<1>3. m.valid \in BOOLEAN
  BY MessageAssumption DEF Message
<1>4. MaxHeader \in Nat /\ MaxBody \in Nat
  BY MessageAssumption
<1>5. Len(m.body) \in Nat
  BY <1>2
<1> DEFINE r == Parsed(m)
<1>6. /\ r.keep \in BOOLEAN /\ r.expect \in BOOLEAN /\ r.post \in BOOLEAN
      /\ r.lengthKnown \in BOOLEAN /\ r.chunked \in BOOLEAN
      /\ (r.lengthKnown => r.length = m.length) /\ (r.expect => Asks100(m))
  BY ParsedKinds
<1>7. /\ 1 <= m.lines /\ m.lines <= MaxHeader
      /\ ~ r.chunked /\ (r.lengthKnown => m.length <= MaxBody)
      /\ m.valid \/ m.body = <<>> \/ Asks100(m)
      /\ (r.post /\ r.expect => r.keep)
  BY <1>1 DEF Manageable
<1>8. /\ r.lengthKnown => m.body = m.entity /\ m.length = Len(m.entity)
      /\ ~ r.lengthKnown /\ ~ r.chunked => m.body = <<>>
  BY <1>2 DEF Framed
<1> HIDE DEF r
<1>9. r.lengthKnown => m.length = Len(m.body) /\ Len(m.body) <= MaxBody
  BY <1>7, <1>8
<1> QED
  BY <1>2, <1>3, <1>4, <1>5, <1>6, <1>7, <1>8, <1>9 DEF r

\* An accepted header: what follows it is the beginning of the body.
LEMMA HeadAccepted ==
  ASSUME WaitingPeer, NEW m \in Messages, NEW t \in Connection,
         m.lines < Len(t.inbound), t.inbound[m.lines + 1] = End(m),
         Len(t.inbound) - (m.lines + 1) <= Len(m.body)
  PROVE  LET s == HeaderAccepted(t, m.lines + 1) IN
         /\ s \in Connection /\ SameLink(s, t) /\ s.req = Parsed(m) /\ s.left = 0
         /\ Len(s.inbound) = Len(t.inbound) - (m.lines + 1)
         /\ s.req.lengthKnown => s.total = Len(s.inbound)
         /\ s.state = IF s.req.expect /\ s.inbound = <<>> THEN "RESPOND" ELSE "BODY"
<1> DEFINE e    == m.lines + 1
           req  == Parsed(t.inbound[e].m)
           tail == After(t.inbound, e)
           s == [t EXCEPT !.req = req, !.inbound = tail, !.left = 0,
                          !.total = IF req.chunked THEN 0
                                    ELSE IF req.lengthKnown THEN Len(tail) ELSE t.total,
                          !.state = IF req.expect /\ tail = <<>> THEN "RESPOND" ELSE "BODY"]
<1>1. /\ m.lines \in Nat /\ e \in Nat /\ t.inbound \in Seq(Unit) /\ Len(t.inbound) \in Nat
      /\ t.total \in Nat
  BY MessageKinds DEF Connection
<1>2. tail \in Seq(Unit) /\ Len(tail) = Len(t.inbound) - e /\ Len(tail) \in Nat
  BY <1>1 DEF After
<1>3. req = Parsed(m)
  BY KindsOfUnits
<1>4. HeaderAccepted(t, e) = IF ~ req.chunked /\ req.lengthKnown /\ Len(tail) > MaxBody
                             THEN Fail(s) ELSE s
  BY DEF HeaderAccepted
<1>5. /\ ~ req.chunked /\ req.lengthKnown \in BOOLEAN /\ req.expect \in BOOLEAN
      /\ req.lengthKnown => Len(m.body) <= MaxBody
      /\ MaxBody \in Nat /\ Len(m.body) \in Nat
  BY <1>3, Managed
<1>6. req \in {NoRequest} \cup {Parsed(x) : x \in Messages}
  BY <1>3
<1>7. Len(tail) <= Len(m.body)
  BY <1>2
<1> HIDE DEF tail, req
<1>8. ~ (req.lengthKnown /\ Len(tail) > MaxBody)
  BY <1>2, <1>5, <1>7
<1>9. /\ s \in Connection /\ s.closed = t.closed /\ s.events = t.events /\ s.reply = t.reply
      /\ s.req = req /\ s.left = 0 /\ s.inbound = tail
      /\ req.lengthKnown => s.total = Len(tail)
      /\ s.state = IF req.expect /\ tail = <<>> THEN "RESPOND" ELSE "BODY"
  BY <1>1, <1>2, <1>5, <1>6 DEF Connection
<1> HIDE DEF s
<1>10. HeaderAccepted(t, e) = s
  BY <1>4, <1>8
<1> QED
  BY <1>2, <1>3, <1>9, <1>10 DEF SameLink

\* A body of a known length, of which the buffer has all that was counted.
LEMMA LengthCounted ==
  ASSUME WaitingPeer, NEW m \in Messages, NEW s \in Connection, s.state = "BODY",
         s.req = Parsed(m), s.req.lengthKnown, s.left \in {0, m.length}, NEW bytes \in Nat,
         s.total + bytes = Len(s.inbound), Len(s.inbound) <= Len(m.body)
  PROVE  LET r == ReceiveBody(s, bytes) IN
         /\ r \in Connection /\ SameLink(r, s) /\ r.req = s.req /\ r.inbound = s.inbound
         /\ r.left = m.length /\ r.total = Len(r.inbound)
         /\ r.state = IF Len(s.inbound) = Len(m.body) THEN "RESPOND" ELSE "BODY"
<1> DEFINE left  == IF s.left = 0 THEN s.req.length ELSE s.left
           total == s.total + bytes
           t == [s EXCEPT !.left = left, !.total = total]
           r == [t EXCEPT !.body = s.inbound, !.state = "RESPOND"]
<1>1. /\ s.inbound \in Seq(Unit) /\ s.total \in Nat /\ Len(s.inbound) \in Nat
  BY DEF Connection
<1>2. /\ s.req.length = m.length /\ m.length = Len(m.body) /\ Len(m.body) <= MaxBody
      /\ MaxBody \in Nat /\ Len(m.body) \in Nat
  BY Managed
<1>3. left = m.length /\ left \in Nat
  BY <1>2
<1>4. total \in Nat /\ total = Len(s.inbound) /\ ~ (bytes > 0 /\ total > MaxBody)
  BY <1>1, <1>2
<1>5. ReceiveBody(s, bytes) = IF bytes > 0 /\ total > MaxBody THEN Fail(t)
                              ELSE IF total = left THEN r ELSE t
  BY DEF ReceiveBody, ReceiveLength
<1> HIDE DEF left, total
<1>6. /\ t \in Connection /\ t.closed = s.closed /\ t.events = s.events /\ t.reply = s.reply
      /\ t.req = s.req /\ t.inbound = s.inbound /\ t.left = left /\ t.total = total
      /\ t.state = "BODY"
  BY <1>3, <1>4 DEF Connection
<1> HIDE DEF t
<1>7. /\ r \in Connection /\ r.closed = s.closed /\ r.events = s.events /\ r.reply = s.reply
      /\ r.req = s.req /\ r.inbound = s.inbound /\ r.left = left /\ r.total = total
      /\ r.state = "RESPOND"
  BY <1>1, <1>6 DEF Connection
<1> HIDE DEF r
<1>8. ReceiveBody(s, bytes) = IF total = left THEN r ELSE t
  BY <1>4, <1>5
<1> QED
  BY <1>2, <1>3, <1>4, <1>6, <1>7, <1>8 DEF SameLink

-----------------------------------------------------------------------------
(***************************************************************************)
(* What a call of pollin comes to, whatever respond() makes of it.         *)
(***************************************************************************)
Responds(s) == NotComplete(s) \/ Continues(s) \/ Dispatches(s)

LEMMA SameReplies ==
  ASSUME UNCHANGED <<sent, replies>>
  PROVE  /\ Finals' = Finals /\ (Expects' <=> Expects) /\ (GoAhead' <=> GoAhead)
         /\ Len(sent') = Len(sent) /\ Pend' = Pend
BY DEF Finals, Expects, GoAhead, Pend

LEMMA Turned ==
  ASSUME Finals \in Nat, Len(sent) = Finals + 1, UNCHANGED <<sent, replies>>,
         ~ Busy, c.closed = FALSE,
         NEW s \in Connection, s.closed = FALSE, Responds(s),
         s.state # "ERROR" => s.events = "in" /\ s.reply = "none",
         c' = s /\ s.state = "HEADER" => Heading(Pend)',
         c' = s /\ s.state = "BODY" => Bodying(Pend)',
         s.state = "ERROR" => NoMore' /\ s.events = "out" /\ s.reply = "error",
         s.state = "RESPOND" =>
           /\ s.req = Parsed(Pend) /\ s.req.post \in BOOLEAN /\ s.req.expect \in BOOLEAN
           /\ s.req.post /\ s.req.expect => Expects
           /\ WantsContinue(s) => (c'.inbound = s.inbound => Units' = Len(Pend.body))
           /\ ~ WantsContinue(s) => NoMore'
  PROVE  TurnInv' /\ [Promise!Next]_(Promise!vars)
<1>1. /\ Finals' = Finals /\ (Expects' <=> Expects) /\ (GoAhead' <=> GoAhead)
      /\ Len(sent') = Len(sent) /\ Pend' = Pend
  BY SameReplies
<1>2. s.state \in {"HEADER", "BODY", "RESPOND", "ERROR"}
  BY DEF Connection
<1>3. ASSUME c'.closed = FALSE,
             Heading(Pend)' \/ Bodying(Pend)' \/ Inviting(Pend)' \/ Ending'
      PROVE  TurnInv'
  BY <1>1, <1>3 DEF TurnInv, Pending, Pend
<1>4. ASSUME c'.closed = FALSE, ~ Busy' PROVE [Promise!Next]_(Promise!vars)
  BY <1>1, <1>4, NothingSeen
<1>5. CASE NotComplete(s)
  <2>1. c' = s /\ s.state # "RESPOND"
    BY <1>5 DEF NotComplete
  <2>2. ~ Busy' /\ c'.closed = FALSE
    BY <1>2, <2>1 DEF Busy
  <2>3. s.state = "ERROR" => Ending'
    BY <2>1 DEF Ending
  <2>4. Heading(Pend)' \/ Bodying(Pend)' \/ Ending'
    BY <1>2, <2>1, <2>3
  <2> QED
    BY <1>3, <1>4, <2>2, <2>4
<1>6. CASE Continues(s)
  <2>1. s.state = "RESPOND" /\ WantsContinue(s) /\ c' = [s EXCEPT !.reply = "100", !.events = "out"]
    BY <1>6 DEF Continues
  <2>2. /\ c'.state = "RESPOND" /\ c'.events = "out" /\ c'.reply = "100" /\ c'.closed = FALSE
        /\ c'.req = s.req /\ c'.inbound = s.inbound
    BY <2>1 DEF Connection
  <2>3. s.req.post /\ s.req.expect /\ s.inbound = <<>>
    BY <2>1 DEF WantsContinue
  <2>4. Inviting(Pend)'
    BY <1>1, <2>1, <2>2, <2>3 DEF Inviting
  <2>5. ~ Busy'
    BY <2>2 DEF Busy
  <2> QED
    BY <1>3, <1>4, <2>2, <2>4, <2>5
<1>7. CASE Dispatches(s)
  <2>1. s.state = "RESPOND" /\ NoMore' /\ c' \in {[s EXCEPT !.events = "hold"], Fail(s)}
    BY <1>7 DEF Dispatches
  <2>2. CASE c' = [s EXCEPT !.events = "hold"]
    <3>1. /\ c'.state = "RESPOND" /\ c'.events = "hold" /\ c'.closed = FALSE
          /\ c'.req = s.req
      BY <2>1, <2>2 DEF Connection
    <3>2. Ending'
      BY <1>1, <2>1, <3>1 DEF Ending
    <3>3. Busy'
      BY <3>1 DEF Busy
    <3>4. Finals < Len(sent)
      OBVIOUS
    <3> QED
      BY <1>1, <1>3, <3>1, <3>2, <3>3, <3>4, Begins
  <2>3. CASE c' = Fail(s)
    <3>1. /\ c'.state = "ERROR" /\ c'.events = "out" /\ c'.closed = FALSE /\ c'.reply = "error"
      BY <2>3 DEF Connection, Fail
    <3>2. Ending' /\ ~ Busy'
      BY <2>1, <3>1 DEF Ending, Busy
    <3> QED
      BY <1>3, <1>4, <3>1, <3>2
  <2> QED
    BY <2>1, <2>2, <2>3
<1> QED
  BY <1>5, <1>6, <1>7 DEF Responds

LEMMA WithinWire ==
  ASSUME NEW n \in Nat, NEW k \in 1 .. Least(RecvMax, n)
  PROVE  k \in 1 .. n
<1>1. RecvMax \in Nat
  BY MessageAssumption
<1> QED
  BY <1>1 DEF Least

LEMMA PendKinds ==
  ASSUME Kinds, Finals \in Nat, Len(sent) = Finals + 1
  PROVE  Pend \in Messages /\ (Asks100(Pend) => Expects)
<1>1. sent \in Seq(Messages) /\ Len(sent) \in DOMAIN sent
  BY DEF Kinds
<1> QED
  BY <1>1 DEF Pend, Expects

\* What is buffered, on the wire and not sent is what it was.
LEMMA SameUnitsLeft ==
  ASSUME Kinds, NEW t, NEW k, Arrives(t, k), wire' = After(wire, k), rest' = rest
  PROVE  /\ Len(t.inbound) \in Nat /\ Len(wire') \in Nat /\ Len(rest') \in Nat
         /\ Len(t.inbound) + Len(wire') + Len(rest') = Units
         /\ k >= 1 /\ k <= Len(t.inbound) /\ wire' \in Seq(Unit) /\ rest' \in Seq(Unit)
<1>1. rest \in Seq(Unit) /\ Len(rest) \in Nat /\ k \in 1 .. Len(wire)
  BY DEF Kinds, Arrives
<1>2. /\ Len(wire) \in Nat /\ Len(c.inbound) \in Nat /\ Len(t.inbound) = Len(c.inbound) + k
      /\ After(wire, k) \in Seq(Unit) /\ Len(After(wire, k)) = Len(wire) - k
  BY FilledBuffer
<1>3. Units = Len(c.inbound) + Len(wire) + Len(rest)
  BY DEF Units
<1> QED
  BY <1>1, <1>2, <1>3

LEMMA EmptyUnits ==
  ASSUME NEW q \in Seq(Unit), Len(q) = 0
  PROVE  q = <<>>
OBVIOUS

LEMMA BodyParts ==
  ASSUME NEW a \in Nat, NEW w \in Nat, NEW r \in Nat, NEW b \in Nat, a + w + r = b
  PROVE  /\ a <= b /\ (a = b => w = 0 /\ r = 0)
         /\ r = b => a = 0 /\ w = 0
         /\ b = 0 => a = 0 /\ w = 0 /\ r = 0
OBVIOUS

\* What is left of m once its header is in the buffer of t: nothing is on the
\* wire if all of the body is still to be sent, or if there is none.
LEMMA BehindHeader ==
  ASSUME NEW t, NEW m, t.inbound \in Seq(Unit), m.body \in Seq(Unit), m.lines \in Nat,
         wire' \in Seq(Unit), rest' \in Seq(Unit), m.lines < Len(t.inbound),
         Len(t.inbound) + Len(wire') + Len(rest') = m.lines + 1 + Len(m.body)
  PROVE  /\ rest' = m.body => wire' = <<>>
         /\ m.body = <<>> => wire' = <<>> /\ rest' = <<>>
         /\ Len(t.inbound) - (m.lines + 1) <= Len(m.body)
         /\ (Len(t.inbound) - (m.lines + 1)) + Len(wire') + Len(rest') = Len(m.body)
<1>1. /\ Len(t.inbound) \in Nat /\ Len(wire') \in Nat /\ Len(rest') \in Nat
      /\ Len(m.body) \in Nat
  OBVIOUS
<1>2. PICK a \in Nat, w \in Nat, r \in Nat, l \in Nat, b \in Nat :
        /\ a = Len(t.inbound) /\ w = Len(wire') /\ r = Len(rest')
        /\ l = m.lines /\ b = Len(m.body)
  BY <1>1
<1>3. l < a /\ a + w + r = l + 1 + b
  BY <1>2
<1>4. /\ a - (l + 1) <= b /\ (a - (l + 1)) + w + r = b
      /\ r = b => w = 0
      /\ b = 0 => w = 0 /\ r = 0
  BY <1>3
<1>5. /\ rest' = m.body => r = b
      /\ m.body = <<>> => b = 0
  BY <1>2
<1>6. /\ w = 0 => wire' = <<>>
      /\ r = 0 => rest' = <<>>
  BY <1>2, EmptyUnits
<1> QED
  BY <1>2, <1>4, <1>5, <1>6

\* What is left of m while s holds a part of its body.
LEMMA WithinBody ==
  ASSUME NEW s, NEW m, s.inbound \in Seq(Unit), m.body \in Seq(Unit),
         wire' \in Seq(Unit), rest' \in Seq(Unit),
         Len(s.inbound) + Len(wire') + Len(rest') = Len(m.body)
  PROVE  /\ rest' = m.body => s.inbound = <<>> /\ wire' = <<>>
         /\ m.body = <<>> => s.inbound = <<>> /\ wire' = <<>> /\ rest' = <<>>
         /\ Len(s.inbound) <= Len(m.body)
         /\ Len(s.inbound) = Len(m.body) => wire' = <<>> /\ rest' = <<>>
<1>1. /\ Len(s.inbound) \in Nat /\ Len(wire') \in Nat /\ Len(rest') \in Nat
      /\ Len(m.body) \in Nat
  OBVIOUS
<1>2. /\ Len(s.inbound) <= Len(m.body)
      /\ Len(s.inbound) = Len(m.body) => Len(wire') = 0 /\ Len(rest') = 0
      /\ Len(rest') = Len(m.body) => Len(s.inbound) = 0 /\ Len(wire') = 0
      /\ Len(m.body) = 0 => Len(s.inbound) = 0 /\ Len(wire') = 0 /\ Len(rest') = 0
  BY <1>1, BodyParts
<1>3. /\ rest' = m.body => Len(rest') = Len(m.body)
      /\ m.body = <<>> => Len(m.body) = 0
  OBVIOUS
<1> QED
  BY <1>2, <1>3, EmptyUnits

\* A call of pollin while the header is coming.
LEMMA HeadingTurns ==
  ASSUME WaitingPeer, Kinds, Finals \in Nat, Len(sent) = Finals + 1, c.closed = FALSE,
         Heading(Pend), NEW t, NEW k, Arrives(t, k), wire' = After(wire, k),
         UNCHANGED <<rest, sent, replies>>,
         NEW s, s = ReceiveBody(ReceiveHeader(t), 0), Responds(s)
  PROVE  TurnInv' /\ [Promise!Next]_(Promise!vars)
<1> DEFINE m == Pend
<1>1. m \in Messages /\ (Asks100(m) => Expects)
  BY PendKinds
<1>2. /\ t \in Connection /\ t.inbound \in Seq(Unit)
      /\ t.state = "HEADER" /\ t.events = "in" /\ t.reply = "none" /\ t.closed = FALSE
  BY FilledBuffer DEF Heading
<1>3. /\ Len(t.inbound) \in Nat /\ Len(wire') \in Nat /\ Len(rest') \in Nat
      /\ Len(t.inbound) + Len(wire') + Len(rest') = m.lines + 1 + Len(m.body)
      /\ wire' \in Seq(Unit) /\ rest' \in Seq(Unit)
  BY SameUnitsLeft DEF Heading
<1>4. /\ 1 <= m.lines /\ m.lines <= MaxHeader /\ m.lines \in Nat /\ m.body \in Seq(Unit)
      /\ MaxHeader \in Nat /\ Len(m.body) \in Nat /\ m.valid \in BOOLEAN
      /\ (m.valid \/ m.body = <<>> \/ Asks100(m))
  BY <1>1, Managed
<1>5. /\ Finals' = Finals /\ (Expects' <=> Expects) /\ (GoAhead' <=> GoAhead)
      /\ Len(sent') = Len(sent) /\ Pend' = m
  BY SameReplies
<1>6. ~ Busy
  BY DEF Busy, Heading
<1>7. ~ GoAhead' /\ (Expects => rest' = m.body)
  BY <1>5 DEF Heading
<1>8. /\ \A j \in 1 .. Len(t.inbound) : j <= m.lines => t.inbound[j] = Line
      /\ m.lines < Len(t.inbound) => t.inbound[m.lines + 1] = End(m)
      /\ Len(t.inbound) <= m.lines =>
           /\ m.lines + 1 <= Len(t.inbound) + Len(wire')
           /\ \A j \in 1 .. m.lines - Len(t.inbound) : wire'[j] = Line
           /\ wire'[m.lines + 1 - Len(t.inbound)] = End(m)
  BY <1>1, HeaderFills
<1>9. Units' = Len(c'.inbound) + Len(wire') + Len(rest')
  BY DEF Units
<1>10. Len(m.body) = 0 => m.body = <<>>
  BY <1>4, EmptyUnits
<1> HIDE DEF m
<1>11. CASE Len(t.inbound) <= m.lines
  <2>1. \A j \in 1 .. Len(t.inbound) : t.inbound[j] = Line
    BY <1>3, <1>4, <1>8, <1>11
  <2>2. EndOfHeader(t.inbound) = 0
    BY <1>2, <2>1, NoEndYet
  <2>3. ReceiveHeader(t) = t
    BY <1>2, <1>3, <1>4, <1>11, <2>2 DEF ReceiveHeader
  <2>4. s = t
    BY <1>2, <2>3 DEF ReceiveBody
  <2>5. c' = s => Heading(m)'
    <3> SUFFICES ASSUME c' = t PROVE Heading(m)'
      BY <2>4
    <3>1. Units' = m.lines + 1 + Len(m.body)
      BY <1>3, <1>9
    <3>2. m' = m
      BY <1>5 DEF m
    <3> QED
      BY <1>2, <1>5, <1>7, <1>8, <1>11, <2>1, <3>1, <3>2 DEF Heading
  <2> QED
    BY <1>2, <1>5, <1>6, <2>4, <2>5, Turned DEF m
<1>12. CASE Len(t.inbound) > m.lines /\ ~ m.valid
  <2>1. EndOfHeader(t.inbound) = m.lines + 1 /\ ~ WellFormed(t.inbound, m.lines + 1)
    <3>1. /\ m.lines < Len(t.inbound) /\ t.inbound[m.lines + 1] = End(m)
          /\ \A j \in 1 .. m.lines : t.inbound[j] = Line
      BY <1>3, <1>4, <1>8, <1>12
    <3> QED
      BY <1>1, <1>2, <1>4, <1>12, <3>1, EndThere
  <2>2. ReceiveHeader(t) = Fail(t)
    BY <1>2, <1>4, <2>1 DEF ReceiveHeader
  <2>3. /\ s = Fail(t) /\ s \in Connection /\ s.state = "ERROR" /\ s.events = "out"
        /\ s.reply = "error" /\ s.closed = FALSE
    BY <1>2, <2>2 DEF ReceiveBody, Fail, Connection
  <2>4. NoMore'
    <3>1. /\ rest' = m.body => wire' = <<>>
          /\ m.body = <<>> => wire' = <<>> /\ rest' = <<>>
      BY <1>2, <1>3, <1>4, <1>12, BehindHeader
    <3>2. m.body = <<>> \/ (Expects /\ rest' = m.body)
      BY <1>1, <1>4, <1>7, <1>12
    <3> QED
      BY <1>5, <1>7, <3>1, <3>2 DEF NoMore
  <2> QED
    BY <1>6, <2>3, <2>4, Turned
<1>13. CASE Len(t.inbound) > m.lines /\ m.valid
  <2>1. EndOfHeader(t.inbound) = m.lines + 1 /\ WellFormed(t.inbound, m.lines + 1)
    <3>1. /\ m.lines < Len(t.inbound) /\ t.inbound[m.lines + 1] = End(m)
          /\ \A j \in 1 .. m.lines : t.inbound[j] = Line
      BY <1>3, <1>4, <1>8, <1>13
    <3> QED
      BY <1>1, <1>2, <1>4, <1>13, <3>1, EndThere
  <2> DEFINE h == HeaderAccepted(t, m.lines + 1)
  <2>2. ReceiveHeader(t) = h
    BY <1>2, <1>4, <2>1 DEF ReceiveHeader
  <2>3. /\ h \in Connection /\ SameLink(h, t) /\ h.req = Parsed(m) /\ h.left = 0
        /\ Len(h.inbound) = Len(t.inbound) - (m.lines + 1)
        /\ h.req.lengthKnown => h.total = Len(h.inbound)
        /\ h.state = IF h.req.expect /\ h.inbound = <<>> THEN "RESPOND" ELSE "BODY"
    <3>1. Len(t.inbound) - (m.lines + 1) <= Len(m.body)
      BY <1>3, <1>4
    <3>2. m.lines < Len(t.inbound) /\ t.inbound[m.lines + 1] = End(m)
      BY <1>3, <1>4, <1>8, <1>13
    <3> QED
      BY <1>1, <1>2, <3>1, <3>2, HeadAccepted
  <2> HIDE DEF h
  <2>4. /\ h.closed = FALSE /\ h.events = "in" /\ h.reply = "none"
        /\ h.inbound \in Seq(Unit) /\ Len(h.inbound) \in Nat
        /\ Len(h.inbound) + Len(wire') + Len(rest') = Len(m.body)
    <3>1. h.closed = FALSE /\ h.events = "in" /\ h.reply = "none"
      BY <1>2, <2>3 DEF SameLink
    <3>2. h.inbound \in Seq(Unit) /\ Len(h.inbound) \in Nat
      BY <2>3 DEF Connection
    <3>3. Len(h.inbound) + Len(wire') + Len(rest') = Len(m.body)
      <4>1. (Len(t.inbound) - (m.lines + 1)) + Len(wire') + Len(rest') = Len(m.body)
        BY <1>2, <1>3, <1>4, <1>13, BehindHeader
      <4> QED
        BY <2>3, <4>1
    <3> QED
      BY <3>1, <3>2, <3>3
  <2>5. /\ h.req.lengthKnown \in BOOLEAN /\ h.req.expect \in BOOLEAN /\ h.req.post \in BOOLEAN
        /\ (h.req.expect => Expects) /\ ~ h.req.chunked
        /\ (~ h.req.lengthKnown => m.body = <<>>)
        /\ (h.req.lengthKnown => m.length = Len(m.body))
    BY <1>1, <2>3, Managed
  <2>6. CASE h.req.expect
    <3>1. Expects /\ rest' = m.body
      BY <1>7, <2>5, <2>6
    <3>3. h.inbound = <<>> /\ wire' = <<>>
      BY <1>3, <1>4, <2>4, <3>1, WithinBody
    <3>4. h.state = "RESPOND" /\ s = h
      BY <2>2, <2>3, <2>6, <3>3 DEF ReceiveBody
    <3>5. NoMore'
      BY <1>5, <1>7, <3>1, <3>3 DEF NoMore
    <3>6. c'.inbound = h.inbound => Units' = Len(m.body)
      BY <1>9, <2>4
    <3> QED
      BY <1>6, <2>3, <2>4, <2>5, <3>1, <3>4, <3>5, <3>6, Turned DEF m
  <2>7. CASE ~ h.req.expect /\ h.req.lengthKnown
    <3>1. h.state = "BODY" /\ h.total = Len(h.inbound)
      BY <2>3, <2>7
    <3>0. h.total + 0 = Len(h.inbound) /\ Len(h.inbound) <= Len(m.body)
      BY <1>3, <1>4, <2>4, <3>1, WithinBody
    <3>2. /\ s \in Connection /\ SameLink(s, h) /\ s.req = h.req /\ s.inbound = h.inbound
          /\ s.left = m.length /\ s.total = Len(s.inbound)
          /\ s.state = IF Len(h.inbound) = Len(m.body) THEN "RESPOND" ELSE "BODY"
      BY <1>1, <2>2, <2>3, <2>7, <3>0, <3>1, LengthCounted
    <3>3. s.closed = FALSE /\ s.events = "in" /\ s.reply = "none"
      BY <2>4, <3>2 DEF SameLink
    <3>4. s.state = "RESPOND" => NoMore'
      <4>1. s.state = "RESPOND" => wire' = <<>> /\ rest' = <<>>
        BY <1>3, <1>4, <2>4, <3>2, WithinBody
      <4> QED
        BY <4>1 DEF NoMore
    <3>5. ~ WantsContinue(s)
      BY <2>7, <3>2 DEF WantsContinue
    <3>6. c' = s /\ s.state = "BODY" => Bodying(m)'
      <4> SUFFICES ASSUME c' = s, s.state = "BODY" PROVE Bodying(m)'
        OBVIOUS
      <4>1. Units' = Len(m.body)
        BY <1>9, <2>4, <3>2
      <4>2. m' = m
        BY <1>5 DEF m
      <4> QED
        BY <2>3, <3>2, <3>3, <4>1, <4>2 DEF Bodying
    <3>7. s.state # "HEADER" /\ s.state # "ERROR"
      BY <3>2
    <3> QED
      BY <1>5, <1>6, <2>3, <2>5, <2>7, <3>2, <3>3, <3>4, <3>5, <3>6, <3>7, Turned DEF m
  <2>8. CASE ~ h.req.expect /\ ~ h.req.lengthKnown
    <3>1. s = [h EXCEPT !.state = "RESPOND"]
      BY <2>2, <2>3, <2>5, <2>8 DEF ReceiveBody
    <3>2. /\ s \in Connection /\ s.state = "RESPOND" /\ s.req = h.req
          /\ s.closed = FALSE /\ s.events = "in" /\ s.reply = "none"
      BY <2>3, <2>4, <3>1 DEF Connection
    <3>4. NoMore'
      BY <1>3, <1>4, <2>4, <2>5, <2>8, WithinBody DEF NoMore
    <3>5. ~ WantsContinue(s)
      BY <2>8, <3>2 DEF WantsContinue
    <3> QED
      BY <1>6, <2>3, <2>5, <2>8, <3>2, <3>4, <3>5, Turned DEF m
  <2> QED
    BY <2>5, <2>6, <2>7, <2>8
<1> QED
  BY <1>3, <1>4, <1>11, <1>12, <1>13

\* A call of pollin while the body is coming.
LEMMA BodyingTurns ==
  ASSUME WaitingPeer, Kinds, Finals \in Nat, Len(sent) = Finals + 1, c.closed = FALSE,
         Bodying(Pend), NEW t, NEW k, Arrives(t, k), wire' = After(wire, k),
         UNCHANGED <<rest, sent, replies>>,
         NEW s, s = ReceiveBody(ReceiveHeader(t), k), Responds(s)
  PROVE  TurnInv' /\ [Promise!Next]_(Promise!vars)
<1> DEFINE m == Pend
<1>1. m \in Messages /\ (Asks100(m) => Expects)
  BY PendKinds
<1>2. /\ t \in Connection /\ t.inbound \in Seq(Unit) /\ k \in Nat /\ Len(c.inbound) \in Nat
      /\ t.state = "BODY" /\ t.events = "in" /\ t.reply = "none" /\ t.closed = FALSE
      /\ t.req = Parsed(m) /\ t.total = c.total /\ t.left = c.left
      /\ Len(t.inbound) = Len(c.inbound) + k
  BY FilledBuffer DEF Bodying
<1>3. /\ Len(t.inbound) \in Nat /\ Len(wire') \in Nat /\ Len(rest') \in Nat
      /\ Len(t.inbound) + Len(wire') + Len(rest') = Len(m.body)
      /\ wire' \in Seq(Unit) /\ rest' \in Seq(Unit) /\ k >= 1 /\ k <= Len(t.inbound)
  BY SameUnitsLeft DEF Bodying
<1>4. /\ m.body \in Seq(Unit) /\ Len(m.body) \in Nat
      /\ t.req.lengthKnown \in BOOLEAN /\ t.req.expect \in BOOLEAN /\ t.req.post \in BOOLEAN
      /\ (t.req.expect => Expects) /\ (~ t.req.lengthKnown => m.body = <<>>)
      /\ (t.req.lengthKnown => m.length = Len(m.body))
  BY <1>1, <1>2, Managed
<1>5. Pend' = m
  BY SameReplies
<1>6. ~ Busy
  BY DEF Busy, Bodying
<1>7. Units' = Len(c'.inbound) + Len(wire') + Len(rest')
  BY DEF Units
<1>8. t.req.lengthKnown => t.total + k = Len(t.inbound) /\ t.left \in {0, m.length}
  BY <1>2 DEF Bodying
<1> HIDE DEF m
<1>9. t.inbound # <<>>
  <2>1. Len(t.inbound) # 0
    BY <1>2, <1>3
  <2> QED
    BY <2>1
<1>10. /\ Len(t.inbound) <= Len(m.body) /\ m.body # <<>>
       /\ Len(t.inbound) = Len(m.body) => wire' = <<>> /\ rest' = <<>>
  BY <1>2, <1>3, <1>4, <1>9, WithinBody
<1>11. ReceiveHeader(t) = t
  BY <1>2 DEF ReceiveHeader
<1>12. /\ s \in Connection /\ SameLink(s, t) /\ s.req = t.req /\ s.inbound = t.inbound
       /\ s.left = m.length /\ s.total = Len(s.inbound)
       /\ s.state = IF Len(t.inbound) = Len(m.body) THEN "RESPOND" ELSE "BODY"
  BY <1>1, <1>2, <1>4, <1>8, <1>10, <1>11, LengthCounted
<1>13. s.closed = FALSE /\ s.events = "in" /\ s.reply = "none"
  BY <1>2, <1>12 DEF SameLink
<1>14. s.state = "RESPOND" => NoMore'
  BY <1>10, <1>12 DEF NoMore
<1>15. ~ WantsContinue(s)
  BY <1>9, <1>12 DEF WantsContinue
<1>16. c' = s /\ s.state = "BODY" => Bodying(m)'
  <2> SUFFICES ASSUME c' = s, s.state = "BODY" PROVE Bodying(m)'
    OBVIOUS
  <2>1. Units' = Len(m.body)
    BY <1>3, <1>7, <1>12
  <2>2. m' = m
    BY <1>5 DEF m
  <2> QED
    BY <1>2, <1>12, <1>13, <2>1, <2>2 DEF Bodying
<1>17. s.state # "HEADER" /\ s.state # "ERROR"
  BY <1>12
<1> QED
  BY <1>2, <1>4, <1>5, <1>6, <1>12, <1>13, <1>14, <1>15, <1>16, <1>17, Turned DEF m

-----------------------------------------------------------------------------
(***************************************************************************)
(* One lemma per action: it keeps the invariant and is a step of Exchange  *)
(* or none.                                                                *)
(***************************************************************************)
LEMMA PollinTurns ==
  ASSUME WaitingPeer, Kinds, Finals \in Nat, TurnInv, Pollin
  PROVE  TurnInv' /\ [Promise!Next]_(Promise!vars)
<1>1. /\ c.closed = FALSE /\ c.events = "in" /\ wire \in Seq(Unit) /\ Len(wire) \in Nat
      /\ UNCHANGED <<rest, sent, replies>>
  BY DEF Pollin, Kinds, Connection
<1>2. PICK k \in 1 .. Least(RecvMax, Len(wire)) :
        LET s == Received(c, SubSeq(wire, 1, k)) IN Responds(s) /\ wire' = After(wire, k)
  BY DEF Pollin, Responds
<1>3. k \in 1 .. Len(wire)
  BY <1>1, WithinWire
<1> DEFINE t == [c EXCEPT !.inbound = c.inbound \o SubSeq(wire, 1, k)]
           s == Received(c, SubSeq(wire, 1, k))
<1>4. Arrives(t, k)
  BY <1>3 DEF Arrives
<1>5. Len(SubSeq(wire, 1, k)) = k
  BY <1>1, <1>3
<1>6. s = ReceiveBody(ReceiveHeader(t), IF c.state = "HEADER" THEN 0 ELSE k)
  BY <1>5 DEF Received
<1>7. Responds(s) /\ wire' = After(wire, k)
  BY <1>2
<1> HIDE DEF t, s
<1>8. ~ NoMore
  BY <1>1, <1>3 DEF NoMore
<1>9. Len(sent) = Finals + 1 /\ (Heading(Pend) \/ Bodying(Pend) \/ Inviting(Pend))
  BY <1>8 DEF TurnInv, Idle, Pending, Ending, Pend
<1>10. CASE Heading(Pend)
  <2>1. s = ReceiveBody(ReceiveHeader(t), 0)
    BY <1>6, <1>10 DEF Heading
  <2> QED
    BY <1>1, <1>4, <1>7, <1>9, <1>10, <2>1, HeadingTurns
<1>11. CASE Bodying(Pend)
  <2>1. s = ReceiveBody(ReceiveHeader(t), k)
    BY <1>6, <1>11 DEF Bodying
  <2> QED
    BY <1>1, <1>4, <1>7, <1>9, <1>11, <2>1, BodyingTurns
<1>12. ~ Inviting(Pend)
  BY <1>1 DEF Inviting
<1> QED
  BY <1>9, <1>10, <1>11, <1>12

LEMMA CompleteTurns ==
  ASSUME Kinds, Finals \in Nat, TurnInv, Complete
  PROVE  TurnInv' /\ [Promise!Next]_(Promise!vars)
<1>1. /\ c.closed = FALSE /\ c.events = "hold" /\ UNCHANGED <<wire, rest, sent, replies>>
      /\ c' = [c EXCEPT !.reply = "final", !.events = "out"] /\ c \in Connection
  BY DEF Complete, Kinds, Connection
<1>2. Len(sent) = Finals + 1 /\ Ending
  BY <1>1 DEF TurnInv, Idle, Pending, Heading, Bodying, Inviting
<1>3. /\ c'.reply = "final" /\ c'.events = "out" /\ c'.closed = FALSE
      /\ c'.state = c.state /\ c'.req = c.req
  BY <1>1 DEF Connection
<1>4. /\ Finals' = Finals /\ (Expects' <=> Expects) /\ (GoAhead' <=> GoAhead)
      /\ Len(sent') = Len(sent)
  BY <1>1, SameReplies
<1>5. NoMore'
  BY <1>1, <1>2, <1>4 DEF NoMore, Ending
<1>6. Ending'
  BY <1>2, <1>3, <1>4, <1>5 DEF Ending
<1>7. TurnInv'
  BY <1>2, <1>3, <1>4, <1>6 DEF TurnInv, Pending
<1>8. Busy /\ Busy'
  BY <1>1, <1>3 DEF Busy
<1> QED
  BY <1>1, <1>3, <1>4, <1>7, <1>8, NothingSeen

LEMMA PolloutTurns ==
  ASSUME WaitingPeer, Kinds, Finals \in Nat, TurnInv, Pollout
  PROVE  TurnInv' /\ [Promise!Next]_(Promise!vars)
<1>1. /\ c.closed = FALSE /\ c.events = "out" /\ UNCHANGED <<wire, rest, sent>>
      /\ replies' = Append(replies, c.reply) /\ c' = AfterReply(c) /\ c \in Connection
  BY DEF Pollout, Kinds, Connection
<1>2. Len(sent) = Finals + 1 /\ (Inviting(Pend) \/ Ending)
  BY <1>1 DEF TurnInv, Idle, Pending, Heading, Bodying, Pend
<1>3. c.reply \in {"100", "final", "error"}
  BY <1>1, <1>2 DEF Inviting, Ending
<1>4. Finals' = IF c.reply = "100" THEN Finals ELSE Finals + 1
  <2>1. replies \in Seq({"100", "final", "error"})
    BY DEF Kinds
  <2>2. Finals = FinalsIn(replies) /\ Finals' = FinalsIn(replies')
    BY DEF Finals, FinalsIn
  <2> QED
    BY <1>1, <1>3, <2>1, <2>2, OneMore
<1>5. GoAhead' <=> c.reply = "100"
  <2>1. replies \in Seq({"100", "final", "error"})
    BY DEF Kinds
  <2>2. /\ DOMAIN Append(replies, c.reply) = 1 .. Len(replies) + 1
        /\ Len(Append(replies, c.reply)) = Len(replies) + 1
        /\ Append(replies, c.reply)[Len(replies) + 1] = c.reply
        /\ Len(replies) \in Nat
    BY <1>3, <2>1
  <2> QED
    BY <1>1, <2>2 DEF GoAhead
<1>6. (Expects' <=> Expects) /\ Len(sent') = Len(sent) /\ Pend' = Pend
  BY <1>1 DEF Expects, Pend
<1>7. CASE Inviting(Pend)
  <2>1. /\ c.state = "RESPOND" /\ c.reply = "100" /\ c.req = Parsed(Pend) /\ c.req.post
        /\ c.req.expect /\ c.inbound = <<>> /\ Units = Len(Pend.body)
    BY <1>7 DEF Inviting
  <2>2. c.req.keep
    BY <1>2, <2>1, PendKinds, Managed
  <2>3. c' = [c EXCEPT !.total = 0, !.left = 0, !.state = "BODY", !.events = "in",
                       !.reply = "none"]
    BY <1>1, <2>1, <2>2 DEF AfterReply
  <2>4. /\ c'.total = 0 /\ c'.left = 0 /\ c'.state = "BODY" /\ c'.events = "in"
        /\ c'.reply = "none" /\ c'.closed = FALSE /\ c'.req = c.req /\ c'.inbound = <<>>
    BY <1>1, <2>1, <2>3 DEF Connection
  <2>5. Units' = Units
    BY <1>1, <2>1, <2>4 DEF Units
  <2>6. Bodying(Pend)'
    BY <1>6, <2>1, <2>4, <2>5 DEF Bodying
  <2>7. Finals' = Finals /\ ~ Busy /\ ~ Busy'
    BY <1>1, <1>4, <2>1, <2>4 DEF Busy
  <2>8. TurnInv'
    BY <1>2, <1>6, <2>4, <2>6, <2>7 DEF TurnInv, Pending, Pend
  <2> QED
    BY <1>1, <1>6, <2>4, <2>7, <2>8, NothingSeen
<1>8. CASE Ending
  <2>1. /\ NoMore /\ c.reply \in {"final", "error"}
        /\ c.state # "ERROR" => (c.req.post /\ c.req.expect => Expects)
    BY <1>1, <1>8 DEF Ending
  <2>2. Finals' = Finals + 1 /\ ~ GoAhead'
    BY <1>4, <1>5, <2>1
  <2>3. NoMore'
    BY <1>1, <1>6, <2>1, <2>2 DEF NoMore
  <2>4. \/ c' = Clean(c)
        \/ c' = [c EXCEPT !.closed = TRUE, !.reply = "none"]
        \/ Expects /\ c' = [c EXCEPT !.total = 0, !.left = 0, !.state = "BODY",
                                     !.events = "in", !.reply = "none"]
    BY <1>1, <2>1 DEF AfterReply
  <2>5. /\ c'.reply = "none" /\ c'.events # "hold" /\ c'.closed \in BOOLEAN
        /\ ~ c'.closed => /\ c'.events = "in"
                          /\ Expects \/ (c'.state = "HEADER" /\ c'.inbound = <<>>)
    <3>1. CASE c' = Clean(c)
      BY <1>1, <3>1 DEF Clean, Connection
    <3>2. CASE c' = [c EXCEPT !.closed = TRUE, !.reply = "none"]
      BY <1>1, <3>2 DEF Connection
    <3>3. CASE Expects /\ c' = [c EXCEPT !.total = 0, !.left = 0, !.state = "BODY",
                                         !.events = "in", !.reply = "none"]
      BY <1>1, <3>3 DEF Connection
    <3> QED
      BY <2>4, <3>1, <3>2, <3>3
  <2>6. Idle'
    BY <1>2, <1>6, <2>2, <2>3, <2>5 DEF Idle
  <2>7. ~ Busy'
    BY <2>5 DEF Busy
  <2>8. Promise!Next
    <3>1. Finals < Len(sent)
      BY <1>2
    <3> QED
      BY <1>6, <2>2, <2>5, <2>7, <3>1, Replied
  <2> QED
    BY <2>6, <2>8 DEF TurnInv
<1> QED
  BY <1>2, <1>7, <1>8

LEMMA SendRequestTurns ==
  ASSUME WaitingPeer, Kinds, Finals \in Nat, TurnInv, SendRequest
  PROVE  TurnInv' /\ [Promise!Next]_(Promise!vars)
<1>1. /\ c.closed = FALSE /\ Len(sent) < MaxSent /\ rest = <<>> /\ UNCHANGED <<c, replies>>
      /\ Finals >= Len(sent) /\ ~ Expects /\ c \in Connection /\ sent \in Seq(Messages)
  BY DEF SendRequest, WaitingPeer, Answered, Kinds, Connection
<1>2. Len(sent) \in Nat
  BY <1>1
<1>3. Idle
  BY <1>1, <1>2 DEF TurnInv, Pending
<1>4. /\ Finals = Len(sent) /\ wire = <<>> /\ ~ GoAhead /\ c.events = "in"
      /\ c.reply = "none" /\ c.state = "HEADER" /\ c.inbound = <<>>
  BY <1>1, <1>3 DEF Idle, NoMore
<1>5. PICK m \in Messages : /\ sent' = Append(sent, m) /\ wire' = wire \o Header(m)
                            /\ rest' = m.body
  BY DEF SendRequest
<1>6. /\ Header(m) \in Seq(Unit) /\ Len(Header(m)) = m.lines + 1 /\ m.lines \in Nat
      /\ \A k \in 1 .. m.lines : Header(m)[k] = Line
      /\ Header(m)[m.lines + 1] = End(m)
  BY HeaderKinds, MessageKinds
<1>7. wire' = Header(m)
  BY <1>4, <1>5, <1>6
<1>8. Len(sent') = Len(sent) + 1 /\ Pend' = m
  BY <1>1, <1>5 DEF Pend
<1>9. Finals' = Finals /\ (GoAhead' <=> GoAhead)
  BY <1>1 DEF Finals, GoAhead
<1>10. Units' = m.lines + 1 + Len(m.body)
  <2>1. Units' = Len(c.inbound) + Len(wire') + Len(m.body)
    BY <1>1, <1>5 DEF Units
  <2>2. Len(c.inbound) = 0 /\ Len(m.body) \in Nat
    BY <1>4, MessageKinds
  <2> QED
    BY <1>6, <1>7, <2>1, <2>2
<1>11. /\ c' = c /\ Len(c'.inbound) = 0
       /\ c'.state = "HEADER" /\ c'.events = "in" /\ c'.reply = "none"
  BY <1>1, <1>4
<1>12. /\ Len(c'.inbound) <= m.lines /\ m.lines + 1 <= Len(c'.inbound) + Len(wire')
       /\ \A k \in 1 .. Len(c'.inbound) : c'.inbound[k] = Line
       /\ \A k \in 1 .. m.lines - Len(c'.inbound) : wire'[k] = Line
       /\ wire'[m.lines + 1 - Len(c'.inbound)] = End(m)
  BY <1>6, <1>7, <1>11
<1>13. Heading(Pend)'
  BY <1>4, <1>5, <1>8, <1>9, <1>10, <1>11, <1>12 DEF Heading
<1>14. TurnInv'
  BY <1>1, <1>4, <1>8, <1>9, <1>11, <1>13 DEF TurnInv, Pending, Pend
<1>15. ~ Busy /\ ~ Busy'
  BY <1>4, <1>11 DEF Busy
<1> QED
  BY <1>1, <1>4, <1>8, <1>9, <1>14, <1>15, Asked

LEMMA SendBodyTurns ==
  ASSUME WaitingPeer, Kinds, Finals \in Nat, TurnInv, SendBody
  PROVE  TurnInv' /\ [Promise!Next]_(Promise!vars)
<1>1. /\ c.closed = FALSE /\ rest # <<>> /\ (~ Expects \/ GoAhead)
      /\ wire' = wire \o rest /\ rest' = <<>> /\ UNCHANGED <<c, sent, replies>>
      /\ c \in Connection /\ wire \in Seq(Unit) /\ rest \in Seq(Unit)
  BY DEF SendBody, WaitingPeer, Kinds, Connection
<1>2. ~ NoMore
  BY <1>1 DEF NoMore
<1>3. Len(sent) = Finals + 1 /\ (Heading(Pend) \/ Bodying(Pend) \/ Inviting(Pend))
  BY <1>2 DEF TurnInv, Idle, Pending, Ending, Pend
<1>4. /\ Finals' = Finals /\ (Expects' <=> Expects) /\ (GoAhead' <=> GoAhead)
      /\ Len(sent') = Len(sent) /\ Pend' = Pend
  BY <1>1, SameReplies
<1>5. /\ Len(wire) \in Nat /\ Len(rest) \in Nat /\ Len(wire') = Len(wire) + Len(rest)
      /\ \A k \in 1 .. Len(wire) : wire'[k] = wire[k]
  BY <1>1, JoinedUnits
<1>6. Units' = Units
  <2>1. PICK i \in Nat, w \in Nat, r \in Nat :
          i = Len(c.inbound) /\ w = Len(wire) /\ r = Len(rest)
    BY <1>1, <1>5 DEF Connection
  <2>2. Units = i + w + r
    BY <2>1 DEF Units
  <2>3. Len(c'.inbound) = i /\ Len(wire') = w + r /\ Len(rest') = 0
    BY <1>1, <1>5, <2>1
  <2>4. Units' = i + (w + r) + 0
    BY <2>3 DEF Units
  <2> QED
    BY <2>2, <2>4
<1>7. CASE Heading(Pend)
  <2>1. PICK n \in Nat, l \in Nat : n = Len(c.inbound) /\ l = Pend.lines
    <3>1. Pend \in Messages
      BY <1>3, PendKinds
    <3>2. Pend.lines \in Nat
      BY <3>1, MessageKinds
    <3>3. Len(c.inbound) \in Nat
      BY <1>1 DEF Connection
    <3> QED
      BY <3>2, <3>3
  <2>2. /\ n <= l /\ l + 1 <= n + Len(wire) /\ ~ GoAhead
        /\ \A k \in 1 .. n : c.inbound[k] = Line
        /\ \A k \in 1 .. l - n : wire[k] = Line
        /\ wire[l + 1 - n] = End(Pend)
    BY <1>7, <2>1 DEF Heading
  <2>3. l + 1 <= n + Len(wire') /\ (l + 1 - n) \in 1 .. Len(wire)
    BY <1>5, <2>2
  <2>4. ASSUME NEW k \in 1 .. l - n PROVE wire'[k] = Line
    <3>1. k \in 1 .. Len(wire)
      BY <1>5, <2>2
    <3> QED
      BY <1>5, <2>2, <3>1
  <2>5. wire'[l + 1 - n] = End(Pend)
    BY <1>5, <2>2, <2>3
  <2>6. Heading(Pend)'
    BY <1>1, <1>4, <1>6, <1>7, <2>1, <2>2, <2>3, <2>4, <2>5 DEF Heading
  <2>7. TurnInv'
    BY <1>1, <1>3, <1>4, <2>6 DEF TurnInv, Pending, Pend
  <2> QED
    BY <1>1, <1>4, <2>7, NothingSeen DEF Busy
<1>8. CASE Bodying(Pend) \/ Inviting(Pend)
  <2>1. Bodying(Pend)' \/ Inviting(Pend)'
    BY <1>1, <1>4, <1>6, <1>8 DEF Bodying, Inviting
  <2>2. TurnInv'
    BY <1>1, <1>3, <1>4, <2>1 DEF TurnInv, Pending, Pend
  <2> QED
    BY <1>1, <1>4, <2>2, NothingSeen DEF Busy
<1> QED
  BY <1>3, <1>7, <1>8

LEMMA StillTurned ==
  ASSUME TurnInv, UNCHANGED vars
  PROVE  TurnInv' /\ [Promise!Next]_(Promise!vars)
<1>1. UNCHANGED <<c, wire, rest, sent, replies>>
  BY DEF vars
<1>2. TurnInv'
  BY <1>1 DEF TurnInv, Idle, Pending, NoMore, Heading, Bodying, Inviting, Ending, Units,
              Finals, Expects, GoAhead
<1>3. UNCHANGED Promise!vars
  BY <1>1, SameReplies, NothingSeen DEF Busy
<1> QED
  BY <1>2, <1>3

LEMMA NobodyAsked ==
  ASSUME Init
  PROVE  TurnInv /\ Promise!Init
<1>1. /\ c = NewConnection /\ wire = <<>> /\ rest = <<>> /\ sent = <<>> /\ replies = <<>>
  BY DEF Init
<1>2. Finals = 0
  BY <1>1, FinalsAre, NoneAtFirst
<1>3. ~ GoAhead /\ Len(sent) = 0
  BY <1>1 DEF GoAhead
<1>4. /\ c.closed = FALSE /\ c.events = "in" /\ c.reply = "none" /\ c.state = "HEADER"
      /\ c.inbound = <<>>
  BY <1>1 DEF NewConnection
<1>5. TurnInv
  BY <1>1, <1>2, <1>3, <1>4 DEF TurnInv, Idle, NoMore
<1>6. Promise!Init
  BY <1>2, <1>3, <1>4, AtFirst DEF Busy
<1> QED
  BY <1>5, <1>6

-----------------------------------------------------------------------------
(***************************************************************************)
(* For a peer that waits and messages that can be taken, ClientFD keeps    *)
(* the safety part of what Exchange promises: no request is handed on or   *)
(* answered twice, no reply is sent without a request, and the connection  *)
(* is closed with a final reply and at no other moment.  The prover does   *)
(* not know WF: that every request is answered is left to TLC.             *)
(***************************************************************************)
ExchangeSafe == Promise!Init /\ [][Promise!Next]_(Promise!vars)

THEOREM PromiseIsKept == WaitingPeer => (Spec => ExchangeSafe)
<1> SUFFICES ASSUME WaitingPeer PROVE Spec => ExchangeSafe
  OBVIOUS
<1>1. Init => TurnInv /\ Promise!Init
  BY NobodyAsked
<1>2. Kinds /\ TurnInv /\ [Next]_vars => TurnInv' /\ [Promise!Next]_(Promise!vars)
  <2> SUFFICES ASSUME Kinds, TurnInv, [Next]_vars
               PROVE  TurnInv' /\ [Promise!Next]_(Promise!vars)
    OBVIOUS
  <2>1. Finals \in Nat
    <3>1. replies \in Seq({"100", "final", "error"})
      BY DEF Kinds
    <3> QED
      BY <3>1, FinalsAre, OneMore
  <2>2. CASE Pollin
    BY <2>1, <2>2, PollinTurns
  <2>3. CASE Complete
    BY <2>1, <2>3, CompleteTurns
  <2>4. CASE Pollout
    BY <2>1, <2>4, PolloutTurns
  <2>5. CASE SendRequest
    BY <2>1, <2>5, SendRequestTurns
  <2>6. CASE SendBody
    BY <2>1, <2>6, SendBodyTurns
  <2>7. CASE Quiet \/ UNCHANGED vars
    BY <2>7, StillTurned DEF Quiet
  <2> QED
    BY <2>2, <2>3, <2>4, <2>5, <2>6, <2>7 DEF Next
<1>3. MessageInv => Kinds
  BY DEF MessageInv
<1>4. Spec => []MessageInv
  BY InvHolds DEF WaitingPeer
<1> QED
  BY <1>1, <1>2, <1>3, <1>4, PTL DEF Spec, ExchangeSafe

=============================================================================
