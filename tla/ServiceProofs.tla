------------------------------ MODULE ServiceProofs ------------------------------
(***************************************************************************)
(* Proofs about the requests of any number of connections on any number of *)
(* files: what is read and confirmed is true, and only what the            *)
(* configuration allows is changed.                                        *)
(***************************************************************************)
EXTENDS Service, SequenceTheorems, TLAPS

Contents == Seq(Bytes \cup {Hole})

\* Every byte of s is where one of the bodies in B had it, or is a hole.
Placed(s, B) ==
  \A p \in DOMAIN s : s[p] = Hole \/ \E b \in B : p \in DOMAIN b /\ s[p] = b[p]

(***************************************************************************)
(* What holds of a connection k when the tree is e, the contents are s and *)
(* the bodies given to each file are b.                                    *)
(***************************************************************************)
Shaped(k) ==
  /\ DOMAIN k = DOMAIN NewConnection
  /\ DOMAIN k.request = DOMAIN NoRequest
  /\ DOMAIN k.work = DOMAIN NoWork

Worked(w, b) ==
  /\ w.file \in Inodes \cup {0} /\ w.alone \in BOOLEAN
  /\ w.data \in Contents /\ w.first \in Contents
  /\ w.total \in 0 .. Len(w.data)
  /\ w.file # 0 => b[w.file] # {} /\ Placed(w.data, b[w.file])

\* A GET that read a file has what the file had when it was opened, if alone.
Reading(w, s) ==
  /\ w.file # 0 /\ w.total = Len(w.data)
  /\ w.alone => /\ s[w.file] = w.first /\ w.total <= Len(w.first)
                /\ \A p \in 1 .. w.total : w.data[p] = w.first[p]

\* A POST is at work where it may be, and what it wrote is there, if alone.
Posting(k, e, s, b) ==
  LET w == k.work IN
  /\ w.file # 0 /\ w.data = k.request.body /\ w.data \in b[w.file]
  /\ \A n \in Names : e[n] = w.file => Asks(k.request, "POST", n)
  /\ w.alone => /\ Len(s[w.file]) = w.total
                /\ \A p \in 1 .. w.total : s[w.file][p] = w.data[p]

\* A reply to a finished reading or writing is true, if that was alone.
Truthful(k, s) ==
  LET code == k.response.out.line[1].code IN
  /\ code = "200" => k.response.out.body = k.work.first
  /\ code = "201" => k.work.file # 0 /\ s[k.work.file] = k.request.body

Phases == {"header", "body", "work", "script", "reply", "hold"}

Good(k, e, s, b) ==
  /\ Shaped(k) /\ Worked(k.work, b) /\ k.phase \in Phases
  /\ k.phase # "reply" => k.response = NewResponse /\ ~k.scripted
  /\ k.phase \in {"header", "body", "script", "hold"} => k.work = NoWork
  /\ k.phase = "body" => /\ k.request.method \in Allow(k.request.uri)
                         /\ k.request.body \in Seq(Bytes)
                         /\ k.path = FullPath(k.request.uri)
  /\ k.phase = "work" => k.work.file # 0
  /\ k.phase = "work" /\ k.request.method = "GET" => Reading(k.work, s)
  /\ k.phase = "work" /\ k.request.method = "POST" => Posting(k, e, s, b)
  /\ k.phase = "reply" /\ ~k.scripted /\ k.work.alone => Truthful(k, s)

\* The tree and the contents.
DiskOK ==
  /\ entry \in [Names -> Inodes \cup {0}] /\ DOMAIN store = Inodes /\ DOMAIN posted = Inodes
  /\ \A m, n \in Names : entry[m] = entry[n] /\ m # n => entry[m] = 0
  /\ \A n \in Names : entry[n] # 0 => posted[entry[n]] # {}
  /\ \A i \in Inodes : store[i] \in Contents /\ Placed(store[i], posted[i])

\* Who counts as alone on a file is not joined there by a POST.
Exclusive ==
  \A c, d \in Clients :
    c # d /\ conn[c].work.alone /\ conn[c].work.file # 0 =>
      ~Writes(conn[d], conn[c].work.file)

CountsOK == made \in [Names -> Nat] /\ confirmed \in [Names -> Nat] /\ OneDeleteEach

\* The inductive invariant.
SiteInv ==
  /\ DOMAIN conn = Clients /\ sent \in 0 .. MaxRequests
  /\ DiskOK /\ Exclusive /\ CountsOK
  /\ \A c \in Clients : Good(conn[c], entry, store, posted)

-----------------------------------------------------------------------------
(***************************************************************************)
(* Contents.                                                               *)
(***************************************************************************)

\* A piece of a body or a file.
LEMMA PieceOf ==
  ASSUME NEW S, NEW t \in Seq(S), NEW m \in Nat, NEW n \in Nat, m + n <= Len(t)
  PROVE  /\ SubSeq(t, m + 1, m + n) \in Seq(S) /\ Len(SubSeq(t, m + 1, m + n)) = n
         /\ \A p \in 1 .. n : SubSeq(t, m + 1, m + n)[p] = t[m + p]
<1>1. /\ m + 1 \in Int /\ m + n \in Int
      /\ \A i \in m + 1 .. m + n : t[i] \in S
  OBVIOUS
<1>2. /\ SubSeq(t, m + 1, m + n) \in Seq(S)
      /\ Len(SubSeq(t, m + 1, m + n)) =
           IF m + 1 <= m + n THEN (m + n) - (m + 1) + 1 ELSE 0
      /\ \A i \in 1 .. (m + n) - (m + 1) + 1 :
           SubSeq(t, m + 1, m + n)[i] = t[(m + 1) + i - 1]
  BY <1>1, SubSeqProperties
<1>3. QED
  BY <1>2

\* What is read is put behind what has been read.
LEMMA ReadMore ==
  ASSUME NEW S, NEW d \in Seq(S), NEW t \in Seq(S), NEW n \in Nat, Len(d) + n <= Len(t)
  PROVE  LET r == d \o SubSeq(t, Len(d) + 1, Len(d) + n) IN
         /\ r \in Seq(S) /\ Len(r) = Len(d) + n
         /\ \A p \in 1 .. Len(d) + n : r[p] = IF p <= Len(d) THEN d[p] ELSE t[p]
<1> DEFINE m == Len(d)
           u == SubSeq(t, m + 1, m + n)
<1>1. m \in Nat
  OBVIOUS
<1>2. u \in Seq(S) /\ Len(u) = n /\ \A p \in 1 .. n : u[p] = t[m + p]
  BY <1>1, PieceOf
<1> HIDE DEF u
<1>3. /\ d \o u \in Seq(S) /\ Len(d \o u) = m + n
      /\ \A p \in 1 .. m + n : (d \o u)[p] = IF p <= m THEN d[p] ELSE u[p - m]
  BY <1>2, ConcatProperties
<1>4. ASSUME NEW p \in 1 .. m + n, ~(p <= m)
      PROVE  u[p - m] = t[p]
  <2>1. p - m \in 1 .. n /\ m + (p - m) = p
    BY <1>1, <1>4
  <2>2. QED
    BY <1>2, <2>1
<1>5. QED
  BY <1>3, <1>4 DEF u

\* Contents r are s with n bytes of d put where d has them, behind the first m.
Written(r, s, d, m, n) ==
  /\ r \in Contents
  /\ Len(r) = IF Len(s) > m + n THEN Len(s) ELSE m + n
  /\ \A p \in 1 .. Len(r) : r[p] = IF p \in m + 1 .. m + n THEN d[p]
                                   ELSE IF p \in DOMAIN s THEN s[p] ELSE Hole

\* write() at a place of its own.
LEMMA WriteMore ==
  ASSUME NEW s \in Contents, NEW d \in Contents, NEW m \in Nat, NEW n \in Nat \ {0},
         m + n <= Len(d)
  PROVE  Written(Overlaid(s, m, SubSeq(d, m + 1, m + n)), s, d, m, n)
<1> DEFINE u == SubSeq(d, m + 1, m + n)
           r == Overlaid(s, m, u)
           l == IF Len(s) > m + n THEN Len(s) ELSE m + n
<1>1. Len(u) = n /\ \A p \in 1 .. n : u[p] = d[m + p]
  BY PieceOf DEF Contents
<1> HIDE DEF u
<1>2. /\ Len(s) \in Nat /\ DOMAIN s = 1 .. Len(s) /\ l \in Nat
      /\ \A p \in DOMAIN s : s[p] \in Bytes \cup {Hole}
      /\ \A p \in 1 .. Len(d) : d[p] \in Bytes \cup {Hole}
  BY DEF Contents
<1>3. r = [p \in 1 .. l |-> IF p \in m + 1 .. m + n THEN u[p - m]
                            ELSE IF p \in DOMAIN s THEN s[p] ELSE Hole]
  BY <1>1 DEF Overlaid
<1>4. ASSUME NEW p \in m + 1 .. m + n
      PROVE  u[p - m] = d[p]
  <2>1. p - m \in 1 .. n /\ m + (p - m) = p
    BY <1>4
  <2>2. QED
    BY <1>1, <2>1
<1>5. \A p \in 1 .. l : r[p] = IF p \in m + 1 .. m + n THEN d[p]
                               ELSE IF p \in DOMAIN s THEN s[p] ELSE Hole
  BY <1>3, <1>4
<1>6. \A p \in 1 .. l : r[p] \in Bytes \cup {Hole}
  BY <1>2, <1>5
<1>7. DOMAIN r = 1 .. l /\ r \in [1 .. l -> Bytes \cup {Hole}]
  <2>1. DOMAIN r = 1 .. l /\ r = [p \in 1 .. l |-> r[p]]
    BY <1>3
  <2>2. QED
    BY <1>6, <2>1
<1> HIDE DEF r, l
<1>8. r \in Contents /\ Len(r) = l
  BY <1>2, <1>7 DEF Contents
<1>9. QED
  BY <1>5, <1>8 DEF Written, r, l, u

-----------------------------------------------------------------------------
(***************************************************************************)
(* Responses.                                                              *)
(***************************************************************************)
RShape(r) == DOMAIN r = DOMAIN NewResponse

LEMMA FieldKeeps ==
  ASSUME NEW r, RShape(r), NEW name, NEW value
  PROVE  LET f == FieldIfNotSet(r, name, value) IN
         RShape(f) /\ f.line = r.line /\ f.body = r.body
BY DEF RShape, NewResponse, FieldIfNotSet

LEMMA BasicKeeps ==
  ASSUME NEW r, RShape(r), NEW q
  PROVE  RShape(Basic(r, q)) /\ Basic(r, q).line = r.line /\ Basic(r, q).body = r.body
<1> DEFINE typed  == IF r.body = <<>> THEN r
                     ELSE FieldIfNotSet(r, "Content-Type", MimeType(q.uri))
           linked == FieldIfNotSet(typed, "Connection",
                                   IF q.keep THEN "Keep-Alive" ELSE "close")
           sized  == IF q.method # "GET" THEN linked
                     ELSE FieldIfNotSet(linked, "Content-Length", Len(r.body))
           all    == IF q.method # "POST" THEN sized
                     ELSE FieldIfNotSet(sized, "Location", q.uri)
<1>1. RShape(typed) /\ typed.line = r.line /\ typed.body = r.body
  BY FieldKeeps
<1> HIDE DEF typed
<1>2. RShape(linked) /\ linked.line = r.line /\ linked.body = r.body
  BY <1>1, FieldKeeps
<1> HIDE DEF linked
<1>3. RShape(sized) /\ sized.line = r.line /\ sized.body = r.body
  BY <1>2, FieldKeeps
<1> HIDE DEF sized
<1>4. RShape(all) /\ all.line = r.line /\ all.body = r.body
  BY <1>3, FieldKeeps
<1>5. Basic(r, q) = all
  BY DEF Basic, all, sized, linked, typed
<1>6. QED
  BY <1>4, <1>5

\* A response with nothing left of an earlier one says the status it is given,
\* and has the body it is given.
LEMMA PlainSays ==
  ASSUME NEW r, RShape(r), r.line = <<>>, NEW q, NEW code
  PROVE  /\ Plain(r, q, code).out.line[1].code = code
         /\ Plain(r, q, code).out.body = r.body
<1> DEFINE t == [r EXCEPT !.code = code]
           u == WithLine(t)
           v == Basic(u, q)
<1>1. RShape(t) /\ t.line = <<>> /\ t.body = r.body /\ t.code = code
  BY DEF RShape, NewResponse
<1> HIDE DEF t
<1>2. /\ RShape(u) /\ u.body = r.body
      /\ u.line = Append(<<>>, [code |-> code, reason |-> ReasonPhrase(code)])
  BY <1>1 DEF WithLine, RShape, NewResponse
<1>3. u.line = <<[code |-> code, reason |-> ReasonPhrase(code)]>>
  BY <1>2
<1> HIDE DEF u
<1>4. RShape(v) /\ v.line = u.line /\ v.body = u.body
  BY <1>2, BasicKeeps
<1> HIDE DEF v
<1>5. Emitted(v).out = [line |-> v.line, header |-> v.header,
                        ended |-> v.body # <<>>, body |-> v.body]
  BY <1>4 DEF Emitted, RShape, NewResponse
<1>6. Plain(r, q, code) = Emitted(v)
  BY DEF Plain, t, u, v
<1>7. QED
  BY <1>2, <1>3, <1>4, <1>5, <1>6

LEMMA WithBodySays ==
  ASSUME NEW r, RShape(r), r.line = <<>>, NEW q, NEW body, NEW code
  PROVE  /\ WithBody(r, q, body, code).out.line[1].code = code
         /\ WithBody(r, q, body, code).out.body = body
<1> DEFINE t == [r EXCEPT !.body = body]
<1>1. RShape(t) /\ t.line = <<>> /\ t.body = body
  BY DEF RShape, NewResponse
<1> HIDE DEF t
<1>2. Plain(t, q, code).out.line[1].code = code /\ Plain(t, q, code).out.body = body
  BY <1>1, PlainSays
<1>3. QED
  BY <1>2 DEF WithBody, t

LEMMA ErrorSays ==
  ASSUME NEW k, k.response = NewResponse, NEW code
  PROVE  Error(k, code).out.line[1].code = code
<1> DEFINE t == Field(k.response, "Content-Type", "text/html")
           body == ErrorPage(code, Custom(k))
<1>1. RShape(t) /\ t.line = <<>>
  <2> DEFINE r == NewResponse
  <2>1. RShape(r) /\ r.line = <<>>
    BY DEF RShape, NewResponse
  <2> HIDE DEF r
  <2>2. RShape(Field(r, "Content-Type", "text/html"))
        /\ Field(r, "Content-Type", "text/html").line = <<>>
    BY <2>1 DEF Field, RShape, NewResponse
  <2>3. QED
    BY <2>2 DEF r
<1> HIDE DEF t, body
<1>2. WithBody(t, k.request, body, code).out.line[1].code = code
  BY <1>1, WithBodySays
<1>3. QED
  BY <1>2 DEF Error, ErrorReply, t, body

-----------------------------------------------------------------------------
(***************************************************************************)
(* Steps that change one connection and nothing else.                      *)
(***************************************************************************)

LEMMA NoWorkIsWorked ==
  ASSUME NEW b
  PROVE  Worked(NoWork, b) /\ ~NoWork.alone /\ NoWork.file = 0
BY DEF Worked, NoWork, Contents

LEMMA ConnStep ==
  ASSUME SiteInv, NEW c \in Clients, NEW k, conn' = [conn EXCEPT ![c] = k],
         UNCHANGED <<disk, hist>>, sent' \in 0 .. MaxRequests,
         Good(k, entry, store, posted),
         k.work.alone /\ k.work.file # 0 =>
           \A d \in Clients : d # c => ~Writes(conn[d], k.work.file),
         \A i \in Inodes : Writes(k, i) => Writes(conn[c], i)
  PROVE  SiteInv'
<1>1. UNCHANGED <<entry, store, made, confirmed, posted>>
  BY DEF disk, hist
<1>2. /\ DOMAIN conn' = Clients /\ conn'[c] = k
      /\ \A d \in Clients : d # c => conn'[d] = conn[d]
  BY DEF SiteInv
<1>3. \A d \in Clients : Good(conn'[d], entry', store', posted')
  BY <1>1, <1>2 DEF SiteInv
<1>4. DiskOK' /\ CountsOK'
  BY <1>1 DEF SiteInv, DiskOK, CountsOK, OneDeleteEach, Exists
<1>5. Exclusive'
  <2>1. SUFFICES ASSUME NEW x \in Clients, NEW d \in Clients, x # d,
                        conn'[x].work.alone, conn'[x].work.file # 0,
                        Writes(conn'[d], conn'[x].work.file)
                 PROVE  FALSE
    BY DEF Exclusive, Writes
  <2>2. conn'[x].work.file \in Inodes
    BY <1>3, <2>1 DEF Good, Worked
  <2>3. CASE x = c
    BY <1>2, <2>1, <2>3
  <2>4. CASE x # c
    <3>1. Writes(conn[d], conn[x].work.file)
      BY <1>2, <2>1, <2>2, <2>4
    <3>2. QED
      BY <1>2, <2>1, <2>4, <3>1 DEF SiteInv, Exclusive
  <2>5. QED
    BY <2>3, <2>4
<1>6. QED
  BY <1>2, <1>3, <1>4, <1>5 DEF SiteInv

\* A connection that is at work on no file.
Idle(k) ==
  /\ Shaped(k) /\ k.work = NoWork /\ k.phase \in Phases \ {"work"}
  /\ k.phase # "reply" => k.response = NewResponse /\ ~k.scripted
  /\ k.phase = "body" => /\ k.request.method \in Allow(k.request.uri)
                         /\ k.request.body \in Seq(Bytes)
                         /\ k.path = FullPath(k.request.uri)

LEMMA IdleStep ==
  ASSUME SiteInv, NEW c \in Clients, NEW k, Idle(k), conn' = [conn EXCEPT ![c] = k],
         UNCHANGED <<disk, hist>>, sent' \in 0 .. MaxRequests
  PROVE  SiteInv'
<1>1. ~k.work.alone /\ Worked(k.work, posted)
  BY NoWorkIsWorked DEF Idle
<1>2. Good(k, entry, store, posted)
  BY <1>1 DEF Idle, Good
<1>3. \A i \in Inodes : ~Writes(k, i)
  BY DEF Idle, Writes
<1>4. QED
  BY <1>1, <1>2, <1>3, ConnStep

\* What a reply leaves of the connection.
LEMMA RepliesKeeps ==
  ASSUME NEW k, Shaped(k), NEW r
  PROVE  LET p == Replies(k, r) IN
         /\ Shaped(p) /\ p.phase = "reply" /\ p.response = r /\ p.work = k.work
         /\ p.request = k.request /\ p.scripted = k.scripted
BY DEF Replies, Shaped, NewConnection

LEMMA RefuseStep ==
  ASSUME SiteInv, NEW c \in Clients, NEW k, Shaped(k), k.work = NoWork, NEW code,
         Refuse(c, k, code), sent' \in 0 .. MaxRequests
  PROVE  SiteInv'
<1> DEFINE p == Replies(k, Error(k, code))
           t == [p EXCEPT !.error = TRUE]
<1>1. Shaped(p) /\ p.phase = "reply" /\ p.work = NoWork
  BY RepliesKeeps
<1>2. conn' = [conn EXCEPT ![c] = t] /\ UNCHANGED <<disk, hist>>
  BY DEF Refuse, Refused
<1> HIDE DEF p
<1>3. Shaped(t) /\ t.phase = "reply" /\ t.work = NoWork
  BY <1>1 DEF Shaped, NewConnection
<1> HIDE DEF t
<1>4. Idle(t)
  BY <1>3 DEF Idle, Phases
<1>5. QED
  BY <1>2, <1>4, IdleStep

\* The connection before its first request and after it has been reset.
LEMMA NewIsIdle == Idle(NewConnection) /\ \A r : Idle(Clean(r))
<1>1. Idle(NewConnection)
  BY DEF Idle, NewConnection, Shaped, Phases
<1>2. ASSUME NEW r PROVE Idle(Clean(r))
  <2>1. /\ DOMAIN Clean(r) = DOMAIN NewConnection /\ Clean(r).phase = "header"
        /\ Clean(r).request = NoRequest /\ Clean(r).work = NoWork
        /\ Clean(r).response = NewResponse /\ ~Clean(r).scripted
    BY DEF Clean, Cleaned, NewConnection
  <2>2. QED
    BY <2>1 DEF Idle, Shaped, Phases
<1>3. QED
  BY <1>1, <1>2

-----------------------------------------------------------------------------
(***************************************************************************)
(* Requests.                                                               *)
(***************************************************************************)

\* A connection whose request is complete, when respond() is called.
Asked(k) ==
  /\ Shaped(k) /\ k.work = NoWork /\ k.response = NewResponse /\ ~k.scripted
  /\ k.request.method \in Allow(k.request.uri) /\ k.request.body \in Seq(Bytes)
  /\ k.path = FullPath(k.request.uri)

\* What is allowed and not redirected is permitted.
LEMMA AskedIsPermitted ==
  ASSUME NEW k, Asked(k), NEW method, Handled(k, method)
  PROVE  Asks(k.request, method, Leads(k.path))
BY DEF Asked, Handled, Allow, Permits, Asks

\* A descriptor is opened.
LEMMA OpenedKeeps ==
  ASSUME NEW k, Shaped(k), NEW i, NEW data, NEW alone
  PROVE  LET p == Opened(k, i, data, alone) IN
         /\ Shaped(p) /\ p.phase = "work" /\ p.request = k.request
         /\ p.response = k.response /\ p.scripted = k.scripted
         /\ p.work = [file |-> i, total |-> 0, data |-> data, first |-> store[i],
                      alone |-> alone]
BY DEF Opened, Shaped, NewConnection, NoWork

LEMMA OpensToReadStep ==
  ASSUME SiteInv, NEW c \in Clients, NEW k, Asked(k), k.request.method = "GET",
         NEW j, Exists(Candidate(k, j)), OpensToRead(c, k, j), sent' \in 0 .. MaxRequests
  PROVE  SiteInv'
<1> DEFINE i == entry[Candidate(k, j)]
           alone == \A d \in Clients : ~Writes(conn[d], i)
           h == [k EXCEPT !.request.uri = @ \o Tails(k)[j]]
           p == Opened(h, i, <<>>, alone)
<1>1. i \in Inodes /\ i # 0 /\ store[i] \in Contents /\ posted[i] # {}
  BY DEF SiteInv, DiskOK, Exists, Inodes
<1>2. /\ Shaped(h) /\ h.request.method = "GET"
      /\ h.response = NewResponse /\ ~h.scripted
  BY DEF Asked, Shaped, NewConnection, NoRequest
<1>3. conn' = [conn EXCEPT ![c] = p] /\ UNCHANGED <<disk, hist>>
  BY DEF OpensToRead
<1> HIDE DEF h, alone
<1>4. /\ Shaped(p) /\ p.phase = "work" /\ p.request.method = "GET"
      /\ p.response = NewResponse /\ ~p.scripted
      /\ p.work = [file |-> i, total |-> 0, data |-> <<>>, first |-> store[i],
                   alone |-> alone]
  BY <1>2, OpenedKeeps
<1> HIDE DEF p
<1>5. alone \in BOOLEAN
  BY DEF alone
<1>6. Worked(p.work, posted)
  BY <1>1, <1>4, <1>5 DEF Worked, Contents, Placed
<1>7. Reading(p.work, store)
  BY <1>1, <1>4 DEF Reading, Contents
<1>8. Good(p, entry, store, posted)
  BY <1>1, <1>4, <1>6, <1>7 DEF Good, Phases
<1>9. \A m \in Inodes : ~Writes(p, m)
  BY <1>4 DEF Writes
<1>10. p.work.alone => \A d \in Clients : ~Writes(conn[d], p.work.file)
  BY <1>4 DEF alone
<1>11. QED
  BY <1>3, <1>8, <1>9, <1>10, ConnStep

-----------------------------------------------------------------------------
(***************************************************************************)
(* Steps that change the tree or the contents under other connections.     *)
(***************************************************************************)

\* A connection that is not the one at work: its file is as it was, or it is
\* not alone there any more.
LEMMA OthersKeep ==
  ASSUME NEW e, NEW s, NEW b, NEW o, Good(o, e, s, b),
         NEW q, Shaped(q), q.phase = o.phase, q.request = o.request, q.path = o.path,
         q.response = o.response, q.scripted = o.scripted,
         q.work.file = o.work.file, q.work.total = o.work.total,
         q.work.data = o.work.data, q.work.first = o.work.first,
         o.work = NoWork => q.work = NoWork,
         q.work.alone \in BOOLEAN, q.work.alone => o.work.alone,
         NEW f, NEW t, NEW d,
         \A i \in Inodes : q.work.alone /\ q.work.file = i => t[i] = s[i],
         \A i \in Inodes : b[i] \subseteq d[i],
         \A n \in Names, j \in Inodes : b[j] # {} /\ f[n] = j => e[n] = j
  PROVE  Good(q, f, t, d)
<1>1. o.work.file # 0 => o.work.file \in Inodes /\ b[o.work.file] # {}
  BY DEF Good, Worked
<1>2. Worked(q.work, d)
  <2>1. q.work.file # 0 => d[q.work.file] # {} /\ Placed(q.work.data, d[q.work.file])
    <3>1. SUFFICES ASSUME q.work.file # 0
                   PROVE  d[q.work.file] # {} /\ Placed(q.work.data, d[q.work.file])
      OBVIOUS
    <3>2. /\ b[q.work.file] # {} /\ b[q.work.file] \subseteq d[q.work.file]
          /\ Placed(o.work.data, b[q.work.file])
      BY <1>1, <3>1 DEF Good, Worked
    <3>3. QED
      BY <3>2 DEF Placed
  <2>2. QED
    BY <2>1 DEF Good, Worked
<1>3. q.phase = "work" /\ q.request.method = "GET" => Reading(q.work, t)
  BY <1>1 DEF Good, Reading
<1>4. q.phase = "work" /\ q.request.method = "POST" => Posting(q, f, t, d)
  <2>1. SUFFICES ASSUME q.phase = "work", q.request.method = "POST"
                 PROVE  Posting(q, f, t, d)
    OBVIOUS
  <2>2. Posting(o, e, s, b)
    BY <2>1 DEF Good
  <2>3. q.work.file \in Inodes /\ q.work.file # 0 /\ b[q.work.file] # {}
    BY <1>1, <2>2 DEF Posting
  <2>4. \A n \in Names : f[n] = q.work.file => Asks(q.request, "POST", n)
    BY <2>2, <2>3 DEF Posting
  <2>5. q.work.alone => t[q.work.file] = s[q.work.file]
    BY <2>3
  <2>6. q.work.data \in d[q.work.file]
    BY <2>2, <2>3 DEF Posting
  <2>7. QED
    BY <2>2, <2>3, <2>4, <2>5, <2>6 DEF Posting
<1>5. q.phase = "reply" /\ ~q.scripted /\ q.work.alone => Truthful(q, t)
  BY <1>1 DEF Good, Truthful
<1>6. QED
  BY <1>2, <1>3, <1>4, <1>5 DEF Good

\* A descriptor is opened for writing, which empties the file.
LEMMA TruncatedStep ==
  ASSUME SiteInv, NEW c \in Clients, NEW k, Asked(k), k.request.method = "POST",
         NEW i \in Inodes, Truncated(c, k, i),
         entry' \in [Names -> Inodes \cup {0}],
         \A m, n \in Names : entry'[m] = entry'[n] /\ m # n => entry'[m] = 0,
         \A n \in Names : entry'[n] = i => Asks(k.request, "POST", n),
         \A n \in Names : entry'[n] # i => entry'[n] = entry[n] \/ entry'[n] = 0,
         posted[i] # {} => entry' = entry
  PROVE  /\ DOMAIN conn' = Clients /\ DiskOK' /\ Exclusive'
         /\ \A d \in Clients : Good(conn'[d], entry', store', posted')
<1> DEFINE alone == \A x \in Clients : ~Writes(conn[x], i)
           h == Opened(k, i, k.request.body, alone)
           p == [h EXCEPT !.work.first = <<>>]
           Other(d) == [conn[d] EXCEPT !.work.alone = @ /\ conn[d].work.file # i]
<1>1. /\ conn' = [d \in Clients |-> IF d = c THEN p ELSE Other(d)]
      /\ store' = [store EXCEPT ![i] = <<>>]
      /\ posted' = [posted EXCEPT ![i] = @ \cup {k.request.body}]
  BY DEF Truncated
<1>2. i # 0 /\ DOMAIN store = Inodes /\ DOMAIN posted = Inodes
  BY DEF SiteInv, DiskOK, Inodes
<1>3. /\ store'[i] = <<>> /\ \A j \in Inodes : j # i => store'[j] = store[j]
      /\ DOMAIN store' = Inodes /\ DOMAIN posted' = Inodes
      /\ posted'[i] = posted[i] \cup {k.request.body}
      /\ \A j \in Inodes : j # i => posted'[j] = posted[j]
  BY <1>1, <1>2
<1>4. \A j \in Inodes : posted[j] \subseteq posted'[j]
  BY <1>3
<1>5. \A n \in Names, j \in Inodes : posted[j] # {} /\ entry'[n] = j => entry[n] = j
  <2>1. SUFFICES ASSUME NEW n \in Names, NEW j \in Inodes, posted[j] # {}, entry'[n] = j
                 PROVE  entry[n] = j
    OBVIOUS
  <2>2. j # 0
    BY DEF Inodes
  <2>3. QED
    BY <2>1, <2>2
<1>6. DiskOK'
  <2>1. \A n \in Names : entry'[n] # 0 => posted'[entry'[n]] # {}
    <3>1. SUFFICES ASSUME NEW n \in Names, entry'[n] # 0
                   PROVE  posted'[entry'[n]] # {}
      OBVIOUS
    <3>2. CASE entry'[n] = i
      BY <1>3, <3>2
    <3>3. CASE entry'[n] # i
      <4>1. entry'[n] = entry[n] /\ entry[n] \in Inodes /\ posted[entry[n]] # {}
        BY <3>1, <3>3 DEF SiteInv, DiskOK
      <4>2. QED
        BY <1>4, <4>1
    <3>4. QED
      BY <3>2, <3>3
  <2>2. \A j \in Inodes : store'[j] \in Contents /\ Placed(store'[j], posted'[j])
    <3>1. ASSUME NEW j \in Inodes, j # i
          PROVE  store'[j] \in Contents /\ Placed(store'[j], posted'[j])
      BY <1>3, <3>1 DEF SiteInv, DiskOK
    <3>2. store'[i] \in Contents /\ Placed(store'[i], posted'[i])
      BY <1>3 DEF Contents, Placed
    <3>3. QED
      BY <3>1, <3>2
  <2>3. QED
    BY <1>3, <2>1, <2>2 DEF DiskOK
<1>7. /\ Shaped(p) /\ p.phase = "work" /\ p.request = k.request
      /\ p.response = NewResponse /\ ~p.scripted
      /\ p.work = [file |-> i, total |-> 0, data |-> k.request.body, first |-> <<>>,
                   alone |-> alone]
  <2> HIDE DEF alone
  <2>1. /\ Shaped(h) /\ h.phase = "work" /\ h.request = k.request
        /\ h.response = NewResponse /\ ~h.scripted
        /\ h.work = [file |-> i, total |-> 0, data |-> k.request.body, first |-> store[i],
                     alone |-> alone]
    BY OpenedKeeps DEF Asked
  <2> HIDE DEF h
  <2>2. QED
    BY <2>1 DEF Shaped, NewConnection, NoWork
<1>8. ASSUME NEW d \in Clients
      PROVE  LET o == conn[d]
                 q == Other(d)
             IN /\ Shaped(q) /\ q.phase = o.phase /\ q.request = o.request
                /\ q.path = o.path
                /\ q.path = o.path
                /\ q.response = o.response /\ q.scripted = o.scripted
                /\ q.work.file = o.work.file /\ q.work.total = o.work.total
                /\ q.work.data = o.work.data /\ q.work.first = o.work.first
                /\ q.work.alone <=> o.work.alone /\ o.work.file # i
                /\ q.work.alone \in BOOLEAN
                /\ (o.work = NoWork => q.work = NoWork)
  <2> DEFINE o == conn[d]
  <2>1. Shaped(o) /\ o.work.alone \in BOOLEAN
    BY DEF SiteInv, Good, Worked
  <2> HIDE DEF o
  <2> DEFINE q == [o EXCEPT !.work.alone = @ /\ o.work.file # i]
  <2>2. /\ DOMAIN q = DOMAIN NewConnection /\ q.request = o.request /\ q.path = o.path
        /\ q.phase = o.phase /\ q.response = o.response /\ q.scripted = o.scripted
        /\ q.work = [o.work EXCEPT !.alone = @ /\ o.work.file # i]
    BY <2>1 DEF Shaped, NewConnection
  <2> HIDE DEF q
  <2>3. /\ DOMAIN q.work = DOMAIN NoWork
        /\ q.work.file = o.work.file /\ q.work.total = o.work.total
        /\ q.work.data = o.work.data /\ q.work.first = o.work.first
        /\ q.work.alone = (o.work.alone /\ o.work.file # i)
    BY <2>1, <2>2 DEF Shaped, NoWork
  <2>4. o.work = NoWork => q.work = NoWork
    <3>1. SUFFICES ASSUME o.work = NoWork PROVE q.work = NoWork
      OBVIOUS
    <3>2. (NoWork.alone /\ o.work.file # i) = FALSE
      BY DEF NoWork
    <3>3. q.work = [NoWork EXCEPT !.alone = FALSE]
      BY <2>2, <3>1, <3>2
    <3>4. QED
      BY <3>3 DEF NoWork
  <2>5. QED
    BY <2>1, <2>2, <2>3, <2>4 DEF Shaped, o, q
<1> HIDE DEF Other, p
<1>9. DOMAIN conn' = Clients /\ conn'[c] = p /\ \A d \in Clients : d # c => conn'[d] = Other(d)
  BY <1>1
<1>10. Good(p, entry', store', posted')
  <2>1. /\ k.request.body \in Seq(Bytes) /\ k.request.body \in Contents
        /\ k.request.body \in posted'[i] /\ Len(store'[i]) = 0
    BY <1>3 DEF Asked, Contents
  <2>2. alone \in BOOLEAN
    OBVIOUS
  <2> HIDE DEF alone
  <2>3. Worked(p.work, posted')
    BY <1>7, <2>1, <2>2 DEF Worked, Contents, Placed
  <2>4. Posting(p, entry', store', posted')
    BY <1>2, <1>7, <2>1 DEF Posting
  <2>5. QED
    BY <1>2, <1>7, <2>3, <2>4 DEF Good, Phases
<1>11. ASSUME NEW d \in Clients, d # c
       PROVE  Good(conn'[d], entry', store', posted')
  <2> DEFINE o == conn[d]
             q == conn'[d]
  <2>1. q = Other(d)
    BY <1>9, <1>11
  <2>2. Good(o, entry, store, posted)
    BY DEF SiteInv
  <2>3. \A j \in Inodes : q.work.alone /\ q.work.file = j => store'[j] = store[j]
    BY <1>3, <1>8, <2>1
  <2>4. /\ Shaped(q) /\ q.phase = o.phase /\ q.request = o.request /\ q.path = o.path
        /\ q.response = o.response /\ q.scripted = o.scripted
        /\ q.work.file = o.work.file /\ q.work.total = o.work.total
        /\ q.work.data = o.work.data /\ q.work.first = o.work.first
        /\ q.work.alone \in BOOLEAN /\ (q.work.alone => o.work.alone)
        /\ (o.work = NoWork => q.work = NoWork)
    BY <1>8, <2>1
  <2> HIDE DEF o, q
  <2>5. Good(q, entry', store', posted')
    BY <1>4, <1>5, <2>2, <2>3, <2>4, OthersKeep
  <2>6. QED
    BY <2>5 DEF q
<1>12. Exclusive'
  <2>1. SUFFICES ASSUME NEW x \in Clients, NEW d \in Clients, x # d,
                        conn'[x].work.alone, conn'[x].work.file # 0,
                        Writes(conn'[d], conn'[x].work.file)
                 PROVE  FALSE
    BY DEF Exclusive, Writes
  <2>2. CASE x = c
    <3>1. alone /\ conn'[x].work.file = i /\ d # c
      BY <1>7, <1>9, <2>1, <2>2
    <3>2. Writes(conn[d], i)
      BY <1>8, <1>9, <2>1, <3>1 DEF Writes
    <3>3. QED
      BY <3>1, <3>2
  <2>3. CASE d = c
    <3>1. conn'[x].work.file = i
      BY <1>7, <1>9, <2>1, <2>3 DEF Writes
    <3>2. QED
      BY <1>8, <1>9, <2>1, <2>3, <3>1
  <2>4. CASE x # c /\ d # c
    <3>1. conn[x].work.alone /\ conn[x].work.file # 0 /\ Writes(conn[d], conn[x].work.file)
      BY <1>8, <1>9, <2>1, <2>4 DEF Writes
    <3>2. QED
      BY <2>1, <3>1 DEF SiteInv, Exclusive
  <2>5. QED
    BY <2>2, <2>3, <2>4
<1>13. QED
  BY <1>6, <1>9, <1>10, <1>11, <1>12

LEMMA PostOverwritesStep ==
  ASSUME SiteInv, NEW c \in Clients, NEW k, Asked(k),
         PostOverwrites(c, k), sent' \in 0 .. MaxRequests
  PROVE  SiteInv'
<1> DEFINE name == Leads(k.path)
<1>1. /\ Handled(k, "POST") /\ name \in Names /\ entry[name] # 0
      /\ Truncated(c, k, entry[name])
      /\ entry' = entry /\ made' = made
  BY DEF PostOverwrites, Exists
<1>2. /\ entry \in [Names -> Inodes \cup {0}]
      /\ \A m, n \in Names : entry[m] = entry[n] /\ m # n => entry[m] = 0
  BY DEF SiteInv, DiskOK
<1>3. PICK i \in Inodes : i = entry[name]
  BY <1>1, <1>2
<1>4. Asks(k.request, "POST", name) /\ k.request.method = "POST"
  BY <1>1, AskedIsPermitted DEF Handled
<1>5. Truncated(c, k, i) /\ \A n \in Names : entry'[n] = i => Asks(k.request, "POST", n)
  BY <1>1, <1>2, <1>3, <1>4
<1>6. /\ \A m, n \in Names : entry'[m] = entry'[n] /\ m # n => entry'[m] = 0
      /\ entry' \in [Names -> Inodes \cup {0}]
      /\ \A n \in Names : entry'[n] # i => entry'[n] = entry[n] \/ entry'[n] = 0
  BY <1>1, <1>2
<1>7. /\ DOMAIN conn' = Clients /\ DiskOK' /\ Exclusive'
      /\ \A d \in Clients : Good(conn'[d], entry', store', posted')
  BY <1>1, <1>4, <1>5, <1>6, TruncatedStep
<1>8. CountsOK'
  BY <1>1 DEF SiteInv, CountsOK, OneDeleteEach, Exists, Truncated
<1>9. QED
  BY <1>7, <1>8 DEF SiteInv

LEMMA PostCreatesStep ==
  ASSUME SiteInv, NEW c \in Clients, NEW k, Asked(k),
         PostCreates(c, k), sent' \in 0 .. MaxRequests
  PROVE  SiteInv'
<1> DEFINE name == Leads(k.path)
<1>1. PICK i \in Inodes :
        /\ Handled(k, "POST") /\ name \in Names /\ entry[name] = 0
        /\ Fresh(i) /\ Truncated(c, k, i)
        /\ entry' = [entry EXCEPT ![name] = i]
        /\ made' = [made EXCEPT ![name] = @ + 1]
  BY DEF PostCreates, Exists
<1>2. /\ entry \in [Names -> Inodes \cup {0}] /\ i # 0 /\ posted[i] = {}
      /\ \A m, n \in Names : entry[m] = entry[n] /\ m # n => entry[m] = 0
      /\ \A n \in Names : entry[n] # 0 => posted[entry[n]] # {}
  BY <1>1 DEF SiteInv, DiskOK, Fresh, Inodes
<1>3. Asks(k.request, "POST", name) /\ k.request.method = "POST"
  BY <1>1, AskedIsPermitted DEF Handled
<1>4. entry'[name] = i /\ \A n \in Names : n # name => entry'[n] = entry[n] /\ entry[n] # i
  BY <1>1, <1>2
<1>5. /\ entry' \in [Names -> Inodes \cup {0}]
      /\ \A m, n \in Names : entry'[m] = entry'[n] /\ m # n => entry'[m] = 0
      /\ \A n \in Names : entry'[n] = i => Asks(k.request, "POST", n)
      /\ \A n \in Names : entry'[n] # i => entry'[n] = entry[n] \/ entry'[n] = 0
  BY <1>1, <1>2, <1>3, <1>4
<1>6. /\ DOMAIN conn' = Clients /\ DiskOK' /\ Exclusive'
      /\ \A d \in Clients : Good(conn'[d], entry', store', posted')
  BY <1>1, <1>2, <1>3, <1>5, TruncatedStep
<1>7. CountsOK'
  <2>1. /\ confirmed' = confirmed /\ made \in [Names -> Nat] /\ confirmed \in [Names -> Nat]
        /\ \A n \in Names : confirmed[n] + (IF Exists(n) THEN 1 ELSE 0) = made[n]
    BY <1>1 DEF SiteInv, CountsOK, OneDeleteEach, Truncated
  <2>2. made' \in [Names -> Nat] /\ made'[name] = made[name] + 1
        /\ \A n \in Names : n # name => made'[n] = made[n]
    BY <1>1, <2>1
  <2>3. ASSUME NEW n \in Names
        PROVE  confirmed'[n] + (IF Exists(n)' THEN 1 ELSE 0) = made'[n]
    <3>1. CASE n = name
      <4>1. ~Exists(n) /\ Exists(n)'
        BY <1>1, <1>2, <1>4, <3>1 DEF Exists
      <4>2. confirmed[n] \in Nat /\ confirmed'[n] = confirmed[n] /\ made'[n] = made[n] + 1
        BY <2>1, <2>2, <3>1
      <4>3. QED
        BY <2>1, <4>1, <4>2
    <3>2. CASE n # name
      BY <1>4, <2>1, <2>2, <3>2 DEF Exists
    <3>3. QED
      BY <3>1, <3>2
  <2>4. OneDeleteEach'
    BY <2>3 DEF OneDeleteEach
  <2>5. QED
    BY <2>1, <2>2, <2>4 DEF CountsOK
<1>8. QED
  BY <1>6, <1>7 DEF SiteInv

LEMMA DeletesStep ==
  ASSUME SiteInv, NEW c \in Clients, NEW k, Asked(k), Deletes(c, k),
         sent' \in 0 .. MaxRequests
  PROVE  SiteInv'
<1> DEFINE name == Leads(k.path)
           q == Done(k, "204")
<1>1. /\ name \in Names /\ entry[name] # 0
      /\ entry' = [entry EXCEPT ![name] = 0]
      /\ confirmed' = [confirmed EXCEPT ![name] = @ + 1]
      /\ conn' = [conn EXCEPT ![c] = q]
      /\ store' = store /\ made' = made /\ posted' = posted
  BY DEF Deletes, Exists
<1>2. Shaped(q) /\ q.phase = "reply" /\ q.work = NoWork
  BY RepliesKeeps DEF Done, Asked
<1> HIDE DEF q
<1>3. /\ entry \in [Names -> Inodes \cup {0}]
      /\ \A m, n \in Names : entry[m] = entry[n] /\ m # n => entry[m] = 0
  BY DEF SiteInv, DiskOK
<1>4. entry'[name] = 0 /\ \A n \in Names : n # name => entry'[n] = entry[n]
  BY <1>1, <1>3
<1>5. DiskOK'
  BY <1>1, <1>3, <1>4 DEF SiteInv, DiskOK
<1>6. DOMAIN conn' = Clients /\ conn'[c] = q /\ \A d \in Clients : d # c => conn'[d] = conn[d]
  BY <1>1 DEF SiteInv
<1>7. Good(q, entry', store', posted')
  BY <1>2, NoWorkIsWorked DEF Good, Phases
<1>8. \A n \in Names, j \in Inodes : posted[j] # {} /\ entry'[n] = j => entry[n] = j
  BY <1>4 DEF Inodes
<1>9. ASSUME NEW d \in Clients, d # c
      PROVE  Good(conn'[d], entry', store', posted')
  <2> DEFINE o == conn[d]
  <2>1. Good(o, entry, store, posted) /\ conn'[d] = o
    BY <1>6, <1>9 DEF SiteInv
  <2>2. Shaped(o) /\ o.work.alone \in BOOLEAN
    BY <2>1 DEF Good, Worked
  <2> HIDE DEF o
  <2>3. Good(o, entry', store, posted)
    BY <1>8, <2>1, <2>2, OthersKeep
  <2>4. QED
    BY <1>1, <2>1, <2>3
<1>10. Exclusive'
  BY <1>2, <1>6, NoWorkIsWorked DEF SiteInv, Exclusive, Writes
<1>11. CountsOK'
  <2>1. /\ made \in [Names -> Nat] /\ confirmed \in [Names -> Nat]
        /\ \A n \in Names : confirmed[n] + (IF Exists(n) THEN 1 ELSE 0) = made[n]
    BY DEF SiteInv, CountsOK, OneDeleteEach
  <2>2. confirmed' \in [Names -> Nat] /\ confirmed'[name] = confirmed[name] + 1
        /\ \A n \in Names : n # name => confirmed'[n] = confirmed[n]
    BY <1>1, <2>1
  <2>3. ASSUME NEW n \in Names
        PROVE  confirmed'[n] + (IF Exists(n)' THEN 1 ELSE 0) = made'[n]
    <3>1. CASE n = name
      <4>1. Exists(n) /\ ~Exists(n)'
        BY <1>1, <1>4, <3>1 DEF Exists
      <4>2. confirmed[n] \in Nat /\ confirmed'[n] = confirmed[n] + 1 /\ made'[n] = made[n]
        BY <1>1, <2>1, <2>2, <3>1
      <4>3. QED
        BY <2>1, <4>1, <4>2
    <3>2. CASE n # name
      BY <1>1, <1>4, <2>1, <2>2, <3>2 DEF Exists
    <3>3. QED
      BY <3>1, <3>2
  <2>4. OneDeleteEach'
    BY <2>3 DEF OneDeleteEach
  <2>5. QED
    BY <1>1, <2>1, <2>2, <2>4 DEF CountsOK
<1>12. QED
  BY <1>5, <1>6, <1>7, <1>9, <1>10, <1>11 DEF SiteInv

\* A complete request is answered at once or put off.
LEMMA AskedIsIdle ==
  ASSUME NEW k, Asked(k)
  PROVE  /\ \A r : Idle(Replies(k, r))
         /\ \A ph \in {"script", "hold"} : Idle([k EXCEPT !.phase = ph])
<1>1. ASSUME NEW r PROVE Idle(Replies(k, r))
  <2>1. LET p == Replies(k, r) IN Shaped(p) /\ p.phase = "reply" /\ p.work = NoWork
    BY RepliesKeeps DEF Asked
  <2>2. QED
    BY <2>1 DEF Idle, Phases
<1>2. ASSUME NEW ph \in {"script", "hold"} PROVE Idle([k EXCEPT !.phase = ph])
  <2> DEFINE p == [k EXCEPT !.phase = ph]
  <2>1. /\ Shaped(p) /\ p.phase = ph /\ p.work = NoWork
        /\ p.response = NewResponse /\ ~p.scripted
    BY DEF Asked, Shaped, NewConnection
  <2> HIDE DEF p
  <2>2. Idle(p)
    BY <2>1 DEF Idle, Phases
  <2>3. QED
    BY <2>2 DEF p
<1>3. QED
  BY <1>1, <1>2

LEMMA RespondStep ==
  ASSUME SiteInv, NEW c \in Clients, NEW k, Asked(k), Respond(c, k),
         sent' \in 0 .. MaxRequests
  PROVE  SiteInv'
<1>1. Shaped(k) /\ k.work = NoWork
  BY DEF Asked
<1>2. CASE Redirects(c, k)
  BY <1>2, AskedIsIdle, IdleStep DEF Redirects
<1>3. CASE StartsScript(c, k)
  <2>1. CASE conn' = [conn EXCEPT ![c] = [k EXCEPT !.phase = "script"]]
             /\ UNCHANGED <<disk, hist>>
    BY <2>1, AskedIsIdle, IdleStep
  <2>2. CASE Refuse(c, k, "502")
    BY <1>1, <2>2, RefuseStep
  <2>3. QED
    BY <1>3, <2>1, <2>2 DEF StartsScript
<1>4. CASE GetListed(c, k)
  <2>1. ASSUME NEW r, conn' = [conn EXCEPT ![c] = Replies(k, r)], UNCHANGED <<disk, hist>>
        PROVE  SiteInv'
    BY <2>1, AskedIsIdle, IdleStep
  <2>2. ASSUME NEW code, Refuse(c, k, code) PROVE SiteInv'
    BY <1>1, <2>2, RefuseStep
  <2>3. QED
    BY <1>4, <2>1, <2>2 DEF GetListed
<1>5. CASE GetOpens(c, k)
  <2>1. k.request.method = "GET"
    BY <1>5 DEF GetOpens, Handled
  <2>2. PICK i \in DOMAIN Tails(k) : Exists(Candidate(k, i)) /\ OpensToRead(c, k, i)
    BY <1>5 DEF GetOpens
  <2>3. QED
    BY <2>1, <2>2, OpensToReadStep
<1>6. CASE GetMisses(c, k) \/ PostMisses(c, k) \/ DeleteFails(c, k) \/ DeleteMisses(c, k)
  <2>1. \E code : Refuse(c, k, code)
    BY <1>6 DEF GetMisses, PostMisses, DeleteFails, DeleteMisses
  <2>2. QED
    BY <1>1, <2>1, RefuseStep
<1>7. CASE PostOverwrites(c, k)
  BY <1>7, PostOverwritesStep
<1>8. CASE PostCreates(c, k)
  BY <1>8, PostCreatesStep
<1>9. CASE Deletes(c, k)
  BY <1>9, DeletesStep
<1>10. CASE DeleteHangs(c, k)
  BY <1>10, AskedIsIdle, IdleStep DEF DeleteHangs
<1>11. QED
  BY <1>2, <1>3, <1>4, <1>5, <1>6, <1>7, <1>8, <1>9, <1>10 DEF Respond

LEMMA ReceivesHeaderStep ==
  ASSUME ServiceAssumption, SiteInv, NEW c \in Clients, NEW q \in Requests,
         ReceivesHeader(c, q)
  PROVE  SiteInv'
<1> DEFINE o == conn[c]
           k == Accepted(o, q)
<1>1. sent' \in 0 .. MaxRequests
  BY DEF ReceivesHeader, SiteInv, ServiceAssumption
<1>2. Shaped(o) /\ o.work = NoWork /\ o.response = NewResponse /\ ~o.scripted
  BY DEF ReceivesHeader, SiteInv, Good
<1>3. DOMAIN q = DOMAIN NoRequest /\ q.body \in Seq(Bytes)
  BY DEF ServiceAssumption
<1>4. CASE ~Valid(q) /\ Refuse(c, k, Refusal(q))
  <2> HIDE DEF o
  <2>1. Shaped(k) /\ k.work = NoWork
    BY <1>2, <1>3 DEF Accepted, Shaped, NewConnection
  <2> HIDE DEF k
  <2>2. QED
    BY <1>1, <1>4, <2>1, RefuseStep
<1>5. CASE Valid(q)
  <2> HIDE DEF o
  <2>1. Asked(k) /\ k.request = q
    BY <1>2, <1>3, <1>5 DEF Accepted, Asked, Shaped, NewConnection, Valid
  <2> HIDE DEF k
  <2>2. CASE conn' = [conn EXCEPT ![c] = [k EXCEPT !.phase = "body"]]
             /\ UNCHANGED <<disk, hist>>
    <3> DEFINE p == [k EXCEPT !.phase = "body"]
    <3>1. /\ Shaped(p) /\ p.phase = "body" /\ p.work = NoWork /\ p.request = k.request
          /\ p.response = NewResponse /\ ~p.scripted /\ p.path = k.path
      BY <2>1 DEF Asked, Shaped, NewConnection
    <3> HIDE DEF p
    <3>2. Idle(p)
      BY <2>1, <3>1 DEF Idle, Phases, Asked
    <3>3. conn' = [conn EXCEPT ![c] = p] /\ UNCHANGED <<disk, hist>>
      BY <2>2 DEF p
    <3>4. QED
      BY <1>1, <3>2, <3>3, IdleStep
  <2>3. CASE Refuse(c, k, "413")
    BY <1>1, <2>1, <2>3, RefuseStep DEF Asked
  <2>4. CASE Respond(c, k)
    BY <1>1, <2>1, <2>4, RespondStep
  <2>5. QED
    BY <1>5, <2>2, <2>3, <2>4 DEF ReceivesHeader, k, o
<1>6. QED
  BY <1>4, <1>5 DEF ReceivesHeader

LEMMA ReceivesJunkStep ==
  ASSUME ServiceAssumption, SiteInv, NEW c \in Clients, ReceivesJunk(c)
  PROVE  SiteInv'
<1> DEFINE o == conn[c]
<1>1. sent' \in 0 .. MaxRequests
  BY DEF ReceivesJunk, SiteInv, ServiceAssumption
<1>2. Shaped(o) /\ o.work = NoWork
  BY DEF ReceivesJunk, SiteInv, Good
<1>3. CASE Refuse(c, o, "413")
  <2> HIDE DEF o
  <2>1. QED
    BY <1>1, <1>2, <1>3, RefuseStep
<1>4. ASSUME NEW code, NEW method, Refuse(c, [o EXCEPT !.request.method = method], code)
      PROVE  SiteInv'
  <2> HIDE DEF o
  <2> DEFINE k == [o EXCEPT !.request.method = method]
  <2>1. Shaped(k) /\ k.work = NoWork /\ Refuse(c, k, code)
    BY <1>2, <1>4 DEF Shaped, NewConnection, NoRequest
  <2> HIDE DEF k
  <2>2. QED
    BY <1>1, <2>1, RefuseStep
<1>5. QED
  BY <1>3, <1>4 DEF ReceivesJunk

LEMMA ReceivesBodyStep ==
  ASSUME SiteInv, NEW c \in Clients, ReceivesBody(c)
  PROVE  SiteInv'
<1> DEFINE k == conn[c]
<1>1. sent' \in 0 .. MaxRequests
  BY DEF ReceivesBody, SiteInv
<1>2. Asked(k)
  BY DEF ReceivesBody, SiteInv, Good, Asked
<1>3. Refuse(c, k, "413") \/ Respond(c, k)
  BY DEF ReceivesBody
<1> HIDE DEF k
<1>4. CASE Refuse(c, k, "413")
  BY <1>1, <1>2, <1>4, RefuseStep DEF Asked
<1>5. CASE Respond(c, k)
  BY <1>1, <1>2, <1>5, RespondStep
<1>6. QED
  BY <1>3, <1>4, <1>5

-----------------------------------------------------------------------------
(***************************************************************************)
(* Files and scripts.                                                      *)
(***************************************************************************)

\* Contents with the same bytes in the same places.
LEMMA SameContents ==
  ASSUME NEW s \in Contents, NEW t \in Contents, Len(s) = Len(t),
         \A p \in 1 .. Len(s) : s[p] = t[p]
  PROVE  s = t
BY SeqEqual DEF Contents

\* Nobody writes where a connection is alone.
LEMMA AloneIsExclusive ==
  ASSUME SiteInv, NEW c \in Clients, NEW w, w.file = conn[c].work.file,
         w.alone = conn[c].work.alone
  PROVE  w.alone /\ w.file # 0 => \A d \in Clients : d # c => ~Writes(conn[d], w.file)
BY DEF SiteInv, Exclusive

\* The last reply of the work, which nobody may be waiting for.
LEMMA EndsStep ==
  ASSUME SiteInv, NEW c \in Clients, NEW k, Ends(c, k), UNCHANGED <<disk, sent, hist>>,
         Good(k, entry, store, posted), k.phase = "reply", k.work = conn[c].work
  PROVE  SiteInv'
<1>1. sent' \in 0 .. MaxRequests
  BY DEF SiteInv
<1>2. CASE k.left
  BY <1>1, <1>2, NewIsIdle, IdleStep DEF Ends
<1>3. CASE ~k.left
  <2>1. conn' = [conn EXCEPT ![c] = k]
    BY <1>3 DEF Ends
  <2>2. \A i \in Inodes : ~Writes(k, i)
    BY DEF Writes
  <2>3. k.work.alone /\ k.work.file # 0 =>
          \A d \in Clients : d # c => ~Writes(conn[d], k.work.file)
    BY AloneIsExclusive
  <2>4. QED
    BY <1>1, <2>1, <2>2, <2>3, ConnStep
<1>4. QED
  BY <1>2, <1>3

LEMMA ReadsStep ==
  ASSUME SiteInv, NEW c \in Clients, Reads(c)
  PROVE  SiteInv'
<1> DEFINE o == conn[c]
           w == o.work
           t == store[w.file]
<1>1. PICK n \in 1 .. BufferSize :
        /\ w.total + n <= Len(t)
        /\ conn' = [conn EXCEPT
             ![c].work.total = @ + n,
             ![c].work.data = @ \o SubSeq(t, w.total + 1, w.total + n)]
  BY DEF Reads
<1>2. n \in Nat /\ sent' \in 0 .. MaxRequests /\ UNCHANGED <<disk, hist>>
      /\ o.phase = "work" /\ o.request.method = "GET"
  BY DEF Reads, At, SiteInv
<1>3. /\ Good(o, entry, store, posted) /\ Shaped(o) /\ Reading(w, store)
      /\ Worked(w, posted) /\ o.response = NewResponse /\ ~o.scripted
  BY <1>2 DEF SiteInv, Good
<1>4. /\ w.file \in Inodes /\ w.file # 0 /\ t \in Contents /\ Placed(t, posted[w.file])
      /\ w.total = Len(w.data) /\ w.data \in Contents /\ Placed(w.data, posted[w.file])
  BY <1>3 DEF Worked, Reading, SiteInv, DiskOK
<1> DEFINE r == w.data \o SubSeq(t, w.total + 1, w.total + n)
           p == [o EXCEPT !.work.total = @ + n, !.work.data = r]
<1>5. /\ r \in Contents /\ Len(r) = Len(w.data) + n
      /\ \A x \in 1 .. Len(w.data) + n : r[x] = IF x <= Len(w.data) THEN w.data[x] ELSE t[x]
  <2> DEFINE d == w.data
  <2>1. /\ d \in Seq(Bytes \cup {Hole}) /\ t \in Seq(Bytes \cup {Hole})
        /\ w.total = Len(d) /\ Len(d) + n <= Len(t) /\ n \in Nat
    BY <1>1, <1>2, <1>4 DEF Contents
  <2>2. r = d \o SubSeq(t, Len(d) + 1, Len(d) + n)
    BY <2>1
  <2> HIDE DEF d, r, t
  <2> DEFINE more == d \o SubSeq(t, Len(d) + 1, Len(d) + n)
  <2>3. /\ more \in Seq(Bytes \cup {Hole}) /\ Len(more) = Len(d) + n
        /\ \A x \in 1 .. Len(d) + n : more[x] = IF x <= Len(d) THEN d[x] ELSE t[x]
    BY <2>1, ReadMore
  <2>4. QED
    BY <2>2, <2>3 DEF d, Contents
<1>6. conn' = [conn EXCEPT ![c] = p]
  BY <1>1 DEF SiteInv
<1> HIDE DEF r
<1>7. /\ Shaped(p) /\ p.phase = o.phase /\ p.request = o.request
      /\ p.response = o.response /\ p.scripted = o.scripted
      /\ p.work.file = w.file /\ p.work.total = w.total + n /\ p.work.data = r
      /\ p.work.first = w.first /\ p.work.alone = w.alone
  BY <1>3 DEF Shaped, NewConnection, NoWork
<1> HIDE DEF p
<1>8. Placed(r, posted[w.file])
  <2>1. SUFFICES ASSUME NEW x \in DOMAIN r
                 PROVE  r[x] = Hole \/ \E b \in posted[w.file] : x \in DOMAIN b /\ r[x] = b[x]
    BY DEF Placed
  <2>2. x \in 1 .. Len(w.data) + n
    BY <1>5 DEF Contents
  <2>3. CASE x <= Len(w.data)
    <3>1. x \in DOMAIN w.data /\ r[x] = w.data[x]
      BY <1>4, <1>5, <2>2, <2>3 DEF Contents
    <3>2. QED
      BY <1>4, <3>1 DEF Placed
  <2>4. CASE ~(x <= Len(w.data))
    <3>1. Len(t) \in Nat /\ DOMAIN t = 1 .. Len(t) /\ Len(w.data) \in Nat
      BY <1>4 DEF Contents
    <3>2. Len(w.data) + n <= Len(t)
      BY <1>1, <1>4
    <3>3. x \in DOMAIN t
      BY <1>2, <2>2, <3>1, <3>2
    <3>4. r[x] = t[x]
      BY <1>5, <2>2, <2>4
    <3>5. QED
      BY <1>4, <3>3, <3>4 DEF Placed
  <2>5. QED
    BY <2>3, <2>4
<1>9. Worked(p.work, posted)
  BY <1>2, <1>3, <1>4, <1>5, <1>7, <1>8 DEF Worked
<1>10. Reading(p.work, store)
  <2>1. p.work.file # 0 /\ p.work.total = Len(p.work.data)
    BY <1>4, <1>5, <1>7
  <2>2. ASSUME w.alone
        PROVE  /\ store[p.work.file] = p.work.first /\ p.work.total <= Len(p.work.first)
               /\ \A x \in 1 .. p.work.total : p.work.data[x] = p.work.first[x]
    <3>1. t = w.first /\ \A x \in 1 .. w.total : w.data[x] = w.first[x]
      BY <1>3, <2>2 DEF Reading
    <3>2. \A x \in 1 .. w.total + n : r[x] = t[x]
      BY <1>4, <1>5, <3>1
    <3>3. QED
      BY <1>1, <1>7, <3>1, <3>2
  <2>3. QED
    BY <1>7, <2>1, <2>2 DEF Reading
<1>11. Good(p, entry, store, posted)
  BY <1>2, <1>3, <1>7, <1>9, <1>10 DEF Good, Phases
<1>12. \A i \in Inodes : ~Writes(p, i)
  BY <1>2, <1>7 DEF Writes
<1>13. p.work.alone /\ p.work.file # 0 =>
         \A d \in Clients : d # c => ~Writes(conn[d], p.work.file)
  BY <1>7, AloneIsExclusive
<1>14. QED
  BY <1>2, <1>6, <1>11, <1>12, <1>13, ConnStep

LEMMA ReadEndsStep ==
  ASSUME SiteInv, NEW c \in Clients, ReadEnds(c)
  PROVE  SiteInv'
<1> DEFINE o == conn[c]
           w == o.work
           r == WithBody(o.response, o.request, w.data, "200")
           k == Replies(o, r)
<1>1. /\ o.phase = "work" /\ o.request.method = "GET" /\ w.total >= Len(store[w.file])
      /\ Ends(c, k) /\ UNCHANGED <<disk, sent, hist>>
  BY DEF ReadEnds, At
<1>2. /\ Good(o, entry, store, posted) /\ Shaped(o) /\ Reading(w, store)
      /\ Worked(w, posted) /\ o.response = NewResponse /\ ~o.scripted
  BY <1>1 DEF SiteInv, Good
<1>3. r.out.line[1].code = "200" /\ r.out.body = w.data
  <2> DEFINE e == NewResponse
  <2>1. RShape(e) /\ e.line = <<>> /\ o.response = e
    BY <1>2 DEF RShape, NewResponse
  <2> HIDE DEF e
  <2>2. QED
    BY <2>1, WithBodySays
<1> HIDE DEF r
<1>4. Shaped(k) /\ k.phase = "reply" /\ k.response = r /\ k.work = w
  BY <1>2, RepliesKeeps
<1> HIDE DEF k
<1>5. w.alone => w.data = w.first
  <2>1. SUFFICES ASSUME w.alone PROVE w.data = w.first
    OBVIOUS
  <2>2. /\ w.data \in Contents /\ w.first \in Contents /\ w.total = Len(w.data)
        /\ store[w.file] = w.first /\ w.total <= Len(w.first)
        /\ \A x \in 1 .. w.total : w.data[x] = w.first[x]
    BY <1>2, <2>1 DEF Worked, Reading
  <2>3. Len(w.data) = Len(w.first)
    BY <1>1, <2>2 DEF Contents
  <2>4. QED
    BY <2>2, <2>3, SameContents
<1>6. k.work.alone => Truthful(k, store)
  BY <1>3, <1>4, <1>5 DEF Truthful
<1>7. Good(k, entry, store, posted)
  BY <1>2, <1>4, <1>6 DEF Good, Phases
<1>8. QED
  BY <1>1, <1>4, <1>7, EndsStep

LEMMA FileFailsStep ==
  ASSUME SiteInv, NEW c \in Clients, FileFails(c)
  PROVE  SiteInv'
<1> DEFINE o == conn[c]
           r == Error(o, "500")
           k == Replies(o, r)
<1>1. o.phase = "work" /\ Ends(c, k) /\ UNCHANGED <<disk, sent, hist>>
  BY DEF FileFails, Failed
<1>2. /\ Good(o, entry, store, posted) /\ Shaped(o)
      /\ Worked(o.work, posted) /\ o.response = NewResponse /\ ~o.scripted
  BY <1>1 DEF SiteInv, Good
<1>3. r.out.line[1].code = "500"
  <2> HIDE DEF o
  <2>1. QED
    BY <1>2, ErrorSays
<1> HIDE DEF r
<1>4. Shaped(k) /\ k.phase = "reply" /\ k.response = r /\ k.work = o.work
  BY <1>2, RepliesKeeps
<1> HIDE DEF k
<1>5. Truthful(k, store)
  BY <1>3, <1>4 DEF Truthful
<1>6. Good(k, entry, store, posted)
  BY <1>2, <1>4, <1>5 DEF Good, Phases
<1>7. QED
  BY <1>1, <1>4, <1>6, EndsStep

LEMMA WritesSomeStep ==
  ASSUME SiteInv, NEW c \in Clients, WritesSome(c)
  PROVE  SiteInv'
<1> DEFINE o == conn[c]
           w == o.work
<1>1. PICK n \in 0 .. BufferSize :
        /\ n <= Len(w.data) - w.total /\ (n = 0 => Len(w.data) - w.total = 0)
        /\ store' = [store EXCEPT ![w.file] =
             IF n = 0 THEN @
             ELSE Overlaid(@, w.total, SubSeq(w.data, w.total + 1, w.total + n))]
        /\ LET moved == [o EXCEPT !.work.total = w.total + n] IN
           IF n = Len(w.data) - w.total THEN Ends(c, Done(moved, "201"))
                                        ELSE conn' = [conn EXCEPT ![c] = moved]
  BY DEF WritesSome
<1>2. /\ n \in Nat /\ o.phase = "work" /\ o.request.method = "POST"
      /\ entry' = entry /\ sent' = sent /\ made' = made /\ confirmed' = confirmed
      /\ posted' = posted
  BY DEF WritesSome, At, hist
<1>3. /\ Good(o, entry, store, posted) /\ Shaped(o) /\ Posting(o, entry, store, posted)
      /\ Worked(w, posted) /\ o.response = NewResponse /\ ~o.scripted
  BY <1>2 DEF SiteInv, Good
<1> DEFINE i == w.file
           m == w.total
           b == w.data
           s == store[i]
           r == store'[i]
<1>4. /\ i \in Inodes /\ i # 0 /\ s \in Contents /\ Placed(s, posted[i])
      /\ m \in Nat /\ b \in Contents /\ b \in posted[i] /\ m + n <= Len(b)
      /\ Len(b) \in Nat /\ DOMAIN store = Inodes
  <2>1. i \in Inodes /\ i # 0 /\ b \in Contents /\ b \in posted[i] /\ m \in 0 .. Len(b)
    BY <1>3 DEF Worked, Posting
  <2>2. s \in Contents /\ Placed(s, posted[i]) /\ DOMAIN store = Inodes
    BY <2>1 DEF SiteInv, DiskOK
  <2>3. Len(b) \in Nat
    BY <2>1 DEF Contents
  <2>4. QED
    BY <1>1, <1>2, <2>1, <2>2, <2>3
<1>5. /\ DOMAIN store' = Inodes /\ \A j \in Inodes : j # i => store'[j] = store[j]
      /\ r = IF n = 0 THEN s ELSE Overlaid(s, m, SubSeq(b, m + 1, m + n))
  BY <1>1, <1>4
<1> DEFINE moved == [o EXCEPT !.work.total = m + n]
<1>6. /\ Shaped(moved) /\ moved.phase = "work" /\ moved.request = o.request
      /\ moved.response = NewResponse /\ ~moved.scripted
      /\ moved.work.file = i /\ moved.work.total = m + n /\ moved.work.data = b
      /\ moved.work.first = w.first /\ moved.work.alone = w.alone
  BY <1>2, <1>3 DEF Shaped, NewConnection, NoWork
<1> DEFINE q == Done(moved, "201")
<1>7. /\ n = Len(b) - m => Ends(c, q)
      /\ n # Len(b) - m => conn' = [conn EXCEPT ![c] = moved]
  BY <1>1
<1> HIDE DEF moved
<1>8. /\ Shaped(q) /\ q.phase = "reply" /\ q.work = moved.work /\ q.request = o.request
      /\ q.response.out.line[1].code = "201"
  <2> DEFINE e == NewResponse
  <2>1. RShape(e) /\ e.line = <<>> /\ moved.response = e
    BY <1>6 DEF RShape, NewResponse
  <2> HIDE DEF e
  <2>2. Plain(moved.response, moved.request, "201").out.line[1].code = "201"
    BY <2>1, PlainSays
  <2>3. QED
    BY <1>6, <2>2, RepliesKeeps DEF Done
<1> HIDE DEF q
\* What the file holds now.
<1>9. /\ r \in Contents
      /\ \A p \in 1 .. Len(r) : r[p] = IF p \in m + 1 .. m + n THEN b[p]
                                       ELSE IF p \in DOMAIN s THEN s[p] ELSE Hole
      /\ (Len(s) = m => Len(r) = m + n)
  <2>1. CASE n = 0
    <3>1. r = s /\ DOMAIN s = 1 .. Len(s)
      BY <1>4, <1>5, <2>1 DEF Contents
    <3>2. \A p : ~(p \in m + 1 .. m + n)
      BY <1>4, <2>1
    <3>3. QED
      BY <1>4, <2>1, <3>1, <3>2
  <2>2. CASE n # 0
    <3>1. n \in Nat \ {0} /\ r = Overlaid(s, m, SubSeq(b, m + 1, m + n))
      BY <1>2, <1>5, <2>2
    <3>2. s \in Contents /\ b \in Contents /\ m \in Nat /\ m + n <= Len(b)
      BY <1>4
    <3> DEFINE x == Overlaid(s, m, SubSeq(b, m + 1, m + n))
    <3> HIDE DEF s, b, m, r
    <3>3. Written(x, s, b, m, n)
      BY <3>1, <3>2, WriteMore
    <3> HIDE DEF x
    <3>4. QED
      BY <3>1, <3>2, <3>3 DEF Written, x
  <2>3. QED
    BY <2>1, <2>2
<1>10. Placed(r, posted[i])
  <2>1. SUFFICES ASSUME NEW p \in DOMAIN r
                 PROVE  r[p] = Hole \/ \E x \in posted[i] : p \in DOMAIN x /\ r[p] = x[p]
    BY DEF Placed
  <2>2. p \in 1 .. Len(r) /\ DOMAIN b = 1 .. Len(b)
    BY <1>4, <1>9 DEF Contents
  <2>3. CASE p \in m + 1 .. m + n
    <3>1. p \in DOMAIN b
      BY <1>2, <1>4, <2>2, <2>3
    <3>2. QED
      BY <1>4, <1>9, <2>2, <2>3, <3>1
  <2>4. CASE ~(p \in m + 1 .. m + n)
    <3>1. CASE p \in DOMAIN s
      <4>1. r[p] = s[p]
        BY <1>9, <2>2, <2>4, <3>1
      <4>2. QED
        BY <1>4, <3>1, <4>1 DEF Placed
    <3>2. CASE p \notin DOMAIN s
      BY <1>9, <2>2, <2>4, <3>2
    <3>3. QED
      BY <3>1, <3>2
  <2>5. QED
    BY <2>3, <2>4
<1>11. w.alone => Len(r) = m + n /\ \A p \in 1 .. m + n : r[p] = b[p]
  <2>1. SUFFICES ASSUME w.alone
                 PROVE  Len(r) = m + n /\ \A p \in 1 .. m + n : r[p] = b[p]
    OBVIOUS
  <2>2. Len(s) = m /\ \A p \in 1 .. m : s[p] = b[p]
    BY <1>3, <2>1 DEF Posting
  <2>3. Len(r) = m + n
    BY <1>9, <2>2
  <2>4. DOMAIN s = 1 .. m
    BY <1>4, <2>2 DEF Contents
  <2>5. ASSUME NEW p \in 1 .. m + n
        PROVE  r[p] = b[p]
    <3>1. p \in 1 .. Len(r)
      BY <2>3
    <3>2. CASE p \in m + 1 .. m + n
      BY <1>9, <3>1, <3>2
    <3>3. CASE ~(p \in m + 1 .. m + n)
      <4>1. p \in 1 .. m
        BY <1>2, <1>4, <3>3
      <4>2. QED
        BY <1>9, <2>2, <2>4, <3>1, <3>3, <4>1
    <3>4. QED
      BY <3>2, <3>3
  <2>6. QED
    BY <2>3, <2>5
<1>12. w.alone /\ n = Len(b) - m => r = b
  <2>1. SUFFICES ASSUME w.alone, n = Len(b) - m PROVE r = b
    OBVIOUS
  <2>2. m + n = Len(b)
    BY <1>2, <1>4, <2>1
  <2> HIDE DEF m, b, r
  <2>3. Len(r) = Len(b) /\ \A p \in 1 .. Len(r) : r[p] = b[p]
    BY <1>11, <2>1, <2>2
  <2>4. QED
    BY <1>4, <1>9, <2>3, SameContents
<1>13. DiskOK'
  <2>1. \A j \in Inodes : store'[j] \in Contents /\ Placed(store'[j], posted'[j])
    BY <1>2, <1>5, <1>9, <1>10 DEF SiteInv, DiskOK
  <2>2. QED
    BY <1>2, <1>5, <2>1 DEF SiteInv, DiskOK
<1>14. CountsOK'
  BY <1>2 DEF SiteInv, CountsOK, OneDeleteEach, Exists
\* The connection goes on, replies, or is removed.
<1>15. PICK k : /\ conn' = [conn EXCEPT ![c] = k]
                /\ \/ k = NewConnection
                   \/ k = moved
                   \/ k = q /\ n = Len(b) - m
  BY <1>7 DEF Ends
<1>16. /\ DOMAIN conn' = Clients /\ conn'[c] = k
       /\ \A d \in Clients : d # c => conn'[d] = conn[d]
  BY <1>15 DEF SiteInv
<1>17. Worked(moved.work, posted)
  BY <1>2, <1>3, <1>4, <1>6 DEF Worked
<1>18. Good(k, entry', store', posted')
  <2>1. CASE k = NewConnection
    BY <2>1, NewIsIdle, NoWorkIsWorked DEF Idle, Good, NewConnection
  <2>2. CASE k = moved
    <3>1. Posting(moved, entry, store', posted)
      BY <1>3, <1>4, <1>6, <1>11 DEF Posting
    <3>2. QED
      BY <1>2, <1>4, <1>6, <1>17, <2>2, <3>1 DEF Good, Phases
  <2>3. CASE k = q /\ n = Len(b) - m
    <3>1. q.work.alone => Truthful(q, store')
      <4>1. SUFFICES ASSUME q.work.alone PROVE Truthful(q, store')
        OBVIOUS
      <4>2. r = b /\ q.work.file = i /\ o.request.body = b
        BY <1>3, <1>6, <1>8, <1>12, <2>3, <4>1 DEF Posting
      <4>3. QED
        BY <1>4, <1>8, <4>2 DEF Truthful
    <3>2. QED
      BY <1>2, <1>8, <1>17, <2>3, <3>1 DEF Good, Phases
  <2>4. QED
    BY <1>15, <2>1, <2>2, <2>3
\* Whoever else is at the file knows that he is not alone there.
<1>19. \A d \in Clients : d # c /\ conn[d].work.alone => conn[d].work.file # i
  <2>1. Writes(o, i)
    BY <1>2 DEF Writes
  <2>2. QED
    BY <1>4, <2>1 DEF SiteInv, Exclusive
<1>20. ASSUME NEW d \in Clients, d # c
       PROVE  Good(conn'[d], entry', store', posted')
  <2> DEFINE g == conn[d]
  <2>1. Good(g, entry, store, posted) /\ conn'[d] = g
    BY <1>16, <1>20 DEF SiteInv
  <2>2. Shaped(g) /\ g.work.alone \in BOOLEAN
    BY <2>1 DEF Good, Worked
  <2>3. \A j \in Inodes : g.work.alone /\ g.work.file = j => store'[j] = store[j]
    BY <1>5, <1>19, <1>20
  <2> HIDE DEF g
  <2>4. Good(g, entry, store', posted)
    BY <2>1, <2>2, <2>3, OthersKeep
  <2>5. QED
    BY <1>2, <2>1, <2>4
<1>21. Exclusive'
  <2>1. SUFFICES ASSUME NEW x \in Clients, NEW d \in Clients, x # d,
                        conn'[x].work.alone, conn'[x].work.file # 0,
                        Writes(conn'[d], conn'[x].work.file)
                 PROVE  FALSE
    BY DEF Exclusive, Writes
  <2>2. /\ k.work.alone /\ k.work.file # 0 => o.work.alone /\ k.work.file = i
        /\ \A j : Writes(k, j) => j = i
    BY <1>6, <1>8, <1>15 DEF Writes, NewConnection, NoWork
  <2>3. CASE x = c
    <3>1. o.work.alone /\ Writes(conn[d], i)
      BY <1>16, <2>1, <2>2, <2>3
    <3>2. QED
      BY <1>4, <2>1, <2>3, <3>1 DEF SiteInv, Exclusive
  <2>4. CASE d = c
    BY <1>16, <1>19, <2>1, <2>2, <2>4
  <2>5. CASE x # c /\ d # c
    <3>1. Writes(conn[d], conn[x].work.file) /\ conn[x].work.alone /\ conn[x].work.file # 0
      BY <1>16, <2>1, <2>5
    <3>2. QED
      BY <2>1, <3>1 DEF SiteInv, Exclusive
  <2>6. QED
    BY <2>3, <2>4, <2>5
<1>22. QED
  BY <1>2, <1>13, <1>14, <1>16, <1>18, <1>20, <1>21 DEF SiteInv

LEMMA ScriptEndsStep ==
  ASSUME SiteInv, NEW c \in Clients, ScriptEnds(c)
  PROVE  SiteInv'
<1> DEFINE o == conn[c]
<1>1. sent' \in 0 .. MaxRequests /\ UNCHANGED <<disk, hist>>
  BY DEF ScriptEnds, SiteInv
<1>2. Shaped(o) /\ o.work = NoWork /\ o.response = NewResponse /\ ~o.scripted
  BY DEF ScriptEnds, SiteInv, Good
<1>3. ASSUME NEW r PROVE Idle(Replies(o, r)) /\ Idle([Replies(o, r) EXCEPT !.scripted = TRUE])
  <2> DEFINE p == Replies(o, r)
             q == [p EXCEPT !.scripted = TRUE]
  <2>1. Shaped(p) /\ p.phase = "reply" /\ p.work = NoWork
    BY <1>2, RepliesKeeps
  <2> HIDE DEF p
  <2>2. Shaped(q) /\ q.phase = "reply" /\ q.work = NoWork
    BY <2>1 DEF Shaped, NewConnection
  <2> HIDE DEF q
  <2>3. Idle(p) /\ Idle(q)
    BY <2>1, <2>2 DEF Idle, Phases
  <2>4. QED
    BY <2>3 DEF p, q
<1>4. Idle([o EXCEPT !.phase = "hold"])
  <2> DEFINE p == [o EXCEPT !.phase = "hold"]
  <2>1. /\ Shaped(p) /\ p.phase = "hold" /\ p.work = NoWork
        /\ p.response = NewResponse /\ ~p.scripted
    BY <1>2 DEF Shaped, NewConnection
  <2> HIDE DEF p
  <2>2. Idle(p)
    BY <2>1 DEF Idle, Phases
  <2>3. QED
    BY <2>2 DEF p
<1>5. \E k : Idle(k) /\ conn' = [conn EXCEPT ![c] = k]
  <2>1. CASE \E x \in Outputs :
               conn' = [conn EXCEPT ![c] =
                 [Replies(o, ScriptReply(o.response, o.request, x)) EXCEPT !.scripted = TRUE]]
    BY <1>3, <2>1
  <2>2. CASE conn' = [conn EXCEPT ![c] = Failed(o, "500")]
    BY <1>3, <2>2 DEF Failed
  <2>3. CASE conn' = [conn EXCEPT ![c].phase = "hold"]
    <3>1. conn' = [conn EXCEPT ![c] = [o EXCEPT !.phase = "hold"]]
      BY <2>3
    <3>2. QED
      BY <1>4, <3>1
  <2>4. QED
    BY <2>1, <2>2, <2>3 DEF ScriptEnds
<1>6. QED
  BY <1>1, <1>5, IdleStep

LEMMA ReplySentStep ==
  ASSUME SiteInv, NEW c \in Clients, ReplySent(c)
  PROVE  SiteInv'
<1>1. sent' \in 0 .. MaxRequests /\ UNCHANGED <<disk, hist>>
  BY DEF ReplySent, SiteInv
<1>2. \E k : Idle(k) /\ conn' = [conn EXCEPT ![c] = k]
  BY NewIsIdle DEF ReplySent
<1>3. QED
  BY <1>1, <1>2, IdleStep

LEMMA LeavesStep ==
  ASSUME SiteInv, NEW c \in Clients, Leaves(c)
  PROVE  SiteInv'
<1> DEFINE o == conn[c]
           k == [o EXCEPT !.left = TRUE]
<1>1. sent' \in 0 .. MaxRequests /\ UNCHANGED <<disk, hist>>
  BY DEF Leaves, SiteInv
<1>2. CASE o.phase = "work"
  <2>1. conn' = [conn EXCEPT ![c] = k]
    BY <1>2 DEF Leaves
  <2>2. Good(o, entry, store, posted) /\ Shaped(o)
    BY DEF SiteInv, Good
  <2>3. /\ Shaped(k) /\ k.phase = o.phase /\ k.request = o.request /\ k.work = o.work
        /\ k.response = o.response /\ k.scripted = o.scripted
    BY <2>2 DEF Shaped, NewConnection
  <2>4. k.work.alone /\ k.work.file # 0 =>
          \A d \in Clients : d # c => ~Writes(conn[d], k.work.file)
    BY <2>3, AloneIsExclusive
  <2> HIDE DEF k
  <2>5. Posting(o, entry, store, posted) => Posting(k, entry, store, posted)
    BY <2>3 DEF Posting
  <2>6. Good(k, entry, store, posted)
    BY <1>2, <2>2, <2>3, <2>5 DEF Good
  <2>7. \A i \in Inodes : Writes(k, i) => Writes(conn[c], i)
    BY <2>3 DEF Writes
  <2>8. QED
    BY <1>1, <2>1, <2>4, <2>6, <2>7, ConnStep
<1>3. CASE o.phase # "work"
  <2>1. conn' = [conn EXCEPT ![c] = NewConnection]
    BY <1>3 DEF Leaves
  <2>2. QED
    BY <1>1, <2>1, NewIsIdle, IdleStep
<1>4. QED
  BY <1>2, <1>3

-----------------------------------------------------------------------------
(***************************************************************************)
(* The invariant.                                                          *)
(***************************************************************************)
LEMMA InitSite == ServiceAssumption /\ Init => SiteInv
<1> SUFFICES ASSUME ServiceAssumption, Init PROVE SiteInv
  OBVIOUS
<1>1. /\ DOMAIN Present \subseteq Inodes /\ 0 \notin Inodes
      /\ \A i \in DOMAIN Present : Present[i].contents \in Seq(Bytes)
      /\ \A i, j \in DOMAIN Present : Present[i].name = Present[j].name => i = j
  <2> DEFINE S == [name : Names, contents : Seq(Bytes)]
  <2>1. /\ Present \in Seq(S) /\ MaxFiles \in Nat /\ Len(Present) <= MaxFiles
        /\ \A i, j \in DOMAIN Present : Present[i].name = Present[j].name => i = j
    BY DEF ServiceAssumption
  <2>2. \A e \in S : e.contents \in Seq(Bytes)
    OBVIOUS
  <2> HIDE DEF S
  <2>3. DOMAIN Present = 1 .. Len(Present) /\ Len(Present) \in Nat
        /\ \A i \in 1 .. Len(Present) : Present[i] \in S
    BY <2>1
  <2>4. QED
    BY <2>1, <2>2, <2>3 DEF Inodes
<1>2. ASSUME NEW n \in Names
      PROVE  \/ entry[n] = 0
             \/ entry[n] \in DOMAIN Present /\ Present[entry[n]].name = n
  BY DEF Init
<1>3. DOMAIN entry = Names /\ entry = [n \in Names |-> entry[n]]
  BY DEF Init
<1>4. ASSUME NEW i \in Inodes
      PROVE  /\ store[i] \in Contents
             /\ posted[i] = IF i \in DOMAIN Present THEN {store[i]} ELSE {}
             /\ i \notin DOMAIN Present => store[i] = <<>>
  <2>1. /\ store[i] = IF i \in DOMAIN Present THEN Present[i].contents ELSE <<>>
        /\ posted[i] = IF i \in DOMAIN Present THEN {store[i]} ELSE {}
    BY DEF Init
  <2>2. store[i] \in Seq(Bytes)
    BY <1>1, <2>1
  <2>3. QED
    BY <2>1, <2>2 DEF Contents
<1>5. DiskOK
  <2>1. entry \in [Names -> Inodes \cup {0}]
    BY <1>1, <1>2, <1>3
  <2>2. \A m, n \in Names : entry[m] = entry[n] /\ m # n => entry[m] = 0
    BY <1>2
  <2>3. \A n \in Names : entry[n] # 0 => posted[entry[n]] # {}
    <3>1. ASSUME NEW n \in Names, entry[n] # 0
          PROVE  posted[entry[n]] # {}
      <4>1. entry[n] \in DOMAIN Present /\ entry[n] \in Inodes
        BY <1>1, <1>2, <3>1
      <4>2. posted[entry[n]] = {store[entry[n]]}
        BY <1>4, <4>1
      <4>3. QED
        BY <4>2
    <3>2. QED
      BY <3>1
  <2>4. ASSUME NEW i \in Inodes
        PROVE  Placed(store[i], posted[i])
    <3>1. CASE i \in DOMAIN Present
      BY <1>4, <3>1 DEF Placed
    <3>2. CASE i \notin DOMAIN Present
      <4>1. store[i] = <<>>
        BY <1>4, <3>2
      <4>2. DOMAIN store[i] = {}
        BY <4>1
      <4>3. QED
        BY <4>2 DEF Placed
    <3>3. QED
      BY <3>1, <3>2
  <2>5. DOMAIN store = Inodes /\ DOMAIN posted = Inodes
    BY DEF Init
  <2>6. QED
    BY <1>4, <2>1, <2>2, <2>3, <2>4, <2>5 DEF DiskOK
<1>6. CountsOK
  BY DEF Init, CountsOK, OneDeleteEach, Exists
<1>7. ASSUME NEW c \in Clients
      PROVE  Good(conn[c], entry, store, posted) /\ ~conn[c].work.alone
  <2>1. conn[c] = NewConnection
    BY DEF Init
  <2>2. QED
    BY <2>1, NewIsIdle, NoWorkIsWorked DEF Idle, Good
<1>8. DOMAIN conn = Clients /\ sent \in 0 .. MaxRequests /\ Exclusive
  <2>1. Exclusive
    BY <1>7 DEF Exclusive
  <2>2. sent = 0 /\ MaxRequests \in Nat
    BY DEF Init, ServiceAssumption
  <2>3. DOMAIN conn = Clients
    BY DEF Init
  <2>4. QED
    BY <2>1, <2>2, <2>3
<1>9. QED
  BY <1>5, <1>6, <1>7, <1>8 DEF SiteInv

LEMMA NextSite == ServiceAssumption /\ SiteInv /\ [Next]_vars => SiteInv'
<1> SUFFICES ASSUME ServiceAssumption, SiteInv, [Next]_vars PROVE SiteInv'
  OBVIOUS
<1>1. CASE Next
  <2>1. PICK c \in Clients :
          \/ \E q \in Requests : ReceivesHeader(c, q)
          \/ ReceivesJunk(c) \/ ReceivesBody(c)
          \/ Reads(c) \/ ReadEnds(c) \/ WritesSome(c) \/ FileFails(c) \/ ScriptEnds(c)
          \/ ReplySent(c) \/ Leaves(c)
    BY <1>1 DEF Next
  <2>2. QED
    BY <2>1, ReceivesHeaderStep, ReceivesJunkStep, ReceivesBodyStep, ReadsStep,
       ReadEndsStep, WritesSomeStep, FileFailsStep, ScriptEndsStep, ReplySentStep,
       LeavesStep
<1>2. CASE UNCHANGED vars
  <2>1. UNCHANGED <<entry, store, conn, sent, made, confirmed, posted>>
    BY <1>2 DEF vars, disk, hist
  <2>2. DiskOK'
    BY <2>1 DEF SiteInv, DiskOK
  <2>3. Exclusive'
    BY <2>1 DEF SiteInv, Exclusive, Writes
  <2>4. CountsOK'
    BY <2>1 DEF SiteInv, CountsOK, OneDeleteEach, Exists
  <2>5. \A c \in Clients : Good(conn[c], entry, store, posted)'
    BY <2>1 DEF SiteInv, Good, Truthful, Worked, Reading, Posting
  <2>6. QED
    BY <2>1, <2>2, <2>3, <2>4, <2>5 DEF SiteInv
<1>3. QED
  BY <1>1, <1>2

LEMMA SiteIsSound == Spec => []SiteInv
BY ServiceAssumption, InitSite, NextSite, PTL DEF Spec

\* The kinds of the variables hold at every state, for any number of
\* connections and files.
THEOREM ServiceIsTyped == Spec => []TypeOK
<1>1. SiteInv => TypeOK
  <2> SUFFICES ASSUME SiteInv PROVE TypeOK
    OBVIOUS
  <2>1. /\ entry \in [Names -> Inodes \cup {0}] /\ sent \in 0 .. MaxRequests
        /\ \A i \in Inodes : store[i] \in Seq(Bytes \cup {Hole})
        /\ \A m, n \in Names : entry[m] = entry[n] /\ m # n => entry[m] = 0
    BY DEF SiteInv, DiskOK, Contents
  <2>2. ASSUME NEW c \in Clients
        PROVE  /\ conn[c].phase \in Phases
               /\ conn[c].phase = "work" => conn[c].work.file \in Inodes
               /\ conn[c].phase # "reply" => conn[c].response.out = NoString
    <3>1. Good(conn[c], entry, store, posted)
      BY DEF SiteInv
    <3>2. NewResponse.out = NoString
      BY DEF NewResponse
    <3>3. QED
      BY <3>1, <3>2 DEF Good, Worked
  <2>3. ASSUME NEW c \in Clients
        PROVE  conn[c].work.total <= Len(conn[c].work.data)
    <3>1. conn[c].work.data \in Contents /\ conn[c].work.total \in 0 .. Len(conn[c].work.data)
      BY DEF SiteInv, Good, Worked
    <3>2. QED
      BY <3>1 DEF Contents
  <2>4. QED
    BY <2>1, <2>2, <2>3 DEF Phases, TypeOK
<1>2. QED
  BY <1>1, SiteIsSound, PTL

\* What a GET sends of a file no POST was at work on is what the file held when
\* it was opened (FileFD reads through its descriptor, whoever takes the name).
THEOREM ReadsAreExact == Spec => []QuietReadIsExact
<1>1. SiteInv => QuietReadIsExact
  BY DEF SiteInv, Good, Truthful, QuietReadIsExact, Replying
<1>2. QED
  BY <1>1, SiteIsSound, PTL

\* POSTs to one file may mix, but every byte of the file, and of what is read
\* from it, is where one of the bodies had it (FileFD::pollout writes at its own
\* place).
THEOREM BytesStayInPlace == Spec => []PositionKept
<1>1. SiteInv => PositionKept
  BY DEF SiteInv, DiskOK, Good, Worked, Placed, PositionKept, InPlace
<1>2. QED
  BY <1>1, SiteIsSound, PTL

\* A 201 for a POST that was alone at its file means that the file is the body.
THEOREM CreatedIsStored == Spec => []ConfirmedIsStored
<1>1. SiteInv => ConfirmedIsStored
  BY DEF SiteInv, Good, Truthful, ConfirmedIsStored, Replying
<1>2. QED
  BY <1>1, SiteIsSound, PTL

\* Every 204 took one file that was there.
THEOREM DeletesAreOnce == Spec => []OneDeleteEach
<1>1. SiteInv => OneDeleteEach
  BY DEF SiteInv, CountsOK
<1>2. QED
  BY <1>1, SiteIsSound, PTL

-----------------------------------------------------------------------------
(***************************************************************************)
(* What may change the disk.                                               *)
(***************************************************************************)

\* A request that is answered from the tree leaves the disk alone.
LEMMA RespondChanges ==
  ASSUME NEW c, NEW k, Respond(c, k)
  PROVE  \/ UNCHANGED disk
         \/ PostOverwrites(c, k) \/ PostCreates(c, k) \/ Deletes(c, k)
BY DEF Respond, Redirects, StartsScript, GetListed, GetOpens, OpensToRead, GetMisses,
       PostMisses, DeleteFails, DeleteHangs, DeleteMisses, Refuse

LEMMA HeaderIsAsked ==
  ASSUME ServiceAssumption, SiteInv, NEW c \in Clients, NEW q \in Requests,
         conn[c].phase = "header", Valid(q)
  PROVE  Asked(Accepted(conn[c], q))
<1> DEFINE o == conn[c]
<1>1. Shaped(o) /\ o.work = NoWork /\ o.response = NewResponse /\ ~o.scripted
  BY DEF SiteInv, Good
<1>2. DOMAIN q = DOMAIN NoRequest /\ q.body \in Seq(Bytes)
  BY DEF ServiceAssumption
<1> HIDE DEF o
<1>3. Asked(Accepted(o, q))
  BY <1>1, <1>2 DEF Accepted, Asked, Shaped, NewConnection, Valid
<1>4. QED
  BY <1>3 DEF o

\* What may change the disk when connection c has a complete request.
Acts(c, k) ==
  /\ conn[c].phase \in {"header", "body"} /\ Asked(k)
  /\ PostOverwrites(c, k) \/ PostCreates(c, k) \/ Deletes(c, k)

\* The steps that may change the disk.
LEMMA DiskChanges ==
  ASSUME ServiceAssumption, SiteInv, Next
  PROVE  \/ UNCHANGED disk
         \/ \E c \in Clients : WritesSome(c) \/ \E k : Acts(c, k)
<1>1. PICK c \in Clients :
        \/ \E q \in Requests : ReceivesHeader(c, q)
        \/ ReceivesJunk(c) \/ ReceivesBody(c)
        \/ Reads(c) \/ ReadEnds(c) \/ WritesSome(c) \/ FileFails(c) \/ ScriptEnds(c)
        \/ ReplySent(c) \/ Leaves(c)
  BY DEF Next
<1>2. ASSUME NEW q \in Requests, ReceivesHeader(c, q)
      PROVE  UNCHANGED disk \/ \E k : Acts(c, k)
  <2>1. /\ conn[c].phase = "header"
        /\ UNCHANGED disk \/ (Valid(q) /\ Respond(c, Accepted(conn[c], q)))
    BY <1>2 DEF ReceivesHeader, Refuse
  <2>2. Valid(q) => Asked(Accepted(conn[c], q))
    BY <2>1, HeaderIsAsked
  <2>3. QED
    BY <2>1, <2>2, RespondChanges DEF Acts
<1>3. ASSUME ReceivesBody(c)
      PROVE  UNCHANGED disk \/ \E k : Acts(c, k)
  <2>1. conn[c].phase = "body" /\ (UNCHANGED disk \/ Respond(c, conn[c]))
    BY <1>3 DEF ReceivesBody, Refuse
  <2>2. Asked(conn[c])
    BY <2>1 DEF SiteInv, Good, Asked
  <2>3. QED
    BY <2>1, <2>2, RespondChanges DEF Acts
<1>4. CASE \/ ReceivesJunk(c) \/ Reads(c) \/ ReadEnds(c) \/ FileFails(c) \/ ScriptEnds(c)
           \/ ReplySent(c) \/ Leaves(c)
  BY <1>4 DEF ReceivesJunk, Refuse, Reads, ReadEnds, FileFails, ScriptEnds, ReplySent, Leaves
<1>5. QED
  BY <1>1, <1>2, <1>3, <1>4

\* One step of the disk: what is checked with the header still holds when the
\* body is there, and a descriptor leads to no file but that of its own path.
Allowed ==
  \A n \in Names :
    /\ entry'[n] # entry[n] => ByRequest(IF entry'[n] = 0 THEN "DELETE" ELSE "POST", n)
    /\ Exists(n) /\ store'[entry[n]] # store[entry[n]] => ByRequest("POST", n)

\* The request of a connection that opens a file or answers at once is its own.
LEMMA OpenedByRequest ==
  ASSUME SiteInv, NEW c \in Clients, NEW k, Acts(c, k),
         NEW method \in {"POST", "DELETE"}, Handled(k, method)
  PROVE  ByRequest(method, Leads(k.path))
<1>1. Asked(k) /\ conn[c].phase \in {"header", "body"}
  BY DEF Acts
<1>2. Asks(k.request, method, Leads(k.path))
  BY <1>1, AskedIsPermitted
<1>3. conn'[c].request = k.request /\ conn'[c].phase \in {"work", "reply"}
  <2>1. CASE PostOverwrites(c, k) \/ PostCreates(c, k)
    <3>1. PICK i : Truncated(c, k, i)
      BY <2>1 DEF PostOverwrites, PostCreates
    <3> DEFINE alone == \A x \in Clients : ~Writes(conn[x], i)
               h == Opened(k, i, k.request.body, alone)
    <3>2. conn'[c] = [h EXCEPT !.work.first = <<>>]
      BY <3>1 DEF Truncated
    <3> HIDE DEF alone
    <3>3. Shaped(h) /\ h.phase = "work" /\ h.request = k.request
      BY <1>1 DEF Asked, Opened, Shaped, NewConnection, NoWork
    <3> HIDE DEF h
    <3>4. QED
      BY <3>2, <3>3 DEF Shaped, NewConnection
  <2>2. CASE Deletes(c, k)
    <3> DEFINE q == Done(k, "204")
    <3>1. conn'[c] = q
      BY <2>2 DEF Deletes, SiteInv
    <3>2. q.phase = "reply" /\ q.request = k.request
      BY <1>1, RepliesKeeps DEF Done, Asked
    <3>3. QED
      BY <3>1, <3>2
  <2>3. QED
    BY <2>1, <2>2 DEF Acts
<1>4. conn'[c] # conn[c] /\ Asks(conn'[c].request, method, Leads(k.path))
  BY <1>1, <1>2, <1>3
<1>5. QED
  BY <1>4 DEF ByRequest

LEMMA StepIsAllowed ==
  ASSUME ServiceAssumption, SiteInv, Next
  PROVE  Allowed
<1>1. /\ entry \in [Names -> Inodes \cup {0}] /\ DOMAIN store = Inodes
      /\ \A m, n \in Names : entry[m] = entry[n] /\ m # n => entry[m] = 0
      /\ \A n \in Names : entry[n] # 0 => posted[entry[n]] # {}
  BY DEF SiteInv, DiskOK
<1>2. CASE UNCHANGED disk
  BY <1>2 DEF disk, Allowed
<1>3. ASSUME NEW c \in Clients, NEW k, Acts(c, k), PostOverwrites(c, k)
      PROVE  Allowed
  <2> DEFINE name == Leads(k.path)
  <2>1. /\ Handled(k, "POST") /\ name \in Names /\ entry' = entry /\ entry[name] # 0
        /\ store' = [store EXCEPT ![entry[name]] = <<>>]
    BY <1>3 DEF PostOverwrites, Truncated, Exists
  <2>2. ByRequest("POST", name)
    BY <1>3, <2>1, OpenedByRequest
  <2>3. ASSUME NEW n \in Names, Exists(n), store'[entry[n]] # store[entry[n]]
        PROVE  n = name
    <3>1. entry[n] = entry[name] /\ entry[n] # 0
      BY <1>1, <2>1, <2>3 DEF Exists
    <3>2. QED
      BY <1>1, <2>1, <3>1
  <2> HIDE DEF name
  <2>4. QED
    BY <2>1, <2>2, <2>3 DEF Allowed
<1>4. ASSUME NEW c \in Clients, NEW k, Acts(c, k), PostCreates(c, k)
      PROVE  Allowed
  <2> DEFINE name == Leads(k.path)
  <2>1. PICK i \in Inodes :
          /\ Handled(k, "POST") /\ name \in Names /\ posted[i] = {}
          /\ entry' = [entry EXCEPT ![name] = i]
          /\ store' = [store EXCEPT ![i] = <<>>]
    BY <1>4 DEF PostCreates, Truncated, Fresh
  <2>2. i # 0 /\ ByRequest("POST", name)
    BY <1>4, <2>1, OpenedByRequest DEF Inodes
  <2>3. \A n \in Names : entry'[n] # entry[n] => n = name /\ entry'[n] = i
    BY <1>1, <2>1
  <2>4. \A n \in Names : Exists(n) => store'[entry[n]] = store[entry[n]]
    BY <1>1, <2>1 DEF Exists
  <2> HIDE DEF name
  <2>5. QED
    BY <2>2, <2>3, <2>4 DEF Allowed
<1>5. ASSUME NEW c \in Clients, NEW k, Acts(c, k), Deletes(c, k)
      PROVE  Allowed
  <2> DEFINE name == Leads(k.path)
  <2>1. Handled(k, "DELETE") /\ store' = store /\ entry' = [entry EXCEPT ![name] = 0]
    BY <1>5 DEF Deletes
  <2>2. ByRequest("DELETE", name)
    BY <1>5, <2>1, OpenedByRequest
  <2>3. \A n \in Names : entry'[n] # entry[n] => n = name /\ entry'[n] = 0
    BY <1>1, <2>1
  <2> HIDE DEF name
  <2>4. QED
    BY <2>1, <2>2, <2>3 DEF Allowed
<1>6. ASSUME NEW c \in Clients, WritesSome(c)
      PROVE  Allowed
  <2> DEFINE k == conn[c]
             i == k.work.file
  <2>1. /\ k.phase = "work" /\ k.request.method = "POST" /\ Good(k, entry, store, posted)
    BY <1>6 DEF WritesSome, At, SiteInv
  <2>2. /\ Posting(k, entry, store, posted) /\ Shaped(k)
        /\ k.work.total \in Nat /\ i \in Inodes
    BY <2>1 DEF Good, Worked, Posting
  <2>3. entry' = entry /\ \E s : store' = [store EXCEPT ![i] = s]
    BY <1>6 DEF WritesSome
  <2>4. store'[i] # store[i] => conn'[c] # k
    <3>1. PICK n \in 0 .. BufferSize :
            /\ store' = [store EXCEPT ![i] =
                 IF n = 0 THEN @
                 ELSE Overlaid(@, k.work.total,
                               SubSeq(k.work.data, k.work.total + 1, k.work.total + n))]
            /\ LET moved == [k EXCEPT !.work.total = k.work.total + n] IN
               \/ Ends(c, Done(moved, "201"))
               \/ conn' = [conn EXCEPT ![c] = moved]
      BY <1>6 DEF WritesSome
    <3> DEFINE moved == [k EXCEPT !.work.total = k.work.total + n]
    <3>2. n = 0 => store'[i] = store[i]
      BY <1>1, <2>2, <3>1
    <3>3. /\ Shaped(moved) /\ moved.work.total = k.work.total + n
      BY <2>2 DEF Shaped, NewConnection, NoWork
    <3>4. DOMAIN conn = Clients
      BY DEF SiteInv
    <3> HIDE DEF moved
    <3>5. CASE Ends(c, Done(moved, "201"))
      <4>1. Done(moved, "201").phase = "reply"
        BY <3>3, RepliesKeeps DEF Done
      <4>2. conn'[c].phase \in {"reply", "header"}
        BY <3>4, <3>5, <4>1 DEF Ends, NewConnection
      <4>3. QED
        BY <2>1, <4>2
    <3>6. CASE conn' = [conn EXCEPT ![c] = moved]
      <4>1. conn'[c].work.total = k.work.total + n
        BY <3>3, <3>4, <3>6
      <4>2. n \in Nat /\ (n # 0 => k.work.total + n # k.work.total)
        BY <2>2
      <4>3. QED
        BY <3>2, <4>1, <4>2
    <3>7. QED
      BY <3>1, <3>5, <3>6 DEF moved
  <2>5. \A n \in Names : entry[n] = i => Asks(k.request, "POST", n)
    BY <2>2 DEF Posting
  <2>6. ASSUME NEW n \in Names, Exists(n), store'[entry[n]] # store[entry[n]]
        PROVE  ByRequest("POST", n)
    <3>1. entry[n] = i /\ conn'[c] # k
      BY <1>1, <2>3, <2>4, <2>6 DEF Exists
    <3>2. QED
      BY <2>5, <3>1 DEF ByRequest
  <2>7. QED
    BY <2>3, <2>6 DEF Allowed
<1>7. QED
  BY <1>2, <1>3, <1>4, <1>5, <1>6, DiskChanges DEF Acts

\* A file comes, goes or changes only by a request for it whose own location
\* allows the method and does not redirect (Request::ValidateRequest, then
\* HttpRequest, then FileFD).
THEOREM ChangesAreAllowed == Spec => OnlyTheAllowed
<1>1. SiteInv /\ [Next]_vars => [Allowed]_vars
  BY ServiceAssumption, StepIsAllowed
<1>2. QED
  BY <1>1, SiteIsSound, PTL DEF Spec, OnlyTheAllowed, Allowed

-----------------------------------------------------------------------------
(***************************************************************************)
(* What replies say.                                                       *)
(***************************************************************************)
Confirmations == {"200", "201", "204"}

\* The statuses the server sends are in the table of HttpStatus, but for 505,
\* whose class begins with 500.  A redirection is given a listed status that has
\* no other meaning.
StatusTable ==
  /\ Confirmations \cup (ErrorCodes \ {"505"}) \subseteq Listed
  /\ "505" \notin Listed /\ Hundred["505"] = "500"
  /\ \A u \in DOMAIN Locations : Locations[u].redirect =>
       Locations[u].type \in Listed \ (Confirmations \cup ErrorCodes)

\* The length in the header is that of the body.
Counted(r) ==
  "Content-Length" \in DOMAIN r.header => r.header["Content-Length"] = Len(r.body)

LEMMA AddSays ==
  ASSUME NEW h, NEW name, NEW value
  PROVE  /\ DOMAIN Add(h, name, value) = DOMAIN h \cup {name}
         /\ Add(h, name, value)[name] = value
         /\ \A n \in DOMAIN h : n # name => Add(h, name, value)[n] = h[n]
BY DEF Add

\* A field that is there stays, and nothing else changes.
LEMMA FieldSays ==
  ASSUME NEW r, RShape(r), NEW name, NEW value
  PROVE  LET f == FieldIfNotSet(r, name, value) IN
         /\ RShape(f) /\ f.line = r.line /\ f.body = r.body
         /\ DOMAIN f.header = DOMAIN r.header \cup {name}
         /\ \A n \in DOMAIN r.header : f.header[n] = r.header[n]
         /\ name \notin DOMAIN r.header => f.header[name] = value
<1> DEFINE h == AddIfNotSet(r.header, name, value)
           f == FieldIfNotSet(r, name, value)
<1>1. /\ DOMAIN h = DOMAIN r.header \cup {name}
      /\ \A n \in DOMAIN r.header : h[n] = r.header[n]
      /\ name \notin DOMAIN r.header => h[name] = value
  <2>1. CASE name \in DOMAIN r.header
    BY <2>1 DEF AddIfNotSet
  <2>2. CASE name \notin DOMAIN r.header
    <3>1. h = Add(r.header, name, value)
      BY <2>2 DEF AddIfNotSet
    <3> HIDE DEF h
    <3>2. /\ DOMAIN h = DOMAIN r.header \cup {name}
          /\ h[name] = value
          /\ \A n \in DOMAIN r.header : n # name => h[n] = r.header[n]
      BY <3>1 DEF Add
    <3>3. QED
      BY <2>2, <3>2
  <2>3. QED
    BY <2>1, <2>2
<1>2. f = [r EXCEPT !.header = h]
  BY DEF FieldIfNotSet
<1> HIDE DEF h
<1>3. RShape(f) /\ f.line = r.line /\ f.body = r.body /\ f.header = h
  BY <1>2 DEF RShape, NewResponse
<1>4. QED
  BY <1>1, <1>3

LEMMA FieldCounts ==
  ASSUME NEW r, RShape(r), Counted(r), NEW name, NEW value,
         name = "Content-Length" => value = Len(r.body)
  PROVE  Counted(FieldIfNotSet(r, name, value))
BY FieldSays DEF Counted

\* setBasicHeaders: the length is right, and so is the type if there was none.
LEMMA BasicSays ==
  ASSUME NEW r, RShape(r), Counted(r), NEW q
  PROVE  /\ Counted(Basic(r, q))
         /\ r.body # <<>> /\ "Content-Type" \notin DOMAIN r.header =>
              Basic(r, q).header["Content-Type"] = MimeType(q.uri)
<1> DEFINE typed  == IF r.body = <<>> THEN r
                     ELSE FieldIfNotSet(r, "Content-Type", MimeType(q.uri))
           linked == FieldIfNotSet(typed, "Connection",
                                   IF q.keep THEN "Keep-Alive" ELSE "close")
           sized  == IF q.method # "GET" THEN linked
                     ELSE FieldIfNotSet(linked, "Content-Length", Len(r.body))
           all    == IF q.method # "POST" THEN sized
                     ELSE FieldIfNotSet(sized, "Location", q.uri)
           right(t) == r.body # <<>> /\ "Content-Type" \notin DOMAIN r.header =>
                         /\ "Content-Type" \in DOMAIN t.header
                         /\ t.header["Content-Type"] = MimeType(q.uri)
<1>1. RShape(typed) /\ Counted(typed) /\ typed.body = r.body /\ right(typed)
  <2>1. CASE r.body = <<>>
    BY <2>1
  <2>2. CASE r.body # <<>>
    <3> DEFINE f == FieldIfNotSet(r, "Content-Type", MimeType(q.uri))
    <3>1. typed = f
      BY <2>2
    <3>2. RShape(f) /\ f.body = r.body /\ right(f)
      BY FieldSays
    <3>3. Counted(f)
      BY FieldCounts
    <3>4. QED
      BY <3>1, <3>2, <3>3
  <2>3. QED
    BY <2>1, <2>2
<1> HIDE DEF typed
<1>2. RShape(linked) /\ Counted(linked) /\ linked.body = r.body /\ right(linked)
  <2>1. RShape(linked) /\ linked.body = r.body /\ right(linked)
    BY <1>1, FieldSays
  <2>2. Counted(linked)
    BY <1>1, FieldCounts
  <2>3. QED
    BY <2>1, <2>2
<1> HIDE DEF linked
<1>3. RShape(sized) /\ Counted(sized) /\ sized.body = r.body /\ right(sized)
  <2>1. RShape(sized) /\ sized.body = r.body /\ right(sized)
    BY <1>2, FieldSays
  <2>2. Counted(sized)
    BY <1>2, FieldCounts
  <2>3. QED
    BY <2>1, <2>2
<1> HIDE DEF sized
<1>4. Counted(all) /\ right(all)
  <2>1. right(all)
    BY <1>3, FieldSays
  <2>2. Counted(all)
    BY <1>3, FieldCounts
  <2>3. QED
    BY <2>1, <2>2
<1>5. Basic(r, q) = all
  BY DEF Basic, all, sized, linked, typed
<1>6. QED
  BY <1>4, <1>5

\* The string a response is made into.
Says(out, code, body) ==
  /\ out.line = <<[code |-> code, reason |-> ReasonPhrase(code)]>> /\ out.body = body
  /\ "Content-Length" \in DOMAIN out.header => out.header["Content-Length"] = Len(out.body)

LEMMA PlainFits ==
  ASSUME NEW r, RShape(r), r.line = <<>>, "Content-Length" \notin DOMAIN r.header,
         NEW q, NEW code
  PROVE  LET out == Plain(r, q, code).out IN
         /\ Says(out, code, r.body)
         /\ r.body # <<>> /\ "Content-Type" \notin DOMAIN r.header =>
              out.header["Content-Type"] = MimeType(q.uri)
<1> DEFINE t == [r EXCEPT !.code = code]
           u == WithLine(t)
           v == Basic(u, q)
<1>1. RShape(t) /\ t.line = <<>> /\ t.body = r.body /\ t.code = code /\ t.header = r.header
  BY DEF RShape, NewResponse
<1> HIDE DEF t
<1>2. /\ RShape(u) /\ u.body = r.body /\ u.header = r.header
      /\ u.line = Append(<<>>, [code |-> code, reason |-> ReasonPhrase(code)])
  BY <1>1 DEF WithLine, RShape, NewResponse
<1>3. u.line = <<[code |-> code, reason |-> ReasonPhrase(code)]>> /\ Counted(u)
  BY <1>2 DEF Counted
<1> HIDE DEF u
<1>4. RShape(v) /\ v.line = u.line /\ v.body = u.body
  BY <1>2, BasicKeeps
<1>5. /\ Counted(v)
      /\ r.body # <<>> /\ "Content-Type" \notin DOMAIN r.header =>
           v.header["Content-Type"] = MimeType(q.uri)
  BY <1>2, <1>3, BasicSays
<1> HIDE DEF v
<1>6. Emitted(v).out = [line |-> v.line, header |-> v.header,
                        ended |-> v.body # <<>>, body |-> v.body]
  BY <1>4 DEF Emitted, RShape, NewResponse
<1>7. Plain(r, q, code) = Emitted(v)
  BY DEF Plain, t, u, v
<1>8. QED
  BY <1>2, <1>3, <1>4, <1>5, <1>6, <1>7 DEF Says, Counted

LEMMA WithBodyFits ==
  ASSUME NEW r, RShape(r), r.line = <<>>, "Content-Length" \notin DOMAIN r.header,
         NEW q, NEW body, NEW code
  PROVE  LET out == WithBody(r, q, body, code).out IN
         /\ Says(out, code, body)
         /\ body # <<>> /\ "Content-Type" \notin DOMAIN r.header =>
              out.header["Content-Type"] = MimeType(q.uri)
<1> DEFINE t == [r EXCEPT !.body = body]
<1>1. RShape(t) /\ t.line = <<>> /\ t.body = body /\ t.header = r.header
  BY DEF RShape, NewResponse
<1> HIDE DEF t
<1>2. LET out == Plain(t, q, code).out IN
      /\ Says(out, code, body)
      /\ body # <<>> /\ "Content-Type" \notin DOMAIN r.header =>
           out.header["Content-Type"] = MimeType(q.uri)
  BY <1>1, PlainFits
<1>3. QED
  BY <1>2 DEF WithBody, t

LEMMA NewSays ==
  /\ RShape(NewResponse) /\ NewResponse.line = <<>> /\ NewResponse.body = <<>>
  /\ DOMAIN NewResponse.header = {}
BY DEF RShape, NewResponse, NoFields

\* A field of its own in a response that has nothing yet.
LEMMA NewField ==
  ASSUME NEW name, NEW value
  PROVE  LET f == Field(NewResponse, name, value) IN
         /\ RShape(f) /\ f.line = <<>> /\ f.body = <<>> /\ DOMAIN f.header = {name}
<1> DEFINE r == NewResponse
           h == Add(r.header, name, value)
<1>1. DOMAIN h = {name}
  <2>1. DOMAIN h = DOMAIN r.header \cup {name}
    BY AddSays, Zenon
  <2>2. QED
    BY <2>1, NewSays
<1>2. RShape(r) /\ r.line = <<>> /\ r.body = <<>>
  BY NewSays
<1> HIDE DEF r, h
<1>3. LET f == [r EXCEPT !.header = h] IN
      RShape(f) /\ f.line = <<>> /\ f.body = <<>> /\ f.header = h
  BY <1>2 DEF RShape, NewResponse
<1>4. QED
  BY <1>1, <1>3 DEF Field, r, h

-----------------------------------------------------------------------------
(***************************************************************************)
(* The replies of a connection.                                            *)
(***************************************************************************)
Answers(k) ==
  /\ k.phase = "reply" /\ ~k.scripted => Fits(k)
  /\ k.phase = "body" => k.request.uri \in DOMAIN Locations

\* With SiteInv the inductive invariant.
FitInv == \A c \in Clients : Answers(conn[c])

\* It is enough to know what is said.
LEMMA SaidFits ==
  ASSUME NEW p, NEW code, NEW body, Says(p.response.out, code, body),
         code # "505" => code \in Listed, body = BodyFor(p, code),
         code = "200" /\ p.work.file # 0 /\ body # <<>> =>
           p.response.out.header["Content-Type"] = MimeType(p.request.uri)
  PROVE  Fits(p)
<1> DEFINE out == p.response.out
           x == [code |-> code, reason |-> ReasonPhrase(code)]
<1>1. /\ out.line = <<x>> /\ out.body = body
      /\ "Content-Length" \in DOMAIN out.header =>
           out.header["Content-Length"] = Len(out.body)
  BY DEF Says
<1>2. Len(out.line) = 1 /\ out.line[1] = x
  BY <1>1
<1>3. x.code = code /\ (code # "505" => x.reason = code)
  BY DEF ReasonPhrase
<1> HIDE DEF out, x
<1>4. QED
  BY <1>1, <1>2, <1>3 DEF Fits, out

\* An error page, whatever the connection was at.
LEMMA ErrorFits ==
  ASSUME StatusTable, NEW k, Shaped(k), k.response = NewResponse, NEW code \in ErrorCodes
  PROVE  Fits(Failed(k, code)) /\ Fits(Refused(k, code))
<1> DEFINE t == Field(k.response, "Content-Type", "text/html")
           page == ErrorPage(code, Custom(k))
           r == Error(k, code)
<1>1. RShape(t) /\ t.line = <<>> /\ DOMAIN t.header = {"Content-Type"}
  BY NewField
<1> HIDE DEF t
<1>2. Says(WithBody(t, k.request, page, code).out, code, page)
  BY <1>1, WithBodyFits
<1>3. r = WithBody(t, k.request, page, code)
  BY DEF Error, ErrorReply, t
<1>4. Says(r.out, code, page)
  BY <1>2, <1>3
<1>5. page = IF code \in Custom(k) THEN <<"custom", code>>
             ELSE <<"page", IF code = "505" THEN "500" ELSE code>>
  BY DEF ErrorPage, StatusPage, StatusTable
<1>6. code # "505" => code \in Listed
  BY DEF StatusTable
<1> HIDE DEF r, page
<1>7. ASSUME NEW p, p.response = r, p.knows = k.knows
      PROVE  Fits(p)
  <2>1. Custom(p) = Custom(k)
    BY <1>7 DEF Custom
  <2>2. code # "200"
    BY DEF ErrorCodes
  <2>3. BodyFor(p, code) = page
    BY <1>5, <2>1, <2>2 DEF BodyFor
  <2>4. QED
    BY <1>4, <1>6, <1>7, <2>2, <2>3, SaidFits
<1>8. LET p == Replies(k, r) IN
      DOMAIN p = DOMAIN NewConnection /\ p.response = r /\ p.knows = k.knows
  BY DEF Replies, Shaped, NewConnection
<1>9. Fits(Failed(k, code))
  BY <1>7, <1>8 DEF Failed, r
<1>10. LET p == [Replies(k, r) EXCEPT !.error = TRUE] IN
       p.response = r /\ p.knows = k.knows
  BY <1>8 DEF NewConnection
<1>11. Fits(Refused(k, code))
  BY <1>7, <1>10 DEF Refused, r
<1>12. QED
  BY <1>9, <1>11

\* A confirmation has no body.
LEMMA DoneFits ==
  ASSUME StatusTable, NEW k, Shaped(k), k.response = NewResponse, NEW code \in {"201", "204"}
  PROVE  Fits(Done(k, code))
<1> DEFINE r == Plain(k.response, k.request, code)
           p == Replies(k, r)
<1>1. Says(r.out, code, <<>>)
  <2>1. RShape(NewResponse) /\ NewResponse.line = <<>> /\ NewResponse.body = <<>>
        /\ "Content-Length" \notin DOMAIN NewResponse.header
    BY NewSays
  <2>2. QED
    BY <2>1, PlainFits
<1> HIDE DEF r
<1>2. p.response = r
  BY RepliesKeeps
<1>3. code # "200" /\ code \notin ErrorCodes /\ code \in Listed
  BY DEF StatusTable, ErrorCodes, Confirmations
<1> HIDE DEF p
<1>4. BodyFor(p, code) = <<>>
  BY <1>3 DEF BodyFor
<1>5. Fits(p)
  BY <1>1, <1>2, <1>3, <1>4, SaidFits
<1>6. QED
  BY <1>5 DEF Done, p, r

\* A file that was read, of any length, goes out whole.
LEMMA ReadFits ==
  ASSUME StatusTable, NEW k, Shaped(k), k.response = NewResponse, k.work.file # 0
  PROVE  Fits(Replies(k, WithBody(k.response, k.request, k.work.data, "200")))
<1> DEFINE r == WithBody(k.response, k.request, k.work.data, "200")
           p == Replies(k, r)
<1>1. /\ Says(r.out, "200", k.work.data)
      /\ k.work.data # <<>> => r.out.header["Content-Type"] = MimeType(k.request.uri)
  <2>1. RShape(NewResponse) /\ NewResponse.line = <<>> /\ DOMAIN NewResponse.header = {}
    BY NewSays
  <2>2. QED
    BY <2>1, WithBodyFits
<1> HIDE DEF r
<1>2. p.response = r /\ p.work = k.work /\ p.request = k.request
  BY RepliesKeeps
<1> HIDE DEF p
<1>3. BodyFor(p, "200") = k.work.data
  BY <1>2 DEF BodyFor, ErrorCodes
<1>4. "200" \in Listed /\ "200" # "505"
  BY DEF StatusTable, Confirmations
<1>5. Fits(p)
  BY <1>1, <1>2, <1>3, <1>4, SaidFits
<1>6. QED
  BY <1>5 DEF p, r

LEMMA ListingFits ==
  ASSUME StatusTable, NEW k, Shaped(k), k.response = NewResponse, k.work.file = 0, NEW dir
  PROVE  Fits(Replies(k, WithBody(Field(k.response, "Content-Type", "text/html"),
                                  k.request, Listing(dir), "200")))
<1> DEFINE t == Field(k.response, "Content-Type", "text/html")
           names == {n \in Names : Exists(n) /\ Front(n) = Append(dir, "/")}
           r == WithBody(t, k.request, Listing(dir), "200")
           p == Replies(k, r)
<1>1. RShape(t) /\ t.line = <<>> /\ DOMAIN t.header = {"Content-Type"}
  BY NewField
<1>2. Listing(dir) = <<"listing", names>>
  BY DEF Listing
<1> HIDE DEF t, names
<1>3. Says(r.out, "200", Listing(dir))
  BY <1>1, WithBodyFits
<1> HIDE DEF r
<1>4. p.response = r /\ p.work = k.work
  BY RepliesKeeps
<1> HIDE DEF p
<1>5. p.response.out.body = <<"listing", names>>
  BY <1>2, <1>3, <1>4 DEF Says
<1>6. BodyFor(p, "200") = Listing(dir)
  BY <1>2, <1>4, <1>5 DEF BodyFor, ErrorCodes
<1>7. "200" \in Listed
  BY DEF StatusTable, Confirmations
<1>8. Fits(p)
  BY <1>3, <1>4, <1>6, <1>7, SaidFits
<1>9. QED
  BY <1>8 DEF p, r, t

\* A redirection has the status of its location and no body.
LEMMA RedirectionFits ==
  ASSUME StatusTable, NEW k, Shaped(k), k.response = NewResponse,
         NEW type \in Listed \ (Confirmations \cup ErrorCodes), NEW target
  PROVE  Fits(Replies(k, Redirection(k.response, type, target)))
<1> DEFINE s == [k.response EXCEPT !.code = type]
           t == Field(s, "Location", target)
           u == WithLine(t)
           r == Emitted(u)
           p == Replies(k, r)
<1>1. RShape(s) /\ s.line = <<>> /\ s.body = <<>> /\ DOMAIN s.header = {} /\ s.code = type
  <2>1. s = [NewResponse EXCEPT !.code = type]
    OBVIOUS
  <2>2. QED
    BY <2>1 DEF RShape, NewResponse, NoFields
<1> HIDE DEF s
<1>2. /\ RShape(t) /\ t.line = <<>> /\ t.body = <<>> /\ t.code = type
      /\ DOMAIN t.header = {"Location"}
  <2> DEFINE h == Add(s.header, "Location", target)
  <2>1. DOMAIN h = {"Location"}
    <3>1. DOMAIN h = DOMAIN s.header \cup {"Location"}
      BY AddSays, Zenon
    <3>2. QED
      BY <1>1, <3>1
  <2> HIDE DEF h
  <2>2. t = [s EXCEPT !.header = h]
    BY DEF Field, h
  <2> HIDE DEF t
  <2>3. QED
    BY <1>1, <2>1, <2>2 DEF RShape, NewResponse
<1> HIDE DEF t
<1>3. /\ RShape(u) /\ u.body = <<>> /\ u.header = t.header
      /\ u.line = Append(<<>>, [code |-> type, reason |-> ReasonPhrase(type)])
  BY <1>2 DEF WithLine, RShape, NewResponse
<1>4. u.line = <<[code |-> type, reason |-> ReasonPhrase(type)]>>
  BY <1>3
<1> HIDE DEF u
<1>5. r.out = [line |-> u.line, header |-> u.header, ended |-> u.body # <<>>, body |-> u.body]
  BY <1>3 DEF Emitted, RShape, NewResponse
<1> HIDE DEF r
<1>6. Says(r.out, type, <<>>)
  BY <1>2, <1>3, <1>4, <1>5 DEF Says
<1>7. p.response = r
  BY RepliesKeeps
<1> HIDE DEF p
<1>8. BodyFor(p, type) = <<>> /\ type # "200"
  BY DEF BodyFor, Confirmations
<1>9. Fits(p)
  BY <1>6, <1>7, <1>8, SaidFits
<1>10. QED
  BY <1>9 DEF p, r, u, t, s, Redirection

-----------------------------------------------------------------------------
(***************************************************************************)
(* The steps.                                                              *)
(***************************************************************************)
LEMMA OneAnswers ==
  ASSUME SiteInv, FitInv, NEW c \in Clients, NEW k, Answers(k), conn' = [conn EXCEPT ![c] = k]
  PROVE  FitInv'
<1>1. conn'[c] = k /\ \A d \in Clients : d # c => conn'[d] = conn[d]
  BY DEF SiteInv
<1>2. \A d \in Clients : Answers(conn'[d])
  BY <1>1 DEF FitInv
<1>3. QED
  BY <1>2 DEF FitInv, Answers, Fits, BodyFor, Custom

\* A connection that replies to nothing.
LEMMA SilentAnswers ==
  ASSUME SiteInv, FitInv, NEW c \in Clients, NEW k, k.phase \in Phases \ {"reply", "body"},
         conn' = [conn EXCEPT ![c] = k]
  PROVE  FitInv'
BY OneAnswers DEF Answers

LEMMA NewAnswers ==
  NewConnection.phase \in Phases \ {"reply", "body"}
    /\ \A r : Clean(r).phase \in Phases \ {"reply", "body"}
BY DEF NewConnection, Clean, Phases

LEMMA FitAnswers ==
  ASSUME NEW k, k.phase = "reply", k.scripted \/ Fits(k)
  PROVE  Answers(k)
BY DEF Answers

LEMMA RefuseAnswers ==
  ASSUME StatusTable, SiteInv, FitInv, NEW c \in Clients, NEW k, Shaped(k),
         k.response = NewResponse, NEW code \in ErrorCodes, Refuse(c, k, code)
  PROVE  FitInv'
<1> DEFINE q == Replies(k, Error(k, code))
           p == [q EXCEPT !.error = TRUE]
<1>1. Shaped(q) /\ q.phase = "reply"
  BY RepliesKeeps
<1> HIDE DEF q
<1>2. p.phase = "reply"
  BY <1>1 DEF Shaped, NewConnection
<1> HIDE DEF p
<1>3. p = Refused(k, code)
  BY DEF Refused, p, q
<1>4. Fits(p)
  BY <1>3, ErrorFits
<1>5. conn' = [conn EXCEPT ![c] = p]
  BY <1>3 DEF Refuse
<1>6. QED
  BY <1>2, <1>4, <1>5, FitAnswers, OneAnswers

\* What is sent is not touched by a file that is truncated under a connection.
LEMMA TruncatedAnswers ==
  ASSUME SiteInv, FitInv, NEW c \in Clients, NEW k, Shaped(k), NEW i, Truncated(c, k, i)
  PROVE  FitInv'
<1> DEFINE alone == \A x \in Clients : ~Writes(conn[x], i)
           p == Opened(k, i, k.request.body, alone)
<1>1. /\ DOMAIN conn' = Clients /\ conn'[c] = [p EXCEPT !.work.first = <<>>]
      /\ \A d \in Clients : d # c =>
           conn'[d] = [conn[d] EXCEPT !.work.alone = @ /\ conn[d].work.file # i]
  BY DEF Truncated
<1> HIDE DEF alone
<1>2. Shaped(p) /\ p.phase = "work"
  BY DEF Opened, Shaped, NewConnection, NoWork
<1> HIDE DEF p
<1>3. Answers(conn'[c])
  BY <1>1, <1>2 DEF Shaped, NewConnection, Answers
<1>4. ASSUME NEW d \in Clients, d # c PROVE Answers(conn'[d])
  <2> DEFINE o == conn[d]
             t == conn'[d]
  <2>1. Answers(o) /\ Shaped(o)
    BY DEF FitInv, SiteInv, Good
  <2>2. t = [o EXCEPT !.work.alone = o.work.alone /\ o.work.file # i]
    BY <1>1, <1>4
  <2> HIDE DEF o, t
  <2>3. /\ t.phase = o.phase /\ t.scripted = o.scripted /\ t.response = o.response
        /\ t.request = o.request /\ t.knows = o.knows
        /\ t.work.file = o.work.file /\ t.work.data = o.work.data
    BY <2>1, <2>2 DEF Shaped, NewConnection, NoWork
  <2>4. Answers(t)
    BY <2>1, <2>3 DEF Answers, Fits, BodyFor, Custom
  <2>5. QED
    BY <2>4 DEF t
<1>5. \A d \in Clients : Answers(conn'[d])
  BY <1>3, <1>4
<1>6. QED
  BY <1>5 DEF FitInv, Answers, Fits, BodyFor, Custom

LEMMA RespondAnswers ==
  ASSUME StatusTable, SiteInv, FitInv, NEW c \in Clients, NEW k, Asked(k),
         k.request.uri \in DOMAIN Locations, Respond(c, k)
  PROVE  FitInv'
<1>1. Shaped(k) /\ k.work = NoWork /\ k.response = NewResponse /\ k.work.file = 0
  BY NoWorkIsWorked DEF Asked
<1>2. ASSUME NEW code \in ErrorCodes, Refuse(c, k, code) PROVE FitInv'
  BY <1>1, <1>2, RefuseAnswers
<1>3. ASSUME NEW r, Fits(Replies(k, r)), conn' = [conn EXCEPT ![c] = Replies(k, r)]
      PROVE  FitInv'
  <2>1. Replies(k, r).phase = "reply"
    BY <1>1, RepliesKeeps
  <2>2. QED
    BY <1>3, <2>1, FitAnswers, OneAnswers
<1>4. ASSUME NEW ph \in {"script", "hold"}, conn' = [conn EXCEPT ![c] = [k EXCEPT !.phase = ph]]
      PROVE  FitInv'
  <2>1. [k EXCEPT !.phase = ph].phase = ph
    BY <1>1 DEF Shaped, NewConnection
  <2>2. QED
    BY <1>4, <2>1, SilentAnswers DEF Phases
<1>5. CASE Redirects(c, k)
  <2> DEFINE l == Locations[k.request.uri]
  <2>1. l.redirect /\ conn' = [conn EXCEPT ![c] = Replies(k, Redirection(k.response, l.type, l.target))]
    BY <1>5 DEF Redirects
  <2>2. l.type \in Listed \ (Confirmations \cup ErrorCodes)
    BY <2>1 DEF StatusTable
  <2> HIDE DEF l
  <2>3. Fits(Replies(k, Redirection(k.response, l.type, l.target)))
    BY <1>1, <2>2, RedirectionFits
  <2>4. QED
    BY <1>3, <2>1, <2>3
<1>6. CASE StartsScript(c, k)
  BY <1>2, <1>4, <1>6 DEF StartsScript, ErrorCodes
<1>7. CASE GetListed(c, k)
  <2>1. Fits(Replies(k, WithBody(Field(k.response, "Content-Type", "text/html"),
                                 k.request, Listing(Leads(k.path)), "200")))
    BY <1>1, ListingFits
  <2>2. QED
    BY <1>2, <1>3, <1>7, <2>1 DEF GetListed, ErrorCodes
<1>8. CASE GetOpens(c, k)
  <2>1. PICK j : OpensToRead(c, k, j)
    BY <1>8 DEF GetOpens
  <2> DEFINE file == entry[Candidate(k, j)]
             alone == \A d \in Clients : ~Writes(conn[d], file)
             h == [k EXCEPT !.request.uri = @ \o Tails(k)[j]]
             p == Opened(h, file, <<>>, alone)
  <2>2. Shaped(h)
    BY <1>1 DEF Shaped, NewConnection, NoRequest
  <2>3. conn' = [conn EXCEPT ![c] = p]
    BY <2>1 DEF OpensToRead
  <2> HIDE DEF h, alone
  <2>4. p.phase = "work"
    BY <2>2 DEF Opened, Shaped, NewConnection
  <2>5. QED
    BY <2>3, <2>4, SilentAnswers DEF Phases
<1>9. CASE GetMisses(c, k) \/ PostMisses(c, k) \/ DeleteFails(c, k) \/ DeleteMisses(c, k)
  BY <1>2, <1>9 DEF GetMisses, PostMisses, DeleteFails, DeleteMisses, ErrorCodes
<1>10. CASE PostOverwrites(c, k) \/ PostCreates(c, k)
  <2>1. \E i : Truncated(c, k, i)
    BY <1>10 DEF PostOverwrites, PostCreates
  <2>2. QED
    BY <1>1, <2>1, TruncatedAnswers
<1>11. CASE Deletes(c, k)
  <2>1. Fits(Done(k, "204"))
    BY <1>1, DoneFits
  <2>2. QED
    BY <1>3, <1>11, <2>1 DEF Deletes, Done
<1>12. CASE DeleteHangs(c, k)
  BY <1>4, <1>12 DEF DeleteHangs
<1>13. QED
  BY <1>5, <1>6, <1>7, <1>8, <1>9, <1>10, <1>11, <1>12 DEF Respond

LEMMA HeaderAnswers ==
  ASSUME ServiceAssumption, StatusTable, SiteInv, FitInv, NEW c \in Clients,
         NEW q \in Requests, ReceivesHeader(c, q)
  PROVE  FitInv'
<1> DEFINE o == conn[c]
           k == Accepted(o, q)
<1>1. Shaped(o) /\ o.work = NoWork /\ o.response = NewResponse /\ ~o.scripted
  BY DEF ReceivesHeader, SiteInv, Good
<1>2. DOMAIN q = DOMAIN NoRequest /\ q.uri \in DOMAIN Locations
  BY DEF ServiceAssumption
<1> HIDE DEF o
<1>3. Shaped(k) /\ k.response = NewResponse /\ k.request = q
  BY <1>1, <1>2 DEF Accepted, Shaped, NewConnection
<1>4. Valid(q) => Asked(k)
  BY HeaderIsAsked DEF ReceivesHeader, o
<1> HIDE DEF k
<1>5. ASSUME NEW code \in ErrorCodes, Refuse(c, k, code) PROVE FitInv'
  BY <1>3, <1>5, RefuseAnswers
<1>6. Refusal(q) \in ErrorCodes /\ "413" \in ErrorCodes
  BY DEF Refusal, ErrorCodes
<1>7. CASE Valid(q) /\ Respond(c, k)
  BY <1>2, <1>3, <1>4, <1>7, RespondAnswers
<1>8. CASE conn' = [conn EXCEPT ![c] = [k EXCEPT !.phase = "body"]]
  <2> DEFINE p == [k EXCEPT !.phase = "body"]
  <2>1. p.phase = "body" /\ p.request = q
    BY <1>3 DEF Shaped, NewConnection
  <2>2. Answers(p)
    BY <1>2, <2>1 DEF Answers
  <2>3. QED
    BY <1>8, <2>2, OneAnswers
<1>9. \/ Refuse(c, k, Refusal(q)) \/ Refuse(c, k, "413") \/ (Valid(q) /\ Respond(c, k))
      \/ conn' = [conn EXCEPT ![c] = [k EXCEPT !.phase = "body"]]
  BY DEF ReceivesHeader, k, o
<1>10. QED
  BY <1>5, <1>6, <1>7, <1>8, <1>9

LEMMA JunkAnswers ==
  ASSUME StatusTable, SiteInv, FitInv, NEW c \in Clients, ReceivesJunk(c)
  PROVE  FitInv'
<1> DEFINE o == conn[c]
<1>1. Shaped(o) /\ o.response = NewResponse
  BY DEF ReceivesJunk, SiteInv, Good
<1>2. \/ Refuse(c, o, "413")
      \/ \E code \in {"400", "405"}, method \in Methods :
           Refuse(c, [o EXCEPT !.request.method = method], code)
  BY DEF ReceivesJunk
<1> HIDE DEF o
<1>3. CASE Refuse(c, o, "413")
  BY <1>1, <1>3, RefuseAnswers DEF ErrorCodes
<1>4. ASSUME NEW code \in {"400", "405"}, NEW method,
             Refuse(c, [o EXCEPT !.request.method = method], code)
      PROVE  FitInv'
  <2> DEFINE k == [o EXCEPT !.request.method = method]
  <2>1. Shaped(k) /\ k.response = NewResponse /\ Refuse(c, k, code)
    BY <1>1, <1>4 DEF Shaped, NewConnection, NoRequest
  <2> HIDE DEF k
  <2>2. QED
    BY <2>1, RefuseAnswers DEF ErrorCodes
<1>5. QED
  BY <1>2, <1>3, <1>4

LEMMA BodyAnswers ==
  ASSUME StatusTable, SiteInv, FitInv, NEW c \in Clients, ReceivesBody(c)
  PROVE  FitInv'
<1> DEFINE k == conn[c]
<1>1. Asked(k) /\ k.request.uri \in DOMAIN Locations
  BY DEF ReceivesBody, SiteInv, Good, Asked, FitInv, Answers
<1>2. Refuse(c, k, "413") \/ Respond(c, k)
  BY DEF ReceivesBody
<1> HIDE DEF k
<1>3. CASE Refuse(c, k, "413")
  BY <1>1, <1>3, RefuseAnswers DEF Asked, ErrorCodes
<1>4. CASE Respond(c, k)
  BY <1>1, <1>4, RespondAnswers
<1>5. QED
  BY <1>2, <1>3, <1>4

\* The end of the work on a file, when there is a reply or the peer has gone.
LEMMA EndsAnswers ==
  ASSUME SiteInv, FitInv, NEW c \in Clients, NEW k, Answers(k), Ends(c, k)
  PROVE  FitInv'
<1>1. CASE conn' = [conn EXCEPT ![c] = k]
  BY <1>1, OneAnswers
<1>2. CASE conn' = [conn EXCEPT ![c] = NewConnection]
  BY <1>2, NewAnswers, SilentAnswers
<1>3. QED
  BY <1>1, <1>2 DEF Ends

LEMMA ReadAnswers ==
  ASSUME StatusTable, SiteInv, FitInv, NEW c \in Clients, Reads(c) \/ ReadEnds(c)
  PROVE  FitInv'
<1> DEFINE k == conn[c]
<1>1. Shaped(k) /\ k.phase = "work" /\ k.response = NewResponse /\ k.work.file # 0
  BY DEF Reads, ReadEnds, At, SiteInv, Good
<1>2. CASE Reads(c)
  <2>1. PICK n : conn' = [conn EXCEPT
            ![c].work.total = @ + n,
            ![c].work.data = @ \o SubSeq(store[k.work.file], k.work.total + 1, k.work.total + n)]
    BY <1>2 DEF Reads
  <2>2. /\ conn'[c].phase = "work"
        /\ \A d \in Clients : d # c => conn'[d] = conn[d]
    BY <1>1, <2>1 DEF SiteInv, Shaped, NewConnection
  <2>3. \A d \in Clients : Answers(conn'[d])
    BY <2>2 DEF FitInv, Answers
  <2>4. QED
    BY <2>3 DEF FitInv, Answers, Fits, BodyFor, Custom
<1>3. CASE ReadEnds(c)
  <2> DEFINE p == Replies(k, WithBody(k.response, k.request, k.work.data, "200"))
  <2>1. Ends(c, p)
    BY <1>3 DEF ReadEnds
  <2>2. Fits(p) /\ p.phase = "reply"
    BY <1>1, ReadFits, RepliesKeeps
  <2> HIDE DEF p
  <2>3. QED
    BY <2>1, <2>2, FitAnswers, EndsAnswers
<1>4. QED
  BY <1>2, <1>3

LEMMA WriteAnswers ==
  ASSUME StatusTable, SiteInv, FitInv, NEW c \in Clients, WritesSome(c)
  PROVE  FitInv'
<1> DEFINE k == conn[c]
<1>1. Shaped(k) /\ k.phase = "work" /\ k.response = NewResponse
  BY DEF WritesSome, At, SiteInv, Good
<1>2. PICK n : LET m == [k EXCEPT !.work.total = k.work.total + n] IN
               Ends(c, Done(m, "201")) \/ conn' = [conn EXCEPT ![c] = m]
  <2>1. \E n \in 0 .. BufferSize :
          LET m == [k EXCEPT !.work.total = k.work.total + n] IN
          IF n = Len(k.work.data) - k.work.total
            THEN Ends(c, Done(m, "201")) ELSE conn' = [conn EXCEPT ![c] = m]
    BY DEF WritesSome
  <2>2. QED
    BY <2>1
<1> HIDE DEF k
<1> DEFINE m == [k EXCEPT !.work.total = k.work.total + n]
<1>3. Shaped(m) /\ m.phase = "work" /\ m.response = NewResponse
  BY <1>1 DEF Shaped, NewConnection, NoWork
<1>4. Ends(c, Done(m, "201")) \/ conn' = [conn EXCEPT ![c] = m]
  BY <1>2
<1> HIDE DEF m
<1>5. Fits(Done(m, "201")) /\ Done(m, "201").phase = "reply"
  BY <1>3, DoneFits, RepliesKeeps DEF Done
<1>6. CASE Ends(c, Done(m, "201"))
  BY <1>5, <1>6, FitAnswers, EndsAnswers
<1>7. CASE conn' = [conn EXCEPT ![c] = m]
  BY <1>3, <1>7, SilentAnswers DEF Phases
<1>8. QED
  BY <1>4, <1>6, <1>7

\* Errors of a file or a script, and the end of a script.
LEMMA WorkerAnswers ==
  ASSUME StatusTable, SiteInv, FitInv, NEW c \in Clients, FileFails(c) \/ ScriptEnds(c)
  PROVE  FitInv'
<1> DEFINE k == conn[c]
<1>1. Shaped(k) /\ k.response = NewResponse
  BY DEF FileFails, ScriptEnds, SiteInv, Good
<1>2. \/ Ends(c, Failed(k, "500")) \/ conn' = [conn EXCEPT ![c] = Failed(k, "500")]
      \/ \E o \in Outputs : conn' = [conn EXCEPT ![c] =
           [Replies(k, ScriptReply(k.response, k.request, o)) EXCEPT !.scripted = TRUE]]
      \/ conn' = [conn EXCEPT ![c].phase = "hold"]
  BY DEF FileFails, ScriptEnds
<1>3. conn' = [conn EXCEPT ![c].phase = "hold"] =>
        conn' = [conn EXCEPT ![c] = [k EXCEPT !.phase = "hold"]]
  BY DEF SiteInv
<1> HIDE DEF k
<1>4. Answers(Failed(k, "500"))
  <2>1. Fits(Failed(k, "500"))
    BY <1>1, ErrorFits DEF ErrorCodes
  <2>2. Failed(k, "500").phase = "reply"
    BY <1>1, RepliesKeeps DEF Failed
  <2>3. QED
    BY <2>1, <2>2, FitAnswers
<1>5. CASE Ends(c, Failed(k, "500")) \/ conn' = [conn EXCEPT ![c] = Failed(k, "500")]
  BY <1>4, <1>5, EndsAnswers, OneAnswers
<1>6. ASSUME NEW r, conn' = [conn EXCEPT ![c] = [Replies(k, r) EXCEPT !.scripted = TRUE]]
      PROVE  FitInv'
  <2> DEFINE p == Replies(k, r)
             t == [p EXCEPT !.scripted = TRUE]
  <2>1. Shaped(p) /\ p.phase = "reply"
    BY <1>1, RepliesKeeps
  <2> HIDE DEF p
  <2>2. t.phase = "reply" /\ t.scripted
    BY <2>1 DEF Shaped, NewConnection
  <2>3. conn' = [conn EXCEPT ![c] = t]
    BY <1>6 DEF p
  <2> HIDE DEF t
  <2>4. QED
    BY <2>2, <2>3, FitAnswers, OneAnswers
<1>7. CASE conn' = [conn EXCEPT ![c] = [k EXCEPT !.phase = "hold"]]
  <2>1. [k EXCEPT !.phase = "hold"].phase = "hold"
    BY <1>1 DEF Shaped, NewConnection
  <2>2. QED
    BY <1>7, <2>1, SilentAnswers DEF Phases
<1>8. QED
  BY <1>2, <1>3, <1>5, <1>6, <1>7

LEMMA EndAnswers ==
  ASSUME SiteInv, FitInv, NEW c \in Clients, ReplySent(c) \/ Leaves(c)
  PROVE  FitInv'
<1> DEFINE k == conn[c]
<1>1. Shaped(k)
  BY DEF SiteInv, Good
<1>2. \/ conn' = [conn EXCEPT ![c] = NewConnection]
      \/ conn' = [conn EXCEPT ![c] = Clean(k)]
      \/ k.phase = "work" /\ conn' = [conn EXCEPT ![c] = [k EXCEPT !.left = TRUE]]
  BY DEF ReplySent, Leaves
<1> HIDE DEF k
<1>3. CASE k.phase = "work" /\ conn' = [conn EXCEPT ![c] = [k EXCEPT !.left = TRUE]]
  <2>1. [k EXCEPT !.left = TRUE].phase = "work"
    BY <1>1, <1>3 DEF Shaped, NewConnection
  <2>2. QED
    BY <1>3, <2>1, SilentAnswers DEF Phases
<1>4. QED
  BY <1>2, <1>3, NewAnswers, SilentAnswers

LEMMA NextAnswers ==
  ASSUME ServiceAssumption, StatusTable, SiteInv, FitInv, [Next]_vars
  PROVE  FitInv'
<1>1. CASE Next
  <2>1. PICK c \in Clients :
          \/ \E q \in Requests : ReceivesHeader(c, q)
          \/ ReceivesJunk(c) \/ ReceivesBody(c)
          \/ Reads(c) \/ ReadEnds(c) \/ WritesSome(c) \/ FileFails(c) \/ ScriptEnds(c)
          \/ ReplySent(c) \/ Leaves(c)
    BY <1>1 DEF Next
  <2>2. QED
    BY <2>1, HeaderAnswers, JunkAnswers, BodyAnswers, ReadAnswers, WriteAnswers,
       WorkerAnswers, EndAnswers
<1>2. CASE UNCHANGED vars
  <2>1. conn' = conn
    BY <1>2 DEF vars
  <2>2. \A c \in Clients : Answers(conn'[c])
    BY <2>1 DEF FitInv
  <2>3. QED
    BY <2>2 DEF FitInv, Answers, Fits, BodyFor, Custom
<1>3. QED
  BY <1>1, <1>2

\* Every reply of the server's own is one status with its phrase, what belongs to
\* that status and the length of what is sent, whatever was at work on the
\* connection before and whenever a worker fails (Response, ClientFD::clean).
THEOREM RepliesFit == StatusTable => (Spec => []ReplyFits)
<1> SUFFICES ASSUME StatusTable PROVE Spec => []ReplyFits
  OBVIOUS
<1>1. Init => FitInv
  <2> SUFFICES ASSUME Init, NEW c \in Clients PROVE Answers(conn[c])
    BY DEF FitInv
  <2>1. conn[c].phase = "header"
    BY DEF Init, NewConnection
  <2>2. QED
    BY <2>1 DEF Answers
<1>2. SiteInv /\ FitInv /\ [Next]_vars => FitInv'
  BY ServiceAssumption, NextAnswers
<1>3. FitInv => ReplyFits
  BY DEF FitInv, Answers, ReplyFits
<1>4. QED
  BY <1>1, <1>2, <1>3, SiteIsSound, PTL DEF Spec

=============================================================================
