--------------------------- MODULE ServerLoopProofs ---------------------------
(***************************************************************************)
(* Proofs about Server::run for any number of listeners, connections,      *)
(* files and CGI outputs, any timeout and any scan time.                   *)
(***************************************************************************)
EXTENDS ServerLoop, FiniteSetTheorems, TLAPS

-----------------------------------------------------------------------------
(***************************************************************************)
(* What the operators on the poll vectors (PollTable) return.              *)
(***************************************************************************)

\* The Server::remove exchange drops one slot and moves the back into slot i.
LEMMA SwapPopShape ==
  ASSUME NEW S, NEW s \in Seq(S), NEW i \in 1 .. Len(s)
  PROVE  /\ SwapPop(s, i) \in Seq(S)
         /\ Len(SwapPop(s, i)) = Len(s) - 1
         /\ DOMAIN SwapPop(s, i) = 1 .. Len(s) - 1
         /\ \A j \in 1 .. Len(s) - 1 :
              SwapPop(s, i)[j] = IF j = i THEN s[Len(s)] ELSE s[j]
<1>1. Len(s) \in Nat /\ s \in [1 .. Len(s) -> S]
  OBVIOUS
<1>2. Len(s) - 1 \in Nat
  BY <1>1
<1>3. SwapPop(s, i) \in [1 .. Len(s) - 1 -> S]
  BY <1>1 DEF SwapPop, Last1
<1>4. SwapPop(s, i) \in Seq(S)
  BY <1>2, <1>3
<1>5. QED
  BY <1>1, <1>2, <1>3, <1>4 DEF SwapPop, Last1

\* pop_back without the exchange.
LEMMA PopBackShape ==
  ASSUME NEW S, NEW s \in Seq(S), Len(s) > 0
  PROVE  /\ PopBack(s) \in Seq(S)
         /\ Len(PopBack(s)) = Len(s) - 1
         /\ DOMAIN PopBack(s) = 1 .. Len(s) - 1
         /\ \A j \in 1 .. Len(s) - 1 : PopBack(s)[j] = s[j]
<1>1. Len(s) \in Nat /\ s \in [1 .. Len(s) -> S]
  OBVIOUS
<1>2. Len(s) - 1 \in Nat
  BY <1>1
<1>3. PopBack(s) \in [1 .. Len(s) - 1 -> S]
  BY <1>1 DEF PopBack
<1>4. PopBack(s) \in Seq(S)
  BY <1>2, <1>3
<1>5. QED
  BY <1>1, <1>2, <1>3, <1>4 DEF PopBack

\* The exchange removes exactly the occupant of slot i.
LEMMA SwapPopOccupants ==
  ASSUME NEW S, NEW s \in Seq(S), NoRepeat(s), NEW i \in 1 .. Len(s)
  PROVE  /\ NoRepeat(SwapPop(s, i))
         /\ Occupants(SwapPop(s, i)) = Occupants(s) \ {s[i]}
<1> DEFINE t == SwapPop(s, i)
           n == Len(s)
<1>1. /\ n \in Nat /\ DOMAIN s = 1 .. n
      /\ DOMAIN t = 1 .. n - 1
      /\ \A j \in 1 .. n - 1 : t[j] = IF j = i THEN s[n] ELSE s[j]
      /\ i \in 1 .. n
  <2>1. n \in Nat /\ DOMAIN s = 1 .. n /\ i \in 1 .. n
    OBVIOUS
  <2>2. /\ DOMAIN t = 1 .. n - 1
        /\ \A j \in 1 .. n - 1 : t[j] = IF j = i THEN s[n] ELSE s[j]
    BY SwapPopShape
  <2>3. QED
    BY <2>1, <2>2
<1> HIDE DEF t, n
<1>2. NoRepeat(t)
  BY <1>1 DEF NoRepeat
<1>3. ASSUME NEW x \in Occupants(t)
      PROVE  x \in Occupants(s) \ {s[i]}
  <2>1. PICK j \in 1 .. n - 1 : x = t[j]
    BY <1>1 DEF Occupants
  <2>2. CASE j = i
    BY <1>1, <2>1, <2>2 DEF Occupants, NoRepeat
  <2>3. CASE j # i
    BY <1>1, <2>1, <2>3 DEF Occupants, NoRepeat
  <2>4. QED
    BY <2>2, <2>3
<1>4. ASSUME NEW x \in Occupants(s) \ {s[i]}
      PROVE  x \in Occupants(t)
  <2>1. PICK j \in 1 .. n : x = s[j] /\ j # i
    BY <1>1 DEF Occupants
  <2>2. CASE j = n
    <3>1. i \in 1 .. n - 1 /\ t[i] = x
      BY <1>1, <2>1, <2>2
    <3>2. QED
      BY <1>1, <3>1 DEF Occupants
  <2>3. CASE j # n
    <3>1. j \in 1 .. n - 1 /\ t[j] = x
      BY <1>1, <2>1, <2>3
    <3>2. QED
      BY <1>1, <3>1 DEF Occupants
  <2>4. QED
    BY <2>2, <2>3
<1>5. QED
  BY <1>2, <1>3, <1>4 DEF t, n

\* Without the exchange it is the last occupant that goes.
LEMMA PopBackOccupants ==
  ASSUME NEW S, NEW s \in Seq(S), NoRepeat(s), Len(s) > 0
  PROVE  /\ NoRepeat(PopBack(s))
         /\ Occupants(PopBack(s)) = Occupants(s) \ {s[Len(s)]}
<1> DEFINE t == PopBack(s)
           n == Len(s)
<1>1. /\ n \in Nat /\ DOMAIN s = 1 .. n
      /\ DOMAIN t = 1 .. n - 1
      /\ \A j \in 1 .. n - 1 : t[j] = s[j]
  BY PopBackShape
<1> HIDE DEF t, n
<1>2. NoRepeat(t)
  BY <1>1 DEF NoRepeat
<1>3. ASSUME NEW x \in Occupants(t)
      PROVE  x \in Occupants(s) \ {s[n]}
  BY <1>1 DEF Occupants, NoRepeat
<1>4. ASSUME NEW x \in Occupants(s) \ {s[n]}
      PROVE  x \in Occupants(t)
  <2>1. PICK j \in 1 .. n : x = s[j] /\ j # n
    BY <1>1 DEF Occupants
  <2>2. j \in 1 .. n - 1 /\ t[j] = x
    BY <1>1, <2>1
  <2>3. QED
    BY <1>1, <2>2 DEF Occupants
<1>5. QED
  BY <1>2, <1>3, <1>4 DEF t, n

\* PollableFactory's push_back of an object that is not in the vector.
LEMMA AppendOccupants ==
  ASSUME NEW S, NEW s \in Seq(S), NEW x \in S
  PROVE  /\ Append(s, x) \in Seq(S)
         /\ Len(Append(s, x)) = Len(s) + 1
         /\ DOMAIN Append(s, x) = 1 .. Len(s) + 1
         /\ \A j \in 1 .. Len(s) : Append(s, x)[j] = s[j]
         /\ Append(s, x)[Len(s) + 1] = x
         /\ Occupants(Append(s, x)) = Occupants(s) \cup {x}
         /\ NoRepeat(s) /\ x \notin Occupants(s) => NoRepeat(Append(s, x))
<1> DEFINE t == Append(s, x)
           n == Len(s)
<1>1. /\ n \in Nat /\ DOMAIN s = 1 .. n
      /\ t \in Seq(S) /\ Len(t) = n + 1
      /\ DOMAIN t = 1 .. n + 1
      /\ \A j \in 1 .. n : t[j] = s[j]
      /\ t[n + 1] = x
  OBVIOUS
<1> HIDE DEF t, n
<1>2. Occupants(t) \subseteq Occupants(s) \cup {x}
  <2>1. SUFFICES ASSUME NEW j \in 1 .. n + 1
                 PROVE  t[j] \in Occupants(s) \cup {x}
    BY <1>1 DEF Occupants
  <2>2. CASE j = n + 1
    BY <1>1, <2>2
  <2>3. CASE j # n + 1
    <3>1. j \in 1 .. n
      BY <1>1, <2>3
    <3>2. QED
      BY <1>1, <3>1 DEF Occupants
  <2>4. QED
    BY <2>2, <2>3
<1>3. Occupants(s) \cup {x} \subseteq Occupants(t)
  <2>1. x \in Occupants(t)
    <3>1. n + 1 \in 1 .. n + 1
      BY <1>1
    <3>2. QED
      BY <1>1, <3>1 DEF Occupants
  <2>2. ASSUME NEW j \in 1 .. n
        PROVE  s[j] \in Occupants(t)
    <3>1. j \in 1 .. n + 1
      BY <1>1
    <3>2. QED
      BY <1>1, <3>1 DEF Occupants
  <2>3. QED
    BY <1>1, <2>1, <2>2 DEF Occupants
<1>4. NoRepeat(s) /\ x \notin Occupants(s) => NoRepeat(t)
  <2>1. SUFFICES ASSUME NoRepeat(s), x \notin Occupants(s),
                        NEW j \in 1 .. n + 1, NEW k \in 1 .. n + 1, t[j] = t[k]
                 PROVE  j = k
    BY <1>1 DEF NoRepeat
  <2>2. \A m \in 1 .. n : t[m] # x
    BY <1>1, <2>1 DEF Occupants
  <2>3. QED
    BY <1>1, <2>1, <2>2 DEF NoRepeat
<1>5. QED
  BY <1>1, <1>2, <1>3, <1>4 DEF t, n

-----------------------------------------------------------------------------
(***************************************************************************)
(* The invariant of the table.                                             *)
(***************************************************************************)

\* Descriptors of -1 belong to objects in the table.
UnopenedAreLive == unopened \subseteq Live

\* The inductive invariant: types, parallel vectors, and the clause that tells a
\* fresh CgiFD has its own descriptor.
TableInv == TypeOK /\ VectorsAgree /\ UnopenedAreLive

-----------------------------------------------------------------------------
\* Setting the events of a slot keeps descriptors and returned events.
LEMMA SetEventsShape ==
  ASSUME TypeOK, NEW o, NEW e \in Events
  PROVE  /\ SetEvents(o, e) \in Seq(Pfd)
         /\ Len(SetEvents(o, e)) = Len(pfds)
         /\ DOMAIN SetEvents(o, e) = DOMAIN pfds
         /\ \A i \in DOMAIN pfds : /\ SetEvents(o, e)[i].fd = pfds[i].fd
                                   /\ SetEvents(o, e)[i].revents = pfds[i].revents
<1> DEFINE n == Len(pfds)
           k == index[o]
           t == SetEvents(o, e)
<1>1. n \in Nat /\ pfds \in [1 .. n -> Pfd] /\ DOMAIN pfds = 1 .. n
  BY DEF TypeOK
<1>2. t = [pfds EXCEPT ![k] = [pfds[k] EXCEPT !.events = e]]
  BY DEF SetEvents
<1>3. DOMAIN t = 1 .. n
  BY <1>1, <1>2
<1>4. ASSUME NEW i \in 1 .. n
      PROVE  t[i] \in Pfd /\ t[i].fd = pfds[i].fd /\ t[i].revents = pfds[i].revents
  <2>1. pfds[i] \in Pfd
    BY <1>1
  <2>2. CASE i = k
    <3>1. t[i] = [pfds[i] EXCEPT !.events = e]
      BY <1>1, <1>2, <2>2
    <3>2. QED
      BY <2>1, <3>1 DEF Pfd
  <2>3. CASE i # k
    <3>1. t[i] = pfds[i]
      BY <1>1, <1>2, <2>3
    <3>2. QED
      BY <2>1, <3>1
  <2>4. QED
    BY <2>2, <2>3
<1> HIDE DEF t
<1>5. t \in [1 .. n -> Pfd]
  <2>1. t = [i \in 1 .. n |-> t[i]]
    BY <1>2, <1>3, <1>1
  <2>2. QED
    BY <2>1, <1>4
<1>6. t \in Seq(Pfd) /\ Len(t) = n
  BY <1>1, <1>3, <1>5
<1>7. QED
  BY <1>1, <1>3, <1>4, <1>6 DEF t

-----------------------------------------------------------------------------
(***************************************************************************)
(* The initial states.                                                     *)
(***************************************************************************)
LEMMA InitTable == Init => TableInv
<1> SUFFICES ASSUME Init PROVE TableInv
  OBVIOUS
<1> USE LoopAssumption
<1> DEFINE n == Cardinality(Listeners)
<1>1. n \in Nat
  BY FS_CardinalityType
<1>2. /\ pollables \in [1 .. n -> Listeners] /\ NoRepeat(pollables)
      /\ DOMAIN pollables = 1 .. n
  BY DEF Init
<1> HIDE DEF n
<1>3. pollables \in Seq(Objects) /\ Len(pollables) = n
  <2>1. Listeners \subseteq Objects
    BY DEF Objects
  <2>2. pollables \in [1 .. n -> Objects]
    BY <1>2, <2>1
  <2>3. QED
    BY <1>1, <1>2, <2>2
<1>4. /\ pfds \in Seq(Pfd) /\ Len(pfds) = n /\ DOMAIN pfds = 1 .. n
      /\ \A i \in 1 .. n : pfds[i].fd = pollables[i]
  <2>1. pfds = [i \in 1 .. n |-> NewPfd(pollables[i], "in")]
    BY <1>2 DEF Init
  <2>2. \A i \in 1 .. n : pollables[i] \in Objects
    BY <1>2 DEF Objects
  <2>3. \A i \in 1 .. n : NewPfd(pollables[i], "in") \in Pfd
    BY <2>2 DEF NewPfd, Pfd, Events, Revents
  <2>4. pfds \in [1 .. n -> Pfd] /\ \A i \in 1 .. n : pfds[i].fd = pollables[i]
    BY <2>1, <2>3 DEF NewPfd
  <2>5. QED
    BY <1>1, <2>1, <2>4
<1>5. /\ index \in [Objects -> Nat]
      /\ \A i \in 1 .. n : index[pollables[i]] = i
  <2>1. \A i \in 1 .. n : pollables[i] \in Listeners /\ pollables[i] \in Objects
    BY <1>2 DEF Objects
  <2>2. \A i \in 1 .. n :
          (CHOOSE j \in DOMAIN pollables : pollables[j] = pollables[i]) = i
    BY <1>2 DEF NoRepeat
  <2>3. index = [o \in Objects |->
                  IF o \in Listeners THEN CHOOSE i \in DOMAIN pollables : pollables[i] = o
                                     ELSE 0]
    BY DEF Init
  <2>4. \A o \in Listeners : \E i \in 1 .. n : pollables[i] = o
    BY <1>2 DEF Init, Live, Occupants
  <2>5. \A o \in Listeners :
          (CHOOSE i \in DOMAIN pollables : pollables[i] = o) \in 1 .. n
    BY <1>2, <2>4
  <2>6. 1 .. n \subseteq Nat
    BY <1>1
  <2>7. index \in [Objects -> Nat]
    BY <2>3, <2>5, <2>6
  <2>8. QED
    BY <2>1, <2>2, <2>3, <2>7
<1>6. TypeOK
  <2>1. /\ pos \in Nat \ {0} /\ turn = {} /\ unopened = {} /\ fault = FALSE /\ lapse = 0
        /\ closed = [o \in Objects |-> FALSE]
        /\ age = [o \in Sessions |-> 0]
        /\ client = [c \in Clients |-> NewClient]
        /\ owner = [w \in Workers |-> Null]
        /\ got = [g \in Cgis |-> FALSE]
        /\ conn = [c \in Clients |-> "open"]
    BY <1>1, <1>3 DEF Init
  <2>2. NewClient \in ClientState /\ "open" \in Connection
    BY DEF NewClient, ClientState, Connection
  <2>3. 0 \in 0 .. Timeout + 1 /\ 0 \in 0 .. ScanTime
    BY DEF LoopAssumption
  <2>4. QED
    BY <1>3, <1>4, <1>5, <2>1, <2>2, <2>3 DEF TypeOK
<1>7. VectorsAgree
  BY <1>2, <1>3, <1>4, <1>5 DEF VectorsAgree, FdOf, Init
<1>8. UnopenedAreLive
  BY DEF UnopenedAreLive, Init
<1>9. QED
  BY <1>6, <1>7, <1>8 DEF TableInv

-----------------------------------------------------------------------------
(***************************************************************************)
(* What one visit does to the types.                                       *)
(***************************************************************************)

\* Moving on to the next slot keeps the types of the scan.
LEMMA AdvanceType ==
  ASSUME TypeOK, Advance
  PROVE  /\ pos' \in Nat \ {0} /\ turn' \in SUBSET Objects
         /\ lapse' \in 0 .. ScanTime /\ fault' \in BOOLEAN
BY DEF TypeOK, Advance

LEMMA TouchType ==
  ASSUME TypeOK, NEW S, Touch(S)
  PROVE  age' \in [Sessions -> 0 .. Timeout + 1]
BY LoopAssumption DEF TypeOK, Touch, LoopAssumption

LEMMA CloseType ==
  ASSUME TypeOK, NEW o, Close(o)
  PROVE  closed' \in [Objects -> BOOLEAN]
BY DEF TypeOK, Close

\* push_back keeps the vectors' types and the index a number.
LEMMA EnlistType ==
  ASSUME TypeOK, NEW o \in Objects, NEW fd \in Objects \cup {NoFd}, NEW e \in Events,
         NEW base \in Seq(Pfd), Len(base) = Len(pfds), Enlist(o, fd, e, base)
  PROVE  /\ pollables' \in Seq(Objects) /\ pfds' \in Seq(Pfd)
         /\ index' \in [Objects -> Nat]
<1>1. NewPfd(fd, e) \in Pfd
  BY DEF NewPfd, Pfd, Revents
<1>2. pollables' \in Seq(Objects)
  BY AppendOccupants DEF TypeOK, Enlist
<1>3. pfds' \in Seq(Pfd)
  BY <1>1, AppendOccupants DEF Enlist
<1>4. Len(pfds) + 1 \in Nat
  BY DEF TypeOK
<1>5. index' \in [Objects -> Nat]
  BY <1>4 DEF TypeOK, Enlist
<1>6. QED
  BY <1>2, <1>3, <1>5

\* A client record with one of its fields set is a client record.
LEMMA StateType ==
  ASSUME NEW r \in [Clients -> ClientState], NEW c,
         NEW s \in {"HEADER", "BODY", "RESPOND", "ERROR"}
  PROVE  [r EXCEPT ![c].state = s] \in [Clients -> ClientState]
<1>1. c \in Clients => [r[c] EXCEPT !.state = s] \in ClientState
  BY DEF ClientState
<1>2. QED
  BY <1>1

LEMMA FlagType ==
  ASSUME NEW r \in [Clients -> ClientState], NEW c
  PROVE  /\ [r EXCEPT ![c].fileOpen = TRUE] \in [Clients -> ClientState]
         /\ [r EXCEPT ![c].reply = FALSE] \in [Clients -> ClientState]
<1>1. c \in Clients => /\ [r[c] EXCEPT !.fileOpen = TRUE] \in ClientState
                       /\ [r[c] EXCEPT !.reply = FALSE] \in ClientState
  BY DEF ClientState
<1>2. QED
  BY <1>1

\* The record after respond() has put its slot on hold.
LEMMA HeldType ==
  ASSUME TypeOK, NEW c
  PROVE  Held(c) \in [Clients -> ClientState]
BY DEF TypeOK, Held, ClientState

LEMMA ReleasedType ==
  ASSUME TypeOK, NEW w
  PROVE  Released(w) \in [Clients -> ClientState]
BY DEF TypeOK, Released, ClientState

LEMMA AnswerType ==
  ASSUME TypeOK, NEW c, NEW s \in {"RESPOND", "ERROR"}, Answer(c, s)
  PROVE  /\ client' \in [Clients -> ClientState]
         /\ pfds' \in Seq(Pfd)
         /\ pollables' \in Seq(Objects) /\ index' \in [Objects -> Nat]
<1>1. client' \in [Clients -> ClientState]
  BY DEF TypeOK, Answer, ClientState
<1>2. pfds' \in Seq(Pfd)
  BY SetEventsShape DEF Answer, Events
<1>3. QED
  BY <1>1, <1>2 DEF TypeOK, Answer

LEMMA FinishesType ==
  ASSUME TypeOK, NEW w, Finishes(w)
  PROVE  /\ client' \in [Clients -> ClientState]
         /\ pfds' \in Seq(Pfd)
         /\ closed' \in [Objects -> BOOLEAN]
<1> DEFINE r == Released(w)
           c == owner[w]
<1>1. client' = [r EXCEPT ![c] = [r[c] EXCEPT !.reply = TRUE]]
  BY DEF Finishes
<1>2. client' \in [Clients -> ClientState]
  <2>1. r \in [Clients -> ClientState]
    BY ReleasedType
  <2> HIDE DEF r, c
  <2>2. c \in Clients => [r[c] EXCEPT !.reply = TRUE] \in ClientState
    BY <2>1 DEF ClientState
  <2>3. QED
    BY <1>1, <2>1, <2>2
<1>3. pfds' \in Seq(Pfd)
  BY SetEventsShape DEF Finishes, Events
<1>4. QED
  BY <1>2, <1>3, CloseType DEF Finishes

\* Server::remove keeps the types.
LEMMA RemoveType ==
  ASSUME TypeOK, Len(pfds) = Len(pollables), pos \in DOMAIN pollables,
         NEW freed \in [Clients -> ClientState], Remove(freed)
  PROVE  TypeOK'
<1> DEFINE n == Len(pollables)
<1>1. /\ n \in Nat /\ n > 0 /\ pos \in 1 .. n /\ DOMAIN pollables = 1 .. n
      /\ pollables \in Seq(Objects) /\ pfds \in Seq(Pfd) /\ Len(pfds) = n
  BY DEF TypeOK
<1>2. pollables' \in Seq(Objects)
  BY <1>1, SwapPopShape, PopBackShape DEF Remove
<1>3. pfds' \in Seq(Pfd)
  BY <1>1, SwapPopShape, PopBackShape DEF Remove
<1>4. index' \in [Objects -> Nat]
  BY DEF Remove, Reindexed, TypeOK
<1>5. closed' \in [Objects -> BOOLEAN]
  BY DEF Remove, TypeOK
<1>6. age' \in [Sessions -> 0 .. Timeout + 1]
  BY LoopAssumption DEF Remove, TypeOK, LoopAssumption
<1>7. client' \in [Clients -> ClientState] /\ conn' \in [Clients -> Connection]
  BY DEF Remove, TypeOK, NewClient, ClientState, Connection
<1>8. owner' \in [Workers -> Clients \cup {Null}] /\ got' \in [Cgis -> BOOLEAN]
  BY DEF Remove, TypeOK
<1>9. /\ unopened' \in SUBSET Cgis /\ turn' \in SUBSET Objects
      /\ pos' \in Nat \ {0} /\ lapse' \in 0 .. ScanTime /\ fault' \in BOOLEAN
  BY DEF Remove, TypeOK, SameSlotNext
<1>10. QED
  BY <1>2, <1>3, <1>4, <1>5, <1>6, <1>7, <1>8, <1>9 DEF TypeOK

-----------------------------------------------------------------------------
(***************************************************************************)
(* Every step keeps the types.  The actions fall into the families of the  *)
(* lemmas above: the visits that remove, those that push back, those that  *)
(* set the events of a slot, and those that leave the table alone.         *)
(***************************************************************************)
LEMMA TypeStep == TableInv /\ [Next]_vars => TypeOK'
<1> SUFFICES ASSUME TableInv, [Next]_vars PROVE TypeOK'
  OBVIOUS
<1> USE DEF TableInv
<1>1. /\ Clients \subseteq Objects /\ Files \subseteq Objects /\ Cgis \subseteq Objects
      /\ Files \subseteq Workers /\ Cgis \subseteq Workers
  BY DEF Objects, Sessions, Workers
<1>2. ASSUME UNCHANGED vars PROVE TypeOK'
  BY <1>2 DEF TypeOK, vars, table, scan
<1>3. ASSUME Tick PROVE TypeOK'
  <2>1. /\ lapse' \in 0 .. ScanTime
        /\ age' \in [Sessions -> 0 .. Timeout + 1]
    BY <1>3, LoopAssumption DEF Tick, TypeOK, LoopAssumption
  <2>2. QED
    BY <1>3, <2>1 DEF Tick, TypeOK, table
<1>4. ASSUME Poll PROVE TypeOK'
  <2>1. pfds' \in Seq(Pfd)
    <3>1. PICK ready \in SUBSET DOMAIN pfds :
            pfds' = [i \in DOMAIN pfds |->
                       [pfds[i] EXCEPT !.revents = IF i \in ready THEN Reported(i) ELSE "none"]]
      BY <1>4 DEF Poll
    <3>2. /\ Len(pfds) \in Nat /\ DOMAIN pfds = 1 .. Len(pfds)
          /\ \A i \in 1 .. Len(pfds) : pfds[i] \in Pfd
      BY DEF TypeOK
    <3>3. \A i \in 1 .. Len(pfds) : Reported(i) \in Revents
      BY <3>2 DEF Reported, Revents, Pfd, Events
    <3>4. \A i \in 1 .. Len(pfds) :
            [pfds[i] EXCEPT !.revents = IF i \in ready THEN Reported(i) ELSE "none"] \in Pfd
      BY <3>2, <3>3 DEF Pfd, Revents
    <3>5. pfds' \in [1 .. Len(pfds) -> Pfd]
      BY <3>1, <3>2, <3>4
    <3>6. QED
      BY <3>2, <3>5
  <2>2. turn' \in SUBSET Objects
    BY <1>4 DEF Poll, TypeOK, Live, Occupants
  <2>3. pos' \in Nat \ {0} /\ lapse' \in 0 .. ScanTime
    BY <1>4, LoopAssumption DEF Poll, LoopAssumption
  <2>4. QED
    BY <1>4, <2>1, <2>2, <2>3 DEF Poll, TypeOK
<1>5. ASSUME NEW c \in Clients, PeerEnds(c) PROVE TypeOK'
  BY <1>5, LoopAssumption DEF PeerEnds, TypeOK, table, scan, Connection, LoopAssumption
<1>6. ASSUME NEW o \in Objects, Idle(o) PROVE TypeOK'
  BY <1>6, AdvanceType DEF Idle, TypeOK, table
<1>7. ASSUME NEW s \in Listeners, Accept(s) PROVE TypeOK'
  <2>1. PICK c \in Clients : Enlist(c, c, "in", pfds)
    BY <1>7 DEF Accept
  <2>2. /\ pollables' \in Seq(Objects) /\ pfds' \in Seq(Pfd)
        /\ index' \in [Objects -> Nat]
    BY <1>1, <2>1, EnlistType DEF TypeOK, Events
  <2>3. QED
    BY <1>7, <2>2, AdvanceType DEF Accept, TypeOK
<1>8. ASSUME NEW s \in Listeners, AcceptFails(s) PROVE TypeOK'
  BY <1>8, AdvanceType DEF AcceptFails, TypeOK, table
<1>9. ASSUME NEW c \in Clients, RetireClient(c) PROVE TypeOK'
  <2>1. pos \in DOMAIN pollables /\ Remove(client)
    BY <1>9 DEF RetireClient, At
  <2>2. QED
    BY <2>1, RemoveType DEF TypeOK, VectorsAgree
<1>10. ASSUME NEW c \in Clients, KeepForFile(c) \/ SocketError(c) PROVE TypeOK'
  BY <1>10, AdvanceType, CloseType DEF KeepForFile, SocketError, TypeOK, table
<1>11. ASSUME NEW c \in Clients, ReceiveFails(c) \/ SendFails(c) PROVE TypeOK'
  BY <1>11, AdvanceType, CloseType, TouchType DEF ReceiveFails, SendFails, TypeOK, table
<1>12. ASSUME NEW c \in Clients, SendsPart(c) PROVE TypeOK'
  BY <1>12, AdvanceType, TouchType DEF SendsPart, TypeOK, table
<1>13. ASSUME NEW c \in Clients, SendsAll(c) PROVE TypeOK'
  <2>1. pfds' \in Seq(Pfd)
    BY <1>13, SetEventsShape DEF SendsAll, TypeOK, Events
  <2>2. closed' \in [Objects -> BOOLEAN]
    BY <1>13, CloseType DEF SendsAll, TypeOK
  <2>4. client' \in [Clients -> ClientState]
    <3> DEFINE h == [client EXCEPT ![c].state = "HEADER"]
               b == [client EXCEPT ![c].state = "BODY"]
    <3>1. client \in [Clients -> ClientState]
      BY DEF TypeOK
    <3>2. \/ client' = [h EXCEPT ![c].reply = FALSE]
          \/ client' = [client EXCEPT ![c].reply = FALSE]
          \/ client' = [b EXCEPT ![c].reply = FALSE]
      BY <1>13 DEF SendsAll
    <3>3. h \in [Clients -> ClientState] /\ b \in [Clients -> ClientState]
      BY <3>1, StateType
    <3> HIDE DEF h, b
    <3>4. /\ [h EXCEPT ![c].reply = FALSE] \in [Clients -> ClientState]
          /\ [client EXCEPT ![c].reply = FALSE] \in [Clients -> ClientState]
          /\ [b EXCEPT ![c].reply = FALSE] \in [Clients -> ClientState]
      BY <3>1, <3>3, FlagType
    <3>5. QED
      BY <3>2, <3>4
  <2>3. QED
    BY <1>13, <2>1, <2>2, <2>4, AdvanceType, TouchType DEF SendsAll, TypeOK
<1>14. ASSUME NEW c \in Clients, NEW b \in BOOLEAN, Receives(c, b)
       PROVE  /\ closed' \in [Objects -> BOOLEAN] /\ age' \in [Sessions -> 0 .. Timeout + 1]
              /\ conn' \in [Clients -> Connection]
              /\ pos' \in Nat \ {0} /\ turn' \in SUBSET Objects
              /\ lapse' \in 0 .. ScanTime /\ fault' \in BOOLEAN
  BY <1>14, AdvanceType, TouchType DEF Receives, TypeOK
<1>15. ASSUME NEW c \in Clients, NeedsMore(c) PROVE TypeOK'
  <2>1. client' \in [Clients -> ClientState]
    <3>1. PICK s \in {client[c].state, "BODY"} : client' = [client EXCEPT ![c].state = s]
      BY <1>15 DEF NeedsMore
    <3>2. client \in [Clients -> ClientState] /\ client[c] \in ClientState
      BY DEF TypeOK
    <3>3. s \in {"HEADER", "BODY", "RESPOND", "ERROR"}
      BY <3>2 DEF ClientState
    <3>4. QED
      BY <3>1, <3>2, <3>3, StateType
  <2>2. QED
    BY <1>14, <1>15, <2>1 DEF NeedsMore, TypeOK, table
<1>16. ASSUME NEW c \in Clients, Refuses(c) PROVE TypeOK'
  BY <1>14, <1>16, AnswerType DEF Refuses, TypeOK
<1>17. ASSUME NEW c \in Clients, Dispatches(c)
       PROVE  /\ closed' \in [Objects -> BOOLEAN] /\ age' \in [Sessions -> 0 .. Timeout + 1]
              /\ conn' \in [Clients -> Connection]
              /\ pos' \in Nat \ {0} /\ turn' \in SUBSET Objects
              /\ lapse' \in 0 .. ScanTime /\ fault' \in BOOLEAN
  BY <1>14, <1>17 DEF Dispatches
<1>18. ASSUME NEW c \in Clients, RepliesAtOnce(c) PROVE TypeOK'
  BY <1>17, <1>18, AnswerType DEF RepliesAtOnce, TypeOK
<1>19. ASSUME NEW c \in Clients, NoReply(c) PROVE TypeOK'
  <2>1. pfds' \in Seq(Pfd)
    BY <1>19, SetEventsShape DEF NoReply, Events
  <2>2. QED
    BY <1>17, <1>19, <2>1, HeldType DEF NoReply, TypeOK
<1>20. ASSUME NEW c \in Clients, OpensFile(c) PROVE TypeOK'
  <2>1. PICK f \in Files, e \in {"in", "out"} :
          /\ Enlist(f, f, e, SetEvents(c, "hold"))
          /\ owner' = [owner EXCEPT ![f] = c]
    BY <1>20 DEF OpensFile
  <2>2. /\ SetEvents(c, "hold") \in Seq(Pfd)
        /\ Len(SetEvents(c, "hold")) = Len(pfds)
    BY SetEventsShape DEF Events
  <2>3. /\ pollables' \in Seq(Objects) /\ pfds' \in Seq(Pfd)
        /\ index' \in [Objects -> Nat]
    BY <1>1, <2>1, <2>2, EnlistType DEF Events
  <2>4. owner' \in [Workers -> Clients \cup {Null}]
    BY <2>1 DEF TypeOK
  <2>5. client' \in [Clients -> ClientState]
    BY <1>20, HeldType, FlagType DEF OpensFile
  <2>6. QED
    BY <1>17, <1>20, <2>3, <2>4, <2>5 DEF OpensFile, TypeOK
<1>21. ASSUME NEW c \in Clients, StartsCgi(c) PROVE TypeOK'
  <2>1. PICK g \in Cgis, fails \in {FALSE, OpenFails} :
          /\ Enlist(g, IF fails THEN NoFd ELSE g, "in", SetEvents(c, "hold"))
          /\ owner' = [owner EXCEPT ![g] = c]
          /\ unopened' = IF fails THEN unopened \cup {g} ELSE unopened
    BY <1>21 DEF StartsCgi, Executes
  <2>2. /\ SetEvents(c, "hold") \in Seq(Pfd)
        /\ Len(SetEvents(c, "hold")) = Len(pfds)
    BY SetEventsShape DEF Events
  <2>3. (IF fails THEN NoFd ELSE g) \in Objects \cup {NoFd}
    BY <1>1
  <2>4. /\ pollables' \in Seq(Objects) /\ pfds' \in Seq(Pfd)
        /\ index' \in [Objects -> Nat]
    BY <1>1, <2>1, <2>2, <2>3, EnlistType DEF Events
  <2>5. owner' \in [Workers -> Clients \cup {Null}] /\ unopened' \in SUBSET Cgis
    BY <2>1 DEF TypeOK
  <2>6. QED
    BY <1>17, <1>21, <2>4, <2>5, HeldType DEF StartsCgi, Executes, TypeOK
<1>22. ASSUME NEW w \in Workers, RetireWorker(w) PROVE TypeOK'
  <2>1. /\ pos \in DOMAIN pollables
        /\ Remove(IF Expired(w) THEN Released(w) ELSE client)
    BY <1>22 DEF RetireWorker, At
  <2>2. (IF Expired(w) THEN Released(w) ELSE client) \in [Clients -> ClientState]
    BY ReleasedType DEF TypeOK
  <2>3. QED
    BY <2>1, <2>2, RemoveType DEF TypeOK, VectorsAgree
<1>23. ASSUME NEW f \in Files, FileProgress(f) PROVE TypeOK'
  BY <1>23, AdvanceType, TouchType DEF FileProgress, TypeOK, table
<1>24. ASSUME NEW f \in Files, FileEnds(f) PROVE TypeOK'
  BY <1>24, AdvanceType, TouchType, FinishesType DEF FileEnds, Finishes, TypeOK
<1>25. ASSUME NEW g \in Cgis, CgiReads(g) \/ CgiWaits(g) PROVE TypeOK'
  BY <1>25, AdvanceType, TouchType DEF CgiReads, CgiWaits, TypeOK, table
<1>26. ASSUME NEW g \in Cgis, CgiEnds(g) \/ CgiFails(g) PROVE TypeOK'
  BY <1>26, AdvanceType, TouchType, FinishesType DEF CgiEnds, CgiFails, Finishes, TypeOK
<1>27. ASSUME NEW w \in Workers, UseAfterDelete(w) PROVE TypeOK'
  BY <1>27 DEF UseAfterDelete, TypeOK, table
<1>28. ASSUME Halted PROVE TypeOK'
  BY <1>2, <1>28 DEF Halted
<1>29. ASSUME Visit PROVE TypeOK'
  <2>1. ASSUME NEW s \in Listeners, VisitListener(s) PROVE TypeOK'
    BY <2>1, <1>6, <1>7, <1>8 DEF VisitListener, Objects
  <2>2. ASSUME NEW c \in Clients, VisitClient(c) PROVE TypeOK'
    BY <2>2, <1>1, <1>6, <1>9, <1>10, <1>11, <1>12, <1>13, <1>15, <1>16, <1>18, <1>19,
       <1>20, <1>21 DEF VisitClient, ClientPollin, ClientPollout
  <2>3. ASSUME NEW f \in Files, VisitFile(f) PROVE TypeOK'
    BY <2>3, <1>1, <1>6, <1>22, <1>23, <1>24, <1>27 DEF VisitFile
  <2>4. ASSUME NEW g \in Cgis, VisitCgi(g) PROVE TypeOK'
    BY <2>4, <1>1, <1>6, <1>22, <1>25, <1>26, <1>27 DEF VisitCgi
  <2>5. QED
    BY <1>29, <2>1, <2>2, <2>3, <2>4 DEF Visit
<1>30. QED
  BY <1>2, <1>3, <1>4, <1>5, <1>28, <1>29 DEF Next

-----------------------------------------------------------------------------
(***************************************************************************)
(* The two vectors stay parallel: three lemmas for the three things a      *)
(* handler does to them.                                                   *)
(***************************************************************************)
Agree == VectorsAgree /\ UnopenedAreLive

\* It writes events or revents, or nothing.
LEMMA AgreeSameSlots ==
  ASSUME TableInv, UNCHANGED <<pollables, index, unopened>>,
         Len(pfds') = Len(pfds),
         \A i \in DOMAIN pfds : pfds'[i].fd = pfds[i].fd
  PROVE  Agree'
<1>1. DOMAIN pollables = DOMAIN pfds
  BY DEF TableInv, TypeOK, VectorsAgree
<1>2. VectorsAgree'
  BY <1>1 DEF TableInv, VectorsAgree, NoRepeat, FdOf
<1>3. UnopenedAreLive'
  BY DEF TableInv, UnopenedAreLive, Live, Occupants
<1>4. QED
  BY <1>2, <1>3 DEF Agree

\* It pushes back an object that is not in the table.
LEMMA AgreeEnlist ==
  ASSUME TableInv, NEW o \in Objects \ Live, NEW fd \in Objects \cup {NoFd}, NEW e \in Events,
         NEW base \in Seq(Pfd), Len(base) = Len(pfds),
         \A i \in DOMAIN pfds : base[i].fd = pfds[i].fd,
         Enlist(o, fd, e, base),
         \/ unopened' = unopened /\ fd = o
         \/ unopened' = unopened \cup {o} /\ fd = NoFd
  PROVE  Agree'
<1> DEFINE n == Len(pollables)
<1>1. /\ n \in Nat /\ Len(pfds) = n /\ Len(base) = n
      /\ DOMAIN pollables = 1 .. n /\ DOMAIN pfds = 1 .. n
      /\ pollables \in Seq(Objects) /\ NoRepeat(pollables)
      /\ o \notin Occupants(pollables) /\ o \notin unopened
  BY DEF TableInv, TypeOK, VectorsAgree, UnopenedAreLive, Live
<1>2. /\ pollables' = Append(pollables, o)
      /\ pfds' = Append(base, NewPfd(fd, e))
      /\ index' = [index EXCEPT ![o] = n + 1]
  BY <1>1 DEF Enlist
<1>3. /\ Len(pollables') = n + 1 /\ DOMAIN pollables' = 1 .. n + 1
      /\ \A j \in 1 .. n : pollables'[j] = pollables[j]
      /\ pollables'[n + 1] = o
      /\ NoRepeat(pollables')
      /\ Occupants(pollables') = Occupants(pollables) \cup {o}
  BY <1>1, <1>2, AppendOccupants
<1>4. NewPfd(fd, e) \in Pfd
  BY DEF NewPfd, Pfd, Revents
<1>5. /\ Len(pfds') = n + 1
      /\ \A j \in 1 .. n : pfds'[j].fd = pfds[j].fd
      /\ pfds'[n + 1].fd = fd
  <2>1. /\ Len(pfds') = n + 1
        /\ \A j \in 1 .. n : pfds'[j] = base[j]
        /\ pfds'[n + 1] = NewPfd(fd, e)
    BY <1>1, <1>2, <1>4, AppendOccupants
  <2>2. QED
    BY <1>1, <2>1 DEF NewPfd
<1> HIDE DEF n
<1>6. \A j \in 1 .. n + 1 :
        (index[pollables[j]] = j /\ pfds[j].fd = FdOf(pollables[j]))'
  <2>1. SUFFICES ASSUME NEW j \in 1 .. n + 1
                 PROVE  (index[pollables[j]] = j /\ pfds[j].fd = FdOf(pollables[j]))'
    OBVIOUS
  <2>2. CASE j = n + 1
    <3>1. index'[o] = n + 1
      BY <1>2 DEF TableInv, TypeOK
    <3>2. fd = IF o \in unopened' THEN NoFd ELSE o
      BY <1>1
    <3>3. QED
      BY <1>3, <1>5, <2>2, <3>1, <3>2 DEF FdOf
  <2>3. CASE j # n + 1
    <3>1. j \in 1 .. n
      BY <1>1, <2>3
    <3>2. /\ pollables[j] \in Objects /\ pollables[j] # o
          /\ index[pollables[j]] = j /\ pfds[j].fd = FdOf(pollables[j])
      <4>1. pollables[j] \in Objects
        BY <1>1, <3>1
      <4>2. pollables[j] # o
        BY <1>1, <3>1 DEF Occupants
      <4>3. QED
        BY <1>1, <3>1, <4>1, <4>2 DEF TableInv, VectorsAgree
    <3>3. index'[pollables[j]] = j
      BY <1>2, <3>2 DEF TableInv, TypeOK
    <3>4. pfds'[j].fd = IF pollables[j] \in unopened' THEN NoFd ELSE pollables[j]
      BY <1>5, <3>1, <3>2 DEF FdOf
    <3>5. QED
      BY <1>3, <3>1, <3>3, <3>4 DEF FdOf
  <2>4. QED
    BY <2>2, <2>3
<1>7. VectorsAgree'
  BY <1>3, <1>5, <1>6 DEF VectorsAgree
<1>8. UnopenedAreLive'
  BY <1>3 DEF TableInv, UnopenedAreLive, Live
<1>9. QED
  BY <1>7, <1>8 DEF Agree

\* It removes the slot it visits.
LEMMA AgreeRemove ==
  ASSUME TableInv, pos \in DOMAIN pollables, NEW freed, Remove(freed)
  PROVE  Agree' /\ Live' = Live \ {Deleted}
<1> DEFINE n == Len(pollables)
           d == Deleted
           back == pollables[n]
<1>1. /\ n \in Nat /\ n > 0 /\ pos \in 1 .. n /\ n \in 1 .. n /\ Len(pfds) = n
      /\ DOMAIN pollables = 1 .. n /\ DOMAIN pfds = 1 .. n
      /\ pollables \in Seq(Objects) /\ NoRepeat(pollables)
      /\ pfds \in Seq(Pfd)
  BY DEF TableInv, TypeOK, VectorsAgree
<1>2. /\ pollables' = IF Swaps THEN SwapPop(pollables, pos) ELSE PopBack(pollables)
      /\ pfds' = IF Swaps THEN SwapPop(pfds, pos) ELSE PopBack(pfds)
      /\ index' = Reindexed
      /\ unopened' = unopened \ {d}
  BY DEF Remove
<1>3. d = IF Swaps THEN pollables[pos] ELSE back
  BY DEF Deleted, Last1
<1>4. Swaps => pollables[pos] # back
  BY DEF Swaps, Last1
<1>5. /\ NoRepeat(pollables')
      /\ Occupants(pollables') = Occupants(pollables) \ {d}
      /\ Len(pollables') = n - 1 /\ DOMAIN pollables' = 1 .. n - 1
      /\ \A j \in 1 .. n - 1 :
           pollables'[j] = IF Swaps /\ j = pos THEN back ELSE pollables[j]
  <2>1. CASE Swaps
    BY <1>1, <1>2, <1>3, <2>1, SwapPopShape, SwapPopOccupants
  <2>2. CASE ~Swaps
    BY <1>1, <1>2, <1>3, <2>2, PopBackShape, PopBackOccupants
  <2>3. QED
    BY <2>1, <2>2
<1>6. /\ Len(pfds') = n - 1
      /\ \A j \in 1 .. n - 1 : pfds'[j] = IF Swaps /\ j = pos THEN pfds[n] ELSE pfds[j]
  <2>1. CASE Swaps
    <3>1. /\ Len(SwapPop(pfds, pos)) = n - 1
          /\ \A j \in 1 .. n - 1 : SwapPop(pfds, pos)[j] = IF j = pos THEN pfds[n] ELSE pfds[j]
      <4>1. pos \in 1 .. Len(pfds)
        BY <1>1
      <4>2. /\ Len(SwapPop(pfds, pos)) = Len(pfds) - 1
            /\ \A j \in 1 .. Len(pfds) - 1 :
                 SwapPop(pfds, pos)[j] = IF j = pos THEN pfds[Len(pfds)] ELSE pfds[j]
        BY <1>1, <4>1, SwapPopShape
      <4>3. QED
        BY <1>1, <4>2
    <3>2. QED
      BY <1>2, <2>1, <3>1
  <2>2. CASE ~Swaps
    <3>1. /\ Len(PopBack(pfds)) = n - 1
          /\ \A j \in 1 .. n - 1 : PopBack(pfds)[j] = pfds[j]
      BY <1>1, PopBackShape
    <3>2. QED
      BY <1>2, <2>2, <3>1
  <2>3. QED
    BY <2>1, <2>2
<1>7. \A x \in Objects : index'[x] = IF x = d THEN 0
                                     ELSE IF Swaps /\ x = back THEN pos ELSE index[x]
  BY <1>2 DEF Reindexed, Last1
<1>8. \A j \in 1 .. n : /\ pollables[j] \in Objects
                        /\ index[pollables[j]] = j
                        /\ pfds[j].fd = IF pollables[j] \in unopened THEN NoFd ELSE pollables[j]
  <2>1. \A j \in 1 .. n : pollables[j] \in Objects
    BY <1>1
  <2>2. \A j \in 1 .. n : index[pollables[j]] = j /\ pfds[j].fd = FdOf(pollables[j])
    BY <1>1 DEF TableInv, VectorsAgree
  <2>3. QED
    BY <2>1, <2>2 DEF FdOf
<1> HIDE DEF n, d, back
<1>9. ASSUME NEW j \in 1 .. n - 1
      PROVE  (index[pollables[j]] = j /\ pfds[j].fd = FdOf(pollables[j]))'
  <2>1. j \in 1 .. n /\ j # n
    BY <1>1
  <2>2. CASE Swaps /\ j = pos
    <3>1. pollables'[j] = back /\ back # d /\ pfds'[j] = pfds[n]
      BY <1>3, <1>4, <1>5, <1>6, <2>2
    <3>2. back = pollables[n]
      BY DEF back
    <3>3. index'[back] = j
      BY <1>1, <1>7, <1>8, <2>2, <3>1, <3>2
    <3>4. pfds[n].fd = IF back \in unopened' THEN NoFd ELSE back
      BY <1>1, <1>2, <1>8, <3>1, <3>2
    <3>5. QED
      BY <3>1, <3>3, <3>4 DEF FdOf
  <2>3. CASE ~(Swaps /\ j = pos)
    <3>1. pollables'[j] = pollables[j] /\ pfds'[j] = pfds[j]
      BY <1>5, <1>6, <2>3
    <3>2. pollables[j] # d /\ pollables[j] # back
      BY <1>1, <1>3, <2>1, <2>3 DEF NoRepeat, back
    <3>3. index'[pollables[j]] = j
      BY <1>7, <1>8, <2>1, <3>2
    <3>4. pfds[j].fd = IF pollables[j] \in unopened' THEN NoFd ELSE pollables[j]
      BY <1>2, <1>8, <2>1, <3>2
    <3>5. QED
      BY <3>1, <3>3, <3>4 DEF FdOf
  <2>4. QED
    BY <2>2, <2>3
<1>10. VectorsAgree'
  BY <1>5, <1>6, <1>9 DEF VectorsAgree
<1>11. Live' = Live \ {d}
  BY <1>5 DEF Live
<1>12. UnopenedAreLive'
  BY <1>2, <1>11 DEF TableInv, UnopenedAreLive
<1>13. QED
  BY <1>10, <1>11, <1>12 DEF Agree, d

-----------------------------------------------------------------------------
(***************************************************************************)
(* Every step is of one of four kinds, as far as the table and the scan    *)
(* are concerned: it keeps every slot's owner and returned events, it      *)
(* polls, it pushes a new object back, or it removes a closed one.         *)
(***************************************************************************)
Keeps ==
  /\ UNCHANGED <<pollables, index, unopened>>
  /\ Len(pfds') = Len(pfds)
  /\ \A i \in DOMAIN pfds : pfds'[i].fd = pfds[i].fd /\ pfds'[i].revents = pfds[i].revents
  /\ UNCHANGED <<pos, turn>> \/ (pos \in DOMAIN pollables /\ Advance)

Adds ==
  /\ pos \in DOMAIN pollables /\ Advance
  /\ \E o \in Objects \ Live, fd \in Objects \cup {NoFd}, e \in Events, base \in Seq(Pfd) :
       /\ Len(base) = Len(pfds)
       /\ \A i \in DOMAIN pfds : base[i].fd = pfds[i].fd /\ base[i].revents = pfds[i].revents
       /\ Enlist(o, fd, e, base)
       /\ \/ unopened' = unopened /\ fd = o
          \/ unopened' = unopened \cup {o} /\ fd = NoFd /\ OpenFails

Removes ==
  /\ pos \in DOMAIN pollables /\ Gone(pollables[pos])
  /\ \E freed : Remove(freed)

LEMMA KeepsTable ==
  ASSUME UNCHANGED <<table, unopened>>, UNCHANGED <<pos, turn>> \/ (pos \in DOMAIN pollables /\ Advance)
  PROVE  Keeps
BY DEF Keeps, table

LEMMA KeepsEvents ==
  ASSUME TypeOK, NEW o, NEW e \in Events, pfds' = SetEvents(o, e),
         UNCHANGED <<pollables, index, unopened>>, pos \in DOMAIN pollables, Advance
  PROVE  Keeps
BY SetEventsShape DEF Keeps

LEMMA AddsWithHold ==
  ASSUME TypeOK, NEW c, NEW o \in Objects \ Live, NEW fd \in Objects \cup {NoFd},
         NEW e \in Events, Enlist(o, fd, e, SetEvents(c, "hold")),
         pos \in DOMAIN pollables, Advance,
         \/ unopened' = unopened /\ fd = o
         \/ unopened' = unopened \cup {o} /\ fd = NoFd /\ OpenFails
  PROVE  Adds
<1> DEFINE base == SetEvents(c, "hold")
<1>1. /\ base \in Seq(Pfd) /\ Len(base) = Len(pfds)
      /\ \A i \in DOMAIN pfds : base[i].fd = pfds[i].fd /\ base[i].revents = pfds[i].revents
  BY SetEventsShape DEF Events
<1>2. Enlist(o, fd, e, base)
  OBVIOUS
<1> HIDE DEF base
<1>3. QED
  BY <1>1, <1>2 DEF Adds

LEMMA StepKinds == TableInv /\ [Next]_vars => Keeps \/ Poll \/ Adds \/ Removes
<1> SUFFICES ASSUME TableInv, [Next]_vars PROVE Keeps \/ Poll \/ Adds \/ Removes
  OBVIOUS
<1> USE DEF TableInv
<1>1. Files \subseteq Objects /\ Cgis \subseteq Objects /\ Clients \subseteq Objects
  BY DEF Objects, Sessions, Workers
<1>2. "in" \in Events /\ "out" \in Events /\ "hold" \in Events
  BY DEF Events
<1>3. ASSUME UNCHANGED vars \/ Tick \/ Halted \/ \E c \in Clients : PeerEnds(c) PROVE Keeps
  BY <1>3, KeepsTable DEF vars, table, scan, Tick, Halted, PeerEnds
<1>4. ASSUME NEW s \in Listeners, VisitListener(s) PROVE Keeps \/ Adds
  <2>1. CASE Idle(s) \/ AcceptFails(s)
    BY <2>1, KeepsTable DEF Idle, AcceptFails, Serve, At
  <2>2. CASE Accept(s)
    <3>1. PICK c \in Clients : Free(c) /\ Enlist(c, c, "in", pfds)
      BY <2>2 DEF Accept
    <3>2. pos \in DOMAIN pollables /\ Advance /\ unopened' = unopened
      BY <2>2 DEF Accept, Serve, At
    <3>3. c \in Objects \ Live /\ pfds \in Seq(Pfd)
      BY <1>1, <3>1 DEF Free, TypeOK
    <3>4. Adds
      BY <1>2, <3>1, <3>2, <3>3 DEF Adds
    <3>5. QED
      BY <3>4
  <2>3. QED
    BY <1>4, <2>1, <2>2 DEF VisitListener
<1>5. ASSUME NEW c \in Clients, VisitClient(c) PROVE Keeps \/ Adds \/ Removes
  <2>1. CASE RetireClient(c)
    BY <2>1 DEF RetireClient, Removes, At
  <2>2. CASE \/ KeepForFile(c) \/ Idle(c) \/ SocketError(c) \/ ReceiveFails(c)
             \/ SendFails(c) \/ SendsPart(c)
    BY <2>2, KeepsTable
    DEF KeepForFile, Idle, SocketError, ReceiveFails, SendFails, SendsPart, Serve, At
  <2>3. CASE SendsAll(c)
    <3>1. /\ UNCHANGED <<pollables, index, unopened>> /\ pos \in DOMAIN pollables /\ Advance
          /\ pfds' = SetEvents(c, "in") \/ pfds' = pfds
      BY <2>3 DEF SendsAll, Serve, At
    <3>2. CASE pfds' = SetEvents(c, "in")
      BY <1>2, <3>1, <3>2, KeepsEvents
    <3>3. CASE pfds' = pfds
      BY <3>1, <3>3, KeepsTable DEF table
    <3>4. QED
      BY <3>1, <3>2, <3>3
  <2>4. ASSUME \E b \in BOOLEAN : Receives(c, b) PROVE pos \in DOMAIN pollables /\ Advance
    BY <2>4 DEF Receives, Serve, At
  <2>5. ASSUME Dispatches(c) PROVE pos \in DOMAIN pollables /\ Advance
    BY <2>4, <2>5 DEF Dispatches
  <2>6. CASE NeedsMore(c)
    BY <2>4, <2>6, KeepsTable DEF NeedsMore
  <2>7. CASE Refuses(c)
    BY <1>2, <2>4, <2>7, KeepsEvents DEF Refuses, Answer
  <2>8. CASE RepliesAtOnce(c)
    BY <1>2, <2>5, <2>8, KeepsEvents DEF RepliesAtOnce, Answer
  <2>9. CASE NoReply(c)
    BY <1>2, <2>5, <2>9, KeepsEvents DEF NoReply
  <2>10. CASE OpensFile(c)
    <3>1. PICK f \in Files, e \in {"in", "out"} :
            Free(f) /\ Enlist(f, f, e, SetEvents(c, "hold"))
      BY <2>10 DEF OpensFile
    <3>2. pos \in DOMAIN pollables /\ Advance /\ unopened' = unopened
      BY <2>5, <2>10 DEF OpensFile
    <3>3. f \in Objects \ Live /\ e \in Events
      BY <1>1, <1>2, <3>1 DEF Free
    <3>4. QED
      BY <3>1, <3>2, <3>3, AddsWithHold
  <2>11. CASE StartsCgi(c)
    <3>1. PICK g \in Cgis, fails \in {FALSE, OpenFails} :
            /\ Free(g)
            /\ Enlist(g, IF fails THEN NoFd ELSE g, "in", SetEvents(c, "hold"))
            /\ unopened' = IF fails THEN unopened \cup {g} ELSE unopened
      BY <2>11 DEF StartsCgi, Executes
    <3>2. pos \in DOMAIN pollables /\ Advance
      BY <2>5, <2>11 DEF StartsCgi, Executes
    <3>3. g \in Objects \ Live
      BY <1>1, <3>1 DEF Free
    <3>4. CASE fails
      <4>1. OpenFails
        BY <3>4, LoopAssumption DEF LoopAssumption
      <4>2. Enlist(g, NoFd, "in", SetEvents(c, "hold")) /\ unopened' = unopened \cup {g}
        BY <3>1, <3>4
      <4>3. QED
        BY <1>2, <3>2, <3>3, <4>1, <4>2, AddsWithHold
    <3>5. CASE ~fails
      <4>1. Enlist(g, g, "in", SetEvents(c, "hold")) /\ unopened' = unopened
        BY <3>1, <3>5
      <4>2. QED
        BY <1>2, <3>2, <3>3, <4>1, AddsWithHold
    <3>6. QED
      BY <3>4, <3>5
  <2>12. QED
    BY <1>5, <2>1, <2>2, <2>3, <2>6, <2>7, <2>8, <2>9, <2>10, <2>11
    DEF VisitClient, ClientPollin, ClientPollout
<1>6. ASSUME NEW w \in Workers, RetireWorker(w) PROVE Removes
  BY <1>6 DEF RetireWorker, Removes, At
<1>7. ASSUME NEW w \in Workers, Idle(w) \/ UseAfterDelete(w) PROVE Keeps
  BY <1>7, KeepsTable DEF Idle, UseAfterDelete, Serve, At
<1>8. ASSUME NEW w \in Workers, Works(w) PROVE pos \in DOMAIN pollables
  BY <1>8 DEF Works, Serve, At
<1>9. ASSUME NEW w \in Workers, Works(w), Finishes(w) PROVE Keeps
  BY <1>2, <1>8, <1>9, KeepsEvents DEF Finishes
<1>10. ASSUME NEW f \in Files, VisitFile(f) PROVE Keeps \/ Removes
  <2>1. f \in Workers
    BY DEF Workers
  <2>2. CASE FileProgress(f)
    BY <1>8, <2>1, <2>2, KeepsTable DEF FileProgress
  <2>3. CASE FileEnds(f)
    BY <1>9, <2>1, <2>3 DEF FileEnds
  <2>4. QED
    BY <1>6, <1>7, <1>10, <2>1, <2>2, <2>3 DEF VisitFile
<1>11. ASSUME NEW g \in Cgis, VisitCgi(g) PROVE Keeps \/ Removes
  <2>1. g \in Workers
    BY DEF Workers
  <2>2. CASE CgiReads(g) \/ CgiWaits(g)
    BY <1>8, <2>1, <2>2, KeepsTable DEF CgiReads, CgiWaits
  <2>3. CASE CgiEnds(g) \/ CgiFails(g)
    BY <1>9, <2>1, <2>3 DEF CgiEnds, CgiFails
  <2>4. QED
    BY <1>6, <1>7, <1>11, <2>1, <2>2, <2>3 DEF VisitCgi
<1>12. QED
  BY <1>3, <1>4, <1>5, <1>10, <1>11 DEF Next, Visit

LEMMA AgreeStep == TableInv /\ [Next]_vars => Agree'
<1> SUFFICES ASSUME TableInv, [Next]_vars PROVE Agree'
  OBVIOUS
<1>1. CASE Keeps
  BY <1>1, AgreeSameSlots DEF Keeps
<1>2. CASE Poll
  <2>1. PICK ready \in SUBSET DOMAIN pfds :
          pfds' = [i \in DOMAIN pfds |->
                     [pfds[i] EXCEPT !.revents = IF i \in ready THEN Reported(i) ELSE "none"]]
    BY <1>2 DEF Poll
  <2>2. /\ Len(pfds) \in Nat /\ DOMAIN pfds = 1 .. Len(pfds)
        /\ \A i \in 1 .. Len(pfds) : pfds[i] \in Pfd
    BY DEF TableInv, TypeOK
  <2>3. DOMAIN pfds' = 1 .. Len(pfds)
    BY <2>1, <2>2
  <2>4. Len(pfds') = Len(pfds)
    <3>1. pfds' \in Seq(Pfd)
      BY TypeStep DEF TypeOK
    <3>2. QED
      BY <2>2, <2>3, <3>1
  <2>5. \A i \in DOMAIN pfds : pfds'[i].fd = pfds[i].fd
    BY <2>1, <2>2 DEF Pfd
  <2>6. QED
    BY <1>2, <2>4, <2>5, AgreeSameSlots DEF Poll
<1>3. CASE Adds
  BY <1>3, AgreeEnlist DEF Adds
<1>4. CASE Removes
  BY <1>4, AgreeRemove DEF Removes
<1>5. QED
  BY <1>1, <1>2, <1>3, <1>4, StepKinds

(***************************************************************************)
(* The variables keep their types and the two vectors of the server stay   *)
(* parallel, with every _index right, whatever the peers, the files, the   *)
(* scripts and the clock do (Server::remove, PollableFactory).             *)
(***************************************************************************)
THEOREM TableIsCorrect == Spec => [](TypeOK /\ VectorsAgree)
<1>1. TableInv /\ [Next]_vars => TableInv'
  BY TypeStep, AgreeStep DEF TableInv, Agree
<1>2. TableInv => TypeOK /\ VectorsAgree
  BY DEF TableInv
<1>3. QED
  BY InitTable, <1>1, <1>2, PTL DEF Spec

\* In particular every variable of the server keeps its type.
THEOREM LoopIsTyped == Spec => []TypeOK
BY TableIsCorrect, PTL

-----------------------------------------------------------------------------
(***************************************************************************)
(* The scan.  What follows assumes that open() of a CGI output succeeds:   *)
(* with two descriptors of -1 in the table Server::remove deletes the      *)
(* wrong object, which TLC finds with OpenFails = TRUE and two scripts.    *)
(***************************************************************************)
ScanInv ==
  /\ TableInv
  /\ unopened = {}
  /\ pos <= Len(pollables) + 1
  /\ NobodySkipped

\* When every descriptor is valid the object removed is the one visited.
LEMMA DeletedIsVisited ==
  ASSUME TableInv, unopened = {}, pos \in DOMAIN pollables
  PROVE  /\ Deleted = pollables[pos]
         /\ ~Swaps => pos = Len(pollables)
<1>1. /\ Len(pollables) \in Nat /\ Len(pollables) > 0
      /\ DOMAIN pollables = 1 .. Len(pollables) /\ pos \in 1 .. Len(pollables)
      /\ Len(pfds) = Len(pollables) /\ Len(pollables) \in 1 .. Len(pollables)
      /\ NoRepeat(pollables)
  BY DEF TableInv, TypeOK, VectorsAgree
<1>2. \A i \in 1 .. Len(pollables) : pfds[i].fd = pollables[i] /\ FdOf(pollables[i]) = pollables[i]
  BY <1>1 DEF TableInv, VectorsAgree, FdOf
<1>3. CASE pos = Len(pollables)
  BY <1>1, <1>3 DEF Deleted, Last1
<1>4. CASE pos # Len(pollables)
  <2>1. pollables[pos] # pollables[Len(pollables)]
    BY <1>1, <1>4 DEF NoRepeat
  <2>2. Swaps
    BY <1>1, <1>2, <1>4, <2>1 DEF Swaps, Last1
  <2>3. QED
    BY <2>2 DEF Deleted
<1>5. QED
  BY <1>3, <1>4

\* Moving to the next slot: nothing ahead of the scan is lost.
LEMMA SkipAdvance ==
  ASSUME ScanInv, TypeOK', pos \in DOMAIN pollables, Advance,
         Len(pollables') >= Len(pollables),
         \A i \in 1 .. Len(pollables) :
           pollables'[i] = pollables[i] /\ pfds'[i].revents = pfds[i].revents,
         \A i \in 1 .. Len(pollables') : i > Len(pollables) => pfds'[i].revents = "none"
  PROVE  NobodySkipped' /\ pos' <= Len(pollables') + 1
<1> DEFINE n == Len(pollables)
           m == Len(pollables')
<1>1. /\ n \in Nat /\ m \in Nat /\ m >= n /\ pos \in 1 .. n
      /\ pos' = pos + 1 /\ turn' = turn \ {pollables[pos]}
      /\ DOMAIN pollables = 1 .. n
  <2>1. pollables \in Seq(Objects) /\ pollables' \in Seq(Objects)
    BY DEF ScanInv, TableInv, TypeOK
  <2>2. n \in Nat /\ m \in Nat /\ DOMAIN pollables = 1 .. n
    BY <2>1
  <2>3. QED
    BY <2>2 DEF Advance
<1> HIDE DEF n, m
<1>2. ASSUME NEW o \in turn'
      PROVE  \E i \in pos' .. m : pollables'[i] = o
  <2>1. PICK i \in pos .. n : pollables[i] = o
    BY <1>1 DEF ScanInv, NobodySkipped, n
  <2>2. i # pos
    BY <1>1, <2>1
  <2>3. i \in pos' .. m /\ i \in 1 .. n
    BY <1>1, <2>1, <2>2
  <2>4. QED
    BY <2>1, <2>3 DEF n
<1>3. ASSUME NEW i \in pos' .. m, pfds'[i].revents # "none"
      PROVE  pollables'[i] \in turn'
  <2>1. i \in 1 .. n /\ i \in pos .. n /\ i # pos
    BY <1>1, <1>3 DEF n, m
  <2>2. pollables[i] \in turn
    BY <1>3, <2>1 DEF ScanInv, NobodySkipped, n
  <2>3. pollables[i] # pollables[pos]
    BY <1>1, <2>1 DEF ScanInv, TableInv, VectorsAgree, NoRepeat
  <2>4. QED
    BY <1>1, <2>1, <2>2, <2>3 DEF n
<1>4. pos' <= m + 1
  BY <1>1
<1>5. QED
  BY <1>2, <1>3, <1>4 DEF NobodySkipped, m

\* Removing a slot in the middle of a scan: the object moved into it is still ahead.
LEMMA SkipRemove ==
  ASSUME ScanInv, pos \in DOMAIN pollables, NEW freed, Remove(freed)
  PROVE  NobodySkipped' /\ pos' <= Len(pollables') + 1 /\ unopened' = {}
<1> DEFINE n == Len(pollables)
           o == pollables[pos]
<1>1. /\ n \in Nat /\ pos \in 1 .. n /\ n \in 1 .. n
      /\ DOMAIN pollables = 1 .. n /\ NoRepeat(pollables)
      /\ pollables \in Seq(Objects) /\ pfds \in Seq(Pfd) /\ Len(pfds) = n
  BY DEF ScanInv, TableInv, TypeOK, VectorsAgree
<1>2. Deleted = o /\ (~Swaps => pos = n)
  BY DeletedIsVisited DEF ScanInv
<1>3. /\ Len(pollables') = n - 1
      /\ \A j \in 1 .. n - 1 :
           /\ pollables'[j] = IF j = pos THEN pollables[n] ELSE pollables[j]
           /\ pfds'[j] = IF j = pos THEN pfds[n] ELSE pfds[j]
  <2>1. CASE Swaps
    <3>1. pollables' = SwapPop(pollables, pos) /\ pfds' = SwapPop(pfds, pos)
      BY <2>1 DEF Remove
    <3>2. pos \in 1 .. Len(pfds)
      BY <1>1
    <3>3. /\ Len(SwapPop(pfds, pos)) = Len(pfds) - 1
          /\ \A j \in 1 .. Len(pfds) - 1 :
               SwapPop(pfds, pos)[j] = IF j = pos THEN pfds[Len(pfds)] ELSE pfds[j]
      BY <1>1, <3>2, SwapPopShape
    <3>4. /\ Len(SwapPop(pollables, pos)) = n - 1
          /\ \A j \in 1 .. n - 1 :
               SwapPop(pollables, pos)[j] = IF j = pos THEN pollables[n] ELSE pollables[j]
      BY <1>1, SwapPopShape
    <3>5. QED
      BY <1>1, <3>1, <3>3, <3>4
  <2>2. CASE ~Swaps
    <3>1. pollables' = PopBack(pollables) /\ pfds' = PopBack(pfds) /\ pos = n
      BY <1>2, <2>2 DEF Remove
    <3>5. Len(pfds) > 0 /\ Len(pollables) > 0
      BY <1>1
    <3>2. \A j \in 1 .. Len(pfds) - 1 : PopBack(pfds)[j] = pfds[j]
      BY <1>1, <3>5, PopBackShape
    <3>3. /\ Len(PopBack(pollables)) = n - 1
          /\ \A j \in 1 .. n - 1 : PopBack(pollables)[j] = pollables[j]
      BY <1>1, <3>5, PopBackShape
    <3>4. QED
      BY <1>1, <3>1, <3>2, <3>3
  <2>3. QED
    BY <2>1, <2>2
<1>4. pos' = pos /\ turn' = turn \ {o} /\ unopened' = {}
  BY DEF Remove, SameSlotNext, ScanInv
<1> HIDE DEF n, o
<1>5. ASSUME NEW x \in turn'
      PROVE  \E i \in pos' .. n - 1 : pollables'[i] = x
  <2>1. PICK i \in pos .. n : pollables[i] = x
    BY <1>4 DEF ScanInv, NobodySkipped, n
  <2>2. i # pos
    BY <1>4, <2>1 DEF o
  <2>3. CASE i = n
    <3>1. pos \in pos' .. n - 1 /\ pos \in 1 .. n - 1
      BY <1>1, <1>4, <2>1, <2>2, <2>3
    <3>2. QED
      BY <1>3, <2>1, <2>3, <3>1
  <2>4. CASE i # n
    <3>1. i \in pos' .. n - 1 /\ i \in 1 .. n - 1
      BY <1>1, <1>4, <2>1, <2>4
    <3>2. QED
      BY <1>3, <2>1, <2>2, <3>1
  <2>5. QED
    BY <2>3, <2>4
<1>6. ASSUME NEW i \in pos' .. n - 1, pfds'[i].revents # "none"
      PROVE  pollables'[i] \in turn'
  <2> DEFINE k == IF i = pos THEN n ELSE i
  <2>1. /\ k \in pos .. n /\ k \in 1 .. n /\ k # pos
        /\ pollables'[i] = pollables[k] /\ pfds'[i] = pfds[k]
    BY <1>1, <1>3, <1>4
  <2> HIDE DEF k
  <2>2. pollables[k] \in turn
    BY <1>6, <2>1 DEF ScanInv, NobodySkipped, n
  <2>3. pollables[k] # o
    BY <1>1, <2>1 DEF NoRepeat, o
  <2>4. QED
    BY <1>4, <2>1, <2>2, <2>3
<1>7. pos' <= n
  BY <1>1, <1>4
<1>8. QED
  BY <1>1, <1>3, <1>4, <1>5, <1>6, <1>7 DEF NobodySkipped

LEMMA ScanStep ==
  ASSUME OpenFails = FALSE, ScanInv, [Next]_vars
  PROVE  ScanInv'
<1>1. TableInv' /\ TypeOK'
  BY TypeStep, AgreeStep DEF ScanInv, TableInv, Agree
<1>2. /\ Len(pollables) \in Nat /\ DOMAIN pollables = 1 .. Len(pollables)
      /\ Len(pfds) = Len(pollables) /\ DOMAIN pfds = 1 .. Len(pollables)
  BY DEF ScanInv, TableInv, TypeOK, VectorsAgree
<1>3. CASE Keeps
  <2>1. /\ pollables' = pollables /\ unopened' = {}
        /\ \A i \in 1 .. Len(pollables) : pfds'[i].revents = pfds[i].revents
    BY <1>2, <1>3 DEF Keeps, ScanInv
  <2>2. CASE UNCHANGED <<pos, turn>>
    <3>1. \A i \in pos .. Len(pollables) : i \in 1 .. Len(pollables)
      BY <1>2 DEF ScanInv, TableInv, TypeOK
    <3>2. NobodySkipped'
      BY <2>1, <2>2, <3>1 DEF ScanInv, NobodySkipped
    <3>3. QED
      BY <1>1, <2>1, <2>2, <3>2 DEF ScanInv
  <2>3. CASE pos \in DOMAIN pollables /\ Advance
    <3>1. NobodySkipped' /\ pos' <= Len(pollables') + 1
      BY <1>1, <1>2, <2>1, <2>3, SkipAdvance
    <3>2. QED
      BY <1>1, <2>1, <3>1 DEF ScanInv
  <2>4. QED
    BY <1>3, <2>2, <2>3 DEF Keeps
<1>4. CASE Poll
  <2>1. /\ pos' = 1 /\ turn' = Occupants(pollables) /\ pollables' = pollables
        /\ unopened' = {}
    BY <1>4 DEF Poll, Live, ScanInv
  <2>2. NobodySkipped' /\ pos' <= Len(pollables') + 1
    BY <1>2, <2>1 DEF NobodySkipped, Occupants
  <2>3. QED
    BY <1>1, <2>1, <2>2 DEF ScanInv
<1>5. CASE Adds
  <2>1. PICK o \in Objects \ Live, fd \in Objects \cup {NoFd}, e \in Events, base \in Seq(Pfd) :
          /\ Len(base) = Len(pfds)
          /\ \A i \in DOMAIN pfds : base[i].revents = pfds[i].revents
          /\ Enlist(o, fd, e, base)
          /\ unopened' = unopened
    BY <1>5 DEF Adds
  <2>2. /\ pollables \in Seq(Objects)
        /\ NewPfd(fd, e) \in Pfd
    BY DEF ScanInv, TableInv, TypeOK, NewPfd, Pfd, Revents
  <2>3. /\ Len(pollables') = Len(pollables) + 1
        /\ \A i \in 1 .. Len(pollables) : pollables'[i] = pollables[i]
    BY <2>1, <2>2, AppendOccupants DEF Enlist
  <2>4. /\ \A i \in 1 .. Len(pollables) : pfds'[i].revents = pfds[i].revents
        /\ pfds'[Len(pollables) + 1].revents = "none"
    <3>1. /\ \A i \in 1 .. Len(base) : pfds'[i] = base[i]
          /\ pfds'[Len(base) + 1] = NewPfd(fd, e)
      BY <2>1, <2>2, AppendOccupants DEF Enlist
    <3>2. QED
      BY <1>2, <2>1, <3>1 DEF NewPfd
  <2>5. \A i \in 1 .. Len(pollables') : i > Len(pollables) => pfds'[i].revents = "none"
    <3>1. \A i \in 1 .. Len(pollables') : i > Len(pollables) => i = Len(pollables) + 1
      BY <1>2, <2>3
    <3>2. QED
      BY <2>4, <3>1
  <2>6. NobodySkipped' /\ pos' <= Len(pollables') + 1
    <3>1. Len(pollables') >= Len(pollables) /\ pos \in DOMAIN pollables /\ Advance
      BY <1>2, <1>5, <2>3 DEF Adds
    <3>2. QED
      BY <1>1, <2>3, <2>4, <2>5, <3>1, SkipAdvance
  <2>7. QED
    BY <1>1, <2>1, <2>6 DEF ScanInv
<1>6. CASE Removes
  BY <1>1, <1>6, SkipRemove DEF Removes, ScanInv
<1>7. QED
  BY <1>3, <1>4, <1>5, <1>6, StepKinds DEF ScanInv

LEMMA InitScan == Init => ScanInv
<1> SUFFICES ASSUME Init PROVE ScanInv
  OBVIOUS
<1>1. TableInv
  BY InitTable
<1>2. Len(pollables) \in Nat
  BY <1>1 DEF TableInv, TypeOK
<1>3. pos = Len(pollables) + 1 /\ turn = {} /\ unopened = {}
  BY DEF Init
<1>4. QED
  BY <1>1, <1>2, <1>3 DEF ScanInv, NobodySkipped

(***************************************************************************)
(* A scan of Server::run passes over nobody it polled, although visits     *)
(* remove slots under it and push new ones: the exchange with the back and *)
(* the --i of the loop cancel out.                                         *)
(***************************************************************************)
THEOREM ScanIsComplete ==
  ASSUME OpenFails = FALSE
  PROVE  Spec => []NobodySkipped
<1>1. ScanInv /\ [Next]_vars => ScanInv'
  BY ScanStep
<1>2. ScanInv => NobodySkipped
  BY DEF ScanInv
<1>3. QED
  BY InitScan, <1>1, <1>2, PTL DEF Spec

(***************************************************************************)
(* Server::remove deletes the object it was asked to remove, and that one  *)
(* was closed or timed out.                                                *)
(***************************************************************************)
THEOREM RemovalIsRight ==
  ASSUME OpenFails = FALSE
  PROVE  Spec => OnlyTheClosedLeave
<1> DEFINE Right == \A o \in Live \ Occupants(pollables') : Gone(o) /\ pollables[pos] = o
<1>1. ScanInv /\ [Next]_vars => ScanInv'
  BY ScanStep
<1>2. ScanInv /\ [Next]_vars => [Right]_vars
  <2> SUFFICES ASSUME ScanInv, [Next]_vars PROVE Right
    OBVIOUS
  <2>1. CASE Keeps \/ Poll
    BY <2>1 DEF Keeps, Poll, Live
  <2>2. CASE Adds
    <3>1. PICK o \in Objects : pollables' = Append(pollables, o)
      BY <2>2 DEF Adds, Enlist
    <3>2. QED
      BY <3>1, AppendOccupants DEF Live, ScanInv, TableInv, TypeOK
  <2>3. CASE Removes
    <3>1. Live' = Live \ {Deleted} /\ pos \in DOMAIN pollables
      BY <2>3, AgreeRemove DEF Removes, ScanInv
    <3>2. Occupants(pollables') = Live \ {pollables[pos]}
      BY <3>1, DeletedIsVisited DEF ScanInv, Live
    <3>3. QED
      BY <2>3, <3>2 DEF Removes
  <2>4. QED
    BY <2>1, <2>2, <2>3, StepKinds DEF ScanInv
<1>3. QED
  BY InitScan, <1>1, <1>2, PTL DEF Spec, OnlyTheClosedLeave

=============================================================================
