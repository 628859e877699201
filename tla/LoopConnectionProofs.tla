------------------------- MODULE LoopConnectionProofs -------------------------
(***************************************************************************)
(* Proofs that a connection on its way to an answer is not lost by         *)
(* Server::run, and is not deleted before the last use of a pointer to it. *)
(* As for the scan, open() of a CGI output is taken to succeed.            *)
(***************************************************************************)
EXTENDS ServerLoopProofs

\* The events asked for in the slot of an object.
EventsOf(o) == pfds[index[o]].events

\* The events poll() returned for it.
ReturnedTo(o) == pfds[index[o]].revents

-----------------------------------------------------------------------------
(***************************************************************************)
(* The events of every object after an edit of the table.                  *)
(***************************************************************************)

\* What the table says of an object in it.
LEMMA SlotOf ==
  ASSUME TableInv, NEW o \in Live
  PROVE  /\ index[o] \in 1 .. Len(pollables) /\ pollables[index[o]] = o
         /\ index[o] \in DOMAIN pfds /\ pfds[index[o]] \in Pfd
         /\ o \in Objects
<1>1. /\ pollables \in Seq(Objects) /\ pfds \in Seq(Pfd)
      /\ Len(pfds) = Len(pollables) /\ Len(pollables) \in Nat
      /\ DOMAIN pollables = 1 .. Len(pollables) /\ DOMAIN pfds = 1 .. Len(pollables)
  BY DEF TableInv, TypeOK, VectorsAgree
<1>2. PICK i \in 1 .. Len(pollables) : pollables[i] = o
  BY <1>1 DEF Live, Occupants
<1>3. index[o] = i
  BY <1>1, <1>2 DEF TableInv, VectorsAgree
<1>4. QED
  BY <1>1, <1>2, <1>3

LEMMA SlotsDiffer ==
  ASSUME TableInv, NEW o \in Live, NEW x \in Live, x # o
  PROVE  index[x] # index[o]
BY SlotOf

\* Setting the events of an object in the table sets no other's.
LEMMA EventsSet ==
  ASSUME TableInv, NEW c \in Live, NEW e \in Events
  PROVE  \A x \in Live : SetEvents(c, e)[index[x]].events =
                           IF x = c THEN e ELSE EventsOf(x)
<1> SUFFICES ASSUME NEW x \in Live
             PROVE  SetEvents(c, e)[index[x]].events = IF x = c THEN e ELSE EventsOf(x)
  OBVIOUS
<1> DEFINE k == index[c]
<1>1. SetEvents(c, e) = [pfds EXCEPT ![k] = [pfds[k] EXCEPT !.events = e]]
  BY DEF SetEvents
<1>2. k \in DOMAIN pfds /\ pfds[k] \in Pfd /\ index[x] \in DOMAIN pfds
  BY SlotOf
<1>3. CASE x = c
  <2>1. SetEvents(c, e)[k] = [pfds[k] EXCEPT !.events = e]
    BY <1>1, <1>2
  <2>2. QED
    BY <1>2, <1>3, <2>1 DEF Pfd
<1>4. CASE x # c
  <2>1. index[x] # k
    BY <1>4, SlotsDiffer
  <2>2. QED
    BY <1>1, <1>2, <1>4, <2>1 DEF EventsOf
<1>5. QED
  BY <1>3, <1>4

\* push_back gives the newcomer its slot and leaves the slots before it.
LEMMA SlotEnlist ==
  ASSUME TableInv, NEW o \in Objects \ Live, NEW fd \in Objects \cup {NoFd},
         NEW e \in Events, NEW base \in Seq(Pfd), Len(base) = Len(pfds),
         Enlist(o, fd, e, base)
  PROVE  /\ Live' = Live \cup {o}
         /\ pfds'[index'[o]] = NewPfd(fd, e)
         /\ \A x \in Live : pfds'[index'[x]] = base[index[x]]
<1> DEFINE n == Len(pfds)
<1>1. /\ pollables \in Seq(Objects) /\ n \in Nat /\ index \in [Objects -> Nat]
      /\ NewPfd(fd, e) \in Pfd
  BY DEF TableInv, TypeOK, NewPfd, Pfd, Revents
<1>2. Live' = Live \cup {o}
  BY <1>1, AppendOccupants DEF Enlist, Live
<1>3. /\ pfds'[n + 1] = NewPfd(fd, e)
      /\ \A i \in 1 .. n : pfds'[i] = base[i]
  <2>1. Len(base) = n /\ pfds' = Append(base, NewPfd(fd, e))
    BY DEF Enlist
  <2>2. QED
    BY <1>1, <2>1, AppendOccupants
<1>4. index'[o] = n + 1
  BY <1>1 DEF Enlist
<1>5. ASSUME NEW x \in Live PROVE pfds'[index'[x]] = base[index[x]]
  <2>1. index'[x] = index[x]
    BY <1>1, SlotOf DEF Enlist
  <2>2. index[x] \in 1 .. n
    BY SlotOf DEF TableInv, VectorsAgree
  <2>3. QED
    BY <1>3, <2>1, <2>2
<1>6. QED
  BY <1>2, <1>3, <1>4, <1>5

\* Server::remove leaves every other object its pollfd.
LEMMA SlotRemove ==
  ASSUME ScanInv, pos \in DOMAIN pollables, NEW freed, Remove(freed)
  PROVE  /\ Live' = Live \ {pollables[pos]}
         /\ \A x \in Live' : pfds'[index'[x]] = pfds[index[x]]
<1> DEFINE n == Len(pollables)
           o == pollables[pos]
<1>1. /\ n \in Nat /\ pos \in 1 .. n /\ n \in 1 .. n /\ n > 0
      /\ pollables \in Seq(Objects) /\ pfds \in Seq(Pfd) /\ Len(pfds) = n
      /\ TableInv
  BY DEF ScanInv, TableInv, TypeOK, VectorsAgree
<1>2. Deleted = o /\ (~Swaps => pos = n)
  BY DeletedIsVisited DEF ScanInv
<1>3. Live' = Live \ {o}
  BY <1>1, <1>2, AgreeRemove
<1>4. \A j \in 1 .. n - 1 : pfds'[j] = IF j = pos THEN pfds[n] ELSE pfds[j]
  <2>1. CASE Swaps
    <3>1. pos \in 1 .. Len(pfds) /\ pfds' = SwapPop(pfds, pos)
      BY <1>1, <2>1 DEF Remove
    <3>2. \A j \in 1 .. Len(pfds) - 1 :
            SwapPop(pfds, pos)[j] = IF j = pos THEN pfds[Len(pfds)] ELSE pfds[j]
      BY <1>1, <3>1, SwapPopShape
    <3>3. QED
      BY <1>1, <3>1, <3>2
  <2>2. CASE ~Swaps
    <3>1. pfds' = PopBack(pfds) /\ pos = n /\ Len(pfds) > 0
      BY <1>1, <1>2, <2>2 DEF Remove
    <3>2. \A j \in 1 .. Len(pfds) - 1 : PopBack(pfds)[j] = pfds[j]
      BY <1>1, <3>1, PopBackShape
    <3>3. QED
      BY <1>1, <3>1, <3>2
  <2>3. QED
    BY <2>1, <2>2
<1>5. ASSUME NEW x \in Live \ {o} PROVE pfds'[index'[x]] = pfds[index[x]]
  <2>1. /\ x \in Objects /\ index[x] \in 1 .. n /\ pollables[index[x]] = x
        /\ index[x] # pos
    BY <1>1, <1>5, SlotOf
  <2>2. index'[x] = IF Swaps /\ x = pollables[n] THEN pos ELSE index[x]
    BY <1>1, <1>2, <1>5, <2>1 DEF Remove, Reindexed, Last1
  <2>3. CASE x = pollables[n]
    <3>1. index[x] = n /\ pos # n
      BY <1>1, <2>1, <2>3 DEF TableInv, VectorsAgree, NoRepeat
    <3>2. Swaps /\ index'[x] = pos /\ pos \in 1 .. n - 1
      BY <1>1, <1>2, <2>2, <2>3, <3>1
    <3>3. QED
      BY <1>4, <3>1, <3>2
  <2>4. CASE x # pollables[n]
    <3>1. index'[x] = index[x] /\ index[x] \in 1 .. n - 1
      BY <1>1, <2>1, <2>2, <2>4
    <3>2. QED
      BY <1>4, <2>1, <3>1
  <2>5. QED
    BY <2>3, <2>4
<1>6. QED
  BY <1>3, <1>5

-----------------------------------------------------------------------------
(***************************************************************************)
(* A connection one file or script works for stays on hold until that one  *)
(* is done, unless its peer reset it with bytes still unread: POLLHUP then *)
(* has respond() called again while the worker is busy.                    *)
(***************************************************************************)

\* Worker w is busy for connection c.
Busy(w, c) == w \in Live \cap Workers /\ owner[w] = c /\ ~closed[w]

\* Every worker was made for a connection.
HaveOwners == \A w \in Live \cap Workers : owner[w] \in Clients

\* A connection that did not break with bytes unread.
Intact(c) == "residue" \notin Breaks \/ (c \in Live /\ conn[c] # "residue")

\* Peers break their connections as Breaks says.
ResidueIsAllowed == "residue" \notin Breaks => \A c \in Clients : conn[c] # "residue"

OneWhileIntact ==
  \A v, w \in Live \cap Workers :
    owner[v] = owner[w] /\ Intact(owner[v]) /\ ~closed[v] /\ ~closed[w] => v = w

\* A connection a worker is busy for is on hold, and if poll() returned an
\* event for it nonetheless, the connection is broken and recv() fails.
OnHold(c) ==
  /\ EventsOf(c) = "hold"
  /\ c \in turn /\ ReturnedTo(c) # "none" =>
       \/ ReturnedTo(c) = "in" /\ conn[c] = "reset"
       \/ ReturnedTo(c) = "err" /\ conn[c] = "error"

HeldWhileIntact ==
  \A c \in Live \cap Clients :
    ~closed[c] /\ conn[c] # "residue" /\ (\E w \in Workers : Busy(w, c)) => OnHold(c)

\* The inductive invariant.
TeamInv == OneWhileIntact /\ HaveOwners /\ ResidueIsAllowed /\ HeldWhileIntact

\* The object being visited is in the table, and open if it is served.
LEMMA Visited ==
  ASSUME NEW o, At(o)
  PROVE  o \in Live /\ pos \in DOMAIN pollables /\ pollables[pos] = o
BY DEF At, Live, Occupants

-----------------------------------------------------------------------------
(***************************************************************************)
(* The invariant through the kinds of steps.                               *)
(***************************************************************************)

\* What a step that neither adds nor removes may do to connection x.
KeepsWork(x) ==
  ~closed'[x] /\ conn'[x] # "residue" =>
    \/ \A w \in Live \cap Workers : owner[w] = x => closed'[w]
    \/ /\ ~closed[x]
       /\ EventsOf(x)' = EventsOf(x) /\ ReturnedTo(x)' = ReturnedTo(x)

LEMMA WorkSameObjects ==
  ASSUME TeamInv, Live' = Live, owner' = owner, turn' \subseteq turn,
         ResidueIsAllowed',
         \A x \in Clients : conn[x] \in {"reset", "residue", "error"} => conn'[x] = conn[x],
         \A w \in Live \cap Workers : closed[w] => closed'[w],
         \A x \in Live \cap Clients : KeepsWork(x)
  PROVE  TeamInv'
<1>1. HaveOwners' /\ \A w \in Live \cap Workers : Intact(owner[w])' => Intact(owner[w])
  BY DEF TeamInv, HaveOwners, Intact
<1>2. OneWhileIntact'
  BY <1>1 DEF TeamInv, OneWhileIntact
<1>3. HeldWhileIntact'
  <2>1. SUFFICES ASSUME NEW x \in Live \cap Clients, ~closed'[x], conn'[x] # "residue",
                        NEW w \in Workers, Busy(w, x)'
                 PROVE  OnHold(x)'
    BY DEF HeldWhileIntact
  <2>2. Busy(w, x) /\ ~closed'[w]
    BY <2>1 DEF Busy
  <2>3. ~closed[x] /\ EventsOf(x)' = EventsOf(x) /\ ReturnedTo(x)' = ReturnedTo(x)
    BY <2>1, <2>2 DEF KeepsWork, Busy
  <2>4. OnHold(x)
    BY <2>1, <2>2, <2>3 DEF TeamInv, HeldWhileIntact
  <2>5. QED
    BY <2>3, <2>4 DEF OnHold
<1>4. QED
  BY <1>1, <1>2, <1>3 DEF TeamInv

\* A connection is accepted at an address nobody uses.
LEMMA WorkAccept ==
  ASSUME TableInv, TeamInv, NEW c \in Clients, Free(c), Enlist(c, c, "in", pfds),
         UNCHANGED <<owner, closed, conn>>, turn' \subseteq turn
  PROVE  TeamInv'
<1>1. /\ c \in Objects \ Live /\ c \notin Workers /\ pfds \in Seq(Pfd) /\ "in" \in Events
  BY LoopAssumption
  DEF LoopAssumption, Objects, Sessions, Workers, TableInv, TypeOK, Events, Free
<1>2. /\ Live' = Live \cup {c}
      /\ \A x \in Live : pfds'[index'[x]] = pfds[index[x]]
  BY <1>1, SlotEnlist
<1>3. \A w \in Workers : w \in Live' => w \in Live
  BY <1>1, <1>2
<1>4. OneWhileIntact' /\ HaveOwners' /\ ResidueIsAllowed'
  <2>1. HaveOwners' /\ ResidueIsAllowed'
    BY <1>3 DEF TeamInv, HaveOwners, ResidueIsAllowed
  <2>2. \A w \in Live' \cap Workers : Intact(owner[w])' => Intact(owner[w])
    BY <1>2, <1>3 DEF Intact, Free
  <2>3. QED
    BY <1>3, <2>1, <2>2 DEF TeamInv, OneWhileIntact
<1>5. HeldWhileIntact'
  <2>1. SUFFICES ASSUME NEW x \in Live' \cap Clients, ~closed[x], conn[x] # "residue",
                        NEW w \in Workers, Busy(w, x)'
                 PROVE  OnHold(x)'
    BY DEF HeldWhileIntact
  <2>2. Busy(w, x) /\ x # c
    BY <1>3, <2>1 DEF Busy, Free
  <2>3. x \in Live /\ OnHold(x)
    BY <1>2, <2>1, <2>2 DEF TeamInv, HeldWhileIntact
  <2>4. QED
    BY <1>2, <2>3 DEF OnHold, EventsOf, ReturnedTo
<1>6. QED
  BY <1>4, <1>5 DEF TeamInv

\* No worker is busy for connection c.
IdleFor(c) == \A v \in Live \cap Workers : owner[v] = c => closed[v]

\* A worker is pushed back for the connection being visited, which nobody works for.
LEMMA WorkHires ==
  ASSUME TableInv, TeamInv, NEW c \in Clients \cap Live, NEW w \in Workers \ Live,
         NEW fd \in Objects \cup {NoFd}, NEW e \in Events,
         Enlist(w, fd, e, SetEvents(c, "hold")),
         owner' = [owner EXCEPT ![w] = c],
         conn[c] # "residue" => IdleFor(c),
         \A o \in Objects : o # c => closed'[o] = closed[o],
         closed'[c] \/ ~closed[c],
         conn' = conn, turn' \subseteq turn \ {c}
  PROVE  TeamInv'
<1>1. /\ w \in Objects /\ w \notin Clients /\ Workers \subseteq Objects
      /\ Clients \subseteq Objects /\ Workers \cap Clients = {}
      /\ owner \in [Workers -> Clients \cup {Null}] /\ "hold" \in Events
  BY LoopAssumption
  DEF LoopAssumption, Objects, Sessions, Workers, TableInv, TypeOK, Events
<1>2. /\ SetEvents(c, "hold") \in Seq(Pfd) /\ Len(SetEvents(c, "hold")) = Len(pfds)
      /\ \A i \in DOMAIN pfds : SetEvents(c, "hold")[i].revents = pfds[i].revents
  BY <1>1, SetEventsShape DEF TableInv
<1>3. /\ Live' = Live \cup {w}
      /\ \A x \in Live : pfds'[index'[x]] = SetEvents(c, "hold")[index[x]]
  BY <1>1, <1>2, SlotEnlist
<1>4. \A x \in Live : /\ EventsOf(x)' = IF x = c THEN "hold" ELSE EventsOf(x)
                      /\ ReturnedTo(x)' = ReturnedTo(x)
  <2>1. \A x \in Live : index[x] \in DOMAIN pfds
    BY SlotOf
  <2>2. QED
    BY <1>1, <1>2, <1>3, <2>1, EventsSet DEF EventsOf, ReturnedTo
<1>5. /\ \A v \in Live' \cap Workers : v = w \/ (v \in Live /\ owner'[v] = owner[v])
      /\ owner'[w] = c
      /\ \A v \in Workers : closed'[v] = closed[v]
  BY <1>1, <1>3
<1>6. OneWhileIntact' /\ HaveOwners' /\ ResidueIsAllowed'
  <2>1. HaveOwners' /\ ResidueIsAllowed'
    BY <1>5 DEF TeamInv, HaveOwners, ResidueIsAllowed
  <2>2. SUFFICES ASSUME NEW u \in Live' \cap Workers, NEW v \in Live' \cap Workers,
                        owner'[u] = owner'[v], Intact(owner[u])',
                        ~closed'[u], ~closed'[v]
                 PROVE  u = v
    BY <2>1 DEF OneWhileIntact, Intact
  <2>3. Intact(c)' => \A x \in Live \cap Workers : owner[x] = c => closed[x]
    BY DEF Intact, TeamInv, ResidueIsAllowed, IdleFor
  <2>4. \A x \in Live : Intact(x)' => Intact(x)
    BY DEF Intact
  <2>5. \A x \in Clients : x # c /\ Intact(x)' => Intact(x)
    BY <1>1, <1>3 DEF Intact
  <2>6. CASE u = w
    <3>1. Intact(c)' /\ owner'[v] = c
      BY <1>5, <2>2, <2>6 DEF Intact
    <3>2. QED
      BY <1>5, <2>2, <2>3, <2>6, <3>1
  <2>7. CASE v = w
    <3>1. Intact(c)' /\ owner'[u] = c
      BY <1>5, <2>2, <2>7 DEF Intact
    <3>2. QED
      BY <1>5, <2>2, <2>3, <2>7, <3>1
  <2>8. CASE u # w /\ v # w
    <3>1. /\ u \in Live /\ v \in Live /\ owner[u] = owner[v]
          /\ ~closed[u] /\ ~closed[v] /\ owner[u] \in Clients
          /\ Intact(owner[u])'
      BY <1>5, <2>2, <2>8 DEF TeamInv, HaveOwners, Intact
    <3>2. Intact(owner[u])
      BY <2>4, <2>5, <3>1
    <3>3. QED
      BY <2>2, <3>1, <3>2 DEF TeamInv, OneWhileIntact
  <2>9. QED
    BY <2>6, <2>7, <2>8
<1>7. HeldWhileIntact'
  <2>1. SUFFICES ASSUME NEW x \in Live' \cap Clients, ~closed'[x], conn'[x] # "residue",
                        NEW v \in Workers, Busy(v, x)'
                 PROVE  OnHold(x)'
    BY DEF HeldWhileIntact
  <2>2. x \in Live
    BY <1>1, <1>3
  <2>3. CASE x = c
    BY <1>4, <2>2, <2>3 DEF OnHold
  <2>4. CASE x # c
    <3>1. Busy(v, x) /\ ~closed[x]
      BY <1>1, <1>5, <2>1, <2>4 DEF Busy
    <3>2. OnHold(x)
      BY <2>1, <2>2, <3>1 DEF TeamInv, HeldWhileIntact
    <3>3. QED
      BY <1>4, <2>2, <2>4, <3>2 DEF OnHold
  <2>5. QED
    BY <2>3, <2>4
<1>8. QED
  BY <1>6, <1>7 DEF TeamInv

\* An object is removed.
LEMMA WorkRemove ==
  ASSUME ScanInv, TeamInv, pos \in DOMAIN pollables, NEW freed, Remove(freed)
  PROVE  TeamInv'
<1> DEFINE o == pollables[pos]
<1>1. /\ Clients \subseteq Objects /\ Workers \subseteq Objects
      /\ closed \in [Objects -> BOOLEAN] /\ o \in Objects
  BY DEF ScanInv, TableInv, TypeOK, Objects, Sessions, Workers
<1>2. Deleted = o
  BY DeletedIsVisited DEF ScanInv
<1>3. /\ Live' = Live \ {o}
      /\ \A x \in Live' : pfds'[index'[x]] = pfds[index[x]]
  BY SlotRemove
<1>4. /\ \A x \in Objects : x # o => closed'[x] = closed[x]
      /\ \A x \in Workers : x # o => owner'[x] = owner[x]
      /\ \A x \in Clients : conn'[x] = IF x = o THEN "open" ELSE conn[x]
      /\ turn' \subseteq turn
  BY <1>1, <1>2 DEF Remove
<1> HIDE DEF o
<1>5. OneWhileIntact' /\ HaveOwners' /\ ResidueIsAllowed'
  <2>1. /\ HaveOwners' /\ ResidueIsAllowed'
        /\ \A w \in Live' \cap Workers : /\ w \in Live /\ owner'[w] = owner[w]
                                         /\ owner[w] \in Clients /\ closed'[w] = closed[w]
    BY <1>1, <1>3, <1>4 DEF TeamInv, HaveOwners, ResidueIsAllowed
  <2>2. \A x \in Clients : Intact(x)' => Intact(x)
    BY <1>3, <1>4 DEF Intact
  <2>3. QED
    BY <2>1, <2>2 DEF TeamInv, OneWhileIntact
<1>6. HeldWhileIntact'
  <2>1. SUFFICES ASSUME NEW x \in Live' \cap Clients, ~closed'[x], conn'[x] # "residue",
                        NEW w \in Workers, Busy(w, x)'
                 PROVE  OnHold(x)'
    BY DEF HeldWhileIntact
  <2>2. x # o /\ x \in Live /\ ~closed[x] /\ conn'[x] = conn[x] /\ Busy(w, x)
    BY <1>1, <1>3, <1>4, <2>1 DEF Busy
  <2>3. OnHold(x)
    BY <2>1, <2>2 DEF TeamInv, HeldWhileIntact
  <2>4. QED
    BY <1>3, <1>4, <2>1, <2>2, <2>3 DEF OnHold, EventsOf, ReturnedTo
<1>7. QED
  BY <1>5, <1>6 DEF TeamInv

\* poll() returns an event for a slot on hold only if the connection is broken.
LEMMA WorkPoll ==
  ASSUME ScanInv, TeamInv, Poll
  PROVE  TeamInv'
<1>1. PICK ready \in SUBSET DOMAIN pfds :
        pfds' = [i \in DOMAIN pfds |->
                   [pfds[i] EXCEPT !.revents =
                      IF i \in ready THEN Reported(i) ELSE "none"]]
  BY DEF Poll
<1>2. Live' = Live /\ UNCHANGED <<index, owner, closed, conn>>
  BY DEF Poll, Live, Occupants
<1>3. OneWhileIntact' /\ HaveOwners' /\ ResidueIsAllowed'
  BY <1>2 DEF TeamInv, OneWhileIntact, HaveOwners, ResidueIsAllowed, Intact
<1>4. HeldWhileIntact'
  <2>1. SUFFICES ASSUME NEW x \in Live \cap Clients, ~closed[x], conn[x] # "residue",
                        NEW w \in Workers, Busy(w, x)'
                 PROVE  OnHold(x)'
    BY <1>2 DEF HeldWhileIntact
  <2>2. OnHold(x) /\ conn[x] # "residue"
    BY <1>2, <2>1 DEF TeamInv, HeldWhileIntact, Busy
  <2> DEFINE i == index[x]
  <2>3. i \in DOMAIN pfds /\ pfds[i] \in Pfd /\ pollables[i] = x
    BY SlotOf DEF ScanInv
  <2>4. /\ pfds'[i].events = pfds[i].events
        /\ pfds'[i].revents = IF i \in ready THEN Reported(i) ELSE "none"
    BY <1>1, <2>3 DEF Pfd
  <2>5. pfds[i].events = "hold"
    BY <2>2 DEF OnHold, EventsOf
  <2>6. \/ Reported(i) = "in" /\ conn[x] = "reset"
        \/ Reported(i) = "err" /\ conn[x] = "error"
        \/ Reported(i) = "none"
    BY <2>2, <2>3, <2>5 DEF Reported, Broken
  <2>7. QED
    BY <1>2, <2>4, <2>5, <2>6 DEF OnHold, EventsOf, ReturnedTo
<1>5. QED
  BY <1>3, <1>4 DEF TeamInv

-----------------------------------------------------------------------------
(***************************************************************************)
(* Every step keeps the invariant.                                         *)
(***************************************************************************)

\* A connection that gets bytes, a FIN or room to send has nobody at work for it,
\* unless it broke with bytes unread.
LEMMA ServedIsIdle ==
  ASSUME ScanInv, TeamInv, NEW c \in Clients,
         \/ \E b \in BOOLEAN : Receives(c, b)
         \/ Serve(c, "out")
  PROVE  /\ c \in Live /\ ~closed[c]
         /\ conn[c] # "residue" => IdleFor(c)
<1>1. /\ c \in Live /\ pos \in DOMAIN pollables /\ pollables[pos] = c /\ ~closed[c]
      /\ pfds[pos].revents \in {"in", "out"}
      /\ pfds[pos].revents = "in" => conn[c] # "reset"
  BY Visited DEF Receives, Serve, Gone
<1>2. /\ index[c] = pos /\ pos \in pos .. Len(pollables)
  <2>1. DOMAIN pollables = 1 .. Len(pollables) /\ Len(pollables) \in Nat
    BY DEF ScanInv, TableInv, TypeOK
  <2>2. index[pollables[pos]] = pos
    BY <1>1 DEF ScanInv, TableInv, VectorsAgree
  <2>3. QED
    BY <1>1, <2>1, <2>2
<1>3. c \in turn
  BY <1>1, <1>2 DEF ScanInv, NobodySkipped
<1>4. ~OnHold(c)
  BY <1>1, <1>2, <1>3 DEF OnHold, ReturnedTo
<1>5. QED
  BY <1>1, <1>4 DEF TeamInv, HeldWhileIntact, Busy, IdleFor

\* Steps that leave the table, the owners and the workers alone.
LEMMA WorkSameTable ==
  ASSUME TeamInv, UNCHANGED table, owner' = owner, turn' \subseteq turn,
         ResidueIsAllowed',
         \A x \in Clients : conn[x] \in {"reset", "residue", "error"} => conn'[x] = conn[x],
         \A w \in Live \cap Workers : closed[w] => closed'[w],
         \A x \in Live \cap Clients :
           \/ closed[x] => closed'[x]
           \/ \A w \in Live \cap Workers : owner[w] = x => closed'[w]
  PROVE  TeamInv'
<1>1. /\ Live' = Live
      /\ \A x \in Live : EventsOf(x)' = EventsOf(x) /\ ReturnedTo(x)' = ReturnedTo(x)
  BY DEF Live, Occupants, EventsOf, ReturnedTo, table
<1>2. \A x \in Live \cap Clients : KeepsWork(x)
  BY <1>1 DEF KeepsWork
<1>3. QED
  BY <1>1, <1>2, WorkSameObjects

\* Steps that set the events of one connection nobody is at work for any more.
LEMMA WorkOneClient ==
  ASSUME ScanInv, TeamInv, NEW c \in Clients \cap Live, NEW e \in Events,
         pfds' = SetEvents(c, e), UNCHANGED <<pollables, index, owner, conn>>,
         turn' \subseteq turn,
         \A w \in Live \cap Workers : closed[w] => closed'[w],
         conn[c] # "residue" => \A w \in Live \cap Workers : owner[w] = c => closed'[w],
         \A x \in Live \cap Clients : x # c => closed'[x] = closed[x]
  PROVE  TeamInv'
<1>1. TableInv
  BY DEF ScanInv
<1>2. Live' = Live
  BY DEF Live, Occupants
<1>3. ASSUME NEW x \in Live, x # c
      PROVE  EventsOf(x)' = EventsOf(x) /\ ReturnedTo(x)' = ReturnedTo(x)
  <2>1. index[x] \in DOMAIN pfds
    BY <1>1, SlotOf
  <2>2. SetEvents(c, e)[index[x]].revents = pfds[index[x]].revents
    BY <1>1, <2>1, SetEventsShape DEF TableInv
  <2>3. SetEvents(c, e)[index[x]].events = EventsOf(x)
    BY <1>1, <1>3, EventsSet
  <2>4. QED
    BY <2>2, <2>3 DEF EventsOf, ReturnedTo
<1>4. \A x \in Live \cap Clients : KeepsWork(x)
  BY <1>3 DEF KeepsWork
<1>5. ResidueIsAllowed'
  BY DEF TeamInv, ResidueIsAllowed
<1>6. QED
  BY <1>2, <1>4, <1>5, WorkSameObjects

\* The visits to a connection.
LEMMA WorkClient ==
  ASSUME OpenFails = FALSE, ScanInv, TeamInv, NEW c \in Clients, VisitClient(c)
  PROVE  TeamInv'
<1>1. /\ "in" \in Events /\ "out" \in Events /\ "hold" \in Events
      /\ closed \in [Objects -> BOOLEAN] /\ c \in Objects /\ c \notin Workers
      /\ Workers \subseteq Objects /\ Clients \subseteq Objects
      /\ Workers \cap Clients = {} /\ TableInv
  BY LoopAssumption
  DEF LoopAssumption, Events, ScanInv, TableInv, TypeOK, Objects, Sessions, Workers
<1>2. conn' = conn => ResidueIsAllowed'
  BY DEF TeamInv, ResidueIsAllowed
<1>3. CASE RetireClient(c)
  BY <1>3, WorkRemove DEF RetireClient, At
<1>4. CASE \/ KeepForFile(c) \/ SocketError(c) \/ ReceiveFails(c) \/ SendFails(c)
           \/ Idle(c) \/ SendsPart(c)
  <2>1. /\ UNCHANGED <<table, owner, conn>> /\ turn' \subseteq turn
        /\ Close(c) \/ closed' = closed
    BY <1>4
    DEF KeepForFile, SocketError, ReceiveFails, SendFails, Idle, SendsPart, Advance
  <2>2. \A o \in Objects : closed[o] => closed'[o]
    BY <1>1, <2>1 DEF Close
  <2>3. QED
    BY <1>1, <1>2, <2>1, <2>2, WorkSameTable
<1>5. ASSUME NEW b \in BOOLEAN, Receives(c, b)
      PROVE  /\ c \in Live /\ ~closed[c] /\ conn' = conn
             /\ turn' \subseteq turn \ {c}
             /\ conn[c] # "residue" => IdleFor(c)
             /\ \A o \in Objects : o # c => closed'[o] = closed[o]
  <2>1. closed' = [closed EXCEPT ![c] = ~b] /\ conn' = conn /\ turn' \subseteq turn \ {c}
    BY <1>5 DEF Receives, Serve, At, Advance
  <2>2. QED
    BY <1>1, <1>5, <2>1, ServedIsIdle
<1>6. CASE NeedsMore(c)
  <2>1. UNCHANGED <<table, owner>> /\ \E b \in BOOLEAN : Receives(c, b)
    BY <1>6 DEF NeedsMore
  <2>2. \A o \in Objects : closed[o] => closed'[o]
    BY <1>5, <2>1
  <2>3. QED
    BY <1>1, <1>2, <1>5, <2>1, <2>2, WorkSameTable
<1>7. ASSUME NEW b \in BOOLEAN, Receives(c, b), NEW e \in Events,
             pfds' = SetEvents(c, e), UNCHANGED <<pollables, index, owner>>
      PROVE  TeamInv'
  <2>1. /\ \A w \in Live \cap Workers : closed[w] => closed'[w]
        /\ conn[c] # "residue" =>
             \A w \in Live \cap Workers : owner[w] = c => closed'[w]
        /\ \A x \in Live \cap Clients : x # c => closed'[x] = closed[x]
    BY <1>1, <1>5, <1>7 DEF IdleFor
  <2>2. QED
    BY <1>5, <1>7, <2>1, WorkOneClient
<1>8. CASE Refuses(c) \/ RepliesAtOnce(c) \/ NoReply(c)
  <2>1. /\ \E b \in BOOLEAN : Receives(c, b)
        /\ \E e \in Events : pfds' = SetEvents(c, e)
        /\ UNCHANGED <<pollables, index, owner>>
    BY <1>1, <1>8 DEF Refuses, RepliesAtOnce, NoReply, Dispatches, Answer
  <2>2. QED
    BY <1>7, <2>1
<1>9. ASSUME NEW w \in Workers \ Live, NEW e \in Events,
             Enlist(w, w, e, SetEvents(c, "hold")),
             owner' = [owner EXCEPT ![w] = c], Dispatches(c)
      PROVE  TeamInv'
  <2>1. PICK b \in BOOLEAN : Receives(c, b)
    BY <1>9 DEF Dispatches
  <2>2. w \in Objects \cup {NoFd}
    BY <1>1
  <2>3. QED
    BY <1>1, <1>5, <1>9, <2>1, <2>2, WorkHires
<1>10. CASE OpensFile(c)
  <2>1. PICK f \in Files, e \in {"in", "out"} :
          /\ Free(f)
          /\ Enlist(f, f, e, SetEvents(c, "hold"))
          /\ owner' = [owner EXCEPT ![f] = c]
    BY <1>10 DEF OpensFile
  <2>2. f \in Workers \ Live /\ e \in Events /\ Dispatches(c)
    BY <1>1, <1>10, <2>1 DEF Free, Workers, OpensFile
  <2>3. QED
    BY <1>9, <2>1, <2>2
<1>11. CASE StartsCgi(c)
  <2>1. PICK g \in Cgis, fails \in {FALSE, OpenFails} :
          /\ Free(g)
          /\ Enlist(g, IF fails THEN NoFd ELSE g, "in", SetEvents(c, "hold"))
          /\ owner' = [owner EXCEPT ![g] = c]
    BY <1>11 DEF StartsCgi, Executes
  <2>2. Enlist(g, g, "in", SetEvents(c, "hold"))
    BY <2>1
  <2>3. g \in Workers \ Live /\ Dispatches(c)
    BY <1>11, <2>1 DEF Free, Workers, StartsCgi
  <2>4. QED
    BY <1>1, <1>9, <2>1, <2>2, <2>3
<1>12. CASE SendsAll(c)
  <2>1. /\ c \in Live /\ ~closed[c]
        /\ conn[c] # "residue" => IdleFor(c)
    BY <1>12, ServedIsIdle DEF SendsAll
  <2>2. UNCHANGED <<pollables, index, owner, conn>> /\ turn' \subseteq turn
    BY <1>12 DEF SendsAll, Advance
  <2>3. CASE pfds' = pfds /\ Close(c)
    <3>1. \A o \in Objects : closed[o] => closed'[o]
      BY <1>1, <2>3 DEF Close
    <3>2. UNCHANGED table
      BY <2>2, <2>3 DEF table
    <3>3. QED
      BY <1>1, <1>2, <2>2, <3>1, <3>2, WorkSameTable
  <2>4. CASE pfds' = SetEvents(c, "in") /\ closed' = closed
    BY <1>1, <2>1, <2>2, <2>4, WorkOneClient DEF IdleFor
  <2>5. QED
    BY <1>12, <2>3, <2>4 DEF SendsAll
<1>13. QED
  BY <1>3, <1>4, <1>6, <1>8, <1>10, <1>11, <1>12
  DEF VisitClient, ClientPollin, ClientPollout

\* The visits to a listening socket.
LEMMA WorkListener ==
  ASSUME ScanInv, TeamInv, NEW s \in Listeners, VisitListener(s)
  PROVE  TeamInv'
<1>1. CASE Idle(s) \/ AcceptFails(s)
  <2>1. UNCHANGED <<table, owner, closed, conn>> /\ turn' \subseteq turn
    BY <1>1 DEF Idle, AcceptFails, Advance
  <2>2. QED
    BY <2>1, WorkSameTable DEF TeamInv, ResidueIsAllowed
<1>2. CASE Accept(s)
  <2>1. PICK c \in Clients : Free(c) /\ Enlist(c, c, "in", pfds)
    BY <1>2 DEF Accept
  <2>2. UNCHANGED <<owner, closed, conn>> /\ turn' \subseteq turn
    BY <1>2 DEF Accept, Advance
  <2>3. QED
    BY <2>1, <2>2, WorkAccept DEF ScanInv
<1>3. QED
  BY <1>1, <1>2 DEF VisitListener

\* The visits to a file or a CGI output.
LEMMA WorkWorker ==
  ASSUME ScanInv, TeamInv, NEW w \in Workers, VisitFile(w) \/ VisitCgi(w)
  PROVE  TeamInv'
<1>1. CASE RetireWorker(w)
  BY <1>1, WorkRemove DEF RetireWorker, At
<1>2. CASE \/ Idle(w) \/ UseAfterDelete(w) \/ FileProgress(w)
           \/ CgiReads(w) \/ CgiWaits(w)
  <2>1. UNCHANGED <<table, owner, closed, conn>> /\ turn' \subseteq turn
    BY <1>2 DEF Idle, UseAfterDelete, FileProgress, CgiReads, CgiWaits, Advance
  <2>2. QED
    BY <2>1, WorkSameTable DEF TeamInv, ResidueIsAllowed
<1>3. CASE Works(w) /\ Finishes(w)
  <2> DEFINE c == owner[w]
  <2>1. /\ w \in Live /\ c \in Live /\ ~closed[w] /\ c \in Clients
        /\ closed \in [Objects -> BOOLEAN] /\ "out" \in Events
        /\ Workers \subseteq Objects /\ Clients \subseteq Objects
        /\ Workers \cap Clients = {}
    BY <1>3, Visited, LoopAssumption
    DEF Works, Serve, Gone, TeamInv, HaveOwners, ScanInv, TableInv, TypeOK, Objects,
        Sessions, Events, LoopAssumption, Workers
  <2>2. /\ pfds' = SetEvents(c, "out") /\ UNCHANGED <<pollables, index, owner, conn>>
        /\ closed' = [closed EXCEPT ![w] = TRUE] /\ turn' \subseteq turn
    BY <1>3 DEF Finishes, Close, Advance
  <2>3. /\ \A v \in Live \cap Workers : closed[v] => closed'[v]
        /\ conn[c] # "residue" =>
             \A v \in Live \cap Workers : owner[v] = c => closed'[v]
    BY <2>1, <2>2 DEF TeamInv, OneWhileIntact, Intact
  <2>4. \A x \in Live \cap Clients : x # c => closed'[x] = closed[x]
    BY <2>1, <2>2
  <2>5. QED
    BY <2>1, <2>2, <2>3, <2>4, WorkOneClient
<1>4. QED
  BY <1>1, <1>2, <1>3 DEF VisitFile, VisitCgi, FileEnds, CgiEnds, CgiFails

LEMMA WorkStep ==
  ASSUME OpenFails = FALSE, ScanInv, TeamInv, [Next]_vars
  PROVE  TeamInv'
<1>1. CASE Tick \/ Halted \/ UNCHANGED vars
  <2>1. UNCHANGED <<table, owner, closed, conn>> /\ turn' \subseteq turn
    BY <1>1 DEF Tick, Halted, vars, scan
  <2>2. QED
    BY <2>1, WorkSameTable DEF TeamInv, ResidueIsAllowed
<1>2. CASE \E c \in Clients : PeerEnds(c)
  <2>1. PICK c \in Clients, k \in Breaks :
          /\ conn[c] \in {"open", "fin"}
          /\ conn' = [conn EXCEPT ![c] = k]
          /\ UNCHANGED <<table, scan, owner, closed>>
    BY <1>2 DEF PeerEnds
  <2>2. /\ ResidueIsAllowed'
        /\ \A x \in Clients : conn[x] \in {"reset", "residue", "error"} => conn'[x] = conn[x]
    BY <2>1 DEF TeamInv, ResidueIsAllowed, ScanInv, TableInv, TypeOK
  <2>3. turn' \subseteq turn
    BY <2>1 DEF scan
  <2>4. QED
    BY <2>1, <2>2, <2>3, WorkSameTable
<1>3. CASE Visit
  <2>1. Files \subseteq Workers /\ Cgis \subseteq Workers
    BY DEF Workers
  <2>2. QED
    BY <1>3, <2>1, WorkListener, WorkClient, WorkWorker DEF Visit
<1>4. QED
  BY <1>1, <1>2, <1>3, WorkPoll DEF Next

LEMMA InitWork == Init => TeamInv
<1> SUFFICES ASSUME Init PROVE TeamInv
  OBVIOUS
<1>1. Live \cap Workers = {}
  BY LoopAssumption DEF Init, LoopAssumption, Sessions
<1>2. \A c \in Clients : conn[c] = "open"
  BY DEF Init
<1>3. QED
  BY <1>1, <1>2 DEF TeamInv, OneWhileIntact, HaveOwners, ResidueIsAllowed, HeldWhileIntact, Busy

\* What the invariant says when no connection breaks with bytes unread.
BusyIsHeld ==
  \A c \in Live \cap Clients :
    ~closed[c] /\ (\E w \in Workers : Busy(w, c)) => OnHold(c)

WorkInv == OneWorker /\ HaveOwners /\ BusyIsHeld

LEMMA TeamWorks == "residue" \notin Breaks /\ TeamInv => WorkInv
<1> SUFFICES ASSUME "residue" \notin Breaks, TeamInv PROVE WorkInv
  OBVIOUS
<1>1. OneWorker
  BY DEF TeamInv, OneWhileIntact, Intact, OneWorker
<1>2. HaveOwners /\ BusyIsHeld
  BY DEF TeamInv, ResidueIsAllowed, HeldWhileIntact, BusyIsHeld
<1>3. QED
  BY <1>1, <1>2 DEF WorkInv

-----------------------------------------------------------------------------
(***************************************************************************)
(* No two files or scripts are at work for one connection: respond() puts  *)
(* the slot on hold (ClientFD::respond), POLLHUP is served with pollin()   *)
(* all the same (Server::run), and recv() on a broken connection fails     *)
(* before respond() is reached again, unless bytes are left to read.       *)
(***************************************************************************)
THEOREM WorkIsExclusive ==
  ASSUME OpenFails = FALSE, "residue" \notin Breaks
  PROVE  Spec => []OneWorker
<1>1. ScanInv /\ TeamInv /\ [Next]_vars => ScanInv' /\ TeamInv'
  BY ScanStep, WorkStep
<1>2. TeamInv => OneWorker
  BY TeamWorks DEF WorkInv
<1>3. QED
  BY InitScan, InitWork, <1>1, <1>2, PTL DEF Spec

-----------------------------------------------------------------------------
(***************************************************************************)
(* The flow invariant through the three kinds of steps.                    *)
(***************************************************************************)

\* An address no object lives at keeps nothing of an earlier connection.
ClosedAreLive == \A o \in Objects : closed[o] => o \in Live
DeadAreNew    == \A c \in Clients \ Live : ~client[c].fileOpen /\ ~client[c].reply

\* Connection x is polled for its reply and for nothing else, so if poll()
\* returned POLLIN for it recv() fails.
ArmedAt(x) ==
  ~closed[x] =>
    /\ EventsOf(x) = "out" => client[x].reply
    /\ client[x].reply /\ conn[x] # "residue" =>
         /\ EventsOf(x) = "out"
         /\ x \in turn /\ ReturnedTo(x) = "in" => conn[x] = "reset"

RepliesAreArmed == \A x \in Live \cap Clients : ArmedAt(x)

\* The inductive invariant.
FlowInv == ClosedAreLive /\ DeadAreNew /\ OpenFileIsServed /\ RepliesAreArmed

\* A step takes nothing back from a connection that broke, and adds no visit.
Worsens == turn' \subseteq turn /\ \A x \in Clients \cap Live' :
             conn[x] \in {"reset", "residue"} => conn'[x] = conn[x]

\* What a step that neither adds nor removes must do to connection x.
KeepsFlow(x) ==
  /\ client'[x].fileOpen =>
       /\ client[x].fileOpen
       /\ \A f \in Files \cap Live : owner[f] = x /\ ~closed[f] => ~closed'[f]
  /\ ~closed'[x] =>
       \/ ArmedAt(x)'
       \/ /\ ~closed[x] /\ client'[x].reply = client[x].reply
          /\ EventsOf(x)' = EventsOf(x) /\ ReturnedTo(x)' = ReturnedTo(x)

LEMMA FlowSameObjects ==
  ASSUME FlowInv, Live' = Live, owner' = owner, Worsens,
         \A o \in Objects : closed'[o] => closed[o] \/ o \in Live,
         \A x \in Clients \ Live :
           ~client'[x].fileOpen /\ ~client'[x].reply,
         \A x \in Clients \cap Live : KeepsFlow(x)
  PROVE  FlowInv'
<1>1. ClosedAreLive'
  BY DEF FlowInv, ClosedAreLive
<1>2. DeadAreNew'
  BY DEF DeadAreNew
<1>3. OpenFileIsServed'
  BY DEF FlowInv, OpenFileIsServed, KeepsFlow
<1>4. RepliesAreArmed'
  <2>1. SUFFICES ASSUME NEW x \in Live \cap Clients, ~closed'[x] PROVE ArmedAt(x)'
    BY DEF RepliesAreArmed, ArmedAt
  <2>2. KeepsFlow(x) /\ ArmedAt(x)
    BY DEF FlowInv, RepliesAreArmed
  <2>3. QED
    BY <2>1, <2>2 DEF KeepsFlow, ArmedAt, Worsens
<1>5. QED
  BY <1>1, <1>2, <1>3, <1>4 DEF FlowInv

\* A step that leaves _file_open, the replies and the events asked for alone,
\* and closes at most connections in the table.
LEMMA FlowUntouched ==
  ASSUME TableInv, FlowInv, Live' = Live, owner' = owner, Worsens,
         \A x \in Clients : /\ client'[x].fileOpen = client[x].fileOpen
                            /\ client'[x].reply = client[x].reply,
         \A x \in Live : EventsOf(x)' = EventsOf(x) /\ ReturnedTo(x)' = ReturnedTo(x),
         NEW S \in SUBSET (Live \cap Clients),
         \/ closed' = closed
         \/ \A o \in Objects : closed'[o] = (closed[o] \/ o \in S)
  PROVE  FlowInv'
<1>1. \A f \in Files : f \in Objects /\ f \notin S
  BY LoopAssumption DEF LoopAssumption, Objects, Sessions, Workers
<1>2. \A x \in Clients : x \in Objects
  BY DEF Objects, Sessions
<1>3. \A o \in Objects : closed'[o] => closed[o] \/ o \in Live
  OBVIOUS
<1>4. \A x \in Clients \ Live : ~client'[x].fileOpen /\ ~client'[x].reply
  BY DEF FlowInv, DeadAreNew
<1>5. \A x \in Clients \cap Live : KeepsFlow(x)
  BY <1>1, <1>2 DEF KeepsFlow
<1>6. QED
  BY <1>3, <1>4, <1>5, FlowSameObjects

\* What a step that sets the events of connection c to e makes of its reply.
ArmedWith(c, e) ==
  ~closed'[c] =>
    /\ e = "out" => client'[c].reply
    /\ client'[c].reply /\ conn'[c] # "residue" =>
         /\ e = "out"
         /\ c \in turn' /\ ReturnedTo(c) = "in" => conn'[c] = "reset"

\* A step that sets one connection's record and the events of its slot.
LEMMA FlowOneClient ==
  ASSUME TableInv, FlowInv, UNCHANGED <<pollables, index>>, owner' = owner,
         NEW c \in Clients \cap Live, NEW e \in Events,
         pfds' = SetEvents(c, e), Worsens, ArmedWith(c, e),
         \A x \in Clients \ {c} : /\ client'[x].fileOpen = client[x].fileOpen
                                  /\ client'[x].reply = client[x].reply,
         client'[c].fileOpen => client[c].fileOpen,
         \A o \in Objects : closed'[o] =>
           closed[o] \/ o = c \/ (o \in Live \cap Workers /\ owner[o] = c /\ ~client'[c].fileOpen),
         \A o \in Objects : closed[o] /\ o # c => closed'[o]
  PROVE  FlowInv'
<1>1. Live' = Live
  BY DEF Live, Occupants
<1>2. \A x \in Live : /\ EventsOf(x)' = IF x = c THEN e ELSE EventsOf(x)
                      /\ ReturnedTo(x)' = ReturnedTo(x)
  <2>1. \A x \in Live : /\ EventsOf(x)' = SetEvents(c, e)[index[x]].events
                        /\ ReturnedTo(x)' = SetEvents(c, e)[index[x]].revents
    BY DEF EventsOf, ReturnedTo
  <2>2. \A x \in Live : SetEvents(c, e)[index[x]].revents = pfds[index[x]].revents
    BY SlotOf, SetEventsShape DEF TableInv
  <2>3. QED
    BY <2>1, <2>2, EventsSet DEF ReturnedTo
<1>3. /\ \A f \in Files : f \in Objects /\ f # c
      /\ \A x \in Clients : x \in Objects /\ x \notin Workers
  BY LoopAssumption DEF LoopAssumption, Objects, Sessions, Workers
<1>4. \A o \in Objects : closed'[o] => closed[o] \/ o \in Live
  OBVIOUS
<1>5. \A x \in Clients \ Live : ~client'[x].fileOpen /\ ~client'[x].reply
  BY DEF FlowInv, DeadAreNew
<1>6. ASSUME NEW x \in Clients \cap Live PROVE KeepsFlow(x)
  <2>1. CASE x = c
    BY <1>2, <1>3, <2>1 DEF KeepsFlow, ArmedWith, ArmedAt
  <2>2. CASE x # c
    BY <1>2, <1>3, <2>2 DEF KeepsFlow
  <2>3. QED
    BY <2>1, <2>2
<1>7. QED
  BY <1>1, <1>4, <1>5, <1>6, FlowSameObjects

\* A connection is accepted at an address nobody uses.
LEMMA FlowAccept ==
  ASSUME TableInv, FlowInv, NEW c \in Clients \ Live, Enlist(c, c, "in", pfds),
         UNCHANGED <<client, owner, closed, conn>>, turn' \subseteq turn
  PROVE  FlowInv'
<1>1. c \in Objects /\ c \notin Files /\ pfds \in Seq(Pfd) /\ "in" \in Events
  BY LoopAssumption
  DEF LoopAssumption, Objects, Sessions, Workers, TableInv, TypeOK, Events
<1>2. /\ Live' = Live \cup {c}
      /\ EventsOf(c)' = "in"
      /\ \A x \in Live : EventsOf(x)' = EventsOf(x) /\ ReturnedTo(x)' = ReturnedTo(x)
  <2>1. /\ Live' = Live \cup {c}
        /\ pfds'[index'[c]] = NewPfd(c, "in")
        /\ \A x \in Live : pfds'[index'[x]] = pfds[index[x]]
    BY <1>1, SlotEnlist
  <2>2. QED
    BY <2>1 DEF EventsOf, ReturnedTo, NewPfd
<1>3. ClosedAreLive' /\ DeadAreNew'
  BY <1>2 DEF FlowInv, ClosedAreLive, DeadAreNew
<1>4. OpenFileIsServed'
  <2>1. SUFFICES ASSUME NEW x \in Live' \cap Clients, client[x].fileOpen
                 PROVE  \E f \in Live' \cap Files : owner[f] = x /\ ~closed[f]
    BY DEF OpenFileIsServed
  <2>2. x # c
    BY <2>1 DEF FlowInv, DeadAreNew
  <2>3. x \in Live
    BY <1>2, <2>2
  <2>4. QED
    BY <1>2, <2>1, <2>3 DEF FlowInv, OpenFileIsServed
<1>5. RepliesAreArmed'
  <2>1. SUFFICES ASSUME NEW x \in Live' \cap Clients PROVE ArmedAt(x)'
    BY DEF RepliesAreArmed
  <2>2. CASE x = c
    BY <1>2, <2>2 DEF FlowInv, DeadAreNew, ArmedAt
  <2>3. CASE x # c
    <3>1. x \in Live /\ ArmedAt(x)
      BY <1>2, <2>3 DEF FlowInv, RepliesAreArmed
    <3>2. QED
      BY <1>2, <3>1 DEF ArmedAt
  <2>4. QED
    BY <2>2, <2>3
<1>6. QED
  BY <1>3, <1>4, <1>5 DEF FlowInv

\* A worker is pushed back for a connection, which is put on hold.
LEMMA FlowHires ==
  ASSUME TableInv, FlowInv, NEW c \in Clients \cap Live, NEW w \in Workers \ Live,
         NEW fd \in Objects \cup {NoFd}, NEW e \in Events,
         Enlist(w, fd, e, SetEvents(c, "hold")),
         owner' = [owner EXCEPT ![w] = c],
         \A x \in Clients \ {c} : client'[x] = client[x],
         ArmedWith(c, "hold"), Worsens,
         client'[c].fileOpen => w \in Files \/ client[c].fileOpen,
         \A o \in Objects : closed'[o] => closed[o] \/ o = c,
         \A o \in Objects : closed[o] /\ o # c => closed'[o]
  PROVE  FlowInv'
<1>1. /\ w \in Objects /\ c # w /\ w \notin Clients
      /\ Files \subseteq Objects /\ Files \subseteq Workers /\ Clients \subseteq Objects
      /\ Files \cap Clients = {}
      /\ owner \in [Workers -> Clients \cup {Null}] /\ "hold" \in Events
  BY LoopAssumption
  DEF LoopAssumption, Objects, Sessions, Workers, TableInv, TypeOK, Events
<1>2. SetEvents(c, "hold") \in Seq(Pfd) /\ Len(SetEvents(c, "hold")) = Len(pfds)
  BY <1>1, SetEventsShape DEF TableInv
<1>3. /\ Live' = Live \cup {w}
      /\ \A x \in Live : pfds'[index'[x]] = SetEvents(c, "hold")[index[x]]
  BY <1>1, <1>2, SlotEnlist
<1>4. \A x \in Live : /\ EventsOf(x)' = IF x = c THEN "hold" ELSE EventsOf(x)
                      /\ ReturnedTo(x)' = ReturnedTo(x)
  <2>1. \A x \in Live : SetEvents(c, "hold")[index[x]].revents = pfds[index[x]].revents
    BY <1>1, SlotOf, SetEventsShape DEF TableInv
  <2>2. QED
    BY <1>1, <1>3, <2>1, EventsSet DEF EventsOf, ReturnedTo
<1>5. \A x \in Live' \cap Clients : x \in Live
  BY <1>1, <1>3
<1>6. ClosedAreLive' /\ DeadAreNew'
  BY <1>3 DEF FlowInv, ClosedAreLive, DeadAreNew
<1>7. OpenFileIsServed'
  <2>1. SUFFICES ASSUME NEW x \in Live \cap Clients, client'[x].fileOpen
                 PROVE  \E f \in Live' \cap Files : owner'[f] = x /\ ~closed'[f]
    BY <1>5 DEF OpenFileIsServed
  <2>2. CASE x = c /\ w \in Files
    <3>1. owner'[w] = c /\ ~closed'[w] /\ w \in Live'
      BY <1>1, <1>3 DEF FlowInv, ClosedAreLive
    <3>2. QED
      BY <2>2, <3>1
  <2>3. CASE ~(x = c /\ w \in Files)
    <3>1. client[x].fileOpen
      BY <2>1, <2>3
    <3>2. PICK f \in Live \cap Files : owner[f] = x /\ ~closed[f]
      BY <3>1 DEF FlowInv, OpenFileIsServed
    <3>3. f # w /\ f # c /\ f \in Objects
      BY <1>1
    <3>4. owner'[f] = x /\ ~closed'[f] /\ f \in Live'
      BY <1>1, <1>3, <3>2, <3>3
    <3>5. QED
      BY <3>4
  <2>4. QED
    BY <2>2, <2>3
<1>8. RepliesAreArmed'
  <2>1. SUFFICES ASSUME NEW x \in Live \cap Clients PROVE ArmedAt(x)'
    BY <1>5 DEF RepliesAreArmed
  <2>2. CASE x = c
    BY <1>4, <2>2 DEF ArmedWith, ArmedAt
  <2>3. CASE x # c
    <3>1. ArmedAt(x) /\ (~closed'[x] => ~closed[x])
      BY <1>1, <2>3 DEF FlowInv, RepliesAreArmed
    <3>2. QED
      BY <1>3, <1>4, <2>3, <3>1 DEF ArmedAt, Worsens
  <2>4. QED
    BY <2>2, <2>3
<1>9. QED
  BY <1>6, <1>7, <1>8 DEF FlowInv

\* An object is removed; freed is what its timeout() left of the records.
LEMMA FlowRemove ==
  ASSUME ScanInv, FlowInv, pos \in DOMAIN pollables, NEW freed, Remove(freed),
         \A x \in Clients : /\ freed[x].reply = client[x].reply
                            /\ freed[x].fileOpen => client[x].fileOpen,
         \A x \in Clients : freed[x].fileOpen /\ pollables[pos] \in Files =>
                              owner[pollables[pos]] # x \/ closed[pollables[pos]]
  PROVE  FlowInv'
<1> DEFINE o == pollables[pos]
<1>1. /\ o \in Objects /\ Clients \subseteq Objects /\ Files \subseteq Objects
      /\ Files \subseteq Workers /\ closed \in [Objects -> BOOLEAN]
  BY DEF ScanInv, TableInv, TypeOK, Objects, Sessions, Workers
<1>2. Deleted = o
  BY DeletedIsVisited DEF ScanInv
<1>3. /\ Live' = Live \ {o}
      /\ \A x \in Live' : EventsOf(x)' = EventsOf(x) /\ ReturnedTo(x)' = ReturnedTo(x)
  BY SlotRemove DEF EventsOf, ReturnedTo
<1>4. /\ \A x \in Objects : closed'[x] = (x # o /\ closed[x])
      /\ \A x \in Clients : client'[x] = IF x = o THEN NewClient ELSE freed[x]
      /\ \A x \in Workers : x # o => owner'[x] = owner[x]
      /\ \A x \in Clients : x # o => conn'[x] = conn[x]
      /\ turn' \subseteq turn
  BY <1>1, <1>2 DEF Remove
<1> HIDE DEF o
<1>5. ClosedAreLive'
  BY <1>3, <1>4 DEF FlowInv, ClosedAreLive
<1>6. DeadAreNew'
  BY <1>3, <1>4 DEF FlowInv, DeadAreNew, NewClient
<1>7. OpenFileIsServed'
  <2>1. SUFFICES ASSUME NEW x \in Live' \cap Clients, client'[x].fileOpen
                 PROVE  \E f \in Live' \cap Files : owner'[f] = x /\ ~closed'[f]
    BY DEF OpenFileIsServed
  <2>2. x \in Live /\ x # o /\ freed[x].fileOpen /\ client[x].fileOpen
    BY <1>3, <1>4, <2>1
  <2>3. PICK f \in Live \cap Files : owner[f] = x /\ ~closed[f]
    BY <2>2 DEF FlowInv, OpenFileIsServed
  <2>4. f # o
    BY <2>2, <2>3 DEF o
  <2>5. QED
    BY <1>1, <1>3, <1>4, <2>3, <2>4
<1>8. RepliesAreArmed'
  <2>1. SUFFICES ASSUME NEW x \in Live' \cap Clients PROVE ArmedAt(x)'
    BY DEF RepliesAreArmed
  <2>2. /\ x \in Live /\ x # o /\ client'[x].reply = client[x].reply
        /\ closed'[x] = closed[x] /\ conn'[x] = conn[x]
    BY <1>1, <1>3, <1>4, <2>1
  <2>3. ArmedAt(x)
    BY <2>2 DEF FlowInv, RepliesAreArmed
  <2>4. QED
    BY <1>3, <1>4, <2>2, <2>3 DEF ArmedAt
<1>9. QED
  BY <1>5, <1>6, <1>7, <1>8 DEF FlowInv

-----------------------------------------------------------------------------
(***************************************************************************)
(* Every step keeps the flow invariant.                                    *)
(***************************************************************************)

\* Steps that leave the table, the owners and the clients' records alone.
LEMMA FlowSameTable ==
  ASSUME TableInv, FlowInv, UNCHANGED table, owner' = owner, Worsens,
         \A x \in Clients : /\ client'[x].fileOpen = client[x].fileOpen
                            /\ client'[x].reply = client[x].reply,
         \/ closed' = closed
         \/ \E c \in Live \cap Clients : ~closed[c] /\ \E b \in BOOLEAN :
              closed' = [closed EXCEPT ![c] = b]
         \/ \E c \in Live \cap Clients : Close(c)
  PROVE  FlowInv'
<1>1. /\ Live' = Live
      /\ \A x \in Live : EventsOf(x)' = EventsOf(x) /\ ReturnedTo(x)' = ReturnedTo(x)
  BY DEF Live, Occupants, EventsOf, ReturnedTo, table
<1>2. closed \in [Objects -> BOOLEAN]
  BY DEF TableInv, TypeOK
<1>3. CASE closed' = closed
  BY <1>1, <1>3, FlowUntouched
<1>4. CASE \E c \in Live \cap Clients : ~closed[c] /\ \E b \in BOOLEAN :
             closed' = [closed EXCEPT ![c] = b]
  <2>1. PICK c \in Live \cap Clients, b \in BOOLEAN :
          ~closed[c] /\ closed' = [closed EXCEPT ![c] = b]
    BY <1>4
  <2> DEFINE S == IF b THEN {c} ELSE {}
  <2>2. S \in SUBSET (Live \cap Clients)
    OBVIOUS
  <2>3. \A o \in Objects : closed'[o] = (closed[o] \/ o \in S)
    BY <1>2, <2>1
  <2> HIDE DEF S
  <2>4. QED
    BY <1>1, <2>2, <2>3, FlowUntouched
<1>5. CASE \E c \in Live \cap Clients : Close(c)
  <2>1. PICK c \in Live \cap Clients : closed' = [closed EXCEPT ![c] = TRUE]
    BY <1>5 DEF Close
  <2> DEFINE S == {c}
  <2>2. S \in SUBSET (Live \cap Clients)
    OBVIOUS
  <2>3. \A o \in Objects : closed'[o] = (closed[o] \/ o \in S)
    BY <1>2, <2>1
  <2> HIDE DEF S
  <2>4. QED
    BY <1>1, <2>2, <2>3, FlowUntouched
<1>6. QED
  BY <1>3, <1>4, <1>5

\* What recv() does to the connection it is called for.
LEMMA ReceivesClosed ==
  ASSUME TableInv, NEW c \in Clients, NEW b \in BOOLEAN, Receives(c, b)
  PROVE  /\ c \in Live /\ ~closed[c]
         /\ closed' = [closed EXCEPT ![c] = ~b]
         /\ \A o \in Objects : closed'[o] => closed[o] \/ o = c
         /\ \A o \in Objects : closed[o] /\ o # c => closed'[o]
BY Visited DEF Receives, Serve, Gone, TableInv, TypeOK

\* The record of a connection after respond() has put it on hold.
LEMMA HeldRecord ==
  ASSUME TableInv, NEW c \in Clients
  PROVE  /\ \A x \in Clients \ {c} : Held(c)[x] = client[x]
         /\ Held(c)[c].reply = client[c].reply /\ Held(c)[c].fileOpen = client[c].fileOpen
BY DEF TableInv, TypeOK, Held, ClientState

\* Only a connection that broke with bytes unread is read from with a reply unsent.
LEMMA DispatchesUnarmed ==
  ASSUME ScanInv, FlowInv, NEW c \in Clients, Dispatches(c)
  PROVE  /\ c \in Live /\ conn' = conn /\ turn' \subseteq turn /\ c \notin turn'
         /\ conn[c] # "residue" => ~client[c].reply
<1>1. PICK b \in BOOLEAN : Receives(c, b)
  BY DEF Dispatches
<1>2. /\ c \in Live /\ ~closed[c] /\ pos \in DOMAIN pollables /\ pollables[pos] = c
      /\ pfds[pos].revents = "in" /\ conn[c] # "reset" /\ conn' = conn
      /\ turn' = turn \ {c}
  BY <1>1, Visited DEF Receives, Serve, Gone, At, Advance
<1>3. index[c] = pos /\ pos \in pos .. Len(pollables)
  <2>1. DOMAIN pollables = 1 .. Len(pollables) /\ Len(pollables) \in Nat
    BY DEF ScanInv, TableInv, TypeOK
  <2>2. index[pollables[pos]] = pos
    BY <1>2 DEF ScanInv, TableInv, VectorsAgree
  <2>3. QED
    BY <1>2, <2>1, <2>2
<1>4. c \in turn
  BY <1>2, <1>3 DEF ScanInv, NobodySkipped
<1>5. ArmedAt(c)
  BY <1>2 DEF FlowInv, RepliesAreArmed
<1>6. QED
  BY <1>2, <1>3, <1>4, <1>5 DEF ArmedAt, ReturnedTo

\* The record of a connection an answer is installed on.
LEMMA AnswerRecord ==
  ASSUME TableInv, NEW c \in Clients, NEW s, Answer(c, s)
  PROVE  /\ \A x \in Clients \ {c} : client'[x] = client[x]
         /\ client'[c].reply = TRUE /\ client'[c].fileOpen = client[c].fileOpen
<1> DEFINE r == [client EXCEPT ![c].state = s]
<1>1. /\ client \in [Clients -> ClientState] /\ client[c] \in ClientState
      /\ client' = [r EXCEPT ![c].reply = TRUE]
  BY DEF TableInv, TypeOK, Answer
<1>2. /\ DOMAIN r = Clients
      /\ r[c] = [client[c] EXCEPT !.state = s]
      /\ \A x \in Clients \ {c} : r[x] = client[x]
  BY <1>1
<1>3. /\ DOMAIN r[c] = {"state", "fileOpen", "reply"}
      /\ r[c].fileOpen = client[c].fileOpen
  BY <1>1, <1>2 DEF ClientState
<1> HIDE DEF r
<1>4. /\ client'[c] = [r[c] EXCEPT !.reply = TRUE]
      /\ \A x \in Clients \ {c} : client'[x] = r[x]
  BY <1>1, <1>2
<1>5. QED
  BY <1>2, <1>3, <1>4

\* The records after setClosed of a worker.
LEMMA ReleasedRecord ==
  ASSUME TableInv, NEW w \in Workers
  PROVE  \A x \in Clients :
           /\ Released(w)[x].reply = client[x].reply
           /\ Released(w)[x].fileOpen = (x # owner[w] /\ client[x].fileOpen)
<1>1. client \in [Clients -> ClientState]
  BY DEF TableInv, TypeOK
<1>2. QED
  BY <1>1 DEF Released, ClientState

\* The visits to a connection.
LEMMA FlowClient ==
  ASSUME OpenFails = FALSE, ScanInv, FlowInv, NEW c \in Clients, VisitClient(c)
  PROVE  FlowInv'
<1> USE DEF ScanInv
<1>1. /\ "in" \in Events /\ "out" \in Events /\ "hold" \in Events
      /\ client \in [Clients -> ClientState] /\ client[c] \in ClientState
      /\ closed \in [Objects -> BOOLEAN] /\ c \in Objects /\ c \notin Workers
      /\ c \notin Files
  BY LoopAssumption
  DEF LoopAssumption, Events, TableInv, TypeOK, Objects, Sessions, Workers
<1>2. CASE RetireClient(c)
  <2>1. pos \in DOMAIN pollables /\ pollables[pos] = c /\ Remove(client)
    BY <1>2, Visited DEF RetireClient
  <2>2. QED
    BY <1>1, <2>1, FlowRemove
<1>3. CASE KeepForFile(c) \/ SocketError(c) \/ ReceiveFails(c) \/ SendFails(c)
  <2>1. /\ c \in Live \cap Clients /\ Close(c) /\ UNCHANGED <<table, owner, client>>
        /\ Worsens
    BY <1>3, Visited
    DEF KeepForFile, SocketError, ReceiveFails, SendFails, Serve, Advance, Worsens
  <2>2. QED
    BY <2>1, FlowSameTable
<1>4. CASE Idle(c) \/ SendsPart(c)
  <2>1. UNCHANGED <<table, owner, client, closed>> /\ Worsens
    BY <1>4 DEF Idle, SendsPart, Advance, Worsens
  <2>2. QED
    BY <2>1, FlowSameTable
<1>5. CASE NeedsMore(c)
  <2>1. PICK b \in BOOLEAN : Receives(c, b)
    BY <1>5 DEF NeedsMore
  <2>2. PICK s \in {client[c].state, "BODY"} : client' = [client EXCEPT ![c].state = s]
    BY <1>5 DEF NeedsMore
  <2>3. \A x \in Clients : /\ client'[x].fileOpen = client[x].fileOpen
                           /\ client'[x].reply = client[x].reply
    BY <1>1, <2>2 DEF ClientState
  <2>4. c \in Live \cap Clients /\ ~closed[c] /\ closed' = [closed EXCEPT ![c] = ~b]
    BY <2>1, ReceivesClosed
  <2>5. \E d \in BOOLEAN : closed' = [closed EXCEPT ![c] = d]
    <3>1. CASE b
      <4>1. closed' = [closed EXCEPT ![c] = FALSE]
        BY <2>4, <3>1
      <4>2. QED
        BY <4>1
    <3>2. CASE ~b
      <4>1. closed' = [closed EXCEPT ![c] = TRUE]
        BY <2>4, <3>2
      <4>2. QED
        BY <4>1
    <3>3. QED
      BY <3>1, <3>2
  <2>6. UNCHANGED <<table, owner>> /\ Worsens
    BY <1>5, <2>1 DEF NeedsMore, Receives, Advance, Worsens
  <2>7. QED
    BY <2>3, <2>4, <2>5, <2>6, FlowSameTable
<1>6. ASSUME NEW b \in BOOLEAN, Receives(c, b), NEW s, Answer(c, s), owner' = owner
      PROVE  FlowInv'
  <2>1. /\ c \in Live
        /\ \A o \in Objects : closed'[o] => closed[o] \/ o = c
        /\ \A o \in Objects : closed[o] /\ o # c => closed'[o]
    BY <1>6, ReceivesClosed
  <2>2. /\ \A x \in Clients \ {c} : client'[x] = client[x]
        /\ client'[c].reply = TRUE /\ client'[c].fileOpen = client[c].fileOpen
    BY <1>6, AnswerRecord
  <2>3. UNCHANGED <<pollables, index>> /\ pfds' = SetEvents(c, "out")
    BY <1>6 DEF Answer
  <2>4. c \notin turn' /\ Worsens
    BY <1>6 DEF Receives, Serve, At, Advance, Worsens
  <2>5. ArmedWith(c, "out")
    BY <2>2, <2>4 DEF ArmedWith
  <2>6. QED
    BY <1>1, <1>6, <2>1, <2>2, <2>3, <2>4, <2>5, FlowOneClient
<1>7. CASE Refuses(c)
  BY <1>6, <1>7 DEF Refuses
<1>8. CASE RepliesAtOnce(c)
  BY <1>6, <1>8 DEF RepliesAtOnce, Dispatches
<1>9. ASSUME Dispatches(c)
      PROVE  /\ c \in Live
             /\ \A o \in Objects : closed'[o] => closed[o] \/ o = c
             /\ \A o \in Objects : closed[o] /\ o # c => closed'[o]
             /\ Worsens
             /\ client'[c].reply = client[c].reply => ArmedWith(c, "hold")
  <2>1. Worsens /\ (client'[c].reply = client[c].reply => ArmedWith(c, "hold"))
    BY <1>9, DispatchesUnarmed DEF Worsens, ArmedWith
  <2>2. QED
    BY <1>9, <2>1, ReceivesClosed DEF Dispatches
<1>10. CASE NoReply(c)
  <2>1. /\ client' = Held(c) /\ pfds' = SetEvents(c, "hold")
        /\ UNCHANGED <<pollables, index>> /\ owner' = owner
    BY <1>10 DEF NoReply
  <2>2. /\ \A x \in Clients \ {c} : client'[x] = client[x]
        /\ client'[c].reply = client[c].reply /\ client'[c].fileOpen = client[c].fileOpen
    BY <2>1, HeldRecord
  <2>3. /\ c \in Live
        /\ \A o \in Objects : closed'[o] => closed[o] \/ o = c
        /\ \A o \in Objects : closed[o] /\ o # c => closed'[o]
        /\ Worsens /\ ArmedWith(c, "hold")
    BY <1>9, <1>10, <2>2 DEF NoReply
  <2>4. QED
    BY <1>1, <2>1, <2>2, <2>3, FlowOneClient
<1>11. CASE OpensFile(c)
  <2>1. PICK f \in Files, e \in {"in", "out"} :
          /\ Free(f)
          /\ Enlist(f, f, e, SetEvents(c, "hold"))
          /\ owner' = [owner EXCEPT ![f] = c]
    BY <1>11 DEF OpensFile
  <2>2. f \in Workers \ Live /\ f \in Objects \cup {NoFd} /\ e \in Events
    BY <1>1, <2>1 DEF Free, Workers, Objects, Sessions
  <2>3. client' = [Held(c) EXCEPT ![c].fileOpen = TRUE] /\ Dispatches(c)
    BY <1>11 DEF OpensFile
  <2>4. Held(c) \in [Clients -> ClientState] /\ Held(c)[c] \in ClientState
    BY HeldType DEF TableInv
  <2>5. /\ \A x \in Clients \ {c} : client'[x] = Held(c)[x]
        /\ client'[c].reply = Held(c)[c].reply
    BY <2>3, <2>4 DEF ClientState
  <2>6. /\ \A x \in Clients \ {c} : client'[x] = client[x]
        /\ client'[c].reply = client[c].reply
    BY <2>5, HeldRecord
  <2>7. QED
    BY <1>9, <2>1, <2>2, <2>3, <2>6, FlowHires
<1>12. CASE StartsCgi(c)
  <2>1. PICK g \in Cgis, fails \in {FALSE, OpenFails} :
          /\ Free(g)
          /\ Enlist(g, IF fails THEN NoFd ELSE g, "in", SetEvents(c, "hold"))
          /\ owner' = [owner EXCEPT ![g] = c]
    BY <1>12 DEF StartsCgi, Executes
  <2>2. Enlist(g, g, "in", SetEvents(c, "hold"))
    BY <2>1
  <2>3. g \in Workers \ Live /\ g \in Objects \cup {NoFd}
    BY <2>1 DEF Free, Workers, Objects, Sessions
  <2>4. client' = Held(c) /\ Dispatches(c)
    BY <1>12 DEF StartsCgi
  <2>5. /\ \A x \in Clients \ {c} : client'[x] = client[x]
        /\ client'[c].reply = client[c].reply /\ client'[c].fileOpen = client[c].fileOpen
    BY <2>4, HeldRecord
  <2>6. QED
    BY <1>1, <1>9, <2>1, <2>2, <2>3, <2>4, <2>5, FlowHires
<1>13. CASE SendsAll(c)
  <2>1. /\ c \in Live /\ UNCHANGED <<pollables, index>> /\ owner' = owner
        /\ ~closed[c] /\ Worsens
    BY <1>13, Visited DEF SendsAll, Serve, Gone, Advance, Worsens
  <2>2. CASE Close(c) /\ client' = [client EXCEPT ![c].reply = FALSE] /\ pfds' = pfds
    <3>1. /\ closed'[c] /\ \A o \in Objects \ {c} : closed'[o] = closed[o]
          /\ \A x \in Clients \ {c} : client'[x] = client[x]
          /\ client'[c].fileOpen = client[c].fileOpen /\ ~client'[c].reply
      BY <1>1, <2>2 DEF Close, ClientState
    <3>2. /\ Live' = Live
          /\ \A x \in Live : EventsOf(x)' = EventsOf(x) /\ ReturnedTo(x)' = ReturnedTo(x)
      BY <2>1, <2>2 DEF Live, Occupants, EventsOf, ReturnedTo
    <3>3. \A o \in Objects : closed'[o] => closed[o] \/ o \in Live
      BY <2>1, <3>1
    <3>4. \A x \in Clients \ Live : ~client'[x].fileOpen /\ ~client'[x].reply
      BY <2>1, <3>1 DEF FlowInv, DeadAreNew
    <3>5. \A x \in Clients \cap Live : KeepsFlow(x)
      <4>1. \A f \in Files : f \in Objects \ {c}
        BY <1>1 DEF Objects, Sessions, Workers
      <4>2. \A x \in Clients : x \in Objects
        BY DEF Objects, Sessions
      <4>3. QED
        BY <3>1, <3>2, <4>1, <4>2 DEF KeepsFlow
    <3>6. QED
      BY <2>1, <3>2, <3>3, <3>4, <3>5, FlowSameObjects
  <2>3. CASE /\ pfds' = SetEvents(c, "in") /\ closed' = closed
             /\ \E s \in {"HEADER", "BODY"} :
                  client' = [client EXCEPT ![c].state = s, ![c].reply = FALSE]
    <3>1. PICK s \in {"HEADER", "BODY"} :
            client' = [client EXCEPT ![c].state = s, ![c].reply = FALSE]
      BY <2>3
    <3> DEFINE r == [client EXCEPT ![c].state = s]
    <3>2. client' = [r EXCEPT ![c].reply = FALSE]
      BY <3>1
    <3>3. /\ DOMAIN r = Clients /\ r[c] = [client[c] EXCEPT !.state = s]
          /\ \A x \in Clients \ {c} : r[x] = client[x]
      BY <1>1
    <3>4. DOMAIN r[c] = {"state", "fileOpen", "reply"} /\ r[c].fileOpen = client[c].fileOpen
      BY <1>1, <3>3 DEF ClientState
    <3> HIDE DEF r
    <3>5. /\ client'[c] = [r[c] EXCEPT !.reply = FALSE]
          /\ \A x \in Clients \ {c} : client'[x] = r[x]
      BY <3>2, <3>3
    <3>6. /\ \A x \in Clients \ {c} : client'[x] = client[x]
          /\ ~client'[c].reply /\ client'[c].fileOpen = client[c].fileOpen
      BY <3>3, <3>4, <3>5
    <3>7. ArmedWith(c, "in")
      BY <3>6 DEF ArmedWith
    <3>8. QED
      BY <1>1, <2>1, <2>3, <3>6, <3>7, FlowOneClient
  <2>4. QED
    BY <1>13, <2>2, <2>3 DEF SendsAll
<1>14. QED
  BY <1>2, <1>3, <1>4, <1>5, <1>7, <1>8, <1>10, <1>11, <1>12, <1>13
  DEF VisitClient, ClientPollin, ClientPollout

\* The visits to a listening socket.
LEMMA FlowListener ==
  ASSUME ScanInv, FlowInv, NEW s \in Listeners, VisitListener(s)
  PROVE  FlowInv'
<1> USE DEF ScanInv
<1>1. CASE Idle(s) \/ AcceptFails(s)
  <2>1. UNCHANGED <<table, owner, client, closed>> /\ Worsens
    BY <1>1 DEF Idle, AcceptFails, Advance, Worsens
  <2>2. QED
    BY <2>1, FlowSameTable
<1>2. CASE Accept(s)
  <2>1. PICK c \in Clients : Free(c) /\ Enlist(c, c, "in", pfds)
    BY <1>2 DEF Accept
  <2>2. /\ c \in Clients \ Live /\ UNCHANGED <<client, owner, closed, conn>>
        /\ turn' \subseteq turn
    BY <1>2, <2>1 DEF Accept, Free, Advance
  <2>3. QED
    BY <2>1, <2>2, FlowAccept
<1>3. QED
  BY <1>1, <1>2 DEF VisitListener

\* A file or a CGI output is removed, closed or timed out.
LEMMA FlowRetires ==
  ASSUME ScanInv, FlowInv, NEW w \in Workers, RetireWorker(w)
  PROVE  FlowInv'
<1>1. pos \in DOMAIN pollables /\ pollables[pos] = w /\ TableInv
  BY Visited DEF RetireWorker, ScanInv
<1>2. CASE Expired(w)
  <2>1. Remove(Released(w))
    BY <1>2 DEF RetireWorker
  <2>2. \A x \in Clients : /\ Released(w)[x].reply = client[x].reply
                           /\ Released(w)[x].fileOpen => client[x].fileOpen
                           /\ Released(w)[x].fileOpen => owner[w] # x
    BY <1>1, ReleasedRecord
  <2>3. QED
    BY <1>1, <2>1, <2>2, FlowRemove
<1>3. CASE ~Expired(w)
  <2>1. Remove(client) /\ closed[w]
    BY <1>3 DEF RetireWorker, Gone
  <2>2. QED
    BY <1>1, <2>1, FlowRemove
<1>4. QED
  BY <1>2, <1>3

\* A file or a CGI output is done: the reply is installed on its connection.
LEMMA FlowFinishes ==
  ASSUME ScanInv, TeamInv, FlowInv, NEW w \in Workers, Works(w), Finishes(w)
  PROVE  FlowInv'
<1> DEFINE c == owner[w]
<1>1. /\ TableInv /\ w \in Objects /\ closed \in [Objects -> BOOLEAN]
      /\ owner \in [Workers -> Clients \cup {Null}] /\ "out" \in Events
  BY DEF ScanInv, TableInv, TypeOK, Objects, Sessions, Events
<1>2. w \in Live /\ c \in Live
  BY Visited DEF Works, Serve
<1>3. c \in Clients
  <2>1. c # Null
    BY <1>1, <1>2, SlotOf, LoopAssumption DEF LoopAssumption
  <2>2. QED
    BY <1>1, <2>1
<1>4. /\ pfds' = SetEvents(c, "out") /\ UNCHANGED <<pollables, index>>
      /\ owner' = owner /\ closed' = [closed EXCEPT ![w] = TRUE]
      /\ client' = [Released(w) EXCEPT ![c].reply = TRUE]
  BY DEF Finishes, Close
<1>5. /\ Released(w) \in [Clients -> ClientState]
      /\ Released(w)[c].fileOpen = FALSE
      /\ \A x \in Clients \ {c} : Released(w)[x] = client[x]
  <2>1. client \in [Clients -> ClientState]
    BY <1>1 DEF TableInv, TypeOK
  <2>2. QED
    BY <1>1, <1>3, <2>1, ReleasedType DEF TableInv, Released, ClientState
<1> HIDE DEF c
<1>6. /\ \A x \in Clients \ {c} : client'[x] = Released(w)[x]
      /\ client'[c].fileOpen = Released(w)[c].fileOpen
      /\ client'[c].reply = TRUE
  BY <1>3, <1>4, <1>5 DEF ClientState
<1>7. /\ \A x \in Clients \ {c} : client'[x] = client[x]
      /\ client'[c].fileOpen = FALSE /\ client'[c].reply = TRUE
  BY <1>3, <1>5, <1>6
<1>8. \A o \in Objects : /\ closed'[o] => closed[o] \/ o = w
                         /\ closed[o] => closed'[o]
  BY <1>1, <1>4
<1>9. w \in Live \cap Workers /\ owner[w] = c
  BY <1>2 DEF c
<1>10. /\ c \in Clients \cap Live
       /\ \A o \in Objects : closed'[o] =>
            closed[o] \/ o = c \/ (o \in Live \cap Workers /\ owner[o] = c /\ ~client'[c].fileOpen)
       /\ \A o \in Objects : closed[o] /\ o # c => closed'[o]
  BY <1>2, <1>3, <1>7, <1>8, <1>9
<1>11. /\ turn' \subseteq turn /\ conn' = conn /\ Worsens
  BY DEF Finishes, Advance, Worsens
<1>12. ASSUME ~closed'[c], conn[c] # "residue", c \in turn', ReturnedTo(c) = "in"
       PROVE  conn[c] = "reset"
  <2>1. Busy(w, c) /\ ~closed[c]
    BY <1>1, <1>4, <1>9, <1>10, <1>12 DEF Busy, Works, Serve, Gone, Objects, Sessions
  <2>2. OnHold(c)
    BY <1>10, <1>12, <2>1 DEF TeamInv, HeldWhileIntact
  <2>3. QED
    BY <1>11, <1>12, <2>2 DEF OnHold
<1>13. ArmedWith(c, "out")
  BY <1>7, <1>11, <1>12 DEF ArmedWith
<1>14. /\ TableInv /\ c \in Clients \cap Live /\ "out" \in Events
       /\ pfds' = SetEvents(c, "out") /\ UNCHANGED <<pollables, index>>
       /\ owner' = owner /\ Worsens
       /\ \A x \in Clients \ {c} : /\ client'[x].fileOpen = client[x].fileOpen
                                  /\ client'[x].reply = client[x].reply
       /\ client'[c].fileOpen => client[c].fileOpen
  BY <1>1, <1>4, <1>7, <1>10, <1>11
<1>15. QED
  BY <1>10, <1>13, <1>14, FlowOneClient

\* The visits to a file or a CGI output.
LEMMA FlowWorker ==
  ASSUME ScanInv, TeamInv, FlowInv, NEW w \in Workers, VisitFile(w) \/ VisitCgi(w)
  PROVE  FlowInv'
<1>1. CASE RetireWorker(w)
  BY <1>1, FlowRetires
<1>2. CASE \/ Idle(w) \/ UseAfterDelete(w) \/ FileProgress(w)
           \/ CgiReads(w) \/ CgiWaits(w)
  <2>1. UNCHANGED <<table, owner, client, closed>> /\ Worsens
    BY <1>2
    DEF Idle, UseAfterDelete, FileProgress, CgiReads, CgiWaits, Advance, Worsens
  <2>2. QED
    BY <2>1, FlowSameTable DEF ScanInv
<1>3. CASE FileEnds(w) \/ CgiEnds(w) \/ CgiFails(w)
  BY <1>3, FlowFinishes DEF FileEnds, CgiEnds, CgiFails
<1>4. QED
  BY <1>1, <1>2, <1>3 DEF VisitFile, VisitCgi

\* poll() writes the returned events only, and reports no POLLIN to a slot that
\* asks for POLLOUT unless the connection is broken.
LEMMA FlowPoll ==
  ASSUME ScanInv, FlowInv, Poll
  PROVE  FlowInv'
<1>1. TableInv
  BY DEF ScanInv
<1>2. PICK ready \in SUBSET DOMAIN pfds :
        pfds' = [i \in DOMAIN pfds |->
                   [pfds[i] EXCEPT !.revents = IF i \in ready THEN Reported(i) ELSE "none"]]
  BY DEF Poll
<1>3. Live' = Live /\ UNCHANGED <<index, owner, client, closed, conn>>
  BY DEF Poll, Live, Occupants
<1>4. ClosedAreLive' /\ DeadAreNew' /\ OpenFileIsServed'
  BY <1>3 DEF FlowInv, ClosedAreLive, DeadAreNew, OpenFileIsServed
<1>5. ASSUME NEW x \in Live \cap Clients PROVE ArmedAt(x)'
  <2> DEFINE i == index[x]
  <2>1. i \in DOMAIN pfds /\ pfds[i] \in Pfd /\ pollables[i] = x
    BY <1>1, SlotOf
  <2>2. /\ pfds'[i].events = pfds[i].events
        /\ pfds'[i].revents = IF i \in ready THEN Reported(i) ELSE "none"
    BY <1>2, <2>1 DEF Pfd
  <2>3. ArmedAt(x)
    BY DEF FlowInv, RepliesAreArmed
  <2>4. pfds[i].events = "out" /\ Reported(i) = "in" => conn[x] \in {"reset", "residue"}
    BY <2>1 DEF Reported, Broken
  <2>5. QED
    BY <1>3, <2>2, <2>3, <2>4 DEF ArmedAt, EventsOf, ReturnedTo
<1>6. QED
  BY <1>3, <1>4, <1>5 DEF FlowInv, RepliesAreArmed

LEMMA FlowStep ==
  ASSUME OpenFails = FALSE, ScanInv, TeamInv, FlowInv, [Next]_vars
  PROVE  FlowInv'
<1>1. CASE Tick \/ Halted \/ UNCHANGED vars \/ \E c \in Clients : PeerEnds(c)
  <2>1. UNCHANGED <<table, owner, client, closed, turn>>
    BY <1>1 DEF Tick, Halted, PeerEnds, vars, scan
  <2>2. \A x \in Clients : conn[x] \in {"reset", "residue"} => conn'[x] = conn[x]
    BY <1>1 DEF Tick, Halted, PeerEnds, vars, ScanInv, TableInv, TypeOK
  <2>3. QED
    BY <2>1, <2>2, FlowSameTable DEF ScanInv, Worsens
<1>2. CASE Visit
  <2>1. Files \subseteq Workers /\ Cgis \subseteq Workers
    BY DEF Workers
  <2>2. QED
    BY <1>2, <2>1, FlowListener, FlowClient, FlowWorker DEF Visit
<1>3. QED
  BY <1>1, <1>2, FlowPoll DEF Next

LEMMA InitFlow == Init => FlowInv
<1> SUFFICES ASSUME Init PROVE FlowInv
  OBVIOUS
<1>1. Live \cap Clients = {} /\ Clients \subseteq Objects
  BY LoopAssumption DEF Init, LoopAssumption, Sessions, Objects
<1>2. /\ \A o \in Objects : ~closed[o]
      /\ \A c \in Clients : ~client[c].fileOpen /\ ~client[c].reply
  BY DEF Init, NewClient
<1>3. QED
  BY <1>1, <1>2 DEF FlowInv, ClosedAreLive, DeadAreNew, OpenFileIsServed, RepliesAreArmed

-----------------------------------------------------------------------------
(***************************************************************************)
(* _file_open, which keeps a closed connection in the table, is set only   *)
(* while a FileFD that will clear it is there (ClientFD, FileFD::setClosed,*)
(* Server::run): no connection is kept for ever for a file that is gone.   *)
(***************************************************************************)
THEOREM FileIsThere ==
  ASSUME OpenFails = FALSE
  PROVE  Spec => []OpenFileIsServed
<1> DEFINE Inv == ScanInv /\ TeamInv /\ FlowInv
<1>1. Inv /\ [Next]_vars => Inv'
  BY ScanStep, WorkStep, FlowStep
<1>2. Init => Inv
  BY InitScan, InitWork, InitFlow
<1>3. Inv => OpenFileIsServed
  BY DEF FlowInv
<1>4. QED
  BY <1>1, <1>2, <1>3, PTL DEF Spec

(***************************************************************************)
(* A connection with a reply to send is polled for POLLOUT, and no other   *)
(* is, after every exchange of slots and however peers break: the _index a *)
(* worker's setupResponse goes through is the connection's own, and only   *)
(* a reset with bytes unread puts an unsent reply on hold.                 *)
(***************************************************************************)
THEOREM ReplyIsPolledFor ==
  ASSUME OpenFails = FALSE
  PROVE  Spec => []ReplyIsArmed
<1> DEFINE Inv == ScanInv /\ TeamInv /\ FlowInv
<1>1. Inv /\ [Next]_vars => Inv'
  BY ScanStep, WorkStep, FlowStep
<1>2. Init => Inv
  BY InitScan, InitWork, InitFlow
<1>3. Inv => ReplyIsArmed
  BY DEF FlowInv, RepliesAreArmed, ArmedAt, ReplyIsArmed, EventsOf
<1>4. QED
  BY <1>1, <1>2, <1>3, PTL DEF Spec

-----------------------------------------------------------------------------
(***************************************************************************)
(* No FileFD or CgiFD follows its _client after Server::remove deleted the *)
(* ClientFD, for any number of connections, files and scripts.  It rests   *)
(* on what the code does not ensure itself: two scans fit in the timeout,  *)
(* and peers neither go while a script works for them nor reset a          *)
(* connection with bytes unread.                                           *)
(***************************************************************************)

\* The longest time since w's last visit, or since it was made: what was left
\* of the last scan, and what has passed of this one.
Bound(w) == IF w \in turn THEN ScanTime + lapse ELSE lapse

\* The owner of a worker has been visited, and is visited once in each scan.
OwnersSeen ==
  \A w \in Live \cap Workers :
    owner[w] \in Live => owner[w] \in turn \/ index[owner[w]] < pos

\* A file at work has its connection, which _file_open keeps; one that is done
\* is removed before it can time out.
FileLife(f) ==
  /\ closed[f] => age[f] <= Bound(f)
  /\ ~closed[f] => owner[f] \in Live /\ client[owner[f]].fileOpen

\* A connection that is open and cannot time out before w is visited.
Kept(c, w) == ~closed[c] /\ age[c] <= Bound(w)

\* A script has its connection until it is removed itself.  While it is busy
\* the connection is on hold; when it is done, the connection has the reply to
\* send, and cannot go on to open a file before the script is removed.
ScriptLife(g) ==
  LET c == owner[g] IN
  /\ c \in Live /\ conn[c] = "open"
  /\ EventsOf(g) = "in" /\ (g \in turn => ReturnedTo(g) = "in")
  /\ ~closed[g] => Kept(c, g)
  /\ closed[g] =>
       /\ ~client[c].fileOpen
       /\ g \notin turn =>
            /\ Kept(c, g) /\ EventsOf(c) = "out"
            /\ c \in turn => ReturnedTo(c) = "none"
       /\ g \in turn /\ c \in turn => Kept(c, g) /\ ReturnedTo(c) \in {"none", "out"}

\* The inductive invariant.
LifeInv ==
  /\ ~fault
  /\ OwnersSeen
  /\ \A f \in Live \cap Files : FileLife(f)
  /\ \A g \in Live \cap Cgis : ScriptLife(g)

-----------------------------------------------------------------------------
(***************************************************************************)
(* Kinds and times.                                                        *)
(***************************************************************************)
LEMMA LoopKinds ==
  ASSUME TableInv
  PROVE  /\ Workers \subseteq Objects /\ Clients \subseteq Objects
         /\ Workers \subseteq Sessions /\ Clients \subseteq Sessions
         /\ Files \subseteq Workers /\ Cgis \subseteq Workers
         /\ Workers \cap Clients = {} /\ Files \cap Cgis = {}
         /\ Listeners \cap Workers = {} /\ Listeners \cap Clients = {}
         /\ closed \in [Objects -> BOOLEAN] /\ age \in [Sessions -> 0 .. Timeout + 1]
         /\ owner \in [Workers -> Clients \cup {Null}]
         /\ client \in [Clients -> ClientState]
         /\ index \in [Objects -> Nat] /\ pos \in Nat \ {0}
         /\ lapse \in 0 .. ScanTime /\ ScanTime \in Nat /\ Timeout \in Nat
         /\ Live \subseteq Objects
BY LoopAssumption
DEF LoopAssumption, TableInv, TypeOK, Objects, Sessions, Workers, Live, Occupants

\* Who waited no longer than Bound has not timed out.
LEMMA NotExpired ==
  ASSUME TableInv, ScanTime + ScanTime <= Timeout,
         NEW w, NEW o \in Sessions, age[o] <= Bound(w)
  PROVE  ~Expired(o)
BY LoopKinds DEF Bound, Expired

\* The slot of an object being visited is where the scan is.
LEMMA VisitedSlot ==
  ASSUME ScanInv, NEW o, At(o)
  PROVE  /\ o \in Live /\ index[o] = pos /\ pos \in DOMAIN pollables
         /\ EventsOf(o) = pfds[pos].events /\ ReturnedTo(o) = pfds[pos].revents
         /\ ReturnedTo(o) # "none" => o \in turn
<1>1. /\ o \in Live /\ pos \in DOMAIN pollables /\ pollables[pos] = o
  BY Visited
<1>2. index[o] = pos
  BY <1>1 DEF ScanInv, TableInv, VectorsAgree
<1>3. pos \in pos .. Len(pollables)
  BY <1>1 DEF ScanInv, TableInv, TypeOK
<1>4. QED
  BY <1>1, <1>2, <1>3 DEF ScanInv, NobodySkipped, EventsOf, ReturnedTo

\* Who is still to be visited is in the table.
LEMMA TurnIsLive ==
  ASSUME ScanInv
  PROVE  turn \subseteq Live
<1>1. /\ pos \in Nat \ {0} /\ Len(pollables) \in Nat
      /\ DOMAIN pollables = 1 .. Len(pollables)
  BY DEF ScanInv, TableInv, TypeOK
<1>2. pos .. Len(pollables) \subseteq DOMAIN pollables
  BY <1>1
<1>3. QED
  BY <1>2 DEF ScanInv, NobodySkipped, Live, Occupants

\* A connection with a script in the table, when it is visited: it is open, and
\* there is nothing to do but, perhaps, to send the reply of the script.
LEMMA ScriptWaits ==
  ASSUME ScanInv, WorkInv, LifeInv, ScanTime + ScanTime <= Timeout,
         NEW c \in Clients, At(c), NEW g \in Live \cap Cgis, owner[g] = c
  PROVE  /\ ~Gone(c)
         /\ \/ pfds[pos].revents = "none"
            \/ pfds[pos].revents = "out" /\ closed[g] /\ g \in turn
<1>1. TableInv /\ ScriptLife(g)
  BY DEF ScanInv, LifeInv
<1>2. c \in Live /\ index[c] = pos /\ ReturnedTo(c) = pfds[pos].revents
  BY VisitedSlot
<1>3. c \in turn
  <2>1. g \in Live \cap Workers /\ pos \in Nat
    BY <1>1, LoopKinds
  <2>2. QED
    BY <1>2, <2>1 DEF LifeInv, OwnersSeen
<1>4. Kept(c, g) /\ conn[c] = "open"
  BY <1>1, <1>3 DEF ScriptLife
<1>5. ~Gone(c)
  BY <1>1, <1>4, NotExpired, LoopKinds DEF Gone, Kept
<1>6. CASE ~closed[g]
  <2>1. Busy(g, c)
    BY <1>6 DEF Busy, Workers
  <2>2. OnHold(c)
    BY <1>2, <1>4, <2>1 DEF WorkInv, BusyIsHeld, Busy, Kept
  <2>3. QED
    BY <1>2, <1>3, <1>4, <1>5, <2>2 DEF OnHold
<1>7. CASE closed[g]
  BY <1>1, <1>2, <1>3, <1>5, <1>7 DEF ScriptLife
<1>8. QED
  BY <1>6, <1>7

-----------------------------------------------------------------------------
(***************************************************************************)
(* Visits after which the loop goes on to the next slot.                   *)
(***************************************************************************)

\* A script through a visit to o that is not its last.
LEMMA ScriptAdvance ==
  ASSUME TableInv, NEW o, NEW g \in Live \cap Cgis, ScriptLife(g),
         turn' = turn \ {o}, lapse' = lapse, Live' = Live, owner' = owner, conn' = conn,
         EventsOf(g)' = EventsOf(g), ReturnedTo(g)' = ReturnedTo(g),
         ReturnedTo(owner[g])' = ReturnedTo(owner[g]),
         closed'[g] = closed[g], age'[owner[g]] <= age[owner[g]], age'[owner[g]] \in Nat,
         client'[owner[g]].fileOpen => client[owner[g]].fileOpen,
         owner[g] \in Clients,
         \/ /\ closed'[owner[g]] = closed[owner[g]]
            /\ EventsOf(owner[g])' \in {EventsOf(owner[g]), "out"}
            /\ g = o => ~closed[g] /\ (g \in turn => age'[owner[g]] = 0)
         \/ g # o /\ owner[g] = o /\ closed[g] /\ g \in turn
  PROVE  ScriptLife(g)'
<1> DEFINE c == owner[g]
<1>1. /\ lapse \in Nat /\ ScanTime \in Nat /\ age[c] \in Nat /\ g # c
  BY LoopKinds
<1>2. c \in Live /\ conn[c] = "open" /\ EventsOf(g) = "in"
  BY DEF ScriptLife
<1>3. g \in turn' => ReturnedTo(g)' = "in"
  BY DEF ScriptLife
<1>4. CASE ~closed[g]
  <2>1. Kept(c, g) /\ closed'[c] = closed[c]
    BY <1>4 DEF ScriptLife
  <2>2. age'[c] <= Bound(g)'
    <3>1. CASE g # o
      BY <1>1, <2>1, <3>1 DEF Kept, Bound
    <3>2. CASE g = o
      BY <1>1, <2>1, <3>2 DEF Kept, Bound
    <3>3. QED
      BY <3>1, <3>2
  <2>3. Kept(c, g)'
    BY <2>1, <2>2 DEF Kept
  <2>4. QED
    BY <1>2, <1>3, <1>4, <2>3 DEF ScriptLife
<1>5. CASE closed[g]
  <2>1. g # o /\ (g \in turn' <=> g \in turn)
    BY <1>5
  <2>2. ~client'[c].fileOpen
    BY <1>5 DEF ScriptLife
  <2>3. CASE g \notin turn
    <3>1. /\ Kept(c, g) /\ EventsOf(c) = "out" /\ closed'[c] = closed[c]
          /\ c \in turn => ReturnedTo(c) = "none"
      BY <1>5, <2>3 DEF ScriptLife
    <3>2. Kept(c, g)' /\ EventsOf(c)' = "out"
      BY <1>1, <2>1, <2>3, <3>1 DEF Kept, Bound
    <3>3. QED
      BY <1>2, <1>3, <1>5, <2>1, <2>2, <2>3, <3>1, <3>2 DEF ScriptLife
  <2>4. CASE g \in turn /\ c \in turn'
    <3>1. /\ Kept(c, g) /\ ReturnedTo(c) \in {"none", "out"} /\ closed'[c] = closed[c]
      BY <1>5, <2>4 DEF ScriptLife
    <3>2. Kept(c, g)'
      BY <1>1, <2>1, <2>4, <3>1 DEF Kept, Bound
    <3>3. QED
      BY <1>2, <1>3, <1>5, <2>1, <2>2, <2>4, <3>1, <3>2 DEF ScriptLife
  <2>5. CASE g \in turn /\ c \notin turn'
    BY <1>2, <1>3, <1>5, <2>1, <2>2, <2>5 DEF ScriptLife
  <2>6. QED
    BY <2>3, <2>4, <2>5
<1>6. QED
  BY <1>4, <1>5

\* The other conjuncts of the invariant through such a visit.
LEMMA LifeAdvance ==
  ASSUME ScanInv, LifeInv, NEW o, At(o), Advance,
         Live' = Live, owner' = owner, index' = index,
         \A f \in Live \cap Files :
           \/ /\ closed'[f] = closed[f] /\ age'[f] \in Nat /\ age'[f] <= age[f]
              /\ closed[f] => f # o
              /\ ~closed[f] => client'[owner[f]].fileOpen
           \/ closed'[f] /\ age'[f] = 0,
         \A g \in Live \cap Cgis : ScriptLife(g)'
  PROVE  LifeInv'
<1>1. /\ turn' = turn \ {o} /\ lapse' = lapse /\ pos' = pos + 1 /\ fault' = fault
      /\ index[o] = pos /\ TableInv
  BY VisitedSlot DEF Advance, At, ScanInv
<1>2. /\ pos \in Nat /\ lapse \in Nat /\ ScanTime \in Nat /\ index \in [Objects -> Nat]
      /\ Live \subseteq Objects /\ age \in [Sessions -> 0 .. Timeout + 1]
      /\ Files \subseteq Sessions /\ Timeout \in Nat
  BY <1>1, LoopKinds
<1>3. OwnersSeen'
  <2>1. SUFFICES ASSUME NEW w \in Live \cap Workers, owner[w] \in Live
                 PROVE  owner[w] \in turn' \/ index[owner[w]] < pos'
    BY DEF OwnersSeen
  <2>2. owner[w] \in turn \/ index[owner[w]] < pos
    BY <2>1 DEF LifeInv, OwnersSeen
  <2>3. index[owner[w]] \in Nat
    BY <1>2, <2>1
  <2>4. QED
    BY <1>1, <1>2, <2>2, <2>3
<1>4. ASSUME NEW f \in Live \cap Files PROVE FileLife(f)'
  <2>1. FileLife(f) /\ age[f] \in Nat
    BY <1>2 DEF LifeInv
  <2>2. CASE closed'[f] /\ age'[f] = 0
    BY <1>1, <1>2, <2>2 DEF FileLife, Bound
  <2>3. CASE /\ closed'[f] = closed[f] /\ age'[f] \in Nat /\ age'[f] <= age[f]
             /\ closed[f] => f # o
             /\ ~closed[f] => client'[owner[f]].fileOpen
    BY <1>1, <1>2, <2>1, <2>3 DEF FileLife, Bound
  <2>4. QED
    BY <2>2, <2>3
<1>5. QED
  BY <1>1, <1>3, <1>4 DEF LifeInv

\* Visits to a listening socket or a connection that neither add nor remove.
LEMMA LifeClientStep ==
  ASSUME ScanInv, WorkInv, LifeInv, NEW o \in Listeners \cup Clients, At(o), Advance,
         Live' = Live, owner' = owner, conn' = conn, index' = index,
         \A x \in Live : /\ ReturnedTo(x)' = ReturnedTo(x)
                         /\ x # o => EventsOf(x)' = EventsOf(x),
         \A x \in Objects : x # o => closed'[x] = closed[x],
         \A x \in Sessions : age'[x] \in Nat /\ age'[x] <= age[x],
         \A x \in Clients : client'[x].fileOpen = client[x].fileOpen,
         \A g \in Live \cap Cgis : owner[g] = o =>
           \/ closed'[o] = closed[o] /\ EventsOf(o)' = EventsOf(o)
           \/ closed[g] /\ g \in turn
  PROVE  LifeInv'
<1>1. TableInv /\ turn' = turn \ {o} /\ lapse' = lapse
  BY DEF ScanInv, Advance, At
<1>2. /\ o \notin Workers /\ Files \subseteq Workers /\ Cgis \subseteq Workers
      /\ Workers \subseteq Objects /\ Workers \subseteq Sessions
      /\ Clients \subseteq Objects /\ Clients \subseteq Sessions
  BY <1>1, LoopKinds
<1>3. ASSUME NEW g \in Live \cap Cgis PROVE ScriptLife(g)'
  <2>1. ScriptLife(g) /\ owner[g] \in Live /\ owner[g] \in Clients
    BY <1>2 DEF LifeInv, ScriptLife, WorkInv, HaveOwners
  <2>2. /\ g # o /\ EventsOf(g)' = EventsOf(g) /\ ReturnedTo(g)' = ReturnedTo(g)
        /\ ReturnedTo(owner[g])' = ReturnedTo(owner[g])
        /\ closed'[g] = closed[g]
        /\ age'[owner[g]] <= age[owner[g]] /\ age'[owner[g]] \in Nat
        /\ client'[owner[g]].fileOpen => client[owner[g]].fileOpen
    BY <1>2, <2>1
  <2>3. \/ /\ closed'[owner[g]] = closed[owner[g]]
           /\ EventsOf(owner[g])' = EventsOf(owner[g])
        \/ owner[g] = o /\ closed[g] /\ g \in turn
    BY <1>2, <2>1
  <2>4. QED
    BY <1>1, <2>1, <2>2, <2>3, ScriptAdvance
<1>4. ASSUME NEW f \in Live \cap Files
      PROVE  /\ closed'[f] = closed[f] /\ age'[f] \in Nat /\ age'[f] <= age[f]
             /\ closed[f] => f # o
             /\ ~closed[f] => client'[owner[f]].fileOpen
  <2>1. FileLife(f) /\ owner[f] \in Clients
    BY <1>2 DEF LifeInv, WorkInv, HaveOwners
  <2>2. QED
    BY <1>2, <2>1 DEF FileLife
<1>5. QED
  BY <1>3, <1>4, LifeAdvance

\* updateTick makes nobody older.
LEMMA TouchLowers ==
  ASSUME TableInv, NEW S, Touch(S)
  PROVE  \A x \in Sessions : /\ age'[x] \in Nat /\ age'[x] <= age[x]
                             /\ x \in S => age'[x] = 0
                             /\ x \notin S => age'[x] = age[x]
BY LoopKinds DEF Touch

\* The slots after the events of one object are set.
LEMMA SlotsSetEvents ==
  ASSUME TableInv, NEW c \in Live, NEW e \in Events, pfds' = SetEvents(c, e),
         index' = index
  PROVE  \A x \in Live : /\ ReturnedTo(x)' = ReturnedTo(x)
                         /\ EventsOf(x)' = IF x = c THEN e ELSE EventsOf(x)
<1> SUFFICES ASSUME NEW x \in Live
             PROVE  /\ ReturnedTo(x)' = ReturnedTo(x)
                    /\ EventsOf(x)' = IF x = c THEN e ELSE EventsOf(x)
  OBVIOUS
<1>1. index[x] \in DOMAIN pfds
  BY SlotOf
<1>2. SetEvents(c, e)[index[x]].revents = pfds[index[x]].revents
  BY <1>1, SetEventsShape DEF TableInv
<1>3. SetEvents(c, e)[index[x]].events = IF x = c THEN e ELSE EventsOf(x)
  BY EventsSet
<1>4. QED
  BY <1>2, <1>3 DEF EventsOf, ReturnedTo

-----------------------------------------------------------------------------
(***************************************************************************)
(* Visits that add an object.                                              *)
(***************************************************************************)

\* A connection is accepted at an address nobody uses.
LEMMA LifeAccept ==
  ASSUME ScanInv, WorkInv, LifeInv, NEW s \in Listeners, At(s), Advance,
         NEW c \in Clients, Free(c), Enlist(c, c, "in", pfds),
         UNCHANGED <<owner, closed, age, client, conn>>
  PROVE  LifeInv'
<1>1. TableInv
  BY DEF ScanInv
<1>2. /\ c \in Objects \ Live /\ c \notin Workers /\ pfds \in Seq(Pfd) /\ "in" \in Events
      /\ s \notin Workers /\ s \notin Clients
      /\ Files \subseteq Workers /\ Cgis \subseteq Workers
      /\ Live \subseteq Objects /\ index \in [Objects -> Nat] /\ pos \in Nat
  BY <1>1, LoopKinds DEF TableInv, TypeOK, Events, Free
<1>3. /\ Live' = Live \cup {c}
      /\ \A x \in Live : pfds'[index'[x]] = pfds[index[x]]
      /\ \A x \in Live : index'[x] = index[x]
  <2>1. /\ Live' = Live \cup {c}
        /\ \A x \in Live : pfds'[index'[x]] = pfds[index[x]]
    BY <1>1, <1>2, SlotEnlist
  <2>2. \A x \in Live : index'[x] = index[x]
    BY <1>2 DEF Enlist
  <2>3. QED
    BY <2>1, <2>2
<1>4. /\ turn' = turn \ {s} /\ lapse' = lapse /\ pos' = pos + 1 /\ fault' = fault
  BY DEF Advance, At
<1>5. ASSUME NEW w \in Workers, w \in Live'
      PROVE  /\ w \in Live /\ owner[w] # c /\ owner[w] \in Clients
             /\ owner[w] \in Live' => owner[w] \in Live
             /\ (w \in turn' <=> w \in turn) /\ (owner[w] \in turn' <=> owner[w] \in turn)
  BY <1>2, <1>3, <1>4, <1>5 DEF Free, WorkInv, HaveOwners
<1>6. OwnersSeen'
  <2>1. SUFFICES ASSUME NEW w \in Live' \cap Workers, owner[w] \in Live'
                 PROVE  owner[w] \in turn' \/ index'[owner[w]] < pos'
    BY DEF OwnersSeen
  <2>2. /\ owner[w] \in turn \/ index[owner[w]] < pos
        /\ index'[owner[w]] = index[owner[w]] /\ index[owner[w]] \in Nat
    BY <1>2, <1>3, <1>5, <2>1 DEF LifeInv, OwnersSeen
  <2>3. QED
    BY <1>2, <1>4, <1>5, <2>1, <2>2
<1>7. \A f \in Live' \cap Files : FileLife(f)'
  BY <1>2, <1>3, <1>4, <1>5 DEF LifeInv, FileLife, Bound
<1>8. ASSUME NEW g \in Live' \cap Cgis PROVE ScriptLife(g)'
  <2>1. g \in Live /\ ScriptLife(g) /\ owner[g] \in Live
    BY <1>2, <1>5 DEF LifeInv, ScriptLife
  <2>2. /\ EventsOf(g)' = EventsOf(g) /\ ReturnedTo(g)' = ReturnedTo(g)
        /\ EventsOf(owner[g])' = EventsOf(owner[g])
        /\ ReturnedTo(owner[g])' = ReturnedTo(owner[g])
        /\ Bound(g)' = Bound(g)
    BY <1>2, <1>3, <1>4, <1>5, <2>1 DEF EventsOf, ReturnedTo, Bound
  <2>3. QED
    BY <1>2, <1>3, <1>5, <2>1, <2>2 DEF ScriptLife, Kept
<1>9. QED
  BY <1>4, <1>6, <1>7, <1>8 DEF LifeInv

\* A file or a script is started for the connection being visited.
LEMMA LifeHires ==
  ASSUME ScanInv, FlowInv, WorkInv, LifeInv, ScanTime + ScanTime <= Timeout,
         NEW c \in Clients, At(c), Advance, pfds[pos].revents = "in",
         NEW w \in Workers \ Live, NEW e \in Events,
         Enlist(w, w, e, SetEvents(c, "hold")),
         owner' = [owner EXCEPT ![w] = c], Touch({c}), conn' = conn,
         \A x \in Objects : x # c => closed'[x] = closed[x],
         \A x \in Clients : client[x].fileOpen => client'[x].fileOpen,
         \A x \in Clients : x # c => client'[x] = client[x],
         w \in Files => client'[c].fileOpen,
         w \in Cgis => e = "in" /\ conn[c] = "open" /\ ~closed'[c]
  PROVE  LifeInv'
<1>1. TableInv /\ c \in Live /\ index[c] = pos
  BY VisitedSlot DEF ScanInv
<1>2. /\ w \in Objects \ Live /\ w \notin Clients
      /\ Workers \subseteq Objects /\ Workers \subseteq Sessions
      /\ Workers \cap Clients = {}
      /\ Clients \subseteq Objects /\ Clients \subseteq Sessions
      /\ Files \subseteq Workers /\ Cgis \subseteq Workers /\ Files \cap Cgis = {}
      /\ Live \subseteq Objects /\ index \in [Objects -> Nat] /\ pos \in Nat
      /\ owner \in [Workers -> Clients \cup {Null}] /\ lapse \in Nat /\ ScanTime \in Nat
      /\ "hold" \in Events
  BY <1>1, LoopKinds DEF Events
<1>3. \A g \in Live \cap Cgis : owner[g] # c
  BY ScriptWaits
<1>4. /\ SetEvents(c, "hold") \in Seq(Pfd) /\ Len(SetEvents(c, "hold")) = Len(pfds)
      /\ \A i \in DOMAIN pfds : SetEvents(c, "hold")[i].revents = pfds[i].revents
  BY <1>1, <1>2, SetEventsShape DEF TableInv
<1>5. /\ Live' = Live \cup {w}
      /\ pfds'[index'[w]] = NewPfd(w, e)
      /\ \A x \in Live : pfds'[index'[x]] = SetEvents(c, "hold")[index[x]]
      /\ \A x \in Live : index'[x] = index[x]
  <2>1. /\ Live' = Live \cup {w}
        /\ pfds'[index'[w]] = NewPfd(w, e)
        /\ \A x \in Live : pfds'[index'[x]] = SetEvents(c, "hold")[index[x]]
    BY <1>1, <1>2, <1>4, SlotEnlist
  <2>2. \A x \in Live : index'[x] = index[x]
    BY <1>2 DEF Enlist
  <2>3. QED
    BY <2>1, <2>2
<1>6. \A x \in Live : /\ x # c => EventsOf(x)' = EventsOf(x)
                      /\ ReturnedTo(x)' = ReturnedTo(x)
  <2>1. \A x \in Live : index[x] \in DOMAIN pfds
    BY <1>1, SlotOf
  <2>2. QED
    BY <1>1, <1>2, <1>4, <1>5, <2>1, EventsSet DEF EventsOf, ReturnedTo
<1>7. /\ turn' = turn \ {c} /\ lapse' = lapse /\ pos' = pos + 1 /\ fault' = fault
      /\ w \notin turn
  BY TurnIsLive DEF Advance, At
<1>8. /\ age'[c] = 0 /\ \A x \in Sessions : x # c => age'[x] = age[x]
      /\ owner'[w] = c /\ \A v \in Workers : v # w => owner'[v] = owner[v]
      /\ ~closed'[w]
  BY <1>1, <1>2, TouchLowers DEF FlowInv, ClosedAreLive
<1>9. ASSUME NEW v \in Workers, v \in Live', v # w
      PROVE  /\ v \in Live /\ owner'[v] = owner[v] /\ owner[v] \in Clients
             /\ owner[v] \in Live' => owner[v] \in Live
             /\ v # c /\ (v \in turn' <=> v \in turn) /\ closed'[v] = closed[v]
             /\ age'[v] = age[v]
  BY <1>2, <1>5, <1>7, <1>8, <1>9 DEF WorkInv, HaveOwners
<1>10. OwnersSeen'
  <2>1. SUFFICES ASSUME NEW v \in Live' \cap Workers, owner'[v] \in Live'
                 PROVE  owner'[v] \in turn' \/ index'[owner'[v]] < pos'
    BY DEF OwnersSeen
  <2>2. CASE owner'[v] = c
    BY <1>1, <1>2, <1>5, <1>7, <2>2
  <2>3. CASE owner'[v] # c
    <3>1. v \in Live /\ owner'[v] = owner[v] /\ owner[v] \in Live
      BY <1>8, <1>9, <2>1, <2>3
    <3>2. /\ owner[v] \in turn \/ index[owner[v]] < pos
          /\ index'[owner[v]] = index[owner[v]] /\ index[owner[v]] \in Nat
      BY <1>2, <1>5, <3>1 DEF LifeInv, OwnersSeen
    <3>3. QED
      BY <1>2, <1>7, <2>3, <3>1, <3>2
  <2>4. QED
    BY <2>2, <2>3
<1>11. ASSUME NEW f \in Live' \cap Files PROVE FileLife(f)'
  <2>1. CASE f = w
    BY <1>1, <1>5, <1>8, <2>1 DEF FileLife
  <2>2. CASE f # w
    <3>1. FileLife(f) /\ f \in Workers
      BY <1>2, <1>9, <2>2 DEF LifeInv
    <3>2. Bound(f)' = Bound(f)
      BY <1>7, <1>9, <2>2, <3>1 DEF Bound
    <3>3. QED
      BY <1>5, <1>9, <2>2, <3>1, <3>2 DEF FileLife
  <2>3. QED
    BY <2>1, <2>2
<1>12. ASSUME NEW g \in Live' \cap Cgis PROVE ScriptLife(g)'
  <2>1. CASE g = w
    <3>1. EventsOf(g)' = "in" /\ g \notin turn'
      BY <1>5, <1>7, <2>1 DEF EventsOf, NewPfd
    <3>2. Kept(c, g)'
      BY <1>2, <1>7, <1>8, <2>1, <3>1 DEF Kept, Bound
    <3>3. QED
      BY <1>1, <1>5, <1>8, <2>1, <3>1, <3>2 DEF ScriptLife
  <2>2. CASE g # w
    <3>1. /\ g \in Live /\ g \in Workers /\ g # c
          /\ owner'[g] = owner[g] /\ owner[g] \in Clients
      BY <1>2, <1>9, <2>2
    <3>2. ScriptLife(g) /\ owner[g] \in Live /\ owner[g] # c
      BY <1>3, <3>1 DEF LifeInv, ScriptLife
    <3>3. /\ EventsOf(g)' = EventsOf(g) /\ ReturnedTo(g)' = ReturnedTo(g)
          /\ EventsOf(owner[g])' = EventsOf(owner[g])
          /\ ReturnedTo(owner[g])' = ReturnedTo(owner[g])
          /\ Bound(g)' = Bound(g) /\ (owner[g] \in turn' <=> owner[g] \in turn)
          /\ closed'[g] = closed[g] /\ closed'[owner[g]] = closed[owner[g]]
          /\ age'[owner[g]] = age[owner[g]] /\ client'[owner[g]] = client[owner[g]]
          /\ (g \in turn' <=> g \in turn) /\ owner[g] \in Live'
      BY <1>2, <1>5, <1>6, <1>7, <1>8, <3>1, <3>2 DEF Bound
    <3>4. QED
      BY <3>1, <3>2, <3>3 DEF ScriptLife, Kept
  <2>3. QED
    BY <2>1, <2>2
<1>13. QED
  BY <1>7, <1>10, <1>11, <1>12 DEF LifeInv

-----------------------------------------------------------------------------
(***************************************************************************)
(* Server::remove.                                                         *)
(***************************************************************************)

\* Nobody left in the table needs the object removed.
LEMMA LifeRemove ==
  ASSUME ScanInv, WorkInv, LifeInv, NEW o, At(o), NEW freed, Remove(freed),
         \A f \in Live \cap Files : f # o /\ ~closed[f] =>
           owner[f] # o /\ freed[owner[f]].fileOpen,
         \A g \in Live \cap Cgis : g # o => owner[g] # o,
         \A x \in Clients : freed[x].fileOpen => client[x].fileOpen
  PROVE  LifeInv'
<1>1. /\ TableInv /\ o \in Live /\ index[o] = pos /\ pos \in DOMAIN pollables
      /\ pollables[pos] = o
  BY VisitedSlot, Visited DEF ScanInv
<1>2. /\ o \in Objects /\ Files \subseteq Workers /\ Cgis \subseteq Workers
      /\ Workers \subseteq Objects /\ Workers \subseteq Sessions
      /\ Clients \subseteq Objects /\ Clients \subseteq Sessions
      /\ index \in [Objects -> Nat] /\ closed \in [Objects -> BOOLEAN] /\ pos \in Nat
  BY <1>1, LoopKinds
<1>3. /\ Live' = Live \ {o}
      /\ \A x \in Live' : /\ EventsOf(x)' = EventsOf(x)
                          /\ ReturnedTo(x)' = ReturnedTo(x)
  BY <1>1, SlotRemove DEF EventsOf, ReturnedTo
<1>4. Deleted = o
  BY <1>1, DeletedIsVisited DEF ScanInv
<1>5. /\ turn' = turn \ {o} /\ pos' = pos /\ lapse' = lapse /\ fault' = fault
      /\ \A x \in Objects : x # o => closed'[x] = closed[x]
      /\ \A x \in Sessions : x # o => age'[x] = age[x]
      /\ \A x \in Workers : x # o => owner'[x] = owner[x]
      /\ \A x \in Clients : x # o => conn'[x] = conn[x] /\ client'[x] = freed[x]
  BY <1>1, <1>2, <1>4 DEF Remove, SameSlotNext
<1>6. ASSUME NEW x \in Live, x # o, index[x] < pos
      PROVE  index'[x] = index[x]
  <2>1. /\ x \in Objects /\ index[x] \in 1 .. Len(pollables)
        /\ pollables[index[x]] = x
    BY <1>1, SlotOf
  <2>2. x # pollables[Len(pollables)]
    <3>1. /\ Len(pollables) \in DOMAIN pollables /\ pos <= Len(pollables)
          /\ Len(pollables) \in Nat
      BY <1>1 DEF TableInv, TypeOK
    <3>2. index[pollables[Len(pollables)]] = Len(pollables)
      BY <1>1, <3>1 DEF TableInv, VectorsAgree
    <3>3. QED
      BY <1>2, <1>6, <3>1, <3>2
  <2>3. QED
    BY <1>4, <1>6, <2>1, <2>2 DEF Remove, Reindexed, Last1
<1>7. ASSUME NEW w \in Workers, w \in Live'
      PROVE  /\ w # o /\ w \in Live /\ owner'[w] = owner[w] /\ owner[w] \in Clients
             /\ closed'[w] = closed[w] /\ age'[w] = age[w]
             /\ Bound(w)' = Bound(w) /\ (w \in turn' <=> w \in turn)
  <2>1. w # o /\ w \in Live
    BY <1>3, <1>7
  <2>2. QED
    BY <1>2, <1>5, <1>7, <2>1 DEF WorkInv, HaveOwners, Bound
<1>8. OwnersSeen'
  <2>1. SUFFICES ASSUME NEW w \in Live' \cap Workers, owner'[w] \in Live'
                 PROVE  owner'[w] \in turn' \/ index'[owner'[w]] < pos'
    BY DEF OwnersSeen
  <2>2. owner'[w] = owner[w] /\ w \in Live /\ owner[w] \in Live /\ owner[w] # o
    BY <1>3, <1>7, <2>1
  <2>3. owner[w] \in turn \/ index[owner[w]] < pos
    BY <2>1, <2>2 DEF LifeInv, OwnersSeen
  <2>4. QED
    BY <1>5, <1>6, <2>2, <2>3
<1>9. ASSUME NEW f \in Live' \cap Files PROVE FileLife(f)'
  <2>1. f \in Live /\ f # o /\ FileLife(f) /\ owner[f] \in Clients
    BY <1>2, <1>7 DEF LifeInv
  <2>2. ~closed[f] => /\ owner[f] \in Live'
                      /\ client'[owner[f]].fileOpen
    BY <1>3, <1>5, <2>1 DEF FileLife
  <2>3. QED
    BY <1>2, <1>7, <2>1, <2>2 DEF FileLife
<1>10. ASSUME NEW g \in Live' \cap Cgis PROVE ScriptLife(g)'
  <2>1. g \in Live /\ g # o /\ ScriptLife(g) /\ owner[g] \in Clients /\ owner[g] # o
    BY <1>2, <1>7 DEF LifeInv
  <2> DEFINE c == owner[g]
  <2>2. c \in Live /\ c \in Live' /\ owner'[g] = c
    BY <1>2, <1>3, <1>7, <2>1 DEF ScriptLife
  <2>3. /\ closed'[c] = closed[c] /\ age'[c] = age[c] /\ conn'[c] = conn[c]
        /\ client'[c].fileOpen => client[c].fileOpen
        /\ EventsOf(c)' = EventsOf(c) /\ ReturnedTo(c)' = ReturnedTo(c)
        /\ c \in turn' <=> c \in turn
    BY <1>2, <1>3, <1>5, <2>1, <2>2
  <2>4. /\ closed'[g] = closed[g] /\ Bound(g)' = Bound(g) /\ (g \in turn' <=> g \in turn)
        /\ EventsOf(g)' = EventsOf(g) /\ ReturnedTo(g)' = ReturnedTo(g)
    BY <1>2, <1>3, <1>7
  <2>5. QED
    BY <2>1, <2>2, <2>3, <2>4 DEF ScriptLife, Kept
<1>11. QED
  BY <1>5, <1>8, <1>9, <1>10 DEF LifeInv

-----------------------------------------------------------------------------
(***************************************************************************)
(* The visits.                                                             *)
(***************************************************************************)

\* A visit to a connection that leaves the table alone.
LEMMA LifeSameTable ==
  ASSUME ScanInv, WorkInv, LifeInv, NEW o \in Listeners \cup Clients, At(o), Advance,
         UNCHANGED <<table, owner, conn>>,
         age' = age \/ Touch({o}),
         \A x \in Objects : x # o => closed'[x] = closed[x],
         \A x \in Clients : client'[x].fileOpen = client[x].fileOpen,
         \/ closed' = closed
         \/ \A g \in Live \cap Cgis : owner[g] = o => closed[g] /\ g \in turn
  PROVE  LifeInv'
<1>1. /\ TableInv /\ o \in Objects /\ age \in [Sessions -> 0 .. Timeout + 1]
      /\ Timeout \in Nat
  BY LoopKinds DEF ScanInv, Objects, Sessions
<1>2. Live' = Live /\ index' = index /\ owner' = owner /\ conn' = conn
  BY DEF table, Live, Occupants
<1>3. \A x \in Live : ReturnedTo(x)' = ReturnedTo(x) /\ EventsOf(x)' = EventsOf(x)
  BY DEF table, EventsOf, ReturnedTo
<1>4. \A x \in Sessions : age'[x] \in Nat /\ age'[x] <= age[x]
  <2>1. CASE age' = age
    BY <1>1, <2>1
  <2>2. CASE Touch({o})
    BY <1>1, <2>2, TouchLowers
  <2>3. QED
    BY <2>1, <2>2
<1>5. o \in Live
  BY Visited
<1>6. \A g \in Live \cap Cgis : owner[g] = o =>
        \/ closed'[o] = closed[o] /\ EventsOf(o)' = EventsOf(o)
        \/ closed[g] /\ g \in turn
  BY <1>3, <1>5
<1>7. QED
  BY <1>2, <1>3, <1>4, <1>6, LifeClientStep

\* A visit to a connection that sets the events of its slot.
LEMMA LifeSetEvents ==
  ASSUME ScanInv, WorkInv, LifeInv, NEW c \in Clients, At(c), Advance,
         NEW e \in Events, pfds' = SetEvents(c, e),
         UNCHANGED <<pollables, index, owner, conn>>, Touch({c}),
         \A x \in Objects : x # c => closed'[x] = closed[x],
         \A x \in Clients : client'[x].fileOpen = client[x].fileOpen,
         \A g \in Live \cap Cgis : owner[g] = c => closed[g] /\ g \in turn
  PROVE  LifeInv'
<1>1. TableInv /\ c \in Live
  BY Visited DEF ScanInv
<1>2. Live' = Live
  BY DEF Live, Occupants
<1>3. \A x \in Live : /\ ReturnedTo(x)' = ReturnedTo(x)
                      /\ x # c => EventsOf(x)' = EventsOf(x)
  BY <1>1, SlotsSetEvents
<1>4. \A x \in Sessions : age'[x] \in Nat /\ age'[x] <= age[x]
  BY <1>1, TouchLowers
<1>5. QED
  BY <1>2, <1>3, <1>4, LifeClientStep

LEMMA LifeClient ==
  ASSUME OpenFails = FALSE, Patient = TRUE, ScanTime + ScanTime <= Timeout,
         ScanInv, FlowInv, WorkInv, LifeInv, NEW c \in Clients, VisitClient(c)
  PROVE  LifeInv'
<1>1. /\ TableInv /\ closed \in [Objects -> BOOLEAN] /\ c \in Objects
      /\ client \in [Clients -> ClientState] /\ c \in Listeners \cup Clients
      /\ "in" \in Events /\ "out" \in Events /\ "hold" \in Events
  BY LoopKinds DEF ScanInv, Events, Objects, Sessions
<1>2. ASSUME At(c), NEW g \in Live \cap Cgis, owner[g] = c
      PROVE  /\ ~Gone(c) /\ conn[c] = "open"
             /\ \/ pfds[pos].revents = "none"
                \/ pfds[pos].revents = "out" /\ closed[g] /\ g \in turn
  BY <1>2, ScriptWaits DEF LifeInv, ScriptLife
<1>3. CASE RetireClient(c)
  <2>1. At(c) /\ Gone(c) /\ ~client[c].fileOpen /\ Remove(client)
    BY <1>3 DEF RetireClient
  <2>2. \A g \in Live \cap Cgis : owner[g] # c
    BY <1>2, <2>1
  <2>3. \A f \in Live \cap Files : ~closed[f] =>
          owner[f] # c /\ client[owner[f]].fileOpen
    BY <2>1 DEF LifeInv, FileLife
  <2>4. QED
    BY <2>1, <2>2, <2>3, LifeRemove
<1>4. ASSUME Close(c)
      PROVE  \A x \in Objects : x # c => closed'[x] = closed[x]
  BY <1>1, <1>4 DEF Close
<1>5. CASE KeepForFile(c) \/ SocketError(c)
  <2>1. At(c) /\ Advance /\ Close(c) /\ UNCHANGED <<table, owner, conn, age, client>>
    BY <1>5 DEF KeepForFile, SocketError, Serve
  <2>2. \A g \in Live \cap Cgis : owner[g] # c
    BY <1>2, <1>5 DEF KeepForFile, SocketError, Serve
  <2>3. QED
    BY <1>1, <1>4, <2>1, <2>2, LifeSameTable
<1>6. CASE ReceiveFails(c) \/ SendFails(c)
  <2>1. /\ At(c) /\ Advance /\ Close(c) /\ Touch({c}) /\ conn[c] # "open"
        /\ UNCHANGED <<table, owner, conn, client>>
    BY <1>6 DEF ReceiveFails, SendFails, Serve
  <2>2. \A g \in Live \cap Cgis : owner[g] # c
    BY <1>2, <2>1
  <2>3. QED
    BY <1>1, <1>4, <2>1, <2>2, LifeSameTable
<1>7. CASE Idle(c)
  <2>1. At(c) /\ Advance /\ UNCHANGED <<table, owner, conn, age, client, closed>>
    BY <1>7 DEF Idle, Serve
  <2>2. QED
    BY <1>1, <2>1, LifeSameTable
<1>8. CASE SendsPart(c)
  <2>1. At(c) /\ Advance /\ Touch({c}) /\ UNCHANGED <<table, owner, conn, client, closed>>
    BY <1>8 DEF SendsPart, Serve
  <2>2. QED
    BY <1>1, <2>1, LifeSameTable
<1>9. ASSUME NEW b \in BOOLEAN, Receives(c, b)
      PROVE  /\ At(c) /\ Advance /\ Touch({c}) /\ conn' = conn /\ pfds[pos].revents = "in"
             /\ \A g \in Live \cap Cgis : owner[g] # c
             /\ \A x \in Objects : x # c => closed'[x] = closed[x]
             /\ conn[c] = "open" => ~closed'[c]
  <2>1. /\ At(c) /\ Advance /\ Touch({c}) /\ conn' = conn /\ pfds[pos].revents = "in"
        /\ closed' = [closed EXCEPT ![c] = ~b] /\ (~b => conn[c] = "fin")
    BY <1>9 DEF Receives, Serve
  <2>2. QED
    BY <1>1, <1>2, <2>1
<1>10. CASE NeedsMore(c)
  <2>1. PICK b \in BOOLEAN : Receives(c, b)
    BY <1>10 DEF NeedsMore
  <2>2. PICK s \in {client[c].state, "BODY"} : client' = [client EXCEPT ![c].state = s]
    BY <1>10 DEF NeedsMore
  <2>3. \A x \in Clients : client'[x].fileOpen = client[x].fileOpen
    BY <1>1, <2>2 DEF ClientState
  <2>4. UNCHANGED <<table, owner>>
    BY <1>10 DEF NeedsMore
  <2>5. UNCHANGED <<table, owner, conn>>
    BY <1>9, <2>1, <2>4
  <2>6. QED
    BY <1>1, <1>9, <2>1, <2>3, <2>5, LifeSameTable
<1>11. ASSUME NEW b \in BOOLEAN, Receives(c, b), NEW e \in Events,
              pfds' = SetEvents(c, e), UNCHANGED <<pollables, index, owner>>,
              \A x \in Clients : client'[x].fileOpen = client[x].fileOpen
       PROVE  LifeInv'
  <2>1. UNCHANGED <<pollables, index, owner, conn>>
    BY <1>9, <1>11
  <2>2. QED
    BY <1>9, <1>11, <2>1, LifeSetEvents
<1>12. ASSUME NEW s, Answer(c, s), NEW b \in BOOLEAN, Receives(c, b), owner' = owner
       PROVE  LifeInv'
  <2>1. pfds' = SetEvents(c, "out") /\ UNCHANGED <<pollables, index, owner>>
    BY <1>12 DEF Answer
  <2>2. \A x \in Clients : client'[x].fileOpen = client[x].fileOpen
    BY <1>1, <1>12, AnswerRecord
  <2>3. QED
    BY <1>1, <1>11, <1>12, <2>1, <2>2
<1>13. CASE Refuses(c)
  BY <1>12, <1>13 DEF Refuses
<1>14. CASE RepliesAtOnce(c)
  BY <1>12, <1>14 DEF RepliesAtOnce, Dispatches
<1>15. CASE NoReply(c)
  <2>1. /\ client' = Held(c) /\ pfds' = SetEvents(c, "hold")
        /\ UNCHANGED <<pollables, index, owner>> /\ \E b \in BOOLEAN : Receives(c, b)
    BY <1>15 DEF NoReply, Dispatches
  <2>2. \A x \in Clients : client'[x].fileOpen = client[x].fileOpen
    BY <1>1, <2>1, HeldRecord
  <2>3. QED
    BY <1>1, <1>11, <2>1, <2>2
<1>16. CASE OpensFile(c)
  <2>1. PICK f \in Files, e \in {"in", "out"} :
          /\ Free(f)
          /\ Enlist(f, f, e, SetEvents(c, "hold"))
          /\ owner' = [owner EXCEPT ![f] = c]
    BY <1>16 DEF OpensFile
  <2>2. PICK b \in BOOLEAN : Receives(c, b)
    BY <1>16 DEF OpensFile, Dispatches
  <2>3. f \in Workers \ Live /\ e \in Events /\ f \notin Cgis
    BY <1>1, <2>1, LoopKinds DEF Free
  <2>4. /\ client'[c].fileOpen
        /\ \A x \in Clients : client[x].fileOpen => client'[x].fileOpen
        /\ \A x \in Clients : x # c => client'[x] = client[x]
    <3> DEFINE h == Held(c)
    <3>1. /\ client' = [h EXCEPT ![c].fileOpen = TRUE]
          /\ h[c].fileOpen = client[c].fileOpen
          /\ \A x \in Clients \ {c} : h[x] = client[x]
      BY <1>1, <1>16, HeldRecord DEF OpensFile
    <3>2. h \in [Clients -> ClientState]
      BY <1>1, HeldType DEF TableInv, TypeOK
    <3> HIDE DEF h
    <3>3. QED
      BY <3>1, <3>2 DEF ClientState
  <2>5. QED
    BY <1>9, <2>1, <2>2, <2>3, <2>4, LifeHires
<1>17. CASE StartsCgi(c)
  <2>1. PICK g \in Cgis, fails \in {FALSE, OpenFails} :
          /\ Free(g)
          /\ Enlist(g, IF fails THEN NoFd ELSE g, "in", SetEvents(c, "hold"))
          /\ owner' = [owner EXCEPT ![g] = c]
    BY <1>17 DEF StartsCgi, Executes
  <2>2. Enlist(g, g, "in", SetEvents(c, "hold"))
    BY <2>1
  <2>3. PICK b \in BOOLEAN : Receives(c, b)
    BY <1>17 DEF StartsCgi, Dispatches
  <2>4. g \in Workers \ Live /\ g \notin Files
    BY <1>1, <2>1, LoopKinds DEF Free
  <2>5. /\ \A x \in Clients : client[x].fileOpen => client'[x].fileOpen
        /\ \A x \in Clients : x # c => client'[x] = client[x]
    BY <1>1, <1>17, HeldRecord DEF StartsCgi
  <2>6. conn[c] = "open"
    BY <1>17 DEF StartsCgi
  <2>7. QED
    BY <1>1, <1>9, <2>1, <2>2, <2>3, <2>4, <2>5, <2>6, LifeHires
<1>18. CASE SendsAll(c)
  <2>1. /\ At(c) /\ Advance /\ Touch({c}) /\ pfds[pos].revents = "out"
        /\ UNCHANGED <<pollables, index, owner, conn>>
    BY <1>18 DEF SendsAll, Serve
  <2>2. \A g \in Live \cap Cgis : owner[g] = c => closed[g] /\ g \in turn
    BY <1>2, <2>1
  <2>3. ASSUME NEW s, client' = [client EXCEPT ![c].state = s, ![c].reply = FALSE]
        PROVE  \A x \in Clients : client'[x].fileOpen = client[x].fileOpen
    <3>1. client' = [client EXCEPT ![c] = [client[c] EXCEPT !.state = s, !.reply = FALSE]]
      BY <1>1, <2>3 DEF ClientState
    <3>2. QED
      BY <1>1, <3>1 DEF ClientState
  <2>4. CASE /\ pfds' = SetEvents(c, "in") /\ UNCHANGED closed
             /\ \E s : client' = [client EXCEPT ![c].state = s, ![c].reply = FALSE]
    BY <1>1, <2>1, <2>2, <2>3, <2>4, LifeSetEvents
  <2>5. CASE /\ client' = [client EXCEPT ![c].reply = FALSE]
             /\ Close(c) /\ UNCHANGED pfds
    <3>1. UNCHANGED <<table, owner, conn>>
      BY <2>1, <2>5 DEF table
    <3>2. \A x \in Clients : client'[x].fileOpen = client[x].fileOpen
      BY <1>1, <2>5 DEF ClientState
    <3>3. QED
      BY <1>1, <1>4, <2>1, <2>2, <2>5, <3>1, <3>2, LifeSameTable
  <2>6. QED
    BY <1>18, <2>4, <2>5 DEF SendsAll
<1>19. QED
  BY <1>3, <1>5, <1>6, <1>7, <1>8, <1>10, <1>13, <1>14, <1>15, <1>16, <1>17, <1>18
  DEF VisitClient, ClientPollin, ClientPollout

LEMMA LifeListener ==
  ASSUME ScanInv, WorkInv, LifeInv, NEW s \in Listeners, VisitListener(s)
  PROVE  LifeInv'
<1>1. \A x \in Live \cap Cgis : owner[x] \in Clients /\ owner[x] # s
  BY LoopKinds DEF ScanInv, WorkInv, HaveOwners
<1>2. CASE Idle(s) \/ AcceptFails(s)
  <2>1. At(s) /\ Advance /\ UNCHANGED <<table, owner, conn, age, client, closed>>
    BY <1>2 DEF Idle, AcceptFails, Serve
  <2>2. QED
    BY <2>1, LifeSameTable
<1>3. CASE Accept(s)
  <2>1. /\ At(s) /\ Advance /\ UNCHANGED <<owner, closed, age, client, conn>>
        /\ \E c \in Clients : Free(c) /\ Enlist(c, c, "in", pfds)
    BY <1>3 DEF Accept, Serve
  <2>2. QED
    BY <2>1, LifeAccept
<1>4. QED
  BY <1>2, <1>3 DEF VisitListener

\* A file or a script that is done, or did nothing for too long, is removed.
LEMMA LifeRetires ==
  ASSUME ScanTime + ScanTime <= Timeout, ScanInv, WorkInv, LifeInv,
         NEW w \in Workers, RetireWorker(w)
  PROVE  LifeInv'
<1> DEFINE freed == IF Expired(w) THEN Released(w) ELSE client
<1>1. TableInv /\ w \in Live /\ At(w) /\ Remove(freed)
  BY Visited DEF ScanInv, RetireWorker
<1>2. /\ Files \subseteq Workers /\ Cgis \subseteq Workers /\ Workers \subseteq Sessions
      /\ Workers \cap Clients = {} /\ \A v \in Live \cap Workers : owner[v] \in Clients
      /\ w \in Files \/ w \in Cgis
  BY <1>1, LoopKinds DEF WorkInv, HaveOwners, Workers
<1>3. ASSUME NEW x \in Clients
      PROVE  freed[x].fileOpen <=> client[x].fileOpen /\ (Expired(w) => x # owner[w])
  <2>1. CASE Expired(w)
    <3>1. freed = Released(w)
      BY <2>1
    <3>2. QED
      BY <1>1, <2>1, <3>1, ReleasedRecord
  <2>2. CASE ~Expired(w)
    BY <2>2
  <2>3. QED
    BY <2>1, <2>2
<1> HIDE DEF freed
<1>4. ASSUME NEW f \in Live \cap Files, f # w, ~closed[f]
      PROVE  owner[f] # w /\ freed[owner[f]].fileOpen
  <2>1. owner[f] \in Clients /\ client[owner[f]].fileOpen
    BY <1>2, <1>4 DEF LifeInv, FileLife
  <2>2. ASSUME Expired(w), owner[f] = owner[w] PROVE FALSE
    <3>1. closed[w]
      BY <1>1, <1>2, <1>4, <2>2 DEF WorkInv, OneWorker
    <3>2. CASE w \in Files
      BY <1>1, <1>2, <2>2, <3>1, <3>2, NotExpired DEF LifeInv, FileLife
    <3>3. CASE w \in Cgis
      BY <1>1, <2>1, <2>2, <3>1, <3>3 DEF LifeInv, ScriptLife
    <3>4. QED
      BY <1>2, <3>2, <3>3
  <2>3. QED
    BY <1>2, <1>3, <2>1, <2>2
<1>5. \A g \in Live \cap Cgis : owner[g] # w
  BY <1>2
<1>6. QED
  BY <1>1, <1>3, <1>4, <1>5, LifeRemove

\* A worker that is not done yet moves the tick of its connection.
LEMMA LifeProgress ==
  ASSUME ScanInv, WorkInv, LifeInv, NEW w \in Workers,
         Idle(w) \/ FileProgress(w) \/ CgiReads(w) \/ CgiWaits(w)
  PROVE  LifeInv'
<1>1. /\ At(w) /\ Advance /\ ~closed[w]
      /\ UNCHANGED <<table, closed, client, owner, conn>>
      /\ \/ age' = age /\ pfds[pos].revents = "none"
         \/ \E S : Touch(S) /\ owner[w] \in S
  BY DEF Idle, FileProgress, CgiReads, CgiWaits, Works, Serve, Gone
<1>2. /\ TableInv /\ w \in Live /\ turn' = turn \ {w} /\ lapse' = lapse
      /\ ReturnedTo(w) = pfds[pos].revents
  BY <1>1, VisitedSlot DEF ScanInv, Advance, At
<1>3. /\ Files \subseteq Workers /\ Cgis \subseteq Workers /\ Workers \subseteq Sessions
      /\ Clients \subseteq Sessions /\ age \in [Sessions -> 0 .. Timeout + 1]
      /\ Timeout \in Nat /\ \A v \in Live \cap Workers : owner[v] \in Clients
  BY <1>2, LoopKinds DEF WorkInv, HaveOwners
<1>4. /\ Live' = Live /\ index' = index /\ owner' = owner /\ conn' = conn
      /\ \A x : EventsOf(x)' = EventsOf(x) /\ ReturnedTo(x)' = ReturnedTo(x)
  BY <1>1 DEF table, Live, Occupants, EventsOf, ReturnedTo
<1>5. \A x \in Sessions : age'[x] \in Nat /\ age'[x] <= age[x]
  <2>1. CASE age' = age
    BY <1>3, <2>1
  <2>2. CASE \E S : Touch(S)
    BY <1>2, <2>2, TouchLowers
  <2>3. QED
    BY <1>1, <2>1, <2>2
<1>6. ASSUME NEW g \in Live \cap Cgis PROVE ScriptLife(g)'
  <2>1. ScriptLife(g) /\ owner[g] \in Clients /\ owner[g] \in Sessions
    BY <1>3 DEF LifeInv
  <2>2. g = w /\ g \in turn => age'[owner[g]] = 0
    <3>1. SUFFICES ASSUME g = w, g \in turn PROVE age'[owner[w]] = 0
      OBVIOUS
    <3>2. pfds[pos].revents = "in"
      BY <1>2, <2>1, <3>1 DEF ScriptLife
    <3>3. PICK S : Touch(S) /\ owner[w] \in S
      BY <1>1, <3>2
    <3>4. QED
      BY <1>2, <2>1, <3>1, <3>3, TouchLowers
  <2>3. closed' = closed /\ client' = client
    BY <1>1
  <2>4. QED
    BY <1>1, <1>2, <1>4, <1>5, <2>1, <2>2, <2>3, ScriptAdvance
<1>7. ASSUME NEW f \in Live \cap Files
      PROVE  /\ closed'[f] = closed[f] /\ age'[f] \in Nat /\ age'[f] <= age[f]
             /\ closed[f] => f # w
             /\ ~closed[f] => client'[owner[f]].fileOpen
  BY <1>1, <1>3, <1>5 DEF LifeInv, FileLife
<1>8. QED
  BY <1>1, <1>4, <1>6, <1>7, LifeAdvance

\* A worker that is done installs the reply and lets go of the connection.
LEMMA LifeFinishes ==
  ASSUME ScanInv, WorkInv, LifeInv, NEW w \in Workers, Works(w), Finishes(w),
         NEW S, Touch(S), owner[w] \in S, w \in Files => w \in S
  PROVE  LifeInv'
<1> DEFINE c == owner[w]
<1>1. /\ At(w) /\ Advance /\ ~closed[w] /\ c \in Live
      /\ pfds' = SetEvents(c, "out") /\ closed' = [closed EXCEPT ![w] = TRUE]
      /\ client' = [Released(w) EXCEPT ![c].reply = TRUE]
      /\ UNCHANGED <<pollables, index, owner, conn>>
  BY DEF Works, Finishes, Serve, Gone, Close
<1>2. /\ TableInv /\ w \in Live /\ turn' = turn \ {w} /\ lapse' = lapse
  BY <1>1, VisitedSlot DEF ScanInv, Advance, At
<1>3. /\ Files \subseteq Workers /\ Cgis \subseteq Workers /\ Workers \subseteq Sessions
      /\ Clients \subseteq Sessions /\ Workers \cap Clients = {} /\ c \in Clients
      /\ Workers \subseteq Objects /\ Clients \subseteq Objects
      /\ closed \in [Objects -> BOOLEAN] /\ "out" \in Events /\ lapse \in Nat
      /\ \A v \in Live \cap Workers : owner[v] \in Clients
      /\ w \in Files \/ w \in Cgis
  BY <1>2, LoopKinds DEF WorkInv, HaveOwners, Events, Workers
<1>4. Live' = Live
  BY <1>1 DEF Live, Occupants
<1>5. \A x \in Live : /\ ReturnedTo(x)' = ReturnedTo(x)
                      /\ EventsOf(x)' = IF x = c THEN "out" ELSE EventsOf(x)
  BY <1>1, <1>2, <1>3, SlotsSetEvents
<1>6. \A x \in Clients : client'[x].fileOpen = (x # c /\ client[x].fileOpen)
  <2>1. Released(w) \in [Clients -> ClientState]
    BY <1>2, ReleasedType DEF TableInv
  <2>2. \A x \in Clients : client'[x].fileOpen = Released(w)[x].fileOpen
    BY <1>1, <2>1 DEF ClientState
  <2>3. QED
    BY <1>2, <2>2, ReleasedRecord
<1>7. /\ \A x \in Objects : closed'[x] = (x = w \/ closed[x])
      /\ \A x \in Sessions : age'[x] \in Nat /\ age'[x] <= age[x]
      /\ age'[c] = 0 /\ (w \in Files => age'[w] = 0)
  BY <1>1, <1>2, <1>3, TouchLowers
<1>8. ASSUME NEW g \in Live \cap Cgis, g # w PROVE ScriptLife(g)'
  <2>1. /\ ScriptLife(g) /\ owner[g] \in Clients /\ owner[g] \in Live
        /\ g # c /\ owner[g] # w /\ g \in Objects /\ owner[g] \in Objects
    BY <1>3 DEF LifeInv, ScriptLife
  <2>2. /\ closed'[g] = closed[g] /\ closed'[owner[g]] = closed[owner[g]]
        /\ EventsOf(g)' = EventsOf(g) /\ ReturnedTo(g)' = ReturnedTo(g)
        /\ ReturnedTo(owner[g])' = ReturnedTo(owner[g])
        /\ EventsOf(owner[g])' \in {EventsOf(owner[g]), "out"}
        /\ age'[owner[g]] \in Nat /\ age'[owner[g]] <= age[owner[g]]
        /\ client'[owner[g]].fileOpen => client[owner[g]].fileOpen
    <3>1. /\ closed'[g] = closed[g] /\ closed'[owner[g]] = closed[owner[g]]
          /\ age'[owner[g]] \in Nat /\ age'[owner[g]] <= age[owner[g]]
      BY <1>3, <1>7, <1>8, <2>1
    <3>2. /\ EventsOf(g)' = EventsOf(g) /\ ReturnedTo(g)' = ReturnedTo(g)
          /\ ReturnedTo(owner[g])' = ReturnedTo(owner[g])
          /\ EventsOf(owner[g])' \in {EventsOf(owner[g]), "out"}
      BY <1>1, <1>5, <2>1
    <3>3. client'[owner[g]].fileOpen => client[owner[g]].fileOpen
      BY <1>6, <2>1
    <3>4. QED
      BY <3>1, <3>2, <3>3
  <2>3. owner' = owner /\ conn' = conn
    BY <1>1
  <2>4. QED
    BY <1>2, <1>4, <1>8, <2>1, <2>2, <2>3, ScriptAdvance
<1>9. CASE w \in Cgis
  <2>1. ScriptLife(w)
    BY <1>2, <1>9 DEF LifeInv
  <2>2. Kept(c, w) /\ conn[c] = "open" /\ EventsOf(w) = "in"
    BY <1>1, <2>1 DEF ScriptLife
  <2>3. OnHold(c)
    BY <1>1, <1>2, <1>3, <2>2 DEF WorkInv, BusyIsHeld, Busy, Kept
  <2>4. c \in turn' => ReturnedTo(c)' = "none"
    BY <1>1, <1>2, <1>5, <2>2, <2>3 DEF OnHold
  <2>5. Kept(c, w)' /\ EventsOf(c)' = "out" /\ EventsOf(w)' = "in"
    BY <1>1, <1>2, <1>3, <1>5, <1>7, <2>2 DEF Kept, Bound
  <2>6. owner'[w] = c /\ c \in Live' /\ conn'[c] = "open" /\ w \notin turn'
        /\ closed'[w] /\ ~client'[c].fileOpen
    BY <1>1, <1>2, <1>3, <1>4, <1>6, <1>7, <2>2
  <2>7. QED
    <3>1. ScriptLife(w)'
      BY <2>4, <2>5, <2>6 DEF ScriptLife
    <3>2. \A g \in Live \cap Cgis : ScriptLife(g)'
      BY <1>8, <3>1
    <3>3. ASSUME NEW f \in Live \cap Files
          PROVE  /\ closed'[f] = closed[f] /\ age'[f] \in Nat /\ age'[f] <= age[f]
                 /\ closed[f] => f # w
                 /\ ~closed[f] => client'[owner[f]].fileOpen
      <4>1. f # w
        BY <1>9, <1>2, LoopKinds
      <4>2. ~closed[f] => owner[f] # c /\ client[owner[f]].fileOpen
        BY <1>1, <1>2, <1>3, <4>1 DEF LifeInv, FileLife, WorkInv, OneWorker
      <4>3. QED
        BY <1>3, <1>6, <1>7, <4>1, <4>2
    <3>4. QED
      BY <1>1, <1>4, <3>2, <3>3, LifeAdvance
<1>10. CASE w \in Files
  <2>1. \A g \in Live \cap Cgis : ScriptLife(g)'
    BY <1>2, <1>8, <1>10, LoopKinds
  <2>2. ASSUME NEW f \in Live \cap Files
        PROVE  \/ /\ closed'[f] = closed[f] /\ age'[f] \in Nat /\ age'[f] <= age[f]
                  /\ closed[f] => f # w
                  /\ ~closed[f] => client'[owner[f]].fileOpen
               \/ closed'[f] /\ age'[f] = 0
    <3>1. CASE f = w
      BY <1>3, <1>7, <1>10, <3>1
    <3>2. CASE f # w
      <4>1. ~closed[f] => owner[f] # c /\ client[owner[f]].fileOpen
        BY <1>1, <1>2, <1>3, <3>2 DEF LifeInv, FileLife, WorkInv, OneWorker
      <4>2. QED
        BY <1>3, <1>6, <1>7, <3>2, <4>1
    <3>3. QED
      BY <3>1, <3>2
  <2>3. QED
    BY <1>1, <1>4, <2>1, <2>2, LifeAdvance
<1>11. QED
  BY <1>3, <1>9, <1>10

\* The pointer a file or a script follows is good.
LEMMA NoUseAfterDelete ==
  ASSUME ScanTime + ScanTime <= Timeout, ScanInv, LifeInv, NEW w \in Workers
  PROVE  ~UseAfterDelete(w)
<1> SUFFICES ASSUME UseAfterDelete(w) PROVE FALSE
  OBVIOUS
<1>1. /\ TableInv /\ w \in Live /\ owner[w] \notin Live /\ w \in Sessions
      /\ Expired(w) \/ ~closed[w]
  BY Visited, LoopKinds DEF ScanInv, UseAfterDelete
<1>2. CASE w \in Files
  BY <1>1, <1>2, NotExpired DEF LifeInv, FileLife
<1>3. CASE w \in Cgis
  BY <1>1, <1>3 DEF LifeInv, ScriptLife
<1>4. QED
  BY <1>2, <1>3 DEF Workers

LEMMA LifeWorker ==
  ASSUME ScanTime + ScanTime <= Timeout, ScanInv, WorkInv, LifeInv,
         NEW w \in Workers,
         \/ w \in Files /\ VisitFile(w)
         \/ w \in Cgis /\ VisitCgi(w)
  PROVE  LifeInv'
<1>1. CASE RetireWorker(w)
  BY <1>1, LifeRetires
<1>2. CASE Idle(w) \/ FileProgress(w) \/ CgiReads(w) \/ CgiWaits(w)
  BY <1>2, LifeProgress
<1>3. CASE FileEnds(w)
  BY <1>3, LifeFinishes DEF FileEnds
<1>4. CASE (CgiEnds(w) \/ CgiFails(w)) /\ w \in Cgis
  BY <1>4, LifeFinishes, LoopKinds DEF CgiEnds, CgiFails, ScanInv
<1>5. QED
  BY <1>1, <1>2, <1>3, <1>4, NoUseAfterDelete DEF VisitFile, VisitCgi

-----------------------------------------------------------------------------
(***************************************************************************)
(* The clock, poll() and the peers.                                        *)
(***************************************************************************)

\* Time passes for everyone alike.
LEMMA LifeTick ==
  ASSUME ScanInv, WorkInv, LifeInv, Tick
  PROVE  LifeInv'
<1>1. /\ lapse' = lapse + 1
      /\ UNCHANGED <<table, pos, turn, fault, closed, client, owner, conn>>
  BY DEF Tick
<1>2. /\ TableInv /\ Live' = Live
      /\ \A x : EventsOf(x)' = EventsOf(x) /\ ReturnedTo(x)' = ReturnedTo(x)
      /\ index' = index
  BY <1>1 DEF ScanInv, table, Live, Occupants, EventsOf, ReturnedTo
<1>3. /\ Files \subseteq Workers /\ Cgis \subseteq Workers /\ Workers \subseteq Sessions
      /\ Clients \subseteq Sessions /\ age \in [Sessions -> 0 .. Timeout + 1]
      /\ Timeout \in Nat /\ lapse \in Nat /\ ScanTime \in Nat
      /\ \A v \in Live \cap Workers : owner[v] \in Clients
  BY <1>2, LoopKinds DEF WorkInv, HaveOwners
<1>4. \A x \in Sessions : age'[x] \in Nat /\ age'[x] <= age[x] + 1
  <2>1. SUFFICES ASSUME NEW x \in Sessions
                 PROVE  age'[x] \in Nat /\ age'[x] <= age[x] + 1
    OBVIOUS
  <2>2. age'[x] = IF x \in Live /\ age[x] <= Timeout THEN age[x] + 1 ELSE age[x]
    BY DEF Tick
  <2>3. QED
    BY <1>3, <2>2
<1>5. \A w : Bound(w)' = Bound(w) + 1
  BY <1>1, <1>3 DEF Bound
<1>6. ASSUME NEW x \in Sessions, NEW w, age[x] <= Bound(w) PROVE age'[x] <= Bound(w)'
  <2>1. Bound(w) \in Nat /\ age[x] \in Nat
    BY <1>3 DEF Bound
  <2>2. QED
    BY <1>4, <1>5, <1>6, <2>1
<1>7. OwnersSeen'
  BY <1>1, <1>2 DEF LifeInv, OwnersSeen
<1>8. \A f \in Live' \cap Files : FileLife(f)'
  BY <1>1, <1>2, <1>3, <1>6 DEF LifeInv, FileLife
<1>9. ASSUME NEW g \in Live \cap Cgis PROVE ScriptLife(g)'
  <2>1. ScriptLife(g) /\ owner[g] \in Sessions
    BY <1>3 DEF LifeInv
  <2>2. Kept(owner[g], g) => Kept(owner[g], g)'
    BY <1>1, <1>6, <2>1 DEF Kept
  <2>3. QED
    BY <1>1, <1>2, <2>1, <2>2 DEF ScriptLife
<1>10. QED
  BY <1>1, <1>2, <1>7, <1>8, <1>9 DEF LifeInv

\* What was left of the last scan is all that counts against the next one.
LEMMA LifePoll ==
  ASSUME ScanInv, WorkInv, LifeInv, Poll
  PROVE  LifeInv'
<1>1. /\ pos > Len(pollables) /\ lapse' = 0 /\ turn' = Live
      /\ UNCHANGED <<pollables, index, fault, closed, age, client, owner, conn>>
  BY DEF Poll
<1>2. TableInv /\ Live' = Live
  BY <1>1 DEF ScanInv, Live, Occupants
<1>3. /\ Files \subseteq Workers /\ Cgis \subseteq Workers /\ Workers \subseteq Sessions
      /\ Clients \subseteq Sessions /\ age \in [Sessions -> 0 .. Timeout + 1]
      /\ Timeout \in Nat /\ lapse \in 0 .. ScanTime /\ ScanTime \in Nat
      /\ Workers \cap Clients = {} /\ Workers \subseteq Objects
      /\ \A v \in Live \cap Workers : owner[v] \in Clients
  BY <1>2, LoopKinds DEF WorkInv, HaveOwners
<1>4. turn = {}
  <2>1. pos .. Len(pollables) = {}
    BY <1>1, <1>2 DEF TableInv, TypeOK
  <2>2. QED
    BY <2>1 DEF ScanInv, NobodySkipped
<1>5. PICK ready \in SUBSET DOMAIN pfds :
        /\ \A i \in DOMAIN pfds : SureReady(i) => i \in ready
        /\ pfds' = [i \in DOMAIN pfds |->
                     [pfds[i] EXCEPT !.revents =
                        IF i \in ready THEN Reported(i) ELSE "none"]]
  BY DEF Poll
<1>6. ASSUME NEW x \in Live
      PROVE  /\ EventsOf(x)' = EventsOf(x)
             /\ ReturnedTo(x)' = IF index[x] \in ready THEN Reported(index[x]) ELSE "none"
             /\ pollables[index[x]] = x /\ index[x] \in DOMAIN pfds
  <2>1. /\ index[x] \in DOMAIN pfds /\ pfds[index[x]] \in Pfd /\ pollables[index[x]] = x
    BY <1>2, SlotOf
  <2>2. pfds'[index[x]] = [pfds[index[x]] EXCEPT !.revents =
                             IF index[x] \in ready THEN Reported(index[x]) ELSE "none"]
    BY <1>5, <2>1
  <2>3. QED
    BY <1>1, <2>1, <2>2 DEF EventsOf, ReturnedTo, Pfd
<1>7. ASSUME NEW x \in Sessions, NEW w \in Live, age[x] <= Bound(w)
      PROVE  age'[x] <= Bound(w)'
  BY <1>1, <1>3, <1>4, <1>7 DEF Bound
<1>8. OwnersSeen'
  BY <1>1, <1>2 DEF OwnersSeen
<1>9. \A f \in Live \cap Files : FileLife(f)'
  BY <1>1, <1>2, <1>3, <1>7 DEF LifeInv, FileLife
<1>10. ASSUME NEW g \in Live \cap Cgis PROVE ScriptLife(g)'
  <2> DEFINE c == owner[g]
  <2>1. /\ ScriptLife(g) /\ c \in Sessions /\ c \in Clients /\ c \in Live
        /\ conn[c] = "open" /\ EventsOf(g) = "in"
    BY <1>3 DEF LifeInv, ScriptLife
  <2>2. ReturnedTo(g)' = "in"
    <3>1. pfds[index[g]].fd # NoFd
      <4>1. pfds[index[g]].fd = g
        BY <1>2, <1>6, SlotOf DEF TableInv, VectorsAgree, FdOf, ScanInv
      <4>2. QED
        BY <1>3, <4>1, LoopAssumption DEF LoopAssumption
    <3>2. index[g] \in ready /\ g \notin Clients
      BY <1>3, <1>5, <1>6 DEF SureReady
    <3>3. Reported(index[g]) = "in"
      BY <1>6, <2>1, <3>1, <3>2 DEF Reported, EventsOf
    <3>4. QED
      BY <1>6, <3>2, <3>3
  <2>3. ASSUME EventsOf(c) = "out" PROVE ReturnedTo(c)' \in {"none", "out"}
    <3> DEFINE i == index[c]
    <3>1. pollables[i] = c /\ pfds[i].events = "out"
      BY <1>6, <2>1, <2>3 DEF EventsOf
    <3>2. Reported(i) \in {"none", "out"}
      BY <2>1, <3>1 DEF Reported, Broken
    <3>3. QED
      BY <1>1, <1>6, <2>1, <3>2
  <2>4. Kept(c, g) => Kept(c, g)'
    BY <1>1, <1>7, <2>1 DEF Kept
  <2>5. EventsOf(g)' = "in" /\ g \in turn'
    BY <1>1, <1>6, <2>1
  <2>6. QED
    BY <1>1, <1>2, <1>4, <2>1, <2>2, <2>3, <2>4, <2>5 DEF ScriptLife
<1>11. QED
  BY <1>1, <1>2, <1>8, <1>9, <1>10 DEF LifeInv

\* A peer that has a script at work keeps the connection.
LEMMA LifePeer ==
  ASSUME Patient = TRUE, ScanInv, WorkInv, LifeInv, NEW c \in Clients, PeerEnds(c)
  PROVE  LifeInv'
<1>1. /\ UNCHANGED <<table, scan, closed, age, client, owner>>
      /\ \A g \in Live \cap Cgis : owner[g] # c
      /\ \A x \in Clients : x # c => conn'[x] = conn[x]
  BY DEF PeerEnds, ScanInv, TableInv, TypeOK
<1>2. /\ Live' = Live /\ UNCHANGED <<pos, turn, lapse, fault, index>>
      /\ \A x : EventsOf(x)' = EventsOf(x) /\ ReturnedTo(x)' = ReturnedTo(x)
      /\ \A w : Bound(w)' = Bound(w)
  BY <1>1 DEF table, scan, Live, Occupants, EventsOf, ReturnedTo, Bound
<1>3. OwnersSeen' /\ \A f \in Live \cap Files : FileLife(f)'
  BY <1>1, <1>2 DEF LifeInv, OwnersSeen, FileLife
<1>4. ASSUME NEW g \in Live \cap Cgis PROVE ScriptLife(g)'
  <2>1. ScriptLife(g) /\ owner[g] \in Clients /\ owner[g] # c
    BY <1>1, LoopKinds DEF LifeInv, WorkInv, HaveOwners, ScanInv
  <2>2. QED
    BY <1>1, <1>2, <2>1 DEF ScriptLife, Kept
<1>5. QED
  BY <1>2, <1>3, <1>4 DEF LifeInv

-----------------------------------------------------------------------------
LEMMA LifeStep ==
  ASSUME OpenFails = FALSE, Patient = TRUE, ScanTime + ScanTime <= Timeout,
         ScanInv, FlowInv, WorkInv, LifeInv, [Next]_vars
  PROVE  LifeInv'
<1>1. CASE UNCHANGED vars
  <2>1. /\ UNCHANGED <<pollables, pfds, index, pos, turn, lapse, fault>>
        /\ UNCHANGED <<closed, age, client, owner, conn>>
    BY <1>1 DEF vars, table, scan
  <2>2. /\ Live' = Live
        /\ \A x : EventsOf(x)' = EventsOf(x) /\ ReturnedTo(x)' = ReturnedTo(x)
        /\ \A w : Bound(w)' = Bound(w)
    BY <2>1 DEF Live, Occupants, EventsOf, ReturnedTo, Bound
  <2>3. QED
    BY <2>1, <2>2 DEF LifeInv, OwnersSeen, FileLife, ScriptLife, Kept
<1>2. CASE Visit
  <2>1. Files \subseteq Workers /\ Cgis \subseteq Workers
    BY DEF Workers
  <2>2. QED
    BY <1>2, <2>1, LifeListener, LifeClient, LifeWorker DEF Visit
<1>3. QED
  BY <1>1, <1>2, LifeTick, LifePoll, LifePeer DEF Next, Halted

LEMMA InitLife == Init => LifeInv
<1> SUFFICES ASSUME Init PROVE LifeInv
  OBVIOUS
<1>1. Live \cap Workers = {}
  BY LoopAssumption DEF Init, LoopAssumption, Sessions
<1>2. ~fault
  BY DEF Init
<1>3. QED
  BY <1>1, <1>2 DEF LifeInv, OwnersSeen, Workers

-----------------------------------------------------------------------------
(***************************************************************************)
(* No FileFD and no CgiFD follows _client after the ClientFD is deleted,   *)
(* in its handler or in timeout(): _file_open keeps the connection of a    *)
(* file (Server::run), and the ticks of CgiFD::pollin that of a script.    *)
(***************************************************************************)
THEOREM ConnectionOutlivesUse ==
  ASSUME OpenFails = FALSE, "residue" \notin Breaks, Patient = TRUE,
         ScanTime + ScanTime <= Timeout
  PROVE  Spec => []ClientOutlivesUse
<1> DEFINE Inv == ScanInv /\ TeamInv /\ FlowInv /\ LifeInv
<1>1. Inv /\ [Next]_vars => Inv'
  BY ScanStep, WorkStep, FlowStep, TeamWorks, LifeStep
<1>2. Init => Inv
  BY InitScan, InitFlow, InitWork, InitLife
<1>3. Inv => ClientOutlivesUse
  BY DEF LifeInv, ClientOutlivesUse
<1>4. QED
  BY <1>1, <1>2, <1>3, PTL DEF Spec

=============================================================================
