------------------------- MODULE ConfigSelectProofs -------------------------
(***************************************************************************)
(* Proofs about ConfigSelect for every file and every request: the port    *)
(* map tells what the blocks tell, and a request is given the block and    *)
(* the location it asks for.                                               *)
(***************************************************************************)
EXTENDS ConfigSelect, WellFoundedInduction, TLAPS

Location == [match : Matches, weight : Nat]
ConfigType ==
  [ports : Seq(Ports), bare : BOOLEAN, names : SUBSET Names, locations : Seq(Location)]

-----------------------------------------------------------------------------
(***************************************************************************)
(* The first and the last place of a sequence that passes a test.          *)
(***************************************************************************)
Before == {pair \in Nat \X Nat : pair[1] < pair[2]}

LEMMA BeforeIsWellFounded == IsWellFoundedOn(Before, Nat)
BY NatLessThanWellFounded DEF Before, OpToRel

\* A set of natural numbers has a least member.
LEMMA LeastIsThere ==
  ASSUME NEW S \in SUBSET Nat, S # {}
  PROVE  \E x \in S : \A y \in S : x <= y
<1>1. PICK x \in S : \A y \in S : ~ (<<y, x>> \in Before)
  BY BeforeIsWellFounded, WFMin
<1>2. \A y \in S : x <= y
  <2> SUFFICES ASSUME NEW y \in S, ~ (x <= y) PROVE FALSE
    OBVIOUS
  <2>1. x \in Nat /\ y \in Nat /\ y < x
    OBVIOUS
  <2>2. <<y, x>> \in Before
    BY <2>1 DEF Before
  <2> QED
    BY <2>2, <1>1
<1> QED
  BY <1>2

LEMMA MinIsLeast ==
  ASSUME NEW S \in SUBSET Nat, S # {}
  PROVE  Min(S) \in S /\ \A y \in S : Min(S) <= y
BY LeastIsThere DEF Min

LEMMA MaxIsGreatest ==
  ASSUME NEW n \in Nat, NEW S \in SUBSET (1 .. n), S # {}
  PROVE  Max(S) \in S /\ \A y \in S : Max(S) >= y
<1> DEFINE T == {n - x : x \in S}
<1>1. T \in SUBSET Nat
  BY Z3
<1>2. T # {}
  OBVIOUS
<1> HIDE DEF T
<1>3. PICK t \in T : \A y \in T : t <= y
  BY <1>1, <1>2, LeastIsThere
<1>4. PICK x \in S : t = n - x
  BY <1>3 DEF T
<1>5. \A y \in S : x >= y
  <2> SUFFICES ASSUME NEW y \in S PROVE x >= y
    OBVIOUS
  <2>1. n - y \in T
    BY DEF T
  <2>2. n - x <= n - y
    BY <2>1, <1>3, <1>4
  <2>3. x \in 1 .. n /\ y \in 1 .. n
    OBVIOUS
  <2> QED
    BY <2>2, <2>3
<1> QED
  BY <1>5 DEF Max

\* A path strictly inside another is shorter than it.
LEMMA InsideIsLonger ==
  ASSUME NEW s \in Seq(STRING), NEW t \in Seq(STRING), IsStrictPrefix(s, t)
  PROVE  Len(s) < Len(t)
<1>1. Len(s) <= Len(t) /\ SubSeq(s, 1, Len(s)) = SubSeq(t, 1, Len(s)) /\ s # t
  BY DEF IsStrictPrefix, IsPrefix
<1>2. ASSUME Len(s) = Len(t) PROVE FALSE
  <2>1. SubSeq(s, 1, Len(s)) = s /\ SubSeq(t, 1, Len(t)) = t
    OBVIOUS
  <2> QED
    BY <1>1, <1>2, <2>1
<1> QED
  BY <1>1, <1>2

-----------------------------------------------------------------------------
(***************************************************************************)
(* The invariant.  A block that is closed begins with the location of the  *)
(* root and its locations stand by weight; requests come once all are.     *)
(***************************************************************************)
Closed(i) == i < Block \/ stage \in {"file", "serving"}

Ready(s) == SlashFirst(s) /\ \A a, b \in DOMAIN s : a < b => s[a].weight <= s[b].weight

BlocksAreReady == \A i \in DOMAIN configs : Closed(i) => Ready(configs[i].locations)

FoundIsLate == found.config # 0 => stage = "serving"

SelectInv ==
  /\ TypeOK /\ PortMapAgrees /\ BlocksAreReady /\ (stage = "block" => configs # <<>>)
  /\ FoundIsLate /\ HostIsServed /\ LocationFits

LEMMA SelectInvInit == Init => SelectInv
<1> SUFFICES ASSUME Init PROVE SelectInv
  OBVIOUS
<1> USE ConfigAssumption DEF Init
<1>1. TypeOK
  BY DEF TypeOK, Nothing
<1>2. PortMapAgrees
  BY DEF PortMapAgrees, ToSet, Lists
<1>3. BlocksAreReady
  BY DEF BlocksAreReady
<1>4. FoundIsLate /\ HostIsServed /\ LocationFits
  BY DEF FoundIsLate, HostIsServed, LocationFits, Nothing
<1> QED
  BY <1>1, <1>2, <1>3, <1>4 DEF SelectInv

-----------------------------------------------------------------------------
(***************************************************************************)
(* Reading the file.                                                       *)
(***************************************************************************)

\* Until the file is served nothing is found.
LEMMA ReadingFindsNothing ==
  ASSUME SelectInv, stage # "serving", UNCHANGED found
  PROVE  FoundIsLate' /\ HostIsServed' /\ LocationFits'
BY DEF SelectInv, FoundIsLate, HostIsServed, LocationFits

LEMMA OpenServerKeeps ==
  ASSUME SelectInv, OpenServer
  PROVE  SelectInv'
<1> USE DEF SelectInv, OpenServer
<1>1. configs \in Seq(ConfigType) /\ NewConfig \in ConfigType
  BY DEF TypeOK, ConfigType, Location, NewConfig
<1>2. /\ configs' \in Seq(ConfigType) /\ Len(configs') = Len(configs) + 1
      /\ \A i \in DOMAIN configs : i \in DOMAIN configs' /\ configs'[i] = configs[i]
      /\ DOMAIN configs' = DOMAIN configs \cup {Len(configs) + 1}
      /\ configs'[Len(configs) + 1] = NewConfig
  BY <1>1
<1>3. TypeOK'
  <2>1. portMap \in [Ports -> Seq(DOMAIN configs')]
    <3> SUFFICES ASSUME NEW p \in Ports PROVE portMap[p] \in Seq(DOMAIN configs')
      BY DEF TypeOK
    <3>1. portMap[p] \in Seq(DOMAIN configs)
      BY DEF TypeOK
    <3> QED
      BY <3>1, <1>2
  <2>2. Len(configs') <= MaxServers
    BY <1>2, <1>1, ConfigAssumption
  <2> QED
    BY <2>1, <2>2, <1>2 DEF TypeOK, ConfigType, Location
<1>4. PortMapAgrees'
  <2> SUFFICES ASSUME NEW p \in Ports
               PROVE  /\ Exact(p)' => \A i \in DOMAIN configs' :
                                        Lists(i, p)' => i \in ToSet(portMap[p])
                      /\ \A a, b \in DOMAIN portMap[p] : a < b => portMap[p][a] < portMap[p][b]
                      /\ \A i \in ToSet(portMap[p]) : Lists(i, p)'
    BY DEF PortMapAgrees
  <2>1. \A i \in DOMAIN configs : Lists(i, p)' <=> Lists(i, p)
    BY <1>2 DEF Lists
  <2>2. \A i : i = Len(configs) + 1 => ~ Lists(i, p)'
    <3>1. \A i : i = Len(configs) + 1 => configs'[i].ports = <<>>
      BY <1>2 DEF NewConfig
    <3>2. ToSet(<<>>) = {}
      BY DEF ToSet
    <3> QED
      BY <3>1, <3>2 DEF Lists
  <2>3. Exact(p)' => Exact(p)
    BY <1>2 DEF Exact
  <2>4. ToSet(portMap[p]) \subseteq DOMAIN configs
    BY DEF TypeOK, ToSet
  <2> QED
    BY <2>1, <2>2, <2>3, <2>4, <1>2 DEF PortMapAgrees
<1>5. BlocksAreReady'
  <2> SUFFICES ASSUME NEW i \in DOMAIN configs', Closed(i)' PROVE Ready(configs'[i].locations)
    BY DEF BlocksAreReady, Ready, SlashFirst
  <2>1. i \in DOMAIN configs
    BY <1>2, <1>1 DEF Closed, Block
  <2>2. Closed(i)
    BY DEF Closed
  <2> QED
    BY <2>1, <2>2, <1>2 DEF BlocksAreReady
<1>6. configs' # <<>>
  BY <1>2, <1>1
<1> QED
  BY <1>3, <1>4, <1>5, <1>6, ReadingFindsNothing

LEMMA BlockIsRead ==
  ASSUME SelectInv, stage = "block"
  PROVE  /\ configs \in Seq(ConfigType) /\ configs # <<>>
         /\ Block \in DOMAIN configs /\ configs[Block] \in ConfigType
<1>1. configs \in Seq(ConfigType) /\ configs # <<>>
  BY DEF SelectInv, TypeOK, ConfigType, Location
<1>2. Block \in DOMAIN configs
  BY <1>1 DEF Block
<1> QED
  BY <1>1, <1>2

\* What an edit of the block being read keeps of the file.
LEMMA BlockEdited ==
  ASSUME SelectInv, stage = "block", NEW b \in ConfigType,
         configs' = [configs EXCEPT ![Block] = b]
  PROVE  /\ configs' \in Seq(ConfigType) /\ DOMAIN configs' = DOMAIN configs
         /\ Len(configs') = Len(configs) /\ configs' # <<>>
         /\ Block \in DOMAIN configs /\ configs'[Block] = b
         /\ \A i \in DOMAIN configs \ {Block} : configs'[i] = configs[i]
BY BlockIsRead DEF Block

\* A block stays open, or is ready when it is closed.
LEMMA ReadyAfterEdit ==
  ASSUME SelectInv, stage = "block", NEW b \in ConfigType,
         configs' = [configs EXCEPT ![Block] = b], stage' = "block" \/ Ready(b.locations)
  PROVE  BlocksAreReady'
<1> SUFFICES ASSUME NEW i \in DOMAIN configs', Closed(i)' PROVE Ready(configs'[i].locations)
  BY DEF BlocksAreReady, Ready, SlashFirst
<1>1. CASE i = Block
  BY <1>1, BlockEdited DEF Closed, Block
<1>2. CASE i # Block
  <2>1. i \in DOMAIN configs /\ configs'[i] = configs[i] /\ i < Block
    BY <1>2, BlockEdited DEF Block
  <2> QED
    BY <2>1 DEF SelectInv, BlocksAreReady, Closed
<1> QED
  BY <1>1, <1>2

\* The port map and the ports of the block stay as they are.
LEMMA MapAfterEdit ==
  ASSUME SelectInv, stage = "block", NEW b \in ConfigType,
         configs' = [configs EXCEPT ![Block] = b], UNCHANGED portMap,
         b.ports = configs[Block].ports, b.bare = configs[Block].bare
  PROVE  PortMapAgrees'
<1>1. \A i \in DOMAIN configs : configs'[i].ports = configs[i].ports
                                /\ configs'[i].bare = configs[i].bare
  BY BlockEdited
<1>2. DOMAIN configs' = DOMAIN configs
  BY BlockEdited
<1>3. \A p \in Ports : ToSet(portMap[p]) \subseteq DOMAIN configs
  BY DEF SelectInv, TypeOK, ToSet
<1> SUFFICES ASSUME NEW p \in Ports
             PROVE  /\ Exact(p)' => \A i \in DOMAIN configs' :
                                      Lists(i, p)' => i \in ToSet(portMap[p])
                    /\ \A a, c \in DOMAIN portMap[p] : a < c => portMap[p][a] < portMap[p][c]
                    /\ \A i \in ToSet(portMap[p]) : Lists(i, p)'
  BY DEF PortMapAgrees
<1>4. \A i \in DOMAIN configs : Lists(i, p)' <=> Lists(i, p)
  BY <1>1 DEF Lists
<1>5. Exact(p)' => Exact(p)
  BY <1>1, <1>2 DEF Exact
<1> QED
  BY <1>2, <1>3, <1>4, <1>5 DEF SelectInv, PortMapAgrees

LEMMA TypeAfterEdit ==
  ASSUME SelectInv, stage = "block", NEW b \in ConfigType,
         configs' = [configs EXCEPT ![Block] = b], UNCHANGED found,
         stage' \in {"file", "block"}, portMap' \in [Ports -> Seq(DOMAIN configs)]
  PROVE  TypeOK'
BY BlockEdited DEF SelectInv, TypeOK, ConfigType, Location

-----------------------------------------------------------------------------
LEMMA ServerNameKeeps ==
  ASSUME SelectInv, NEW n \in Names, ServerName(n)
  PROVE  SelectInv'
<1> DEFINE b == [configs[Block] EXCEPT !.names = @ \cup {n}]
<1>1. configs[Block] \in ConfigType
  BY BlockIsRead DEF ServerName
<1>2. b \in ConfigType /\ b.ports = configs[Block].ports /\ b.bare = configs[Block].bare
  BY <1>1 DEF ConfigType
<1>3. configs' = [configs EXCEPT ![Block] = b]
  BY DEF ServerName
<1> HIDE DEF b
<1>4. TypeOK' /\ PortMapAgrees' /\ BlocksAreReady' /\ configs' # <<>>
  BY <1>2, <1>3, TypeAfterEdit, MapAfterEdit, ReadyAfterEdit, BlockEdited
     DEF ServerName, SelectInv, TypeOK
<1> QED
  BY <1>4, ReadingFindsNothing DEF SelectInv, ServerName

LEMMA LocationBlockKeeps ==
  ASSUME SelectInv, NEW m \in Matches, LocationBlock(m)
  PROVE  SelectInv'
<1> DEFINE l == [match |-> m, weight |-> Len(configs[Block].locations) + Len(m)]
           b == [configs[Block] EXCEPT !.locations = Append(@, l)]
<1>1. configs[Block] \in ConfigType
  BY BlockIsRead DEF LocationBlock
<1>2. l \in Location
  <2>1. Len(m) \in Nat
    BY ConfigAssumption
  <2>2. Len(configs[Block].locations) \in Nat
    BY <1>1 DEF ConfigType
  <2> QED
    BY <2>1, <2>2 DEF Location
<1> HIDE DEF l
<1>3. b \in ConfigType /\ b.ports = configs[Block].ports /\ b.bare = configs[Block].bare
  <2>1. Append(configs[Block].locations, l) \in Seq(Location)
    BY <1>1, <1>2 DEF ConfigType
  <2> QED
    BY <1>1, <2>1 DEF ConfigType
<1>4. configs' = [configs EXCEPT ![Block] = b]
  BY DEF LocationBlock, l
<1> HIDE DEF b
<1>5. TypeOK' /\ PortMapAgrees' /\ BlocksAreReady' /\ configs' # <<>>
  BY <1>3, <1>4, TypeAfterEdit, MapAfterEdit, ReadyAfterEdit, BlockEdited
     DEF LocationBlock, SelectInv, TypeOK
<1> QED
  BY <1>5, ReadingFindsNothing DEF SelectInv, LocationBlock

\* A sorted sequence has the locations it was given.
LEMMA SortedIsTyped ==
  ASSUME NEW s \in Seq(Location), NEW t \in Sorted(s)
  PROVE  t \in Seq(Location) /\ \A i, j \in DOMAIN t : i < j => t[i].weight <= t[j].weight
<1>1. PICK f \in [DOMAIN s -> DOMAIN s] : t = [i \in DOMAIN s |-> s[f[i]]]
  BY DEF Sorted
<1>2. \A i \in DOMAIN s : s[f[i]] \in Location
  BY <1>1
<1>3. DOMAIN s = 1 .. Len(s) /\ Len(s) \in Nat
  OBVIOUS
<1>4. t \in Seq(Location) /\ DOMAIN t = DOMAIN s
  BY <1>1, <1>2, <1>3
<1> QED
  BY <1>4 DEF Sorted

LEMMA CloseServerKeeps ==
  ASSUME SelectInv, CloseServer
  PROVE  SelectInv'
<1>1. configs[Block] \in ConfigType
  BY BlockIsRead DEF CloseServer
<1>2. PICK s \in Sorted(configs[Block].locations) :
        SlashFirst(s) /\ configs' = [configs EXCEPT ![Block].locations = s]
  BY DEF CloseServer
<1> DEFINE b == [configs[Block] EXCEPT !.locations = s]
<1>3. s \in Seq(Location) /\ Ready(s)
  BY <1>1, <1>2, SortedIsTyped DEF ConfigType, Ready
<1>4. b \in ConfigType /\ b.ports = configs[Block].ports /\ b.bare = configs[Block].bare
      /\ b.locations = s
  BY <1>1, <1>3 DEF ConfigType
<1>5. configs' = [configs EXCEPT ![Block] = b]
  BY <1>2
<1> HIDE DEF b
<1>6. TypeOK' /\ PortMapAgrees' /\ BlocksAreReady'
  BY <1>3, <1>4, <1>5, TypeAfterEdit, MapAfterEdit, ReadyAfterEdit
     DEF CloseServer, SelectInv, TypeOK
<1> QED
  BY <1>6, ReadingFindsNothing DEF SelectInv, CloseServer

LEMMA ToSetOfAppend ==
  ASSUME NEW S, NEW s \in Seq(S), NEW x \in S
  PROVE  ToSet(Append(s, x)) = ToSet(s) \cup {x}
<1>1. Len(s) \in Nat /\ DOMAIN s = 1 .. Len(s) /\ DOMAIN Append(s, x) = 1 .. Len(s) + 1
  OBVIOUS
<1>2. \A i \in DOMAIN s : Append(s, x)[i] = s[i]
  OBVIOUS
<1>3. Append(s, x)[Len(s) + 1] = x
  OBVIOUS
<1>4. DOMAIN Append(s, x) = DOMAIN s \cup {Len(s) + 1}
  BY <1>1
<1> QED
  BY <1>2, <1>3, <1>4 DEF ToSet

LEMMA ListenIpKeeps ==
  ASSUME SelectInv, ListenIp
  PROVE  SelectInv'
<1> DEFINE b == [configs[Block] EXCEPT !.ports = Append(@, DefaultPort), !.bare = TRUE]
<1>1. configs \in Seq(ConfigType) /\ Block \in DOMAIN configs /\ configs[Block] \in ConfigType
  BY BlockIsRead DEF ListenIp
<1>2. /\ b \in ConfigType /\ b.bare = TRUE
      /\ b.ports = Append(configs[Block].ports, DefaultPort)
  <2>1. Append(configs[Block].ports, DefaultPort) \in Seq(Ports)
    BY <1>1, ConfigAssumption DEF ConfigType
  <2> QED
    BY <1>1, <2>1 DEF ConfigType
<1>3. configs' = [configs EXCEPT ![Block] = b]
  BY DEF ListenIp
<1>4. ToSet(b.ports) = ToSet(configs[Block].ports) \cup {DefaultPort}
  <2>1. configs[Block].ports \in Seq(Ports)
    BY <1>1 DEF ConfigType
  <2> QED
    BY <1>2, <2>1, ToSetOfAppend, ConfigAssumption
<1> HIDE DEF b
<1>5. TypeOK' /\ BlocksAreReady' /\ configs' # <<>>
  BY <1>2, <1>3, TypeAfterEdit, ReadyAfterEdit, BlockEdited DEF ListenIp, SelectInv, TypeOK
<1>6. PortMapAgrees'
  <2> SUFFICES ASSUME NEW p \in Ports
               PROVE  /\ Exact(p)' => \A i \in DOMAIN configs' :
                                        Lists(i, p)' => i \in ToSet(portMap[p])
                      /\ \A a, c \in DOMAIN portMap[p] : a < c => portMap[p][a] < portMap[p][c]
                      /\ \A i \in ToSet(portMap[p]) : Lists(i, p)'
    BY DEF PortMapAgrees, ListenIp
  <2>1. /\ DOMAIN configs' = DOMAIN configs /\ configs'[Block] = b
        /\ \A i \in DOMAIN configs \ {Block} : configs'[i] = configs[i]
    BY <1>2, <1>3, BlockEdited DEF ListenIp
  <2>2. \A i \in DOMAIN configs : Lists(i, p) => Lists(i, p)'
    BY <2>1, <1>4 DEF Lists
  <2>3. ToSet(portMap[p]) \subseteq DOMAIN configs
    BY DEF SelectInv, TypeOK, ToSet
  <2>4. CASE p = DefaultPort
    <3>1. ~ Exact(p)'
      BY <2>1, <2>4, <1>1, <1>2 DEF Exact
    <3> QED
      BY <3>1, <2>2, <2>3 DEF SelectInv, PortMapAgrees
  <2>5. CASE p # DefaultPort
    <3>1. \A i \in DOMAIN configs : Lists(i, p)' => Lists(i, p)
      BY <2>1, <2>5, <1>4 DEF Lists
    <3>2. Exact(p)
      BY <2>5 DEF Exact
    <3> QED
      BY <3>1, <3>2, <2>1, <2>2, <2>3 DEF SelectInv, PortMapAgrees
  <2> QED
    BY <2>4, <2>5
<1> QED
  BY <1>5, <1>6, ReadingFindsNothing DEF SelectInv, ListenIp

LEMMA ListenPortKeeps ==
  ASSUME SelectInv, NEW p \in Ports, ListenPort(p)
  PROVE  SelectInv'
<1> DEFINE b == [configs[Block] EXCEPT !.ports = Append(@, p)]
<1>1. configs \in Seq(ConfigType) /\ Block \in DOMAIN configs /\ configs[Block] \in ConfigType
  BY BlockIsRead DEF ListenPort
<1>2. /\ b \in ConfigType /\ b.bare = configs[Block].bare
      /\ b.ports = Append(configs[Block].ports, p)
  <2>1. Append(configs[Block].ports, p) \in Seq(Ports)
    BY <1>1 DEF ConfigType
  <2> QED
    BY <1>1, <2>1 DEF ConfigType
<1>3. configs' = [configs EXCEPT ![Block] = b]
  BY DEF ListenPort
<1>4. ToSet(b.ports) = ToSet(configs[Block].ports) \cup {p}
  <2>1. configs[Block].ports \in Seq(Ports)
    BY <1>1 DEF ConfigType
  <2> QED
    BY <1>2, <2>1, ToSetOfAppend
<1> HIDE DEF b
<1>5. portMap \in [Ports -> Seq(DOMAIN configs)]
  BY DEF SelectInv, TypeOK
<1>6. /\ portMap' \in [Ports -> Seq(DOMAIN configs)]
      /\ portMap'[p] = Append(portMap[p], Block)
      /\ \A q \in Ports \ {p} : portMap'[q] = portMap[q]
  <2>1. portMap' = [portMap EXCEPT ![p] = Append(@, Block)]
    BY DEF ListenPort, Filed
  <2>2. Append(portMap[p], Block) \in Seq(DOMAIN configs)
    BY <1>1, <1>5
  <2> QED
    BY <2>1, <2>2, <1>5
<1>7. TypeOK' /\ BlocksAreReady' /\ configs' # <<>>
  BY <1>2, <1>3, <1>6, TypeAfterEdit, ReadyAfterEdit, BlockEdited DEF ListenPort
<1>8. PortMapAgrees'
  <2> SUFFICES ASSUME NEW q \in Ports
               PROVE  /\ Exact(q)' => \A i \in DOMAIN configs' :
                                        Lists(i, q)' => i \in ToSet(portMap'[q])
                      /\ \A a, c \in DOMAIN portMap'[q] : a < c => portMap'[q][a] < portMap'[q][c]
                      /\ \A i \in ToSet(portMap'[q]) : Lists(i, q)'
    BY DEF PortMapAgrees
  <2>1. /\ DOMAIN configs' = DOMAIN configs /\ configs'[Block] = b
        /\ \A i \in DOMAIN configs \ {Block} : configs'[i] = configs[i]
    BY <1>2, <1>3, BlockEdited DEF ListenPort
  <2>2. Exact(q)' => Exact(q)
    BY <2>1, <1>2 DEF Exact
  <2>3. portMap[q] \in Seq(DOMAIN configs) /\ ToSet(portMap[q]) \subseteq DOMAIN configs
    BY <1>5 DEF ToSet
  <2>4. \A i \in DOMAIN configs : Lists(i, q)' <=> Lists(i, q) \/ (i = Block /\ q = p)
    BY <2>1, <1>4 DEF Lists
  <2>5. CASE q # p
    BY <2>1, <2>2, <2>3, <2>4, <2>5, <1>6 DEF SelectInv, PortMapAgrees
  <2>6. CASE q = p
    <3>1. ToSet(portMap'[q]) = ToSet(portMap[q]) \cup {Block}
      BY <2>3, <2>6, <1>1, <1>6, ToSetOfAppend
    <3>2. \A i \in ToSet(portMap[q]) : i < Block
      <4>1. Block \notin ToSet(portMap[q])
        BY <2>6 DEF ListenPort, SelectInv, PortMapAgrees
      <4>2. DOMAIN configs = 1 .. Block /\ Block \in Nat
        BY <1>1 DEF Block
      <4> QED
        BY <2>3, <4>1, <4>2
    <3>3. \A a, c \in DOMAIN portMap'[q] : a < c => portMap'[q][a] < portMap'[q][c]
      <4> SUFFICES ASSUME NEW a \in DOMAIN portMap'[q], NEW c \in DOMAIN portMap'[q], a < c
                   PROVE  portMap'[q][a] < portMap'[q][c]
        OBVIOUS
      <4>1. /\ Len(portMap[q]) \in Nat /\ DOMAIN portMap[q] = 1 .. Len(portMap[q])
            /\ DOMAIN portMap'[q] = 1 .. Len(portMap[q]) + 1
        BY <2>3, <2>6, <1>6
      <4>2. /\ \A i \in DOMAIN portMap[q] : portMap'[q][i] = portMap[q][i]
            /\ portMap'[q][Len(portMap[q]) + 1] = Block
        BY <2>3, <2>6, <1>6
      <4>3. a \in DOMAIN portMap[q] /\ portMap[q][a] < Block
        BY <4>1, <3>2 DEF ToSet
      <4>4. CASE c = Len(portMap[q]) + 1
        BY <4>2, <4>3, <4>4
      <4>5. CASE c # Len(portMap[q]) + 1
        BY <4>1, <4>2, <4>3, <4>5 DEF SelectInv, PortMapAgrees
      <4> QED
        BY <4>4, <4>5
    <3> QED
      BY <3>1, <3>3, <2>1, <2>2, <2>3, <2>4, <2>6, <1>1 DEF SelectInv, PortMapAgrees
  <2> QED
    BY <2>5, <2>6
<1> QED
  BY <1>7, <1>8, ReadingFindsNothing DEF SelectInv, ListenPort

LEMMA StagesKeep ==
  ASSUME SelectInv, RejectServer \/ Start \/ StartFails
  PROVE  SelectInv'
<1> USE DEF RejectServer, Start, StartFails
<1>1. stage \in {"file", "block"} /\ UNCHANGED <<configs, portMap, found>>
      /\ stage' \in {"rejected", "serving"} /\ (stage' = "serving" => stage = "file")
  OBVIOUS
<1>2. TypeOK' /\ PortMapAgrees'
  BY <1>1 DEF SelectInv, TypeOK, PortMapAgrees, Exact, Lists
<1>3. BlocksAreReady'
  BY <1>1 DEF SelectInv, BlocksAreReady, Closed, Block
<1> QED
  BY <1>1, <1>2, <1>3, ReadingFindsNothing DEF SelectInv

LEMMA StutterKeeps ==
  ASSUME SelectInv, UNCHANGED vars
  PROVE  SelectInv'
BY DEF vars, SelectInv, TypeOK, PortMapAgrees, Exact, Lists, BlocksAreReady, Closed, Block,
       Ready, SlashFirst, FoundIsLate, HostIsServed, LocationFits

-----------------------------------------------------------------------------
(***************************************************************************)
(* Serving: the block and the location of a request.                       *)
(***************************************************************************)

\* The block is the first of those filed under the port that has the name, or
\* the first of all.
LEMMA FindConfigIsFirst ==
  ASSUME SelectInv, NEW p \in Ports, NEW host, portMap[p] # <<>>
  PROVE  LET filed == ToSet(portMap[p])
             named == {i \in filed : host \in configs[i].names}
             asked == IF named = {} THEN filed ELSE named
         IN FindConfig(p, host) \in asked /\ \A i \in asked : FindConfig(p, host) <= i
<1> DEFINE s == portMap[p]
           I == {k \in 1 .. Len(s) : host \in configs[s[k]].names}
           k == SelectInSeq(s, LAMBDA i : host \in configs[i].names)
           filed == ToSet(s)
           named == {i \in filed : host \in configs[i].names}
<1>1. s \in Seq(DOMAIN configs) /\ Len(s) \in Nat \ {0} /\ DOMAIN s = 1 .. Len(s)
  BY DEF SelectInv, TypeOK
<1>2. \A a, c \in DOMAIN s : a <= c => s[a] <= s[c]
  <2> SUFFICES ASSUME NEW a \in DOMAIN s, NEW c \in DOMAIN s, a <= c PROVE s[a] <= s[c]
    OBVIOUS
  <2>1. s[a] \in Nat /\ s[c] \in Nat
    <3>1. configs \in Seq(ConfigType)
      BY DEF SelectInv, TypeOK, ConfigType, Location
    <3> QED
      BY <1>1, <3>1
  <2>2. a < c => s[a] < s[c]
    BY DEF SelectInv, PortMapAgrees
  <2> QED
    BY <2>1, <2>2, <1>1
<1>3. filed = {s[i] : i \in 1 .. Len(s)}
  BY <1>1 DEF ToSet
<1>4. FindConfig(p, host) = s[IF k = 0 THEN 1 ELSE k]
  BY DEF FindConfig
<1>5. CASE I = {}
  <2>1. k = 0
    BY <1>5 DEF SelectInSeq
  <2>2. named = {}
    BY <1>3, <1>5
  <2>3. 1 \in 1 .. Len(s) /\ \A i \in 1 .. Len(s) : s[1] <= s[i]
    BY <1>1, <1>2
  <2> HIDE DEF k, s
  <2> QED
    BY <2>1, <2>2, <2>3, <1>3, <1>4 DEF s
<1>6. CASE I # {}
  <2>1. k = Min(I)
    BY <1>6 DEF SelectInSeq
  <2>2. k \in I /\ \A i \in I : k <= i
    <3>1. I \in SUBSET Nat
      BY <1>1
    <3> QED
      BY <2>1, <3>1, <1>6, MinIsLeast
  <2>3. named = {s[i] : i \in I} /\ named # {}
    BY <1>3, <1>6
  <2>4. \A i \in I : s[k] <= s[i]
    BY <2>2, <1>1, <1>2
  <2>5. k # 0
    BY <2>2
  <2> HIDE DEF k, s, I
  <2> QED
    BY <2>2, <2>3, <2>4, <2>5, <1>4 DEF s
<1> QED
  BY <1>5, <1>6

\* The location is the last that the uri begins with, or the first of all when
\* there is none.
LEMMA FindLocationIsLast ==
  ASSUME NEW i, NEW uri \in Uris, configs[i] \in ConfigType, Ready(configs[i].locations)
  PROVE  LET all == configs[i].locations
             l == FindLocation(i, uri)
             fitting == {j \in DOMAIN all : IsPrefix(all[j].match, uri)}
         IN /\ l \in DOMAIN all
            /\ fitting = {} => l = 1
            /\ fitting # {} => l \in fitting /\ \A j \in fitting : j <= l
<1> DEFINE all == configs[i].locations
           I == {k \in 1 .. Len(all) : IsPrefix(all[k].match, uri)}
           l == FindLocation(i, uri)
<1>1. all \in Seq(Location) /\ Len(all) \in Nat /\ DOMAIN all = 1 .. Len(all)
  BY DEF ConfigType
<1>2. 1 \in DOMAIN all
  <2>1. all # <<>>
    BY DEF Ready, SlashFirst
  <2> QED
    BY <1>1, <2>1
<1>3. CASE I = {}
  <2>1. l = 1
    BY <1>3 DEF FindLocation, SelectLastInSeq
  <2> QED
    BY <2>1, <1>1, <1>2, <1>3
<1>4. CASE I # {}
  <2>1. I \in SUBSET (1 .. Len(all))
    OBVIOUS
  <2>2. Max(I) \in I /\ \A j \in I : Max(I) >= j
    BY <2>1, <1>1, <1>4, MaxIsGreatest
  <2>3. Max(I) # 0
    BY <2>2, <1>1
  <2>4. l = Max(I)
    BY <2>3, <1>4 DEF FindLocation, SelectLastInSeq
  <2>5. l \in I /\ \A j \in I : j <= l
    BY <2>2, <2>4, <1>1
  <2> QED
    BY <2>5, <1>1, <1>4
<1> QED
  BY <1>3, <1>4

LEMMA RequestKeeps ==
  ASSUME SelectInv, NEW p \in Ports, NEW h \in Hosts \cup {NoHost}, NEW u \in Uris,
         Request(p, h, u)
  PROVE  SelectInv'
<1> DEFINE i == FindConfig(p, h)
           l == FindLocation(i, u)
<1>1. /\ UNCHANGED <<stage, configs, portMap>> /\ stage = "serving" /\ portMap[p] # <<>>
      /\ found' = [port |-> p, host |-> h, uri |-> u, config |-> i, location |-> l]
  BY DEF Request
<1>2. configs \in Seq(ConfigType) /\ portMap[p] \in Seq(DOMAIN configs)
  BY DEF SelectInv, TypeOK, ConfigType, Location
<1>3. LET filed == ToSet(portMap[p])
          named == {k \in filed : h \in configs[k].names}
          asked == IF named = {} THEN filed ELSE named
      IN i \in asked /\ \A k \in asked : i <= k
  BY <1>1, FindConfigIsFirst
<1>4. ToSet(portMap[p]) \subseteq DOMAIN configs
  BY <1>2 DEF ToSet
<1>5. i \in DOMAIN configs /\ configs[i] \in ConfigType
  BY <1>2, <1>3, <1>4
<1>6. Ready(configs[i].locations)
  BY <1>1, <1>5 DEF SelectInv, BlocksAreReady, Closed
<1>7. LET all == configs[i].locations
          fitting == {j \in DOMAIN all : IsPrefix(all[j].match, u)}
      IN /\ l \in DOMAIN all
         /\ fitting = {} => l = 1
         /\ fitting # {} => l \in fitting /\ \A j \in fitting : j <= l
  BY <1>5, <1>6, FindLocationIsLast
<1> HIDE DEF i, l
<1>8. configs[i].locations \in Seq(Location)
  BY <1>5 DEF ConfigType
<1>9. TypeOK'
  <2>1. l \in Nat
    BY <1>7, <1>8
  <2> QED
    BY <2>1, <1>1, <1>5 DEF SelectInv, TypeOK
<1>10. PortMapAgrees' /\ BlocksAreReady' /\ FoundIsLate'
  BY <1>1 DEF SelectInv, PortMapAgrees, Exact, Lists, BlocksAreReady, Closed, Block, FoundIsLate
<1>11. HostIsServed'
  <2> SUFFICES ASSUME Exact(p)
               PROVE  LET here  == {k \in DOMAIN configs : Lists(k, p)}
                          named == {k \in here : h \in configs[k].names}
                      IN \A k \in (IF named = {} THEN here ELSE named) :
                           i \in (IF named = {} THEN here ELSE named) /\ i <= k
    BY <1>1 DEF HostIsServed, Exact, Lists
  <2>1. {k \in DOMAIN configs : Lists(k, p)} = ToSet(portMap[p])
    BY <1>4 DEF SelectInv, PortMapAgrees
  <2> QED
    BY <2>1, <1>3
<1>12. LocationFits'
  <2> DEFINE all == configs[i].locations
             this == all[l]
             fitting == {m \in DOMAIN all : IsPrefix(all[m].match, u)}
  <2> SUFFICES IF fitting = {}
               THEN l = 1 /\ this.match = Root
               ELSE /\ l \in fitting
                    /\ \A m \in fitting :
                         IsStrictPrefix(this.match, all[m].match)
                         => all[m].weight - Len(all[m].match) < this.weight - Len(this.match)
    BY <1>1 DEF LocationFits
  <2>1. CASE fitting = {}
    BY <2>1, <1>6, <1>7 DEF Ready, SlashFirst
  <2>2. CASE fitting # {}
    <3> SUFFICES ASSUME NEW j \in fitting, IsStrictPrefix(this.match, all[j].match)
                 PROVE  all[j].weight - Len(all[j].match) < this.weight - Len(this.match)
      BY <2>2, <1>7
    <3>1. this \in Location /\ j \in DOMAIN all /\ all[j] \in Location
      BY <1>7, <1>8
    <3>2. Len(this.match) \in Nat /\ Len(all[j].match) \in Nat
          /\ Len(this.match) < Len(all[j].match)
      <4>1. this.match \in Seq(STRING) /\ all[j].match \in Seq(STRING)
        BY <3>1, ConfigAssumption DEF Location
      <4> QED
        BY <4>1, InsideIsLonger
    <3>3. all[j].weight <= this.weight
      <4>1. j <= l
        BY <2>2, <1>7
      <4>2. j # l
        BY <3>2
      <4>3. j < l
        BY <3>1, <4>1, <4>2, <1>7, <1>8
      <4> QED
        BY <3>1, <4>3, <1>6, <1>7 DEF Ready
    <3> QED
      BY <3>1, <3>2, <3>3 DEF Location
  <2> QED
    BY <2>1, <2>2
<1> QED
  BY <1>1, <1>9, <1>10, <1>11, <1>12 DEF SelectInv

-----------------------------------------------------------------------------
(***************************************************************************)
(* The theorems.                                                           *)
(***************************************************************************)
LEMMA SelectInvStep == SelectInv /\ [Next]_vars => SelectInv'
<1> SUFFICES ASSUME SelectInv, [Next]_vars PROVE SelectInv'
  OBVIOUS
<1>1. CASE OpenServer
  BY <1>1, OpenServerKeeps
<1>2. CASE \E p \in Ports : ListenPort(p)
  BY <1>2, ListenPortKeeps
<1>3. CASE ListenIp
  BY <1>3, ListenIpKeeps
<1>4. CASE \E n \in Names : ServerName(n)
  BY <1>4, ServerNameKeeps
<1>5. CASE \E m \in Matches : LocationBlock(m)
  BY <1>5, LocationBlockKeeps
<1>6. CASE CloseServer
  BY <1>6, CloseServerKeeps
<1>7. CASE RejectServer \/ Start \/ StartFails
  BY <1>7, StagesKeep
<1>8. CASE \E p \in Ports, h \in Hosts \cup {NoHost}, u \in Uris : Request(p, h, u)
  BY <1>8, RequestKeeps
<1>9. CASE Stopped \/ UNCHANGED vars
  BY <1>9, StutterKeeps DEF Stopped
<1> QED
  BY <1>1, <1>2, <1>3, <1>4, <1>5, <1>6, <1>7, <1>8, <1>9 DEF Next

LEMMA SelectIsInvariant == Spec => []SelectInv
BY SelectInvInit, SelectInvStep, PTL DEF Spec

\* The variables keep their types: the blocks filed under a port are blocks of
\* the file (addConfigToPort), and so is the block that serves a request.
THEOREM SelectIsTyped == Spec => []TypeOK
<1>1. SelectInv => TypeOK
  BY DEF SelectInv
<1> QED
  BY <1>1, SelectIsInvariant, PTL

\* The port map that main makes the Servers from has, for each port, blocks that
\* list it (processListen, addConfigToPort), once and in their order, and all of
\* them, unless the port is DEFAULT_PORT and an address alone is listened to.
THEOREM PortMapIsRight == Spec => []PortMapAgrees
<1>1. SelectInv => PortMapAgrees
  BY DEF SelectInv
<1> QED
  BY <1>1, SelectIsInvariant, PTL

\* A request is served by the first block of its port with its host's name, or
\* by the first of all (Server::findConfig), with the same exception.
THEOREM HostFindsItsBlock == Spec => []HostIsServed
<1>1. SelectInv => HostIsServed
  BY DEF SelectInv
<1> QED
  BY <1>1, SelectIsInvariant, PTL

\* The location that serves a request fits its uri whenever one of the block's
\* does (Config::findLocation), and none inside it that fits too and stands later
\* in the file is passed over; otherwise the location of the root serves it.
THEOREM UriFindsItsLocation == Spec => []LocationFits
<1>1. SelectInv => LocationFits
  BY DEF SelectInv
<1> QED
  BY <1>1, SelectIsInvariant, PTL

=============================================================================
