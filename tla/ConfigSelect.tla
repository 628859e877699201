---------------------------- MODULE ConfigSelect ----------------------------
(***************************************************************************)
(* From the configuration file to the block that serves a request.         *)
(* ConfigParser reads the server blocks directive by directive and files   *)
(* each under the ports it listens on; main starts one Server per port;    *)
(* for every request Server::findConfig picks the block and                *)
(* Config::findLocation its location.  Directives that only set a value    *)
(* are left out, and so is a file with a syntax error.                     *)
(***************************************************************************)
EXTENDS Naturals, Sequences, SequencesExt

CONSTANTS
  Ports,         \* the ports of listen directives
  DefaultPort,   \* DEFAULT_PORT
  Names,         \* the names of server_name directives
  Hosts,         \* the Host fields of requests, without their port
  NoHost,        \* a request without a Host field
  Matches,       \* the paths of location blocks, as sequences of characters
  Uris,          \* the uris of requests, with a slash in front or without
  MaxServers,    \* bounds: blocks of the file ...
  MaxLocations,  \* ... locations in a block
  MaxListens     \* ... ports of a block

Root == <<"/">>

ASSUME ConfigAssumption ==
  /\ NoHost \notin Hosts \cup Names
  /\ DefaultPort \in Ports
  /\ Matches \subseteq Seq(STRING)
  /\ Uris \subseteq Seq(STRING)
  /\ MaxServers \in Nat /\ MaxLocations \in Nat /\ MaxListens \in Nat

VARIABLES
  stage,      \* between blocks, in a block, rejected, or serving
  configs,    \* ConfigParser::_configs, in the order of the file
  portMap,    \* ConfigParser::_ports, later _configs of each Server
  found       \* what the last request was given

vars == <<stage, configs, portMap, found>>

Block     == Len(configs)          \* the block being read

\* A Config; bare is history: whether it listens to an address without a port.
NewConfig == [ports |-> <<>>, bare |-> FALSE, names |-> {}, locations |-> <<>>]
Nothing   == [port |-> DefaultPort, host |-> NoHost, uri |-> Root, config |-> 0, location |-> 0]

Init ==
  /\ stage = "file"
  /\ configs = <<>>
  /\ portMap = [p \in Ports |-> <<>>]
  /\ found = Nothing

-----------------------------------------------------------------------------
(***************************************************************************)
(* ConfigParser: one action per directive of a server block.               *)
(***************************************************************************)
OpenServer ==
  /\ stage = "file" /\ Len(configs) < MaxServers
  /\ stage' = "block"
  /\ configs' = Append(configs, NewConfig)
  /\ UNCHANGED <<portMap, found>>

Lists(i, p) == p \in ToSet(configs[i].ports)

\* Faulty: filed under the place of the next block (breaks TypeOK).
FiledNext(p) == [portMap EXCEPT ![p] = Append(@, Block + 1)]

\* Faulty: a port that is known is left as it is (breaks HostIsServed).
FiledOnce(p) == IF portMap[p] = <<>> THEN [portMap EXCEPT ![p] = <<Block>>] ELSE portMap

\* addConfigToPort.
Filed(p) == [portMap EXCEPT ![p] = Append(@, Block)]

\* Faulty: the port is listed and filed again (breaks PortMapAgrees).
ListenAgain(p) ==
  /\ stage = "block" /\ Len(configs[Block].ports) < MaxListens
  /\ configs' = [configs EXCEPT ![Block].ports = Append(@, p)]
  /\ portMap' = Filed(p)
  /\ UNCHANGED <<stage, found>>

\* processListen with a port, or an address and a port.
ListenPort(p) ==
  /\ stage = "block" /\ Len(configs[Block].ports) < MaxListens
  /\ ~Lists(Block, p)
  /\ configs' = [configs EXCEPT ![Block].ports = Append(@, p)]
  /\ portMap' = Filed(p)
  /\ UNCHANGED <<stage, found>>

\* processListen with an address alone: listed, not filed.
ListenIp ==
  /\ stage = "block" /\ Len(configs[Block].ports) < MaxListens
  /\ configs' = [configs EXCEPT ![Block].ports = Append(@, DefaultPort), ![Block].bare = TRUE]
  /\ UNCHANGED <<stage, portMap, found>>

ServerName(n) ==
  /\ stage = "block"
  /\ configs' = [configs EXCEPT ![Block].names = @ \cup {n}]
  /\ UNCHANGED <<stage, portMap, found>>

\* processLocationBlock: the weight is the number of locations before this one
\* plus the length of its path.
LocationBlock(m) ==
  /\ stage = "block" /\ Len(configs[Block].locations) < MaxLocations
  /\ configs' = [configs EXCEPT ![Block].locations =
                   Append(@, [match |-> m, weight |-> Len(@) + Len(m)])]
  /\ UNCHANGED <<stage, portMap, found>>

\* sortLocations: std::sort may leave equal weights in any order.
Sorted(locations) ==
  LET n == DOMAIN locations
      places == {f \in [n -> n] : \A i, j \in n : f[i] = f[j] => i = j}
  IN {s \in {[i \in n |-> locations[f[i]]] : f \in places} :
        \A i, j \in n : i < j => s[i].weight <= s[j].weight}

SlashFirst(s) == s # <<>> /\ s[1].match = Root

\* The end of a block: what parseStream checks once the locations are sorted.
CloseServer ==
  /\ stage = "block"
  /\ configs[Block].ports # <<>>
  /\ \E s \in Sorted(configs[Block].locations) :
       /\ SlashFirst(s)
       /\ configs' = [configs EXCEPT ![Block].locations = s]
  /\ stage' = "file"
  /\ UNCHANGED <<portMap, found>>

\* runtime_error: main prints it and returns.
RejectServer ==
  /\ stage = "block"
  /\ \/ configs[Block].ports = <<>>
     \/ \E s \in Sorted(configs[Block].locations) : ~SlashFirst(s)
  /\ stage' = "rejected"
  /\ UNCHANGED <<configs, portMap, found>>

-----------------------------------------------------------------------------
(***************************************************************************)
(* Serving: main, Server::findConfig and Config::findLocation.             *)
(***************************************************************************)
Start ==
  /\ stage = "file"
  /\ stage' = "serving"
  /\ UNCHANGED <<configs, portMap, found>>

\* Server::Server throws when a port cannot be bound, and main exits.
StartFails ==
  /\ stage = "file" /\ \E p \in Ports : portMap[p] # <<>>
  /\ stage' = "rejected"
  /\ UNCHANGED <<configs, portMap, found>>

\* The first block of the port with that name, or its first block.
FindConfig(p, host) ==
  LET named == SelectInSeq(portMap[p], LAMBDA i : host \in configs[i].names)
  IN portMap[p][IF named = 0 THEN 1 ELSE named]

\* Faulty: the loop stops at the first match (breaks LocationFits).
FindFirstLocation(i, uri) ==
  LET fits == SelectInSeq(configs[i].locations, LAMBDA l : IsPrefix(l.match, uri))
  IN IF fits = 0 THEN 1 ELSE fits

\* The last location whose path the uri starts with; the first one for a uri
\* that starts with none, as one without a slash does.
FindLocation(i, uri) ==
  LET fits == SelectLastInSeq(configs[i].locations, LAMBDA l : IsPrefix(l.match, uri))
  IN IF fits = 0 THEN 1 ELSE fits

\* Bound: one request per run, as it changes nothing but found.
Request(p, host, uri) ==
  /\ stage = "serving" /\ portMap[p] # <<>> /\ found.config = 0
  /\ LET i == FindConfig(p, host) IN
     found' = [port |-> p, host |-> host, uri |-> uri, config |-> i,
               location |-> FindLocation(i, uri)]
  /\ UNCHANGED <<stage, configs, portMap>>

\* main has returned, no Server listens to anything, or the request is served.
Stopped ==
  /\ \/ stage = "rejected" \/ found.config # 0
     \/ stage = "serving" /\ \A p \in Ports : portMap[p] = <<>>
  /\ UNCHANGED vars

Next ==
  \/ OpenServer \/ (\E p \in Ports : ListenPort(p)) \/ ListenIp
  \/ (\E n \in Names : ServerName(n)) \/ (\E m \in Matches : LocationBlock(m))
  \/ CloseServer \/ RejectServer \/ Start \/ StartFails
  \/ (\E p \in Ports, h \in Hosts \cup {NoHost}, u \in Uris : Request(p, h, u))
  \/ Stopped

Spec == Init /\ [][Next]_vars

-----------------------------------------------------------------------------
(***************************************************************************)
(* Properties.                                                             *)
(***************************************************************************)

\* The kinds of the variables.
TypeOK ==
  /\ stage \in {"file", "block", "rejected", "serving"}
  /\ configs \in Seq([ports : Seq(Ports), bare : BOOLEAN, names : SUBSET Names,
                      locations : Seq([match : Matches, weight : Nat])])
  /\ Len(configs) <= MaxServers
  /\ portMap \in [Ports -> Seq(DOMAIN configs)]
  /\ found.port \in Ports /\ found.host \in Hosts \cup {NoHost} /\ found.uri \in Uris \cup {Root}
  /\ found.config \in DOMAIN configs \cup {0} /\ found.location \in Nat

\* An address without a port lists DEFAULT_PORT and does not file the block
\* under it (processListen), so that port is set apart when a block has one.
Exact(p) == p = DefaultPort => \A i \in DOMAIN configs : ~configs[i].bare

(***************************************************************************)
(* The port map, from which the Servers are made, and the blocks tell the  *)
(* same story: the blocks of a port are those that list it, each once and  *)
(* in the order of the file.                                               *)
(***************************************************************************)
PortMapAgrees ==
  \A p \in Ports :
    /\ Exact(p) => \A i \in DOMAIN configs : Lists(i, p) => i \in ToSet(portMap[p])
    /\ \A a, b \in DOMAIN portMap[p] : a < b => portMap[p][a] < portMap[p][b]
    /\ \A i \in ToSet(portMap[p]) : Lists(i, p)

(***************************************************************************)
(* A request is served by a block of the file that listens on its port,    *)
(* the first one with its host's name if there is one, and the first of    *)
(* all otherwise, wherever in the block the directives stand.              *)
(***************************************************************************)
HostIsServed ==
  found.config # 0 /\ Exact(found.port) =>
    LET here  == {i \in DOMAIN configs : Lists(i, found.port)}
        named == {i \in here : found.host \in configs[i].names}
    IN \A i \in (IF named = {} THEN here ELSE named) :
         found.config \in (IF named = {} THEN here ELSE named) /\ found.config <= i

(***************************************************************************)
(* The location found matches the uri, and no location inside it that also *)
(* matches and stands after it in the file is passed over: the sort by     *)
(* position plus length keeps a nested location behind the outer one.      *)
(* Only a uri that no location matches is left to another, the block's     *)
(* first, and that is the one of the root.                                 *)
(***************************************************************************)
LocationFits ==
  found.config # 0 =>
    LET all     == configs[found.config].locations
        this    == all[found.location]
        fitting == {l \in DOMAIN all : IsPrefix(all[l].match, found.uri)}
    IN IF fitting = {}
       THEN found.location = 1 /\ this.match = Root
       ELSE /\ found.location \in fitting
            /\ \A l \in fitting :
                 IsStrictPrefix(this.match, all[l].match)
                 => all[l].weight - Len(all[l].match) < this.weight - Len(this.match)

=============================================================================
