----------------------------- MODULE PortMapping -----------------------------
(***************************************************************************)
(* base/PortMappingHandler.cpp and the calls NetEngine makes of it: the    *)
(* peer asks the home router over UPnP to forward its UDP and TCP port.    *)
(* Every UPnP call is a step of its own, and the other hosts of the home   *)
(* change the router's table between them.  The table outlives the         *)
(* process.                                                                *)
(***************************************************************************)
EXTENDS Integers, Sequences, FiniteSets

CONSTANTS Me, Other,      \* LAN addresses: the peer's, and another host's
          Port,           \* serverPort
          Elsewhere,      \* another external port
          MaxChanges,     \* bound on what the other host does
          MaxErrors       \* bound on the UPnP calls that fail

ASSUME HostsAssumption == Me # Other /\ Port # Elsewhere
ASSUME RouterBoundsAssumption == MaxChanges \in Nat /\ MaxErrors \in Nat

VARIABLES
  table,      \* the router's mappings, in the order in which it lists them
  changes,    \* what the other host has done so far
  errors,     \* the calls that have failed so far
  mapping,    \* where mapPort() is
  index,      \* the entry it looks at
  hit,        \* the entry it is about to delete
  lost        \* history: the protocols whose mapping another host deleted behind mapPort()'s back

mapVars == <<table, changes, errors, mapping, index, hit, lost>>

Proto == {"UDP", "TCP"}
Entry == [ext : {Port, Elsewhere}, proto : Proto, client : {Me, Other}, port : {Port, Elsewhere}]

Mapped(ext, proto, client, port) ==
  [ext |-> ext, proto |-> proto, client |-> client, port |-> port]

\* What mapPort() asks for, twice.
Wanted(proto) == Mapped(Port, proto, Me, Port)

Entries == {table[i] : i \in DOMAIN table}
Taken(ext, proto) == {e \in Entries : e.ext = ext /\ e.proto = proto}
NoEntry == Mapped(Elsewhere, "UDP", Other, Elsewhere)

MapInit ==
  /\ table = <<>>
  /\ changes = 0
  /\ errors = 0
  /\ mapping = "off"
  /\ index = 1
  /\ hit = NoEntry
  /\ lost = {}

-----------------------------------------------------------------------------
(* The router (external).  Adding a mapping of another host fails with 718, *)
(* adding one's own again renews it; deleting one that is not there fails   *)
(* with 714.                                                                *)

\* The entries behind one that goes move up.
RemoveEntry(i) == table' = SubSeq(table, 1, i - 1) \o SubSeq(table, i + 1, Len(table))

Conflicts(proto) == \E e \in Taken(Port, proto) : e.client # Me

AddEntry(proto) ==
  table' = IF Taken(Port, proto) = {} THEN Append(table, Wanted(proto))
           ELSE [i \in DOMAIN table |->
                   IF table[i] \in Taken(Port, proto) THEN Wanted(proto) ELSE table[i]]

\* Any host may delete any mapping.
DeleteEntry(ext, proto) ==
  IF Taken(ext, proto) = {} THEN UNCHANGED table
  ELSE \E i \in DOMAIN table : table[i] \in Taken(ext, proto) /\ RemoveEntry(i)

\* Another host takes the peer's port, or deletes a mapping, which may be one of this peer's:
\* unmapPort() of a second peer with this port does so.  The peer's user may forward another
\* external port to it by hand.
OtherChanges ==
  /\ changes < MaxChanges
  /\ changes' = changes + 1
  /\ \/ /\ \E proto \in Proto :
             Taken(Port, proto) = {} /\ table' = Append(table, Mapped(Port, proto, Other, Port))
        /\ UNCHANGED lost
     \/ \E i \in DOMAIN table :
          RemoveEntry(i) /\ lost' = lost \cup {proto \in Proto : table[i] = Wanted(proto)}
     \/ /\ Taken(Elsewhere, "UDP") = {}
        /\ table' = Append(table, Mapped(Elsewhere, "UDP", Me, Port))
        /\ UNCHANGED lost
  /\ UNCHANGED <<errors, mapping, index, hit>>

CallFails == errors < MaxErrors /\ errors' = errors + 1

-----------------------------------------------------------------------------
\* The constructor: upnpDiscover(), UPNP_GetValidIGD() and UPNP_GetExternalIPAddress().  Whether
\* all of them succeeded shows when the port is to be mapped.
Discover ==
  /\ mapping = "off"
  /\ mapping' = "idle"
  /\ UNCHANGED <<table, changes, errors, index, hit, lost>>

\* Without an upnpDevice mapPort() fails at once.
MapPort ==
  /\ mapping = "idle"
  /\ mapping' \in {"scan", "failed"}
  /\ index' = 1
  /\ lost' = {}
  /\ UNCHANGED <<table, changes, errors, hit>>

MineAt(i) == table[i].port = Port /\ table[i].client = Me

\* UPNP_GetGenericPortMappingEntry(): 713 ends the loop.
Scan ==
  /\ mapping = "scan"
  /\ \/ /\ index \notin DOMAIN table
        /\ mapping' = "addUDP" /\ UNCHANGED <<index, errors, hit>>
     \/ /\ index \in DOMAIN table /\ ~MineAt(index)
        /\ index' = index + 1 /\ UNCHANGED <<mapping, errors, hit>>
     \/ /\ index \in DOMAIN table /\ MineAt(index)
        /\ hit' = table[index] /\ mapping' = "delete" /\ UNCHANGED <<index, errors>>
     \/ CallFails /\ mapping' = "failed" /\ UNCHANGED <<index, hit>>
  /\ UNCHANGED <<table, changes, lost>>

\* The loop's ++index follows, so the entry that moves up into the gap is not looked at.
DeleteHit ==
  /\ mapping = "delete"
  /\ \/ /\ Taken(hit.ext, hit.proto) # {}
        /\ DeleteEntry(hit.ext, hit.proto)
        /\ index' = index + 1 /\ mapping' = "scan" /\ UNCHANGED errors
     \/ /\ Taken(hit.ext, hit.proto) = {}
        /\ mapping' = "failed" /\ UNCHANGED <<table, index, errors>>
     \/ CallFails /\ mapping' = "failed" /\ UNCHANGED <<table, index>>
  /\ hit' = NoEntry
  /\ UNCHANGED <<changes, lost>>

\* Wrong variant: a conflict is taken for a mapping that exists.
AddUdpAnyway ==
  /\ mapping = "addUDP"
  /\ IF Conflicts("UDP") THEN UNCHANGED table ELSE AddEntry("UDP")
  /\ mapping' = "addTCP"
  /\ lost' = lost \ {"UDP"}
  /\ UNCHANGED <<changes, index, hit, errors>>

AddUdp ==
  /\ mapping = "addUDP"
  /\ \/ /\ ~Conflicts("UDP") /\ AddEntry("UDP")
        /\ mapping' = "addTCP" /\ lost' = lost \ {"UDP"} /\ UNCHANGED errors
     \/ Conflicts("UDP") /\ mapping' = "failed" /\ UNCHANGED <<table, errors, lost>>
     \/ CallFails /\ mapping' = "failed" /\ UNCHANGED <<table, lost>>
  /\ UNCHANGED <<changes, index, hit>>

AddTcp ==
  /\ mapping = "addTCP"
  /\ \/ /\ ~Conflicts("TCP") /\ AddEntry("TCP")
        /\ mapping' = "mapped" /\ lost' = lost \ {"TCP"} /\ UNCHANGED errors
     \/ Conflicts("TCP") /\ mapping' = "unmapUDP" /\ UNCHANGED <<table, errors, lost>>
     \/ CallFails /\ mapping' = "unmapUDP" /\ UNCHANGED <<table, lost>>
  /\ UNCHANGED <<changes, index, hit>>

\* unmapPort(): the errors of both calls are only logged, and both mappings go, whoever's they are.
UnmapUdp ==
  /\ mapping = "unmapUDP"
  /\ \/ DeleteEntry(Port, "UDP") /\ UNCHANGED errors
     \/ CallFails /\ UNCHANGED table
  /\ mapping' = "unmapTCP"
  /\ UNCHANGED <<changes, index, hit, lost>>

UnmapTcp ==
  /\ mapping = "unmapTCP"
  /\ \/ DeleteEntry(Port, "TCP") /\ UNCHANGED errors
     \/ CallFails /\ UNCHANGED table
  /\ mapping' = "failed"
  /\ UNCHANGED <<changes, index, hit, lost>>

\* ~PortMappingHandler(), and the end of the process: mappedExternalPorts is never filled, so
\* nothing is unmapped.
HandlerGone ==
  /\ mapping' = "off"
  /\ index' = 1
  /\ hit' = NoEntry
  /\ lost' = {}
  /\ UNCHANGED <<table, changes, errors>>

MapStep == Scan \/ DeleteHit \/ AddUdp \/ AddTcp \/ UnmapUdp \/ UnmapTcp

\* mapPort() has not returned.
Mapping == mapping \in {"scan", "delete", "addUDP", "addTCP", "unmapUDP", "unmapTCP"}

-----------------------------------------------------------------------------
\* A router has at most one mapping for a protocol and an external port.
OneEntryEach ==
  \A i, j \in DOMAIN table :
    table[i].ext = table[j].ext /\ table[i].proto = table[j].proto => i = j

MapTypeOK ==
  /\ \A i \in DOMAIN table : table[i] \in Entry
  /\ OneEntryEach
  /\ changes \in 0..MaxChanges /\ errors \in 0..MaxErrors
  /\ mapping \in {"off", "idle", "scan", "delete", "addUDP", "addTCP", "unmapUDP", "unmapTCP",
                  "mapped", "failed"}
  /\ index \in 1..(Len(table) + 5) /\ hit \in Entry /\ lost \subseteq Proto

\* mapPort() returns the port only if each protocol reaches the peer or another host deleted its
\* mapping after mapPort() had added it: an entry that an earlier process left, one that the scan
\* skipped, one that another host put in its place and an error of a call never make a mapping
\* look done.  If mapPort() fails behind its first mapping, it takes that one back, unless the
\* router refuses a call.
BothOrNeither ==
  [][/\ mapping' = "mapped" => \A proto \in Proto : Wanted(proto) \in Entries' \/ proto \in lost'
     /\ mapping = "unmapTCP" /\ mapping' = "failed" /\ errors' = 0 =>
          \A proto \in Proto : Wanted(proto) \notin Entries']_mapVars

-----------------------------------------------------------------------------
(* The inductive invariant.                                                 *)

\* What mapPort() has achieved when it gets to its last calls stays so, or is lost to another host.
MapIInv ==
  /\ table \in Seq(Entry) /\ OneEntryEach /\ errors \in Nat
  /\ mapping \in {"addTCP", "mapped"} => Wanted("UDP") \in Entries \/ "UDP" \in lost
  /\ mapping = "mapped" => Wanted("TCP") \in Entries \/ "TCP" \in lost
  /\ mapping = "unmapTCP" /\ errors = 0 => Wanted("UDP") \notin Entries
=============================================================================
