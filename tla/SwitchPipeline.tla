----------------------------- MODULE SwitchPipeline ----------------------------
(***************************************************************************)
(* The match-action pipeline of a switch: the state table (50) that looks   *)
(* at the packet type and the output-port bitmap, the flow-table FIB (51)   *)
(* over the hashes of the first name components, and the four tables        *)
(* (52..55) that turn the bitmap into output ports.  A bitmap is the set of *)
(* the ports whose bit is set.                                              *)
(***************************************************************************)
EXTENDS Names, Simulator, FiniteSets

CONSTANT Hash            \* computeComponentHash: [component -> 0..253]

ASSUME HashAssumption ==
    /\ \A c \in DOMAIN Hash : Hash[c] \in 0..253
    /\ \A p \in Prefix : p \in Seq(DOMAIN Hash)

HashCount == 4           \* STATIM_NAME_HASH_COUNT
Padding == 255           \* 0xff: no component here; a wildcard in a match
BitmapPorts == 1..32     \* the ports that the output bitmap can name
StatefulModule == 65535  \* StatimPort::STATEFUL_MODULE
NoExpiry == 0            \* installFibEntry's default: the entry never expires

\* computeNameHashes: components after the fourth are not represented.
NameHashes(n) == [i \in 1..HashCount |-> IF i <= Len(n) THEN Hash[n[i]] ELSE Padding]

\* encodeOutPortsMask
EncodeOutPortsMask(ports) == ports \cap BitmapPorts

Header(type, outPorts, n) == [type |-> type, outPorts |-> outPorts, hashes |-> NameHashes(n)]

--------------------------------------------------------------------------------
(* The flow-table FIB: a set of entries [hashes, port, expiry] *)

\* FlowEntry::matches: an expired entry matches nothing.
EntryMatches_Expired(e, hashes) ==
    \A i \in 1..HashCount : e.hashes[i] \in {Padding, hashes[i]}
EntryMatches(e, hashes) ==
    /\ e.expiry = NoExpiry \/ now < e.expiry
    /\ \A i \in 1..HashCount : e.hashes[i] \in {Padding, hashes[i]}

\* fibPriority grows with the number of components that are represented.
FibPriority(hashes) == 2000 + 1000 * Cardinality({i \in 1..HashCount : hashes[i] # Padding})

\* lookup: the ports of the matching entry of highest priority; the default entry, of
\* priority 0, drops the packet.
FibLookup(fib, hashes) ==
    {e.port : e \in {d \in fib : /\ EntryMatches(d, hashes)
                                 /\ \A f \in fib : EntryMatches(f, hashes)
                                       => FibPriority(f.hashes) <= FibPriority(d.hashes)}}

\* removeFibEntry and installFibEntry: a match has at most one entry.
RemoveEntry(fib, hashes) == {e \in fib : e.hashes # hashes}
InstallEntry(fib, hashes, port, expiry) ==
    RemoveEntry(fib, hashes) \cup {[hashes |-> hashes, port |-> port, expiry |-> expiry]}

--------------------------------------------------------------------------------
\* processPacket: the ports that the pipeline outputs the packet to, {} when it drops the
\* packet.  A control packet becomes a PacketIn and leaves by no port.
ProcessPacket(fib, h) ==
    CASE h.type = "INTEREST" /\ h.outPorts = {} -> FibLookup(fib, h.hashes)
      [] h.type = "UNPROCESSED" -> {StatefulModule}
      [] h.type \in {"INTEREST", "DATA"} /\ h.outPorts # {} -> h.outPorts
      [] h.type = "SELF_LEARNING_DISCOVERY" -> FibLookup(fib, h.hashes)
      [] OTHER -> {}
================================================================================
