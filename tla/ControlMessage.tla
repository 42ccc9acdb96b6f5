----------------------------- MODULE ControlMessage ----------------------------
(***************************************************************************)
(* The control message that the local route controller sends towards the   *)
(* flow-table controller (PACKET_IN), which goes on as a FLOW_MOD to the    *)
(* switch and comes back as a SYNC_ACK.  The name hashes and the prefix     *)
(* length of the message are functions of the prefix and are left out; the  *)
(* type is given by the leg that carries the message.                       *)
(***************************************************************************)
EXTENDS Names

CONSTANT Generation  \* the sequence numbers of trace updates

ASSUME GenerationAssumption == Generation \subseteq Nat

NoSeq == -1          \* "no generation recorded"
NoLease == 0         \* Seconds(0): the route has no deadline

Message == [prefix : Prefix, seq : Generation, port : Port, expiry : Nat]
NoMessage == [seq |-> NoSeq]

\* isExpiredAt reads its deadline inclusively.
IsExpiredAt(m, t) == m.expiry # NoLease /\ t >= m.expiry

\* sameUpdate compares every field of the two messages.
SameUpdate_IgnorePort(m, n) == m.prefix = n.prefix /\ m.seq = n.seq
SameUpdate(m, n) == m = n
================================================================================
