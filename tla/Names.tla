--------------------------------- MODULE Names ---------------------------------
(***************************************************************************)
(* Names are sequences of components; the ports are the ports of a switch.  *)
(***************************************************************************)
EXTENDS Integers, Sequences

CONSTANTS Prefix,    \* the name prefixes that trace updates announce
          Port       \* the switch ports

ASSUME NamesAssumption == \A p \in Prefix : p \in Seq({p[i] : i \in DOMAIN p})

\* ::ndn::Name::isPrefixOf, with a name as a prefix of itself.
IsPrefixOf(p, n) == Len(p) <= Len(n) /\ SubSeq(n, 1, Len(p)) = p
================================================================================
