------------------------------ MODULE ContentStore -----------------------------
(***************************************************************************)
(* The content store: Data by exact name, at most CsCapacity entries.       *)
(***************************************************************************)
EXTENDS Integers, FiniteSets, FiniteSetsExt

CONSTANTS DataName,      \* the names of Data
          CsCapacity     \* m_maxSize, 0 turns caching off

ASSUME CsAssumption == CsCapacity \in Nat

VARIABLE cs              \* the names in m_cache

CsTypeOK == cs \subseteq DataName
CsInit == cs = {}

\* trimToCapacity: the scan with coin flips may keep or evict any entry, and the entries
\* in excess that it kept are evicted after it.
Trimmed(names) ==
    IF Cardinality(names) <= CsCapacity THEN {names} ELSE kSubset(CsCapacity, names)

\* insert
CacheInsert(d) ==
    IF CsCapacity = 0 THEN cs' = cs ELSE cs' \in Trimmed(cs \cup {d})
================================================================================
