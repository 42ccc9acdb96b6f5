------------------------ MODULE TemporaryTableReference ------------------------
(***************************************************************************)
(* The temporary FIB with any caller, beside a table that never forgets a   *)
(* hop: shadow keeps every hop inserted on a port, the last one in the place *)
(* of the ones before it, expired or not.  Removing expired hops lazily, on  *)
(* whichever path an operation takes, must never show in a lookup.           *)
(***************************************************************************)
EXTENDS TemporaryForwardingTable

CONSTANT Lifetimes     \* the lifetimes of inserted hops

ASSUME LifetimesAssumption == Lifetimes \subseteq Nat \ {0}

VARIABLE shadow

tableVars == <<now, nextUid, temporaryFib, shadow>>

\* The hops of a prefix that are within their deadline, read from the shadow table.
Unexpired(p) == {h \in shadow[p] : h.deadline # NoDeadline => now < h.deadline}

ShadowInsert(p, port, deadline) ==
    shadow' = IF \E h \in Unexpired(p) : h.port = port
              THEN shadow
              ELSE [shadow EXCEPT ![p] = {h \in @ : h.port # port}
                                            \cup {[port |-> port, deadline |-> deadline]}]

ReferenceInit == SimulatorInit /\ TableInit /\ shadow = [p \in Prefix |-> {}]

ReferenceNext ==
    \/ \E p \in Prefix, port \in Port, l \in Lifetimes :
          Insert(p, port, l) /\ ShadowInsert(p, port, now + l) /\ UNCHANGED <<now, nextUid>>
    \/ \E p \in Prefix, port \in Port :
          /\ InsertUntil(p, port, NoDeadline) /\ ShadowInsert(p, port, NoDeadline)
          /\ UNCHANGED <<now, nextUid>>
    \/ \E n \in Prefix : FindLongestPrefix(n) /\ UNCHANGED <<now, nextUid, shadow>>
    \/ \E p \in Prefix : FindExact(p) /\ UNCHANGED <<now, nextUid, shadow>>
    \/ \E p \in Prefix : /\ Erase(p)
                         /\ shadow' = [shadow EXCEPT ![p] = {}]
                         /\ UNCHANGED <<now, nextUid>>
    \/ Advance({}) /\ UNCHANGED <<temporaryFib, shadow>>

ReferenceSpec == ReferenceInit /\ [][ReferenceNext]_tableVars

\* The longest prefix of a name that has an unexpired hop.
IsLongest(p, n) ==
    /\ IsPrefixOf(p, n) /\ Unexpired(p) # {}
    /\ \A q \in Prefix : IsPrefixOf(q, n) /\ Unexpired(q) # {} => Len(q) <= Len(p)

\* findLongestPrefix returns exactly the unexpired hops of the longest prefix that has
\* any, whatever was inserted, looked up, erased and removed before: an expired entry of a
\* longer prefix never hides a shorter one, and an expired hop never blocks its renewal.
LookupIsLongestLive ==
    \A n \in Prefix :
        LongestPrefixHops(n) = UNION {Unexpired(p) : p \in {q \in Prefix : IsLongest(q, n)}}
================================================================================
