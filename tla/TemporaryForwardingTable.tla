----------------------- MODULE TemporaryForwardingTable ------------------------
(***************************************************************************)
(* The temporary FIB: for each prefix a set of next hops, each with its own *)
(* deadline.  Expired hops are removed when an operation meets them, and a  *)
(* prefix whose last hop was removed is absent (here: has no hops).  Names   *)
(* and prefixes are sequences of components.                                 *)
(***************************************************************************)
EXTENDS Names, Simulator     \* m_clock() is the simulator's clock, now

VARIABLE temporaryFib    \* m_entries

NoDeadline == 0          \* TimePoint::max(): the hop never expires
Hop == [port : Port, deadline : Nat]

TableTypeOK == temporaryFib \in [Prefix -> SUBSET Hop]
TableInit == temporaryFib = [p \in Prefix |-> {}]

\* pruneExpiredHops: a hop is gone at its deadline, not after it.
Live(hops) == {h \in hops : h.deadline = NoDeadline \/ now < h.deadline}

\* insertUntil: a live hop on the same port keeps the deadline that it has.
InsertHop_NoPrune(hops, port, deadline) ==
    IF \E h \in hops : h.port = port
    THEN hops
    ELSE hops \cup {[port |-> port, deadline |-> deadline]}
InsertHop(hops, port, deadline) ==
    IF \E h \in Live(hops) : h.port = port
    THEN Live(hops)
    ELSE Live(hops) \cup {[port |-> port, deadline |-> deadline]}

\* The prefixes that findLongestPrefix(name) visits, from the longest to the first
\* one with a live hop.
Visited(n) ==
    {p \in Prefix :
        /\ IsPrefixOf(p, n)
        /\ \A q \in Prefix : IsPrefixOf(q, n) /\ Len(q) > Len(p)
                                => Live(temporaryFib[q]) = {}}

\* findLongestPrefix: the hops that it returns, {} when there is none ...
LongestPrefixHops(n) == UNION {Live(temporaryFib[p]) : p \in Visited(n)}
\* ... and the expired hops that it removes on the way.
FindLongestPrefix(n) ==
    temporaryFib' = [p \in Prefix |-> IF p \in Visited(n) THEN Live(temporaryFib[p])
                                                          ELSE temporaryFib[p]]

\* findExact: the same for one prefix only.
FindExact(p) == temporaryFib' = [temporaryFib EXCEPT ![p] = Live(@)]

\* insert(prefix, port, lifetime), which is insertUntil at the deadline now + lifetime.
InsertUntil(p, port, deadline) ==
    temporaryFib' = [temporaryFib EXCEPT ![p] = InsertHop(@, port, deadline)]
Insert(p, port, lifetime) == InsertUntil(p, port, now + lifetime)

Erase(p) == temporaryFib' = [temporaryFib EXCEPT ![p] = {}]
================================================================================
