-------------------------------- MODULE SwitchFib ------------------------------
(***************************************************************************)
(* The flow-table FIB with any caller, beside a table of routes by name.    *)
(* The FIB represents a name by the hashes of its first four components:    *)
(* routes holds the last route installed for each represented name.  With   *)
(* hashes that tell the components apart, priorities, replacement of equal  *)
(* matches and expiry at the lookup must amount to longest-prefix match.    *)
(***************************************************************************)
EXTENDS SwitchPipeline

CONSTANT Lease           \* the lifetimes of installed entries

ASSUME LeaseAssumption == Lease \subseteq Nat /\ Port \subseteq Nat

VARIABLES fib, routes

fibVars == <<now, nextUid, fib, routes>>

Represented(n) == SubSeq(n, 1, IF Len(n) <= HashCount THEN Len(n) ELSE HashCount)
NoRoute == [port |-> -1, expiry |-> 0]

FibInit ==
    /\ SimulatorInit
    /\ fib = {}
    /\ routes = [r \in {Represented(p) : p \in Prefix} |-> NoRoute]

InstallFib(p, port, lease) ==
    LET expiry == IF lease = 0 THEN NoExpiry ELSE now + lease IN
    /\ fib' = InstallEntry(fib, NameHashes(p), port, expiry)
    /\ routes' = [routes EXCEPT ![Represented(p)] = [port |-> port, expiry |-> expiry]]
    /\ UNCHANGED <<now, nextUid>>

RemoveFib(p) ==
    /\ fib' = RemoveEntry(fib, NameHashes(p))
    /\ routes' = [routes EXCEPT ![Represented(p)] = NoRoute]
    /\ UNCHANGED <<now, nextUid>>

FibNext ==
    \/ \E p \in Prefix, port \in Port, lease \in Lease : InstallFib(p, port, lease)
    \/ \E p \in Prefix : RemoveFib(p)
    \/ Advance({}) /\ UNCHANGED <<fib, routes>>

FibSpec == FibInit /\ [][FibNext]_fibVars

\* The represented names of which n has a route that has not expired, and the port of the
\* longest of them.
Routed(n) ==
    {r \in DOMAIN routes : /\ IsPrefixOf(r, Represented(n))
                           /\ routes[r] # NoRoute
                           /\ routes[r].expiry = NoExpiry \/ now < routes[r].expiry}
LongestRoute(n) ==
    {routes[r].port : r \in {q \in Routed(n) : \A s \in Routed(n) : Len(s) <= Len(q)}}

\* "More represented prefix components give higher priority": the pipeline sends an
\* Interest where the longest represented prefix with an unexpired route points, and to one
\* port only, however routes were installed, replaced, removed and expired before: an
\* expired entry never hides a shorter one and no equal match survives a replacement.
FibLookupIsLongest ==
    \A n \in Prefix : ProcessPacket(fib, Header("INTEREST", {}, n)) = LongestRoute(n)
================================================================================
