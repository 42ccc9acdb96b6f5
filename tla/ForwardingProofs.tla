----------------------------- MODULE ForwardingProofs --------------------------
(***************************************************************************)
(* Theorems about the packet path.  Its two forwarding tables are longest-    *)
(* prefix match; content reaches its askers; routes follow the traces, the   *)
(* newest route steers, and no pending Interest is left behind.              *)
(***************************************************************************)
EXTENDS ForwardingEngine, RouteControlProofs, TemporaryTableReference, SwitchFib,
        WellFoundedInduction

--------------------------------------------------------------------------------
(* The temporary FIB *)

\* The lazily pruned table and the one that forgets nothing hold the same live hops.
TableInv ==
    /\ now \in Nat
    /\ temporaryFib \in [Prefix -> SUBSET Hop] /\ shadow \in [Prefix -> SUBSET Hop]
    /\ \A p \in Prefix : Live(temporaryFib[p]) = Unexpired(p)

\* A name has a length.
LEMMA NameLength == \A p \in Prefix : Len(p) \in Nat
<1> SUFFICES ASSUME NEW p \in Prefix PROVE Len(p) \in Nat
  OBVIOUS
<1> DEFINE C == {p[i] : i \in DOMAIN p}
<1>1. p \in Seq(C)
  BY NamesAssumption
<1> HIDE DEF C
<1> QED
  BY <1>1

\* What is live is not pruned again.
LEMMA LiveIsLive ==
  ASSUME NEW hops \in SUBSET Hop
  PROVE  Live(Live(hops)) = Live(hops) /\ Live(hops) \in SUBSET Hop
BY DEF Live

\* A step that only prunes.
LEMMA PruneStep ==
  ASSUME TableInv, UNCHANGED <<now, shadow>>, temporaryFib' \in [Prefix -> SUBSET Hop],
         \A p \in Prefix : temporaryFib'[p] \in {temporaryFib[p], Live(temporaryFib[p])}
  PROVE  TableInv'
<1>1. ASSUME NEW p \in Prefix PROVE Live(temporaryFib[p])' = Unexpired(p)'
  <2>1. temporaryFib[p] \in SUBSET Hop /\ Live(temporaryFib[p]) = Unexpired(p)
    BY DEF TableInv
  <2>2. Live(temporaryFib[p])' = Live(temporaryFib'[p]) /\ Unexpired(p)' = Unexpired(p)
    BY DEF Live, Unexpired
  <2> QED
    BY <2>1, <2>2, LiveIsLive
<1> QED
  BY <1>1 DEF TableInv

\* insertUntil, at a deadline that has not passed.
LEMMA InsertStep ==
  ASSUME TableInv, NEW p \in Prefix, NEW port \in Port, NEW deadline \in Nat,
         deadline = NoDeadline \/ now < deadline,
         InsertUntil(p, port, deadline), ShadowInsert(p, port, deadline), UNCHANGED now
  PROVE  TableInv'
<1> DEFINE new == [port |-> port, deadline |-> deadline]
           old == Live(temporaryFib[p])
<1>0. /\ now \in Nat /\ temporaryFib \in [Prefix -> SUBSET Hop]
      /\ shadow \in [Prefix -> SUBSET Hop]
      /\ \A q \in Prefix : Live(temporaryFib[q]) = Unexpired(q)
  BY DEF TableInv
<1>1. new \in Hop /\ new.port = port /\ new.deadline = deadline
  BY DEF Hop
<1>2. old = Unexpired(p) /\ old \subseteq Hop
  BY <1>0 DEF Live
<1>3. temporaryFib' = [temporaryFib EXCEPT ![p] = InsertHop(temporaryFib[p], port, deadline)]
  BY DEF InsertUntil
<1>4. InsertHop(temporaryFib[p], port, deadline)
        = IF \E h \in old : h.port = port THEN old ELSE old \cup {new}
  BY DEF InsertHop
<1>5. shadow' = IF \E h \in old : h.port = port THEN shadow
                ELSE [shadow EXCEPT ![p] = {h \in shadow[p] : h.port # port} \cup {new}]
  BY <1>2 DEF ShadowInsert
<1> HIDE DEF new, old
<1>6. temporaryFib' \in [Prefix -> SUBSET Hop] /\ shadow' \in [Prefix -> SUBSET Hop]
  BY <1>0, <1>1, <1>2, <1>3, <1>4, <1>5
<1>7. ASSUME NEW q \in Prefix PROVE Live(temporaryFib[q])' = Unexpired(q)'
  <2>1. CASE q # p
    <3>1. temporaryFib'[q] = temporaryFib[q] /\ shadow'[q] = shadow[q]
      BY <1>0, <1>3, <1>5, <2>1
    <3> QED
      BY <1>0, <3>1 DEF Live, Unexpired
  <2>2. CASE q = p /\ \E h \in old : h.port = port
    <3>1. temporaryFib'[p] = old /\ shadow'[p] = shadow[p]
      BY <1>0, <1>3, <1>4, <1>5, <2>2
    <3> QED
      BY <1>2, <2>2, <3>1 DEF Live, Unexpired, old
  <2>3. CASE q = p /\ ~\E h \in old : h.port = port
    <3>1. /\ temporaryFib'[p] = old \cup {new}
          /\ shadow'[p] = {h \in shadow[p] : h.port # port} \cup {new}
      BY <1>0, <1>3, <1>4, <1>5, <2>3
    <3>2. Live(temporaryFib[p])' = old \cup {new}
      BY <1>1, <3>1 DEF Live, old
    <3>3. Unexpired(p)' = old \cup {new}
      BY <1>1, <1>2, <2>3, <3>1 DEF Unexpired
    <3> QED
      BY <2>3, <3>2, <3>3
  <2> QED
    BY <2>1, <2>2, <2>3
<1> QED
  BY <1>0, <1>6, <1>7 DEF TableInv

\* The clock: what lapses, lapses in both tables.
LEMMA LapseStep ==
  ASSUME TableInv, now' = now + 1, UNCHANGED <<temporaryFib, shadow>>
  PROVE  TableInv'
<1>0. /\ now \in Nat /\ temporaryFib \in [Prefix -> SUBSET Hop]
      /\ shadow \in [Prefix -> SUBSET Hop]
      /\ \A p \in Prefix : Live(temporaryFib[p]) = Unexpired(p)
  BY DEF TableInv
<1>1. ASSUME NEW p \in Prefix PROVE Live(temporaryFib[p])' = Unexpired(p)'
  <2>1. \A h \in temporaryFib[p] \cup shadow[p] : h.deadline \in Nat
    BY <1>0 DEF Hop
  <2>2. Live(temporaryFib[p])' = {h \in Live(temporaryFib[p]) :
                                    h.deadline = NoDeadline \/ now + 1 < h.deadline}
    BY <1>0, <2>1 DEF Live
  <2>3. Unexpired(p)' = {h \in Unexpired(p) : h.deadline = NoDeadline \/ now + 1 < h.deadline}
    BY <1>0, <2>1 DEF Unexpired
  <2> QED
    BY <1>0, <2>2, <2>3
<1> QED
  BY <1>0, <1>1 DEF TableInv

\* findLongestPrefix returns exactly the unexpired hops of the longest prefix that has any
\* (LookupIsLongestLive), whatever was inserted, looked up, erased and pruned before.
THEOREM TemporaryLookupIsLongest == ReferenceSpec => []LookupIsLongestLive
<1>1. ReferenceInit => TableInv
  BY DEF ReferenceInit, SimulatorInit, TableInit, TableInv, Live, Unexpired
<1>2. ASSUME TableInv, [ReferenceNext]_tableVars PROVE TableInv'
  <2>0. /\ now \in Nat /\ temporaryFib \in [Prefix -> SUBSET Hop]
        /\ shadow \in [Prefix -> SUBSET Hop]
    BY <1>2 DEF TableInv
  <2>1. ASSUME NEW p \in Prefix, NEW port \in Port, NEW l \in Lifetimes, Insert(p, port, l),
               ShadowInsert(p, port, now + l), UNCHANGED <<now, nextUid>>
        PROVE  TableInv'
    <3>1. now + l \in Nat /\ now < now + l
      BY <2>0, LifetimesAssumption
    <3> QED
      BY <1>2, <2>1, <3>1, InsertStep DEF Insert
  <2>2. ASSUME NEW p \in Prefix, NEW port \in Port, InsertUntil(p, port, NoDeadline),
               ShadowInsert(p, port, NoDeadline), UNCHANGED <<now, nextUid>>
        PROVE  TableInv'
    <3>1. NoDeadline \in Nat
      BY DEF NoDeadline
    <3> QED
      BY <1>2, <2>2, <3>1, InsertStep
  <2>3. ASSUME NEW n \in Prefix, FindLongestPrefix(n), UNCHANGED <<now, nextUid, shadow>>
        PROVE  TableInv'
    <3>1. /\ temporaryFib' \in [Prefix -> SUBSET Hop]
          /\ \A p \in Prefix : temporaryFib'[p] \in {temporaryFib[p], Live(temporaryFib[p])}
      BY <2>0, <2>3, LiveIsLive DEF FindLongestPrefix
    <3> QED
      BY <1>2, <2>3, <3>1, PruneStep
  <2>4. ASSUME NEW p \in Prefix, FindExact(p), UNCHANGED <<now, nextUid, shadow>>
        PROVE  TableInv'
    <3>1. /\ temporaryFib' \in [Prefix -> SUBSET Hop]
          /\ \A q \in Prefix : temporaryFib'[q] \in {temporaryFib[q], Live(temporaryFib[q])}
      BY <2>0, <2>4, LiveIsLive DEF FindExact
    <3> QED
      BY <1>2, <2>4, <3>1, PruneStep
  <2>5. ASSUME NEW p \in Prefix, Erase(p), shadow' = [shadow EXCEPT ![p] = {}],
               UNCHANGED <<now, nextUid>>
        PROVE  TableInv'
    BY <1>2, <2>5 DEF Erase, TableInv, Live, Unexpired
  <2>6. CASE Advance({}) /\ UNCHANGED <<temporaryFib, shadow>>
    BY <1>2, <2>6, LapseStep DEF Advance
  <2>7. CASE UNCHANGED tableVars
    BY <1>2, <2>7 DEF tableVars, TableInv, Live, Unexpired
  <2> QED
    BY <1>2, <2>1, <2>2, <2>3, <2>4, <2>5, <2>6, <2>7 DEF ReferenceNext
<1>3. ASSUME TableInv PROVE LookupIsLongestLive
  <2> SUFFICES ASSUME NEW n \in Prefix
               PROVE  LongestPrefixHops(n)
                        = UNION {Unexpired(p) : p \in {q \in Prefix : IsLongest(q, n)}}
    BY DEF LookupIsLongestLive
  <2>1. \A p \in Prefix : Live(temporaryFib[p]) = Unexpired(p) /\ Len(p) \in Nat
    BY <1>3, NameLength DEF TableInv
  <2>2. ASSUME NEW p \in Prefix, Unexpired(p) # {}
        PROVE  p \in Visited(n) <=> IsLongest(p, n)
    <3>1. \A q \in Prefix : /\ (Live(temporaryFib[q]) = {} <=> Unexpired(q) = {})
                            /\ (Len(q) <= Len(p) <=> ~(Len(q) > Len(p)))
      BY <2>1
    <3> QED
      BY <2>2, <3>1, Zenon DEF Visited, IsLongest
  <2>3. ASSUME NEW h \in LongestPrefixHops(n)
        PROVE  \E p \in Prefix : IsLongest(p, n) /\ h \in Unexpired(p)
    <3>1. PICK p \in Visited(n) : h \in Live(temporaryFib[p])
      BY <2>3 DEF LongestPrefixHops
    <3>2. p \in Prefix
      BY DEF Visited
    <3> QED
      BY <2>1, <2>2, <3>1, <3>2
  <2>4. ASSUME NEW p \in Prefix, IsLongest(p, n), NEW h \in Unexpired(p)
        PROVE  h \in LongestPrefixHops(n)
    BY <2>1, <2>2, <2>4 DEF LongestPrefixHops
  <2> QED
    BY <2>3, <2>4
<1>4. TableInv /\ [ReferenceNext]_tableVars => TableInv'
  BY <1>2
<1>5. TableInv => LookupIsLongestLive
  BY <1>3
<1> QED
  BY <1>1, <1>4, <1>5, PTL DEF ReferenceSpec

--------------------------------------------------------------------------------
(* The flow-table FIB *)

\* No two components hash alike.
HashesTellApart == \A c, d \in DOMAIN Hash : Hash[c] = Hash[d] => c = d

\* The names that the FIB represents.
Short == {n \in Seq(DOMAIN Hash) : Len(n) <= 4}
Representatives == {Represented(p) : p \in Prefix}
EntryOf(r) == [hashes |-> NameHashes(r), port |-> routes[r].port, expiry |-> routes[r].expiry]
Installed == {r \in Representatives : routes[r] # NoRoute}

\* The entries are those of the routes, one each.
FibTableInv ==
    /\ now \in Nat
    /\ DOMAIN routes = Representatives
    /\ \A r \in Installed : routes[r].expiry \in Nat
    /\ fib = {EntryOf(r) : r \in Installed}

\* Represented cuts a name after its fourth component.
LEMMA RepresentedIsShort ==
  ASSUME NEW n \in Prefix
  PROVE  /\ n \in Seq(DOMAIN Hash)
         /\ Represented(n) \in Short
         /\ Len(Represented(n)) = IF Len(n) <= 4 THEN Len(n) ELSE 4
         /\ \A i \in 1..Len(Represented(n)) : Represented(n)[i] = n[i]
<1>1. n \in Seq(DOMAIN Hash)
  BY HashAssumption
<1> DEFINE k == IF Len(n) <= 4 THEN Len(n) ELSE 4
<1>2. k \in 0..Len(n) /\ k <= 4 /\ k \in Nat
  BY <1>1
<1>3. Represented(n) = SubSeq(n, 1, k)
  BY DEF Represented, HashCount
<1> HIDE DEF k
<1>4. /\ SubSeq(n, 1, k) \in Seq(DOMAIN Hash) /\ Len(SubSeq(n, 1, k)) = k
      /\ \A i \in 1..k : SubSeq(n, 1, k)[i] = n[i]
  BY <1>1, <1>2
<1> QED
  BY <1>1, <1>2, <1>3, <1>4 DEF Short, k

\* The hashes of a short name, position by position.
LEMMA ShortHashes ==
  ASSUME NEW r \in Short
  PROVE  /\ Len(r) \in 0..4
         /\ \A i \in 1..Len(r) : /\ i \in 1..4 /\ r[i] \in DOMAIN Hash
                                 /\ NameHashes(r)[i] = Hash[r[i]] /\ NameHashes(r)[i] # Padding
         /\ \A i \in 1..4 : i > Len(r) => NameHashes(r)[i] = Padding
<1>1. r \in Seq(DOMAIN Hash) /\ Len(r) \in Nat /\ Len(r) <= 4
  BY DEF Short
<1>2. ASSUME NEW i \in 1..Len(r)
      PROVE  /\ i \in 1..4 /\ r[i] \in DOMAIN Hash
             /\ NameHashes(r)[i] = Hash[r[i]] /\ NameHashes(r)[i] # Padding
  <2>1. i \in 1..4 /\ r[i] \in DOMAIN Hash /\ i <= Len(r)
    BY <1>1
  <2>2. NameHashes(r)[i] = Hash[r[i]]
    BY <2>1 DEF NameHashes, HashCount
  <2>3. Hash[r[i]] # Padding
    <3>1. Hash[r[i]] \in 0..253
      BY <2>1, HashAssumption
    <3>2. ASSUME NEW h \in 0..253 PROVE h # Padding
      BY DEF Padding
    <3> QED
      BY <3>1, <3>2
  <2> QED
    BY <2>1, <2>2, <2>3, Zenon
<1>3. \A i \in 1..4 : i > Len(r) => NameHashes(r)[i] = Padding
  BY <1>1 DEF NameHashes, HashCount
<1>4. Len(r) \in 0..4
  <2>1. ASSUME NEW k \in Nat, k <= 4 PROVE k \in 0..4
    BY <2>1
  <2> QED
    BY <1>1, <2>1
<1> QED
  BY <1>2, <1>3, <1>4, Zenon

\* A name and its representative hash alike.
LEMMA RepresentedHashes ==
  ASSUME NEW n \in Prefix
  PROVE  NameHashes(Represented(n)) = NameHashes(n)
<1>1. /\ Len(n) \in Nat /\ Len(Represented(n)) = (IF Len(n) <= 4 THEN Len(n) ELSE 4)
      /\ \A i \in 1..Len(Represented(n)) : Represented(n)[i] = n[i]
  BY RepresentedIsShort
<1>2. \A i \in 1..4 : (i <= Len(Represented(n)) <=> i <= Len(n))
  BY <1>1
<1>3. ASSUME NEW i \in 1..4
      PROVE  (IF i <= Len(Represented(n)) THEN Hash[Represented(n)[i]] ELSE Padding)
               = (IF i <= Len(n) THEN Hash[n[i]] ELSE Padding)
  BY <1>1, <1>2
<1> QED
  BY <1>3 DEF NameHashes, HashCount

\* When hashes tell components apart, an entry matches the names that it is a prefix of.
LEMMA MatchIsPrefix ==
  ASSUME HashesTellApart, NEW r \in Short, NEW s \in Short
  PROVE  (\A i \in 1..4 : NameHashes(r)[i] \in {Padding, NameHashes(s)[i]}) <=> IsPrefixOf(r, s)
<1>1. Len(r) \in 0..4 /\ Len(s) \in 0..4 /\ r \in Seq(DOMAIN Hash) /\ s \in Seq(DOMAIN Hash)
  BY ShortHashes DEF Short
<1>2. ASSUME \A i \in 1..4 : NameHashes(r)[i] \in {Padding, NameHashes(s)[i]}
      PROVE  IsPrefixOf(r, s)
  <2>1. ASSUME NEW i \in 1..Len(r) PROVE i <= Len(s) /\ r[i] = s[i]
    <3>1. i \in 1..4 /\ NameHashes(r)[i] # Padding /\ NameHashes(r)[i] = Hash[r[i]]
          /\ r[i] \in DOMAIN Hash
      BY ShortHashes
    <3>2. NameHashes(r)[i] = NameHashes(s)[i]
      BY <1>2, <3>1
    <3>3. i <= Len(s)
      BY <1>1, <3>1, <3>2, ShortHashes
    <3>4. s[i] \in DOMAIN Hash /\ NameHashes(s)[i] = Hash[s[i]]
      BY <1>1, <3>1, <3>3, ShortHashes
    <3> QED
      BY <3>1, <3>2, <3>3, <3>4 DEF HashesTellApart
  <2>2. Len(r) <= Len(s)
    BY <1>1, <2>1
  <2>3. SubSeq(s, 1, Len(r)) = r
    BY <1>1, <2>1, <2>2
  <2> QED
    BY <2>2, <2>3 DEF IsPrefixOf
<1>3. ASSUME IsPrefixOf(r, s), NEW i \in 1..4
      PROVE  NameHashes(r)[i] \in {Padding, NameHashes(s)[i]}
  <2>1. CASE i > Len(r)
    BY <1>1, <2>1, ShortHashes
  <2>2. CASE i <= Len(r)
    <3>1. i \in 1..Len(r) /\ i \in 1..Len(s)
      BY <1>1, <1>3, <2>2 DEF IsPrefixOf
    <3>2. r[i] = s[i]
      <4>1. SubSeq(s, 1, Len(r)) = r
        BY <1>3 DEF IsPrefixOf
      <4>2. SubSeq(s, 1, Len(r))[i] = s[i]
        BY <1>1, <1>3, <3>1 DEF IsPrefixOf
      <4> QED
        BY <4>1, <4>2
    <3>3. NameHashes(r)[i] = Hash[r[i]] /\ NameHashes(s)[i] = Hash[s[i]]
      BY <3>1, ShortHashes
    <3> QED
      BY <3>2, <3>3
  <2> QED
    BY <1>1, <2>1, <2>2
<1> QED
  BY <1>2, <1>3

\* Names that are prefixes of each other are one.
LEMMA PrefixesAgree ==
  ASSUME NEW r \in Short, NEW s \in Short, IsPrefixOf(r, s), IsPrefixOf(s, r)
  PROVE  r = s
<1>0. r \in Seq(DOMAIN Hash) /\ s \in Seq(DOMAIN Hash)
  BY DEF Short
<1>1. Len(r) = Len(s)
  <2>1. Len(r) <= Len(s) /\ Len(s) <= Len(r)
    BY DEF IsPrefixOf
  <2> QED
    BY <1>0, <2>1
<1>2. SubSeq(s, 1, Len(s)) = s
  BY <1>0
<1> QED
  BY <1>1, <1>2 DEF IsPrefixOf

\* One match stands for one represented name.
LEMMA HashesAreOwn ==
  ASSUME HashesTellApart, NEW r \in Short, NEW s \in Short, NameHashes(r) = NameHashes(s)
  PROVE  r = s
BY MatchIsPrefix, PrefixesAgree, Zenon

\* fibPriority grows with the length of the represented name.
LEMMA PriorityIsLength ==
  ASSUME NEW r \in Short
  PROVE  FibPriority(NameHashes(r)) = 2000 + 1000 * Len(r)
<1>1. Len(r) \in Nat /\ Len(r) <= 4
  BY ShortHashes
<1>2. {i \in 1..HashCount : NameHashes(r)[i] # Padding} = 1..Len(r)
  BY <1>1, ShortHashes DEF HashCount
<1>3. Cardinality(1..Len(r)) = Len(r)
  <2>1. ASSUME NEW k \in Nat PROVE Cardinality(1..k) = k
    <3>1. Cardinality(1..k) = IF 1 > k THEN 0 ELSE k - 1 + 1
      BY FS_Interval
    <3> QED
      BY <3>1
  <2> QED
    BY <1>1, <2>1
<1> QED
  <2> DEFINE S == {i \in 1..HashCount : NameHashes(r)[i] # Padding}
  <2>1. Cardinality(S) = Len(r)
    BY <1>2, <1>3
  <2>2. FibPriority(NameHashes(r)) = 2000 + 1000 * Cardinality(S)
    BY DEF FibPriority
  <2> HIDE DEF S
  <2> QED
    BY <2>1, <2>2

\* The representatives are short names.
LEMMA RepresentativesAreShort == Representatives \subseteq Short
BY RepresentedIsShort DEF Representatives

\* An entry is found by its hashes.
LEMMA EntryFields ==
  ASSUME NEW r
  PROVE  /\ EntryOf(r).hashes = NameHashes(r) /\ EntryOf(r).port = routes[r].port
         /\ EntryOf(r).expiry = routes[r].expiry
BY DEF EntryOf

\* A step that changes the route of one representative r: its entry is replaced or
\* removed, no other is.
LEMMA ReplaceStep ==
  ASSUME HashesTellApart, FibTableInv, NEW r \in Representatives, NEW route,
         routes' = [routes EXCEPT ![r] = route], UNCHANGED now,
         route # NoRoute => route.expiry \in Nat,
         fib' = RemoveEntry(fib, NameHashes(r)) \cup
                  (IF route = NoRoute THEN {}
                   ELSE {[hashes |-> NameHashes(r), port |-> route.port, expiry |-> route.expiry]})
  PROVE  FibTableInv'
<1>0. /\ now \in Nat /\ DOMAIN routes = Representatives
      /\ \A q \in Installed : routes[q].expiry \in Nat
      /\ fib = {EntryOf(q) : q \in Installed}
  BY DEF FibTableInv
<1>1. /\ DOMAIN routes' = Representatives /\ routes'[r] = route
      /\ \A q \in Representatives : q # r => routes'[q] = routes[q]
  BY <1>0
<1>2. Installed' = (Installed \ {r}) \cup (IF route = NoRoute THEN {} ELSE {r})
  BY <1>1 DEF Installed, Representatives, NoRoute
<1>3. \A q \in Installed \ {r} : EntryOf(q)' = EntryOf(q)
  BY <1>1 DEF EntryOf, Installed
<1>4. EntryOf(r)' = [hashes |-> NameHashes(r), port |-> route.port, expiry |-> route.expiry]
  BY <1>1 DEF EntryOf
<1>5. \A q \in Installed : NameHashes(q) = NameHashes(r) <=> q = r
  BY HashesAreOwn, RepresentativesAreShort DEF Installed
<1>6. RemoveEntry(fib, NameHashes(r)) = {EntryOf(q) : q \in Installed \ {r}}
  BY <1>0, <1>5, EntryFields DEF RemoveEntry
<1>7. fib' = {EntryOf(q)' : q \in Installed'}
  <2>1. ASSUME NEW e \in fib' PROVE \E q \in Installed' : e = EntryOf(q)'
    BY <1>2, <1>3, <1>4, <1>6, <2>1
  <2>2. ASSUME NEW q \in Installed' PROVE EntryOf(q)' \in fib'
    BY <1>2, <1>3, <1>4, <1>6, <2>2
  <2> QED
    BY <2>1, <2>2
<1>8. \A q \in Installed' : routes'[q].expiry \in Nat
  BY <1>0, <1>1, <1>2 DEF Installed
<1> QED
  BY <1>0, <1>1, <1>7, <1>8 DEF FibTableInv

\* The entries that match a name are those of its routes.
LEMMA MatchesAreRouted ==
  ASSUME HashesTellApart, FibTableInv, NEW n \in Prefix, NEW r \in Installed
  PROVE  EntryMatches(EntryOf(r), NameHashes(n)) <=> r \in Routed(n)
<1>1. r \in Short /\ Represented(n) \in Short /\ DOMAIN routes = Representatives
      /\ r \in Representatives /\ routes[r] # NoRoute
  BY RepresentativesAreShort, RepresentedIsShort DEF Installed, FibTableInv
<1>2. (\A i \in 1..4 : NameHashes(r)[i] \in {Padding, NameHashes(n)[i]})
        <=> IsPrefixOf(r, Represented(n))
  <2>1. NameHashes(Represented(n)) = NameHashes(n)
    BY RepresentedHashes
  <2>2. (\A i \in 1..4 : NameHashes(r)[i] \in {Padding, NameHashes(Represented(n))[i]})
          <=> IsPrefixOf(r, Represented(n))
    BY <1>1, MatchIsPrefix
  <2> QED
    BY <2>1, <2>2
<1>3. EntryMatches(EntryOf(r), NameHashes(n)) <=>
        /\ routes[r].expiry = NoExpiry \/ now < routes[r].expiry
        /\ \A i \in 1..4 : NameHashes(r)[i] \in {Padding, NameHashes(n)[i]}
  BY EntryFields DEF EntryMatches, HashCount
<1> QED
  BY <1>1, <1>2, <1>3, Zenon DEF Routed

\* The pipeline sends an Interest where its longest represented prefix with an unexpired
\* route points (FibLookupIsLongest), when hashes tell components apart, whatever was
\* installed, replaced, removed and expired before.
THEOREM FlowTableLookupIsLongest ==
  ASSUME HashesTellApart
  PROVE  FibSpec => []FibLookupIsLongest
<1>1. FibInit => FibTableInv
  <2> SUFFICES ASSUME FibInit PROVE FibTableInv
    OBVIOUS
  <2>1. /\ now = 0 /\ fib = {} /\ routes = [r \in Representatives |-> NoRoute]
    BY DEF FibInit, SimulatorInit, Representatives
  <2>2. DOMAIN routes = Representatives /\ Installed = {}
    BY <2>1 DEF Installed
  <2> QED
    BY <2>1, <2>2 DEF FibTableInv
<1>2. ASSUME FibTableInv, [FibNext]_fibVars PROVE FibTableInv'
  <2>0. /\ now \in Nat /\ \A p \in Prefix : Represented(p) \in Representatives
        /\ \A p \in Prefix : NameHashes(Represented(p)) = NameHashes(p)
    BY <1>2, RepresentedHashes DEF FibTableInv, Representatives
  <2>1. ASSUME NEW p \in Prefix, NEW port \in Port, NEW lease \in Lease,
               InstallFib(p, port, lease)
        PROVE  FibTableInv'
    <3> DEFINE expiry == IF lease = 0 THEN NoExpiry ELSE now + lease
               route == [port |-> port, expiry |-> expiry]
    <3>1. expiry \in Nat
      BY <2>0, LeaseAssumption DEF NoExpiry
    <3>2. /\ routes' = [routes EXCEPT ![Represented(p)] = route] /\ now' = now
          /\ fib' = RemoveEntry(fib, NameHashes(p)) \cup
                      {[hashes |-> NameHashes(p), port |-> port, expiry |-> expiry]}
      BY <2>1 DEF InstallFib, InstallEntry
    <3> HIDE DEF expiry
    <3>3. route.port = port /\ route.expiry = expiry
      OBVIOUS
    <3>4. route # NoRoute
      <4>1. NoRoute.port = -1 /\ port # -1
        BY LeaseAssumption DEF NoRoute
      <4> QED
        BY <3>3, <4>1
    <3> HIDE DEF route
    <3>5. fib' = RemoveEntry(fib, NameHashes(Represented(p))) \cup
                  (IF route = NoRoute THEN {}
                   ELSE {[hashes |-> NameHashes(Represented(p)), port |-> route.port,
                          expiry |-> route.expiry]})
      BY <2>0, <3>2, <3>3, <3>4
    <3> QED
      BY <1>2, <2>0, <3>1, <3>2, <3>3, <3>5, ReplaceStep
  <2>2. ASSUME NEW p \in Prefix, RemoveFib(p)
        PROVE  FibTableInv'
    <3>1. /\ routes' = [routes EXCEPT ![Represented(p)] = NoRoute] /\ now' = now
          /\ fib' = RemoveEntry(fib, NameHashes(Represented(p))) \cup {}
      BY <2>0, <2>2 DEF RemoveFib
    <3> QED
      BY <1>2, <2>0, <3>1, ReplaceStep
  <2>3. ASSUME UNCHANGED <<fib, routes>>, now' \in Nat
        PROVE  FibTableInv'
    <3>1. Installed' = Installed /\ Representatives' = Representatives
      BY <2>3 DEF Installed, Representatives
    <3>2. \A r : EntryOf(r)' = EntryOf(r)
      BY <2>3 DEF EntryOf
    <3> QED
      BY <1>2, <2>3, <3>1, <3>2 DEF FibTableInv
  <2>4. CASE Advance({}) /\ UNCHANGED <<fib, routes>>
    BY <2>0, <2>3, <2>4 DEF Advance
  <2>5. CASE UNCHANGED fibVars
    BY <2>0, <2>3, <2>5 DEF fibVars
  <2> QED
    BY <1>2, <2>1, <2>2, <2>4, <2>5 DEF FibNext
<1>3. ASSUME FibTableInv PROVE FibLookupIsLongest
  <2> SUFFICES ASSUME NEW n \in Prefix
               PROVE  ProcessPacket(fib, Header("INTEREST", {}, n)) = LongestRoute(n)
    BY DEF FibLookupIsLongest
  <2>1. ProcessPacket(fib, Header("INTEREST", {}, n)) = FibLookup(fib, NameHashes(n))
    BY DEF ProcessPacket, Header
  <2>2. /\ \A r \in Installed : EntryMatches(EntryOf(r), NameHashes(n)) <=> r \in Routed(n)
        /\ Routed(n) \subseteq Installed /\ Installed \subseteq Short
        /\ fib = {EntryOf(r) : r \in Installed}
    BY <1>3, MatchesAreRouted, RepresentativesAreShort DEF Routed, Installed, FibTableInv
  <2>3. \A r, s \in Installed :
           FibPriority(EntryOf(r).hashes) <= FibPriority(EntryOf(s).hashes) <=> Len(r) <= Len(s)
    <3> SUFFICES ASSUME NEW r \in Installed, NEW s \in Installed
                 PROVE  FibPriority(EntryOf(r).hashes) <= FibPriority(EntryOf(s).hashes)
                          <=> Len(r) <= Len(s)
      OBVIOUS
    <3>1. r \in Short /\ s \in Short
      BY <2>2
    <3>2. /\ FibPriority(EntryOf(r).hashes) = 2000 + 1000 * Len(r)
          /\ FibPriority(EntryOf(s).hashes) = 2000 + 1000 * Len(s)
      BY <3>1, EntryFields, PriorityIsLength
    <3>3. Len(r) \in Nat /\ Len(s) \in Nat
      BY <3>1 DEF Short
    <3> QED
      BY <3>2, <3>3
  <2> DEFINE best == {d \in fib : /\ EntryMatches(d, NameHashes(n))
                                  /\ \A f \in fib : EntryMatches(f, NameHashes(n))
                                        => FibPriority(f.hashes) <= FibPriority(d.hashes)}
             longest == {q \in Routed(n) : \A s \in Routed(n) : Len(s) <= Len(q)}
  <2>4. ASSUME NEW r \in Installed PROVE EntryOf(r) \in best <=> r \in longest
    BY <2>2, <2>3, <2>4
  <2>5. best \subseteq {EntryOf(r) : r \in Installed} /\ longest \subseteq Installed
    BY <2>2
  <2>6. FibLookup(fib, NameHashes(n)) = {e.port : e \in best}
    BY DEF FibLookup
  <2>7. LongestRoute(n) = {routes[r].port : r \in longest}
    BY DEF LongestRoute
  <2> HIDE DEF best, longest
  <2>8. {e.port : e \in best} = {routes[r].port : r \in longest}
    BY <2>4, <2>5, EntryFields
  <2> QED
    BY <2>1, <2>6, <2>7, <2>8
<1>4. FibTableInv /\ [FibNext]_fibVars => FibTableInv'
  BY <1>2
<1>5. FibTableInv => FibLookupIsLongest
  BY <1>3
<1> QED
  BY <1>1, <1>4, <1>5, PTL DEF FibSpec
--------------------------------------------------------------------------------
(* The packet path: what its steps do to the tables and the queue *)

\* The records of an entry are some of those that asked, and all of those that have not
\* lapsed; an entry is never without a record; and who asked for a trace is on record.
PitInv ==
    /\ pit \in [Name -> PitEntry \cup {NoEntry}]
    /\ asked \in [Name -> SUBSET [port : Port, until : Nat]]
    /\ \A n \in Name :
          /\ pit[n].ingress \subseteq asked[n]
          /\ \A r \in asked[n] : now < r.until => r \in pit[n].ingress
          /\ pit[n] # NoEntry => pit[n].ingress # {}
          /\ JudgeNameIsTrace(n) => \A r \in pit[n].ingress : <<n, r.port>> \in traced

\* The calls of the engine lie ahead, under identifiers that are taken; a packet's call
\* is about one name, and Interests wait no longer than the stateful delay.
CallInv ==
    /\ packetCalls \subseteq PacketCall
    /\ \A e \in packetCalls :
          /\ e.uid < nextUid /\ e.at >= now
          /\ e.call = "processInterestAfterDelay" =>
                e.at <= now + StatefulDelay /\ \E n \in Name : e.names = {n}
          /\ e.call = "processDataAfterDelay" => \E d \in DataName : e.names = {d}
          /\ e.call = "doDelayedPullSend" => e.names \subseteq Name

DeviceInv ==
    /\ cs \subseteq DataName /\ (CsCapacity = 0 => cs = {})
    /\ output \subseteq Packet
    /\ packets \in 0..MaxPackets
    /\ reached \in [Name -> SUBSET Port]

EngineInv == Inv /\ PitInv /\ CallInv /\ DeviceInv

\* A set of ports has a lowest one.
LEMMA LowestPort ==
  ASSUME NEW S \in SUBSET Port, S # {}
  PROVE  Min(S) \in S
<1> DEFINE R == OpToRel(<, Nat)
<1>0. S \in SUBSET Nat
  BY EngineAssumption
<1>1. \E x \in S : \A y \in S : ~(<<y, x>> \in R)
  <2>1. IsWellFoundedOn(R, Nat)
    BY NatLessThanWellFounded
  <2> HIDE DEF R
  <2> QED
    BY <1>0, <2>1, WFMin
<1>2. \A x, y \in Nat : <<y, x>> \in R <=> y < x
  BY DEF OpToRel
<1> HIDE DEF R
<1>3. PICK x \in S : \A y \in S : ~(<<y, x>> \in R)
  BY <1>1
<1>4. ASSUME NEW y \in S PROVE x <= y
  <2>1. x \in Nat /\ y \in Nat
    BY <1>0
  <2>2. ~(y < x)
    BY <1>2, <1>3, <2>1, Zenon
  <2> QED
    BY <2>1, <2>2
<1> QED
  BY <1>4 DEF Min

\* A name is a prefix of itself.
LEMMA OwnPrefix ==
  ASSUME NEW n \in Name \cup DataName
  PROVE  IsPrefixOf(n, n) /\ n \in Seq(DOMAIN Hash)
<1>1. n \in Seq(DOMAIN Hash)
  BY EngineAssumption
<1>2. SubSeq(n, 1, Len(n)) = n /\ Len(n) <= Len(n)
  BY <1>1
<1> QED
  BY <1>1, <1>2 DEF IsPrefixOf

\* insert, for an Interest that is accepted: the lapsed records go, its own is added.
LEMMA InsertEffect ==
  ASSUME PitInv, now \in Nat, NEW n \in Name, NEW nonce \in Nonce, NEW port \in Port,
         NEW lifetime \in InterestLifetime, InsertInterest(n, nonce, port, lifetime)
  PROVE  LET record == [port |-> port, until |-> now + lifetime] IN
         /\ record \in [port : Port, until : Nat]
         /\ \E entry \in PitEntry :
               /\ pit' = [pit EXCEPT ![n] = entry]
               /\ entry.ingress = LiveIngress(pit[n].ingress) \cup {record}
<1> DEFINE record == [port |-> port, until |-> now + lifetime]
<1>1. record \in [port : Port, until : Nat]
  BY PitAssumption
<1> HIDE DEF record
<1>2. pit[n] \in PitEntry \cup {NoEntry}
  BY DEF PitInv
<1>3. pit' = [pit EXCEPT ![n] =
                IF n \in Stored
                THEN [pit[n] EXCEPT !.ingress = LiveIngress(pit[n].ingress) \cup {record}]
                ELSE [nonce |-> nonce, lifetime |-> lifetime, ingress |-> {record}]]
  BY DEF InsertInterest, record
<1>4. CASE n \in Stored
  <2> DEFINE entry == [pit[n] EXCEPT !.ingress = LiveIngress(pit[n].ingress) \cup {record}]
  <2>1. pit[n] \in PitEntry
    BY <1>2, <1>4 DEF Stored
  <2>2. LiveIngress(pit[n].ingress) \cup {record} \subseteq [port : Port, until : Nat]
    BY <1>1, <2>1 DEF PitEntry, LiveIngress
  <2>3. entry \in PitEntry /\ entry.ingress = LiveIngress(pit[n].ingress) \cup {record}
    BY <2>1, <2>2 DEF PitEntry
  <2> QED
    BY <1>1, <1>3, <1>4, <2>3 DEF record
<1>5. CASE n \notin Stored
  <2> DEFINE entry == [nonce |-> nonce, lifetime |-> lifetime, ingress |-> {record}]
  <2>1. entry \in PitEntry /\ entry.ingress = {record}
    BY <1>1 DEF PitEntry
  <2>2. pit[n].ingress = {}
    BY <1>5 DEF Stored, NoEntry
  <2>3. LiveIngress(pit[n].ingress) = {}
    BY <2>2 DEF LiveIngress
  <2> QED
    BY <1>1, <1>3, <1>5, <2>1, <2>3 DEF record
<1> QED
  BY <1>4, <1>5

\* An Interest is accepted.
LEMMA PitInserts ==
  ASSUME PitInv, now \in Nat, UNCHANGED now, NEW n \in Name, NEW nonce \in Nonce,
         NEW port \in Port, NEW lifetime \in InterestLifetime,
         InsertInterest(n, nonce, port, lifetime),
         asked' = [asked EXCEPT ![n] = @ \cup {[port |-> port, until |-> now + lifetime]}],
         traced' = IF JudgeNameIsTrace(n) THEN traced \cup {<<n, port>>} ELSE traced
  PROVE  PitInv'
<1> DEFINE record == [port |-> port, until |-> now + lifetime]
<1>1. PICK entry \in PitEntry :
         /\ pit' = [pit EXCEPT ![n] = entry]
         /\ entry.ingress = LiveIngress(pit[n].ingress) \cup {record}
         /\ record \in [port : Port, until : Nat]
  BY InsertEffect
<1>2. asked' = [asked EXCEPT ![n] = asked[n] \cup {record}] /\ record.port = port
  OBVIOUS
<1> HIDE DEF record
<1>3. /\ pit \in [Name -> PitEntry \cup {NoEntry}]
      /\ asked \in [Name -> SUBSET [port : Port, until : Nat]]
  BY DEF PitInv
<1>4. /\ pit' \in [Name -> PitEntry \cup {NoEntry}]
      /\ asked' \in [Name -> SUBSET [port : Port, until : Nat]]
  BY <1>1, <1>2, <1>3
<1>5. ASSUME NEW k \in Name
      PROVE  /\ pit'[k].ingress \subseteq asked'[k]
             /\ \A r \in asked'[k] : now' < r.until => r \in pit'[k].ingress
             /\ pit'[k] # NoEntry => pit'[k].ingress # {}
             /\ JudgeNameIsTrace(k) => \A r \in pit'[k].ingress : <<k, r.port>> \in traced'
  <2>1. CASE k = n
    <3>1. /\ pit'[n].ingress = LiveIngress(pit[n].ingress) \cup {record}
          /\ asked'[n] = asked[n] \cup {record}
      BY <1>1, <1>2, <1>3
    <3> QED
      BY <1>2, <2>1, <3>1 DEF PitInv, LiveIngress
  <2>2. CASE k # n
    <3>1. pit'[k] = pit[k] /\ asked'[k] = asked[k]
      BY <1>1, <1>2, <1>3, <2>2
    <3> QED
      BY <3>1 DEF PitInv
  <2> QED
    BY <2>1, <2>2
<1> QED
  BY <1>4, <1>5 DEF PitInv

\* Data consumes its entries.
LEMMA PitTakes ==
  ASSUME PitInv, UNCHANGED <<now, traced>>, NEW d, TakeDataMatchPorts(d),
         asked' = [n \in Name |-> IF IsPrefixOf(n, d) THEN {} ELSE asked[n]]
  PROVE  PitInv'
<1>1. /\ pit' \in [Name -> PitEntry \cup {NoEntry}]
      /\ asked' \in [Name -> SUBSET [port : Port, until : Nat]]
  BY DEF PitInv, TakeDataMatchPorts
<1>2. ASSUME NEW k \in Name
      PROVE  /\ pit'[k].ingress \subseteq asked'[k]
             /\ \A r \in asked'[k] : now' < r.until => r \in pit'[k].ingress
             /\ pit'[k] # NoEntry => pit'[k].ingress # {}
             /\ JudgeNameIsTrace(k) => \A r \in pit'[k].ingress : <<k, r.port>> \in traced'
  <2>1. CASE IsPrefixOf(k, d)
    <3>1. pit'[k] = NoEntry /\ asked'[k] = {} /\ NoEntry.ingress = {}
      BY <2>1 DEF TakeDataMatchPorts, NoEntry
    <3> QED
      BY <3>1
  <2>2. CASE ~IsPrefixOf(k, d)
    <3>1. pit'[k] = pit[k] /\ asked'[k] = asked[k]
      BY <2>2 DEF TakeDataMatchPorts
    <3> QED
      BY <3>1 DEF PitInv
  <2> QED
    BY <2>1, <2>2
<1> QED
  BY <1>1, <1>2 DEF PitInv

\* A step that leaves the table alone.
LEMMA PitKept ==
  ASSUME PitInv, UNCHANGED <<pit, asked, traced>>, now \in Nat, now' \in Nat, now' >= now
  PROVE  PitInv'
<1>1. ASSUME NEW k \in Name, NEW r \in asked[k], now' < r.until PROVE r \in pit[k].ingress
  <2>1. r.until \in Nat
    BY DEF PitInv
  <2>2. now < r.until
    BY <1>1, <2>1
  <2> QED
    BY <2>2 DEF PitInv
<1> QED
  BY <1>1 DEF PitInv
\* A call joins the queue.
LEMMA CallJoins ==
  ASSUME CallInv, now \in Nat, nextUid \in Nat, UNCHANGED now, NEW Q \in SUBSET packetCalls,
         NEW f \in PacketCall, f.uid \in {nextUid, nextUid + 3}, TakeUids,
         packetCalls' = Q \cup {f}, f.at >= now,
         f.call = "processInterestAfterDelay" =>
            f.at <= now + StatefulDelay /\ \E n \in Name : f.names = {n},
         f.call = "processDataAfterDelay" => \E d \in DataName : f.names = {d},
         f.call = "doDelayedPullSend" => f.names \subseteq Name
  PROVE  CallInv'
<1>1. nextUid' = nextUid + 4 /\ f.uid < nextUid + 4
  BY DEF TakeUids
<1>2. \A e \in packetCalls : e.uid \in Nat /\ e.uid < nextUid + 4
  BY DEF CallInv, PacketCall
<1>3. packetCalls' \subseteq PacketCall
  BY DEF CallInv
<1> QED
  BY <1>1, <1>2, <1>3 DEF CallInv

\* A call leaves the queue, or the queue stays.
LEMMA CallLeaves ==
  ASSUME CallInv, UNCHANGED now, nextUid \in Nat, nextUid' \in Nat, nextUid' >= nextUid,
         packetCalls' \subseteq packetCalls
  PROVE  CallInv'
<1>1. \A e \in packetCalls : e.uid \in Nat /\ e.uid < nextUid'
  BY DEF CallInv, PacketCall
<1> QED
  BY <1>1 DEF CallInv

\* The clock does not pass a call.
LEMMA CallWaits ==
  ASSUME CallInv, now \in Nat, nextUid \in Nat, Advance(EngineQueue), UNCHANGED packetCalls
  PROVE  CallInv' /\ Advance(Queue)
<1>1. now' = now + 1 /\ nextUid' = nextUid /\ \A f \in EngineQueue : f.at # now
  BY DEF Advance
<1>2. \A e \in packetCalls : e.at \in Nat /\ e.at # now
  BY <1>1 DEF CallInv, PacketCall, EngineQueue
<1>3. \A e \in packetCalls : e.at >= now'
  BY <1>1, <1>2 DEF CallInv
<1>4. \A e \in packetCalls : e.at <= now + StatefulDelay => e.at <= now' + StatefulDelay
  <2>1. StatefulDelay \in Nat
    BY EngineAssumption
  <2> QED
    BY <1>1, <1>2, <2>1
<1>5. CallInv'
  BY <1>1, <1>3, <1>4 DEF CallInv
<1> QED
  BY <1>5 DEF Advance, EngineQueue

\* A packet that arrives is scheduled.
LEMMA ArrivalJoins ==
  ASSUME CallInv, now \in Nat, nextUid \in Nat, UNCHANGED now, TakeUids,
         NEW n \in Name \cup DataName, NEW port \in Port,
         NEW call \in {"processInterestAfterDelay", "processDataAfterDelay"},
         call = "processInterestAfterDelay" => n \in Name,
         call = "processDataAfterDelay" => n \in DataName,
         packetCalls' = packetCalls \cup {Call(PacketUid, StatefulDelay, call, {n}, port)}
  PROVE  CallInv'
<1> DEFINE f == Call(PacketUid, StatefulDelay, call, {n}, port)
<1>0. StatefulDelay \in Nat
  BY EngineAssumption
<1>1. /\ f \in PacketCall /\ f.uid = nextUid /\ f.at = now + StatefulDelay /\ f.call = call
      /\ f.names = {n}
  BY <1>0 DEF Call, PacketUid, PacketCall
<1>2. f.at >= now /\ f.at <= now + StatefulDelay
  BY <1>0, <1>1
<1> HIDE DEF f
<1>3. packetCalls' = packetCalls \cup {f}
  BY DEF f
<1> QED
  BY <1>1, <1>2, <1>3, CallJoins

--------------------------------------------------------------------------------
(* The ports that a packet leaves by *)

\* What the pipeline does with an Interest and with Data.
LEMMA PipelinePorts ==
  ASSUME NEW f, NEW S, NEW n
  PROVE  /\ ProcessPacket(f, Header("INTEREST", S, n))
                = (IF S = {} THEN FibLookup(f, NameHashes(n)) ELSE S)
         /\ ProcessPacket(f, Header("DATA", S, n)) = S
<1> DEFINE h == Header("INTEREST", S, n)
           g == Header("DATA", S, n)
<1>1. h.type = "INTEREST" /\ h.outPorts = S /\ h.hashes = NameHashes(n)
  BY DEF Header
<1>2. g.type = "DATA" /\ g.outPorts = S
  BY DEF Header
<1> HIDE DEF h, g
<1>3. ProcessPacket(f, h) = (IF S = {} THEN FibLookup(f, NameHashes(n)) ELSE S)
  BY <1>1 DEF ProcessPacket
<1>4. ProcessPacket(f, g) = S
  BY <1>2 DEF ProcessPacket
<1> QED
  BY <1>3, <1>4 DEF h, g

\* Interests and Data leave by ports of the switch.
LEMMA LookupTyped ==
  ASSUME TypeOK, NEW n
  PROVE  LookupPorts(n) \subseteq Port
<1>1. FibLookup(FlowEntries, NameHashes(n)) \subseteq Port
  <2>1. ASSUME NEW e \in FlowEntries PROVE e.port \in Port
    <3>1. CASE e \in StaticFib
      BY <3>1, EngineAssumption
    <3>2. CASE \E k \in Key : flowFib[k] # NoMessage /\ e.port = flowFib[k].port
      BY <3>2, MessageFields DEF TypeOK
    <3> QED
      BY <2>1, <3>1, <3>2 DEF FlowEntries
  <2> QED
    BY <2>1 DEF FibLookup
<1>2. TemporaryPorts(n) \subseteq Port
  BY DEF TypeOK, TableTypeOK, TemporaryPorts, LongestPrefixHops, Visited, Live, Hop
<1>3. EncodeOutPortsMask(TemporaryPorts(n)) \subseteq Port
  BY <1>2 DEF EncodeOutPortsMask
<1> QED
  BY <1>1, <1>3, PipelinePorts DEF LookupPorts

\* The ports of matching records.
LEMMA MatchTyped ==
  ASSUME PitInv, NEW d \in DataName
  PROVE  /\ MatchPorts(d) \subseteq Port
         /\ d \in Stored => MatchPorts(d) # {}
<1>1. \A n \in Stored : pit[n] \in PitEntry /\ pit[n].ingress # {}
  BY DEF PitInv, Stored
<1>2. ASSUME NEW n \in Stored PROVE {r.port : r \in pit[n].ingress} \subseteq Port
  BY <1>1 DEF PitEntry
<1>3. MatchPorts(d) \subseteq Port
  BY <1>2 DEF MatchPorts
<1>4. ASSUME d \in Stored PROVE MatchPorts(d) # {}
  <2>1. PICK r \in pit[d].ingress : TRUE
    BY <1>1, <1>4
  <2>2. r.port \in MatchPorts(d)
    BY <1>4, OwnPrefix DEF MatchPorts
  <2> QED
    BY <2>2
<1> QED
  BY <1>3, <1>4

\* The port of a trace update is one of the matching ports.
LEMMA TracePortMatches ==
  ASSUME PitInv, NEW d \in DataName, d \in Stored, NEW e, e.names = {d}
  PROVE  TracePort(e) \in MatchPorts(d) /\ TracePort(e) \in Port
<1>1. UNION {MatchPorts(c) : c \in e.names} = MatchPorts(d)
  BY Zenon
<1>2. MatchPorts(d) \in SUBSET Port /\ MatchPorts(d) # {}
  BY MatchTyped
<1>3. Min(MatchPorts(d)) \in MatchPorts(d)
  BY <1>2, LowestPort
<1> QED
  BY <1>1, <1>2, <1>3 DEF TracePort

\* Packets are sent as packets.
LEMMA SentTyped ==
  ASSUME NEW kind \in {"Interest", "Data"}, NEW names \in SUBSET (Name \cup DataName),
         NEW ports \in SUBSET Port
  PROVE  Sent(kind, names, ports) \subseteq Packet
BY DEF Sent, Packet

\* The ports on which a packet was sent.
LEMMA SentPorts ==
  ASSUME NEW kind, NEW names, NEW ports, NEW n \in names
  PROVE  {o.port : o \in {q \in Sent(kind, names, ports) : q.kind = kind /\ q.name = n}} = ports
<1> DEFINE S == {q \in Sent(kind, names, ports) : q.kind = kind /\ q.name = n}
<1>1. \A o \in S : o.port \in ports
  BY DEF Sent
<1>2. ASSUME NEW x \in ports PROVE \E o \in S : o.port = x
  <2> DEFINE o == [kind |-> kind, name |-> n, port |-> x]
  <2>1. o \in Sent(kind, names, ports) /\ o.kind = kind /\ o.name = n /\ o.port = x
    BY DEF Sent
  <2> HIDE DEF o
  <2> QED
    BY <2>1
<1> HIDE DEF S
<1>3. {o.port : o \in S} = ports
  BY <1>1, <1>2
<1> QED
  BY <1>3 DEF S

\* What was reached, was reached through ports.
LEMMA ReachedTyped ==
  ASSUME reached \in [Name -> SUBSET Port], Observe, output' \subseteq Packet
  PROVE  reached' \in [Name -> SUBSET Port]
<1>1. \A n \in Name :
         {o.port : o \in {q \in output' : q.kind = "Interest" /\ q.name = n}} \subseteq Port
  BY DEF Packet
<1> QED
  BY <1>1 DEF Observe
--------------------------------------------------------------------------------
(* The actions of the packet path *)

\* The state that a step of the packet path reaches is well formed.
Kept == PitInv' /\ CallInv' /\ cs' \subseteq DataName /\ (CsCapacity = 0 => cs' = {})
          /\ output' \subseteq Packet

\* What every action starts from.
LEMMA EngineState ==
  ASSUME EngineInv
  PROVE  /\ TypeOK /\ now \in Nat /\ nextUid \in Nat /\ PitInv /\ CallInv
         /\ cs \subseteq DataName /\ (CsCapacity = 0 => cs = {})
         /\ packets \in Nat /\ packets <= MaxPackets /\ MaxPackets \in Nat
BY EngineAssumption DEF EngineInv, Inv, TypeOK, DeviceInv

\* An Interest arrives.
LEMMA InterestArrives ==
  ASSUME EngineInv, NEW n \in Name, NEW nonce \in Nonce, NEW lifetime \in InterestLifetime,
         NEW port \in InterestFrom[n], ReceiveInterest(n, nonce, port, lifetime)
  PROVE  Elsewhere /\ UNCHANGED promised /\ Kept
<1>0. /\ TypeOK /\ now \in Nat /\ nextUid \in Nat /\ PitInv /\ CallInv /\ UNCHANGED now
      /\ cs \subseteq DataName /\ (CsCapacity = 0 => cs = {}) /\ UNCHANGED <<cs, promised>>
  BY EngineState DEF ReceiveInterest
<1>1. port \in Port /\ UNCHANGED <<now, controllerVars, temporaryFib, localVars, flowFib>>
  BY EngineAssumption DEF ReceiveInterest
<1>2. CASE Duplicate(n, nonce)
  <2>1. output' = {} /\ UNCHANGED <<pit, packetCalls, traced, asked, nextUid>>
    BY <1>2 DEF ReceiveInterest
  <2>2. PitInv' /\ CallInv'
    BY <1>0, <2>1, PitKept, CallLeaves
  <2> QED
    BY <1>0, <1>1, <2>1, <2>2 DEF Elsewhere, Kept
<1>3. CASE ~Duplicate(n, nonce)
  <2>1. /\ InsertInterest(n, nonce, port, lifetime)
        /\ asked' = [asked EXCEPT ![n] = @ \cup {[port |-> port, until |-> now + lifetime]}]
        /\ traced' = IF JudgeNameIsTrace(n) THEN traced \cup {<<n, port>>} ELSE traced
    BY <1>3 DEF ReceiveInterest
  <2>2. PitInv'
    BY <1>0, <1>1, <2>1, PitInserts
  <2>3. CASE n \in cs
    <3>1. output' = Sent("Data", {n}, {port}) /\ UNCHANGED <<packetCalls, nextUid>>
      BY <1>3, <2>3 DEF ReceiveInterest
    <3>2. CallInv' /\ output' \subseteq Packet
      BY <1>0, <1>1, <3>1, CallLeaves, SentTyped
    <3> QED
      BY <1>0, <1>1, <2>2, <3>1, <3>2 DEF Elsewhere, Kept
  <2>4. CASE n \notin cs
    <3>1. /\ output' = {} /\ TakeUids
          /\ packetCalls' = packetCalls \cup
                {Call(PacketUid, StatefulDelay, "processInterestAfterDelay", {n}, port)}
      BY <1>3, <2>4 DEF ReceiveInterest
    <3>2. CallInv'
      BY <1>0, <1>1, <3>1, ArrivalJoins
    <3> QED
      BY <1>0, <1>1, <2>2, <3>1, <3>2 DEF Elsewhere, Kept
  <2> QED
    BY <2>3, <2>4
<1> QED
  BY <1>2, <1>3

\* Data arrives.
LEMMA DataArrives ==
  ASSUME EngineInv, NEW d \in DataName, NEW port \in DataFrom[d], ReceiveData(d, port)
  PROVE  Elsewhere /\ UNCHANGED promised /\ Kept
<1>0. /\ now \in Nat /\ nextUid \in Nat /\ PitInv /\ CallInv
      /\ cs \subseteq DataName /\ (CsCapacity = 0 => cs = {})
  BY EngineState
<1>1. /\ UNCHANGED <<now, controllerVars, temporaryFib, localVars, flowFib,
                     pit, cs, promised, traced, asked>>
      /\ output' = {} /\ TakeUids /\ port \in Port
      /\ packetCalls' = packetCalls \cup
            {Call(PacketUid, StatefulDelay, "processDataAfterDelay", {d}, port)}
  BY EngineAssumption DEF ReceiveData
<1>2. CallInv'
  BY <1>0, <1>1, ArrivalJoins
<1>3. PitInv'
  BY <1>0, <1>1, PitKept
<1> QED
  BY <1>0, <1>1, <1>2, <1>3 DEF Elsewhere, Kept

\* An Interest is looked up and forwarded.
LEMMA InterestForwarded ==
  ASSUME EngineInv, NEW e \in packetCalls, ProcessInterestAfterDelay(e)
  PROVE  \E n \in Name : /\ e.names = {n} /\ Lookup(n) /\ UNCHANGED promised /\ Kept
                         /\ output' = Sent("Interest", {n}, LookupPorts(n) \ {e.port})
<1>0. /\ TypeOK /\ now \in Nat /\ nextUid \in Nat /\ PitInv /\ CallInv
      /\ cs \subseteq DataName /\ (CsCapacity = 0 => cs = {})
  BY EngineState
<1>1. /\ e.call = "processInterestAfterDelay" /\ packetCalls' = packetCalls \ {e}
      /\ UNCHANGED <<now, nextUid, controllerVars, localVars, flowFib,
                     pit, cs, promised, traced, asked>>
  BY DEF ProcessInterestAfterDelay
<1>2. PICK n \in Name : e.names = {n}
  BY <1>0, <1>1 DEF CallInv
<1>3. output' = Sent("Interest", {n}, LookupPorts(n) \ {e.port}) /\ FindLongestPrefix(n)
  BY <1>2 DEF ProcessInterestAfterDelay
<1>4. LookupPorts(n) \ {e.port} \in SUBSET Port
  BY <1>0, LookupTyped
<1>5. output' \subseteq Packet
  BY <1>3, <1>4, SentTyped
<1>6. PitInv' /\ CallInv'
  BY <1>0, <1>1, PitKept, CallLeaves
<1> QED
  BY <1>0, <1>1, <1>2, <1>3, <1>5, <1>6 DEF Lookup, Kept

\* The Interests of a pull are sent again.
LEMMA InterestsPulled ==
  ASSUME EngineInv, NEW e \in packetCalls, DoDelayedPullSend(e)
  PROVE  Elsewhere /\ UNCHANGED promised /\ Kept
<1>0. /\ TypeOK /\ now \in Nat /\ nextUid \in Nat /\ PitInv /\ CallInv
      /\ cs \subseteq DataName /\ (CsCapacity = 0 => cs = {})
  BY EngineState
<1>1. /\ e.call = "doDelayedPullSend" /\ packetCalls' = packetCalls \ {e}
      /\ output' = Sent("Interest", e.names, {e.port})
      /\ UNCHANGED <<now, nextUid, controllerVars, temporaryFib, localVars, flowFib,
                     pit, cs, promised, traced, asked>>
  BY DEF DoDelayedPullSend
<1>2. e.names \in SUBSET (Name \cup DataName) /\ e.port \in Port
  BY <1>0 DEF CallInv, PacketCall
<1>3. output' \subseteq Packet
  BY <1>1, <1>2, SentTyped
<1>4. PitInv' /\ CallInv'
  BY <1>0, <1>1, PitKept, CallLeaves
<1> QED
  BY <1>0, <1>1, <1>3, <1>4 DEF Elsewhere, Kept

\* The Interests that a pull picks are pending Interests.
LEMMA PulledNames ==
  ASSUME NEW p, NEW names \in (IF EnableReforwarding THEN Pulled(p) ELSE {{}})
  PROVE  names \subseteq Name
<1>1. FindByPrefix(p) \subseteq Name
  BY DEF FindByPrefix, Stored
<1>2. \A k : kSubset(k, FindByPrefix(p)) \subseteq SUBSET FindByPrefix(p)
  BY DEF kSubset
<1>3. Pulled(p) \subseteq SUBSET FindByPrefix(p)
  BY <1>2 DEF Pulled
<1> QED
  BY <1>1, <1>3

\* The route of admitted trace Data, and the calls that are left and added.
Promise(e, d) ==
    [prefix |-> ExtractDataName(d), seq |-> TraceSequence(d), port |-> TracePort(e),
     expiry |-> now + pit[d].lifetime]
Admitted(e, d) ==
    /\ JudgeNameIsTrace(d) /\ d \in Stored /\ pit[d].lifetime \in Nat /\ pit[d].lifetime > 0
    /\ ExtractDataName(d) \in Prefix /\ TraceSequence(d) \in Generation
    /\ TracePort(e) \in MatchPorts(d) /\ TracePort(e) \in Port
    /\ Update(ExtractDataName(d), TracePort(e), TraceSequence(d), pit[d].lifetime)
    /\ promised' = [promised EXCEPT ![ExtractDataName(d)] = Promise(e, d)]
    /\ \E names \in (IF EnableReforwarding THEN Pulled(ExtractDataName(d)) ELSE {{}}) :
          packetCalls' = (packetCalls \ {e}) \cup
              (IF names = {} THEN {}
               ELSE {Call(PullUid, 0, "doDelayedPullSend", names, TracePort(e))})

\* Data is processed: it consumes its entries, and trace Data may update the route.
LEMMA DataProcessed ==
  ASSUME EngineInv, NEW e \in packetCalls, ProcessDataAfterDelay(e)
  PROVE  \E d \in DataName :
            /\ e.names = {d} /\ TakeDataMatchPorts(d) /\ Kept
            /\ \/ Elsewhere /\ UNCHANGED promised /\ packetCalls' = packetCalls \ {e}
               \/ Admitted(e, d)
<1>0. /\ TypeOK /\ now \in Nat /\ nextUid \in Nat /\ PitInv /\ CallInv
      /\ cs \subseteq DataName /\ (CsCapacity = 0 => cs = {})
  BY EngineState
<1>1. /\ e.call = "processDataAfterDelay" /\ UNCHANGED <<now, flowFib, traced>>
  BY DEF ProcessDataAfterDelay
<1>2. PICK d \in DataName : e.names = {d}
  BY <1>0, <1>1 DEF CallInv
<1>3. /\ ProcessContent(e, d) \/ ProcessTrace(e, d)
      /\ asked' = [n \in Name |-> IF IsPrefixOf(n, d) THEN {} ELSE asked[n]]
  BY <1>2 DEF ProcessDataAfterDelay
<1>4. TakeDataMatchPorts(d)
  BY <1>3 DEF ProcessContent, ProcessTrace
<1>5. PitInv'
  BY <1>0, <1>1, <1>3, <1>4, PitTakes
<1>6. ForwardData(d) => output' \subseteq Packet
  <2>1. EncodeOutPortsMask(MatchPorts(d)) \in SUBSET Port
    BY <1>0, MatchTyped DEF EncodeOutPortsMask
  <2> QED
    BY <2>1, PipelinePorts, SentTyped DEF ForwardData
<1>7. CASE ProcessContent(e, d)
  <2>1. /\ packetCalls' = packetCalls \ {e}
        /\ UNCHANGED <<nextUid, controllerVars, temporaryFib, localVars, promised>>
    BY <1>7 DEF ProcessContent
  <2>2. CallInv'
    BY <1>0, <1>1, <2>1, CallLeaves
  <2>3. output' \subseteq Packet /\ cs' \subseteq DataName /\ (CsCapacity = 0 => cs' = {})
    <3>1. CASE MatchPorts(d) = {}
      BY <1>0, <1>7, <3>1 DEF ProcessContent
    <3>2. CASE MatchPorts(d) # {}
      <4>1. CacheInsert(d) /\ ForwardData(d)
        BY <1>7, <3>2 DEF ProcessContent
      <4>2. Trimmed(cs \cup {d}) \subseteq SUBSET (cs \cup {d})
        BY DEF Trimmed, kSubset
      <4> QED
        BY <1>0, <1>6, <4>1, <4>2 DEF CacheInsert
    <3> QED
      BY <3>1, <3>2
  <2> QED
    BY <1>1, <1>2, <1>4, <1>5, <2>1, <2>2, <2>3 DEF Elsewhere, Kept
<1>8. CASE ProcessTrace(e, d)
  <2>0. JudgeNameIsTrace(d) /\ UNCHANGED cs
    BY <1>8 DEF ProcessTrace
  <2>1. CASE ~(d \in Stored /\ pit[d].lifetime > 0)
    <3>1. /\ output' = {} /\ packetCalls' = packetCalls \ {e}
          /\ UNCHANGED <<nextUid, controllerVars, temporaryFib, localVars, promised>>
      BY <1>8, <2>1 DEF ProcessTrace
    <3>2. CallInv'
      BY <1>0, <1>1, <3>1, CallLeaves
    <3> QED
      BY <1>0, <1>1, <1>2, <1>4, <1>5, <2>0, <3>1, <3>2 DEF Elsewhere, Kept
  <2>2. CASE d \in Stored /\ pit[d].lifetime > 0
    <3>1. /\ HandleTraceData(e, ExtractDataName(d), TraceSequence(d), pit[d].lifetime)
          /\ ForwardData(d)
      BY <1>8, <2>2 DEF ProcessTrace
    <3>2. /\ ExtractDataName(d) \in Prefix /\ TraceSequence(d) \in Generation
      BY <2>0, TraceAssumption, Zenon DEF TraceSequence
    <3>3. pit[d].lifetime \in Nat
      BY <1>0, <2>2, PitAssumption DEF PitInv, Stored, PitEntry
    <3>4. TracePort(e) \in MatchPorts(d) /\ TracePort(e) \in Port
      BY <1>0, <1>2, <2>2, TracePortMatches
    <3>5. CASE ~IsNewer(ExtractDataName(d), TraceSequence(d))
      <4>1. /\ packetCalls' = packetCalls \ {e}
            /\ UNCHANGED <<nextUid, controllerVars, temporaryFib, localVars, promised>>
        BY <3>1, <3>5 DEF HandleTraceData
      <4>2. CallInv'
        BY <1>0, <1>1, <4>1, CallLeaves
      <4> QED
        BY <1>0, <1>1, <1>2, <1>4, <1>5, <1>6, <2>0, <3>1, <4>1, <4>2 DEF Elsewhere, Kept
    <3>6. CASE IsNewer(ExtractDataName(d), TraceSequence(d))
      <4>1. /\ \E ack \in BOOLEAN : ApplyTraceUpdate(ExtractDataName(d), TracePort(e),
                                                     TraceSequence(d), pit[d].lifetime, ack)
            /\ promised' = [promised EXCEPT ![ExtractDataName(d)] = Promise(e, d)]
            /\ TakeUids
        BY <3>1, <3>6 DEF HandleTraceData, Promise
      <4>2. PICK names \in (IF EnableReforwarding THEN Pulled(ExtractDataName(d)) ELSE {{}}) :
               packetCalls' = (packetCalls \ {e}) \cup
                   (IF names = {} THEN {}
                    ELSE {Call(PullUid, 0, "doDelayedPullSend", names, TracePort(e))})
        BY <3>1, <3>6 DEF HandleTraceData
      <4>3. Admitted(e, d)
        BY <1>1, <2>0, <2>2, <3>2, <3>3, <3>4, <4>1, <4>2 DEF Admitted, Update
      <4>4. CallInv'
        <5>1. CASE names = {}
          <6>1. packetCalls' \subseteq packetCalls /\ nextUid' \in Nat /\ nextUid' >= nextUid
            BY <1>0, <4>1, <4>2, <5>1 DEF TakeUids
          <6> QED
            BY <1>0, <1>1, <6>1, CallLeaves
        <5>2. CASE names # {}
          <6> DEFINE f == Call(PullUid, 0, "doDelayedPullSend", names, TracePort(e))
          <6>0. names \subseteq Name
            BY PulledNames
          <6>1. /\ f \in PacketCall /\ f.uid = nextUid + 3 /\ f.at = now
                /\ f.call = "doDelayedPullSend" /\ f.names = names
            BY <1>0, <3>4, <6>0 DEF Call, PullUid, PacketCall
          <6>2. packetCalls' = (packetCalls \ {e}) \cup {f}
            BY <4>2, <5>2
          <6> HIDE DEF f
          <6>3. f.at >= now
            BY <1>0, <6>1
          <6> QED
            BY <1>0, <1>1, <4>1, <6>0, <6>1, <6>2, <6>3, CallJoins
        <5> QED
          BY <5>1, <5>2
      <4> QED
        BY <1>0, <1>2, <1>4, <1>5, <1>6, <2>0, <3>1, <4>3, <4>4 DEF Kept
    <3> QED
      BY <3>5, <3>6
  <2> QED
    BY <2>1, <2>2
<1> QED
  BY <1>3, <1>7, <1>8
\* The control plane and the clock run on, and no packet is touched.
LEMMA NoPacketKept ==
  ASSUME EngineInv, NoPacket, UNCHANGED now, nextUid' \in Nat, nextUid' >= nextUid
  PROVE  Kept
<1>0. /\ now \in Nat /\ nextUid \in Nat /\ PitInv /\ CallInv
      /\ cs \subseteq DataName /\ (CsCapacity = 0 => cs = {})
  BY EngineState
<1>1. output' = {} /\ UNCHANGED <<pit, cs, packetCalls, traced, asked>>
  BY DEF NoPacket
<1> QED
  BY <1>0, <1>1, PitKept, CallLeaves DEF Kept

\* A call of the control plane takes no time.
LEMMA ControlRuns ==
  ASSUME EngineInv, NoPacket,
         (\E e \in inFlight : RunLeg(e)) \/ (\E t \in timers : RunTimer(t))
  PROVE  Kept /\ UNCHANGED <<now, promised>>
<1>0. nextUid \in Nat
  BY EngineState
<1>1. UNCHANGED now /\ (TakeUids \/ UNCHANGED nextUid)
  BY DEF RunLeg, RunAcceptControl, RunAttemptFlowMod, RunDeliverSyncAck,
         RunTimer, RunExpiry, RunRetry, RunGiveUp
<1>2. nextUid' \in Nat /\ nextUid' >= nextUid
  BY <1>0, <1>1 DEF TakeUids
<1> QED
  BY <1>1, <1>2, NoPacketKept DEF NoPacket

\* The clock moves on.
LEMMA ClockRuns ==
  ASSUME EngineInv, NoPacket, Advance(EngineQueue),
         UNCHANGED <<controllerVars, temporaryFib, localVars, flowFib>>
  PROVE  Kept /\ Tick /\ UNCHANGED promised
<1>0. /\ now \in Nat /\ nextUid \in Nat /\ PitInv /\ CallInv
      /\ cs \subseteq DataName /\ (CsCapacity = 0 => cs = {})
  BY EngineState
<1>1. output' = {} /\ UNCHANGED <<pit, cs, packetCalls, promised, traced, asked>>
  BY DEF NoPacket
<1>2. CallInv' /\ Advance(Queue)
  BY <1>0, <1>1, CallWaits
<1>3. now' \in Nat /\ now' >= now
  BY <1>0 DEF Advance
<1>4. PitInv'
  BY <1>0, <1>1, <1>3, PitKept
<1> QED
  BY <1>0, <1>1, <1>2, <1>4 DEF Kept, Tick

\* Every step of the packet path is a step of the control plane.
LEMMA EngineSteps ==
  ASSUME EngineInv, EngineNext
  PROVE  Step /\ Kept /\ packets' \in 0..MaxPackets
<1>0. packets \in Nat /\ packets <= MaxPackets /\ MaxPackets \in Nat
  BY EngineState
<1>1. ASSUME NEW n \in Name, NEW nonce \in Nonce, NEW lifetime \in InterestLifetime,
             NEW port \in InterestFrom[n], ReceiveInterest(n, nonce, port, lifetime)
      PROVE  Step /\ Kept /\ packets' \in 0..MaxPackets
  <2>1. Elsewhere /\ Kept
    BY <1>1, InterestArrives
  <2>2. packets' \in 0..MaxPackets
    BY <1>0, <1>1 DEF ReceiveInterest, Arrival
  <2> QED
    BY <2>1, <2>2 DEF Step
<1>2. ASSUME NEW d \in DataName, NEW port \in DataFrom[d], ReceiveData(d, port)
      PROVE  Step /\ Kept /\ packets' \in 0..MaxPackets
  <2>1. Elsewhere /\ Kept
    BY <1>2, DataArrives
  <2>2. packets' \in 0..MaxPackets
    BY <1>0, <1>2 DEF ReceiveData, Arrival
  <2> QED
    BY <2>1, <2>2 DEF Step
<1>3. ASSUME NEW e \in packetCalls, RunPacket(e) PROVE Step /\ Kept
  <2>1. CASE ProcessInterestAfterDelay(e)
    BY <2>1, InterestForwarded DEF Step
  <2>2. CASE DoDelayedPullSend(e)
    BY <2>2, InterestsPulled DEF Step
  <2>3. CASE ProcessDataAfterDelay(e)
    BY <2>3, DataProcessed DEF Step, Admitted
  <2> QED
    BY <1>3, <2>1, <2>2, <2>3 DEF RunPacket
<1>4. ASSUME EngineRun PROVE Step /\ Kept /\ packets' \in 0..MaxPackets
  <2>1. packets' \in 0..MaxPackets
    BY <1>0, <1>4 DEF EngineRun
  <2>2. CASE \E e \in packetCalls : RunPacket(e)
    BY <1>3, <2>1, <2>2
  <2>3. CASE \E e \in inFlight : RunLeg(e) /\ NoPacket
    BY <2>1, <2>3, ControlRuns DEF Step
  <2>4. CASE \E t \in timers : RunTimer(t) /\ NoPacket
    BY <2>1, <2>4, ControlRuns DEF Step
  <2>5. CASE /\ Advance(EngineQueue) /\ NoPacket
             /\ UNCHANGED <<controllerVars, temporaryFib, localVars, flowFib>>
    BY <2>1, <2>5, ClockRuns DEF Step
  <2> QED
    BY <1>4, <2>2, <2>3, <2>4, <2>5 DEF EngineRun
<1> QED
  BY <1>1, <1>2, <1>4 DEF EngineNext

\* The invariant of the packet path.
LEMMA EngineInvStep == EngineInv /\ [EngineNext]_allVars => EngineInv'
<1>1. ASSUME EngineInv, EngineNext PROVE EngineInv'
  <2>1. Step /\ Kept /\ packets' \in 0..MaxPackets /\ Observe
    BY <1>1, EngineSteps DEF EngineNext
  <2>2. Inv'
    BY <1>1, <2>1, InvStep DEF EngineInv
  <2>3. reached' \in [Name -> SUBSET Port]
    BY <1>1, <2>1, ReachedTyped DEF EngineInv, DeviceInv, Kept
  <2> QED
    BY <2>1, <2>2, <2>3 DEF EngineInv, DeviceInv, Kept
<1>2. ASSUME EngineInv, UNCHANGED allVars PROVE EngineInv'
  <2>1. UNCHANGED vars /\ UNCHANGED engineVars
    BY <1>2 DEF allVars
  <2>2. Inv'
    BY <1>2, <2>1, NextIsStep, InvStep DEF EngineInv
  <2>3. UNCHANGED <<now, nextUid, pit, cs, packetCalls, output, packets, traced, asked, reached>>
    BY <2>1 DEF vars, engineVars
  <2>4. PitInv' /\ CallInv' /\ DeviceInv'
    BY <1>2, <2>3 DEF EngineInv, PitInv, CallInv, DeviceInv
  <2> QED
    BY <2>2, <2>4 DEF EngineInv
<1> QED
  BY <1>1, <1>2

\* It holds at first.
LEMMA EngineInvInit == EngineInit => EngineInv
<1> SUFFICES ASSUME EngineInit PROVE EngineInv
  OBVIOUS
<1>1. Inv
  BY InvInit DEF EngineInit
<1>2. /\ pit = [n \in Name |-> NoEntry] /\ asked = [n \in Name |-> {}] /\ packetCalls = {}
      /\ cs = {} /\ output = {} /\ packets = 0 /\ reached = [n \in Name |-> {}]
  BY DEF EngineInit, PitInit, CsInit
<1>3. PitInv
  BY <1>2 DEF PitInv, NoEntry
<1>4. CallInv /\ DeviceInv
  BY <1>2, EngineAssumption DEF CallInv, DeviceInv
<1> QED
  BY <1>1, <1>3, <1>4 DEF EngineInv

\* The invariant holds of every behaviour of the packet path.
LEMMA EngineInvariance == EngineSpec => []EngineInv
BY EngineInvInit, EngineInvStep, PTL DEF EngineSpec

--------------------------------------------------------------------------------
(* Data and those who asked for it *)

\* When content passes, every port whose Interest for it is alive gets it, and no port
\* that did not ask (DataAnswersAllAskers): for any names, ports and lifetimes, however
\* Interests were aggregated, pruned and matched by longer names.
THEOREM ContentReachesItsAskers == EngineSpec => DataAnswersAllAskers
<1> DEFINE askers(d) == UNION {asked[n] : n \in {m \in Name : IsPrefixOf(m, d)}}
           served(d) == {o.port : o \in {q \in output' : q.kind = "Data" /\ q.name = d}}
           Answers(d) ==
             DataPasses(d) /\ ~JudgeNameIsTrace(d) =>
               /\ {r.port : r \in {q \in askers(d) : now < q.until}} \cap BitmapPorts
                     \subseteq served(d)
               /\ served(d) \subseteq {r.port : r \in askers(d)}
<1>1. ASSUME EngineInv, EngineNext, NEW d \in DataName, DataPasses(d), ~JudgeNameIsTrace(d)
      PROVE  output' = Sent("Data", {d}, EncodeOutPortsMask(MatchPorts(d)))
  <2>1. PICK e \in packetCalls \ packetCalls' : e.call = "processDataAfterDelay" /\ e.names = {d}
    BY <1>1 DEF DataPasses
  <2>2. ProcessDataAfterDelay(e)
    <3>1. ASSUME packetCalls \subseteq packetCalls' PROVE FALSE
      BY <2>1, <3>1
    <3>2. ASSUME NEW n, NEW nonce, NEW port, NEW lifetime,
                 ReceiveInterest(n, nonce, port, lifetime)
          PROVE  FALSE
      <4>1. packetCalls \subseteq packetCalls'
        BY <3>2 DEF ReceiveInterest
      <4> QED
        BY <3>1, <4>1
    <3>3. ASSUME NEW c, NEW port, ReceiveData(c, port) PROVE FALSE
      BY <3>1, <3>3 DEF ReceiveData
    <3>4. ASSUME NoPacket PROVE FALSE
      BY <3>1, <3>4 DEF NoPacket
    <3>5. PICK f \in packetCalls : RunPacket(f)
      BY <1>1, <3>2, <3>3, <3>4 DEF EngineNext, EngineRun
    <3>6. packetCalls \ {f} \subseteq packetCalls'
      BY <3>5 DEF RunPacket, ProcessInterestAfterDelay, DoDelayedPullSend,
                  ProcessDataAfterDelay, ProcessContent, ProcessTrace, HandleTraceData
    <3>7. f = e
      BY <2>1, <3>6
    <3> QED
      BY <2>1, <3>5, <3>7 DEF RunPacket, ProcessInterestAfterDelay, DoDelayedPullSend
  <2>3. ProcessContent(e, d)
    BY <1>1, <2>1, <2>2 DEF ProcessDataAfterDelay, ProcessTrace
  <2>4. CASE MatchPorts(d) = {}
    <3>1. output' = {}
      BY <2>3, <2>4 DEF ProcessContent
    <3> QED
      BY <2>4, <3>1 DEF Sent, EncodeOutPortsMask
  <2>5. CASE MatchPorts(d) # {}
    BY <2>3, <2>5, PipelinePorts DEF ProcessContent, ForwardData
  <2> QED
    BY <2>4, <2>5
<1>2. ASSUME EngineInv, EngineNext, NEW d \in DataName PROVE Answers(d)
  <2> SUFFICES ASSUME DataPasses(d), ~JudgeNameIsTrace(d)
               PROVE  /\ {r.port : r \in {q \in askers(d) : now < q.until}} \cap BitmapPorts
                             \subseteq served(d)
                      /\ served(d) \subseteq {r.port : r \in askers(d)}
    OBVIOUS
  <2>0. PitInv
    BY <1>2 DEF EngineInv
  <2>1. output' = Sent("Data", {d}, EncodeOutPortsMask(MatchPorts(d)))
    BY <1>1, <1>2
  <2>2. served(d) = MatchPorts(d) \cap BitmapPorts
    BY <2>1, SentPorts DEF EncodeOutPortsMask
  <2>3. ASSUME NEW r \in askers(d), now < r.until PROVE r.port \in MatchPorts(d)
    <3>1. PICK n \in Name : IsPrefixOf(n, d) /\ r \in asked[n]
      BY <2>3
    <3>2. r \in pit[n].ingress
      BY <2>0, <2>3, <3>1 DEF PitInv
    <3>3. n \in Stored
      BY <3>2 DEF Stored, NoEntry
    <3> QED
      BY <3>1, <3>2, <3>3 DEF MatchPorts
  <2>4. ASSUME NEW port \in MatchPorts(d) PROVE port \in {r.port : r \in askers(d)}
    <3>1. PICK n \in Stored : IsPrefixOf(n, d) /\ port \in {r.port : r \in pit[n].ingress}
      BY <2>4 DEF MatchPorts
    <3>2. n \in Name /\ pit[n].ingress \subseteq asked[n]
      BY <2>0 DEF PitInv, Stored
    <3>3. PICK r \in pit[n].ingress : port = r.port
      BY <3>1
    <3>4. r \in askers(d)
      BY <3>1, <3>2, <3>3
    <3> QED
      BY <3>3, <3>4
  <2> HIDE DEF askers, served
  <2> QED
    BY <2>2, <2>3, <2>4
<1>3. EngineInv /\ [EngineNext]_allVars => [\A d \in DataName : Answers(d)]_allVars
  BY <1>2
<1>4. DataAnswersAllAskers <=> [][\A d \in DataName : Answers(d)]_allVars
  BY PTL DEF DataAnswersAllAskers
<1> QED
  BY <1>3, <1>4, EngineInvariance, PTL DEF EngineSpec
--------------------------------------------------------------------------------
(* Routes and the traces that they follow *)

\* A message whose trace Interest was accepted on the port that it names.
Followed(m) ==
    \E t \in traced : /\ ExtractDataName(t[1]) = m.prefix
                      /\ TraceSequence(t[1]) = m.seq
                      /\ t[2] = m.port

\* The places where a copy of a message can be.
LEMMA CopyPlaces ==
  ASSUME NEW x, x # NoMessage
  PROVE  x \in Copies <=> \/ \E e \in inFlight : x = e.msg
                          \/ \E p \in Prefix : x = local[p].request.msg
                          \/ \E p \in Prefix :
                                x = prefixState[p].accepted \/ x = prefixState[p].applied
                          \/ \E k \in Key : x = flowFib[k]
<1> DEFINE A == {e.msg : e \in inFlight}
           U == {{local[p].request.msg, prefixState[p].accepted, prefixState[p].applied}
                   : p \in Prefix}
           B == {flowFib[k] : k \in Key}
<1>1. Copies = (A \cup (UNION U) \cup B) \ {NoMessage}
  BY Zenon DEF Copies
<1>2. x \in UNION U <=> \E p \in Prefix : x \in {local[p].request.msg,
                                prefixState[p].accepted, prefixState[p].applied}
  BY Zenon
<1>3. x \in UNION U <=> \/ \E p \in Prefix : x = local[p].request.msg
                        \/ \E p \in Prefix :
                              x = prefixState[p].accepted \/ x = prefixState[p].applied
  BY <1>2
<1>4. (x \in A <=> \E e \in inFlight : x = e.msg) /\ (x \in B <=> \E k \in Key : x = flowFib[k])
  BY Zenon
<1> HIDE DEF A, U, B
<1>5. x \in Copies <=> x \in A \/ x \in UNION U \/ x \in B
  BY <1>1, Zenon
<1> QED
  BY <1>3, <1>4, <1>5, Zenon

\* The step acts on the message m: no other message is sent, saved, recorded or installed.
ActsOn(m) ==
    /\ \A f \in inFlight' : f \in inFlight \/ f.msg = m
    /\ \A p \in Prefix :
          /\ prefixState'[p].accepted \in {prefixState[p].accepted, m}
          /\ prefixState'[p].applied \in {prefixState[p].applied, m}
          /\ local'[p].request.msg \in {local[p].request.msg, NoMessage, m}
    /\ \A k \in Key : flowFib'[k] \in {flowFib[k], m}

\* Then no other message has a new copy.
LEMMA CopiesOfOne ==
  ASSUME NEW m, ActsOn(m), NEW x \in Copies'
  PROVE  x \in Copies \/ x = m
<1>1. x # NoMessage
  BY DEF Copies
<1>2. \/ \E e \in inFlight' : x = e.msg
      \/ \E p \in Prefix : x = local'[p].request.msg
      \/ \E p \in Prefix : x = prefixState'[p].accepted \/ x = prefixState'[p].applied
      \/ \E k \in Key : x = flowFib'[k]
  <2> DEFINE A == {e.msg : e \in inFlight'}
             U == {{local'[p].request.msg, prefixState'[p].accepted, prefixState'[p].applied}
                     : p \in Prefix}
             B == {flowFib'[k] : k \in Key}
  <2>1. Copies' = (A \cup (UNION U) \cup B) \ {NoMessage}
    BY Zenon DEF Copies
  <2>2. x \in UNION U => \E p \in Prefix : x \in {local'[p].request.msg,
                                prefixState'[p].accepted, prefixState'[p].applied}
    BY Zenon
  <2>3. /\ x \in A => \E e \in inFlight' : x = e.msg
        /\ x \in B => \E k \in Key : x = flowFib'[k]
    BY Zenon
  <2> HIDE DEF A, U, B
  <2>4. x \in A \/ x \in UNION U \/ x \in B
    BY <2>1, Zenon
  <2> QED
    BY <2>2, <2>3, <2>4
<1>3. CASE x # m
  <2>1. \/ \E e \in inFlight : x = e.msg
        \/ \E p \in Prefix : x = local[p].request.msg
        \/ \E p \in Prefix : x = prefixState[p].accepted \/ x = prefixState[p].applied
        \/ \E k \in Key : x = flowFib[k]
    BY <1>1, <1>2, <1>3 DEF ActsOn
  <2> QED
    BY <1>1, <2>1, CopyPlaces
<1> QED
  BY <1>3

\* A transaction is closed, kept or retried: the saved requests stay or go.
LEMMA RequestsKept ==
  ASSUME TypeOK, Keeps \/ (\E p \in Prefix : Closes(p)) \/ (\E t \in timers : Retries(t))
  PROVE  \A q \in Prefix : local'[q].request.msg \in {local[q].request.msg, NoMessage}
<1>0. local \in [Prefix -> Transaction] /\ timers \subseteq Timer
  BY DEF TypeOK, LocalTypeOK
<1>1. CASE Keeps
  BY <1>1 DEF Keeps
<1>2. ASSUME NEW p \in Prefix, Closes(p), NEW q \in Prefix
      PROVE  local'[q].request.msg \in {local[q].request.msg, NoMessage}
  BY <1>0, <1>2 DEF Closes, Idle, NoRequest
<1>3. ASSUME NEW t \in timers, Retries(t), NEW q \in Prefix
      PROVE  local'[q].request.msg \in {local[q].request.msg, NoMessage}
  <2>1. /\ t.prefix \in Prefix /\ local[t.prefix] \in Transaction
        /\ local' = [local EXCEPT ![t.prefix] = Rearm(local[t.prefix])]
    BY <1>0, <1>3 DEF Retries, Timer
  <2>2. Rearm(local[t.prefix]).request.msg = local[t.prefix].request.msg
    BY <2>1 DEF Rearm, Transaction
  <2> QED
    BY <1>0, <2>1, <2>2
<1> QED
  BY <1>1, <1>2, <1>3

\* What acceptControl and submitFlowUpdate record is the message that they are given.
LEMMA TakenActs ==
  ASSUME TypeOK, NEW m \in Message, NEW rest \in SUBSET inFlight, NEW ack \in BOOLEAN,
         Taken(rest, m, ack)
  PROVE  /\ \A f \in inFlight' : f \in inFlight \/ f.msg = m
         /\ \A p \in Prefix :
               /\ prefixState'[p].accepted \in {prefixState[p].accepted, m}
               /\ prefixState'[p].applied \in {prefixState[p].applied, m}
<1>0. prefixState \in [Prefix -> PrefixState] /\ m.prefix \in Prefix
  BY MessageFields DEF TypeOK, ControllerTypeOK
<1>1. \A f \in inFlight' : f \in inFlight \/ f.msg = m
  BY DEF Taken, GrowsBy
<1>2. prefixState' = prefixState \/ prefixState' = [prefixState EXCEPT ![m.prefix].accepted = m]
  BY DEF Taken
<1> QED
  BY <1>0, <1>1, <1>2 DEF PrefixState

\* A call of the flow-table controller acts on its own message.
LEMMA LegActs ==
  ASSUME TypeOK, TimerInv, NEW e \in inFlight, RunLeg(e)
  PROVE  ActsOn(e.msg)
<1>0. /\ ControllerTypeOK /\ now \in Nat /\ nextUid \in Nat /\ e.msg \in Message
      /\ e.msg.prefix \in Prefix /\ prefixState \in [Prefix -> PrefixState]
      /\ flowFib \in [Key -> Message \cup {NoMessage}]
      /\ UNCHANGED now /\ nextUid' >= nextUid /\ inFlight \ {e} \in SUBSET inFlight
  BY LegEffect, MessageFields DEF TypeOK, ControllerTypeOK
<1>1. ASSUME NEW ack \in BOOLEAN, HandleControlResponse(e.msg, ack)
      PROVE  \A q \in Prefix : local'[q].request.msg \in {local[q].request.msg, NoMessage}
  BY <1>0, <1>1, ResponseEffect, RequestsKept
<1>2. CASE RunAcceptControl(e)
  <2>1. PICK ack \in BOOLEAN : /\ AcceptControl(e.msg, inFlight \ {e}, ack)
                               /\ HandleControlResponse(e.msg, ack)
    BY <1>2 DEF RunAcceptControl
  <2>2. UNCHANGED flowFib
    BY <1>2 DEF RunAcceptControl
  <2>3. Taken(inFlight \ {e}, e.msg, ack)
    BY <1>0, <2>1, AcceptEffect
  <2>4. /\ \A f \in inFlight' : f \in inFlight \/ f.msg = e.msg
        /\ \A p \in Prefix :
               /\ prefixState'[p].accepted \in {prefixState[p].accepted, e.msg}
               /\ prefixState'[p].applied \in {prefixState[p].applied, e.msg}
    BY <1>0, <2>3, TakenActs
  <2> QED
    BY <1>1, <2>1, <2>2, <2>4 DEF ActsOn
<1>3. CASE RunAttemptFlowMod(e)
  <2>1. PICK applied \in BOOLEAN, ack \in BOOLEAN :
          /\ AttemptFlowMod(e.msg, inFlight \ {e}, SinkAccepts(e.msg), applied, ack)
          /\ HandleControlResponse(e.msg, ack)
          /\ IF applied THEN InstallFibEntry(e.msg) ELSE UNCHANGED flowFib
    BY <1>3 DEF RunAttemptFlowMod
  <2>2. SinkAccepts(e.msg) \in BOOLEAN
    BY DEF SinkAccepts
  <2>3. /\ \/ prefixState' = prefixState
           \/ prefixState' = [prefixState EXCEPT ![e.msg.prefix].applied = e.msg]
        /\ inFlight' = inFlight \ {e} \/ GrowsBy(inFlight \ {e}, e.msg, "deliverSyncAck")
    BY <1>0, <2>1, <2>2, AttemptEffect
  <2>4. \A f \in inFlight' : f \in inFlight \/ f.msg = e.msg
    BY <2>3 DEF GrowsBy
  <2>5. \A p \in Prefix : /\ prefixState'[p].accepted \in {prefixState[p].accepted, e.msg}
                          /\ prefixState'[p].applied \in {prefixState[p].applied, e.msg}
    BY <1>0, <2>3 DEF PrefixState
  <2>6. \A k \in Key : flowFib'[k] \in {flowFib[k], e.msg}
    BY <1>0, <2>1 DEF InstallFibEntry
  <2> QED
    BY <1>1, <2>1, <2>4, <2>5, <2>6 DEF ActsOn
<1>4. CASE RunDeliverSyncAck(e)
  <2>1. PICK ack \in BOOLEAN : HandleControlResponse(e.msg, ack)
    BY <1>4 DEF RunDeliverSyncAck
  <2>2. UNCHANGED <<prefixState, flowFib>> /\ inFlight' = inFlight \ {e}
    BY <1>4 DEF RunDeliverSyncAck
  <2> QED
    BY <1>1, <2>1, <2>2 DEF ActsOn
<1> QED
  BY <1>2, <1>3, <1>4 DEF RunLeg

\* A timer acts on the saved request, or on nothing.
LEMMA TimerActs ==
  ASSUME TypeOK, TimerInv, NEW t \in timers, RunTimer(t)
  PROVE  t.prefix \in Prefix /\ ActsOn(local[t.prefix].request.msg)
<1>1. CASE RunRetry(t)
  <2> DEFINE m == local[t.prefix].request.msg
  <2>0. ControllerTypeOK /\ now \in Nat /\ nextUid \in Nat /\ inFlight \in SUBSET inFlight
    BY DEF TypeOK
  <2>1. /\ t.prefix \in Prefix /\ m \in Message /\ UNCHANGED flowFib
        /\ \E ack \in BOOLEAN :
               /\ SubmitFlowUpdate(m, ack)
               /\ Retries(t) \/ Closes(t.prefix)
    BY <1>1, RetryEffect
  <2> HIDE DEF m
  <2>2. PICK ack \in BOOLEAN : SubmitFlowUpdate(m, ack) /\ (Retries(t) \/ Closes(t.prefix))
    BY <2>1
  <2>3. Taken(inFlight, m, ack)
    BY <2>0, <2>1, <2>2, SubmitEffect
  <2>4. \A q \in Prefix : local'[q].request.msg \in {local[q].request.msg, NoMessage}
    BY <2>1, <2>2, RequestsKept
  <2>5. ActsOn(m)
    BY <2>0, <2>1, <2>3, <2>4, TakenActs DEF ActsOn
  <2> QED
    BY <2>1, <2>5 DEF m
<1>2. CASE RunExpiry(t) \/ RunGiveUp(t)
  <2>1. /\ t.prefix \in Prefix /\ Closes(t.prefix)
        /\ UNCHANGED <<controllerVars, highestSeen, flowFib>>
    BY <1>2, ExpiryEffect, GiveUpEffect
  <2>2. \A q \in Prefix : local'[q].request.msg \in {local[q].request.msg, NoMessage}
    BY <2>1, RequestsKept
  <2> QED
    BY <2>1, <2>2 DEF ActsOn, controllerVars
<1> QED
  BY <1>1, <1>2 DEF RunTimer

\* An update acts on the message that it is turned into.
LEMMA UpdateActs ==
  ASSUME TypeOK, TimerInv, NEW p \in Prefix, NEW port \in Port, NEW seq \in Generation,
         NEW ttl \in Nat, Update(p, port, seq, ttl)
  PROVE  \E m \in Message : m.prefix = p /\ m.seq = seq /\ m.port = port /\ ActsOn(m)
<1>0. /\ ControllerTypeOK /\ now \in Nat /\ nextUid \in Nat /\ inFlight \in SUBSET inFlight
      /\ local \in [Prefix -> Transaction]
  BY DEF TypeOK, LocalTypeOK
<1>1. PICK m \in Message, ack \in BOOLEAN :
            /\ IsUpdate(m, p, port, seq, ttl) /\ m.prefix = p /\ m.seq = seq
            /\ SubmitFlowUpdate(m, ack) /\ UNCHANGED flowFib
            /\ (ack /\ Closes(p)) \/ Opens(m)
  BY UpdateEffect
<1>2. m.port = port
  BY <1>1 DEF IsUpdate
<1>3. Taken(inFlight, m, ack)
  BY <1>0, <1>1, SubmitEffect
<1>4. \A q \in Prefix : local'[q].request.msg \in {local[q].request.msg, NoMessage, m}
  <2>1. CASE Closes(p)
    BY <2>1, RequestsKept
  <2>2. CASE Opens(m)
    <3>1. local' = [local EXCEPT ![m.prefix] = NewTransaction(m)] /\ m.prefix \in Prefix
      BY <1>1, <2>2 DEF Opens
    <3>2. NewTransaction(m).request.msg \in {local[m.prefix].request.msg, m}
      BY DEF NewTransaction, NewRequest
    <3> QED
      BY <1>0, <3>1, <3>2
  <2> QED
    BY <1>1, <2>1, <2>2
<1>5. ActsOn(m)
  BY <1>0, <1>1, <1>3, <1>4, TakenActs DEF ActsOn
<1> QED
  BY <1>1, <1>2, <1>5

\* The steps of the packet path, as its histories see them: trace Data is admitted, or the
\* control plane takes a step of its own.
LEMMA EngineKinds ==
  ASSUME EngineInv, EngineNext
  PROVE  /\ traced \subseteq traced'
         /\ \/ \E e \in packetCalls, d \in DataName : e.names = {d} /\ Admitted(e, d)
            \/ /\ UNCHANGED promised
               /\ \/ Elsewhere \/ Tick
                  \/ \E n \in Name : Lookup(n)
                  \/ \E e \in inFlight : RunLeg(e)
                  \/ \E t \in timers : t.at = now /\ RunTimer(t)
<1>1. ASSUME NEW n \in Name, NEW nonce \in Nonce, NEW lifetime \in InterestLifetime,
             NEW port \in InterestFrom[n], ReceiveInterest(n, nonce, port, lifetime)
      PROVE  traced \subseteq traced' /\ UNCHANGED promised /\ Elsewhere
  <2>1. Elsewhere
    BY <1>1, InterestArrives
  <2> QED
    BY <1>1, <2>1 DEF ReceiveInterest
<1>2. ASSUME NEW d \in DataName, NEW port \in DataFrom[d], ReceiveData(d, port)
      PROVE  traced \subseteq traced' /\ UNCHANGED promised /\ Elsewhere
  <2>1. Elsewhere
    BY <1>2, DataArrives
  <2> QED
    BY <1>2, <2>1 DEF ReceiveData
<1>3. ASSUME NEW e \in packetCalls, RunPacket(e)
      PROVE  /\ traced \subseteq traced'
             /\ \/ \E d \in DataName : e.names = {d} /\ Admitted(e, d)
                \/ UNCHANGED promised /\ (Elsewhere \/ \E n \in Name : Lookup(n))
  <2>1. CASE ProcessInterestAfterDelay(e)
    <3>1. UNCHANGED traced
      BY <2>1 DEF ProcessInterestAfterDelay
    <3> QED
      BY <2>1, <3>1, InterestForwarded
  <2>2. CASE DoDelayedPullSend(e)
    <3>1. UNCHANGED traced
      BY <2>2 DEF DoDelayedPullSend
    <3> QED
      BY <2>2, <3>1, InterestsPulled
  <2>3. CASE ProcessDataAfterDelay(e)
    <3>1. UNCHANGED traced
      BY <2>3 DEF ProcessDataAfterDelay
    <3> QED
      BY <2>3, <3>1, DataProcessed
  <2> QED
    BY <1>3, <2>1, <2>2, <2>3 DEF RunPacket
<1>4. ASSUME NEW e \in inFlight, RunLeg(e), NoPacket
      PROVE  UNCHANGED <<traced, promised>>
  BY <1>4 DEF NoPacket
<1>5. ASSUME NEW t \in timers, Due(t, EngineQueue), RunTimer(t), NoPacket
      PROVE  UNCHANGED <<traced, promised>> /\ t.at = now
  BY <1>5 DEF NoPacket, Due
<1>6. ASSUME Advance(EngineQueue), NoPacket,
             UNCHANGED <<controllerVars, temporaryFib, localVars, flowFib>>
      PROVE  UNCHANGED <<traced, promised>> /\ Tick
  BY <1>6, ClockRuns DEF NoPacket
<1>7. CASE EngineRun
  BY <1>3, <1>4, <1>5, <1>6, <1>7 DEF EngineRun
<1>8. CASE ~EngineRun
  BY <1>1, <1>2, <1>8 DEF EngineNext
<1> QED
  BY <1>7, <1>8

\* Nothing is sent, saved, recorded or installed in a step that leaves the control plane
\* alone.
LEMMA QuietActs ==
  ASSUME NEW n, Elsewhere \/ Tick \/ Lookup(n)
  PROVE  ActsOn(NoMessage)
<1>1. UNCHANGED <<inFlight, prefixState, local, flowFib>>
  BY DEF Elsewhere, Tick, Lookup, controllerVars, localVars
<1> QED
  BY <1>1 DEF ActsOn

\* As long as trace Data matches no other Interest than its trace Interest, admitted trace
\* Data takes the port of a record of that trace Interest.
LEMMA AdmittedFollows ==
  ASSUME EngineInv, TraceNamesAlone, NEW d \in DataName, NEW e, e.names = {d}, Admitted(e, d)
  PROVE  <<d, TracePort(e)>> \in traced
<1>1. JudgeNameIsTrace(d) /\ d \in Stored /\ TracePort(e) \in MatchPorts(d) /\ d \in Name
  BY DEF Admitted, Stored
<1>2. PICK n \in Stored : IsPrefixOf(n, d) /\ TracePort(e) \in {r.port : r \in pit[n].ingress}
  BY <1>1 DEF MatchPorts
<1>3. n \in Name
  BY DEF Stored
<1>4. n = d
  BY <1>1, <1>2, <1>3 DEF TraceNamesAlone
<1>5. \A r \in pit[d].ingress : <<d, r.port>> \in traced
  BY <1>1 DEF EngineInv, PitInv
<1> QED
  BY <1>2, <1>4, <1>5

\* Every copy of a message in the next state is followed: the message that the step acts on
\* is followed, and so is every copy of this state.
LEMMA CopiesFollowed ==
  ASSUME NEW m, ActsOn(m), traced \subseteq traced', \A x \in Copies : Followed(x),
         m = NoMessage \/ m \in Copies \/ Followed(m)
  PROVE  \A x \in Copies' :
            \E t \in traced' : /\ ExtractDataName(t[1]) = x.prefix
                               /\ TraceSequence(t[1]) = x.seq
                               /\ t[2] = x.port
<1> SUFFICES ASSUME NEW x \in Copies'
             PROVE  \E t \in traced' : /\ ExtractDataName(t[1]) = x.prefix
                                       /\ TraceSequence(t[1]) = x.seq
                                       /\ t[2] = x.port
  OBVIOUS
<1>1. x # NoMessage
  BY DEF Copies
<1>2. x \in Copies \/ x = m
  BY CopiesOfOne
<1>3. Followed(x)
  BY <1>1, <1>2
<1> QED
  BY <1>3, Zenon DEF Followed

\* Every route that any part of the control plane holds leads to a port where the trace
\* Interest of that prefix and generation was accepted (RouteFollowsTrace): for any names,
\* ports, lifetimes, losses and retries.
THEOREM RoutesFollowTraces == EngineSpec => []RouteFollowsTrace
<1>1. RouteFollowsTrace <=> (TraceNamesAlone => \A x \in Copies : Followed(x))
  BY Zenon DEF RouteFollowsTrace, Followed
<1>2. ASSUME EngineInit PROVE RouteFollowsTrace
  <2>1. ASSUME NEW x \in Copies PROVE FALSE
    <3>1. x # NoMessage
      BY DEF Copies
    <3>2. /\ inFlight = {} /\ \A p \in Prefix : local[p] = Idle
          /\ \A p \in Prefix : prefixState[p] = [accepted |-> NoMessage, applied |-> NoMessage]
          /\ \A k \in Key : flowFib[k] = NoMessage
      BY <1>2 DEF EngineInit, Init, LocalInit, ControllerInit
    <3>3. Idle.request.msg = NoMessage
      BY DEF Idle, NoRequest
    <3> QED
      BY <3>1, <3>2, <3>3, CopyPlaces
  <2> QED
    BY <1>1, <2>1
<1>3. ASSUME EngineInv, RouteFollowsTrace, EngineNext PROVE RouteFollowsTrace'
  <2> SUFFICES ASSUME TraceNamesAlone
               PROVE  \A x \in Copies' :
                        \E t \in traced' : /\ ExtractDataName(t[1]) = x.prefix
                                           /\ TraceSequence(t[1]) = x.seq
                                           /\ t[2] = x.port
    BY Zenon DEF RouteFollowsTrace, TraceNamesAlone
  <2>0. TypeOK /\ TimerInv /\ (\A x \in Copies : Followed(x)) /\ traced \subseteq traced'
    BY <1>1, <1>3, EngineKinds DEF EngineInv, Inv
  <2>1. \E m : ActsOn(m) /\ (m = NoMessage \/ m \in Copies \/ Followed(m))
    <3>1. ASSUME NEW e \in packetCalls, NEW d \in DataName, e.names = {d}, Admitted(e, d)
          PROVE  \E m : ActsOn(m) /\ Followed(m)
      <4>1. /\ ExtractDataName(d) \in Prefix /\ TraceSequence(d) \in Generation
            /\ TracePort(e) \in Port /\ pit[d].lifetime \in Nat
            /\ Update(ExtractDataName(d), TracePort(e), TraceSequence(d), pit[d].lifetime)
        BY <3>1 DEF Admitted
      <4>2. PICK m \in Message : /\ m.prefix = ExtractDataName(d) /\ m.seq = TraceSequence(d)
                                 /\ m.port = TracePort(e) /\ ActsOn(m)
        BY <2>0, <4>1, UpdateActs
      <4>3. <<d, TracePort(e)>> \in traced
        BY <1>3, <3>1, AdmittedFollows
      <4>4. Followed(m)
        BY <4>2, <4>3 DEF Followed
      <4> QED
        BY <4>2, <4>4
    <3>2. CASE Elsewhere \/ Tick \/ \E n \in Name : Lookup(n)
      BY <3>2, QuietActs
    <3>3. ASSUME NEW e \in inFlight, RunLeg(e)
          PROVE  ActsOn(e.msg) /\ (e.msg = NoMessage \/ e.msg \in Copies)
      BY <2>0, <3>3, LegActs, CopyPlaces
    <3>4. ASSUME NEW t \in timers, RunTimer(t)
          PROVE  \E m : ActsOn(m) /\ (m = NoMessage \/ m \in Copies)
      <4>1. t.prefix \in Prefix /\ ActsOn(local[t.prefix].request.msg)
        BY <2>0, <3>4, TimerActs
      <4>2. local[t.prefix].request.msg = NoMessage \/ local[t.prefix].request.msg \in Copies
        BY <4>1, CopyPlaces
      <4> QED
        BY <4>1, <4>2
    <3> QED
      BY <1>3, <3>1, <3>2, <3>3, <3>4, EngineKinds
  <2> QED
    BY <2>0, <2>1, CopiesFollowed
<1>4. ASSUME RouteFollowsTrace, UNCHANGED allVars PROVE RouteFollowsTrace'
  <2>1. UNCHANGED <<inFlight, local, prefixState, flowFib, traced>>
    BY <1>4 DEF allVars, vars, engineVars
  <2> QED
    BY <1>4, <2>1 DEF RouteFollowsTrace, Copies, TraceNamesAlone
<1>5. EngineInv /\ RouteFollowsTrace /\ [EngineNext]_allVars => RouteFollowsTrace'
  BY <1>3, <1>4
<1>6. EngineInit => RouteFollowsTrace
  BY <1>2
<1> QED
  BY <1>5, <1>6, EngineInvariance, PTL DEF EngineSpec
--------------------------------------------------------------------------------
(* The newest route steers the packets *)

\* No name lies under two prefixes: the temporary FIB looks for the longest prefix with a
\* live hop, so a shorter prefix could answer while the longer one has its route in the
\* flow table already.
NamesApart == \A n \in Name, p, q \in Prefix : IsPrefixOf(p, n) /\ IsPrefixOf(q, n) => p = q

\* A static entry or the entry of another prefix, if it matches a name under p at all, has
\* a lower priority than the entry of p.
Uncontested ==
    \A p \in Prefix, n \in Name : IsPrefixOf(p, n) =>
        \A h \in {e.hashes : e \in StaticFib} \cup {NameHashes(q) : q \in Prefix \ {p}} :
            (\A i \in 1..HashCount : h[i] \in {Padding, NameHashes(n)[i]})
                => FibPriority(h) < FibPriority(NameHashes(p))

\* The promised route of p is the newest one that was admitted.  It is the temporary route of
\* the pending transaction, or the route that was applied, until its lease is over.
Held(p) ==
    \/ Pending(p) /\ local[p].expiry = promised[p].expiry
         /\ \A h \in temporaryFib[p] : h.port = promised[p].port
    \/ ~Pending(p) /\ prefixState[p].applied = promised[p]
    \/ now >= promised[p].expiry
Steered(p) ==
    promised[p] # NoMessage =>
        /\ promised[p] \in Message /\ promised[p].prefix = p
        /\ promised[p].seq = highestSeen[p] /\ promised[p].expiry > 0
        /\ Held(p)
SteerInv == promised \in [Prefix -> Message \cup {NoMessage}] /\ \A p \in Prefix : Steered(p)

\* A prefix whose transaction, routes and promise a step leaves alone.
LEMMA SteeredKept ==
  ASSUME TypeOK, NEW p \in Prefix, Steered(p), promised'[p] = promised[p],
         highestSeen'[p] = highestSeen[p], now' = now \/ now' = now + 1,
         local'[p] = local[p], temporaryFib'[p] \subseteq temporaryFib[p],
         prefixState'[p].applied = prefixState[p].applied
  PROVE  Steered(p)'
<1>1. CASE promised[p] = NoMessage
  BY <1>1 DEF Steered
<1>2. CASE promised[p] # NoMessage
  <2>1. /\ promised[p] \in Message /\ promised[p].prefix = p
        /\ promised[p].seq = highestSeen[p] /\ promised[p].expiry > 0 /\ Held(p)
    BY <1>2 DEF Steered
  <2>2. now \in Nat /\ promised[p].expiry \in Nat
    BY <2>1, MessageFields DEF TypeOK
  <2>3. now >= promised[p].expiry => now' >= promised[p].expiry
    BY <2>2
  <2>4. Held(p)'
    BY <2>1, <2>3 DEF Held, Pending
  <2> QED
    BY <2>1, <2>4 DEF Steered
<1> QED
  BY <1>1, <1>2

\* Steps that touch neither transactions nor routes.
LEMMA QuietSteers ==
  ASSUME TypeOK, SteerInv, NEW n, Elsewhere \/ Tick \/ Lookup(n), UNCHANGED promised
  PROVE  SteerInv'
<1>1. /\ UNCHANGED <<highestSeen, local, prefixState>> /\ (now' = now \/ now' = now + 1)
      /\ \A p \in Prefix : temporaryFib'[p] \subseteq temporaryFib[p]
  BY DEF Elsewhere, Tick, Advance, Lookup, FindLongestPrefix, Live, controllerVars, localVars
<1>2. ASSUME NEW p \in Prefix PROVE Steered(p)'
  BY <1>1, SteeredKept DEF SteerInv
<1> QED
  BY <1>2 DEF SteerInv

\* The hop of a pending transaction is one of the decisions about its prefix.
LEMMA HopIsDecision ==
  ASSUME TypeOK, RouteInv, NEW p \in Prefix, NEW h \in temporaryFib[p], NEW m \in Decisions(p),
         m.seq = local[p].seq
  PROVE  m.port = h.port
<1> DEFINE n == [prefix |-> p, seq |-> local[p].seq, port |-> h.port, expiry |-> h.deadline]
<1>1. h.port \in Port /\ h.deadline \in Nat /\ m \in Message /\ m.prefix = p
  BY DEF TypeOK, TableTypeOK, Hop, Decisions
<1>2. m.seq \in Generation
  BY <1>1, MessageFields
<1>3. n \in Message /\ n.prefix = p /\ n.seq = m.seq /\ n.port = h.port
  BY <1>1, <1>2 DEF Message
<1>4. Known(p, n)
  BY DEF Known
<1> HIDE DEF n
<1>5. n \in Decisions(p)
  BY <1>3, <1>4 DEF Decisions
<1>6. n = m
  BY <1>3, <1>5 DEF RouteInv, DecisionInv
<1> QED
  BY <1>3, <1>6

\* A call of the flow-table controller installs nothing over the promised route, and gives
\* a temporary route up only for the promised one.
LEMMA LegSteers ==
  ASSUME Inv, GenerationGuard, SteerInv, NEW e \in inFlight, RunLeg(e), UNCHANGED promised
  PROVE  SteerInv'
<1>0. /\ TypeOK /\ TimerInv /\ RouteInv
      /\ local \in [Prefix -> Transaction] /\ temporaryFib \in [Prefix -> SUBSET Hop]
  BY DEF Inv, TypeOK, LocalTypeOK, TableTypeOK
<1>1. /\ e.msg \in Message /\ UNCHANGED <<now, highestSeen>> /\ Carries(e.msg)
      /\ AppliesNothing \/ Installs(e)
      /\ Keeps \/ Completed(e.msg)
  BY <1>0, LegStep
<1>2. e.msg.prefix \in Prefix /\ e.msg \in Decisions(e.msg.prefix) /\ e.msg.seq \in Nat
  BY <1>1, MessageFields DEF Carries
<1>3. ASSUME NEW p \in Prefix PROVE Steered(p)'
  <2>0. Steered(p) /\ promised'[p] = promised[p]
    BY DEF SteerInv
  <2>1. CASE p # e.msg.prefix
    <3>1. prefixState'[p].applied = prefixState[p].applied
      BY <1>1, <2>1 DEF AppliesNothing, Installs
    <3>2. local'[p] = local[p] /\ temporaryFib'[p] = temporaryFib[p]
      BY <1>0, <1>1, <2>1 DEF Keeps, Completed, Closes
    <3> QED
      BY <1>0, <1>1, <2>0, <3>1, <3>2, SteeredKept
  <2>2. CASE promised[p] = NoMessage
    BY <2>0, <2>2 DEF Steered
  <2>3. CASE p = e.msg.prefix /\ promised[p] # NoMessage
    <3>0. /\ promised[p] \in Message /\ promised[p].prefix = p
          /\ promised[p].seq = highestSeen[p] /\ promised[p].expiry > 0 /\ Held(p)
      BY <2>0, <2>3 DEF Steered
    <3>1. /\ promised[p].expiry \in Nat /\ promised[p].seq \in Nat /\ now \in Nat
      BY <1>0, <3>0, MessageFields DEF TypeOK
    <3>2. e.msg.seq <= highestSeen[p]
      BY <1>0, <1>2, <2>3 DEF RouteInv, DecisionInv
    <3>3. CASE Keeps
      <4>1. local'[p] = local[p] /\ temporaryFib'[p] = temporaryFib[p]
        BY <3>3 DEF Keeps
      <4>2. CASE AppliesNothing
        BY <1>0, <1>1, <2>0, <4>1, <4>2, SteeredKept DEF AppliesNothing
      <4>3. CASE Installs(e)
        <5>1. prefixState[p].applied # promised[p]
          <6>1. prefixState[p].applied.seq < e.msg.seq
            BY <2>3, <4>3 DEF Installs
          <6> QED
            BY <1>2, <3>0, <3>1, <3>2, <6>1
        <5>2. Held(p)'
          BY <1>1, <3>0, <4>1, <5>1, <2>0 DEF Held, Pending
        <5> QED
          BY <1>1, <2>0, <3>0, <5>2 DEF Steered
      <4> QED
        BY <1>1, <4>2, <4>3
    <3>4. CASE Completed(e.msg)
      <4>1. /\ Pending(p) /\ local[p].seq = e.msg.seq /\ e.msg.expiry = local[p].expiry
            /\ local[p].expiry = NoLease \/ now < local[p].expiry
        BY <2>3, <3>4 DEF Completed, Completes, Pending
      <4>2. ~Pending(p)' /\ prefixState'[p].applied = e.msg
        BY <1>0, <2>3, <3>4 DEF Completed, Closes, Pending, Idle
      <4>3. CASE now >= promised[p].expiry
        <5>1. Held(p)'
          BY <1>1, <2>0, <4>3 DEF Held
        <5> QED
          BY <1>1, <2>0, <3>0, <5>1 DEF Steered
      <4>4. CASE ~(now >= promised[p].expiry)
        <5>1. /\ local[p].expiry = promised[p].expiry
              /\ \A h \in temporaryFib[p] : h.port = promised[p].port
          BY <3>0, <4>1, <4>4 DEF Held
        <5>2. ~LeaseOver(local[p])
          BY <4>4, <5>1 DEF LeaseOver
        <5>3. PICK h \in temporaryFib[p] : TRUE
          BY <4>1, <5>2 DEF Inv, RouteOf
        <5>4. e.msg.port = h.port
          BY <1>0, <1>2, <2>3, <4>1, HopIsDecision
        <5>5. e.msg.seq = promised[p].seq
          BY <1>0, <3>0, <4>1 DEF RouteInv, DecisionInv
        <5>6. e.msg = promised[p]
          <6>1. e.msg.port = promised[p].port /\ e.msg.expiry = promised[p].expiry
            BY <4>1, <5>1, <5>3, <5>4
          <6> QED
            BY <1>1, <2>3, <3>0, <5>5, <6>1 DEF Message
        <5>7. Held(p)'
          BY <2>0, <4>2, <5>6 DEF Held
        <5> QED
          BY <1>1, <2>0, <3>0, <5>7 DEF Steered
      <4> QED
        BY <4>3, <4>4
    <3> QED
      BY <1>1, <3>3, <3>4
  <2> QED
    BY <2>1, <2>2, <2>3
<1> QED
  BY <1>3 DEF SteerInv

\* Without retries the only timer is that of a lease, and it ends the promise.
LEMMA TimerSteers ==
  ASSUME Inv, GenerationGuard, RetryTimeout = 0, SteerInv,
         NEW t \in timers, t.at = now, RunTimer(t), UNCHANGED promised
  PROVE  SteerInv'
<1>0. /\ TypeOK /\ TimerInv
      /\ local \in [Prefix -> Transaction] /\ temporaryFib \in [Prefix -> SUBSET Hop]
  BY DEF Inv, TypeOK, LocalTypeOK, TableTypeOK
<1>1. RunExpiry(t)
  <2>1. t.call # "onControllerRetryTimeout"
    BY <1>0 DEF TimerInv, Owned
  <2> QED
    BY <2>1 DEF RunTimer, RunRetry, RunGiveUp
<1>2. /\ t.prefix \in Prefix /\ Closes(t.prefix) /\ Pending(t.prefix)
      /\ t.at = local[t.prefix].expiry
      /\ UNCHANGED <<controllerVars, highestSeen, flowFib>>
  BY <1>0, <1>1, ExpiryEffect
<1>3. UNCHANGED <<now, prefixState, highestSeen>>
  BY <1>2 DEF Closes, controllerVars
<1>4. ASSUME NEW p \in Prefix PROVE Steered(p)'
  <2>0. Steered(p) /\ promised'[p] = promised[p]
    BY DEF SteerInv
  <2>1. CASE p # t.prefix
    <3>1. local'[p] = local[p] /\ temporaryFib'[p] = temporaryFib[p]
      BY <1>0, <1>2, <2>1 DEF Closes
    <3> QED
      BY <1>0, <1>3, <2>0, <3>1, SteeredKept
  <2>2. CASE promised[p] = NoMessage
    BY <2>0, <2>2 DEF Steered
  <2>3. CASE p = t.prefix /\ promised[p] # NoMessage
    <3>0. /\ promised[p] \in Message /\ promised[p].prefix = p
          /\ promised[p].seq = highestSeen[p] /\ promised[p].expiry > 0 /\ Held(p)
      BY <2>0, <2>3 DEF Steered
    <3>1. promised[p].expiry \in Nat /\ now \in Nat
      BY <1>0, <3>0, MessageFields DEF TypeOK
    <3>2. local[p].expiry = promised[p].expiry \/ now >= promised[p].expiry
      BY <1>2, <2>3, <3>0 DEF Held
    <3>3. now >= promised[p].expiry
      BY <1>2, <2>3, <3>1, <3>2
    <3>4. Held(p)'
      BY <1>3, <2>0, <3>3 DEF Held
    <3> QED
      BY <1>3, <2>0, <3>0, <3>4 DEF Steered
  <2> QED
    BY <2>1, <2>2, <2>3
<1> QED
  BY <1>4 DEF SteerInv

\* Admitted trace Data: the promise is the route that is put in place.
LEMMA AdmittedSteers ==
  ASSUME Inv, GenerationGuard, SteerInv, NEW e, NEW d, Admitted(e, d)
  PROVE  SteerInv'
<1>0. /\ TypeOK /\ TimerInv /\ RouteInv /\ local \in [Prefix -> Transaction]
      /\ temporaryFib \in [Prefix -> SUBSET Hop] /\ now \in Nat
      /\ highestSeen \in [Prefix -> Generation \cup {NoSeq}]
      /\ promised \in [Prefix -> Message \cup {NoMessage}]
  BY DEF Inv, TypeOK, LocalTypeOK, TableTypeOK, SteerInv
<1> DEFINE q == ExtractDataName(d)
           ttl == pit[d].lifetime
<1>1. /\ q \in Prefix /\ TraceSequence(d) \in Generation /\ TracePort(e) \in Port
      /\ ttl \in Nat /\ ttl > 0
      /\ Update(q, TracePort(e), TraceSequence(d), ttl)
      /\ promised' = [promised EXCEPT ![q] = Promise(e, d)]
  BY DEF Admitted
<1>2. Promise(e, d) = [prefix |-> q, seq |-> TraceSequence(d), port |-> TracePort(e),
                       expiry |-> now + ttl]
  BY DEF Promise
<1> HIDE DEF q, ttl
<1>3. PICK m \in Message : IsUpdate(m, q, TracePort(e), TraceSequence(d), ttl) /\ Admits(m)
  BY <1>0, <1>1, UpdateStep
<1>4. m = Promise(e, d)
  <2>1. RouteExpiry(ttl) = now + ttl
    BY <1>0, <1>1 DEF RouteExpiry, Lifetime
  <2> QED
    BY <1>2, <1>3, <2>1 DEF IsUpdate
<1>5. m.prefix = q /\ m.seq \in Nat /\ m.expiry = now + ttl /\ m.seq # -1 /\ m # NoMessage
  BY <1>2, <1>4, MessageFields
<1>6. m.expiry > 0
  BY <1>0, <1>1, <1>5
<1>7. /\ local' = [local EXCEPT ![q] = NewTransaction(m)]
      /\ temporaryFib' = [temporaryFib EXCEPT ![q] = ReplaceHop(m)]
      /\ UNCHANGED now /\ highestSeen' = [highestSeen EXCEPT ![q] = m.seq]
      /\ promised' = [promised EXCEPT ![q] = m]
      /\ \A p \in Prefix : prefixState'[p].applied = prefixState[p].applied
  BY <1>1, <1>3, <1>4, <1>5 DEF Admits, Opens
<1>8. \A h \in ReplaceHop(m) : h.port = m.port
  <2>1. local[q].seq = NoSeq => temporaryFib[q] = {}
    BY <1>1 DEF Inv, RouteOf, Pending
  <2>2. ReplaceHop(m) = InsertHop({}, m.port, m.expiry)
    BY <1>5, <2>1 DEF ReplaceHop
  <2>3. Live({}) = {}
    BY DEF Live
  <2>4. InsertHop({}, m.port, m.expiry) = {[port |-> m.port, deadline |-> m.expiry]}
    BY <2>3 DEF InsertHop
  <2> QED
    BY <2>2, <2>4
<1>9. ASSUME NEW p \in Prefix PROVE Steered(p)'
  <2>1. CASE p # q
    <3>1. /\ local'[p] = local[p] /\ temporaryFib'[p] = temporaryFib[p]
          /\ highestSeen'[p] = highestSeen[p] /\ promised'[p] = promised[p]
      BY <1>0, <1>7, <2>1
    <3> QED
      BY <1>0, <1>7, <3>1, SteeredKept DEF SteerInv
  <2>2. CASE p = q
    <3>1. /\ local'[p] = NewTransaction(m) /\ temporaryFib'[p] = ReplaceHop(m)
          /\ highestSeen'[p] = m.seq /\ promised'[p] = m
      BY <1>0, <1>1, <1>7, <2>2
    <3>2. local'[p].seq = m.seq /\ local'[p].expiry = m.expiry
      BY <3>1 DEF NewTransaction
    <3>3. Pending(p)'
      BY <1>5, <3>2 DEF Pending, NoSeq
    <3>4. Held(p)'
      BY <1>8, <3>1, <3>2, <3>3 DEF Held
    <3> QED
      BY <1>5, <1>6, <2>2, <3>1, <3>4 DEF Steered
  <2> QED
    BY <2>1, <2>2
<1>10. promised' \in [Prefix -> Message \cup {NoMessage}]
  BY <1>0, <1>1, <1>7
<1> QED
  BY <1>9, <1>10 DEF SteerInv

\* The promise is kept by every step.
LEMMA SteerStep ==
  ASSUME EngineInv, GenerationGuard, RetryTimeout = 0, SteerInv, EngineNext
  PROVE  SteerInv'
<1>0. Inv /\ TypeOK
  BY DEF EngineInv, Inv
<1> QED
  BY <1>0, EngineKinds, AdmittedSteers, QuietSteers, LegSteers, TimerSteers

\* A prefix matches as its hashes do.
LEMMA PrefixMatches ==
  ASSUME NEW p \in Prefix, NEW n \in Name, IsPrefixOf(p, n)
  PROVE  \A i \in 1..HashCount : NameHashes(p)[i] \in {Padding, NameHashes(n)[i]}
<1>1. p \in Seq(DOMAIN Hash) /\ n \in Seq(DOMAIN Hash)
  BY HashAssumption, EngineAssumption
<1>2. Len(p) \in Nat /\ Len(n) \in Nat /\ Len(p) <= Len(n) /\ SubSeq(n, 1, Len(p)) = p
  BY <1>1 DEF IsPrefixOf
<1>3. ASSUME NEW i \in 1..4, i <= Len(p) PROVE i <= Len(n) /\ p[i] = n[i]
  <2>1. i \in 1..Len(p) /\ i <= Len(n)
    BY <1>2, <1>3
  <2>2. SubSeq(n, 1, Len(p))[i] = n[i]
    BY <1>1, <1>2, <2>1
  <2> QED
    BY <1>2, <2>1, <2>2
<1> QED
  BY <1>3 DEF NameHashes, HashCount

\* Priorities are numbers.
LEMMA PriorityNat ==
  ASSUME NEW h
  PROVE  FibPriority(h) \in Nat
<1> DEFINE S == {i \in 1..HashCount : h[i] # Padding}
<1>1. IsFiniteSet(1..HashCount)
  <2>1. \A k \in Int : IsFiniteSet(1..k)
    BY FS_Interval
  <2>2. HashCount \in Int
    BY DEF HashCount
  <2> QED
    BY <2>1, <2>2, Zenon
<1>2. IsFiniteSet(S)
  BY <1>1, FS_Subset
<1>3. Cardinality(S) \in Nat
  BY <1>2, FS_CardinalityType
<1>4. FibPriority(h) = 2000 + 1000 * Cardinality(S)
  BY DEF FibPriority
<1> HIDE DEF S
<1> QED
  BY <1>3, <1>4

\* A name under p is looked up in the temporary FIB under p alone.
LEMMA OneVisited ==
  ASSUME NamesApart, NEW p \in Prefix, NEW n \in Name, IsPrefixOf(p, n)
  PROVE  LongestPrefixHops(n) = Live(temporaryFib[p])
<1>1. \A q \in Prefix : IsPrefixOf(q, n) => q = p
  BY DEF NamesApart
<1>2. Len(p) \in Nat
  <2>1. p \in Seq(DOMAIN Hash)
    BY HashAssumption
  <2> QED
    BY <2>1
<1>3. Visited(n) = {p}
  BY <1>1, <1>2 DEF Visited
<1> QED
  BY <1>3, Zenon DEF LongestPrefixHops

\* The route of p in the flow table answers alone for the names under p.
LEMMA AppliedAnswers ==
  ASSUME TypeOK, OwnMatch, Uncontested, NEW p \in Prefix, NEW n \in Name, IsPrefixOf(p, n),
         flowFib[FlowKey[p]] # NoMessage, now < flowFib[FlowKey[p]].expiry
  PROVE  FibLookup(FlowEntries, NameHashes(n)) = {flowFib[FlowKey[p]].port}
<1> DEFINE x == [hashes |-> FlowKey[p], port |-> flowFib[FlowKey[p]].port,
                 expiry |-> flowFib[FlowKey[p]].expiry]
           F == FlowEntries
           N == NameHashes(n)
<1>0. /\ FlowKey[p] = NameHashes(p) /\ FlowKey[p] \in Key
      /\ \A q \in Prefix : FlowKey[q] = NameHashes(q)
  BY EngineAssumption DEF Key
<1>1. x \in F /\ x.hashes = NameHashes(p) /\ x.port = flowFib[FlowKey[p]].port
  BY <1>0 DEF FlowEntries
<1>2. EntryMatches(x, N)
  BY <1>0, PrefixMatches DEF EntryMatches
<1>3. ASSUME NEW f \in F, EntryMatches(f, N), f # x
      PROVE  FibPriority(f.hashes) < FibPriority(NameHashes(p))
  <2>1. f.hashes \in {e.hashes : e \in StaticFib} \cup {NameHashes(q) : q \in Prefix \ {p}}
    <3>1. CASE f \in StaticFib
      BY <3>1
    <3>2. ASSUME NEW k \in Key,
                 f = [hashes |-> k, port |-> flowFib[k].port, expiry |-> flowFib[k].expiry]
          PROVE  f.hashes \in {NameHashes(q) : q \in Prefix \ {p}}
      <4>1. PICK q \in Prefix : k = FlowKey[q]
        BY DEF Key
      <4>2. q # p
        BY <1>3, <3>2, <4>1
      <4> QED
        BY <1>0, <3>2, <4>1, <4>2
    <3> QED
      BY <3>1, <3>2 DEF FlowEntries
  <2>2. \A i \in 1..HashCount : f.hashes[i] \in {Padding, NameHashes(n)[i]}
    BY <1>3 DEF EntryMatches
  <2> QED
    BY <2>1, <2>2, Zenon DEF Uncontested
<1> HIDE DEF F, N, x
<1>4. \A f \in F : EntryMatches(f, N) => FibPriority(f.hashes) <= FibPriority(x.hashes)
  BY <1>1, <1>3, PriorityNat
<1>5. ASSUME NEW f \in F, EntryMatches(f, N),
             \A g \in F : EntryMatches(g, N) => FibPriority(g.hashes) <= FibPriority(f.hashes)
      PROVE  f = x
  BY <1>1, <1>2, <1>3, <1>5, PriorityNat
<1>6. {f \in F : EntryMatches(f, N)
                   /\ \A g \in F : EntryMatches(g, N)
                         => FibPriority(g.hashes) <= FibPriority(f.hashes)} = {x}
  BY <1>1, <1>2, <1>4, <1>5, Zenon
<1>7. FibLookup(F, N) = {f.port : f \in {x}}
  BY <1>6, Zenon DEF FibLookup
<1> QED
  BY <1>1, <1>7 DEF F, N

\* In a state that keeps its promises the lookup yields the promised port.
LEMMA PromiseSteers ==
  ASSUME EngineInv, GenerationGuard, OwnMatch, NamesApart, Uncontested, EnableTemporaryFib,
         SteerInv, NEW p \in Prefix, NEW n \in Name,
         Promised(p), promised[p].port \in BitmapPorts, IsPrefixOf(p, n)
  PROVE  LookupPorts(n) = {promised[p].port}
<1>0. TypeOK /\ RouteInv /\ RouteOf(p) /\ now \in Nat
  BY DEF EngineInv, Inv, TypeOK
<1>1. /\ promised[p] # NoMessage /\ now < promised[p].expiry
      /\ promised[p] \in Message /\ promised[p].expiry > 0 /\ Held(p)
  BY DEF Promised, SteerInv, Steered
<1>2. promised[p].expiry \in Nat
  BY <1>1, MessageFields
<1>3. ~(now >= promised[p].expiry)
  BY <1>0, <1>1, <1>2
<1>4. TemporaryPorts(n) = {h.port : h \in Live(temporaryFib[p])}
  BY OneVisited DEF TemporaryPorts
<1>5. CASE Pending(p)
  <2>1. local[p].expiry = promised[p].expiry /\ \A h \in temporaryFib[p] : h.port = promised[p].port
    BY <1>1, <1>3, <1>5 DEF Held
  <2>2. ~LeaseOver(local[p])
    BY <1>3, <2>1 DEF LeaseOver
  <2>3. PICK h \in temporaryFib[p] : temporaryFib[p] = {h} /\ h.deadline = local[p].expiry
    BY <1>0, <1>5, <2>2 DEF RouteOf
  <2>4. Live(temporaryFib[p]) = {h} /\ h.port = promised[p].port
    BY <1>1, <2>1, <2>3 DEF Live
  <2>5. TemporaryPorts(n) = {promised[p].port}
    BY <1>4, <2>4
  <2>6. EncodeOutPortsMask(TemporaryPorts(n)) = {promised[p].port}
    BY <2>5 DEF EncodeOutPortsMask
  <2> QED
    BY <2>6, PipelinePorts DEF LookupPorts
<1>6. CASE ~Pending(p)
  <2>1. prefixState[p].applied = promised[p]
    BY <1>1, <1>3, <1>6 DEF Held
  <2>2. flowFib[FlowKey[p]] = promised[p]
    BY <1>0, <2>1 DEF RouteInv, FibInv
  <2>3. temporaryFib[p] = {}
    BY <1>0, <1>6 DEF RouteOf
  <2>4. TemporaryPorts(n) = {}
    BY <1>4, <2>3 DEF Live
  <2>5. EncodeOutPortsMask(TemporaryPorts(n)) = {}
    BY <2>4 DEF EncodeOutPortsMask
  <2>6. FibLookup(FlowEntries, NameHashes(n)) = {promised[p].port}
    BY <1>0, <1>1, <2>2, AppliedAnswers
  <2> QED
    BY <2>5, <2>6, PipelinePorts DEF LookupPorts
<1> QED
  BY <1>5, <1>6

\* The promises are kept in every behaviour, when there are no retries that could run out.
LEMMA SteerInvariance ==
  ASSUME GenerationGuard, RetryTimeout = 0 PROVE EngineSpec => []SteerInv
<1>1. EngineInit => SteerInv
  BY DEF EngineInit, SteerInv, Steered
<1>2. EngineInv /\ SteerInv /\ [EngineNext]_allVars => SteerInv'
  <2>1. ASSUME SteerInv, UNCHANGED allVars PROVE SteerInv'
    <3>1. UNCHANGED <<now, promised, highestSeen, local, temporaryFib, prefixState>>
      BY <2>1 DEF allVars, vars, engineVars
    <3> QED
      BY <2>1, <3>1 DEF SteerInv, Steered, Held, Pending
  <2> QED
    BY <2>1, SteerStep
<1> QED
  BY <1>1, <1>2, EngineInvariance, PTL DEF EngineSpec

\* From the admission of an update to the end of its lease every lookup yields the port of
\* the newest update, whatever the control plane does meanwhile (NewestSteers): for any
\* names, ports, lifetimes, delays and losses, with the guard, when prefixes have matches of
\* their own, do not contain one another's names and are not outranked in the flow table.
THEOREM NewestUpdateSteers ==
  ASSUME GenerationGuard, OwnMatch, NamesApart, Uncontested
  PROVE  EngineSpec => []NewestSteers
<1> DEFINE Steers == EnableTemporaryFib /\ RetryTimeout = 0 =>
             \A p \in Prefix, n \in Name :
                 Promised(p) /\ promised[p].port \in BitmapPorts /\ IsPrefixOf(p, n)
                     => LookupPorts(n) = {promised[p].port}
<1>1. EngineInv => EngineTypeOK
  BY DEF EngineInv, Inv, PitInv, CallInv, DeviceInv, EngineTypeOK, PitTypeOK, CsTypeOK
<1>2. CASE RetryTimeout = 0
  <2>1. EngineInv /\ SteerInv => Steers
    BY PromiseSteers
  <2>2. EngineSpec => []SteerInv
    BY <1>2, SteerInvariance
  <2>3. EngineInv /\ SteerInv => NewestSteers
    BY <1>1, <2>1 DEF NewestSteers
  <2> QED
    BY <2>2, <2>3, EngineInvariance, PTL
<1>3. CASE RetryTimeout # 0
  <2>1. EngineInv => NewestSteers
    BY <1>1, <1>3 DEF NewestSteers
  <2> QED
    BY <2>1, EngineInvariance, PTL
<1> QED
  BY <1>2, <1>3
--------------------------------------------------------------------------------
(* No pending Interest is left behind *)

\* As long as its name is pending, an Interest that waits for its lookup has its record, or a
\* later Interest for the name waits too: a lapsed record is removed, and a consumed entry
\* comes back, only when another Interest is accepted.
Later(e, f, n) ==
    /\ f.call = "processInterestAfterDelay" /\ n \in f.names
    /\ f.uid > e.uid /\ f.at >= e.at
Recorded(e, n) ==
    \/ \E r \in pit[n].ingress : r.port = e.port
    \/ \E f \in packetCalls : Later(e, f, n)
QueuedInv ==
    \A e \in packetCalls : e.call = "processInterestAfterDelay" =>
        \A n \in e.names : n \in Stored => Recorded(e, n)

\* A call that will send the Interest of n to the port, or look its name up.
Serves(e, n, port) ==
    n \in e.names /\ \/ e.call = "processInterestAfterDelay"
                     \/ e.call = "doDelayedPullSend" /\ e.port = port
Served(n, port) ==
    \/ port \in reached[n]
    \/ \E e \in packetCalls : Serves(e, n, port)
    \/ \E r \in pit[n].ingress : r.port = port
ReachInv ==
    \A p \in Prefix : Promised(p) /\ promised[p].port \in BitmapPorts /\ WithinLimit(p) =>
        \A n \in {m \in Stored : IsPrefixOf(p, m)} : Served(n, promised[p].port)

\* An accepted Interest, when nothing is cached: its call waits and its record is there.
LEMMA InterestWaits ==
  ASSUME EngineInv, CsCapacity = 0, NEW n \in Name, NEW nonce \in Nonce,
         NEW lifetime \in InterestLifetime, NEW port \in InterestFrom[n],
         ReceiveInterest(n, nonce, port, lifetime)
  PROVE  /\ UNCHANGED <<now, promised>>
         /\ \/ UNCHANGED <<pit, packetCalls>>
            \/ \E c : /\ c.call = "processInterestAfterDelay" /\ c.names = {n} /\ c.port = port
                      /\ c.uid = nextUid /\ c.at = now + StatefulDelay
                      /\ packetCalls' = packetCalls \cup {c}
                      /\ \E r \in pit'[n].ingress : r.port = port
                      /\ \A m \in Name : m # n => pit'[m] = pit[m]
<1>0. PitInv /\ now \in Nat /\ cs = {} /\ pit \in [Name -> PitEntry \cup {NoEntry}]
  BY EngineState DEF PitInv
<1>1. UNCHANGED <<now, promised>>
  BY DEF ReceiveInterest
<1>2. CASE Duplicate(n, nonce)
  BY <1>1, <1>2 DEF ReceiveInterest
<1>3. CASE ~Duplicate(n, nonce)
  <2> DEFINE c == Call(PacketUid, StatefulDelay, "processInterestAfterDelay", {n}, port)
             record == [port |-> port, until |-> now + lifetime]
  <2>1. InsertInterest(n, nonce, port, lifetime) /\ packetCalls' = packetCalls \cup {c}
    BY <1>0, <1>3 DEF ReceiveInterest
  <2>2. /\ c.call = "processInterestAfterDelay" /\ c.names = {n} /\ c.port = port
        /\ c.uid = nextUid /\ c.at = now + StatefulDelay
    BY DEF Call, PacketUid
  <2>3. port \in Port
    BY EngineAssumption
  <2>4. PICK entry \in PitEntry : /\ pit' = [pit EXCEPT ![n] = entry]
                                  /\ entry.ingress = LiveIngress(pit[n].ingress) \cup {record}
    BY <1>0, <2>1, <2>3, InsertEffect
  <2>5. record \in pit'[n].ingress /\ record.port = port
    BY <1>0, <2>4
  <2>6. \A m \in Name : m # n => pit'[m] = pit[m]
    BY <1>0, <2>4
  <2> HIDE DEF c, record
  <2> QED
    BY <1>1, <2>1, <2>2, <2>5, <2>6
<1> QED
  BY <1>2, <1>3

\* The steps that accept no Interest: entries stay as they are or go, and no call that
\* looks a name up is added; the one that leaves was the next to run.
Consumes ==
    /\ \A n \in Name : pit'[n] = pit[n] \/ pit'[n] = NoEntry
    /\ \A f \in packetCalls' : f \in packetCalls \/ f.call # "processInterestAfterDelay"
    /\ \A e, f \in packetCalls :
          e \in packetCalls' /\ f \notin packetCalls'
             /\ f.call = "processInterestAfterDelay" /\ e.at = now => f.uid <= e.uid
    /\ \A f \in packetCalls : f \notin packetCalls'
             /\ f.call = "processInterestAfterDelay" => f.at = now

\* An entry is kept, or it is consumed.
LEMMA TakenEntries ==
  ASSUME NEW d, TakeDataMatchPorts(d)
  PROVE  \A n \in Name : pit'[n] = pit[n] \/ pit'[n] = NoEntry
BY DEF TakeDataMatchPorts

\* Which steps they are.
LEMMA StepsConsume ==
  ASSUME EngineInv, EngineNext
  PROVE  \/ \E n \in Name, nonce \in Nonce, lifetime \in InterestLifetime :
               \E port \in InterestFrom[n] : ReceiveInterest(n, nonce, port, lifetime)
         \/ Consumes
<1>1. ASSUME NEW d \in DataName, NEW port \in DataFrom[d], ReceiveData(d, port)
      PROVE  Consumes
  <2> DEFINE c == Call(PacketUid, StatefulDelay, "processDataAfterDelay", {d}, port)
  <2>1. UNCHANGED pit /\ packetCalls' = packetCalls \cup {c}
    BY <1>1 DEF ReceiveData
  <2>2. c.call = "processDataAfterDelay"
    BY DEF Call
  <2> HIDE DEF c
  <2> QED
    BY <2>1, <2>2 DEF Consumes
<1>2. ASSUME NoPacket PROVE Consumes
  BY <1>2 DEF NoPacket, Consumes
<1>3. ASSUME NEW e \in packetCalls, Due(e, EngineQueue), RunPacket(e) PROVE Consumes
  <2>1. e.at = now /\ \A f \in packetCalls : f.at = now => e.uid <= f.uid
    BY <1>3 DEF Due, EngineQueue
  <2>2. /\ \A n \in Name : pit'[n] = pit[n] \/ pit'[n] = NoEntry
        /\ packetCalls \ {e} \subseteq packetCalls'
        /\ \A f \in packetCalls' : f \in packetCalls \/ f.call # "processInterestAfterDelay"
    <3>1. CASE ProcessInterestAfterDelay(e)
      BY <3>1 DEF ProcessInterestAfterDelay
    <3>2. CASE DoDelayedPullSend(e)
      BY <3>2 DEF DoDelayedPullSend
    <3>3. CASE ProcessDataAfterDelay(e)
      <4>1. PICK d \in DataName :
               /\ TakeDataMatchPorts(d)
               /\ packetCalls' = packetCalls \ {e} \/ Admitted(e, d)
        BY <3>3, DataProcessed
      <4>2. CASE packetCalls' = packetCalls \ {e}
        BY <4>1, <4>2, TakenEntries
      <4>3. CASE Admitted(e, d)
        <5>1. PICK names : packetCalls' = (packetCalls \ {e}) \cup
                  (IF names = {} THEN {}
                   ELSE {Call(PullUid, 0, "doDelayedPullSend", names, TracePort(e))})
          BY <4>3 DEF Admitted
        <5>2. Call(PullUid, 0, "doDelayedPullSend", names, TracePort(e)).call = "doDelayedPullSend"
          BY DEF Call
        <5> QED
          BY <4>1, <5>1, <5>2, TakenEntries
      <4> QED
        BY <4>1, <4>2, <4>3
    <3> QED
      BY <1>3, <3>1, <3>2, <3>3 DEF RunPacket
  <2>3. \A f \in packetCalls : f \notin packetCalls' => f = e
    BY <2>2
  <2> QED
    BY <2>1, <2>2, <2>3 DEF Consumes
<1> QED
  BY <1>1, <1>2, <1>3 DEF EngineNext, EngineRun

\* Interests that wait keep their records, or have later ones beside them.
LEMMA QueuedStep ==
  ASSUME EngineInv, CsCapacity = 0, QueuedInv, EngineNext
  PROVE  QueuedInv'
<1>0. /\ CallInv /\ now \in Nat /\ nextUid \in Nat /\ StatefulDelay \in Nat
      /\ packetCalls \subseteq PacketCall
      /\ \A e \in packetCalls : e.uid \in Nat /\ e.at \in Nat /\ e.uid < nextUid /\ e.at >= now
      /\ \A e \in packetCalls : e.call = "processInterestAfterDelay" =>
            e.at <= now + StatefulDelay /\ \E n \in Name : e.names = {n}
  <2>1. CallInv /\ now \in Nat /\ nextUid \in Nat /\ packetCalls \subseteq PacketCall
    BY EngineState DEF CallInv
  <2>2. \A e \in packetCalls : e.uid \in Nat /\ e.at \in Nat
    BY <2>1 DEF PacketCall
  <2> QED
    BY <2>1, <2>2, EngineAssumption DEF CallInv
<1>1. ASSUME NEW n \in Name, NEW nonce \in Nonce, NEW lifetime \in InterestLifetime,
             NEW port \in InterestFrom[n], ReceiveInterest(n, nonce, port, lifetime),
             NEW e \in packetCalls', e.call = "processInterestAfterDelay",
             NEW m \in e.names, pit'[m] # NoEntry, m \in Name
      PROVE  Recorded(e, m)'
  <2>1. CASE UNCHANGED <<pit, packetCalls>>
    BY <1>1, <2>1 DEF QueuedInv, Recorded, Stored
  <2>2. ASSUME NEW c, c.call = "processInterestAfterDelay", c.names = {n}, c.port = port,
               c.uid = nextUid, c.at = now + StatefulDelay,
               packetCalls' = packetCalls \cup {c},
               \E r \in pit'[n].ingress : r.port = port,
               \A k \in Name : k # n => pit'[k] = pit[k]
        PROVE  Recorded(e, m)'
    <3>1. CASE e = c
      BY <1>1, <2>2, <3>1 DEF Recorded
    <3>2. CASE e \in packetCalls /\ m = n
      <4>1. c.uid > e.uid /\ c.at >= e.at
        BY <1>0, <1>1, <2>2, <3>2
      <4> QED
        BY <2>2, <3>2, <4>1 DEF Recorded, Later
    <3>3. CASE e \in packetCalls /\ m # n
      <4>1. pit'[m] = pit[m] /\ m \in Stored
        BY <1>1, <2>2, <3>3 DEF Stored
      <4>2. Recorded(e, m)
        BY <1>1, <3>3, <4>1 DEF QueuedInv
      <4> QED
        BY <2>2, <4>1, <4>2 DEF Recorded, Later
    <3> QED
      BY <1>1, <2>2, <3>1, <3>2, <3>3
  <2> QED
    BY <1>1, <2>1, <2>2, InterestWaits
<1>2. ASSUME Consumes, NEW e \in packetCalls', e.call = "processInterestAfterDelay",
             NEW m \in e.names, pit'[m] # NoEntry, m \in Name
      PROVE  Recorded(e, m)'
  <2>1. e \in packetCalls /\ pit'[m] = pit[m] /\ m \in Stored
    BY <1>2 DEF Consumes, Stored
  <2>2. Recorded(e, m)
    BY <1>2, <2>1 DEF QueuedInv
  <2>3. ASSUME NEW f \in packetCalls, Later(e, f, m) PROVE f \in packetCalls'
    <3> SUFFICES ASSUME f \notin packetCalls' PROVE FALSE
      OBVIOUS
    <3>1. f.at = now /\ (e.at = now => f.uid <= e.uid)
      BY <1>2, <2>1, <2>3 DEF Consumes, Later
    <3>2. f.uid > e.uid /\ f.at >= e.at
      BY <2>3 DEF Later
    <3>3. e.at = now
      BY <1>0, <2>1, <3>1, <3>2
    <3> QED
      BY <1>0, <2>1, <3>1, <3>2, <3>3
  <2> QED
    BY <2>1, <2>2, <2>3 DEF Recorded, Later
<1>3. ASSUME NEW e \in packetCalls', e.call = "processInterestAfterDelay",
             NEW m \in e.names, pit'[m] # NoEntry, m \in Name
      PROVE  Recorded(e, m)'
  BY <1>1, <1>2, <1>3, StepsConsume
<1> QED
  BY <1>3 DEF QueuedInv, Stored

\* An Interest that stays pending stays served, as long as the calls that serve it wait.
LEMMA ServedKept ==
  ASSUME Observe, NEW n \in Name, NEW port, Served(n, port), pit[n] # NoEntry,
         pit'[n] = pit[n], \A e \in packetCalls : Serves(e, n, port) => e \in packetCalls'
  PROVE  Served(n, port)'
<1>1. reached[n] \subseteq reached'[n]
  BY DEF Observe
<1> QED
  BY <1>1 DEF Served, Serves

\* A packet that was sent for a pending Interest has reached its port.
LEMMA SentReaches ==
  ASSUME Observe, NEW n \in Name, pit'[n] # NoEntry, NEW names, NEW ports,
         output' = Sent("Interest", names, ports), n \in names, NEW port \in ports
  PROVE  port \in reached'[n]
<1> DEFINE o == [kind |-> "Interest", name |-> n, port |-> port]
<1>1. o \in output' /\ o.kind = "Interest" /\ o.name = n /\ o.port = port
  BY DEF Sent
<1>2. reached'[n] = reached[n] \cup
                      {q.port : q \in {x \in output' : x.kind = "Interest" /\ x.name = n}}
  BY DEF Observe
<1> HIDE DEF o
<1> QED
  BY <1>1, <1>2

\* Within the limit an update sends every pending Interest of its prefix again.
LEMMA AllPulled ==
  ASSUME NEW p, WithinLimit(p), EnableReforwarding,
         NEW names \in (IF EnableReforwarding THEN Pulled(p) ELSE {{}})
  PROVE  names = FindByPrefix(p)
<1> DEFINE S == {n \in Name : IsPrefixOf(p, n)}
           T == FindByPrefix(p)
<1>1. IsFiniteSet(Name) /\ S \in SUBSET Name /\ T \in SUBSET S
  BY EngineAssumption DEF FindByPrefix, Stored
<1>2. Cardinality(S) <= ReforwardingLimit /\ ReforwardingLimit \in Nat
  BY EngineAssumption DEF WithinLimit
<1>3. Pulled(p) = IF Cardinality(T) <= ReforwardingLimit THEN {T} ELSE kSubset(ReforwardingLimit, T)
  BY DEF Pulled
<1> HIDE DEF S, T
<1>4. IsFiniteSet(S) /\ IsFiniteSet(T) /\ Cardinality(T) <= Cardinality(S)
  BY <1>1, FS_Subset
<1>5. Cardinality(S) \in Nat /\ Cardinality(T) \in Nat
  BY <1>4, FS_CardinalityType
<1>6. Cardinality(T) <= ReforwardingLimit
  BY <1>2, <1>4, <1>5
<1> QED
  BY <1>3, <1>6 DEF T

\* A promise of the next state that the step did not make is one of this state.
LEMMA PromisedBefore ==
  ASSUME now \in Nat, SteerInv, NEW p \in Prefix, promised'[p] = promised[p],
         now' = now \/ now' = now + 1, Promised(p)'
  PROVE  Promised(p)
<1>1. promised[p] # NoMessage /\ now' < promised[p].expiry
  BY DEF Promised
<1>2. promised[p] \in Message
  BY <1>1 DEF SteerInv
<1>3. promised[p].expiry \in Nat
  BY <1>2, MessageFields
<1>4. now < promised[p].expiry
  BY <1>1, <1>3
<1> QED
  BY <1>1, <1>4 DEF Promised

\* The hypotheses and settings under which pending Interests follow the mobile.
Reforwards ==
    /\ GenerationGuard /\ OwnMatch /\ NamesApart /\ Uncontested
    /\ EnableTemporaryFib /\ EnableReforwarding /\ RetryTimeout = 0 /\ CsCapacity = 0

\* What has to be shown of a step: for one prefix and one of its pending Interests.
Reaches(p, n) ==
    Promised(p) /\ promised[p].port \in BitmapPorts /\ WithinLimit(p)
        => Served(n, promised[p].port)

\* An Interest is looked up: it goes to the newest place, or came from there.
LEMMA LookupReaches ==
  ASSUME EngineInv, Reforwards, SteerInv, QueuedInv, NEW p \in Prefix, NEW n \in Name,
         IsPrefixOf(p, n), pit'[n] # NoEntry, Reaches(p, n), Observe,
         NEW e \in packetCalls, Due(e, EngineQueue), ProcessInterestAfterDelay(e)
  PROVE  Reaches(p, n)'
<1>0. /\ now \in Nat /\ pit'[n] = pit[n] /\ n \in Stored /\ promised'[p] = promised[p] /\ now' = now
      /\ packetCalls' = packetCalls \ {e} /\ e.call = "processInterestAfterDelay"
  BY EngineState DEF ProcessInterestAfterDelay, Stored
<1>1. SUFFICES ASSUME NEW port, promised'[p].port = port, Promised(p)', port \in BitmapPorts,
                      WithinLimit(p)
               PROVE  Served(n, port)'
  BY <1>0 DEF Reaches, WithinLimit, Served, Serves
<1>2. Promised(p)
  BY <1>0, <1>1, PromisedBefore
<1>3. promised[p].port = port /\ Served(n, port)
  BY <1>0, <1>1, <1>2 DEF Reaches
<1>4. PICK k \in Name : e.names = {k} /\ output' = Sent("Interest", {k}, LookupPorts(k) \ {e.port})
  BY InterestForwarded
<1>5. CASE k # n
  <2>1. ~Serves(e, n, port)
    BY <1>4, <1>5 DEF Serves
  <2> QED
    BY <1>0, <1>3, <2>1, ServedKept
<1>6. CASE k = n /\ e.port # port
  <2>1. LookupPorts(n) = {port}
    BY <1>1, <1>2, <1>3, PromiseSteers DEF Reforwards
  <2>2. port \in LookupPorts(n) \ {e.port}
    BY <1>6, <2>1
  <2>3. port \in reached'[n]
    BY <1>4, <1>6, <2>2, SentReaches
  <2> QED
    BY <1>0, <2>3 DEF Served
<1>7. CASE k = n /\ e.port = port
  <2>1. Recorded(e, n)
    BY <1>0, <1>4, <1>7 DEF QueuedInv
  <2>2. CASE \E r \in pit[n].ingress : r.port = e.port
    BY <1>0, <1>7, <2>2 DEF Served
  <2>3. ASSUME NEW f \in packetCalls, Later(e, f, n) PROVE f \in packetCalls' /\ Serves(f, n, port)
    <3>1. e.uid \in Nat /\ f.uid > e.uid
      BY <2>3 DEF EngineInv, CallInv, PacketCall, Later
    <3>2. f # e
      BY <3>1
    <3> QED
      BY <1>0, <2>3, <3>2 DEF Later, Serves
  <2> QED
    BY <2>1, <2>2, <2>3 DEF Recorded, Served, Serves
<1> QED
  BY <1>5, <1>6, <1>7

\* Data is processed: an update sends every Interest of its prefix again.
LEMMA DataReaches ==
  ASSUME EngineInv, Reforwards, SteerInv, NEW p \in Prefix, NEW n \in Name,
         IsPrefixOf(p, n), pit'[n] # NoEntry, Reaches(p, n), Observe,
         NEW e \in packetCalls, ProcessDataAfterDelay(e)
  PROVE  Reaches(p, n)'
<1>0. /\ now \in Nat /\ e.call = "processDataAfterDelay" /\ now' = now
      /\ promised \in [Prefix -> Message \cup {NoMessage}]
  BY EngineState DEF ProcessDataAfterDelay, SteerInv
<1>1. PICK d \in DataName :
         /\ TakeDataMatchPorts(d)
         /\ (UNCHANGED promised /\ packetCalls' = packetCalls \ {e}) \/ Admitted(e, d)
  BY DataProcessed
<1>2. pit'[n] = pit[n] /\ n \in Stored
  BY <1>1, TakenEntries DEF Stored
<1>3. SUFFICES ASSUME NEW port, promised'[p].port = port, Promised(p)', port \in BitmapPorts,
                      WithinLimit(p)
               PROVE  Served(n, port)'
  BY DEF Reaches, WithinLimit, Served, Serves
<1>4. packetCalls \ {e} \subseteq packetCalls'
  BY <1>1 DEF Admitted
<1>5. CASE promised'[p] = promised[p]
  <2>1. Served(n, port)
    BY <1>0, <1>3, <1>5, PromisedBefore DEF Reaches
  <2>2. ~Serves(e, n, port)
    BY <1>0 DEF Serves
  <2> QED
    BY <1>2, <1>4, <2>1, <2>2, ServedKept DEF Stored
<1>6. CASE promised'[p] # promised[p]
  <2>1. Admitted(e, d)
    BY <1>1, <1>6
  <2>2. p = ExtractDataName(d)
    BY <1>0, <1>6, <2>1 DEF Admitted
  <2>3. port = TracePort(e)
    BY <1>0, <1>3, <2>1, <2>2 DEF Admitted, Promise
  <2> DEFINE c(names) == Call(PullUid, 0, "doDelayedPullSend", names, TracePort(e))
  <2>4. PICK names \in (IF EnableReforwarding THEN Pulled(p) ELSE {{}}) :
           packetCalls' = (packetCalls \ {e}) \cup (IF names = {} THEN {} ELSE {c(names)})
    BY <2>1, <2>2 DEF Admitted
  <2>5. n \in names
    <3>1. names = FindByPrefix(p)
      BY <1>3, <2>4, AllPulled DEF Reforwards
    <3> QED
      BY <1>2, <3>1 DEF FindByPrefix
  <2>6. /\ c(names).call = "doDelayedPullSend" /\ c(names).names = names
        /\ c(names).port = TracePort(e)
    BY DEF Call
  <2> HIDE DEF c
  <2>7. c(names) \in packetCalls' /\ Serves(c(names), n, port)
    BY <2>3, <2>4, <2>5, <2>6 DEF Serves
  <2> QED
    BY <2>7 DEF Served, Serves
<1> QED
  BY <1>5, <1>6

\* The Interests of a pull are sent to the port of their update.
LEMMA PullReaches ==
  ASSUME EngineInv, SteerInv, NEW p \in Prefix, NEW n \in Name,
         pit'[n] # NoEntry, Reaches(p, n), Observe,
         NEW e \in packetCalls, DoDelayedPullSend(e)
  PROVE  Reaches(p, n)'
<1>0. /\ now \in Nat /\ pit'[n] = pit[n] /\ promised'[p] = promised[p] /\ now' = now
      /\ packetCalls' = packetCalls \ {e} /\ e.call = "doDelayedPullSend"
      /\ output' = Sent("Interest", e.names, {e.port})
  BY EngineState DEF DoDelayedPullSend
<1>1. SUFFICES ASSUME NEW port, promised'[p].port = port, Promised(p)', port \in BitmapPorts,
                      WithinLimit(p)
               PROVE  Served(n, port)'
  BY <1>0 DEF Reaches, WithinLimit, Served, Serves
<1>2. promised[p].port = port /\ Served(n, port)
  BY <1>0, <1>1, PromisedBefore DEF Reaches
<1>3. CASE ~Serves(e, n, port)
  BY <1>0, <1>2, <1>3, ServedKept
<1>4. CASE Serves(e, n, port)
  <2>1. n \in e.names /\ e.port = port
    BY <1>0, <1>4 DEF Serves
  <2>2. port \in reached'[n]
    BY <1>0, <2>1, SentReaches
  <2> QED
    BY <1>0, <2>2 DEF Served
<1> QED
  BY <1>3, <1>4

\* Steps that leave the pending Interests and their calls alone.
LEMMA KeptReaches ==
  ASSUME now \in Nat, SteerInv, NEW p \in Prefix, NEW n \in Name, pit'[n] # NoEntry,
         Reaches(p, n), Observe, pit'[n] = pit[n], UNCHANGED promised,
         packetCalls \subseteq packetCalls', now' = now \/ now' = now + 1
  PROVE  Reaches(p, n)'
<1>1. SUFFICES ASSUME NEW port, promised'[p].port = port, Promised(p)', port \in BitmapPorts,
                      WithinLimit(p)
               PROVE  Served(n, port)'
  BY DEF Reaches, WithinLimit, Served, Serves
<1>2. promised[p].port = port /\ Served(n, port)
  BY <1>1, PromisedBefore DEF Reaches
<1> QED
  BY <1>2, ServedKept

\* An Interest arrives: it waits for its lookup.
LEMMA ArrivalReaches ==
  ASSUME EngineInv, Reforwards, SteerInv, NEW p \in Prefix, NEW n \in Name, pit'[n] # NoEntry,
         pit[n] # NoEntry => Reaches(p, n), Observe,
         NEW k \in Name, NEW nonce \in Nonce, NEW lifetime \in InterestLifetime,
         NEW port \in InterestFrom[k], ReceiveInterest(k, nonce, port, lifetime)
  PROVE  Reaches(p, n)'
<1>0. now \in Nat /\ UNCHANGED <<now, promised>>
  BY EngineState, InterestWaits DEF Reforwards
<1>1. CASE UNCHANGED <<pit, packetCalls>>
  BY <1>0, <1>1, KeptReaches
<1>2. ASSUME NEW c, c.call = "processInterestAfterDelay", c.names = {k},
             packetCalls' = packetCalls \cup {c}, \A m \in Name : m # k => pit'[m] = pit[m]
      PROVE  Reaches(p, n)'
  <2>1. CASE n = k
    <3>1. \E f \in packetCalls' : Serves(f, n, promised'[p].port)
      BY <1>2, <2>1 DEF Serves
    <3> QED
      BY <3>1 DEF Reaches, Served, Serves
  <2>2. CASE n # k
    <3>1. pit'[n] = pit[n] /\ packetCalls \subseteq packetCalls'
      BY <1>2, <2>2
    <3> QED
      BY <1>0, <3>1, KeptReaches
  <2> QED
    BY <2>1, <2>2
<1> QED
  BY <1>1, <1>2, InterestWaits DEF Reforwards

\* Every step keeps every pending Interest served.
LEMMA ReachStep ==
  ASSUME EngineInv, Reforwards, SteerInv, QueuedInv, ReachInv, EngineNext
  PROVE  ReachInv'
<1>0. now \in Nat /\ Observe
  BY EngineState DEF EngineNext
<1>1. ASSUME NEW p \in Prefix, NEW n \in Name, IsPrefixOf(p, n), pit'[n] # NoEntry
      PROVE  Reaches(p, n)'
  <2>1. pit[n] # NoEntry => Reaches(p, n)
    BY <1>1 DEF ReachInv, Reaches, Stored
  <2>2. ASSUME NEW d \in DataName, NEW port \in DataFrom[d], ReceiveData(d, port)
        PROVE  Reaches(p, n)'
    <3>1. UNCHANGED <<now, pit, promised>> /\ packetCalls \subseteq packetCalls'
      BY <2>2 DEF ReceiveData
    <3> QED
      BY <1>0, <1>1, <2>1, <3>1, KeptReaches
  <2>3. ASSUME NEW e \in packetCalls, Due(e, EngineQueue), RunPacket(e) PROVE Reaches(p, n)'
    <3>1. pit[n] # NoEntry
      <4>1. \A m \in Name : pit'[m] = pit[m] \/ pit'[m] = NoEntry
        <5>1. CASE ProcessDataAfterDelay(e)
          BY <5>1, DataProcessed, TakenEntries
        <5>2. CASE ~ProcessDataAfterDelay(e)
          BY <2>3, <5>2 DEF RunPacket, ProcessInterestAfterDelay, DoDelayedPullSend
        <5> QED
          BY <5>1, <5>2
      <4> QED
        BY <1>1, <4>1
    <3> QED
      BY <1>0, <1>1, <2>1, <2>3, <3>1, LookupReaches, DataReaches, PullReaches DEF RunPacket
  <2>4. ASSUME NoPacket, now' = now \/ now' = now + 1 PROVE Reaches(p, n)'
    <3>1. UNCHANGED <<pit, promised, packetCalls>>
      BY <2>4 DEF NoPacket
    <3> QED
      BY <1>0, <1>1, <2>1, <2>4, <3>1, KeptReaches
  <2>5. ASSUME NoPacket, (\E e \in inFlight : RunLeg(e)) \/ (\E t \in timers : RunTimer(t))
        PROVE  now' = now
    BY <2>5, ControlRuns
  <2>6. Advance(EngineQueue) => now' = now + 1
    BY DEF Advance
  <2>7. CASE EngineRun
    BY <2>3, <2>4, <2>5, <2>6, <2>7 DEF EngineRun
  <2>8. CASE ~EngineRun
    BY <1>0, <1>1, <2>1, <2>2, <2>8, ArrivalReaches DEF EngineNext
  <2> QED
    BY <2>7, <2>8
<1>2. \A p \in Prefix, n \in Name : IsPrefixOf(p, n) /\ pit'[n] # NoEntry => Reaches(p, n)'
  BY <1>1
<1> QED
  BY <1>2 DEF ReachInv, Reaches, Stored

\* The two invariants hold of every behaviour.
LEMMA ReachInvariance ==
  ASSUME Reforwards PROVE EngineSpec => [](QueuedInv /\ ReachInv)
<1>0. GenerationGuard /\ RetryTimeout = 0 /\ CsCapacity = 0
  BY DEF Reforwards
<1>1. EngineInit => QueuedInv /\ ReachInv
  BY DEF EngineInit, PitInit, QueuedInv, ReachInv, Promised, Stored
<1>2. EngineInv /\ SteerInv /\ (QueuedInv /\ ReachInv) /\ [EngineNext]_allVars
         => (QueuedInv /\ ReachInv)'
  <2>1. ASSUME QueuedInv, ReachInv, UNCHANGED allVars PROVE QueuedInv' /\ ReachInv'
    <3>1. UNCHANGED <<now, pit, packetCalls, promised, reached>>
      BY <2>1 DEF allVars, vars, engineVars
    <3>2. QueuedInv'
      BY <2>1, <3>1 DEF QueuedInv, Recorded, Later, Stored
    <3>3. ReachInv'
      BY <2>1, <3>1 DEF ReachInv, Served, Serves, Promised, WithinLimit, Stored
    <3> QED
      BY <3>2, <3>3
  <2> QED
    BY <1>0, <2>1, QueuedStep, ReachStep
<1>3. EngineSpec => []SteerInv
  BY <1>0, SteerInvariance
<1> QED
  BY <1>1, <1>2, <1>3, EngineInvariance, PTL DEF EngineSpec

\* An Interest that is pending for the mobile was sent to its newest place, is about to be, or
\* came from there, however arrival, lookup and update were interleaved
\* (PendingReachesNewest): under the hypotheses of NewestUpdateSteers.
THEOREM PendingInterestsFollow ==
  ASSUME GenerationGuard, OwnMatch, NamesApart, Uncontested
  PROVE  EngineSpec => []PendingReachesNewest
<1>1. CASE Reforwards
  <2>1. ReachInv => PendingReachesNewest
    BY DEF ReachInv, Served, Serves, PendingReachesNewest
  <2> QED
    BY <1>1, <2>1, ReachInvariance, PTL
<1>2. CASE ~Reforwards
  <2>1. ~(EnableTemporaryFib /\ EnableReforwarding /\ RetryTimeout = 0 /\ CsCapacity = 0)
    BY <1>2 DEF Reforwards
  <2>2. PendingReachesNewest
    BY <2>1 DEF PendingReachesNewest
  <2> QED
    BY <2>2, PTL
<1> QED
  BY <1>1, <1>2
================================================================================
