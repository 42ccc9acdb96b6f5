-------------------------- MODULE PendingInterestTable -------------------------
(***************************************************************************)
(* The pending Interest table.  The entry of a name saves the nonce and the *)
(* lifetime of its first Interest, and an ingress record for every Interest *)
(* accepted since, with the instant at which it lapses.  Equal records of   *)
(* one instant are kept once: only their ports are ever read.               *)
(***************************************************************************)
EXTENDS Names, Simulator

CONSTANTS Name,          \* the names of Interests
          Nonce,
          InterestLifetime  \* the lifetimes that Interests carry

ASSUME PitAssumption == InterestLifetime \subseteq Nat

VARIABLE pit             \* m_entries

NoEntry == [ingress |-> {}]
PitEntry == [nonce : Nonce, lifetime : InterestLifetime, ingress : SUBSET [port : Port, until : Nat]]

PitTypeOK == \A n \in Name : pit[n] = NoEntry \/ pit[n] \in PitEntry
PitInit == pit = [n \in Name |-> NoEntry]

Stored == {n \in Name : pit[n] # NoEntry}

\* insert: only the nonce of the first Interest is compared.
Duplicate(n, nonce) == n \in Stored /\ pit[n].nonce = nonce

\* pruneExpiredIngress, which only an accepted aggregation calls.
LiveIngress(records) == {r \in records : now < r.until}

\* insert, for an Interest that is no duplicate.
InsertInterest_Replace(n, nonce, port, lifetime) ==
    pit' = [pit EXCEPT ![n] =
        [nonce |-> nonce, lifetime |-> lifetime,
         ingress |-> {[port |-> port, until |-> now + lifetime]}]]
InsertInterest(n, nonce, port, lifetime) ==
    LET record == [port |-> port, until |-> now + lifetime] IN
    pit' = [pit EXCEPT ![n] =
        IF n \in Stored
        THEN [pit[n] EXCEPT !.ingress = LiveIngress(@) \cup {record}]
        ELSE [nonce |-> nonce, lifetime |-> lifetime, ingress |-> {record}]]

\* findByPrefix
FindByPrefix(p) == {n \in Stored : IsPrefixOf(p, n)}

\* takeDataMatchPorts: every entry whose name is a prefix of the Data's name is consumed,
\* with its lapsed records.
MatchPorts(d) == UNION {{r.port : r \in pit[n].ingress} : n \in {m \in Stored : IsPrefixOf(m, d)}}
TakeDataMatchPorts(d) == pit' = [n \in Name |-> IF IsPrefixOf(n, d) THEN NoEntry ELSE pit[n]]
================================================================================
