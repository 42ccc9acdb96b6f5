----------------------------- MODULE KiteForwarder -----------------------------
(***************************************************************************)
(* A router of the KITE baseline: NFD's forwarder with the pending Interest  *)
(* table, the trace information base (TIB) and the trace forwarding          *)
(* strategy.  One mobile prefix: a trace Interest names a sequence number,   *)
(* and the Data that answers it points the prefix to the face the Interest   *)
(* came from, for the lifetime of that Interest.  Interests for the prefix   *)
(* follow the TIB, then the FIB, and pending ones are pulled to a new face.   *)
(***************************************************************************)
EXTENDS Simulator, Sequences, SequencesExt, FiniteSets, FiniteSetsExt

CONSTANTS Face,              \* the faces of the router
          FibNextHops,       \* the next hops of the FIB entry, for traces and content
          TraceSeq,          \* the sequence numbers of traces
          Content,           \* the names of content under the mobile prefix
          Nonce,
          TraceLifetime,     \* the lifetime of a trace Interest
          InterestLifetime,  \* the lifetime of a content Interest
          StragglerTime,     \* the 100 ms of setStragglerTimer
          ProlongTime,       \* the 1000 ms of m_prolongTrace
          CsCapacity,        \* the packets that the content store holds
          MaxPullSends,      \* the 1000 of updateTib
          DoPull, MaxPullCnt, ProlongTrace, RemoveTraceOnNack

NoFace == "none"

NoNonce == -1

ASSUME KiteForwarderAssumption ==
    /\ NoFace \notin Face /\ FibNextHops \subseteq Face
    /\ TraceSeq \subseteq Nat \ {0} /\ IsFiniteSet(Content)
    /\ NoNonce \notin Nonce /\ CsCapacity \in Nat /\ MaxPullSends \in Nat
    /\ TraceLifetime \in Nat /\ InterestLifetime \in Nat
    /\ StragglerTime \in Nat /\ ProlongTime \in Nat /\ MaxPullCnt \in Nat \ {0}
    /\ DoPull \in BOOLEAN /\ ProlongTrace \in BOOLEAN /\ RemoveTraceOnNack \in BOOLEAN

TraceName == {"trace"} \X TraceSeq
ContentName == {"content"} \X Content
Name == TraceName \cup ContentName

VARIABLES pit,               \* m_pit: the entry of each name
          tib,               \* m_tib: the entry of the mobile prefix
          hopTimers,         \* the scheduled calls of onTibEntryNextHopTimeout
          pulls,             \* the scheduled calls of Face::sendInterest
          cache,             \* m_cs
          deadNonces,        \* m_deadNonceList; its lifetime exceeds the simulated time
          sent               \* history: the faces the Interest of an entry was sent to

routerVars == <<pit, tib, hopTimers, pulls, cache, deadNonces, sent>>

NoTime == -1
NoEntry == [live |-> FALSE, in |-> <<>>, out |-> {}, unsatisfy |-> NoTime,
            straggler |-> NoTime, satisfied |-> FALSE]
NoTib == [live |-> FALSE, id |-> 0, seq |-> 0, hop |-> NoFace, timer |-> NoTimer]

InRecord == [face : Face, nonce : Nonce, expiry : Nat]
OutRecord == [face : Face, nonce : Nonce, expiry : Nat, nack : Nonce \cup {NoNonce}]

KiteTypeOK ==
    /\ \A n \in Name :
          /\ ToSet(pit[n].in) \subseteq InRecord /\ pit[n].out \subseteq OutRecord
          /\ \A f \in Face : Cardinality({o \in pit[n].out : o.face = f}) <= 1
          /\ Len(pit[n].in) = Cardinality({r.face : r \in ToSet(pit[n].in)})
          /\ ~pit[n].live => pit[n] = NoEntry
    /\ tib.hop \in Face \cup {NoFace} /\ tib.seq \in TraceSeq \cup {0}
    /\ hopTimers \subseteq [uid : Nat, at : Nat, face : Face, entry : Nat]
    /\ pulls \subseteq [at : Nat, name : ContentName, face : Face]

KiteInit ==
    /\ SimulatorInit
    /\ pit = [n \in Name |-> NoEntry] /\ tib = NoTib
    /\ hopTimers = {} /\ pulls = {} /\ cache = {} /\ deadNonces = {}
    /\ sent = [n \in Name |-> {}]

--------------------------------------------------------------------------------
(* Entries of the pending Interest table *)

Lifetime(n) == IF n \in TraceName THEN TraceLifetime ELSE InterestLifetime
InFaces(e) == {r.face : r \in ToSet(e.in)}
LastExpiry(e) == Max({r.expiry : r \in ToSet(e.in)})

\* Pit::insert: the entry of the name, a new one or the one that is there.
Inserted(e) == [e EXCEPT !.live = TRUE]

\* insertOrUpdateInRecord: a new record goes to the front, an old one keeps its place.
WithInRecord(e, n, f, x) ==
    LET r == [face |-> f, nonce |-> x, expiry |-> now + Lifetime(n)]
    IN  [e EXCEPT !.in = IF f \in InFaces(e)
                         THEN [i \in 1..Len(e.in) |-> IF e.in[i].face = f THEN r ELSE e.in[i]]
                         ELSE <<r>> \o e.in]

\* insertOrUpdateOutRecord, for the faces F: a Nack that the record holds stays.
HeldNack(e, f) ==
    IF \E o \in e.out : o.face = f THEN (CHOOSE o \in e.out : o.face = f).nack ELSE NoNonce
WithOutRecords(e, n, F, x) ==
    [e EXCEPT !.out = {o \in e.out : o.face \notin F} \cup
        {[face |-> f, nonce |-> x, expiry |-> now + Lifetime(n), nack |-> HeldNack(e, f)] :
            f \in F}]

\* cancelUnsatisfyAndStragglerTimer, then one of the two is set.
Cancelled_Unsatisfy(e) == [e EXCEPT !.unsatisfy = NoTime]
Cancelled_None(e) == e
Cancelled(e) == [e EXCEPT !.unsatisfy = NoTime, !.straggler = NoTime]
WithUnsatisfyTimer(e) == [e EXCEPT !.unsatisfy = LastExpiry(e)]
WithStragglerTimer(e, ok) == [e EXCEPT !.straggler = now + StragglerTime, !.satisfied = ok]

\* findDuplicateNonce
HasNonce(e, x) ==
    \/ \E r \in ToSet(e.in) : r.nonce = x
    \/ \E o \in e.out : o.nonce = x

\* hasPendingOutRecords, canForwardToLegacy
HasPendingOutRecords(e) == \E o \in e.out : o.expiry >= now /\ o.nack = NoNonce
CanForwardTo(e, f) ==
    /\ ~\E o \in e.out : o.face = f /\ o.expiry >= now
    /\ \E r \in ToSet(e.in) : r.face # f /\ r.expiry >= now

--------------------------------------------------------------------------------
(* The trace forwarding strategy *)

\* afterReceiveInterest and TraceForwarding: the faces that the Interest is sent to.
Follows(n, e) == n \in ContentName /\ tib.hop # NoFace /\ CanForwardTo(e, tib.hop)
ForwardTo(n, e) ==
    IF Follows(n, e) THEN {tib.hop} ELSE {f \in FibNextHops : CanForwardTo(e, f)}

AfterReceiveInterest(n, e, x) ==
    CASE HasPendingOutRecords(e) -> [entry |-> e, to |-> {}]
      [] ~HasPendingOutRecords(e) /\ ForwardTo(n, e) # {} ->
            [entry |-> WithOutRecords(e, n, ForwardTo(n, e), x), to |-> ForwardTo(n, e)]
      [] OTHER ->       \* rejectPendingInterest
            [entry |-> WithStragglerTimer(Cancelled(e), FALSE), to |-> {}]

--------------------------------------------------------------------------------
(* Interests *)

\* onInterestLoop: a Nack goes back and no state changes.
Looping(n, x) == <<n, x>> \in deadNonces \/ HasNonce(pit[n], x)
OnInterestLoop(f, n, x) == Looping(n, x) /\ UNCHANGED <<nextUid, routerVars>>

\* onIncomingInterest with the content store's answer ...
OnContentStoreHit(f, n, x) ==
    /\ ~Looping(n, x)
    /\ pit[n].in = <<>> /\ n \in cache
    /\ pit' = [pit EXCEPT ![n] =
                 WithStragglerTimer(Cancelled(Inserted(@)), TRUE)]
    /\ UNCHANGED <<nextUid, tib, hopTimers, pulls, cache, deadNonces, sent>>

\* ... or without one.
OnContentStoreMiss(f, n, x) ==
    /\ ~Looping(n, x)
    /\ pit[n].in # <<>> \/ n \notin cache
    /\ LET e == Cancelled(Inserted(pit[n]))
           result == AfterReceiveInterest(n, WithUnsatisfyTimer(WithInRecord(e, n, f, x)), x)
       IN  /\ pit' = [pit EXCEPT ![n] = result.entry]
           /\ sent' = [sent EXCEPT ![n] = @ \cup result.to]
    /\ UNCHANGED <<nextUid, tib, hopTimers, pulls, cache, deadNonces>>

\* onInterestFinalize, with the nonces dead remembered.
Finalize(n, dead) ==
    /\ deadNonces' = deadNonces \cup {<<n, o.nonce>> : o \in dead}
    /\ pit' = [pit EXCEPT ![n] = NoEntry]
    /\ sent' = [sent EXCEPT ![n] = {}]
    /\ UNCHANGED <<nextUid, tib, hopTimers, pulls, cache>>

OnInterestUnsatisfied(n) == pit[n].unsatisfy = now /\ Finalize(n, pit[n].out)

\* Only an unsatisfied Interest leaves its nonces: no Interest asks for fresh Data.
OnStraggler(n) ==
    /\ pit[n].straggler = now
    /\ Finalize(n, IF pit[n].satisfied THEN {} ELSE pit[n].out)

--------------------------------------------------------------------------------
(* The trace information base *)

\* addNextHop cancels the timer of the hop that it replaces.
ReplacedTimers_Kept == hopTimers
ReplacedTimers == {t \in hopTimers : t.uid # tib.timer}

\* updateTib for the trace s of an in-record's face f, whose pulls are made by Pull.
IsNewer(s) == s > tib.seq
HopTimer(entry, f, d) == [uid |-> nextUid, at |-> now + d, face |-> f, entry |-> entry]
UpdateTib(s, f) ==
    IF IsNewer(s)
    THEN LET id == IF tib.live THEN tib.id ELSE nextUid
         IN  /\ tib' = [live |-> TRUE, id |-> id, seq |-> s, hop |-> f, timer |-> nextUid]
             /\ hopTimers' = ReplacedTimers \cup {HopTimer(id, f, TraceLifetime)}
             /\ TakeUids
    ELSE UNCHANGED <<nextUid, tib, hopTimers>>

\* The pending Interests that updateTib pulls to f, in any order of the table: of the first
\* MaxPullSends the i-th is sent i - 1 units later, unless its in-records have expired.
Pullable(f) ==
    {n \in ContentName : /\ pit[n].in # <<>> /\ f \notin InFaces(pit[n])
                         /\ \A o \in pit[n].out : o.face # f}
PullOrders(f) ==
    {p \in SetToAllKPermutations(Pullable(f)) :
        Len(p) = Min({MaxPullCnt, Cardinality(Pullable(f))})}
PullCalls_Skip(p, f) ==
    {[at |-> now + i - 1, name |-> p[i], face |-> f] : i \in 2..Min({MaxPullSends, Len(p)})}
PullCalls(p, f) ==
    {[at |-> now + i - 1, name |-> p[i], face |-> f] :
        i \in {j \in 1..Min({MaxPullSends, Len(p)}) : LastExpiry(pit[p[j]]) > now}}

\* A pulled Interest leaves no out-record.
SendPulled(p) ==
    /\ p \in pulls /\ p.at = now
    /\ pulls' = pulls \ {p}
    /\ sent' = IF pit[p.name].live THEN [sent EXCEPT ![p.name] = @ \cup {p.face}] ELSE sent
    /\ UNCHANGED <<nextUid, pit, tib, hopTimers, cache, deadNonces>>

\* Tib::removeNextHop for the face f: the last next hop takes the entry with it.
RemoveNextHop(f) ==
    IF tib.hop = f THEN tib' = NoTib /\ hopTimers' = ReplacedTimers
                   ELSE UNCHANGED <<tib, hopTimers>>

\* onTibEntryNextHopTimeout, for the entry and the face that its call was given.
OnTibEntryNextHopTimeout(t) ==
    /\ t \in hopTimers /\ t.at = now
    /\ IF tib.hop = t.face
       THEN tib' = NoTib /\ hopTimers' = ReplacedTimers \ {t}
       ELSE UNCHANGED tib /\ hopTimers' = hopTimers \ {t}
    /\ UNCHANGED <<nextUid, pit, pulls, cache, deadNonces, sent>>

--------------------------------------------------------------------------------
(* Data and Nacks *)

\* onDataUnsolicited: it is not cached.
OnDataUnsolicited(f, n) == ~pit[n].live /\ UNCHANGED <<nextUid, routerVars>>

\* What onIncomingData from f makes of the entry.
Satisfied(e, f) ==
    WithStragglerTimer([Cancelled(e) EXCEPT !.in = <<>>, !.out = {o \in e.out : o.face # f}], TRUE)

\* Cs::insert: whatever the policy, as much stays as there is room for ...
CsInsert(n) ==
    {c \in SUBSET (cache \cup {n}) :
        Cardinality(c) = Min({CsCapacity, Cardinality(cache \cup {n})})}
\* ... and content of other prefixes may take the place of n.
CsEvict(n) ==
    /\ n \in cache /\ cache' = cache \ {n}
    /\ UNCHANGED <<nextUid, pit, tib, hopTimers, pulls, deadNonces, sent>>

\* onIncomingData for content; m_prolongTrace restarts the timer of the hop f.
Prolongs(f) == ProlongTrace /\ tib.hop = f
OnContentData(f, n) ==
    /\ n \in ContentName /\ pit[n].live
    /\ cache' \in CsInsert(n)
    /\ pit' = [pit EXCEPT ![n] = Satisfied(@, f)]
    /\ IF Prolongs(f)
       THEN /\ hopTimers' = ReplacedTimers \cup {HopTimer(tib.id, f, ProlongTime)}
            /\ tib' = [tib EXCEPT !.timer = nextUid]
            /\ TakeUids
       ELSE UNCHANGED <<nextUid, tib, hopTimers>>
    /\ UNCHANGED <<pulls, deadNonces, sent>>

\* onIncomingData for the trace n: the first in-record that has not expired is the one
\* whose face updateTib takes, the others repeat its sequence number.
Askers(n) == {i \in 1..Len(pit[n].in) : pit[n].in[i].expiry > now}
TraceFace_Data(n, f) == f
TraceFace(n, f) == pit[n].in[Min(Askers(n))].face
OnTraceData(f, n) ==
    /\ n \in TraceName /\ pit[n].live
    /\ pit' = [pit EXCEPT ![n] = Satisfied(@, f)]
    /\ IF Askers(n) = {}
       THEN UNCHANGED <<nextUid, tib, hopTimers, pulls>>
       ELSE LET hop == TraceFace(n, f) IN
            /\ UpdateTib(n[2], hop)
            /\ IF DoPull /\ IsNewer(n[2])
               THEN \E p \in PullOrders(hop) : pulls' = pulls \cup PullCalls(p, hop)
               ELSE UNCHANGED pulls
    /\ UNCHANGED <<cache, deadNonces, sent>>

\* setIncomingNack, for the out-record of f.
WithNack(e, f, x) ==
    [e EXCEPT !.out = {IF o.face = f THEN [o EXCEPT !.nack = x] ELSE o : o \in e.out}]

\* onIncomingNack from f for the Interest n with nonce x: the out-record keeps it, and a
\* missing route removes the trace and, when it was the only hop, the in-records.
OnIncomingNack(f, n, x, reason) ==
    /\ \E o \in pit[n].out : o.face = f /\ o.nonce = x
    /\ LET removes == RemoveTraceOnNack /\ reason = "NoRoute"
           nacked == WithNack(pit[n], f, x)
       IN  /\ pit' = [pit EXCEPT ![n] =
                        IF removes /\ tib.hop = f THEN [nacked EXCEPT !.in = <<>>] ELSE nacked]
           /\ IF removes THEN RemoveNextHop(f) ELSE UNCHANGED <<tib, hopTimers>>
    /\ UNCHANGED <<nextUid, pulls, cache, deadNonces, sent>>
================================================================================
