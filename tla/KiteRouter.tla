------------------------------- MODULE KiteRouter ------------------------------
(***************************************************************************)
(* A KITE router in a network that sends it any packet on any face.           *)
(***************************************************************************)
EXTENDS KiteForwarder

CONSTANTS PacketsPerInstant,   \* the packets that arrive at one instant (named bound)
          MaxPackets           \* the packets of a behaviour (named bound)

VARIABLES arrived, packets,
          traceFaces,          \* history: the faces on which each trace was announced
          heldBack             \* history: the names that an Interest opened again while one
                               \* was under way whose askers are gone, until a trace pulls it

kiteVars == <<now, nextUid, routerVars, arrived, packets, traceFaces, heldBack>>

RouterInit ==
    /\ KiteInit /\ arrived = 0 /\ packets = 0
    /\ traceFaces = [s \in TraceSeq |-> {}] /\ heldBack = {}

\* The Interest n is accepted: it waits behind one under way, or is sent itself.
HoldBack(n) ==
    heldBack' = CASE ~HasPendingOutRecords(pit[n]) -> heldBack \ {n}
                  [] HasPendingOutRecords(pit[n]) /\ pit[n].in = <<>> -> heldBack \cup {n}
                  [] OTHER -> heldBack

ReceiveInterest(f, n, x) ==
    \/ /\ OnInterestLoop(f, n, x) \/ OnContentStoreHit(f, n, x)
       /\ UNCHANGED <<traceFaces, heldBack>>
    \/ /\ OnContentStoreMiss(f, n, x)
       /\ HoldBack(n)
       /\ traceFaces' = IF n \in TraceName THEN [traceFaces EXCEPT ![n[2]] = @ \cup {f}]
                                           ELSE traceFaces

ReceiveData(f, n) ==
    /\ OnDataUnsolicited(f, n) \/ OnContentData(f, n) \/ OnTraceData(f, n)
    /\ heldBack' = IF tib'.seq # tib.seq THEN {} ELSE heldBack
    /\ UNCHANGED traceFaces

ReceiveNack(f, n, x, reason) ==
    OnIncomingNack(f, n, x, reason) /\ UNCHANGED <<traceFaces, heldBack>>

TimerAtNow ==
    \/ \E n \in Name : now \in {pit[n].unsatisfy, pit[n].straggler}
    \/ \E t \in hopTimers : t.at = now

\* Any packet may come on any face.  A timer is set longer ahead than a packet is under way
\* on its link, so it runs before the packets of its instant.  A packet without effect does not
\* count for the bounds.
Receive ==
    /\ ~TimerAtNow
    /\ arrived < PacketsPerInstant /\ packets < MaxPackets
    /\ \E f \in Face, n \in Name :
          \/ \E x \in Nonce : ReceiveInterest(f, n, x)
          \/ ReceiveData(f, n)
          \/ \E x \in Nonce, reason \in {"Duplicate", "NoRoute"} : ReceiveNack(f, n, x, reason)
    /\ IF UNCHANGED routerVars THEN UNCHANGED <<arrived, packets>>
                                ELSE arrived' = arrived + 1 /\ packets' = packets + 1
    /\ UNCHANGED now

RunCall ==
    /\ \/ \E n \in Name : OnInterestUnsatisfied(n) \/ OnStraggler(n) \/ CsEvict(n)
       \/ \E t \in hopTimers : OnTibEntryNextHopTimeout(t)
       \/ \E p \in pulls : SendPulled(p)
    /\ UNCHANGED <<now, arrived, packets, traceFaces, heldBack>>

RouterTick ==
    /\ ~TimerAtNow /\ \A p \in pulls : p.at # now
    /\ Advance({})
    /\ arrived' = 0
    /\ UNCHANGED <<routerVars, packets, traceFaces, heldBack>>

RouterNext == Receive \/ RunCall \/ RouterTick
RouterSpec == RouterInit /\ [][RouterNext]_kiteVars
--------------------------------------------------------------------------------
(* Correctness *)

\* Whatever the order of Interests, Data, Nacks and timers, an entry of the table has one
\* running timer and no more: it cannot stay for ever, and no timer left over from an
\* earlier Interest takes it away.  (The types are kept.)
EntryHasOneTimer ==
    /\ KiteTypeOK
    /\ \A n \in Name : pit[n].live =>
          /\ pit[n].unsatisfy # NoTime <=> pit[n].straggler = NoTime
          /\ pit[n].unsatisfy # NoTime => pit[n].unsatisfy >= now
          /\ pit[n].straggler # NoTime => pit[n].straggler >= now

\* A downstream that was not rejected keeps its entry until its Interest expires.
PendingOutlivesTimers ==
    [][\A n \in Name : pit[n].live /\ ~pit'[n].live /\ pit[n].unsatisfy # NoTime =>
          \A r \in ToSet(pit[n].in) : r.expiry <= now]_kiteVars

\* A call of onTibEntryNextHopTimeout holds plain pointers to an entry and a face: each
\* scheduled one belongs to the entry that is in the table, to its present next hop, and
\* the hop knows it; and a next hop always has its call.
HopTimerIsOwned ==
    /\ \A t \in hopTimers :
          tib.live /\ tib.id = t.entry /\ tib.hop = t.face /\ tib.timer = t.uid
    /\ tib.hop # NoFace => \E t \in hopTimers : t.uid = tib.timer

\* The prefix points to a face on which the trace of its sequence number was announced.
HopFollowsTrace == tib.hop # NoFace => tib.hop \in traceFaces[tib.seq]

\* Pending content Interests reach the present next hop: an Interest that waits for an
\* answer and was not sent by that face has been sent there since its entry exists, by the
\* strategy or by a pull, or a pull is under way; whether it came before, between or
\* after the trace Interest and its Data, and whatever Nacks and Data came meanwhile.  It may
\* fail to only while it is held back: hasPendingOutRecords takes an Interest under way whose
\* askers were all answered or refused for one that the new Interest can wait for.
PendingReachesHop ==
    \A n \in ContentName \ heldBack : LET e == pit[n] IN
        /\ tib.hop # NoFace /\ tib.hop \notin InFaces(e)
        /\ e.straggler = NoTime
        /\ \E r \in ToSet(e.in) : r.expiry > now
        => \/ tib.hop \in sent[n]
           \/ \E p \in pulls : p.name = n /\ p.face = tib.hop
================================================================================
