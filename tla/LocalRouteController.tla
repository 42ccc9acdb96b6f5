-------------------------- MODULE LocalRouteController -------------------------
(***************************************************************************)
(* The local route controller of a switch: it turns an accepted trace       *)
(* update into a temporary route at once, asks the flow-table controller    *)
(* for a permanent one, and gives the temporary route up when the           *)
(* completion notice arrives, the lease ends or the retries are exhausted.   *)
(*                                                                           *)
(* local[p] holds what the maps m_seqMap, m_routeExpiries, m_lifetimeTimers  *)
(* and m_pendingControllerRequests store under the prefix p.                 *)
(***************************************************************************)
EXTENDS FlowTableController, TemporaryForwardingTable

CONSTANTS EntryLifetime,       \* m_entryLifetime, 0 when not configured
          RetryTimeout,        \* m_controllerRetryTimeout, 0 turns retries off
          RetryLimit           \* m_controllerRetryLimit

ASSUME LocalAssumption ==
    EntryLifetime \in Nat /\ RetryTimeout \in Nat /\ RetryLimit \in Nat

VARIABLES local,          \* the pending transaction of each prefix
          highestSeen,    \* m_highestSeenSeq
          timers          \* the scheduled calls of this controller

localVars == <<local, highestSeen, timers>>

NoRequest == [msg |-> NoMessage, retriesLeft |-> 0, timer |-> NoTimer]
Idle == [seq |-> NoSeq, expiry |-> NoLease, lifetimeTimer |-> NoTimer, request |-> NoRequest]

Request == [msg : Message, retriesLeft : 0..RetryLimit, timer : Nat] \cup {NoRequest}
Transaction == [seq : Generation \cup {NoSeq}, expiry : Nat, lifetimeTimer : Nat \cup {NoTimer},
                request : Request]
Timer == [uid : Nat, at : Nat, prefix : Prefix, seq : Generation,
          call : {"expireEntryBySeq", "onControllerRetryTimeout"}]

LocalTypeOK ==
    /\ local \in [Prefix -> Transaction]
    /\ highestSeen \in [Prefix -> Generation \cup {NoSeq}]
    /\ timers \subseteq Timer

LocalInit ==
    /\ local = [p \in Prefix |-> Idle]
    /\ highestSeen = [p \in Prefix |-> NoSeq]
    /\ timers = {}

--------------------------------------------------------------------------------
\* Simulator::Cancel of the timers with the given identifiers, and of both timers of the
\* transaction r.
Cancel(uids) == {t \in timers : t.uid \notin uids}
CancelTimers_LifetimeOnly(r) == Cancel({r.lifetimeTimer})
CancelTimers(r) == Cancel({r.lifetimeTimer, r.request.timer})

\* The tests of handleControlResponse: is the notice m the completion of r?  Without
\* the guard generation 0 in a notice stands for any generation.
Completes_AnyGeneration(r, m) ==
    r # Idle /\ (r.expiry = NoLease \/ now < r.expiry) /\ m.expiry = r.expiry
Completes(r, m) ==
    /\ r.seq # NoSeq
    /\ r.seq = m.seq \/ (~GenerationGuard /\ m.seq = 0)
    /\ r.expiry = NoLease \/ now < r.expiry
    /\ m.expiry = r.expiry

\* The end of a transaction: the temporary route and all that goes with it.
Withdraw(p, queue) ==
    /\ Erase(p)
    /\ local' = [local EXCEPT ![p] = Idle]
    /\ timers' = queue

\* handleControlResponse(m) when it is called, that is when ack is TRUE.
HandleControlResponse(m, ack) ==
    IF ack /\ Completes(local[m.prefix], m)
    THEN Withdraw(m.prefix, CancelTimers(local[m.prefix]))
    ELSE UNCHANGED <<local, timers, temporaryFib>>

--------------------------------------------------------------------------------
\* The lifetime of a route: the trace update's own, else the configured one.  An
\* update whose lifetime disagrees with the configured one is refused by an exception.
Lifetime(ttl) == IF ttl > 0 THEN ttl ELSE EntryLifetime
ValidTtl(ttl) == ttl > 0 /\ EntryLifetime > 0 => ttl = EntryLifetime
RouteExpiry(ttl) == IF Lifetime(ttl) > 0 THEN now + Lifetime(ttl) ELSE NoLease

\* The two tests on the generation: against the highest one ever admitted, which the
\* guard remembers, and against the pending one.
IsNewer_OrEqual(p, seq) == (GenerationGuard => seq >= highestSeen[p]) /\ seq > local[p].seq
IsNewer(p, seq) == (GenerationGuard => seq > highestSeen[p]) /\ seq > local[p].seq

\* The request record of a new transaction, kept only when retries are on.
NewRequest(m) ==
    IF RetryTimeout > 0
    THEN [msg |-> m, retriesLeft |-> RetryLimit, timer |-> RetryUid]
    ELSE local[m.prefix].request

\* The transaction that applyTraceUpdate opens for the message m ...
NewTransaction(m) ==
    [seq |-> m.seq, expiry |-> m.expiry,
     lifetimeTimer |-> IF m.expiry # NoLease THEN LifetimeUid ELSE NoTimer,
     request |-> NewRequest(m)]
\* ... and the timers that it arms.
RetryTimer(uid, p, seq) ==
    [uid |-> uid, at |-> now + RetryTimeout, prefix |-> p, seq |-> seq,
     call |-> "onControllerRetryTimeout"]
NewTimers_LateLease(m) ==
    IF m.expiry # NoLease
    THEN {[uid |-> LifetimeUid, at |-> m.expiry + 1, prefix |-> m.prefix, seq |-> m.seq,
           call |-> "expireEntryBySeq"]}
    ELSE {}
NewTimers(m) ==
    (IF m.expiry # NoLease
     THEN {[uid |-> LifetimeUid, at |-> m.expiry, prefix |-> m.prefix, seq |-> m.seq,
            call |-> "expireEntryBySeq"]}
     ELSE {})
    \cup
    (IF RetryTimeout > 0
     THEN {RetryTimer(RetryUid, m.prefix, m.seq)}
     ELSE {})

\* The temporary route of a new generation replaces the one that is pending.
ReplaceHop_Keep(m) == InsertHop(temporaryFib[m.prefix], m.port, m.expiry)
ReplaceHop(m) ==
    InsertHop(IF local[m.prefix].seq # NoSeq THEN {} ELSE temporaryFib[m.prefix],
              m.port, m.expiry)

\* applyTraceUpdate, for an update that it admits (a refused one changes nothing).  The
\* transaction is in place before the request is submitted, so a notice that comes
\* back before submitFlowUpdate returns (ack) can complete it.
ApplyTraceUpdate(p, port, seq, ttl, ack) ==
    LET m == [prefix |-> p, seq |-> seq, port |-> port, expiry |-> RouteExpiry(ttl)]
        r == NewTransaction(m)
        done == ack /\ Completes(r, m)
    IN  /\ ValidTtl(ttl) /\ IsNewer(p, seq)
        /\ highestSeen' = IF GenerationGuard THEN [highestSeen EXCEPT ![p] = seq]
                                             ELSE highestSeen
        /\ SubmitFlowUpdate(m, ack)
        /\ local' = [local EXCEPT ![p] = IF done THEN Idle ELSE r]
        /\ temporaryFib' = [temporaryFib EXCEPT ![p] = IF done THEN {} ELSE ReplaceHop(m)]
        /\ timers' = CancelTimers(local[p]) \cup (IF done THEN {} ELSE NewTimers(m))

\* expireEntryBySeq, run by the lifetime timer t: it ends the transaction of its own
\* generation, with the request if that is of this generation too.
ExpireEntryBySeq(t) ==
    LET r == local[t.prefix]
        request == IF r.request.msg.seq = t.seq THEN NoRequest ELSE r.request
    IN  IF r.seq = t.seq
        THEN /\ Erase(t.prefix)
             /\ local' = [local EXCEPT ![t.prefix] = [seq |-> NoSeq, expiry |-> NoLease,
                                         lifetimeTimer |-> NoTimer, request |-> request]]
             /\ timers' = (IF request = NoRequest THEN Cancel({r.request.timer}) ELSE timers)
                             \ {t}
        ELSE /\ local' = [local EXCEPT ![t.prefix].lifetimeTimer = NoTimer]
             /\ timers' = timers \ {t}
             /\ UNCHANGED temporaryFib

\* onControllerRetryTimeout, run by the retry timer t: another attempt ...
Rearm_Refill(r) ==
    [r EXCEPT !.request = [msg |-> r.request.msg, retriesLeft |-> r.request.retriesLeft + 1,
                           timer |-> RearmedUid]]
Rearm_Keep(r) == [r EXCEPT !.request.timer = RearmedUid]
Rearm(r) ==
    [r EXCEPT !.request = [msg |-> r.request.msg, retriesLeft |-> r.request.retriesLeft - 1,
                           timer |-> RearmedUid]]
RetryRequest(t, ack) ==
    LET r == local[t.prefix]
        done == ack /\ Completes(r, r.request.msg)
    IN  /\ r.request.msg.seq = t.seq /\ r.seq = t.seq /\ r.request.retriesLeft > 0
        /\ SubmitFlowUpdate(r.request.msg, ack)
        /\ IF done
           THEN Withdraw(t.prefix, CancelTimers(r) \ {t})
           ELSE /\ local' = [local EXCEPT ![t.prefix] = Rearm(r)]
                /\ timers' = (timers \ {t}) \cup
                                {RetryTimer(RearmedUid, t.prefix, t.seq)}
                /\ UNCHANGED temporaryFib

\* ... or, when the budget is used up, the withdrawal of the temporary route.  A timer
\* that belongs to no current request does nothing but release its record.
GiveUp(t) ==
    LET r == local[t.prefix] IN
    IF r.request.msg.seq # t.seq
    THEN timers' = timers \ {t} /\ UNCHANGED <<local, temporaryFib>>
    ELSE IF r.seq # t.seq
    THEN /\ local' = [local EXCEPT ![t.prefix].request = NoRequest]
         /\ timers' = timers \ {t}
         /\ UNCHANGED temporaryFib
    ELSE /\ r.request.retriesLeft = 0
         /\ Withdraw(t.prefix, Cancel({r.lifetimeTimer}) \ {t})
================================================================================
