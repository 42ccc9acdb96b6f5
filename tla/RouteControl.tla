------------------------------ MODULE RouteControl -----------------------------
(***************************************************************************)
(* The route-control plane of one Statim switch, as ForwardingEngine wires  *)
(* it: the local route controller with its temporary FIB, the flow-table    *)
(* controller behind three lossy and delaying legs, and the switch FIB that *)
(* the FlowMods change.  Trace updates and Interests arrive at any instant;  *)
(* everything else is run by the simulator in the order of its queue.        *)
(***************************************************************************)
EXTENDS LocalRouteController, FiniteSets

CONSTANTS FlowKey,       \* [Prefix -> key]: the match that stands for a prefix
          Ttl,           \* the lifetimes that trace updates carry
          InputUntil     \* the last instant of a trace update (named bound)

VARIABLE flowFib         \* the message whose route the switch FIB holds under a key

vars == <<now, nextUid, prefixState, controlDrops, flowModDrops, syncAckDrops, inFlight,
          temporaryFib, local, highestSeen, timers, flowFib>>

Key == {FlowKey[p] : p \in Prefix}

ASSUME RouteAssumption ==
    /\ FlowKey \in [Prefix -> Key]
    /\ Ttl \subseteq Nat
    /\ InputUntil \in Nat

TypeOK ==
    /\ now \in Nat /\ nextUid \in Nat
    /\ ControllerTypeOK
    /\ TableTypeOK
    /\ LocalTypeOK
    /\ flowFib \in [Key -> Message \cup {NoMessage}]

Init ==
    /\ SimulatorInit
    /\ ControllerInit
    /\ TableInit
    /\ LocalInit
    /\ flowFib = [k \in Key |-> NoMessage]

Queue == inFlight \cup timers

--------------------------------------------------------------------------------
\* onFlowTableFlowMod: the switch refuses an expired route and installs any other,
\* in the place of the route under the same match.
SinkAccepts(m) == ~IsExpiredAt(m, now)
InstallFibEntry(m) == flowFib' = [flowFib EXCEPT ![FlowKey[m.prefix]] = m]

--------------------------------------------------------------------------------
(* Inputs of the control plane *)

\* Trace Data reaches the switch.
TraceUpdate(p, port, seq, ttl) ==
    /\ now <= InputUntil
    /\ \E ack \in BOOLEAN : ApplyTraceUpdate(p, port, seq, ttl, ack)
    /\ TakeUids
    /\ UNCHANGED <<now, flowFib>>

\* An Interest looks its name up in the temporary FIB.
Lookup(n) ==
    /\ FindLongestPrefix(n)
    /\ UNCHANGED <<now, nextUid, controllerVars, localVars, flowFib>>

(* Calls that the simulator runs *)

RunAcceptControl(e) ==
    /\ e.call = "acceptControl"
    /\ \E ack \in BOOLEAN :
          /\ AcceptControl(e.msg, inFlight \ {e}, ack)
          /\ HandleControlResponse(e.msg, ack)
    /\ TakeUids
    /\ UNCHANGED <<now, controlDrops, flowModDrops, highestSeen, flowFib>>

RunAttemptFlowMod(e) ==
    /\ e.call = "attemptFlowMod"
    /\ \E applied, ack \in BOOLEAN :
          /\ AttemptFlowMod(e.msg, inFlight \ {e}, SinkAccepts(e.msg), applied, ack)
          /\ HandleControlResponse(e.msg, ack)
          /\ IF applied THEN InstallFibEntry(e.msg) ELSE UNCHANGED flowFib
    /\ TakeUids
    /\ UNCHANGED <<now, controlDrops, highestSeen>>

RunDeliverSyncAck(e) ==
    /\ e.call = "deliverSyncAck"
    /\ \E ack \in BOOLEAN :
          /\ DeliverSyncAck(e.msg, ack)
          /\ HandleControlResponse(e.msg, ack)
    /\ inFlight' = inFlight \ {e}
    /\ UNCHANGED <<now, nextUid, prefixState, controlDrops, flowModDrops, highestSeen, flowFib>>

RunExpiry(t) ==
    /\ t.call = "expireEntryBySeq"
    /\ ExpireEntryBySeq(t)
    /\ UNCHANGED <<now, nextUid, controllerVars, highestSeen, flowFib>>

RunRetry(t) ==
    /\ t.call = "onControllerRetryTimeout"
    /\ \E ack \in BOOLEAN : RetryRequest(t, ack)
    /\ TakeUids
    /\ UNCHANGED <<now, highestSeen, flowFib>>

RunGiveUp(t) ==
    /\ t.call = "onControllerRetryTimeout"
    /\ GiveUp(t)
    /\ UNCHANGED <<now, nextUid, controllerVars, highestSeen, flowFib>>

RunLeg(e) == RunAcceptControl(e) \/ RunAttemptFlowMod(e) \/ RunDeliverSyncAck(e)
RunTimer(t) == RunExpiry(t) \/ RunRetry(t) \/ RunGiveUp(t)

Tick ==
    /\ Advance(Queue)
    /\ UNCHANGED <<controllerVars, temporaryFib, localVars, flowFib>>

\* The simulator: the next call of this instant, or the next instant.
Run ==
    \/ \E e \in inFlight : Due(e, Queue) /\ RunLeg(e)
    \/ \E t \in timers : Due(t, Queue) /\ RunTimer(t)
    \/ Tick

Next ==
    \/ \E p \in Prefix, port \in Port, seq \in Generation, ttl \in Ttl :
          TraceUpdate(p, port, seq, ttl)
    \/ \E n \in Prefix : Lookup(n)
    \/ Run

\* Packets may stay away; the simulator always runs on.
Spec == Init /\ [][Next]_vars /\ WF_vars(Run)
--------------------------------------------------------------------------------
(* Correctness *)

Pending(p) == local[p].seq # NoSeq
LeaseOver(r) == r.expiry # NoLease /\ now >= r.expiry

\* applyTraceUpdate, expireEntryBySeq, handleControlResponse and the retry handler keep
\* the temporary FIB and the transaction maps in step: a temporary route belongs to the
\* pending generation and ends with its lease, there is only one, the saved request asks
\* for that same route, and a pending generation within its lease does have its route.
TemporaryRouteIsPending ==
    \A p \in Prefix :
        /\ \A h \in temporaryFib[p] :
              /\ Pending(p) /\ h.deadline = local[p].expiry
              /\ temporaryFib[p] = {h}
              /\ RetryTimeout > 0 => local[p].request.msg =
                    [prefix |-> p, seq |-> local[p].seq, port |-> h.port, expiry |-> h.deadline]
        /\ Pending(p) /\ ~LeaseOver(local[p]) => temporaryFib[p] # {}

\* A timer that was superseded, completed or withdrawn is always cancelled: every timer
\* left in the simulator belongs to the pending generation of its prefix, and a pending
\* generation has its lifetime timer at its deadline and its retry timer ahead.
NoStaleTimer ==
    /\ \A t \in timers :
          LET r == local[t.prefix] IN
          /\ r.seq = t.seq
          /\ IF t.call = "expireEntryBySeq"
             THEN t.uid = r.lifetimeTimer /\ t.at = r.expiry
             ELSE t.uid = r.request.timer /\ t.at >= now
    /\ \A p \in Prefix : Pending(p) =>
          /\ local[p].expiry # NoLease => \E t \in timers : t.uid = local[p].lifetimeTimer
          /\ RetryTimeout > 0 => \E t \in timers : t.uid = local[p].request.timer

\* "Both tables treat the route as expired at its deadline": no transaction is pending
\* at an instant after the deadline that was fixed when its update was admitted.
NoTransactionOutlivesLease ==
    \A p \in Prefix : Pending(p) /\ local[p].expiry # NoLease => now <= local[p].expiry

\* With the guard the three places that order generations agree: what is applied was
\* accepted, what was accepted was admitted, and only the newest admitted is pending.
GenerationOrder ==
    GenerationGuard =>
        \A p \in Prefix :
            /\ prefixState[p].applied.seq <= prefixState[p].accepted.seq
            /\ prefixState[p].accepted.seq <= highestSeen[p]
            /\ Pending(p) => local[p].seq = highestSeen[p]

\* Every copy of a control message that is in flight or on record.
Copies ==
    ({e.msg : e \in inFlight}
      \cup (UNION {{local[p].request.msg, prefixState[p].accepted, prefixState[p].applied}
                     : p \in Prefix})
      \cup {flowFib[k] : k \in Key}) \ {NoMessage}

\* With the guard a generation stands for one routing decision: however often it is
\* retried, delayed or replayed, all its copies carry one port and one deadline ("Every
\* retry carries the original deadline").
OneDecisionPerGeneration ==
    GenerationGuard =>
        \A m, n \in Copies : m.prefix = n.prefix /\ m.seq = n.seq => m = n

\* The retry budget bounds the traffic of a generation: each submission is in flight in at
\* most one place, so the copies in flight and the retries left never exceed the budget.
CopiesWithinBudget ==
    GenerationGuard =>
        \A p \in Prefix : Pending(p) /\ RetryTimeout > 0 =>
            Cardinality({e \in inFlight : e.msg.prefix = p /\ e.msg.seq = local[p].seq})
               + local[p].request.retriesLeft <= RetryLimit + 1

\* The route of the transaction r of prefix p is what the switch FIB holds.
RouteInstalled(p, r, fib) ==
    /\ fib[FlowKey[p]].prefix = p
    /\ fib[FlowKey[p]].seq = r.seq
    /\ fib[FlowKey[p]].expiry = r.expiry
    /\ \A h \in temporaryFib[p] : fib[FlowKey[p]].port = h.port

\* Make before break: a temporary route is given up only for the same route in the switch
\* FIB, for a newer generation, at the end of its lease, or when the last retry timed out.
GivesUp(p) == Pending(p) /\ local'[p].seq = NoSeq
RetriesExhausted(p) ==
    RetryTimeout > 0 /\ local[p].request.retriesLeft = 0
      /\ \E t \in timers : t.uid = local[p].request.timer /\ t.at = now
MakeBeforeBreak ==
    [][\A p \in Prefix : GivesUp(p) =>
          \/ flowFib'[FlowKey[p]] # NoMessage /\ RouteInstalled(p, local[p], flowFib')
          \/ LeaseOver(local[p])
          \/ RetriesExhausted(p)]_vars

\* With the guard a delayed FlowMod never takes a prefix back to an older generation, and
\* never installs a generation twice.
FlowFibMovesForward ==
    [][GenerationGuard =>
          \A k \in Key : flowFib'[k] # flowFib[k] => flowFib'[k].seq > flowFib[k].seq]_flowFib

\* Every pending transaction ends: by its notice, its lease or its last retry.
PendingResolves == \A p \in Prefix : Pending(p) ~> ~Pending(p)

\* When losses are fewer than the attempts, the retries carry the newest admitted
\* generation into the switch FIB.
NewestIsInstalled ==
    \A p \in Prefix, g \in Generation :
        highestSeen[p] = g ~> (flowFib[FlowKey[p]].seq = g \/ highestSeen[p] # g)
================================================================================
