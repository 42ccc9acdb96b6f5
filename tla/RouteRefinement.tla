----------------------------- MODULE RouteRefinement ---------------------------
(***************************************************************************)
(* RouteControl implements RouteTransaction: with the generation guard and   *)
(* the retries on, and a flow-table match of its own for every prefix, the   *)
(* messages, timers and tables of the control plane amount to transactions.  *)
(***************************************************************************)
EXTENDS RouteControl

\* A request is open while it is under way to the switch, on either leg.
RequestLegs == {"acceptControl", "attemptFlowMod"}
OpenRequests == {e \in inFlight : e.call \in RequestLegs}

Transactions == INSTANCE RouteTransaction WITH
    Lease     <- {Lifetime(ttl) : ttl \in {t \in Ttl : ValidTtl(t)}},
    Attempts  <- RetryLimit,
    clock     <- now,
    highest   <- highestSeen,
    pending   <- [p \in Prefix |-> local[p].request.msg],
    budget    <- [p \in Prefix |-> local[p].request.retriesLeft],
    requested <- [p \in Prefix |-> {e.msg : e \in {f \in OpenRequests : f.msg.prefix = p}}],
    installed <- [p \in Prefix |-> flowFib[FlowKey[p]]]

\* With GenerationGuard and RetryTimeout > 0 the control plane keeps the promise of
\* RouteTransaction, whatever the legs lose, delay
\* and reorder: an update steers its prefix until its own route is in the switch FIB, its
\* lease ends or its last retry timed out; a FlowMod installs only what was asked for, in
\* time and never over a newer generation; and no instant passes with a dead transaction.
ImplementsRouteTransaction == Transactions!TransactionSpec
================================================================================
