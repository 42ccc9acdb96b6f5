------------------------------- MODULE Simulator -------------------------------
(***************************************************************************)
(* The ns-3 discrete-event simulator, as the Statim controllers use it:    *)
(* Simulator::Now, Simulator::Schedule and Simulator::Cancel.  A scheduled *)
(* call is kept by the component that scheduled it; this module holds the  *)
(* clock and the identifiers that order the calls of one instant.  ns-3    *)
(* runs the calls of an instant in the order in which they were scheduled. *)
(***************************************************************************)
EXTENDS Integers

CONSTANT Horizon     \* the instant at which the simulation stops (named bound)

ASSUME HorizonAssumption == Horizon \in Nat

VARIABLES now,       \* Simulator::Now(), in abstract time units
          nextUid    \* the identifier given to the next scheduled call

NoTimer == -1        \* an EventId that names no scheduled call

SimulatorInit == now = 0 /\ nextUid = 0

\* A step schedules at most four calls.  These are their identifiers, in the order in
\* which the code schedules them: the lifetime timer and the retry timer of a new
\* route, the call of the flow-table controller, the retry timer armed again.
LifetimeUid == nextUid
RetryUid == nextUid + 1
LegUid == nextUid + 2
RearmedUid == nextUid + 3
TakeUids == nextUid' = nextUid + 4

\* The call e is the next one the simulator runs, among the scheduled calls Q.
Due(e, Q) == e.at = now /\ \A f \in Q : f.at = now => e.uid <= f.uid

\* The clock moves on when no scheduled call is left at this instant.
Advance(Q) ==
    /\ now < Horizon
    /\ \A f \in Q : f.at # now
    /\ now' = now + 1
    /\ nextUid' = nextUid
================================================================================
