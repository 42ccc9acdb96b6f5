---------------------------- MODULE MCRouteControl -----------------------------
(* Small instances of RouteControl: values for its constants. *)
EXTENDS RouteRefinement

OnePrefix == {<<"a">>}

\* The match of a prefix, without collisions.
OwnKey == [p \in Prefix |-> p]

\* [Leg -> value] from the values of the control, FlowMod and SyncAck legs.
Legs(c, f, a) == [control |-> c, flowMod |-> f, syncAck |-> a]

NoDelays == Legs(0, 0, 0)
NoExtraDelay == [g \in Generation |-> NoDelays]
AllDelays == Legs(1, 1, 1)
OneJitter == Legs(1, 1, 1)

AllRandom == Legs("random", "random", "random")
AckLoss == Legs("never", "never", "random")
NoDrops == Legs(0, 0, 0)
OneDropEach == Legs(1, 1, 1)
================================================================================
