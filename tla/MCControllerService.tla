-------------------------- MODULE MCControllerService --------------------------
(* A small instance of ControllerService: values for its constants. *)
EXTENDS ControllerService

OnePrefix == {<<"a">>}
Legs(c, f, a) == [control |-> c, flowMod |-> f, syncAck |-> a]
NoDelays == Legs(0, 0, 0)
OneJitter == Legs(1, 1, 1)
AllRandom == Legs("random", "random", "random")

\* Generation 1 is slow on its FlowMod leg, as in the reordering experiments.
SlowFirst == [g \in Generation |-> IF g = 1 THEN Legs(0, 1, 0) ELSE NoDelays]
================================================================================
