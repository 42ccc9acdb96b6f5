--------------------------- MODULE ControllerService ---------------------------
(***************************************************************************)
(* The flow-table controller alone, with a client that submits any message, *)
(* in any order and as often as it likes, and with a sink that may refuse   *)
(* any FlowMod.  installs and acked record what the two callbacks were      *)
(* given, and count the installations up to a bound.                        *)
(***************************************************************************)
EXTENDS FlowTableController

CONSTANTS Expiry,            \* the deadlines of the submitted messages
          MaxSubmissions     \* bound on the number of submissions

ASSUME ServiceAssumption == Expiry \subseteq Nat /\ MaxSubmissions \in Nat

VARIABLES submissions,       \* the submissions so far
          installs,          \* the messages of the sink's installations, in order
          acked              \* the messages of the delivered notices

serviceVars == <<now, nextUid, controllerVars, submissions, installs, acked>>

ServiceInit ==
    /\ SimulatorInit /\ ControllerInit
    /\ submissions = 0 /\ installs = <<>> /\ acked = {}

RecordAck(m, ack) == acked' = IF ack THEN acked \cup {m} ELSE acked

Submit(m) ==
    /\ submissions < MaxSubmissions
    /\ submissions' = submissions + 1
    /\ \E ack \in BOOLEAN : SubmitFlowUpdate(m, ack) /\ RecordAck(m, ack)
    /\ TakeUids
    /\ UNCHANGED <<now, installs>>

RunCall(e) ==
    /\ Due(e, inFlight)
    /\ \/ /\ e.call = "acceptControl"
          /\ \E ack \in BOOLEAN : /\ AcceptControl(e.msg, inFlight \ {e}, ack)
                                  /\ RecordAck(e.msg, ack)
          /\ UNCHANGED <<flowModDrops, installs>>
       \/ /\ e.call = "attemptFlowMod"
          /\ \E sinkAccepts, applied, ack \in BOOLEAN :
                /\ AttemptFlowMod(e.msg, inFlight \ {e}, sinkAccepts, applied, ack)
                /\ RecordAck(e.msg, ack)
                /\ installs' = IF applied THEN Append(installs, e.msg) ELSE installs
       \/ /\ e.call = "deliverSyncAck"
          /\ \E ack \in BOOLEAN : DeliverSyncAck(e.msg, ack) /\ RecordAck(e.msg, ack)
          /\ inFlight' = inFlight \ {e}
          /\ UNCHANGED <<prefixState, flowModDrops, installs>>
    /\ TakeUids
    /\ UNCHANGED <<now, controlDrops, submissions>>

ServiceTick == Advance(inFlight) /\ UNCHANGED <<controllerVars, submissions, installs, acked>>

ServiceNext ==
    \/ \E p \in Prefix, g \in Generation, port \in Port, x \in Expiry :
          Submit([prefix |-> p, seq |-> g, port |-> port, expiry |-> x])
    \/ \E e \in inFlight : RunCall(e)
    \/ ServiceTick

ServiceSpec == ServiceInit /\ [][ServiceNext]_serviceVars

--------------------------------------------------------------------------------
Installed == {installs[i] : i \in DOMAIN installs}

ServiceTypeOK ==
    /\ ControllerTypeOK
    /\ now \in 0..Horizon
    /\ submissions \in 0..MaxSubmissions
    /\ Installed \subseteq Message /\ acked \subseteq Message

\* A completion notice is sent, or replayed, only for a route that the switch installed
\* with exactly the port and the deadline of the notice.  (The types are kept.)
AckedWasInstalled == ServiceTypeOK /\ acked \subseteq Installed

\* With the guard, the installations of a prefix carry strictly increasing generations:
\* none is repeated by a retry, none is overtaken by a delayed older FlowMod, and of two
\* conflicting payloads of one generation only the first accepted one is installed.
InstallsInOrder ==
    GenerationGuard =>
        \A i, j \in DOMAIN installs :
            i < j /\ installs[i].prefix = installs[j].prefix
                => installs[i].seq < installs[j].seq
================================================================================
