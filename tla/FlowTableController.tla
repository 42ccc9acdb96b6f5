-------------------------- MODULE FlowTableController --------------------------
(***************************************************************************)
(* The central flow-table controller: it takes control requests, installs  *)
(* routes through the FlowMod sink and answers with completion notices     *)
(* (SyncAcks).  Its three legs (control, flowMod, syncAck) lose and delay   *)
(* messages.  With the generation guard it keeps, for each prefix, the      *)
(* message of the highest accepted and of the highest applied generation.   *)
(*                                                                          *)
(* An operation that the code calls synchronously takes the outcome that    *)
(* its caller sees as a parameter: ack is TRUE when the SyncAck callback is *)
(* called with m before the operation returns.                              *)
(***************************************************************************)
EXTENDS ControlMessage, Simulator

CONSTANTS GenerationGuard,   \* m_generationGuardEnabled
          ControllerDelay,   \* m_controllerDelay
          LegDelay,          \* [Leg -> delay]
          LegJitter,         \* [Leg -> half width of the jitter]
          ExtraDelay,        \* [Generation -> [Leg -> delay]], the delay profiles
          LossRate,          \* [Leg -> {"never", "random", "always"}]
          DropFirstN         \* [Leg -> number of messages dropped first]

Leg == {"control", "flowMod", "syncAck"}

ASSUME ControllerAssumption ==
    /\ GenerationGuard \in BOOLEAN
    /\ ControllerDelay \in Nat
    /\ LegDelay \in [Leg -> Nat]
    /\ LegJitter \in [Leg -> Nat]
    /\ ExtraDelay \in [Generation -> [Leg -> Nat]]
    /\ LossRate \in [Leg -> {"never", "random", "always"}]
    /\ DropFirstN \in [Leg -> Nat]

VARIABLES prefixState,   \* m_prefixStates: accepted and applied message of each prefix
          controlDrops,  \* m_controlDropFirstN, m_flowModDropFirstN and
          flowModDrops,  \* m_syncAckDropFirstN: the deterministic drops that
          syncAckDrops,  \* are left on each leg
          inFlight       \* the scheduled calls of this controller

controllerVars == <<prefixState, controlDrops, flowModDrops, syncAckDrops, inFlight>>

LegCall == [uid : Nat, at : Nat, msg : Message,
            call : {"acceptControl", "attemptFlowMod", "deliverSyncAck"}]
PrefixState == [accepted : Message \cup {NoMessage},
                applied  : Message \cup {NoMessage}]

ControllerTypeOK ==
    /\ prefixState \in [Prefix -> PrefixState]
    /\ controlDrops \in Nat /\ flowModDrops \in Nat /\ syncAckDrops \in Nat
    /\ inFlight \subseteq LegCall

ControllerInit ==
    /\ prefixState = [p \in Prefix |-> [accepted |-> NoMessage, applied |-> NoMessage]]
    /\ controlDrops = DropFirstN["control"]
    /\ flowModDrops = DropFirstN["flowMod"]
    /\ syncAckDrops = DropFirstN["syncAck"]
    /\ inFlight = {}

--------------------------------------------------------------------------------
\* shouldDrop: the deterministic budget comes first, then the loss probability.
ShouldDrop(leg, budget) ==
    IF budget > 0 THEN {TRUE}
    ELSE {drop \in BOOLEAN : LossRate[leg] # (IF drop THEN "never" ELSE "always")}
Spend(budget) == IF budget > 0 THEN budget - 1 ELSE budget

\* sampleDelay(base, jitter), with the extra delay of the generation's profile.
SampleDelay(base, jitter) ==
    {IF base + j < 0 THEN 0 ELSE base + j : j \in (-jitter)..jitter}
Delays(leg, seq) ==
    SampleDelay((IF leg = "flowMod" THEN ControllerDelay ELSE 0)
                  + LegDelay[leg] + ExtraDelay[seq][leg],
                LegJitter[leg])

\* Simulator::Schedule(d, call, m): the call joins the calls in rest.  An operation
\* of this controller schedules at most one call.
Scheduled(rest, d, c, m) ==
    rest \cup {[uid |-> LegUid, at |-> now + d, msg |-> m, call |-> c]}

--------------------------------------------------------------------------------
\* deliverSyncAck: a notice of an expired route is suppressed, others may be lost.
DeliverSyncAck(m, ack) ==
    IF IsExpiredAt(m, now)
    THEN ack = FALSE /\ UNCHANGED syncAckDrops
    ELSE \E drop \in ShouldDrop("syncAck", syncAckDrops) :
            ack = ~drop /\ syncAckDrops' = Spend(syncAckDrops)

\* scheduleSyncAck: without a delay the notice is delivered before it returns.
ScheduleSyncAck(m, rest, ack) ==
    \E d \in Delays("syncAck", m.seq) :
        IF d = 0
        THEN DeliverSyncAck(m, ack) /\ inFlight' = rest
        ELSE /\ ack = FALSE /\ UNCHANGED syncAckDrops
             /\ inFlight' = Scheduled(rest, d, "deliverSyncAck", m)

\* The tests that make acceptControl drop a request: it is expired, or the guard
\* knows a newer generation, or the same generation with another content.
Refused_ExpiredOnly(m) == IsExpiredAt(m, now)
Refused_Duplicate(m) ==
    IsExpiredAt(m, now) \/ (GenerationGuard /\ m.seq <= prefixState[m.prefix].accepted.seq)
Refused(m) ==
    LET known == prefixState[m.prefix].accepted IN
    \/ IsExpiredAt(m, now)
    \/ /\ GenerationGuard
       /\ \/ m.seq < known.seq
          \/ m.seq = known.seq /\ ~SameUpdate(m, known)

\* The guard knows that this generation is installed: only its notice is replayed.
AlreadyApplied_Never(m) == FALSE
AlreadyApplied(m) == GenerationGuard /\ prefixState[m.prefix].applied.seq = m.seq

\* acceptControl
AcceptControl(m, rest, ack) ==
    IF Refused(m)
    THEN ack = FALSE /\ inFlight' = rest /\ UNCHANGED <<prefixState, syncAckDrops>>
    ELSE IF AlreadyApplied(m) /\ prefixState[m.prefix].accepted.seq = m.seq
    THEN ScheduleSyncAck(m, rest, ack) /\ UNCHANGED prefixState
    ELSE /\ ack = FALSE /\ UNCHANGED syncAckDrops
         /\ prefixState' = IF GenerationGuard
                           THEN [prefixState EXCEPT ![m.prefix].accepted = m]
                           ELSE prefixState
         /\ \E d \in Delays("flowMod", m.seq) :
               inFlight' = Scheduled(rest, d, "attemptFlowMod", m)

\* submitFlowUpdate
SubmitFlowUpdate(m, ack) ==
    /\ controlDrops' = Spend(controlDrops)
    /\ \E drop \in ShouldDrop("control", controlDrops) :
          IF drop
          THEN ack = FALSE /\ UNCHANGED <<prefixState, syncAckDrops, inFlight>>
          ELSE \E d \in Delays("control", m.seq) :
                  IF d = 0
                  THEN AcceptControl(m, inFlight, ack)
                  ELSE /\ ack = FALSE /\ UNCHANGED <<prefixState, syncAckDrops>>
                       /\ inFlight' = Scheduled(inFlight, d, "acceptControl", m)
    /\ UNCHANGED flowModDrops

\* The tests that make attemptFlowMod give up before it reaches the switch.
Superseded_Never(m) == IsExpiredAt(m, now)
Superseded(m) ==
    \/ IsExpiredAt(m, now)
    \/ /\ GenerationGuard
       /\ \/ prefixState[m.prefix].accepted = NoMessage
          \/ m.seq < prefixState[m.prefix].accepted.seq

\* attemptFlowMod.  sinkAccepts is the answer that the FlowMod sink would give;
\* applied is TRUE when the sink was called and installed the route.
AttemptFlowMod(m, rest, sinkAccepts, applied, ack) ==
    IF Superseded(m)
    THEN /\ applied = FALSE /\ ack = FALSE /\ inFlight' = rest
         /\ UNCHANGED <<prefixState, flowModDrops, syncAckDrops>>
    ELSE IF AlreadyApplied(m)
    THEN /\ applied = FALSE /\ ScheduleSyncAck(m, rest, ack)
         /\ UNCHANGED <<prefixState, flowModDrops>>
    ELSE /\ flowModDrops' = Spend(flowModDrops)
         /\ \E drop \in ShouldDrop("flowMod", flowModDrops) :
               /\ applied = (~drop /\ sinkAccepts)
               /\ IF applied
                  THEN /\ prefixState' = IF GenerationGuard
                                         THEN [prefixState EXCEPT ![m.prefix].applied = m]
                                         ELSE prefixState
                       /\ ScheduleSyncAck(m, rest, ack)
                  ELSE /\ ack = FALSE /\ inFlight' = rest
                       /\ UNCHANGED <<prefixState, syncAckDrops>>
================================================================================
