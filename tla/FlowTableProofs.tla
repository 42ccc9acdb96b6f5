----------------------------- MODULE FlowTableProofs ---------------------------
(***************************************************************************)
(* Facts about the flow-table controller, whoever its client is: what each  *)
(* operation does to its state, and what the generation guard keeps true.   *)
(***************************************************************************)
EXTENDS FlowTableController, TLAPS

USE DEF NoSeq, NoLease, NoTimer

--------------------------------------------------------------------------------
(* What the helpers return *)

\* A sampled delay is a natural number.
LEMMA DelaysNat ==
  ASSUME NEW leg \in Leg, NEW g \in Generation
  PROVE  Delays(leg, g) \subseteq Nat
<1>1. \A b \in Nat, j \in Int : (IF b + j < 0 THEN 0 ELSE b + j) \in Nat
  OBVIOUS
<1>2. /\ ControllerDelay \in Nat /\ LegDelay[leg] \in Nat /\ LegJitter[leg] \in Nat
      /\ ExtraDelay[g][leg] \in Nat
  BY ControllerAssumption
<1>3. (IF leg = "flowMod" THEN ControllerDelay ELSE 0) + LegDelay[leg] + ExtraDelay[g][leg]
         \in Nat
  BY <1>2
<1> QED
  BY <1>1, <1>2, <1>3 DEF Delays, SampleDelay

\* A drop decision is a Boolean, and a spent budget is still a natural number.
LEMMA DropsTyped ==
  ASSUME NEW leg, NEW b \in Nat
  PROVE  ShouldDrop(leg, b) \subseteq BOOLEAN /\ Spend(b) \in Nat
<1>1. ShouldDrop(leg, b) \subseteq BOOLEAN
  BY Zenon DEF ShouldDrop
<1> QED
  BY <1>1 DEF Spend

\* A scheduled call is well formed.
LEMMA ScheduledTyped ==
  ASSUME now \in Nat, nextUid \in Nat, NEW m \in Message, NEW d \in Nat,
         NEW c \in {"acceptControl", "attemptFlowMod", "deliverSyncAck"}, NEW rest
  PROVE  \E e \in LegCall : /\ e.msg = m /\ e.call = c /\ e.uid = LegUid /\ e.at = now + d
                            /\ Scheduled(rest, d, c, m) = rest \cup {e}
<1> DEFINE e == [uid |-> LegUid, at |-> now + d, msg |-> m, call |-> c]
<1>1. e \in LegCall
  BY DEF LegCall, LegUid
<1> QED
  BY <1>1 DEF Scheduled

\* The message of a generation, and its fields.
LEMMA MessageFields ==
  ASSUME NEW m \in Message
  PROVE  /\ m.prefix \in Prefix /\ m.seq \in Generation /\ m.seq \in Nat /\ m.port \in Port
         /\ m.expiry \in Nat /\ m # NoMessage
<1>1. NoMessage.seq = -1
  BY DEF NoMessage
<1>2. /\ m.prefix \in Prefix /\ m.seq \in Generation /\ m.port \in Port /\ m.expiry \in Nat
  BY DEF Message
<1>3. m.seq \in Nat
  BY <1>2, GenerationAssumption
<1>4. m.seq # -1
  BY <1>3
<1> QED
  BY <1>1, <1>2, <1>3
--------------------------------------------------------------------------------
(* What the operations of the flow-table controller do *)

\* The calls in flight after an operation on m: those in rest, and at most one new one.
GrowsBy(rest, m, c) ==
    \/ inFlight' = rest
    \/ \E e \in LegCall : /\ e.msg = m /\ e.call = c /\ e.uid = LegUid /\ e.at >= now
                          /\ inFlight' = rest \cup {e}

\* deliverSyncAck and scheduleSyncAck only bring the notice on its way.
LEMMA SyncAckEffect ==
  ASSUME ControllerTypeOK, now \in Nat, nextUid \in Nat, NEW m \in Message, NEW rest, NEW ack \in BOOLEAN,
         ScheduleSyncAck(m, rest, ack)
  PROVE  syncAckDrops' \in Nat /\ GrowsBy(rest, m, "deliverSyncAck")
<1>0. syncAckDrops \in Nat /\ now \in Nat /\ nextUid \in Nat
  BY DEF ControllerTypeOK
<1>1. PICK d \in Delays("syncAck", m.seq) :
         IF d = 0
         THEN DeliverSyncAck(m, ack) /\ inFlight' = rest
         ELSE /\ ack = FALSE /\ UNCHANGED syncAckDrops
              /\ inFlight' = Scheduled(rest, d, "deliverSyncAck", m)
  BY DEF ScheduleSyncAck
<1>2. d \in Nat
  BY DelaysNat, MessageFields DEF Leg
<1>3. CASE d = 0
  BY <1>0, <1>1, <1>3, DropsTyped DEF DeliverSyncAck, GrowsBy
<1>4. CASE d # 0
  <2>1. UNCHANGED syncAckDrops /\ inFlight' = Scheduled(rest, d, "deliverSyncAck", m)
    BY <1>1, <1>4
  <2> QED
    BY <1>0, <1>2, <2>1, ScheduledTyped DEF GrowsBy
<1> QED
  BY <1>3, <1>4

\* What acceptControl and submitFlowUpdate may do with m: nothing but replay a notice of
\* the applied generation, record m as accepted and schedule its FlowMod, or bring the
\* request on its way.
IsKnown(m) ==
    AlreadyApplied(m) /\ ~Refused(m) /\ prefixState[m.prefix].accepted.seq = m.seq
Taken(rest, m, ack) ==
    \/ /\ ack => IsKnown(m)
       /\ UNCHANGED prefixState
       /\ inFlight' = rest \/ (IsKnown(m) /\ GrowsBy(rest, m, "deliverSyncAck"))
    \/ /\ ~ack /\ ~Refused(m)
       /\ prefixState' = IF GenerationGuard
                         THEN [prefixState EXCEPT ![m.prefix].accepted = m]
                         ELSE prefixState
       /\ GrowsBy(rest, m, "attemptFlowMod")
    \/ /\ ~ack
       /\ UNCHANGED prefixState
       /\ GrowsBy(rest, m, "acceptControl")

\* acceptControl takes the message or leaves the state of the prefixes alone.
LEMMA AcceptEffect ==
  ASSUME ControllerTypeOK, now \in Nat, nextUid \in Nat, NEW m \in Message, NEW rest, NEW ack \in BOOLEAN,
         AcceptControl(m, rest, ack)
  PROVE  syncAckDrops' \in Nat /\ Taken(rest, m, ack)
<1>0. syncAckDrops \in Nat /\ now \in Nat /\ nextUid \in Nat
  BY DEF ControllerTypeOK
<1>1. CASE Refused(m)
  BY <1>0, <1>1 DEF AcceptControl, Taken
<1>2. CASE ~Refused(m) /\ AlreadyApplied(m) /\ prefixState[m.prefix].accepted.seq = m.seq
  <2>1. ScheduleSyncAck(m, rest, ack) /\ UNCHANGED prefixState
    BY <1>2 DEF AcceptControl
  <2> QED
    BY <1>2, <2>1, SyncAckEffect DEF Taken, IsKnown
<1>3. CASE ~Refused(m) /\ ~(AlreadyApplied(m) /\ prefixState[m.prefix].accepted.seq = m.seq)
  <2>1. /\ ack = FALSE /\ UNCHANGED syncAckDrops
        /\ prefixState' = IF GenerationGuard
                          THEN [prefixState EXCEPT ![m.prefix].accepted = m]
                          ELSE prefixState
        /\ \E d \in Delays("flowMod", m.seq) :
              inFlight' = Scheduled(rest, d, "attemptFlowMod", m)
    BY <1>3 DEF AcceptControl
  <2>2. PICK d \in Delays("flowMod", m.seq) :
           inFlight' = Scheduled(rest, d, "attemptFlowMod", m)
    BY <2>1
  <2>3. d \in Nat
    BY DelaysNat, MessageFields DEF Leg
  <2>4. GrowsBy(rest, m, "attemptFlowMod")
    BY <1>0, <2>2, <2>3, ScheduledTyped DEF GrowsBy
  <2> QED
    BY <1>0, <1>3, <2>1, <2>4 DEF Taken
<1> QED
  BY <1>1, <1>2, <1>3

\* submitFlowUpdate, which may call acceptControl at once.
LEMMA SubmitEffect ==
  ASSUME ControllerTypeOK, now \in Nat, nextUid \in Nat, NEW m \in Message, NEW ack \in BOOLEAN, SubmitFlowUpdate(m, ack)
  PROVE  /\ controlDrops' \in Nat /\ syncAckDrops' \in Nat /\ UNCHANGED flowModDrops
         /\ Taken(inFlight, m, ack)
<1>0. controlDrops \in Nat /\ syncAckDrops \in Nat /\ now \in Nat /\ nextUid \in Nat
  BY DEF ControllerTypeOK
<1>1. controlDrops' \in Nat /\ UNCHANGED flowModDrops
  BY <1>0, DropsTyped DEF SubmitFlowUpdate
<1>2. PICK drop \in ShouldDrop("control", controlDrops) :
         IF drop
         THEN ack = FALSE /\ UNCHANGED <<prefixState, syncAckDrops, inFlight>>
         ELSE \E d \in Delays("control", m.seq) :
                 IF d = 0
                 THEN AcceptControl(m, inFlight, ack)
                 ELSE /\ ack = FALSE /\ UNCHANGED <<prefixState, syncAckDrops>>
                      /\ inFlight' = Scheduled(inFlight, d, "acceptControl", m)
  BY DEF SubmitFlowUpdate
<1>3. CASE drop
  BY <1>0, <1>1, <1>2, <1>3 DEF Taken
<1>4. CASE ~drop
  <2>1. PICK d \in Delays("control", m.seq) :
                 IF d = 0
                 THEN AcceptControl(m, inFlight, ack)
                 ELSE /\ ack = FALSE /\ UNCHANGED <<prefixState, syncAckDrops>>
                      /\ inFlight' = Scheduled(inFlight, d, "acceptControl", m)
    BY <1>2, <1>4
  <2>2. CASE d = 0
    BY <1>1, <2>1, <2>2, AcceptEffect
  <2>3. CASE d # 0
    <3>1. d \in Nat
      BY DelaysNat, MessageFields DEF Leg
    <3>2. /\ ack = FALSE /\ UNCHANGED <<prefixState, syncAckDrops>>
          /\ inFlight' = Scheduled(inFlight, d, "acceptControl", m)
      BY <2>1, <2>3
    <3>3. GrowsBy(inFlight, m, "acceptControl")
      BY <1>0, <3>1, <3>2, ScheduledTyped DEF GrowsBy
    <3> QED
      BY <1>0, <1>1, <3>2, <3>3 DEF Taken
  <2> QED
    BY <2>2, <2>3
<1> QED
  BY <1>3, <1>4

\* attemptFlowMod gives up, replays the notice of the applied generation, or installs m.
LEMMA AttemptEffect ==
  ASSUME ControllerTypeOK, now \in Nat, nextUid \in Nat, NEW m \in Message, NEW rest, NEW sinkAccepts \in BOOLEAN,
         NEW applied \in BOOLEAN, NEW ack \in BOOLEAN,
         AttemptFlowMod(m, rest, sinkAccepts, applied, ack)
  PROVE  /\ flowModDrops' \in Nat /\ syncAckDrops' \in Nat
         /\ \/ ~applied /\ ~ack /\ UNCHANGED prefixState /\ inFlight' = rest
            \/ /\ ~applied /\ ~Superseded(m) /\ AlreadyApplied(m) /\ UNCHANGED prefixState
               /\ GrowsBy(rest, m, "deliverSyncAck")
            \/ /\ applied /\ ~Superseded(m) /\ ~AlreadyApplied(m)
               /\ prefixState' = IF GenerationGuard
                                 THEN [prefixState EXCEPT ![m.prefix].applied = m]
                                 ELSE prefixState
               /\ GrowsBy(rest, m, "deliverSyncAck")
<1>0. flowModDrops \in Nat /\ syncAckDrops \in Nat
  BY DEF ControllerTypeOK
<1>1. CASE Superseded(m)
  BY <1>0, <1>1 DEF AttemptFlowMod
<1>2. CASE ~Superseded(m) /\ AlreadyApplied(m)
  <2>1. /\ applied = FALSE /\ ScheduleSyncAck(m, rest, ack)
        /\ UNCHANGED <<prefixState, flowModDrops>>
    BY <1>2 DEF AttemptFlowMod
  <2> QED
    BY <1>0, <1>2, <2>1, SyncAckEffect
<1>3. CASE ~Superseded(m) /\ ~AlreadyApplied(m)
  <2>1. flowModDrops' \in Nat
    BY <1>0, <1>3, DropsTyped DEF AttemptFlowMod
  <2>2. IF applied
        THEN /\ prefixState' = IF GenerationGuard
                               THEN [prefixState EXCEPT ![m.prefix].applied = m]
                               ELSE prefixState
             /\ ScheduleSyncAck(m, rest, ack)
        ELSE /\ ack = FALSE /\ inFlight' = rest
             /\ UNCHANGED <<prefixState, syncAckDrops>>
    BY <1>3 DEF AttemptFlowMod
  <2>3. CASE applied
    BY <1>3, <2>1, <2>2, <2>3, SyncAckEffect
  <2>4. CASE ~applied
    BY <1>0, <2>1, <2>2, <2>4
  <2> QED
    BY <2>3, <2>4
<1> QED
  BY <1>1, <1>2, <1>3

\* The controller's state stays typed when the calls in flight grow by one call on m.
LEMMA GrowsTyped ==
  ASSUME NEW m \in Message, NEW rest \in SUBSET LegCall, NEW c, GrowsBy(rest, m, c)
  PROVE  inFlight' \subseteq LegCall
BY DEF GrowsBy

\* A message that is taken leaves the controller's state typed.
LEMMA TakenTyped ==
  ASSUME ControllerTypeOK, NEW m \in Message, NEW rest \in SUBSET LegCall, NEW ack \in BOOLEAN,
         Taken(rest, m, ack)
  PROVE  prefixState' \in [Prefix -> PrefixState] /\ inFlight' \subseteq LegCall
<1>1. prefixState \in [Prefix -> PrefixState]
  BY DEF ControllerTypeOK
<1>2. [prefixState EXCEPT ![m.prefix].accepted = m] \in [Prefix -> PrefixState]
  BY <1>1, MessageFields DEF PrefixState
<1>3. inFlight' \subseteq LegCall
  BY GrowsTyped DEF Taken
<1> QED
  BY <1>1, <1>2, <1>3 DEF Taken

--------------------------------------------------------------------------------
(* What the generation guard keeps true *)

\* m is n itself or of an older generation: never another decision of n's generation.
NotNewer(m, n) == m.seq <= n.seq /\ (m.seq = n.seq => m = n)

\* The inductive invariant of the guard.  What is applied was accepted; a FlowMod on its
\* way carries the accepted message or an older generation; a notice on its way carries
\* the applied message or an older generation.
GuardInv ==
    /\ \A p \in Prefix :
          /\ prefixState[p].accepted # NoMessage => prefixState[p].accepted.prefix = p
          /\ prefixState[p].applied # NoMessage => prefixState[p].applied.prefix = p
          /\ NotNewer(prefixState[p].applied, prefixState[p].accepted)
    /\ \A e \in inFlight :
          /\ e.call = "attemptFlowMod" => NotNewer(e.msg, prefixState[e.msg.prefix].accepted)
          /\ e.call = "deliverSyncAck" => NotNewer(e.msg, prefixState[e.msg.prefix].applied)

\* The accepted and the applied record of a prefix, and their generations.
LEMMA RecordFields ==
  ASSUME ControllerTypeOK, NEW p \in Prefix
  PROVE  /\ prefixState[p].accepted \in Message \cup {NoMessage}
         /\ prefixState[p].applied \in Message \cup {NoMessage}
         /\ prefixState[p].accepted.seq \in Int /\ prefixState[p].applied.seq \in Int
<1>1. /\ prefixState[p].accepted \in Message \cup {NoMessage}
      /\ prefixState[p].applied \in Message \cup {NoMessage}
  BY DEF ControllerTypeOK, PrefixState
<1>2. \A m \in Message \cup {NoMessage} : m.seq \in Int
  BY MessageFields DEF NoMessage
<1> QED
  BY <1>1, <1>2

\* A notice is replayed only for the very message that is applied.
LEMMA ReplayIsApplied ==
  ASSUME ControllerTypeOK, GenerationGuard, GuardInv, NEW m \in Message,
         \/ IsKnown(m)
         \/ /\ AlreadyApplied(m) /\ ~Superseded(m)
            /\ NotNewer(m, prefixState[m.prefix].accepted)
  PROVE  prefixState[m.prefix].applied = m
<1> DEFINE s == prefixState[m.prefix]
<1>0. /\ m.prefix \in Prefix /\ m.seq \in Nat /\ s.accepted.seq \in Int
      /\ s.applied.seq \in Int
  BY MessageFields, RecordFields
<1>1. NotNewer(s.applied, s.accepted)
  BY <1>0 DEF GuardInv
<1>2. s.applied.seq = m.seq
  BY DEF AlreadyApplied, IsKnown
<1>3. CASE IsKnown(m)
  <2>1. m = s.accepted
    BY <1>3 DEF IsKnown, Refused, SameUpdate
  <2> QED
    BY <1>1, <1>2, <2>1 DEF NotNewer
<1>4. CASE ~Superseded(m) /\ NotNewer(m, s.accepted)
  <2>1. s.accepted.seq = m.seq
    BY <1>0, <1>4 DEF Superseded, NotNewer
  <2> QED
    BY <1>1, <1>2, <1>4, <2>1 DEF NotNewer
<1> QED
  BY <1>3, <1>4

\* The calls in flight after an operation on m that leaves the records alone.
LEMMA GrowsGuard ==
  ASSUME ControllerTypeOK, GuardInv, NEW m \in Message, NEW rest \in SUBSET inFlight,
         NEW c \in {"acceptControl", "deliverSyncAck"},
         inFlight' = rest \/ GrowsBy(rest, m, c), UNCHANGED prefixState,
         c = "deliverSyncAck" => NotNewer(m, prefixState[m.prefix].applied)
  PROVE  GuardInv'
<1>1. ASSUME NEW e \in inFlight' PROVE
        /\ e.call = "attemptFlowMod" => NotNewer(e.msg, prefixState[e.msg.prefix].accepted)
        /\ e.call = "deliverSyncAck" => NotNewer(e.msg, prefixState[e.msg.prefix].applied)
  <2>1. e \in inFlight \/ (e.msg = m /\ e.call = c)
    BY <1>1 DEF GrowsBy
  <2> QED
    BY <2>1 DEF GuardInv
<1> QED
  BY <1>1 DEF GuardInv, NotNewer

\* acceptControl and submitFlowUpdate keep the guard's invariant, and a notice that comes
\* back from them is about the applied message.
LEMMA TakenGuard ==
  ASSUME ControllerTypeOK, GenerationGuard, GuardInv, NEW m \in Message,
         NEW rest \in SUBSET inFlight, NEW ack \in BOOLEAN, Taken(rest, m, ack)
  PROVE  /\ GuardInv'
         /\ ack => prefixState[m.prefix].applied = m
         /\ \A p \in Prefix : prefixState'[p].applied = prefixState[p].applied
<1>0. /\ m.prefix \in Prefix /\ m.seq \in Nat /\ prefixState \in [Prefix -> PrefixState]
      /\ inFlight \subseteq LegCall
  BY MessageFields DEF ControllerTypeOK
<1>1. CASE /\ ack => IsKnown(m)
           /\ UNCHANGED prefixState
           /\ inFlight' = rest \/ (IsKnown(m) /\ GrowsBy(rest, m, "deliverSyncAck"))
  <2>1. IsKnown(m) => prefixState[m.prefix].applied = m
    BY ReplayIsApplied
  <2>2. IsKnown(m) => NotNewer(m, prefixState[m.prefix].applied)
    BY <1>0, <2>1 DEF NotNewer
  <2>3. CASE inFlight' = rest
    <3>1. GuardInv'
      BY <1>1, <2>3 DEF GuardInv, NotNewer
    <3> QED
      BY <1>1, <2>1, <3>1
  <2>4. CASE IsKnown(m) /\ GrowsBy(rest, m, "deliverSyncAck")
    <3>1. GuardInv'
      BY <1>1, <2>2, <2>4, GrowsGuard
    <3> QED
      BY <1>1, <2>1, <3>1
  <2> QED
    BY <1>1, <2>3, <2>4
<1>2. CASE /\ ~ack /\ ~Refused(m)
           /\ prefixState' = [prefixState EXCEPT ![m.prefix].accepted = m]
           /\ GrowsBy(rest, m, "attemptFlowMod")
  <2>1. prefixState'[m.prefix].accepted = m
    BY <1>0, <1>2 DEF PrefixState
  <2>2. \A p \in Prefix : prefixState'[p].applied = prefixState[p].applied
    BY <1>0, <1>2 DEF PrefixState
  <2>3. \A p \in Prefix : p # m.prefix => prefixState'[p].accepted = prefixState[p].accepted
    BY <1>0, <1>2
  <2>4. NotNewer(prefixState[m.prefix].accepted, m)
    <3>1. prefixState[m.prefix].accepted.seq \in Int
      BY <1>0, RecordFields
    <3> QED
      BY <1>0, <1>2, <3>1 DEF Refused, NotNewer, SameUpdate
  <2>5. \A p \in Prefix : \A x \in Message \cup {NoMessage} :
           NotNewer(x, prefixState[p].accepted) => NotNewer(x, prefixState'[p].accepted)
    <3>1. \A p \in Prefix : prefixState[p].accepted.seq \in Int
      BY RecordFields
    <3>2. \A x \in Message \cup {NoMessage} : x.seq \in Int
      BY MessageFields DEF NoMessage
    <3>3. ASSUME NEW p \in Prefix, p = m.prefix, NEW x \in Message \cup {NoMessage},
                 NotNewer(x, prefixState[p].accepted)
          PROVE  NotNewer(x, prefixState'[p].accepted)
      BY <1>0, <2>1, <2>4, <3>1, <3>2, <3>3 DEF NotNewer
    <3> QED
      BY <2>3, <3>3
  <2>6. ASSUME NEW e \in inFlight' PROVE
          /\ e.call = "attemptFlowMod" => NotNewer(e.msg, prefixState'[e.msg.prefix].accepted)
          /\ e.call = "deliverSyncAck" => NotNewer(e.msg, prefixState'[e.msg.prefix].applied)
    <3>1. e \in inFlight \/ (e.msg = m /\ e.call = "attemptFlowMod")
      BY <1>2 DEF GrowsBy
    <3>2. CASE e \in inFlight
      <4>1. e.msg \in Message /\ e.msg.prefix \in Prefix
        BY <1>0, <3>2, MessageFields DEF LegCall
      <4> QED
        BY <2>2, <2>5, <3>2, <4>1 DEF GuardInv
    <3>3. CASE e.msg = m /\ e.call = "attemptFlowMod"
      BY <1>0, <2>1, <3>3 DEF NotNewer
    <3> QED
      BY <3>1, <3>2, <3>3
  <2>7. ASSUME NEW p \in Prefix PROVE
          /\ prefixState'[p].accepted # NoMessage => prefixState'[p].accepted.prefix = p
          /\ prefixState'[p].applied # NoMessage => prefixState'[p].applied.prefix = p
          /\ NotNewer(prefixState'[p].applied, prefixState'[p].accepted)
    <3>1. prefixState[p].applied \in Message \cup {NoMessage}
      BY RecordFields
    <3> QED
      BY <2>1, <2>2, <2>3, <2>5, <3>1 DEF GuardInv
  <2> QED
    BY <1>2, <2>2, <2>6, <2>7 DEF GuardInv, NotNewer
<1>3. CASE ~ack /\ UNCHANGED prefixState /\ GrowsBy(rest, m, "acceptControl")
  <2>1. GuardInv'
    BY <1>3, GrowsGuard
  <2> QED
    BY <1>3, <2>1
<1> QED
  BY <1>1, <1>2, <1>3 DEF Taken

\* attemptFlowMod keeps the guard's invariant: it applies only the accepted message, over
\* an older generation, and a notice that comes back is about the applied message.
LEMMA AttemptGuard ==
  ASSUME ControllerTypeOK, now \in Nat, nextUid \in Nat, GenerationGuard, GuardInv,
         NEW e \in inFlight, e.call = "attemptFlowMod", NEW sinkAccepts \in BOOLEAN,
         NEW applied \in BOOLEAN, NEW ack \in BOOLEAN,
         AttemptFlowMod(e.msg, inFlight \ {e}, sinkAccepts, applied, ack)
  PROVE  /\ GuardInv'
         /\ ack => prefixState'[e.msg.prefix].applied = e.msg
         /\ applied => /\ prefixState[e.msg.prefix].applied.seq < e.msg.seq
                       /\ ~IsExpiredAt(e.msg, now)
         /\ \A p \in Prefix : /\ prefixState'[p].accepted = prefixState[p].accepted
                              /\ applied /\ p = e.msg.prefix => prefixState'[p].applied = e.msg
                              /\ ~applied \/ p # e.msg.prefix =>
                                    prefixState'[p].applied = prefixState[p].applied
         /\ ~applied => UNCHANGED prefixState
         /\ \A f \in inFlight' : (f \in inFlight /\ f # e) \/ (f.msg = e.msg /\ f.call = "deliverSyncAck")
<1> DEFINE m == e.msg
           rest == inFlight \ {e}
<1>a. m \in Message /\ rest \in SUBSET inFlight /\ NotNewer(m, prefixState[m.prefix].accepted)
  BY DEF ControllerTypeOK, LegCall, GuardInv
<1>b. inFlight' = rest \/ GrowsBy(rest, m, "deliverSyncAck") =>
        \A f \in inFlight' : (f \in inFlight /\ f # e) \/ (f.msg = m /\ f.call = "deliverSyncAck")
  BY DEF GrowsBy
<1>0. /\ m.prefix \in Prefix /\ m.seq \in Nat /\ prefixState \in [Prefix -> PrefixState]
      /\ inFlight \subseteq LegCall
      /\ \A p \in Prefix : prefixState[p].accepted.seq \in Int /\ prefixState[p].applied.seq \in Int
  BY <1>a, MessageFields, RecordFields DEF ControllerTypeOK
<1>1. CASE ~applied /\ ~ack /\ UNCHANGED prefixState /\ inFlight' = rest
  <2>1. GuardInv'
    BY <1>1 DEF GuardInv, NotNewer
  <2> QED
    BY <1>1, <1>b, <2>1
<1>2. CASE /\ ~applied /\ ~Superseded(m) /\ AlreadyApplied(m) /\ UNCHANGED prefixState
           /\ GrowsBy(rest, m, "deliverSyncAck")
  <2>1. prefixState[m.prefix].applied = m
    BY <1>2, <1>a, ReplayIsApplied
  <2>2. GuardInv'
    BY <1>0, <1>2, <1>a, <2>1, GrowsGuard DEF NotNewer
  <2> QED
    BY <1>2, <1>b, <2>1, <2>2
<1>3. CASE /\ applied /\ ~Superseded(m) /\ ~AlreadyApplied(m)
           /\ prefixState' = [prefixState EXCEPT ![m.prefix].applied = m]
           /\ GrowsBy(rest, m, "deliverSyncAck")
  <2>1. prefixState[m.prefix].accepted = m
    <3>1. ~(m.seq < prefixState[m.prefix].accepted.seq)
      BY <1>3 DEF Superseded
    <3> QED
      BY <1>0, <1>a, <3>1 DEF NotNewer
  <2>2. prefixState[m.prefix].applied.seq < m.seq
    <3>1. prefixState[m.prefix].applied.seq <= m.seq
      BY <1>0, <2>1 DEF GuardInv, NotNewer
    <3>2. prefixState[m.prefix].applied.seq # m.seq
      BY <1>3 DEF AlreadyApplied
    <3> QED
      BY <1>0, <3>1, <3>2
  <2>3. prefixState'[m.prefix].applied = m
    BY <1>0, <1>3 DEF PrefixState
  <2>4. \A p \in Prefix : prefixState'[p].accepted = prefixState[p].accepted
    BY <1>0, <1>3 DEF PrefixState
  <2>5. \A p \in Prefix : p # m.prefix => prefixState'[p].applied = prefixState[p].applied
    BY <1>0, <1>3
  <2>6. ASSUME NEW f \in inFlight' PROVE
          /\ f.call = "attemptFlowMod" => NotNewer(f.msg, prefixState'[f.msg.prefix].accepted)
          /\ f.call = "deliverSyncAck" => NotNewer(f.msg, prefixState'[f.msg.prefix].applied)
    <3>1. f \in inFlight \/ (f.msg = m /\ f.call = "deliverSyncAck")
      BY <1>3 DEF GrowsBy
    <3>2. CASE f \in inFlight
      <4>1. f.msg.seq \in Nat /\ f.msg.prefix \in Prefix
        BY <1>0, <3>2, MessageFields DEF LegCall
      <4>2. f.call = "deliverSyncAck" => NotNewer(f.msg, prefixState'[f.msg.prefix].applied)
        <5>1. CASE f.msg.prefix = m.prefix
          BY <1>0, <2>2, <2>3, <3>2, <4>1, <5>1 DEF GuardInv, NotNewer
        <5>2. CASE f.msg.prefix # m.prefix
          BY <2>5, <3>2, <4>1, <5>2 DEF GuardInv
        <5> QED
          BY <5>1, <5>2
      <4> QED
        BY <2>4, <3>2, <4>1, <4>2 DEF GuardInv
    <3>3. CASE f.msg = m /\ f.call = "deliverSyncAck"
      BY <1>0, <2>3, <3>3 DEF NotNewer
    <3> QED
      BY <3>1, <3>2, <3>3
  <2>7. ASSUME NEW p \in Prefix PROVE
          /\ prefixState'[p].accepted # NoMessage => prefixState'[p].accepted.prefix = p
          /\ prefixState'[p].applied # NoMessage => prefixState'[p].applied.prefix = p
          /\ NotNewer(prefixState'[p].applied, prefixState'[p].accepted)
    <3>1. CASE p = m.prefix
      BY <1>0, <2>1, <2>3, <2>4, <3>1 DEF GuardInv, NotNewer
    <3>2. CASE p # m.prefix
      BY <2>4, <2>5, <3>2 DEF GuardInv
    <3> QED
      BY <3>1, <3>2
  <2>8. GuardInv'
    BY <2>6, <2>7 DEF GuardInv, NotNewer
  <2> QED
    BY <1>0, <1>3, <1>b, <2>2, <2>3, <2>4, <2>5, <2>8 DEF Superseded
<1> QED
  BY <1>1, <1>2, <1>3, <1>a, AttemptEffect
================================================================================
