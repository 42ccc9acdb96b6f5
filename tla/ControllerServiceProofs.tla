------------------------- MODULE ControllerServiceProofs -----------------------
(***************************************************************************)
(* The flow-table controller, for every client: whatever is submitted, in   *)
(* whatever order, and whatever the legs lose and delay and the sink        *)
(* refuses, a notice tells of an installation and installations are in      *)
(* order.                                                                   *)
(***************************************************************************)
EXTENDS ControllerService, FlowTableProofs

USE DEF NoSeq, NoLease, NoTimer

\* The inductive invariant.  Every record of an installation (a notice that was delivered
\* or is on its way, the applied message of a prefix) is of a message that was installed,
\* and no installation of a prefix is newer than the applied message.
Recorded ==
    /\ acked \subseteq Installed
    /\ \A e \in inFlight : e.call = "deliverSyncAck" => e.msg \in Installed
    /\ GenerationGuard =>
          \A p \in Prefix : prefixState[p].applied # NoMessage => prefixState[p].applied \in Installed
Ordered ==
    /\ \A i \in DOMAIN installs : installs[i].seq <= prefixState[installs[i].prefix].applied.seq
    /\ \A i, j \in DOMAIN installs :
          i < j /\ installs[i].prefix = installs[j].prefix => installs[i].seq < installs[j].seq
Types ==
    /\ ServiceTypeOK /\ nextUid \in Nat /\ installs \in Seq(Message)
ServiceInv ==
    /\ Types
    /\ Recorded
    /\ GenerationGuard => GuardInv /\ Ordered

\* Installed after one more installation.
LEMMA InstallsGrow ==
  ASSUME installs \in Seq(Message), NEW m \in Message, installs' = Append(installs, m)
  PROVE  /\ installs' \in Seq(Message) /\ Installed' = Installed \cup {m}
         /\ DOMAIN installs = 1..Len(installs) /\ Len(installs) \in Nat
         /\ DOMAIN installs' = 1..(Len(installs) + 1)
         /\ installs'[Len(installs) + 1] = m
         /\ \A i \in DOMAIN installs : i \in DOMAIN installs' /\ installs'[i] = installs[i]
<1>1. /\ installs' \in Seq(Message)
      /\ DOMAIN installs = 1..Len(installs) /\ Len(installs) \in Nat
      /\ DOMAIN installs' = 1..(Len(installs) + 1)
      /\ installs'[Len(installs) + 1] = m
      /\ \A i \in 1..Len(installs) : installs'[i] = installs[i]
  OBVIOUS
<1>2. \A i \in DOMAIN installs : i \in DOMAIN installs' /\ installs'[i] = installs[i]
  BY <1>1
<1>3. Installed' = Installed \cup {m}
  <2>1. ASSUME NEW x \in Installed' PROVE x \in Installed \cup {m}
    <3>1. PICK i \in DOMAIN installs' : x = installs'[i]
      BY <2>1 DEF Installed
    <3>2. CASE i = Len(installs) + 1
      BY <1>1, <3>1, <3>2
    <3>3. CASE i \in DOMAIN installs
      BY <1>2, <3>1, <3>3 DEF Installed
    <3> QED
      BY <1>1, <3>1, <3>2, <3>3
  <2>2. ASSUME NEW x \in Installed PROVE x \in Installed'
    BY <1>2, <2>2 DEF Installed
  <2>3. m \in Installed'
    <3>1. Len(installs) + 1 \in DOMAIN installs'
      BY <1>1
    <3> QED
      BY <1>1, <3>1 DEF Installed
  <2> QED
    BY <2>1, <2>2, <2>3
<1> QED
  BY <1>1, <1>2, <1>3

\* The installations stay in order when the applied messages stay as they are.
LEMMA SameOrder ==
  ASSUME Ordered, UNCHANGED installs, installs \in Seq(Message),
         \A p \in Prefix : prefixState'[p].applied = prefixState[p].applied
  PROVE  Ordered'
<1>1. \A i \in DOMAIN installs : installs[i].prefix \in Prefix
  BY MessageFields
<1> QED
  BY <1>1 DEF Ordered

\* submitFlowUpdate and acceptControl: a client's message m is taken.
LEMMA TakenService ==
  ASSUME ServiceInv, NEW m \in Message, NEW rest \in SUBSET inFlight, NEW ack \in BOOLEAN,
         Taken(rest, m, ack), RecordAck(m, ack), UNCHANGED installs
  PROVE  Recorded' /\ (GenerationGuard => GuardInv' /\ Ordered')
<1>0. /\ ControllerTypeOK /\ m.prefix \in Prefix /\ prefixState \in [Prefix -> PrefixState]
      /\ installs \in Seq(Message) /\ m # NoMessage
  BY MessageFields DEF ServiceInv, Types, ServiceTypeOK, ControllerTypeOK
<1>1. Installed' = Installed
  BY DEF Installed
<1>2. CASE GenerationGuard
  <2>1. /\ GuardInv' /\ (ack => prefixState[m.prefix].applied = m)
        /\ \A p \in Prefix : prefixState'[p].applied = prefixState[p].applied
    BY <1>0, <1>2, TakenGuard DEF ServiceInv
  <2>2. IsKnown(m) => prefixState[m.prefix].applied = m
    BY <1>0, <1>2, ReplayIsApplied DEF ServiceInv
  <2>3. ack \/ IsKnown(m) => m \in Installed
    BY <1>0, <1>2, <2>1, <2>2 DEF ServiceInv, Recorded
  <2>4. \A e \in inFlight' : e \in inFlight \/ (e.msg = m /\ (e.call = "deliverSyncAck" => IsKnown(m)))
    BY DEF Taken, GrowsBy
  <2>5. Recorded'
    BY <1>1, <2>1, <2>3, <2>4 DEF ServiceInv, Recorded, RecordAck
  <2>6. Ordered'
    BY <1>0, <1>2, <2>1, SameOrder DEF ServiceInv
  <2> QED
    BY <2>1, <2>5, <2>6
<1>3. CASE ~GenerationGuard
  <2>1. ~IsKnown(m)
    BY <1>3 DEF IsKnown, AlreadyApplied
  <2>2. ~ack /\ \A e \in inFlight' : e \in inFlight \/ e.call # "deliverSyncAck"
    BY <2>1 DEF Taken, GrowsBy
  <2> QED
    BY <1>1, <1>3, <2>2 DEF ServiceInv, Recorded, RecordAck
<1> QED
  BY <1>2, <1>3

\* attemptFlowMod on the FlowMod e.
LEMMA AttemptService ==
  ASSUME ServiceInv, NEW e \in inFlight, e.call = "attemptFlowMod",
         NEW sinkAccepts \in BOOLEAN, NEW applied \in BOOLEAN, NEW ack \in BOOLEAN,
         AttemptFlowMod(e.msg, inFlight \ {e}, sinkAccepts, applied, ack),
         RecordAck(e.msg, ack),
         installs' = IF applied THEN Append(installs, e.msg) ELSE installs
  PROVE  Recorded' /\ (GenerationGuard => GuardInv' /\ Ordered') /\ installs' \in Seq(Message)
<1> DEFINE m == e.msg
<1>0. /\ ControllerTypeOK /\ m \in Message /\ m.prefix \in Prefix /\ m.seq \in Nat
      /\ prefixState \in [Prefix -> PrefixState] /\ now \in Nat /\ nextUid \in Nat
      /\ installs \in Seq(Message) /\ m # NoMessage
  <2>1. m \in Message
    BY DEF ServiceInv, Types, ServiceTypeOK, ControllerTypeOK, LegCall
  <2> QED
    BY <2>1, MessageFields, HorizonAssumption DEF ServiceInv, Types, ServiceTypeOK, ControllerTypeOK
<1>1. CASE ~applied
  <2>1. Installed' = Installed /\ installs' = installs
    BY <1>1 DEF Installed
  <2>2. CASE GenerationGuard
    <3>0. GuardInv
      BY <2>2 DEF ServiceInv
    <3>1. NotNewer(m, prefixState[m.prefix].accepted)
      BY <3>0 DEF GuardInv
    <3>2. /\ GuardInv' /\ (ack => prefixState'[m.prefix].applied = m) /\ prefixState' = prefixState
      BY <1>0, <1>1, <2>2, <3>0, AttemptGuard
    <3>3. \/ ~ack /\ inFlight' = inFlight \ {e}
          \/ ~Superseded(m) /\ AlreadyApplied(m) /\ GrowsBy(inFlight \ {e}, m, "deliverSyncAck")
      BY <1>0, <1>1, AttemptEffect
    <3>4. ~Superseded(m) /\ AlreadyApplied(m) => prefixState[m.prefix].applied = m
      BY <1>0, <2>2, <3>1, ReplayIsApplied DEF ServiceInv
    <3>5. \A f \in inFlight' : f \in inFlight \/ (f.msg = m /\ m \in Installed)
      BY <1>0, <2>2, <3>3, <3>4 DEF GrowsBy, ServiceInv, Recorded
    <3>6. ack => m \in Installed
      BY <1>0, <2>2, <3>2 DEF ServiceInv, Recorded
    <3>7. Recorded'
      BY <2>1, <3>2, <3>5, <3>6 DEF ServiceInv, Recorded, RecordAck
    <3>8. Ordered'
      BY <1>0, <2>1, <2>2, <3>2, SameOrder DEF ServiceInv
    <3> QED
      BY <1>0, <2>1, <3>2, <3>7, <3>8
  <2>3. CASE ~GenerationGuard
    <3>1. ~ack /\ inFlight' = inFlight \ {e}
      BY <1>0, <1>1, <2>3, AttemptEffect DEF AlreadyApplied
    <3> QED
      BY <1>0, <2>1, <2>3, <3>1 DEF ServiceInv, Recorded, RecordAck
  <2> QED
    BY <2>2, <2>3
<1>2. CASE applied
  <2>1. /\ installs' \in Seq(Message) /\ Installed' = Installed \cup {m}
        /\ DOMAIN installs = 1..Len(installs) /\ Len(installs) \in Nat
        /\ DOMAIN installs' = 1..(Len(installs) + 1)
        /\ installs'[Len(installs) + 1] = m
        /\ \A i \in DOMAIN installs : i \in DOMAIN installs' /\ installs'[i] = installs[i]
    BY <1>0, <1>2, InstallsGrow
  <2>2. /\ ~Superseded(m) /\ ~AlreadyApplied(m)
        /\ prefixState' = IF GenerationGuard
                          THEN [prefixState EXCEPT ![m.prefix].applied = m]
                          ELSE prefixState
        /\ GrowsBy(inFlight \ {e}, m, "deliverSyncAck")
    BY <1>0, <1>2, AttemptEffect
  <2>3. \A f \in inFlight' : f \in inFlight \/ f.msg = m
    BY <2>2 DEF GrowsBy
  <2>4. GenerationGuard => \A p \in Prefix :
           prefixState'[p].applied = IF p = m.prefix THEN m ELSE prefixState[p].applied
    BY <1>0, <2>2 DEF PrefixState
  <2>5. Recorded'
    <3>1. acked' \subseteq Installed'
      BY <2>1 DEF ServiceInv, Recorded, RecordAck
    <3>2. \A f \in inFlight' : f.call = "deliverSyncAck" => f.msg \in Installed'
      BY <2>1, <2>3 DEF ServiceInv, Recorded
    <3>3. GenerationGuard => \A p \in Prefix :
             prefixState'[p].applied # NoMessage => prefixState'[p].applied \in Installed'
      BY <2>1, <2>4 DEF ServiceInv, Recorded
    <3> QED
      BY <3>1, <3>2, <3>3 DEF Recorded
  <2>6. ASSUME GenerationGuard PROVE GuardInv' /\ Ordered'
    <3>0. GuardInv
      BY <2>6 DEF ServiceInv
    <3>2. GuardInv' /\ prefixState[m.prefix].applied.seq < m.seq
      BY <1>0, <1>2, <2>6, <3>0, AttemptGuard
    <3>3. \A i \in DOMAIN installs : installs[i].prefix \in Prefix /\ installs[i].seq \in Nat
      BY <1>0, MessageFields
    <3>4. prefixState[m.prefix].applied.seq \in Int
      BY <1>0, RecordFields
    <3>5. \A i \in DOMAIN installs : installs[i].seq <= prefixState[installs[i].prefix].applied.seq
      BY <2>6 DEF ServiceInv, Ordered
    <3>6. \A i \in DOMAIN installs : installs[i].prefix = m.prefix => installs[i].seq < m.seq
      BY <1>0, <3>2, <3>3, <3>4, <3>5
    <3>7. ASSUME NEW i \in DOMAIN installs'
          PROVE  installs'[i].seq <= prefixState'[installs'[i].prefix].applied.seq
      <4>1. CASE i = Len(installs) + 1
        BY <1>0, <2>1, <2>4, <2>6, <4>1
      <4>2. CASE i \in DOMAIN installs
        <5>1. installs'[i] = installs[i]
          BY <2>1, <4>2
        <5>2. CASE installs[i].prefix = m.prefix
          BY <1>0, <2>4, <2>6, <3>3, <3>6, <4>2, <5>1, <5>2
        <5>3. CASE installs[i].prefix # m.prefix
          BY <2>4, <2>6, <3>3, <3>5, <4>2, <5>1, <5>3
        <5> QED
          BY <5>2, <5>3
      <4> QED
        BY <2>1, <4>1, <4>2
    <3>8. ASSUME NEW i \in DOMAIN installs', NEW j \in DOMAIN installs', i < j,
                 installs'[i].prefix = installs'[j].prefix
          PROVE  installs'[i].seq < installs'[j].seq
      <4>1. i \in DOMAIN installs /\ installs'[i] = installs[i]
        BY <2>1, <3>8
      <4>2. CASE j \in DOMAIN installs
        <5>1. \A x, y \in DOMAIN installs :
                 x < y /\ installs[x].prefix = installs[y].prefix => installs[x].seq < installs[y].seq
          BY <2>6 DEF ServiceInv, Ordered
        <5> QED
          BY <2>1, <3>8, <4>1, <4>2, <5>1
      <4>3. CASE j = Len(installs) + 1
        BY <2>1, <3>6, <3>8, <4>1, <4>3
      <4> QED
        BY <2>1, <4>2, <4>3
    <3> QED
      BY <3>2, <3>7, <3>8 DEF Ordered
  <2> QED
    BY <2>1, <2>5, <2>6
<1> QED
  BY <1>1, <1>2

\* At first nothing is accepted, applied or under way.
LEMMA ServiceInitially == ServiceInit => ServiceInv
<1> SUFFICES ASSUME ServiceInit PROVE ServiceInv
  OBVIOUS
<1>1. /\ installs = <<>> /\ acked = {} /\ inFlight = {} /\ submissions = 0 /\ now = 0 /\ nextUid = 0
      /\ prefixState = [p \in Prefix |-> [accepted |-> NoMessage, applied |-> NoMessage]]
  BY DEF ServiceInit, SimulatorInit, ControllerInit
<1>2. Installed = {} /\ DOMAIN installs = {} /\ installs \in Seq(Message)
  BY <1>1 DEF Installed
<1>3. ControllerTypeOK
  <2>1. DropFirstN["control"] \in Nat /\ DropFirstN["flowMod"] \in Nat /\ DropFirstN["syncAck"] \in Nat
    BY ControllerAssumption DEF Leg
  <2> QED
    BY <2>1 DEF ServiceInit, ControllerInit, ControllerTypeOK, PrefixState
<1>4. Types
  BY <1>1, <1>2, <1>3, HorizonAssumption, ServiceAssumption DEF Types, ServiceTypeOK
<1>5. Recorded /\ Ordered
  BY <1>1, <1>2 DEF Recorded, Ordered
<1>6. GuardInv
  <2>1. NoMessage.seq = -1
    BY DEF NoMessage
  <2> QED
    BY <1>1, <2>1 DEF GuardInv, NotNewer
<1> QED
  BY <1>4, <1>5, <1>6 DEF ServiceInv

\* Every step of the controller, its client and its sink keeps the invariant.
LEMMA ServiceStep == ServiceInv /\ [ServiceNext]_serviceVars => ServiceInv'
<1> SUFFICES ASSUME ServiceInv, [ServiceNext]_serviceVars PROVE ServiceInv'
  OBVIOUS
<1>0. /\ ControllerTypeOK /\ now \in Nat /\ nextUid \in Nat /\ now \in 0..Horizon
      /\ submissions \in 0..MaxSubmissions /\ installs \in Seq(Message)
      /\ inFlight \subseteq LegCall /\ MaxSubmissions \in Nat /\ Horizon \in Nat
      /\ acked \subseteq Message
      /\ controlDrops \in Nat /\ flowModDrops \in Nat /\ syncAckDrops \in Nat
      /\ prefixState \in [Prefix -> PrefixState]
  BY HorizonAssumption, ServiceAssumption
     DEF ServiceInv, Types, ServiceTypeOK, ControllerTypeOK
<1>1. ASSUME installs' \in Seq(Message) PROVE Installed' \subseteq Message
  BY <1>1 DEF Installed
<1>2. ASSUME NEW p \in Prefix, NEW g \in Generation, NEW port \in Port, NEW x \in Expiry,
             Submit([prefix |-> p, seq |-> g, port |-> port, expiry |-> x])
      PROVE  ServiceInv'
  <2> DEFINE m == [prefix |-> p, seq |-> g, port |-> port, expiry |-> x]
  <2>1. m \in Message
    BY ServiceAssumption DEF Message
  <2>2. Submit(m)
    BY <1>2
  <2> HIDE DEF m
  <2>3. PICK ack \in BOOLEAN : SubmitFlowUpdate(m, ack) /\ RecordAck(m, ack)
    BY <2>2 DEF Submit
  <2>4. /\ controlDrops' \in Nat /\ syncAckDrops' \in Nat /\ UNCHANGED flowModDrops
        /\ Taken(inFlight, m, ack)
    BY <1>0, <2>1, <2>3, SubmitEffect
  <2>5. UNCHANGED <<now, installs>> /\ nextUid' = nextUid + 4 /\ submissions' = submissions + 1
          /\ submissions < MaxSubmissions
    BY <2>2 DEF Submit, TakeUids
  <2>6. Recorded' /\ (GenerationGuard => GuardInv' /\ Ordered')
    BY <2>1, <2>3, <2>4, <2>5, TakenService
  <2>7. prefixState' \in [Prefix -> PrefixState] /\ inFlight' \subseteq LegCall
    BY <1>0, <2>1, <2>4, TakenTyped
  <2>8. Types'
    BY <1>0, <1>1, <2>1, <2>3, <2>4, <2>5, <2>7 DEF Types, ServiceTypeOK, ControllerTypeOK, RecordAck
  <2> QED
    BY <2>6, <2>8 DEF ServiceInv
<1>3. ASSUME NEW e \in inFlight, RunCall(e) PROVE ServiceInv'
  <2>0. /\ e.msg \in Message /\ UNCHANGED <<now, controlDrops, submissions>>
        /\ nextUid' = nextUid + 4
    BY <1>0, <1>3 DEF LegCall, RunCall, TakeUids
  <2>1. CASE /\ e.call = "acceptControl"
             /\ \E ack \in BOOLEAN : /\ AcceptControl(e.msg, inFlight \ {e}, ack)
                                     /\ RecordAck(e.msg, ack)
             /\ UNCHANGED <<flowModDrops, installs>>
    <3>1. PICK ack \in BOOLEAN : AcceptControl(e.msg, inFlight \ {e}, ack) /\ RecordAck(e.msg, ack)
      BY <2>1
    <3>2. syncAckDrops' \in Nat /\ Taken(inFlight \ {e}, e.msg, ack)
      BY <1>0, <2>0, <3>1, AcceptEffect
    <3>3. Recorded' /\ (GenerationGuard => GuardInv' /\ Ordered')
      BY <2>0, <2>1, <3>1, <3>2, TakenService
    <3>4. prefixState' \in [Prefix -> PrefixState] /\ inFlight' \subseteq LegCall
      BY <1>0, <2>0, <3>2, TakenTyped
    <3>5. Types'
      BY <1>0, <1>1, <2>0, <2>1, <3>1, <3>2, <3>4 DEF Types, ServiceTypeOK, ControllerTypeOK, RecordAck
    <3> QED
      BY <3>3, <3>5 DEF ServiceInv
  <2>2. CASE /\ e.call = "attemptFlowMod"
             /\ \E sinkAccepts, applied, ack \in BOOLEAN :
                   /\ AttemptFlowMod(e.msg, inFlight \ {e}, sinkAccepts, applied, ack)
                   /\ RecordAck(e.msg, ack)
                   /\ installs' = IF applied THEN Append(installs, e.msg) ELSE installs
    <3>1. PICK sinkAccepts \in BOOLEAN, applied \in BOOLEAN, ack \in BOOLEAN :
             /\ AttemptFlowMod(e.msg, inFlight \ {e}, sinkAccepts, applied, ack)
             /\ RecordAck(e.msg, ack)
             /\ installs' = IF applied THEN Append(installs, e.msg) ELSE installs
      BY <2>2
    <3>2. Recorded' /\ (GenerationGuard => GuardInv' /\ Ordered') /\ installs' \in Seq(Message)
      BY <2>2, <3>1, AttemptService
    <3>3. /\ flowModDrops' \in Nat /\ syncAckDrops' \in Nat
          /\ \/ UNCHANGED prefixState
             \/ prefixState' = [prefixState EXCEPT ![e.msg.prefix].applied = e.msg]
          /\ inFlight' = inFlight \ {e} \/ GrowsBy(inFlight \ {e}, e.msg, "deliverSyncAck")
      BY <1>0, <2>0, <3>1, AttemptEffect
    <3>4. inFlight' \subseteq LegCall
      BY <1>0, <2>0, <3>3, GrowsTyped
    <3>5. prefixState' \in [Prefix -> PrefixState]
      <4>1. e.msg.prefix \in Prefix /\ prefixState[e.msg.prefix] \in PrefixState
        BY <1>0, <2>0, MessageFields
      <4>2. [prefixState[e.msg.prefix] EXCEPT !.applied = e.msg] \in PrefixState
        BY <2>0, <4>1 DEF PrefixState
      <4> QED
        BY <1>0, <3>3, <4>1, <4>2
    <3>6. Types'
      BY <1>0, <1>1, <2>0, <3>1, <3>2, <3>3, <3>4, <3>5
         DEF Types, ServiceTypeOK, ControllerTypeOK, RecordAck
    <3> QED
      BY <3>2, <3>6 DEF ServiceInv
  <2>3. CASE /\ e.call = "deliverSyncAck"
             /\ \E ack \in BOOLEAN : DeliverSyncAck(e.msg, ack) /\ RecordAck(e.msg, ack)
             /\ inFlight' = inFlight \ {e}
             /\ UNCHANGED <<prefixState, flowModDrops, installs>>
    <3>1. PICK ack \in BOOLEAN : DeliverSyncAck(e.msg, ack) /\ RecordAck(e.msg, ack)
      BY <2>3
    <3>2. syncAckDrops' \in Nat
      BY <1>0, <3>1, DropsTyped DEF DeliverSyncAck
    <3>3. e.msg \in Installed /\ Installed' = Installed
      BY <2>3 DEF ServiceInv, Recorded, Installed
    <3>4. Recorded'
      BY <2>3, <3>1, <3>3 DEF ServiceInv, Recorded, RecordAck
    <3>5. GenerationGuard => GuardInv' /\ Ordered'
      BY <2>3 DEF ServiceInv, GuardInv, NotNewer, Ordered
    <3>6. Types'
      BY <1>0, <1>1, <2>0, <2>3, <3>1, <3>2 DEF Types, ServiceTypeOK, ControllerTypeOK, RecordAck
    <3> QED
      BY <3>4, <3>5, <3>6 DEF ServiceInv
  <2> QED
    BY <1>3, <2>1, <2>2, <2>3 DEF RunCall
<1>4. CASE ServiceTick
  <2>1. /\ UNCHANGED <<prefixState, controlDrops, flowModDrops, syncAckDrops, inFlight,
                       submissions, installs, acked>>
        /\ now' = now + 1 /\ now < Horizon /\ nextUid' = nextUid
    BY <1>4 DEF ServiceTick, Advance, controllerVars
  <2>2. Types'
    BY <1>0, <1>1, <2>1 DEF Types, ServiceTypeOK, ControllerTypeOK
  <2>3. Recorded' /\ (GenerationGuard => GuardInv' /\ Ordered')
    BY <2>1 DEF ServiceInv, Recorded, GuardInv, NotNewer, Ordered, Installed
  <2> QED
    BY <2>2, <2>3 DEF ServiceInv
<1>5. CASE UNCHANGED serviceVars
  <2>1. UNCHANGED <<now, nextUid, prefixState, controlDrops, flowModDrops, syncAckDrops,
                    inFlight, submissions, installs, acked>>
    BY <1>5 DEF serviceVars, controllerVars
  <2>2. Types'
    BY <1>0, <1>1, <2>1 DEF Types, ServiceTypeOK, ControllerTypeOK
  <2>3. Recorded' /\ (GenerationGuard => GuardInv' /\ Ordered')
    BY <2>1 DEF ServiceInv, Recorded, GuardInv, NotNewer, Ordered, Installed
  <2> QED
    BY <2>2, <2>3 DEF ServiceInv
<1> QED
  BY <1>2, <1>3, <1>4, <1>5 DEF ServiceNext

\* The controller never acknowledges a route that was not installed: a notice, delivered at
\* once, delayed, or replayed for a repeated request, carries a message that the sink
\* installed.  With the guard or without it.
THEOREM NoticesTellOfInstallations == ServiceSpec => []AckedWasInstalled
<1>1. ServiceInv => AckedWasInstalled
  BY DEF ServiceInv, Types, Recorded, AckedWasInstalled
<1> QED
  BY <1>1, ServiceInitially, ServiceStep, PTL DEF ServiceSpec

\* The guard orders the installations of a prefix by generation, strictly, for any
\* submissions, losses, delays and refusals of the sink.
THEOREM GuardOrdersInstallations == ServiceSpec => []InstallsInOrder
<1>1. ServiceInv => InstallsInOrder
  BY DEF ServiceInv, Ordered, InstallsInOrder
<1> QED
  BY <1>1, ServiceInitially, ServiceStep, PTL DEF ServiceSpec
================================================================================
