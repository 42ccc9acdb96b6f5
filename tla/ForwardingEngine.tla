---------------------------- MODULE ForwardingEngine ---------------------------
(***************************************************************************)
(* The packet path of one Statim switch: Interests and Data arrive, pass    *)
(* the pending Interest table and the content store, wait for the stateful  *)
(* delay and are forwarded by the temporary FIB or the flow-table FIB.      *)
(* Trace Data that answers a pending trace Interest is what drives the      *)
(* route-control plane of RouteControl, and sends the Interests that are    *)
(* pending for the mobile once more, to its new place.                      *)
(***************************************************************************)
EXTENDS RouteControl, SwitchPipeline, PendingInterestTable, ContentStore

CONSTANTS StatefulDelay,        \* m_statefulDelay
          EnableTemporaryFib,   \* m_enableTemporaryFib
          EnableReforwarding,   \* m_enableInterestReforwarding
          ReforwardingLimit,    \* m_interestReforwardingLimit
          StaticFib,            \* the entries that CalculateStatimRoutes installs
          SeqComponent,         \* [Generation -> component], appendSequenceNumber
          InterestFrom,         \* [Name -> ports on which such an Interest can arrive]
          NonceFrom,            \* [Port -> nonces of the Interests that arrive there]
          DataFrom,             \* [DataName -> ports on which such Data can arrive]
          MaxPackets            \* the packets that arrive in a behaviour (named bound)

ASSUME EngineAssumption ==
    /\ StatefulDelay \in Nat /\ ReforwardingLimit \in Nat /\ MaxPackets \in Nat
    /\ EnableTemporaryFib \in BOOLEAN /\ EnableReforwarding \in BOOLEAN
    /\ FlowKey = [p \in Prefix |-> NameHashes(p)]
    /\ \A e \in StaticFib : e.hashes \notin Key /\ e.port \in Port
    /\ Port \subseteq Nat /\ IsFiniteSet(Name)
    /\ \A n \in Name \cup DataName : n \in Seq(DOMAIN Hash)
    /\ InterestFrom \in [Name -> SUBSET Port] /\ DataFrom \in [DataName -> SUBSET Port]
    /\ NonceFrom \in [Port -> SUBSET Nonce]

VARIABLES packetCalls,   \* the scheduled calls of the engine
          output,        \* the packets that the last step handed to the devices
          packets,       \* the packets that have arrived
          promised,      \* history: the route that was admitted last, for each prefix
          traced,        \* history: the trace Interests accepted, with their ports
          asked,         \* history: who asked for a name since Data for it last passed
          reached        \* history: where the pending Interest of a name was sent to

engineVars == <<pit, cs, packetCalls, output, packets, promised, traced, asked, reached>>
allVars == <<vars, engineVars>>

PacketCall == [uid : Nat, at : Nat, names : SUBSET (Name \cup DataName), port : Port,
               call : {"processInterestAfterDelay", "processDataAfterDelay",
                       "doDelayedPullSend"}]
Packet == [kind : {"Interest", "Data"}, name : Name \cup DataName, port : Port]

EngineTypeOK ==
    /\ TypeOK
    /\ PitTypeOK /\ CsTypeOK
    /\ packetCalls \subseteq PacketCall
    /\ output \subseteq Packet
    /\ packets \in 0..MaxPackets
    /\ reached \in [Name -> SUBSET Port]

EngineInit ==
    /\ Init
    /\ PitInit /\ CsInit
    /\ packetCalls = {} /\ output = {} /\ packets = 0
    /\ promised = [p \in Prefix |-> NoMessage]
    /\ traced = {}
    /\ asked = [n \in Name |-> {}]
    /\ reached = [n \in Name |-> {}]

EngineQueue == Queue \cup packetCalls

--------------------------------------------------------------------------------
(* Trace names: /rv/trace/<rest of the prefix>/<sequence number> *)

JudgeNameIsTrace(n) == Len(n) >= 4 /\ n[2] = "trace"
ExtractDataName(n) == <<n[1]>> \o SubSeq(n, 3, Len(n) - 1)
TraceSequence(n) == CHOOSE g \in Generation : SeqComponent[g] = n[Len(n)]

ASSUME TraceAssumption ==
    \A d \in DataName : JudgeNameIsTrace(d) =>
        ExtractDataName(d) \in Prefix /\ \E g \in Generation : SeqComponent[g] = d[Len(d)]

\* sendInterestToPort and sendDataToPort
Sent(kind, names, ports) == [kind : {kind}, name : names, port : ports]

Call(uid, d, call, names, port) ==
    [uid |-> uid, at |-> now + d, call |-> call, names |-> names, port |-> port]

\* An accepted packet is scheduled with the first identifier of its step.  The sends of
\* one pull follow one another in the queue, after the calls of the controllers, and make
\* up one call here.
PacketUid == nextUid
PullUid == nextUid + 3

--------------------------------------------------------------------------------
(* Arrivals: onReceiveRawPacket, whose first pass hands the packet to the module *)

Arrival == now <= InputUntil /\ packets < MaxPackets /\ packets' = packets + 1

\* processStatefulInterest
ReceiveInterest(n, nonce, port, lifetime) ==
    /\ Arrival
    /\ IF Duplicate(n, nonce)
       THEN output' = {} /\ UNCHANGED <<pit, packetCalls, traced, asked, nextUid>>
       ELSE /\ InsertInterest(n, nonce, port, lifetime)
            /\ asked' = [asked EXCEPT ![n] = @ \cup {[port |-> port, until |-> now + lifetime]}]
            /\ traced' = IF JudgeNameIsTrace(n) THEN traced \cup {<<n, port>>} ELSE traced
            /\ IF n \in cs
               THEN output' = Sent("Data", {n}, {port}) /\ UNCHANGED <<packetCalls, nextUid>>
               ELSE /\ output' = {}
                    /\ packetCalls' = packetCalls \cup
                          {Call(PacketUid, StatefulDelay, "processInterestAfterDelay", {n}, port)}
                    /\ TakeUids
    /\ UNCHANGED <<now, controllerVars, temporaryFib, localVars, flowFib, cs, promised>>

\* processStatefulData
ReceiveData(d, port) ==
    /\ Arrival
    /\ output' = {}
    /\ packetCalls' = packetCalls \cup
          {Call(PacketUid, StatefulDelay, "processDataAfterDelay", {d}, port)}
    /\ TakeUids
    /\ UNCHANGED <<now, controllerVars, temporaryFib, localVars, flowFib,
                   pit, cs, promised, traced, asked>>

--------------------------------------------------------------------------------
(* The calls of the engine *)

\* The entries of the flow-table FIB, with the static ones.
FlowEntries ==
    StaticFib \cup {[hashes |-> k, port |-> flowFib[k].port, expiry |-> flowFib[k].expiry]
                       : k \in {j \in Key : flowFib[j] # NoMessage}}

\* The ports that the lookup of an Interest yields: the temporary FIB goes first, and a
\* match there reaches the pipeline as a bitmap.
TemporaryPorts(n) ==
    IF EnableTemporaryFib THEN {h.port : h \in LongestPrefixHops(n)} ELSE {}
LookupPorts_FlowFirst(n) ==
    LET flow == ProcessPacket(FlowEntries, Header("INTEREST", {}, n))
    IN  IF flow # {} THEN flow
        ELSE ProcessPacket(FlowEntries,
                 Header("INTEREST", EncodeOutPortsMask(TemporaryPorts(n)), n))
LookupPorts(n) ==
    ProcessPacket(FlowEntries, Header("INTEREST", EncodeOutPortsMask(TemporaryPorts(n)), n))

\* processInterestAfterDelay: an Interest does not go back where it came from.
ProcessInterestAfterDelay(e) ==
    /\ e.call = "processInterestAfterDelay"
    /\ \E n \in e.names :
          /\ output' = Sent("Interest", {n}, LookupPorts(n) \ {e.port})
          /\ FindLongestPrefix(n)
    /\ packetCalls' = packetCalls \ {e}
    /\ UNCHANGED <<now, nextUid, controllerVars, localVars, flowFib,
                   pit, cs, promised, traced, asked>>

\* The Interests that pullPendingInterests picks, in name order up to the limit: here any
\* choice of that many.
Pulled_OneShort(p) ==
    LET pending == FindByPrefix(p) IN
    IF Cardinality(pending) < ReforwardingLimit THEN {pending}
                                                ELSE kSubset(ReforwardingLimit - 1, pending)
Pulled(p) ==
    LET pending == FindByPrefix(p) IN
    IF Cardinality(pending) <= ReforwardingLimit THEN {pending}
                                                 ELSE kSubset(ReforwardingLimit, pending)

\* handleTraceData offers the update once for each port, in order.  The first port is
\* admitted if the generation is new; the others then repeat its generation: the update
\* only schedules a FlowMod, so with the guard or without no completion comes between two.
TracePort_Ingress(e) == e.port
TracePort(e) == Min(UNION {MatchPorts(d) : d \in e.names})
HandleTraceData(e, p, seq, lifetime) ==
    IF IsNewer(p, seq)
    THEN /\ \E ack \in BOOLEAN : ApplyTraceUpdate(p, TracePort(e), seq, lifetime, ack)
         /\ promised' = [promised EXCEPT ![p] = [prefix |-> p, seq |-> seq, port |-> TracePort(e),
                                                 expiry |-> now + lifetime]]
         /\ \E names \in (IF EnableReforwarding THEN Pulled(p) ELSE {{}}) :
               packetCalls' = (packetCalls \ {e}) \cup
                   (IF names = {} THEN {}
                    ELSE {Call(PullUid, 0, "doDelayedPullSend", names, TracePort(e))})
         /\ TakeUids
    ELSE /\ packetCalls' = packetCalls \ {e}
         /\ UNCHANGED <<nextUid, controllerVars, temporaryFib, localVars, promised>>

\* The Data leaves on the ports of the entries that it consumed.
ForwardData(d) ==
    output' = Sent("Data", {d}, ProcessPacket(FlowEntries,
                                   Header("DATA", EncodeOutPortsMask(MatchPorts(d)), d)))

\* processDataAfterDelay, for content ...
ProcessContent(e, d) ==
    /\ ~JudgeNameIsTrace(d)
    /\ TakeDataMatchPorts(d)
    /\ IF MatchPorts(d) = {}
       THEN output' = {} /\ UNCHANGED cs
       ELSE CacheInsert(d) /\ ForwardData(d)
    /\ packetCalls' = packetCalls \ {e}
    /\ UNCHANGED <<nextUid, controllerVars, temporaryFib, localVars, promised>>

\* ... and for trace Data, whose lease is the lifetime of the saved trace Interest of the
\* same name.  Without one the Data is dropped, and what it consumed is gone.
ProcessTrace(e, d) ==
    /\ JudgeNameIsTrace(d)
    /\ TakeDataMatchPorts(d)
    /\ UNCHANGED cs
    /\ IF d \in Stored /\ pit[d].lifetime > 0
       THEN /\ HandleTraceData(e, ExtractDataName(d), TraceSequence(d), pit[d].lifetime)
            /\ ForwardData(d)
       ELSE /\ output' = {} /\ packetCalls' = packetCalls \ {e}
            /\ UNCHANGED <<nextUid, controllerVars, temporaryFib, localVars, promised>>

ProcessDataAfterDelay(e) ==
    /\ e.call = "processDataAfterDelay"
    /\ \E d \in e.names :
          /\ ProcessContent(e, d) \/ ProcessTrace(e, d)
          /\ asked' = [n \in Name |-> IF IsPrefixOf(n, d) THEN {} ELSE asked[n]]
    /\ UNCHANGED <<now, flowFib, traced>>

\* doDelayedPullSend
DoDelayedPullSend(e) ==
    /\ e.call = "doDelayedPullSend"
    /\ output' = Sent("Interest", e.names, {e.port})
    /\ packetCalls' = packetCalls \ {e}
    /\ UNCHANGED <<now, nextUid, controllerVars, temporaryFib, localVars, flowFib,
                   pit, cs, promised, traced, asked>>

RunPacket(e) ==
    ProcessInterestAfterDelay(e) \/ ProcessDataAfterDelay(e) \/ DoDelayedPullSend(e)

\* The calls of the controllers and the clock leave the packets alone.
NoPacket == output' = {} /\ UNCHANGED <<pit, cs, packetCalls, promised, traced, asked>>

EngineRun ==
    /\ \/ \E e \in packetCalls : Due(e, EngineQueue) /\ RunPacket(e)
       \/ \E e \in inFlight : Due(e, EngineQueue) /\ RunLeg(e) /\ NoPacket
       \/ \E t \in timers : Due(t, EngineQueue) /\ RunTimer(t) /\ NoPacket
       \/ /\ Advance(EngineQueue)
          /\ UNCHANGED <<controllerVars, temporaryFib, localVars, flowFib>>
          /\ NoPacket
    /\ UNCHANGED packets

\* History: where the Interest of a name went, as long as the name is pending.
Observe ==
    reached' = [n \in Name |->
        IF pit'[n] = NoEntry THEN {}
        ELSE reached[n] \cup {o.port : o \in {q \in output' : q.kind = "Interest" /\ q.name = n}}]

EngineNext ==
    /\ \/ \E n \in Name, nonce \in Nonce, lifetime \in InterestLifetime :
             \E port \in InterestFrom[n] :
                nonce \in NonceFrom[port] /\ ReceiveInterest(n, nonce, port, lifetime)
       \/ \E d \in DataName : \E port \in DataFrom[d] : ReceiveData(d, port)
       \/ EngineRun
    /\ Observe

EngineSpec == EngineInit /\ [][EngineNext]_allVars
--------------------------------------------------------------------------------
(* Correctness *)

\* A route was promised and its lease has not ended.
Promised(p) == promised[p] # NoMessage /\ now < promised[p].expiry

\* "Statim lets a forwarder apply a routing decision locally while a controller installs
\* the corresponding route asynchronously": from the admission of an update to the end of
\* its lease every lookup for the prefix yields the port of the newest update, whatever the
\* control plane does meanwhile, unless the retries run out and the route is withdrawn.
\* (The types are kept.)
NewestSteers ==
    /\ EngineTypeOK
    /\ EnableTemporaryFib /\ RetryTimeout = 0 =>
          \A p \in Prefix, n \in Name :
              Promised(p) /\ promised[p].port \in BitmapPorts /\ IsPrefixOf(p, n)
                  => LookupPorts(n) = {promised[p].port}

\* No Interest asks for a proper prefix of a trace name.
TraceNamesAlone ==
    \A n, t \in Name : JudgeNameIsTrace(t) /\ IsPrefixOf(n, t) => n = t

\* "The matching PIT record supplies the next hop toward the producer": as long as trace
\* Data matches no other Interest than its trace Interest, every route that any part of the
\* control plane holds leads to a port where the trace Interest of exactly that prefix and
\* generation was accepted.  (handleTraceData takes the lowest port of all matching records,
\* so an Interest for a prefix of the trace name could supply the port instead.)
RouteFollowsTrace ==
    TraceNamesAlone =>
        \A m \in Copies :
            \E t \in traced : /\ ExtractDataName(t[1]) = m.prefix
                              /\ TraceSequence(t[1]) = m.seq
                              /\ t[2] = m.port

\* The call that processes the Data d runs in this step.
DataPasses(d) ==
    \E e \in packetCalls \ packetCalls' : e.call = "processDataAfterDelay" /\ e.names = {d}

\* Aggregation, pruning, ancestor matches and the bitmap lose nobody: when content passes,
\* every port whose accepted Interest for it (or for a prefix of its name) is still alive
\* gets it, and no port gets it that did not ask since such content last passed.
DataAnswersAllAskers ==
    [][\A d \in DataName : DataPasses(d) /\ ~JudgeNameIsTrace(d) =>
          LET askers == UNION {asked[n] : n \in {m \in Name : IsPrefixOf(m, d)}}
              served == {o.port : o \in {q \in output' : q.kind = "Data" /\ q.name = d}}
          IN  /\ {r.port : r \in {q \in askers : now < q.until}} \cap BitmapPorts \subseteq served
              /\ served \subseteq {r.port : r \in askers}]_allVars

\* The names of a prefix are no more than one update may send again.
WithinLimit(p) == Cardinality({n \in Name : IsPrefixOf(p, n)}) <= ReforwardingLimit

\* processInterestAfterDelay and pullPendingInterests together leave no Interest behind:
\* one that is pending for the mobile was sent to its newest place, is about to be, or came
\* from there, however arrival, lookup and update were interleaved.
PendingReachesNewest ==
    EnableTemporaryFib /\ EnableReforwarding /\ RetryTimeout = 0 /\ CsCapacity = 0 =>
        \A p \in Prefix : Promised(p) /\ promised[p].port \in BitmapPorts /\ WithinLimit(p) =>
            \A n \in {m \in Stored : IsPrefixOf(p, m)} :
                \/ promised[p].port \in reached[n]
                \/ \E e \in packetCalls : n \in e.names
                     /\ \/ e.call = "processInterestAfterDelay"
                        \/ e.call = "doDelayedPullSend" /\ e.port = promised[p].port
                \/ \E r \in pit[n].ingress : r.port = promised[p].port
================================================================================
