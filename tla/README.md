# Statim: a TLA+ model of the control plane, the packet path and the applications

Statim is a mobility-aware forwarding plane for Named Data Networking, built on
ndnSIM/ns-3. A mobile producer announces itself with *trace* packets. The trace Data
that returns through a switch carries a generation (sequence number) and a lease; the
switch steers Interests towards the new attachment at once, through a *temporary FIB*,
and asks a central controller to install the route in the *flow table*. When the
controller reports completion, the temporary route is given up.

The project's own code is `src/src/ndnSIM/statim/` (C++) with the Python experiment
runner in `src/experiments/`, and the KITE baseline it is compared with, which lives in
`src/src/ndnSIM/apps/kite-*` and in changes to the vendored NFD
(`src/src/ndnSIM/NFD/daemon/`). The rest of the repository is vendored ns-3, ndn-cxx, NFD
and ndnSIM, over 99% of its lines.

## 1. Inventory

| Component | State | Operations | Talks to |
|---|---|---|---|
| `control/local-route-controller` | pending generation, deadline, lifetime timer and request record of each prefix; highest generation seen | `applyTraceUpdate`, `handleControlResponse`, `expireEntryBySeq`, `onControllerRetryTimeout` | temporary FIB (calls), flow-table controller (callback, may answer before it returns), simulator (timers) |
| `control/flow-table-controller` | accepted and applied message of each prefix (generation guard), drop budgets, scheduled calls | `submitFlowUpdate`, `acceptControl`, `attemptFlowMod`, `scheduleSyncAck`, `deliverSyncAck` | FlowMod sink and notice callback of the engine, simulator |
| `state/temporary-forwarding-table` | hops with deadlines under each prefix | `insert`, `insertUntil`, `findExact`, `findLongestPrefix`, `erase` | clock |
| `forwarding-engine` | wiring, PIT, content store, port table | receive, Interest and Data paths, `handleTraceData`, `pullPendingInterests`, `onFlowTableFlowMod` | everything |
| `pipeline/switch-pipeline`, `pipeline/flow-table` | flow tables with priorities and expiry | `processPacket`, `installFibEntry`, `removeFibEntry` | engine |
| `state/pending-interest-table` | Interests with ingress records | `insert`, `takeDataMatchPorts`, `findByPrefix`, `erase` | engine |
| `stateful/content-store` | cached Data up to a capacity | `find`, `insert`, `setMaxSize`, `clear` | engine |
| `stateful/stateful-forwarder` | switch + local controller | `applyTraceUpdate`, `encodeOutPortsMask` | engine |
| `apps/statim-mobile` | number of the next trace, retry count, refresh and timeout events, anchor and samples of the handover delay | `OnAssociation`, `MarkHandover`, `SendTrace`, `OnTraceTimeout`, `OnData`, `OnInterest`, `StopApplication` | network, simulator, scenario |
| `apps/statim-consumer` with ndnSIM's `Consumer` and `RttMeanDeviation` | open requests with their instants, numbers to send again, round-trip estimate, counters of the summary | start, stop, `ScheduleNextPacket`, `SendPacket`, `CheckRetxTimeout`, `OnTimeout`, `OnData` | network, simulator |
| `scenarios/statim-path` and `common/wired-handover` | which access point is linked | `InitialAttach`, `DoHandover`, `FailP2PLink` | mobile, links |
| KITE: `kite-pull-mobile` | that of the Statim mobile; number 0 stands for one still to be negotiated | as the Statim mobile, `StartNegotiation` | network |
| KITE: NFD's forwarder, `trace-forwarding`, `tib` | pending entries with in- and out-records and two timers; the trace entry with its next hop and timer; scheduled pulls | Interest, Data and Nack pipelines, `updateTib`, `onTibEntryNextHopTimeout` | faces, simulator |
| `helper`, other scenarios, `experiments` | simulation set-up, batch runs, statistics | | |

What is hard here. Everything runs in one simulator thread, so there are no data races;
the difficulty is in the order of events. A control message crosses three legs (request,
FlowMod, notice) and each may lose it, delay it and reorder it. Retries put several
copies of one request in flight. Timers (lease and retry) race with notices, at the same
instant too. A call to the other controller may come back into the caller before it
returns. A newer generation may supersede a pending one at every point. In the applications
refresh, timeout, association and late answers meet at one instant, and a call that was
scheduled is not always remembered; a retransmission races the answer to the first Interest.
In the KITE router every pipeline cancels and sets the timers of an entry, and a scheduled
call keeps plain pointers. `PROJECT.json` lists these hazards line by line.

What makes the components correct: the temporary FIB, the transaction maps and the
timers stay in step; a temporary route is not given up before the same route is in the
switch, except at the end of its lease or of its retry budget; with the guard neither
delay nor retry takes a prefix back to an older generation or makes two decisions of one
generation; every transaction ends; lookups see neither expired nor hidden routes. On the
packet path: within a lease every lookup yields the newest port; a route comes from the
trace Interest of its own generation; a pending Interest reaches the newest place of the
mobile; content reaches every port that is still waiting for it. A mobile runs one chain of
traces and falls silent only when it may; the switch follows a handover within a bound; a
consumer forgets no request, repeats none too early and gets all answered once losses end.
In the KITE router timers belong to what they will remove, the hop is that of its trace and
pending Interests reach it.

## 2. Modules

| Module | Models |
|---|---|
| `Simulator` | ns-3's clock and event queue (`default-simulator-impl.cc`): `now`, identifiers in the order of scheduling, `Due`, `Advance` |
| `Names` | names as sequences of components and `ndn::Name::isPrefixOf` |
| `ControlMessage` | the control message, `isExpiredAt`, `sameUpdate` |
| `TemporaryForwardingTable` | the temporary FIB |
| `FlowTableController` | the central controller: one operator per member function |
| `LocalRouteController` | the local controller: one operator per member function |
| `RouteControl` | **the core**: both controllers, the temporary FIB and the switch FIB wired as in `ForwardingEngine`'s constructor |
| `ControllerService` | the flow-table controller alone under any client and any sink |
| `TemporaryTableReference` | the temporary FIB alone beside a table that never removes a hop |
| `SwitchPipeline` | headers, name hashes, the flow-table FIB and the path of a packet through the tables, as operators |
| `PendingInterestTable`, `ContentStore` | the two tables of the packet path |
| `ForwardingEngine` | **the packet path**, composed of `RouteControl` and the three modules above |
| `SwitchFib` | the flow-table FIB alone beside a table of routes by name |
| `RouteTransaction` | **abstract**: what the control plane promises, without messages, timers and tables |
| `RouteRefinement` | `RouteControl` with the mapping to `RouteTransaction` |
| `StatimMobile` | the mobile producer: one operator per member function |
| `KitePullMobile` | the KITE mobile, as the differences from `StatimMobile` |
| `MobileTraces` | either mobile with a network that loses and delays the answers to its traces |
| `MobileRoute` | a Statim mobile that moves between two access points, composed with `RouteTransaction` as the route of the switch where the paths part |
| `StatimConsumer` | the consumer with its base class and the round-trip estimator |
| `ConsumerRequests` | the consumer with a network that loses, delays and repeats Data |
| `KiteForwarder` | the forwarder pipelines, pending table, trace table and strategy of KITE, for one mobile prefix |
| `KiteRouter` | that router under any packets on any faces: Interests, Data and Nacks in any order, late, repeated or unasked |
| `MC...` | values of the constants for TLC, one module per composed module |
| `FlowTableProofs` | lemmas about the operations of `FlowTableController`, shared by the next two |
| `RouteControlProofs` | theorems about `RouteControl`, with and without the guard, and that it implements `RouteTransaction` |
| `ForwardingProofs` | theorems about `ForwardingEngine`, `TemporaryTableReference` and `SwitchFib` |
| `MobileRouteProofs` | theorems about `MobileRoute` |
| `ControllerServiceProofs`, `MobileProofs`, `ConsumerProofs`, `KiteProofs` | theorems about `ControllerService`, `MobileTraces`, `ConsumerRequests` and `KiteRouter` |

How state corresponds. `local[p]` collects what `m_seqMap`, `m_routeExpiries`,
`m_lifetimeTimers` and `m_pendingControllerRequests` hold under the prefix `p`;
`NoSeq`, `NoLease`, `NoTimer` and `NoRequest` stand for absent entries. `highestSeen` is
`m_highestSeenSeq`, `prefixState` is `m_prefixStates`, `temporaryFib` is the table's
`m_entries`. `inFlight` and `timers` are the events that the two controllers have
scheduled; together they are the simulator's queue. `flowFib` holds, for each flow-table
match, the message whose route was installed last.

How calls correspond. A chain of calls that the code makes without returning to the
simulator is one action. The answer that may come back inside the chain is a parameter:
`ack` is TRUE when `deliverSyncAck` calls the notice callback before the outer operation
returns. `RetryRequest(t, TRUE)` is thus the retry whose request is accepted at once, is
known to be installed, and is answered before `onControllerRetryTimeout` goes on.

Order of events. ns-3 runs the events of one instant in the order of their scheduling.
`Due` reproduces this with the identifiers of `Simulator`; `Tick` advances the clock only
when nothing is left at the instant. Trace updates and Interests come from other events
(packets, applications) and may fall anywhere in that order.

The packet path. `ReceiveInterest` and `ReceiveData` are `onReceiveRawPacket` with
`processStatefulInterest` and `processStatefulData`; `packetCalls` holds the calls that
they and `pullPendingInterests` schedule, and shares the simulator's queue with the
controllers. `output` is the set of packets that the last step handed to the devices. A
trace update is no free input here: it happens when trace Data consumes its trace
Interest, with the saved lifetime as its lease. The other variables are history:
`promised` (the route admitted last), `traced` (accepted trace Interests), `asked` (who
asked since Data last passed) and `reached` (where a pending name was sent). The routes
that `CalculateStatimRoutes` installs are the constant `StaticFib`.

The refinement. `RouteRefinement` maps `pending[p]` to the message of the saved request,
`budget[p]` to its retries left, `requested[p]` to the messages that are under way on the
request or the FlowMod leg, and `installed[p]` to the flow table. A step of the control plane
is then a step of one transaction (admit, retry, lose, install, complete, expire, abandon), a
tick, or nothing. The mapping needs the guard, retries (without them no request is saved) and
a match of its own for every prefix. `MobileRoute` uses the abstract specification in place of
both controllers; this is what makes mobile, network and route small enough to check together.

The applications. `calls` holds the scheduled calls of the application, and the identifiers
`refreshEvent` and `timeoutEvent` are the `EventId`s that it remembers; an association's call
is in `calls` only, as in the code. `KitePullMobile` reuses what the two mobiles share:
`MobileTraces` chooses one of them by `kite`, and one refresh interval of the set, in its
initial state. Answers to traces are scheduled hop by hop, after the calls of the mobile, so
at the end of a lifetime they come after the timeout. `misses` counts traces without an answer
in time. In the consumer, `fullDelay`, `lastDelay`, `seqTimeouts` and `retxSeqs` are the
code's maps and set; `rtt` is the estimator, in integers with the code's gains; the random
gap between two packets is any member of `SendGap`.

The KITE router. `pit[n]` is the entry of a name with its list of in-records (new ones in
front, as `emplace_front`), its out-records with the Nack they hold, and the instants of its
two timers; `tib` is the entry of the mobile prefix, whose `id` tells one entry from a later
one at the same name. `updateTib` schedules pulls in the order of the matches and up to
`MaxPullCnt`, of which the first `MaxPullSends` are sent (the constant 1000 of
`forwarder.cpp:738`). The content store holds `CsCapacity` packets; what it evicts when it is
full is any choice (`CsInsert`), which covers every policy, and content of other prefixes may
displace what it holds at any time (`CsEvict`). A store of capacity 0 is a router without one.
A timer is set much longer ahead than a packet is under way, so it runs before the packets of
its instant. Interests, Data and Nacks of either kind come on any face with any nonce,
including the next hops of the FIB, so that a trace may wait on several faces and a Nack may
answer anything. Two variables are history: `traceFaces` (where a trace was announced) and
`heldBack` (see the scope of the application properties).

What is abstracted: counters, log lines and telemetry; name hashes and prefix length,
which are functions of the prefix (the flow-table match of a prefix is `FlowKey[p]`); the
random numbers (every drop and every delay within the jitter is possible); the units of
time. `applyTraceUpdate` records the generation as seen before it compares it with the
pending one; with the guard the pending one is never newer than the highest seen
(`GenerationOrder`), so the two tests are one conjunction in `IsNewer`. On the packet path:
the output bitmap is the set of its ports; the pulled Interests are any choice of as many
as the limit allows (the code takes the first ones in name order), and their sends, which
follow one another in the queue, are one call; packets that do not parse change nothing.
`handleTraceData` offers an update once for each return port; the first is admitted and
the others repeat its generation, because no notice can come back before the FlowMod has
been scheduled and run.

## 3. Runs

| Run | Question | Bounds |
|---|---|---|
| `guard_faults` | guard on; loss and jitter on every leg, two retries, lease of 3 from the update or the configuration: do tables, timers and generations stay consistent, does the switch FIB only move forward, is the abstract transaction implemented? | 1 prefix, 2 ports, 2 generations, updates until 4, horizon 9 |
| `default_constant` | the default configuration (guard off, constant delays) under loss and retries: is make-before-break kept? | same sets, lease 6, updates until 5, horizon 12 |
| `recover_drops` | one drop on each leg, notices lost at random, no lease: does the newest generation reach the switch FIB, and does every transaction end? | 3 retries, horizon 14 |
| `service_guard` | controller against any client and sink, with conflicting contents of one generation and a slow first generation | 3 submissions, horizon 6 |
| `temporary_table` | lookup against the reference table | 3 nested prefixes, 2 ports, lifetimes 1 and 2 or no deadline, horizon 3 |
| `packet_path` | a handover under traffic, guard on, notices lost at random, reforwarding on: where do Interests go? | 5 packets until 3, lease 3, ports 1, 2 and 32, a nonce for each of the mobile's ports, horizon 7 |
| `pending_table` | duplicates, aggregation, lapsed records, ancestor matches and a content store of one entry: who gets content? | 4 packets until 2, lifetimes 1 and 2, two nonces, ports 2, 32 and 33, horizon 4 |
| `switch_fib` | FIB lookup against routes by name | 5 nested prefixes of up to 5 components, 2 ports, no lease or lease 1 or 2, horizon 3 |
| `mobile_traces` | both mobiles, refresh off, at the lifetime and beyond it: one chain, watched, silent only when earned, every association answered, silent after a stop? | lifetime 2, round trips 1 and 3, 5 misses, 2 associations until 7, a stop at any instant, horizon 16 |
| `mobile_route` | one handover: how soon does the switch follow, does the route lapse, what is measured? | lifetime 4, refresh 2, one loss, paths of 1 and 2, handover until 3, horizon 8 |
| `consumer_requests` | late, lost and repeated Data: accounting, timing, pace, and is every request answered? | 3 numbers, round trips 1 and 4, 3 losses, timer 2, horizon 31 |
| `kite_router` | any Interests, Data and Nacks on any face, evictions and timers in any order | 3 faces of which one is the FIB's, 2 traces, 2 contents, 2 nonces for both, a store of one packet, 5 packets, horizon 8; symmetric in contents, nonces and the two faces that are not the FIB's |

Every composed run also checks the types of its variables: `TypeOK` of `RouteControl` as an
invariant of its own, the others as the first conjunct of an invariant (`AckedWasInstalled`,
`NewestSteers`, `OneTraceChain`, `RequestsAccounted`, `EntryHasOneTimer`).

Why the bounds are enough to be interesting. Two generations and two ports give every
supersession, every stale notice and every conflict of content. One prefix suffices
because the controllers keep separate state for each prefix; the theorems below hold for
any set of prefixes. Jitter of one unit around a delay of one covers the synchronous and
the deferred path of each leg and reorders any two messages. The horizon lies beyond the
last update plus its lease or its retries, so that every transaction can end before the
clock stops; the liveness runs depend on that. Five packets are the smallest number for two
trace exchanges and an Interest between them at any point; four packets allow two askers,
content and another Interest after it. The reforwarding limit equals the number of names
that can be pending below the prefix, so the limit itself is met. Five misses are one more
than it takes to exhaust the retries of a trace; the refresh intervals 0, 2 and 3 around a
lifetime of 2 are off, due at the instant of the timeout, and after it. In `mobile_route` the
refresh, the spread of the paths and the lease meet the condition of `RouteNeverLapses` with
one unit to spare. Three losses let one number be lost twice while another is late; the horizon
is beyond the last timeout. In `kite_router` five packets are two trace exchanges around an
Interest, or a trace exchange and an Interest that is sent, refused or answered and repeated;
without its exemption for names that are held back `PendingReachesHop` is violated within them.
In `packet_path` the Interests of different ports have different nonces (`NonceFrom`), so that
one trace may wait on both and its Data answers both; `pending_table` has both nonces on every
port, and so the duplicates.

`guard_faults` leaves `MakeBeforeBreak` to the refinement, which implies it: a transaction
closes only by `Install`, `Complete`, `Expire` or `Abandon`. `default_constant` checks it where
the refinement does not apply.

Scope of the packet properties. `NewestSteers` and `PendingReachesNewest` are about ports
that fit the bitmap and about retries off: with retries on, an update whose budget runs
out is withdrawn before its lease ends, as documented. `PendingReachesNewest` needs the
content store off, since a cache hit leaves the pending record without sending it.
`RouteFollowsTrace` excludes Interests for proper prefixes of trace names: trace Data
would match them too, and `handleTraceData` takes the lowest of all matching ports. The
applications send no such Interest.

Scope of the application properties. `AssociationIsAnswered` ends at the fourth unanswered
trace, where the mobile gives up. `RouteCatchesUp` counts from the last handover one trace
delay, one refresh for each loss and the longest path; it leaves aside updates withdrawn after
their last retry. `PendingReachesHop` counts an Interest as sent to the hop since its entry
exists, and it exempts the names in `heldBack`: those whose last Interest was held back by
`hasPendingOutRecords` behind one that is under way although nobody waits for it any more,
because its askers were answered or refused (see Observations). A name leaves `heldBack` with
its next Interest that is not held back, and with the next trace, which pulls it. In
`MobileTraces` a failed
assertion of `KitePullMobile::SendTrace` ends the behaviour (see Observations).

Every property has a mutant in `PROJECT.json`: a definition changed the way a plausible
bug would change it, under which TLC finds the property violated.

Fairness: weak fairness of the simulator's step (`Run`, `TracesRun`, `RequestsRun`). The
simulator always runs its next event or moves on; nothing is assumed about packets, and no
loss is assumed fair. `NewestIsInstalled` is checked where every drop budget is smaller than
the number of attempts, `AssociationIsAnswered` and `EveryRequestIsAnswered` where misses and
losses are bounded. `ConsumerRequests` also has `WF(Start)`: the simulator runs the start of
an application as one of its events. Associations, handovers and stops are not fair.

`CHECK_DEADLOCK FALSE` appears in `service_guard.cfg`, `packet_path.cfg`, `pending_table.cfg`,
`mobile_traces.cfg`, `mobile_route.cfg`, `consumer_requests.cfg` and
`kite_router.cfg`: there the inputs stop after the last submission, association, trace number
or packet, the queue runs empty and the simulation ends at the horizon.

### Observations

Two statements of the baseline's code do not hold of it, and one of its promises has an
exception. All are modelled as the code behaves.

- `kite-pull-mobile.cpp:170` asserts `m_seq > 0`. After the fourth timeout `OnTraceTimeout`
  sets `m_seq = 0` and relies on `StartNegotiation`, which returns at once because the
  constructor sets `m_negotiationDone` and nothing clears it. With the refresh off ("set to 0
  to disable periodic sending", line 62) or longer than a trace lives, the next association
  runs `SendTrace` with number 0. `SilenceIsEarned` shows that a refresh within the lifetime
  excludes this.
- `pit-out-record.hpp:45` says of a recorded Nack that "the last outgoing Interest has been
  NACKed", and line 66 that `clearIncomingNack` "is invoked in outgoing Interest pipeline".
  Nothing calls it: an out-record that is used again keeps the old Nack (`HeldNack`), and
  `hasPendingOutRecords` then takes the new Interest for refused, so that the next aggregated
  Interest finds no face to use and the strategy rejects the entry.
- `algorithm.cpp:135` (`hasPendingOutRecords`) asks whether an Interest is under way, not
  whether somebody waits for it. Data that satisfies an entry removes its in-records and the
  out-record of one face; a Nack on the last next hop of the prefix (`forwarder.cpp:532`, taken
  for any out-record with its nonce, expired, refused before or not) removes all in-records.
  Out-records to other faces stay. A trace that comes then has nothing to pull, and an Interest
  that comes after it, if the content store does not answer it, is held back behind the old one,
  so it is not sent to the new hop until the old one expires or another trace pulls it. The
  proof of `PendingReachesHop` failed at this step. `heldBack` is exactly this case, and the
  proof shows that there is no other.

On the packet path one promise depends on the names. `forwarding-engine.cpp:231` asks the
temporary FIB first, and each table looks for its own longest match. While the update of a
shorter prefix is pending, its temporary hop therefore answers for names under a longer prefix
whose route is in the flow table already, until that update completes. The proof of
`NewestSteers` needs `NamesApart` for this reason. The mobiles of the scenarios have names of
their own, as do the prefixes of the runs.

## 4. Proofs

Every theorem is `Spec => []Inv` or `Spec => [][A]_vars` for the specification that a run
checks, for all values of the constants that satisfy the named assumptions: natural delays,
limits and generations, functions with the right domains, non-empty sets where the code picks
one. Sets of prefixes, ports, keys and generations are arbitrary. Beyond the assumptions of
the modules these hypotheses occur, each written in the theorem that needs it:

- `GenerationGuard`, the configuration under which the code makes the promise;
- `RetryTimeout > 0` for the refinement: without retries no request is saved to map;
- `OwnMatch`: every prefix has a flow-table match of its own. The match is built from 8-bit
  name hashes, so two prefixes may share one and then replace each other's route (a hazard in
  `PROJECT.json`); what is said of the switch FIB holds as long as they do not;
- `DoPull`, `Cardinality(Content) <= MaxPullCnt` and `Cardinality(Content) <= MaxPullSends` for
  `PendingReachesHop`: with the pull off or cut off at its configured limit or at the fixed one
  of 1000, some pending Interests are not sent on. Nothing is assumed of the neighbours, of the
  faces or of the content store;
- `HashesTellApart` for the flow-table lookup: no two name components hash alike. Like
  `OwnMatch` this is a limit of the 8-bit hashes;
- `NamesApart` and `Uncontested` for `NewestSteers` and `PendingReachesNewest`: no name is under
  two mobile prefixes, and neither a static entry nor the hashes of another prefix compete with
  the route of a mobile prefix for its own names. Both hold in `packet_path` and `pending_table`.

The modules assume of their constants what they are in the code: names are sequences of
components, finitely many occur, and trace Data has a number and a mobile prefix
(`NamesAssumption`, `EngineAssumption`, `TraceAssumption`); a component hash is at most 253, below
the padding (`HashAssumption`); no static route has the match of a mobile prefix
(`EngineAssumption`); lifetimes and leases are natural numbers (`LifetimesAssumption`,
`LeaseAssumption`); the delays of the paths are natural numbers and those up to the switch have a
longest one (`MobileRouteAssumption`). TLC evaluates them in the runs.

Each invariant below was an invariant of a TLC run before it was proved.

### The control plane

`FlowTableProofs` says once what the operations of the flow-table controller may do
(`AcceptEffect`, `SubmitEffect`, `AttemptEffect`): a message is refused, answered from the
record, taken or brought on its way. It also shows that they keep `GuardInv`: applied is not
newer than accepted, a FlowMod in flight is not newer than accepted, a notice in flight is not
newer than applied, and equal generations are equal messages. Both compositions of the
controller use it.

`RouteControlProofs` states its steps for a general `Step`: an update with any lease at any
instant, a lookup of any name, and steps elsewhere that only take identifiers. `Next` of
`RouteControl` is such a step, and so is every step of the packet path, which therefore has
the control plane's invariant for nothing.

With or without the guard: `TypeCorrect` (`TypeOK`),
`TimersBelongToTransactions` (`NoStaleTimer`), `LeaseEndsTransaction`
(`NoTransactionOutlivesLease`), `TemporaryRoutesArePending` (`TemporaryRouteIsPending`). The
types are inductive; none of the others is alone. `TimerInv` adds what the code relies on
silently: every identifier is used once and is smaller than the next one, an identifier kept
under one prefix never names a timer of another (so `Simulator::Cancel` never reaches beyond
its transaction), a closed transaction is closed in all its maps, and the request of a pending
transaction has its generation. `LocalEffect` reduces the actions to five shapes (a transaction
is opened, closed, retried, kept, or expired hops are removed) and the tick; each shape has a
lemma. `NoTransactionOutlivesLease` follows because the lifetime timer of a pending transaction
lies at its deadline and the clock cannot pass it. `TemporaryRouteIsPending` is inductive
relative to `TimerInv`.

With the guard: `GuardOrdersGenerations` (`GenerationOrder`), `GuardFixesDecisions`
(`OneDecisionPerGeneration`), `GuardMovesForward` (`FlowFibMovesForward`),
`GuardMakesBeforeBreak` (`MakeBeforeBreak`), `RetriesBoundCopies` (`CopiesWithinBudget`). The
invariant `RouteInv` has three parts. `GuardInv` is the controller's own. `DecisionInv` collects
all messages about a prefix, on record, saved or in flight: none is newer than the newest
admitted generation, no two are of one generation, and the pending one is the newest. A step
either carries a message that is already among them, so that nothing new has to be compared, or
admits one that is newer than all. `FibInv`: the switch FIB holds what is recorded as applied.
Make-before-break follows from all of them: a transaction that closes outside its lease and its
retries was closed by a notice, the notice is of the applied message, which is in the FIB, and
by `DecisionInv` it is the message whose route the temporary FIB holds. For the budget the calls
in flight must be finitely many (`BudgetInv`); each step replaces a call of the generation by at
most one, and a retry pays for the one it adds. `default_constant` checks `MakeBeforeBreak` with
the guard off, where it depends on constant delays and a lease; there it is model-checked only.

The refinement: `ControlPlaneImplementsTransactions`
(`ImplementsRouteTransaction`), from the invariants above. The mapping is that of
`RouteRefinement`, and the cases of the step are the cases of the code: a trace update admits
(`UpdateAdmits`); a call of a leg loses, installs, completes or does both at once, when the
notice comes back inside the call (`LegTransacts`); a retry timer retries, which may be answered
at once, or abandons (`RetryTransacts`); a lifetime timer expires a transaction
(`TimerTransacts`); the clock moves only when no transaction is dead (`TickTransacts`); a lookup
is a stuttering step.

`ControllerServiceProofs`, for any client and any sink: `NoticesTellOfInstallations`
(`AckedWasInstalled`), `GuardOrdersInstallations` (`InstallsInOrder`). `ServiceInv` adds that
what is applied, and what a notice in flight is about, was installed, and with the guard
`GuardInv` and that an installation is not newer than the applied message of its prefix.

### The forwarding tables

`ForwardingProofs`: `TemporaryLookupIsLongest` (`LookupIsLongestLive`). By `TableInv` the table
that removes expired hops lazily and the one that forgets nothing hold the same live hops under
every prefix; a lookup prunes only what is not live, so both have the same longest prefix.

`FlowTableLookupIsLongest` (`FibLookupIsLongest`), with `HashesTellApart`. By `FibTableInv` the
entries of the flow table are those of the routes, one for each name of at most four components
that stands for a prefix. With distinct hashes an entry matches a name exactly when what it
stands for is a prefix of it, and its priority grows with the length, so the entry of highest
priority is that of the longest prefix.

### The packet path

`ForwardingProofs`, on top of `RouteControlProofs`. `EngineInv` is the invariant of the control
plane with three parts more: the ingress records of a pending name are among those that asked
and include all that have not lapsed, and who asked for a trace is on record (`PitInv`); the
calls of the engine lie ahead, under identifiers that are taken (`CallInv`); the types of the
rest (`DeviceInv`). `EngineSteps` shows that each step of the engine is a `Step` of the control
plane.

- `ContentReachesItsAskers` (`DataAnswersAllAskers`): Data passes to the ports of all records it
  consumes, and by `PitInv` these include everyone whose Interest has not lapsed.
- `RoutesFollowTraces` (`RouteFollowsTrace`), with or without the guard: a step acts on one
  message (`ActsOn`), and whatever is sent, saved, recorded or installed afterwards was there
  before or is that message (`CopiesOfOne`). A new message comes only from trace Data that
  consumed its own trace Interest, whose port is in `traced` by `PitInv`.
- `NewestUpdateSteers` (`NewestSteers`): by `SteerInv` the promised route is the temporary route
  of the pending transaction, or the applied route, until its lease is over. In the first case
  the temporary FIB answers; in the second it is silent, by `NamesApart`, and the entry in the
  flow table wins, by `Uncontested`.
- `PendingInterestsFollow` (`PendingReachesNewest`): `ReachInv` says of every pending Interest
  below a promised prefix, within the reforwarding limit, that it was sent to the promised port,
  or a scheduled call will send it there or look it up, or it came from there. The case that
  needs care is the Interest that waits for its lookup while its entry lapses or is consumed and
  comes back: by `QueuedInv` it is on record, or a later Interest for the name waits too. A
  lookup that runs meanwhile finds the promised port, by `NewestUpdateSteers`.

### The mobile and its route

`MobileRouteProofs`, over the abstract transaction, which the refinement theorem carries over to
the control plane: `HandoverTakesEffect` (`RouteCatchesUp`), `RefreshesKeepTheRoute`
(`RouteNeverLapses`), `HandoverDelayIsOfNewPath` (`HandoverDelayIsCausal`). `RouteMobileInv` has
the mobile's calls, of which the refresh runs before the timeout (`CallsInv`), the packets under
way (`QueueInv`) and what the switch knows (`RouteInv`: leases end in the order of the traces,
and a transaction that closed was carried out, expired or was abandoned). Each theorem has a part
of its own. `CatchUpInv`: after a handover the switch knows the present access point, or a trace
that tells it is under way, or will be sent in time. `AliveInv`: without losses the next trace
reaches the switch before the lease of the newest route ends; this is where the condition on
refresh, spread and lifetime is used. `CausalInv`: until the second handover whatever is at the
present access point comes from a trace sent after the first one.

### The applications

`MobileProofs`, for both mobiles: `TracesFormOneChain` (`OneTraceChain`), `NewestIsWatched`
(`NewestTraceIsWatched`), `SilenceHasAReason` (`SilenceIsEarned`). `MobileInv` has one part for
each thing the code takes for granted: there is one scheduled timeout, the one that
`timeoutEvent` names (`CallsInv`); it watches a trace that has not timed out before, and number
0 has none (`NumbersInv`); beside a timeout there is the refresh, scheduled before it and, when
the interval is within the lifetime, due no later (`RefreshInv`), so that the timeout of a
running mobile never runs then; every retry stands for a trace that timed out (`RetryInv`). A
KITE mobile that has been stopped sends nothing; the parts that need a sending mobile are
limited to `Sends`. `WatchedInv` is stronger than its property: the next association's trace
replaces a silent one only of a Statim mobile, since a KITE mobile may be stopped before it.

`ConsumerProofs`: `RequestsAreAccounted` (`RequestsAccounted`), `DelaysSpanRequests`
(`DelaysSpanTheRequest`), `RetransmissionsNeedTimeouts` (`RetransmissionsAreTimeouts`),
`TimeoutsAreTimely` (`TimeoutIsTimely`), `NoRetransmissionIsEarly` (`NoEarlyRetransmission`),
`InterestsArePaced` (`SendsArePaced`). `ConsumerInv` adds to them: there is one scheduled
Interest, the one `sendEvent` names; numbers are requested in their order and nothing is on
record of those that were not; a watched request is watched from its latest Interest; a check
is scheduled in time for every watched request; the scheduled Interest keeps its distance from
those that were sent; and the estimator reads its initial estimate whenever it is asked, because
`Reset` follows every sample. The last one is why the initial timeout bounds all timeouts: in
this code the measured round trips never change it.

### The KITE router

`KiteProofs`, for any faces, traces, contents, lifetimes, store and settings: `EntriesHaveOneTimer` (`EntryHasOneTimer`), `HopTimersAreOwned` (`HopTimerIsOwned`),
`HopsFollowTraces` (`HopFollowsTrace`), `EntriesOutliveRequests` (`PendingOutlivesTimers`). In
`KiteInv` an entry has one record of each kind for a face, no in-record ends later than an
Interest that would come now (`RecordsInv`), and the unsatisfy timer is not before any of them
(`TimersInv`). The middle part is what makes it inductive: because all Interests of a name live
equally long, the record of a new Interest is the one that lasts longest, so the timer that
`setUnsatisfyTimer` sets lies at its expiry (`InRecordAdded`). `HopTimerIsOwned` is inductive
with the types: at most one call is scheduled, so that whoever replaces or removes the hop
cancels all there are (`NoOtherTimer`). `TraceInv` says that the faces which wait for a trace
announced it.

`PendingInterestsReachHop` (`PendingReachesHop`), with the hypotheses above. `PullInv` adds to
the property what the entry has to remember (`SendInv`): every face with an out-record is in
`sent`; in a rejected entry that still has in-records nothing is pending, so that the Interest
which revives it is sent; and a running unsatisfy timer is the expiry of one of the in-records,
so that an entry with an asker, before its timer, has one that is not expired. An Interest
therefore is sent by the strategy, to the hop; or it waits behind one that somebody was waiting
for, unexpired, and which was sent to the hop or pulled then; or it enters `heldBack`
(`InterestReaches`, whose cases are those of `HoldBack`). A new trace pulls everything that
waits and was not sent to its hop, held back or not (`EveryPullableIsPulled`,
`TraceKeepsReach`). A Nack, for whatever Interest, takes in-records only together with the
hop, and a removed hop leaves nothing to reach (`NackKeepsReach`); Data leaves nobody waiting
(`ContentKeepsReach`).

### Only model-checked

- Liveness (`PendingResolves`, `NewestIsInstalled`, `AssociationIsAnswered`,
  `StoppedMobileFallsSilent`, `EveryRequestIsAnswered`): it needs fairness and `ENABLED`, out of
  the prover's reach.
- `MakeBeforeBreak` without the guard (`default_constant`), which holds for constant delays only.

Every other property of the runs, invariant or action property, is stated by a theorem.

## 5. Not modelled

- **Vendored ns-3, ndn-cxx, NFD and ndnSIM.** They are nearly all of the repository's lines
  (TCP/IP, Wi-Fi, packet formats, security, tools) and none of this project's logic. Modelled
  are the parts the project runs through: the simulator's queue, `Consumer` and its
  estimator, and the pipelines and tables of the forwarder that KITE changes.
- **Engine and tables**: malformed packets and telemetry of the engine, byte layout of headers
  and the device table; the operations that only tests call (`PendingInterestTable::erase`,
  `ContentStore::clear` and a change of its capacity at run time).
- **Helper and scenarios**: `StatimHelper` copies attributes into a simulation once, and the
  grid scenarios build topologies; neither has behaviour of its own afterwards. `Setup`,
  `Step` and `Pick` of `wired-handover.hpp` are called by no scenario.
- **KITE**: the rendezvous application beyond its answer to a trace, `KitePullConsumer`, which repeats the
  logic of `StatimConsumer`, the removal of faces, scope control, the next-hop tag and the
  choice of a strategy.
- **Several switches in a row.** Each acts on the trace Data that passes it and they exchange
  nothing else; `MobileRoute` models the one where the paths part.
- **Experiment runner, analysis, tests and benchmarks**: processes, files and statistics around
  the simulator.
