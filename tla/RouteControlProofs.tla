--------------------------- MODULE RouteControlProofs --------------------------
(***************************************************************************)
(* Theorems about RouteControl, for every set of prefixes, ports and         *)
(* generations, every delay, jitter, loss and retry setting: what holds of    *)
(* the tables and timers, what the generation guard adds, and that the        *)
(* control plane implements RouteTransaction.                                 *)
(***************************************************************************)
EXTENDS RouteRefinement, FlowTableProofs, FiniteSetTheorems

USE DEF NoSeq, NoLease, NoTimer

--------------------------------------------------------------------------------
(* The steps of the control plane, whoever drives it: applyTraceUpdate at any instant and
   for any lease, a lookup of any name, and the steps of other parts, which take no more
   than identifiers. *)

Update(p, port, seq, ttl) ==
    /\ \E ack \in BOOLEAN : ApplyTraceUpdate(p, port, seq, ttl, ack)
    /\ TakeUids
    /\ UNCHANGED <<now, flowFib>>

Elsewhere ==
    /\ TakeUids \/ UNCHANGED nextUid
    /\ UNCHANGED <<now, controllerVars, temporaryFib, localVars, flowFib>>

Step ==
    \/ \E p \in Prefix, port \in Port, seq \in Generation, ttl \in Nat : Update(p, port, seq, ttl)
    \/ \E n : Lookup(n)
    \/ \E e \in inFlight : RunLeg(e)
    \/ \E t \in timers : RunTimer(t)
    \/ Tick
    \/ Elsewhere

\* Trace Data of RouteControl is such an update.
LEMMA TraceUpdates ==
  ASSUME NEW p, NEW port, NEW seq, NEW ttl \in Ttl, TraceUpdate(p, port, seq, ttl)
  PROVE  ttl \in Nat /\ Update(p, port, seq, ttl)
BY RouteAssumption DEF TraceUpdate, Update

\* The steps of RouteControl are such steps.
LEMMA NextIsStep == [Next]_vars => Step
<1>1. ASSUME NEW p \in Prefix, NEW port \in Port, NEW seq \in Generation, NEW ttl \in Ttl,
             TraceUpdate(p, port, seq, ttl)
      PROVE  Step
  BY <1>1, TraceUpdates DEF Step
<1>2. ASSUME Run PROVE Step
  BY <1>2 DEF Run, Step
<1>3. ASSUME UNCHANGED vars PROVE Step
  BY <1>3 DEF vars, Step, Elsewhere, controllerVars, localVars
<1>4. ASSUME NEW n \in Prefix, Lookup(n) PROVE Step
  BY <1>4 DEF Step
<1> QED
  BY <1>1, <1>2, <1>3, <1>4 DEF Next

--------------------------------------------------------------------------------
(* Type correctness *)

\* The local controller's constructors are typed.
LEMMA NewTyped ==
  ASSUME TypeOK, NEW m \in Message
  PROVE  /\ NewTransaction(m) \in Transaction
         /\ NewTimers(m) \subseteq Timer
         /\ Idle \in Transaction
         /\ ReplaceHop(m) \subseteq Hop
<1>0. /\ now \in Nat /\ nextUid \in Nat /\ local \in [Prefix -> Transaction]
      /\ temporaryFib \in [Prefix -> SUBSET Hop]
  BY DEF TypeOK, LocalTypeOK, TableTypeOK
<1>1. RetryLimit \in 0..RetryLimit /\ RetryTimeout \in Nat
  BY LocalAssumption
<1>2. NewRequest(m) \in Request
  <2>1. local[m.prefix].request \in Request
    BY <1>0, MessageFields DEF Transaction
  <2>2. [msg |-> m, retriesLeft |-> RetryLimit, timer |-> RetryUid] \in Request
    BY <1>0, <1>1 DEF Request, RetryUid
  <2> QED
    BY <2>1, <2>2 DEF NewRequest
<1>3. NewTransaction(m) \in Transaction
  BY <1>0, <1>2, MessageFields DEF NewTransaction, Transaction, LifetimeUid
<1>4. NewTimers(m) \subseteq Timer
  BY <1>0, <1>1, MessageFields DEF NewTimers, RetryTimer, Timer, LifetimeUid, RetryUid
<1>5. Idle \in Transaction
  BY DEF Idle, Transaction, Request
<1>6. ReplaceHop(m) \subseteq Hop
  <2>1. [port |-> m.port, deadline |-> m.expiry] \in Hop
    BY MessageFields DEF Hop
  <2>2. temporaryFib[m.prefix] \subseteq Hop
    BY <1>0, MessageFields
  <2> QED
    BY <2>1, <2>2 DEF ReplaceHop, InsertHop, Live
<1> QED
  BY <1>3, <1>4, <1>5, <1>6

\* handleControlResponse keeps the types.
LEMMA ResponseTyped ==
  ASSUME TypeOK, NEW m \in Message, NEW ack \in BOOLEAN, HandleControlResponse(m, ack)
  PROVE  /\ local' \in [Prefix -> Transaction] /\ timers' \subseteq Timer
         /\ temporaryFib' \in [Prefix -> SUBSET Hop]
<1>1. /\ local \in [Prefix -> Transaction] /\ timers \subseteq Timer
      /\ temporaryFib \in [Prefix -> SUBSET Hop]
  BY DEF TypeOK, LocalTypeOK, TableTypeOK
<1>2. Idle \in Transaction /\ m.prefix \in Prefix
  BY NewTyped, MessageFields
<1> QED
  BY <1>1, <1>2 DEF HandleControlResponse, Withdraw, Erase, CancelTimers, Cancel

\* Every step keeps the types: one case for each action of Next.
LEMMA TypeStep == TypeOK /\ Step => TypeOK'
<1> SUFFICES ASSUME TypeOK, Step PROVE TypeOK'
  OBVIOUS
<1>0. /\ now \in Nat /\ nextUid \in Nat
      /\ prefixState \in [Prefix -> PrefixState]
      /\ controlDrops \in Nat /\ flowModDrops \in Nat /\ syncAckDrops \in Nat
      /\ inFlight \subseteq LegCall
      /\ temporaryFib \in [Prefix -> SUBSET Hop]
      /\ local \in [Prefix -> Transaction]
      /\ highestSeen \in [Prefix -> Generation \cup {NoSeq}]
      /\ timers \subseteq Timer
      /\ flowFib \in [Key -> Message \cup {NoMessage}]
  BY DEF TypeOK, ControllerTypeOK, TableTypeOK, LocalTypeOK
<1> USE DEF TypeOK, ControllerTypeOK, TableTypeOK, LocalTypeOK, controllerVars, localVars
<1>1. ASSUME NEW p \in Prefix, NEW port \in Port, NEW seq \in Generation, NEW ttl \in Nat,
             Update(p, port, seq, ttl)
      PROVE  TypeOK'
  <2>1. PICK ack \in BOOLEAN : ApplyTraceUpdate(p, port, seq, ttl, ack)
    BY <1>1 DEF Update
  <2> DEFINE m == [prefix |-> p, seq |-> seq, port |-> port, expiry |-> RouteExpiry(ttl)]
             done == ack /\ Completes(NewTransaction(m), m)
  <2>2. m \in Message
    <3>1. ttl \in Nat /\ EntryLifetime \in Nat
      BY LocalAssumption
    <3>2. RouteExpiry(ttl) \in Nat
      BY <1>0, <3>1 DEF RouteExpiry, Lifetime
    <3> QED
      BY <3>2 DEF Message
  <2>3. /\ highestSeen' = (IF GenerationGuard THEN [highestSeen EXCEPT ![p] = seq]
                                              ELSE highestSeen)
        /\ SubmitFlowUpdate(m, ack)
        /\ local' = [local EXCEPT ![p] = IF done THEN Idle ELSE NewTransaction(m)]
        /\ temporaryFib' = [temporaryFib EXCEPT ![p] = IF done THEN {} ELSE ReplaceHop(m)]
        /\ timers' = CancelTimers(local[p]) \cup (IF done THEN {} ELSE NewTimers(m))
    BY <2>1 DEF ApplyTraceUpdate
  <2> HIDE DEF m, done
  <2>4. ControllerTypeOK'
    <3>1. /\ controlDrops' \in Nat /\ syncAckDrops' \in Nat /\ UNCHANGED flowModDrops
          /\ Taken(inFlight, m, ack)
      BY <2>2, <2>3, SubmitEffect
    <3>2. prefixState' \in [Prefix -> PrefixState] /\ inFlight' \subseteq LegCall
      BY <1>0, <2>2, <3>1, TakenTyped
    <3> QED
      BY <1>0, <3>1, <3>2
  <2>5. LocalTypeOK' /\ TableTypeOK'
    <3>1. /\ NewTransaction(m) \in Transaction /\ NewTimers(m) \subseteq Timer
          /\ Idle \in Transaction /\ ReplaceHop(m) \subseteq Hop
      BY <2>2, NewTyped
    <3>2. local' \in [Prefix -> Transaction]
      BY <1>0, <2>3, <3>1
    <3>3. temporaryFib' \in [Prefix -> SUBSET Hop]
      BY <1>0, <2>3, <3>1
    <3>4. timers' \subseteq Timer
      BY <1>0, <2>3, <3>1 DEF CancelTimers, Cancel
    <3>5. highestSeen' \in [Prefix -> Generation \cup {NoSeq}]
      BY <1>0, <2>3
    <3> QED
      BY <3>2, <3>3, <3>4, <3>5
  <2>6. now' \in Nat /\ nextUid' \in Nat /\ UNCHANGED flowFib
    BY <1>0, <1>1 DEF Update, TakeUids
  <2> QED
    BY <1>0, <2>4, <2>5, <2>6
<1>2. ASSUME NEW n, Lookup(n) PROVE TypeOK'
  BY <1>0, <1>2 DEF Lookup, FindLongestPrefix, Live
<1>3. ASSUME NEW e \in inFlight, RunAcceptControl(e) PROVE TypeOK'
  <2>1. PICK ack \in BOOLEAN : /\ AcceptControl(e.msg, inFlight \ {e}, ack)
                               /\ HandleControlResponse(e.msg, ack)
    BY <1>3 DEF RunAcceptControl
  <2>2. e.msg \in Message /\ inFlight \ {e} \in SUBSET LegCall
    BY <1>0 DEF LegCall
  <2>3. syncAckDrops' \in Nat /\ Taken(inFlight \ {e}, e.msg, ack)
    BY <2>1, <2>2, AcceptEffect
  <2>4. prefixState' \in [Prefix -> PrefixState] /\ inFlight' \subseteq LegCall
    BY <2>2, <2>3, TakenTyped
  <2>5. /\ local' \in [Prefix -> Transaction] /\ timers' \subseteq Timer
        /\ temporaryFib' \in [Prefix -> SUBSET Hop]
    BY <2>1, <2>2, ResponseTyped
  <2> QED
    BY <1>0, <1>3, <2>3, <2>4, <2>5 DEF RunAcceptControl, TakeUids
<1>4. ASSUME NEW e \in inFlight, RunAttemptFlowMod(e) PROVE TypeOK'
  <2>1. PICK applied \in BOOLEAN, ack \in BOOLEAN :
          /\ AttemptFlowMod(e.msg, inFlight \ {e}, SinkAccepts(e.msg), applied, ack)
          /\ HandleControlResponse(e.msg, ack)
          /\ IF applied THEN InstallFibEntry(e.msg) ELSE UNCHANGED flowFib
    BY <1>4 DEF RunAttemptFlowMod
  <2>2. /\ e.msg \in Message /\ inFlight \ {e} \in SUBSET LegCall
        /\ SinkAccepts(e.msg) \in BOOLEAN
    BY <1>0 DEF LegCall, SinkAccepts
  <2>3. /\ flowModDrops' \in Nat /\ syncAckDrops' \in Nat
        /\ \/ UNCHANGED prefixState
           \/ prefixState' = [prefixState EXCEPT ![e.msg.prefix].applied = e.msg]
        /\ inFlight' = inFlight \ {e} \/ GrowsBy(inFlight \ {e}, e.msg, "deliverSyncAck")
    BY <2>1, <2>2, AttemptEffect
  <2>4. prefixState' \in [Prefix -> PrefixState]
    <3>1. /\ e.msg.prefix \in Prefix /\ prefixState \in [Prefix -> PrefixState]
          /\ prefixState[e.msg.prefix] \in PrefixState
      BY <1>0, <2>2, MessageFields
    <3>2. [prefixState[e.msg.prefix] EXCEPT !.applied = e.msg] \in PrefixState
      BY <2>2, <3>1 DEF PrefixState
    <3> QED
      BY <2>3, <3>1, <3>2
  <2>5. inFlight' \subseteq LegCall
    BY <1>0, <2>2, <2>3, GrowsTyped
  <2>6. /\ local' \in [Prefix -> Transaction] /\ timers' \subseteq Timer
        /\ temporaryFib' \in [Prefix -> SUBSET Hop]
    BY <2>1, <2>2, ResponseTyped
  <2>7. flowFib' \in [Key -> Message \cup {NoMessage}]
    BY <1>0, <2>1, <2>2 DEF InstallFibEntry
  <2> QED
    BY <1>0, <1>4, <2>3, <2>4, <2>5, <2>6, <2>7 DEF RunAttemptFlowMod, TakeUids
<1>5. ASSUME NEW e \in inFlight, RunDeliverSyncAck(e) PROVE TypeOK'
  <2>1. PICK ack \in BOOLEAN : DeliverSyncAck(e.msg, ack) /\ HandleControlResponse(e.msg, ack)
    BY <1>5 DEF RunDeliverSyncAck
  <2>2. syncAckDrops' \in Nat
    BY <1>0, <2>1, DropsTyped DEF DeliverSyncAck
  <2>3. e.msg \in Message
    BY <1>0 DEF LegCall
  <2>4. /\ local' \in [Prefix -> Transaction] /\ timers' \subseteq Timer
        /\ temporaryFib' \in [Prefix -> SUBSET Hop]
    BY <2>1, <2>3, ResponseTyped
  <2> QED
    BY <1>0, <1>5, <2>2, <2>4 DEF RunDeliverSyncAck
<1>6. ASSUME NEW t \in timers, RunExpiry(t) PROVE TypeOK'
  <2>1. t.prefix \in Prefix /\ local[t.prefix] \in Transaction
    BY <1>0 DEF Timer
  <2> DEFINE r == local[t.prefix]
             request == IF r.request.msg.seq = t.seq THEN NoRequest ELSE r.request
             closed == [seq |-> NoSeq, expiry |-> NoLease, lifetimeTimer |-> NoTimer,
                        request |-> request]
  <2>2. closed \in Transaction
    BY <2>1 DEF Transaction, Request
  <2>3. [r EXCEPT !.lifetimeTimer = NoTimer] \in Transaction
    BY <2>1 DEF Transaction
  <2>4. UNCHANGED <<now, nextUid, controllerVars, highestSeen, flowFib>> /\ ExpireEntryBySeq(t)
    BY <1>6 DEF RunExpiry
  <2>5. CASE r.seq = t.seq
    <3>1. /\ Erase(t.prefix)
          /\ local' = [local EXCEPT ![t.prefix] = closed]
          /\ timers' \subseteq timers
      BY <2>4, <2>5 DEF ExpireEntryBySeq, Cancel
    <3> HIDE DEF closed
    <3> QED
      BY <1>0, <2>2, <2>4, <3>1 DEF Erase
  <2>6. CASE r.seq # t.seq
    BY <1>0, <2>1, <2>3, <2>4, <2>6 DEF ExpireEntryBySeq
  <2> QED
    BY <2>5, <2>6
<1>7. ASSUME NEW t \in timers, RunRetry(t) PROVE TypeOK'
  <2> DEFINE r == local[t.prefix]
  <2>1. PICK ack \in BOOLEAN : RetryRequest(t, ack)
    BY <1>7 DEF RunRetry
  <2>2. t.prefix \in Prefix /\ t.seq \in Generation /\ r \in Transaction /\ t \in Timer
    BY <1>0 DEF Timer
  <2>3. r.request \in [msg : Message, retriesLeft : 0..RetryLimit, timer : Nat]
    <3>1. r.request.msg.seq \in Nat
      BY <2>1, <2>2, GenerationAssumption DEF RetryRequest
    <3>2. r.request # NoRequest
      BY <3>1 DEF NoRequest, NoMessage
    <3> QED
      BY <2>2, <3>2 DEF Transaction, Request
  <2>4. ControllerTypeOK'
    <3>1. r.request.msg \in Message /\ SubmitFlowUpdate(r.request.msg, ack)
      BY <2>1, <2>3 DEF RetryRequest
    <3>2. /\ controlDrops' \in Nat /\ syncAckDrops' \in Nat /\ UNCHANGED flowModDrops
          /\ Taken(inFlight, r.request.msg, ack)
      BY <3>1, SubmitEffect
    <3>3. prefixState' \in [Prefix -> PrefixState] /\ inFlight' \subseteq LegCall
      BY <1>0, <3>1, <3>2, TakenTyped
    <3> QED
      BY <1>0, <3>2, <3>3
  <2>5. Rearm(r) \in Transaction
    <3>1. r.request.retriesLeft > 0
      BY <2>1 DEF RetryRequest
    <3>2. r.request.retriesLeft - 1 \in 0..RetryLimit
      BY <2>3, <3>1, LocalAssumption
    <3>3. [msg |-> r.request.msg, retriesLeft |-> r.request.retriesLeft - 1,
           timer |-> RearmedUid] \in Request
      BY <1>0, <2>3, <3>2 DEF Request, RearmedUid
    <3> QED
      BY <2>2, <3>3 DEF Transaction, Rearm
  <2>6. RetryTimer(RearmedUid, t.prefix, t.seq) \in Timer
    BY <1>0, <2>2, LocalAssumption DEF Timer, RetryTimer, RearmedUid
  <2>7. Idle \in Transaction
    BY DEF Idle, Transaction, Request
  <2>8. LocalTypeOK' /\ TableTypeOK'
    <3>1. CASE ack /\ Completes(r, r.request.msg)
      <4>1. Withdraw(t.prefix, CancelTimers(r) \ {t})
        BY <2>1, <3>1 DEF RetryRequest
      <4> QED
        BY <1>0, <1>7, <2>7, <4>1 DEF Withdraw, Erase, CancelTimers, Cancel, RunRetry
    <3>2. CASE ~(ack /\ Completes(r, r.request.msg))
      <4>1. /\ local' = [local EXCEPT ![t.prefix] = Rearm(r)]
            /\ timers' = (timers \ {t}) \cup
                           {RetryTimer(RearmedUid, t.prefix, t.seq)}
            /\ UNCHANGED temporaryFib
        BY <2>1, <3>2 DEF RetryRequest
      <4> QED
        BY <1>0, <1>7, <2>5, <2>6, <4>1 DEF RunRetry
    <3> QED
      BY <3>1, <3>2
  <2> QED
    BY <1>0, <1>7, <2>4, <2>8 DEF RunRetry, TakeUids
<1>8. ASSUME NEW t \in timers, RunGiveUp(t) PROVE TypeOK'
  <2>1. t.prefix \in Prefix /\ local[t.prefix] \in Transaction
    BY <1>0 DEF Timer
  <2>2. Idle \in Transaction
    BY DEF Idle, Transaction, Request
  <2>3. [local[t.prefix] EXCEPT !.request = NoRequest] \in Transaction
    BY <2>1 DEF Transaction, Request
  <2> QED
    BY <1>0, <1>8, <2>1, <2>2, <2>3 DEF RunGiveUp, GiveUp, Withdraw, Erase, Cancel
<1>9. CASE Tick
  BY <1>0, <1>9 DEF Tick, Advance
<1>10. CASE Elsewhere
  BY <1>0, <1>10 DEF Elsewhere, TakeUids
<1> QED
  BY <1>1, <1>2, <1>3, <1>4, <1>5, <1>6, <1>7, <1>8, <1>9, <1>10
     DEF Step, RunLeg, RunTimer

\* The initial state is well typed.
LEMMA TypeInit == Init => TypeOK
<1> SUFFICES ASSUME Init PROVE TypeOK
  OBVIOUS
<1>1. Idle \in Transaction
  BY DEF Idle, Transaction, Request
<1>2. DropFirstN["control"] \in Nat /\ DropFirstN["flowMod"] \in Nat
        /\ DropFirstN["syncAck"] \in Nat
  BY ControllerAssumption DEF Leg
<1> QED
  BY <1>1, <1>2 DEF Init, TypeOK, SimulatorInit, ControllerInit, TableInit, LocalInit,
     ControllerTypeOK, TableTypeOK, LocalTypeOK, PrefixState

\* TypeOK holds in every reachable state.
THEOREM TypeCorrect == Spec => []TypeOK
BY TypeInit, TypeStep, NextIsStep, PTL DEF Spec

--------------------------------------------------------------------------------
(* The transactions of the local route controller, their temporary routes and their      *)
(* timers: they are opened, closed and cancelled together.  Nothing here needs the guard. *)

\* The inductive invariant of the timers.  A timer is owned by the pending transaction of
\* its prefix and lies ahead; no handle of one prefix names a timer of another, which is
\* why a cancellation never reaches beyond its transaction; all identifiers are used, and
\* each names one timer.
Owned(t) ==
    LET r == local[t.prefix] IN
    /\ r.seq = t.seq
    /\ t.call = "expireEntryBySeq" =>
          t.uid = r.lifetimeTimer /\ t.at = r.expiry /\ r.expiry # NoLease
    /\ t.call = "onControllerRetryTimeout" => t.uid = r.request.timer /\ RetryTimeout > 0

Armed(p, u, c) == \E t \in timers : t.uid = u /\ t.prefix = p /\ t.call = c

TimerInv ==
    /\ \A t \in timers : Owned(t) /\ t.at >= now /\ t.uid < nextUid
    /\ \A p \in Prefix :
          /\ local[p].lifetimeTimer < nextUid /\ local[p].request.timer < nextUid
          /\ ~Pending(p) => local[p] = Idle
          /\ RetryTimeout = 0 => local[p].request = NoRequest
          /\ Pending(p) /\ local[p].expiry # NoLease =>
                Armed(p, local[p].lifetimeTimer, "expireEntryBySeq")
          /\ Pending(p) /\ RetryTimeout > 0 =>
                /\ Armed(p, local[p].request.timer, "onControllerRetryTimeout")
                /\ local[p].request.msg.seq = local[p].seq
    /\ \A t \in timers, p \in Prefix :
          t.uid = local[p].lifetimeTimer \/ t.uid = local[p].request.timer => t.prefix = p
    /\ \A s, t \in timers : s.uid = t.uid => s = t

--------------------------------------------------------------------------------
(* What a step does to the transactions *)

\* A new transaction for m, in the place of the one that is pending.
Opens(m) ==
    /\ local' = [local EXCEPT ![m.prefix] = NewTransaction(m)]
    /\ timers' = CancelTimers(local[m.prefix]) \cup NewTimers(m)
    /\ temporaryFib' = [temporaryFib EXCEPT ![m.prefix] = ReplaceHop(m)]
    /\ UNCHANGED now /\ TakeUids

\* The end of the transaction of p.
Closes(p) ==
    /\ local' = [local EXCEPT ![p] = Idle]
    /\ timers' = {t \in timers : t.prefix # p}
    /\ temporaryFib' = [temporaryFib EXCEPT ![p] = {}]
    /\ UNCHANGED now /\ nextUid' >= nextUid

\* Another attempt of the transaction whose retry timer is t.
Retries(t) ==
    /\ t \in timers /\ t.call = "onControllerRetryTimeout"
    /\ local[t.prefix].request.msg.seq = t.seq /\ local[t.prefix].request.retriesLeft > 0
    /\ local' = [local EXCEPT ![t.prefix] = Rearm(local[t.prefix])]
    /\ timers' = (timers \ {t}) \cup {RetryTimer(RearmedUid, t.prefix, t.seq)}
    /\ UNCHANGED <<temporaryFib, now>> /\ TakeUids

\* No transaction changes.
Keeps == /\ UNCHANGED <<local, timers, temporaryFib, now>> /\ nextUid' >= nextUid
Prunes(n) == FindLongestPrefix(n) /\ UNCHANGED <<local, timers, now, nextUid>>

\* The fields of a timer.
LEMMA TimerFields ==
  ASSUME TypeOK, NEW t \in timers
  PROVE  /\ t.prefix \in Prefix /\ t.seq \in Nat /\ t.seq # -1 /\ t.at \in Nat /\ t.uid \in Nat
         /\ t.call = "expireEntryBySeq" \/ t.call = "onControllerRetryTimeout"
<1>1. /\ t.prefix \in Prefix /\ t.seq \in Generation /\ t.at \in Nat /\ t.uid \in Nat
      /\ t.call = "expireEntryBySeq" \/ t.call = "onControllerRetryTimeout"
  BY DEF TypeOK, LocalTypeOK, Timer
<1>2. t.seq \in Nat
  BY <1>1, GenerationAssumption
<1> QED
  BY <1>1, <1>2

\* Cancelling the timers of a transaction removes exactly the timers of its prefix.
LEMMA CancelsOwnTimers ==
  ASSUME TypeOK, TimerInv, NEW p \in Prefix
  PROVE  CancelTimers(local[p]) = {t \in timers : t.prefix # p}
<1>1. timers \subseteq Timer
  BY DEF TypeOK, LocalTypeOK
<1>2. ASSUME NEW t \in timers, t.prefix = p
      PROVE  t.uid = local[p].lifetimeTimer \/ t.uid = local[p].request.timer
  BY <1>1, <1>2 DEF TimerInv, Owned, Timer
<1>3. ASSUME NEW t \in timers, t.prefix # p
      PROVE  t.uid # local[p].lifetimeTimer /\ t.uid # local[p].request.timer
  BY <1>3 DEF TimerInv
<1> QED
  BY <1>2, <1>3 DEF CancelTimers, Cancel

\* handleControlResponse closes the transaction that the notice completes, or leaves
\* everything as it is.
LEMMA ResponseEffect ==
  ASSUME TypeOK, TimerInv,
         NEW m \in Message, NEW ack \in BOOLEAN, HandleControlResponse(m, ack),
         UNCHANGED now, nextUid' >= nextUid
  PROVE  (ack /\ Completes(local[m.prefix], m) /\ Closes(m.prefix)) \/ Keeps
BY CancelsOwnTimers, MessageFields DEF HandleControlResponse, Withdraw, Erase, Closes, Keeps

\* The message of the trace update, which is sent as a request at once.
IsUpdate(m, p, port, seq, ttl) ==
    /\ m = [prefix |-> p, seq |-> seq, port |-> port, expiry |-> RouteExpiry(ttl)]
    /\ m \in Message /\ (m.expiry = NoLease \/ m.expiry > now)
    /\ ValidTtl(ttl) /\ IsNewer(p, seq)
    /\ highestSeen' = IF GenerationGuard THEN [highestSeen EXCEPT ![p] = seq] ELSE highestSeen

\* applyTraceUpdate opens a transaction, or opens and closes it when the notice comes back
\* before the request returns.
LEMMA UpdateEffect ==
  ASSUME TypeOK, TimerInv, NEW p \in Prefix, NEW port \in Port, NEW seq \in Generation,
         NEW ttl \in Nat, Update(p, port, seq, ttl)
  PROVE  \E m \in Message, ack \in BOOLEAN :
            /\ IsUpdate(m, p, port, seq, ttl) /\ m.prefix = p /\ m.seq = seq
            /\ SubmitFlowUpdate(m, ack) /\ UNCHANGED flowFib
            /\ (ack /\ Closes(p)) \/ Opens(m)
<1>0. now \in Nat /\ nextUid \in Nat
  BY DEF TypeOK
<1>1. PICK ack \in BOOLEAN : ApplyTraceUpdate(p, port, seq, ttl, ack)
  BY DEF Update
<1> DEFINE m == [prefix |-> p, seq |-> seq, port |-> port, expiry |-> RouteExpiry(ttl)]
           done == ack /\ Completes(NewTransaction(m), m)
<1>2. m \in Message /\ (m.expiry = NoLease \/ m.expiry > now) /\ m.prefix = p /\ m.seq = seq
  <2>1. ttl \in Nat /\ EntryLifetime \in Nat
    BY LocalAssumption
  <2>2. RouteExpiry(ttl) \in Nat /\ (RouteExpiry(ttl) = NoLease \/ RouteExpiry(ttl) > now)
    <3>1. Lifetime(ttl) \in Nat
      BY <2>1 DEF Lifetime
    <3> QED
      BY <1>0, <3>1 DEF RouteExpiry
  <2> QED
    BY <2>2 DEF Message
<1>3. /\ local' = [local EXCEPT ![p] = IF done THEN Idle ELSE NewTransaction(m)]
      /\ temporaryFib' = [temporaryFib EXCEPT ![p] = IF done THEN {} ELSE ReplaceHop(m)]
      /\ timers' = CancelTimers(local[p]) \cup (IF done THEN {} ELSE NewTimers(m))
      /\ SubmitFlowUpdate(m, ack) /\ ValidTtl(ttl) /\ IsNewer(p, seq)
      /\ highestSeen' = IF GenerationGuard THEN [highestSeen EXCEPT ![p] = seq]
                                           ELSE highestSeen
  BY <1>1 DEF ApplyTraceUpdate
<1>4. UNCHANGED now /\ TakeUids /\ UNCHANGED flowFib /\ nextUid' >= nextUid
  BY <1>0 DEF Update, TakeUids
<1>5. IsUpdate(m, p, port, seq, ttl)
  BY <1>2, <1>3 DEF IsUpdate
<1> HIDE DEF m, done
<1>6. CASE done
  <2>1. Closes(p)
    BY <1>3, <1>4, <1>6, CancelsOwnTimers DEF Closes
  <2> QED
    BY <1>2, <1>3, <1>4, <1>5, <1>6, <2>1 DEF done
<1>7. CASE ~done
  <2>1. Opens(m)
    BY <1>2, <1>3, <1>4, <1>7 DEF Opens
  <2> QED
    BY <1>2, <1>3, <1>4, <1>5, <2>1
<1> QED
  BY <1>6, <1>7

\* A call of the flow-table controller admits no generation and takes no time.
LEMMA LegEffect ==
  ASSUME TypeOK, TimerInv, NEW e \in inFlight, RunLeg(e)
  PROVE  e.msg \in Message /\ UNCHANGED <<now, highestSeen>> /\ nextUid' >= nextUid
<1>1. e.msg \in Message
  BY DEF TypeOK, ControllerTypeOK, LegCall
<1>2. nextUid \in Nat
  BY DEF TypeOK
<1> QED
  BY <1>1, <1>2 DEF RunLeg, RunAcceptControl, RunAttemptFlowMod, RunDeliverSyncAck, TakeUids

\* The lifetime timer closes its transaction, whose deadline it carries.
LEMMA ExpiryEffect ==
  ASSUME TypeOK, TimerInv, NEW t \in timers, RunExpiry(t)
  PROVE  /\ t.prefix \in Prefix /\ Closes(t.prefix) /\ Pending(t.prefix)
         /\ t.at = local[t.prefix].expiry /\ local[t.prefix].expiry # NoLease
         /\ UNCHANGED <<controllerVars, highestSeen, flowFib>>
<1>0. nextUid \in Nat /\ timers \subseteq Timer
  BY DEF TypeOK, LocalTypeOK
<1>1. t.call = "expireEntryBySeq" /\ t.seq # -1
  BY TimerFields DEF RunExpiry
<1>2. /\ local[t.prefix].seq = t.seq /\ t.prefix \in Prefix
      /\ t.at = local[t.prefix].expiry /\ local[t.prefix].expiry # NoLease
  BY <1>0, <1>1 DEF TimerInv, Owned, Timer
<1> DEFINE r == local[t.prefix]
           request == IF r.request.msg.seq = t.seq THEN NoRequest ELSE r.request
<1>3. Pending(t.prefix)
  BY <1>1, <1>2 DEF Pending
<1>4. request = NoRequest
  <2>1. CASE RetryTimeout > 0
    BY <1>2, <1>3, <2>1 DEF TimerInv
  <2>2. CASE RetryTimeout = 0
    BY <1>2, <2>2 DEF TimerInv
  <2> QED
    BY <2>1, <2>2, LocalAssumption
<1>5. /\ Erase(t.prefix) /\ UNCHANGED <<now, nextUid>>
      /\ local' = [local EXCEPT ![t.prefix] = Idle]
      /\ timers' = Cancel({r.request.timer}) \ {t}
  BY <1>2, <1>4 DEF RunExpiry, ExpireEntryBySeq, Idle
<1>6. Cancel({r.request.timer}) \ {t} = {s \in timers : s.prefix # t.prefix}
  <2>1. ASSUME NEW s \in timers, s.prefix = t.prefix, s # t PROVE s.uid = r.request.timer
    <3>1. CASE s.call = "expireEntryBySeq"
      BY <1>1, <2>1, <3>1 DEF TimerInv, Owned
    <3>2. CASE s.call = "onControllerRetryTimeout"
      BY <2>1, <3>2 DEF TimerInv, Owned
    <3> QED
      BY <1>0, <3>1, <3>2 DEF Timer
  <2>2. ASSUME NEW s \in timers, s.prefix # t.prefix PROVE s.uid # r.request.timer /\ s # t
    BY <1>2, <2>2 DEF TimerInv
  <2> QED
    BY <2>1, <2>2 DEF Cancel
<1>7. nextUid' >= nextUid
  BY <1>0, <1>5
<1>8. Closes(t.prefix)
  BY <1>5, <1>6, <1>7 DEF Erase, Closes
<1> QED
  BY <1>2, <1>3, <1>8 DEF RunExpiry

\* The retry timer sends the request of its transaction again, and closes the transaction
\* when the notice comes back before the request returns.
LEMMA RetryEffect ==
  ASSUME TypeOK, TimerInv, NEW t \in timers, RunRetry(t)
  PROVE  /\ t.prefix \in Prefix /\ Pending(t.prefix) /\ RetryTimeout > 0
         /\ local[t.prefix].request.msg \in Message
         /\ UNCHANGED <<now, highestSeen, flowFib>>
         /\ \E ack \in BOOLEAN :
               /\ SubmitFlowUpdate(local[t.prefix].request.msg, ack)
               /\ \/ Retries(t)
                  \/ /\ ack /\ Completes(local[t.prefix], local[t.prefix].request.msg)
                     /\ Closes(t.prefix)
<1>0. nextUid \in Nat /\ timers \subseteq Timer /\ local \in [Prefix -> Transaction]
  BY DEF TypeOK, LocalTypeOK
<1>1. PICK ack \in BOOLEAN : RetryRequest(t, ack)
  BY DEF RunRetry
<1>2. /\ UNCHANGED <<now, highestSeen, flowFib>> /\ TakeUids /\ t.call = "onControllerRetryTimeout"
      /\ t.prefix \in Prefix /\ nextUid' >= nextUid
  BY <1>0 DEF RunRetry, Timer, TakeUids
<1> DEFINE r == local[t.prefix]
<1>3. t.seq # -1
  BY TimerFields
<1>4. r.seq = t.seq /\ r.request.msg.seq = t.seq /\ SubmitFlowUpdate(r.request.msg, ack)
  BY <1>1 DEF RetryRequest
<1>5. Pending(t.prefix) /\ RetryTimeout > 0
  BY <1>2, <1>3, <1>4 DEF Pending, TimerInv, Owned
<1>6. r.request.msg \in Message
  <2>1. r.request # NoRequest
    BY <1>3, <1>4 DEF NoRequest, NoMessage
  <2> QED
    BY <1>0, <1>2, <2>1 DEF Transaction, Request
<1>7. CASE ack /\ Completes(r, r.request.msg)
  <2>1. Withdraw(t.prefix, CancelTimers(r) \ {t})
    BY <1>1, <1>7 DEF RetryRequest
  <2>2. Closes(t.prefix)
    BY <1>2, <2>1, CancelsOwnTimers DEF Withdraw, Erase, Closes
  <2> QED
    BY <1>2, <1>4, <1>5, <1>6, <1>7, <2>2
<1>8. CASE ~(ack /\ Completes(r, r.request.msg))
  <2>1. Retries(t)
    BY <1>1, <1>2, <1>8 DEF RetryRequest, Retries
  <2> QED
    BY <1>2, <1>4, <1>5, <1>6, <2>1
<1> QED
  BY <1>7, <1>8

\* The last retry timer closes its transaction, whose budget is used up.
LEMMA GiveUpEffect ==
  ASSUME TypeOK, TimerInv, NEW t \in timers, RunGiveUp(t)
  PROVE  /\ t.prefix \in Prefix /\ Closes(t.prefix) /\ Pending(t.prefix) /\ RetryTimeout > 0
         /\ local[t.prefix].request.retriesLeft = 0 /\ t.uid = local[t.prefix].request.timer
         /\ UNCHANGED <<controllerVars, highestSeen, flowFib>>
<1>0. nextUid \in Nat /\ timers \subseteq Timer
  BY DEF TypeOK, LocalTypeOK
<1>1. t.call = "onControllerRetryTimeout" /\ t.prefix \in Prefix /\ UNCHANGED <<now, nextUid>>
  BY <1>0 DEF RunGiveUp, Timer
<1>2. local[t.prefix].seq = t.seq /\ RetryTimeout > 0 /\ t.uid = local[t.prefix].request.timer
  BY <1>1 DEF TimerInv, Owned
<1>3. Pending(t.prefix) /\ local[t.prefix].request.msg.seq = t.seq
  <2>1. t.seq # -1
    BY TimerFields
  <2> QED
    BY <1>1, <1>2, <2>1 DEF TimerInv, Pending
<1>4. /\ Withdraw(t.prefix, Cancel({local[t.prefix].lifetimeTimer}) \ {t})
      /\ local[t.prefix].request.retriesLeft = 0
  BY <1>2, <1>3 DEF RunGiveUp, GiveUp
<1>5. Closes(t.prefix)
  <2>1. ASSUME NEW s \in timers, s.prefix = t.prefix, s # t
        PROVE  s.uid = local[t.prefix].lifetimeTimer
    <3>1. CASE s.call = "expireEntryBySeq"
      BY <2>1, <3>1 DEF TimerInv, Owned
    <3>2. CASE s.call = "onControllerRetryTimeout"
      BY <1>1, <2>1, <3>2 DEF TimerInv, Owned
    <3> QED
      BY <1>0, <3>1, <3>2 DEF Timer
  <2>2. ASSUME NEW s \in timers, s.prefix # t.prefix
        PROVE  s.uid # local[t.prefix].lifetimeTimer /\ s # t
    BY <1>1, <2>2 DEF TimerInv
  <2>3. Cancel({local[t.prefix].lifetimeTimer}) \ {t} = {s \in timers : s.prefix # t.prefix}
    BY <2>1, <2>2 DEF Cancel
  <2>4. nextUid' >= nextUid
    BY <1>0, <1>1
  <2> QED
    BY <1>1, <1>4, <2>3, <2>4 DEF Withdraw, Erase, Closes
<1> QED
  BY <1>1, <1>2, <1>3, <1>4, <1>5 DEF RunGiveUp

\* Every step opens, closes, retries or keeps the transactions, removes expired hops or
\* moves the clock.
LEMMA LocalEffect ==
  ASSUME TypeOK, TimerInv, Step
  PROVE  \/ \E m \in Message : Opens(m) /\ (m.expiry = NoLease \/ m.expiry > now)
         \/ \E p \in Prefix : Closes(p)
         \/ \E t \in timers : Retries(t)
         \/ Keeps
         \/ \E n : Prunes(n)
         \/ Tick
<1>1. ASSUME NEW p \in Prefix, NEW port \in Port, NEW seq \in Generation, NEW ttl \in Nat,
             Update(p, port, seq, ttl)
      PROVE  \/ \E m \in Message : Opens(m) /\ (m.expiry = NoLease \/ m.expiry > now)
             \/ \E q \in Prefix : Closes(q)
  BY <1>1, UpdateEffect DEF IsUpdate
<1>2. ASSUME NEW n, Lookup(n) PROVE Prunes(n)
  BY <1>2 DEF Lookup, Prunes, localVars
<1>3. ASSUME NEW e \in inFlight, RunLeg(e)
      PROVE  Keeps \/ \E p \in Prefix : Closes(p)
  <2>1. PICK ack \in BOOLEAN : HandleControlResponse(e.msg, ack)
    BY <1>3 DEF RunLeg, RunAcceptControl, RunAttemptFlowMod, RunDeliverSyncAck
  <2> QED
    BY <1>3, <2>1, LegEffect, ResponseEffect, MessageFields
<1>4. ASSUME Elsewhere PROVE Keeps
  <2>1. nextUid \in Nat
    BY DEF TypeOK
  <2> QED
    BY <1>4, <2>1 DEF Elsewhere, Keeps, TakeUids, localVars
<1> QED
  BY <1>1, <1>2, <1>3, <1>4, ExpiryEffect, RetryEffect, GiveUpEffect DEF Step, RunTimer

--------------------------------------------------------------------------------
(* The timers *)

\* A new transaction has new timers, and those of the one it replaces are cancelled.
LEMMA OpensTimerInv ==
  ASSUME TypeOK, TimerInv, NEW m \in Message, Opens(m), m.expiry = NoLease \/ m.expiry > now
  PROVE  TimerInv'
<1> DEFINE p == m.prefix
           L == [uid |-> LifetimeUid, at |-> m.expiry, prefix |-> m.prefix, seq |-> m.seq,
                 call |-> "expireEntryBySeq"]
           R == RetryTimer(RetryUid, m.prefix, m.seq)
<1>0. /\ p \in Prefix /\ m.seq \in Nat /\ m.expiry \in Nat /\ now \in Nat /\ nextUid \in Nat
      /\ local \in [Prefix -> Transaction] /\ timers \subseteq Timer
  BY MessageFields DEF TypeOK, LocalTypeOK
<1>1. now' = now /\ nextUid' = nextUid + 4
  BY DEF Opens, TakeUids
<1>2. local' = [local EXCEPT ![p] = NewTransaction(m)]
  BY DEF Opens
<1>3. timers' = {t \in timers : t.prefix # p} \cup NewTimers(m)
  BY <1>0, CancelsOwnTimers DEF Opens
<1>4. /\ local'[p].seq = m.seq /\ local'[p].expiry = m.expiry
      /\ local'[p].lifetimeTimer = IF m.expiry # NoLease THEN nextUid ELSE NoTimer
      /\ local'[p].request = NewRequest(m)
  BY <1>0, <1>2 DEF NewTransaction, LifetimeUid
<1>5. /\ RetryTimeout > 0 => /\ local'[p].request.timer = nextUid + 1
                             /\ local'[p].request.msg.seq = m.seq
      /\ ~(RetryTimeout > 0) => local'[p].request = local[p].request
  BY <1>4 DEF NewRequest, RetryUid
<1>6. /\ m.expiry # NoLease => L \in NewTimers(m)
      /\ RetryTimeout > 0 => R \in NewTimers(m)
      /\ \A t \in NewTimers(m) : (m.expiry # NoLease /\ t = L) \/ (RetryTimeout > 0 /\ t = R)
  BY DEF NewTimers
<1>7. /\ L.uid = nextUid /\ L.at = m.expiry /\ L.prefix = p /\ L.seq = m.seq
      /\ L.call = "expireEntryBySeq"
      /\ R.uid = nextUid + 1 /\ R.at = now + RetryTimeout /\ R.prefix = p /\ R.seq = m.seq
      /\ R.call = "onControllerRetryTimeout"
  BY DEF RetryTimer, LifetimeUid, RetryUid
<1> HIDE DEF L, R
<1>8. \A q \in Prefix : q # p => local'[q] = local[q]
  BY <1>0, <1>2
<1>9. RetryTimeout \in Nat
  BY LocalAssumption
<1>10. \A t \in timers' : Owned(t)' /\ t.at >= now' /\ t.uid < nextUid'
  <2>1. ASSUME NEW t \in timers, t.prefix # p
        PROVE  Owned(t)' /\ t.at >= now' /\ t.uid < nextUid'
    BY <1>0, <1>1, <1>8, <2>1 DEF TimerInv, Owned, Timer
  <2>2. ASSUME NEW t \in NewTimers(m)
        PROVE  Owned(t)' /\ t.at >= now' /\ t.uid < nextUid'
    BY <1>0, <1>1, <1>4, <1>5, <1>6, <1>7, <1>9 DEF Owned
  <2> QED
    BY <1>3, <2>1, <2>2
<1>11. ASSUME NEW q \in Prefix
       PROVE  /\ local'[q].lifetimeTimer < nextUid' /\ local'[q].request.timer < nextUid'
              /\ ~Pending(q)' => local'[q] = Idle
              /\ RetryTimeout = 0 => local'[q].request = NoRequest
              /\ Pending(q)' /\ local'[q].expiry # NoLease =>
                    Armed(q, local[q].lifetimeTimer, "expireEntryBySeq")'
              /\ Pending(q)' /\ RetryTimeout > 0 =>
                    /\ Armed(q, local[q].request.timer, "onControllerRetryTimeout")'
                    /\ local'[q].request.msg.seq = local'[q].seq
  <2>0. local[q] \in Transaction /\ local[q].lifetimeTimer \in Int
          /\ local[q].request.timer \in Int
    BY <1>0 DEF Transaction, Request, NoRequest
  <2>1. CASE q = p
    <3>1. local'[p].lifetimeTimer < nextUid' /\ local'[p].request.timer < nextUid'
      BY <1>0, <1>1, <1>4, <1>5, <2>0, <2>1 DEF TimerInv
    <3>2. Pending(p)'
      BY <1>0, <1>4 DEF Pending
    <3>3. local'[p].expiry # NoLease => Armed(p, local[p].lifetimeTimer, "expireEntryBySeq")'
      BY <1>3, <1>4, <1>6, <1>7 DEF Armed
    <3>4. RetryTimeout > 0 => Armed(p, local[p].request.timer, "onControllerRetryTimeout")'
      BY <1>3, <1>5, <1>6, <1>7 DEF Armed
    <3>5. RetryTimeout = 0 => local'[p].request = NoRequest
      BY <1>0, <1>5 DEF TimerInv
    <3> QED
      BY <1>4, <1>5, <2>1, <3>1, <3>2, <3>3, <3>4, <3>5
  <2>2. CASE q # p
    <3>1. local'[q] = local[q]
      BY <1>8, <2>2
    <3>2. /\ Armed(q, local[q].lifetimeTimer, "expireEntryBySeq") =>
               Armed(q, local[q].lifetimeTimer, "expireEntryBySeq")'
          /\ Armed(q, local[q].request.timer, "onControllerRetryTimeout") =>
               Armed(q, local[q].request.timer, "onControllerRetryTimeout")'
      BY <1>3, <2>2, <3>1 DEF Armed
    <3>3. Pending(q)' <=> Pending(q)
      BY <3>1 DEF Pending
    <3>4. local'[q].lifetimeTimer < nextUid' /\ local'[q].request.timer < nextUid'
      BY <1>0, <1>1, <2>0, <3>1 DEF TimerInv
    <3> QED
      BY <3>1, <3>2, <3>3, <3>4 DEF TimerInv
  <2> QED
    BY <2>1, <2>2
<1>12. ASSUME NEW t \in timers', NEW q \in Prefix,
              t.uid = local'[q].lifetimeTimer \/ t.uid = local'[q].request.timer
       PROVE  t.prefix = q
  <2>0. /\ local[q] \in Transaction /\ local[q].lifetimeTimer \in Int
        /\ local[q].request.timer \in Int
        /\ local[q].lifetimeTimer < nextUid /\ local[q].request.timer < nextUid
    BY <1>0 DEF Transaction, Request, NoRequest, TimerInv
  <2>1. CASE t \in timers /\ t.prefix # p
    <3>1. t.uid \in Nat /\ t.uid < nextUid
      BY <1>0, <2>1 DEF TimerInv, Timer
    <3>2. CASE q = p
      <4>1. t.uid = local[p].request.timer
        BY <1>0, <1>4, <1>5, <1>12, <3>1, <3>2
      <4> QED
        BY <1>0, <2>1, <4>1 DEF TimerInv
    <3>3. CASE q # p
      BY <1>8, <1>12, <2>1, <3>3 DEF TimerInv
    <3> QED
      BY <3>2, <3>3
  <2>2. CASE t \in NewTimers(m)
    <3>1. t.prefix = p /\ t.uid >= nextUid
      BY <1>0, <1>6, <1>7, <2>2
    <3>2. CASE q # p
      BY <1>0, <1>8, <1>12, <2>0, <3>1, <3>2, <1>6, <1>7, <2>2
    <3> QED
      BY <3>1, <3>2
  <2> QED
    BY <1>3, <2>1, <2>2
<1>13. ASSUME NEW s \in timers', NEW t \in timers', s.uid = t.uid PROVE s = t
  <2>1. \A u \in timers : u.uid \in Nat /\ u.uid < nextUid
    BY <1>0 DEF TimerInv, Timer
  <2>2. CASE s \in NewTimers(m) /\ t \in NewTimers(m)
    BY <1>0, <1>6, <1>7, <1>13, <2>2
  <2>3. CASE s \in timers /\ t \in timers
    BY <1>13, <2>3 DEF TimerInv
  <2>4. \A u \in NewTimers(m) : u.uid \in Nat /\ u.uid >= nextUid
    BY <1>0, <1>6, <1>7
  <2> QED
    BY <1>0, <1>3, <1>13, <2>1, <2>2, <2>3, <2>4
<1> QED
  BY <1>10, <1>11, <1>12, <1>13 DEF TimerInv

\* A transaction that closes takes its timers with it.
LEMMA ClosesTimerInv ==
  ASSUME TypeOK, TimerInv, NEW p \in Prefix, Closes(p), nextUid' \in Nat
  PROVE  TimerInv'
<1>0. /\ now \in Nat /\ nextUid \in Nat /\ nextUid' >= nextUid /\ now' = now
      /\ local \in [Prefix -> Transaction] /\ timers \subseteq Timer
  BY DEF TypeOK, LocalTypeOK, Closes
<1>1. local' = [local EXCEPT ![p] = Idle]
  BY DEF Closes
<1>2. timers' = {t \in timers : t.prefix # p}
  BY DEF Closes
<1>3. \A q \in Prefix : q # p => local'[q] = local[q]
  BY <1>0, <1>1
<1>4. local'[p] = Idle
  BY <1>0, <1>1
<1>5. \A t \in timers' : Owned(t)' /\ t.at >= now' /\ t.uid < nextUid'
  <2>1. ASSUME NEW t \in timers, t.prefix # p PROVE Owned(t)' /\ t.at >= now' /\ t.uid < nextUid'
    BY <1>0, <1>3, <2>1 DEF TimerInv, Owned, Timer
  <2> QED
    BY <1>2, <2>1
<1>6. ASSUME NEW q \in Prefix
      PROVE  /\ local'[q].lifetimeTimer < nextUid' /\ local'[q].request.timer < nextUid'
             /\ ~Pending(q)' => local'[q] = Idle
             /\ RetryTimeout = 0 => local'[q].request = NoRequest
             /\ Pending(q)' /\ local'[q].expiry # NoLease =>
                   Armed(q, local[q].lifetimeTimer, "expireEntryBySeq")'
             /\ Pending(q)' /\ RetryTimeout > 0 =>
                   /\ Armed(q, local[q].request.timer, "onControllerRetryTimeout")'
                   /\ local'[q].request.msg.seq = local'[q].seq
  <2>1. CASE q = p
    BY <1>0, <1>4, <2>1 DEF Idle, NoRequest, Pending
  <2>2. CASE q # p
    <3>0. local[q].lifetimeTimer \in Int /\ local[q].request.timer \in Int
      BY <1>0 DEF Transaction, Request, NoRequest
    <3>1. local'[q] = local[q]
      BY <1>3, <2>2
    <3>2. /\ Armed(q, local[q].lifetimeTimer, "expireEntryBySeq") =>
               Armed(q, local[q].lifetimeTimer, "expireEntryBySeq")'
          /\ Armed(q, local[q].request.timer, "onControllerRetryTimeout") =>
               Armed(q, local[q].request.timer, "onControllerRetryTimeout")'
      BY <1>2, <2>2, <3>1 DEF Armed
    <3>3. Pending(q)' <=> Pending(q)
      BY <3>1 DEF Pending
    <3>4. local'[q].lifetimeTimer < nextUid' /\ local'[q].request.timer < nextUid'
      BY <1>0, <3>0, <3>1 DEF TimerInv
    <3> QED
      BY <3>1, <3>2, <3>3, <3>4 DEF TimerInv
  <2> QED
    BY <2>1, <2>2
<1>7. ASSUME NEW t \in timers', NEW q \in Prefix,
             t.uid = local'[q].lifetimeTimer \/ t.uid = local'[q].request.timer
      PROVE  t.prefix = q
  <2>1. t \in timers /\ t.prefix # p /\ t.uid \in Nat
    BY <1>0, <1>2 DEF Timer
  <2>2. CASE q = p
    <3>1. t.uid = -1
      BY <1>4, <1>7, <2>2 DEF Idle, NoRequest
    <3> QED
      BY <2>1, <3>1
  <2>3. CASE q # p
    BY <1>3, <1>7, <2>1, <2>3 DEF TimerInv
  <2> QED
    BY <2>2, <2>3
<1>8. \A s, t \in timers' : s.uid = t.uid => s = t
  BY <1>2 DEF TimerInv
<1> QED
  BY <1>5, <1>6, <1>7, <1>8 DEF TimerInv

\* A retry replaces the retry timer and leaves the lifetime timer.
LEMMA RetriesTimerInv ==
  ASSUME TypeOK, TimerInv, NEW t \in timers, Retries(t)
  PROVE  TimerInv'
<1> DEFINE p == t.prefix
           R == RetryTimer(RearmedUid, p, t.seq)
<1>0. /\ p \in Prefix /\ now \in Nat /\ nextUid \in Nat /\ nextUid' = nextUid + 4 /\ now' = now
      /\ local \in [Prefix -> Transaction] /\ timers \subseteq Timer /\ RetryTimeout \in Nat
      /\ t.call = "onControllerRetryTimeout"
  BY LocalAssumption DEF TypeOK, LocalTypeOK, Retries, TakeUids, Timer
<1>1. local' = [local EXCEPT ![p] = Rearm(local[p])]
  BY DEF Retries
<1>2. timers' = (timers \ {t}) \cup {R}
  BY DEF Retries
<1>3. \A q \in Prefix : q # p => local'[q] = local[q]
  BY <1>0, <1>1
<1>4. /\ local'[p].seq = local[p].seq /\ local'[p].expiry = local[p].expiry
      /\ local'[p].lifetimeTimer = local[p].lifetimeTimer
      /\ local'[p].request.timer = nextUid + 3
      /\ local'[p].request.msg = local[p].request.msg
  <2>1. local'[p] = Rearm(local[p]) /\ local[p] \in Transaction
    BY <1>0, <1>1
  <2> QED
    BY <2>1 DEF Rearm, RearmedUid, Transaction
<1>5. /\ R.uid = nextUid + 3 /\ R.at = now + RetryTimeout /\ R.prefix = p /\ R.seq = t.seq
      /\ R.call = "onControllerRetryTimeout"
  BY DEF RetryTimer, RearmedUid
<1> HIDE DEF R
<1>6. local[p].seq = t.seq /\ RetryTimeout > 0 /\ t.uid = local[p].request.timer
  BY <1>0 DEF TimerInv, Owned
<1>7. \A s \in timers : s.prefix = p /\ s # t => s.call = "expireEntryBySeq"
  <2>1. ASSUME NEW s \in timers, s.prefix = p, s.call = "onControllerRetryTimeout"
        PROVE  s = t
    <3>1. s.uid = t.uid
      BY <1>6, <2>1 DEF TimerInv, Owned
    <3> QED
      BY <3>1 DEF TimerInv
  <2> QED
    BY <1>0, <2>1 DEF Timer
<1>8. \A s \in timers' : Owned(s)' /\ s.at >= now' /\ s.uid < nextUid'
  <2>1. ASSUME NEW s \in timers, s # t PROVE Owned(s)' /\ s.at >= now' /\ s.uid < nextUid'
    <3>1. s.uid \in Nat /\ s.prefix \in Prefix /\ Owned(s) /\ s.at >= now /\ s.uid < nextUid
      BY <1>0 DEF TimerInv, Timer
    <3>2. CASE s.prefix = p
      BY <1>0, <1>4, <1>7, <2>1, <3>1, <3>2 DEF Owned
    <3>3. CASE s.prefix # p
      BY <1>0, <1>3, <3>1, <3>3 DEF Owned
    <3> QED
      BY <3>2, <3>3
  <2>2. ASSUME NEW s, s = R PROVE Owned(s)' /\ s.at >= now' /\ s.uid < nextUid'
    BY <1>0, <1>4, <1>5, <1>6, <2>2 DEF Owned
  <2> QED
    BY <1>2, <2>1, <2>2
<1>9. ASSUME NEW q \in Prefix
      PROVE  /\ local'[q].lifetimeTimer < nextUid' /\ local'[q].request.timer < nextUid'
             /\ ~Pending(q)' => local'[q] = Idle
             /\ RetryTimeout = 0 => local'[q].request = NoRequest
             /\ Pending(q)' /\ local'[q].expiry # NoLease =>
                   Armed(q, local[q].lifetimeTimer, "expireEntryBySeq")'
             /\ Pending(q)' /\ RetryTimeout > 0 =>
                   /\ Armed(q, local[q].request.timer, "onControllerRetryTimeout")'
                   /\ local'[q].request.msg.seq = local'[q].seq
  <2>0. /\ local[q].lifetimeTimer \in Int /\ local[q].request.timer \in Int
        /\ local[q].lifetimeTimer < nextUid /\ local[q].request.timer < nextUid
    BY <1>0 DEF Transaction, Request, NoRequest, TimerInv
  <2>1. local'[q].lifetimeTimer = local[q].lifetimeTimer
    BY <1>3, <1>4
  <2>2. Armed(q, local[q].lifetimeTimer, "expireEntryBySeq") =>
           Armed(q, local[q].lifetimeTimer, "expireEntryBySeq")'
    BY <1>0, <1>2, <2>1 DEF Armed
  <2>3. CASE q = p
    <3>1. Pending(p) /\ Pending(p)'
      <4>1. t.seq \in Nat
        BY <1>0, GenerationAssumption DEF Timer
      <4> QED
        BY <1>4, <1>6, <4>1 DEF Pending
    <3>2. Armed(p, local[p].request.timer, "onControllerRetryTimeout")'
      BY <1>2, <1>4, <1>5 DEF Armed
    <3>3. local'[p].lifetimeTimer < nextUid' /\ local'[p].request.timer < nextUid'
      BY <1>0, <1>4, <2>0, <2>3
    <3> QED
      BY <1>0, <1>4, <1>6, <2>2, <2>3, <3>1, <3>2, <3>3 DEF TimerInv
  <2>4. CASE q # p
    <3>1. local'[q] = local[q]
      BY <1>3, <2>4
    <3>2. Armed(q, local[q].request.timer, "onControllerRetryTimeout") =>
             Armed(q, local[q].request.timer, "onControllerRetryTimeout")'
      BY <1>2, <2>4, <3>1 DEF Armed
    <3>3. Pending(q)' <=> Pending(q)
      BY <3>1 DEF Pending
    <3>4. local'[q].lifetimeTimer < nextUid' /\ local'[q].request.timer < nextUid'
      BY <1>0, <2>0, <3>1
    <3> QED
      BY <2>2, <3>1, <3>2, <3>3, <3>4 DEF TimerInv
  <2> QED
    BY <2>3, <2>4
<1>10. ASSUME NEW s \in timers', NEW q \in Prefix,
              s.uid = local'[q].lifetimeTimer \/ s.uid = local'[q].request.timer
       PROVE  s.prefix = q
  <2>0. /\ local[q].lifetimeTimer \in Int /\ local[q].request.timer \in Int
        /\ local[q].lifetimeTimer < nextUid /\ local[q].request.timer < nextUid
    BY <1>0 DEF Transaction, Request, NoRequest, TimerInv
  <2>1. CASE s = R
    BY <1>0, <1>3, <1>4, <1>5, <1>10, <2>0, <2>1
  <2>2. CASE s \in timers
    <3>1. s.uid \in Nat /\ s.uid < nextUid
      BY <1>0, <2>2 DEF TimerInv, Timer
    <3>2. s.uid = local[q].lifetimeTimer \/ s.uid = local[q].request.timer
      BY <1>0, <1>3, <1>4, <1>10, <3>1
    <3> QED
      BY <2>2, <3>2 DEF TimerInv
  <2> QED
    BY <1>2, <2>1, <2>2
<1>11. ASSUME NEW s \in timers', NEW u \in timers', s.uid = u.uid PROVE s = u
  <2>1. \A x \in timers : x.uid \in Nat /\ x.uid < nextUid
    BY <1>0 DEF TimerInv, Timer
  <2> QED
    BY <1>0, <1>2, <1>5, <1>11, <2>1 DEF TimerInv
<1> QED
  BY <1>8, <1>9, <1>10, <1>11 DEF TimerInv

\* A step that touches neither the transactions nor the timers.
LEMMA IdleTimerInv ==
  ASSUME TypeOK, TimerInv, UNCHANGED <<local, timers>>, nextUid' \in Nat, nextUid' >= nextUid,
         now' = now \/ Tick
  PROVE  TimerInv'
<1>0. /\ now \in Nat /\ nextUid \in Nat
      /\ local \in [Prefix -> Transaction] /\ timers \subseteq Timer
  BY DEF TypeOK, LocalTypeOK
<1>1. \A t \in timers : t.at >= now'
  <2>1. CASE now' = now
    BY <2>1 DEF TimerInv
  <2>2. CASE Tick
    BY <1>0, <2>2 DEF Tick, Advance, Queue, TimerInv, Timer
  <2> QED
    BY <2>1, <2>2
<1>2. \A t \in timers : Owned(t)' /\ t.uid < nextUid'
  BY <1>0 DEF TimerInv, Owned, Timer
<1>3. \A p \in Prefix : local'[p].lifetimeTimer < nextUid' /\ local'[p].request.timer < nextUid'
  BY <1>0 DEF TimerInv, Transaction, Request, NoRequest
<1> QED
  BY <1>1, <1>2, <1>3 DEF TimerInv, Armed, Pending

\* At first there are no timers.
LEMMA TimerInit == Init => TimerInv
BY DEF Init, SimulatorInit, LocalInit, TimerInv, Idle, NoRequest, Pending

\* Every step keeps the timers with their transactions.
LEMMA TimerStep ==
  ASSUME TypeOK, TypeOK', TimerInv, Step
  PROVE  TimerInv'
<1>0. nextUid \in Nat /\ nextUid' \in Nat
  BY DEF TypeOK
<1>1. ASSUME Tick PROVE TimerInv'
  BY <1>0, <1>1, IdleTimerInv DEF Tick, Advance, localVars
<1>2. ASSUME NEW n, Prunes(n) PROVE TimerInv'
  BY <1>0, <1>2, IdleTimerInv DEF Prunes
<1>3. ASSUME Keeps PROVE TimerInv'
  BY <1>0, <1>3, IdleTimerInv DEF Keeps
<1> QED
  BY <1>0, <1>1, <1>2, <1>3, LocalEffect, OpensTimerInv, ClosesTimerInv, RetriesTimerInv

\* A pending transaction and its timers stay together, whatever is lost, delayed or
\* replayed: a superseded, completed or withdrawn transaction leaves no timer behind, and
\* a pending one is never without the timer that will end it.
THEOREM TimersBelongToTransactions == Spec => []NoStaleTimer
<1>1. TypeOK /\ TimerInv => NoStaleTimer
  <2> SUFFICES ASSUME TypeOK, TimerInv PROVE NoStaleTimer
    OBVIOUS
  <2>1. \A t \in timers : t.call = "expireEntryBySeq" \/ t.call = "onControllerRetryTimeout"
    BY DEF TypeOK, LocalTypeOK, Timer
  <2> QED
    BY <2>1 DEF TimerInv, Owned, Armed, NoStaleTimer
<1> QED
  BY <1>1, TypeCorrect, TimerInit, TimerStep, NextIsStep, PTL DEF Spec

\* No transaction is pending after the deadline of its lease: the lifetime timer runs at
\* the deadline, before the clock can move on.
THEOREM LeaseEndsTransaction == Spec => []NoTransactionOutlivesLease
<1>1. TypeOK /\ TimerInv => NoTransactionOutlivesLease
  <2> SUFFICES ASSUME TypeOK, TimerInv, NEW p \in Prefix, Pending(p), local[p].expiry # NoLease
               PROVE  now <= local[p].expiry
    BY DEF NoTransactionOutlivesLease
  <2>1. PICK t \in timers : t.prefix = p /\ t.call = "expireEntryBySeq"
    BY DEF TimerInv, Armed
  <2>2. now \in Nat /\ t.at \in Nat
    BY DEF TypeOK, LocalTypeOK, Timer
  <2> QED
    BY <2>1, <2>2 DEF TimerInv, Owned
<1> QED
  BY <1>1, TypeCorrect, TimerInit, TimerStep, NextIsStep, PTL DEF Spec

--------------------------------------------------------------------------------
(* The temporary routes *)

\* The part of TemporaryRouteIsPending that is about one prefix.
RouteOf(p) ==
    /\ \A h \in temporaryFib[p] :
          /\ Pending(p) /\ h.deadline = local[p].expiry
          /\ temporaryFib[p] = {h}
          /\ RetryTimeout > 0 => local[p].request.msg =
                [prefix |-> p, seq |-> local[p].seq, port |-> h.port, expiry |-> h.deadline]
    /\ Pending(p) /\ ~LeaseOver(local[p]) => temporaryFib[p] # {}

\* A prefix that a step leaves alone.
LEMMA SameRoute ==
  ASSUME TypeOK, NEW p \in Prefix, RouteOf(p), local'[p] = local[p],
         temporaryFib'[p] = temporaryFib[p], now' = now \/ now' = now + 1
  PROVE  RouteOf(p)'
<1>1. now \in Nat /\ local[p].expiry \in Nat
  BY DEF TypeOK, LocalTypeOK, Transaction
<1>2. LeaseOver(local[p]) => LeaseOver(local[p])'
  BY <1>1 DEF LeaseOver
<1>3. Pending(p)' <=> Pending(p)
  BY DEF Pending
<1> QED
  BY <1>2, <1>3 DEF RouteOf

\* A new transaction puts its route in the temporary FIB and nothing beside it.
LEMMA OpensRoute ==
  ASSUME TypeOK, \A p \in Prefix : RouteOf(p), NEW m \in Message, Opens(m)
  PROVE  \A p \in Prefix : RouteOf(p)'
<1>0. /\ local \in [Prefix -> Transaction] /\ temporaryFib \in [Prefix -> SUBSET Hop]
      /\ m.prefix \in Prefix /\ m.seq \in Nat /\ m.seq # -1 /\ now' = now
  BY MessageFields DEF TypeOK, LocalTypeOK, TableTypeOK, Opens
<1> DEFINE p == m.prefix
           h == [port |-> m.port, deadline |-> m.expiry]
<1>1. ReplaceHop(m) = {h}
  <2>1. local[p].seq # NoSeq \/ temporaryFib[p] = {}
    BY <1>0 DEF RouteOf, Pending
  <2>2. (IF local[p].seq # NoSeq THEN {} ELSE temporaryFib[p]) = {}
    BY <2>1
  <2> QED
    BY <2>2 DEF ReplaceHop, InsertHop, Live
<1>2. temporaryFib'[p] = {h}
  BY <1>0, <1>1 DEF Opens
<1>3. local'[p] = NewTransaction(m)
  BY <1>0 DEF Opens
<1>4. local'[p].seq = m.seq /\ local'[p].expiry = m.expiry
  BY <1>3 DEF NewTransaction
<1>5. RetryTimeout > 0 => local'[p].request.msg = m
  BY <1>3 DEF NewTransaction, NewRequest
<1>6. m = [prefix |-> p, seq |-> m.seq, port |-> m.port, expiry |-> m.expiry]
  BY DEF Message
<1>7. RouteOf(p)'
  BY <1>0, <1>2, <1>4, <1>5, <1>6 DEF RouteOf, Pending
<1>8. ASSUME NEW q \in Prefix, q # p PROVE RouteOf(q)'
  <2>1. local'[q] = local[q] /\ temporaryFib'[q] = temporaryFib[q]
    BY <1>0, <1>8 DEF Opens
  <2> QED
    BY <1>0, <2>1, SameRoute
<1> QED
  BY <1>7, <1>8

\* Every step keeps the temporary FIB in step with the transactions.
LEMMA RouteStep ==
  ASSUME TypeOK, TimerInv, \A p \in Prefix : RouteOf(p), Step
  PROVE  \A p \in Prefix : RouteOf(p)'
<1>0. /\ local \in [Prefix -> Transaction] /\ temporaryFib \in [Prefix -> SUBSET Hop]
      /\ timers \subseteq Timer /\ now \in Nat
  BY DEF TypeOK, LocalTypeOK, TableTypeOK
<1>1. ASSUME NEW p \in Prefix, Closes(p) PROVE \A q \in Prefix : RouteOf(q)'
  <2>1. RouteOf(p)'
    <3>1. local'[p] = Idle /\ temporaryFib'[p] = {}
      BY <1>0, <1>1 DEF Closes
    <3> QED
      BY <3>1 DEF RouteOf, Pending, Idle
  <2>2. ASSUME NEW q \in Prefix, q # p PROVE RouteOf(q)'
    <3>1. local'[q] = local[q] /\ temporaryFib'[q] = temporaryFib[q] /\ now' = now
      BY <1>0, <1>1, <2>2 DEF Closes
    <3> QED
      BY <3>1, SameRoute
  <2> QED
    BY <2>1, <2>2
<1>2. ASSUME NEW t \in timers, Retries(t) PROVE \A q \in Prefix : RouteOf(q)'
  <2>0. t.prefix \in Prefix /\ now' = now /\ temporaryFib' = temporaryFib
    BY <1>0, <1>2 DEF Timer, Retries
  <2>1. RouteOf(t.prefix)'
    <3>1. local'[t.prefix] = Rearm(local[t.prefix]) /\ local[t.prefix] \in Transaction
      BY <1>0, <1>2, <2>0 DEF Retries
    <3>2. /\ local'[t.prefix].seq = local[t.prefix].seq
          /\ local'[t.prefix].expiry = local[t.prefix].expiry
          /\ local'[t.prefix].request.msg = local[t.prefix].request.msg
      BY <3>1 DEF Rearm, Transaction
    <3> QED
      BY <2>0, <3>2 DEF RouteOf, Pending, LeaseOver
  <2>2. ASSUME NEW q \in Prefix, q # t.prefix PROVE RouteOf(q)'
    <3>1. local'[q] = local[q]
      BY <1>0, <1>2, <2>2 DEF Retries
    <3> QED
      BY <2>0, <3>1, SameRoute
  <2> QED
    BY <2>1, <2>2
<1>3. ASSUME Keeps \/ Tick PROVE \A q \in Prefix : RouteOf(q)'
  BY <1>3, SameRoute DEF Keeps, Tick, Advance, localVars
<1>4. ASSUME NEW n, Prunes(n) PROVE \A q \in Prefix : RouteOf(q)'
  <2>1. SUFFICES ASSUME NEW q \in Prefix PROVE RouteOf(q)'
    OBVIOUS
  <2>2. local' = local /\ now' = now
    BY <1>4 DEF Prunes
  <2>3. temporaryFib'[q] = temporaryFib[q] \/ temporaryFib'[q] = Live(temporaryFib[q])
    BY <1>4 DEF Prunes, FindLongestPrefix
  <2>4. CASE temporaryFib'[q] = temporaryFib[q]
    BY <2>2, <2>4, SameRoute
  <2>5. CASE temporaryFib'[q] = Live(temporaryFib[q])
    <3>1. \A h \in Live(temporaryFib[q]) : h \in temporaryFib[q] /\ Live(temporaryFib[q]) = {h}
      <4>1. \A h \in temporaryFib[q] : temporaryFib[q] = {h}
        BY Zenon, <2>1 DEF RouteOf
      <4>2. Live(temporaryFib[q]) \subseteq temporaryFib[q]
        BY DEF Live
      <4> QED
        BY <4>1, <4>2
    <3>2. Pending(q)' <=> Pending(q)
      BY <2>2 DEF Pending
    <3>3. ASSUME Pending(q), ~LeaseOver(local[q]) PROVE Live(temporaryFib[q]) # {}
      <4>0. RouteOf(q)
        BY <2>1
      <4>1. PICK h \in temporaryFib[q] : h.deadline = local[q].expiry
        BY Zenon, <3>3, <4>0 DEF RouteOf
      <4>2. h.deadline \in Nat
        BY <1>0 DEF Hop
      <4> QED
        BY <1>0, <3>3, <4>1, <4>2 DEF LeaseOver, Live, NoDeadline
    <3> QED
      BY <2>2, <2>5, <3>1, <3>2, <3>3 DEF RouteOf, LeaseOver
  <2> QED
    BY <2>3, <2>4, <2>5
<1> QED
  BY <1>1, <1>2, <1>3, <1>4, LocalEffect, OpensRoute

\* The temporary FIB and the transaction maps stay in step: a temporary route is always
\* the route of the pending generation, alone and with its deadline, and a pending
\* generation within its lease is never without its route.
THEOREM TemporaryRoutesArePending == Spec => []TemporaryRouteIsPending
<1>1. Init => \A p \in Prefix : RouteOf(p)
  <2> SUFFICES ASSUME Init, NEW p \in Prefix PROVE RouteOf(p)
    OBVIOUS
  <2>1. temporaryFib[p] = {} /\ local[p].seq = NoSeq
    BY DEF Init, LocalInit, TableInit, Idle
  <2> QED
    BY <2>1 DEF RouteOf, Pending
<1>2. (\A p \in Prefix : RouteOf(p)) => TemporaryRouteIsPending
  BY DEF RouteOf, TemporaryRouteIsPending
<1>3. TypeOK /\ TimerInv /\ (\A p \in Prefix : RouteOf(p)) /\ [Next]_vars
        => (\A p \in Prefix : RouteOf(p))'
  BY RouteStep, NextIsStep
<1> QED
  BY <1>1, <1>2, <1>3, TypeCorrect, TimerInit, TimerStep, NextIsStep, PTL DEF Spec

--------------------------------------------------------------------------------
(* What the generation guard gives: generations are ordered from the admission to the
   switch FIB, each stands for one routing decision, and a temporary route is given up only
   for its own permanent route, at the end of its lease or after the last retry. *)

\* Every prefix has a flow-table match of its own: no two prefixes hash alike.
OwnMatch == \A p, q \in Prefix : FlowKey[p] = FlowKey[q] => p = q

\* The decisions about the prefix p that the control plane still knows: in a call in
\* flight, in the saved request, in the records of the flow-table controller, in the
\* switch FIB and in the temporary FIB.
Known(p, m) ==
    \/ \E e \in inFlight : m = e.msg
    \/ m = local[p].request.msg
    \/ m = prefixState[p].accepted
    \/ m = prefixState[p].applied
    \/ \E k \in Key : m = flowFib[k]
    \/ \E h \in temporaryFib[p] :
          m = [prefix |-> p, seq |-> local[p].seq, port |-> h.port, expiry |-> h.deadline]
Decisions(p) == {m \in Message : m.prefix = p /\ Known(p, m)}

\* The inductive invariant: no decision is newer than the newest admitted generation, no
\* two are of one generation, the pending generation is the newest admitted one, and its
\* saved request is about its prefix and its lease.
DecisionInv ==
    \A p \in Prefix :
        /\ \A m \in Decisions(p) : m.seq <= highestSeen[p]
        /\ \A m, n \in Decisions(p) : m.seq = n.seq => m = n
        /\ Pending(p) => local[p].seq = highestSeen[p]
        /\ Pending(p) /\ RetryTimeout > 0 =>
              local[p].request.msg.prefix = p /\ local[p].request.msg.expiry = local[p].expiry

\* The switch FIB holds what the flow-table controller has recorded as applied.
FibInv == OwnMatch => \A p \in Prefix : flowFib[FlowKey[p]] = prefixState[p].applied

RouteInv == GuardInv /\ DecisionInv /\ FibInv

--------------------------------------------------------------------------------
(* What a step does to the decisions *)

\* The step acts on the known message m: nothing else is recorded or sent.
Carries(m) ==
    /\ m \in Decisions(m.prefix)
    /\ \A f \in inFlight' : f \in inFlight \/ f.msg = m
    /\ \A p \in Prefix :
          /\ prefixState'[p].accepted = prefixState[p].accepted
               \/ (p = m.prefix /\ prefixState'[p].accepted = m)
          /\ prefixState'[p].applied = prefixState[p].applied
               \/ (p = m.prefix /\ prefixState'[p].applied = m)
    /\ \A k \in Key : flowFib'[k] = flowFib[k] \/ flowFib'[k] = m

\* No transaction is opened: each one is kept, or closed with its temporary route.
NoneOpens ==
    \A p \in Prefix :
        \/ /\ local'[p].seq = local[p].seq /\ local'[p].expiry = local[p].expiry
           /\ local'[p].request.msg = local[p].request.msg
           /\ temporaryFib'[p] \subseteq temporaryFib[p]
        \/ local'[p] = Idle /\ temporaryFib'[p] = {}

\* The notice m completes its transaction, and m is what is applied.
Completed(m) ==
    /\ Completes(local[m.prefix], m) /\ Closes(m.prefix)
    /\ prefixState'[m.prefix].applied = m

\* The newest admitted generation is an integer.
LEMMA HighestInt ==
  ASSUME TypeOK, NEW p \in Prefix
  PROVE  highestSeen[p] \in Int
<1>1. highestSeen[p] \in Generation \cup {NoSeq}
  BY DEF TypeOK, LocalTypeOK
<1>2. CASE highestSeen[p] \in Generation
  <2>1. highestSeen[p] \in Nat
    BY <1>2, GenerationAssumption
  <2> QED
    BY <2>1
<1>3. CASE highestSeen[p] = NoSeq
  BY <1>3
<1> QED
  BY <1>1, <1>2, <1>3

\* Closing a transaction opens none ...
LEMMA ClosesNone ==
  ASSUME TypeOK, NEW p \in Prefix, Closes(p)
  PROVE  NoneOpens
BY DEF Closes, NoneOpens, TypeOK, LocalTypeOK, TableTypeOK

\* ... nor does a retry ...
LEMMA RetriesNone ==
  ASSUME TypeOK, NEW t \in timers, Retries(t)
  PROVE  NoneOpens
<1>1. /\ local \in [Prefix -> Transaction] /\ t.prefix \in Prefix
      /\ local' = [local EXCEPT ![t.prefix] = Rearm(local[t.prefix])]
      /\ temporaryFib' = temporaryFib
  BY TimerFields DEF TypeOK, LocalTypeOK, Retries
<1>2. local[t.prefix] \in Transaction
  BY <1>1
<1>3. /\ Rearm(local[t.prefix]).seq = local[t.prefix].seq
      /\ Rearm(local[t.prefix]).expiry = local[t.prefix].expiry
      /\ Rearm(local[t.prefix]).request.msg = local[t.prefix].request.msg
  BY <1>2 DEF Rearm, Transaction
<1> QED
  BY <1>1, <1>3 DEF NoneOpens

\* ... nor a step that leaves the transactions alone.
LEMMA KeepsNone ==
  ASSUME TypeOK, UNCHANGED local, \A p \in Prefix : temporaryFib'[p] \subseteq temporaryFib[p]
  PROVE  NoneOpens
BY DEF NoneOpens

\* A step that opens no transaction keeps the invariant of the decisions: it makes none.
LEMMA NoNewDecision ==
  ASSUME TypeOK, DecisionInv, NoneOpens, UNCHANGED highestSeen,
         UNCHANGED <<inFlight, prefixState, flowFib>> \/ \E m \in Message : Carries(m)
  PROVE  DecisionInv'
<1>1. ASSUME NEW p \in Prefix PROVE Decisions(p)' \subseteq Decisions(p)
  <2> SUFFICES ASSUME NEW n \in Message, n.prefix = p, Known(p, n)' PROVE Known(p, n)
    BY DEF Decisions
  <2>0. n # NoMessage
    BY MessageFields
  <2>1. CASE \E e \in inFlight' : n = e.msg
    <3>1. PICK e \in inFlight' : n = e.msg
      BY <2>1
    <3>2. e \in inFlight \/ n \in Decisions(n.prefix)
      BY <3>1 DEF Carries
    <3> QED
      BY <3>1, <3>2 DEF Known, Decisions
  <2>2. CASE n = local'[p].request.msg
    <3>1. local'[p].request.msg = local[p].request.msg
      BY <2>0, <2>2 DEF NoneOpens, Idle, NoRequest
    <3> QED
      BY <2>2, <3>1 DEF Known
  <2>3. CASE n = prefixState'[p].accepted
    <3>1. n = prefixState[p].accepted \/ n \in Decisions(n.prefix)
      BY <2>3 DEF Carries
    <3> QED
      BY <3>1 DEF Known, Decisions
  <2>4. CASE n = prefixState'[p].applied
    <3>1. n = prefixState[p].applied \/ n \in Decisions(n.prefix)
      BY <2>4 DEF Carries
    <3> QED
      BY <3>1 DEF Known, Decisions
  <2>5. CASE \E k \in Key : n = flowFib'[k]
    <3>1. PICK k \in Key : n = flowFib'[k]
      BY <2>5
    <3>2. n = flowFib[k] \/ n \in Decisions(n.prefix)
      BY <3>1 DEF Carries
    <3> QED
      BY <3>1, <3>2 DEF Known, Decisions
  <2>6. CASE \E h \in temporaryFib'[p] :
               n = [prefix |-> p, seq |-> local'[p].seq, port |-> h.port, expiry |-> h.deadline]
    <3>1. PICK h \in temporaryFib'[p] :
               n = [prefix |-> p, seq |-> local'[p].seq, port |-> h.port, expiry |-> h.deadline]
      BY <2>6
    <3>2. local'[p].seq = local[p].seq /\ h \in temporaryFib[p]
      BY <3>1 DEF NoneOpens
    <3> QED
      BY <3>1, <3>2 DEF Known
  <2> QED
    BY <2>1, <2>2, <2>3, <2>4, <2>5, <2>6 DEF Known
<1>2. ASSUME NEW p \in Prefix, Pending(p)'
      PROVE  /\ Pending(p) /\ local'[p].seq = local[p].seq /\ local'[p].expiry = local[p].expiry
             /\ local'[p].request.msg = local[p].request.msg
  BY <1>2 DEF NoneOpens, Pending, Idle
<1> QED
  BY <1>1, <1>2 DEF DecisionInv

\* The decision m about its prefix, which is newer than all that were admitted.
Admits(m) ==
    /\ Opens(m)
    /\ highestSeen[m.prefix] < m.seq
    /\ highestSeen' = [highestSeen EXCEPT ![m.prefix] = m.seq]
    /\ UNCHANGED flowFib
    /\ \A f \in inFlight' : f \in inFlight \/ f.msg = m
    /\ \A p \in Prefix :
          /\ prefixState'[p].applied = prefixState[p].applied
          /\ prefixState'[p].accepted = prefixState[p].accepted
               \/ (p = m.prefix /\ prefixState'[p].accepted = m)

\* A new decision agrees with all that is known of its generation: nothing is.
LEMMA NewDecision ==
  ASSUME TypeOK, \A p \in Prefix : RouteOf(p), DecisionInv, NEW m \in Message, Admits(m)
  PROVE  DecisionInv'
<1>0. /\ m.prefix \in Prefix /\ m.seq \in Nat
      /\ local \in [Prefix -> Transaction] /\ temporaryFib \in [Prefix -> SUBSET Hop]
      /\ \A p \in Prefix : highestSeen[p] \in Int
      /\ highestSeen \in [Prefix -> Generation \cup {NoSeq}]
  BY MessageFields, HighestInt DEF TypeOK, LocalTypeOK, TableTypeOK
<1>1. /\ local' = [local EXCEPT ![m.prefix] = NewTransaction(m)]
      /\ temporaryFib' = [temporaryFib EXCEPT ![m.prefix] = ReplaceHop(m)]
  BY DEF Admits, Opens
<1>2. /\ local'[m.prefix].seq = m.seq /\ local'[m.prefix].expiry = m.expiry
      /\ RetryTimeout > 0 => local'[m.prefix].request.msg = m
      /\ ~(RetryTimeout > 0) => local'[m.prefix].request = local[m.prefix].request
  BY <1>0, <1>1 DEF NewTransaction, NewRequest
<1>3. \A p \in Prefix : p # m.prefix => local'[p] = local[p] /\ temporaryFib'[p] = temporaryFib[p]
  BY <1>0, <1>1
<1>4. temporaryFib'[m.prefix] = {[port |-> m.port, deadline |-> m.expiry]}
  <2>1. local[m.prefix].seq # NoSeq \/ temporaryFib[m.prefix] = {}
    BY <1>0 DEF RouteOf, Pending
  <2>2. (IF local[m.prefix].seq # NoSeq THEN {} ELSE temporaryFib[m.prefix]) = {}
    BY <2>1
  <2>3. ReplaceHop(m) = {[port |-> m.port, deadline |-> m.expiry]}
    BY <2>2 DEF ReplaceHop, InsertHop, Live
  <2> QED
    BY <1>0, <1>1, <2>3
<1>5. m = [prefix |-> m.prefix, seq |-> m.seq, port |-> m.port, expiry |-> m.expiry]
  BY DEF Message
<1>6. ASSUME NEW p \in Prefix, NEW n \in Decisions(p)' PROVE n \in Decisions(p) \/ n = m
  <2>0. n \in Message /\ n.prefix = p /\ Known(p, n)' /\ n # NoMessage
    BY MessageFields DEF Decisions
  <2> SUFFICES ASSUME n # m PROVE Known(p, n)
    BY <2>0 DEF Decisions
  <2>1. CASE \E e \in inFlight' : n = e.msg
    BY <2>1 DEF Admits, Known
  <2>2. CASE n = local'[p].request.msg
    BY <1>2, <1>3, <2>2 DEF Known
  <2>3. CASE n = prefixState'[p].accepted \/ n = prefixState'[p].applied
    BY <2>3 DEF Admits, Known
  <2>4. CASE \E k \in Key : n = flowFib'[k]
    BY <2>4 DEF Admits, Known
  <2>5. CASE \E h \in temporaryFib'[p] :
               n = [prefix |-> p, seq |-> local'[p].seq, port |-> h.port, expiry |-> h.deadline]
    <3>1. p # m.prefix
      BY <1>2, <1>4, <1>5, <2>5
    <3> QED
      BY <1>3, <2>5, <3>1 DEF Known
  <2> QED
    BY <2>0, <2>1, <2>2, <2>3, <2>4, <2>5 DEF Known
<1>7. \A p \in Prefix : /\ p # m.prefix => highestSeen'[p] = highestSeen[p]
                        /\ p = m.prefix => highestSeen'[p] = m.seq
  BY <1>0 DEF Admits
<1>8. highestSeen[m.prefix] < m.seq
  BY DEF Admits
<1>9. ASSUME NEW p \in Prefix, NEW n \in Decisions(p)' PROVE n.seq <= highestSeen'[p]
  <2>1. n.seq \in Nat /\ n.prefix = p
    BY MessageFields DEF Decisions
  <2>2. CASE n = m
    BY <1>0, <1>7, <2>1, <2>2
  <2>3. CASE n \in Decisions(p)
    BY <1>0, <1>7, <1>8, <2>1, <2>3 DEF DecisionInv
  <2> QED
    BY <1>6, <2>2, <2>3
<1>10. ASSUME NEW p \in Prefix, NEW n \in Decisions(p)', NEW o \in Decisions(p)', n.seq = o.seq
       PROVE  n = o
  <2>1. n.seq \in Nat /\ o.seq \in Nat /\ n.prefix = p /\ o.prefix = p
    BY MessageFields DEF Decisions
  <2>2. \A x \in Decisions(p) : x.seq <= highestSeen[p]
    BY DEF DecisionInv
  <2>3. \A x \in Decisions(p) : p = m.prefix => x.seq # m.seq
    <3>1. \A x \in Decisions(p) : x.seq \in Nat
      BY MessageFields DEF Decisions
    <3> QED
      BY <1>0, <1>8, <2>2, <3>1
  <2>4. CASE n \in Decisions(p) /\ o \in Decisions(p)
    BY <1>10, <2>4 DEF DecisionInv
  <2>5. CASE n = m \/ o = m
    BY <1>6, <1>10, <2>1, <2>3, <2>5
  <2> QED
    BY <1>6, <2>4, <2>5
<1>11. ASSUME NEW p \in Prefix, Pending(p)'
       PROVE  /\ local'[p].seq = highestSeen'[p]
              /\ RetryTimeout > 0 => /\ local'[p].request.msg.prefix = p
                                     /\ local'[p].request.msg.expiry = local'[p].expiry
  <2>1. CASE p = m.prefix
    BY <1>2, <1>7, <2>1
  <2>2. CASE p # m.prefix
    BY <1>3, <1>7, <1>11, <2>2 DEF DecisionInv, Pending
  <2> QED
    BY <2>1, <2>2
<1> QED
  BY <1>9, <1>10, <1>11 DEF DecisionInv

--------------------------------------------------------------------------------
(* The steps of the control plane, with the guard *)

\* With the guard no notice comes back before the request of a new generation returns:
\* nothing of that generation can be applied yet.
LEMMA UpdateStep ==
  ASSUME TypeOK, TimerInv, GenerationGuard, RouteInv,
         NEW p \in Prefix, NEW port \in Port, NEW seq \in Generation, NEW ttl \in Nat,
         Update(p, port, seq, ttl)
  PROVE  \E m \in Message :
            /\ IsUpdate(m, p, port, seq, ttl) /\ m.prefix = p /\ m.seq = seq
            /\ Admits(m) /\ GuardInv'
            /\ Taken(inFlight, m, FALSE)
<1>0. /\ ControllerTypeOK /\ now \in Nat /\ nextUid \in Nat
      /\ prefixState \in [Prefix -> PrefixState]
  BY DEF TypeOK, ControllerTypeOK
<1>1. PICK m \in Message, ack \in BOOLEAN :
            /\ IsUpdate(m, p, port, seq, ttl) /\ m.prefix = p /\ m.seq = seq
            /\ SubmitFlowUpdate(m, ack) /\ UNCHANGED flowFib
            /\ (ack /\ Closes(p)) \/ Opens(m)
  BY UpdateEffect
<1>2. Taken(inFlight, m, ack)
  BY <1>0, <1>1, SubmitEffect
<1>3. /\ GuardInv' /\ (ack => prefixState[m.prefix].applied = m)
      /\ \A q \in Prefix : prefixState'[q].applied = prefixState[q].applied
  BY <1>0, <1>2, TakenGuard DEF RouteInv
<1>4. highestSeen[p] < m.seq
  BY <1>1, HighestInt DEF IsUpdate, IsNewer
<1>5. m \notin Decisions(p)
  BY <1>1, <1>4, HighestInt, MessageFields DEF RouteInv, DecisionInv
<1>6. ~ack
  <2>1. ack => m \in Decisions(p)
    BY <1>1, <1>3 DEF Decisions, Known
  <2> QED
    BY <1>5, <2>1
<1>7. ack = FALSE
  BY <1>6
<1>8. /\ \A f \in inFlight' : f \in inFlight \/ f.msg = m
      /\ \A q \in Prefix : prefixState'[q].accepted = prefixState[q].accepted
               \/ (q = m.prefix /\ prefixState'[q].accepted = m)
  <2>1. \A f \in inFlight' : f \in inFlight \/ f.msg = m
    BY <1>2 DEF Taken, GrowsBy
  <2>2. \A q \in Prefix : prefixState'[q].accepted = prefixState[q].accepted
               \/ (q = m.prefix /\ prefixState'[q].accepted = m)
    BY <1>0, <1>2 DEF Taken, PrefixState
  <2> QED
    BY <2>1, <2>2
<1>9. highestSeen' = [highestSeen EXCEPT ![m.prefix] = m.seq]
  BY <1>1 DEF IsUpdate
<1>10. Admits(m)
  BY <1>1, <1>3, <1>4, <1>6, <1>8, <1>9 DEF Admits
<1>11. Taken(inFlight, m, FALSE)
  BY <1>2, <1>7
<1> QED
  BY <1>1, <1>3, <1>10, <1>11

\* The calls in flight after the call e, which acts on one message and sends at most one
\* call; only acceptControl sends a request on.
Passes(e) ==
    \/ inFlight' = inFlight \ {e}
    \/ \E f \in LegCall : /\ f.msg = e.msg
                          /\ e.call = "acceptControl" \/ f.call = "deliverSyncAck"
                          /\ inFlight' = (inFlight \ {e}) \cup {f}

\* The FlowMod e installs its message, over an older generation and within its lease.
Installs(e) ==
    /\ e.call = "attemptFlowMod"
    /\ InstallFibEntry(e.msg)
    /\ prefixState[e.msg.prefix].applied.seq < e.msg.seq
    /\ ~IsExpiredAt(e.msg, now)
    /\ prefixState'[e.msg.prefix].applied = e.msg
    /\ \A p \in Prefix : p # e.msg.prefix => prefixState'[p].applied = prefixState[p].applied
AppliesNothing ==
    UNCHANGED flowFib /\ \A p \in Prefix : prefixState'[p].applied = prefixState[p].applied

\* A call of the flow-table controller: what it sends, installs and completes.
LEMMA LegStep ==
  ASSUME TypeOK, TimerInv, GenerationGuard, RouteInv, NEW e \in inFlight, RunLeg(e)
  PROVE  /\ e.msg \in Message /\ UNCHANGED <<now, highestSeen>>
         /\ GuardInv' /\ Carries(e.msg) /\ Passes(e)
         /\ AppliesNothing \/ Installs(e)
         /\ Keeps \/ Completed(e.msg)
<1> DEFINE m == e.msg
<1>0. /\ ControllerTypeOK /\ now \in Nat /\ nextUid \in Nat
      /\ prefixState \in [Prefix -> PrefixState] /\ inFlight \subseteq LegCall
      /\ flowFib \in [Key -> Message \cup {NoMessage}]
      /\ e.call \in {"acceptControl", "attemptFlowMod", "deliverSyncAck"}
  BY DEF TypeOK, ControllerTypeOK, LegCall
<1>1. m \in Message /\ UNCHANGED <<now, highestSeen>> /\ nextUid' >= nextUid
  BY LegEffect
<1>2. m.prefix \in Prefix /\ m.seq \in Nat
  BY <1>1, MessageFields
<1>3. m \in Decisions(m.prefix)
  BY <1>1 DEF Decisions, Known
<1>4. ASSUME NEW ack \in BOOLEAN, HandleControlResponse(m, ack),
             ack /\ Completes(local[m.prefix], m) => prefixState'[m.prefix].applied = m
      PROVE  Keeps \/ Completed(m)
  BY <1>1, <1>4, ResponseEffect DEF Completed
<1>5. GuardInv /\ inFlight \ {e} \in SUBSET inFlight
  BY DEF RouteInv
<1>6. CASE RunAcceptControl(e)
  <2>1. PICK ack \in BOOLEAN : AcceptControl(m, inFlight \ {e}, ack) /\ HandleControlResponse(m, ack)
    BY <1>6 DEF RunAcceptControl
  <2>2. e.call = "acceptControl" /\ UNCHANGED flowFib
    BY <1>6 DEF RunAcceptControl
  <2>3. Taken(inFlight \ {e}, m, ack)
    BY <1>0, <1>1, <2>1, AcceptEffect
  <2>4. /\ GuardInv' /\ (ack => prefixState[m.prefix].applied = m)
        /\ \A q \in Prefix : prefixState'[q].applied = prefixState[q].applied
    BY <1>0, <1>1, <1>5, <2>3, TakenGuard
  <2>5. Keeps \/ Completed(m)
    BY <1>2, <1>4, <2>1, <2>4
  <2>6. Passes(e)
    BY <2>2, <2>3 DEF Taken, GrowsBy, Passes
  <2>7. \A q \in Prefix : prefixState'[q].accepted = prefixState[q].accepted
               \/ (q = m.prefix /\ prefixState'[q].accepted = m)
    BY <1>0, <1>2, <2>3 DEF Taken, PrefixState
  <2>8. \A f \in inFlight' : f \in inFlight \/ f.msg = m
    BY <2>6 DEF Passes
  <2>9. Carries(m)
    BY <1>3, <2>2, <2>4, <2>7, <2>8 DEF Carries
  <2> QED
    BY <1>1, <2>2, <2>4, <2>5, <2>6, <2>9 DEF AppliesNothing
<1>7. CASE RunAttemptFlowMod(e)
  <2>1. PICK applied \in BOOLEAN, ack \in BOOLEAN :
          /\ AttemptFlowMod(m, inFlight \ {e}, SinkAccepts(m), applied, ack)
          /\ HandleControlResponse(m, ack)
          /\ IF applied THEN InstallFibEntry(m) ELSE UNCHANGED flowFib
    BY <1>7 DEF RunAttemptFlowMod
  <2>2. e.call = "attemptFlowMod" /\ SinkAccepts(m) \in BOOLEAN
    BY <1>7 DEF RunAttemptFlowMod, SinkAccepts
  <2>3. /\ GuardInv'
        /\ ack => prefixState'[m.prefix].applied = m
        /\ applied => prefixState[m.prefix].applied.seq < m.seq /\ ~IsExpiredAt(m, now)
        /\ \A p \in Prefix : /\ prefixState'[p].accepted = prefixState[p].accepted
                             /\ applied /\ p = m.prefix => prefixState'[p].applied = m
                             /\ ~applied \/ p # m.prefix =>
                                   prefixState'[p].applied = prefixState[p].applied
    BY <1>0, <1>5, <2>1, <2>2, AttemptGuard
  <2>4. inFlight' = inFlight \ {e} \/ GrowsBy(inFlight \ {e}, m, "deliverSyncAck")
    BY <1>0, <1>1, <2>1, <2>2, AttemptEffect
  <2>5. Keeps \/ Completed(m)
    BY <1>4, <2>1, <2>3
  <2>6. Passes(e)
    BY <2>4 DEF GrowsBy, Passes
  <2>7. \A f \in inFlight' : f \in inFlight \/ f.msg = m
    BY <2>6 DEF Passes
  <2>8. \A k \in Key : flowFib'[k] = flowFib[k] \/ flowFib'[k] = m
    BY <1>0, <2>1 DEF InstallFibEntry
  <2>9. Carries(m)
    BY <1>3, <2>3, <2>7, <2>8 DEF Carries
  <2>10. AppliesNothing \/ Installs(e)
    BY <1>2, <2>1, <2>2, <2>3 DEF AppliesNothing, Installs
  <2> QED
    BY <1>1, <2>3, <2>5, <2>6, <2>9, <2>10
<1>8. CASE RunDeliverSyncAck(e)
  <2>1. PICK ack \in BOOLEAN : HandleControlResponse(m, ack)
    BY <1>8 DEF RunDeliverSyncAck
  <2>2. /\ e.call = "deliverSyncAck" /\ UNCHANGED <<flowFib, prefixState>>
        /\ inFlight' = inFlight \ {e}
    BY <1>8 DEF RunDeliverSyncAck
  <2>3. GuardInv'
    BY <1>5, <2>2 DEF GuardInv, NotNewer
  <2>4. Passes(e) /\ Carries(m) /\ AppliesNothing
    BY <1>3, <2>2 DEF Passes, Carries, AppliesNothing
  <2>5. ASSUME Completes(local[m.prefix], m) PROVE prefixState[m.prefix].applied = m
    <3>1. Pending(m.prefix) /\ local[m.prefix].seq = m.seq
      BY <2>5 DEF Completes, Pending
    <3>2. m.seq = highestSeen[m.prefix]
      BY <1>2, <3>1 DEF RouteInv, DecisionInv
    <3>3. NotNewer(m, prefixState[m.prefix].applied)
      BY <1>5, <2>2 DEF GuardInv
    <3> DEFINE a == prefixState[m.prefix].applied
    <3>4. a \in Message \cup {NoMessage} /\ a.seq \in Int
      BY <1>0, <1>2, RecordFields
    <3>5. a # NoMessage
      BY <1>2, <3>3 DEF NotNewer, NoMessage
    <3>6. a \in Decisions(m.prefix)
      BY <1>2, <1>5, <3>4, <3>5 DEF Decisions, Known, GuardInv
    <3>7. a.seq <= m.seq
      BY <1>2, <3>2, <3>6 DEF RouteInv, DecisionInv
    <3> QED
      BY <1>2, <3>3, <3>4, <3>7 DEF NotNewer
  <2>6. Keeps \/ Completed(m)
    BY <1>4, <2>1, <2>2, <2>5
  <2> QED
    BY <1>1, <2>3, <2>4, <2>6
<1> QED
  BY <1>6, <1>7, <1>8 DEF RunLeg

\* Another attempt: the saved request is sent again, or its notice comes back at once.
LEMMA RetryStep ==
  ASSUME TypeOK, TimerInv, GenerationGuard, RouteInv, NEW t \in timers, RunRetry(t)
  PROVE  LET m == local[t.prefix].request.msg IN
         /\ t.prefix \in Prefix /\ Pending(t.prefix) /\ RetryTimeout > 0
         /\ m \in Message /\ m.prefix = t.prefix
         /\ UNCHANGED <<now, highestSeen>> /\ AppliesNothing
         /\ GuardInv' /\ Carries(m)
         /\ inFlight' = inFlight \/ \E f \in LegCall : f.msg = m /\ inFlight' = inFlight \cup {f}
         /\ \/ Retries(t)
            \/ /\ Completed(m)
               /\ \A f \in inFlight' : f \in inFlight \/ f.call = "deliverSyncAck"
<1> DEFINE m == local[t.prefix].request.msg
<1>0. /\ ControllerTypeOK /\ now \in Nat /\ nextUid \in Nat
      /\ prefixState \in [Prefix -> PrefixState] /\ inFlight \in SUBSET inFlight
  BY DEF TypeOK, ControllerTypeOK
<1>1. /\ t.prefix \in Prefix /\ Pending(t.prefix) /\ RetryTimeout > 0
      /\ m \in Message /\ UNCHANGED <<now, highestSeen, flowFib>>
  BY RetryEffect
<1>2. m.prefix = t.prefix
  BY <1>1 DEF RouteInv, DecisionInv
<1>3. PICK ack \in BOOLEAN :
         /\ SubmitFlowUpdate(m, ack)
         /\ \/ Retries(t)
            \/ ack /\ Completes(local[t.prefix], m) /\ Closes(t.prefix)
  BY RetryEffect
<1>4. Taken(inFlight, m, ack)
  BY <1>0, <1>1, <1>3, SubmitEffect
<1>5. /\ GuardInv' /\ (ack => prefixState[m.prefix].applied = m)
      /\ \A q \in Prefix : prefixState'[q].applied = prefixState[q].applied
  BY <1>0, <1>1, <1>4, TakenGuard DEF RouteInv
<1>6. m \in Decisions(m.prefix)
  BY <1>1, <1>2 DEF Decisions, Known
<1>7. inFlight' = inFlight \/ \E f \in LegCall : f.msg = m /\ inFlight' = inFlight \cup {f}
  BY <1>4 DEF Taken, GrowsBy
<1>8. \A q \in Prefix : prefixState'[q].accepted = prefixState[q].accepted
             \/ (q = m.prefix /\ prefixState'[q].accepted = m)
  BY <1>0, <1>1, <1>2, <1>4 DEF Taken, PrefixState
<1>9. Carries(m)
  BY <1>1, <1>5, <1>6, <1>7, <1>8 DEF Carries
<1>10. ack => \A f \in inFlight' : f \in inFlight \/ f.call = "deliverSyncAck"
  BY <1>4 DEF Taken, GrowsBy
<1>11. ASSUME ack, Completes(local[t.prefix], m), Closes(t.prefix) PROVE Completed(m)
  BY <1>1, <1>2, <1>5, <1>11 DEF Completed
<1>12. AppliesNothing
  BY <1>1, <1>5 DEF AppliesNothing
<1> QED
  BY <1>1, <1>2, <1>3, <1>5, <1>7, <1>9, <1>10, <1>11, <1>12

--------------------------------------------------------------------------------
(* The invariant *)

\* The switch FIB stays what is applied: a FlowMod changes both, under its own match.
LEMMA FibStep ==
  ASSUME TypeOK, FibInv, AppliesNothing \/ \E e \in inFlight : Installs(e)
  PROVE  FibInv'
<1>1. CASE AppliesNothing
  BY <1>1 DEF AppliesNothing, FibInv
<1>2. CASE \E e \in inFlight : Installs(e)
  <2>1. PICK e \in inFlight : Installs(e)
    BY <1>2
  <2>2. e.msg.prefix \in Prefix /\ flowFib \in [Key -> Message \cup {NoMessage}]
    <3>1. e.msg \in Message
      BY DEF TypeOK, ControllerTypeOK, LegCall
    <3> QED
      BY <3>1, MessageFields DEF TypeOK
  <2>3. \A p \in Prefix : FlowKey[p] \in Key
    BY DEF Key
  <2>4. ASSUME OwnMatch, NEW p \in Prefix
        PROVE  flowFib'[FlowKey[p]] = prefixState'[p].applied
    <3>1. CASE p = e.msg.prefix
      BY <2>1, <2>2, <2>3, <3>1 DEF Installs, InstallFibEntry
    <3>2. CASE p # e.msg.prefix
      <4>1. FlowKey[p] # FlowKey[e.msg.prefix]
        BY <2>2, <2>4, <3>2 DEF OwnMatch
      <4>2. flowFib'[FlowKey[p]] = flowFib[FlowKey[p]]
        BY <2>1, <2>2, <2>3, <4>1 DEF Installs, InstallFibEntry
      <4> QED
        BY <2>1, <2>4, <3>2, <4>2 DEF Installs, FibInv
    <3> QED
      BY <3>1, <3>2
  <2> QED
    BY <2>4 DEF FibInv
<1> QED
  BY <1>1, <1>2

\* Every other step leaves the flow-table controller and the switch FIB alone.
LEMMA QuietStep ==
  ASSUME TypeOK, RouteInv, NoneOpens,
         UNCHANGED <<highestSeen, inFlight, prefixState, flowFib>>
  PROVE  RouteInv'
<1>1. DecisionInv'
  BY NoNewDecision DEF RouteInv
<1>2. GuardInv' /\ FibInv'
  BY DEF RouteInv, GuardInv, NotNewer, FibInv
<1> QED
  BY <1>1, <1>2 DEF RouteInv

\* With the guard, every step keeps the invariant: one case for each action.
LEMMA RouteInvStep ==
  ASSUME TypeOK, TimerInv, \A p \in Prefix : RouteOf(p), GenerationGuard, RouteInv,
         Step
  PROVE  RouteInv'
<1>1. ASSUME NEW p \in Prefix, NEW port \in Port, NEW seq \in Generation, NEW ttl \in Nat,
             Update(p, port, seq, ttl)
      PROVE  RouteInv'
  <2>1. PICK m \in Message : Admits(m) /\ GuardInv'
    BY <1>1, UpdateStep
  <2>2. DecisionInv'
    BY <2>1, NewDecision DEF RouteInv
  <2>3. FibInv'
    BY <2>1, FibStep DEF Admits, AppliesNothing, RouteInv
  <2> QED
    BY <2>1, <2>2, <2>3 DEF RouteInv
<1>2. ASSUME NEW n, Lookup(n) PROVE RouteInv'
  <2>1. \A p \in Prefix : temporaryFib'[p] \subseteq temporaryFib[p]
    BY <1>2 DEF Lookup, FindLongestPrefix, Live
  <2>2. NoneOpens
    BY <1>2, <2>1, KeepsNone DEF Lookup, localVars
  <2> QED
    BY <1>2, <2>2, QuietStep DEF Lookup, localVars, controllerVars
<1>3. ASSUME NEW e \in inFlight, RunLeg(e) PROVE RouteInv'
  <2>1. /\ e.msg \in Message /\ UNCHANGED highestSeen
        /\ GuardInv' /\ Carries(e.msg) /\ (AppliesNothing \/ Installs(e))
        /\ Keeps \/ Completed(e.msg)
    BY <1>3, LegStep
  <2>2. NoneOpens
    BY <2>1, ClosesNone, KeepsNone, MessageFields DEF Keeps, Completed
  <2>3. DecisionInv'
    BY <2>1, <2>2, NoNewDecision DEF RouteInv
  <2>4. FibInv'
    BY <2>1, FibStep DEF RouteInv
  <2> QED
    BY <2>1, <2>3, <2>4 DEF RouteInv
<1>4. ASSUME NEW t \in timers, RunRetry(t) PROVE RouteInv'
  <2> DEFINE m == local[t.prefix].request.msg
  <2>1. /\ t.prefix \in Prefix /\ m \in Message /\ m.prefix = t.prefix
        /\ UNCHANGED highestSeen /\ AppliesNothing /\ GuardInv' /\ Carries(m)
        /\ Retries(t) \/ Completed(m)
    BY <1>4, RetryStep
  <2>2. NoneOpens
    BY <2>1, ClosesNone, RetriesNone DEF Completed
  <2>3. DecisionInv'
    BY <2>1, <2>2, NoNewDecision DEF RouteInv
  <2>4. FibInv'
    BY <2>1, FibStep DEF RouteInv
  <2> QED
    BY <2>1, <2>3, <2>4 DEF RouteInv
<1>5. ASSUME NEW t \in timers, RunExpiry(t) \/ RunGiveUp(t) PROVE RouteInv'
  <2>1. t.prefix \in Prefix /\ Closes(t.prefix) /\ UNCHANGED <<controllerVars, highestSeen, flowFib>>
    BY <1>5, ExpiryEffect, GiveUpEffect
  <2> QED
    BY <2>1, ClosesNone, QuietStep DEF controllerVars
<1>6. CASE Tick \/ Elsewhere
  <2>1. UNCHANGED <<controllerVars, temporaryFib, localVars, flowFib>>
    BY <1>6 DEF Tick, Elsewhere, controllerVars, localVars
  <2>2. NoneOpens
    BY <2>1, KeepsNone DEF localVars
  <2> QED
    BY <2>1, <2>2, QuietStep DEF controllerVars, localVars
<1> QED
  BY <1>1, <1>2, <1>3, <1>4, <1>5, <1>6 DEF Step, RunTimer

\* At first no generation was seen and nothing is installed.
LEMMA RouteInvInit == Init => RouteInv
<1> SUFFICES ASSUME Init PROVE RouteInv
  OBVIOUS
<1>1. /\ inFlight = {} /\ flowFib = [k \in Key |-> NoMessage]
      /\ prefixState = [p \in Prefix |-> [accepted |-> NoMessage, applied |-> NoMessage]]
      /\ local = [p \in Prefix |-> Idle] /\ temporaryFib = [p \in Prefix |-> {}]
  BY DEF Init, ControllerInit, LocalInit, TableInit
<1>2. NoMessage.seq = -1
  BY DEF NoMessage
<1>3. GuardInv
  BY <1>1, <1>2 DEF GuardInv, NotNewer
<1>4. FibInv
  BY <1>1 DEF FibInv, Key
<1>5. \A p \in Prefix : ~Pending(p) /\ local[p].request.msg = NoMessage
  BY <1>1 DEF Pending, Idle, NoRequest
<1>6. \A p \in Prefix : Decisions(p) = {}
  <2> SUFFICES ASSUME NEW p \in Prefix, NEW m \in Message, Known(p, m) PROVE FALSE
    BY DEF Decisions
  <2>1. m = NoMessage
    BY <1>1, <1>5 DEF Known
  <2> QED
    BY <2>1, MessageFields
<1>7. DecisionInv
  BY <1>5, <1>6 DEF DecisionInv
<1> QED
  BY <1>3, <1>4, <1>7 DEF RouteInv

\* All that is known of a reachable state of the guarded control plane.
Inv == /\ TypeOK /\ TimerInv /\ \A p \in Prefix : RouteOf(p)
       /\ GenerationGuard => RouteInv

\* It holds at first.
LEMMA InvInit == Init => Inv
<1>1. Init => \A p \in Prefix : RouteOf(p)
  <2> SUFFICES ASSUME Init, NEW p \in Prefix PROVE RouteOf(p)
    OBVIOUS
  <2>1. temporaryFib[p] = {} /\ local[p].seq = NoSeq
    BY DEF Init, LocalInit, TableInit, Idle
  <2> QED
    BY <2>1 DEF RouteOf, Pending
<1> QED
  BY <1>1, TypeInit, TimerInit, RouteInvInit DEF Inv

\* Every step of the control plane keeps the invariant.
LEMMA InvStep == Inv /\ Step => Inv'
<1> SUFFICES ASSUME Inv, Step PROVE Inv'
  OBVIOUS
<1>1. TypeOK'
  BY TypeStep DEF Inv
<1>2. TimerInv' /\ \A p \in Prefix : RouteOf(p)'
  BY <1>1, TimerStep, RouteStep DEF Inv
<1>3. GenerationGuard => RouteInv'
  BY RouteInvStep DEF Inv
<1> QED
  BY <1>1, <1>2, <1>3 DEF Inv

\* The invariant holds of every behaviour of the control plane.
LEMMA Invariance == Spec => []Inv
BY InvInit, InvStep, NextIsStep, PTL DEF Spec

--------------------------------------------------------------------------------
(* The theorems *)

\* With the guard the three places that order generations always agree, whatever the legs
\* lose, delay and reorder: what is applied was accepted, what was accepted was admitted,
\* and only the newest admitted generation is pending.
THEOREM GuardOrdersGenerations == Spec => []GenerationOrder
<1>1. Inv => GenerationOrder
  <2> SUFFICES ASSUME Inv, GenerationGuard, NEW p \in Prefix
               PROVE  /\ prefixState[p].applied.seq <= prefixState[p].accepted.seq
                      /\ prefixState[p].accepted.seq <= highestSeen[p]
                      /\ Pending(p) => local[p].seq = highestSeen[p]
    BY DEF GenerationOrder
  <2>0. TypeOK /\ ControllerTypeOK /\ RouteInv
    BY DEF Inv, TypeOK
  <2> DEFINE a == prefixState[p].accepted
  <2>1. a \in Message \cup {NoMessage} /\ a.seq \in Int
    BY <2>0, RecordFields
  <2>2. CASE a # NoMessage
    <3>1. a \in Decisions(p)
      BY <2>0, <2>1, <2>2 DEF Decisions, Known, RouteInv, GuardInv
    <3> QED
      BY <2>0, <3>1 DEF RouteInv, GuardInv, NotNewer, DecisionInv
  <2>3. CASE a = NoMessage
    <3>1. a.seq = -1
      BY <2>3 DEF NoMessage
    <3>2. highestSeen[p] >= -1
      <4>1. highestSeen[p] \in Generation \cup {NoSeq}
        BY <2>0 DEF TypeOK, LocalTypeOK
      <4>2. \A g \in Generation : g \in Nat
        BY GenerationAssumption
      <4> QED
        BY <4>1, <4>2
    <3> QED
      BY <2>0, <3>1, <3>2 DEF RouteInv, GuardInv, NotNewer, DecisionInv
  <2> QED
    BY <2>2, <2>3
<1> QED
  BY <1>1, Invariance, PTL

\* With the guard a generation stands for one routing decision: all its copies, in flight
\* on any leg, saved, recorded or installed, carry one port and one deadline.
THEOREM GuardFixesDecisions == Spec => []OneDecisionPerGeneration
<1>1. Inv => OneDecisionPerGeneration
  <2> SUFFICES ASSUME Inv, GenerationGuard, NEW m \in Copies, NEW n \in Copies,
                      m.prefix = n.prefix, m.seq = n.seq
               PROVE  m = n
    BY DEF OneDecisionPerGeneration
  <2>0. TypeOK /\ ControllerTypeOK /\ TimerInv /\ RouteInv
    BY DEF Inv, TypeOK
  <2>1. ASSUME NEW x \in Copies PROVE x.prefix \in Prefix /\ x \in Decisions(x.prefix)
    <3>0. x # NoMessage
      BY <2>1 DEF Copies
    <3>1. CASE \E e \in inFlight : x = e.msg
      <4>1. x \in Message
        BY <2>0, <3>1 DEF ControllerTypeOK, LegCall
      <4> QED
        BY <3>1, <4>1, MessageFields DEF Decisions, Known
    <3>2. CASE \E p \in Prefix : x = local[p].request.msg
      <4>1. PICK p \in Prefix : x = local[p].request.msg
        BY <3>2
      <4>2. local[p].request # NoRequest
        BY <3>0, <4>1 DEF NoRequest
      <4>3. x \in Message
        BY <2>0, <4>1, <4>2 DEF TypeOK, LocalTypeOK, Transaction, Request
      <4>4. Pending(p) /\ RetryTimeout > 0
        <5>1. RetryTimeout # 0 /\ Pending(p)
          BY <2>0, <4>2 DEF TimerInv, Idle
        <5> QED
          BY <5>1, LocalAssumption
      <4>5. x.prefix = p
        BY <2>0, <4>1, <4>4 DEF RouteInv, DecisionInv
      <4> QED
        BY <4>1, <4>3, <4>5 DEF Decisions, Known
    <3>3. CASE \E p \in Prefix : x = prefixState[p].accepted \/ x = prefixState[p].applied
      <4>1. PICK p \in Prefix : x = prefixState[p].accepted \/ x = prefixState[p].applied
        BY <3>3
      <4>2. x \in Message
        BY <2>0, <3>0, <4>1, RecordFields
      <4>3. x.prefix = p
        BY <2>0, <3>0, <4>1 DEF RouteInv, GuardInv
      <4> QED
        BY <4>1, <4>2, <4>3 DEF Decisions, Known
    <3>4. CASE \E k \in Key : x = flowFib[k]
      <4>1. x \in Message
        BY <2>0, <3>0, <3>4 DEF TypeOK
      <4> QED
        BY <3>4, <4>1, MessageFields DEF Decisions, Known
    <3>5. \/ x \in {e.msg : e \in inFlight}
          \/ \E p \in Prefix : x \in {local[p].request.msg, prefixState[p].accepted,
                                      prefixState[p].applied}
          \/ x \in {flowFib[k] : k \in Key}
      <4> DEFINE A == {e.msg : e \in inFlight}
                 U == {{local[p].request.msg, prefixState[p].accepted, prefixState[p].applied}
                         : p \in Prefix}
                 B == {flowFib[k] : k \in Key}
      <4>1. Copies = (A \cup (UNION U) \cup B) \ {NoMessage}
        BY Zenon DEF Copies
      <4>2. x \in UNION U => \E p \in Prefix : x \in {local[p].request.msg,
                                       prefixState[p].accepted, prefixState[p].applied}
        BY Zenon
      <4> HIDE DEF A, U, B
      <4>3. x \in A \/ x \in UNION U \/ x \in B
        BY <2>1, <4>1, Zenon
      <4> QED
        BY <4>2, <4>3, Zenon DEF A, B
    <3> QED
      BY <3>1, <3>2, <3>3, <3>4, <3>5
  <2> QED
    BY <2>0, <2>1 DEF RouteInv, DecisionInv
<1> QED
  BY <1>1, Invariance, PTL

\* With the guard, and a match of its own for every prefix, no delayed or repeated FlowMod
\* takes the switch FIB back to an older generation or installs one twice.
THEOREM GuardMovesForward == ASSUME OwnMatch PROVE Spec => FlowFibMovesForward
<1> DEFINE Forward == GenerationGuard =>
             \A k \in Key : flowFib'[k] # flowFib[k] => flowFib'[k].seq > flowFib[k].seq
<1>1. Inv /\ [Next]_vars => [Forward]_flowFib
  <2> SUFFICES ASSUME Inv, Next, GenerationGuard, NEW k \in Key, flowFib'[k] # flowFib[k]
               PROVE  flowFib'[k].seq > flowFib[k].seq
    BY DEF vars
  <2>0. TypeOK /\ TimerInv /\ RouteInv
    BY DEF Inv
  <2>1. PICK e \in inFlight : RunLeg(e)
    <3>1. ASSUME NEW p \in Prefix, NEW port \in Port, NEW seq \in Generation, NEW ttl \in Ttl,
                 TraceUpdate(p, port, seq, ttl)
          PROVE  UNCHANGED flowFib
      BY <3>1 DEF TraceUpdate
    <3>2. ASSUME NEW n \in Prefix, Lookup(n) PROVE UNCHANGED flowFib
      BY <3>2 DEF Lookup
    <3>3. ASSUME NEW t \in timers, RunTimer(t) PROVE UNCHANGED flowFib
      BY <3>3 DEF RunTimer, RunExpiry, RunRetry, RunGiveUp
    <3>4. ASSUME Tick PROVE UNCHANGED flowFib
      BY <3>4 DEF Tick
    <3> QED
      BY <3>1, <3>2, <3>3, <3>4 DEF Next, Run
  <2>2. Installs(e) /\ e.msg \in Message
    BY <2>0, <2>1, LegStep DEF AppliesNothing
  <2>3. /\ e.msg.prefix \in Prefix /\ e.msg.seq \in Nat
        /\ flowFib \in [Key -> Message \cup {NoMessage}] /\ FlowKey[e.msg.prefix] \in Key
    BY <2>0, <2>2, MessageFields DEF TypeOK, Key
  <2>4. k = FlowKey[e.msg.prefix] /\ flowFib'[k] = e.msg
    BY <2>2, <2>3 DEF Installs, InstallFibEntry
  <2>5. flowFib[k] = prefixState[e.msg.prefix].applied
    BY <2>0, <2>3, <2>4 DEF RouteInv, FibInv
  <2>6. flowFib[k].seq \in Int
    BY <2>0, <2>3, <2>5, RecordFields DEF TypeOK
  <2> QED
    BY <2>2, <2>3, <2>4, <2>5, <2>6 DEF Installs
<1> QED
  BY <1>1, Invariance, PTL DEF Spec, FlowFibMovesForward

\* With the guard, and a match of its own for every prefix, a notice never takes a
\* temporary route away before the same route is in the switch FIB.
THEOREM GuardMakesBeforeBreak ==
  ASSUME OwnMatch, GenerationGuard PROVE Spec => MakeBeforeBreak
<1> DEFINE Covered(p) ==
             GivesUp(p) =>
               \/ flowFib'[FlowKey[p]] # NoMessage /\ RouteInstalled(p, local[p], flowFib')
               \/ LeaseOver(local[p])
               \/ RetriesExhausted(p)
<1>1. ASSUME TypeOK, RouteInv, FibInv', NEW m \in Message, Completed(m), m \in Decisions(m.prefix),
             NEW p \in Prefix, GivesUp(p)
      PROVE  flowFib'[FlowKey[p]] # NoMessage /\ RouteInstalled(p, local[p], flowFib')
  <2>0. local \in [Prefix -> Transaction] /\ m.prefix \in Prefix /\ m # NoMessage
    BY <1>1, MessageFields DEF TypeOK, LocalTypeOK
  <2>1. p = m.prefix
    BY <1>1, <2>0 DEF Completed, Closes, GivesUp, Pending
  <2>2. flowFib'[FlowKey[p]] = m
    BY <1>1, <2>0, <2>1 DEF Completed, FibInv
  <2>3. local[p].seq = m.seq /\ local[p].expiry = m.expiry
    BY <1>1, <2>1 DEF Completed, Completes
  <2>4. ASSUME NEW h \in temporaryFib[p] PROVE m.port = h.port
    <3> DEFINE n == [prefix |-> p, seq |-> local[p].seq, port |-> h.port, expiry |-> h.deadline]
    <3>1. h.port \in Port /\ h.deadline \in Nat
      BY <1>1, <2>4 DEF TypeOK, TableTypeOK, Hop
    <3>2. m.seq \in Generation
      BY MessageFields
    <3>3. n \in Message /\ n.prefix = p /\ n.seq = m.seq /\ n.port = h.port
      BY <2>3, <3>1, <3>2 DEF Message
    <3>4. Known(p, n)
      BY <2>4 DEF Known
    <3> HIDE DEF n
    <3>5. n \in Decisions(p)
      BY <3>3, <3>4 DEF Decisions
    <3>6. n = m
      BY <1>1, <2>1, <3>3, <3>5 DEF RouteInv, DecisionInv
    <3> QED
      BY <3>3, <3>6
  <2> QED
    BY <2>0, <2>1, <2>2, <2>3, <2>4 DEF RouteInstalled
<1>2. ASSUME NEW p \in Prefix, local'[p].seq = local[p].seq PROVE Covered(p)
  BY <1>2 DEF GivesUp, Pending
<1>3. ASSUME Inv, FibInv', Next, NEW p \in Prefix PROVE Covered(p)
  <2>0. TypeOK /\ TimerInv /\ RouteInv /\ local \in [Prefix -> Transaction]
    BY <1>3 DEF Inv, TypeOK, LocalTypeOK
  <2>1. ASSUME NEW q \in Prefix, NEW port \in Port, NEW seq \in Generation, NEW ttl \in Ttl,
               TraceUpdate(q, port, seq, ttl)
        PROVE  Covered(p)
    <3>1. PICK m \in Message : Admits(m)
      BY <2>0, <2>1, TraceUpdates, UpdateStep
    <3>2. /\ m.seq # -1 /\ m.prefix \in Prefix
          /\ local' = [local EXCEPT ![m.prefix] = NewTransaction(m)]
      BY <3>1, MessageFields DEF Admits, Opens
    <3>3. ~GivesUp(p)
      BY <2>0, <3>2 DEF GivesUp, Pending, NewTransaction
    <3> QED
      BY <3>3
  <2>2. ASSUME NEW n \in Prefix, Lookup(n) PROVE Covered(p)
    BY <1>2, <2>2 DEF Lookup, localVars
  <2>3. ASSUME NEW e \in inFlight, RunLeg(e) PROVE Covered(p)
    <3>1. /\ e.msg \in Message /\ Carries(e.msg) /\ (Keeps \/ Completed(e.msg))
      BY <2>0, <2>3, LegStep
    <3>2. CASE Keeps
      BY <1>2, <3>2 DEF Keeps
    <3>3. CASE Completed(e.msg)
      BY <1>1, <1>3, <2>0, <3>1, <3>3 DEF Carries
    <3> QED
      BY <3>1, <3>2, <3>3
  <2>4. ASSUME NEW t \in timers, RunRetry(t) PROVE Covered(p)
    <3> DEFINE m == local[t.prefix].request.msg
    <3>1. m \in Message /\ Carries(m) /\ (Retries(t) \/ Completed(m))
      BY <2>0, <2>4, RetryStep
    <3>2. CASE Retries(t)
      <4>1. local'[p].seq = local[p].seq
        <5>1. t.prefix \in Prefix /\ local' = [local EXCEPT ![t.prefix] = Rearm(local[t.prefix])]
          BY <2>0, <3>2, TimerFields DEF Retries
        <5>2. Rearm(local[t.prefix]).seq = local[t.prefix].seq
          <6>1. local[t.prefix] \in Transaction
            BY <2>0, <5>1
          <6> QED
            BY <6>1 DEF Rearm, Transaction
        <5> QED
          BY <2>0, <5>1, <5>2
      <4> QED
        BY <1>2, <4>1
    <3>3. CASE Completed(m)
      BY <1>1, <1>3, <2>0, <3>1, <3>3 DEF Carries
    <3> QED
      BY <3>1, <3>2, <3>3
  <2>5. ASSUME NEW t \in timers, Due(t, Queue), RunExpiry(t) PROVE Covered(p)
    <3>1. /\ t.prefix \in Prefix /\ Closes(t.prefix)
          /\ t.at = local[t.prefix].expiry /\ local[t.prefix].expiry # NoLease /\ t.at = now
      BY <2>0, <2>5, ExpiryEffect DEF Due
    <3>2. CASE p = t.prefix
      <4>1. now \in Nat
        BY <2>0 DEF TypeOK
      <4>a. local[p].expiry # NoLease /\ local[p].expiry = now
        BY <3>1, <3>2, Zenon
      <4> HIDE DEF Covered
      <4>b. now >= local[p].expiry
        <5>1. \A v : v = now => now >= v
          BY <4>1
        <5> QED
          BY <4>a, <5>1, Zenon
      <4> USE DEF Covered
      <4>2. LeaseOver(local[p])
        BY <4>a, <4>b, Zenon DEF LeaseOver
      <4> QED
        BY <4>2
    <3>3. CASE p # t.prefix
      BY <1>2, <2>0, <3>1, <3>3 DEF Closes
    <3> QED
      BY <3>2, <3>3
  <2>6. ASSUME NEW t \in timers, Due(t, Queue), RunGiveUp(t) PROVE Covered(p)
    <3>1. /\ t.prefix \in Prefix /\ Closes(t.prefix) /\ RetryTimeout > 0
          /\ local[t.prefix].request.retriesLeft = 0 /\ t.uid = local[t.prefix].request.timer
          /\ t.at = now
      BY <2>0, <2>6, GiveUpEffect DEF Due
    <3>2. CASE p = t.prefix
      BY <3>1, <3>2 DEF RetriesExhausted
    <3>3. CASE p # t.prefix
      BY <1>2, <2>0, <3>1, <3>3 DEF Closes
    <3> QED
      BY <3>2, <3>3
  <2>7. ASSUME Tick PROVE Covered(p)
    BY <1>2, <2>7 DEF Tick, localVars
  <2> QED
    BY <1>3, <2>1, <2>2, <2>3, <2>4, <2>5, <2>6, <2>7 DEF Next, Run, RunTimer
<1>4. Inv /\ Inv' /\ [Next]_vars => [\A p \in Prefix : Covered(p)]_vars
  BY <1>3 DEF Inv, RouteInv
<1> QED
  BY <1>4, Invariance, PTL DEF Spec, MakeBeforeBreak

--------------------------------------------------------------------------------
(* The retry budget *)

\* What is below a finite set is no larger; one element more is one more.
LEMMA Shrinks ==
  ASSUME NEW S, IsFiniteSet(S), NEW T \in SUBSET S
  PROVE  /\ IsFiniteSet(T) /\ Cardinality(T) \in Nat /\ Cardinality(S) \in Nat
         /\ Cardinality(T) <= Cardinality(S)
BY FS_Subset, FS_CardinalityType

\* A set that grows by one element at most.
LEMMA Grows ==
  ASSUME NEW S, IsFiniteSet(S), NEW f, NEW T \in SUBSET (S \cup {f})
  PROVE  /\ IsFiniteSet(T) /\ Cardinality(T) \in Nat /\ Cardinality(S) \in Nat
         /\ Cardinality(T) <= Cardinality(S) + 1
<1>1. /\ IsFiniteSet(S \cup {f}) /\ Cardinality(S) \in Nat
      /\ Cardinality(S \cup {f}) = Cardinality(S) \/ Cardinality(S \cup {f}) = Cardinality(S) + 1
  BY FS_AddElement, FS_CardinalityType
<1>2. /\ IsFiniteSet(T) /\ Cardinality(T) \in Nat
      /\ Cardinality(T) <= Cardinality(S \cup {f})
  BY <1>1, Shrinks
<1> QED
  BY <1>1, <1>2

\* A call that is replaced by another one leaves no more calls.
LEMMA Swaps ==
  ASSUME NEW S, IsFiniteSet(S), NEW e \in S, NEW f, NEW T \in SUBSET ((S \ {e}) \cup {f})
  PROVE  /\ IsFiniteSet(T) /\ Cardinality(T) \in Nat /\ Cardinality(S) \in Nat
         /\ Cardinality(T) <= Cardinality(S)
<1>1. /\ IsFiniteSet(S \ {e}) /\ Cardinality(S) \in Nat /\ Cardinality(S \ {e}) \in Nat
      /\ Cardinality(S \ {e}) = Cardinality(S) - 1
  BY FS_RemoveElement, FS_CardinalityType
<1>2. /\ IsFiniteSet(T) /\ Cardinality(T) \in Nat
      /\ Cardinality(T) <= Cardinality(S \ {e}) + 1
  BY <1>1, Grows
<1> QED
  BY <1>1, <1>2

\* The calls in flight for the pending generation of p.
Flying(p) == {e \in inFlight : e.msg.prefix = p /\ e.msg.seq = local[p].seq}

\* The inductive invariant: the calls in flight are finitely many, and those of a pending
\* generation are within its budget.
BudgetInv == IsFiniteSet(inFlight) /\ CopiesWithinBudget

\* A transaction that is kept, while no more calls of its generation are in flight.
KeepsBudget(p) ==
    Pending(p)' => /\ Pending(p) /\ local'[p].seq = local[p].seq
                   /\ local'[p].request.retriesLeft = local[p].request.retriesLeft

\* The budget of one prefix.
WithinBudget(p) ==
    Pending(p) /\ RetryTimeout > 0 =>
        Cardinality(Flying(p)) + local[p].request.retriesLeft <= RetryLimit + 1

\* The budget, one prefix at a time.
LEMMA BudgetOf == CopiesWithinBudget <=> (GenerationGuard => \A p \in Prefix : WithinBudget(p))
BY DEF CopiesWithinBudget, WithinBudget, Flying

\* The retries that are left are a number.
LEMMA RetriesNat ==
  ASSUME TypeOK, NEW p \in Prefix
  PROVE  local[p].request.retriesLeft \in Nat
<1>1. local[p].request \in Request /\ RetryLimit \in Nat
  BY LocalAssumption DEF TypeOK, LocalTypeOK, Transaction
<1> QED
  BY <1>1 DEF Request, NoRequest

\* The calls of a kept generation are no more than before, so it stays within its budget.
LEMMA BudgetKept ==
  ASSUME TypeOK, BudgetInv, NEW p \in Prefix, WithinBudget(p), KeepsBudget(p),
         Pending(p)' => Cardinality(Flying(p)') \in Nat /\
                        Cardinality(Flying(p)') <= Cardinality(Flying(p)),
         Cardinality(Flying(p)) \in Nat
  PROVE  WithinBudget(p)'
<1> SUFFICES ASSUME Pending(p)', RetryTimeout > 0
             PROVE  Cardinality(Flying(p)') + local'[p].request.retriesLeft <= RetryLimit + 1
  BY DEF WithinBudget
<1>1. /\ Pending(p) /\ local'[p].request.retriesLeft = local[p].request.retriesLeft
      /\ local[p].request.retriesLeft \in Nat /\ RetryLimit \in Nat
  BY RetriesNat, LocalAssumption DEF KeepsBudget
<1>2. Cardinality(Flying(p)) + local[p].request.retriesLeft <= RetryLimit + 1
  BY <1>1 DEF WithinBudget
<1> QED
  BY <1>1, <1>2

\* A step that opens no transaction and spends no retry, and leaves the calls in flight or
\* replaces one of them by at most one call with the same message.
LEMMA BudgetPasses ==
  ASSUME TypeOK, BudgetInv, \A p \in Prefix : WithinBudget(p) /\ KeepsBudget(p),
         inFlight' = inFlight \/ \E e \in inFlight : Passes(e)
  PROVE  IsFiniteSet(inFlight') /\ \A p \in Prefix : WithinBudget(p)'
<1>0. IsFiniteSet(inFlight)
  BY DEF BudgetInv
<1>1. ASSUME NEW p \in Prefix
      PROVE  IsFiniteSet(Flying(p)) /\ Cardinality(Flying(p)) \in Nat
  <2>1. Flying(p) \in SUBSET inFlight
    BY DEF Flying
  <2> QED
    BY <1>0, <2>1, Shrinks
<1>2. ASSUME NEW p \in Prefix, Pending(p)'
      PROVE  Flying(p)' = {g \in inFlight' : g.msg.prefix = p /\ g.msg.seq = local[p].seq}
  BY <1>2 DEF Flying, KeepsBudget
<1>3. CASE inFlight' \in SUBSET inFlight
  <2>1. IsFiniteSet(inFlight')
    BY <1>0, <1>3, Shrinks
  <2>2. ASSUME NEW p \in Prefix PROVE WithinBudget(p)'
    <3>1. ASSUME Pending(p)' PROVE Flying(p)' \in SUBSET Flying(p)
      BY <1>2, <1>3, <3>1 DEF Flying
    <3>2. Pending(p)' => /\ Cardinality(Flying(p)') \in Nat
                         /\ Cardinality(Flying(p)') <= Cardinality(Flying(p))
      BY <1>1, <3>1, Shrinks
    <3> QED
      BY <1>1, <3>2, BudgetKept
  <2> QED
    BY <2>1, <2>2
<1>4. ASSUME NEW e \in inFlight, NEW f \in LegCall, f.msg = e.msg,
             inFlight' = (inFlight \ {e}) \cup {f}
      PROVE  IsFiniteSet(inFlight') /\ \A p \in Prefix : WithinBudget(p)'
  <2>1. IsFiniteSet(inFlight')
    <3>1. inFlight' \in SUBSET ((inFlight \ {e}) \cup {f})
      BY <1>4
    <3> QED
      BY <1>0, <3>1, Swaps
  <2>2. ASSUME NEW p \in Prefix PROVE WithinBudget(p)'
    <3>1. CASE e \in Flying(p)
      <4>1. ASSUME Pending(p)' PROVE Flying(p)' \in SUBSET ((Flying(p) \ {e}) \cup {f})
        BY <1>2, <1>4, <4>1 DEF Flying
      <4>2. Pending(p)' => /\ Cardinality(Flying(p)') \in Nat
                           /\ Cardinality(Flying(p)') <= Cardinality(Flying(p))
        BY <1>1, <3>1, <4>1, Swaps
      <4> QED
        BY <1>1, <4>2, BudgetKept
    <3>2. CASE e \notin Flying(p)
      <4>1. ASSUME Pending(p)' PROVE Flying(p)' \in SUBSET Flying(p)
        BY <1>2, <1>4, <3>2, <4>1 DEF Flying
      <4>2. Pending(p)' => /\ Cardinality(Flying(p)') \in Nat
                           /\ Cardinality(Flying(p)') <= Cardinality(Flying(p))
        BY <1>1, <4>1, Shrinks
      <4> QED
        BY <1>1, <4>2, BudgetKept
    <3> QED
      BY <3>1, <3>2
  <2> QED
    BY <2>1, <2>2
<1> QED
  BY <1>3, <1>4 DEF Passes

\* A step that sends one more call of m: the budget of m's transaction must leave room.
LEMMA BudgetSends ==
  ASSUME TypeOK, BudgetInv, NEW m \in Message, m.prefix \in Prefix,
         \A p \in Prefix : WithinBudget(p),
         \A p \in Prefix : p # m.prefix => KeepsBudget(p),
         inFlight' = inFlight \/ \E f \in LegCall : f.msg = m /\ inFlight' = inFlight \cup {f},
         /\ local'[m.prefix].request.retriesLeft \in Nat
         /\ \/ ~Pending(m.prefix)'
            \/ /\ Pending(m.prefix) /\ local'[m.prefix].seq = local[m.prefix].seq
               /\ local'[m.prefix].request.retriesLeft + 1 <= local[m.prefix].request.retriesLeft
            \/ /\ \A e \in inFlight : e.msg.prefix = m.prefix => e.msg.seq # local'[m.prefix].seq
               /\ local'[m.prefix].request.retriesLeft <= RetryLimit
  PROVE  IsFiniteSet(inFlight') /\ \A p \in Prefix : WithinBudget(p)'
<1>0. IsFiniteSet(inFlight) /\ RetryLimit \in Nat
  BY LocalAssumption DEF BudgetInv
<1>1. ASSUME NEW p \in Prefix
      PROVE  IsFiniteSet(Flying(p)) /\ Cardinality(Flying(p)) \in Nat
  <2>1. Flying(p) \in SUBSET inFlight
    BY DEF Flying
  <2> QED
    BY <1>0, <2>1, Shrinks
<1>2. PICK f : inFlight' \in SUBSET (inFlight \cup {f}) /\ (f \in inFlight' => f \in inFlight \/ f.msg = m)
  <2>1. CASE inFlight' = inFlight
    BY <2>1
  <2>2. CASE \E f \in LegCall : f.msg = m /\ inFlight' = inFlight \cup {f}
    BY <2>2
  <2> QED
    BY <2>1, <2>2
<1>3. IsFiniteSet(inFlight')
  BY <1>0, <1>2, Grows
<1>4. ASSUME NEW p \in Prefix, p # m.prefix PROVE WithinBudget(p)'
  <2>1. ASSUME Pending(p)' PROVE Flying(p)' \in SUBSET Flying(p)
    BY <1>2, <1>4, <2>1 DEF Flying, KeepsBudget
  <2>2. Pending(p)' => /\ Cardinality(Flying(p)') \in Nat
                       /\ Cardinality(Flying(p)') <= Cardinality(Flying(p))
    BY <1>1, <2>1, Shrinks
  <2> QED
    BY <1>1, <1>4, <2>2, BudgetKept
<1>5. WithinBudget(m.prefix)'
  <2> DEFINE p == m.prefix
  <2> SUFFICES ASSUME Pending(p)', RetryTimeout > 0
               PROVE  Cardinality(Flying(p)') + local'[p].request.retriesLeft <= RetryLimit + 1
    BY DEF WithinBudget
  <2>0. p \in Prefix /\ local'[p].request.retriesLeft \in Nat
    OBVIOUS
  <2>1. CASE /\ Pending(p) /\ local'[p].seq = local[p].seq
             /\ local'[p].request.retriesLeft + 1 <= local[p].request.retriesLeft
    <3>1. Flying(p)' \in SUBSET (Flying(p) \cup {f})
      BY <1>2, <2>1 DEF Flying
    <3>2. /\ Cardinality(Flying(p)') \in Nat
          /\ Cardinality(Flying(p)') <= Cardinality(Flying(p)) + 1
      BY <1>1, <3>1, Grows
    <3>3. /\ Cardinality(Flying(p)) + local[p].request.retriesLeft <= RetryLimit + 1
          /\ local[p].request.retriesLeft \in Nat
      BY <2>1, RetriesNat DEF WithinBudget
    <3> HIDE DEF p
    <3> QED
      BY <1>0, <1>1, <2>0, <2>1, <3>2, <3>3
  <2>2. CASE /\ \A e \in inFlight : e.msg.prefix = p => e.msg.seq # local'[p].seq
             /\ local'[p].request.retriesLeft <= RetryLimit
    <3>1. Flying(p)' \in SUBSET ({} \cup {f})
      BY <1>2, <2>2 DEF Flying
    <3>2. IsFiniteSet({}) /\ Cardinality({}) = 0
      BY FS_EmptySet
    <3>3. /\ Cardinality(Flying(p)') \in Nat
          /\ Cardinality(Flying(p)') <= 0 + 1
      BY <3>1, <3>2, Grows
    <3> HIDE DEF p
    <3> QED
      BY <1>0, <2>0, <2>2, <3>3
  <2> QED
    BY <2>1, <2>2
<1> QED
  BY <1>3, <1>4, <1>5

\* With the guard, every step keeps the copies within the budget: one case for each action.
LEMMA BudgetStep ==
  ASSUME Inv, TypeOK', GenerationGuard, BudgetInv, [Next]_vars
  PROVE  BudgetInv'
<1>0. /\ TypeOK /\ TimerInv /\ RouteInv /\ local \in [Prefix -> Transaction]
      /\ \A p \in Prefix : WithinBudget(p)
  BY BudgetOf DEF Inv, TypeOK, LocalTypeOK, BudgetInv
<1> SUFFICES IsFiniteSet(inFlight') /\ \A p \in Prefix : WithinBudget(p)'
  BY BudgetOf DEF BudgetInv, CopiesWithinBudget, WithinBudget, Flying
<1>1. ASSUME UNCHANGED local PROVE \A p \in Prefix : KeepsBudget(p)
  BY <1>1 DEF KeepsBudget, Pending
<1>2. ASSUME NEW q \in Prefix, Closes(q) PROVE \A p \in Prefix : KeepsBudget(p)
  BY <1>0, <1>2 DEF KeepsBudget, Pending, Closes, Idle
<1>3. ASSUME NEW p \in Prefix, NEW port \in Port, NEW seq \in Generation, NEW ttl \in Ttl,
             TraceUpdate(p, port, seq, ttl)
      PROVE  IsFiniteSet(inFlight') /\ \A q \in Prefix : WithinBudget(q)'
  <2>1. PICK m \in Message : m.prefix = p /\ Admits(m) /\ Taken(inFlight, m, FALSE)
    BY <1>0, <1>3, TraceUpdates, UpdateStep
  <2>2. inFlight' = inFlight \/ \E f \in LegCall : f.msg = m /\ inFlight' = inFlight \cup {f}
    BY <2>1 DEF Taken, GrowsBy
  <2>3. /\ local' = [local EXCEPT ![m.prefix] = NewTransaction(m)]
        /\ m.prefix \in Prefix /\ m.seq \in Nat
    BY <2>1, MessageFields DEF Admits, Opens
  <2>4. \A q \in Prefix : q # m.prefix => KeepsBudget(q)
    BY <1>0, <2>3 DEF KeepsBudget, Pending
  <2>5. ASSUME NEW e \in inFlight, e.msg.prefix = m.prefix PROVE e.msg.seq # m.seq
    <3>1. e.msg \in Message /\ e.msg.seq \in Nat
      BY <1>0, MessageFields DEF TypeOK, ControllerTypeOK, LegCall
    <3>2. e.msg \in Decisions(m.prefix)
      BY <2>5, <3>1 DEF Decisions, Known
    <3>3. e.msg.seq <= highestSeen[m.prefix] /\ highestSeen[m.prefix] < m.seq
      BY <1>0, <2>1, <2>3, <3>2 DEF RouteInv, DecisionInv, Admits
    <3> QED
      BY <1>0, <2>3, <3>1, <3>3, HighestInt
  <2>6. local'[m.prefix].seq = m.seq
    BY <1>0, <2>3 DEF NewTransaction
  <2>7. /\ local'[m.prefix].request.retriesLeft \in Nat
        /\ local'[m.prefix].request.retriesLeft <= RetryLimit
    <3>1. local'[m.prefix].request \in Request /\ RetryLimit \in Nat
      BY <2>3, LocalAssumption DEF TypeOK, LocalTypeOK, Transaction
    <3> QED
      BY <3>1 DEF Request, NoRequest
  <2> QED
    BY <1>0, <2>2, <2>3, <2>4, <2>5, <2>6, <2>7, BudgetSends
<1>4. ASSUME NEW e \in inFlight, RunLeg(e)
      PROVE  IsFiniteSet(inFlight') /\ \A q \in Prefix : WithinBudget(q)'
  <2>1. e.msg \in Message /\ Passes(e) /\ (Keeps \/ Completed(e.msg))
    BY <1>0, <1>4, LegStep
  <2>2. \A p \in Prefix : KeepsBudget(p)
    BY <1>1, <1>2, <2>1, MessageFields DEF Keeps, Completed
  <2> QED
    BY <1>0, <2>1, <2>2, BudgetPasses
<1>5. ASSUME NEW t \in timers, RunRetry(t)
      PROVE  IsFiniteSet(inFlight') /\ \A q \in Prefix : WithinBudget(q)'
  <2>1. PICK m \in Message :
        /\ t.prefix \in Prefix /\ m.prefix = t.prefix /\ Pending(t.prefix)
        /\ inFlight' = inFlight \/ \E f \in LegCall : f.msg = m /\ inFlight' = inFlight \cup {f}
        /\ Retries(t) \/ Completed(m)
    BY <1>0, <1>5, RetryStep
  <2>2. /\ local'[m.prefix].request.retriesLeft \in Nat
        /\ local[m.prefix].request.retriesLeft \in Nat
    <3>1. local'[m.prefix].request \in Request /\ RetryLimit \in Nat
      BY <2>1, LocalAssumption DEF TypeOK, LocalTypeOK, Transaction
    <3>2. local[m.prefix].request \in Request
      BY <1>0, <2>1 DEF TypeOK, LocalTypeOK, Transaction
    <3> QED
      BY <3>1, <3>2 DEF Request, NoRequest
  <2>3. CASE Completed(m)
    <3>1. ~Pending(m.prefix)' /\ \A p \in Prefix : KeepsBudget(p)
      BY <1>0, <1>2, <2>1, <2>3 DEF Completed, Closes, Pending, Idle
    <3> QED
      BY <1>0, <2>1, <2>2, <3>1, BudgetSends
  <2>4. CASE Retries(t)
    <3>1. local' = [local EXCEPT ![m.prefix] = Rearm(local[m.prefix])]
      BY <2>1, <2>4 DEF Retries
    <3>2. \A p \in Prefix : p # m.prefix => KeepsBudget(p)
      BY <1>0, <2>1, <3>1 DEF KeepsBudget, Pending
    <3>3. local[m.prefix] \in Transaction
      BY <1>0, <2>1
    <3>4. /\ Rearm(local[m.prefix]).seq = local[m.prefix].seq
          /\ Rearm(local[m.prefix]).request.retriesLeft = local[m.prefix].request.retriesLeft - 1
      BY <3>3 DEF Rearm, Transaction
    <3>5. /\ local'[m.prefix].seq = local[m.prefix].seq
          /\ local'[m.prefix].request.retriesLeft = local[m.prefix].request.retriesLeft - 1
      BY <1>0, <2>1, <3>1, <3>4
    <3>6. local'[m.prefix].request.retriesLeft + 1 <= local[m.prefix].request.retriesLeft
      BY <2>2, <3>5
    <3> QED
      BY <1>0, <2>1, <2>2, <3>2, <3>5, <3>6, BudgetSends
  <2> QED
    BY <2>1, <2>3, <2>4
<1>6. ASSUME NEW t \in timers, RunExpiry(t) \/ RunGiveUp(t)
      PROVE  IsFiniteSet(inFlight') /\ \A q \in Prefix : WithinBudget(q)'
  <2>1. t.prefix \in Prefix /\ Closes(t.prefix) /\ UNCHANGED controllerVars
    BY <1>0, <1>6, ExpiryEffect, GiveUpEffect
  <2> QED
    BY <1>0, <1>2, <2>1, BudgetPasses DEF controllerVars
<1>7. ASSUME (\E n \in Prefix : Lookup(n)) \/ Tick \/ UNCHANGED vars
      PROVE  IsFiniteSet(inFlight') /\ \A q \in Prefix : WithinBudget(q)'
  <2>1. UNCHANGED <<inFlight, local>>
    BY <1>7 DEF Lookup, Tick, vars, controllerVars, localVars
  <2> QED
    BY <1>0, <1>1, <2>1, BudgetPasses
<1> QED
  BY <1>3, <1>4, <1>5, <1>6, <1>7 DEF Next, Run, RunTimer

\* With the guard the retry budget bounds the traffic of a generation: however the legs
\* lose and delay, the copies of the pending generation that are in flight on the three
\* legs and the retries it has left are together never more than RetryLimit + 1.
THEOREM RetriesBoundCopies == Spec => []CopiesWithinBudget
<1>1. Init => BudgetInv
  <2> SUFFICES ASSUME Init PROVE BudgetInv
    OBVIOUS
  <2>1. inFlight = {} /\ \A p \in Prefix : ~Pending(p)
    BY DEF Init, ControllerInit, LocalInit, Pending, Idle
  <2> QED
    BY <2>1, FS_EmptySet DEF BudgetInv, CopiesWithinBudget
<1>2. (GenerationGuard => BudgetInv) /\ Inv /\ Inv' /\ [Next]_vars => (GenerationGuard => BudgetInv)'
  BY BudgetStep DEF Inv
<1>3. (GenerationGuard => BudgetInv) => CopiesWithinBudget
  BY DEF BudgetInv, CopiesWithinBudget
<1> QED
  BY <1>1, <1>2, <1>3, Invariance, PTL DEF Spec

--------------------------------------------------------------------------------
(* RouteControl implements RouteTransaction, for every delay, loss, lease and retry limit:
   each action of the control plane is an action of the transactions, or leaves them alone. *)

USE DEF Transactions!NoSeq, Transactions!NoLease

\* The transactions that a state of the control plane amounts to.
pendingBar == [p \in Prefix |-> local[p].request.msg]
budgetBar == [p \in Prefix |-> local[p].request.retriesLeft]
requestedBar == [p \in Prefix |-> {e.msg : e \in {f \in OpenRequests : f.msg.prefix = p}}]
installedBar == [p \in Prefix |-> flowFib[FlowKey[p]]]

\* Both specifications speak of the same messages and deadlines.
LEMMA SameMessages ==
  /\ Transactions!NoMessage = NoMessage
  /\ \A m, t : Transactions!IsExpiredAt(m, t) <=> IsExpiredAt(m, t)
BY DEF Transactions!NoMessage, NoMessage, Transactions!IsExpiredAt, IsExpiredAt

\* An open request for p is a message about p on a request leg.
LEMMA Requested ==
  ASSUME NEW p \in Prefix, NEW m
  PROVE  m \in requestedBar[p] <=>
            \E e \in inFlight : e.call \in RequestLegs /\ e.msg.prefix = p /\ m = e.msg
BY DEF requestedBar, OpenRequests

\* The same after a step.
LEMMA RequestedNext ==
  ASSUME NEW p \in Prefix, NEW m
  PROVE  m \in requestedBar'[p] <=>
            \E e \in inFlight' : e.call \in RequestLegs /\ e.msg.prefix = p /\ m = e.msg
BY DEF requestedBar, OpenRequests

\* Requests that may be lost, and new ones, for one prefix.
LEMMA RequestsOf ==
  ASSUME NEW p \in Prefix, NEW new,
         \A q \in Prefix : q # p => requestedBar'[q] = requestedBar[q],
         requestedBar'[p] \subseteq requestedBar[p] \cup new
  PROVE  Transactions!Requests(p, new)
<1>1. requestedBar'[p] \in SUBSET (requestedBar[p] \cup new)
  OBVIOUS
<1>2. requestedBar' = [requestedBar EXCEPT ![p] = requestedBar'[p]]
  <2>1. /\ requestedBar = [q \in Prefix |-> requestedBar[q]]
        /\ requestedBar' = [q \in Prefix |-> requestedBar'[q]]
    BY DEF requestedBar
  <2> QED
    BY <2>1
<1>3. \E left \in SUBSET (requestedBar[p] \cup new) : requestedBar' = [requestedBar EXCEPT ![p] = left]
  BY <1>1, <1>2
<1> QED
  BY <1>3, Zenon DEF Transactions!Requests, requestedBar

\* A call that passes its message on makes no request and may lose its own.
LEMMA PassesRequests ==
  ASSUME TypeOK, NEW e \in inFlight, Passes(e), e.msg.prefix \in Prefix
  PROVE  Transactions!Requests(e.msg.prefix, {})
<1>0. e.call \in {"acceptControl", "attemptFlowMod", "deliverSyncAck"}
  BY DEF TypeOK, ControllerTypeOK, LegCall
<1>1. ASSUME NEW q \in Prefix, q # e.msg.prefix PROVE requestedBar'[q] = requestedBar[q]
  <2> SUFFICES ASSUME NEW m PROVE m \in requestedBar'[q] <=> m \in requestedBar[q]
    <3>1. \A m : m \in requestedBar'[q] <=> m \in requestedBar[q]
      OBVIOUS
    <3> QED
      BY <3>1
  <2>1. \A g : g.msg.prefix = q => (g \in inFlight' <=> g \in inFlight)
    BY <1>1 DEF Passes
  <2>2. (\E g \in inFlight' : g.call \in RequestLegs /\ g.msg.prefix = q /\ m = g.msg)
          <=> (\E g \in inFlight : g.call \in RequestLegs /\ g.msg.prefix = q /\ m = g.msg)
    BY <2>1, Zenon
  <2> QED
    BY <2>2, Requested, RequestedNext
<1>2. ASSUME NEW m \in requestedBar'[e.msg.prefix] PROVE m \in requestedBar[e.msg.prefix]
  <2>1. PICK g \in inFlight' : g.call \in RequestLegs /\ g.msg.prefix = e.msg.prefix /\ m = g.msg
    BY <1>2, RequestedNext
  <2>2. g \in inFlight \/ (g.msg = e.msg /\ e.call = "acceptControl")
    BY <2>1 DEF Passes, RequestLegs
  <2>3. CASE g \in inFlight
    BY <2>1, <2>3, Requested
  <2>4. CASE g.msg = e.msg /\ e.call = "acceptControl"
    <3>1. e.call \in RequestLegs /\ m = e.msg
      BY <2>1, <2>4 DEF RequestLegs
    <3> QED
      BY <3>1, Requested
  <2> QED
    BY <2>2, <2>3, <2>4
<1>3. requestedBar'[e.msg.prefix] \subseteq requestedBar[e.msg.prefix] \cup {}
  BY <1>2
<1> QED
  BY <1>1, <1>3, RequestsOf

\* A call that is sent makes at most a request of its own message; a notice makes none.
LEMMA SendsRequests ==
  ASSUME NEW m \in Message, m.prefix \in Prefix,
         inFlight' = inFlight \/ \E f \in LegCall : f.msg = m /\ inFlight' = inFlight \cup {f}
  PROVE  /\ Transactions!Requests(m.prefix, {m})
         /\ (\A f \in inFlight' : f \in inFlight \/ f.call = "deliverSyncAck")
              => Transactions!Requests(m.prefix, {})
<1>1. ASSUME NEW q \in Prefix, q # m.prefix PROVE requestedBar'[q] = requestedBar[q]
  <2> SUFFICES ASSUME NEW n PROVE n \in requestedBar'[q] <=> n \in requestedBar[q]
    <3>1. \A n : n \in requestedBar'[q] <=> n \in requestedBar[q]
      OBVIOUS
    <3> QED
      BY <3>1
  <2>1. \A g : g.msg.prefix = q => (g \in inFlight' <=> g \in inFlight)
    BY <1>1
  <2>2. (\E g \in inFlight' : g.call \in RequestLegs /\ g.msg.prefix = q /\ n = g.msg)
          <=> (\E g \in inFlight : g.call \in RequestLegs /\ g.msg.prefix = q /\ n = g.msg)
    BY <2>1, Zenon
  <2> QED
    BY <2>2, Requested, RequestedNext
<1>2. ASSUME NEW n \in requestedBar'[m.prefix]
      PROVE  /\ n \in requestedBar[m.prefix] \cup {m}
             /\ (\A f \in inFlight' : f \in inFlight \/ f.call = "deliverSyncAck")
                  => n \in requestedBar[m.prefix] \cup {}
  <2>1. PICK g \in inFlight' : g.call \in RequestLegs /\ g.msg.prefix = m.prefix /\ n = g.msg
    BY <1>2, RequestedNext
  <2>2. CASE g \in inFlight
    BY <2>1, <2>2, Requested
  <2>3. CASE g \notin inFlight
    BY <2>1, <2>3 DEF RequestLegs
  <2> QED
    BY <2>2, <2>3
<1>3. Transactions!Requests(m.prefix, {m})
  <2>1. requestedBar'[m.prefix] \subseteq requestedBar[m.prefix] \cup {m}
    BY <1>2
  <2> QED
    BY <1>1, <2>1, RequestsOf
<1>4. ASSUME \A f \in inFlight' : f \in inFlight \/ f.call = "deliverSyncAck"
      PROVE  Transactions!Requests(m.prefix, {})
  <2>1. requestedBar'[m.prefix] \subseteq requestedBar[m.prefix] \cup {}
    BY <1>2, <1>4
  <2> QED
    BY <1>1, <2>1, RequestsOf
<1> QED
  BY <1>3, <1>4

\* Closing a transaction of the control plane is closing it.
LEMMA ClosesBar ==
  ASSUME TypeOK, NEW p \in Prefix, Closes(p)
  PROVE  Transactions!Close(p)
<1>1. local \in [Prefix -> Transaction] /\ local' = [local EXCEPT ![p] = Idle]
  BY DEF TypeOK, LocalTypeOK, Closes
<1>2. Idle.request.msg = NoMessage /\ Idle.request.retriesLeft = 0
  BY DEF Idle, NoRequest
<1>3. pendingBar' = [pendingBar EXCEPT ![p] = NoMessage] /\ budgetBar' = [budgetBar EXCEPT ![p] = 0]
  BY <1>1, <1>2 DEF pendingBar, budgetBar
<1> QED
  BY <1>3, SameMessages, Zenon DEF Transactions!Close, pendingBar, budgetBar

\* A transaction is open exactly when a generation is pending.
LEMMA OpenIsPending ==
  ASSUME TypeOK, TimerInv, RetryTimeout > 0, NEW p \in Prefix
  PROVE  /\ Transactions!Open(p) <=> Pending(p)
         /\ Pending(p) => local[p].request.msg \in Message
<1>1. Transactions!Open(p) <=> local[p].request.msg # NoMessage
  BY SameMessages DEF Transactions!Open
<1>2. ASSUME Pending(p) PROVE local[p].request.msg # NoMessage /\ local[p].request.msg \in Message
  <2>1. local[p].request.msg.seq = local[p].seq /\ local[p].seq # -1
    BY <1>2 DEF TimerInv, Pending
  <2>2. local[p].request.msg # NoMessage
    BY <2>1 DEF NoMessage
  <2>3. local[p].request # NoRequest
    BY <2>2 DEF NoRequest
  <2> QED
    BY <2>2, <2>3 DEF TypeOK, LocalTypeOK, Transaction, Request
<1>3. ASSUME ~Pending(p) PROVE local[p].request.msg = NoMessage
  BY <1>3 DEF TimerInv, Idle, NoRequest
<1> QED
  BY <1>1, <1>2, <1>3

--------------------------------------------------------------------------------
(* The steps *)

\* What the refinement needs of a reachable state.
Base == /\ OwnMatch /\ GenerationGuard /\ RetryTimeout > 0
        /\ TypeOK /\ TimerInv /\ RouteInv

\* A step that installs nothing leaves what is installed.
LEMMA SameInstalled ==
  ASSUME UNCHANGED flowFib
  PROVE  installedBar' = installedBar
BY DEF installedBar

\* The FlowMod e changes what is installed for its prefix, and for no other.
LEMMA InstallsBar ==
  ASSUME Base, NEW e \in inFlight, Installs(e), e.msg \in Message
  PROVE  /\ installedBar' = [installedBar EXCEPT ![e.msg.prefix] = e.msg]
         /\ e.msg \in requestedBar[e.msg.prefix]
         /\ e.msg.seq > installedBar[e.msg.prefix].seq
         /\ ~IsExpiredAt(e.msg, now)
<1>0. /\ e.msg.prefix \in Prefix /\ e.msg.seq \in Nat
      /\ flowFib \in [Key -> Message \cup {NoMessage}]
      /\ \A p \in Prefix : FlowKey[p] \in Key
      /\ ControllerTypeOK
  BY MessageFields DEF Base, TypeOK, Key
<1>1. \A p \in Prefix : FlowKey[p] = FlowKey[e.msg.prefix] => p = e.msg.prefix
  BY <1>0 DEF Base, OwnMatch
<1>2. flowFib' = [flowFib EXCEPT ![FlowKey[e.msg.prefix]] = e.msg]
  BY DEF Installs, InstallFibEntry
<1>3. installedBar' = [installedBar EXCEPT ![e.msg.prefix] = e.msg]
  BY <1>0, <1>1, <1>2 DEF installedBar
<1>4. e.msg \in requestedBar[e.msg.prefix]
  <2>1. e.call \in RequestLegs
    BY DEF Installs, RequestLegs
  <2> QED
    BY <1>0, <2>1, Requested
<1>5. installedBar[e.msg.prefix] = prefixState[e.msg.prefix].applied
  BY <1>0 DEF installedBar, Base, RouteInv, FibInv
<1>6. e.msg.seq > installedBar[e.msg.prefix].seq /\ ~IsExpiredAt(e.msg, now)
  <2>1. prefixState[e.msg.prefix].applied.seq \in Int
    BY <1>0, RecordFields DEF Base
  <2> QED
    BY <1>0, <1>5, <2>1 DEF Installs
<1> QED
  BY <1>3, <1>4, <1>6

\* The notice m completes the transaction whose request is m.
LEMMA CompletesOwn ==
  ASSUME Base, NEW m \in Message, Completed(m), Carries(m)
  PROVE  /\ m.prefix \in Prefix /\ Pending(m.prefix)
         /\ local[m.prefix].request.msg = m /\ ~IsExpiredAt(m, now)
<1>1. m.prefix \in Prefix
  BY MessageFields
<1> DEFINE p == m.prefix
           r == local[p].request.msg
<1>2. /\ Pending(p) /\ local[p].seq = m.seq
      /\ local[p].expiry = NoLease \/ now < local[p].expiry
      /\ m.expiry = local[p].expiry
  BY DEF Base, Completed, Completes, Pending
<1>3. r \in Message /\ r.prefix = p /\ r.seq = local[p].seq
  BY <1>1, <1>2, OpenIsPending DEF Base, RouteInv, DecisionInv, TimerInv
<1>4. r \in Decisions(p) /\ m \in Decisions(p)
  BY <1>3 DEF Decisions, Known, Carries
<1>5. r = m
  BY <1>1, <1>2, <1>3, <1>4 DEF Base, RouteInv, DecisionInv
<1>6. ~IsExpiredAt(m, now)
  <2>1. m.expiry \in Nat /\ now \in Nat
    BY DEF Message, Base, TypeOK
  <2> QED
    BY <1>2, <2>1 DEF IsExpiredAt
<1> QED
  BY <1>1, <1>2, <1>5, <1>6

\* A trace update admits a transaction.
LEMMA UpdateAdmits ==
  ASSUME Base, NEW p \in Prefix, NEW port \in Port, NEW seq \in Generation, NEW ttl \in Ttl,
         TraceUpdate(p, port, seq, ttl)
  PROVE  Transactions!TransactionNext
<1>a. TypeOK /\ TimerInv /\ GenerationGuard /\ RouteInv
  BY DEF Base
<1>0. local \in [Prefix -> Transaction] /\ highestSeen \in [Prefix -> Generation \cup {NoSeq}]
  BY <1>a DEF TypeOK, LocalTypeOK
<1>1. PICK m \in Message :
            /\ m = [prefix |-> p, seq |-> seq, port |-> port, expiry |-> RouteExpiry(ttl)]
            /\ ValidTtl(ttl) /\ m.prefix = p /\ m.seq = seq
            /\ Admits(m) /\ Taken(inFlight, m, FALSE)
  <2>1. PICK m \in Message : /\ IsUpdate(m, p, port, seq, ttl)
                             /\ Admits(m) /\ Taken(inFlight, m, FALSE)
    BY <1>a, TraceUpdates, UpdateStep
  <2>2. m = [prefix |-> p, seq |-> seq, port |-> port, expiry |-> RouteExpiry(ttl)] /\ ValidTtl(ttl)
    BY <2>1 DEF IsUpdate
  <2> QED
    BY <2>1, <2>2
<1> DEFINE lease == Lifetime(ttl)
<1>2. /\ ValidTtl(ttl) /\ lease \in Nat
      /\ lease \in {Lifetime(t) : t \in {u \in Ttl : ValidTtl(u)}}
  <2>1. ttl \in Nat /\ EntryLifetime \in Nat
    BY RouteAssumption, LocalAssumption
  <2>2. ValidTtl(ttl)
    BY <1>1
  <2> QED
    BY <2>1, <2>2 DEF Lifetime
<1>3. m = [prefix |-> p, seq |-> seq, port |-> port, expiry |-> Transactions!Deadline(lease)]
  <2>1. Transactions!Deadline(lease) = RouteExpiry(ttl)
    BY <1>2 DEF Transactions!Deadline, RouteExpiry
  <2> QED
    BY <1>1, <2>1
<1>4. Transactions!Requests(p, {m})
  <2>1. inFlight' = inFlight \/ \E f \in LegCall : f.msg = m /\ inFlight' = inFlight \cup {f}
    BY <1>1 DEF Taken, GrowsBy
  <2> QED
    BY <1>1, <2>1, SendsRequests
<1>5. /\ local' = [local EXCEPT ![p] = NewTransaction(m)] /\ now' = now
      /\ NewTransaction(m).request = [msg |-> m, retriesLeft |-> RetryLimit, timer |-> RetryUid]
  BY <1>1 DEF Admits, Opens, NewTransaction, NewRequest, Base
<1>6. /\ pendingBar' = [pendingBar EXCEPT ![p] = m]
      /\ budgetBar' = [budgetBar EXCEPT ![p] = RetryLimit]
  <2>1. local'[p].request.msg = m /\ local'[p].request.retriesLeft = RetryLimit
    BY <1>0, <1>5
  <2>2. \A q \in Prefix : q # p => local'[q] = local[q]
    BY <1>0, <1>5
  <2> QED
    BY <2>1, <2>2 DEF pendingBar, budgetBar
<1>7. installedBar' = installedBar
  BY <1>1, SameInstalled DEF Admits
<1>8. seq > highestSeen[p] /\ highestSeen' = [highestSeen EXCEPT ![p] = seq]
  <2>1. highestSeen[p] < m.seq /\ seq \in Nat /\ highestSeen[p] \in Int
    BY <1>1, HighestInt, GenerationAssumption DEF Admits, Base
  <2> QED
    BY <1>1, <2>1 DEF Admits
<1>9. Transactions!Admit(p, port, seq, lease)
  <2> DEFINE n == [prefix |-> p, seq |-> seq, port |-> port, expiry |-> Transactions!Deadline(lease)]
  <2>0. m = n
    BY <1>3
  <2> HIDE DEF n
  <2>1. PICK left \in SUBSET (requestedBar[p] \cup {m}) :
              requestedBar' = [requestedBar EXCEPT ![p] = left]
    BY <1>4, Zenon DEF Transactions!Requests, requestedBar
  <2>2. left \in SUBSET (requestedBar[p] \cup {n}) /\ pendingBar' = [pendingBar EXCEPT ![p] = n]
    BY <1>6, <2>0
  <2>3. Transactions!Requests(p, {n})
    BY <2>1, <2>2, Zenon DEF Transactions!Requests, requestedBar
  <2> USE DEF n
  <2> QED
    BY <1>5, <1>6, <1>7, <1>8, <2>2, <2>3, Zenon
       DEF Transactions!Admit, pendingBar, budgetBar, installedBar
<1> HIDE DEF lease
<1> QED
  BY <1>2, <1>9, Zenon DEF Transactions!TransactionNext

\* A call of the flow-table controller loses a request, installs one, or completes the
\* transaction whose route is installed.
LEMMA LegTransacts ==
  ASSUME Base, NEW e \in inFlight, RunLeg(e)
  PROVE  Transactions!TransactionNext
<1>a. TypeOK /\ TimerInv /\ GenerationGuard /\ RouteInv
  BY DEF Base
<1>0. /\ e.msg \in Message /\ UNCHANGED <<now, highestSeen>> /\ Carries(e.msg) /\ Passes(e)
      /\ AppliesNothing \/ Installs(e)
      /\ Keeps \/ Completed(e.msg)
  BY <1>a, LegStep
<1>1. PICK p, m : p = e.msg.prefix /\ m = e.msg
  OBVIOUS
<1>2. m \in Message /\ p \in Prefix
  BY <1>0, <1>1, MessageFields
<1>3. Transactions!Requests(p, {})
  <2>1. Transactions!Requests(e.msg.prefix, {})
    BY <1>a, <1>0, <1>1, <1>2, PassesRequests
  <2>2. PICK left \in SUBSET (requestedBar[e.msg.prefix] \cup {}) :
              requestedBar' = [requestedBar EXCEPT ![e.msg.prefix] = left]
    BY <2>1, Zenon DEF Transactions!Requests, requestedBar
  <2>3. /\ left \in SUBSET (requestedBar[p] \cup {})
        /\ requestedBar' = [requestedBar EXCEPT ![p] = left]
    BY <1>1, <2>2
  <2> QED
    BY <2>3, Zenon DEF Transactions!Requests, requestedBar
<1>4. CASE Installs(e)
  <2>1. /\ installedBar' = [installedBar EXCEPT ![p] = m]
        /\ m \in requestedBar[p] /\ m.seq > installedBar[p].seq
        /\ ~Transactions!IsExpiredAt(m, now)
    BY <1>0, <1>1, <1>4, InstallsBar, SameMessages
  <2>2. \/ pendingBar' = pendingBar /\ budgetBar' = budgetBar
        \/ pendingBar[p] = m /\ Transactions!Close(p)
    <3>1. CASE Keeps
      BY <3>1 DEF Keeps, pendingBar, budgetBar
    <3>2. CASE Completed(e.msg)
      <4>1. local[p].request.msg = m
        BY <1>0, <1>1, <3>2, CompletesOwn
      <4>2. Closes(p)
        BY <1>1, <3>2 DEF Completed
      <4> QED
        BY <1>a, <1>2, <4>1, <4>2, ClosesBar DEF pendingBar
    <3> QED
      BY <1>0, <3>1, <3>2
  <2>3. UNCHANGED now /\ UNCHANGED highestSeen
    BY <1>0
  <2>4. Transactions!Install(p, m)
    BY <1>3, <2>1, <2>2, <2>3, Zenon
       DEF Transactions!Install, pendingBar, budgetBar, requestedBar, installedBar
  <2> QED
    BY <1>2, <2>1, <2>4, Zenon DEF Transactions!TransactionNext, requestedBar
<1>5. CASE AppliesNothing
  <2>1. installedBar' = installedBar /\ UNCHANGED now /\ UNCHANGED highestSeen
    BY <1>0, <1>5, SameInstalled DEF AppliesNothing
  <2>2. CASE Keeps
    <3>1. pendingBar' = pendingBar /\ budgetBar' = budgetBar
      BY <2>2 DEF Keeps, pendingBar, budgetBar
    <3>2. Transactions!Lose(p)
      BY <1>3, <2>1, <3>1, Zenon DEF Transactions!Lose, pendingBar, budgetBar, installedBar
    <3> QED
      BY <1>2, <3>2, Zenon DEF Transactions!TransactionNext
  <2>3. CASE Completed(e.msg)
    <3>1. Pending(p) /\ local[p].request.msg = m /\ ~Transactions!IsExpiredAt(m, now)
      BY <1>0, <1>1, <2>3, CompletesOwn, SameMessages
    <3>2. prefixState[p].applied = m /\ Closes(p)
      BY <1>1, <1>2, <1>5, <2>3 DEF Completed, AppliesNothing
    <3>3. pendingBar[p] = m /\ installedBar[p] = m
      BY <1>2, <3>1, <3>2 DEF pendingBar, installedBar, Base, RouteInv, FibInv
    <3>4. pendingBar[p] = installedBar[p] /\ ~Transactions!IsExpiredAt(pendingBar[p], now)
      <4>1. ~IsExpiredAt(pendingBar[p], now)
        BY <3>1, <3>3, SameMessages
      <4> QED
        BY <3>3, <4>1, SameMessages
    <3>5. Transactions!Open(p) /\ Transactions!Close(p)
      <4>1. RetryTimeout > 0
        BY DEF Base
      <4> QED
        BY <1>a, <1>2, <3>1, <3>2, <4>1, OpenIsPending, ClosesBar
    <3>6. Transactions!Complete(p)
      BY <1>3, <2>1, <3>4, <3>5, Zenon DEF Transactions!Complete, pendingBar, installedBar
    <3> QED
      BY <1>2, <3>6, Zenon DEF Transactions!TransactionNext
  <2> QED
    BY <1>0, <2>2, <2>3
<1> QED
  BY <1>0, <1>4, <1>5

\* A retry timer retries the transaction, or completes it when the notice comes back at once.
LEMMA RetryTransacts ==
  ASSUME Base, NEW t \in timers, RunRetry(t)
  PROVE  Transactions!TransactionNext
<1>a. /\ TypeOK /\ TimerInv /\ GenerationGuard /\ RouteInv /\ RetryTimeout > 0
      /\ local \in [Prefix -> Transaction]
  BY DEF Base, TypeOK, LocalTypeOK
<1>0. PICK p, m :
         /\ p = t.prefix /\ m = local[p].request.msg
         /\ p \in Prefix /\ Pending(p) /\ m \in Message /\ m.prefix = p
         /\ UNCHANGED <<now, highestSeen>> /\ AppliesNothing /\ Carries(m)
         /\ inFlight' = inFlight \/ \E f \in LegCall : f.msg = m /\ inFlight' = inFlight \cup {f}
         /\ \/ Retries(t)
            \/ /\ Completed(m)
               /\ \A f \in inFlight' : f \in inFlight \/ f.call = "deliverSyncAck"
  BY <1>a, RetryStep
<1>1. installedBar' = installedBar /\ UNCHANGED now /\ UNCHANGED highestSeen
  BY <1>0, SameInstalled DEF AppliesNothing
<1>2. pendingBar[p] = m /\ Transactions!Open(p)
  BY <1>a, <1>0, OpenIsPending DEF pendingBar
<1>3. CASE Retries(t)
  <2>1. /\ local' = [local EXCEPT ![p] = Rearm(local[p])] /\ local[p].request.retriesLeft > 0
    BY <1>0, <1>3 DEF Retries
  <2>2. local[p] \in Transaction /\ local[p].request.retriesLeft \in Nat
    BY <1>a, <1>0, RetriesNat
  <2>3. /\ Rearm(local[p]).request.msg = m
        /\ Rearm(local[p]).request.retriesLeft = local[p].request.retriesLeft - 1
    BY <1>0, <2>2 DEF Rearm, Transaction
  <2>4. /\ local'[p].request.msg = local[p].request.msg
        /\ local'[p].request.retriesLeft = local[p].request.retriesLeft - 1
        /\ \A q \in Prefix : q # p => local'[q] = local[q]
    BY <1>a, <1>0, <2>1, <2>3
  <2>5. pendingBar' = pendingBar
    BY <2>4 DEF pendingBar
  <2>6. budgetBar' = [budgetBar EXCEPT ![p] = budgetBar[p] - 1]
    BY <1>0, <2>4 DEF budgetBar
  <2>7. budgetBar[p] > 0
    BY <1>0, <2>1 DEF budgetBar
  <2>8. Transactions!Requests(p, {pendingBar[p]})
    <3>1. Transactions!Requests(m.prefix, {m})
      BY <1>0, SendsRequests
    <3>2. PICK left \in SUBSET (requestedBar[m.prefix] \cup {m}) :
                requestedBar' = [requestedBar EXCEPT ![m.prefix] = left]
      BY <3>1, Zenon DEF Transactions!Requests, requestedBar
    <3>3. /\ left \in SUBSET (requestedBar[p] \cup {pendingBar[p]})
          /\ requestedBar' = [requestedBar EXCEPT ![p] = left]
      BY <1>0, <1>2, <3>2
    <3> QED
      BY <3>3, Zenon DEF Transactions!Requests, requestedBar
  <2>9. Transactions!Retry(p)
    BY <1>1, <1>2, <2>5, <2>6, <2>7, <2>8, Zenon
       DEF Transactions!Retry, pendingBar, budgetBar, installedBar
  <2> QED
    BY <1>0, <2>9, Zenon DEF Transactions!TransactionNext
<1>4. CASE /\ Completed(m)
           /\ \A f \in inFlight' : f \in inFlight \/ f.call = "deliverSyncAck"
  <2>1. ~IsExpiredAt(m, now)
    BY <1>0, <1>4, CompletesOwn
  <2>2. prefixState[p].applied = m /\ Closes(p)
    BY <1>0, <1>4 DEF Completed, AppliesNothing
  <2>3. installedBar[p] = m
    BY <1>0, <2>2 DEF installedBar, Base, RouteInv, FibInv
  <2>4. pendingBar[p] = installedBar[p] /\ ~Transactions!IsExpiredAt(pendingBar[p], now)
    <3>1. ~IsExpiredAt(pendingBar[p], now)
      BY <1>2, <2>1
    <3> QED
      BY <1>2, <2>3, <3>1, SameMessages
  <2>5. Transactions!Close(p)
    BY <1>a, <1>0, <2>2, ClosesBar
  <2>6. Transactions!Requests(p, {})
    <3>1. Transactions!Requests(m.prefix, {})
      BY <1>0, <1>4, SendsRequests
    <3>2. PICK left \in SUBSET (requestedBar[m.prefix] \cup {}) :
                requestedBar' = [requestedBar EXCEPT ![m.prefix] = left]
      BY <3>1, Zenon DEF Transactions!Requests, requestedBar
    <3>3. /\ left \in SUBSET (requestedBar[p] \cup {})
          /\ requestedBar' = [requestedBar EXCEPT ![p] = left]
      BY <1>0, <3>2
    <3> QED
      BY <3>3, Zenon DEF Transactions!Requests, requestedBar
  <2>7. Transactions!Complete(p)
    BY <1>1, <1>2, <2>4, <2>5, <2>6, Zenon DEF Transactions!Complete, pendingBar, installedBar
  <2> QED
    BY <1>0, <2>7, Zenon DEF Transactions!TransactionNext
<1> QED
  BY <1>0, <1>3, <1>4

\* The lifetime timer and the last retry timer end a transaction for their own reason.
LEMMA TimerTransacts ==
  ASSUME Base, NEW t \in timers, t.at = now, RunExpiry(t) \/ RunGiveUp(t)
  PROVE  Transactions!TransactionNext
<1>a. TypeOK /\ TimerInv /\ RouteInv /\ RetryTimeout > 0 /\ now \in Nat
  BY DEF Base, TypeOK
<1>0. PICK p :
         /\ p = t.prefix /\ p \in Prefix /\ Closes(p) /\ Pending(p)
         /\ UNCHANGED <<controllerVars, highestSeen, flowFib>>
         /\ \/ t.at = local[p].expiry /\ local[p].expiry # NoLease
            \/ local[p].request.retriesLeft = 0
  BY <1>a, ExpiryEffect, GiveUpEffect
<1>1. /\ installedBar' = installedBar /\ UNCHANGED now /\ UNCHANGED highestSeen
      /\ requestedBar' = requestedBar
  BY <1>0, SameInstalled DEF Closes, controllerVars, requestedBar, OpenRequests
<1>2. Transactions!Open(p) /\ Transactions!Close(p)
  BY <1>a, <1>0, OpenIsPending, ClosesBar
<1>3. CASE t.at = local[p].expiry /\ local[p].expiry # NoLease
  <2>1. local[p].request.msg.expiry = local[p].expiry
    BY <1>a, <1>0 DEF RouteInv, DecisionInv
  <2>2. pendingBar[p].expiry # NoLease /\ pendingBar[p].expiry = now
    BY <1>0, <1>3, <2>1 DEF pendingBar
  <2>3. IsExpiredAt(pendingBar[p], now)
    BY <1>a, <2>2 DEF IsExpiredAt
  <2>4. Transactions!IsExpiredAt(pendingBar[p], now)
    BY <2>3, SameMessages
  <2>5. Transactions!Expire(p)
    BY <1>1, <1>2, <2>4, Zenon
       DEF Transactions!Expire, pendingBar, requestedBar, installedBar
  <2> QED
    BY <1>0, <2>5, Zenon DEF Transactions!TransactionNext
<1>4. CASE local[p].request.retriesLeft = 0
  <2>1. budgetBar[p] = 0
    BY <1>0, <1>4 DEF budgetBar
  <2>2. Transactions!Abandon(p)
    BY <1>1, <1>2, <2>1, Zenon
       DEF Transactions!Abandon, budgetBar, requestedBar, installedBar
  <2> QED
    BY <1>0, <2>2, Zenon DEF Transactions!TransactionNext
<1> QED
  BY <1>0, <1>3, <1>4

\* The clock moves on only when no transaction is at its deadline: its lifetime timer would
\* have to run first.
LEMMA TickTransacts ==
  ASSUME Base, Tick
  PROVE  Transactions!TransactionNext
<1>a. TypeOK /\ TimerInv /\ RouteInv /\ RetryTimeout > 0 /\ now \in Nat
  BY DEF Base, TypeOK
<1>1. ASSUME NEW p \in Prefix, Transactions!Open(p)
      PROVE  ~Transactions!IsExpiredAt(pendingBar[p], now)
  <2>1. Pending(p) /\ local[p].request.msg.expiry = local[p].expiry
    BY <1>a, <1>1, OpenIsPending DEF RouteInv, DecisionInv
  <2>2. CASE local[p].expiry = NoLease
    <3>1. ~IsExpiredAt(pendingBar[p], now)
      BY <2>1, <2>2 DEF IsExpiredAt, pendingBar
    <3> QED
      BY <3>1, SameMessages
  <2>3. CASE local[p].expiry # NoLease
    <3>1. PICK t \in timers : /\ t.uid = local[p].lifetimeTimer /\ t.prefix = p
                              /\ t.call = "expireEntryBySeq"
      BY <1>a, <2>1, <2>3 DEF TimerInv, Armed
    <3>2. t.at = local[p].expiry /\ t.at >= now /\ t.at \in Nat
      BY <1>a, <3>1, TimerFields DEF TimerInv, Owned
    <3>3. t.at # now
      BY DEF Tick, Advance, Queue
    <3>4. pendingBar[p].expiry = t.at
      BY <2>1, <3>2 DEF pendingBar
    <3>5. ~IsExpiredAt(pendingBar[p], now)
      BY <1>a, <3>2, <3>3, <3>4 DEF IsExpiredAt
    <3> QED
      BY <3>5, SameMessages
  <2> QED
    BY <2>2, <2>3
<1>2. /\ now' = now + 1 /\ installedBar' = installedBar /\ requestedBar' = requestedBar
      /\ pendingBar' = pendingBar /\ budgetBar' = budgetBar /\ UNCHANGED highestSeen
  BY DEF Tick, Advance, controllerVars, localVars, installedBar, requestedBar, OpenRequests,
         pendingBar, budgetBar
<1>3. Transactions!TransactionTick
  BY <1>1, <1>2, Zenon
     DEF Transactions!TransactionTick, pendingBar, budgetBar, requestedBar, installedBar
<1> QED
  BY <1>3, Zenon DEF Transactions!TransactionNext

--------------------------------------------------------------------------------
(* The refinement *)

\* With the guard, the retries and a flow-table match of its own for every prefix, the
\* control plane implements the transactions: for every set of prefixes, ports, leases and
\* generations, every delay, loss and retry limit, an update steers its prefix until its own
\* route is in the switch FIB, its lease ends or its last retry timed out; a FlowMod installs
\* only what was asked for, in time and never over a newer generation; and no instant passes
\* with a dead transaction.
THEOREM ControlPlaneImplementsTransactions ==
  ASSUME OwnMatch, GenerationGuard, RetryTimeout > 0
  PROVE  Spec => ImplementsRouteTransaction
<1>1. Init => Transactions!TransactionInit
  <2> SUFFICES ASSUME Init PROVE Transactions!TransactionInit
    OBVIOUS
  <2>1. /\ now = 0 /\ inFlight = {} /\ flowFib = [k \in Key |-> NoMessage]
        /\ local = [p \in Prefix |-> Idle] /\ highestSeen = [p \in Prefix |-> -1]
    BY DEF Init, SimulatorInit, ControllerInit, LocalInit
  <2>2. /\ pendingBar = [p \in Prefix |-> Transactions!NoMessage]
        /\ budgetBar = [p \in Prefix |-> 0]
        /\ installedBar = [p \in Prefix |-> Transactions!NoMessage]
    BY <2>1, SameMessages DEF pendingBar, budgetBar, installedBar, Idle, NoRequest, Key
  <2>3. requestedBar = [p \in Prefix |-> {}]
    BY <2>1 DEF requestedBar, OpenRequests
  <2> QED
    BY <2>1, <2>2, <2>3, Zenon
       DEF Transactions!TransactionInit, pendingBar, budgetBar, installedBar, requestedBar
<1>2. Inv /\ [Next]_vars => [Transactions!TransactionNext]_(Transactions!transactionVars)
  <2> SUFFICES ASSUME Inv, [Next]_vars
               PROVE  Transactions!TransactionNext \/ UNCHANGED Transactions!transactionVars
    OBVIOUS
  <2>0. Base
    BY DEF Base, Inv
  <2>1. CASE (\E n \in Prefix : Lookup(n)) \/ UNCHANGED vars
    <3>1. UNCHANGED <<now, highestSeen, local, inFlight, flowFib>>
      BY <2>1 DEF Lookup, vars, controllerVars, localVars
    <3>2. /\ pendingBar' = pendingBar /\ budgetBar' = budgetBar
          /\ requestedBar' = requestedBar /\ installedBar' = installedBar
          /\ now' = now /\ highestSeen' = highestSeen
      BY <3>1 DEF pendingBar, budgetBar, requestedBar, installedBar, OpenRequests
    <3> QED
      BY <3>2, Zenon DEF Transactions!transactionVars, pendingBar, budgetBar, requestedBar,
                         installedBar
  <2>2. CASE Next /\ ~\E n \in Prefix : Lookup(n)
    <3>1. \A t \in timers : Due(t, Queue) => t.at = now
      BY DEF Due
    <3> QED
      BY <2>0, <2>2, <3>1, UpdateAdmits, LegTransacts, RetryTransacts, TimerTransacts,
         TickTransacts DEF Next, Run, RunTimer
  <2> QED
    BY <2>1, <2>2
<1> QED
  BY <1>1, <1>2, Invariance, PTL DEF Spec, ImplementsRouteTransaction, Transactions!TransactionSpec
================================================================================
