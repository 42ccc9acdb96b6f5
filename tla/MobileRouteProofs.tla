---------------------------- MODULE MobileRouteProofs --------------------------
(***************************************************************************)
(* The route of a mobile that moves: after a handover the switch follows     *)
(* within the time of a trace, refreshes keep the route alive, and a         *)
(* measured handover delay is one of the new path, whatever the delays, the  *)
(* losses and the order in which answers of old and new traces come.         *)
(***************************************************************************)
EXTENDS MobileRoute, WellFoundedInduction, TLAPS

USE DEF NoTimer, NoAnchor, MaxTraceRetries

\* The route of the mobile's prefix.
H == highest[ThePrefix]
Open == pending[ThePrefix]
Placed == installed[ThePrefix]
Asked == requested[ThePrefix]
None == Route!NoMessage

Update == [prefix : Prefix, seq : Nat, port : Port, expiry : Nat]
PacketType == [uid : Nat, at : Nat, kind : {"trace", "answer", "interest"}, seq : Nat,
               port : Port]
Traces == {e \in travelling : e.kind = "trace"}

--------------------------------------------------------------------------------
(* The inductive invariant *)

\* The installed route and the one of the open transaction were asked for.
RouteTypeInv ==
    /\ DOMAIN highest = Prefix /\ DOMAIN pending = Prefix /\ DOMAIN installed = Prefix
    /\ DOMAIN requested = Prefix
    /\ H \in Int /\ Asked \subseteq Update
    /\ Open \in Asked \cup {None} /\ Placed \in Asked \cup {None}

TypeInv ==
    /\ now \in Nat /\ nextUid \in Nat /\ MobileTypeOK /\ active = TRUE
    /\ seq >= 1 /\ handoverDelays \in Seq(Int)
    /\ ap \in Port /\ moved \in Nat /\ moved <= now /\ handovers \in Nat /\ losses \in Nat
    /\ travelling \subseteq PacketType
    /\ RouteTypeInv

\* There is one scheduled timeout at most; beside it there is the refresh, which runs
\* first when it is within the lifetime.
CallsInv ==
    /\ \A c \in calls : /\ c.uid < nextUid /\ c.at >= now
                        /\ c.call = "OnTraceTimeout" <=> c.uid = timeoutEvent
    /\ refreshEvent < nextUid /\ timeoutEvent < nextUid
    /\ Refreshes =>
          \A t \in calls : t.call = "OnTraceTimeout" =>
              \E r \in calls : r.uid = refreshEvent /\ r.uid < t.uid /\ r.at <= t.at
    /\ Refreshes /\ seq > 1 =>
          \E r \in calls : /\ r.uid = refreshEvent /\ r.call = "SendTrace"
                           /\ r.at <= sentAt + refreshInterval

\* No packet is late; the traces under way were sent, the newest no earlier than sentAt.
QueueInv ==
    /\ \A e \in travelling : e.at >= now
    /\ \A e \in Traces : /\ 1 <= e.seq /\ e.seq < seq
                         /\ e.seq = seq - 1 => e.at >= sentAt + Smallest(UpDelay)

\* The switch knows sent traces only.  Its newest update was asked for, leases end in the
\* order of the traces, and a transaction that closed was carried out, or expired with
\* every route before it, or was abandoned.
RouteInv ==
    /\ H < seq /\ (H = -1 \/ \E m \in Asked : m.seq = H)
    /\ \A m \in Asked : 1 <= m.seq /\ m.seq <= H
    /\ Open # None => Open.seq = H
    /\ TraceLifetime > 0 =>
          /\ \A m \in Asked : 0 < m.expiry /\ m.expiry <= now + TraceLifetime
          /\ \A m, n \in Asked : m.seq <= n.seq => m.expiry <= n.expiry
          /\ Open = None /\ ~Abandoned =>
                \/ H = -1 \/ (Placed # None /\ Placed.seq = H)
                \/ \A m \in Asked : m.expiry <= now

\* After a handover the switch knows the present access point and no trace under way can
\* change that, or such a trace is under way, or will be sent in time.
Follows ==
    /\ \A m \in Asked : m.seq = H => m.port = ap
    /\ \A e \in Traces : e.seq > H => e.port = ap
Arrives(t) ==
    \E e \in Traces : /\ e.seq > H /\ e.at <= t
                      /\ \A f \in Traces : f.seq >= e.seq => f.port = ap
Announces(t) == \E c \in calls : c.call = "SendTrace" /\ c.at <= t
SendTime == moved + TraceDelay + losses * refreshInterval
CatchUpInv ==
    Refreshes /\ handovers > 0 =>
        Follows \/ Arrives(SendTime + Largest(UpDelay)) \/ Announces(SendTime)

\* While nothing is lost every trace that is newer than the route is under way, the next
\* one reaches the switch before the lease of the newest route ends, or is sent in time.
Spread == refreshInterval + Largest(UpDelay) - Smallest(UpDelay)
Steady == Refreshes /\ losses = 0 /\ Spread < TraceLifetime
AliveInv ==
    Steady =>
        /\ \A g \in 1..(seq - 1) : g > H => \E e \in Traces : e.seq = g
        /\ \A e, f \in Traces : f.seq = e.seq + 1 => f.at <= e.at + Spread
        /\ \A m \in Asked : m.seq = H =>
              \/ \E e \in Traces : e.seq > H /\ e.at < m.expiry
              \/ \E c \in calls : c.call = "SendTrace" /\ c.at + Largest(UpDelay) < m.expiry

\* Before the first handover every packet and route is at the first access point; until
\* the second, what is at the present one comes from a trace that was sent there.
CausalInv ==
    /\ handovers = 0 => /\ \A e \in travelling : e.port = ap
                        /\ \A m \in Asked : m.port = ap
    /\ handovers = 1 =>
          /\ hoAnchor = moved
          /\ \A e \in Traces : e.port = ap => e.at >= moved + Smallest(UpDelay)
          /\ \A m \in Asked : m.port = ap => now >= moved + Smallest(UpDelay)
          /\ \A e \in travelling : e.kind = "interest" /\ e.port = ap =>
                e.at >= moved + Smallest(UpDelay) + Smallest(InterestDelay)

RouteMobileInv ==
    TypeInv /\ CallsInv /\ QueueInv /\ RouteInv /\ CatchUpInv /\ AliveInv /\ CausalInv

\* The longest and the shortest delay exist.
LEMMA LeastNat ==
  ASSUME NEW S \in SUBSET Nat, S # {}
  PROVE  Smallest(S) \in S /\ \A y \in S : Smallest(S) <= y
<1> DEFINE R == OpToRel(<, Nat)
<1>1. \E x \in S : \A y \in S : ~(<<y, x>> \in R)
  <2>1. IsWellFoundedOn(R, Nat)
    BY NatLessThanWellFounded
  <2> HIDE DEF R
  <2> QED
    BY <2>1, WFMin
<1>2. \A x, y \in Nat : <<y, x>> \in R <=> y < x
  BY DEF OpToRel
<1> HIDE DEF R
<1>3. PICK x \in S : \A y \in S : ~(<<y, x>> \in R)
  BY <1>1
<1>4. ASSUME NEW y \in S PROVE x <= y
  <2>1. x \in Nat /\ y \in Nat
    OBVIOUS
  <2>2. ~(y < x)
    BY <1>2, <1>3, <2>1, Zenon
  <2> QED
    BY <2>1, <2>2
<1> QED
  BY <1>4 DEF Smallest

\* The delays of a trace on its way up lie between the shortest and the longest.
LEMMA UpDelays ==
  /\ Largest(UpDelay) \in Nat /\ Smallest(UpDelay) \in Nat
  /\ \A d \in UpDelay : d \in Nat /\ d <= Largest(UpDelay) /\ Smallest(UpDelay) <= d
<1>1. UpDelay \in SUBSET Nat /\ UpDelay # {}
  BY MobileRouteAssumption
<1>2. Smallest(UpDelay) \in UpDelay /\ \A y \in UpDelay : Smallest(UpDelay) <= y
  BY <1>1, LeastNat
<1>3. Largest(UpDelay) \in UpDelay /\ \A y \in UpDelay : y <= Largest(UpDelay)
  BY MobileRouteAssumption, Zenon DEF Largest
<1> QED
  BY <1>1, <1>2, <1>3

\* An Interest needs the shortest delay at least.
LEMMA InterestDelays ==
  ASSUME NEW d \in InterestDelay
  PROVE  d \in Nat /\ Smallest(InterestDelay) \in Nat /\ Smallest(InterestDelay) <= d
BY MobileRouteAssumption, LeastNat

\* The mobile's prefix is one.
LEMMA PrefixExists == ThePrefix \in Prefix
BY MobileRouteAssumption, Zenon DEF ThePrefix

\* An update is not the message of no transaction.
LEMMA UpdateIsSome == /\ None.seq = -1
                      /\ \A m \in Update : m # None
<1>1. None.seq = -1
  BY DEF None, Route!NoMessage, Route!NoSeq
<1>2. ASSUME NEW m \in Update PROVE m # None
  <2>1. m.seq \in Nat
    BY DEF Update
  <2> QED
    BY <1>1, <2>1
<1> QED
  BY <1>1, <1>2

\* Before the first association nothing is under way.
LEMMA RouteMobileInitially == MobileRouteInit => RouteMobileInv
<1> SUFFICES ASSUME MobileRouteInit PROVE RouteMobileInv
  OBVIOUS
<1>1. /\ now = 0 /\ nextUid = 0 /\ refreshInterval \in RefreshIntervals /\ active = TRUE
      /\ seq = 1 /\ traceRetryCnt = 0 /\ calls = {} /\ refreshEvent = -1 /\ timeoutEvent = -1
      /\ sentAt = 0 /\ hoAnchor = -1 /\ waiting = FALSE /\ handoverDelays = <<>>
      /\ ap = InitialAp /\ moved = 0 /\ handovers = 0 /\ losses = 0 /\ travelling = {}
  BY DEF MobileRouteInit, SimulatorInit, MobileInit
<1>2. /\ highest = [p \in Prefix |-> -1] /\ pending = [p \in Prefix |-> None]
      /\ installed = [p \in Prefix |-> None] /\ requested = [p \in Prefix |-> {}]
  BY DEF MobileRouteInit, Route!TransactionInit, Route!NoSeq, None
<1>3. H = -1 /\ Open = None /\ Placed = None /\ Asked = {}
  BY <1>2, PrefixExists DEF H, Open, Placed, Asked
<1>4. RouteTypeInv
  BY <1>2, <1>3 DEF RouteTypeInv
<1>5. waiting \in BOOLEAN /\ active \in BOOLEAN
  BY <1>1, Zenon
<1>6. handoverDelays \in Seq(Int)
  BY <1>1
<1>7. TypeInv
  BY <1>1, <1>4, <1>5, <1>6, MobileRouteAssumption DEF TypeInv, MobileTypeOK
<1>8. Traces = {}
  BY <1>1 DEF Traces
<1>9. CallsInv /\ QueueInv /\ RouteInv
  BY <1>1, <1>3, <1>8 DEF CallsInv, QueueInv, RouteInv
<1>10. CatchUpInv /\ AliveInv /\ CausalInv
  BY <1>1, <1>3, <1>8 DEF CatchUpInv, AliveInv, CausalInv
<1> QED
  BY <1>7, <1>9, <1>10 DEF RouteMobileInv

--------------------------------------------------------------------------------
(* The route *)

\* What a step does that leaves the route alone.
LEMMA RouteFrame ==
  ASSUME TypeInv, RouteInv, UNCHANGED <<highest, pending, requested, installed, abandoned>>,
         seq' \in Nat, seq' >= seq, now' \in Nat, now' >= now
  PROVE  /\ RouteTypeInv' /\ RouteInv'
         /\ H' = H /\ Asked' = Asked /\ Open' = Open /\ Placed' = Placed
<1>1. H' = H /\ Asked' = Asked /\ Open' = Open /\ Placed' = Placed /\ (Abandoned' <=> Abandoned)
  BY DEF H, Asked, Open, Placed, Abandoned
<1>2. RouteTypeInv'
  BY <1>1 DEF TypeInv, RouteTypeInv
<1>3. /\ H \in Int /\ seq \in Nat /\ now \in Nat /\ TraceLifetime \in Nat
      /\ \A m \in Asked : m.expiry \in Nat /\ m.seq \in Nat
  BY MobileAssumption DEF TypeInv, MobileTypeOK, RouteTypeInv, Update
<1>4. RouteInv'
  BY <1>1, <1>3 DEF RouteInv
<1> QED
  BY <1>1, <1>2, <1>4

\* The answer of a newer trace opens a transaction and is asked for at once.
LEMMA AdmitEffect ==
  ASSUME TypeInv, QueueInv, RouteInv, NEW e \in Traces, TraceAtSwitch(e), e.seq > H
  PROVE  /\ RouteTypeInv' /\ RouteInv'
         /\ H' = e.seq
         /\ \E m \in Update : /\ Asked' = Asked \cup {m} /\ m.seq = e.seq /\ m.port = e.port
                              /\ TraceLifetime > 0 => m.expiry = now + TraceLifetime
<1>1. /\ Route!Admit(ThePrefix, e.port, e.seq, TraceLifetime)
      /\ requested' = [requested EXCEPT ![ThePrefix] = @ \cup {pending'[ThePrefix]}]
      /\ UNCHANGED <<now, seq, abandoned>>
  BY DEF TraceAtSwitch, H, mobileVars, traceVars
<1> DEFINE m == [prefix |-> ThePrefix, seq |-> e.seq, port |-> e.port,
                 expiry |-> Route!Deadline(TraceLifetime)]
<1>2. /\ highest' = [highest EXCEPT ![ThePrefix] = e.seq]
      /\ pending' = [pending EXCEPT ![ThePrefix] = m]
      /\ installed' = installed
  BY <1>1 DEF Route!Admit
<1>3. /\ DOMAIN highest = Prefix /\ DOMAIN pending = Prefix /\ DOMAIN installed = Prefix
      /\ DOMAIN requested = Prefix /\ H \in Int /\ Asked \subseteq Update
      /\ Open \in Asked \cup {None} /\ Placed \in Asked \cup {None}
      /\ now \in Nat /\ seq \in Nat /\ TraceLifetime \in Nat
  BY MobileAssumption DEF TypeInv, RouteTypeInv, MobileTypeOK
<1>4. e.seq \in Nat /\ e.port \in Port /\ 1 <= e.seq /\ e.seq < seq
  BY DEF TypeInv, PacketType, QueueInv, Traces
<1>5. Route!Deadline(TraceLifetime) = IF TraceLifetime = 0 THEN 0 ELSE now + TraceLifetime
  BY DEF Route!Deadline, Route!NoLease
<1>6. /\ m \in Update /\ m.seq = e.seq /\ m.port = e.port
      /\ (TraceLifetime > 0 => m.expiry = now + TraceLifetime)
  BY <1>3, <1>4, <1>5, PrefixExists DEF Update
<1> HIDE DEF m
<1>7. /\ H' = e.seq /\ Open' = m /\ Asked' = Asked \cup {m} /\ Placed' = Placed
  BY <1>1, <1>2, <1>3, PrefixExists DEF H, Open, Asked, Placed
<1>8. RouteTypeInv'
  <2>1. /\ DOMAIN highest' = Prefix /\ DOMAIN pending' = Prefix /\ DOMAIN installed' = Prefix
        /\ DOMAIN requested' = Prefix
    BY <1>1, <1>2, <1>3
  <2> QED
    BY <1>3, <1>4, <1>6, <1>7, <2>1 DEF RouteTypeInv
<1>9. RouteInv'
  <2>1. \A n \in Asked : n.seq \in Nat /\ n.expiry \in Nat /\ 1 <= n.seq /\ n.seq <= H
    BY <1>3 DEF RouteInv, Update
  <2>2. m # None
    BY <1>6, UpdateIsSome
  <2>3. H' < seq' /\ \E n \in Asked' : n.seq = H'
    BY <1>1, <1>4, <1>6, <1>7
  <2>4. \A n \in Asked' : 1 <= n.seq /\ n.seq <= H'
    BY <1>3, <1>4, <1>6, <1>7, <2>1
  <2>5. ASSUME TraceLifetime > 0
        PROVE  /\ \A n \in Asked' : 0 < n.expiry /\ n.expiry <= now' + TraceLifetime
               /\ \A n, k \in Asked' : n.seq <= k.seq => n.expiry <= k.expiry
    <3>1. /\ \A n \in Asked : 0 < n.expiry /\ n.expiry <= now + TraceLifetime
          /\ \A n, k \in Asked : n.seq <= k.seq => n.expiry <= k.expiry
      BY <2>5 DEF RouteInv
    <3>2. m.expiry = now + TraceLifetime /\ now' = now
      BY <1>1, <1>6, <2>5
    <3>3. \A n \in Asked : n.seq < m.seq
      BY <1>3, <1>4, <1>6, <2>1
    <3> QED
      BY <1>3, <1>4, <1>6, <1>7, <2>1, <2>5, <3>1, <3>2, <3>3
  <2> QED
    BY <1>6, <1>7, <2>2, <2>3, <2>4, <2>5 DEF RouteInv
<1> QED
  BY <1>6, <1>7, <1>8, <1>9

\* What the control plane does between two updates: it asks for nothing new, and installs
\* or closes what it may.
LEMMA RouteStepEffect ==
  ASSUME TypeInv, RouteInv, RouteStep
  PROVE  /\ RouteTypeInv' /\ RouteInv' /\ H' = H /\ Asked' = Asked
<1>0. /\ DOMAIN highest = Prefix /\ DOMAIN pending = Prefix /\ DOMAIN installed = Prefix
      /\ DOMAIN requested = Prefix /\ H \in Int /\ Asked \subseteq Update
      /\ Open \in Asked \cup {None} /\ Placed \in Asked \cup {None}
      /\ now \in Nat /\ seq \in Nat /\ TraceLifetime \in Nat
  BY MobileAssumption DEF TypeInv, RouteTypeInv, MobileTypeOK
<1>1. /\ UNCHANGED <<now, seq, highest, requested>>
  BY DEF RouteStep, mobileVars, traceVars, Route!Retry, Route!Install, Route!Complete,
     Route!Expire, Route!Abandon
<1>2. H' = H /\ Asked' = Asked
  BY <1>1 DEF H, Asked
<1>3. \A m \in Asked : m.seq \in Nat /\ m.expiry \in Nat /\ m # None
  BY <1>0, UpdateIsSome DEF Update
<1>4. /\ DOMAIN pending' = Prefix /\ DOMAIN installed' = Prefix
      /\ \/ Open' = Open /\ Placed' = Placed /\ abandoned' = abandoned
         \/ /\ \E m \in Asked : /\ ~(m.expiry # 0 /\ now >= m.expiry)
                                /\ m.seq > Placed.seq /\ Placed' = m
                                /\ Open' = Open \/ (Open = m /\ Open' = None)
            /\ abandoned' = abandoned
         \/ /\ Open # None /\ Open = Placed /\ Open' = None /\ Placed' = Placed
            /\ abandoned' = abandoned
         \/ /\ Open # None /\ Open.expiry # 0 /\ now >= Open.expiry
            /\ Open' = None /\ Placed' = Placed /\ abandoned' = abandoned
         \/ Open # None /\ Open' = None /\ Placed' = Placed /\ abandoned' = Open.seq
  <2>1. CASE Route!Retry(ThePrefix) /\ UNCHANGED abandoned
    BY <1>0, <2>1 DEF Route!Retry, Open, Placed
  <2>2. CASE \E m \in requested[ThePrefix] : Route!Install(ThePrefix, m) /\ UNCHANGED abandoned
    <3>1. PICK m \in Asked : Route!Install(ThePrefix, m) /\ UNCHANGED abandoned
      BY <2>2 DEF Asked
    <3>2. /\ ~(m.expiry # 0 /\ now >= m.expiry) /\ m.seq > Placed.seq
          /\ installed' = [installed EXCEPT ![ThePrefix] = m]
          /\ \/ pending' = pending
             \/ Open = m /\ pending' = [pending EXCEPT ![ThePrefix] = None]
      BY <3>1 DEF Route!Install, Route!IsExpiredAt, Route!NoLease, Placed, Open, None,
         Route!Close
    <3>3. Placed' = m /\ (Open' = Open \/ (Open = m /\ Open' = None))
      BY <1>0, <3>2, PrefixExists DEF Placed, Open
    <3>4. DOMAIN pending' = Prefix /\ DOMAIN installed' = Prefix
      BY <1>0, <3>2
    <3> QED
      BY <3>1, <3>2, <3>3, <3>4
  <2>3. CASE Route!Complete(ThePrefix) /\ UNCHANGED abandoned
    BY <1>0, <2>3, PrefixExists DEF Route!Complete, Route!Close, Route!Open, Open, Placed, None
  <2>4. CASE Route!Expire(ThePrefix) /\ UNCHANGED abandoned
    BY <1>0, <2>4, PrefixExists DEF Route!Expire, Route!Close, Route!Open, Route!IsExpiredAt,
       Route!NoLease, Open, Placed, None
  <2>5. CASE Route!Abandon(ThePrefix) /\ abandoned' = pending[ThePrefix].seq
    BY <1>0, <2>5, PrefixExists DEF Route!Abandon, Route!Close, Route!Open, Open, Placed, None
  <2> QED
    BY <2>1, <2>2, <2>3, <2>4, <2>5 DEF RouteStep
<1>5. RouteTypeInv'
  BY <1>0, <1>1, <1>2, <1>4 DEF RouteTypeInv
<1>6. Open' # None => Open'.seq = H'
  BY <1>0, <1>2, <1>4 DEF RouteInv
<1>7. ASSUME TraceLifetime > 0, Open' = None, ~Abandoned', H' # -1,
             ~(Placed' # None /\ Placed'.seq = H')
      PROVE  \A m \in Asked' : m.expiry <= now'
  <2>0. abandoned' # H
    BY <1>2, <1>7 DEF Abandoned, H
  <2>1. /\ \A m \in Asked : 0 < m.expiry
        /\ \A m, n \in Asked : m.seq <= n.seq => m.expiry <= n.expiry
        /\ \A m \in Asked : m.seq <= H
        /\ Open # None => Open.seq = H
        /\ Open = None /\ ~Abandoned => \/ H = -1 \/ (Placed # None /\ Placed.seq = H)
                                        \/ \A m \in Asked : m.expiry <= now
    BY <1>7 DEF RouteInv
  <2>2. CASE Open' = Open /\ Placed' = Placed /\ abandoned' = abandoned
    BY <1>1, <1>2, <1>7, <2>0, <2>1, <2>2 DEF Abandoned, H
  <2>3. CASE /\ \E m \in Asked : /\ ~(m.expiry # 0 /\ now >= m.expiry)
                                 /\ m.seq > Placed.seq /\ Placed' = m
                                 /\ Open' = Open \/ (Open = m /\ Open' = None)
             /\ abandoned' = abandoned
    <3>1. PICK m \in Asked : /\ ~(m.expiry # 0 /\ now >= m.expiry)
                             /\ m.seq > Placed.seq /\ Placed' = m
                             /\ Open' = Open \/ (Open = m /\ Open' = None)
      BY <2>3
    <3>2. m # None /\ m.seq # H
      BY <1>2, <1>3, <1>7, <3>1
    <3>3. Open = None
      BY <1>7, <2>1, <3>1, <3>2
    <3>4. H # -1 /\ ~Abandoned
      BY <1>2, <1>7, <2>0, <2>3 DEF Abandoned, H
    <3>5. ~(Placed # None /\ Placed.seq = H)
      BY <1>0, <1>3, <2>1, <3>1
    <3>6. m.expiry <= now
      BY <2>1, <3>3, <3>4, <3>5
    <3> QED
      BY <1>0, <1>3, <2>1, <3>1, <3>6
  <2>4. CASE /\ Open # None /\ Open = Placed /\ Open' = None /\ Placed' = Placed
             /\ abandoned' = abandoned
    BY <1>2, <1>7, <2>1, <2>4
  <2>5. CASE /\ Open # None /\ Open.expiry # 0 /\ now >= Open.expiry
             /\ Open' = None /\ Placed' = Placed /\ abandoned' = abandoned
    <3>1. Open \in Asked /\ Open.seq = H
      BY <1>0, <2>1, <2>5
    <3>2. \A m \in Asked : m.expiry <= Open.expiry
      BY <2>1, <3>1
    <3> QED
      BY <1>0, <1>1, <1>2, <1>3, <2>5, <3>1, <3>2
  <2>6. CASE Open # None /\ Open' = None /\ Placed' = Placed /\ abandoned' = Open.seq
    BY <2>0, <2>1, <2>6
  <2> QED
    BY <1>4, <2>2, <2>3, <2>4, <2>5, <2>6
<1>8. RouteInv'
  <2>1. H' < seq' /\ (H' = -1 \/ \E m \in Asked' : m.seq = H')
    BY <1>1, <1>2 DEF RouteInv
  <2>2. \A m \in Asked' : 1 <= m.seq /\ m.seq <= H'
    BY <1>2 DEF RouteInv
  <2>3. TraceLifetime > 0 =>
          /\ \A m \in Asked' : 0 < m.expiry /\ m.expiry <= now' + TraceLifetime
          /\ \A m, n \in Asked' : m.seq <= n.seq => m.expiry <= n.expiry
    BY <1>1, <1>2 DEF RouteInv
  <2> QED
    BY <1>6, <1>7, <2>1, <2>2, <2>3 DEF RouteInv
<1> QED
  BY <1>2, <1>5, <1>8

--------------------------------------------------------------------------------
(* The scheduled calls *)

\* The mobile's part of a state, for the provers.
LEMMA MobileTypes ==
  ASSUME TypeInv
  PROVE  /\ now \in Nat /\ nextUid \in Nat /\ seq \in Nat /\ seq >= 1 /\ sentAt \in Nat
         /\ refreshInterval \in Nat /\ TraceLifetime \in Nat /\ TraceDelay \in Nat
         /\ calls \subseteq MobileCall /\ \A c \in calls : c.uid \in Nat /\ c.at \in Nat
         /\ refreshEvent \in Nat \cup {-1} /\ timeoutEvent \in Nat \cup {-1}
         /\ moved \in Nat /\ moved <= now /\ losses \in Nat /\ handovers \in Nat /\ H \in Int
         /\ travelling \subseteq PacketType
         /\ \A e \in travelling : e.at \in Nat /\ e.seq \in Nat /\ e.port \in Port
         /\ Asked \subseteq Update
         /\ \A m \in Asked : m.seq \in Nat /\ m.expiry \in Nat /\ m.port \in Port
         /\ active = TRUE /\ ap \in Port
BY MobileAssumption DEF TypeInv, MobileTypeOK, MobileCall, RouteTypeInv, PacketType, Update

\* The calls of a step that schedules none and cancels timeouts only.
LEMMA CallsShrink ==
  ASSUME TypeInv, CallsInv, calls' \subseteq calls,
         \A c \in calls : c.call = "SendTrace" => c \in calls',
         UNCHANGED <<refreshEvent, timeoutEvent, sentAt, seq, refreshInterval>>,
         now' \in Nat, \A c \in calls : c.at >= now',
         nextUid' \in Nat, nextUid' >= nextUid
  PROVE  CallsInv'
<1>1. /\ \A c \in calls : c.uid \in Nat /\ c.call \in {"SendTrace", "OnTraceTimeout"}
      /\ refreshEvent \in Nat \cup {-1} /\ timeoutEvent \in Nat \cup {-1} /\ nextUid \in Nat
  BY DEF TypeInv, MobileTypeOK, MobileCall
<1>2. Refreshes' <=> Refreshes
  BY DEF Refreshes
<1>3. \A c \in calls' : /\ c.uid < nextUid' /\ c.at >= now'
                        /\ (c.call = "OnTraceTimeout" <=> c.uid = timeoutEvent')
  BY <1>1 DEF CallsInv
<1>4. refreshEvent' < nextUid' /\ timeoutEvent' < nextUid'
  BY <1>1 DEF CallsInv
<1>5. ASSUME Refreshes, NEW t \in calls', t.call = "OnTraceTimeout"
      PROVE  \E r \in calls' : r.uid = refreshEvent' /\ r.uid < t.uid /\ r.at <= t.at
  <2>1. PICK r \in calls : r.uid = refreshEvent /\ r.uid < t.uid /\ r.at <= t.at
    BY <1>5 DEF CallsInv
  <2>2. r.uid # t.uid
    BY <1>1, <2>1
  <2>3. r.call = "SendTrace"
    BY <1>1, <1>5, <2>2 DEF CallsInv
  <2> QED
    BY <2>1, <2>3
<1>6. Refreshes /\ seq > 1 =>
          \E r \in calls' : /\ r.uid = refreshEvent /\ r.call = "SendTrace"
                            /\ r.at <= sentAt + refreshInterval
  BY DEF CallsInv
<1> QED
  BY <1>2, <1>3, <1>4, <1>5, <1>6 DEF CallsInv

\* OnAssociation adds its call.
LEMMA AssociationEffect ==
  ASSUME TypeInv, CallsInv, OnAssociation, TakeUids, UNCHANGED now
  PROVE  /\ calls' \subseteq MobileCall /\ CallsInv' /\ calls \subseteq calls'
         /\ \E c \in calls' : c.call = "SendTrace" /\ c.at = now + TraceDelay
<1> DEFINE n == MobileCallAt(AssociationUid, TraceDelay, "SendTrace")
<1>0. /\ now \in Nat /\ nextUid \in Nat /\ TraceDelay \in Nat /\ calls \subseteq MobileCall
      /\ \A c \in calls : c.uid \in Nat /\ c.at \in Nat
      /\ refreshEvent \in Nat \cup {-1} /\ timeoutEvent \in Nat \cup {-1}
      /\ refreshEvent < nextUid /\ timeoutEvent < nextUid
  BY MobileTypes DEF CallsInv
<1>1. n \in MobileCall /\ n.uid = nextUid /\ n.at = now + TraceDelay /\ n.call = "SendTrace"
  BY <1>0 DEF MobileCallAt, AssociationUid, MobileCall
<1>2. /\ calls' = calls \cup {n} /\ nextUid' = nextUid + 4
      /\ UNCHANGED <<refreshInterval, seq, refreshEvent, timeoutEvent, sentAt, now>>
  BY DEF OnAssociation, TakeUids
<1> HIDE DEF n
<1>3. Refreshes' <=> Refreshes
  BY <1>2 DEF Refreshes
<1>4. \A c \in calls' : c \in calls \/ c = n
  BY <1>2
<1>5. \A c \in calls' : /\ c.uid < nextUid' /\ c.at >= now'
                        /\ (c.call = "OnTraceTimeout" <=> c.uid = timeoutEvent')
  BY <1>0, <1>1, <1>2, <1>4 DEF CallsInv
<1>6. refreshEvent' < nextUid' /\ timeoutEvent' < nextUid'
  BY <1>0, <1>2
<1>7. ASSUME Refreshes, NEW t \in calls', t.call = "OnTraceTimeout"
      PROVE  \E r \in calls' : r.uid = refreshEvent' /\ r.uid < t.uid /\ r.at <= t.at
  BY <1>1, <1>2, <1>4, <1>7 DEF CallsInv
<1>8. Refreshes /\ seq > 1 =>
          \E r \in calls' : /\ r.uid = refreshEvent /\ r.call = "SendTrace"
                            /\ r.at <= sentAt + refreshInterval
  BY <1>2 DEF CallsInv
<1>9. CallsInv'
  BY <1>2, <1>3, <1>5, <1>6, <1>7, <1>8 DEF CallsInv
<1> QED
  BY <1>0, <1>1, <1>2, <1>9

\* SendTrace, with some of the calls still scheduled: it leaves its timeout and, when there
\* is a refresh, its refresh, which has the lower identifier.
LEMMA SendEffect ==
  ASSUME TypeInv, CallsInv, NEW rest \in SUBSET calls, SendTrace(rest), TakeUids, UNCHANGED now
  PROVE  /\ calls' \subseteq MobileCall /\ CallsInv'
         /\ refreshEvent' \in Nat \cup {NoTimer} /\ timeoutEvent' \in Nat \cup {NoTimer}
         /\ refreshInterval # 0 =>
               \E c \in calls' : c.call = "SendTrace" /\ c.at = now + refreshInterval
<1>0. /\ now \in Nat /\ nextUid \in Nat /\ calls \subseteq MobileCall
      /\ refreshEvent \in Nat \cup {-1} /\ timeoutEvent \in Nat \cup {-1}
      /\ TraceLifetime \in Nat /\ refreshInterval \in Nat
      /\ now' = now /\ nextUid' = nextUid + 4
      /\ refreshEvent < nextUid /\ timeoutEvent < nextUid
  BY MobileTypes DEF TakeUids, CallsInv
<1> DEFINE r == MobileCallAt(RefreshUid, refreshInterval, "SendTrace")
           t == MobileCallAt(TimeoutUid, TraceLifetime, "OnTraceTimeout")
           kept == CancelTraceCalls(rest)
<1>1. /\ r \in MobileCall /\ r.uid = nextUid /\ r.at = now + refreshInterval
      /\ r.call = "SendTrace"
      /\ t \in MobileCall /\ t.uid = nextUid + 1 /\ t.at = now + TraceLifetime
      /\ t.call = "OnTraceTimeout"
  BY <1>0 DEF MobileCallAt, RefreshUid, TimeoutUid, MobileCall
<1>2. ASSUME NEW c \in kept
      PROVE  /\ c \in MobileCall /\ c.uid \in Nat /\ c.uid < nextUid /\ c.at \in Nat /\ c.at >= now
             /\ c.call # "OnTraceTimeout"
  <2>1. c \in rest /\ c.uid # refreshEvent /\ c.uid # timeoutEvent /\ c \in calls
    BY <1>2 DEF CancelTraceCalls
  <2>2. c \in MobileCall /\ c.uid \in Nat /\ c.at \in Nat
    BY <1>0, <2>1 DEF MobileCall
  <2>3. c.uid < nextUid /\ c.at >= now /\ c.call # "OnTraceTimeout"
    BY <2>1 DEF CallsInv
  <2> QED
    BY <2>1, <2>2, <2>3
<1>3. /\ calls' = kept \cup (IF refreshInterval # 0 THEN {r} ELSE {}) \cup {t}
      /\ refreshEvent' = (IF refreshInterval # 0 THEN nextUid ELSE refreshEvent)
      /\ timeoutEvent' = nextUid + 1 /\ sentAt' = now /\ refreshInterval' = refreshInterval
  BY DEF SendTrace, TraceCalls, RefreshUid, TimeoutUid
<1> HIDE DEF r, t, kept
<1>4. ASSUME NEW c \in calls'
      PROVE  c \in kept \/ (c = r /\ refreshInterval # 0) \/ c = t
  BY <1>3
<1>5. t \in calls' /\ (refreshInterval # 0 => r \in calls')
  BY <1>3
<1>6. Refreshes' <=> Refreshes
  BY <1>3 DEF Refreshes
<1>7. Refreshes => refreshInterval # 0 /\ refreshInterval <= TraceLifetime
  BY <1>0 DEF Refreshes
<1>8. \A c \in calls' : /\ c.uid < nextUid' /\ c.at >= now'
                        /\ (c.call = "OnTraceTimeout" <=> c.uid = timeoutEvent')
  BY <1>0, <1>1, <1>2, <1>3, <1>4
<1>9. refreshEvent' < nextUid' /\ timeoutEvent' < nextUid'
  BY <1>0, <1>3
<1>10. ASSUME Refreshes, NEW u \in calls', u.call = "OnTraceTimeout"
       PROVE  \E e \in calls' : e.uid = refreshEvent' /\ e.uid < u.uid /\ e.at <= u.at
  <2>1. u = t
    BY <1>1, <1>2, <1>4, <1>10
  <2> QED
    BY <1>0, <1>1, <1>3, <1>5, <1>7, <1>10, <2>1
<1>11. ASSUME Refreshes
       PROVE  \E e \in calls' : /\ e.uid = refreshEvent' /\ e.call = "SendTrace"
                                /\ e.at <= sentAt' + refreshInterval'
  <2>1. r \in calls' /\ r.uid = refreshEvent' /\ r.call = "SendTrace"
    BY <1>1, <1>3, <1>5, <1>7, <1>11
  <2>2. r.at <= sentAt' + refreshInterval'
    BY <1>0, <1>1, <1>3
  <2> QED
    BY <2>1, <2>2
<1>12. CallsInv'
  BY <1>6, <1>8, <1>9, <1>10, <1>11 DEF CallsInv
<1>13. calls' \subseteq MobileCall
  BY <1>1, <1>2, <1>4
<1>14. refreshEvent' \in Nat \cup {-1} /\ timeoutEvent' \in Nat \cup {-1}
  BY <1>0, <1>3
<1> QED
  BY <1>1, <1>5, <1>12, <1>13, <1>14

\* With a refresh within the lifetime no timeout runs.
LEMMA TimeoutIsDue ==
  ASSUME TypeInv, CallsInv, NEW c \in calls, Due(c, MobileQueue), c.call = "OnTraceTimeout"
  PROVE  ~Refreshes
<1>1. ASSUME Refreshes PROVE FALSE
  <2>1. PICK r \in calls : r.uid = refreshEvent /\ r.uid < c.uid /\ r.at <= c.at
    BY <1>1 DEF CallsInv
  <2>2. r.uid \in Nat /\ c.uid \in Nat /\ r.at \in Nat /\ c.at \in Nat /\ now \in Nat
    BY MobileTypes
  <2>3. r.at >= now /\ c.at = now
    BY DEF CallsInv, Due
  <2>4. r.at = now
    BY <2>1, <2>2, <2>3
  <2>5. c.uid <= r.uid
    BY <2>4 DEF Due, MobileQueue
  <2> QED
    BY <2>1, <2>2, <2>5
<1> QED
  BY <1>1

--------------------------------------------------------------------------------
(* The steps *)

\* A loss allows for one more refresh.
LEMMA SendTimeGrows ==
  ASSUME NEW l \in Nat, NEW i \in Nat
  PROVE  l * i \in Nat /\ (l + 1) * i = l * i + i
OBVIOUS

\* A step that touches neither the traces under way nor the updates of the switch, and
\* cancels no call of SendTrace.
LEMMA KeepsUp ==
  ASSUME TypeInv, CatchUpInv, AliveInv, Traces' = Traces, H' = H, Asked' = Asked,
         UNCHANGED <<seq, refreshInterval, ap, moved, handovers>>,
         losses' = losses \/ losses' = losses + 1,
         \A c \in calls : c.call = "SendTrace" => c \in calls'
  PROVE  CatchUpInv' /\ AliveInv'
<1>0. /\ losses \in Nat /\ refreshInterval \in Nat /\ moved \in Nat /\ TraceDelay \in Nat
      /\ Largest(UpDelay) \in Nat /\ Smallest(UpDelay) \in Nat
      /\ \A c \in calls : c.at \in Nat
      /\ \A e \in Traces : e.at \in Nat
  BY MobileTypes, UpDelays DEF Traces
<1>1. /\ SendTime \in Nat /\ SendTime' \in Nat /\ SendTime <= SendTime'
  <2>1. /\ losses * refreshInterval \in Nat
        /\ (losses + 1) * refreshInterval = losses * refreshInterval + refreshInterval
    BY <1>0, SendTimeGrows
  <2>2. \/ losses' * refreshInterval' = losses * refreshInterval
        \/ losses' * refreshInterval' = losses * refreshInterval + refreshInterval
    BY <2>1
  <2> DEFINE x == losses * refreshInterval
             y == losses' * refreshInterval'
  <2>3. SendTime = moved + TraceDelay + x /\ SendTime' = moved + TraceDelay + y
    BY DEF SendTime
  <2> HIDE DEF x, y
  <2>4. x \in Nat /\ (y = x \/ y = x + refreshInterval)
    BY <2>1, <2>2 DEF x, y
  <2> QED
    BY <1>0, <2>3, <2>4
<1>2. Refreshes' <=> Refreshes
  BY DEF Refreshes
<1>3. Follows' <=> Follows
  BY DEF Follows
<1>4. Arrives(SendTime + Largest(UpDelay)) => Arrives(SendTime + Largest(UpDelay))'
  <2>1. ASSUME NEW e \in Traces, e.at <= SendTime + Largest(UpDelay)
        PROVE  e.at <= SendTime' + Largest(UpDelay)
    BY <1>0, <1>1, <2>1
  <2> QED
    BY <2>1 DEF Arrives
<1>5. Announces(SendTime) => Announces(SendTime)'
  <2>1. ASSUME NEW c \in calls, c.at <= SendTime PROVE c.at <= SendTime'
    BY <1>0, <1>1, <2>1
  <2> QED
    BY <2>1 DEF Announces
<1>6. CatchUpInv'
  BY <1>2, <1>3, <1>4, <1>5 DEF CatchUpInv
<1>7. Steady' => Steady
  BY <1>0, <1>2 DEF Steady, Spread
<1>8. Spread' = Spread
  BY DEF Spread
<1>9. AliveInv'
  BY <1>7, <1>8 DEF AliveInv
<1> QED
  BY <1>6, <1>9

\* The initial attachment.
LEMMA AttachStep ==
  ASSUME RouteMobileInv, Attach
  PROVE  RouteMobileInv'
<1>0. /\ TypeInv /\ CallsInv /\ QueueInv /\ RouteInv /\ CatchUpInv /\ AliveInv /\ CausalInv
  BY DEF RouteMobileInv
<1>1. /\ OnAssociation /\ TakeUids /\ nextUid' = nextUid + 4
      /\ waiting' = TRUE
      /\ UNCHANGED <<now, hoAnchor, ap, moved, handovers, losses, travelling, highest, pending,
                     requested, installed, abandoned, refreshInterval, active, seq,
                     traceRetryCnt, refreshEvent, timeoutEvent, sentAt, handoverDelays>>
  BY DEF Attach, OnAssociation, TakeUids, placeVars, routeVars
<1>2. now \in Nat /\ seq \in Nat /\ nextUid \in Nat
  BY <1>0, MobileTypes
<1>3. calls' \subseteq MobileCall /\ CallsInv' /\ calls \subseteq calls'
  BY <1>0, <1>1, AssociationEffect
<1>4. RouteTypeInv' /\ RouteInv' /\ H' = H /\ Asked' = Asked
  BY <1>0, <1>1, <1>2, RouteFrame
<1>5. waiting' \in BOOLEAN
  BY <1>1, Zenon
<1>6. TypeInv'
  BY <1>0, <1>1, <1>2, <1>3, <1>4, <1>5 DEF TypeInv, MobileTypeOK
<1>7. Traces' = Traces
  BY <1>1 DEF Traces
<1>8. QueueInv'
  BY <1>0, <1>1, <1>7 DEF QueueInv
<1>9. CatchUpInv' /\ AliveInv'
  BY <1>0, <1>1, <1>3, <1>4, <1>7, KeepsUp
<1>10. CausalInv'
  BY <1>0, <1>1, <1>4, <1>7 DEF CausalInv
<1> QED
  BY <1>3, <1>4, <1>6, <1>8, <1>9, <1>10 DEF RouteMobileInv

\* A handover: its trace is scheduled, and nothing under way goes by the new access point
\* if it is the first.
LEMMA HandoverStep ==
  ASSUME RouteMobileInv, NEW port \in Port, DoHandover(port)
  PROVE  RouteMobileInv'
<1>0. /\ TypeInv /\ CallsInv /\ QueueInv /\ RouteInv /\ CatchUpInv /\ AliveInv /\ CausalInv
  BY DEF RouteMobileInv
<1>1. /\ OnAssociation /\ TakeUids /\ nextUid' = nextUid + 4
      /\ waiting' = TRUE /\ hoAnchor' = now /\ port # ap
      /\ ap' = port /\ moved' = now /\ handovers' = handovers + 1
      /\ UNCHANGED <<now, losses, travelling, highest, pending,
                     requested, installed, abandoned, refreshInterval, active, seq,
                     traceRetryCnt, refreshEvent, timeoutEvent, sentAt, handoverDelays>>
  BY DEF DoHandover, OnAssociation, MarkHandover, TakeUids, routeVars
<1>2. /\ now \in Nat /\ seq \in Nat /\ nextUid \in Nat /\ losses \in Nat
      /\ refreshInterval \in Nat /\ TraceDelay \in Nat /\ handovers \in Nat
  BY <1>0, MobileTypes
<1>3. /\ calls' \subseteq MobileCall /\ CallsInv' /\ calls \subseteq calls'
      /\ \E c \in calls' : c.call = "SendTrace" /\ c.at = now + TraceDelay
  BY <1>0, <1>1, AssociationEffect
<1>4. RouteTypeInv' /\ RouteInv' /\ H' = H /\ Asked' = Asked
  BY <1>0, <1>1, <1>2, RouteFrame
<1>5. waiting' \in BOOLEAN
  BY <1>1, Zenon
<1>6. TypeInv'
  BY <1>0, <1>1, <1>2, <1>3, <1>4, <1>5 DEF TypeInv, MobileTypeOK
<1>7. Traces' = Traces
  BY <1>1 DEF Traces
<1>8. QueueInv'
  BY <1>0, <1>1, <1>7 DEF QueueInv
<1>9. CatchUpInv'
  <2>1. losses * refreshInterval \in Nat
    BY <1>2, SendTimeGrows
  <2> DEFINE x == losses * refreshInterval
  <2>2. SendTime' = now + TraceDelay + x
    BY <1>1 DEF SendTime
  <2>3. x \in Nat
    BY <2>1
  <2> HIDE DEF x
  <2>4. now + TraceDelay <= SendTime'
    BY <1>2, <2>2, <2>3
  <2>5. Announces(SendTime)'
    BY <1>3, <2>4 DEF Announces
  <2> QED
    BY <2>5 DEF CatchUpInv
<1>10. AliveInv'
  <2>1. Spread' = Spread /\ (Steady' <=> Steady)
    BY <1>1 DEF Spread, Steady, Refreshes
  <2> QED
    BY <1>0, <1>1, <1>3, <1>4, <1>7, <2>1 DEF AliveInv
<1>11. CausalInv'
  <2>1. handovers' # 0 /\ (handovers' = 1 => handovers = 0)
    BY <1>1, <1>2
  <2>2. ASSUME handovers' = 1
        PROVE  /\ \A e \in travelling' : e.port # ap'
               /\ \A m \in Asked' : m.port # ap'
    BY <1>0, <1>1, <1>4, <2>1, <2>2 DEF CausalInv
  <2>3. Traces' \subseteq travelling'
    BY DEF Traces
  <2> QED
    BY <1>1, <2>1, <2>2, <2>3 DEF CausalInv
<1> QED
  BY <1>3, <1>4, <1>6, <1>8, <1>9, <1>10, <1>11 DEF RouteMobileInv

\* A packet reaches the mobile, or finds the link gone.
LEMMA AtMobileStep ==
  ASSUME RouteMobileInv, NEW e \in travelling, AtMobile(e)
  PROVE  RouteMobileInv'
<1>0. /\ TypeInv /\ CallsInv /\ QueueInv /\ RouteInv /\ CatchUpInv /\ AliveInv /\ CausalInv
  BY DEF RouteMobileInv
<1>1. /\ travelling' = travelling \ {e} /\ e.kind \in {"answer", "interest"}
      /\ UNCHANGED <<now, nextUid, ap, moved, handovers, losses, highest, pending, requested,
                     installed, abandoned>>
  BY DEF AtMobile, placeVars, routeVars
<1>2. /\ now \in Nat /\ seq \in Nat /\ nextUid \in Nat /\ calls \subseteq MobileCall
      /\ \A c \in calls : c.at \in Nat
  BY <1>0, MobileTypes
<1>3. /\ UNCHANGED <<refreshInterval, active, seq, refreshEvent, timeoutEvent, sentAt, hoAnchor>>
      /\ \/ UNCHANGED <<calls, traceRetryCnt>>
         \/ calls' = {c \in calls : c.uid # timeoutEvent} /\ traceRetryCnt' = 0
      /\ \/ UNCHANGED <<waiting, handoverDelays>>
         \/ waiting' = FALSE /\ handoverDelays' = Append(handoverDelays, now - Anchor)
  <2>1. CASE UNCHANGED mobileVars
    BY <2>1 DEF mobileVars, traceVars, delayVars
  <2>2. CASE OnData(e.seq)
    BY <2>2 DEF OnData, announceVars, delayVars
  <2>3. CASE OnInterest
    BY <2>3 DEF OnInterest, traceVars
  <2> QED
    BY <1>1, <2>1, <2>2, <2>3 DEF AtMobile
<1>4. calls' \subseteq calls /\ \A c \in calls : c.call = "SendTrace" => c \in calls'
  BY <1>0, <1>3 DEF CallsInv
<1>5. CallsInv'
  BY <1>0, <1>1, <1>2, <1>3, <1>4, CallsShrink DEF CallsInv
<1>6. RouteTypeInv' /\ RouteInv' /\ H' = H /\ Asked' = Asked
  BY <1>0, <1>1, <1>2, <1>3, RouteFrame
<1>7. TypeInv'
  <2>1. handoverDelays' \in Seq(Int)
    <3>1. handoverDelays \in Seq(Int) /\ Anchor \in Int
      BY <1>0 DEF TypeInv, Anchor, MobileTypeOK
    <3>2. now - Anchor \in Int
      BY <1>2, <3>1
    <3> QED
      BY <1>3, <3>1, <3>2
  <2>2. waiting' \in BOOLEAN
    <3>1. waiting \in BOOLEAN
      BY <1>0 DEF TypeInv, MobileTypeOK
    <3> QED
      BY <1>3, <3>1, Zenon
  <2>3. traceRetryCnt' \in 0..3
    BY <1>0, <1>3 DEF TypeInv, MobileTypeOK
  <2>4. MobileTypeOK'
    BY <1>0, <1>2, <1>3, <1>4, <2>2, <2>3 DEF TypeInv, MobileTypeOK
  <2> QED
    BY <1>0, <1>1, <1>3, <1>6, <2>1, <2>4 DEF TypeInv
<1>8. Traces' = Traces
  BY <1>1 DEF Traces
<1>9. QueueInv'
  BY <1>0, <1>1, <1>3, <1>8 DEF QueueInv
<1>10. CatchUpInv' /\ AliveInv'
  BY <1>0, <1>1, <1>3, <1>4, <1>6, <1>8, KeepsUp
<1>11. CausalInv'
  BY <1>0, <1>1, <1>3, <1>6, <1>8 DEF CausalInv
<1> QED
  BY <1>5, <1>6, <1>7, <1>9, <1>10, <1>11 DEF RouteMobileInv

\* The control plane works between two updates.
LEMMA RouteStepStep ==
  ASSUME RouteMobileInv, RouteStep
  PROVE  RouteMobileInv'
<1>0. /\ TypeInv /\ CallsInv /\ QueueInv /\ RouteInv /\ CatchUpInv /\ AliveInv /\ CausalInv
  BY DEF RouteMobileInv
<1>1. /\ UNCHANGED <<now, nextUid, ap, moved, handovers, losses, travelling>>
      /\ UNCHANGED <<refreshInterval, active, seq, traceRetryCnt, calls, refreshEvent,
                     timeoutEvent, sentAt, hoAnchor, waiting, handoverDelays>>
  BY DEF RouteStep, placeVars, mobileVars, traceVars, delayVars, Route!Retry, Route!Install,
     Route!Complete, Route!Expire, Route!Abandon
<1>2. RouteTypeInv' /\ RouteInv' /\ H' = H /\ Asked' = Asked
  BY <1>0, RouteStepEffect
<1>3. TypeInv'
  BY <1>0, <1>1, <1>2 DEF TypeInv, MobileTypeOK
<1>4. Traces' = Traces
  BY <1>1 DEF Traces
<1>5. CallsInv'
  BY <1>0, <1>1 DEF CallsInv, Refreshes
<1>6. QueueInv'
  BY <1>0, <1>1, <1>4 DEF QueueInv
<1>7. CatchUpInv' /\ AliveInv'
  BY <1>0, <1>1, <1>2, <1>4, KeepsUp
<1>8. CausalInv'
  BY <1>0, <1>1, <1>2, <1>4 DEF CausalInv
<1> QED
  BY <1>2, <1>3, <1>5, <1>6, <1>7, <1>8 DEF RouteMobileInv

\* Time passes only when nothing is due.
LEMMA TickStep ==
  ASSUME RouteMobileInv, MobileRouteTick
  PROVE  RouteMobileInv'
<1>0. /\ TypeInv /\ CallsInv /\ QueueInv /\ RouteInv /\ CatchUpInv /\ AliveInv /\ CausalInv
  BY DEF RouteMobileInv
<1>1. /\ now' = now + 1 /\ \A f \in calls \cup travelling : f.at # now
      /\ UNCHANGED <<nextUid, ap, moved, handovers, losses, travelling, highest, pending,
                     requested, installed, abandoned>>
      /\ UNCHANGED <<refreshInterval, active, seq, traceRetryCnt, calls, refreshEvent,
                     timeoutEvent, sentAt, hoAnchor, waiting, handoverDelays>>
  BY DEF MobileRouteTick, Advance, MobileQueue, placeVars, mobileVars, traceVars, delayVars,
     Route!TransactionTick
<1>2. /\ now \in Nat /\ seq \in Nat /\ nextUid \in Nat /\ moved \in Nat /\ moved <= now
      /\ \A c \in calls : c.at \in Nat
      /\ \A e \in travelling : e.at \in Nat
  BY <1>0, MobileTypes
<1>3. RouteTypeInv' /\ RouteInv' /\ H' = H /\ Asked' = Asked
  BY <1>0, <1>1, <1>2, RouteFrame
<1>4. moved' <= now' /\ now' \in Nat
  BY <1>1, <1>2
<1>5. TypeInv'
  BY <1>0, <1>1, <1>3, <1>4 DEF TypeInv, MobileTypeOK
<1>6. \A c \in calls : c.at >= now'
  BY <1>0, <1>1, <1>2 DEF CallsInv
<1>7. CallsInv'
  BY <1>0, <1>1, <1>2, <1>4, <1>6, CallsShrink
<1>8. Traces' = Traces
  BY <1>1 DEF Traces
<1>9. QueueInv'
  <2>1. \A e \in travelling' : e.at >= now'
    BY <1>0, <1>1, <1>2 DEF QueueInv
  <2> QED
    BY <1>0, <1>1, <1>8, <2>1 DEF QueueInv
<1>10. CatchUpInv' /\ AliveInv'
  BY <1>0, <1>1, <1>3, <1>8, KeepsUp
<1>11. CausalInv'
  <2>1. now >= moved + Smallest(UpDelay) => now' >= moved' + Smallest(UpDelay)
    BY <1>1, <1>2, UpDelays
  <2> QED
    BY <1>0, <1>1, <1>3, <1>8, <2>1 DEF CausalInv
<1> QED
  BY <1>3, <1>5, <1>7, <1>9, <1>10, <1>11 DEF RouteMobileInv

\* The switch steers by a route that was asked for.
LEMMA SteersByUpdate ==
  ASSUME TypeInv, NEW port \in Steers
  PROVE  \E m \in Asked : m.port = port
<1>1. \/ Open # None /\ port = Open.port
      \/ Placed # None /\ port = Placed.port
  BY DEF Steers, Valid, Open, Placed, None
<1> QED
  BY <1>1 DEF TypeInv, RouteTypeInv

\* An Interest starts towards the mobile, or is lost.
LEMMA InterestStep ==
  ASSUME RouteMobileInv, InterestAtSwitch
  PROVE  RouteMobileInv'
<1>0. /\ TypeInv /\ CallsInv /\ QueueInv /\ RouteInv /\ CatchUpInv /\ AliveInv /\ CausalInv
  BY DEF RouteMobileInv
<1>1. /\ nextUid' = nextUid + 4
      /\ UNCHANGED <<now, ap, moved, handovers, highest, pending, requested, installed, abandoned>>
      /\ UNCHANGED <<refreshInterval, active, seq, traceRetryCnt, calls, refreshEvent,
                     timeoutEvent, sentAt, hoAnchor, waiting, handoverDelays>>
  BY DEF InterestAtSwitch, TakeUids, placeVars, routeVars, mobileVars, traceVars, delayVars
<1>2. /\ now \in Nat /\ seq \in Nat /\ nextUid \in Nat /\ moved \in Nat /\ moved <= now
      /\ \A c \in calls : c.at \in Nat
      /\ losses \in Nat /\ handovers \in Nat
  BY <1>0, MobileTypes
<1>3. PICK port \in Steers : Travels(travelling, nextUid, InterestDelay, "interest", 0, port)
  BY DEF InterestAtSwitch
<1>4. PICK m \in Asked : m.port = port
  BY <1>0, SteersByUpdate
<1>5. port \in Port
  BY <1>0, <1>4, MobileTypes
<1>6. /\ losses' \in Nat /\ (losses' = losses \/ losses' = losses + 1)
      /\ \/ travelling' = travelling
         \/ \E d \in InterestDelay :
               travelling' = travelling \cup {Packet(nextUid, d, "interest", 0, port)}
  BY <1>2, <1>3 DEF Travels
<1>7. \A f \in travelling' :
         \/ f \in travelling
         \/ /\ f \in PacketType /\ f.kind = "interest" /\ f.port = port
            /\ f.at \in Nat /\ f.at >= now + Smallest(InterestDelay)
            /\ Smallest(InterestDelay) \in Nat
  <2>1. CASE travelling' = travelling
    BY <2>1
  <2>2. ASSUME NEW d \in InterestDelay,
               travelling' = travelling \cup {Packet(nextUid, d, "interest", 0, port)}
        PROVE  \A f \in travelling' :
                  \/ f \in travelling
                  \/ /\ f \in PacketType /\ f.kind = "interest" /\ f.port = port
                     /\ f.at \in Nat /\ f.at >= now + Smallest(InterestDelay)
                     /\ Smallest(InterestDelay) \in Nat
    <3> DEFINE q == Packet(nextUid, d, "interest", 0, port)
    <3>1. d \in Nat /\ Smallest(InterestDelay) \in Nat /\ Smallest(InterestDelay) <= d
      BY InterestDelays
    <3>2. q = Packet(nextUid, d, "interest", 0, port) /\ travelling' = travelling \cup {q}
      BY <2>2
    <3> HIDE DEF q
    <3>3. /\ q \in PacketType /\ q.at = now + d /\ q.at \in Nat /\ q.kind = "interest"
          /\ q.port = port
      BY <1>2, <1>5, <3>1, <3>2 DEF Packet, PacketType
    <3>4. q.at >= now + Smallest(InterestDelay)
      BY <1>2, <3>1, <3>3
    <3> QED
      BY <3>1, <3>2, <3>3, <3>4
  <2> QED
    BY <1>6, <2>1, <2>2
<1>8. Traces' = Traces
  <2>1. travelling \subseteq travelling'
    BY <1>6
  <2> QED
    BY <1>7, <2>1 DEF Traces
<1>9. RouteTypeInv' /\ RouteInv' /\ H' = H /\ Asked' = Asked
  BY <1>0, <1>1, <1>2, RouteFrame
<1>10. TypeInv'
  <2>1. travelling' \subseteq PacketType
    BY <1>0, <1>7 DEF TypeInv
  <2>2. nextUid' \in Nat
    BY <1>1, <1>2
  <2> QED
    BY <1>0, <1>1, <1>6, <1>9, <2>1, <2>2 DEF TypeInv, MobileTypeOK
<1>11. CallsInv'
  BY <1>0, <1>1, <1>2, CallsShrink DEF CallsInv
<1>12. QueueInv'
  <2>1. \A f \in travelling' : f.at >= now'
    BY <1>0, <1>1, <1>2, <1>7 DEF QueueInv
  <2> QED
    BY <1>0, <1>1, <1>8, <2>1 DEF QueueInv
<1>13. CatchUpInv' /\ AliveInv'
  BY <1>0, <1>1, <1>6, <1>8, <1>9, KeepsUp
<1>14. CausalInv'
  <2>1. ASSUME handovers' = 0
        PROVE  \A f \in travelling' : f.port = ap'
    BY <1>0, <1>1, <1>4, <1>7, <2>1 DEF CausalInv
  <2>2. ASSUME handovers' = 1, NEW f \in travelling', f.kind = "interest", f.port = ap'
        PROVE  f.at >= moved + Smallest(UpDelay) + Smallest(InterestDelay)
    <3>1. CASE f \in travelling
      BY <1>0, <1>1, <2>2, <3>1 DEF CausalInv
    <3>2. CASE f \notin travelling
      <4>1. /\ f.port = port /\ f.at \in Nat /\ f.at >= now + Smallest(InterestDelay)
            /\ Smallest(InterestDelay) \in Nat
        BY <1>7, <3>2
      <4>2. now >= moved + Smallest(UpDelay)
        BY <1>0, <1>1, <1>4, <2>2, <4>1 DEF CausalInv
      <4> QED
        BY <1>2, <4>1, <4>2, UpDelays
    <3> QED
      BY <3>1, <3>2
  <2> QED
    BY <1>0, <1>1, <1>8, <1>9, <2>1, <2>2 DEF CausalInv
<1> QED
  BY <1>9, <1>10, <1>11, <1>12, <1>13, <1>14 DEF RouteMobileInv

\* The mobile sends a trace, whatever made it do so.
LEMMA SentStep ==
  ASSUME RouteMobileInv, NEW rest \in SUBSET calls, SendTrace(rest), TakeUids,
         traceRetryCnt' \in 0..3,
         Travels(travelling, nextUid + 2, UpDelay, "trace", seq, ap),
         UNCHANGED <<now, placeVars, routeVars, abandoned>>
  PROVE  RouteMobileInv'
<1>0. /\ TypeInv /\ CallsInv /\ QueueInv /\ RouteInv /\ CatchUpInv /\ AliveInv /\ CausalInv
  BY DEF RouteMobileInv
<1>1. /\ nextUid' = nextUid + 4 /\ seq' = seq + 1 /\ sentAt' = now
      /\ UNCHANGED <<now, ap, moved, handovers, highest, pending, requested, installed, abandoned>>
      /\ UNCHANGED <<refreshInterval, active, hoAnchor, waiting, handoverDelays>>
  BY DEF SendTrace, TakeUids, placeVars, routeVars, delayVars
<1>2. /\ now \in Nat /\ seq \in Nat /\ seq >= 1 /\ nextUid \in Nat /\ moved \in Nat /\ moved <= now
      /\ \A c \in calls : c.at \in Nat
      /\ losses \in Nat /\ handovers \in Nat /\ refreshInterval \in Nat /\ TraceDelay \in Nat
      /\ sentAt \in Nat /\ ap \in Port /\ H \in Int /\ TraceLifetime \in Nat
      /\ \A m \in Asked : m.seq \in Nat /\ m.expiry \in Nat
      /\ Largest(UpDelay) \in Nat /\ Smallest(UpDelay) \in Nat
  BY <1>0, MobileTypes, UpDelays
<1>3. /\ calls' \subseteq MobileCall /\ CallsInv'
      /\ refreshEvent' \in Nat \cup {NoTimer} /\ timeoutEvent' \in Nat \cup {NoTimer}
      /\ refreshInterval # 0 =>
            \E c \in calls' : c.call = "SendTrace" /\ c.at = now + refreshInterval
  BY <1>0, <1>1, SendEffect
<1>4. RouteTypeInv' /\ RouteInv' /\ H' = H /\ Asked' = Asked
  BY <1>0, <1>1, <1>2, RouteFrame
\* Either the trace q is under way, or it is lost.
<1>5. \/ travelling' = travelling /\ losses' = losses + 1
      \/ /\ losses' = losses
         /\ \E q \in PacketType :
               /\ travelling' = travelling \cup {q} /\ q.kind = "trace" /\ q.seq = seq
               /\ q.port = ap /\ q.at \in Nat /\ now + Smallest(UpDelay) <= q.at
               /\ q.at <= now + Largest(UpDelay)
  <2>1. ASSUME NEW d \in UpDelay,
               travelling' = travelling \cup {Packet(nextUid + 2, d, "trace", seq, ap)}
        PROVE  \E q \in PacketType :
                  /\ travelling' = travelling \cup {q} /\ q.kind = "trace" /\ q.seq = seq
                  /\ q.port = ap /\ q.at \in Nat /\ now + Smallest(UpDelay) <= q.at
                  /\ q.at <= now + Largest(UpDelay)
    <3> DEFINE q == Packet(nextUid + 2, d, "trace", seq, ap)
    <3>1. d \in Nat /\ Smallest(UpDelay) <= d /\ d <= Largest(UpDelay)
      BY UpDelays
    <3>2. q = Packet(nextUid + 2, d, "trace", seq, ap) /\ travelling' = travelling \cup {q}
      BY <2>1
    <3> HIDE DEF q
    <3>3. nextUid + 2 \in Nat
      BY <1>2
    <3>4. /\ q \in PacketType /\ q.at = now + d /\ q.at \in Nat /\ q.kind = "trace"
          /\ q.seq = seq /\ q.port = ap
      BY <1>2, <3>1, <3>2, <3>3 DEF Packet, PacketType
    <3>5. now + Smallest(UpDelay) <= q.at /\ q.at <= now + Largest(UpDelay)
      BY <1>2, <3>1, <3>4
    <3> QED
      BY <3>2, <3>4, <3>5
  <2> QED
    BY <2>1 DEF Travels
<1>6. \A e \in Traces : /\ e.at \in Nat /\ e.seq \in Nat /\ 1 <= e.seq /\ e.seq < seq
                        /\ e.at >= now /\ e \in travelling
  BY <1>0, MobileTypes DEF QueueInv, Traces
<1>7. \A f \in Traces' :
         \/ f \in Traces
         \/ /\ losses' = losses /\ f.seq = seq /\ f.port = ap /\ f.at \in Nat
            /\ now + Smallest(UpDelay) <= f.at /\ f.at <= now + Largest(UpDelay)
  BY <1>5 DEF Traces
<1>8. Traces \subseteq Traces'
  BY <1>5 DEF Traces
<1>9. losses' = losses => \E q \in Traces' : q.seq = seq /\ q.port = ap /\ q.at \in Nat
                                            /\ q.at <= now + Largest(UpDelay)
  BY <1>2, <1>5 DEF Traces
<1>10. TypeInv'
  <2>1. travelling' \subseteq PacketType
    BY <1>0, <1>5 DEF TypeInv
  <2>2. nextUid' \in Nat /\ losses' \in Nat /\ seq' \in Nat /\ seq' >= 1
    BY <1>1, <1>2, <1>5
  <2> QED
    BY <1>0, <1>1, <1>2, <1>3, <1>4, <2>1, <2>2 DEF TypeInv, MobileTypeOK
<1>11. QueueInv'
  <2>1. \A f \in travelling' : f.at >= now'
    BY <1>0, <1>1, <1>2, <1>5 DEF QueueInv
  <2>2. \A f \in Traces' : 1 <= f.seq /\ f.seq < seq'
    BY <1>1, <1>2, <1>6, <1>7
  <2>3. \A f \in Traces' : f.seq = seq' - 1 => f.at >= sentAt' + Smallest(UpDelay)
    <3>1. seq' - 1 = seq /\ sentAt' = now
      BY <1>1, <1>2
    <3>2. \A f \in Traces : f.seq # seq
      BY <1>2, <1>6
    <3> QED
      BY <1>2, <1>7, <3>1, <3>2
  <2> QED
    BY <2>1, <2>2, <2>3 DEF QueueInv
<1>12. H < seq
  BY <1>0 DEF RouteInv
<1>13. CatchUpInv'
  <2> SUFFICES ASSUME Refreshes', handovers' > 0
               PROVE  Follows' \/ Arrives(SendTime + Largest(UpDelay))' \/ Announces(SendTime)'
    BY DEF CatchUpInv
  <2>1. Refreshes /\ handovers > 0 /\ refreshInterval # 0
    BY <1>1, <1>2 DEF Refreshes
  <2>2. /\ SendTime \in Nat /\ SendTime' \in Nat /\ SendTime <= SendTime'
        /\ losses' # losses => SendTime' = SendTime + refreshInterval
    <3> DEFINE x == losses * refreshInterval
               y == losses' * refreshInterval'
    <3>1. x \in Nat /\ (losses + 1) * refreshInterval = x + refreshInterval
      BY <1>2, SendTimeGrows
    <3>2. y = x \/ y = x + refreshInterval
      BY <1>1, <1>5, <3>1
    <3>3. losses' # losses => y = x + refreshInterval
      BY <1>1, <1>5, <3>1
    <3>4. SendTime = moved + TraceDelay + x /\ SendTime' = moved + TraceDelay + y
      BY <1>1 DEF SendTime
    <3> HIDE DEF x, y
    <3> QED
      BY <1>2, <3>1, <3>2, <3>3, <3>4
  <2>3. CASE Follows
    BY <1>1, <1>4, <1>7, <2>3 DEF Follows
  <2>4. CASE Arrives(SendTime + Largest(UpDelay))
    <3>1. PICK e \in Traces : /\ e.seq > H /\ e.at <= SendTime + Largest(UpDelay)
                              /\ \A f \in Traces : f.seq >= e.seq => f.port = ap
      BY <2>4 DEF Arrives
    <3>2. e \in Traces' /\ e.at <= SendTime' + Largest(UpDelay)
      BY <1>2, <1>6, <1>8, <2>2, <3>1
    <3>3. \A f \in Traces' : f.seq >= e.seq => f.port = ap'
      BY <1>1, <1>7, <3>1
    <3> QED
      BY <1>4, <3>1, <3>2, <3>3 DEF Arrives
  <2>5. CASE Announces(SendTime)
    <3>1. now <= SendTime
      <4>1. PICK c \in calls : c.call = "SendTrace" /\ c.at <= SendTime
        BY <2>5 DEF Announces
      <4>2. c.at >= now
        BY <1>0 DEF CallsInv
      <4> QED
        BY <1>2, <2>2, <4>1, <4>2
    <3>2. CASE losses' = losses
      <4>1. PICK q \in Traces' : /\ q.seq = seq /\ q.port = ap /\ q.at \in Nat
                                 /\ q.at <= now + Largest(UpDelay)
        BY <1>9, <3>2
      <4>2. q.seq > H' /\ q.at <= SendTime' + Largest(UpDelay)
        BY <1>2, <1>4, <1>12, <2>2, <3>1, <4>1
      <4>3. \A f \in Traces' : f.seq >= q.seq => f.port = ap'
        BY <1>1, <1>2, <1>6, <1>7, <4>1
      <4> QED
        BY <4>2, <4>3 DEF Arrives
    <3>3. CASE losses' # losses
      <4>1. PICK c \in calls' : c.call = "SendTrace" /\ c.at = now + refreshInterval
        BY <1>3, <2>1
      <4>2. c.at <= SendTime'
        BY <1>2, <2>2, <3>1, <3>3, <4>1
      <4> QED
        BY <4>1, <4>2 DEF Announces
    <3> QED
      BY <3>2, <3>3
  <2> QED
    BY <1>0, <2>1, <2>3, <2>4, <2>5 DEF CatchUpInv
<1>14. AliveInv'
  <2> SUFFICES ASSUME Steady'
               PROVE  /\ \A g \in 1..(seq' - 1) : g > H' => \E e \in Traces' : e.seq = g
                      /\ \A e, f \in Traces' : f.seq = e.seq + 1 => f.at <= e.at + Spread'
                      /\ \A m \in Asked' : m.seq = H' =>
                            \/ \E e \in Traces' : e.seq > H' /\ e.at < m.expiry
                            \/ \E c \in calls' : /\ c.call = "SendTrace"
                                                 /\ c.at + Largest(UpDelay) < m.expiry
    BY DEF AliveInv
  <2>1. losses' = losses /\ Steady /\ Spread' = Spread /\ Refreshes
    BY <1>1, <1>2, <1>5 DEF Steady, Spread, Refreshes
  <2>2. PICK q \in Traces' : /\ q.seq = seq /\ q.port = ap /\ q.at \in Nat
                             /\ q.at <= now + Largest(UpDelay)
    BY <1>9, <2>1
  <2>3. /\ \A g \in 1..(seq - 1) : g > H => \E e \in Traces : e.seq = g
        /\ \A e, f \in Traces : f.seq = e.seq + 1 => f.at <= e.at + Spread
        /\ \A m \in Asked : m.seq = H =>
              \/ \E e \in Traces : e.seq > H /\ e.at < m.expiry
              \/ \E c \in calls : c.call = "SendTrace" /\ c.at + Largest(UpDelay) < m.expiry
    BY <1>0, <2>1 DEF AliveInv
  <2>4. ASSUME NEW g \in 1..(seq' - 1), g > H' PROVE \E e \in Traces' : e.seq = g
    <3>1. g = seq \/ g \in 1..(seq - 1)
      BY <1>1, <1>2, <2>4
    <3> QED
      BY <1>4, <1>8, <2>2, <2>3, <2>4, <3>1
  <2>5. ASSUME NEW e \in Traces', NEW f \in Traces', f.seq = e.seq + 1
        PROVE  f.at <= e.at + Spread
    <3>1. CASE e \in Traces /\ f \in Traces
      BY <2>3, <2>5, <3>1
    <3>2. CASE e \notin Traces
      <4>1. e.seq = seq
        BY <1>7, <3>2
      <4>2. f.seq = seq \/ f.seq < seq
        BY <1>6, <1>7
      <4> QED
        BY <1>2, <1>6, <1>7, <2>5, <4>1, <4>2
    <3>3. CASE e \in Traces /\ f \notin Traces
      <4>1. f.seq = seq /\ f.at \in Nat /\ f.at <= now + Largest(UpDelay)
        BY <1>7, <3>3
      <4>2. e.seq = seq - 1 /\ seq > 1
        BY <1>2, <1>6, <2>5, <3>3, <4>1
      <4>3. e.at \in Nat /\ e.at >= sentAt + Smallest(UpDelay)
        BY <1>0, <1>6, <3>3, <4>2 DEF QueueInv
      <4>4. PICK r \in calls : r.at <= sentAt + refreshInterval
        BY <1>0, <2>1, <4>2 DEF CallsInv
      <4>5. now <= sentAt + refreshInterval
        <5>1. r.at >= now
          BY <1>0 DEF CallsInv
        <5> QED
          BY <1>2, <4>4, <5>1
      <4> QED
        BY <1>2, <4>1, <4>3, <4>5 DEF Spread
    <3> QED
      BY <3>1, <3>2, <3>3
  <2>6. ASSUME NEW m \in Asked', m.seq = H'
        PROVE  \E e \in Traces' : e.seq > H' /\ e.at < m.expiry
    <3>1. CASE \E e \in Traces : e.seq > H /\ e.at < m.expiry
      BY <1>4, <1>8, <3>1
    <3>2. CASE \E c \in calls : c.call = "SendTrace" /\ c.at + Largest(UpDelay) < m.expiry
      <4>1. PICK c \in calls : c.at + Largest(UpDelay) < m.expiry
        BY <3>2
      <4>2. c.at >= now /\ m \in Asked
        BY <1>0, <1>4, <2>6 DEF CallsInv
      <4>3. q.at < m.expiry
        BY <1>2, <2>2, <4>1, <4>2
      <4> QED
        BY <1>4, <1>12, <2>2, <4>3
    <3> QED
      BY <1>4, <2>3, <2>6, <3>1, <3>2
  <2> QED
    BY <2>1, <2>4, <2>5, <2>6
<1>15. CausalInv'
  <2>1. ASSUME NEW f \in travelling'
        PROVE  \/ f \in travelling
               \/ f \in Traces' /\ f.kind = "trace" /\ f.port = ap /\ f \notin travelling
    BY <1>5 DEF Traces
  <2>2. ASSUME handovers' = 0 PROVE \A f \in travelling' : f.port = ap'
    BY <1>0, <1>1, <2>1, <2>2 DEF CausalInv
  <2>3. ASSUME handovers' = 1, NEW f \in Traces', f.port = ap'
        PROVE  f.at >= moved + Smallest(UpDelay)
    <3>1. CASE f \in Traces
      BY <1>0, <1>1, <2>3, <3>1 DEF CausalInv
    <3>2. CASE f \notin Traces
      BY <1>2, <1>7, <3>2
    <3> QED
      BY <3>1, <3>2
  <2>4. ASSUME handovers' = 1, NEW f \in travelling', f.kind = "interest", f.port = ap'
        PROVE  f.at >= moved + Smallest(UpDelay) + Smallest(InterestDelay)
    BY <1>0, <1>1, <2>1, <2>4 DEF CausalInv
  <2> QED
    BY <1>0, <1>1, <1>4, <2>2, <2>3, <2>4 DEF CausalInv
<1> QED
  BY <1>3, <1>4, <1>10, <1>11, <1>13, <1>14, <1>15 DEF RouteMobileInv

\* A call of the mobile runs.
LEMMA MobileStepStep ==
  ASSUME RouteMobileInv, NEW c \in calls, Due(c, MobileQueue), MobileStep(c)
  PROVE  RouteMobileInv'
<1>0. /\ TypeInv /\ CallsInv /\ QueueInv /\ RouteInv /\ CatchUpInv /\ AliveInv /\ CausalInv
  BY DEF RouteMobileInv
<1>1. /\ RunMobile(c) /\ TakeUids /\ UNCHANGED <<now, placeVars, routeVars, abandoned>>
      /\ IF seq' # seq THEN Travels(travelling, nextUid + 2, UpDelay, "trace", seq, ap)
                       ELSE UNCHANGED <<travelling, losses>>
  BY DEF MobileStep
<1>2. /\ now \in Nat /\ seq \in Nat /\ nextUid \in Nat /\ \A d \in calls : d.uid \in Nat
      /\ traceRetryCnt \in 0..3 /\ refreshEvent \in Nat \cup {-1} /\ timeoutEvent \in Nat \cup {-1}
  BY <1>0, MobileTypes DEF TypeInv, MobileTypeOK
<1>3. ASSUME NEW rest \in SUBSET calls, SendTrace(rest), traceRetryCnt' \in 0..3
      PROVE  RouteMobileInv'
  <2>1. seq' # seq
    BY <1>2, <1>3 DEF SendTrace
  <2> QED
    BY <1>1, <1>3, <2>1, SentStep
<1>4. CASE RunSendTrace(c)
  BY <1>2, <1>3, <1>4 DEF RunSendTrace
<1>5. CASE OnTraceTimeout(c)
  <2>1. AfterTimeout(c) \in SUBSET calls
    BY DEF AfterTimeout
  <2>2. traceRetryCnt' \in 0..3
    BY <1>2, <1>5 DEF OnTraceTimeout, Exhausted
  <2> QED
    BY <1>3, <1>5, <2>1, <2>2 DEF OnTraceTimeout
<1>6. CASE GiveUpTrace(c)
  <2>1. ~Refreshes
    BY <1>0, <1>6, TimeoutIsDue DEF GiveUpTrace
  <2>2. /\ traceRetryCnt' = 0 /\ calls' \subseteq calls /\ nextUid' = nextUid + 4
        /\ UNCHANGED <<now, ap, moved, handovers, highest, pending, requested, installed,
                       abandoned, travelling, losses>>
        /\ UNCHANGED <<refreshInterval, active, seq, refreshEvent, timeoutEvent, sentAt,
                       hoAnchor, waiting, handoverDelays>>
    BY <1>1, <1>6 DEF GiveUpTrace, AfterTimeout, TakeUids, announceVars, delayVars, placeVars,
       routeVars
  <2>3. RouteTypeInv' /\ RouteInv' /\ H' = H /\ Asked' = Asked
    BY <1>0, <1>2, <2>2, RouteFrame
  <2>4. TypeInv'
    BY <1>0, <1>2, <2>2, <2>3 DEF TypeInv, MobileTypeOK
  <2>5. ~Refreshes'
    BY <2>1, <2>2 DEF Refreshes
  <2>6. CallsInv'
    BY <1>0, <1>2, <2>2, <2>5 DEF CallsInv
  <2>7. Traces' = Traces
    BY <2>2 DEF Traces
  <2>8. QueueInv' /\ CausalInv'
    BY <1>0, <2>2, <2>3, <2>7 DEF QueueInv, CausalInv
  <2>9. CatchUpInv' /\ AliveInv'
    BY <2>5 DEF CatchUpInv, AliveInv, Steady
  <2> QED
    BY <2>3, <2>4, <2>6, <2>8, <2>9 DEF RouteMobileInv
<1> QED
  BY <1>1, <1>4, <1>5, <1>6 DEF RunMobile

\* The answer of a trace passes the switch and goes on, or is lost.
LEMMA TraceAtSwitchStep ==
  ASSUME RouteMobileInv, NEW e \in travelling, e.at = now, TraceAtSwitch(e)
  PROVE  RouteMobileInv'
<1>0. /\ TypeInv /\ CallsInv /\ QueueInv /\ RouteInv /\ CatchUpInv /\ AliveInv /\ CausalInv
  BY DEF RouteMobileInv
<1>1. /\ nextUid' = nextUid + 4 /\ e.kind = "trace" /\ e \in Traces
      /\ Travels(travelling \ {e}, nextUid, DownDelay, "answer", e.seq, e.port)
      /\ UNCHANGED <<now, ap, moved, handovers, abandoned>>
      /\ UNCHANGED <<refreshInterval, active, seq, traceRetryCnt, calls, refreshEvent,
                     timeoutEvent, sentAt, hoAnchor, waiting, handoverDelays>>
  BY DEF TraceAtSwitch, Traces, TakeUids, placeVars, mobileVars, traceVars, delayVars
<1>2. /\ now \in Nat /\ seq \in Nat /\ seq >= 1 /\ nextUid \in Nat /\ moved \in Nat /\ moved <= now
      /\ \A c \in calls : c.at \in Nat
      /\ losses \in Nat /\ handovers \in Nat /\ refreshInterval \in Nat /\ TraceDelay \in Nat
      /\ sentAt \in Nat /\ ap \in Port /\ H \in Int /\ TraceLifetime \in Nat
      /\ \A m \in Asked : m.seq \in Nat /\ m.expiry \in Nat
      /\ Largest(UpDelay) \in Nat /\ Smallest(UpDelay) \in Nat
      /\ e.seq \in Nat /\ e.port \in Port
  BY <1>0, MobileTypes, UpDelays
<1>3. /\ losses' = losses \/ losses' = losses + 1
      /\ \/ travelling' = travelling \ {e}
         \/ \E d \in DownDelay :
               travelling' = (travelling \ {e}) \cup {Packet(nextUid, d, "answer", e.seq, e.port)}
  BY <1>1 DEF Travels
<1>4. /\ travelling \ {e} \subseteq travelling'
      /\ \A f \in travelling' : \/ f \in travelling \ {e}
                                \/ /\ f \in PacketType /\ f.kind = "answer" /\ f.port = e.port
                                   /\ f.at >= now
  <2>1. ASSUME NEW d \in DownDelay, NEW q, q = Packet(nextUid, d, "answer", e.seq, e.port)
        PROVE  q \in PacketType /\ q.kind = "answer" /\ q.port = e.port /\ q.at >= now
    <3>1. d \in Nat
      BY MobileRouteAssumption
    <3> QED
      BY <1>2, <2>1, <3>1 DEF Packet, PacketType
  <2> QED
    BY <1>3, <2>1
<1>5. Traces' = Traces \ {e}
  BY <1>4 DEF Traces
<1>6. \A f \in Traces : /\ f.at \in Nat /\ f.seq \in Nat /\ 1 <= f.seq /\ f.seq < seq
                        /\ f.at >= now /\ f \in travelling
  BY <1>0, MobileTypes DEF QueueInv, Traces
\* The route: the trace is admitted, or changes nothing.
<1>7. /\ RouteTypeInv' /\ RouteInv'
      /\ \/ e.seq <= H /\ H' = H /\ Asked' = Asked
         \/ /\ e.seq > H /\ H' = e.seq
            /\ \E m \in Update : /\ Asked' = Asked \cup {m} /\ m.seq = e.seq /\ m.port = e.port
                                 /\ (TraceLifetime > 0 => m.expiry = now + TraceLifetime)
  <2>1. CASE e.seq > H
    BY <1>0, <1>1, <2>1, AdmitEffect
  <2>2. CASE ~(e.seq > H)
    <3>1. UNCHANGED <<highest, pending, requested, installed>>
      BY <2>2 DEF TraceAtSwitch, routeVars, H
    <3> QED
      BY <1>0, <1>1, <1>2, <2>2, <3>1, RouteFrame
  <2> QED
    BY <2>1, <2>2
<1>8. /\ Asked \subseteq Asked' /\ H' >= H /\ H' \in Int
      /\ \A m \in Asked' : m \in Asked \/ (m.port = e.port /\ m.seq = e.seq /\ e.seq > H)
      /\ \A m \in Asked : m.seq <= H
  BY <1>0, <1>2, <1>7 DEF RouteInv
<1>9. TypeInv'
  <2>1. travelling' \subseteq PacketType
    BY <1>0, <1>4 DEF TypeInv
  <2>2. nextUid' \in Nat /\ losses' \in Nat
    BY <1>1, <1>2, <1>3
  <2> QED
    BY <1>0, <1>1, <1>7, <2>1, <2>2 DEF TypeInv, MobileTypeOK
<1>10. CallsInv'
  BY <1>0, <1>1, <1>2, CallsShrink DEF CallsInv
<1>11. QueueInv'
  <2>1. \A f \in travelling' : f.at >= now'
    BY <1>0, <1>1, <1>4 DEF QueueInv
  <2> QED
    BY <1>0, <1>1, <1>5, <2>1 DEF QueueInv
<1>12. CatchUpInv'
  <2> SUFFICES ASSUME Refreshes', handovers' > 0
               PROVE  Follows' \/ Arrives(SendTime + Largest(UpDelay))' \/ Announces(SendTime)'
    BY DEF CatchUpInv
  <2>1. Refreshes /\ handovers > 0
    BY <1>1, <1>2 DEF Refreshes
  <2>2. SendTime \in Nat /\ SendTime' \in Nat /\ SendTime <= SendTime'
    <3> DEFINE x == losses * refreshInterval
               y == losses' * refreshInterval'
    <3>1. x \in Nat /\ (losses + 1) * refreshInterval = x + refreshInterval
      BY <1>2, SendTimeGrows
    <3>2. y = x \/ y = x + refreshInterval
      BY <1>1, <1>3, <3>1
    <3>3. SendTime = moved + TraceDelay + x /\ SendTime' = moved + TraceDelay + y
      BY <1>1 DEF SendTime
    <3> HIDE DEF x, y
    <3> QED
      BY <1>2, <3>1, <3>2, <3>3
  \* From an admitted trace on that is followed by none for another access point.
  <2>3. ASSUME e.seq > H, \A f \in Traces : f.seq >= e.seq => f.port = ap
        PROVE  Follows'
    <3>1. H' = e.seq /\ e.port = ap
      BY <1>1, <1>2, <1>7, <2>3
    <3>2. \A m \in Asked' : m.seq = H' => m.port = ap'
      BY <1>1, <1>2, <1>8, <2>3, <3>1
    <3>3. \A f \in Traces' : f.seq > H' => f.port = ap'
      BY <1>1, <1>2, <1>5, <1>6, <2>3, <3>1
    <3> QED
      BY <3>2, <3>3 DEF Follows
  <2>4. CASE Follows
    <3>1. CASE e.seq > H
      <4>1. \A f \in Traces : f.seq >= e.seq => f.port = ap
        BY <1>2, <1>6, <2>4, <3>1 DEF Follows
      <4> QED
        BY <2>3, <3>1, <4>1
    <3>2. CASE ~(e.seq > H)
      <4>1. H' = H /\ Asked' = Asked
        BY <1>7, <3>2
      <4> QED
        BY <1>1, <1>5, <2>4, <4>1 DEF Follows
    <3> QED
      BY <3>1, <3>2
  <2>5. CASE Arrives(SendTime + Largest(UpDelay))
    <3>1. PICK q \in Traces : /\ q.seq > H /\ q.at <= SendTime + Largest(UpDelay)
                              /\ \A f \in Traces : f.seq >= q.seq => f.port = ap
      BY <2>5 DEF Arrives
    <3>2. CASE e.seq >= q.seq
      <4>1. e.seq > H /\ \A f \in Traces : f.seq >= e.seq => f.port = ap
        BY <1>2, <1>6, <3>1, <3>2
      <4> QED
        BY <2>3, <4>1
    <3>3. CASE e.seq < q.seq
      <4>1. q \in Traces' /\ q.seq > H'
        BY <1>2, <1>5, <1>6, <1>7, <3>1, <3>3
      <4>2. q.at <= SendTime' + Largest(UpDelay)
        BY <1>2, <1>6, <2>2, <3>1
      <4>3. \A f \in Traces' : f.seq >= q.seq => f.port = ap'
        BY <1>1, <1>5, <3>1
      <4> QED
        BY <4>1, <4>2, <4>3 DEF Arrives
    <3> QED
      BY <1>2, <1>6, <3>2, <3>3
  <2>6. CASE Announces(SendTime)
    <3>1. PICK c \in calls : c.call = "SendTrace" /\ c.at <= SendTime
      BY <2>6 DEF Announces
    <3>2. c \in calls' /\ c.at <= SendTime'
      BY <1>1, <1>2, <2>2, <3>1
    <3> QED
      BY <3>1, <3>2 DEF Announces
  <2> QED
    BY <1>0, <2>1, <2>4, <2>5, <2>6 DEF CatchUpInv
<1>13. AliveInv'
  <2> SUFFICES ASSUME Steady'
               PROVE  /\ \A g \in 1..(seq' - 1) : g > H' => \E f \in Traces' : f.seq = g
                      /\ \A d, f \in Traces' : f.seq = d.seq + 1 => f.at <= d.at + Spread'
                      /\ \A m \in Asked' : m.seq = H' =>
                            \/ \E f \in Traces' : f.seq > H' /\ f.at < m.expiry
                            \/ \E c \in calls' : /\ c.call = "SendTrace"
                                                 /\ c.at + Largest(UpDelay) < m.expiry
    BY DEF AliveInv
  <2>1. losses' = losses /\ Steady /\ Spread' = Spread /\ Refreshes
    BY <1>1, <1>2, <1>3 DEF Steady, Spread, Refreshes
  <2>2. /\ \A g \in 1..(seq - 1) : g > H => \E f \in Traces : f.seq = g
        /\ \A d, f \in Traces : f.seq = d.seq + 1 => f.at <= d.at + Spread
        /\ \A m \in Asked : m.seq = H =>
              \/ \E f \in Traces : f.seq > H /\ f.at < m.expiry
              \/ \E c \in calls : c.call = "SendTrace" /\ c.at + Largest(UpDelay) < m.expiry
    BY <1>0, <2>1 DEF AliveInv
  <2>3. Spread < TraceLifetime /\ TraceLifetime > 0 /\ Spread \in Int
    BY <1>2, <2>1 DEF Steady, Refreshes, Spread
  <2>4. ASSUME NEW g \in 1..(seq' - 1), g > H' PROVE \E f \in Traces' : f.seq = g
    <3>1. g \in 1..(seq - 1) /\ g > H
      BY <1>1, <1>2, <1>8, <2>4
    <3>2. PICK f \in Traces : f.seq = g
      BY <2>2, <3>1
    <3>3. f # e
      BY <1>2, <1>7, <2>4, <3>2
    <3> QED
      BY <1>5, <3>2, <3>3
  <2>5. \A d, f \in Traces' : f.seq = d.seq + 1 => f.at <= d.at + Spread
    BY <1>5, <2>2
  <2>6. ASSUME NEW m \in Asked', m.seq = H'
        PROVE  \/ \E f \in Traces' : f.seq > H' /\ f.at < m.expiry
               \/ \E c \in calls' : c.call = "SendTrace" /\ c.at + Largest(UpDelay) < m.expiry
    <3>1. CASE e.seq <= H
      <4>1. H' = H /\ Asked' = Asked
        BY <1>2, <1>7, <3>1
      <4>2. \A f \in Traces : f.seq > H => f \in Traces'
        BY <1>2, <1>5, <3>1
      <4> QED
        BY <1>1, <2>2, <2>6, <4>1, <4>2
    <3>2. CASE e.seq > H
      <4>1. H' = e.seq /\ m.expiry = now + TraceLifetime
        <5>1. H' = e.seq /\ m \notin Asked
          BY <1>2, <1>7, <1>8, <2>6, <3>2
        <5>2. PICK n \in Update : /\ Asked' = Asked \cup {n}
                                  /\ (TraceLifetime > 0 => n.expiry = now + TraceLifetime)
          BY <1>2, <1>7, <3>2
        <5> QED
          BY <2>3, <2>6, <5>1, <5>2
      <4>2. CASE e.seq = seq - 1
        <5>1. e.at >= sentAt + Smallest(UpDelay) /\ seq > 1
          BY <1>0, <1>1, <1>2, <1>6, <4>2 DEF QueueInv
        <5>2. PICK r \in calls : r.call = "SendTrace" /\ r.at <= sentAt + refreshInterval
          BY <1>0, <2>1, <5>1 DEF CallsInv
        <5>3. r.at + Largest(UpDelay) < m.expiry
          <6>1. now >= sentAt + Smallest(UpDelay)
            BY <5>1
          <6>2. refreshInterval + Largest(UpDelay) - Smallest(UpDelay) < TraceLifetime
            BY <2>3 DEF Spread
          <6> QED
            BY <1>2, <4>1, <5>2, <6>1, <6>2
        <5> QED
          BY <1>1, <5>2, <5>3
      <4>3. CASE e.seq # seq - 1
        <5>1. e.seq + 1 \in 1..(seq - 1) /\ e.seq + 1 > H
          BY <1>1, <1>2, <1>6, <3>2, <4>3
        <5>2. PICK f \in Traces : f.seq = e.seq + 1
          BY <2>2, <5>1
        <5>3. f.at <= e.at + Spread /\ f # e
          BY <1>1, <1>2, <2>2, <5>2
        <5>4. f.at < m.expiry
          BY <1>2, <1>6, <2>3, <4>1, <5>3
        <5>5. f \in Traces' /\ f.seq > H'
          BY <1>2, <1>5, <4>1, <5>2, <5>3
        <5> QED
          BY <5>4, <5>5
      <4> QED
        BY <4>2, <4>3
    <3> QED
      BY <1>2, <3>1, <3>2
  <2> QED
    BY <2>1, <2>4, <2>5, <2>6
<1>14. CausalInv'
  <2>1. ASSUME handovers' = 0
        PROVE  /\ \A f \in travelling' : f.port = ap'
               /\ \A m \in Asked' : m.port = ap'
    BY <1>0, <1>1, <1>4, <1>8, <2>1 DEF CausalInv
  <2>2. ASSUME handovers' = 1, NEW m \in Asked', m.port = ap'
        PROVE  now >= moved + Smallest(UpDelay)
    BY <1>0, <1>1, <1>8, <2>2 DEF CausalInv
  <2>3. ASSUME handovers' = 1, NEW f \in travelling', f.kind = "interest", f.port = ap'
        PROVE  f.at >= moved + Smallest(UpDelay) + Smallest(InterestDelay)
    BY <1>0, <1>1, <1>4, <2>3 DEF CausalInv
  <2> QED
    BY <1>0, <1>1, <1>5, <2>1, <2>2, <2>3 DEF CausalInv
<1> QED
  BY <1>7, <1>9, <1>10, <1>11, <1>12, <1>13, <1>14 DEF RouteMobileInv

--------------------------------------------------------------------------------
(* The theorems *)

\* Every step keeps the invariant.
LEMMA RouteMobileStep ==
  ASSUME RouteMobileInv, [MobileRouteNext]_allMobileVars
  PROVE  RouteMobileInv'
<1>1. CASE MobileRouteNext
  <2>1. CASE Attach
    BY <2>1, AttachStep
  <2>2. CASE \E port \in Port : DoHandover(port)
    BY <2>2, HandoverStep
  <2>3. CASE InterestAtSwitch
    BY <2>3, InterestStep
  <2>4. CASE RouteStep
    BY <2>4, RouteStepStep
  <2>5. CASE \E c \in calls : Due(c, MobileQueue) /\ MobileStep(c)
    BY <2>5, MobileStepStep
  <2>6. CASE \E e \in travelling : Due(e, MobileQueue) /\ (TraceAtSwitch(e) \/ AtMobile(e))
    <3>1. PICK e \in travelling : e.at = now /\ (TraceAtSwitch(e) \/ AtMobile(e))
      BY <2>6 DEF Due
    <3> QED
      BY <3>1, TraceAtSwitchStep, AtMobileStep
  <2>7. CASE MobileRouteTick
    BY <2>7, TickStep
  <2> QED
    BY <1>1, <2>1, <2>2, <2>3, <2>4, <2>5, <2>6, <2>7 DEF MobileRouteNext
<1>2. CASE UNCHANGED allMobileVars
  <2>1. /\ UNCHANGED <<now, nextUid, refreshInterval, active, seq, traceRetryCnt, calls,
                       refreshEvent, timeoutEvent, sentAt, hoAnchor, waiting, handoverDelays>>
        /\ UNCHANGED <<ap, moved, handovers, losses, travelling, highest, pending, requested,
                       installed, abandoned>>
    BY <1>2 DEF allMobileVars, mobileVars, traceVars, delayVars, placeVars, routeVars
  <2>2. /\ H' = H /\ Asked' = Asked /\ Open' = Open /\ Placed' = Placed /\ Traces' = Traces
        /\ (Refreshes' <=> Refreshes) /\ (Abandoned' <=> Abandoned)
        /\ Spread' = Spread /\ SendTime' = SendTime
    BY <2>1 DEF H, Asked, Open, Placed, Traces, Refreshes, Abandoned, Spread, SendTime
  <2>3. TypeInv' /\ CallsInv' /\ QueueInv' /\ RouteInv'
    BY <2>1, <2>2 DEF RouteMobileInv, TypeInv, MobileTypeOK, RouteTypeInv, CallsInv, QueueInv,
       RouteInv
  <2>4. CatchUpInv'
    BY <2>1, <2>2 DEF RouteMobileInv, CatchUpInv, Follows, Arrives, Announces
  <2>5. AliveInv' /\ CausalInv'
    BY <2>1, <2>2 DEF RouteMobileInv, AliveInv, Steady, CausalInv
  <2> QED
    BY <2>3, <2>4, <2>5 DEF RouteMobileInv
<1> QED
  BY <1>1, <1>2

\* The invariant holds in every state.
LEMMA RouteMobileInvariant == MobileRouteSpec => []RouteMobileInv
<1>1. RouteMobileInv /\ [MobileRouteNext]_allMobileVars => RouteMobileInv'
  BY RouteMobileStep
<1> QED
  BY <1>1, RouteMobileInitially, PTL DEF MobileRouteSpec

\* The route that steers is the newest, or one whose lease has ended.
LEMMA SteersNewest ==
  ASSUME RouteMobileInv, Refreshes, ~Abandoned
  PROVE  /\ \A port \in Steers : \E m \in Asked : m.seq = H /\ m.port = port
         /\ H > 0 => \E m \in Asked : m.seq = H /\ (m.expiry > now => Steers # {})
<1>0. TypeInv /\ RouteInv
  BY DEF RouteMobileInv
<1>1. /\ TraceLifetime \in Nat /\ refreshInterval \in Nat /\ now \in Nat /\ H \in Int
      /\ Asked \subseteq Update
      /\ \A m \in Asked : m.seq \in Nat /\ m.expiry \in Nat /\ m # None
      /\ Open \in Asked \cup {None} /\ Placed \in Asked \cup {None}
  BY <1>0, MobileTypes, UpdateIsSome DEF TypeInv, RouteTypeInv
<1>2. TraceLifetime > 0
  BY <1>1 DEF Refreshes
<1>3. /\ H = -1 \/ \E m \in Asked : m.seq = H
      /\ \A m \in Asked : 1 <= m.seq /\ m.seq <= H
      /\ Open # None => Open.seq = H
      /\ \A m \in Asked : 0 < m.expiry
      /\ \A m, n \in Asked : m.seq <= n.seq => m.expiry <= n.expiry
      /\ Open = None /\ ~Abandoned => \/ H = -1 \/ (Placed # None /\ Placed.seq = H)
                                      \/ \A m \in Asked : m.expiry <= now
  BY <1>0, <1>2 DEF RouteInv
<1>4. \A m \in Asked : Valid(m) <=> now < m.expiry
  BY <1>1, <1>3 DEF Valid, None, Route!IsExpiredAt, Route!NoLease
<1>5. ~Valid(None)
  BY DEF Valid, None
<1>6. Steers = IF Valid(Open) THEN {Open.port} ELSE IF Valid(Placed) THEN {Placed.port} ELSE {}
  BY DEF Steers, Open, Placed
<1>7. ASSUME NEW port \in Steers PROVE \E m \in Asked : m.seq = H /\ m.port = port
  <2>1. CASE Valid(Open)
    BY <1>1, <1>3, <1>5, <1>6, <2>1
  <2>2. CASE ~Valid(Open)
    <3>1. Valid(Placed) /\ port = Placed.port /\ Placed \in Asked
      BY <1>1, <1>5, <1>6, <1>7, <2>2
    <3>2. now < Placed.expiry
      BY <1>4, <3>1
    <3>3. Open = None
      <4>1. ASSUME Open \in Asked PROVE FALSE
        <5>1. Open.seq = H /\ Placed.seq <= Open.seq /\ Placed.expiry <= Open.expiry
          BY <1>1, <1>3, <3>1, <4>1
        <5> QED
          BY <1>1, <1>4, <2>2, <3>1, <3>2, <4>1, <5>1
      <4> QED
        BY <1>1, <4>1
    <3>4. H # -1
      BY <1>1, <1>3, <3>1
    <3>5. Placed.seq = H
      BY <1>1, <1>3, <3>1, <3>2, <3>3, <3>4
    <3> QED
      BY <3>1, <3>5
  <2> QED
    BY <2>1, <2>2
<1>8. ASSUME H > 0
      PROVE  \E m \in Asked : m.seq = H /\ (m.expiry > now => Steers # {})
  <2>1. PICK m \in Asked : m.seq = H
    BY <1>1, <1>3, <1>8
  <2>2. ASSUME m.expiry > now PROVE Steers # {}
    <3>1. ASSUME NEW n \in Asked, n.seq = H PROVE Valid(n)
      <4>1. m.expiry <= n.expiry
        BY <1>1, <1>3, <2>1, <3>1
      <4> QED
        BY <1>1, <1>4, <2>2, <4>1
    <3>2. CASE Open # None
      BY <1>1, <1>3, <1>6, <3>1, <3>2
    <3>3. CASE Open = None
      <4>1. ~(m.expiry <= now)
        BY <1>1, <2>2
      <4>2. Placed # None /\ Placed.seq = H
        BY <1>1, <1>3, <1>8, <3>3, <4>1
      <4>3. Valid(Placed)
        BY <1>1, <3>1, <4>2
      <4> QED
        BY <1>6, <4>3
    <3> QED
      BY <3>2, <3>3
  <2> QED
    BY <2>1, <2>2
<1> QED
  BY <1>7, <1>8

\* A handover takes effect in time: once the trace of the association, or the refresh after
\* the losses that there were, had time to pass it, the switch sends Interests (Steers) to
\* no other access point than the present one, however late answers of older traces come.
THEOREM HandoverTakesEffect == MobileRouteSpec => []RouteCatchesUp
<1>1. ASSUME RouteMobileInv PROVE RouteCatchesUp
  <2> SUFFICES ASSUME Refreshes, handovers > 0, now > moved + ReactionTime, ~Abandoned
               PROVE  Steers \subseteq {ap}
    BY DEF RouteCatchesUp
  <2>0. TypeInv /\ CallsInv /\ QueueInv /\ CatchUpInv
    BY <1>1 DEF RouteMobileInv
  <2>1. /\ now \in Nat /\ moved \in Nat /\ losses \in Nat /\ refreshInterval \in Nat
        /\ TraceDelay \in Nat /\ Largest(UpDelay) \in Nat
        /\ \A c \in calls : c.at \in Nat /\ c.at >= now
        /\ \A e \in Traces : e.at \in Nat /\ e.at >= now
    BY <2>0, MobileTypes, UpDelays DEF CallsInv, QueueInv, Traces
  <2>2. now > SendTime + Largest(UpDelay) /\ SendTime \in Nat
    <3> DEFINE x == losses * refreshInterval
    <3>1. x \in Nat
      BY <2>1, SendTimeGrows
    <3>2. SendTime = moved + TraceDelay + x /\ ReactionTime = TraceDelay + x + Largest(UpDelay)
      BY DEF SendTime, ReactionTime
    <3> HIDE DEF x
    <3> QED
      BY <2>1, <3>1, <3>2
  <2>3. ~Arrives(SendTime + Largest(UpDelay))
    BY <2>1, <2>2 DEF Arrives
  <2>4. ~Announces(SendTime)
    BY <2>1, <2>2 DEF Announces
  <2>5. Follows
    BY <2>0, <2>3, <2>4 DEF CatchUpInv
  <2>6. \A port \in Steers : \E m \in Asked : m.seq = H /\ m.port = port
    BY <1>1, SteersNewest
  <2> QED
    BY <2>5, <2>6 DEF Follows
<1>2. RouteMobileInv => RouteCatchesUp
  BY <1>1
<1> QED
  BY <1>2, RouteMobileInvariant, PTL

\* Refreshes keep the route alive: while no packet is lost and the paths differ by less than
\* the lease outlasts a refresh, the switch has a route (Steers) from its first update on.
THEOREM RefreshesKeepTheRoute == MobileRouteSpec => []RouteNeverLapses
<1>1. ASSUME RouteMobileInv PROVE RouteNeverLapses
  <2> SUFFICES ASSUME Refreshes, losses = 0, ~Abandoned, H > 0,
                      refreshInterval + Largest(UpDelay) - Smallest(UpDelay) < TraceLifetime
               PROVE  Steers # {}
    BY DEF RouteNeverLapses, H
  <2>0. TypeInv /\ CallsInv /\ QueueInv /\ AliveInv
    BY <1>1 DEF RouteMobileInv
  <2>1. Steady
    BY DEF Steady, Spread
  <2>2. PICK m \in Asked : m.seq = H /\ (m.expiry > now => Steers # {})
    BY <1>1, SteersNewest
  <2>3. /\ now \in Nat /\ m.expiry \in Nat /\ Largest(UpDelay) \in Nat
        /\ \A c \in calls : c.at \in Nat /\ c.at >= now
        /\ \A e \in Traces : e.at \in Nat /\ e.at >= now
    BY <2>0, MobileTypes, UpDelays DEF CallsInv, QueueInv, Traces
  <2>4. \/ \E e \in Traces : e.seq > H /\ e.at < m.expiry
        \/ \E c \in calls : c.call = "SendTrace" /\ c.at + Largest(UpDelay) < m.expiry
    BY <2>0, <2>1, <2>2 DEF AliveInv
  <2>5. m.expiry > now
    BY <2>3, <2>4
  <2> QED
    BY <2>2, <2>5
<1>2. RouteMobileInv => RouteNeverLapses
  BY <1>1
<1> QED
  BY <1>2, RouteMobileInvariant, PTL

\* OnInterest measures the new path: the sample after the only handover is no less than the
\* way of a trace up to the switch and of an Interest down again.
THEOREM HandoverDelayIsOfNewPath == MobileRouteSpec => HandoverDelayIsCausal
<1> DEFINE P == handoverDelays' # handoverDelays /\ handovers = 1 =>
                  handoverDelays'[Len(handoverDelays')] >=
                      Smallest(UpDelay) + Smallest(InterestDelay)
<1>1. ASSUME RouteMobileInv, [MobileRouteNext]_allMobileVars, handoverDelays' # handoverDelays,
             handovers = 1
      PROVE  handoverDelays'[Len(handoverDelays')] >= Smallest(UpDelay) + Smallest(InterestDelay)
  <2>1. \E e \in travelling : Due(e, MobileQueue) /\ AtMobile(e)
    BY <1>1 DEF MobileRouteNext, Attach, DoHandover, InterestAtSwitch, RouteStep, MobileStep,
       TraceAtSwitch, MobileRouteTick, OnAssociation, RunMobile, RunSendTrace, OnTraceTimeout,
       GiveUpTrace, SendTrace, allMobileVars, mobileVars, delayVars, announceVars
  <2>2. PICK e \in travelling : e.at = now /\ AtMobile(e)
    BY <2>1 DEF Due
  <2>3. /\ e.kind = "interest" /\ e.port = ap
        /\ handoverDelays' = Append(handoverDelays, now - Anchor)
    BY <1>1, <2>2 DEF AtMobile, OnData, OnInterest, mobileVars, announceVars, delayVars
  <2>4. TypeInv /\ CausalInv
    BY <1>1 DEF RouteMobileInv
  <2>5. hoAnchor = moved /\ e.at >= moved + Smallest(UpDelay) + Smallest(InterestDelay)
    BY <1>1, <2>3, <2>4 DEF CausalInv
  <2>6. moved \in Nat /\ now \in Nat /\ handoverDelays \in Seq(Int)
    BY <2>4 DEF TypeInv
  <2>7. Anchor = moved
    BY <2>5, <2>6 DEF Anchor
  <2>8. now - moved \in Int
    BY <2>6
  <2>9. handoverDelays'[Len(handoverDelays')] = now - moved
    BY <2>3, <2>6, <2>7, <2>8
  <2>10. Smallest(UpDelay) \in Nat /\ Smallest(InterestDelay) \in Nat
    <3>1. \E d \in InterestDelay : TRUE
      BY MobileRouteAssumption
    <3> QED
      BY <3>1, UpDelays, InterestDelays
  <2>11. now - moved >= Smallest(UpDelay) + Smallest(InterestDelay)
    BY <2>2, <2>5, <2>6, <2>10
  <2> QED
    BY <2>9, <2>11
<1>2. RouteMobileInv /\ [MobileRouteNext]_allMobileVars => [P]_handoverDelays
  BY <1>1
<1> HIDE DEF P
<1>3. MobileRouteSpec => [][P]_handoverDelays
  BY <1>2, RouteMobileInvariant, PTL DEF MobileRouteSpec
<1> QED
  BY <1>3 DEF HandoverDelayIsCausal, P
================================================================================
