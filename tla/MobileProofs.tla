------------------------------ MODULE MobileProofs -----------------------------
(***************************************************************************)
(* The mobile producers, StatimMobile and KitePullMobile, run one chain of   *)
(* traces, watch the newest one and fall silent only for a reason, whatever  *)
(* the lifetimes, the refresh and the order of associations and answers.     *)
(***************************************************************************)
EXTENDS MobileTraces, FiniteSetTheorems, TLAPS

USE DEF NoTimer, MaxTraceRetries, Newest

--------------------------------------------------------------------------------
(* The inductive invariant *)

\* SendTrace sends: a KitePullMobile that is stopped does not.
Sends == ~kite \/ active

TypeInv ==
    /\ now \in Nat /\ nextUid \in Nat /\ MobileTypeOK
    /\ kite \in BOOLEAN /\ associations \in Nat
    /\ timedOut \subseteq Int /\ IsFiniteSet(timedOut)

\* There is one scheduled timeout at most, the one that timeoutEvent names.
CallsInv ==
    /\ \A c \in calls : /\ c.uid < nextUid /\ c.at >= now
                        /\ c.call = "OnTraceTimeout" <=> c.uid = timeoutEvent
                        /\ c.uid \in {refreshEvent, timeoutEvent} \cup unannounced
    /\ \A c, d \in calls : c.uid = d.uid => c = d
    /\ refreshEvent < nextUid /\ timeoutEvent < nextUid

\* A timeout watches a trace that did not time out before; number 0 has no timeout.
NumbersInv ==
    /\ \A c \in calls : c.call = "OnTraceTimeout" => seq >= 2 /\ Newest \notin timedOut
    /\ seq > 0 => \A s \in timedOut : s < seq
    /\ seq = 0 => kite

\* Beside a timeout there is the refresh, which runs first when it is within the lifetime.
RefreshInv ==
    Sends /\ refreshInterval # 0 =>
        \A t \in calls : t.call = "OnTraceTimeout" =>
            \E r \in calls : /\ r.uid = refreshEvent /\ r.uid < t.uid
                             /\ refreshInterval <= TraceLifetime => r.at <= t.at

\* Every retry was for a trace that timed out; a refresh within the lifetime leaves at
\* most one timeout, of a mobile that is stopped.
RetryInv ==
    /\ Sends => traceRetryCnt <= Cardinality(timedOut) /\ (calls = {} => traceRetryCnt = 0)
    /\ refreshInterval \in 1..TraceLifetime =>
          /\ seq > 0
          /\ \/ traceRetryCnt = 0
             \/ traceRetryCnt = 1 /\ ~Sends /\ \A c \in calls : c.call # "OnTraceTimeout"

\* SilenceIsEarned; a KitePullMobile that gives up has no number.
SilenceInv ==
    Newest > 0 /\ calls = {} /\ Sends =>
        \/ refreshInterval = 0 /\ Newest \in answered
        \/ /\ ~kite /\ refreshInterval \notin 1..TraceLifetime
           /\ Newest \in timedOut /\ Cardinality(timedOut) > MaxTraceRetries

\* NewestTraceIsWatched; only of a StatimMobile the next association's trace is sure.
WatchedInv ==
    Newest > 0 /\ Newest \notin answered =>
        \/ \E c \in calls : c.uid = timeoutEvent
        \/ Newest \in timedOut
        \/ ~kite /\ unannounced # {}

MobileInv ==
    /\ TypeInv /\ CallsInv /\ NumbersInv /\ RefreshInv /\ RetryInv /\ SilenceInv
    /\ WatchedInv

\* Before the first association nothing is scheduled.
LEMMA MobileInitially == TracesInit => MobileInv
<1> SUFFICES ASSUME TracesInit PROVE MobileInv
  OBVIOUS
<1>1. /\ now = 0 /\ nextUid = 0 /\ refreshInterval \in RefreshIntervals /\ active = TRUE
      /\ seq = 1 /\ traceRetryCnt = 0 /\ calls = {} /\ refreshEvent = -1 /\ timeoutEvent = -1
      /\ sentAt = 0 /\ hoAnchor = -1 /\ waiting = FALSE /\ kite \in BOOLEAN
      /\ associations = 0 /\ unannounced = {} /\ answered = {} /\ timedOut = {}
  BY DEF TracesInit, SimulatorInit, MobileInit, NoAnchor
<1>2. IsFiniteSet(timedOut) /\ Cardinality(timedOut) = 0
  BY <1>1, FS_EmptySet
<1>3. active \in BOOLEAN /\ waiting \in BOOLEAN
  BY <1>1, Zenon
<1>4. TypeInv
  BY <1>1, <1>2, <1>3 DEF TypeInv, MobileTypeOK, NoAnchor
<1> QED
  BY <1>1, <1>2, <1>4 DEF MobileInv, CallsInv, NumbersInv, RefreshInv, RetryInv, SilenceInv,
     WatchedInv

--------------------------------------------------------------------------------
(* The scheduled calls *)

\* The calls of a step that schedules none.
LEMMA CallsShrink ==
  ASSUME TypeInv, CallsInv, calls' \subseteq calls,
         \A c \in calls' : c.uid \in unannounced => c.uid \in unannounced',
         UNCHANGED <<now, refreshEvent, timeoutEvent>>,
         nextUid' \in Nat, nextUid' >= nextUid
  PROVE  CallsInv'
<1>1. /\ \A c \in calls : c.uid \in Nat
      /\ refreshEvent \in Nat \cup {-1} /\ timeoutEvent \in Nat \cup {-1} /\ nextUid \in Nat
  BY DEF TypeInv, MobileTypeOK, MobileCall
<1> QED
  BY <1>1 DEF CallsInv

\* SendTrace, with some of the calls other than c still scheduled: it leaves its timeout
\* and, when there is a refresh, its refresh, which has the lower identifier.
Sent ==
    /\ calls' \subseteq MobileCall /\ CallsInv'
    /\ refreshEvent' \in Nat \cup {NoTimer} /\ timeoutEvent' \in Nat \cup {NoTimer}
    /\ \E c \in calls' : c.uid = timeoutEvent' /\ c.call = "OnTraceTimeout"
    /\ refreshInterval # 0 =>
          \A t \in calls' : t.call = "OnTraceTimeout" =>
             \E r \in calls' : /\ r.uid = refreshEvent' /\ r.uid < t.uid
                               /\ refreshInterval <= TraceLifetime => r.at <= t.at

\* What SendTrace schedules and cancels.
LEMMA SendEffect ==
  ASSUME TypeInv, CallsInv, NEW rest \in SUBSET calls, SendTrace(rest), TakeUids, UNCHANGED now,
         \A c \in rest : c.uid \in unannounced => c.uid \in unannounced'
  PROVE  Sent
<1>0. /\ now \in Nat /\ nextUid \in Nat /\ calls \subseteq MobileCall
      /\ refreshEvent \in Nat \cup {-1} /\ timeoutEvent \in Nat \cup {-1}
      /\ TraceLifetime \in Nat /\ refreshInterval \in Nat
      /\ now' = now /\ nextUid' = nextUid + 4
      /\ refreshEvent < nextUid /\ timeoutEvent < nextUid
  BY MobileAssumption DEF TypeInv, MobileTypeOK, TakeUids, CallsInv
<1> DEFINE r == MobileCallAt(RefreshUid, refreshInterval, "SendTrace")
           t == MobileCallAt(TimeoutUid, TraceLifetime, "OnTraceTimeout")
           kept == CancelTraceCalls(rest)
<1>1. /\ r \in MobileCall /\ r.uid = nextUid /\ r.at = now + refreshInterval
      /\ r.call = "SendTrace"
      /\ t \in MobileCall /\ t.uid = nextUid + 1 /\ t.at = now + TraceLifetime
      /\ t.call = "OnTraceTimeout"
  BY <1>0 DEF MobileCallAt, RefreshUid, TimeoutUid, MobileCall
<1>2. ASSUME NEW c \in kept
      PROVE  /\ c \in MobileCall /\ c.uid \in Nat /\ c.uid < nextUid /\ c.at \in Nat /\ c.at >= now
             /\ c.call # "OnTraceTimeout" /\ c.uid \in unannounced'
  <2>1. c \in rest /\ c.uid # refreshEvent /\ c.uid # timeoutEvent /\ c \in calls
    BY <1>2 DEF CancelTraceCalls
  <2>2. c \in MobileCall /\ c.uid \in Nat /\ c.at \in Nat
    BY <1>0, <2>1 DEF MobileCall
  <2>3. /\ c.uid < nextUid /\ c.at >= now /\ c.call # "OnTraceTimeout" /\ c.uid \in unannounced
    BY <2>1 DEF CallsInv
  <2> QED
    BY <2>1, <2>2, <2>3
<1>3. \A c, d \in kept : c.uid = d.uid => c = d
  BY DEF CancelTraceCalls, CallsInv
<1>4. /\ calls' = kept \cup (IF refreshInterval # 0 THEN {r} ELSE {}) \cup {t}
      /\ refreshEvent' = (IF refreshInterval # 0 THEN nextUid ELSE refreshEvent)
      /\ timeoutEvent' = nextUid + 1
  BY DEF SendTrace, TraceCalls, RefreshUid, TimeoutUid
<1> HIDE DEF r, t, kept
<1>5. ASSUME NEW c \in calls'
      PROVE  c \in kept \/ (c = r /\ refreshInterval # 0) \/ c = t
  BY <1>4
<1>6. t \in calls' /\ (refreshInterval # 0 => r \in calls')
  BY <1>4
<1>7. CallsInv'
  <2>1. \A c \in calls' : /\ c.uid < nextUid' /\ c.at >= now'
                          /\ (c.call = "OnTraceTimeout" <=> c.uid = timeoutEvent')
    BY <1>0, <1>1, <1>2, <1>4, <1>5
  <2>2. \A c \in calls' : c.uid \in {refreshEvent', timeoutEvent'} \cup unannounced'
    BY <1>1, <1>2, <1>4, <1>5
  <2>3. \A c, d \in calls' : c.uid = d.uid => c = d
    BY <1>0, <1>1, <1>2, <1>3, <1>5
  <2>4. refreshEvent' < nextUid' /\ timeoutEvent' < nextUid'
    BY <1>0, <1>4
  <2> QED
    BY <2>1, <2>2, <2>3, <2>4 DEF CallsInv
<1>8. ASSUME refreshInterval # 0, NEW u \in calls', u.call = "OnTraceTimeout"
      PROVE  \E e \in calls' : /\ e.uid = refreshEvent' /\ e.uid < u.uid
                               /\ refreshInterval <= TraceLifetime => e.at <= u.at
  <2>1. u = t
    BY <1>1, <1>2, <1>5, <1>8
  <2> QED
    BY <1>0, <1>1, <1>4, <1>6, <1>8, <2>1
<1>9. calls' \subseteq MobileCall
  BY <1>1, <1>2, <1>5
<1>10. refreshEvent' \in Nat \cup {-1} /\ timeoutEvent' \in Nat \cup {-1}
  BY <1>0, <1>4
<1> QED
  BY <1>1, <1>4, <1>6, <1>7, <1>8, <1>9, <1>10 DEF Sent

--------------------------------------------------------------------------------
(* The steps *)

\* The mobile sends a trace: the next one, or again after a timeout.
LEMMA SentStep ==
  ASSUME MobileInv, Sends, seq > 0, NEW rest \in SUBSET calls, SendTrace(rest), TakeUids,
         \A c \in rest : c.uid \in unannounced => c.uid \in unannounced',
         UNCHANGED <<now, kite, associations, answered>>,
         \/ UNCHANGED <<traceRetryCnt, timedOut>>
         \/ /\ traceRetryCnt' = traceRetryCnt + 1 /\ ~Exhausted
            /\ timedOut' = timedOut \cup {Newest} /\ Newest \notin timedOut
            /\ refreshInterval \notin 1..TraceLifetime
  PROVE  MobileInv'
<1>0. TypeInv /\ CallsInv /\ NumbersInv /\ RefreshInv /\ RetryInv /\ MobileTypeOK
  BY DEF MobileInv, TypeInv
<1>1. /\ seq' = seq + 1 /\ sentAt' = now /\ now' = now /\ nextUid' = nextUid + 4
      /\ refreshInterval' = refreshInterval /\ active' = active /\ hoAnchor' = hoAnchor
      /\ waiting' = waiting /\ kite' = kite /\ associations' = associations
      /\ answered' = answered
  BY DEF SendTrace, TakeUids, delayVars
<1>2. Sent
  BY <1>0, SendEffect
<1>3. seq \in Nat /\ traceRetryCnt \in 0..3 /\ nextUid \in Nat /\ now \in Nat
  BY <1>0 DEF TypeInv, MobileTypeOK
<1>4. /\ IsFiniteSet(timedOut') /\ timedOut' \subseteq Int /\ traceRetryCnt' \in 0..3
      /\ traceRetryCnt' <= Cardinality(timedOut')
      /\ \A s \in timedOut' : s < seq
      /\ refreshInterval \in 1..TraceLifetime => traceRetryCnt' = 0
  <2>1. /\ Cardinality(timedOut) \in Nat /\ IsFiniteSet(timedOut) /\ timedOut \subseteq Int
        /\ traceRetryCnt <= Cardinality(timedOut)
    BY <1>0, FS_CardinalityType DEF TypeInv, RetryInv
  <2>2. \A s \in timedOut : s < seq
    BY <1>0 DEF NumbersInv
  <2>3. CASE UNCHANGED <<traceRetryCnt, timedOut>>
    BY <1>0, <1>3, <2>1, <2>2, <2>3 DEF RetryInv
  <2>4. CASE /\ traceRetryCnt' = traceRetryCnt + 1 /\ ~Exhausted
             /\ timedOut' = timedOut \cup {Newest} /\ Newest \notin timedOut
             /\ refreshInterval \notin 1..TraceLifetime
    <3>1. IsFiniteSet(timedOut') /\ Cardinality(timedOut') = Cardinality(timedOut) + 1
      BY <2>1, <2>4, FS_AddElement
    <3>2. traceRetryCnt' \in 0..3 /\ traceRetryCnt' <= Cardinality(timedOut')
      BY <1>3, <2>1, <2>4, <3>1 DEF Exhausted
    <3>3. timedOut' \subseteq Int /\ \A s \in timedOut' : s < seq
      BY <1>3, <2>1, <2>2, <2>4
    <3> QED
      BY <2>4, <3>1, <3>2, <3>3
  <2> QED
    BY <2>3, <2>4
<1>5. TypeInv'
  BY <1>0, <1>1, <1>2, <1>3, <1>4 DEF TypeInv, MobileTypeOK, Sent
<1>6. NumbersInv'
  <2>1. Newest' \notin timedOut' /\ seq' >= 2
    BY <1>1, <1>3, <1>4
  <2>2. \A s \in timedOut' : s < seq'
    BY <1>1, <1>3, <1>4
  <2> QED
    BY <1>0, <1>1, <1>3, <2>1, <2>2 DEF NumbersInv
<1>7. RefreshInv'
  BY <1>1, <1>2 DEF RefreshInv, Sent
<1>8. RetryInv'
  BY <1>1, <1>2, <1>3, <1>4 DEF RetryInv, Sent
<1>9. SilenceInv' /\ WatchedInv'
  BY <1>2 DEF SilenceInv, WatchedInv, Sent
<1> QED
  BY <1>2, <1>5, <1>6, <1>7, <1>8, <1>9 DEF MobileInv, Sent

\* A timeout that is due: with a refresh within the lifetime the refresh would have run
\* before it, unless the mobile no longer sends.
LEMMA TimeoutIsDue ==
  ASSUME MobileInv, NEW c \in calls, Due(c, TracesQueue), c.call = "OnTraceTimeout"
  PROVE  /\ c.uid = timeoutEvent /\ seq \in Nat /\ seq >= 2 /\ Newest \notin timedOut
         /\ Sends => refreshInterval \notin 1..TraceLifetime
         /\ AfterTimeout(c) \in SUBSET calls /\ c \notin AfterTimeout(c)
         /\ \A d \in AfterTimeout(c) : d.call # "OnTraceTimeout" /\ d.uid # timeoutEvent
<1>0. TypeInv /\ CallsInv /\ NumbersInv /\ RefreshInv /\ MobileTypeOK
  BY DEF MobileInv, TypeInv
<1>1. c.uid = timeoutEvent /\ seq \in Nat /\ seq >= 2 /\ Newest \notin timedOut
  BY <1>0 DEF CallsInv, NumbersInv, MobileTypeOK
<1>2. ASSUME Sends, refreshInterval \in 1..TraceLifetime PROVE FALSE
  <2>1. refreshInterval # 0 /\ refreshInterval <= TraceLifetime
    BY <1>2, MobileAssumption
  <2>2. PICK r \in calls : r.uid = refreshEvent /\ r.uid < c.uid /\ r.at <= c.at
    BY <1>0, <1>2, <2>1 DEF RefreshInv
  <2>3. r.uid \in Nat /\ c.uid \in Nat /\ r.at \in Nat /\ c.at \in Nat /\ now \in Nat
    BY <1>0 DEF TypeInv, MobileTypeOK, MobileCall
  <2>4. r.at >= now /\ c.at = now
    BY <1>0 DEF CallsInv, Due
  <2>5. r.at = now
    BY <2>2, <2>3, <2>4
  <2>6. c.uid <= r.uid
    BY <2>5 DEF Due, TracesQueue
  <2> QED
    BY <2>2, <2>3, <2>6
<1>3. AfterTimeout(c) \in SUBSET calls /\ c \notin AfterTimeout(c)
  BY DEF AfterTimeout
<1>4. \A d \in AfterTimeout(c) : d.call # "OnTraceTimeout" /\ d.uid # timeoutEvent
  BY <1>0, <1>1 DEF AfterTimeout, CallsInv
<1> QED
  BY <1>1, <1>2, <1>3, <1>4

\* An association schedules its trace; the application is then running.
LEMMA AssociateStep ==
  ASSUME MobileInv, Associate, Sends
  PROVE  MobileInv'
<1>0. /\ TypeInv /\ CallsInv /\ NumbersInv /\ RefreshInv /\ RetryInv /\ SilenceInv
      /\ WatchedInv /\ MobileTypeOK
  BY DEF MobileInv, TypeInv
<1> DEFINE n == MobileCallAt(AssociationUid, TraceDelay, "SendTrace")
<1>2. /\ calls' = calls \cup {n} /\ waiting' = TRUE /\ hoAnchor' = now
      /\ unannounced' = unannounced \cup {c.uid : c \in calls' \ calls}
      /\ timedOut' = (IF calls = {} /\ calls' # {} THEN {} ELSE timedOut)
      /\ nextUid' = nextUid + 4 /\ associations' = associations + 1
      /\ UNCHANGED <<refreshInterval, active, seq, traceRetryCnt, refreshEvent, timeoutEvent,
                     sentAt, now, kite, answered>>
  BY DEF Sends, Associate, KiteOnAssociation, OnAssociation, MarkHandover, TakeUids
<1>3. /\ now \in Nat /\ nextUid \in Nat /\ TraceDelay \in Nat /\ associations \in Nat
      /\ \A c \in calls : c.uid \in Nat /\ c.at \in Nat
      /\ refreshEvent \in Nat \cup {-1} /\ timeoutEvent \in Nat \cup {-1}
      /\ refreshEvent < nextUid /\ timeoutEvent < nextUid
  BY <1>0, MobileAssumption DEF TypeInv, MobileTypeOK, MobileCall, CallsInv
<1>4. n \in MobileCall /\ n.uid = nextUid /\ n.at = now + TraceDelay /\ n.call = "SendTrace"
  BY <1>3 DEF MobileCallAt, AssociationUid, MobileCall
<1> HIDE DEF n
<1>5. n \notin calls /\ n \in calls' /\ n.uid \in unannounced'
  <2>1. n \notin calls
    BY <1>0, <1>3, <1>4 DEF CallsInv
  <2> QED
    BY <1>2, <2>1
<1>6. \A c \in calls' : c \in calls \/ c = n
  BY <1>2
<1>7. CallsInv'
  <2>1. \A c \in calls' : /\ c.uid < nextUid' /\ c.at >= now'
                          /\ (c.call = "OnTraceTimeout" <=> c.uid = timeoutEvent')
    BY <1>0, <1>2, <1>3, <1>4, <1>6 DEF CallsInv
  <2>2. \A c \in calls' : c.uid \in {refreshEvent', timeoutEvent'} \cup unannounced'
    BY <1>0, <1>2, <1>5, <1>6 DEF CallsInv
  <2>3. \A c, d \in calls' : c.uid = d.uid => c = d
    BY <1>0, <1>3, <1>4, <1>6 DEF CallsInv
  <2>4. refreshEvent' < nextUid' /\ timeoutEvent' < nextUid'
    BY <1>2, <1>3
  <2> QED
    BY <2>1, <2>2, <2>3, <2>4 DEF CallsInv
<1>8. timedOut' \subseteq timedOut /\ timedOut' \subseteq Int /\ IsFiniteSet(timedOut')
  BY <1>0, <1>2, FS_EmptySet DEF TypeInv
<1>9. TypeInv'
  <2>1. waiting' \in BOOLEAN
    BY <1>2, Zenon
  <2> QED
    BY <1>0, <1>2, <1>3, <1>4, <1>8, <2>1 DEF TypeInv, MobileTypeOK
<1>10. NumbersInv'
  <2>1. \A c \in calls' : c.call = "OnTraceTimeout" => c \in calls
    BY <1>4, <1>6
  <2> QED
    BY <1>0, <1>2, <1>8, <2>1 DEF NumbersInv
<1>11. RefreshInv'
  <2>1. Sends' <=> Sends
    BY <1>2 DEF Sends
  <2>2. \A t \in calls' : t.call = "OnTraceTimeout" => t \in calls
    BY <1>4, <1>6
  <2>3. calls \subseteq calls'
    BY <1>2
  <2> QED
    BY <1>0, <1>2, <2>1, <2>2, <2>3 DEF RefreshInv
<1>12. RetryInv'
  <2>1. Sends /\ Sends'
    BY <1>2 DEF Sends
  <2>2. traceRetryCnt' <= Cardinality(timedOut')
    <3>1. CASE calls = {}
      BY <1>0, <1>2, <2>1, <3>1, FS_EmptySet DEF RetryInv
    <3>2. CASE calls # {}
      BY <1>0, <1>2, <2>1, <3>2 DEF RetryInv
    <3> QED
      BY <3>1, <3>2
  <2>3. refreshInterval' \in 1..TraceLifetime => seq' > 0 /\ traceRetryCnt' = 0
    BY <1>0, <1>2, <2>1 DEF RetryInv
  <2> QED
    BY <1>5, <2>1, <2>2, <2>3 DEF RetryInv
<1>13. SilenceInv'
  BY <1>5 DEF SilenceInv
<1>14. WatchedInv'
  <2>1. CASE calls = {} /\ kite
    <3>1. Newest > 0 => Newest \in answered
      BY <1>0, <2>1 DEF SilenceInv
    <3> QED
      BY <1>2, <3>1 DEF WatchedInv
  <2>2. CASE calls # {} \/ ~kite
    BY <1>0, <1>2, <1>5, <2>2 DEF WatchedInv
  <2> QED
    BY <2>1, <2>2
<1> QED
  BY <1>7, <1>9, <1>10, <1>11, <1>12, <1>13, <1>14 DEF MobileInv

\* An association of a KitePullMobile that is stopped schedules nothing.
LEMMA StoppedAssociates ==
  ASSUME MobileInv, Associate, ~Sends
  PROVE  MobileInv'
<1>0. /\ TypeInv /\ CallsInv /\ NumbersInv /\ RefreshInv /\ RetryInv /\ SilenceInv
      /\ WatchedInv /\ MobileTypeOK
  BY DEF MobileInv, TypeInv
<1>1. /\ nextUid' = nextUid + 4 /\ associations' = associations + 1 /\ hoAnchor' = now
      /\ unannounced' = unannounced /\ waiting' = TRUE
      /\ UNCHANGED <<refreshInterval, active, seq, traceRetryCnt, refreshEvent, timeoutEvent,
                     calls, sentAt, now, kite, answered, timedOut>>
  BY DEF Sends, Associate, KiteOnAssociation, traceVars, MarkHandover, TakeUids
<1>2. nextUid \in Nat /\ now \in Nat /\ associations \in Nat
  BY <1>0 DEF TypeInv
<1>3. TypeInv'
  <2>1. waiting' \in BOOLEAN
    BY <1>1, Zenon
  <2> QED
    BY <1>0, <1>1, <1>2, <2>1 DEF TypeInv, MobileTypeOK
<1>4. CallsInv'
  <2>1. \A c \in calls : c.uid < nextUid + 4
    BY <1>0, <1>2 DEF CallsInv, TypeInv, MobileTypeOK, MobileCall
  <2>2. refreshEvent < nextUid + 4 /\ timeoutEvent < nextUid + 4
    BY <1>0, <1>2 DEF CallsInv, TypeInv, MobileTypeOK
  <2> QED
    BY <1>0, <1>1, <2>1, <2>2 DEF CallsInv
<1>5. ~Sends'
  BY <1>1 DEF Sends
<1>6. NumbersInv' /\ RefreshInv' /\ SilenceInv' /\ WatchedInv'
  BY <1>0, <1>1, <1>5 DEF NumbersInv, RefreshInv, SilenceInv, WatchedInv
<1>7. RetryInv'
  BY <1>0, <1>1, <1>5 DEF RetryInv
<1> QED
  BY <1>3, <1>4, <1>6, <1>7 DEF MobileInv

\* A call ends without another: a KitePullMobile that is stopped sends nothing.
LEMMA SilentStep ==
  ASSUME MobileInv, ~Sends, NEW c \in calls, calls' \subseteq calls \ {c},
         c.call = "OnTraceTimeout" =>
            /\ timedOut' = timedOut \cup {Newest} /\ traceRetryCnt' = traceRetryCnt + 1
            /\ ~Exhausted /\ \A d \in calls' : d.call # "OnTraceTimeout",
         c.call # "OnTraceTimeout" =>
            calls' = calls \ {c} /\ UNCHANGED <<traceRetryCnt, timedOut>>,
         TakeUids, unannounced \ {c.uid} \subseteq unannounced',
         UNCHANGED <<announceVars, seq, now, kite, associations, answered>>
  PROVE  MobileInv'
<1>0. /\ TypeInv /\ CallsInv /\ NumbersInv /\ RetryInv /\ WatchedInv /\ MobileTypeOK
  BY DEF MobileInv, TypeInv
<1>1. /\ nextUid' = nextUid + 4
      /\ UNCHANGED <<refreshInterval, active, refreshEvent, timeoutEvent, sentAt, hoAnchor,
                     waiting, seq, now, kite, associations, answered>>
  BY DEF TakeUids, announceVars, delayVars
<1>2. seq \in Nat /\ traceRetryCnt \in 0..3 /\ nextUid \in Nat /\ kite /\ ~Sends'
  BY <1>0, <1>1 DEF TypeInv, MobileTypeOK, Sends
<1>3. CallsInv'
  <2>1. \A d \in calls' : d.uid \in unannounced => d.uid \in unannounced'
    BY <1>0 DEF CallsInv
  <2>2. nextUid' \in Nat /\ nextUid' >= nextUid
    BY <1>1, <1>2
  <2> QED
    BY <1>0, <1>1, <2>1, <2>2, CallsShrink
<1>4. /\ timedOut' \subseteq Int /\ IsFiniteSet(timedOut') /\ traceRetryCnt' \in 0..3
  <2>1. CASE c.call = "OnTraceTimeout"
    <3>1. IsFiniteSet(timedOut')
      BY <1>0, <2>1, FS_AddElement DEF TypeInv
    <3>2. timedOut' \subseteq Int
      <4>1. timedOut' = timedOut \cup {seq - 1} /\ timedOut \subseteq Int /\ seq - 1 \in Int
        <5>1. timedOut' = timedOut \cup {seq - 1}
          BY <2>1
        <5> QED
          BY <1>0, <1>2, <5>1 DEF TypeInv
      <4> QED
        BY <4>1
    <3>3. traceRetryCnt' \in 0..3
      BY <1>2, <2>1 DEF Exhausted
    <3> QED
      BY <3>1, <3>2, <3>3
  <2>2. CASE c.call # "OnTraceTimeout"
    BY <1>0, <1>2, <2>2 DEF TypeInv
  <2> QED
    BY <2>1, <2>2
<1>5. TypeInv'
  BY <1>0, <1>1, <1>2, <1>4 DEF TypeInv, MobileTypeOK
<1>6. NumbersInv'
  <2>1. CASE c.call = "OnTraceTimeout"
    <3>1. \A s \in timedOut' : s \in timedOut \/ s = seq - 1
      BY <2>1
    <3> QED
      BY <1>0, <1>1, <1>2, <2>1, <3>1 DEF NumbersInv
  <2>2. CASE c.call # "OnTraceTimeout"
    BY <1>0, <1>1, <2>2 DEF NumbersInv
  <2> QED
    BY <2>1, <2>2
<1>7. RefreshInv' /\ SilenceInv'
  BY <1>2 DEF RefreshInv, SilenceInv
<1>8. RetryInv'
  <2>1. CASE c.call = "OnTraceTimeout"
    BY <1>0, <1>1, <1>2, <2>1 DEF RetryInv
  <2>2. CASE c.call # "OnTraceTimeout"
    BY <1>0, <1>1, <1>2, <2>2 DEF RetryInv
  <2> QED
    BY <2>1, <2>2
<1>9. WatchedInv'
  <2>1. CASE c.call = "OnTraceTimeout"
    BY <1>1, <2>1 DEF WatchedInv
  <2>2. CASE c.call # "OnTraceTimeout"
    BY <1>0, <1>1, <1>2, <2>2 DEF WatchedInv, CallsInv
  <2> QED
    BY <2>1, <2>2
<1> QED
  BY <1>3, <1>5, <1>6, <1>7, <1>8, <1>9 DEF MobileInv

\* The call of an association or a refresh runs SendTrace.
LEMMA AnnounceStep ==
  ASSUME MobileInv, ~Aborted, NEW c \in calls, Due(c, TracesQueue), Announce(c)
  PROVE  MobileInv'
<1>0. TypeInv /\ CallsInv /\ NumbersInv /\ MobileTypeOK
  BY DEF MobileInv, TypeInv
<1>1. /\ c.call = "SendTrace" /\ TakeUids /\ unannounced' = unannounced \ {c.uid}
      /\ UNCHANGED <<now, kite, associations, answered, timedOut, traceRetryCnt>>
      /\ IF kite /\ ~active
         THEN calls' = calls \ {c} /\ UNCHANGED <<announceVars, seq>>
         ELSE SendTrace(calls \ {c})
  BY DEF Announce, KiteRunSendTrace, RunSendTrace, KiteSendTrace, KiteSilent
<1>2. CASE kite /\ ~active
  <2>1. ~Sends
    BY <1>2 DEF Sends
  <2>2. calls' = calls \ {c} /\ UNCHANGED <<announceVars, seq>>
    BY <1>1, <1>2
  <2> QED
    BY <1>1, <2>1, <2>2, SilentStep
<1>3. CASE ~(kite /\ ~active)
  <2>1. Sends /\ SendTrace(calls \ {c})
    BY <1>1, <1>3 DEF Sends
  <2>2. seq > 0
    <3>1. seq \in Nat
      BY <1>0 DEF MobileTypeOK
    <3>2. seq # 0
      BY <1>0, <1>1, <1>3 DEF Aborted, AssertionFails, NumbersInv
    <3> QED
      BY <3>1, <3>2
  <2>3. \A d \in calls \ {c} : d.uid \in unannounced => d.uid \in unannounced'
    BY <1>0, <1>1 DEF CallsInv
  <2>4. calls \ {c} \in SUBSET calls
    OBVIOUS
  <2> QED
    BY <1>1, <2>1, <2>2, <2>3, <2>4, SentStep
<1> QED
  BY <1>2, <1>3

\* The mobile gives up after the retries: at the fourth trace in a row that timed out.
LEMMA GiveUpStep ==
  ASSUME MobileInv, NEW c \in calls, Due(c, TracesQueue), c.call = "OnTraceTimeout", Exhausted,
         traceRetryCnt' = 0, calls' = AfterTimeout(c), timedOut' = timedOut \cup {Newest},
         (kite /\ seq' = 0) \/ (~kite /\ seq' = seq), TakeUids,
         UNCHANGED <<announceVars, now, kite, associations, unannounced, answered>>
  PROVE  MobileInv'
<1>0. /\ TypeInv /\ CallsInv /\ NumbersInv /\ RetryInv /\ WatchedInv /\ MobileTypeOK
  BY DEF MobileInv, TypeInv
<1>1. /\ nextUid' = nextUid + 4
      /\ UNCHANGED <<refreshInterval, active, refreshEvent, timeoutEvent, sentAt, hoAnchor,
                     waiting, now, kite, associations, unannounced, answered>>
  BY DEF TakeUids, announceVars, delayVars
<1>2. /\ c.uid = timeoutEvent /\ seq \in Nat /\ seq >= 2 /\ Newest \notin timedOut
      /\ Sends => refreshInterval \notin 1..TraceLifetime
      /\ calls' \subseteq calls
      /\ \A d \in calls' : d.call # "OnTraceTimeout" /\ d.uid # timeoutEvent
  BY TimeoutIsDue
<1>3. /\ traceRetryCnt = 3 /\ nextUid \in Nat /\ timedOut \subseteq Int
      /\ IsFiniteSet(timedOut) /\ Cardinality(timedOut) \in Nat
  BY <1>0, FS_CardinalityType DEF TypeInv, MobileTypeOK, Exhausted
<1>4. /\ IsFiniteSet(timedOut') /\ Cardinality(timedOut') = Cardinality(timedOut) + 1
      /\ timedOut' \subseteq Int
  BY <1>2, <1>3, FS_AddElement
<1>5. refreshInterval \notin 1..TraceLifetime
  BY <1>0, <1>3 DEF RetryInv
<1>6. Sends => Cardinality(timedOut') > 3
  BY <1>0, <1>3, <1>4 DEF RetryInv
<1>7. CallsInv'
  <2>1. nextUid' \in Nat /\ nextUid' >= nextUid
    BY <1>1, <1>3
  <2> QED
    BY <1>0, <1>1, <1>2, <2>1, CallsShrink
<1>8. TypeInv'
  <2>1. seq' \in Nat /\ traceRetryCnt' \in 0..3 /\ nextUid' \in Nat
    BY <1>1, <1>2, <1>3
  <2>2. calls' \subseteq MobileCall
    BY <1>0, <1>2 DEF MobileTypeOK
  <2> QED
    BY <1>0, <1>1, <1>4, <2>1, <2>2 DEF TypeInv, MobileTypeOK
<1>9. NumbersInv'
  <2>1. \A s \in timedOut' : s < seq
    BY <1>0, <1>2, <1>3 DEF NumbersInv
  <2> QED
    BY <1>0, <1>1, <1>2, <2>1 DEF NumbersInv
<1>10. RefreshInv'
  BY <1>2 DEF RefreshInv
<1>11. RetryInv'
  BY <1>1, <1>3, <1>4, <1>5 DEF RetryInv
<1>12. SilenceInv'
  <2>1. Sends' <=> Sends
    BY <1>1 DEF Sends
  <2>2. CASE ~kite
    BY <1>1, <1>5, <1>6, <2>1, <2>2 DEF SilenceInv
  <2>3. CASE kite
    BY <2>3 DEF SilenceInv
  <2> QED
    BY <2>2, <2>3
<1>13. WatchedInv'
  BY <1>2 DEF WatchedInv
<1> QED
  BY <1>7, <1>8, <1>9, <1>10, <1>11, <1>12, <1>13 DEF MobileInv

\* A trace times out.
LEMMA TimeOutStep ==
  ASSUME MobileInv, NEW c \in calls, Due(c, TracesQueue), TimeOut(c)
  PROVE  MobileInv'
<1>0. TypeInv /\ CallsInv /\ NumbersInv /\ MobileTypeOK
  BY DEF MobileInv, TypeInv
<1>1. /\ TakeUids /\ timedOut' = timedOut \cup {Newest}
      /\ UNCHANGED <<now, kite, associations, unannounced, answered>>
      /\ c.call = "OnTraceTimeout"
  BY DEF TimeOut, KiteOnTraceTimeout, KiteGiveUpTrace, OnTraceTimeout, GiveUpTrace
<1>2. /\ c.uid = timeoutEvent /\ seq \in Nat /\ seq >= 2 /\ Newest \notin timedOut
      /\ Sends => refreshInterval \notin 1..TraceLifetime
      /\ AfterTimeout(c) \in SUBSET calls /\ c \notin AfterTimeout(c)
      /\ \A d \in AfterTimeout(c) : d.call # "OnTraceTimeout" /\ d.uid # timeoutEvent
  BY <1>1, TimeoutIsDue
<1>3. seq > 0
  BY <1>2
<1>4. CASE Exhausted
  <2>1. /\ traceRetryCnt' = 0 /\ calls' = AfterTimeout(c) /\ UNCHANGED announceVars
        /\ (kite /\ seq' = 0) \/ (~kite /\ seq' = seq)
    BY <1>4 DEF TimeOut, KiteOnTraceTimeout, KiteGiveUpTrace, OnTraceTimeout, GiveUpTrace
  <2> QED
    BY <1>1, <1>4, <2>1, GiveUpStep
<1>5. CASE ~Exhausted
  <2>1. /\ traceRetryCnt' = traceRetryCnt + 1
        /\ IF kite /\ ~active
           THEN calls' = AfterTimeout(c) /\ UNCHANGED <<announceVars, seq>>
           ELSE SendTrace(AfterTimeout(c))
    BY <1>3, <1>5 DEF TimeOut, KiteOnTraceTimeout, KiteGiveUpTrace, OnTraceTimeout,
       GiveUpTrace, KiteSendTrace, KiteSilent
  <2>2. CASE kite /\ ~active
    <3>1. ~Sends
      BY <2>2 DEF Sends
    <3>2. calls' = AfterTimeout(c) /\ UNCHANGED <<announceVars, seq>>
      BY <2>1, <2>2
    <3>3. calls' \subseteq calls \ {c} /\ \A d \in calls' : d.call # "OnTraceTimeout"
      BY <1>2, <3>2
    <3> QED
      BY <1>1, <1>5, <2>1, <3>1, <3>2, <3>3, SilentStep
  <2>3. CASE ~(kite /\ ~active)
    <3>1. Sends /\ SendTrace(AfterTimeout(c))
      BY <2>1, <2>3 DEF Sends
    <3>2. \A d \in AfterTimeout(c) : d.uid \in unannounced => d.uid \in unannounced'
      BY <1>1
    <3> QED
      BY <1>1, <1>2, <1>3, <1>5, <2>1, <3>1, <3>2, SentStep
  <2> QED
    BY <2>2, <2>3
<1> QED
  BY <1>4, <1>5

\* An answer arrives: only one to the newest trace stops a timeout.
LEMMA ArriveStep ==
  ASSUME MobileInv, NEW a \in arrivals, Arrive(a)
  PROVE  MobileInv'
<1>0. /\ TypeInv /\ CallsInv /\ NumbersInv /\ RefreshInv /\ RetryInv /\ SilenceInv
      /\ WatchedInv /\ MobileTypeOK
  BY DEF MobileInv, TypeInv
<1>1. UNCHANGED <<refreshInterval, active, refreshEvent, timeoutEvent, sentAt, hoAnchor,
                  waiting, seq, now, nextUid, kite, associations, unannounced>>
  BY DEF Arrive, OnData, announceVars, delayVars
<1>2. CASE active /\ a.seq = Newest
  <2>1. /\ calls' = {c \in calls : c.uid # timeoutEvent} /\ traceRetryCnt' = 0
        /\ answered' = answered \cup {Newest}
        /\ timedOut' = (IF Newest \in timedOut THEN timedOut ELSE {})
    BY <1>2 DEF Arrive, OnData, Answers
  <2>2. /\ nextUid \in Nat /\ nextUid' >= nextUid /\ calls' \subseteq calls
        /\ Sends /\ Sends'
    BY <1>1, <1>2, <2>1, <1>0 DEF TypeInv, Sends
  <2>3. \A c \in calls' : c.call # "OnTraceTimeout"
    BY <1>0, <2>1 DEF CallsInv
  <2>4. CallsInv'
    BY <1>0, <1>1, <2>2, CallsShrink
  <2>5. /\ timedOut' \subseteq timedOut /\ IsFiniteSet(timedOut') /\ timedOut' \subseteq Int
        /\ Cardinality(timedOut') \in Nat
    BY <1>0, <2>1, FS_EmptySet, FS_CardinalityType DEF TypeInv
  <2>6. TypeInv'
    BY <1>0, <1>1, <2>1, <2>2, <2>5 DEF TypeInv, MobileTypeOK
  <2>7. NumbersInv' /\ RefreshInv'
    BY <1>0, <1>1, <2>3, <2>5 DEF NumbersInv, RefreshInv
  <2>8. RetryInv'
    BY <1>0, <1>1, <2>1, <2>5 DEF RetryInv
  <2>9. SilenceInv'
    <3> SUFFICES ASSUME Newest > 0, calls' = {}
                 PROVE  \/ refreshInterval = 0 /\ Newest \in answered'
                        \/ /\ ~kite /\ refreshInterval \notin 1..TraceLifetime
                           /\ Newest \in timedOut' /\ Cardinality(timedOut') > MaxTraceRetries
      BY <1>1 DEF SilenceInv
    <3>1. CASE calls = {}
      BY <1>0, <2>1, <2>2, <3>1 DEF SilenceInv
    <3>2. CASE calls # {}
      <4>1. PICK t \in calls : t.uid = timeoutEvent
        BY <2>1, <3>2
      <4>2. t.call = "OnTraceTimeout"
        BY <1>0, <4>1 DEF CallsInv
      <4>3. ASSUME refreshInterval # 0 PROVE FALSE
        <5>1. PICK r \in calls : r.uid = refreshEvent /\ r.uid < t.uid
          BY <1>0, <2>2, <4>2, <4>3 DEF RefreshInv
        <5>2. r.uid \in Nat /\ t.uid \in Nat
          BY <1>0 DEF MobileTypeOK, MobileCall
        <5>3. r \in calls'
          BY <2>1, <4>1, <5>1, <5>2
        <5> QED
          BY <5>3
      <4> QED
        BY <2>1, <4>3
    <3> QED
      BY <3>1, <3>2
  <2>10. WatchedInv'
    BY <1>1, <2>1 DEF WatchedInv
  <2> QED
    BY <2>4, <2>6, <2>7, <2>8, <2>9, <2>10 DEF MobileInv
<1>3. CASE ~(active /\ a.seq = Newest)
  <2>1. UNCHANGED <<calls, traceRetryCnt, answered, timedOut>>
    BY <1>3 DEF Arrive, OnData, Answers
  <2> QED
    BY <1>0, <1>1, <2>1 DEF MobileInv, TypeInv, MobileTypeOK, CallsInv, NumbersInv, RefreshInv,
       RetryInv, SilenceInv, WatchedInv, Sends
<1> QED
  BY <1>2, <1>3

\* The application stops; of a KitePullMobile no call sends any more.
LEMMA StopStep ==
  ASSUME MobileInv, Stop
  PROVE  MobileInv'
<1>0. /\ TypeInv /\ CallsInv /\ NumbersInv /\ RefreshInv /\ RetryInv /\ SilenceInv
      /\ WatchedInv /\ MobileTypeOK
  BY DEF MobileInv, TypeInv
<1>1. /\ active /\ active' = FALSE
      /\ UNCHANGED <<refreshInterval, seq, traceRetryCnt, calls, refreshEvent, timeoutEvent,
                     sentAt, hoAnchor, waiting, now, nextUid, kite, associations, unannounced,
                     answered, timedOut>>
  BY DEF Stop, StopApplication, delayVars, networkVars, historyVars
<1>2. Sends /\ (Sends' => ~kite)
  BY <1>1 DEF Sends
<1>3. active' \in BOOLEAN
  BY <1>1, Zenon
<1>4. TypeInv' /\ CallsInv' /\ NumbersInv'
  <2>1. TypeInv'
    BY <1>0, <1>1, <1>3 DEF TypeInv, MobileTypeOK
  <2> QED
    BY <1>0, <1>1, <2>1 DEF CallsInv, NumbersInv
<1>5. RefreshInv' /\ SilenceInv' /\ WatchedInv'
  <2>1. RefreshInv'
    BY <1>0, <1>1, <1>2 DEF RefreshInv
  <2> QED
    BY <1>0, <1>1, <1>2, <2>1 DEF SilenceInv, WatchedInv
<1>6. RetryInv'
  BY <1>0, <1>1, <1>2 DEF RetryInv
<1> QED
  BY <1>4, <1>5, <1>6 DEF MobileInv

\* Time goes on.
LEMMA TickStep ==
  ASSUME MobileInv, TracesTick
  PROVE  MobileInv'
<1>0. /\ TypeInv /\ CallsInv /\ NumbersInv /\ RefreshInv /\ RetryInv /\ SilenceInv
      /\ WatchedInv /\ MobileTypeOK
  BY DEF MobileInv, TypeInv
<1>1. /\ \A c \in calls : c.at # now
      /\ now' = now + 1 /\ nextUid' = nextUid
      /\ UNCHANGED <<refreshInterval, active, seq, traceRetryCnt, calls, refreshEvent,
                     timeoutEvent, sentAt, hoAnchor, waiting, kite, associations, unannounced,
                     answered, timedOut>>
  BY DEF TracesTick, Advance, TracesQueue, mobileVars, traceVars, delayVars, networkVars,
     historyVars
<1>2. now \in Nat /\ \A c \in calls : c.at \in Nat
  BY <1>0 DEF TypeInv, MobileTypeOK, MobileCall
<1>3. TypeInv'
  BY <1>0, <1>1, <1>2 DEF TypeInv, MobileTypeOK
<1>4. CallsInv'
  BY <1>0, <1>1, <1>2 DEF CallsInv
<1>5. NumbersInv' /\ RefreshInv' /\ RetryInv' /\ SilenceInv' /\ WatchedInv'
  BY <1>0, <1>1 DEF NumbersInv, RefreshInv, RetryInv, SilenceInv, WatchedInv, Sends
<1> QED
  BY <1>3, <1>4, <1>5 DEF MobileInv

\* Every step keeps the invariant.
LEMMA MobileStep == MobileInv /\ [TracesNext]_tracesVars => MobileInv'
<1> SUFFICES ASSUME MobileInv, [TracesNext]_tracesVars PROVE MobileInv'
  OBVIOUS
<1>1. CASE Associate
  BY <1>1, AssociateStep, StoppedAssociates
<1>2. CASE Stop
  BY <1>2, StopStep
<1>3. ASSUME ~Aborted, NEW c \in calls, Due(c, TracesQueue), Announce(c) PROVE MobileInv'
  BY <1>3, AnnounceStep
<1>4. ASSUME NEW c \in calls, Due(c, TracesQueue), TimeOut(c) PROVE MobileInv'
  BY <1>4, TimeOutStep
<1>5. ASSUME NEW a \in arrivals, Arrive(a) PROVE MobileInv'
  BY <1>5, ArriveStep
<1>6. CASE TracesTick
  BY <1>6, TickStep
<1>7. CASE UNCHANGED tracesVars
  <2>1. UNCHANGED <<refreshInterval, active, seq, traceRetryCnt, calls, refreshEvent, timeoutEvent,
                    sentAt, hoAnchor, waiting, now, nextUid, kite, associations, unannounced,
                    answered, timedOut>>
    BY <1>7 DEF tracesVars, mobileVars, traceVars, delayVars, networkVars, historyVars
  <2> QED
    BY <2>1 DEF MobileInv, TypeInv, MobileTypeOK, CallsInv, NumbersInv, RefreshInv,
       RetryInv, SilenceInv, WatchedInv, Sends
<1> QED
  BY <1>1, <1>2, <1>3, <1>4, <1>5, <1>6, <1>7 DEF TracesNext, TracesRun

\* The invariant holds of every behaviour of a mobile.
LEMMA MobileInvariance == TracesSpec => []MobileInv
<1>1. TracesInit => MobileInv
  BY MobileInitially
<1>2. MobileInv /\ [TracesNext]_tracesVars => MobileInv'
  BY MobileStep
<1> QED
  BY <1>1, <1>2, PTL DEF TracesSpec

--------------------------------------------------------------------------------
(* What a mobile promises *)

\* SendTrace, OnTraceTimeout and OnData keep one chain of traces: every scheduled call is
\* the refresh or the timeout that m_traceRefreshEvent or m_traceTimeoutEvent can still
\* cancel, or the call of an association that has not run.  The types are kept.
THEOREM TracesFormOneChain == TracesSpec => []OneTraceChain
<1>1. MobileInv => OneTraceChain
  BY DEF MobileInv, TypeInv, CallsInv, OneTraceChain
<1> QED
  BY <1>1, MobileInvariance, PTL

\* The newest trace is watched until it is answered: OnData for an older trace never
\* cancels its timeout, and a trace without a timeout has timed out or is to be replaced.
THEOREM NewestIsWatched == TracesSpec => []NewestTraceIsWatched
<1>1. MobileInv => NewestTraceIsWatched
  BY DEF MobileInv, WatchedInv, NewestTraceIsWatched, Running
<1> QED
  BY <1>1, MobileInvariance, PTL

\* A mobile stops announcing only for a reason that OnData, OnTraceTimeout or
\* StopApplication gives, and a refresh within the lifetime keeps it from giving up.
THEOREM SilenceHasAReason == TracesSpec => []SilenceIsEarned
<1>1. MobileInv => SilenceIsEarned
  BY DEF MobileInv, SilenceInv, RetryInv, SilenceIsEarned, Sends
<1> QED
  BY <1>1, MobileInvariance, PTL
================================================================================
