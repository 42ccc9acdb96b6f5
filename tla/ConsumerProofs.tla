----------------------------- MODULE ConsumerProofs ----------------------------
(***************************************************************************)
(* The consumer accounts for its requests: what the retransmission timer,    *)
(* the queue of retransmissions, the delays and the counters say of a        *)
(* request agree, whatever the order of Data and timeouts.                   *)
(***************************************************************************)
EXTENDS ConsumerRequests, FiniteSetTheorems, WellFoundedInduction, TLAPS

USE DEF NoTime, NoTimer

\* The least element of a set of numbers, and the timeout as a number.
LEMMA MinIsLeast ==
  ASSUME NEW S \in SUBSET Nat, S # {}
  PROVE  Min(S) \in S /\ \A y \in S : Min(S) <= y
<1> DEFINE R == OpToRel(<, Nat)
<1>1. \E x \in S : \A y \in S : ~(<<y, x>> \in R)
  <2>1. IsWellFoundedOn(R, Nat)
    BY NatLessThanWellFounded
  <2> HIDE DEF R
  <2> QED
    BY <2>1, WFMin
<1>2. \A x, y \in Nat : <<y, x>> \in R <=> y < x
  BY DEF OpToRel
<1> HIDE DEF R
<1>3. \E x \in S : \A y \in S : x <= y
  <2>1. PICK x \in S : \A y \in S : ~(<<y, x>> \in R)
    BY <1>1
  <2>2. ASSUME NEW y \in S PROVE x <= y
    <3>1. x \in Nat /\ y \in Nat
      OBVIOUS
    <3>2. ~(y < x)
      BY <1>2, <2>1, <3>1, Zenon
    <3> QED
      BY <3>1, <3>2
  <2> QED
    BY <2>2
<1> QED
  BY <1>3 DEF Min

\* The initial timeout is a number.
LEMMA RtoIsNat == InitialRto \in Nat
<1>1. ASSUME NEW a \in Nat, NEW b \in Nat PROVE Max({a, b}) \in Nat /\ Min({a, b}) \in Nat
  <2>1. \E x \in {a, b} : \A y \in {a, b} : x >= y
    <3>1. CASE a >= b
      BY <3>1
    <3>2. CASE ~(a >= b)
      BY <3>2
    <3> QED
      BY <3>1, <3>2
  <2>2. Max({a, b}) \in {a, b}
    BY <2>1 DEF Max
  <2>3. Min({a, b}) \in {a, b}
    BY MinIsLeast
  <2> QED
    BY <2>2, <2>3
<1>2. InitialRto = Min({MaxRto, Max({MinRto, InitialEstimate + 4 * 0})})
  BY DEF InitialRto, RetransmitTimeout, RttInit
<1>3. InitialEstimate + 4 * 0 \in Nat /\ MinRto \in Nat /\ MaxRto \in Nat
  BY ConsumerAssumption
<1>4. Max({MinRto, InitialEstimate + 4 * 0}) \in Nat
  BY <1>1, <1>3
<1> QED
  BY <1>1, <1>2, <1>3, <1>4

--------------------------------------------------------------------------------
(* The inductive invariant *)

\* The estimator is back at its initial values whenever it is read: Reset undoes every sample.
Estimators == [estimate : {InitialEstimate}, variance : {0}, samples : Nat,
               sent : Instant, retx : SUBSET SeqNo]
TypeInv ==
    /\ now \in Nat /\ nextUid \in Nat /\ ConsumerTypeOK /\ rtt \in Estimators
    /\ stopped \in BOOLEAN /\ arrivals \subseteq [at : Nat, seq : SeqNo]

\* There is one scheduled Interest at most, the one that sendEvent names.
CallsInv ==
    /\ \A c \in calls : /\ c.uid < nextUid /\ c.at >= now
                        /\ c.call = "SendPacket" <=> c.uid = sendEvent
    /\ \A c, d \in calls : c.uid = d.uid => c = d
    /\ sendEvent < nextUid

\* The sequence numbers are requested in their order, and nothing is on record of those
\* that were not; before the application starts nothing is requested or scheduled.
BooksInv ==
    /\ \A s \in SeqNo : firstSent[s] # NoTime <=> s < nextSeq
    /\ \A s \in SeqNo : seqTimeouts[s] # NoTime \/ s \in retxSeqs \/ s \in satisfied
                          => firstSent[s] # NoTime
    /\ \A a \in arrivals : firstSent[a.seq] # NoTime
    /\ \A s \in SeqNo : firstSent[s] = NoTime => fullDelay[s] = NoTime
    /\ ~active /\ ~stopped => firstTime
    /\ active => ~stopped
    /\ firstTime => ~active /\ nextSeq = 0 /\ \A c \in calls : c.call # "SendPacket"

\* A watched request is watched from its latest Interest.
SendTimesInv ==
    \A s \in SeqNo : /\ firstSent[s] # NoTime => sendTime[s] # NoTime /\ sendTime[s] <= now
                     /\ seqTimeouts[s] # NoTime => seqTimeouts[s] = sendTime[s]

\* The next check is ahead, and in time for every request that is watched.
CheckInv ==
    \E c \in calls :
        /\ c.call = "CheckRetxTimeout" /\ c.at <= now + RetxTimer
        /\ \A s \in SeqNo : seqTimeouts[s] # NoTime =>
              c.at <= seqTimeouts[s] + InitialRto + RetxTimer

\* The next Interest keeps its distance from those that were sent.
PaceInv ==
    \A c \in calls : c.call = "SendPacket" =>
        \A s \in SeqNo : firstSent[s] # NoTime => c.at >= sendTime[s] + Min(SendGap)

\* Where a request is: the same as RequestsAccounted and DelaysSpanTheRequest, one request
\* at a time.
PlaceInv ==
    active => \A s \in SeqNo :
        /\ firstSent[s] # NoTime => s \in satisfied \/ seqTimeouts[s] # NoTime \/ s \in retxSeqs
        /\ s \in satisfied => seqTimeouts[s] = NoTime /\ s \notin retxSeqs
        /\ s \in retxSeqs => seqTimeouts[s] = NoTime
        /\ seqTimeouts[s] # NoTime \/ s \in retxSeqs =>
              fullDelay[s] = firstSent[s] /\ lastDelay[s] = sendTime[s]

ConsumerInv ==
    /\ TypeInv /\ CallsInv /\ BooksInv /\ SendTimesInv /\ CheckInv /\ PaceInv /\ PlaceInv
    /\ RetransmissionsAreTimeouts

\* A sequence number is a number; the numbers are finitely many.
LEMMA SeqNoFacts == /\ SeqMax \in Nat /\ \A s \in SeqNo : s \in Nat /\ s < SeqMax
                    /\ \A s \in Nat : s < SeqMax => s \in SeqNo
                    /\ IsFiniteSet(SeqNo)
<1>1. SeqMax \in Nat /\ 0 \in Int /\ SeqMax - 1 \in Int
  BY ConsumerAssumption
<1>2. IsFiniteSet(0..(SeqMax - 1))
  BY <1>1, FS_Interval
<1> QED
  BY <1>1, <1>2 DEF SeqNo

\* Before the application starts only the retransmission timer is scheduled.
LEMMA ConsumerInitially == RequestsInit => ConsumerInv
<1> SUFFICES ASSUME RequestsInit PROVE ConsumerInv
  OBVIOUS
<1>1. /\ now = 0 /\ nextUid = 4 /\ active = FALSE /\ firstTime = TRUE /\ nextSeq = 0
      /\ calls = {[uid |-> 0, at |-> RetxTimer, call |-> "CheckRetxTimeout"]}
      /\ sendEvent = -1
      /\ seqTimeouts = Nothing /\ retxSeqs = {} /\ fullDelay = Nothing /\ lastDelay = Nothing
      /\ firstSent = Nothing /\ sendTime = Nothing /\ satisfied = {}
      /\ interestSent = 0 /\ timeoutCount = 0 /\ rtt = RttInit
      /\ arrivals = {} /\ stopped = FALSE
  BY DEF RequestsInit, ConsumerInit
<1>2. Nothing \in Instant /\ \A s \in SeqNo : Nothing[s] = -1
  BY DEF Nothing, Instant
<1>3. RetxTimer \in Nat /\ InitialEstimate \in Nat /\ SeqMax \in Nat
  BY ConsumerAssumption
<1>4. TypeInv
  <2>1. rtt \in Estimators
    BY <1>1, <1>2 DEF RttInit, Estimators
  <2>2. calls \subseteq ConsumerCall
    BY <1>1, <1>3 DEF ConsumerCall
  <2>3. active \in BOOLEAN /\ firstTime \in BOOLEAN /\ stopped \in BOOLEAN
    BY <1>1, Zenon
  <2>4. /\ now \in Nat /\ nextUid \in Nat /\ nextSeq \in 0..SeqMax
        /\ interestSent \in Nat /\ timeoutCount \in Nat /\ sendEvent \in Nat \cup {-1}
        /\ retxSeqs \subseteq SeqNo /\ satisfied \subseteq SeqNo
        /\ arrivals \subseteq [at : Nat, seq : SeqNo]
    BY <1>1, <1>3
  <2>5. /\ seqTimeouts \in Instant /\ fullDelay \in Instant /\ lastDelay \in Instant
        /\ firstSent \in Instant /\ sendTime \in Instant
    BY <1>1, <1>2, Zenon
  <2> QED
    BY <2>1, <2>2, <2>3, <2>4, <2>5 DEF TypeInv, ConsumerTypeOK
<1>5. CallsInv
  BY <1>1, <1>3 DEF CallsInv
<1>6. BooksInv /\ PaceInv /\ PlaceInv /\ SendTimesInv
  <2>1. \A s \in SeqNo : s \in Nat
    BY SeqNoFacts
  <2>2. BooksInv
    BY <1>1, <1>2, <2>1 DEF BooksInv
  <2> QED
    BY <1>1, <1>2, <2>2 DEF PaceInv, PlaceInv, SendTimesInv
<1>7. CheckInv
  BY <1>1, <1>2, <1>3 DEF CheckInv
<1>8. RetransmissionsAreTimeouts
  <2>1. Requested = {}
    BY <1>1, <1>2 DEF Requested
  <2> QED
    BY <1>1, <2>1, FS_EmptySet DEF RetransmissionsAreTimeouts
<1> QED
  BY <1>4, <1>5, <1>6, <1>7, <1>8 DEF ConsumerInv

--------------------------------------------------------------------------------
(* The scheduled calls *)

CheckCall == ConsumerCallAt(CheckUid, RetxTimer, "CheckRetxTimeout")

\* What is scheduled after a step that leaves the calls of rest: these, and perhaps one
\* Interest, which is either the first of all or follows the send gap.
Schedules(rest) ==
    /\ calls' \subseteq ConsumerCall /\ sendEvent' \in Nat \cup {NoTimer} /\ firstTime' \in BOOLEAN
    /\ CallsInv'
    /\ rest \subseteq calls'
    /\ \A c \in calls' :
          \/ c \in rest
          \/ c.call = "SendPacket" /\ (firstTime \/ \E d \in SendGap : c.at = now + d)
    /\ firstTime' => firstTime /\ calls' = rest

\* ScheduleNextPacket, or no Interest at all.
LEMMA ScheduleEffect ==
  ASSUME TypeInv, CallsInv, firstTime => \A c \in calls : c.call # "SendPacket",
         NEW rest, rest \subseteq calls \cup {CheckCall},
         ScheduleNextPacket(rest) \/ (calls' = rest /\ UNCHANGED <<sendEvent, firstTime>>),
         UNCHANGED now, TakeUids
  PROVE  Schedules(rest)
<1>0. /\ now \in Nat /\ nextUid \in Nat /\ calls \subseteq ConsumerCall
      /\ sendEvent \in Nat \cup {-1} /\ firstTime \in BOOLEAN
      /\ RetxTimer \in Nat /\ SendGap \subseteq Nat
      /\ now' = now /\ nextUid' = nextUid + 4
  BY ConsumerAssumption DEF TypeInv, ConsumerTypeOK, TakeUids
<1>1. ASSUME NEW c \in rest
      PROVE  /\ c \in ConsumerCall /\ c.uid \in Nat /\ c.uid < nextUid + 4 /\ c.at >= now
             /\ c.uid # nextUid
             /\ c.call = "SendPacket" <=> c.uid = sendEvent
             /\ c \in calls \/ (c.uid = nextUid + 1 /\ c.call = "CheckRetxTimeout")
  <2>1. CASE c \in calls
    <3>1. c \in ConsumerCall /\ c.uid \in Nat /\ c.at \in Nat
      BY <1>0, <2>1 DEF ConsumerCall
    <3>2. c.uid < nextUid /\ c.at >= now /\ (c.call = "SendPacket" <=> c.uid = sendEvent)
      BY <2>1 DEF CallsInv
    <3> QED
      BY <1>0, <2>1, <3>1, <3>2
  <2>2. CASE c = CheckCall
    <3>1. c = [uid |-> nextUid + 1, at |-> now + RetxTimer, call |-> "CheckRetxTimeout"]
      BY <2>2 DEF CheckCall, ConsumerCallAt, CheckUid
    <3>2. c.uid = nextUid + 1 /\ c.at = now + RetxTimer /\ c.call = "CheckRetxTimeout"
      BY <3>1
    <3>3. sendEvent # nextUid + 1
      BY <1>0 DEF CallsInv
    <3>4. c \in ConsumerCall
      BY <1>0, <3>1 DEF ConsumerCall
    <3> QED
      BY <1>0, <3>2, <3>3, <3>4
  <2> QED
    BY <1>1, <2>1, <2>2
<1>2. ASSUME NEW c \in rest, NEW d \in rest, c.uid = d.uid PROVE c = d
  <2>1. CASE c \in calls /\ d \in calls
    BY <1>2, <2>1 DEF CallsInv
  <2>2. CASE c \notin calls /\ d \notin calls
    BY <2>2
  <2>3. CASE (c \in calls /\ d \notin calls) \/ (c \notin calls /\ d \in calls)
    BY <1>0, <1>1, <1>2, <2>3 DEF CallsInv
  <2> QED
    BY <2>1, <2>2, <2>3
<1>3. CASE calls' = rest /\ UNCHANGED <<sendEvent, firstTime>>
  <2>1. calls' \subseteq ConsumerCall /\ sendEvent' \in Nat \cup {-1} /\ firstTime' \in BOOLEAN
    BY <1>0, <1>1, <1>3
  <2>2. CallsInv'
    <3>1. sendEvent' < nextUid'
      BY <1>0, <1>3 DEF CallsInv
    <3>2. \A c \in calls' : c.uid < nextUid' /\ c.at >= now'
      BY <1>0, <1>1, <1>3
    <3>3. \A c \in calls' : c.call = "SendPacket" <=> c.uid = sendEvent'
      BY <1>1, <1>3
    <3>4. \A c, d \in calls' : c.uid = d.uid => c = d
      BY <1>2, <1>3
    <3> QED
      BY <3>1, <3>2, <3>3, <3>4 DEF CallsInv
  <2> QED
    BY <1>3, <2>1, <2>2 DEF Schedules
<1>4. ASSUME NEW d \in Nat, firstTime \/ (d \in SendGap /\ ~SendIsRunning(rest)),
             calls' = rest \cup {ConsumerCallAt(SendUid, d, "SendPacket")},
             sendEvent' = SendUid, firstTime' = FALSE
      PROVE  Schedules(rest)
  <2> DEFINE n == ConsumerCallAt(SendUid, d, "SendPacket")
  <2>1. n.uid = nextUid /\ n.at = now + d /\ n.call = "SendPacket" /\ n \in ConsumerCall
    BY <1>0 DEF ConsumerCallAt, SendUid, ConsumerCall
  <2> HIDE DEF n
  <2>2. sendEvent' = nextUid /\ calls' = rest \cup {n}
    BY <1>4 DEF n, SendUid
  <2>3. ASSUME NEW c \in rest PROVE c.call # "SendPacket"
    <3>1. CASE firstTime
      BY <1>1, <3>1
    <3>2. CASE ~SendIsRunning(rest)
      BY <1>1, <3>2 DEF SendIsRunning
    <3> QED
      BY <1>4, <3>1, <3>2
  <2>4. CallsInv'
    <3>1. sendEvent' < nextUid'
      BY <1>0, <2>2
    <3>2. \A c \in calls' : c.uid < nextUid' /\ c.at >= now'
      BY <1>0, <1>1, <2>1, <2>2
    <3>3. \A c \in calls' : c.call = "SendPacket" <=> c.uid = sendEvent'
      BY <1>1, <2>1, <2>2, <2>3
    <3>4. \A c, e \in calls' : c.uid = e.uid => c = e
      BY <1>1, <1>2, <2>1, <2>2
    <3> QED
      BY <3>1, <3>2, <3>3, <3>4 DEF CallsInv
  <2>5. calls' \subseteq ConsumerCall /\ sendEvent' \in Nat \cup {-1} /\ rest \subseteq calls'
    BY <1>0, <1>1, <2>1, <2>2
  <2>6. \A c \in calls' : c \in rest
          \/ (c.call = "SendPacket" /\ (firstTime \/ \E g \in SendGap : c.at = now + g))
    BY <1>4, <2>1, <2>2
  <2> QED
    BY <1>4, <2>4, <2>5, <2>6 DEF Schedules
<1>5. CASE ScheduleNextPacket(rest)
  <2>1. CASE firstTime
    BY <1>0, <1>4, <1>5, <2>1 DEF ScheduleNextPacket
  <2>2. CASE ~firstTime /\ ~SendIsRunning(rest)
    BY <1>0, <1>4, <1>5, <2>2 DEF ScheduleNextPacket
  <2>3. CASE ~firstTime /\ SendIsRunning(rest)
    BY <1>3, <1>5, <2>3 DEF ScheduleNextPacket
  <2> QED
    BY <2>1, <2>2, <2>3
<1> QED
  BY <1>3, <1>5

--------------------------------------------------------------------------------
(* The steps *)

\* The parts of the invariant that concern the calls, when no Interest is sent and no
\* request is watched anew.
LEMMA CallsKept ==
  ASSUME TypeInv, CallsInv, BooksInv, SendTimesInv, PaceInv,
         NEW rest, rest \subseteq calls \cup {CheckCall}, Schedules(rest),
         UNCHANGED <<now, firstSent, sendTime>>
  PROVE  PaceInv'
<1> SUFFICES ASSUME NEW c \in calls', c.call = "SendPacket", NEW s \in SeqNo, firstSent[s] # NoTime
             PROVE  c.at >= sendTime[s] + Min(SendGap)
  BY DEF PaceInv
<1>1. CheckCall.call # "SendPacket"
  BY DEF CheckCall, ConsumerCallAt
<1>2. CASE c \in rest
  BY <1>1, <1>2 DEF PaceInv
<1>3. CASE c \notin rest
  <2>1. firstTime \/ \E d \in SendGap : c.at = now + d
    BY <1>3 DEF Schedules
  <2>2. ~firstTime
    <3>1. nextSeq \in Nat /\ s \in Nat /\ s < nextSeq
      BY SeqNoFacts DEF BooksInv, TypeInv, ConsumerTypeOK
    <3> QED
      BY <3>1 DEF BooksInv
  <2>3. PICK d \in SendGap : c.at = now + d
    BY <2>1, <2>2
  <2>4. d \in Nat /\ Min(SendGap) \in Nat /\ Min(SendGap) <= d
    BY MinIsLeast, ConsumerAssumption
  <2>5. sendTime[s] <= now /\ sendTime[s] \in Nat /\ now \in Nat
    BY DEF SendTimesInv, TypeInv, ConsumerTypeOK, Instant
  <2> QED
    BY <2>3, <2>4, <2>5
<1> QED
  BY <1>2, <1>3

\* The check that is scheduled stays in time when requests are only taken off the timer.
LEMMA CheckKept ==
  ASSUME CheckInv, UNCHANGED now,
         \A c \in calls : c.call = "CheckRetxTimeout" => c \in calls',
         \A s \in SeqNo : seqTimeouts'[s] # NoTime => seqTimeouts'[s] = seqTimeouts[s]
  PROVE  CheckInv'
BY DEF CheckInv

\* The application starts: nothing was requested before.
LEMMA StartStep ==
  ASSUME ConsumerInv, Start
  PROVE  ConsumerInv'
<1>0. /\ TypeInv /\ CallsInv /\ BooksInv /\ SendTimesInv /\ CheckInv /\ PaceInv /\ PlaceInv
      /\ RetransmissionsAreTimeouts /\ ConsumerTypeOK
  BY DEF ConsumerInv, TypeInv
<1>1. /\ ~active /\ ~stopped /\ active' = TRUE /\ ScheduleNextPacket(calls) /\ TakeUids
      /\ UNCHANGED <<now, nextSeq, seqTimeouts, retxSeqs, fullDelay, lastDelay, rtt, firstSent,
                     sendTime, satisfied, interestSent, timeoutCount, arrivals, losses, stopped>>
  BY DEF Start, StartApplication, requestVars, statisticVars, networkVars
<1>2. firstTime /\ nextSeq = 0 /\ (\A c \in calls : c.call # "SendPacket")
  BY <1>0, <1>1 DEF BooksInv
<1>3. Schedules(calls) /\ calls \subseteq calls \cup {CheckCall}
  BY <1>0, <1>1, <1>2, ScheduleEffect
<1>4. firstTime' = FALSE
  BY <1>1, <1>2 DEF ScheduleNextPacket
<1>5. nextUid' \in Nat
  BY <1>0, <1>1 DEF TypeInv, TakeUids
<1>6. TypeInv'
  BY <1>0, <1>1, <1>3, <1>4, <1>5 DEF TypeInv, ConsumerTypeOK, Schedules
<1>7. \A s \in SeqNo : firstSent[s] = NoTime
  BY <1>0, <1>2, SeqNoFacts DEF BooksInv
<1>8. BooksInv' /\ SendTimesInv' /\ PlaceInv'
  <2>1. BooksInv'
    BY <1>0, <1>1, <1>4 DEF BooksInv
  <2>2. SendTimesInv'
    BY <1>0, <1>1 DEF SendTimesInv
  <2>3. PlaceInv'
    BY <1>0, <1>1, <1>7 DEF PlaceInv, BooksInv
  <2> QED
    BY <2>1, <2>2, <2>3
<1>9. CheckInv'
  BY <1>0, <1>1, <1>3, CheckKept DEF Schedules
<1>10. PaceInv' /\ CallsInv'
  BY <1>0, <1>1, <1>3, CallsKept DEF Schedules
<1>11. RetransmissionsAreTimeouts'
  BY <1>0, <1>1 DEF RetransmissionsAreTimeouts, Requested
<1> QED
  BY <1>6, <1>8, <1>9, <1>10, <1>11 DEF ConsumerInv

\* The application stops, or an Interest finds nothing to send.
LEMMA QuietCallsStep ==
  ASSUME ConsumerInv, calls' \subseteq calls,
         \A c \in calls : c.call = "CheckRetxTimeout" => c \in calls',
         active' \in BOOLEAN, stopped' \in BOOLEAN,
         \/ UNCHANGED <<active, stopped>>
         \/ active' = FALSE /\ stopped' = TRUE,
         nextUid' \in Nat, nextUid' >= nextUid,
         UNCHANGED <<now, firstTime, nextSeq, sendEvent, seqTimeouts, retxSeqs, fullDelay,
                     lastDelay, rtt, firstSent, sendTime, satisfied, interestSent, timeoutCount,
                     arrivals>>
  PROVE  ConsumerInv'
<1>0. /\ TypeInv /\ CallsInv /\ BooksInv /\ SendTimesInv /\ CheckInv /\ PaceInv /\ PlaceInv
      /\ RetransmissionsAreTimeouts /\ ConsumerTypeOK
  BY DEF ConsumerInv, TypeInv
<1>1. TypeInv'
  BY <1>0 DEF TypeInv, ConsumerTypeOK
<1>2. CallsInv'
  <2>1. \A c \in calls : c.uid \in Nat
    BY <1>0 DEF ConsumerTypeOK, ConsumerCall
  <2>2. sendEvent \in Nat \cup {-1} /\ nextUid \in Nat
    BY <1>0 DEF ConsumerTypeOK, TypeInv
  <2> QED
    BY <1>0, <2>1, <2>2 DEF CallsInv
<1>3. BooksInv' /\ SendTimesInv' /\ PaceInv' /\ PlaceInv'
  <2>1. BooksInv'
    BY <1>0 DEF BooksInv
  <2>2. SendTimesInv' /\ PaceInv'
    BY <1>0 DEF SendTimesInv, PaceInv
  <2>3. PlaceInv'
    BY <1>0 DEF PlaceInv
  <2> QED
    BY <2>1, <2>2, <2>3
<1>4. CheckInv'
  BY <1>0, CheckKept
<1>5. RetransmissionsAreTimeouts'
  BY <1>0 DEF RetransmissionsAreTimeouts, Requested
<1> QED
  BY <1>1, <1>2, <1>3, <1>4, <1>5 DEF ConsumerInv

\* The Interest that SendPacket picks is queued, or is the first that was never sent; in
\* either case its request is not watched.
Picks(s) ==
    \/ /\ s \in retxSeqs /\ nextSeq' = nextSeq /\ firstSent[s] # NoTime
       /\ seqTimeouts[s] = NoTime /\ s \notin satisfied
       /\ fullDelay[s] = firstSent[s]
    \/ /\ retxSeqs = {} /\ s = nextSeq /\ nextSeq' = nextSeq + 1 /\ firstSent[s] = NoTime
       /\ seqTimeouts[s] = NoTime /\ s \notin satisfied /\ fullDelay[s] = NoTime

\* The Interest that SendPacket takes is one of these.
LEMMA SendPicks ==
  ASSUME TypeInv, BooksInv, PlaceInv, NEW c \in calls, NEW s \in SeqNo, SendPacket(c, s)
  PROVE  Picks(s) /\ active /\ (retxSeqs # {} => s \in retxSeqs)
<1>0. retxSeqs \in SUBSET Nat /\ nextSeq \in Nat /\ s \in Nat /\ active
  BY SeqNoFacts DEF TypeInv, ConsumerTypeOK, SendPacket
<1>1. CASE retxSeqs # {}
  <2>1. s = Min(retxSeqs) /\ nextSeq' = nextSeq
    BY <1>1 DEF SendPacket, FollowingSeq
  <2>2. s \in retxSeqs
    BY <1>0, <1>1, <2>1, MinIsLeast
  <2>3. firstSent[s] # NoTime
    BY <2>2 DEF BooksInv
  <2>4. seqTimeouts[s] = NoTime /\ s \notin satisfied /\ fullDelay[s] = firstSent[s]
    BY <1>0, <2>2 DEF PlaceInv
  <2> QED
    BY <1>0, <2>1, <2>2, <2>3, <2>4 DEF Picks
<1>2. CASE retxSeqs = {}
  <2>1. s = nextSeq /\ nextSeq' = nextSeq + 1
    BY <1>2 DEF SendPacket, FollowingSeq
  <2>2. firstSent[s] = NoTime
    BY <1>0, <2>1 DEF BooksInv
  <2>3. seqTimeouts[s] = NoTime /\ s \notin satisfied /\ fullDelay[s] = NoTime
    BY <2>2 DEF BooksInv
  <2> QED
    BY <1>0, <1>2, <2>1, <2>2, <2>3 DEF Picks
<1> QED
  BY <1>1, <1>2

\* What WillSendOutInterest writes for the Interest s, and leaves alone for the others.
LEMMA SendWrites ==
  ASSUME TypeInv, NEW s \in SeqNo, Picks(s), WillSendOutInterest(s)
  PROVE  /\ seqTimeouts' \in Instant /\ fullDelay' \in Instant /\ lastDelay' \in Instant
         /\ firstSent' \in Instant /\ sendTime' \in Instant
         /\ seqTimeouts'[s] = now /\ sendTime'[s] = now /\ lastDelay'[s] = now
         /\ firstSent'[s] = (IF firstSent[s] = NoTime THEN now ELSE firstSent[s])
         /\ fullDelay'[s] = firstSent'[s]
         /\ \A x \in SeqNo : x # s =>
               /\ seqTimeouts'[x] = seqTimeouts[x] /\ sendTime'[x] = sendTime[x]
               /\ lastDelay'[x] = lastDelay[x] /\ firstSent'[x] = firstSent[x]
               /\ fullDelay'[x] = fullDelay[x]
         /\ interestSent' = interestSent + 1 /\ UNCHANGED <<satisfied, timeoutCount>>
<1>0. /\ now \in Nat
      /\ seqTimeouts \in [SeqNo -> Nat \cup {-1}] /\ fullDelay \in [SeqNo -> Nat \cup {-1}]
      /\ lastDelay \in [SeqNo -> Nat \cup {-1}] /\ firstSent \in [SeqNo -> Nat \cup {-1}]
      /\ sendTime \in [SeqNo -> Nat \cup {-1}]
  BY DEF TypeInv, ConsumerTypeOK, Instant
<1>1. ASSUME NEW f \in [SeqNo -> Nat \cup {-1}]
      PROVE  LET g == FirstKept(f, s) IN
             /\ g \in [SeqNo -> Nat \cup {-1}]
             /\ g[s] = (IF f[s] = NoTime THEN now ELSE f[s])
             /\ \A x \in SeqNo : x # s => g[x] = f[x]
  BY <1>0 DEF FirstKept
<1>2. /\ sendTime' = [sendTime EXCEPT ![s] = now]
      /\ lastDelay' = [lastDelay EXCEPT ![s] = now]
      /\ firstSent' = FirstKept(firstSent, s) /\ seqTimeouts' = FirstKept(seqTimeouts, s)
      /\ fullDelay' = FirstKept(fullDelay, s)
      /\ interestSent' = interestSent + 1 /\ UNCHANGED <<satisfied, timeoutCount>>
  BY DEF WillSendOutInterest, FullDelay
<1>3. /\ sendTime' \in [SeqNo -> Nat \cup {-1}] /\ sendTime'[s] = now
      /\ lastDelay' \in [SeqNo -> Nat \cup {-1}] /\ lastDelay'[s] = now
      /\ \A x \in SeqNo : x # s => sendTime'[x] = sendTime[x] /\ lastDelay'[x] = lastDelay[x]
  BY <1>0, <1>2
<1>4. /\ firstSent' \in [SeqNo -> Nat \cup {-1}]
      /\ firstSent'[s] = (IF firstSent[s] = NoTime THEN now ELSE firstSent[s])
      /\ \A x \in SeqNo : x # s => firstSent'[x] = firstSent[x]
  BY <1>0, <1>1, <1>2
<1>5. /\ seqTimeouts' \in [SeqNo -> Nat \cup {-1}]
      /\ seqTimeouts'[s] = (IF seqTimeouts[s] = NoTime THEN now ELSE seqTimeouts[s])
      /\ \A x \in SeqNo : x # s => seqTimeouts'[x] = seqTimeouts[x]
  BY <1>0, <1>1, <1>2
<1>6. /\ fullDelay' \in [SeqNo -> Nat \cup {-1}]
      /\ fullDelay'[s] = (IF fullDelay[s] = NoTime THEN now ELSE fullDelay[s])
      /\ \A x \in SeqNo : x # s => fullDelay'[x] = fullDelay[x]
  BY <1>0, <1>1, <1>2
<1>7. seqTimeouts'[s] = now
  BY <1>5 DEF Picks
<1>8. fullDelay'[s] = firstSent'[s]
  BY <1>4, <1>6 DEF Picks
<1> QED
  BY <1>2, <1>3, <1>4, <1>5, <1>6, <1>7, <1>8 DEF Instant

\* The estimator keeps its initial values when Interests are sent.
LEMMA SentKeepsEstimate ==
  ASSUME now \in Nat, NEW r \in Estimators, NEW S \in SUBSET SeqNo
  PROVE  (\A s \in SeqNo : SentSeq(r, s) \in Estimators) /\ SentSeqs(r, S) \in Estimators
<1>0. /\ r.sent \in [SeqNo -> Nat \cup {-1}] /\ r.retx \in SUBSET SeqNo
      /\ r = [estimate |-> r.estimate, variance |-> r.variance, samples |-> r.samples,
              sent |-> r.sent, retx |-> r.retx]
      /\ r.estimate = InitialEstimate /\ r.variance = 0 /\ r.samples \in Nat
  BY DEF Estimators, Instant
<1>1. ASSUME NEW f \in [SeqNo -> Nat \cup {-1}], NEW T \in SUBSET SeqNo
      PROVE  [estimate |-> r.estimate, variance |-> r.variance, samples |-> r.samples,
              sent |-> f, retx |-> T] \in Estimators
  BY <1>0 DEF Estimators, Instant
<1>2. ASSUME NEW s \in SeqNo PROVE SentSeq(r, s) \in Estimators
  <2>1. CASE r.sent[s] # NoTime
    <3>1. SentSeq(r, s) = [estimate |-> r.estimate, variance |-> r.variance,
                           samples |-> r.samples, sent |-> r.sent, retx |-> r.retx \cup {s}]
      BY <1>0, <2>1 DEF SentSeq, Estimators
    <3>2. r.retx \cup {s} \in SUBSET SeqNo
      BY <1>0
    <3> QED
      BY <1>0, <1>1, <3>1, <3>2
  <2>2. CASE r.sent[s] = NoTime
    <3>1. SentSeq(r, s) = [estimate |-> r.estimate, variance |-> r.variance,
                           samples |-> r.samples, sent |-> [r.sent EXCEPT ![s] = now],
                           retx |-> r.retx]
      BY <1>0, <2>2 DEF SentSeq, Estimators
    <3>2. [r.sent EXCEPT ![s] = now] \in [SeqNo -> Nat \cup {-1}]
      BY <1>0
    <3> QED
      BY <1>0, <1>1, <3>1, <3>2
  <2> QED
    BY <2>1, <2>2
<1>3. SentSeqs(r, S) \in Estimators
  <2> DEFINE f == [x \in SeqNo |-> IF x \in S /\ r.sent[x] = NoTime THEN now ELSE r.sent[x]]
             T == r.retx \cup {x \in S : r.sent[x] # NoTime}
  <2>1. SentSeqs(r, S) = [estimate |-> r.estimate, variance |-> r.variance,
                          samples |-> r.samples, sent |-> f, retx |-> T]
    <3>1. SentSeqs(r, S) = [r EXCEPT !.retx = T, !.sent = f]
      BY DEF SentSeqs
    <3> HIDE DEF f, T
    <3> QED
      BY <1>0, <3>1 DEF Estimators
  <2>2. f \in [SeqNo -> Nat \cup {-1}] /\ T \in SUBSET SeqNo
    BY <1>0
  <2> QED
    BY <1>1, <2>1, <2>2
<1> QED
  BY <1>2, <1>3

\* A request that is sent: a unique one more, or a retransmission that was queued.
LEMMA SendCounts ==
  ASSUME TypeInv, BooksInv, RetransmissionsAreTimeouts, NEW s \in SeqNo, Picks(s),
         WillSendOutInterest(s), retxSeqs' = retxSeqs \ {s}
  PROVE  RetransmissionsAreTimeouts'
<1>1. IsFiniteSet(Requested) /\ IsFiniteSet(retxSeqs)
  BY SeqNoFacts, FS_Subset DEF Requested, TypeInv, ConsumerTypeOK
<1>2. /\ Cardinality(Requested) \in Nat /\ Cardinality(retxSeqs) \in Nat
      /\ interestSent \in Nat /\ timeoutCount \in Nat
  BY <1>1, FS_CardinalityType DEF TypeInv, ConsumerTypeOK
<1>3. /\ interestSent' = interestSent + 1 /\ timeoutCount' = timeoutCount
      /\ firstSent'[s] # NoTime /\ \A x \in SeqNo : x # s => firstSent'[x] = firstSent[x]
  <2>1. firstSent[s] \in Nat \cup {-1} /\ now \in Nat
    BY DEF TypeInv, ConsumerTypeOK, Instant
  <2>2. firstSent'[s] = (IF firstSent[s] = NoTime THEN now ELSE firstSent[s])
    BY SendWrites
  <2> QED
    BY <2>1, <2>2, SendWrites
<1>4. Requested' = Requested \cup {s}
  BY <1>3 DEF Requested
<1>5. CASE s \in retxSeqs
  <2>1. s \in Requested
    BY <1>5 DEF BooksInv, Requested
  <2>2. Requested' = Requested
    BY <1>4, <2>1
  <2>3. Cardinality(retxSeqs') = Cardinality(retxSeqs) - 1
    BY <1>1, <1>5, FS_RemoveElement
  <2> QED
    BY <1>2, <1>3, <2>2, <2>3 DEF RetransmissionsAreTimeouts
<1>6. CASE s \notin retxSeqs
  <2>1. s \notin Requested
    BY <1>6 DEF Picks, Requested
  <2>2. Cardinality(Requested') = Cardinality(Requested) + 1
    BY <1>1, <1>4, <2>1, FS_AddElement
  <2>3. retxSeqs' = retxSeqs
    BY <1>6
  <2> QED
    BY <1>2, <1>3, <2>2, <2>3 DEF RetransmissionsAreTimeouts
<1> QED
  BY <1>5, <1>6

\* An Interest is sent.
LEMMA SendStep ==
  ASSUME ConsumerInv, NEW c \in calls, c.at = now, NEW s \in SeqNo, SendPacket(c, s), Transmit(s),
         TakeUids, UNCHANGED <<now, stopped>>
  PROVE  ConsumerInv'
<1>0. /\ TypeInv /\ CallsInv /\ BooksInv /\ SendTimesInv /\ CheckInv /\ PaceInv /\ PlaceInv
      /\ RetransmissionsAreTimeouts /\ ConsumerTypeOK
  BY DEF ConsumerInv, TypeInv
<1>1. /\ c.call = "SendPacket" /\ active /\ retxSeqs' = retxSeqs \ {s}
      /\ WillSendOutInterest(s) /\ ScheduleNextPacket(calls \ {c}) /\ active' = active
      /\ now' = now /\ stopped' = stopped
      /\ rtt' = SentSeq(rtt, s)
  BY DEF SendPacket, AfterSend, WillSendOutInterest
<1>2. Picks(s)
  BY <1>0, SendPicks
<1>3. ~firstTime
  BY <1>0, <1>1 DEF BooksInv
<1>4. /\ Schedules(calls \ {c})
      /\ \A k \in calls \ {c} : k.call # "SendPacket"
  <2>1. Schedules(calls \ {c})
    BY <1>0, <1>1, <1>3, ScheduleEffect
  <2>2. ASSUME NEW k \in calls \ {c} PROVE k.call # "SendPacket"
    BY <1>0, <1>1 DEF CallsInv
  <2> QED
    BY <2>1, <2>2
<1>5. /\ seqTimeouts' \in Instant /\ fullDelay' \in Instant /\ lastDelay' \in Instant
      /\ firstSent' \in Instant /\ sendTime' \in Instant
      /\ seqTimeouts'[s] = now /\ sendTime'[s] = now /\ lastDelay'[s] = now
      /\ firstSent'[s] = (IF firstSent[s] = NoTime THEN now ELSE firstSent[s])
      /\ fullDelay'[s] = firstSent'[s]
      /\ \A x \in SeqNo : x # s =>
            /\ seqTimeouts'[x] = seqTimeouts[x] /\ sendTime'[x] = sendTime[x]
            /\ lastDelay'[x] = lastDelay[x] /\ firstSent'[x] = firstSent[x]
            /\ fullDelay'[x] = fullDelay[x]
      /\ interestSent' = interestSent + 1 /\ satisfied' = satisfied /\ timeoutCount' = timeoutCount
  BY <1>0, <1>1, <1>2, SendWrites
<1>6. /\ now \in Nat /\ nextUid \in Nat /\ nextSeq \in Nat /\ s \in Nat /\ s < SeqMax
      /\ SeqMax \in Nat /\ \A x \in SeqNo : x \in Nat
  BY <1>0, SeqNoFacts DEF TypeInv, ConsumerTypeOK
<1>7. firstSent'[s] # NoTime /\ now # NoTime
  <2>1. firstSent[s] \in Nat \cup {-1}
    BY <1>0 DEF ConsumerTypeOK, Instant
  <2> QED
    BY <1>5, <1>6, <2>1
<1>8. /\ arrivals' \subseteq [at : Nat, seq : SeqNo]
      /\ \A a \in arrivals' : a \in arrivals \/ a.seq = s
  <2>1. CASE UNCHANGED arrivals
    BY <1>0, <2>1 DEF TypeInv
  <2>2. CASE \E d \in DataDelay : arrivals' = arrivals \cup {[at |-> now + d, seq |-> s]}
    <3>1. PICK d \in DataDelay : arrivals' = arrivals \cup {[at |-> now + d, seq |-> s]}
      BY <2>2
    <3>2. d \in Nat /\ [at |-> now + d, seq |-> s] \in [at : Nat, seq : SeqNo]
      BY <1>6, RequestsAssumption
    <3> QED
      BY <1>0, <3>1, <3>2 DEF TypeInv
  <2> QED
    BY <2>1, <2>2 DEF Transmit
<1>9. TypeInv'
  <2>1. rtt' \in Estimators
    <3>1. {} \in SUBSET SeqNo
      OBVIOUS
    <3> QED
      BY <1>0, <1>1, <1>6, <3>1, SentKeepsEstimate DEF TypeInv
  <2>2. nextSeq' \in 0..SeqMax
    BY <1>0, <1>2, <1>6 DEF Picks, ConsumerTypeOK
  <2>3. nextUid' \in Nat /\ interestSent' \in Nat
    BY <1>0, <1>5, <1>6 DEF TakeUids, ConsumerTypeOK
  <2>4. ConsumerTypeOK'
    BY <1>0, <1>1, <1>4, <1>5, <2>2, <2>3 DEF ConsumerTypeOK, Schedules
  <2> QED
    BY <1>0, <1>1, <1>6, <1>8, <2>1, <2>3, <2>4 DEF TypeInv
<1>10. BooksInv'
  <2>1. \A x \in SeqNo : firstSent'[x] # NoTime <=> x < nextSeq'
    BY <1>0, <1>2, <1>5, <1>6, <1>7 DEF BooksInv, Picks
  <2>2. \A x \in SeqNo : seqTimeouts'[x] # NoTime \/ x \in retxSeqs' \/ x \in satisfied'
                            => firstSent'[x] # NoTime
    BY <1>0, <1>1, <1>5, <1>7 DEF BooksInv
  <2>3. \A a \in arrivals' : firstSent'[a.seq] # NoTime
    <3>1. \A a \in arrivals : a.seq \in SeqNo
      BY <1>0 DEF TypeInv
    <3> QED
      BY <1>0, <1>5, <1>7, <1>8, <3>1 DEF BooksInv
  <2>4. \A x \in SeqNo : firstSent'[x] = NoTime => fullDelay'[x] = NoTime
    BY <1>0, <1>5 DEF BooksInv
  <2>5. ~firstTime' /\ active' /\ ~stopped'
    BY <1>0, <1>1, <1>3, <1>4 DEF Schedules, BooksInv
  <2> QED
    BY <2>1, <2>2, <2>3, <2>4, <2>5 DEF BooksInv
<1>11. SendTimesInv'
  BY <1>0, <1>1, <1>5, <1>6, <1>7 DEF SendTimesInv
<1>12. CheckInv'
  <2>1. PICK k \in calls :
            /\ k.call = "CheckRetxTimeout" /\ k.at <= now + RetxTimer
            /\ \A x \in SeqNo : seqTimeouts[x] # NoTime =>
                  k.at <= seqTimeouts[x] + InitialRto + RetxTimer
    BY <1>0 DEF CheckInv
  <2>2. k \in calls'
    BY <1>1, <1>4, <2>1 DEF Schedules
  <2>3. k.at \in Nat /\ InitialRto \in Nat /\ RetxTimer \in Nat
    BY <1>0, RtoIsNat, ConsumerAssumption DEF ConsumerTypeOK, ConsumerCall
  <2>4. \A x \in SeqNo : seqTimeouts'[x] # NoTime =>
                  k.at <= seqTimeouts'[x] + InitialRto + RetxTimer
    BY <1>5, <1>6, <2>1, <2>3
  <2> QED
    BY <1>1, <2>1, <2>2, <2>4 DEF CheckInv
<1>13. PaceInv'
  <2> SUFFICES ASSUME NEW k \in calls', k.call = "SendPacket", NEW x \in SeqNo,
                      firstSent'[x] # NoTime
               PROVE  k.at >= sendTime'[x] + Min(SendGap)
    BY DEF PaceInv
  <2>1. PICK d \in SendGap : k.at = now + d
    BY <1>3, <1>4 DEF Schedules
  <2>2. d \in Nat /\ Min(SendGap) \in Nat /\ Min(SendGap) <= d
    BY MinIsLeast, ConsumerAssumption
  <2>3. sendTime'[x] <= now /\ sendTime'[x] \in Nat
    BY <1>1, <1>9, <1>11 DEF SendTimesInv, TypeInv, ConsumerTypeOK, Instant
  <2> QED
    BY <1>6, <2>1, <2>2, <2>3
<1>14. PlaceInv'
  <2> SUFFICES ASSUME NEW x \in SeqNo
               PROVE  /\ firstSent'[x] # NoTime =>
                            x \in satisfied' \/ seqTimeouts'[x] # NoTime \/ x \in retxSeqs'
                      /\ x \in satisfied' => seqTimeouts'[x] = NoTime /\ x \notin retxSeqs'
                      /\ x \in retxSeqs' => seqTimeouts'[x] = NoTime
                      /\ seqTimeouts'[x] # NoTime \/ x \in retxSeqs' =>
                            fullDelay'[x] = firstSent'[x] /\ lastDelay'[x] = sendTime'[x]
    BY DEF PlaceInv
  <2>1. CASE x = s
    BY <1>1, <1>2, <1>5, <1>7, <2>1 DEF Picks
  <2>2. CASE x # s
    BY <1>0, <1>1, <1>5, <2>2 DEF PlaceInv
  <2> QED
    BY <2>1, <2>2
<1>15. RetransmissionsAreTimeouts'
  BY <1>0, <1>1, <1>2, SendCounts
<1> QED
  BY <1>4, <1>9, <1>10, <1>11, <1>12, <1>13, <1>14, <1>15 DEF ConsumerInv, Schedules

\* The timeout that the timer reads is the initial one.
LEMMA RtoIsInitial ==
  ASSUME TypeInv
  PROVE  RetransmitTimeout(rtt) = InitialRto
<1>1. rtt.estimate = InitialEstimate /\ rtt.variance = 0
  BY DEF TypeInv, Estimators
<1>2. RttInit.estimate = InitialEstimate /\ RttInit.variance = 0
  BY DEF RttInit
<1> QED
  BY <1>1, <1>2 DEF RetransmitTimeout, InitialRto

\* What a check takes off the timer was watched, and its time has passed.
LEMMA OverdueFacts ==
  ASSUME TypeInv, BooksInv, SendTimesInv
  PROVE  /\ Overdue \subseteq SeqNo /\ IsFiniteSet(Overdue)
         /\ \A s \in Overdue : seqTimeouts[s] # NoTime /\ sendTime[s] + InitialRto <= now
         /\ \A s \in SeqNo : seqTimeouts[s] # NoTime /\ s \notin Overdue =>
               now < seqTimeouts[s] + InitialRto
<1>1. Overdue \subseteq SeqNo
  BY DEF Overdue
<1>2. RetransmitTimeout(rtt) = InitialRto /\ InitialRto \in Nat
  BY RtoIsInitial, RtoIsNat
<1>3. \A s \in Overdue : seqTimeouts[s] # NoTime /\ seqTimeouts[s] + InitialRto <= now
  BY <1>2 DEF Overdue
<1>4. \A s \in SeqNo : seqTimeouts[s] # NoTime /\ s \notin Overdue =>
               ~(seqTimeouts[s] + InitialRto <= now)
  BY <1>2 DEF Overdue
<1>5. now \in Nat /\ \A s \in SeqNo : seqTimeouts[s] \in Nat \cup {-1}
  BY DEF TypeInv, ConsumerTypeOK, Instant
<1>6. \A s \in Overdue : seqTimeouts[s] = sendTime[s]
  BY <1>1, <1>3 DEF SendTimesInv
<1> QED
  BY <1>1, <1>2, <1>3, <1>4, <1>5, <1>6, SeqNoFacts, FS_Subset

\* The timer looks at the requests; those that are overdue are queued.
LEMMA CheckStep ==
  ASSUME ConsumerInv, NEW c \in calls, c.at = now, Check(c)
  PROVE  ConsumerInv'
<1>0. /\ TypeInv /\ CallsInv /\ BooksInv /\ SendTimesInv /\ CheckInv /\ PaceInv /\ PlaceInv
      /\ RetransmissionsAreTimeouts /\ ConsumerTypeOK
  BY DEF ConsumerInv, TypeInv
<1>1. /\ c.call = "CheckRetxTimeout"
      /\ seqTimeouts' = [s \in SeqNo |-> IF s \in Overdue THEN NoTime ELSE seqTimeouts[s]]
      /\ retxSeqs' = retxSeqs \cup Overdue
      /\ timeoutCount' = timeoutCount + Cardinality(Overdue)
      /\ rtt' = SentSeqs(rtt, Overdue)
      /\ IF Overdue # {} THEN ScheduleNextPacket(NextCheck(c))
                         ELSE calls' = NextCheck(c) /\ UNCHANGED <<sendEvent, firstTime>>
      /\ now' = now /\ stopped' = stopped /\ arrivals' = arrivals /\ active' = active
      /\ nextSeq' = nextSeq /\ fullDelay' = fullDelay /\ lastDelay' = lastDelay
      /\ firstSent' = firstSent /\ sendTime' = sendTime /\ satisfied' = satisfied
      /\ interestSent' = interestSent
      /\ TakeUids
  BY DEF Check, CheckRetxTimeout, RestartSend, networkVars
<1>2. /\ Overdue \subseteq SeqNo /\ IsFiniteSet(Overdue)
      /\ \A s \in Overdue : seqTimeouts[s] # NoTime /\ sendTime[s] + InitialRto <= now
      /\ \A s \in SeqNo : seqTimeouts[s] # NoTime /\ s \notin Overdue =>
            now < seqTimeouts[s] + InitialRto
  BY <1>0, OverdueFacts
<1>3. /\ now \in Nat /\ RetxTimer \in Nat /\ InitialRto \in Nat
      /\ seqTimeouts \in [SeqNo -> Nat \cup {-1}]
  BY <1>0, RtoIsNat, ConsumerAssumption DEF TypeInv, ConsumerTypeOK, Instant
<1>4. NextCheck(c) = (calls \ {c}) \cup {CheckCall}
  BY DEF NextCheck, CheckCall
<1>5. Schedules(NextCheck(c)) /\ NextCheck(c) \subseteq calls \cup {CheckCall}
  <2>1. ScheduleNextPacket(NextCheck(c))
          \/ (calls' = NextCheck(c) /\ UNCHANGED <<sendEvent, firstTime>>)
    BY <1>1
  <2>2. NextCheck(c) \subseteq calls \cup {CheckCall}
    BY <1>4
  <2>3. firstTime => \A k \in calls : k.call # "SendPacket"
    BY <1>0 DEF BooksInv
  <2> QED
    BY <1>0, <1>1, <2>1, <2>2, <2>3, ScheduleEffect
<1>6. /\ CheckCall \in calls' /\ CheckCall.at = now + RetxTimer
      /\ CheckCall.call = "CheckRetxTimeout"
  BY <1>4, <1>5 DEF Schedules, CheckCall, ConsumerCallAt
<1>7. /\ seqTimeouts' \in [SeqNo -> Nat \cup {-1}]
      /\ \A s \in SeqNo : seqTimeouts'[s] # NoTime =>
            seqTimeouts'[s] = seqTimeouts[s] /\ s \notin Overdue
      /\ \A s \in SeqNo : seqTimeouts'[s] = (IF s \in Overdue THEN -1 ELSE seqTimeouts[s])
  BY <1>1, <1>3
<1>8. TypeInv'
  <2>1. rtt' \in Estimators
    BY <1>0, <1>1, <1>2, <1>3, SentKeepsEstimate DEF TypeInv
  <2>2. nextUid' \in Nat /\ timeoutCount' \in Nat
    BY <1>0, <1>1, <1>2, FS_CardinalityType DEF TakeUids, ConsumerTypeOK, TypeInv
  <2>3. ConsumerTypeOK'
    BY <1>0, <1>1, <1>2, <1>5, <1>7, <2>2 DEF ConsumerTypeOK, Schedules, Instant
  <2> QED
    BY <1>0, <1>1, <2>1, <2>2, <2>3 DEF TypeInv
<1>9. BooksInv'
  <2>1. \A s \in SeqNo : seqTimeouts'[s] # NoTime \/ s \in retxSeqs' \/ s \in satisfied'
                            => firstSent'[s] # NoTime
    BY <1>0, <1>1, <1>2, <1>7 DEF BooksInv
  <2>2. firstTime' => firstTime /\ \A k \in calls' : k.call # "SendPacket"
    <3>1. firstTime' => firstTime /\ calls' = NextCheck(c)
      BY <1>5 DEF Schedules
    <3> QED
      BY <1>0, <1>4, <1>6, <3>1 DEF BooksInv
  <2>3. ~active' /\ ~stopped' => firstTime'
    <3>1. ~active /\ ~stopped => firstTime /\ \A s \in SeqNo : firstSent[s] = NoTime
      BY <1>0, SeqNoFacts DEF BooksInv
    <3>2. ~active /\ ~stopped => Overdue = {}
      BY <1>0, <1>2, <3>1 DEF BooksInv
    <3> QED
      BY <1>1, <3>1, <3>2
  <2> QED
    BY <1>0, <1>1, <2>1, <2>2, <2>3 DEF BooksInv
<1>10. SendTimesInv'
  BY <1>0, <1>1, <1>7 DEF SendTimesInv
<1>11. CheckInv'
  <2>1. \A s \in SeqNo : seqTimeouts'[s] # NoTime =>
            CheckCall.at <= seqTimeouts'[s] + InitialRto + RetxTimer
    BY <1>2, <1>3, <1>6, <1>7
  <2>2. CheckCall.at <= now' + RetxTimer
    BY <1>1, <1>3, <1>6
  <2> QED
    BY <1>6, <2>1, <2>2, Zenon DEF CheckInv
<1>12. PaceInv'
  BY <1>0, <1>1, <1>5, CallsKept
<1>13. PlaceInv'
  <2> SUFFICES ASSUME active, NEW x \in SeqNo
               PROVE  /\ firstSent[x] # NoTime =>
                            x \in satisfied \/ seqTimeouts'[x] # NoTime \/ x \in retxSeqs'
                      /\ x \in satisfied => seqTimeouts'[x] = NoTime /\ x \notin retxSeqs'
                      /\ x \in retxSeqs' => seqTimeouts'[x] = NoTime
                      /\ seqTimeouts'[x] # NoTime \/ x \in retxSeqs' =>
                            fullDelay[x] = firstSent[x] /\ lastDelay[x] = sendTime[x]
    BY <1>1 DEF PlaceInv
  <2>1. CASE x \in Overdue
    BY <1>0, <1>1, <1>2, <1>7, <2>1 DEF PlaceInv
  <2>2. CASE x \notin Overdue
    BY <1>0, <1>1, <1>7, <2>2 DEF PlaceInv
  <2> QED
    BY <2>1, <2>2
<1>14. RetransmissionsAreTimeouts'
  <2>1. IsFiniteSet(Requested) /\ IsFiniteSet(retxSeqs) /\ Requested' = Requested
    BY <1>0, <1>1, SeqNoFacts, FS_Subset DEF Requested, ConsumerTypeOK
  <2>2. IsFiniteSet(retxSeqs \cap Overdue)
    BY <2>1, FS_Subset
  <2>3. /\ Cardinality(Requested) \in Nat /\ Cardinality(retxSeqs) \in Nat
        /\ Cardinality(Overdue) \in Nat /\ Cardinality(retxSeqs \cap Overdue) \in Nat
        /\ interestSent \in Nat /\ timeoutCount \in Nat
    BY <1>0, <1>2, <2>1, <2>2, FS_CardinalityType DEF ConsumerTypeOK
  <2>4. Cardinality(retxSeqs') =
            Cardinality(retxSeqs) + Cardinality(Overdue) - Cardinality(retxSeqs \cap Overdue)
    BY <1>1, <1>2, <2>1, FS_Union
  <2> QED
    BY <1>0, <1>1, <2>1, <2>3, <2>4 DEF RetransmissionsAreTimeouts
<1> QED
  BY <1>5, <1>8, <1>9, <1>10, <1>11, <1>12, <1>13, <1>14 DEF ConsumerInv, Schedules

\* Data comes: its request is closed, unless the application has stopped.
LEMMA ArriveStep ==
  ASSUME ConsumerInv, NEW a \in arrivals, Arrive(a)
  PROVE  ConsumerInv'
<1>0. /\ TypeInv /\ CallsInv /\ BooksInv /\ SendTimesInv /\ CheckInv /\ PaceInv /\ PlaceInv
      /\ RetransmissionsAreTimeouts /\ ConsumerTypeOK
  BY DEF ConsumerInv, TypeInv
<1> DEFINE q == a.seq
<1>1. /\ satisfied' = satisfied \cup {q} /\ arrivals' = arrivals \ {a}
      /\ active' = active /\ firstTime' = firstTime /\ nextSeq' = nextSeq /\ calls' = calls
      /\ sendEvent' = sendEvent /\ firstSent' = firstSent /\ sendTime' = sendTime
      /\ interestSent' = interestSent /\ timeoutCount' = timeoutCount
      /\ now' = now /\ nextUid' = nextUid /\ stopped' = stopped
      /\ active => /\ seqTimeouts' = [seqTimeouts EXCEPT ![q] = NoTime]
                   /\ fullDelay' = [fullDelay EXCEPT ![q] = NoTime]
                   /\ lastDelay' = [lastDelay EXCEPT ![q] = NoTime]
                   /\ retxSeqs' = retxSeqs \ {q} /\ rtt' = RttInit
      /\ ~active => /\ seqTimeouts' = seqTimeouts /\ fullDelay' = fullDelay
                    /\ lastDelay' = lastDelay /\ retxSeqs' = retxSeqs /\ rtt' = rtt
  BY DEF Arrive, OnData, AfterAnswer, ResetRtt, requestVars
<1>2. q \in SeqNo /\ firstSent[q] # NoTime
  BY <1>0 DEF TypeInv, BooksInv
<1> HIDE DEF q
<1>3. /\ seqTimeouts \in [SeqNo -> Nat \cup {-1}] /\ fullDelay \in [SeqNo -> Nat \cup {-1}]
      /\ lastDelay \in [SeqNo -> Nat \cup {-1}]
  BY <1>0 DEF ConsumerTypeOK, Instant
<1>4. /\ seqTimeouts' \in [SeqNo -> Nat \cup {-1}] /\ fullDelay' \in [SeqNo -> Nat \cup {-1}]
      /\ lastDelay' \in [SeqNo -> Nat \cup {-1}]
      /\ retxSeqs' \subseteq retxSeqs
      /\ active => seqTimeouts'[q] = NoTime /\ fullDelay'[q] = NoTime /\ q \notin retxSeqs'
      /\ \A s \in SeqNo : seqTimeouts'[s] # NoTime => seqTimeouts'[s] = seqTimeouts[s]
      /\ \A s \in SeqNo : s # q => /\ seqTimeouts'[s] = seqTimeouts[s]
                                   /\ fullDelay'[s] = fullDelay[s]
                                   /\ lastDelay'[s] = lastDelay[s]
                                   /\ s \in retxSeqs' <=> s \in retxSeqs
  <2>1. CASE active
    BY <1>1, <1>2, <1>3, <2>1
  <2>2. CASE ~active
    BY <1>1, <1>2, <1>3, <2>2
  <2> QED
    BY <2>1, <2>2
<1>5. TypeInv'
  <2>1. rtt' \in Estimators
    <3>1. Nothing \in Instant
      BY DEF Nothing, Instant
    <3>2. RttInit \in Estimators
      BY <3>1 DEF RttInit, Estimators
    <3>3. rtt' = RttInit \/ rtt' = rtt
      BY <1>1
    <3> QED
      BY <1>0, <3>2, <3>3 DEF TypeInv
  <2>2. ConsumerTypeOK'
    BY <1>0, <1>1, <1>2, <1>4 DEF ConsumerTypeOK, Instant
  <2> QED
    BY <1>0, <1>1, <2>1, <2>2 DEF TypeInv
<1>6. BooksInv'
  <2>1. \A s \in SeqNo : seqTimeouts'[s] # NoTime \/ s \in retxSeqs' \/ s \in satisfied'
                            => firstSent'[s] # NoTime
    BY <1>0, <1>1, <1>2, <1>4 DEF BooksInv
  <2>2. \A s \in SeqNo : firstSent'[s] = NoTime => fullDelay'[s] = NoTime
    BY <1>0, <1>1, <1>2, <1>4 DEF BooksInv
  <2> QED
    BY <1>0, <1>1, <2>1, <2>2 DEF BooksInv
<1>7. SendTimesInv'
  BY <1>0, <1>1, <1>4 DEF SendTimesInv
<1>8. CheckInv' /\ CallsInv' /\ PaceInv'
  <2>1. CheckInv'
    BY <1>0, <1>1, <1>4, CheckKept
  <2> QED
    BY <1>0, <1>1, <2>1 DEF CallsInv, PaceInv
<1>9. PlaceInv'
  <2> SUFFICES ASSUME active, NEW x \in SeqNo
               PROVE  /\ firstSent[x] # NoTime =>
                            x \in satisfied' \/ seqTimeouts'[x] # NoTime \/ x \in retxSeqs'
                      /\ x \in satisfied' => seqTimeouts'[x] = NoTime /\ x \notin retxSeqs'
                      /\ x \in retxSeqs' => seqTimeouts'[x] = NoTime
                      /\ seqTimeouts'[x] # NoTime \/ x \in retxSeqs' =>
                            fullDelay'[x] = firstSent[x] /\ lastDelay'[x] = sendTime[x]
    BY <1>1 DEF PlaceInv
  <2>1. CASE x = q
    BY <1>1, <1>4, <2>1
  <2>2. CASE x # q
    BY <1>0, <1>1, <1>4, <2>2 DEF PlaceInv
  <2> QED
    BY <2>1, <2>2
<1>10. RetransmissionsAreTimeouts'
  <2>1. IsFiniteSet(Requested) /\ IsFiniteSet(retxSeqs) /\ Requested' = Requested
    BY <1>0, <1>1, SeqNoFacts, FS_Subset DEF Requested, ConsumerTypeOK
  <2>2. IsFiniteSet(retxSeqs') /\ Cardinality(retxSeqs') <= Cardinality(retxSeqs)
    BY <1>4, <2>1, FS_Subset
  <2>3. /\ Cardinality(Requested) \in Nat /\ Cardinality(retxSeqs) \in Nat
        /\ Cardinality(retxSeqs') \in Nat /\ interestSent \in Nat /\ timeoutCount \in Nat
    BY <1>0, <2>1, <2>2, FS_CardinalityType DEF ConsumerTypeOK
  <2> QED
    BY <1>0, <1>1, <2>1, <2>2, <2>3 DEF RetransmissionsAreTimeouts
<1> QED
  BY <1>5, <1>6, <1>7, <1>8, <1>9, <1>10 DEF ConsumerInv

\* Time goes on when no call is left at this instant.
LEMMA TickStep ==
  ASSUME ConsumerInv, RequestsTick
  PROVE  ConsumerInv'
<1>0. /\ TypeInv /\ CallsInv /\ BooksInv /\ SendTimesInv /\ CheckInv /\ PaceInv /\ PlaceInv
      /\ RetransmissionsAreTimeouts /\ ConsumerTypeOK
  BY DEF ConsumerInv, TypeInv
<1>1. /\ \A c \in calls : c.at # now
      /\ now' = now + 1 /\ nextUid' = nextUid
      /\ UNCHANGED <<active, firstTime, nextSeq, calls, sendEvent, seqTimeouts, retxSeqs,
                     fullDelay, lastDelay, rtt, firstSent, sendTime, satisfied, interestSent,
                     timeoutCount, arrivals, losses, stopped>>
  BY DEF RequestsTick, Advance, consumerVars, requestVars, statisticVars, networkVars
<1>2. now \in Nat /\ now' \in Nat /\ \A c \in calls : c.at \in Nat
  BY <1>0, <1>1 DEF TypeInv, ConsumerTypeOK, ConsumerCall
<1>3. TypeInv'
  BY <1>0, <1>1, <1>2 DEF TypeInv, ConsumerTypeOK
<1>4. CallsInv'
  BY <1>0, <1>1, <1>2 DEF CallsInv
<1>5. BooksInv' /\ PaceInv' /\ PlaceInv'
  <2>1. BooksInv'
    BY <1>0, <1>1 DEF BooksInv
  <2>2. PaceInv' /\ PlaceInv'
    BY <1>0, <1>1 DEF PaceInv, PlaceInv
  <2> QED
    BY <2>1, <2>2
<1>6. SendTimesInv'
  <2>1. \A s \in SeqNo : sendTime[s] \in Nat \cup {-1}
    BY <1>0 DEF ConsumerTypeOK, Instant
  <2> QED
    BY <1>0, <1>1, <1>2, <2>1 DEF SendTimesInv
<1>7. CheckInv'
  <2>1. RetxTimer \in Nat
    BY ConsumerAssumption
  <2> QED
    BY <1>0, <1>1, <1>2, <2>1 DEF CheckInv
<1>8. RetransmissionsAreTimeouts'
  BY <1>0, <1>1 DEF RetransmissionsAreTimeouts, Requested
<1> QED
  BY <1>3, <1>4, <1>5, <1>6, <1>7, <1>8 DEF ConsumerInv

\* Every step keeps the invariant.
LEMMA ConsumerStep == ConsumerInv /\ [RequestsNext]_requestsVars => ConsumerInv'
<1> SUFFICES ASSUME ConsumerInv, [RequestsNext]_requestsVars PROVE ConsumerInv'
  OBVIOUS
<1>0. TypeInv /\ CallsInv /\ BooksInv
  BY DEF ConsumerInv
<1>1. CASE Start
  BY <1>1, StartStep
<1>2. CASE Stop
  <2>1. /\ active' = FALSE /\ stopped' = TRUE /\ calls' = {c \in calls : c.uid # sendEvent}
        /\ UNCHANGED <<now, nextUid, firstTime, nextSeq, sendEvent, seqTimeouts, retxSeqs,
                       fullDelay, lastDelay, rtt, firstSent, sendTime, satisfied, interestSent,
                       timeoutCount, arrivals>>
    BY <1>2 DEF Stop, StopApplication, requestVars, statisticVars
  <2>2. calls' \subseteq calls
    BY <2>1
  <2>3. \A c \in calls : c.call = "CheckRetxTimeout" => c \in calls'
    BY <1>0, <2>1 DEF CallsInv
  <2>4. active' \in BOOLEAN /\ stopped' \in BOOLEAN
    BY <2>1, Zenon
  <2>5. nextUid' \in Nat /\ nextUid' >= nextUid
    BY <1>0, <2>1 DEF TypeInv
  <2> QED
    BY <2>1, <2>2, <2>3, <2>4, <2>5, QuietCallsStep
<1>3. ASSUME NEW c \in calls, Due(c, calls), Send(c) PROVE ConsumerInv'
  <2>0. c.at = now
    BY <1>3 DEF Due
  <2>1. CASE \E s \in SeqNo : SendPacket(c, s) /\ Transmit(s)
    BY <1>3, <2>0, <2>1, SendStep DEF Send
  <2>2. CASE SendNothing(c) /\ UNCHANGED <<arrivals, losses>>
    <3>1. /\ calls' = calls \ {c} /\ c.call = "SendPacket" /\ nextUid' = nextUid + 4
          /\ UNCHANGED <<active, now, stopped, firstTime, nextSeq, sendEvent, seqTimeouts,
                         retxSeqs, fullDelay, lastDelay, rtt, firstSent, sendTime, satisfied,
                         interestSent, timeoutCount, arrivals>>
      BY <1>3, <2>2 DEF Send, SendNothing, TakeUids, requestVars, statisticVars
    <3>2. calls' \subseteq calls /\ \A k \in calls : k.call = "CheckRetxTimeout" => k \in calls'
      BY <3>1
    <3>3. active' \in BOOLEAN /\ stopped' \in BOOLEAN
      BY <1>0, <3>1 DEF TypeInv, ConsumerTypeOK
    <3>4. nextUid' \in Nat /\ nextUid' >= nextUid
      BY <1>0, <3>1 DEF TypeInv
    <3> QED
      BY <3>1, <3>2, <3>3, <3>4, QuietCallsStep
  <2> QED
    BY <1>3, <2>1, <2>2 DEF Send
<1>4. ASSUME NEW c \in calls, Due(c, calls), Check(c) PROVE ConsumerInv'
  BY <1>4, CheckStep DEF Due
<1>5. ASSUME NEW a \in arrivals, Arrive(a) PROVE ConsumerInv'
  BY <1>5, ArriveStep
<1>6. CASE RequestsTick
  BY <1>6, TickStep
<1>7. CASE UNCHANGED requestsVars
  <2>1. UNCHANGED <<now, nextUid, active, firstTime, nextSeq, calls, sendEvent, seqTimeouts,
                    retxSeqs, fullDelay, lastDelay, rtt, firstSent, sendTime, satisfied,
                    interestSent, timeoutCount, arrivals, losses, stopped>>
    BY <1>7 DEF requestsVars, consumerVars, requestVars, statisticVars, networkVars
  <2>2. /\ active' \in BOOLEAN /\ stopped' \in BOOLEAN /\ nextUid' \in Nat /\ nextUid' >= nextUid
    BY <1>0, <2>1 DEF TypeInv, ConsumerTypeOK
  <2>3. calls' \subseteq calls /\ \A c \in calls : c.call = "CheckRetxTimeout" => c \in calls'
    BY <2>1
  <2> QED
    BY <2>1, <2>2, <2>3, QuietCallsStep
<1> QED
  BY <1>1, <1>2, <1>3, <1>4, <1>5, <1>6, <1>7 DEF RequestsNext, RequestsRun

\* The invariant holds of every behaviour of the consumer.
LEMMA ConsumerInvariance == RequestsSpec => []ConsumerInv
<1>1. RequestsInit => ConsumerInv
  BY ConsumerInitially
<1>2. ConsumerInv /\ [RequestsNext]_requestsVars => ConsumerInv'
  BY ConsumerStep
<1> QED
  BY <1>1, <1>2, PTL DEF RequestsSpec

--------------------------------------------------------------------------------
(* What the consumer promises *)

\* Every request that was sent is answered, watched or queued to be sent again, and only
\* one of these: OnData, CheckRetxTimeout and SendPacket never lose or repeat a request,
\* for every number of requests, every pace, and every order of Data, timeouts and losses.
THEOREM RequestsAreAccounted == RequestsSpec => []RequestsAccounted
<1>1. ConsumerInv => RequestsAccounted
  <2> SUFFICES ASSUME ConsumerInv PROVE RequestsAccounted
    OBVIOUS
  <2>0. ConsumerTypeOK /\ BooksInv /\ PlaceInv
    BY DEF ConsumerInv, TypeInv
  <2>1. ASSUME active PROVE Requested = satisfied \cup Watched \cup retxSeqs
    <3>1. ASSUME NEW s \in SeqNo
          PROVE  s \in Requested <=> s \in satisfied \/ s \in Watched \/ s \in retxSeqs
      BY <2>0, <2>1 DEF Requested, Watched, BooksInv, PlaceInv
    <3>2. Requested \subseteq SeqNo /\ satisfied \cup Watched \cup retxSeqs \subseteq SeqNo
      BY <2>0 DEF Requested, Watched, ConsumerTypeOK
    <3> QED
      BY <3>1, <3>2
  <2>2. ASSUME active PROVE satisfied \cap (Watched \cup retxSeqs) = {} /\ Watched \cap retxSeqs = {}
    BY <2>0, <2>2 DEF Watched, PlaceInv, ConsumerTypeOK
  <2> QED
    BY <2>0, <2>1, <2>2 DEF RequestsAccounted
<1> QED
  BY <1>1, ConsumerInvariance, PTL

\* The delays that OnData reports span the request from its first and from its latest
\* Interest, although an answer and the sends of other requests erase and write them.
THEOREM DelaysSpanRequests == RequestsSpec => []DelaysSpanTheRequest
<1>1. ConsumerInv => DelaysSpanTheRequest
  BY DEF ConsumerInv, TypeInv, ConsumerTypeOK, PlaceInv, DelaysSpanTheRequest, Watched
<1> QED
  BY <1>1, ConsumerInvariance, PTL

\* Every retransmission the summary counts was caused by a timeout of its own: interestSent
\* less the unique requests, with those still queued, never exceeds timeoutCount.
THEOREM RetransmissionsNeedTimeouts == RequestsSpec => []RetransmissionsAreTimeouts
<1>1. ConsumerInv => RetransmissionsAreTimeouts
  BY DEF ConsumerInv
<1> QED
  BY <1>1, ConsumerInvariance, PTL

\* CheckRetxTimeout looks at a watched request no later than one period after the initial
\* timeout, because the estimator is reset by every answer and the timer re-arms itself.
THEOREM TimeoutsAreTimely == RequestsSpec => []TimeoutIsTimely
<1>1. ConsumerInv => TimeoutIsTimely
  <2> SUFFICES ASSUME ConsumerInv, NEW s \in SeqNo, seqTimeouts[s] # NoTime
               PROVE  now <= seqTimeouts[s] + InitialRto + RetxTimer
    BY DEF TimeoutIsTimely, Watched
  <2>1. PICK c \in calls : c.at <= seqTimeouts[s] + InitialRto + RetxTimer
    BY DEF ConsumerInv, CheckInv
  <2>2. c.at >= now
    BY DEF ConsumerInv, CallsInv
  <2>3. c.at \in Nat /\ now \in Nat /\ seqTimeouts[s] \in Nat \cup {-1}
    BY DEF ConsumerInv, TypeInv, ConsumerTypeOK, ConsumerCall, Instant
  <2>4. InitialRto \in Nat /\ RetxTimer \in Nat
    BY RtoIsNat, ConsumerAssumption
  <2> QED
    BY <2>1, <2>2, <2>3, <2>4
<1> QED
  BY <1>1, ConsumerInvariance, PTL

\* No request is queued again before the initial timeout has passed since its latest
\* Interest: a sample or a retransmission never shortens the timeout CheckRetxTimeout reads.
THEOREM NoRetransmissionIsEarly == RequestsSpec => NoEarlyRetransmission
<1> DEFINE Waited == \A s \in retxSeqs' \ retxSeqs : now >= sendTime[s] + InitialRto
<1>1. ConsumerInv /\ [RequestsNext]_requestsVars => [Waited]_requestsVars
  <2> SUFFICES ASSUME ConsumerInv, RequestsNext, NEW s \in retxSeqs' \ retxSeqs
               PROVE  now >= sendTime[s] + InitialRto
    OBVIOUS
  <2>0. TypeInv /\ BooksInv /\ SendTimesInv
    BY DEF ConsumerInv
  <2>1. PICK c \in calls : Check(c)
    BY DEF RequestsNext, RequestsRun, Start, StartApplication, Stop, StopApplication, Send,
           SendPacket, AfterSend, SendNothing, Arrive, OnData, AfterAnswer, RequestsTick,
           consumerVars, requestVars
  <2>2. s \in Overdue
    BY <2>1 DEF Check, CheckRetxTimeout
  <2>3. sendTime[s] + InitialRto <= now
    BY <2>0, <2>2, OverdueFacts
  <2>4. sendTime[s] \in Nat \cup {-1} /\ now \in Nat /\ InitialRto \in Nat
    BY <2>0, <2>2, OverdueFacts, RtoIsNat DEF TypeInv, ConsumerTypeOK, Instant
  <2> QED
    BY <2>3, <2>4
<1>2. RequestsSpec => [][Waited]_requestsVars
  BY <1>1, ConsumerInvariance, PTL DEF RequestsSpec
<1> QED
  BY <1>2 DEF NoEarlyRetransmission

\* Interests leave no closer than the least send gap, also when timeouts restart the
\* sending: ScheduleNextPacket never keeps two calls of SendPacket.
THEOREM InterestsArePaced == RequestsSpec => SendsArePaced
<1> DEFINE Paced == interestSent' # interestSent =>
                      \A s \in Requested : now >= sendTime[s] + Min(SendGap)
<1>1. ConsumerInv /\ [RequestsNext]_requestsVars => [Paced]_requestsVars
  <2> SUFFICES ASSUME ConsumerInv, RequestsNext, interestSent' # interestSent, NEW s \in Requested
               PROVE  now >= sendTime[s] + Min(SendGap)
    OBVIOUS
  <2>1. PICK c \in calls : Due(c, calls) /\ c.call = "SendPacket"
    BY DEF RequestsNext, RequestsRun, Start, StartApplication, Stop, StopApplication, Send,
           SendPacket, SendNothing, Check, CheckRetxTimeout, Arrive, OnData, RequestsTick,
           consumerVars, statisticVars
  <2> QED
    BY <2>1 DEF ConsumerInv, PaceInv, Due, Requested
<1>2. RequestsSpec => [][Paced]_requestsVars
  BY <1>1, ConsumerInvariance, PTL DEF RequestsSpec
<1> QED
  BY <1>2 DEF SendsArePaced
================================================================================
