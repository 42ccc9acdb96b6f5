----------------------------- MODULE StatimConsumer ----------------------------
(***************************************************************************)
(* The consumer: StatimConsumer on top of ndnSIM's Consumer and its         *)
(* round-trip estimator.  It sends numbered Interests at a steady pace,      *)
(* looks for unanswered ones at every tick of the retransmission timer and   *)
(* sends those again, the lowest number first, before any new one.           *)
(***************************************************************************)
EXTENDS Simulator, FiniteSets, FiniteSetsExt

CONSTANTS SeqMax,            \* m_seqMax
          SendGap,           \* 1 / m_frequency, or the values of m_random
          RetxTimer,         \* m_retxTimer
          InitialEstimate,   \* m_initialEstimatedRtt
          MinRto, MaxRto     \* m_minRto, m_maxRto

ASSUME ConsumerAssumption ==
    /\ SeqMax \in Nat /\ SendGap \subseteq Nat /\ SendGap # {}
    /\ RetxTimer \in Nat \ {0} /\ InitialEstimate \in Nat
    /\ MinRto \in Nat /\ MaxRto \in Nat

SeqNo == 0..SeqMax - 1
NoTime == -1

VARIABLES active,            \* m_active
          firstTime,         \* m_firstTime
          nextSeq,           \* m_seq
          calls,             \* the scheduled calls of the consumer
          sendEvent,         \* m_sendEvent
          seqTimeouts,       \* m_seqTimeouts: when a watched Interest was sent
          retxSeqs,          \* m_retxSeqs: the Interests to be sent again
          fullDelay,         \* m_seqFullDelay: the first send of an open request
          lastDelay,         \* m_seqLastDelay: its latest send
          firstSent,         \* m_seqFirstSent
          sendTime,          \* m_seqSendTime
          satisfied,         \* m_seqSatisfied
          interestSent,      \* m_interestSent
          timeoutCount,      \* m_timeoutCount
          rtt                \* m_rtt

requestVars == <<seqTimeouts, retxSeqs, fullDelay, lastDelay, rtt>>
statisticVars == <<firstSent, sendTime, satisfied, interestSent, timeoutCount>>
consumerVars == <<active, firstTime, nextSeq, calls, sendEvent, requestVars, statisticVars>>

ConsumerCall == [uid : Nat, at : Nat, call : {"SendPacket", "CheckRetxTimeout"}]
Instant == [SeqNo -> Nat \cup {NoTime}]
Nothing == [s \in SeqNo |-> NoTime]

ConsumerTypeOK ==
    /\ active \in BOOLEAN /\ firstTime \in BOOLEAN /\ nextSeq \in 0..SeqMax
    /\ calls \subseteq ConsumerCall /\ sendEvent \in Nat \cup {NoTimer}
    /\ seqTimeouts \in Instant /\ fullDelay \in Instant /\ lastDelay \in Instant
    /\ firstSent \in Instant /\ sendTime \in Instant
    /\ retxSeqs \subseteq SeqNo /\ satisfied \subseteq SeqNo
    /\ interestSent \in Nat /\ timeoutCount \in Nat

--------------------------------------------------------------------------------
(* RttMeanDeviation: the estimate, its variance, and for each Interest in the history *)
(* when it was sent and whether it was sent again.                                    *)

RttInit ==
    [estimate |-> InitialEstimate, variance |-> 0, samples |-> 0,
     sent |-> Nothing, retx |-> {}]

RetransmitTimeout(r) ==
    Min({MaxRto, Max({MinRto, r.estimate + 4 * r.variance})})

\* SentSeq: an Interest that is in the history is marked as sent again.
SentSeq(r, s) ==
    IF r.sent[s] # NoTime THEN [r EXCEPT !.retx = @ \cup {s}]
                          ELSE [r EXCEPT !.sent[s] = now]

SentSeqs(r, S) ==
    [r EXCEPT !.retx = r.retx \cup {s \in S : r.sent[s] # NoTime},
              !.sent = [s \in SeqNo |-> IF s \in S /\ r.sent[s] = NoTime
                                        THEN now ELSE r.sent[s]]]

\* Measurement of the round trip d, with the gains 1/8 and 1/4.
Deviation(r, d) == IF d >= r.estimate THEN d - r.estimate ELSE r.estimate - d
Measurement(r, d) ==
    IF r.samples = 0
    THEN [r EXCEPT !.estimate = d, !.variance = d \div 2, !.samples = 1]
    ELSE [r EXCEPT !.estimate = @ + (d - @) \div 8,
                   !.variance = @ + (Deviation(r, d) - @) \div 4,
                   !.samples = @ + 1]

\* AckSeq: an Interest that was sent once gives a sample.
AckSeq(r, s) ==
    LET measured == IF r.sent[s] # NoTime /\ s \notin r.retx
                    THEN Measurement(r, now - r.sent[s]) ELSE r
    IN  [measured EXCEPT !.sent[s] = NoTime, !.retx = @ \ {s}]

\* Reset, which the consumer calls after every AckSeq.
ResetRtt_Kept(r) == r
ResetRtt(r) == RttInit

--------------------------------------------------------------------------------
SendUid == nextUid
CheckUid == nextUid + 1
ConsumerCallAt(uid, d, c) == [uid |-> uid, at |-> now + d, call |-> c]

\* The attribute RetxTimer is set when the application is created.
ConsumerInit ==
    /\ active = FALSE /\ firstTime = TRUE /\ nextSeq = 0
    /\ calls = {[uid |-> 0, at |-> RetxTimer, call |-> "CheckRetxTimeout"]}
    /\ sendEvent = NoTimer
    /\ seqTimeouts = Nothing /\ retxSeqs = {} /\ fullDelay = Nothing /\ lastDelay = Nothing
    /\ firstSent = Nothing /\ sendTime = Nothing /\ satisfied = {}
    /\ interestSent = 0 /\ timeoutCount = 0 /\ rtt = RttInit

\* ScheduleNextPacket, with the calls of rest still scheduled.
SendIsRunning_Never(rest) == FALSE
SendIsRunning(rest) == \E c \in rest : c.uid = sendEvent
ScheduleNextPacket(rest) ==
    IF firstTime \/ ~SendIsRunning(rest)
    THEN \E d \in IF firstTime THEN {0} ELSE SendGap :
            /\ calls' = rest \cup {ConsumerCallAt(SendUid, d, "SendPacket")}
            /\ sendEvent' = SendUid
            /\ firstTime' = FALSE
    ELSE calls' = rest /\ UNCHANGED <<sendEvent, firstTime>>

StartApplication ==
    /\ active' = TRUE
    /\ ScheduleNextPacket(calls)
    /\ UNCHANGED <<nextSeq, requestVars, statisticVars>>

\* StopApplication cancels the next Interest; the retransmission timer goes on.
StopApplication ==
    /\ active' = FALSE
    /\ calls' = {c \in calls : c.uid # sendEvent}
    /\ UNCHANGED <<firstTime, nextSeq, sendEvent, requestVars, statisticVars>>

\* WillSendOutInterest: the first send is kept, the latest replaced.
FirstKept(f, s) == IF f[s] = NoTime THEN [f EXCEPT ![s] = now] ELSE f
FullDelay_Latest(s) == [fullDelay EXCEPT ![s] = now]
FullDelay(s) == FirstKept(fullDelay, s)
WillSendOutInterest(s) ==
    /\ interestSent' = interestSent + 1
    /\ sendTime' = [sendTime EXCEPT ![s] = now]
    /\ firstSent' = FirstKept(firstSent, s)
    /\ seqTimeouts' = FirstKept(seqTimeouts, s)
    /\ fullDelay' = FullDelay(s)
    /\ lastDelay' = [lastDelay EXCEPT ![s] = now]
    /\ rtt' = SentSeq(rtt, s)
    /\ UNCHANGED <<satisfied, timeoutCount>>

\* SendPacket, run by the call c, for the Interest s ...
AfterSend_Kept(s) == retxSeqs
AfterSend(s) == retxSeqs \ {s}
FollowingSeq == IF retxSeqs # {} THEN nextSeq ELSE nextSeq + 1
SendPacket(c, s) ==
    /\ c.call = "SendPacket" /\ active
    /\ IF retxSeqs # {} THEN s = Min(retxSeqs) ELSE s = nextSeq /\ nextSeq < SeqMax
    /\ retxSeqs' = AfterSend(s)
    /\ nextSeq' = FollowingSeq
    /\ WillSendOutInterest(s)
    /\ ScheduleNextPacket(calls \ {c})
    /\ UNCHANGED active
\* ... or with nothing to send: the next call is scheduled by the next timeout.
SendNothing(c) ==
    /\ c.call = "SendPacket"
    /\ ~active \/ (retxSeqs = {} /\ nextSeq >= SeqMax)
    /\ calls' = calls \ {c}
    /\ UNCHANGED <<active, firstTime, nextSeq, sendEvent, requestVars, statisticVars>>

\* CheckRetxTimeout, run by the call c, with OnTimeout for every Interest that is overdue.
Overdue == {s \in SeqNo : seqTimeouts[s] # NoTime /\ seqTimeouts[s] + RetransmitTimeout(rtt) <= now}
NextCheck_Never(c) == calls \ {c}
NextCheck(c) == (calls \ {c}) \cup {ConsumerCallAt(CheckUid, RetxTimer, "CheckRetxTimeout")}
RestartSend_Never(rest) == calls' = rest /\ UNCHANGED <<sendEvent, firstTime>>
RestartSend(rest) == ScheduleNextPacket(rest)
CheckRetxTimeout(c) ==
    /\ c.call = "CheckRetxTimeout"
    /\ seqTimeouts' = [s \in SeqNo |-> IF s \in Overdue THEN NoTime ELSE seqTimeouts[s]]
    /\ retxSeqs' = retxSeqs \cup Overdue
    /\ timeoutCount' = timeoutCount + Cardinality(Overdue)
    /\ rtt' = SentSeqs(rtt, Overdue)
    /\ IF Overdue # {} THEN RestartSend(NextCheck(c))
                       ELSE calls' = NextCheck(c) /\ UNCHANGED <<sendEvent, firstTime>>
    /\ UNCHANGED <<active, nextSeq, fullDelay, lastDelay, firstSent, sendTime, satisfied,
                   interestSent>>

\* OnData for the Interest s.
AfterAnswer_Watched(s) == retxSeqs
AfterAnswer(s) == retxSeqs \ {s}
OnData(s) ==
    /\ satisfied' = satisfied \cup {s}
    /\ IF active
       THEN /\ seqTimeouts' = [seqTimeouts EXCEPT ![s] = NoTime]
            /\ fullDelay' = [fullDelay EXCEPT ![s] = NoTime]
            /\ lastDelay' = [lastDelay EXCEPT ![s] = NoTime]
            /\ retxSeqs' = AfterAnswer(s)
            /\ rtt' = ResetRtt(AckSeq(rtt, s))
       ELSE UNCHANGED requestVars
    /\ UNCHANGED <<active, firstTime, nextSeq, calls, sendEvent, firstSent, sendTime,
                   interestSent, timeoutCount>>
================================================================================
