------------------------------ MODULE StatimMobile -----------------------------
(***************************************************************************)
(* The mobile producer.  It announces its place by trace Interests, one      *)
(* generation each: after an association, at every refresh, and again when   *)
(* a trace was not answered within its lifetime.  Data for the newest trace  *)
(* stops the timeout; after four timeouts in a row it falls silent.  It       *)
(* answers Interests and measures the delay of a handover by the first one.   *)
(***************************************************************************)
EXTENDS Simulator, Sequences, FiniteSets

CONSTANTS TraceLifetime,     \* m_traceLifetime
          RefreshIntervals,  \* the values of m_refreshInterval, 0 turns the refresh off
          TraceDelay         \* m_traceDelay

ASSUME MobileAssumption ==
    TraceLifetime \in Nat /\ RefreshIntervals \subseteq Nat /\ TraceDelay \in Nat

MaxTraceRetries == 3         \* the constant of OnTraceTimeout

VARIABLES refreshInterval,   \* m_refreshInterval, which no step changes
          active,            \* m_active
          seq,               \* m_seq, the number of the next trace
          traceRetryCnt,     \* m_traceRetryCnt
          calls,             \* the scheduled calls of the mobile
          refreshEvent,      \* m_traceRefreshEvent
          timeoutEvent,      \* m_traceTimeoutEvent
          sentAt,            \* m_lastTraceSendTime
          hoAnchor,          \* m_hoAnchor, NoAnchor while m_useExternalAnchor is false
          waiting,           \* m_waitingForFirstInterest
          handoverDelays     \* m_handoverDelays: the samples, in their order

traceVars == <<refreshInterval, active, seq, traceRetryCnt, calls, refreshEvent,
               timeoutEvent, sentAt>>
delayVars == <<hoAnchor, waiting, handoverDelays>>
mobileVars == <<traceVars, delayVars>>
\* What an answer or the end of a chain of traces leaves alone.
announceVars == <<refreshInterval, active, refreshEvent, timeoutEvent, sentAt, delayVars>>

NoAnchor == -1
MobileCall == [uid : Nat, at : Nat, call : {"SendTrace", "OnTraceTimeout"}]

MobileTypeOK ==
    /\ refreshInterval \in RefreshIntervals
    /\ active \in BOOLEAN /\ waiting \in BOOLEAN
    /\ seq \in Nat /\ traceRetryCnt \in 0..MaxTraceRetries
    /\ calls \subseteq MobileCall
    /\ refreshEvent \in Nat \cup {NoTimer} /\ timeoutEvent \in Nat \cup {NoTimer}
    /\ sentAt \in Nat /\ hoAnchor \in Nat \cup {NoAnchor}

MobileInit ==
    /\ refreshInterval \in RefreshIntervals
    /\ active = TRUE
    /\ seq = 1 /\ traceRetryCnt = 0
    /\ calls = {} /\ refreshEvent = NoTimer /\ timeoutEvent = NoTimer
    /\ sentAt = 0 /\ hoAnchor = NoAnchor
    /\ waiting = FALSE /\ handoverDelays = <<>>

--------------------------------------------------------------------------------
\* The identifiers of the calls that a step schedules, in the code's order.
AssociationUid == nextUid
RefreshUid_Last == nextUid + 3
RefreshUid == nextUid
TimeoutUid == nextUid + 1

MobileCallAt(uid, d, c) == [uid |-> uid, at |-> now + d, call |-> c]
Running(event) == \E c \in calls : c.uid = event

\* OnAssociation: the call that it schedules is not remembered, so it can run beside the
\* refresh and the timeout of the traces before it.
OnAssociation ==
    /\ waiting' = TRUE
    /\ calls' = calls \cup {MobileCallAt(AssociationUid, TraceDelay, "SendTrace")}
    /\ UNCHANGED <<refreshInterval, active, seq, traceRetryCnt, refreshEvent, timeoutEvent,
                   sentAt, handoverDelays>>

\* MarkHandover
MarkHandover == waiting' = TRUE /\ hoAnchor' = now

\* What SendTrace leaves of the calls in rest: a running refresh or timeout is cancelled ...
CancelTraceCalls_Timeout(rest) == {c \in rest : c.uid # timeoutEvent}
CancelTraceCalls(rest) == {c \in rest : c.uid \notin {refreshEvent, timeoutEvent}}
\* ... and what it schedules: the refresh first, then the timeout.
TraceCalls_Slow ==
    {MobileCallAt(RefreshUid, refreshInterval + TraceLifetime, "SendTrace"),
     MobileCallAt(TimeoutUid, TraceLifetime, "OnTraceTimeout")}
TraceCalls ==
    (IF refreshInterval # 0 THEN {MobileCallAt(RefreshUid, refreshInterval, "SendTrace")}
                            ELSE {})
      \cup {MobileCallAt(TimeoutUid, TraceLifetime, "OnTraceTimeout")}

\* SendTrace, with the calls of rest still scheduled.
SendTrace(rest) ==
    /\ seq' = seq + 1
    /\ sentAt' = now
    /\ calls' = CancelTraceCalls(rest) \cup TraceCalls
    /\ refreshEvent' = IF refreshInterval # 0 THEN RefreshUid ELSE refreshEvent
    /\ timeoutEvent' = TimeoutUid
    /\ UNCHANGED <<refreshInterval, active, delayVars>>

\* SendTrace, run by the call c of an association or a refresh.
RunSendTrace(c) ==
    /\ c.call = "SendTrace"
    /\ SendTrace(calls \ {c})
    /\ UNCHANGED traceRetryCnt

\* OnTraceTimeout, run by the call c: the refresh is cancelled, and the trace sent again ...
Exhausted_Early == traceRetryCnt >= MaxTraceRetries - 1
Exhausted == traceRetryCnt >= MaxTraceRetries
AfterTimeout(c) == {d \in calls \ {c} : d.uid # refreshEvent}
OnTraceTimeout(c) ==
    /\ c.call = "OnTraceTimeout" /\ ~Exhausted
    /\ SendTrace(AfterTimeout(c))
    /\ traceRetryCnt' = traceRetryCnt + 1
\* ... or given up.
GiveUpTrace(c) ==
    /\ c.call = "OnTraceTimeout" /\ Exhausted
    /\ traceRetryCnt' = 0
    /\ calls' = AfterTimeout(c)
    /\ UNCHANGED <<announceVars, seq>>

\* OnData for the trace s: only an answer to the newest trace counts.
Answers_Any(s) == TRUE
Answers(s) == s = seq - 1
OnData(s) ==
    /\ IF active /\ Answers(s)
       THEN calls' = {c \in calls : c.uid # timeoutEvent} /\ traceRetryCnt' = 0
       ELSE UNCHANGED <<calls, traceRetryCnt>>
    /\ UNCHANGED <<announceVars, seq>>

\* OnInterest: the first one after an association is a sample.
Anchor_Trace == sentAt
Anchor == IF hoAnchor # NoAnchor THEN hoAnchor ELSE sentAt
OnInterest ==
    /\ IF active /\ waiting
       THEN waiting' = FALSE /\ handoverDelays' = Append(handoverDelays, now - Anchor)
       ELSE UNCHANGED <<waiting, handoverDelays>>
    /\ UNCHANGED <<traceVars, hoAnchor>>

\* StopApplication closes the face and leaves the scheduled calls alone.
StopApplication ==
    /\ active' = FALSE
    /\ UNCHANGED <<refreshInterval, seq, traceRetryCnt, calls, refreshEvent, timeoutEvent,
                   sentAt, delayVars>>

RunMobile(c) == RunSendTrace(c) \/ OnTraceTimeout(c) \/ GiveUpTrace(c)
================================================================================
