---------------------------- MODULE ConsumerRequests ---------------------------
(***************************************************************************)
(* The consumer with a network that loses and delays Interests or Data.  A   *)
(* request that is sent again may be answered twice.                         *)
(***************************************************************************)
EXTENDS StatimConsumer

CONSTANTS DataDelay,         \* the round trips of an Interest that is answered
          MaxLosses,         \* the Interests that stay without an answer (named bound)
          StartBy,           \* the last instant at which the application may start
          StopFrom           \* the first instant at which it may stop

ASSUME RequestsAssumption ==
    /\ DataDelay \subseteq Nat /\ MaxLosses \in Nat
    /\ StartBy \in Nat /\ StopFrom \in Nat

VARIABLES arrivals,          \* the Data under way
          losses, stopped

networkVars == <<arrivals, losses, stopped>>
requestsVars == <<now, nextUid, consumerVars, networkVars>>

RequestsInit ==
    /\ now = 0 /\ nextUid = 4
    /\ ConsumerInit
    /\ arrivals = {} /\ losses = 0 /\ stopped = FALSE

Start ==
    /\ ~active /\ ~stopped
    /\ StartApplication /\ TakeUids
    /\ UNCHANGED <<now, networkVars>>

Stop ==
    /\ active /\ now >= StopFrom
    /\ StopApplication /\ stopped' = TRUE
    /\ UNCHANGED <<now, nextUid, arrivals, losses>>

\* The fate of the Interest s that is being sent.
Transmit(s) ==
    \/ losses < MaxLosses /\ losses' = losses + 1 /\ UNCHANGED arrivals
    \/ /\ \E d \in DataDelay : arrivals' = arrivals \cup {[at |-> now + d, seq |-> s]}
       /\ UNCHANGED losses

Send(c) ==
    /\ \/ \E s \in SeqNo : SendPacket(c, s) /\ Transmit(s)
       \/ SendNothing(c) /\ UNCHANGED <<arrivals, losses>>
    /\ TakeUids
    /\ UNCHANGED <<now, stopped>>

Check(c) == CheckRetxTimeout(c) /\ TakeUids /\ UNCHANGED <<now, networkVars>>

\* Data comes hop by hop, before or after the calls of its instant.
Arrive(a) ==
    /\ a.at = now
    /\ OnData(a.seq)
    /\ arrivals' = arrivals \ {a}
    /\ UNCHANGED <<now, nextUid, losses, stopped>>

RequestsTick ==
    /\ active \/ stopped \/ now < StartBy
    /\ \A a \in arrivals : a.at # now
    /\ Advance(calls)
    /\ UNCHANGED <<consumerVars, networkVars>>

RequestsRun ==
    \/ \E c \in calls : Due(c, calls) /\ (Send(c) \/ Check(c))
    \/ \E a \in arrivals : Arrive(a)
    \/ RequestsTick

RequestsNext == Start \/ Stop \/ RequestsRun

\* The simulator starts the application and runs on; nothing makes it stop.
RequestsSpec ==
    /\ RequestsInit /\ [][RequestsNext]_requestsVars
    /\ WF_requestsVars(RequestsRun) /\ WF_requestsVars(Start)
--------------------------------------------------------------------------------
(* Correctness *)

InitialRto == RetransmitTimeout(RttInit)
Requested == {s \in SeqNo : firstSent[s] # NoTime}
Watched == {s \in SeqNo : seqTimeouts[s] # NoTime}

\* While the consumer runs, a request that was sent is answered, watched by the
\* retransmission timer or queued to be sent again, and only one of these, whatever the
\* order of Data, timeout and second Data: none is forgotten, no answered one is repeated.
\* (The types are kept.)
RequestsAccounted ==
    /\ ConsumerTypeOK
    /\ active => /\ Requested = satisfied \cup Watched \cup retxSeqs
                 /\ satisfied \cap (Watched \cup retxSeqs) = {}
                 /\ Watched \cap retxSeqs = {}

\* The delays reported with an answer span the request from its first and from its latest
\* Interest: while a request is open both instants are kept.
DelaysSpanTheRequest ==
    active => \A s \in Watched \cup retxSeqs :
                 fullDelay[s] = firstSent[s] /\ lastDelay[s] = sendTime[s]

\* The retransmissions of the summary, sent Interests less unique ones, are caused by one
\* timeout each: those queued are still to come.
RetransmissionsAreTimeouts ==
    interestSent - Cardinality(Requested) + Cardinality(retxSeqs) <= timeoutCount

\* The timer looks at a request in time: it is queued again no later than one period of
\* the timer after the initial timeout, whatever samples the estimator took.
TimeoutIsTimely ==
    \A s \in Watched : now <= seqTimeouts[s] + InitialRto + RetxTimer

\* ... and not before the initial timeout has passed since its latest Interest.
NoEarlyRetransmission ==
    [][\A s \in retxSeqs' \ retxSeqs : now >= sendTime[s] + InitialRto]_requestsVars

\* Timeouts do not add to the pace: Interests leave no closer than the send gap, also
\* when several timeouts or the end of the sequence numbers restart the sending.
SendsArePaced ==
    [][interestSent' # interestSent =>
         \A s \in Requested : now >= sendTime[s] + Min(SendGap)]_requestsVars

\* With losses that end, every sequence number is requested and answered.
EveryRequestIsAnswered == <>(satisfied = SeqNo \/ stopped)
================================================================================
