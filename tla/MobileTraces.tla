------------------------------ MODULE MobileTraces -----------------------------
(***************************************************************************)
(* A mobile producer, StatimMobile or KitePullMobile, with a network that    *)
(* loses and delays the answers to its traces, and associations at any       *)
(* instant.                                                                   *)
(***************************************************************************)
EXTENDS KitePullMobile

CONSTANTS AnswerDelay,       \* the round trips of a trace that is answered
          MaxMisses,         \* the traces without an answer in time (named bound)
          MaxAssociations,   \* the associations of a behaviour (named bound)
          AssociateUntil     \* the last instant of an association (named bound)

ASSUME TracesAssumption ==
    /\ AnswerDelay \subseteq Nat /\ MaxMisses \in Nat
    /\ MaxAssociations \in Nat /\ AssociateUntil \in Nat

VARIABLES kite,              \* the mobile is a KitePullMobile
          arrivals,          \* the answers under way
          misses, associations,
          unannounced,       \* history: the calls of associations that have not run
          answered,          \* history: the traces whose answer was accepted
          timedOut           \* history: the traces that timed out, since the last answer
                             \* in time or the last silence

networkVars == <<kite, arrivals, misses, associations>>
historyVars == <<unannounced, answered, timedOut>>
tracesVars == <<now, nextUid, mobileVars, networkVars, historyVars>>

Newest == seq - 1
TracesQueue == calls \cup arrivals

TracesInit ==
    /\ SimulatorInit /\ MobileInit
    /\ kite \in BOOLEAN
    /\ arrivals = {} /\ misses = 0 /\ associations = 0
    /\ unannounced = {} /\ answered = {} /\ timedOut = {}

\* The fate of the trace that is being sent, if one is: answered in time, late or not at
\* all.  Its answer is scheduled hop by hop, after the calls of the mobile, so that at the
\* end of the lifetime it comes after the timeout.
Answer(d) == [uid |-> nextUid + 2, at |-> now + d, seq |-> seq]
Transmit ==
    IF seq' # seq + 1 THEN UNCHANGED <<arrivals, misses>>
    ELSE \/ /\ \E d \in {x \in AnswerDelay : x < TraceLifetime} :
                  arrivals' = arrivals \cup {Answer(d)}
            /\ UNCHANGED misses
         \/ /\ misses < MaxMisses /\ misses' = misses + 1
            /\ \/ UNCHANGED arrivals
               \/ \E d \in {x \in AnswerDelay : x >= TraceLifetime} :
                     arrivals' = arrivals \cup {Answer(d)}

Associate ==
    /\ associations < MaxAssociations /\ now <= AssociateUntil
    /\ associations' = associations + 1
    /\ IF kite THEN KiteOnAssociation ELSE OnAssociation
    /\ MarkHandover
    /\ unannounced' = unannounced \cup {c.uid : c \in calls' \ calls}
    /\ timedOut' = IF calls = {} /\ calls' # {} THEN {} ELSE timedOut
    /\ TakeUids
    /\ UNCHANGED <<now, kite, arrivals, misses, answered>>

Announce(c) ==
    /\ IF kite THEN KiteRunSendTrace(c) ELSE RunSendTrace(c)
    /\ Transmit
    /\ unannounced' = unannounced \ {c.uid}
    /\ TakeUids
    /\ UNCHANGED <<now, kite, associations, answered, timedOut>>

TimeOut(c) ==
    /\ IF kite THEN KiteOnTraceTimeout(c) \/ KiteGiveUpTrace(c)
               ELSE OnTraceTimeout(c) \/ GiveUpTrace(c)
    /\ Transmit
    /\ timedOut' = timedOut \cup {Newest}
    /\ TakeUids
    /\ UNCHANGED <<now, kite, associations, unannounced, answered>>

Arrive(a) ==
    /\ OnData(a.seq)
    /\ arrivals' = arrivals \ {a}
    /\ IF active /\ a.seq = Newest
       THEN /\ answered' = answered \cup {a.seq}
            /\ timedOut' = IF a.seq \in timedOut THEN timedOut ELSE {}
       ELSE UNCHANGED <<answered, timedOut>>
    /\ UNCHANGED <<now, nextUid, kite, misses, associations, unannounced>>

Stop ==
    /\ active
    /\ StopApplication
    /\ UNCHANGED <<now, nextUid, networkVars, historyVars>>

TracesTick ==
    /\ Advance(TracesQueue)
    /\ UNCHANGED <<mobileVars, networkVars, historyVars>>

\* A failed assertion ends the run.
Aborted == kite /\ AssertionFails(TracesQueue)

TracesRun ==
    /\ ~Aborted
    /\ \/ \E c \in calls : Due(c, TracesQueue) /\ (Announce(c) \/ TimeOut(c))
       \/ \E a \in arrivals : Due(a, TracesQueue) /\ Arrive(a)
       \/ TracesTick

TracesNext == (~Aborted /\ (Associate \/ Stop)) \/ TracesRun

\* The mobile may stay where it is; the simulator always runs on.
TracesSpec == TracesInit /\ [][TracesNext]_tracesVars /\ WF_tracesVars(TracesRun)
--------------------------------------------------------------------------------
(* Correctness *)

\* However associations, refreshes and timeouts cross, the mobile runs one chain of traces:
\* each scheduled call is the refresh or the timeout that it can still cancel, or comes
\* from an association whose trace has not been sent.  (The types are kept.)
OneTraceChain ==
    /\ MobileTypeOK
    /\ \A c \in calls : c.uid \in {refreshEvent, timeoutEvent} \cup unannounced

\* A late answer to an older trace does not stop the timeout of the newest: until that one
\* is answered its timeout is scheduled, or has run, or the next trace is due.
NewestTraceIsWatched ==
    Newest > 0 /\ Newest \notin answered =>
        Running(timeoutEvent) \/ Newest \in timedOut \/ unannounced # {}

\* The mobile stops announcing its place only when its newest trace was answered and no
\* refresh is configured, or when four traces timed out since the last answer.  The latter
\* cannot happen with a refresh within the trace's lifetime, which restarts the timeout.
\* (A KitePullMobile also falls silent when it is stopped.)  With such a refresh a
\* KitePullMobile never gives up its number either, as the assertion of its SendTrace
\* demands; without one, four timeouts give it up for a negotiation that does not start.
SilenceIsEarned ==
    /\ Newest > 0 /\ calls = {} =>
          \/ refreshInterval = 0 /\ Newest \in answered
          \/ /\ refreshInterval \notin 1..TraceLifetime
             /\ Newest \in timedOut /\ Cardinality(timedOut) > MaxTraceRetries
          \/ kite /\ ~active
    /\ refreshInterval \in 1..TraceLifetime => seq > 0

\* While no more traces go unanswered than OnTraceTimeout retries, every association is
\* followed by a trace that is answered.
AssociationIsAnswered ==
    unannounced # {} ~>
        \/ unannounced = {} /\ Newest \in answered
        \/ ~active \/ misses > MaxTraceRetries

\* Once StopApplication of KitePullMobile has run, the calls that it leaves scheduled end
\* the chain: each returns from SendTrace without scheduling another, and nothing is left.
\* (The calls scheduled at the stop lie within the simulated time.)
StoppedMobileFallsSilent ==
    /\ kite /\ ~active /\ now + TraceDelay + TraceLifetime + refreshInterval < Horizon
    ~> calls = {}
================================================================================
