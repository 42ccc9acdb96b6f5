----------------------------- MODULE KitePullMobile ----------------------------
(***************************************************************************)
(* The mobile producer of the KITE baseline.  It runs the same refresh and   *)
(* timeout as StatimMobile, with three differences: a stopped application     *)
(* sends nothing, trace number 0 stands for a number still to be negotiated,  *)
(* and the fourth timeout goes back to it.  The constructor sets              *)
(* m_negotiationDone and nothing clears it, so StartNegotiation returns at    *)
(* once and there is no negotiation call or answer to model.                  *)
(***************************************************************************)
EXTENDS StatimMobile

\* OnAssociation: a stopped application does nothing (waiting is for the MarkHandover that
\* the scenario calls next).
KiteOnAssociation ==
    IF active THEN OnAssociation ELSE UNCHANGED <<traceVars, handoverDelays>>

\* SendTrace, with the calls of rest still scheduled.  It asserts that seq is not 0.
KiteSilent_Never == FALSE
KiteSilent == ~active
KiteSendTrace(rest) ==
    IF KiteSilent
    THEN calls' = rest /\ UNCHANGED <<announceVars, seq>>
    ELSE SendTrace(rest)

\* The assertion of SendTrace is about to fail, among the scheduled calls Q.
AssertionFails(Q) == \E c \in calls : Due(c, Q) /\ c.call = "SendTrace" /\ active /\ seq = 0

KiteRunSendTrace(c) ==
    /\ c.call = "SendTrace"
    /\ KiteSendTrace(calls \ {c})
    /\ UNCHANGED traceRetryCnt

\* OnTraceTimeout: a new trace, unless there is no number ...
KiteOnTraceTimeout(c) ==
    /\ c.call = "OnTraceTimeout" /\ ~Exhausted
    /\ IF seq > 0 THEN KiteSendTrace(AfterTimeout(c))
       ELSE /\ calls' = AfterTimeout(c)
            /\ UNCHANGED <<announceVars, seq>>
    /\ traceRetryCnt' = traceRetryCnt + 1
\* ... or, after the retries, back to negotiation.
KiteGiveUpTrace(c) ==
    /\ c.call = "OnTraceTimeout" /\ Exhausted
    /\ traceRetryCnt' = 0 /\ seq' = 0
    /\ calls' = AfterTimeout(c)
    /\ UNCHANGED announceVars
================================================================================
