------------------------------- MODULE MobileRoute -----------------------------
(***************************************************************************)
(* A mobile that moves between access points and the switch where the paths  *)
(* to them part: the traces of StatimMobile travel by the access point of     *)
(* their time to the rendezvous server, their answers pass the switch and     *)
(* drive its route, which is the abstract RouteTransaction (RouteRefinement   *)
(* shows that the control plane implements it), and Interests follow the      *)
(* route to the access point where the mobile is, or was.                     *)
(***************************************************************************)
EXTENDS StatimMobile

CONSTANTS Prefix, Port,      \* the mobile's prefix; the switch ports to the access points
          InitialAp,         \* the access point of InitialAttach
          Generation,        \* the trace numbers of a behaviour
          Attempts,          \* the retries of a route transaction
          UpDelay,           \* from a trace to its answer at the switch
          DownDelay,         \* from there to the mobile
          InterestDelay,     \* from the switch to the mobile
          MaxLosses, MaxHandovers, HandoverUntil   \* named bounds

ASSUME MobileRouteAssumption ==
    /\ Prefix # {} /\ InitialAp \in Port
    /\ UpDelay \subseteq Nat /\ DownDelay \subseteq Nat /\ InterestDelay \subseteq Nat
    /\ InterestDelay # {} /\ \E longest \in UpDelay : \A d \in UpDelay : d <= longest

VARIABLES ap,                \* the access point whose link is up
          moved,             \* the instant of the last handover
          handovers, losses,
          travelling,        \* the packets under way
          highest, pending, budget, requested, installed,
          abandoned          \* history: the newest generation withdrawn without success

routeVars == <<highest, pending, budget, requested, installed>>
placeVars == <<ap, moved, handovers>>
allMobileVars == <<now, nextUid, mobileVars, placeVars, losses, travelling, routeVars, abandoned>>

Route == INSTANCE RouteTransaction WITH Lease <- {TraceLifetime}, clock <- now

ThePrefix == CHOOSE p \in Prefix : TRUE
MobileQueue == calls \cup travelling

MobileRouteInit ==
    /\ SimulatorInit /\ MobileInit
    /\ ap = InitialAp /\ moved = 0 /\ handovers = 0 /\ losses = 0
    /\ travelling = {}
    /\ Route!TransactionInit
    /\ abandoned = 0

Packet(uid, d, kind, n, port) ==
    [uid |-> uid, at |-> now + d, kind |-> kind, seq |-> n, port |-> port]

\* A packet of the given kind starts, or is lost.
Travels(rest, uid, delays, kind, n, port) ==
    \/ /\ \E d \in delays : travelling' = rest \cup {Packet(uid, d, kind, n, port)}
       /\ UNCHANGED losses
    \/ losses < MaxLosses /\ losses' = losses + 1 /\ travelling' = rest

--------------------------------------------------------------------------------
(* The mobile *)

\* InitialAttach
Attach ==
    /\ now = 0 /\ seq = 1 /\ calls = {}
    /\ OnAssociation /\ UNCHANGED hoAnchor
    /\ TakeUids
    /\ UNCHANGED <<now, placeVars, losses, travelling, routeVars, abandoned>>

\* DoHandover: the links, the mobile's default route and the application change in one call.
DoHandover(port) ==
    /\ seq > 1
    /\ handovers < MaxHandovers /\ now <= HandoverUntil /\ port # ap
    /\ ap' = port /\ moved' = now /\ handovers' = handovers + 1
    /\ OnAssociation /\ MarkHandover
    /\ TakeUids
    /\ UNCHANGED <<now, losses, travelling, routeVars, abandoned>>

\* A call of the mobile: a trace that it sends leaves by the access point of this instant.
MobileStep(c) ==
    /\ seq \in Generation
    /\ RunMobile(c)
    /\ IF seq' # seq THEN Travels(travelling, nextUid + 2, UpDelay, "trace", seq, ap)
                     ELSE UNCHANGED <<travelling, losses>>
    /\ TakeUids
    /\ UNCHANGED <<now, placeVars, routeVars, abandoned>>

(* The network *)

\* The answer of a trace reaches the switch, which admits it if it is newer, and goes on.
TraceAtSwitch(e) ==
    /\ e.kind = "trace"
    /\ IF e.seq > highest[ThePrefix]
       THEN /\ Route!Admit(ThePrefix, e.port, e.seq, TraceLifetime)
            /\ requested' = [requested EXCEPT ![ThePrefix] = @ \cup {pending'[ThePrefix]}]
       ELSE UNCHANGED routeVars
    /\ Travels(travelling \ {e}, nextUid, DownDelay, "answer", e.seq, e.port)
    /\ TakeUids
    /\ UNCHANGED <<now, mobileVars, placeVars, abandoned>>

\* A packet reaches the mobile if the link that it takes is still up.
AtMobile(e) ==
    /\ e.kind \in {"answer", "interest"}
    /\ CASE e.port # ap -> UNCHANGED mobileVars
         [] e.port = ap /\ e.kind = "answer" -> OnData(e.seq)
         [] e.port = ap /\ e.kind = "interest" -> OnInterest
    /\ travelling' = travelling \ {e}
    /\ UNCHANGED <<now, nextUid, placeVars, losses, routeVars, abandoned>>

\* The port where the switch sends an Interest for the mobile, if there is one: the
\* temporary route goes before the installed one, and neither is used after its deadline.
Valid(m) == m # Route!NoMessage /\ ~Route!IsExpiredAt(m, now)
Steers_InstalledFirst ==
    IF Valid(installed[ThePrefix]) THEN {installed[ThePrefix].port}
    ELSE IF Valid(pending[ThePrefix]) THEN {pending[ThePrefix].port}
    ELSE {}
Steers ==
    IF Valid(pending[ThePrefix]) THEN {pending[ThePrefix].port}
    ELSE IF Valid(installed[ThePrefix]) THEN {installed[ThePrefix].port}
    ELSE {}

\* A consumer's Interest passes the switch; one on the way is enough for a sample.
InterestAtSwitch ==
    /\ waiting /\ \A e \in travelling : e.kind # "interest"
    /\ \E port \in Steers : Travels(travelling, nextUid, InterestDelay, "interest", 0, port)
    /\ TakeUids
    /\ UNCHANGED <<now, mobileVars, placeVars, routeVars, abandoned>>

\* The steps of the control plane between two updates.  No request is forgotten here: a lost
\* one is one that is never installed.
RouteStep ==
    /\ UNCHANGED requested
    /\ \/ Route!Retry(ThePrefix) /\ UNCHANGED abandoned
       \/ \E m \in requested[ThePrefix] : Route!Install(ThePrefix, m) /\ UNCHANGED abandoned
       \/ Route!Complete(ThePrefix) /\ UNCHANGED abandoned
       \/ Route!Expire(ThePrefix) /\ UNCHANGED abandoned
       \/ Route!Abandon(ThePrefix) /\ abandoned' = pending[ThePrefix].seq
    /\ UNCHANGED <<nextUid, mobileVars, placeVars, losses, travelling>>

MobileRouteTick ==
    /\ Advance(MobileQueue)
    /\ Route!TransactionTick
    /\ UNCHANGED <<mobileVars, placeVars, losses, travelling, abandoned>>

MobileRouteNext ==
    \/ Attach
    \/ \E port \in Port : DoHandover(port)
    \/ InterestAtSwitch
    \/ RouteStep
    \/ \E c \in calls : Due(c, MobileQueue) /\ MobileStep(c)
    \/ \E e \in travelling : Due(e, MobileQueue) /\ (TraceAtSwitch(e) \/ AtMobile(e))
    \/ MobileRouteTick

MobileRouteSpec == MobileRouteInit /\ [][MobileRouteNext]_allMobileVars
--------------------------------------------------------------------------------
(* Correctness *)

Largest(S) == CHOOSE x \in S : \A y \in S : y <= x
Smallest(S) == CHOOSE x \in S : \A y \in S : x <= y

\* The mobile refreshes its trace before it times out.
Refreshes == refreshInterval \in 1..TraceLifetime

\* The newest update of the switch was withdrawn when its retries ran out.
Abandoned == abandoned = highest[ThePrefix]

\* How long after a handover the switch may still point elsewhere: until the trace of the
\* association, or the refresh after as many losses as there were, has passed it.
ReactionTime == TraceDelay + losses * refreshInterval + Largest(UpDelay)

\* A handover takes effect within ReactionTime: from then on the switch sends Interests to
\* no other access point than the present one, however late the answers of older traces
\* come and whatever the control plane installs.
RouteCatchesUp ==
    Refreshes /\ handovers > 0 /\ now > moved + ReactionTime /\ ~Abandoned => Steers \subseteq {ap}

\* Refreshes that come before the lease ends, by more than the paths differ, keep the route
\* alive: once the switch knows the mobile it always has a route while no packet is lost.
RouteNeverLapses ==
    /\ Refreshes /\ losses = 0 /\ ~Abandoned
    /\ refreshInterval + Largest(UpDelay) - Smallest(UpDelay) < TraceLifetime
    /\ highest[ThePrefix] > 0
    => Steers # {}

\* A handover delay is a delay of the new path: the first Interest that StatimMobile measures
\* after its only handover came by the route of a trace sent after it.
HandoverDelayIsCausal ==
    [][handoverDelays' # handoverDelays /\ handovers = 1 =>
          handoverDelays'[Len(handoverDelays')] >=
              Smallest(UpDelay) + Smallest(InterestDelay)]_handoverDelays
================================================================================
