---------------------------- MODULE RouteTransaction ---------------------------
(***************************************************************************)
(* What the route-control plane of a switch promises, without its messages, *)
(* timers and tables.  An update of a newer generation opens a transaction   *)
(* that steers the prefix at once; the transaction closes when its own       *)
(* route is installed, at the end of its lease, or when its last attempt     *)
(* was in vain.  A route is installed from a request that was made, before   *)
(* its deadline, and never over a newer one.                                 *)
(***************************************************************************)
EXTENDS ControlMessage

CONSTANTS Lease,         \* the lifetimes of updates, 0 for a route without a deadline
          Attempts       \* the retries that a transaction may make

VARIABLES clock,
          highest,       \* the newest generation admitted, for each prefix
          pending,       \* the message of the open transaction, or NoMessage
          budget,        \* the retries that it has left
          requested,     \* the requests that may still be carried out
          installed      \* the route installed last, or NoMessage

transactionVars == <<clock, highest, pending, budget, requested, installed>>

TransactionInit ==
    /\ clock = 0
    /\ highest = [p \in Prefix |-> NoSeq]
    /\ pending = [p \in Prefix |-> NoMessage]
    /\ budget = [p \in Prefix |-> 0]
    /\ requested = [p \in Prefix |-> {}]
    /\ installed = [p \in Prefix |-> NoMessage]

Open(p) == pending[p] # NoMessage
Deadline(lease) == IF lease = 0 THEN NoLease ELSE clock + lease

\* A request may be lost at any time; none appears but those in new.
Requests(p, new) ==
    \E left \in SUBSET (requested[p] \cup new) : requested' = [requested EXCEPT ![p] = left]

Admit(p, port, seq, lease) ==
    LET m == [prefix |-> p, seq |-> seq, port |-> port, expiry |-> Deadline(lease)] IN
    /\ seq > highest[p]
    /\ highest' = [highest EXCEPT ![p] = seq]
    /\ pending' = [pending EXCEPT ![p] = m]
    /\ budget' = [budget EXCEPT ![p] = Attempts]
    /\ Requests(p, {m})
    /\ UNCHANGED <<clock, installed>>

Retry(p) ==
    /\ Open(p) /\ budget[p] > 0
    /\ budget' = [budget EXCEPT ![p] = @ - 1]
    /\ Requests(p, {pending[p]})
    /\ UNCHANGED <<clock, highest, pending, installed>>

Lose(p) ==
    /\ Requests(p, {})
    /\ UNCHANGED <<clock, highest, pending, budget, installed>>

\* The transaction of p ends.
Close(p) ==
    /\ pending' = [pending EXCEPT ![p] = NoMessage]
    /\ budget' = [budget EXCEPT ![p] = 0]

\* A requested route is installed; its own transaction may learn of it at once.
Install(p, m) ==
    /\ m \in requested[p]
    /\ ~IsExpiredAt(m, clock)
    /\ m.seq > installed[p].seq
    /\ installed' = [installed EXCEPT ![p] = m]
    /\ Requests(p, {})
    /\ \/ UNCHANGED <<pending, budget>>
       \/ pending[p] = m /\ Close(p)
    /\ UNCHANGED <<clock, highest>>

\* The transaction learns that its route is installed.
Complete(p) ==
    /\ Open(p) /\ pending[p] = installed[p] /\ ~IsExpiredAt(pending[p], clock)
    /\ Close(p)
    /\ Requests(p, {})
    /\ UNCHANGED <<clock, highest, installed>>

Expire(p) ==
    /\ Open(p) /\ IsExpiredAt(pending[p], clock)
    /\ Close(p)
    /\ UNCHANGED <<clock, highest, requested, installed>>

Abandon(p) ==
    /\ Open(p) /\ budget[p] = 0
    /\ Close(p)
    /\ UNCHANGED <<clock, highest, requested, installed>>

\* Time does not pass over the deadline of an open transaction.
TransactionTick ==
    /\ \A p \in Prefix : Open(p) => ~IsExpiredAt(pending[p], clock)
    /\ clock' = clock + 1
    /\ UNCHANGED <<highest, pending, budget, requested, installed>>

TransactionNext ==
    \/ \E p \in Prefix, port \in Port, seq \in Generation, lease \in Lease :
          Admit(p, port, seq, lease)
    \/ \E p \in Prefix : Retry(p) \/ Lose(p) \/ Complete(p) \/ Expire(p) \/ Abandon(p)
    \/ \E p \in Prefix : \E m \in requested[p] : Install(p, m)
    \/ TransactionTick

TransactionSpec == TransactionInit /\ [][TransactionNext]_transactionVars
================================================================================
