------------------------------ MODULE Limiter -------------------------------
(***************************************************************************)
(* What a throttled proxy port promises while nobody aborts, redirects or  *)
(* reconfigures: per domain a counting semaphore of fixed capacity with a  *)
(* first-come first-served waiting list.  Throttle implements it.          *)
(***************************************************************************)
EXTENDS Naturals, Sequences, FiniteSets

CONSTANTS Requests, Domains

VARIABLES
    capacity,   \* the limit, which does not change
    holders,    \* per domain, the requests that may go upstream
    waiting     \* per domain, the requests that wait for a place

vars == <<capacity, holders, waiting>>

Init == /\ capacity \in Nat \ {0}
        /\ holders = [d \in Domains |-> {}]
        /\ waiting = [d \in Domains |-> <<>>]

Full(d) == Cardinality(holders[d]) >= capacity

Enter(r, d) ==
    /\ ~Full(d)
    /\ holders' = [holders EXCEPT ![d] = @ \union {r}]
    /\ UNCHANGED <<capacity, waiting>>

Wait(r, d) ==
    /\ Full(d)
    /\ waiting' = [waiting EXCEPT ![d] = Append(@, r)]
    /\ UNCHANGED <<capacity, holders>>

\* The place of a request that ends goes to the first that waits, if any.
Leave(r, d) ==
    /\ r \in holders[d]
    /\ \/ /\ waiting[d] = <<>>
          /\ holders' = [holders EXCEPT ![d] = @ \ {r}]
          /\ UNCHANGED waiting
       \/ /\ waiting[d] # <<>>
          /\ holders' = [holders EXCEPT ![d] = (@ \ {r}) \union {Head(waiting[d])}]
          /\ waiting' = [waiting EXCEPT ![d] = Tail(@)]
    /\ UNCHANGED capacity

Next == \E r \in Requests, d \in Domains : Enter(r, d) \/ Wait(r, d) \/ Leave(r, d)

Spec == Init /\ [][Next]_vars
=============================================================================
