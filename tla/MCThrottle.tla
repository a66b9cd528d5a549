----------------------------- MODULE MCThrottle -----------------------------
(***************************************************************************)
(* Throttle on small instances.                                            *)
(***************************************************************************)
EXTENDS Throttle, TLC

CONSTANTS r1, r2, r3, r4, d1, d2

FourRequests == {r1, r2, r3, r4}
TwoDomains == {d1, d2}

MCWorld(slots, limits, follow, aborts, max_updates) ==
    [slots |-> slots, limits |-> limits, follow |-> follow, aborts |-> aborts,
     updates |-> max_updates]

\* Three requests with everything that can happen to them; four when nobody
\* aborts, redirects or reconfigures.
AllWorlds == {MCWorld(FourRequests \ {r4}, {0, 1, 2}, follow, TRUE, 1) : follow \in BOOLEAN}
             \union {MCWorld(FourRequests, {1, 2}, FALSE, FALSE, 0)}

\* Redirects alone.
LeakWorlds == {MCWorld(FourRequests \ {r4}, {1}, TRUE, FALSE, 0)}
=============================================================================
