---------------------------- MODULE MCPortCluster ----------------------------
(***************************************************************************)
(* PortCluster with two workers, two clients and three ports, the first    *)
(* with a duplicate.                                                       *)
(***************************************************************************)
EXTENDS PortCluster, TLC

CONSTANTS w1, w2, p1, p2, p3, q1, c1, c2

TwoWorkers == {w1, w2}
TwoClients == {c1, c2}
ThreePorts == {p1, p2, p3}
DupOfFirst == [m \in Masters |-> IF m = p1 THEN {q1} ELSE {}]
Symmetry == Permutations(Clients) \union Permutations(Workers)

MCWorld(ports, operations, patient, max_ops, max_crashes, max_syncs) ==
    [ports |-> ports, operations |-> operations, patient |-> patient, max_ops |-> max_ops,
     max_crashes |-> max_crashes, max_syncs |-> max_syncs]

All == {"create", "delete"}

\* Two clients at once, on two ports or on one; requests one by one with
\* configurations from the cloud; workers that crash while ports are created;
\* requests that race with configurations; a port with a duplicate replaced.
Requests == MCWorld({p2, p3}, All, FALSE, 3, 0, 0)
Replaces == MCWorld({p2}, All \union {"replace"}, FALSE, 4, 0, 0)
Syncs == MCWorld({p1, p2}, All, TRUE, 3, 0, 2)
Crashes == MCWorld({p2, p3}, {"create"}, FALSE, 2, 1, 0)
DupCrashes == MCWorld({p1, p2}, {"create"}, TRUE, 2, 1, 0)
Races == MCWorld({p2, p3}, All, FALSE, 2, 0, 2)
DupReplaces == MCWorld({p1}, {"replace"}, TRUE, 2, 0, 1)
SafeWorlds == {Requests, Replaces, Syncs, Crashes, DupCrashes, Races, DupReplaces}

\* The worlds in which everything ends well (with a worker that dies during a
\* delete, or a configuration that comes during one, it does not).
LiveWorlds == {MCWorld({p1}, {"replace"}, TRUE, 1, 0, 1), MCWorld({p1}, All, TRUE, 2, 0, 1), MCWorld({p1}, {"create"}, TRUE, 1, 2, 0)}
=============================================================================
