---------------------------- MODULE MCConfigSync ----------------------------
(* Instances of ConfigSync: the circumstances that are looked at together. *)
EXTENDS ConfigSync

PassWorlds == { {"confs"}, {"events"}, {"confs", "refresh"}, {"confs", "outage"},
                {"confs", "early"}, {"events", "early"}, {"confs", "hasty"}, {"confs", "faults"},
                {"events", "faults"}, {"confs", "events"},
                {"confs", "zagent", "faults"} }
MixedWorld == {{"confs", "events"}}
=============================================================================
