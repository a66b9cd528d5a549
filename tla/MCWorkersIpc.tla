---------------------------- MODULE MCWorkersIpc ----------------------------
(* Instances of WorkersIpc: each trouble alone, and deaths during a restart. *)
EXTENDS WorkersIpc

MCWorlds == {{"cache", "two"}, {"cache", "crash"}, {"cache", "stat"},
             {"stat", "two", "crash"}, {"stat", "two", "lossy"},
             {"stat", "two", "reconf"}, {"stat", "restart"}}
=============================================================================
