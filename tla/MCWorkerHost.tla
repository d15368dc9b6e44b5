---------------------------- MODULE MCWorkerHost ----------------------------
(***************************************************************************)
(* Two pids for workers and others, two roles, three agents at most.  No   *)
(* pid, role or id is told from another of its kind.                       *)
(***************************************************************************)
EXTENDS WorkerHost, TLC

Alike == Permutations(Pids) \cup Permutations(Roles) \cup Permutations(Ids)
=============================================================================
