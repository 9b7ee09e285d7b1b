---------------------------- MODULE MCScheduler ----------------------------
(***************************************************************************)
(* Small instances of Scheduler: sessions of the API process (its runner   *)
(* "tick" and its requests) and of a second process, the command line.     *)
(***************************************************************************)
EXTENDS Scheduler

CONSTANTS a, b, tick, cli, req, req2, api, cmd

\* The command line's session lives in a process of its own.
MCProcessOf == [s \in Sessions |-> IF s = cli THEN cmd ELSE api]

\* Each job has its own lock, or all share one source.
OwnLock     == [j \in Jobs |-> j]
SharedLock  == [j \in Jobs |-> a]

MCInterval  == [j \in Jobs |-> 2]
MixedInterval == [j \in Jobs |-> IF j = a THEN 1 ELSE 2]
============================================================================
