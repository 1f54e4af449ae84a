------------------------------- MODULE PoolLife -------------------------------
(***************************************************************************)
(* The worker pool as the rest of the program sees it: does its process    *)
(* run, does the queue hold tasks, does a dump wait for the next start?    *)
(* WorkerPool has the detail and Startup uses the pool in this form; both  *)
(* implement it.                                                           *)
(***************************************************************************)

VARIABLES
  phase,    \* of the process: before RestoreQueue, during it, after it
  stopped,  \* the context of the pool is cancelled
  queue,    \* the tasks in memory
  filed     \* are there tasks in the dump file?

life == <<phase, stopped, queue, filed>>

LifeInit ==
  /\ phase \in {"down", "restoring"} /\ stopped = FALSE
  /\ queue = "off" /\ filed = FALSE

(* A process gets as far as RestoreQueue, perhaps with a signal behind it. *)
Begin ==
  /\ phase = "down" /\ phase' = "restoring"
  /\ stopped' \in BOOLEAN
  /\ UNCHANGED <<queue, filed>>

(* What the dump has goes to the queue and leaves the file, or, after an   *)
(* error, stays in the file and is not in the queue.                       *)
Restore ==
  /\ phase = "restoring" /\ phase' = "up"
  /\ \/ queue' = (IF filed THEN "tasks" ELSE "empty") /\ filed' = FALSE
     \/ queue' = "empty" /\ UNCHANGED filed
  /\ UNCHANGED stopped

Stop ==
  /\ phase # "down" /\ stopped' = TRUE
  /\ UNCHANGED <<phase, queue, filed>>

(* The first task comes, the last one goes.                                *)
Fill == queue = "empty" /\ queue' = "tasks" /\ UNCHANGED <<phase, stopped, filed>>
Empty == queue = "tasks" /\ queue' = "empty" /\ UNCHANGED <<phase, stopped, filed>>

(* The file is touched only after a cancellation, and gets only what was   *)
(* in the queue.  It is truncated before it is written.                    *)
Truncate ==
  /\ stopped /\ queue \in {"empty", "tasks"} /\ filed' = FALSE
  /\ UNCHANGED <<phase, stopped, queue>>

Dump ==
  /\ stopped /\ queue \in {"empty", "tasks"} /\ queue' = "dumped"
  /\ filed' \in {FALSE, filed, queue = "tasks"}
  /\ UNCHANGED <<phase, stopped>>

(* The process ends, in the middle of a restore perhaps.                   *)
End ==
  /\ phase # "down" /\ phase' = "down"
  /\ stopped' = FALSE /\ queue' = "off"
  /\ filed' \in {filed, filed /\ phase # "restoring"}

LifeNext ==
  Begin \/ Restore \/ Stop \/ Fill \/ Empty \/ Truncate \/ Dump \/ End

LifeSpec == LifeInit /\ [][LifeNext]_life
=============================================================================
