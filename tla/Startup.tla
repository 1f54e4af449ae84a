------------------------------- MODULE Startup -------------------------------
(***************************************************************************)
(* The life of a server process, cmd/gophermart/main.go: it connects to    *)
(* the database, applies the migration, builds the router, which restores  *)
(* the queue and starts the pool, opens the port in a goroutine of its     *)
(* own, and waits for that goroutine to fail or for a signal.  What ends   *)
(* outside the process stays: the tables and the dump file.                *)
(***************************************************************************)
EXTENDS Naturals

CONSTANTS
  Shipping,   \* what processes find at ./migrations/ when they start
  CallFails   \* may a call of the database or of the file system fail?

ASSUME ShippingAssumption ==
  Shipping \subseteq {"file", "no file", "no directory"}
ASSUME FailingCalls == CallFails \in BOOLEAN

VARIABLES
  main,       \* where the main goroutine is
  tries,      \* failed pings of the database
  port,       \* the listening socket
  cancelled,  \* notifyCtx is done: the context of the pool and the requests
  quit,       \* a signal is in the channel of waitServer
  pool,       \* the queue of the pool
  skipped,    \* this process has found no migration to apply
  tables,     \* does the database have the tables?
  filed       \* are there tasks in the dump file?

pvars == <<main, tries, port, cancelled, quit, pool, skipped, tables, filed>>

maxConnectionRetries == 3

StartupTypeOK ==
  /\ main \in {"off", "connecting", "resting", "migrating", "building",
               "starting", "waiting", "draining", "leaving"}
  /\ tries \in 0..maxConnectionRetries
  /\ port \in {"closed", "open", "failed"}
  /\ cancelled \in BOOLEAN /\ quit \in BOOLEAN
  /\ pool \in {"off", "empty", "tasks", "dumped"}
  /\ skipped \in BOOLEAN /\ tables \in BOOLEAN /\ filed \in BOOLEAN

StartupInit ==
  /\ main = "off" /\ tries = 0 /\ port = "closed"
  /\ cancelled = FALSE /\ quit = FALSE /\ pool = "off"
  /\ skipped = FALSE /\ tables = FALSE /\ filed = FALSE

(* The process ends, by itself or not.                                     *)
End ==
  /\ main' = "off" /\ tries' = 0 /\ port' = "closed"
  /\ cancelled' = FALSE /\ quit' = FALSE /\ pool' = "off" /\ skipped' = FALSE

-----------------------------------------------------------------------------
(* databaseWorks.  Its context is not the one that signals cancel.         *)

Launch ==
  /\ main = "off"
  /\ main' = "connecting"
  /\ UNCHANGED <<tries, port, cancelled, quit, pool, skipped, tables, filed>>

Ping ==
  /\ main = "connecting"
  /\ \/ main' = "migrating" /\ UNCHANGED tries
     \/ CallFails /\ main' = "resting" /\ tries' = tries + 1
  /\ UNCHANGED <<port, cancelled, quit, pool, skipped, tables, filed>>

(* Mutant: a failed ping is not counted.                                   *)
RestForever ==
  /\ main = "resting"
  /\ main' = "connecting" /\ tries' = 0
  /\ UNCHANGED <<port, cancelled, quit, pool, skipped, tables, filed>>

(* Mutant: one retry too many.                                             *)
RestOnceMore ==
  /\ main = "resting"
  /\ IF tries <= maxConnectionRetries
       THEN /\ main' = "connecting"
            /\ UNCHANGED <<tries, port, cancelled, quit, pool, skipped>>
       ELSE End
  /\ UNCHANGED <<tables, filed>>

(* PsqlConnect rests after every failed ping, after the last one too.      *)
Rest ==
  /\ main = "resting"
  /\ IF tries < maxConnectionRetries
       THEN /\ main' = "connecting"
            /\ UNCHANGED <<tries, port, cancelled, quit, pool, skipped>>
       ELSE End
  /\ UNCHANGED <<tables, filed>>

(* Mutant: an error of the migration is only logged.                       *)
MigrateCareless ==
  /\ main = "migrating"
  /\ main' = "building"
  /\ \/ tables' = TRUE
     \/ CallFails /\ UNCHANGED tables
  /\ UNCHANGED <<tries, port, cancelled, quit, pool, skipped, filed>>

(* PgMigrator.Apply.  The script is one transaction; it adds primary keys, *)
(* which a table that has one refuses.  Its error ends the process, and so *)
(* does a missing directory; a missing file is passed over, whether there  *)
(* are tables or not.                                                      *)
Migrate ==
  /\ main = "migrating"
  /\ \/ /\ "file" \in Shipping /\ ~tables
        /\ tables' = TRUE /\ main' = "building"
        /\ UNCHANGED <<tries, port, cancelled, quit, pool, skipped>>
     \/ /\ "file" \in Shipping /\ tables
        /\ End /\ UNCHANGED tables
     \/ /\ "file" \in Shipping /\ CallFails
        /\ End /\ tables' \in {tables, TRUE}
     \/ /\ "no file" \in Shipping
        /\ main' = "building" /\ skipped' = TRUE
        /\ UNCHANGED <<tries, port, cancelled, quit, pool, tables>>
     \/ /\ "no directory" \in Shipping
        /\ End /\ UNCHANGED tables
  /\ UNCHANGED filed

-----------------------------------------------------------------------------
(* Mutant: the dump is read and stays in place.                            *)
BuildKeep ==
  /\ main = "building"
  /\ main' = "starting"
  /\ pool' = IF filed THEN "tasks" ELSE "empty"
  /\ UNCHANGED <<tries, port, cancelled, quit, skipped, tables, filed>>

(* NewRouter: RestoreQueue and Start.  A dump that is not read or erased   *)
(* stays; the next one overwrites it.                                      *)
Build ==
  /\ main = "building"
  /\ main' = "starting"
  /\ \/ pool' = (IF filed THEN "tasks" ELSE "empty") /\ filed' = FALSE
     \/ CallFails /\ filed /\ pool' = "empty" /\ UNCHANGED filed
  /\ UNCHANGED <<tries, port, cancelled, quit, skipped, tables>>

(* The goroutine of ListenAndServe.                                        *)
Listen ==
  /\ main \in {"starting", "waiting"} /\ port = "closed"
  /\ \/ port' = "open"
     \/ CallFails /\ port' = "failed"
  /\ UNCHANGED <<main, tries, cancelled, quit, pool, skipped, tables, filed>>

(* waitServer: signal.Notify, then the select.                             *)
Notify ==
  /\ main = "starting"
  /\ main' = "waiting"
  /\ UNCHANGED <<tries, port, cancelled, quit, pool, skipped, tables, filed>>

(* The return cancels rootCtx, and notifyCtx with it: the pool may or may  *)
(* not write its dump before the process ends.                             *)
StartupError ==
  /\ main = "waiting" /\ port = "failed"
  /\ main' = "leaving" /\ cancelled' = TRUE
  /\ UNCHANGED <<tries, port, quit, pool, skipped, tables, filed>>

Drain ==
  /\ main = "waiting" /\ quit
  /\ main' = "draining" /\ port' = "closed"
  /\ UNCHANGED <<tries, cancelled, quit, pool, skipped, tables, filed>>

(* server.Shutdown has returned, or its context has expired.               *)
Leave ==
  /\ main \in {"draining", "leaving"}
  /\ End
  /\ UNCHANGED <<tables, filed>>

-----------------------------------------------------------------------------
(* SIGINT and SIGTERM; SIGQUIT only cancels.  waitServer does not hear of  *)
(* a signal that came before it asked, nor needs a second one.             *)
Signal ==
  /\ main # "off"
  /\ cancelled' = TRUE
  /\ \/ main = "waiting" /\ quit' = TRUE
     \/ UNCHANGED quit
  /\ UNCHANGED <<main, tries, port, pool, skipped, tables, filed>>

(* In the middle of RestoreQueue the dump is erased and not yet queued.    *)
Kill ==
  /\ main # "off"
  /\ End
  /\ filed' \in {filed, filed /\ main # "building"}
  /\ UNCHANGED tables

(* The pool: an order is queued, once its row is stored; the last task     *)
(* ends; the queue is dumped.                                              *)
(* A handler that is on its way to the pool when the context is cancelled  *)
(* counts from before; later ones find the database calls cancelled.       *)
QueueOrder ==
  /\ port = "open" /\ ~cancelled /\ tables
  /\ pool = "empty" /\ pool' = "tasks"
  /\ UNCHANGED <<main, tries, port, cancelled, quit, skipped, tables, filed>>

FinishTasks ==
  /\ pool = "tasks"
  /\ pool' = "empty"
  /\ UNCHANGED <<main, tries, port, cancelled, quit, skipped, tables, filed>>

(* Save replaces an older dump.  It has no task that a worker holds, it    *)
(* may be cut off, or fail before it truncates the file.                   *)
Dump ==
  /\ pool \in {"empty", "tasks"} /\ cancelled
  /\ pool' = "dumped"
  /\ \/ filed' \in {FALSE, pool = "tasks"}
     \/ CallFails /\ UNCHANGED filed
  /\ UNCHANGED <<main, tries, port, cancelled, quit, skipped, tables>>

-----------------------------------------------------------------------------
(* The pool in the server behaves as PoolLife says, like the one in        *)
(* WorkerPool: nothing is queued before the restore, a dump that was       *)
(* queued is not in the file any more, and only a cancelled pool writes.   *)
BeforePool == main \in {"off", "connecting", "resting", "migrating"}
Phase == IF BeforePool THEN "down"
         ELSE IF main = "building" THEN "restoring" ELSE "up"
Stopped == cancelled /\ ~BeforePool

Life == INSTANCE PoolLife WITH phase <- Phase, stopped <- Stopped, queue <- pool

ServerPoolSpec == Life!LifeSpec
=============================================================================
