----------------------------- MODULE WorkerPool -----------------------------
(***************************************************************************)
(* The queue that carries orders to the accrual system                     *)
(* (internal/processors): the link channel filled by the HTTP handlers and *)
(* the workers, the reader goroutine, the LIFO stack of pending tasks, the *)
(* dispatcher, the workers, and the dump file that carries the queue over  *)
(* a restart of the process.                                               *)
(*                                                                         *)
(* Every goroutine has a program counter and a "hand": the sequence of at  *)
(* most one task that it holds in a local variable.  One action is one     *)
(* channel operation or one critical section of wp.mx.  pauseCh is never   *)
(* closed and workerCh is closed only after every goroutine has returned,  *)
(* so the branches for these two closed channels are unreachable.          *)
(***************************************************************************)
EXTENDS Integers, Sequences, FiniteSets, SequencesExt

CONSTANTS Order,     \* order numbers
          User,      \* user identifiers
          Worker,    \* the workers of the pool (cfg.QueueWorkers of them)
          LinkCap,   \* capacity of linkCh (cfg.WorkerPoolChanBuffer)
          BufSize,   \* capacity of workerCh (cfg.QueueBufSize)
          IOFails    \* may an operation on the dump file fail?

Shared == {"taskCh", "reader", "pendingTasks", "dispatcher", "workerCh",
           "dump", "file"}

ASSUME LinkCapAssumption == LinkCap \in Nat \ {0}
ASSUME BufSizeAssumption == BufSize \in Nat \ {0}
ASSUME IOFailsAssumption == IOFails \in BOOLEAN
ASSUME WorkerAssumption == Worker \cap Shared = {}

VARIABLES
  life,          \* life cycle of the process, RestoreQueue included
  ctxDone,       \* the context of the server and of the pool is cancelled
  taskCh,        \* linkCh = reportOrderCh = wp.taskCh
  taskChClosed,  \* close(linkCh) has run
  pendingTasks,  \* wp.pendingTasks, a stack whose top is its last element
  hasTasks,      \* wp.hasTasks (capacity 1) holds a token
  pauseCh,       \* pauseCh (capacity 1) holds a delay
  workerCh,      \* wp.workerCh
  rpc, rhand,    \* the reader, run()
  dpc, dhand,    \* the dispatcher, runDispatcher()
  wpc, whand,    \* the workers, Worker.Run() and ProcessAccrualTask()
  dumped,        \* the local list `orders` of dumpQueue and RestoreQueue
  dumpFile,      \* the content of the dump file
  accepted,      \* history: orders handed to sendOrderToProcessor
  released,      \* history: orders whose processing ended
  dropped,       \* history: orders refused by the link channel
  lost           \* history: orders that ended with a process, undumped

memory == <<ctxDone, taskCh, taskChClosed, pendingTasks, hasTasks, pauseCh,
            workerCh, rpc, rhand, dpc, dhand, wpc, whand, dumped>>
link == <<taskCh, taskChClosed>>
stack == <<pendingTasks, hasTasks>>
reader == <<rpc, rhand>>
dispatcher == <<dpc, dhand>>
workers == <<wpc, whand>>
store == <<dumped, dumpFile>>
history == <<accepted, released, dropped, lost>>
process == <<life, ctxDone>>
vars == <<life, memory, dumpFile, history>>

(* What the steps of a goroutine never touch.                              *)
outsideReader == <<process, pauseCh, workerCh, dispatcher, workers, store, history>>
outsideDispatcher == <<process, link, reader, workers, history>>
outsideWorkers == <<process, stack, reader, dispatcher, store>>

Task == [id : Order, user : User, status : {"NEW", "PROCESSING"}]
Hand == {<<>>} \cup {<<t>> : t \in Task}
Ids(s) == {s[i].id : i \in DOMAIN s}

Running == life = "running"
Ended == life \in {"exited", "panicked", "killed"}
(* dumpQueue has read the stack: what is appended later is not dumped      *)
Dumping == dpc \in {"drain", "save", "write", "done"}

(* The types of the channels, the stack, the goroutines' places and the    *)
(* dump; no channel ever holds more than its capacity.                     *)
TypeOK ==
  /\ life \in {"restoring", "erased", "running", "exited", "panicked", "killed"}
  /\ ctxDone \in BOOLEAN
  /\ taskCh \in Seq(Task) /\ Len(taskCh) <= LinkCap
  /\ taskChClosed \in BOOLEAN
  /\ pendingTasks \in Seq(Task)
  /\ hasTasks \in BOOLEAN
  /\ pauseCh \in BOOLEAN
  /\ workerCh \in Seq(Task) /\ Len(workerCh) <= BufSize
  /\ rpc \in {"select", "append", "notify", "done"}
  /\ rhand \in Hand
  /\ dpc \in {"select", "pause", "pop", "send", "yield", "rest", "rescue",
              "dump", "drain", "save", "write", "done"}
  /\ dhand \in Hand
  /\ wpc \in [Worker -> {"select", "process", "pause", "requeue", "done"}]
  /\ whand \in [Worker -> Hand]
  /\ dumped \in Seq(Task)
  /\ dumpFile \in Seq(Task)
  /\ accepted \subseteq Order
  /\ released \subseteq Order
  /\ dropped \subseteq Order
  /\ lost \subseteq Order

-----------------------------------------------------------------------------
(* A process starts with empty channels and every goroutine at its select. *)
Init ==
  /\ life = "restoring" /\ ctxDone = FALSE
  /\ taskCh = <<>> /\ taskChClosed = FALSE
  /\ pendingTasks = <<>> /\ hasTasks = FALSE
  /\ pauseCh = FALSE /\ workerCh = <<>>
  /\ rpc = "select" /\ rhand = <<>>
  /\ dpc = "select" /\ dhand = <<>>
  /\ wpc = [w \in Worker |-> "select"] /\ whand = [w \in Worker |-> <<>>]
  /\ dumped = <<>> /\ dumpFile = <<>>
  /\ accepted = {} /\ released = {} /\ dropped = {} /\ lost = {}

(* The process ends as `how`: its memory is gone, only the file survives.  *)
EndProcess(how) ==
  /\ life' = how /\ ctxDone' = FALSE
  /\ taskCh' = <<>> /\ taskChClosed' = FALSE
  /\ pendingTasks' = <<>> /\ hasTasks' = FALSE
  /\ pauseCh' = FALSE /\ workerCh' = <<>>
  /\ rpc' = "select" /\ rhand' = <<>>
  /\ dpc' = "select" /\ dhand' = <<>>
  /\ wpc' = [w \in Worker |-> "select"] /\ whand' = [w \in Worker |-> <<>>]
  /\ dumped' = <<>>
  /\ lost' = accepted \ (released \cup dropped \cup Ids(dumpFile))
  /\ UNCHANGED <<dumpFile, accepted, released, dropped>>

-----------------------------------------------------------------------------
(* RestoreQueue, on start and before Start runs the goroutines.            *)

(* dumper.Restore() or dumper.Erase() fails: the queue starts empty.       *)
RestoreFail ==
  /\ life = "restoring" /\ IOFails
  /\ life' = "running"
  /\ UNCHANGED <<memory, dumpFile, history>>

(* Mutant: the dump is read and stays in place.                            *)
RestoreKeep ==
  /\ life = "restoring"
  /\ life' = "erased"
  /\ dumped' = dumpFile
  /\ UNCHANGED <<ctxDone, link, stack, pauseCh, workerCh, reader, dispatcher,
                 workers, dumpFile, history>>

(* Restore() has read the file and Erase() has removed it.                 *)
RestoreErase ==
  /\ life = "restoring"
  /\ life' = "erased"
  /\ dumped' = dumpFile
  /\ dumpFile' = <<>>
  /\ UNCHANGED <<ctxDone, link, stack, pauseCh, workerCh, reader, dispatcher,
                 workers, history>>

(* The orders become the stack and the dispatcher is told; then Start().   *)
RestoreAppend ==
  /\ life = "erased"
  /\ life' = "running"
  /\ pendingTasks' = pendingTasks \o dumped
  /\ hasTasks' = (dumped # <<>>)
  /\ dumped' = <<>>
  /\ UNCHANGED <<ctxDone, link, pauseCh, workerCh, reader, dispatcher, workers,
                 dumpFile, history>>

(* Mutant: the non-blocking send ignores the capacity of the channel.      *)
SendOrderUnbounded(t) == taskCh' = Append(taskCh, t) /\ UNCHANGED dropped

-----------------------------------------------------------------------------
(* sendOrderToProcessor into an open channel: it never blocks, a task that *)
(* finds the channel full is forgotten.                                    *)
SendOrder(t) ==
  IF Len(taskCh) < LinkCap
    THEN taskCh' = Append(taskCh, t) /\ UNCHANGED dropped
    ELSE dropped' = dropped \cup {t.id} /\ UNCHANGED taskCh

(* An HTTP handler sends an order.  When the channel is closed the send    *)
(* panics, and the router's Recoverer ends that request only.              *)
Enqueue(t) ==
  /\ Running
  /\ accepted' = accepted \cup {t.id}
  /\ \/ ~taskChClosed /\ SendOrder(t)
     \/ taskChClosed /\ dropped' = dropped \cup {t.id} /\ UNCHANGED taskCh
  /\ UNCHANGED <<process, taskChClosed, stack, pauseCh, workerCh, reader,
                 dispatcher, workers, store, released, lost>>

(* The pool relies on its clients: an order is sent once, as NEW.          *)
Submit(t) == t.status = "NEW" /\ t.id \notin accepted /\ Enqueue(t)

-----------------------------------------------------------------------------
(* The reader: run().                                                      *)

ReaderReceive ==
  /\ Running /\ rpc = "select" /\ taskCh # <<>>
  /\ rhand' = <<Head(taskCh)>>
  /\ taskCh' = Tail(taskCh)
  /\ rpc' = "append"
  /\ UNCHANGED <<outsideReader, taskChClosed, stack>>

(* ctx.Done(), or the channel is closed and empty.                         *)
ReaderStop ==
  /\ Running /\ rpc = "select"
  /\ ctxDone \/ (taskChClosed /\ taskCh = <<>>)
  /\ rpc' = "done"
  /\ UNCHANGED <<outsideReader, link, stack, rhand>>

(* Mutant: the reader goes back to its select without waking anyone.       *)
ReaderAppendSilently ==
  /\ Running /\ rpc = "append"
  /\ pendingTasks' = pendingTasks \o rhand
  /\ rhand' = <<>>
  /\ rpc' = "select"
  /\ UNCHANGED <<outsideReader, link, hasTasks>>

ReaderAppend ==
  /\ Running /\ rpc = "append"
  /\ pendingTasks' = pendingTasks \o rhand
  /\ rhand' = <<>>
  /\ rpc' = "notify"
  /\ UNCHANGED <<outsideReader, link, hasTasks>>

ReaderNotify ==
  /\ Running /\ rpc = "notify"
  /\ hasTasks' = TRUE
  /\ rpc' = "select"
  /\ UNCHANGED <<outsideReader, link, pendingTasks, rhand>>

Reader == ReaderReceive \/ ReaderStop \/ ReaderAppend \/ ReaderNotify

-----------------------------------------------------------------------------
(* The dispatcher: runDispatcher().  "select" is the outer select, "send"  *)
(* the inner one; "pause" and "rest" are the two calls of sleepForAWhile.  *)

DispatchStop ==
  /\ Running /\ dpc = "select" /\ ctxDone
  /\ dpc' = "dump"
  /\ UNCHANGED <<outsideDispatcher, stack, pauseCh, workerCh, dhand, store>>

DispatchPause ==
  /\ Running /\ dpc = "select" /\ pauseCh
  /\ pauseCh' = FALSE
  /\ dpc' = "pause"
  /\ UNCHANGED <<outsideDispatcher, stack, workerCh, dhand, store>>

DispatchWake ==
  /\ Running /\ dpc = "select" /\ hasTasks
  /\ hasTasks' = FALSE
  /\ dpc' = "pop"
  /\ UNCHANGED <<outsideDispatcher, pendingTasks, pauseCh, workerCh, dhand, store>>

(* Mutant: the task is read from the stack, but the slice is not cut.      *)
DispatchPeek ==
  /\ Running /\ dpc = "pop"
  /\ IF pendingTasks = <<>>
       THEN dpc' = "select" /\ UNCHANGED dhand
       ELSE dpc' = "send" /\ dhand' = <<Last(pendingTasks)>>
  /\ UNCHANGED <<outsideDispatcher, stack, pauseCh, workerCh, store>>

(* One critical section: leave the inner loop when the stack is empty,     *)
(* else take the task on its top.                                          *)
DispatchPop ==
  /\ Running /\ dpc = "pop"
  /\ \/ /\ pendingTasks = <<>>
        /\ dpc' = "select"
        /\ UNCHANGED <<pendingTasks, dhand>>
     \/ /\ pendingTasks # <<>>
        /\ dpc' = "send"
        /\ dhand' = <<Last(pendingTasks)>>
        /\ pendingTasks' = Front(pendingTasks)
  /\ UNCHANGED <<outsideDispatcher, hasTasks, pauseCh, workerCh, store>>

DispatchSend ==
  /\ Running /\ dpc = "send" /\ Len(workerCh) < BufSize
  /\ workerCh' = workerCh \o dhand
  /\ dhand' = <<>>
  /\ dpc' = "pop"
  /\ UNCHANGED <<outsideDispatcher, stack, pauseCh, store>>

DispatchYield ==
  /\ Running /\ dpc = "send" /\ pauseCh
  /\ pauseCh' = FALSE
  /\ dpc' = "yield"
  /\ UNCHANGED <<outsideDispatcher, stack, workerCh, dhand, store>>

(* Mutants: cancellation is noticed only when the workers have room; the   *)
(* task in hand is not put back before the dump.                           *)
DispatchCancelLate ==
  /\ Running /\ dpc = "send" /\ ctxDone /\ Len(workerCh) < BufSize
  /\ dpc' = "rescue"
  /\ UNCHANGED <<outsideDispatcher, stack, pauseCh, workerCh, dhand, store>>

DispatchCancelNoRescue ==
  /\ Running /\ dpc = "send" /\ ctxDone
  /\ dpc' = "dump"
  /\ UNCHANGED <<outsideDispatcher, stack, pauseCh, workerCh, dhand, store>>

DispatchCancel ==
  /\ Running /\ dpc = "send" /\ ctxDone
  /\ dpc' = "rescue"
  /\ UNCHANGED <<outsideDispatcher, stack, pauseCh, workerCh, dhand, store>>

(* Mutant: the task in hand is forgotten when a pause interrupts the send. *)
DispatchForget ==
  /\ Running /\ dpc \in {"yield", "rescue"}
  /\ dhand' = <<>>
  /\ dpc' = IF dpc = "yield" THEN "rest" ELSE "dump"
  /\ UNCHANGED <<outsideDispatcher, stack, pauseCh, workerCh, store>>

(* The task goes back on the stack, before the rest or before the dump.    *)
DispatchPutBack ==
  /\ Running /\ dpc \in {"yield", "rescue"}
  /\ pendingTasks' = pendingTasks \o dhand
  /\ dhand' = <<>>
  /\ dpc' = IF dpc = "yield" THEN "rest" ELSE "dump"
  /\ UNCHANGED <<outsideDispatcher, hasTasks, pauseCh, workerCh, store>>

(* Mutant: after its rest the dispatcher leaves the inner loop.            *)
DispatchSleepEndBreak ==
  /\ Running /\ dpc \in {"pause", "rest"}
  /\ dpc' = "select"
  /\ UNCHANGED <<outsideDispatcher, stack, pauseCh, workerCh, dhand, store>>

(* sleepForAWhile ends by its ticker or by ctx.Done().                     *)
DispatchSleepEnd ==
  /\ Running /\ dpc \in {"pause", "rest"}
  /\ dpc' = IF dpc = "pause" THEN "select" ELSE "pop"
  /\ UNCHANGED <<outsideDispatcher, stack, pauseCh, workerCh, dhand, store>>

(* dumpQueue reads the stack without wp.mx, so also in the middle of the   *)
(* reader's append.                                                        *)
DumpSnapshot ==
  /\ Running /\ dpc = "dump"
  /\ dumped' = pendingTasks
  /\ dpc' = "drain"
  /\ UNCHANGED <<outsideDispatcher, stack, pauseCh, workerCh, dhand, dumpFile>>

(* Two panics: time.NewTicker refuses the delay of a negative Retry-After; *)
(* and, the other outcome of the data race of dumpQueue, the compiled      *)
(* append has stored the new length before the element, a nil task.        *)
DispatchPanic ==
  /\ Running
  /\ dpc \in {"pause", "rest"} \/ (dpc = "dump" /\ rpc = "append")
  /\ EndProcess("panicked")

DumpDrain ==
  /\ Running /\ dpc = "drain"
  /\ \/ /\ workerCh # <<>>
        /\ dumped' = Append(dumped, Head(workerCh))
        /\ workerCh' = Tail(workerCh)
        /\ UNCHANGED dpc
     \/ /\ workerCh = <<>>
        /\ dpc' = "save"
        /\ UNCHANGED <<dumped, workerCh>>
  /\ UNCHANGED <<outsideDispatcher, stack, pauseCh, dhand, dumpFile>>

(* dumper.Save(): os.Create truncates the file, then the orders are        *)
(* written in one block.  Either may fail; the error is only logged.       *)
SaveCreate ==
  /\ Running /\ dpc = "save"
  /\ \/ dpc' = "write" /\ dumpFile' = <<>> /\ UNCHANGED dumped
     \/ IOFails /\ dpc' = "done" /\ dumped' = <<>> /\ UNCHANGED dumpFile
  /\ UNCHANGED <<outsideDispatcher, stack, pauseCh, workerCh, dhand>>

SaveWrite ==
  /\ Running /\ dpc = "write"
  /\ \/ dumpFile' = dumped
     \/ IOFails /\ UNCHANGED dumpFile
  /\ dumped' = <<>>
  /\ dpc' = "done"
  /\ UNCHANGED <<outsideDispatcher, stack, pauseCh, workerCh, dhand>>

Dispatcher ==
  \/ DispatchStop \/ DispatchPause \/ DispatchWake \/ DispatchPop
  \/ DispatchSend \/ DispatchYield \/ DispatchCancel \/ DispatchPutBack
  \/ DispatchSleepEnd
  \/ DumpSnapshot \/ DispatchPanic \/ DumpDrain \/ SaveCreate \/ SaveWrite

-----------------------------------------------------------------------------
(* The workers: Run(), and what ProcessAccrualTask does to the queue.      *)

WorkerStop(w) ==
  /\ Running /\ wpc[w] = "select" /\ ctxDone
  /\ wpc' = [wpc EXCEPT ![w] = "done"]
  /\ UNCHANGED <<outsideWorkers, link, pauseCh, workerCh, whand, history>>

WorkerReceive(w) ==
  /\ Running /\ wpc[w] = "select" /\ workerCh # <<>>
  /\ whand' = [whand EXCEPT ![w] = <<Head(workerCh)>>]
  /\ workerCh' = Tail(workerCh)
  /\ wpc' = [wpc EXCEPT ![w] = "process"]
  /\ UNCHANGED <<outsideWorkers, link, pauseCh, history>>

(* The processing of the task ends and does not requeue it.                *)
WorkerRelease(w) ==
  /\ Running /\ wpc[w] = "process"
  /\ released' = released \cup Ids(whand[w])
  /\ whand' = [whand EXCEPT ![w] = <<>>]
  /\ wpc' = [wpc EXCEPT ![w] = "select"]
  /\ UNCHANGED <<outsideWorkers, link, pauseCh, workerCh, accepted, dropped, lost>>

(* The accrual system is still processing the order: it is sent again.     *)
WorkerRetry(w) ==
  /\ Running /\ wpc[w] = "process"
  /\ whand' = [whand EXCEPT ![w] = <<[Head(@) EXCEPT !.status = "PROCESSING"]>>]
  /\ wpc' = [wpc EXCEPT ![w] = "requeue"]
  /\ UNCHANGED <<outsideWorkers, link, pauseCh, workerCh, history>>

(* The accrual system answers 429.                                         *)
WorkerBusy(w) ==
  /\ Running /\ wpc[w] = "process"
  /\ wpc' = [wpc EXCEPT ![w] = "pause"]
  /\ UNCHANGED <<outsideWorkers, link, pauseCh, workerCh, whand, history>>

(* Non-blocking: a delay that is already in the channel stays.             *)
WorkerPause(w) ==
  /\ Running /\ wpc[w] = "pause"
  /\ pauseCh' = TRUE
  /\ wpc' = [wpc EXCEPT ![w] = "requeue"]
  /\ UNCHANGED <<outsideWorkers, link, workerCh, whand, history>>

WorkerRequeue(w) ==
  /\ Running /\ wpc[w] = "requeue" /\ ~taskChClosed
  /\ SendOrder(Head(whand[w]))
  /\ whand' = [whand EXCEPT ![w] = <<>>]
  /\ wpc' = [wpc EXCEPT ![w] = "select"]
  /\ UNCHANGED <<outsideWorkers, taskChClosed, pauseCh, workerCh, accepted, released, lost>>

(* A send on the closed channel panics; nothing recovers in a worker.      *)
WorkerPanic(w) ==
  /\ Running /\ wpc[w] = "requeue" /\ taskChClosed
  /\ EndProcess("panicked")

WorkerStep(w) ==
  \/ WorkerStop(w) \/ WorkerReceive(w) \/ WorkerRelease(w) \/ WorkerRetry(w)
  \/ WorkerBusy(w) \/ WorkerPause(w) \/ WorkerRequeue(w) \/ WorkerPanic(w)

-----------------------------------------------------------------------------
(* The process.                                                            *)

(* SIGINT or SIGTERM cancels the context of the server and of the pool.    *)
Signal ==
  /\ Running /\ ~ctxDone
  /\ ctxDone' = TRUE
  /\ UNCHANGED <<life, link, stack, pauseCh, workerCh, reader, dispatcher,
                 workers, store, history>>

(* The goroutine of NewRouter that closes the link channel.                *)
CloseLink ==
  /\ Running /\ ctxDone /\ ~taskChClosed
  /\ taskChClosed' = TRUE
  /\ UNCHANGED <<process, taskCh, stack, pauseCh, workerCh, reader, dispatcher,
                 workers, store, history>>

(* main returns when server.Shutdown does: it does not wait for the pool.  *)
Exit == Running /\ ctxDone /\ EndProcess("exited")

Kill == ~Ended /\ EndProcess("killed")

Restart ==
  /\ Ended
  /\ life' = "restoring"
  /\ UNCHANGED <<memory, dumpFile, history>>

Next ==
  \/ RestoreFail \/ RestoreErase \/ RestoreAppend
  \/ \E t \in Task : Submit(t)
  \/ Reader \/ Dispatcher \/ \E w \in Worker : WorkerStep(w)
  \/ Signal \/ CloseLink \/ Exit \/ Kill \/ Restart

(* The worker pool, as the code runs it.                                   *)
Spec == Init /\ [][Next]_vars

(* The Go scheduler runs every goroutine that can run, and the accrual     *)
(* system, asked again and again about an order, once gives an answer that *)
(* ends its processing.                                                    *)
Finishing(o) == \E w \in Worker : o \in Ids(whand[w]) /\ WorkerRelease(w)

Fairness ==
  /\ WF_vars(RestoreErase) /\ WF_vars(RestoreAppend)
  /\ WF_vars(Reader) /\ WF_vars(Dispatcher) /\ WF_vars(CloseLink)
  /\ \A w \in Worker : WF_vars(WorkerStep(w))
  /\ \A o \in Order : SF_vars(Finishing(o))

FairSpec == Spec /\ Fairness

-----------------------------------------------------------------------------
(* Where a task can be.  The stack is dead once dumpQueue has read it.     *)
Place == Shared \cup Worker

Held(p) ==
  CASE p = "taskCh"       -> taskCh
    [] p = "reader"       -> rhand
    [] p = "pendingTasks" -> IF Dumping THEN <<>> ELSE pendingTasks
    [] p = "dispatcher"   -> dhand
    [] p = "workerCh"     -> workerCh
    [] p = "dump"         -> dumped
    [] p = "file"         -> dumpFile
    [] OTHER              -> whand[p]

Distinct(s) == \A i, j \in DOMAIN s : s[i].id = s[j].id => i = j
Gone == released \cup dropped \cup lost

(* No lost wake-up: when tasks are pending and the dispatcher is about to  *)
(* wait for the hasTasks token, the token is there or the reader is about  *)
(* to put it.  runDispatcher takes the only token before it empties the    *)
(* stack, and run() puts one, without waiting, after each append.          *)
NoLostWakeup ==
  Running /\ dpc \in {"select", "pause"} /\ pendingTasks # <<>>
    => hasTasks \/ rpc = "notify"

(* An order has at most one live task, in the memory of the process and in *)
(* the dump file together: put-back after a pause, requeueing, dumping and *)
(* restoring move a task and never copy it.  updateOrderTx credits the     *)
(* balance each time it runs, so a second task would credit twice.         *)
OneCopy ==
  /\ \A p \in Place : Distinct(Held(p))
  /\ \A p, q \in Place : p # q => Ids(Held(p)) \cap Ids(Held(q)) = {}

(* No task comes back: what is held was accepted and is not finished,      *)
(* dropped or lost, whatever was dumped and restored in between.           *)
NoZombie == \A p \in Place : Ids(Held(p)) \subseteq accepted \ Gone

(* Until dumpQueue has read the stack, an accepted order that is not       *)
(* finished, dropped or lost has a task somewhere: no interleaving of the  *)
(* put-back branches of runDispatcher with run() loses one.                *)
NothingMislaid ==
  ~Dumping => \A o \in accepted \ Gone : \E p \in Place : o \in Ids(Held(p))

(* While a task is in the hand of the dispatcher or of the reader they are *)
(* at a point that still passes it on: no return path of run() or of       *)
(* runDispatcher leaves with a task.                                       *)
HandsPassOn ==
  /\ rhand # <<>> <=> rpc = "append"
  /\ dhand # <<>> <=> dpc \in {"send", "yield", "rescue"}
  /\ \A w \in Worker : whand[w] # <<>> <=> wpc[w] \in {"process", "pause", "requeue"}

(* A task that is queued while the process keeps running is processed to   *)
(* the end or dropped at the full link channel; it is never stranded       *)
(* behind the LIFO stack, the pauses or a missed token.  Only an order of  *)
(* a dump that could not be restored stays where it is, in the file.       *)
QueueDrains ==
  \A o \in Order :
    (Running /\ o \in accepted /\ o \notin Ids(dumpFile))
      ~> (o \in released \cup dropped \cup lost \/ ctxDone \/ ~Running)

(* After the signal the reader, the dispatcher (with its dump) and all the *)
(* workers return, unless the process ends first: pool.Wait() would return.*)
AllReturned == rpc = "done" /\ dpc = "done" /\ \A w \in Worker : wpc[w] = "done"
PoolStops == (Running /\ ctxDone) ~> (AllReturned \/ ~Running)

(* The pool as the rest of the program may see it, PoolLife: a dump that   *)
(* was read and erased, but is not queued yet, is still the dump.          *)
InMemory == \E p \in Place \ {"file"} : Held(p) # <<>>
Phase == IF Running THEN "up" ELSE IF Ended THEN "down" ELSE "restoring"
Queue ==
  IF ~Running THEN "off" ELSE IF dpc = "done" THEN "dumped"
  ELSE IF InMemory THEN "tasks" ELSE "empty"
Filed == dumpFile # <<>> \/ (life = "erased" /\ dumped # <<>>)

Life == INSTANCE PoolLife
          WITH phase <- Phase, stopped <- ctxDone, queue <- Queue, filed <- Filed

(* Whatever the goroutines do, the program sees a queue that is restored   *)
(* once and no sooner than the dump has left the file, and a file that     *)
(* changes only after a cancellation and gets nothing that was not queued. *)
PoolLifeSpec == Life!LifeSpec

-----------------------------------------------------------------------------
(* What comments, messages and tests say and the code does not do.         *)

(* pool.go:77: at a graceful shutdown the dispatcher saves the stack of    *)
(* tasks.  So once all goroutines have returned, the stack is in the file. *)
StackIsSaved == Running /\ AllReturned => Ids(pendingTasks) \subseteq Ids(dumpFile)

(* main.go:127: the requests in progress get time to finish.  So no worker *)
(* is about to bring the process down by a send on the closed channel.     *)
NoSendOnClosed ==
  Running /\ taskChClosed => \A w \in Worker : wpc[w] # "requeue"
=============================================================================
