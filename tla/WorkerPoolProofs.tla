-------------------------- MODULE WorkerPoolProofs --------------------------
(***************************************************************************)
(* Theorems about the worker pool, for every number of orders and workers  *)
(* and every capacity of the channels.                                     *)
(***************************************************************************)
EXTENDS WorkerPool, TLAPS

(* The tuples of variables are always expanded.                            *)
USE DEF process, link, stack, reader, dispatcher, workers, store, history,
        memory, outsideReader, outsideDispatcher, outsideWorkers

-----------------------------------------------------------------------------
(* Lemmas about hands and sequences of tasks.                              *)

(* What the reader's and the dispatcher's append leave is a task sequence. *)
LEMMA HandIsSeq == ASSUME NEW h \in Hand PROVE h \in Seq(Task) /\ Len(h) <= 1
<1>1. CASE h = <<>>
  BY <1>1
<1>2. ASSUME NEW t \in Task, h = <<t>> PROVE h \in Seq(Task) /\ Len(h) <= 1
  BY <1>2
<1> QED BY <1>1, <1>2 DEF Hand

LEMMA MakeHand == <<>> \in Hand /\ \A t \in Task : <<t>> \in Hand /\ <<t>> # <<>>
  BY DEF Hand

(* A hand that is not empty is the sequence of its head.                   *)
LEMMA FullHand ==
  ASSUME NEW h \in Hand, h # <<>>
  PROVE  Head(h) \in Task /\ h = <<Head(h)>>
  BY DEF Hand

(* The orders of a sequence of tasks are orders.                           *)
LEMMA HandIds == \A s \in Seq(Task) : Ids(s) \subseteq Order
<1> SUFFICES ASSUME NEW s \in Seq(Task), NEW i \in DOMAIN s PROVE s[i].id \in Order
  BY DEF Ids
<1>1. s[i] \in Task
  OBVIOUS
<1> QED BY <1>1 DEF Task

(* Popping the stack yields a task and a shorter stack.                    *)
LEMMA FrontLast ==
  ASSUME NEW s \in Seq(Task), s # <<>>
  PROVE  /\ Last(s) \in Task /\ Front(s) \in Seq(Task)
         /\ Len(Front(s)) = Len(s) - 1
         /\ \A i \in 1..(Len(s) - 1) : Front(s)[i] = s[i]
<1>1. Len(s) \in Nat /\ Len(s) # 0 /\ s \in [1..Len(s) -> Task]
  OBVIOUS
<1>2. Last(s) \in Task
  BY <1>1 DEF Last
<1>3. Front(s) = [i \in 1..(Len(s) - 1) |-> s[i]]
  BY <1>1 DEF Front
<1> QED BY <1>1, <1>2, <1>3

-----------------------------------------------------------------------------
(* Type correctness.                                                       *)

(* Goroutines hold a task exactly where their code does; this is needed    *)
(* for Head(whand[w]) to be a task.                                        *)
TypeInv == TypeOK /\ HandsPassOn

LEMMA TypeInit == Init => TypeInv
<1> SUFFICES ASSUME Init PROVE TypeInv
  OBVIOUS
<1>1. ctxDone \in BOOLEAN /\ taskChClosed \in BOOLEAN
      /\ hasTasks \in BOOLEAN /\ pauseCh \in BOOLEAN
  BY Zenon DEF Init
<1>2. <<>> \in Seq(Task) /\ Len(<<>>) = 0
  OBVIOUS
<1> QED BY <1>1, <1>2, LinkCapAssumption, BufSizeAssumption, MakeHand
        DEF Init, TypeInv, TypeOK, HandsPassOn

LEMMA TypeEnd ==
  ASSUME TypeInv, NEW how \in {"exited", "panicked", "killed"}, EndProcess(how)
  PROVE  TypeInv'
<1>1. (ctxDone \in BOOLEAN /\ taskChClosed \in BOOLEAN
       /\ hasTasks \in BOOLEAN /\ pauseCh \in BOOLEAN)'
  BY Zenon DEF EndProcess
<1>2. <<>> \in Seq(Task) /\ Len(<<>>) = 0
  OBVIOUS
<1> QED BY <1>1, <1>2, LinkCapAssumption, BufSizeAssumption, MakeHand
        DEF EndProcess, TypeInv, TypeOK, HandsPassOn

LEMMA SendType ==
  ASSUME TypeOK, NEW t \in Task, SendOrder(t)
  PROVE  (taskCh \in Seq(Task) /\ Len(taskCh) <= LinkCap /\ dropped \subseteq Order)'
<1>1. t.id \in Order
  BY DEF Task
<1>2. CASE Len(taskCh) < LinkCap
  <2>1. Append(taskCh, t) \in Seq(Task) /\ Len(Append(taskCh, t)) = Len(taskCh) + 1
    BY DEF TypeOK
  <2>2. taskCh' = Append(taskCh, t) /\ dropped' = dropped /\ Len(taskCh) \in Nat
    BY <1>2 DEF TypeOK, SendOrder
  <2>3. Len(taskCh') <= LinkCap
    BY <1>2, <2>1, <2>2, LinkCapAssumption
  <2> QED BY <2>1, <2>2, <2>3 DEF TypeOK
<1>3. CASE ~(Len(taskCh) < LinkCap)
  BY <1>1, <1>3 DEF TypeOK, SendOrder
<1> QED BY <1>2, <1>3

LEMMA TypeNext == TypeInv /\ [Next]_vars => TypeInv'
<1> SUFFICES ASSUME TypeInv, [Next]_vars PROVE TypeInv'
  OBVIOUS
<1> USE LinkCapAssumption, BufSizeAssumption, HandIsSeq DEF TypeInv
<1>1. CASE RestoreFail
  BY <1>1 DEF RestoreFail, TypeOK, HandsPassOn
<1>2. CASE RestoreErase
  BY <1>2 DEF RestoreErase, TypeOK, HandsPassOn
<1>3. CASE RestoreAppend
  BY <1>3 DEF RestoreAppend, TypeOK, HandsPassOn
<1>4. ASSUME NEW t \in Task, Submit(t) PROVE TypeInv'
  <2>1. t.id \in Order
    BY DEF Task
  <2>2. (taskCh \in Seq(Task) /\ Len(taskCh) <= LinkCap /\ dropped \subseteq Order)'
    BY <1>4, <2>1, SendType DEF Submit, Enqueue, TypeOK
  <2> QED BY <1>4, <2>1, <2>2 DEF Submit, Enqueue, TypeOK, HandsPassOn
<1>5. CASE Reader
  <2>1. CASE ReaderReceive
    BY <2>1, MakeHand DEF ReaderReceive, TypeOK, HandsPassOn
  <2>2. CASE ReaderStop
    BY <2>2 DEF ReaderStop, TypeOK, HandsPassOn
  <2>3. CASE ReaderAppend
    BY <2>3, MakeHand DEF ReaderAppend, TypeOK, HandsPassOn
  <2>4. CASE ReaderNotify
    BY <2>4 DEF ReaderNotify, TypeOK, HandsPassOn
  <2> QED BY <1>5, <2>1, <2>2, <2>3, <2>4 DEF Reader
<1>6. CASE Dispatcher
  <2> USE DEF TypeOK, HandsPassOn
  <2>1. CASE DispatchStop
    BY <2>1 DEF DispatchStop
  <2>2. CASE DispatchPause
    BY <2>2 DEF DispatchPause
  <2>3. CASE DispatchWake
    BY <2>3 DEF DispatchWake
  <2>4. CASE DispatchPop
    <3>1. CASE pendingTasks = <<>>
      BY <2>4, <3>1 DEF DispatchPop
    <3>2. CASE pendingTasks # <<>>
      <4>1. Last(pendingTasks) \in Task /\ Front(pendingTasks) \in Seq(Task)
        BY <3>2, FrontLast
      <4> QED BY <2>4, <3>2, <4>1, MakeHand DEF DispatchPop
    <3> QED BY <3>1, <3>2
  <2>5. CASE DispatchSend
    BY <2>5, MakeHand DEF DispatchSend
  <2>6. CASE DispatchYield
    BY <2>6 DEF DispatchYield
  <2>7. CASE DispatchCancel
    BY <2>7 DEF DispatchCancel
  <2>8. CASE DispatchPutBack
    BY <2>8, MakeHand DEF DispatchPutBack
  <2>9. CASE DispatchSleepEnd
    BY <2>9 DEF DispatchSleepEnd
  <2>10. CASE DumpSnapshot
    BY <2>10 DEF DumpSnapshot
  <2>11. CASE DispatchPanic
    BY <2>11, TypeEnd DEF DispatchPanic
  <2>12. CASE DumpDrain
    <3>1. CASE workerCh # <<>>
      <4>1. Head(workerCh) \in Task /\ Tail(workerCh) \in Seq(Task)
            /\ Len(Tail(workerCh)) <= BufSize
        BY <3>1
      <4>2. dumped' = Append(dumped, Head(workerCh)) /\ workerCh' = Tail(workerCh)
        BY <2>12, <3>1 DEF DumpDrain
      <4>3. dumped' \in Seq(Task) /\ workerCh' \in Seq(Task) /\ Len(workerCh') <= BufSize
        BY <4>1, <4>2
      <4> QED BY <2>12, <3>1, <4>3 DEF DumpDrain
    <3>2. CASE workerCh = <<>>
      BY <2>12, <3>2 DEF DumpDrain
    <3> QED BY <3>1, <3>2
  <2>13. CASE SaveCreate
    BY <2>13 DEF SaveCreate
  <2>14. CASE SaveWrite
    BY <2>14 DEF SaveWrite
  <2> QED BY <1>6, <2>1, <2>2, <2>3, <2>4, <2>5, <2>6, <2>7, <2>8, <2>9,
             <2>10, <2>11, <2>12, <2>13, <2>14 DEF Dispatcher
<1>7. ASSUME NEW w \in Worker, WorkerStep(w) PROVE TypeInv'
  <2> USE DEF TypeOK, HandsPassOn
  <2>1. CASE WorkerStop(w)
    BY <2>1 DEF WorkerStop
  <2>2. CASE WorkerReceive(w)
    <3>1. Head(workerCh) \in Task /\ Tail(workerCh) \in Seq(Task)
          /\ Len(Tail(workerCh)) <= BufSize
      BY <2>2, BufSizeAssumption DEF WorkerReceive
    <3>2. /\ whand' \in [Worker -> Hand] /\ whand'[w] # <<>>
          /\ \A v \in Worker \ {w} : whand'[v] = whand[v]
      BY <2>2, <3>1, MakeHand DEF WorkerReceive
    <3>3. /\ wpc' \in [Worker -> {"select", "process", "pause", "requeue",
                                  "done"}]
          /\ wpc'[w] = "process" /\ \A v \in Worker \ {w} : wpc'[v] = wpc[v]
      BY <2>2 DEF WorkerReceive
    <3>4. workerCh' = Tail(workerCh)
          /\ UNCHANGED <<outsideWorkers, link, pauseCh, history>>
      BY <2>2 DEF WorkerReceive
    <3>5. HandsPassOn'
      BY <3>2, <3>3, <3>4
    <3>6. TypeOK'
      BY <3>1, <3>2, <3>3, <3>4
    <3> QED BY <3>5, <3>6
  <2>3. CASE WorkerRelease(w)
    <3>1. /\ whand' \in [Worker -> Hand] /\ whand'[w] = <<>>
          /\ \A v \in Worker \ {w} : whand'[v] = whand[v]
      BY <2>3, MakeHand DEF WorkerRelease
    <3>2. /\ wpc' \in [Worker -> {"select", "process", "pause", "requeue",
                                  "done"}]
          /\ wpc'[w] = "select" /\ \A v \in Worker \ {w} : wpc'[v] = wpc[v]
      BY <2>3 DEF WorkerRelease
    <3>3. released' \subseteq Order
      BY <2>3, HandIds DEF WorkerRelease
    <3>4. UNCHANGED <<outsideWorkers, link, pauseCh, workerCh, accepted,
                      dropped, lost>>
      BY <2>3 DEF WorkerRelease
    <3>5. HandsPassOn'
      BY <3>1, <3>2, <3>4
    <3>6. TypeOK'
      BY <3>1, <3>2, <3>3, <3>4
    <3> QED BY <3>5, <3>6
  <2>4. CASE WorkerRetry(w)
    <3>1. Head(whand[w]) \in Task
      BY <2>4, FullHand DEF WorkerRetry
    <3>2. [Head(whand[w]) EXCEPT !.status = "PROCESSING"] \in Task
      BY <3>1 DEF Task
    <3>3. PICK t \in Task : whand' = [whand EXCEPT ![w] = <<t>>]
      BY <2>4, <3>2 DEF WorkerRetry
    <3>4. /\ whand' \in [Worker -> Hand] /\ whand'[w] # <<>>
          /\ \A v \in Worker \ {w} : whand'[v] = whand[v]
      BY <3>3, MakeHand
    <3> QED BY <2>4, <3>4 DEF WorkerRetry
  <2>5. CASE WorkerBusy(w)
    BY <2>5 DEF WorkerBusy
  <2>6. CASE WorkerPause(w)
    BY <2>6 DEF WorkerPause
  <2>7. CASE WorkerRequeue(w)
    <3>1. Head(whand[w]) \in Task
      BY <2>7, FullHand DEF WorkerRequeue
    <3>2. (taskCh \in Seq(Task) /\ Len(taskCh) <= LinkCap /\ dropped \subseteq Order)'
      BY <2>7, <3>1, SendType DEF WorkerRequeue
    <3> QED BY <2>7, <3>2, MakeHand DEF WorkerRequeue
  <2>8. CASE WorkerPanic(w)
    BY <2>8, TypeEnd DEF WorkerPanic
  <2> QED BY <1>7, <2>1, <2>2, <2>3, <2>4, <2>5, <2>6, <2>7, <2>8 DEF WorkerStep
<1>8. CASE Signal
  BY <1>8 DEF Signal, TypeOK, HandsPassOn
<1>9. CASE CloseLink
  BY <1>9 DEF CloseLink, TypeOK, HandsPassOn
<1>10. CASE Exit
  BY <1>10, TypeEnd DEF Exit
<1>11. CASE Kill
  BY <1>11, TypeEnd DEF Kill
<1>12. CASE Restart
  BY <1>12 DEF Restart, TypeOK, HandsPassOn
<1>13. CASE UNCHANGED vars
  BY <1>13 DEF TypeOK, HandsPassOn, vars
<1> QED BY <1>1, <1>2, <1>3, <1>4, <1>5, <1>6, <1>7, <1>8, <1>9, <1>10, <1>11,
           <1>12, <1>13 DEF Next

LEMMA TypeAlways == Spec => []TypeInv
  BY TypeInit, TypeNext, PTL DEF Spec

(* The variables keep their types and every channel its capacity, whatever *)
(* the schedule of the goroutines.                                         *)
THEOREM TypeCorrect == Spec => []TypeOK
  BY TypeAlways, PTL DEF TypeInv

(* A goroutine has a task in its hands exactly where its code has one to   *)
(* pass on: none leaves its loop, or takes another task, with one in hand. *)
THEOREM HandsCorrect == Spec => []HandsPassOn
  BY TypeAlways, PTL DEF TypeInv

-----------------------------------------------------------------------------
(* No lost wake-up.                                                        *)

(* Before Start and after its end a process has no goroutine that moved,   *)
(* and the local list of dumpQueue and RestoreQueue is empty outside them. *)
Idle ==
  /\ ~Running => pendingTasks = <<>> /\ rpc = "select" /\ dpc = "select"
  /\ dumped # <<>> => life = "erased" \/ dpc \in {"drain", "save", "write"}
  /\ Dumping \/ dpc = "dump" => Running

WakeInv == TypeInv /\ Idle /\ NoLostWakeup

LEMMA WakeInit == Init => WakeInv
  BY TypeInit DEF Init, WakeInv, Idle, NoLostWakeup, Running, Dumping

LEMMA WakeEnd ==
  ASSUME NEW how \in {"exited", "panicked", "killed"}, EndProcess(how)
  PROVE  (Idle /\ NoLostWakeup)'
  BY DEF EndProcess, Idle, NoLostWakeup, Running, Dumping

LEMMA WakeNext == WakeInv /\ [Next]_vars => WakeInv'
<1> SUFFICES ASSUME WakeInv, [Next]_vars PROVE (Idle /\ NoLostWakeup)'
  BY TypeNext DEF WakeInv
<1> USE DEF WakeInv, Idle, NoLostWakeup, Running, Dumping
<1>1. CASE RestoreFail
  BY <1>1 DEF RestoreFail
<1>2. CASE RestoreErase
  BY <1>2 DEF RestoreErase
<1>3. CASE RestoreAppend
  <2>1. pendingTasks' = dumped
    BY <1>3 DEF RestoreAppend, TypeInv, TypeOK
  <2>2. dumped # <<>> => hasTasks'
    BY <1>3, Zenon DEF RestoreAppend
  <2> QED BY <1>3, <2>1, <2>2 DEF RestoreAppend
<1>4. ASSUME NEW t \in Task, Submit(t) PROVE (Idle /\ NoLostWakeup)'
  BY <1>4 DEF Submit, Enqueue
<1>5. CASE Reader
  BY <1>5 DEF Reader, ReaderReceive, ReaderStop, ReaderAppend, ReaderNotify
<1>6. CASE Dispatcher
  <2>1. CASE DispatchStop \/ DispatchPause \/ DispatchWake
    BY <2>1 DEF DispatchStop, DispatchPause, DispatchWake
  <2>2. CASE DispatchPop
    BY <2>2 DEF DispatchPop
  <2>3. CASE DispatchSend \/ DispatchYield \/ DispatchCancel
    BY <2>3 DEF DispatchSend, DispatchYield, DispatchCancel
  <2>4. CASE DispatchPutBack \/ DispatchSleepEnd
    BY <2>4 DEF DispatchPutBack, DispatchSleepEnd
  <2>5. CASE DumpSnapshot \/ DumpDrain
    BY <2>5 DEF DumpSnapshot, DumpDrain
  <2>6. CASE SaveCreate \/ SaveWrite
    BY <2>6 DEF SaveCreate, SaveWrite
  <2>7. CASE DispatchPanic
    BY <2>7, WakeEnd DEF DispatchPanic
  <2> QED BY <1>6, <2>1, <2>2, <2>3, <2>4, <2>5, <2>6, <2>7 DEF Dispatcher
<1>7. ASSUME NEW w \in Worker, WorkerStep(w) PROVE (Idle /\ NoLostWakeup)'
  <2>1. CASE WorkerPanic(w)
    BY <2>1, WakeEnd DEF WorkerPanic
  <2>2. CASE ~WorkerPanic(w)
    BY <1>7, <2>2 DEF WorkerStep, WorkerStop, WorkerReceive, WorkerRelease,
       WorkerRetry, WorkerBusy, WorkerPause, WorkerRequeue
  <2> QED BY <2>1, <2>2
<1>8. CASE Signal \/ CloseLink
  BY <1>8 DEF Signal, CloseLink
<1>9. CASE Exit \/ Kill
  BY <1>9, WakeEnd DEF Exit, Kill
<1>10. CASE Restart
  BY <1>10 DEF Restart, Ended
<1>11. CASE UNCHANGED vars
  BY <1>11 DEF vars
<1> QED BY <1>1, <1>2, <1>3, <1>4, <1>5, <1>6, <1>7, <1>8, <1>9, <1>10, <1>11
        DEF Next

(* The dispatcher never waits for the hasTasks token while tasks are       *)
(* pending and no token is there or on its way, for any number of workers  *)
(* and any capacity of the channels, over restarts too.                    *)
THEOREM WakeupNeverLost == Spec => []NoLostWakeup
<1>1. Spec => []WakeInv
  BY WakeInit, WakeNext, PTL DEF Spec
<1> QED BY <1>1, PTL DEF WakeInv
=============================================================================
