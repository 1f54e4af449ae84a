---------------------------- MODULE OrderProofs ----------------------------
(***************************************************************************)
(* Theorems about the way of an order from its upload to its credit, for   *)
(* every number of orders, users, handlers and workers.                    *)
(*                                                                         *)
(* The argument: the handlers send an order only after they have inserted  *)
(* its row, so the composed system implements the pool (Spec) and what is  *)
(* proved of the pool holds of it; an order therefore has one task, which  *)
(* agrees with its row, and only the worker with that task writes the row. *)
(* The row was not final then, so not credited, and the accrual system had *)
(* reached at least its stage when it gave the answer.                     *)
(***************************************************************************)
EXTENDS OrderProcessing, TaskCopiesProofs, SumProofs

USE DEF process, link, stack, reader, dispatcher, workers, store, history,
        memory, outsideReader, outsideDispatcher, outsideWorkers, ledger, handlers

-----------------------------------------------------------------------------
(* The handlers keep what the pool relies on.                              *)

HandlersInv ==
  /\ hpc \in [Handler -> {"idle", "insert", "send"}]
  /\ request \in [Handler -> Hand]
  /\ \A h \in Handler : request[h] = <<>> <=> hpc[h] = "idle"
  /\ \A h \in Handler : hpc[h] # "idle" => Head(request[h]).status = "NEW"
  /\ \A h \in Handler : hpc[h] = "send" =>
       Head(request[h]).id \in DOMAIN orders \ accepted
  /\ \A g, h \in Handler : g # h /\ hpc[g] = "send" /\ hpc[h] = "send" =>
       Head(request[g]).id # Head(request[h]).id
  /\ accepted \subseteq DOMAIN orders

LEMMA HandlersInit == OrderInit => HandlersInv
  BY MakeHand DEF OrderInit, Init, HandlersInv

(* Steps that leave the handlers and the list of accepted orders alone.    *)
LEMMA HandlersKeep ==
  ASSUME HandlersInv, UNCHANGED <<hpc, request, accepted>>,
         DOMAIN orders \subseteq DOMAIN orders'
  PROVE  HandlersInv'
  BY DEF HandlersInv

(* The handlers end with the process.                                      *)
LEMMA HandlersEnd ==
  ASSUME HandlersInv, UNCHANGED accepted, UNCHANGED orders,
         hpc' = [h \in Handler |-> "idle"], request' = [h \in Handler |-> <<>>]
  PROVE  HandlersInv'
  BY MakeHand DEF HandlersInv

(* No row is ever deleted.                                                 *)
LEMMA RowsStay ==
  ASSUME NEW o, NEW u, NEW s, NEW p,
         Storage!AddOrder(o, u) \/ Storage!UpdateOrder(o, u, s, p)
  PROVE  DOMAIN orders' = DOMAIN orders \cup {o}
  BY DEF Storage!AddOrder, Storage!UpdateOrder, Storage!Inserted,
     Storage!Written, Storage!Put

(* The steps of the pool that OrderNext takes as they are.                 *)
PoolMove ==
  \/ RestoreFail \/ RestoreErase \/ RestoreAppend
  \/ Reader \/ Dispatcher \/ \E w \in Worker : Queueing(w)
  \/ Signal \/ CloseLink \/ Exit \/ Kill \/ Restart

LEMMA MoveIsNext == PoolMove => Next /\ accepted' = accepted
<1>1. PoolMove => Next
  BY DEF PoolMove, Next, Queueing, WorkerStep
<1>2. ASSUME PoolMove PROVE accepted' = accepted
  <2>1. CASE RestoreFail \/ RestoreErase \/ RestoreAppend \/ Signal \/ CloseLink
             \/ Exit \/ Kill \/ Restart
    BY <2>1 DEF RestoreFail, RestoreErase, RestoreAppend, Signal, CloseLink,
       Exit, Kill, Restart, EndProcess
  <2>2. CASE Reader
    BY <2>2 DEF Reader, ReaderReceive, ReaderStop, ReaderAppend, ReaderNotify
  <2>3. CASE Dispatcher
    BY <2>3 DEF Dispatcher, DispatchStop, DispatchPause, DispatchWake,
       DispatchPop, DispatchSend, DispatchYield, DispatchCancel,
       DispatchPutBack, DispatchSleepEnd, DumpSnapshot, DispatchPanic,
       DumpDrain, SaveCreate, SaveWrite, EndProcess
  <2>4. ASSUME NEW w \in Worker, Queueing(w) PROVE accepted' = accepted
    BY <2>4 DEF Queueing, WorkerStop, WorkerReceive, WorkerPause,
       WorkerRequeue, WorkerPanic, SendOrder, EndProcess
  <2> QED BY <1>2, <2>1, <2>2, <2>3, <2>4 DEF PoolMove
<1> QED BY <1>1, <1>2

(* A worker that processes a task takes steps of the pool.                 *)
LEMMA ProcessIsNext ==
  ASSUME NEW w \in Worker, Process(w)
  PROVE  [Next]_vars /\ accepted' = accepted /\ UNCHANGED handlers
<1>1. WorkerRelease(w) \/ WorkerRetry(w) \/ WorkerBusy(w) \/ UNCHANGED vars
  BY DEF Process, RequestFails, SystemBusy, Record, StillProcessing, Answered
<1>2. UNCHANGED handlers
  BY DEF Process, RequestFails, SystemBusy, Record, StillProcessing, Answered
<1>3. accepted' = accepted
  BY <1>1 DEF WorkerRelease, WorkerRetry, WorkerBusy, vars
<1>4. [Next]_vars
  BY <1>1 DEF Next, WorkerStep
<1> QED BY <1>2, <1>3, <1>4

(* The rows after a worker's step.                                         *)
LEMMA ProcessRows ==
  ASSUME NEW w \in Worker, Process(w)
  PROVE  UNCHANGED ledger \/ Update(w)
  BY DEF Process, RequestFails, SystemBusy, Record, StillProcessing, Answered

(* Every step keeps what the pool relies on, and is a step of the pool.    *)
LEMMA HandlersNext ==
  HandlersInv /\ [OrderNext]_ovars => HandlersInv' /\ [Next]_vars
<1> SUFFICES ASSUME HandlersInv, [OrderNext]_ovars
             PROVE  HandlersInv' /\ [Next]_vars
  OBVIOUS
<1>1. ASSUME NEW o \in Order, Calculate(o) PROVE HandlersInv' /\ [Next]_vars
  BY <1>1, HandlersKeep DEF Calculate, vars
<1>2. ASSUME NEW h \in Handler, Upload(h) PROVE HandlersInv' /\ [Next]_vars
  <2>1. PICK o \in Order, u \in User :
          request' = [request EXCEPT ![h] =
                        <<[id |-> o, user |-> u, status |-> "NEW"]>>]
    BY <1>2 DEF Upload
  <2> DEFINE t == [id |-> o, user |-> u, status |-> "NEW"]
  <2>2. t \in Task /\ <<t>> \in Hand /\ <<t>> # <<>> /\ Head(<<t>>) = t
    BY MakeHand DEF Task
  <2>3. hpc' = [hpc EXCEPT ![h] = "insert"] /\ UNCHANGED <<vars, orders>>
    BY <1>2 DEF Upload
  <2>4. request' = [request EXCEPT ![h] = <<t>>] /\ t.status = "NEW"
    BY <2>1
  <2> HIDE DEF t
  <2>5. HandlersInv'
    BY <2>2, <2>3, <2>4 DEF HandlersInv, vars
  <2> QED BY <2>3, <2>5
<1>3. ASSUME NEW h \in Handler, Store(h) PROVE HandlersInv' /\ [Next]_vars
  <2> DEFINE t == Head(request[h])
  <2>1. /\ hpc[h] = "insert" /\ UNCHANGED vars
        /\ \/ /\ Storage!AddOrder(t.id, t.user)
              /\ hpc' = [hpc EXCEPT ![h] = "send"] /\ UNCHANGED request
           \/ /\ Storage!AddOrder(t.id, t.user) \/ UNCHANGED orders
              /\ Respond(h)
    BY <1>3 DEF Store
  <2>2. /\ Storage!AddOrder(t.id, t.user) =>
             t.id \notin DOMAIN orders /\ DOMAIN orders' = DOMAIN orders \cup {t.id}
    BY RowsStay DEF Storage!AddOrder
  <2> HIDE DEF t
  <2>3. CASE Respond(h)
    <3>1. DOMAIN orders \subseteq DOMAIN orders' /\ accepted' = accepted
      BY <2>1, <2>2 DEF vars
    <3>2. <<>> \in Hand
      BY DEF Hand
    <3> QED BY <2>1, <2>3, <3>1, <3>2 DEF Respond, HandlersInv
  <2>4. CASE /\ Storage!AddOrder(t.id, t.user)
             /\ hpc' = [hpc EXCEPT ![h] = "send"] /\ UNCHANGED request
    <3>1. /\ t.id \notin DOMAIN orders /\ DOMAIN orders' = DOMAIN orders \cup {t.id}
          /\ accepted' = accepted
      BY <2>1, <2>2, <2>4 DEF vars
    <3> QED BY <2>1, <2>4, <3>1 DEF HandlersInv, t
  <2> QED BY <2>1, <2>3, <2>4
<1>4. ASSUME NEW h \in Handler, Send(h) PROVE HandlersInv' /\ [Next]_vars
  <2> DEFINE t == Head(request[h])
  <2>1. /\ hpc[h] = "send" /\ Enqueue(t) /\ Respond(h) /\ UNCHANGED orders
    BY <1>4 DEF Send
  <2>2. t \in Task /\ t.status = "NEW" /\ t.id \in DOMAIN orders \ accepted
    BY <2>1, FullHand DEF HandlersInv
  <2>3. accepted' = accepted \cup {t.id} /\ Submit(t)
    BY <2>1, <2>2 DEF Enqueue, Submit
  <2>4. Next
    BY <2>2, <2>3 DEF Next
  <2>5. <<>> \in Hand
    BY DEF Hand
  <2>6. HandlersInv'
    BY <2>1, <2>2, <2>3, <2>5 DEF HandlersInv, Respond
  <2> QED BY <2>4, <2>6
<1>5. ASSUME NEW w \in Worker, Process(w) PROVE HandlersInv' /\ [Next]_vars
  <2>1. DOMAIN orders \subseteq DOMAIN orders'
    BY <1>5, ProcessRows, RowsStay DEF Update
  <2> QED BY <1>5, <2>1, ProcessIsNext, HandlersKeep
<1>6. CASE Pool
  <2>1. Next /\ accepted' = accepted
    BY <1>6, MoveIsNext DEF Pool, PoolMove
  <2>2. CASE UNCHANGED <<hpc, request, accepted, orders>>
    BY <2>1, <2>2, HandlersKeep
  <2>3. CASE /\ hpc' = [h \in Handler |-> "idle"]
             /\ request' = [h \in Handler |-> <<>>] /\ UNCHANGED orders
    BY <2>1, <2>3, HandlersEnd
  <2> QED BY <1>6, <2>1, <2>2, <2>3 DEF Pool, Alongside
<1>7. CASE UNCHANGED ovars
  BY <1>7, HandlersKeep DEF ovars, vars
<1> QED BY <1>1, <1>2, <1>3, <1>4, <1>5, <1>6, <1>7 DEF OrderNext

LEMMA HandlersInvariant == OrderSpec => []HandlersInv
  BY HandlersInit, HandlersNext, PTL DEF OrderSpec

(* The handlers, the workers and the tables together use the pool as it    *)
(* must be used: an order is sent once and as NEW, however often it is     *)
(* uploaded and however many handlers race.  All that is proved of the     *)
(* pool therefore holds of the whole.                                      *)
THEOREM PoolUsedAsRequired == OrderSpec => Spec
<1>1. OrderInit => Init
  BY DEF OrderInit
<1> QED BY <1>1, HandlersInvariant, HandlersNext, PTL DEF OrderSpec, Spec

-----------------------------------------------------------------------------
(* The tasks in the pool: moves of the pool alone make no new task.        *)

Hands(S) == {<<>>} \cup {<<t>> : t \in S}

(* Every task of the pool, the dead part of the stack aside, is in S.      *)
AllIn(S) ==
  /\ taskCh \in Seq(S) /\ workerCh \in Seq(S) /\ Stack \in Seq(S)
  /\ dumped \in Seq(S) /\ dumpFile \in Seq(S)
  /\ rhand \in Hands(S) /\ dhand \in Hands(S)
  /\ \A w \in Worker : whand[w] \in Hands(S)

LEMMA ConcatIn ==
  ASSUME NEW S, NEW s \in Seq(S), NEW h \in Hands(S)
  PROVE  s \o h \in Seq(S)
<1>1. CASE h = <<>>
  BY <1>1
<1>2. ASSUME NEW t \in S, h = <<t>> PROVE s \o h \in Seq(S)
  BY <1>2
<1> QED BY <1>1, <1>2 DEF Hands

LEMMA HeadIn ==
  ASSUME NEW S, NEW s \in Seq(S), s # <<>>
  PROVE  <<Head(s)>> \in Hands(S) /\ Head(s) \in S /\ Tail(s) \in Seq(S)
<1>1. Head(s) \in S /\ Tail(s) \in Seq(S)
  OBVIOUS
<1> QED BY <1>1 DEF Hands

LEMMA LastIn ==
  ASSUME NEW S, NEW s \in Seq(S), s # <<>>
  PROVE  <<Last(s)>> \in Hands(S) /\ Front(s) \in Seq(S)
<1>1. Len(s) \in Nat /\ Len(s) # 0 /\ s \in [1..Len(s) -> S]
  OBVIOUS
<1>2. Last(s) \in S
  BY <1>1 DEF Last
<1>3. Front(s) = [i \in 1..(Len(s) - 1) |-> s[i]]
  BY <1>1 DEF Front
<1> QED BY <1>1, <1>2, <1>3 DEF Hands

LEMMA EmptyIn == ASSUME NEW S PROVE <<>> \in Hands(S) /\ <<>> \in Seq(S)
  BY DEF Hands

LEMMA SendIn ==
  ASSUME NEW S, NEW t \in S, taskCh \in Seq(S), SendOrder(t)
  PROVE  taskCh' \in Seq(S)
<1>1. Append(taskCh, t) \in Seq(S)
  OBVIOUS
<1> QED BY <1>1 DEF SendOrder

LEMMA EndIn ==
  ASSUME NEW S, NEW how, AllIn(S), EndProcess(how)
  PROVE  AllIn(S)'
  BY EmptyIn DEF AllIn, EndProcess, Stack, Dumping

LEMMA MovesStayIn ==
  ASSUME NEW S, AllIn(S), WakeInv, PoolMove
  PROVE  AllIn(S)'
<1> USE EmptyIn
<1>0. TypeOK /\ HandsPassOn /\ Idle /\ AllIn(S)
  BY DEF WakeInv, TypeInv
<1>1. CASE RestoreFail
  BY <1>0, <1>1 DEF RestoreFail, AllIn, Stack, Dumping
<1>2. CASE RestoreErase
  BY <1>0, <1>2 DEF RestoreErase, AllIn, Stack, Dumping
<1>3. CASE RestoreAppend
  <2>1. pendingTasks = <<>> /\ ~Dumping /\ dumped \in Seq(S)
    BY <1>0, <1>3 DEF RestoreAppend, Idle, Running, Dumping, AllIn
  <2>2. pendingTasks' = dumped
    BY <1>3, <2>1 DEF RestoreAppend
  <2> QED BY <1>0, <1>3, <2>1, <2>2 DEF RestoreAppend, AllIn, Stack, Dumping
<1>4. CASE Reader
  <2>1. CASE ReaderReceive
    BY <1>0, <2>1, HeadIn DEF ReaderReceive, AllIn, Stack, Dumping
  <2>2. CASE ReaderStop \/ ReaderNotify
    BY <1>0, <2>2 DEF ReaderStop, ReaderNotify, AllIn, Stack, Dumping
  <2>3. CASE ReaderAppend
    BY <1>0, <2>3, ConcatIn DEF ReaderAppend, AllIn, Stack, Dumping
  <2> QED BY <1>4, <2>1, <2>2, <2>3 DEF Reader
<1>5. CASE Dispatcher
  <2> USE DEF AllIn, Stack, Dumping
  <2>1. CASE DispatchStop \/ DispatchPause \/ DispatchWake \/ DispatchYield
             \/ DispatchCancel \/ DispatchSleepEnd
    BY <1>0, <2>1 DEF DispatchStop, DispatchPause, DispatchWake,
       DispatchYield, DispatchCancel, DispatchSleepEnd
  <2>2. CASE DispatchPop
    BY <1>0, <2>2, LastIn DEF DispatchPop
  <2>3. CASE DispatchSend
    BY <1>0, <2>3, ConcatIn DEF DispatchSend
  <2>4. CASE DispatchPutBack
    BY <1>0, <2>4, ConcatIn DEF DispatchPutBack
  <2>5. CASE DumpSnapshot
    BY <1>0, <2>5 DEF DumpSnapshot
  <2>6. CASE DispatchPanic
    BY <1>0, <2>6, EndIn DEF DispatchPanic
  <2>7. CASE DumpDrain
    <3>1. CASE workerCh # <<>>
      <4>1. Head(workerCh) \in S /\ Tail(workerCh) \in Seq(S)
        BY <1>0, <3>1, HeadIn
      <4>2. Append(dumped, Head(workerCh)) \in Seq(S)
        BY <1>0, <4>1
      <4> QED BY <1>0, <2>7, <3>1, <4>1, <4>2 DEF DumpDrain
    <3>2. CASE workerCh = <<>>
      BY <1>0, <2>7, <3>2 DEF DumpDrain
    <3> QED BY <3>1, <3>2
  <2>8. CASE SaveCreate \/ SaveWrite
    BY <1>0, <2>8 DEF SaveCreate, SaveWrite
  <2> QED BY <1>5, <2>1, <2>2, <2>3, <2>4, <2>5, <2>6, <2>7, <2>8 DEF Dispatcher
<1>6. ASSUME NEW w \in Worker, Queueing(w) PROVE AllIn(S)'
  <2>1. CASE WorkerStop(w) \/ WorkerPause(w)
    BY <1>0, <2>1 DEF WorkerStop, WorkerPause, AllIn, Stack, Dumping
  <2>2. CASE WorkerReceive(w)
    BY <1>0, <2>2, HeadIn DEF WorkerReceive, AllIn, Stack, Dumping, TypeOK
  <2>3. CASE WorkerRequeue(w)
    <3>1. Head(whand[w]) \in S
      BY <1>0, <2>3 DEF WorkerRequeue, HandsPassOn, AllIn, Hands
    <3>2. taskCh' \in Seq(S)
      BY <1>0, <2>3, <3>1, SendIn DEF WorkerRequeue, AllIn
    <3> QED BY <1>0, <2>3, <3>2 DEF WorkerRequeue, AllIn, Stack, Dumping, TypeOK
  <2>4. CASE WorkerPanic(w)
    BY <1>0, <2>4, EndIn DEF WorkerPanic
  <2> QED BY <1>6, <2>1, <2>2, <2>3, <2>4 DEF Queueing
<1>7. CASE Signal \/ CloseLink
  BY <1>0, <1>7 DEF Signal, CloseLink, AllIn, Stack, Dumping
<1>8. CASE Exit \/ Kill
  BY <1>0, <1>8, EndIn DEF Exit, Kill
<1>9. CASE Restart
  BY <1>0, <1>9 DEF Restart, AllIn, Stack, Dumping
<1> QED BY <1>1, <1>2, <1>3, <1>4, <1>5, <1>6, <1>7, <1>8, <1>9 DEF PoolMove

-----------------------------------------------------------------------------
(* The inductive invariant: rows, tasks and answers.                       *)

Matches(t) ==
  /\ t.id \in DOMAIN orders
  /\ orders[t.id].user = t.user /\ orders[t.id].status = t.status

MatchInv == \A p \in Place : \A i \in DOMAIN H[p] : Matches(H[p][i])

(* A row is not ahead of the accrual system; NEW says nothing of it.       *)
RowInv ==
  /\ DOMAIN orders \subseteq Order
  /\ credits \in [Order -> Nat]
  /\ calc \in [Order -> Calculation]
  /\ \A o \in DOMAIN orders :
       /\ orders[o].status \in Storage!Status
       /\ orders[o].status # "NEW" =>
            Stage(orders[o].status) <= Stage(calc[o].status)

(* What a handler is about to send agrees with the row that it inserted.   *)
SendInv == \A h \in Handler : hpc[h] = "send" => Matches(Head(request[h]))

(* An answer is not behind the row that it is going to change.             *)
AnswerInv ==
  /\ answer \in [Worker -> Calculation \cup {NoAnswer}]
  /\ \A w \in Worker : answer[w] # NoAnswer =>
       /\ Running /\ wpc[w] = "process" /\ answer[w].status # "absent"
       /\ LET o == Head(whand[w]).id IN
            /\ Stage(answer[w].status) >= Stage(orders[o].status)
            /\ Stage(answer[w].status) <= Stage(calc[o].status)

OrderInv ==
  HandlersInv /\ CopyInv /\ MatchInv /\ RowInv /\ SendInv /\ AnswerInv
    /\ CreditedAsListed

LEMMA MatchIsProperty == MatchInv => TaskMatchesRow
<1>1. \A p \in Place : H[p] = Held(p)
  BY DEF H
<1> QED BY <1>1 DEF MatchInv, Matches, TaskMatchesRow

(* The stages that the proofs compare.                                     *)
LEMMA Stages ==
  /\ Stage("absent") = 0 /\ Stage("NEW") = 1 /\ Stage("REGISTERED") = 1
  /\ Stage("PROCESSING") = 2 /\ Stage("INVALID") = 3 /\ Stage("PROCESSED") = 3
  BY DEF Stage

LEMMA CalculationStages ==
  ASSUME NEW c \in Calculation
  PROVE  /\ Stage(c.status) \in 0..3
         /\ c.status \in {"absent", "REGISTERED", "PROCESSING", "INVALID", "PROCESSED"}
         /\ c.status # "absent" => Stage(c.status) >= 1
  BY Stages DEF Calculation

LEMMA RowStages ==
  ASSUME NEW s \in Storage!Status
  PROVE  Stage(s) \in 1..3 /\ (s \in Storage!Final <=> Stage(s) = 3)
  BY Stages DEF Storage!Status, Storage!Final

LEMMA OrderInitInv == OrderInit => OrderInv
<1> SUFFICES ASSUME OrderInit PROVE OrderInv
  OBVIOUS
<1>1. HandlersInv /\ CopyInv
  BY HandlersInit, CopyInit DEF OrderInit
<1>2. \A p \in Place : H[p] = <<>>
  BY Values DEF OrderInit, Init, Stack, Place, Shared
<1>3. MatchInv
  BY <1>2 DEF MatchInv
<1>4. DOMAIN orders = {} /\ credits = [o \in Order |-> 0]
  BY DEF OrderInit, Storage!LedgerInit
<1>5. RowInv
  <2>1. [status |-> Begins, points |-> 0] \in Calculation
    BY BeginsAssumption DEF Calculation
  <2>2. calc \in [Order -> Calculation]
    BY <2>1 DEF OrderInit
  <2> QED BY <1>4, <2>2 DEF RowInv
<1>6. SendInv /\ AnswerInv
  BY DEF OrderInit, SendInv, AnswerInv
<1>7. CreditedAsListed
  BY <1>4 DEF CreditedAsListed
<1> QED BY <1>1, <1>3, <1>5, <1>6, <1>7 DEF OrderInv

(* The task of a worker is the only one of its order, and its row is not   *)
(* final.                                                                  *)
LEMMA WorkersTask ==
  ASSUME OrderInv, NEW w \in Worker, wpc[w] = "process"
  PROVE  LET t == Head(whand[w]) IN
           /\ t \in Task /\ whand[w] = <<t>> /\ Matches(t)
           /\ t.id \in Order /\ t.id \in accepted
           /\ orders[t.id].status \in {"NEW", "PROCESSING"}
           /\ \A p \in Place \ {w} : \A i \in DOMAIN H[p] : H[p][i].id # t.id
<1> DEFINE t == Head(whand[w])
<1>1. CopyFacts
  BY CopyFactsHold DEF OrderInv
<1>2. whand[w] # <<>> /\ whand[w] \in Hand
  BY <1>1 DEF CopyFacts, HandsPassOn, TypeOK
<1>3. t \in Task /\ whand[w] = <<t>>
  BY <1>2, FullHand
<1>4. w \in Place /\ H[w] = whand[w]
  BY InPlace, Values
<1>5. H[w] = <<t>> /\ Ids(H[w]) = {t.id}
  BY <1>3, <1>4, OneId
<1> HIDE DEF t
<1>6. Matches(t)
  BY <1>4, <1>5 DEF OrderInv, MatchInv
<1>7. t.id \in accepted /\ t.id \in Order
  BY <1>1, <1>3, <1>4, <1>5 DEF CopyFacts, Live, Task
<1>8. orders[t.id].status \in {"NEW", "PROCESSING"}
  BY <1>3, <1>6 DEF Matches, Task
<1>9. ASSUME NEW p \in Place \ {w}, NEW i \in DOMAIN H[p] PROVE H[p][i].id # t.id
  <2>1. Ids(H[p]) \cap Ids(H[w]) = {}
    BY <1>1, <1>4 DEF CopyFacts
  <2>2. H[p][i].id \in Ids(H[p])
    BY DEF Ids
  <2> QED BY <1>5, <2>1, <2>2
<1> QED BY <1>3, <1>6, <1>7, <1>8, <1>9 DEF t

(* Two workers have different orders.                                      *)
LEMMA OtherWorker ==
  ASSUME OrderInv, NEW v \in Worker, NEW w \in Worker, v # w,
         wpc[v] = "process", wpc[w] = "process"
  PROVE  Head(whand[v]).id # Head(whand[w]).id
<1>1. whand[v] = <<Head(whand[v])>>
  BY WorkersTask
<1>2. v \in Place \ {w} /\ H[v] = whand[v]
  BY InPlace, Values
<1>3. 1 \in DOMAIN H[v] /\ H[v][1] = Head(whand[v])
  BY <1>1, <1>2
<1>4. \A p \in Place \ {w} : \A i \in DOMAIN H[p] : H[p][i].id # Head(whand[w]).id
  BY WorkersTask
<1> QED BY <1>2, <1>3, <1>4

(* What db.UpdateOrder does to the row of the worker's task.               *)
LEMMA UpdatedRow ==
  ASSUME OrderInv, NEW w \in Worker, wpc[w] = "process", Update(w)
  PROVE  LET o == Head(whand[w]).id IN
           /\ DOMAIN orders' = DOMAIN orders
           /\ \A x \in DOMAIN orders \ {o} : orders'[x] = orders[x]
           /\ orders'[o].user = orders[o].user /\ orders'[o].status = Target(w)
           /\ orders'[o].accrual = answer[w].points
           /\ credits' = IF Storage!Pays(Target(w), answer[w].points)
                           THEN [credits EXCEPT ![o] = @ + 1] ELSE credits
<1>1. Head(whand[w]).id \in DOMAIN orders
  BY WorkersTask DEF Matches
<1> QED BY <1>1 DEF Update, Storage!UpdateOrder, Storage!Written, Storage!Put

-----------------------------------------------------------------------------
(* The steps keep the invariant.                                           *)

(* What is left to show of a step.                                         *)
OrderGoal == MatchInv' /\ RowInv' /\ SendInv' /\ AnswerInv' /\ CreditedAsListed'

(* A step that keeps the rows.                                             *)
LEMMA RowsKept ==
  ASSUME OrderInv, UNCHANGED <<orders, credits, calc>>
  PROVE  RowInv' /\ CreditedAsListed' /\ \A t : Matches(t) <=> Matches(t)'
  BY DEF OrderInv, RowInv, CreditedAsListed, Matches

LEMMA CalculateInv ==
  ASSUME OrderInv, NEW o \in Order, Calculate(o) PROVE OrderGoal
<1>1. UNCHANGED <<vars, orders, credits, hpc, request, answer>>
  BY DEF Calculate
<1>2. PICK c \in Calculation : /\ Stage(c.status) > Stage(calc[o].status)
                               /\ calc' = [calc EXCEPT ![o] = c]
  BY DEF Calculate
<1>3. calc \in [Order -> Calculation] /\ calc' \in [Order -> Calculation]
  BY <1>2 DEF OrderInv, RowInv
<1>4. \A x \in Order : /\ Stage(calc'[x].status) >= Stage(calc[x].status)
                       /\ Stage(calc[x].status) \in 0..3
                       /\ Stage(calc'[x].status) \in 0..3
  BY <1>2, <1>3, CalculationStages
<1>5. H' = H
  BY <1>1, SamePlaces DEF vars, Dumping
<1>6. MatchInv'
  BY <1>1, <1>5 DEF OrderInv, MatchInv, Matches
<1>7. RowInv'
  <2>1. ASSUME NEW x \in DOMAIN orders, orders[x].status # "NEW"
        PROVE  Stage(orders[x].status) <= Stage(calc'[x].status)
    <3>1. Stage(orders[x].status) <= Stage(calc[x].status)
      BY <2>1 DEF OrderInv, RowInv
    <3>2. x \in Order /\ Stage(orders[x].status) \in 1..3
      BY RowStages DEF OrderInv, RowInv
    <3> QED BY <1>4, <3>1, <3>2
  <2> QED BY <1>1, <1>3, <2>1 DEF OrderInv, RowInv
<1>8. SendInv'
  BY <1>1 DEF OrderInv, SendInv, Matches
<1>9. AnswerInv'
  <2>1. ASSUME NEW w \in Worker, answer[w] # NoAnswer
        PROVE  LET x == Head(whand[w]).id IN
                 Stage(answer[w].status) <= Stage(calc'[x].status)
    <3> DEFINE x == Head(whand[w]).id
    <3>1. wpc[w] = "process" /\ Stage(answer[w].status) <= Stage(calc[x].status)
      BY <2>1 DEF OrderInv, AnswerInv
    <3>2. x \in Order
      BY <3>1, WorkersTask
    <3>3. Stage(answer[w].status) \in 0..3
      BY <2>1, CalculationStages DEF OrderInv, AnswerInv
    <3> QED BY <1>4, <3>1, <3>2, <3>3
  <2> QED BY <1>1, <2>1 DEF OrderInv, AnswerInv, vars, Running
<1>10. CreditedAsListed'
  BY <1>1 DEF OrderInv, CreditedAsListed
<1> QED BY <1>6, <1>7, <1>8, <1>9, <1>10 DEF OrderGoal

LEMMA UploadInv ==
  ASSUME OrderInv, NEW h \in Handler, Upload(h) PROVE OrderGoal
<1>1. UNCHANGED <<vars, orders, credits, calc, answer>>
      /\ hpc' = [hpc EXCEPT ![h] = "insert"]
      /\ \A g \in Handler \ {h} : request'[g] = request[g]
  BY DEF Upload, OrderInv, HandlersInv
<1>2. H' = H
  BY <1>1, SamePlaces DEF vars, Dumping
<1>3. MatchInv' /\ AnswerInv'
  BY <1>1, <1>2 DEF OrderInv, MatchInv, Matches, AnswerInv, vars, Running
<1>4. SendInv'
  BY <1>1 DEF OrderInv, HandlersInv, SendInv, Matches
<1> QED BY <1>1, <1>3, <1>4, RowsKept DEF OrderGoal

(* A row is inserted: no task and no other handler has its order.          *)
LEMMA StoreInv ==
  ASSUME OrderInv, NEW h \in Handler, Store(h) PROVE OrderGoal
<1> DEFINE t == Head(request[h])
<1>1. UNCHANGED <<vars, calc, answer>> /\ hpc[h] = "insert"
  BY DEF Store
<1>2. H' = H
  BY <1>1, SamePlaces DEF vars, Dumping
<1>3. CASE UNCHANGED ledger /\ Respond(h)
  <2>1. MatchInv' /\ AnswerInv'
    BY <1>1, <1>2, <1>3 DEF OrderInv, MatchInv, Matches, AnswerInv, vars, Running
  <2>2. SendInv'
    BY <1>3 DEF OrderInv, HandlersInv, SendInv, Matches, Respond
  <2> QED BY <1>1, <1>3, <2>1, <2>2, RowsKept DEF OrderGoal
<1>4. CASE /\ Storage!AddOrder(t.id, t.user)
           /\ \/ hpc' = [hpc EXCEPT ![h] = "send"] /\ UNCHANGED request
              \/ Respond(h)
  <2>0. t \in Task /\ t.status = "NEW"
    BY <1>1, FullHand DEF OrderInv, HandlersInv
  <2>1. /\ t.id \notin DOMAIN orders /\ t.id \in Order
        /\ DOMAIN orders' = DOMAIN orders \cup {t.id}
        /\ \A o \in DOMAIN orders : orders'[o] = orders[o]
        /\ orders'[t.id] = [user |-> t.user, status |-> "NEW", accrual |-> 0]
        /\ credits' = credits
    BY <1>4, <2>0 DEF Storage!AddOrder, Storage!Inserted, Storage!Put, Task
  <2>2. \A x : Matches(x) => Matches(x)'
    BY <2>1 DEF Matches
  <2>3. \A x : x = t => Matches(x)'
    BY <2>0, <2>1 DEF Matches
  <2> HIDE DEF t
  <2>4. MatchInv'
    BY <1>2, <2>2 DEF OrderInv, MatchInv
  <2>5. SendInv'
    <3>1. CASE hpc' = [hpc EXCEPT ![h] = "send"] /\ UNCHANGED request
      BY <2>2, <2>3, <3>1 DEF OrderInv, HandlersInv, SendInv, t
    <3>2. CASE Respond(h)
      BY <2>2, <3>2 DEF OrderInv, HandlersInv, SendInv, Respond
    <3> QED BY <1>4, <3>1, <3>2
  <2>6. AnswerInv'
    <3>1. ASSUME NEW w \in Worker, answer[w] # NoAnswer
          PROVE  orders'[Head(whand[w]).id] = orders[Head(whand[w]).id]
      BY <2>1, <3>1, WorkersTask DEF OrderInv, AnswerInv, Matches
    <3> QED BY <1>1, <3>1 DEF OrderInv, AnswerInv, vars, Running
  <2>7. RowInv'
    BY <1>1, <2>1 DEF OrderInv, RowInv, Storage!Status
  <2>8. CreditedAsListed'
    BY <2>1 DEF OrderInv, CreditedAsListed, Storage!Pays
  <2> QED BY <2>4, <2>5, <2>6, <2>7, <2>8 DEF OrderGoal
<1> QED BY <1>3, <1>4 DEF Store

(* The new task agrees with the row that its handler has inserted.         *)
LEMMA SendingInv ==
  ASSUME OrderInv, NEW h \in Handler, Send(h) PROVE OrderGoal
<1> DEFINE t == Head(request[h])
<1>1. /\ hpc[h] = "send" /\ Enqueue(t) /\ Respond(h)
      /\ UNCHANGED <<orders, credits, calc, answer>>
  BY DEF Send
<1>2. t \in Task /\ Matches(t)
  BY <1>1, FullHand DEF OrderInv, HandlersInv, SendInv
<1> HIDE DEF t
<1>3. TypeOK
  BY CopyFactsHold DEF OrderInv, CopyFacts
<1>4. \A p \in Place \ {"taskCh"} : H'[p] = H[p]
  BY <1>1, Values, ValuesNext DEF Enqueue, Place, Shared, Stack, Dumping
<1>5. taskCh' = taskCh \/ taskCh' = Append(taskCh, t)
  BY <1>1 DEF Enqueue, SendOrder
<1>6. \A x : Matches(x) <=> Matches(x)'
  BY <1>1 DEF Matches
<1>7. ASSUME NEW i \in DOMAIN taskCh' PROVE Matches(taskCh'[i])
  <2>1. ASSUME NEW j \in DOMAIN taskCh PROVE Matches(taskCh[j])
    BY Values DEF OrderInv, MatchInv, Place, Shared
  <2>2. CASE taskCh' = taskCh
    BY <1>7, <2>1, <2>2
  <2>3. CASE taskCh' = Append(taskCh, t)
    <3>1. (i \in DOMAIN taskCh /\ taskCh'[i] = taskCh[i]) \/ taskCh'[i] = t
      BY <1>2, <1>3, <1>7, <2>3 DEF TypeOK
    <3> QED BY <1>2, <2>1, <3>1
  <2> QED BY <1>5, <2>2, <2>3
<1>8. MatchInv'
  <2> SUFFICES ASSUME NEW p \in Place, NEW i \in DOMAIN H'[p] PROVE Matches(H'[p][i])
    BY <1>6 DEF MatchInv
  <2>1. CASE p = "taskCh"
    BY <1>7, <2>1, ValuesNext
  <2>2. CASE p # "taskCh"
    BY <1>4, <2>2 DEF OrderInv, MatchInv
  <2> QED BY <2>1, <2>2
<1>9. SendInv'
  BY <1>1, <1>6 DEF OrderInv, HandlersInv, SendInv, Respond
<1>10. AnswerInv'
  BY <1>1 DEF OrderInv, AnswerInv, Enqueue, Running
<1> QED BY <1>1, <1>8, <1>9, <1>10, RowsKept DEF OrderGoal

(* A worker's step touches its own place only.                             *)
LEMMA WorkerPlaces ==
  ASSUME OrderInv, NEW w \in Worker,
         WorkerRelease(w) \/ WorkerRetry(w) \/ WorkerBusy(w)
  PROVE  /\ \A p \in Place \ {w} : H'[p] = H[p]
         /\ H'[w] = whand'[w] /\ H[w] = whand[w]
         /\ \A v \in Worker \ {w} : whand'[v] = whand[v] /\ wpc'[v] = wpc[v]
         /\ Running /\ Running' /\ wpc[w] = "process"
<1>1. TypeOK
  BY CopyFactsHold DEF OrderInv, CopyFacts
<1>2. w \in Place /\ w \notin Shared
  BY InPlace, WorkerAssumption
<1> QED BY <1>1, <1>2, Values, ValuesNext DEF WorkerRelease, WorkerRetry,
   WorkerBusy, Place, Shared, Stack, Dumping, TypeOK, Running

(* An end of the processing without a write.                               *)
LEMMA ReleaseInv ==
  ASSUME OrderInv, NEW w \in Worker, WorkerRelease(w), answer'[w] = NoAnswer,
         answer' = [answer EXCEPT ![w] = NoAnswer],
         UNCHANGED <<orders, credits, calc, hpc, request>>
  PROVE  OrderGoal
<1>1. H'[w] = <<>>
  <2>1. whand'[w] = <<>>
    BY CopyFactsHold DEF WorkerRelease, OrderInv, CopyFacts, TypeOK
  <2> QED BY <2>1, WorkerPlaces
<1>2. MatchInv'
  BY <1>1, WorkerPlaces DEF OrderInv, MatchInv, Matches
<1>3. SendInv'
  BY DEF OrderInv, SendInv, Matches
<1>4. AnswerInv'
  BY WorkerPlaces DEF OrderInv, AnswerInv
<1> QED BY <1>2, <1>3, <1>4, RowsKept DEF OrderGoal

LEMMA BusyInv ==
  ASSUME OrderInv, NEW w \in Worker, SystemBusy(w) PROVE OrderGoal
<1>1. /\ WorkerBusy(w) /\ answer[w] = NoAnswer /\ whand' = whand
      /\ UNCHANGED <<orders, credits, calc, hpc, request, answer>>
  BY DEF SystemBusy, Asking, WorkerBusy
<1>2. \A p \in Place : H'[p] = H[p]
  BY <1>1, WorkerPlaces
<1>3. MatchInv'
  BY <1>1, <1>2 DEF OrderInv, MatchInv, Matches
<1>4. SendInv'
  BY <1>1 DEF OrderInv, SendInv, Matches
<1>5. AnswerInv'
  BY <1>1, WorkerPlaces DEF OrderInv, AnswerInv
<1> QED BY <1>1, <1>3, <1>4, <1>5, RowsKept DEF OrderGoal

(* The shortcut for a known PROCESSING leaves the task as it was.          *)
LEMMA StillInv ==
  ASSUME OrderInv, NEW w \in Worker, NEW o \in Order, StillProcessing(w, o)
  PROVE  OrderGoal
<1>1. /\ WorkerRetry(w) /\ answer[w] = NoAnswer /\ Head(whand[w]).status = "PROCESSING"
      /\ UNCHANGED <<orders, credits, calc, hpc, request, answer>>
      /\ wpc[w] = "process"
  BY DEF StillProcessing, Asking, Known
<1>2. whand[w] = <<Head(whand[w])>> /\ Head(whand[w]) \in Task
  BY <1>1, WorkersTask
<1>3. [Head(whand[w]) EXCEPT !.status = "PROCESSING"] = Head(whand[w])
  BY <1>1, <1>2 DEF Task
<1>4. whand'[w] = whand[w]
  BY <1>1, <1>2, <1>3, CopyFactsHold DEF WorkerRetry, OrderInv, CopyFacts, TypeOK
<1>5. \A p \in Place : H'[p] = H[p]
  BY <1>1, <1>4, WorkerPlaces
<1>6. MatchInv'
  BY <1>1, <1>5 DEF OrderInv, MatchInv, Matches
<1>7. SendInv'
  BY <1>1 DEF OrderInv, SendInv, Matches
<1>8. AnswerInv'
  BY <1>1, WorkerPlaces DEF OrderInv, AnswerInv
<1> QED BY <1>1, <1>6, <1>7, <1>8, RowsKept DEF OrderGoal

(* The answer is the present state of the calculation.                     *)
LEMMA AnsweredInv ==
  ASSUME OrderInv, NEW w \in Worker, NEW o \in Order, Answered(w, o)
  PROVE  OrderGoal
<1>1. /\ UNCHANGED <<vars, orders, credits, calc, hpc, request>>
      /\ Running /\ wpc[w] = "process" /\ o = Head(whand[w]).id
      /\ calc[o].status # "absent" /\ answer' = [answer EXCEPT ![w] = calc[o]]
  BY DEF Answered, Asking
<1>2. H' = H
  BY <1>1, SamePlaces DEF vars, Dumping
<1>3. calc[o] \in Calculation
  BY DEF OrderInv, RowInv
<1>4. o \in DOMAIN orders /\ orders[o].status \in {"NEW", "PROCESSING"}
  BY <1>1, WorkersTask DEF Matches
<1>5. Stage(calc[o].status) >= Stage(orders[o].status)
  <2>1. CASE orders[o].status = "NEW"
    BY <1>1, <1>3, <2>1, CalculationStages, Stages
  <2>2. CASE orders[o].status # "NEW"
    <3>1. Stage(orders[o].status) <= Stage(calc[o].status)
      BY <1>4, <2>2 DEF OrderInv, RowInv
    <3>2. Stage(orders[o].status) \in Int /\ Stage(calc[o].status) \in Int
      BY <1>3, <1>4, CalculationStages, Stages
    <3> QED BY <3>1, <3>2
  <2> QED BY <2>1, <2>2
<1>6. Stage(calc[o].status) <= Stage(calc[o].status)
  BY <1>3, CalculationStages
<1>7. AnswerInv'
  BY <1>1, <1>3, <1>5, <1>6 DEF OrderInv, AnswerInv, vars, Running
<1>8. MatchInv'
  BY <1>1, <1>2 DEF OrderInv, MatchInv, Matches
<1>9. SendInv'
  BY <1>1 DEF OrderInv, SendInv, Matches
<1> QED BY <1>1, <1>7, <1>8, <1>9, RowsKept DEF OrderGoal

(* What a worker with an answer may rely on.                               *)
LEMMA AnswerFacts ==
  ASSUME OrderInv, NEW w \in Worker, answer[w] # NoAnswer
  PROVE  LET o == Head(whand[w]).id IN
           /\ wpc[w] = "process" /\ o \in DOMAIN orders /\ o \in Order
           /\ answer[w] \in Calculation /\ Target(w) \in Storage!Status
           /\ Stage(Target(w)) = Stage(answer[w].status)
           /\ Stage(Target(w)) >= Stage(orders[o].status)
           /\ Stage(Target(w)) <= Stage(calc[o].status)
<1>1. /\ wpc[w] = "process" /\ answer[w] \in Calculation
      /\ answer[w].status # "absent"
      /\ Stage(answer[w].status) >= Stage(orders[Head(whand[w]).id].status)
      /\ Stage(answer[w].status) <= Stage(calc[Head(whand[w]).id].status)
  BY DEF OrderInv, AnswerInv
<1>2. /\ Head(whand[w]).id \in DOMAIN orders /\ Head(whand[w]).id \in Order
  BY <1>1, WorkersTask DEF Matches
<1>3. Target(w) \in Storage!Status /\ Stage(Target(w)) = Stage(answer[w].status)
  BY <1>1, CalculationStages, Stages DEF Target, Storage!Status, Storage!Final
<1> QED BY <1>1, <1>2, <1>3

(* The write: nobody else has a task of this order, an answer about it or  *)
(* is about to send it, and it was not final, so not yet credited.         *)
LEMMA WriteInv ==
  ASSUME OrderInv, NEW w \in Worker, answer[w] # NoAnswer, Update(w),
         WorkerRelease(w) \/ (Target(w) = "PROCESSING" /\ WorkerRetry(w)),
         answer' = [answer EXCEPT ![w] = NoAnswer],
         UNCHANGED <<calc, hpc, request>>
  PROVE  OrderGoal
<1> DEFINE t == Head(whand[w])
           o == t.id
<1>1. /\ wpc[w] = "process" /\ o \in DOMAIN orders /\ o \in Order
      /\ answer[w] \in Calculation /\ Target(w) \in Storage!Status
      /\ Stage(Target(w)) <= Stage(calc[o].status)
  BY AnswerFacts
<1>2. /\ t \in Task /\ whand[w] = <<t>> /\ Matches(t) /\ o \in accepted
      /\ orders[o].status \in {"NEW", "PROCESSING"}
      /\ \A p \in Place \ {w} : \A i \in DOMAIN H[p] : H[p][i].id # o
  BY <1>1, WorkersTask
<1>3. /\ DOMAIN orders' = DOMAIN orders
      /\ \A x \in DOMAIN orders \ {o} : orders'[x] = orders[x]
      /\ orders'[o].user = orders[o].user /\ orders'[o].status = Target(w)
      /\ orders'[o].accrual = answer[w].points
      /\ credits' = IF Storage!Pays(Target(w), answer[w].points)
                      THEN [credits EXCEPT ![o] = @ + 1] ELSE credits
  BY <1>1, UpdatedRow
<1>4. \A x : Matches(x) /\ x.id # o => Matches(x)'
  BY <1>3 DEF Matches
<1>5. \/ H'[w] = <<>>
      \/ /\ H'[w] = <<[t EXCEPT !.status = "PROCESSING"]>>
         /\ Target(w) = "PROCESSING"
  <2>1. whand \in [Worker -> Hand]
    BY CopyFactsHold DEF OrderInv, CopyFacts, TypeOK
  <2>2. CASE WorkerRelease(w)
    <3>1. whand'[w] = <<>>
      BY <2>1, <2>2 DEF WorkerRelease
    <3> QED BY <2>2, <3>1, WorkerPlaces
  <2>3. CASE Target(w) = "PROCESSING" /\ WorkerRetry(w)
    <3>1. whand'[w] = <<[Head(whand[w]) EXCEPT !.status = "PROCESSING"]>>
      BY <2>1, <2>3 DEF WorkerRetry
    <3>2. H'[w] = whand'[w]
      BY <2>3, WorkerPlaces
    <3> QED BY <2>3, <3>1, <3>2
  <2> QED BY <2>2, <2>3
<1> HIDE DEF t
<1>6. MatchInv'
  <2> SUFFICES ASSUME NEW p \in Place, NEW i \in DOMAIN H'[p],
                      NEW x, x = H'[p][i]
               PROVE  Matches(x)'
    BY DEF MatchInv
  <2>1. CASE p # w
    <3>1. H'[p] = H[p]
      BY <2>1, WorkerPlaces
    <3>2. Matches(H[p][i])
      BY <3>1 DEF OrderInv, MatchInv
    <3> QED BY <1>2, <1>4, <2>1, <3>1, <3>2
  <2>2. CASE p = w
    <3>1. H'[p] = <<[t EXCEPT !.status = "PROCESSING"]>> /\ Target(w) = "PROCESSING"
      BY <1>5, <2>2
    <3>2. x = [t EXCEPT !.status = "PROCESSING"]
      BY <3>1
    <3>3. x.id = o /\ x.user = t.user /\ x.status = "PROCESSING"
      BY <1>2, <3>2 DEF Task
    <3> QED BY <1>1, <1>2, <1>3, <3>1, <3>3 DEF Matches
  <2> QED BY <2>1, <2>2
<1>7. RowInv'
  <2>1. credits' \in [Order -> Nat]
    BY <1>1, <1>3 DEF OrderInv, RowInv
  <2>2. \A x \in DOMAIN orders' :
          /\ orders'[x].status \in Storage!Status
          /\ orders'[x].status # "NEW" =>
               Stage(orders'[x].status) <= Stage(calc'[x].status)
    BY <1>1, <1>3 DEF OrderInv, RowInv
  <2> QED BY <1>3, <2>1, <2>2 DEF OrderInv, RowInv
<1>8. SendInv'
  BY <1>2, <1>4 DEF OrderInv, HandlersInv, SendInv
<1>9. AnswerInv'
  <2>1. ASSUME NEW v \in Worker, answer'[v] # NoAnswer
        PROVE  /\ v # w /\ answer[v] = answer'[v]
               /\ wpc[v] = "process" /\ wpc'[v] = wpc[v] /\ whand'[v] = whand[v]
               /\ orders'[Head(whand[v]).id] = orders[Head(whand[v]).id]
    <3>1. v # w /\ answer[v] = answer'[v] /\ answer[v] # NoAnswer
      BY <2>1 DEF OrderInv, AnswerInv
    <3>2. wpc[v] = "process" /\ Head(whand[v]).id \in DOMAIN orders
      BY <3>1, AnswerFacts
    <3>3. Head(whand[v]).id # o
      BY <1>1, <3>1, <3>2, OtherWorker DEF t
    <3> QED BY <1>3, <3>1, <3>2, <3>3, WorkerPlaces
  <2>2. answer' \in [Worker -> Calculation \cup {NoAnswer}] /\ Running'
    BY WorkerPlaces DEF OrderInv, AnswerInv
  <2> QED BY <2>1, <2>2 DEF OrderInv, AnswerInv
<1>10. CreditedAsListed'
  <2>1. credits[o] = 0 /\ credits \in [Order -> Nat]
    BY <1>1, <1>2 DEF OrderInv, CreditedAsListed, Storage!Pays, RowInv
  <2>2. ASSUME NEW x \in Order, x # o
        PROVE  /\ credits'[x] = credits[x]
               /\ x \in DOMAIN orders' <=> x \in DOMAIN orders
               /\ x \in DOMAIN orders => orders'[x] = orders[x]
    BY <1>1, <1>3, <2>1, <2>2
  <2>3. credits'[o] = IF Storage!Pays(orders'[o].status, orders'[o].accrual)
                        THEN 1 ELSE 0
    BY <1>1, <1>3, <2>1
  <2> QED BY <1>1, <1>3, <2>2, <2>3 DEF OrderInv, CreditedAsListed
<1> QED BY <1>6, <1>7, <1>8, <1>9, <1>10 DEF OrderGoal

LEMMA RecordInv ==
  ASSUME OrderInv, NEW w \in Worker, Record(w) PROVE OrderGoal
<1>1. /\ answer[w] # NoAnswer /\ answer' = [answer EXCEPT ![w] = NoAnswer]
      /\ UNCHANGED <<calc, hpc, request>>
      /\ \/ Update(w) /\ Target(w) = "PROCESSING" /\ WorkerRetry(w)
         \/ Update(w) /\ WorkerRelease(w)
         \/ WorkerRelease(w) /\ UNCHANGED <<orders, credits>>
  BY DEF Record
<1>2. CASE Update(w)
  BY <1>1, <1>2, WriteInv
<1>3. CASE WorkerRelease(w) /\ UNCHANGED <<orders, credits>>
  <2>1. answer'[w] = NoAnswer
    BY <1>1 DEF OrderInv, AnswerInv
  <2> QED BY <1>1, <1>3, <2>1, ReleaseInv
<1> QED BY <1>1, <1>2, <1>3

LEMMA ProcessInv ==
  ASSUME OrderInv, NEW w \in Worker, Process(w) PROVE OrderGoal
<1>1. CASE RequestFails(w)
  <2>1. /\ WorkerRelease(w) /\ answer' = answer /\ answer[w] = NoAnswer
        /\ UNCHANGED <<orders, credits, calc, hpc, request>>
    BY <1>1 DEF RequestFails, Asking
  <2>2. answer' = [answer EXCEPT ![w] = NoAnswer]
    BY <2>1 DEF OrderInv, AnswerInv
  <2> QED BY <2>1, <2>2, ReleaseInv
<1>2. CASE SystemBusy(w)
  BY <1>2, BusyInv
<1>3. CASE Record(w)
  BY <1>3, RecordInv
<1>4. ASSUME NEW o \in Order, StillProcessing(w, o) \/ Answered(w, o)
      PROVE  OrderGoal
  BY <1>4, StillInv, AnsweredInv
<1> QED BY <1>1, <1>2, <1>3, <1>4 DEF Process

-----------------------------------------------------------------------------
(* The moves of the pool alone keep the invariant.                         *)

LEMMA HandOf ==
  ASSUME NEW S, NEW h \in Hand, \A i \in DOMAIN h : h[i] \in S
  PROVE  h \in Hands(S)
<1>1. CASE h = <<>>
  BY <1>1, EmptyIn
<1>2. ASSUME NEW t \in Task, h = <<t>> PROVE h \in Hands(S)
  <2>1. 1 \in DOMAIN h /\ h[1] = t
    BY <1>2
  <2> QED BY <1>2, <2>1 DEF Hands
<1> QED BY <1>1, <1>2 DEF Hand

LEMMA PlacesIn ==
  ASSUME TypeOK, NEW S, \A p \in Place : \A i \in DOMAIN H[p] : H[p][i] \in S
  PROVE  AllIn(S)
<1>1. /\ \A i \in DOMAIN taskCh : taskCh[i] \in S
      /\ \A i \in DOMAIN workerCh : workerCh[i] \in S
      /\ \A i \in DOMAIN Stack : Stack[i] \in S
      /\ \A i \in DOMAIN dumped : dumped[i] \in S
      /\ \A i \in DOMAIN dumpFile : dumpFile[i] \in S
      /\ \A i \in DOMAIN rhand : rhand[i] \in S
      /\ \A i \in DOMAIN dhand : dhand[i] \in S
      /\ \A w \in Worker : \A i \in DOMAIN whand[w] : whand[w][i] \in S
  BY Values DEF Place, Shared
<1>2. Stack \in Seq(Task)
  BY DEF Stack, TypeOK
<1>3. /\ taskCh \in Seq(S) /\ workerCh \in Seq(S) /\ Stack \in Seq(S)
      /\ dumped \in Seq(S) /\ dumpFile \in Seq(S)
  <2>1. /\ taskCh \in Seq(Task) /\ workerCh \in Seq(Task)
        /\ dumped \in Seq(Task) /\ dumpFile \in Seq(Task)
    BY DEF TypeOK
  <2>2. ASSUME NEW s \in Seq(Task), \A i \in DOMAIN s : s[i] \in S
        PROVE  s \in Seq(S)
    <3>1. s \in [1..Len(s) -> S] /\ Len(s) \in Nat
      BY <2>2
    <3> QED BY <3>1
  <2> QED BY <1>1, <1>2, <2>1, <2>2
<1>4. rhand \in Hands(S) /\ dhand \in Hands(S)
  BY <1>1, HandOf DEF TypeOK
<1>5. ASSUME NEW w \in Worker PROVE whand[w] \in Hands(S)
  <2>1. whand[w] \in Hand
    BY DEF TypeOK
  <2> QED BY <1>1, <2>1, HandOf
<1> QED BY <1>3, <1>4, <1>5 DEF AllIn

LEMMA InPlacesNext ==
  ASSUME NEW S, AllIn(S)', NEW p \in Place, NEW i \in DOMAIN H'[p]
  PROVE  H'[p][i] \in S
<1>1. H'[p] \in Seq(S) \/ H'[p] \in Hands(S)
  BY ValuesNext DEF AllIn, Place, Shared
<1>2. CASE H'[p] \in Seq(S)
  BY <1>2
<1>3. CASE H'[p] \in Hands(S)
  <2>1. CASE H'[p] = <<>>
    BY <2>1
  <2>2. ASSUME NEW t \in S, H'[p] = <<t>> PROVE H'[p][i] \in S
    BY <2>2
  <2> QED BY <1>3, <2>1, <2>2 DEF Hands
<1> QED BY <1>1, <1>2, <1>3

(* The pool alone does not disturb a worker that processes a task.         *)
LEMMA MoveWorkers ==
  ASSUME TypeOK, PoolMove, Running, Running', NEW w \in Worker, wpc[w] = "process"
  PROVE  wpc'[w] = "process" /\ whand'[w] = whand[w]
<1>1. CASE RestoreFail \/ RestoreErase \/ RestoreAppend \/ Signal \/ CloseLink
           \/ Exit \/ Kill \/ Restart
  BY <1>1 DEF RestoreFail, RestoreErase, RestoreAppend, Signal, CloseLink,
     Exit, Kill, Restart, EndProcess, Running
<1>2. CASE Reader
  BY <1>2 DEF Reader, ReaderReceive, ReaderStop, ReaderAppend, ReaderNotify
<1>3. CASE Dispatcher
  BY <1>3 DEF Dispatcher, DispatchStop, DispatchPause, DispatchWake,
     DispatchPop, DispatchSend, DispatchYield, DispatchCancel,
     DispatchPutBack, DispatchSleepEnd, DumpSnapshot, DispatchPanic,
     DumpDrain, SaveCreate, SaveWrite, EndProcess, Running
<1>4. ASSUME NEW v \in Worker, Queueing(v)
      PROVE  wpc'[w] = "process" /\ whand'[w] = whand[w]
  <2>1. v # w
    BY <1>4 DEF Queueing, WorkerStop, WorkerReceive, WorkerPause, WorkerRequeue,
       WorkerPanic, EndProcess, Running
  <2> QED BY <1>4, <2>1 DEF Queueing, WorkerStop, WorkerReceive, WorkerPause,
     WorkerRequeue, WorkerPanic, EndProcess, Running, TypeOK
<1> QED BY <1>1, <1>2, <1>3, <1>4 DEF PoolMove

LEMMA PoolInv == ASSUME OrderInv, Pool PROVE OrderGoal
<1>1. /\ PoolMove /\ Alongside /\ UNCHANGED <<orders, credits, calc>>
      /\ TypeOK /\ WakeInv
  BY CopyFactsHold DEF Pool, PoolMove, Alongside, OrderInv, CopyFacts, CopyInv
<1>2. MatchInv'
  <2>1. PICK S : S = {t \in Task : Matches(t)}
    OBVIOUS
  <2>2. ASSUME NEW p \in Place, NEW i \in DOMAIN H[p] PROVE H[p][i] \in S
    <3>1. H[p] \in Seq(Task)
      BY <1>1, Values, HandIsSeq DEF TypeOK, Place, Shared, Stack
    <3> QED BY <2>1, <3>1 DEF OrderInv, MatchInv
  <2>3. AllIn(S)
    BY <1>1, <2>2, PlacesIn
  <2>4. AllIn(S)'
    BY <1>1, <2>3, MovesStayIn
  <2>5. \A t \in S : Matches(t)'
    BY <1>1, <2>1 DEF Matches
  <2> SUFFICES ASSUME NEW p \in Place, NEW i \in DOMAIN H'[p],
                      NEW x, x = H'[p][i]
               PROVE  Matches(x)'
    BY DEF MatchInv
  <2> QED BY <2>4, <2>5, InPlacesNext
<1>3. SendInv'
  BY <1>1 DEF OrderInv, HandlersInv, SendInv, Matches, Alongside
<1>4. AnswerInv'
  <2>1. CASE Running /\ ~Running'
    BY <1>1, <2>1 DEF Alongside, Running, AnswerInv
  <2>2. CASE ~Running
    <3>1. answer' = answer /\ \A w \in Worker : answer[w] = NoAnswer
      BY <1>1, <2>2 DEF Alongside, Running, OrderInv, AnswerInv
    <3> QED BY <3>1 DEF OrderInv, AnswerInv
  <2>3. CASE Running /\ Running'
    <3>1. answer' = answer
      BY <1>1, <2>3 DEF Alongside, Running
    <3> QED BY <1>1, <2>3, <3>1, MoveWorkers DEF OrderInv, AnswerInv
  <2> QED BY <2>1, <2>2, <2>3
<1> QED BY <1>1, <1>2, <1>3, <1>4, RowsKept DEF OrderGoal

-----------------------------------------------------------------------------
(* The theorems.                                                           *)

LEMMA OrderNextInv == OrderInv /\ [OrderNext]_ovars => OrderInv'
<1> SUFFICES ASSUME OrderInv, [OrderNext]_ovars PROVE OrderInv'
  OBVIOUS
<1>1. HandlersInv' /\ CopyInv'
  BY HandlersNext, CopyNext DEF OrderInv
<1>2. OrderGoal
  <2>1. ASSUME NEW o \in Order, Calculate(o) PROVE OrderGoal
    BY <2>1, CalculateInv
  <2>2. ASSUME NEW h \in Handler, Upload(h) \/ Store(h) \/ Send(h) PROVE OrderGoal
    BY <2>2, UploadInv, StoreInv, SendingInv
  <2>3. ASSUME NEW w \in Worker, Process(w) PROVE OrderGoal
    BY <2>3, ProcessInv
  <2>4. CASE Pool
    BY <2>4, PoolInv
  <2>5. CASE UNCHANGED ovars
    <3>1. H' = H
      BY <2>5, SamePlaces DEF ovars, vars, Dumping
    <3>2. MatchInv' /\ SendInv' /\ AnswerInv'
      BY <2>5, <3>1 DEF ovars, vars, OrderInv, MatchInv, Matches, SendInv,
         AnswerInv, Running
    <3> QED BY <2>5, <3>2, RowsKept DEF ovars, OrderGoal
  <2> QED BY <2>1, <2>2, <2>3, <2>4, <2>5 DEF OrderNext
<1> QED BY <1>1, <1>2 DEF OrderInv, OrderGoal

LEMMA OrderInvariant == OrderSpec => []OrderInv
  BY OrderInitInv, OrderNextInv, PTL DEF OrderSpec

(* An order that is listed as PROCESSED with points was credited exactly   *)
(* once, any other never: whatever is uploaded twice, requeued, dumped,    *)
(* restored, killed or fails, with any number of workers and handlers,     *)
(* although updateOrderTx credits each time it runs.                       *)
THEOREM CreditedOnce == OrderSpec => []CreditedAsListed
<1>1. OrderInv => CreditedAsListed
  BY DEF OrderInv
<1> QED BY <1>1, OrderInvariant, PTL

(* A task agrees with its row in owner and status wherever it is, in an    *)
(* old dump file too.                                                      *)
THEOREM TasksMatchRows == OrderSpec => []TaskMatchesRow
<1>1. OrderInv => TaskMatchesRow
  BY MatchIsProperty DEF OrderInv
<1> QED BY <1>1, OrderInvariant, PTL

(* The tables keep their types in every step.                              *)
LEMMA LedgerNextType ==
  ASSUME Storage!LedgerTypeOK, OrderInv, [OrderNext]_ovars
  PROVE  Storage!LedgerTypeOK'
<1> USE DEF Storage!LedgerTypeOK
<1>1. CASE UNCHANGED ledger
  BY <1>1
<1>2. ASSUME NEW o \in Order, NEW u \in User, Storage!AddOrder(o, u)
      PROVE  Storage!LedgerTypeOK'
  BY <1>2 DEF Storage!AddOrder, Storage!Inserted, Storage!Put, Storage!Row,
     Storage!Status
<1>3. ASSUME NEW h \in Handler, Store(h)
      PROVE  Storage!LedgerTypeOK'
  <2>1. Head(request[h]) \in Task
    BY <1>3, FullHand DEF Store, OrderInv, HandlersInv
  <2> QED BY <1>1, <1>2, <1>3, <2>1 DEF Store, Task
<1>4. ASSUME NEW w \in Worker, Record(w), Update(w)
      PROVE  Storage!LedgerTypeOK'
  <2> DEFINE t == Head(whand[w])
  <2>1. /\ wpc[w] = "process" /\ t.id \in Order /\ t.id \in DOMAIN orders
        /\ answer[w] \in Calculation /\ Target(w) \in Storage!Status
    BY <1>4, AnswerFacts DEF Record
  <2>2. t.user \in User
    BY <2>1, WorkersTask DEF Task
  <2>3. answer[w].points \in Points \cup {0} /\ answer[w].points \in Nat
    <3>1. answer[w].points \in Points \cup {0}
      BY <2>1 DEF Calculation
    <3>2. \A p \in Points \cup {0} : p \in Nat
      BY AccrualsAssumption
    <3> QED BY <3>1, <3>2
  <2> HIDE DEF t
  <2>4. DOMAIN orders' = DOMAIN orders /\ \A o \in DOMAIN orders : orders'[o] \in Storage!Row
    BY <1>4, <2>1, <2>2, <2>3 DEF Update, Storage!UpdateOrder, Storage!Written,
       Storage!Put, Storage!Row, t
  <2>5. /\ balance' \in [User -> Nat] /\ withdrawn' = withdrawn
        /\ credits' \in [Order -> Nat] /\ earned' \in [User -> Nat]
    BY <1>4, <2>1, <2>2, <2>3 DEF Update, Storage!UpdateOrder, Storage!Written, t
  <2> QED BY <2>4, <2>5
<1>5. ASSUME NEW w \in Worker, Process(w)
      PROVE  UNCHANGED ledger \/ (Record(w) /\ Update(w))
  BY <1>5 DEF Process, RequestFails, SystemBusy, Record, StillProcessing, Answered
<1>6. ASSUME NEW h \in Handler, Upload(h) \/ Send(h) PROVE UNCHANGED ledger
  BY <1>6 DEF Upload, Send
<1>7. ASSUME Pool \/ UNCHANGED ovars \/ \E o \in Order : Calculate(o)
      PROVE  UNCHANGED ledger
  BY <1>7 DEF Pool, Alongside, ovars, Calculate
<1> QED BY <1>1, <1>3, <1>4, <1>5, <1>6, <1>7 DEF OrderNext

(* Rows, balances, handlers and answers keep their types; a worker has an  *)
(* answer only while it processes a task, a handler an order only during   *)
(* a request.                                                              *)
THEOREM OrderTypesCorrect == OrderSpec => []OrderTypeOK
<1> DEFINE Inv == OrderInv /\ Storage!LedgerTypeOK
<1>1. OrderInit => Inv
  BY OrderInitInv DEF OrderInit, Storage!LedgerInit, Storage!LedgerTypeOK
<1>2. Inv /\ [OrderNext]_ovars => Inv'
  BY OrderNextInv, LedgerNextType
<1>3. Inv => OrderTypeOK
  BY DEF OrderInv, HandlersInv, RowInv, AnswerInv, OrderTypeOK
<1> QED BY <1>1, <1>2, <1>3, PTL DEF OrderSpec

(* What StatusAdvances says of one step.                                   *)
Advance ==
  \A o \in DOMAIN orders :
    /\ Stage(orders'[o].status) >= Stage(orders[o].status)
    /\ orders[o].status \in Storage!Final => orders'[o] = orders[o]

LEMMA StepAdvances == OrderInv /\ [OrderNext]_ovars => Advance
<1> SUFFICES ASSUME OrderInv, [OrderNext]_ovars, NEW o \in DOMAIN orders
             PROVE  /\ Stage(orders'[o].status) >= Stage(orders[o].status)
                    /\ orders[o].status \in Storage!Final => orders'[o] = orders[o]
  BY DEF Advance
<1>1. Stage(orders[o].status) \in 1..3
  BY RowStages DEF OrderInv, RowInv
<1>2. CASE orders'[o] = orders[o]
  BY <1>1, <1>2
<1>3. ASSUME NEW w \in Worker, Record(w), Update(w), o = Head(whand[w]).id
      PROVE  /\ Stage(orders'[o].status) >= Stage(orders[o].status)
             /\ orders[o].status \notin Storage!Final
  <2>1. answer[w] # NoAnswer
    BY <1>3 DEF Record
  <2>2. wpc[w] = "process" /\ Stage(Target(w)) >= Stage(orders[o].status)
    BY <1>3, <2>1, AnswerFacts
  <2>3. orders'[o].status = Target(w)
    BY <1>3, <2>2, UpdatedRow
  <2>4. orders[o].status \in {"NEW", "PROCESSING"}
    BY <1>3, <2>2, WorkersTask
  <2> QED BY <2>2, <2>3, <2>4 DEF Storage!Final
<1>4. ASSUME NEW w \in Worker, Process(w)
      PROVE  \/ orders'[o] = orders[o]
             \/ Record(w) /\ Update(w) /\ o = Head(whand[w]).id
  <2>1. CASE Record(w) /\ Update(w)
    <3>1. wpc[w] = "process"
      BY <2>1, AnswerFacts DEF Record
    <3> QED BY <2>1, <3>1, UpdatedRow
  <2> QED BY <1>4, <2>1 DEF Process, RequestFails, SystemBusy, Record,
     StillProcessing, Answered
<1>5. ASSUME NEW h \in Handler, Upload(h) \/ Store(h) \/ Send(h)
      PROVE  orders'[o] = orders[o]
  BY <1>5 DEF Upload, Store, Send, Storage!AddOrder, Storage!Inserted, Storage!Put
<1>6. ASSUME Pool \/ UNCHANGED ovars \/ \E x \in Order : Calculate(x)
      PROVE  orders'[o] = orders[o]
  BY <1>6 DEF Pool, Alongside, ovars, Calculate
<1> QED BY <1>2, <1>3, <1>4, <1>5, <1>6 DEF OrderNext

(* No step takes an order's status back or changes a final row: no answer  *)
(* of the accrual system is written after a later one, although the upsert *)
(* of updateOrderTx checks nothing.                                        *)
THEOREM StatusNeverReturns == OrderSpec => StatusAdvances
<1>1. OrderInv /\ [OrderNext]_ovars => [Advance]_ovars
  BY StepAdvances
<1>2. OrderSpec => [][Advance]_ovars
  BY <1>1, OrderInvariant, PTL DEF OrderSpec
<1> QED BY <1>2 DEF Advance, StatusAdvances
-----------------------------------------------------------------------------
(* The storage behind the handlers and the workers.                        *)

LEMMA StepIsTransaction ==
  ASSUME OrderInv, [OrderNext]_ovars
  PROVE  [Storage!LedgerNext]_ledger
<1>1. ASSUME NEW h \in Handler, Store(h)
      PROVE  [Storage!LedgerNext]_ledger
  <2> DEFINE t == Head(request[h])
  <2>1. UNCHANGED ledger \/ Storage!AddOrder(t.id, t.user)
    BY <1>1 DEF Store
  <2>2. t.id \in Order /\ t.user \in User
    <3>1. hpc[h] = "insert"
      BY <1>1 DEF Store
    <3>2. request[h] \in Hand /\ request[h] # <<>>
      BY <3>1 DEF OrderInv, HandlersInv
    <3>3. t \in Task
      BY <3>2 DEF Hand
    <3> QED BY <3>3 DEF Task
  <2> HIDE DEF t
  <2> QED BY <2>1, <2>2 DEF Storage!LedgerNext
<1>2. ASSUME NEW w \in Worker, Record(w), Update(w)
      PROVE  [Storage!LedgerNext]_ledger
  <2> DEFINE t == Head(whand[w])
  <2>1. /\ wpc[w] = "process" /\ t.id \in Order
        /\ answer[w] \in Calculation /\ Target(w) \in Storage!Status
    BY <1>2, AnswerFacts DEF Record
  <2>2. t.user \in User
    BY <2>1, WorkersTask DEF Task
  <2>3. answer[w].points \in Points \cup {0}
    BY <2>1 DEF Calculation
  <2>4. Storage!UpdateOrder(t.id, t.user, Target(w), answer[w].points)
    BY <1>2 DEF Update
  <2> HIDE DEF t
  <2> QED BY <2>1, <2>2, <2>3, <2>4 DEF Storage!LedgerNext
<1>3. ASSUME NEW w \in Worker, Process(w)
      PROVE  UNCHANGED ledger \/ (Record(w) /\ Update(w))
  BY <1>3 DEF Process, RequestFails, SystemBusy, Record, StillProcessing,
     Answered
<1>4. ASSUME NEW h \in Handler, Upload(h) \/ Send(h) PROVE UNCHANGED ledger
  BY <1>4 DEF Upload, Send
<1>5. ASSUME Pool \/ UNCHANGED ovars \/ \E o \in Order : Calculate(o)
      PROVE  UNCHANGED ledger
  BY <1>5 DEF Pool, Alongside, ovars, Calculate
<1> QED BY <1>1, <1>2, <1>3, <1>4, <1>5 DEF OrderNext

(* Handlers and workers together are a client of the storage as Ledger     *)
(* describes it: all they do to the tables is its atomic transactions.     *)
THEOREM StorageUsedAsPromised == OrderSpec => Storage!LedgerSpec
<1>1. OrderInit => Storage!LedgerInit
  BY DEF OrderInit
<1>2. OrderInv /\ [OrderNext]_ovars => [Storage!LedgerNext]_(Storage!lvars)
  BY StepIsTransaction DEF ledger, Storage!lvars
<1> QED BY <1>1, <1>2, OrderInvariant, PTL DEF OrderSpec, Storage!LedgerSpec

LEMMA BooksKept ==
  ASSUME Storage!LedgerTypeOK, Storage!BooksBalance,
         [Storage!LedgerNext]_ledger
  PROVE  Storage!BooksBalance'
<1> USE DEF Storage!LedgerTypeOK, Storage!BooksBalance
<1>1. ASSUME NEW o \in Order, NEW u \in User, Storage!AddOrder(o, u)
      PROVE  Storage!BooksBalance'
  BY <1>1 DEF Storage!AddOrder, Storage!Inserted
<1>2. ASSUME NEW o \in Order, NEW u \in User, NEW s \in Storage!Status,
             NEW p \in Points \cup {0}, Storage!UpdateOrder(o, u, s, p)
      PROVE  Storage!BooksBalance'
  <2>1. p \in Nat
    BY AccrualsAssumption
  <2> QED BY <1>2, <2>1 DEF Storage!UpdateOrder, Storage!Written
<1>3. CASE UNCHANGED ledger
  BY <1>3 DEF ledger
<1> QED BY <1>1, <1>2, <1>3 DEF Storage!LedgerNext

(* So no points are made or lost between the answers of the accrual system *)
(* and the balances, whatever the workers repeat: what a user has is what  *)
(* was credited to him.                                                    *)
THEOREM PointsArrive == OrderSpec => []Storage!BooksBalance
<1>1. OrderInit => Storage!BooksBalance
  BY DEF OrderInit, Storage!LedgerInit, Storage!BooksBalance
<1>2. /\ Storage!BooksBalance /\ OrderTypeOK /\ OrderInv /\ [OrderNext]_ovars
      => Storage!BooksBalance'
  BY StepIsTransaction, BooksKept DEF OrderTypeOK
<1> QED BY <1>1, <1>2, OrderTypesCorrect, OrderInvariant, PTL DEF OrderSpec
-----------------------------------------------------------------------------
(* Whose points they are.                                                  *)

PointsInv ==
  /\ IsFiniteSet(DOMAIN orders)
  /\ \A o \in DOMAIN orders : orders[o].accrual \in Nat
  /\ earned \in [User -> Int]
  /\ \A u \in User : earned[u] = SumFunctionOnSet(PaidFor(u), DOMAIN orders)

(* A new row is worth nothing to anybody yet.                              *)
LEMMA AddedPoints ==
  ASSUME PointsInv, NEW o, NEW u, Storage!AddOrder(o, u) PROVE PointsInv'
<1> DEFINE D == DOMAIN orders
<1>1. /\ DOMAIN orders' = D \cup {o} /\ o \notin D /\ earned' = earned
      /\ \A x \in D : orders'[x] = orders[x]
      /\ orders'[o].status = "NEW" /\ orders'[o].accrual = 0
  BY DEF Storage!AddOrder, Storage!Inserted, Storage!Put
<1>2. IsFiniteSet(D) /\ IsFiniteSet(D \cup {o}) /\ (D \cup {o}) \ {o} = D
  BY <1>1, FS_AddElement DEF PointsInv
<1>3. \A x \in D \cup {o} : orders'[x].accrual \in Nat
  BY <1>1 DEF PointsInv
<1>4. ASSUME NEW v \in User
      PROVE  SumFunctionOnSet(PaidFor(v)', D \cup {o})
               = SumFunctionOnSet(PaidFor(v), D)
  <2> DEFINE f == PaidFor(v)
             g == PaidFor(v)'
  <2>1. /\ \A x \in D \cup {o} : g[x] \in Int
        /\ g[o] = 0 /\ \A x \in D : f[x] \in Int /\ g[x] = f[x]
    BY <1>1, <1>3 DEF PaidFor
  <2> HIDE DEF f, g, D
  <2>2. SumFunctionOnSet(g, D \cup {o}) = g[o] + SumFunctionOnSet(g, D)
    <3>1. o \in D \cup {o}
      OBVIOUS
    <3>2. SumFunctionOnSet(g, D \cup {o})
            = g[o] + SumFunctionOnSet(g, (D \cup {o}) \ {o})
      BY <1>2, <2>1, <3>1, SumWithout, Zenon
    <3> QED BY <1>2, <3>2
  <2>3. SumFunctionOnSet(g, D) = SumFunctionOnSet(f, D)
    BY <1>2, <2>1, SumSame
  <2>4. SumFunctionOnSet(f, D) \in Int
    BY <1>2, <2>1, SumType
  <2>5. SumFunctionOnSet(g, D \cup {o}) = SumFunctionOnSet(f, D)
    BY <2>1, <2>2, <2>3, <2>4
  <2> QED BY <2>5 DEF f, g
<1> QED BY <1>1, <1>2, <1>3, <1>4 DEF PointsInv

(* A write pays what it lists, to the owner of the row, which was not      *)
(* PROCESSED before.                                                       *)
LEMMA WrittenPoints ==
  ASSUME OrderInv, PointsInv, NEW w \in Worker, answer[w] # NoAnswer, Update(w)
  PROVE  PointsInv'
<1> DEFINE t == Head(whand[w])
           o == t.id
           D == DOMAIN orders
           k == answer[w].points
<1>1. /\ wpc[w] = "process" /\ o \in D /\ answer[w] \in Calculation
      /\ Matches(t) /\ orders[o].status \in {"NEW", "PROCESSING"}
  BY AnswerFacts, WorkersTask
<1>2. /\ DOMAIN orders' = D /\ \A x \in D \ {o} : orders'[x] = orders[x]
      /\ orders'[o].user = orders[o].user /\ orders'[o].status = Target(w)
      /\ orders'[o].accrual = k
  BY <1>1, UpdatedRow
<1>3. k \in Nat
  <2>1. k \in Points \cup {0}
    BY <1>1 DEF Calculation
  <2>2. \A p \in Points \cup {0} : p \in Nat
    BY AccrualsAssumption
  <2> QED BY <2>1, <2>2
<1>4. t.user = orders[o].user
  BY <1>1 DEF Matches
<1>5. earned' = IF Storage!Pays(Target(w), k)
                  THEN [earned EXCEPT ![orders[o].user] = @ + k] ELSE earned
  BY <1>4 DEF Update, Storage!UpdateOrder, Storage!Written
<1> HIDE DEF o, t, k
<1>6. \A x \in D : orders'[x].accrual \in Nat
  BY <1>2, <1>3 DEF PointsInv
<1>7. ASSUME NEW v \in User
      PROVE  earned'[v] = SumFunctionOnSet(PaidFor(v)', D)
  <2> DEFINE f == PaidFor(v)
             g == PaidFor(v)'
  <2>1. /\ \A x \in D : f[x] \in Int /\ g[x] \in Int
        /\ \A x \in D \ {o} : g[x] = f[x]
    BY <1>2, <1>6 DEF PaidFor, PointsInv
  <2>2. f[o] = 0
    BY <1>1 DEF PaidFor
  <2>3. g[o] = IF orders[o].user = v /\ Target(w) = "PROCESSED" THEN k ELSE 0
    BY <1>1, <1>2 DEF PaidFor
  <2> HIDE DEF f, g
  <2>4. DifferAt(D, o, f, g)
    BY <1>1, <2>1 DEF DifferAt, PointsInv
  <2>5. SumFunctionOnSet(g, D) = SumFunctionOnSet(f, D) + (g[o] - f[o])
    BY <2>4, SumChanged
  <2>6. earned[v] = SumFunctionOnSet(f, D) /\ earned[v] \in Int
    BY DEF PointsInv, f
  <2>7. earned'[v] = earned[v] + g[o]
    BY <1>3, <1>5, <2>3, <2>6 DEF Storage!Pays, PointsInv
  <2>8. earned'[v] = SumFunctionOnSet(g, D)
    BY <1>3, <2>2, <2>3, <2>5, <2>6, <2>7
  <2> QED BY <2>8 DEF g
<1>8. earned' \in [User -> Int]
  <2> DEFINE v == orders[o].user
  <2>1. earned' = earned \/ earned' = [earned EXCEPT ![v] = @ + k]
    BY <1>5
  <2>2. earned \in [User -> Int] /\ k \in Int
    BY <1>3 DEF PointsInv
  <2> HIDE DEF v
  <2> QED BY <2>1, <2>2
<1> QED BY <1>2, <1>6, <1>7, <1>8 DEF PointsInv

(* Only these two steps change rows or points.                             *)
LEMMA PointsNext == OrderInv /\ PointsInv /\ [OrderNext]_ovars => PointsInv'
<1> SUFFICES ASSUME OrderInv, PointsInv, [OrderNext]_ovars PROVE PointsInv'
  OBVIOUS
<1>1. CASE UNCHANGED ledger
  BY <1>1 DEF PointsInv, PaidFor
<1>2. ASSUME NEW h \in Handler, Store(h) PROVE PointsInv'
  BY <1>1, <1>2, AddedPoints DEF Store
<1>3. ASSUME NEW w \in Worker, Process(w) PROVE PointsInv'
  <2>1. UNCHANGED ledger \/ (answer[w] # NoAnswer /\ Update(w))
    BY <1>3 DEF Process, RequestFails, SystemBusy, Record, StillProcessing,
       Answered
  <2> QED BY <1>1, <2>1, WrittenPoints
<1>4. ASSUME NEW h \in Handler, Upload(h) \/ Send(h) PROVE UNCHANGED ledger
  BY <1>4 DEF Upload, Send
<1>5. ASSUME Pool \/ UNCHANGED ovars \/ \E o \in Order : Calculate(o)
      PROVE  UNCHANGED ledger
  BY <1>5 DEF Pool, Alongside, ovars, Calculate
<1> QED BY <1>1, <1>2, <1>3, <1>4, <1>5 DEF OrderNext

(* What a user has and has withdrawn is, at every moment, the sum of the   *)
(* accruals of his own orders that are listed as PROCESSED: with any       *)
(* number of orders and users, no points of updateOrderTx go to another    *)
(* user, come ahead of the list, or are missing.                           *)
THEOREM PointsReachOwners == OrderSpec => []PointsAsListed
<1>1. OrderInit => PointsInv
  <2> SUFFICES ASSUME OrderInit PROVE PointsInv
    OBVIOUS
  <2>1. DOMAIN orders = {} /\ earned = [u \in User |-> 0]
    BY DEF OrderInit, Storage!LedgerInit
  <2> QED BY <2>1, SumOfNothing, FS_EmptySet DEF PointsInv
<1>2. OrderInv /\ PointsInv /\ [OrderNext]_ovars => PointsInv'
  BY PointsNext
<1>3. PointsInv /\ Storage!BooksBalance => PointsAsListed
  BY DEF PointsInv, Storage!BooksBalance, PointsAsListed
<1> QED BY <1>1, <1>2, <1>3, OrderInvariant, PointsArrive, PTL DEF OrderSpec
-----------------------------------------------------------------------------
(* What the accrual system decided.                                        *)

(* A final answer, once given, is the decision itself: the calculation of  *)
(* a final order does not change while the worker carries the answer.      *)
DecidedInv ==
  /\ ListedAsCalculated
  /\ \A w \in Worker : Stage(answer[w].status) = 3 /\ answer[w] # NoAnswer =>
       answer[w] = calc[Head(whand[w]).id]

(* What is final, in a row or in an answer, is final for the accrual       *)
(* system as well, which then stays with it.                               *)
LEMMA CalculateDecided ==
  ASSUME OrderInv, DecidedInv, NEW o \in Order, Calculate(o)
  PROVE  DecidedInv'
<1>1. PICK c \in Calculation : /\ Stage(c.status) > Stage(calc[o].status)
                               /\ calc' = [calc EXCEPT ![o] = c]
  BY DEF Calculate
<1>2. UNCHANGED <<orders, answer, whand>>
  BY DEF Calculate, vars, ledger
<1>3. Stage(calc[o].status) < 3
  <2>1. calc[o] \in Calculation
    BY DEF OrderInv, RowInv
  <2> QED BY <1>1, <2>1, CalculationStages
<1>4. \A x : x # o => calc'[x] = calc[x]
  BY <1>1 DEF OrderInv, RowInv
<1>5. ListedAsCalculated'
  <2> SUFFICES ASSUME NEW x \in DOMAIN orders, orders[x].status \in Storage!Final
               PROVE  calc'[x] = [status |-> orders[x].status,
                                  points |-> orders[x].accrual]
    BY <1>2 DEF ListedAsCalculated
  <2>1. calc[x] = [status |-> orders[x].status, points |-> orders[x].accrual]
    BY DEF DecidedInv, ListedAsCalculated
  <2>2. Stage(calc[x].status) = 3
    BY <2>1, RowStages DEF OrderInv, RowInv
  <2> QED BY <1>3, <1>4, <2>1, <2>2
<1>6. ASSUME NEW w \in Worker, Stage(answer[w].status) = 3, answer[w] # NoAnswer
      PROVE  answer[w] = calc'[Head(whand[w]).id]
  <2>1. answer[w] = calc[Head(whand[w]).id]
    BY <1>6 DEF DecidedInv
  <2> QED BY <1>3, <1>4, <1>6, <2>1
<1> QED BY <1>2, <1>5, <1>6 DEF DecidedInv

(* The order of a worker with an answer is not final yet, and no other     *)
(* worker has it.                                                          *)
LEMMA WriteDecided ==
  ASSUME OrderInv, DecidedInv, NEW w \in Worker, answer[w] # NoAnswer, Update(w),
         calc' = calc
  PROVE  ListedAsCalculated'
<1> DEFINE o == Head(whand[w]).id
<1>1. /\ wpc[w] = "process" /\ o \in DOMAIN orders /\ answer[w] \in Calculation
      /\ Stage(Target(w)) = Stage(answer[w].status)
      /\ Target(w) \in Storage!Status
  BY AnswerFacts
<1>2. /\ DOMAIN orders' = DOMAIN orders
      /\ \A x \in DOMAIN orders \ {o} : orders'[x] = orders[x]
      /\ orders'[o].status = Target(w) /\ orders'[o].accrual = answer[w].points
  BY <1>1, UpdatedRow
<1> HIDE DEF o
<1>3. ASSUME NEW x \in DOMAIN orders, x # o, orders'[x].status \in Storage!Final
      PROVE  calc'[x] = [status |-> orders'[x].status,
                         points |-> orders'[x].accrual]
  BY <1>2, <1>3 DEF DecidedInv, ListedAsCalculated
<1>4. ASSUME orders'[o].status \in Storage!Final
      PROVE  calc'[o] = [status |-> orders'[o].status,
                         points |-> orders'[o].accrual]
  <2>1. Stage(answer[w].status) = 3
    BY <1>1, <1>2, <1>4, RowStages
  <2>2. answer[w] = calc[o]
    BY <2>1 DEF DecidedInv, o
  <2>3. answer[w].status = Target(w)
    BY <1>2, <1>4 DEF Target, Storage!Final
  <2>4. answer[w] = [status |-> answer[w].status, points |-> answer[w].points]
    BY <1>1 DEF Calculation
  <2> QED BY <1>2, <2>2, <2>3, <2>4
<1> QED BY <1>2, <1>3, <1>4 DEF ListedAsCalculated

(* A step that leaves rows and calculations alone, and takes no task away  *)
(* from a worker that keeps its answer.                                    *)
LEMMA DecidedKept ==
  ASSUME DecidedInv, UNCHANGED <<orders, calc>>,
         \A w \in Worker :
           (answer'[w] = answer[w] /\ whand'[w] = whand[w]) \/ answer'[w] = NoAnswer
  PROVE  DecidedInv'
  BY DEF DecidedInv, ListedAsCalculated

LEMMA ProcessDecided ==
  ASSUME OrderInv, DecidedInv, NEW w \in Worker, Process(w)
  PROVE  DecidedInv'
<1>1. answer \in [Worker -> Calculation \cup {NoAnswer}] /\ whand \in [Worker -> Hand]
  BY CopyFactsHold DEF OrderInv, AnswerInv, CopyFacts, TypeOK
<1>2. ASSUME WorkerRelease(w) \/ WorkerRetry(w) \/ WorkerBusy(w)
      PROVE  \A v \in Worker \ {w} : whand'[v] = whand[v]
  BY <1>2, WorkerPlaces
<1>3. ASSUME RequestFails(w) \/ SystemBusy(w)
               \/ \E o \in Order : StillProcessing(w, o)
      PROVE  DecidedInv'
  <2>1. /\ WorkerRelease(w) \/ WorkerRetry(w) \/ WorkerBusy(w)
        /\ UNCHANGED <<orders, calc, answer>> /\ answer[w] = NoAnswer
    BY <1>3 DEF RequestFails, SystemBusy, StillProcessing, Asking, ledger
  <2>2. \A v \in Worker : \/ answer'[v] = answer[v] /\ whand'[v] = whand[v]
                         \/ answer'[v] = NoAnswer
    BY <1>2, <2>1
  <2> QED BY <2>1, <2>2, DecidedKept
<1>4. ASSUME NEW o \in Order, Answered(w, o) PROVE DecidedInv'
  <2>1. /\ o = Head(whand[w]).id /\ answer' = [answer EXCEPT ![w] = calc[o]]
        /\ UNCHANGED <<orders, calc, whand>>
    BY <1>4 DEF Answered, Asking, vars
  <2>2. \A v \in Worker : answer'[v] = IF v = w THEN calc[o] ELSE answer[v]
    BY <1>1, <2>1
  <2> QED BY <2>1, <2>2 DEF DecidedInv, ListedAsCalculated
<1>5. CASE Record(w)
  <2>1. /\ answer[w] # NoAnswer /\ (WorkerRelease(w) \/ WorkerRetry(w))
        /\ answer' = [answer EXCEPT ![w] = NoAnswer]
        /\ calc' = calc /\ (Update(w) \/ UNCHANGED orders)
    BY <1>5 DEF Record
  <2>2. ListedAsCalculated'
    <3>1. CASE Update(w)
      BY <2>1, <3>1, WriteDecided
    <3>2. CASE UNCHANGED orders
      BY <2>1, <3>2 DEF DecidedInv, ListedAsCalculated
    <3> QED BY <2>1, <3>1, <3>2
  <2>3. ASSUME NEW v \in Worker, answer'[v] # NoAnswer,
               Stage(answer'[v].status) = 3
        PROVE  answer'[v] = calc'[Head(whand'[v]).id]
    <3>1. v # w /\ answer'[v] = answer[v]
      BY <1>1, <2>1, <2>3
    <3>2. whand'[v] = whand[v]
      BY <1>2, <2>1, <3>1
    <3> QED BY <2>1, <2>3, <3>1, <3>2 DEF DecidedInv
  <2> QED BY <2>2, <2>3 DEF DecidedInv
<1> QED BY <1>3, <1>4, <1>5 DEF Process

LEMMA DecidedNext == OrderInv /\ DecidedInv /\ [OrderNext]_ovars => DecidedInv'
<1> SUFFICES ASSUME OrderInv, DecidedInv, [OrderNext]_ovars PROVE DecidedInv'
  OBVIOUS
<1>1. ASSUME NEW h \in Handler, Upload(h) \/ Store(h) PROVE DecidedInv'
  <2>1. UNCHANGED <<calc, answer, whand>>
    BY <1>1 DEF Upload, Store, vars
  <2>2. CASE UNCHANGED orders
    BY <2>1, <2>2, DecidedKept
  <2>3. ASSUME NEW o, NEW u, Storage!AddOrder(o, u) PROVE DecidedInv'
    <3>1. /\ DOMAIN orders' = DOMAIN orders \cup {o} /\ orders'[o].status = "NEW"
          /\ \A x \in DOMAIN orders : orders'[x] = orders[x]
      BY <2>3 DEF Storage!AddOrder, Storage!Inserted, Storage!Put
    <3> QED BY <2>1, <3>1 DEF DecidedInv, ListedAsCalculated, Storage!Final
  <2> QED BY <1>1, <2>2, <2>3 DEF Upload, Store
<1>2. ASSUME NEW h \in Handler, Send(h) PROVE DecidedInv'
  <2>1. UNCHANGED <<orders, calc, answer, whand>>
    BY <1>2 DEF Send, Enqueue
  <2> QED BY <2>1, DecidedKept
<1>3. CASE Pool
  <2>1. PoolMove /\ Alongside /\ UNCHANGED <<orders, calc>>
    BY <1>3 DEF Pool, PoolMove, Alongside
  <2>2. ASSUME NEW w \in Worker
        PROVE  \/ answer'[w] = NoAnswer
               \/ answer'[w] = answer[w] /\ whand'[w] = whand[w]
    <3>1. CASE answer' = [v \in Worker |-> NoAnswer]
      BY <3>1
    <3>2. CASE UNCHANGED answer /\ answer[w] # NoAnswer /\ Running'
      <4>1. TypeOK /\ Running /\ wpc[w] = "process"
        BY <3>2, CopyFactsHold DEF OrderInv, AnswerInv, CopyFacts
      <4> QED BY <2>1, <3>2, <4>1, MoveWorkers
    <3>3. CASE UNCHANGED answer /\ answer[w] = NoAnswer
      BY <3>3
    <3>4. CASE UNCHANGED answer /\ answer[w] # NoAnswer /\ ~Running'
      BY <2>1, <3>4 DEF Alongside, Running, OrderInv, AnswerInv
    <3> QED BY <2>1, <3>1, <3>2, <3>3, <3>4 DEF Alongside
  <2> QED BY <2>1, <2>2, DecidedKept
<1>4. CASE UNCHANGED ovars
  BY <1>4, DecidedKept DEF ovars, vars
<1> QED BY <1>1, <1>2, <1>3, <1>4, CalculateDecided, ProcessDecided DEF OrderNext

(* A final row says what the accrual system decided about that order, with *)
(* its points: whatever is requeued, paused, dumped or restored meanwhile, *)
(* no worker writes an answer about another order or one that is outdated. *)
THEOREM DecisionsListed == OrderSpec => []ListedAsCalculated
<1>1. OrderInit => DecidedInv
  BY DEF OrderInit, Storage!LedgerInit, DecidedInv, ListedAsCalculated
<1>2. OrderInv /\ DecidedInv /\ [OrderNext]_ovars => DecidedInv'
  BY DecidedNext
<1>3. DecidedInv => ListedAsCalculated
  BY DEF DecidedInv
<1> QED BY <1>1, <1>2, <1>3, OrderInvariant, PTL DEF OrderSpec
=============================================================================
