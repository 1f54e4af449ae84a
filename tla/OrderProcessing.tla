--------------------------- MODULE OrderProcessing ---------------------------
(***************************************************************************)
(* From the upload of an order number to the credit of its points: the     *)
(* HTTP handlers that run OrderService.Store, the worker pool, the workers *)
(* that run ProcessAccrualTask, the storage, and the accrual system, which *)
(* is external.  The storage is its abstract specification: a transaction  *)
(* is one step, a failure of the commit may or may not have committed it.  *)
(***************************************************************************)
EXTENDS WorkerPool

CONSTANTS Handler,    \* goroutines of the HTTP server
          Points,     \* accruals that the accrual system grants
          Begins,     \* what the accrual system says of an order at first
          CallFails   \* may a request to it, or a call of the storage, fail?

ASSUME AccrualsAssumption == Points \subseteq Nat
ASSUME BeginsAssumption == Begins \in {"absent", "REGISTERED", "PROCESSING"}
ASSUME CallFailsAssumption == CallFails \in BOOLEAN

VARIABLES
  orders, balance, withdrawn, credits, earned,  \* the tables, see Ledger
  calc,      \* external: the calculation of each order
  hpc,       \* the handlers
  request,   \* the order that a handler is storing
  answer     \* the answer with which a worker goes to the storage

Storage == INSTANCE Ledger WITH Sum <- {}

ledger == <<orders, balance, withdrawn, credits, earned>>
handlers == <<hpc, request>>
ovars == <<vars, ledger, calc, handlers, answer>>

Calculation ==
  [status : {"absent", "REGISTERED", "PROCESSING", "INVALID"}, points : {0}]
    \cup [status : {"PROCESSED"}, points : Points \cup {0}]
NoAnswer == [status |-> "none", points |-> 0]

(* The types; a worker keeps an answer only while it processes a task.     *)
OrderTypeOK ==
  /\ Storage!LedgerTypeOK
  /\ calc \in [Order -> Calculation]
  /\ hpc \in [Handler -> {"idle", "insert", "send"}]
  /\ request \in [Handler -> Hand]
  /\ \A h \in Handler : request[h] = <<>> <=> hpc[h] = "idle"
  /\ answer \in [Worker -> Calculation \cup {NoAnswer}]
  /\ \A w \in Worker : answer[w] # NoAnswer => wpc[w] = "process"

OrderInit ==
  /\ Init /\ Storage!LedgerInit
  /\ calc = [o \in Order |-> [status |-> Begins, points |-> 0]]
  /\ hpc = [h \in Handler |-> "idle"]
  /\ request = [h \in Handler |-> <<>>]
  /\ answer = [w \in Worker |-> NoAnswer]

-----------------------------------------------------------------------------
(* The accrual system advances, now and then by several stages at once;    *)
(* INVALID and PROCESSED are final.                                        *)
Stage(status) ==
  CASE status = "absent"               -> 0
    [] status \in {"NEW", "REGISTERED"} -> 1
    [] status = "PROCESSING"           -> 2
    [] OTHER                           -> 3

Calculate(o) ==
  /\ \E c \in Calculation :
       /\ Stage(c.status) > Stage(calc[o].status)
       /\ calc' = [calc EXCEPT ![o] = c]
  /\ UNCHANGED <<vars, ledger, handlers, answer>>

-----------------------------------------------------------------------------
(* POST /api/user/orders: OrderService.Store.                              *)

Upload(h) ==
  /\ Running /\ hpc[h] = "idle"
  /\ \E o \in Order, u \in User :
       request' = [request EXCEPT ![h] =
                     <<[id |-> o, user |-> u, status |-> "NEW"]>>]
  /\ hpc' = [hpc EXCEPT ![h] = "insert"]
  /\ UNCHANGED <<vars, ledger, calc, answer>>

Respond(h) ==
  /\ hpc' = [hpc EXCEPT ![h] = "idle"]
  /\ request' = [request EXCEPT ![h] = <<>>]

(* Mutant: an order that exists already is sent like a new one.            *)
StoreAgain(h) ==
  /\ Running /\ hpc[h] = "insert"
  /\ LET t == Head(request[h]) IN
       \/ Storage!AddOrder(t.id, t.user)
       \/ t.id \in DOMAIN orders /\ UNCHANGED ledger
  /\ hpc' = [hpc EXCEPT ![h] = "send"]
  /\ UNCHANGED <<vars, calc, request, answer>>

(* db.AddOrder.  The order exists: 200 or 409, whoever owns it.            *)
Store(h) ==
  /\ Running /\ hpc[h] = "insert"
  /\ LET t == Head(request[h]) IN
       \/ /\ Storage!AddOrder(t.id, t.user)
          /\ \/ hpc' = [hpc EXCEPT ![h] = "send"] /\ UNCHANGED request
             \/ CallFails /\ Respond(h)
       \/ /\ t.id \in DOMAIN orders \/ CallFails
          /\ Respond(h) /\ UNCHANGED ledger
  /\ UNCHANGED <<vars, calc, answer>>

(* The new order goes to the pool: 202.                                    *)
Send(h) ==
  /\ hpc[h] = "send"
  /\ Enqueue(Head(request[h])) /\ Respond(h)
  /\ UNCHANGED <<ledger, calc, answer>>

-----------------------------------------------------------------------------
(* ProcessAccrualTask, in a worker that holds a task.                      *)

Asking(w, o) ==
  /\ Running /\ wpc[w] = "process" /\ answer[w] = NoAnswer
  /\ o = Head(whand[w]).id

(* No answer, 204, 5xx or a malformed answer: the error ends the task.     *)
RequestFails(w) ==
  /\ \E o \in Order : Asking(w, o) /\ (CallFails \/ calc[o].status = "absent")
  /\ WorkerRelease(w)
  /\ UNCHANGED <<ledger, calc, handlers, answer>>

SystemBusy(w) ==
  /\ \E o \in Order : Asking(w, o)
  /\ WorkerBusy(w)
  /\ UNCHANGED <<ledger, calc, handlers, answer>>

Known(w, o) ==
  calc[o].status = "PROCESSING" /\ Head(whand[w]).status = "PROCESSING"

(* Nothing new: the task goes back without a write.                        *)
StillProcessing(w, o) ==
  /\ Asking(w, o) /\ Known(w, o)
  /\ WorkerRetry(w)
  /\ UNCHANGED <<ledger, calc, handlers, answer>>

Answered(w, o) ==
  /\ Asking(w, o) /\ calc[o].status # "absent" /\ ~Known(w, o)
  /\ answer' = [answer EXCEPT ![w] = calc[o]]
  /\ UNCHANGED <<vars, ledger, calc, handlers>>

(* Mutant: the status of the answer is stored as it is.                    *)
TargetRaw(w) == answer[w].status

(* db.UpdateOrder with the answer: REGISTERED is stored as NEW.            *)
Target(w) == IF answer[w].status = "REGISTERED" THEN "NEW" ELSE answer[w].status

(* Mutant: the points of the answer are not taken over into the row.       *)
UpdateBare(w) ==
  LET t == Head(whand[w]) IN Storage!UpdateOrder(t.id, t.user, Target(w), 0)

Update(w) ==
  LET t == Head(whand[w]) IN
    Storage!UpdateOrder(t.id, t.user, Target(w), answer[w].points)

(* Mutants: the task is requeued although the write has failed; it is      *)
(* requeued whatever status was written; it is not requeued at all.        *)
RecordCareless(w) ==
  /\ answer[w] # NoAnswer
  /\ Update(w) \/ (CallFails /\ UNCHANGED ledger)
  /\ IF Target(w) = "PROCESSING" THEN WorkerRetry(w) ELSE WorkerRelease(w)
  /\ answer' = [answer EXCEPT ![w] = NoAnswer]
  /\ UNCHANGED <<calc, handlers>>

RecordRepeat(w) ==
  /\ answer[w] # NoAnswer
  /\ Update(w) /\ WorkerRetry(w)
  /\ answer' = [answer EXCEPT ![w] = NoAnswer]
  /\ UNCHANGED <<calc, handlers>>

RecordOnce(w) ==
  /\ answer[w] # NoAnswer
  /\ Update(w) /\ WorkerRelease(w)
  /\ answer' = [answer EXCEPT ![w] = NoAnswer]
  /\ UNCHANGED <<calc, handlers>>

(* The task goes on only if the order is in PROCESSING; a failed write     *)
(* (committed or not) ends it.                                             *)
Record(w) ==
  /\ answer[w] # NoAnswer
  /\ \/ /\ Update(w)
        /\ IF Target(w) = "PROCESSING" THEN WorkerRetry(w) ELSE WorkerRelease(w)
     \/ /\ CallFails /\ WorkerRelease(w)
        /\ Update(w) \/ UNCHANGED ledger
  /\ answer' = [answer EXCEPT ![w] = NoAnswer]
  /\ UNCHANGED <<calc, handlers>>

Process(w) ==
  \/ RequestFails(w) \/ SystemBusy(w) \/ Record(w)
  \/ \E o \in Order : StillProcessing(w, o) \/ Answered(w, o)

-----------------------------------------------------------------------------
(* Steps of the pool alone.  The handlers and the answers end with the     *)
(* process, the tables and the accrual system do not.                      *)
Alongside ==
  /\ IF life = "running" /\ life' # "running"
       THEN /\ hpc' = [h \in Handler |-> "idle"]
            /\ request' = [h \in Handler |-> <<>>]
            /\ answer' = [w \in Worker |-> NoAnswer]
       ELSE UNCHANGED <<handlers, answer>>
  /\ UNCHANGED <<ledger, calc>>

Queueing(w) ==
  \/ WorkerStop(w) \/ WorkerReceive(w) \/ WorkerPause(w) \/ WorkerRequeue(w)
  \/ WorkerPanic(w)

Pool ==
  /\ \/ RestoreFail \/ RestoreErase \/ RestoreAppend
     \/ Reader \/ Dispatcher \/ \E w \in Worker : Queueing(w)
     \/ Signal \/ CloseLink \/ Exit \/ Kill \/ Restart
  /\ Alongside

OrderNext ==
  \/ \E o \in Order : Calculate(o)
  \/ \E h \in Handler : Upload(h) \/ Store(h) \/ Send(h)
  \/ \E w \in Worker : Process(w)
  \/ Pool

OrderSpec == OrderInit /\ [][OrderNext]_ovars

(* The scheduler is fair, every calculation ends, and the accrual system   *)
(* does not answer 429 for ever.                                           *)
Answers(o) == \E w \in Worker : StillProcessing(w, o) \/ Answered(w, o)

OrderFairness ==
  /\ WF_ovars(RestoreErase /\ Alongside) /\ WF_ovars(RestoreAppend /\ Alongside)
  /\ WF_ovars(Reader /\ Alongside) /\ WF_ovars(Dispatcher /\ Alongside)
  /\ \A w \in Worker : /\ WF_ovars(Process(w))
                       /\ WF_ovars(Queueing(w) /\ Alongside)
  /\ \A o \in Order : WF_ovars(Calculate(o)) /\ SF_ovars(Answers(o))

FairOrderSpec == OrderSpec /\ OrderFairness

-----------------------------------------------------------------------------
(* An order is credited exactly once when it is listed as PROCESSED with   *)
(* points, and otherwise never: although updateOrderTx credits every time  *)
(* it runs, whatever is uploaded twice, requeued, dumped, restored or      *)
(* fails in between.                                                       *)
CreditedAsListed ==
  \A o \in Order :
    credits[o] = IF o \in DOMAIN orders
                      /\ Storage!Pays(orders[o].status, orders[o].accrual)
                   THEN 1 ELSE 0

(* What a user has and has withdrawn is the sum of the accruals of his own *)
(* orders that are listed as PROCESSED: the points of updateOrderTx, which *)
(* credits the user of the task and keeps the owner of the row, never go   *)
(* to another, are never paid ahead of the list, and are never missing.    *)
PaidFor(u) ==
  [o \in DOMAIN orders |->
     IF orders[o].user = u /\ orders[o].status = "PROCESSED"
       THEN orders[o].accrual ELSE 0]

PointsAsListed ==
  \A u \in User :
    balance[u] + withdrawn[u] = SumFunctionOnSet(PaidFor(u), DOMAIN orders)

(* What is listed as final is what the accrual system decided about this   *)
(* order, with its points: no worker writes an answer about another order, *)
(* from before the last requeue or pause, or from before a restart.        *)
ListedAsCalculated ==
  \A o \in DOMAIN orders :
    orders[o].status \in Storage!Final =>
      calc[o] = [status |-> orders[o].status, points |-> orders[o].accrual]

(* The status that a user sees never goes back, and a final one stays, with *)
(* its accrual and its owner: no answer of the accrual system is written   *)
(* after a later one, although the upsert of updateOrderTx has no guard.   *)
StatusAdvances ==
  [][\A o \in DOMAIN orders :
       /\ Stage(orders'[o].status) >= Stage(orders[o].status)
       /\ orders[o].status \in Storage!Final => orders'[o] = orders[o]]_ovars

(* A task, wherever it is, in the dump file too, agrees with its row: the  *)
(* points go to the owner of the order, and the shortcut of                *)
(* ProcessAccrualTask for a known PROCESSING never skips a needed write.   *)
TaskMatchesRow ==
  \A p \in Place : \A i \in DOMAIN Held(p) :
    LET t == Held(p)[i] IN
      /\ t.id \in DOMAIN orders
      /\ orders[t.id].user = t.user /\ orders[t.id].status = t.status

(* While the process runs, an order that was handed to the pool and not    *)
(* dropped gets its final status in the end.                               *)
OrderSettles ==
  \A o \in Order :
    (Running /\ o \in accepted)
      ~> (\/ o \in DOMAIN orders /\ orders[o].status \in Storage!Final
          \/ o \in dropped \cup lost \/ ctxDone \/ ~Running)
=============================================================================
