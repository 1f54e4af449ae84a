# A verification of gophermart

gophermart is a loyalty service. Users register, log in, upload order numbers and
spend points; the server asks an external accrual system how many points each
order earns. This directory models what it does in TLA+, above all the parts that run
concurrently, fail and restart: modules and configurations for TLC, and theorems that the
TLAPS proof system checks. Every definition is translated from the Go source;
`PROJECT.json` maps it to the lines it stands for.

    tlc -config Pool.cfg MCWorkerPool     # a run
    tlapm OrderProofs.tla                 # a proof

## 1. The system and its hazards

| component | source (`src/internal/...`) | state | operations | model |
|---|---|---|---|---|
| worker pool | `processors` | `linkCh`, stack `pendingTasks`, token `hasTasks`, `pauseCh`, `workerCh` | `run`, `runDispatcher`, `Worker.Run`, `dumpQueue`, `RestoreQueue` | `WorkerPool` |
| dump file | `repositories/file/avro.go` | the file | `Save`, `Restore`, `Erase` | `WorkerPool` |
| server assembly, migrations | `cmd/gophermart/main.go`, `gophermart`, `migrations` | context, channels, the tables | `databaseWorks`, `NewRouter`, `waitServer`, signals, closing of `linkCh`, exit | `Startup`, `Server`; the pool's part in `WorkerPool` |
| order service, handlers | `services/order_service.go`, `handlers/order_actions.go` | none of its own | `Store`, `ProcessAccrualTask`, `sendOrderToProcessor`, `List` | `OrderProcessing`, `Session` |
| accrual client | `clients` | none | `GetOrderAccrual` | `OrderProcessing` (external system) |
| SQL storage | `repositories/postgresql`, `services/db/pgerrors` | tables `users`, `orders`, `withdrawals` | `AddUser`, `AddOrder`, `UpdateOrder`, `AddWithdrawn`, queries, `withTxRetry` | `SQLStorage`, `Ledger`, `Session` |
| balance service, handlers | `services/balance_service.go`, `handlers/balance_actions.go` | none | `Withdraw`, `GetBalanceInfo`, `ListWithdrawals` | `SQLStorage`, `Server` |
| users and sessions | `services/user_common_service.go`, `services/auth.go`, `handlers/common_actions.go`, `middleware/jwt_auth.go` | JWT in a cookie | `Register`, `Login`, the JWT check | `Session` |
| money, Luhn | `models/common.go`, `order.go`, `withdrawal.go`, `services/alg` | none | conversions, check digit | `Amounts`, `Luhn` |
| compression, logging, timeout | `middleware` | response writers | `GzipWriter`, `loggingResponseWriter`, gzip requests, 504 | `Responses`, `Server` |
| configuration, logger | `config`, `logger` | - | - | only as constants |
| JSON dump | `repositories/file/json.go` | the file | - | not modelled |

How they interact:

    client --JWT--> handlers --> OrderService.Store --> storage (row NEW)
                                       |
                                       v  non-blocking send, forgets when full
     +--------------------------->  linkCh  --> run() --> pendingTasks (LIFO)
     |                                                        |  hasTasks token
     |  PROCESSING or 429                                     v
     +---- workers <---------------- workerCh <------ runDispatcher()
              |    \--429--> pauseCh --------------------^    |  on shutdown
              v                                               v
       accrual system (GET), storage (UPDATE)             dump file
                                                              | on start
                                                  RestoreQueue -> pendingTasks

What is hard in it, and which property answers for it (`PROJECT.json`, `hazards`,
has the complete list, each at its line):

* `hasTasks` has one slot, is taken *before* the stack is emptied and put, without
  waiting, *after* each append: a wake-up could be lost (`NoLostWakeup`,
  `QueueDrains`).
* `runDispatcher` pops a task and then waits for room, a pause or the end of the
  context; three paths put it back, race with `run()` and with the dump
  (`OneCopy`, `NothingMislaid`, `HandsPassOn`).
* `updateOrderTx` credits every time it runs. Nothing but the uniqueness of tasks
  stands between a requeue, a second upload, a restored dump and a double credit
  (`OneCopy`, `NoZombie`, `CreditedAsListed`), and it credits the user of the task, not
  the owner of the row (`PointsAsListed`).
* Its upsert overwrites any status; `ProcessAccrualTask` skips a write by what its
  *task* says (`StatusAdvances`, `TaskMatchesRow`), and its answer is some steps old
  when it is written (`ListedAsCalculated`).
* A commit may fail after it was done; transactions are retried (`AppliedOnce`,
  `BooksBalance`, `LedgerSpec`).
* The balance guard and the change are one statement, reading the balance and the
  withdrawals for a report are two (`BooksBalance`, `ReportNotShort`); and no check
  refuses a negative sum.
* Two clients register one login, or upload one number, at once; a lookup follows
  a refused insert (`Acknowledged`, `AnswersStayTrue`, `Spec` in run `orders`).
* A token is made before anything else is known of its user and outlives processes,
  while clients race for the login in it (`TokensEarned`).
* Shutdown: the context ends, `linkCh` is closed, the dump is written and `main`
  returns without waiting, all at once (`PoolStops`, `ShutdownEnds`, and the
  findings below). The contexts of the requests are children of the one that the
  signal cancels, so requests in progress fail with half their work done
  (`ToldAsDone`), and a list of which only some rows were read is answered like a
  whole one (`ShownAddsUp`).
* `GzipWriter` decides in two places whether to compress, with the header, a length
  or pieces of the body coming in any order (`ReadAsWritten`, `CompressedIfLong`).
* Sums pass from text to kopecks through a double and back by cutting text
  (`ToldAsDone`, `ShownAddsUp`, `AnswersReadBack`).
* A start may fail at each step, and what it must do comes in an order
  (`TablesFirst`, `StartDecides`).

## 2. The modules

| module | what it is |
|---|---|
| `WorkerPool` | the queue of tasks, goroutine by goroutine, the dump and the life cycle of the process |
| `Ledger` | abstract storage: orders, balances, withdrawals as atomic operations |
| `SQLStorage` | the same operations as statements of concurrent transactions; implements `Ledger` |
| `OrderProcessing` | extends `WorkerPool`, uses `Ledger` as its storage: handlers, workers, accrual system; implements `WorkerPool!Spec` |
| `Session` | registration, login, cookies, and the upload of orders as far as their owner goes |
| `Startup` | the life of a server process: database, migration, router, port, signals, exit, restart |
| `PoolLife` | abstract pool: phase of the process, queue, dump file; implemented by `WorkerPool` and by the pool in `Startup` |
| `Amounts`, `Luhn`, `Responses` | operators: roubles and kopecks; the check digit; the answer's way through `GzipWriter`, logger and net/http |
| `Server` | extends the four: one client's requests for money, from the JSON to the bytes of the answer, while the process starts, drains, dies and starts again |
| `MC...` | instances for TLC: symmetry, forms, answers |
| `WorkerPoolProofs`, `TaskCopiesProofs`, `StorageProofs`, `OrderProofs`, `SessionProofs`, `AmountProofs`, `SumProofs`, `ServerProofs` | theorems |

**WorkerPool.** Each goroutine has a program counter (`rpc`, `dpc`, `wpc[w]`) and a
hand (`rhand`, `dhand`, `whand[w]`), the sequence of at most one task in its local
variable. One action is one channel operation or one critical section of
`wp.mx`. `ReaderReceive/Append/Notify/Stop` are `run()`; `Dispatch...` are the
branches of the two selects of `runDispatcher` (`"select"` the outer, `"send"` the
inner one; `"yield"`/`"rest"` and `"rescue"` the two put-backs; `"pause"`/`"rest"` the
two rests of `sleepForAWhile`); `DumpSnapshot`, `DumpDrain`, `SaveCreate`, `SaveWrite`
are `dumpQueue` and `Save`. `dumpQueue` reads the stack without the mutex: the
data race is a choice between `DumpSnapshot` (the old slice) and
`DispatchPanic` (the new length with a nil element); that is also the panic of
`time.NewTicker`, for the delay of a negative `Retry-After`. The stack is a
sequence with its top at the end. `RestoreErase`/`RestoreAppend` are `RestoreQueue`.
`EndProcess` wipes the memory and leaves the file; `Exit` (after the signal, at
any moment: `main` does not wait for the pool), `Kill`, a panic and `Restart`
make the life cycle. `accepted`, `released`, `dropped`, `lost` are history: what was
handed to `sendOrderToProcessor`, what ended, what found the channel full or
closed, what ended with a process. In this module the workers' decisions
(release, retry, 429) are free choices; `OrderProcessing` gives them causes.

**Ledger / SQLStorage.** Amounts are integers (kopecks). `Covered` is the guard
`balance + diff > 0` of `QueryUpdateUserBalance`, for credits and debits alike. The
sums of withdrawals (`Sum`) are of either sign, as nothing from `UnmarshalJSON` to
the tables refuses a negative one, which raises the balance and lowers what is
withdrawn.
`SQLStorage` keeps the *committed* tables; what an open transaction has written
and locked follows from its operation and its next statement (`LocksOrder`,
`LocksUser`). READ COMMITTED is modelled by evaluating a statement on the
committed tables at the moment it gets its lock. `Fail` is an error of a statement:
rolled back, retried if retriable (`RetryingAttempts` = 3 as in the code) or
returned. `Commit` may answer with an error either way. The history variables
`credits` and `earned` count what was credited. What a report is owed (`since` in
`report`) is what was earned when it was asked for, less the negative withdrawals of
the user that are committed between its two reads (`Owed`): those, and only those,
can make its sum short.

**OrderProcessing.** `Upload`, `Store`, `Send` are the handler of
`POST /api/user/orders`; `RequestFails`, `SystemBusy`, `StillProcessing`, `Answered`,
`Record` are the outcomes of `ProcessAccrualTask`, the answer of the accrual system
and its write being two steps. A storage transaction is one step of `Ledger`,
which `SQLStorage` is shown to implement; its commit may be reported as failed
(`CallFails`). The accrual system (external) advances the calculation of an order
through absent, REGISTERED, PROCESSING to INVALID or PROCESSED, possibly skipping
stages. Handlers and answers end with the process, tables do not.

**Session.** A request is a sequence of statements (`pc`): `Insert`/`Commit` for a
registration (the unique index makes an insert wait for another transaction
with the same login), `Find` for a login, `Add`/`Whose` for an upload. The user of a
registration or a login is decoded from the body (`FromBody`), its `id` included: a
registration replaces it by the id that the database makes, a login leaves it in the
token, which is empty without one. So the owner of an order need not be in the table
of users, and no property says so. The cookie is the login and the id of its JWT, and,
as history, the password of the request that it answered. `Expire` ends it, `Crash`
ends all requests and keeps cookies and tables. A password stands for its bcrypt hash.

**Startup.** `main` goes from `"connecting"` through `"migrating"`, `"building"`,
`"starting"` to `"waiting"`: `Ping`/`Rest` are `PsqlConnect`, `Migrate` is
`PgMigrator.Apply`, `Build` is `NewRouter` with its `RestoreQueue`, `Listen` the
goroutine of `ListenAndServe`, `Notify`, `StartupError`, `Drain` and `Leave` are
`waitServer`. `Signal` comes at any time: it cancels the context, but it is heard by
`waitServer` only after `Notify`. The script of the migration is a transaction that
creates the tables, or fails when they are there. `Shipping` says what a process
may find at `./migrations/`; it may differ from start to start. A start that finds no
file goes on whether there are tables or not (`skipped`), and serves without them if
there are none; its requests then fail at the database. The pool is reduced to `pool` (its queue is
empty or not, or dumped) and the dump to `filed`; `WorkerPool` has the detail.

**PoolLife.** What `Startup` and `WorkerPool` agree on. A process begins, restores (the dump
goes to the queue and leaves the file, or stays in the file and is not queued), is
stopped, ends; only a stopped pool truncates and writes the file, and writes nothing
that was not in the queue. In `WorkerPool` the queue is whatever a channel, the stack or a
hand holds (`InMemory`), and a dump that was erased but not yet appended still counts
as the dump (`Filed`), which the end of the process may lose.

**Responses.** A body is the sequence of the pieces that a handler writes, each
piece given by the position in the body where it ends; so a body that loses,
doubles or swaps a piece is another sequence, and its length is its last member
(`Size`). A record holds the fields of `GzipWriter` and what net/http has sent;
`GWriteHeader`, `GWrite`, `GClose`, `StartGzip` are its methods, `LogHeader` the
logger's writer underneath and `NetHeader`, `NetWrite` net/http (external): the
header is sent once, as it is then.

**Server.** `at` says where the one request is: `"check"` and `"store"` are
`WithdrawBalance`, `"query"` the handlers that only read, `"header"`, `"write"`,
`"timeout"`, `"log"` the way of the answer through the middleware, outermost last.
`Store` may commit although it answers 500; `Fails` is a failed call, a cancelled
context or missing tables. `HandleOther` stands for any other handler behind the
compression: it sets a status or not, announces a length or not, writes any pieces.
`Tick` lets the write timeout (10 s) and then the processing timeout (60 s) pass.
`Handling` and `Form` are what handlers and clients may do. Amounts of a request are
decimals as typed; `Decoded(d)` is the *set* of the kopecks that `UnmarshalJSON`
may make of it: a double is off by an `Error` that grows with the sum, so two kopecks
for a half, or for something near it if the sum is large, and more from about 2^53.
`Tenths(d)` is the decimal itself, in tenths of a kopeck, and `Precise` says that the
double is off by less than one of them (below 2*10^12 roubles); `FitsInt` bounds the
sums to those that an `int` of kopecks holds, since the conversion of a larger double
is not defined. `Encoded(k)` is what `MarshalJSON` writes; `Accrued(d)` is `SetAccrual`,
which cuts. `ListWithdrawals` does not ask for `rows.Err()`: when the connection or the
context ends while the rows are read, `ReadList` answers those read so far, with 200,
or with 204 if there are none.

## 3. The runs

| run | bounds | distinct states | what it shows |
|---|---|---|---|
| `pool` | 2 orders, 1 worker, both channels of 1, failing file operations | 105,397 | the pool never duplicates, revives or mislays a task nor loses a wake-up; every task ends or is dropped; after a signal all goroutines return; the pool implements `PoolLife` |
| `storage` | 2 clients, 3 operations, 1 order, 1 user, sums -1 and 1 | 658,363 | SQL implements the ledger; books balance; retries apply once; no deadlock |
| `orders` | 1 order, 2 users, 2 handlers, 2 workers, everything fails | 314,357 | credited once and to the owner, balances match the list of orders, status never returns, tasks match rows, the pool is used as required |
| `orders_settle` | 1 order, 1 worker, nothing fails | 44,539 | an order in calculation gets its final status |
| `session` | 2 clients, 1 login, 2 passwords, 2 orders, 3 ids, bodies with and without one, failing calls | 312,908 | registrations last, tokens are earned, answers stay true, requests end |
| `server` | 1 client, 2 withdrawals, 1 accrual, 13 forms, handlers of up to 3 pieces, threshold 1, failing calls, all `Shipping` | 1,151,051 | what a client is told was done is done; it reads what the handlers wrote; a start decides and a shutdown ends; the server's pool implements `PoolLife` |
| `orders_registered`, `pool_stack_saved`, `pool_panic`, `storage_whole_balance`, `session_login`, `server_restart` | as small as shows it | | the findings of section 6 |

The bounds are chosen so that the interesting cases happen. Channels of capacity
1 are full after one task, so every blocking and every dropping branch is
taken; with two orders one is in a hand or in a channel while the other is in
the stack, in the file or about to be sent. One worker keeps `pool` small enough
to check liveness, too; two workers are in `orders`, and the safety properties
are proved for any number (section 5). There, two workers are enough for two
processings at once, one handler more than the order needs for two uploads that
race, and one order is enough because orders meet only in the pool. Three
storage operations let two transactions overlap after one that funded the account; more clients only wait
for the same two locks. A sum of -1 is enough to make a report short, and 1 to be
refused. In `session` two clients dispute one login with a password each; one of them
sends an id, which is that of a registered user, of one registered later, or of
nobody, so that tokens with either id and with none upload the same two numbers. In
`server` 1.05 is credited and two withdrawals
(`MaxRows`) may be tried: 0.496 is between two kopecks, -0.005 is negative and exactly
half of one,
2 is more than there is, and comes with the right and wrong numbers; a threshold of
1 puts every length (none, at the threshold, over it at once or while writing) into
three pieces. Bound: the other handlers are only asked while nothing was credited or
withdrawn (`AskOther`), since they do not read the tables, and the accrual comes once.
`MaxDigits` (3) bounds the digits after the point: two are kopecks, the third
decides the rounding. `MaxOps` bounds the operations of a storage
behaviour; `Storage.cfg` and `StorageWholeBalance.cfg` say `CHECK_DEADLOCK FALSE`
because a behaviour stops when it has used them up. Nothing else is bounded; the
pool's variables are finite because an order is accepted once.

**Fairness.** Weak fairness of the reader, the dispatcher, every worker, the
restore and the closing of `linkCh`: the Go scheduler runs a goroutine that can
run, the channels' operations and timers end. Not of `Signal`, `Kill`, `Restart`,
`Upload`: nobody has to call. Strong fairness of `Finishing(o)` in `WorkerPool`: an
accrual system that is asked again and again about an order once gives an
answer that ends its processing. It is replaced in `OrderProcessing` by its causes:
weak fairness of `Calculate(o)` (every calculation ends) and strong fairness of
`Answers(o)` (429 is not for ever). In `SQLStorage` and `Session` every client's
next statement is weakly fair: PostgreSQL answers, and it grants a lock that is
free. Strong fairness is needed because each retry of a task is a new attempt,
between which the action is disabled. In `Server` the main goroutine and the one of
`ListenAndServe` are weakly fair: pings, rests and the timeout of `server.Shutdown`
end. Not of requests, which may hang for ever (`ShutdownEnds` holds all the same),
nor of `Launch`, `Signal`, `Credit`.

Every property of a passing run has a mutant: a variant of one definition, kept
next to the original and marked `Mutant` (the reader that forgets its token, a
dump that stays in place, a task sent twice, an unchecked commit, ...), under
which TLC finds the property violated with the run's own configuration.

## 4. The properties

Each module states its properties at its end with the reasons; in short: the
pool has `OneCopy`, `NoZombie`, `NothingMislaid` (a task exists exactly once while
its order is accepted and not done), `NoLostWakeup`, `HandsPassOn`, `QueueDrains`,
`PoolStops` and the refinement
`PoolLifeSpec`; the storage `BooksBalance`, `AppliedOnce`, `ReportNotShort`,
`OperationsEnd` and the refinement `LedgerSpec`; the whole `CreditedAsListed`,
`PointsAsListed`, `ListedAsCalculated`, `StatusAdvances`, `TaskMatchesRow`, `OrderSettles`
and the refinement `Spec`;
sessions `Acknowledged`, `TokensEarned`, `AnswersStayTrue`, `RequestsEnd`; the server
`ToldAsDone`, `ShownAddsUp`, `TyposRefused` (what a client is told, shown and saved
from), `ReadAsWritten`, `CompressedIfLong`, `LogTellsStatus` (the way of an answer),
`TablesFirst`, `StartDecides`, `ShutdownEnds`, `ServerPoolSpec` (the life of the process).

## 5. The proofs

For every set of orders, users, workers, handlers, clients, logins and points, every
capacity and every threshold. Assumed of the constants: capacities are positive
naturals, points, the threshold and the bounds naturals, the sums withdrawn integers,
the flags Boolean, forms, accruals and handlers of their types (a handler that sets no
status answers 200, and money fits an `int`, `FitsInt`), the
names of the workers differ from the names of the pool's places, and the markers of
an absent id, order or name are none of these.

| theorem | says |
|---|---|
| `WorkerPoolProofs!TypeCorrect`, `HandsCorrect` | `Spec => []TypeOK`, `[]HandsPassOn` |
| `WorkerPoolProofs!WakeupNeverLost` | `Spec => []NoLostWakeup` |
| `TaskCopiesProofs!OneTaskPerOrder`, `NoTaskReturns`, `NoTaskMislaid` | `Spec => []OneCopy`, `[]NoZombie`, `[]NothingMislaid` |
| `TaskCopiesProofs!PoolImplementsLife` | `Spec => PoolLifeSpec` |
| `StorageProofs!LedgerBooks`, `LedgerTypes` | the atomic ledger keeps its books and types |
| `StorageProofs!StorageImplementsLedger`, `StorageBooks` | `StorageSpec => LedgerSpec`, hence `[]BooksBalance` |
| `StorageProofs!StorageTypes`, `OneCommit`, `ReportsNotShort` | `StorageSpec => []TxTypeOK`, `[]AppliedOnce`, `[]ReportNotShort` |
| `OrderProofs!PoolUsedAsRequired` | `OrderSpec => Spec` |
| `OrderProofs!StorageUsedAsPromised`, `PointsArrive` | `OrderSpec => Storage!LedgerSpec`, `[]Storage!BooksBalance` |
| `OrderProofs!PointsReachOwners`, `DecisionsListed` | `OrderSpec => []PointsAsListed`, `[]ListedAsCalculated` |
| `OrderProofs!CreditedOnce`, `StatusNeverReturns`, `TasksMatchRows`, `OrderTypesCorrect` | `OrderSpec => []CreditedAsListed`, `StatusAdvances`, `[]TaskMatchesRow`, `[]OrderTypeOK` |
| `SessionProofs!SessionTypes`, `RegistrationsLast`, `TokensForPasswords`, `UploadAnswersStayTrue` | `SessionSpec => []SessionTypeOK`, `[]Acknowledged`, `[]TokensEarned`, `[]AnswersStayTrue` |
| `AmountProofs!AnswersReadBack`, `AccrualsReadBack` | what `MarshalJSON` writes is the amount, for every amount, and is read back as it if a double holds it; `SetAccrual` reads it too |
| `ServerProofs!FaithfulAnswers`, `OneThreshold`, `TruthfulLog` | `ServerSpec => []ReadAsWritten`, `[]CompressedIfLong`, `[]LogTellsStatus` |
| `ServerProofs!TruthfulWithdrawals` | `ServerSpec => []ToldAsDone` |
| `ServerProofs!AmountsAddUp` | `ServerSpec => []ShownAddsUp` |
| `SumProofs!SlipsRefused`, `ServerProofs!SlipsAreSeen` | the check digit refuses slips, for numbers of any length; `ServerSpec => []TyposRefused` |
| `ServerProofs!TablesComeFirst`, `ServerTypes` | `ServerSpec => []TablesFirst`, `[]ServerTypeOK` |
| `ServerProofs!ServerUsesPool` | `ServerSpec => ServerPoolSpec` |

The argument, bottom up:

1. `TypeInv` (types, and a hand is full exactly at the points that use it) is
   inductive. `WakeInv` adds `Idle`: a process that does not run has nobody moved,
   so that a restore finds an empty stack. `NoLostWakeup` is inductive with it.
2. `H` maps each place to the tasks in it. Nearly every step *moves* a set of tasks
   between two places, lets a new one *enter* or one *leave*; the lemmas `Move`, `Enter`,
   `Leave`, `Shrink` say what that does to `Copies` (no two copies, all live) and
   `Covers` (every live order somewhere). `CopyInv` needs two more parts: the dump
   file is empty between truncation and write, and the ended orders were
   accepted. The stack counts as empty once `dumpQueue` has read it.
3. `StorageProofs` shows that a statement other than the commit leaves the
   committed tables alone, and that the commit is the atomic operation: its guard
   held at an earlier statement and the locks kept it true since (`LockInv`).
4. `HandlersInv`: who is about to send an order has just inserted its row, so it
   was not accepted yet and nobody else is about to send it; by the primary key
   every order enters the pool once. So the composed system implements `Spec`,
   and 1 and 2 hold of it.
5. `OrderInv` adds: every task matches its row; a row is not ahead of the accrual
   system; an answer in a worker's hand is not behind its row nor ahead of the
   accrual system. When a worker writes, its task is the only one of the order
   (2), so no other task, answer or handler is disturbed; its task matches a row
   that is NEW or PROCESSING, so it was not credited before. Moves of the pool
   alone make no task that was not there (`MovesStayIn`, for any set of tasks).

6. `ClientInv`: until its last statement an operation has committed nothing; what a
   report has read so far makes, with the withdrawals as they are *now*, no less
   than it is owed. A withdrawal of a positive sum adds to the second, one of a
   negative sum takes as much from the first (`Owed`) as from the second
   (`SettledFairly`), and the books of 3 balance when the balance is read.
7. `SessionInv`: a login that is being committed is new and has one transaction (the
   unique index); the login of a token is registered, with the password that the
   token was given for. The table of users only grows and keeps its rows, so this
   stays true of tokens that outlive processes.
8. `AnswerInv` says of `GzipWriter` after any number of calls that the answer is in
   one of three states, `Held` (nothing sent, or a short body), `Zipping`, `Direct`
   (no writer), each with the part of the body that is still to come; one lemma
   per method. `TellInv` says what a withdrawal did to the table while its answer
   is under way; with it, what is told is what was done. `StartInv` orders the start:
   past the migration there are tables, if it was not skipped, and tasks are only
   where there are tables.

9. `SumProofs`: `SumFunction` is a fold over a set, in an order that `CHOOSE` fixes. That the
   recursive function behind it exists, and that a sum is the same in whatever order, is
   shown by induction in the form of sets: a set of subsets of a finite set that is
   not empty has a smallest member (`SmallestSubset`), and the set of those for
   which the sums differ would have one. `SumWithout`, `SumChanged` and
   `SumAppended` are what the rest uses. For the check digit: a slip changes one weight,
   or two neighbouring ones, by what is no multiple of ten (`Weight...`,
   `TensApart`), and separators do not matter (`StrippedPlain`).
10. `ShownInv`: balance and rows make what was earned, what an answer shows of a
   balance was read when they did, and of a list, some of the rows, each once
   (`RowsShown`); the amounts are written as they were (`AnswersReadBack`).
11. `PointsInv` adds to `OrderInv` that what was credited to a user is the sum over
   his PROCESSED rows. A new row adds nothing; a write changes the one summand of
   its row from 0 (it was not final, 5) to what is credited, to the user of the
   task, who is the owner of the row (5). With 3: `PointsAsListed`. `DecidedInv` adds
   that a final answer in a worker's hand *is* the calculation of its order, which
   is then final too and stays: `ListedAsCalculated`.
12. `LifeInv`: nothing is in memory before the goroutines start, only a cancelled pool
   dumps, and between `Erase` and `append` the file is empty. With it a step of a
   goroutine that leaves the file alone fills the queue, empties it or is not
   seen (`GoroutineSeen`), and `Save`, the restore and the end of a process are
   the steps of `PoolLife`. `StartInv` does the same for `Startup`; so what `Server`
   assumes of its pool is what was proved of the pool.

So every invariant and every action property of the passing runs is proved, and every
refinement. Model-checked only: the liveness properties (`QueueDrains`, `PoolStops`,
`OperationsEnd`, `OrderSettles`, `RequestsEnd`, `StartDecides`, `ShutdownEnds`), which
the prover does not reach because of fairness and `ENABLED`.

## 6. Where the code and its words differ

Each has a run with a counterexample (`PROJECT.json`, `findings`):

* `orders_registered`: after the answer REGISTERED, `ProcessAccrualTask` writes NEW
  and forgets the task; the accrual system calculates the order later, nobody asks.
* `pool_stack_saved`: a task appended while the dispatcher dumps is not saved
  (`pool.go:77` says the stack is).
* `pool_panic`: `linkCh` is closed while a worker may still requeue; the send panics
  and ends the process during the graceful shutdown.
* `storage_whole_balance`: `(balance + $2) > 0` refuses the withdrawal of exactly the
  whole balance.
* `session_login`: `Login` does not copy the id into the user that the token is made
  of; every later request with that token is answered 500.
* `server_restart`: a start that finds the migration's file applies it again, which
  fails (`ADD PRIMARY KEY`), and ends before it restores the dump.

Noticed without a run of their own:

* `main` returns without `pool.Wait()`, so the dump may be cut off (`Exit` is
  enabled at each of its points; the orders count as `lost`).
* `order_service.go:166` promises that an order that finds the channel full is read
  from the database later; no code does (`dropped`).
* A signal between `signal.NotifyContext` and the `signal.Notify` of `waitServer`, and
  every SIGQUIT, stops the pool and cancels the requests, but the process stays up.
* A missing `./migrations` directory ends the start, a missing file does not: without
  tables the process then serves, and every request that needs them is answered 500.
* `ListWithdrawals` does not ask for `rows.Err()`: after a cancellation or a failure in
  the middle the list is short with 200, or empty with 204, which
  `balance_actions.go` gives to a client without withdrawals. `ShownAddsUp` says what
  is still true: each item is a row, none is there twice.
* A withdrawal of a negative sum is taken: it raises the balance and lowers what was
  withdrawn, and committed between the two reads of `GetBalanceInfo` it makes their
  sum less than what was earned.
* A login keeps the `id` of its body in the token: the handlers behind the JWT check
  work for that id, whoever the login belongs to, or fail if there is none
  (`session_login`).
* A negative `Retry-After` panics in the dispatcher, at `time.NewTicker`.
* 504 reaches nobody with the timeouts as they are: the write timeout is the
  shorter one. It is in the log, as is 0 for a handler that sets no status.
* A withdrawal that is answered 500 may have been done; a client that repeats it
  withdraws twice.
* The upload of orders and the withdrawals do not unpack gzip bodies, though
  SPECIFICATION.md:62 lets clients send them.
* A second `WriteHeader` replaces the status while `GzipWriter` holds the answer back,
  and is ignored without it; `Close` sets `Content-Length` after the header was sent.
* The check digit is computed without spaces and dashes, the number is stored with
  them; an empty number is valid.
* `ListOrders` has no `ORDER BY` and answers 200 with an empty list where
  SPECIFICATION.md asks for the newest first and 204.

## 7. What is not modelled, and why

* The JSON dump: `NewRouter` always asks for Avro. The Avro encoding keeps number,
  user and status of a task; its layout is abstracted.
* Time: the length of pauses, of retry delays and HTTP timeouts. A rest ends, a
  timed-out call has failed.
  Only the order of the two timeouts of a request matters and is kept.
* Parsing of configuration, log lines other than the status, the layout of JSON; the
  query that lists orders (the list of withdrawals is in `Server`).
* Panics of handlers: `Recoverer` answers 500, but behind `GzipWriter`, whose deferred
  `Close` comes first, the client has already got the 200.
* Sums and accruals that no `int` of kopecks holds (`FitsInt`), more than three digits
  after the point (`MaxDigits`), and the exact error of a double: `Error` bounds it.
* The accrual client's retries of a failed connection: an answer or none in the end.
* Two clients of the *composed* server: they meet only in the database, whose
  concurrency is the subject of `SQLStorage` and `Session`.

## 8. The plan

Done: all modules of section 2, their runs and the proofs of section 5, for every
invariant, action property and refinement that a run checks. Left, for whoever goes on:

1. The accrual client's retries of a failed connection, with their delays, as a
   module of its own.
2. Safety that the liveness properties rest on, as theorems: a measure that the
   goroutines lower once the context is cancelled.
