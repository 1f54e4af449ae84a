----------------------------- MODULE SQLStorage -----------------------------
(***************************************************************************)
(* repositories/postgresql, statement by statement: transactions of        *)
(* concurrent clients (HTTP handlers and workers) under READ COMMITTED,    *)
(* with the row locks of PostgreSQL, withTxRetry, withRetry, and failures  *)
(* of any statement and of the commit.  The tables hold what is committed; *)
(* the writes of an open transaction follow from its operation and from    *)
(* the statement it has reached, and so do its locks.                      *)
(***************************************************************************)
EXTENDS Ledger, FiniteSets

CONSTANTS Client, MaxOps  \* bound: how many operations a behaviour starts

RetryingAttempts == 3

ASSUME MaxOpsAssumption == MaxOps \in Nat

VARIABLES
  started,   \* operations started so far
  op,        \* the operation of each client
  pc,        \* its next statement
  attempt,   \* the attempt of withTxRetry or withRetry, from 0
  reply,     \* what the last operation of the client returned
  commits,   \* history: commits of the current operation
  report     \* GetBalanceInfo: what its answer is owed, and the two sums read

tvars == <<started, op, pc, attempt, reply, commits, report>>
svars == <<lvars, tvars>>

Op == [kind : {"add"}, order : Order, user : User]
      \cup [kind : {"update"}, order : Order, user : User,
            status : Status \ {"PROCESSED"}, points : {0}]
      \cup [kind : {"update"}, order : Order, user : User,
            status : {"PROCESSED"}, points : Points \cup {0}]
      \cup [kind : {"withdraw"}, user : User, sum : Sum]
      \cup [kind : {"report"}, user : User]

Reply == {"none", "ok", "exists", "notEnough", "error"}

(* The types of the tables and of the clients' places in withTxRetry and   *)
(* withRetry, which try a statement RetryingAttempts times at most.        *)
TxTypeOK ==
  /\ LedgerTypeOK
  /\ started \in 0..MaxOps
  /\ \A c \in Client : pc[c] # "idle" => op[c] \in Op
  /\ pc \in [Client -> {"idle", "begin", "first", "second", "commit"}]
  /\ attempt \in [Client -> 0..(RetryingAttempts - 1)]
  /\ reply \in [Client -> Reply]
  /\ commits \in [Client -> Nat]

StorageInit ==
  /\ LedgerInit
  /\ started = 0
  /\ op = [c \in Client |-> [kind |-> "none"]]
  /\ pc = [c \in Client |-> "idle"]
  /\ attempt = [c \in Client |-> 0]
  /\ reply = [c \in Client |-> "none"]
  /\ commits = [c \in Client |-> 0]
  /\ report = [c \in Client |-> [since |-> 0, current |-> 0, withdrawn |-> 0]]

Pending(c) == pc[c] # "idle"
TouchesBalance(c) ==
  \/ op[c].kind = "withdraw"
  \/ op[c].kind = "update" /\ Pays(op[c].status, op[c].points)
Diff(c) == IF op[c].kind = "withdraw" THEN -op[c].sum ELSE op[c].points

(* A transaction locks the key of the order it has inserted or updated,    *)
(* and the row of the user whose balance it has changed, until it ends.    *)
LocksOrder(c, o) ==
  /\ pc[c] \in {"second", "commit"}
  /\ op[c].kind \in {"add", "update"} /\ op[c].order = o
(* Mutant: the row of the user is read without locking it.                 *)
LocksUserNever(c, u) == FALSE
LocksUser(c, u) == pc[c] = "commit" /\ TouchesBalance(c) /\ op[c].user = u

-----------------------------------------------------------------------------
Start(c, o) ==
  /\ ~Pending(c) /\ started < MaxOps
  /\ started' = started + 1
  /\ op' = [op EXCEPT ![c] = o]
  /\ pc' = [pc EXCEPT ![c] = IF o.kind = "report" THEN "first" ELSE "begin"]
  /\ attempt' = [attempt EXCEPT ![c] = 0]
  /\ commits' = [commits EXCEPT ![c] = 0]
  /\ report' = [report EXCEPT ![c].since = earned[o.user]]
  /\ UNCHANGED <<lvars, reply>>

Return(c, result) ==
  /\ pc' = [pc EXCEPT ![c] = "idle"]
  /\ reply' = [reply EXCEPT ![c] = result]

Goto(c, next) == pc' = [pc EXCEPT ![c] = next] /\ UNCHANGED reply

(* db.BeginTx; its error is returned at once.                              *)
Begin(c) ==
  /\ pc[c] = "begin"
  /\ Goto(c, "first") \/ Return(c, "error")
  /\ UNCHANGED <<lvars, started, op, attempt, commits, report>>

(* The first statement writes the order or inserts the withdrawal.  It     *)
(* waits for a transaction that has written the same key.                  *)
First(c) ==
  /\ pc[c] = "first" /\ op[c].kind # "report"
  /\ \/ /\ op[c].kind = "add"
        /\ \A d \in Client : ~LocksOrder(d, op[c].order)
        /\ IF op[c].order \in DOMAIN orders
             THEN Return(c, "exists") ELSE Goto(c, "commit")
     \/ /\ op[c].kind = "update"
        /\ \A d \in Client : ~LocksOrder(d, op[c].order)
        /\ Goto(c, IF TouchesBalance(c) THEN "second" ELSE "commit")
     \/ op[c].kind = "withdraw" /\ Goto(c, "second")
  /\ UNCHANGED <<lvars, started, op, attempt, commits, report>>

(* The second changes the balance: it waits for the row of the user and    *)
(* finds it only if the balance stays positive.                            *)
Second(c) ==
  /\ pc[c] = "second" /\ op[c].kind # "report"
  /\ \A d \in Client : ~LocksUser(d, op[c].user)
  /\ IF Covered(op[c].user, Diff(c))
       THEN Goto(c, "commit") ELSE Return(c, "notEnough")
  /\ UNCHANGED <<lvars, started, op, attempt, commits, report>>

Apply(o) ==
  \/ o.kind = "add" /\ Inserted(o.order, o.user)
  \/ o.kind = "update" /\ Written(o.order, o.user, o.status, o.points)
  \/ o.kind = "withdraw" /\ Debited(o.user, o.sum)

(* What a report is owed is what the user had earned when he asked, less   *)
(* the negative withdrawals of his that are committed between its reads.   *)
Owed(o) ==
  [d \in Client |->
     IF /\ o.kind = "withdraw" /\ o.sum < 0
        /\ op[d].kind = "report" /\ pc[d] = "second" /\ op[d].user = o.user
       THEN [report[d] EXCEPT !.since = @ + o.sum]
       ELSE report[d]]

(* Mutant: an error of the commit is retried like any other.               *)
CommitRetried(c) ==
  /\ pc[c] = "commit"
  /\ \/ /\ Apply(op[c])
        /\ commits' = [commits EXCEPT ![c] = @ + 1]
        /\ report' = Owed(op[c])
        /\ Return(c, "ok") \/ Goto(c, "begin")
     \/ Goto(c, "begin") /\ UNCHANGED <<lvars, commits, report>>
  /\ UNCHANGED <<started, op, attempt>>

(* tx.Commit: its error is returned and never retried, and leaves open     *)
(* whether the transaction was committed.                                  *)
Commit(c) ==
  /\ pc[c] = "commit"
  /\ \/ /\ Apply(op[c])
        /\ commits' = [commits EXCEPT ![c] = @ + 1]
        /\ report' = Owed(op[c])
        /\ Return(c, "ok") \/ Return(c, "error")
     \/ Return(c, "error") /\ UNCHANGED <<lvars, commits, report>>
  /\ UNCHANGED <<started, op, attempt>>

(* Mutants: one attempt too many; the attempts are not counted.            *)
FailOnceMore(c) ==
  /\ pc[c] \in {"first", "second"}
  /\ \/ /\ attempt[c] < RetryingAttempts
        /\ attempt' = [attempt EXCEPT ![c] = @ + 1]
        /\ Goto(c, IF op[c].kind = "report" THEN pc[c] ELSE "begin")
     \/ Return(c, "error") /\ UNCHANGED attempt
  /\ UNCHANGED <<lvars, started, op, commits, report>>

FailUncounted(c) ==
  /\ pc[c] \in {"first", "second"}
  /\ Goto(c, IF op[c].kind = "report" THEN pc[c] ELSE "begin")
  /\ UNCHANGED <<lvars, started, op, attempt, commits, report>>

(* A statement fails and the transaction is rolled back; a retriable error *)
(* starts it again after a delay, up to RetryingAttempts attempts.         *)
Fail(c) ==
  /\ pc[c] \in {"first", "second"}
  /\ \/ /\ attempt[c] + 1 < RetryingAttempts
        /\ attempt' = [attempt EXCEPT ![c] = @ + 1]
        /\ Goto(c, IF op[c].kind = "report" THEN pc[c] ELSE "begin")
     \/ Return(c, "error") /\ UNCHANGED attempt
  /\ UNCHANGED <<lvars, started, op, commits, report>>

(* db.GetUserByID and db.GetWithdrawn, each with a snapshot of its own.    *)
GetBalance(c) == report' = [report EXCEPT ![c].current = balance[op[c].user]]
GetWithdrawn(c) == report' = [report EXCEPT ![c].withdrawn = withdrawn[op[c].user]]

(* Mutant: the withdrawals are read before the balance.                    *)
ReportSwapped(c) ==
  /\ op[c].kind = "report"
  /\ \/ /\ pc[c] = "first" /\ GetWithdrawn(c) /\ Goto(c, "second")
        /\ attempt' = [attempt EXCEPT ![c] = 0]
     \/ pc[c] = "second" /\ GetBalance(c) /\ Return(c, "ok") /\ UNCHANGED attempt
  /\ UNCHANGED <<lvars, started, op, commits>>

(* GetBalanceInfo: two statements, each in a withRetry of its own.         *)
Report(c) ==
  /\ op[c].kind = "report"
  /\ \/ /\ pc[c] = "first" /\ GetBalance(c) /\ Goto(c, "second")
        /\ attempt' = [attempt EXCEPT ![c] = 0]
     \/ pc[c] = "second" /\ GetWithdrawn(c) /\ Return(c, "ok") /\ UNCHANGED attempt
  /\ UNCHANGED <<lvars, started, op, commits>>

Step(c) == Begin(c) \/ First(c) \/ Second(c) \/ Commit(c) \/ Fail(c) \/ Report(c)

StorageNext == \E c \in Client : Step(c) \/ \E o \in Op : Start(c, o)

StorageSpec == StorageInit /\ [][StorageNext]_svars

(* Every client goroutine runs on, and PostgreSQL answers its statements.  *)
FairStorageSpec == StorageSpec /\ \A c \in Client : WF_svars(Step(c))

-----------------------------------------------------------------------------
(* An operation is applied once at most, whatever withTxRetry repeats; it  *)
(* is applied if it returns ok and not if it returns a refusal.            *)
AppliedOnce ==
  \A c \in Client :
    /\ commits[c] <= 1
    /\ ~Pending(c) /\ op[c].kind \in {"add", "update", "withdraw"} =>
         /\ reply[c] = "ok" => commits[c] = 1
         /\ reply[c] \in {"exists", "notEnough"} => commits[c] = 0

(* The two sums of GetBalanceInfo come from different moments.  A credit   *)
(* or a withdrawal between them never makes their sum less than what the   *)
(* user had earned when he asked: the balance is read before the           *)
(* withdrawals.  Only a negative withdrawal can (the code takes it), and   *)
(* by no more than what it takes back.                                     *)
ReportNotShort ==
  \A c \in Client :
    ~Pending(c) /\ op[c].kind = "report" /\ reply[c] = "ok" =>
      report[c].current + report[c].withdrawn >= report[c].since

(* No deadlock: the transactions take the order key before the user row,   *)
(* one of each, so every operation that starts returns.                    *)
OperationsEnd == \A c \in Client : Pending(c) ~> ~Pending(c)

(* handlers/balance_actions.go:117: 402 means that the funds do not        *)
(* suffice.  So a withdrawal is refused only if the balance is below it.   *)
RefusedOnlyIfShort ==
  [][\A c \in Client :
       /\ pc[c] = "second" /\ pc'[c] = "idle" /\ reply'[c] = "notEnough"
       /\ op[c].kind = "withdraw"
       => balance[op[c].user] < op[c].sum]_svars
=============================================================================
