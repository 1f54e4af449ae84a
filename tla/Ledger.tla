------------------------------- MODULE Ledger -------------------------------
(***************************************************************************)
(* What the storage promises (repositories/postgresql): the tables orders, *)
(* users (the balances) and withdrawals (their sum per user), changed by   *)
(* three atomic transactions.  Amounts are in kopecks.                     *)
(***************************************************************************)
EXTENDS Integers

CONSTANTS Order, User,
          Points,   \* accruals that the accrual system grants
          Sum       \* sums that users withdraw; nothing refuses a negative one

ASSUME PointsAssumption == Points \subseteq Nat
ASSUME SumAssumption == Sum \subseteq Int

VARIABLES
  orders,     \* table orders: from the stored order numbers to their rows
  balance,    \* users.balance
  withdrawn,  \* SUM(withdrawals.withdrawn) per user
  credits,    \* history: how many times each order was credited
  earned      \* history: all that was credited to a user

lvars == <<orders, balance, withdrawn, credits, earned>>

Final == {"INVALID", "PROCESSED"}
Status == {"NEW", "PROCESSING"} \cup Final
Row == [user : User, status : Status, accrual : Points \cup {0}]

LedgerTypeOK ==
  /\ DOMAIN orders \subseteq Order
  /\ \A o \in DOMAIN orders : orders[o] \in Row
  /\ balance \in [User -> Nat] /\ withdrawn \in [User -> Int]
  /\ credits \in [Order -> Nat] /\ earned \in [User -> Nat]

LedgerInit ==
  /\ orders = [o \in {} |-> 0]
  /\ balance = [u \in User |-> 0] /\ withdrawn = [u \in User |-> 0]
  /\ credits = [o \in Order |-> 0] /\ earned = [u \in User |-> 0]

Put(o, row) ==
  orders' = [x \in DOMAIN orders \cup {o} |-> IF x = o THEN row ELSE orders[x]]

(* Mutant: the balance is changed whatever it is.                          *)
CoveredAlways(u, diff) == TRUE

(* The guard of QueryUpdateUserBalance: strictly positive afterwards.      *)
Covered(u, diff) == balance[u] + diff > 0

(* What the committed transactions do.                                     *)
Inserted(o, u) ==
  /\ Put(o, [user |-> u, status |-> "NEW", accrual |-> 0])
  /\ UNCHANGED <<balance, withdrawn, credits, earned>>

Pays(status, points) == status = "PROCESSED" /\ points > 0

(* Mutant: the UPDATE of the balance has no WHERE.                         *)
WrittenToAll(o, u, status, points) ==
  /\ Put(o, [user |-> IF o \in DOMAIN orders THEN orders[o].user ELSE u,
             status |-> status, accrual |-> points])
  /\ IF Pays(status, points)
       THEN /\ balance' = [v \in User |-> balance[v] + points]
            /\ earned' = [v \in User |-> earned[v] + points]
            /\ credits' = [credits EXCEPT ![o] = @ + 1]
       ELSE UNCHANGED <<balance, credits, earned>>
  /\ UNCHANGED withdrawn

(* An upsert that keeps the owner of an existing row; the credit goes to   *)
(* the user of the task.                                                   *)
Written(o, u, status, points) ==
  /\ Put(o, [user |-> IF o \in DOMAIN orders THEN orders[o].user ELSE u,
             status |-> status, accrual |-> points])
  /\ IF Pays(status, points)
       THEN /\ balance' = [balance EXCEPT ![u] = @ + points]
            /\ earned' = [earned EXCEPT ![u] = @ + points]
            /\ credits' = [credits EXCEPT ![o] = @ + 1]
       ELSE UNCHANGED <<balance, credits, earned>>
  /\ UNCHANGED withdrawn

Debited(u, sum) ==
  /\ balance' = [balance EXCEPT ![u] = @ - sum]
  /\ withdrawn' = [withdrawn EXCEPT ![u] = @ + sum]
  /\ UNCHANGED <<orders, credits, earned>>

-----------------------------------------------------------------------------
(* Mutant: the insert replaces a row that exists.                          *)
AddOrderAgain(o, u) == Inserted(o, u)

(* The primary key admits an order number once.                            *)
AddOrder(o, u) == o \notin DOMAIN orders /\ Inserted(o, u)

UpdateOrder(o, u, status, points) ==
  /\ Pays(status, points) => Covered(u, points)
  /\ Written(o, u, status, points)

(* The withdrawal row and the debit, or neither.  A negative sum raises    *)
(* the balance: no caller and no constraint of a table checks its sign.    *)
AddWithdrawn(u, sum) == Covered(u, -sum) /\ Debited(u, sum)

LedgerNext ==
  \/ \E o \in Order, u \in User : AddOrder(o, u)
  \/ \E o \in Order, u \in User, s \in Status, p \in Points \cup {0} :
       UpdateOrder(o, u, s, p)
  \/ \E u \in User, s \in Sum : AddWithdrawn(u, s)

(* The storage as its callers see it: every transaction is one step.       *)
LedgerSpec == LedgerInit /\ [][LedgerNext]_lvars

(* Money is neither made nor lost: what a user has and has withdrawn is    *)
(* what was credited, and a balance never goes below zero.                 *)
BooksBalance ==
  \A u \in User : balance[u] + withdrawn[u] = earned[u] /\ balance[u] >= 0
=============================================================================
