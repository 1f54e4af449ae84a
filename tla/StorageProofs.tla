---------------------------- MODULE StorageProofs ----------------------------
(***************************************************************************)
(* The storage implements the ledger, for every number of clients, orders, *)
(* users and operations: its interleaved statements and retries amount to  *)
(* atomic transactions.  And the books of the ledger balance.              *)
(***************************************************************************)
EXTENDS SQLStorage, TLAPS

USE DEF lvars, tvars, svars

-----------------------------------------------------------------------------
(* The ledger.                                                             *)

Books ==
  /\ balance \in [User -> Int] /\ withdrawn \in [User -> Int]
  /\ earned \in [User -> Int]
  /\ BooksBalance

(* The guards Covered and the equal amounts on both sides keep the books.  *)
LEMMA BooksNext == Books /\ [LedgerNext]_lvars => Books'
<1> SUFFICES ASSUME Books, [LedgerNext]_lvars PROVE Books'
  OBVIOUS
<1> USE DEF Books, BooksBalance
<1>1. ASSUME NEW o \in Order, NEW u \in User, AddOrder(o, u) PROVE Books'
  BY <1>1 DEF AddOrder, Inserted
<1>2. ASSUME NEW o \in Order, NEW u \in User, NEW s \in Status,
             NEW p \in Points \cup {0}, UpdateOrder(o, u, s, p)
      PROVE  Books'
  <2>1. p \in Nat
    BY PointsAssumption
  <2>2. CASE Pays(s, p)
    BY <1>2, <2>1, <2>2 DEF UpdateOrder, Written, Covered
  <2>3. CASE ~Pays(s, p)
    BY <1>2, <2>3 DEF UpdateOrder, Written
  <2> QED BY <2>2, <2>3
<1>3. ASSUME NEW u \in User, NEW s \in Sum, AddWithdrawn(u, s) PROVE Books'
  <2>1. s \in Int
    BY SumAssumption
  <2> QED BY <1>3, <2>1 DEF AddWithdrawn, Debited, Covered
<1>4. CASE UNCHANGED lvars
  BY <1>4
<1> QED BY <1>1, <1>2, <1>3, <1>4 DEF LedgerNext

(* What a user has and has withdrawn is what was credited to him, and his  *)
(* balance is never negative, for any amounts: updateUserBalanceTx changes *)
(* a balance only under its guard and together with the other row.         *)
THEOREM LedgerBooks == LedgerSpec => []BooksBalance
<1>1. LedgerInit => Books
  BY DEF LedgerInit, Books, BooksBalance
<1> QED BY <1>1, BooksNext, PTL DEF LedgerSpec, Books

LEMMA LedgerTypesNext ==
  Books /\ LedgerTypeOK /\ [LedgerNext]_lvars => LedgerTypeOK'
<1> SUFFICES ASSUME Books, LedgerTypeOK, [LedgerNext]_lvars
             PROVE  LedgerTypeOK'
  OBVIOUS
<1>1. Books'
  BY BooksNext
<1>2. balance' \in [User -> Nat]
  BY <1>1 DEF Books, BooksBalance
<1> USE DEF LedgerTypeOK
<1>3. ASSUME NEW o \in Order, NEW u \in User, AddOrder(o, u)
      PROVE  LedgerTypeOK'
  <2>1. [user |-> u, status |-> "NEW", accrual |-> 0] \in Row
    BY DEF Row, Status
  <2> QED BY <1>3, <2>1 DEF AddOrder, Inserted, Put
<1>4. ASSUME NEW o \in Order, NEW u \in User, NEW s \in Status,
             NEW p \in Points \cup {0}, UpdateOrder(o, u, s, p)
      PROVE  LedgerTypeOK'
  <2> DEFINE row == [user |-> IF o \in DOMAIN orders THEN orders[o].user ELSE u,
                     status |-> s, accrual |-> p]
  <2>1. row \in Row /\ Put(o, row) /\ UNCHANGED withdrawn
    BY <1>4 DEF Row, UpdateOrder, Written
  <2>2. p \in Nat
    BY PointsAssumption
  <2>3. credits' \in [Order -> Nat] /\ earned' \in [User -> Nat]
    BY <1>4, <2>2 DEF UpdateOrder, Written
  <2> HIDE DEF row
  <2>4. /\ DOMAIN orders' \subseteq Order
        /\ \A x \in DOMAIN orders' : orders'[x] \in Row
    BY <2>1 DEF Put
  <2> QED BY <1>2, <2>1, <2>3, <2>4
<1>5. ASSUME NEW u \in User, NEW s \in Sum, AddWithdrawn(u, s)
      PROVE  LedgerTypeOK'
  <2>1. s \in Int
    BY SumAssumption
  <2> QED BY <1>2, <1>5, <2>1 DEF AddWithdrawn, Debited
<1>6. CASE UNCHANGED lvars
  BY <1>6
<1> QED BY <1>3, <1>4, <1>5, <1>6 DEF LedgerNext

(* The tables hold rows of their types.  The balances are natural numbers  *)
(* because the books balance; the sum of a user's withdrawals is any       *)
(* integer, for the code takes a negative withdrawal.                      *)
THEOREM LedgerTypes == LedgerSpec => []LedgerTypeOK
<1>1. LedgerInit => Books /\ LedgerTypeOK
  BY DEF LedgerInit, Books, BooksBalance, LedgerTypeOK
<1> QED BY <1>1, BooksNext, LedgerTypesNext, PTL DEF LedgerSpec

(* What was earned only grows.                                             *)
LEMMA EarnedGrows ==
  ASSUME LedgerTypeOK, [LedgerNext]_lvars, NEW u \in User
  PROVE  earned[u] \in Nat /\ earned'[u] >= earned[u]
<1> USE DEF LedgerTypeOK
<1>1. ASSUME NEW o \in Order, NEW v \in User, AddOrder(o, v)
      PROVE  earned' = earned
  BY <1>1 DEF AddOrder, Inserted
<1>2. ASSUME NEW o \in Order, NEW v \in User, NEW s \in Status,
             NEW p \in Points \cup {0}, UpdateOrder(o, v, s, p)
      PROVE  earned'[u] >= earned[u]
  <2>1. p \in Nat
    BY PointsAssumption
  <2> QED BY <1>2, <2>1 DEF UpdateOrder, Written
<1>3. ASSUME NEW v \in User, NEW s \in Sum, AddWithdrawn(v, s)
      PROVE  earned' = earned
  BY <1>3 DEF AddWithdrawn, Debited
<1> QED BY <1>1, <1>2, <1>3 DEF LedgerNext

-----------------------------------------------------------------------------
(* The storage implements the ledger.                                      *)

(* What the locks guarantee: a key or a row has one writer, and what a     *)
(* transaction has checked still holds when it commits.                    *)
LockInv ==
  /\ pc \in [Client -> {"idle", "begin", "first", "second", "commit"}]
  /\ balance \in [User -> Int] /\ DOMAIN op = Client
  /\ \A c \in Client : pc[c] # "idle" => op[c] \in Op
  /\ \A c \in Client : op[c].kind = "report" => pc[c] # "commit"
  /\ \A c \in Client : op[c].kind = "add" => pc[c] # "second"
  /\ \A c, d \in Client, o \in Order : LocksOrder(c, o) /\ LocksOrder(d, o) => c = d
  /\ \A c, d \in Client, u \in User : LocksUser(c, u) /\ LocksUser(d, u) => c = d
  /\ \A c \in Client : pc[c] = "commit" /\ op[c].kind = "add"
                         => op[c].order \notin DOMAIN orders
  /\ \A c \in Client : pc[c] = "commit" /\ TouchesBalance(c)
                         => Covered(op[c].user, Diff(c))

LEMMA LockInit == StorageInit => LockInv
  BY DEF StorageInit, LedgerInit, LockInv, LocksOrder, LocksUser

(* What an update operation carries.                                       *)
LEMMA UpdateOp ==
  ASSUME NEW o \in Op, o.kind = "update"
  PROVE  /\ o.order \in Order /\ o.user \in User
         /\ o.status \in Status /\ o.points \in Points \cup {0}
<1>1. \/ o \in [kind : {"update"}, order : Order, user : User,
                status : Status \ {"PROCESSED"}, points : {0}]
      \/ o \in [kind : {"update"}, order : Order, user : User,
                status : {"PROCESSED"}, points : Points \cup {0}]
  BY DEF Op
<1> QED BY <1>1 DEF Status, Final

(* A commit does what the ledger does in one step.                         *)
LEMMA CommitIsLedgerStep ==
  ASSUME LockInv, NEW c \in Client, Commit(c) PROVE [LedgerNext]_lvars
<1>1. op[c] \in Op /\ pc[c] = "commit" /\ op[c].kind # "report"
  BY DEF Commit, LockInv
<1>2. CASE UNCHANGED lvars
  BY <1>2
<1>3. CASE Apply(op[c]) /\ op[c].kind = "add"
  <2>1. op[c].order \in Order /\ op[c].user \in User
    BY <1>1, <1>3 DEF Op
  <2>2. AddOrder(op[c].order, op[c].user)
    BY <1>1, <1>3 DEF Apply, AddOrder, LockInv
  <2> QED BY <2>1, <2>2 DEF LedgerNext
<1>4. CASE Apply(op[c]) /\ op[c].kind = "update"
  <2>1. /\ op[c].order \in Order /\ op[c].user \in User
        /\ op[c].status \in Status /\ op[c].points \in Points \cup {0}
    BY <1>1, <1>4, UpdateOp
  <2>2. Pays(op[c].status, op[c].points) => Covered(op[c].user, op[c].points)
    BY <1>1, <1>4 DEF LockInv, TouchesBalance, Diff
  <2>3. UpdateOrder(op[c].order, op[c].user, op[c].status, op[c].points)
    BY <1>4, <2>2 DEF Apply, UpdateOrder
  <2> QED BY <2>1, <2>3 DEF LedgerNext
<1>5. CASE Apply(op[c]) /\ op[c].kind = "withdraw"
  <2>1. op[c].user \in User /\ op[c].sum \in Sum
    BY <1>1, <1>5 DEF Op
  <2>2. Covered(op[c].user, -op[c].sum)
    BY <1>1, <1>5 DEF LockInv, TouchesBalance, Diff
  <2>3. AddWithdrawn(op[c].user, op[c].sum)
    BY <1>5, <2>2 DEF Apply, AddWithdrawn
  <2> QED BY <2>1, <2>3 DEF LedgerNext
<1>6. UNCHANGED lvars \/ Apply(op[c])
  BY DEF Commit
<1>7. Apply(op[c]) => op[c].kind \in {"add", "update", "withdraw"}
  BY DEF Apply
<1> QED BY <1>2, <1>3, <1>4, <1>5, <1>6, <1>7

LEMMA StepIsLedgerStep ==
  LockInv /\ [StorageNext]_svars => [LedgerNext]_lvars
<1> SUFFICES ASSUME LockInv, StorageNext PROVE [LedgerNext]_lvars
  OBVIOUS
<1>1. ASSUME NEW c \in Client, Step(c), ~Commit(c) PROVE UNCHANGED lvars
  BY <1>1 DEF Step, Begin, First, Second, Fail, Report
<1>2. ASSUME NEW c \in Client, NEW o \in Op, Start(c, o) PROVE UNCHANGED lvars
  BY <1>2 DEF Start
<1> QED BY <1>1, <1>2, CommitIsLedgerStep DEF StorageNext

(* A step of c that leaves the tables alone keeps what the others have     *)
(* locked and checked.                                                     *)
LEMMA OthersKeep ==
  ASSUME LockInv, NEW c \in Client, UNCHANGED lvars, DOMAIN op' = Client,
         \A d \in Client \ {c} : pc'[d] = pc[d] /\ op'[d] = op[d],
         pc' \in [Client -> {"idle", "begin", "first", "second", "commit"}],
         pc'[c] # "idle" => op'[c] \in Op,
         op'[c].kind = "report" => pc'[c] # "commit",
         op'[c].kind = "add" => pc'[c] # "second",
         \A o \in Order : LocksOrder(c, o)' =>
            LocksOrder(c, o) \/ \A d \in Client : ~LocksOrder(d, o),
         \A u \in User : LocksUser(c, u)' =>
            LocksUser(c, u) \/ \A d \in Client : ~LocksUser(d, u),
         (pc[c] = "commit" /\ op[c].kind = "add" => op[c].order \notin DOMAIN orders)',
         (pc[c] = "commit" /\ TouchesBalance(c) => Covered(op[c].user, Diff(c)))'
  PROVE  LockInv'
<1>1. \A d \in Client \ {c}, o \in Order : LocksOrder(d, o)' <=> LocksOrder(d, o)
  BY DEF LocksOrder
<1>2. \A d \in Client \ {c}, u \in User : LocksUser(d, u)' <=> LocksUser(d, u)
  BY DEF LocksUser, TouchesBalance
<1>3. \A d \in Client \ {c} : /\ TouchesBalance(d)' <=> TouchesBalance(d)
                             /\ Diff(d)' = Diff(d)
  BY DEF TouchesBalance, Diff
<1>4. \A d, e \in Client, o \in Order :
         LocksOrder(d, o)' /\ LocksOrder(e, o)' => d = e
  BY <1>1 DEF LockInv
<1>5. \A d, e \in Client, u \in User :
         LocksUser(d, u)' /\ LocksUser(e, u)' => d = e
  BY <1>2 DEF LockInv
<1>6. (\A d \in Client : pc[d] = "commit" /\ TouchesBalance(d)
         => Covered(op[d].user, Diff(d)))'
  BY <1>3 DEF LockInv, Covered
<1>7. (\A d \in Client : pc[d] = "commit" /\ op[d].kind = "add"
         => op[d].order \notin DOMAIN orders)'
  BY DEF LockInv
<1> QED BY <1>4, <1>5, <1>6, <1>7 DEF LockInv

(* A commit changes what only its own client had locked.                   *)
LEMMA CommitKeeps ==
  ASSUME LockInv, NEW c \in Client, Commit(c) PROVE LockInv'
<1>1. /\ op[c] \in Op /\ pc[c] = "commit" /\ pc'[c] = "idle" /\ op' = op
      /\ \A d \in Client \ {c} : pc'[d] = pc[d]
      /\ pc' \in [Client -> {"idle", "begin", "first", "second", "commit"}]
  BY DEF Commit, Return, LockInv
<1>2. CASE UNCHANGED lvars
  BY <1>1, <1>2, OthersKeep DEF LockInv, LocksOrder, LocksUser
<1>3. CASE Apply(op[c])
  <2>1. balance' \in [User -> Int]
    <3>1. Points \cup {0} \subseteq Int /\ Sum \subseteq Int
      BY PointsAssumption, SumAssumption
    <3>2. balance \in [User -> Int]
      BY DEF LockInv
    <3>3. CASE op[c].kind = "add" \/ UNCHANGED balance
      BY <1>3, <3>2, <3>3 DEF Apply, Inserted
    <3>4. CASE op[c].kind = "update" /\ ~UNCHANGED balance
      <4>1. op[c].points \in Points \cup {0}
        BY <1>1, <3>4, UpdateOp
      <4>2. op[c].points \in Int
        BY <3>1, <4>1
      <4> QED BY <1>3, <3>2, <3>4, <4>2 DEF Apply, Written
    <3>5. CASE op[c].kind = "withdraw"
      <4>1. op[c].sum \in Int
        BY <1>1, <3>1, <3>5 DEF Op
      <4> QED BY <1>3, <3>2, <3>5, <4>1 DEF Apply, Debited
    <3> QED BY <1>3, <3>3, <3>4, <3>5 DEF Apply
  <2>2. ASSUME NEW d \in Client, pc'[d] = "commit", op[d].kind = "add"
        PROVE  op[d].order \notin DOMAIN orders'
    <3>1. d # c /\ op[d] \in Op /\ op[d].order \in Order
          /\ op[d].order \notin DOMAIN orders /\ LocksOrder(d, op[d].order)
      BY <1>1, <2>2 DEF LockInv, LocksOrder, Op
    <3>2. ~LocksOrder(c, op[d].order)
      BY <3>1 DEF LockInv
    <3>3. op[c].kind \in {"add", "update"} => op[c].order # op[d].order
      BY <1>1, <3>2 DEF LocksOrder
    <3> QED BY <1>3, <3>1, <3>3 DEF Apply, Inserted, Written, Debited, Put
  <2>3. ASSUME NEW d \in Client, pc'[d] = "commit", TouchesBalance(d)
        PROVE  Covered(op[d].user, Diff(d))'
    <3>1. d # c /\ op[d] \in Op /\ op[d].user \in User
          /\ Covered(op[d].user, Diff(d)) /\ LocksUser(d, op[d].user)
      BY <1>1, <2>3 DEF LockInv, LocksUser, Op
    <3>2. ~LocksUser(c, op[d].user)
      BY <3>1 DEF LockInv
    <3>3. TouchesBalance(c) => op[c].user # op[d].user
      BY <1>1, <3>2 DEF LocksUser
    <3>4. balance'[op[d].user] = balance[op[d].user]
      BY <1>3, <3>1, <3>3 DEF Apply, Inserted, Written, Debited, TouchesBalance,
         LockInv
    <3> QED BY <1>1, <3>1, <3>4 DEF Covered, Diff
  <2>4. /\ \A d \in Client, o \in Order : LocksOrder(d, o)' => LocksOrder(d, o)
        /\ \A d \in Client, u \in User : LocksUser(d, u)' => LocksUser(d, u)
    BY <1>1 DEF LocksOrder, LocksUser, TouchesBalance
  <2>5. \A d \in Client : TouchesBalance(d)' <=> TouchesBalance(d)
    BY <1>1 DEF TouchesBalance
  <2> QED BY <1>1, <2>1, <2>2, <2>3, <2>4, <2>5 DEF LockInv
<1> QED BY <1>2, <1>3 DEF Commit

LEMMA LockNext == LockInv /\ [StorageNext]_svars => LockInv'
<1> SUFFICES ASSUME LockInv, [StorageNext]_svars PROVE LockInv'
  OBVIOUS
<1>1. ASSUME NEW c \in Client, NEW o \in Op, Start(c, o) PROVE LockInv'
  BY <1>1, OthersKeep DEF Start, LockInv, LocksOrder, LocksUser
<1>2. ASSUME NEW c \in Client, Begin(c) \/ Fail(c) \/ Report(c) PROVE LockInv'
  BY <1>2, OthersKeep DEF Begin, Fail, Report, Goto, Return, LockInv, LocksOrder,
     LocksUser
<1>3. ASSUME NEW c \in Client, First(c) PROVE LockInv'
  BY <1>3, OthersKeep DEF First, Goto, Return, LockInv, LocksOrder, LocksUser,
     TouchesBalance, Op
<1>4. ASSUME NEW c \in Client, Second(c) PROVE LockInv'
  BY <1>4, OthersKeep DEF Second, Goto, Return, LockInv, LocksOrder, LocksUser,
     TouchesBalance, Diff, Covered
<1>5. ASSUME NEW c \in Client, Commit(c) PROVE LockInv'
  BY <1>5, CommitKeeps
<1>6. CASE UNCHANGED svars
  BY <1>6 DEF LockInv, LocksOrder, LocksUser, TouchesBalance, Diff, Covered
<1> QED BY <1>1, <1>2, <1>3, <1>4, <1>5, <1>6 DEF StorageNext, Step

(* Statements of concurrent transactions, their retries, rollbacks and     *)
(* ambiguous commits show as the atomic transactions of the ledger: the    *)
(* row lock of QueryUpdateUserBalance keeps its guard true until COMMIT.   *)
THEOREM StorageImplementsLedger == StorageSpec => LedgerSpec
<1>1. StorageInit => LedgerInit
  BY DEF StorageInit
<1>2. StorageSpec => []LockInv
  BY LockInit, LockNext, PTL DEF StorageSpec
<1> QED BY <1>1, <1>2, StepIsLedgerStep, PTL DEF StorageSpec, LedgerSpec

(* So the books balance in the storage, too.                               *)
THEOREM StorageBooks == StorageSpec => []BooksBalance
  BY StorageImplementsLedger, LedgerBooks, PTL
-----------------------------------------------------------------------------
(* The clients.                                                            *)

Sums == [since : Int, current : Nat, withdrawn : Int]

ClientTypes ==
  /\ started \in 0..MaxOps
  /\ attempt \in [Client -> 0..(RetryingAttempts - 1)]
  /\ reply \in [Client -> Reply] /\ commits \in [Client -> Nat]
  /\ op \in [Client -> Op \cup {[kind |-> "none"]}]
  /\ report \in [Client -> Sums]

(* An operation is committed by the step that ends it.                     *)
Once(c) ==
  /\ commits[c] \in {0, 1}
  /\ Pending(c) => commits[c] = 0
  /\ ~Pending(c) /\ op[c].kind \in {"add", "update", "withdraw"} =>
       /\ reply[c] = "ok" => commits[c] = 1
       /\ reply[c] \in {"exists", "notEnough"} => commits[c] = 0

(* What a report has read makes, with the withdrawals as they are now, no  *)
(* less than what it is owed: a withdrawal that is not negative raises the *)
(* sum of the withdrawals, and a negative one lowers what is owed as well. *)
Reported(c) ==
  op[c].kind = "report" =>
    /\ op[c].user \in User /\ pc[c] # "begin"
    /\ pc[c] = "first" => report[c].since <= earned[op[c].user]
    /\ pc[c] = "second" =>
         report[c].current + withdrawn[op[c].user] >= report[c].since
    /\ ~Pending(c) /\ reply[c] = "ok" =>
         report[c].current + report[c].withdrawn >= report[c].since

ClientInv == ClientTypes /\ \A c \in Client : Once(c) /\ Reported(c)

LEMMA OpUser == ASSUME NEW o \in Op PROVE o.user \in User /\ o.kind # "none"
  BY DEF Op

LEMMA ClientInit == StorageInit => ClientInv
<1> SUFFICES ASSUME StorageInit PROVE ClientInv
  OBVIOUS
<1>1. ClientTypes
  BY MaxOpsAssumption
     DEF StorageInit, ClientTypes, RetryingAttempts, Reply, Sums
<1>2. \A c \in Client : Once(c) /\ Reported(c)
  BY DEF StorageInit, Once, Reported, Pending
<1> QED BY <1>1, <1>2 DEF ClientInv

(* What the step of one client does to the report of another.              *)
Settled(d) ==
  \/ withdrawn' = withdrawn /\ report'[d] = report[d]
  \/ \E u \in User, s \in Sum :
       /\ withdrawn' = [withdrawn EXCEPT ![u] = @ + s]
       /\ report'[d] = IF /\ s < 0 /\ op[d].kind = "report" /\ pc[d] = "second"
                          /\ op[d].user = u
                         THEN [report[d] EXCEPT !.since = @ + s]
                         ELSE report[d]

(* What it is owed falls by no more than the withdrawals do.               *)
LEMMA SettledFairly ==
  ASSUME LedgerTypeOK, NEW d \in Client, report[d] \in Sums, Settled(d)
  PROVE  /\ report'[d] \in Sums
         /\ report'[d].current = report[d].current
         /\ report'[d].withdrawn = report[d].withdrawn
         /\ report'[d].since <= report[d].since
         /\ op[d].kind = "report" /\ pc[d] = "second" /\ op[d].user \in User =>
              report'[d].since - report[d].since
                <= withdrawn'[op[d].user] - withdrawn[op[d].user]
<1> DEFINE lowered == op[d].kind = "report" /\ pc[d] = "second"
<1>1. CASE withdrawn' = withdrawn /\ report'[d] = report[d]
  BY <1>1 DEF Sums, LedgerTypeOK
<1>2. CASE ~(withdrawn' = withdrawn /\ report'[d] = report[d])
  <2>1. PICK u \in User, s \in Sum :
          /\ withdrawn' = [withdrawn EXCEPT ![u] = @ + s]
          /\ report'[d] = IF s < 0 /\ lowered /\ op[d].user = u
                            THEN [report[d] EXCEPT !.since = @ + s]
                            ELSE report[d]
    BY <1>2 DEF Settled
  <2>2. s \in Int /\ withdrawn \in [User -> Int]
    BY SumAssumption DEF LedgerTypeOK
  <2>3. CASE s < 0 /\ lowered /\ op[d].user = u
    <3>1. /\ report'[d] = [report[d] EXCEPT !.since = @ + s]
          /\ withdrawn'[u] = withdrawn[u] + s
      BY <2>1, <2>2, <2>3
    <3> QED BY <2>2, <2>3, <3>1 DEF Sums
  <2>4. CASE ~(s < 0 /\ lowered /\ op[d].user = u)
    <3>1. report'[d] = report[d]
      BY <2>1, <2>4
    <3>2. lowered /\ op[d].user \in User =>
            withdrawn'[op[d].user] >= withdrawn[op[d].user]
      BY <2>1, <2>2, <2>4
    <3>3. op[d].user \in User => /\ withdrawn[op[d].user] \in Int
                                 /\ withdrawn'[op[d].user] \in Int
      BY <2>1, <2>2
    <3> QED BY <3>1, <3>2, <3>3 DEF Sums
  <2> QED BY <2>3, <2>4
<1> QED BY <1>1, <1>2

(* The other clients' steps.                                               *)
LEMMA OthersStay ==
  ASSUME ClientInv, LedgerTypeOK, LedgerTypeOK', [LedgerNext]_lvars,
         NEW d \in Client, pc'[d] = pc[d], op'[d] = op[d], reply'[d] = reply[d],
         commits'[d] = commits[d], Settled(d)
  PROVE  Once(d)' /\ Reported(d)'
<1>1. Once(d)'
  BY DEF ClientInv, Once, Pending
<1>2. Reported(d)'
  <2>1. CASE op[d].kind = "report"
    <3>1. op[d].user \in User /\ Reported(d)
      BY <2>1 DEF ClientInv, Reported
    <3>2. /\ earned[op[d].user] \in Nat /\ earned'[op[d].user] \in Int
          /\ earned'[op[d].user] >= earned[op[d].user]
          /\ withdrawn[op[d].user] \in Int /\ withdrawn'[op[d].user] \in Int
      BY <3>1, EarnedGrows DEF LedgerTypeOK
    <3>3. report[d] \in Sums
      BY DEF ClientInv, ClientTypes
    <3>4. /\ report'[d] \in Sums
          /\ report'[d].current = report[d].current
          /\ report'[d].withdrawn = report[d].withdrawn
          /\ report'[d].since <= report[d].since
          /\ pc[d] = "second" =>
               report'[d].since - report[d].since
                 <= withdrawn'[op[d].user] - withdrawn[op[d].user]
      BY <2>1, <3>1, <3>3, SettledFairly
    <3>5. pc'[d] = "second" =>
            report'[d].current + withdrawn'[op[d].user] >= report'[d].since
      BY <2>1, <3>1, <3>2, <3>3, <3>4 DEF Reported, Sums
    <3>6. /\ pc'[d] = "first" => report'[d].since <= earned'[op[d].user]
          /\ ~Pending(d)' /\ reply'[d] = "ok" =>
               report'[d].current + report'[d].withdrawn >= report'[d].since
      BY <2>1, <3>1, <3>2, <3>3, <3>4 DEF Reported, Sums, Pending
    <3> QED BY <2>1, <3>1, <3>5, <3>6 DEF Reported
  <2>2. CASE op[d].kind # "report"
    BY <2>2 DEF Reported
  <2> QED BY <2>1, <2>2
<1> QED BY <1>1, <1>2

LEMMA StartKeeps ==
  ASSUME ClientInv, LockInv, LedgerTypeOK, NEW c \in Client, NEW o \in Op,
         Start(c, o)
  PROVE  ClientTypes' /\ Once(c)' /\ Reported(c)'
<1>1. /\ started' = started + 1 /\ started < MaxOps
      /\ op' = [op EXCEPT ![c] = o] /\ attempt' = [attempt EXCEPT ![c] = 0]
      /\ pc' = [pc EXCEPT ![c] = IF o.kind = "report" THEN "first" ELSE "begin"]
      /\ commits' = [commits EXCEPT ![c] = 0]
      /\ report' = [report EXCEPT ![c].since = earned[o.user]]
      /\ UNCHANGED <<lvars, reply>>
  BY DEF Start
<1>2. o.user \in User /\ earned[o.user] \in Nat
  BY OpUser DEF LedgerTypeOK
<1>3. ClientTypes'
  <2>1. report' \in [Client -> Sums]
    BY <1>1, <1>2 DEF ClientInv, ClientTypes, Sums
  <2> QED BY <1>1, <2>1, MaxOpsAssumption
          DEF ClientInv, ClientTypes, RetryingAttempts
<1>4. pc'[c] \in {"first", "begin"} /\ commits'[c] = 0 /\ op'[c] = o
      /\ report'[c].since = earned[o.user]
      /\ (o.kind = "report" => pc'[c] = "first")
  BY <1>1 DEF ClientInv, ClientTypes, LockInv
<1>5. Once(c)'
  BY <1>4 DEF Once, Pending
<1>6. Reported(c)'
  BY <1>1, <1>2, <1>4 DEF Reported, Pending
<1> QED BY <1>3, <1>5, <1>6

(* The statements that leave commits and report alone.                     *)
LEMMA StatementKeeps ==
  ASSUME ClientInv, LockInv, LedgerTypeOK, NEW c \in Client,
         Begin(c) \/ First(c) \/ Second(c) \/ Fail(c)
  PROVE  ClientTypes' /\ Once(c)' /\ Reported(c)'
<1>1. /\ UNCHANGED <<lvars, started, op, commits, report>>
      /\ pc[c] # "idle" /\ reply' \in [Client -> Reply]
      /\ attempt' \in [Client -> 0..(RetryingAttempts - 1)]
  BY DEF ClientInv, ClientTypes, Begin, First, Second, Fail, Goto, Return,
         Reply, RetryingAttempts
<1>2. ClientTypes'
  BY <1>1 DEF ClientInv, ClientTypes
<1>3. /\ pc'[c] = "idle" => reply'[c] \in {"error", "exists", "notEnough"}
      /\ op[c].kind = "report" /\ pc[c] # "begin" =>
           pc'[c] = pc[c] \/ (pc'[c] = "idle" /\ reply'[c] = "error")
  BY DEF ClientInv, ClientTypes, LockInv, Begin, First, Second, Fail, Goto,
         Return
<1>4. Once(c)'
  BY <1>1, <1>3 DEF ClientInv, Once, Pending
<1>5. Reported(c)'
  BY <1>1, <1>3 DEF ClientInv, Reported, Pending
<1> QED BY <1>2, <1>4, <1>5

LEMMA CommitOnce ==
  ASSUME ClientInv, LockInv, LedgerTypeOK, NEW c \in Client, Commit(c)
  PROVE  ClientTypes' /\ Once(c)' /\ Reported(c)'
<1>1. /\ pc[c] = "commit" /\ pc'[c] = "idle" /\ op[c].kind # "report"
      /\ UNCHANGED <<started, op, attempt>>
      /\ reply' \in [Client -> Reply]
  BY DEF ClientInv, ClientTypes, LockInv, Commit, Return, Reply
<1>2. commits[c] = 0
  BY <1>1 DEF ClientInv, Once, Pending
<1>3. \/ commits' = [commits EXCEPT ![c] = @ + 1]
      \/ UNCHANGED commits /\ reply'[c] = "error"
  BY DEF Commit, Return, ClientInv, ClientTypes
<1>4. commits' \in [Client -> Nat] /\ commits'[c] \in {0, 1}
      /\ (commits'[c] = 0 => reply'[c] = "error")
  BY <1>2, <1>3 DEF ClientInv, ClientTypes
<1>5. reply'[c] \in {"ok", "error"}
  BY DEF Commit, Return, ClientInv, ClientTypes
<1>6. report' \in [Client -> Sums]
  <2>1. \A d \in Client : report[d] \in Sums /\ DOMAIN report = Client
    BY DEF ClientInv, ClientTypes
  <2>2. op[c].kind = "withdraw" => op[c].sum \in Int
    BY <1>1, SumAssumption DEF LockInv, Op
  <2>3. report' \in {report, Owed(op[c])}
    BY DEF Commit
  <2>4. Owed(op[c]) \in [Client -> Sums]
    BY <2>1, <2>2 DEF Owed, Sums
  <2> QED BY <2>1, <2>3, <2>4 DEF ClientInv, ClientTypes
<1> QED BY <1>1, <1>4, <1>5, <1>6
        DEF ClientInv, ClientTypes, Once, Reported, Pending

LEMMA ReportKeeps ==
  ASSUME ClientInv, LockInv, LedgerTypeOK, BooksBalance, NEW c \in Client,
         Report(c)
  PROVE  ClientTypes' /\ Once(c)' /\ Reported(c)'
<1> DEFINE u == op[c].user
<1>1. /\ op[c].kind = "report" /\ u \in User /\ pc[c] \in {"first", "second"}
      /\ UNCHANGED <<lvars, started, op, commits>>
  BY DEF Report, ClientInv, Reported
<1>2. /\ balance[u] \in Nat /\ withdrawn[u] \in Int /\ earned[u] \in Nat
      /\ balance[u] + withdrawn[u] = earned[u]
      /\ report[c] \in Sums
  BY <1>1 DEF LedgerTypeOK, BooksBalance, ClientInv, ClientTypes
<1>3. /\ reply' \in [Client -> Reply]
      /\ attempt' \in [Client -> 0..(RetryingAttempts - 1)]
  <2>1. reply \in [Client -> Reply] /\ "ok" \in Reply
        /\ attempt \in [Client -> 0..(RetryingAttempts - 1)]
        /\ 0 \in 0..(RetryingAttempts - 1)
    BY DEF ClientInv, ClientTypes, Reply, RetryingAttempts
  <2> QED BY <2>1 DEF Report, Goto, Return
<1>4. CASE pc[c] = "first"
  <2>1. /\ report' = [report EXCEPT ![c].current = balance[u]]
        /\ pc' = [pc EXCEPT ![c] = "second"]
    BY <1>4 DEF Report, GetBalance, Goto
  <2>2. /\ report' \in [Client -> Sums]
        /\ report'[c].current = balance[u]
        /\ report'[c].since = report[c].since /\ pc'[c] = "second"
    BY <1>2, <2>1 DEF ClientInv, ClientTypes, LockInv, Sums
  <2>3. report[c].since <= earned[u] /\ commits[c] = 0
    BY <1>1, <1>4 DEF ClientInv, Reported, Once, Pending
  <2>4. ClientTypes'
    BY <1>1, <1>3, <2>2 DEF ClientInv, ClientTypes
  <2>5. Once(c)'
    BY <1>1, <2>2, <2>3 DEF Once, Pending
  <2>6. Reported(c)'
    BY <1>1, <1>2, <2>2, <2>3 DEF Reported, Pending, Sums
  <2> QED BY <2>4, <2>5, <2>6
<1>5. CASE pc[c] = "second"
  <2>1. /\ report' = [report EXCEPT ![c].withdrawn = withdrawn[u]]
        /\ pc' = [pc EXCEPT ![c] = "idle"]
    BY <1>5 DEF Report, GetWithdrawn, Return
  <2>2. /\ report' \in [Client -> Sums]
        /\ report'[c].withdrawn = withdrawn[u]
        /\ report'[c].current = report[c].current
        /\ report'[c].since = report[c].since /\ pc'[c] = "idle"
    BY <1>2, <2>1 DEF ClientInv, ClientTypes, LockInv, Sums
  <2>3. report[c].current + withdrawn[u] >= report[c].since /\ commits[c] = 0
    BY <1>1, <1>5 DEF ClientInv, Reported, Once, Pending
  <2>4. ClientTypes'
    BY <1>1, <1>3, <2>2 DEF ClientInv, ClientTypes
  <2>5. Once(c)'
    BY <1>1, <2>2, <2>3 DEF Once, Pending
  <2>6. Reported(c)'
    BY <1>1, <1>2, <2>2, <2>3 DEF Reported, Pending, Sums
  <2> QED BY <2>4, <2>5, <2>6
<1> QED BY <1>1, <1>4, <1>5

(* A client's step leaves the other clients where they are; it may lower   *)
(* what their reports are owed.                                            *)
OthersKept(c) ==
  \A d \in Client \ {c} :
    /\ pc'[d] = pc[d] /\ op'[d] = op[d] /\ reply'[d] = reply[d]
    /\ commits'[d] = commits[d] /\ Settled(d)

LEMMA StorageDomains ==
  ASSUME ClientInv, LockInv
  PROVE  /\ DOMAIN pc = Client /\ DOMAIN op = Client /\ DOMAIN reply = Client
         /\ DOMAIN commits = Client /\ DOMAIN report = Client
  BY DEF ClientInv, ClientTypes, LockInv

LEMMA MoveAlone ==
  ASSUME ClientInv, LockInv, NEW c \in Client, NEW x, Goto(c, x) \/ Return(c, x)
  PROVE  \A d \in Client \ {c} : pc'[d] = pc[d] /\ reply'[d] = reply[d]
  BY StorageDomains DEF Goto, Return

LEMMA StartAlone ==
  ASSUME ClientInv, LockInv, NEW c \in Client, NEW o \in Op, Start(c, o)
  PROVE  OthersKept(c)
  BY StorageDomains DEF Start, OthersKept, Settled

LEMMA StatementAlone ==
  ASSUME ClientInv, LockInv, NEW c \in Client,
         Begin(c) \/ First(c) \/ Second(c) \/ Fail(c)
  PROVE  OthersKept(c)
<1>1. UNCHANGED <<lvars, op, commits, report>>
  BY DEF Begin, First, Second, Fail
<1>2. \E x : Goto(c, x) \/ Return(c, x)
  <2>1. CASE Begin(c)
    BY <2>1 DEF Begin
  <2>2. CASE First(c)
    BY <2>2 DEF First
  <2>3. CASE Second(c)
    BY <2>3 DEF Second
  <2>4. CASE Fail(c)
    BY <2>4 DEF Fail
  <2> QED BY <2>1, <2>2, <2>3, <2>4
<1> QED BY <1>1, <1>2, MoveAlone DEF OthersKept, Settled

LEMMA CommitAlone ==
  ASSUME ClientInv, LockInv, NEW c \in Client, Commit(c)
  PROVE  OthersKept(c)
<1>1. UNCHANGED op /\ \E x : Return(c, x)
  BY DEF Commit
<1>2. \A d \in Client \ {c} : commits'[d] = commits[d]
  BY StorageDomains DEF Commit
<1>3. ASSUME NEW d \in Client PROVE Settled(d)
  <2>1. CASE UNCHANGED <<lvars, report>>
    BY <2>1 DEF Settled
  <2>2. CASE /\ op[c].kind # "withdraw" /\ Apply(op[c])
             /\ report' = Owed(op[c])
    BY <2>2 DEF Settled, Owed, Apply, Inserted, Written
  <2>3. CASE /\ op[c].kind = "withdraw" /\ Apply(op[c])
             /\ report' = Owed(op[c])
    <3>1. op[c].user \in User /\ op[c].sum \in Sum
      BY <2>3 DEF LockInv, Op, Commit
    <3>2. /\ withdrawn' = [withdrawn EXCEPT ![op[c].user] = @ + op[c].sum]
          /\ report'[d] = IF /\ op[c].sum < 0 /\ op[d].kind = "report"
                             /\ pc[d] = "second" /\ op[d].user = op[c].user
                            THEN [report[d] EXCEPT !.since = @ + op[c].sum]
                            ELSE report[d]
      BY <2>3 DEF Owed, Apply, Debited
    <3> QED BY <3>1, <3>2 DEF Settled
  <2> QED BY <2>1, <2>2, <2>3 DEF Commit
<1> QED BY <1>1, <1>2, <1>3, MoveAlone DEF OthersKept

LEMMA ReportAlone ==
  ASSUME ClientInv, LockInv, NEW c \in Client, Report(c)
  PROVE  OthersKept(c)
<1>1. UNCHANGED <<lvars, op, commits>> /\ \E x : Goto(c, x) \/ Return(c, x)
  BY DEF Report
<1>2. \A d \in Client \ {c} : report'[d] = report[d]
  BY StorageDomains DEF Report, GetBalance, GetWithdrawn
<1> QED BY <1>1, <1>2, MoveAlone DEF OthersKept, Settled

LEMMA ClientNext ==
  /\ ClientInv /\ LockInv /\ BooksBalance
  /\ LedgerTypeOK /\ LedgerTypeOK' /\ [StorageNext]_svars
  => ClientInv'
<1> SUFFICES ASSUME ClientInv, LockInv, BooksBalance, LedgerTypeOK,
                    LedgerTypeOK', [StorageNext]_svars
             PROVE  ClientInv'
  OBVIOUS
<1>1. [LedgerNext]_lvars
  BY StepIsLedgerStep
<1>2. ASSUME NEW c \in Client, ClientTypes' /\ Once(c)' /\ Reported(c)',
             OthersKept(c)
      PROVE  ClientInv'
  BY <1>1, <1>2, OthersStay DEF ClientInv, OthersKept
<1>3. ASSUME NEW c \in Client, NEW o \in Op, Start(c, o) PROVE ClientInv'
  BY <1>2, <1>3, StartKeeps, StartAlone
<1>4. ASSUME NEW c \in Client, Begin(c) \/ First(c) \/ Second(c) \/ Fail(c)
      PROVE  ClientInv'
  BY <1>2, <1>4, StatementKeeps, StatementAlone
<1>5. ASSUME NEW c \in Client, Commit(c) PROVE ClientInv'
  BY <1>2, <1>5, CommitOnce, CommitAlone
<1>6. ASSUME NEW c \in Client, Report(c) PROVE ClientInv'
  BY <1>2, <1>6, ReportKeeps, ReportAlone
<1>7. CASE UNCHANGED svars
  BY <1>7 DEF ClientInv, ClientTypes, Once, Reported, Pending
<1> QED BY <1>3, <1>4, <1>5, <1>6, <1>7 DEF StorageNext, Step

LEMMA ClientAlways == StorageSpec => [](ClientInv /\ LockInv /\ LedgerTypeOK)
<1>1. StorageSpec => [](LedgerTypeOK /\ BooksBalance)
  BY StorageImplementsLedger, LedgerTypes, LedgerBooks, PTL
<1> QED BY <1>1, LockInit, LockNext, ClientInit, ClientNext, PTL DEF StorageSpec

(* The types of the tables and the clients, and the limit on the attempts  *)
(* of withTxRetry and withRetry.                                           *)
THEOREM StorageTypes == StorageSpec => []TxTypeOK
<1>1. ClientInv /\ LockInv /\ LedgerTypeOK => TxTypeOK
  BY DEF ClientInv, ClientTypes, LockInv, TxTypeOK
<1> QED BY <1>1, ClientAlways, PTL

(* Whatever withTxRetry repeats, an operation is committed once at most,   *)
(* once if it returns ok, and never if it returns a refusal.               *)
THEOREM OneCommit == StorageSpec => []AppliedOnce
<1>1. ClientInv => AppliedOnce
  BY DEF ClientInv, Once, AppliedOnce
<1> QED BY <1>1, ClientAlways, PTL

(* GetBalanceInfo reads the balance and then the withdrawals: their sum is *)
(* short of what had been earned when it was called by no more than the    *)
(* negative withdrawals committed between the two reads.                   *)
THEOREM ReportsNotShort == StorageSpec => []ReportNotShort
<1>1. ClientInv => ReportNotShort
  BY DEF ClientInv, Reported, ReportNotShort
<1> QED BY <1>1, ClientAlways, PTL
=============================================================================
