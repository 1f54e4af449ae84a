-------------------------------- MODULE Server --------------------------------
(***************************************************************************)
(* The process and what a client gets from it: the handlers of the balance *)
(* and of the withdrawals, from the JSON of the request to the bytes of    *)
(* the answer, while the process is drained, killed and started again.     *)
(* One client sends one request after the other; the other clients are     *)
(* the subject of SQLStorage and Session.                                  *)
(***************************************************************************)
EXTENDS Startup, Responses, Amounts, Luhn

CONSTANTS
  Form,        \* the order numbers and sums that the client types
  Granted,     \* accruals, as the accrual system writes them
  MaxRows,     \* bound: withdrawals of a behaviour
  Handling     \* other handlers behind the compression middleware

ASSUME FormAssumption ==
  \A f \in Form : /\ f.number \in Seq(Character)
                  /\ f.sum \in Decimal /\ FitsInt(f.sum)
ASSUME GrantedAssumption == \A d \in Granted : d \in Decimal /\ FitsInt(d)
ASSUME MaxRowsAssumption == MaxRows \in Nat

Handler == [status : {200, 201, 204, 400, 402, 422, 500}, explicit : BOOLEAN,
            announced : BOOLEAN, body : Pieces]

(* A handler sets a status before its body or leaves that to net/http, it  *)
(* may give the length of its body before, and writes the body piecemeal.  *)
ASSUME HandlingAssumption ==
  Handling \subseteq {s \in Handler : s.explicit \/ s.status = 200}

VARIABLES
  balance, earned,  \* users.balance, and history: what was credited
  rows,             \* table withdrawals: the sums of the client, in kopecks
  at,               \* where the request is
  req,              \* the request
  before,           \* history: the number of rows when it came
  wrote,            \* what the handler answers
  shown,            \* the amounts in the body, as the JSON has them
  todo,             \* the pieces of the body that are not yet written
  resp,             \* the answer on its way, see Responses
  late              \* the timeouts that have passed

db == <<balance, earned, rows>>
rvars == <<at, req, before, wrote, shown, todo, resp, late>>
sv == <<pvars, db, rvars>>

NoSum == [neg |-> FALSE, units |-> 0, frac |-> <<>>]
NoRequest == [kind |-> "none", gzip |-> FALSE, sum |-> NoSum, number |-> <<>>]
NoAnswer ==
  [status |-> 0, explicit |-> TRUE, announced |-> FALSE, body |-> <<>>]

Waiting == /\ at = "idle" /\ req = NoRequest /\ before = 0 /\ wrote = NoAnswer
           /\ shown = <<>> /\ todo = <<>> /\ resp = Fresh /\ late = {}

ServerInit ==
  /\ StartupInit
  /\ balance = 0 /\ earned = 0 /\ rows = <<>>
  /\ Waiting

-----------------------------------------------------------------------------
(* The request.                                                            *)

(* The connection is there while the process listens.                      *)
Ask(where, r) ==
  /\ port = "open" /\ at = "idle"
  /\ at' = where /\ req' = r /\ before' = Len(rows)
  /\ UNCHANGED <<pvars, db, wrote, shown, todo, resp, late>>

AskWithdraw ==
  /\ Len(rows) < MaxRows
  /\ \E f \in Form :
       Ask("check", [kind |-> "withdraw", gzip |-> FALSE,
                     sum |-> f.sum, number |-> f.number])

AskBalance == Ask("query", [NoRequest EXCEPT !.kind = "balance"])

(* A body that says it is gzip and is not.                                 *)
AskGarbled == Ask("query", [NoRequest EXCEPT !.kind = "garbled"])
AskList ==
  \E g \in BOOLEAN :
    Ask("query", [NoRequest EXCEPT !.kind = "list", !.gzip = g])

(* The other handlers; bound: before there is anything in the tables.      *)
AskOther ==
  /\ earned = 0 /\ rows = <<>>
  /\ \E g \in BOOLEAN :
       Ask("query", [NoRequest EXCEPT !.kind = "other", !.gzip = g])

(* The handler has its answer, and starts to write it.                     *)
Answer(a, amounts) ==
  /\ wrote' = a /\ shown' = amounts /\ todo' = a.body
  /\ at' = IF a.explicit THEN "header" ELSE "write"
  /\ req' = [req EXCEPT !.number = <<>>]
  /\ resp' = IF a.announced THEN [resp EXCEPT !.length = <<Size(a.body)>>]
                            ELSE resp
  /\ UNCHANGED <<pvars, before, late>>

Status(code) == [NoAnswer EXCEPT !.status = code]
Bytes(n) == [NoAnswer EXCEPT !.status = 200, !.body = <<n>>]

(* The context of the request ends with the process's or at its timeout.   *)
Cancelled == cancelled \/ "processing" \in late

-----------------------------------------------------------------------------
(* WithdrawBalance: another content type or an unreadable body, malformed  *)
(* JSON, the check digit.                                                  *)
BadRequest ==
  /\ at = "check"
  /\ \E code \in {400, 500} : Answer(Status(code), <<>>)
  /\ UNCHANGED db

CheckNumber ==
  /\ at = "check"
  /\ IF IsValidLuhn(req.number)
       THEN /\ at' = "store"
            /\ UNCHANGED <<pvars, req, before, wrote, shown, todo, resp, late>>
       ELSE Answer(Status(422), <<>>)
  /\ UNCHANGED db

Withdrawn(k) ==
  /\ balance' = balance - k /\ rows' = Append(rows, k)
  /\ UNCHANGED earned

Answers == ~Cancelled /\ tables
Fails == Cancelled \/ ~tables \/ CallFails

(* Mutant: a commit that fails is taken for done.                          *)
StoreAnyway ==
  /\ at = "store"
  /\ \E k \in Decoded(req.sum) :
       \/ /\ Answers /\ balance - k > 0
          /\ \/ Withdrawn(k)
             \/ CallFails /\ UNCHANGED db
          /\ Answer(Status(200), <<>>)
       \/ /\ Answers /\ balance - k <= 0
          /\ UNCHANGED db /\ Answer(Status(402), <<>>)
       \/ Fails /\ UNCHANGED db /\ Answer(Status(500), <<>>)

(* db.AddWithdrawn, a transaction; a call that fails, or whose context     *)
(* ends, may have committed it.                                            *)
Store ==
  /\ at = "store"
  /\ \E k \in Decoded(req.sum) :
       \/ /\ Answers /\ balance - k > 0
          /\ Withdrawn(k) /\ Answer(Status(200), <<>>)
       \/ /\ Answers /\ balance - k <= 0
          /\ UNCHANGED db /\ Answer(Status(402), <<>>)
       \/ /\ Fails
          /\ \/ UNCHANGED db
             \/ tables /\ balance - k > 0 /\ Withdrawn(k)
          /\ Answer(Status(500), <<>>)

(* GetLoyalityBalance.  An empty sum of withdrawals is 0.                  *)
ReadBalance ==
  /\ at = "query" /\ req.kind = "balance"
  /\ \/ /\ Answers
        /\ Answer(Bytes(1), <<Encoded(balance), Encoded(SumFunction(rows))>>)
     \/ Fails /\ Answer(Status(500), <<>>)
  /\ UNCHANGED db

(* Some rows of the table, in any order: the query has no ORDER BY.        *)
Picks(n) == {p \in [1..n -> DOMAIN rows] : IsInjective(p)}

(* The length of the body is the number of its items.                      *)
Listed(n) ==
  \/ n = 0 /\ Answer(Status(204), <<>>)
  \/ /\ n > 0
     /\ \E p \in Picks(n) :
          Answer(Bytes(n), [i \in 1..n |-> Encoded(rows[p[i]])])

(* ListWithdrawals does not ask for rows.Err(): when the connection or the *)
(* context ends while the rows are read, those read so far are the answer. *)
ReadList ==
  /\ at = "query" /\ req.kind = "list"
  /\ \/ Answers /\ Listed(Len(rows))
     \/ Fails /\ tables /\ \E n \in 0..Len(rows) : Listed(n)
     \/ Fails /\ Answer(Status(500), <<>>)
  /\ UNCHANGED db

RefuseBody ==
  /\ at = "query" /\ req.kind = "garbled"
  /\ Answer([Bytes(1) EXCEPT !.status = 400], <<>>)
  /\ UNCHANGED db

HandleOther ==
  /\ at = "query" /\ req.kind = "other"
  /\ \E a \in Handling : Answer(a, <<>>)
  /\ UNCHANGED db

-----------------------------------------------------------------------------
(* The answer.  A client that accepts gzip gets a GzipWriter from the two  *)
(* routes that have one.                                                   *)

Compressing == req.gzip

Advance(where, r) ==
  /\ at' = where /\ resp' = r
  /\ UNCHANGED <<pvars, db, req, before, wrote, shown, late>>

WriteHeader ==
  /\ at = "header" /\ UNCHANGED todo
  /\ Advance("write", IF Compressing THEN GWriteHeader(resp, wrote.status)
                                     ELSE LogHeader(resp, wrote.status))

Write ==
  /\ at = "write" /\ todo # <<>>
  /\ todo' = Tail(todo)
  /\ Advance("write", IF Compressing THEN GWrite(resp, Head(todo))
                                     ELSE NetWrite(resp, <<Head(todo)>>))

(* The handler returns; defer gw.Close().                                  *)
Close ==
  /\ at = "write" /\ todo = <<>> /\ UNCHANGED todo
  /\ Advance("timeout", IF Compressing THEN GClose(resp) ELSE resp)

(* The deferred function of the timeout middleware: 504 when it is late.   *)
Timeout ==
  /\ at = "timeout" /\ UNCHANGED todo
  /\ Advance("log", IF "processing" \in late THEN LogHeader(resp, 504)
                                              ELSE resp)

(* The log line, and net/http sends what there is.                         *)
Log ==
  /\ at = "log" /\ UNCHANGED todo
  /\ Advance("sent", NetHeader(resp, 200))

Reset ==
  /\ at' = "idle" /\ req' = NoRequest /\ before' = 0 /\ wrote' = NoAnswer
  /\ shown' = <<>> /\ todo' = <<>> /\ resp' = Fresh /\ late' = {}

(* The client has its answer; after WriteTimeout it has none.              *)
Finish == at = "sent" /\ Reset /\ UNCHANGED <<pvars, db>>

(* Mutant: the timeouts have no order.                                     *)
TickAnyhow ==
  /\ at # "idle"
  /\ \E t \in {"write", "processing"} \ late :
       /\ t = "processing" => ~cancelled
       /\ late' = late \cup {t}
  /\ UNCHANGED <<pvars, db, at, req, before, wrote, shown, todo, resp>>

(* WriteTimeout is 10 seconds, ProcessingTimeout 60, and no flag changes   *)
(* them.  A context that was cancelled does not expire.                    *)
Tick ==
  /\ at # "idle"
  /\ \E t \in {"write", "processing"} \ late :
       /\ t = "processing" => "write" \in late /\ ~cancelled
       /\ late' = late \cup {t}
  /\ UNCHANGED <<pvars, db, at, req, before, wrote, shown, todo, resp>>

(* The accrual of an order: SetAccrual, then UpdateOrder.                  *)
Credit ==
  /\ port = "open" /\ tables /\ earned = 0
  /\ \E d \in Granted :
       /\ Accrued(d) > 0
       /\ balance' = balance + Accrued(d) /\ earned' = Accrued(d)
  /\ UNCHANGED <<pvars, rows, rvars>>

-----------------------------------------------------------------------------
(* Mutant: server.Shutdown waits for as long as a request takes.           *)
DrainTimeoutIdle ==
  main = "draining" /\ at = "idle" /\ Leave /\ Reset /\ UNCHANGED db

(* GracefullShutdownTimeout, 5 seconds: what is in progress is cut off.    *)
DrainTimeout == main = "draining" /\ Leave /\ Reset /\ UNCHANGED db

DrainDone ==
  main = "draining" /\ at = "idle" /\ Leave /\ UNCHANGED <<db, rvars>>
LeaveFailed == main = "leaving" /\ Leave /\ UNCHANGED <<db, rvars>>
Killed == Kill /\ Reset /\ UNCHANGED db

(* The main goroutine, and the one of ListenAndServe.                      *)
Starting ==
  /\ Ping \/ Rest \/ Migrate \/ Build \/ Notify \/ StartupError \/ Drain
  /\ UNCHANGED <<db, rvars>>
Ending == DrainTimeout \/ DrainDone \/ LeaveFailed
Main == Starting \/ Ending
Listening == Listen /\ UNCHANGED <<db, rvars>>

Around ==
  /\ Launch \/ Signal \/ QueueOrder \/ FinishTasks \/ Dump
  /\ UNCHANGED <<db, rvars>>

Asked == AskWithdraw \/ AskBalance \/ AskList \/ AskGarbled \/ AskOther
Handled == \/ BadRequest \/ CheckNumber \/ Store
           \/ ReadBalance \/ ReadList \/ RefuseBody \/ HandleOther
Sent == WriteHeader \/ Write \/ Close \/ Timeout \/ Log \/ Finish

ServerNext == \/ Main \/ Listening \/ Around \/ Killed
              \/ Asked \/ Handled \/ Sent \/ Tick \/ Credit

(* The server; nobody has to launch it, and a handler may hang.            *)
ServerSpec == ServerInit /\ [][ServerNext]_sv
FairServerSpec == ServerSpec /\ WF_sv(Main) /\ WF_sv(Listening)

-----------------------------------------------------------------------------
ServerTypeOK ==
  /\ StartupTypeOK
  /\ balance \in Nat /\ earned \in Nat /\ rows \in Seq(Int)
  /\ at \in {"idle", "check", "store", "query", "header", "write", "timeout",
              "log", "sent"}
  /\ req.kind \in {"none", "withdraw", "balance", "list", "garbled", "other"}
  /\ late \subseteq {"write", "processing"}
  /\ todo \in Seq(Nat \ {0})
  /\ at = "idle" => Waiting

(* An answer that reaches the client.                                      *)
Received == at = "sent" /\ "write" \notin late

(* What the client reads is what the handler wrote, its status and its     *)
(* body, whether the body was held back, compressed half way or sent at    *)
(* once, and whatever order GzipWriter met header, length and pieces in.   *)
ReadAsWritten ==
  Received => /\ resp.wire = wrote.status
              /\ Readable(resp) /\ Body(resp) = wrote.body

(* The two places that decide to compress, WriteHeader by the length that  *)
(* was announced and Write by what is in the buffer, decide alike: a body  *)
(* is compressed if it is longer than the threshold and gzip is accepted.  *)
CompressedIfLong ==
  Received => (resp.asGzip <=> (req.gzip /\ Size(wrote.body) > Threshold))

(* A client that is told that a withdrawal was done, 200, finds it in its  *)
(* list, once, with the sum that it typed rounded to a kopeck (if a double *)
(* can tell it from its neighbours); one that is told that it was refused, *)
(* 400, 402 or 422, finds nothing.  The answer is from the handler, that   *)
(* after a database call that failed in some way, under a cancelled        *)
(* context or late.                                                        *)
ToldAsDone ==
  Received /\ req.kind = "withdraw" =>
    /\ resp.wire = 200 =>
         /\ Len(rows) = before + 1
         /\ Precise(req.sum) => Nearest(rows[before + 1], req.sum)
    /\ resp.wire \in {400, 402, 422} => Len(rows) = before

(* The amounts of an answer, read as numbers, tell the truth: the current  *)
(* balance and what is withdrawn make what was earned when they were read; *)
(* and every item of the list is a withdrawal stored, none shown twice.    *)
(* (The list may lack some: see ReadList.)                                 *)
ShownAddsUp ==
  /\ req.kind = "balance" /\ shown # <<>> =>
       /\ Tenths(shown[1]) >= 0 /\ Tenths(shown[2]) = 10 * SumFunction(rows)
       /\ Tenths(shown[1]) + Tenths(shown[2]) \in {0, 10 * earned}
  /\ req.kind = "list" /\ shown # <<>> =>
       \E p \in Picks(Len(shown)) :
         \A i \in DOMAIN shown : Tenths(shown[i]) = 10 * rows[p[i]]

(* No slip of the pen gets through: when a number is accepted, no number   *)
(* with a digit mistaken, or two neighbours swapped, would have been.      *)
TyposRefused ==
  at = "store" =>
    LET n == Stripped(req.number) IN
    \A m \in Mistyped(n) \cup Swapped(n) : ~IsValidLuhn(m)

(* The log has the status that the client got, 504 only if it got nothing; *)
(* 0 for a handler that sets no status and has no GzipWriter.              *)
LogTellsStatus ==
  Received /\ (wrote.explicit \/ req.gzip)
    => resp.logged = resp.wire

(* A process that has found its migration serves only when it was applied; *)
(* one that has found none serves whatever there is.  And no task is ever  *)
(* in memory or in the file before the tables exist.                       *)
TablesFirst ==
  /\ port = "open" /\ ~skipped => tables
  /\ filed \/ pool = "tasks" => tables

(* A start ends: the server waits for signals, or the process has ended,   *)
(* even if the database never answers.                                     *)
StartDecides == main = "connecting" ~> main \in {"waiting", "off"}

(* A server that has heard the signal ends, even if its requests hang.     *)
ShutdownEnds == quit ~> main = "off"

-----------------------------------------------------------------------------
(* gophermart.go:137: what past tasks there are to restore is restored.    *)
(* So a start that finds a dump, and a database that answers, gets on.     *)
PastTasksRestored == [][Migrate /\ filed => main' = "building"]_sv
=============================================================================
