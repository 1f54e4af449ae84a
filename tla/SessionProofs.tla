---------------------------- MODULE SessionProofs ----------------------------
(***************************************************************************)
(* Users and sessions, for every number of clients, logins, identifiers    *)
(* and orders: a registration that was acknowledged lasts, tokens are      *)
(* given for passwords, and the answers to uploads stay true.              *)
(***************************************************************************)
EXTENDS Session, TLAPS

USE DEF svars

(* What a handler knows.  The unique index is why a login that is being    *)
(* committed is new and has one transaction.                               *)
Place(c) ==
  /\ pc[c] \in {"insert", "find", "commit"} =>
       req[c].login \in Login /\ req[c].password \in Password
  /\ pc[c] = "commit" =>
       /\ req[c].id \in Id /\ req[c].login \notin DOMAIN users
       /\ \A d \in Client :
            pc[d] = "commit" /\ req[d].login = req[c].login => d = c
  /\ pc[c] \in {"add", "whose"} => req[c].order \in Order
  /\ pc[c] = "whose" => req[c].order \in DOMAIN orders

(* A token was given for the password of its login.                        *)
Signed(c) ==
  cookie[c] # NoToken => /\ cookie[c].login \in DOMAIN users
                         /\ users[cookie[c].login].password = cookie[c].password

Stands(t) ==
  t.order # NoOrder /\ t.status \in {200, 202, 409} =>
    t.order \in DOMAIN orders /\ (orders[t.order] = t.id <=> t.status # 409)

SessionInv ==
  /\ SessionTypeOK
  /\ \A c \in Client : Place(c) /\ Signed(c) /\ Stands(told[c])
  /\ Acknowledged

LEMMA InvInit == SessionInit => SessionInv
<1> SUFFICES ASSUME SessionInit PROVE SessionInv
  OBVIOUS
<1>1. SessionTypeOK
  BY DEF SessionInit, SessionTypeOK, NoToken, Blank, NoAnswer, Request, Told,
         RetryingAttempts
<1>2. \A c \in Client : Place(c) /\ Signed(c) /\ Stands(told[c])
  BY DEF SessionInit, Place, Signed, Stands, NoToken, NoAnswer
<1>3. Acknowledged
  BY DEF SessionInit, Acknowledged
<1> QED BY <1>1, <1>2, <1>3 DEF SessionInv

LEMMA AskKeeps ==
  ASSUME SessionInv, NEW c \in Client,
         NEW next \in {"insert", "find", "add"}, NEW r \in Request,
         next \in {"insert", "find"} =>
           r.login \in Login /\ r.password \in Password,
         next = "add" => r.order \in Order,
         Ask(c, next, r)
  PROVE  SessionInv'
<1> USE DEF SessionInv, SessionTypeOK, Ask
<1>1. SessionTypeOK'
  BY DEF NoAnswer, Told
<1>2. \A d \in Client : Place(d)'
  BY DEF Place
<1>3. \A d \in Client : (Signed(d) /\ Stands(told[d]))'
  BY DEF Signed, Stands, NoAnswer
<1>4. Acknowledged'
  BY DEF Acknowledged
<1> QED BY <1>1, <1>2, <1>3, <1>4

LEMMA ReplyTypes ==
  ASSUME SessionTypeOK, NEW c \in Client,
         NEW status \in {200, 202, 400, 401, 409, 422, 500}, NEW r \in Request,
         Reply(c, status, r)
  PROVE  /\ pc' \in [Client -> {"idle", "insert", "commit", "find", "add",
                                "whose"}]
         /\ req' \in [Client -> Request] /\ told' \in [Client -> Told]
         /\ tries' \in [Client -> 0..(RetryingAttempts - 1)]
<1>1. [status |-> status, id |-> r.id, order |-> r.order] \in Told
  BY DEF Request, Told
<1>2. Blank \in Request /\ 0 \in 0..(RetryingAttempts - 1)
  BY DEF Blank, Request, RetryingAttempts
<1> QED BY <1>1, <1>2 DEF SessionTypeOK, Reply

(* What was told of a registration is in the table of users.               *)
LEMMA AcknowledgedKept ==
  ASSUME Acknowledged, UNCHANGED users, UNCHANGED welcomed
  PROVE  Acknowledged'
BY DEF Acknowledged

(* An answer that leaves the tables alone.                                 *)
LEMMA ReplyKeeps ==
  ASSUME SessionInv, NEW c \in Client,
         NEW status \in {200, 202, 400, 401, 409, 422, 500}, NEW r \in Request,
         Stands([status |-> status, id |-> r.id, order |-> r.order]),
         Reply(c, status, r), UNCHANGED <<users, orders, welcomed>>,
         cookie' \in [Client -> Token \cup {NoToken}],
         \A d \in Client : Signed(d)'
  PROVE  SessionInv'
<1> USE DEF SessionInv
<1>1. SessionTypeOK'
  BY ReplyTypes DEF SessionTypeOK
<1> USE DEF Reply
<1>2. \A d \in Client : Place(d)'
  BY DEF Place, SessionTypeOK
<1>3. \A d \in Client : Signed(d)' /\ Stands(told[d])'
  BY DEF Signed, Stands, SessionTypeOK
<1>4. Acknowledged'
  BY AcknowledgedKept
<1> QED BY <1>1, <1>2, <1>3, <1>4

(* The answers that name no order.                                         *)
LEMMA PlainReplyKeeps ==
  ASSUME SessionInv, NEW c \in Client,
         NEW status \in {200, 202, 400, 401, 409, 422, 500},
         Reply(c, status, Blank), UNCHANGED <<users, orders, welcomed, cookie>>
  PROVE  SessionInv'
<1>1. Blank \in Request /\ Blank.order = NoOrder /\ Blank.id = NoId
  BY DEF Blank, Request
<1>2. Stands([status |-> status, id |-> Blank.id, order |-> Blank.order])
  BY <1>1 DEF Stands
<1>3. /\ cookie' \in [Client -> Token \cup {NoToken}]
      /\ \A d \in Client : Signed(d)'
  BY DEF SessionInv, SessionTypeOK, Signed
<1> QED BY <1>1, <1>2, <1>3, ReplyKeeps

LEMMA ArriveKeeps ==
  ASSUME SessionInv, NEW c \in Client, Arrive(c) PROVE SessionInv'
<1>1. CASE Register(c) \/ LogIn(c)
  <2>1. PICK f \in Form, next \in {"insert", "find"} : Ask(c, next, FromBody(f))
    BY <1>1 DEF Register, LogIn
  <2>2. f.login \in Login /\ f.password \in Password /\ f.id \in Id \cup {NoId}
    BY FormAssumption
  <2>3. /\ FromBody(f) \in Request
        /\ FromBody(f).login \in Login /\ FromBody(f).password \in Password
    BY <2>2 DEF FromBody, Blank, Request
  <2>4. next # "add" /\ next \in {"insert", "find", "add"}
    OBVIOUS
  <2> QED BY <2>1, <2>3, <2>4, AskKeeps
<1>2. CASE Upload(c)
  <2>1. PICK o \in Order :
          Ask(c, "add", [Blank EXCEPT !.id = cookie[c].id, !.order = o])
    BY <1>2 DEF Upload
  <2> DEFINE r == [Blank EXCEPT !.id = cookie[c].id, !.order = o]
  <2>2. cookie[c].id \in Id \cup {NoId}
    BY DEF SessionInv, SessionTypeOK, Token, NoToken
  <2>3. r \in Request /\ r.order \in Order
    BY <2>2 DEF Blank, Request
  <2> HIDE DEF r
  <2> QED BY <2>1, <2>3, AskKeeps DEF r
<1>3. CASE BadForm(c) \/ Unauthorized(c) \/ WrongNumber(c) \/ Read(c)
  BY <1>3, PlainReplyKeeps DEF BadForm, Unauthorized, WrongNumber, Read
<1> QED BY <1>1, <1>2, <1>3 DEF Arrive

LEMMA ExpireKeeps ==
  ASSUME SessionInv, NEW c \in Client, Expire(c) PROVE SessionInv'
<1> USE DEF SessionInv, Expire
<1>1. SessionTypeOK'
  BY DEF SessionTypeOK
<1>2. \A d \in Client : Place(d)' /\ Stands(told[d])'
  BY DEF Place, Stands
<1>3. \A d \in Client : Signed(d)'
  BY DEF Signed, NoToken, SessionTypeOK
<1>4. Acknowledged'
  BY DEF Acknowledged
<1> QED BY <1>1, <1>2, <1>3, <1>4

-----------------------------------------------------------------------------
(* Registration.                                                           *)

LEMMA InsertKeeps ==
  ASSUME SessionInv, NEW c \in Client, Insert(c) PROVE SessionInv'
<1>1. CASE Reply(c, 409, Blank)
  BY <1>1, PlainReplyKeeps DEF Insert
<1>2. CASE ~Reply(c, 409, Blank)
  <2> USE DEF SessionInv
  <2>1. PICK i \in FreshId : req' = [req EXCEPT ![c].id = i]
    BY <1>2 DEF Insert
  <2>2. /\ pc[c] = "insert" /\ pc' = [pc EXCEPT ![c] = "commit"]
        /\ req[c].login \notin DOMAIN users /\ ~Inserting(req[c].login)
        /\ UNCHANGED <<users, orders, cookie, tries, told, welcomed>>
    BY <1>2 DEF Insert
  <2>3. i \in Id
    BY DEF FreshId
  <2>4. /\ req'[c] \in Request /\ req'[c].id = i
        /\ req'[c].login = req[c].login /\ req'[c].password = req[c].password
        /\ \A d \in Client \ {c} : req'[d] = req[d] /\ pc'[d] = pc[d]
        /\ pc'[c] = "commit"
    BY <2>1, <2>2, <2>3 DEF SessionTypeOK, Request
  <2>5. SessionTypeOK'
    BY <2>1, <2>2, <2>4 DEF SessionTypeOK
  <2>6. req[c].login \in Login /\ req[c].password \in Password
    BY <2>2 DEF Place
  <2>7. Place(c)'
    BY <2>2, <2>3, <2>4, <2>6 DEF Place, Inserting
  <2>8. ASSUME NEW d \in Client \ {c} PROVE Place(d)'
    BY <2>2, <2>4 DEF Place, Inserting
  <2>9. \A d \in Client : Signed(d)' /\ Stands(told[d])'
    BY <2>2 DEF Signed, Stands
  <2>10. Acknowledged'
    BY <2>2 DEF Acknowledged
  <2> QED BY <2>5, <2>7, <2>8, <2>9, <2>10
<1> QED BY <1>1, <1>2

(* The new account beside the old ones.                                    *)
LEMMA NewAccountFacts ==
  ASSUME SessionInv, NEW c \in Client, pc[c] = "commit", NewAccount(c)
  PROVE  /\ DOMAIN users' = DOMAIN users \cup {req[c].login}
         /\ \A l \in DOMAIN users : users'[l] = users[l]
         /\ req[c].login \in Login /\ req[c].id \in Id
         /\ req[c].password \in Password /\ req[c].login \notin DOMAIN users
         /\ users'[req[c].login] = [id |-> req[c].id,
                                    password |-> req[c].password]
         /\ users'[req[c].login].id = req[c].id
  BY DEF NewAccount, SessionInv, Place

LEMMA CommitKeeps ==
  ASSUME SessionInv, NEW c \in Client, Commit(c) PROVE SessionInv'
<1>1. CASE UNCHANGED users /\ Reply(c, 500, Blank)
           /\ UNCHANGED <<cookie, welcomed>>
  BY <1>1, PlainReplyKeeps DEF Commit
<1>2. CASE NewAccount(c)
  <2> USE DEF SessionInv
  <2>1. pc[c] = "commit" /\ UNCHANGED orders
    BY DEF Commit
  <2>2. PICK status \in {200, 500} : Reply(c, status, Blank)
    BY <1>2, NewAccountFacts, <2>1 DEF Commit, Welcome
  <2>3. \/ SetAuthCookie(c)
           /\ welcomed' = welcomed \cup {[login |-> req[c].login,
                id |-> req[c].id, password |-> req[c].password]}
        \/ UNCHANGED <<cookie, welcomed>>
    BY <1>2 DEF Commit, Welcome
  <2>4. /\ DOMAIN users' = DOMAIN users \cup {req[c].login}
        /\ \A l \in DOMAIN users : users'[l] = users[l]
        /\ req[c].login \in Login /\ req[c].id \in Id
        /\ req[c].password \in Password /\ req[c].login \notin DOMAIN users
        /\ users'[req[c].login] = [id |-> req[c].id,
                                   password |-> req[c].password]
        /\ users'[req[c].login].id = req[c].id
    BY <1>2, <2>1, NewAccountFacts
  <2>6. SessionTypeOK'
    <3>1. \A l \in DOMAIN users' : users'[l] \in Account
      BY <2>4 DEF SessionTypeOK, Account
    <3>2. cookie' \in [Client -> Token \cup {NoToken}]
      BY <2>3, <2>4 DEF SetAuthCookie, SessionTypeOK, Token
    <3>3. welcomed' \subseteq [login : Login, id : Id, password : Password]
      BY <2>3, <2>4 DEF SessionTypeOK
    <3>4. Blank \in Request
      BY DEF Blank, Request
    <3>5. /\ DOMAIN users' \subseteq Login
          /\ DOMAIN orders' \subseteq Order
          /\ \A o \in DOMAIN orders' : orders'[o] \in Id
      BY <2>1, <2>4 DEF SessionTypeOK
    <3> QED BY <2>2, <3>1, <3>2, <3>3, <3>4, <3>5, ReplyTypes
            DEF SessionTypeOK
  <2>7. \A d \in Client : Place(d)'
    <3>1. /\ pc'[c] = "idle"
          /\ \A d \in Client \ {c} : pc'[d] = pc[d] /\ req'[d] = req[d]
      BY <2>2 DEF Reply, SessionTypeOK
    <3>2. \A d \in Client \ {c} :
            pc[d] = "commit" => req[d].login # req[c].login
      BY <2>1 DEF Place
    <3>3. ASSUME NEW d \in Client \ {c} PROVE Place(d)'
      BY <2>1, <2>4, <3>1, <3>2, <3>3 DEF Place
    <3> QED BY <3>1, <3>3 DEF Place
  <2>8. \A d \in Client : Signed(d)'
    <3>1. ASSUME NEW d \in Client, cookie'[d] = cookie[d]
          PROVE  Signed(d)'
      BY <2>4, <3>1 DEF Signed
    <3>2. \/ cookie'[c] = cookie[c]
          \/ cookie'[c] = [login |-> req[c].login, id |-> req[c].id,
                            password |-> req[c].password]
      BY <2>3 DEF SetAuthCookie, SessionTypeOK
    <3>3. \A d \in Client \ {c} : cookie'[d] = cookie[d]
      BY <2>3 DEF SetAuthCookie, SessionTypeOK
    <3> QED BY <2>4, <3>1, <3>2, <3>3 DEF Signed
  <2>9. \A d \in Client : Stands(told[d])'
    BY <2>1, <2>2 DEF Stands, Reply, Blank, SessionTypeOK
  <2>10. Acknowledged'
    <3> SUFFICES ASSUME NEW a \in welcomed'
                 PROVE  /\ a.login \in DOMAIN users'
                        /\ users'[a.login] = [id |-> a.id,
                                              password |-> a.password]
      BY DEF Acknowledged
    <3>1. CASE a \in welcomed
      BY <2>4, <3>1 DEF Acknowledged
    <3>2. CASE a \notin welcomed
      <4>1. a = [login |-> req[c].login, id |-> req[c].id,
                 password |-> req[c].password]
        BY <2>3, <3>2
      <4>2. a.login = req[c].login /\ a.id = req[c].id
            /\ a.password = req[c].password
        BY <4>1
      <4> QED BY <2>4, <4>2
    <3> QED BY <3>1, <3>2
  <2> QED BY <2>6, <2>7, <2>8, <2>9, <2>10
<1> QED BY <1>1, <1>2 DEF Commit

LEMMA FindKeeps ==
  ASSUME SessionInv, NEW c \in Client, Find(c) PROVE SessionInv'
<1>1. CASE UNCHANGED cookie
  BY <1>1, PlainReplyKeeps DEF Find
<1>2. CASE ~UNCHANGED cookie
  <2>1. /\ pc[c] = "find" /\ Reply(c, 200, Blank) /\ SetAuthCookie(c)
        /\ UNCHANGED <<users, orders, welcomed>>
    BY <1>2 DEF Find
  <2>2. Blank \in Request /\ Blank.order = NoOrder /\ Blank.id = NoId
    BY DEF Blank, Request
  <2>3. Stands([status |-> 200, id |-> Blank.id, order |-> Blank.order])
    BY <2>2 DEF Stands
  <2>4. /\ req[c].login \in Login /\ req[c].password \in Password
        /\ req[c].id \in Id \cup {NoId} /\ req[c].login \in DOMAIN users
        /\ users[req[c].login].password = req[c].password
    BY <1>2, <2>1 DEF Find, SessionInv, Place, SessionTypeOK, Request
  <2>5. cookie' \in [Client -> Token \cup {NoToken}]
    BY <2>1, <2>4 DEF SetAuthCookie, SessionInv, SessionTypeOK, Token
  <2>6. \A d \in Client : Signed(d)'
    BY <2>1, <2>4 DEF SetAuthCookie, SessionInv, SessionTypeOK, Signed
  <2> QED BY <2>1, <2>2, <2>3, <2>5, <2>6, ReplyKeeps
<1> QED BY <1>1, <1>2

-----------------------------------------------------------------------------
(* Uploads.                                                                *)

LEMMA AddKeeps ==
  ASSUME SessionInv, NEW c \in Client, Add(c) PROVE SessionInv'
<1> USE DEF SessionInv
<1>1. /\ pc[c] = "add" /\ req[c].id # NoId /\ req[c].order \in Order
      /\ req[c].id \in Id /\ UNCHANGED <<users, cookie, welcomed>>
  BY DEF Add, Place, SessionTypeOK, Request
<1>2. CASE req[c].order \in DOMAIN orders
  <2>1. /\ pc' = [pc EXCEPT ![c] = "whose"]
        /\ tries' = [tries EXCEPT ![c] = 0]
        /\ UNCHANGED <<orders, req, told>>
    BY <1>2 DEF Add
  <2>2. SessionTypeOK'
    BY <1>1, <2>1 DEF SessionTypeOK, RetryingAttempts
  <2>3. \A d \in Client : Place(d)'
    BY <1>1, <1>2, <2>1 DEF Place, SessionTypeOK
  <2>4. \A d \in Client : Signed(d)' /\ Stands(told[d])'
    BY <1>1, <2>1 DEF Signed, Stands
  <2>5. Acknowledged'
    BY <1>1, <2>1 DEF Acknowledged
  <2> QED BY <2>2, <2>3, <2>4, <2>5
<1>3. CASE req[c].order \notin DOMAIN orders
  <2>1. Own(c) /\ (Reply(c, 202, req[c]) \/ Reply(c, 500, Blank))
    BY <1>3 DEF Add
  <2>2. /\ DOMAIN orders' = DOMAIN orders \cup {req[c].order}
        /\ \A o \in DOMAIN orders : orders'[o] = orders[o]
        /\ orders'[req[c].order] = req[c].id
    BY <1>3, <2>1 DEF Own
  <2>3. SessionTypeOK'
    <3>1. /\ DOMAIN orders' \subseteq Order
          /\ \A o \in DOMAIN orders' : orders'[o] \in Id
      BY <1>1, <2>2 DEF SessionTypeOK
    <3>2. /\ pc' \in [Client -> {"idle", "insert", "commit", "find", "add",
                                 "whose"}]
          /\ req' \in [Client -> Request] /\ told' \in [Client -> Told]
          /\ tries' \in [Client -> 0..(RetryingAttempts - 1)]
      <4>1. Blank \in Request /\ req[c] \in Request
        BY DEF Blank, Request, SessionTypeOK
      <4> QED BY <2>1, <4>1, ReplyTypes
    <3> QED BY <1>1, <3>1, <3>2 DEF SessionTypeOK
  <2>4. \A d \in Client : Place(d)'
    BY <1>1, <2>1, <2>2 DEF Place, Reply, SessionTypeOK
  <2>5. \A d \in Client : Signed(d)'
    BY <1>1 DEF Signed
  <2>6. \A d \in Client : Stands(told[d])'
    BY <2>1, <2>2 DEF Stands, Reply, Blank, SessionTypeOK
  <2>7. Acknowledged'
    BY <1>1 DEF Acknowledged
  <2> QED BY <2>3, <2>4, <2>5, <2>6, <2>7
<1> QED BY <1>2, <1>3

LEMMA WhoseKeeps ==
  ASSUME SessionInv, NEW c \in Client, Whose(c) PROVE SessionInv'
<1> DEFINE s == IF orders[req[c].order] = req[c].id THEN 200 ELSE 409
           t == [status |-> s, id |-> req[c].id, order |-> req[c].order]
<1>1. /\ Reply(c, s, req[c]) /\ req[c].order \in DOMAIN orders
      /\ UNCHANGED <<users, orders, cookie, welcomed>> /\ req[c] \in Request
  BY DEF Whose, SessionInv, Place, SessionTypeOK
<1>2. s \in {200, 202, 400, 401, 409, 422, 500}
      /\ (s # 409 <=> orders[req[c].order] = req[c].id)
  OBVIOUS
<1>3. /\ cookie' \in [Client -> Token \cup {NoToken}]
      /\ \A d \in Client : Signed(d)'
  BY <1>1 DEF SessionInv, SessionTypeOK, Signed
<1>4. Stands([status |-> s, id |-> req[c].id, order |-> req[c].order])
  BY <1>1, <1>2 DEF Stands
<1> HIDE DEF s
<1> QED BY <1>1, <1>2, <1>3, <1>4, ReplyKeeps

-----------------------------------------------------------------------------
LEMMA FailKeeps ==
  ASSUME SessionInv, NEW c \in Client, Fail(c) PROVE SessionInv'
<1>1. CASE Reply(c, 500, Blank)
  BY <1>1, PlainReplyKeeps DEF Fail
<1>2. CASE ~Reply(c, 500, Blank)
  <2> USE DEF SessionInv
  <2>1. /\ tries[c] < RetryingAttempts - 1
        /\ tries' = [tries EXCEPT ![c] = @ + 1]
        /\ UNCHANGED <<pc, req, told, users, orders, cookie, welcomed>>
    BY <1>2 DEF Fail
  <2>2. SessionTypeOK'
    BY <2>1 DEF SessionTypeOK, RetryingAttempts
  <2>3. \A d \in Client : Place(d)' /\ Signed(d)' /\ Stands(told[d])'
    BY <2>1 DEF Place, Signed, Stands
  <2>4. Acknowledged'
    BY <2>1 DEF Acknowledged
  <2> QED BY <2>2, <2>3, <2>4
<1> QED BY <1>1, <1>2

LEMMA CrashKeeps == ASSUME SessionInv, Crash PROVE SessionInv'
<1> USE DEF SessionInv, Crash
<1>1. SessionTypeOK'
  BY DEF SessionTypeOK, Blank, Request, RetryingAttempts
<1>2. \A d \in Client : Place(d)' /\ Signed(d)' /\ Stands(told[d])'
  BY DEF Place, Signed, Stands
<1>3. Acknowledged'
  BY DEF Acknowledged
<1> QED BY <1>1, <1>2, <1>3

LEMMA InvNext == SessionInv /\ [SessionNext]_svars => SessionInv'
<1> SUFFICES ASSUME SessionInv, [SessionNext]_svars PROVE SessionInv'
  OBVIOUS
<1>1. ASSUME NEW c \in Client, Arrive(c) \/ Expire(c) PROVE SessionInv'
  BY <1>1, ArriveKeeps, ExpireKeeps
<1>2. ASSUME NEW c \in Client, Serve(c) PROVE SessionInv'
  <2>1. NoUser(c) => SessionInv'
    BY PlainReplyKeeps DEF NoUser
  <2> QED BY <1>2, <2>1, InsertKeeps, CommitKeeps, FindKeeps, AddKeeps,
             WhoseKeeps, FailKeeps DEF Serve
<1>3. CASE UNCHANGED svars
  BY <1>3 DEF SessionInv, SessionTypeOK, Place, Signed, Stands, Acknowledged
<1> QED BY <1>1, <1>2, <1>3, CrashKeeps DEF SessionNext

LEMMA InvAlways == SessionSpec => []SessionInv
  BY InvInit, InvNext, PTL DEF SessionSpec

(* The types, and the limit on the attempts of withRetry and withTxRetry.  *)
THEOREM SessionTypes == SessionSpec => []SessionTypeOK
  BY InvAlways, PTL DEF SessionInv

(* Register answers 200 after the commit of db.AddUser: the login has the  *)
(* id and the password of that request from then on, however many clients  *)
(* want the login and whatever fails.                                      *)
THEOREM RegistrationsLast == SessionSpec => []Acknowledged
  BY InvAlways, PTL DEF SessionInv

(* setAuthCookie comes after the commit of AddUser, or after the password  *)
(* was compared with the stored one, and neither a login nor its password  *)
(* is ever changed: so a token always stands for the password of its login.*)
THEOREM TokensForPasswords == SessionSpec => []TokensEarned
<1>1. SessionInv => TokensEarned
  BY DEF SessionInv, Signed, TokensEarned
<1> QED BY <1>1, InvAlways, PTL

(* The statuses 200, 202 and 409 of an upload say whose the order is, and  *)
(* it remains so: nothing changes the owner of an order.                   *)
THEOREM UploadAnswersStayTrue == SessionSpec => []AnswersStayTrue
<1>1. SessionInv => AnswersStayTrue
  BY DEF SessionInv, Stands, AnswersStayTrue
<1> QED BY <1>1, InvAlways, PTL
=============================================================================
