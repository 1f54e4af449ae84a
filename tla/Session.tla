------------------------------- MODULE Session -------------------------------
(***************************************************************************)
(* Users and sessions: registration and login, the cookie with the JWT     *)
(* that they set, and what the handlers behind the JWT check do with the   *)
(* user named in it.  Clients send one request at a time; requests of      *)
(* different clients interleave between the statements that they execute.  *)
(* A password stands for its bcrypt hash too: the two match only each      *)
(* other.  Forms are well formed; what Validate refuses is answered 400.   *)
(***************************************************************************)
EXTENDS Integers, FiniteSets

CONSTANTS Login, Password, Order,
          Form,       \* the users that clients send: login, password, id
          Id,         \* identifiers (UUIDs) of users
          Client,     \* clients of the HTTP API
          CallFails   \* may a call of the database fail?

ASSUME EnoughIds == IsFiniteSet(Login) /\ IsFiniteSet(Id)
                    /\ Cardinality(Login) <= Cardinality(Id)
ASSUME FailingCalls == CallFails \in BOOLEAN

NoId == "no id"          \* the empty string, or a text that is no UUID
NoOrder == "no order"
NoName == "no name"
ASSUME NotNames == NoId \notin Id /\ NoOrder \notin Order
                   /\ NoName \notin Login \cup Password
ASSUME FormAssumption ==
  Form \subseteq [login : Login, password : Password, id : Id \cup {NoId}]

VARIABLES
  users,     \* table users: from the registered logins to id and hash
  orders,    \* table orders: from the stored numbers to their owners
  cookie,    \* the token that a client holds; history: the password it sent
  pc,        \* where the handler of a client's request is
  req,       \* what the handler knows: the request and the claims
  tries,     \* failed attempts of the current database operation
  told,      \* the answer to a client, until its next request
  welcomed   \* history: the registrations that were answered 200

svars == <<users, orders, cookie, pc, req, tries, told, welcomed>>

RetryingAttempts == 3
Account == [id : Id, password : Password]
Token == [login : Login, id : Id \cup {NoId}, password : Password]
NoToken == [login |-> NoName, id |-> NoId, password |-> NoName]
Blank == [login |-> NoName, password |-> NoName, id |-> NoId, order |-> NoOrder]
Request == [login : Login \cup {NoName}, password : Password \cup {NoName},
            id : Id \cup {NoId}, order : Order \cup {NoOrder}]
Told == [status : {0, 200, 202, 400, 401, 409, 422, 500},
         id : Id \cup {NoId}, order : Order \cup {NoOrder}]

NoAnswer == [status |-> 0, id |-> NoId, order |-> NoOrder]

(* The types; an operation is never attempted more than three times.       *)
SessionTypeOK ==
  /\ DOMAIN users \subseteq Login /\ \A l \in DOMAIN users : users[l] \in Account
  /\ DOMAIN orders \subseteq Order /\ \A o \in DOMAIN orders : orders[o] \in Id
  /\ cookie \in [Client -> Token \cup {NoToken}]
  /\ pc \in [Client -> {"idle", "insert", "commit", "find", "add", "whose"}]
  /\ req \in [Client -> Request]
  /\ tries \in [Client -> 0..(RetryingAttempts - 1)]
  /\ told \in [Client -> Told]
  /\ welcomed \subseteq [login : Login, id : Id, password : Password]

SessionInit ==
  /\ users = [l \in {} |-> 0] /\ orders = [o \in {} |-> 0]
  /\ cookie = [c \in Client |-> NoToken]
  /\ pc = [c \in Client |-> "idle"]
  /\ req = [c \in Client |-> Blank]
  /\ tries = [c \in Client |-> 0]
  /\ told = [c \in Client |-> NoAnswer]
  /\ welcomed = {}

-----------------------------------------------------------------------------
(* A request arrives.                                                      *)

Ask(c, at, r) ==
  /\ pc[c] = "idle"
  /\ pc' = [pc EXCEPT ![c] = at]
  /\ req' = [req EXCEPT ![c] = r]
  /\ told' = [told EXCEPT ![c] = NoAnswer]
  /\ UNCHANGED <<users, orders, cookie, tries, welcomed>>

(* The handler ends with a status code.                                    *)
Reply(c, status, r) ==
  /\ pc' = [pc EXCEPT ![c] = "idle"]
  /\ req' = [req EXCEPT ![c] = Blank]
  /\ tries' = [tries EXCEPT ![c] = 0]
  /\ told' = [told EXCEPT ![c] = [status |-> status, id |-> r.id, order |-> r.order]]

(* The user of a request is decoded from the body, "id" included.          *)
FromBody(f) ==
  [Blank EXCEPT !.login = f.login, !.password = f.password, !.id = f.id]

(* POST /api/user/register and POST /api/user/login.                       *)
Register(c) == \E f \in Form : Ask(c, "insert", FromBody(f))

LogIn(c) == \E f \in Form : Ask(c, "find", FromBody(f))

(* Another content type, malformed JSON, a short login or password.        *)
BadForm(c) ==
  /\ pc[c] = "idle"
  /\ Reply(c, 400, Blank)
  /\ UNCHANGED <<users, orders, cookie, welcomed>>

(* JWTAuth: no token, or a token that has expired.                         *)
Unauthorized(c) ==
  /\ pc[c] = "idle" /\ cookie[c] = NoToken
  /\ Reply(c, 401, Blank)
  /\ UNCHANGED <<users, orders, cookie, welcomed>>

(* The handlers behind JWTAuth take the user from the claims.              *)
Upload(c) ==
  /\ cookie[c] # NoToken
  /\ \E o \in Order :
       Ask(c, "add", [Blank EXCEPT !.id = cookie[c].id, !.order = o])

(* A number without its check digit is refused before anything is stored.  *)
WrongNumber(c) ==
  /\ pc[c] = "idle" /\ cookie[c] # NoToken
  /\ Reply(c, 422, Blank)
  /\ UNCHANGED <<users, orders, cookie, welcomed>>

Registered(i) == \E l \in DOMAIN users : users[l].id = i

(* The handlers that only read (200 stands for 204 too): an empty user is  *)
(* no UUID for the database, and one who is not registered has no balance. *)
Read(c) ==
  /\ pc[c] = "idle" /\ cookie[c] # NoToken
  /\ \/ cookie[c].id # NoId /\ Reply(c, 200, Blank)
     \/ ~Registered(cookie[c].id) /\ Reply(c, 500, Blank)
     \/ CallFails /\ Reply(c, 500, Blank)
  /\ UNCHANGED <<users, orders, cookie, welcomed>>

(* Cookie and JWT expire together, three hours after they were issued.     *)
Expire(c) ==
  /\ cookie[c] # NoToken
  /\ cookie' = [cookie EXCEPT ![c] = NoToken]
  /\ UNCHANGED <<users, orders, pc, req, tries, told, welcomed>>

-----------------------------------------------------------------------------
(* Register: the transaction of db.AddUser and the cookie.                 *)

Inserting(l) == \E d \in Client : pc[d] = "commit" /\ req[d].login = l
FreshId == {i \in Id : /\ ~Registered(i)
                      /\ \A d \in Client : pc[d] = "commit" => req[d].id # i}

(* Mutant: there is no unique index on the logins.                         *)
InsertAnyway(c) ==
  /\ pc[c] = "insert"
  /\ \E i \in FreshId : req' = [req EXCEPT ![c].id = i]
  /\ pc' = [pc EXCEPT ![c] = "commit"]
  /\ UNCHANGED <<users, orders, cookie, tries, told, welcomed>>

(* The unique index on the login makes the statement wait for another      *)
(* transaction that has inserted the same login.  The id that the database *)
(* has generated replaces the one of the request.                          *)
Insert(c) ==
  /\ pc[c] = "insert"
  /\ \/ /\ req[c].login \in DOMAIN users
        /\ Reply(c, 409, Blank)
     \/ /\ req[c].login \notin DOMAIN users /\ ~Inserting(req[c].login)
        /\ \E i \in FreshId : req' = [req EXCEPT ![c].id = i]
        /\ pc' = [pc EXCEPT ![c] = "commit"]
        /\ UNCHANGED <<tries, told>>
  /\ UNCHANGED <<users, orders, cookie, welcomed>>

NewAccount(c) ==
  users' = [l \in DOMAIN users \cup {req[c].login} |->
              IF l = req[c].login
                THEN [id |-> req[c].id, password |-> req[c].password]
                ELSE users[l]]

(* setAuthCookie: the token has the id and the login of the user at hand.  *)
SetAuthCookie(c) ==
  cookie' = [cookie EXCEPT ![c] = [login |-> req[c].login, id |-> req[c].id,
                                   password |-> req[c].password]]

Welcome(c) ==
  /\ Reply(c, 200, Blank) /\ SetAuthCookie(c)
  /\ welcomed' = welcomed \cup {[login |-> req[c].login, id |-> req[c].id,
                                 password |-> req[c].password]}

(* Mutant: the error of tx.Commit is ignored.                              *)
CommitUnchecked(c) ==
  /\ pc[c] = "commit"
  /\ NewAccount(c) \/ (CallFails /\ UNCHANGED users)
  /\ Welcome(c)
  /\ UNCHANGED orders

(* An error of the commit does not say whether it was done.                *)
Commit(c) ==
  /\ pc[c] = "commit"
  /\ \/ NewAccount(c) /\ Welcome(c)
     \/ /\ CallFails /\ Reply(c, 500, Blank)
        /\ NewAccount(c) \/ UNCHANGED users
        /\ UNCHANGED <<cookie, welcomed>>
  /\ UNCHANGED orders

(* Login: the password of the request is compared with the one in the      *)
(* database.  The token is made from the user of the request and keeps the *)
(* id of its body: none, if the body had none.                             *)
Find(c) ==
  /\ pc[c] = "find"
  /\ LET l == req[c].login IN
       \/ /\ l \in DOMAIN users /\ users[l].password = req[c].password
          /\ Reply(c, 200, Blank) /\ SetAuthCookie(c)
       \/ /\ ~(l \in DOMAIN users /\ users[l].password = req[c].password)
          /\ Reply(c, 401, Blank) /\ UNCHANGED cookie
  /\ UNCHANGED <<users, orders, welcomed>>

-----------------------------------------------------------------------------
(* Upload of an order number: OrderService.Store.                          *)

Own(c) ==
  orders' = [o \in DOMAIN orders \cup {req[c].order} |->
               IF o = req[c].order THEN req[c].id ELSE orders[o]]

(* Order.Validate refuses an empty user.                                   *)
NoUser(c) ==
  /\ pc[c] = "add" /\ req[c].id = NoId
  /\ Reply(c, 500, Blank)
  /\ UNCHANGED <<users, orders, cookie, welcomed>>

(* Mutant: the insert replaces the owner of an existing order.             *)
AddOver(c) ==
  /\ pc[c] = "add" /\ req[c].id # NoId
  /\ Own(c) /\ Reply(c, 202, req[c])
  /\ UNCHANGED <<users, cookie, welcomed>>

(* db.AddOrder; its commit may fail after it was done.                     *)
Add(c) ==
  /\ pc[c] = "add" /\ req[c].id # NoId
  /\ \/ /\ req[c].order \in DOMAIN orders
        /\ pc' = [pc EXCEPT ![c] = "whose"] /\ tries' = [tries EXCEPT ![c] = 0]
        /\ UNCHANGED <<orders, req, told>>
     \/ /\ req[c].order \notin DOMAIN orders
        /\ Own(c)
        /\ Reply(c, 202, req[c]) \/ (CallFails /\ Reply(c, 500, Blank))
  /\ UNCHANGED <<users, cookie, welcomed>>

(* db.GetOrder of this number and this user.                               *)
Whose(c) ==
  /\ pc[c] = "whose"
  /\ Reply(c, IF orders[req[c].order] = req[c].id THEN 200 ELSE 409, req[c])
  /\ UNCHANGED <<users, orders, cookie, welcomed>>

-----------------------------------------------------------------------------
Retried == {"insert", "find", "add", "whose"}

(* Mutants: one attempt too many; attempts that are not counted.           *)
FailOnceMore(c) ==
  /\ CallFails /\ pc[c] \in Retried
  /\ \/ /\ tries[c] < RetryingAttempts
        /\ tries' = [tries EXCEPT ![c] = @ + 1]
        /\ UNCHANGED <<pc, req, told>>
     \/ Reply(c, 500, Blank)
  /\ UNCHANGED <<users, orders, cookie, welcomed>>

FailUncounted(c) ==
  /\ CallFails /\ pc[c] \in Retried
  /\ UNCHANGED <<pc, req, told>>
  /\ tries' = [tries EXCEPT ![c] = 1 - @]
  /\ UNCHANGED <<users, orders, cookie, welcomed>>

(* A statement fails: again, if the error is retriable and the attempts    *)
(* are not exhausted, or 500.                                              *)
Fail(c) ==
  /\ CallFails /\ pc[c] \in Retried
  /\ \/ /\ tries[c] < RetryingAttempts - 1
        /\ tries' = [tries EXCEPT ![c] = @ + 1]
        /\ UNCHANGED <<pc, req, told>>
     \/ Reply(c, 500, Blank)
  /\ UNCHANGED <<users, orders, cookie, welcomed>>

(* The process ends with all its requests; the tables and the cookies of   *)
(* the clients stay, and so does the key that signs the tokens.            *)
Crash ==
  /\ pc' = [c \in Client |-> "idle"]
  /\ req' = [c \in Client |-> Blank]
  /\ tries' = [c \in Client |-> 0]
  /\ UNCHANGED <<users, orders, cookie, told, welcomed>>

Arrive(c) ==
  \/ Register(c) \/ LogIn(c) \/ BadForm(c) \/ Unauthorized(c)
  \/ Upload(c) \/ WrongNumber(c) \/ Read(c)

Serve(c) ==
  \/ Insert(c) \/ Commit(c) \/ Find(c)
  \/ NoUser(c) \/ Add(c) \/ Whose(c) \/ Fail(c)

SessionNext ==
  \/ \E c \in Client : Arrive(c) \/ Expire(c) \/ Serve(c)
  \/ Crash

SessionSpec == SessionInit /\ [][SessionNext]_svars

(* The Go scheduler and the database serve every request.                  *)
FairSessionSpec == SessionSpec /\ \A c \in Client : WF_svars(Serve(c))

-----------------------------------------------------------------------------
(* A registration that was answered 200 lasts: its login has the id and    *)
(* the password of that request for ever, so of two clients that race for  *)
(* a login one at most is told 200, whatever fails or is retried.          *)
Acknowledged ==
  \A a \in welcomed :
    a.login \in DOMAIN users
      /\ users[a.login] = [id |-> a.id, password |-> a.password]

(* A token names a registered login and was given for its password: to who *)
(* has registered it, once that was committed, or has logged in.  So it is *)
(* whoever wins the race for a login, and whatever crashes or fails.       *)
TokensEarned ==
  \A c \in Client : cookie[c] # NoToken =>
    /\ cookie[c].login \in DOMAIN users
    /\ users[cookie[c].login].password = cookie[c].password

(* What the upload of an order was answered stays true: 202 and 200 mean   *)
(* that the order is the client's, 409 that it is another user's.          *)
AnswersStayTrue ==
  \A c \in Client : LET t == told[c] IN
    t.order # NoOrder /\ t.status \in {200, 202, 409} =>
      t.order \in DOMAIN orders /\ (orders[t.order] = t.id <=> t.status # 409)

(* Every request is answered, or ends with the process.                    *)
RequestsEnd == \A c \in Client : pc[c] # "idle" ~> pc[c] = "idle"

(* SPECIFICATION.md:118 and 127: who logs in with 200 is authenticated,    *)
(* and the handlers are there for the authenticated.  So while nothing     *)
(* fails nobody is told of an internal error.                              *)
NoInternalError == \A c \in Client : told[c].status # 500
=============================================================================
