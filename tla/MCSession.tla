----------------------------- MODULE MCSession -----------------------------
(* Instances of the sessions for TLC: two clients dispute the login ann,   *)
(* with two passwords.                                                     *)
EXTENDS Session

CONSTANT i1

Typed(l, p, i) == [login |-> l, password |-> p, id |-> i]

(* Bodies with a login and a password, as the documentation has them; and  *)
(* one of them with an id, whether it becomes the id of a user or not.     *)
MCPlainForm ==
  {Typed("ann", "p1", NoId), Typed("ann", "p2", NoId), Typed("bob", "p1", NoId)}
MCForm == {Typed("ann", "p1", NoId), Typed("ann", "p2", i1)}
=============================================================================
