------------------------------ MODULE MCServer ------------------------------
(* Instances of the server for TLC.                                        *)
EXTENDS Server

Amount(units, frac) == [neg |-> FALSE, units |-> units, frac |-> frac]
Refund == [neg |-> TRUE, units |-> 0, frac |-> <<0, 0, 5>>]

(* Half a rouble or so, a negative sum between two kopecks, and more than  *)
(* was earned; the last with valid numbers, wrong ones, and some with      *)
(* separators.                                                             *)
MCGranted == {Amount(1, <<0, 5>>)}

Numbers ==
  {<<0, 0>>, <<1, 8>>, <<5, 9>>, <<9, 1>>, <<0, 6, 7>>, <<1, 2, 3, 0>>, <<>>,
   <<7>>, <<0, Letter>>, <<1, Dash, 8>>, <<Space, 5, 9>>}

MCForm ==
  {[number |-> <<1, 8>>, sum |-> d] :
     d \in {Amount(0, <<4, 9, 6>>), Refund}}
    \cup {[number |-> n, sum |-> Amount(2, <<>>)] : n \in Numbers}

(* A body of one piece is short, of two it is not, and the third finds the *)
(* compression begun.                                                      *)
MCHandling ==
  {s \in [status : {200, 201}, explicit : BOOLEAN, announced : BOOLEAN,
           body : {<<>>, <<1>>, <<1, 2>>, <<1, 2, 3>>}] :
     s.explicit <=> s.status = 201}
=============================================================================
