------------------------------ MODULE MCRouter -------------------------------
(***************************************************************************)
(* An instance of Router: two amounts, so that a limit can be kept or      *)
(* missed and ether sent along can be too much or too little, and a wealth *)
(* that does not suffice for every transaction.                            *)
(***************************************************************************)
EXTENDS Router

Amounts == {1, 2}

GiftsOfEachToken == {0, 1}
==============================================================================
