------------------------------ MODULE MCSession ------------------------------
(* Values for model checking Session. *)
EXTENDS Session

Stray == {-1, 200}
=============================================================================
