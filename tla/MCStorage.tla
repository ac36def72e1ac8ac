------------------------------- MODULE MCStorage -------------------------------
(***************************************************************************)
(* Storage with two prices of a symbol the database knows, more than 0.1%  *)
(* apart, and one symbol it does not know.                                 *)
(***************************************************************************)
EXTENDS Storage

MCSnapKinds == {[symbol |-> "A", price |-> 1000], [symbol |-> "A", price |-> 1010],
                [symbol |-> "X", price |-> 500]}
=============================================================================
