------------------------------ MODULE Nothing ------------------------------
(* `null` and `undefined`, wherever the modules tell them from a value.      *)
CONSTANT None
=============================================================================
