------------------------------ MODULE MCCordon ------------------------------
(* A small instance of Cordon, with labels that look like what a cordon      *)
(* writes.                                                                   *)
EXTENDS Cordon

MCPrefix == <<"cordoned-">>
MCRenamed == {<<"gpu">>, <<"group-", "7">>}
MCWords == MCRenamed \union {<<"big">>, <<"cordoned-", "gpu">>, <<"group-", "linux">>, <<"cordoned">>}
=============================================================================
