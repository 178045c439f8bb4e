------------------------------- MODULE MCLibc ------------------------------
(* Values for the constants of Libc.                                       *)
EXTENDS Libc

MCAddresses == 1..5
MCAnswers == {-9, -4, 0, 3, 128, 300}
=============================================================================
