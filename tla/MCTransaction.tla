---------------------------- MODULE MCTransaction ----------------------------
(* Instances of Transaction.                                               *)
EXTENDS Transaction
CONSTANTS serializable, standard, none
MCLevels == {serializable}
=============================================================================
