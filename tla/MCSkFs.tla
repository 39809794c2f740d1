------------------------------ MODULE MCSkFs ------------------------------
(***************************************************************************)
(* One skfs with two file slots and one walker slot.                       *)
(***************************************************************************)
EXTENDS SkFs

MCFiles == {"f1", "f2"}
MCWalkers == {"w1"}

=============================================================================
