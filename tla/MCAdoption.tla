------------------------------ MODULE MCAdoption ------------------------------
(* The ownership model on a small instance. *)
EXTENDS Adoption
=============================================================================
