---------------------------- MODULE MCLndChallenger ----------------------------
(***************************************************************************)
(* TLC instance of LndChallenger.  Invoices are interchangeable.           *)
(***************************************************************************)
EXTENDS LndChallenger, TLC

Symmetry == Permutations(Hashes)
===============================================================================
