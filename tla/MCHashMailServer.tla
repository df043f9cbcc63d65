-------------------------- MODULE MCHashMailServer ---------------------------
(***************************************************************************)
(* TLC instance of HashMailServer: one identifier that two stream objects  *)
(* use in turn, and two handlers.  The proofs hold for any number.         *)
(***************************************************************************)
EXTENDS HashMailServer
===============================================================================
