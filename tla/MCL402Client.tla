---------------------------- MODULE MCL402Client ----------------------------
(***************************************************************************)
(* TLC instance of L402Client: two calls, three invoices, so that a        *)
(* payment can fail, be replaced and be replaced again.                    *)
(***************************************************************************)
EXTENDS L402Client
=============================================================================
