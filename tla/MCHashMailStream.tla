-------------------------- MODULE MCHashMailStream ---------------------------
(***************************************************************************)
(* TLC instance of HashMailStream: a reader buffer of two bytes and a copy *)
(* buffer of four stand for 4096 and 32768.  The lengths fall short of the *)
(* reader's buffer, fill it, and exceed the copy buffer.                   *)
(***************************************************************************)
EXTENDS HashMailStream
===============================================================================
