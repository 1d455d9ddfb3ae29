------------------------------ MODULE MCProcess ------------------------------
(***************************************************************************)
(* Two matchers, a relay and a sweeper in one process.  Nothing depends on *)
(* which matcher is which, but a temporal property rules out symmetry.     *)
(***************************************************************************)
EXTENDS Process
==============================================================================
