------------------------------ MODULE MCTenancy ------------------------------
(***************************************************************************)
(* Two requests at a time, one visitor, one customer with one key, one     *)
(* address; two windows of two ticks.                                      *)
(***************************************************************************)
EXTENDS Tenancy, TLC

SlotSymmetry == Permutations(Slot)
==============================================================================
