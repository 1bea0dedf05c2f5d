---------------------------- MODULE MCDeadlines ----------------------------
(* The slots are interchangeable. *)
EXTENDS Deadlines, TLC

SlotSymmetry == Permutations(Slot)

=============================================================================
