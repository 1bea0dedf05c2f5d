----------------------------- MODULE MCFiberSched -----------------------------
(* Finite instances of FiberSched for TLC. *)
EXTENDS FiberSched, TLC

\* Fibers differ by nothing but their address.
FiberSymmetry == Permutations(Fiber)
=============================================================================
