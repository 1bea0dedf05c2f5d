------------------------------- MODULE MCFiberIo -------------------------------
(* Finite instances of FiberIo for TLC. *)
EXTENDS FiberIo, TLC

\* Neither fibers nor futures differ by anything but their address.
IoSymmetry == Permutations(Fiber) \cup Permutations(Future)

===============================================================================
