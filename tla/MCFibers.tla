------------------------------ MODULE MCFibers ------------------------------
(* Instance of Fibers for TLC: any two fibers are interchangeable.         *)
EXTENDS Fibers, TLC

FiberSymmetry == Permutations(Fiber)
=============================================================================
