----------------------------- MODULE MCEventLoop -----------------------------
(* Two objects with a descriptor each, besides those of the loop itself.   *)
EXTENDS EventLoop, TLC

CONSTANTS f1, f2

MCFds == {f1, f2}

FdSymmetry == Permutations(MCFds)
==============================================================================
