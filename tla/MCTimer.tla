------------------------------- MODULE MCTimer -------------------------------
(* The thread of the event loop, and one that is not.                      *)
EXTENDS Timer

CONSTANTS loop, main

LoopOnly == {loop}

Both == {loop, main}
==============================================================================
