---------------------------- MODULE MCMembership ----------------------------
(* Two adapters and three addresses, one more than there are adapters.     *)
EXTENDS Membership, TLC

CONSTANTS a1, a2, x1, x2, x3

MCAdapters == {a1, a2}

MCAddresses == {x1, x2, x3}

MCSymmetry == Permutations(MCAdapters) \cup Permutations(MCAddresses)
==============================================================================
