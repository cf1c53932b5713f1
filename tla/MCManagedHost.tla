---------------------------- MODULE MCManagedHost ----------------------------
(* Two targets, alike. *)
EXTENDS ManagedHost, TLC

CONSTANTS t1, t2

MCTargets == {t1, t2}
MCSymmetry == Permutations(MCTargets)
=============================================================================
