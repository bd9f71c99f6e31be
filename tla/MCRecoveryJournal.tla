-------------------------- MODULE MCRecoveryJournal ---------------------------
(* Model checking of RecoveryJournal: the attempts are symmetric. *)
EXTENDS RecoveryJournal, TLC

Symmetry == Permutations(Attempt)
===============================================================================
