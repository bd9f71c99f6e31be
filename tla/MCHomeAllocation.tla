--------------------------- MODULE MCHomeAllocation ---------------------------
(* Model checking of HomeAllocation: all its sets but Later are symmetric. *)
EXTENDS HomeAllocation, TLC

\* One working directory and one manager, so that the launches do meet.
OnePlace == [a \in Adm |-> "here"]

Symmetry == Permutations(Adm) \cup Permutations(Lane) \cup Permutations(Profile)
            \cup Permutations(Digest) \cup Permutations(Home)
===============================================================================
