-------------------------- MODULE MCSessionManager ---------------------------
(* Model checking of SessionManager: operations and handles are symmetric. *)
EXTENDS SessionManager, FiniteSets, TLC

Symmetry == Permutations(Op) \cup Permutations(Handle)

\* Bound: at most one profile, record or submission is out of order at a time, and
\* once an operation was answered for a drifted identity one other may follow.
Few ==
    /\ Cardinality(drifted) + Cardinality(unreadable) + Cardinality(expired) \leq 1
    /\ (\E o \in Op : IdentityStale \in told[o]) => \E o \in Op : ledger[o] = Absent
=============================================================================
