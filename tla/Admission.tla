------------------------------ MODULE Admission ------------------------------
(***************************************************************************)
(* What a session manager promises under admission/1 (FRONT-DOOR.md 5.7),  *)
(* said without ledgers, faults or records: an operation begins at most    *)
(* once or dies unbegun, and an admission key is taken by one operation at *)
(* a time, in one atomic step with the beginning of that operation.        *)
(***************************************************************************)
EXTENDS FiniteSets

CONSTANTS Op,     \* operation ids
          Key,    \* admission keys
          NoKey,  \* a request without an admission key
          NoOp    \* a key nobody holds

VARIABLES fate,   \* what became of each operation
          holder  \* who holds each admission key

avars == <<fate, holder>>

Fate == {"open", "begun", "dead"}

AInit ==
    /\ fate = [o \in Op |-> "open"]
    /\ holder = [k \in Key |-> NoOp]

\* An open operation begins; with a key it takes the key in the same step.
Begin(o, k) ==
    /\ fate[o] = "open"
    /\ k # NoKey => holder[k] = NoOp
    /\ fate' = [fate EXCEPT ![o] = "begun"]
    /\ holder' = IF k = NoKey THEN holder ELSE [holder EXCEPT ![k] = o]

\* An open operation is refused for good, or fenced by a cancel.
Die(o) ==
    /\ fate[o] = "open"
    /\ fate' = [fate EXCEPT ![o] = "dead"]
    /\ UNCHANGED holder

\* The generation behind a key is retired.
Free(k) ==
    /\ holder[k] # NoOp
    /\ holder' = [holder EXCEPT ![k] = NoOp]
    /\ UNCHANGED fate

ANext ==
    \/ \E o \in Op, k \in Key \cup {NoKey} : Begin(o, k)
    \/ \E o \in Op : Die(o)
    \/ \E k \in Key : Free(k)

ASpec == AInit /\ [][ANext]_avars
=============================================================================
