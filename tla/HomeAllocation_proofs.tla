------------------------ MODULE HomeAllocation_proofs -------------------------
(***************************************************************************)
(* HomeExclusive and LaneSingleTuple for any number of admissions, lanes,  *)
(* profiles, digests and homes.  Neither is inductive: an admission that   *)
(* has read the second list but not yet submitted counts too, and Agreed   *)
(* says of all that got so far what their lists showed them.               *)
(***************************************************************************)
EXTENDS HomeAllocation, TLAPS

\* Past the second list of the invocation that holds the admission, or of one
\* that submitted it.
Cleared == {a \in Adm : at[a] \in {"cleared", "submitted", "over"}}

\* Whatever has left "new" knows what it wants.
Selected == \A a \in Adm : at[a] # "new" => want[a] \in Want

\* No two cleared admissions with blocking leases conflict, whoever looked last.
Agreed == \A a, b \in Cleared : blocking(a) /\ blocking(b) => ~Conflict(a, b)

IInv == TypeOK /\ Selected /\ Agreed

\* Who reads the list last does not matter: the rule is symmetric once both
\* homes are known.
LEMMA ConflictSymmetric ==
    ASSUME NEW a \in Adm, NEW b \in Adm, Conflict(a, b)
    PROVE  Conflict(b, a)
BY DEF Conflict, SameHome, SameProfile, SameLane

\* Nothing is admitted or leased at first.
LEMMA InitIInv == Init => IInv
<1> SUFFICES ASSUME Init PROVE IInv
    OBVIOUS
<1>1. TypeOK
    BY DEF Init, TypeOK, Stage, NoLease, Phase
<1>2. Selected /\ Agreed
    BY DEF Init, Selected, Agreed, Cleared
<1> QED BY <1>1, <1>2 DEF IInv

\* Every step keeps the types.
LEMMA TypeStep == TypeOK /\ [Next]_vars => TypeOK'
<1> SUFFICES ASSUME TypeOK, [Next]_vars PROVE TypeOK'
    OBVIOUS
<1> USE DEF TypeOK, Stage, Phase, Goto
<1>1. ASSUME NEW a \in Adm, NEW d \in Digest, NEW lane \in Lane, SelectLane(a, lane, d)
      PROVE  TypeOK'
    BY <1>1 DEF SelectLane, Want
<1>2. ASSUME NEW a \in Adm, NEW d \in Digest, NEW p \in Profile, SelectAdHoc(a, p, d)
      PROVE  TypeOK'
    BY <1>2 DEF SelectAdHoc, Want
<1>3. ASSUME NEW a \in Adm, ListBefore(a) PROVE TypeOK'
    BY <1>3 DEF ListBefore
<1>4. ASSUME NEW a \in Adm, Acquire(a) PROVE TypeOK'
    BY <1>4 DEF Acquire
<1>5. ASSUME NEW a \in Adm, ListAfter(a) PROVE TypeOK'
    BY <1>5 DEF ListAfter
<1>6. ASSUME NEW a \in Adm, Submit(a) PROVE TypeOK'
    BY <1>6 DEF Submit
<1>7. ASSUME NEW a \in Adm, Settle(a) PROVE TypeOK'
    BY <1>7 DEF Settle
<1>8. ASSUME NEW a \in Adm, End(a) PROVE TypeOK'
    BY <1>8 DEF End
<1>9. ASSUME NEW a \in Adm, Recover(a) PROVE TypeOK'
    BY <1>9 DEF Recover, Pending
<1>10. ASSUME NEW a \in Adm, NEW phase \in Phase, Move(a, phase) PROVE TypeOK'
    BY <1>10 DEF Move
<1>11. ASSUME NEW lane \in Lane, NEW p \in Profile, EditRecord(lane, p) PROVE TypeOK'
    BY <1>11 DEF EditRecord
<1>12. CASE UNCHANGED vars
    BY <1>12 DEF vars
<1> QED
    BY <1>1, <1>2, <1>3, <1>4, <1>5, <1>6, <1>7, <1>8, <1>9, <1>10, <1>11, <1>12
    DEF Next, Admission

\* A step that clears nobody, makes no lease blocking and leaves the cleared
\* admissions' homes and wants alone keeps them agreed.
LEMMA QuietStep ==
    ASSUME TypeOK, Agreed,
           \A a \in Adm : a \in Cleared' /\ blocking(a)' =>
               /\ a \in Cleared /\ blocking(a)
               /\ want'[a] = want[a] /\ lease'[a].home = lease[a].home
    PROVE  Agreed'
<1> SUFFICES ASSUME NEW a \in Cleared', NEW b \in Cleared', blocking(a)', blocking(b)'
             PROVE  ~Conflict(a, b)'
    BY DEF Agreed
<1>1. a \in Adm /\ b \in Adm
    BY DEF Cleared
<1>2. ~Conflict(a, b)
    BY <1>1 DEF Agreed
<1> QED BY <1>1, <1>2 DEF Conflict, SameHome, SameLane, SameProfile

\* Every step keeps what the admissions want and their agreement.
LEMMA StepIInv == IInv /\ [Next]_vars => IInv'
<1> SUFFICES ASSUME IInv, [Next]_vars PROVE IInv'
    OBVIOUS
<1>1. TypeOK'
    BY TypeStep DEF IInv
<1> SUFFICES Selected' /\ Agreed'
    BY <1>1 DEF IInv
<1> USE DEF IInv, TypeOK, Stage, Goto
<1>2. ASSUME NEW a \in Adm, NEW d \in Digest, NEW lane \in Lane, SelectLane(a, lane, d)
      PROVE  Selected' /\ Agreed'
    <2>1. Selected'
        BY <1>2 DEF SelectLane, Selected, Want
    <2>2. Agreed'
        BY <1>2, QuietStep DEF SelectLane, Cleared, blocking
    <2> QED BY <2>1, <2>2
<1>3. ASSUME NEW a \in Adm, NEW d \in Digest, NEW p \in Profile, SelectAdHoc(a, p, d)
      PROVE  Selected' /\ Agreed'
    <2>1. Selected'
        BY <1>3 DEF SelectAdHoc, Selected, Want
    <2>2. Agreed'
        BY <1>3, QuietStep DEF SelectAdHoc, Cleared, blocking
    <2> QED BY <2>1, <2>2
<1>4. ASSUME NEW a \in Adm, ListBefore(a) PROVE Selected' /\ Agreed'
    <2>1. Selected'
        BY <1>4 DEF ListBefore, Selected
    <2>2. Agreed'
        BY <1>4, QuietStep DEF ListBefore, Cleared, blocking
    <2> QED BY <2>1, <2>2
\* The acquired lease is not yet a cleared one, and an ended one does not block.
<1>5. ASSUME NEW a \in Adm, Acquire(a) PROVE Selected' /\ Agreed'
    <2>1. Selected'
        BY <1>5 DEF Acquire, Selected
    <2>2. Agreed'
        BY <1>5, QuietStep DEF Acquire, Cleared, blocking
    <2> QED BY <2>1, <2>2
\* The list shows the newly cleared admission every blocking lease: it agrees
\* with each of them, and each of them with it.
<1>6. ASSUME NEW a \in Adm, ListAfter(a) PROVE Selected' /\ Agreed'
    <2>1. Selected'
        BY <1>6 DEF ListAfter, Selected
    <2>2. ASSUME NEW b \in Cleared', NEW c \in Cleared', blocking(b), blocking(c)
          PROVE  ~Conflict(b, c)
        <3>1. b \in Adm /\ c \in Adm
            BY DEF Cleared
        <3>2. CASE b = a
            BY <1>6, <3>1, <3>2, <2>2 DEF ListAfter
        <3>3. CASE c = a
            BY <1>6, <3>1, <3>3, <2>2, ConflictSymmetric DEF ListAfter
        <3>4. CASE b # a /\ c # a
            BY <1>6, <3>1, <3>4, <2>2 DEF ListAfter, Cleared, Agreed
        <3> QED BY <3>2, <3>3, <3>4
    <2>3. want' = want /\ lease' = lease
        BY <1>6 DEF ListAfter
    <2>4. Agreed'
        BY <2>2, <2>3 DEF Agreed, blocking, Conflict, SameHome, SameLane, SameProfile
    <2> QED BY <2>1, <2>4
<1>7. ASSUME NEW a \in Adm, Submit(a) PROVE Selected' /\ Agreed'
    <2>1. Selected'
        BY <1>7 DEF Submit, Selected
    <2>2. Agreed'
        BY <1>7, QuietStep DEF Submit, Cleared, blocking
    <2> QED BY <2>1, <2>2
<1>8. ASSUME NEW a \in Adm, Settle(a) PROVE Selected' /\ Agreed'
    <2>1. Selected'
        BY <1>8 DEF Settle, Selected
    <2>2. Agreed'
        BY <1>8, QuietStep DEF Settle, Cleared, blocking
    <2> QED BY <2>1, <2>2
<1>9. ASSUME NEW a \in Adm, End(a) PROVE Selected' /\ Agreed'
    <2>1. Selected'
        BY <1>9 DEF End, Selected
    <2>2. Agreed'
        BY <1>9, QuietStep DEF End, Cleared, blocking
    <2> QED BY <2>1, <2>2
<1>10. ASSUME NEW a \in Adm, Recover(a) PROVE Selected' /\ Agreed'
    <2>1. Selected'
        BY <1>10 DEF Recover, Selected
    <2>2. Agreed'
        BY <1>10, QuietStep DEF Recover, Cleared, blocking
    <2> QED BY <2>1, <2>2
\* A lease that does not block never blocks again.
<1>11. ASSUME NEW a \in Adm, NEW phase \in Phase, Move(a, phase)
       PROVE  Selected' /\ Agreed'
    <2>1. Selected'
        BY <1>11 DEF Move, Selected
    <2>2. Agreed'
        BY <1>11, QuietStep DEF Move, Cleared, blocking
    <2> QED BY <2>1, <2>2
<1>12. ASSUME NEW lane \in Lane, NEW p \in Profile, EditRecord(lane, p)
       PROVE  Selected' /\ Agreed'
    <2>1. Selected'
        BY <1>12 DEF EditRecord, Selected
    <2>2. Agreed'
        BY <1>12, QuietStep DEF EditRecord, Cleared, blocking
    <2> QED BY <2>1, <2>2
<1>13. CASE UNCHANGED vars
    <2>1. Selected'
        BY <1>13 DEF vars, Selected
    <2>2. Agreed'
        BY <1>13, QuietStep DEF vars, Cleared, blocking
    <2> QED BY <2>1, <2>2
<1> QED
    BY <1>2, <1>3, <1>4, <1>5, <1>6, <1>7, <1>8, <1>9, <1>10, <1>11, <1>12, <1>13
    DEF Next, Admission

\* The inductive invariant holds in every behaviour.
LEMMA Invariance == Spec => []IInv
BY InitIInv, StepIInv, PTL DEF Spec

\* The state keeps its types, for any number of admissions.
THEOREM TypeCorrect == Spec => []TypeOK
<1>1. IInv => TypeOK
    BY DEF IInv
<1> QED BY <1>1, Invariance, PTL

\* A home with a blocking lease belongs to one lane, or to ad-hoc launches, for
\* any number of competing admissions and in every order of their calls.
THEOREM HomesExclusive == Spec => []HomeExclusive
<1>1. IInv => HomeExclusive
    <2> SUFFICES ASSUME IInv, NEW a \in Hosted, NEW b \in Hosted,
                        lease[a].home = lease[b].home
                 PROVE  want[a].lane = want[b].lane
        BY DEF HomeExclusive
    <2>1. a \in Cleared /\ b \in Cleared /\ blocking(a) /\ blocking(b)
        BY DEF Hosted, Cleared
    <2>2. ~Conflict(a, b)
        BY <2>1 DEF IInv, Agreed
    <2> QED BY <2>2 DEF Conflict, SameHome, SameLane
<1> QED BY <1>1, Invariance, PTL

\* The hosted admissions of a lane agree on profile, digest and home.
THEOREM LanesSingleTuple == Spec => []LaneSingleTuple
<1>1. IInv => LaneSingleTuple
    <2> SUFFICES ASSUME IInv, NEW a \in Hosted, NEW b \in Hosted,
                        want[a].lane = want[b].lane, want[a].lane # AdHoc
                 PROVE  want[a] = want[b] /\ lease[a].home = lease[b].home
        BY DEF LaneSingleTuple
    <2>1. a \in Cleared /\ b \in Cleared /\ blocking(a) /\ blocking(b)
        BY DEF Hosted, Cleared
    <2>2. ~Conflict(a, b)
        BY <2>1 DEF IInv, Agreed
    <2>3. want[a] \in Want /\ want[b] \in Want
        BY DEF Hosted, IInv, Selected
    <2> QED BY <2>2, <2>3 DEF Conflict, SameHome, SameLane, SameProfile, Want
<1> QED BY <1>1, Invariance, PTL

\* Both directions of the lane allocation rule, for any number of admissions.
THEOREM AllocationIsKept == Spec => []AllocationRule
BY HomesExclusive, LanesSingleTuple, PTL DEF AllocationRule

-------------------------------------------------------------------------------
(* The launchers' lists and acquires implement the abstract tenancy.        *)

\* A lease that was granted has a home.
Placed == \A a \in Adm : lease[a].phase # "none" => lease[a].home \in Home

\* Only an acquire makes a lease, and Curator's later changes leave its home.
LEMMA PlacedAlways == Spec => []Placed
<1>1. Init => Placed
    BY DEF Init, NoLease, Placed
<1>2. TypeOK /\ Placed /\ [Next]_vars => Placed'
    <2> SUFFICES ASSUME TypeOK, Placed, [Next]_vars PROVE Placed'
        OBVIOUS
    <2>1. ASSUME NEW a \in Adm, Acquire(a) PROVE Placed'
        BY <2>1 DEF Acquire, Placed, TypeOK
    <2>2. ASSUME NEW a \in Adm, NEW phase \in Phase, Move(a, phase) PROVE Placed'
        BY <2>2 DEF Move, Placed, blocking, TypeOK
    <2>3. ASSUME UNCHANGED lease PROVE Placed'
        BY <2>3 DEF Placed
    <2> QED
        BY <2>1, <2>2, <2>3 DEF Next, Admission, SelectLane, SelectAdHoc, ListBefore,
            ListAfter, Submit, Settle, End, Recover, EditRecord, vars
<1> QED BY <1>1, <1>2, TypeCorrect, PTL DEF Spec

\* Nobody is hosted at first.
LEMMA TenancyInit == Init => T!TInit
BY DEF Init, T!TInit, stageOf, termsOf, Hosted

\* Every step lets an admission move in, or leave, or is invisible.
LEMMA TenancyStep == IInv /\ Placed /\ [Next]_vars => [T!TNext]_(T!tvars)
<1> SUFFICES ASSUME IInv, Placed, [Next]_vars PROVE [T!TNext]_(T!tvars)
    OBVIOUS
<1> USE DEF IInv, TypeOK, Goto
<1> DEFINE Gone(a) == at[a] \in {"submitted", "over"}
\* What nobody sees: who has the mark, what blocks under it and on which terms.
<1>1. ASSUME \A a \in Adm : /\ Gone(a)' <=> Gone(a)
                            /\ Gone(a) => (blocking(a)' <=> blocking(a))
                            /\ Gone(a) /\ blocking(a) =>
                                  want'[a] = want[a] /\ lease'[a].home = lease[a].home
      PROVE  UNCHANGED T!tvars
    <2>1. UNCHANGED stageOf
        BY <1>1 DEF stageOf
    <2>2. \A a \in Adm : (a \in Hosted)' <=> a \in Hosted
        BY <1>1 DEF Hosted
    <2>3. UNCHANGED termsOf
        BY <1>1, <2>2 DEF termsOf, Hosted
    <2> QED BY <2>1, <2>3 DEF T!tvars
<1>2. ASSUME NEW a \in Adm, NEW d \in Digest,
             \/ \E lane \in Lane : SelectLane(a, lane, d)
             \/ \E profile \in Profile : SelectAdHoc(a, profile, d)
      PROVE  UNCHANGED T!tvars
    BY <1>1, <1>2 DEF SelectLane, SelectAdHoc, blocking
<1>3. ASSUME NEW a \in Adm, ListBefore(a) \/ ListAfter(a) \/ Settle(a) \/ End(a) \/ Recover(a)
      PROVE  UNCHANGED T!tvars
    BY <1>1, <1>3 DEF ListBefore, ListAfter, Settle, End, Recover, blocking
\* An acquire under the mark only settles an admission whose lease has ended.
<1>4. ASSUME NEW a \in Adm, Acquire(a) PROVE UNCHANGED T!tvars
    BY <1>1, <1>4 DEF Acquire, blocking
<1>5. ASSUME NEW a \in Adm, stageOf[a] # "gone",
             stageOf' = [stageOf EXCEPT ![a] = "gone"],
             termsOf' = [termsOf EXCEPT ![a] = None]
      PROVE  T!TNext
    BY <1>5 DEF T!TNext, T!Leave
<1>6. ASSUME NEW a \in Adm, Submit(a) PROVE T!TNext
    <2>1. /\ at[a] = "cleared" /\ at' = [at EXCEPT ![a] = "submitted"]
          /\ want' = want /\ lease' = lease
        BY <1>6 DEF Submit
    <2>2. stageOf[a] = "waiting" /\ a \notin Hosted
        BY <2>1 DEF stageOf, Hosted
    <2>3. CASE ~blocking(a)
        <3>1. stageOf' = [stageOf EXCEPT ![a] = "gone"]
            BY <2>1, <2>3 DEF stageOf, blocking
        <3>2. termsOf' = [termsOf EXCEPT ![a] = None]
            BY <2>1, <2>3 DEF termsOf, Hosted, blocking
        <3> QED BY <1>5, <2>2, <3>1, <3>2
    <2>4. CASE blocking(a)
        <3> DEFINE t == [want |-> want[a], home |-> lease[a].home]
        <3>1. stageOf' = [stageOf EXCEPT ![a] = "hosted"]
            BY <2>1, <2>4 DEF stageOf, blocking
        <3>2. termsOf' = [termsOf EXCEPT ![a] = t]
            BY <2>1, <2>4 DEF termsOf, Hosted, blocking
        <3>3. want[a] \in Want /\ lease[a].home \in Home
            BY <2>1, <2>4 DEF Selected, Placed, blocking
        <3>4. t \in [want : Want, home : Home]
            BY <3>3
        <3>5. ASSUME NEW b \in Adm, stageOf[b] = "hosted"
              PROVE  T!Agree(t, termsOf[b])
            <4>1. b \in Hosted
                BY <3>5 DEF stageOf, Hosted
            <4>2. termsOf[b] = [want |-> want[b], home |-> lease[b].home]
                BY <4>1 DEF termsOf
            <4>3. ~Conflict(a, b)
                BY <2>1, <2>4, <4>1 DEF Agreed, Cleared, Hosted
            <4>4. want[b] \in Want
                BY <4>1 DEF Selected, Hosted
            <4> QED
                BY <3>3, <4>2, <4>3, <4>4
                DEF T!Agree, Conflict, SameHome, SameProfile, SameLane, Want
        <3> HIDE DEF t
        <3>6. T!MoveIn(a)
            BY <2>2, <3>1, <3>2, <3>4, <3>5 DEF T!MoveIn
        <3> QED BY <3>6 DEF T!TNext
    <2> QED BY <2>3, <2>4
<1>7. ASSUME NEW a \in Adm, NEW phase \in Phase, Move(a, phase)
      PROVE  [T!TNext]_(T!tvars)
    <2>1. /\ blocking(a) /\ lease' = [lease EXCEPT ![a].phase = phase]
          /\ at' = at /\ want' = want
        BY <1>7 DEF Move
    <2>2. \A b \in Adm : lease'[b].home = lease[b].home
        BY <2>1
    <2>3. \A b \in Adm : b # a => (blocking(b)' <=> blocking(b))
        BY <2>1 DEF blocking
    <2>4. CASE ~Gone(a) \/ blocking(a)'
        <3>1. \A b \in Adm : /\ Gone(b)' <=> Gone(b)
                             /\ Gone(b) => (blocking(b)' <=> blocking(b))
            BY <2>1, <2>3, <2>4
        <3> QED BY <1>1, <2>1, <2>2, <3>1
    <2>5. CASE Gone(a) /\ ~blocking(a)'
        <3>1. stageOf[a] = "hosted"
            BY <2>1, <2>5 DEF stageOf
        <3>2. stageOf' = [stageOf EXCEPT ![a] = "gone"]
            BY <2>1, <2>3, <2>5 DEF stageOf
        <3>3. termsOf' = [termsOf EXCEPT ![a] = None]
            BY <2>1, <2>2, <2>3, <2>5 DEF termsOf, Hosted
        <3> QED BY <1>5, <3>1, <3>2, <3>3
    <2> QED BY <2>4, <2>5
<1>8. ASSUME NEW lane \in Lane, NEW p \in Profile, EditRecord(lane, p)
      PROVE  UNCHANGED T!tvars
    BY <1>1, <1>8 DEF EditRecord, blocking
<1>9. CASE UNCHANGED vars
    BY <1>1, <1>9 DEF vars, blocking
<1> QED
    BY <1>2, <1>3, <1>4, <1>6, <1>7, <1>8, <1>9 DEF Next, Admission

\* The launchers' double reading makes the allocation atomic: it implements the
\* tenancy of FRONT-DOOR.md 6.2, for any number of admissions.
THEOREM Implementation == Spec => ImplementsTenancy
BY TenancyInit, TenancyStep, Invariance, PlacedAlways, PTL
DEF Spec, ImplementsTenancy, T!TSpec
===============================================================================
