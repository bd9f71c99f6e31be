------------------------ MODULE SessionManager_proofs ------------------------
(***************************************************************************)
(* Proofs about SessionManager, for every set of operations, handles and   *)
(* keys.  The inductive invariant IInv says what each ledger outcome means *)
(* for the provider (LedgerMeaning), that an answer given is still what    *)
(* the ledger says, or that of a drifted start (AnswersKept), and ties     *)
(* keys to live generations.                                               *)
(***************************************************************************)
EXTENDS SessionManager, TLAPS

\* A ledger entry has a session, and its operation a provider, exactly when
\* its outcome is started or unknown.
LedgerMeaning ==
    \A o \in Op :
        IF ledger[o].outcome \in {"started", "unknown"}
        THEN ledger[o].handle \in Handle /\ starts[o] = 1
        ELSE ledger[o].handle = NoHandle /\ starts[o] = 0

\* The final answer e accounts for: its outcome, or a drifted identity of what it started.
Accounts(e, a) ==
    IF a = IdentityStale THEN e.outcome \in {"started", "unknown"} ELSE a = Answer(e.outcome)

\* A final answer once given is accounted for by what the ledger still holds.
AnswersKept == \A o \in Op : \A a \in told[o] : Accounts(ledger[o], a)

\* An open gate needs a live session, and a handle never minted is blank.
SessionShape ==
    \A h \in Handle : /\ session[h].gate => session[h].alive
                      /\ session[h].alive => session[h].made
                      /\ ~session[h].made => session[h].gen = 0

IInv ==
    /\ TypeOK
    /\ LedgerMeaning
    /\ AnswersKept
    /\ SessionShape
    /\ OneLivePerKey
    /\ KeyNotLeaked

-----------------------------------------------------------------------------
(* Lemmas on the operators.                                                *)

\* Answers differ as outcomes do, and none of them is that of a drifted identity.
LEMMA AnswersDiffer ==
    /\ \A x, y : Answer(x) = Answer(y) => x = y
    /\ \A x : Answer(x) # IdentityStale
<1>1. ASSUME NEW x PROVE Answer(x).outcome = x /\ Answer(x).stale = FALSE
  BY DEF Answer
<1>2. IdentityStale.stale = TRUE
  BY DEF IdentityStale
<1>3. ASSUME NEW x, NEW y, Answer(x) = Answer(y) PROVE x = y
  BY <1>1, <1>3
<1> QED
  BY <1>1, <1>2, <1>3

\* What the manager answers about an operation in a settled ledger entry.
LEMMA AnswerAccounted ==
    ASSUME NEW e, e.handle \in drifted => e.outcome \in {"started", "unknown"},
           NEW a \in Final, a = OutcomeOf(e) \/ (a = IdentityStale /\ e.handle \in drifted)
    PROVE  Accounts(e, a)
<1>1. a # Answer("unknown")
  BY AnswersDiffer DEF Final
<1> QED
  BY <1>1, AnswersDiffer DEF OutcomeOf, Accounts

\* An operation without a settled entry was never given a final answer.
LEMMA OpenIsUntold ==
    ASSUME TypeOK, AnswersKept, NEW o \in Op, ~Settled(ledger[o])
    PROVE  told[o] = {}
<1> SUFFICES ASSUME NEW a \in told[o] PROVE FALSE
  OBVIOUS
<1>1. a \in Final /\ Accounts(ledger[o], a)
  BY DEF TypeOK, AnswersKept
<1>2. ledger[o].outcome \in {"not_found", "prepared"}
  BY DEF Settled
<1> QED
  BY <1>1, <1>2, AnswersDiffer DEF Accounts, Final

\* Telling what the ledger accounts for keeps the answers accounted for.
LEMMA TellKeeps ==
    ASSUME TypeOK, NEW o \in Op, NEW a, Tell(o, a), a \in Final => Accounts(ledger'[o], a),
           \A p \in Op : \A b \in told[p] : Accounts(ledger'[p], b)
    PROVE  AnswersKept'
<1>1. \A p \in Op : \A b \in told'[p] : b \in told[p] \/ (p = o /\ b = a /\ a \in Final)
  BY DEF Tell, TypeOK
<1> QED
  BY <1>1 DEF AnswersKept

\* A session that drifted is one a start or an uncertain start recorded.
LEMMA DriftedIsBegun ==
    ASSUME TypeOK, LedgerMeaning, NEW o \in Op, ledger[o].handle \in drifted
    PROVE  ledger[o].outcome \in {"started", "unknown"}
  BY NullsAssumption DEF TypeOK, LedgerMeaning

\* A next generation is a number above the session's and the key's last one.
LEMMA NextGenerationAbove ==
    ASSUME TypeOK, NEW r \in Request
    PROVE  /\ NextGeneration(r) \in Nat \ {0}
           /\ r.kind = "resume" => NextGeneration(r) > session[r.target].gen
           /\ r.key # NoKey => NextGeneration(r) > generations[r.key]
<1>1. /\ r.key \in Key \cup {NoKey}
      /\ r.kind = "resume" => r.target \in Handle
  BY DEF Request, Launch, Resume
<1>2. r.kind = "resume" => session[r.target].gen \in Nat
  BY <1>1, MaxGenAssumption DEF TypeOK, Session
<1>3. r.key # NoKey => generations[r.key] \in Nat
  BY <1>1, MaxGenAssumption DEF TypeOK
<1> QED
  BY <1>1, <1>2, <1>3 DEF NextGeneration, Larger

\* An entry that is about to be written belongs to an operation that never
\* reached a provider.
LEMMA AdmissibleIsOpen ==
    ASSUME LedgerMeaning, NEW o \in Op, ~Settled(ledger[o])
    PROVE  /\ ledger[o].handle = NoHandle
           /\ starts[o] = 0
           /\ ledger[o].outcome \in {"not_found", "prepared"}
  BY DEF LedgerMeaning, Settled

\* A request names a key or none, and a resume a session.
LEMMA RequestFields ==
    ASSUME NEW r \in Request
    PROVE  /\ r.key \in Key \cup {NoKey}
           /\ r.kind = "resume" => r.target \in Handle
  BY DEF Request, Launch, Resume

-----------------------------------------------------------------------------
(* Type correctness.                                                       *)

LEMMA TypeInit == Init => TypeOK
  BY MaxGenAssumption DEF Init, TypeOK, Entry, Absent, Bare, Outcome, Session, Unmade, Final

LEMMA TypeStart ==
    ASSUME TypeOK, NEW o \in Op, NEW r \in Request, StartCall(o, r)
    PROVE  TypeOK'
<1>1. CASE ReplayStart(o, r)
  BY <1>1 DEF ReplayStart, Tell, TypeOK, envVars
<1>2. CASE Prepare(o, r)
  BY <1>2, MaxGenAssumption DEF Prepare, TypeOK, envVars, Entry, Bare, Outcome
<1>3. CASE RefuseStart(o, r)
  BY <1>3, MaxGenAssumption DEF RefuseStart, Tell, TypeOK, envVars, Entry, Bare, Outcome
<1>4. CASE CrashAfterReservation(o, r)
  BY <1>4, MaxGenAssumption, RequestFields
  DEF CrashAfterReservation, Reserved, TypeOK, envVars, Entry, Bare, Outcome
<1>5. CASE FailStart(o, r)
  BY <1>5, MaxGenAssumption DEF FailStart, TypeOK, envVars, Entry, Bare, Outcome
<1>6. ASSUME NEW h \in Handle, NEW crashed \in BOOLEAN, NEW lost \in BOOLEAN,
             StartProvider(o, r, h, crashed, lost)
      PROVE  TypeOK'
  <2>1. NextGeneration(r) \in 1..MaxGen
    BY <1>6, NextGenerationAbove, MaxGenAssumption DEF StartProvider
  <2>2. ledger' \in [Op -> Entry] /\ generations' \in [Key -> 0..MaxGen]
    BY <1>6, <2>1, RequestFields DEF StartProvider, TypeOK, Entry, Outcome
  <2>3. session' \in [Handle -> Session]
    BY <1>6, <2>1, RequestFields, ActivityAssumption DEF StartProvider, TypeOK, Session
  <2>4. admissions' \in [Key -> Op \cup {NoOp}] /\ starts' \in [Op -> Nat]
    BY <1>6, RequestFields DEF StartProvider, Reserved, TypeOK
  <2>5. told' \in [Op -> SUBSET Final]
    BY <1>6 DEF StartProvider, Tell, TypeOK
  <2> QED
    BY <1>6, <2>2, <2>3, <2>4, <2>5 DEF StartProvider, envVars, TypeOK
<1> QED
  BY <1>1, <1>2, <1>3, <1>4, <1>5, <1>6 DEF StartCall

LEMMA TypeOther ==
    ASSUME TypeOK, \/ \E o \in Op : OperationCall(o)
                   \/ \E h \in Handle : SessionCall(h)
                   \/ Environment
    PROVE  TypeOK'
<1>1. ASSUME NEW o \in Op, Cancel(o) PROVE TypeOK'
  <2>1. [ledger[o] EXCEPT !.outcome = "cancelled"] \in Entry
    BY DEF TypeOK, Entry, Outcome
  <2>2. ledger' \in [Op -> Entry]
    BY <1>1, <2>1 DEF Cancel, TypeOK
  <2> QED
    BY <1>1, <2>2 DEF Cancel, Tell, TypeOK, envVars
<1>2. ASSUME NEW o \in Op, StatusOperation(o) PROVE TypeOK'
  BY <1>2 DEF StatusOperation, Tell, TypeOK, envVars
<1>3. ASSUME NEW h \in Handle, Retire(h),
             UNCHANGED <<ledger, generations, envVars, starts, told>>
      PROVE  TypeOK'
  <2>1. [session[h] EXCEPT !.state = "down", !.alive = FALSE, !.gate = FALSE,
                           !.intact = ~Unreadable(h)] \in Session
    <3>1. Unreadable(h) \in BOOLEAN
      BY DEF Unreadable, TypeOK, Session
    <3> QED
      BY <3>1 DEF TypeOK, Session
  <2>3. session' \in [Handle -> Session]
    BY <1>3, <2>1 DEF Retire, TypeOK
  <2>2. admissions' \in [Key -> Op \cup {NoOp}]
    BY <1>3 DEF Retire, Released, TypeOK
  <2> QED
    BY <1>3, <2>2, <2>3 DEF TypeOK, envVars
<1>4. ASSUME NEW h \in Handle, NEW gen, NEW notBusy, StopDraining(h, gen, notBusy)
      PROVE  TypeOK'
  <2>1. [session[h] EXCEPT !.state = "draining", !.gate = FALSE] \in Session
    BY DEF TypeOK, Session
  <2> QED
    BY <1>4, <2>1 DEF StopDraining, TypeOK, envVars
<1>5. ASSUME NEW h \in Handle, SessionCall(h) PROVE TypeOK'
  BY <1>3, <1>4, <1>5 DEF SessionCall, Stop, StatusRetires
<1>6. ASSUME NEW h \in Handle, NEW a \in Activity, ProviderActivity(h, a)
      PROVE  TypeOK'
  BY <1>6, ActivityAssumption DEF ProviderActivity, TypeOK, envVars, Session
<1>7. ASSUME NEW o \in Op, Expire(o) PROVE TypeOK'
  BY <1>7 DEF Expire, TypeOK
<1>8. ASSUME NEW h \in Handle, ProfileChange(h) \/ RecordReadability(h)
      PROVE  TypeOK'
  BY <1>8 DEF ProfileChange, RecordReadability, Toggle, TypeOK
<1> QED
  BY <1>1, <1>2, <1>5, <1>6, <1>7, <1>8 DEF OperationCall, Environment

LEMMA TypeStep == TypeOK /\ [Next]_vars => TypeOK'
<1>1. ASSUME TypeOK, UNCHANGED vars PROVE TypeOK'
  BY <1>1 DEF TypeOK, vars
<1> QED
  BY <1>1, TypeStart, TypeOther DEF Next

\* Every reachable ledger, session and key counter is well formed.
THEOREM TypeCorrect == Spec => []TypeOK
  BY TypeInit, TypeStep, PTL DEF Spec
-----------------------------------------------------------------------------
(* The inductive invariant.                                                *)

LEMMA InvInit == Init => IInv
  BY TypeInit, NullsAssumption
  DEF Init, IInv, LedgerMeaning, AnswersKept, SessionShape, OneLivePerKey,
      KeyNotLeaked, Absent, Bare, Unmade

\* A launch or resume that starts nothing.
LEMMA InvUnstarted ==
    ASSUME IInv, NEW o \in Op, NEW r \in Request,
           \/ ReplayStart(o, r) \/ Prepare(o, r) \/ RefuseStart(o, r)
           \/ CrashAfterReservation(o, r) \/ FailStart(o, r)
    PROVE  IInv'
<1> USE DEF IInv
<1>1. TypeOK'
  BY TypeStart DEF StartCall
<1>2. CASE ReplayStart(o, r)
  <2>1. PICK a : /\ Tell(o, a)
                 /\ \/ a = IdentityStale /\ ledger[o].handle \in drifted
                    \/ a = Answer("unknown")
                    \/ a = OutcomeOf(ledger[o])
    BY <1>2 DEF ReplayStart
  <2>2. AnswersKept'
    <3>1. a \in Final => Accounts(ledger[o], a)
      BY <2>1, AnswerAccounted, DriftedIsBegun, AnswersDiffer DEF Final
    <3> QED
      BY <1>2, <2>1, <3>1, TellKeeps DEF ReplayStart, AnswersKept
  <2> QED
    BY <1>1, <1>2, <2>2
    DEF ReplayStart, LedgerMeaning, SessionShape, OneLivePerKey, KeyNotLeaked, TypeOK, envVars
<1>3. CASE ~ReplayStart(o, r)
  <2>1. Admissible(o, r) /\ ledger[o].handle = NoHandle /\ starts[o] = 0
    BY <1>3, AdmissibleIsOpen
    DEF Prepare, RefuseStart, CrashAfterReservation, FailStart, Admissible
  <2>2. told[o] = {}
    BY <2>1, OpenIsUntold DEF Admissible
  <2>3. \A k \in Key : admissions[k] # o
    BY <2>1, NullsAssumption DEF KeyNotLeaked, Admissible, Settled
  <2>4. PICK out \in {"prepared", "failed", "admitted"} :
          ledger' = [ledger EXCEPT ![o] = Bare(out, r)]
    BY <1>3 DEF Prepare, RefuseStart, CrashAfterReservation, FailStart
  <2>5. session' = session /\ starts' = starts
    BY <1>3 DEF Prepare, RefuseStart, CrashAfterReservation, FailStart
  <2>6. LedgerMeaning'
    BY <2>1, <2>4, <2>5 DEF LedgerMeaning, TypeOK, Bare
  <2>7. \/ told' = told
        \/ ledger'[o].outcome = "failed" /\ Tell(o, Answer("failed"))
    BY <1>3 DEF Prepare, RefuseStart, CrashAfterReservation, FailStart, TypeOK, Bare
  <2>8. AnswersKept'
    <3>1. \A p \in Op : \A b \in told[p] : Accounts(ledger'[p], b)
      BY <2>2, <2>4 DEF AnswersKept, TypeOK
    <3>2. CASE told' = told
      BY <3>1, <3>2 DEF AnswersKept
    <3>3. CASE ledger'[o].outcome = "failed" /\ Tell(o, Answer("failed"))
      BY <3>1, <3>3, TellKeeps, AnswersDiffer DEF Accounts
    <3> QED
      BY <2>7, <3>2, <3>3
  <2>9. \/ admissions' = admissions
        \/ /\ r.key \in Key /\ admissions[r.key] = NoOp
           /\ admissions' = [admissions EXCEPT ![r.key] = o]
           /\ ledger'[o].outcome = "admitted"
    BY <1>3, <1>1, RequestFields
    DEF Prepare, RefuseStart, CrashAfterReservation, FailStart, Reserved, Vacant, Bare, TypeOK
  <2>10. OneLivePerKey'
    BY <2>3, <2>4, <2>5, <2>9 DEF OneLivePerKey, TypeOK
  <2>11. KeyNotLeaked'
    BY <2>3, <2>4, <2>5, <2>9 DEF KeyNotLeaked, TypeOK
  <2> QED
    BY <1>1, <2>5, <2>6, <2>8, <2>10, <2>11 DEF SessionShape
<1> QED
  BY <1>2, <1>3

\* A start takes a free key, and a session that is not alive.
LEMMA InvStarted ==
    ASSUME IInv, NEW o \in Op, NEW r \in Request, NEW h \in Handle,
           NEW crashed \in BOOLEAN, NEW lost \in BOOLEAN,
           StartProvider(o, r, h, crashed, lost)
    PROVE  IInv'
<1> USE DEF IInv
<1>1. TypeOK'
  BY TypeStart DEF StartCall
<1>2. Admissible(o, r) /\ ledger[o].handle = NoHandle /\ starts[o] = 0
  BY AdmissibleIsOpen DEF StartProvider, Admissible
<1>3. told[o] = {}
  BY <1>2, OpenIsUntold DEF Admissible
<1>4. \A k \in Key : admissions[k] # o
  BY <1>2, NullsAssumption DEF KeyNotLeaked, Admissible, Settled
<1>5. ~session[h].alive
  BY RequestFields DEF StartProvider, StartHandle, Vacant, SessionShape, Request, Launch, Resume
<1>6. /\ r.key \in Key \cup {NoKey}
      /\ r.key # NoKey => admissions[r.key] = NoOp
      /\ r.key # NoKey => admissions' = [admissions EXCEPT ![r.key] = o]
      /\ r.key = NoKey => admissions' = admissions
  BY RequestFields DEF StartProvider, Vacant, Reserved
<1>7. /\ ledger'[o].outcome \in {"started", "unknown"}
      /\ ledger'[o].handle = h
      /\ ledger'[o].outcome = IF crashed THEN "unknown" ELSE "started"
      /\ \A p \in Op \ {o} : ledger'[p] = ledger[p]
      /\ starts'[o] = 1
      /\ \A p \in Op \ {o} : starts'[p] = starts[p]
  BY <1>2 DEF StartProvider, TypeOK
<1>8. /\ session'[h].made /\ session'[h].alive /\ session'[h].key = r.key
      /\ \A g \in Handle \ {h} : session'[g] = session[g]
  BY DEF StartProvider, TypeOK
<1>9. LedgerMeaning'
  BY <1>7 DEF LedgerMeaning
<1>10. AnswersKept'
  <2>1. \A p \in Op : \A b \in told[p] : Accounts(ledger'[p], b)
    BY <1>3, <1>7 DEF AnswersKept
  <2>2. CASE told' = told
    BY <2>1, <2>2 DEF AnswersKept
  <2>3. CASE ledger'[o].outcome = "started" /\ Tell(o, Answer("started"))
    BY <2>1, <2>3, TellKeeps, AnswersDiffer DEF Accounts
  <2> QED
    BY <1>7, <2>2, <2>3 DEF StartProvider
<1>11. SessionShape'
  BY <1>8 DEF SessionShape
<1>12. OneLivePerKey'
  <2> SUFFICES ASSUME NEW k \in Key, NEW g \in Handle,
                      session'[g].alive, session'[g].key = k
               PROVE  admissions'[k] # NoOp /\ ledger'[admissions'[k]].handle = g
    BY DEF OneLivePerKey
  <2>1. CASE g = h
    BY <2>1, <1>6, <1>7, <1>8, NullsAssumption DEF TypeOK
  <2>2. CASE g # h
    BY <2>2, <1>4, <1>6, <1>7, <1>8 DEF OneLivePerKey, TypeOK
  <2> QED
    BY <2>1, <2>2
<1>13. KeyNotLeaked'
  <2> SUFFICES ASSUME NEW k \in Key, admissions'[k] # NoOp
               PROVE  LET e == ledger'[admissions'[k]] IN
                      \/ e.outcome = "admitted"
                      \/ e.handle # NoHandle /\ session'[e.handle].alive
                                             /\ session'[e.handle].key = k
    BY DEF KeyNotLeaked
  <2>1. CASE k = r.key
    BY <2>1, <1>6, <1>7, <1>8, NullsAssumption DEF TypeOK
  <2>2. CASE k # r.key
    <3>1. admissions'[k] = admissions[k] /\ admissions[k] \in Op \ {o}
      BY <2>2, <1>4, <1>6 DEF TypeOK
    <3>2. ledger[admissions[k]].handle # h \/ ledger[admissions[k]].outcome = "admitted"
      BY <3>1, <1>5 DEF KeyNotLeaked
    <3>3. ledger[admissions[k]].handle \in Handle \cup {NoHandle}
      BY <3>1 DEF TypeOK, Entry
    <3> QED
      BY <3>1, <3>2, <3>3, <1>7, <1>8 DEF KeyNotLeaked
  <2> QED
    BY <2>1, <2>2
<1> QED
  BY <1>1, <1>9, <1>10, <1>11, <1>12, <1>13

\* A retirement gives back the key of this session and of no other.
LEMMA InvRetire ==
    ASSUME IInv, NEW h \in Handle, Retire(h),
           UNCHANGED <<ledger, generations, envVars, starts, told>>, TypeOK'
    PROVE  IInv'
<1> USE DEF IInv
<1>1. /\ ~session'[h].alive /\ session'[h].key = session[h].key
      /\ ~session'[h].gate /\ session'[h].made = session[h].made
      /\ session'[h].gen = session[h].gen
      /\ \A g \in Handle \ {h} : session'[g] = session[g]
  BY DEF Retire, TypeOK, Session
<1>2. \A k \in Key :
         \/ admissions'[k] = admissions[k]
             /\ ~(/\ k = session[h].key /\ admissions[k] # NoOp
                  /\ ledger[admissions[k]].handle = h)
         \/ admissions'[k] = NoOp /\ k = session[h].key
             /\ admissions[k] # NoOp /\ ledger[admissions[k]].handle = h
  BY DEF Retire, Released
<1>3. SessionShape'
  BY <1>1 DEF SessionShape
<1>4. OneLivePerKey'
  <2> SUFFICES ASSUME NEW k \in Key, NEW g \in Handle,
                      session'[g].alive, session'[g].key = k
               PROVE  admissions'[k] # NoOp /\ ledger[admissions'[k]].handle = g
    BY DEF OneLivePerKey
  <2>1. g # h /\ session[g].alive /\ session[g].key = k
    BY <1>1
  <2>2. admissions[k] # NoOp /\ ledger[admissions[k]].handle = g
    BY <2>1 DEF OneLivePerKey
  <2> QED
    BY <1>2, <2>1, <2>2
<1>5. KeyNotLeaked'
  <2> SUFFICES ASSUME NEW k \in Key, admissions'[k] # NoOp
               PROVE  LET e == ledger[admissions'[k]] IN
                      \/ e.outcome = "admitted"
                      \/ e.handle # NoHandle /\ session'[e.handle].alive
                                             /\ session'[e.handle].key = k
    BY DEF KeyNotLeaked
  <2>1. admissions'[k] = admissions[k] /\ admissions[k] \in Op
    BY <1>2 DEF TypeOK
  <2>2. ledger[admissions[k]].handle \in Handle \cup {NoHandle}
    BY <2>1 DEF TypeOK, Entry
  <2> QED
    BY <1>1, <1>2, <2>1, <2>2 DEF KeyNotLeaked
<1>6. LedgerMeaning' /\ AnswersKept'
  BY DEF LedgerMeaning, AnswersKept
<1> QED
  BY <1>3, <1>4, <1>5, <1>6

\* No session changes hands: ledger, keys and the living stay as they are.
LEMMA InvSessionData ==
    ASSUME IInv, TypeOK', UNCHANGED <<ledger, admissions, starts, told>>,
           \A h \in Handle : /\ session'[h].alive = session[h].alive
                             /\ session'[h].key = session[h].key
                             /\ session'[h].made = session[h].made
                             /\ session'[h].gen = session[h].gen
                             /\ session'[h].gate => session[h].gate
    PROVE  IInv'
<1> USE DEF IInv
<1>1. LedgerMeaning' /\ AnswersKept' /\ SessionShape' /\ OneLivePerKey'
  BY DEF LedgerMeaning, AnswersKept, SessionShape, OneLivePerKey
<1>2. \A k \in Key : admissions[k] # NoOp =>
         ledger[admissions[k]].handle \in Handle \cup {NoHandle}
  BY DEF TypeOK, Entry
<1>3. KeyNotLeaked'
  BY <1>2 DEF KeyNotLeaked
<1> QED
  BY <1>1, <1>3

LEMMA InvOther ==
    ASSUME IInv, \/ \E o \in Op : OperationCall(o)
                 \/ \E h \in Handle : SessionCall(h)
                 \/ Environment
    PROVE  IInv'
<1>1. TypeOK /\ TypeOK'
  BY TypeOther DEF IInv
<1>2. ASSUME NEW o \in Op, StatusOperation(o) PROVE IInv'
  <2>1. OutcomeOf(ledger[o]) \in Final => Accounts(ledger[o], OutcomeOf(ledger[o]))
    BY AnswerAccounted, DriftedIsBegun DEF IInv
  <2>2. AnswersKept'
    BY <1>2, <2>1, TellKeeps DEF StatusOperation, IInv, AnswersKept
  <2> QED
    BY <1>1, <1>2, <2>2
    DEF StatusOperation, IInv, LedgerMeaning, SessionShape, OneLivePerKey, KeyNotLeaked
<1>3. ASSUME NEW o \in Op, Cancel(o), ~Settled(ledger[o]) PROVE IInv'
  <2>1. ledger[o].handle = NoHandle /\ starts[o] = 0
    BY <1>3, AdmissibleIsOpen DEF IInv
  <2>2. told[o] = {}
    BY <1>3, OpenIsUntold DEF IInv
  <2>3. \A k \in Key : admissions[k] # o
    BY <1>3, <2>1, NullsAssumption DEF IInv, KeyNotLeaked, Settled
  <2>4. /\ ledger'[o].outcome = "cancelled" /\ ledger'[o].handle = NoHandle
        /\ \A p \in Op \ {o} : ledger'[p] = ledger[p]
        /\ Tell(o, Answer("cancelled"))
        /\ UNCHANGED <<session, admissions, starts>>
    BY <1>1, <1>3, <2>1 DEF Cancel, TypeOK, Entry
  <2>7. AnswersKept'
    <3>1. \A p \in Op : \A b \in told[p] : Accounts(ledger'[p], b)
      BY <2>2, <2>4 DEF IInv, AnswersKept
    <3>2. Accounts(ledger'[o], Answer("cancelled"))
      BY <2>4, AnswersDiffer DEF Accounts
    <3> QED
      BY <1>1, <2>4, <3>1, <3>2, TellKeeps
  <2>5. LedgerMeaning' /\ SessionShape'
    BY <2>1, <2>4 DEF IInv, LedgerMeaning, SessionShape
  <2>6. OneLivePerKey' /\ KeyNotLeaked'
    BY <1>1, <2>3, <2>4 DEF IInv, OneLivePerKey, KeyNotLeaked, TypeOK
  <2> QED
    BY <1>1, <2>5, <2>6, <2>7 DEF IInv
<1>4. ASSUME NEW o \in Op, OperationCall(o) PROVE IInv'
  <2>1. CASE Cancel(o) /\ Settled(ledger[o])
    BY <1>2, <2>1 DEF Cancel, StatusOperation
  <2> QED
    BY <1>2, <1>3, <1>4, <2>1 DEF OperationCall
<1>5. ASSUME NEW h \in Handle, SessionCall(h) PROVE IInv'
  <2>1. ASSUME NEW gen, NEW notBusy, StopDraining(h, gen, notBusy) PROVE IInv'
    <3>1. \A g \in Handle : /\ session'[g].alive = session[g].alive
                            /\ session'[g].key = session[g].key
                            /\ session'[g].made = session[g].made
                            /\ session'[g].gen = session[g].gen
                            /\ session'[g].gate => session[g].gate
      BY <1>1, <2>1 DEF StopDraining, TypeOK, Session
    <3> QED
      BY <1>1, <2>1, <3>1, InvSessionData DEF StopDraining
  <2> QED
    BY <1>1, <1>5, <2>1, InvRetire DEF SessionCall, Stop, StatusRetires
<1>6. ASSUME Environment PROVE IInv'
  <2>1. \A g \in Handle : /\ session'[g].alive = session[g].alive
                          /\ session'[g].key = session[g].key
                          /\ session'[g].made = session[g].made
                          /\ session'[g].gen = session[g].gen
                          /\ session'[g].gate => session[g].gate
    BY <1>1, <1>6
    DEF Environment, ProviderActivity, Expire, ProfileChange, RecordReadability, TypeOK, Session
  <2>2. UNCHANGED <<ledger, admissions, starts, told>>
    BY <1>6 DEF Environment, ProviderActivity, Expire, ProfileChange, RecordReadability
  <2> QED
    BY <1>1, <2>1, <2>2, InvSessionData
<1> QED
  BY <1>4, <1>5, <1>6

\* Every step of the manager, and every stutter, keeps the inductive invariant.
LEMMA InvStep == IInv /\ [Next]_vars => IInv'
<1>1. ASSUME IInv, UNCHANGED vars PROVE IInv'
  BY <1>1 DEF vars, envVars, IInv, TypeOK, LedgerMeaning, AnswersKept, SessionShape,
      OneLivePerKey, KeyNotLeaked
<1>2. ASSUME IInv, NEW o \in Op, NEW r \in Request, StartCall(o, r) PROVE IInv'
  BY <1>2, InvUnstarted, InvStarted DEF StartCall
<1> QED
  BY <1>1, <1>2, InvOther DEF Next

LEMMA Inductive == Spec => []IInv
  BY InvInit, InvStep, PTL DEF Spec

-----------------------------------------------------------------------------
(* Safety.                                                                 *)

\* An operation whose cancellation or failure has been answered never starts.
THEOREM FinalAnswerFences == Spec => []NoStartAfterFinalAnswer
<1>1. ASSUME IInv, NEW o \in Op, NEW a \in {Answer("cancelled"), Answer("failed")},
             a \in told[o]
      PROVE  starts[o] = 0
  <2>1. ledger[o].outcome \in {"cancelled", "failed"}
    BY <1>1, AnswersDiffer DEF IInv, AnswersKept, Accounts
  <2> QED
    BY <1>1, <2>1 DEF IInv, LedgerMeaning
<1>2. IInv => NoStartAfterFinalAnswer
  BY <1>1 DEF NoStartAfterFinalAnswer
<1> QED
  BY <1>2, Inductive, PTL

\* Two final answers about one operation are the same, or the started and the
\* drifted identity of the provider it did start.
THEOREM AnswersNeverContradict == Spec => []FinalAnswersAgree
<1>1. ASSUME IInv, NEW o \in Op, NEW a \in told[o], NEW b \in told[o],
             a # IdentityStale, b # IdentityStale
      PROVE  a = b
  BY <1>1 DEF IInv, AnswersKept, Accounts
<1>2. ASSUME IInv, NEW o \in Op, NEW a \in told[o],
             IdentityStale \in told[o], a # IdentityStale
      PROVE  a = Answer("started")
  BY <1>2, AnswersDiffer DEF IInv, TypeOK, Final, AnswersKept, Accounts
<1>3. ASSUME IInv, NEW o \in Op, IdentityStale \in told[o] PROVE starts[o] = 1
  BY <1>3 DEF IInv, AnswersKept, Accounts, LedgerMeaning
<1>4. ASSUME IInv, NEW o \in Op, NEW a \in told[o], NEW b \in told[o]
      PROVE  a = b \/ {a, b} = {Answer("started"), IdentityStale}
  <2>1. CASE a = IdentityStale /\ b # IdentityStale
    BY <1>2, <1>4, <2>1
  <2>2. CASE b = IdentityStale /\ a # IdentityStale
    BY <1>2, <1>4, <2>2
  <2> QED
    BY <1>1, <1>4, <2>1, <2>2
<1>5. IInv => FinalAnswersAgree
  BY <1>3, <1>4 DEF FinalAnswersAgree
<1> QED
  BY <1>5, Inductive, PTL

\* No operation id ever starts two providers.
THEOREM NeverStartsTwice == Spec => []StartsAtMostOnce
<1>1. ASSUME IInv, NEW o \in Op PROVE starts[o] \leq 1
  <2>1. starts[o] = 0 \/ starts[o] = 1
    BY <1>1 DEF IInv, LedgerMeaning
  <2> QED
    BY <2>1
<1>2. IInv => StartsAtMostOnce
  BY <1>1 DEF StartsAtMostOnce
<1> QED
  BY <1>2, Inductive, PTL

\* A key guards one live generation, and none is held for nothing.
THEOREM KeysGuardOneGeneration == Spec => []KeyGuardsOneGeneration
<1>1. IInv => KeyGuardsOneGeneration
  BY DEF IInv, KeyGuardsOneGeneration
<1> QED
  BY <1>1, Inductive, PTL

-----------------------------------------------------------------------------
(* What one step may do.                                                   *)

\* Only a start makes a session alive or opens its gate.
LEMMA OnlyStartsRevive ==
    ASSUME TypeOK, [Next]_vars, NEW h \in Handle,
           ~\E o \in Op, r \in Request, crashed, lost \in BOOLEAN :
                StartProvider(o, r, h, crashed, lost)
    PROVE  /\ session'[h].alive => session[h].alive
           /\ session'[h].gate => session[h].gate
<1>1. CASE UNCHANGED vars
  BY <1>1 DEF vars
<1>2. ASSUME NEW o \in Op, NEW r \in Request, StartCall(o, r)
      PROVE  session'[h] = session[h]
  BY <1>2 DEF StartCall, ReplayStart, Prepare, RefuseStart, CrashAfterReservation,
              FailStart, StartProvider, TypeOK
<1>3. ASSUME NEW o \in Op, OperationCall(o) PROVE session'[h] = session[h]
  BY <1>3 DEF OperationCall, Cancel, StatusOperation
<1>4. ASSUME NEW g \in Handle, SessionCall(g)
      PROVE  /\ session'[h].alive => session[h].alive
             /\ session'[h].gate => session[h].gate
  BY <1>4 DEF SessionCall, Stop, StopDraining, StatusRetires, Retire, TypeOK, Session
<1>5. CASE Environment
  BY <1>5 DEF Environment, ProviderActivity, Expire, ProfileChange, RecordReadability,
              TypeOK, Session
<1> QED
  BY <1>1, <1>2, <1>3, <1>4, <1>5 DEF Next

\* A generation number is never reused, by its session or under its key.
THEOREM GenerationsOnlyAdvance == Spec => GenerationNeverReused
<1>1. ASSUME IInv, [Next]_vars, NEW h \in Handle, ~session[h].alive, session'[h].alive
      PROVE  /\ session'[h].gen > session[h].gen
             /\ \A k \in Key : session'[h].key = k => session'[h].gen > generations[k]
  <2>1. PICK o \in Op, r \in Request, crashed \in BOOLEAN, lost \in BOOLEAN :
           StartProvider(o, r, h, crashed, lost)
    BY <1>1, OnlyStartsRevive DEF IInv
  <2>2. session'[h].gen = NextGeneration(r) /\ session'[h].key = r.key
    BY <1>1, <2>1 DEF StartProvider, IInv, TypeOK
  <2>3. /\ NextGeneration(r) \in Nat \ {0}
        /\ r.kind = "resume" => NextGeneration(r) > session[r.target].gen
        /\ r.key # NoKey => NextGeneration(r) > generations[r.key]
    BY <1>1, NextGenerationAbove DEF IInv
  <2>4. session'[h].gen > session[h].gen
    BY <1>1, <2>1, <2>2, <2>3 DEF StartProvider, StartHandle, IInv, SessionShape
  <2> QED
    BY <2>2, <2>3, <2>4, NullsAssumption
<1>2. IInv /\ [Next]_vars =>
        [\A h \in Handle :
            ~session[h].alive /\ session'[h].alive =>
              /\ session'[h].gen > session[h].gen
              /\ \A k \in Key : session'[h].key = k => session'[h].gen > generations[k]]_vars
  BY <1>1
<1> QED
  BY <1>2, Inductive, PTL DEF Spec, GenerationNeverReused

\* A closed gate opens only with a new generation.
THEOREM ClosedGateStaysClosed == Spec => GateClosesForGood
<1>1. ASSUME IInv, [Next]_vars, NEW h \in Handle
      PROVE  /\ session'[h].gate => session'[h].alive
             /\ ~session[h].gate /\ session'[h].gate => session'[h].gen # session[h].gen
  <2>1. session'[h].gate => session'[h].alive
    BY <1>1, InvStep DEF IInv, SessionShape
  <2>2. ASSUME ~session[h].gate, session'[h].gate
        PROVE  session'[h].gen # session[h].gen
    <3>1. PICK o \in Op, r \in Request, crashed \in BOOLEAN, lost \in BOOLEAN :
             StartProvider(o, r, h, crashed, lost)
      BY <1>1, <2>2, OnlyStartsRevive DEF IInv
    <3>2. session'[h].gen = NextGeneration(r)
      BY <1>1, <3>1 DEF StartProvider, IInv, TypeOK
    <3>3. /\ NextGeneration(r) \in Nat \ {0}
          /\ r.kind = "resume" => NextGeneration(r) > session[r.target].gen
      BY <1>1, NextGenerationAbove DEF IInv
    <3>4. session[h].gen \in Nat
      BY <1>1, MaxGenAssumption DEF IInv, TypeOK, Session
    <3> QED
      BY <1>1, <3>1, <3>2, <3>3, <3>4 DEF StartProvider, StartHandle, IInv, SessionShape
  <2> QED
    BY <2>1, <2>2
<1>2. IInv /\ [Next]_vars =>
        [\A h \in Handle :
            /\ session'[h].gate => session'[h].alive
            /\ ~session[h].gate /\ session'[h].gate => session'[h].gen # session[h].gen]_vars
  BY <1>1
<1> QED
  BY <1>2, Inductive, PTL DEF Spec, GateClosesForGood

\* What is over does not come back, be it a number or a gate.
THEOREM NothingReturns == Spec => NoGenerationReturns
  BY GenerationsOnlyAdvance, ClosedGateStaysClosed DEF NoGenerationReturns

-----------------------------------------------------------------------------
(* Refinement.                                                             *)

LEMMA AdmissionInit == Init => A!AInit
  BY DEF Init, A!AInit, fateOf, Absent, Bare

\* Every step is a beginning, a death or the freeing of a key, or none of them.
LEMMA AdmissionStep == IInv /\ [Next]_vars => [A!ANext]_(A!avars)
<1> SUFFICES ASSUME IInv, [Next]_vars PROVE [A!ANext]_(A!avars)
  OBVIOUS
<1>0. TypeOK
  BY DEF IInv
<1>1. ASSUME UNCHANGED <<ledger, admissions>> PROVE UNCHANGED A!avars
  BY <1>1 DEF A!avars, fateOf
<1>2. ASSUME NEW o \in Op, ~Settled(ledger[o]), admissions' = admissions,
             NEW e, ledger' = [ledger EXCEPT ![o] = e], e.outcome \in {"failed", "cancelled"}
      PROVE  A!Die(o)
  BY <1>0, <1>2 DEF A!Die, fateOf, Settled, TypeOK, Entry, Outcome
<1>3. ASSUME NEW o \in Op, ~Settled(ledger[o]), NEW r \in Request, Vacant(r),
             admissions' = Reserved(o, r), NEW e, ledger' = [ledger EXCEPT ![o] = e],
             e.outcome \in {"admitted", "started", "unknown"}
      PROVE  A!Begin(o, r.key)
  BY <1>0, <1>3, RequestFields
  DEF A!Begin, fateOf, Settled, Vacant, Reserved, TypeOK, Entry, Outcome
<1>4. ASSUME NEW o \in Op, NEW r \in Request, StartCall(o, r)
      PROVE  [A!ANext]_(A!avars)
  <2>1. CASE ReplayStart(o, r)
    BY <1>1, <2>1 DEF ReplayStart
  <2>2. CASE Prepare(o, r)
    BY <1>0, <2>2 DEF Prepare, Admissible, Settled, Bare, A!avars, fateOf, TypeOK, Entry, Outcome
  <2>3. CASE RefuseStart(o, r) \/ FailStart(o, r)
    BY <1>2, <2>3 DEF RefuseStart, FailStart, Admissible, Bare, A!ANext
  <2>4. CASE CrashAfterReservation(o, r)
    BY <1>3, <2>4, RequestFields DEF CrashAfterReservation, Admissible, Bare, A!ANext
  <2>5. ASSUME NEW h \in Handle, NEW crashed \in BOOLEAN, NEW lost \in BOOLEAN,
               StartProvider(o, r, h, crashed, lost)
        PROVE  A!Begin(o, r.key)
    BY <1>3, <2>5 DEF StartProvider, Admissible
  <2> QED
    BY <1>4, <2>1, <2>2, <2>3, <2>4, <2>5, RequestFields DEF StartCall, A!ANext
<1>5. ASSUME NEW o \in Op, OperationCall(o) PROVE [A!ANext]_(A!avars)
  <2>1. CASE Cancel(o) /\ ~Settled(ledger[o])
    <3>1. ledger' = [ledger EXCEPT ![o] = [@ EXCEPT !.outcome = "cancelled"]]
      BY <2>1 DEF Cancel
    <3>2. [ledger[o] EXCEPT !.outcome = "cancelled"].outcome = "cancelled"
      BY <1>0 DEF TypeOK, Entry
    <3> QED
      BY <1>2, <2>1, <3>1, <3>2 DEF Cancel, A!ANext
  <2> QED
    BY <1>1, <1>5, <2>1 DEF OperationCall, Cancel, StatusOperation
<1>6. ASSUME NEW h \in Handle, Retire(h), ledger' = ledger PROVE [A!ANext]_(A!avars)
  <2>1. CASE admissions' = admissions
    BY <1>1, <1>6, <2>1
  <2>2. CASE admissions' # admissions
    <3>1. PICK k \in Key : admissions[k] # NoOp /\ k = session[h].key
                           /\ admissions' = [admissions EXCEPT ![k] = NoOp]
      BY <1>0, <1>6, <2>2 DEF Retire, Released, TypeOK
    <3>2. A!Free(k)
      BY <1>6, <3>1 DEF A!Free, fateOf
    <3> QED
      BY <3>2 DEF A!ANext
  <2> QED
    BY <2>1, <2>2
<1>7. ASSUME NEW h \in Handle, SessionCall(h) PROVE [A!ANext]_(A!avars)
  BY <1>1, <1>6, <1>7 DEF SessionCall, Stop, StopDraining, StatusRetires
<1>8. CASE Environment
  BY <1>1, <1>8 DEF Environment, ProviderActivity, Expire, ProfileChange, RecordReadability
<1>9. CASE UNCHANGED vars
  BY <1>1, <1>9 DEF vars
<1> QED
  BY <1>4, <1>5, <1>7, <1>8, <1>9 DEF Next

\* The manager implements the admission protocol of FRONT-DOOR.md 5.7.
THEOREM Implementation == Spec => ImplementsAdmission
  BY AdmissionInit, AdmissionStep, Inductive, PTL DEF Spec, ImplementsAdmission, A!ASpec
=============================================================================
