--------------------------- MODULE SessionManager ----------------------------
(***************************************************************************)
(* The reference session manager (fakemanager/manager_unix.go): the durable*)
(* operation ledger, the sessions, the admission keys and the generation   *)
(* counters.  A call of the plugin is one process under one file lock, so  *)
(* every action is one call; a crash of the plugin between its two saves   *)
(* is an action of its own.  The provider, the readability of a stored     *)
(* record and the Curator profile behind it belong to the environment.     *)
(***************************************************************************)
EXTENDS Naturals

CONSTANTS Op,         \* operation ids a launcher generates
          Handle,     \* session handles the manager may mint
          Key,        \* admission keys
          NoKey,      \* admission_key: null
          NoOp,       \* a key no operation holds
          NoHandle,   \* a ledger entry without a session
          NoReq,      \* a ledger entry without a request digest
          Activity,   \* what a live session may be doing, of the three below
          MaxGen      \* bound: generations per session and per key

ASSUME NullsAssumption ==
    /\ NoKey \notin Key
    /\ NoOp \notin Op
    /\ NoHandle \notin Handle
ASSUME ActivityAssumption == Activity \subseteq {"idle", "busy", "unknown"}
ASSUME MaxGenAssumption == MaxGen \in Nat \ {0}

VARIABLES
    ledger,       \* Op -> its ledger entry
    session,      \* Handle -> the stored session
    admissions,   \* Key -> the operation that holds it
    generations,  \* Key -> the last generation started under it
    expired,      \* operations whose submitted_at left the retention window
    drifted,      \* sessions whose profile no longer resolves as admitted
    unreadable,   \* sessions whose record cannot be read at present
    starts,       \* Op -> providers started for it
    told          \* Op -> the final answers the manager has given about it

vars == <<ledger, session, admissions, generations, expired, drifted,
          unreadable, starts, told>>
envVars == <<expired, drifted, unreadable>>

(***************************************************************************)
(* Records                                                                 *)
(***************************************************************************)
Launch(k) == [kind |-> "launch", key |-> k, target |-> NoHandle]
Resume(h, k) == [kind |-> "resume", key |-> k, target |-> h]

\* A request is its canonical digest: what it starts and under which key.
Request == {Launch(k) : k \in Key \cup {NoKey}}
           \cup {Resume(h, k) : h \in Handle, k \in Key \cup {NoKey}}

Outcome == {"not_found", "prepared", "admitted", "started", "failed",
            "cancelled", "unknown"}
Entry == [outcome : Outcome, req : Request \cup {NoReq},
          handle : Handle \cup {NoHandle}, gen : 0..MaxGen]
\* An entry that names no session.
Bare(outcome, req) == [outcome |-> outcome, req |-> req, handle |-> NoHandle, gen |-> 0]
Absent == Bare("not_found", NoReq)

Session == [made : BOOLEAN, intact : BOOLEAN, alive : BOOLEAN, gate : BOOLEAN,
            key : Key \cup {NoKey}, state : Activity \cup {"draining", "down"},
            gen : 0..MaxGen]
Unmade == [made |-> FALSE, intact |-> TRUE, alive |-> FALSE, gate |-> FALSE, key |-> NoKey,
           state |-> "down", gen |-> 0]

\* What is said about an operation: an outcome, and whether its code is
\* session_curator_identity_stale, the only code the properties tell apart.
Answer(outcome) == [outcome |-> outcome, stale |-> FALSE]
IdentityStale == [outcome |-> "failed", stale |-> TRUE]

\* The answers on which a launcher binds or forgets an operation for good.
Final == {Answer("started"), Answer("failed"), Answer("cancelled"), IdentityStale}

TypeOK ==
    /\ ledger \in [Op -> Entry]
    /\ session \in [Handle -> Session]
    /\ admissions \in [Key -> Op \cup {NoOp}]
    /\ generations \in [Key -> 0..MaxGen]
    /\ expired \subseteq Op
    /\ drifted \subseteq Handle
    /\ unreadable \subseteq Handle
    /\ starts \in [Op -> Nat]
    /\ told \in [Op -> SUBSET Final]

Init ==
    /\ ledger = [o \in Op |-> Absent]
    /\ session = [h \in Handle |-> Unmade]
    /\ admissions = [k \in Key |-> NoOp]
    /\ generations = [k \in Key |-> 0]
    /\ expired = {}
    /\ drifted = {}
    /\ unreadable = {}
    /\ starts = [o \in Op |-> 0]
    /\ told = [o \in Op |-> {}]

Tell(o, a) == told' = [told EXCEPT ![o] = @ \cup ({a} \cap Final)]

(***************************************************************************)
(* launch and resume                                                       *)
(***************************************************************************)
\* A record is unreadable while the environment says so, and for good once a
\* retirement has stored the unreadable projection in its place.
Unreadable(h) == h \in unreadable \/ ~session[h].intact

\* Mutant of OutcomeOf: a started session that cannot be read counts as failed.
OutcomeUnreadable(e) ==
    Answer(IF e.outcome = "started" /\ Unreadable(e.handle) THEN "failed" ELSE e.outcome)

\* The answer status and cancel give for a ledger entry: a started entry is
\* answered from the session it started, and as failed when that session's
\* identity has drifted; otherwise it repeats the record of the start.
OutcomeOf(e) ==
    IF e.outcome # "started" THEN Answer(e.outcome)
    ELSE IF Unreadable(e.handle) THEN Answer("unknown")
    ELSE IF e.handle \in drifted THEN IdentityStale
    ELSE Answer("started")

\* Mutants of Settled: a cancelled, or an uncertain, operation may be admitted.
SettledUnfenced(e) == e.outcome \notin {"not_found", "prepared", "cancelled"}
SettledForgetful(e) == e.outcome \notin {"not_found", "prepared", "unknown"}

\* An entry that ends the call: every outcome but prepared is replayed.
Settled(e) == e.outcome \notin {"not_found", "prepared"}

\* The call may go on to admission: no entry but a prepared one of the same
\* digest, and a submission inside the retention window.
Admissible(o, r) ==
    /\ ~Settled(ledger[o])
    /\ ledger[o].req \in {NoReq, r}
    /\ o \notin expired

\* A repeated operation id replays the recorded outcome and changes nothing.
\* The drift of the recorded session is looked at before the digest.
ReplayStart(o, r) ==
    /\ Settled(ledger[o])
    /\ LET e == ledger[o] IN
         \/ /\ e.handle \in drifted
            /\ Tell(o, IdentityStale)
         \/ /\ e.handle \notin drifted
            /\ e.req \in {NoReq, r}
            /\ Tell(o, IF e.outcome = "admitted" THEN Answer("unknown") ELSE OutcomeOf(e))
    /\ UNCHANGED <<ledger, session, admissions, generations, envVars, starts>>

\* The request reached the ledger and the call was lost.
Prepare(o, r) ==
    /\ Admissible(o, r)
    /\ ledger' = [ledger EXCEPT ![o] = Bare("prepared", r)]
    /\ UNCHANGED <<session, admissions, generations, envVars, starts, told>>

\* Resume selection, identity, credential and policy checks: each failure is
\* recorded in the ledger and is the operation's outcome from then on.
RefuseStart(o, r) ==
    /\ Admissible(o, r)
    /\ ledger' = [ledger EXCEPT ![o] = Bare("failed", r)]
    /\ Tell(o, Answer("failed"))
    /\ UNCHANGED <<session, admissions, generations, envVars, starts>>

\* The checks a resume must pass before it is admitted.
Resumable(h) == session[h].made /\ ~Unreadable(h) /\ h \notin drifted

\* Mutant of Vacant: the key is not looked at.
VacantKeyless(r) == r.kind = "resume" => Resumable(r.target) /\ ~session[r.target].alive

\* "No active generation": neither the key nor the resumed session is taken.
\* A request refused here leaves no ledger entry.
Vacant(r) ==
    /\ r.key # NoKey => admissions[r.key] = NoOp
    /\ r.kind = "resume" => Resumable(r.target) /\ ~session[r.target].alive

\* Mutant of Reserved: the key remembers the session, not the operation.
ReservedForSession(o, r) == IF r.key = NoKey THEN admissions
                            ELSE [admissions EXCEPT ![r.key] = r.target]

Reserved(o, r) == IF r.key = NoKey THEN admissions
                  ELSE [admissions EXCEPT ![r.key] = o]

\* The plugin dies between the durable reservation and the start.
CrashAfterReservation(o, r) ==
    /\ Admissible(o, r)
    /\ Vacant(r)
    /\ ledger' = [ledger EXCEPT ![o] = Bare("admitted", r)]
    /\ admissions' = Reserved(o, r)
    /\ UNCHANGED <<session, generations, envVars, starts, told>>

\* Mutant of FailStart: the key of the failed start is not given back.
FailStartKeepsKey(o, r) ==
    /\ Admissible(o, r)
    /\ Vacant(r)
    /\ ledger' = [ledger EXCEPT ![o] = Bare("failed", r)]
    /\ admissions' = Reserved(o, r)
    /\ UNCHANGED <<session, generations, envVars, starts, told>>

\* The provider refused to start: the key is given back, the reply is lost.
FailStart(o, r) ==
    /\ Admissible(o, r)
    /\ Vacant(r)
    /\ ledger' = [ledger EXCEPT ![o] = Bare("failed", r)]
    /\ UNCHANGED <<session, admissions, generations, envVars, starts, told>>

Larger(a, b) == IF a < b THEN b ELSE a

\* Mutant of NextGeneration: the key's own counter is not consulted.
NextOfSession(r) == IF r.kind = "resume" THEN session[r.target].gen + 1 ELSE 1

\* A new session counts from one, a resumed one from its last generation; a
\* key never reuses a generation, whichever session carried it.
NextGeneration(r) ==
    LET own == IF r.kind = "resume" THEN session[r.target].gen + 1 ELSE 1
    IN  IF r.key = NoKey THEN own ELSE Larger(own, generations[r.key] + 1)

\* The handle a start runs under.
StartHandle(r, h) ==
    IF r.kind = "resume" THEN h = r.target ELSE ~session[h].made

\* Reserve, start the provider, record the generation.  crashed: the plugin
\* cannot say how the start ended; lost: only the reply is lost.
StartProvider(o, r, h, crashed, lost) ==
    /\ Admissible(o, r)
    /\ Vacant(r)
    /\ StartHandle(r, h)
    /\ NextGeneration(r) \leq MaxGen
    /\ LET g == NextGeneration(r) IN
         /\ \E a \in Activity :
              session' = [session EXCEPT ![h] =
                 [made |-> TRUE, intact |-> TRUE, alive |-> TRUE, gate |-> TRUE, key |-> r.key,
                  state |-> a, gen |-> g]]
         /\ ledger' = [ledger EXCEPT ![o] =
              [outcome |-> IF crashed THEN "unknown" ELSE "started",
               req |-> r, handle |-> h, gen |-> g]]
         /\ generations' = IF r.key = NoKey THEN generations
                           ELSE [generations EXCEPT ![r.key] = g]
    /\ admissions' = Reserved(o, r)
    /\ starts' = [starts EXCEPT ![o] = @ + 1]
    /\ IF crashed \/ lost THEN UNCHANGED told ELSE Tell(o, Answer("started"))
    /\ UNCHANGED envVars

(***************************************************************************)
(* status and cancel of an operation                                       *)
(***************************************************************************)
\* cancel fences an operation that was never admitted and answers the
\* current outcome of any other.
Cancel(o) ==
    /\ IF Settled(ledger[o])
       THEN /\ UNCHANGED ledger
            /\ Tell(o, OutcomeOf(ledger[o]))
       ELSE /\ ledger' = [ledger EXCEPT ![o].outcome = "cancelled"]
            /\ Tell(o, Answer("cancelled"))
    /\ UNCHANGED <<session, admissions, generations, envVars, starts>>

StatusOperation(o) ==
    /\ Tell(o, OutcomeOf(ledger[o]))
    /\ UNCHANGED <<ledger, session, admissions, generations, envVars, starts>>

(***************************************************************************)
(* stop, and the retirement status performs                                *)
(***************************************************************************)
\* Mutant of Released: whoever holds the key loses it.
ReleasedBlindly(h) == [k \in Key |-> IF k = session[h].key THEN NoOp ELSE admissions[k]]

\* The key is given back only when its holder is this session's operation.
Released(h) ==
    [k \in Key |-> IF /\ k = session[h].key
                      /\ admissions[k] # NoOp
                      /\ ledger[admissions[k]].handle = h
                   THEN NoOp ELSE admissions[k]]

\* Mutant of Retire: the doorbell gate stays open.
RetireGateOpen(h) ==
    /\ session' = [session EXCEPT ![h] = [@ EXCEPT !.state = "down", !.alive = FALSE]]
    /\ admissions' = Released(h)

\* Retiring re-encodes the row, which for an unreadable record is its projection.
Retire(h) ==
    /\ session' = [session EXCEPT ![h] =
         [@ EXCEPT !.state = "down", !.alive = FALSE, !.gate = FALSE,
                   !.intact = ~Unreadable(h)]]
    /\ admissions' = Released(h)

\* stop names the generation it means; not-busy also refuses an unknown state.
StopAccepted(h, gen, notBusy) ==
    /\ Resumable(h)
    /\ session[h].gen = gen
    /\ notBusy => session[h].state \notin {"busy", "unknown"}

Stop(h, gen, notBusy) ==
    /\ StopAccepted(h, gen, notBusy)
    /\ Retire(h)
    /\ UNCHANGED <<ledger, generations, envVars, starts, told>>

\* A graceful stop the provider outlives: the doorbell gate closes, the
\* generation goes on living as draining and keeps its key.
StopDraining(h, gen, notBusy) ==
    /\ StopAccepted(h, gen, notBusy)
    /\ session[h].alive
    /\ session' = [session EXCEPT ![h] = [@ EXCEPT !.state = "draining", !.gate = FALSE]]
    /\ UNCHANGED <<ledger, admissions, generations, envVars, starts, told>>

\* status {session} completes a retirement, readable or not, once the provider
\* is gone.
StatusRetires(h) ==
    /\ session[h].made /\ h \notin drifted
    /\ session[h].state \in {"draining", "down"}
    /\ Retire(h)
    /\ UNCHANGED <<ledger, generations, envVars, starts, told>>

(***************************************************************************)
(* Environment                                                             *)
(***************************************************************************)
ProviderActivity(h, a) ==
    /\ session[h].alive /\ session[h].state # "draining"
    /\ session' = [session EXCEPT ![h].state = a]
    /\ UNCHANGED <<ledger, admissions, generations, envVars, starts, told>>

Expire(o) ==
    /\ o \notin expired
    /\ expired' = expired \cup {o}
    /\ UNCHANGED <<ledger, session, admissions, generations, drifted,
                   unreadable, starts, told>>

Toggle(S, h) == IF h \in S THEN S \ {h} ELSE S \cup {h}

\* The configured profile changes, or changes back.
ProfileChange(h) ==
    /\ session[h].made
    /\ drifted' = Toggle(drifted, h)
    /\ UNCHANGED <<ledger, session, admissions, generations, expired,
                   unreadable, starts, told>>

RecordReadability(h) ==
    /\ session[h].made
    /\ unreadable' = Toggle(unreadable, h)
    /\ UNCHANGED <<ledger, session, admissions, generations, expired, drifted,
                   starts, told>>

(***************************************************************************)
(* Specification                                                           *)
(***************************************************************************)
StartCall(o, r) ==
    \/ ReplayStart(o, r)
    \/ Prepare(o, r)
    \/ RefuseStart(o, r)
    \/ CrashAfterReservation(o, r)
    \/ FailStart(o, r)
    \/ \E h \in Handle, crashed, lost \in BOOLEAN : StartProvider(o, r, h, crashed, lost)

OperationCall(o) == Cancel(o) \/ StatusOperation(o)

SessionCall(h) ==
    \/ \E gen \in 1..MaxGen, notBusy \in BOOLEAN :
         Stop(h, gen, notBusy) \/ StopDraining(h, gen, notBusy)
    \/ StatusRetires(h)

Environment ==
    \/ \E h \in Handle, a \in Activity : ProviderActivity(h, a)
    \/ \E o \in Op : Expire(o)
    \/ \E h \in Handle : ProfileChange(h) \/ RecordReadability(h)

Next ==
    \/ \E o \in Op, r \in Request : StartCall(o, r)
    \/ \E o \in Op : OperationCall(o)
    \/ \E h \in Handle : SessionCall(h)
    \/ Environment

Spec == Init /\ [][Next]_vars

(***************************************************************************)
(* Properties                                                              *)
(***************************************************************************)
\* "cancel ... answers cancelled.  A late delivery of that operation never
\* starts" (FRONT-DOOR.md 5.7), nor does one whose failure was answered; the
\* failure of a drifted identity is another matter, see FinalAnswersAgree.
NoStartAfterFinalAnswer ==
    \A o \in Op : told[o] \cap {Answer("cancelled"), Answer("failed")} # {} => starts[o] = 0

\* However the calls about one operation are ordered, repeated or lost, its final
\* answers agree, with the exception of FRONT-DOOR.md 5.7 (outcome): an operation
\* answered started is answered failed, session_curator_identity_stale, while its
\* session's identity has drifted, and started again after; and nothing but a
\* provider's start is ever answered so.
FinalAnswersAgree ==
    \A o \in Op :
        /\ \A a, b \in told[o] : a = b \/ {a, b} = {Answer("started"), IdentityStale}
        /\ IdentityStale \in told[o] => starts[o] = 1

\* A repeated operation id "never starts a second process", whatever was lost.
StartsAtMostOnce == \A o \in Op : starts[o] \leq 1

\* One key, one active generation, and the key is held by the operation that
\* started it: a stop of an older session cannot give away a newer one's key.
OneLivePerKey ==
    \A k \in Key, h \in Handle :
        session[h].alive /\ session[h].key = k =>
            admissions[k] # NoOp /\ ledger[admissions[k]].handle = h

\* No key leaks: a held key has a live generation behind it, or a reservation
\* whose start is uncertain.
KeyNotLeaked ==
    \A k \in Key : admissions[k] # NoOp =>
        LET e == ledger[admissions[k]] IN
            \/ e.outcome = "admitted"
            \/ e.handle # NoHandle /\ session[e.handle].alive /\ session[e.handle].key = k

\* A key guards one generation: neither given away while its generation lives nor kept
\* when nothing can live behind it (start, retire).
KeyGuardsOneGeneration == OneLivePerKey /\ KeyNotLeaked

\* A generation number names one start: a session comes alive only under a
\* number above its own past and above everything its key has seen.
GenerationNeverReused ==
    [][\A h \in Handle :
          ~session[h].alive /\ session'[h].alive =>
              /\ session'[h].gen > session[h].gen
              /\ \A k \in Key : session'[h].key = k => session'[h].gen > generations[k]
      ]_vars

\* A closed doorbell gate opens only with a new generation, and no dead
\* generation has an open gate.
GateClosesForGood ==
    [][\A h \in Handle :
          /\ session'[h].gate => session'[h].alive
          /\ ~session[h].gate /\ session'[h].gate => session'[h].gen # session[h].gen
      ]_vars

\* What is over does not come back: neither a used number nor a closed gate (start,
\* retire, observe).
NoGenerationReturns == GenerationNeverReused /\ GateClosesForGood

(***************************************************************************)
(* The abstract admission, implemented                                     *)
(***************************************************************************)
fateOf == [o \in Op |->
    CASE ledger[o].outcome \in {"not_found", "prepared"} -> "open"
      [] ledger[o].outcome \in {"failed", "cancelled"} -> "dead"
      [] OTHER -> "begun"]

A == INSTANCE Admission WITH fate <- fateOf, holder <- admissions

\* The manager implements the abstract admission of FRONT-DOOR.md 5.7.
ImplementsAdmission == A!ASpec
=============================================================================
