---------------------------- MODULE WerkstattLane ----------------------------
(***************************************************************************)
(* One Werkstatt lane of curator-run: its operation journal, settlements   *)
(* and liveness record, the invocations that work on them under the lane's *)
(* lock, and the session managers, Curator leases and registry around them.*)
(* The lock admits one invocation at a time; it may end after any step (an *)
(* error return or a kill), and a plugin call it leaves behind runs on.    *)
(* Registry and selection are read once per invocation, so they change     *)
(* between invocations.                                                    *)
(***************************************************************************)
EXTENDS Naturals, FiniteSets, FiniteSetsExt

CONSTANTS
    Registration,  \* registry entries: id, executable and registration time
    Id,            \* manager ids
    IdOf,          \* Registration -> Id
    StoreOf,       \* Registration -> the manager state behind the executable
    None,          \* no entry, journal, liveness record or session
    MaxOps,        \* bound: operations the lane generates
    Commands,      \* bound: the commands the operator gives
    MaxConfig,     \* bound: changes of registry, selection, profiles and leases
    MayBreak,      \* whether an operator may break a home lease
    MayDrift       \* whether a session's Curator identity may drift

Op == 1..MaxOps
Store == {StoreOf[r] : r \in Registration}

ASSUME RegistryAssumption ==
    /\ IdOf \in [Registration -> Id]
    /\ None \notin Registration \cup Store
ASSUME BoundsAssumption == MaxOps \in Nat /\ MaxConfig \in Nat
ASSUME CommandsAssumption == Commands \subseteq
    {"up", "new", "down", "force", "recycle", "status", "abandon", "rebind"}
ASSUME SwitchAssumption == MayBreak \in BOOLEAN /\ MayDrift \in BOOLEAN

VARIABLES
    journal,    \* None or the pending operation and its phase
    settled,    \* Op -> the verdict retained for it
    liveness,   \* None or the liveness record
    abandoned,  \* operations in the liveness record's abandoned list
    request,    \* Op -> the persisted request: registration and resume target
    proc,       \* the invocation that holds the lane's lock
    entry,      \* Id -> its registry entry
    selected,   \* the selected manager id
    changes,    \* configuration changes and broken leases so far
    lease,      \* Op -> Curator's lease for its request id
    flying,     \* operations whose launch or resume call is under way
    outcome,    \* Op -> its manager's ledger outcome
    run,        \* Op -> the generation it started
    key,        \* Store -> the operation holding the lane's admission key
    drifted,    \* sessions whose profile drifted
    sent        \* Op -> launch or resume calls made for it

launcherVars == <<journal, settled, liveness, abandoned, request>>
configVars == <<entry, selected, changes>>
managerVars == <<outcome, run, key>>
vars == <<launcherVars, proc, configVars, lease, flying, managerVars, drifted, sent>>

(***************************************************************************)
(* Records                                                                 *)
(***************************************************************************)
Phase == {"lease_requested", "lease_prepared", "possibly_submitted", "bind_pending"}
Verdict == {"none", "not_started", "failed", "cancelled", "abandoned"}
AllCommands == {"up", "new", "down", "force", "recycle", "status", "abandon", "rebind"}
Step == {"idle", "abandon", "pending", "acquire", "owner", "check", "submit",
         "send", "calling", "status", "cancel", "finish", "bind", "settle",
         "clear", "command", "list", "journal", "stop", "refresh"}
RunState == {"none", "up", "draining", "down"}

\* A generation: the session (named by the operation that launched it), its
\* number, and what it is doing.
NoRun == [session |-> None, gen |-> 0, state |-> "none"]

\* op, row, target and verdict are the invocation's own variables; reply is the
\* plugin's answer to its launch or resume.
Idle == [at |-> "idle", cmd |-> "status", op |-> None, row |-> None,
         target |-> None, verdict |-> "none", reply |-> "none"]

Row == [op : Op, session : Op, gen : 1..MaxOps, state : RunState]

Pending == [op : Op, phase : Phase]
Request == [reg : Registration, target : Op \cup {None}]
Record == [reg : Registration, op : Op \cup {None}, gen : 0..MaxOps,
           session : Op \cup {None}, state : RunState \cup {"unknown"},
           source : {"manager", "operator_override"}]

ASSUME NoneAssumption == None \notin Op \cup Row \cup Pending \cup Request \cup Record

TypeOK ==
    /\ journal \in Pending \cup {None}
    /\ settled \in [Op -> Verdict]
    /\ liveness \in Record \cup {None}
    /\ abandoned \subseteq Op
    /\ request \in [Op -> Request \cup {None}]
    /\ proc \in [at : Step, cmd : AllCommands, op : Op \cup {None}, row : Row \cup {None},
                 target : Op \cup {None}, verdict : Verdict,
                 reply : {"none", "session", "refused", "unavailable"}]
    /\ entry \in [Id -> Registration \cup {None}]
    /\ selected \in Id
    /\ changes \in 0..MaxConfig
    /\ lease \in [Op -> {"none", "prepared", "broken"}]
    /\ flying \subseteq Op
    /\ outcome \in [Op -> {"not_found", "admitted", "started", "unknown",
                           "failed", "cancelled"}]
    /\ run \in [Op -> [session : Op \cup {None}, gen : 0..MaxOps, state : RunState]]
    /\ key \in [Store -> Op \cup {None}]
    /\ drifted \subseteq Op
    /\ sent \in [Op -> Nat]

Init ==
    /\ journal = None /\ liveness = None /\ abandoned = {}
    /\ settled = [o \in Op |-> "none"]
    /\ request = [o \in Op |-> None]
    /\ proc = Idle
    /\ entry \in {e \in [Id -> Registration] : \A i \in Id : IdOf[e[i]] = i}
    /\ selected \in Id
    /\ changes = 0
    /\ lease = [o \in Op |-> "none"]
    /\ flying = {} /\ drifted = {}
    /\ outcome = [o \in Op |-> "not_found"]
    /\ run = [o \in Op |-> NoRun]
    /\ key = [s \in Store |-> None]
    /\ sent = [o \in Op |-> 0]

Goto(step) == proc' = [proc EXCEPT !.at = step]
Leave == proc' = Idle

(***************************************************************************)
(* The managers (see SessionManager for the whole of one)                  *)
(***************************************************************************)
OpStore(o) == StoreOf[request[o].reg]
Started(s) == {o \in Op : run[o].state # "none" /\ OpStore(o) = s}
Alive(o) == run[o].state \in {"up", "draining"}

\* A session's row tells of its latest generation.
Latest(session) == Max({o \in Op : run[o].session = session})
RowOf(session) ==
    LET o == Latest(session)
    IN  [op |-> o, session |-> session, gen |-> run[o].gen, state |-> run[o].state]

\* All sessions of the lane on one manager share its key and its counter.
NextGen(s) == 1 + Max({0} \cup {run[o].gen : o \in Started(s)})

\* status {operation_id}; a started operation whose identity drifted reads as
\* failed with session_curator_identity_stale.
OutcomeOf(o) ==
    IF outcome[o] = "started" /\ run[o].session \in drifted THEN "failed" ELSE outcome[o]

\* The reply reaches the invocation that waits for it, if one still does.
Answer(o, reply) ==
    /\ flying' = flying \ {o}
    /\ proc' = IF proc.at = "calling" /\ proc.op = o
               THEN [proc EXCEPT !.reply = reply] ELSE proc

Vacant(o) ==
    /\ key[OpStore(o)] = None
    /\ request[o].target # None =>
         run[Latest(request[o].target)].state = "down" /\ request[o].target \notin drifted

\* The call ends without admission: fenced, lost before it, or turned away.
ServeNothing(o) ==
    /\ o \in flying
    /\ \/ Answer(o, "unavailable")
       \/ outcome[o] = "not_found" /\ Answer(o, "refused")
    /\ UNCHANGED <<launcherVars, configVars, lease, managerVars, drifted, sent>>

\* A failed start, recorded as such.
ServeFailure(o) ==
    /\ o \in flying /\ outcome[o] = "not_found"
    /\ outcome' = [outcome EXCEPT ![o] = "failed"]
    /\ \E reply \in {"refused", "unavailable"} : Answer(o, reply)
    /\ UNCHANGED <<launcherVars, configVars, lease, run, key, drifted, sent>>

\* The plugin dies with the reservation durable.
ServeReservation(o) ==
    /\ o \in flying /\ outcome[o] = "not_found" /\ Vacant(o)
    /\ outcome' = [outcome EXCEPT ![o] = "admitted"]
    /\ key' = [key EXCEPT ![OpStore(o)] = o]
    /\ Answer(o, "unavailable")
    /\ UNCHANGED <<launcherVars, configVars, lease, run, drifted, sent>>

ServeStart(o) ==
    /\ o \in flying /\ outcome[o] = "not_found" /\ Vacant(o)
    /\ run' = [run EXCEPT ![o] =
         [session |-> IF request[o].target = None THEN o ELSE request[o].target,
          gen |-> NextGen(OpStore(o)), state |-> "up"]]
    /\ key' = [key EXCEPT ![OpStore(o)] = o]
    /\ \E out \in {"started", "unknown"}, reply \in {"session", "unavailable"} :
         /\ out = "unknown" => reply = "unavailable"
         /\ outcome' = [outcome EXCEPT ![o] = out]
         /\ Answer(o, reply)
    /\ UNCHANGED <<launcherVars, configVars, lease, drifted, sent>>

\* Ending a generation frees the key it holds.
EndRun(o, state) ==
    /\ run' = [run EXCEPT ![o].state = state]
    /\ key' = IF state = "down" /\ key[OpStore(o)] = o
              THEN [key EXCEPT ![OpStore(o)] = None] ELSE key

\* Someone stops the session at its manager, or a retirement completes.
ExternalStop(o) ==
    /\ Alive(o)
    /\ EndRun(o, "down")
    /\ UNCHANGED <<launcherVars, proc, configVars, lease, flying, outcome, drifted, sent>>

(***************************************************************************)
(* An invocation                                                           *)
(***************************************************************************)
Invoke(cmd) ==
    /\ proc.at = "idle"
    /\ proc' = [Idle EXCEPT !.at = IF cmd = "abandon" THEN "abandon" ELSE "pending",
                           !.cmd = cmd]
    /\ UNCHANGED <<launcherVars, configVars, lease, flying, managerVars, drifted, sent>>

\* An error return or a kill, at any point; what was written stays written,
\* and a plugin call under way stays under way.
End ==
    /\ proc.at # "idle"
    /\ Leave
    /\ UNCHANGED <<launcherVars, configVars, lease, flying, managerVars, drifted, sent>>

Local == UNCHANGED <<configVars, flying, managerVars, drifted, sent>>

\* Mutant of AbandonLiveness: the record is replaced instead of edited.
AbandonDiscards ==
    /\ proc.at = "abandon" /\ journal # None
    /\ liveness' = [reg |-> request[journal.op].reg, op |-> None, gen |-> 0,
                    session |-> None, state |-> "down", source |-> "operator_override"]
    /\ abandoned' = abandoned \cup {journal.op}
    /\ proc' = [Idle EXCEPT !.at = "settle", !.op = journal.op, !.verdict = "abandoned"]
    /\ UNCHANGED <<journal, settled, request, lease>> /\ Local

(* Abandon: the liveness record first, then the journal. *)
AbandonLiveness ==
    /\ proc.at = "abandon"
    /\ LET o == IF journal # None THEN journal.op
                ELSE IF liveness # None THEN liveness.op ELSE None
       IN  IF o = None
           THEN Leave /\ UNCHANGED <<liveness, abandoned>>
           ELSE /\ liveness' = IF liveness = None
                     THEN [reg |-> request[o].reg, op |-> None, gen |-> 0, session |-> None,
                           state |-> "down", source |-> "operator_override"]
                     ELSE [liveness EXCEPT !.state = "down", !.source = "operator_override"]
                /\ abandoned' = abandoned \cup {o}
                /\ proc' = IF journal = None THEN Idle
                           ELSE [Idle EXCEPT !.at = "settle", !.op = o, !.verdict = "abandoned"]
    /\ UNCHANGED <<journal, settled, request, lease>> /\ Local

\* Mutant of Settle: the plugin's reply is retained in place of the verdict.
SettleReply ==
    /\ proc.at = "settle"
    /\ settled' = [settled EXCEPT ![proc.op] = proc.reply]
    /\ Goto("clear")
    /\ UNCHANGED <<journal, liveness, abandoned, request, lease>> /\ Local

(* Settlement: the verdict is retained durably before the journal goes. *)
Settle ==
    /\ proc.at = "settle"
    /\ settled' = [settled EXCEPT ![proc.op] = proc.verdict]
    /\ Goto("clear")
    /\ UNCHANGED <<journal, liveness, abandoned, request, lease>> /\ Local

\* Removal names its operation, and ends the invocation.
Clear ==
    /\ proc.at = "clear"
    /\ journal # None /\ journal.op = proc.op
    /\ journal' = None
    /\ Leave
    /\ UNCHANGED <<settled, liveness, abandoned, request, lease>> /\ Local

\* A pending operation is recovered before any command, and ends the invocation.
CheckPending ==
    /\ proc.at = "pending"
    /\ proc' = IF journal = None THEN [proc EXCEPT !.at = "command"]
               ELSE [Idle EXCEPT !.at = "acquire", !.op = journal.op]
    /\ UNCHANGED <<launcherVars, lease>> /\ Local

(* The home lease: acquire, or replay the acquire, before any manager call. *)
\* A terminal lease settles the operation as not started.
Acquire ==
    /\ proc.at = "acquire"
    /\ IF lease[proc.op] = "broken"
       THEN /\ proc' = [proc EXCEPT !.at = "settle", !.verdict = "not_started"]
            /\ UNCHANGED lease
       ELSE /\ lease' = [lease EXCEPT ![proc.op] = "prepared"]
            /\ Goto("owner") \/ Leave
    /\ UNCHANGED launcherVars /\ Local

Owns(reg) == entry[IdOf[reg]] = reg

SetPhase(phase) == journal' = [journal EXCEPT !.phase = phase]
Submitted == journal.phase \in {"possibly_submitted", "bind_pending"}

\* Mutant of CheckOwner: a recovered operation is always sent.
CheckOwnerResends ==
    /\ proc.at = "owner"
    /\ Owns(request[proc.op].reg)
    /\ IF journal.phase = "lease_requested" THEN SetPhase("lease_prepared")
       ELSE UNCHANGED journal
    /\ Goto("check")
    /\ UNCHANGED <<settled, liveness, abandoned, request, lease>> /\ Local

\* Mutant of CheckOwner: whichever manager now has the id answers for it.
CheckOwnerUnbound ==
    /\ proc.at = "owner"
    /\ IF journal.phase = "lease_requested" THEN SetPhase("lease_prepared")
       ELSE UNCHANGED journal
    /\ IF Owns(request[proc.op].reg) THEN Goto(IF Submitted THEN "status" ELSE "check")
       ELSE proc' = [proc EXCEPT !.at = "settle", !.verdict = "cancelled"]
    /\ UNCHANGED <<settled, liveness, abandoned, request, lease>> /\ Local

\* Only the registration that was admitted may be asked about the operation.
CheckOwner ==
    /\ proc.at = "owner"
    /\ Owns(request[proc.op].reg)
    /\ IF journal.phase = "lease_requested" THEN SetPhase("lease_prepared")
       ELSE UNCHANGED journal
    /\ Goto(IF Submitted THEN "status" ELSE "check")
    /\ UNCHANGED <<settled, liveness, abandoned, request, lease>> /\ Local

\* Route revalidation and the second allocation check: the reservation must
\* still be listed as prepared.
CheckAllocation ==
    /\ proc.at = "check"
    /\ lease[proc.op] = "prepared"
    /\ Goto("submit")
    /\ UNCHANGED <<launcherVars, lease>> /\ Local

\* The journal says the call may happen before it does.
MarkSubmitted ==
    /\ proc.at = "submit"
    /\ SetPhase("possibly_submitted")
    /\ Goto("send")
    /\ UNCHANGED <<settled, liveness, abandoned, request, lease>> /\ Local

Send ==
    /\ proc.at = "send"
    /\ flying' = flying \cup {proc.op}
    /\ sent' = [sent EXCEPT ![proc.op] = @ + 1]
    /\ Goto("calling")
    /\ UNCHANGED <<launcherVars, configVars, lease, managerVars, drifted>>

\* Mutant of Receive: an unavailable manager settles like a refusal.
ReceiveTrusting ==
    /\ proc.at = "calling"
    /\ \/ /\ proc.reply \in {"refused", "unavailable"}
          /\ proc' = [proc EXCEPT !.at = "settle", !.verdict = "failed"]
       \/ proc.reply = "session" /\ Goto("finish")
    /\ UNCHANGED <<launcherVars, lease>> /\ Local

\* A typed refusal settles; a session is taken; anything else is asked about.
Receive ==
    /\ proc.at = "calling"
    /\ \/ /\ proc.reply = "refused"
          /\ proc' = [proc EXCEPT !.at = "settle", !.verdict = "failed"]
       \/ proc.reply = "session" /\ Goto("finish")
       \/ proc.reply = "unavailable" /\ Goto("status")
    /\ UNCHANGED <<launcherVars, lease>> /\ Local

\* The deadline kills the plugin's process group, served or not.
Timeout ==
    /\ proc.at = "calling" /\ proc.op \in flying
    /\ flying' = flying \ {proc.op}
    /\ Goto("status")
    /\ UNCHANGED <<launcherVars, configVars, lease, managerVars, drifted, sent>>

(* Reconciliation by status and cancel. *)
\* Mutant of React: an operation the manager has not seen counts as cancelled,
\* without the fence of a cancel.
ReactUnfenced(out) ==
    CASE out = "started" -> Goto("finish")
      [] out \in {"failed", "cancelled"} ->
            proc' = [proc EXCEPT !.at = "settle", !.verdict = out]
      [] out = "not_found" -> proc' = [proc EXCEPT !.at = "settle", !.verdict = "cancelled"]
      [] out = "admitted" -> Goto("status")
      [] out = "unknown" -> Leave

\* What an outcome answered for the operation makes of the invocation; an
\* admitted one is asked again, an unknown one ends it.
React(out) ==
    CASE out = "started" -> Goto("finish")
      [] out \in {"failed", "cancelled"} ->
            proc' = [proc EXCEPT !.at = "settle", !.verdict = out]
      [] out = "not_found" -> Goto("cancel")
      [] out = "admitted" -> Goto("status")
      [] out = "unknown" -> Leave

AskStatus ==
    /\ proc.at = "status"
    /\ React(OutcomeOf(proc.op))
    /\ UNCHANGED <<launcherVars, lease>> /\ Local

\* cancel fences an operation never admitted and answers any other; its own
\* answer may be lost.
AskCancel ==
    /\ proc.at = "cancel"
    /\ LET o == proc.op
           out == IF outcome[o] = "not_found" THEN "cancelled" ELSE OutcomeOf(o)
       IN  /\ outcome' = IF out = "cancelled" THEN [outcome EXCEPT ![o] = out] ELSE outcome
           /\ React(out) \/ Leave
    /\ UNCHANGED <<launcherVars, configVars, lease, flying, run, key, drifted, sent>>

(* The liveness record. *)
\* compareAndSwap: under the lane's lock the expected tuple is the actual one;
\* what is left is which generation transitions it commits.
Commits(next, sessionRead) ==
    /\ IF liveness = None \/ liveness.gen = 0 THEN next.gen \geq 1
       ELSE IF next.reg # liveness.reg
       THEN liveness.state = "down" /\ next.op # liveness.op /\ next.gen \geq 1
       ELSE IF next.op = liveness.op THEN next.gen = liveness.gen
       ELSE next.gen = liveness.gen + 1
    /\ sessionRead \/ next.op \notin abandoned

\* Take the started record of the operation: the state it was started in.
Finish ==
    /\ proc.at = "finish"
    /\ LET o == proc.op
           next == [reg |-> request[o].reg, op |-> o, gen |-> run[o].gen,
                    session |-> run[o].session, state |-> "up", source |-> "manager"]
       IN  Commits(next, FALSE) /\ liveness' = next
    /\ Goto("bind")
    /\ UNCHANGED <<journal, settled, abandoned, request, lease>> /\ Local

\* The lease cannot be bound without an OS process incarnation: the journal
\* stays, and so does the invocation's error.
Bind ==
    /\ proc.at = "bind"
    /\ SetPhase("bind_pending")
    /\ Leave
    /\ UNCHANGED <<settled, liveness, abandoned, request, lease>> /\ Local

(* Commands of a lane without a pending operation. *)
HasSession == liveness # None /\ liveness.session # None

\* status {session} through the binding; nothing else may speak for a session.
OwnerReads(row) ==
    /\ HasSession /\ Owns(liveness.reg)
    /\ liveness.session \notin drifted
    /\ \E o \in Started(StoreOf[liveness.reg]) : run[o].session = liveness.session
    /\ row = RowOf(liveness.session)

Fresh(row) == [liveness EXCEPT !.op = row.op, !.gen = row.gen, !.session = row.session,
                               !.state = row.state, !.source = "manager"]
Refresh(row) ==
    /\ Commits(Fresh(row), TRUE)
    /\ liveness' = Fresh(row)
    /\ UNCHANGED <<journal, settled, abandoned, request>>

\* Mutant of UpOwner: the record's owner is not asked.
UpUnowned ==
    /\ proc.at = "command" /\ proc.cmd \in {"up", "new"}
    /\ entry[selected] # None
    /\ Goto("list")
    /\ UNCHANGED <<launcherVars, lease>> /\ Local

\* up: a lane whose record is not down needs its owner to say it is.
UpOwner ==
    /\ proc.at = "command" /\ proc.cmd \in {"up", "new"}
    /\ entry[selected] # None
    /\ IF HasSession /\ liveness.state # "down"
       THEN \E row \in Row : /\ OwnerReads(row) /\ row.state = "down"
                             /\ proc' = [proc EXCEPT !.at = "list", !.row = row]
       ELSE Goto("list")
    /\ UNCHANGED <<launcherVars, lease>> /\ Local

\* list: the sessions of the lane that a manager knows, page after page.
Listed(reg) == {run[o].session : o \in Started(StoreOf[reg])}

\* The selected manager must hold no live session of the lane.  Then the
\* conversation to continue: the record's own, else the newest one there.
UpList ==
    /\ proc.at = "list"
    /\ LET reg == entry[selected]
           here == Started(StoreOf[reg])
           sessions == Listed(reg)
           resumes == proc.cmd = "up" /\ (liveness = None \/ liveness.reg = reg)
           own == IF HasSession THEN {liveness.session} \cap sessions ELSE {}
           newest == {run[o].session : o \in {p \in here : \A q \in here :
                                                run[q].gen \leq run[p].gen}}
           choices == IF ~resumes THEN {} ELSE IF own # {} THEN own ELSE newest
       IN  /\ \A v \in sessions : RowOf(v).state = "down"
           /\ \E target \in IF choices = {} THEN {None} ELSE choices :
                 proc' = [proc EXCEPT !.at = "journal", !.target = target]
           /\ IF proc.row # None THEN Refresh(proc.row) ELSE UNCHANGED launcherVars
    /\ UNCHANGED lease /\ Local

\* After preparation and the first allocation check the journal is written.
NextOp == Cardinality({o \in Op : request[o] # None}) + 1

WritePending ==
    /\ proc.at = "journal" /\ journal = None
    /\ NextOp \in Op
    /\ journal' = [op |-> NextOp, phase |-> "lease_requested"]
    /\ request' = [request EXCEPT ![NextOp] =
                     [reg |-> entry[selected], target |-> proc.target]]
    /\ proc' = [Idle EXCEPT !.at = "acquire", !.op = NextOp]
    /\ UNCHANGED <<settled, liveness, abandoned, lease>> /\ Local

\* down and recycle: a lane without a session is down already.
DownOwner ==
    /\ proc.at = "command" /\ proc.cmd \in {"down", "force", "recycle"} /\ proc.row = None
    /\ \/ /\ ~HasSession
          /\ IF proc.cmd = "recycle" THEN proc' = [proc EXCEPT !.cmd = "new"] ELSE Leave
       \/ \E row \in Row :
            /\ OwnerReads(row)
            /\ proc' = [proc EXCEPT !.row = row,
                          !.at = IF row.state = "down" THEN "refresh" ELSE "stop"]
    /\ UNCHANGED <<launcherVars, lease>> /\ Local

\* Mutant of StopCall: a stop that was accepted is recorded as down.
StopAssumed ==
    /\ proc.at = "stop"
    /\ LET o == proc.row.op IN
         /\ RowOf(proc.row.session).gen = proc.row.gen
         /\ \E state \in {"draining", "down"} : EndRun(o, state)
    /\ proc' = [proc EXCEPT !.at = "refresh", !.row.state = "down"]
    /\ UNCHANGED <<launcherVars, configVars, lease, flying, outcome, drifted, sent>>

\* stop names the generation the owner just told of.  A graceful stop may leave
\* it draining.
StopCall ==
    /\ proc.at = "stop"
    /\ LET o == proc.row.op IN
         /\ RowOf(proc.row.session).gen = proc.row.gen
         /\ proc.row.session \notin drifted
         /\ \E state \in IF proc.cmd = "force" \/ ~Alive(o) THEN {"down"}
                         ELSE {"draining", "down"} :
              /\ EndRun(o, state)
              /\ proc' = [proc EXCEPT !.at = "refresh", !.row.state = state]
    /\ UNCHANGED <<launcherVars, configVars, lease, flying, outcome, drifted, sent>>

\* recycle waits for a draining generation, then starts a new conversation.
RefreshStep ==
    /\ proc.at = "refresh"
    /\ Refresh(proc.row)
    /\ IF proc.cmd # "recycle" THEN Leave
       ELSE IF proc.row.state = "draining" THEN Goto("command")
       ELSE proc' = [proc EXCEPT !.at = "command", !.cmd = "new", !.row = None]
    /\ UNCHANGED lease /\ Local

\* recycle polls the draining generation through its owner.
Poll ==
    /\ proc.at = "command" /\ proc.cmd = "recycle" /\ proc.row # None
    /\ \E row \in Row : OwnerReads(row) /\ proc' = [proc EXCEPT !.at = "refresh", !.row = row]
    /\ UNCHANGED <<launcherVars, lease>> /\ Local

\* status takes the owner's row; an owner that does not answer leaves unknown.
StatusCommand ==
    /\ proc.at = "command" /\ proc.cmd = "status" /\ HasSession
    /\ \/ \E row \in Row : OwnerReads(row) /\ proc' = [proc EXCEPT !.at = "refresh", !.row = row]
          /\ UNCHANGED launcherVars
       \/ /\ Owns(liveness.reg)
          /\ \E source \in {liveness.source, "manager"} :
               liveness' = [liveness EXCEPT !.state = "unknown", !.source = source]
          /\ Leave
          /\ UNCHANGED <<journal, settled, abandoned, request>>
    /\ UNCHANGED lease /\ Local

\* Mutant of Rebind: any entry with the binding's id is taken.
RebindBlindly ==
    /\ proc.at = "command" /\ proc.cmd = "rebind" /\ HasSession
    /\ entry[IdOf[liveness.reg]] # None
    /\ liveness' = [liveness EXCEPT !.reg = entry[IdOf[liveness.reg]]]
    /\ proc' = [proc EXCEPT !.cmd = "status"]
    /\ UNCHANGED <<journal, settled, abandoned, request, lease>> /\ Local

\* recover --rebind-manager: the current entry must know that very session.
Rebind ==
    /\ proc.at = "command" /\ proc.cmd = "rebind" /\ HasSession
    /\ LET reg == entry[IdOf[liveness.reg]] IN
         /\ reg # None /\ liveness.session \notin drifted
         /\ \E o \in Started(StoreOf[reg]) : run[o].session = liveness.session
         /\ liveness' = [liveness EXCEPT !.reg = reg]
    /\ proc' = [proc EXCEPT !.cmd = "status"]
    /\ UNCHANGED <<journal, settled, abandoned, request, lease>> /\ Local

(***************************************************************************)
(* The operator's other acts                                               *)
(***************************************************************************)
Configure(e, sel, dr) ==
    /\ proc.at = "idle" /\ changes < MaxConfig
    /\ changes' = changes + 1
    /\ entry' = e /\ selected' = sel /\ drifted' = dr
    /\ UNCHANGED <<launcherVars, proc, lease, flying, managerVars, sent>>

Register(i, r) == (r # None => IdOf[r] = i) /\ Configure([entry EXCEPT ![i] = r], selected, drifted)
Select(i) == Configure(entry, i, drifted)
Drift(session) == MayDrift /\ Configure(entry, selected, drifted \cup {session})

\* curator env lease break.  Once the operation is settled nothing looks at its
\* lease again, so only a pending one is broken.
BreakLease(o) ==
    /\ MayBreak /\ changes < MaxConfig
    /\ lease[o] = "prepared" /\ journal # None /\ journal.op = o
    /\ lease' = [lease EXCEPT ![o] = "broken"]
    /\ changes' = changes + 1
    /\ UNCHANGED <<launcherVars, proc, entry, selected, flying, managerVars, drifted, sent>>

(***************************************************************************)
(* Specification                                                           *)
(***************************************************************************)
ManagerStep ==
    \E o \in Op : \/ ServeNothing(o) \/ ServeFailure(o) \/ ServeReservation(o)
                 \/ ServeStart(o) \/ ExternalStop(o)

JournalStep ==
    \/ AbandonLiveness \/ Settle \/ Clear \/ CheckPending
    \/ Acquire \/ CheckOwner \/ CheckAllocation \/ MarkSubmitted
    \/ Send \/ Receive \/ Timeout
    \/ AskStatus \/ AskCancel \/ Finish \/ Bind

CommandStep ==
    \/ UpOwner \/ UpList \/ WritePending
    \/ DownOwner \/ StopCall \/ RefreshStep \/ Poll
    \/ StatusCommand \/ Rebind

OperatorStep ==
    \/ \E cmd \in Commands : Invoke(cmd)
    \/ \E i \in Id, r \in Registration \cup {None} : Register(i, r)
    \/ \E i \in Id : Select(i)
    \/ \E o \in Op : run[o].session = o /\ Drift(o)
    \/ \E o \in Op : BreakLease(o)

Next == ManagerStep \/ JournalStep \/ CommandStep \/ OperatorStep \/ End

Spec == Init /\ [][Next]_vars

(***************************************************************************)
(* Properties                                                              *)
(***************************************************************************)
\* What the operator has taken upon himself: an abandoned operation or a broken
\* home lease.
Overridden(o) == o \in abandoned \/ lease[o] = "broken"

\* A generation its own manager reports as failed, because its Curator identity
\* drifted (see the run LaneDrift).
Disowned(o) == run[o].session \in drifted

\* "Send the persisted request exactly once ... never blindly resend": no crash,
\* timeout, recovery or abandon makes a second launch or resume call.
SentAtMostOnce == \A o \in Op : sent[o] \leq 1

\* A start may exist or may still come.
MayLive(o) == \/ Alive(o)
              \/ outcome[o] \in {"admitted", "unknown"}
              \/ o \in flying /\ outcome[o] = "not_found"

\* Whatever may live is in the journal, so that every later invocation meets it
\* before it does anything else; only the operator can make the lane forget it.
JournalCovers ==
    \A o \in Op : MayLive(o) =>
        Overridden(o) \/ Disowned(o) \/ (journal # None /\ journal.op = o)

\* A retained verdict failed or cancelled is true for ever: the operation has no
\* generation, not even from a call that was still under way.
VerdictsHold ==
    \A o \in Op : settled[o] \in {"failed", "cancelled"} => run[o].state = "none" \/ Disowned(o)

\* "The launcher never automatically starts a second generation while the first
\* may live" (FRONT-DOOR.md 6.2), on one manager or across two of them.
NoSecondGeneration ==
    \A a, b \in Op : a < b /\ Alive(a) /\ Alive(b) => Overridden(a)

\* A lane recorded as down by its manager has no live generation behind the
\* record, whatever happened between the manager's answer and the write.
DownMeansDown ==
    liveness # None /\ liveness.state = "down" /\ liveness.source = "manager" =>
        run[liveness.op].state = "down"

\* What the lane has recorded as over is over, in the retained verdicts and in the liveness
\* record alike (settleLease, compareAndSwap).
RecordedEndsHold == VerdictsHold /\ DownMeansDown

\* The record names a generation that its manager really started, as it was.
LivenessNamesAStart ==
    liveness # None /\ liveness.op # None =>
        /\ run[liveness.op].gen = liveness.gen
        /\ run[liveness.op].session = liveness.session
        /\ OpStore(liveness.op) = StoreOf[liveness.reg]

\* Fresh evidence outranks the operator: a call is never made while the
\* generation the manager itself put into the record is alive.
NoStartOverOwnerEvidence ==
    proc.at = "send" /\ liveness # None /\ liveness.source = "manager" =>
        ~Alive(liveness.op)

\* The record is what its manager said, and up and recycle obey it, whatever manager is
\* selected or bound in between (up, rebind).
OwnerEvidenceHolds == LivenessNamesAStart /\ NoStartOverOwnerEvidence

\* Under one binding the record never goes back to an older generation.
LivenessAdvances ==
    [][liveness # None /\ liveness'.reg = liveness.reg => liveness'.gen \geq liveness.gen]_vars

\* "An uncertain operation is never converted into no-start evidence."
NotStartedMeansUnsent == \A o \in Op : settled[o] = "not_started" => sent[o] = 0

(***************************************************************************)
(* The abstract admission, implemented                                     *)
(***************************************************************************)
\* As in SessionManager: an operation is open until it is started or refused
\* for good, and one that is fenced or failed never starts.
fateOf == [o \in Op |->
    CASE outcome[o] = "not_found" -> "open"
      [] outcome[o] \in {"failed", "cancelled"} -> "dead"
      [] OTHER -> "begun"]

A == INSTANCE Admission WITH Key <- Store, NoKey <- None, NoOp <- None,
                             fate <- fateOf, holder <- key

\* The managers behind a lane keep the promise of FRONT-DOOR.md 5.7, whatever
\* the lane's invocations do.
ImplementsAdmission == A!ASpec
=============================================================================
