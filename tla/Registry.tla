------------------------------- MODULE Registry --------------------------------
(***************************************************************************)
(* The session-manager registry (sessionmanager/service.go, transaction.go *)
(* and atomic.go): register, use and unregister as read-decide-write       *)
(* transactions of concurrent processes under one lock per layer, and      *)
(* curator-run migrate (migrate/migrate.go), which writes the same files   *)
(* without that lock.  Any process may be killed after any step, and power *)
(* may fail: a rename not yet synced may then be undone.  The directories  *)
(* themselves are taken to be durable.                                     *)
(***************************************************************************)
EXTENDS Naturals

CONSTANTS
    Client,     \* processes that run one mutating command each
    Manager,    \* manager ids
    NoOne,      \* neither a client nor a manager
    Commands,   \* commands the clients may run
    Disks,      \* contents of the four files a history may begin with
    MaxPower    \* bound: power losses

Layer == {"system", "user"}

\* Flags of register; tty: it may ask; stdin: its manifest comes from a pipe.  The
\* layer is the scope given, or what the process may write.
Command == [op : {"register", "use", "unregister"}, id : Manager, layer : Layer,
            flag : {"none", "select", "noselect"}, tty : BOOLEAN, stdin : BOOLEAN]

\* A registry file that Parse accepts; "by" is the lineage of commands it contains.
Registry ==
    {r \in [present : BOOLEAN, managers : SUBSET Manager,
            selected : Manager \cup {NoOne}, by : SUBSET Client] :
        r.selected \in r.managers \cup {NoOne}}
Absent == [present |-> FALSE, managers |-> {}, selected |-> NoOne, by |-> {}]

ASSUME ConstantsAssumption ==
    /\ NoOne \notin Client \cup Manager
    /\ Commands \subseteq Command
    /\ Disks \subseteq [file : [Layer -> Registry], legacy : [Layer -> Registry]]
    /\ \A d \in Disks, l \in Layer : d.file[l].by = {} /\ d.legacy[l].by = {}
    /\ MaxPower \in Nat

VARIABLES
    file,      \* Layer -> the registry in the current home
    may,       \* Layer -> what a power loss may leave of it
    legacy,    \* Layer -> the registry in the deprecated home
    lock,      \* Layer -> the client that holds its lock
    run,       \* Client -> its command and where it stands
    mig,       \* the migrate process
    powers,    \* power losses so far
    outcome,   \* ghost: Client -> what became of its command
    overwrote  \* ghost: layers where migrate replaced another's file

diskVars == <<file, may, legacy>>
vars == <<diskVars, lock, run, mig, powers, outcome, overwrote>>

NotRun == [at |-> "idle", layer |-> "user", reg |-> Absent, before |-> Absent,
           yes |-> FALSE, cmd |-> [op |-> "none"]]
Prepared == {"wait", "read", "manifest", "prompt", "write", "compare", "rename"}
Committing == {"sync", "restore", "resync", "unrestored"}

\* The changes that migrate still plans, has planned, and has tried to make.
Migration == [at : {"idle", "plan", "add", "check", "write", "rollback", "done"},
              todo : SUBSET Layer, planned : SUBSET Layer, tried : SUBSET Layer,
              before : [Layer -> Registry]]
NotMigrating == [at |-> "idle", todo |-> {}, planned |-> {}, tried |-> {},
                 before |-> [l \in Layer |-> Absent]]

Running == [at : {"idle", "done"} \cup Prepared \cup Committing, layer : Layer,
            reg : Registry, before : Registry, yes : BOOLEAN, cmd : Commands \cup {NotRun.cmd}]

DisksOK ==
    /\ file \in [Layer -> Registry] /\ legacy \in [Layer -> Registry]
    /\ may \in [Layer -> SUBSET Registry] /\ \A l \in Layer : file[l] \in may[l]
ClientsOK ==
    /\ lock \in [Layer -> Client \cup {NoOne}]
    /\ run \in [Client -> Running]
    /\ outcome \in [Client -> {"none", "acked", "refused", "unsure"}]
TypeOK ==
    /\ DisksOK /\ ClientsOK
    /\ mig \in Migration
    /\ powers \in 0..MaxPower
    /\ overwrote \subseteq Layer

Init ==
    /\ \E d \in Disks : file = d.file /\ legacy = d.legacy
    /\ may = [l \in Layer |-> {file[l]}]
    /\ lock = [l \in Layer |-> NoOne]
    /\ run = [c \in Client |-> NotRun]
    /\ mig = NotMigrating
    /\ powers = 0
    /\ outcome = [c \in Client |-> "none"]
    /\ overwrote = {}

(***************************************************************************)
(* The files                                                               *)
(***************************************************************************)
\* Resolver.Read: the deprecated home counts only while the current one is empty.
View(l) == IF file[l].present THEN file[l] ELSE legacy[l]

Put(l, r) ==
    /\ file' = [file EXCEPT ![l] = r]
    /\ may' = [may EXCEPT ![l] = @ \cup {r}]
    /\ UNCHANGED legacy
SyncDirectory(l) ==
    /\ may' = [may EXCEPT ![l] = {file[l]}]
    /\ UNCHANGED <<file, legacy>>

Others == UNCHANGED <<mig, powers, overwrote>>

Goto(c, step) == run' = [run EXCEPT ![c].at = step]

\* The process exits: the kernel releases its lock.
Exit(c, end) ==
    /\ run' = [run EXCEPT ![c] = [NotRun EXCEPT !.at = "done", !.layer = run[c].layer]]
    /\ lock' = [l \in Layer |-> IF lock[l] = c THEN NoOne ELSE lock[l]]
    /\ outcome' = [outcome EXCEPT ![c] = end]

(***************************************************************************)
(* Before the commit                                                       *)
(***************************************************************************)
Shadowed(l) == l = "user" /\ View("system").present

\* The machine's authority is checked before the user's home is touched.
Start(c, command) ==
    /\ run[c].at = "idle"
    /\ IF Shadowed(command.layer) THEN Exit(c, "refused")
       ELSE /\ run' = [run EXCEPT ![c] = [NotRun EXCEPT !.at = "wait", !.cmd = command,
                                                        !.layer = command.layer]]
            /\ UNCHANGED <<lock, outcome>>
    /\ UNCHANGED diskVars /\ Others

\* flock: nobody holds the layer's lock.
Free(l) == lock[l] = NoOne

\* Mutant of Acquire: the lock is shared.
AcquireShared(c) ==
    /\ run[c].at = "wait"
    /\ lock' = [lock EXCEPT ![run[c].layer] = c]
    /\ Goto(c, "read")
    /\ UNCHANGED <<diskVars, outcome>> /\ Others

Acquire(c) ==
    /\ run[c].at = "wait" /\ Free(run[c].layer)
    /\ lock' = [lock EXCEPT ![run[c].layer] = c]
    /\ Goto(c, "read")
    /\ UNCHANGED <<diskVars, outcome>> /\ Others

\* Mutant of Edited: an unregistered manager stays selected.
EditedKeepsSelection(c, r) ==
    LET id == run[c].cmd.id IN
    IF run[c].cmd.op = "use" THEN [r EXCEPT !.selected = id]
    ELSE [r EXCEPT !.managers = @ \ {id}]

Edited(c, r) ==
    LET id == run[c].cmd.id IN
    IF run[c].cmd.op = "use" THEN [r EXCEPT !.selected = id]
    ELSE [r EXCEPT !.managers = @ \ {id}, !.selected = IF @ = id THEN NoOne ELSE @]

\* The authority is checked again; use and unregister need a registered id.
Read(c) ==
    /\ run[c].at = "read" /\ ~Shadowed(run[c].layer)
    /\ LET r == View(run[c].layer) IN
         IF run[c].cmd.op = "register"
         THEN run' = [run EXCEPT ![c].at = "manifest", ![c].reg = r]
         ELSE /\ run[c].cmd.id \in r.managers
              /\ run' = [run EXCEPT ![c].at = "write", ![c].reg = Edited(c, r)]
    /\ UNCHANGED <<diskVars, lock, outcome>> /\ Others

\* Whether register selects without being told to, and whether it has to ask.
SelectsFirst(c) == run[c].cmd.id \notin run[c].reg.managers /\ run[c].reg.managers = {}
Asks(c) == /\ run[c].cmd.flag = "none" /\ run[c].cmd.tty
           /\ run[c].cmd.id \notin run[c].reg.managers /\ run[c].reg.managers # {}

Registered(c, selects) ==
    [run[c].reg EXCEPT !.managers = @ \cup {run[c].cmd.id},
                       !.selected = IF selects THEN run[c].cmd.id ELSE @]

\* Mutant of ReadManifest: a new manager is always selected.
ReadManifestSelects(c) ==
    /\ run[c].at = "manifest"
    /\ run' = [run EXCEPT ![c].at = "write", ![c].reg = Registered(c, TRUE)]
    /\ UNCHANGED <<diskVars, lock, outcome>> /\ Others

ReadManifest(c) ==
    /\ run[c].at = "manifest"
    /\ run' = IF Asks(c) THEN [run EXCEPT ![c].at = "prompt"]
              ELSE LET selects == \/ run[c].cmd.flag = "select"
                                  \/ run[c].cmd.flag = "none" /\ SelectsFirst(c)
                   IN  [run EXCEPT ![c].at = "write", ![c].reg = Registered(c, selects)]
    /\ UNCHANGED <<diskVars, lock, outcome>> /\ Others

Answer(c) ==
    /\ run[c].at = "prompt"
    /\ \E yes \in BOOLEAN :
         run' = [run EXCEPT ![c].at = "write", ![c].yes = yes, ![c].reg = Registered(c, yes)]
    /\ UNCHANGED <<diskVars, lock, outcome>> /\ Others

\* Mutant of Refuse: waiting for the lock has no deadline.
RefuseUntimed(c) ==
    /\ run[c].at \in Prepared \ {"wait"}
    /\ Exit(c, "refused")
    /\ UNCHANGED diskVars /\ Others

\* Any refusal before the rename: a busy lock, the prompt's deadline, a bad or
\* unknown manager, a failing output, a changed file.
Refuse(c) ==
    /\ run[c].at \in Prepared
    /\ Exit(c, "refused")
    /\ UNCHANGED diskVars /\ Others

(***************************************************************************)
(* atomicWrite                                                             *)
(***************************************************************************)
ReadBefore(c) ==
    /\ run[c].at = "write"
    /\ run' = [run EXCEPT ![c].at = "compare", ![c].before = file[run[c].layer]]
    /\ UNCHANGED <<diskVars, lock, outcome>> /\ Others

Compare(c) ==
    /\ run[c].at = "compare" /\ file[run[c].layer] = run[c].before
    /\ Goto(c, "rename")
    /\ UNCHANGED <<diskVars, lock, outcome>> /\ Others

Rename(c) ==
    /\ run[c].at = "rename"
    /\ Put(run[c].layer, [run[c].reg EXCEPT !.present = TRUE, !.by = @ \cup {c}])
    /\ Goto(c, "sync")
    /\ UNCHANGED <<lock, outcome>> /\ Others

Sync(c) ==
    /\ run[c].at = "sync"
    /\ \/ SyncDirectory(run[c].layer) /\ Exit(c, "acked")
       \/ Goto(c, "restore") /\ UNCHANGED <<diskVars, lock, outcome>>
    /\ Others

\* Mutant of Restore: the new file stays in place.
RestoreNothing(c) ==
    /\ run[c].at = "restore"
    /\ Goto(c, "resync") /\ UNCHANGED diskVars
    /\ UNCHANGED <<lock, outcome>> /\ Others

\* The old file is renamed back, or the new one removed.
Restore(c) ==
    /\ run[c].at = "restore"
    /\ \/ Put(run[c].layer, run[c].before) /\ Goto(c, "resync")
       \/ Goto(c, "unrestored") /\ UNCHANGED diskVars
    /\ UNCHANGED <<lock, outcome>> /\ Others

\* A failed command; only a synced restoration leaves nothing of it.
Resync(c) ==
    /\ run[c].at \in {"resync", "unrestored"}
    /\ \/ /\ SyncDirectory(run[c].layer)
          /\ Exit(c, IF run[c].at = "resync" THEN "refused" ELSE "unsure")
       \/ UNCHANGED diskVars /\ Exit(c, "unsure")
    /\ Others

Kill(c) ==
    /\ run[c].at \notin {"idle", "done"}
    /\ Exit(c, "unsure")
    /\ UNCHANGED diskVars /\ Others

(***************************************************************************)
(* migrate                                                                 *)
(***************************************************************************)
Commanders == UNCHANGED <<lock, run, powers, outcome>>

\* The system layer goes first, and is the last to be put back.
Foremost(layers) == IF "system" \in layers THEN "system" ELSE "user"
Hindmost(layers) == IF "user" \in layers THEN "user" ELSE "system"

StartMigrate ==
    /\ mig.at = "idle"
    /\ mig' = [mig EXCEPT !.at = "plan", !.todo = Layer]
    /\ UNCHANGED <<diskVars, overwrote>> /\ Commanders

\* copy: the old layer has nothing to bring, or the destination holds it already.
Copied(l) == ~legacy[l].present \/ file[l] = legacy[l]

\* A file to copy is compared with its destination.  Equal ones, and those of an
\* unwritable system layer, need nothing; different ones stop the migration.
Plan ==
    /\ mig.at = "plan" /\ mig.todo # {}
    /\ LET l == Foremost(mig.todo) IN
         \/ /\ Copied(l) \/ l = "system"
            /\ mig' = [mig EXCEPT !.todo = @ \ {l}]
         \/ /\ ~Copied(l)
            /\ mig' = [mig EXCEPT !.at = IF file[l].present THEN "done" ELSE "add"]
    /\ UNCHANGED <<diskVars, overwrote>> /\ Commanders

\* The destination is read once more, as the snapshot to go back to.
AddChange ==
    /\ mig.at = "add"
    /\ LET l == Foremost(mig.todo) IN
         mig' = [mig EXCEPT !.at = "plan", !.todo = @ \ {l}, !.planned = @ \cup {l},
                            !.before[l] = file[l]]
    /\ UNCHANGED <<diskVars, overwrote>> /\ Commanders

Planned ==
    /\ mig.at = "plan" /\ mig.todo = {}
    /\ mig' = [mig EXCEPT !.at = IF mig.planned = {} THEN "done" ELSE "check"]
    /\ UNCHANGED <<diskVars, overwrote>> /\ Commanders

\* Each destination is compared with its snapshot just before it is written;
\* the other files of the migration may fail instead.
CheckChange ==
    /\ mig.at = "check"
    /\ \/ /\ mig.planned # {}
          /\ LET l == Foremost(mig.planned) IN file[l] = mig.before[l]
          /\ mig' = [mig EXCEPT !.at = "write"]
       \/ mig.planned = {} /\ mig' = [mig EXCEPT !.at = "done"]
       \/ mig' = [mig EXCEPT !.at = "rollback"]
    /\ UNCHANGED <<diskVars, overwrote>> /\ Commanders

\* The file that goes is none that migrate found or expects there.
Overwrites(l, expected) ==
    overwrote' = IF file[l] \in expected THEN overwrote ELSE overwrote \cup {l}

\* A change counts as tried even when its write fails.
WriteChange ==
    /\ mig.at = "write"
    /\ LET l == Foremost(mig.planned)
           tried == [mig EXCEPT !.planned = @ \ {l}, !.tried = @ \cup {l}]
       IN  \/ /\ Put(l, legacy[l])
              /\ Overwrites(l, {Absent, legacy[l]} \cap {mig.before[l]})
              /\ mig' = [tried EXCEPT !.at = "check"]
           \/ /\ mig' = [tried EXCEPT !.at = "rollback"]
              /\ UNCHANGED <<diskVars, overwrote>>
    /\ Commanders

\* What was tried is put back, newest first; what fails to be put back stays.
Rollback ==
    /\ mig.at = "rollback"
    /\ IF mig.tried = {}
       THEN mig' = [mig EXCEPT !.at = "done"] /\ UNCHANGED <<diskVars, overwrote>>
       ELSE LET l == Hindmost(mig.tried)
                was == mig.before[l]
            IN  /\ mig' = [mig EXCEPT !.tried = @ \ {l}]
                /\ \/ /\ Put(l, was)
                      /\ Overwrites(l, IF was.present THEN {was} ELSE {was, legacy[l]})
                   \/ UNCHANGED <<diskVars, overwrote>>
    /\ Commanders

KillMigrate ==
    /\ mig.at \notin {"idle", "done"}
    /\ mig' = [NotMigrating EXCEPT !.at = "done"]
    /\ UNCHANGED <<diskVars, overwrote>> /\ Commanders

(***************************************************************************)
(* Power and the specification                                             *)
(***************************************************************************)
PowerLoss ==
    /\ powers < MaxPower
    /\ powers' = powers + 1
    /\ file' \in {f \in [Layer -> UNION {may[l] : l \in Layer}] :
                    \A l \in Layer : f[l] \in may[l]}
    /\ may' = [l \in Layer |-> {file'[l]}]
    /\ lock' = [l \in Layer |-> NoOne]
    /\ run' = [c \in Client |->
                 IF run[c].at \in {"idle", "done"} THEN run[c]
                 ELSE [NotRun EXCEPT !.at = "done", !.layer = run[c].layer]]
    /\ outcome' = [c \in Client |->
                     IF run[c].at \in {"idle", "done"} THEN outcome[c] ELSE "unsure"]
    /\ mig' = IF mig.at = "idle" THEN mig ELSE [NotMigrating EXCEPT !.at = "done"]
    /\ UNCHANGED <<legacy, overwrote>>

Commit(c) ==
    \/ ReadBefore(c) \/ Compare(c) \/ Rename(c)
    \/ Sync(c) \/ Restore(c) \/ Resync(c)

ClientStep(c) ==
    \/ \E command \in Commands : Start(c, command)
    \/ Acquire(c) \/ Read(c) \/ ReadManifest(c) \/ Answer(c) \/ Refuse(c)
    \/ Commit(c) \/ Kill(c)

MigrateStep ==
    \/ StartMigrate \/ Plan \/ AddChange \/ Planned \/ CheckChange \/ WriteChange
    \/ Rollback \/ KillMigrate

Next == (\E c \in Client : ClientStep(c)) \/ MigrateStep \/ PowerLoss

Spec == Init /\ [][Next]_vars

\* Every step of a command comes to an end by itself, deadlines included: all but
\* the reading of a manifest from a pipe, which has none.
OwnPace(c) ==
    \/ Acquire(c) \/ Read(c) \/ Commit(c) \/ Refuse(c) \/ ReadManifest(c)
Piped(c) == run[c].at = "manifest" /\ run[c].cmd.stdin
Fairness == \A c \in Client : WF_vars(~Piped(c) /\ OwnPace(c))
FairSpec == Spec /\ Fairness

(***************************************************************************)
(* Properties                                                              *)
(***************************************************************************)
\* "Independent processes must retain every acknowledged registration, selection
\* and removal": each file that a power loss may leave descends from it, unless
\* migrate, which takes no lock, overwrote what it had not seen.
AcknowledgedSurvives ==
    \A c \in Client : outcome[c] = "acked" /\ run[c].layer \notin overwrote =>
        \A r \in may[run[c].layer] : c \in r.by

\* "Failed commands leave the previous registry": nothing descends from a refused
\* command, not even what another command read while its rename was visible.
RefusedLeavesNothing ==
    \A c \in Client : outcome[c] = "refused" /\ run[c].layer \notin overwrote =>
        \A r \in may[run[c].layer] : c \notin r.by

\* The selection of a registry with managers changes only by an explicit word: use,
\* --select, an answered question, or the selected manager's removal.  What was
\* decided on must still be what is replaced.
Authorised(c) ==
    \/ run[c].cmd.op = "use" \/ run[c].cmd.flag = "select" \/ run[c].yes
    \/ run[c].cmd.op = "unregister" /\ run[c].cmd.id = View(run[c].layer).selected
NeverReselectsUnasked ==
    [][\A c \in Client :
          LET l == run[c].layer IN
            Rename(c) /\ l \notin overwrote /\ View(l).managers # {} /\ ~Authorised(c) =>
                file'[l].selected = View(l).selected]_vars

\* A command ends, whatever the holder of the lock does: only a command whose own
\* manifest never ends may wait for ever.
CommandsEnd ==
    \A c \in Client : [](run[c].at # "idle" => <>(run[c].at = "done" \/ Piped(c)))

\* "Recheck the snapshot so an intervening destination change is never
\* overwritten" (migrate.go): migrate replaces nothing but an absent file or the
\* copy it makes.
NeverOverwritten == overwrote = {}
===============================================================================
