---------------------------- MODULE Registry_proofs ----------------------------
(***************************************************************************)
(* AcknowledgedSurvives, RefusedLeavesNothing and NeverReselectsUnasked    *)
(* for any number of clients, managers, commands, disks and power losses.  *)
(* The first two need to know where a command's lineage may be: in a file, *)
(* in what a power loss may leave of it, in what another command has read, *)
(* in migrate's snapshot.                                                  *)
(***************************************************************************)
EXTENDS Registry, TLAPS

\* From the lock to the exit, and the part of it where a registry has been read
\* but nothing of it replaced.
Holding == (Prepared \ {"wait"}) \cup Committing
Deciding == {"manifest", "prompt", "write", "compare", "rename"}
Replacing == {"compare", "rename", "sync", "restore"}

\* A running command is one of those offered.
CommandsKnown == \A c \in Client : run[c].at \notin {"idle", "done"} => run[c].cmd \in Commands

\* Whoever has read a layer holds its lock, and only a finished command has an
\* outcome.
LockRespected ==
    \A c \in Client :
        /\ run[c].at \in Holding => lock[run[c].layer] = c
        /\ run[c].at \notin Holding => run[c].reg = Absent /\ run[c].before = Absent
        /\ outcome[c] # "none" => run[c].at = "done"

\* What descends from a command is there, and the deprecated home never does.
Rooted(r) == ~r.present => r.by = {}
LineagePresent ==
    /\ \A l \in Layer : /\ legacy[l].by = {} /\ Rooted(mig.before[l])
                        /\ \A r \in may[l] : Rooted(r)
    /\ \A c \in Client : Rooted(run[c].before)

\* No trace of a command that has not replaced anything.
NoTraceYet ==
    \A c \in Client : run[c].at \in {"idle"} \cup Prepared =>
        /\ \A l \in Layer : c \notin mig.before[l].by /\ \A r \in may[l] : c \notin r.by
        /\ \A p \in Client : c \notin run[p].reg.by /\ c \notin run[p].before.by

\* A command's own file is there until it is put back, unless migrate came between.
OwnFile ==
    \A c \in Client :
        /\ run[c].at = "restore" \/ run[c].at = "sync" => c \notin run[c].before.by
        /\ run[c].layer \notin overwrote =>
             /\ run[c].at = "sync" => c \in file[run[c].layer].by
             /\ run[c].at = "resync" => c \notin file[run[c].layer].by

\* An acknowledged command is in every file and in all that was read of one.
AckedEverywhere ==
    \A c \in Client : outcome[c] = "acked" /\ run[c].layer \notin overwrote =>
        /\ \A r \in may[run[c].layer] : c \in r.by
        /\ \A p \in Client : run[p].layer = run[c].layer =>
             /\ run[p].at \in Deciding => c \in run[p].reg.by
             /\ run[p].at \in Replacing => c \in run[p].before.by

\* A refused one is in none.
RefusedNowhere ==
    \A c \in Client : outcome[c] = "refused" /\ run[c].layer \notin overwrote =>
        /\ \A r \in may[run[c].layer] : c \notin r.by
        /\ \A p \in Client : run[p].layer = run[c].layer =>
             c \notin run[p].reg.by /\ c \notin run[p].before.by

Typed == TypeOK /\ CommandsKnown /\ LockRespected
Lineage == LineagePresent /\ NoTraceYet /\ OwnFile /\ AckedEverywhere /\ RefusedNowhere
IInv == Typed /\ Lineage

(***************************************************************************)
(* The types                                                               *)
(***************************************************************************)
LEMMA AbsentIsRegistry == Absent \in Registry
BY ConstantsAssumption DEF Absent, Registry

\* What is read of a layer is a registry.
LEMMA ViewIsRegistry == ASSUME TypeOK, NEW l \in Layer PROVE View(l) \in Registry
BY DEF TypeOK, DisksOK, View

\* So is what a command makes of one.
LEMMA EditsAreRegistries ==
    ASSUME TypeOK, CommandsKnown, NEW c \in Client, run[c].at \in Holding,
           NEW r \in Registry, run[c].cmd.id \in r.managers \/ run[c].cmd.op # "use"
    PROVE  Edited(c, r) \in Registry
<1>1. run[c].cmd.id \in Manager
    BY ConstantsAssumption DEF CommandsKnown, Command, Holding, Prepared, Committing
<1>2. /\ r.present \in BOOLEAN /\ r.managers \subseteq Manager /\ r.by \subseteq Client
      /\ r.selected \in r.managers \cup {NoOne}
    BY DEF Registry
<1>3. r = [present |-> r.present, managers |-> r.managers,
           selected |-> r.selected, by |-> r.by]
    BY DEF Registry
<1> DEFINE id == run[c].cmd.id
<1>4. CASE run[c].cmd.op = "use"
    <2>1. Edited(c, r) = [present |-> r.present, managers |-> r.managers,
                          selected |-> id, by |-> r.by]
        BY <1>3, <1>4 DEF Edited
    <2> QED BY <2>1, <1>1, <1>2, <1>4 DEF Registry
<1>5. CASE run[c].cmd.op # "use"
    <2>1. Edited(c, r) = [present |-> r.present, managers |-> r.managers \ {id},
                          selected |-> IF r.selected = id THEN NoOne ELSE r.selected,
                          by |-> r.by]
        BY <1>3, <1>5 DEF Edited
    <2> QED BY <2>1, <1>2 DEF Registry
<1> QED BY <1>4, <1>5

\* A manager added to a registry, and a registry renamed into place.
Adding(r, id, s) == [r EXCEPT !.managers = @ \cup {id}, !.selected = s]
Renamed(r, c) == [r EXCEPT !.present = TRUE, !.by = @ \cup {c}]

LEMMA AddingIsRegistry ==
    ASSUME NEW r \in Registry, NEW id \in Manager, NEW s \in {id, r.selected}
    PROVE  Adding(r, id, s) \in Registry /\ Adding(r, id, s).by = r.by
<1> DEFINE Fields == [present : BOOLEAN, managers : SUBSET Manager,
                      selected : Manager \cup {NoOne}, by : SUBSET Client]
           new == Adding(r, id, s)
<1>1. r \in Fields /\ r.selected \in r.managers \cup {NoOne}
    BY DEF Registry
<1>2. new.managers = r.managers \cup {id} /\ new.selected = s
    BY <1>1 DEF Adding
<1>3. new.present = r.present /\ new.by = r.by
    BY <1>1 DEF Adding
<1>4. new \in Fields
    BY <1>1 DEF Adding
<1> QED BY <1>1, <1>2, <1>3, <1>4 DEF Registry

LEMMA RegisteringIsRegistry ==
    ASSUME TypeOK, CommandsKnown, NEW c \in Client, run[c].at \in Holding, NEW selects
    PROVE  /\ Registered(c, selects) \in Registry
           /\ Registered(c, selects).by = run[c].reg.by
<1>1. run[c].cmd.id \in Manager
    BY ConstantsAssumption DEF CommandsKnown, Command, Holding, Prepared, Committing
<1>2. run[c].reg \in Registry
    BY DEF TypeOK, ClientsOK, Running
<1> DEFINE s == IF selects THEN run[c].cmd.id ELSE run[c].reg.selected
<1>3. s \in {run[c].cmd.id, run[c].reg.selected}
    OBVIOUS
<1>4. Registered(c, selects) = Adding(run[c].reg, run[c].cmd.id, s)
    BY DEF Registered, Adding
<1> HIDE DEF s
<1> QED BY <1>1, <1>2, <1>3, <1>4, AddingIsRegistry

LEMMA RenamedIsRegistry ==
    ASSUME NEW r \in Registry, NEW c \in Client
    PROVE  /\ Renamed(r, c) \in Registry
           /\ Renamed(r, c).present /\ Renamed(r, c).by = r.by \cup {c}
<1>1. /\ Renamed(r, c).managers = r.managers /\ Renamed(r, c).selected = r.selected
      /\ Renamed(r, c).present /\ Renamed(r, c).by = r.by \cup {c}
    BY DEF Renamed, Registry
<1>2. Renamed(r, c) \in [present : BOOLEAN, managers : SUBSET Manager,
                         selected : Manager \cup {NoOne}, by : SUBSET Client]
    BY DEF Renamed, Registry
<1>3. r.selected \in r.managers \cup {NoOne}
    BY DEF Registry
<1> QED BY <1>1, <1>2, <1>3 DEF Registry

\* Replacing a file by a registry, and syncing its directory.
LEMMA PutTypes ==
    ASSUME DisksOK, NEW l \in Layer, NEW r \in Registry, Put(l, r) PROVE DisksOK'
BY DEF DisksOK, Put
LEMMA SyncTypes ==
    ASSUME DisksOK, NEW l \in Layer, SyncDirectory(l) PROVE DisksOK'
BY DEF DisksOK, SyncDirectory

\* Moving on and exiting.
LEMMA MoveTypes ==
    ASSUME ClientsOK, NEW c \in Client, NEW step \in Prepared \cup Committing,
           NEW reg \in Registry, NEW before \in Registry, NEW yes \in BOOLEAN
    PROVE  /\ [run EXCEPT ![c].at = step] \in [Client -> Running]
           /\ [run EXCEPT ![c].at = step, ![c].reg = reg] \in [Client -> Running]
           /\ [run EXCEPT ![c].at = step, ![c].before = before] \in [Client -> Running]
           /\ [run EXCEPT ![c].at = step, ![c].yes = yes, ![c].reg = reg]
                \in [Client -> Running]
<1> DEFINE moved == [run EXCEPT ![c].at = step]
<1>1. moved \in [Client -> Running]
    BY DEF ClientsOK, Running
<1> HIDE DEF moved
<1>2. /\ [moved EXCEPT ![c].reg = reg] \in [Client -> Running]
      /\ [moved EXCEPT ![c].before = before] \in [Client -> Running]
    BY <1>1 DEF Running
<1>3. [moved EXCEPT ![c].yes = yes] \in [Client -> Running]
    BY <1>1 DEF Running
<1>4. [[moved EXCEPT ![c].yes = yes] EXCEPT ![c].reg = reg] \in [Client -> Running]
    BY <1>3 DEF Running
<1> QED BY <1>1, <1>2, <1>4 DEF moved

LEMMA NotRunning ==
    ASSUME NEW l \in Layer PROVE [NotRun EXCEPT !.at = "done", !.layer = l] \in Running
BY AbsentIsRegistry DEF NotRun, Running

LEMMA ExitTypes ==
    ASSUME ClientsOK, NEW c \in Client, NEW end \in {"acked", "refused", "unsure"},
           Exit(c, end)
    PROVE  ClientsOK'
<1>1. run[c].layer \in Layer
    BY DEF ClientsOK, Running
<1>2. [NotRun EXCEPT !.at = "done", !.layer = run[c].layer] \in Running
    BY <1>1, NotRunning
<1>3. run' \in [Client -> Running]
    BY <1>2 DEF ClientsOK, Exit
<1> QED BY <1>3 DEF ClientsOK, Exit

\* Every step keeps the types.
LEMMA TypeStep == TypeOK /\ CommandsKnown /\ LockRespected /\ [Next]_vars => TypeOK'
<1> SUFFICES ASSUME TypeOK, CommandsKnown, LockRespected, [Next]_vars PROVE TypeOK'
    OBVIOUS
<1> USE DEF TypeOK, Others, Commanders, diskVars
<1>1. ASSUME NEW c \in Client, NEW command \in Commands, Start(c, command) PROVE TypeOK'
    <2>1. CASE Exit(c, "refused")
        BY <1>1, <2>1, ExitTypes DEF Start, DisksOK
    <2>2. CASE ~Exit(c, "refused")
        <3>1. command.layer \in Layer
            BY ConstantsAssumption DEF Command
        <3>2. [NotRun EXCEPT !.at = "wait", !.cmd = command,
                            !.layer = command.layer] \in Running
            BY <3>1, AbsentIsRegistry DEF NotRun, Running, Prepared
        <3> QED BY <1>1, <2>2, <3>2 DEF Start, DisksOK, ClientsOK
    <2> QED BY <2>1, <2>2
<1>2. ASSUME NEW c \in Client, Acquire(c) PROVE TypeOK'
    BY <1>2, MoveTypes DEF Acquire, Free, DisksOK, Goto, ClientsOK, Running, Prepared
<1>3. ASSUME NEW c \in Client, Read(c) PROVE TypeOK'
    <2>1. run[c].layer \in Layer /\ run[c].at \in Holding
        BY <1>3 DEF Read, ClientsOK, Running, Holding, Prepared
    <2>2. View(run[c].layer) \in Registry
        BY <2>1, ViewIsRegistry
    <2>3. CASE run[c].cmd.op = "register"
        <3>1. run' = [run EXCEPT ![c].at = "manifest", ![c].reg = View(run[c].layer)]
            BY <1>3, <2>3 DEF Read
        <3>2. run' \in [Client -> Running]
            BY <3>1, <2>2, MoveTypes DEF Prepared
        <3> QED BY <1>3, <3>2 DEF Read, DisksOK, ClientsOK
    <2>4. CASE run[c].cmd.op # "register"
        <3>1. Edited(c, View(run[c].layer)) \in Registry
            BY <1>3, <2>1, <2>2, <2>4, EditsAreRegistries DEF Read
        <3>2. run' = [run EXCEPT ![c].at = "write", ![c].reg = Edited(c, View(run[c].layer))]
            BY <1>3, <2>4 DEF Read
        <3>3. run' \in [Client -> Running]
            BY <3>1, <3>2, MoveTypes DEF Prepared
        <3> QED BY <1>3, <3>3 DEF Read, DisksOK, ClientsOK
    <2> QED BY <2>3, <2>4
<1>4. ASSUME NEW c \in Client, ReadManifest(c) PROVE TypeOK'
    <2>1. \A selects \in BOOLEAN : Registered(c, selects) \in Registry
        BY <1>4, RegisteringIsRegistry DEF ReadManifest, Holding, Prepared
    <2>2. run' \in [Client -> Running]
        <3>1. CASE Asks(c)
            <4>1. run' = [run EXCEPT ![c].at = "prompt"]
                BY <1>4, <3>1 DEF ReadManifest
            <4> QED BY <4>1 DEF ClientsOK, Running, Prepared
        <3>2. CASE ~Asks(c)
            <4> DEFINE selects == \/ run[c].cmd.flag = "select"
                                  \/ run[c].cmd.flag = "none" /\ SelectsFirst(c)
            <4>1. run' = [run EXCEPT ![c].at = "write", ![c].reg = Registered(c, selects)]
                BY <1>4, <3>2 DEF ReadManifest
            <4>2. selects \in BOOLEAN
                OBVIOUS
            <4> HIDE DEF selects
            <4> QED BY <2>1, <4>1, <4>2, MoveTypes DEF Prepared
        <3> QED BY <3>1, <3>2
    <2> QED BY <1>4, <2>2 DEF ReadManifest, DisksOK, ClientsOK
<1>5. ASSUME NEW c \in Client, Answer(c) PROVE TypeOK'
    <2>1. \A selects \in BOOLEAN : Registered(c, selects) \in Registry
        BY <1>5, RegisteringIsRegistry DEF Answer, Holding, Prepared
    <2>2. run' \in [Client -> Running]
        <3>1. PICK yes \in BOOLEAN :
                 run' = [run EXCEPT ![c].at = "write", ![c].yes = yes,
                                    ![c].reg = Registered(c, yes)]
            BY <1>5 DEF Answer
        <3> QED BY <2>1, <3>1, MoveTypes DEF Prepared
    <2> QED BY <1>5, <2>2 DEF Answer, DisksOK, ClientsOK
<1>6. ASSUME NEW c \in Client, Refuse(c) PROVE TypeOK'
    BY <1>6, ExitTypes DEF Refuse, DisksOK
<1>7. ASSUME NEW c \in Client, ReadBefore(c) PROVE TypeOK'
    <2>1. file[run[c].layer] \in Registry
        BY DEF DisksOK, ClientsOK, Running
    <2>2. run' \in [Client -> Running]
        BY <1>7, <2>1, MoveTypes DEF ReadBefore, Prepared
    <2> QED BY <1>7, <2>2 DEF ReadBefore, DisksOK, ClientsOK
<1>8. ASSUME NEW c \in Client, Compare(c) PROVE TypeOK'
    BY <1>8 DEF Compare, Goto, DisksOK, ClientsOK, Running, Prepared
<1>9. ASSUME NEW c \in Client, Rename(c) PROVE TypeOK'
    <2>1. run[c].layer \in Layer /\ run[c].reg \in Registry
        BY DEF ClientsOK, Running
    <2>2. Renamed(run[c].reg, c) \in Registry
        BY <2>1, RenamedIsRegistry
    <2>3. Put(run[c].layer, Renamed(run[c].reg, c))
        BY <1>9 DEF Rename, Renamed
    <2>4. DisksOK'
        BY <2>1, <2>2, <2>3, PutTypes
    <2>5. ClientsOK'
        BY <1>9 DEF Rename, Goto, ClientsOK, Running, Committing
    <2> QED BY <1>9, <2>4, <2>5 DEF Rename
<1>10. ASSUME NEW c \in Client, Sync(c) PROVE TypeOK'
    <2>1. run[c].layer \in Layer /\ run[c].before \in Registry
        BY DEF ClientsOK, Running
    <2>2. CASE SyncDirectory(run[c].layer) /\ Exit(c, "acked")
        BY <1>10, <2>1, <2>2, SyncTypes, ExitTypes DEF Sync
    <2>3. CASE Goto(c, "restore") /\ UNCHANGED <<diskVars, lock, outcome>>
        BY <1>10, <2>3 DEF Sync, Goto, DisksOK, ClientsOK, Running, Committing
    <2> QED BY <1>10, <2>2, <2>3 DEF Sync
<1>11. ASSUME NEW c \in Client, Restore(c) PROVE TypeOK'
    <2>1. run[c].layer \in Layer /\ run[c].before \in Registry
        BY DEF ClientsOK, Running
    <2>2. CASE Put(run[c].layer, run[c].before) /\ Goto(c, "resync")
        <3>1. DisksOK'
            BY <2>1, <2>2, PutTypes
        <3>2. ClientsOK'
            BY <1>11, <2>2 DEF Restore, Goto, ClientsOK, Running, Committing
        <3> QED BY <1>11, <3>1, <3>2 DEF Restore
    <2>3. CASE Goto(c, "unrestored") /\ UNCHANGED diskVars
        BY <1>11, <2>3 DEF Restore, Goto, DisksOK, ClientsOK, Running, Committing
    <2> QED BY <1>11, <2>2, <2>3 DEF Restore
<1>12. ASSUME NEW c \in Client, Resync(c) PROVE TypeOK'
    <2>1. run[c].layer \in Layer /\ run[c].before \in Registry
        BY DEF ClientsOK, Running
    <2>2. CASE /\ SyncDirectory(run[c].layer)
               /\ Exit(c, IF run[c].at = "resync" THEN "refused" ELSE "unsure")
        BY <1>12, <2>1, <2>2, SyncTypes, ExitTypes DEF Resync
    <2>3. CASE UNCHANGED diskVars /\ Exit(c, "unsure")
        BY <1>12, <2>3, ExitTypes DEF Resync, DisksOK
    <2> QED BY <1>12, <2>2, <2>3 DEF Resync
<1>13. ASSUME NEW c \in Client, Kill(c) PROVE TypeOK'
    BY <1>13, ExitTypes DEF Kill, DisksOK
<1>14. CASE StartMigrate
    BY <1>14 DEF StartMigrate, DisksOK, ClientsOK, Migration, Layer
<1>15. CASE Plan
    BY <1>15 DEF Plan, Copied, DisksOK, ClientsOK, Migration, Layer, Foremost
<1>16. CASE AddChange
    BY <1>16 DEF AddChange, DisksOK, ClientsOK, Migration, Layer, Foremost
<1>17. CASE Planned
    BY <1>17 DEF Planned, DisksOK, ClientsOK, Migration, Layer
<1>18. CASE CheckChange
    BY <1>18 DEF CheckChange, DisksOK, ClientsOK, Migration, Layer
<1>19. CASE WriteChange
    <2>1. Foremost(mig.planned) \in Layer
        BY DEF Foremost, Layer
    <2>2. mig' \in Migration /\ overwrote' \subseteq Layer
        <3>1. mig' \in Migration
            <4>1. /\ mig.planned \ {Foremost(mig.planned)} \subseteq Layer
                  /\ mig.tried \cup {Foremost(mig.planned)} \subseteq Layer
                BY <2>1 DEF Migration
            <4> QED BY <1>19, <4>1 DEF WriteChange, Migration
        <3>2. overwrote' \subseteq Layer
            BY <1>19, <2>1 DEF WriteChange, Overwrites
        <3> QED BY <3>1, <3>2
    <2>3. DisksOK'
        BY <1>19, <2>1, PutTypes DEF WriteChange, DisksOK
    <2> QED BY <1>19, <2>2, <2>3 DEF WriteChange, ClientsOK
<1>20. CASE Rollback
    <2>1. Hindmost(mig.tried) \in Layer /\ mig.before \in [Layer -> Registry]
        BY DEF Hindmost, Layer, Migration
    <2>2. mig' \in Migration /\ overwrote' \subseteq Layer
        BY <1>20, <2>1 DEF Rollback, Migration, Overwrites
    <2>3. DisksOK'
        BY <1>20, <2>1, PutTypes DEF Rollback, DisksOK
    <2> QED BY <1>20, <2>2, <2>3 DEF Rollback, ClientsOK
<1>21. CASE KillMigrate
    BY <1>21, AbsentIsRegistry DEF KillMigrate, NotMigrating, DisksOK, ClientsOK, Migration
<1>22. CASE PowerLoss
    <2>1. DisksOK'
        BY <1>22 DEF PowerLoss, DisksOK
    <2>2. ASSUME NEW c \in Client PROVE run'[c] \in Running
        <3>1. run[c] \in Running /\ run[c].layer \in Layer
            BY DEF ClientsOK, Running
        <3> QED BY <1>22, <3>1, NotRunning DEF PowerLoss
    <2>3. run' \in [Client -> Running]
        BY <1>22, <2>2 DEF PowerLoss
    <2>4. ClientsOK'
        BY <1>22, <2>3 DEF PowerLoss, ClientsOK
    <2>5. mig' \in Migration
        BY <1>22, AbsentIsRegistry DEF PowerLoss, NotMigrating, Migration
    <2>6. powers' \in 0..MaxPower
        <3>1. powers \in 0..MaxPower /\ powers < MaxPower /\ powers' = powers + 1
            BY <1>22 DEF PowerLoss
        <3>2. MaxPower \in Nat
            BY ConstantsAssumption
        <3> QED BY <3>1, <3>2
    <2> QED BY <1>22, <2>1, <2>4, <2>5, <2>6 DEF PowerLoss
<1>23. CASE UNCHANGED vars
    BY <1>23 DEF vars, DisksOK, ClientsOK
<1> QED
    BY <1>1, <1>2, <1>3, <1>4, <1>5, <1>6, <1>7, <1>8, <1>9, <1>10, <1>11, <1>12, <1>13,
       <1>14, <1>15, <1>16, <1>17, <1>18, <1>19, <1>20, <1>21, <1>22, <1>23
    DEF Next, ClientStep, Commit, MigrateStep

\* An exit releases only what the client itself held.
LEMMA ExitLocks ==
    ASSUME TypeOK, CommandsKnown, LockRespected, NEW c \in Client, NEW end, Exit(c, end)
    PROVE  CommandsKnown' /\ LockRespected'
<1> USE DEF TypeOK, ClientsOK, Running, CommandsKnown, LockRespected, Holding, Prepared, Committing
<1>1. \A p \in Client : p # c => run'[p] = run[p] /\ outcome'[p] = outcome[p]
    BY DEF Exit
<1>2. run'[c].at = "done" /\ run'[c].reg = Absent /\ run'[c].before = Absent
    BY DEF Exit, NotRun
<1>3. \A l \in Layer : lock[l] # c => lock'[l] = lock[l]
    BY DEF Exit
<1> QED BY <1>1, <1>2, <1>3

\* Only a client without a lock waits, exits or takes one: what the others hold stays.
LEMMA LockStep ==
    TypeOK /\ CommandsKnown /\ LockRespected /\ [Next]_vars => CommandsKnown' /\ LockRespected'
<1> SUFFICES ASSUME TypeOK, CommandsKnown, LockRespected, [Next]_vars
             PROVE  CommandsKnown' /\ LockRespected'
    OBVIOUS
<1>0. /\ run \in [Client -> Running]
      /\ outcome \in [Client -> {"none", "acked", "refused", "unsure"}]
      /\ lock \in [Layer -> Client \cup {NoOne}]
      /\ \A c \in Client : run[c].layer \in Layer
    BY DEF TypeOK, ClientsOK, Running
<1> USE <1>0 DEF CommandsKnown, LockRespected, Holding, Prepared, Committing, Others, Commanders
<1>1. ASSUME NEW c \in Client, NEW command \in Commands, Start(c, command)
      PROVE  CommandsKnown' /\ LockRespected'
    <2>1. CASE Exit(c, "refused")
        BY <2>1, ExitLocks
    <2>2. CASE ~Exit(c, "refused")
        <3>1. \A p \in Client : p # c => run'[p] = run[p]
            BY <1>1, <2>2 DEF Start
        <3>2. /\ run'[c].at = "wait" /\ run'[c].cmd = command
              /\ run'[c].reg = Absent /\ run'[c].before = Absent
            <4> DEFINE new == [NotRun EXCEPT !.at = "wait", !.cmd = command,
                                             !.layer = command.layer]
            <4>1. run'[c] = new
                BY <1>1, <2>2 DEF Start
            <4>2. new.at = "wait" /\ new.cmd = command
                BY DEF NotRun
            <4>3. new.reg = Absent /\ new.before = Absent
                BY DEF NotRun
            <4> QED BY <4>1, <4>2, <4>3
        <3>3. outcome[c] = "none" /\ UNCHANGED <<lock, outcome>>
            BY <1>1, <2>2 DEF Start
        <3> QED BY <3>1, <3>2, <3>3
    <2> QED BY <2>1, <2>2
<1>2. ASSUME NEW c \in Client, Acquire(c) PROVE CommandsKnown' /\ LockRespected'
    <2>1. NoOne \notin Client
        BY ConstantsAssumption
    <2>2. \A p \in Client : p # c => run'[p] = run[p]
        BY <1>2 DEF Acquire, Free, Goto
    <2>3. /\ run'[c].at = "read" /\ run'[c].layer = run[c].layer /\ run'[c].cmd = run[c].cmd
          /\ lock'[run[c].layer] = c
        BY <1>2 DEF Acquire, Free, Goto, Running
    <2> QED BY <1>2, <2>1, <2>2, <2>3 DEF Acquire, Free
<1>3. ASSUME NEW c \in Client, Read(c) PROVE CommandsKnown' /\ LockRespected'
    BY <1>3 DEF Read, Goto, Exit, NotRun, Running
<1>4. ASSUME NEW c \in Client, ReadManifest(c) PROVE CommandsKnown' /\ LockRespected'
    BY <1>4 DEF ReadManifest, Goto, Exit, NotRun, Running
<1>5. ASSUME NEW c \in Client, Answer(c) PROVE CommandsKnown' /\ LockRespected'
    BY <1>5 DEF Answer, Goto, Exit, NotRun, Running
<1>6. ASSUME NEW c \in Client, Refuse(c) PROVE CommandsKnown' /\ LockRespected'
    BY <1>6, ExitLocks DEF Refuse
<1>7. ASSUME NEW c \in Client, ReadBefore(c) PROVE CommandsKnown' /\ LockRespected'
    BY <1>7 DEF ReadBefore, Goto, Exit, NotRun, Running
<1>8. ASSUME NEW c \in Client, Compare(c) PROVE CommandsKnown' /\ LockRespected'
    BY <1>8 DEF Compare, Goto, Exit, NotRun, Running
<1>9. ASSUME NEW c \in Client, Rename(c) PROVE CommandsKnown' /\ LockRespected'
    BY <1>9 DEF Rename, Goto, Exit, NotRun, Running
<1>10. ASSUME NEW c \in Client, Sync(c) PROVE CommandsKnown' /\ LockRespected'
    <2>1. CASE Exit(c, "acked")
        BY <2>1, ExitLocks
    <2>2. CASE Goto(c, "restore") /\ UNCHANGED <<lock, outcome>>
        BY <1>10, <2>2 DEF Sync, Goto, Running
    <2> QED BY <1>10, <2>1, <2>2 DEF Sync
<1>11. ASSUME NEW c \in Client, Restore(c) PROVE CommandsKnown' /\ LockRespected'
    BY <1>11 DEF Restore, Goto, Exit, NotRun, Running
<1>12. ASSUME NEW c \in Client, Resync(c) PROVE CommandsKnown' /\ LockRespected'
    BY <1>12, ExitLocks DEF Resync
<1>13. ASSUME NEW c \in Client, Kill(c) PROVE CommandsKnown' /\ LockRespected'
    BY <1>13, ExitLocks DEF Kill
<1>14. CASE MigrateStep
    BY <1>14 DEF MigrateStep, StartMigrate, Plan, AddChange, Planned, CheckChange,
               WriteChange, Rollback, KillMigrate
<1>15. CASE PowerLoss
    BY <1>15 DEF PowerLoss, NotRun, Running
<1>16. CASE UNCHANGED vars
    BY <1>16 DEF vars
<1> QED
    BY <1>1, <1>2, <1>3, <1>4, <1>5, <1>6, <1>7, <1>8, <1>9, <1>10, <1>11, <1>12, <1>13,
       <1>14, <1>15, <1>16
    DEF Next, ClientStep, Commit

(***************************************************************************)
(* The lineage, by what a step does to the files and to what was read of   *)
(* them.                                                                   *)
(***************************************************************************)
FilesStay == UNCHANGED diskVars /\ UNCHANGED <<overwrote, mig>>
OthersStay(c) == \A p \in Client \ {c} : run'[p] = run[p] /\ outcome'[p] = outcome[p]

\* A command starts, or goes on without touching a file.
Begins(c) ==
    /\ FilesStay /\ OthersStay(c)
    /\ run[c].at = "idle" /\ run'[c].at = "wait" /\ outcome'[c] = outcome[c]
    /\ run'[c].reg = Absent /\ run'[c].before = Absent

Thinks(c) ==
    LET x == run[c] y == run'[c] IN
    /\ FilesStay /\ OthersStay(c) /\ outcome'[c] = outcome[c]
    /\ x.at \in Prepared \cup Committing /\ y.layer = x.layer
    /\ (y.at \in Prepared /\ x.at \in Prepared) \/ y.at \in {"restore", "unrestored"}
    /\ y.at = "restore" => x.at = "sync" /\ y.before = x.before
    /\ \/ y.reg.by = x.reg.by /\ (y.at \in Deciding => x.at \in Deciding)
       \/ x.at = "read" /\ y.reg.by = View(x.layer).by
    /\ \/ y.before = x.before /\ (y.at \in Replacing => x.at \in Replacing)
       \/ x.at = "write" /\ y.before = file[x.layer]

\* It exits: as refused only if it has replaced nothing.
Exits(c) ==
    /\ FilesStay /\ OthersStay(c)
    /\ run'[c].at = "done" /\ run'[c].layer = run[c].layer
    /\ run'[c].reg = Absent /\ run'[c].before = Absent
    /\ \/ outcome'[c] = "unsure"
       \/ outcome'[c] = "refused" /\ run[c].at \in {"idle"} \cup Prepared

\* It synchronises the directory, and exits.
Settles(c) ==
    /\ OthersStay(c) /\ SyncDirectory(run[c].layer) /\ UNCHANGED <<overwrote, mig>>
    /\ run'[c].at = "done" /\ run'[c].layer = run[c].layer
    /\ run'[c].reg = Absent /\ run'[c].before = Absent
    /\ \/ outcome'[c] = "unsure" /\ run[c].at = "unrestored"
       \/ outcome'[c] = "refused" /\ run[c].at = "resync"
       \/ outcome'[c] = "acked" /\ run[c].at = "sync"

\* It replaces the file by its own, or by the one that it replaced.
Replaces(c, r, step) ==
    /\ OthersStay(c) /\ Put(run[c].layer, r) /\ UNCHANGED <<overwrote, mig, outcome>>
    /\ run'[c].at = step /\ run'[c].layer = run[c].layer
    /\ run'[c].reg = run[c].reg /\ run'[c].before = run[c].before

\* migrate reads, or replaces a file; unflagged, only one without a lineage.
MigrateReads ==
    /\ UNCHANGED <<diskVars, overwrote, run, outcome>>
    /\ \A l \in Layer : mig'.before[l] \in {mig.before[l], file[l], Absent}

MigrateReplaces(l, r) ==
    /\ Put(l, r) /\ UNCHANGED <<run, outcome>> /\ mig'.before = mig.before
    /\ r \in {legacy[l], mig.before[l]}
    /\ \/ overwrote' = overwrote \cup {l}
       \/ /\ overwrote' = overwrote
          /\ file[l] = r \/ (file[l].by = {} /\ r.by = {})

\* A registry read through the deprecated home has no lineage, like the absent one.
LEMMA ViewRooted ==
    ASSUME TypeOK, LineagePresent, NEW l \in Layer
    PROVE  \A c : c \in file[l].by <=> c \in View(l).by
BY DEF TypeOK, DisksOK, LineagePresent, Rooted, View

\* What the lemmas below use of the invariant.
LEMMA Parts ==
    ASSUME IInv
    PROVE  /\ Typed /\ LineagePresent /\ NoTraceYet /\ OwnFile /\ AckedEverywhere
           /\ RefusedNowhere /\ LockRespected /\ \A k \in Layer : file[k] \in may[k]
           /\ \A p \in Client : run[p].layer \in Layer
           /\ Absent.by = {} /\ Absent.present = FALSE
BY DEF IInv, Lineage, Typed, TypeOK, DisksOK, ClientsOK, Running, Absent

\* What starts has read nothing, and has no outcome yet.
LEMMA BeginsLineage ==
    ASSUME IInv, NEW c \in Client, Begins(c)
    PROVE  Lineage'
<1> USE DEF Prepared, Committing, Deciding, Replacing, Holding
<1>1. LineagePresent'
    BY Parts DEF LineagePresent, Begins, FilesStay, OthersStay, diskVars, Rooted
<1>2. NoTraceYet'
    BY Parts DEF NoTraceYet, Begins, FilesStay, OthersStay, diskVars, Rooted
<1>3. OwnFile'
    BY Parts DEF OwnFile, Begins, FilesStay, OthersStay, diskVars, Rooted
<1>4. AckedEverywhere'
    BY Parts
    DEF LockRespected, AckedEverywhere, Begins, FilesStay, OthersStay, diskVars, Rooted
<1>5. RefusedNowhere'
    BY Parts
    DEF LockRespected, RefusedNowhere, Begins, FilesStay, OthersStay, diskVars, Rooted
<1> QED BY <1>1, <1>2, <1>3, <1>4, <1>5 DEF Lineage

\* What a command reads comes from its layer, whose acknowledged commands are in the
\* file and whose refused ones are not.
LEMMA ThinksLineage ==
    ASSUME IInv, NEW c \in Client, Thinks(c)
    PROVE  Lineage'
<1> USE DEF Prepared, Committing, Deciding, Replacing, Holding
<1>view. \A p : p \in file[run[c].layer].by <=> p \in View(run[c].layer).by
    BY Parts, ViewRooted DEF Typed
<1>1. LineagePresent'
    BY Parts, <1>view
    DEF LineagePresent, Thinks, FilesStay, OthersStay, diskVars, Rooted, LockRespected
<1>2. NoTraceYet'
    BY Parts, <1>view
    DEF NoTraceYet, Thinks, FilesStay, OthersStay, diskVars, Rooted, LockRespected
<1>3. OwnFile'
    BY Parts, <1>view
    DEF OwnFile, Thinks, FilesStay, OthersStay, diskVars, Rooted, LockRespected
<1>4. AckedEverywhere'
    BY Parts, <1>view
    DEF AckedEverywhere, Thinks, FilesStay, OthersStay, diskVars, Rooted, LockRespected
<1>5. RefusedNowhere'
    BY Parts, <1>view
    DEF RefusedNowhere, Thinks, FilesStay, OthersStay, diskVars, Rooted, LockRespected
<1> QED BY <1>1, <1>2, <1>3, <1>4, <1>5 DEF Lineage

\* What exits before replacing anything leaves no trace of itself.
LEMMA ExitsLineage ==
    ASSUME IInv, NEW c \in Client, Exits(c)
    PROVE  Lineage'
<1> USE DEF Prepared, Committing, Deciding, Replacing, Holding
<1>1. LineagePresent'
    BY Parts
    DEF LineagePresent, Exits, FilesStay, OthersStay, diskVars, Rooted, LockRespected
<1>2. NoTraceYet'
    BY Parts
    DEF NoTraceYet, Exits, FilesStay, OthersStay, diskVars, Rooted, LockRespected
<1>3. OwnFile'
    BY Parts
    DEF OwnFile, Exits, FilesStay, OthersStay, diskVars, Rooted, LockRespected
<1>4. AckedEverywhere'
    BY Parts
    DEF AckedEverywhere, Exits, FilesStay, OthersStay, diskVars, Rooted, LockRespected
<1>5. RefusedNowhere'
    <2> SUFFICES ASSUME NEW d \in Client, outcome'[d] = "refused",
                        run'[d].layer \notin overwrote'
                 PROVE  /\ \A r \in may'[run'[d].layer] : d \notin r.by
                        /\ \A p \in Client : run'[p].layer = run'[d].layer =>
                             d \notin run'[p].reg.by /\ d \notin run'[p].before.by
        BY DEF RefusedNowhere
    <2>1. CASE d = c
        BY Parts, <2>1 DEF NoTraceYet, Exits, FilesStay, OthersStay, diskVars
    <2>2. CASE d # c
        BY Parts, <2>2 DEF RefusedNowhere, Exits, FilesStay, OthersStay, diskVars
    <2> QED BY <2>1, <2>2
<1> QED BY <1>1, <1>2, <1>3, <1>4, <1>5 DEF Lineage

\* Only the file as it is remains, and nobody else has read it under the lock.
LEMMA SettlesLineage ==
    ASSUME IInv, NEW c \in Client, Settles(c)
    PROVE  Lineage'
<1> USE DEF Prepared, Committing, Deciding, Replacing, Holding
<1>lock. \A p \in Client : p # c /\ run[p].layer = run[c].layer => run[p].at \notin Holding
    BY Parts DEF LockRespected, Holding, Committing, Prepared, Settles
<1>1. LineagePresent'
    BY Parts
    DEF LineagePresent, Settles, SyncDirectory, OthersStay, Rooted, LockRespected
<1>2. NoTraceYet'
    BY Parts
    DEF NoTraceYet, Settles, SyncDirectory, OthersStay, Rooted, LockRespected
<1>3. OwnFile'
    BY Parts
    DEF OwnFile, Settles, SyncDirectory, OthersStay, Rooted, LockRespected
<1>4. AckedEverywhere'
    <2> SUFFICES ASSUME NEW d \in Client, outcome'[d] = "acked",
                        run'[d].layer \notin overwrote'
                 PROVE  /\ \A r \in may'[run'[d].layer] : d \in r.by
                        /\ \A p \in Client : run'[p].layer = run'[d].layer =>
                             /\ run'[p].at \in Deciding => d \in run'[p].reg.by
                             /\ run'[p].at \in Replacing => d \in run'[p].before.by
        BY DEF AckedEverywhere
    <2>1. CASE d = c
        <3>1. may'[run'[d].layer] = {file[run[c].layer]} /\ c \in file[run[c].layer].by
            BY Parts, <2>1 DEF OwnFile, Settles, SyncDirectory, Typed, TypeOK, DisksOK
        <3>2. ASSUME NEW p \in Client, run'[p].layer = run'[d].layer
              PROVE  /\ run'[p].reg = Absent /\ run'[p].before = Absent
                     /\ run'[p].at \notin Deciding \cup Replacing
            <4>1. CASE p = c
                BY <4>1 DEF Settles, Deciding, Replacing
            <4>2. CASE p # c
                BY Parts, <1>lock, <2>1, <3>2, <4>2
                DEF LockRespected, Settles, OthersStay, Holding, Prepared, Committing,
                    Deciding, Replacing
            <4> QED BY <4>1, <4>2
        <3> QED BY Parts, <2>1, <3>1, <3>2
    <2>2. CASE d # c
        BY Parts, <2>2
        DEF AckedEverywhere, Settles, SyncDirectory, OthersStay, Deciding, Replacing
    <2> QED BY <2>1, <2>2
<1>5. RefusedNowhere'
    <2> SUFFICES ASSUME NEW d \in Client, outcome'[d] = "refused",
                        run'[d].layer \notin overwrote'
                 PROVE  /\ \A r \in may'[run'[d].layer] : d \notin r.by
                        /\ \A p \in Client : run'[p].layer = run'[d].layer =>
                             d \notin run'[p].reg.by /\ d \notin run'[p].before.by
        BY DEF RefusedNowhere
    <2>1. CASE d = c
        <3>1. may'[run'[d].layer] = {file[run[c].layer]} /\ c \notin file[run[c].layer].by
            BY Parts, <2>1 DEF OwnFile, Settles, SyncDirectory, Typed, TypeOK, DisksOK
        <3>2. ASSUME NEW p \in Client, run'[p].layer = run'[d].layer
              PROVE  /\ run'[p].reg = Absent /\ run'[p].before = Absent
                     /\ run'[p].at \notin Deciding \cup Replacing
            <4>1. CASE p = c
                BY <4>1 DEF Settles, Deciding, Replacing
            <4>2. CASE p # c
                BY Parts, <1>lock, <2>1, <3>2, <4>2
                DEF LockRespected, Settles, OthersStay, Holding, Prepared, Committing,
                    Deciding, Replacing
            <4> QED BY <4>1, <4>2
        <3> QED BY Parts, <2>1, <3>1, <3>2
    <2>2. CASE d # c
        BY Parts, <2>2
        DEF RefusedNowhere, Settles, SyncDirectory, OthersStay, Deciding, Replacing
    <2> QED BY <2>1, <2>2
<1> QED BY <1>1, <1>2, <1>3, <1>4, <1>5 DEF Lineage

\* The new file descends from all that the command has read, and from the command.
LEMMA RenamesLineage ==
    ASSUME IInv, NEW c \in Client, run[c].at = "rename", NEW r, r.present, r.by =
           run[c].reg.by \cup {c}, Replaces(c, r, "sync")
    PROVE  Lineage'
<1> USE DEF Prepared, Committing, Deciding, Replacing, Holding
<1>lock. \A p \in Client : p # c /\ run[p].layer = run[c].layer => run[p].at \notin Holding
    BY Parts DEF LockRespected, Holding, Committing, Prepared
<1>1. LineagePresent'
    BY Parts DEF LineagePresent, Replaces, Put, OthersStay, Rooted, LockRespected
<1>2. NoTraceYet'
    BY Parts DEF NoTraceYet, Replaces, Put, OthersStay, Rooted, LockRespected
<1>3. OwnFile'
    <2>1. ASSUME NEW d \in Client, d # c, run[d].layer = run[c].layer
          PROVE  run'[d].at \notin {"sync", "restore", "resync"}
        BY <1>lock, <2>1 DEF Replaces, OthersStay, Holding, Prepared, Committing
    <2>2. ASSUME NEW d \in Client, d # c, run[d].layer # run[c].layer
          PROVE  file'[run[d].layer] = file[run[d].layer]
        BY Parts, <2>2 DEF Replaces, Put, Typed, TypeOK, DisksOK
    <2>3. run[c].layer \notin overwrote =>
            /\ run'[c].at = "sync" => c \in file'[run[c].layer].by
            /\ run'[c].at = "resync" => c \notin file'[run[c].layer].by
        BY Parts DEF OwnFile, Replaces, Put, Typed, TypeOK, DisksOK
    <2>4. run'[c].at = "sync" => c \notin run[c].before.by
        BY Parts DEF NoTraceYet, Replaces, Prepared
    <2> QED
        BY Parts, <2>1, <2>2, <2>3, <2>4 DEF OwnFile, Replaces, OthersStay
<1>4. AckedEverywhere'
    BY Parts DEF AckedEverywhere, Replaces, Put, OthersStay, Rooted, LockRespected
<1>5. RefusedNowhere'
    BY Parts DEF RefusedNowhere, Replaces, Put, OthersStay, Rooted, LockRespected
<1> QED BY <1>1, <1>2, <1>3, <1>4, <1>5 DEF Lineage

\* The file that goes back is the one read under the lock.
LEMMA RestoresLineage ==
    ASSUME IInv, NEW c \in Client, run[c].at = "restore", Replaces(c,
           run[c].before, "resync")
    PROVE  Lineage'
<1> USE DEF Prepared, Committing, Deciding, Replacing, Holding
<1>lock. \A p \in Client : p # c /\ run[p].layer = run[c].layer => run[p].at \notin Holding
    BY Parts DEF LockRespected, Holding, Committing, Prepared
<1>1. LineagePresent'
    BY Parts DEF LineagePresent, Replaces, Put, OthersStay, Rooted, LockRespected
<1>2. NoTraceYet'
    BY Parts DEF NoTraceYet, Replaces, Put, OthersStay, Rooted, LockRespected
<1>3. OwnFile'
    <2>1. ASSUME NEW d \in Client, d # c, run[d].layer = run[c].layer
          PROVE  run'[d].at \notin {"sync", "restore", "resync"}
        BY <1>lock, <2>1 DEF Replaces, OthersStay, Holding, Prepared, Committing
    <2>2. ASSUME NEW d \in Client, d # c, run[d].layer # run[c].layer
          PROVE  file'[run[d].layer] = file[run[d].layer]
        BY Parts, <2>2 DEF Replaces, Put, Typed, TypeOK, DisksOK
    <2>3. run[c].layer \notin overwrote =>
            /\ run'[c].at = "sync" => c \in file'[run[c].layer].by
            /\ run'[c].at = "resync" => c \notin file'[run[c].layer].by
        BY Parts DEF OwnFile, Replaces, Put, Typed, TypeOK, DisksOK
    <2>4. run'[c].at = "sync" => c \notin run[c].before.by
        BY Parts DEF NoTraceYet, Replaces, Prepared
    <2> QED
        BY Parts, <2>1, <2>2, <2>3, <2>4 DEF OwnFile, Replaces, OthersStay
<1>4. AckedEverywhere'
    BY Parts DEF AckedEverywhere, Replaces, Put, OthersStay, Rooted, LockRespected
<1>5. RefusedNowhere'
    BY Parts DEF RefusedNowhere, Replaces, Put, OthersStay, Rooted, LockRespected
<1> QED BY <1>1, <1>2, <1>3, <1>4, <1>5 DEF Lineage

\* A snapshot is one of the files.
LEMMA MigrateReadsLineage ==
    ASSUME IInv, MigrateReads
    PROVE  Lineage'
<1> USE DEF Prepared, Committing, Deciding, Replacing, Holding
<1>1. LineagePresent'
    BY Parts DEF LineagePresent, MigrateReads, diskVars, Rooted, LockRespected
<1>2. NoTraceYet'
    BY Parts DEF NoTraceYet, MigrateReads, diskVars, Rooted, LockRespected
<1>3. OwnFile'
    BY Parts DEF OwnFile, MigrateReads, diskVars, Rooted, LockRespected
<1>4. AckedEverywhere'
    BY Parts DEF AckedEverywhere, MigrateReads, diskVars, Rooted, LockRespected
<1>5. RefusedNowhere'
    BY Parts DEF RefusedNowhere, MigrateReads, diskVars, Rooted, LockRespected
<1> QED BY <1>1, <1>2, <1>3, <1>4, <1>5 DEF Lineage

\* An unflagged replacement loses no acknowledged command and brings back no refused one:
\* the file that goes has no lineage, or is the one that comes.
LEMMA MigrateReplacesLineage ==
    ASSUME IInv, NEW l \in Layer, NEW r, MigrateReplaces(l, r)
    PROVE  Lineage'
<1> USE DEF Prepared, Committing, Deciding, Replacing, Holding
<1>1. LineagePresent'
    BY Parts DEF LineagePresent, MigrateReplaces, Put, Rooted, LockRespected
<1>2. NoTraceYet'
    BY Parts
    DEF LineagePresent, NoTraceYet, MigrateReplaces, Put, Rooted, LockRespected
<1>3. OwnFile'
    BY Parts DEF OwnFile, MigrateReplaces, Put, Rooted, LockRespected
<1>4. AckedEverywhere'
    BY Parts DEF AckedEverywhere, MigrateReplaces, Put, Rooted, LockRespected
<1>5. RefusedNowhere'
    BY Parts DEF RefusedNowhere, MigrateReplaces, Put, Rooted, LockRespected
<1> QED BY <1>1, <1>2, <1>3, <1>4, <1>5 DEF Lineage

\* What remains is one of the files that might.
LEMMA PowerLossLineage ==
    ASSUME IInv, PowerLoss
    PROVE  Lineage'
<1> USE DEF Prepared, Committing, Deciding, Replacing, Holding
<1>1. LineagePresent'
    BY Parts
    DEF LineagePresent, PowerLoss, NotMigrating, NotRun, Rooted, LockRespected
<1>2. NoTraceYet'
    BY Parts
    DEF NoTraceYet, PowerLoss, NotMigrating, NotRun, Rooted, LockRespected
<1>3. OwnFile'
    BY Parts DEF OwnFile, PowerLoss, NotMigrating, NotRun, Rooted, LockRespected
<1>4. AckedEverywhere'
    BY Parts
    DEF AckedEverywhere, PowerLoss, NotMigrating, NotRun, Rooted, LockRespected
<1>5. RefusedNowhere'
    BY Parts
    DEF RefusedNowhere, PowerLoss, NotMigrating, NotRun, Rooted, LockRespected
<1> QED BY <1>1, <1>2, <1>3, <1>4, <1>5 DEF Lineage

\* Exit, as the lemmas see it.
LEMMA ExitEffect ==
    ASSUME TypeOK, NEW c \in Client, NEW end, Exit(c, end)
    PROVE  /\ OthersStay(c) /\ outcome'[c] = end
           /\ run'[c].at = "done" /\ run'[c].layer = run[c].layer
           /\ run'[c].reg = Absent /\ run'[c].before = Absent
<1>1. run'[c] = [NotRun EXCEPT !.at = "done", !.layer = run[c].layer]
    BY DEF Exit, TypeOK, ClientsOK
<1>2. OthersStay(c) /\ outcome'[c] = end
    BY DEF Exit, OthersStay, TypeOK, ClientsOK
<1> QED BY <1>1, <1>2 DEF NotRun

LEMMA GotoEffect ==
    ASSUME TypeOK, NEW c \in Client, NEW step, Goto(c, step), UNCHANGED outcome
    PROVE  /\ OthersStay(c) /\ run'[c].at = step
           /\ run'[c].layer = run[c].layer /\ run'[c].reg = run[c].reg
           /\ run'[c].before = run[c].before
BY DEF Goto, OthersStay, TypeOK, ClientsOK, Running

\* Every step is one of these.
LEMMA StepLineage == IInv /\ [Next]_vars => Lineage'
<1> SUFFICES ASSUME IInv, [Next]_vars PROVE Lineage'
    OBVIOUS
<1>0. /\ TypeOK /\ CommandsKnown /\ run \in [Client -> Running]
      /\ outcome \in [Client -> {"none", "acked", "refused", "unsure"}]
      /\ \A c \in Client : run[c].layer \in Layer /\ run[c] \in Running
    BY DEF IInv, Typed, TypeOK, ClientsOK, Running
<1> USE DEF Others, Commanders
<1>1. ASSUME NEW c \in Client, NEW command \in Commands, Start(c, command) PROVE Lineage'
    <2>1. CASE Exit(c, "refused")
        <3>1. Exits(c)
            BY <1>1, <1>0, <2>1, ExitEffect DEF Start, Exits, FilesStay
        <3> QED BY <3>1, ExitsLineage
    <2>2. CASE ~Exit(c, "refused")
        <3> DEFINE new == [NotRun EXCEPT !.at = "wait", !.cmd = command,
                                         !.layer = command.layer]
        <3>1. run' = [run EXCEPT ![c] = new]
            BY <1>1, <2>2 DEF Start
        <3>2. new.at = "wait" /\ new.reg = Absent /\ new.before = Absent
            BY DEF NotRun
        <3> HIDE DEF new
        <3>3. Begins(c)
            BY <1>1, <1>0, <2>2, <3>1, <3>2 DEF Start, Begins, FilesStay, OthersStay
        <3> QED BY <3>3, BeginsLineage
    <2> QED BY <2>1, <2>2
<1>2. ASSUME NEW c \in Client, Acquire(c) PROVE Lineage'
    <2>1. Thinks(c)
        BY <1>2, <1>0, GotoEffect
        DEF Acquire, Thinks, FilesStay, Prepared, Committing, Deciding, Replacing
    <2> QED BY <2>1, ThinksLineage
<1>3. ASSUME NEW c \in Client, Compare(c) PROVE Lineage'
    <2>1. Thinks(c)
        BY <1>3, <1>0, GotoEffect
        DEF Compare, Thinks, FilesStay, Prepared, Committing, Deciding, Replacing
    <2> QED BY <2>1, ThinksLineage
<1>4. ASSUME NEW c \in Client, Read(c) PROVE Lineage'
    <2> DEFINE r == View(run[c].layer)
    <2>1. PICK reg : reg.by = r.by /\ \E step \in {"manifest", "write"} :
                       run' = [run EXCEPT ![c].at = step, ![c].reg = reg]
        <3>1. CASE run[c].cmd.op = "register"
            BY <1>4, <3>1 DEF Read
        <3>2. CASE run[c].cmd.op # "register"
            <4>1. r \in Registry
                BY <1>0, ViewIsRegistry
            <4>2. Edited(c, r).by = r.by
                BY <4>1 DEF Edited, Registry
            <4> QED BY <1>4, <3>2, <4>2 DEF Read
        <3> QED BY <3>1, <3>2
    <2>2. OthersStay(c)
        <3>1. outcome' = outcome
            BY <1>4 DEF Read
        <3>2. PICK step \in {"manifest", "write"} :
                 run' = [run EXCEPT ![c].at = step, ![c].reg = reg]
            BY <2>1
        <3> QED BY <1>0, <3>1, <3>2 DEF OthersStay
    <2>3. /\ run'[c].at \in {"manifest", "write"} /\ run'[c].layer = run[c].layer
          /\ run'[c].reg.by = r.by /\ run'[c].before = run[c].before
        BY <1>0, <2>1 DEF Running
    <2>4. Thinks(c)
        BY <1>4, <2>2, <2>3
        DEF Read, Thinks, FilesStay, Prepared, Committing, Deciding, Replacing
    <2> QED BY <2>4, ThinksLineage
<1>5. ASSUME NEW c \in Client, ReadManifest(c) \/ Answer(c) PROVE Lineage'
    <2>1. run[c].at \in {"manifest", "prompt"}
        BY <1>5 DEF ReadManifest, Answer
    <2>2. \A selects : Registered(c, selects).by = run[c].reg.by
        BY <1>0, <2>1, RegisteringIsRegistry DEF Holding, Prepared
    <2>3. /\ OthersStay(c) /\ run'[c].at \in {"prompt", "write"}
          /\ run'[c].layer = run[c].layer
          /\ run'[c].before = run[c].before
        <3>1. outcome' = outcome
            BY <1>5 DEF ReadManifest, Answer
        <3>2. CASE run' = [run EXCEPT ![c].at = "prompt"]
            BY <1>0, <3>1, <3>2 DEF OthersStay, Running
        <3>3. ASSUME NEW reg, run' = [run EXCEPT ![c].at = "write", ![c].reg = reg]
              PROVE  /\ OthersStay(c) /\ run'[c].at \in {"prompt", "write"}
                     /\ run'[c].layer = run[c].layer /\ run'[c].before = run[c].before
            BY <1>0, <3>1, <3>3 DEF OthersStay, Running
        <3>4. ASSUME NEW reg, NEW yes,
                     run' = [run EXCEPT ![c].at = "write", ![c].yes = yes, ![c].reg = reg]
              PROVE  /\ OthersStay(c) /\ run'[c].at \in {"prompt", "write"}
                     /\ run'[c].layer = run[c].layer /\ run'[c].before = run[c].before
            BY <1>0, <3>1, <3>4 DEF OthersStay, Running
        <3> QED BY <1>5, <3>2, <3>3, <3>4 DEF ReadManifest, Answer
    <2>4. run'[c].reg.by = run[c].reg.by
        <3>1. CASE run' = [run EXCEPT ![c].at = "prompt"]
            BY <1>0, <3>1 DEF Running
        <3>2. CASE \E selects : run' = [run EXCEPT ![c].at = "write", ![c].reg = Registered(c, selects)]
            BY <1>0, <2>2, <3>2 DEF Running
        <3>3. CASE \E yes : run' = [run EXCEPT ![c].at = "write", ![c].yes = yes,
                                               ![c].reg = Registered(c, yes)]
            BY <1>0, <2>2, <3>3 DEF Running
        <3> QED BY <1>5, <3>1, <3>2, <3>3 DEF ReadManifest, Answer
    <2>5. Thinks(c)
        BY <1>5, <2>1, <2>3, <2>4
        DEF ReadManifest, Answer, Thinks, FilesStay, Prepared, Committing, Deciding,
           Replacing
    <2> QED BY <2>5, ThinksLineage
<1>6. ASSUME NEW c \in Client, ReadBefore(c) PROVE Lineage'
    <2>1. /\ OthersStay(c) /\ run'[c].at = "compare" /\ run'[c].layer = run[c].layer
          /\ run'[c].reg = run[c].reg /\ run'[c].before = file[run[c].layer]
        BY <1>6, <1>0 DEF ReadBefore, OthersStay, Running
    <2>2. Thinks(c)
        BY <1>6, <2>1
        DEF ReadBefore, Thinks, FilesStay, Prepared, Committing, Deciding, Replacing
    <2> QED BY <2>2, ThinksLineage
<1>7. ASSUME NEW c \in Client, Refuse(c) \/ Kill(c) PROVE Lineage'
    <2>1. Exits(c)
        BY <1>7, <1>0, ExitEffect DEF Refuse, Kill, Exits, FilesStay, Prepared
    <2> QED BY <2>1, ExitsLineage
<1>8. ASSUME NEW c \in Client, Rename(c) PROVE Lineage'
    <2>1. /\ Renamed(run[c].reg, c).present
          /\ Renamed(run[c].reg, c).by = run[c].reg.by \cup {c}
        BY <1>0, RenamedIsRegistry DEF Running
    <2>2. Replaces(c, Renamed(run[c].reg, c), "sync")
        BY <1>8, <1>0, GotoEffect DEF Rename, Replaces, Renamed
    <2> QED BY <1>8, <2>1, <2>2, RenamesLineage DEF Rename
<1>9. ASSUME NEW c \in Client, Sync(c) PROVE Lineage'
    <2>1. CASE SyncDirectory(run[c].layer) /\ Exit(c, "acked")
        <3>1. Settles(c)
            BY <1>9, <1>0, <2>1, ExitEffect DEF Sync, Settles
        <3> QED BY <3>1, SettlesLineage
    <2>2. CASE Goto(c, "restore") /\ UNCHANGED <<diskVars, lock, outcome>>
        <3>1. Thinks(c)
            BY <1>9, <1>0, <2>2, GotoEffect
            DEF Sync, Thinks, FilesStay, Prepared, Committing, Deciding, Replacing
        <3> QED BY <3>1, ThinksLineage
    <2> QED BY <1>9, <2>1, <2>2 DEF Sync
<1>10. ASSUME NEW c \in Client, Restore(c) PROVE Lineage'
    <2>1. CASE Put(run[c].layer, run[c].before) /\ Goto(c, "resync")
        <3>1. Replaces(c, run[c].before, "resync")
            BY <1>10, <1>0, <2>1, GotoEffect DEF Restore, Replaces
        <3> QED BY <1>10, <3>1, RestoresLineage DEF Restore
    <2>2. CASE Goto(c, "unrestored") /\ UNCHANGED diskVars
        <3>1. Thinks(c)
            BY <1>10, <1>0, <2>2, GotoEffect
            DEF Restore, Thinks, FilesStay, Prepared, Committing, Deciding, Replacing
        <3> QED BY <3>1, ThinksLineage
    <2> QED BY <1>10, <2>1, <2>2 DEF Restore
<1>11. ASSUME NEW c \in Client, Resync(c) PROVE Lineage'
    <2>1. CASE /\ SyncDirectory(run[c].layer)
               /\ Exit(c, IF run[c].at = "resync" THEN "refused" ELSE "unsure")
        <3>1. Settles(c)
            BY <1>11, <1>0, <2>1, ExitEffect DEF Resync, Settles
        <3> QED BY <3>1, SettlesLineage
    <2>2. CASE UNCHANGED diskVars /\ Exit(c, "unsure")
        <3>1. Exits(c)
            BY <1>11, <1>0, <2>2, ExitEffect DEF Resync, Exits, FilesStay
        <3> QED BY <3>1, ExitsLineage
    <2> QED BY <1>11, <2>1, <2>2 DEF Resync
<1>12. CASE StartMigrate \/ Plan \/ AddChange \/ Planned \/ CheckChange \/ KillMigrate
    <2>1. MigrateReads
        <3>1. UNCHANGED <<diskVars, overwrote, run, outcome>>
            BY <1>12 DEF StartMigrate, Plan, AddChange, Planned, CheckChange, KillMigrate
        <3>2. CASE StartMigrate \/ Plan \/ Planned \/ CheckChange
            <4>1. mig'.before = mig.before
                BY <1>0, <3>2
                DEF StartMigrate, Plan, Planned, CheckChange, TypeOK, Migration
            <4> QED BY <3>1, <4>1 DEF MigrateReads
        <3>3. CASE AddChange
            <4>1. mig'.before = [mig.before EXCEPT ![Foremost(mig.todo)] = file[Foremost(mig.todo)]]
                BY <1>0, <3>3 DEF AddChange, TypeOK, Migration
            <4>2. mig.before \in [Layer -> Registry]
                BY <1>0 DEF TypeOK, Migration
            <4> QED BY <3>1, <4>1, <4>2 DEF MigrateReads
        <3>4. CASE KillMigrate
            BY <3>1, <3>4 DEF KillMigrate, NotMigrating, MigrateReads
        <3> QED BY <1>12, <3>2, <3>3, <3>4
    <2> QED BY <2>1, MigrateReadsLineage
<1>13. CASE WriteChange
    <2> DEFINE l == Foremost(mig.planned)
    <2>1. l \in Layer
        BY DEF Foremost, Layer
    <2>2. CASE Put(l, legacy[l]) /\ Overwrites(l, {Absent, legacy[l]} \cap {mig.before[l]})
        <3>1. mig'.before = mig.before /\ UNCHANGED <<run, outcome>>
            BY <1>13, <1>0 DEF WriteChange, TypeOK, Migration
        <3>2. Absent.by = {} /\ legacy[l].by = {}
            BY <2>1 DEF IInv, Lineage, LineagePresent, Absent
        <3>3. MigrateReplaces(l, legacy[l])
            BY <2>2, <3>1, <3>2 DEF MigrateReplaces, Overwrites
        <3> QED BY <2>1, <3>3, MigrateReplacesLineage
    <2>3. CASE UNCHANGED <<diskVars, overwrote>>
        <3>1. MigrateReads
            BY <1>13, <1>0, <2>3 DEF WriteChange, MigrateReads, TypeOK, Migration
        <3> QED BY <3>1, MigrateReadsLineage
    <2> QED BY <1>13, <2>2, <2>3 DEF WriteChange
<1>14. CASE Rollback
    <2> DEFINE l == Hindmost(mig.tried)
               was == mig.before[l]
    <2>1. l \in Layer
        BY DEF Hindmost, Layer
    <2>2. mig'.before = mig.before /\ UNCHANGED <<run, outcome>>
        BY <1>14, <1>0 DEF Rollback, TypeOK, Migration
    <2>3. CASE /\ Put(l, was)
               /\ Overwrites(l, IF was.present THEN {was} ELSE {was, legacy[l]})
        <3>1. legacy[l].by = {} /\ (~was.present => was.by = {})
            BY <2>1 DEF IInv, Lineage, LineagePresent, Rooted
        <3>2. MigrateReplaces(l, was)
            <4>0. Put(l, was) /\ was = mig.before[l]
                BY <2>3
            <4> HIDE DEF l, was
            <4>1. CASE overwrote' = overwrote \cup {l}
                BY <2>2, <4>0, <4>1 DEF MigrateReplaces
            <4>2. CASE overwrote' = overwrote /\ file[l] = was
                BY <2>2, <4>0, <4>2 DEF MigrateReplaces
            <4>3. CASE overwrote' = overwrote /\ file[l] = legacy[l] /\ ~was.present
                BY <2>2, <3>1, <4>0, <4>3 DEF MigrateReplaces
            <4> QED BY <2>3, <4>1, <4>2, <4>3 DEF Overwrites
        <3> QED BY <2>1, <3>2, MigrateReplacesLineage
    <2>4. CASE UNCHANGED <<diskVars, overwrote>>
        <3>1. MigrateReads
            BY <2>2, <2>4 DEF MigrateReads
        <3> QED BY <3>1, MigrateReadsLineage
    <2> QED BY <1>14, <2>3, <2>4 DEF Rollback
<1>15. CASE PowerLoss
    BY <1>15, PowerLossLineage
<1>16. CASE UNCHANGED vars
    BY <1>16
    DEF vars, diskVars, IInv, Lineage, LineagePresent, NoTraceYet, OwnFile, AckedEverywhere,
        RefusedNowhere
<1> QED
    BY <1>1, <1>2, <1>3, <1>4, <1>5, <1>6, <1>7, <1>8, <1>9, <1>10, <1>11, <1>12, <1>13,
       <1>14, <1>15, <1>16
    DEF Next, ClientStep, Commit, MigrateStep

(***************************************************************************)
(* The decisions: what a command has made of a registry still fits the one *)
(* that it is going to replace.                                            *)
(***************************************************************************)
SameChoice(r, s) == r.managers = s.managers /\ r.selected = s.selected
Fits(c) ==
    LET now == View(run[c].layer) IN
    run[c].layer \notin overwrote =>
        /\ run[c].at \in {"manifest", "prompt"} => SameChoice(run[c].reg, now)
        /\ run[c].at \in {"write", "compare", "rename"} =>
             \/ now.managers = {} \/ Authorised(c) \/ run[c].reg.selected = now.selected
Decided == \A c \in Client : Fits(c)

\* It fits as long as neither the command nor what its layer shows changes.
LEMMA StillFits ==
    ASSUME NEW c \in Client, Fits(c), run'[c] = run[c], overwrote \subseteq overwrote',
           run[c].layer \notin overwrote' => View(run[c].layer)' = View(run[c].layer)
    PROVE  Fits(c)'
<1>1. CASE run[c].layer \in overwrote'
    BY <1>1 DEF Fits
<1>2. CASE run[c].layer \notin overwrote'
    <2> DEFINE l == run[c].layer
    <2>1. View(l)' = View(l)
        BY <1>2
    <2>2. View(run[c].layer)' = View(run[c].layer)
        BY <2>1
    <2> QED BY <1>2, <2>2 DEF Fits, Authorised
<1> QED BY <1>1, <1>2

\* A step of a command that does not replace a file concerns nobody else's decision.
LEMMA FilesStayFits ==
    ASSUME Decided, NEW c \in Client, FilesStay, OthersStay(c), Fits(c)' PROVE Decided'
<1>1. ASSUME NEW p \in Client, p # c PROVE Fits(p)'
    BY <1>1, StillFits DEF Decided, FilesStay, OthersStay, diskVars, View
<1> QED BY <1>1 DEF Decided

\* Nor does one that does: the lock keeps the others from having decided.
LEMMA ReplacingFits ==
    ASSUME IInv, Decided, NEW c \in Client, run[c].at \in Committing \cup {"rename"},
           NEW r, Put(run[c].layer, r), UNCHANGED overwrote, OthersStay(c),
           run'[c].at \notin Deciding
    PROVE  Decided'
<1>1. ASSUME NEW p \in Client, p # c, run[p].layer = run[c].layer PROVE Fits(p)'
    <2>1. run[p].at \notin Holding
        BY <1>1, Parts DEF LockRespected, Holding, Prepared
    <2> QED BY <1>1, <2>1 DEF Fits, OthersStay, Holding, Prepared
<1>2. ASSUME NEW p \in Client, p # c, run[p].layer # run[c].layer PROVE Fits(p)'
    <2>1. run'[p] = run[p]
        BY <1>2 DEF OthersStay
    <2>2. View(run[p].layer)' = View(run[p].layer)
        BY <1>2, <2>1, Parts DEF Put, View, Typed, TypeOK, DisksOK
    <2> QED BY <1>2, <2>1, <2>2, StillFits DEF Decided
<1>3. Fits(c)'
    BY DEF Fits, Deciding
<1> QED BY <1>1, <1>2, <1>3 DEF Decided

\* migrate, unflagged, changes nothing that a layer shows.
LEMMA MigrateFits ==
    ASSUME Decided, UNCHANGED run, overwrote \subseteq overwrote',
           \A l \in Layer : l \notin overwrote' => View(l)' = View(l),
           \A c \in Client : run[c].layer \in Layer
    PROVE  Decided'
<1>1. ASSUME NEW c \in Client PROVE Fits(c)'
    <2>1. run[c].layer \notin overwrote' => View(run[c].layer)' = View(run[c].layer)
        OBVIOUS
    <2> QED BY <2>1, StillFits DEF Decided
<1> QED BY <1>1 DEF Decided

LEMMA RegisteredSelection ==
    ASSUME NEW c \in Client, run[c].reg \in Registry, NEW selects, ~selects
    PROVE  Registered(c, selects).selected = run[c].reg.selected
BY DEF Registered, Registry

\* What a command decides fits what it has read.
LEMMA DecidedStep == IInv /\ Decided /\ [Next]_vars => Decided'
<1> SUFFICES ASSUME IInv, Decided, [Next]_vars PROVE Decided'
    OBVIOUS
<1>0. /\ TypeOK /\ CommandsKnown /\ run \in [Client -> Running]
      /\ outcome \in [Client -> {"none", "acked", "refused", "unsure"}]
      /\ \A c \in Client : run[c].layer \in Layer /\ run[c] \in Running
    BY DEF IInv, Typed, TypeOK, ClientsOK, Running
<1> USE DEF Others, Commanders
<1>1. ASSUME NEW c \in Client, NEW command \in Commands, Start(c, command) PROVE Decided'
    <2>1. FilesStay /\ OthersStay(c) /\ run'[c].at \in {"wait", "done"}
        <3>1. CASE Exit(c, "refused")
            BY <1>1, <1>0, <3>1, ExitEffect DEF Start, FilesStay
        <3>2. CASE ~Exit(c, "refused")
            <4> DEFINE new == [NotRun EXCEPT !.at = "wait", !.cmd = command,
                                             !.layer = command.layer]
            <4>1. run' = [run EXCEPT ![c] = new]
                BY <1>1, <3>2 DEF Start
            <4>2. new.at = "wait"
                BY DEF NotRun
            <4> HIDE DEF new
            <4> QED BY <1>1, <1>0, <3>2, <4>1, <4>2 DEF Start, FilesStay, OthersStay
        <3> QED BY <3>1, <3>2
    <2> QED BY <2>1, FilesStayFits DEF Fits
<1>2. ASSUME NEW c \in Client, Acquire(c) PROVE Decided'
    BY <1>2, <1>0, GotoEffect, FilesStayFits DEF Acquire, FilesStay, Fits
<1>3. ASSUME NEW c \in Client, Read(c) PROVE Decided'
    <2> DEFINE now == View(run[c].layer)
    <2>1. FilesStay /\ run'[c].layer = run[c].layer /\ now' = now
        BY <1>3, <1>0 DEF Read, FilesStay, diskVars, View, Running
    <2>2. now \in Registry
        BY <1>0, ViewIsRegistry
    <2>3. CASE run[c].cmd.op = "register"
        <3>1. run' = [run EXCEPT ![c].at = "manifest", ![c].reg = now]
            BY <1>3, <2>3 DEF Read
        <3>2. OthersStay(c) /\ run'[c].at = "manifest" /\ run'[c].reg = now
            BY <1>3, <1>0, <3>1 DEF Read, OthersStay, Running
        <3>3. Fits(c)'
            BY <2>1, <3>2 DEF Fits, SameChoice
        <3> QED BY <2>1, <3>2, <3>3, FilesStayFits
    <2>4. CASE run[c].cmd.op # "register"
        <3>1. run' = [run EXCEPT ![c].at = "write", ![c].reg = Edited(c, now)]
            BY <1>3, <2>4 DEF Read
        <3>2. /\ OthersStay(c) /\ run'[c].at = "write" /\ run'[c].reg = Edited(c, now)
              /\ run'[c].cmd = run[c].cmd
            BY <1>3, <1>0, <3>1 DEF Read, OthersStay, Running
        <3>3. run[c].cmd.op \in {"use", "unregister"}
            BY <1>3, <1>0, <2>4, ConstantsAssumption DEF Read, CommandsKnown, Command
        <3>4. ASSUME run[c].cmd.op = "use" \/ run[c].cmd.id = now.selected PROVE Fits(c)'
            <4>1. Authorised(c)'
                BY <2>1, <3>2, <3>3, <3>4 DEF Authorised
            <4> QED BY <3>2, <4>1 DEF Fits
        <3>5. ASSUME run[c].cmd.op # "use", run[c].cmd.id # now.selected PROVE Fits(c)'
            <4>1. Edited(c, now).selected = now.selected
                BY <2>2, <3>5 DEF Edited, Registry
            <4> QED BY <2>1, <3>2, <4>1 DEF Fits
        <3> QED BY <2>1, <3>2, <3>4, <3>5, FilesStayFits
    <2> QED BY <2>3, <2>4
<1>4. ASSUME NEW c \in Client, ReadManifest(c) PROVE Decided'
    <2> DEFINE now == View(run[c].layer)
    <2>1. FilesStay /\ run'[c].layer = run[c].layer /\ run'[c].cmd = run[c].cmd /\ now' = now
        BY <1>4, <1>0 DEF ReadManifest, FilesStay, diskVars, View, Running
    <2>2. run[c].layer \notin overwrote => SameChoice(run[c].reg, now)
        BY <1>4 DEF ReadManifest, Decided, Fits
    <2>3. CASE Asks(c)
        <3>1. run' = [run EXCEPT ![c].at = "prompt"]
            BY <1>4, <2>3 DEF ReadManifest
        <3>2. OthersStay(c) /\ run'[c].at = "prompt" /\ run'[c].reg = run[c].reg
            <4>1. outcome' = outcome
                BY <1>4 DEF ReadManifest
            <4> QED BY <1>0, <3>1, <4>1 DEF OthersStay, Running
        <3> QED BY <2>1, <2>2, <3>2, FilesStayFits DEF Fits, FilesStay
    <2>4. CASE ~Asks(c)
        <3> DEFINE selects == \/ run[c].cmd.flag = "select"
                              \/ run[c].cmd.flag = "none" /\ SelectsFirst(c)
        <3>1. run' = [run EXCEPT ![c].at = "write", ![c].reg = Registered(c, selects)]
            BY <1>4, <2>4 DEF ReadManifest
        <3>2. selects => run[c].cmd.flag = "select" \/ run[c].reg.managers = {}
            BY DEF SelectsFirst
        <3>3. ~selects => Registered(c, selects).selected = run[c].reg.selected
            BY <1>0, RegisteredSelection DEF Running
        <3> HIDE DEF selects
        <3>4. /\ OthersStay(c) /\ run'[c].at = "write"
              /\ run'[c].reg = Registered(c, selects)
            <4>1. outcome' = outcome
                BY <1>4 DEF ReadManifest
            <4> QED BY <1>0, <3>1, <4>1 DEF OthersStay, Running
        <3>5. Fits(c)'
            BY <2>1, <2>2, <3>2, <3>3, <3>4 DEF Fits, FilesStay, SameChoice, Authorised
        <3> QED BY <2>1, <3>4, <3>5, FilesStayFits
    <2> QED BY <2>3, <2>4
<1>5. ASSUME NEW c \in Client, Answer(c) PROVE Decided'
    <2> DEFINE now == View(run[c].layer)
    <2>1. FilesStay /\ run'[c].layer = run[c].layer /\ now' = now
        BY <1>5, <1>0 DEF Answer, FilesStay, diskVars, View, Running
    <2>2. run[c].layer \notin overwrote => SameChoice(run[c].reg, now)
        BY <1>5 DEF Answer, Decided, Fits
    <2>3. PICK yes \in BOOLEAN :
             run' = [run EXCEPT ![c].at = "write", ![c].yes = yes,
                                ![c].reg = Registered(c, yes)]
        BY <1>5 DEF Answer
    <2>4. ~yes => Registered(c, yes).selected = run[c].reg.selected
        BY <1>0, RegisteredSelection DEF Running
    <2>5. /\ OthersStay(c) /\ run'[c].at = "write" /\ (yes => run'[c].yes)
          /\ run'[c].reg = Registered(c, yes)
        BY <1>5, <1>0, <2>3 DEF Answer, OthersStay, Running
    <2>6. Fits(c)'
        BY <2>1, <2>2, <2>4, <2>5 DEF Fits, FilesStay, SameChoice, Authorised
    <2> QED BY <2>1, <2>5, <2>6, FilesStayFits
<1>6. ASSUME NEW c \in Client, Refuse(c) \/ Kill(c) PROVE Decided'
    <2>1. FilesStay /\ OthersStay(c) /\ run'[c].at = "done"
        BY <1>6, <1>0, ExitEffect DEF Refuse, Kill, FilesStay
    <2> QED BY <2>1, FilesStayFits DEF Fits
<1>7. ASSUME NEW c \in Client, ReadBefore(c) \/ Compare(c) PROVE Decided'
    <2>1. FilesStay /\ View(run[c].layer)' = View(run[c].layer)
        BY <1>7, <1>0 DEF ReadBefore, Compare, Goto, FilesStay, diskVars, View, Running
    <2>2. /\ OthersStay(c) /\ run'[c].at \in {"compare", "rename"}
          /\ run[c].at \in {"write", "compare"} /\ run'[c].layer = run[c].layer
          /\ run'[c].reg = run[c].reg /\ run'[c].cmd = run[c].cmd /\ run'[c].yes = run[c].yes
        BY <1>7, <1>0 DEF ReadBefore, Compare, Goto, OthersStay, Running
    <2>3. Fits(c)'
        BY <2>1, <2>2 DEF Decided, Fits, Authorised, FilesStay
    <2> QED BY <2>1, <2>2, <2>3, FilesStayFits
<1>8. ASSUME NEW c \in Client, Rename(c) PROVE Decided'
    <2>1. OthersStay(c) /\ run'[c].at = "sync"
        BY <1>8, <1>0, GotoEffect DEF Rename
    <2> QED BY <1>8, <2>1, ReplacingFits DEF Rename, Deciding
<1>9. ASSUME NEW c \in Client, Restore(c) PROVE Decided'
    <2>1. OthersStay(c) /\ run'[c].at \in {"resync", "unrestored"}
        BY <1>9, <1>0, GotoEffect DEF Restore
    <2>2. CASE Put(run[c].layer, run[c].before)
        BY <1>9, <2>1, <2>2, ReplacingFits DEF Restore, Deciding, Committing
    <2>3. CASE UNCHANGED diskVars
        BY <1>9, <2>1, <2>3, FilesStayFits DEF Restore, FilesStay, Fits
    <2> QED BY <1>9, <2>2, <2>3 DEF Restore
<1>10. ASSUME NEW c \in Client, Sync(c) \/ Resync(c) PROVE Decided'
    <2>1. /\ OthersStay(c) /\ run'[c].at \in {"done", "restore"}
          /\ UNCHANGED <<file, legacy, overwrote>>
        BY <1>10, <1>0, GotoEffect, ExitEffect DEF Sync, Resync, SyncDirectory, diskVars
    <2>2. ASSUME NEW p \in Client, p # c PROVE Fits(p)'
        BY <2>1, <2>2, StillFits DEF Decided, OthersStay, View
    <2>3. Fits(c)'
        BY <2>1 DEF Fits
    <2> QED BY <2>2, <2>3 DEF Decided
<1>11. CASE StartMigrate \/ Plan \/ AddChange \/ Planned \/ CheckChange \/ KillMigrate
    <2>1. UNCHANGED <<diskVars, overwrote, run>>
        BY <1>11 DEF StartMigrate, Plan, AddChange, Planned, CheckChange, KillMigrate
    <2> QED BY <1>0, <2>1, MigrateFits DEF diskVars, View
<1>12. CASE WriteChange
    <2> DEFINE l == Foremost(mig.planned)
    <2>1. UNCHANGED run /\ l \in Layer
        BY <1>12 DEF WriteChange, Foremost, Layer
    <2>2. CASE Put(l, legacy[l]) /\ Overwrites(l, {Absent, legacy[l]} \cap {mig.before[l]})
        <3>1. overwrote \subseteq overwrote'
            BY <2>2 DEF Overwrites
        <3>2. /\ UNCHANGED legacy /\ file' = [file EXCEPT ![l] = legacy[l]]
              /\ l \notin overwrote' => file[l] \in {Absent, legacy[l]}
            BY <2>2 DEF Put, Overwrites
        <3> HIDE DEF l
        <3>3. ASSUME NEW k \in Layer, k \notin overwrote' PROVE View(k)' = View(k)
            BY <1>0, <2>1, <3>2, <3>3 DEF View, Absent, TypeOK, DisksOK
        <3> QED BY <1>0, <2>1, <3>1, <3>3, MigrateFits
    <2>3. CASE UNCHANGED <<diskVars, overwrote>>
        BY <1>0, <2>1, <2>3, MigrateFits DEF diskVars, View
    <2> QED BY <1>12, <2>2, <2>3 DEF WriteChange
<1>13. CASE Rollback
    <2> DEFINE l == Hindmost(mig.tried)
               was == mig.before[l]
    <2>1. UNCHANGED run /\ l \in Layer
        BY <1>13 DEF Rollback, Hindmost, Layer
    <2>2. CASE /\ Put(l, was)
               /\ Overwrites(l, IF was.present THEN {was} ELSE {was, legacy[l]})
        <3>1. overwrote \subseteq overwrote'
            BY <2>2 DEF Overwrites
        <3>2. /\ UNCHANGED legacy /\ file' = [file EXCEPT ![l] = was]
              /\ l \notin overwrote' =>
                   file[l] = was \/ (~was.present /\ file[l] = legacy[l])
            BY <2>2 DEF Put, Overwrites
        <3> HIDE DEF l, was
        <3>3. ASSUME NEW k \in Layer, k \notin overwrote' PROVE View(k)' = View(k)
            BY <1>0, <2>1, <3>2, <3>3 DEF View, TypeOK, DisksOK
        <3> QED BY <1>0, <2>1, <3>1, <3>3, MigrateFits
    <2>3. CASE UNCHANGED <<diskVars, overwrote>>
        BY <1>0, <2>1, <2>3, MigrateFits DEF diskVars, View
    <2> QED BY <1>13, <2>2, <2>3 DEF Rollback
<1>14. CASE PowerLoss
    <2>1. ASSUME NEW c \in Client PROVE run'[c].at \in {"idle", "done"}
        BY <1>14, <1>0 DEF PowerLoss, NotRun
    <2> QED BY <2>1 DEF Decided, Fits
<1>15. CASE UNCHANGED vars
    <2>1. UNCHANGED <<diskVars, overwrote, run>>
        BY <1>15 DEF vars
    <2> QED BY <1>0, <2>1, MigrateFits DEF diskVars, View
<1> QED
    BY <1>1, <1>2, <1>3, <1>4, <1>5, <1>6, <1>7, <1>8, <1>9, <1>10, <1>11, <1>12,
       <1>13, <1>14, <1>15
    DEF Next, ClientStep, Commit, MigrateStep

(***************************************************************************)
(* The theorems                                                            *)
(***************************************************************************)
LEMMA InitIInv == Init => IInv
<1> SUFFICES ASSUME Init PROVE IInv
    OBVIOUS
<1>1. PICK d \in Disks : file = d.file /\ legacy = d.legacy
    BY DEF Init
<1>2. /\ file \in [Layer -> Registry] /\ legacy \in [Layer -> Registry]
      /\ \A l \in Layer : file[l].by = {} /\ legacy[l].by = {}
    BY <1>1, ConstantsAssumption
<1>3. run = [c \in Client |-> NotRun] /\ NotRun.at = "idle" /\ NotRun.layer = "user"
      /\ NotRun.reg = Absent /\ NotRun.before = Absent
    BY DEF Init, NotRun
<1>4. NotRun \in Running
    BY AbsentIsRegistry DEF NotRun, Running, Layer
<1>5. TypeOK
    <2>1. DisksOK
        BY <1>2 DEF Init, DisksOK
    <2>2. ClientsOK
        BY <1>3, <1>4 DEF Init, ClientsOK
    <2>3. mig \in Migration
        BY AbsentIsRegistry DEF Init, NotMigrating, Migration
    <2>4. powers \in 0..MaxPower
        BY ConstantsAssumption DEF Init
    <2> QED BY <2>1, <2>2, <2>3, <2>4 DEF TypeOK, Init
<1>6. CommandsKnown /\ LockRespected
    BY <1>3 DEF CommandsKnown, LockRespected, Init, Holding, Prepared, Committing
<1>7. Absent.by = {}
    BY DEF Absent
<1>8. Lineage
    BY <1>2, <1>3, <1>7
    DEF Lineage, LineagePresent, Rooted, NoTraceYet, OwnFile, AckedEverywhere,
        RefusedNowhere, Init, NotMigrating, Layer
<1> QED BY <1>5, <1>6, <1>8 DEF IInv, Typed

LEMMA StepIInv == IInv /\ [Next]_vars => IInv'
BY TypeStep, LockStep, StepLineage DEF IInv, Typed

\* The registry's state is well typed, whatever commands, kills and power losses come.
THEOREM TypeCorrect == Spec => []TypeOK
<1>1. IInv => TypeOK
    BY DEF IInv, Typed
<1> QED BY <1>1, InitIInv, StepIInv, PTL DEF Spec

\* Every file that a power loss may leave contains each acknowledged command, unless
\* migrate overwrote what it had not seen.
THEOREM AcknowledgedIsKept == Spec => []AcknowledgedSurvives
<1>1. IInv => AcknowledgedSurvives
    BY DEF IInv, Lineage, AckedEverywhere, AcknowledgedSurvives
<1> QED BY <1>1, InitIInv, StepIInv, PTL DEF Spec

\* None contains a refused one, under the same condition.
THEOREM RefusedIsGone == Spec => []RefusedLeavesNothing
<1>1. IInv => RefusedLeavesNothing
    BY DEF IInv, Lineage, RefusedNowhere, RefusedLeavesNothing
<1> QED BY <1>1, InitIInv, StepIInv, PTL DEF Spec

\* A registry with managers gets another selection only by an explicit word: what was
\* decided under the lock is still about the registry that is replaced.
THEOREM SelectionIsAsked == Spec => NeverReselectsUnasked
<1>1. Init => Decided
    BY DEF Init, NotRun, Decided, Fits
<1>2. ASSUME IInv, Decided, NEW c \in Client, Rename(c), run[c].layer \notin overwrote,
             View(run[c].layer).managers # {}, ~Authorised(c)
      PROVE  file'[run[c].layer].selected = View(run[c].layer).selected
    <2>1. run[c].reg.selected = View(run[c].layer).selected
        BY <1>2 DEF Decided, Fits, Rename
    <2>2. /\ run[c].layer \in Layer /\ run[c].reg \in Registry
          /\ file \in [Layer -> Registry]
        BY <1>2 DEF IInv, Typed, TypeOK, DisksOK, ClientsOK, Running
    <2>3. Renamed(run[c].reg, c).selected = run[c].reg.selected
        BY <2>2 DEF Renamed, Registry
    <2>4. file'[run[c].layer] = Renamed(run[c].reg, c)
        BY <1>2, <2>2 DEF Rename, Put, Renamed
    <2> QED BY <2>1, <2>3, <2>4
<1>3. IInv /\ Decided =>
        \A c \in Client :
          LET l == run[c].layer IN
            Rename(c) /\ l \notin overwrote /\ View(l).managers # {} /\ ~Authorised(c) =>
                file'[l].selected = View(l).selected
    BY <1>2
<1> QED
    BY <1>1, <1>3, InitIInv, StepIInv, DecidedStep, PTL DEF Spec, NeverReselectsUnasked
===============================================================================
