# A verification project for curator-run

`curator-run` is the launcher of curated agent environments.  It starts a
provider directly ("native"), hands it to a host, or asks a *session manager*
plugin to start and keep it; it guards what it starts with a home lease, a
network policy and, for gateway launches, a private recovery journal.  These
modules model the parts in which several processes, crashes, lost replies and
durable files meet.  Section numbers such as 5.7 are those of `FRONT-DOOR.md`.

## 1. The system: components, state, interactions

| Component | State | Operations | Talks to |
|---|---|---|---|
| Session manager (`internal/sessionmanager/fakemanager`, the executable reference of section 5.7) | operation ledger, sessions, admission keys, generation counters, in one file under one lock | launch, resume, status, cancel, stop, list, attach | one plugin process per call; the provider |
| Session-manager client (`internal/sessionmanager/client`) | per lane: pending journal with its phase, retained settlements, liveness record, a lock | submit, recover, settle, abandon, rebind, compare-and-swap | plugin calls with a deadline; Curator's lease CLI |
| Werkstatt commands (`internal/werkstatt`) | none of their own | up, down, recycle, status, recover | client, registry, lease inventory |
| Home leases and lane allocation (`client/homelease_unix.go`, `werkstatt/allocation_unix.go`) | Curator's leases (external) | list, acquire, the allocation rule | every lane and ad-hoc launch on the machine |
| Manager registry (`internal/sessionmanager`) | registered managers and the selection, user or system scope | register, use, unregister | read by every hosted route |
| Recovery journal (`internal/recoveryjournal`) | secret entries, receipts, their temporaries, one namespace lock | Prepare, Issue, RecoverExact, PruneExact | gateway control socket; `gateway recover` |
| Gateway lease (`cmd/curator-run/lease_owner.go`, `internal/netproxy/lease.go`, `internal/execution/process.go`) | held signals, the child, the lease's goroutine | register, activate, renew, unregister, complete | gateway; provider; operator's signals |
| Launch command (`cmd/curator-run`) | one invocation: gateway default, route, prepared network, lease, child | resolve the route, plan, prepare, compose, recheck, spawn or delegate | everything above |
| Network policy (`internal/network`) | none; reads the catalog, settings and policy caches of the provider | prepare, guard, register, compose, recheck | files other programs write; the gateway |
| Doorbell (`internal/doorbell`) | provider settings file | install hooks | the workspace |
| Credentials (`internal/claudeauth`), composition and plan | none; reads the token's file | compose, inject | the provider's home |
| Migration (`internal/migrate`) | none | copy the deprecated files | the registry's files |
| Hosted transport (`internal/hosted`), member wire, configuration, fragments, prompts, CLI | pure | | |

The hard behaviours: a plugin call outlives the invocation that made it; the
reply of a start is lost; the launcher is killed between any two writes; a
manager id is registered again, or the selection changes, between submission and
recovery; two admissions compete for one home through a list that is read twice;
the power fails between a rename and its sync; a request times out and is served
anyway; a signal arrives at the boundary between two goroutines that read the
same channel; another program rewrites the catalog, a settings file or a policy
cache between two readings, or between the check and the child.  `PROJECT.json` lists each of them under `hazards`, at its line.

What makes each part correct: an operation id starts at most one process and none
after a final negative answer (manager); the lane never forgets what may be
alive and never starts a second generation automatically (client, commands); one
home hosts one lane and one lane one home (allocation); authority is durable
before the gateway is asked, and evidence is written in the order that keeps
every power loss readable (journal); a held signal is never lost and a reported
end is true (lease); an acknowledged registry change is never lost and a refused one
leaves nothing (registry); a network filter that was due is never dropped, the child
starts on no settings that the last check could have refused, and no refusal leaves a
registration behind (launch); what is admitted was one version of its file, and what is
overwritten was looked at (provider files).

## 2. Modules

| Module | Models | Composition |
|---|---|---|
| `Admission` | the abstract promise of a manager: fates of operations and holders of keys | implemented by `SessionManager` and by the managers inside `WerkstattLane` |
| `SessionManager` | the reference manager, one action per plugin call and per crash point | `A == INSTANCE Admission` |
| `WerkstattLane` | one lane: journal, settlements, liveness, the commands, with the managers, leases and registry around it | `A == INSTANCE Admission`, stores for keys |
| `Tenancy` | the abstract promise of the lane allocation: admissions move in under agreeing terms, and leave for good | implemented by `HomeAllocation` |
| `HomeAllocation` | many admissions of lanes and ad-hoc launches against Curator's leases | `T == INSTANCE Tenancy`; the leases `WerkstattLane` takes for granted |
| `RecoveryJournal` | the journal directories between syncs, one recovery or issue at a time, launches and gateway | what `GatewayLease` calls its completion |
| `GatewayLease` | one gateway launch: main goroutine, watcher, forwarder, duty goroutine, gateway | `recovering` selects the journal completion |
| `Registry` | the manager registry's commands and `migrate`, between syncs | the registry whose outcome `WerkstattLane` takes for granted |
| `NetworkPolicy` | the pure decisions: variable names the gateway refuses, composition and patch, native arguments and their entrypoint, permission, capabilities | extended by `Launch` |
| `Launch` | one launch from the front door to the child or the hosted session, with others that change catalog and settings | the registration `GatewayLease` starts from; readings are atomic here and stepwise in `ProviderFiles` |
| `ProviderFiles` | one reading of a policy cache or a token, or one replacement of the settings, call by call | the readings `Launch` takes for granted |
| `MC...` | constants, symmetry and constraints for TLC | |
| `..._proofs` | theorems and TLAPS proofs | extend the component's module |

### SessionManager
`ledger` is `State.Operations`, `session` `State.Sessions` (record, `Alive`,
`Gate`, generation, key), `admissions` `State.Admissions`, `generations`
`State.Generations`.  A call is one process under the file lock, so it is one
atomic action; the two saves of a start make `CrashAfterReservation` and the
`crashed` case of `StartProvider` separate outcomes.  A lost reply leaves `told`
alone: `told` is the only history variable the answers need, `starts` counts the
providers.  `unreadable` and `drifted` are the environment's record faults and
profile changes; the unreadable projection a retirement stores is permanent
(`intact`).  Planted faults of the conformance harness (`m.bad`, `m.fail`) are
left out, payload validation is the refusal of `RefuseStart`.  `Answer` is the answer on
the wire, outcome and code: an operation that started is answered `failed` with
`session_curator_identity_stale` (`IdentityStale`) once its session's identity no longer
matches (5.7), although it stays `started` in the ledger.

### WerkstattLane
`proc` is the invocation that holds the lane's lock and where it stands; every
durable write, plugin call and lease call is a step of its own, and `End` (error
return or kill) may come after any of them.  `flying` are launch and resume calls
whose plugin process runs, whether or not an invocation still waits: `Timeout`
kills the plugin's group, `End` does not.  The managers are one per `StoreOf` of a
registration and follow `SessionManager`, reduced to one admission key, the
lane's.  A leased start leaves its journal at `bind_pending`, so every later
invocation recovers it first and ends, until `--abandon-operation`: that is what
the code does and what `JournalCovers` uses.

### HomeAllocation
`ListBefore`, `Acquire`, `ListAfter` and `Submit` are the four points at which
other admissions interleave.  Curator grants every acquire (`\E h \in Home`); the
rule is entirely the launchers'.  `LeftBehind` looks for the plain pending operations of
a profile, a working directory and a manager binding; `Place` gives each admission its
directory and binding.  `want` is what the journal retains of the admission, `record` the lane record that the operator may edit in between.  The moment an
admission moves in, in the sense of `Tenancy`, is the mark `possibly_submitted`: its terms
are then what was wanted and the leased home, until the lease stops blocking.

### RecoveryJournal
`secrets` and `receipts` are what the directories show; `secretsMay` and
`receiptsMay` what a power loss may leave of each entry, a set that every rename
or unlink extends and a directory sync shrinks to the present.  File contents are
synced before they are renamed, so only names can be lost.  `proc` is the holder
of the namespace lock; register is sent outside it, as in `issue_unix.go`.
`flying` requests are served late or never.  Retentions name the receipt they were
anchored to by its number (a hash in the code).

### Registry
A command is a process that walks `Service.Run`: the authority check, the lock, the
reading, the manifest, the question, then `atomicWrite` call by call.  `Refuse` is
every early return before the rename; the guards of the other actions say where it
is the only way on.  `file` is what a layer's current home shows, `may` what a power
loss may leave of it, `legacy` the deprecated home that `View` falls back to.  A
registry's `by` is its lineage, the commands it descends from: losing an update is
losing lineage.  `migrate` takes no lock; `overwrote` marks the layers where it
replaced something other than what it planned on, and the safety properties say
nothing more of these.  The directories are taken to be durable: `MkdirAll` syncs no
parent.

### GatewayLease
`at` walks `launch` and `runNative`: a watched stage, its `stop`, its check, three
times; start, wait, join; drain, `Finish`.  The channel of held signals is the
counter `queue`, read by the watcher, the check, the forwarder, the drain and
`Fire`.  `wire` holds requests whose caller may have gone on (`"nobody"`).
`recovering` is chosen initially: completion through the journal, or
unregistering with retries.

### NetworkPolicy and Launch
`NetworkPolicy` has no state: an environment is a function from names to the layer that
set them last, a native tail a sequence of words, and a name or word stands for a class
of the tables of `network.go`, `claude_environment.go` and `native_args.go`.  A launch
is a record `inv` of everything that does not change while it runs.  `at` walks
`launch`, `resolveHost`, `Prepare`, `prepareGateway` and `runNative`; `Proceed` is a step
whose outcome depends on what the model leaves out, `Refuse` every early return, through
the deferred finish when there is a lease.  `Guard` lists the nine sources of
`settings_guard.go` in the order it reads them; the guard runs before the registration
and again before the child, one source per step.  `Others` change the catalog or one
source between any two steps.  `due` and `stale` are history: whether the launch owed the
operator a gateway or a refusal when it read the default (a gateway in the catalog that was
loaded, or a catalog seen that is gone at the load), and which sources were refusable at
every moment since the recheck began.  Of the values in an environment
`musePolicy` keeps two facts: `filed`, that the plan and the prompt name the backend with
"file" if at all, and `rooted`, that the fragment has a verified root context.

### ProviderFiles
An inode carries a text of chunks and a coarse modification time.  `seen` is what the
pass recorded of the file, `doc` what it has read, `home` the directory the doorbell
pinned.  `Edit`, `Replace`, `Unlink` and `Move` are what another program does between any
two calls; inode numbers are used again, except that of the open file.  A write in the
tick of the recorded time leaves no trace the code could see (`sameTick`): the property
excludes it, because size and time are all that is compared.  Likewise the doorbell
compares inodes, so an edit in place between its check and its rename is lost: that is
the single writer `settings_unix.go:147-148` assumes, and `NewcomerSurvives` speaks of
other inodes only.  `InstalledInPlace` is the other half of
`InstallLosesNothing`: success is only reported of the directory that `.claude` leads to at
that time and of a file with the hooks in it, unless somebody changed that file after it was
read back (`kept` is history: the entry is as it was then).

## 3. Runs

| Run | Shows | Bounds |
|---|---|---|
| `SessionManager` | ledger answers, keys, generations, gate; implements `Admission` | 3 operations, 2 sessions, 1 key, 3 generations; one disturbance at a time (drifted, unreadable or expired), and after an identity-stale answer one operation stays unused (both `Few`) |
| `LaneCommands` | up, down, recycle, status and `--abandon-operation` with kills, late calls, and one disturbance among a registration or selection change, an identity drift and a broken lease; recycle goes on as up --new, and down --force differs from down only in asking for less | 2 operations, 1 disturbance |
| `LaneRoutes` | two managers, re-registration onto another state, selection, rebind: no second generation, and the owner's evidence holds | 2 operations, 2 configuration changes, no lease break or drift |
| `LaneUncertain` | finding: a broken lease turns an uncertain operation into `not_started` | 1 operation |
| `LaneDrift` | finding: a drifted start is forgotten and a second generation starts | 2 operations, 2 changes |
| `HomeAllocation` | exclusive homes, one tuple per lane; implements `Tenancy`, so that the allocation is as if atomic and a marked start never becomes a waiting one again | 2 admissions, lanes, profiles, digests, homes |
| `JournalPower` | authority, evidence order, truth, durability, retention | 1 attempt, 3 boots, interval 2 of 3 ticks, 2 receipts |
| `RegistryCommands` | registry commands and a migration: nothing acknowledged is lost, nothing refused stays, no unasked selection, every command ends | 2 commands of 4, 2 managers, 1 migration, 1 power loss; two initial disks: a user registry in its present home, or deprecated ones in both layers |
| `RegistryMigrate` | finding: migrate overwrites a registry it never compared | 1 command, no power loss |
| `LeaseLaunch` | signals, true ends, liveness of the launch, both completions | 2 signals |
| `Launch` | no filter dropped, no spoilt source past the recheck, no registration left, no admitted plan refused by composition | some 2,600 invocations and 7 catalogs; 2 changes by others |
| `ProviderFiles` | one version admitted, no newcomer overwritten, no success reported of a directory moved away | 2 directories, 3 inodes, 5 texts, 2 ticks, 2 changes by others |

Why the bounds are enough.  Two operations are a generation and its successor.  One
disturbance among the lane's commands is enough for what a disturbance breaks by itself;
the re-registration and selection, which need two, have `LaneRoutes`.  Two admissions suffice
for pairwise properties, and the proofs remove the bound.  Entries of different
attempts meet in the journal only through the lock, the syncs (which settle
everything) and the capacity.  Three boots let an anchor be two boots old.  One
early and one later signal exercise every reader of the channel; the channel's
capacity of 8 is never reached (`MaxSignalsAssumption`).

The invocations of `MCLaunch` are families around a base, one per question (route, a
manager's capabilities, permission, environment, native tail, guard); a name or a word is
there for each class and each other spelling the rules distinguish, and tails have up to
three words because a rule looks at a word and its neighbours.  Two changes by others are
one that spoils and one that mends, or one to each of two readings.  Three inodes are a
file, its replacement and a reused number.

Several properties are conjunctions of named parts with a mutant for each of them:
`KeyGuardsOneGeneration` and `NoGenerationReturns` (manager), `RecordedEndsHold` and
`OwnerEvidenceHolds` (lane), `AllocationRule` (allocation), `RecordedEndsStand` (journal),
`LaunchEnds` (lease).

Two commands are a write and the one it could lose; a third reads only what one of
them left.  Deadlock is not checked for the journal, whose attempts and clock run
out, nor for the registry, the lease, the launch and the provider's files, whose
commands, launches and passes end.

Fairness (`GatewayLease!Fairness`): goroutines run, timers expire, calls time out
(weak fairness of `MainStep`, the watcher, the forwarder, `Fire`, `DutyStep`);
`Stopped` is strongly fair, because a pause that starts after the channel was closed
returns at once.  `GatewayAnswers` adds that a gateway that is asked again and again
to unregister answers at last; nothing is assumed of the completion through the
journal, of the provider, or of signals.  `Registry!Fairness`: a command's own steps
go on and its deadlines expire, except for a manifest that is read from a pipe, which
the code reads under the lock and without a deadline.  No other run needs fairness.

## 4. What is proved

For every value of the constants, under the assumptions the modules state on them and
nothing else, type correctness and every safety property that a run checks, for every
component.  Each `..._proofs` module has one inductive invariant, a lemma per step or per
kind of step, and one theorem per property.  One theorem has a hypothesis on a switch of
the environment (`NoSecondWithoutDrift`, below).

*SessionManager.*  The inductive invariant relates the ledger to what was told and
started: an operation that was told `failed` or `cancelled`, or whose entry is
absent, prepared, failed or cancelled, has no start; an entry with a handle names a
session whose generation it does not exceed; a key's holder is the operation of
the live session under it, or an uncertain reservation.  `FinalAnswersAgree` needs
that a `started` answer presupposes a started entry, which never changes.  It has one
exception, which 5.7 asks for: `failed` with `session_curator_identity_stale` is final to the
client, which clears its journal on it, and may stand between two `started` answers.  What
holds of it, and the invariant shows, is that it is only given of an operation that did
start; `LaneDrift` shows what the client makes of it.
`Implementation` maps ledger outcomes to fates and admissions to holders, and
shows that every step is an abstract step or a stutter.

*WerkstattLane.*  No property of the lane is inductive, because an invocation acts on what
it has read while managers answer, sessions end and calls without a caller run on.  The
invariant has two halves.  `Durable` ties files to ledgers: a pending operation is the last
one requested (`Numbered`); a generation exists where its manager's ledger says so, within
that manager's count and on the manager of its session (`Generations`); until the journal
says `possibly_submitted` nothing was sent, and the recorded generation is over or
overridden (`Unsent`); every operation but the pending one is settled, by a verdict that
holds (`Settlements`); the record names a generation as it was started (`Recorded`).
`UnderWay` carries what an invocation established from the step that read it to the step
that uses it: the row it lists, stops and commits (`RowStands`), the absence of a live
owner up to the call (`Ready`), what a reply or a verdict in hand claims (`Answers`,
`InHand`).  What makes it inductive is that the lock leaves the lane's files to one
invocation, and that what it relies on about a manager can only become truer: a session
that is down stays down, a final answer stays final, an operation is called once.

`NoSecondGeneration` is false when a session's Curator identity drifts; the run `LaneDrift`
shows how.  `NoSecondStart` says what holds nevertheless: of two generations alive at once,
on one manager or on two, the operator gave up the earlier or its manager disowned it for
its identity.  `NoSecondWithoutDrift` is `NoSecondGeneration` where `MayDrift` is FALSE, as
in `LaneRoutes`.  `NotStartedMeansUnsent`, which `LaneUncertain` refutes, has its true form
in the invariant (`Upheld`): a `not_started` verdict comes from a broken lease.
`Implementation` shows that the managers behind a lane, driven by its
invocations, implement `Admission` with stores for keys: an operation begins with its
key free, and whatever was refused for good never begins.

*HomeAllocation.*  The invariant orders two admissions whose leases block: of any
two that passed their second list, one saw the other's reservation, so the
conflict rule held for the pair; neither `want` nor a lease's home changes
afterwards, and a terminal lease never blocks again.  `Implementation` shows that the two
lists and the acquire between them amount to one atomic step of `Tenancy`: whoever is
marked agrees with everybody marked before, and only the end of its lease ends its stay.

*Registry.*  What is acknowledged or refused is a statement about files, but a file
comes from what some command read earlier, so the invariant follows each command's
lineage everywhere it can be: in what a power loss may leave, in the registries other
commands have read and will write, in the snapshot of `migrate`.  Whoever has read a
layer holds its lock, so nobody else's reading is outstanding when a command is
acknowledged or its restoration is synced; before its rename a command has left no
trace at all.  Every step is then one of nine kinds (it begins, thinks, exits, syncs,
replaces by its own file or by the old one, `migrate` reads or replaces, power fails),
and one lemma per kind keeps the invariant.  An unflagged replacement by `migrate`
removes a file without lineage, or the file it puts there.  For
`NeverReselectsUnasked` the invariant `Decided` says that what a command has made of a
registry still fits what its layer shows; such a replacement changes nothing shown.

*RecoveryJournal.*  The invariant speaks throughout of `secretsMay` and `receiptsMay`,
everything a power loss may leave, so that losing power keeps it.  `Authority` says that an
attempt whose token may be live has an entry in every such disk; `Truth` that an end on a
disk or in hand is the gateway's, which never takes one back; `Paired` that wherever an
ended entry may be left its receipt is, with the same number and outcome, which is where
the order of the syncs in `terminal_unix.go` and `prune_unix.go` is needed; `Aged` that no
retention of this boot is older than this boot's first sync of the receipt, from which
`RemovalAwaitsInterval` follows; `Locked` ties an invocation to the launch it belongs to.

*GatewayLease.*  `Held` says where a signal that arrived in time can be until it aborts
the launch: in the channel, or in the hand of the watcher, whose join puts it back before
the check looks.  `Room` says no signal is in two places, `Path` that nothing runs before
the start.  `Calls` says the main goroutine asks only for the end, so the answer that made
the verdict was to that; an ended session is never activated again.

*Launch.*  `Path` says where a lease and a child can be, which gives `LeaseEnded`; `Kept`
what a prepared network was admitted for; `Due` that a due filter has made the launch
managed and kept it from managers; `Watched` which sources the recheck has yet to see: a
source that stayed refusable is not among those it has passed.  `PreparedComposes` needs
no invariant beyond these but lemmas on the operators: what `gatewayPatch` unsets covers
every spelling of what the check refuses.

*ProviderFiles.*  `Recorded` is the argument of `readPolicyCache`: while the time that was
recorded still stands and no write fell into its tick, the file has the recorded text and
what was read is its beginning; together with the recorded size that is the whole text.
`Vouch` says that between check and rename the entry is the inode that was compared, unless
somebody changed it since.

Only model-checked: `SignalsReachTheChild` and `LaunchEnds` of the lease and `CommandsEnd`
of the registry, which are liveness under fairness and out of TLAPS's reach, and the three
findings.

## 5. Plan

Done in this order: manager and its promise; lane; allocation; journal; lease;
registry; launch and network policy; provider files; proofs of journal, lease, launch
and provider files; proofs of the lane; the refinements of `Admission` by its managers
and of `Tenancy` by the allocation.  Left, in this order:

1. an abstract promise of the journal's completion, as `Admission` is the manager's and
   `Tenancy` the allocation's, with `GatewayLease`, which takes it for granted, shown to
   need no more;
2. terminal job control of the child; the member lifecycle, once its process is in the
   repository;
3. the exact hosted hand-over, once a manager of that kind is accepted.

Observed on the way, without a run of its own: abandoned operations that the owner has
outrun stay in the liveness record (`store_unix.go:336`); a signal after the drain and
before the first unregister gives the unregister up before it was sent
(`lease_owner.go:90-100`), and the gateway's session then lasts until its idle bound; a `--` right after an option
word is skipped as the option's value, so that a print word behind it counts as a selector
(`network.go:169-174`, which `EffectiveEntrypoint` models); receipts are counted when an
attempt is prepared and not when one is published (`prepare_unix.go:204`), so those owed to
prepared attempts are not in the count (`capacity_unix.go:29`).

## 6. Not modelled

- *Hosted payload, status and restart* (`internal/hosted`): encodings and digests for
  managers with exact launch, which `sessionmanager/client/capabilities.go:81` refuses on this revision.
- *Member wire and objects*: codecs without state; the member process is not here.
- *Configuration, defaults, selectors, fragments, prompts, command line, diagnostics*:
  pure functions of their inputs; their result is part of `inv` in `Launch`.
- *The rest of `migrate`*: defaults and retired policies are rewritten sequentially.
- *In the client*: `Submit` without a lease, `EditDispatch`, the attach terminal and wire
  validation; in Werkstatt `list`, `validate` and the records' checks.
- *In the child*: stop and continue, the foreground group, and signals other than SIGINT
  and SIGTERM.
- Windows variants, validation, encoding and wording everywhere.

`PROJECT.json` gives the reason per component.
