--------------------------- MODULE RecoveryJournal ----------------------------
(***************************************************************************)
(* The private recovery journal of gateway launches (recoveryjournal/): a  *)
(* secret entry per attempt, written durably before the attempt's one      *)
(* register request, and the receipt and terminal entry that a later       *)
(* recovery publishes once the gateway has confirmed the attempt's end.    *)
(* The journal works under one namespace lock; register is sent outside of *)
(* it.  A process may be killed after any step and the machine may lose    *)
(* power, which undoes any suffix of the changes of a directory that were  *)
(* not synced.  File contents are synced before they are renamed into      *)
(* place, so a directory entry stands for its content.                     *)
(***************************************************************************)
EXTENDS Naturals, FiniteSets

CONSTANTS
    Attempt,      \* attempt ids
    MaxAttempts,  \* names a directory may hold before Prepare refuses
    Interval,     \* awake time an ended entry is kept
    MaxStamp,     \* bound: receipts written per attempt
    MaxBoot,      \* bound: boots
    MaxClock      \* bound: awake time per boot

ASSUME BoundsAssumption ==
    /\ MaxAttempts \in Nat /\ MaxStamp \in Nat /\ MaxClock \in Nat
    /\ Interval \in Nat \ {0} /\ MaxBoot \in Nat \ {0}

VARIABLES
    secrets,     \* Attempt -> its entry and temporaries in the secrets directory
    secretsMay,  \* Attempt -> what a power loss may leave of them
    receipts,    \* Attempt -> its receipt and temporary
    receiptsMay, \* Attempt -> what a power loss may leave of them
    proc,        \* the invocation that holds the namespace lock
    launch,      \* Attempt -> where its launch stands
    flying,      \* attempts whose register request is on its way
    service,     \* Attempt -> what the gateway holds for it
    clock,       \* the boot and its awake time
    stamp,       \* Attempt -> receipts written for it
    since,       \* Attempt -> when this boot first synced its receipt
    reported     \* attempts whose end was reported as committed

diskVars == <<secrets, secretsMay, receipts, receiptsMay, since>>
worldVars == <<launch, flying, service>>
vars == <<diskVars, proc, worldVars, clock, stamp, reported>>

(***************************************************************************)
(* Records                                                                 *)
(***************************************************************************)
Ended == {"revoked", "cancelled"}
NoOutcome == "none"
Unsynced == MaxClock + 1

\* A retention names the receipt it belongs to and when it was anchored.
NoRetention == [receipt |-> 0, boot |-> 0, anchor |-> 0]
Retention == [receipt : 0..MaxStamp, boot : 0..MaxBoot, anchor : 0..MaxClock]

Secret == [state : {"absent", "prepared", "ended"}, outcome : Ended \cup {NoOutcome},
           retention : Retention, temps : SUBSET {"prepare", "terminal"}]
NoSecret == [state |-> "absent", outcome |-> NoOutcome, retention |-> NoRetention,
             temps |-> {}]

\* A receipt is told from a rewritten one (another hash) by its number; 0 is none.
Receipt == [number : 0..MaxStamp, outcome : Ended \cup {NoOutcome}, temp : BOOLEAN]
NoReceipt == [number |-> 0, outcome |-> NoOutcome, temp |-> FALSE]

Idle == [at |-> "idle", op |-> "none", attempt |-> "none", outcome |-> NoOutcome,
         retention |-> NoRetention]
Step == {"idle", "publish", "syncPrepared", "confirm", "receipt", "publishReceipt",
         "syncReceipt", "anchor", "terminal", "replace", "syncTerminal",
         "checkSecret", "checkReceipt", "age", "unlinkSecret", "syncUnlinked",
         "unlinkReceipt", "syncGone"}

TypeOK ==
    /\ secrets \in [Attempt -> Secret] /\ receipts \in [Attempt -> Receipt]
    /\ secretsMay \in [Attempt -> SUBSET Secret]
    /\ receiptsMay \in [Attempt -> SUBSET Receipt]
    /\ proc \in [at : Step, op : {"none", "issue", "finish", "recover", "prune"},
                 attempt : Attempt \cup {"none"}, outcome : Ended \cup {NoOutcome},
                 retention : Retention]
    /\ launch \in [Attempt -> {"new", "preparing", "prepared", "sent", "holding",
                               "closing", "gone"}]
    /\ flying \subseteq Attempt
    /\ service \in [Attempt -> {"none", "issued"} \cup Ended]
    /\ clock \in [boot : 1..MaxBoot, now : 0..MaxClock]
    /\ stamp \in [Attempt -> 0..MaxStamp]
    /\ since \in [Attempt -> 0..Unsynced]
    /\ reported \subseteq Attempt

Init ==
    /\ secrets = [a \in Attempt |-> NoSecret]
    /\ secretsMay = [a \in Attempt |-> {NoSecret}]
    /\ receipts = [a \in Attempt |-> NoReceipt]
    /\ receiptsMay = [a \in Attempt |-> {NoReceipt}]
    /\ proc = Idle
    /\ launch = [a \in Attempt |-> "new"]
    /\ flying = {}
    /\ service = [a \in Attempt |-> "none"]
    /\ clock = [boot |-> 1, now |-> 0]
    /\ stamp = [a \in Attempt |-> 0]
    /\ since = [a \in Attempt |-> Unsynced]
    /\ reported = {}

(***************************************************************************)
(* The two directories                                                     *)
(***************************************************************************)
WriteSecret(a, s) ==
    /\ secrets' = [secrets EXCEPT ![a] = s]
    /\ secretsMay' = [secretsMay EXCEPT ![a] = @ \cup {s}]
    /\ UNCHANGED <<receipts, receiptsMay, since>>
WriteReceipt(a, r) ==
    /\ receipts' = [receipts EXCEPT ![a] = r]
    /\ receiptsMay' = [receiptsMay EXCEPT ![a] = @ \cup {r}]
    /\ UNCHANGED <<secrets, secretsMay, since>>

HasReceipt(a) == receipts[a].number # 0

\* A sync of a directory settles every entry of it.
SyncSecrets ==
    /\ secretsMay' = [a \in Attempt |-> {secrets[a]}]
    /\ UNCHANGED <<secrets, receipts, receiptsMay, since>>
SyncReceipts ==
    /\ receiptsMay' = [a \in Attempt |-> {receipts[a]}]
    /\ since' = [a \in Attempt |-> IF HasReceipt(a) /\ since[a] = Unsynced
                                   THEN clock.now ELSE since[a]]
    /\ UNCHANGED <<secrets, secretsMay, receipts>>

\* The names the capacity checks count: entries and temporaries.
SecretNames == Cardinality({a \in Attempt : secrets[a].state # "absent"})
    + Cardinality({a \in Attempt : "prepare" \in secrets[a].temps})
    + Cardinality({a \in Attempt : "terminal" \in secrets[a].temps})
ReceiptNames == Cardinality({a \in Attempt : HasReceipt(a)})
    + Cardinality({a \in Attempt : receipts[a].temp})

Goto(step) == proc' = [proc EXCEPT !.at = step]

\* The lock is given up.  A launch whose part the invocation was goes on, or is
\* over; a recovery of another process leaves the launch alone.
Leave(next) ==
    /\ proc' = Idle
    /\ launch' = IF proc.op \in {"issue", "finish"}
                 THEN [launch EXCEPT ![proc.attempt] = next] ELSE launch

World == UNCHANGED <<flying, service, clock, stamp, reported>>
Quiet == UNCHANGED launch /\ World

(***************************************************************************)
(* Prepare                                                                 *)
(***************************************************************************)
\* One process at a time works on the namespace, under its lock.
Unlocked == proc.at = "idle"

Full == ReceiptNames \geq MaxAttempts \/ SecretNames \geq MaxAttempts

\* Capacity is checked under the lock, before the temporary is created.
Prepare(a) ==
    /\ Unlocked /\ launch[a] = "new"
    /\ secrets[a].state = "absent" /\ ~Full
    /\ WriteSecret(a, [secrets[a] EXCEPT !.temps = @ \cup {"prepare"}])
    /\ proc' = [Idle EXCEPT !.at = "publish", !.op = "issue", !.attempt = a]
    /\ launch' = [launch EXCEPT ![a] = "preparing"]
    /\ World

PublishPrepared ==
    /\ proc.at = "publish"
    /\ LET a == proc.attempt IN
         WriteSecret(a, [secrets[a] EXCEPT !.state = "prepared", !.temps = @ \ {"prepare"}])
    /\ Goto("syncPrepared") /\ Quiet

\* Mutant of SyncPrepared: the rename counts as durable.
SkipSyncPrepared ==
    /\ proc.at = "syncPrepared"
    /\ UNCHANGED diskVars
    /\ Leave("prepared") /\ World

SyncPrepared ==
    /\ proc.at = "syncPrepared"
    /\ SyncSecrets
    /\ Leave("prepared") /\ World

\* Any error, or a kill: what is on the disk stays, temporaries included.
Fail ==
    /\ proc.at # "idle"
    /\ UNCHANGED diskVars
    /\ Leave("gone") /\ World

(***************************************************************************)
(* The launch and its one register request                                 *)
(***************************************************************************)
LaunchStep(a, from, to) ==
    /\ launch[a] = from /\ proc.attempt # a
    /\ launch' = [launch EXCEPT ![a] = to]

SendRegister(a) ==
    /\ LaunchStep(a, "prepared", "sent")
    /\ flying' = flying \cup {a}
    /\ UNCHANGED <<diskVars, proc, service, clock, stamp, reported>>

\* The gateway serves the request, late or not.  Any reply but a registration,
\* and no reply, makes the launch complete the attempt.
Deliver(a) ==
    /\ a \in flying
    /\ flying' = flying \ {a}
    /\ \E issues, replies \in BOOLEAN :
         /\ issues => service[a] = "none"
         /\ service' = IF issues THEN [service EXCEPT ![a] = "issued"] ELSE service
         /\ launch' = IF launch[a] # "sent" THEN launch
                      ELSE [launch EXCEPT ![a] = IF issues /\ replies THEN "holding"
                                                 ELSE "closing"]
    /\ UNCHANGED <<diskVars, proc, clock, stamp, reported>>

\* The register deadline passes, or the child and its launch end.
Close(a) ==
    /\ \E from \in {"sent", "holding"} : LaunchStep(a, from, "closing")
    /\ UNCHANGED <<diskVars, proc, flying, service, clock, stamp, reported>>

KillLaunch(a) ==
    /\ \E from \in {"prepared", "sent", "holding", "closing"} : LaunchStep(a, from, "gone")
    /\ UNCHANGED <<diskVars, proc, flying, service, clock, stamp, reported>>

(***************************************************************************)
(* RecoverExact: by the launch itself, or by gateway recover               *)
(***************************************************************************)
Recover(a, op) ==
    /\ Unlocked /\ secrets[a].state # "absent"
    /\ op = "finish" => launch[a] = "closing"
    /\ proc' = [Idle EXCEPT !.at = "confirm", !.op = op, !.attempt = a]
    /\ UNCHANGED diskVars /\ Quiet

\* Mutant of EndOf: the gateway's status is taken for an outcome.
EndUnread(state) == state

\* The gateway ends the attempt, or says how it ended.
EndOf(state) == CASE state = "none" -> "cancelled" [] state = "issued" -> "revoked"
                  [] OTHER -> state

\* Mutant of Confirm: an attempt the gateway does not know counts as cancelled.
ConfirmUnfenced ==
    /\ proc.at = "confirm"
    /\ LET a == proc.attempt
           end == EndOf(service[a])
       IN  /\ service' = [service EXCEPT ![a] = IF @ = "none" THEN @ ELSE end]
           /\ \/ /\ secrets[a].state = "ended" => secrets[a].outcome = end
                 /\ proc' = [proc EXCEPT !.at = "receipt", !.outcome = end]
                 /\ UNCHANGED launch
              \/ Leave("gone")
    /\ UNCHANGED <<diskVars, flying, clock, stamp, reported>>

\* The reply may be lost; an ended entry must be told what it already says.
Confirm ==
    /\ proc.at = "confirm"
    /\ LET a == proc.attempt
           end == EndOf(service[a])
       IN  /\ service' = [service EXCEPT ![a] = end]
           /\ \/ /\ secrets[a].state = "ended" => secrets[a].outcome = end
                 /\ proc' = [proc EXCEPT !.at = "receipt", !.outcome = end]
                 /\ UNCHANGED launch
              \/ Leave("gone")
    /\ UNCHANGED <<diskVars, flying, clock, stamp, reported>>

\* Mutant of CommitReceipt: an existing receipt is taken as it is.
CommitReceiptUnsynced ==
    /\ proc.at = "receipt"
    /\ LET a == proc.attempt IN
         IF HasReceipt(a)
         THEN /\ receipts[a].outcome = proc.outcome
              /\ UNCHANGED diskVars /\ Goto("anchor")
         ELSE /\ ~receipts[a].temp
              /\ WriteReceipt(a, [receipts[a] EXCEPT !.temp = TRUE])
              /\ Goto("publishReceipt")
    /\ Quiet

\* A receipt found is synced again, never rewritten; a foreign temporary stops
\* the commit.
CommitReceipt ==
    /\ proc.at = "receipt"
    /\ LET a == proc.attempt IN
         IF HasReceipt(a)
         THEN receipts[a].outcome = proc.outcome /\ SyncReceipts /\ Goto("anchor")
         ELSE /\ ~receipts[a].temp
              /\ WriteReceipt(a, [receipts[a] EXCEPT !.temp = TRUE])
              /\ Goto("publishReceipt")
    /\ Quiet

PublishReceipt ==
    /\ proc.at = "publishReceipt"
    /\ LET a == proc.attempt IN
         /\ stamp[a] < MaxStamp
         /\ stamp' = [stamp EXCEPT ![a] = @ + 1]
         /\ WriteReceipt(a, [number |-> stamp[a] + 1, outcome |-> proc.outcome, temp |-> FALSE])
    /\ Goto("syncReceipt")
    /\ UNCHANGED <<launch, flying, service, clock, reported>>

SyncReceipt ==
    /\ proc.at = "syncReceipt"
    /\ SyncReceipts
    /\ Goto("anchor") /\ Quiet

\* An error before publication removes the invocation's own temporary.
CleanUp ==
    /\ LET a == proc.attempt IN
         \/ /\ proc.at = "publishReceipt"
            /\ receipts' = [receipts EXCEPT ![a].temp = FALSE]
            /\ receiptsMay' = [b \in Attempt |-> {receipts'[b]}]
            /\ UNCHANGED <<secrets, secretsMay, since>>
         \/ /\ proc.at = "replace"
            /\ secrets' = [secrets EXCEPT ![a].temps = @ \ {"terminal"}]
            /\ secretsMay' = [b \in Attempt |-> {secrets'[b]}]
            /\ UNCHANGED <<receipts, receiptsMay, since>>
    /\ Leave("gone") /\ World

\* Mutant of NextRetention: an old anchor is kept across boots.
NextRetentionKept(a) ==
    IF secrets[a].state = "ended" THEN secrets[a].retention
    ELSE [receipt |-> receipts[a].number, boot |-> clock.boot, anchor |-> clock.now]

\* An anchor of this boot is kept; any other boot's starts again.
NextRetention(a) ==
    IF secrets[a].state = "ended" /\ secrets[a].retention.boot = clock.boot
    THEN secrets[a].retention
    ELSE [receipt |-> receipts[a].number, boot |-> clock.boot, anchor |-> clock.now]

RetentionMatches(a) ==
    secrets[a].state = "ended" => secrets[a].retention.receipt = receipts[a].number

\* The awake clock is read only after the receipt is durable.
Anchor ==
    /\ proc.at = "anchor" /\ RetentionMatches(proc.attempt)
    /\ proc' = [proc EXCEPT !.at = "terminal", !.retention = NextRetention(proc.attempt)]
    /\ UNCHANGED diskVars /\ Quiet

CommitTerminal ==
    /\ proc.at = "terminal"
    /\ LET a == proc.attempt IN
         /\ "terminal" \notin secrets[a].temps
         /\ WriteSecret(a, [secrets[a] EXCEPT !.temps = @ \cup {"terminal"}])
    /\ Goto("replace") /\ Quiet

Replace ==
    /\ proc.at = "replace"
    /\ LET a == proc.attempt IN
         WriteSecret(a, [state |-> "ended", outcome |-> proc.outcome,
                         retention |-> proc.retention, temps |-> secrets[a].temps \ {"terminal"}])
    /\ Goto("syncTerminal") /\ Quiet

\* Mutant of SyncTerminal: success is reported on the rename.
SkipSyncTerminal ==
    /\ proc.at = "syncTerminal"
    /\ UNCHANGED diskVars
    /\ reported' = IF proc.op = "prune" THEN reported ELSE reported \cup {proc.attempt}
    /\ Leave("gone")
    /\ UNCHANGED <<flying, service, clock, stamp>>

SyncTerminal ==
    /\ proc.at = "syncTerminal"
    /\ SyncSecrets
    /\ reported' = IF proc.op = "prune" THEN reported ELSE reported \cup {proc.attempt}
    /\ Leave("gone")
    /\ UNCHANGED <<flying, service, clock, stamp>>

(***************************************************************************)
(* PruneExact                                                              *)
(***************************************************************************)
\* A prepared entry is never pruned: its register may still be uncertain.
Prune(a) ==
    /\ Unlocked /\ secrets[a].state = "ended"
    /\ proc' = [Idle EXCEPT !.at = "checkSecret", !.op = "prune", !.attempt = a,
                            !.outcome = secrets[a].outcome]
    /\ UNCHANGED diskVars /\ Quiet

CheckSecret ==
    /\ proc.at = "checkSecret"
    /\ SyncSecrets
    /\ Goto("checkReceipt") /\ Quiet

CheckReceipt ==
    /\ proc.at = "checkReceipt"
    /\ HasReceipt(proc.attempt) /\ receipts[proc.attempt].outcome = proc.outcome
    /\ SyncReceipts
    /\ Goto("age") /\ Quiet

\* Another boot restarts the retention; otherwise age decides.
CheckAge ==
    /\ proc.at = "age" /\ RetentionMatches(proc.attempt)
    /\ LET next == NextRetention(proc.attempt) IN
         IF next.boot # secrets[proc.attempt].retention.boot
         THEN proc' = [proc EXCEPT !.at = "terminal", !.retention = next] /\ UNCHANGED launch
         ELSE IF clock.now \geq next.anchor + Interval
         THEN Goto("unlinkSecret") /\ UNCHANGED launch
         ELSE Leave("gone")
    /\ UNCHANGED diskVars /\ World

UnlinkSecret ==
    /\ proc.at = "unlinkSecret"
    /\ LET a == proc.attempt IN
         WriteSecret(a, [NoSecret EXCEPT !.temps = secrets[a].temps])
    /\ Goto("syncUnlinked") /\ Quiet

\* Mutant of SyncUnlinked: the secret's absence is not made durable.
SkipSyncUnlinked ==
    /\ proc.at = "syncUnlinked"
    /\ UNCHANGED diskVars
    /\ Goto("unlinkReceipt") /\ Quiet

\* The receipt goes only after the secret's absence is durable.
SyncUnlinked ==
    /\ proc.at = "syncUnlinked"
    /\ SyncSecrets
    /\ Goto("unlinkReceipt") /\ Quiet

UnlinkReceipt ==
    /\ proc.at = "unlinkReceipt"
    /\ WriteReceipt(proc.attempt, [NoReceipt EXCEPT !.temp = receipts[proc.attempt].temp])
    /\ Goto("syncGone") /\ Quiet

SyncGone ==
    /\ proc.at = "syncGone"
    /\ SyncReceipts
    /\ Leave("gone") /\ World

(***************************************************************************)
(* Time and power                                                          *)
(***************************************************************************)
Tick ==
    /\ clock.now < MaxClock
    /\ clock' = [clock EXCEPT !.now = @ + 1]
    /\ UNCHANGED <<diskVars, proc, worldVars, stamp, reported>>

\* The gateway keeps its registry; everything in flight and in memory is gone.
PowerLoss ==
    /\ clock.boot < MaxBoot
    /\ clock' = [boot |-> clock.boot + 1, now |-> 0]
    /\ secrets' \in {s \in [Attempt -> UNION {secretsMay[a] : a \in Attempt}] :
                       \A a \in Attempt : s[a] \in secretsMay[a]}
    /\ receipts' \in {r \in [Attempt -> UNION {receiptsMay[a] : a \in Attempt}] :
                        \A a \in Attempt : r[a] \in receiptsMay[a]}
    /\ secretsMay' = [a \in Attempt |-> {secrets'[a]}]
    /\ receiptsMay' = [a \in Attempt |-> {receipts'[a]}]
    /\ proc' = Idle /\ flying' = {}
    /\ launch' = [a \in Attempt |-> IF launch[a] = "new" THEN "new" ELSE "gone"]
    /\ since' = [a \in Attempt |-> Unsynced]
    /\ UNCHANGED <<service, stamp, reported>>

(***************************************************************************)
(* Specification                                                           *)
(***************************************************************************)
JournalStep ==
    \/ PublishPrepared \/ SyncPrepared \/ Confirm
    \/ CommitReceipt \/ PublishReceipt \/ SyncReceipt \/ CleanUp
    \/ Anchor \/ CommitTerminal \/ Replace \/ SyncTerminal
    \/ CheckSecret \/ CheckReceipt \/ CheckAge
    \/ UnlinkSecret \/ SyncUnlinked \/ UnlinkReceipt \/ SyncGone
    \/ Fail

AttemptStep(a) ==
    \/ Prepare(a) \/ SendRegister(a) \/ Deliver(a) \/ Close(a) \/ KillLaunch(a)
    \/ \E op \in {"finish", "recover"} : Recover(a, op)
    \/ Prune(a)

Next == JournalStep \/ (\E a \in Attempt : AttemptStep(a)) \/ Tick \/ PowerLoss

Spec == Init /\ [][Next]_vars

(***************************************************************************)
(* Properties                                                              *)
(***************************************************************************)
\* The gateway may hold, or may still come to hold, a live session of the attempt.
MayBeLive(a) == service[a] = "issued" \/ (a \in flying /\ service[a] = "none")

\* "It sends only after a checked durable prepare" and "retains the original
\* envelope": whatever may be live can be ended, whenever the power fails.
AuthorityKept ==
    \A a \in Attempt : MayBeLive(a) => \A s \in secretsMay[a] : s.state # "absent"

\* An ended entry never stands without exactly the receipt it was anchored to:
\* published after it, removed before it, across any power loss.
EndedHasItsReceipt ==
    \A a \in Attempt : \A s \in secretsMay[a] : s.state = "ended" =>
        \A r \in receiptsMay[a] : r.number = s.retention.receipt /\ r.outcome = s.outcome

\* What the journal says of the end of an attempt is what the gateway did, and
\* no late register makes it false.
RecordedEndsAreTrue ==
    \A a \in Attempt :
        /\ \A s \in secretsMay[a] : s.state = "ended" => service[a] = s.outcome
        /\ \A r \in receiptsMay[a] : r.number # 0 => service[a] = r.outcome

\* The journal's word on an end: receipted, and true of the gateway (terminal, confirm).
RecordedEndsStand == EndedHasItsReceipt /\ RecordedEndsAreTrue

\* A success that was reported survives a power loss: the attempt never reads
\* as prepared again.
ReportedIsDurable ==
    \A a \in reported : \A s \in secretsMay[a] : s.state # "prepared"

\* Seven awake days, and "a new boot restarts the interval": an entry is removed
\* only an interval after the running boot first synced its receipt.
RemovalAwaitsInterval ==
    [][\A a \in Attempt :
          secrets[a].state = "ended" /\ secrets'[a].state = "absent" /\ clock' = clock =>
              clock.now \geq since[a] + Interval]_vars
===============================================================================
